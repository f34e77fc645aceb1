-------------------------- MODULE ConnectionProofs --------------------------
(***************************************************************************)
(* Proofs about Connection, for any number of connections, of callbacks and  *)
(* of addresses: a callback always finds its own value in the table of       *)
(* handles, and a connection that was in use leaves nothing there.           *)
(*                                                                         *)
(* The argument.  While the sqlite3 object is open, every callback registered *)
(* with it has its handle in the table (Registrations); SQLite makes         *)
(* callbacks only while it is open (CallsInTime), and deleteHandles comes     *)
(* after it is freed (ObjectState).  Guarded follows the users.               *)
(***************************************************************************)
EXTENDS Connection, TLAPS

UsedPcs     == {"hooked", "open", "o.close", "c.close", "o.delete", "c.delete"}
CallPcs     == {"authenticate", "user_add", "hooked", "open", "o.close", "c.close"}
LatePcs     == {"pragmas", "synchronous", "schema", "extensions", "hook"}
UnopenedPcs == {"new", "open_v2"}
FreedPcs    == {"o.delete", "c.delete"}

Registrations ==
  \A c \in Conns : db[c] = "open" =>
    \A n \in DOMAIN slots[c] :
      /\ slots[c][n] \in DOMAIN handleVals
      /\ handleVals[slots[c][n]] = [conn |-> c, name |-> n]

CallsInTime ==
  \A c \in Conns : call[c] # None => pc[c] \in CallPcs

ObjectState ==
  \A c \in Conns :
    /\ pc[c] \notin UnopenedPcs \cup FreedPcs \cup {"failed", "closed"} => db[c] = "open"
    /\ pc[c] \in FreedPcs => db[c] = "freed"
    /\ pc[c] \in UnopenedPcs => DOMAIN slots[c] = {}

\* What the connection hook has seen is freed by SQLiteConn.Close.
HookedState == \A c \in Conns : hooked[c] => pc[c] \in UsedPcs \cup {"failed", "closed"}

\* Past AuthUserAdd there is a user; and a table once made stays.
Guarded ==
  \A c \in Conns : opts[c].create /\ (pc[c] \in LatePcs \/ hooked[c]) => users

IInv ==
  /\ TypeOK /\ Registrations /\ CallsInTime /\ ObjectState /\ HookedState
  /\ CallbackFindsIts /\ NothingLeft /\ Guarded

-----------------------------------------------------------------------------
\* Nothing is open, registered or running at the start.
LEMMA InitInvariant == Init => IInv
<1> SUFFICES ASSUME Init PROVE IInv
  OBVIOUS
<1> USE NamesAssumption
<1>1. TypeOK
  BY DEF Init, TypeOK, Options, Pcs
<1>2. Registrations /\ CallsInTime /\ ObjectState /\ HookedState
  BY DEF Init, Registrations, CallsInTime, ObjectState, HookedState, CallPcs,
         UnopenedPcs, FreedPcs, UsedPcs
<1>3. CallbackFindsIts /\ NothingLeft
  BY DEF Init, CallbackFindsIts, NothingLeft
<1>4. Guarded
  BY DEF Init, Guarded, LatePcs
<1>5. QED
  BY <1>1, <1>2, <1>3, <1>4 DEF IInv

\* What Registered and Refused do to the table and to what SQLite has.
HandleAdded(c, n) ==
  /\ DOMAIN handleVals \subseteq DOMAIN handleVals'
  /\ DOMAIN handleVals' \subseteq Addresses
  /\ \A p \in DOMAIN handleVals : handleVals'[p] = handleVals[p]
  /\ \A p \in DOMAIN handleVals' \ DOMAIN handleVals :
       handleVals'[p] = [conn |-> c, name |-> n]
  /\ DOMAIN slots' = Conns
  /\ \A d \in Conns \ {c} : slots'[d] = slots[d]
  /\ \A m \in DOMAIN slots'[c] :
       \/ m \in DOMAIN slots[c] /\ slots'[c][m] = slots[c][m]
       \/ m = n /\ slots'[c][m] \in DOMAIN handleVals' \ DOMAIN handleVals

\* Registering adds at most one handle, of this connection and callback, and
\* SQLite is given that handle or keeps what it had.
LEMMA RegisteredAdds ==
  ASSUME TypeOK, NEW c \in Conns, NEW n, Registered(c, n) \/ Refused(c, n)
  PROVE  HandleAdded(c, n)
<1> USE DEF NewHandle, Put, TypeOK, HandleAdded
<1>1. CASE Registered(c, n)
  BY <1>1 DEF Registered
<1>2. CASE Refused(c, n)
  BY <1>2 DEF Refused
<1>3. QED
  BY <1>1, <1>2

\* A step that adds a handle keeps the type invariant.
LEMMA AddingKeepsType ==
  ASSUME TypeOK, NEW c \in Conns, NEW n \in Names, HandleAdded(c, n),
         pc' \in [Conns -> Pcs], todo' \in [Conns -> SUBSET AuthFunctions],
         UNCHANGED <<db, inTx, opts, call, users, hooked>>
  PROVE  TypeOK'
<1>1. \A p \in DOMAIN handleVals' : handleVals'[p] \in [conn : Conns, name : Names]
  BY DEF TypeOK, HandleAdded
<1>2. \A d \in Conns : /\ DOMAIN slots'[d] \subseteq Names
                       /\ \A m \in DOMAIN slots'[d] : slots'[d][m] \in Addresses
  BY DEF TypeOK, HandleAdded
<1>3. QED
  BY <1>1, <1>2 DEF HandleAdded, TypeOK

\* A step that adds a handle for a connection still in use disturbs nobody's.
LEMMA AddingKeepsTable ==
  ASSUME IInv, NEW c \in Conns, NEW n \in Names, HandleAdded(c, n),
         pc[c] \notin {"closed", "failed"}, UNCHANGED <<db, call, hooked>>,
         pc'[c] # "closed", pc'[c] = "failed" => ~hooked[c],
         \A d \in Conns \ {c} : pc'[d] = pc[d]
  PROVE  Registrations' /\ CallbackFindsIts' /\ NothingLeft'
<1> USE DEF IInv, HandleAdded
<1>1. Registrations'
  BY DEF Registrations, TypeOK
<1>2. CallbackFindsIts'
  BY DEF CallbackFindsIts
<1>3. NothingLeft'
  BY DEF NothingLeft, OwnHandles
<1>4. QED
  BY <1>1, <1>2, <1>3

\* Every step keeps the type invariant.
LEMMA TypeStep == IInv /\ [Next]_vars => TypeOK'
<1> SUFFICES ASSUME IInv, [Next]_vars PROVE TypeOK'
  OBVIOUS
<1> USE NamesAssumption, DSNsAssumption
        DEF IInv, TypeOK, Names, Pcs, Goto, sqliteVars, callVars
<1>1. ASSUME NEW c \in Conns, NEW o \in DSNs, Parse(c, o) PROVE TypeOK'
  BY <1>1 DEF Parse
<1>2. ASSUME NEW c \in Conns, OpenV2(c) PROVE TypeOK'
  BY <1>2 DEF OpenV2
<1>3. ASSUME NEW c \in Conns, BusyTimeout(c) PROVE TypeOK'
  BY <1>3 DEF BusyTimeout, Pass, FailFreeing
<1>4. ASSUME NEW c \in Conns, RegisterCrypt(c) PROVE TypeOK'
  <2>1. CASE Registered(c, Crypt) \/ Refused(c, Crypt)
    <3>1. HandleAdded(c, Crypt)
      BY <2>1, RegisteredAdds
    <3>2. Goto(c, "authenticate") \/ Goto(c, "failed")
      BY <1>4, Zenon DEF RegisterCrypt, Pass, Fail
    <3>2a. pc' \in [Conns -> Pcs]
      BY <3>2
    <3>2b. todo' = todo
      BY <1>4, Zenon DEF RegisterCrypt, Pass, Fail
    <3>3. UNCHANGED <<db, inTx, opts, call, users, hooked>>
      BY <1>4, Zenon DEF RegisterCrypt, Pass, Fail
    <3>4. QED
      BY <3>1, <3>2a, <3>2b, <3>3, AddingKeepsType
  <2>2. pc[c] = "crypt"
    BY <1>4 DEF RegisterCrypt
  <2>3. CASE Pass(c, "authenticate") \/ Fail(c)
    BY <2>2, <2>3 DEF Pass, Fail
  <2>4. QED
    BY <1>4, <2>1, <2>3 DEF RegisterCrypt
<1>5. ASSUME NEW c \in Conns, Encode(c) PROVE TypeOK'
  BY <1>5 DEF Encode, Trampoline
<1>6. ASSUME NEW c \in Conns, Authenticate(c) PROVE TypeOK'
  BY <1>6 DEF Authenticate, Pass, Fail
<1>7. ASSUME NEW c \in Conns, NEW n \in AuthFunctions, RegisterAuthFunction(c, n)
      PROVE TypeOK'
  <2>1. CASE Registered(c, n) \/ Refused(c, n)
    <3>1. HandleAdded(c, n)
      BY <2>1, RegisteredAdds
    <3>2. /\ pc' \in [Conns -> Pcs] /\ todo' \in [Conns -> SUBSET AuthFunctions]
          /\ UNCHANGED <<db, inTx, opts, call, users, hooked>>
      BY <1>7 DEF RegisterAuthFunction
    <3>3. QED
      BY <3>1, <3>2, AddingKeepsType
  <2>2. QED
    BY <1>7, <2>1 DEF RegisterAuthFunction
<1>8. ASSUME NEW c \in Conns, AutoVacuum(c) PROVE TypeOK'
  BY <1>8 DEF AutoVacuum, Pass, FailFreeing
<1>9. ASSUME NEW c \in Conns, Activate(c) PROVE TypeOK'
  BY <1>9 DEF Activate, Pass, Fail
<1>9a. ASSUME NEW c \in Conns, UserAdd(c) PROVE TypeOK'
  <2>1. users' \in BOOLEAN
    BY <1>9a, Zenon DEF UserAdd, Fail
  <2>2. pc' \in [Conns -> Pcs] /\ UNCHANGED <<handleVals, sqliteVars, opts, todo, call, hooked>>
    BY <1>9a DEF UserAdd, Fail
  <2>3. QED
    BY <2>1, <2>2
<1>10. ASSUME NEW c \in Conns, Pragmas(c) PROVE TypeOK'
  BY <1>10 DEF Pragmas, Pass, FailFreeing
<1>11. ASSUME NEW c \in Conns, Synchronous(c) PROVE TypeOK'
  BY <1>11 DEF Synchronous, Pass, FailClosing
<1>12. ASSUME NEW c \in Conns, SchemaPragmas(c) PROVE TypeOK'
  BY <1>12 DEF SchemaPragmas, Pass, FailFreeing
<1>13. ASSUME NEW c \in Conns, LoadExtensions(c) PROVE TypeOK'
  BY <1>13 DEF LoadExtensions, Pass, FailClosing
<1>14. ASSUME NEW c \in Conns, ConnectHook(c) PROVE TypeOK'
  BY <1>14 DEF ConnectHook
<1>15. ASSUME NEW c \in Conns, ConnectHookReturns(c) PROVE TypeOK'
  BY <1>15 DEF ConnectHookReturns, Pass, FailClosing
<1>16. ASSUME NEW c \in Conns, NEW n \in Callbacks, Register(c, n) PROVE TypeOK'
  <2>1. CASE Registered(c, n) \/ Refused(c, n)
    <3>1. HandleAdded(c, n)
      BY <2>1, RegisteredAdds
    <3>2. /\ pc' \in [Conns -> Pcs] /\ todo' \in [Conns -> SUBSET AuthFunctions]
          /\ UNCHANGED <<db, inTx, opts, call, users, hooked>>
      BY <1>16 DEF Register, InUse
    <3>3. QED
      BY <3>1, <3>2, AddingKeepsType
  <2>2. QED
    BY <1>16, <2>1 DEF Register
<1>17. ASSUME NEW c \in Conns, RegisterHook(c) PROVE TypeOK'
  BY <1>17 DEF RegisterHook, InUse, Registered, NewHandle, Put
<1>18. ASSUME NEW c \in Conns, CreateModule(c) PROVE TypeOK'
  BY <1>18 DEF CreateModule, InUse, NewHandle, Put, Trampoline
<1>19. ASSUME NEW c \in Conns, UnregisterHook(c) PROVE TypeOK'
  BY <1>19 DEF UnregisterHook, InUse, Keep
<1>20. ASSUME NEW c \in Conns, Transaction(c) PROVE TypeOK'
  BY <1>20 DEF Transaction, InUse
<1>21. ASSUME NEW c \in Conns, NEW n \in Names, Callback(c, n) PROVE TypeOK'
  BY <1>21 DEF Callback, InUse, Trampoline
<1>22. ASSUME NEW c \in Conns, Close(c) PROVE TypeOK'
  BY <1>22 DEF Close
<1>23. ASSUME NEW c \in Conns, CallbackReturns(c) PROVE TypeOK'
  BY <1>23 DEF CallbackReturns
<1>24. ASSUME NEW c \in Conns, CloseRollsBack(c) PROVE TypeOK'
  BY <1>24 DEF CloseRollsBack, Trampoline
<1>25. ASSUME NEW c \in Conns, CloseDestroysModule(c) PROVE TypeOK'
  BY <1>25 DEF CloseDestroysModule, Trampoline, Keep
<1>26. ASSUME NEW c \in Conns, CloseReturns(c) PROVE TypeOK'
  BY <1>26 DEF CloseReturns
<1>27. ASSUME NEW c \in Conns, CloseDeletes(c) PROVE TypeOK'
  BY <1>27 DEF CloseDeletes, DeleteHandles, Keep
<1>28. CASE UNCHANGED vars
  BY <1>28 DEF vars
<1> HIDE DEF IInv
<1>29. QED
  BY <1>1, <1>2, <1>3, <1>4, <1>5, <1>6, <1>7, <1>8, <1>9, <1>9a, <1>10, <1>11, <1>12,
     <1>13, <1>14, <1>15, <1>16, <1>17, <1>18, <1>19, <1>20, <1>21, <1>22, <1>23,
     <1>24, <1>25, <1>26, <1>27, <1>28
  DEF Next, Open, Use, Finish

\* Every step keeps what goes with the place where a connection is: whether its
\* sqlite3 object is open, and whether a callback may run.
LEMMA PlaceStep == IInv /\ [Next]_vars => (CallsInTime /\ ObjectState /\ HookedState)'
<1> SUFFICES ASSUME IInv, [Next]_vars PROVE (CallsInTime /\ ObjectState /\ HookedState)'
  OBVIOUS
<1> USE NamesAssumption, DSNsAssumption
        DEF IInv, TypeOK, CallsInTime, ObjectState, HookedState, UsedPcs,
            CallPcs, UnopenedPcs, FreedPcs, Closing, Goto, sqliteVars, callVars
<1>1. ASSUME NEW c \in Conns, NEW o \in DSNs, Parse(c, o)
      PROVE (CallsInTime /\ ObjectState /\ HookedState)'
  BY <1>1 DEF Parse
<1>2. ASSUME NEW c \in Conns, OpenV2(c)
      PROVE (CallsInTime /\ ObjectState /\ HookedState)'
  BY <1>2 DEF OpenV2
<1>3. ASSUME NEW c \in Conns, BusyTimeout(c)
      PROVE (CallsInTime /\ ObjectState /\ HookedState)'
  BY <1>3 DEF BusyTimeout, Pass, FailFreeing
<1>4. ASSUME NEW c \in Conns, RegisterCrypt(c)
      PROVE (CallsInTime /\ ObjectState /\ HookedState)'
  <2>1. CASE Registered(c, Crypt) \/ Refused(c, Crypt)
    <3>1. HandleAdded(c, Crypt)
      BY <2>1, RegisteredAdds
    <3>2. UNCHANGED <<db, call, hooked>>
      BY <1>4 DEF RegisterCrypt, Pass, Fail
    <3>3. pc[c] = "crypt" /\ pc'[c] \in {"authenticate", "failed"}
          /\ \A d \in Conns \ {c} : pc'[d] = pc[d]
      BY <1>4 DEF RegisterCrypt, Pass, Fail
    <3>4. QED
      BY <3>1, <3>2, <3>3 DEF HandleAdded
  <2>2. pc[c] = "crypt"
    BY <1>4 DEF RegisterCrypt
  <2>3. CASE Pass(c, "authenticate") \/ Fail(c)
    BY <2>2, <2>3 DEF Pass, Fail
  <2>4. QED
    BY <1>4, <2>1, <2>3 DEF RegisterCrypt
<1>5. ASSUME NEW c \in Conns, Encode(c)
      PROVE (CallsInTime /\ ObjectState /\ HookedState)'
  BY <1>5 DEF Encode, Trampoline
<1>6. ASSUME NEW c \in Conns, Authenticate(c)
      PROVE (CallsInTime /\ ObjectState /\ HookedState)'
  BY <1>6 DEF Authenticate, Pass, Fail
<1>7. ASSUME NEW c \in Conns, NEW n \in AuthFunctions, RegisterAuthFunction(c, n)
      PROVE (CallsInTime /\ ObjectState /\ HookedState)'
  <2>1. CASE Registered(c, n) \/ Refused(c, n)
    <3>1. HandleAdded(c, n)
      BY <2>1, RegisteredAdds
    <3>2. /\ UNCHANGED <<db, call, hooked>> /\ pc[c] = "functions"
          /\ pc'[c] \in {"functions", "failed"}
          /\ \A d \in Conns \ {c} : pc'[d] = pc[d]
      BY <1>7 DEF RegisterAuthFunction
    <3>3. QED
      BY <3>1, <3>2 DEF HandleAdded
  <2>2. QED
    BY <1>7, <2>1 DEF RegisterAuthFunction
<1>8. ASSUME NEW c \in Conns, AutoVacuum(c)
      PROVE (CallsInTime /\ ObjectState /\ HookedState)'
  BY <1>8 DEF AutoVacuum, Pass, FailFreeing
<1>9. ASSUME NEW c \in Conns, Activate(c)
      PROVE (CallsInTime /\ ObjectState /\ HookedState)'
  BY <1>9 DEF Activate, Pass, Fail
<1>9a. ASSUME NEW c \in Conns, UserAdd(c)
      PROVE (CallsInTime /\ ObjectState /\ HookedState)'
  BY <1>9a DEF UserAdd, Fail
<1>10. ASSUME NEW c \in Conns, Pragmas(c)
      PROVE (CallsInTime /\ ObjectState /\ HookedState)'
  BY <1>10 DEF Pragmas, Pass, FailFreeing
<1>11. ASSUME NEW c \in Conns, Synchronous(c)
      PROVE (CallsInTime /\ ObjectState /\ HookedState)'
  BY <1>11 DEF Synchronous, Pass, FailClosing
<1>12. ASSUME NEW c \in Conns, SchemaPragmas(c)
      PROVE (CallsInTime /\ ObjectState /\ HookedState)'
  BY <1>12 DEF SchemaPragmas, Pass, FailFreeing
<1>13. ASSUME NEW c \in Conns, LoadExtensions(c)
      PROVE (CallsInTime /\ ObjectState /\ HookedState)'
  BY <1>13 DEF LoadExtensions, Pass, FailClosing
<1>14. ASSUME NEW c \in Conns, ConnectHook(c)
      PROVE (CallsInTime /\ ObjectState /\ HookedState)'
  BY <1>14 DEF ConnectHook
<1>15. ASSUME NEW c \in Conns, ConnectHookReturns(c)
      PROVE (CallsInTime /\ ObjectState /\ HookedState)'
  BY <1>15 DEF ConnectHookReturns, Pass, FailClosing
<1>16. ASSUME NEW c \in Conns, NEW n \in Callbacks, Register(c, n)
      PROVE (CallsInTime /\ ObjectState /\ HookedState)'
  BY <1>16 DEF Register, InUse, Registered, Refused, NewHandle, Put
<1>17. ASSUME NEW c \in Conns, RegisterHook(c)
      PROVE (CallsInTime /\ ObjectState /\ HookedState)'
  BY <1>17 DEF RegisterHook, InUse, Registered, NewHandle, Put
<1>18. ASSUME NEW c \in Conns, CreateModule(c)
      PROVE (CallsInTime /\ ObjectState /\ HookedState)'
  BY <1>18 DEF CreateModule, InUse, NewHandle, Put, Trampoline
<1>19. ASSUME NEW c \in Conns, UnregisterHook(c)
      PROVE (CallsInTime /\ ObjectState /\ HookedState)'
  BY <1>19 DEF UnregisterHook, InUse, Keep
<1>20. ASSUME NEW c \in Conns, Transaction(c)
      PROVE (CallsInTime /\ ObjectState /\ HookedState)'
  BY <1>20 DEF Transaction, InUse
<1>21. ASSUME NEW c \in Conns, NEW n \in Names, Callback(c, n)
      PROVE (CallsInTime /\ ObjectState /\ HookedState)'
  BY <1>21 DEF Callback, InUse, Trampoline
<1>22. ASSUME NEW c \in Conns, Close(c)
      PROVE (CallsInTime /\ ObjectState /\ HookedState)'
  BY <1>22 DEF Close
<1>23. ASSUME NEW c \in Conns, CallbackReturns(c)
      PROVE (CallsInTime /\ ObjectState /\ HookedState)'
  BY <1>23 DEF CallbackReturns
<1>24. ASSUME NEW c \in Conns, CloseRollsBack(c)
      PROVE (CallsInTime /\ ObjectState /\ HookedState)'
  BY <1>24 DEF CloseRollsBack, Trampoline
<1>25. ASSUME NEW c \in Conns, CloseDestroysModule(c)
      PROVE (CallsInTime /\ ObjectState /\ HookedState)'
  BY <1>25 DEF CloseDestroysModule, Trampoline, Keep
<1>26. ASSUME NEW c \in Conns, CloseReturns(c)
      PROVE (CallsInTime /\ ObjectState /\ HookedState)'
  BY <1>26 DEF CloseReturns
<1>27. ASSUME NEW c \in Conns, CloseDeletes(c)
      PROVE (CallsInTime /\ ObjectState /\ HookedState)'
  BY <1>27 DEF CloseDeletes, DeleteHandles, Keep
<1>28. CASE UNCHANGED vars
  BY <1>28 DEF vars
<1> HIDE DEF IInv
<1>29. QED
  BY <1>1, <1>2, <1>3, <1>4, <1>5, <1>6, <1>7, <1>8, <1>9, <1>9a, <1>10, <1>11, <1>12,
     <1>13, <1>14, <1>15, <1>16, <1>17, <1>18, <1>19, <1>20, <1>21, <1>22, <1>23,
     <1>24, <1>25, <1>26, <1>27, <1>28
  DEF Next, Open, Use, Finish

\* Every step keeps the table right: what is registered, what runs, what is left.
LEMMA TableStep == IInv /\ [Next]_vars => (Registrations /\ CallbackFindsIts /\ NothingLeft)'
<1> SUFFICES ASSUME IInv, [Next]_vars
      PROVE (Registrations /\ CallbackFindsIts /\ NothingLeft)'
  OBVIOUS
<1> USE NamesAssumption, DSNsAssumption
        DEF IInv, TypeOK, Registrations, CallsInTime, ObjectState, HookedState,
            CallbackFindsIts, NothingLeft, OwnHandles, UsedPcs, CallPcs,
            UnopenedPcs, FreedPcs, Closing, Goto, sqliteVars, callVars
<1>1. ASSUME NEW c \in Conns, NEW o \in DSNs, Parse(c, o)
      PROVE (Registrations /\ CallbackFindsIts /\ NothingLeft)'
  BY <1>1 DEF Parse
<1>2. ASSUME NEW c \in Conns, OpenV2(c)
      PROVE (Registrations /\ CallbackFindsIts /\ NothingLeft)'
  <2>1. DOMAIN slots[c] = {} /\ ~hooked[c] /\ call[c] = None
    BY <1>2 DEF OpenV2
  <2>2. /\ UNCHANGED <<handleVals, slots, call, hooked>>
        /\ \A d \in Conns \ {c} : pc'[d] = pc[d] /\ db'[d] = db[d]
        /\ pc'[c] \in {"busy_timeout", "failed"}
    BY <1>2 DEF OpenV2
  <2>3. Registrations' /\ CallbackFindsIts'
    BY <2>1, <2>2
  <2>4. NothingLeft'
    BY <2>1, <2>2
  <2>5. QED
    BY <2>3, <2>4
<1>3. ASSUME NEW c \in Conns, BusyTimeout(c)
      PROVE (Registrations /\ CallbackFindsIts /\ NothingLeft)'
  <2>1. CASE Pass(c, "crypt")
    BY <1>3, <2>1 DEF BusyTimeout, Pass
  <2>2. CASE FailFreeing(c)
    BY <1>3, <2>2 DEF BusyTimeout, FailFreeing
  <2>3. QED
    BY <1>3, <2>1, <2>2 DEF BusyTimeout
<1>4. ASSUME NEW c \in Conns, RegisterCrypt(c)
      PROVE (Registrations /\ CallbackFindsIts /\ NothingLeft)'
  <2>1. CASE Registered(c, Crypt) \/ Refused(c, Crypt)
    <3>1. HandleAdded(c, Crypt)
      BY <2>1, RegisteredAdds
    <3>0. /\ pc[c] = "crypt"
          /\ \/ pc' = [pc EXCEPT ![c] = "authenticate"]
             \/ pc' = [pc EXCEPT ![c] = "failed"]
      BY <1>4 DEF RegisterCrypt, Pass, Fail
    <3>2. pc[c] \notin {"closed", "failed"} /\ UNCHANGED <<db, call, hooked>>
      BY <1>4 DEF RegisterCrypt, Pass, Fail
    <3>3. pc'[c] # "closed" /\ (pc'[c] = "failed" => ~hooked[c])
      BY <3>0
    <3>4. \A d \in Conns \ {c} : pc'[d] = pc[d]
      BY <3>0
    <3> HIDE DEF IInv, TypeOK, Registrations, CallsInTime, ObjectState, HookedState,
                 CallbackFindsIts, NothingLeft
    <3>5. QED
      BY <3>1, <3>2, <3>3, <3>4, AddingKeepsTable DEF Names
  <2>2. pc[c] = "crypt"
    BY <1>4 DEF RegisterCrypt
  <2>3. CASE Pass(c, "authenticate") \/ Fail(c)
    BY <2>2, <2>3 DEF Pass, Fail
  <2>4. QED
    BY <1>4, <2>1, <2>3 DEF RegisterCrypt
<1>5. ASSUME NEW c \in Conns, Encode(c)
      PROVE (Registrations /\ CallbackFindsIts /\ NothingLeft)'
  BY <1>5 DEF Encode, Trampoline
<1>6. ASSUME NEW c \in Conns, Authenticate(c)
      PROVE (Registrations /\ CallbackFindsIts /\ NothingLeft)'
  BY <1>6 DEF Authenticate, Pass, Fail
<1>7. ASSUME NEW c \in Conns, NEW n \in AuthFunctions, RegisterAuthFunction(c, n)
      PROVE (Registrations /\ CallbackFindsIts /\ NothingLeft)'
  <2>1. CASE Registered(c, n) \/ Refused(c, n)
    <3>1. HandleAdded(c, n)
      BY <2>1, RegisteredAdds
    <3>2. pc[c] \notin {"closed", "failed"} /\ UNCHANGED <<db, call, hooked>>
      BY <1>7 DEF RegisterAuthFunction
    <3>3. pc'[c] # "closed" /\ (pc'[c] = "failed" => ~hooked[c])
      BY <1>7 DEF RegisterAuthFunction
    <3>4. \A d \in Conns \ {c} : pc'[d] = pc[d]
      BY <1>7 DEF RegisterAuthFunction
    <3> HIDE DEF IInv, TypeOK, Registrations, CallsInTime, ObjectState, HookedState,
                 CallbackFindsIts, NothingLeft
    <3>5. QED
      BY <3>1, <3>2, <3>3, <3>4, AddingKeepsTable DEF Names
  <2>2. QED
    BY <1>7, <2>1 DEF RegisterAuthFunction
<1>8. ASSUME NEW c \in Conns, AutoVacuum(c)
      PROVE (Registrations /\ CallbackFindsIts /\ NothingLeft)'
  BY <1>8 DEF AutoVacuum, Pass, FailFreeing
<1>9. ASSUME NEW c \in Conns, Activate(c)
      PROVE (Registrations /\ CallbackFindsIts /\ NothingLeft)'
  BY <1>9 DEF Activate, Pass, Fail
<1>9a. ASSUME NEW c \in Conns, UserAdd(c)
      PROVE (Registrations /\ CallbackFindsIts /\ NothingLeft)'
  BY <1>9a DEF UserAdd, Fail
<1>10. ASSUME NEW c \in Conns, Pragmas(c)
      PROVE (Registrations /\ CallbackFindsIts /\ NothingLeft)'
  <2>1. CASE Pass(c, "synchronous")
    BY <1>10, <2>1 DEF Pragmas, Pass
  <2>2. CASE FailFreeing(c)
    BY <1>10, <2>2 DEF Pragmas, FailFreeing
  <2>3. QED
    BY <1>10, <2>1, <2>2 DEF Pragmas
<1>11. ASSUME NEW c \in Conns, Synchronous(c)
      PROVE (Registrations /\ CallbackFindsIts /\ NothingLeft)'
  BY <1>11 DEF Synchronous, Pass, FailClosing
<1>12. ASSUME NEW c \in Conns, SchemaPragmas(c)
      PROVE (Registrations /\ CallbackFindsIts /\ NothingLeft)'
  BY <1>12 DEF SchemaPragmas, Pass, FailFreeing
<1>13. ASSUME NEW c \in Conns, LoadExtensions(c)
      PROVE (Registrations /\ CallbackFindsIts /\ NothingLeft)'
  BY <1>13 DEF LoadExtensions, Pass, FailClosing
<1>14. ASSUME NEW c \in Conns, ConnectHook(c)
      PROVE (Registrations /\ CallbackFindsIts /\ NothingLeft)'
  BY <1>14 DEF ConnectHook
<1>15. ASSUME NEW c \in Conns, ConnectHookReturns(c)
      PROVE (Registrations /\ CallbackFindsIts /\ NothingLeft)'
  BY <1>15 DEF ConnectHookReturns, Pass, FailClosing
<1>16. ASSUME NEW c \in Conns, NEW n \in Callbacks, Register(c, n)
      PROVE (Registrations /\ CallbackFindsIts /\ NothingLeft)'
  <2>1. CASE Registered(c, n) \/ Refused(c, n)
    <3>1. HandleAdded(c, n)
      BY <2>1, RegisteredAdds
    <3>2. pc[c] \notin {"closed", "failed"} /\ UNCHANGED <<db, call, hooked>>
      BY <1>16 DEF Register, InUse
    <3>3. pc'[c] # "closed" /\ (pc'[c] = "failed" => ~hooked[c])
      BY <1>16 DEF Register, InUse
    <3>4. \A d \in Conns \ {c} : pc'[d] = pc[d]
      BY <1>16 DEF Register, InUse
    <3> HIDE DEF IInv, TypeOK, Registrations, CallsInTime, ObjectState, HookedState,
                 CallbackFindsIts, NothingLeft
    <3>5. QED
      BY <3>1, <3>2, <3>3, <3>4, AddingKeepsTable DEF Names
  <2>2. QED
    BY <1>16, <2>1 DEF Register
<1>17. ASSUME NEW c \in Conns, RegisterHook(c)
      PROVE (Registrations /\ CallbackFindsIts /\ NothingLeft)'
  BY <1>17 DEF RegisterHook, InUse, Registered, NewHandle, Put
<1>18. ASSUME NEW c \in Conns, CreateModule(c)
      PROVE (Registrations /\ CallbackFindsIts /\ NothingLeft)'
  BY <1>18 DEF CreateModule, InUse, NewHandle, Put, Trampoline
<1>19. ASSUME NEW c \in Conns, UnregisterHook(c)
      PROVE (Registrations /\ CallbackFindsIts /\ NothingLeft)'
  BY <1>19 DEF UnregisterHook, InUse, Keep
<1>20. ASSUME NEW c \in Conns, Transaction(c)
      PROVE (Registrations /\ CallbackFindsIts /\ NothingLeft)'
  BY <1>20 DEF Transaction, InUse
<1>21. ASSUME NEW c \in Conns, NEW n \in Names, Callback(c, n)
      PROVE (Registrations /\ CallbackFindsIts /\ NothingLeft)'
  BY <1>21 DEF Callback, InUse, Trampoline
<1>22. ASSUME NEW c \in Conns, Close(c)
      PROVE (Registrations /\ CallbackFindsIts /\ NothingLeft)'
  BY <1>22 DEF Close
<1>23. ASSUME NEW c \in Conns, CallbackReturns(c)
      PROVE (Registrations /\ CallbackFindsIts /\ NothingLeft)'
  BY <1>23 DEF CallbackReturns
<1>24. ASSUME NEW c \in Conns, CloseRollsBack(c)
      PROVE (Registrations /\ CallbackFindsIts /\ NothingLeft)'
  BY <1>24 DEF CloseRollsBack, Trampoline
<1>25. ASSUME NEW c \in Conns, CloseDestroysModule(c)
      PROVE (Registrations /\ CallbackFindsIts /\ NothingLeft)'
  BY <1>25 DEF CloseDestroysModule, Trampoline, Keep
<1>26. ASSUME NEW c \in Conns, CloseReturns(c)
      PROVE (Registrations /\ CallbackFindsIts /\ NothingLeft)'
  BY <1>26 DEF CloseReturns
<1>27. ASSUME NEW c \in Conns, CloseDeletes(c)
      PROVE (Registrations /\ CallbackFindsIts /\ NothingLeft)'
  BY <1>27 DEF CloseDeletes, DeleteHandles, Keep
<1>28. CASE UNCHANGED vars
  BY <1>28 DEF vars
<1> HIDE DEF IInv
<1>29. QED
  BY <1>1, <1>2, <1>3, <1>4, <1>5, <1>6, <1>7, <1>8, <1>9, <1>9a, <1>10, <1>11, <1>12,
     <1>13, <1>14, <1>15, <1>16, <1>17, <1>18, <1>19, <1>20, <1>21, <1>22, <1>23,
     <1>24, <1>25, <1>26, <1>27, <1>28
  DEF Next, Open, Use, Finish

\* Every step keeps the users of a database that a connection wanted to have.
LEMMA GuardStep == IInv /\ [Next]_vars => Guarded'
<1> SUFFICES ASSUME IInv, [Next]_vars PROVE Guarded'
  OBVIOUS
<1> USE NamesAssumption
        DEF IInv, TypeOK, HookedState, Guarded, UsedPcs, LatePcs, Goto,
            sqliteVars, callVars
<1>1. ASSUME NEW c \in Conns, NEW o \in DSNs, Parse(c, o) PROVE Guarded'
  BY <1>1 DEF Parse
<1>2. ASSUME NEW c \in Conns, Activate(c) PROVE Guarded'
  BY <1>2 DEF Activate, Pass, Fail
<1>3. ASSUME NEW c \in Conns, UserAdd(c) PROVE Guarded'
  BY <1>3 DEF UserAdd, Fail
<1>4. ASSUME NEW c \in Conns,
             OpenV2(c) \/ BusyTimeout(c) \/ RegisterCrypt(c) \/ Encode(c) \/ Authenticate(c)
      PROVE Guarded'
  <2>1. CASE OpenV2(c) \/ BusyTimeout(c)
    BY <2>1 DEF OpenV2, BusyTimeout, Pass, Fail, FailFreeing
  <2>2. CASE RegisterCrypt(c) \/ Encode(c)
    <3>1. /\ UNCHANGED <<db, opts, users, hooked>>
          /\ pc' = pc \/ pc' = [pc EXCEPT ![c] = "authenticate"]
                      \/ pc' = [pc EXCEPT ![c] = "failed"]
      BY <2>2 DEF RegisterCrypt, Encode, Pass, Fail
    <3>2. QED
      BY <3>1
  <2>3. CASE Authenticate(c)
    BY <2>3 DEF Authenticate, Pass, Fail, FailFreeing
  <2>4. QED
    BY <1>4, <2>1, <2>2, <2>3
<1>5. ASSUME NEW c \in Conns,
             AutoVacuum(c) \/ \E n \in AuthFunctions : RegisterAuthFunction(c, n)
      PROVE Guarded'
  BY <1>5 DEF RegisterAuthFunction, AutoVacuum, Pass, FailFreeing
<1>6. ASSUME NEW c \in Conns,
             \/ Pragmas(c) \/ Synchronous(c) \/ SchemaPragmas(c) \/ LoadExtensions(c)
             \/ ConnectHook(c) \/ ConnectHookReturns(c)
      PROVE Guarded'
  BY <1>6 DEF Pragmas, Synchronous, SchemaPragmas, LoadExtensions, ConnectHook,
              ConnectHookReturns, Pass, FailFreeing, FailClosing
<1>7. ASSUME NEW c \in Conns, Use(c) PROVE Guarded'
  BY <1>7 DEF Use, Register, RegisterHook, CreateModule, UnregisterHook, Transaction,
              Callback, Close
<1>8. ASSUME NEW c \in Conns, Finish(c) PROVE Guarded'
  BY <1>8 DEF Finish, CallbackReturns, CloseRollsBack, CloseDestroysModule,
              CloseReturns, CloseDeletes, Closing
<1>9. CASE UNCHANGED vars
  BY <1>9 DEF vars
<1> HIDE DEF IInv
<1>10. QED
  BY <1>1, <1>2, <1>3, <1>4, <1>5, <1>6, <1>7, <1>8, <1>9 DEF Next, Open

\* The invariant is inductive.
LEMMA InvariantStep == IInv /\ [Next]_vars => IInv'
BY TypeStep, PlaceStep, TableStep, GuardStep DEF IInv

\* The inductive invariant holds in every reachable state.
THEOREM Invariant == Spec => []IInv
BY InitInvariant, InvariantStep, PTL DEF Spec

-----------------------------------------------------------------------------
\* Every state of the specification is of its type.
THEOREM TypeCorrect == Spec => []TypeOK
BY Invariant, PTL DEF IInv

\* Whatever the other connections do, a trampoline finds the value that was
\* registered for it.
THEOREM AlwaysFound == Spec => []CallbackFindsIts
BY Invariant, PTL DEF IInv

\* Neither Close nor an Open that fails late leaves handles or an open sqlite3.
THEOREM AlwaysNothingLeft == Spec => []NothingLeft
BY Invariant, PTL DEF IInv

\* The program never gets a connection it has asked to be protected to a
\* database without users.
THEOREM AlwaysProtected == Spec => []Protected
<1>1. IInv => Protected
  BY DEF IInv, Guarded, Protected
<1>2. QED
  BY Invariant, <1>1, PTL
=============================================================================
