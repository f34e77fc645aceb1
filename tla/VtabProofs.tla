----------------------------- MODULE VtabProofs -----------------------------
(***************************************************************************)
(* Proofs about Vtab, for any number of connections, addresses and objects:   *)
(* a callback finds the object it is for, callbacks are made for objects that *)
(* are not released, and a freed database leaves none behind.                *)
(*                                                                         *)
(* The argument.  While a connection has handles, whatever SQLite holds of it *)
(* has its own (Held): a handle is deleted by Conn.Close alone.  A callback is *)
(* made with what SQLite holds, in an order that Pending and Shape keep: a     *)
(* cursor goes before its table, a table before its module.  As each release  *)
(* is of what SQLite holds and forgets, what it holds is not released         *)
(* (Lively), and what is not released it holds (Owned).                      *)
(***************************************************************************)
EXTENDS Vtab, TLAPS

\* Conn.Close has not deleted the handles of c.
HasHandles(c) == pc[c] \notin {"clear", "closed"}

\* A handle's value was made for the handle's connection.
Handles ==
  \A p \in DOMAIN handleVals :
    LET o == handleVals[p].val IN o.conn = handleVals[p].conn /\ o.n <= made[o.conn]

\* Numbers are not used twice: New gives an object none has been.
Numbered == \A o \in live \cup lost \cup structs \cup kept : o.n <= made[o.conn]

\* ref is c's, and while c has handles, ref's is the one of its object.
Holds(c, ref, kind) ==
  /\ ref.obj \in Objects /\ ref.handle \in Addresses
  /\ ref.obj.conn = c /\ ref.obj.kind = kind /\ ref.obj.n <= made[c]
  /\ HasHandles(c) => /\ ref.handle \in DOMAIN handleVals
                      /\ handleVals[ref.handle] = [conn |-> c, val |-> ref.obj]

\* What cXOpen leaves when Open fails.
NoCursor == [obj |-> None, handle |-> None]

\* What SQLite holds has its handle.
Held ==
  \A c \in Conns :
    /\ module[c] # None => Holds(c, module[c], Module)
    /\ tab[c] # None => Holds(c, tab[c], Table)
    /\ cur[c] # None => cur[c] = NoCursor \/ Holds(c, cur[c], Cursor)

\* The callbacks of a cursor, of a table, and of a module that makes a table.
OfCursor == {"xClose"} \cup CursorCalls
OfTable  == {"xBestIndex", "xOpen", "xUpdate", "xDestroy", "xDisconnect"}
OfModule == {"xCreate", "xConnect"}

\* A callback is made with what SQLite holds, or a refused module.
Given(c) ==
  LET fn  == call[c].fn
      ref == call[c].ref
  IN /\ fn \in OfCursor => cur[c] # None /\ ref = cur[c]
     /\ fn \in OfTable => tab[c] # None /\ ref = tab[c]
     /\ fn \in OfModule => module[c] # None /\ ref = module[c]
     /\ fn = "destructor" => Holds(c, ref, Module) /\ (module[c] = None \/ ref = module[c])

\* Where the program is when SQLite makes a callback.
When(c) ==
  LET fn == call[c].fn
  IN /\ fn \notin {"xClose", "destructor", "xDisconnect"} => pc[c] = "open"
     /\ fn \in {"xCreate", "xConnect", "destructor"} => tab[c] = None \/ module[c] = None
     /\ fn \in {"xCreate", "xConnect", "xBestIndex", "xDestroy", "xDisconnect"} =>
          stmt[c] = "none" /\ cur[c] = None
     /\ fn = "xClose" => stmt[c] \in {"none", "prepared"}
     /\ fn = "xOpen" => stmt[c] = "prepared" /\ cur[c] = None
     /\ fn \in CursorCalls \cup {"xUpdate"} => stmt[c] = "running" /\ cur[c] # None

\* Both hold of every callback in progress.
Asked   == \A c \in Conns : call[c] # None => Given(c)
Pending == \A c \in Conns : call[c] # None => When(c)

\* A cursor has a statement, a statement a table, a table a module.
Shape ==
  \A c \in Conns :
    /\ cur[c] # None /\ stmt[c] \in {"none", "prepared"} => call[c] # None /\ call[c].fn = "xClose"
    /\ cur[c] # None \/ stmt[c] # "none" => tab[c] # None
    /\ tab[c] # None => module[c] # None
    /\ stmt[c] = "running" => cur[c] # None

\* The sqlite3 object follows the program's Open and Close.
Life ==
  \A c \in Conns :
    /\ pc[c] \in {"open", "closing"} => db[c] = "open"
    /\ db[c] = "zombie" => pc[c] \notin {"new", "open", "closing"}
    /\ pc[c] = "new" \/ db[c] = "freed" =>
         module[c] = None /\ tab[c] = None /\ cur[c] = None /\ call[c] = None /\ stmt[c] = "none"
    /\ db[c] = "freed" => pc[c] \notin {"new", "open", "closing"}

\* What SQLite holds is not released, ...
Lively ==
  ~stray => \A c \in Conns :
    /\ module[c] # None => module[c].obj \in live
    /\ tab[c] # None => tab[c].obj \in live \cap structs
    /\ cur[c] # None /\ cur[c] # NoCursor => cur[c].obj \in live \cap structs
    /\ call[c] # None /\ call[c].fn = "destructor" => call[c].ref.obj \in live

\* ... and what is not released SQLite holds.
HeldBy(c, o) ==
  \/ tab[c] # None /\ o = tab[c].obj
  \/ cur[c] # None /\ o = cur[c].obj

Owned ==
  ~stray =>
    /\ \A o \in live :
         LET c == o.conn
         IN \/ HeldBy(c, o)
            \/ module[c] # None /\ o = module[c].obj
            \/ call[c] # None /\ call[c].fn = "destructor" /\ o = call[c].ref.obj
    /\ \A o \in structs : o \in kept \/ HeldBy(o.conn, o)
    /\ live \cap kept = {}

IInv ==
  /\ TypeOK /\ Handles /\ Numbered /\ Held /\ Asked /\ Pending /\ Shape /\ Life
  /\ Lively /\ Owned

-----------------------------------------------------------------------------
\* Nothing is made, registered or called at the start.
LEMMA InitInvariant == Init => IInv
<1> SUFFICES ASSUME Init PROVE IInv
  OBVIOUS
<1> USE ConstantsAssumption DEF Init
<1>1. TypeOK
  BY DEF TypeOK
<1>2. Handles /\ Numbered /\ Held
  BY DEF Handles, Numbered, Held
<1>3. Asked /\ Pending /\ Shape /\ Life
  BY DEF Asked, Pending, Shape, Life
<1>4. Lively /\ Owned
  BY DEF Lively, Owned
<1>5. QED
  BY <1>1, <1>2, <1>3, <1>4 DEF IInv

\* A cursor's callback, when there is a cursor behind its handle, ...
LEMMA CursorCalled ==
  ASSUME IInv, NEW c \in Conns, Running(c, OfCursor)
  PROVE  cur[c] # None /\ call[c].ref = cur[c] /\ cur[c] # NoCursor /\ Holds(c, cur[c], Cursor)
<1>1. call[c] # None /\ call[c].ref.handle # None
  BY ConstantsAssumption DEF Running, Found, IInv, TypeOK
<1>2. cur[c] # None /\ call[c].ref = cur[c]
  BY DEF Running, IInv, Asked, Given
<1>3. QED
  BY <1>1, <1>2 DEF IInv, Held, NoCursor

\* ... a table's, ...
LEMMA TableCalled ==
  ASSUME IInv, NEW c \in Conns, Running(c, OfTable)
  PROVE  tab[c] # None /\ call[c].ref = tab[c] /\ Holds(c, tab[c], Table)
BY DEF Running, IInv, Asked, Given, Held

\* ... and a module's are made with what SQLite holds.
LEMMA ModuleCalled ==
  ASSUME IInv, NEW c \in Conns, Running(c, OfModule \cup {"destructor"})
  PROVE  Holds(c, call[c].ref, Module)
BY DEF Running, IInv, Asked, Given, Held

\* What SQLite holds of a connection is of that connection and of its kind.
LEMMA HeldKinds ==
  ASSUME IInv, NEW c \in Conns
  PROVE  /\ module[c] # None => module[c].obj.conn = c /\ module[c].obj.kind = Module
         /\ tab[c] # None => tab[c].obj.conn = c /\ tab[c].obj.kind = Table
         /\ cur[c] # None /\ cur[c] # NoCursor => cur[c].obj.conn = c /\ cur[c].obj.kind = Cursor
         /\ call[c] # None /\ call[c].fn = "destructor" =>
              call[c].ref.obj.conn = c /\ call[c].ref.obj.kind = Module
BY DEF IInv, Held, Holds, Asked, Given

\* A trampoline of a connection that has handles finds the object of the callback.
LEMMA FindsIts ==
  ASSUME IInv, NEW c \in Conns, HasHandles(c), call[c] # None, Found(c)
  PROVE  /\ call[c].ref.obj \in Objects /\ It(c) = call[c].ref.obj /\ It(c).conn = c
         /\ It(c).kind = Expected(call[c].fn)
<1>1. call[c].fn \in Callbacks /\ \A fns : call[c].fn \in fns => Running(c, fns)
  BY ConstantsAssumption DEF IInv, TypeOK, Calls, Running
<1>2. Holds(c, call[c].ref, Expected(call[c].fn))
  <2>1. CASE call[c].fn \in OfModule \cup {"destructor"}
    BY <1>1, <2>1, ModuleCalled DEF Expected, CursorCalls, OfModule
  <2>2. CASE call[c].fn \in OfTable
    BY <1>1, <2>2, TableCalled DEF Expected, CursorCalls, OfTable
  <2>3. CASE call[c].fn \in OfCursor
    BY <1>1, <2>3, CursorCalled DEF Expected, CursorCalls, OfCursor
  <2>4. QED
    BY <1>1, <2>1, <2>2, <2>3 DEF Callbacks, OfModule, OfTable, OfCursor
<1>3. QED
  BY <1>2 DEF Holds, It

\* r is a new object of c, none that was made before, and has its handle.
Made(c, kind, r) ==
  /\ r \in Refs /\ r.obj \in Objects /\ r.handle \in Addresses
  /\ r.obj.conn = c /\ r.obj.kind = kind /\ r.obj.n = made[c] + 1
  /\ r.obj \notin live \cup lost \cup structs \cup kept
  /\ made' \in [Conns -> Nat] /\ made'[c] = made[c] + 1
  /\ \A d \in Conns : d # c => made'[d] = made[d]
  /\ DOMAIN handleVals' = DOMAIN handleVals \cup {r.handle} /\ r.handle \notin DOMAIN handleVals
  /\ handleVals'[r.handle] = [conn |-> c, val |-> r.obj]
  /\ \A q \in DOMAIN handleVals : handleVals'[q] = handleVals[q]

\* SQLite holds such a reference with its handle.
LEMMA NewHolds ==
  ASSUME NEW c \in Conns, NEW kind, NEW r, Made(c, kind, r), made[c] \in Nat
  PROVE  Holds(c, r, kind)'
BY DEF Made, Holds

\* What NewHandle does.
LEMMA NewHandleMakes ==
  ASSUME IInv, NEW c \in Conns, NEW kind \in {Module, Table, Cursor}, NEW p \in Addresses,
         NEW r, r = New(c, kind, p), NewHandle(c, r)
  PROVE  Made(c, kind, r)
<1>1. made[c] \in Nat /\ made[c] + 1 \in Nat
  BY DEF IInv, TypeOK
<1>2. r.obj \in Objects /\ r.handle = p /\ r = [obj |-> r.obj, handle |-> r.handle]
      /\ r.obj.conn = c /\ r.obj.kind = kind /\ r.obj.n = made[c] + 1
  BY <1>1 DEF New, Objects
<1>3. r \in Refs /\ r.handle \in Addresses
  BY <1>2 DEF Refs
<1>4. r.obj \notin live \cup lost \cup structs \cup kept
  BY <1>1, <1>2 DEF IInv, Numbered
<1>5. /\ DOMAIN handleVals' = DOMAIN handleVals \cup {p} /\ p \notin DOMAIN handleVals
      /\ handleVals'[p] = [conn |-> c, val |-> r.obj]
      /\ \A q \in DOMAIN handleVals : handleVals'[q] = handleVals[q]
      /\ made' = [made EXCEPT ![c] = @ + 1]
  BY <1>2 DEF NewHandle, Put
<1>6. /\ made' \in [Conns -> Nat] /\ made'[c] = made[c] + 1
      /\ \A d \in Conns : d # c => made'[d] = made[d]
  BY <1>1, <1>5 DEF IInv, TypeOK
<1>7. QED
  BY <1>1, <1>2, <1>3, <1>4, <1>5, <1>6 DEF Made

\* What a table that Create or Connect returned leads to, ...
LEMMA XInitMakes ==
  ASSUME IInv, NEW c \in Conns, XInit(c)
  PROVE  \E r : /\ Made(c, Table, r)
                /\ \/ /\ tab' = [tab EXCEPT ![c] = r] /\ UNCHANGED lost
                      /\ structs' = structs \cup {r.obj} /\ live' = live \cup {r.obj}
                   \/ lost' = lost \cup {r.obj} /\ UNCHANGED <<tab, structs, live>>
                /\ Return(c) /\ UNCHANGED <<kept, pc, db, module, stmt, cur, panicked>>
<1>1. It(c).conn = c
  BY DEF XInit
<1>2. PICK p, r : /\ p \in Addresses /\ r = New(c, Table, p) /\ NewHandle(c, r)
                  /\ \/ /\ tab' = [tab EXCEPT ![c] = r] /\ UNCHANGED lost
                        /\ structs' = structs \cup {r.obj} /\ live' = live \cup {r.obj}
                     \/ lost' = lost \cup {r.obj} /\ UNCHANGED <<tab, structs, live>>
  BY <1>1 DEF XInit
<1>3. Return(c) /\ UNCHANGED <<kept, pc, db, module, stmt, cur, panicked>>
  BY DEF XInit
<1>4. Made(c, Table, r)
  BY <1>2, NewHandleMakes
<1>5. QED
  BY <1>2, <1>3, <1>4

\* ... a cursor that Open returned, ...
LEMMA XOpenMakes ==
  ASSUME IInv, NEW c \in Conns, XOpen(c)
  PROVE  \E r : /\ Made(c, Cursor, r)
                /\ \/ /\ cur' = [cur EXCEPT ![c] = r] /\ stmt' = [stmt EXCEPT ![c] = "running"]
                      /\ structs' = structs \cup {r.obj} /\ live' = live \cup {r.obj}
                      /\ UNCHANGED lost
                   \/ lost' = lost \cup {r.obj} /\ UNCHANGED <<cur, stmt, structs, live>>
                /\ Return(c) /\ UNCHANGED <<kept, pc, db, module, tab, panicked>>
<1>1. call[c] # None /\ call[c].fn = "xOpen" /\ Found(c)
  BY DEF XOpen, Running
<1>2. HasHandles(c)
  BY <1>1 DEF IInv, Pending, When, HasHandles
<1>3. It(c).conn = c
  BY <1>1, <1>2, FindsIts
<1>4. PICK p, r : /\ p \in Addresses /\ r = New(c, Cursor, p) /\ NewHandle(c, r)
                  /\ \/ /\ cur' = [cur EXCEPT ![c] = r] /\ stmt' = [stmt EXCEPT ![c] = "running"]
                        /\ structs' = structs \cup {r.obj} /\ live' = live \cup {r.obj}
                        /\ UNCHANGED lost
                     \/ lost' = lost \cup {r.obj} /\ UNCHANGED <<cur, stmt, structs, live>>
  BY <1>3 DEF XOpen
<1>5. Return(c) /\ UNCHANGED <<kept, pc, db, module, tab, panicked>>
  BY DEF XOpen
<1>6. Made(c, Cursor, r)
  BY <1>4, NewHandleMakes
<1>7. QED
  BY <1>4, <1>5, <1>6

\* ... and a module that is registered or refused.
LEMMA CreateModuleMakes ==
  ASSUME IInv, NEW c \in Conns, CreateModule(c)
  PROVE  \E r : /\ Made(c, Module, r) /\ live' = live \cup {r.obj}
                /\ \/ module' = [module EXCEPT ![c] = r] /\ UNCHANGED call
                   \/ Calling(c, "destructor", r) /\ UNCHANGED module
                /\ UNCHANGED <<lost, structs, kept, pc, db, tab, stmt, cur, panicked>>
<1>1. PICK p, r : /\ p \in Addresses /\ r = New(c, Module, p) /\ NewHandle(c, r)
                  /\ live' = live \cup {r.obj}
                  /\ \/ module' = [module EXCEPT ![c] = r] /\ UNCHANGED call
                     \/ Calling(c, "destructor", r) /\ UNCHANGED module
  BY DEF CreateModule
<1>2. UNCHANGED <<lost, structs, kept, pc, db, tab, stmt, cur, panicked>>
  BY DEF CreateModule, cVars
<1>3. Made(c, Module, r)
  BY <1>1, NewHandleMakes
<1>4. QED
  BY <1>1, <1>2, <1>3

\* A callback that is begun with a reference is one.
LEMMA CallTyped ==
  ASSUME TypeOK, NEW c \in Conns, NEW fn \in Callbacks, NEW ref \in Refs, Calling(c, fn, ref)
  PROVE  /\ call' \in [Conns -> Calls \cup {None}]
         /\ call'[c] # None /\ call'[c].fn = fn /\ call'[c].ref = ref
         /\ \A d \in Conns : d # c => call'[d] = call[d]
BY ConstantsAssumption DEF TypeOK, Calling, Calls

\* No step but Conn.Close's takes a handle from a connection, ...
Keeps(d) ==
  /\ made'[d] \in Nat /\ made[d] <= made'[d]
  /\ HasHandles(d)' => HasHandles(d)
  /\ HasHandles(d)' => \A p \in DOMAIN handleVals : handleVals[p].conn = d =>
       p \in DOMAIN handleVals' /\ handleVals'[p] = handleVals[p]

\* Every step does.
LEMMA KeepsStep == IInv /\ [Next]_vars => \A d \in Conns : Keeps(d)
<1> SUFFICES ASSUME IInv, [Next]_vars PROVE \A d \in Conns : Keeps(d)
  OBVIOUS
<1> USE ConstantsAssumption DEF IInv, TypeOK, Goto, Calling, Return, goVars, cVars,
      sqliteVars, Keeps, HasHandles, Without
<1>1. ASSUME NEW c \in Conns, Panic(c) PROVE \A d \in Conns : Keeps(d)
  BY <1>1 DEF Panic
<1>2. ASSUME NEW c \in Conns, XInitFails(c) PROVE \A d \in Conns : Keeps(d)
  BY <1>2 DEF XInitFails, Running
<1>3. ASSUME NEW c \in Conns, XInit(c) PROVE \A d \in Conns : Keeps(d)
  <2>1. PICK r : /\ Made(c, Table, r)
                 /\ \/ /\ tab' = [tab EXCEPT ![c] = r] /\ UNCHANGED lost
                       /\ structs' = structs \cup {r.obj} /\ live' = live \cup {r.obj}
                    \/ lost' = lost \cup {r.obj} /\ UNCHANGED <<tab, structs, live>>
                 /\ Return(c) /\ UNCHANGED <<kept, pc, db, module, stmt, cur, panicked>>
    BY <1>3, XInitMakes
  <2>2. QED
    BY <2>1 DEF Made
<1>4. ASSUME NEW c \in Conns, XBestIndex(c) PROVE \A d \in Conns : Keeps(d)
  BY <1>4 DEF XBestIndex, Running
<1>5. ASSUME NEW c \in Conns, XOpen(c) PROVE \A d \in Conns : Keeps(d)
  <2>1. PICK r : /\ Made(c, Cursor, r)
                 /\ \/ /\ cur' = [cur EXCEPT ![c] = r] /\ stmt' = [stmt EXCEPT ![c] = "running"]
                       /\ structs' = structs \cup {r.obj} /\ live' = live \cup {r.obj}
                       /\ UNCHANGED lost
                    \/ lost' = lost \cup {r.obj} /\ UNCHANGED <<cur, stmt, structs, live>>
                 /\ Return(c) /\ UNCHANGED <<kept, pc, db, module, tab, panicked>>
    BY <1>5, XOpenMakes
  <2>2. QED
    BY <2>1 DEF Made
<1>6. ASSUME NEW c \in Conns, XOpenFails(c) PROVE \A d \in Conns : Keeps(d)
  BY <1>6 DEF XOpenFails, Running
<1>7. ASSUME NEW c \in Conns, XUse(c) PROVE \A d \in Conns : Keeps(d)
  BY <1>7 DEF XUse, Running
<1>8. ASSUME NEW c \in Conns, XClose(c) PROVE \A d \in Conns : Keeps(d)
  BY <1>8 DEF XClose, Running
<1>9. ASSUME NEW c \in Conns, XDestroy(c) PROVE \A d \in Conns : Keeps(d)
  BY <1>9 DEF XDestroy, Running
<1>10. ASSUME NEW c \in Conns, XDisconnect(c) PROVE \A d \in Conns : Keeps(d)
  BY <1>10 DEF XDisconnect, Running
<1>11. ASSUME NEW c \in Conns, XDestructor(c) PROVE \A d \in Conns : Keeps(d)
  BY <1>11 DEF XDestructor, Running
<1>12. ASSUME NEW c \in Conns, Open(c) PROVE \A d \in Conns : Keeps(d)
  BY <1>12 DEF Open
<1>13. ASSUME NEW c \in Conns, CreateModule(c) PROVE \A d \in Conns : Keeps(d)
  <2>1. PICK r : /\ Made(c, Module, r) /\ live' = live \cup {r.obj}
                 /\ \/ module' = [module EXCEPT ![c] = r] /\ UNCHANGED call
                    \/ Calling(c, "destructor", r) /\ UNCHANGED module
                 /\ UNCHANGED <<lost, structs, kept, pc, db, tab, stmt, cur, panicked>>
    BY <1>13, CreateModuleMakes
  <2>2. QED
    BY <2>1 DEF Made
<1>14. ASSUME NEW c \in Conns, NEW fn \in {"xCreate", "xConnect"}, ConnectTable(c, fn)
      PROVE  \A d \in Conns : Keeps(d)
  BY <1>14 DEF ConnectTable, Idle, Invoke
<1>15. ASSUME NEW c \in Conns, Prepare(c) PROVE \A d \in Conns : Keeps(d)
  BY <1>15 DEF Prepare, Idle, Invoke
<1>16. ASSUME NEW c \in Conns, Begin(c) PROVE \A d \in Conns : Keeps(d)
  BY <1>16 DEF Begin, Idle, Invoke
<1>17. ASSUME NEW c \in Conns, Step(c) PROVE \A d \in Conns : Keeps(d)
  BY <1>17 DEF Step, Idle, Invoke
<1>18. ASSUME NEW c \in Conns, Reset(c) PROVE \A d \in Conns : Keeps(d)
  BY <1>18 DEF Reset, EndExecution
<1>19. ASSUME NEW c \in Conns, StmtClose(c) PROVE \A d \in Conns : Keeps(d)
  BY <1>19 DEF StmtClose, Idle, EndExecution
<1>20. ASSUME NEW c \in Conns, DropTable(c) PROVE \A d \in Conns : Keeps(d)
  BY <1>20 DEF DropTable, Idle, Invoke
<1>21. ASSUME NEW c \in Conns, ResetSchema(c) PROVE \A d \in Conns : Keeps(d)
  BY <1>21 DEF ResetSchema, Idle, Invoke
<1>22. ASSUME NEW c \in Conns, Drop(c) PROVE \A d \in Conns : Keeps(d)
  BY <1>22 DEF Drop, Idle, SetStmt
<1>23. ASSUME NEW c \in Conns, FinalizerCheck(c) PROVE \A d \in Conns : Keeps(d)
  BY <1>23 DEF FinalizerCheck, SetStmt
<1>24. ASSUME NEW c \in Conns, FinalizerFinalize(c) PROVE \A d \in Conns : Keeps(d)
  BY <1>24 DEF FinalizerFinalize, EndExecution
<1>25. ASSUME NEW c \in Conns, CloseV2(c) PROVE \A d \in Conns : Keeps(d)
  BY <1>25 DEF CloseV2, Idle
<1>26. ASSUME NEW c \in Conns, CloseZombie(c) PROVE \A d \in Conns : Keeps(d)
  BY <1>26 DEF CloseZombie
<1>27. ASSUME NEW c \in Conns, FreeTable(c) PROVE \A d \in Conns : Keeps(d)
  BY <1>27 DEF FreeTable, Freeing, Invoke
<1>28. ASSUME NEW c \in Conns, FreeModule(c) PROVE \A d \in Conns : Keeps(d)
  BY <1>28 DEF FreeModule, Freeing, Invoke
<1>29. ASSUME NEW c \in Conns, FreeDb(c) PROVE \A d \in Conns : Keeps(d)
  BY <1>29 DEF FreeDb, Freeing
<1>30. ASSUME NEW c \in Conns, DeleteHandles(c) PROVE \A d \in Conns : Keeps(d)
  BY <1>30 DEF DeleteHandles, OwnHandles
<1>31. ASSUME NEW c \in Conns, CloseClears(c) PROVE \A d \in Conns : Keeps(d)
  BY <1>31 DEF CloseClears
<1>32. CASE UNCHANGED vars
  BY <1>32 DEF vars, goVars, cVars, sqliteVars
<1> HIDE DEF IInv
<1>33. QED
  BY <1>1, <1>2, <1>3, <1>4, <1>5, <1>6, <1>7, <1>8, <1>9, <1>10, <1>11, <1>12, <1>13,
     <1>14, <1>15, <1>16, <1>17, <1>18, <1>19, <1>20, <1>21, <1>22, <1>23, <1>24,
     <1>25, <1>26, <1>27, <1>28, <1>29, <1>30, <1>31, <1>32 DEF Next, Trampoline, Program


\* ... and so what SQLite holds keeps its own.
LEMMA HoldsStays ==
  ASSUME IInv, [Next]_vars, NEW d \in Conns, NEW kind, NEW ref, Holds(d, ref, kind)
  PROVE  Holds(d, ref, kind)'
<1>1. Keeps(d)
  BY KeepsStep
<1>2. ref.obj \in Objects /\ ref.obj.n <= made'[d]
  BY <1>1 DEF Holds, Keeps, IInv, TypeOK, Objects
<1>3. QED
  BY <1>1, <1>2 DEF Holds, Keeps

\* Every step keeps the type invariant.
LEMMA TypeStep == IInv /\ [Next]_vars => TypeOK'
<1> SUFFICES ASSUME IInv, [Next]_vars PROVE TypeOK'
  OBVIOUS
<1>0. stray' \in BOOLEAN
  BY DEF Next, vars, IInv, TypeOK
<1> USE ConstantsAssumption DEF IInv, TypeOK, Goto, Calling, Return, goVars, cVars,
      sqliteVars, Without, Calls, Callbacks
<1>1. ASSUME NEW c \in Conns, Panic(c) PROVE TypeOK'
  BY <1>0, <1>1 DEF Panic
<1>2. ASSUME NEW c \in Conns, XInitFails(c) PROVE TypeOK'
  BY <1>0, <1>2 DEF XInitFails, Running
<1>3. ASSUME NEW c \in Conns, XInit(c) PROVE TypeOK'
  <2>1. PICK r : /\ Made(c, Table, r)
                 /\ \/ /\ tab' = [tab EXCEPT ![c] = r] /\ UNCHANGED lost
                       /\ structs' = structs \cup {r.obj} /\ live' = live \cup {r.obj}
                    \/ lost' = lost \cup {r.obj} /\ UNCHANGED <<tab, structs, live>>
                 /\ Return(c) /\ UNCHANGED <<kept, pc, db, module, stmt, cur, panicked>>
    BY <1>3, XInitMakes
  <2>2. QED
    BY <1>0, <2>1, CallTyped DEF Made
<1>4. ASSUME NEW c \in Conns, XBestIndex(c) PROVE TypeOK'
  BY <1>0, <1>4 DEF XBestIndex, Running
<1>5. ASSUME NEW c \in Conns, XOpen(c) PROVE TypeOK'
  <2>1. PICK r : /\ Made(c, Cursor, r)
                 /\ \/ /\ cur' = [cur EXCEPT ![c] = r] /\ stmt' = [stmt EXCEPT ![c] = "running"]
                       /\ structs' = structs \cup {r.obj} /\ live' = live \cup {r.obj}
                       /\ UNCHANGED lost
                    \/ lost' = lost \cup {r.obj} /\ UNCHANGED <<cur, stmt, structs, live>>
                 /\ Return(c) /\ UNCHANGED <<kept, pc, db, module, tab, panicked>>
    BY <1>5, XOpenMakes
  <2>2. QED
    BY <1>0, <2>1, CallTyped DEF Made
<1>6. ASSUME NEW c \in Conns, XOpenFails(c) PROVE TypeOK'
  <2>1. [obj |-> None, handle |-> None] \in Refs
    BY DEF Refs
  <2>2. QED
    BY <1>0, <1>6, <2>1 DEF XOpenFails
<1>7. ASSUME NEW c \in Conns, XUse(c) PROVE TypeOK'
  <2>1. cur[c] \in Refs
    BY <1>7 DEF XUse, Running, Pending, When
  <2>2. call' \in [Conns -> Calls \cup {None}]
    <3>1. ASSUME Calling(c, "xClose", cur[c]) PROVE call' \in [Conns -> Calls \cup {None}]
      BY <2>1, <3>1, CallTyped DEF Callbacks
    <3>2. QED
      BY <1>7, <3>1 DEF XUse
  <2>3. QED
    BY <1>0, <1>7, <2>2 DEF XUse, Running
<1>8. ASSUME NEW c \in Conns, XClose(c) PROVE TypeOK'
  <2>1. cur[c] # None /\ call[c].ref = cur[c] /\ cur[c] # NoCursor /\ Holds(c, cur[c], Cursor)
    BY <1>8, CursorCalled DEF XClose, Running, OfCursor, OfTable, OfModule
  <2>2. QED
    BY <1>0, <1>8, <2>1 DEF XClose, Running, Holds, Found, It, OfCursor, OfTable, OfModule
<1>9. ASSUME NEW c \in Conns, XDestroy(c) PROVE TypeOK'
  BY <1>0, <1>9 DEF XDestroy, Running
<1>10. ASSUME NEW c \in Conns, XDisconnect(c) PROVE TypeOK'
  <2>1. tab[c] # None /\ call[c].ref = tab[c] /\ Holds(c, tab[c], Table)
    BY <1>10, TableCalled DEF XDisconnect, Running, OfCursor, OfTable, OfModule
  <2>2. QED
    BY <1>0, <1>10, <2>1 DEF XDisconnect, Running, Holds, Found, It, OfCursor, OfTable, OfModule
<1>11. ASSUME NEW c \in Conns, XDestructor(c) PROVE TypeOK'
  BY <1>0, <1>11 DEF XDestructor, Running
<1>12. ASSUME NEW c \in Conns, Open(c) PROVE TypeOK'
  BY <1>0, <1>12 DEF Open
<1>13. ASSUME NEW c \in Conns, CreateModule(c) PROVE TypeOK'
  <2>1. PICK r : /\ Made(c, Module, r) /\ live' = live \cup {r.obj}
                 /\ \/ module' = [module EXCEPT ![c] = r] /\ UNCHANGED call
                    \/ Calling(c, "destructor", r) /\ UNCHANGED module
                 /\ UNCHANGED <<lost, structs, kept, pc, db, tab, stmt, cur, panicked>>
    BY <1>13, CreateModuleMakes
  <2>2. QED
    BY <1>0, <2>1, CallTyped DEF Made
<1>14. ASSUME NEW c \in Conns, NEW fn \in {"xCreate", "xConnect"}, ConnectTable(c, fn)
      PROVE  TypeOK'
  BY <1>0, <1>14, CallTyped DEF ConnectTable, Idle, Invoke
<1>15. ASSUME NEW c \in Conns, Prepare(c) PROVE TypeOK'
  BY <1>0, <1>15, CallTyped DEF Prepare, Idle, Invoke
<1>16. ASSUME NEW c \in Conns, Begin(c) PROVE TypeOK'
  <2>1. tab[c] \in Refs
    BY <1>16 DEF Begin, Shape
  <2>2. QED
    BY <1>0, <1>16, <2>1, CallTyped DEF Begin, Idle, Invoke, Callbacks
<1>17. ASSUME NEW c \in Conns, Step(c) PROVE TypeOK'
  <2>1. tab[c] \in Refs /\ cur[c] \in Refs
    BY <1>17 DEF Step, Shape
  <2>2. call' \in [Conns -> Calls \cup {None}]
    BY <1>17, <2>1, CallTyped DEF Step, Invoke, Callbacks
  <2>3. QED
    BY <1>0, <1>17, <2>2 DEF Step, Invoke
<1>18. ASSUME NEW c \in Conns, Reset(c) PROVE TypeOK'
  BY <1>0, <1>18, CallTyped DEF Reset, EndExecution
<1>19. ASSUME NEW c \in Conns, StmtClose(c) PROVE TypeOK'
  BY <1>0, <1>19, CallTyped DEF StmtClose, Idle, EndExecution
<1>20. ASSUME NEW c \in Conns, DropTable(c) PROVE TypeOK'
  BY <1>0, <1>20, CallTyped DEF DropTable, Idle, Invoke
<1>21. ASSUME NEW c \in Conns, ResetSchema(c) PROVE TypeOK'
  BY <1>0, <1>21, CallTyped DEF ResetSchema, Idle, Invoke
<1>22. ASSUME NEW c \in Conns, Drop(c) PROVE TypeOK'
  BY <1>0, <1>22 DEF Drop, Idle, SetStmt
<1>23. ASSUME NEW c \in Conns, FinalizerCheck(c) PROVE TypeOK'
  BY <1>0, <1>23 DEF FinalizerCheck, SetStmt
<1>24. ASSUME NEW c \in Conns, FinalizerFinalize(c) PROVE TypeOK'
  BY <1>0, <1>24, CallTyped DEF FinalizerFinalize, EndExecution
<1>25. ASSUME NEW c \in Conns, CloseV2(c) PROVE TypeOK'
  BY <1>0, <1>25 DEF CloseV2, Idle
<1>26. ASSUME NEW c \in Conns, CloseZombie(c) PROVE TypeOK'
  BY <1>0, <1>26 DEF CloseZombie
<1>27. ASSUME NEW c \in Conns, FreeTable(c) PROVE TypeOK'
  BY <1>0, <1>27, CallTyped DEF FreeTable, Freeing, Invoke
<1>28. ASSUME NEW c \in Conns, FreeModule(c) PROVE TypeOK'
  BY <1>0, <1>28, CallTyped DEF FreeModule, Freeing, Invoke
<1>29. ASSUME NEW c \in Conns, FreeDb(c) PROVE TypeOK'
  BY <1>0, <1>29 DEF FreeDb, Freeing
<1>30. ASSUME NEW c \in Conns, DeleteHandles(c) PROVE TypeOK'
  BY <1>0, <1>30 DEF DeleteHandles, OwnHandles
<1>31. ASSUME NEW c \in Conns, CloseClears(c) PROVE TypeOK'
  BY <1>0, <1>31 DEF CloseClears
<1>32. CASE UNCHANGED vars
  BY <1>0, <1>32 DEF vars, goVars, cVars, sqliteVars
<1> HIDE DEF IInv
<1>33. QED
  BY <1>1, <1>2, <1>3, <1>4, <1>5, <1>6, <1>7, <1>8, <1>9, <1>10, <1>11, <1>12, <1>13,
     <1>14, <1>15, <1>16, <1>17, <1>18, <1>19, <1>20, <1>21, <1>22, <1>23, <1>24,
     <1>25, <1>26, <1>27, <1>28, <1>29, <1>30, <1>31, <1>32 DEF Next, Trampoline, Program

\* A handle's value was made for its connection.
LEMMA HandlesStep == IInv /\ [Next]_vars => Handles'
<1> SUFFICES ASSUME IInv, [Next]_vars PROVE Handles'
  OBVIOUS
<1> USE ConstantsAssumption DEF IInv, TypeOK, Goto, Calling, Return, goVars, cVars,
      sqliteVars, Handles, Without, Objects
<1>1. ASSUME NEW c \in Conns, Panic(c) PROVE Handles'
  BY <1>1 DEF Panic
<1>2. ASSUME NEW c \in Conns, XInitFails(c) PROVE Handles'
  BY <1>2 DEF XInitFails, Running
<1>3. ASSUME NEW c \in Conns, XInit(c) PROVE Handles'
  <2>1. PICK r : /\ Made(c, Table, r)
                 /\ \/ /\ tab' = [tab EXCEPT ![c] = r] /\ UNCHANGED lost
                       /\ structs' = structs \cup {r.obj} /\ live' = live \cup {r.obj}
                    \/ lost' = lost \cup {r.obj} /\ UNCHANGED <<tab, structs, live>>
                 /\ Return(c) /\ UNCHANGED <<kept, pc, db, module, stmt, cur, panicked>>
    BY <1>3, XInitMakes
  <2>2. QED
    BY <2>1 DEF Made
<1>4. ASSUME NEW c \in Conns, XBestIndex(c) PROVE Handles'
  BY <1>4 DEF XBestIndex, Running
<1>5. ASSUME NEW c \in Conns, XOpen(c) PROVE Handles'
  <2>1. PICK r : /\ Made(c, Cursor, r)
                 /\ \/ /\ cur' = [cur EXCEPT ![c] = r] /\ stmt' = [stmt EXCEPT ![c] = "running"]
                       /\ structs' = structs \cup {r.obj} /\ live' = live \cup {r.obj}
                       /\ UNCHANGED lost
                    \/ lost' = lost \cup {r.obj} /\ UNCHANGED <<cur, stmt, structs, live>>
                 /\ Return(c) /\ UNCHANGED <<kept, pc, db, module, tab, panicked>>
    BY <1>5, XOpenMakes
  <2>2. QED
    BY <2>1 DEF Made
<1>6. ASSUME NEW c \in Conns, XOpenFails(c) PROVE Handles'
  BY <1>6 DEF XOpenFails, Running
<1>7. ASSUME NEW c \in Conns, XUse(c) PROVE Handles'
  BY <1>7 DEF XUse, Running
<1>8. ASSUME NEW c \in Conns, XClose(c) PROVE Handles'
  BY <1>8 DEF XClose, Running
<1>9. ASSUME NEW c \in Conns, XDestroy(c) PROVE Handles'
  BY <1>9 DEF XDestroy, Running
<1>10. ASSUME NEW c \in Conns, XDisconnect(c) PROVE Handles'
  BY <1>10 DEF XDisconnect, Running
<1>11. ASSUME NEW c \in Conns, XDestructor(c) PROVE Handles'
  BY <1>11 DEF XDestructor, Running
<1>12. ASSUME NEW c \in Conns, Open(c) PROVE Handles'
  BY <1>12 DEF Open
<1>13. ASSUME NEW c \in Conns, CreateModule(c) PROVE Handles'
  <2>1. PICK r : /\ Made(c, Module, r) /\ live' = live \cup {r.obj}
                 /\ \/ module' = [module EXCEPT ![c] = r] /\ UNCHANGED call
                    \/ Calling(c, "destructor", r) /\ UNCHANGED module
                 /\ UNCHANGED <<lost, structs, kept, pc, db, tab, stmt, cur, panicked>>
    BY <1>13, CreateModuleMakes
  <2>2. QED
    BY <2>1 DEF Made
<1>14. ASSUME NEW c \in Conns, NEW fn \in {"xCreate", "xConnect"}, ConnectTable(c, fn)
      PROVE  Handles'
  BY <1>14 DEF ConnectTable, Idle, Invoke
<1>15. ASSUME NEW c \in Conns, Prepare(c) PROVE Handles'
  BY <1>15 DEF Prepare, Idle, Invoke
<1>16. ASSUME NEW c \in Conns, Begin(c) PROVE Handles'
  BY <1>16 DEF Begin, Idle, Invoke
<1>17. ASSUME NEW c \in Conns, Step(c) PROVE Handles'
  BY <1>17 DEF Step, Idle, Invoke
<1>18. ASSUME NEW c \in Conns, Reset(c) PROVE Handles'
  BY <1>18 DEF Reset, EndExecution
<1>19. ASSUME NEW c \in Conns, StmtClose(c) PROVE Handles'
  BY <1>19 DEF StmtClose, Idle, EndExecution
<1>20. ASSUME NEW c \in Conns, DropTable(c) PROVE Handles'
  BY <1>20 DEF DropTable, Idle, Invoke
<1>21. ASSUME NEW c \in Conns, ResetSchema(c) PROVE Handles'
  BY <1>21 DEF ResetSchema, Idle, Invoke
<1>22. ASSUME NEW c \in Conns, Drop(c) PROVE Handles'
  BY <1>22 DEF Drop, Idle, SetStmt
<1>23. ASSUME NEW c \in Conns, FinalizerCheck(c) PROVE Handles'
  BY <1>23 DEF FinalizerCheck, SetStmt
<1>24. ASSUME NEW c \in Conns, FinalizerFinalize(c) PROVE Handles'
  BY <1>24 DEF FinalizerFinalize, EndExecution
<1>25. ASSUME NEW c \in Conns, CloseV2(c) PROVE Handles'
  BY <1>25 DEF CloseV2, Idle
<1>26. ASSUME NEW c \in Conns, CloseZombie(c) PROVE Handles'
  BY <1>26 DEF CloseZombie
<1>27. ASSUME NEW c \in Conns, FreeTable(c) PROVE Handles'
  BY <1>27 DEF FreeTable, Freeing, Invoke
<1>28. ASSUME NEW c \in Conns, FreeModule(c) PROVE Handles'
  BY <1>28 DEF FreeModule, Freeing, Invoke
<1>29. ASSUME NEW c \in Conns, FreeDb(c) PROVE Handles'
  BY <1>29 DEF FreeDb, Freeing
<1>30. ASSUME NEW c \in Conns, DeleteHandles(c) PROVE Handles'
  BY <1>30 DEF DeleteHandles, OwnHandles
<1>31. ASSUME NEW c \in Conns, CloseClears(c) PROVE Handles'
  BY <1>31 DEF CloseClears
<1>32. CASE UNCHANGED vars
  BY <1>32 DEF vars, goVars, cVars, sqliteVars
<1> HIDE DEF IInv
<1>33. QED
  BY <1>1, <1>2, <1>3, <1>4, <1>5, <1>6, <1>7, <1>8, <1>9, <1>10, <1>11, <1>12, <1>13,
     <1>14, <1>15, <1>16, <1>17, <1>18, <1>19, <1>20, <1>21, <1>22, <1>23, <1>24,
     <1>25, <1>26, <1>27, <1>28, <1>29, <1>30, <1>31, <1>32 DEF Next, Trampoline, Program

\* No number is used twice.
LEMMA NumberedStep == IInv /\ [Next]_vars => Numbered'
<1> SUFFICES ASSUME IInv, [Next]_vars PROVE Numbered'
  OBVIOUS
<1> USE ConstantsAssumption DEF IInv, TypeOK, Goto, Calling, Return, goVars, cVars,
      sqliteVars, Numbered, Objects
<1>1. ASSUME NEW c \in Conns, Panic(c) PROVE Numbered'
  BY <1>1 DEF Panic
<1>2. ASSUME NEW c \in Conns, XInitFails(c) PROVE Numbered'
  BY <1>2 DEF XInitFails, Running
<1>3. ASSUME NEW c \in Conns, XInit(c) PROVE Numbered'
  <2>1. PICK r : /\ Made(c, Table, r)
                 /\ \/ /\ tab' = [tab EXCEPT ![c] = r] /\ UNCHANGED lost
                       /\ structs' = structs \cup {r.obj} /\ live' = live \cup {r.obj}
                    \/ lost' = lost \cup {r.obj} /\ UNCHANGED <<tab, structs, live>>
                 /\ Return(c) /\ UNCHANGED <<kept, pc, db, module, stmt, cur, panicked>>
    BY <1>3, XInitMakes
  <2>2. QED
    BY <2>1 DEF Made
<1>4. ASSUME NEW c \in Conns, XBestIndex(c) PROVE Numbered'
  BY <1>4 DEF XBestIndex, Running
<1>5. ASSUME NEW c \in Conns, XOpen(c) PROVE Numbered'
  <2>1. PICK r : /\ Made(c, Cursor, r)
                 /\ \/ /\ cur' = [cur EXCEPT ![c] = r] /\ stmt' = [stmt EXCEPT ![c] = "running"]
                       /\ structs' = structs \cup {r.obj} /\ live' = live \cup {r.obj}
                       /\ UNCHANGED lost
                    \/ lost' = lost \cup {r.obj} /\ UNCHANGED <<cur, stmt, structs, live>>
                 /\ Return(c) /\ UNCHANGED <<kept, pc, db, module, tab, panicked>>
    BY <1>5, XOpenMakes
  <2>2. QED
    BY <2>1 DEF Made
<1>6. ASSUME NEW c \in Conns, XOpenFails(c) PROVE Numbered'
  BY <1>6 DEF XOpenFails, Running
<1>7. ASSUME NEW c \in Conns, XUse(c) PROVE Numbered'
  BY <1>7 DEF XUse, Running
<1>8. ASSUME NEW c \in Conns, XClose(c) PROVE Numbered'
  <2>1. cur[c] # None /\ call[c].ref = cur[c] /\ cur[c] # NoCursor /\ Holds(c, cur[c], Cursor)
    BY <1>8, CursorCalled DEF XClose, Running, OfCursor, OfTable, OfModule
  <2>2. QED
    BY <1>8, <2>1 DEF XClose, Running, Holds, OfCursor, OfTable, OfModule
<1>9. ASSUME NEW c \in Conns, XDestroy(c) PROVE Numbered'
  BY <1>9 DEF XDestroy, Running
<1>10. ASSUME NEW c \in Conns, XDisconnect(c) PROVE Numbered'
  <2>1. tab[c] # None /\ call[c].ref = tab[c] /\ Holds(c, tab[c], Table)
    BY <1>10, TableCalled DEF XDisconnect, Running, OfCursor, OfTable, OfModule
  <2>2. QED
    BY <1>10, <2>1 DEF XDisconnect, Running, Holds, OfCursor, OfTable, OfModule
<1>11. ASSUME NEW c \in Conns, XDestructor(c) PROVE Numbered'
  BY <1>11 DEF XDestructor, Running
<1>12. ASSUME NEW c \in Conns, Open(c) PROVE Numbered'
  BY <1>12 DEF Open
<1>13. ASSUME NEW c \in Conns, CreateModule(c) PROVE Numbered'
  <2>1. PICK r : /\ Made(c, Module, r) /\ live' = live \cup {r.obj}
                 /\ \/ module' = [module EXCEPT ![c] = r] /\ UNCHANGED call
                    \/ Calling(c, "destructor", r) /\ UNCHANGED module
                 /\ UNCHANGED <<lost, structs, kept, pc, db, tab, stmt, cur, panicked>>
    BY <1>13, CreateModuleMakes
  <2>2. QED
    BY <2>1 DEF Made
<1>14. ASSUME NEW c \in Conns, NEW fn \in {"xCreate", "xConnect"}, ConnectTable(c, fn)
      PROVE  Numbered'
  BY <1>14 DEF ConnectTable, Idle, Invoke
<1>15. ASSUME NEW c \in Conns, Prepare(c) PROVE Numbered'
  BY <1>15 DEF Prepare, Idle, Invoke
<1>16. ASSUME NEW c \in Conns, Begin(c) PROVE Numbered'
  BY <1>16 DEF Begin, Idle, Invoke
<1>17. ASSUME NEW c \in Conns, Step(c) PROVE Numbered'
  BY <1>17 DEF Step, Idle, Invoke
<1>18. ASSUME NEW c \in Conns, Reset(c) PROVE Numbered'
  BY <1>18 DEF Reset, EndExecution
<1>19. ASSUME NEW c \in Conns, StmtClose(c) PROVE Numbered'
  BY <1>19 DEF StmtClose, Idle, EndExecution
<1>20. ASSUME NEW c \in Conns, DropTable(c) PROVE Numbered'
  BY <1>20 DEF DropTable, Idle, Invoke
<1>21. ASSUME NEW c \in Conns, ResetSchema(c) PROVE Numbered'
  BY <1>21 DEF ResetSchema, Idle, Invoke
<1>22. ASSUME NEW c \in Conns, Drop(c) PROVE Numbered'
  BY <1>22 DEF Drop, Idle, SetStmt
<1>23. ASSUME NEW c \in Conns, FinalizerCheck(c) PROVE Numbered'
  BY <1>23 DEF FinalizerCheck, SetStmt
<1>24. ASSUME NEW c \in Conns, FinalizerFinalize(c) PROVE Numbered'
  BY <1>24 DEF FinalizerFinalize, EndExecution
<1>25. ASSUME NEW c \in Conns, CloseV2(c) PROVE Numbered'
  BY <1>25 DEF CloseV2, Idle
<1>26. ASSUME NEW c \in Conns, CloseZombie(c) PROVE Numbered'
  BY <1>26 DEF CloseZombie
<1>27. ASSUME NEW c \in Conns, FreeTable(c) PROVE Numbered'
  BY <1>27 DEF FreeTable, Freeing, Invoke
<1>28. ASSUME NEW c \in Conns, FreeModule(c) PROVE Numbered'
  BY <1>28 DEF FreeModule, Freeing, Invoke
<1>29. ASSUME NEW c \in Conns, FreeDb(c) PROVE Numbered'
  BY <1>29 DEF FreeDb, Freeing
<1>30. ASSUME NEW c \in Conns, DeleteHandles(c) PROVE Numbered'
  BY <1>30 DEF DeleteHandles, OwnHandles
<1>31. ASSUME NEW c \in Conns, CloseClears(c) PROVE Numbered'
  BY <1>31 DEF CloseClears
<1>32. CASE UNCHANGED vars
  BY <1>32 DEF vars, goVars, cVars, sqliteVars
<1> HIDE DEF IInv
<1>33. QED
  BY <1>1, <1>2, <1>3, <1>4, <1>5, <1>6, <1>7, <1>8, <1>9, <1>10, <1>11, <1>12, <1>13,
     <1>14, <1>15, <1>16, <1>17, <1>18, <1>19, <1>20, <1>21, <1>22, <1>23, <1>24,
     <1>25, <1>26, <1>27, <1>28, <1>29, <1>30, <1>31, <1>32 DEF Next, Trampoline, Program

\* Cursors, statements, tables and modules depend on each other as before.
LEMMA ShapeStep == IInv /\ [Next]_vars => Shape'
<1> SUFFICES ASSUME IInv, [Next]_vars PROVE Shape'
  OBVIOUS
<1> USE ConstantsAssumption DEF IInv, TypeOK, Goto, Calling, Return, goVars, cVars,
      sqliteVars, Shape, Asked, Pending, When, Given, OfCursor, OfTable, OfModule,
      Callbacks, CursorCalls, Module, Table, Cursor
<1>1. ASSUME NEW c \in Conns, Panic(c) PROVE Shape'
  BY <1>1 DEF Panic
<1>2. ASSUME NEW c \in Conns, XInitFails(c) PROVE Shape'
  BY <1>2 DEF XInitFails, Running
<1>3. ASSUME NEW c \in Conns, XInit(c) PROVE Shape'
  <2>1. PICK r : /\ Made(c, Table, r)
                 /\ \/ /\ tab' = [tab EXCEPT ![c] = r] /\ UNCHANGED lost
                       /\ structs' = structs \cup {r.obj} /\ live' = live \cup {r.obj}
                    \/ lost' = lost \cup {r.obj} /\ UNCHANGED <<tab, structs, live>>
                 /\ Return(c) /\ UNCHANGED <<kept, pc, db, module, stmt, cur, panicked>>
    BY <1>3, XInitMakes
  <2>2. call[c] # None /\ call[c].fn \in {"xCreate", "xConnect"}
    BY <1>3 DEF XInit, Running
  <2>3. QED
    BY <2>1, <2>2 DEF Made
<1>4. ASSUME NEW c \in Conns, XBestIndex(c) PROVE Shape'
  BY <1>4 DEF XBestIndex, Running
<1>5. ASSUME NEW c \in Conns, XOpen(c) PROVE Shape'
  <2>1. PICK r : /\ Made(c, Cursor, r)
                 /\ \/ /\ cur' = [cur EXCEPT ![c] = r] /\ stmt' = [stmt EXCEPT ![c] = "running"]
                       /\ structs' = structs \cup {r.obj} /\ live' = live \cup {r.obj}
                       /\ UNCHANGED lost
                    \/ lost' = lost \cup {r.obj} /\ UNCHANGED <<cur, stmt, structs, live>>
                 /\ Return(c) /\ UNCHANGED <<kept, pc, db, module, tab, panicked>>
    BY <1>5, XOpenMakes
  <2>2. call[c] # None /\ call[c].fn = "xOpen"
    BY <1>5 DEF XOpen, Running
  <2>3. QED
    BY <2>1, <2>2 DEF Made
<1>6. ASSUME NEW c \in Conns, XOpenFails(c) PROVE Shape'
  <2>1. [obj |-> None, handle |-> None] # None
    BY DEF Refs
  <2>2. QED
    BY <1>6, <2>1 DEF XOpenFails, Running
<1>7. ASSUME NEW c \in Conns, XUse(c) PROVE Shape'
  BY <1>7, CallTyped DEF XUse, Running
<1>8. ASSUME NEW c \in Conns, XClose(c) PROVE Shape'
  BY <1>8 DEF XClose, Running
<1>9. ASSUME NEW c \in Conns, XDestroy(c) PROVE Shape'
  BY <1>9 DEF XDestroy, Running
<1>10. ASSUME NEW c \in Conns, XDisconnect(c) PROVE Shape'
  BY <1>10 DEF XDisconnect, Running
<1>11. ASSUME NEW c \in Conns, XDestructor(c) PROVE Shape'
  BY <1>11 DEF XDestructor, Running
<1>12. ASSUME NEW c \in Conns, Open(c) PROVE Shape'
  BY <1>12 DEF Open
<1>13. ASSUME NEW c \in Conns, CreateModule(c) PROVE Shape'
  <2>1. PICK r : /\ Made(c, Module, r) /\ live' = live \cup {r.obj}
                 /\ \/ module' = [module EXCEPT ![c] = r] /\ UNCHANGED call
                    \/ Calling(c, "destructor", r) /\ UNCHANGED module
                 /\ UNCHANGED <<lost, structs, kept, pc, db, tab, stmt, cur, panicked>>
    BY <1>13, CreateModuleMakes
  <2>2. pc[c] = "open" /\ call[c] = None /\ module[c] = None
    BY <1>13 DEF CreateModule, Idle
  <2>3. QED
    BY <2>1, <2>2 DEF Made
<1>14. ASSUME NEW c \in Conns, NEW fn \in {"xCreate", "xConnect"}, ConnectTable(c, fn)
      PROVE  Shape'
  BY <1>14 DEF ConnectTable, Idle, Invoke
<1>15. ASSUME NEW c \in Conns, Prepare(c) PROVE Shape'
  BY <1>15 DEF Prepare, Idle, Invoke
<1>16. ASSUME NEW c \in Conns, Begin(c) PROVE Shape'
  BY <1>16 DEF Begin, Idle, Invoke
<1>17. ASSUME NEW c \in Conns, Step(c) PROVE Shape'
  BY <1>17 DEF Step, Idle, Invoke
<1>18. ASSUME NEW c \in Conns, Reset(c) PROVE Shape'
  BY <1>18, CallTyped DEF Reset, EndExecution
<1>19. ASSUME NEW c \in Conns, StmtClose(c) PROVE Shape'
  BY <1>19, CallTyped DEF StmtClose, Idle, EndExecution
<1>20. ASSUME NEW c \in Conns, DropTable(c) PROVE Shape'
  BY <1>20 DEF DropTable, Idle, Invoke
<1>21. ASSUME NEW c \in Conns, ResetSchema(c) PROVE Shape'
  BY <1>21 DEF ResetSchema, Idle, Invoke
<1>22. ASSUME NEW c \in Conns, Drop(c) PROVE Shape'
  BY <1>22 DEF Drop, Idle, SetStmt
<1>23. ASSUME NEW c \in Conns, FinalizerCheck(c) PROVE Shape'
  BY <1>23 DEF FinalizerCheck, SetStmt
<1>24. ASSUME NEW c \in Conns, FinalizerFinalize(c) PROVE Shape'
  BY <1>24, CallTyped DEF FinalizerFinalize, EndExecution
<1>25. ASSUME NEW c \in Conns, CloseV2(c) PROVE Shape'
  BY <1>25 DEF CloseV2, Idle
<1>26. ASSUME NEW c \in Conns, CloseZombie(c) PROVE Shape'
  BY <1>26 DEF CloseZombie
<1>27. ASSUME NEW c \in Conns, FreeTable(c) PROVE Shape'
  BY <1>27 DEF FreeTable, Freeing, Invoke
<1>28. ASSUME NEW c \in Conns, FreeModule(c) PROVE Shape'
  BY <1>28 DEF FreeModule, Freeing, Invoke
<1>29. ASSUME NEW c \in Conns, FreeDb(c) PROVE Shape'
  BY <1>29 DEF FreeDb, Freeing
<1>30. ASSUME NEW c \in Conns, DeleteHandles(c) PROVE Shape'
  BY <1>30 DEF DeleteHandles, OwnHandles
<1>31. ASSUME NEW c \in Conns, CloseClears(c) PROVE Shape'
  BY <1>31 DEF CloseClears
<1>32. CASE UNCHANGED vars
  BY <1>32 DEF vars, goVars, cVars, sqliteVars
<1> HIDE DEF IInv
<1>33. QED
  BY <1>1, <1>2, <1>3, <1>4, <1>5, <1>6, <1>7, <1>8, <1>9, <1>10, <1>11, <1>12, <1>13,
     <1>14, <1>15, <1>16, <1>17, <1>18, <1>19, <1>20, <1>21, <1>22, <1>23, <1>24,
     <1>25, <1>26, <1>27, <1>28, <1>29, <1>30, <1>31, <1>32 DEF Next, Trampoline, Program

\* The sqlite3 object follows Open and Close.
LEMMA LifeStep == IInv /\ [Next]_vars => Life'
<1> SUFFICES ASSUME IInv, [Next]_vars PROVE Life'
  OBVIOUS
<1> USE ConstantsAssumption DEF IInv, TypeOK, Goto, Calling, Return, goVars, cVars,
      sqliteVars, Life, Shape, Pending, When, CursorCalls
<1>1. ASSUME NEW c \in Conns, Panic(c) PROVE Life'
  BY <1>1 DEF Panic
<1>2. ASSUME NEW c \in Conns, XInitFails(c) PROVE Life'
  BY <1>2 DEF XInitFails, Running
<1>3. ASSUME NEW c \in Conns, XInit(c) PROVE Life'
  <2>1. PICK r : /\ Made(c, Table, r)
                 /\ \/ /\ tab' = [tab EXCEPT ![c] = r] /\ UNCHANGED lost
                       /\ structs' = structs \cup {r.obj} /\ live' = live \cup {r.obj}
                    \/ lost' = lost \cup {r.obj} /\ UNCHANGED <<tab, structs, live>>
                 /\ Return(c) /\ UNCHANGED <<kept, pc, db, module, stmt, cur, panicked>>
    BY <1>3, XInitMakes
  <2>2. call[c] # None /\ call[c].fn \in {"xCreate", "xConnect"}
    BY <1>3 DEF XInit, Running
  <2>3. QED
    BY <2>1, <2>2 DEF Made
<1>4. ASSUME NEW c \in Conns, XBestIndex(c) PROVE Life'
  BY <1>4 DEF XBestIndex, Running
<1>5. ASSUME NEW c \in Conns, XOpen(c) PROVE Life'
  <2>1. PICK r : /\ Made(c, Cursor, r)
                 /\ \/ /\ cur' = [cur EXCEPT ![c] = r] /\ stmt' = [stmt EXCEPT ![c] = "running"]
                       /\ structs' = structs \cup {r.obj} /\ live' = live \cup {r.obj}
                       /\ UNCHANGED lost
                    \/ lost' = lost \cup {r.obj} /\ UNCHANGED <<cur, stmt, structs, live>>
                 /\ Return(c) /\ UNCHANGED <<kept, pc, db, module, tab, panicked>>
    BY <1>5, XOpenMakes
  <2>2. call[c] # None /\ call[c].fn = "xOpen"
    BY <1>5 DEF XOpen, Running
  <2>3. QED
    BY <2>1, <2>2 DEF Made
<1>6. ASSUME NEW c \in Conns, XOpenFails(c) PROVE Life'
  BY <1>6 DEF XOpenFails, Running
<1>7. ASSUME NEW c \in Conns, XUse(c) PROVE Life'
  BY <1>7 DEF XUse, Running
<1>8. ASSUME NEW c \in Conns, XClose(c) PROVE Life'
  BY <1>8 DEF XClose, Running
<1>9. ASSUME NEW c \in Conns, XDestroy(c) PROVE Life'
  BY <1>9 DEF XDestroy, Running
<1>10. ASSUME NEW c \in Conns, XDisconnect(c) PROVE Life'
  BY <1>10 DEF XDisconnect, Running
<1>11. ASSUME NEW c \in Conns, XDestructor(c) PROVE Life'
  BY <1>11 DEF XDestructor, Running
<1>12. ASSUME NEW c \in Conns, Open(c) PROVE Life'
  BY <1>12 DEF Open
<1>13. ASSUME NEW c \in Conns, CreateModule(c) PROVE Life'
  <2>1. PICK r : /\ Made(c, Module, r) /\ live' = live \cup {r.obj}
                 /\ \/ module' = [module EXCEPT ![c] = r] /\ UNCHANGED call
                    \/ Calling(c, "destructor", r) /\ UNCHANGED module
                 /\ UNCHANGED <<lost, structs, kept, pc, db, tab, stmt, cur, panicked>>
    BY <1>13, CreateModuleMakes
  <2>2. pc[c] = "open" /\ call[c] = None /\ module[c] = None
    BY <1>13 DEF CreateModule, Idle
  <2>3. QED
    BY <2>1, <2>2 DEF Made
<1>14. ASSUME NEW c \in Conns, NEW fn \in {"xCreate", "xConnect"}, ConnectTable(c, fn)
      PROVE  Life'
  BY <1>14 DEF ConnectTable, Idle, Invoke
<1>15. ASSUME NEW c \in Conns, Prepare(c) PROVE Life'
  BY <1>15 DEF Prepare, Idle, Invoke
<1>16. ASSUME NEW c \in Conns, Begin(c) PROVE Life'
  BY <1>16 DEF Begin, Idle, Invoke
<1>17. ASSUME NEW c \in Conns, Step(c) PROVE Life'
  BY <1>17 DEF Step, Idle, Invoke
<1>18. ASSUME NEW c \in Conns, Reset(c) PROVE Life'
  BY <1>18 DEF Reset, EndExecution
<1>19. ASSUME NEW c \in Conns, StmtClose(c) PROVE Life'
  BY <1>19 DEF StmtClose, Idle, EndExecution
<1>20. ASSUME NEW c \in Conns, DropTable(c) PROVE Life'
  BY <1>20 DEF DropTable, Idle, Invoke
<1>21. ASSUME NEW c \in Conns, ResetSchema(c) PROVE Life'
  BY <1>21 DEF ResetSchema, Idle, Invoke
<1>22. ASSUME NEW c \in Conns, Drop(c) PROVE Life'
  BY <1>22 DEF Drop, Idle, SetStmt
<1>23. ASSUME NEW c \in Conns, FinalizerCheck(c) PROVE Life'
  BY <1>23 DEF FinalizerCheck, SetStmt
<1>24. ASSUME NEW c \in Conns, FinalizerFinalize(c) PROVE Life'
  BY <1>24 DEF FinalizerFinalize, EndExecution
<1>25. ASSUME NEW c \in Conns, CloseV2(c) PROVE Life'
  BY <1>25 DEF CloseV2, Idle
<1>26. ASSUME NEW c \in Conns, CloseZombie(c) PROVE Life'
  BY <1>26 DEF CloseZombie
<1>27. ASSUME NEW c \in Conns, FreeTable(c) PROVE Life'
  BY <1>27 DEF FreeTable, Freeing, Invoke
<1>28. ASSUME NEW c \in Conns, FreeModule(c) PROVE Life'
  BY <1>28 DEF FreeModule, Freeing, Invoke
<1>29. ASSUME NEW c \in Conns, FreeDb(c) PROVE Life'
  BY <1>29 DEF FreeDb, Freeing
<1>30. ASSUME NEW c \in Conns, DeleteHandles(c) PROVE Life'
  BY <1>30 DEF DeleteHandles, OwnHandles
<1>31. ASSUME NEW c \in Conns, CloseClears(c) PROVE Life'
  BY <1>31 DEF CloseClears
<1>32. CASE UNCHANGED vars
  BY <1>32 DEF vars, goVars, cVars, sqliteVars
<1> HIDE DEF IInv
<1>33. QED
  BY <1>1, <1>2, <1>3, <1>4, <1>5, <1>6, <1>7, <1>8, <1>9, <1>10, <1>11, <1>12, <1>13,
     <1>14, <1>15, <1>16, <1>17, <1>18, <1>19, <1>20, <1>21, <1>22, <1>23, <1>24,
     <1>25, <1>26, <1>27, <1>28, <1>29, <1>30, <1>31, <1>32 DEF Next, Trampoline, Program

\* What SQLite holds keeps its handle.
LEMMA HeldStep == IInv /\ [Next]_vars => Held'
<1> SUFFICES ASSUME IInv, [Next]_vars PROVE Held'
  OBVIOUS
<1>0. \A d \in Conns : \A kind, ref : Holds(d, ref, kind) => Holds(d, ref, kind)'
  BY HoldsStays
<1> USE ConstantsAssumption DEF IInv, TypeOK, Goto, Calling, Return, goVars, cVars,
      sqliteVars, Held, NoCursor, Module, Table, Cursor
<1>1. ASSUME NEW c \in Conns, Panic(c) PROVE Held'
  BY <1>0, <1>1 DEF Panic
<1>2. ASSUME NEW c \in Conns, XInitFails(c) PROVE Held'
  BY <1>0, <1>2 DEF XInitFails, Running
<1>3. ASSUME NEW c \in Conns, XInit(c) PROVE Held'
  <2>1. PICK r : /\ Made(c, Table, r)
                 /\ \/ /\ tab' = [tab EXCEPT ![c] = r] /\ UNCHANGED lost
                       /\ structs' = structs \cup {r.obj} /\ live' = live \cup {r.obj}
                    \/ lost' = lost \cup {r.obj} /\ UNCHANGED <<tab, structs, live>>
                 /\ Return(c) /\ UNCHANGED <<kept, pc, db, module, stmt, cur, panicked>>
    BY <1>3, XInitMakes
  <2>2. QED
    BY <1>0, <2>1, NewHolds
<1>4. ASSUME NEW c \in Conns, XBestIndex(c) PROVE Held'
  BY <1>0, <1>4 DEF XBestIndex, Running
<1>5. ASSUME NEW c \in Conns, XOpen(c) PROVE Held'
  <2>1. PICK r : /\ Made(c, Cursor, r)
                 /\ \/ /\ cur' = [cur EXCEPT ![c] = r] /\ stmt' = [stmt EXCEPT ![c] = "running"]
                       /\ structs' = structs \cup {r.obj} /\ live' = live \cup {r.obj}
                       /\ UNCHANGED lost
                    \/ lost' = lost \cup {r.obj} /\ UNCHANGED <<cur, stmt, structs, live>>
                 /\ Return(c) /\ UNCHANGED <<kept, pc, db, module, tab, panicked>>
    BY <1>5, XOpenMakes
  <2>2. QED
    BY <1>0, <2>1, NewHolds
<1>6. ASSUME NEW c \in Conns, XOpenFails(c) PROVE Held'
  BY <1>0, <1>6 DEF XOpenFails, Running
<1>7. ASSUME NEW c \in Conns, XUse(c) PROVE Held'
  BY <1>0, <1>7 DEF XUse, Running
<1>8. ASSUME NEW c \in Conns, XClose(c) PROVE Held'
  BY <1>0, <1>8 DEF XClose, Running
<1>9. ASSUME NEW c \in Conns, XDestroy(c) PROVE Held'
  BY <1>0, <1>9 DEF XDestroy, Running
<1>10. ASSUME NEW c \in Conns, XDisconnect(c) PROVE Held'
  BY <1>0, <1>10 DEF XDisconnect, Running
<1>11. ASSUME NEW c \in Conns, XDestructor(c) PROVE Held'
  BY <1>0, <1>11 DEF XDestructor, Running
<1>12. ASSUME NEW c \in Conns, Open(c) PROVE Held'
  BY <1>0, <1>12 DEF Open
<1>13. ASSUME NEW c \in Conns, CreateModule(c) PROVE Held'
  <2>1. PICK r : /\ Made(c, Module, r) /\ live' = live \cup {r.obj}
                 /\ \/ module' = [module EXCEPT ![c] = r] /\ UNCHANGED call
                    \/ Calling(c, "destructor", r) /\ UNCHANGED module
                 /\ UNCHANGED <<lost, structs, kept, pc, db, tab, stmt, cur, panicked>>
    BY <1>13, CreateModuleMakes
  <2>2. QED
    BY <1>0, <2>1, NewHolds
<1>14. ASSUME NEW c \in Conns, NEW fn \in {"xCreate", "xConnect"}, ConnectTable(c, fn)
      PROVE  Held'
  BY <1>0, <1>14 DEF ConnectTable, Idle, Invoke
<1>15. ASSUME NEW c \in Conns, Prepare(c) PROVE Held'
  BY <1>0, <1>15 DEF Prepare, Idle, Invoke
<1>16. ASSUME NEW c \in Conns, Begin(c) PROVE Held'
  BY <1>0, <1>16 DEF Begin, Idle, Invoke
<1>17. ASSUME NEW c \in Conns, Step(c) PROVE Held'
  BY <1>0, <1>17 DEF Step, Idle, Invoke
<1>18. ASSUME NEW c \in Conns, Reset(c) PROVE Held'
  BY <1>0, <1>18 DEF Reset, EndExecution
<1>19. ASSUME NEW c \in Conns, StmtClose(c) PROVE Held'
  BY <1>0, <1>19 DEF StmtClose, Idle, EndExecution
<1>20. ASSUME NEW c \in Conns, DropTable(c) PROVE Held'
  BY <1>0, <1>20 DEF DropTable, Idle, Invoke
<1>21. ASSUME NEW c \in Conns, ResetSchema(c) PROVE Held'
  BY <1>0, <1>21 DEF ResetSchema, Idle, Invoke
<1>22. ASSUME NEW c \in Conns, Drop(c) PROVE Held'
  BY <1>0, <1>22 DEF Drop, Idle, SetStmt
<1>23. ASSUME NEW c \in Conns, FinalizerCheck(c) PROVE Held'
  BY <1>0, <1>23 DEF FinalizerCheck, SetStmt
<1>24. ASSUME NEW c \in Conns, FinalizerFinalize(c) PROVE Held'
  BY <1>0, <1>24 DEF FinalizerFinalize, EndExecution
<1>25. ASSUME NEW c \in Conns, CloseV2(c) PROVE Held'
  BY <1>0, <1>25 DEF CloseV2, Idle
<1>26. ASSUME NEW c \in Conns, CloseZombie(c) PROVE Held'
  BY <1>0, <1>26 DEF CloseZombie
<1>27. ASSUME NEW c \in Conns, FreeTable(c) PROVE Held'
  BY <1>0, <1>27 DEF FreeTable, Freeing, Invoke
<1>28. ASSUME NEW c \in Conns, FreeModule(c) PROVE Held'
  BY <1>0, <1>28 DEF FreeModule, Freeing, Invoke
<1>29. ASSUME NEW c \in Conns, FreeDb(c) PROVE Held'
  BY <1>0, <1>29 DEF FreeDb, Freeing
<1>30. ASSUME NEW c \in Conns, DeleteHandles(c) PROVE Held'
  BY <1>0, <1>30 DEF DeleteHandles, OwnHandles
<1>31. ASSUME NEW c \in Conns, CloseClears(c) PROVE Held'
  BY <1>0, <1>31 DEF CloseClears
<1>32. CASE UNCHANGED vars
  BY <1>0, <1>32 DEF vars, goVars, cVars, sqliteVars
<1> HIDE DEF IInv
<1>33. QED
  BY <1>1, <1>2, <1>3, <1>4, <1>5, <1>6, <1>7, <1>8, <1>9, <1>10, <1>11, <1>12, <1>13,
     <1>14, <1>15, <1>16, <1>17, <1>18, <1>19, <1>20, <1>21, <1>22, <1>23, <1>24,
     <1>25, <1>26, <1>27, <1>28, <1>29, <1>30, <1>31, <1>32 DEF Next, Trampoline, Program

\* A callback is made with what SQLite holds.
LEMMA AskedStep == IInv /\ [Next]_vars => Asked'
<1> SUFFICES ASSUME IInv, [Next]_vars PROVE Asked'
  OBVIOUS
<1>0. \A d \in Conns : \A kind, ref : Holds(d, ref, kind) => Holds(d, ref, kind)'
  BY HoldsStays
<1> USE ConstantsAssumption DEF IInv, TypeOK, Goto, Calling, Return, goVars, cVars,
      sqliteVars, Asked, Given, Pending, When, Shape, OfCursor, OfTable, OfModule,
      CursorCalls, Callbacks
<1>1. ASSUME NEW c \in Conns, Panic(c) PROVE Asked'
  BY <1>0, <1>1 DEF Panic
<1>2. ASSUME NEW c \in Conns, XInitFails(c) PROVE Asked'
  BY <1>0, <1>2 DEF XInitFails, Running
<1>3. ASSUME NEW c \in Conns, XInit(c) PROVE Asked'
  <2>1. PICK r : /\ Made(c, Table, r)
                 /\ \/ /\ tab' = [tab EXCEPT ![c] = r] /\ UNCHANGED lost
                       /\ structs' = structs \cup {r.obj} /\ live' = live \cup {r.obj}
                    \/ lost' = lost \cup {r.obj} /\ UNCHANGED <<tab, structs, live>>
                 /\ Return(c) /\ UNCHANGED <<kept, pc, db, module, stmt, cur, panicked>>
    BY <1>3, XInitMakes
  <2>2. call[c] # None /\ call[c].fn \in {"xCreate", "xConnect"}
    BY <1>3 DEF XInit, Running
  <2>3. QED
    BY <1>0, <2>1, <2>2, NewHolds, CallTyped DEF Made, Callbacks
<1>4. ASSUME NEW c \in Conns, XBestIndex(c) PROVE Asked'
  BY <1>0, <1>4 DEF XBestIndex, Running
<1>5. ASSUME NEW c \in Conns, XOpen(c) PROVE Asked'
  <2>1. PICK r : /\ Made(c, Cursor, r)
                 /\ \/ /\ cur' = [cur EXCEPT ![c] = r] /\ stmt' = [stmt EXCEPT ![c] = "running"]
                       /\ structs' = structs \cup {r.obj} /\ live' = live \cup {r.obj}
                       /\ UNCHANGED lost
                    \/ lost' = lost \cup {r.obj} /\ UNCHANGED <<cur, stmt, structs, live>>
                 /\ Return(c) /\ UNCHANGED <<kept, pc, db, module, tab, panicked>>
    BY <1>5, XOpenMakes
  <2>2. call[c] # None /\ call[c].fn = "xOpen"
    BY <1>5 DEF XOpen, Running
  <2>3. QED
    BY <1>0, <2>1, <2>2, NewHolds, CallTyped DEF Made, Callbacks
<1>6. ASSUME NEW c \in Conns, XOpenFails(c) PROVE Asked'
  BY <1>0, <1>6 DEF XOpenFails, Running
<1>7. ASSUME NEW c \in Conns, XUse(c) PROVE Asked'
  BY <1>0, <1>7, CallTyped DEF XUse, Running
<1>8. ASSUME NEW c \in Conns, XClose(c) PROVE Asked'
  BY <1>0, <1>8 DEF XClose, Running
<1>9. ASSUME NEW c \in Conns, XDestroy(c) PROVE Asked'
  BY <1>0, <1>9 DEF XDestroy, Running
<1>10. ASSUME NEW c \in Conns, XDisconnect(c) PROVE Asked'
  BY <1>0, <1>10 DEF XDisconnect, Running
<1>11. ASSUME NEW c \in Conns, XDestructor(c) PROVE Asked'
  BY <1>0, <1>11 DEF XDestructor, Running
<1>12. ASSUME NEW c \in Conns, Open(c) PROVE Asked'
  BY <1>0, <1>12 DEF Open
<1>13. ASSUME NEW c \in Conns, CreateModule(c) PROVE Asked'
  <2>1. PICK r : /\ Made(c, Module, r) /\ live' = live \cup {r.obj}
                 /\ \/ module' = [module EXCEPT ![c] = r] /\ UNCHANGED call
                    \/ Calling(c, "destructor", r) /\ UNCHANGED module
                 /\ UNCHANGED <<lost, structs, kept, pc, db, tab, stmt, cur, panicked>>
    BY <1>13, CreateModuleMakes
  <2>2. pc[c] = "open" /\ call[c] = None /\ module[c] = None
    BY <1>13 DEF CreateModule, Idle
  <2>3. QED
    BY <1>0, <2>1, <2>2, NewHolds, CallTyped DEF Made, Callbacks
<1>14. ASSUME NEW c \in Conns, NEW fn \in {"xCreate", "xConnect"}, ConnectTable(c, fn)
      PROVE  Asked'
  BY <1>0, <1>14, CallTyped DEF ConnectTable, Idle, Invoke
<1>15. ASSUME NEW c \in Conns, Prepare(c) PROVE Asked'
  BY <1>0, <1>15, CallTyped DEF Prepare, Idle, Invoke
<1>16. ASSUME NEW c \in Conns, Begin(c) PROVE Asked'
  BY <1>0, <1>16, CallTyped DEF Begin, Idle, Invoke
<1>17. ASSUME NEW c \in Conns, Step(c) PROVE Asked'
  BY <1>0, <1>17, CallTyped DEF Step, Idle, Invoke
<1>18. ASSUME NEW c \in Conns, Reset(c) PROVE Asked'
  BY <1>0, <1>18, CallTyped DEF Reset, EndExecution
<1>19. ASSUME NEW c \in Conns, StmtClose(c) PROVE Asked'
  BY <1>0, <1>19, CallTyped DEF StmtClose, Idle, EndExecution
<1>20. ASSUME NEW c \in Conns, DropTable(c) PROVE Asked'
  BY <1>0, <1>20, CallTyped DEF DropTable, Idle, Invoke
<1>21. ASSUME NEW c \in Conns, ResetSchema(c) PROVE Asked'
  BY <1>0, <1>21, CallTyped DEF ResetSchema, Idle, Invoke
<1>22. ASSUME NEW c \in Conns, Drop(c) PROVE Asked'
  BY <1>0, <1>22 DEF Drop, Idle, SetStmt
<1>23. ASSUME NEW c \in Conns, FinalizerCheck(c) PROVE Asked'
  BY <1>0, <1>23 DEF FinalizerCheck, SetStmt
<1>24. ASSUME NEW c \in Conns, FinalizerFinalize(c) PROVE Asked'
  BY <1>0, <1>24, CallTyped DEF FinalizerFinalize, EndExecution
<1>25. ASSUME NEW c \in Conns, CloseV2(c) PROVE Asked'
  BY <1>0, <1>25 DEF CloseV2, Idle
<1>26. ASSUME NEW c \in Conns, CloseZombie(c) PROVE Asked'
  BY <1>0, <1>26 DEF CloseZombie
<1>27. ASSUME NEW c \in Conns, FreeTable(c) PROVE Asked'
  BY <1>0, <1>27, CallTyped DEF FreeTable, Freeing, Invoke
<1>28. ASSUME NEW c \in Conns, FreeModule(c) PROVE Asked'
  <2>1. Holds(c, module[c], Module)
    BY <1>28 DEF FreeModule, Held
  <2>2. QED
    BY <1>0, <1>28, <2>1, CallTyped DEF FreeModule, Freeing, Invoke
<1>29. ASSUME NEW c \in Conns, FreeDb(c) PROVE Asked'
  BY <1>0, <1>29 DEF FreeDb, Freeing
<1>30. ASSUME NEW c \in Conns, DeleteHandles(c) PROVE Asked'
  BY <1>0, <1>30 DEF DeleteHandles, OwnHandles
<1>31. ASSUME NEW c \in Conns, CloseClears(c) PROVE Asked'
  BY <1>0, <1>31 DEF CloseClears
<1>32. CASE UNCHANGED vars
  BY <1>0, <1>32 DEF vars, goVars, cVars, sqliteVars
<1> HIDE DEF IInv
<1>33. QED
  BY <1>1, <1>2, <1>3, <1>4, <1>5, <1>6, <1>7, <1>8, <1>9, <1>10, <1>11, <1>12, <1>13,
     <1>14, <1>15, <1>16, <1>17, <1>18, <1>19, <1>20, <1>21, <1>22, <1>23, <1>24,
     <1>25, <1>26, <1>27, <1>28, <1>29, <1>30, <1>31, <1>32 DEF Next, Trampoline, Program

\* A callback is made when SQLite may make it.
LEMMA PendingStep == IInv /\ [Next]_vars => Pending'
<1> SUFFICES ASSUME IInv, [Next]_vars PROVE Pending'
  OBVIOUS
<1> USE ConstantsAssumption DEF IInv, TypeOK, Goto, Calling, Return, goVars, cVars,
      sqliteVars, Pending, When, Shape, OfCursor, OfTable, OfModule, CursorCalls, Callbacks
<1>1. ASSUME NEW c \in Conns, Panic(c) PROVE Pending'
  BY <1>1 DEF Panic
<1>2. ASSUME NEW c \in Conns, XInitFails(c) PROVE Pending'
  BY <1>2 DEF XInitFails, Running
<1>3. ASSUME NEW c \in Conns, XInit(c) PROVE Pending'
  <2>1. PICK r : /\ Made(c, Table, r)
                 /\ \/ /\ tab' = [tab EXCEPT ![c] = r] /\ UNCHANGED lost
                       /\ structs' = structs \cup {r.obj} /\ live' = live \cup {r.obj}
                    \/ lost' = lost \cup {r.obj} /\ UNCHANGED <<tab, structs, live>>
                 /\ Return(c) /\ UNCHANGED <<kept, pc, db, module, stmt, cur, panicked>>
    BY <1>3, XInitMakes
  <2>2. call[c] # None /\ call[c].fn \in {"xCreate", "xConnect"}
    BY <1>3 DEF XInit, Running
  <2>3. QED
    BY <2>1, <2>2, CallTyped DEF Made, Callbacks
<1>4. ASSUME NEW c \in Conns, XBestIndex(c) PROVE Pending'
  BY <1>4 DEF XBestIndex, Running
<1>5. ASSUME NEW c \in Conns, XOpen(c) PROVE Pending'
  <2>1. PICK r : /\ Made(c, Cursor, r)
                 /\ \/ /\ cur' = [cur EXCEPT ![c] = r] /\ stmt' = [stmt EXCEPT ![c] = "running"]
                       /\ structs' = structs \cup {r.obj} /\ live' = live \cup {r.obj}
                       /\ UNCHANGED lost
                    \/ lost' = lost \cup {r.obj} /\ UNCHANGED <<cur, stmt, structs, live>>
                 /\ Return(c) /\ UNCHANGED <<kept, pc, db, module, tab, panicked>>
    BY <1>5, XOpenMakes
  <2>2. call[c] # None /\ call[c].fn = "xOpen"
    BY <1>5 DEF XOpen, Running
  <2>3. QED
    BY <2>1, <2>2, CallTyped DEF Made, Callbacks
<1>6. ASSUME NEW c \in Conns, XOpenFails(c) PROVE Pending'
  BY <1>6 DEF XOpenFails, Running
<1>7. ASSUME NEW c \in Conns, XUse(c) PROVE Pending'
  BY <1>7, CallTyped DEF XUse, Running
<1>8. ASSUME NEW c \in Conns, XClose(c) PROVE Pending'
  BY <1>8 DEF XClose, Running
<1>9. ASSUME NEW c \in Conns, XDestroy(c) PROVE Pending'
  BY <1>9 DEF XDestroy, Running
<1>10. ASSUME NEW c \in Conns, XDisconnect(c) PROVE Pending'
  BY <1>10 DEF XDisconnect, Running
<1>11. ASSUME NEW c \in Conns, XDestructor(c) PROVE Pending'
  BY <1>11 DEF XDestructor, Running
<1>12. ASSUME NEW c \in Conns, Open(c) PROVE Pending'
  BY <1>12 DEF Open
<1>13. ASSUME NEW c \in Conns, CreateModule(c) PROVE Pending'
  <2>1. PICK r : /\ Made(c, Module, r) /\ live' = live \cup {r.obj}
                 /\ \/ module' = [module EXCEPT ![c] = r] /\ UNCHANGED call
                    \/ Calling(c, "destructor", r) /\ UNCHANGED module
                 /\ UNCHANGED <<lost, structs, kept, pc, db, tab, stmt, cur, panicked>>
    BY <1>13, CreateModuleMakes
  <2>2. pc[c] = "open" /\ call[c] = None /\ module[c] = None
    BY <1>13 DEF CreateModule, Idle
  <2>3. QED
    BY <2>1, <2>2, CallTyped DEF Made, Callbacks
<1>14. ASSUME NEW c \in Conns, NEW fn \in {"xCreate", "xConnect"}, ConnectTable(c, fn)
      PROVE  Pending'
  BY <1>14, CallTyped DEF ConnectTable, Idle, Invoke
<1>15. ASSUME NEW c \in Conns, Prepare(c) PROVE Pending'
  BY <1>15, CallTyped DEF Prepare, Idle, Invoke
<1>16. ASSUME NEW c \in Conns, Begin(c) PROVE Pending'
  BY <1>16, CallTyped DEF Begin, Idle, Invoke
<1>17. ASSUME NEW c \in Conns, Step(c) PROVE Pending'
  BY <1>17, CallTyped DEF Step, Idle, Invoke
<1>18. ASSUME NEW c \in Conns, Reset(c) PROVE Pending'
  BY <1>18, CallTyped DEF Reset, EndExecution
<1>19. ASSUME NEW c \in Conns, StmtClose(c) PROVE Pending'
  BY <1>19, CallTyped DEF StmtClose, Idle, EndExecution
<1>20. ASSUME NEW c \in Conns, DropTable(c) PROVE Pending'
  BY <1>20, CallTyped DEF DropTable, Idle, Invoke
<1>21. ASSUME NEW c \in Conns, ResetSchema(c) PROVE Pending'
  BY <1>21, CallTyped DEF ResetSchema, Idle, Invoke
<1>22. ASSUME NEW c \in Conns, Drop(c) PROVE Pending'
  BY <1>22 DEF Drop, Idle, SetStmt
<1>23. ASSUME NEW c \in Conns, FinalizerCheck(c) PROVE Pending'
  BY <1>23 DEF FinalizerCheck, SetStmt
<1>24. ASSUME NEW c \in Conns, FinalizerFinalize(c) PROVE Pending'
  BY <1>24, CallTyped DEF FinalizerFinalize, EndExecution
<1>25. ASSUME NEW c \in Conns, CloseV2(c) PROVE Pending'
  BY <1>25 DEF CloseV2, Idle
<1>26. ASSUME NEW c \in Conns, CloseZombie(c) PROVE Pending'
  BY <1>26 DEF CloseZombie
<1>27. ASSUME NEW c \in Conns, FreeTable(c) PROVE Pending'
  BY <1>27, CallTyped DEF FreeTable, Freeing, Invoke
<1>28. ASSUME NEW c \in Conns, FreeModule(c) PROVE Pending'
  BY <1>28, CallTyped DEF FreeModule, Freeing, Invoke
<1>29. ASSUME NEW c \in Conns, FreeDb(c) PROVE Pending'
  BY <1>29 DEF FreeDb, Freeing
<1>30. ASSUME NEW c \in Conns, DeleteHandles(c) PROVE Pending'
  BY <1>30 DEF DeleteHandles, OwnHandles
<1>31. ASSUME NEW c \in Conns, CloseClears(c) PROVE Pending'
  BY <1>31 DEF CloseClears
<1>32. CASE UNCHANGED vars
  BY <1>32 DEF vars, goVars, cVars, sqliteVars
<1> HIDE DEF IInv
<1>33. QED
  BY <1>1, <1>2, <1>3, <1>4, <1>5, <1>6, <1>7, <1>8, <1>9, <1>10, <1>11, <1>12, <1>13,
     <1>14, <1>15, <1>16, <1>17, <1>18, <1>19, <1>20, <1>21, <1>22, <1>23, <1>24,
     <1>25, <1>26, <1>27, <1>28, <1>29, <1>30, <1>31, <1>32 DEF Next, Trampoline, Program

\* What SQLite holds is not released.
LEMMA LivelyStep == IInv /\ [Next]_vars => Lively'
<1> SUFFICES ASSUME IInv, [Next]_vars, ~stray' PROVE Lively'
  BY DEF Lively
<1>0. ~stray /\ \A c \in Conns : Next => ~Stray(c)
  BY ConstantsAssumption DEF Next, vars, IInv, TypeOK
<1> USE ConstantsAssumption DEF IInv, TypeOK, Goto, Calling, Return, goVars, cVars,
      sqliteVars, Lively, NoCursor, Module, Table, Cursor, Callbacks, CursorCalls
<1>1. ASSUME NEW c \in Conns, Panic(c), Next PROVE Lively'
  BY <1>0, <1>1 DEF Panic
<1>2. ASSUME NEW c \in Conns, XInitFails(c), Next PROVE Lively'
  BY <1>0, <1>2 DEF XInitFails, Running
<1>3. ASSUME NEW c \in Conns, XInit(c), Next PROVE Lively'
  <2>1. PICK r : /\ Made(c, Table, r)
                 /\ \/ /\ tab' = [tab EXCEPT ![c] = r] /\ UNCHANGED lost
                       /\ structs' = structs \cup {r.obj} /\ live' = live \cup {r.obj}
                    \/ lost' = lost \cup {r.obj} /\ UNCHANGED <<tab, structs, live>>
                 /\ Return(c) /\ UNCHANGED <<kept, pc, db, module, stmt, cur, panicked>>
    BY <1>3, XInitMakes
  <2>2. call[c] # None /\ call[c].fn \in {"xCreate", "xConnect"}
    BY <1>3 DEF XInit, Running
  <2>3. QED
    BY <1>0, <2>1, <2>2, CallTyped DEF Made, Callbacks
<1>4. ASSUME NEW c \in Conns, XBestIndex(c), Next PROVE Lively'
  BY <1>0, <1>4 DEF XBestIndex, Running
<1>5. ASSUME NEW c \in Conns, XOpen(c), Next PROVE Lively'
  <2>1. PICK r : /\ Made(c, Cursor, r)
                 /\ \/ /\ cur' = [cur EXCEPT ![c] = r] /\ stmt' = [stmt EXCEPT ![c] = "running"]
                       /\ structs' = structs \cup {r.obj} /\ live' = live \cup {r.obj}
                       /\ UNCHANGED lost
                    \/ lost' = lost \cup {r.obj} /\ UNCHANGED <<cur, stmt, structs, live>>
                 /\ Return(c) /\ UNCHANGED <<kept, pc, db, module, tab, panicked>>
    BY <1>5, XOpenMakes
  <2>2. call[c] # None /\ call[c].fn = "xOpen"
    BY <1>5 DEF XOpen, Running
  <2>3. QED
    BY <1>0, <2>1, <2>2, CallTyped DEF Made, Callbacks
<1>6. ASSUME NEW c \in Conns, XOpenFails(c), Next PROVE Lively'
  BY <1>0, <1>6 DEF XOpenFails, Running
<1>7. ASSUME NEW c \in Conns, XUse(c), Next PROVE Lively'
  BY <1>0, <1>7, CallTyped DEF XUse, Running
<1>8. ASSUME NEW c \in Conns, XClose(c), Next PROVE Lively'
  <2>1. cur[c] # None /\ call[c].ref = cur[c] /\ cur[c] # NoCursor /\ Holds(c, cur[c], Cursor)
    BY <1>8, CursorCalled DEF XClose, Running, OfCursor, OfTable, OfModule
  <2>2. It(c) = call[c].ref.obj
    BY <1>0, <1>8, FindsIts DEF XClose, Running, Stray, HasHandles
  <2>3. /\ live' = live \ {cur[c].obj} /\ cur' = [cur EXCEPT ![c] = None]
        /\ \/ structs' = structs \ {cur[c].obj} /\ UNCHANGED kept
           \/ kept' = kept \cup {cur[c].obj} /\ UNCHANGED structs
        /\ Return(c) /\ UNCHANGED <<module, tab>> /\ call[c].fn = "xClose"
    BY <1>8, <2>1, <2>2 DEF XClose, Running
  <2>4. QED
    BY <1>0, <2>1, <2>3, HeldKinds
<1>9. ASSUME NEW c \in Conns, XDestroy(c), Next PROVE Lively'
  <2>1. tab[c] # None /\ call[c].ref = tab[c] /\ Holds(c, tab[c], Table)
    BY <1>9, TableCalled DEF XDestroy, Running, OfCursor, OfTable, OfModule
  <2>2. It(c) = call[c].ref.obj
    BY <1>0, <1>9, FindsIts DEF XDestroy, Running, Stray, HasHandles
  <2>3. /\ \/ /\ live' = live \ {tab[c].obj} /\ structs' = structs \ {tab[c].obj}
              /\ tab' = [tab EXCEPT ![c] = None]
           \/ UNCHANGED <<live, structs, tab>>
        /\ Return(c) /\ UNCHANGED <<module, cur, kept>> /\ call[c].fn = "xDestroy"
    BY <1>9, <2>1, <2>2 DEF XDestroy, Running
  <2>4. QED
    BY <1>0, <2>1, <2>3, HeldKinds
<1>10. ASSUME NEW c \in Conns, XDisconnect(c), Next PROVE Lively'
  <2>1. tab[c] # None /\ call[c].ref = tab[c] /\ Holds(c, tab[c], Table)
    BY <1>10, TableCalled DEF XDisconnect, Running, OfCursor, OfTable, OfModule
  <2>2. It(c) = call[c].ref.obj
    BY <1>0, <1>10, FindsIts DEF XDisconnect, Running, Stray, HasHandles
  <2>3. /\ live' = live \ {tab[c].obj} /\ tab' = [tab EXCEPT ![c] = None]
        /\ \/ structs' = structs \ {tab[c].obj} /\ UNCHANGED kept
           \/ kept' = kept \cup {tab[c].obj} /\ UNCHANGED structs
        /\ Return(c) /\ UNCHANGED <<module, cur>> /\ call[c].fn = "xDisconnect"
    BY <1>10, <2>1, <2>2 DEF XDisconnect, Running
  <2>4. QED
    BY <1>0, <2>1, <2>3, HeldKinds
<1>11. ASSUME NEW c \in Conns, XDestructor(c), Next PROVE Lively'
  <2>1. Holds(c, call[c].ref, Module)
    BY <1>11, ModuleCalled DEF XDestructor, Running, OfCursor, OfTable, OfModule
  <2>2. It(c) = call[c].ref.obj
    BY <1>0, <1>11, FindsIts DEF XDestructor, Running, Stray, HasHandles
  <2>3. /\ live' = live \ {call[c].ref.obj} /\ module' = [module EXCEPT ![c] = None]
        /\ Return(c) /\ UNCHANGED <<structs, kept, tab, cur>>
        /\ call[c] # None /\ call[c].fn = "destructor"
        /\ (module[c] = None \/ call[c].ref = module[c])
    BY <1>11, <2>1, <2>2 DEF XDestructor, Running, Asked, Given
  <2>4. QED
    BY <1>0, <2>1, <2>3, HeldKinds
<1>12. ASSUME NEW c \in Conns, Open(c), Next PROVE Lively'
  BY <1>0, <1>12 DEF Open
<1>13. ASSUME NEW c \in Conns, CreateModule(c), Next PROVE Lively'
  <2>1. PICK r : /\ Made(c, Module, r) /\ live' = live \cup {r.obj}
                 /\ \/ module' = [module EXCEPT ![c] = r] /\ UNCHANGED call
                    \/ Calling(c, "destructor", r) /\ UNCHANGED module
                 /\ UNCHANGED <<lost, structs, kept, pc, db, tab, stmt, cur, panicked>>
    BY <1>13, CreateModuleMakes
  <2>2. pc[c] = "open" /\ call[c] = None /\ module[c] = None
    BY <1>13 DEF CreateModule, Idle
  <2>3. QED
    BY <1>0, <2>1, <2>2, CallTyped DEF Made, Callbacks
<1>14. ASSUME NEW c \in Conns, NEW fn \in {"xCreate", "xConnect"}, ConnectTable(c, fn), Next
      PROVE  Lively'
  BY <1>0, <1>14, CallTyped DEF ConnectTable, Idle, Invoke
<1>15. ASSUME NEW c \in Conns, Prepare(c), Next PROVE Lively'
  BY <1>0, <1>15, CallTyped DEF Prepare, Idle, Invoke
<1>16. ASSUME NEW c \in Conns, Begin(c), Next PROVE Lively'
  BY <1>0, <1>16, CallTyped DEF Begin, Idle, Invoke
<1>17. ASSUME NEW c \in Conns, Step(c), Next PROVE Lively'
  BY <1>0, <1>17, CallTyped DEF Step, Idle, Invoke
<1>18. ASSUME NEW c \in Conns, Reset(c), Next PROVE Lively'
  BY <1>0, <1>18, CallTyped DEF Reset, EndExecution
<1>19. ASSUME NEW c \in Conns, StmtClose(c), Next PROVE Lively'
  BY <1>0, <1>19, CallTyped DEF StmtClose, Idle, EndExecution
<1>20. ASSUME NEW c \in Conns, DropTable(c), Next PROVE Lively'
  BY <1>0, <1>20, CallTyped DEF DropTable, Idle, Invoke
<1>21. ASSUME NEW c \in Conns, ResetSchema(c), Next PROVE Lively'
  BY <1>0, <1>21, CallTyped DEF ResetSchema, Idle, Invoke
<1>22. ASSUME NEW c \in Conns, Drop(c), Next PROVE Lively'
  BY <1>0, <1>22 DEF Drop, Idle, SetStmt
<1>23. ASSUME NEW c \in Conns, FinalizerCheck(c), Next PROVE Lively'
  BY <1>0, <1>23 DEF FinalizerCheck, SetStmt
<1>24. ASSUME NEW c \in Conns, FinalizerFinalize(c), Next PROVE Lively'
  BY <1>0, <1>24, CallTyped DEF FinalizerFinalize, EndExecution
<1>25. ASSUME NEW c \in Conns, CloseV2(c), Next PROVE Lively'
  BY <1>0, <1>25 DEF CloseV2, Idle
<1>26. ASSUME NEW c \in Conns, CloseZombie(c), Next PROVE Lively'
  BY <1>0, <1>26 DEF CloseZombie
<1>27. ASSUME NEW c \in Conns, FreeTable(c), Next PROVE Lively'
  BY <1>0, <1>27, CallTyped DEF FreeTable, Freeing, Invoke
<1>28. ASSUME NEW c \in Conns, FreeModule(c), Next PROVE Lively'
  BY <1>0, <1>28, CallTyped DEF FreeModule, Freeing, Invoke
<1>29. ASSUME NEW c \in Conns, FreeDb(c), Next PROVE Lively'
  BY <1>0, <1>29 DEF FreeDb, Freeing
<1>30. ASSUME NEW c \in Conns, DeleteHandles(c), Next PROVE Lively'
  BY <1>0, <1>30 DEF DeleteHandles, OwnHandles
<1>31. ASSUME NEW c \in Conns, CloseClears(c), Next PROVE Lively'
  BY <1>0, <1>31 DEF CloseClears
<1>32. CASE UNCHANGED vars
  BY <1>0, <1>32 DEF vars, goVars, cVars, sqliteVars
<1> HIDE DEF IInv
<1>33. QED
  BY <1>1, <1>2, <1>3, <1>4, <1>5, <1>6, <1>7, <1>8, <1>9, <1>10, <1>11, <1>12, <1>13,
     <1>14, <1>15, <1>16, <1>17, <1>18, <1>19, <1>20, <1>21, <1>22, <1>23, <1>24,
     <1>25, <1>26, <1>27, <1>28, <1>29, <1>30, <1>31, <1>32 DEF Next, Trampoline, Program

\* What is not released SQLite holds.
LEMMA OwnedStep == IInv /\ [Next]_vars => Owned'
<1> SUFFICES ASSUME IInv, [Next]_vars, ~stray' PROVE Owned'
  BY DEF Owned
<1>0. ~stray /\ \A c \in Conns : Next => ~Stray(c)
  BY ConstantsAssumption DEF Next, vars, IInv, TypeOK
<1> USE ConstantsAssumption DEF IInv, TypeOK, Goto, Calling, Return, goVars, cVars,
      sqliteVars, Owned, HeldBy, Objects, Callbacks, CursorCalls
<1>1. ASSUME NEW c \in Conns, Panic(c), Next PROVE Owned'
  BY <1>0, <1>1 DEF Panic
<1>2. ASSUME NEW c \in Conns, XInitFails(c), Next PROVE Owned'
  BY <1>0, <1>2 DEF XInitFails, Running
<1>3. ASSUME NEW c \in Conns, XInit(c), Next PROVE Owned'
  <2>1. PICK r : /\ Made(c, Table, r)
                 /\ \/ /\ tab' = [tab EXCEPT ![c] = r] /\ UNCHANGED lost
                       /\ structs' = structs \cup {r.obj} /\ live' = live \cup {r.obj}
                    \/ lost' = lost \cup {r.obj} /\ UNCHANGED <<tab, structs, live>>
                 /\ Return(c) /\ UNCHANGED <<kept, pc, db, module, stmt, cur, panicked>>
    BY <1>3, XInitMakes
  <2>2. call[c] # None /\ call[c].fn \in {"xCreate", "xConnect"} /\ tab[c] = None
    BY <1>3 DEF XInit, Running, Asked, Given, Pending, When, OfModule
  <2>3. ASSUME NEW o \in live'
        PROVE  \/ HeldBy(o.conn, o)' \/ (module[o.conn] # None /\ o = module[o.conn].obj)'
               \/ (call[o.conn] # None /\ call[o.conn].fn = "destructor"
                   /\ o = call[o.conn].ref.obj)'
    <3>1. CASE o \in live
      BY <1>0, <2>1, <2>2, <2>3, <3>1, CallTyped 
    <3>2. CASE o \notin live
      BY <1>0, <2>1, <2>2, <2>3, <3>2, CallTyped DEF Made
    <3>3. QED
      BY <3>1, <3>2
  <2>4. ASSUME NEW o \in structs' PROVE o \in kept' \/ HeldBy(o.conn, o)'
    BY <1>0, <2>1, <2>2, <2>4 DEF Made
  <2>5. live' \cap kept' = {}
    BY <1>0, <2>1 DEF Made
  <2>6. QED
    BY <2>3, <2>4, <2>5
<1>4. ASSUME NEW c \in Conns, XBestIndex(c), Next PROVE Owned'
  BY <1>0, <1>4 DEF XBestIndex, Running
<1>5. ASSUME NEW c \in Conns, XOpen(c), Next PROVE Owned'
  <2>1. PICK r : /\ Made(c, Cursor, r)
                 /\ \/ /\ cur' = [cur EXCEPT ![c] = r] /\ stmt' = [stmt EXCEPT ![c] = "running"]
                       /\ structs' = structs \cup {r.obj} /\ live' = live \cup {r.obj}
                       /\ UNCHANGED lost
                    \/ lost' = lost \cup {r.obj} /\ UNCHANGED <<cur, stmt, structs, live>>
                 /\ Return(c) /\ UNCHANGED <<kept, pc, db, module, tab, panicked>>
    BY <1>5, XOpenMakes
  <2>2. call[c] # None /\ call[c].fn = "xOpen" /\ cur[c] = None
    BY <1>5 DEF XOpen, Running, Asked, Given, Pending, When, OfModule
  <2>3. ASSUME NEW o \in live'
        PROVE  \/ HeldBy(o.conn, o)' \/ (module[o.conn] # None /\ o = module[o.conn].obj)'
               \/ (call[o.conn] # None /\ call[o.conn].fn = "destructor"
                   /\ o = call[o.conn].ref.obj)'
    <3>1. CASE o \in live
      BY <1>0, <2>1, <2>2, <2>3, <3>1
    <3>2. CASE o \notin live
      BY <1>0, <2>1, <2>2, <2>3, <3>2 DEF Made
    <3>3. QED
      BY <3>1, <3>2
  <2>4. ASSUME NEW o \in structs' PROVE o \in kept' \/ HeldBy(o.conn, o)'
    BY <1>0, <2>1, <2>2, <2>4 DEF Made
  <2>5. live' \cap kept' = {}
    BY <1>0, <2>1 DEF Made
  <2>6. QED
    BY <2>3, <2>4, <2>5
<1>6. ASSUME NEW c \in Conns, XOpenFails(c), Next PROVE Owned'
  <2>1. /\ cur[c] = None /\ call[c].fn = "xOpen" /\ Return(c)
        /\ cur' = [cur EXCEPT ![c] = NoCursor] \/ UNCHANGED cur
        /\ UNCHANGED <<goVars, cVars, module, tab>>
    BY <1>6 DEF XOpenFails, Running, Pending, When, NoCursor
  <2>2. QED
    BY <1>0, <2>1
<1>7. ASSUME NEW c \in Conns, XUse(c), Next PROVE Owned'
  <2>1. /\ call[c].fn # "destructor" /\ cur[c] \in Refs
        /\ Return(c) \/ Calling(c, "xClose", cur[c])
        /\ UNCHANGED <<goVars, cVars, module, tab, cur>>
    BY <1>7 DEF XUse, Running, Pending, When, CursorCalls
  <2>2. QED
    BY <1>0, <2>1, CallTyped
<1>8. ASSUME NEW c \in Conns, XClose(c), Next PROVE Owned'
  <2>1. cur[c] # None /\ call[c].ref = cur[c] /\ cur[c] # NoCursor /\ Holds(c, cur[c], Cursor)
    BY <1>8, CursorCalled DEF XClose, Running, OfCursor, OfTable, OfModule
  <2>2. It(c) = call[c].ref.obj
    BY <1>0, <1>8, FindsIts DEF XClose, Running, Stray, HasHandles
  <2>3. /\ live' = live \ {cur[c].obj} /\ cur' = [cur EXCEPT ![c] = None]
        /\ \/ structs' = structs \ {cur[c].obj} /\ UNCHANGED kept
           \/ kept' = kept \cup {cur[c].obj} /\ UNCHANGED structs
        /\ Return(c) /\ UNCHANGED <<module, tab>> /\ call[c].fn = "xClose"
    BY <1>8, <2>1, <2>2 DEF XClose, Running
  <2>4. QED
    BY <1>0, <2>1, <2>3, HeldKinds
<1>9. ASSUME NEW c \in Conns, XDestroy(c), Next PROVE Owned'
  <2>1. tab[c] # None /\ call[c].ref = tab[c] /\ Holds(c, tab[c], Table)
    BY <1>9, TableCalled DEF XDestroy, Running, OfCursor, OfTable, OfModule
  <2>2. It(c) = call[c].ref.obj
    BY <1>0, <1>9, FindsIts DEF XDestroy, Running, Stray, HasHandles
  <2>3. /\ \/ /\ live' = live \ {tab[c].obj} /\ structs' = structs \ {tab[c].obj}
              /\ tab' = [tab EXCEPT ![c] = None]
           \/ UNCHANGED <<live, structs, tab>>
        /\ Return(c) /\ UNCHANGED <<module, cur, kept>> /\ call[c].fn = "xDestroy"
    BY <1>9, <2>1, <2>2 DEF XDestroy, Running
  <2>4. QED
    BY <1>0, <2>1, <2>3, HeldKinds
<1>10. ASSUME NEW c \in Conns, XDisconnect(c), Next PROVE Owned'
  <2>1. tab[c] # None /\ call[c].ref = tab[c] /\ Holds(c, tab[c], Table)
    BY <1>10, TableCalled DEF XDisconnect, Running, OfCursor, OfTable, OfModule
  <2>2. It(c) = call[c].ref.obj
    BY <1>0, <1>10, FindsIts DEF XDisconnect, Running, Stray, HasHandles
  <2>3. /\ live' = live \ {tab[c].obj} /\ tab' = [tab EXCEPT ![c] = None]
        /\ \/ structs' = structs \ {tab[c].obj} /\ UNCHANGED kept
           \/ kept' = kept \cup {tab[c].obj} /\ UNCHANGED structs
        /\ Return(c) /\ UNCHANGED <<module, cur>> /\ call[c].fn = "xDisconnect"
    BY <1>10, <2>1, <2>2 DEF XDisconnect, Running
  <2>4. QED
    BY <1>0, <2>1, <2>3, HeldKinds
<1>11. ASSUME NEW c \in Conns, XDestructor(c), Next PROVE Owned'
  <2>1. Holds(c, call[c].ref, Module)
    BY <1>11, ModuleCalled DEF XDestructor, Running, OfCursor, OfTable, OfModule
  <2>2. It(c) = call[c].ref.obj
    BY <1>0, <1>11, FindsIts DEF XDestructor, Running, Stray, HasHandles
  <2>3. /\ live' = live \ {call[c].ref.obj} /\ module' = [module EXCEPT ![c] = None]
        /\ Return(c) /\ UNCHANGED <<structs, kept, tab, cur>> /\ call[c].fn = "destructor"
        /\ (module[c] = None \/ call[c].ref = module[c])
    BY <1>11, <2>1, <2>2 DEF XDestructor, Running, Asked, Given
  <2>4. QED
    BY <1>0, <2>1, <2>3, HeldKinds
<1>12. ASSUME NEW c \in Conns, Open(c), Next PROVE Owned'
  BY <1>0, <1>12 DEF Open
<1>13. ASSUME NEW c \in Conns, CreateModule(c), Next PROVE Owned'
  <2>1. PICK r : /\ Made(c, Module, r) /\ live' = live \cup {r.obj}
                 /\ \/ module' = [module EXCEPT ![c] = r] /\ UNCHANGED call
                    \/ Calling(c, "destructor", r) /\ UNCHANGED module
                 /\ UNCHANGED <<lost, structs, kept, pc, db, tab, stmt, cur, panicked>>
    BY <1>13, CreateModuleMakes
  <2>2. pc[c] = "open" /\ call[c] = None /\ module[c] = None
    BY <1>13 DEF CreateModule, Idle
  <2>3. ASSUME NEW o \in live'
        PROVE  \/ HeldBy(o.conn, o)' \/ (module[o.conn] # None /\ o = module[o.conn].obj)'
               \/ (call[o.conn] # None /\ call[o.conn].fn = "destructor"
                   /\ o = call[o.conn].ref.obj)'
    <3>1. CASE o \in live
      BY <1>0, <2>1, <2>2, <2>3, <3>1, CallTyped 
    <3>2. CASE o \notin live
      BY <1>0, <2>1, <2>2, <2>3, <3>2, CallTyped DEF Made
    <3>3. QED
      BY <3>1, <3>2
  <2>4. ASSUME NEW o \in structs' PROVE o \in kept' \/ HeldBy(o.conn, o)'
    BY <1>0, <2>1, <2>2, <2>4 DEF Made
  <2>5. live' \cap kept' = {}
    BY <1>0, <2>1 DEF Made
  <2>6. QED
    BY <2>3, <2>4, <2>5
<1>14. ASSUME NEW c \in Conns, NEW fn \in {"xCreate", "xConnect"}, ConnectTable(c, fn), Next
      PROVE  Owned'
  BY <1>0, <1>14, CallTyped DEF ConnectTable, Idle, Invoke
<1>15. ASSUME NEW c \in Conns, Prepare(c), Next PROVE Owned'
  BY <1>0, <1>15, CallTyped DEF Prepare, Idle, Invoke
<1>16. ASSUME NEW c \in Conns, Begin(c), Next PROVE Owned'
  BY <1>0, <1>16, CallTyped DEF Begin, Idle, Invoke
<1>17. ASSUME NEW c \in Conns, Step(c), Next PROVE Owned'
  BY <1>0, <1>17, CallTyped DEF Step, Idle, Invoke
<1>18. ASSUME NEW c \in Conns, Reset(c), Next PROVE Owned'
  BY <1>0, <1>18, CallTyped DEF Reset, EndExecution
<1>19. ASSUME NEW c \in Conns, StmtClose(c), Next PROVE Owned'
  BY <1>0, <1>19, CallTyped DEF StmtClose, Idle, EndExecution
<1>20. ASSUME NEW c \in Conns, DropTable(c), Next PROVE Owned'
  BY <1>0, <1>20, CallTyped DEF DropTable, Idle, Invoke
<1>21. ASSUME NEW c \in Conns, ResetSchema(c), Next PROVE Owned'
  BY <1>0, <1>21, CallTyped DEF ResetSchema, Idle, Invoke
<1>22. ASSUME NEW c \in Conns, Drop(c), Next PROVE Owned'
  BY <1>0, <1>22 DEF Drop, Idle, SetStmt
<1>23. ASSUME NEW c \in Conns, FinalizerCheck(c), Next PROVE Owned'
  BY <1>0, <1>23 DEF FinalizerCheck, SetStmt
<1>24. ASSUME NEW c \in Conns, FinalizerFinalize(c), Next PROVE Owned'
  BY <1>0, <1>24, CallTyped DEF FinalizerFinalize, EndExecution
<1>25. ASSUME NEW c \in Conns, CloseV2(c), Next PROVE Owned'
  BY <1>0, <1>25 DEF CloseV2, Idle
<1>26. ASSUME NEW c \in Conns, CloseZombie(c), Next PROVE Owned'
  BY <1>0, <1>26 DEF CloseZombie
<1>27. ASSUME NEW c \in Conns, FreeTable(c), Next PROVE Owned'
  BY <1>0, <1>27, CallTyped DEF FreeTable, Freeing, Invoke
<1>28. ASSUME NEW c \in Conns, FreeModule(c), Next PROVE Owned'
  BY <1>0, <1>28, CallTyped DEF FreeModule, Freeing, Invoke
<1>29. ASSUME NEW c \in Conns, FreeDb(c), Next PROVE Owned'
  BY <1>0, <1>29 DEF FreeDb, Freeing
<1>30. ASSUME NEW c \in Conns, DeleteHandles(c), Next PROVE Owned'
  BY <1>0, <1>30 DEF DeleteHandles, OwnHandles
<1>31. ASSUME NEW c \in Conns, CloseClears(c), Next PROVE Owned'
  BY <1>0, <1>31 DEF CloseClears
<1>32. CASE UNCHANGED vars
  BY <1>0, <1>32 DEF vars, goVars, cVars, sqliteVars
<1> HIDE DEF IInv
<1>33. QED
  BY <1>1, <1>2, <1>3, <1>4, <1>5, <1>6, <1>7, <1>8, <1>9, <1>10, <1>11, <1>12, <1>13,
     <1>14, <1>15, <1>16, <1>17, <1>18, <1>19, <1>20, <1>21, <1>22, <1>23, <1>24,
     <1>25, <1>26, <1>27, <1>28, <1>29, <1>30, <1>31, <1>32 DEF Next, Trampoline, Program

\* The invariant is inductive.
LEMMA InvariantStep == IInv /\ [Next]_vars => IInv'
BY TypeStep, HandlesStep, NumberedStep, HeldStep, AskedStep, PendingStep, ShapeStep, LifeStep,
   LivelyStep, OwnedStep DEF IInv

\* The inductive invariant holds in every reachable state.
THEOREM Invariant == Spec => []IInv
BY InitInvariant, InvariantStep, PTL DEF Spec

-----------------------------------------------------------------------------
\* Every state of the specification is of its type.
THEOREM TypeCorrect == Spec => []TypeOK
BY Invariant, PTL DEF IInv

\* A callback made while its connection has handles finds the object it is for.
THEOREM AlwaysFindsIts == Spec => []CallbackFindsIts
<1>1. IInv => CallbackFindsIts
  <2> SUFFICES ASSUME IInv, NEW c \in Conns, call[c] # None, HasHandles(c), call[c].ref.obj # None
               PROVE  /\ call[c].ref.handle \in DOMAIN handleVals
                      /\ handleVals[call[c].ref.handle] = [conn |-> c, val |-> call[c].ref.obj]
                      /\ call[c].ref.obj.kind = Expected(call[c].fn)
    BY DEF CallbackFindsIts, HasHandles
  <2>1. call[c].fn \in Callbacks
    BY ConstantsAssumption DEF IInv, TypeOK, Calls
  <2>2. Holds(c, call[c].ref, Expected(call[c].fn))
    <3>1. CASE call[c].fn \in OfModule \cup {"destructor"}
      BY <3>1 DEF IInv, Asked, Given, Held, Expected, OfModule, CursorCalls
    <3>2. CASE call[c].fn \in OfTable
      BY <3>2 DEF IInv, Asked, Given, Held, Expected, OfTable, CursorCalls
    <3>3. CASE call[c].fn \in OfCursor
      BY <3>3 DEF IInv, Asked, Given, Held, NoCursor, Expected, OfCursor, CursorCalls
    <3>4. QED
      BY <2>1, <3>1, <3>2, <3>3 DEF Callbacks, OfModule, OfTable, OfCursor
  <2>3. QED
    BY <2>2 DEF Holds
<1>2. QED
  BY Invariant, <1>1, PTL

\* The callbacks panic for two reasons only: Open of the cursor failed, or the handles
\* of a zombie are gone.
PanicExplained == panicked => stray \/ \E c \in Conns : cur[c] = NoCursor

\* A type assertion that fails while the handles are there is one of the nil handle.
LEMMA PanicStep ==
  ASSUME IInv, CallbackFindsIts, NEW c \in Conns, Panic(c),
         stray' = (stray \/ \E d \in Conns : Stray(d))
  PROVE  PanicExplained'
<1>1. CASE ~HasHandles(c)
  <2>1. Stray(c)
    BY <1>1 DEF Stray, Panic, HasHandles
  <2>2. QED
    BY <2>1 DEF PanicExplained
<1>2. CASE HasHandles(c)
  <2>1. call[c].ref.obj = None
    <3> DEFINE ref == call[c].ref
    <3>1. \/ ref.obj = None
          \/ /\ ref.handle \in DOMAIN handleVals
             /\ handleVals[ref.handle] = [conn |-> c, val |-> ref.obj]
             /\ ref.obj.kind = Expected(call[c].fn)
      BY <1>2 DEF CallbackFindsIts, HasHandles, Panic
    <3>2. \A v : [conn |-> c, val |-> v].val = v
      OBVIOUS
    <3>3. ASSUME ref.obj # None PROVE Found(c)
      <4>1. handleVals[ref.handle].val = ref.obj
        BY <3>1, <3>2, <3>3, Zenon
      <4>2. QED
        BY <3>1, <3>3, <4>1, Zenon DEF Found
    <3>4. QED
      BY <3>3 DEF Panic
  <2>2. call[c].fn \in Callbacks
    BY ConstantsAssumption DEF IInv, TypeOK, Calls, Panic
  <2>3. None \notin Objects
    BY ConstantsAssumption
  <2>4. cur[c] = NoCursor
    <3>1. CASE call[c].fn \in OfModule \cup {"destructor"}
      BY <2>1, <2>3, <3>1 DEF IInv, Asked, Given, Held, Holds, Panic
    <3>2. CASE call[c].fn \in OfTable
      BY <2>1, <2>3, <3>2 DEF IInv, Asked, Given, Held, Holds, Panic
    <3>3. CASE call[c].fn \in OfCursor
      BY <2>1, <2>3, <3>3 DEF IInv, Asked, Given, Held, Holds, Panic
    <3>4. QED
      BY <2>2, <3>1, <3>2, <3>3 DEF Callbacks, OfModule, OfTable, OfCursor
  <2>5. cur' = cur
    BY DEF Panic, sqliteVars
  <2>6. QED
    BY <2>4, <2>5 DEF PanicExplained
<1>3. QED
  BY <1>1, <1>2

\* Besides a cursor whose Open failed, the finding, and a zombie no callback of a
\* virtual table panics.
THEOREM PanicsOnlyThen == Spec => []PanicExplained
<1>1. Init => PanicExplained
  BY DEF Init, PanicExplained
<1>2. IInv /\ CallbackFindsIts /\ PanicExplained /\ [Next]_vars => PanicExplained'
  <2> SUFFICES ASSUME IInv, CallbackFindsIts, PanicExplained, [Next]_vars PROVE PanicExplained'
    OBVIOUS
  <2>1. CASE UNCHANGED vars
    BY <2>1 DEF PanicExplained, vars, sqliteVars
  <2>2. CASE Next
    <3>1. ASSUME NEW c \in Conns, Panic(c) PROVE PanicExplained'
      BY <2>2, <3>1, PanicStep DEF Next
    <3>2. (\E c \in Conns : Panic(c)) \/ panicked' = panicked
      BY <2>2 DEF Next, Trampoline, Program, XInitFails, XInit, XBestIndex, XOpen, XOpenFails,
         XUse, XClose, XDestroy, XDisconnect, XDestructor, Open, CreateModule, ConnectTable,
         Prepare, Begin, Step, Reset, StmtClose, DropTable, ResetSchema, Drop, FinalizerCheck,
         FinalizerFinalize, CloseV2, CloseZombie, FreeTable, FreeModule, FreeDb,
         DeleteHandles, CloseClears, Invoke, EndExecution, SetStmt
    <3>3. QED
      BY <2>2, <3>1, <3>2 DEF Next, PanicExplained
  <2>3. QED
    BY <2>1, <2>2
<1>3. QED
  BY <1>1, <1>2, Invariant, AlwaysFindsIts, PTL DEF Spec

\* No callback is made for what was released or freed, and no table is released
\* under its cursor.
THEOREM AlwaysLive == Spec => []TargetsLive
<1>1. IInv => TargetsLive
  <2> SUFFICES ASSUME IInv, ~stray, NEW c \in Conns, call[c] # None, call[c].ref.obj # None
               PROVE  /\ call[c].ref.obj \in live
                      /\ call[c].ref.obj.kind # Module => call[c].ref.obj \in structs
                      /\ call[c].fn \in {"xDestroy", "xDisconnect"} => cur[c] = None
    BY DEF TargetsLive
  <2>1. call[c].fn \in Callbacks
    BY ConstantsAssumption DEF IInv, TypeOK, Calls
  <2>2. call[c].fn \in {"xDestroy", "xDisconnect"} => cur[c] = None
    BY DEF IInv, Pending, When
  <2>3. CASE call[c].fn \in OfModule \cup {"destructor"}
    <3>1. Holds(c, call[c].ref, Module)
      BY <2>3 DEF IInv, Asked, Given, Held
    <3>2. call[c].ref.obj \in live
      BY <2>3 DEF IInv, Asked, Given, Lively
    <3>3. QED
      BY <2>2, <3>1, <3>2 DEF Holds
  <2>4. CASE call[c].fn \in OfTable
    BY <2>2, <2>4 DEF IInv, Asked, Given, Lively, OfTable
  <2>5. CASE call[c].fn \in OfCursor
    BY <2>2, <2>5 DEF IInv, Asked, Given, Lively, NoCursor, OfCursor
  <2>6. QED
    BY <2>1, <2>3, <2>4, <2>5 DEF Callbacks, OfModule, OfTable, OfCursor
<1>2. QED
  BY Invariant, <1>1, PTL

\* A database that is freed leaves no object of the program's behind.
THEOREM AlwaysReleased == Spec => []NothingLost
<1>1. IInv => NothingLost
  BY ConstantsAssumption DEF IInv, NothingLost, Life, Owned, HeldBy, TypeOK, Objects
<1>2. QED
  BY Invariant, <1>1, PTL
=============================================================================
