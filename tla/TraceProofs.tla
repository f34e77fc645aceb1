----------------------------- MODULE TraceProofs -----------------------------
(***************************************************************************)
(* Proofs about Trace, for any number of connections, addresses and calls of *)
(* SetTrace: the table of configurations is exact, a callback runs only       *)
(* while its configuration is in force, and until Conn.Close has returned    *)
(* what a connection's own goroutine does finds its configuration.          *)
(*                                                                         *)
(* The argument.  An address belongs to one connection until its object is   *)
(* freed (Places), so that the entry of an address is what its connection has *)
(* put there (Entries).  A trampoline is in an object whose mutex it holds,   *)
(* and until it returns sqlite3_trace_v2 waits: the configuration it has      *)
(* copied stays in force (OwnCalls, FinalizerCalls).  A statement used after *)
(* Conn.Close keeps the address from being used again, and has no entry.      *)
(***************************************************************************)
EXTENDS Trace, TLAPS

Live(c) == pc[c] \in {"idle", "add", "trace_v2", "closing"}

Holds(c) == Live(c) \/ stmt[c] # "none"

Places ==
  /\ \A c \in Conns : pc[c] = "new" => stmt[c] = "none"
  /\ \A c \in Conns : pc[c] # "new" => db[c] \in Addresses
  /\ \A c \in Conns : Live(c) => objects[db[c]] = "open"
  /\ \A c \in Conns : Holds(c) => objects[db[c]] # "free"
  /\ \A c, d \in Conns : Holds(c) /\ Holds(d) /\ db[c] = db[d] => c = d

\* The finalizer goroutine deals with one statement at a time.
OneFinalized ==
  \A c, d \in Conns :
    stmt[c] \in {"checked", "ending"} /\ stmt[d] \in {"checked", "ending"} => c = d

EntryIs(c, conf) ==
  IF conf = None THEN db[c] \notin DOMAIN traceMap
  ELSE db[c] \in DOMAIN traceMap /\ traceMap[db[c]] = conf

Entries ==
  /\ \A c \in Conns : pc[c] = "idle" => EntryIs(c, current[c])
  /\ \A c \in Conns : pc[c] = "add" => EntryIs(c, None) /\ request[c] # None
  /\ \A c \in Conns : pc[c] = "trace_v2" => EntryIs(c, request[c])
  /\ \A c \in Conns : pc[c] = "closing" =>
       EntryIs(c, IF Searching(c) THEN current[c] ELSE None)
  /\ \A a \in DOMAIN traceMap : \E c \in Conns : Live(c) /\ db[c] = a

\* SQLite has been told of the configuration that SetTrace returned with.
Selection ==
  \A c \in Conns :
    /\ pc[c] = "new" => current[c] = None
    /\ Live(c) => IF current[c] = None THEN mask[db[c]] = {} ELSE Close \in mask[db[c]]

OwnConfigs ==
  \A c \in Conns : /\ current[c] # None => current[c].conn = c
                   /\ request[c] # None => request[c].conn = c

UserAsked(t) == call[t].user => call[t].conf # None /\ call[t].event \in call[t].conf.mask

OwnCalls ==
  \A c \in Conns : call[c] # None =>
    /\ call[c].db = db[c]
    /\ pc[c] \in {"idle", "closing", "closed"}
    /\ call[c].event = Close <=> pc[c] = "closing"
    /\ IF pc[c] = "closed" THEN stmt[c] \in {"running", "ended"} /\ call[c].conf = None
       ELSE current[c] # None /\ call[c].conf \in {None, current[c]}
    /\ UserAsked(c)

FinalizerCalls ==
  call[GC] # None =>
    \E c \in Conns :
      /\ stmt[c] = "ending" /\ call[GC].db = db[c] /\ pc[c] # "closing"
      /\ call[GC].event = Profile
      /\ call[GC].conf # None => Live(c) /\ call[GC].conf \in InForce(c)
      /\ UserAsked(GC)

IInv ==
  /\ TypeOK /\ Places /\ OneFinalized /\ Entries /\ Selection /\ OwnConfigs
  /\ OwnCalls /\ FinalizerCalls

-----------------------------------------------------------------------------
\* Nothing is open, set or running at the start.
LEMMA InitInvariant == Init => IInv
<1> SUFFICES ASSUME Init PROVE IInv
  OBVIOUS
<1> USE ConstantsAssumption DEF Init
<1>1. TypeOK
  BY DEF TypeOK, Threads
<1>2. Places /\ OneFinalized
  BY DEF Places, OneFinalized, Live, Holds
<1>3. Entries /\ Selection /\ OwnConfigs
  BY DEF Entries, Selection, OwnConfigs, Live
<1>4. OwnCalls /\ FinalizerCalls
  BY DEF OwnCalls, FinalizerCalls, Threads
<1>5. QED
  BY <1>1, <1>2, <1>3, <1>4 DEF IInv

\* An event runs the trampoline on an address.
LEMMA EventType ==
  ASSUME TypeOK, Places, NEW t \in Threads, NEW c \in Conns, NEW e \in Events,
         pc[c] # "new", Event(t, c, e)
  PROVE  DOMAIN call' = Threads /\ \A u \in Threads : call'[u] # None => call'[u] \in Calls
<1>1. [db |-> db[c], event |-> e, conf |-> None, user |-> FALSE] \in Calls
  BY DEF Places, Calls
<1>2. CASE e \in mask[db[c]]
  BY <1>1, <1>2 DEF Event, TypeOK
<1>3. CASE e \notin mask[db[c]]
  BY <1>3 DEF Event, TypeOK
<1>4. QED
  BY <1>2, <1>3

\* Every step keeps the type invariant.
LEMMA TypeStep == IInv /\ [Next]_vars => TypeOK'
<1> SUFFICES ASSUME IInv, [Next]_vars PROVE TypeOK'
  OBVIOUS
<1> USE ConstantsAssumption DEF IInv, TypeOK, Goto, sqliteVars, setVars, Places, Entries, Live, EntryIs, Calls, Configs, Threads, Events
<1>1. ASSUME NEW t \in Threads, Lookup(t) PROVE TypeOK'
  BY <1>1 DEF Lookup, Searching, Without
<1>2. ASSUME NEW t \in Threads, TrampolineReturns(t) PROVE TypeOK'
  BY <1>2 DEF TrampolineReturns
<1>3. ASSUME NEW c \in Conns, NEW a \in Addresses, Open(c, a) PROVE TypeOK'
  BY <1>3 DEF Open
<1>4. ASSUME NEW c \in Conns, NEW conf \in Configs \cup {None}, SetTracePop(c, conf) PROVE TypeOK'
  BY <1>4 DEF SetTracePop, Ready, Without
<1>5. ASSUME NEW c \in Conns, SetTraceAdd(c) PROVE TypeOK'
  BY <1>5 DEF SetTraceAdd
<1>6. ASSUME NEW c \in Conns, SetTraceV2(c) PROVE TypeOK'
  BY <1>6 DEF SetTraceV2, Selected, Free
<1>7. ASSUME NEW c \in Conns, Begin(c) PROVE TypeOK'
  BY <1>7 DEF Begin, Ready, AfterClose, Event, Free
<1>8. ASSUME NEW c \in Conns, End(c) PROVE TypeOK'
  <2>1. CASE timed[c]
    <3>1. Event(c, c, Profile) /\ pc[c] # "new"
      BY <1>8, <2>1 DEF End, Ready, AfterClose, ProfileEvent
    <3>2. QED
      BY <1>8, <3>1, EventType DEF End
  <2>2. CASE ~timed[c]
    BY <1>8, <2>2 DEF End, Ready, AfterClose, ProfileEvent
  <2>3. QED
    BY <2>1, <2>2
<1>9. ASSUME NEW c \in Conns, Drop(c) PROVE TypeOK'
  BY <1>9 DEF Drop, Ready, AfterClose
<1>10. ASSUME NEW c \in Conns, FinalizerCheck(c) PROVE TypeOK'
  BY <1>10 DEF FinalizerCheck
<1>11. ASSUME NEW c \in Conns, FinalizerFinalize(c) PROVE TypeOK'
  <2>1. CASE timed[c]
    <3>1. Event(GC, c, Profile) /\ pc[c] # "new"
      BY <1>11, <2>1 DEF FinalizerFinalize, ProfileEvent
    <3>2. QED
      BY <1>11, <3>1, EventType DEF FinalizerFinalize
  <2>2. CASE ~timed[c]
    BY <1>11, <2>2 DEF FinalizerFinalize, ProfileEvent
  <2>3. QED
    BY <2>1, <2>2
<1>12. ASSUME NEW c \in Conns, FinalizeReturns(c) PROVE TypeOK'
  BY <1>12 DEF FinalizeReturns
<1>13. ASSUME NEW c \in Conns, CloseV2(c) PROVE TypeOK'
  BY <1>13 DEF CloseV2, Ready, Event, Free
<1>14. ASSUME NEW c \in Conns, CloseV2Returns(c) PROVE TypeOK'
  BY <1>14 DEF CloseV2Returns
<1>15. ASSUME NEW c \in Conns, CloseClears(c) PROVE TypeOK'
  BY <1>15 DEF CloseClears
<1>16. CASE UNCHANGED vars
  BY <1>16 DEF vars
<1> HIDE DEF IInv
<1>17. QED
  BY <1>1, <1>2, <1>3, <1>4, <1>5, <1>6, <1>7, <1>8, <1>9, <1>10, <1>11, <1>12, <1>13, <1>14, <1>15, <1>16 DEF Next

\* An address is free before it is another connection's.
LEMMA PlacesStep == IInv /\ [Next]_vars => Places'
<1> SUFFICES ASSUME IInv, [Next]_vars PROVE Places'
  OBVIOUS
<1> USE ConstantsAssumption DEF IInv, TypeOK, Goto, sqliteVars, setVars, Places, Live, Holds, Threads
<1>1. ASSUME NEW t \in Threads, Lookup(t) PROVE Places'
  BY <1>1 DEF Lookup, Searching, Without
<1>2. ASSUME NEW t \in Threads, TrampolineReturns(t) PROVE Places'
  BY <1>2 DEF TrampolineReturns
<1>3. ASSUME NEW c \in Conns, NEW a \in Addresses, Open(c, a) PROVE Places'
  BY <1>3 DEF Open
<1>4. ASSUME NEW c \in Conns, NEW conf \in Configs \cup {None}, SetTracePop(c, conf) PROVE Places'
  BY <1>4 DEF SetTracePop, Ready, Without
<1>5. ASSUME NEW c \in Conns, SetTraceAdd(c) PROVE Places'
  BY <1>5 DEF SetTraceAdd
<1>6. ASSUME NEW c \in Conns, SetTraceV2(c) PROVE Places'
  BY <1>6 DEF SetTraceV2, Selected, Free
<1>7. ASSUME NEW c \in Conns, Begin(c) PROVE Places'
  BY <1>7 DEF Begin, Ready, AfterClose, Event, Free
<1>8. ASSUME NEW c \in Conns, End(c) PROVE Places'
  BY <1>8 DEF End, Ready, AfterClose, ProfileEvent, Event, Free
<1>9. ASSUME NEW c \in Conns, Drop(c) PROVE Places'
  BY <1>9 DEF Drop, Ready, AfterClose
<1>10. ASSUME NEW c \in Conns, FinalizerCheck(c) PROVE Places'
  BY <1>10 DEF FinalizerCheck
<1>11. ASSUME NEW c \in Conns, FinalizerFinalize(c) PROVE Places'
  BY <1>11 DEF FinalizerFinalize, ProfileEvent, Event, Free
<1>12. ASSUME NEW c \in Conns, FinalizeReturns(c) PROVE Places'
  BY <1>12 DEF FinalizeReturns
<1>13. ASSUME NEW c \in Conns, CloseV2(c) PROVE Places'
  BY <1>13 DEF CloseV2, Ready, Event, Free
<1>14. ASSUME NEW c \in Conns, CloseV2Returns(c) PROVE Places'
  BY <1>14 DEF CloseV2Returns
<1>15. ASSUME NEW c \in Conns, CloseClears(c) PROVE Places'
  BY <1>15 DEF CloseClears
<1>16. CASE UNCHANGED vars
  BY <1>16 DEF vars
<1> HIDE DEF IInv
<1>17. QED
  BY <1>1, <1>2, <1>3, <1>4, <1>5, <1>6, <1>7, <1>8, <1>9, <1>10, <1>11, <1>12, <1>13, <1>14, <1>15, <1>16 DEF Next

\* The finalizer goroutine takes one statement after the other.
LEMMA OneFinalizedStep == IInv /\ [Next]_vars => OneFinalized'
<1> SUFFICES ASSUME IInv, [Next]_vars PROVE OneFinalized'
  OBVIOUS
<1> USE ConstantsAssumption DEF IInv, TypeOK, Goto, sqliteVars, setVars, OneFinalized, Threads
<1>1. ASSUME NEW t \in Threads, Lookup(t) PROVE OneFinalized'
  BY <1>1 DEF Lookup, Searching, Without
<1>2. ASSUME NEW t \in Threads, TrampolineReturns(t) PROVE OneFinalized'
  BY <1>2 DEF TrampolineReturns
<1>3. ASSUME NEW c \in Conns, NEW a \in Addresses, Open(c, a) PROVE OneFinalized'
  BY <1>3 DEF Open
<1>4. ASSUME NEW c \in Conns, NEW conf \in Configs \cup {None}, SetTracePop(c, conf) PROVE OneFinalized'
  BY <1>4 DEF SetTracePop, Ready, Without
<1>5. ASSUME NEW c \in Conns, SetTraceAdd(c) PROVE OneFinalized'
  BY <1>5 DEF SetTraceAdd
<1>6. ASSUME NEW c \in Conns, SetTraceV2(c) PROVE OneFinalized'
  BY <1>6 DEF SetTraceV2, Selected, Free
<1>7. ASSUME NEW c \in Conns, Begin(c) PROVE OneFinalized'
  BY <1>7 DEF Begin, Ready, AfterClose, Event, Free
<1>8. ASSUME NEW c \in Conns, End(c) PROVE OneFinalized'
  BY <1>8 DEF End, Ready, AfterClose, ProfileEvent, Event, Free
<1>9. ASSUME NEW c \in Conns, Drop(c) PROVE OneFinalized'
  BY <1>9 DEF Drop, Ready, AfterClose
<1>10. ASSUME NEW c \in Conns, FinalizerCheck(c) PROVE OneFinalized'
  BY <1>10 DEF FinalizerCheck
<1>11. ASSUME NEW c \in Conns, FinalizerFinalize(c) PROVE OneFinalized'
  BY <1>11 DEF FinalizerFinalize, ProfileEvent, Event, Free
<1>12. ASSUME NEW c \in Conns, FinalizeReturns(c) PROVE OneFinalized'
  BY <1>12 DEF FinalizeReturns
<1>13. ASSUME NEW c \in Conns, CloseV2(c) PROVE OneFinalized'
  BY <1>13 DEF CloseV2, Ready, Event, Free
<1>14. ASSUME NEW c \in Conns, CloseV2Returns(c) PROVE OneFinalized'
  BY <1>14 DEF CloseV2Returns
<1>15. ASSUME NEW c \in Conns, CloseClears(c) PROVE OneFinalized'
  BY <1>15 DEF CloseClears
<1>16. CASE UNCHANGED vars
  BY <1>16 DEF vars
<1> HIDE DEF IInv
<1>17. QED
  BY <1>1, <1>2, <1>3, <1>4, <1>5, <1>6, <1>7, <1>8, <1>9, <1>10, <1>11, <1>12, <1>13, <1>14, <1>15, <1>16 DEF Next

\* The selected events go with the configuration in force.
LEMMA SelectionStep == IInv /\ [Next]_vars => Selection'
<1> SUFFICES ASSUME IInv, [Next]_vars PROVE Selection'
  OBVIOUS
<1> USE ConstantsAssumption DEF IInv, TypeOK, Goto, sqliteVars, setVars, Places, Selection, Live, Holds, Threads
<1>1. ASSUME NEW t \in Threads, Lookup(t) PROVE Selection'
  BY <1>1 DEF Lookup, Searching, Without
<1>2. ASSUME NEW t \in Threads, TrampolineReturns(t) PROVE Selection'
  BY <1>2 DEF TrampolineReturns
<1>3. ASSUME NEW c \in Conns, NEW a \in Addresses, Open(c, a) PROVE Selection'
  BY <1>3 DEF Open
<1>4. ASSUME NEW c \in Conns, NEW conf \in Configs \cup {None}, SetTracePop(c, conf) PROVE Selection'
  BY <1>4 DEF SetTracePop, Ready, Without
<1>5. ASSUME NEW c \in Conns, SetTraceAdd(c) PROVE Selection'
  BY <1>5 DEF SetTraceAdd
<1>6. ASSUME NEW c \in Conns, SetTraceV2(c) PROVE Selection'
  BY <1>6 DEF SetTraceV2, Selected, Free
<1>7. ASSUME NEW c \in Conns, Begin(c) PROVE Selection'
  BY <1>7 DEF Begin, Ready, AfterClose, Event, Free
<1>8. ASSUME NEW c \in Conns, End(c) PROVE Selection'
  BY <1>8 DEF End, Ready, AfterClose, ProfileEvent, Event, Free
<1>9. ASSUME NEW c \in Conns, Drop(c) PROVE Selection'
  BY <1>9 DEF Drop, Ready, AfterClose
<1>10. ASSUME NEW c \in Conns, FinalizerCheck(c) PROVE Selection'
  BY <1>10 DEF FinalizerCheck
<1>11. ASSUME NEW c \in Conns, FinalizerFinalize(c) PROVE Selection'
  BY <1>11 DEF FinalizerFinalize, ProfileEvent, Event, Free
<1>12. ASSUME NEW c \in Conns, FinalizeReturns(c) PROVE Selection'
  BY <1>12 DEF FinalizeReturns
<1>13. ASSUME NEW c \in Conns, CloseV2(c) PROVE Selection'
  BY <1>13 DEF CloseV2, Ready, Event, Free
<1>14. ASSUME NEW c \in Conns, CloseV2Returns(c) PROVE Selection'
  BY <1>14 DEF CloseV2Returns
<1>15. ASSUME NEW c \in Conns, CloseClears(c) PROVE Selection'
  BY <1>15 DEF CloseClears
<1>16. CASE UNCHANGED vars
  BY <1>16 DEF vars
<1> HIDE DEF IInv
<1>17. QED
  BY <1>1, <1>2, <1>3, <1>4, <1>5, <1>6, <1>7, <1>8, <1>9, <1>10, <1>11, <1>12, <1>13, <1>14, <1>15, <1>16 DEF Next

\* A connection's configurations are its own.
LEMMA OwnConfigsStep == IInv /\ [Next]_vars => OwnConfigs'
<1> SUFFICES ASSUME IInv, [Next]_vars PROVE OwnConfigs'
  OBVIOUS
<1> USE ConstantsAssumption DEF IInv, TypeOK, Goto, sqliteVars, setVars, OwnConfigs, Threads
<1>1. ASSUME NEW t \in Threads, Lookup(t) PROVE OwnConfigs'
  BY <1>1 DEF Lookup, Searching, Without
<1>2. ASSUME NEW t \in Threads, TrampolineReturns(t) PROVE OwnConfigs'
  BY <1>2 DEF TrampolineReturns
<1>3. ASSUME NEW c \in Conns, NEW a \in Addresses, Open(c, a) PROVE OwnConfigs'
  BY <1>3 DEF Open
<1>4. ASSUME NEW c \in Conns, NEW conf \in Configs \cup {None}, SetTracePop(c, conf) PROVE OwnConfigs'
  BY <1>4 DEF SetTracePop, Ready, Without
<1>5. ASSUME NEW c \in Conns, SetTraceAdd(c) PROVE OwnConfigs'
  BY <1>5 DEF SetTraceAdd
<1>6. ASSUME NEW c \in Conns, SetTraceV2(c) PROVE OwnConfigs'
  BY <1>6 DEF SetTraceV2, Selected, Free
<1>7. ASSUME NEW c \in Conns, Begin(c) PROVE OwnConfigs'
  BY <1>7 DEF Begin, Ready, AfterClose, Event, Free
<1>8. ASSUME NEW c \in Conns, End(c) PROVE OwnConfigs'
  BY <1>8 DEF End, Ready, AfterClose, ProfileEvent, Event, Free
<1>9. ASSUME NEW c \in Conns, Drop(c) PROVE OwnConfigs'
  BY <1>9 DEF Drop, Ready, AfterClose
<1>10. ASSUME NEW c \in Conns, FinalizerCheck(c) PROVE OwnConfigs'
  BY <1>10 DEF FinalizerCheck
<1>11. ASSUME NEW c \in Conns, FinalizerFinalize(c) PROVE OwnConfigs'
  BY <1>11 DEF FinalizerFinalize, ProfileEvent, Event, Free
<1>12. ASSUME NEW c \in Conns, FinalizeReturns(c) PROVE OwnConfigs'
  BY <1>12 DEF FinalizeReturns
<1>13. ASSUME NEW c \in Conns, CloseV2(c) PROVE OwnConfigs'
  BY <1>13 DEF CloseV2, Ready, Event, Free
<1>14. ASSUME NEW c \in Conns, CloseV2Returns(c) PROVE OwnConfigs'
  BY <1>14 DEF CloseV2Returns
<1>15. ASSUME NEW c \in Conns, CloseClears(c) PROVE OwnConfigs'
  BY <1>15 DEF CloseClears
<1>16. CASE UNCHANGED vars
  BY <1>16 DEF vars
<1> HIDE DEF IInv
<1>17. QED
  BY <1>1, <1>2, <1>3, <1>4, <1>5, <1>6, <1>7, <1>8, <1>9, <1>10, <1>11, <1>12, <1>13, <1>14, <1>15, <1>16 DEF Next

\* The entry of an address is what its connection has put there.
LEMMA EntriesStep == IInv /\ [Next]_vars => Entries'
<1> SUFFICES ASSUME IInv, [Next]_vars PROVE Entries'
  OBVIOUS
<1> USE ConstantsAssumption DEF IInv, TypeOK, Goto, sqliteVars, setVars, Places, Entries, Selection, OwnCalls, FinalizerCalls, EntryIs, Live, Holds, Searching, Threads
<1>1. ASSUME NEW t \in Threads, Lookup(t) PROVE Entries'
  <2>1. CASE call[t].event # Close
    <3>1. UNCHANGED traceMap
      BY <1>1, <2>1 DEF Lookup
    <3>2. \A c \in Conns : pc[c] = "closing" => (Searching(c)' <=> Searching(c))
      BY <1>1, <2>1 DEF Lookup
    <3>3. QED
      BY <1>1, <3>1, <3>2 DEF Lookup
  <2>2. CASE call[t].event = Close
    <3>1. PICK c \in Conns : t = c /\ pc[c] = "closing" /\ call[c].db = db[c]
      BY <1>1, <2>2 DEF Lookup, Profile, Close
    <3>2. traceMap' = Without(db[c]) /\ ~Searching(c)'
      BY <1>1, <2>2, <3>1 DEF Lookup, Calls
    <3>3. \A d \in Conns \ {c} : (Searching(d)' <=> Searching(d)) /\ (Live(d) => db[d] # db[c])
      BY <1>1, <3>1 DEF Lookup
    <3>4. QED
      BY <1>1, <3>1, <3>2, <3>3 DEF Lookup, Without
  <2>3. QED
    BY <2>1, <2>2
<1>2. ASSUME NEW t \in Threads, TrampolineReturns(t) PROVE Entries'
  BY <1>2 DEF TrampolineReturns
<1>3. ASSUME NEW c \in Conns, NEW a \in Addresses, Open(c, a) PROVE Entries'
  <2>1. a \notin DOMAIN traceMap /\ current[c] = None
    BY <1>3 DEF Open
  <2>2. \A d \in Conns \ {c} : Live(d)' <=> Live(d)
    BY <1>3 DEF Open
  <2>3. \A b \in DOMAIN traceMap : \E d \in Conns : Live(d)' /\ db'[d] = b
    BY <1>3, <2>1, <2>2 DEF Open
  <2>4. QED
    BY <1>3, <2>1, <2>2, <2>3 DEF Open
<1>4. ASSUME NEW c \in Conns, NEW conf \in Configs \cup {None}, SetTracePop(c, conf) PROVE Entries'
  BY <1>4 DEF SetTracePop, Ready, Without
<1>5. ASSUME NEW c \in Conns, SetTraceAdd(c) PROVE Entries'
  BY <1>5 DEF SetTraceAdd
<1>6. ASSUME NEW c \in Conns, SetTraceV2(c) PROVE Entries'
  BY <1>6 DEF SetTraceV2, Selected, Free
<1>7. ASSUME NEW c \in Conns, Begin(c) PROVE Entries'
  BY <1>7 DEF Begin, Ready, AfterClose, Event, Free
<1>8. ASSUME NEW c \in Conns, End(c) PROVE Entries'
  BY <1>8 DEF End, Ready, AfterClose, ProfileEvent, Event, Free
<1>9. ASSUME NEW c \in Conns, Drop(c) PROVE Entries'
  BY <1>9 DEF Drop, Ready, AfterClose
<1>10. ASSUME NEW c \in Conns, FinalizerCheck(c) PROVE Entries'
  BY <1>10 DEF FinalizerCheck
<1>11. ASSUME NEW c \in Conns, FinalizerFinalize(c) PROVE Entries'
  BY <1>11 DEF FinalizerFinalize, ProfileEvent, Event, Free
<1>12. ASSUME NEW c \in Conns, FinalizeReturns(c) PROVE Entries'
  BY <1>12 DEF FinalizeReturns
<1>13. ASSUME NEW c \in Conns, CloseV2(c) PROVE Entries'
  <2>1. \A d \in Conns \ {c} : (pc[d]' = pc[d]) /\ (Searching(d)' <=> Searching(d))
    BY <1>13 DEF CloseV2, Event
  <2>2. EntryIs(c, current[c]) /\ Live(c) /\ call[c] = None
    BY <1>13 DEF CloseV2, Ready
  <2>3. current[c] # None => Searching(c)'
    <3>1. SUFFICES ASSUME current[c] # None PROVE Searching(c)'
      OBVIOUS
    <3>2. Close \in mask[db[c]]
      BY <2>2, <3>1
    <3>3. call'[c] = [db |-> db[c], event |-> Close, conf |-> None, user |-> FALSE]
      BY <1>13, <3>2 DEF CloseV2, Event
    <3>4. call'[c] \in Calls
      BY <2>2, <3>3 DEF Calls, Events
    <3>5. call'[c].conf = None
      BY <3>3
    <3>6. QED
      BY <3>4, <3>5
  <2>4. QED
    BY <1>13, <2>1, <2>2, <2>3 DEF CloseV2
<1>14. ASSUME NEW c \in Conns, CloseV2Returns(c) PROVE Entries'
  BY <1>14 DEF CloseV2Returns
<1>15. ASSUME NEW c \in Conns, CloseClears(c) PROVE Entries'
  BY <1>15 DEF CloseClears
<1>16. CASE UNCHANGED vars
  BY <1>16 DEF vars
<1> HIDE DEF IInv
<1>17. QED
  BY <1>1, <1>2, <1>3, <1>4, <1>5, <1>6, <1>7, <1>8, <1>9, <1>10, <1>11, <1>12, <1>13, <1>14, <1>15, <1>16 DEF Next

\* The trampoline of a connection's own goroutine.
LEMMA OwnCallsStep == IInv /\ [Next]_vars => OwnCalls'
<1> SUFFICES ASSUME IInv, [Next]_vars PROVE OwnCalls'
  OBVIOUS
<1> USE ConstantsAssumption DEF IInv, TypeOK, Goto, sqliteVars, setVars, Places, Entries, Selection, OwnCalls, EntryIs, Live, Holds, UserAsked, Threads, Calls, Configs
<1>1. ASSUME NEW t \in Threads, Lookup(t) PROVE OwnCalls'
  BY <1>1 DEF Lookup, Searching, Without
<1>2. ASSUME NEW t \in Threads, TrampolineReturns(t) PROVE OwnCalls'
  BY <1>2 DEF TrampolineReturns
<1>3. ASSUME NEW c \in Conns, NEW a \in Addresses, Open(c, a) PROVE OwnCalls'
  BY <1>3 DEF Open
<1>4. ASSUME NEW c \in Conns, NEW conf \in Configs \cup {None}, SetTracePop(c, conf) PROVE OwnCalls'
  BY <1>4 DEF SetTracePop, Ready, Without
<1>5. ASSUME NEW c \in Conns, SetTraceAdd(c) PROVE OwnCalls'
  BY <1>5 DEF SetTraceAdd
<1>6. ASSUME NEW c \in Conns, SetTraceV2(c) PROVE OwnCalls'
  BY <1>6 DEF SetTraceV2, Selected, Free
<1>7. ASSUME NEW c \in Conns, Begin(c) PROVE OwnCalls'
  <2>1. \A d \in Conns \ {c} : call'[d] = call[d]
    BY <1>7 DEF Begin, Ready, AfterClose, Event
  <2>2. CASE Stmt \in mask[db[c]]
    <3>1. call'[c] \in {None, [db |-> db[c], event |-> Stmt, conf |-> None, user |-> FALSE]}
      BY <1>7, <2>2 DEF Begin, Ready, AfterClose, Event
    <3>2. /\ pc[c] \in {"idle", "closed"} /\ (pc[c] = "idle" => current[c] # None)
          /\ stmt'[c] = "running" /\ UNCHANGED <<pc, db, current>>
          /\ \A d \in Conns \ {c} : stmt'[d] = stmt[d]
      BY <1>7, <2>2 DEF Begin, Ready, AfterClose
    <3>3. QED
      BY <2>1, <3>1, <3>2 DEF Close, Stmt
  <2>3. CASE Stmt \notin mask[db[c]]
    BY <1>7, <2>3 DEF Begin, Ready, AfterClose, Event, Free
  <2>4. QED
    BY <2>2, <2>3
<1>8. ASSUME NEW c \in Conns, End(c) PROVE OwnCalls'
  <2>1. \A d \in Conns \ {c} : call'[d] = call[d]
    BY <1>8 DEF End, Ready, AfterClose, ProfileEvent, Event
  <2>2. CASE Profile \in mask[db[c]]
    <3>1. call'[c] \in {None, [db |-> db[c], event |-> Profile, conf |-> None, user |-> FALSE]}
      BY <1>8, <2>2 DEF End, Ready, AfterClose, ProfileEvent, Event
    <3>2. /\ pc[c] \in {"idle", "closed"} /\ (pc[c] = "idle" => current[c] # None)
          /\ pc[c] = "closed" => stmt'[c] = "ended"
          /\ UNCHANGED <<pc, db, current>>
          /\ \A d \in Conns \ {c} : stmt'[d] = stmt[d]
      BY <1>8, <2>2 DEF End, Ready, AfterClose
    <3>3. QED
      BY <2>1, <3>1, <3>2 DEF Close, Profile
  <2>3. CASE Profile \notin mask[db[c]]
    BY <1>8, <2>3 DEF End, Ready, AfterClose, ProfileEvent, Event, Free
  <2>4. QED
    BY <2>2, <2>3
<1>9. ASSUME NEW c \in Conns, Drop(c) PROVE OwnCalls'
  BY <1>9 DEF Drop, Ready, AfterClose
<1>10. ASSUME NEW c \in Conns, FinalizerCheck(c) PROVE OwnCalls'
  BY <1>10 DEF FinalizerCheck
<1>11. ASSUME NEW c \in Conns, FinalizerFinalize(c) PROVE OwnCalls'
  BY <1>11 DEF FinalizerFinalize, ProfileEvent, Event, Free
<1>12. ASSUME NEW c \in Conns, FinalizeReturns(c) PROVE OwnCalls'
  BY <1>12 DEF FinalizeReturns
<1>13. ASSUME NEW c \in Conns, CloseV2(c) PROVE OwnCalls'
  BY <1>13 DEF CloseV2, Ready, Event, Free
<1>14. ASSUME NEW c \in Conns, CloseV2Returns(c) PROVE OwnCalls'
  BY <1>14 DEF CloseV2Returns
<1>15. ASSUME NEW c \in Conns, CloseClears(c) PROVE OwnCalls'
  BY <1>15 DEF CloseClears
<1>16. CASE UNCHANGED vars
  BY <1>16 DEF vars
<1> HIDE DEF IInv
<1>17. QED
  BY <1>1, <1>2, <1>3, <1>4, <1>5, <1>6, <1>7, <1>8, <1>9, <1>10, <1>11, <1>12, <1>13, <1>14, <1>15, <1>16 DEF Next

\* The trampoline of the finalizer goroutine.
LEMMA FinalizerCallsStep == IInv /\ [Next]_vars => FinalizerCalls'
<1> SUFFICES ASSUME IInv, [Next]_vars PROVE FinalizerCalls'
  OBVIOUS
<1> USE ConstantsAssumption DEF IInv, TypeOK, Goto, sqliteVars, setVars, Places, OneFinalized, Entries, FinalizerCalls, EntryIs, Live, Holds, UserAsked, InForce, Threads, Calls, Configs
<1>1. ASSUME NEW t \in Threads, Lookup(t) PROVE FinalizerCalls'
  <2>1. CASE t = GC
    <3>1. PICK c \in Conns : stmt[c] = "ending" /\ call[GC].db = db[c] /\ pc[c] # "closing"
                              /\ call[GC].event = Profile
      BY <1>1, <2>1 DEF Lookup, Searching
    <3>2. Live(c) /\ traceMap[db[c]] \in InForce(c)
      BY <1>1, <2>1, <3>1 DEF Lookup
    <3>3. call'[GC].db = db[c] /\ call'[GC].event = Profile /\ call'[GC].conf = traceMap[db[c]]
          /\ (call'[GC].user <=> Profile \in traceMap[db[c]].mask)
      BY <1>1, <2>1, <3>1 DEF Lookup, Searching
    <3>4. UNCHANGED <<stmt, pc, db, current, request>>
      BY <1>1 DEF Lookup
    <3>5. (Live(c) /\ call[GC].conf \in InForce(c))'
      BY <3>2, <3>3, <3>4
    <3>6. (UserAsked(GC))'
      <4>1. traceMap[db[c]] \in Configs
        BY <1>1, <2>1, <3>1 DEF Lookup
      <4>2. call'[GC].conf # None
        BY <3>3, <4>1
      <4>3. QED
        BY <3>3, <4>2
    <3>7. QED
      BY <3>1, <3>3, <3>4, <3>5, <3>6
  <2>2. CASE t # GC
    BY <1>1, <2>2 DEF Lookup
  <2>3. QED
    BY <2>1, <2>2
<1>2. ASSUME NEW t \in Threads, TrampolineReturns(t) PROVE FinalizerCalls'
  BY <1>2 DEF TrampolineReturns
<1>3. ASSUME NEW c \in Conns, NEW a \in Addresses, Open(c, a) PROVE FinalizerCalls'
  BY <1>3 DEF Open
<1>4. ASSUME NEW c \in Conns, NEW conf \in Configs \cup {None}, SetTracePop(c, conf) PROVE FinalizerCalls'
  BY <1>4 DEF SetTracePop, Ready, Without
<1>5. ASSUME NEW c \in Conns, SetTraceAdd(c) PROVE FinalizerCalls'
  BY <1>5 DEF SetTraceAdd
<1>6. ASSUME NEW c \in Conns, SetTraceV2(c) PROVE FinalizerCalls'
  BY <1>6 DEF SetTraceV2, Selected, Free
<1>7. ASSUME NEW c \in Conns, Begin(c) PROVE FinalizerCalls'
  BY <1>7 DEF Begin, Ready, AfterClose, Event, Free
<1>8. ASSUME NEW c \in Conns, End(c) PROVE FinalizerCalls'
  BY <1>8 DEF End, Ready, AfterClose, ProfileEvent, Event, Free
<1>9. ASSUME NEW c \in Conns, Drop(c) PROVE FinalizerCalls'
  BY <1>9 DEF Drop, Ready, AfterClose
<1>10. ASSUME NEW c \in Conns, FinalizerCheck(c) PROVE FinalizerCalls'
  BY <1>10 DEF FinalizerCheck
<1>11. ASSUME NEW c \in Conns, FinalizerFinalize(c) PROVE FinalizerCalls'
  BY <1>11 DEF FinalizerFinalize, ProfileEvent, Event, Free
<1>12. ASSUME NEW c \in Conns, FinalizeReturns(c) PROVE FinalizerCalls'
  BY <1>12 DEF FinalizeReturns
<1>13. ASSUME NEW c \in Conns, CloseV2(c) PROVE FinalizerCalls'
  BY <1>13 DEF CloseV2, Ready, Event, Free
<1>14. ASSUME NEW c \in Conns, CloseV2Returns(c) PROVE FinalizerCalls'
  BY <1>14 DEF CloseV2Returns
<1>15. ASSUME NEW c \in Conns, CloseClears(c) PROVE FinalizerCalls'
  BY <1>15 DEF CloseClears
<1>16. CASE UNCHANGED vars
  BY <1>16 DEF vars
<1> HIDE DEF IInv
<1>17. QED
  BY <1>1, <1>2, <1>3, <1>4, <1>5, <1>6, <1>7, <1>8, <1>9, <1>10, <1>11, <1>12, <1>13, <1>14, <1>15, <1>16 DEF Next

\* The invariant is inductive.
LEMMA InvariantStep == IInv /\ [Next]_vars => IInv'
BY TypeStep, PlacesStep, OneFinalizedStep, SelectionStep, OwnConfigsStep, EntriesStep,
   OwnCallsStep, FinalizerCallsStep DEF IInv

\* The inductive invariant holds in every reachable state.
THEOREM Invariant == Spec => []IInv
BY InitInvariant, InvariantStep, PTL DEF Spec

-----------------------------------------------------------------------------
\* Every state of the specification is of its type.
THEOREM TypeCorrect == Spec => []TypeOK
BY Invariant, PTL DEF IInv

\* The table holds the configurations of the open connections and no others.
THEOREM AlwaysExact == Spec => []TableIsExact
<1>1. IInv => TableIsExact
  BY DEF IInv, Entries, EntryIs, TableIsExact, InForce, Live
<1>2. QED
  BY Invariant, <1>1, PTL

\* A user's callback runs only for what it was set for, while it is set.
THEOREM AlwaysInForce == Spec => []CallbackInForce
<1>1. IInv => CallbackInForce
  BY ConstantsAssumption DEF IInv, TypeOK, Calls, Configs, Places, OwnConfigs, OwnCalls, FinalizerCalls,
     UserAsked, CallbackInForce, InForce, Live, Threads
<1>2. QED
  BY Invariant, <1>1, PTL

\* Until Conn.Close has returned, a connection's own goroutine does not meet the
\* panic of the trampoline.
THEOREM AlwaysFound == Spec => []OwnEventsFound
<1>1. IInv => OwnEventsFound
  BY DEF IInv, Entries, EntryIs, OwnCalls, OwnEventsFound, Searching
<1>2. QED
  BY Invariant, <1>1, PTL
=============================================================================
