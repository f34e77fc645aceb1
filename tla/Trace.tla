-------------------------------- MODULE Trace --------------------------------
(***************************************************************************)
(* SQLiteConn.SetTrace, the process-wide table of trace configurations, and  *)
(* traceCallbackTrampoline (build tag sqlite_trace).                         *)
(*                                                                         *)
(* The table is keyed by the address of the sqlite3 object; SQLite, external, *)
(* calls the trampoline with that address and holds the object's mutex, both *)
(* while it does and from the close event to the end of sqlite3_close_v2.    *)
(* (The mutex is that of the default, _mutex=full: with _mutex=no nothing    *)
(* waits for a trampoline.)                                                  *)
(* An object closed with a statement left is a zombie and is freed with it;  *)
(* a freed address may be that of the next object.  A zombie still reports   *)
(* events: Rows.Close, Rows.Next and Stmt.Exec do not ask whether the        *)
(* connection is open.                                                       *)
(*                                                                         *)
(* Each connection is used by one goroutine, by way of the driver's own      *)
(* types, and has one statement at a time.  The runtime's finalizer          *)
(* goroutine finalizes a statement that was dropped; it may do so between    *)
(* any two steps.  traceMapLock guards one access at a time.                 *)
(***************************************************************************)
EXTENDS Naturals

CONSTANTS
  Conns, Addresses, None,
  GC,       \* the finalizer goroutine
  Masks,    \* EventMask of the configurations the program asks for
  MaxSets   \* bound: calls of SetTrace on each connection

Stmt    == "stmt"
Profile == "profile"
Close   == "close"
Events  == {Stmt, Profile, Close}

Threads == Conns \cup {GC}

\* Each call of SetTrace has a configuration of its own.
Configs == [conn : Conns, call : 1..MaxSets, mask : Masks]

\* What the trampoline was called with, the configuration it has found, and
\* whether it calls the user's callback.
Calls == [db : Addresses, event : Events, conf : Configs \cup {None}, user : BOOLEAN]

ASSUME ConstantsAssumption ==
  /\ GC \notin Conns
  /\ None \notin Addresses \cup Configs \cup Calls
  /\ Masks \subseteq SUBSET Events /\ MaxSets \in Nat

VARIABLES
  traceMap, \* address -> configuration
  objects,  \* the sqlite3 object at each address: "free", "open" or "zombie"
  mask,     \* the events SQLite has been told to report, for each address
  pc,       \* what the goroutine of each connection is in
  db,       \* the address each connection was opened at
  sets,     \* calls of SetTrace
  request,  \* the configuration of the latest call, None to remove it
  current,  \* the configuration of the latest call that has returned
  stmt,     \* each connection's statement, as the driver and the runtime have it
  timed,    \* its execution was begun with Profile selected
  call      \* the trampoline running in each thread

sqliteVars == <<objects, mask, timed>>
setVars    == <<sets, request, current>>
vars == <<traceMap, sqliteVars, pc, db, setVars, stmt, call>>

Goto(c, l) == pc' = [pc EXCEPT ![c] = l]

\* An object's mutex is free.
Free(a) ==
  /\ \A t \in Threads : call[t] # None => call[t].db # a
  /\ \A c \in Conns : pc[c] = "closing" \/ stmt[c] = "ending" => db[c] # a

\* SQLite reports an event of c's object in thread t, if it is selected.
Event(t, c, e) ==
  call' = IF e \in mask[db[c]]
            THEN [call EXCEPT ![t] = [db |-> db[c], event |-> e, conf |-> None, user |-> FALSE]]
            ELSE call

-----------------------------------------------------------------------------
(* The table and the trampoline *)

Without(a) == [b \in DOMAIN traceMap \ {a} |-> traceMap[b]]

Searching(t) == call[t] # None /\ call[t].conf = None

\* Faulty variant: what the user asked for is not looked at.
LookupIgnoresMask(t) ==
  /\ Searching(t) /\ call[t].db \in DOMAIN traceMap
  /\ call' = [call EXCEPT ![t].conf = traceMap[call[t].db], ![t].user = TRUE]
  /\ traceMap' = IF call[t].event = Close THEN Without(call[t].db) ELSE traceMap
  /\ UNCHANGED <<sqliteVars, pc, db, setVars, stmt>>

\* Faulty variant: the close event looks its entry up and leaves it.
LookupLeavesEntry(t) ==
  /\ Searching(t) /\ call[t].db \in DOMAIN traceMap
  /\ LET conf == traceMap[call[t].db]
     IN call' = [call EXCEPT ![t].conf = conf, ![t].user = call[t].event \in conf.mask]
  /\ UNCHANGED <<traceMap, sqliteVars, pc, db, setVars, stmt>>

\* popTraceMapping for the close event, lookupTraceMapping for the others, and
\* the user's callback if it asked for the event.  Without an entry, a panic.
Lookup(t) ==
  /\ Searching(t) /\ call[t].db \in DOMAIN traceMap
  /\ LET conf == traceMap[call[t].db]
     IN call' = [call EXCEPT ![t].conf = conf, ![t].user = call[t].event \in conf.mask]
  /\ traceMap' = IF call[t].event = Close THEN Without(call[t].db) ELSE traceMap
  /\ UNCHANGED <<sqliteVars, pc, db, setVars, stmt>>

TrampolineReturns(t) ==
  /\ call[t] # None /\ call[t].conf # None
  /\ call' = [call EXCEPT ![t] = None]
  /\ UNCHANGED <<traceMap, sqliteVars, pc, db, setVars, stmt>>

-----------------------------------------------------------------------------
(* SetTrace *)

Ready(c) == pc[c] = "idle" /\ call[c] = None

\* Faulty variant: the early return for nil is missing.
SetTracePopGoesOn(c, conf) ==
  /\ Ready(c) /\ sets[c] < MaxSets
  /\ conf # None => conf.conn = c /\ conf.call = sets[c] + 1
  /\ traceMap' = Without(db[c])
  /\ sets' = [sets EXCEPT ![c] = @ + 1]
  /\ request' = [request EXCEPT ![c] = conf]
  /\ Goto(c, "add")
  /\ UNCHANGED <<sqliteVars, db, current, stmt, call>>

\* The entry goes first, whatever is requested.
SetTracePop(c, conf) ==
  /\ Ready(c) /\ sets[c] < MaxSets
  /\ conf # None => conf.conn = c /\ conf.call = sets[c] + 1
  /\ traceMap' = Without(db[c])
  /\ sets' = [sets EXCEPT ![c] = @ + 1]
  /\ request' = [request EXCEPT ![c] = conf]
  /\ Goto(c, IF conf = None THEN "trace_v2" ELSE "add")
  /\ UNCHANGED <<sqliteVars, db, current, stmt, call>>

\* addTraceMapping: panics when the handle is registered already.
SetTraceAdd(c) ==
  /\ pc[c] = "add" /\ db[c] \notin DOMAIN traceMap
  /\ traceMap' = [a \in DOMAIN traceMap \cup {db[c]} |->
                    IF a = db[c] THEN request[c] ELSE traceMap[a]]
  /\ Goto(c, "trace_v2")
  /\ UNCHANGED <<sqliteVars, db, setVars, stmt, call>>

\* Faulty variant: the mask is the one the user gave.
SelectedByUser(c) == IF request[c] = None THEN {} ELSE request[c].mask

Selected(c) == IF request[c] = None THEN {} ELSE request[c].mask \cup {Close}

\* Faulty variant: without a configuration, the entry is all that is removed.
SetTraceV2Skipped(c) ==
  /\ pc[c] = "trace_v2" /\ Free(db[c])
  /\ mask' = IF request[c] = None THEN mask ELSE [mask EXCEPT ![db[c]] = Selected(c)]
  /\ current' = [current EXCEPT ![c] = request[c]]
  /\ Goto(c, "idle")
  /\ UNCHANGED <<traceMap, objects, timed, db, sets, request, stmt, call>>

\* sqlite3_trace_v2, which waits for the object's mutex.
SetTraceV2(c) ==
  /\ pc[c] = "trace_v2" /\ Free(db[c])
  /\ mask' = [mask EXCEPT ![db[c]] = Selected(c)]
  /\ current' = [current EXCEPT ![c] = request[c]]
  /\ Goto(c, "idle")
  /\ UNCHANGED <<traceMap, objects, timed, db, sets, request, stmt, call>>

-----------------------------------------------------------------------------
(* The connection, its statement, and the finalizer *)

Open(c, a) ==
  /\ pc[c] = "new" /\ objects[a] = "free"
  /\ objects' = [objects EXCEPT ![a] = "open"]
  /\ mask' = [mask EXCEPT ![a] = {}]
  /\ db' = [db EXCEPT ![c] = a]
  /\ Goto(c, "idle")
  /\ UNCHANGED <<traceMap, timed, setVars, stmt, call>>

\* c's goroutine is back from Conn.Close, and may still have its statement.
AfterClose(c) == pc[c] = "closed" /\ call[c] = None

\* A step begins the execution.
Begin(c) ==
  /\ (Ready(c) /\ stmt[c] = "none") \/ (AfterClose(c) /\ stmt[c] = "ended")
  /\ Free(db[c])
  /\ stmt' = [stmt EXCEPT ![c] = "running"]
  /\ timed' = [timed EXCEPT ![c] = Profile \in mask[db[c]]]
  /\ Event(c, c, Stmt)
  /\ UNCHANGED <<traceMap, objects, mask, pc, db, setVars>>

ProfileEvent(t, c) ==
  IF timed[c] THEN Event(t, c, Profile) ELSE UNCHANGED call

\* The last step, a reset or sqlite3_finalize ends it; after Conn.Close the
\* statement is not finalized any more.
End(c) ==
  /\ Ready(c) \/ AfterClose(c)
  /\ stmt[c] = "running" /\ Free(db[c])
  /\ stmt' = [stmt EXCEPT ![c] = IF pc[c] = "closed" THEN "ended" ELSE "none"]
  /\ ProfileEvent(c, c)
  /\ UNCHANGED <<traceMap, sqliteVars, pc, db, setVars>>

\* The program loses a statement it has not closed.
Drop(c) ==
  /\ Ready(c) \/ AfterClose(c)
  /\ stmt[c] \in {"running", "ended"}
  /\ stmt' = [stmt EXCEPT ![c] = "dropped"]
  /\ UNCHANGED <<traceMap, sqliteVars, pc, db, setVars, call>>

\* SQLiteStmt.finalize calls Close, which leaves the statement alone when the
\* connection is closed.
FinalizerCheck(c) ==
  /\ stmt[c] = "dropped"
  /\ \A d \in Conns : stmt[d] \notin {"checked", "ending"}
  /\ stmt' = [stmt EXCEPT ![c] = IF pc[c] = "closed" THEN "left" ELSE "checked"]
  /\ UNCHANGED <<traceMap, sqliteVars, pc, db, setVars, call>>

\* sqlite3_finalize: the event first, then a zombie goes with its statement.
FinalizerFinalize(c) ==
  /\ stmt[c] = "checked" /\ Free(db[c])
  /\ stmt' = [stmt EXCEPT ![c] = "ending"]
  /\ ProfileEvent(GC, c)
  /\ UNCHANGED <<traceMap, sqliteVars, pc, db, setVars>>

FinalizeReturns(c) ==
  /\ stmt[c] = "ending" /\ call[GC] = None
  /\ stmt' = [stmt EXCEPT ![c] = "none"]
  /\ objects' = [objects EXCEPT ![db[c]] = IF @ = "zombie" THEN "free" ELSE @]
  /\ UNCHANGED <<traceMap, mask, timed, pc, db, setVars, call>>

\* Conn.Close: sqlite3_close_v2 reports the event first, ...
CloseV2(c) ==
  /\ Ready(c) /\ Free(db[c])
  /\ Goto(c, "closing")
  /\ Event(c, c, Close)
  /\ UNCHANGED <<traceMap, sqliteVars, db, setVars, stmt>>

CloseV2Returns(c) ==
  /\ pc[c] = "closing" /\ call[c] = None
  /\ objects' = [objects EXCEPT ![db[c]] = IF stmt[c] = "none" THEN "free" ELSE "zombie"]
  /\ Goto(c, "clear")
  /\ UNCHANGED <<traceMap, mask, timed, db, setVars, stmt, call>>

\* ... c.db = nil comes last.
CloseClears(c) ==
  /\ pc[c] = "clear"
  /\ Goto(c, "closed")
  /\ UNCHANGED <<traceMap, sqliteVars, db, setVars, stmt, call>>

-----------------------------------------------------------------------------
Init ==
  /\ traceMap = [a \in {} |-> None]
  /\ objects = [a \in Addresses |-> "free"]
  /\ mask = [a \in Addresses |-> {}]
  /\ pc = [c \in Conns |-> "new"]
  /\ db = [c \in Conns |-> None]
  /\ sets = [c \in Conns |-> 0]
  /\ request = [c \in Conns |-> None]
  /\ current = [c \in Conns |-> None]
  /\ stmt = [c \in Conns |-> "none"]
  /\ timed = [c \in Conns |-> FALSE]
  /\ call = [t \in Threads |-> None]

Next ==
  \/ \E t \in Threads : Lookup(t) \/ TrampolineReturns(t)
  \/ \E c \in Conns :
       \/ \E a \in Addresses : Open(c, a)
       \/ \E conf \in Configs \cup {None} : SetTracePop(c, conf)
       \/ SetTraceAdd(c) \/ SetTraceV2(c)
       \/ Begin(c) \/ End(c) \/ Drop(c)
       \/ FinalizerCheck(c) \/ FinalizerFinalize(c) \/ FinalizeReturns(c)
       \/ CloseV2(c) \/ CloseV2Returns(c) \/ CloseClears(c)

Spec == Init /\ [][Next]_vars

-----------------------------------------------------------------------------
(* Properties *)

TypeOK ==
  /\ DOMAIN traceMap \subseteq Addresses
  /\ \A a \in DOMAIN traceMap : traceMap[a] \in Configs
  /\ objects \in [Addresses -> {"free", "open", "zombie"}]
  /\ mask \in [Addresses -> SUBSET Events]
  /\ pc \in [Conns -> {"new", "idle", "add", "trace_v2", "closing", "clear", "closed"}]
  /\ db \in [Conns -> Addresses \cup {None}]
  /\ sets \in [Conns -> 0..MaxSets]
  /\ request \in [Conns -> Configs \cup {None}]
  /\ current \in [Conns -> Configs \cup {None}]
  /\ stmt \in [Conns -> {"none", "running", "ended", "dropped", "checked", "ending", "left"}]
  /\ timed \in [Conns -> BOOLEAN]
  /\ DOMAIN call = Threads
  /\ \A t \in Threads : call[t] # None => call[t] \in Calls

\* The configurations in force for c: a SetTrace under way has two.
InForce(c) == {current[c]} \cup (IF pc[c] \in {"add", "trace_v2"} THEN {request[c]} ELSE {})

\* The table holds nothing of an object that is closed, so that the next one at
\* its address neither is traced by the callback of another connection nor
\* panics in addTraceMapping, and an open one is in it as its latest SetTrace
\* says.
TableIsExact ==
  /\ \A a \in DOMAIN traceMap :
       \E c \in Conns : /\ db[c] = a /\ pc[c] \in {"idle", "trace_v2", "closing"}
                        /\ traceMap[a] \in InForce(c)
  /\ \A c \in Conns : pc[c] = "idle" =>
       (db[c] \in DOMAIN traceMap <=> current[c] # None)

\* A user's callback runs for events of the connection it was set on, of the
\* kinds it was asked for, and never once a later SetTrace, or the one that
\* removes it, has returned.
CallbackInForce ==
  \A t \in Threads : call[t] # None /\ call[t].user =>
    LET conf == call[t].conf
    IN /\ call[t].event \in conf.mask
       /\ call[t].db = db[conf.conn] /\ objects[call[t].db] = "open"
       /\ conf \in InForce(conf.conn)

\* Until Conn.Close has returned, the events of what the connection's own
\* goroutine does find their entry, also between the steps of SetTrace.
OwnEventsFound ==
  \A c \in Conns : Searching(c) /\ pc[c] # "closed" => call[c].db \in DOMAIN traceMap

\* panic("Mapping not found for handle ..."): the trampoline takes it that every
\* event finds one.
MappingFound == \A t \in Threads : Searching(t) => call[t].db \in DOMAIN traceMap
=============================================================================
