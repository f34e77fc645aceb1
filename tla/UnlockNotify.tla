---------------------------- MODULE UnlockNotify ----------------------------
(***************************************************************************)
(* Blocking steps in shared-cache mode (build tag sqlite_unlock_notify):    *)
(* _sqlite3_step_blocking and its two siblings, unlock_notify_wait, the     *)
(* table of channels and unlock_notify_callback.                            *)
(*                                                                         *)
(* SQLite's side is external and modelled from how the code relies on it:   *)
(* a table lock held by another connection makes a step fail with           *)
(* SQLITE_LOCKED_SHAREDCACHE and remembers the blocker;                     *)
(* sqlite3_unlock_notify calls back at once when the blocker has concluded, *)
(* refuses a wait that closes a cycle, and registers it otherwise; the end  *)
(* of a transaction calls back once, with all the arguments registered for  *)
(* it.  Callbacks run with SQLite's static mutex held, in the goroutine of  *)
(* the connection that concludes (or that asked).                           *)
(*                                                                         *)
(* Each connection is driven by one goroutine; the critical sections of     *)
(* the table's mutex contain one access each and are single steps.  The     *)
(* context of a call may end at any time: exec or Next then calls           *)
(* sqlite3_interrupt and goes on waiting for its worker, which is the       *)
(* goroutine of the model.  Nothing but a step looks at the interrupt.      *)
(***************************************************************************)
EXTENDS Naturals, Sequences, FiniteSets, Functions

CONSTANTS
  Conns, Tables, None,
  MaxTx          \* bound: transactions that are begun

ASSUME NamesAssumption == None \notin Conns \cup Tables \cup Nat

ASSUME BoundsAssumption == IsFiniteSet(Conns) /\ MaxTx \in Nat

VARIABLES
  lock,      \* the connection that holds each table of the shared cache
  txs,       \* transactions begun, at most MaxTx
  blockedBy, \* SQLite's pBlockingConnection
  waitsFor,  \* SQLite's pUnlockConnection
  master,    \* owner of SQLite's static mutex
  seqnum,    \* unt.seqnum
  table,     \* unt.table: handle -> wait whose channel it is
  waits,     \* each call of unlock_notify_wait: its channel and its pargv
  mine,      \* the wait each connection is in, an index of waits
  pending,   \* the arguments the callback running in a goroutine has left
  pc,
  want,      \* the table a step is about
  rc         \* what the wait returned: "ok" or "locked"

sqliteVars == <<lock, blockedBy, waitsFor, master>>
tableVars  == <<seqnum, table, waits>>
vars == <<sqliteVars, tableVars, txs, mine, pending, pc, want, rc>>

Goto(c, l) == pc' = [pc EXCEPT ![c] = l]

InTx(c) == \E t \in Tables : lock[t] = c

\* The locks that are left when c's transaction has concluded.
Without(c) == [t \in Tables |-> IF lock[t] = c THEN None ELSE lock[t]]

-----------------------------------------------------------------------------
(* A statement, and the loop of _sqlite3_step_blocking around it. *)

\* A statement of the connection's next or current transaction begins.
Begin(c, t) ==
  /\ pc[c] = "idle" /\ rc[c] = "ok" /\ lock[t] # c
  /\ InTx(c) \/ txs < MaxTx
  /\ txs' = IF InTx(c) THEN txs ELSE txs + 1
  /\ want' = [want EXCEPT ![c] = t]
  /\ Goto(c, "step")
  /\ UNCHANGED <<sqliteVars, tableVars, mine, pending, rc>>

StepLocks(c) ==
  /\ pc[c] = "step" /\ lock[want[c]] = None
  /\ lock' = [lock EXCEPT ![want[c]] = c]
  /\ Goto(c, "idle")
  /\ UNCHANGED <<blockedBy, waitsFor, master, tableVars, txs, mine, pending, want, rc>>

\* SQLITE_LOCKED_SHAREDCACHE; SQLite notes the blocker under its static mutex.
StepBlocked(c) ==
  /\ pc[c] = "step" /\ lock[want[c]] # None /\ master = None
  /\ blockedBy' = [blockedBy EXCEPT ![c] = lock[want[c]]]
  /\ Goto(c, "add")
  /\ UNCHANGED <<lock, waitsFor, master, tableVars, txs, mine, pending, want, rc>>

\* SQLITE_INTERRUPT: the context of the call has ended, in this step or while
\* it waited before it.  SQLite drops an interrupt between two steps unless
\* another statement of the connection is active, so the step may as well go on.
\* An interrupted write takes its whole transaction back.
StepInterrupted(c) ==
  /\ pc[c] = "step"
  /\ \/ Goto(c, "idle") /\ UNCHANGED lock
     \/ InTx(c) /\ Goto(c, "unlock") /\ lock' = Without(c)
  /\ UNCHANGED <<blockedBy, waitsFor, master, tableVars, txs, mine, pending, want, rc>>

-----------------------------------------------------------------------------
(* unlock_notify_wait *)

NewWait == [chan |-> "empty", arg |-> seqnum]

\* Faulty variant: t.seqnum++ is missing.
AddSameHandle(c) ==
  /\ pc[c] = "add"
  /\ waits' = Append(waits, NewWait)
  /\ mine' = [mine EXCEPT ![c] = Len(waits) + 1]
  /\ table' = [h \in DOMAIN table \cup {seqnum} |->
                 IF h = seqnum THEN Len(waits) + 1 ELSE table[h]]
  /\ Goto(c, "notify")
  /\ UNCHANGED <<sqliteVars, seqnum, txs, pending, want, rc>>

\* c := make(chan struct{}, 1), h := unt.add(c), argv[0] = h
Add(c) ==
  /\ pc[c] = "add"
  /\ waits' = Append(waits, NewWait)
  /\ mine' = [mine EXCEPT ![c] = Len(waits) + 1]
  /\ table' = [h \in DOMAIN table \cup {seqnum} |->
                 IF h = seqnum THEN Len(waits) + 1 ELSE table[h]]
  /\ seqnum' = seqnum + 1
  /\ Goto(c, "notify")
  /\ UNCHANGED <<sqliteVars, txs, pending, want, rc>>

StateOf(c) ==
  IF pc[c] # "add" /\ mine[c] = 0 THEN "running"
  ELSE IF rc[c] = "locked" THEN "refused" ELSE "waiting"

Wait == INSTANCE BlockedWait WITH
  state <- [c \in Conns |-> StateOf(c)], blocker <- blockedBy

\* sqlite3_unlock_notify
NotifyNow(c) ==
  /\ pc[c] = "notify" /\ master = None /\ blockedBy[c] = None
  /\ master' = c
  /\ pending' = [pending EXCEPT ![c] = <<mine[c]>>]
  /\ Goto(c, "cb.get")
  /\ UNCHANGED <<lock, blockedBy, waitsFor, tableVars, txs, mine, want, rc>>

NotifyLater(c) ==
  /\ pc[c] = "notify" /\ master = None /\ blockedBy[c] # None
  /\ Wait!ChainEnd(c) # c
  /\ waitsFor' = [waitsFor EXCEPT ![c] = blockedBy[c]]
  /\ Goto(c, "receive")
  /\ UNCHANGED <<lock, blockedBy, master, tableVars, txs, mine, pending, want, rc>>

\* Faulty variant: the wait ends, and its result is not looked at.
NotifyDeadlockIgnored(c) ==
  /\ pc[c] = "notify" /\ master = None /\ blockedBy[c] # None
  /\ Wait!ChainEnd(c) = c
  /\ Goto(c, "free")
  /\ UNCHANGED <<sqliteVars, tableVars, txs, mine, pending, want, rc>>

\* Faulty variant: the result is not looked at, and a message awaited.
NotifyDeadlockAwaited(c) ==
  /\ pc[c] = "notify" /\ master = None /\ blockedBy[c] # None
  /\ Wait!ChainEnd(c) = c
  /\ Goto(c, "receive")
  /\ UNCHANGED <<sqliteVars, tableVars, txs, mine, pending, want, rc>>

\* rv != SQLITE_OK: a deadlock, the wait returns SQLITE_LOCKED.
NotifyDeadlock(c) ==
  /\ pc[c] = "notify" /\ master = None /\ blockedBy[c] # None
  /\ Wait!ChainEnd(c) = c
  /\ rc' = [rc EXCEPT ![c] = "locked"]
  /\ Goto(c, "free")
  /\ UNCHANGED <<sqliteVars, tableVars, txs, mine, pending, want>>

\* Faulty variant: the wait ends when the context does, or with a wake-up.
ReceiveOrCancelled(c) ==
  /\ pc[c] = "receive"
  /\ waits' = [waits EXCEPT ![mine[c]].chan = "empty"]
  /\ Goto(c, "free")
  /\ UNCHANGED <<sqliteVars, seqnum, table, txs, mine, pending, want, rc>>

\* <-c: nothing else ends the wait, not the end of the context either.
Receive(c) ==
  /\ pc[c] = "receive" /\ waits[mine[c]].chan = "full"
  /\ waits' = [waits EXCEPT ![mine[c]].chan = "empty"]
  /\ Goto(c, "free")
  /\ UNCHANGED <<sqliteVars, seqnum, table, txs, mine, pending, want, rc>>

\* The deferred calls, last one first: C.free(pargv), unt.remove(h), close(c).
Free(c) ==
  /\ pc[c] = "free"
  /\ waits' = [waits EXCEPT ![mine[c]].arg = None]
  /\ Goto(c, "remove")
  /\ UNCHANGED <<sqliteVars, seqnum, table, txs, mine, pending, want, rc>>

\* Faulty variant: the entry is set to nil and stays in the map.
RemoveKeepsEntry(c) ==
  /\ pc[c] = "remove"
  /\ table' = [h \in DOMAIN table |-> IF table[h] = mine[c] THEN 0 ELSE table[h]]
  /\ Goto(c, "close")
  /\ UNCHANGED <<sqliteVars, seqnum, waits, txs, mine, pending, want, rc>>

Remove(c) ==
  /\ pc[c] = "remove"
  /\ table' = [h \in {i \in DOMAIN table : table[i] # mine[c]} |-> table[h]]
  /\ Goto(c, "close")
  /\ UNCHANGED <<sqliteVars, seqnum, waits, txs, mine, pending, want, rc>>

\* Then sqlite3_reset and the step again, or out of the loop.
CloseChannel(c) ==
  /\ pc[c] = "close"
  /\ waits' = [waits EXCEPT ![mine[c]].chan = "closed"]
  /\ mine' = [mine EXCEPT ![c] = 0]
  /\ Goto(c, IF rc[c] = "ok" THEN "step" ELSE "idle")
  /\ UNCHANGED <<sqliteVars, seqnum, table, txs, pending, want, rc>>

-----------------------------------------------------------------------------
(* The end of a transaction, and the callback. *)

\* COMMIT or ROLLBACK: the locks go first.  After SQLITE_LOCKED the program
\* has to roll back.
Conclude(c) ==
  /\ pc[c] = "idle" /\ InTx(c)
  /\ lock' = Without(c)
  /\ rc' = [rc EXCEPT ![c] = "ok"]
  /\ Goto(c, "unlock")
  /\ UNCHANGED <<blockedBy, waitsFor, master, tableVars, txs, mine, pending, want>>

\* The arguments registered for c, in some order: the array of the callback.
Registered(c) == {mine[d] : d \in {e \in Conns : waitsFor[e] = c}}
Orders(S) == Bijection(1..Cardinality(S), S)

\* sqlite3ConnectionUnlocked
Unlock(c) ==
  /\ pc[c] = "unlock" /\ master = None
  /\ blockedBy' = [d \in Conns |-> IF blockedBy[d] = c THEN None ELSE blockedBy[d]]
  /\ waitsFor' = [d \in Conns |-> IF waitsFor[d] = c THEN None ELSE waitsFor[d]]
  /\ \E q \in Orders(Registered(c)) : pending' = [pending EXCEPT ![c] = q]
  /\ IF Registered(c) = {}
       THEN Goto(c, "idle") /\ UNCHANGED master
       ELSE Goto(c, "cb.get") /\ master' = c
  /\ UNCHANGED <<lock, tableVars, txs, mine, want, rc>>

\* unt.get(h): panics when the handle is not there.
CallbackGet(c) ==
  /\ pc[c] = "cb.get"
  /\ waits[Head(pending[c])].arg \in DOMAIN table
  /\ Goto(c, "cb.send")
  /\ UNCHANGED <<sqliteVars, tableVars, txs, mine, pending, want, rc>>

\* The channel the callback is about to send to.
Target(c) == table[waits[Head(pending[c])].arg]

\* Where the callback returns to.
AfterCallback(c) == IF mine[c] = 0 THEN "idle" ELSE "receive"

\* Faulty variant: the callback looks at the first of its arguments only.
CallbackSendFirst(c) ==
  /\ pc[c] = "cb.send" /\ waits[Target(c)].chan = "empty"
  /\ waits' = [waits EXCEPT ![Target(c)].chan = "full"]
  /\ pending' = [pending EXCEPT ![c] = <<>>]
  /\ master' = None
  /\ Goto(c, AfterCallback(c))
  /\ UNCHANGED <<lock, blockedBy, waitsFor, seqnum, table, txs, mine, want, rc>>

\* c <- struct{}{}: waits while the channel is full.
CallbackSend(c) ==
  /\ pc[c] = "cb.send" /\ waits[Target(c)].chan = "empty"
  /\ waits' = [waits EXCEPT ![Target(c)].chan = "full"]
  /\ pending' = [pending EXCEPT ![c] = Tail(@)]
  /\ IF Len(pending[c]) > 1
       THEN Goto(c, "cb.get") /\ UNCHANGED master
       ELSE Goto(c, AfterCallback(c)) /\ master' = None
  /\ UNCHANGED <<lock, blockedBy, waitsFor, seqnum, table, txs, mine, want, rc>>

-----------------------------------------------------------------------------
Init ==
  /\ lock = [t \in Tables |-> None]
  /\ txs = 0
  /\ blockedBy = [c \in Conns |-> None]
  /\ waitsFor = [c \in Conns |-> None]
  /\ master = None
  /\ seqnum = 0
  /\ table = <<>>
  /\ waits = <<>>
  /\ mine = [c \in Conns |-> 0]
  /\ pending = [c \in Conns |-> <<>>]
  /\ pc = [c \in Conns |-> "idle"]
  /\ want = [c \in Conns |-> None]
  /\ rc = [c \in Conns |-> "ok"]

Continue(c) ==
  \/ StepLocks(c) \/ StepBlocked(c) \/ StepInterrupted(c) \/ Add(c)
  \/ NotifyNow(c) \/ NotifyLater(c) \/ NotifyDeadlock(c)
  \/ Receive(c) \/ Free(c) \/ Remove(c) \/ CloseChannel(c)
  \/ Unlock(c) \/ CallbackGet(c) \/ CallbackSend(c)

Next == \E c \in Conns : Continue(c) \/ Conclude(c) \/ \E t \in Tables : Begin(c, t)

Spec == Init /\ [][Next]_vars

\* Every goroutine is scheduled and SQLite's mutex is handed on; the program
\* ends its transactions, also one in which statements are cancelled again and
\* again.  Nothing makes it begin one.
Fairness == \A c \in Conns : SF_vars(Continue(c)) /\ SF_vars(Conclude(c))

FairSpec == Spec /\ Fairness

-----------------------------------------------------------------------------
(* Properties *)

InCallback(c) == pc[c] \in {"cb.get", "cb.send"}

TypeOK ==
  /\ lock \in [Tables -> Conns \cup {None}]
  /\ txs \in 0..MaxTx
  /\ blockedBy \in [Conns -> Conns \cup {None}]
  /\ waitsFor \in [Conns -> Conns \cup {None}]
  /\ master \in Conns \cup {None}
  /\ seqnum \in Nat
  /\ waits \in Seq([chan : {"empty", "full", "closed"}, arg : Nat \cup {None}])
  /\ DOMAIN table \subseteq Nat
  /\ \A h \in DOMAIN table : table[h] \in 1..Len(waits)
  /\ mine \in [Conns -> 0..Len(waits)]
  /\ pending \in [Conns -> Seq(1..Len(waits))]
  /\ pc \in [Conns -> {"idle", "step", "add", "notify", "receive", "free",
                       "remove", "close", "unlock", "cb.get", "cb.send"}]
  /\ want \in [Conns -> Tables \cup {None}]
  /\ rc \in [Conns -> {"ok", "locked"}]

\* The callback never panics on a handle that is gone, never reads a freed
\* argument, never sends on a closed channel, and never blocks on a full one,
\* which would stop every connection of the process: SQLite's static mutex is
\* held (the comment in unlock_notify_wait on the buffered channel).
CallbackSafe ==
  \A c \in Conns :
    /\ InCallback(c) => /\ waits[Head(pending[c])].arg # None
                        /\ waits[Head(pending[c])].arg \in DOMAIN table
    /\ pc[c] = "cb.send" => waits[Target(c)].chan = "empty"

\* At its channel, with no message in it and none to come from a running callback.
Stuck(c) ==
  /\ pc[c] = "receive" /\ waits[mine[c]].chan # "full"
  /\ \A d \in Conns : mine[c] \notin Range(pending[d])

\* No wake-up is lost: who waits at its channel has a message in it, is still
\* to be served by a running callback, or is registered with a connection
\* whose transaction has yet to conclude.
NoLostWakeup ==
  \A c \in Conns : Stuck(c) =>
    waitsFor[c] # None /\ (InTx(waitsFor[c]) \/ pc[waitsFor[c]] = "unlock")

\* Connections never wait for each other in a circle: of any set of them one
\* waits for a connection that is not in the set.
NoDeadlock ==
  \A S \in SUBSET {c \in Conns : Stuck(c)} :
    S # {} => \E c \in S : waitsFor[c] \in Conns \ S

\* A connection goes on waiting, resumes and is refused as BlockedWait says.
ImplementsBlockedWait == Wait!Spec

\* Every statement ends, cancelled or not: with its lock, refused because of a
\* deadlock or interrupted.  That the others begin no more transactions than
\* MaxTx is part of it: SQLite does not queue those who wait for a table.
StatementsEnd == \A c \in Conns : pc[c] = "step" ~> pc[c] = "idle"
=============================================================================
