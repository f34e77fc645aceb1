------------------------------ MODULE SqliteApi ------------------------------
(***************************************************************************)
(* The contract of the SQLite C API the driver has to keep, for one        *)
(* connection: a statement is used by one thread at a time, from           *)
(* sqlite3_prepare_v2 until sqlite3_finalize, which nobody is inside of,    *)
(* and is finalized at most once.  A connection closed by sqlite3_close_v2  *)
(* stays as a zombie until its last statement is finalized.                 *)
(***************************************************************************)
EXTENDS FiniteSets

CONSTANTS Procs, Stmts

VARIABLES
  conn,    \* "open", "zombie", "freed"
  st,      \* each statement: "none", "live", "finalized"
  users    \* the threads inside a call on each statement

vars == <<conn, st, users>>

Live == {s \in Stmts : st[s] = "live"}

Init ==
  /\ conn = "open"
  /\ st = [s \in Stmts |-> "none"]
  /\ users = [s \in Stmts |-> {}]

Prepare(s) ==
  /\ conn = "open" /\ st[s] = "none"
  /\ st' = [st EXCEPT ![s] = "live"]
  /\ UNCHANGED <<conn, users>>

Enter(g, s) ==
  /\ st[s] = "live" /\ users[s] = {}
  /\ users' = [users EXCEPT ![s] = {g}]
  /\ UNCHANGED <<conn, st>>

Leave(g, s) ==
  /\ users[s] = {g}
  /\ users' = [users EXCEPT ![s] = {}]
  /\ UNCHANGED <<conn, st>>

Finalize(s) ==
  /\ st[s] = "live" /\ users[s] = {}
  /\ st' = [st EXCEPT ![s] = "finalized"]
  /\ conn' = IF conn = "zombie" /\ Live = {s} THEN "freed" ELSE conn
  /\ UNCHANGED users

CloseV2 ==
  /\ conn = "open"
  /\ conn' = IF Live = {} THEN "freed" ELSE "zombie"
  /\ UNCHANGED <<st, users>>

Next ==
  \/ CloseV2
  \/ \E s \in Stmts : Prepare(s) \/ Finalize(s)
  \/ \E g \in Procs, s \in Stmts : Enter(g, s) \/ Leave(g, s)

Spec == Init /\ [][Next]_vars
=============================================================================
