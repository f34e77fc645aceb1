------------------------------ MODULE Aggregate ------------------------------
(***************************************************************************)
(* A Go type registered as an SQL aggregate (RegisterAggregator): aggInfo    *)
(* and its functions agg, Step and Done, called by SQLite for the            *)
(* aggregations in flight on one connection.  Those of several columns,      *)
(* statements and nested queries interleave; each has 8 zeroed bytes of its  *)
(* own, in which agg keeps the index of the aggregator object.               *)
(*                                                                         *)
(* SQLite (external) calls xStep once a row and xFinal exactly once.  When a  *)
(* callback fails its statement is aborted: the xFinal of the aggregations   *)
(* that have been stepped come before any other callback.                    *)
(* What an aggregator object knows is the number of rows it has seen.        *)
(***************************************************************************)
EXTENDS Naturals

CONSTANTS
  Aggregations,   \* places where SQLite runs aggregations, one after another
  CtorMayFail,    \* whether the constructor may return an error or nil
  MaxRows,        \* bound: rows of one aggregation
  MaxObjects      \* bound: aggregator objects made

ASSUME BoundsAssumption ==
  CtorMayFail \in BOOLEAN /\ MaxRows \in Nat /\ MaxObjects \in Nat

VARIABLES
  failed,   \* SQLite: a callback of the aggregation has failed
  rows,     \* SQLite: rows the aggregation has been stepped with
  idx,      \* the int64 in the aggregation's own memory
  next,     \* ai.next
  active,   \* ai.active: index -> rows the object has seen
  done,     \* result of the last Done: rows the object saw, rows there were
  panicked  \* a method was looked up on the zero reflect.Value

vars == <<failed, rows, idx, next, active, done, panicked>>

Init ==
  /\ failed = [a \in Aggregations |-> FALSE]
  /\ rows = [a \in Aggregations |-> 0]
  /\ idx = [a \in Aggregations |-> 0]
  /\ next = 1
  /\ active = [i \in {} |-> 0]
  /\ done = <<0, 0>>
  /\ panicked = FALSE

Put(f, k, v) == [i \in DOMAIN f \cup {k} |-> IF i = k THEN v ELSE f[i]]
Without(f, k) == [i \in DOMAIN f \ {k} |-> f[i]]

\* No statement is being aborted.
Quiet == \A a \in Aggregations : ~failed[a]

-----------------------------------------------------------------------------
(* agg: find the aggregation's object, or make it in the first call. *)

\* Faulty variant: ai.next++ is missing.
ConstructSameIndex(a, seen) ==
  /\ idx[a] = 0 /\ next <= MaxObjects
  /\ idx' = [idx EXCEPT ![a] = next]
  /\ active' = Put(active, next, seen)
  /\ UNCHANGED next

Construct(a, seen) ==
  /\ idx[a] = 0 /\ next <= MaxObjects
  /\ idx' = [idx EXCEPT ![a] = next]
  /\ active' = Put(active, next, seen)
  /\ next' = next + 1

\* The index is written before the constructor is called, and stays.
ConstructFails(a) ==
  /\ CtorMayFail /\ idx[a] = 0
  /\ idx' = [idx EXCEPT ![a] = next]
  /\ UNCHANGED <<active, next>>

HasObject(a)  == idx[a] # 0 /\ idx[a] \in DOMAIN active
LostObject(a) == idx[a] # 0 /\ idx[a] \notin DOMAIN active

Panic ==
  /\ panicked' = TRUE
  /\ UNCHANGED <<failed, rows, idx, next, active, done>>

-----------------------------------------------------------------------------
(* Step *)

\* A row reaches the object; its Step may return an error.
StepRow(a) ==
  /\ Quiet /\ rows[a] < MaxRows
  /\ rows' = [rows EXCEPT ![a] = @ + 1]
  /\ \/ Construct(a, 1)
     \/ /\ HasObject(a)
        /\ active' = Put(active, idx[a], active[idx[a]] + 1)
        /\ UNCHANGED <<idx, next>>
  /\ failed' \in {failed, [failed EXCEPT ![a] = TRUE]}
  /\ UNCHANGED <<done, panicked>>

\* The arguments cannot be converted: the object exists, the row is not its.
StepBadArguments(a) ==
  /\ Quiet /\ rows[a] < MaxRows
  /\ \/ Construct(a, 0)
     \/ HasObject(a) /\ UNCHANGED <<idx, next, active>>
  /\ failed' = [failed EXCEPT ![a] = TRUE]
  /\ UNCHANGED <<rows, done, panicked>>

StepConstructorFails(a) ==
  /\ Quiet /\ rows[a] < MaxRows
  /\ ConstructFails(a)
  /\ failed' = [failed EXCEPT ![a] = TRUE]
  /\ UNCHANGED <<rows, done, panicked>>

-----------------------------------------------------------------------------
(* Done *)

\* xFinal returns: the aggregation's memory is released, and in its place
\* SQLite may begin another aggregation.
Released(a) ==
  /\ failed' = [failed EXCEPT ![a] = FALSE]
  /\ rows' = [rows EXCEPT ![a] = 0]
  /\ idx' = [idx EXCEPT ![a] = 0]
  /\ UNCHANGED panicked

\* Faulty variant: without delete(ai.active, idx).
FinishObjectKeepsIt(a) ==
  /\ HasObject(a)
  /\ done' = IF failed[a] THEN done ELSE <<active[idx[a]], rows[a]>>
  /\ Released(a)
  /\ UNCHANGED <<active, next>>

FinishObject(a) ==
  /\ HasObject(a)
  /\ done' = IF failed[a] THEN done ELSE <<active[idx[a]], rows[a]>>
  /\ active' = Without(active, idx[a])
  /\ Released(a)
  /\ UNCHANGED next

\* No row: agg makes an object for Done alone.
FinishEmpty(a) ==
  /\ Quiet /\ idx[a] = 0 /\ next <= MaxObjects
  /\ done' = <<0, rows[a]>>
  /\ next' = next + 1
  /\ Released(a)
  /\ UNCHANGED active

FinishEmptyConstructorFails(a) ==
  /\ Quiet /\ CtorMayFail /\ idx[a] = 0
  /\ Released(a)
  /\ UNCHANGED <<active, next, done>>

FinishPanics(a) == LostObject(a) /\ Panic

-----------------------------------------------------------------------------
Next ==
  /\ ~panicked
  /\ \E a \in Aggregations :
       \/ StepRow(a) \/ StepBadArguments(a) \/ StepConstructorFails(a)
       \/ FinishObject(a) \/ FinishEmpty(a) \/ FinishEmptyConstructorFails(a)
       \/ FinishPanics(a)

Spec == Init /\ [][Next]_vars

-----------------------------------------------------------------------------
(* Properties *)

TypeOK ==
  /\ failed \in [Aggregations -> BOOLEAN]
  /\ rows \in [Aggregations -> 0..MaxRows]
  /\ idx \in [Aggregations -> Nat]
  /\ next \in Nat \ {0}
  /\ DOMAIN active \subseteq 1..(next - 1)
  /\ active \in [DOMAIN active -> 0..MaxRows]
  /\ done \in (0..MaxRows) \X (0..MaxRows)
  /\ panicked \in BOOLEAN

\* Interleaved aggregations never share an object, so that each object has
\* seen the rows of its own aggregation and no others.
ObjectsSeparate ==
  \A a \in Aggregations :
    HasObject(a) =>
      /\ ~failed[a] => active[idx[a]] = rows[a]
      /\ \A b \in Aggregations : idx[b] = idx[a] => b = a

\* Done gives the result of the rows its aggregation was stepped with.
ResultsRight == done[1] = done[2]

\* Objects are forgotten with their aggregation, though it failed.
NothingLeftBehind ==
  \A i \in DOMAIN active : \E a \in Aggregations : idx[a] = i

\* No callback panics.  The comment on RegisterAggregator allows the
\* constructor to return an error; agg then leaves an index without object.
NeverPanics == ~panicked
=============================================================================
