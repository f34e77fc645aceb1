--------------------------- MODULE AggregateProofs ---------------------------
(***************************************************************************)
(* Proofs about Aggregate, for any number of aggregations, rows and          *)
(* objects: interleaved aggregations never mix.                             *)
(*                                                                         *)
(* The argument.  Indices come from a counter, so that two aggregations in   *)
(* flight have different ones (Distinct); an index without object belongs to *)
(* a failed aggregation (Lost), and while it is there no object is made.     *)
(***************************************************************************)
EXTENDS Aggregate, TLAPS

\* Indices were counted, and belong to one aggregation each.
Distinct ==
  \A a \in Aggregations : idx[a] # 0 =>
    \A b \in Aggregations : idx[b] = idx[a] => b = a

\* Only a constructor that failed leaves an index without its object.
Lost ==
  /\ \A a \in Aggregations : LostObject(a) => failed[a] /\ CtorMayFail
  /\ ~CtorMayFail => ~panicked

\* An aggregation without index has had no row; one with an object and no
\* failure has had the rows its object has.
Counted ==
  \A a \in Aggregations :
    /\ idx[a] = 0 => rows[a] = 0 /\ ~failed[a]
    /\ HasObject(a) /\ ~failed[a] => active[idx[a]] = rows[a]

IInv == TypeOK /\ Distinct /\ Lost /\ Counted /\ ResultsRight /\ NothingLeftBehind

-----------------------------------------------------------------------------
\* The inductive invariant holds before any aggregation.
LEMMA InitInvariant == Init => IInv
<1> SUFFICES ASSUME Init PROVE IInv
  OBVIOUS
<1>1. failed \in [Aggregations -> BOOLEAN]
  BY DEF Init
<1>2. DOMAIN active = {} /\ active \in [DOMAIN active -> 0..MaxRows]
  BY DEF Init
<1>3. done \in (0..MaxRows) \X (0..MaxRows) /\ rows \in [Aggregations -> 0..MaxRows]
  BY BoundsAssumption DEF Init
<1>4. TypeOK
  <2>1. next \in Nat \ {0} /\ DOMAIN active \subseteq 1..(next - 1)
    BY <1>2 DEF Init
  <2>2. panicked \in BOOLEAN /\ idx \in [Aggregations -> Nat]
    BY DEF Init
  <2>3. QED
    BY <1>1, <1>2, <1>3, <2>1, <2>2 DEF TypeOK
<1>5. Distinct /\ Lost /\ Counted /\ ResultsRight /\ NothingLeftBehind
  BY DEF Init, Distinct, Lost, Counted, ResultsRight, NothingLeftBehind, LostObject,
         HasObject
<1>6. QED
  BY <1>4, <1>5 DEF IInv

\* Every callback keeps it.
LEMMA InvariantStep == IInv /\ [Next]_vars => IInv'
<1> SUFFICES ASSUME IInv, [Next]_vars PROVE IInv'
  OBVIOUS
<1> USE BoundsAssumption
        DEF IInv, TypeOK, Distinct, Lost, Counted, ResultsRight, NothingLeftBehind,
            LostObject, HasObject, Quiet, Put, Without
<1>1. ASSUME NEW a \in Aggregations, StepRow(a) PROVE IInv'
  <2>1. CASE Construct(a, 1)
    <3>1. idx[a] = 0 /\ rows[a] = 0 /\ MaxRows # 0
      BY <1>1, <2>1 DEF StepRow, Construct
    <3>2. rows' = [rows EXCEPT ![a] = 1] /\ next' = next + 1
          /\ idx' = [idx EXCEPT ![a] = next] /\ UNCHANGED <<done, panicked>>
      BY <1>1, <2>1, <3>1 DEF StepRow, Construct
    <3>3. failed' \in [Aggregations -> BOOLEAN] /\ \A b \in Aggregations : ~failed[b]
      BY <1>1 DEF StepRow
    <3>4. /\ DOMAIN active' = DOMAIN active \cup {next}
          /\ next \notin DOMAIN active /\ active'[next] = 1
          /\ \A i \in DOMAIN active : active'[i] = active[i]
          /\ active' = [i \in DOMAIN active' |-> active'[i]]
      BY <2>1 DEF Construct
    <3>5. active' \in [DOMAIN active' -> 0..MaxRows]
          /\ DOMAIN active' \subseteq 1..(next' - 1)
      BY <3>1, <3>2, <3>4
    <3>6. TypeOK'
      <4>1. rows' \in [Aggregations -> 0..MaxRows] /\ idx' \in [Aggregations -> Nat]
        BY <3>1, <3>2
      <4>2. next' \in Nat \ {0} /\ done' \in (0..MaxRows) \X (0..MaxRows)
            /\ panicked' \in BOOLEAN
        BY <3>2
      <4> HIDE DEF IInv, Distinct, Lost, Counted, ResultsRight, NothingLeftBehind
      <4>3. QED
        BY <3>3, <3>5, <4>1, <4>2
    <3>7. Distinct' /\ Lost' /\ NothingLeftBehind' /\ ResultsRight'
      BY <3>1, <3>2, <3>3, <3>4
    <3>8. Counted'
      <4>1. ASSUME NEW b \in Aggregations, b # a PROVE idx'[b] = idx[b] /\ idx[b] # next
        BY <4>1, <3>2, <3>3, <3>4
      <4>2. ASSUME NEW b \in Aggregations, b # a
            PROVE  /\ idx'[b] = 0 => rows'[b] = 0 /\ ~failed'[b]
                   /\ HasObject(b)' => active'[idx'[b]] = rows'[b]
        <5>1. failed'[b] = failed[b]
          BY <1>1, <4>2 DEF StepRow
        <5>2. idx'[b] = 0 => rows'[b] = 0 /\ ~failed'[b]
          BY <3>2, <3>3, <4>1, <4>2, <5>1
        <5>3. HasObject(b)' => active'[idx'[b]] = rows'[b]
          <6>1. ASSUME HasObject(b)' PROVE idx[b] # 0 /\ idx[b] \in DOMAIN active
            BY <3>4, <4>1, <4>2, <6>1
          <6>2. QED
            BY <3>2, <3>3, <3>4, <4>1, <4>2, <6>1
        <5>4. QED
          BY <5>2, <5>3
      <4>3. idx'[a] = next /\ rows'[a] = 1 /\ next # 0
        BY <3>2
      <4>4. QED
        BY <3>4, <4>2, <4>3
    <3>9. QED
      BY <3>6, <3>7, <3>8
  <2>2. CASE HasObject(a) /\ active' = Put(active, idx[a], active[idx[a]] + 1)
             /\ UNCHANGED <<idx, next>>
    <3>1. /\ rows[a] < MaxRows /\ idx[a] \in DOMAIN active
          /\ active[idx[a]] = rows[a]
          /\ \A b \in Aggregations : ~failed[b]
      BY <1>1, <2>2 DEF StepRow
    <3>2. rows' = [rows EXCEPT ![a] = @ + 1] /\ UNCHANGED <<idx, next, done, panicked>>
      BY <1>1, <2>2 DEF StepRow
    <3>3. failed' \in [Aggregations -> BOOLEAN]
      BY <1>1 DEF StepRow
    <3>4. /\ DOMAIN active' = DOMAIN active /\ active'[idx[a]] = rows[a] + 1
          /\ \A i \in DOMAIN active \ {idx[a]} : active'[i] = active[i]
          /\ active' = [i \in DOMAIN active' |-> active'[i]]
      BY <2>2, <3>1
    <3>5. active' \in [DOMAIN active' -> 0..MaxRows] /\ rows' \in [Aggregations -> 0..MaxRows]
      BY <3>1, <3>2, <3>4
    <3>6. TypeOK'
      <4> HIDE DEF IInv, Distinct, Lost, Counted, ResultsRight, NothingLeftBehind
      <4>1. TypeOK
        BY DEF IInv
      <4>2. QED
        BY <3>2, <3>3, <3>4, <3>5, <4>1
    <3>7. Distinct' /\ Lost' /\ NothingLeftBehind' /\ ResultsRight'
      BY <3>1, <3>2, <3>4
    <3>8. ASSUME NEW b \in Aggregations, b # a
          PROVE  /\ idx'[b] = 0 => rows'[b] = 0 /\ ~failed'[b]
                 /\ HasObject(b)' /\ ~failed'[b] => active'[idx'[b]] = rows'[b]
      <4>1. failed'[b] = failed[b] /\ rows'[b] = rows[b]
        BY <1>1, <3>2, <3>8 DEF StepRow
      <4>2. idx[b] # idx[a]
        BY <3>1, <3>8
      <4>3. idx'[b] = 0 => rows'[b] = 0 /\ ~failed'[b]
        BY <3>2, <3>8, <4>1
      <4>4. HasObject(b)' => active'[idx'[b]] = rows'[b]
        BY <3>1, <3>2, <3>4, <3>8, <4>1, <4>2
      <4>5. QED
        BY <4>3, <4>4
    <3>9. idx'[a] # 0 /\ active'[idx'[a]] = rows'[a]
      BY <3>1, <3>2, <3>4
    <3>10. Counted'
      BY <3>8, <3>9
    <3>11. QED
      BY <3>6, <3>7, <3>10
  <2>3. QED
    BY <1>1, <2>1, <2>2 DEF StepRow
<1>2. ASSUME NEW a \in Aggregations, StepBadArguments(a) PROVE IInv'
  <2>1. CASE Construct(a, 0)
    BY <1>2, <2>1 DEF StepBadArguments, Construct
  <2>2. CASE HasObject(a) /\ UNCHANGED <<idx, next, active>>
    BY <1>2, <2>2 DEF StepBadArguments
  <2>3. QED
    BY <1>2, <2>1, <2>2 DEF StepBadArguments
<1>3. ASSUME NEW a \in Aggregations, StepConstructorFails(a) PROVE IInv'
  BY <1>3 DEF StepConstructorFails, ConstructFails
<1>4. ASSUME NEW a \in Aggregations, FinishObject(a) PROVE IInv'
  BY <1>4 DEF FinishObject, Released
<1>5. ASSUME NEW a \in Aggregations, FinishEmpty(a) PROVE IInv'
  BY <1>5 DEF FinishEmpty, Released
<1>6. ASSUME NEW a \in Aggregations, FinishEmptyConstructorFails(a) PROVE IInv'
  BY <1>6 DEF FinishEmptyConstructorFails, Released
<1>7. ASSUME NEW a \in Aggregations, FinishPanics(a) PROVE IInv'
  BY <1>7 DEF FinishPanics, Panic
<1>8. CASE UNCHANGED vars
  BY <1>8 DEF vars
<1> HIDE DEF IInv
<1>9. QED
  BY <1>1, <1>2, <1>3, <1>4, <1>5, <1>6, <1>7, <1>8 DEF Next

\* The inductive invariant holds in every reachable state.
THEOREM Invariant == Spec => []IInv
BY InitInvariant, InvariantStep, PTL DEF Spec

-----------------------------------------------------------------------------
\* Every state of the specification is of its type.
THEOREM TypeCorrect == Spec => []TypeOK
BY Invariant, PTL DEF IInv

\* However many aggregations are in flight, Done gives the result of the rows
\* of its own aggregation.
THEOREM AlwaysRight == Spec => []ResultsRight
BY Invariant, PTL DEF IInv

\* No object stays in ai.active without its aggregation.
THEOREM AlwaysClean == Spec => []NothingLeftBehind
BY Invariant, PTL DEF IInv

\* Distinct indices are distinct objects.
LEMMA InvariantSeparate == IInv => ObjectsSeparate
BY DEF IInv, Distinct, Counted, ObjectsSeparate, HasObject

\* No two aggregations have one object.
THEOREM AlwaysSeparate == Spec => []ObjectsSeparate
BY Invariant, InvariantSeparate, PTL

\* A constructor that never fails never makes Done panic.
THEOREM PanicsOnlyOnFailure == ASSUME ~CtorMayFail PROVE Spec => []NeverPanics
<1>1. IInv => NeverPanics
  BY DEF IInv, Lost, NeverPanics
<1>2. QED
  BY <1>1, Invariant, PTL
=============================================================================
