----------------------------- MODULE BatchProofs -----------------------------
(***************************************************************************)
(* Proofs about Batch, for any queries and arguments and any number of       *)
(* calls: what each statement binds, in which order and which stay open, and *)
(* that a transaction is over for SQLite when it is for database/sql.        *)
(*                                                                         *)
(* The argument.  Open statements go with the place of the call (OneLive),    *)
(* and the calls SQLiteTx makes have one statement without parameters         *)
(* (TxCall), so that they cannot miss arguments and what they did to the      *)
(* transaction is known when they return.  RunInOrder needs that bound is a   *)
(* sequence and that a call in progress has no result yet (Underway).         *)
(* BindsRight: the place in the arguments is that of the statement (Offset),  *)
(* LoopAppends says what the loop over the arguments gives a statement, and   *)
(* BindsOwn that each parameter is then bound to its own: a named argument    *)
(* that is given twice is bound twice to the same parameters.                *)
(***************************************************************************)
EXTENDS Batch, RecursionLemmas, SequenceTheorems, FiniteSetTheorems, TLAPS

\* What a call knows of its query.
QueryShape ==
  /\ DOMAIN query = 1..Len(query) /\ Len(query) \in Nat
  /\ \A k \in DOMAIN query : IsStatement(query[k])
  /\ DOMAIN args = 1..Len(args)
  /\ pc # "idle" => query # << >>

OneLive ==
  /\ pc = "prepare" => live = {}
  /\ pc \in {"args", "next"} => live = {at}
  /\ ret = "ok" => at = Len(query)
  /\ pc = "next" /\ method = "query" => at # Len(query)

TxCall ==
  /\ caller # "program" =>
       /\ method = "exec" /\ Len(query) = 1 /\ at = 1 /\ Len(args) = 0
       /\ NumInput(query[1]) = 0 /\ ret # "missing"
       /\ query[1].kind = IF caller = "cleanup" THEN "rollback" ELSE caller
  /\ pc = "rollback" => caller = "commit"
  /\ pc = "next" => /\ caller = "begin" => tx
                    /\ caller \in {"commit", "rollback", "cleanup"} => ~tx

\* A call that goes on has no result yet; what it has bound is a sequence.
Underway ==
  /\ pc \in {"prepare", "args", "next"} => ret = "none"
  /\ \E S : bound \in Seq(S)

\* The arguments consumed are those of the statements before the one at hand.
Offset ==
  /\ pc \in {"prepare", "args"} => start = Before(at)
  /\ pc = "next" => start = Before(at + 1)

\* As long as no argument has been consumed none is given twice.
FirstOnce ==
  \A r \in DOMAIN bound : Before(bound[r].stmt) = 0 =>
    \A i, j \in DOMAIN bound[r].given : bound[r].given[i] = bound[r].given[j] => i = j

IInv ==
  /\ TypeOK /\ QueryShape /\ OneLive /\ TxCall /\ Finalized /\ TxAgree
  /\ Underway /\ RunInOrder /\ Offset /\ BindsRight /\ FirstOnce

-----------------------------------------------------------------------------
\* The inductive invariant holds before any call.
LEMMA InitInvariant == Init => IInv
<1> SUFFICES ASSUME Init PROVE IInv
  OBVIOUS
<1>1. query = << >> /\ Len(query) = 0 /\ Len(args) = 0
  BY DEF Init
<1>2. DOMAIN query = {} /\ DOMAIN query = 1..Len(query)
  BY <1>1
<1>3. TypeOK
  <2>1. calls \in Nat /\ start \in 0..Len(args) /\ Len(args) \in Nat
    BY <1>1, MaxCallsAssumption DEF Init
  <2>2. live \subseteq DOMAIN query /\ (query # << >> => at \in DOMAIN query)
    BY <1>1 DEF Init
  <2>3. tx \in BOOLEAN /\ sqlTx \in BOOLEAN
    BY DEF Init
  <2>4. QED
    BY <2>1, <2>2, <2>3 DEF Init, TypeOK
<1>4. QueryShape
  <2>1. DOMAIN args = {}
    BY DEF Init
  <2>2. QED
    BY <1>1, <1>2, <2>1 DEF Init, QueryShape
<1>5. OneLive /\ TxCall /\ Finalized /\ TxAgree
  BY DEF Init, OneLive, TxCall, Finalized, TxAgree
<1>6. Underway /\ RunInOrder
  <2>1. bound = << >> /\ at = 1 /\ ret = "none" /\ pc = "idle"
    BY DEF Init
  <2>2. DOMAIN bound = {} /\ Passed = {}
    BY <2>1 DEF Passed
  <2>3. << >> \in Seq({})
    OBVIOUS
  <2>4. QED
    BY <2>1, <2>2, <2>3 DEF Underway, RunInOrder
<1>7. Offset /\ BindsRight /\ FirstOnce
  BY DEF Init, Offset, BindsRight, FirstOnce
<1>8. QED
  BY <1>3, <1>4, <1>5, <1>6, <1>7 DEF IInv

\* What SQLiteTx calls is a statement.
LEMMA ControlStatement ==
  ASSUME NEW c \in {"begin", "commit", "rollback"}
  PROVE  IsStatement([kind |-> c, params |-> << >>])
<1> DEFINE s == [kind |-> c, params |-> << >>]
<1>1. Len(s.params) = 0 /\ DOMAIN s.params = 1..Len(s.params) /\ DOMAIN s.params = {}
  OBVIOUS
<1>2. s.kind \in Kinds
  BY DEF Kinds
<1>3. QED
  BY <1>1, <1>2 DEF IsStatement

\* A call of SQLiteTx has such a query.
LEMMA StartControl ==
  ASSUME NEW c \in {"begin", "commit", "rollback"}, NEW by,
         Start("exec", by, <<[kind |-> c, params |-> << >>]>>, << >>)
  PROVE  QueryShape'
<1>1. query' = <<[kind |-> c, params |-> << >>]>> /\ args' = << >> /\ pc' # "idle"
  BY DEF Start, Goto
<1>2. IsStatement([kind |-> c, params |-> << >>])
  BY ControlStatement
<1>3. Len(query') = 1 /\ DOMAIN query' = 1..1 /\ query' # << >>
  BY <1>1
<1>4. Len(args') = 0 /\ DOMAIN args' = 1..0
  BY <1>1
<1>5. \A k \in DOMAIN query' : IsStatement(query'[k])
  BY <1>1, <1>2, <1>3
<1>6. QED
  BY <1>1, <1>3, <1>4, <1>5 DEF QueryShape

\* Every step keeps the type invariant and the shape of the query.
LEMMA TypeStep == IInv /\ [Next]_vars => (TypeOK /\ QueryShape)'
<1> SUFFICES ASSUME IInv, [Next]_vars PROVE (TypeOK /\ QueryShape)'
  OBVIOUS
<1>0. \A k \in DOMAIN query : NumInput(query[k]) \in Nat
  BY DEF IInv, QueryShape, IsStatement, NumInput
<1> USE QueriesAssumption, ArgListsAssumption, MaxCallsAssumption
        DEF IInv, TypeOK, QueryShape, TxCall, OneLive, NumInput, Kinds, Goto, callVars
<1>1. ASSUME Call PROVE (TypeOK /\ QueryShape)'
  <2>1. PICK a \in ArgLists, m \in {"exec", "query"}, q \in Queries :
          Counted(a) /\ Start(m, "program", q, a)
    BY <1>1 DEF Call
  <2>2. QueryShape'
    BY <2>1 DEF Start
  <2>3. TypeOK'
    BY <2>1 DEF Counted, Start
  <2>4. QED
    BY <2>2, <2>3
<1>2. ASSUME Begin PROVE (TypeOK /\ QueryShape)'
  <2>1. QueryShape'
    BY <1>2, StartControl DEF Begin, Transact
  <2>2. TypeOK'
    BY <1>2 DEF Begin, Counted, Transact, Start
  <2>3. QED
    BY <2>1, <2>2
<1>3. ASSUME Commit PROVE (TypeOK /\ QueryShape)'
  <2>1. QueryShape'
    BY <1>3, StartControl DEF Commit, Transact
  <2>2. TypeOK'
    BY <1>3 DEF Commit, Transact, Start
  <2>3. QED
    BY <2>1, <2>2
<1>4. ASSUME Rollback PROVE (TypeOK /\ QueryShape)'
  <2>1. QueryShape'
    BY <1>4, StartControl DEF Rollback, Transact
  <2>2. TypeOK'
    BY <1>4 DEF Rollback, Transact, Start
  <2>3. QED
    BY <2>1, <2>2
<1>5. ASSUME CommitRollsBack PROVE (TypeOK /\ QueryShape)'
  <2>1. QueryShape'
    BY <1>5, StartControl DEF CommitRollsBack
  <2>2. TypeOK'
    BY <1>5 DEF CommitRollsBack, Transact, Start
  <2>3. QED
    BY <2>1, <2>2
<1>6. ASSUME PrepareFails PROVE (TypeOK /\ QueryShape)'
  BY <1>6 DEF PrepareFails, MayFail, Return, SqlTx
<1>7. ASSUME Prepare PROVE (TypeOK /\ QueryShape)'
  BY <1>7 DEF Prepare, Stay
<1>8. ASSUME ExecMissing PROVE (TypeOK /\ QueryShape)'
  BY <1>8 DEF ExecMissing, Missing, Finalize, Return, SqlTx
<1>9. ASSUME QueryMissing PROVE (TypeOK /\ QueryShape)'
  BY <1>9 DEF QueryMissing, Missing, Return, SqlTx
<1>10. ASSUME Fails PROVE (TypeOK /\ QueryShape)'
  BY <1>10 DEF Fails, Missing, MayFail, Finalize, Return, SqlTx
<1>11. ASSUME Step PROVE (TypeOK /\ QueryShape)'
  <2>1. start' \in 0..Len(args)
    BY <1>11 DEF Step, Missing, BindStatement
  <2>2. UNCHANGED <<callVars, at, live>> /\ pc' = "next" /\ UNCHANGED <<ret, sqlTx>>
    BY <1>11 DEF Step, Stay
  <2>3. tx' \in BOOLEAN
    BY <1>11 DEF Step
  <2>4. QED
    BY <1>11, <2>1, <2>2, <2>3 DEF Step
<1>12. ASSUME Query PROVE (TypeOK /\ QueryShape)'
  <2>1. start' \in 0..Len(args)
    BY <1>12 DEF Query, Missing, BindStatement
  <2>2. UNCHANGED <<callVars, at, live, tx>>
    BY <1>12 DEF Query
  <2>3. pc' \in {"idle", "next"} /\ ret' \in {"ok", ret} /\ sqlTx' = sqlTx /\ pc # "idle"
    BY <1>12 DEF Query, Return, SqlTx, Stay
  <2>4. QED
    BY <2>1, <2>2, <2>3
<1>13. ASSUME Next_ PROVE (TypeOK /\ QueryShape)'
  <2>1. UNCHANGED <<callVars, start, tx>> /\ pc = "next" /\ live' \subseteq live
    BY <1>13 DEF Next_, Finalize
  <2>2. at' \in DOMAIN query
    BY <1>13, <2>1 DEF Next_
  <2>3. /\ pc' \in {"idle", "prepare", "rollback"} /\ ret' \in {"ok", ret}
        /\ sqlTx' \in BOOLEAN
    BY <1>13 DEF Next_, Return, SqlTx, Stay
  <2>4. QED
    BY <2>1, <2>2, <2>3
<1>14. CASE UNCHANGED vars
  BY <1>14 DEF vars
<1> HIDE DEF IInv
<1>15. QED
  BY <1>1, <1>2, <1>3, <1>4, <1>5, <1>6, <1>7, <1>8, <1>9, <1>10, <1>11, <1>12,
     <1>13, <1>14
  DEF Next

\* Every step keeps what is live with the place of the call.
LEMMA LiveStep == IInv /\ [Next]_vars => (OneLive /\ Finalized)'
<1> SUFFICES ASSUME IInv, [Next]_vars PROVE (OneLive /\ Finalized)'
  OBVIOUS
<1> USE QueriesAssumption, ArgListsAssumption, MaxCallsAssumption
        DEF IInv, TypeOK, QueryShape, OneLive, Finalized, Goto, callVars
<1>1. ASSUME Call PROVE (OneLive /\ Finalized)'
  BY <1>1 DEF Call, Counted, Start
<1>2. ASSUME Begin PROVE (OneLive /\ Finalized)'
  BY <1>2 DEF Begin, Counted, Transact, Start
<1>3. ASSUME Commit PROVE (OneLive /\ Finalized)'
  BY <1>3 DEF Commit, Transact, Start
<1>4. ASSUME Rollback PROVE (OneLive /\ Finalized)'
  BY <1>4 DEF Rollback, Transact, Start
<1>5. ASSUME CommitRollsBack PROVE (OneLive /\ Finalized)'
  BY <1>5 DEF CommitRollsBack, Transact, Start
<1>6. ASSUME PrepareFails PROVE (OneLive /\ Finalized)'
  BY <1>6 DEF PrepareFails, MayFail, Return, SqlTx
<1>7. ASSUME Prepare PROVE (OneLive /\ Finalized)'
  BY <1>7 DEF Prepare, Stay
<1>8. ASSUME ExecMissing PROVE (OneLive /\ Finalized)'
  BY <1>8 DEF ExecMissing, Missing, Finalize, Return, SqlTx
<1>9. ASSUME QueryMissing PROVE (OneLive /\ Finalized)'
  BY <1>9 DEF QueryMissing, Missing, Return, SqlTx
<1>10. ASSUME Fails PROVE (OneLive /\ Finalized)'
  BY <1>10 DEF Fails, Missing, MayFail, Finalize, Return, SqlTx
<1>11. ASSUME Step PROVE (OneLive /\ Finalized)'
  BY <1>11 DEF Step, Missing, BindStatement, Stay
<1>12. ASSUME Query PROVE (OneLive /\ Finalized)'
  BY <1>12 DEF Query, Missing, BindStatement, Return, SqlTx, Stay
<1>13. ASSUME Next_ PROVE (OneLive /\ Finalized)'
  <2>1. live = {at} /\ live' = {} /\ UNCHANGED callVars
    BY <1>13 DEF Next_, Finalize
  <2>2. \/ at = Len(query) /\ at' = at /\ pc' \in {"idle", "rollback"} /\ ret' = "ok"
           /\ method # "query"
        \/ pc' = "prepare" /\ ret' = ret /\ ret # "ok"
    BY <1>13 DEF Next_, Return, Stay
  <2>3. QED
    BY <2>1, <2>2
<1>14. CASE UNCHANGED vars
  BY <1>14 DEF vars
<1> HIDE DEF IInv
<1>15. QED
  BY <1>1, <1>2, <1>3, <1>4, <1>5, <1>6, <1>7, <1>8, <1>9, <1>10, <1>11, <1>12,
     <1>13, <1>14
  DEF Next

\* Every step keeps what is known of the calls of SQLiteTx.
LEMMA TxStep == IInv /\ [Next]_vars => (TxCall /\ TxAgree)'
<1> SUFFICES ASSUME IInv, [Next]_vars PROVE (TxCall /\ TxAgree)'
  OBVIOUS
<1> USE QueriesAssumption, ArgListsAssumption, MaxCallsAssumption
        DEF IInv, TypeOK, QueryShape, TxCall, TxAgree, NumInput, Goto, callVars
<1>1. ASSUME Call PROVE (TxCall /\ TxAgree)'
  BY <1>1 DEF Call, Counted, Start
<1>2. ASSUME Begin PROVE (TxCall /\ TxAgree)'
  BY <1>2 DEF Begin, Counted, Transact, Start
<1>3. ASSUME Commit PROVE (TxCall /\ TxAgree)'
  BY <1>3 DEF Commit, Transact, Start
<1>4. ASSUME Rollback PROVE (TxCall /\ TxAgree)'
  BY <1>4 DEF Rollback, Transact, Start
<1>5. ASSUME CommitRollsBack PROVE (TxCall /\ TxAgree)'
  BY <1>5 DEF CommitRollsBack, Transact, Start
<1>6. ASSUME PrepareFails PROVE (TxCall /\ TxAgree)'
  BY <1>6 DEF PrepareFails, MayFail, Return, SqlTx
<1>7. ASSUME Prepare PROVE (TxCall /\ TxAgree)'
  BY <1>7 DEF Prepare, Stay
<1>8. ASSUME ExecMissing PROVE (TxCall /\ TxAgree)'
  BY <1>8 DEF ExecMissing, Missing, Finalize, Return, SqlTx
<1>9. ASSUME QueryMissing PROVE (TxCall /\ TxAgree)'
  BY <1>9 DEF QueryMissing, Missing, Return, SqlTx
<1>10. ASSUME Fails PROVE (TxCall /\ TxAgree)'
  BY <1>10 DEF Fails, Missing, MayFail, Finalize, Return, SqlTx
<1>11. ASSUME Step PROVE (TxCall /\ TxAgree)'
  BY <1>11 DEF Step, Missing, BindStatement, Stay
<1>12. ASSUME Query PROVE (TxCall /\ TxAgree)'
  BY <1>12 DEF Query, Missing, BindStatement, Return, SqlTx, Stay
<1>13. ASSUME Next_ PROVE (TxCall /\ TxAgree)'
  BY <1>13 DEF Next_, Finalize, Return, SqlTx, Stay
<1>14. CASE UNCHANGED vars
  BY <1>14 DEF vars
<1> HIDE DEF IInv
<1>15. QED
  BY <1>1, <1>2, <1>3, <1>4, <1>5, <1>6, <1>7, <1>8, <1>9, <1>10, <1>11, <1>12,
     <1>13, <1>14
  DEF Next

\* Call, and what SQLiteTx calls, begins with nothing bound.
LEMMA StartKeepsOrder ==
  ASSUME NEW m, NEW c, NEW q, NEW a, Start(m, c, q, a)
  PROVE  (Underway /\ RunInOrder)'
<1>1. bound' = << >> /\ at' = 1 /\ ret' = "none" /\ pc' = "prepare"
  BY DEF Start, Goto
<1>2. DOMAIN bound' = {} /\ Passed' = {}
  BY <1>1 DEF Passed
<1>3. << >> \in Seq({})
  OBVIOUS
<1>4. QED
  BY <1>1, <1>2, <1>3 DEF Underway, RunInOrder

\* The statement that is bound is the last of those bound.
LEMMA BindKeepsOrder ==
  ASSUME IInv, pc = "args", BindStatement, UNCHANGED <<method, query, at>>,
         method = "exec" => query[at].kind # "comment",
         \/ pc' = "next" /\ ret' = ret
         \/ pc' \in {"idle", "rollback"} /\ ret' = "ok" /\ at = Len(query)
  PROVE  (Underway /\ RunInOrder)'
<1>1. PICK e : bound' = Append(bound, e) /\ e.stmt = at
  BY DEF BindStatement
<1>2. PICK S : bound \in Seq(S)
  BY DEF IInv, Underway
<1>3. /\ bound' \in Seq(S \cup {e}) /\ Len(bound) \in Nat
      /\ DOMAIN bound = 1..Len(bound) /\ DOMAIN bound' = 1..(Len(bound) + 1)
      /\ \A i \in 1..Len(bound) : bound'[i] = bound[i]
      /\ bound'[Len(bound) + 1] = e
  <2>1. bound \in Seq(S \cup {e})
    BY <1>2
  <2>2. /\ Len(bound) \in Nat /\ DOMAIN bound = 1..Len(bound)
    BY <1>2, LenProperties
  <2>3. /\ bound' \in Seq(S \cup {e}) /\ Len(bound') = Len(bound) + 1
        /\ \A i \in 1..Len(bound) : bound'[i] = bound[i]
        /\ bound'[Len(bound) + 1] = e
    BY <1>1, <2>1, AppendProperties
  <2>4. DOMAIN bound' = 1..Len(bound')
    BY <2>3, LenProperties
  <2>5. QED
    BY <2>2, <2>3, <2>4
<1>4. Underway'
  BY <1>3 DEF Underway, IInv
<1>5. at \in 1..Len(query) /\ Len(query) \in Nat
  BY DEF IInv, TypeOK, QueryShape
<1>6. Passed = 1..(at - 1) /\ Passed' = 1..at
  BY <1>5 DEF IInv, Underway, Passed
<1>7. {bound[i].stmt : i \in DOMAIN bound} =
        {k \in 1..(at - 1) : method = "exec" => query[k].kind # "comment"}
  BY <1>6 DEF IInv, RunInOrder
<1>8. \A i, j \in DOMAIN bound' : i < j => bound'[i].stmt < bound'[j].stmt
  <2>1. \A i \in DOMAIN bound : bound[i].stmt \in 1..(at - 1)
    BY <1>7
  <2>2. \A i, j \in DOMAIN bound : i < j => bound[i].stmt < bound[j].stmt
    BY DEF IInv, RunInOrder
  <2>3. QED
    BY <1>1, <1>3, <1>5, <2>1, <2>2
<1>9. {bound'[i].stmt : i \in DOMAIN bound'} =
        {k \in 1..at : method = "exec" => query[k].kind # "comment"}
  <2>1. {bound'[i].stmt : i \in DOMAIN bound'} = {bound[i].stmt : i \in DOMAIN bound} \cup {at}
    BY <1>1, <1>3
  <2>2. {k \in 1..at : method = "exec" => query[k].kind # "comment"} =
          {k \in 1..(at - 1) : method = "exec" => query[k].kind # "comment"} \cup {at}
    BY <1>5
  <2>3. QED
    BY <1>7, <2>1, <2>2
<1>10. QED
  BY <1>4, <1>6, <1>8, <1>9 DEF RunInOrder

\* Every step keeps the order in which statements are run.
LEMMA OrderStep == IInv /\ [Next]_vars => (Underway /\ RunInOrder)'
<1> SUFFICES ASSUME IInv, [Next]_vars PROVE (Underway /\ RunInOrder)'
  OBVIOUS
<1>1. CASE Call \/ Begin \/ Commit \/ Rollback \/ CommitRollsBack
  BY <1>1, StartKeepsOrder DEF Call, Begin, Commit, Rollback, CommitRollsBack, Transact
<1>2. CASE PrepareFails \/ ExecMissing \/ QueryMissing \/ Fails
  <2>1. /\ pc \in {"prepare", "args"} /\ pc' \in {"idle", "rollback"}
        /\ ret' \in {"error", "missing"} /\ UNCHANGED <<bound, at, query, method>>
    BY <1>2 DEF PrepareFails, ExecMissing, QueryMissing, Fails, Return, Goto, callVars
  <2>2. Passed' = Passed
    BY <2>1 DEF IInv, Underway, Passed
  <2>3. QED
    BY <2>1, <2>2 DEF IInv, Underway, RunInOrder
<1>3. CASE Prepare
  <2>1. /\ pc = "prepare" /\ ret' = ret /\ UNCHANGED <<bound, at, query, method>>
        /\ pc' = IF method = "exec" /\ query[at].kind = "comment" THEN "next" ELSE "args"
    BY <1>3 DEF Prepare, Stay, Goto, callVars
  <2>2. at \in 1..Len(query) /\ Len(query) \in Nat
    BY <2>1 DEF IInv, TypeOK, QueryShape
  <2>3. Passed = 1..(at - 1) /\ Passed' = IF pc' = "next" THEN 1..at ELSE 1..(at - 1)
    BY <2>1, <2>2 DEF IInv, Underway, Passed
  <2>4. {k \in Passed' : method = "exec" => query[k].kind # "comment"} =
          {k \in Passed : method = "exec" => query[k].kind # "comment"}
    BY <2>1, <2>2, <2>3
  <2>5. QED
    BY <2>1, <2>4 DEF IInv, Underway, RunInOrder
<1>4. CASE Step
  <2>1. /\ pc = "args" /\ BindStatement /\ UNCHANGED <<method, query, at>>
        /\ query[at].kind # "comment" /\ pc' = "next" /\ ret' = ret
    BY <1>4 DEF Step, Stay, Goto, callVars
  <2>2. QED
    BY <2>1, BindKeepsOrder
<1>5. CASE Query
  <2>1. /\ pc = "args" /\ BindStatement /\ UNCHANGED <<method, query, at>> /\ method # "exec"
        /\ \/ pc' = "next" /\ ret' = ret
           \/ pc' \in {"idle", "rollback"} /\ ret' = "ok" /\ at = Len(query)
    BY <1>5 DEF Query, Return, Stay, Goto, callVars
  <2>2. QED
    BY <2>1, BindKeepsOrder
<1>6. CASE Next_
  <2>1. /\ pc = "next" /\ UNCHANGED <<bound, query, method>>
        /\ \/ pc' \in {"idle", "rollback"} /\ ret' = "ok" /\ at = Len(query)
           \/ pc' = "prepare" /\ ret' = ret /\ at' = at + 1
    BY <1>6 DEF Next_, Return, Stay, Goto, callVars
  <2>2. at \in 1..Len(query) /\ Len(query) \in Nat
    BY <2>1 DEF IInv, TypeOK, QueryShape
  <2>3. Passed' = Passed
    BY <2>1, <2>2 DEF IInv, Underway, Passed
  <2>4. QED
    BY <2>1, <2>3 DEF IInv, Underway, RunInOrder
<1>7. CASE UNCHANGED vars
  BY <1>7 DEF vars, callVars, IInv, Underway, RunInOrder, Passed
<1>8. QED
  BY <1>1, <1>2, <1>3, <1>4, <1>5, <1>6, <1>7 DEF Next

-----------------------------------------------------------------------------
(* The arguments. *)

\* The parameters of the statements before the k-th.
Slots(k) == UNION {{j} \X DOMAIN query[j].params : j \in 1..(k - 1)}

\* One statement more has its own parameters more.
LEMMA SlotsGrow ==
  ASSUME QueryShape, NEW k \in 0..Len(query), k < Len(query)
  PROVE  Slots((k + 1) + 1) = Slots(k + 1) \cup ({k + 1} \X DOMAIN query[k + 1].params)
<1>1. 1..(((k + 1) + 1) - 1) = (1..((k + 1) - 1)) \cup {k + 1}
  BY DEF QueryShape
<1>2. QED
  BY <1>1 DEF Slots

\* The parameters of a statement.
LEMMA OwnSlots ==
  ASSUME QueryShape, NEW k \in DOMAIN query
  PROVE  /\ IsFiniteSet({k} \X DOMAIN query[k].params)
         /\ Cardinality({k} \X DOMAIN query[k].params) = NumInput(query[k])
         /\ NumInput(query[k]) \in Nat /\ DOMAIN query[k].params = 1..NumInput(query[k])
<1>1. /\ NumInput(query[k]) \in Nat /\ DOMAIN query[k].params = 1..NumInput(query[k])
  BY DEF QueryShape, IsStatement, NumInput
<1>2. /\ IsFiniteSet(1..NumInput(query[k]))
      /\ Cardinality(1..NumInput(query[k])) = NumInput(query[k])
  BY <1>1, FS_Interval
<1>3. IsFiniteSet({k}) /\ Cardinality({k}) = 1
  BY FS_Singleton
<1>4. QED
  BY <1>1, <1>2, <1>3, FS_Product

\* There are finitely many before any statement.
LEMMA SlotsFinite ==
  ASSUME QueryShape
  PROVE  \A k \in 0..Len(query) : IsFiniteSet(Slots(k + 1))
<1> DEFINE P == {k \in 0..Len(query) : IsFiniteSet(Slots(k + 1))}
<1>1. 0 \in P
  <2>1. Slots(0 + 1) = {}
    BY DEF Slots
  <2>2. QED
    BY <2>1, FS_EmptySet DEF QueryShape
<1>2. ASSUME NEW k \in 0..Len(query), k \in P, k < Len(query) PROVE k + 1 \in P
  <2>1. k + 1 \in DOMAIN query /\ k + 1 \in 0..Len(query)
    BY <1>2 DEF QueryShape
  <2>2. IsFiniteSet(Slots(k + 1)) /\ IsFiniteSet({k + 1} \X DOMAIN query[k + 1].params)
    BY <1>2, <2>1, OwnSlots
  <2>3. Slots((k + 1) + 1) = Slots(k + 1) \cup ({k + 1} \X DOMAIN query[k + 1].params)
    BY <1>2, SlotsGrow
  <2>4. IsFiniteSet(Slots((k + 1) + 1))
    <3> DEFINE S == Slots(k + 1)  T == {k + 1} \X DOMAIN query[k + 1].params
    <3>1. IsFiniteSet(S) /\ IsFiniteSet(T) /\ Slots((k + 1) + 1) = S \cup T
      BY <2>2, <2>3
    <3> HIDE DEF S, T
    <3>2. IsFiniteSet(S \cup T)
      BY <3>1, FS_Union
    <3>3. QED
      BY <3>1, <3>2
  <2>5. QED
    BY <2>1, <2>4
<1> HIDE DEF P
<1>3. 0..Len(query) \subseteq P
  BY <1>1, <1>2, UpTo DEF QueryShape
<1>4. QED
  BY <1>3 DEF P

\* A statement leaves the next one as many arguments less as it has parameters.
LEMMA BeforeNext ==
  ASSUME QueryShape, NEW k \in DOMAIN query
  PROVE  Before(k) \in Nat /\ Before(k + 1) = Before(k) + NumInput(query[k])
<1>1. k - 1 \in 0..Len(query) /\ k - 1 < Len(query) /\ (k - 1) + 1 = k
  BY DEF QueryShape
<1> DEFINE S == Slots(k)  T == {k} \X DOMAIN query[k].params
<1>2. Slots(k + 1) = S \cup T
  BY <1>1, SlotsGrow
<1>3. IsFiniteSet(S) /\ IsFiniteSet(T) /\ Cardinality(T) = NumInput(query[k])
  BY <1>1, SlotsFinite, OwnSlots
<1>4. S \cap T = {}
  BY <1>1 DEF Slots
<1>5. Cardinality(S \cup T) = Cardinality(S) + Cardinality(T) - Cardinality(S \cap T)
  BY <1>3, FS_Union
<1>6. Cardinality(S \cap T) = 0 /\ Cardinality(S) \in Nat
  BY <1>3, <1>4, FS_EmptySet, FS_CardinalityType
<1>7. Before(k) = Cardinality(S) /\ Before(k + 1) = Cardinality(Slots(k + 1))
  BY DEF Before, Slots
<1>8. NumInput(query[k]) \in Nat
  BY OwnSlots
<1>9. Cardinality(S \cup T) = Cardinality(S) + NumInput(query[k])
  <2> HIDE DEF S, T
  <2>1. QED
    BY <1>3, <1>5, <1>6, <1>8
<1>10. Before(k + 1) = Cardinality(S \cup T)
  BY <1>2, <1>7
<1> HIDE DEF S, T
<1>11. QED
  BY <1>6, <1>7, <1>9, <1>10

\* The loop of exec and query over the arguments: a statement's own come first and
\* in their places, and after them there is every argument that passes the test.
LEMMA LoopAppends ==
  ASSUME NEW na \in Nat, Len(args) \in Nat, start \in Nat, start + na <= Len(args)
  PROVE  /\ StmtArgs(na) \in Seq(1..Len(args)) /\ Len(StmtArgs(na)) >= na
         /\ \A i \in 1..na : StmtArgs(na)[i] = start + i
         /\ \A i \in DOMAIN StmtArgs(na) : i > na => Appended(na, StmtArgs(na)[i])
         /\ \A i, j \in DOMAIN StmtArgs(na) : na < i /\ i < j => StmtArgs(na)[i] < StmtArgs(na)[j]
         /\ \A n \in 1..Len(args) :
              Appended(na, n) => \E i \in DOMAIN StmtArgs(na) : StmtArgs(na)[i] = n
<1> DEFINE L == Len(args)
           A == Seq(1..L)
           s == [p \in (1..L) \X A |-> IF Appended(na, p[1]) THEN Append(p[2], p[1]) ELSE p[2]]
           Body(f) == [n \in 0..L |->
                         IF n = 0 THEN Own(na)
                         ELSE IF Appended(na, n) THEN Append(f[n - 1], n) ELSE f[n - 1]]
           upTo == CHOOSE f : f = Body(f)
<1>1. L \in Nat
  OBVIOUS
<1>2. Own(na) \in A /\ Len(Own(na)) = na /\ \A i \in 1..na : Own(na)[i] = start + i
  BY DEF Own
<1>3. s \in [(1..L) \X A -> A]
  <2>1. ASSUME NEW p \in (1..L) \X A PROVE s[p] \in A
    <3>1. p[1] \in 1..L /\ p[2] \in A
      OBVIOUS
    <3>2. Append(p[2], p[1]) \in A
      BY <3>1
    <3> HIDE DEF A
    <3>3. QED
      BY <3>1, <3>2
  <2> HIDE DEF A
  <2>2. QED
    BY <2>1
<1>4. PICK f : Iterates(f, L, A, Own(na), s)
  <2>1. Own(na) \in A
    BY <1>2
  <2> HIDE DEF L, A, s
  <2>2. QED
    BY <1>1, <1>3, <2>1, Recursive
<1>5. f = Body(f)
  <2>1. ASSUME NEW n \in 1..L
        PROVE  s[<<n, f[n - 1]>>] = IF Appended(na, n) THEN Append(f[n - 1], n) ELSE f[n - 1]
    <3> HIDE DEF A
    <3>1. n - 1 \in 0..L
      BY <1>1
    <3>2. f[n - 1] \in A
      BY <1>4, <3>1 DEF Iterates
    <3>3. QED
      BY <3>2
  <2>2. \A n \in 0..L : n # 0 => n \in 1..L
    OBVIOUS
  <2> HIDE DEF s
  <2>3. \A n \in 0..L : f[n] = IF n = 0 THEN Own(na)
                             ELSE IF Appended(na, n) THEN Append(f[n - 1], n) ELSE f[n - 1]
    BY <1>4, <2>1, <2>2 DEF Iterates
  <2>4. QED
    BY <1>4, <2>3 DEF Iterates
<1>6. upTo = Body(upTo)
  <2> HIDE DEF Body
  <2>1. QED
    BY <1>5
<1>7. StmtArgs(na) = upTo[L]
  BY DEF StmtArgs
<1> DEFINE P == {k \in 0..L :
               /\ upTo[k] \in A /\ Len(upTo[k]) >= na
               /\ \A i \in 1..na : upTo[k][i] = start + i
               /\ \A i \in DOMAIN upTo[k] : i > na => Appended(na, upTo[k][i]) /\ upTo[k][i] <= k
               /\ \A i, j \in DOMAIN upTo[k] : na < i /\ i < j => upTo[k][i] < upTo[k][j]
               /\ \A n \in 1..k : Appended(na, n) => \E i \in DOMAIN upTo[k] : upTo[k][i] = n}
<1> HIDE DEF s, upTo
<1>8. 0 \in P
  <2>1. upTo[0] = Own(na)
    BY <1>6
  <2>2. DOMAIN upTo[0] = 1..na
    BY <2>1 DEF Own
  <2>3. QED
    BY <1>2, <2>1, <2>2
<1>9. ASSUME NEW k \in 0..L, k \in P, k < L PROVE k + 1 \in P
  <2> DEFINE g == upTo[k]  h == upTo[k + 1]
  <2>1. /\ g \in A /\ Len(g) >= na /\ \A i \in 1..na : g[i] = start + i
        /\ \A i \in DOMAIN g : i > na => Appended(na, g[i]) /\ g[i] <= k
        /\ \A i, j \in DOMAIN g : na < i /\ i < j => g[i] < g[j]
        /\ \A n \in 1..k : Appended(na, n) => \E i \in DOMAIN g : g[i] = n
    BY <1>9
  <2>2. h = IF Appended(na, k + 1) THEN Append(g, k + 1) ELSE g
    <3>1. k + 1 \in 0..L /\ k + 1 # 0 /\ (k + 1) - 1 = k
      BY <1>9
    <3>2. QED
      BY <1>6, <3>1
  <2> HIDE DEF g, h, P
  <2>3. CASE ~Appended(na, k + 1)
    <3>1. h = g
      BY <2>2, <2>3
    <3>2. \A n \in 1..(k + 1) : Appended(na, n) => n \in 1..k
      BY <2>3
    <3>3. k + 1 \in 0..L
      BY <1>9
    <3>4. \A i \in DOMAIN h : i > na => Appended(na, h[i]) /\ h[i] <= k + 1
      <4>1. \A i \in DOMAIN h : h[i] \in Nat
        BY <2>1, <3>1
      <4>2. QED
        BY <2>1, <3>1, <4>1
    <3>5. QED
      BY <2>1, <3>1, <3>2, <3>3, <3>4 DEF P, h
  <2>4. CASE Appended(na, k + 1)
    <3>1. h = Append(g, k + 1) /\ k + 1 \in 1..L
      BY <1>9, <2>2, <2>4
    <3>2. /\ h \in A /\ Len(h) = Len(g) + 1 /\ Len(g) \in Nat
          /\ DOMAIN g = 1..Len(g) /\ DOMAIN h = 1..(Len(g) + 1)
          /\ \A i \in 1..Len(g) : h[i] = g[i]
          /\ h[Len(g) + 1] = k + 1
      BY <2>1, <3>1
    <3>3. Len(h) >= na /\ \A i \in 1..na : h[i] = start + i
      BY <2>1, <3>2
    <3>4. \A i \in DOMAIN h : i \in 1..Len(g) \/ i = Len(g) + 1
      BY <3>2
    <3>5. ASSUME NEW i \in DOMAIN h, i > na PROVE Appended(na, h[i]) /\ h[i] <= k + 1
      <4>1. CASE i \in 1..Len(g)
        <5>1. h[i] = g[i] /\ g[i] \in Nat
          BY <3>2, <4>1
        <5>2. Appended(na, g[i]) /\ g[i] <= k
          BY <2>1, <3>2, <3>5, <4>1
        <5>3. QED
          BY <5>1, <5>2
      <4>2. CASE i = Len(g) + 1
        <5>1. h[i] = k + 1 /\ k + 1 \in Nat
          BY <3>2, <4>2
        <5>2. QED
          BY <2>4, <5>1
      <4>3. QED
        BY <3>4, <4>1, <4>2
    <3>6. ASSUME NEW i \in DOMAIN h, NEW j \in DOMAIN h, na < i, i < j PROVE h[i] < h[j]
      <4>1. i \in 1..Len(g)
        BY <3>2, <3>4, <3>6
      <4>2. CASE j \in 1..Len(g)
        BY <2>1, <3>2, <3>6, <4>1, <4>2
      <4>3. CASE j = Len(g) + 1
        <5>1. h[i] = g[i] /\ g[i] <= k /\ g[i] \in Nat /\ h[j] = k + 1
          BY <2>1, <3>2, <3>6, <4>1, <4>3
        <5>2. QED
          BY <5>1
      <4>4. QED
        BY <3>4, <4>2, <4>3
    <3>7. ASSUME NEW n \in 1..(k + 1), Appended(na, n) PROVE \E i \in DOMAIN h : h[i] = n
      <4>1. CASE n = k + 1
        <5>1. Len(g) + 1 \in DOMAIN h
          BY <3>2
        <5>2. QED
          BY <3>2, <4>1, <5>1
      <4>2. CASE n # k + 1
        <5>1. n \in 1..k
          BY <4>2
        <5>2. PICK i \in DOMAIN g : g[i] = n
          BY <2>1, <3>7, <5>1
        <5>3. QED
          BY <3>2, <5>2
      <4>3. QED
        BY <4>1, <4>2
    <3>8. k + 1 \in 0..L
      BY <1>9
    <3>9. QED
      BY <3>2, <3>3, <3>5, <3>6, <3>7, <3>8 DEF P, h
  <2>5. QED
    BY <2>3, <2>4
<1> HIDE DEF P
<1>10. 0..L \subseteq P
  <2> HIDE DEF L
  <2>1. QED
    BY <1>1, <1>8, <1>9, UpTo
<1>11. L \in P
  BY <1>1, <1>10
<1>12. QED
  BY <1>7, <1>11 DEF P

\* Every argument with a name is among those of the statement: it is one of its
\* own, or passes the test.
LEMMA NamedIsGiven ==
  ASSUME NEW na \in Nat, Len(args) \in Nat, start \in Nat, start + na <= Len(args),
         NEW n \in 1..Len(args), args[n] # Positional
  PROVE  \E i \in DOMAIN StmtArgs(na) : StmtArgs(na)[i] = n
<1>1. CASE Appended(na, n)
  BY <1>1, LoopAppends
<1>2. CASE ~Appended(na, n)
  <2>1. n - start \in 1..na /\ start + (n - start) = n
    BY <1>2 DEF Appended
  <2>2. n - start \in DOMAIN StmtArgs(na) /\ StmtArgs(na)[n - start] = n
    <3>1. /\ StmtArgs(na) \in Seq(1..Len(args)) /\ Len(StmtArgs(na)) >= na
          /\ \A i \in 1..na : StmtArgs(na)[i] = start + i
      BY LoopAppends
    <3>2. DOMAIN StmtArgs(na) = 1..Len(StmtArgs(na)) /\ Len(StmtArgs(na)) \in Nat
      BY <3>1
    <3>3. QED
      BY <2>1, <3>1, <3>2
  <2>3. QED
    BY <2>2
<1>3. QED
  BY <1>1, <1>2

\* A statement that has got enough arguments is bound to its own.
LEMMA BindsOwn ==
  ASSUME TypeOK, QueryShape, query # << >>, start = Before(at), ~Missing, Fits,
         NEW j \in DOMAIN query[at].params
  PROVE  LET v == Bind(query[at], StmtArgs(NumInput(query[at])))[j]
         IN  IF query[at].params[j][2] = Positional THEN v = Before(at) + j
                                                    ELSE args[v] = query[at].params[j][2]
<1> DEFINE s == query[at]
           na == NumInput(s)
           g == StmtArgs(na)
           name == s.params[j][2]
           by == {i \in DOMAIN g : j \in Targets(s, g, i)}
<1>1. /\ at \in DOMAIN query /\ IsStatement(s) /\ na \in Nat /\ j \in 1..na
      /\ DOMAIN s.params = 1..na
  BY OwnSlots DEF TypeOK, QueryShape
<1>2. /\ Len(args) \in Nat /\ DOMAIN args = 1..Len(args) /\ start \in Nat
      /\ start + na <= Len(args)
  BY <1>1 DEF TypeOK, QueryShape, Missing
<1>3. /\ g \in Seq(1..Len(args)) /\ Len(g) >= na
      /\ \A i \in 1..na : g[i] = start + i
      /\ \A i \in DOMAIN g : i > na => args[g[i]] # Positional
  <2> HIDE DEF na
  <2>1. QED
    BY <1>1, <1>2, LoopAppends DEF Appended
<1>4. /\ Len(g) \in Nat /\ DOMAIN g = 1..Len(g) /\ \A i \in DOMAIN g : g[i] \in 1..Len(args)
      /\ j \in DOMAIN g
  <2> HIDE DEF g, na
  <2>1. QED
    BY <1>1, <1>3
<1>5. Bind(s, g)[j] = IF by = {} THEN 0 ELSE g[Max(by)]
  BY DEF Bind
<1>6. /\ args[start + j] = Positional <=> name = Positional
      /\ name # Positional => \E n \in DOMAIN args : args[n] = name
  <2>1. Before(at) + j <= Len(args)
    BY <1>1, <1>2
  <2>2. name # Positional => Cardinality({n \in DOMAIN args : args[n] = name}) = 1
    BY <1>1 DEF Fits
  <2>3. {n \in DOMAIN args : args[n] = name} = {} =>
          Cardinality({n \in DOMAIN args : args[n] = name}) = 0
    BY FS_EmptySet
  <2>4. name # Positional => {n \in DOMAIN args : args[n] = name} # {}
    BY <2>2, <2>3
  <2>5. args[Before(at) + j] = Positional <=> name = Positional
    BY <1>1, <2>1 DEF Fits
  <2>6. QED
    BY <2>4, <2>5
<1>7. s.params[j] = <<s.params[j][1], name>> /\ (name # Positional => s.params[j][1] \in Prefixes)
  BY <1>1 DEF IsStatement
<1>8. CASE name = Positional
  <2>1. ASSUME NEW i \in by PROVE i = j
    BY <1>7, <1>8 DEF Targets
  <2>2. j \in by
    BY <1>1, <1>3, <1>4, <1>6, <1>8 DEF Targets
  <2>3. by = {j}
    BY <2>1, <2>2
  <2>4. Max({j}) = j
    BY <1>1 DEF Max
  <2>5. Bind(s, g)[j] = Before(at) + j
    BY <1>1, <1>3, <1>5, <2>3, <2>4
  <2>6. QED
    BY <1>8, <2>5
<1>9. CASE name # Positional
  <2>1. ASSUME NEW i \in by PROVE args[g[i]] = name
    <3>1. i \in DOMAIN g /\ j \in Targets(s, g, i)
      OBVIOUS
    <3>2. CASE args[g[i]] = Positional
      <4>1. i = j
        BY <3>1, <3>2 DEF Targets
      <4>2. QED
        BY <1>1, <1>3, <1>6, <1>9, <3>2, <4>1
    <3>3. CASE args[g[i]] # Positional
      <4>1. \E x \in Prefixes : s.params[j] = <<x, args[g[i]]>>
        BY <3>1, <3>3 DEF Targets
      <4>2. QED
        BY <1>7, <4>1
    <3>4. QED
      BY <3>2, <3>3
  <2>2. by # {}
    <3>1. PICK n \in 1..Len(args) : args[n] = name
      BY <1>2, <1>6, <1>9
    <3>2. PICK i \in DOMAIN g : g[i] = n
      <4> HIDE DEF na, name
      <4>1. QED
        BY <1>1, <1>2, <1>9, <3>1, NamedIsGiven
    <3>3. j \in Targets(s, g, i)
      BY <1>1, <1>7, <1>9, <3>1, <3>2 DEF Targets
    <3>4. QED
      BY <3>2, <3>3
  <2>3. by \subseteq 0..Len(g)
    BY <1>4
  <2>4. Max(by) \in by
    <3> HIDE DEF by
    <3>1. \E x \in by : \A y \in by : x >= y
      BY <1>4, <2>2, <2>3, Greatest
    <3>2. QED
      BY <3>1 DEF Max
  <2>5. QED
    BY <1>5, <1>9, <2>1, <2>2, <2>4
<1>10. QED
  BY <1>8, <1>9

\* While nothing has been consumed, the test says what its comment says.
LEMMA GivenOnce ==
  ASSUME NEW na \in Nat, Len(args) \in Nat, start = 0, na <= Len(args)
  PROVE  \A i, j \in DOMAIN StmtArgs(na) : StmtArgs(na)[i] = StmtArgs(na)[j] => i = j
<1> DEFINE g == StmtArgs(na)
<1>1. /\ g \in Seq(1..Len(args)) /\ \A i \in 1..na : g[i] = start + i
      /\ \A i \in DOMAIN g : i > na => Appended(na, g[i])
      /\ \A i, j \in DOMAIN g : na < i /\ i < j => g[i] < g[j]
  BY LoopAppends
<1>2. \A i \in DOMAIN g : i \in Nat /\ i >= 1 /\ g[i] \in 1..Len(args)
  <2> HIDE DEF g
  <2>1. QED
    BY <1>1
<1> HIDE DEF g
<1>3. ASSUME NEW i \in DOMAIN g PROVE IF i <= na THEN g[i] = i ELSE g[i] > na
  BY <1>1, <1>2 DEF Appended
<1>4. ASSUME NEW i \in DOMAIN g, NEW j \in DOMAIN g, i < j PROVE g[i] # g[j]
  BY <1>1, <1>2, <1>3, <1>4
<1>5. QED
  BY <1>2, <1>4 DEF g

\* Every step keeps the number of arguments consumed.
LEMMA OffsetStep == IInv /\ [Next]_vars => Offset'
<1> SUFFICES ASSUME IInv, [Next]_vars PROVE Offset'
  OBVIOUS
<1>1. CASE Call \/ Begin \/ Commit \/ Rollback \/ CommitRollsBack
  <2>1. at' = 1 /\ start' = 0 /\ pc' = "prepare"
    BY <1>1 DEF Call, Begin, Commit, Rollback, CommitRollsBack, Transact, Start, Goto
  <2>2. Before(1)' = 0
    <3>1. (UNION {{j} \X DOMAIN query[j].params : j \in 1..(1 - 1)})' = {}
      OBVIOUS
    <3>2. QED
      BY <3>1, FS_EmptySet DEF Before
  <2>3. QED
    BY <2>1, <2>2 DEF Offset
<1>2. CASE PrepareFails \/ ExecMissing \/ QueryMissing \/ Fails
  <2>1. pc' \in {"idle", "rollback"}
    BY <1>2 DEF PrepareFails, ExecMissing, QueryMissing, Fails, Return, Goto
  <2>2. QED
    BY <2>1 DEF Offset
<1>3. CASE Prepare
  <2>1. /\ pc = "prepare" /\ UNCHANGED <<query, at, start>>
        /\ \/ pc' = "args"
           \/ pc' = "next" /\ query[at].kind = "comment"
    BY <1>3 DEF Prepare, Stay, Goto, callVars
  <2>2. at \in DOMAIN query /\ start = Before(at)
    BY <2>1 DEF IInv, TypeOK, QueryShape, Offset
  <2>3. Before(at + 1) = Before(at) + NumInput(query[at]) /\ Before(at) \in Nat
    BY <2>2, BeforeNext DEF IInv
  <2>4. query[at].kind = "comment" => NumInput(query[at]) = 0
    BY <2>2 DEF IInv, QueryShape, IsStatement, NumInput
  <2>5. query[at].kind = "comment" => start = Before(at + 1)
    BY <2>2, <2>3, <2>4
  <2>6. Before(at)' = Before(at) /\ Before(at + 1)' = Before(at + 1)
    BY <2>1 DEF Before
  <2>7. QED
    BY <2>1, <2>2, <2>5, <2>6 DEF Offset
<1>4. CASE Step \/ Query
  <2>1. /\ pc = "args" /\ UNCHANGED <<query, at>> /\ start' = start + NumInput(query[at])
        /\ pc' \in {"idle", "rollback", "next"}
    BY <1>4 DEF Step, Query, BindStatement, Return, Stay, Goto, callVars
  <2>2. at \in DOMAIN query /\ start = Before(at)
    BY <2>1 DEF IInv, TypeOK, QueryShape, Offset
  <2>3. start' = Before(at + 1)
    BY <2>1, <2>2, BeforeNext DEF IInv
  <2>4. Before(at + 1)' = Before(at + 1)
    BY <2>1 DEF Before
  <2>5. QED
    BY <2>1, <2>3, <2>4 DEF Offset
<1>5. CASE Next_
  <2>1. /\ pc = "next" /\ UNCHANGED <<query, start>>
        /\ \/ pc' \in {"idle", "rollback"}
           \/ pc' = "prepare" /\ at' = at + 1
    BY <1>5 DEF Next_, Return, Stay, Goto, callVars
  <2>2. Before(at + 1) = start
    BY <2>1 DEF IInv, Offset
  <2>3. pc' = "prepare" => Before(at)' = Before(at + 1)
    BY <2>1 DEF Before
  <2>4. QED
    BY <2>1, <2>2, <2>3 DEF Offset
<1>6. CASE UNCHANGED vars
  <2>1. UNCHANGED <<pc, query, at, start>>
    BY <1>6 DEF vars, callVars
  <2>2. Before(at)' = Before(at) /\ Before(at + 1)' = Before(at + 1)
    BY <2>1 DEF Before
  <2>3. QED
    BY <2>1, <2>2 DEF IInv, Offset
<1>7. QED
  BY <1>1, <1>2, <1>3, <1>4, <1>5, <1>6 DEF Next

\* What is bound stays, and what comes to it is right.
LEMMA BindsStep == IInv /\ [Next]_vars => (BindsRight /\ FirstOnce)'
<1> SUFFICES ASSUME IInv, [Next]_vars PROVE (BindsRight /\ FirstOnce)'
  OBVIOUS
<1>1. CASE Call \/ Begin \/ Commit \/ Rollback \/ CommitRollsBack
  <2>1. bound' = << >>
    BY <1>1 DEF Call, Begin, Commit, Rollback, CommitRollsBack, Transact, Start
  <2>2. QED
    BY <2>1 DEF BindsRight, FirstOnce
<1>2. CASE Step \/ Query
  <2>1. /\ pc = "args" /\ ~Missing /\ UNCHANGED <<query, args>>
        /\ bound' = Append(bound, [stmt |-> at, given |-> StmtArgs(NumInput(query[at])),
                             vals |-> Bind(query[at], StmtArgs(NumInput(query[at])))])
    BY <1>2 DEF Step, Query, BindStatement, callVars
  <2> DEFINE e == [stmt |-> at, given |-> StmtArgs(NumInput(query[at])),
                   vals |-> Bind(query[at], StmtArgs(NumInput(query[at])))]
  <2>2. PICK S : bound \in Seq(S)
    BY DEF IInv, Underway
  <2>3. /\ DOMAIN bound = 1..Len(bound) /\ DOMAIN bound' = 1..(Len(bound) + 1)
        /\ Len(bound) \in Nat /\ \A i \in 1..Len(bound) : bound'[i] = bound[i]
        /\ bound'[Len(bound) + 1] = e
    <3> HIDE DEF e
    <3>1. bound' = Append(bound, e) /\ bound \in Seq(S \cup {e})
      BY <2>1, <2>2 DEF e
    <3>2. QED
      BY <3>1, LenProperties, AppendProperties
  <2>4. Fits' = Fits /\ \A k : Before(k)' = Before(k)
    BY <2>1 DEF Fits, Before
  <2>5. ASSUME Fits, NEW r \in DOMAIN bound', NEW j \in DOMAIN query[bound'[r].stmt].params
        PROVE  IF query[bound'[r].stmt].params[j][2] = Positional
               THEN bound'[r].vals[j] = Before(bound'[r].stmt) + j
               ELSE args[bound'[r].vals[j]] = query[bound'[r].stmt].params[j][2]
    <3>1. CASE r \in DOMAIN bound
      <4>1. bound'[r] = bound[r]
        BY <2>3, <3>1
      <4>2. QED
        BY <2>5, <3>1, <4>1 DEF IInv, BindsRight
    <3>2. CASE r \notin DOMAIN bound
      <4>1. bound'[r].stmt = at /\ bound'[r].vals = Bind(query[at], StmtArgs(NumInput(query[at])))
        BY <2>3, <3>2
      <4>2. start = Before(at) /\ query # << >>
        BY <2>1 DEF IInv, Offset, QueryShape
      <4>3. QED
        BY <2>1, <2>5, <4>1, <4>2, BindsOwn DEF IInv
    <3>3. QED
      BY <3>1, <3>2
  <2>6. BindsRight'
    BY <2>1, <2>4, <2>5 DEF BindsRight
  <2>7. ASSUME NEW r \in DOMAIN bound', Before(bound'[r].stmt) = 0,
               NEW i \in DOMAIN bound'[r].given, NEW j \in DOMAIN bound'[r].given,
               bound'[r].given[i] = bound'[r].given[j]
        PROVE  i = j
    <3>1. CASE r \in DOMAIN bound
      <4>1. bound'[r] = bound[r]
        BY <2>3, <3>1
      <4>2. QED
        BY <2>7, <3>1, <4>1 DEF IInv, FirstOnce
    <3>2. CASE r \notin DOMAIN bound
      <4>1. bound'[r].stmt = at /\ bound'[r].given = StmtArgs(NumInput(query[at]))
        BY <2>3, <3>2
      <4>2. start = 0 /\ at \in DOMAIN query /\ Len(args) \in Nat
        BY <2>1, <2>7, <4>1 DEF IInv, Offset, QueryShape, TypeOK
      <4>3. NumInput(query[at]) \in Nat /\ NumInput(query[at]) <= Len(args)
        <5>1. NumInput(query[at]) \in Nat
          BY <4>2, OwnSlots DEF IInv
        <5>2. QED
          BY <2>1, <4>2, <5>1 DEF Missing
      <4>4. QED
        BY <2>7, <4>1, <4>2, <4>3, GivenOnce
    <3>3. QED
      BY <3>1, <3>2
  <2>8. FirstOnce'
    BY <2>4, <2>7 DEF FirstOnce
  <2>9. QED
    BY <2>6, <2>8
<1>3. CASE \/ PrepareFails \/ Prepare \/ ExecMissing \/ QueryMissing \/ Fails \/ Next_
           \/ UNCHANGED vars
  <2>1. UNCHANGED <<bound, query, args>>
    BY <1>3 DEF PrepareFails, Prepare, ExecMissing, QueryMissing, Fails, Next_, vars, callVars
  <2>2. Fits' = Fits /\ \A k : Before(k)' = Before(k)
    BY <2>1 DEF Fits, Before
  <2>3. QED
    BY <2>1, <2>2 DEF IInv, BindsRight, FirstOnce
<1>4. QED
  BY <1>1, <1>2, <1>3 DEF Next

\* The invariant is inductive.
LEMMA InvariantStep == IInv /\ [Next]_vars => IInv'
BY TypeStep, LiveStep, TxStep, OrderStep, OffsetStep, BindsStep DEF IInv

\* The inductive invariant holds in every reachable state.
THEOREM Invariant == Spec => []IInv
BY InitInvariant, InvariantStep, PTL DEF Spec

-----------------------------------------------------------------------------
\* Every state of the specification is of its type.
THEOREM TypeCorrect == Spec => []TypeOK
BY Invariant, PTL DEF IInv

\* A call leaves no statement open but that of its rows, or that for which query
\* has not enough arguments.
THEOREM AlwaysFinalized == Spec => []Finalized
BY Invariant, PTL DEF IInv

\* A call goes through the statements of its query once, in their order, and past
\* none that failed.
THEOREM AlwaysInOrder == Spec => []RunInOrder
BY Invariant, PTL DEF IInv

\* When the arguments fit, every statement of a batch is bound to its own, however
\* many there are and whatever was consumed before.
THEOREM AlwaysBindsRight == Spec => []BindsRight
BY Invariant, PTL DEF IInv

\* The comment in exec and query is right as long as no argument has been consumed,
\* for the first statement in particular: what is appended is not contained in the
\* statement's own.
THEOREM FirstAppendsOnlyOthers == Spec => []FirstOnce
BY Invariant, PTL DEF IInv

\* After Commit and Rollback SQLite has no transaction, after Begin it has one.
THEOREM AlwaysAgree == Spec => []TxAgree
BY Invariant, PTL DEF IInv
=============================================================================
