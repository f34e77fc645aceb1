--------------------------- MODULE LifecycleProofs ---------------------------
(***************************************************************************)
(* Proofs about Lifecycle, for any set of goroutines and of statements: the  *)
(* type invariant, the safety invariants, what exec and Next report, and that *)
(* the driver keeps the calling contract of SqliteApi.                       *)
(*                                                                         *)
(* The argument.  None of the safety invariants is inductive alone; IInv     *)
(* says what holds between any two steps: who holds the two mutexes at which  *)
(* program counter (Mutexes), that an exec is alone with its statement       *)
(* (ExecAlone), how s.closed goes with the sqlite3_stmt (ClosedState), where  *)
(* a raised interrupt flag can hit (OthersShared, FlagAimed), and whether the *)
(* error a worker finds is that of its own step (ErrorKept).                 *)
(*                                                                         *)
(* What needs the SQLite objects to be alive is proved for programs that do   *)
(* not use what they have closed, ~UseClosed; the rest for all.              *)
(***************************************************************************)
EXTENDS Lifecycle, TLAPS

\* The program counters under which a call holds the driverConn mutex, s.mu,
\* and has a worker.
DcPcs     == ExecPcs \cup NextPcs \cup {"c.clear"}
MuPcs     == (NextPcs \ {"n.lock"}) \cup {"r.reset", "s.check", "s.finalize"}
WorkerPcs == ExecPcs \cup (NextPcs \ {"n.lock"})

\* A call is about a prepared statement, or about the connection.
CallShape ==
  \A g \in Procs :
    /\ on[g] = None <=> pc[g] \in {"idle", "c.clear"}
    /\ on[g] # None => sq[on[g]] # "none"
    /\ wk[g] # "none" <=> pc[g] \in WorkerPcs
    /\ wk[g] \in {"bind", "bindError"} => pc[g] \in ExecPcs

\* The two mutexes are held exactly where the code is between lock and unlock.
Mutexes ==
  \A g \in Procs :
    /\ dc = g <=> pc[g] \in DcPcs
    /\ \A s \in Stmts : mu[s] = g <=> on[g] = s /\ pc[g] \in MuPcs

\* Nobody closes the statement of an exec.
ExecAlone ==
  \A g, h \in Procs :
    pc[g] \in ExecPcs /\ pc[h] \in ClosePcs => on[g] # on[h]

\* s.closed and s.s agree up to the critical section that sets both.
ClosedState ==
  /\ \A s \in Stmts : /\ sq[s] = "finalized" => closed[s]
                      /\ closed[s] => sq[s] # "none"
  /\ \A g \in Procs :
       /\ pc[g] \in (NextPcs \ {"n.lock"}) \cup {"r.reset"} => ~closed[on[g]]
       /\ pc[g] \in {"s.check", "s.finalize"} =>
            closed[on[g]] /\ sq[on[g]] # "finalized"
       /\ wk[g] \in {"stepping", "lastError", "reset"} => sq[on[g]] # "finalized"
       /\ pc[g] \in ExecPcs /\ ~UseClosed => ~closed[on[g]]

\* Only a program that uses what it closed has a NULL followed.
NoCrash == ~UseClosed => ~crashed

\* What a worker sends goes with what its step returned: from the failing step
\* to lastError() the code of the connection is that failure, or the failure is
\* recorded as lost.
ErrorKept ==
  \A g \in Procs :
    /\ wk[g] \in {"none", "bind", "bindError", "step", "stepping"} =>
         res[g] = "none" /\ err[g] = "none"
    /\ wk[g] \in {"lastError", "reset"} => res[g] \in {"interrupt", "error"}
    /\ wk[g] = "lastError" /\ errcode = "ok" => g \in lost
    /\ \/ wk[g] \in {"return", "send"}
       \/ wk[g] = "reset" /\ pc[g] \in ExecPcs
       => (err[g] = "none" => res[g] \in {"row", "done"} \/ g \in lost)
    /\ wk[g] \in {"return", "send"} /\ res[g] \in {"row", "done"} => err[g] = "none"

\* c.db is cleared after sqlite3_close_v2, in the same call.
Handle ==
  /\ conn = "open" <=> db = "ptr" /\ \A g \in Procs : pc[g] # "c.clear"
  /\ \A g \in Procs : pc[g] \in DcPcs => db = "ptr"

\* A call that has seen its context done is still about that context.
CancelSeen ==
  \A g \in Procs :
    pc[g] \in {"e.cancelled", "e.interrupt", "e.join",
              "n.cancelled", "n.interrupt", "n.join"} => ctx[on[g]] = "done"

\* While a call runs a worker no other statement starts, so what runs besides
\* its own statement was running when the call began.
OthersShared ==
  \A g \in Procs :
    /\ pc[g] \in WorkerPcs => \A s \in Stmts \ {on[g]} : sq[s] = "run" => s \in shared
    /\ wk[g] = "stepping" => sq[on[g]] = "run"

\* A raised flag can hit: a cancelled statement, one that overlapped a call,
\* or one that is about to be reset.
FlagAimed ==
  intr => \A s \in Stmts : sq[s] = "run" =>
            \/ ctx[s] = "done" \/ s \in shared
            \/ \E g \in Procs : on[g] = s /\ wk[g] = "bind"

IInv ==
  /\ TypeOK /\ CallShape /\ Mutexes /\ ExecAlone /\ ClosedState /\ Handle
  /\ CancelSeen /\ OthersShared /\ FlagAimed /\ NoCrash /\ ErrorKept
  /\ FailuresAreReset /\ ClosedIsFinalized /\ InterruptIsolated

-----------------------------------------------------------------------------
(* The type invariant. *)

\* The initial state is of its type.
LEMMA InitType == Init => TypeOK
<1> SUFFICES ASSUME Init PROVE TypeOK
  OBVIOUS
<1>1. closed \in [Stmts -> BOOLEAN]
  BY DEF Init
<1>2. cls \in [Stmts -> BOOLEAN]
  BY DEF Init
<1>3. dropped \in [Stmts -> BOOLEAN]
  BY DEF Init
<1>4. QED
  BY <1>1, <1>2, <1>3 DEF Init, TypeOK, Results

\* Every step keeps the type invariant, given the shape of a call.
LEMMA TypeStep == TypeOK /\ CallShape /\ [Next]_vars => TypeOK'
<1> SUFFICES ASSUME TypeOK, CallShape, [Next]_vars PROVE TypeOK'
  OBVIOUS
<1> USE NamesAssumption DEF TypeOK, Procs, Results, ExecPcs, NextPcs, ClosePcs,
        sqliteVars, stmtVars, callVars, errVars
<1>1. ASSUME NEW g \in Goroutines, NEW s \in Stmts, NEW c \in BOOLEAN, NEW x \in Contexts, PrepareQuery(g, s, c, x)
      PROVE  TypeOK'
  BY <1>1 DEF PrepareQuery, Contexts
<1>2. ASSUME NEW g \in Goroutines, NEW s \in Stmts, Prepare(g, s) PROVE TypeOK'
  BY <1>2 DEF Prepare
<1>3. ASSUME NEW g \in Goroutines, NEW s \in Stmts, NEW x \in Contexts, Query(g, s, x)
      PROVE  TypeOK'
  BY <1>3 DEF Query, BindReset, CodeAfterEnd, Usable, InClose, Contexts
<1>4. ASSUME NEW s \in Stmts, Cancel(s) PROVE TypeOK'
  BY <1>4 DEF Cancel
<1>5. ASSUME NEW s \in Stmts, Drop(s) PROVE TypeOK'
  BY <1>5 DEF Drop
<1>6. ASSUME NEW g \in Goroutines, NEW s \in Stmts, NEW x \in Contexts, Exec(g, s, x)
      PROVE  TypeOK'
  BY <1>6 DEF Exec, Overlaps, Running, Usable, InClose, Goto, Contexts
<1>7. ASSUME NEW g \in Goroutines, NEW s \in Stmts, Next_(g, s) PROVE TypeOK'
  BY <1>7 DEF Next_, Goto, Usable
<1>8. ASSUME NEW g \in Goroutines, NEW s \in Stmts, RowsClose(g, s)
      PROVE  TypeOK'
  BY <1>8 DEF RowsClose, Goto, Usable, InExec
<1>9. ASSUME NEW g \in Procs, NEW s \in Stmts, StmtClose(g, s) PROVE TypeOK'
  <2>1. /\ on' = [on EXCEPT ![g] = s] /\ pc' = [pc EXCEPT ![g] = "s.lock"]
        /\ UNCHANGED <<sqliteVars, stmtVars, dc, wk, res, ret, shared, errVars>>
    BY <1>9 DEF StmtClose, Goto
  <2>2. QED
    BY <2>1
<1>10. ASSUME NEW g \in Goroutines, ConnClose(g) PROVE TypeOK'
  BY <1>10 DEF ConnClose, Goto
<1>11. ASSUME NEW g \in Goroutines, AutoCommit(g) PROVE TypeOK'
  BY <1>11 DEF AutoCommit
<1>12. ASSUME NEW g \in Procs, WorkerBind(g) PROVE TypeOK'
  <2>1. sq' \in [Stmts -> {"none", "ready", "run", "failed", "finalized"}]
    BY <1>12 DEF WorkerBind, BindReset
  <2>2. wk' = [wk EXCEPT ![g] = "step"] \/ wk' = [wk EXCEPT ![g] = "bindError"]
    BY <1>12 DEF WorkerBind
  <2>3. /\ errcode' \in {"ok", "interrupt", "error"}
        /\ UNCHANGED <<db, conn, intr, stmtVars, dc, pc, on, res, ret, shared,
                       err, crashed, lost>>
    BY <1>12 DEF WorkerBind, CodeAfterEnd
  <2>4. QED
    BY <2>1, <2>2, <2>3
<1>13. ASSUME NEW g \in Procs, WorkerBindError(g) PROVE TypeOK'
  BY <1>13 DEF WorkerBindError
<1>14. ASSUME NEW g \in Procs, WorkerStepNull(g) PROVE TypeOK'
  BY <1>14 DEF WorkerStepNull
<1>15. ASSUME NEW g \in Procs, WorkerLastError(g) PROVE TypeOK'
  BY <1>15 DEF WorkerLastError
<1>16. ASSUME NEW g \in Procs, WorkerStep(g) PROVE TypeOK'
  <2>1. intr' \in BOOLEAN
    BY <1>16, Zenon DEF WorkerStep
  <2>2. shared' \in SUBSET Stmts
    BY <1>16 DEF WorkerStep, Running, CallShape, WorkerPcs
  <2>3. QED
    BY <1>16, <2>1, <2>2 DEF WorkerStep
<1>17. ASSUME NEW g \in Procs, WorkerReset(g) PROVE TypeOK'
  <2>1. errcode' \in {"ok", "interrupt", "error"} /\ lost' \in SUBSET Procs
    BY <1>17 DEF WorkerReset, CodeOf
  <2>2. \/ wk' = [wk EXCEPT ![g] = "return"]
        \/ wk' = [wk EXCEPT ![g] = "lastError"]
    BY <1>17 DEF WorkerReset
  <2>3. sq' \in [Stmts -> {"none", "ready", "run", "failed", "finalized"}]
    BY <1>17 DEF WorkerReset
  <2>4. UNCHANGED <<db, conn, intr, stmtVars, dc, pc, on, res, ret, shared, err, crashed>>
    BY <1>17 DEF WorkerReset
  <2>5. QED
    BY <2>1, <2>2, <2>3, <2>4
<1>18. ASSUME NEW g \in Procs, WorkerReturn(g) PROVE TypeOK'
  BY <1>18 DEF WorkerReturn
<1>19. ASSUME NEW g \in Procs, NEW r \in {"row", "done", "interrupt", "error"}, WorkerStepEnd(g, r)
      PROVE  TypeOK'
  <2>1. sq' \in [Stmts -> {"none", "ready", "run", "failed", "finalized"}]
    BY <1>19 DEF WorkerStepEnd
  <2>2. wk' \in [Procs -> {"none", "bind", "bindError", "step", "stepping",
                              "lastError", "reset", "return", "send"}]
    BY <1>19 DEF WorkerStepEnd
  <2>3. errcode' \in {"ok", "interrupt", "error"} /\ res' = [res EXCEPT ![g] = r]
    BY <1>19 DEF WorkerStepEnd, CodeOf
  <2>4. UNCHANGED <<db, conn, intr, stmtVars, dc, pc, on, ret, shared, err, crashed, lost>>
    BY <1>19 DEF WorkerStepEnd
  <2>5. QED
    BY <2>1, <2>2, <2>3, <2>4
<1>20. ASSUME NEW g \in Procs, NextEOF(g) PROVE TypeOK'
  BY <1>20 DEF NextEOF, NextReturn, SentError, Return
<1>21. ASSUME NEW g \in Procs, NextBegin(g) PROVE TypeOK'
  <2>1. mu' \in [Stmts -> Procs \cup {None}]
    BY <1>21 DEF NextBegin
  <2>2. /\ wk' \in [Procs -> {"none", "bind", "bindError", "step", "stepping",
                                 "lastError", "reset", "return", "send"}]
        /\ pc' \in [Procs -> {"idle", "c.clear"} \cup ExecPcs \cup NextPcs \cup ClosePcs]
    BY <1>21 DEF NextBegin, Goto
  <2>3. shared' \in SUBSET Stmts
    BY <1>21 DEF NextBegin, Overlaps, Running
  <2>4. UNCHANGED <<sqliteVars, closed, rows, cls, ctx, dropped, dc, on, res, ret, errVars>>
    BY <1>21 DEF NextBegin
  <2>5. QED
    BY <2>1, <2>2, <2>3, <2>4
<1>22. ASSUME NEW g \in Procs, RowsCloseNothing(g) PROVE TypeOK'
  BY <1>22 DEF RowsCloseNothing, Return
<1>23. ASSUME NEW g \in Procs, RowsCloseMark(g) PROVE TypeOK'
  <2>1. mu' \in [Stmts -> Procs \cup {None}]
    BY <1>23 DEF RowsCloseMark
  <2>2. pc' \in [Procs -> {"idle", "c.clear"} \cup ExecPcs \cup NextPcs \cup ClosePcs]
    BY <1>23 DEF RowsCloseMark, Goto
  <2>3. rows' \in [Stmts -> {"none", "open", "closed"}]
    BY <1>23 DEF RowsCloseMark
  <2>4. UNCHANGED <<sqliteVars, closed, cls, ctx, dropped, dc, on, wk, res, ret, shared, errVars>>
    BY <1>23 DEF RowsCloseMark
  <2>5. QED
    BY <2>1, <2>2, <2>3, <2>4
<1>24. ASSUME NEW g \in Procs, StmtCloseNothing(g) PROVE TypeOK'
  BY <1>24 DEF StmtCloseNothing, Return
<1>25. ASSUME NEW g \in Procs, StmtCloseMark(g) PROVE TypeOK'
  <2>1. mu' \in [Stmts -> Procs \cup {None}]
    BY <1>25 DEF StmtCloseMark
  <2>2. pc' \in [Procs -> {"idle", "c.clear"} \cup ExecPcs \cup NextPcs \cup ClosePcs]
    BY <1>25 DEF StmtCloseMark, Goto
  <2>3. closed' \in [Stmts -> BOOLEAN]
    BY <1>25 DEF StmtCloseMark
  <2>4. UNCHANGED <<sqliteVars, rows, cls, ctx, dropped, dc, on, wk, res, ret, shared, errVars>>
    BY <1>25 DEF StmtCloseMark
  <2>5. QED
    BY <2>1, <2>2, <2>3, <2>4
<1>26. ASSUME NEW g \in Procs, ExecReceive(g) PROVE TypeOK'
  BY <1>26 DEF ExecReceive, Receive, ExecReturn, SentError, ExecValue, Return
<1>27. ASSUME NEW g \in Procs, ExecCancelled(g) PROVE TypeOK'
  BY <1>27 DEF ExecCancelled, Goto
<1>28. ASSUME NEW g \in Procs, ExecFinishedAnyway(g) PROVE TypeOK'
  BY <1>28 DEF ExecFinishedAnyway, Receive, ExecReturn, SentError, ExecValue, Return
<1>29. ASSUME NEW g \in Procs, ExecDefault(g) PROVE TypeOK'
  BY <1>29 DEF ExecDefault, Goto
<1>30. ASSUME NEW g \in Procs, ExecInterrupt(g) PROVE TypeOK'
  BY <1>30 DEF ExecInterrupt, Goto
<1>31. ASSUME NEW g \in Procs, ExecJoin(g) PROVE TypeOK'
  BY <1>31 DEF ExecJoin, Receive, ExecReturn, SentError, ExecValue, Return
<1>32. ASSUME NEW g \in Procs, NextReceive(g) PROVE TypeOK'
  BY <1>32 DEF NextReceive, Receive, NextReturn, SentError, NextValue, Return
<1>33. ASSUME NEW g \in Procs, NextCancelled(g) PROVE TypeOK'
  BY <1>33 DEF NextCancelled, Goto
<1>34. ASSUME NEW g \in Procs, NextFinishedAnyway(g) PROVE TypeOK'
  BY <1>34 DEF NextFinishedAnyway, Receive, NextReturn, SentError, Return
<1>35. ASSUME NEW g \in Procs, NextDefault(g) PROVE TypeOK'
  BY <1>35 DEF NextDefault, Goto
<1>36. ASSUME NEW g \in Procs, NextInterrupt(g) PROVE TypeOK'
  BY <1>36 DEF NextInterrupt, Goto
<1>37. ASSUME NEW g \in Procs, NextJoin(g) PROVE TypeOK'
  BY <1>37 DEF NextJoin, Receive, NextReturn, SentError, Return
<1>38. ASSUME NEW g \in Procs, RowsCloseReset(g) PROVE TypeOK'
  <2>1. mu' \in [Stmts -> Procs \cup {None}]
    BY <1>38 DEF RowsCloseReset
  <2>2. sq' \in [Stmts -> {"none", "ready", "run", "failed", "finalized"}]
    BY <1>38 DEF RowsCloseReset
  <2>3. /\ errcode' \in {"ok", "interrupt", "error"}
        /\ lost' \in SUBSET Procs
    BY <1>38 DEF RowsCloseReset, EndOther, CodeAfterEnd
  <2>4. /\ pc' \in [Procs -> {"idle", "c.clear"} \cup ExecPcs \cup NextPcs \cup ClosePcs]
        /\ on' \in [Procs -> Stmts \cup {None}]
        /\ res' \in [Procs -> Results] /\ ret' = ret
    BY <1>38 DEF RowsCloseReset, Return
  <2>5. UNCHANGED <<db, conn, intr, closed, rows, cls, ctx, dropped, dc, wk, shared, err, crashed>>
    BY <1>38 DEF RowsCloseReset, EndOther
  <2>6. QED
    BY <2>1, <2>2, <2>3, <2>4, <2>5
<1>39. ASSUME NEW g \in Procs, StmtCloseCheck(g) PROVE TypeOK'
  BY <1>39 DEF StmtCloseCheck, Return, Goto
<1>40. ASSUME NEW g \in Procs, StmtCloseFinalize(g) PROVE TypeOK'
  BY <1>40 DEF StmtCloseFinalize, EndOther, CodeAfterEnd, Return
<1>41. ASSUME NEW g \in Procs, ConnCloseClear(g) PROVE TypeOK'
  BY <1>41 DEF ConnCloseClear, Return
<1>42. CASE UNCHANGED vars
  BY <1>42 DEF vars
<1> HIDE DEF TypeOK, IInv
<1>43. QED
  BY <1>1, <1>2, <1>3, <1>4, <1>5, <1>6, <1>7, <1>8, <1>9, <1>10, <1>11,
     <1>12, <1>13, <1>14, <1>15, <1>16, <1>17, <1>18, <1>19, <1>20, <1>21,
     <1>22, <1>23, <1>24, <1>25, <1>26, <1>27, <1>28, <1>29, <1>30, <1>31,
     <1>32, <1>33, <1>34, <1>35, <1>36, <1>37, <1>38, <1>39, <1>40, <1>41,
     <1>42 DEF Next, Begin, Worker,
     Lock, Continue

-----------------------------------------------------------------------------
(* The inductive invariant. *)

\* The inductive invariant holds before any call.
LEMMA InitInvariant == Init => IInv
BY NamesAssumption, InitType
   DEF Init, IInv, Procs, CallShape, Mutexes, ExecAlone, ClosedState, Handle, CancelSeen,
       OthersShared, FlagAimed, NoCrash, ErrorKept, FailuresAreReset, ClosedIsFinalized,
       InterruptIsolated, DcPcs, MuPcs, WorkerPcs, ExecPcs, NextPcs, ClosePcs

\* Every step keeps what a worker sends in agreement with what its step did.
LEMMA ErrorStep == IInv /\ [Next]_vars => ErrorKept'
<1> SUFFICES ASSUME IInv, [Next]_vars PROVE ErrorKept'
  OBVIOUS
<1> TypeOK /\ TypeOK'
  BY TypeStep DEF IInv
<1> USE NamesAssumption DEF IInv, TypeOK, Procs, CallShape, Mutexes, ErrorKept, ExecPcs, NextPcs,
        DcPcs, WorkerPcs, sqliteVars, stmtVars, callVars, errVars
<1>1. ASSUME NEW g \in Goroutines, NEW s \in Stmts, NEW c \in BOOLEAN, NEW x \in Contexts, PrepareQuery(g, s, c, x)
      PROVE  ErrorKept'
  BY <1>1 DEF PrepareQuery
<1>2. ASSUME NEW g \in Goroutines, NEW s \in Stmts, Prepare(g, s) PROVE ErrorKept'
  BY <1>2 DEF Prepare
<1>3. ASSUME NEW g \in Goroutines, NEW s \in Stmts, NEW x \in Contexts, Query(g, s, x)
      PROVE  ErrorKept'
  BY <1>3 DEF Query
<1>4. ASSUME NEW s \in Stmts, Cancel(s) PROVE ErrorKept'
  BY <1>4 DEF Cancel
<1>5. ASSUME NEW s \in Stmts, Drop(s) PROVE ErrorKept'
  BY <1>5 DEF Drop
<1>6. ASSUME NEW g \in Goroutines, NEW s \in Stmts, NEW x \in Contexts, Exec(g, s, x)
      PROVE  ErrorKept'
  BY <1>6 DEF Exec, Goto
<1>7. ASSUME NEW g \in Goroutines, NEW s \in Stmts, Next_(g, s) PROVE ErrorKept'
  BY <1>7 DEF Next_, Goto
<1>8. ASSUME NEW g \in Goroutines, NEW s \in Stmts, RowsClose(g, s) PROVE ErrorKept'
  BY <1>8 DEF RowsClose, Goto
<1>9. ASSUME NEW g \in Procs, NEW s \in Stmts, StmtClose(g, s) PROVE ErrorKept'
  BY <1>9 DEF StmtClose, Goto
<1>10. ASSUME NEW g \in Goroutines, ConnClose(g) PROVE ErrorKept'
  BY <1>10 DEF ConnClose, Goto
<1>11. ASSUME NEW g \in Goroutines, AutoCommit(g) PROVE ErrorKept'
  BY <1>11 DEF AutoCommit
<1>12. ASSUME NEW g \in Procs, WorkerBind(g) PROVE ErrorKept'
  BY <1>12 DEF WorkerBind
<1>13. ASSUME NEW g \in Procs, WorkerBindError(g) PROVE ErrorKept'
  BY <1>13 DEF WorkerBindError
<1>14. ASSUME NEW g \in Procs, WorkerStep(g) PROVE ErrorKept'
  BY <1>14 DEF WorkerStep
<1>15. ASSUME NEW g \in Procs, WorkerStepNull(g) PROVE ErrorKept'
  BY <1>15 DEF WorkerStepNull
<1>16. ASSUME NEW g \in Procs, NEW r \in {"row", "done", "interrupt", "error"}, WorkerStepEnd(g, r)
      PROVE  ErrorKept'
  <2>1. errcode' # "ok" /\ UNCHANGED <<pc, err, lost>>
    BY <1>16 DEF WorkerStepEnd, CodeOf
  <2>2. /\ res'[g] = r /\ err[g] = "none"
        /\ r \in {"row", "done"} => wk'[g] = "return"
        /\ r \notin {"row", "done"} =>
             wk'[g] = IF pc[g] \in ExecPcs THEN "lastError" ELSE "reset"
    BY <1>16 DEF WorkerStepEnd
  <2>3. \A h \in Procs \ {g} : wk'[h] = wk[h] /\ res'[h] = res[h]
    BY <1>16 DEF WorkerStepEnd
  <2>4. QED
    BY <2>1, <2>2, <2>3
<1>17. ASSUME NEW g \in Procs, WorkerLastError(g) PROVE ErrorKept'
  BY <1>17 DEF WorkerLastError
<1>18. ASSUME NEW g \in Procs, WorkerReset(g) PROVE ErrorKept'
  BY <1>18 DEF WorkerReset, CodeOf
<1>19. ASSUME NEW g \in Procs, WorkerReturn(g) PROVE ErrorKept'
  BY <1>19 DEF WorkerReturn
<1>20. ASSUME NEW g \in Procs, NextEOF(g) PROVE ErrorKept'
  BY <1>20 DEF NextEOF, NextReturn, SentError, Return
<1>21. ASSUME NEW g \in Procs, NextBegin(g) PROVE ErrorKept'
  BY <1>21 DEF NextBegin, Goto
<1>22. ASSUME NEW g \in Procs, RowsCloseNothing(g) PROVE ErrorKept'
  BY <1>22 DEF RowsCloseNothing, Return
<1>23. ASSUME NEW g \in Procs, RowsCloseMark(g) PROVE ErrorKept'
  BY <1>23 DEF RowsCloseMark, Goto
<1>24. ASSUME NEW g \in Procs, StmtCloseNothing(g) PROVE ErrorKept'
  BY <1>24 DEF StmtCloseNothing, Return
<1>25. ASSUME NEW g \in Procs, StmtCloseMark(g) PROVE ErrorKept'
  BY <1>25 DEF StmtCloseMark, Goto
<1>26. ASSUME NEW g \in Procs, ExecReceive(g) PROVE ErrorKept'
  BY <1>26 DEF ExecReceive, Receive, ExecReturn, SentError, Return
<1>27. ASSUME NEW g \in Procs, ExecCancelled(g) PROVE ErrorKept'
  BY <1>27 DEF ExecCancelled, Goto
<1>28. ASSUME NEW g \in Procs, ExecFinishedAnyway(g) PROVE ErrorKept'
  BY <1>28 DEF ExecFinishedAnyway, Receive, ExecReturn, SentError, Return
<1>29. ASSUME NEW g \in Procs, ExecDefault(g) PROVE ErrorKept'
  BY <1>29 DEF ExecDefault, Goto
<1>30. ASSUME NEW g \in Procs, ExecInterrupt(g) PROVE ErrorKept'
  BY <1>30 DEF ExecInterrupt, Goto
<1>31. ASSUME NEW g \in Procs, ExecJoin(g) PROVE ErrorKept'
  BY <1>31 DEF ExecJoin, Receive, ExecReturn, SentError, Return
<1>32. ASSUME NEW g \in Procs, NextReceive(g) PROVE ErrorKept'
  BY <1>32 DEF NextReceive, Receive, NextReturn, SentError, Return
<1>33. ASSUME NEW g \in Procs, NextCancelled(g) PROVE ErrorKept'
  BY <1>33 DEF NextCancelled, Goto
<1>34. ASSUME NEW g \in Procs, NextFinishedAnyway(g) PROVE ErrorKept'
  BY <1>34 DEF NextFinishedAnyway, Receive, NextReturn, SentError, Return
<1>35. ASSUME NEW g \in Procs, NextDefault(g) PROVE ErrorKept'
  BY <1>35 DEF NextDefault, Goto
<1>36. ASSUME NEW g \in Procs, NextInterrupt(g) PROVE ErrorKept'
  BY <1>36 DEF NextInterrupt, Goto
<1>37. ASSUME NEW g \in Procs, NextJoin(g) PROVE ErrorKept'
  BY <1>37 DEF NextJoin, Receive, NextReturn, SentError, Return
<1>38. ASSUME NEW g \in Procs, RowsCloseReset(g) PROVE ErrorKept'
  BY <1>38 DEF RowsCloseReset, EndOther, Return
<1>39. ASSUME NEW g \in Procs, StmtCloseCheck(g) PROVE ErrorKept'
  BY <1>39 DEF StmtCloseCheck, Return, Goto
<1>40. ASSUME NEW g \in Procs, StmtCloseFinalize(g) PROVE ErrorKept'
  BY <1>40 DEF StmtCloseFinalize, EndOther, Return
<1>41. ASSUME NEW g \in Procs, ConnCloseClear(g) PROVE ErrorKept'
  BY <1>41 DEF ConnCloseClear, Return
<1>42. CASE UNCHANGED vars
  BY <1>42 DEF vars
<1> HIDE DEF TypeOK, IInv, ErrorKept
<1>43. QED
  BY <1>1, <1>2, <1>3, <1>4, <1>5, <1>6, <1>7, <1>8, <1>9, <1>10, <1>11,
     <1>12, <1>13, <1>14, <1>15, <1>16, <1>17, <1>18, <1>19, <1>20, <1>21,
     <1>22, <1>23, <1>24, <1>25, <1>26, <1>27, <1>28, <1>29, <1>30, <1>31,
     <1>32, <1>33, <1>34, <1>35, <1>36, <1>37, <1>38, <1>39, <1>40, <1>41,
     <1>42
     DEF Next, Begin, Worker, Lock, Continue

\* Every step of every goroutine, worker and of the finalizer keeps it.
LEMMA InvariantStep == IInv /\ [Next]_vars => IInv'
<1> SUFFICES ASSUME IInv, [Next]_vars PROVE IInv'
  OBVIOUS
<1> TypeOK /\ TypeOK'
  BY TypeStep DEF IInv
<1> ErrorKept'
  BY ErrorStep
<1> USE NamesAssumption
        DEF IInv, TypeOK, Procs, CallShape, Mutexes, ExecAlone, ClosedState, Handle,
            CancelSeen, OthersShared, FlagAimed, NoCrash, FailuresAreReset,
            ClosedIsFinalized, InterruptIsolated, ExecPcs, NextPcs, ClosePcs,
            DcPcs, MuPcs, WorkerPcs, sqliteVars, stmtVars, callVars, errVars
<1>1. ASSUME NEW g \in Goroutines, NEW s \in Stmts, NEW c \in BOOLEAN, NEW x \in Contexts, PrepareQuery(g, s, c, x)
      PROVE  IInv'
  BY <1>1 DEF PrepareQuery
<1>2. ASSUME NEW g \in Goroutines, NEW s \in Stmts, Prepare(g, s) PROVE IInv'
  BY <1>2 DEF Prepare
<1>3. ASSUME NEW g \in Goroutines, NEW s \in Stmts, NEW x \in Contexts, Query(g, s, x)
      PROVE  IInv'
  <2>1. ClosedState'
    BY <1>3 DEF Query, BindReset, Usable, InClose
  <2>2. FlagAimed'
    BY <1>3 DEF Query, BindReset, Usable, InClose
  <2>3. QED
    BY <1>3, <2>1, <2>2 DEF Query, BindReset, Usable, InClose
<1>4. ASSUME NEW s \in Stmts, Cancel(s) PROVE IInv'
  BY <1>4 DEF Cancel
<1>5. ASSUME NEW s \in Stmts, Drop(s) PROVE IInv'
  BY <1>5 DEF Drop
<1>6. ASSUME NEW g \in Goroutines, NEW s \in Stmts, NEW x \in Contexts, Exec(g, s, x)
      PROVE  IInv'
  <2>1. Mutexes'
    BY <1>6 DEF Exec, Overlaps, Running, Usable, InClose, Goto
  <2>2. ExecAlone'
    BY <1>6 DEF Exec, Overlaps, Running, Usable, InClose, Goto
  <2>3. OthersShared'
    BY <1>6 DEF Exec, Overlaps, Running, Usable, InClose, Goto
  <2>4. FlagAimed'
    BY <1>6 DEF Exec, Overlaps, Running, Usable, InClose, Goto
  <2>5. QED
    BY <1>6, <2>1, <2>2, <2>3, <2>4 DEF Exec, Overlaps, Running, Usable,
           InClose, Goto
<1>7. ASSUME NEW g \in Goroutines, NEW s \in Stmts, Next_(g, s) PROVE IInv'
  BY <1>7 DEF Next_, Goto, Usable
<1>8. ASSUME NEW g \in Goroutines, NEW s \in Stmts, RowsClose(g, s) PROVE IInv'
  BY <1>8 DEF RowsClose, Goto, Usable, InExec
<1>9. ASSUME NEW g \in Procs, NEW s \in Stmts, StmtClose(g, s) PROVE IInv'
  BY <1>9 DEF StmtClose, Goto, InExec
<1>10. ASSUME NEW g \in Goroutines, ConnClose(g) PROVE IInv'
  <2>1. Mutexes'
    BY <1>10 DEF ConnClose, Goto
  <2>2. Handle'
    BY <1>10 DEF ConnClose, Goto
  <2>3. QED
    BY <1>10, <2>1, <2>2 DEF ConnClose, Goto
<1>11. ASSUME NEW g \in Goroutines, AutoCommit(g) PROVE IInv'
  BY <1>11 DEF AutoCommit
<1>12. ASSUME NEW g \in Procs, WorkerBind(g) PROVE IInv'
  <2>1. ClosedState'
    BY <1>12 DEF WorkerBind, BindReset
  <2>2. FlagAimed'
    BY <1>12 DEF WorkerBind, BindReset
  <2>3. QED
    BY <1>12, <2>1, <2>2 DEF WorkerBind, BindReset
<1>13. ASSUME NEW g \in Procs, WorkerBindError(g) PROVE IInv'
  <2>1. UNCHANGED <<sqliteVars, stmtVars, dc, pc, on, res, ret, shared, crashed>>
    BY <1>13 DEF WorkerBindError
  <2>2. CallShape'
    BY <1>13, <2>1 DEF WorkerBindError
  <2>3. ClosedState' /\ OthersShared' /\ FlagAimed'
    BY <1>13, <2>1 DEF WorkerBindError
  <2>4. FailuresAreReset' /\ InterruptIsolated'
    BY <1>13, <2>1 DEF WorkerBindError, ErrorKept
  <2>5. Mutexes' /\ ExecAlone' /\ Handle' /\ CancelSeen' /\ NoCrash' /\ ClosedIsFinalized'
    BY <2>1
  <2>6. QED
    BY <2>2, <2>3, <2>4, <2>5
<1>14. ASSUME NEW g \in Procs, WorkerStepNull(g) PROVE IInv'
  BY <1>14 DEF WorkerStepNull
<1>15. ASSUME NEW g \in Procs, WorkerLastError(g) PROVE IInv'
  <2>1. UNCHANGED <<sqliteVars, stmtVars, dc, pc, on, res, ret, shared, crashed>>
    BY <1>15 DEF WorkerLastError
  <2>2. CallShape'
    BY <1>15, <2>1 DEF WorkerLastError
  <2>3. ClosedState' /\ OthersShared' /\ FlagAimed'
    BY <1>15, <2>1 DEF WorkerLastError
  <2>4. FailuresAreReset' /\ InterruptIsolated'
    BY <1>15, <2>1 DEF WorkerLastError
  <2>5. Mutexes' /\ ExecAlone' /\ Handle' /\ CancelSeen' /\ NoCrash' /\ ClosedIsFinalized'
    BY <2>1
  <2>6. QED
    BY <2>2, <2>3, <2>4, <2>5
<1>16. ASSUME NEW g \in Procs, WorkerStep(g) PROVE IInv'
  <2>1. ClosedState'
    BY <1>16 DEF WorkerStep, Running
  <2>2. OthersShared'
    BY <1>16 DEF WorkerStep, Running
  <2>3. FlagAimed'
    BY <1>16 DEF WorkerStep, Running
  <2>4. QED
    BY <1>16, <2>1, <2>2, <2>3 DEF WorkerStep, Running
<1>17. ASSUME NEW g \in Procs, WorkerReset(g) PROVE IInv'
  BY <1>17 DEF WorkerReset
<1>18. ASSUME NEW g \in Procs, WorkerReturn(g) PROVE IInv'
  BY <1>18 DEF WorkerReturn
<1>19. ASSUME NEW g \in Procs, NEW r \in {"row", "done", "interrupt", "error"}, WorkerStepEnd(g, r)
      PROVE  IInv'
  <2>1. FailuresAreReset'
    BY <1>19 DEF WorkerStepEnd, Running
  <2>2. InterruptIsolated'
    BY <1>19 DEF WorkerStepEnd, Running
  <2>3. QED
    BY <1>19, <2>1, <2>2 DEF WorkerStepEnd, Running
<1>20. ASSUME NEW g \in Procs, NextEOF(g) PROVE IInv'
  BY <1>20 DEF NextEOF, NextReturn, SentError, Return
<1>21. ASSUME NEW g \in Procs, NextBegin(g) PROVE IInv'
  <2>1. Mutexes'
    BY <1>21 DEF NextBegin, Overlaps, Running, Goto
  <2>2. OthersShared'
    BY <1>21 DEF NextBegin, Overlaps, Running, Goto
  <2>3. QED
    BY <1>21, <2>1, <2>2 DEF NextBegin, Overlaps, Running, Goto
<1>22. ASSUME NEW g \in Procs, RowsCloseNothing(g) PROVE IInv'
  BY <1>22 DEF RowsCloseNothing, Return
<1>23. ASSUME NEW g \in Procs, RowsCloseMark(g) PROVE IInv'
  <2>1. Mutexes'
    BY <1>23 DEF RowsCloseMark, Goto
  <2>2. ClosedState'
    BY <1>23 DEF RowsCloseMark, Goto
  <2>3. QED
    BY <1>23, <2>1, <2>2 DEF RowsCloseMark, Goto
<1>24. ASSUME NEW g \in Procs, StmtCloseNothing(g) PROVE IInv'
  BY <1>24 DEF StmtCloseNothing, Return
<1>25. ASSUME NEW g \in Procs, StmtCloseMark(g) PROVE IInv'
  <2>1. Mutexes'
    BY <1>25 DEF StmtCloseMark, Goto
  <2>2. ClosedState'
    BY <1>25 DEF StmtCloseMark, Goto
  <2>3. ClosedIsFinalized'
    BY <1>25 DEF StmtCloseMark, Goto
  <2>4. QED
    BY <1>25, <2>1, <2>2, <2>3 DEF StmtCloseMark, Goto
<1>26. ASSUME NEW g \in Procs, ExecReceive(g) PROVE IInv'
  BY <1>26 DEF ExecReceive, Receive, ExecReturn, SentError, ExecValue, Return
<1>27. ASSUME NEW g \in Procs, ExecCancelled(g) PROVE IInv'
  BY <1>27 DEF ExecCancelled, Goto
<1>28. ASSUME NEW g \in Procs, ExecFinishedAnyway(g) PROVE IInv'
  BY <1>28 DEF ExecFinishedAnyway, Receive, ExecReturn, SentError, ExecValue, Return
<1>29. ASSUME NEW g \in Procs, ExecDefault(g) PROVE IInv'
  BY <1>29 DEF ExecDefault, Goto
<1>30. ASSUME NEW g \in Procs, ExecInterrupt(g) PROVE IInv'
  <2>1. CancelSeen'
    BY <1>30 DEF ExecInterrupt, Goto
  <2>2. FlagAimed'
    BY <1>30 DEF ExecInterrupt, Goto
  <2>3. QED
    BY <1>30, <2>1, <2>2 DEF ExecInterrupt, Goto
<1>31. ASSUME NEW g \in Procs, ExecJoin(g) PROVE IInv'
  BY <1>31 DEF ExecJoin, Receive, ExecReturn, SentError, ExecValue, Return
<1>32. ASSUME NEW g \in Procs, NextReceive(g) PROVE IInv'
  BY <1>32 DEF NextReceive, Receive, NextReturn, SentError, NextValue, Return
<1>33. ASSUME NEW g \in Procs, NextCancelled(g) PROVE IInv'
  BY <1>33 DEF NextCancelled, Goto
<1>34. ASSUME NEW g \in Procs, NextFinishedAnyway(g) PROVE IInv'
  BY <1>34 DEF NextFinishedAnyway, Receive, NextReturn, SentError, Return
<1>35. ASSUME NEW g \in Procs, NextDefault(g) PROVE IInv'
  BY <1>35 DEF NextDefault, Goto
<1>36. ASSUME NEW g \in Procs, NextInterrupt(g) PROVE IInv'
  <2>1. CancelSeen'
    BY <1>36 DEF NextInterrupt, Goto
  <2>2. FlagAimed'
    BY <1>36 DEF NextInterrupt, Goto
  <2>3. QED
    BY <1>36, <2>1, <2>2 DEF NextInterrupt, Goto
<1>37. ASSUME NEW g \in Procs, NextJoin(g) PROVE IInv'
  BY <1>37 DEF NextJoin, Receive, NextReturn, SentError, Return
<1>38. ASSUME NEW g \in Procs, RowsCloseReset(g) PROVE IInv'
  <2>1. Mutexes'
    BY <1>38 DEF RowsCloseReset, Return
  <2>2. FailuresAreReset'
    BY <1>38 DEF RowsCloseReset, Return
  <2>3. QED
    BY <1>38, <2>1, <2>2 DEF RowsCloseReset, EndOther, Return
<1>39. ASSUME NEW g \in Procs, StmtCloseCheck(g) PROVE IInv'
  <2>1. Mutexes'
    BY <1>39 DEF StmtCloseCheck, Return, Goto
  <2>2. ClosedState'
    BY <1>39 DEF StmtCloseCheck, Return, Goto
  <2>3. ClosedIsFinalized'
    BY <1>39 DEF StmtCloseCheck, Return, Goto
  <2>4. QED
    BY <1>39, <2>1, <2>2, <2>3 DEF StmtCloseCheck, Return, Goto
<1>40. ASSUME NEW g \in Procs, StmtCloseFinalize(g) PROVE IInv'
  <2>1. /\ pc[g] = "s.finalize" /\ on[g] \in Stmts
        /\ sq' = [sq EXCEPT ![on[g]] = "finalized"]
        /\ mu' = [mu EXCEPT ![on[g]] = None]
        /\ pc' = [pc EXCEPT ![g] = "idle"]
        /\ on' = [on EXCEPT ![g] = None]
        /\ res' = [res EXCEPT ![g] = "none"]
        /\ UNCHANGED <<db, intr, closed, rows, cls, ctx, dropped, dc, wk, shared, crashed>>
    BY <1>40 DEF StmtCloseFinalize, EndOther, Return
  <2>2. Mutexes'
    BY <2>1
  <2>3. ClosedState'
    BY <2>1
  <2>4. Handle'
    <3>1. conn' = "open" <=> conn = "open"
      BY <1>40 DEF StmtCloseFinalize
    <3>2. QED
      BY <2>1, <3>1
  <2>5. ClosedIsFinalized'
    BY <2>1
  <2>6. CallShape' /\ ExecAlone'
    BY <2>1
  <2>7. FailuresAreReset' /\ InterruptIsolated'
    BY <2>1
  <2>8. CancelSeen' /\ OthersShared' /\ FlagAimed' /\ NoCrash'
    BY <2>1
  <2>9. QED
    BY <2>2, <2>3, <2>4, <2>5, <2>6, <2>7, <2>8
<1>41. ASSUME NEW g \in Procs, ConnCloseClear(g) PROVE IInv'
  <2>1. /\ pc[g] = "c.clear" /\ db' = "nil" /\ dc' = None
        /\ pc' = [pc EXCEPT ![g] = "idle"]
        /\ on' = [on EXCEPT ![g] = None]
        /\ res' = [res EXCEPT ![g] = "none"]
        /\ UNCHANGED <<conn, intr, sq, stmtVars, wk, shared, errVars>>
    BY <1>41 DEF ConnCloseClear, Return
  <2>2. Mutexes'
    BY <2>1
  <2>3. Handle'
    BY <2>1
  <2>4. ClosedIsFinalized' /\ ClosedState'
    BY <2>1
  <2>5. CallShape' /\ ExecAlone'
    BY <2>1
  <2>6. FailuresAreReset' /\ InterruptIsolated'
    BY <2>1
  <2>7. CancelSeen' /\ OthersShared' /\ FlagAimed' /\ NoCrash'
    BY <2>1
  <2>8. QED
    BY <2>2, <2>3, <2>4, <2>5, <2>6, <2>7
<1>42. CASE UNCHANGED vars
  BY <1>42 DEF vars
<1> HIDE DEF TypeOK, IInv
<1>43. QED
  BY <1>1, <1>2, <1>3, <1>4, <1>5, <1>6, <1>7, <1>8, <1>9, <1>10, <1>11,
     <1>12, <1>13, <1>14, <1>15, <1>16, <1>17, <1>18, <1>19, <1>20, <1>21,
     <1>22, <1>23, <1>24, <1>25, <1>26, <1>27, <1>28, <1>29, <1>30, <1>31,
     <1>32, <1>33, <1>34, <1>35, <1>36, <1>37, <1>38, <1>39, <1>40, <1>41,
     <1>42 DEF Next, Begin, Worker,
     Lock, Continue

\* The inductive invariant holds in every reachable state.
THEOREM Invariant == Spec => []IInv
BY InitInvariant, InvariantStep, PTL DEF Spec

-----------------------------------------------------------------------------
(* The properties. *)

\* Every state of the specification is of its type.
THEOREM TypeCorrect == Spec => []TypeOK
BY Invariant, PTL DEF IInv

\* A statement inside a SQLite call is one that was prepared and not finalized:
\* the worker of an exec has it because the program does not use what it closed.
LEMMA UserNotFinalized ==
  ASSUME ~UseClosed, IInv, NEW g \in Procs, InSqlite(g) \/ pc[g] = "r.reset"
  PROVE  on[g] \in Stmts /\ sq[on[g]] \notin {"none", "finalized"}
<1> USE DEF IInv, TypeOK
<1>1. on[g] \in Stmts /\ sq[on[g]] # "none"
  BY DEF CallShape, InSqlite, WorkerPcs, ExecPcs, NextPcs
<1>2. ~closed[on[g]]
  BY DEF CallShape, ClosedState, InSqlite, WorkerPcs, ExecPcs, NextPcs
<1>3. QED
  BY <1>1, <1>2 DEF ClosedState

\* The invariant keeps SQLite objects alive while they are used.
LEMMA InvariantAlive == ASSUME ~UseClosed PROVE IInv => ObjectsAlive
<1> SUFFICES ASSUME IInv PROVE ObjectsAlive
  OBVIOUS
<1> USE DEF IInv, TypeOK
<1>1. ~crashed
  BY DEF NoCrash
<1>2. ASSUME NEW g \in Procs, InSqlite(g) \/ pc[g] \in {"r.reset", "s.finalize"}
      PROVE  on[g] \in Allocated
  <2>1. on[g] \in Stmts /\ sq[on[g]] \notin {"none", "finalized"}
    <3>1. CASE pc[g] = "s.finalize"
      BY <3>1 DEF CallShape, ClosedState
    <3>2. CASE InSqlite(g) \/ pc[g] = "r.reset"
      BY <3>2, UserNotFinalized
    <3>3. QED
      BY <1>2, <3>1, <3>2
  <2>2. QED
    BY <2>1 DEF Allocated
<1>3. ASSUME NEW g \in Procs,
             \/ pc[g] \in {"e.interrupt", "n.interrupt"}
             \/ wk[g] \in {"bindError", "lastError"}
      PROVE  db = "ptr" /\ conn = "open"
  <2>1. db = "ptr" /\ dc = g
    BY <1>3 DEF CallShape, Handle, Mutexes, DcPcs, WorkerPcs, ExecPcs, NextPcs
  <2>2. \A h \in Procs : pc[h] # "c.clear"
    BY <1>3, <2>1 DEF CallShape, Mutexes, DcPcs, WorkerPcs, ExecPcs, NextPcs
  <2>3. QED
    BY <2>1, <2>2 DEF Handle
<1>4. QED
  BY <1>1, <1>2, <1>3 DEF ObjectsAlive

\* No freed statement, no NULL and no closed connection is handed to SQLite,
\* however the goroutines, their workers and the finalizer interleave, by a
\* program that does not use what it has closed.
THEOREM AlwaysAlive == ASSUME ~UseClosed PROVE Spec => []ObjectsAlive
BY Invariant, InvariantAlive, PTL

\* The mutexes are taken in one order, the connection's first, and whoever holds
\* s.mu goes on: no call waits for one that waits for it, and none for a worker
\* that is not there.
THEOREM NeverStuck == Spec => []NobodyStuck
<1>1. ASSUME IInv PROVE NobodyStuck
  <2>1. dc # None => pc[dc] # "idle"
    BY <1>1 DEF IInv, TypeOK, Mutexes, Procs, DcPcs, ExecPcs, NextPcs
  <2>2. ASSUME NEW g \in Procs, AtLock(g), mu[on[g]] # None
        PROVE  pc[mu[on[g]]] # "idle" /\ ~AtLock(mu[on[g]])
    <3>1. on[g] \in Stmts
      BY <1>1, <2>2 DEF IInv, TypeOK, CallShape, AtLock
    <3>2. mu[on[g]] \in Procs
      BY <1>1, <2>2, <3>1 DEF IInv, TypeOK
    <3>3. pc[mu[on[g]]] \in MuPcs
      BY <1>1, <3>1, <3>2 DEF IInv, Mutexes
    <3>4. QED
      BY <3>3 DEF MuPcs, NextPcs, AtLock
  <2>3. \A g \in Procs : wk[g] # "none" <=> pc[g] \in ExecPcs \cup (NextPcs \ {"n.lock"})
    BY <1>1 DEF IInv, CallShape, WorkerPcs
  <2>4. QED
    BY <2>1, <2>2, <2>3 DEF NobodyStuck
<1>2. QED
  BY <1>1, Invariant, PTL

\* Rows.Close, Stmt.Close and the finalizer never find a failed statement.
THEOREM AlwaysReset == Spec => []FailuresAreReset
BY Invariant, PTL DEF IInv

\* Closing a statement finalizes it while the connection is open.
THEOREM AlwaysFinalized == Spec => []ClosedIsFinalized
BY Invariant, PTL DEF IInv

\* A late sqlite3_interrupt aborts no statement that ran alone and was not
\* cancelled.
THEOREM AlwaysIsolated == Spec => []InterruptIsolated
BY Invariant, PTL DEF IInv

\* An exec ends in one of three actions of its own goroutine.
LEMMA ExecEnds ==
  ASSUME IInv, Next, NEW g \in Procs, pc[g] \in ExecPcs, pc'[g] = "idle"
  PROVE  ExecReceive(g) \/ ExecFinishedAnyway(g) \/ ExecJoin(g)
<1> USE DEF ExecPcs, IInv, TypeOK, Goto
<1>1. ASSUME Begin PROVE FALSE
  BY <1>1 DEF Begin, PrepareQuery, Prepare, Query, Exec, Next_, RowsClose,
              StmtClose, Cancel, Drop, ConnClose, AutoCommit, stmtVars, callVars, Procs
<1>2. ASSUME NEW h \in Procs, Worker(h) PROVE FALSE
  BY <1>2 DEF Worker, WorkerBind, WorkerBindError, WorkerStep, WorkerStepNull,
              WorkerStepEnd, WorkerLastError, WorkerReset, WorkerReturn, callVars
<1>3. ASSUME NEW h \in Procs, Lock(h) PROVE FALSE
  BY <1>3 DEF Lock, NextEOF, NextBegin, RowsCloseNothing, RowsCloseMark,
              StmtCloseNothing, StmtCloseMark, NextReturn, SentError, Return
<1>4. ASSUME NEW h \in Procs, Continue(h)
      PROVE  ExecReceive(g) \/ ExecFinishedAnyway(g) \/ ExecJoin(g)
  BY <1>4 DEF Continue, ExecReceive, ExecCancelled, ExecFinishedAnyway,
              ExecDefault, ExecInterrupt, ExecJoin, NextReceive, NextCancelled,
              NextFinishedAnyway, NextDefault, NextInterrupt, NextJoin,
              RowsCloseReset, StmtCloseCheck, StmtCloseFinalize,
              ConnCloseClear, ExecReturn, SentError, NextReturn, SentError, Return
<1>5. QED
  BY <1>1, <1>2, <1>3, <1>4 DEF Next

\* A Next that received its result ends in one action.
LEMMA NextEnds ==
  ASSUME IInv, Next, NEW g \in Procs, pc[g] = "n.select", pc'[g] = "idle"
  PROVE  NextReceive(g)
<1> USE DEF ExecPcs, IInv, TypeOK, Goto
<1>1. ASSUME Begin PROVE FALSE
  BY <1>1 DEF Begin, PrepareQuery, Prepare, Query, Exec, Next_, RowsClose,
              StmtClose, Cancel, Drop, ConnClose, AutoCommit, stmtVars, callVars, Procs
<1>2. ASSUME NEW h \in Procs, Worker(h) PROVE FALSE
  BY <1>2 DEF Worker, WorkerBind, WorkerBindError, WorkerStep, WorkerStepNull,
              WorkerStepEnd, WorkerLastError, WorkerReset, WorkerReturn, callVars
<1>3. ASSUME NEW h \in Procs, Lock(h) PROVE FALSE
  BY <1>3 DEF Lock, NextEOF, NextBegin, RowsCloseNothing, RowsCloseMark,
              StmtCloseNothing, StmtCloseMark, NextReturn, Return
<1>4. ASSUME NEW h \in Procs, Continue(h) PROVE NextReceive(g)
  BY <1>4 DEF Continue, ExecReceive, ExecCancelled, ExecFinishedAnyway,
              ExecDefault, ExecInterrupt, ExecJoin, NextReceive, NextCancelled,
              NextFinishedAnyway, NextDefault, NextInterrupt, NextJoin,
              RowsCloseReset, StmtCloseCheck, StmtCloseFinalize,
              ConnCloseClear, ExecReturn, NextReturn, Return
<1>5. QED
  BY <1>1, <1>2, <1>3, <1>4 DEF Next

\* A step that ends an exec or a Next ends it with what the statement did.
LEMMA TruthStep ==
  IInv /\ [Next]_vars => [\A g \in Procs : TellsTheTruth(g)]_vars
<1> SUFFICES ASSUME IInv, Next, NEW g \in Procs PROVE TellsTheTruth(g)
  OBVIOUS
<1>1. ASSUME pc[g] \in ExecPcs, pc'[g] = "idle"
      PROVE  /\ res[g] \in {"row", "done"} => ret' = "ok"
             /\ ret' = "ok" => res[g] \in {"row", "done"} \/ g \in lost
             /\ ret' = "cancelled" => ctx[on[g]] = "done"
  <2>1. CASE ExecReceive(g) \/ ExecFinishedAnyway(g)
    BY <2>1 DEF IInv, ErrorKept, Receive, ExecReceive, ExecFinishedAnyway,
                ExecReturn, Return, ExecValue
  <2>2. CASE ExecJoin(g)
    <3>1. ctx[on[g]] = "done"
      BY <2>2 DEF IInv, CancelSeen, ExecJoin
    <3>2. QED
      BY <2>2, <3>1 DEF IInv, ErrorKept, Receive, ExecJoin, ExecReturn, Return, ExecValue
  <2>3. QED
    BY <1>1, <2>1, <2>2, ExecEnds
<1>2. ASSUME pc[g] = "n.select", pc'[g] = "idle"
      PROVE  /\ ret' = "eof" <=> res[g] = "done"
             /\ res[g] = "row" => ret' = "row"
             /\ ret' = "row" => res[g] = "row" \/ g \in lost
  <2>1. NextReceive(g)
    BY <1>2, NextEnds
  <2>2. wk[g] = "send" /\ ret' = NextValue(g)
    BY <2>1 DEF Receive, NextReceive, NextReturn, Return
  <2>3. /\ err[g] = "none" => res[g] \in {"row", "done"} \/ g \in lost
        /\ res[g] = "row" => err[g] = "none"
    BY <2>2 DEF IInv, ErrorKept
  <2>4. QED
    BY <2>2, <2>3 DEF NextValue
<1>3. QED
  BY <1>1, <1>2 DEF TellsTheTruth

\* exec and Next report what the statement did, however the race of its
\* completion with the cancellation and the interrupt ends, unless SQLite
\* no longer had the error when lastError() asked for it.
THEOREM AlwaysTruthful == Spec => CallsTruthful
BY Invariant, TruthStep, PTL DEF Spec, CallsTruthful

-----------------------------------------------------------------------------
(* Lifecycle implements SqliteApi: whatever the goroutines, their workers and *)
(* the finalizer do, each step is a legal use of the SQLite C API or invisible *)
(* to it.                                                                     *)

Steady(s) == StateOf(s)' = StateOf(s) /\ Users(s)' = Users(s)

\* The driver lets one call at a time enter SQLite with a statement.
LEMMA OneUser ==
  ASSUME IInv, NEW s \in Stmts, NEW g \in Users(s), NEW h \in Users(s)
  PROVE  g = h
BY NamesAssumption
   DEF Users, InSqlite, IInv, TypeOK, CallShape, Mutexes, ExecAlone, Procs, DcPcs, MuPcs,
       WorkerPcs, ExecPcs, NextPcs, ClosePcs

\* A statement inside a SQLite call is not finalized.
LEMMA UserIsLive ==
  ASSUME ~UseClosed, IInv, NEW s \in Stmts, NEW g \in Users(s)
  PROVE  StateOf(s) = "live"
BY UserNotFinalized DEF Users, StateOf

-----------------------------------------------------------------------------
(* The four kinds of steps SqliteApi sees. *)

\* A step that leaves the SQLite objects alone is no step of the interface.
LEMMA Stutter ==
  ASSUME conn' = conn, \A s \in Stmts : Steady(s)
  PROVE  UNCHANGED Api!vars
BY DEF Api!vars, Steady

\* A worker or call that goes into SQLite is an Enter of the interface.
LEMMA Enters ==
  ASSUME conn' = conn, NEW s \in Stmts, NEW g \in Procs,
         StateOf(s) = "live", StateOf(s)' = "live",
         Users(s) = {}, Users(s)' = {g}, \A t \in Stmts \ {s} : Steady(t)
  PROVE  Api!Next
<1>1. Api!Enter(g, s)
  BY DEF Api!Enter, Steady
<1>2. QED
  BY <1>1 DEF Api!Next

\* One that comes back is a Leave.
LEMMA Leaves ==
  ASSUME conn' = conn, NEW s \in Stmts, NEW g \in Procs,
         StateOf(s) = "live", StateOf(s)' = "live",
         Users(s) = {g}, Users(s)' = {}, \A t \in Stmts \ {s} : Steady(t)
  PROVE  Api!Next
<1>1. Api!Leave(g, s)
  BY DEF Api!Leave, Steady
<1>2. QED
  BY <1>1 DEF Api!Next


-----------------------------------------------------------------------------
\* A step SqliteApi allows, or does not see.
Legal == Api!Next \/ UNCHANGED Api!vars

\* Initial states map to initial states.
LEMMA InitRefines == Init => Api!Init
BY NamesAssumption DEF Init, Api!Init, StateOf, Users

\* Every step maps to a step of the interface or to none.
LEMMA StepRefines ==
  ASSUME ~UseClosed PROVE IInv /\ [Next]_vars => [Api!Next]_(Api!vars)
<1> SUFFICES ASSUME IInv, [Next]_vars PROVE Legal
  BY DEF Legal
<1> USE NamesAssumption
        DEF TypeOK, Procs, InSqlite, ExecPcs, NextPcs, ClosePcs, DcPcs, MuPcs, WorkerPcs,
            sqliteVars, stmtVars, callVars, errVars
<1>1. ASSUME NEW g \in Goroutines, NEW s \in Stmts, NEW c \in BOOLEAN, NEW x \in Contexts, PrepareQuery(g, s, c, x)
      PROVE  Legal
  <2>1. conn = "open" /\ conn' = conn
    BY <1>1 DEF IInv, Handle, Mutexes, PrepareQuery
  <2>2. StateOf(s) = "none" /\ StateOf(s)' = "live" /\ \A t \in Stmts \ {s} : Steady(t)
    BY <1>1 DEF IInv, Steady, StateOf, Users, PrepareQuery
  <2>3. Users(s)' = Users(s)
    BY <1>1 DEF Users, PrepareQuery
  <2>4. Api!Prepare(s)
    BY <2>1, <2>2, <2>3 DEF Api!Prepare, Steady
  <2>5. QED
    BY <2>4 DEF Api!Next, Legal
<1>2. ASSUME NEW g \in Goroutines, NEW s \in Stmts, Prepare(g, s) PROVE Legal
  <2>1. conn = "open" /\ conn' = conn
    BY <1>2 DEF IInv, Handle, Mutexes, Prepare
  <2>2. StateOf(s) = "none" /\ StateOf(s)' = "live" /\ \A t \in Stmts \ {s} : Steady(t)
    BY <1>2 DEF IInv, Steady, StateOf, Users, Prepare
  <2>3. Users(s)' = Users(s)
    BY <1>2 DEF Users, Prepare
  <2>4. Api!Prepare(s)
    BY <2>1, <2>2, <2>3 DEF Api!Prepare, Steady
  <2>5. QED
    BY <2>4 DEF Api!Next, Legal
<1>3. ASSUME NEW g \in Goroutines, NEW s \in Stmts, NEW x \in Contexts, Query(g, s, x)
      PROVE  Legal
  <2>1. conn' = conn /\ \A t \in Stmts : Steady(t)
    BY <1>3 DEF IInv, CallShape, ClosedState, Steady, StateOf, Users, Query,
           BindReset, Usable, InClose
  <2>2. QED
    BY <2>1, Stutter DEF Legal
<1>4. ASSUME NEW s \in Stmts, Cancel(s) PROVE Legal
  <2>1. conn' = conn /\ \A t \in Stmts : Steady(t)
    BY <1>4 DEF IInv, CallShape, ClosedState, Steady, StateOf, Users, Cancel
  <2>2. QED
    BY <2>1, Stutter DEF Legal
<1>5. ASSUME NEW s \in Stmts, Drop(s) PROVE Legal
  <2>1. conn' = conn /\ \A t \in Stmts : Steady(t)
    BY <1>5 DEF IInv, CallShape, ClosedState, Steady, StateOf, Users, Drop
  <2>2. QED
    BY <2>1, Stutter DEF Legal
<1>6. ASSUME NEW g \in Goroutines, NEW s \in Stmts, NEW x \in Contexts, Exec(g, s, x)
      PROVE  Legal
  <2>1. conn' = conn /\ \A t \in Stmts : Steady(t)
    BY <1>6 DEF IInv, CallShape, ClosedState, Steady, StateOf, Users, Exec,
           Overlaps, Running, Usable, InClose, Goto
  <2>2. QED
    BY <2>1, Stutter DEF Legal
<1>7. ASSUME NEW g \in Goroutines, NEW s \in Stmts, Next_(g, s) PROVE Legal
  <2>1. conn' = conn /\ \A t \in Stmts : Steady(t)
    BY <1>7 DEF IInv, CallShape, ClosedState, Steady, StateOf, Users, Next_,
           Goto, Usable
  <2>2. QED
    BY <2>1, Stutter DEF Legal
<1>8. ASSUME NEW g \in Goroutines, NEW s \in Stmts, RowsClose(g, s) PROVE Legal
  <2>1. conn' = conn /\ \A t \in Stmts : Steady(t)
    BY <1>8 DEF IInv, CallShape, ClosedState, Steady, StateOf, Users,
           RowsClose, Goto, Usable, InExec
  <2>2. QED
    BY <2>1, Stutter DEF Legal
<1>9. ASSUME NEW g \in Procs, NEW s \in Stmts, StmtClose(g, s) PROVE Legal
  <2>1. conn' = conn /\ \A t \in Stmts : Steady(t)
    BY <1>9 DEF IInv, CallShape, ClosedState, Steady, StateOf, Users,
           StmtClose, Goto, InExec
  <2>2. QED
    BY <2>1, Stutter DEF Legal
<1>10. ASSUME NEW g \in Goroutines, ConnClose(g) PROVE Legal
  <2>1. conn = "open"
    BY <1>10 DEF IInv, Handle, Mutexes, ConnClose
  <2>2. \A t \in Stmts : Steady(t)
    BY <1>10 DEF Steady, StateOf, Users, ConnClose, Goto
  <2>3. Allocated = {t \in Stmts : StateOf(t) = "live"}
    BY DEF IInv, Allocated, StateOf
  <2>4. Api!CloseV2
    BY <1>10, <2>1, <2>2, <2>3 DEF Api!CloseV2, Api!Live, Steady, ConnClose
  <2>5. QED
    BY <2>4 DEF Api!Next, Legal
<1>11. ASSUME NEW g \in Goroutines, AutoCommit(g) PROVE Legal
  <2>1. conn' = conn /\ \A t \in Stmts : Steady(t)
    BY <1>11 DEF IInv, CallShape, ClosedState, Steady, StateOf, Users, AutoCommit
  <2>2. QED
    BY <2>1, Stutter DEF Legal
<1>12. ASSUME NEW g \in Procs, WorkerBind(g) PROVE Legal
  <2>1. PICK s \in Stmts : s = on[g]
    BY <1>12 DEF IInv, CallShape, WorkerBind
  <2>2. sq[s] \notin {"none", "finalized"}
    BY <1>12, <2>1 DEF IInv, CallShape, ClosedState, WorkerBind
  <2>3. Users(s) = {}
    BY <1>12, <2>1 DEF Users, IInv, CallShape, Mutexes, ExecAlone, WorkerBind
  <2>4. StateOf(s) = "live" /\ StateOf(s)' = "live"
    BY <1>12, <2>1, <2>2 DEF StateOf, IInv, WorkerBind, BindReset
  <2>5. conn' = conn /\ \A t \in Stmts \ {s} : Steady(t)
    BY <1>12, <2>1 DEF IInv, Steady, StateOf, Users, WorkerBind, BindReset
  <2>6. Users(s)' = {g}
    BY <1>12, <2>1, <2>3 DEF IInv, Users, WorkerBind
  <2>7. QED
    BY <2>3, <2>4, <2>5, <2>6, Enters DEF Legal
<1>13. ASSUME NEW g \in Procs, WorkerBindError(g) PROVE Legal
  <2>1. PICK s \in Stmts : s = on[g]
    BY <1>13 DEF IInv, CallShape, WorkerPcs, WorkerBindError
  <2>2. CASE wk' = [wk EXCEPT ![g] = "return"]
    <3>1. Users(s) = {g}
      <4>1. g \in Users(s)
        BY <1>13, <2>1 DEF Users, WorkerBindError
      <4>2. QED
        BY <4>1, OneUser
    <3>2. StateOf(s) = "live"
      BY <3>1, UserIsLive
    <3>3. StateOf(s)' = "live"
      BY <1>13, <2>1, <2>2, <3>2 DEF StateOf, IInv, CallShape, WorkerBindError
    <3>4. conn' = conn /\ \A t \in Stmts \ {s} : Steady(t)
      BY <1>13, <2>1, <2>2 DEF Steady, StateOf, Users, IInv, CallShape, WorkerBindError
    <3>5. Users(s)' = {}
      BY <1>13, <2>1, <2>2, <3>1 DEF Users, IInv, CallShape, WorkerBindError
    <3>6. QED
      BY <3>1, <3>2, <3>3, <3>4, <3>5, Leaves DEF Legal
  <2>3. CASE wk' = [wk EXCEPT ![g] = "step"]
    <3>1. conn' = conn /\ \A t \in Stmts : Steady(t)
      BY <1>13, <2>1, <2>3 DEF IInv, CallShape, Steady, StateOf, Users, WorkerBindError
    <3>2. QED
      BY <3>1, Stutter DEF Legal
  <2>4. QED
    BY <1>13, <2>2, <2>3 DEF WorkerBindError
<1>14. ASSUME NEW g \in Procs, WorkerStepNull(g) PROVE Legal
  <2>1. on[g] \in Stmts /\ sq[on[g]] # "finalized"
    BY <1>14, UserNotFinalized DEF WorkerStepNull
  <2>2. QED
    BY <1>14, <2>1 DEF WorkerStepNull
<1>15. ASSUME NEW g \in Procs, WorkerLastError(g) PROVE Legal
  <2>1. PICK s \in Stmts : s = on[g]
    BY <1>15 DEF IInv, CallShape, WorkerPcs, WorkerLastError
  <2>2. CASE wk' = [wk EXCEPT ![g] = "return"]
    <3>1. Users(s) = {g}
      <4>1. g \in Users(s)
        BY <1>15, <2>1 DEF Users, WorkerLastError
      <4>2. QED
        BY <4>1, OneUser
    <3>2. StateOf(s) = "live"
      BY <3>1, UserIsLive
    <3>3. StateOf(s)' = "live"
      BY <1>15, <2>1, <2>2, <3>2 DEF StateOf, IInv, CallShape, WorkerLastError
    <3>4. conn' = conn /\ \A t \in Stmts \ {s} : Steady(t)
      BY <1>15, <2>1, <2>2 DEF Steady, StateOf, Users, IInv, CallShape, WorkerLastError
    <3>5. Users(s)' = {}
      BY <1>15, <2>1, <2>2, <3>1 DEF Users, IInv, CallShape, WorkerLastError
    <3>6. QED
      BY <3>1, <3>2, <3>3, <3>4, <3>5, Leaves DEF Legal
  <2>3. CASE wk' = [wk EXCEPT ![g] = "reset"]
    <3>1. conn' = conn /\ \A t \in Stmts : Steady(t)
      BY <1>15, <2>1, <2>3 DEF IInv, CallShape, Steady, StateOf, Users, WorkerLastError
    <3>2. QED
      BY <3>1, Stutter DEF Legal
  <2>4. QED
    BY <1>15, <2>2, <2>3 DEF WorkerLastError
<1>16. ASSUME NEW g \in Procs, WorkerStep(g) PROVE Legal
  <2>1. conn' = conn /\ \A t \in Stmts : Steady(t)
    BY <1>16 DEF IInv, CallShape, ClosedState, Steady, StateOf, Users,
           WorkerStep, Running
  <2>2. QED
    BY <2>1, Stutter DEF Legal
<1>17. ASSUME NEW g \in Procs, WorkerReset(g) PROVE Legal
  <2>1. PICK s \in Stmts : s = on[g]
    BY <1>17 DEF IInv, CallShape, WorkerPcs, WorkerReset
  <2>2. CASE wk' = [wk EXCEPT ![g] = "return"]
    <3>1. Users(s) = {g}
      <4>1. g \in Users(s)
        BY <1>17, <2>1 DEF Users, WorkerReset
      <4>2. QED
        BY <4>1, OneUser
    <3>2. StateOf(s) = "live"
      BY <3>1, UserIsLive
    <3>3. StateOf(s)' = "live"
      BY <1>17, <2>1, <2>2, <3>2 DEF StateOf, IInv, CallShape, WorkerReset
    <3>4. conn' = conn /\ \A t \in Stmts \ {s} : Steady(t)
      BY <1>17, <2>1, <2>2 DEF Steady, StateOf, Users, IInv, CallShape, WorkerReset
    <3>5. Users(s)' = {}
      BY <1>17, <2>1, <2>2, <3>1 DEF Users, IInv, CallShape, WorkerReset
    <3>6. QED
      BY <3>1, <3>2, <3>3, <3>4, <3>5, Leaves DEF Legal
  <2>3. CASE wk' = [wk EXCEPT ![g] = "lastError"]
    <3>1. conn' = conn /\ \A t \in Stmts : Steady(t)
      BY <1>17, <2>1, <2>3 DEF IInv, CallShape, ClosedState, Steady, StateOf, Users, WorkerReset
    <3>2. QED
      BY <3>1, Stutter DEF Legal
  <2>4. QED
    BY <1>17, <2>2, <2>3 DEF WorkerReset
<1>18. ASSUME NEW g \in Procs, WorkerReturn(g) PROVE Legal
  <2>1. conn' = conn /\ \A t \in Stmts : Steady(t)
    BY <1>18 DEF IInv, CallShape, ClosedState, Steady, StateOf, Users,
           WorkerReturn
  <2>2. QED
    BY <2>1, Stutter DEF Legal
<1>19. ASSUME NEW g \in Procs, NEW r \in {"row", "done", "interrupt", "error"}, WorkerStepEnd(g, r)
      PROVE  Legal
  <2>1. PICK s \in Stmts : s = on[g]
    BY <1>19 DEF IInv, CallShape, WorkerStepEnd
  <2>2. CASE r \in {"row", "done"}
    <3>1. Users(s) = {g}
      <4>1. g \in Users(s)
        BY <1>19, <2>1 DEF Users, WorkerStepEnd
      <4>2. QED
        BY <4>1, OneUser
    <3>2. /\ wk' = [wk EXCEPT ![g] = "return"]
          /\ sq' = [sq EXCEPT ![s] = IF r = "row" THEN "run" ELSE "ready"]
          /\ UNCHANGED <<conn, on, pc>>
      BY <1>19, <2>1, <2>2 DEF WorkerStepEnd
    <3>3. StateOf(s) = "live" /\ StateOf(s)' = "live"
      BY <2>1, <3>1, <3>2, UserIsLive DEF StateOf, IInv
    <3>4. conn' = conn /\ \A t \in Stmts \ {s} : Steady(t)
      BY <2>1, <3>2 DEF Steady, StateOf, Users, IInv
    <3>5. Users(s)' = {}
      BY <1>19, <2>1, <3>1, <3>2 DEF Users, IInv, CallShape, WorkerStepEnd
    <3>6. QED
      BY <3>1, <3>3, <3>4, <3>5, Leaves DEF Legal
  <2>3. CASE r \notin {"row", "done"}
    <3>1. conn' = conn /\ \A t \in Stmts : Steady(t)
      BY <1>19, <2>1, <2>3 DEF IInv, CallShape, ClosedState, Steady, StateOf, Users, WorkerStepEnd, Running
    <3>2. QED
      BY <3>1, Stutter DEF Legal
  <2>4. QED
    BY <2>2, <2>3
<1>20. ASSUME NEW g \in Procs, NextEOF(g) PROVE Legal
  <2>1. conn' = conn /\ \A t \in Stmts : Steady(t)
    BY <1>20 DEF IInv, CallShape, ClosedState, Steady, StateOf, Users,
           NextEOF, NextReturn, SentError, Return
  <2>2. QED
    BY <2>1, Stutter DEF Legal
<1>21. ASSUME NEW g \in Procs, NextBegin(g) PROVE Legal
  <2>1. PICK s \in Stmts : s = on[g]
    BY <1>21 DEF IInv, CallShape, NextBegin
  <2>2. CASE wk' = [wk EXCEPT ![g] = "step"]
    <3>1. Users(s) = {}
      BY <1>21, <2>1, <2>2 DEF Users, IInv, CallShape, Mutexes, ExecAlone, NextBegin
    <3>2. StateOf(s) = "live" /\ StateOf(s)' = "live"
      BY <1>21, <2>1, <2>2 DEF StateOf, IInv, CallShape, ClosedState, NextBegin, Overlaps, Running, Goto
    <3>3. conn' = conn /\ \A t \in Stmts \ {s} : Steady(t)
      BY <1>21, <2>1, <2>2 DEF IInv, Steady, StateOf, Users, NextBegin, Overlaps, Running, Goto
    <3>4. Users(s)' = {g}
      BY <1>21, <2>1, <2>2, <3>1 DEF IInv, Users, NextBegin, Overlaps, Running, Goto
    <3>5. QED
      BY <3>1, <3>2, <3>3, <3>4, Enters DEF Legal
  <2>3. QED
    BY <1>21, <2>2 DEF NextBegin
<1>22. ASSUME NEW g \in Procs, RowsCloseNothing(g) PROVE Legal
  <2>1. conn' = conn /\ \A t \in Stmts : Steady(t)
    BY <1>22 DEF IInv, CallShape, ClosedState, Steady, StateOf, Users,
           RowsCloseNothing, Return
  <2>2. QED
    BY <2>1, Stutter DEF Legal
<1>23. ASSUME NEW g \in Procs, RowsCloseMark(g) PROVE Legal
  <2>1. PICK s \in Stmts : s = on[g]
    BY <1>23 DEF IInv, CallShape, RowsCloseMark
  <2>2. CASE ~cls[s]
    <3>1. Users(s) = {}
      BY <1>23, <2>1, <2>2 DEF Users, IInv, CallShape, Mutexes, ExecAlone, RowsCloseMark
    <3>2. StateOf(s) = "live" /\ StateOf(s)' = "live"
      BY <1>23, <2>1, <2>2 DEF StateOf, IInv, CallShape, ClosedState, RowsCloseMark, Goto
    <3>3. conn' = conn /\ \A t \in Stmts \ {s} : Steady(t)
      BY <1>23, <2>1, <2>2 DEF IInv, Steady, StateOf, Users, RowsCloseMark, Goto
    <3>4. Users(s)' = {g}
      BY <1>23, <2>1, <2>2, <3>1 DEF IInv, Users, RowsCloseMark, Goto
    <3>5. QED
      BY <3>1, <3>2, <3>3, <3>4, Enters DEF Legal
  <2>3. CASE cls[s]
    <3>1. conn' = conn /\ \A t \in Stmts : Steady(t)
      BY <1>23, <2>1, <2>3 DEF IInv, CallShape, ClosedState, Steady, StateOf, Users, RowsCloseMark, Goto
    <3>2. QED
      BY <3>1, Stutter DEF Legal
  <2>4. QED
    BY <1>23, <2>1, <2>2, <2>3 DEF RowsCloseMark
<1>24. ASSUME NEW g \in Procs, StmtCloseNothing(g) PROVE Legal
  <2>1. conn' = conn /\ \A t \in Stmts : Steady(t)
    BY <1>24 DEF IInv, CallShape, ClosedState, Steady, StateOf, Users,
           StmtCloseNothing, Return
  <2>2. QED
    BY <2>1, Stutter DEF Legal
<1>25. ASSUME NEW g \in Procs, StmtCloseMark(g) PROVE Legal
  <2>1. conn' = conn /\ \A t \in Stmts : Steady(t)
    BY <1>25 DEF IInv, CallShape, ClosedState, Steady, StateOf, Users,
           StmtCloseMark, Goto
  <2>2. QED
    BY <2>1, Stutter DEF Legal
<1>26. ASSUME NEW g \in Procs, ExecReceive(g) PROVE Legal
  <2>1. conn' = conn /\ \A t \in Stmts : Steady(t)
    BY <1>26 DEF IInv, CallShape, ClosedState, Steady, StateOf, Users,
           ExecReceive, Receive, ExecReturn, SentError, ExecValue, Return
  <2>2. QED
    BY <2>1, Stutter DEF Legal
<1>27. ASSUME NEW g \in Procs, ExecCancelled(g) PROVE Legal
  <2>1. conn' = conn /\ \A t \in Stmts : Steady(t)
    BY <1>27 DEF IInv, CallShape, ClosedState, Steady, StateOf, Users,
           ExecCancelled, Goto
  <2>2. QED
    BY <2>1, Stutter DEF Legal
<1>28. ASSUME NEW g \in Procs, ExecFinishedAnyway(g) PROVE Legal
  <2>1. conn' = conn /\ \A t \in Stmts : Steady(t)
    BY <1>28 DEF IInv, CallShape, ClosedState, Steady, StateOf, Users,
           ExecFinishedAnyway, Receive, ExecReturn, SentError, ExecValue, Return
  <2>2. QED
    BY <2>1, Stutter DEF Legal
<1>29. ASSUME NEW g \in Procs, ExecDefault(g) PROVE Legal
  <2>1. conn' = conn /\ \A t \in Stmts : Steady(t)
    BY <1>29 DEF IInv, CallShape, ClosedState, Steady, StateOf, Users,
           ExecDefault, Goto
  <2>2. QED
    BY <2>1, Stutter DEF Legal
<1>30. ASSUME NEW g \in Procs, ExecInterrupt(g) PROVE Legal
  <2>1. conn' = conn /\ \A t \in Stmts : Steady(t)
    BY <1>30 DEF IInv, CallShape, ClosedState, Steady, StateOf, Users,
           ExecInterrupt, Goto
  <2>2. QED
    BY <2>1, Stutter DEF Legal
<1>31. ASSUME NEW g \in Procs, ExecJoin(g) PROVE Legal
  <2>1. conn' = conn /\ \A t \in Stmts : Steady(t)
    BY <1>31 DEF IInv, CallShape, ClosedState, Steady, StateOf, Users,
           ExecJoin, Receive, ExecReturn, SentError, ExecValue, Return
  <2>2. QED
    BY <2>1, Stutter DEF Legal
<1>32. ASSUME NEW g \in Procs, NextReceive(g) PROVE Legal
  <2>1. conn' = conn /\ \A t \in Stmts : Steady(t)
    BY <1>32 DEF IInv, CallShape, ClosedState, Steady, StateOf, Users,
           NextReceive, Receive, NextReturn, SentError, NextValue, Return
  <2>2. QED
    BY <2>1, Stutter DEF Legal
<1>33. ASSUME NEW g \in Procs, NextCancelled(g) PROVE Legal
  <2>1. conn' = conn /\ \A t \in Stmts : Steady(t)
    BY <1>33 DEF IInv, CallShape, ClosedState, Steady, StateOf, Users,
           NextCancelled, Goto
  <2>2. QED
    BY <2>1, Stutter DEF Legal
<1>34. ASSUME NEW g \in Procs, NextFinishedAnyway(g) PROVE Legal
  <2>1. conn' = conn /\ \A t \in Stmts : Steady(t)
    BY <1>34 DEF IInv, CallShape, ClosedState, Steady, StateOf, Users,
           NextFinishedAnyway, Receive, NextReturn, SentError, Return
  <2>2. QED
    BY <2>1, Stutter DEF Legal
<1>35. ASSUME NEW g \in Procs, NextDefault(g) PROVE Legal
  <2>1. conn' = conn /\ \A t \in Stmts : Steady(t)
    BY <1>35 DEF IInv, CallShape, ClosedState, Steady, StateOf, Users,
           NextDefault, Goto
  <2>2. QED
    BY <2>1, Stutter DEF Legal
<1>36. ASSUME NEW g \in Procs, NextInterrupt(g) PROVE Legal
  <2>1. conn' = conn /\ \A t \in Stmts : Steady(t)
    BY <1>36 DEF IInv, CallShape, ClosedState, Steady, StateOf, Users,
           NextInterrupt, Goto
  <2>2. QED
    BY <2>1, Stutter DEF Legal
<1>37. ASSUME NEW g \in Procs, NextJoin(g) PROVE Legal
  <2>1. conn' = conn /\ \A t \in Stmts : Steady(t)
    BY <1>37 DEF IInv, CallShape, ClosedState, Steady, StateOf, Users,
           NextJoin, Receive, NextReturn, SentError, Return
  <2>2. QED
    BY <2>1, Stutter DEF Legal
<1>38. ASSUME NEW g \in Procs, RowsCloseReset(g) PROVE Legal
  <2>1. PICK s \in Stmts : s = on[g]
    BY <1>38 DEF IInv, CallShape, RowsCloseReset
  <2>2. CASE TRUE
    <3>1. Users(s) = {g}
      <4>1. g \in Users(s)
        BY <1>38, <2>1 DEF Users, RowsCloseReset
      <4>2. QED
        BY <4>1, OneUser
    <3>2. StateOf(s) = "live" /\ StateOf(s)' = "live"
      BY <1>38, <2>1, <2>2 DEF StateOf, IInv, CallShape, ClosedState, RowsCloseReset, Return
    <3>3. conn' = conn /\ \A t \in Stmts \ {s} : Steady(t)
      BY <1>38, <2>1, <2>2 DEF Steady, StateOf, Users, IInv, CallShape, RowsCloseReset, Return
    <3>4. Users(s)' = {}
      BY <1>38, <2>1, <2>2, <3>1 DEF Users, IInv, CallShape, RowsCloseReset, Return
    <3>5. QED
      BY <3>1, <3>2, <3>3, <3>4, Leaves DEF Legal
  <2>3. QED
    BY <1>38, <2>2
<1>39. ASSUME NEW g \in Procs, StmtCloseCheck(g) PROVE Legal
  <2>1. conn' = conn /\ \A t \in Stmts : Steady(t)
    BY <1>39 DEF IInv, CallShape, ClosedState, Steady, StateOf, Users,
           StmtCloseCheck, Return, Goto
  <2>2. QED
    BY <2>1, Stutter DEF Legal
<1>40. ASSUME NEW g \in Procs, StmtCloseFinalize(g) PROVE Legal
  <2>1. PICK s \in Stmts : s = on[g]
    BY <1>40 DEF IInv, CallShape, StmtCloseFinalize
  <2>2. Users(s) = {}
    BY <1>40, <2>1 DEF Users, IInv, CallShape, Mutexes, ExecAlone, StmtCloseFinalize
  <2>3. StateOf(s) = "live" /\ StateOf(s)' = "finalized"
    BY <1>40, <2>1 DEF StateOf, IInv, CallShape, ClosedState, StmtCloseFinalize
  <2>4. Users(s)' = {} /\ \A t \in Stmts \ {s} : Steady(t)
    BY <1>40, <2>1, <2>2 DEF Steady, StateOf, Users, StmtCloseFinalize, Return
  <2>5. Allocated = {t \in Stmts : StateOf(t) = "live"}
    BY DEF IInv, Allocated, StateOf
  <2>6. Api!Finalize(s)
    BY <1>40, <2>1, <2>2, <2>3, <2>4, <2>5
       DEF Api!Finalize, Api!Live, Steady, StmtCloseFinalize
  <2>7. QED
    BY <2>6 DEF Api!Next, Legal
<1>41. ASSUME NEW g \in Procs, ConnCloseClear(g) PROVE Legal
  <2>1. conn' = conn /\ \A t \in Stmts : Steady(t)
    BY <1>41 DEF IInv, CallShape, ClosedState, Steady, StateOf, Users,
           ConnCloseClear, Return
  <2>2. QED
    BY <2>1, Stutter DEF Legal
<1>42. CASE UNCHANGED vars
  BY <1>42, Stutter DEF Legal, vars, Steady, StateOf, Users
<1> HIDE DEF TypeOK
<1>43. QED
  BY <1>1, <1>2, <1>3, <1>4, <1>5, <1>6, <1>7, <1>8, <1>9, <1>10, <1>11,
     <1>12, <1>13, <1>14, <1>15, <1>16, <1>17, <1>18, <1>19, <1>20, <1>21,
     <1>22, <1>23, <1>24, <1>25, <1>26, <1>27, <1>28, <1>29, <1>30, <1>31,
     <1>32, <1>33, <1>34, <1>35, <1>36, <1>37, <1>38, <1>39, <1>40, <1>41,
     <1>42 DEF Next, Begin, Worker,
     Lock, Continue

\* SQLiteConn, SQLiteStmt and SQLiteRows keep the calling contract of SQLite, for
\* every program that does not use what it has closed.
THEOREM Implements == ASSUME ~UseClosed PROVE Spec => ApiObeyed
BY Invariant, InitRefines, StepRefines, PTL DEF Spec, ApiObeyed, Api!Spec
=============================================================================
