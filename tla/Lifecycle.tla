------------------------------ MODULE Lifecycle ------------------------------
(***************************************************************************)
(* One SQLiteConn, its statements and their rows, used by several          *)
(* goroutines: SQLiteRows.Next and SQLiteStmt.exec with their worker       *)
(* goroutine, the result channel and the sqlite3_interrupt race;           *)
(* SQLiteRows.Close, SQLiteStmt.Close, SQLiteConn.Close; the finalizer     *)
(* goroutine of the Go runtime that closes statements nobody references.   *)
(*                                                                         *)
(* Atomicity.  A goroutine moves one shared access at a time.  c.mu only   *)
(* ever guards one access (dbConnOpen reads c.db, Close clears it), so its *)
(* critical sections are single steps.  s.mu is held across steps.  dc is  *)
(* the mutex of database/sql's driverConn: it serialises Prepare, Query,   *)
(* Exec, Next and Conn.Close.  Rows.Close and Stmt.Close are left outside  *)
(* of it, as the driver's own locks are there to make them safe.           *)
(***************************************************************************)
EXTENDS Naturals, FiniteSets

CONSTANTS
  Goroutines,   \* goroutines that call the driver
  Finalizer,    \* the runtime's finalizer goroutine
  Stmts,        \* statements, each prepared at most once
  UseClosed,    \* the program executes a statement it closed, or asks a closed
                \* connection for AutoCommit: database/sql never does, and
                \* the driver does not test it
  None

ASSUME NamesAssumption ==
  /\ Finalizer \notin Goroutines
  /\ None \notin Goroutines \cup {Finalizer}
  /\ None \notin Stmts
  /\ UseClosed \in BOOLEAN

Procs == Goroutines \cup {Finalizer}

VARIABLES
  dc,       \* owner of the driverConn mutex
  db,       \* c.db: "ptr" or "nil"
  conn,     \* the sqlite3 object: "open", "zombie" (closed, statements left), "freed"
  intr,     \* the interrupt flag of the sqlite3 object
  mu,       \* s.mu of each statement: its owner
  closed,   \* s.closed
  sq,       \* the sqlite3_stmt behind s.s
  rows,     \* the SQLiteRows made of the statement: "none", "open", "closed"
  cls,      \* s.cls: closing the rows closes the statement
  ctx,      \* context of the rows or exec: "background", "live", "done"
  dropped,  \* unreachable, only the finalizer goroutine still has it
  pc,       \* where each goroutine is
  on,       \* the statement its call is about
  wk,       \* the worker goroutine of its call
  res,      \* what the worker got from SQLite
  ret,      \* what the last exec or Next returned
  errcode,  \* what sqlite3_errcode(c.db) is, see CodeOf
  err,      \* the error the worker of each goroutine sends, "none" for nil
  crashed,  \* SQLite has followed a NULL pointer and the process is gone
  lost,     \* history: goroutines whose failed step left no error to find
  shared    \* history: running statements that overlapped a call on another one

sqliteVars == <<db, conn, intr, sq>>
stmtVars   == <<mu, closed, rows, cls, ctx, dropped>>
callVars   == <<dc, pc, on, wk, res, ret>>
errVars    == <<errcode, err, crashed, lost>>
vars       == <<sqliteVars, stmtVars, callVars, errVars, shared>>

-----------------------------------------------------------------------------
(* What is going on at a statement. *)

Running   == {s \in Stmts : sq[s] = "run"}
Allocated == {s \in Stmts : sq[s] \in {"ready", "run", "failed"}}

ExecPcs  == {"e.select", "e.cancelled", "e.interrupt", "e.join"}
NextPcs  == {"n.lock", "n.select", "n.cancelled", "n.interrupt", "n.join"}
ClosePcs == {"r.lock", "r.reset", "s.lock", "s.check", "s.finalize"}

InExec(s)    == \E g \in Procs : on[g] = s /\ pc[g] \in ExecPcs
InClose(s)   == \E g \in Procs : on[g] = s /\ pc[g] \in ClosePcs
Unused(s)    == \A g \in Procs : on[g] # s
Usable(s)    == sq[s] # "none" /\ ~dropped[s]

\* A call begins: it may find other statements of the connection running.
Overlaps(s) == shared' = shared \cup (Running \ {s})

Return(g, value) ==
  /\ pc' = [pc EXCEPT ![g] = "idle"]
  /\ on' = [on EXCEPT ![g] = None]
  /\ res' = [res EXCEPT ![g] = "none"]
  /\ ret' = value

\* The error the worker sent is consumed, if it was still running.
SentError(g) ==
  /\ err' = [err EXCEPT ![g] = "none"]
  /\ lost' = lost \ {g}

Goto(g, l) == pc' = [pc EXCEPT ![g] = l]

-----------------------------------------------------------------------------
(* sqlite3_errcode(c.db), which lastError() reads in a call of its own.  For *)
(* the driver it is SQLITE_OK, SQLITE_INTERRUPT or something else: an error, *)
(* but also the SQLITE_ROW or SQLITE_DONE of a step that went well.          *)

CodeOf(r) == IF r = "interrupt" THEN r ELSE "error"

\* What it may be once sqlite3_reset or sqlite3_finalize has ended s, whose
\* last step did not fail: started or not is not known of a statement at rest.
CodeAfterEnd(s) ==
  CASE sq[s] = "run"       -> {"ok"}
    [] sq[s] = "finalized" -> {errcode}
    [] OTHER               -> {"ok", errcode}

\* Statement s ends: a worker about to ask for its own error may find none.
EndOther(s) ==
  /\ errcode' \in CodeAfterEnd(s)
  /\ lost' = IF errcode' = "ok" THEN lost \cup {h \in Procs : wk[h] = "lastError"}
             ELSE lost
  /\ UNCHANGED <<err, crashed>>

-----------------------------------------------------------------------------
(* Prepare and query. *)

\* conn.prepare and SQLiteStmt.query: the statement and its rows.  c is the
\* conn.query case, where closing the rows closes the statement.
PrepareQuery(g, s, c, x) ==
  /\ pc[g] = "idle" /\ dc = None /\ db = "ptr" /\ sq[s] = "none"
  /\ errcode' = "ok"
  /\ sq' = [sq EXCEPT ![s] = "ready"]
  /\ rows' = [rows EXCEPT ![s] = "open"]
  /\ cls' = [cls EXCEPT ![s] = c]
  /\ ctx' = [ctx EXCEPT ![s] = x]
  /\ UNCHANGED <<db, conn, intr, mu, closed, dropped, callVars, shared, err, crashed, lost>>

\* conn.Prepare alone: the statement is queried or executed later.
Prepare(g, s) ==
  /\ pc[g] = "idle" /\ dc = None /\ db = "ptr" /\ sq[s] = "none"
  /\ errcode' = "ok"
  /\ sq' = [sq EXCEPT ![s] = "ready"]
  /\ UNCHANGED <<db, conn, intr, stmtVars, callVars, shared, err, crashed, lost>>

\* Faulty variant: bind without its reset.
BindNoReset(s) == UNCHANGED sq

\* bind begins with a sqlite3_reset of the statement.
BindReset(s) == sq' = [sq EXCEPT ![s] = IF @ = "finalized" THEN @ ELSE "ready"]

\* SQLiteStmt.query of a prepared statement: new rows on it.
Query(g, s, x) ==
  /\ pc[g] = "idle" /\ dc = None /\ db = "ptr"
  /\ Usable(s) /\ ~cls[s] /\ rows[s] # "open" /\ ~InClose(s)
  /\ BindReset(s)
  /\ errcode' \in CodeAfterEnd(s) \cup {"error"}
  /\ rows' \in {[rows EXCEPT ![s] = "open"], rows}    \* rows when bind fails
  /\ ctx' = [ctx EXCEPT ![s] = x]
  /\ UNCHANGED <<db, conn, intr, mu, closed, cls, dropped, callVars, shared, err, crashed, lost>>

\* The context is cancelled or its deadline passes.
Cancel(s) ==
  /\ ctx[s] = "live"
  /\ ctx' = [ctx EXCEPT ![s] = "done"]
  /\ UNCHANGED <<sqliteVars, mu, closed, rows, cls, dropped, callVars, shared, errVars>>

\* The program forgets a statement without closing it; conn.query does so
\* itself with the statement it prepared when arguments are missing.
Drop(s) ==
  /\ Usable(s) /\ Unused(s)
  /\ dropped' = [dropped EXCEPT ![s] = TRUE]
  /\ UNCHANGED <<sqliteVars, mu, closed, rows, cls, ctx, callVars, shared, errVars>>

-----------------------------------------------------------------------------
(* The worker: execSync or nextSyncLocked.  With a context that cannot be  *)
(* cancelled the code runs it in the calling goroutine, which then does     *)
(* nothing else: waiting for a worker is the same.                          *)

\* execSync: bind.  s.s is NULL when the statement has been closed; then its
\* reset is a no-op, a value cannot be bound, and without values all is well.
WorkerBind(g) ==
  LET s == on[g] IN
  /\ wk[g] = "bind"
  /\ BindReset(s)
  /\ \/ /\ wk' = [wk EXCEPT ![g] = "step"]
        /\ errcode' \in CodeAfterEnd(s)
     \/ /\ wk' = [wk EXCEPT ![g] = "bindError"]
        /\ errcode' = IF sq[s] = "finalized" THEN errcode ELSE "error"
  /\ UNCHANGED <<db, conn, intr, stmtVars, dc, pc, on, res, ret, shared,
                 err, crashed, lost>>

\* A value was not bound: bind returns lastError(), and execSync goes on if
\* that is nil.  Otherwise it resets the statement, which bind has done before.
WorkerBindError(g) ==
  /\ wk[g] = "bindError"
  /\ \/ /\ errcode = "ok"
        /\ wk' = [wk EXCEPT ![g] = "step"]
        /\ UNCHANGED err
     \/ /\ errcode # "ok"
        /\ wk' = [wk EXCEPT ![g] = "return"]
        /\ err' = [err EXCEPT ![g] = errcode]
  /\ UNCHANGED <<sqliteVars, stmtVars, dc, pc, on, res, ret, shared,
                 errcode, crashed, lost>>

\* _sqlite3_step_row_internal of NULL: sqlite3_step returns SQLITE_MISUSE, and
\* sqlite3_db_handle(NULL) is a NULL that sqlite3_last_insert_rowid follows.
WorkerStepNull(g) ==
  /\ wk[g] = "step" /\ sq[on[g]] = "finalized"
  /\ crashed' = TRUE
  /\ UNCHANGED <<sqliteVars, stmtVars, callVars, shared, errcode, err, lost>>

\* sqlite3_step begins.  Starting while nothing runs clears the flag.
WorkerStep(g) ==
  LET s == on[g]
      starts == sq[s] # "run"
  IN /\ wk[g] = "step" /\ sq[s] # "finalized"
     /\ wk' = [wk EXCEPT ![g] = "stepping"]
     /\ sq' = [sq EXCEPT ![s] = "run"]
     /\ intr' = (intr /\ Running # {})
     /\ shared' = IF ~starts THEN shared
                  ELSE IF Running = {} THEN shared \ {s}
                  ELSE shared \cup {s} \cup Running
     /\ UNCHANGED <<db, conn, stmtVars, dc, pc, on, res, ret, errVars>>

\* Faulty variant: the error path leaves the statement as it is.
WorkerStepEndNoReset(g, r) ==
  /\ wk[g] = "stepping"
  /\ r = "interrupt" => intr
  /\ res' = [res EXCEPT ![g] = r]
  /\ sq' = [sq EXCEPT ![on[g]] = CASE r = "row"  -> "run"
                                   [] r = "done" -> "ready"
                                   [] OTHER      -> "failed"]
  /\ errcode' = CodeOf(r)
  /\ wk' = [wk EXCEPT ![g] = "return"]
  /\ UNCHANGED <<db, conn, intr, stmtVars, dc, pc, on, ret, shared, err, crashed, lost>>

\* sqlite3_step ends: a row, the end, an interrupt, another error.
WorkerStepEnd(g, r) ==
  LET s == on[g] IN
  /\ wk[g] = "stepping"
  /\ r = "interrupt" => intr
  /\ res' = [res EXCEPT ![g] = r]
  /\ sq' = [sq EXCEPT ![s] = CASE r = "row"  -> "run"
                               [] r = "done" -> "ready"
                               [] OTHER      -> "failed"]
  /\ errcode' = CodeOf(r)
  /\ wk' = [wk EXCEPT ![g] = IF r \in {"row", "done"} THEN "return"
                              ELSE IF pc[g] \in ExecPcs THEN "lastError" ELSE "reset"]
  /\ UNCHANGED <<db, conn, intr, stmtVars, dc, pc, on, ret, shared, err, crashed, lost>>

\* s.c.lastError(), a call of its own: before the reset in execSync, after it
\* in nextSyncLocked.
WorkerLastError(g) ==
  /\ wk[g] = "lastError"
  /\ err' = [err EXCEPT ![g] = IF errcode = "ok" THEN "none" ELSE errcode]
  /\ wk' = [wk EXCEPT ![g] = IF pc[g] \in ExecPcs THEN "reset" ELSE "return"]
  /\ UNCHANGED <<sqliteVars, stmtVars, dc, pc, on, res, ret, shared,
                 errcode, crashed, lost>>

\* The error path of both resets the statement, which reports the failure of
\* its step again.  nextSyncLocked asks for the error only if it does, and
\* otherwise returns nil: a failure sqlite3_reset does not know of is lost.
WorkerReset(g) ==
  /\ wk[g] = "reset"
  /\ sq' = [sq EXCEPT ![on[g]] = "ready"]
  /\ \/ /\ errcode' = CodeOf(res[g])
        /\ wk' = [wk EXCEPT ![g] = IF pc[g] \in ExecPcs THEN "return" ELSE "lastError"]
        /\ UNCHANGED lost
     \/ /\ pc[g] \in NextPcs
        /\ wk' = [wk EXCEPT ![g] = "return"]
        /\ lost' = lost \cup {g}
        /\ UNCHANGED errcode
  /\ UNCHANGED <<db, conn, intr, stmtVars, dc, pc, on, res, ret, shared, err, crashed>>

\* The worker reaches the send on the unbuffered channel.
WorkerReturn(g) ==
  /\ wk[g] = "return"
  /\ wk' = [wk EXCEPT ![g] = "send"]
  /\ UNCHANGED <<sqliteVars, stmtVars, dc, pc, on, res, ret, shared, errVars>>

Worker(g) ==
  /\ ~crashed
  /\ \/ WorkerBind(g) \/ WorkerBindError(g) \/ WorkerStep(g) \/ WorkerStepNull(g)
     \/ WorkerLastError(g) \/ WorkerReset(g) \/ WorkerReturn(g)
     \/ \E r \in {"row", "done", "interrupt", "error"} : WorkerStepEnd(g, r)

\* The caller's receive completes the worker's send, and the worker ends.
Receive(g) ==
  /\ wk[g] = "send"
  /\ wk' = [wk EXCEPT ![g] = "none"]

-----------------------------------------------------------------------------
(* SQLiteStmt.exec *)

Exec(g, s, x) ==
  /\ pc[g] = "idle" /\ dc = None /\ db = "ptr"
  /\ Usable(s) /\ ~cls[s] /\ rows[s] # "open" /\ ~InClose(s)
  /\ closed[s] => UseClosed
  /\ dc' = g
  /\ ctx' = [ctx EXCEPT ![s] = x]
  /\ rows' = [rows EXCEPT ![s] = "none"]
  /\ on' = [on EXCEPT ![g] = s]
  /\ wk' = [wk EXCEPT ![g] = "bind"]
  /\ Goto(g, "e.select")
  /\ Overlaps(s)
  /\ ret' = "none"
  /\ UNCHANGED <<sqliteVars, mu, closed, cls, dropped, res, errVars>>

ExecValue(g) == IF err[g] = "none" THEN "ok" ELSE "failed"

ExecReturn(g, value) ==
  /\ Return(g, value)
  /\ SentError(g)
  /\ dc' = None
  /\ UNCHANGED <<sqliteVars, stmtVars, shared, errcode, crashed>>

\* The first select: the result, or the context.
ExecReceive(g) ==
  /\ pc[g] = "e.select"
  /\ Receive(g)
  /\ ExecReturn(g, ExecValue(g))

ExecCancelled(g) ==
  /\ pc[g] = "e.select" /\ ctx[on[g]] = "done"
  /\ Goto(g, "e.cancelled")
  /\ UNCHANGED <<sqliteVars, stmtVars, dc, on, wk, res, ret, shared, errVars>>

\* The second select, with a default: the result if it is there already.
ExecFinishedAnyway(g) ==
  /\ pc[g] = "e.cancelled"
  /\ Receive(g)
  /\ ExecReturn(g, ExecValue(g))

ExecDefault(g) ==
  /\ pc[g] = "e.cancelled" /\ wk[g] # "send"
  /\ Goto(g, "e.interrupt")
  /\ UNCHANGED <<sqliteVars, stmtVars, dc, on, wk, res, ret, shared, errVars>>

\* sqlite3_interrupt(s.c.db)
ExecInterrupt(g) ==
  /\ pc[g] = "e.interrupt"
  /\ intr' = TRUE
  /\ Goto(g, "e.join")
  /\ UNCHANGED <<db, conn, sq, stmtVars, dc, on, wk, res, ret, shared, errVars>>

\* Faulty variant: a cancelled context is reported whatever the result.
ExecJoinAlwaysCancelled(g) ==
  /\ pc[g] = "e.join"
  /\ Receive(g)
  /\ ExecReturn(g, "cancelled")

\* <-resultCh, then ctx.Err() only for an interrupted statement.
ExecJoin(g) ==
  /\ pc[g] = "e.join"
  /\ Receive(g)
  /\ ExecReturn(g, IF err[g] = "interrupt" THEN "cancelled" ELSE ExecValue(g))

-----------------------------------------------------------------------------
(* SQLiteRows.Next *)

Next_(g, s) ==
  /\ pc[g] = "idle" /\ dc = None /\ db = "ptr"
  /\ Usable(s) /\ rows[s] = "open"
  /\ dc' = g
  /\ on' = [on EXCEPT ![g] = s]
  /\ ret' = "none"
  /\ Goto(g, "n.lock")
  /\ UNCHANGED <<sqliteVars, stmtVars, wk, res, shared, errVars>>

NextReturn(g, value) ==
  /\ Return(g, value)
  /\ SentError(g)
  /\ dc' = None
  /\ mu' = [mu EXCEPT ![on[g]] = None]
  /\ UNCHANGED <<sqliteVars, closed, rows, cls, ctx, dropped, shared, errcode, crashed>>

\* rc.s.mu.Lock(); a closed statement is at its end.
NextEOF(g) ==
  /\ pc[g] = "n.lock" /\ mu[on[g]] = None
  /\ closed[on[g]]
  /\ NextReturn(g, "eof")
  /\ UNCHANGED wk

NextBegin(g) ==
  /\ pc[g] = "n.lock" /\ mu[on[g]] = None
  /\ ~closed[on[g]]
  /\ mu' = [mu EXCEPT ![on[g]] = g]
  /\ wk' = [wk EXCEPT ![g] = "step"]
  /\ Goto(g, "n.select")
  /\ Overlaps(on[g])
  /\ UNCHANGED <<sqliteVars, closed, rows, cls, ctx, dropped, dc, on, res, ret, errVars>>

\* Faulty variant: SQLITE_DONE is not translated to io.EOF.
NextValueRaw(g) == res[g]

\* nil is a row to the caller, whether there is one or not.
NextValue(g) ==
  IF res[g] = "done" THEN "eof" ELSE IF err[g] = "none" THEN "row" ELSE "error"

NextReceive(g) ==
  /\ pc[g] = "n.select"
  /\ Receive(g)
  /\ NextReturn(g, NextValue(g))

NextCancelled(g) ==
  /\ pc[g] = "n.select" /\ ctx[on[g]] = "done"
  /\ Goto(g, "n.cancelled")
  /\ UNCHANGED <<sqliteVars, stmtVars, dc, on, wk, res, ret, shared, errVars>>

NextFinishedAnyway(g) ==
  /\ pc[g] = "n.cancelled"
  /\ Receive(g)
  /\ NextReturn(g, "ctxErr")

NextDefault(g) ==
  /\ pc[g] = "n.cancelled" /\ wk[g] # "send"
  /\ Goto(g, "n.interrupt")
  /\ UNCHANGED <<sqliteVars, stmtVars, dc, on, wk, res, ret, shared, errVars>>

\* Faulty variant: s.mu is given up before the worker has been waited for.
NextInterruptUnlocks(g) ==
  /\ pc[g] = "n.interrupt"
  /\ intr' = TRUE
  /\ Goto(g, "n.join")
  /\ mu' = [mu EXCEPT ![on[g]] = None]
  /\ UNCHANGED <<db, conn, sq, closed, rows, cls, ctx, dropped, dc, on, wk, res, ret, shared, errVars>>

\* sqlite3_interrupt(rc.s.c.db)
NextInterrupt(g) ==
  /\ pc[g] = "n.interrupt"
  /\ intr' = TRUE
  /\ Goto(g, "n.join")
  /\ UNCHANGED <<db, conn, sq, stmtVars, dc, on, wk, res, ret, shared, errVars>>

\* <-resultCh, "ensure goroutine completed"
NextJoin(g) ==
  /\ pc[g] = "n.join"
  /\ Receive(g)
  /\ NextReturn(g, "ctxErr")

-----------------------------------------------------------------------------
(* SQLiteRows.Close *)

RowsClose(g, s) ==
  /\ pc[g] = "idle"
  /\ Usable(s) /\ rows[s] # "none" /\ ~InExec(s)
  /\ on' = [on EXCEPT ![g] = s]
  /\ Goto(g, "r.lock")
  /\ UNCHANGED <<sqliteVars, stmtVars, dc, wk, res, ret, shared, errVars>>

\* Faulty variant: the early return forgets the unlock.
RowsCloseNothingNoUnlock(g) ==
  /\ pc[g] = "r.lock" /\ mu[on[g]] = None
  /\ closed[on[g]] \/ rows[on[g]] = "closed"
  /\ mu' = [mu EXCEPT ![on[g]] = g]
  /\ Return(g, ret)
  /\ UNCHANGED <<sqliteVars, closed, rows, cls, ctx, dropped, dc, wk, shared, errVars>>

RowsCloseNothing(g) ==
  /\ pc[g] = "r.lock" /\ mu[on[g]] = None
  /\ closed[on[g]] \/ rows[on[g]] = "closed"
  /\ Return(g, ret)
  /\ UNCHANGED <<sqliteVars, stmtVars, dc, wk, shared, errVars>>

\* Faulty variant: closing the rows of a query marks the statement closed.
RowsCloseMarkStmt(g) ==
  LET s == on[g] IN
  /\ pc[g] = "r.lock" /\ mu[s] = None
  /\ ~closed[s] /\ rows[s] # "closed"
  /\ rows' = [rows EXCEPT ![s] = "closed"]
  /\ closed' = [closed EXCEPT ![s] = cls[s]]
  /\ mu' = [mu EXCEPT ![s] = IF cls[s] THEN None ELSE g]
  /\ Goto(g, IF cls[s] THEN "s.lock" ELSE "r.reset")
  /\ UNCHANGED <<sqliteVars, cls, ctx, dropped, dc, on, wk, res, ret, shared, errVars>>

\* rc.closed = true; with rc.cls the lock is released and s.Close() called.
RowsCloseMark(g) ==
  LET s == on[g] IN
  /\ pc[g] = "r.lock" /\ mu[s] = None
  /\ ~closed[s] /\ rows[s] # "closed"
  /\ rows' = [rows EXCEPT ![s] = "closed"]
  /\ mu' = [mu EXCEPT ![s] = IF cls[s] THEN None ELSE g]
  /\ Goto(g, IF cls[s] THEN "s.lock" ELSE "r.reset")
  /\ UNCHANGED <<sqliteVars, closed, cls, ctx, dropped, dc, on, wk, res, ret, shared, errVars>>

RowsCloseReset(g) ==
  /\ pc[g] = "r.reset"
  /\ sq' = [sq EXCEPT ![on[g]] = "ready"]
  /\ EndOther(on[g])
  /\ mu' = [mu EXCEPT ![on[g]] = None]
  /\ Return(g, ret)
  /\ UNCHANGED <<db, conn, intr, closed, rows, cls, ctx, dropped, dc, wk, shared>>

-----------------------------------------------------------------------------
(* SQLiteStmt.Close, by the program or by the finalizer goroutine *)

StmtClose(g, s) ==
  /\ pc[g] = "idle" /\ sq[s] # "none" /\ ~InExec(s)
  /\ dropped[s] = (g = Finalizer)
  /\ g = Finalizer => sq[s] # "finalized"    \* runtime.SetFinalizer(s, nil)
  /\ on' = [on EXCEPT ![g] = s]
  /\ Goto(g, "s.lock")
  /\ UNCHANGED <<sqliteVars, stmtVars, dc, wk, res, ret, shared, errVars>>

StmtCloseNothing(g) ==
  /\ pc[g] = "s.lock" /\ mu[on[g]] = None
  /\ closed[on[g]]
  /\ Return(g, ret)
  /\ UNCHANGED <<sqliteVars, stmtVars, dc, wk, shared, errVars>>

\* Faulty variant: no look at s.closed.
StmtCloseMarkAgain(g) ==
  /\ pc[g] = "s.lock" /\ mu[on[g]] = None
  /\ mu' = [mu EXCEPT ![on[g]] = g]
  /\ closed' = [closed EXCEPT ![on[g]] = TRUE]
  /\ Goto(g, "s.check")
  /\ UNCHANGED <<sqliteVars, rows, cls, ctx, dropped, dc, on, wk, res, ret, shared, errVars>>

StmtCloseMark(g) ==
  /\ pc[g] = "s.lock" /\ mu[on[g]] = None
  /\ ~closed[on[g]]
  /\ mu' = [mu EXCEPT ![on[g]] = g]
  /\ closed' = [closed EXCEPT ![on[g]] = TRUE]
  /\ Goto(g, "s.check")
  /\ UNCHANGED <<sqliteVars, rows, cls, ctx, dropped, dc, on, wk, res, ret, shared, errVars>>

\* dbConnOpen: with the connection closed the statement is never finalized.
StmtCloseCheck(g) ==
  /\ pc[g] = "s.check"
  /\ \/ /\ db = "ptr"
        /\ Goto(g, "s.finalize")
        /\ UNCHANGED <<mu, on, res, ret>>
     \/ /\ db = "nil"
        /\ mu' = [mu EXCEPT ![on[g]] = None]
        /\ Return(g, ret)
  /\ UNCHANGED <<sqliteVars, closed, rows, cls, ctx, dropped, dc, wk, shared, errVars>>

\* sqlite3_finalize; the last statement of a zombie frees the connection.
StmtCloseFinalize(g) ==
  /\ pc[g] = "s.finalize"
  /\ sq' = [sq EXCEPT ![on[g]] = "finalized"]
  /\ conn' = IF conn = "zombie" /\ Allocated = {on[g]} THEN "freed" ELSE conn
  /\ EndOther(on[g])
  /\ mu' = [mu EXCEPT ![on[g]] = None]
  /\ Return(g, ret)
  /\ UNCHANGED <<db, intr, closed, rows, cls, ctx, dropped, dc, wk, shared>>

-----------------------------------------------------------------------------
(* SQLiteConn.Close *)

ConnClose(g) ==
  /\ pc[g] = "idle" /\ dc = None /\ db = "ptr"
  /\ dc' = g
  /\ conn' = IF Allocated = {} THEN "freed" ELSE "zombie"
  /\ Goto(g, "c.clear")
  /\ UNCHANGED <<db, intr, sq, stmtVars, on, wk, res, ret, shared, errVars>>

\* deleteHandles(c), then c.db = nil under c.mu
ConnCloseClear(g) ==
  /\ pc[g] = "c.clear"
  /\ db' = "nil"
  /\ dc' = None
  /\ Return(g, ret)
  /\ UNCHANGED <<conn, intr, sq, stmtVars, wk, shared, errVars>>

\* AutoCommit asks SQLite without a look at c.db.
AutoCommit(g) ==
  /\ pc[g] = "idle" /\ dc = None
  /\ db = "nil" => UseClosed
  /\ crashed' = (db = "nil")
  /\ UNCHANGED <<sqliteVars, stmtVars, callVars, shared, errcode, err, lost>>

-----------------------------------------------------------------------------
Contexts == {"background", "live"}

Init ==
  /\ dc = None /\ db = "ptr" /\ conn = "open" /\ intr = FALSE
  /\ mu = [s \in Stmts |-> None]
  /\ closed = [s \in Stmts |-> FALSE]
  /\ sq = [s \in Stmts |-> "none"]
  /\ rows = [s \in Stmts |-> "none"]
  /\ cls = [s \in Stmts |-> FALSE]
  /\ ctx = [s \in Stmts |-> "background"]
  /\ dropped = [s \in Stmts |-> FALSE]
  /\ pc = [g \in Procs |-> "idle"]
  /\ on = [g \in Procs |-> None]
  /\ wk = [g \in Procs |-> "none"]
  /\ res = [g \in Procs |-> "none"]
  /\ ret = "none"
  /\ errcode = "ok" /\ crashed = FALSE
  /\ err = [g \in Procs |-> "none"]
  /\ lost = {} /\ shared = {}

\* A goroutine begins a call, or the environment moves.
Begin ==
  /\ ~crashed
  /\ \/ \E g \in Goroutines, s \in Stmts, x \in Contexts :
          \/ Query(g, s, x) \/ Exec(g, s, x)
          \/ \E c \in BOOLEAN : PrepareQuery(g, s, c, x)
     \/ \E g \in Goroutines, s \in Stmts :
          Prepare(g, s) \/ Next_(g, s) \/ RowsClose(g, s) \/ StmtClose(g, s)
     \/ \E s \in Stmts : StmtClose(Finalizer, s) \/ Cancel(s) \/ Drop(s)
     \/ \E g \in Goroutines : ConnClose(g) \/ AutoCommit(g)

\* A goroutine inside a call waits for s.mu.
Lock(g) ==
  /\ ~crashed
  /\ \/ NextEOF(g) \/ NextBegin(g)
     \/ RowsCloseNothing(g) \/ RowsCloseMark(g)
     \/ StmtCloseNothing(g) \/ StmtCloseMark(g)

\* A goroutine inside a call goes on.
Continue(g) ==
  /\ ~crashed
  /\ \/ ExecReceive(g) \/ ExecCancelled(g) \/ ExecFinishedAnyway(g)
     \/ ExecDefault(g) \/ ExecInterrupt(g) \/ ExecJoin(g)
     \/ NextReceive(g) \/ NextCancelled(g) \/ NextFinishedAnyway(g)
     \/ NextDefault(g) \/ NextInterrupt(g) \/ NextJoin(g)
     \/ RowsCloseReset(g) \/ StmtCloseCheck(g) \/ StmtCloseFinalize(g)
     \/ ConnCloseClear(g)

Next == Begin \/ \E g \in Procs : Worker(g) \/ Lock(g) \/ Continue(g)

Spec == Init /\ [][Next]_vars

\* sqlite3_step ends, the Go scheduler runs every goroutine, and a sync.Mutex
\* does not starve a waiter (its starvation mode hands the lock over).
Fairness ==
  \A g \in Procs : WF_vars(Worker(g)) /\ WF_vars(Continue(g)) /\ SF_vars(Lock(g))

FairSpec == Spec /\ Fairness

-----------------------------------------------------------------------------
(* Properties *)

Results == {"none", "row", "done", "interrupt", "error"}

\* The type invariant.
TypeOK ==
  /\ dc \in Goroutines \cup {None}
  /\ db \in {"ptr", "nil"}
  /\ conn \in {"open", "zombie", "freed"}
  /\ intr \in BOOLEAN
  /\ mu \in [Stmts -> Procs \cup {None}]
  /\ closed \in [Stmts -> BOOLEAN]
  /\ sq \in [Stmts -> {"none", "ready", "run", "failed", "finalized"}]
  /\ rows \in [Stmts -> {"none", "open", "closed"}]
  /\ cls \in [Stmts -> BOOLEAN]
  /\ ctx \in [Stmts -> {"background", "live", "done"}]
  /\ dropped \in [Stmts -> BOOLEAN]
  /\ pc \in [Procs -> {"idle", "c.clear"} \cup ExecPcs \cup NextPcs \cup ClosePcs]
  /\ on \in [Procs -> Stmts \cup {None}]
  /\ wk \in [Procs -> {"none", "bind", "bindError", "step", "stepping",
                        "lastError", "reset", "return", "send"}]
  /\ res \in [Procs -> Results]
  /\ ret \in {"none", "ok", "failed", "cancelled", "row", "eof", "error", "ctxErr"}
  /\ errcode \in {"ok", "interrupt", "error"}
  /\ err \in [Procs -> {"none", "interrupt", "error"}]
  /\ crashed \in BOOLEAN
  /\ lost \in SUBSET Procs
  /\ shared \in SUBSET Stmts

\* Every object handed to SQLite is alive at that moment: the statement a
\* worker steps or resets, the one Rows.Close resets or Stmt.Close finalizes
\* (never a second time), the connection a cancelled call interrupts or a worker
\* asks for its error.  It is so for programs without UseClosed; with it
\* WorkerStepNull and AutoCommit crash.
InSqlite(g) == wk[g] \in {"bindError", "step", "stepping", "lastError", "reset"}

ObjectsAlive ==
  /\ ~crashed
  /\ \A g \in Procs :
       /\ InSqlite(g) \/ pc[g] \in {"r.reset", "s.finalize"} => on[g] \in Allocated
       /\ \/ pc[g] \in {"e.interrupt", "n.interrupt"}
          \/ wk[g] \in {"bindError", "lastError"}
          => db = "ptr" /\ conn = "open"

\* exec and Next report what the step did, although the interrupt is racy (the
\* comment in exec) and the error is asked for in a call of its own.  An exec
\* that took effect is never reported as failed or cancelled, the end of the
\* rows is io.EOF and nothing else is.  A step that failed is reported as
\* executed, or as a row, in one case only: SQLite had no error to tell any
\* more, because another statement of the connection was ended between the
\* step and lastError(), or because the reset in Next reported success.
\* That is what the code does, and lost says when.
TellsTheTruth(g) ==
  /\ pc[g] \in ExecPcs /\ pc'[g] = "idle" =>
       /\ res[g] \in {"row", "done"} => ret' = "ok"
       /\ ret' = "ok" => res[g] \in {"row", "done"} \/ g \in lost
       /\ ret' = "cancelled" => ctx[on[g]] = "done"
  /\ pc[g] = "n.select" /\ pc'[g] = "idle" =>
       /\ ret' = "eof" <=> res[g] = "done"
       /\ res[g] = "row" => ret' = "row"
       /\ ret' = "row" => res[g] = "row" \/ g \in lost

CallsTruthful == [][\A g \in Procs : TellsTheTruth(g)]_vars

\* The interrupt of a cancelled call, which may come too late and leave the
\* flag raised, aborts no later call on a connection that works on one
\* statement at a time: only a cancelled statement or one that overlapped
\* a call on another one is interrupted.
InterruptIsolated ==
  \A g \in Procs : res[g] = "interrupt" /\ wk[g] \in {"lastError", "reset", "return", "send"}
                   => ctx[on[g]] = "done" \/ on[g] \in shared

\* A failed step is reset by the worker that saw it, before anybody else gets
\* at the statement: sqlite3_finalize and the reset of Rows.Close have no
\* error to report, so Stmt.Close never asks a connection that Conn.Close may
\* have freed for its last error.
FailuresAreReset ==
  \A s \in Stmts : sq[s] = "failed" =>
    \E g \in Procs : /\ on[g] = s
                      /\ \/ wk[g] = "lastError" /\ pc[g] \in ExecPcs
                         \/ wk[g] = "reset" /\ pc[g] \in ExecPcs \cup NextPcs

\* A closed statement is finalized unless its connection was closed first.
ClosedIsFinalized ==
  \A s \in Stmts : closed[s] =>
    \/ sq[s] = "finalized"
    \/ db = "nil"
    \/ \E g \in Procs : on[g] = s /\ pc[g] \in {"s.check", "s.finalize"}

\* No deadlock, the safety part of CallsReturn.  Who waits for s.mu waits for a
\* call that waits for no mutex itself, and the mutex of the connection is held by
\* a call: no early return leaves one locked.  Who waits for a result has a worker
\* that is to send it, and no worker is left behind at its channel.
AtLock(g) == pc[g] \in {"n.lock", "r.lock", "s.lock"}

NobodyStuck ==
  /\ dc # None => pc[dc] # "idle"
  /\ \A g \in Procs :
       /\ AtLock(g) /\ mu[on[g]] # None =>
            pc[mu[on[g]]] # "idle" /\ ~AtLock(mu[on[g]])
       /\ wk[g] # "none" <=> pc[g] \in ExecPcs \cup (NextPcs \ {"n.lock"})

\* What the driver promises SQLite: see SqliteApi.
Users(s) ==
  {g \in Procs : on[g] = s /\ (InSqlite(g) \/ pc[g] = "r.reset")}
StateOf(s) == IF sq[s] \in {"none", "finalized"} THEN sq[s] ELSE "live"

Api == INSTANCE SqliteApi WITH
  st <- [s \in Stmts |-> StateOf(s)], users <- [s \in Stmts |-> Users(s)]

\* The connection, its statements and its rows implement the calling contract.
ApiObeyed == Api!Spec

\* Every call returns: no worker is left behind at its channel, no mutex is
\* left locked.
CallsReturn ==
  \A g \in Procs : /\ pc[g] # "idle" ~> pc[g] = "idle"
                   /\ wk[g] # "none" ~> wk[g] = "none"
=============================================================================
