-------------------------------- MODULE Batch --------------------------------
(***************************************************************************)
(* SQLiteConn.exec and SQLiteConn.query, which take apart a query of several *)
(* statements and hand out its arguments, SQLiteStmt.bind, and SQLiteTx,      *)
(* which is made of exec.                                                    *)
(*                                                                         *)
(* A query is a sequence of statements.  A statement has its parameters,      *)
(* pairs of a prefix and a name, and a kind: what it does to the transaction. *)
(* The name of ? is Positional.  A comment is a statement for which SQLite    *)
(* prepares nothing.  An argument is its name, or Positional; its value is    *)
(* its place in the list.  One goroutine has the connection; Lifecycle models *)
(* several, and the cancellation of a step, which here is an error.           *)
(***************************************************************************)
EXTENDS Naturals, Sequences, FiniteSets, FiniteSetsExt

CONSTANTS
  Queries,    \* sequences of statements
  ArgLists,   \* sequences of names of arguments
  Prefixes,   \* of named parameters: ":", "@", "$"
  Positional,
  MaxCalls    \* bound: calls of Exec, Query and Begin, until one with these arguments

Kinds == {"plain", "begin", "commit", "rollback", "comment"}

\* A parameter with a name has one of the prefixes; a comment has no parameters.
IsStatement(s) ==
  /\ s.kind \in Kinds
  /\ Len(s.params) \in Nat /\ DOMAIN s.params = 1..Len(s.params)
  /\ s.kind = "comment" => Len(s.params) = 0
  /\ \A j \in DOMAIN s.params :
       LET p == s.params[j]
       IN  p = <<p[1], p[2]>> /\ (p[2] # Positional => p[1] \in Prefixes)

ASSUME QueriesAssumption ==
  \A q \in Queries :
    /\ Len(q) \in Nat \ {0} /\ DOMAIN q = 1..Len(q)
    /\ \A k \in DOMAIN q : IsStatement(q[k])

ASSUME ArgListsAssumption == \A a \in ArgLists : Len(a) \in Nat /\ DOMAIN a = 1..Len(a)

ASSUME MaxCallsAssumption == << >> \in ArgLists /\ MaxCalls \in [ArgLists -> Nat]

VARIABLES
  calls,
  pc,      \* where the call is
  method,  \* "exec" or "query"
  caller,  \* what called it: the program, or Begin, Commit, Rollback
  query,   \* the statements, and the one the call is at
  at,
  args,
  start,   \* how many arguments have been consumed
  live,    \* the statements prepared and not finalized
  bound,   \* history: the statements bound, and the values bound to them
  ret,     \* how the last exec or query ended
  tx,      \* SQLite has a transaction open
  sqlTx    \* database/sql has: Begin has succeeded

callVars == <<calls, method, caller, query, args>>
vars == <<pc, callVars, at, start, live, bound, ret, tx, sqlTx>>

-----------------------------------------------------------------------------
(* The arguments of a statement. *)

NumInput(s) == Len(s.params)

\* Faulty variant: the consumed arguments are not skipped.
OwnFromFirst(na) == [i \in 1..na |-> i]

Own(na) == [i \in 1..na |-> start + i]

\* The test is not for n being one of its own.
Appended(na, n) == (n <= start \/ n > na) /\ args[n] # Positional

\* The arguments a statement gets, as indices into args: its own, and in a loop
\* over all those that are appended.
StmtArgs(na) ==
  LET upTo[n \in 0..Len(args)] ==
        IF n = 0 THEN Own(na)
        ELSE IF Appended(na, n) THEN Append(upTo[n - 1], n) ELSE upTo[n - 1]
  IN  upTo[Len(args)]

\* The parameters the i-th of the arguments a is bound to: that with its
\* ordinal, or all that have its name.
Targets(s, a, i) ==
  IF args[a[i]] = Positional
  THEN {i} \cap DOMAIN s.params
  ELSE {j \in DOMAIN s.params : \E x \in Prefixes : s.params[j] = <<x, args[a[i]]>>}

\* Arguments are bound one after the other, the later over the earlier.
\* 0 is NULL.
Bind(s, a) ==
  [j \in DOMAIN s.params |->
     LET by == {i \in DOMAIN a : j \in Targets(s, a, i)}
     IN  IF by = {} THEN 0 ELSE a[Max(by)]]

-----------------------------------------------------------------------------
(* A call. *)

Goto(l) == pc' = l

\* Begin has a transaction for database/sql, Commit and Rollback end it.
SqlTx(r) == sqlTx' = CASE caller = "begin" -> r = "ok"
                       [] caller \in {"commit", "rollback"} -> FALSE
                       [] OTHER -> sqlTx

\* Faulty variant: Commit does not clean up.
ReturnOnly(r) == Goto("idle") /\ SqlTx(r) /\ ret' = r

\* The call returns.  When COMMIT has failed, Commit has yet to roll back.
Return(r) ==
  /\ Goto(IF caller = "commit" /\ r # "ok" THEN "rollback" ELSE "idle")
  /\ SqlTx(r)
  /\ ret' = r

Stay(l) == Goto(l) /\ UNCHANGED <<ret, sqlTx>>

Finalize == live' = live \ {at}

Start(m, c, q, a) ==
  /\ Goto("prepare")
  /\ method' = m /\ caller' = c /\ query' = q /\ args' = a
  /\ at' = 1 /\ start' = 0
  /\ live' = {} /\ bound' = << >> /\ ret' = "none"
  /\ UNCHANGED <<tx, sqlTx>>

Counted(a) ==
  /\ calls < MaxCalls[args] /\ calls < MaxCalls[a]
  /\ calls' = calls + 1

\* The program calls Exec or Query.
Call ==
  /\ pc = "idle"
  /\ \E a \in ArgLists :
       /\ Counted(a)
       /\ \E m \in {"exec", "query"}, q \in Queries : Start(m, "program", q, a)

\* ROLLBACK is refused only when there is no transaction.
MayFail == query[at].kind = "rollback" => ~tx

PrepareFails ==
  /\ pc = "prepare" /\ MayFail
  /\ Return("error")
  /\ UNCHANGED <<callVars, at, start, live, bound, tx>>

\* exec goes past a comment.
Prepare ==
  /\ pc = "prepare"
  /\ live' = live \cup {at}
  /\ Stay(IF method = "exec" /\ query[at].kind = "comment" THEN "next" ELSE "args")
  /\ UNCHANGED <<callVars, at, start, bound, tx>>

Missing == Len(args) - start < NumInput(query[at])

\* Faulty variant: the statement stays.
ExecMissingLeaves ==
  /\ pc = "args" /\ method = "exec" /\ Missing
  /\ Return("missing")
  /\ UNCHANGED <<callVars, at, start, live, bound, tx>>

\* Not enough arguments: exec closes the statement, ...
ExecMissing ==
  /\ pc = "args" /\ method = "exec" /\ Missing
  /\ Finalize
  /\ Return("missing")
  /\ UNCHANGED <<callVars, at, start, bound, tx>>

\* ... query does not: the garbage collector will.
QueryMissing ==
  /\ pc = "args" /\ method = "query" /\ Missing
  /\ Return("missing")
  /\ UNCHANGED <<callVars, at, start, live, bound, tx>>

\* Faulty variant: the next statement is run all the same.
FailsAndGoesOn ==
  /\ pc = "args" /\ ~Missing /\ MayFail
  /\ tx' \in IF method = "exec" THEN {tx, FALSE} ELSE {tx}
  /\ Stay("next")
  /\ UNCHANGED <<callVars, at, start, live, bound>>

\* bind or sqlite3_step fails; some errors roll the transaction back.
Fails ==
  /\ pc = "args" /\ ~Missing /\ MayFail
  /\ tx' \in IF method = "exec" THEN {tx, FALSE} ELSE {tx}
  /\ Finalize
  /\ Return("error")
  /\ UNCHANGED <<callVars, at, start, bound>>

BindStatement ==
  /\ LET given == StmtArgs(NumInput(query[at]))
     IN  bound' = Append(bound, [stmt |-> at, given |-> given,
                                 vals |-> Bind(query[at], given)])
  /\ start' = start + NumInput(query[at])

\* exec binds and steps.
Step ==
  /\ pc = "args" /\ ~Missing /\ method = "exec"
  /\ \/ query[at].kind = "plain" /\ UNCHANGED tx
     \/ query[at].kind = "begin" /\ ~tx /\ tx' = TRUE
     \/ query[at].kind \in {"commit", "rollback"} /\ tx /\ tx' = FALSE
  /\ BindStatement
  /\ Stay("next")
  /\ UNCHANGED <<callVars, at, live>>

\* query binds, and returns the rows of the last statement for Next to step; the
\* others it does not step.
Query ==
  /\ pc = "args" /\ ~Missing /\ method = "query"
  /\ BindStatement
  /\ IF at = Len(query) THEN Return("ok") ELSE Stay("next")
  /\ UNCHANGED <<callVars, at, live, tx>>

\* Faulty variant: the tail is looked at once too often.
NextPastEnd ==
  /\ pc = "next"
  /\ Finalize
  /\ IF at > Len(query) THEN Return("ok") /\ UNCHANGED at
                        ELSE Stay("prepare") /\ at' = at + 1
  /\ UNCHANGED <<callVars, start, bound, tx>>

\* The statement is closed.  What is left of the query is the next one.
Next_ ==
  /\ pc = "next"
  /\ Finalize
  /\ IF at = Len(query) THEN Return("ok") /\ UNCHANGED at
                        ELSE Stay("prepare") /\ at' = at + 1
  /\ UNCHANGED <<callVars, start, bound, tx>>

-----------------------------------------------------------------------------
(* SQLiteTx.  database/sql calls Commit or Rollback once, after a Begin that  *)
(* has succeeded; the program may use the connection in between.             *)

Transact(c) == Start("exec", c, <<[kind |-> c, params |-> << >>]>>, << >>)

Begin    == pc = "idle" /\ ~sqlTx /\ Counted(<< >>) /\ Transact("begin")
Commit   == pc = "idle" /\ sqlTx /\ UNCHANGED calls /\ Transact("commit")
Rollback == pc = "idle" /\ sqlTx /\ UNCHANGED calls /\ Transact("rollback")

CommitRollsBack ==
  /\ pc = "rollback" /\ UNCHANGED calls
  /\ Start("exec", "cleanup", <<[kind |-> "rollback", params |-> << >>]>>, << >>)

-----------------------------------------------------------------------------
Init ==
  /\ calls = 0 /\ pc = "idle" /\ method = "exec" /\ caller = "program"
  /\ query = << >> /\ args = << >>
  /\ at = 1 /\ start = 0 /\ live = {} /\ bound = << >>
  /\ ret = "none" /\ tx = FALSE /\ sqlTx = FALSE

Next ==
  \/ Call
  \/ Begin \/ Commit \/ Rollback \/ CommitRollsBack
  \/ PrepareFails \/ Prepare \/ ExecMissing \/ QueryMissing \/ Fails
  \/ Step \/ Query \/ Next_

Spec == Init /\ [][Next]_vars

-----------------------------------------------------------------------------
(* Properties *)

TypeOK ==
  /\ calls \in Nat
  /\ pc \in {"idle", "prepare", "args", "next", "rollback"}
  /\ method \in {"exec", "query"}
  /\ caller \in {"program", "begin", "commit", "rollback", "cleanup"}
  /\ query # << >> => at \in DOMAIN query
  /\ Len(args) \in Nat /\ start \in 0..Len(args)
  /\ live \subseteq DOMAIN query
  /\ ret \in {"none", "ok", "missing", "error"}
  /\ tx \in BOOLEAN /\ sqlTx \in BOOLEAN

\* The arguments of the statements before the k-th.
Before(k) == Cardinality(UNION {{j} \X DOMAIN query[j].params : j \in 1..(k - 1)})

\* The arguments fit the query: a ? has a positional argument in its place and
\* a named parameter a named argument, and one argument has its name.
Fits ==
  \A k \in DOMAIN query : \A j \in DOMAIN query[k].params :
    LET name == query[k].params[j][2]
        i    == Before(k) + j
    IN  /\ i <= Len(args) => (args[i] = Positional <=> name = Positional)
        /\ name # Positional => Cardinality({n \in DOMAIN args : args[n] = name}) = 1

\* Every statement gets its own arguments: the positional ones it consumes, and
\* those with the names of its parameters, also when these were consumed by
\* an earlier statement or come after its own.
BindsRight ==
  Fits => \A r \in DOMAIN bound :
    LET k == bound[r].stmt
    IN  \A j \in DOMAIN query[k].params :
          LET name == query[k].params[j][2]
          IN  IF name = Positional THEN bound[r].vals[j] = Before(k) + j
                                   ELSE args[bound[r].vals[j]] = name

\* A call goes through the statements up to where it is, each once and in their
\* order, and none after one that failed; exec leaves out the comments.
Passed == CASE pc = "next" -> 1..at
            [] ret = "ok"  -> 1..Len(query)
            [] OTHER       -> 1..(at - 1)

RunInOrder ==
  /\ \A i, j \in DOMAIN bound : i < j => bound[i].stmt < bound[j].stmt
  /\ {bound[i].stmt : i \in DOMAIN bound} =
       {k \in Passed : method = "exec" => query[k].kind # "comment"}

\* A call that returns has closed its statements, but for the one of the rows,
\* and that for which query has not enough arguments.
Finalized ==
  pc \in {"idle", "rollback"} =>
    live = IF method = "query" /\ ret \in {"ok", "missing"} THEN {at} ELSE {}

\* The comment in Commit: "sqlite3 may leave the transaction open in this
\* scenario. However, database/sql considers the transaction complete once we
\* return from Commit() - we must clean up to honour its semantics."
TxAgree ==
  pc = "idle" =>
    /\ caller = "begin" /\ ret = "ok" => tx
    /\ caller \in {"commit", "cleanup", "rollback"} => ~tx

\* The comment in exec and query: "consume the number of arguments used in the
\* current statement and append all named arguments not contained therein".
AppendsOnlyOthers ==
  \A r \in DOMAIN bound : \A i, j \in DOMAIN bound[r].given :
    bound[r].given[i] = bound[r].given[j] => i = j
=============================================================================
