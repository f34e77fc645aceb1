------------------------------- MODULE MCBatch -------------------------------
(* Batch for TLC: the statements the queries are made of, all queries of up   *)
(* to three of them, and all lists of up to four arguments.                   *)
EXTENDS Batch, TLC

CONSTANTS a, b, Several

Stmt(kind, params) == [kind |-> kind, params |-> params]
Question == <<"", Positional>>

Plain == {Stmt("plain", << >>), Stmt("plain", <<Question>>), Stmt("plain", << <<":", a>> >>),
          Stmt("plain", << <<"@", a>>, Question>>)}
Control == {Stmt("begin", << >>), Stmt("commit", << >>), Stmt("rollback", << >>)}
Comment == Stmt("comment", << >>)

SeqsUpTo(S, n) == UNION {[1..k -> S] : k \in 1..n}

\* With arguments one call, of any statements that have parameters or not; without,
\* several calls of statements that begin and end transactions.
MCQueries  == SeqsUpTo(Plain \cup {Comment}, 3)
                \cup SeqsUpTo(Control \cup {Stmt("plain", << >>), Comment}, 3)
MCArgLists == {<< >>} \cup SeqsUpTo({a, b, Positional}, 4)

MCMaxCalls == [l \in MCArgLists |-> IF l = << >> THEN Several ELSE 1]
=============================================================================
