----------------------------- MODULE BlockedWait -----------------------------
(***************************************************************************)
(* What a blocking step promises in shared-cache mode: a connection that    *)
(* was refused a lock waits for the transaction that holds it, goes on      *)
(* only when that transaction has concluded, and is refused the wait only   *)
(* when it would close a cycle of connections waiting for each other.       *)
(***************************************************************************)
EXTENDS Naturals, FiniteSets

CONSTANTS Conns, None

VARIABLES
  state,     \* each connection: "running", "waiting" or "refused"
  blocker,   \* the connection whose open transaction blocked it last
  waitsFor   \* the connection it has asked to be notified by

vars == <<state, blocker, waitsFor>>

Init ==
  /\ state = [c \in Conns |-> "running"]
  /\ blocker = [c \in Conns |-> None]
  /\ waitsFor = [c \in Conns |-> None]

\* The connection the chain of waits that begins at c's blocker leads to: c
\* itself, when waiting would be a deadlock.
ChainEnd(c) ==
  LET walk[n \in 0..Cardinality(Conns)] ==
        IF n = 0 THEN blocker[c]
        ELSE IF walk[n - 1] \in {None, c} THEN walk[n - 1]
        ELSE waitsFor[walk[n - 1]]
  IN walk[Cardinality(Conns)]

Block(c, b) ==
  /\ state[c] = "running" /\ b # c
  /\ state' = [state EXCEPT ![c] = "waiting"]
  /\ blocker' = [blocker EXCEPT ![c] = b]
  /\ UNCHANGED waitsFor

Register(c) ==
  /\ state[c] = "waiting" /\ blocker[c] # None /\ ChainEnd(c) # c
  /\ waitsFor' = [waitsFor EXCEPT ![c] = blocker[c]]
  /\ UNCHANGED <<state, blocker>>

Refuse(c) ==
  /\ state[c] = "waiting" /\ ChainEnd(c) = c
  /\ state' = [state EXCEPT ![c] = "refused"]
  /\ UNCHANGED <<blocker, waitsFor>>

\* b's transaction concludes: nobody is blocked by it or waits for it.
Conclude(b) ==
  /\ state[b] = "running"
  /\ blocker' = [c \in Conns |-> IF blocker[c] = b THEN None ELSE blocker[c]]
  /\ waitsFor' = [c \in Conns |-> IF waitsFor[c] = b THEN None ELSE waitsFor[c]]
  /\ UNCHANGED state

Resume(c) ==
  /\ state[c] = "waiting" => blocker[c] = None
  /\ state[c] # "running"
  /\ state' = [state EXCEPT ![c] = "running"]
  /\ UNCHANGED <<blocker, waitsFor>>

Next ==
  \E c \in Conns : \/ \E b \in Conns : Block(c, b)
                   \/ Register(c) \/ Refuse(c) \/ Conclude(c) \/ Resume(c)

Spec == Init /\ [][Next]_vars

-----------------------------------------------------------------------------
\* No connections wait for each other in a circle when each one waits for w[c].
Acyclic(w) == \A S \in SUBSET Conns : S # {} => \E c \in S : w[c] \notin S

\* The waits never do.
NoCycle == Acyclic(waitsFor)
=============================================================================
