---------------------------- MODULE MCConnection ----------------------------
(* Connection for TLC: the DSNs, and the symmetry. *)
EXTENDS Connection, TLC

DSN(crypt, create, user) == [crypt |-> crypt, create |-> create, user |-> user]

\* One DSN for each path through Open.
EveryPath == {DSN("none", FALSE, FALSE), DSN("no salt", TRUE, TRUE),
              DSN("none", TRUE, FALSE), DSN("encoder", TRUE, TRUE)}

Symmetry == Permutations(Conns) \cup Permutations(Addresses)
=============================================================================
