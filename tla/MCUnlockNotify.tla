--------------------------- MODULE MCUnlockNotify ---------------------------
(* UnlockNotify for TLC.  No symmetry: a liveness property is among those     *)
(* that are checked.                                                        *)
EXTENDS UnlockNotify
=============================================================================
