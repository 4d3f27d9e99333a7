---------------------------- MODULE MCUserRegistry ----------------------------
(* Instance of UserRegistry for TLC.                                       *)
EXTENDS UserRegistry, TLC

(* They are only compared for equality.                                    *)
Symmetry == Permutations(Workers) \cup Permutations(Names) \cup Permutations(Passwords)
===============================================================================
