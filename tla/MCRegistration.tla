--------------------------- MODULE MCRegistration ---------------------------
(* Registration on a small instance: three clients, two of which use the   *)
(* same nick with different passwords.                                     *)
EXTENDS Registration, TLC

ServerSymmetry == Permutations(Servers)

MCNickOf == [c \in Clients |-> IF c = "c3" THEN "bob" ELSE "ann"]
MCPassOf == [c \in Clients |-> IF c = "c2" THEN "q" ELSE "p"]

=============================================================================
