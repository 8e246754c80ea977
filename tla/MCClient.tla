------------------------------ MODULE MCClient ------------------------------
(* Client on a small instance. *)
EXTENDS Client

CONSTANTS a, b

(* One client switches channels once, and types one line in a session. *)
OneSwitches == [c \in Clients |-> IF c = a THEN 2 ELSE 1]
OneTypes == [c \in Clients |-> IF c = a THEN 1 ELSE 0]

=============================================================================
