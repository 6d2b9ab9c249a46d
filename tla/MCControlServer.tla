-------------------------- MODULE MCControlServer --------------------------
(* Model of ControlServer for TLC. *)
EXTENDS ControlServer, TLC

CONSTANTS p1, p2, p3, ctr1

\* A container that is restarted with another PID; POST serves p3.
TwoPids == [c \in {ctr1} |-> {p1, p2}]
OnePid == [c \in {ctr1} |-> {p1}]

Symmetry == Permutations(Callers) \cup Permutations(Insts)
============================================================================
