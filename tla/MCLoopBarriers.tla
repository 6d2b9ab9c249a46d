--------------------------- MODULE MCLoopBarriers ---------------------------
(* Model of LoopBarriers for TLC.  A tick is 125 ms: the guard's window is   *)
(* two ticks, the sockets' four.                                             *)
EXTENDS LoopBarriers

CONSTANTS a, b, c, s1, s2, s3

\* Two containers with two networks each share one of them, and a third is in
\* the same pod as the first.
SharedLinks == (a :> <<s1, s2>>) @@ (b :> <<s3, s2>>) @@ (c :> <<s1, s2>>)

\* The instance meets what the theorems ask for, with nothing to spare.
ASSUME InstanceIsTight ==
  /\ CopiesReturnInTime /\ MaxDelay + 1 = Window
  /\ SendsAreApart /\ Gap = selfEchoWindow + 2 * MaxDelay
  /\ ClientsAreReached
============================================================================
