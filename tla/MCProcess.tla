----------------------------- MODULE MCProcess -----------------------------
(* Model of Process for TLC. *)
EXTENDS Process

\* Both sides of every comparison that Parse and NewUnixServer make: modes 0,
\* 0o777 and 0o1000, timeouts 0 and 1.
AllFlags == [args : BOOLEAN, socket : {"none", "relative", "absolute"},
             timeout : {0, 1}, mode : {0, 511, 512}, group : {"none", "unknown"}]
============================================================================
