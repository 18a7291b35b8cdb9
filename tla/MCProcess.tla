----------------------------- MODULE MCProcess -----------------------------
(* Small instances of Process for TLC. *)
EXTENDS Process

AllCalls == CallNames
TableCalls == CallNames \ {"futex_wait", "futex_wake", "sleep"}
NoKill == CallNames \ {"kill"}
YieldCalls == {"yield", "exit", "signal", "futex_wait"}
=============================================================================
