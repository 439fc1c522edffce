-------------------------- MODULE MC_ReadAppLogs --------------------------
(* Two concurrent invocations; two restarts, builds 0..1, one explicit limit. *)
EXTENDS ReadAppLogs, TLC

CONSTANTS r1, r2

MCReaders == {r1, r2}
MCLimits == {5}
=============================================================================
