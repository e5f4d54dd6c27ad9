-------------------------- MODULE MC_A4091Script --------------------------
(* Model-checking instance of A4091Script.                                 *)
EXTENDS A4091Script

\* Three passes: enough for a snapshot left by one pass to meet the next.
MCMaxPasses == 3
\* Two passes per perf round and one extra round: passes run back to back
\* without a reset, and a round restarts the pass counter.
MCPerfPasses == 2
MCMaxRounds == 1
=============================================================================
