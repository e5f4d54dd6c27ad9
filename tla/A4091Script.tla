---------------------------- MODULE A4091Script ----------------------------
(***************************************************************************)
(* The DMA/SCRIPTS engine of the A4091 test utility as the two DMA tests   *)
(* of test_card use it (src/a4091.c).  test_dma_copy runs, per pass,      *)
(* a4091_reset, dma_mem_to_mem and the polling loop of execute_script;     *)
(* when it passes, test_dma_copy_perf runs rounds of quad-move scripts     *)
(* through dma_mem_to_mem_quad with no reset between passes.  The main     *)
(* line races the SIOP executing the script and the local interrupt       *)
(* server a4091_irq_handler, which snapshots ISTAT into                    *)
(* a4091_save.ireg_istat.  The tests own the card throughout (test_card    *)
(* took it over), so the local server is installed.                        *)
(*                                                                         *)
(* Data is abstracted: the one script moves src to dst, and "moved" says   *)
(* whether the current script's move has happened (the four moves of the   *)
(* quad script are one).  ISTAT is reduced to    *)
(* DIP (ABRT is only set by a4091_abort, whose ISTAT bit a4091_reset       *)
(* clears before any pass), the snapshot to "has DIP or ABRT".            *)
(***************************************************************************)
EXTENDS Naturals

CONSTANTS
  MaxPasses,   \* passes of test_dma_copy's loop (32 in the code)
  PerfPasses,  \* passes of one round of test_dma_copy_perf (16 in the code)
  MaxRounds    \* bound on the extra rounds run_some_more adds while fewer
               \* than 10 ticks have passed (unbounded in the code)

ASSUME MaxPassesAssumption == MaxPasses \in Nat \ {0}
ASSUME PerfAssumption == PerfPasses \in Nat \ {0} /\ MaxRounds \in Nat

PollPeriod == 8       \* (count & 7) == 0: read ISTAT directly
TimeoutPeriod == 32   \* (count & 31) == 0: consult the 30-tick deadline

MainPCs == {"alloc", "init", "pass", "poll", "snapshot", "deadline",
            "verify", "free", "return", "perf_alloc", "restore", "done"}
\* The three points of execute_script's loop between its shared reads.
WaitPCs == {"poll", "snapshot", "deadline"}
DmaTests == {"dma_copy", "dma_copy_perf"}
SiopStates == {"idle", "running", "moved", "halted"}
\* A buffer from AllocMem_aligned: not yet obtained, allocated, or freed.
BufferStates == {"none", "allocated", "freed"}

VARIABLES
  mpc,         \* main line: where test_dma_copy is
  pass,        \* passes started
  count,       \* execute_script's loop counter, modulo TimeoutPeriod
  expired,     \* 30 ticks have passed since tick_start
  ireg_istat,  \* a4091_save.ireg_istat has ABRT or DIP set
  siop,        \* SCRIPTS processor: idle, fetched the move, moved, or
               \* executed the interrupt-and-stop
  moved,       \* the current script's memory move has been done
  dip,         \* ISTAT.DIP (DSTAT.SIR pending)
  dst,         \* the running test's destination buffer
  rc,          \* the running test's rc is non-zero
  test,        \* which of the two tests is running
  round,       \* test_dma_copy_perf's extra rounds so far
  halted_at_poll \* auxiliary: the SIOP had stopped when this iteration of
                 \* execute_script's loop reached its ISTAT poll

vars == <<mpc, pass, count, expired, ireg_istat, siop, moved, dip, dst, rc,
          test, round, halted_at_poll>>
testvars == <<test, round>>

-----------------------------------------------------------------------------
(* The SIOP reset that a4091_reset performs (ISTAT.RST pulse): the         *)
(* SCRIPTS processor stops and DSTAT, hence DIP, is cleared.              *)
SiopReset ==
  /\ siop' = "idle"
  /\ dip' = FALSE

Init ==
  /\ mpc = "alloc"
  /\ pass = 0
  /\ count = 0
  /\ expired = FALSE
  /\ ireg_istat = FALSE
  /\ siop = "idle"
  /\ moved = FALSE
  /\ dip = FALSE
  /\ dst = "none"
  /\ rc = FALSE
  /\ test = "dma_copy"
  /\ round = 0
  /\ halted_at_poll = FALSE

\* test_dma_copy: AllocMem_aligned of src and dst_buf and AllocMem of the
\* bit-flip arrays; any failure returns 1 after freeing what was obtained.
test_dma_copy_alloc ==
  /\ mpc = "alloc"
  /\ \/ /\ dst' = "allocated"
        /\ mpc' = "init"
        /\ UNCHANGED rc
     \/ /\ rc' = TRUE
        /\ mpc' = "return"
        /\ UNCHANGED dst
  /\ UNCHANGED <<pass, count, expired, ireg_istat, siop, moved, dip,
                 testvars, halted_at_poll>>

\* dma_init_siop: a4091_abort, a4091_reset, mode writes, and the drain of
\* pending interrupt causes (reading DSTAT clears DIP).
dma_init_siop ==
  /\ mpc = "init"
  /\ SiopReset
  /\ mpc' = "pass"
  /\ UNCHANGED <<pass, count, expired, ireg_istat, moved, dst, rc,
                 testvars, halted_at_poll>>

\* Mutant: the pass loop runs one pass too many (pass <= MaxPasses).
dma_mem_to_mem_off_by_one ==
  /\ mpc = "pass"
  /\ test = "dma_copy"
  /\ pass <= MaxPasses
  /\ pass' = pass + 1
  /\ siop' = "running"
  /\ dip' = FALSE
  /\ moved' = FALSE
  /\ ireg_istat' = FALSE
  /\ count' = 0
  /\ expired' = FALSE
  /\ mpc' = "poll"
  /\ UNCHANGED <<dst, rc, testvars, halted_at_poll>>

\* One pass up to the polling loop: a4091_reset(); dma_mem_to_mem patches
\* the script, a4091_state_takeover() (owned: no-op), clears ireg_istat;
\* execute_script clears ireg_istat again, writes DSP (the SIOP starts),
\* takes tick_start and enters its loop with count = 0.
dma_mem_to_mem ==
  /\ mpc = "pass"
  /\ test = "dma_copy"
  /\ pass < MaxPasses
  /\ pass' = pass + 1
  /\ siop' = "running"
  /\ dip' = FALSE
  /\ moved' = FALSE
  /\ ireg_istat' = FALSE
  /\ count' = 0
  /\ expired' = FALSE
  /\ mpc' = "poll"
  /\ UNCHANGED <<dst, rc, testvars, halted_at_poll>>

\* Mutant: the polled completion does not read DSTAT, so DIP stays set.
execute_script_istat_no_dstat_read ==
  /\ mpc = "poll"
  /\ halted_at_poll' = (siop = "halted")
  /\ \/ /\ count % PollPeriod = 0 /\ dip
        /\ mpc' = "verify"
     \/ /\ ~(count % PollPeriod = 0 /\ dip)
        /\ mpc' = "snapshot"
  /\ UNCHANGED <<pass, count, expired, ireg_istat, siop, moved, dip, dst, rc,
                 testvars>>

\* execute_script's while (1) loop, first part: every 8th iteration read
\* ISTAT, and on DIP read DSTAT (which clears it) and leave with success.
execute_script_istat ==
  /\ mpc = "poll"
  /\ halted_at_poll' = (siop = "halted")
  /\ \/ /\ count % PollPeriod = 0 /\ dip
        /\ dip' = FALSE
        /\ mpc' = "verify"
     \/ /\ ~(count % PollPeriod = 0 /\ dip)
        /\ mpc' = "snapshot"
        /\ UNCHANGED dip
  /\ UNCHANGED <<pass, count, expired, ireg_istat, siop, moved, dst, rc,
                 testvars>>

\* Mutant: the interrupt server's snapshot is never consulted.
execute_script_snapshot_ignored ==
  /\ mpc = "snapshot"
  /\ mpc' = "deadline"
  /\ UNCHANGED <<pass, count, expired, ireg_istat, siop, moved, dip, dst, rc,
                 testvars, halted_at_poll>>

\* Second part: leave with success if a4091_save.ireg_istat shows DIP.
execute_script_snapshot ==
  /\ mpc = "snapshot"
  /\ mpc' = IF ireg_istat THEN "verify" ELSE "deadline"
  /\ UNCHANGED <<pass, count, expired, ireg_istat, siop, moved, dip, dst, rc,
                 testvars, halted_at_poll>>

\* Mutant: the loop has no deadline check.
execute_script_deadline_none ==
  /\ mpc = "deadline"
  /\ count' = (count + 1) % TimeoutPeriod
  /\ mpc' = "poll"
  /\ UNCHANGED <<pass, expired, ireg_istat, siop, moved, dip, dst, rc,
                 testvars, halted_at_poll>>

\* Third part: every 32nd iteration access_timeout consults the 30-tick
\* deadline and on expiry the loop fails; else count++.
execute_script_deadline ==
  /\ mpc = "deadline"
  /\ \/ /\ count % TimeoutPeriod = 0 /\ expired
        /\ rc' = TRUE
        /\ mpc' = "free"
        /\ UNCHANGED count
     \/ /\ ~(count % TimeoutPeriod = 0 /\ expired)
        /\ count' = (count + 1) % TimeoutPeriod
        /\ mpc' = "poll"
        /\ UNCHANGED rc
  /\ UNCHANGED <<pass, expired, ireg_istat, siop, moved, dip, dst, testvars,
                 halted_at_poll>>

\* The rest of a pass: compare dst with src (a word differs when the move
\* has not landed), then break on a miscompare.
test_dma_copy_verify ==
  /\ mpc = "verify"
  /\ test = "dma_copy"
  /\ rc' = (rc \/ ~moved)
  /\ mpc' = IF rc' THEN "free" ELSE "pass"
  /\ UNCHANGED <<pass, count, expired, ireg_istat, siop, moved, dip, dst,
                 testvars, halted_at_poll>>

\* The for loop's condition fails after the last pass.
test_dma_copy_loop_end ==
  /\ mpc = "pass"
  /\ test = "dma_copy"
  /\ pass >= MaxPasses
  /\ mpc' = "free"
  /\ UNCHANGED <<pass, count, expired, ireg_istat, siop, moved, dip, dst, rc,
                 testvars, halted_at_poll>>

\* After the loop: Permit(), free the protection buffers, dst_buf and src.
test_dma_copy_free ==
  /\ mpc = "free"
  /\ test = "dma_copy"
  /\ dst' = "freed"
  /\ mpc' = "return"
  /\ UNCHANGED <<pass, count, expired, ireg_istat, siop, moved, dip, rc,
                 testvars, halted_at_poll>>

\* test_card after test_dma_copy has returned: on failure the later tests
\* are skipped; otherwise test_dma_copy_perf (BIT(6)) runs next.
test_card_next ==
  /\ mpc = "return"
  /\ mpc' = IF rc THEN "restore" ELSE "perf_alloc"
  /\ UNCHANGED <<pass, count, expired, ireg_istat, siop, moved, dip, dst, rc,
                 testvars, halted_at_poll>>

\* test_dma_copy_perf up to its pass loop: a4091_reset, AllocMem_aligned of
\* src and dst (a failure returns 1 after freeing src), a4091_reset and
\* dma_init_siop.
test_dma_copy_perf_alloc ==
  /\ mpc = "perf_alloc"
  /\ SiopReset
  /\ rc' = FALSE
  /\ test' = "dma_copy_perf"
  /\ \/ /\ dst' = "allocated"
        /\ pass' = 0
        /\ round' = 0
        /\ mpc' = "pass"
     \/ /\ rc' = TRUE
        /\ mpc' = "restore"
        /\ UNCHANGED <<dst, pass, round>>
  /\ UNCHANGED <<count, expired, ireg_istat, moved, halted_at_poll>>

\* One pass of test_dma_copy_perf: dma_mem_to_mem_quad patches the quad
\* script on the first pass, takes the card over (owned: no-op), clears
\* ireg_istat and runs execute_script.  No a4091_reset precedes it, so a DIP
\* left pending by the previous pass would still be set.
dma_mem_to_mem_quad ==
  /\ mpc = "pass"
  /\ test = "dma_copy_perf"
  /\ pass < PerfPasses
  /\ pass' = pass + 1
  /\ siop' = "running"
  /\ moved' = FALSE
  /\ ireg_istat' = FALSE
  /\ count' = 0
  /\ expired' = FALSE
  /\ mpc' = "poll"
  /\ UNCHANGED <<dip, dst, rc, testvars, halted_at_poll>>

\* A pass of test_dma_copy_perf whose script returned 0: nothing is
\* compared, the for loop goes on.
test_dma_copy_perf_next ==
  /\ mpc = "verify"
  /\ test = "dma_copy_perf"
  /\ mpc' = "pass"
  /\ UNCHANGED <<pass, count, expired, ireg_istat, siop, moved, dip, dst, rc,
                 testvars, halted_at_poll>>

\* After 16 passes: while fewer than 10 ticks have passed, goto
\* run_some_more for another round; else report and leave the loop.
test_dma_copy_perf_round ==
  /\ mpc = "pass"
  /\ test = "dma_copy_perf"
  /\ pass >= PerfPasses
  /\ \/ /\ round < MaxRounds
        /\ round' = round + 1
        /\ pass' = 0
        /\ UNCHANGED mpc
     \/ /\ mpc' = "free"
        /\ UNCHANGED <<pass, round>>
  /\ UNCHANGED <<count, expired, ireg_istat, siop, moved, dip, dst, rc, test,
                 halted_at_poll>>

\* The end of test_dma_copy_perf, after a timeout too: FreeMem dst and src.
test_dma_copy_perf_free ==
  /\ mpc = "free"
  /\ test = "dma_copy_perf"
  /\ dst' = "freed"
  /\ mpc' = "restore"
  /\ UNCHANGED <<pass, count, expired, ireg_istat, siop, moved, dip, rc,
                 testvars, halted_at_poll>>

\* The a4091_state_restore at the end of test_card resets the SIOP.
a4091_state_restore ==
  /\ mpc = "restore"
  /\ SiopReset
  /\ mpc' = "done"
  /\ UNCHANGED <<pass, count, expired, ireg_istat, moved, dst, rc,
                 testvars, halted_at_poll>>

-----------------------------------------------------------------------------
(* The environment: the SIOP, the tick clock and the interrupt.           *)

\* The SIOP performs the memory move of the script, or the four moves of
\* the quad script (writes dst).
SiopMove ==
  /\ siop = "running"
  /\ siop' = "moved"
  /\ moved' = TRUE
  /\ UNCHANGED <<mpc, pass, count, expired, ireg_istat, dip, dst, rc,
                 testvars, halted_at_poll>>

\* The SIOP executes INT (0x98080000): DSTAT.SIR, ISTAT.DIP, and it stops.
SiopInterrupt ==
  /\ siop = "moved"
  /\ siop' = "halted"
  /\ dip' = TRUE
  /\ UNCHANGED <<mpc, pass, count, expired, ireg_istat, moved, dst, rc,
                 testvars, halted_at_poll>>

\* The SIOP stops on a fault before finishing the script: a bus fault, a
\* DMA watchdog timeout (a4091_reset arms DWT) or an illegal instruction
\* sets DSTAT.BF, WTD or ILD and ISTAT.DIP, as SIR does.
SiopFault ==
  /\ siop \in {"running", "moved"}
  /\ siop' = "halted"
  /\ dip' = TRUE
  /\ UNCHANGED <<mpc, pass, count, expired, ireg_istat, moved, dst, rc,
                 testvars, halted_at_poll>>

\* The tick clock passes execute_script's 30-tick deadline.
Tick ==
  /\ mpc \in WaitPCs
  /\ ~expired
  /\ expired' = TRUE
  /\ UNCHANGED <<mpc, pass, count, ireg_istat, siop, moved, dip, dst, rc,
                 testvars, halted_at_poll>>

\* a4091_irq_handler, run on level 2 when the SIOP raises its IRQ: with
\* DIP (or SIP) in ISTAT it stores ISTAT in ireg_istat and reads SIEN,
\* SSTAT0 and DSTAT (the DSTAT read clears DIP).
a4091_irq_handler ==
  /\ dip
  /\ ireg_istat' = TRUE
  /\ dip' = FALSE
  /\ UNCHANGED <<mpc, pass, count, expired, siop, moved, dst, rc,
                 testvars, halted_at_poll>>

Done == mpc = "done" /\ UNCHANGED vars

MainLine == \/ test_dma_copy_alloc \/ dma_init_siop \/ dma_mem_to_mem
            \/ execute_script_istat \/ execute_script_snapshot
            \/ execute_script_deadline \/ test_dma_copy_verify
            \/ test_dma_copy_loop_end \/ test_dma_copy_free \/ test_card_next
            \/ test_dma_copy_perf_alloc \/ dma_mem_to_mem_quad
            \/ test_dma_copy_perf_next \/ test_dma_copy_perf_round
            \/ test_dma_copy_perf_free \/ a4091_state_restore

Environment == SiopMove \/ SiopInterrupt \/ SiopFault \/ Tick
               \/ a4091_irq_handler

Next == MainLine \/ Environment \/ Done

\* The main line and the tick clock always progress; the SIOP may hang and
\* the interrupt may never be delivered (DIEN is left 0 by a4091_reset).
Spec == Init /\ [][Next]_vars /\ WF_vars(MainLine) /\ WF_vars(Tick)

-----------------------------------------------------------------------------
(* Properties.                                                            *)

TypeOK ==
  /\ mpc \in MainPCs
  /\ pass \in 0..(IF MaxPasses > PerfPasses THEN MaxPasses ELSE PerfPasses)
  /\ count \in 0..(TimeoutPeriod - 1)
  /\ expired \in BOOLEAN
  /\ ireg_istat \in BOOLEAN
  /\ siop \in SiopStates
  /\ moved \in BOOLEAN
  /\ dip \in BOOLEAN
  /\ dst \in BufferStates
  /\ rc \in BOOLEAN
  /\ test \in DmaTests
  /\ round \in 0..MaxRounds
  /\ halted_at_poll \in BOOLEAN

\* execute_script reports completion (returns 0) only when the SIOP has
\* stopped the script of the current pass, by its INT or by a fault: a DIP
\* or a snapshot left over from an earlier pass (test_dma_copy_perf does
\* not reset between passes) never ends the wait while the SIOP still runs.
CompletionIsCurrent ==
  mpc = "verify" => siop = "halted"

\* execute_script never reports a timeout for a script the SIOP had stopped
\* by the time that iteration of the loop polled ISTAT: the direct poll
\* (every 8th count) or the interrupt server's snapshot sees it before the
\* deadline check (every 32nd count) can fire.
TimeoutOnlyIfUnfinished ==
  [][(mpc = "deadline" /\ mpc' = "free") => ~halted_at_poll]_vars

\* execute_script always returns, whether or not the SIOP completes.
ScriptReturns ==
  (mpc \in WaitPCs) ~> (mpc \notin WaitPCs)

\* The SIOP never writes into a buffer test_dma_copy has freed.
NoDmaIntoFreedBuffer ==
  [][(~moved /\ moved') => dst = "allocated"]_vars

=============================================================================
