------------------------- MODULE A4091Script_proofs -------------------------
(***************************************************************************)
(* Proofs, for every number of passes and rounds, that the DMA tests of    *)
(* src/a4091.c keep their state well typed, report completion only for a *)
(* SIOP that has stopped the current pass's script, and never report a    *)
(* timeout for a script that had stopped when its iteration polled ISTAT. *)
(***************************************************************************)
EXTENDS A4091Script, TLAPS

-----------------------------------------------------------------------------
(* Type correctness.                                                      *)

(* The larger of the two pass bounds, which TypeOK allows for pass.       *)
PassBound == IF MaxPasses > PerfPasses THEN MaxPasses ELSE PerfPasses

(* TypeOK without its three counters; the provers take the counters,      *)
(* which need arithmetic, and the flags in separate steps.                 *)
TypeFlags ==
  /\ mpc \in MainPCs
  /\ expired \in BOOLEAN
  /\ ireg_istat \in BOOLEAN
  /\ siop \in SiopStates
  /\ moved \in BOOLEAN
  /\ dip \in BOOLEAN
  /\ dst \in BufferStates
  /\ rc \in BOOLEAN
  /\ test \in DmaTests
  /\ halted_at_poll \in BOOLEAN

(* The three counters of TypeOK.                                          *)
TypeCounters ==
  /\ pass \in 0..PassBound
  /\ count \in 0..(TimeoutPeriod - 1)
  /\ round \in 0..MaxRounds

(* TypeOK is the conjunction of the two parts.                            *)
LEMMA TypeSplit == TypeOK <=> TypeFlags /\ TypeCounters
BY Zenon DEF TypeOK, TypeFlags, TypeCounters, PassBound

(* Every step keeps the counters in range: a pass starts only below its   *)
(* test's bound, count wraps modulo 32, and a round is added only below   *)
(* MaxRounds.                                                              *)
LEMMA CounterStep ==
  ASSUME TypeCounters, [Next]_vars
  PROVE  TypeCounters'
<1> USE MaxPassesAssumption, PerfAssumption
<1>1. CASE dma_mem_to_mem
  <2>1. pass < MaxPasses /\ pass' = pass + 1 /\ count' = 0 /\ round' = round
    BY <1>1 DEF dma_mem_to_mem, testvars
  <2>2. pass \in Nat /\ MaxPasses <= PassBound
    BY DEF TypeCounters, PassBound
  <2> QED
    BY <2>1, <2>2 DEF TypeCounters, TimeoutPeriod, PassBound
<1>2. CASE dma_mem_to_mem_quad
  <2>1. pass < PerfPasses /\ pass' = pass + 1 /\ count' = 0 /\ round' = round
    BY <1>2 DEF dma_mem_to_mem_quad, testvars
  <2>2. pass \in Nat /\ PerfPasses <= PassBound
    BY DEF TypeCounters, PassBound
  <2> QED
    BY <2>1, <2>2 DEF TypeCounters, TimeoutPeriod, PassBound
<1>3. CASE execute_script_deadline
  BY <1>3 DEF execute_script_deadline, TypeCounters, TimeoutPeriod, testvars
<1>4. CASE test_dma_copy_perf_alloc
  BY <1>4 DEF test_dma_copy_perf_alloc, TypeCounters, PassBound
<1>5. CASE test_dma_copy_perf_round
  BY <1>5 DEF test_dma_copy_perf_round, TypeCounters, PassBound
<1>6. CASE ~dma_mem_to_mem /\ ~dma_mem_to_mem_quad
           /\ ~execute_script_deadline /\ ~test_dma_copy_perf_alloc
           /\ ~test_dma_copy_perf_round
  BY <1>6 DEF Next, MainLine, Environment, test_dma_copy_alloc,
              dma_init_siop, execute_script_istat, execute_script_snapshot,
              test_dma_copy_verify, test_dma_copy_loop_end,
              test_dma_copy_free, test_card_next, test_dma_copy_perf_next,
              test_dma_copy_perf_free, a4091_state_restore, SiopMove,
              SiopInterrupt, SiopFault, Tick, a4091_irq_handler, Done, vars,
              SiopReset, testvars, TypeCounters, PassBound, TimeoutPeriod
<1> QED
  BY <1>1, <1>2, <1>3, <1>4, <1>5, <1>6

(* Every step keeps the flags and control states in their sets.            *)
LEMMA FlagStep ==
  ASSUME TypeFlags, [Next]_vars
  PROVE  TypeFlags'
<1>1. CASE execute_script_istat \/ execute_script_snapshot
           \/ execute_script_deadline
  BY <1>1, Zenon DEF execute_script_istat, execute_script_snapshot,
     execute_script_deadline, TypeFlags, MainPCs, testvars
<1>4. CASE MainLine /\ ~execute_script_istat /\ ~execute_script_snapshot
           /\ ~execute_script_deadline
  BY <1>4, Zenon DEF MainLine, test_dma_copy_alloc, dma_init_siop,
     dma_mem_to_mem, test_dma_copy_verify,
     test_dma_copy_loop_end, test_dma_copy_free, test_card_next,
     test_dma_copy_perf_alloc, dma_mem_to_mem_quad, test_dma_copy_perf_next,
     test_dma_copy_perf_round, test_dma_copy_perf_free, a4091_state_restore,
     SiopReset, TypeFlags, MainPCs, SiopStates, BufferStates, DmaTests,
     testvars
<1>2. CASE Environment
  BY <1>2, Zenon DEF Environment, SiopMove, SiopInterrupt, SiopFault, Tick,
     a4091_irq_handler, TypeFlags, SiopStates, testvars
<1>3. CASE Done \/ UNCHANGED vars
  BY <1>3 DEF Done, vars, TypeFlags
<1> QED
  BY <1>1, <1>2, <1>3, <1>4 DEF Next

(* The initial state is well typed.                                        *)
LEMMA TypeInit == Init => TypeOK
<1> SUFFICES ASSUME Init PROVE TypeFlags /\ TypeCounters
  BY TypeSplit
<1>1. TypeFlags
  BY Zenon DEF Init, TypeFlags, MainPCs, SiopStates, BufferStates, DmaTests
<1>2. TypeCounters
  BY MaxPassesAssumption, PerfAssumption
     DEF Init, TypeCounters, PassBound, TimeoutPeriod
<1> QED
  BY <1>1, <1>2

(* Every step keeps the state well typed.                                *)
LEMMA TypeStep == TypeOK /\ [Next]_vars => TypeOK'
<1> SUFFICES ASSUME TypeOK, [Next]_vars PROVE TypeFlags' /\ TypeCounters'
  BY Zenon DEF TypeOK, TypeFlags, TypeCounters, PassBound
<1>1. TypeFlags /\ TypeCounters
  BY TypeSplit
<1> QED
  BY <1>1, CounterStep, FlagStep

(* In every reachable state the pass counter is within the larger bound,  *)
(* execute_script's counter is below 32 and the round count within         *)
(* MaxRounds.                                                              *)
THEOREM TypeCorrect == Spec => []TypeOK
BY TypeInit, TypeStep, PTL DEF Spec

-----------------------------------------------------------------------------
(* Completion and timeout.                                                 *)

(* The strengthening that every step preserves.  DIP is only pending from *)
(* a halted SIOP (its INT or a fault); while execute_script waits, a      *)
(* halted SIOP has left DIP pending or the snapshot set (the handler's    *)
(* DSTAT read moved the one into the other), and a set snapshot means the *)
(* handler has cleared DIP; a pass is verified only with the SIOP halted  *)
(* and DIP clear; a pass starts with DIP clear and no script running,     *)
(* which test_dma_copy_perf relies on as it does not reset between        *)
(* passes.  The last three conjuncts follow one iteration whose ISTAT     *)
(* poll found the SIOP halted: on a multiple of 8 the poll saw DIP or the *)
(* snapshot is set, so such an iteration reaches the deadline check only  *)
(* off a multiple of 8.                                                    *)
Completion ==
  /\ dip => siop = "halted"
  /\ (mpc \in WaitPCs /\ siop = "halted") => (dip \/ ireg_istat)
  /\ (mpc \in WaitPCs /\ ireg_istat) => (siop = "halted" /\ ~dip)
  /\ mpc = "verify" => (siop = "halted" /\ ~dip)
  /\ mpc = "pass" => (~dip /\ siop \in {"idle", "halted"})
  /\ (mpc \in {"snapshot", "deadline"} /\ halted_at_poll) => siop = "halted"
  /\ (mpc = "snapshot" /\ halted_at_poll /\ count % PollPeriod = 0)
       => ireg_istat
  /\ (mpc = "deadline" /\ halted_at_poll) => count % PollPeriod # 0

IInv == TypeOK /\ Completion

(* The ISTAT poll of execute_script's loop keeps Completion.              *)
LEMMA IstatStep ==
  ASSUME IInv, execute_script_istat
  PROVE  Completion'
BY DEF execute_script_istat, IInv, TypeOK, Completion, WaitPCs

(* The snapshot check keeps Completion.                                    *)
LEMMA SnapshotStep ==
  ASSUME IInv, execute_script_snapshot
  PROVE  Completion'
BY DEF execute_script_snapshot, IInv, TypeOK, Completion, WaitPCs

(* The deadline check keeps Completion: it leaves for the next poll or    *)
(* for the free, where no conjunct about the iteration applies.            *)
LEMMA DeadlineStep ==
  ASSUME IInv, execute_script_deadline
  PROVE  Completion'
BY DEF execute_script_deadline, IInv, TypeOK, Completion, WaitPCs

(* Starting a pass (either test) keeps Completion: the script runs from   *)
(* the start with DIP clear and no snapshot.                               *)
LEMMA StartStep ==
  ASSUME IInv, dma_mem_to_mem \/ dma_mem_to_mem_quad
  PROVE  Completion'
BY DEF dma_mem_to_mem, dma_mem_to_mem_quad, IInv, Completion, WaitPCs

(* The SIOP, the clock and the interrupt server keep Completion.           *)
LEMMA EnvironmentStep ==
  ASSUME IInv, Environment
  PROVE  Completion'
BY DEF Environment, SiopMove, SiopInterrupt, SiopFault, Tick,
       a4091_irq_handler, IInv, Completion, WaitPCs

(* The remaining steps of the main line keep Completion.                   *)
LEMMA OtherStep ==
  ASSUME IInv, MainLine, ~execute_script_istat, ~execute_script_snapshot,
         ~execute_script_deadline, ~dma_mem_to_mem, ~dma_mem_to_mem_quad
  PROVE  Completion'
BY DEF MainLine, test_dma_copy_alloc, dma_init_siop, test_dma_copy_verify,
       test_dma_copy_loop_end, test_dma_copy_free, test_card_next,
       test_dma_copy_perf_alloc, test_dma_copy_perf_next,
       test_dma_copy_perf_round, test_dma_copy_perf_free,
       a4091_state_restore, SiopReset, IInv, Completion, WaitPCs

(* The strengthened invariant holds initially and every step keeps it.   *)
THEOREM IInvCorrect == Spec => []IInv
<1>1. Init => Completion
  BY DEF Init, Completion, WaitPCs
<1>2. IInv /\ [Next]_vars => Completion'
  <2> SUFFICES ASSUME IInv, [Next]_vars PROVE Completion'
    OBVIOUS
  <2>1. CASE Done \/ UNCHANGED vars
    BY <2>1 DEF Done, vars, IInv, Completion
  <2> QED
    BY <2>1, IstatStep, SnapshotStep, DeadlineStep, StartStep,
       EnvironmentStep, OtherStep DEF Next
<1>3. IInv /\ [Next]_vars => TypeOK'
  BY TypeStep DEF IInv
<1> QED
  BY <1>1, <1>2, <1>3, TypeInit, PTL DEF Spec, IInv

(* execute_script returns 0 to a pass only when the SIOP has stopped that *)
(* pass's script, for any number of passes and rounds: neither a DIP nor  *)
(* a snapshot left by an earlier pass ends the wait for the current one.  *)
THEOREM CompletionIsCurrentCorrect == Spec => []CompletionIsCurrent
<1>1. IInv => CompletionIsCurrent
  BY DEF IInv, Completion, CompletionIsCurrent
<1> QED
  BY <1>1, IInvCorrect, PTL

(* execute_script never times out on a script that had stopped when that  *)
(* iteration polled ISTAT: the deadline is consulted when count is a       *)
(* multiple of 32, hence of 8, and such an iteration with a halted SIOP   *)
(* has left by the poll or by the snapshot before the deadline check.     *)
THEOREM TimeoutOnlyIfUnfinishedCorrect == Spec => TimeoutOnlyIfUnfinished
<1>1. IInv /\ [Next]_vars
        => [(mpc = "deadline" /\ mpc' = "free") => ~halted_at_poll]_vars
  <2> SUFFICES ASSUME IInv, [Next]_vars, mpc = "deadline", mpc' = "free"
               PROVE  ~halted_at_poll
    OBVIOUS
  <2>1. execute_script_deadline
    BY DEF Next, MainLine, Environment, test_dma_copy_alloc, dma_init_siop,
           dma_mem_to_mem, execute_script_istat, execute_script_snapshot,
           test_dma_copy_verify, test_dma_copy_loop_end,
           test_dma_copy_free, test_card_next, test_dma_copy_perf_alloc,
           dma_mem_to_mem_quad, test_dma_copy_perf_next,
           test_dma_copy_perf_round, test_dma_copy_perf_free,
           a4091_state_restore, SiopMove, SiopInterrupt, SiopFault, Tick,
           a4091_irq_handler, Done, vars
  <2>2. count % TimeoutPeriod = 0
    BY <2>1 DEF execute_script_deadline
  <2>3. count % TimeoutPeriod = 0 => count % PollPeriod = 0
    BY DEF IInv, TypeOK, TimeoutPeriod, PollPeriod
  <2> QED
    BY <2>2, <2>3 DEF IInv, Completion
<1> QED
  BY <1>1, IInvCorrect, PTL DEF Spec, TimeoutOnlyIfUnfinished

=============================================================================
