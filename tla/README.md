# TLA+ models of the A4091 test utility

This directory holds TLA+ models of `src/a4091.c`. That file is the
whole AmigaOS command-line utility that tests, inspects and exercises
the Commodore A4091 Zorro III SCSI card. The card's SCSI controller is
an NCR 53C710 SIOP. The modules model the parts of the program whose
correctness depends on ordering and concurrency. There are three actors.
The program's main line runs alone. The SIOP executes SCRIPTS on its
own. Interrupt servers are called by the OS at level 2 and share vector 3
(`INTB_PORTS`) with the resident SCSI driver (`NCR SCSI`). A fourth
module models the register test against a chip with a faulty data bus
or faulty register bits. TLC checks small instances. TLAPS proves these results for
every instance:
- the ownership results, and the refinement of the takeover controller
  to an abstract session machine;
- that no driver server is lost, that the drivers return at exit, and
  that access to the card is exclusive, each under the hypothesis of its
  run;
- the DMA test's completion results;
- that `dma_init_siop` leaves no abort in flight;
- that the register test passes a healthy chip, detects every fault of
  four classes (stuck pins, bridges, stuck SCRATCH or TEMP bits, stuck
  checked bits), and reports exactly the faulty pins of every chip with
  disjoint two-pin bridges, for any loop of at least 32 iterations.

## The system and its parts

| Part | Code | How it interacts |
|---|---|---|
| Register access layer | `get_ncrreg8`, `set_ncrreg8`, `get_ncrreg32`, `set_ncrreg32` (531-567); `get_creg` (274-279); `access_timeout` (577-602) | Used by everything that touches the card. DSTAT and SSTAT0 clear on read. |
| Interrupt adapter | `a4091_irq_handler` (659-683); `a4091_add_local_irq_handler` and `a4091_remove_local_irq_handler` (686-711) | Puts the utility's own server, "A4091 test", on vector 3. The server snapshots ISTAT into `a4091_save.ireg_istat`. |
| Driver evictor | `kill_driver` (858-866); `a4091_disable_driver_irq_handler` (722-754); `a4091_disable_handler_process` (768-796) | Removes the resident driver's servers and its handler task (`-k`). The devlist step is compiled out. |
| Takeover/restore controller | `a4091_state_takeover` (925-1011); `a4091_state_restore` (875-906); `a4091_enable_driver_irq_handler` (757-765); `a4091_cleanup` (914-917) | Seizes the card for the utility and gives it back. The release also runs at exit, through `atexit`. |
| SIOP initialisation | `a4091_reset` (610-629); `a4091_abort` (637-651); `dma_init_siop` (1066-1114) | Resets the chip, sets the DMA mode, and drains pending interrupts. |
| DMA/SCRIPTS engine | `execute_script` (1117-1159); `dma_mem_to_mem` (1342-1363); the script arrays (1024-1063) | Starts a script and polls until it completes or 30 ticks pass. |
| Register test | `test_register_access` (1714-1809); `check_ncrreg_bits` (1576-1587) | Checks reserved and status bits, then walks a pattern through SCRATCH and TEMP and classifies the data pins that misbehave. |
| Test engine | `test_card` (2886-2936) and the eight tests it dispatches | Takes the card over, runs the tests selected by `-0`..`-7` with `check_break` between them, and restores the card. |
| Decoders | `decode_autoconfig`, `decode_registers`, `decode_switches` | Read and print only. |
| Discovery | `a4091_find`, `a4091_list` | Walk expansion.library's board list. |
| Dispatcher | `main` (3113-3281); `check_break` (237-243) | Parses the flags, optionally kills the driver, and loops (`-L`). |

## Modules

### `A4091Takeover`: ownership of the card and of vector 3

**State:**
- `chain`: the set of servers on `IntVects[3]`. It holds `Drivers`, a set of model values, and `Local`.
- `driver_isr`, `card_owned` and `cleanup_installed`: the fields of `a4091_save`. The value `NoServer` stands for the null handle.
- `handler_task`: the driver's "A3090 SCSI handler" task still exists.
- `pc`: the main line's position in `main` and `test_card`.
- `flags`: the command line. `rc` and `trc` are the two return codes, and `t` is the test slot.
- `shared_by`: a history variable. It records every operation that accessed the card while a driver server was still on the chain.

**Actions.** There is one action per handler, and each models the whole call:

| Action | Code |
|---|---|
| `Start` | the checks in `main` before the loop: usage, enforcer, card found |
| `kill_driver` | reset, disable the servers, remove the task |
| `Body` | one pass through the `do` loop's `if`s |
| `dma_init_siop` | `dma_init_siop` as `main` calls it for `-D` |
| `dma_mem_to_mem` | its takeover, then the script's outcome |
| `test_card_start` | `test_card`'s takeover |
| `test_card_step` | one `check_break` and one test slot |
| `test_card_end` | `test_card`'s final restore |
| `Check` | the `check_break` and `while` at the bottom of `main`'s loop |
| `Exit` | `exit` running the atexit cleanup |

The calls these actions share are operators:
- `a4091_add_local_irq_handler`;
- `a4091_disable_driver_irq_handler`. It removes every `NCR SCSI` server and saves one of them. Which one is chosen nondeterministically, because the code saves the last one on the list and the model's chain is an unordered set;
- `a4091_enable_driver_irq_handler` and `a4091_remove_local_irq_handler`;
- `a4091_state_takeover` and `a4091_state_restore`. Both keep the code's order of reset, add and remove.

**Simplifications:**
- Each test is a slot that may pass or fail.
- An interrupt server never changes the chain, so the servers add nothing to this module. They are modelled in `A4091Script`.

### `A4091Session`: what the controller promises

This is the abstract specification of spec section 4.4. It has three variables:
- `session`, which is RELEASED or OWNED;
- `registered`: the release is registered as an exit action;
- `alive`: the process has not exited.

Its actions are `Seize`, `Release` and `Exit`. `Exit` requires that an owned session has its release registered, and it leaves the session RELEASED.

`A4091Takeover` defines `Session` as `INSTANCE A4091Session` with this mapping:
- `session` is OWNED exactly when `card_owned` is set;
- `registered` is `cleanup_installed`;
- `alive` is `pc # "exited"`.

Its property `SessionRefinement` is `Session!Spec`. Every takeover maps to `Seize` or to a stutter, every restore to `Release` or a stutter, and the atexit exit to `Exit`.

### `A4091Script`: the two DMA tests against a concurrent SIOP

**State:**
- `mpc`: the main line inside `test_dma_copy`, then `test_dma_copy_perf`, then `test_card`'s restore.
- `test`: which of the two tests is running.
- `pass`: the number of passes started. It is bounded by `MaxPasses` for `test_dma_copy` (the code runs 32) and by `PerfPasses` per round of `test_dma_copy_perf` (the code runs 16).
- `round`: the extra rounds `run_some_more` has added, bounded by `MaxRounds`. The code repeats while fewer than 10 ticks have passed.
- `count`: `execute_script`'s loop counter, modulo 32.
- `expired`: the 30-tick deadline has passed.
- `ireg_istat`: the interrupt snapshot.
- `siop`: idle, running, moved or halted.
- `moved`: the current pass's move has landed.
- `dip`: ISTAT.DIP.
- `dst`: the destination buffer, which is none, allocated or freed.
- `halted_at_poll`: an auxiliary (history) variable. It records whether the SIOP had stopped when the current loop iteration read ISTAT. No code variable corresponds to it; it only lets `TimeoutOnlyIfUnfinished` speak of the state at the start of the iteration.

**Main-line actions:**
- `test_dma_copy_alloc`;
- `dma_init_siop`;
- `dma_mem_to_mem`: a reset, the patched script, the clearing of `ireg_istat`, and the write of DSP;
- `execute_script_istat`, `execute_script_snapshot` and `execute_script_deadline`: the three reads of one loop iteration (lines 1128-1153), each its own step. `execute_script_istat` polls ISTAT every 8th iteration and reads DSTAT, which clears DIP. `execute_script_snapshot` checks `a4091_save.ireg_istat`. `execute_script_deadline` calls `access_timeout` every 32nd iteration, or increments `count`. The SIOP, the interrupt server and the clock can step between these reads, as they can in the code. Within each step, the disjuncts have mutually exclusive guards, so the code's first match is kept;
- `test_dma_copy_verify`, `test_dma_copy_loop_end` and `test_dma_copy_free`;
- `test_card_next`: `test_card` runs `test_dma_copy_perf` only after `test_dma_copy` passes;
- `test_dma_copy_perf_alloc`: two resets, two allocations and `dma_init_siop`;
- `dma_mem_to_mem_quad`: starts a quad-move script with no reset, so a pending DIP would survive into the pass;
- `test_dma_copy_perf_next`, `test_dma_copy_perf_round` (`goto run_some_more` or leave) and `test_dma_copy_perf_free`;
- `a4091_state_restore`: the reset at the end of `test_card`.

**Environment actions:**
- `SiopMove`: the script's memory move.
- `SiopInterrupt`: the script's INT instruction (line 1029), which sets DIP and stops the SIOP.
- `SiopFault`: the SIOP stops before it finishes the script, with DIP set. This covers a bus fault, a DMA watchdog timeout (`a4091_reset` arms DWT at line 622) and an illegal instruction (DSTAT.BF, WTD, ILD; lines 137-142). `execute_script` takes any DIP as success, so this is a completion the code reports.
- `Tick`: the deadline passes.
- `a4091_irq_handler`: the interrupt server.

### `A4091Init`: `dma_init_siop` against an unresponsive SIOP and a busy bus

**State:**
- `pc`;
- `ticks`, the ticks since `a4091_abort`'s `tick_start`;
- `abrt_req`: ISTAT.ABRT is written and not yet acknowledged;
- `dip`: ISTAT.DIP, whose cause is DSTAT.ABRT;
- `scsi`: the SCSI interrupt causes the SIOP has stacked;
- `raised`: the interrupts the bus has raised so far, at most `MaxScsiEvents`.

**Main-line actions:**
- `a4091_abort_start`;
- `a4091_abort_poll`: reads DSTAT, and leaves on ABRT or when `access_timeout(2)` holds;
- `a4091_reset`: the reset and the mode writes. The reset clears the chip, including a pending abort;
- `dma_init_siop_drain`: one iteration of the drain loop. SSTAT0 is read on SIP, which retires one stacked cause, and DSTAT is read on DIP.

**Environment actions:**
- `AbortAck`: the SIOP may acknowledge the abort, or never do so;
- `ScsiEvent`: the bus raises an interrupt at any point;
- `Tick`.

The register values are not modelled.

### `A4091RegTest`: the register test against a faulty chip

A 32-bit word is the set of its one bits. Bit i is data pin Di. AND, OR, XOR and NOT become intersection, union, symmetric difference and complement in `Pins`, and the rotate `(patt << 1) | (patt >> 31)` maps bit i to bit (i + 1) % 32.

A fault is a record with these fields:
- `high` and `low`: the data pins stuck high or low;
- `bridge`: the sets of bridged pins. A bridge reads as the AND of its pins;
- `regbits` and `reglow`: register bits whose storage is stuck at one or at zero.

The bus operator `Bus` applies the pin faults to every transfer, and `Stored` applies the register faults to what a register holds. `get_ncrreg8` puts an 8-bit register on its big-endian byte lane, `8 * (3 - reg % 4)`. `WriteRead32` is `set_ncrreg32` followed by `get_ncrreg32`: the value crosses the bus twice.

**State:** `pc`, `fault`, `rc`, `rot`, `patt`, `stuck_high`, `stuck_low` and `pins_diff`, the code's locals.

**Actions:**
- `test_register_access_reserved`: the six reserved-bit checks in the code's order, including the fourth, which reads `REG_CTEST0` under the label "CTEST2". Reads are deterministic, so the 100 passes see what the first one sees, and the loop is one step;
- `test_register_access_reset`: `a4091_reset`, then ISTAT checked with mask 0xff and DSTAT with 0x7f. After a reset DSTAT holds DFE only;
- `test_register_access_walk`: one iteration of the 256. It writes `patt` and `next`, reads both back, narrows the stuck masks, collects the differing pins, counts each miscompare and advances the pattern;
- `test_register_access_walk_end` and `test_register_access_report`. The report does `pins_diff &= ~(stuck_high | stuck_low)`.

### MC modules

- `MC_A4091Takeover` gives `Drivers` one or two model values and lists the command lines each run explores.
- `MC_A4091Script` sets `MaxPasses = 3`, `PerfPasses = 2` and `MaxRounds = 1`.
- `MC_A4091Init` sets `AbortTimeout = 2` (the code's value), `MaxTicks = 4` and `MaxScsiEvents = 3`.
- `MC_A4091RegTest` sets `Rotations = 256`, as in the code. It lists these faults:
  - the healthy chip;
  - each of the 32 pins stuck high, and each stuck low;
  - the 31 adjacent bridges;
  - two combined faults;
  - ten register bits stuck at one, in the registers the test reads;
  - a SCRATCH bit and a TEMP bit stuck at zero.

  Two ASSUMEs, `MCFaultsDetectable` and `MCFaultsDiagnosable`, make TLC
  check on every run that these faults satisfy the hypotheses of
  `FaultDetectedCorrect` and `DiagnosisExactCorrect`.

## Runs

| Run | Checks | Result and meaning |
|---|---|---|
| `takeover_suite` | `TypeOK`, `OwnershipInv`, `NoServerLost`, `ExitReleases`, `DriversRestoredAtExit`, `Termination`, `SessionRefinement` | Passes, with 705 states. The command lines are every subset of `{-k, -D, -t, -L}`, with one driver server. Every exit path is covered: usage, no card, ^C in any `check_break`, and a normal return. |
| `takeover_exclusive` | `ExclusiveAccess` | Passes, with 258 states, on every command line without `-D`. The SIOP is accessed only after the driver's servers are off vector 3: `kill_driver` and takeover disable them before they reset, and restore resets before it re-adds them. |
| `takeover_two_drivers` | `NoServerLost` | Violated. With two `NCR SCSI` servers, such as an A4000T's on-board 53C710 plus an A4091, the takeover removes both but saves one, and the restore re-adds only that one. |
| `takeover_kill_test` | `DriverServerNeedsTask` | Violated. With `-k -t`, `kill_driver` saves the driver's server and the restore at the end of `test_card` re-installs it, although the driver's task is gone. |
| `takeover_dma` | `ExclusiveAccess` | Violated. `-D` runs `dma_init_siop` (abort, reset, mode writes) before `dma_mem_to_mem` takes the card over. |
| `script_engine` | `TypeOK`, `CompletionIsCurrent`, `TimeoutOnlyIfUnfinished`, `ScriptReturns` | Passes, with about 20500 states. See the property notes below. |
| `regtest_diagnosis` | `TypeOK`, `HealthyPasses`, `FaultDetected`, `DiagnosisExact` | Passes, with about 28700 states. A healthy chip passes with DFE masked, and every listed fault is counted. For pin faults whose bridges do not touch their stuck pins, the report names exactly the pins stuck high, stuck low and bridged. |
| `regtest_ctest2` | `FaultDetected` | Violated. A chip whose reserved CTEST2 bit 7 reads set passes, because the check labelled CTEST2 reads CTEST0 (line 1732). |
| `regtest_stuck_low` | `StuckLowReported` | Violated. SCRATCH bit 5 stuck at zero, which is spec scenario 5, gives no "Stuck low" line. `stuck_low` keeps only pins that read 0 in both registers, and TEMP reads bit 5 correctly. The bit is listed under "Floating or bridged" instead. |
| `init_returns` | `NoLateAbort`, `InitReturns` | Passes, with 150 states. When `dma_init_siop` returns, no abort is in flight and DIP is clear: the reset after `a4091_abort` cancels an abort that timed out, so the SIOP cannot acknowledge it later. Without that reset, the late acknowledgement raises DIP after the return. `dma_init_siop` returns when the abort is never acknowledged, because the deadline breaks the wait. It also returns however the bus's interrupts interleave with the drain loop, because each pass retires a cause. With the SIP and DIP tests swapped, the loop spins forever. |
| `script_freed` | `NoDmaIntoFreedBuffer` | Violated. After a timeout, `test_dma_copy` frees `dst_buf` and `src` without stopping the SIOP, which may still do the move. |

What the `script_engine` properties say:
- `CompletionIsCurrent`: completion is reported only when the SIOP has stopped the current pass's script, by its INT or by a fault. In `test_dma_copy_perf` no reset separates the passes, so this rests on the DSTAT read that clears DIP. The property does not claim that the move landed: after a fault the code reports success too. `test_dma_copy` then catches the fault by its compare; `test_dma_copy_perf` counts it as a good pass (a hazard in `PROJECT.json`).
- `TimeoutOnlyIfUnfinished`: a timeout is never reported for a script that had stopped when the deadline iteration read ISTAT. This holds because the deadline is consulted only on iterations that also poll ISTAT, and only after the snapshot. A script that stops after that ISTAT read can still be reported as timed out, and the model has such runs. The code accepts this window, so no property excludes it.
- `ScriptReturns`: the wait always ends.

Every property of a passing run has a mutant in `PROJECT.json`: a plausible bug in the code it is about, which TLC must catch. Examples:
- takeover without the driver disable;
- restore that re-adds the driver before its reset;
- a deadline checked before the snapshot;
- a polled completion that does not read DSTAT;
- one pass too many;
- a rotate without the 32-bit wrap;
- DSTAT checked with DFE unmasked;
- a miscompare that is not counted;
- a report that does not remove the stuck pins from `pins_diff`.

### Bounds

- **One or two driver servers.** Two is the smallest number that shows the lost-server bug. One is the configuration of a single A4091.
- **Every combination of `-k`, `-D`, `-t` and `-L`.** These flags drive ownership. `ExclusiveAccess` gets a run without `-D`, because `-D`'s early access is the divergence that `takeover_dma` reports.
- **Eight test slots, as in the code.**
- **Three DMA passes.** That is enough for a snapshot or a DIP left over from one pass to meet the next one, and for a timeout in a later pass.
- **Two perf passes per round and one extra round.** Two passes run back to back without a reset. The extra round restarts the pass counter.
- **Counter values.** The loop counter covers all residues modulo 32, so both the 8- and 32-iteration checks happen.
- **256 rotations and single faults of every pin.** The register test runs as the code runs it. Every pin and every adjacent pair is faulted on its own, because the code's classification is per pin. The two combined faults check that the masks do not interfere. A bridge reads wrongly only for some patterns, so the full 256 rotations are needed.

- **Three SCSI interrupts.** That is enough for two causes to be stacked at once, and for one to arrive during the drain loop's `Delay(1)`. A bus that never stops raising interrupts, such as one held in reset, would hang the loop, which has no deadline. `InitReturns` therefore assumes finitely many interrupts, through `MaxScsiEvents`.

### Fairness

`Spec` in `A4091Takeover` assumes weak fairness of the main line. The utility is a single process that runs whenever it is able to.

`A4091Script` assumes weak fairness of the main line and of `Tick`, because the system tick counter always advances. It assumes no fairness for the SIOP or the interrupt:
- the SIOP may hang, which is the case `execute_script`'s deadline exists for;
- the interrupt may never be delivered, because `a4091_reset` leaves DIEN at 0.

`A4091Init` assumes weak fairness of the main line and of `Tick`. It assumes none for `AbortAck` and `ScsiEvent`.

## What is proved

`A4091Takeover_proofs` proves these results for every finite set of driver servers and every set of command lines. It assumes only `DriversAssumption` (the set is finite, and `Local` and `NoServer` are distinct from the drivers) and `OptionsAssumption`.

- `TypeCorrect`: `Spec => []TypeOK`. The test index stays in 0..8, and the saved handle is a driver server or null.
- `IInvCorrect`: `Spec => []IInv`, where `IInv` is `TypeOK` plus `Ownership`.
- `OwnershipCorrect`: `Spec => []OwnershipInv`.
- `ExitReleasesCorrect`: `Spec => []ExitReleases`.

`OwnershipInv` and `ExitReleases` are not inductive on their own. `Ownership` strengthens them with three facts:
- the local server is on the chain exactly while `card_owned` is set;
- an owned card has its cleanup registered;
- an exited program does not own the card.

These facts are what make `Exit` correct. If no cleanup is registered, the card is not owned, and otherwise the cleanup's restore removes the local server. TLC checked `IInv` on all configurations before it was proved.

The proofs rest on four lemmas:
- `DisableEffect` and `RestoreEffect` state what the two shared calls do;
- `TakeoverEffect` says a takeover always leaves the card owned and the chain free of drivers;
- `RestoreReleases` says a restore always releases the card.

The step proof has one case per action.

`SessionRefinementCorrect` proves `Spec => SessionRefinement`, that `A4091Takeover` implements `A4091Session`. It has two steps:
- `Init` maps to `Session!Init`;
- under `IInv`, every step maps to a step of `Session!Next` or a stutter.

`IInv` is needed for `Exit`: an owned card has its cleanup registered, which is `Exit`'s guard in the abstract machine. It is also needed because every restore leaves the card released. There is one lemma per kind of step: `TakeoverRefines`, `RestoreRefines` and `SessionStutter`.

`A4091Script_proofs` proves these results for every `MaxPasses`, `PerfPasses` and `MaxRounds` the module's assumptions allow:
- `TypeCorrect`: `Spec => []TypeOK`. The counters are split from the flags, because SMT handles the arithmetic and Zenon the Booleans.
- `IInvCorrect`: `Spec => []IInv`, where `IInv` is `TypeOK` plus `Completion`.
- `CompletionIsCurrentCorrect`: `Spec => []CompletionIsCurrent`.
- `TimeoutOnlyIfUnfinishedCorrect`: `Spec => TimeoutOnlyIfUnfinished`, an action property.

`Completion` has eight facts:
- DIP is only pending from a halted SIOP, whether it halted by its INT or by a fault;
- while `execute_script` waits, a halted SIOP has left DIP pending or the snapshot set;
- a set snapshot means DIP was cleared;
- a pass is verified only with the SIOP halted and DIP clear;
- a pass starts with DIP clear and no script running;
- after an ISTAT read that found the SIOP halted, it stays halted until the iteration ends;
- if that read was on a multiple of 8, the snapshot is set at the snapshot check;
- such an iteration reaches the deadline check only off a multiple of 8.

The fifth fact is what carries `test_dma_copy_perf`'s unreset passes. The last three facts follow one iteration through its three steps. With the fact that a multiple of 32 is a multiple of 8, they give the timeout theorem.

`A4091Init_proofs` proves these results for every `AbortTimeout`, `MaxTicks` and `MaxScsiEvents`:
- `TypeCorrect`: `Spec => []TypeOK`. The inductive invariant adds `scsi <= raised`, so a stacked cause never exceeds the bound and the drain loop never retires a cause that is not there.
- `NoLateAbortCorrect`: `Spec => []NoLateAbort`. The inductive invariant `AbortCancelled` says that no abort is in flight from the drain loop on, and that DIP is clear once the loop has left. `NoLateAbort` alone is not inductive: it says nothing about the drain loop, where `AbortAck` could still fire if the reset had not cancelled the abort.

`A4091Takeover_servers_proofs` proves three results that hold only under a hypothesis on the constants. Each hypothesis is the configuration of a passing run. The violation runs `takeover_two_drivers` and `takeover_dma` show what goes wrong outside them.
- `NoServerLostCorrect`: `AtMostOneDriver => (Spec => []NoServerLost)`, where `AtMostOneDriver` says there is at most one "NCR SCSI" server. `NoServerLost` is inductive by itself under this hypothesis. The disable walk then finds at most one server, and `DisableKeeps` shows it is stored or that the old handle stays. `RestoreKeeps` shows the restore re-adds the handle before clearing it.
- `DriversRestoredAtExitCorrect`: the same hypothesis gives `Spec => []DriversRestoredAtExit`. The inductive invariant `RInv` is `IInv`, `NoServerLost` and `DriversBack`. `DriversBack` says that without `-k` the program never reaches `kill_driver`, and that every driver server is on the chain while the card is released. At exit the card is released, by `Ownership`.
- `ExclusiveAccessCorrect`: `NoDmaCommandLine => (Spec => []ExclusiveAccess)`, for any number of driver servers. `NoDmaCommandLine` says no command line has `-D`. The inductive invariant `XInv` adds four facts to `IInv`:
  - `ExclusiveAccess` itself;
  - the command line is one of `Options`;
  - the `-D` steps run only with `-D`;
  - `test_card`'s slots run only while the card is owned.

  `TakeoverQuiet` and `RestoreQuiet` show that the resets of takeover and restore happen while no driver server is on the chain.

`A4091RegTest_proofs` proves these results for every set of chips `Faults` and every loop length `Rotations`:
- `TypeCorrect`: `Spec => []TypeOK`. It rests on these lemmas:
  - `BusPins` and `WriteReadPins`: the bus and the registers deliver only data pins;
  - `RotatePins`: the rotate stays within 32 bits;
  - `ReservedFailuresNat`: the reserved-bit count is a cardinality of a subset of 1..6.
- `HealthyPassesCorrect`: `Spec => []HealthyPasses`. The inductive invariant `HInv` says that on a healthy chip `rc` is 0 in every state, not only at the end. The lemmas `HealthyBus`, `HealthyStored`, `HealthyGet` and `HealthyWriteRead` show that on a healthy chip the bus and the registers are the identity, and `get_ncrreg8` reads the byte it holds on its lane. `HealthyReserved` and `HealthyReset` then show that no check fails, with DFE masked.
- `WInvCorrect`: `Spec => []WInv`. `Walk` gives the pattern in closed form, `patt = PattAfter(rot)`, the initial pattern rotated `rot` times (`RotateStep`). It also says that each reserved-bit failure, each status failure and each miscompare of an iteration done so far has made `rc` positive. Since `rc` only grows, this is inductive.
- `FaultDetectedCorrect`: under `Rotations >= 32` and the hypothesis that every faulty chip of `Faults` is `Detectable`, `Spec => []FaultDetected`. The code runs 256 iterations. `Detectable` is the union of four classes, defined in `A4091RegTest`:
  - `StuckPinFault`: a data pin stuck high or low;
  - `BridgeFault`: a bridge of two or more pins on a chip with nothing else stuck at one;
  - `WalkRegisterFault`: a SCRATCH or TEMP bit stuck at 0 or 1 on a sound bus;
  - `CheckedBitFault`: a bit stuck at one that a reserved-bit or status check reads, on a sound bus.

  There is one lemma per class (`StuckPinSeen`, `BridgeSeen`, `WalkRegisterSeen`, `CheckedBitSeen`). Each names the iteration, among the first 32, that miscompares, or the check that fails. The argument rests on `PattMember`: pin p is 1 after k rotations iff bit (p - k) mod 32 of `0xf0e7c3a5` is. It also uses two witness tables that TLAPS checks entry by entry:
  - `Aperiodic`: for every distance d in 1..31, some 1 bit of the pattern has a 0 bit d places above it. `SeparatingRotation` derives that for any two pins some rotation drives the first 1 and the second 0;
  - `PairPattern`: for every d, two 1 bits lie d apart. `PairRotation` derives that some rotation drives both pins 1.
- `DInvCorrect`: `Spec => []DInv`. `DInv` adds `Accum` to `WInv`: the three masks in closed form over the iterations done so far. `stuck_high` is the set of pins read 1 by every iteration, and `stuck_low` the set read 0 by every one. `pins_diff` is the union of the differing pins, less the stuck candidates once the report has run. TLC checked `DInv` on the run's instance before it was proved.
- `DiagnosisExactCorrect`: under `Rotations >= 32` and the hypothesis that every chip of `Faults` is a `DiagnosableFault`, `Spec => []DiagnosisExact`. A `DiagnosableFault` has no pin stuck both high and low, and its bridges are disjoint two-pin sets. `HighDiagnosed`, `LowDiagnosed` and `BridgeDiagnosed` prove the three equalities of the report from `Accum`, with the two rotation lemmas.

  The hypothesis is needed, and it is what the code is built for. A pin stuck both ways reads 1 and is not reported stuck low. A one-pin bridge never misreads. A bridge of three or more pins may never have all its pins driven 1 by any rotation, so healthy bridged pins would be reported stuck low.

TLC checked every strengthening (`RInv`, `XInv` and `AbortCancelled`) as an invariant of the runs' configurations before it was proved. `XInv` was also checked with two driver servers.

### What is only model-checked

- **Liveness.** `Termination`, `ScriptReturns` and `InitReturns` depend on fairness and ENABLED, which are beyond TLAPS, so they stay with TLC.
- **Properties that depend on the configuration.** `NoServerLost`, `DriversRestoredAtExit` and `ExclusiveAccess` are proved only under the hypotheses above. Their failures outside those hypotheses are shown by the violation runs.
- **`ScriptReturns` and `NoDmaIntoFreedBuffer`.** The first is liveness. The second is violated.
- **`FaultDetected` and `DiagnosisExact` outside their classes.** For faults outside the classes, TLC evaluates the listed faults exactly. Examples are a bridge combined with a register bit stuck at one, or a bridge of three pins. The proofs need no induction over data: the closed form `PattAfter` is a set comprehension, and the induction is the invariant's own.

## Not modelled, and why

- **Output.** Formatting, printing and the decoders (`-c`, `-r`, `-s`) are pure reads and output.
- **Card discovery and the enforcer check.** They are reduced to their outcome.
- **The individual tests other than `test_dma_copy` and `test_register_access`.** Their algorithms are data-heavy and are planned as pure operators (see below).
- **The `-d` debug window.** With `-d`, `a4091_disable_driver_irq_handler` re-enables interrupts inside its walk of the server list. That walk is modelled as atomic.

## Plan for later work

1. Pure-algorithm modules, each checked against a reference over bounded inputs:
   - `get_creg`'s nibble assembly;
   - `calc_parity` against popcount;
   - the bit-flip address grid of `test_dma_copy` (210 address pairs);
   - `test_dma`'s scaled pointer arithmetic;
   - the DMA FIFO round trip with `rand32`.
2. `test_dma_copy_perf`'s throughput arithmetic: the 64-bit tick difference and the KB/s division.
3. The `-r` decoder's clear-on-read race with the resident driver.
