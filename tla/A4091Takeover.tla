--------------------------- MODULE A4091Takeover ---------------------------
(***************************************************************************)
(* The takeover/restore controller of the A4091 test utility and the       *)
(* main-line control flow that drives it (src/a4091.c).                    *)
(*                                                                         *)
(* State: the server chain of interrupt vector 3 (INTB_PORTS, where the    *)
(* A4091 raises its IRQ), the fields of a4091_save that govern ownership   *)
(* (card_owned, cleanup_installed, driver_isr, local_isr), the resident    *)
(* driver's handler task, and the program counter of the single main-line  *)
(* thread.  The SIOP's registers are abstracted to "the card was touched"; *)
(* the history variable shared_by records every operation that touched the *)
(* card while a resident driver server was still installed.                *)
(*                                                                         *)
(* Each main-line action is one C function, run to completion.  Interrupt  *)
(* servers never change the chain, so interleaving them adds nothing here; *)
(* they are modelled in A4091Script.                                       *)
(***************************************************************************)
EXTENDS Naturals, FiniteSets

CONSTANTS
  Drivers,     \* the resident "NCR SCSI" interrupt servers on vector 3
  Local,       \* the utility's own server, named "A4091 test"
  NoServer,    \* a4091_save.driver_isr == 0
  Options,     \* the command lines run: sets of the flags modelled
  TestFlags    \* the -0 .. -7 mask given with -t ({} means all tests)

Flags == {"k", "D", "t", "L"}      \* -k kill, -D dma, -t test, -L loop
Tests == 0..7                      \* BIT(0) .. BIT(7) in test_card

ASSUME DriversAssumption == /\ IsFiniteSet(Drivers)
                            /\ Local \notin Drivers
                            /\ NoServer \notin Drivers \cup {Local}
ASSUME OptionsAssumption == Options \subseteq SUBSET Flags
ASSUME TestFlagsAssumption == TestFlags \subseteq Tests

\* Operations that write to the SIOP (or read registers that clear on read).
CardOps == {"kill_driver", "dma_init_siop", "a4091_state_takeover",
            "test", "a4091_state_restore"}

PCs == {"main", "kill", "body", "dma_init", "dma_copy", "test_card",
        "tests", "check", "exit", "exited"}

VARIABLES
  pc,                 \* main-line program counter
  flags,              \* the command line, fixed by main's argument loop
  chain,              \* servers on SysBase->IntVects[A4091_IRQ]
  driver_isr,         \* a4091_save.driver_isr
  card_owned,         \* a4091_save.card_owned
  cleanup_installed,  \* a4091_save.cleanup_installed (atexit done)
  handler_task,       \* "A3090 SCSI handler" still on a task list
  rc,                 \* main's rc is non-zero
  trc,                \* test_card's rc is non-zero
  t,                  \* next test index in test_card
  shared_by           \* history: ops that touched the card with a driver in

vars == <<pc, flags, chain, driver_isr, card_owned, cleanup_installed,
          handler_task, rc, trc, t, shared_by>>

\* The history update made by an access to the card by op, given the
\* server chain at the moment of the access.
Touch(op, ch) == IF ch \cap Drivers # {} THEN shared_by \cup {op}
                                         ELSE shared_by

SelectedTests == IF TestFlags = {} THEN Tests ELSE TestFlags

-----------------------------------------------------------------------------
(* The state-changing calls, as relations between the state before and    *)
(* after them.                                                            *)

\* a4091_add_local_irq_handler: AddIntServer of the utility's "A4091 test"
\* server (the AllocMem result is used unchecked).
a4091_add_local_irq_handler(ch) == ch \cup {Local}

\* a4091_remove_local_irq_handler: RemIntServer of the local server, if any.
a4091_remove_local_irq_handler(ch) == ch \ {Local}

\* a4091_enable_driver_irq_handler: AddIntServer of the saved driver server,
\* if one was saved.  Clearing driver_isr is done by the caller's action.
a4091_enable_driver_irq_handler(ch) ==
  ch \cup (IF driver_isr = NoServer THEN {} ELSE {driver_isr})

\* a4091_disable_handler_process: Remove() the "A3090 SCSI handler" task
\* from TaskReady or TaskWait under Forbid().
a4091_disable_handler_process == handler_task' = FALSE

\* Mutant: the walk removes the servers but never stores the handle.
a4091_disable_driver_irq_handler_no_save(ch) ==
  /\ chain' = ch \ Drivers
  /\ UNCHANGED driver_isr

\* a4091_disable_driver_irq_handler: walk the chain under Disable() and
\* RemIntServer every server named "NCR SCSI"; driver_isr keeps the last
\* one found (the walk order is abstracted: any found server may be last).
\* An empty walk leaves driver_isr as it was.
a4091_disable_driver_irq_handler(ch) ==
  LET found == ch \cap Drivers IN
  /\ chain' = ch \ Drivers
  /\ driver_isr' \in IF found = {} THEN {driver_isr} ELSE found

\* Mutant: takeover installs the local server but does not suspend the
\* driver's.
a4091_state_takeover_no_disable ==
  /\ cleanup_installed' = TRUE
  /\ IF card_owned
       THEN UNCHANGED <<card_owned, chain, driver_isr, shared_by>>
       ELSE /\ card_owned' = TRUE
            /\ chain' = a4091_add_local_irq_handler(chain)
            /\ UNCHANGED driver_isr
            /\ shared_by' = Touch("a4091_state_takeover", chain')

\* Mutant: takeover never registers the atexit cleanup.
a4091_state_takeover_no_atexit ==
  /\ UNCHANGED cleanup_installed
  /\ IF card_owned
       THEN UNCHANGED <<card_owned, chain, driver_isr, shared_by>>
       ELSE /\ card_owned' = TRUE
            /\ a4091_disable_driver_irq_handler(a4091_add_local_irq_handler(chain))
            /\ shared_by' = Touch("a4091_state_takeover", chain')

\* a4091_state_takeover: register the atexit cleanup once; if the card is
\* not owned, mark it owned, add the local server, suspend the driver's
\* server(s), then soft-reset the SIOP (the writes to ISTAT).
a4091_state_takeover ==
  /\ cleanup_installed' = TRUE
  /\ IF card_owned
       THEN UNCHANGED <<card_owned, chain, driver_isr, shared_by>>
       ELSE /\ card_owned' = TRUE
            /\ a4091_disable_driver_irq_handler(a4091_add_local_irq_handler(chain))
            /\ shared_by' = Touch("a4091_state_takeover", chain')

\* Mutant: restore forgets a4091_enable_driver_irq_handler.
a4091_state_restore_no_enable ==
  IF card_owned
    THEN /\ card_owned' = FALSE
         /\ shared_by' = Touch("a4091_state_restore", chain)
         /\ chain' = a4091_remove_local_irq_handler(chain)
         /\ UNCHANGED driver_isr
    ELSE UNCHANGED <<card_owned, chain, driver_isr, shared_by>>

\* Mutant: restore re-adds the driver's server before a4091_reset.
a4091_state_restore_enable_first ==
  IF card_owned
    THEN /\ card_owned' = FALSE
         /\ chain' = a4091_remove_local_irq_handler(
                     a4091_enable_driver_irq_handler(chain))
         /\ shared_by' = Touch("a4091_state_restore", chain')
         /\ driver_isr' = NoServer
    ELSE UNCHANGED <<card_owned, chain, driver_isr, shared_by>>

\* a4091_state_restore: if owned, clear card_owned, a4091_reset(), re-add
\* the saved driver server (and forget it), remove the local server.
a4091_state_restore ==
  IF card_owned
    THEN /\ card_owned' = FALSE
         /\ shared_by' = Touch("a4091_state_restore", chain)
         /\ chain' = a4091_remove_local_irq_handler(
                     a4091_enable_driver_irq_handler(chain))
         /\ driver_isr' = NoServer
    ELSE UNCHANGED <<card_owned, chain, driver_isr, shared_by>>

-----------------------------------------------------------------------------
(* The main-line steps.                                                   *)

Init ==
  /\ pc = "main"
  /\ flags \in Options
  /\ chain = Drivers
  /\ driver_isr = NoServer
  /\ card_owned = FALSE
  /\ cleanup_installed = FALSE
  /\ handler_task = TRUE
  /\ rc = FALSE
  /\ trc = FALSE
  /\ t = 0
  /\ shared_by = {}

\* main up to the do-loop: with no action flag it prints usage and exits;
\* enforcer_check or a failed a4091_find may exit(1); with -k it goes on to
\* kill_driver.  None of these exits runs a cleanup (none is registered).
Start ==
  /\ pc = "main"
  /\ \/ /\ flags \cap {"k", "D", "t"} = {}
        /\ pc' = "exit"
     \/ /\ flags \cap {"k", "D", "t"} # {}
        /\ \E card_found \in BOOLEAN :
             pc' = IF ~card_found THEN "exit"
                   ELSE IF "k" \in flags THEN "kill" ELSE "body"
  /\ UNCHANGED <<flags, chain, driver_isr, card_owned, cleanup_installed,
                 handler_task, rc, trc, t, shared_by>>

\* kill_driver: a4091_reset(), then suspend the driver's server(s) (the
\* handle is kept in driver_isr), remove the handler task; the devlist
\* step is a no-op.
kill_driver ==
  /\ pc = "kill"
  /\ shared_by' = Touch("kill_driver", chain)
  /\ a4091_disable_driver_irq_handler(chain)
  /\ a4091_disable_handler_process
  /\ pc' = "body"
  /\ UNCHANGED <<flags, card_owned, cleanup_installed, rc, trc, t>>

\* Top of the do { } while loop of main: choose the first action flag.
Body ==
  /\ pc = "body"
  /\ pc' = IF "D" \in flags THEN "dma_init"
           ELSE IF "t" \in flags THEN "test_card" ELSE "check"
  /\ UNCHANGED <<flags, chain, driver_isr, card_owned, cleanup_installed,
                 handler_task, rc, trc, t, shared_by>>

\* dma_init_siop: a4091_abort, a4091_reset and the DMODE/DCNTL/CTEST7
\* writes, then the drain of pending interrupts; no ownership check.
dma_init_siop ==
  /\ pc = "dma_init"
  /\ shared_by' = Touch("dma_init_siop", chain)
  /\ pc' = "dma_copy"
  /\ UNCHANGED <<flags, chain, driver_isr, card_owned, cleanup_installed,
                 handler_task, rc, trc, t>>

\* dma_mem_to_mem for -D: patch the script, a4091_state_takeover(), then
\* execute_script, whose outcome (done or SIOP timeout) is a choice here
\* and is modelled in A4091Script.
dma_mem_to_mem ==
  /\ pc = "dma_copy"
  /\ a4091_state_takeover
  /\ \E failed \in BOOLEAN : rc' = (rc \/ failed)
  /\ pc' = IF "t" \in flags THEN "test_card" ELSE "check"
  /\ UNCHANGED <<flags, handler_task, trc, t>>

\* test_card, first part: take over the card before the first test.
test_card_start ==
  /\ pc = "test_card"
  /\ a4091_state_takeover
  /\ trc' = FALSE
  /\ t' = 0
  /\ pc' = "tests"
  /\ UNCHANGED <<flags, handler_task, rc>>

\* Mutant: the test loop runs one slot past BIT(7).
test_card_step_off_by_one ==
  /\ pc = "tests"
  /\ t \in 0..8
  /\ \/ /\ t > 0
        /\ pc' = "exit"
        /\ rc' = TRUE
        /\ UNCHANGED <<trc, t, shared_by>>
     \/ /\ pc' = "tests"
        /\ t' = t + 1
        /\ IF ~trc /\ t \in SelectedTests
             THEN /\ shared_by' = Touch("test", chain)
                  /\ trc' \in BOOLEAN
             ELSE UNCHANGED <<trc, shared_by>>
        /\ UNCHANGED rc
  /\ UNCHANGED <<flags, chain, driver_isr, card_owned, cleanup_installed,
                 handler_task>>

\* One slot of test_card: check_break() before every test but the first
\* (^C exits the process), then test t if it is selected and no test has
\* failed yet.  A test touches the card; its outcome is a choice.
test_card_step ==
  /\ pc = "tests"
  /\ t \in Tests
  /\ \/ /\ t > 0
        /\ pc' = "exit"                       \* check_break: ^C, exit(1)
        /\ rc' = TRUE
        /\ UNCHANGED <<trc, t, shared_by>>
     \/ /\ pc' = "tests"
        /\ t' = t + 1
        /\ IF ~trc /\ t \in SelectedTests
             THEN /\ shared_by' = Touch("test", chain)
                  /\ trc' \in BOOLEAN
             ELSE UNCHANGED <<trc, shared_by>>
        /\ UNCHANGED rc
  /\ UNCHANGED <<flags, chain, driver_isr, card_owned, cleanup_installed,
                 handler_task>>

\* test_card, last part: a4091_state_restore() and return rc to main.
test_card_end ==
  /\ pc = "tests"
  /\ t = 8
  /\ a4091_state_restore
  /\ rc' = (rc \/ trc)
  /\ pc' = "check"
  /\ UNCHANGED <<flags, cleanup_installed, handler_task, trc, t>>

\* Mutant: the do-while loop ignores -L (while (rc == 0)).
Check_ignores_loop_flag ==
  /\ pc = "check"
  /\ \/ /\ pc' = "exit"
        /\ rc' = TRUE
     \/ /\ pc' = IF ~rc THEN "body" ELSE "exit"
        /\ UNCHANGED rc
  /\ UNCHANGED <<flags, chain, driver_isr, card_owned, cleanup_installed,
                 handler_task, trc, t, shared_by>>

\* Bottom of main's loop: check_break(), then loop while rc == 0 && -L,
\* else return rc (which exits).
Check ==
  /\ pc = "check"
  /\ \/ /\ pc' = "exit"                       \* check_break: ^C, exit(1)
        /\ rc' = TRUE
     \/ /\ pc' = IF ~rc /\ "L" \in flags THEN "body" ELSE "exit"
        /\ UNCHANGED rc
  /\ UNCHANGED <<flags, chain, driver_isr, card_owned, cleanup_installed,
                 handler_task, trc, t, shared_by>>

\* exit(): the atexit handler a4091_cleanup runs a4091_state_restore if it
\* was registered.
Exit ==
  /\ pc = "exit"
  /\ IF cleanup_installed
       THEN a4091_state_restore
       ELSE UNCHANGED <<card_owned, chain, driver_isr, shared_by>>
  /\ pc' = "exited"
  /\ UNCHANGED <<flags, cleanup_installed, handler_task, rc, trc, t>>

\* The process has ended.
Done == pc = "exited" /\ UNCHANGED vars

MainLine == \/ Start \/ kill_driver \/ Body \/ dma_init_siop
            \/ dma_mem_to_mem \/ test_card_start \/ test_card_step
            \/ test_card_end \/ Check \/ Exit

Next == MainLine \/ Done

\* The main line is a running process: it is never stopped forever.
Spec == Init /\ [][Next]_vars /\ WF_vars(MainLine)

\* The refinement mapping to the abstract session machine: the session is
\* OWNED exactly when a4091_save.card_owned is set, the exit action is
\* registered when a4091_save.cleanup_installed is, and the process is
\* alive until exit() has run its atexit handlers.
Session == INSTANCE A4091Session WITH
             session <- IF card_owned THEN "OWNED" ELSE "RELEASED",
             registered <- cleanup_installed,
             alive <- pc # "exited"

-----------------------------------------------------------------------------
(* Properties.                                                            *)

TypeOK ==
  /\ pc \in PCs
  /\ flags \in SUBSET Flags
  /\ chain \in SUBSET (Drivers \cup {Local})
  /\ driver_isr \in Drivers \cup {NoServer}
  /\ card_owned \in BOOLEAN
  /\ cleanup_installed \in BOOLEAN
  /\ handler_task \in BOOLEAN
  /\ rc \in BOOLEAN
  /\ trc \in BOOLEAN
  /\ t \in 0..8
  /\ shared_by \in SUBSET CardOps

\* CardSession invariant of the spec (section 3), as a4091_state_takeover
\* and a4091_state_restore maintain it: while the card is owned the local
\* server is installed and no resident driver server is.
OwnershipInv ==
  card_owned => (Local \in chain /\ chain \cap Drivers = {})

\* No resident driver server is ever lost: each one is on the chain or is
\* the handle kept in a4091_save.driver_isr (a4091_disable_driver_irq_handler
\* keeps one handle for however many servers it removes).
NoServerLost ==
  \A d \in Drivers : d \in chain \/ d = driver_isr

\* When the process has exited, by any path (return from main, usage, ^C in
\* check_break), the local server is gone and the card is released: the
\* atexit hook a4091_cleanup ran a4091_state_restore.
ExitReleases ==
  pc = "exited" => (Local \notin chain /\ ~card_owned)

\* Without -k, every resident driver server is back on the chain when the
\* process has exited (seize/release symmetry).
DriversRestoredAtExit ==
  (pc = "exited" /\ "k" \notin flags) => Drivers \subseteq chain

\* Apart from kill_driver's initial a4091_reset (which section 4.8 orders
\* before the removal), the card is only touched while no resident driver
\* server is installed (section 5: seize/release bracket exclusive access).
ExclusiveAccess ==
  shared_by \subseteq {"kill_driver"}

\* Once kill_driver removed the resident handler task, no resident driver
\* server is installed again (section 4.8: the server is removed "without
\* re-adding it").
DriverServerNeedsTask ==
  ~handler_task => chain \cap Drivers = {}

\* The controller implements the RELEASED/OWNED machine of spec section
\* 4.4: a4091_state_takeover seizes only a released card and registers
\* a4091_cleanup with atexit first, a4091_state_restore releases only an
\* owned one, and every exit path of main ends with the card released.
SessionRefinement == Session!Spec

\* Without -L the program terminates.
Termination ==
  ("L" \notin flags) => <>(pc = "exited")

=============================================================================
