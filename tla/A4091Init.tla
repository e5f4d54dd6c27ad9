---------------------------- MODULE A4091Init ----------------------------
(***************************************************************************)
(* dma_init_siop of the A4091 test utility (src/a4091.c): a4091_abort,   *)
(* a4091_reset, the DMA mode writes, and the loop that drains pending     *)
(* interrupts, against a 53C710 whose abort may never be acknowledged and *)
(* a SCSI bus that may raise interrupts at any time.                      *)
(*                                                                         *)
(* The SIOP stacks SCSI interrupts: ISTAT.SIP reads set while a cause is  *)
(* pending, and each read of SSTAT0 retires one cause.  ISTAT.DIP reads   *)
(* set while a DMA cause is pending (here the abort's acknowledgement,    *)
(* DSTAT.ABRT), and a read of DSTAT clears it.  A software reset clears   *)
(* the chip, a pending abort and its causes included; the SCSI bus keeps  *)
(* raising interrupts after it.  The values written to DCNTL, DMODE and   *)
(* CTEST7 are left out: no property tells them apart.                     *)
(***************************************************************************)
EXTENDS Naturals

CONSTANTS
  AbortTimeout,   \* ticks a4091_abort waits for DSTAT.ABRT (2 in the code)
  MaxTicks,       \* bound on the ticks the model lets pass in the abort
  MaxScsiEvents   \* bound on the SCSI interrupts the bus raises in a run

ASSUME InitAssumption ==
  /\ AbortTimeout \in Nat
  /\ MaxTicks \in Nat /\ MaxTicks > AbortTimeout
  /\ MaxScsiEvents \in Nat

PCs == {"abort", "abort_wait", "reset", "drain", "done"}

VARIABLES
  pc,        \* where dma_init_siop is
  ticks,     \* ticks since a4091_abort's tick_start
  abrt_req,  \* ISTAT.ABRT written and not yet acknowledged or reset
  dip,       \* ISTAT.DIP, with DSTAT.ABRT its cause
  scsi,      \* SCSI interrupt causes stacked in the SIOP
  raised     \* SCSI interrupts the bus has raised so far

vars == <<pc, ticks, abrt_req, dip, scsi, raised>>

-----------------------------------------------------------------------------
(* The main line.                                                         *)

Init ==
  /\ pc = "abort"
  /\ ticks = 0
  /\ abrt_req = FALSE
  /\ dip = FALSE
  /\ scsi = 0
  /\ raised = 0

\* a4091_abort, first part: set ISTAT.ABRT, push the write out, start the
\* clock.
a4091_abort_start ==
  /\ pc = "abort"
  /\ abrt_req' = TRUE
  /\ ticks' = 0
  /\ pc' = "abort_wait"
  /\ UNCHANGED <<dip, scsi, raised>>

\* access_timeout(msg, ticks, tick_start): more than ticks have elapsed.
access_timeout(limit) == ticks > limit

\* One iteration of a4091_abort's wait: read DSTAT, which clears it, and
\* leave when it shows ABRT or when the deadline has passed.
a4091_abort_poll ==
  /\ pc = "abort_wait"
  /\ dip' = FALSE
  /\ \/ /\ dip
        /\ pc' = "reset"
     \/ /\ ~dip
        /\ access_timeout(AbortTimeout)
        /\ pc' = "reset"
     \/ /\ ~dip
        /\ ~access_timeout(AbortTimeout)
        /\ UNCHANGED pc
  /\ UNCHANGED <<ticks, abrt_req, scsi, raised>>

\* Mutant: dma_init_siop without its a4091_reset() call; only the DCNTL,
\* DMODE and CTEST7 writes are made.
a4091_reset_skipped ==
  /\ pc = "reset"
  /\ pc' = "drain"
  /\ UNCHANGED <<ticks, abrt_req, dip, scsi, raised>>

\* a4091_reset, then the DCNTL, DMODE and CTEST7 writes: the reset clears
\* the chip's interrupt state and any abort in progress.
a4091_reset ==
  /\ pc = "reset"
  /\ abrt_req' = FALSE
  /\ dip' = FALSE
  /\ scsi' = 0
  /\ pc' = "drain"
  /\ UNCHANGED <<ticks, raised>>

\* Mutant: the SIP and DIP tests swapped, so SSTAT0 is read on DIP and
\* DSTAT on SIP.
dma_init_siop_drain_swapped ==
  /\ pc = "drain"
  /\ \/ /\ scsi = 0 /\ ~dip
        /\ pc' = "done"
        /\ UNCHANGED <<scsi, dip>>
     \/ /\ scsi > 0 \/ dip
        /\ scsi' = IF dip /\ scsi > 0 THEN scsi - 1 ELSE scsi
        /\ dip' = (dip /\ scsi = 0)
        /\ UNCHANGED pc
  /\ UNCHANGED <<ticks, abrt_req, raised>>

\* One iteration of the drain loop: read ISTAT; leave when neither DIP nor
\* SIP is set; otherwise read SSTAT0 on SIP (retiring one SCSI cause) and
\* DSTAT on DIP, and Delay(1).
dma_init_siop_drain ==
  /\ pc = "drain"
  /\ \/ /\ scsi = 0 /\ ~dip
        /\ pc' = "done"
        /\ UNCHANGED <<scsi, dip>>
     \/ /\ scsi > 0 \/ dip
        /\ scsi' = IF scsi > 0 THEN scsi - 1 ELSE 0
        /\ dip' = FALSE
        /\ UNCHANGED pc
  /\ UNCHANGED <<ticks, abrt_req, raised>>

\* dma_init_siop has returned.
Done == pc = "done" /\ UNCHANGED vars

MainLine ==
  \/ a4091_abort_start \/ a4091_abort_poll \/ a4091_reset
  \/ dma_init_siop_drain

-----------------------------------------------------------------------------
(* The SIOP, the SCSI bus and the clock.                                  *)

\* The SCRIPTS processor acknowledges the abort: DSTAT.ABRT and ISTAT.DIP.
AbortAck ==
  /\ abrt_req
  /\ abrt_req' = FALSE
  /\ dip' = TRUE
  /\ UNCHANGED <<pc, ticks, scsi, raised>>

\* The SCSI bus raises an interrupt (a reset, a selection, a phase
\* mismatch), which the SIOP stacks.
ScsiEvent ==
  /\ pc # "done"
  /\ raised < MaxScsiEvents
  /\ scsi' = scsi + 1
  /\ raised' = raised + 1
  /\ UNCHANGED <<pc, ticks, abrt_req, dip>>

\* A tick passes while a4091_abort waits.
Tick ==
  /\ pc = "abort_wait"
  /\ ticks < MaxTicks
  /\ ticks' = ticks + 1
  /\ UNCHANGED <<pc, abrt_req, dip, scsi, raised>>

Environment == AbortAck \/ ScsiEvent \/ Tick

Next == MainLine \/ Environment \/ Done

\* The main line runs whenever it can, and the system clock always
\* advances; the SIOP need not acknowledge the abort and the bus need not
\* raise anything.
Spec == Init /\ [][Next]_vars /\ WF_vars(MainLine) /\ WF_vars(Tick)

-----------------------------------------------------------------------------
(* Properties.                                                            *)

\* Every variable has its type.
TypeOK ==
  /\ pc \in PCs
  /\ ticks \in 0..MaxTicks
  /\ abrt_req \in BOOLEAN
  /\ dip \in BOOLEAN
  /\ scsi \in 0..MaxScsiEvents
  /\ raised \in 0..MaxScsiEvents

\* When dma_init_siop has returned, no abort of a4091_abort is still in
\* flight and DIP is clear: an abort that a4091_abort gave up on after its
\* two ticks is cancelled by a4091_reset, so no late DSTAT.ABRT can raise
\* DIP after the drain loop has seen ISTAT clear.
NoLateAbort ==
  pc = "done" => (~abrt_req /\ ~dip)

\* dma_init_siop returns, whether or not the SIOP acknowledges the abort
\* and however the bus's finitely many interrupts interleave with the
\* drain loop: each pass of the loop retires a pending cause.
InitReturns == <>(pc = "done")

=============================================================================
