-------------------------- MODULE A4091Init_proofs --------------------------
(***************************************************************************)
(* Proof, for every timeout and every bound on ticks and SCSI interrupts, *)
(* that dma_init_siop keeps its state well typed: the stacked SCSI causes *)
(* never exceed the interrupts raised, so retiring one never goes below    *)
(* zero and raising one never passes the bound.                            *)
(***************************************************************************)
EXTENDS A4091Init, TLAPS

(* TypeOK with the relation that bounds the stack: every stacked SCSI    *)
(* cause was raised.                                                       *)
IInv == TypeOK /\ scsi <= raised

(* The initial state satisfies IInv.                                      *)
LEMMA InitIInv == Init => IInv
<1> SUFFICES ASSUME Init PROVE IInv
  OBVIOUS
<1>1. pc \in PCs /\ abrt_req \in BOOLEAN /\ dip \in BOOLEAN
  BY Zenon DEF Init, PCs
<1>2. ticks \in 0..MaxTicks /\ scsi \in 0..MaxScsiEvents
      /\ raised \in 0..MaxScsiEvents /\ scsi <= raised
  BY InitAssumption DEF Init
<1> QED
  BY <1>1, <1>2 DEF IInv, TypeOK

(* The flags and the control state of IInv.                              *)
Flags == pc \in PCs /\ abrt_req \in BOOLEAN /\ dip \in BOOLEAN

(* The counters of IInv, which need arithmetic.                           *)
Counters ==
  /\ ticks \in 0..MaxTicks
  /\ scsi \in 0..MaxScsiEvents
  /\ raised \in 0..MaxScsiEvents
  /\ scsi <= raised

(* IInv is the conjunction of the two parts.                             *)
LEMMA IInvSplit == IInv <=> Flags /\ Counters
BY Zenon DEF IInv, TypeOK, Flags, Counters

(* Every step keeps the flags in their sets.                             *)
LEMMA FlagStep == Flags /\ [Next]_vars => Flags'
BY Zenon DEF Flags, PCs, Next, MainLine, Environment, a4091_abort_start,
   a4091_abort_poll, a4091_reset, dma_init_siop_drain, AbortAck, ScsiEvent,
   Tick, Done, vars

(* Every step keeps the counters in range: a tick only below MaxTicks, an *)
(* interrupt only below MaxScsiEvents, and a cause retired only when one  *)
(* is stacked.                                                             *)
LEMMA CounterStep == Counters /\ [Next]_vars => Counters'
<1> SUFFICES ASSUME Counters, [Next]_vars PROVE Counters'
  OBVIOUS
<1> USE InitAssumption DEF Counters
<1>1. CASE a4091_abort_start
  BY <1>1 DEF a4091_abort_start
<1>2. CASE a4091_abort_poll
  BY <1>2 DEF a4091_abort_poll
<1>3. CASE a4091_reset
  BY <1>3 DEF a4091_reset
<1>4. CASE dma_init_siop_drain
  BY <1>4 DEF dma_init_siop_drain
<1>5. CASE AbortAck
  BY <1>5 DEF AbortAck
<1>6. CASE ScsiEvent
  BY <1>6 DEF ScsiEvent
<1>7. CASE Tick
  BY <1>7 DEF Tick
<1>8. CASE Done \/ UNCHANGED vars
  BY <1>8 DEF Done, vars
<1> QED
  BY <1>1, <1>2, <1>3, <1>4, <1>5, <1>6, <1>7, <1>8
     DEF Next, MainLine, Environment

(* Every step keeps IInv.                                                 *)
LEMMA StepIInv == IInv /\ [Next]_vars => IInv'
<1> SUFFICES ASSUME IInv, [Next]_vars PROVE Flags' /\ Counters'
  BY Zenon DEF IInv, TypeOK, Flags, Counters
<1>1. Flags /\ Counters
  BY IInvSplit
<1> QED
  BY <1>1, FlagStep, CounterStep

(* In every reachable state of dma_init_siop the variables have their    *)
(* types, whatever the SIOP and the SCSI bus do.                          *)
THEOREM TypeCorrect == Spec => []TypeOK
<1>1. IInv => TypeOK
  BY DEF IInv
<1> QED
  BY InitIInv, StepIInv, <1>1, PTL DEF Spec
-----------------------------------------------------------------------------
(* No late abort after the return.                                        *)

(* The strengthening of NoLateAbort: from a4091_reset on no abort is in   *)
(* flight, and when the drain loop has left DIP is clear.                 *)
AbortCancelled ==
  /\ pc \in {"drain", "done"} => ~abrt_req
  /\ pc = "done" => ~dip

(* Every step keeps AbortCancelled: only a4091_abort sets ISTAT.ABRT, and *)
(* it runs before the reset; the SIOP acknowledges only an abort in       *)
(* flight; the drain loop leaves only with DIP clear.                     *)
LEMMA AbortCancelledStep ==
  ASSUME Flags, AbortCancelled, [Next]_vars
  PROVE  AbortCancelled'
<1>1. CASE a4091_abort_start \/ a4091_abort_poll \/ a4091_reset
  <2>1. pc' # "done" /\ (pc' = "drain" => ~abrt_req')
    BY <1>1 DEF a4091_abort_start, a4091_abort_poll, a4091_reset
  <2> QED
    BY <2>1 DEF AbortCancelled
<1>2. CASE dma_init_siop_drain
  <2>1. /\ pc = "drain" /\ pc' \in {"drain", "done"}
        /\ abrt_req' = abrt_req /\ (pc' = "done" => ~dip')
    BY <1>2 DEF dma_init_siop_drain
  <2> QED
    BY <2>1 DEF AbortCancelled
<1>3. CASE AbortAck
  BY <1>3, Zenon DEF AbortAck, AbortCancelled
<1>4. CASE ScsiEvent \/ Tick \/ Done \/ UNCHANGED vars
  <2>1. UNCHANGED <<pc, abrt_req, dip>>
    BY <1>4 DEF ScsiEvent, Tick, Done, vars
  <2> QED
    BY <2>1, Zenon DEF AbortCancelled
<1> QED
  BY <1>1, <1>2, <1>3, <1>4 DEF Next, MainLine, Environment

(* When dma_init_siop has returned, no abort is in flight and DIP is      *)
(* clear, for every timeout and bound: a4091_abort's timed-out abort is   *)
(* cancelled by the a4091_reset that follows it, so the SIOP cannot       *)
(* acknowledge it after the drain loop has seen ISTAT clear.              *)
THEOREM NoLateAbortCorrect == Spec => []NoLateAbort
<1>1. Init => Flags /\ AbortCancelled
  BY Zenon DEF Init, Flags, PCs, AbortCancelled
<1>2. Flags /\ AbortCancelled /\ [Next]_vars => Flags' /\ AbortCancelled'
  BY FlagStep, AbortCancelledStep
<1>3. AbortCancelled => NoLateAbort
  BY Zenon DEF AbortCancelled, NoLateAbort
<1> QED
  BY <1>1, <1>2, <1>3, PTL DEF Spec
=============================================================================
