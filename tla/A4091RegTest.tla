--------------------------- MODULE A4091RegTest ---------------------------
(***************************************************************************)
(* test_register_access of the A4091 test utility (src/a4091.c) against a *)
(* 53C710 whose data bus or registers may be faulty.                       *)
(*                                                                         *)
(* The test checks reserved register bits, resets the chip and checks the *)
(* status registers are clear, then runs a walking-bits test of SCRATCH   *)
(* and TEMP and classifies the data pins it saw misbehave as stuck high,  *)
(* stuck low, or floating/bridged.  A 32-bit word is the set of its one   *)
(* bits (bit i is data pin Di); AND, OR, XOR and NOT are intersection,    *)
(* union, symmetric difference and complement in Pins, and the rotate of  *)
(* next = (patt << 1) | (patt >> 31) maps bit i to bit (i + 1) % 32.       *)
(*                                                                         *)
(* A fault is a record: the data pins stuck high and stuck low, the pairs *)
(* of pins bridged (a bridge reads as the AND of its pins), and the        *)
(* register bits whose storage is stuck at one or at zero.  Each transfer *)
(* across the bus, a write or a read, meets the bus faults; what is stored *)
(* meets the register's.  The bits the test checks read 0 on a healthy    *)
(* chip, except DSTAT.DFE (bit 7), which is set after reset.               *)
(* Reads are deterministic, so the 100 passes of the reserved-bit loop    *)
(* see what its first pass sees, and the loop is one step.                 *)
(***************************************************************************)
EXTENDS Naturals, FiniteSets, Sequences

CONSTANTS
  Faults,     \* the faulty (or healthy) chips to test
  Rotations   \* iterations of the walking-bits loop (256 in the code)

Pins == 0..31

\* The register offsets used (big-endian byte addresses, as in REG_*).
REG_SCNTL1 == \h02
REG_DSTAT == \h0f
REG_CTEST0 == \h17
REG_CTEST2 == \h15
REG_TEMP == \h1c
REG_ISTAT == \h22
REG_SCRATCH == \h34
REG_DIEN == \h3a

Registers == {REG_SCNTL1, REG_DSTAT, REG_CTEST0, REG_CTEST2, REG_TEMP,
              REG_ISTAT, REG_SCRATCH, REG_DIEN}

FaultRecords == [high : SUBSET Pins, low : SUBSET Pins,
                 bridge : SUBSET (SUBSET Pins),
                 regbits : SUBSET (Registers \X Pins),
                 reglow : SUBSET (Registers \X Pins)]

\* The chip without faults.
NoFault == [high |-> {}, low |-> {}, bridge |-> {}, regbits |-> {},
            reglow |-> {}]

ASSUME FaultsAssumption == Faults \subseteq FaultRecords
ASSUME RotationsAssumption == Rotations \in Nat

\* patt = 0xf0e7c3a5.
InitialPattern == {0, 2, 5, 7, 8, 9, 14, 15, 16, 17, 18, 21, 22, 23,
                   28, 29, 30, 31}

\* The reserved-bit checks of the first loop, in the code's order:
\* check_ncrreg_bits(0, reg, name, rbits) as <<reg, rbits>>.  The fourth
\* check is labelled "CTEST2" in the code.
ReservedChecks ==
  << <<REG_SCNTL1, {1, 0}>>, <<REG_DSTAT, {6}>>, <<REG_CTEST0, {7, 1}>>,
     <<REG_CTEST0, {7}>>, <<REG_ISTAT, {4, 2}>>, <<REG_DIEN, {7, 6}>> >>

PCs == {"reserved", "reset", "walk", "report", "done"}

VARIABLES
  pc,          \* where test_register_access is
  fault,       \* the chip under test
  rc,          \* the error count returned
  rot,         \* the walking-bits loop index
  patt,        \* the pattern written to SCRATCH this iteration
  stuck_high,  \* pins read 1 in every read so far
  stuck_low,   \* pins read 0 in every read so far
  pins_diff    \* pins seen to differ from what was written

vars == <<pc, fault, rc, rot, patt, stuck_high, stuck_low, pins_diff>>

-----------------------------------------------------------------------------
(* The bus, the registers and the access layer.                           *)

\* Mutant: the rotate done in a wider type, so bit 31 also moves to bit 32.
RotateLeft_wide(w) == {i + 1 : i \in w} \cup {0 : i \in w \cap {31}}

\* rotl: next = (patt << 1) | (patt >> 31).
RotateLeft(w) == {(i + 1) % 32 : i \in w}

\* XOR of two words.
Xor(a, b) == (a \ b) \cup (b \ a)

\* One transfer of the pins in w across the data bus: a bridged pin reads
\* 1 only if every pin it is bridged to is driven 1; then the stuck pins.
Bus(w) ==
  LET anded == {i \in w : \A b \in fault.bridge : i \in b => b \subseteq w}
  IN  (anded \ fault.low) \cup fault.high

\* The register bits stuck at one in the storage of reg.
StuckBits(reg) == {b \in Pins : <<reg, b>> \in fault.regbits}

\* The register bits stuck at zero in the storage of reg.
LowBits(reg) == {b \in Pins : <<reg, b>> \in fault.reglow}

\* What the storage of reg holds after the bits in w are written to it.
Stored(reg, w) == (w \cup StuckBits(reg)) \ LowBits(reg)

\* The byte lane of an 8-bit register: the byte at offset reg of a
\* big-endian longword is on pins D(8*(3 - reg % 4)) .. +7.
Lane(reg) == 8 * (3 - (reg % 4))

\* get_ncrreg8(reg) for a register holding the bits in val: the register
\* drives its lane and the bus delivers it.
get_ncrreg8(reg, val) ==
  LET shift == Lane(reg)
      got == Bus({b + shift : b \in Stored(reg, val)})
  IN  {b \in 0..7 : b + shift \in got}

\* set_ncrreg32(reg, w) followed by get_ncrreg32(reg): the write crosses
\* the bus into the register, the read crosses it back.
WriteRead32(reg, w) == Bus(Stored(reg, Bus(w)))

\* check_ncrreg_bits(mode, reg, name, rbits) on a register holding val:
\* 1 when any bit of rbits reads as set.
check_ncrreg_bits(reg, val, rbits) ==
  IF get_ncrreg8(reg, val) \cap rbits # {} THEN 1 ELSE 0

\* Count the reserved checks that fail on this chip (its checked bits are
\* 0 apart from faults).
ReservedFailures ==
  Cardinality({k \in 1..Len(ReservedChecks) :
                 check_ncrreg_bits(ReservedChecks[k][1], {},
                                   ReservedChecks[k][2]) = 1})

-----------------------------------------------------------------------------
(* test_register_access.                                                  *)

Init ==
  /\ pc = "reserved"
  /\ fault \in Faults
  /\ rc = 0
  /\ rot = 0
  /\ patt = InitialPattern
  /\ stuck_high = Pins
  /\ stuck_low = Pins
  /\ pins_diff = {}

\* The reserved-bit loop: up to 100 passes of the six checks, leaving as
\* soon as a pass has found a set reserved bit.
test_register_access_reserved ==
  /\ pc = "reserved"
  /\ rc' = ReservedFailures
  /\ pc' = "reset"
  /\ UNCHANGED <<fault, rot, patt, stuck_high, stuck_low, pins_diff>>

\* Mutant: DSTAT is checked with mask 0xff, DFE included.
test_register_access_reset_dfe ==
  /\ pc = "reset"
  /\ rc' = rc + check_ncrreg_bits(REG_ISTAT, {}, 0..7)
              + check_ncrreg_bits(REG_DSTAT, {7}, 0..7)
  /\ pc' = "walk"
  /\ UNCHANGED <<fault, rot, patt, stuck_high, stuck_low, pins_diff>>

\* a4091_reset(), then check that ISTAT reads 0 and DSTAT reads 0 apart
\* from DFE (masks 0xff and 0x7f); after the reset DSTAT holds DFE only.
test_register_access_reset ==
  /\ pc = "reset"
  /\ rc' = rc + check_ncrreg_bits(REG_ISTAT, {}, 0..7)
              + check_ncrreg_bits(REG_DSTAT, {7}, 0..6)
  /\ pc' = "walk"
  /\ UNCHANGED <<fault, rot, patt, stuck_high, stuck_low, pins_diff>>

\* Mutant: the pattern is never advanced (patt = next is missing).
test_register_access_walk_no_rotate ==
  /\ pc = "walk"
  /\ rot < Rotations
  /\ LET next == RotateLeft(patt)
         got_scratch == WriteRead32(REG_SCRATCH, patt)
         got_temp == WriteRead32(REG_TEMP, next)
         diff_s == Xor(got_scratch, patt)
         diff_t == Xor(got_temp, next)
     IN  /\ stuck_high' = stuck_high \cap got_scratch \cap got_temp
         /\ stuck_low' = stuck_low \ (got_scratch \cup got_temp)
         /\ pins_diff' = pins_diff \cup diff_s \cup diff_t
         /\ rc' = rc + (IF diff_s # {} THEN 1 ELSE 0)
                     + (IF diff_t # {} THEN 1 ELSE 0)
         /\ UNCHANGED patt
  /\ rot' = rot + 1
  /\ UNCHANGED <<pc, fault>>

\* Mutant: a miscompare is reported but not counted (if (rc == 0) for
\* if (rc++ == 0)).
test_register_access_walk_no_count ==
  /\ pc = "walk"
  /\ rot < Rotations
  /\ LET next == RotateLeft(patt)
         got_scratch == WriteRead32(REG_SCRATCH, patt)
         got_temp == WriteRead32(REG_TEMP, next)
         diff_s == Xor(got_scratch, patt)
         diff_t == Xor(got_temp, next)
     IN  /\ stuck_high' = stuck_high \cap got_scratch \cap got_temp
         /\ stuck_low' = stuck_low \ (got_scratch \cup got_temp)
         /\ pins_diff' = pins_diff \cup diff_s \cup diff_t
         /\ UNCHANGED rc
         /\ patt' = next
  /\ rot' = rot + 1
  /\ UNCHANGED <<pc, fault>>

\* One iteration of the walking-bits loop: write patt to SCRATCH and its
\* rotation to TEMP, read both back, narrow the stuck-high and stuck-low
\* candidates, collect the differing pins and count each miscompare.
test_register_access_walk ==
  /\ pc = "walk"
  /\ rot < Rotations
  /\ LET next == RotateLeft(patt)
         got_scratch == WriteRead32(REG_SCRATCH, patt)
         got_temp == WriteRead32(REG_TEMP, next)
         diff_s == Xor(got_scratch, patt)
         diff_t == Xor(got_temp, next)
     IN  /\ stuck_high' = stuck_high \cap got_scratch \cap got_temp
         /\ stuck_low' = stuck_low \ (got_scratch \cup got_temp)
         /\ pins_diff' = pins_diff \cup diff_s \cup diff_t
         /\ rc' = rc + (IF diff_s # {} THEN 1 ELSE 0)
                     + (IF diff_t # {} THEN 1 ELSE 0)
         /\ patt' = next
  /\ rot' = rot + 1
  /\ UNCHANGED <<pc, fault>>

\* The loop ends after Rotations iterations.
test_register_access_walk_end ==
  /\ pc = "walk"
  /\ rot >= Rotations
  /\ pc' = "report"
  /\ UNCHANGED <<fault, rc, rot, patt, stuck_high, stuck_low, pins_diff>>

\* Mutant: the stuck pins are not taken out of the floating/bridged set.
test_register_access_report_unmasked ==
  /\ pc = "report"
  /\ pc' = "done"
  /\ UNCHANGED <<fault, rc, rot, patt, stuck_high, stuck_low, pins_diff>>

\* pins_diff &= ~(stuck_high | stuck_low), then the three reports.
test_register_access_report ==
  /\ pc = "report"
  /\ pins_diff' = pins_diff \ (stuck_high \cup stuck_low)
  /\ pc' = "done"
  /\ UNCHANGED <<fault, rc, rot, patt, stuck_high, stuck_low>>

\* The test has returned rc.
Done == pc = "done" /\ UNCHANGED vars

Next == \/ test_register_access_reserved \/ test_register_access_reset
        \/ test_register_access_walk \/ test_register_access_walk_end
        \/ test_register_access_report \/ Done

Spec == Init /\ [][Next]_vars

-----------------------------------------------------------------------------
(* Properties.                                                            *)

TypeOK ==
  /\ pc \in PCs
  /\ fault \in Faults
  /\ rc \in Nat
  /\ rot \in 0..Rotations
  /\ patt \in SUBSET Pins
  /\ stuck_high \in SUBSET Pins
  /\ stuck_low \in SUBSET Pins
  /\ pins_diff \in SUBSET Pins

\* The pins of the bus faults.
BridgedPins == UNION fault.bridge

\* A healthy chip passes test_register_access: no reserved or status bit
\* reads set (DSTAT's DFE is masked) and SCRATCH and TEMP read back every
\* pattern.
HealthyPasses ==
  (pc = "done" /\ fault = NoFault) => rc = 0

\* Every fault of the chip is detected: test_register_access returns a
\* non-zero count for any fault of the data bus or of the registers it
\* names.
FaultDetected ==
  (pc = "done" /\ fault # NoFault) => rc > 0

\* The final report names exactly the faulty data pins: for a bus fault
\* whose bridges do not touch its stuck pins, "Stuck high" lists the pins
\* stuck high, "Stuck low" those stuck low, and "Floating or bridged" the
\* bridged ones, and no healthy pin is blamed.
DiagnosisExact ==
  (pc = "done" /\ fault.regbits = {} /\ fault.reglow = {}
     /\ BridgedPins \cap (fault.high \cup fault.low) = {})
    => /\ stuck_high = fault.high
       /\ stuck_low = fault.low
       /\ pins_diff = BridgedPins

\* The register bits of SCRATCH and TEMP stuck at zero.
WalkLowBits ==
  {b \in Pins : <<REG_SCRATCH, b>> \in fault.reglow
                \/ <<REG_TEMP, b>> \in fault.reglow}

\* A bit of SCRATCH or TEMP that always reads 0 is reported as stuck low
\* (spec section 6, scenario 5: SCRATCH bit 5 shorted to ground prints
\* "Stuck low: 00000020"), for a chip with no fault that forces bits to
\* one.  The code's stuck_low keeps only pins that read 0 in both
\* registers.
StuckLowReported ==
  (pc = "done" /\ fault.high = {} /\ fault.bridge = {}
     /\ fault.regbits = {})
    => WalkLowBits \subseteq stuck_low

(* The classes of faults the test is built to see: a data pin stuck high *)
(* or low.                                                                 *)
StuckPinFault(f) == f.high \cup f.low # {}

(* Two data pins bridged, with no pin stuck and no register bit stuck at  *)
(* one (which could mask the bridge).                                     *)
BridgeFault(f) ==
  /\ f.high = {} /\ f.low = {} /\ f.regbits = {}
  /\ \E b \in f.bridge : \E i, j \in b : i # j

(* A sound data bus: no pin stuck and no bridge.                          *)
SoundBus(f) == f.high = {} /\ f.low = {} /\ f.bridge = {}

(* A bit of SCRATCH or TEMP stuck at one or at zero, on a sound bus.      *)
WalkRegisterFault(f) ==
  /\ SoundBus(f)
  /\ \E reg \in {REG_SCRATCH, REG_TEMP}, b \in Pins :
       <<reg, b>> \in f.regbits \cup f.reglow

(* A reserved bit that the first loop checks, or a status bit that the   *)
(* checks after the reset see, stuck at one, on a sound bus.              *)
CheckedBitFault(f) ==
  /\ SoundBus(f)
  /\ \/ \E c \in 1..Len(ReservedChecks) : \E b \in ReservedChecks[c][2] :
          /\ <<ReservedChecks[c][1], b>> \in f.regbits
          /\ <<ReservedChecks[c][1], b>> \notin f.reglow
     \/ \E b \in 0..7 : <<REG_ISTAT, b>> \in f.regbits \ f.reglow
     \/ \E b \in 0..6 : <<REG_DSTAT, b>> \in f.regbits \ f.reglow

Detectable(f) ==
  StuckPinFault(f) \/ BridgeFault(f) \/ WalkRegisterFault(f)
    \/ CheckedBitFault(f)

(* The chips whose diagnosis the report is built to get right: no pin     *)
(* stuck both high and low, and each bridge shorting two pins that no     *)
(* other bridge touches.                                                  *)
DiagnosableFault(f) ==
  /\ f.high \cap f.low = {}
  /\ \A b \in f.bridge : \E i, j \in b : i # j /\ b = {i, j}
  /\ \A b, c \in f.bridge : b # c => b \cap c = {}

=============================================================================
