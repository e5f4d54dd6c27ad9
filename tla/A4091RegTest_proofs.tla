------------------------ MODULE A4091RegTest_proofs ------------------------
(***************************************************************************)
(* Proofs, for every set of chips and every length of the walking-bits    *)
(* loop, that test_register_access of src/a4091.c keeps its state well    *)
(* typed and never blames a healthy 53C710.                               *)
(***************************************************************************)
EXTENDS A4091RegTest, FiniteSetTheorems, TLAPS

-----------------------------------------------------------------------------
(* Lemmas about the bus and the registers.                                *)

(* A fault of the chip under test names pins and register bits only.     *)
LEMMA FaultFields ==
  ASSUME fault \in Faults
  PROVE  /\ fault.high \subseteq Pins
         /\ fault.low \subseteq Pins
         /\ fault.bridge \subseteq SUBSET Pins
BY FaultsAssumption DEF FaultRecords

(* A transfer across the bus delivers only data pins.                     *)
LEMMA BusPins ==
  ASSUME fault \in Faults, NEW w \in SUBSET Pins
  PROVE  Bus(w) \in SUBSET Pins
BY FaultFields DEF Bus

(* A write and read back of a 32-bit register delivers only data pins.   *)
LEMMA WriteReadPins ==
  ASSUME fault \in Faults, NEW reg, NEW w \in SUBSET Pins
  PROVE  WriteRead32(reg, w) \in SUBSET Pins
<1>1. Bus(w) \in SUBSET Pins
  BY BusPins
<1>2. Stored(reg, Bus(w)) \in SUBSET Pins
  BY <1>1 DEF Stored, StuckBits
<1> QED
  BY <1>2, BusPins DEF WriteRead32

(* The rotate of rotl keeps a word within its 32 bits.                    *)
LEMMA RotatePins ==
  ASSUME NEW w \in SUBSET Pins
  PROVE  RotateLeft(w) \in SUBSET Pins
BY DEF RotateLeft, Pins

(* check_ncrreg_bits counts 0 or 1.                                       *)
LEMMA CheckRange ==
  ASSUME NEW reg, NEW val, NEW rbits
  PROVE  check_ncrreg_bits(reg, val, rbits) \in {0, 1}
BY DEF check_ncrreg_bits

(* The reserved-bit loop counts a natural number of failures.             *)
LEMMA ReservedFailuresNat == ReservedFailures \in Nat
<1> DEFINE S == {k \in 1..Len(ReservedChecks) :
                   check_ncrreg_bits(ReservedChecks[k][1], {},
                                     ReservedChecks[k][2]) = 1}
<1>1. Len(ReservedChecks) = 6
  BY DEF ReservedChecks
<1>2. IsFiniteSet(1..6)
  <2>1. 1 \in Int /\ 6 \in Int
    OBVIOUS
  <2> QED
    BY <2>1, FS_Interval, Zenon
<1>3. IsFiniteSet(S)
  BY <1>1, <1>2, FS_Subset
<1> QED
  BY <1>3, FS_CardinalityType DEF ReservedFailures

(* On a healthy chip the bus delivers what is driven and a register      *)
(* stores what is written.                                                *)
LEMMA HealthyBus ==
  ASSUME fault = NoFault, NEW w
  PROVE  Bus(w) = w
BY DEF Bus, NoFault

LEMMA HealthyStored ==
  ASSUME fault = NoFault, NEW reg, NEW w
  PROVE  Stored(reg, w) = w
BY DEF Stored, StuckBits, LowBits, NoFault

(* On a healthy chip SCRATCH and TEMP read back every pattern.           *)
LEMMA HealthyWriteRead ==
  ASSUME fault = NoFault, NEW reg, NEW w
  PROVE  Xor(WriteRead32(reg, w), w) = {}
<1>1. WriteRead32(reg, w) = w
  BY HealthyBus, HealthyStored DEF WriteRead32
<1> QED
  BY <1>1 DEF Xor

(* On a healthy chip an 8-bit register reads as it holds, on its lane.   *)
LEMMA HealthyGet ==
  ASSUME fault = NoFault, NEW reg \in Nat, NEW val \in SUBSET (0..7)
  PROVE  get_ncrreg8(reg, val) = val
<1> DEFINE shift == Lane(reg)
<1>1. shift \in Nat
  BY DEF Lane
<1>2. Bus({b + shift : b \in Stored(reg, val)}) = {b + shift : b \in val}
  BY HealthyBus, HealthyStored
<1>3. get_ncrreg8(reg, val) = {b \in 0..7 : b + shift \in {c + shift : c \in val}}
  BY <1>2, Zenon DEF get_ncrreg8
<1>4. \A b \in 0..7 : b + shift \in {c + shift : c \in val} <=> b \in val
  BY <1>1
<1> QED
  BY <1>3, <1>4

(* On a healthy chip no reserved bit reads set.                           *)
LEMMA HealthyReserved ==
  ASSUME fault = NoFault
  PROVE  ReservedFailures = 0
<1> DEFINE S == {k \in 1..Len(ReservedChecks) :
                   check_ncrreg_bits(ReservedChecks[k][1], {},
                                     ReservedChecks[k][2]) = 1}
<1>1. \A k \in 1..Len(ReservedChecks) : ReservedChecks[k][1] \in Nat
  BY DEF ReservedChecks, REG_SCNTL1, REG_DSTAT, REG_CTEST0, REG_ISTAT,
         REG_DIEN
<1>2. \A k \in 1..Len(ReservedChecks) :
        check_ncrreg_bits(ReservedChecks[k][1], {}, ReservedChecks[k][2]) = 0
  BY <1>1, HealthyGet DEF check_ncrreg_bits
<1>3. S = {}
  BY <1>2
<1> QED
  BY <1>3, FS_EmptySet DEF ReservedFailures

(* On a healthy chip ISTAT reads 0 after the reset, and DSTAT reads only  *)
(* DFE, which the mask 0x7f leaves out.                                   *)
LEMMA HealthyReset ==
  ASSUME fault = NoFault
  PROVE  /\ check_ncrreg_bits(REG_ISTAT, {}, 0..7) = 0
         /\ check_ncrreg_bits(REG_DSTAT, {7}, 0..6) = 0
<1>1. get_ncrreg8(REG_ISTAT, {}) = {} /\ get_ncrreg8(REG_DSTAT, {7}) = {7}
  BY HealthyGet DEF REG_ISTAT, REG_DSTAT
<1> QED
  BY <1>1 DEF check_ncrreg_bits

-----------------------------------------------------------------------------
(* Type correctness.                                                      *)

LEMMA TypeInit == Init => TypeOK
BY RotationsAssumption DEF Init, TypeOK, PCs, InitialPattern, Pins

LEMMA TypeStep == TypeOK /\ [Next]_vars => TypeOK'
<1> SUFFICES ASSUME TypeOK, [Next]_vars PROVE TypeOK'
  OBVIOUS
<1>1. CASE test_register_access_reserved
  BY <1>1, ReservedFailuresNat DEF test_register_access_reserved, TypeOK, PCs
<1>2. CASE test_register_access_reset
  <2>1. rc' \in Nat
    BY <1>2, CheckRange DEF test_register_access_reset, TypeOK
  <2> QED
    BY <1>2, <2>1 DEF test_register_access_reset, TypeOK, PCs
<1>3. CASE test_register_access_walk
  <2> DEFINE next == RotateLeft(patt)
             got_scratch == WriteRead32(REG_SCRATCH, patt)
             got_temp == WriteRead32(REG_TEMP, next)
  <2>1. next \in SUBSET Pins
    BY RotatePins DEF TypeOK
  <2>2. got_scratch \in SUBSET Pins /\ got_temp \in SUBSET Pins
    BY <2>1, WriteReadPins DEF TypeOK
  <2>3. pins_diff' \in SUBSET Pins
    BY <1>3, <2>1, <2>2 DEF test_register_access_walk, TypeOK, Xor
  <2>4. rc' \in Nat /\ rot' \in 0..Rotations
    BY <1>3, RotationsAssumption DEF test_register_access_walk, TypeOK
  <2> QED
    BY <1>3, <2>1, <2>3, <2>4 DEF test_register_access_walk, TypeOK
<1>4. CASE test_register_access_walk_end \/ test_register_access_report
           \/ Done \/ UNCHANGED vars
  BY <1>4 DEF test_register_access_walk_end, test_register_access_report,
     Done, vars, TypeOK, PCs
<1> QED
  BY <1>1, <1>2, <1>3, <1>4 DEF Next

(* Every reachable state of test_register_access is well typed, for every *)
(* set of chips and every length of the walking-bits loop: the error      *)
(* count is a natural number, the loop index stays within its bound, and  *)
(* the pattern, the stuck candidates and the differing pins are sets of   *)
(* data pins D0..D31.                                                      *)
THEOREM TypeCorrect == Spec => []TypeOK
BY TypeInit, TypeStep, PTL DEF Spec

-----------------------------------------------------------------------------
(* A healthy chip passes.                                                 *)

(* The strengthening: on a healthy chip the error count stays 0 in every *)
(* state, not only at the end.                                            *)
Healthy == fault = NoFault => rc = 0

HInv == TypeOK /\ Healthy

LEMMA HealthyStep ==
  ASSUME HInv, [Next]_vars
  PROVE  Healthy'
<1> SUFFICES ASSUME fault' = NoFault PROVE rc' = 0
  BY DEF Healthy
<1>0. fault = NoFault
  BY DEF Next, test_register_access_reserved, test_register_access_reset,
     test_register_access_walk, test_register_access_walk_end,
     test_register_access_report, Done, vars
<1>1. CASE test_register_access_reserved
  BY <1>0, <1>1, HealthyReserved DEF test_register_access_reserved
<1>2. CASE test_register_access_reset
  BY <1>0, <1>2, HealthyReset DEF test_register_access_reset, HInv, Healthy
<1>3. CASE test_register_access_walk
  <2>1. /\ Xor(WriteRead32(REG_SCRATCH, patt), patt) = {}
        /\ Xor(WriteRead32(REG_TEMP, RotateLeft(patt)), RotateLeft(patt)) = {}
    BY <1>0, HealthyWriteRead
  <2> QED
    BY <1>0, <1>3, <2>1 DEF test_register_access_walk, HInv, Healthy
<1>4. CASE test_register_access_walk_end \/ test_register_access_report
           \/ Done \/ UNCHANGED vars
  BY <1>0, <1>4 DEF test_register_access_walk_end,
     test_register_access_report, Done, vars, HInv, Healthy
<1> QED
  BY <1>1, <1>2, <1>3, <1>4 DEF Next

(* The strengthening holds initially and every step keeps it.            *)
THEOREM HInvCorrect == Spec => []HInv
<1>1. Init => HInv
  BY TypeInit DEF Init, HInv, Healthy
<1>2. HInv /\ [Next]_vars => HInv'
  BY TypeStep, HealthyStep DEF HInv
<1> QED
  BY <1>1, <1>2, PTL DEF Spec

(* A healthy 53C710 passes test_register_access, for every number of      *)
(* walking-bits iterations: no reserved or status bit reads set (DSTAT's  *)
(* DFE, set by the reset, is masked with 0x7f), and SCRATCH and TEMP read *)
(* back every pattern and its rotation, so rc stays 0.                    *)
THEOREM HealthyPassesCorrect == Spec => []HealthyPasses
<1>1. HInv => HealthyPasses
  BY DEF HInv, Healthy, HealthyPasses
<1> QED
  BY <1>1, HInvCorrect, PTL

-----------------------------------------------------------------------------
(* Every fault of the classes the test is built for is detected.          *)

(* The pattern of the walking-bits loop after k iterations: the initial  *)
(* pattern rotated left k times.                                           *)
PattAfter(k) == {(i + k) % 32 : i \in InitialPattern}

(* Iteration k of the walking-bits loop miscompares: SCRATCH does not    *)
(* read back the pattern, or TEMP its rotation.                           *)
Miscompare(k) ==
  \/ Xor(WriteRead32(REG_SCRATCH, PattAfter(k)), PattAfter(k)) # {}
  \/ Xor(WriteRead32(REG_TEMP, PattAfter(k + 1)), PattAfter(k + 1)) # {}

(* The status checks after the reset that fail.                           *)
StatusFailures ==
  check_ncrreg_bits(REG_ISTAT, {}, 0..7) + check_ncrreg_bits(REG_DSTAT, {7}, 0..6)

(* The strengthening: the pattern is the rotated initial one, the loop    *)
(* index is 0 before the loop and Rotations after it, and the count is    *)
(* positive once a reserved check, a status check or an iteration so far  *)
(* has failed.                                                             *)
Walk ==
  /\ patt = PattAfter(rot)
  /\ pc \in {"reserved", "reset"} => rot = 0
  /\ pc \in {"report", "done"} => rot = Rotations
  /\ pc # "reserved" /\ ReservedFailures > 0 => rc > 0
  /\ pc \notin {"reserved", "reset"} /\ StatusFailures > 0 => rc > 0
  /\ (\E k \in 0..(rot - 1) : Miscompare(k)) => rc > 0

WInv == TypeOK /\ Walk

-----------------------------------------------------------------------------
(* Lemmas about the rotated pattern.                                      *)

LEMMA InitialPins == InitialPattern \subseteq Pins
BY DEF InitialPattern, Pins

(* Data pin p is set after k rotations exactly when the pin k places to  *)
(* its right, modulo 32, is set in 0xf0e7c3a5.                            *)
LEMMA PattMember ==
  ASSUME NEW k \in Nat, NEW p \in Pins
  PROVE  p \in PattAfter(k) <=> (p + 32 - (k % 32)) % 32 \in InitialPattern
<1>1. \A i \in Pins : (((i + k) % 32) + 32 - (k % 32)) % 32 = i
  BY DEF Pins
<1>2. (((p + 32 - (k % 32)) % 32) + k) % 32 = p
  BY DEF Pins
<1>3. ASSUME p \in PattAfter(k) PROVE (p + 32 - (k % 32)) % 32 \in InitialPattern
  <2>1. PICK i \in InitialPattern : p = (i + k) % 32
    BY <1>3 DEF PattAfter
  <2> QED
    BY <2>1, <1>1, InitialPins
<1>4. ASSUME (p + 32 - (k % 32)) % 32 \in InitialPattern PROVE p \in PattAfter(k)
  BY <1>4, <1>2 DEF PattAfter
<1> QED
  BY <1>3, <1>4

(* A rotated pattern is a word of data pins.                              *)
LEMMA PattPins ==
  ASSUME NEW k \in Nat
  PROVE  PattAfter(k) \in SUBSET Pins
<1>1. \A i \in InitialPattern : (i + k) % 32 \in Pins
  BY InitialPins DEF Pins
<1> QED
  BY <1>1 DEF PattAfter

(* The loop starts with 0xf0e7c3a5 itself.                                *)
LEMMA PattZero == PattAfter(0) = InitialPattern
<1>1. \A i \in InitialPattern : (i + 0) % 32 = i
  BY DEF InitialPattern
<1> QED
  BY <1>1 DEF PattAfter

(* rotl of the pattern after k rotations is the pattern after k + 1.      *)
LEMMA RotateStep ==
  ASSUME NEW k \in Nat
  PROVE  RotateLeft(PattAfter(k)) = PattAfter(k + 1)
<1>1. \A i \in InitialPattern : (((i + k) % 32) + 1) % 32 = (i + (k + 1)) % 32
  BY DEF InitialPattern
<1> QED
  BY <1>1 DEF RotateLeft, PattAfter

-----------------------------------------------------------------------------
(* The walking-bits invariant.                                            *)

(* What the checks read depends on the chip only, which no step changes. *)
LEMMA ChipFixed ==
  ASSUME fault' = fault
  PROVE  /\ ReservedFailures' = ReservedFailures
         /\ StatusFailures' = StatusFailures
         /\ \A k \in Nat : Miscompare(k)' = Miscompare(k)
BY DEF ReservedFailures, StatusFailures, Miscompare, check_ncrreg_bits,
   get_ncrreg8, WriteRead32, Bus, Stored, StuckBits, LowBits

LEMMA WalkInit == Init => Walk
<1> SUFFICES ASSUME Init PROVE Walk
  OBVIOUS
<1>1. patt = PattAfter(rot)
  BY PattZero DEF Init
<1>2. ~\E k \in 0..(rot - 1) : Miscompare(k)
  BY DEF Init
<1> QED
  BY <1>1, <1>2 DEF Init, Walk

(* Every step keeps Walk.                                                 *)
LEMMA WalkStep ==
  ASSUME WInv, [Next]_vars
  PROVE  Walk'
<1>0. fault' = fault
  BY DEF Next, test_register_access_reserved, test_register_access_reset,
     test_register_access_walk, test_register_access_walk_end,
     test_register_access_report, Done, vars
<1>1. /\ ReservedFailures' = ReservedFailures
      /\ StatusFailures' = StatusFailures
      /\ \A k \in Nat : Miscompare(k)' = Miscompare(k)
  BY <1>0, ChipFixed
<1>2. rc \in Nat /\ rot \in 0..Rotations
  BY RotationsAssumption DEF WInv, TypeOK
<1>3. CASE test_register_access_reserved
  BY <1>1, <1>2, <1>3 DEF test_register_access_reserved, WInv, Walk
<1>4. CASE test_register_access_reset
  <2>1. /\ check_ncrreg_bits(REG_ISTAT, {}, 0..7) \in {0, 1}
        /\ check_ncrreg_bits(REG_DSTAT, {7}, 0..6) \in {0, 1}
    BY CheckRange
  <2>2. rc' = rc + StatusFailures
    BY <1>4, <1>2, <2>1 DEF test_register_access_reset, StatusFailures
  <2>3. rot = 0 /\ rot' = 0 /\ pc' = "walk" /\ patt' = patt
    BY <1>4 DEF test_register_access_reset, WInv, Walk
  <2>4. ReservedFailures > 0 => rc > 0
    BY <1>4 DEF test_register_access_reset, WInv, Walk
  <2>5. StatusFailures \in Nat
    BY <2>1 DEF StatusFailures
  <2> QED
    BY <1>1, <1>2, <2>2, <2>3, <2>4, <2>5 DEF WInv, Walk
<1>5. CASE test_register_access_walk
  <2>1. patt = PattAfter(rot) /\ rot \in Nat
    BY <1>2 DEF WInv, Walk
  <2>2. RotateLeft(patt) = PattAfter(rot + 1)
    BY <2>1, RotateStep
  <2> DEFINE a == IF Xor(WriteRead32(REG_SCRATCH, PattAfter(rot)),
                          PattAfter(rot)) # {} THEN 1 ELSE 0
             b == IF Xor(WriteRead32(REG_TEMP, PattAfter(rot + 1)),
                          PattAfter(rot + 1)) # {} THEN 1 ELSE 0
  <2>3. /\ rc' = rc + a + b
        /\ patt' = PattAfter(rot + 1)
        /\ rot' = rot + 1 /\ pc' = "walk" /\ pc = "walk"
    BY <1>5, <2>1, <2>2 DEF test_register_access_walk
  <2>4. Miscompare(rot) => a + b > 0
    BY DEF Miscompare
  <2>5. rc' >= rc /\ rc' \in Nat
    BY <1>2, <2>3
  <2>6. ASSUME NEW k \in 0..(rot' - 1), Miscompare(k)' PROVE rc' > 0
    <3>1. Miscompare(k)
      BY <1>1, <2>6, <2>3, <2>1
    <3>2. CASE k = rot
      BY <3>1, <3>2, <2>4, <2>3, <1>2
    <3>3. CASE k # rot
      <4>1. k \in 0..(rot - 1)
        BY <3>3, <2>3, <2>1
      <4>2. rc > 0
        BY <4>1, <3>1 DEF WInv, Walk
      <4> QED
        BY <4>2, <2>5, <1>2
    <3> QED
      BY <3>2, <3>3
  <2>7. (ReservedFailures > 0 \/ StatusFailures > 0) => rc > 0
    BY <2>3 DEF WInv, Walk
  <2> QED
    BY <1>1, <2>3, <2>5, <2>6, <2>7, <1>2 DEF Walk
<1>6. CASE test_register_access_walk_end
  <2>1. rot = Rotations
    BY <1>6, <1>2, RotationsAssumption DEF test_register_access_walk_end
  <2> QED
    BY <1>1, <1>6, <2>1 DEF test_register_access_walk_end, WInv, Walk
<1>7. CASE test_register_access_report
  BY <1>1, <1>7 DEF test_register_access_report, WInv, Walk
<1>8. CASE Done \/ UNCHANGED vars
  BY <1>1, <1>8 DEF Done, vars, WInv, Walk
<1> QED
  BY <1>3, <1>4, <1>5, <1>6, <1>7, <1>8 DEF Next

-----------------------------------------------------------------------------
(* Lemmas about the bus and the classes of faults.                        *)

(* For each shift d in 1..31, a set bit of 0xf0e7c3a5 whose bit d places *)
(* to the left is clear: the pattern equals none of its rotations.        *)
ShiftWitness ==
  <<0, 2, 0, 0, 5, 0, 5, 2, 2, 0, 0, 0, 0, 5, 5, 8, 2, 2, 0, 0, 5, 2, 2,
    0, 0, 0, 0, 5, 7, 5, 2>>

LEMMA Aperiodic ==
  \A d \in 1..31 : /\ ShiftWitness[d] \in InitialPattern
                   /\ (ShiftWitness[d] + d) % 32 \notin InitialPattern
BY DEF ShiftWitness, InitialPattern

(* Rotation (i + 32 - m) % 32 moves bit m of the initial pattern onto   *)
(* pin i, and bit m + d onto the pin d places above i.                    *)
LEMMA RotationOffsets ==
  ASSUME NEW i \in Pins, NEW j \in Pins, NEW m \in Pins
  PROVE  LET k == (i + 32 - m) % 32
         IN  /\ k \in 0..31
             /\ (i + 32 - (k % 32)) % 32 = m
             /\ (j + 32 - (k % 32)) % 32 = (m + ((j + 32 - i) % 32)) % 32
<1> DEFINE d == (j + 32 - i) % 32
           k == (i + 32 - m) % 32
<1>1. k \in 0..31 /\ k % 32 = k
  BY DEF Pins
<1>2. (i + 32 - k) % 32 = m
  <2>1. CASE i >= m
    <3>1. k = i - m
      BY <2>1 DEF Pins
    <3> QED
      BY <3>1 DEF Pins
  <2>2. CASE i < m
    <3>1. k = i + 32 - m
      BY <2>2 DEF Pins
    <3> QED
      BY <3>1 DEF Pins
  <2> QED
    BY <2>1, <2>2 DEF Pins
<1>3. (j + 32 - k) % 32 = (m + d) % 32
  <2>1. k = i - m \/ k = i + 32 - m
    BY DEF Pins
  <2>2. d = j - i \/ d = j + 32 - i
    BY DEF Pins
  <2>3. \E c \in -1..2 : j + 32 - k = m + d + 32 * c
    BY <2>1, <2>2 DEF Pins
  <2> QED
    BY <2>3 DEF Pins
<1> QED
  BY <1>1, <1>2, <1>3

(* For two different data pins, one of the first 32 patterns sets the     *)
(* first and clears the second.                                           *)
LEMMA SeparatingRotation ==
  ASSUME NEW i \in Pins, NEW j \in Pins, i # j
  PROVE  \E k \in 0..31 : i \in PattAfter(k) /\ j \notin PattAfter(k)
<1> DEFINE d == (j + 32 - i) % 32
<1>1. d \in 1..31
  BY DEF Pins
<1> DEFINE m == ShiftWitness[d]
<1>2. m \in InitialPattern /\ (m + d) % 32 \notin InitialPattern
  BY <1>1, Aperiodic
<1>3. m \in Pins
  BY <1>2, InitialPins
<1> DEFINE k == (i + 32 - m) % 32
<1>4. /\ k \in 0..31
      /\ (i + 32 - (k % 32)) % 32 = m
      /\ (j + 32 - (k % 32)) % 32 = (m + d) % 32
  BY <1>3, RotationOffsets
<1>5. i \in PattAfter(k)
  BY <1>2, <1>4, PattMember
<1>6. j \notin PattAfter(k)
  BY <1>2, <1>4, PattMember
<1> QED
  BY <1>4, <1>5, <1>6

(* For every distance d between two pins, a bit m of the initial pattern *)
(* and the bit d places above it are both 1.                              *)
PairWitness ==
  <<7, 0, 2, 5, 0, 2, 0, 0, 0, 5, 5, 2, 2, 0, 0, 0, 0, 0, 2, 2, 0, 0, 0, 5,
    5, 2, 2, 0, 0, 0, 0>>

LEMMA PairPattern ==
  \A d \in 1..31 : /\ PairWitness[d] \in InitialPattern
                   /\ (PairWitness[d] + d) % 32 \in InitialPattern
BY DEF PairWitness, InitialPattern

(* For any two data pins, one of the first 32 patterns sets both.         *)
LEMMA PairRotation ==
  ASSUME NEW i \in Pins, NEW j \in Pins, i # j
  PROVE  \E k \in 0..31 : i \in PattAfter(k) /\ j \in PattAfter(k)
<1> DEFINE d == (j + 32 - i) % 32
<1>1. d \in 1..31
  BY DEF Pins
<1> DEFINE m == PairWitness[d]
<1>2. m \in InitialPattern /\ (m + d) % 32 \in InitialPattern
  BY <1>1, PairPattern
<1>3. m \in Pins
  BY <1>2, InitialPins
<1> DEFINE k == (i + 32 - m) % 32
<1>4. /\ k \in 0..31
      /\ (i + 32 - (k % 32)) % 32 = m
      /\ (j + 32 - (k % 32)) % 32 = (m + d) % 32
  BY <1>3, RotationOffsets
<1>5. i \in PattAfter(k) /\ j \in PattAfter(k)
  BY <1>2, <1>4, PattMember
<1> QED
  BY <1>4, <1>5

(* A pin stuck high reads 1 whatever is driven.                           *)
LEMMA BusHigh ==
  ASSUME NEW w
  PROVE  fault.high \subseteq Bus(w)
BY DEF Bus

(* A pin stuck low, and not also stuck high, reads 0.                     *)
LEMMA BusLow ==
  ASSUME NEW w, NEW i \in fault.low \ fault.high
  PROVE  i \notin Bus(w)
BY DEF Bus

(* With no pin stuck high the bus delivers no pin that is not driven, and *)
(* a bridged pin driven 1 reads 0 while a pin it is bridged to is 0.      *)
LEMMA BusNoHigh ==
  ASSUME fault.high = {}, NEW w
  PROVE  Bus(w) \subseteq w
BY DEF Bus

LEMMA BusBridge ==
  ASSUME fault.high = {}, NEW b \in fault.bridge, NEW i \in b, NEW j \in b,
         NEW w, j \notin w
  PROVE  i \notin Bus(w)
BY DEF Bus

(* On a sound bus a transfer delivers what is driven.                     *)
LEMMA SoundBusId ==
  ASSUME SoundBus(fault), NEW w
  PROVE  Bus(w) = w
BY DEF Bus, SoundBus

(* With no register bit stuck at one a register stores no bit that was   *)
(* not written.                                                           *)
LEMMA StoredNoStuck ==
  ASSUME fault.regbits = {}, NEW reg, NEW w
  PROVE  Stored(reg, w) \subseteq w
BY DEF Stored, StuckBits

(* On a sound bus an 8-bit register reads its stored bits of the byte.   *)
LEMMA SoundGet ==
  ASSUME SoundBus(fault), NEW reg \in Nat, NEW val \in SUBSET Pins
  PROVE  get_ncrreg8(reg, val) = Stored(reg, val) \cap (0..7)
<1> DEFINE shift == Lane(reg)
<1>1. shift \in Nat
  BY DEF Lane
<1>2. Bus({b + shift : b \in Stored(reg, val)})
        = {b + shift : b \in Stored(reg, val)}
  BY SoundBusId
<1>3. get_ncrreg8(reg, val)
        = {b \in 0..7 : b + shift \in {c + shift : c \in Stored(reg, val)}}
  BY <1>2, Zenon DEF get_ncrreg8
<1>4. Stored(reg, val) \subseteq Pins
  BY DEF Stored, StuckBits, LowBits
<1>5. \A b \in 0..7 :
        b + shift \in {c + shift : c \in Stored(reg, val)} <=> b \in Stored(reg, val)
  BY <1>1, <1>4 DEF Pins
<1> QED
  BY <1>3, <1>5

(* A pin that the SCRATCH write and read of rotation k gets wrong, or    *)
(* that the TEMP write and read of rotation k gets wrong, is a            *)
(* miscompare of that iteration.                                          *)
LEMMA ScratchMiss ==
  ASSUME NEW k, NEW i,
         \/ i \in PattAfter(k) /\ i \notin WriteRead32(REG_SCRATCH, PattAfter(k))
         \/ i \notin PattAfter(k) /\ i \in WriteRead32(REG_SCRATCH, PattAfter(k))
  PROVE  Miscompare(k)
BY DEF Miscompare, Xor

LEMMA TempMiss ==
  ASSUME NEW k, NEW i,
         \/ i \in PattAfter(k + 1) /\ i \notin WriteRead32(REG_TEMP, PattAfter(k + 1))
         \/ i \notin PattAfter(k + 1) /\ i \in WriteRead32(REG_TEMP, PattAfter(k + 1))
  PROVE  Miscompare(k)
BY DEF Miscompare, Xor

(* A stuck data pin makes one of the first 32 iterations miscompare: a   *)
(* pin stuck high on the rotation whose pattern has it 0, a pin stuck low *)
(* on the rotation whose pattern has it 1.                                *)
LEMMA StuckPinSeen ==
  ASSUME fault \in Faults, StuckPinFault(fault)
  PROVE  \E k \in 0..31 : Miscompare(k)
<1>1. fault.high \subseteq Pins /\ fault.low \subseteq Pins
  BY FaultFields
<1>2. CASE fault.high # {}
  <2>1. PICK i \in fault.high : TRUE
    BY <1>2
  <2> DEFINE k == (i + 31) % 32
  <2>2. i \in Pins
    BY <1>1, <2>1
  <2>3. k \in 0..31 /\ (i + 32 - (k % 32)) % 32 = 1
    BY <2>2 DEF Pins
  <2>4. 1 \notin InitialPattern
    BY DEF InitialPattern
  <2>5. i \notin PattAfter(k)
    BY <2>2, <2>3, <2>4, PattMember
  <2>6. i \in WriteRead32(REG_SCRATCH, PattAfter(k))
    BY <2>1, BusHigh DEF WriteRead32
  <2> QED
    BY <2>3, <2>5, <2>6, ScratchMiss
<1>3. CASE fault.high = {}
  <2>1. PICK i \in fault.low : TRUE
    BY <1>3 DEF StuckPinFault
  <2>2. i \in Pins
    BY <1>1, <2>1
  <2>3. i \in 0..31 /\ (i + 32 - (i % 32)) % 32 = 0
    BY <2>2 DEF Pins
  <2>4. 0 \in InitialPattern
    BY DEF InitialPattern
  <2>5. i \in PattAfter(i)
    BY <2>2, <2>3, <2>4, PattMember
  <2>6. i \in fault.low \ fault.high
    BY <1>3, <2>1
  <2>7. i \notin WriteRead32(REG_SCRATCH, PattAfter(i))
    BY <2>6, BusLow DEF WriteRead32
  <2> QED
    BY <2>3, <2>5, <2>7, ScratchMiss
<1> QED
  BY <1>2, <1>3

(* Two bridged pins make one of the first 32 iterations miscompare: on a *)
(* rotation whose pattern drives the first 1 and the second 0 the first   *)
(* reads 0, and nothing on a chip with only bridges can set it again.     *)
LEMMA BridgeSeen ==
  ASSUME fault \in Faults, BridgeFault(fault)
  PROVE  \E k \in 0..31 : Miscompare(k)
<1>1. PICK b \in fault.bridge : \E i, j \in b : i # j
  BY DEF BridgeFault
<1>2. PICK i \in b, j \in b : i # j
  BY <1>1
<1>3. i \in Pins /\ j \in Pins
  BY <1>1, FaultFields
<1>4. PICK k \in 0..31 : i \in PattAfter(k) /\ j \notin PattAfter(k)
  BY <1>2, <1>3, SeparatingRotation
<1> DEFINE P == PattAfter(k)
           S == Stored(REG_SCRATCH, Bus(P))
<1>5. fault.high = {} /\ fault.regbits = {}
  BY DEF BridgeFault
<1>6. i \notin Bus(P)
  BY <1>1, <1>2, <1>4, <1>5, BusBridge
<1>7. S \subseteq Bus(P)
  BY <1>5, StoredNoStuck
<1>8. Bus(S) \subseteq S
  BY <1>5, BusNoHigh
<1>9. i \notin WriteRead32(REG_SCRATCH, P)
  BY <1>6, <1>7, <1>8 DEF WriteRead32
<1> QED
  BY <1>4, <1>9, ScratchMiss

(* On a sound bus a write and a read deliver what the register stores.   *)
LEMMA SoundWriteRead ==
  ASSUME SoundBus(fault), NEW reg, NEW w
  PROVE  WriteRead32(reg, w) = Stored(reg, w)
<1>1. Bus(w) = w
  BY SoundBusId
<1>2. Bus(Stored(reg, w)) = Stored(reg, w)
  BY SoundBusId
<1> QED
  BY <1>1, <1>2 DEF WriteRead32

(* A bit of SCRATCH or TEMP stuck at 0 or at 1 makes one of the first 32 *)
(* iterations miscompare: the one whose pattern for that register has the *)
(* bit at the other value.                                                *)
LEMMA WalkRegisterSeen ==
  ASSUME WalkRegisterFault(fault)
  PROVE  \E k \in 0..31 : Miscompare(k)
<1>1. PICK reg \in {REG_SCRATCH, REG_TEMP}, b \in Pins :
        <<reg, b>> \in fault.regbits \cup fault.reglow
  BY DEF WalkRegisterFault
<1>2. SoundBus(fault)
  BY DEF WalkRegisterFault
<1>3. \A w : WriteRead32(reg, w) = Stored(reg, w)
  BY <1>2, SoundWriteRead
<1>4. 0 \in InitialPattern /\ 1 \notin InitialPattern
  BY DEF InitialPattern
<1>5. CASE <<reg, b>> \in fault.reglow
  <2>1. \A w : b \notin WriteRead32(reg, w)
    BY <1>3, <1>5 DEF Stored, LowBits
  <2>2. CASE reg = REG_SCRATCH
    <3>1. b \in 0..31 /\ (b + 32 - (b % 32)) % 32 = 0
      BY DEF Pins
    <3>2. b \in PattAfter(b)
      BY <1>4, <3>1, PattMember
    <3> QED
      BY <2>1, <2>2, <3>1, <3>2, ScratchMiss
  <2>3. CASE reg = REG_TEMP
    <3> DEFINE k == (b + 31) % 32
    <3>1. k \in 0..31 /\ (b + 32 - ((k + 1) % 32)) % 32 = 0
      BY DEF Pins
    <3>2. b \in PattAfter(k + 1)
      BY <1>4, <3>1, PattMember
    <3> QED
      BY <2>1, <2>3, <3>1, <3>2, TempMiss
  <2> QED
    BY <1>1, <2>2, <2>3
<1>6. CASE <<reg, b>> \notin fault.reglow
  <2>1. <<reg, b>> \in fault.regbits
    BY <1>1, <1>6
  <2>2. \A w : b \in WriteRead32(reg, w)
    BY <1>3, <1>6, <2>1 DEF Stored, LowBits, StuckBits
  <2>3. CASE reg = REG_SCRATCH
    <3> DEFINE k == (b + 31) % 32
    <3>1. k \in 0..31 /\ (b + 32 - (k % 32)) % 32 = 1
      BY DEF Pins
    <3>2. b \notin PattAfter(k)
      BY <1>4, <3>1, PattMember
    <3> QED
      BY <2>2, <2>3, <3>1, <3>2, ScratchMiss
  <2>4. CASE reg = REG_TEMP
    <3> DEFINE k == (b + 30) % 32
    <3>1. k \in 0..31 /\ (b + 32 - ((k + 1) % 32)) % 32 = 1
      BY DEF Pins
    <3>2. b \notin PattAfter(k + 1)
      BY <1>4, <3>1, PattMember
    <3> QED
      BY <2>2, <2>4, <3>1, <3>2, TempMiss
  <2> QED
    BY <1>1, <2>3, <2>4
<1> QED
  BY <1>5, <1>6

(* On a sound bus a byte-register bit stuck at one, and not also at zero, *)
(* fails every check that tests it, whatever was written.                 *)
LEMMA StuckBitFails ==
  ASSUME SoundBus(fault), NEW reg \in Nat, NEW val \in SUBSET Pins,
         NEW b \in 0..7, <<reg, b>> \in fault.regbits \ fault.reglow,
         NEW rbits, b \in rbits
  PROVE  check_ncrreg_bits(reg, val, rbits) = 1
<1>1. b \in Stored(reg, val)
  BY DEF Stored, StuckBits, LowBits, Pins
<1>2. b \in get_ncrreg8(reg, val)
  BY <1>1, SoundGet
<1> QED
  BY <1>2 DEF check_ncrreg_bits

(* A bit stuck at one that the reserved-bit loop or the status checks     *)
(* after the reset test is counted as a failure.                          *)
LEMMA CheckedBitSeen ==
  ASSUME CheckedBitFault(fault)
  PROVE  ReservedFailures > 0 \/ StatusFailures > 0
<1>1. SoundBus(fault)
  BY DEF CheckedBitFault
<1>2. CASE \E c \in 1..Len(ReservedChecks) : \E b \in ReservedChecks[c][2] :
             /\ <<ReservedChecks[c][1], b>> \in fault.regbits
             /\ <<ReservedChecks[c][1], b>> \notin fault.reglow
  <2> DEFINE S == {k \in 1..Len(ReservedChecks) :
                     check_ncrreg_bits(ReservedChecks[k][1], {},
                                       ReservedChecks[k][2]) = 1}
  <2>1. PICK c \in 1..Len(ReservedChecks) : \E b \in ReservedChecks[c][2] :
             /\ <<ReservedChecks[c][1], b>> \in fault.regbits
             /\ <<ReservedChecks[c][1], b>> \notin fault.reglow
    BY <1>2
  <2>2. PICK b \in ReservedChecks[c][2] :
             /\ <<ReservedChecks[c][1], b>> \in fault.regbits
             /\ <<ReservedChecks[c][1], b>> \notin fault.reglow
    BY <2>1
  <2>3. ReservedChecks[c][1] \in Nat /\ ReservedChecks[c][2] \subseteq 0..7
    BY DEF ReservedChecks, REG_SCNTL1, REG_DSTAT, REG_CTEST0, REG_ISTAT,
           REG_DIEN
  <2>4. check_ncrreg_bits(ReservedChecks[c][1], {}, ReservedChecks[c][2]) = 1
    BY <1>1, <2>2, <2>3, StuckBitFails
  <2>5. c \in S
    BY <2>4
  <2>6. IsFiniteSet(S)
    <3>1. Len(ReservedChecks) = 6
      BY DEF ReservedChecks
    <3>2. 1 \in Int /\ 6 \in Int
      OBVIOUS
    <3>3. IsFiniteSet(1..6)
      BY <3>2, FS_Interval, Zenon
    <3> QED
      BY <3>1, <3>3, FS_Subset
  <2>7. Cardinality(S) # 0
    BY <2>5, <2>6, FS_EmptySet
  <2>8. Cardinality(S) \in Nat
    BY <2>6, FS_CardinalityType
  <2> QED
    BY <2>7, <2>8 DEF ReservedFailures
<1>3. CASE \E b \in 0..7 : <<REG_ISTAT, b>> \in fault.regbits \ fault.reglow
  <2>1. check_ncrreg_bits(REG_ISTAT, {}, 0..7) = 1
    BY <1>1, <1>3, StuckBitFails DEF REG_ISTAT
  <2>2. check_ncrreg_bits(REG_DSTAT, {7}, 0..6) \in {0, 1}
    BY CheckRange
  <2> QED
    BY <2>1, <2>2 DEF StatusFailures
<1>4. CASE \E b \in 0..6 : <<REG_DSTAT, b>> \in fault.regbits \ fault.reglow
  <2>1. {7} \subseteq Pins /\ REG_DSTAT \in Nat
    BY DEF Pins, REG_DSTAT
  <2>2. PICK b \in 0..6 : <<REG_DSTAT, b>> \in fault.regbits \ fault.reglow
    BY <1>4
  <2>3. b \in 0..7
    BY DEF Pins
  <2>4. check_ncrreg_bits(REG_DSTAT, {7}, 0..6) = 1
    BY <1>1, <2>1, <2>2, <2>3, StuckBitFails
  <2>5. check_ncrreg_bits(REG_ISTAT, {}, 0..7) \in {0, 1}
    BY CheckRange
  <2> QED
    BY <2>4, <2>5 DEF StatusFailures
<1> QED
  BY <1>2, <1>3, <1>4 DEF CheckedBitFault

(* A fault of one of the four classes shows in the reserved-bit loop, in *)
(* the status checks after the reset, or in one of the first 32           *)
(* iterations of the walking-bits loop.                                   *)
LEMMA DetectableSeen ==
  ASSUME fault \in Faults, Detectable(fault)
  PROVE  \/ ReservedFailures > 0
         \/ StatusFailures > 0
         \/ \E k \in 0..31 : Miscompare(k)
BY StuckPinSeen, BridgeSeen, WalkRegisterSeen, CheckedBitSeen DEF Detectable

(* The walking-bits invariant holds in every state of test_register_access. *)
THEOREM WInvCorrect == Spec => []WInv
<1>1. Init => WInv
  BY TypeInit, WalkInit DEF WInv
<1>2. WInv /\ [Next]_vars => WInv'
  BY TypeStep, WalkStep DEF WInv
<1> QED
  BY <1>1, <1>2, PTL DEF Spec

(* test_register_access returns a nonzero count for every faulty chip of  *)
(* Faults, when each of its faults is a stuck data pin, a bridge on an    *)
(* otherwise sound chip, a stuck bit of SCRATCH or TEMP, or a stuck-at-1  *)
(* bit that a reserved-bit or status check reads, and the walking-bits    *)
(* loop runs at least 32 times (the code runs it 256 times).              *)
THEOREM FaultDetectedCorrect ==
  ASSUME Rotations >= 32,
         \A f \in Faults : f # NoFault => Detectable(f)
  PROVE  Spec => []FaultDetected
<1>1. WInv => FaultDetected
  <2> SUFFICES ASSUME WInv, pc = "done", fault # NoFault PROVE rc > 0
    BY DEF FaultDetected
  <2>1. fault \in Faults /\ Detectable(fault)
    BY DEF WInv, TypeOK
  <2>2. rot = Rotations
    BY DEF WInv, Walk
  <2>3. rot \in Nat
    BY DEF WInv, TypeOK
  <2>4. \A k \in 0..31 : k \in 0..(rot - 1)
    BY <2>2, <2>3
  <2>5. \/ ReservedFailures > 0
        \/ StatusFailures > 0
        \/ \E k \in 0..(rot - 1) : Miscompare(k)
    BY <2>1, <2>4, DetectableSeen
  <2> QED
    BY <2>5 DEF WInv, Walk
<1> QED
  BY <1>1, WInvCorrect, PTL

-----------------------------------------------------------------------------
(* The diagnosis.                                                         *)

(* What iteration k of the walking-bits loop reads back from SCRATCH and *)
(* from TEMP, and the pins on which each read differs from what was       *)
(* written.                                                               *)
GotScratch(k) == WriteRead32(REG_SCRATCH, PattAfter(k))
GotTemp(k) == WriteRead32(REG_TEMP, PattAfter(k + 1))
DiffAt(k) == Xor(GotScratch(k), PattAfter(k)) \cup Xor(GotTemp(k), PattAfter(k + 1))

(* The three masks of test_register_access after rot iterations: a pin   *)
(* is a stuck-high candidate while every read so far has it 1, a stuck-low *)
(* candidate while every read has it 0, and pins_diff collects every pin  *)
(* that differed, less the stuck candidates once the report is done.      *)
Accum ==
  /\ stuck_high = {x \in Pins : \A k \in 0..(rot - 1) : x \in GotScratch(k) \cap GotTemp(k)}
  /\ stuck_low = {x \in Pins : \A k \in 0..(rot - 1) : x \notin GotScratch(k) \cup GotTemp(k)}
  /\ pc # "done" => pins_diff = UNION {DiffAt(k) : k \in 0..(rot - 1)}
  /\ pc = "done" =>
       pins_diff = (UNION {DiffAt(k) : k \in 0..(rot - 1)}) \ (stuck_high \cup stuck_low)

DInv == WInv /\ Accum

(* The reads of every iteration depend only on the chip.                  *)
LEMMA DiagFixed ==
  ASSUME fault' = fault
  PROVE  \A k : /\ GotScratch(k)' = GotScratch(k)
                /\ GotTemp(k)' = GotTemp(k)
                /\ DiffAt(k)' = DiffAt(k)
BY DEF GotScratch, GotTemp, DiffAt, WriteRead32, Bus, Stored, StuckBits,
       LowBits

(* One more iteration adds iteration rot to those done.                   *)
LEMMA IterStep ==
  ASSUME NEW n \in Nat
  PROVE  0..((n + 1) - 1) = (0..(n - 1)) \cup {n}
OBVIOUS

LEMMA AccumInit == Init => Accum
<1> SUFFICES ASSUME Init PROVE Accum
  OBVIOUS
<1>1. 0..(rot - 1) = {}
  BY DEF Init
<1> QED
  BY <1>1 DEF Init, Accum

(* A step that leaves the chip, the masks and the count of iterations     *)
(* alone, and does not end the report, keeps Accum.                       *)
LEMMA AccumFrame ==
  ASSUME Accum, fault' = fault, rot' = rot, stuck_high' = stuck_high,
         stuck_low' = stuck_low, pins_diff' = pins_diff,
         pc # "done", pc' # "done"
  PROVE  Accum'
<1>1. \A k : GotScratch(k)' = GotScratch(k) /\ GotTemp(k)' = GotTemp(k)
             /\ DiffAt(k)' = DiffAt(k)
  BY DiagFixed
<1> QED
  BY <1>1 DEF Accum

LEMMA AccumStep ==
  ASSUME DInv, [Next]_vars
  PROVE  Accum'
<1>1. rot \in Nat /\ patt = PattAfter(rot) /\ Accum
  BY DEF DInv, WInv, TypeOK, Walk
<1>2. \A k : GotScratch(k)' = GotScratch(k) /\ GotTemp(k)' = GotTemp(k)
             /\ DiffAt(k)' = DiffAt(k)
  <2>1. fault' = fault
    BY DEF Next, test_register_access_reserved, test_register_access_reset,
           test_register_access_walk, test_register_access_walk_end,
           test_register_access_report, Done, vars
  <2> QED
    BY <2>1, DiagFixed
<1>3. CASE test_register_access_reserved
  BY <1>1, <1>3, AccumFrame DEF test_register_access_reserved
<1>4. CASE test_register_access_reset
  BY <1>1, <1>4, AccumFrame DEF test_register_access_reset
<1>5. CASE test_register_access_walk_end
  BY <1>1, <1>5, AccumFrame DEF test_register_access_walk_end
<1>6. CASE test_register_access_walk
  <2>1. RotateLeft(patt) = PattAfter(rot + 1)
    BY <1>1, RotateStep
  <2>2. /\ stuck_high' = stuck_high \cap GotScratch(rot) \cap GotTemp(rot)
        /\ stuck_low' = stuck_low \ (GotScratch(rot) \cup GotTemp(rot))
        /\ pins_diff' = pins_diff \cup DiffAt(rot)
        /\ rot' = rot + 1 /\ pc = "walk" /\ pc' = "walk"
    BY <1>1, <1>6, <2>1 DEF test_register_access_walk, GotScratch, GotTemp,
                             DiffAt
  <2>3. 0..(rot' - 1) = (0..(rot - 1)) \cup {rot}
    BY <1>1, <2>2, IterStep
  <2>4. stuck_high' = {x \in Pins : \A k \in 0..(rot' - 1) :
                                       x \in GotScratch(k)' \cap GotTemp(k)'}
    BY <1>1, <1>2, <2>2, <2>3 DEF Accum
  <2>5. stuck_low' = {x \in Pins : \A k \in 0..(rot' - 1) :
                                      x \notin GotScratch(k)' \cup GotTemp(k)'}
    BY <1>1, <1>2, <2>2, <2>3 DEF Accum
  <2>6. pins_diff' = UNION {DiffAt(k)' : k \in 0..(rot' - 1)}
    BY <1>1, <1>2, <2>2, <2>3 DEF Accum
  <2> QED
    BY <2>2, <2>4, <2>5, <2>6 DEF Accum
<1>7. CASE test_register_access_report
  <2>1. /\ pins_diff' = pins_diff \ (stuck_high \cup stuck_low)
        /\ pc = "report" /\ pc' = "done"
        /\ UNCHANGED <<rot, stuck_high, stuck_low>>
    BY <1>7 DEF test_register_access_report
  <2> QED
    BY <1>1, <1>2, <2>1 DEF Accum
<1>8. CASE Done \/ UNCHANGED vars
  <2>1. UNCHANGED <<pc, rot, stuck_high, stuck_low, pins_diff>>
    BY <1>8 DEF Done, vars
  <2> QED
    BY <1>1, <1>2, <2>1 DEF Accum
<1> QED
  BY <1>3, <1>4, <1>5, <1>6, <1>7, <1>8 DEF Next

(* The bus never sets a pin that is not driven, unless it is stuck high. *)
LEMMA BusBound ==
  ASSUME NEW w
  PROVE  Bus(w) \subseteq w \cup fault.high
BY DEF Bus

(* With no register bit stuck, a register stores what is written.        *)
LEMMA StoredClean ==
  ASSUME fault.regbits = {}, fault.reglow = {}, NEW reg, NEW w
  PROVE  Stored(reg, w) = w
BY DEF Stored, StuckBits, LowBits

(* With no register bit stuck at one, a pin that is neither driven nor    *)
(* stuck high reads 0.                                                    *)
LEMMA UndrivenRead ==
  ASSUME fault.regbits = {}, NEW reg, NEW w, NEW x, x \notin fault.high,
         x \notin w
  PROVE  x \notin WriteRead32(reg, w)
<1>1. x \notin Bus(w)
  BY BusBound
<1>2. Stored(reg, Bus(w)) \subseteq Bus(w)
  BY StoredNoStuck
<1>3. Bus(Stored(reg, Bus(w))) \subseteq Stored(reg, Bus(w)) \cup fault.high
  BY BusBound
<1> QED
  BY <1>1, <1>2, <1>3 DEF WriteRead32

(* With no register bit stuck, a pin that is not stuck and not bridged    *)
(* reads what is driven.                                                  *)
LEMMA CleanPinRead ==
  ASSUME fault.regbits = {}, fault.reglow = {}, NEW reg, NEW w, NEW x \in w,
         x \notin fault.high \cup fault.low \cup BridgedPins
  PROVE  x \in WriteRead32(reg, w)
<1>1. x \in Bus(w)
  BY DEF Bus, BridgedPins
<1>2. Stored(reg, Bus(w)) = Bus(w)
  BY StoredClean
<1>3. x \in Bus(Bus(w))
  BY <1>1 DEF Bus, BridgedPins
<1> QED
  BY <1>2, <1>3 DEF WriteRead32

(* With no register bit stuck, a pin of a two-pin bridge whose pins are  *)
(* not stuck reads 1 when both pins are driven 1.                        *)
LEMMA PairRead ==
  ASSUME fault.regbits = {}, fault.reglow = {}, DiagnosableFault(fault),
         BridgedPins \cap (fault.high \cup fault.low) = {},
         NEW b \in fault.bridge, NEW x \in b, NEW reg, NEW w, b \subseteq w
  PROVE  x \in WriteRead32(reg, w)
<1>1. \A y \in b : \A c \in fault.bridge : y \in c => c = b
  BY DEF DiagnosableFault
<1>2. b \cap fault.low = {}
  BY DEF BridgedPins
<1>3. b \subseteq Bus(w)
  BY <1>1, <1>2 DEF Bus
<1>4. Stored(reg, Bus(w)) = Bus(w)
  BY StoredClean
<1>5. x \in Bus(Bus(w))
  BY <1>1, <1>2, <1>3 DEF Bus
<1> QED
  BY <1>4, <1>5 DEF WriteRead32

(* With no register bit stuck at one, a bridged pin that is not stuck     *)
(* high reads 0 when a pin it is bridged to is driven 0.                  *)
LEMMA SplitRead ==
  ASSUME fault.regbits = {}, NEW b \in fault.bridge, NEW x \in b, NEW y \in b,
         x \notin fault.high, NEW reg, NEW w, y \notin w
  PROVE  x \notin WriteRead32(reg, w)
<1>1. x \notin Bus(w)
  BY DEF Bus
<1>2. Stored(reg, Bus(w)) \subseteq Bus(w)
  BY StoredNoStuck
<1>3. Bus(Stored(reg, Bus(w))) \subseteq Stored(reg, Bus(w)) \cup fault.high
  BY BusBound
<1> QED
  BY <1>1, <1>2, <1>3 DEF WriteRead32

(* The state in which DiagnosisExact makes a claim, for a diagnosable     *)
(* chip and a loop of at least 32 iterations.                             *)
Reported ==
  /\ DInv
  /\ pc = "done"
  /\ rot >= 32
  /\ fault.regbits = {} /\ fault.reglow = {}
  /\ BridgedPins \cap (fault.high \cup fault.low) = {}
  /\ DiagnosableFault(fault)

LEMMA ReportedFacts ==
  ASSUME Reported
  PROVE  /\ fault \in Faults /\ rot \in Nat
         /\ fault.high \subseteq Pins /\ fault.low \subseteq Pins
         /\ fault.bridge \subseteq SUBSET Pins
         /\ Accum
         /\ \A k \in 0..31 : k \in 0..(rot - 1)
<1>1. fault \in Faults /\ rot \in Nat /\ rot >= 32 /\ Accum
  BY DEF Reported, DInv, WInv, TypeOK
<1> QED
  BY <1>1, FaultFields

(* The pins reported stuck high are exactly those stuck high: a stuck-high *)
(* pin reads 1 in every iteration, and any other pin reads 0 on the      *)
(* rotation that drives it 0.                                             *)
LEMMA HighDiagnosed ==
  ASSUME Reported
  PROVE  stuck_high = fault.high
<1>1. /\ fault.high \subseteq Pins /\ Accum
      /\ \A k \in 0..31 : k \in 0..(rot - 1)
  BY ReportedFacts
<1>2. \A x \in fault.high : \A k : x \in GotScratch(k) \cap GotTemp(k)
  BY BusHigh DEF GotScratch, GotTemp, WriteRead32
<1>3. ASSUME NEW x \in Pins \ fault.high
      PROVE  \E k \in 0..(rot - 1) : x \notin GotScratch(k)
  <2> DEFINE k == (x + 31) % 32
  <2>1. k \in 0..31 /\ (x + 32 - (k % 32)) % 32 = 1
    BY DEF Pins
  <2>2. 1 \notin InitialPattern
    BY DEF InitialPattern
  <2>3. x \notin PattAfter(k)
    BY <2>1, <2>2, PattMember
  <2>4. fault.regbits = {}
    BY DEF Reported
  <2>5. x \notin GotScratch(k)
    BY <2>3, <2>4, UndrivenRead DEF GotScratch
  <2> QED
    BY <1>1, <2>1, <2>5
<1> QED
  BY <1>1, <1>2, <1>3 DEF Accum

(* The pins reported stuck low are exactly those stuck low: a stuck-low  *)
(* pin reads 0 in every iteration, and any other pin reads 1 on a         *)
(* rotation that drives it, and its bridge partner, 1.                    *)
LEMMA LowDiagnosed ==
  ASSUME Reported
  PROVE  stuck_low = fault.low
<1>1. /\ fault.high \subseteq Pins /\ fault.low \subseteq Pins
      /\ fault.bridge \subseteq SUBSET Pins /\ Accum
      /\ \A k \in 0..31 : k \in 0..(rot - 1)
  BY ReportedFacts
<1>2. /\ fault.regbits = {} /\ fault.reglow = {}
      /\ BridgedPins \cap (fault.high \cup fault.low) = {}
      /\ DiagnosableFault(fault)
  BY DEF Reported
<1>3. \A x \in fault.low : \A k : x \notin GotScratch(k) \cup GotTemp(k)
  <2>1. fault.high \cap fault.low = {}
    BY <1>2 DEF DiagnosableFault
  <2> QED
    BY <2>1, BusLow DEF GotScratch, GotTemp, WriteRead32
<1>4. ASSUME NEW x \in Pins \ fault.low
      PROVE  \E k \in 0..(rot - 1) : x \in GotScratch(k)
  <2>1. CASE x \in fault.high
    <3>1. x \in GotScratch(0)
      BY <2>1, BusHigh DEF GotScratch, WriteRead32
    <3> QED
      BY <1>1, <3>1
  <2>2. CASE x \notin fault.high /\ x \notin BridgedPins
    <3>1. x \in 0..31 /\ (x + 32 - (x % 32)) % 32 = 0
      BY DEF Pins
    <3>2. 0 \in InitialPattern
      BY DEF InitialPattern
    <3>3. x \in PattAfter(x)
      BY <3>1, <3>2, PattMember
    <3>4. x \in GotScratch(x)
      BY <1>2, <2>2, <3>3, CleanPinRead DEF GotScratch
    <3> QED
      BY <1>1, <3>1, <3>4
  <2>3. CASE x \in BridgedPins
    <3>1. PICK b \in fault.bridge : x \in b
      BY <2>3 DEF BridgedPins
    <3>2. PICK y \in b : y # x
      BY <1>2, <3>1 DEF DiagnosableFault
    <3>3. b = {x, y}
      BY <1>2, <3>1, <3>2 DEF DiagnosableFault
    <3>4. x \in Pins /\ y \in Pins
      BY <1>1, <3>1
    <3>5. PICK k \in 0..31 : x \in PattAfter(k) /\ y \in PattAfter(k)
      BY <3>2, <3>4, PairRotation
    <3>6. x \in GotScratch(k)
      BY <1>2, <3>1, <3>3, <3>5, PairRead DEF GotScratch
    <3> QED
      BY <1>1, <3>6
  <2> QED
    BY <2>1, <2>2, <2>3
<1> QED
  BY <1>1, <1>3, <1>4 DEF Accum

(* The pins reported floating or bridged are exactly the bridged ones: a *)
(* bridged pin misreads on the rotation that drives it 1 and its partner *)
(* 0, and a pin neither stuck nor bridged always reads what is driven.    *)
LEMMA BridgeDiagnosed ==
  ASSUME Reported
  PROVE  pins_diff = BridgedPins
<1>1. /\ fault.bridge \subseteq SUBSET Pins /\ Accum
      /\ \A k \in 0..31 : k \in 0..(rot - 1)
  BY ReportedFacts
<1>2. /\ fault.regbits = {} /\ fault.reglow = {}
      /\ BridgedPins \cap (fault.high \cup fault.low) = {}
      /\ DiagnosableFault(fault)
      /\ pc = "done"
  BY DEF Reported
<1>3. pins_diff = (UNION {DiffAt(k) : k \in 0..(rot - 1)})
                    \ (fault.high \cup fault.low)
  BY <1>1, <1>2, HighDiagnosed, LowDiagnosed DEF Accum
<1>4. ASSUME NEW x \in BridgedPins
      PROVE  x \in pins_diff
  <2>1. PICK b \in fault.bridge : x \in b
    BY DEF BridgedPins
  <2>2. PICK y \in b : y # x
    BY <1>2, <2>1 DEF DiagnosableFault
  <2>3. x \in Pins /\ y \in Pins
    BY <1>1, <2>1
  <2>4. PICK k \in 0..31 : x \in PattAfter(k) /\ y \notin PattAfter(k)
    BY <2>2, <2>3, SeparatingRotation
  <2>5. x \notin fault.high \cup fault.low
    BY <1>2, <2>1 DEF BridgedPins
  <2>6. x \notin GotScratch(k)
    BY <1>2, <2>1, <2>4, <2>5, SplitRead DEF GotScratch
  <2>7. x \in DiffAt(k)
    BY <2>4, <2>6 DEF DiffAt, Xor
  <2> QED
    BY <1>1, <1>3, <2>4, <2>5, <2>7
<1>5. ASSUME NEW x \in pins_diff
      PROVE  x \in BridgedPins
  <2>1. PICK k \in 0..(rot - 1) : x \in DiffAt(k)
    BY <1>3
  <2>2. x \notin fault.high \cup fault.low
    BY <1>3
  <2> SUFFICES ASSUME x \notin BridgedPins PROVE FALSE
    OBVIOUS
  <2>3. \A reg, w : x \in WriteRead32(reg, w) <=> x \in w
    BY <1>2, <2>2, CleanPinRead, UndrivenRead
  <2> QED
    BY <2>1, <2>3 DEF DiffAt, Xor, GotScratch, GotTemp
<1> QED
  BY <1>4, <1>5

(* The walking-bits invariant and the closed form of the three masks      *)
(* hold in every state of test_register_access.                           *)
THEOREM DInvCorrect == Spec => []DInv
<1>1. Init => DInv
  BY TypeInit, WalkInit, AccumInit DEF DInv, WInv
<1>2. DInv /\ [Next]_vars => DInv'
  BY TypeStep, WalkStep, AccumStep DEF DInv, WInv
<1> QED
  BY <1>1, <1>2, PTL DEF Spec

(* The report of test_register_access names exactly the faulty data pins  *)
(* of every chip of Faults with no pin stuck both ways and disjoint       *)
(* two-pin bridges, when the walking-bits loop runs at least 32 times     *)
(* (the code runs it 256 times): "Stuck high" lists the pins stuck high,  *)
(* "Stuck low" those stuck low and "Floating or bridged" the bridged      *)
(* ones, whenever no register bit is stuck and no bridge touches a stuck  *)
(* pin.                                                                   *)
THEOREM DiagnosisExactCorrect ==
  ASSUME Rotations >= 32, \A f \in Faults : DiagnosableFault(f)
  PROVE  Spec => []DiagnosisExact
<1>1. DInv => DiagnosisExact
  <2> SUFFICES ASSUME DInv, pc = "done", fault.regbits = {},
                      fault.reglow = {},
                      BridgedPins \cap (fault.high \cup fault.low) = {}
               PROVE  /\ stuck_high = fault.high
                      /\ stuck_low = fault.low
                      /\ pins_diff = BridgedPins
    BY DEF DiagnosisExact
  <2>1. rot = Rotations /\ fault \in Faults
    BY DEF DInv, WInv, Walk, TypeOK
  <2>2. Reported
    BY <2>1 DEF Reported
  <2> QED
    BY <2>2, HighDiagnosed, LowDiagnosed, BridgeDiagnosed
<1> QED
  BY <1>1, DInvCorrect, PTL
====
