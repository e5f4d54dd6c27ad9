------------------------- MODULE MC_A4091RegTest -------------------------
(* Model-checking instances of A4091RegTest.                               *)
EXTENDS A4091RegTest

\* The walking-bits loop as the code runs it.
MCRotations == 256

\* Single faults of the data bus: each pin stuck high, each pin stuck low,
\* each pair of neighbouring pins bridged, and two faults at once.
MCBusFaults ==
  {NoFault}
  \cup {[NoFault EXCEPT !.high = {p}] : p \in Pins}
  \cup {[NoFault EXCEPT !.low = {p}] : p \in Pins}
  \cup {[NoFault EXCEPT !.bridge = {{p, p + 1}}] : p \in 0..30}
  \cup {[NoFault EXCEPT !.high = {3}, !.low = {20}],
        [NoFault EXCEPT !.bridge = {{0, 31}, {12, 13}}]}

\* A register bit stuck at one in each register test_register_access
\* checks: the reserved bits, the status bits after reset, and a bit of
\* each walking-bits register.
MCRegisterFaults ==
  {[NoFault EXCEPT !.regbits = {rb}] :
     rb \in {<<REG_SCNTL1, 1>>, <<REG_DSTAT, 6>>, <<REG_CTEST0, 1>>,
             <<REG_CTEST0, 7>>, <<REG_ISTAT, 4>>, <<REG_ISTAT, 0>>,
             <<REG_DIEN, 7>>, <<REG_DSTAT, 0>>, <<REG_SCRATCH, 5>>,
             <<REG_TEMP, 30>>}}

\* The reserved bit 7 of CTEST2 set.
MCCtest2Faults ==
  {NoFault, [NoFault EXCEPT !.regbits = {<<REG_CTEST2, 7>>}]}

\* A bit of SCRATCH and a bit of TEMP stuck at zero (a reserved or status
\* bit stuck at zero reads as it should and cannot be seen).
MCRegisterLowFaults ==
  {[NoFault EXCEPT !.reglow = {rb}] :
     rb \in {<<REG_SCRATCH, 5>>, <<REG_TEMP, 12>>}}

\* SCRATCH bit 5 shorted to ground, as in spec scenario 5.
MCScratchLowFaults ==
  {NoFault, [NoFault EXCEPT !.reglow = {<<REG_SCRATCH, 5>>}]}

MCFaults == MCBusFaults \cup MCRegisterFaults \cup MCRegisterLowFaults

\* Every faulty chip of MCFaults is of a class FaultDetectedCorrect covers.
ASSUME MCFaultsDetectable == \A f \in MCFaults : f # NoFault => Detectable(f)

\* Every chip of MCFaults is of the class DiagnosisExactCorrect covers.
ASSUME MCFaultsDiagnosable == \A f \in MCFaults : DiagnosableFault(f)
=============================================================================
