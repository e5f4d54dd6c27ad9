--------------------------- MODULE MC_A4091Init ---------------------------
(* Model-checking instance of A4091Init.                                  *)
EXTENDS A4091Init

\* a4091_abort's timeout, as in the code.
MCAbortTimeout == 2

\* Enough ticks for the deadline to pass, and one more.
MCMaxTicks == 4

\* Three SCSI interrupts: enough to stack two causes and to raise one
\* during the drain loop's Delay(1).
MCMaxScsiEvents == 3
=============================================================================
