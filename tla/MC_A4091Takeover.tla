------------------------- MODULE MC_A4091Takeover -------------------------
(* Model-checking instances of A4091Takeover.                              *)
EXTENDS A4091Takeover

CONSTANTS d1, d2

\* One resident driver server (one NCR 53C710 board with its driver).
MCDriversOne == {d1}
\* Two resident "NCR SCSI" servers on vector 3 (an A4091 beside an A4000T's
\* on-board 53C710, both served by the Commodore driver).
MCDriversTwo == {d1, d2}

\* Every combination of the modelled flags -k, -D, -t and -L.
MCOptionsAll == SUBSET {"k", "D", "t", "L"}
\* The command lines without -D: every combination of -k, -t and -L.
MCOptionsSuite == SUBSET {"k", "t", "L"}
\* The command lines of the violation runs.
MCOptionsTest == {{"t"}}
MCOptionsKillTest == {{"k", "t"}}
MCOptionsDma == {{"D"}}
=============================================================================
