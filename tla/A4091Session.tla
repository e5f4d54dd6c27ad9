--------------------------- MODULE A4091Session ---------------------------
(***************************************************************************)
(* What the takeover/restore controller of the A4091 test utility          *)
(* promises, stated over the CardSession alone: the two-state machine      *)
(* RELEASED/OWNED of spec section 4.4, the cleanup-registered flag of the  *)
(* CardSession invariants (set at most once, never cleared), and the       *)
(* process lifetime, at whose end the session is RELEASED.                *)
(*                                                                         *)
(* A4091Takeover implements this specification under the mapping given    *)
(* there (card_owned, cleanup_installed, and pc # "exited").               *)
(***************************************************************************)

Sessions == {"RELEASED", "OWNED"}

VARIABLES
  session,     \* RELEASED or OWNED
  registered,  \* the release has been registered as a process-exit action
  alive        \* the process has not exited

svars == <<session, registered, alive>>

Init ==
  /\ session = "RELEASED"
  /\ registered = FALSE
  /\ alive = TRUE

\* seize(): register the exit action if not yet registered, and own the
\* card.
Seize ==
  /\ alive
  /\ session = "RELEASED"
  /\ session' = "OWNED"
  /\ registered' = TRUE
  /\ UNCHANGED alive

\* release(): give the card back.
Release ==
  /\ alive
  /\ session = "OWNED"
  /\ session' = "RELEASED"
  /\ UNCHANGED <<registered, alive>>

\* The process exits, by any path.  An owned session is released by the
\* registered exit action; a session that was never seized needs none.
Exit ==
  /\ alive
  /\ session = "OWNED" => registered
  /\ alive' = FALSE
  /\ session' = "RELEASED"
  /\ UNCHANGED registered

Next == Seize \/ Release \/ Exit

Spec == Init /\ [][Next]_svars

=============================================================================
