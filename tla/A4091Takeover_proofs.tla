------------------------ MODULE A4091Takeover_proofs ------------------------
(***************************************************************************)
(* Proofs, for every set of resident driver servers and every command      *)
(* line, that the takeover/restore controller of src/a4091.c keeps its      *)
(* state well typed, never owns the card while a driver server is on the   *)
(* interrupt chain, and leaves no server of its own behind at exit.         *)
(***************************************************************************)
EXTENDS A4091Takeover, TLAPS

-----------------------------------------------------------------------------
(* Lemmas about the two state-changing calls the actions share.           *)

(* a4091_disable_driver_irq_handler leaves only chain members on the       *)
(* chain, removes every driver server and stores a driver server (or keeps *)
(* the old handle) in a4091_save.driver_isr.                               *)
LEMMA DisableEffect ==
  ASSUME NEW ch \in SUBSET (Drivers \cup {Local}),
         driver_isr \in Drivers \cup {NoServer},
         a4091_disable_driver_irq_handler(ch)
  PROVE  /\ chain' \in SUBSET (Drivers \cup {Local})
         /\ chain' \cap Drivers = {}
         /\ chain' = ch \ Drivers
         /\ driver_isr' \in Drivers \cup {NoServer}
BY DEF a4091_disable_driver_irq_handler

(* a4091_state_restore drops the local server and re-adds at most the one  *)
(* saved driver server, and gives up ownership.                            *)
LEMMA RestoreEffect ==
  ASSUME TypeOK, a4091_state_restore, card_owned
  PROVE  /\ chain' \in SUBSET (Drivers \cup {Local})
         /\ Local \notin chain'
         /\ card_owned' = FALSE
         /\ driver_isr' \in Drivers \cup {NoServer}
         /\ shared_by' \in SUBSET CardOps
BY DriversAssumption DEF a4091_state_restore, a4091_remove_local_irq_handler,
       a4091_enable_driver_irq_handler, TypeOK, Touch, CardOps

(* a4091_state_restore of a card it does not own changes nothing.          *)
LEMMA RestoreIdle ==
  ASSUME a4091_state_restore, ~card_owned
  PROVE  UNCHANGED <<card_owned, chain, driver_isr, shared_by>>
BY DEF a4091_state_restore, a4091_remove_local_irq_handler,
       a4091_enable_driver_irq_handler

-----------------------------------------------------------------------------
(* Type correctness.                                                      *)

(* TypeOK without the test index; the provers take the index, which needs  *)
(* arithmetic, and the Boolean flags in separate steps.                    *)
TypeRest ==
  /\ pc \in PCs
  /\ flags \in SUBSET Flags
  /\ chain \in SUBSET (Drivers \cup {Local})
  /\ driver_isr \in Drivers \cup {NoServer}
  /\ card_owned \in BOOLEAN
  /\ cleanup_installed \in BOOLEAN
  /\ handler_task \in BOOLEAN
  /\ rc \in BOOLEAN
  /\ trc \in BOOLEAN
  /\ shared_by \in SUBSET CardOps

(* Every step of the main line keeps the test index of test_card's loop   *)
(* within 0..8: test_card_step only runs at an index in BIT(0)..BIT(7).    *)
LEMMA IndexBound ==
  ASSUME TypeOK, [Next]_vars
  PROVE  t' \in 0..8
<1>1. CASE test_card_step
  BY <1>1 DEF test_card_step, Tests, TypeOK
<1>2. CASE test_card_start
  BY <1>2 DEF test_card_start
<1>3. CASE ~test_card_step /\ ~test_card_start
  BY <1>3 DEF Next, MainLine, Start, kill_driver, Body, dma_init_siop,
              dma_mem_to_mem, test_card_end, Check, Exit, Done, vars, TypeOK
<1> QED
  BY <1>1, <1>2, <1>3

(* The initial state of main is well typed.                               *)
LEMMA TypeInit == Init => TypeOK
<1> SUFFICES ASSUME Init PROVE TypeOK
  OBVIOUS
<1>1. t \in 0..8
  BY DEF Init
<1>2. TypeRest
  BY OptionsAssumption DEF Init, TypeRest, PCs
<1> QED
  BY <1>1, <1>2, Zenon DEF TypeOK, TypeRest

(* Every step of the main line keeps the state well typed.               *)
LEMMA TypeStep == TypeOK /\ [Next]_vars => TypeOK'
<1> SUFFICES ASSUME TypeOK, [Next]_vars PROVE TypeRest'
  BY IndexBound, Zenon DEF TypeOK, TypeRest
<1>0. TypeRest
  BY Zenon DEF TypeOK, TypeRest
<1>1. CASE Start
  BY <1>0, <1>1 DEF Start, TypeRest, PCs
<1>2. CASE kill_driver
  <2>1. chain' \in SUBSET (Drivers \cup {Local})
        /\ driver_isr' \in Drivers \cup {NoServer}
    BY <1>0, <1>2, DisableEffect DEF kill_driver, TypeRest
  <2>2. shared_by' \in SUBSET CardOps
    BY <1>0, <1>2 DEF kill_driver, Touch, TypeRest, CardOps
  <2> QED
    BY <1>0, <1>2, <2>1, <2>2
       DEF kill_driver, a4091_disable_handler_process, TypeRest, PCs
<1>3. CASE Body
  BY <1>0, <1>3 DEF Body, TypeRest, PCs
<1>4. CASE dma_init_siop
  BY <1>0, <1>4 DEF dma_init_siop, Touch, TypeRest, PCs, CardOps
<1>5. ASSUME a4091_state_takeover
      PROVE  /\ chain' \in SUBSET (Drivers \cup {Local})
             /\ driver_isr' \in Drivers \cup {NoServer}
             /\ card_owned' \in BOOLEAN
             /\ cleanup_installed' \in BOOLEAN
             /\ shared_by' \in SUBSET CardOps
  <2>1. CASE card_owned
    BY <1>0, <1>5, <2>1 DEF a4091_state_takeover, TypeRest
  <2>2. CASE ~card_owned
    <3>1. a4091_disable_driver_irq_handler(a4091_add_local_irq_handler(chain))
      BY <1>5, <2>2 DEF a4091_state_takeover
    <3>2. chain' \in SUBSET (Drivers \cup {Local})
          /\ driver_isr' \in Drivers \cup {NoServer}
      BY <1>0, <3>1, DisableEffect
         DEF TypeRest, a4091_add_local_irq_handler
    <3> QED
      BY <1>0, <1>5, <2>2, <3>2
         DEF a4091_state_takeover, Touch, TypeRest, CardOps
  <2> QED
    BY <2>1, <2>2
<1>6. CASE dma_mem_to_mem
  BY <1>0, <1>6, <1>5 DEF dma_mem_to_mem, TypeRest, PCs
<1>7. CASE test_card_start
  BY <1>0, <1>7, <1>5 DEF test_card_start, TypeRest, PCs
<1>8. CASE test_card_step
  BY <1>0, <1>8 DEF test_card_step, Touch, TypeRest, PCs, CardOps
<1>9. CASE test_card_end
  <2>1. CASE card_owned
    <3>1. /\ chain' \in SUBSET (Drivers \cup {Local})
          /\ card_owned' \in BOOLEAN
          /\ driver_isr' \in Drivers \cup {NoServer}
          /\ shared_by' \in SUBSET CardOps
      BY <1>9, <2>1, RestoreEffect DEF test_card_end
    <3>2. rc' \in BOOLEAN
      BY <1>9, Zenon DEF test_card_end
    <3> QED
      BY <1>0, <1>9, <3>1, <3>2, Zenon DEF test_card_end, TypeRest, PCs
  <2>2. CASE ~card_owned
    <3>1. UNCHANGED <<card_owned, chain, driver_isr, shared_by>>
      BY <1>9, <2>2, RestoreIdle DEF test_card_end
    <3> QED
      BY <1>0, <1>9, <3>1 DEF test_card_end, TypeRest, PCs
  <2> QED
    BY <2>1, <2>2
<1>10. CASE Check
  BY <1>0, <1>10 DEF Check, TypeRest, PCs
<1>11. CASE Exit
  <2>1. CASE cleanup_installed /\ card_owned
    <3>1. /\ chain' \in SUBSET (Drivers \cup {Local})
          /\ card_owned' \in BOOLEAN
          /\ driver_isr' \in Drivers \cup {NoServer}
          /\ shared_by' \in SUBSET CardOps
      BY <1>11, <2>1, RestoreEffect DEF Exit
    <3> QED
      BY <1>0, <1>11, <3>1, Zenon DEF Exit, TypeRest, PCs
  <2>2. CASE ~(cleanup_installed /\ card_owned)
    <3>1. UNCHANGED <<card_owned, chain, driver_isr, shared_by>>
      BY <1>11, <2>2, RestoreIdle DEF Exit
    <3> QED
      BY <1>0, <1>11, <3>1, Zenon DEF Exit, TypeRest, PCs
  <2> QED
    BY <2>1, <2>2
<1>12. CASE Done \/ UNCHANGED vars
  BY <1>0, <1>12 DEF Done, vars, TypeRest
<1> QED
  BY <1>1, <1>2, <1>3, <1>4, <1>6, <1>7, <1>8, <1>9, <1>10, <1>11, <1>12
     DEF Next, MainLine

(* Every reachable state of the main line is well typed: the test index   *)
(* of test_card's loop stays within 0..8, the saved handle is a driver    *)
(* server or 0, and the chain holds only driver servers and the local one. *)
THEOREM TypeCorrect == Spec => []TypeOK
BY TypeInit, TypeStep, PTL DEF Spec

-----------------------------------------------------------------------------
(* Ownership of the card.                                                 *)

(* The strengthening of OwnershipInv that every step preserves: the local  *)
(* server is on the chain exactly while a4091_save.card_owned is set, an   *)
(* owned card always has the atexit cleanup registered, and the program    *)
(* never reaches its end still owning the card.                            *)
Ownership ==
  /\ OwnershipInv
  /\ (Local \in chain) <=> card_owned
  /\ card_owned => cleanup_installed
  /\ pc = "exited" => ~card_owned

IInv == TypeOK /\ Ownership

(* a4091_state_takeover always leaves the card owned, the cleanup          *)
(* registered, the local server on the chain and no driver server on it,   *)
(* whether it seizes the card or finds it already seized.                  *)
LEMMA TakeoverEffect ==
  ASSUME IInv, a4091_state_takeover
  PROVE  /\ card_owned' = TRUE
         /\ cleanup_installed' = TRUE
         /\ Local \in chain'
         /\ chain' \cap Drivers = {}
<1>1. CASE card_owned
  BY <1>1 DEF a4091_state_takeover, IInv, TypeOK, Ownership, OwnershipInv
<1>2. CASE ~card_owned
  <2>1. a4091_disable_driver_irq_handler(a4091_add_local_irq_handler(chain))
    BY <1>2 DEF a4091_state_takeover
  <2>2. /\ chain' = a4091_add_local_irq_handler(chain) \ Drivers
        /\ chain' \cap Drivers = {}
    BY <2>1 DEF a4091_disable_driver_irq_handler
  <2> QED
    BY <1>2, <2>2, DriversAssumption
       DEF a4091_state_takeover, a4091_add_local_irq_handler
<1> QED
  BY <1>1, <1>2

(* a4091_state_restore always leaves the card released and the local      *)
(* server off the chain.                                                   *)
LEMMA RestoreReleases ==
  ASSUME IInv, a4091_state_restore
  PROVE  /\ card_owned' = FALSE
         /\ Local \notin chain'
<1>1. CASE card_owned
  BY <1>1, RestoreEffect DEF IInv
<1>2. CASE ~card_owned
  BY <1>2, RestoreIdle DEF IInv, TypeOK, Ownership
<1> QED
  BY <1>1, <1>2

(* Every step of the main line preserves Ownership.                       *)
LEMMA OwnershipStep ==
  ASSUME IInv, [Next]_vars
  PROVE  Ownership'
<1>1. CASE Start
  BY <1>1 DEF Start, IInv, Ownership, OwnershipInv
<1>2. CASE kill_driver
  <2>1. chain' = chain \ Drivers
    BY <1>2 DEF kill_driver, a4091_disable_driver_irq_handler
  <2> QED
    BY <1>2, <2>1, DriversAssumption DEF kill_driver, IInv, Ownership,
       OwnershipInv
<1>3. CASE Body
  BY <1>3 DEF Body, IInv, Ownership, OwnershipInv
<1>4. CASE dma_init_siop
  BY <1>4 DEF dma_init_siop, IInv, Ownership, OwnershipInv
<1>5. CASE dma_mem_to_mem
  BY <1>5, TakeoverEffect DEF dma_mem_to_mem, Ownership, OwnershipInv
<1>6. CASE test_card_start
  BY <1>6, TakeoverEffect DEF test_card_start, Ownership, OwnershipInv
<1>7. CASE test_card_step
  BY <1>7 DEF test_card_step, IInv, Ownership, OwnershipInv
<1>8. CASE test_card_end
  BY <1>8, RestoreReleases DEF test_card_end, Ownership, OwnershipInv
<1>9. CASE Check
  BY <1>9 DEF Check, IInv, Ownership, OwnershipInv
<1>10. CASE Exit
  <2>1. card_owned' = FALSE /\ Local \notin chain'
    <3>1. CASE cleanup_installed
      BY <1>10, <3>1, RestoreReleases DEF Exit
    <3>2. CASE ~cleanup_installed
      BY <1>10, <3>2, Zenon DEF Exit, IInv, TypeOK, Ownership
    <3> QED
      BY <3>1, <3>2
  <2> QED
    BY <2>1 DEF Ownership, OwnershipInv
<1>11. CASE Done \/ UNCHANGED vars
  BY <1>11 DEF Done, vars, IInv, Ownership, OwnershipInv
<1> QED
  BY <1>1, <1>2, <1>3, <1>4, <1>5, <1>6, <1>7, <1>8, <1>9, <1>10, <1>11
     DEF Next, MainLine

(* The strengthened invariant holds initially and every step keeps it.   *)
THEOREM IInvCorrect == Spec => []IInv
<1>1. Init => IInv
  <2> SUFFICES ASSUME Init PROVE IInv
    OBVIOUS
  <2>1. Ownership
    BY DriversAssumption DEF Init, Ownership, OwnershipInv
  <2> QED
    BY <2>1, TypeInit DEF IInv
<1>2. IInv /\ [Next]_vars => IInv'
  BY OwnershipStep, TypeStep DEF IInv
<1> QED
  BY <1>1, <1>2, PTL DEF Spec

(* While the utility owns the card (a4091_save.card_owned) its own server *)
(* is on vector 3 and no resident driver server is: the SIOP's interrupts *)
(* reach only the utility, for every set of driver servers.                *)
THEOREM OwnershipCorrect == Spec => []OwnershipInv
<1>1. IInv => OwnershipInv
  BY DEF IInv, Ownership
<1> QED
  BY <1>1, IInvCorrect, PTL

(* When the program has ended, whatever path it took (usage error, no     *)
(* card, ^C in check_break, or normal return), the atexit cleanup has     *)
(* released the card and taken the utility's server off vector 3.          *)
THEOREM ExitReleasesCorrect == Spec => []ExitReleases
<1>1. IInv => ExitReleases
  BY DEF IInv, TypeOK, Ownership, ExitReleases
<1> QED
  BY <1>1, IInvCorrect, PTL


-----------------------------------------------------------------------------
(* Refinement of the abstract session machine A4091Session.               *)

(* The abstract state, as the mapping of A4091Takeover computes it.       *)
SessionVars == <<IF card_owned THEN "OWNED" ELSE "RELEASED",
                 cleanup_installed, pc # "exited">>

(* A step that leaves card_owned and cleanup_installed alone and does not *)
(* end the process is a stutter of the session machine.                   *)
LEMMA SessionStutter ==
  ASSUME pc # "exited", pc' # "exited",
         UNCHANGED <<card_owned, cleanup_installed>>
  PROVE  [Session!Next]_SessionVars
BY DEF SessionVars

(* a4091_state_takeover is a Seize of a released card, and a stutter of   *)
(* an owned one (whose cleanup is already registered).                   *)
LEMMA TakeoverRefines ==
  ASSUME IInv, a4091_state_takeover, pc # "exited", pc' # "exited"
  PROVE  [Session!Next]_SessionVars
<1>1. CASE card_owned
  <2>1. UNCHANGED <<card_owned, cleanup_installed>>
    BY <1>1 DEF a4091_state_takeover, IInv, Ownership
  <2> QED
    BY <2>1, SessionStutter
<1>2. CASE ~card_owned
  <2>1. card_owned' = TRUE /\ cleanup_installed' = TRUE
    BY TakeoverEffect
  <2> QED
    BY <1>2, <2>1 DEF Session!Next, Session!Seize
<1> QED
  BY <1>1, <1>2

(* a4091_state_restore is a Release of an owned card and a stutter of a   *)
(* released one; it never touches cleanup_installed.                      *)
LEMMA RestoreRefines ==
  ASSUME IInv, a4091_state_restore, pc # "exited", pc' # "exited",
         UNCHANGED cleanup_installed
  PROVE  [Session!Next]_SessionVars
<1>1. CASE card_owned
  BY <1>1, RestoreReleases DEF Session!Next, Session!Release
<1>2. CASE ~card_owned
  BY <1>2, RestoreIdle, SessionStutter
<1> QED
  BY <1>1, <1>2

(* Every step of the main line is a step of the session machine or a      *)
(* stutter: exit() is its Exit, with the card released by a4091_cleanup.  *)
LEMMA SessionStep ==
  ASSUME IInv, [Next]_vars
  PROVE  [Session!Next]_SessionVars
<1>1. CASE Start
  BY <1>1, SessionStutter DEF Start
<1>2. CASE kill_driver
  BY <1>2, SessionStutter DEF kill_driver
<1>3. CASE Body
  BY <1>3, SessionStutter DEF Body
<1>4. CASE dma_init_siop
  BY <1>4, SessionStutter DEF dma_init_siop
<1>5. CASE dma_mem_to_mem
  BY <1>5, TakeoverRefines DEF dma_mem_to_mem
<1>6. CASE test_card_start
  BY <1>6, TakeoverRefines DEF test_card_start
<1>7. CASE test_card_step
  BY <1>7, SessionStutter DEF test_card_step
<1>8. CASE test_card_end
  BY <1>8, RestoreRefines DEF test_card_end
<1>9. CASE Check
  BY <1>9, SessionStutter DEF Check
<1>10. CASE Exit
  <2>1. card_owned' = FALSE
    <3>1. CASE cleanup_installed
      BY <1>10, <3>1, RestoreReleases DEF Exit
    <3>2. CASE ~cleanup_installed
      BY <1>10, <3>2, Zenon DEF Exit, IInv, TypeOK, Ownership
    <3> QED
      BY <3>1, <3>2
  <2>2. card_owned => cleanup_installed
    BY DEF IInv, Ownership
  <2> QED
    BY <1>10, <2>1, <2>2 DEF Exit, Session!Next, Session!Exit, SessionVars
<1>11. CASE Done \/ UNCHANGED vars
  BY <1>11 DEF Done, vars, SessionVars
<1> QED
  BY <1>1, <1>2, <1>3, <1>4, <1>5, <1>6, <1>7, <1>8, <1>9, <1>10, <1>11
     DEF Next, MainLine

(* The controller of src/a4091.c implements the RELEASED/OWNED machine of *)
(* spec section 4.4 under the mapping card_owned, cleanup_installed and   *)
(* "not exited": a4091_state_takeover only seizes, a4091_state_restore    *)
(* only releases, and exit() always ends with the card released.          *)
THEOREM SessionRefinementCorrect == Spec => SessionRefinement
<1>1. Init => Session!Init
  BY DEF Init, Session!Init
<1>2. IInv /\ [Next]_vars => [Session!Next]_SessionVars
  BY SessionStep
<1> QED
  BY <1>1, <1>2, IInvCorrect, PTL DEF Spec, SessionRefinement, Session!Spec,
     Session!svars,
     SessionVars

====
