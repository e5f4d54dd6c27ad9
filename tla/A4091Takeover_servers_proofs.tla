-------------------- MODULE A4091Takeover_servers_proofs --------------------
(***************************************************************************)
(* Proofs about the resident driver's servers on vector 3 and about the    *)
(* accesses to the card that the takeover/restore controller of           *)
(* src/a4091.c makes while one of them is installed.                      *)
(***************************************************************************)
EXTENDS A4091Takeover_proofs

(* At most one "NCR SCSI" server is on vector 3: one 53C710 in the        *)
(* machine.  a4091_save.driver_isr holds one handle, so the code keeps    *)
(* every server only under this hypothesis (run two_drivers shows the     *)
(* loss with two).                                                         *)
AtMostOneDriver == \A x, y \in Drivers : x = y

(* No command line that is run has -D.  dma_init_siop writes to the SIOP  *)
(* before any takeover (run dma shows the shared access it makes).        *)
NoDmaCommandLine == \A o \in Options : "D" \notin o

-----------------------------------------------------------------------------
(* Strengthenings.                                                        *)

(* Without -k: kill_driver is never reached, and whenever the card is     *)
(* released every driver server is on the chain.                          *)
DriversBack ==
  "k" \notin flags => (pc # "kill" /\ (~card_owned => Drivers \subseteq chain))

RInv == IInv /\ NoServerLost /\ DriversBack

(* The card is touched with a driver server installed only by            *)
(* kill_driver; dma_init_siop and dma_mem_to_mem run only with -D; and    *)
(* test_card's slots run only while the card is owned.                    *)
Exclusive ==
  /\ ExclusiveAccess
  /\ flags \in Options
  /\ pc \in {"dma_init", "dma_copy"} => "D" \in flags
  /\ pc = "tests" => card_owned

XInv == IInv /\ Exclusive

-----------------------------------------------------------------------------
(* No driver server is lost.                                              *)

(* a4091_disable_driver_irq_handler keeps a server that was on the walked *)
(* chain, or already saved, as the saved handle: with one server the walk *)
(* finds exactly that one, or nothing and the old handle stays.           *)
LEMMA DisableKeeps ==
  ASSUME AtMostOneDriver,
         NEW ch, \A d \in Drivers : d \in ch \/ d = driver_isr,
         a4091_disable_driver_irq_handler(ch)
  PROVE  NoServerLost'
<1> SUFFICES ASSUME NEW d \in Drivers PROVE driver_isr' = d
  BY DEF NoServerLost
<1> DEFINE found == ch \cap Drivers
<1>1. driver_isr' \in IF found = {} THEN {driver_isr} ELSE found
  BY DEF a4091_disable_driver_irq_handler
<1>2. CASE d \in ch
  <2>1. found # {} /\ driver_isr' \in found
    BY <1>1, <1>2
  <2> QED
    BY <2>1 DEF AtMostOneDriver
<1>3. CASE d \notin ch
  <2>1. found = {}
    BY <1>3 DEF AtMostOneDriver
  <2> QED
    BY <1>1, <1>3, <2>1
<1> QED
  BY <1>2, <1>3

(* a4091_state_restore puts the saved server back before it forgets it.  *)
LEMMA RestoreKeeps ==
  ASSUME NoServerLost, a4091_state_restore
  PROVE  NoServerLost'
BY DriversAssumption DEF NoServerLost, a4091_state_restore,
   a4091_remove_local_irq_handler, a4091_enable_driver_irq_handler

(* a4091_state_takeover keeps every server, on the chain or saved.       *)
LEMMA TakeoverKeeps ==
  ASSUME AtMostOneDriver, NoServerLost, a4091_state_takeover
  PROVE  NoServerLost'
<1>1. CASE card_owned
  BY <1>1 DEF a4091_state_takeover, NoServerLost
<1>2. CASE ~card_owned
  <2>1. a4091_disable_driver_irq_handler(a4091_add_local_irq_handler(chain))
    BY <1>2 DEF a4091_state_takeover
  <2>2. \A d \in Drivers : d \in a4091_add_local_irq_handler(chain)
                           \/ d = driver_isr
    BY DEF NoServerLost, a4091_add_local_irq_handler
  <2> QED
    BY <2>1, <2>2, DisableKeeps
<1> QED
  BY <1>1, <1>2

(* Every step of the main line keeps every server.                        *)
LEMMA NoServerLostStep ==
  ASSUME AtMostOneDriver, NoServerLost, [Next]_vars
  PROVE  NoServerLost'
<1>1. CASE kill_driver
  BY <1>1, DisableKeeps DEF kill_driver, NoServerLost
<1>2. CASE dma_mem_to_mem \/ test_card_start
  BY <1>2, TakeoverKeeps DEF dma_mem_to_mem, test_card_start
<1>3. CASE test_card_end
  BY <1>3, RestoreKeeps DEF test_card_end
<1>4. CASE Exit
  BY <1>4, RestoreKeeps DEF Exit, NoServerLost
<1>5. CASE Start \/ Body \/ dma_init_siop \/ test_card_step \/ Check
           \/ Done \/ UNCHANGED vars
  BY <1>5 DEF Start, Body, dma_init_siop, test_card_step, Check, Done, vars,
     NoServerLost
<1> QED
  BY <1>1, <1>2, <1>3, <1>4, <1>5 DEF Next, MainLine

(* With one resident "NCR SCSI" server, every server is on vector 3 or is *)
(* the handle a4091_save.driver_isr keeps, in every state of main: the    *)
(* single handle suffices for kill_driver and takeover, and               *)
(* a4091_state_restore re-adds it.  NoServerLost is inductive by itself.  *)
THEOREM NoServerLostCorrect ==
  ASSUME AtMostOneDriver
  PROVE  Spec => []NoServerLost
<1>1. Init => NoServerLost
  BY DEF Init, NoServerLost
<1>2. NoServerLost /\ [Next]_vars => NoServerLost'
  BY NoServerLostStep
<1> QED
  BY <1>1, <1>2, PTL DEF Spec

-----------------------------------------------------------------------------
(* Without -k the drivers' servers are back at exit.                     *)

(* a4091_state_restore, run with every server kept and every server on   *)
(* the chain if the card was released, leaves the card released and every *)
(* server on the chain.                                                   *)
LEMMA RestoreBringsBack ==
  ASSUME NoServerLost, ~card_owned => Drivers \subseteq chain,
         a4091_state_restore
  PROVE  ~card_owned' /\ Drivers \subseteq chain'
<1>1. CASE card_owned
  BY <1>1, DriversAssumption DEF NoServerLost, a4091_state_restore,
     a4091_remove_local_irq_handler, a4091_enable_driver_irq_handler
<1>2. CASE ~card_owned
  BY <1>2, RestoreIdle
<1> QED
  BY <1>1, <1>2

(* Every step of the main line keeps DriversBack.                         *)
LEMMA DriversBackStep ==
  ASSUME RInv, [Next]_vars
  PROVE  DriversBack'
<1> SUFFICES ASSUME "k" \notin flags'
             PROVE  pc' # "kill" /\ (~card_owned' => Drivers \subseteq chain')
  BY DEF DriversBack
<1>1. CASE Start
  <2>1. pc' # "kill"
    BY <1>1 DEF Start
  <2> QED
    BY <1>1, <2>1 DEF Start, RInv, DriversBack
<1>2. CASE kill_driver
  BY <1>2 DEF kill_driver, RInv, DriversBack
<1>3. CASE dma_mem_to_mem \/ test_card_start
  <2>1. card_owned' = TRUE
    BY <1>3, TakeoverEffect DEF dma_mem_to_mem, test_card_start, RInv
  <2> QED
    BY <1>3, <2>1 DEF dma_mem_to_mem, test_card_start
<1>4. CASE test_card_end
  BY <1>4, RestoreBringsBack DEF test_card_end, RInv, DriversBack
<1>5. CASE Exit
  <2>1. CASE cleanup_installed
    BY <1>5, <2>1, RestoreBringsBack DEF Exit, RInv, DriversBack
  <2>2. CASE ~cleanup_installed
    BY <1>5, <2>2 DEF Exit, RInv, DriversBack
  <2> QED
    BY <2>1, <2>2
<1>6. CASE Body \/ dma_init_siop \/ test_card_step \/ Check
           \/ Done \/ UNCHANGED vars
  BY <1>6 DEF Body, dma_init_siop, test_card_step, Check, Done, vars, RInv,
     DriversBack, PCs
<1> QED
  BY <1>1, <1>2, <1>3, <1>4, <1>5, <1>6 DEF Next, MainLine

(* The strengthening for DriversRestoredAtExit holds initially and every  *)
(* step keeps it, with one driver server.                                *)
THEOREM RInvCorrect ==
  ASSUME AtMostOneDriver
  PROVE  Spec => []RInv
<1>1. Init => RInv
  <2> SUFFICES ASSUME Init PROVE RInv
    OBVIOUS
  <2>1. IInv
    BY TypeInit, DriversAssumption DEF Init, IInv, Ownership, OwnershipInv
  <2> QED
    BY <2>1 DEF Init, RInv, NoServerLost, DriversBack
<1>2. RInv /\ [Next]_vars => RInv'
  <2> SUFFICES ASSUME RInv, [Next]_vars PROVE RInv'
    OBVIOUS
  <2>1. IInv'
    BY OwnershipStep, TypeStep DEF RInv, IInv
  <2>2. NoServerLost'
    BY NoServerLostStep DEF RInv
  <2> QED
    BY <2>1, <2>2, DriversBackStep DEF RInv
<1> QED
  BY <1>1, <1>2, PTL DEF Spec

(* Without -k, and with one resident "NCR SCSI" server, the server is on  *)
(* vector 3 again when the process has exited by any path: the atexit    *)
(* a4091_cleanup ran a4091_state_restore, which re-added the handle that  *)
(* a4091_state_takeover saved in a4091_save.driver_isr.                   *)
THEOREM DriversRestoredAtExitCorrect ==
  ASSUME AtMostOneDriver
  PROVE  Spec => []DriversRestoredAtExit
<1>1. RInv => DriversRestoredAtExit
  BY DEF RInv, IInv, Ownership, DriversBack, DriversRestoredAtExit
<1> QED
  BY <1>1, RInvCorrect, PTL

-----------------------------------------------------------------------------
(* Exclusive access to the card.                                          *)

(* a4091_state_takeover's soft reset comes after the driver's servers     *)
(* are off the chain, so it never touches a shared card.                 *)
LEMMA TakeoverQuiet ==
  ASSUME IInv, a4091_state_takeover
  PROVE  shared_by' = shared_by
<1>1. CASE card_owned
  BY <1>1 DEF a4091_state_takeover
<1>2. CASE ~card_owned
  <2>1. chain' \cap Drivers = {}
    BY TakeoverEffect
  <2> QED
    BY <1>2, <2>1 DEF a4091_state_takeover, Touch
<1> QED
  BY <1>1, <1>2

(* a4091_state_restore's a4091_reset comes before the saved server is    *)
(* re-added, on a chain that ownership keeps free of driver servers.     *)
LEMMA RestoreQuiet ==
  ASSUME IInv, a4091_state_restore
  PROVE  shared_by' = shared_by
<1>1. CASE card_owned
  <2>1. chain \cap Drivers = {}
    BY <1>1 DEF IInv, Ownership, OwnershipInv
  <2> QED
    BY <1>1, <2>1 DEF a4091_state_restore, Touch
<1>2. CASE ~card_owned
  BY <1>2, RestoreIdle
<1> QED
  BY <1>1, <1>2

(* Every step of the main line keeps Exclusive, for command lines        *)
(* without -D.                                                             *)
LEMMA ExclusiveStep ==
  ASSUME NoDmaCommandLine, XInv, [Next]_vars
  PROVE  Exclusive'
<1>1. CASE Start
  <2>1. pc' \in {"exit", "kill", "body"}
    BY <1>1 DEF Start
  <2> QED
    BY <1>1, <2>1 DEF Start, XInv, Exclusive, ExclusiveAccess
<1>2. CASE kill_driver
  BY <1>2 DEF kill_driver, Touch, XInv, Exclusive, ExclusiveAccess
<1>3. CASE Body
  BY <1>3 DEF Body, XInv, Exclusive, ExclusiveAccess
<1>4. CASE dma_init_siop \/ dma_mem_to_mem
  BY <1>4 DEF dma_init_siop, dma_mem_to_mem, NoDmaCommandLine, XInv, Exclusive
<1>5. CASE test_card_start
  <2>1. shared_by' = shared_by /\ card_owned' = TRUE
    BY <1>5, TakeoverQuiet, TakeoverEffect DEF test_card_start, XInv
  <2> QED
    BY <1>5, <2>1 DEF test_card_start, XInv, Exclusive, ExclusiveAccess
<1>6. CASE test_card_step
  <2>1. chain \cap Drivers = {}
    BY <1>6 DEF test_card_step, XInv, Exclusive, IInv, Ownership, OwnershipInv
  <2>2. shared_by' = shared_by
    BY <1>6, <2>1 DEF test_card_step, Touch
  <2> QED
    BY <1>6, <2>2 DEF test_card_step, XInv, Exclusive, ExclusiveAccess
<1>7. CASE test_card_end
  <2>1. shared_by' = shared_by
    BY <1>7, RestoreQuiet DEF test_card_end, XInv
  <2> QED
    BY <1>7, <2>1 DEF test_card_end, XInv, Exclusive, ExclusiveAccess
<1>8. CASE Check
  BY <1>8 DEF Check, XInv, Exclusive, ExclusiveAccess
<1>9. CASE Exit
  <2>1. shared_by' = shared_by
    <3>1. CASE cleanup_installed
      BY <1>9, <3>1, RestoreQuiet DEF Exit, XInv
    <3>2. CASE ~cleanup_installed
      BY <1>9, <3>2 DEF Exit
    <3> QED
      BY <3>1, <3>2
  <2> QED
    BY <1>9, <2>1 DEF Exit, XInv, Exclusive, ExclusiveAccess
<1>10. CASE Done \/ UNCHANGED vars
  BY <1>10 DEF Done, vars, XInv, Exclusive, ExclusiveAccess
<1> QED
  BY <1>1, <1>2, <1>3, <1>4, <1>5, <1>6, <1>7, <1>8, <1>9, <1>10
     DEF Next, MainLine

(* The strengthening for ExclusiveAccess holds initially and every step   *)
(* keeps it, for command lines without -D.                                *)
THEOREM XInvCorrect ==
  ASSUME NoDmaCommandLine
  PROVE  Spec => []XInv
<1>1. Init => XInv
  <2> SUFFICES ASSUME Init PROVE XInv
    OBVIOUS
  <2>1. IInv
    BY TypeInit, DriversAssumption DEF Init, IInv, Ownership, OwnershipInv
  <2> QED
    BY <2>1 DEF Init, XInv, Exclusive, ExclusiveAccess
<1>2. XInv /\ [Next]_vars => XInv'
  <2> SUFFICES ASSUME XInv, [Next]_vars PROVE XInv'
    OBVIOUS
  <2>1. IInv'
    BY OwnershipStep, TypeStep DEF XInv, IInv
  <2> QED
    BY <2>1, ExclusiveStep DEF XInv
<1> QED
  BY <1>1, <1>2, PTL DEF Spec

(* For every command line without -D, and any number of resident driver   *)
(* servers, the card is touched with a driver server still on vector 3    *)
(* only by kill_driver's first a4091_reset: takeover resets the SIOP      *)
(* after removing the servers, the tests run while the card is owned, and *)
(* restore resets it before re-adding the saved server.                   *)
THEOREM ExclusiveAccessCorrect ==
  ASSUME NoDmaCommandLine
  PROVE  Spec => []ExclusiveAccess
<1>1. XInv => ExclusiveAccess
  BY DEF XInv, Exclusive
<1> QED
  BY <1>1, XInvCorrect, PTL
====
