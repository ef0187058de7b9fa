----------------------------- MODULE VnicProofs ------------------------------
(***************************************************************************)
(* Loading and unloading nic.ko and pnd.ko is safe: what a module leaves   *)
(* behind when it is out, for rings and sets of skbs of any size and for   *)
(* both compilations of nic.c; that the card polls without a packet only   *)
(* after a flush; and that what PndProofs and OwnershipProofs show, the    *)
(* refinement included, holds across loading.  The steps of the loaded     *)
(* drivers are steps of Pnd.tla and keep its invariants; the proofs here   *)
(* are about the steps of the modules.                                     *)
(***************************************************************************)
EXTENDS VnicModules, OwnershipProofs

\* Who may be active while the two modules are where they are.
ModuleInv ==
  /\ priv = "none" <=> nicKo \in {"out", "spin_lock_init_freed"}
  /\ pndKo # "out" => nicKo = "live"
  /\ pndKo \in {"out", "register_netdev"} =>
       pndDev = "down" /\ unmasking = 0 /\ checking = 0
  /\ nicKo \notin {"spin_lock_init", "live", "unregister_netdev"} => nicDev = "down"
  /\ early # NULL => nicDev = "up" /\ Registered
  /\ early \in Skb \cup {NULL}

VnicInv == HandshakeInv /\ NicPollInv /\ ModuleInv

\* What the loaded drivers do is what Pnd.tla says they do.
LEMMA LoadedIsNext == ~oops /\ LoadedStep => Next
BY DEF LoadedStep, Admin, Transmit, Next

\* The steps of the modules that only wait for the drivers.
ModuleWaits ==
  \/ nic_init_register \/ nic_exit_unregister \/ nic_exit_free
  \/ pnd_init_register \/ pnd_exit_unregister \/ pnd_exit_free
  \/ \E skb \in Skb : early_xmit_lock(skb)
  \/ early_xmit_rest

LEMMA WaitsIsNext == ModuleInv /\ ~oops /\ ModuleWaits => [Next]_vars
<1> SUFFICES ASSUME ModuleInv, ~oops, ModuleWaits PROVE [Next]_vars
  OBVIOUS
<1>1. CASE early_xmit_rest
  BY <1>1 DEF ModuleInv, early_xmit_rest, Next
<1>2. CASE nic_exit_unregister
  BY <1>2 DEF nic_exit_unregister, Next
<1>3. CASE pnd_exit_unregister
  BY <1>3 DEF pnd_exit_unregister, Next
<1>4. CASE \/ nic_init_register \/ nic_exit_free \/ pnd_init_register
           \/ pnd_exit_free \/ \E skb \in Skb : early_xmit_lock(skb)
  BY <1>4 DEF nic_init_register, nic_exit_free, pnd_init_register, pnd_exit_free,
     early_xmit_lock
<1>5. QED
  BY <1>1, <1>2, <1>3, <1>4 DEF ModuleWaits
-----------------------------------------------------------------------------
(* The three steps that initialise something. *)

\* nic_init_alloc meets a card that nobody uses.
LEMMA CardIdle ==
  ASSUME VnicInv, nicKo = "out"
  PROVE  /\ pndDev = "down" /\ nicDev = "down" /\ holder = "none"
         /\ nicSkb = NULL /\ TxEmpty /\ RxEmpty
BY DEF VnicInv, ModuleInv, HandshakeInv, Handshake, NicPollInv

LEMMA AllocStep ==
  ASSUME VnicInv, nic_init_alloc
  PROVE  HandshakeInv' /\ NicPollInv'
<1>1. 0 \in TxSlots /\ 0 \in RxSlots /\ 0 \in 0 .. StatMax
  BY NicAssumption, SMT DEF TxSlots, RxSlots, Slots
<1>2. nicNapi' \in Instance
  BY DEF nic_init_alloc, netif_napi_add, Instance
<1>3. NicTypeOK'
  BY <1>1, <1>2 DEF nic_init_alloc, VnicInv, HandshakeInv, TypeInv, TypeOK, NicTypeOK
<1>4. TypeInv'
  BY <1>3 DEF nic_init_alloc, VnicInv, HandshakeInv, TypeInv, TypeOK, pndVars, pndIo
<1>5. Handshake'
  BY CardIdle DEF nic_init_alloc, VnicInv, HandshakeInv, Handshake, TxEmpty, RxEmpty,
     pndVars, pndIo
<1>6. NicPollInv'
  BY CardIdle DEF nic_init_alloc, NicPollInv, netif_napi_add
<1>7. QED
  BY <1>4, <1>5, <1>6 DEF HandshakeInv

\* spin_lock_init finds the card not ready, and leaves it so.
LEMMA LockStep ==
  ASSUME VnicInv, nic_init_lock
  PROVE  UNCHANGED vars
<1>1. ~nic_ready
  BY DEF nic_init_lock, VnicInv, ModuleInv, HandshakeInv, Handshake
<1>2. QED
  BY <1>1 DEF nic_init_lock, VnicInv, HandshakeInv, TypeInv, TypeOK, NicTypeOK, vars, nicVars, card, hw

LEMMA PndAllocStep ==
  ASSUME VnicInv, pnd_init_alloc
  PROVE  HandshakeInv' /\ NicPollInv'
<1>1. 0 \in 0 .. StatMax /\ pndNapi' \in Instance
  BY NicAssumption, SMT DEF pnd_init_alloc, netif_napi_add, Instance
<1>2. UNCHANGED nicVars /\ pndDev = "down"
  BY DEF pnd_init_alloc, VnicInv, ModuleInv
<1>3. TypeInv'
  BY <1>1, <1>2 DEF pnd_init_alloc, VnicInv, HandshakeInv, TypeInv, TypeOK, NicTypeOK,
     nicVars, txRing, rxRing, hw, nicIf
<1>4. Handshake' /\ NicPollInv'
  BY <1>2 DEF pnd_init_alloc, VnicInv, HandshakeInv, Handshake, NicPollInv, TxEmpty,
     RxEmpty, netif_napi_add, nicVars, txRing, rxRing, hw, nicIf
<1>5. QED
  BY <1>3, <1>4 DEF HandshakeInv
-----------------------------------------------------------------------------
(* The invariant. *)

\* The drivers and the card make a step of Pnd.tla, or none, except where a
\* module allocates what it is about to register.
LEMMA StepOfDrivers ==
  ASSUME VnicInv, [VnicNext]_vnicVars
  PROVE  [Next]_vars \/ nic_init_alloc \/ pnd_init_alloc
<1>1. CASE nic_init_lock
  BY <1>1, LockStep
<1>2. CASE ~oops /\ (ModuleWaits \/ LoadedStep)
  BY <1>2, WaitsIsNext, LoadedIsNext DEF VnicInv
<1>3. CASE UNCHANGED vnicVars
  BY <1>3 DEF vnicVars
<1>4. QED
  BY <1>1, <1>2, <1>3 DEF VnicNext, ModuleStep, ModuleWaits

LEMMA DriverStep ==
  ASSUME VnicInv, [VnicNext]_vnicVars
  PROVE  HandshakeInv' /\ NicPollInv'
<1>1. CASE nic_init_alloc
  BY <1>1, AllocStep
<1>2. CASE pnd_init_alloc
  BY <1>2, PndAllocStep
<1>3. CASE [Next]_vars
  BY <1>3, HandshakeStep, NicPollStep DEF VnicInv
<1>4. QED
  BY <1>1, <1>2, <1>3, StepOfDrivers

\* The loaded drivers stay within what the modules allow.
LEMMA LoadedModuleStep ==
  ASSUME VnicInv, LoadedStep, UNCHANGED modVars
  PROVE  ModuleInv'
<1> USE DEF VnicInv, ModuleInv, modVars
<1>h. Handshake /\ TypeOK
  BY DEF HandshakeInv, TypeInv
<1>1. CASE Admin
  BY <1>1 DEF Admin, pnd_open_setup, pnd_close_intr, NicOpen, NicClose, nic_open,
     nic_close_begin, card, nicIf, pndVars, pndIo, Registered
<1>2. CASE PndOpenRest
  BY <1>2 DEF PndOpenRest, pnd_open_napi, pnd_open_register, pnd_open_ready, pnd_open_intr,
     pnd_open_check, nic_hw_check_intr, nicVars, nicIf, card, Registered
<1>3. CASE PndCloseRest
  BY <1>3 DEF PndCloseRest, pnd_close_ready, pnd_close_unregister, pnd_close_napi,
     pnd_close_wait, pnd_close_cleanup, nicVars, nicIf, card, pndIo, Registered
<1>4. CASE NicCloseEnd
  BY <1>4 DEF NicCloseEnd, nic_close_end, pndVars, pndIo, Registered
<1>5. CASE Transmit
  BY <1>5 DEF Transmit, pnd_start_xmit, NicXmit, nic_start_xmit, nicIf, pndVars, pndIo, Registered
<1>6. CASE \/ pnd_start_xmit_schedule \/ NicXmitQuiet \/ handler_mask \/ NicPoll
  BY <1>6 DEF pnd_start_xmit_schedule, NicXmitQuiet, nic_start_xmit_quiet, handler_mask, NicPoll,
     nic_poll_take, nic_poll_done, nicIf, pndVars, pndIo, Registered
<1>7. CASE handler_schedule
  BY <1>7, <1>h DEF handler_schedule, Handshake, InHandler, nicIf, pndIo, Registered
<1>8. CASE PndPoll
  BY <1>8, <1>h DEF PndPoll, pnd_poll_start, pnd_poll_rx, pnd_poll_complete, pnd_poll_budget,
     Handshake, nicVars, nicIf, Registered
<1>9. CASE pnd_poll_unmask \/ pnd_poll_check
  BY <1>9, SMT DEF pnd_poll_unmask, pnd_poll_check, nic_hw_check_intr, card, nicIf, Registered
<1>10. QED
  BY <1>1, <1>2, <1>3, <1>4, <1>5, <1>6, <1>7, <1>8, <1>9 DEF LoadedStep

LEMMA ModuleInvStep ==
  ASSUME VnicInv, [VnicNext]_vnicVars
  PROVE  ModuleInv'
<1> USE DEF VnicInv, ModuleInv
<1>1. CASE nic_init_alloc
  BY <1>1 DEF nic_init_alloc, pndVars, pndIo, Registered
<1>2. CASE nic_init_register \/ nic_init_lock
  BY <1>2 DEF nic_init_register, nic_init_lock, vars, nicVars, nicIf, card, pndVars, pndIo, Registered
<1>3. CASE nic_exit_unregister
  BY <1>3 DEF nic_exit_unregister, NicClose, nic_close_begin, vars, nicVars, nicIf, pndVars, pndIo, Registered
<1>4. CASE nic_exit_free
  BY <1>4 DEF nic_exit_free, vars, nicVars, nicIf, pndVars, pndIo, Registered
<1>5. CASE pnd_init_alloc \/ pnd_init_register
  BY <1>5 DEF pnd_init_alloc, pnd_init_register, vars, nicVars, nicIf, pndVars, pndIo, Registered
<1>6. CASE pnd_exit_unregister
  BY <1>6 DEF pnd_exit_unregister, pnd_close_intr, card, vars, nicVars, nicIf, pndVars, pndIo, Registered
<1>7. CASE pnd_exit_free
  BY <1>7 DEF pnd_exit_free, vars, nicVars, nicIf, pndVars, pndIo, Registered
<1>8. CASE \E skb \in Skb : early_xmit_lock(skb)
  BY <1>8 DEF early_xmit_lock, vars, nicVars, nicIf, pndVars, pndIo, Registered
<1>9. CASE early_xmit_rest
  BY <1>9 DEF early_xmit_rest, NicXmit, nic_start_xmit, pndVars, pndIo, Registered
<1>10. CASE LoadedStep /\ UNCHANGED modVars
  BY <1>10, LoadedModuleStep
<1>11. CASE UNCHANGED vnicVars
  BY <1>11 DEF vnicVars, modVars, vars, nicVars, nicIf, pndVars, pndIo, Registered
<1>12. QED
  BY <1>1, <1>2, <1>3, <1>4, <1>5, <1>6, <1>7, <1>8, <1>9, <1>10, <1>11 DEF VnicNext, ModuleStep

LEMMA VnicInvStep == VnicInv /\ [VnicNext]_vnicVars => VnicInv'
BY DriverStep, ModuleInvStep DEF VnicInv

LEMMA InitVnicInv == VnicInit => VnicInv
<1> SUFFICES ASSUME VnicInit PROVE NicPollInv /\ ModuleInv
  BY InitHandshakeInv DEF VnicInv, VnicInit
<1> QED
  BY DEF VnicInit, Init, NicInit, NicPollInv, ModuleInv, netif_napi_add

\* DRIVER GONE.  When pnd.ko is out, nothing executes its code and nothing
\* will call it: no handler, no poll, no transmit, no late unmasking.
THEOREM NothingInDriver == VnicSpec => []DriverGone
<1>1. VnicInv => DriverGone
  BY DEF VnicInv, ModuleInv, HandshakeInv, Handshake, DriverGone, InHandler
<1>2. QED
  BY <1>1, InitVnicInv, VnicInvStep, PTL DEF VnicSpec
-----------------------------------------------------------------------------
(* The card is released empty. *)

LEMMA OwnStep ==
  ASSUME TodoFilled, VnicInv, OwnInv, [VnicNext]_vnicVars
  PROVE  OwnInv'
<1>0. OwnershipInv
  BY DEF VnicInv, OwnershipInv
<1>1. CASE nic_init_alloc
  <2>1. TxWindow = {} /\ RxWindow = {}
    BY <1>1, CardIdle, Windows DEF nic_init_alloc, VnicInv
  <2>2. TxWindow' = {} /\ RxWindow' = {}
    BY <1>1, NicAssumption, EmptyWindow, SMT DEF nic_init_alloc, TxWindow, RxWindow, Slots
  <2>3. /\ tx_ring_buffer' = [ i \in TxSlots |-> NULL ]
        /\ rx_ring_buffer' = [ i \in RxSlots |-> NULL ]
        /\ UNCHANGED <<nicSkb, owned, oops>>
    BY <1>1 DEF nic_init_alloc
  <2>4. QED
    BY <2>1, <2>2, <2>3 DEF OwnInv, TxWindowFilled, RxWindowFilled, Accounted, Distinct
<1>2. CASE pnd_init_alloc
  BY <1>2, OtherSteps DEF pnd_init_alloc, nicVars, nicIf
<1>3. CASE [Next]_vars
  BY <1>0, <1>3, OwnershipStep DEF OwnershipInv
<1>4. QED
  BY <1>1, <1>2, <1>3, StepOfDrivers

LEMMA OwnAlways ==
  ASSUME TodoFilled
  PROVE  VnicSpec => [](VnicInv /\ OwnInv)
<1>1. VnicInit => OwnInv
  BY InitOwnership DEF VnicInit, OwnershipInv
<1>2. VnicInv /\ OwnInv /\ [VnicNext]_vnicVars => (VnicInv /\ OwnInv)'
  BY OwnStep, VnicInvStep
<1>3. QED
  BY <1>1, <1>2, InitVnicInv, PTL DEF VnicSpec

\* CARD RELEASED.  With the TODO slots filled in, the private area of the card
\* is freed only when the interface is closed, no poll and no transmit runs,
\* pnd.ko is out, and every skb has been freed or handed on.
THEOREM ReleasedEmpty ==
  ASSUME TodoFilled
  PROVE  VnicSpec => []CardReleased
<1>1. VnicInv /\ OwnInv => CardReleased
  <2> SUFFICES ASSUME VnicInv, OwnInv, priv = "none" PROVE CardReleased
    BY DEF CardReleased
  <2>1. /\ nicKo \in {"out", "spin_lock_init_freed"} /\ pndKo = "out"
        /\ pndDev = "down" /\ nicDev = "down" /\ early = NULL
    BY DEF VnicInv, ModuleInv, Registered
  <2>2. /\ nicNapi.state = "off" /\ nicSkb = NULL /\ holder = "none"
        /\ TxEmpty /\ RxEmpty
    BY <2>1 DEF VnicInv, NicPollInv, HandshakeInv, Handshake
  <2>3. TxWindow = {} /\ RxWindow = {}
    BY <2>2, Windows DEF VnicInv
  <2>4. owned = {}
    BY <2>2, <2>3 DEF OwnInv, Accounted
  <2>5. QED
    BY <2>1, <2>2, <2>4 DEF CardReleased
<1>2. QED
  BY <1>1, OwnAlways, PTL
-----------------------------------------------------------------------------
(* What the loaded drivers promise, they promise whatever is loaded and    *)
(* unloaded around them.                                                   *)

\* SAFE LOADED.  Also with the modules coming and going, a driver that is down
\* is quiescent, an interrupt is heard, a masked interrupt is on its way to be
\* unmasked, and, with TODO, a packet on its way to be noticed.
THEOREM SafeLoaded ==
  VnicSpec =>
    [](QuiescentWhenDown /\ InterruptIsHeard /\ NoDeafDriver /\ PacketIsNoticed)
<1> DEFINE Served == MaskedIsServed /\ PacketIsNoticed
<1>1. VnicInv => QuiescentWhenDown /\ InterruptIsHeard
  BY DEF VnicInv, HandshakeInv, Handshake, QuiescentWhenDown, InterruptIsHeard, InHandler
<1>2. VnicInit => Served
  BY DEF VnicInit, Init, MaskedIsServed, PacketIsNoticed
<1>3. ASSUME VnicInv, Served, [VnicNext]_vnicVars PROVE Served'
  <2>1. CASE nic_init_alloc \/ pnd_init_alloc
    BY <1>3, <2>1 DEF nic_init_alloc, pnd_init_alloc, VnicInv, ModuleInv, MaskedIsServed,
       PacketIsNoticed, pndVars
  <2>2. CASE [Next]_vars
    BY <1>3, <2>2, NoticeStep DEF VnicInv, DeafInv, NoticeInv
  <2>3. QED
    BY <1>3, <2>1, <2>2, StepOfDrivers
<1>4. VnicInv /\ Served /\ [VnicNext]_vnicVars => (VnicInv /\ Served)'
  BY <1>3, VnicInvStep
<1>5. Served => NoDeafDriver /\ PacketIsNoticed
  BY DEF MaskedIsServed, NoDeafDriver
<1> HIDE DEF Served
<1>6. QED
  BY <1>1, <1>2, <1>4, <1>5, InitVnicInv, PTL DEF VnicSpec

\* Steps that need the lock wait, and the others leave the rings and the handler
\* alone, or end the holding.
LEMMA HeldStep ==
  ASSUME holder # "none", holder' = holder, Next
  PROVE  UNCHANGED <<txRing, rxRing, handler>>
<1>0. ~LockFree
  BY DEF LockFree
<1>1. CASE pnd_open_setup \/ PndOpenRest
  BY <1>0, <1>1 DEF pnd_open_setup, nic_setup_buffers, PndOpenRest, pnd_open_napi,
     pnd_open_register, nic_register_handler, pnd_open_ready, pnd_open_intr,
     pnd_open_check, nic_hw_check_intr, card, nicVars, hw
<1>2. CASE pnd_close_intr \/ PndCloseRest
  BY <1>0, <1>2 DEF pnd_close_intr, PndCloseRest, pnd_close_ready, pnd_close_unregister,
     nic_unregister_handler, pnd_close_napi, pnd_close_wait, pnd_close_cleanup,
     nic_cleanup_buffers, card, nicVars, hw
<1>3. CASE (\E skb \in Skb : pnd_start_xmit(skb)) \/ pnd_start_xmit_schedule
  BY <1>0, <1>3 DEF pnd_start_xmit, pnd_start_xmit_schedule, hw
<1>4. CASE PndPoll \/ pnd_poll_unmask \/ pnd_poll_check
  BY <1>0, <1>4 DEF PndPoll, pnd_poll_start, pnd_poll_rx, pnd_poll_complete, pnd_poll_budget,
     pnd_poll_unmask, pnd_poll_check, nic_hw_check_intr, card, nicVars, hw
<1>5. CASE NicOpen \/ NicClose \/ NicCloseEnd \/ NicPoll
  BY <1>0, <1>5 DEF NicOpen, nic_open, NicClose, nic_close_begin, NicCloseEnd, nic_close_end,
     NicPoll, nic_poll_take, nic_poll_done, hw
<1>6. CASE (\E skb \in Skb : NicXmit(skb)) \/ NicXmitQuiet
  BY <1>0, <1>6 DEF NicXmit, nic_start_xmit, NicXmitQuiet, nic_start_xmit_quiet
<1>7. CASE handler_mask \/ handler_schedule
  BY <1>7 DEF handler_mask, handler_schedule, hw
<1>8. QED
  BY <1>1, <1>2, <1>3, <1>4, <1>5, <1>6, <1>7 DEF Next

\* LOCK PROTECTS.  What the lock is there for stays as it is while a call of
\* nic_start_xmit, or of the handler, is inside, whatever is opened, closed,
\* polled, loaded or unloaded: the transmit that LockProtects is about, before
\* nic_init has initialised the lock, is the only exception.
THEOREM LockHolds == VnicSpec => LockProtectsOnceInit
<1>1. ASSUME VnicInv, [VnicNext]_vnicVars, holder # "none", holder' = holder
      PROVE  UNCHANGED <<txRing, rxRing, handler>>
  <2>1. ~nic_init_alloc
    BY <1>1, CardIdle DEF nic_init_alloc
  <2>2. CASE pnd_init_alloc \/ UNCHANGED vars
    BY <2>2 DEF pnd_init_alloc, vars, nicVars, hw
  <2>3. CASE Next
    BY <1>1, <2>3, HeldStep
  <2>4. QED
    BY <1>1, <2>1, <2>2, <2>3, StepOfDrivers
<1>2. VnicInv /\ [VnicNext]_vnicVars
        => [ holder # "none" /\ holder' = holder
             => UNCHANGED <<txRing, rxRing, handler>> ]_vnicVars
  BY <1>1
<1>3. QED
  BY <1>2, InitVnicInv, VnicInvStep, PTL DEF VnicSpec, LockProtectsOnceInit

\* OWNED LOADED.  Also with the modules coming and going, every skb the drivers
\* hold is in one place, and no slot of a window is empty.
THEOREM OwnedLoaded ==
  ASSUME TodoFilled
  PROVE  VnicSpec => [](SkbOwnedOnce /\ RingsFilled)
<1>1. VnicInv /\ OwnInv => SkbOwnedOnce /\ RingsFilled
  BY DEF OwnInv, Accounted, Distinct, SkbOwnedOnce, RingsFilled
<1>2. QED
  BY <1>1, OwnAlways, PTL

\* LINK LOADED.  Loading and unloading the modules is no step of the link, or
\* leaves it down and empty as it was: the refinement holds across both.
THEOREM LinkLoaded ==
  ASSUME TodoFilled
  PROVE  VnicSpec => ImplementsLink
<1>1. VnicInit => Link!LinkInit
  BY LinkInitial DEF VnicInit
<1>2. ASSUME VnicInv, OwnInv, [VnicNext]_vnicVars
      PROVE  [Link!LinkNext]_(Link!linkVars)
  <2>0. OwnershipInv
    BY <1>2 DEF VnicInv, OwnershipInv
  <2>1. CASE [Next]_vars
    BY <2>0, <2>1, LinkStep
  <2>2. CASE pnd_init_alloc
    BY <2>2 DEF pnd_init_alloc, nicVars, txRing, rxRing, hw, nicIf, Link!linkVars, TxQueue, RxQueue
  <2>3. CASE nic_init_alloc
    <3>1. ~nic_ready /\ TxQueue = << >> /\ RxQueue = << >>
      BY <1>2, <2>0, <2>3, CardIdle, EmptyQueues
         DEF nic_init_alloc, VnicInv, HandshakeInv, Handshake
    <3>2. 0 \in Slots(NUM_TX_DESC) /\ 0 \in Slots(NUM_RX_DESC)
      BY NicAssumption, SMT DEF Slots
    <3>3. TxQueue' = << >> /\ RxQueue' = << >>
      BY <2>3, <3>2, NicAssumption, EmptyQueue DEF nic_init_alloc, TxQueue, RxQueue
    <3>4. nic_ready' = nic_ready
      BY <1>2, <2>3, <3>1 DEF nic_init_alloc, VnicInv, HandshakeInv, TypeInv, TypeOK, NicTypeOK
    <3>5. QED
      BY <2>3, <3>1, <3>3, <3>4 DEF nic_init_alloc, Link!linkVars
  <2>4. QED
    BY <1>2, <2>1, <2>2, <2>3, StepOfDrivers
<1>3. VnicInv /\ OwnInv /\ [VnicNext]_vnicVars => [Link!LinkNext]_(Link!linkVars)
  BY <1>2
<1>4. QED
  BY <1>1, <1>3, OwnAlways, PTL DEF VnicSpec, ImplementsLink, Link!LinkSpec
-----------------------------------------------------------------------------
(* Types and statistics, of the drivers with their modules. *)

ModuleTypes ==
  /\ nicKo \in {"out", "register_netdev", "spin_lock_init",
                "spin_lock_init_freed", "live", "unregister_netdev"}
  /\ pndKo \in {"out", "register_netdev", "live", "unregister_netdev"}
  /\ priv \in {"none", "allocated"}
  /\ flushed \in BOOLEAN

LEMMA ModuleTypesStep == ModuleTypes /\ [VnicNext]_vnicVars => ModuleTypes'
<1> SUFFICES ASSUME ModuleTypes, [VnicNext]_vnicVars PROVE ModuleTypes'
  OBVIOUS
<1>1. flushed' \in BOOLEAN
  BY DEF ModuleTypes, VnicNext, FlushNoted, vnicVars
<1>2. /\ nicKo' \in {"out", "register_netdev", "spin_lock_init",
                     "spin_lock_init_freed", "live", "unregister_netdev"}
      /\ pndKo' \in {"out", "register_netdev", "live", "unregister_netdev"}
      /\ priv' \in {"none", "allocated"}
  BY DEF ModuleTypes, VnicNext, ModuleStep, vnicVars, modVars, nic_init_alloc,
     nic_init_register, nic_init_lock, nic_exit_unregister, nic_exit_free,
     pnd_init_alloc, pnd_init_register, pnd_exit_unregister, pnd_exit_free,
     early_xmit_lock, early_xmit_rest
<1>3. QED
  BY <1>1, <1>2 DEF ModuleTypes

\* TYPES.  The driver, the card and the two modules stay in their ranges
\* however often the modules are loaded, unloaded or fail to load.
THEOREM VnicTyped == VnicSpec => []VnicTypeOK
<1>1. VnicInit => ModuleTypes
  BY DEF VnicInit, ModuleTypes
<1>2. VnicInv /\ ModuleTypes => VnicTypeOK
  BY DEF VnicInv, HandshakeInv, TypeInv, ModuleInv, ModuleTypes, VnicTypeOK
<1>3. QED
  BY <1>1, <1>2, InitVnicInv, VnicInvStep, ModuleTypesStep, PTL DEF VnicSpec

\* STATISTICS CLEARED.  Also with loading and unloading, the statistics of an
\* interface that is down are zero.
THEOREM StatsClearedLoaded == VnicSpec => []StatsClearedWhenDown
<1>1. VnicInit => StatsClearedWhenDown
  BY DEF VnicInit, Init, NicInit, StatsClearedWhenDown
<1>2. ASSUME VnicInv, StatsClearedWhenDown, [VnicNext]_vnicVars
      PROVE  StatsClearedWhenDown'
  <2>1. CASE nic_init_alloc \/ pnd_init_alloc
    BY <1>2, <2>1 DEF nic_init_alloc, pnd_init_alloc, StatsClearedWhenDown,
       nicVars, nicIf, pndVars, pndIo
  <2>2. CASE [Next]_vars
    BY <1>2, <2>2, StatsStep DEF VnicInv, StatsInv
  <2>3. QED
    BY <1>2, <2>1, <2>2, StepOfDrivers
<1>3. VnicInv /\ StatsClearedWhenDown /\ [VnicNext]_vnicVars
        => (VnicInv /\ StatsClearedWhenDown)'
  BY <1>2, VnicInvStep
<1>4. QED
  BY <1>1, <1>3, InitVnicInv, PTL DEF VnicSpec
-----------------------------------------------------------------------------
(* The card's poll finds a packet, unless pnd_close has flushed the ring.  *)

\* The requests for a poll of the card that are under way: each is a poll
\* that will take one packet.
One(b)   == IF b THEN 1 ELSE 0
Requests == One(nicNapi.state = "queued") + One(nicNapi.missed)
              + One(pndXmit = "schedule")

\* There is a packet in the transmit ring for every request.
RequestsHavePackets == Requests <= Count(tx_nic, tx_drv, NUM_TX_DESC)

PollInv == (flushed \/ RequestsHavePackets) /\ NoEmptyPoll

\* pnd_close drops packets of the transmit ring.
Flushes == pndDev = "nic_cleanup_buffers" /\ pndDev' = "down" /\ ~TxEmpty

\* What a step has to do for FlushNoted to keep the invariant.
PollKept ==
  /\ flushed \/ Flushes \/ RequestsHavePackets'
  /\ nicNapi'.state = "polling" /\ nicSkb' = NULL => flushed

\* The number of packets in the ring, and how transmits and polls change it.
LEMMA TxCount ==
  ASSUME HandshakeInv
  PROVE  /\ Count(tx_nic, tx_drv, NUM_TX_DESC) \in Nat
         /\ Count(tx_nic, tx_drv, NUM_TX_DESC) = 0 <=> TxEmpty
         /\ ~Full(tx_nic, tx_drv, NUM_TX_DESC) =>
              Count(tx_nic, NextSlot(tx_drv, NUM_TX_DESC), NUM_TX_DESC)
                = Count(tx_nic, tx_drv, NUM_TX_DESC) + 1
         /\ ~TxEmpty =>
              Count(NextSlot(tx_nic, NUM_TX_DESC), tx_drv, NUM_TX_DESC)
                = Count(tx_nic, tx_drv, NUM_TX_DESC) - 1
<1>1. /\ NUM_TX_DESC \in Nat \ {0}
      /\ tx_nic \in Slots(NUM_TX_DESC) /\ tx_drv \in Slots(NUM_TX_DESC)
  BY NicAssumption, SlotTypes DEF TxSlots
<1>2. QED
  BY <1>1, CountCases, PutCount, TakeCount, SMT DEF TxEmpty

LEMMA PollConcluded ==
  ASSUME HandshakeInv', FlushNoted, PollKept
  PROVE  PollInv'
<1>1. CASE PollRequested'
  BY <1>1 DEF PollInv, PollKept, Flushes, FlushNoted, PollRequested, NoEmptyPoll
<1>2. CASE ~PollRequested'
  <2>1. (Requests = 0)'
    BY <1>2 DEF PollRequested, Requests, One
  <2>2. (Count(tx_nic, tx_drv, NUM_TX_DESC) \in Nat)'
    <3>1. /\ NUM_TX_DESC \in Nat \ {0}
          /\ (tx_nic \in Slots(NUM_TX_DESC) /\ tx_drv \in Slots(NUM_TX_DESC))'
      BY NicAssumption DEF HandshakeInv, TypeInv, TypeOK, NicTypeOK, TxSlots
    <3>2. QED
      BY <3>1, CountCases, SMT
  <2>3. RequestsHavePackets'
    BY <2>1, <2>2, SMT DEF RequestsHavePackets
  <2>4. QED
    BY <1>2, <2>3 DEF PollInv, NoEmptyPoll, PollRequested
<1>3. QED
  BY <1>1, <1>2

\* The steps that take no part in it.
LEMMA PollUntouched ==
  ASSUME PollInv, UNCHANGED <<tx_nic, tx_drv, nicNapi, nicSkb, pndXmit>>
  PROVE  PollKept
BY DEF PollInv, PollKept, RequestsHavePackets, Requests, NoEmptyPoll

\* What happens to the card's NAPI instance: requests collapse, are postponed
\* or refused, and a poll takes one packet, but no request arises by itself.
LEMMA RequestSteps ==
  ASSUME 1 < NIC_NAPI_WEIGHT, HandshakeInv, PollInv
  PROVE  /\ pnd_start_xmit_schedule => PollKept
         /\ NicPoll => PollKept
         /\ NicOpen \/ NicClose \/ NicCloseEnd => PollKept
<1> DEFINE Packets == Count(tx_nic, tx_drv, NUM_TX_DESC)
<1>0. nicNapi \in Instance /\ Packets \in Nat /\ NULL \notin Skb
  BY NicAssumption, TxCount DEF HandshakeInv, TypeInv, TypeOK, NicTypeOK
<1>1. ASSUME UNCHANGED <<tx_nic, tx_drv>>,
             nicNapi'.state = "polling" /\ nicSkb' = NULL =>
               nicNapi.state = "polling" /\ nicSkb = NULL,
             Requests' <= Requests, Requests \in Nat, Requests' \in Nat
      PROVE  PollKept
  <2>1. Packets' = Packets
    BY <1>1
  <2>2. RequestsHavePackets => RequestsHavePackets'
    BY <1>0, <1>1, <2>1, SMT DEF RequestsHavePackets
  <2>3. QED
    BY <1>1, <2>2 DEF PollInv, PollKept, NoEmptyPoll
<1>t. Requests \in Nat /\ Requests' \in Nat
  BY SMT DEF Requests, One
<1>2. ASSUME pnd_start_xmit_schedule PROVE PollKept
  <2>1. Requests' <= Requests
    BY <1>0, <1>2, SMT DEF pnd_start_xmit_schedule, napi_schedule, Instance, Requests, One
  <2>2. nicNapi'.state = "polling" => nicNapi.state = "polling"
    BY <1>0, <1>2 DEF pnd_start_xmit_schedule, napi_schedule, Instance
  <2>3. UNCHANGED <<tx_nic, tx_drv, nicSkb>>
    BY <1>2 DEF pnd_start_xmit_schedule, txRing
  <2>4. QED
    BY <1>1, <1>t, <2>1, <2>2, <2>3
<1>3. ASSUME nic_poll_done /\ UNCHANGED pndVars PROVE PollKept
  <2>1. nicNapi' = napi_complete(nicNapi)
    BY <1>3 DEF nic_poll_done, nic_poll_result
  <2>2. Requests' <= Requests
    BY <1>0, <1>3, <2>1, SMT DEF nic_poll_done, napi_complete, Instance, Requests, One, pndVars, pndIo
  <2>3. nicNapi'.state # "polling"
    BY <1>0, <2>1 DEF napi_complete, Instance
  <2>4. UNCHANGED <<tx_nic, tx_drv>>
    BY <1>3 DEF nic_poll_done, txRing
  <2>5. QED
    BY <1>1, <1>t, <2>2, <2>3, <2>4
<1>4. ASSUME NicOpen \/ NicClose \/ NicCloseEnd PROVE PollKept
  <2>1. /\ nicNapi' \in {napi_enable(nicNapi), napi_disable_begin(nicNapi),
                         napi_disable_end(nicNapi)}
        /\ UNCHANGED <<tx_nic, tx_drv, nicSkb, pndXmit>>
    BY <1>4 DEF NicOpen, NicClose, NicCloseEnd, nic_open, nic_close_begin, nic_close_end,
       txRing, pndVars, pndIo
  <2>2. /\ nicNapi'.state \in {nicNapi.state, "idle", "off"}
        /\ nicNapi'.missed = nicNapi.missed
    BY <1>0, <2>1 DEF napi_enable, napi_disable_begin, napi_disable_end, Instance
  <2>3. Requests' <= Requests
    BY <2>1, <2>2, SMT DEF Requests, One
  <2>4. QED
    BY <1>1, <1>t, <2>1, <2>2, <2>3
<1>5. ASSUME nic_poll_take /\ UNCHANGED pndVars PROVE PollKept
  <2>1. nicNapi.state = "queued" /\ pndXmit' = pndXmit
    BY <1>5 DEF nic_poll_take, pndVars, pndIo
  <2>2. CASE TxEmpty
    <3>1. Packets = 0 /\ Requests >= 1
      BY <2>1, <2>2, TxCount, SMT DEF Requests, One
    <3>2. ~RequestsHavePackets
      BY <1>t, <3>1, SMT DEF RequestsHavePackets
    <3>3. QED
      BY <3>2 DEF PollInv, PollKept
  <2>3. CASE UNCHANGED <<txRing, nicSkb, nicNapi>>
    <3>1. UNCHANGED <<tx_nic, tx_drv, nicNapi, nicSkb, pndXmit>>
      BY <2>1, <2>3 DEF txRing
    <3>2. QED
      BY <3>1, PollUntouched
  <2>4. CASE /\ ~TxEmpty /\ nicNapi' = napi_start_poll(nicNapi)
             /\ tx_nic' = NextSlot(tx_nic, NUM_TX_DESC) /\ tx_drv' = tx_drv
             /\ nicSkb' # NULL
    <3>1. Packets' = Packets - 1
      BY <2>4, TxCount
    <3>2. nicNapi'.state = "polling" /\ nicNapi'.missed = nicNapi.missed
      BY <1>0, <2>4 DEF napi_start_poll, Instance
    <3>3. Requests' = Requests - 1
      BY <2>1, <3>2, SMT DEF Requests, One
    <3>4. RequestsHavePackets => RequestsHavePackets'
      BY <1>0, <1>t, <3>1, <3>3, SMT DEF RequestsHavePackets
    <3>5. QED
      BY <2>4, <3>4 DEF PollInv, PollKept
  <2>5. QED
    BY <1>5, <2>2, <2>3, <2>4 DEF nic_poll_take
<1>6. QED
  BY <1>2, <1>3, <1>4, <1>5 DEF NicPoll

\* What happens to the ring: a packet comes before its request, and setting
\* the ring up drops nothing because it is empty.
LEMMA RingSteps ==
  ASSUME HandshakeInv, PollInv
  PROVE  /\ \A skb \in Skb : pnd_start_xmit(skb) => PollKept
         /\ pnd_open_setup \/ pnd_close_cleanup => PollKept
<1> DEFINE Packets == Count(tx_nic, tx_drv, NUM_TX_DESC)
<1>t. Packets \in Nat /\ Requests \in Nat
  BY TxCount, SMT DEF Requests, One
<1>1. ASSUME NEW skb \in Skb, pnd_start_xmit(skb) PROVE PollKept
  <2>1. CASE ~TxAccepts
    <3>1. UNCHANGED <<tx_nic, tx_drv, nicNapi, nicSkb, pndXmit>>
      BY <1>1, <2>1 DEF pnd_start_xmit, txRing, nicIf
    <3>2. QED
      BY <3>1, PollUntouched
  <2>2. CASE TxAccepts
    <3>1. /\ pndXmit = "idle" /\ pndXmit' = "schedule"
          /\ tx_drv' = NextSlot(tx_drv, NUM_TX_DESC)
          /\ UNCHANGED <<tx_nic, nicNapi, nicSkb>>
      BY <1>1, <2>2 DEF pnd_start_xmit, nic_hw_tx_pkt, nicIf
    <3>2. Packets' = Packets + 1
      BY <2>2, <3>1, TxCount DEF TxAccepts
    <3>3. Requests' = Requests + 1
      BY <3>1, SMT DEF Requests, One
    <3>4. RequestsHavePackets => RequestsHavePackets'
      BY <1>t, <3>2, <3>3, SMT DEF RequestsHavePackets
    <3>5. QED
      BY <3>1, <3>4 DEF PollInv, PollKept, NoEmptyPoll
  <2>3. QED
    BY <2>1, <2>2
<1>2. ASSUME TxEmpty, tx_nic' = 0, tx_drv' = 0, UNCHANGED <<nicNapi, nicSkb, pndXmit>>
      PROVE  PollKept
  <2>1. Packets = 0
    BY <1>2, TxCount
  <2>2. 0 \in Slots(NUM_TX_DESC) /\ NUM_TX_DESC \in Nat \ {0}
    BY NicAssumption, SMT DEF Slots
  <2>3. Packets' = 0
    BY <1>2, <2>2, CountCases
  <2>4. Requests' = Requests
    BY <1>2 DEF Requests
  <2>5. QED
    BY <1>2, <2>1, <2>3, <2>4 DEF PollInv, PollKept, RequestsHavePackets, NoEmptyPoll
<1>3. ASSUME pnd_open_setup PROVE PollKept
  BY <1>2, <1>3 DEF pnd_open_setup, nic_setup_buffers, HandshakeInv, Handshake, nicIf, pndIo
<1>4. ASSUME pnd_close_cleanup PROVE PollKept
  <2>1. /\ tx_nic' = 0 /\ tx_drv' = 0 /\ UNCHANGED <<nicNapi, nicSkb, pndXmit>>
        /\ pndDev = "nic_cleanup_buffers" /\ pndDev' = "down"
    BY <1>4 DEF pnd_close_cleanup, nic_cleanup_buffers, nicIf
  <2>2. CASE TxEmpty
    BY <1>2, <2>1, <2>2
  <2>3. CASE ~TxEmpty
    BY <2>1, <2>3 DEF PollInv, PollKept, Flushes, NoEmptyPoll
  <2>4. QED
    BY <2>2, <2>3
<1>5. QED
  BY <1>1, <1>3, <1>4

\* The steps of the loaded drivers.
LEMMA LoadedPollStep ==
  ASSUME 1 < NIC_NAPI_WEIGHT, HandshakeInv, PollInv, LoadedStep
  PROVE  PollKept
<1>u. ASSUME UNCHANGED <<tx_nic, tx_drv, nicNapi, nicSkb, pndXmit>> PROVE PollKept
  BY <1>u, PollUntouched
<1>1. CASE NicPoll \/ NicOpen \/ NicClose \/ NicCloseEnd \/ pnd_start_xmit_schedule
  BY <1>1, RequestSteps
<1>2. CASE \/ \E skb \in Skb : pnd_start_xmit(skb)
           \/ pnd_open_setup \/ pnd_close_cleanup
  BY <1>2, RingSteps
<1>3. CASE pnd_close_intr \/ PndOpenRest \/ (PndCloseRest /\ ~pnd_close_cleanup)
  BY <1>u, <1>3 DEF pnd_close_intr, PndOpenRest, pnd_open_napi, pnd_open_register,
     pnd_open_ready, pnd_open_intr, pnd_open_check, nic_hw_check_intr, PndCloseRest,
     pnd_close_ready, pnd_close_unregister, pnd_close_napi, pnd_close_wait,
     card, nicVars, txRing, nicIf, pndIo
<1>4. CASE (\E skb \in Skb : NicXmit(skb)) \/ NicXmitQuiet \/ handler_mask \/ handler_schedule
  BY <1>u, <1>4 DEF NicXmit, nic_start_xmit, NicXmitQuiet, nic_start_xmit_quiet, handler_mask,
     handler_schedule, txRing, nicIf, pndVars, pndIo
<1>5. CASE PndPoll \/ pnd_poll_unmask \/ pnd_poll_check
  BY <1>u, <1>5 DEF PndPoll, pnd_poll_start, pnd_poll_rx, pnd_poll_complete, pnd_poll_budget,
     pnd_poll_unmask, pnd_poll_check, nic_hw_check_intr, card, nicVars, txRing, nicIf
<1>6. QED
  BY <1>1, <1>2, <1>3, <1>4, <1>5 DEF LoadedStep, Admin, Transmit

\* The steps of the modules.  Loading nic.ko starts with an empty ring that
\* nobody has asked to poll.
LEMMA ModulePollStep ==
  ASSUME 1 < NIC_NAPI_WEIGHT, VnicInv, PollInv, ModuleStep
  PROVE  PollKept
<1>i. HandshakeInv
  BY DEF VnicInv
<1>u. ASSUME UNCHANGED <<tx_nic, tx_drv, nicNapi, nicSkb, pndXmit>> PROVE PollKept
  BY <1>u, PollUntouched
<1>1. CASE nic_init_alloc
  <2>1. /\ tx_nic' = 0 /\ tx_drv' = 0 /\ nicNapi' = netif_napi_add
        /\ pndXmit' = "idle"
    BY <1>1, CardIdle DEF nic_init_alloc, VnicInv, HandshakeInv, Handshake, pndVars, pndIo
  <2>2. 0 \in Slots(NUM_TX_DESC) /\ NUM_TX_DESC \in Nat \ {0}
    BY NicAssumption, SMT DEF Slots
  <2>3. Count(tx_nic, tx_drv, NUM_TX_DESC)' = 0
    BY <2>1, <2>2, CountCases
  <2>4. Requests' = 0
    BY <2>1, SMT DEF Requests, One, netif_napi_add
  <2>5. QED
    BY <2>1, <2>3, <2>4, SMT DEF PollKept, RequestsHavePackets, netif_napi_add
<1>2. CASE NicClose
  BY <1>i, <1>2, RequestSteps
<1>3. CASE \/ nic_init_register \/ nic_init_lock \/ nic_exit_free
           \/ nic_exit_unregister /\ ~NicClose
           \/ pnd_init_alloc \/ pnd_init_register \/ pnd_exit_free
  BY <1>u, <1>3 DEF nic_init_register, nic_init_lock, nic_exit_free, nic_exit_unregister,
     pnd_init_alloc, pnd_init_register, pnd_exit_free, card, vars, nicVars, txRing, nicIf,
     pndVars, pndIo
<1>4. CASE \/ pnd_exit_unregister \/ early_xmit_rest
           \/ \E skb \in Skb : early_xmit_lock(skb)
  BY <1>u, <1>4 DEF pnd_exit_unregister, pnd_close_intr, early_xmit_rest, NicXmit,
     nic_start_xmit, early_xmit_lock, card, vars, nicVars, txRing, nicIf, pndVars, pndIo
<1>5. QED
  BY <1>1, <1>2, <1>3, <1>4 DEF ModuleStep

LEMMA PollStep ==
  ASSUME 1 < NIC_NAPI_WEIGHT, VnicInv, PollInv, [VnicNext]_vnicVars
  PROVE  PollInv'
<1>i. HandshakeInv /\ HandshakeInv'
  BY VnicInvStep DEF VnicInv
<1>1. CASE VnicNext
  <2>1. PollKept
    BY <1>i, <1>1, LoadedPollStep, ModulePollStep DEF VnicNext
  <2>2. QED
    BY <1>i, <1>1, <2>1, PollConcluded DEF VnicNext
<1>2. CASE UNCHANGED vnicVars
  BY <1>2 DEF vnicVars, vars, nicVars, txRing, nicIf, pndVars, pndIo, PollInv,
     RequestsHavePackets, Requests, NoEmptyPoll
<1>3. QED
  BY <1>1, <1>2

LEMMA InitPoll == VnicInit => PollInv
<1> SUFFICES ASSUME VnicInit PROVE PollInv
  OBVIOUS
<1>1. 0 \in Slots(NUM_TX_DESC) /\ NUM_TX_DESC \in Nat \ {0}
  BY NicAssumption, SMT DEF Slots
<1>2. /\ tx_nic = 0 /\ tx_drv = 0 /\ pndXmit = "idle"
      /\ nicNapi = netif_napi_add
  BY DEF VnicInit, Init, NicInit
<1>3. Count(tx_nic, tx_drv, NUM_TX_DESC) = 0
  BY <1>1, <1>2, CountCases
<1>4. Requests = 0
  BY <1>2, SMT DEF Requests, One, netif_napi_add
<1>5. QED
  BY <1>2, <1>3, <1>4, SMT DEF PollInv, RequestsHavePackets, NoEmptyPoll, netif_napi_add

\* POLL FINDS PACKET.  With a budget larger than the one packet that nic_poll
\* takes, as it is in nic.c, nic_poll meets an empty ring only when pnd_close
\* has flushed the ring since the poll was requested: the scheduler collapses
\* requests but makes none up, and every request comes after its packet.
THEOREM PollFindsPacket ==
  ASSUME 1 < NIC_NAPI_WEIGHT
  PROVE  VnicSpec => []NoEmptyPoll
<1>1. VnicInit => VnicInv /\ PollInv
  BY InitVnicInv, InitPoll
<1>2. VnicInv /\ PollInv /\ [VnicNext]_vnicVars => (VnicInv /\ PollInv)'
  BY VnicInvStep, PollStep
<1>3. PollInv => NoEmptyPoll
  BY DEF PollInv
<1>4. QED
  BY <1>1, <1>2, <1>3, PTL DEF VnicSpec
=============================================================================
