-------------------------------- MODULE Nic ---------------------------------
(***************************************************************************)
(* P04_vnic/nic.c: a simulated network card.  One side is the card that    *)
(* the driver under study programs through the nic_* functions; the other  *)
(* side is a network interface of its own ("nic"), so that what the driver *)
(* transmits arrives on that interface and what that interface transmits   *)
(* arrives at the driver.  The module holds the card's state, the steps of *)
(* the "nic" interface, and one operator per function the card exports;    *)
(* Pnd.tla composes them with the driver that calls them.                  *)
(*                                                                         *)
(* pvt->lock.  All code under the spinlock runs in one step, except the    *)
(* two calls of the driver's handler with the lock held: in nic_start_xmit,*)
(* after reading the unprotected nic_intr_enabled, and in the part of      *)
(* nic_hw_enable_intr that is compiled with TODO defined.  The variable    *)
(* holder says who is inside them; the lock is free when nobody is.        *)
(***************************************************************************)
EXTENDS DescRing, Napi

CONSTANTS
  Skb,              \* socket buffers (struct sk_buff), reused once freed
  NULL,             \* the null pointer
  NUM_TX_DESC,      \* slots of the transmit ring, 1024 in nic.c
  NUM_RX_DESC,      \* slots of the receive ring, 1024 in nic.c
  NIC_NAPI_WEIGHT,  \* budget of nic_poll, 64 in nic.c
  StatMax,          \* bound: interface statistics saturate at this value
  TodoFilled,       \* TRUE: "TODO 1" and "TODO 2" of nic.c hold the index
                    \* their comments ask for; FALSE: the literal 0, as committed
  WithTODO          \* TRUE: nic.c is compiled with TODO defined (nic.c:385);
                    \* FALSE: without, as the Makefile does

ASSUME NicAssumption ==
  /\ NULL \notin Skb
  /\ NUM_TX_DESC \in Nat \ {0}
  /\ NUM_RX_DESC \in Nat \ {0}
  /\ NIC_NAPI_WEIGHT \in Nat \ {0}
  /\ StatMax \in Nat
  /\ TodoFilled \in BOOLEAN /\ WithTODO \in BOOLEAN

VARIABLES
  tx_drv, tx_nic, tx_ring_buffer,  \* driver to card
  rx_drv, rx_nic, rx_ring_buffer,  \* card to driver
  handler,           \* a handler is registered (pvt->handler # NULL)
  nic_ready,         \* written without the lock
  nic_intr_enabled,  \* written without the lock
  nicDev,            \* the "nic" interface: "down", "up" or "closing"
  nicNapi,           \* its NAPI instance
  nicSkb,            \* local skb of the running nic_poll
  holder,            \* who holds pvt->lock across a step: "none"; "raise", a
                     \* nic_start_xmit that is about to test the interrupt;
                     \* "handler", "openCheck" or "pollCheck", the driver's
                     \* handler, called by nic_start_xmit, or by the
                     \* nic_hw_enable_intr of pnd_open or of pnd_poll
  nicStats,          \* dev->stats of the "nic" interface: events counted
  owned,             \* the skbs that the two drivers hold between them
  oops               \* a null pointer was dereferenced: the kernel stops

txRing  == <<tx_drv, tx_nic, tx_ring_buffer>>
rxRing  == <<rx_drv, rx_nic, rx_ring_buffer>>
hw      == <<handler, nic_ready, nic_intr_enabled>>
nicIf   == <<nicDev, nicNapi, nicSkb, nicStats>>
nicVars == <<txRing, rxRing, hw, nicIf, holder, owned, oops>>

LockFree == holder = "none"
-----------------------------------------------------------------------------
(* Rings and statistics. *)

TxSlots == Slots(NUM_TX_DESC)
RxSlots == Slots(NUM_RX_DESC)

TxWindow == Window(tx_nic, tx_drv, NUM_TX_DESC)
RxWindow == Window(rx_drv, rx_nic, NUM_RX_DESC)

TxEmpty == tx_nic = tx_drv
RxEmpty == rx_drv = rx_nic

\* Mutant: TODO 2 filled with the card's index instead of the driver's.
RxClearSlotOfNic == IF TodoFilled THEN rx_nic ELSE 0

\* The slot nic_hw_tx_pkt stores into (TODO 1) and the slot nic_hw_rx_pkt
\* clears (TODO 2).
TxPutSlot   == IF TodoFilled THEN tx_drv ELSE 0
RxClearSlot == IF TodoFilled THEN rx_drv ELSE 0

\* All the counters of an interface as one: what matters is when they are
\* counted up and when they are cleared.
Count1(stats) == IF stats < StatMax THEN stats + 1 ELSE stats
-----------------------------------------------------------------------------
(* The functions nic.c exports to the driver. *)

nic_setup_buffers ==
  /\ LockFree
  /\ tx_drv' = 0 /\ tx_nic' = 0
  /\ tx_ring_buffer' = [ i \in TxSlots |-> NULL ]
  /\ rx_drv' = 0 /\ rx_nic' = 0
  /\ rx_ring_buffer' = [ i \in RxSlots |-> NULL ]

\* Mutant: the receive ring is forgotten.
nic_cleanup_buffersTxOnly ==
  /\ LockFree
  /\ owned' = owned \ { tx_ring_buffer[i] : i \in TxWindow }
  /\ tx_ring_buffer' =
       [ i \in TxSlots |-> IF i \in TxWindow THEN NULL ELSE tx_ring_buffer[i] ]
  /\ tx_drv' = 0 /\ tx_nic' = 0
  /\ UNCHANGED rxRing

\* Frees what the two rings still hold; a NULL slot frees nothing.
nic_cleanup_buffers ==
  /\ LockFree
  /\ owned' = owned \ ({ tx_ring_buffer[i] : i \in TxWindow } \cup
                       { rx_ring_buffer[i] : i \in RxWindow })
  /\ tx_ring_buffer' =
       [ i \in TxSlots |-> IF i \in TxWindow THEN NULL ELSE tx_ring_buffer[i] ]
  /\ rx_ring_buffer' =
       [ i \in RxSlots |-> IF i \in RxWindow THEN NULL ELSE rx_ring_buffer[i] ]
  /\ tx_drv' = 0 /\ tx_nic' = 0 /\ rx_drv' = 0 /\ rx_nic' = 0

\* Mutant: the handler is cleared without taking pvt->lock.
nic_unregister_handlerUnlocked == handler' = FALSE

nic_register_handler   == LockFree /\ handler' = TRUE
nic_unregister_handler == LockFree /\ handler' = FALSE

\* Mutant: nic_hw_shut leaves nic_ready set.
nic_hw_clear_readyForgotten == UNCHANGED nic_ready

\* Mutant: the test of nic_hw_enable_intr is inverted.
InterruptPendingInverted == RxEmpty /\ handler

\* What nic_hw_enable_intr tests under the lock when TODO is defined: packets
\* are waiting in the receive ring, and there is a handler to call.
InterruptPending == ~RxEmpty /\ handler

\* nic_hw_init sets nic_ready and then calls nic_hw_enable_intr; nic_hw_shut
\* calls nic_hw_disable_intr and then clears nic_ready.  None takes the lock.
nic_hw_enable_intr  == nic_intr_enabled' = TRUE
nic_hw_disable_intr == nic_intr_enabled' = FALSE
nic_hw_set_ready    == nic_ready' = TRUE
nic_hw_clear_ready  == nic_ready' = FALSE

\* nic_hw_tx_pkt: the locked part.  It returns 0 exactly when it accepts.
TxAccepts == nic_ready /\ ~Full(tx_nic, tx_drv, NUM_TX_DESC)
nic_hw_tx_pkt(skb) ==
  /\ tx_ring_buffer' = [ tx_ring_buffer EXCEPT ![TxPutSlot] = skb ]
  /\ tx_drv' = NextSlot(tx_drv, NUM_TX_DESC)
  /\ UNCHANGED tx_nic

\* nic_hw_rx_pkt on a ring that is not empty; it returns RxHead, which the
\* committed slot 0 of TODO 2 can have turned into NULL.
RxHead == rx_ring_buffer[rx_drv]
nic_hw_rx_pkt ==
  /\ rx_ring_buffer' = [ rx_ring_buffer EXCEPT ![RxClearSlot] = NULL ]
  /\ rx_drv' = NextSlot(rx_drv, NUM_RX_DESC)
  /\ UNCHANGED rx_nic
-----------------------------------------------------------------------------
(* The "nic" network interface. *)

nic_open ==
  /\ nicDev = "down"
  /\ nicDev' = "up"
  /\ nicNapi' = napi_enable(nicNapi)
  /\ UNCHANGED <<txRing, rxRing, hw, nicSkb, holder, nicStats, owned, oops>>

\* The stack stops transmitting on an interface before it closes it.
nic_close_begin ==
  /\ nicDev = "up" /\ holder \notin {"raise", "handler"}
  /\ nicDev' = "closing"
  /\ nicNapi' = napi_disable_begin(nicNapi)
  /\ UNCHANGED <<txRing, rxRing, hw, nicSkb, holder, nicStats, owned, oops>>

\* Mutant: the statistics are not cleared after napi_disable.
nic_close_endNoClear ==
  /\ nicDev = "closing" /\ napi_disabled(nicNapi)
  /\ nicDev' = "down"
  /\ nicNapi' = napi_disable_end(nicNapi)
  /\ UNCHANGED <<txRing, rxRing, hw, nicSkb, holder, nicStats, owned, oops>>

nic_close_end ==
  /\ nicDev = "closing" /\ napi_disabled(nicNapi)
  /\ nicDev' = "down"
  /\ nicNapi' = napi_disable_end(nicNapi)
  /\ nicStats' = 0
  /\ UNCHANGED <<txRing, rxRing, hw, nicSkb, holder, owned, oops>>

\* Mutants: one half of nic_start_xmit's test is missing.
RxAcceptsWhenFull     == nic_ready
RxAcceptsWhenNotReady == ~Full(rx_drv, rx_nic, NUM_RX_DESC)

RxAccepts == nic_ready /\ ~Full(rx_drv, rx_nic, NUM_RX_DESC)

\* nic_start_xmit up to the interrupt: with the packet in the ring it keeps
\* the lock; a packet that is not accepted is freed and the lock released.
nic_start_xmit(skb) ==
  /\ nicDev = "up" /\ LockFree /\ skb \notin owned
  /\ \/ /\ RxAccepts
        /\ rx_ring_buffer' = [ rx_ring_buffer EXCEPT ![rx_nic] = skb ]
        /\ rx_nic' = NextSlot(rx_nic, NUM_RX_DESC)
        /\ owned' = owned \cup {skb}
        /\ nicStats' = Count1(nicStats)
        /\ holder' = "raise"
     \/ /\ ~RxAccepts
        /\ nicStats' = Count1(nicStats)
        /\ UNCHANGED <<rx_ring_buffer, rx_nic, owned, holder>>
  /\ UNCHANGED <<rx_drv, txRing, hw, nicDev, nicNapi, nicSkb, oops>>

\* No interrupt: it is masked, or nobody listens.  (With one, nic_start_xmit
\* calls the driver's handler: see Pnd.tla.)
RaisesInterrupt == nic_intr_enabled /\ handler
nic_start_xmit_quiet ==
  /\ holder = "raise" /\ ~RaisesInterrupt
  /\ holder' = "none"
  /\ UNCHANGED <<txRing, rxRing, hw, nicIf, owned, oops>>

\* nic_poll, the locked part: it takes one packet, or finds the ring empty,
\* or reads skb->len of a slot that is not filled.
nic_poll_take ==
  /\ nicNapi.state = "queued" /\ LockFree
  /\ \/ /\ TxEmpty
        /\ nicSkb' = NULL
        /\ nicNapi' = napi_start_poll(nicNapi)
        /\ UNCHANGED <<txRing, oops>>
     \/ /\ ~TxEmpty /\ tx_ring_buffer[tx_nic] # NULL
        /\ nicSkb' = tx_ring_buffer[tx_nic]
        /\ tx_ring_buffer' = [ tx_ring_buffer EXCEPT ![tx_nic] = NULL ]
        /\ tx_nic' = NextSlot(tx_nic, NUM_TX_DESC)
        /\ nicNapi' = napi_start_poll(nicNapi)
        /\ UNCHANGED <<tx_drv, oops>>
     \/ /\ ~TxEmpty /\ tx_ring_buffer[tx_nic] = NULL
        /\ oops' = TRUE
        /\ UNCHANGED <<txRing, nicSkb, nicNapi>>
  /\ UNCHANGED <<rxRing, hw, nicDev, holder, nicStats, owned>>

\* Mutant: napi_complete is never called.
nic_poll_resultRepoll(n) == napi_repoll(n)

\* nic_poll completes, since work_done = 1 is below any budget larger than 1.
nic_poll_result(n) ==
  IF 1 < NIC_NAPI_WEIGHT THEN napi_complete(n) ELSE napi_repoll(n)

\* nic_poll, the rest: hand the packet to the network stack, and return.
nic_poll_done ==
  /\ nicNapi.state = "polling"
  /\ nicStats' = Count1(nicStats)
  /\ owned' = owned \ {nicSkb}
  /\ nicSkb' = NULL
  /\ nicNapi' = nic_poll_result(nicNapi)
  /\ UNCHANGED <<txRing, rxRing, hw, nicDev, holder, oops>>
-----------------------------------------------------------------------------
\* After nic_init: the memory of the private area is zeroed, the interface is
\* registered and down, its NAPI instance is added and not enabled.
NicInit ==
  /\ tx_drv = 0 /\ tx_nic = 0 /\ tx_ring_buffer = [ i \in TxSlots |-> NULL ]
  /\ rx_drv = 0 /\ rx_nic = 0 /\ rx_ring_buffer = [ i \in RxSlots |-> NULL ]
  /\ handler = FALSE /\ nic_ready = FALSE /\ nic_intr_enabled = FALSE
  /\ nicDev = "down" /\ nicNapi = netif_napi_add /\ nicSkb = NULL
  /\ holder = "none" /\ nicStats = 0
  /\ owned = {} /\ oops = FALSE

NicTypeOK ==
  /\ tx_drv \in TxSlots /\ tx_nic \in TxSlots
  /\ tx_ring_buffer \in [ TxSlots -> Skb \cup {NULL} ]
  /\ rx_drv \in RxSlots /\ rx_nic \in RxSlots
  /\ rx_ring_buffer \in [ RxSlots -> Skb \cup {NULL} ]
  /\ handler \in BOOLEAN /\ nic_ready \in BOOLEAN
  /\ nic_intr_enabled \in BOOLEAN
  /\ nicDev \in {"down", "up", "closing"} /\ nicNapi \in Instance
  /\ nicSkb \in Skb \cup {NULL} /\ nicStats \in 0 .. StatMax
  /\ holder \in {"none", "raise", "handler", "openCheck", "pollCheck"}
  /\ owned \in SUBSET Skb /\ oops \in BOOLEAN
=============================================================================
