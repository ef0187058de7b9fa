------------------------------ MODULE PndProps ------------------------------
(***************************************************************************)
(* What the driver and the card of P04_vnic promise: safety, refinement    *)
(* of the abstract link of VnicLink, and liveness.                         *)
(***************************************************************************)
EXTENDS Pnd

\* A skb is held by exactly one party: the drivers own what is in the two
\* rings' windows or in the hands of nic_poll, and each of those once.  No
\* skb leaks when pnd_close flushes the rings (nic_cleanup_buffers), and none
\* is freed or delivered twice.
SkbOwnedOnce ==
  /\ owned = { tx_ring_buffer[i] : i \in TxWindow }
               \cup { rx_ring_buffer[i] : i \in RxWindow }
               \cup ({nicSkb} \ {NULL})
  /\ \A i, j \in TxWindow : tx_ring_buffer[i] = tx_ring_buffer[j] => i = j
  /\ \A i, j \in RxWindow : rx_ring_buffer[i] = rx_ring_buffer[j] => i = j
  /\ \A i \in TxWindow, j \in RxWindow : tx_ring_buffer[i] # rx_ring_buffer[j]
  /\ \A i \in TxWindow : tx_ring_buffer[i] # nicSkb
  /\ \A i \in RxWindow : rx_ring_buffer[i] # nicSkb

\* In both rings exactly the slots of the window are filled: nic_poll never
\* reads the length of a missing packet (nic.c:230), and no pointer to a skb
\* that was handed on stays behind.
TxWindowFilled == \A i \in TxSlots : (tx_ring_buffer[i] # NULL) <=> i \in TxWindow
RxWindowFilled == \A i \in RxSlots : (rx_ring_buffer[i] # NULL) <=> i \in RxWindow
RingsFilled    == TxWindowFilled /\ RxWindowFilled /\ ~oops

\* How the progress of pnd_open and pnd_close goes with the state of the card,
\* of NAPI and of the interrupt path: the inductive form of the properties
\* below.  It is the order of the calls in pnd_open and pnd_close, with the
\* waiting in nic_unregister_handler (for the lock) and in napi_disable (for
\* the poll), that makes it true.
Handshake ==
  /\ nic_ready <=> pndDev \in {"nic_hw_enable_intr", "nic_hw_check_intr", "up",
                               "nic_hw_clear_ready"}
  /\ handler <=> pndDev \in {"nic_hw_set_ready", "nic_hw_enable_intr",
                              "nic_hw_check_intr", "up", "nic_hw_clear_ready",
                              "nic_unregister_handler"}
  /\ pndNapi.state = "off" <=> pndDev \in {"down", "napi_enable", "nic_cleanup_buffers"}
  /\ pndNapi.disabling <=> pndDev = "napi_disable_wait"
  /\ pndNapi.state = "polling" <=> pndPoll # "idle"
  /\ holder # "none" => pndDev \in {"nic_hw_enable_intr", "nic_hw_check_intr", "up",
                                    "nic_hw_clear_ready", "nic_unregister_handler"}
  /\ holder = "openCheck" => pndDev = "nic_hw_check_intr"
  /\ pndXmit # "idle" => pndDev = "up"
  /\ pndDev \in {"down", "napi_enable", "nic_register_handler", "nic_hw_set_ready"} =>
       TxEmpty /\ RxEmpty

\* Once pnd_close has returned nothing of the driver is left running: the
\* card is not ready, no handler is registered, the rings are empty, NAPI is
\* off, and neither a poll nor a transmit nor the card's interrupt is under
\* way.  It is what makes the next pnd_open, and unloading, safe.
QuiescentWhenDown ==
  pndDev = "down" =>
    /\ ~nic_ready /\ ~handler
    /\ TxEmpty /\ RxEmpty
    /\ pndNapi.state = "off" /\ ~pndNapi.disabling
    /\ pndPoll = "idle" /\ pndXmit = "idle" /\ holder = "none"

\* An interrupt is never lost on a driver that is not listening: when the
\* handler asks for a poll, NAPI is enabled and not being disabled, although
\* pnd_open and pnd_close race with nic_start_xmit.
InterruptIsHeard ==
  holder \in InHandler => pndNapi.state # "off" /\ ~pndNapi.disabling

\* While the driver is up and the card's interrupt is masked, somebody is on
\* the way to unmask it: the handler, a scheduled or running poll, or a poll
\* between napi_complete and nic_hw_enable_intr.
NoDeafDriver ==
  pndDev = "up" /\ ~nic_intr_enabled =>
    \/ holder \in InHandler
    \/ pndNapi.state \in {"queued", "polling"}
    \/ unmasking > 0

\* With nic.c compiled with TODO, no packet lies in the ring of a driver that
\* is up without somebody on the way to it: nic_start_xmit before it raises
\* the interrupt, the handler, a scheduled or running poll, or a call of
\* nic_hw_enable_intr that has yet to look for packets (nic.c:385-395).
PacketIsNoticed ==
  WithTODO /\ pndDev = "up" /\ ~RxEmpty =>
    \/ holder \in InHandler \cup {"raise"}
    \/ pndNapi.state \in {"queued", "polling"}
    \/ unmasking > 0 \/ checking > 0

\* The statistics of an interface that is down are zero: no late poll or
\* transmit counts after the memset in pnd_close or nic_close.
StatsClearedWhenDown ==
  /\ pndDev = "down" => pndStats = 0
  /\ nicDev = "down" => nicStats = 0

\* The card's interrupt enable changes only while the card is ready:
\* nic.c:57-58 wants all NIC operations to depend on nic_ready.
IntrChangesOnlyWhenReady ==
  [][nic_intr_enabled' # nic_intr_enabled => nic_ready]_vars
-----------------------------------------------------------------------------
(* Refinement: the driver and the card implement the link of VnicLink. *)

TxQueue == Queue(tx_ring_buffer, tx_nic, tx_drv, NUM_TX_DESC)
RxQueue == Queue(rx_ring_buffer, rx_drv, rx_nic, NUM_RX_DESC)

Link == INSTANCE VnicLink WITH
          TxCap <- NUM_TX_DESC - 1, RxCap <- NUM_RX_DESC - 1,
          up <- nic_ready, txq <- TxQueue, rxq <- RxQueue, out <- nicSkb

\* Every step of the driver and the card is a step of the abstract link or
\* leaves it alone: packets are neither lost, duplicated nor reordered on
\* their way through the rings, and are flushed only by a driver going down.
ImplementsLink == Link!LinkSpec
-----------------------------------------------------------------------------
(* Liveness, under FairSpec. *)

\* The RTNL lock is always given back: pnd_open, pnd_close and nic_close
\* terminate; in particular napi_disable does not wait for ever.
RtnlReleased == ~RtnlFree ~> RtnlFree

InRxRing(skb) == \E i \in RxWindow : rx_ring_buffer[i] = skb
InTxRing(skb) == \E i \in TxWindow : tx_ring_buffer[i] = skb

\* Every packet that is in the receive ring when the card interrupts the
\* driver leaves the ring, whatever poll is running or being disabled then.
RxInterruptDrains ==
  \A skb \in Skb : holder \in InHandler /\ InRxRing(skb) ~> ~InRxRing(skb)

\* Once the driver stays up and its receive ring stays empty, the interrupt
\* is unmasked for good.
InterruptReturns ==
  <>[](pndDev = "up" /\ RxEmpty) => <>[]nic_intr_enabled

\* A packet in the receive ring does not wait for the next packet to be
\* noticed: nic.c:386 says that enabling the interrupt checks for packets in
\* the ring and calls the handler for them.  True of the card compiled with
\* TODO defined, and false of it as the Makefile compiles it.
RxServed ==
  \A skb \in Skb : pndDev = "up" /\ InRxRing(skb) ~>
                      pndDev # "up" \/ ~InRxRing(skb)

\* With the "nic" interface up, a packet in the transmit ring is taken by a
\* poll: nic.c:248 says that NAPI is scheduled for every packet.
TxServed ==
  [](pndDev # "down" => nicDev = "up") =>
    \A skb \in Skb : pndDev = "up" /\ InTxRing(skb) ~>
                        pndDev # "up" \/ ~InTxRing(skb)
=============================================================================================================================================
