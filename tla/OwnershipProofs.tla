-------------------------- MODULE OwnershipProofs ---------------------------
(***************************************************************************)
(* With the TODO slots of nic.c filled in, every skb is held exactly once: *)
(* no leak, no double free, no missing packet, whatever the sizes of the   *)
(* rings and however transmits, polls, pnd_open and pnd_close interleave.  *)
(* And the statistics of an interface that is down are zero.  From the     *)
(* same invariant, the driver and the card implement the link of VnicLink. *)
(***************************************************************************)
EXTENDS PndProofs

\* SkbOwnedOnce, its first part stated skb by skb.
Accounted ==
  \A s : s \in owned <=> \/ \E i \in TxWindow : tx_ring_buffer[i] = s
                         \/ \E i \in RxWindow : rx_ring_buffer[i] = s
                         \/ s = nicSkb /\ s # NULL

Distinct ==
  /\ \A i, j \in TxWindow : tx_ring_buffer[i] = tx_ring_buffer[j] => i = j
  /\ \A i, j \in RxWindow : rx_ring_buffer[i] = rx_ring_buffer[j] => i = j
  /\ \A i \in TxWindow, j \in RxWindow : tx_ring_buffer[i] # rx_ring_buffer[j]
  /\ \A i \in TxWindow : tx_ring_buffer[i] # nicSkb
  /\ \A i \in RxWindow : rx_ring_buffer[i] # nicSkb

OwnInv == TxWindowFilled /\ RxWindowFilled /\ Accounted /\ Distinct /\ ~oops

\* nic_poll has a packet in hand only while it runs, and it does not run
\* while the "nic" interface is down.
NicPollInv ==
  /\ nicSkb # NULL => nicNapi.state = "polling"
  /\ nicDev = "down" <=> nicNapi.state = "off"

OwnershipInv == HandshakeInv /\ OwnInv /\ NicPollInv

LEMMA NicPollStep == HandshakeInv /\ NicPollInv /\ [Next]_vars => NicPollInv'
<1> SUFFICES ASSUME HandshakeInv, NicPollInv, [Next]_vars PROVE NicPollInv'
  OBVIOUS
<1>0. nicNapi \in Instance
  BY DEF HandshakeInv, TypeInv, TypeOK, NicTypeOK
<1> USE DEF NicPollInv
<1>1. ASSUME NicOpen PROVE NicPollInv'
  BY <1>1, <1>0 DEF NicOpen, nic_open, napi_enable, Instance
<1>2. ASSUME NicClose PROVE NicPollInv'
  BY <1>2, <1>0 DEF NicClose, nic_close_begin, napi_disable_begin, Instance
<1>3. ASSUME NicCloseEnd PROVE NicPollInv'
  BY <1>3, <1>0 DEF NicCloseEnd, nic_close_end, napi_disabled, napi_disable_end, Instance
<1>4. ASSUME nic_poll_take PROVE NicPollInv'
  BY <1>4, <1>0 DEF nic_poll_take, napi_start_poll, Instance
<1>5. ASSUME nic_poll_done PROVE NicPollInv'
  BY <1>5, <1>0 DEF nic_poll_done, nic_poll_result, napi_complete, napi_repoll, Instance
<1>6. ASSUME pnd_start_xmit_schedule PROVE NicPollInv'
  BY <1>6, <1>0 DEF card, pndIo, pnd_start_xmit_schedule, napi_schedule, Instance
<1>7. ASSUME UNCHANGED <<nicSkb, nicNapi, nicDev>> PROVE NicPollInv'
  BY <1>7
<1>8. ASSUME \/ pnd_open_setup \/ PndOpenRest \/ pnd_close_intr \/ PndCloseRest
             \/ \E skb \in Skb : pnd_start_xmit(skb)
      PROVE  UNCHANGED <<nicSkb, nicNapi, nicDev>>
  BY <1>8 DEF card, pndIo, pnd_open_setup, PndOpenRest, pnd_open_napi, pnd_open_register,
       pnd_open_ready, pnd_open_intr, pnd_open_check, nic_hw_check_intr,
       pnd_close_intr, PndCloseRest,
       pnd_close_ready, pnd_close_unregister, pnd_close_napi, pnd_close_wait,
       pnd_close_cleanup, pnd_start_xmit, nicVars, nicIf
<1>9. ASSUME \/ PndPoll \/ pnd_poll_unmask \/ pnd_poll_check \/ \E skb \in Skb : NicXmit(skb)
             \/ NicXmitQuiet \/ handler_mask \/ handler_schedule \/ UNCHANGED vars
      PROVE  UNCHANGED <<nicSkb, nicNapi, nicDev>>
  BY <1>9 DEF card, pndIo, PndPoll, pnd_poll_start, pnd_poll_rx, pnd_poll_complete,
       pnd_poll_budget, pnd_poll_unmask, pnd_poll_check, nic_hw_check_intr, NicXmit, nic_start_xmit, NicXmitQuiet,
       nic_start_xmit_quiet, handler_mask, handler_schedule, vars, nicVars, nicIf, pndVars
<1>10. QED
  BY <1>1, <1>2, <1>3, <1>4, <1>5, <1>6, <1>7, <1>8, <1>9 DEF Next, NicPoll
-----------------------------------------------------------------------------
(* The steps that move skbs. *)

\* The windows after filling and after emptying a slot.
LEMMA Windows ==
  ASSUME HandshakeInv
  PROVE  /\ ~Full(tx_nic, tx_drv, NUM_TX_DESC) =>
              /\ tx_drv \notin TxWindow
              /\ Window(tx_nic, NextSlot(tx_drv, NUM_TX_DESC), NUM_TX_DESC)
                   = TxWindow \cup {tx_drv}
         /\ ~Full(rx_drv, rx_nic, NUM_RX_DESC) =>
              /\ rx_nic \notin RxWindow
              /\ Window(rx_drv, NextSlot(rx_nic, NUM_RX_DESC), NUM_RX_DESC)
                   = RxWindow \cup {rx_nic}
         /\ ~TxEmpty =>
              /\ tx_nic \in TxWindow
              /\ Window(NextSlot(tx_nic, NUM_TX_DESC), tx_drv, NUM_TX_DESC)
                   = TxWindow \ {tx_nic}
         /\ ~RxEmpty =>
              /\ rx_drv \in RxWindow
              /\ Window(NextSlot(rx_drv, NUM_RX_DESC), rx_nic, NUM_RX_DESC)
                   = RxWindow \ {rx_drv}
         /\ TxEmpty => TxWindow = {}
         /\ RxEmpty => RxWindow = {}
<1>1. /\ tx_drv \in Slots(NUM_TX_DESC) /\ tx_nic \in Slots(NUM_TX_DESC)
      /\ rx_drv \in Slots(NUM_RX_DESC) /\ rx_nic \in Slots(NUM_RX_DESC)
  BY DEF HandshakeInv, TypeInv, TypeOK, NicTypeOK, TxSlots, RxSlots
<1>2. NUM_TX_DESC \in Nat \ {0} /\ NUM_RX_DESC \in Nat \ {0}
  BY NicAssumption
<1>3. QED
  BY <1>1, <1>2, PutWindow, TakeWindow, EmptyWindow
     DEF TxWindow, RxWindow, TxEmpty, RxEmpty

\* What every step may rely on.
LEMMA SlotTypes ==
  ASSUME HandshakeInv
  PROVE  /\ tx_drv \in TxSlots /\ tx_nic \in TxSlots
         /\ rx_drv \in RxSlots /\ rx_nic \in RxSlots
         /\ TxWindow \subseteq TxSlots /\ RxWindow \subseteq RxSlots
         /\ tx_ring_buffer \in [ TxSlots -> Skb \cup {NULL} ]
         /\ rx_ring_buffer \in [ RxSlots -> Skb \cup {NULL} ]
         /\ NULL \notin Skb /\ owned \subseteq Skb
BY NicAssumption DEF HandshakeInv, TypeInv, TypeOK, NicTypeOK, TxWindow, RxWindow,
   Window, TxSlots, RxSlots

LEMMA DriverXmit ==
  ASSUME HandshakeInv, OwnInv, TodoFilled, NEW skb \in Skb, pnd_start_xmit(skb)
  PROVE  OwnInv'
<1>1. CASE TxAccepts
  <2>1. /\ tx_drv \notin TxWindow /\ TxWindow' = TxWindow \cup {tx_drv}
        /\ tx_ring_buffer' = [ tx_ring_buffer EXCEPT ![tx_drv] = skb ]
        /\ RxWindow' = RxWindow
        /\ UNCHANGED <<rx_ring_buffer, nicSkb, oops>>
        /\ owned' = owned \cup {skb} /\ skb \notin owned
    BY <1>1, Windows DEF card, pndIo, pnd_start_xmit, TxAccepts, nic_hw_tx_pkt, TxPutSlot,
       TxWindow, RxWindow, rxRing, nicIf
  <2>2. TxWindowFilled' /\ RxWindowFilled'
    BY <2>1, SlotTypes DEF OwnInv, TxWindowFilled, RxWindowFilled
  <2>3. Accounted'
    BY <2>1, SlotTypes DEF OwnInv, Accounted
  <2>4. Distinct'
    BY <2>1, SlotTypes DEF OwnInv, Accounted, Distinct
  <2>5. QED
    BY <2>1, <2>2, <2>3, <2>4 DEF OwnInv
<1>2. CASE ~TxAccepts
  BY <1>2 DEF card, pndIo, pnd_start_xmit, OwnInv, TxWindowFilled, RxWindowFilled, Accounted,
     Distinct, TxWindow, RxWindow, txRing, rxRing, nicIf
<1>3. QED
  BY <1>1, <1>2

LEMMA PeerXmit ==
  ASSUME HandshakeInv, OwnInv, NEW skb \in Skb, NicXmit(skb)
  PROVE  OwnInv'
<1>1. CASE RxAccepts
  <2>1. /\ rx_nic \notin RxWindow /\ RxWindow' = RxWindow \cup {rx_nic}
        /\ rx_ring_buffer' = [ rx_ring_buffer EXCEPT ![rx_nic] = skb ]
        /\ TxWindow' = TxWindow
        /\ UNCHANGED <<tx_ring_buffer, nicSkb, oops>>
        /\ owned' = owned \cup {skb} /\ skb \notin owned
    BY <1>1, Windows DEF NicXmit, nic_start_xmit, RxAccepts, TxWindow, RxWindow, txRing
  <2>2. TxWindowFilled' /\ RxWindowFilled'
    BY <2>1, SlotTypes DEF OwnInv, TxWindowFilled, RxWindowFilled
  <2>3. Accounted'
    BY <2>1, SlotTypes DEF OwnInv, Accounted
  <2>4. Distinct'
    BY <2>1, SlotTypes DEF OwnInv, Accounted, Distinct
  <2>5. QED
    BY <2>1, <2>2, <2>3, <2>4 DEF OwnInv
<1>2. CASE ~RxAccepts
  BY <1>2 DEF NicXmit, nic_start_xmit, OwnInv, TxWindowFilled, RxWindowFilled,
     Accounted, Distinct, TxWindow, RxWindow, txRing
<1>3. QED
  BY <1>1, <1>2

LEMMA DriverPoll ==
  ASSUME HandshakeInv, OwnInv, TodoFilled, pnd_poll_rx
  PROVE  OwnInv'
<1>1. CASE RxEmpty
  BY <1>1 DEF card, pndIo, pnd_poll_rx, OwnInv, TxWindowFilled, RxWindowFilled, Accounted,
     Distinct, TxWindow, RxWindow, txRing, rxRing, nicIf
<1>2. CASE ~RxEmpty
  <2>1. rx_drv \in RxWindow /\ RxHead \in Skb
    BY <1>2, Windows, SlotTypes DEF OwnInv, RxWindowFilled, RxHead
  <2>2. /\ RxWindow' = RxWindow \ {rx_drv}
        /\ rx_ring_buffer' = [ rx_ring_buffer EXCEPT ![rx_drv] = NULL ]
        /\ TxWindow' = TxWindow
        /\ UNCHANGED <<tx_ring_buffer, nicSkb, oops>>
        /\ owned' = owned \ {rx_ring_buffer[rx_drv]}
    BY <1>2, <2>1, Windows, SlotTypes DEF card, pndIo, pnd_poll_rx, nic_hw_rx_pkt, RxClearSlot,
       RxHead, TxWindow, RxWindow, txRing, nicIf
  <2>3. TxWindowFilled' /\ RxWindowFilled'
    BY <2>1, <2>2, SlotTypes DEF OwnInv, TxWindowFilled, RxWindowFilled
  <2>4. Accounted'
    BY <2>1, <2>2, SlotTypes DEF OwnInv, Accounted, Distinct
  <2>5. Distinct'
    BY <2>1, <2>2, SlotTypes DEF OwnInv, Distinct
  <2>6. QED
    BY <2>2, <2>3, <2>4, <2>5 DEF OwnInv
<1>3. QED
  BY <1>1, <1>2

LEMMA PeerPoll ==
  ASSUME HandshakeInv, OwnInv, NicPollInv, nic_poll_take
  PROVE  OwnInv'
<1>0. nicSkb = NULL
  BY DEF NicPollInv, nic_poll_take
<1>1. CASE TxEmpty
  BY <1>0, <1>1 DEF nic_poll_take, OwnInv, TxWindowFilled, RxWindowFilled,
     Accounted, Distinct, TxWindow, RxWindow, txRing, rxRing
<1>2. CASE ~TxEmpty
  <2>1. tx_nic \in TxWindow /\ tx_ring_buffer[tx_nic] \in Skb
    BY <1>2, Windows, SlotTypes DEF OwnInv, TxWindowFilled
  <2>2. /\ TxWindow' = TxWindow \ {tx_nic}
        /\ tx_ring_buffer' = [ tx_ring_buffer EXCEPT ![tx_nic] = NULL ]
        /\ RxWindow' = RxWindow
        /\ UNCHANGED <<rx_ring_buffer, owned, oops>>
        /\ nicSkb' = tx_ring_buffer[tx_nic]
    BY <1>2, <2>1, Windows, SlotTypes DEF nic_poll_take, TxWindow, RxWindow, rxRing
  <2>3. TxWindowFilled' /\ RxWindowFilled'
    BY <2>1, <2>2, SlotTypes DEF OwnInv, TxWindowFilled, RxWindowFilled
  <2>4. Accounted'
    BY <1>0, <2>1, <2>2, SlotTypes DEF OwnInv, Accounted
  <2>5. Distinct'
    BY <2>1, <2>2, SlotTypes DEF OwnInv, Distinct
  <2>6. QED
    BY <2>2, <2>3, <2>4, <2>5 DEF OwnInv
<1>3. QED
  BY <1>1, <1>2

LEMMA PeerDeliver ==
  ASSUME HandshakeInv, OwnInv, nic_poll_done
  PROVE  OwnInv'
<1>1. /\ TxWindow' = TxWindow /\ RxWindow' = RxWindow
      /\ UNCHANGED <<tx_ring_buffer, rx_ring_buffer, oops>>
      /\ nicSkb' = NULL /\ owned' = owned \ {nicSkb}
  BY DEF nic_poll_done, TxWindow, RxWindow, txRing, rxRing
<1>2. TxWindowFilled' /\ RxWindowFilled'
  BY <1>1 DEF OwnInv, TxWindowFilled, RxWindowFilled
<1>3. Accounted'
  BY <1>1, SlotTypes DEF OwnInv, Accounted, Distinct
<1>4. Distinct'
  BY <1>1, SlotTypes DEF OwnInv, Distinct, TxWindowFilled, RxWindowFilled
<1>5. QED
  BY <1>1, <1>2, <1>3, <1>4 DEF OwnInv

\* nic_setup_buffers overwrites the rings without freeing: right, because an
\* interface that is down has left them empty.
LEMMA Setup ==
  ASSUME HandshakeInv, OwnInv, pnd_open_setup
  PROVE  OwnInv'
<1>1. TxWindow = {} /\ RxWindow = {}
  BY Windows DEF HandshakeInv, Handshake, pnd_open_setup
<1>2. TxWindow' = {} /\ RxWindow' = {}
  BY NicAssumption, EmptyWindow, SMT DEF card, pndIo, pnd_open_setup, nic_setup_buffers,
     TxWindow, RxWindow, Slots
<1>3. /\ tx_ring_buffer' = [ i \in TxSlots |-> NULL ]
      /\ rx_ring_buffer' = [ i \in RxSlots |-> NULL ]
      /\ UNCHANGED <<nicSkb, owned, oops>>
  BY DEF card, pndIo, pnd_open_setup, nic_setup_buffers, nicIf
<1>4. QED
  BY <1>1, <1>2, <1>3 DEF OwnInv, TxWindowFilled, RxWindowFilled, Accounted, Distinct

\* nic_cleanup_buffers frees what is in the windows and nothing else.
LEMMA Cleanup ==
  ASSUME HandshakeInv, OwnInv, pnd_close_cleanup
  PROVE  OwnInv'
<1>1. TxWindow' = {} /\ RxWindow' = {}
  BY NicAssumption, EmptyWindow, SMT DEF card, pndIo, pnd_close_cleanup, nic_cleanup_buffers,
     TxWindow, RxWindow, Slots
<1>2. /\ tx_ring_buffer' = [ i \in TxSlots |-> NULL ]
      /\ rx_ring_buffer' = [ i \in RxSlots |-> NULL ]
      /\ UNCHANGED <<nicSkb, oops>>
      /\ \A s : s \in owned' <=> /\ s \in owned
                                 /\ \A i \in TxWindow : tx_ring_buffer[i] # s
                                 /\ \A i \in RxWindow : rx_ring_buffer[i] # s
  BY SlotTypes DEF card, pndIo, pnd_close_cleanup, nic_cleanup_buffers, nicIf, OwnInv,
     TxWindowFilled, RxWindowFilled
<1>3. TxWindowFilled' /\ RxWindowFilled' /\ Distinct'
  BY <1>1, <1>2 DEF TxWindowFilled, RxWindowFilled, Distinct
<1>4. Accounted'
  BY <1>1, <1>2 DEF OwnInv, Accounted, Distinct
<1>5. QED
  BY <1>2, <1>3, <1>4 DEF OwnInv
-----------------------------------------------------------------------------
(* The invariant. *)

\* The other steps leave the rings and the skbs alone.
LEMMA OtherSteps ==
  ASSUME OwnInv, UNCHANGED <<txRing, rxRing, nicSkb, owned, oops>>
  PROVE  OwnInv'
BY DEF OwnInv, TxWindowFilled, RxWindowFilled, Accounted, Distinct, TxWindow,
   RxWindow, txRing, rxRing

LEMMA OwnershipStep ==
  ASSUME TodoFilled
  PROVE  OwnershipInv /\ [Next]_vars => OwnershipInv'
<1> SUFFICES ASSUME OwnershipInv, [Next]_vars PROVE OwnInv'
  BY HandshakeStep, NicPollStep DEF OwnershipInv
<1>0. HandshakeInv /\ OwnInv /\ NicPollInv
  BY DEF OwnershipInv
<1>1. ASSUME pnd_open_setup PROVE OwnInv'
  BY <1>0, <1>1, Setup
<1>2. ASSUME pnd_close_cleanup PROVE OwnInv'
  BY <1>0, <1>2, Cleanup
<1>3. ASSUME NEW skb \in Skb, pnd_start_xmit(skb) PROVE OwnInv'
  BY <1>0, <1>3, DriverXmit
<1>4. ASSUME NEW skb \in Skb, NicXmit(skb) PROVE OwnInv'
  BY <1>0, <1>4, PeerXmit
<1>5. ASSUME pnd_poll_rx PROVE OwnInv'
  BY <1>0, <1>5, DriverPoll
<1>6. ASSUME nic_poll_take PROVE OwnInv'
  BY <1>0, <1>6, PeerPoll
<1>7. ASSUME nic_poll_done PROVE OwnInv'
  BY <1>0, <1>7, PeerDeliver
<1>8. ASSUME \/ PndOpenRest \/ pnd_close_intr \/ pnd_close_ready
             \/ pnd_close_unregister \/ pnd_close_napi \/ pnd_close_wait
             \/ pnd_start_xmit_schedule
      PROVE  UNCHANGED <<txRing, rxRing, nicSkb, owned, oops>>
  BY <1>8 DEF card, pndIo, PndOpenRest, pnd_open_napi, pnd_open_register, pnd_open_ready,
     pnd_open_intr, pnd_open_check, nic_hw_check_intr, pnd_close_intr,
     pnd_close_ready, pnd_close_unregister, pnd_close_napi, pnd_close_wait,
     pnd_start_xmit_schedule, nicVars, nicIf
<1>9. ASSUME \/ pnd_poll_start \/ pnd_poll_complete \/ pnd_poll_budget
             \/ pnd_poll_unmask \/ pnd_poll_check \/ NicXmitQuiet \/ handler_mask
             \/ handler_schedule \/ NicOpen \/ NicClose \/ NicCloseEnd
             \/ UNCHANGED vars
      PROVE  UNCHANGED <<txRing, rxRing, nicSkb, owned, oops>>
  BY <1>9 DEF card, pndIo, pnd_poll_start, pnd_poll_complete, pnd_poll_budget, pnd_poll_unmask,
     pnd_poll_check, nic_hw_check_intr,
     NicXmitQuiet, nic_start_xmit_quiet, handler_mask, handler_schedule, NicOpen,
     nic_open, NicClose, nic_close_begin, NicCloseEnd, nic_close_end, vars,
     nicVars, nicIf
<1>10. QED
  BY <1>0, <1>1, <1>2, <1>3, <1>4, <1>5, <1>6, <1>7, <1>8, <1>9, OtherSteps
     DEF Next, PndCloseRest, PndPoll, NicPoll

LEMMA InitOwnership == Init => OwnershipInv
<1> SUFFICES ASSUME Init PROVE OwnInv /\ NicPollInv
  BY InitHandshakeInv DEF OwnershipInv
<1>1. TxWindow = {} /\ RxWindow = {}
  BY NicAssumption, EmptyWindow, SMT DEF Init, NicInit, TxWindow, RxWindow, Slots
<1>2. QED
  BY <1>1 DEF Init, NicInit, OwnInv, TxWindowFilled, RxWindowFilled, Accounted,
     Distinct, NicPollInv, netif_napi_add

\* OWNED ONCE.  With the TODO slots filled in, the skbs that the drivers hold
\* are those in the windows of the rings and in the hands of nic_poll, each
\* exactly once: none leaks through pnd_close or a refused transmit, and none
\* is freed or delivered twice.
THEOREM OwnedOnce ==
  ASSUME TodoFilled
  PROVE  Spec => []SkbOwnedOnce
<1>1. OwnershipInv => SkbOwnedOnce
  BY DEF OwnershipInv, OwnInv, Accounted, Distinct, SkbOwnedOnce
<1>2. QED
  BY <1>1, InitOwnership, OwnershipStep, PTL DEF Spec

\* NO MISSING PACKET.  With the TODO slots filled in, exactly the slots of the
\* windows are filled, so that nic_poll never dereferences a null skb.
THEOREM NoMissingPacket ==
  ASSUME TodoFilled
  PROVE  Spec => []RingsFilled
<1>1. OwnershipInv => RingsFilled
  BY DEF OwnershipInv, OwnInv, RingsFilled
<1>2. QED
  BY <1>1, InitOwnership, OwnershipStep, PTL DEF Spec
-----------------------------------------------------------------------------
(* The statistics. *)

StatsInv == HandshakeInv /\ NicPollInv /\ StatsClearedWhenDown

LEMMA StatsStep == StatsInv /\ [Next]_vars => StatsInv'
<1> SUFFICES ASSUME StatsInv, [Next]_vars PROVE StatsClearedWhenDown'
  BY HandshakeStep, NicPollStep DEF StatsInv
<1>h. Handshake /\ NicPollInv
  BY DEF StatsInv, HandshakeInv
<1> USE DEF StatsInv, StatsClearedWhenDown
\* The two closes clear them.
<1>1. ASSUME pnd_close_cleanup PROVE StatsClearedWhenDown'
  BY <1>1 DEF pnd_close_cleanup, nicIf
<1>2. ASSUME NicCloseEnd PROVE StatsClearedWhenDown'
  BY <1>2 DEF NicCloseEnd, nic_close_end, pndVars, pndIo
\* Whoever counts, does so while the interface is not down.
<1>3. ASSUME NEW skb \in Skb, pnd_start_xmit(skb) PROVE StatsClearedWhenDown'
  BY <1>3 DEF pnd_start_xmit, nicIf
<1>4. ASSUME pnd_start_xmit_schedule PROVE StatsClearedWhenDown'
  BY <1>4, <1>h DEF pnd_start_xmit_schedule, Handshake
<1>5. ASSUME NEW skb \in Skb, NicXmit(skb) PROVE StatsClearedWhenDown'
  BY <1>5 DEF NicXmit, nic_start_xmit, pndVars, pndIo
<1>6. ASSUME pnd_poll_rx PROVE StatsClearedWhenDown'
  BY <1>6, <1>h DEF pnd_poll_rx, Handshake, nicIf
<1>7. ASSUME nic_poll_done, UNCHANGED pndVars PROVE StatsClearedWhenDown'
  BY <1>7, <1>h DEF nic_poll_done, NicPollInv, pndVars, pndIo
\* The other steps do not count, and take no interface down.
<1>8. ASSUME \/ pnd_open_setup \/ PndOpenRest \/ pnd_close_intr \/ pnd_close_ready
             \/ pnd_close_unregister \/ pnd_close_napi \/ pnd_close_wait
      PROVE  StatsClearedWhenDown'
  BY <1>8 DEF card, pndIo, pnd_open_setup, PndOpenRest, pnd_open_napi, pnd_open_register,
     pnd_open_ready, pnd_open_intr, pnd_open_check, nic_hw_check_intr,
     pnd_close_intr, pnd_close_ready, pnd_close_unregister, pnd_close_napi, pnd_close_wait, nicVars, nicIf
<1>9. ASSUME \/ pnd_poll_start \/ pnd_poll_complete \/ pnd_poll_budget
             \/ pnd_poll_unmask \/ pnd_poll_check \/ NicXmitQuiet \/ handler_mask
             \/ handler_schedule \/ UNCHANGED vars
      PROVE  StatsClearedWhenDown'
  BY <1>9 DEF card, pndIo, pnd_poll_start, pnd_poll_complete, pnd_poll_budget,
     pnd_poll_unmask, pnd_poll_check, nic_hw_check_intr, NicXmitQuiet,
     nic_start_xmit_quiet, handler_mask, handler_schedule, vars, nicVars, nicIf, pndVars
<1>10. ASSUME NicOpen \/ NicClose \/ (nic_poll_take /\ UNCHANGED pndVars)
      PROVE  StatsClearedWhenDown'
  BY <1>10 DEF NicOpen, nic_open, NicClose, nic_close_begin, nic_poll_take, pndVars, pndIo
<1>11. QED
  BY <1>1, <1>2, <1>3, <1>4, <1>5, <1>6, <1>7, <1>8, <1>9, <1>10
     DEF Next, PndCloseRest, PndPoll, NicPoll

\* STATISTICS CLEARED.  The statistics of an interface that is down are zero:
\* no poll and no transmit counts after the memset in pnd_close or nic_close.
THEOREM StatsCleared == Spec => []StatsClearedWhenDown
<1>1. Init => StatsInv
  BY InitHandshakeInv DEF StatsInv, StatsClearedWhenDown, NicPollInv, Init, NicInit,
     netif_napi_add
<1>2. StatsInv => StatsClearedWhenDown
  BY DEF StatsInv
<1>3. QED
  BY <1>1, <1>2, StatsStep, PTL DEF Spec
-----------------------------------------------------------------------------
(* The link: every step of the driver and the card is one of VnicLink's.   *)

\* The queues behind the rings hold skbs, as many as there are in the rings.
LEMMA Queues ==
  ASSUME OwnershipInv
  PROVE  /\ TxQueue \in Seq(Skb) /\ RxQueue \in Seq(Skb)
         /\ Len(TxQueue) = Count(tx_nic, tx_drv, NUM_TX_DESC)
         /\ Len(RxQueue) = Count(rx_drv, rx_nic, NUM_RX_DESC)
         /\ DOMAIN TxQueue = 1 .. Count(tx_nic, tx_drv, NUM_TX_DESC)
         /\ DOMAIN RxQueue = 1 .. Count(rx_drv, rx_nic, NUM_RX_DESC)
         /\ DOMAIN tx_ring_buffer = TxSlots /\ DOMAIN rx_ring_buffer = RxSlots
<1>1. /\ \A i \in TxWindow : tx_ring_buffer[i] \in Skb
      /\ \A i \in RxWindow : rx_ring_buffer[i] \in Skb
  BY SlotTypes DEF OwnershipInv, OwnInv, TxWindowFilled, RxWindowFilled
<1>2. /\ TxQueue \in Seq(Skb) /\ RxQueue \in Seq(Skb)
      /\ Len(TxQueue) = Count(tx_nic, tx_drv, NUM_TX_DESC)
      /\ Len(RxQueue) = Count(rx_drv, rx_nic, NUM_RX_DESC)
  BY <1>1, SlotTypes, NicAssumption, QueueType
     DEF OwnershipInv, TxQueue, RxQueue, TxWindow, RxWindow, TxSlots, RxSlots
<1>3. QED
  BY <1>2, SlotTypes DEF OwnershipInv, TxQueue, RxQueue, Queue

\* What the link holds, the drivers own.
LEMMA HeldIsOwned ==
  ASSUME OwnershipInv
  PROVE  \A skb \in Skb : skb \notin owned => skb \notin Link!Held
<1> SUFFICES ASSUME NEW skb \in Skb, skb \notin owned
             PROVE  skb \notin Link!Held
  OBVIOUS
<1>1. /\ \A i \in TxWindow : tx_ring_buffer[i] # skb
      /\ \A i \in RxWindow : rx_ring_buffer[i] # skb
      /\ skb # nicSkb
  BY SlotTypes DEF OwnershipInv, OwnInv, Accounted
<1>2. \A k \in DOMAIN TxQueue : TxQueue[k] # skb
  BY <1>1, Queues, SlotTypes, NicAssumption, OrderInWindow
     DEF OwnershipInv, TxQueue, Queue, TxWindow, TxSlots
<1>3. \A k \in DOMAIN RxQueue : RxQueue[k] # skb
  BY <1>1, Queues, SlotTypes, NicAssumption, OrderInWindow
     DEF OwnershipInv, RxQueue, Queue, RxWindow, RxSlots
<1>4. QED
  BY <1>1, <1>2, <1>3 DEF Link!Held

\* An interface whose rings are empty is the link with both queues empty.
LEMMA EmptyQueues ==
  ASSUME HandshakeInv
  PROVE  (TxEmpty => TxQueue = << >>) /\ (RxEmpty => RxQueue = << >>)
BY SlotTypes, NicAssumption, EmptyQueue
   DEF TxEmpty, RxEmpty, TxQueue, RxQueue, TxSlots, RxSlots

\* pnd_start_xmit appends its packet to the queue to the peer, or drops it.
LEMMA LinkDriverSends ==
  ASSUME OwnershipInv, TodoFilled, NEW skb \in Skb, pnd_start_xmit(skb)
  PROVE  Link!DriverSends(skb) \/ UNCHANGED Link!linkVars
<1>0. HandshakeInv
  BY DEF OwnershipInv
<1>1. CASE TxAccepts
  <2>1. /\ nic_ready /\ ~Full(tx_nic, tx_drv, NUM_TX_DESC)
        /\ tx_ring_buffer' = [ tx_ring_buffer EXCEPT ![tx_drv] = skb ]
        /\ tx_drv' = NextSlot(tx_drv, NUM_TX_DESC)
        /\ UNCHANGED <<tx_nic, rxRing, nic_ready, nicSkb>>
    BY <1>1 DEF pnd_start_xmit, TxAccepts, nic_hw_tx_pkt, TxPutSlot, hw, nicIf
  <2>2. TxQueue' = Append(TxQueue, skb)
    <3>1. PutAppends(tx_nic, tx_drv, NUM_TX_DESC)
      BY <1>0, <2>1, SlotTypes, NicAssumption, PutQueue DEF TxSlots
    <3>2. QED
      BY <2>1, <3>1, Queues, Zenon DEF PutAppends, TxQueue, TxSlots
  <2>3. Len(TxQueue) < NUM_TX_DESC - 1
    BY <1>0, <2>1, Queues, SlotTypes, NicAssumption, CountCases, SMT DEF TxSlots
  <2>4. RxQueue' = RxQueue
    BY <2>1 DEF RxQueue, rxRing
  <2>5. QED
    BY <2>1, <2>2, <2>3, <2>4, HeldIsOwned DEF Link!DriverSends, pnd_start_xmit
<1>2. CASE ~TxAccepts
  BY <1>2 DEF pnd_start_xmit, Link!linkVars, TxQueue, RxQueue, txRing, rxRing, hw, nicIf
<1>3. QED
  BY <1>1, <1>2

\* nic_start_xmit appends its packet to the queue to the driver, or drops it.
LEMMA LinkPeerSends ==
  ASSUME OwnershipInv, NEW skb \in Skb, NicXmit(skb)
  PROVE  Link!PeerSends(skb) \/ UNCHANGED Link!linkVars
<1>0. HandshakeInv
  BY DEF OwnershipInv
<1>1. CASE RxAccepts
  <2>1. /\ nic_ready /\ ~Full(rx_drv, rx_nic, NUM_RX_DESC)
        /\ rx_ring_buffer' = [ rx_ring_buffer EXCEPT ![rx_nic] = skb ]
        /\ rx_nic' = NextSlot(rx_nic, NUM_RX_DESC)
        /\ skb \notin owned
        /\ UNCHANGED <<rx_drv, txRing, nic_ready, nicSkb>>
    BY <1>1 DEF NicXmit, nic_start_xmit, RxAccepts, hw
  <2>2. RxQueue' = Append(RxQueue, skb)
    <3>1. PutAppends(rx_drv, rx_nic, NUM_RX_DESC)
      BY <1>0, <2>1, SlotTypes, NicAssumption, PutQueue DEF RxSlots
    <3>2. QED
      BY <2>1, <3>1, Queues, Zenon DEF PutAppends, RxQueue, RxSlots
  <2>3. Len(RxQueue) < NUM_RX_DESC - 1
    BY <1>0, <2>1, Queues, SlotTypes, NicAssumption, CountCases, SMT DEF RxSlots
  <2>4. TxQueue' = TxQueue
    BY <2>1 DEF TxQueue, txRing
  <2>5. QED
    BY <2>1, <2>2, <2>3, <2>4, HeldIsOwned DEF Link!PeerSends
<1>2. CASE ~RxAccepts
  BY <1>2 DEF NicXmit, nic_start_xmit, Link!linkVars, TxQueue, RxQueue, txRing, hw
<1>3. QED
  BY <1>1, <1>2

\* A turn of pnd_poll's loop takes the head of the queue to the driver.
LEMMA LinkDriverReceives ==
  ASSUME OwnershipInv, TodoFilled, pnd_poll_rx
  PROVE  Link!DriverReceives \/ UNCHANGED Link!linkVars
<1>0. HandshakeInv
  BY DEF OwnershipInv
<1>1. CASE RxEmpty
  BY <1>1 DEF pnd_poll_rx, Link!linkVars, TxQueue, RxQueue, txRing, rxRing, hw, nicIf
<1>2. CASE ~RxEmpty
  <2>1. /\ rx_ring_buffer' = [ rx_ring_buffer EXCEPT ![rx_drv] = NULL ]
        /\ rx_drv' = NextSlot(rx_drv, NUM_RX_DESC)
        /\ UNCHANGED <<rx_nic, txRing, nic_ready, nicSkb>>
    BY <1>2 DEF pnd_poll_rx, nic_hw_rx_pkt, RxClearSlot, hw, nicIf
  <2>2. RxQueue # << >> /\ RxQueue' = Tail(RxQueue)
    <3>1. TakesHead(rx_drv, rx_nic, NUM_RX_DESC)
      BY <1>0, <1>2, SlotTypes, NicAssumption, TakeQueue DEF RxSlots, RxEmpty
    <3>2. QED
      BY <2>1, <3>1, Queues, Zenon DEF TakesHead, RxQueue, RxSlots
  <2>3. TxQueue' = TxQueue
    BY <2>1 DEF TxQueue, txRing
  <2>4. QED
    BY <2>1, <2>2, <2>3 DEF Link!DriverReceives
<1>3. QED
  BY <1>1, <1>2

\* nic_poll takes the head of the queue to the peer ...
LEMMA LinkPeerTakes ==
  ASSUME OwnershipInv, nic_poll_take
  PROVE  Link!PeerTakes \/ UNCHANGED Link!linkVars
<1>0. HandshakeInv /\ nicSkb = NULL
  BY DEF OwnershipInv, NicPollInv, nic_poll_take
<1>1. CASE TxEmpty
  BY <1>0, <1>1 DEF nic_poll_take, Link!linkVars, TxQueue, RxQueue, txRing, rxRing, hw
<1>2. CASE ~TxEmpty
  <2>0. tx_ring_buffer[tx_nic] \in Skb
    BY <1>0, <1>2, Windows, SlotTypes DEF OwnershipInv, OwnInv, TxWindowFilled
  <2>1. /\ nicSkb' = tx_ring_buffer[tx_nic]
        /\ tx_ring_buffer' = [ tx_ring_buffer EXCEPT ![tx_nic] = NULL ]
        /\ tx_nic' = NextSlot(tx_nic, NUM_TX_DESC)
        /\ UNCHANGED <<tx_drv, rxRing, nic_ready>>
    BY <1>2, <2>0, NicAssumption DEF nic_poll_take, hw
  <2>2. /\ TxQueue # << >> /\ Head(TxQueue) = tx_ring_buffer[tx_nic]
        /\ TxQueue' = Tail(TxQueue)
    <3>1. TakesHead(tx_nic, tx_drv, NUM_TX_DESC)
      BY <1>0, <1>2, SlotTypes, NicAssumption, TakeQueue DEF TxSlots, TxEmpty
    <3>2. QED
      BY <2>1, <3>1, Queues, Zenon DEF TakesHead, TxQueue, TxSlots
  <2>3. RxQueue' = RxQueue
    BY <2>1 DEF RxQueue, rxRing
  <2>4. QED
    BY <1>0, <2>1, <2>2, <2>3 DEF Link!PeerTakes
<1>3. QED
  BY <1>1, <1>2

\* ... and hands it to the stack, or returns with nothing.
LEMMA LinkPeerDelivers ==
  ASSUME nic_poll_done
  PROVE  Link!PeerDelivers \/ UNCHANGED Link!linkVars
BY DEF nic_poll_done, Link!PeerDelivers, Link!linkVars, TxQueue, RxQueue, txRing, rxRing, hw

\* pnd_open and pnd_close: the link goes up with both queues empty, is
\* flushed while it is down, and the buffers are set up when it is empty.
LEMMA LinkOpenClose ==
  ASSUME OwnershipInv
  PROVE  /\ pnd_open_setup => UNCHANGED Link!linkVars
         /\ pnd_open_ready => Link!Up
         /\ pnd_close_ready => Link!Down
         /\ pnd_close_cleanup => Link!Flush
<1>0. HandshakeInv /\ Handshake
  BY DEF OwnershipInv, HandshakeInv
<1>z. 0 \in Slots(NUM_TX_DESC) /\ 0 \in Slots(NUM_RX_DESC)
  BY NicAssumption, SMT DEF Slots
<1>1. ASSUME pnd_open_setup PROVE UNCHANGED Link!linkVars
  <2>1. TxQueue = << >> /\ RxQueue = << >>
    BY <1>0, <1>1, EmptyQueues DEF Handshake, pnd_open_setup
  <2>2. TxQueue' = << >> /\ RxQueue' = << >>
    BY <1>1, <1>z, NicAssumption, EmptyQueue
       DEF pnd_open_setup, nic_setup_buffers, TxQueue, RxQueue
  <2>3. QED
    BY <1>1, <2>1, <2>2 DEF pnd_open_setup, Link!linkVars, hw, nicIf
<1>2. ASSUME pnd_open_ready PROVE Link!Up
  <2>1. ~nic_ready /\ TxQueue = << >> /\ RxQueue = << >>
    BY <1>0, <1>2, EmptyQueues DEF Handshake, pnd_open_ready
  <2>2. QED
    BY <1>2, <2>1 DEF pnd_open_ready, nic_hw_set_ready, card, Link!Up, TxQueue, RxQueue,
       txRing, rxRing, nicIf
<1>3. ASSUME pnd_close_ready PROVE Link!Down
  BY <1>0, <1>3 DEF pnd_close_ready, nic_hw_clear_ready, Handshake, card, Link!Down, TxQueue,
     RxQueue, txRing, rxRing, nicIf
<1>4. ASSUME pnd_close_cleanup PROVE Link!Flush
  <2>1. ~nic_ready
    BY <1>0, <1>4 DEF Handshake, pnd_close_cleanup
  <2>2. TxQueue' = << >> /\ RxQueue' = << >>
    BY <1>4, <1>z, NicAssumption, EmptyQueue
       DEF pnd_close_cleanup, nic_cleanup_buffers, TxQueue, RxQueue
  <2>3. QED
    BY <1>4, <2>1, <2>2 DEF pnd_close_cleanup, Link!Flush, hw, nicIf
<1>5. QED
  BY <1>1, <1>2, <1>3, <1>4

\* The step of the refinement.
LEMMA LinkStep ==
  ASSUME TodoFilled
  PROVE  OwnershipInv /\ [Next]_vars => [Link!LinkNext]_(Link!linkVars)
<1> SUFFICES ASSUME OwnershipInv, [Next]_vars
             PROVE  Link!LinkNext \/ UNCHANGED Link!linkVars
  OBVIOUS
<1>1. ASSUME NEW skb \in Skb, pnd_start_xmit(skb) \/ NicXmit(skb)
      PROVE  Link!LinkNext \/ UNCHANGED Link!linkVars
  BY <1>1, LinkDriverSends, LinkPeerSends DEF Link!LinkNext
<1>2. ASSUME pnd_poll_rx \/ nic_poll_take \/ nic_poll_done
      PROVE  Link!LinkNext \/ UNCHANGED Link!linkVars
  BY <1>2, LinkDriverReceives, LinkPeerTakes, LinkPeerDelivers DEF Link!LinkNext
<1>3. ASSUME pnd_open_setup \/ pnd_open_ready \/ pnd_close_ready \/ pnd_close_cleanup
      PROVE  Link!LinkNext \/ UNCHANGED Link!linkVars
  BY <1>3, LinkOpenClose DEF Link!LinkNext
<1>4. ASSUME UNCHANGED <<txRing, rxRing, nic_ready, nicSkb>>
      PROVE  UNCHANGED Link!linkVars
  BY <1>4 DEF Link!linkVars, TxQueue, RxQueue, txRing, rxRing
<1>5. ASSUME \/ pnd_open_napi \/ pnd_open_register \/ pnd_open_intr \/ pnd_open_check
             \/ pnd_close_intr \/ pnd_close_unregister \/ pnd_close_napi
             \/ pnd_close_wait \/ pnd_start_xmit_schedule
      PROVE  UNCHANGED <<txRing, rxRing, nic_ready, nicSkb>>
  BY <1>5 DEF pnd_open_napi, pnd_open_register, pnd_open_intr, pnd_open_check,
     nic_hw_check_intr, pnd_close_intr, pnd_close_unregister, pnd_close_napi,
     pnd_close_wait, pnd_start_xmit_schedule, card, hw, nicVars, nicIf
<1>6. ASSUME \/ pnd_poll_start \/ pnd_poll_complete \/ pnd_poll_budget
             \/ pnd_poll_unmask \/ pnd_poll_check \/ NicXmitQuiet \/ handler_mask
             \/ handler_schedule \/ NicOpen \/ NicClose \/ NicCloseEnd
             \/ UNCHANGED vars
      PROVE  UNCHANGED <<txRing, rxRing, nic_ready, nicSkb>>
  BY <1>6 DEF pnd_poll_start, pnd_poll_complete, pnd_poll_budget, pnd_poll_unmask,
     pnd_poll_check, nic_hw_check_intr, NicXmitQuiet, nic_start_xmit_quiet,
     handler_mask, handler_schedule, NicOpen, nic_open, NicClose, nic_close_begin,
     NicCloseEnd, nic_close_end, vars, card, hw, nicVars, nicIf
<1>7. QED
  BY <1>1, <1>2, <1>3, <1>4, <1>5, <1>6
     DEF Next, PndOpenRest, PndCloseRest, PndPoll, NicPoll

LEMMA LinkInitial == Init => Link!LinkInit
<1>1. 0 \in Slots(NUM_TX_DESC) /\ 0 \in Slots(NUM_RX_DESC)
  BY NicAssumption, SMT DEF Slots
<1>2. Init => TxQueue = << >> /\ RxQueue = << >>
  BY <1>1, NicAssumption, EmptyQueue DEF Init, NicInit, TxQueue, RxQueue
<1>3. QED
  BY <1>2 DEF Init, NicInit, Link!LinkInit

\* REFINEMENT.  With the TODO slots filled in, the driver and the card
\* implement the link of VnicLink: packets come out of the rings in order and
\* once each, and are flushed only by an interface going down, for rings,
\* budgets and sets of skbs of any size and both compilations of nic.c.
THEOREM LinkImplemented ==
  ASSUME TodoFilled
  PROVE  Spec => ImplementsLink
BY LinkInitial, InitOwnership, OwnershipStep, LinkStep, PTL
   DEF Spec, ImplementsLink, Link!LinkSpec
=============================================================================
