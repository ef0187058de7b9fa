----------------------------- MODULE PndProofs ------------------------------
(***************************************************************************)
(* Theorems about Pnd.tla, for rings, budgets and sets of skbs of any size *)
(* and for both values of TodoFilled.                                      *)
(***************************************************************************)
EXTENDS PndProps, LibProofs

-----------------------------------------------------------------------------
(* Lemmas about the operators. *)

\* Counting an event keeps statistics in their range.
LEMMA Count1Type ==
  ASSUME NEW stats \in 0 .. StatMax
  PROVE  Count1(stats) \in 0 .. StatMax
BY NicAssumption, SMT DEF Count1

\* The slots that the two TODOs name are slots of their rings.
LEMMA TodoSlots ==
  ASSUME NicTypeOK
  PROVE  TxPutSlot \in TxSlots /\ RxClearSlot \in RxSlots
BY NicAssumption, SMT DEF NicTypeOK, TxPutSlot, RxClearSlot, TxSlots, RxSlots, Slots

\* The part of nic_hw_enable_intr under TODO changes the holder of the lock
\* and the interrupt enable, and nothing else of the card.
LEMMA CheckIntrType ==
  ASSUME NicTypeOK, NEW who \in InHandler, nic_hw_check_intr(who)
  PROVE  NicTypeOK'
<1>1. nic_intr_enabled' \in BOOLEAN
  BY DEF nic_hw_check_intr, nic_hw_disable_intr, NicTypeOK
<1>2. holder' \in {"none", "raise", "handler", "openCheck", "pollCheck"}
  BY DEF nic_hw_check_intr, NicTypeOK, InHandler
<1>3. QED
  BY <1>1, <1>2 DEF nic_hw_check_intr, NicTypeOK, txRing, rxRing, nicIf
-----------------------------------------------------------------------------
(* Type correctness. *)

LEMMA InitTypeOK == Init => TypeOK
<1> SUFFICES ASSUME Init PROVE TypeOK
  OBVIOUS
<1>1. 0 \in TxSlots /\ 0 \in RxSlots
  BY NicAssumption, SMT DEF TxSlots, RxSlots, Slots
<1>2. 0 \in 0 .. StatMax
  BY NicAssumption, SMT
<1>3. netif_napi_add \in Instance
  BY DEF netif_napi_add, Instance
<1>4. NicTypeOK
  BY <1>1, <1>2, <1>3 DEF Init, NicInit, NicTypeOK
<1>5. QED
  BY <1>2, <1>3, <1>4, PndAssumption, SMT DEF Init, TypeOK

\* A poll on its way to napi_complete occupies a processor, as does each one
\* between napi_complete and the end of nic_hw_enable_intr.
TypeInv == /\ TypeOK
           /\ unmasking + checking \in 0 .. CPUS
           /\ pndPoll # "idle" => unmasking + checking < CPUS

LEMMA TypeInvStep == TypeInv /\ [Next]_vars => TypeInv'
<1> SUFFICES ASSUME TypeInv, [Next]_vars PROVE TypeInv'
  OBVIOUS
<1> USE DEF TypeInv, TypeOK, NicTypeOK
<1>0. 0 \in TxSlots /\ 0 \in RxSlots
  BY NicAssumption, SMT DEF TxSlots, RxSlots, Slots
<1>s. 0 \in 0 .. StatMax
  BY NicAssumption, SMT
<1>n. /\ NextSlot(tx_drv, NUM_TX_DESC) \in TxSlots
      /\ NextSlot(tx_nic, NUM_TX_DESC) \in TxSlots
      /\ NextSlot(rx_drv, NUM_RX_DESC) \in RxSlots
      /\ NextSlot(rx_nic, NUM_RX_DESC) \in RxSlots
  BY NextSlotInRing, NicAssumption DEF TxSlots, RxSlots
<1>t. TxPutSlot \in TxSlots /\ RxClearSlot \in RxSlots
  BY TodoSlots
<1>1. ASSUME pnd_open_setup PROVE TypeInv'
  BY <1>1, <1>0 DEF card, pndIo, pnd_open_setup, nic_setup_buffers, hw, nicIf, OpenStep
<1>2. ASSUME pnd_open_napi PROVE TypeInv'
  BY <1>2, NapiType DEF card, pndIo, pnd_open_napi, nicVars, txRing, rxRing, hw, nicIf, pndVars, pndIo, OpenStep
<1>3. ASSUME pnd_open_register PROVE TypeInv'
  BY <1>3 DEF card, pndIo, pnd_open_register, nic_register_handler, txRing, rxRing, nicIf, OpenStep
<1>4. ASSUME pnd_open_ready PROVE TypeInv'
  BY <1>4 DEF card, pndIo, pnd_open_ready, nic_hw_set_ready, txRing, rxRing, nicIf, OpenStep
<1>5. ASSUME pnd_open_intr PROVE TypeInv'
  BY <1>5 DEF card, pndIo, pnd_open_intr, nic_hw_enable_intr, txRing, rxRing, nicIf, OpenStep
<1>6. ASSUME pnd_close_intr PROVE TypeInv'
  BY <1>6 DEF card, pndIo, pnd_close_intr, nic_hw_disable_intr, txRing, rxRing, nicIf, CloseStep
<1>7. ASSUME pnd_close_ready PROVE TypeInv'
  BY <1>7 DEF card, pndIo, pnd_close_ready, nic_hw_clear_ready, txRing, rxRing, nicIf, CloseStep
<1>8. ASSUME pnd_close_unregister PROVE TypeInv'
  BY <1>8 DEF card, pndIo, pnd_close_unregister, nic_unregister_handler, txRing, rxRing, nicIf, CloseStep
<1>9. ASSUME pnd_close_napi PROVE TypeInv'
  BY <1>9, NapiType DEF card, pndIo, pnd_close_napi, nicVars, txRing, rxRing, hw, nicIf, pndVars, pndIo, CloseStep
<1>10. ASSUME pnd_close_wait PROVE TypeInv'
  BY <1>10, NapiType DEF card, pndIo, pnd_close_wait, nicVars, txRing, rxRing, hw, nicIf, pndVars, pndIo, CloseStep
<1>11. ASSUME pnd_close_cleanup PROVE TypeInv'
  BY <1>11, <1>0, <1>s DEF card, pndIo, pnd_close_cleanup, nic_cleanup_buffers, hw, nicIf
<1>12. ASSUME NEW skb \in Skb, pnd_start_xmit(skb) PROVE TypeInv'
  BY <1>12, <1>n, <1>t, Count1Type DEF card, pndIo, pnd_start_xmit, nic_hw_tx_pkt, txRing, rxRing, hw, nicIf
<1>13. ASSUME pnd_start_xmit_schedule PROVE TypeInv'
  BY <1>13, NapiType, Count1Type DEF card, pndIo, pnd_start_xmit_schedule, txRing, rxRing, hw
<1>14. ASSUME pnd_poll_start PROVE TypeInv'
  BY <1>14, NapiType, PndAssumption DEF card, pndIo, pnd_poll_start, nicVars, txRing, rxRing, hw, nicIf, pndVars, pndIo
<1>15. ASSUME pnd_poll_rx PROVE TypeInv'
  BY <1>15, <1>n, <1>t, Count1Type, PndAssumption, NicAssumption DEF card, pndIo, pnd_poll_rx, nic_hw_rx_pkt, txRing, rxRing, hw, nicIf
<1>16. ASSUME pnd_poll_complete PROVE TypeInv'
  BY <1>16, NapiType, PndAssumption DEF card, pndIo, pnd_poll_complete, nicVars, txRing, rxRing, hw, nicIf, pndVars, pndIo
<1>17. ASSUME pnd_poll_unmask PROVE TypeInv'
  BY <1>17, PndAssumption DEF card, pndIo, pnd_poll_unmask, nic_hw_enable_intr, txRing, rxRing, nicIf
<1>18. ASSUME pnd_poll_budget PROVE TypeInv'
  BY <1>18, NapiType DEF card, pndIo, pnd_poll_budget, nicVars, txRing, rxRing, hw, nicIf, pndVars, pndIo
<1>c1. ASSUME pnd_open_check PROVE TypeInv'
  <2>1. NicTypeOK'
    BY <1>c1, CheckIntrType DEF pnd_open_check, InHandler
  <2>2. pndDev' \in {"nic_hw_check_intr", "up"}
    BY <1>c1 DEF pnd_open_check
  <2>3. UNCHANGED <<pndNapi, pndIo>>
    BY <1>c1 DEF pnd_open_check
  <2>4. QED
    BY <2>1, <2>2, <2>3 DEF pndIo, OpenStep
<1>c2. ASSUME pnd_poll_check PROVE TypeInv'
  <2>1. NicTypeOK'
    BY <1>c2, CheckIntrType DEF pnd_poll_check, InHandler
  <2>2. /\ checking > 0 /\ checking' = checking - 1
        /\ UNCHANGED <<pndDev, pndNapi, pndXmit, pndPoll, work_done, unmasking, pndStats>>
    BY <1>c2 DEF pnd_poll_check
  <2>3. /\ checking' \in 0 .. CPUS /\ unmasking' + checking' \in 0 .. CPUS
        /\ unmasking + checking < CPUS => unmasking' + checking' < CPUS
    BY <2>2, PndAssumption, SMT
  <2>4. QED
    BY <2>1, <2>2, <2>3
<1>19. ASSUME NicOpen PROVE TypeInv'
  BY <1>19, NapiType DEF NicOpen, nic_open, txRing, rxRing, hw, pndVars, pndIo
<1>20. ASSUME NicClose PROVE TypeInv'
  BY <1>20, NapiType DEF NicClose, nic_close_begin, txRing, rxRing, hw, pndVars, pndIo
<1>21. ASSUME NicCloseEnd PROVE TypeInv'
  BY <1>21, NapiType, <1>s DEF NicCloseEnd, nic_close_end, txRing, rxRing, hw, pndVars, pndIo
<1>22. ASSUME NEW skb \in Skb, NicXmit(skb) PROVE TypeInv'
  BY <1>22, <1>n, Count1Type DEF NicXmit, nic_start_xmit, txRing, hw, pndVars, pndIo
<1>23. ASSUME NicXmitQuiet PROVE TypeInv'
  BY <1>23 DEF NicXmitQuiet, nic_start_xmit_quiet, txRing, rxRing, hw, nicIf, pndVars, pndIo
<1>24. ASSUME handler_mask PROVE TypeInv'
  BY <1>24 DEF card, pndIo, handler_mask, nic_hw_disable_intr, txRing, rxRing, nicIf, pndVars, pndIo
<1>25. ASSUME handler_schedule PROVE TypeInv'
  BY <1>25, NapiType DEF card, pndIo, handler_schedule, txRing, rxRing, hw, nicIf
<1>26. ASSUME nic_poll_take, UNCHANGED pndVars PROVE TypeInv'
  <2>1. /\ tx_drv' \in TxSlots /\ tx_nic' \in TxSlots
        /\ tx_ring_buffer' \in [ TxSlots -> Skb \cup {NULL} ]
    BY <1>26, <1>n DEF nic_poll_take, txRing
  <2>2. nicSkb' \in Skb \cup {NULL} /\ nicNapi' \in Instance /\ oops' \in BOOLEAN
    BY <1>26, NapiType DEF nic_poll_take
  <2>3. QED
    BY <1>26, <2>1, <2>2 DEF nic_poll_take, rxRing, hw, pndVars, pndIo
<1>27. ASSUME nic_poll_done, UNCHANGED pndVars PROVE TypeInv'
  <2>1. nicStats' \in 0 .. StatMax
    BY <1>27, Count1Type DEF nic_poll_done
  <2>2. nicNapi' \in Instance
    BY <1>27, NapiType DEF nic_poll_done, nic_poll_result
  <2>3. QED
    BY <1>27, <2>1, <2>2 DEF nic_poll_done, txRing, rxRing, hw, pndVars, pndIo
<1>28. ASSUME UNCHANGED vars PROVE TypeInv'
  BY <1>28 DEF vars, nicVars, txRing, rxRing, hw, nicIf, pndVars, pndIo
<1>29. QED
  BY <1>1, <1>2, <1>3, <1>4, <1>5, <1>6, <1>7, <1>8, <1>9, <1>10, <1>11, <1>12, <1>13, <1>14, <1>15, <1>16, <1>17, <1>18, <1>19, <1>20, <1>21, <1>22, <1>23, <1>24, <1>25, <1>26, <1>27, <1>28, <1>c1, <1>c2
     DEF Next, PndOpenRest, PndCloseRest, PndPoll, NicPoll

\* TYPE CORRECTNESS.  In every reachable state each variable is in its range:
\* the ring indices of nic.c stay inside the rings, the work counted by
\* pnd_poll within its budget, the states of NAPI among the four it has.
THEOREM TypeCorrect == Spec => []TypeOK
<1>1. Init => TypeInv
  BY InitTypeOK, PndAssumption, SMT DEF Init, TypeInv
<1>2. TypeInv => TypeOK
  BY DEF TypeInv
<1>3. QED
  BY <1>1, <1>2, TypeInvStep, PTL DEF Spec
-----------------------------------------------------------------------------
(* The handshake between pnd_open, pnd_close, the card, NAPI and the       *)
(* interrupt path.                                                         *)

HandshakeInv == TypeInv /\ Handshake

LEMMA InitHandshakeInv == Init => HandshakeInv
<1> SUFFICES ASSUME Init PROVE Handshake /\ pndPoll = "idle"
  BY InitTypeOK, PndAssumption, SMT DEF HandshakeInv, TypeInv, Init
<1> QED
  BY DEF Init, NicInit, Handshake, netif_napi_add, TxEmpty, RxEmpty

LEMMA HandshakeStep == HandshakeInv /\ [Next]_vars => HandshakeInv'
<1> SUFFICES ASSUME HandshakeInv, [Next]_vars PROVE Handshake'
  BY TypeInvStep DEF HandshakeInv
<1>0. pndNapi \in Instance
  BY DEF HandshakeInv, TypeInv, TypeOK
<1> USE DEF HandshakeInv, Handshake, TxEmpty, RxEmpty
<1>1. ASSUME pnd_open_setup PROVE Handshake'
  BY <1>1 DEF card, pndIo, pnd_open_setup, nic_setup_buffers, RtnlFree, hw, nicIf
<1>2. ASSUME pnd_open_napi PROVE Handshake'
  BY <1>2, <1>0 DEF card, pndIo, pnd_open_napi, napi_enable, Instance, nicVars, txRing, rxRing, hw, nicIf, pndVars, pndIo
<1>3. ASSUME pnd_open_register PROVE Handshake'
  BY <1>3 DEF card, pndIo, pnd_open_register, nic_register_handler, txRing, rxRing, nicIf
<1>4. ASSUME pnd_open_ready PROVE Handshake'
  BY <1>4 DEF card, pndIo, pnd_open_ready, nic_hw_set_ready, txRing, rxRing, nicIf
<1>5. ASSUME pnd_open_intr PROVE Handshake'
  BY <1>5 DEF card, pndIo, pnd_open_intr, nic_hw_enable_intr, txRing, rxRing, nicIf
<1>6. ASSUME pnd_close_intr PROVE Handshake'
  BY <1>6 DEF card, pndIo, pnd_close_intr, nic_hw_disable_intr, txRing, rxRing, nicIf
<1>7. ASSUME pnd_close_ready PROVE Handshake'
  BY <1>7 DEF card, pndIo, pnd_close_ready, nic_hw_clear_ready, txRing, rxRing, nicIf
<1>8. ASSUME pnd_close_unregister PROVE Handshake'
  BY <1>8 DEF card, pndIo, pnd_close_unregister, nic_unregister_handler, LockFree, txRing, rxRing, nicIf
<1>9. ASSUME pnd_close_napi PROVE Handshake'
  BY <1>9, <1>0 DEF card, pndIo, pnd_close_napi, napi_disable_begin, Instance, nicVars, txRing, rxRing, hw, nicIf, pndVars, pndIo
<1>10. ASSUME pnd_close_wait PROVE Handshake'
  BY <1>10, <1>0 DEF card, pndIo, pnd_close_wait, napi_disabled, napi_disable_end, Instance, nicVars, txRing, rxRing, hw, nicIf, pndVars, pndIo
<1>11. ASSUME pnd_close_cleanup PROVE Handshake'
  BY <1>11 DEF card, pndIo, pnd_close_cleanup, nic_cleanup_buffers, hw, nicIf
<1>12. ASSUME NEW skb \in Skb, pnd_start_xmit(skb) PROVE Handshake'
  BY <1>12 DEF card, pndIo, pnd_start_xmit, rxRing, hw, nicIf
<1>13. ASSUME pnd_start_xmit_schedule PROVE Handshake'
  BY <1>13 DEF card, pndIo, pnd_start_xmit_schedule, txRing, rxRing, hw
<1>14. ASSUME pnd_poll_start PROVE Handshake'
  BY <1>14, <1>0 DEF card, pndIo, pnd_poll_start, napi_start_poll, Instance, nicVars, txRing, rxRing, hw, nicIf, pndVars, pndIo
<1>15. ASSUME pnd_poll_rx PROVE Handshake'
  BY <1>15 DEF card, pndIo, pnd_poll_rx, nic_hw_rx_pkt, txRing, rxRing, hw, nicIf
<1>16. ASSUME pnd_poll_complete PROVE Handshake'
  BY <1>16, <1>0 DEF card, pndIo, pnd_poll_complete, napi_complete, Instance, nicVars, txRing, rxRing, hw, nicIf, pndVars, pndIo
<1>17. ASSUME pnd_poll_unmask PROVE Handshake'
  BY <1>17 DEF card, pndIo, pnd_poll_unmask, nic_hw_enable_intr, txRing, rxRing, nicIf
<1>18. ASSUME pnd_poll_budget PROVE Handshake'
  BY <1>18, <1>0 DEF card, pndIo, pnd_poll_budget, napi_repoll, napi_complete, Instance, nicVars, txRing, rxRing, hw, nicIf, pndVars, pndIo
<1>c1. ASSUME pnd_open_check PROVE Handshake'
  BY <1>c1 DEF pnd_open_check, nic_hw_check_intr, LockFree, txRing, rxRing, nicIf, pndIo
<1>c2. ASSUME pnd_poll_check PROVE Handshake'
  BY <1>c2 DEF pnd_poll_check, nic_hw_check_intr, LockFree, InterruptPending, txRing, rxRing, nicIf
<1>19. ASSUME NicOpen PROVE Handshake'
  BY <1>19 DEF NicOpen, nic_open, txRing, rxRing, hw, pndVars, pndIo
<1>20. ASSUME NicClose PROVE Handshake'
  BY <1>20 DEF NicClose, nic_close_begin, txRing, rxRing, hw, pndVars, pndIo
<1>21. ASSUME NicCloseEnd PROVE Handshake'
  BY <1>21 DEF NicCloseEnd, nic_close_end, txRing, rxRing, hw, pndVars, pndIo
<1>22. ASSUME NEW skb \in Skb, NicXmit(skb) PROVE Handshake'
  BY <1>22 DEF NicXmit, nic_start_xmit, RxAccepts, txRing, hw, pndVars, pndIo
<1>23. ASSUME NicXmitQuiet PROVE Handshake'
  BY <1>23 DEF NicXmitQuiet, nic_start_xmit_quiet, txRing, rxRing, hw, nicIf, pndVars, pndIo
<1>24. ASSUME handler_mask PROVE Handshake'
  BY <1>24 DEF card, pndIo, handler_mask, nic_hw_disable_intr, txRing, rxRing, nicIf, pndVars, pndIo
<1>25. ASSUME handler_schedule PROVE Handshake'
  BY <1>25, <1>0 DEF card, pndIo, handler_schedule, napi_schedule, Instance, txRing, rxRing, hw, nicIf
<1>26. ASSUME nic_poll_take, UNCHANGED pndVars PROVE Handshake'
  BY <1>26 DEF nic_poll_take, txRing, rxRing, hw, pndVars, pndIo
<1>27. ASSUME nic_poll_done, UNCHANGED pndVars PROVE Handshake'
  BY <1>27 DEF nic_poll_done, txRing, rxRing, hw, pndVars, pndIo
<1>28. ASSUME UNCHANGED vars PROVE Handshake'
  BY <1>28 DEF vars, nicVars, txRing, rxRing, hw, nicIf, pndVars, pndIo
<1>29. QED
  BY <1>1, <1>2, <1>3, <1>4, <1>5, <1>6, <1>7, <1>8, <1>9, <1>10, <1>11, <1>12, <1>13, <1>14, <1>15, <1>16, <1>17, <1>18, <1>19, <1>20, <1>21, <1>22, <1>23, <1>24, <1>25, <1>26, <1>27, <1>28, <1>c1, <1>c2
     DEF Next, PndOpenRest, PndCloseRest, PndPoll, NicPoll

LEMMA HandshakeCorrect == Spec => []HandshakeInv
BY InitHandshakeInv, HandshakeStep, PTL DEF Spec

\* HANDSHAKE.  How far pnd_open and pnd_close have got decides what the card,
\* NAPI, the lock and the transmit path may be doing, at every moment.
THEOREM HandshakeHolds == Spec => []Handshake
<1>1. HandshakeInv => Handshake
  BY DEF HandshakeInv
<1>2. QED
  BY <1>1, HandshakeCorrect, PTL

\* QUIESCENCE.  After pnd_close, and before the first pnd_open, nothing of
\* the driver is running and the rings are empty: it is the case pndDev =
\* "down" of the handshake.
THEOREM Quiescent == Spec => []QuiescentWhenDown
<1>1. HandshakeInv => QuiescentWhenDown
  BY DEF HandshakeInv, Handshake, QuiescentWhenDown
<1>2. QED
  BY <1>1, HandshakeCorrect, PTL

\* NO INTERRUPT INTO A DRIVER THAT IS NOT THERE.  Whenever the handler runs,
\* its request for a poll finds NAPI enabled and not being disabled.
THEOREM InterruptHeard == Spec => []InterruptIsHeard
<1>1. HandshakeInv => InterruptIsHeard
  BY DEF HandshakeInv, Handshake, InterruptIsHeard, InHandler
<1>2. QED
  BY <1>1, HandshakeCorrect, PTL
-----------------------------------------------------------------------------
(* A masked interrupt is on its way to be unmasked. *)

\* NoDeafDriver has to hold from the moment the interrupt is unmasked.
MaskedIsServed ==
  pndDev \in {"nic_hw_check_intr", "up"} /\ ~nic_intr_enabled =>
    \/ holder \in InHandler
    \/ pndNapi.state \in {"queued", "polling"}
    \/ unmasking > 0

DeafInv == HandshakeInv /\ MaskedIsServed

LEMMA DeafStep == DeafInv /\ [Next]_vars => DeafInv'
<1> SUFFICES ASSUME DeafInv, [Next]_vars PROVE MaskedIsServed'
  BY HandshakeStep DEF DeafInv
<1>0. pndNapi \in Instance /\ unmasking \in Nat
  BY PndAssumption, SMT DEF DeafInv, HandshakeInv, TypeInv, TypeOK
<1>h. Handshake
  BY DEF DeafInv, HandshakeInv
<1> USE DEF DeafInv, MaskedIsServed, InHandler
\* The steps of pnd_open and pnd_close leave "up", except the last of
\* pnd_open, which unmasks, or finds nothing pending after it did.
<1>1. ASSUME pnd_open_setup PROVE MaskedIsServed'
  BY <1>1 DEF card, pndIo, pnd_open_setup
<1>2. ASSUME PndOpenRest PROVE MaskedIsServed'
  BY <1>2 DEF card, pndIo, PndOpenRest, pnd_open_napi, pnd_open_register, pnd_open_ready, pnd_open_intr, nic_hw_enable_intr, pnd_open_check, nic_hw_check_intr
<1>3. ASSUME pnd_close_intr PROVE MaskedIsServed'
  BY <1>3 DEF card, pndIo, pnd_close_intr
<1>4. ASSUME PndCloseRest PROVE MaskedIsServed'
  BY <1>4 DEF card, pndIo, PndCloseRest, pnd_close_ready, pnd_close_unregister, pnd_close_napi, pnd_close_wait, pnd_close_cleanup
<1>5. ASSUME NEW skb \in Skb, pnd_start_xmit(skb) PROVE MaskedIsServed'
  BY <1>5 DEF card, pndIo, pnd_start_xmit, rxRing, hw, nicIf
<1>6. ASSUME pnd_start_xmit_schedule PROVE MaskedIsServed'
  BY <1>6 DEF card, pndIo, pnd_start_xmit_schedule, txRing, rxRing, hw
\* A poll passes the duty on: to the queue, or to the call that follows
\* napi_complete.
<1>7. ASSUME pnd_poll_start PROVE MaskedIsServed'
  BY <1>7, <1>0 DEF card, pndIo, pnd_poll_start, napi_start_poll, Instance, nicVars, txRing, rxRing, hw, nicIf, pndVars, pndIo
<1>8. ASSUME pnd_poll_rx PROVE MaskedIsServed'
  BY <1>8 DEF card, pndIo, pnd_poll_rx, nic_hw_rx_pkt, txRing, rxRing, hw, nicIf
<1>9. ASSUME pnd_poll_complete PROVE MaskedIsServed'
  BY <1>9, <1>0, SMT DEF card, pndIo, pnd_poll_complete
<1>10. ASSUME pnd_poll_unmask PROVE MaskedIsServed'
  BY <1>10 DEF card, pndIo, pnd_poll_unmask, nic_hw_enable_intr
<1>c2. ASSUME pnd_poll_check PROVE MaskedIsServed'
  BY <1>c2 DEF pnd_poll_check, nic_hw_check_intr
<1>11. ASSUME pnd_poll_budget PROVE MaskedIsServed'
  BY <1>11, <1>0, <1>h DEF card, pndIo, pnd_poll_budget, Handshake, napi_repoll, Instance, nicVars, txRing, rxRing, hw, nicIf, pndVars, pndIo
<1>12. ASSUME NicOpen PROVE MaskedIsServed'
  BY <1>12 DEF NicOpen, nic_open, txRing, rxRing, hw, pndVars, pndIo
<1>13. ASSUME NicClose PROVE MaskedIsServed'
  BY <1>13 DEF NicClose, nic_close_begin, txRing, rxRing, hw, pndVars, pndIo
<1>14. ASSUME NicCloseEnd PROVE MaskedIsServed'
  BY <1>14 DEF NicCloseEnd, nic_close_end, txRing, rxRing, hw, pndVars, pndIo
<1>15. ASSUME NEW skb \in Skb, NicXmit(skb) PROVE MaskedIsServed'
  BY <1>15 DEF NicXmit, nic_start_xmit, LockFree, txRing, hw, pndVars, pndIo
<1>16. ASSUME NicXmitQuiet PROVE MaskedIsServed'
  BY <1>16 DEF NicXmitQuiet, nic_start_xmit_quiet, txRing, rxRing, hw, nicIf, pndVars, pndIo
<1>17. ASSUME handler_mask PROVE MaskedIsServed'
  BY <1>17 DEF card, pndIo, handler_mask, pndVars, pndIo
\* The handler's request is heard: it queues the instance, or finds it
\* queued or polling.
<1>18. ASSUME handler_schedule PROVE MaskedIsServed'
  BY <1>18, <1>0, <1>h DEF card, pndIo, handler_schedule, Handshake, napi_schedule, Instance, txRing, rxRing, hw, nicIf
<1>19. ASSUME nic_poll_take, UNCHANGED pndVars PROVE MaskedIsServed'
  BY <1>19 DEF nic_poll_take, txRing, rxRing, hw, pndVars, pndIo
<1>20. ASSUME nic_poll_done, UNCHANGED pndVars PROVE MaskedIsServed'
  BY <1>20 DEF nic_poll_done, txRing, rxRing, hw, pndVars, pndIo
<1>21. ASSUME UNCHANGED vars PROVE MaskedIsServed'
  BY <1>21 DEF vars, nicVars, txRing, rxRing, hw, nicIf, pndVars, pndIo
<1>22. QED
  BY <1>1, <1>2, <1>3, <1>4, <1>5, <1>6, <1>7, <1>8, <1>9, <1>10, <1>11, <1>12, <1>13, <1>14, <1>15, <1>16, <1>17, <1>18, <1>19, <1>20, <1>21, <1>c2
     DEF Next, PndPoll, NicPoll

\* NO DEAF DRIVER.  While the driver is up and its interrupt masked, the
\* handler, a poll that is queued or running, or a poll about to call
\* nic_hw_enable_intr will unmask it.
THEOREM NeverDeaf == Spec => []NoDeafDriver
<1>1. Init => DeafInv
  BY InitHandshakeInv DEF DeafInv, Init, MaskedIsServed
<1>2. DeafInv => NoDeafDriver
  BY DEF DeafInv, MaskedIsServed, NoDeafDriver
<1>3. QED
  BY <1>1, <1>2, DeafStep, PTL DEF Spec
-----------------------------------------------------------------------------
(* A packet in the ring is on its way to be noticed, where nic.c is        *)
(* compiled with TODO.                                                     *)

NoticeInv == DeafInv /\ PacketIsNoticed

\* Outside the receive path: the ring, and those who may notice, stay.
LEMMA NoticeKept ==
  PacketIsNoticed /\ UNCHANGED <<pndDev, rx_drv, rx_nic, holder, pndNapi, unmasking, checking>>
    => PacketIsNoticed'
BY DEF PacketIsNoticed, RxEmpty

\* While the driver is not up there is nothing to show.
LEMMA NoticeDown == pndDev' # "up" => PacketIsNoticed'
BY DEF PacketIsNoticed

LEMMA NoticeStep == NoticeInv /\ [Next]_vars => NoticeInv'
<1> SUFFICES ASSUME NoticeInv, [Next]_vars PROVE PacketIsNoticed'
  BY DeafStep DEF NoticeInv
<1>0. pndNapi \in Instance /\ unmasking \in Nat /\ checking \in Nat
  BY PndAssumption, SMT DEF NoticeInv, DeafInv, HandshakeInv, TypeInv, TypeOK
<1>h. Handshake /\ MaskedIsServed /\ PacketIsNoticed
  BY DEF NoticeInv, DeafInv, HandshakeInv
<1>1. CASE \/ pnd_open_setup \/ pnd_open_napi \/ pnd_open_register \/ pnd_open_ready
           \/ pnd_close_intr \/ PndCloseRest
  <2>1. pndDev' # "up"
    BY <1>1 DEF pnd_open_setup, pnd_open_napi, pnd_open_register, pnd_open_ready,
       pnd_close_intr, PndCloseRest, pnd_close_ready, pnd_close_unregister,
       pnd_close_napi, pnd_close_wait, pnd_close_cleanup
  <2>2. QED
    BY <2>1, NoticeDown
\* pnd_open comes up past its own look at the ring, or without TODO.
<1>2. CASE pnd_open_intr
  BY <1>2 DEF pnd_open_intr, PacketIsNoticed
<1>3. CASE pnd_open_check
  <2>1. CASE InterruptPending
    BY <1>3, <2>1, NoticeDown DEF pnd_open_check
  <2>2. CASE ~InterruptPending
    BY <1>3, <1>h, <2>2 DEF pnd_open_check, nic_hw_check_intr, InterruptPending, Handshake,
       PacketIsNoticed, RxEmpty, rxRing
  <2>3. QED
    BY <2>1, <2>2
<1>4. CASE \/ \E skb \in Skb : pnd_start_xmit(skb)
           \/ pnd_start_xmit_schedule
           \/ NicOpen \/ NicClose \/ NicCloseEnd \/ NicPoll \/ UNCHANGED vars
  BY <1>4, <1>h, NoticeKept
     DEF pnd_start_xmit, pnd_start_xmit_schedule, NicOpen, nic_open, NicClose, nic_close_begin,
         NicCloseEnd, nic_close_end, NicPoll, nic_poll_take, nic_poll_done,
         vars, nicVars, rxRing, pndVars, pndIo
\* A poll hands the duty on to the next poll, or to nic_hw_enable_intr, and
\* that to the look at the ring it ends with.
<1>5. CASE pnd_poll_start
  BY <1>5, <1>0 DEF pnd_poll_start, napi_start_poll, Instance, PacketIsNoticed
<1>6. CASE pnd_poll_rx
  BY <1>6, <1>h DEF pnd_poll_rx, Handshake, PacketIsNoticed
<1>7. CASE pnd_poll_complete
  BY <1>7, <1>0, SMT DEF pnd_poll_complete, PacketIsNoticed
<1>8. CASE pnd_poll_budget
  BY <1>8, <1>0, <1>h DEF pnd_poll_budget, Handshake, napi_repoll, Instance, PacketIsNoticed
<1>9. CASE pnd_poll_unmask
  BY <1>9, <1>0, SMT DEF pnd_poll_unmask, PacketIsNoticed
<1>10. CASE pnd_poll_check
  BY <1>10, <1>h DEF pnd_poll_check, nic_hw_check_intr, InterruptPending, InHandler,
     Handshake, PacketIsNoticed, RxEmpty, rxRing
\* A packet arrives with nic_start_xmit, which raises the interrupt unless it
\* is masked.
<1>11. CASE \E skb \in Skb : NicXmit(skb)
  BY <1>11, <1>h DEF NicXmit, nic_start_xmit, pndVars, pndIo, PacketIsNoticed, RxEmpty
<1>12. CASE NicXmitQuiet
  BY <1>12, <1>h DEF NicXmitQuiet, nic_start_xmit_quiet, RaisesInterrupt, Handshake,
     MaskedIsServed, pndVars, pndIo, PacketIsNoticed, RxEmpty, InHandler
<1>13. CASE handler_mask
  BY <1>13 DEF handler_mask, PacketIsNoticed, InHandler
<1>14. CASE handler_schedule
  BY <1>14, <1>0, <1>h DEF handler_schedule, Handshake, InHandler, napi_schedule, Instance,
     PacketIsNoticed
<1>15. QED
  BY <1>1, <1>2, <1>3, <1>4, <1>5, <1>6, <1>7, <1>8, <1>9, <1>10, <1>11, <1>12, <1>13, <1>14
     DEF Next, PndOpenRest, PndPoll

\* NO PACKET FORGOTTEN.  With nic.c compiled with TODO, whoever could overlook
\* a packet that arrives at a driver that is up is followed by somebody who
\* looks: the safety half of RxServed, for rings of every size.
THEOREM PacketNoticed == Spec => []PacketIsNoticed
<1>1. Init => NoticeInv
  BY InitHandshakeInv DEF NoticeInv, DeafInv, Init, MaskedIsServed, PacketIsNoticed
<1>2. NoticeInv => PacketIsNoticed
  BY DEF NoticeInv
<1>3. QED
  BY <1>1, <1>2, NoticeStep, PTL DEF Spec
=============================================================================
