-------------------------------- MODULE Pnd ---------------------------------
(***************************************************************************)
(* P04_vnic/packeted_network_driver.c, the network driver of the simulated *)
(* card, composed with the card itself (Nic.tla).                          *)
(*                                                                         *)
(* The actors are: a process that opens and closes the two interfaces      *)
(* (under the kernel's RTNL lock, one at a time); one transmit path per    *)
(* interface (the stack serialises a queue); the two poll functions, run   *)
(* by softirqs; and the driver's interrupt handler, which the card calls   *)
(* from nic_start_xmit with pvt->lock held.                                *)
(***************************************************************************)
EXTENDS Nic

CONSTANTS
  PND_NAPI_WEIGHT,  \* budget of pnd_poll, 64 in the driver
  CPUS              \* bound: processors that can be inside pnd_poll at once

ASSUME PndAssumption ==
  /\ PND_NAPI_WEIGHT \in Nat \ {0}
  /\ CPUS \in Nat \ {0}

VARIABLES
  pndDev,      \* "down", "up", or the call pnd_open / pnd_close makes next
  pndNapi,     \* the driver's NAPI instance
  pndXmit,     \* pnd_start_xmit: "idle" or "schedule" (the packet is queued)
  pndPoll,     \* pnd_poll up to napi_complete: "idle", "loop" or "drained"
  work_done,   \* its local work_done
  unmasking,   \* calls of pnd_poll that have passed napi_complete but not
               \* yet nic_hw_enable_intr
  checking,    \* calls of pnd_poll inside nic_hw_enable_intr, before the
               \* lock that it takes when TODO is defined
  pndStats     \* dev->stats of the driver's interface

pndIo   == <<pndXmit, pndPoll, work_done, unmasking, checking,
             pndStats>>
pndVars == <<pndDev, pndNapi, pndIo>>
vars    == <<nicVars, pndVars>>

\* The card but for its three registers.
card == <<txRing, rxRing, nicIf, holder, owned, oops>>

OpenStep  == {"napi_enable", "nic_register_handler", "nic_hw_set_ready",
              "nic_hw_enable_intr", "nic_hw_check_intr"}
CloseStep == {"nic_hw_clear_ready", "nic_unregister_handler", "napi_disable",
              "napi_disable_wait", "nic_cleanup_buffers"}

RtnlFree == nicDev # "closing" /\ pndDev \in {"down", "up"}
-----------------------------------------------------------------------------
(* pnd_open *)

pnd_open_setup ==
  /\ pndDev = "down" /\ RtnlFree
  /\ nic_setup_buffers
  /\ pndDev' = "napi_enable"
  /\ UNCHANGED <<hw, nicIf, holder, owned, oops, pndNapi, pndIo>>

pnd_open_napi ==
  /\ pndDev = "napi_enable"
  /\ pndNapi' = napi_enable(pndNapi)
  /\ pndDev' = "nic_register_handler"
  /\ UNCHANGED <<nicVars, pndIo>>

pnd_open_register ==
  /\ pndDev = "nic_register_handler"
  /\ nic_register_handler
  /\ pndDev' = "nic_hw_set_ready"
  /\ UNCHANGED <<card, nic_ready, nic_intr_enabled, pndNapi, pndIo>>

pnd_open_ready ==
  /\ pndDev = "nic_hw_set_ready"
  /\ nic_hw_set_ready
  /\ pndDev' = "nic_hw_enable_intr"
  /\ UNCHANGED <<card, handler, nic_intr_enabled, pndNapi, pndIo>>

pnd_open_intr ==
  /\ pndDev = "nic_hw_enable_intr"
  /\ nic_hw_enable_intr
  /\ pndDev' = IF WithTODO THEN "nic_hw_check_intr" ELSE "up"
  /\ UNCHANGED <<card, handler, nic_ready, pndNapi, pndIo>>

\* The part of nic_hw_enable_intr under #ifdef TODO: with an interrupt pending
\* it calls the handler, which masks the interrupt, with the lock held.
nic_hw_check_intr(who) ==
  /\ LockFree
  /\ \/ InterruptPending /\ nic_hw_disable_intr /\ holder' = who
     \/ ~InterruptPending /\ UNCHANGED <<nic_intr_enabled, holder>>
  /\ UNCHANGED <<txRing, rxRing, handler, nic_ready, nicIf, owned, oops>>

pnd_open_check ==
  /\ pndDev = "nic_hw_check_intr"
  /\ nic_hw_check_intr("openCheck")
  /\ pndDev' = IF InterruptPending THEN pndDev ELSE "up"
  /\ UNCHANGED <<pndNapi, pndIo>>
-----------------------------------------------------------------------------
(* pnd_close.  The stack stops transmitting on the interface before it.    *)

pnd_close_intr ==
  /\ pndDev = "up" /\ RtnlFree /\ pndXmit = "idle"
  /\ nic_hw_disable_intr
  /\ pndDev' = "nic_hw_clear_ready"
  /\ UNCHANGED <<card, handler, nic_ready, pndNapi, pndIo>>

pnd_close_ready ==
  /\ pndDev = "nic_hw_clear_ready"
  /\ nic_hw_clear_ready
  /\ pndDev' = "nic_unregister_handler"
  /\ UNCHANGED <<card, handler, nic_intr_enabled, pndNapi, pndIo>>

\* Mutant: the handler stays registered.
pnd_close_unregisterForgotten ==
  /\ pndDev = "nic_unregister_handler"
  /\ pndDev' = "napi_disable"
  /\ UNCHANGED <<nicVars, pndNapi, pndIo>>

pnd_close_unregister ==
  /\ pndDev = "nic_unregister_handler"
  /\ nic_unregister_handler
  /\ pndDev' = "napi_disable"
  /\ UNCHANGED <<card, nic_ready, nic_intr_enabled, pndNapi, pndIo>>

pnd_close_napi ==
  /\ pndDev = "napi_disable"
  /\ pndNapi' = napi_disable_begin(pndNapi)
  /\ pndDev' = "napi_disable_wait"
  /\ UNCHANGED <<nicVars, pndIo>>

pnd_close_wait ==
  /\ pndDev = "napi_disable_wait" /\ napi_disabled(pndNapi)
  /\ pndNapi' = napi_disable_end(pndNapi)
  /\ pndDev' = "nic_cleanup_buffers"
  /\ UNCHANGED <<nicVars, pndIo>>

pnd_close_cleanup ==
  /\ pndDev = "nic_cleanup_buffers"
  /\ nic_cleanup_buffers
  /\ pndStats' = 0
  /\ pndDev' = "down"
  /\ UNCHANGED <<hw, nicIf, holder, oops, pndNapi, pndXmit, pndPoll,
                 work_done, unmasking, checking>>
-----------------------------------------------------------------------------
(* pnd_start_xmit *)

\* Up to the unlock in nic_hw_tx_pkt, or the whole call when it is refused.
pnd_start_xmit(skb) ==
  /\ pndDev = "up" /\ pndXmit = "idle" /\ LockFree /\ skb \notin owned
  /\ \/ /\ TxAccepts
        /\ nic_hw_tx_pkt(skb)
        /\ owned' = owned \cup {skb}
        /\ pndXmit' = "schedule"
        /\ UNCHANGED pndStats
     \/ /\ ~TxAccepts
        /\ pndStats' = Count1(pndStats)
        /\ UNCHANGED <<txRing, owned, pndXmit>>
  /\ UNCHANGED <<rxRing, hw, nicIf, holder, oops, pndDev, pndNapi, pndPoll,
                 work_done, unmasking, checking>>

\* nic_hw_tx_pkt schedules the card's poll; pnd_start_xmit counts the packet.
pnd_start_xmit_schedule ==
  /\ pndXmit = "schedule"
  /\ nicNapi' = napi_schedule(nicNapi)
  /\ pndStats' = Count1(pndStats)
  /\ pndXmit' = "idle"
  /\ UNCHANGED <<txRing, rxRing, hw, nicDev, nicSkb, holder, nicStats, owned,
                 oops, pndDev, pndNapi, pndPoll, work_done, unmasking,
                 checking>>
-----------------------------------------------------------------------------
(* The interrupt handler, called with the lock held.                       *)

InHandler == {"handler", "openCheck", "pollCheck"}

handler_mask ==
  /\ holder = "raise" /\ RaisesInterrupt
  /\ nic_hw_disable_intr
  /\ holder' = "handler"
  /\ UNCHANGED <<txRing, rxRing, handler, nic_ready, nicIf, owned, oops, pndVars>>

\* napi_schedule; then the handler returns and its caller unlocks, which is
\* the end of pnd_open for a handler called by nic_hw_init.
handler_schedule ==
  /\ holder \in InHandler
  /\ pndNapi' = napi_schedule(pndNapi)
  /\ holder' = "none"
  /\ pndDev' = IF holder = "openCheck" THEN "up" ELSE pndDev
  /\ UNCHANGED <<txRing, rxRing, hw, nicIf, owned, oops, pndIo>>
-----------------------------------------------------------------------------
(* pnd_poll *)

pnd_poll_start ==
  /\ pndNapi.state = "queued" /\ unmasking + checking < CPUS
  /\ pndNapi' = napi_start_poll(pndNapi)
  /\ pndPoll' = "loop"
  /\ work_done' = 0
  /\ UNCHANGED <<nicVars, pndDev, pndXmit, unmasking, checking, pndStats>>

\* One turn of the loop: nic_hw_rx_pkt returns a packet, which goes to the
\* network stack, or NULL, which ends the loop.
pnd_poll_rx ==
  /\ pndPoll = "loop" /\ work_done < PND_NAPI_WEIGHT /\ LockFree
  /\ \/ /\ RxEmpty
        /\ pndPoll' = "drained"
        /\ UNCHANGED <<rxRing, owned, work_done, pndStats>>
     \/ /\ ~RxEmpty /\ RxHead # NULL
        /\ nic_hw_rx_pkt
        /\ owned' = owned \ {RxHead}
        /\ work_done' = work_done + 1
        /\ pndStats' = Count1(pndStats)
        /\ UNCHANGED pndPoll
     \/ /\ ~RxEmpty /\ RxHead = NULL
        /\ nic_hw_rx_pkt
        /\ pndPoll' = "drained"
        /\ UNCHANGED <<owned, work_done, pndStats>>
  /\ UNCHANGED <<txRing, hw, nicIf, holder, oops, pndDev, pndNapi, pndXmit,
                 unmasking, checking>>

\* Mutants: pnd_poll forgets nic_hw_enable_intr, or napi_complete.
pnd_poll_completeNoUnmask ==
  /\ pndPoll = "drained"
  /\ pndNapi' = napi_complete(pndNapi)
  /\ pndPoll' = "idle"
  /\ UNCHANGED <<nicVars, pndDev, pndXmit, work_done, unmasking, checking,
                 pndStats>>
pnd_poll_completeForgotten ==
  /\ pndPoll = "drained"
  /\ pndPoll' = "idle"
  /\ unmasking' = unmasking + 1
  /\ UNCHANGED <<nicVars, pndDev, pndNapi, pndXmit, work_done, checking, pndStats>>

\* The loop ended on NULL, hence work_done < budget: napi_complete.
pnd_poll_complete ==
  /\ pndPoll = "drained"
  /\ pndNapi' = napi_complete(pndNapi)
  /\ pndPoll' = "idle"
  /\ unmasking' = unmasking + 1
  /\ UNCHANGED <<nicVars, pndDev, pndXmit, work_done, checking, pndStats>>

\* ... and, on whatever processor that poll ran, nic_hw_enable_intr.
pnd_poll_unmask ==
  /\ unmasking > 0
  /\ nic_hw_enable_intr
  /\ unmasking' = unmasking - 1
  /\ checking' = IF WithTODO THEN checking + 1 ELSE checking
  /\ UNCHANGED <<card, handler, nic_ready, pndDev, pndNapi, pndXmit, pndPoll,
                 work_done, pndStats>>

pnd_poll_check ==
  /\ checking > 0
  /\ nic_hw_check_intr("pollCheck")
  /\ checking' = checking - 1
  /\ UNCHANGED <<pndDev, pndNapi, pndXmit, pndPoll, work_done, unmasking,
                 pndStats>>

\* Mutant: pnd_poll calls napi_complete whatever work_done is.
pnd_poll_budgetCompletes ==
  /\ pndPoll = "loop" /\ work_done = PND_NAPI_WEIGHT
  /\ pndNapi' = napi_complete(pndNapi)
  /\ pndPoll' = "idle"
  /\ UNCHANGED <<nicVars, pndDev, pndXmit, work_done, unmasking, checking,
                 pndStats>>

\* The budget is used up: pnd_poll returns without completing.
pnd_poll_budget ==
  /\ pndPoll = "loop" /\ work_done = PND_NAPI_WEIGHT
  /\ pndNapi' = napi_repoll(pndNapi)
  /\ pndPoll' = "idle"
  /\ UNCHANGED <<nicVars, pndDev, pndXmit, work_done, unmasking, checking,
                 pndStats>>
-----------------------------------------------------------------------------
(* The system. *)

\* After pnd_init: the interface is registered and down.
Init ==
  /\ NicInit
  /\ pndDev = "down" /\ pndNapi = netif_napi_add
  /\ pndXmit = "idle" /\ pndPoll = "idle" /\ work_done = 0
  /\ unmasking = 0 /\ checking = 0 /\ pndStats = 0

\* The steps that follow the first one of pnd_open and of pnd_close.
PndOpenRest ==
  \/ pnd_open_napi \/ pnd_open_register \/ pnd_open_ready \/ pnd_open_intr
  \/ pnd_open_check

PndCloseRest ==
  \/ pnd_close_ready \/ pnd_close_unregister \/ pnd_close_napi
  \/ pnd_close_wait \/ pnd_close_cleanup

PndPoll == pnd_poll_start \/ pnd_poll_rx \/ pnd_poll_complete \/ pnd_poll_budget

NicOpen     == RtnlFree /\ nic_open /\ UNCHANGED pndVars
NicClose    == RtnlFree /\ nic_close_begin /\ UNCHANGED pndVars
NicCloseEnd == nic_close_end /\ UNCHANGED pndVars
NicXmit(skb) == nic_start_xmit(skb) /\ UNCHANGED pndVars
NicXmitQuiet == nic_start_xmit_quiet /\ UNCHANGED pndVars
NicPoll     == (nic_poll_take \/ nic_poll_done) /\ UNCHANGED pndVars

Next ==
  /\ ~oops
  /\ \/ pnd_open_setup \/ PndOpenRest
     \/ pnd_close_intr \/ PndCloseRest
     \/ \E skb \in Skb : pnd_start_xmit(skb)
     \/ pnd_start_xmit_schedule
     \/ PndPoll \/ pnd_poll_unmask \/ pnd_poll_check
     \/ NicOpen \/ NicClose \/ NicCloseEnd
     \/ \E skb \in Skb : NicXmit(skb)
     \/ NicXmitQuiet \/ handler_mask \/ handler_schedule
     \/ NicPoll

Spec == Init /\ [][Next]_vars

(***************************************************************************)
(* Fairness.  Nobody has to open, close or transmit.  What has been begun  *)
(* goes on: the process inside pnd_open, pnd_close or nic_close, a         *)
(* transmit path in the middle of its call, a softirq with an instance on  *)
(* its list.  An actor that has to take pvt->lock competes with others     *)
(* that take it again and again; the kernel's spinlocks serve waiters in   *)
(* arrival order, so it gets the lock in the end: strong fairness.         *)
(***************************************************************************)
Fairness ==
  /\ SF_vars(PndOpenRest \/ PndCloseRest \/ NicCloseEnd)
  /\ WF_vars(pnd_start_xmit_schedule)
  /\ WF_vars(NicXmitQuiet \/ handler_mask \/ handler_schedule)
  /\ SF_vars(PndPoll)
  /\ WF_vars(pnd_poll_unmask)
  /\ SF_vars(pnd_poll_check)
  /\ SF_vars(NicPoll)

FairSpec == Spec /\ Fairness
-----------------------------------------------------------------------------
\* Every variable of the composition stays in its range; in particular the
\* ring indices stay inside the rings and work_done within the budget.
TypeOK ==
  /\ NicTypeOK
  /\ pndDev \in {"down", "up"} \cup OpenStep \cup CloseStep
  /\ pndNapi \in Instance
  /\ pndXmit \in {"idle", "schedule"}
  /\ pndPoll \in {"idle", "loop", "drained"}
  /\ work_done \in 0 .. PND_NAPI_WEIGHT
  /\ unmasking \in 0 .. CPUS /\ checking \in 0 .. CPUS
  /\ pndStats \in 0 .. StatMax
=============
