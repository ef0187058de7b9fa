------------------------------ MODULE Loopback ------------------------------
(***************************************************************************)
(* P03_ndo/lb_network_driver.c: a network driver that receives what it     *)
(* transmits.  Between lnd_start_xmit and lnd_poll there is one place for  *)
(* a packet, pvt->skb: a packet that is still there when the next one is   *)
(* transmitted is dropped.                                                 *)
(*                                                                         *)
(* The actors are the process that loads, opens, closes and unloads the    *)
(* driver, the transmit path (the stack serialises it, and stops it before *)
(* it closes the interface), and the softirq that calls lnd_poll.  What    *)
(* the code does under pvt->lock is part of one step.                      *)
(***************************************************************************)
EXTENDS Napi, Naturals

CONSTANTS
  Skb,              \* socket buffers, reused once freed
  NULL,             \* the null pointer
  MaxSent,          \* bound: packets transmitted between two lnd_close
  TodoFilled        \* TRUE: the two calls marked TODO are uncommented;
                    \* FALSE: the driver as committed

ASSUME LoopbackAssumption ==
  /\ NULL \notin Skb
  /\ MaxSent \in Nat
  /\ TodoFilled \in BOOLEAN

VARIABLES
  module,  \* the kernel module: "out", "in" or "leaving" (in lnd_exit)
  dev,     \* the interface: "down", "up" or "closing" (in napi_disable)
  napi,    \* pvt->napi
  skb,     \* pvt->skb
  poll,    \* lnd_poll: "idle" or "taken" (past the locked part)
  polled,  \* its local skb
  xmit,    \* lnd_start_xmit: "idle" or "schedule" (the packet is stored)
  stats,   \* dev->stats
  owned,   \* the skbs that the driver has been given and not given away
  sent     \* history: packets transmitted since the statistics were zeroed

vars == <<module, dev, napi, skb, poll, polled, xmit, stats, owned, sent>>

StatField == {"tx_packets", "tx_dropped", "tx_errors", "rx_packets", "rx_errors"}
NoStats   == [ f \in StatField |-> 0 ]
CountUp(fields) ==
  [ f \in StatField |-> IF f \in fields THEN stats[f] + 1 ELSE stats[f] ]

-----------------------------------------------------------------------------
(* Loading and unloading. *)

\* register_netdev succeeds.  (When it or the allocation fails, lnd_init
\* frees what it has and the module stays out.)
lnd_init ==
  /\ module = "out"
  /\ module' = "in"
  /\ napi' = netif_napi_add
  /\ skb' = NULL /\ stats' = NoStats /\ sent' = 0
  /\ UNCHANGED <<dev, poll, polled, xmit, owned>>

\* unregister_netdev closes the interface first, if it is up ...
lnd_exit ==
  /\ module = "in" /\ dev # "closing"
  /\ module' = "leaving"
  /\ UNCHANGED <<dev, napi, skb, poll, polled, xmit, stats, owned, sent>>

\* ... and then the private area is freed, with pvt->skb in it.
lnd_exit_free ==
  /\ module = "leaving" /\ dev = "down"
  /\ module' = "out"
  /\ UNCHANGED <<dev, napi, skb, poll, polled, xmit, stats, owned, sent>>
-----------------------------------------------------------------------------
(* Opening and closing. *)

lnd_open ==
  /\ module = "in" /\ dev = "down"
  /\ dev' = "up"
  /\ napi' = napi_enable(napi)
  /\ UNCHANGED <<module, skb, poll, polled, xmit, stats, owned, sent>>

lnd_close ==
  /\ dev = "up" /\ xmit = "idle"
  /\ dev' = "closing"
  /\ napi' = napi_disable_begin(napi)
  /\ UNCHANGED <<module, skb, poll, polled, xmit, stats, owned, sent>>

\* Mutant: the statistics are not cleared.
lnd_close_clearNoMemset ==
  /\ dev = "closing" /\ napi_disabled(napi)
  /\ dev' = "down"
  /\ napi' = napi_disable_end(napi)
  /\ skb' = NULL /\ sent' = 0
  /\ UNCHANGED <<module, poll, polled, xmit, stats, owned>>

\* napi_disable returns.  The pointer is cleared; what it points to is not
\* freed.
lnd_close_clear ==
  /\ dev = "closing" /\ napi_disabled(napi)
  /\ dev' = "down"
  /\ napi' = napi_disable_end(napi)
  /\ skb' = NULL /\ stats' = NoStats /\ sent' = 0
  /\ UNCHANGED <<module, poll, polled, xmit, owned>>
-----------------------------------------------------------------------------
(* Transmitting. *)

\* Mutants: the packet that is replaced is not freed; napi_schedule is left
\* commented out.
ReplacedForgotten   == {}
AfterStoreForgotten == "idle"

\* The packet that lnd_start_xmit drops, if any.
Replaced == {skb} \ {NULL}

\* What lnd_start_xmit does once the packet is stored and the lock released.
AfterStore == IF TodoFilled THEN "schedule" ELSE "idle"

lnd_start_xmit(s) ==
  /\ dev = "up" /\ xmit = "idle" /\ s \notin owned /\ sent < MaxSent
  /\ stats' = CountUp(IF skb = NULL THEN {} ELSE {"tx_dropped"})
  /\ owned' = (owned \ Replaced) \cup {s}
  /\ skb' = s
  /\ xmit' = AfterStore
  /\ sent' = sent + 1
  /\ UNCHANGED <<module, dev, napi, poll, polled>>

lnd_start_xmit_schedule ==
  /\ xmit = "schedule"
  /\ napi' = napi_schedule(napi)
  /\ xmit' = "idle"
  /\ UNCHANGED <<module, dev, skb, poll, polled, stats, owned, sent>>
-----------------------------------------------------------------------------
(* Polling. *)

\* Mutant: pvt->skb is not cleared when it is taken.
lnd_poll_takeKeeps ==
  /\ napi.state = "queued"
  /\ napi' = napi_start_poll(napi)
  /\ poll' = "taken" /\ polled' = skb
  /\ UNCHANGED <<module, dev, skb, xmit, stats, owned, sent>>

lnd_poll_take ==
  /\ napi.state = "queued"
  /\ napi' = napi_start_poll(napi)
  /\ poll' = "taken" /\ polled' = skb /\ skb' = NULL
  /\ UNCHANGED <<module, dev, xmit, stats, owned, sent>>

\* Mutants: napi_complete is forgotten; lnd_poll returns its whole budget.
lnd_poll_resultForgotten == napi
lnd_poll_resultBudget == napi_repoll(napi)

\* work_done is 1, below the budget of 64: lnd_poll calls napi_complete.
lnd_poll_result == napi_complete(napi)

lnd_poll ==
  /\ poll = "taken"
  /\ stats' = CountUp(IF polled = NULL THEN {"tx_errors", "rx_errors"}
                                     ELSE {"tx_packets", "rx_packets"})
  /\ owned' = IF TodoFilled THEN owned \ {polled} ELSE owned
  /\ poll' = "idle" /\ polled' = NULL
  /\ napi' = lnd_poll_result
  /\ UNCHANGED <<module, dev, skb, xmit, sent>>
-----------------------------------------------------------------------------
Init ==
  /\ module = "out" /\ dev = "down" /\ napi = netif_napi_add
  /\ skb = NULL /\ poll = "idle" /\ polled = NULL /\ xmit = "idle"
  /\ stats = NoStats /\ owned = {} /\ sent = 0

Xmit   == (\E s \in Skb : lnd_start_xmit(s)) \/ lnd_start_xmit_schedule
Poll   == lnd_poll_take \/ lnd_poll
Manage == lnd_init \/ lnd_exit \/ lnd_exit_free
            \/ lnd_open \/ lnd_close \/ lnd_close_clear

Next == Manage \/ Xmit \/ Poll

Spec == Init /\ [][Next]_vars

(***************************************************************************)
(* What has been begun goes on: a transmit between the unlock and          *)
(* napi_schedule, a close that waits in napi_disable, unloading, and a     *)
(* softirq with work.  Nobody has to load, open, close or transmit.  The   *)
(* stack keeps new transmits out when unregister_netdev wants to close the *)
(* interface: strong fairness for lnd_exit.                                *)
(***************************************************************************)
Fairness ==
  /\ WF_vars(lnd_start_xmit_schedule)
  /\ WF_vars(lnd_close_clear)
  /\ SF_vars(module = "leaving" /\ (lnd_close \/ lnd_exit_free))
  /\ WF_vars(Poll)

FairSpec == Spec /\ Fairness
-----------------------------------------------------------------------------
(* Properties. *)

\* Every variable stays in its range; no statistic exceeds the number of
\* packets transmitted since they were cleared.
TypeOK ==
  /\ module \in {"out", "in", "leaving"} /\ dev \in {"down", "up", "closing"}
  /\ napi \in Instance
  /\ skb \in Skb \cup {NULL} /\ polled \in Skb \cup {NULL}
  /\ xmit \in {"idle", "schedule"} /\ poll \in {"idle", "taken"}
  /\ sent \in 0 .. MaxSent /\ stats \in [ StatField -> 0 .. sent ]
  /\ owned \in SUBSET Skb

\* Every packet the driver was given and has not given away is in pvt->skb or
\* in the hands of lnd_poll, in one of them only: none is leaked, and none is
\* freed by lnd_start_xmit while lnd_poll hands it to the stack.
PacketHeldOnce ==
  /\ owned = {skb, polled} \ {NULL}
  /\ skb # NULL => skb # polled

\* A stored packet has a poll coming: lnd_start_xmit is about to schedule it,
\* or it is scheduled, or a running poll will be repeated.  So napi_disable,
\* which waits for all of these, leaves lnd_close no packet to clear.
StoredPacketIsPolled ==
  skb # NULL => \/ xmit = "schedule"
                \/ napi.state = "queued"
                \/ napi.state = "polling" /\ napi.missed

\* lnd_close:130 "Clear the pkts, if any": an interface that is down, and a
\* module that is out, holds no packet.
NothingLeftBehind == dev = "down" => owned = {}

\* Every packet transmitted is counted once, as sent or as dropped, unless it
\* is still on its way; what is sent is received; and no count survives
\* lnd_close.
PacketsCounted ==
  /\ sent = stats["tx_packets"] + stats["tx_dropped"]
              + (IF skb = NULL THEN 0 ELSE 1) + (IF polled = NULL THEN 0 ELSE 1)
  /\ stats["rx_packets"] = stats["tx_packets"]
  /\ stats["rx_errors"] = stats["tx_errors"]

\* A poll finds no packet only on behalf of one that was replaced: there are
\* never more of them than packets that lnd_start_xmit dropped, wherever
\* transmits and polls overtake each other.
EmptyPollsPaid == stats["tx_errors"] <= stats["tx_dropped"]

\* lnd_poll always finds a packet: not finding one "Should not happen"
\* (lb_network_driver.c:192).
NoEmptyPoll == stats["tx_errors"] = 0

\* Under FairSpec every packet is looped back or dropped in the end, and
\* lnd_close and lnd_exit return.
PacketsSettle == \A s \in Skb : s \in owned ~> s \notin owned
CallsReturn ==
  /\ dev = "closing" ~> dev = "down"
  /\ module = "leaving" ~> module = "out"
=============================================================================
