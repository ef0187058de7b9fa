--------------------------- MODULE LoopbackProofs ---------------------------
(***************************************************************************)
(* Theorems about Loopback.tla, for any set of skbs and any bound on the   *)
(* number of packets.                                                      *)
(***************************************************************************)
EXTENDS Loopback, LibProofs

-----------------------------------------------------------------------------
(* The handshake of lnd_open, lnd_close, NAPI and the two data paths.      *)

\* TypeOK without the upper bound of the statistics, which follows from
\* PacketsCounted and ErrorsBounded below.
Typed ==
  /\ module \in {"out", "in", "leaving"} /\ dev \in {"down", "up", "closing"}
  /\ napi \in Instance
  /\ skb \in Skb \cup {NULL} /\ polled \in Skb \cup {NULL}
  /\ xmit \in {"idle", "schedule"} /\ poll \in {"idle", "taken"}
  /\ stats \in [ StatField -> Nat ] /\ sent \in 0 .. MaxSent
  /\ owned \in SUBSET Skb

\* Which states of the interface, of NAPI and of the paths go together.
LndHandshake ==
  /\ module = "out" => dev = "down"
  /\ xmit # "idle" => dev = "up"
  /\ napi.state = "off" <=> dev = "down"
  /\ napi.disabling <=> dev = "closing"
  /\ napi.state = "polling" <=> poll = "taken"
  /\ napi.missed => napi.state \in {"queued", "polling"}
  /\ poll = "idle" => polled = NULL
  /\ dev = "down" => skb = NULL

LndInv == Typed /\ LndHandshake

LEMMA CountType ==
  ASSUME stats \in [ StatField -> Nat ], NEW fields
  PROVE  /\ CountUp(fields) \in [ StatField -> Nat ]
         /\ NoStats \in [ StatField -> Nat ]
BY SMT DEF CountUp, NoStats

LEMMA LndInvInit == Init => LndInv
BY LoopbackAssumption, SMT
  DEF Init, LndInv, Typed, LndHandshake, netif_napi_add, Instance, NoStats

LEMMA LndInvStep == LndInv /\ [Next]_vars => LndInv'
<1> SUFFICES ASSUME LndInv, [Next]_vars PROVE LndInv'
  OBVIOUS
<1> USE LoopbackAssumption DEF LndInv, LndHandshake
<1>s. NoStats \in [ StatField -> Nat ]
  BY DEF NoStats
<1>c. \A fields : CountUp(fields) \in [ StatField -> Nat ]
  BY CountType DEF Typed
<1>n. napi \in Instance
  BY DEF Typed
<1>1. CASE lnd_init
  BY <1>1, <1>s, SMT DEF lnd_init, netif_napi_add, Instance, Typed
<1>2. CASE lnd_exit
  BY <1>2, SMT DEF lnd_exit, Typed
<1>3. CASE lnd_exit_free
  BY <1>3, SMT DEF lnd_exit_free, Typed
<1>4. CASE lnd_open
  <2>1. Typed'
    BY <1>4, <1>n, NapiType DEF lnd_open, Typed
  <2>2. LndHandshake'
    BY <1>4, <1>n, SMT DEF lnd_open, napi_enable, Instance, Typed
  <2>3. QED
    BY <2>1, <2>2
<1>5. CASE lnd_close
  <2>1. Typed'
    BY <1>5, <1>n, NapiType DEF lnd_close, Typed
  <2>2. LndHandshake'
    BY <1>5, <1>n, SMT DEF lnd_close, napi_disable_begin, Instance, Typed
  <2>3. QED
    BY <2>1, <2>2
<1>6. CASE lnd_close_clear
  <2>1. Typed'
    BY <1>6, <1>s, <1>n, NapiType, SMT DEF lnd_close_clear, Typed
  <2>2. LndHandshake'
    BY <1>6, <1>n, SMT DEF lnd_close_clear, napi_disabled, napi_disable_end, Instance, Typed
  <2>3. QED
    BY <2>1, <2>2
<1>7. ASSUME NEW s \in Skb, lnd_start_xmit(s) PROVE LndInv'
  <2>1. Typed'
    <3>1. owned' \in SUBSET Skb
      BY <1>7 DEF lnd_start_xmit, Typed
    <3>2. stats' \in [ StatField -> Nat ]
      BY <1>7, <1>c DEF lnd_start_xmit
    <3>3. sent' \in 0 .. MaxSent
      BY <1>7, SMT DEF lnd_start_xmit, Typed
    <3>4. QED
      BY <1>7, <3>1, <3>2, <3>3 DEF lnd_start_xmit, AfterStore, Typed
  <2>2. LndHandshake'
    BY <1>7, SMT DEF lnd_start_xmit, AfterStore, Typed
  <2>3. QED
    BY <2>1, <2>2
<1>8. CASE lnd_start_xmit_schedule
  <2>1. Typed'
    BY <1>8, <1>n, NapiType DEF lnd_start_xmit_schedule, Typed
  <2>2. LndHandshake'
    BY <1>8, <1>n, SMT DEF lnd_start_xmit_schedule, napi_schedule, Instance, Typed
  <2>3. QED
    BY <2>1, <2>2
<1>9. CASE lnd_poll_take
  <2>1. Typed'
    BY <1>9, <1>n, NapiType DEF lnd_poll_take, Typed
  <2>2. LndHandshake'
    BY <1>9, <1>n, SMT DEF lnd_poll_take, napi_start_poll, Instance, Typed
  <2>3. QED
    BY <2>1, <2>2
<1>10. CASE lnd_poll
  <2>1. Typed'
    <3>1. stats' \in [ StatField -> Nat ]
      BY <1>10, <1>c DEF lnd_poll
    <3>2. owned' \in SUBSET Skb
      BY <1>10 DEF lnd_poll, Typed
    <3>3. QED
      BY <1>10, <1>n, <3>1, <3>2, NapiType DEF lnd_poll, lnd_poll_result, Typed
  <2>2. LndHandshake'
    BY <1>10, <1>n, SMT DEF lnd_poll, lnd_poll_result, napi_complete, Instance, Typed
  <2>3. QED
    BY <2>1, <2>2
<1>11. CASE UNCHANGED vars
  BY <1>11 DEF vars, Typed
<1>12. QED
  BY <1>1, <1>2, <1>3, <1>4, <1>5, <1>6, <1>7, <1>8, <1>9, <1>10, <1>11
    DEF Next, Manage, Xmit, Poll

LEMMA LndInvAlways == Spec => []LndInv
BY LndInvInit, LndInvStep, PTL DEF Spec
-----------------------------------------------------------------------------
(* Counting. *)

\* The requests for a poll that are still on their way.
Pending ==
  (IF xmit = "schedule" THEN 1 ELSE 0)
    + (IF napi.state \in {"queued", "polling"} THEN 1 ELSE 0)
    + (IF napi.missed THEN 1 ELSE 0)

\* Every poll, with or without a packet, was asked for by one transmit.
ErrorsBounded == stats["tx_packets"] + stats["tx_errors"] + Pending <= sent

CountInv == LndInv /\ PacketsCounted /\ ErrorsBounded

LEMMA CountInvInit == Init => CountInv
BY LndInvInit, SMT
  DEF Init, CountInv, PacketsCounted, ErrorsBounded, Pending, NoStats, StatField,
      netif_napi_add

LEMMA CountInvStep == CountInv /\ [Next]_vars => CountInv'
<1> SUFFICES ASSUME CountInv, [Next]_vars
             PROVE  PacketsCounted' /\ ErrorsBounded'
  BY LndInvStep DEF CountInv
<1> USE LoopbackAssumption
    DEF CountInv, LndInv, Typed, LndHandshake, PacketsCounted, ErrorsBounded, Pending,
        StatField
<1>1. CASE lnd_init
  BY <1>1, SMT DEF lnd_init, netif_napi_add, NoStats
<1>2. CASE lnd_exit
  BY <1>2, SMT DEF lnd_exit
<1>3. CASE lnd_exit_free
  BY <1>3, SMT DEF lnd_exit_free
<1>4. CASE lnd_open
  BY <1>4, SMT DEF lnd_open, napi_enable, Instance
<1>5. CASE lnd_close
  BY <1>5, SMT DEF lnd_close, napi_disable_begin, Instance
<1>6. CASE lnd_close_clear
  BY <1>6, SMT DEF lnd_close_clear, napi_disabled, napi_disable_end, Instance, NoStats
<1>7. ASSUME NEW s \in Skb, lnd_start_xmit(s)
      PROVE  PacketsCounted' /\ ErrorsBounded'
  BY <1>7, SMT DEF lnd_start_xmit, Replaced, AfterStore, CountUp
<1>8. CASE lnd_start_xmit_schedule
  BY <1>8, SMT DEF lnd_start_xmit_schedule, napi_schedule, Instance
<1>9. CASE lnd_poll_take
  BY <1>9, SMT DEF lnd_poll_take, napi_start_poll, Instance
<1>10. CASE lnd_poll
  BY <1>10, SMT DEF lnd_poll, lnd_poll_result, napi_complete, Instance, CountUp
<1>11. CASE UNCHANGED vars
  BY <1>11, SMT DEF vars
<1>12. QED
  BY <1>1, <1>2, <1>3, <1>4, <1>5, <1>6, <1>7, <1>8, <1>9, <1>10, <1>11
    DEF Next, Manage, Xmit, Poll

LEMMA CountInvAlways == Spec => []CountInv
<1>1. Spec => []LndInv
  BY LndInvAlways
<1>2. QED
  BY CountInvInit, CountInvStep, PTL DEF Spec

\* Every packet transmitted is counted exactly once.
THEOREM Counted == Spec => []PacketsCounted
<1>1. CountInv => PacketsCounted
  BY DEF CountInv
<1>2. QED
  BY <1>1, CountInvAlways, PTL

\* Every variable stays in its range; in particular no statistic exceeds the
\* number of packets transmitted since lnd_init or lnd_close cleared it.
THEOREM LoopbackTyped == Spec => []TypeOK
<1>1. CountInv => TypeOK
  <2> SUFFICES ASSUME CountInv PROVE TypeOK
    OBVIOUS
  <2> USE LoopbackAssumption DEF CountInv, LndInv, Typed
  <2>1. stats["tx_packets"] + stats["tx_errors"] <= sent
    BY SMT DEF ErrorsBounded, Pending, StatField
  <2>2. stats["tx_packets"] + stats["tx_dropped"] <= sent
    BY SMT DEF PacketsCounted, StatField
  <2>3. \A f \in StatField : stats[f] \in 0 .. sent
    BY <2>1, <2>2, SMT DEF PacketsCounted, StatField
  <2>4. QED
    BY <2>3, SMT DEF TypeOK
<1>2. QED
  BY <1>1, CountInvAlways, PTL
-----------------------------------------------------------------------------
(* Ownership, with the two TODOs of the driver filled in. *)

HoldInv == LndInv /\ PacketHeldOnce /\ StoredPacketIsPolled

LEMMA HoldInvStep == TodoFilled /\ HoldInv /\ [Next]_vars => HoldInv'
<1> SUFFICES ASSUME TodoFilled, HoldInv, [Next]_vars
             PROVE  PacketHeldOnce' /\ StoredPacketIsPolled'
  BY LndInvStep DEF HoldInv
<1> USE LoopbackAssumption
    DEF HoldInv, LndInv, Typed, LndHandshake, PacketHeldOnce, StoredPacketIsPolled
<1>1. CASE lnd_init
  BY <1>1, SMT DEF lnd_init, netif_napi_add
<1>2. CASE lnd_exit
  BY <1>2, SMT DEF lnd_exit
<1>3. CASE lnd_exit_free
  BY <1>3, SMT DEF lnd_exit_free
<1>4. CASE lnd_open
  BY <1>4, SMT DEF lnd_open, napi_enable, Instance
<1>5. CASE lnd_close
  BY <1>5, SMT DEF lnd_close, napi_disable_begin, Instance
<1>6. CASE lnd_close_clear
  BY <1>6, SMT DEF lnd_close_clear, napi_disabled, napi_disable_end, Instance
<1>7. ASSUME NEW s \in Skb, lnd_start_xmit(s)
      PROVE  PacketHeldOnce' /\ StoredPacketIsPolled'
  BY <1>7, SMT DEF lnd_start_xmit, Replaced, AfterStore
<1>8. CASE lnd_start_xmit_schedule
  BY <1>8, SMT DEF lnd_start_xmit_schedule, napi_schedule, Instance
<1>9. CASE lnd_poll_take
  BY <1>9, SMT DEF lnd_poll_take, napi_start_poll, Instance
<1>10. CASE lnd_poll
  BY <1>10, SMT DEF lnd_poll, lnd_poll_result, napi_complete, Instance
<1>11. CASE UNCHANGED vars
  BY <1>11, SMT DEF vars
<1>12. QED
  BY <1>1, <1>2, <1>3, <1>4, <1>5, <1>6, <1>7, <1>8, <1>9, <1>10, <1>11
    DEF Next, Manage, Xmit, Poll

LEMMA HoldInvAlways == ASSUME TodoFilled PROVE Spec => []HoldInv
<1>1. Init => HoldInv
  BY LndInvInit, SMT DEF Init, HoldInv, PacketHeldOnce, StoredPacketIsPolled
<1>2. HoldInv /\ [Next]_vars => HoldInv'
  BY HoldInvStep
<1>3. QED
  BY <1>1, <1>2, PTL DEF Spec

\* With the TODOs filled in, every packet the driver owns is in one place.
THEOREM HeldOnce == ASSUME TodoFilled PROVE Spec => []PacketHeldOnce
<1>1. HoldInv => PacketHeldOnce
  BY DEF HoldInv
<1>2. QED
  BY <1>1, HoldInvAlways, PTL

\* ... a stored packet always has a poll coming ...
THEOREM StoredPolled == ASSUME TodoFilled PROVE Spec => []StoredPacketIsPolled
<1>1. HoldInv => StoredPacketIsPolled
  BY DEF HoldInv
<1>2. QED
  BY <1>1, HoldInvAlways, PTL

\* ... and nothing is leaked by lnd_close and lnd_exit.
THEOREM NothingLeft == ASSUME TodoFilled PROVE Spec => []NothingLeftBehind
<1>1. HoldInv => NothingLeftBehind
  BY SMT DEF HoldInv, LndInv, Typed, LndHandshake, PacketHeldOnce, NothingLeftBehind
<1>2. QED
  BY <1>1, HoldInvAlways, PTL

\* Every poll that finds no packet is that of a packet that was replaced.
\* ErrorsBounded alone would allow one more for a packet on its way; with a
\* poll coming for each of those there is none left over.
THEOREM EmptyPaid == ASSUME TodoFilled PROVE Spec => []EmptyPollsPaid
<1>1. CountInv /\ HoldInv => EmptyPollsPaid
  <2> SUFFICES ASSUME CountInv, HoldInv PROVE EmptyPollsPaid
    OBVIOUS
  <2> DEFINE onWay == (IF skb = NULL THEN 0 ELSE 1) + (IF polled = NULL THEN 0 ELSE 1)
  <2> USE DEF LndInv, Typed
  <2>1. onWay <= Pending /\ onWay \in Nat /\ Pending \in Nat
    BY SMT DEF HoldInv, LndHandshake, StoredPacketIsPolled, Pending, Instance
  <2>2. /\ sent = stats["tx_packets"] + stats["tx_dropped"] + onWay
        /\ stats["tx_packets"] + stats["tx_errors"] + Pending <= sent
    BY SMT DEF CountInv, PacketsCounted, ErrorsBounded, StatField
  <2>3. /\ stats["tx_packets"] \in Nat /\ stats["tx_dropped"] \in Nat
        /\ stats["tx_errors"] \in Nat /\ sent \in Nat
    BY SMT DEF CountInv, StatField
  <2> HIDE DEF onWay
  <2>4. QED
    BY <2>1, <2>2, <2>3, SMT DEF EmptyPollsPaid
<1>2. QED
  BY <1>1, CountInvAlways, HoldInvAlways, PTL
=============================================================================
