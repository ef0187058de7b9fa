------------------------------ MODULE VnicLink ------------------------------
(***************************************************************************)
(* What the simulated card of P04_vnic promises its two users: a full      *)
(* duplex link made of two bounded FIFO queues.  While the card is ready   *)
(* either side may append a packet to the queue that leads to the other    *)
(* side; packets come out in order, once each; and nothing is dropped from *)
(* a queue except by a flush, which only happens while the card is not     *)
(* ready.  The card becomes ready with both queues empty.                  *)
(*                                                                         *)
(* Pnd.tla defines the refinement mapping under which the driver and the   *)
(* card implement this specification.                                      *)
(***************************************************************************)
EXTENDS Sequences, Naturals

CONSTANTS Skb, NULL, TxCap, RxCap

VARIABLES
  up,    \* the card is ready
  txq,   \* packets from the driver to its peer
  rxq,   \* packets from the peer to the driver
  out    \* the packet the peer is handing to its network stack, or NULL

linkVars == <<up, txq, rxq, out>>

Held == { txq[i] : i \in DOMAIN txq } \cup { rxq[i] : i \in DOMAIN rxq }
          \cup {out}

LinkInit == ~up /\ txq = <<>> /\ rxq = <<>> /\ out = NULL

Up   == ~up /\ txq = <<>> /\ rxq = <<>> /\ up' = TRUE /\ UNCHANGED <<txq, rxq, out>>
Down == up /\ up' = FALSE /\ UNCHANGED <<txq, rxq, out>>

DriverSends(skb) ==
  /\ up /\ Len(txq) < TxCap /\ skb \notin Held
  /\ txq' = Append(txq, skb)
  /\ UNCHANGED <<up, rxq, out>>

PeerTakes ==
  /\ out = NULL /\ txq # <<>>
  /\ out' = Head(txq) /\ txq' = Tail(txq)
  /\ UNCHANGED <<up, rxq>>

PeerDelivers ==
  /\ out # NULL
  /\ out' = NULL
  /\ UNCHANGED <<up, txq, rxq>>

PeerSends(skb) ==
  /\ up /\ Len(rxq) < RxCap /\ skb \notin Held
  /\ rxq' = Append(rxq, skb)
  /\ UNCHANGED <<up, txq, out>>

DriverReceives ==
  /\ rxq # <<>>
  /\ rxq' = Tail(rxq)
  /\ UNCHANGED <<up, txq, out>>

Flush ==
  /\ ~up
  /\ txq' = <<>> /\ rxq' = <<>>
  /\ UNCHANGED <<up, out>>

LinkNext ==
  \/ Up \/ Down \/ Flush
  \/ \E skb \in Skb : DriverSends(skb) \/ PeerSends(skb)
  \/ PeerTakes \/ PeerDelivers \/ DriverReceives

LinkSpec == LinkInit /\ [][LinkNext]_linkVars
=============================================================================
