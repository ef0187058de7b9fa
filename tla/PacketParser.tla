---------------------------- MODULE PacketParser ----------------------------
(***************************************************************************)
(* The packet parser of P01_pp/packet_parser.c (parse_pkt), which returns  *)
(* as parse_pkt in Apps/net_ops.c and as display_packet in every driver.   *)
(* packet_parser.c shows it one packet, read from a file; Apps/net_ops.c   *)
(* every packet that it receives.                                          *)
(*                                                                         *)
(* A packet is its length and the header fields that decide what is done   *)
(* with it; bytes are counted from the start of the packet.                *)
(***************************************************************************)
EXTENDS Naturals

CONSTANT MTU   \* longest packet read, 1500 in the programs

ASSUME ParserAssumption == MTU \in Nat

\* sizeof the header structures.
EthHdr == 14
IpHdr  == 20
UdpHdr == 8
TcpHdr == 20

\* ihl and doff, the lengths of headers with options, decide nothing here:
\* parse_pkt does not look at them.
Packet == [ len : 0 .. MTU, h_proto : {"IP", "other"},
            protocol : {"UDP", "TCP", "other"} ]

VARIABLES
  pkt,              \* the packet
  pc,               \* the header parse_pkt looks at next, or "done"
  parsed_hdr_size,
  seen,             \* parse_pkt has looked at bytes below this one
  verdict           \* what it has printed last: "none", "incomplete",
                    \* "non-IP", "non-UDP/TCP" or "payload"

vars == <<pkt, pc, parsed_hdr_size, seen, verdict>>

Stop(v) == pc' = "done" /\ verdict' = v
-----------------------------------------------------------------------------
(* The next packet. *)

Take(p) ==
  /\ pc = "done"
  /\ pkt' = p
  /\ pc' = "eth" /\ parsed_hdr_size' = 0 /\ seen' = 0 /\ verdict' = "none"

\* net_ops receives a packet.  (When it cannot, it parses nothing.)
rx_pkt == \E p \in Packet : Take(p)
-----------------------------------------------------------------------------
(* parse_pkt *)

\* Mutant: the size of the header is forgotten.
ShortNot(hdr) == pkt.len < parsed_hdr_size

\* The header hdr bytes long that starts at parsed_hdr_size is not complete.
Short(hdr) == pkt.len < parsed_hdr_size + hdr

\* Mutant: the size of the header is assigned, not added.
BehindAssigned(hdr) == hdr

\* Where the header hdr bytes long that starts at parsed_hdr_size ends.
Behind(hdr) == parsed_hdr_size + hdr

parse_eth ==
  /\ pc = "eth"
  /\ \/ Short(EthHdr) /\ Stop("incomplete") /\ UNCHANGED <<parsed_hdr_size, seen>>
     \/ /\ ~Short(EthHdr)
        /\ seen' = Behind(EthHdr)
        /\ IF pkt.h_proto # "IP"
           THEN Stop("non-IP") /\ UNCHANGED parsed_hdr_size
           ELSE /\ parsed_hdr_size' = Behind(EthHdr)
                /\ pc' = "ip" /\ UNCHANGED verdict
  /\ UNCHANGED pkt

parse_ip ==
  /\ pc = "ip"
  /\ \/ Short(IpHdr) /\ Stop("incomplete") /\ UNCHANGED <<parsed_hdr_size, seen>>
     \/ /\ ~Short(IpHdr)
        /\ seen' = Behind(IpHdr)
        /\ parsed_hdr_size' = Behind(IpHdr)
        /\ IF pkt.protocol = "other" THEN Stop("non-UDP/TCP")
           ELSE pc' = pkt.protocol /\ UNCHANGED verdict
  /\ UNCHANGED pkt

\* The last header, and then all that follows it is the payload.
parse_last(hdr) ==
  /\ \/ Short(hdr) /\ Stop("incomplete") /\ UNCHANGED <<parsed_hdr_size, seen>>
     \/ /\ ~Short(hdr)
        /\ parsed_hdr_size' = Behind(hdr)
        /\ seen' = pkt.len
        /\ Stop("payload")
  /\ UNCHANGED pkt

parse_udp == pc = "UDP" /\ parse_last(UdpHdr)

\* Mutant: the size of the wrong header is used for TCP.
parse_tcpAsUdp == pc = "TCP" /\ parse_last(UdpHdr)
parse_tcp      == pc = "TCP" /\ parse_last(TcpHdr)
-----------------------------------------------------------------------------
Init ==
  /\ pkt \in Packet
  /\ pc = "eth" /\ parsed_hdr_size = 0 /\ seen = 0 /\ verdict = "none"

Next == rx_pkt \/ parse_eth \/ parse_ip \/ parse_udp \/ parse_tcp

Spec == Init /\ [][Next]_vars
-----------------------------------------------------------------------------
(* Properties. *)

\* Where parse_pkt can be in a packet: at its start, or behind one, two or
\* three headers that follow each other in this order.
HeaderEnds ==
  {0, EthHdr, EthHdr + IpHdr, EthHdr + IpHdr + UdpHdr, EthHdr + IpHdr + TcpHdr}

\* Every variable stays in its range; the position is always behind a whole
\* number of headers.
TypeOK ==
  /\ pkt \in Packet
  /\ pc \in {"eth", "ip", "UDP", "TCP", "done"}
  /\ parsed_hdr_size \in HeaderEnds /\ seen \in 0 .. MTU
  /\ verdict \in {"none", "incomplete", "non-IP", "non-UDP/TCP", "payload"}

\* The parser never looks past the end of the packet, wherever the packet is
\* cut off: it tests the length before it reads a header's fields.
ReadsInside == seen <= pkt.len /\ parsed_hdr_size <= pkt.len

\* The end of the last header a packet announces, and that of the headers
\* before it, told from the packet as a whole.
L4(p)        == IF p.protocol = "UDP" THEN UdpHdr ELSE TcpHdr
Announced(p) == CASE p.h_proto # "IP" -> EthHdr
                  [] p.h_proto = "IP" /\ p.protocol = "other" -> EthHdr + IpHdr
                  [] OTHER -> EthHdr + IpHdr + L4(p)

\* The verdict on a packet as a whole: incomplete exactly if it ends before
\* the last header it announces (or before the field that announces it).
\* This is the reference the step by step parser is compared with.
Reference(p) ==
  IF p.len < Announced(p) THEN "incomplete"
  ELSE IF p.h_proto # "IP" THEN "non-IP"
  ELSE IF p.protocol = "other" THEN "non-UDP/TCP" ELSE "payload"

\* parse_pkt reaches the verdict of the reference.
VerdictRight == pc = "done" => verdict = Reference(pkt)
=============================================================================
