---------------------------- MODULE ParserProofs ----------------------------
(* Theorems about PacketParser.tla, for packets of any length.             *)
EXTENDS PacketParser, TLAPS

\* What is known at each header: the size of the headers before it, that they
\* are complete, and that they announce it.
ParserInv ==
  /\ TypeOK
  /\ pc = "eth" => parsed_hdr_size = 0
  /\ pc = "ip" => parsed_hdr_size = EthHdr /\ pkt.h_proto = "IP"
  /\ pc \in {"UDP", "TCP"} => /\ parsed_hdr_size = EthHdr + IpHdr
                              /\ pkt.h_proto = "IP" /\ pkt.protocol = pc
  /\ ReadsInside
  /\ VerdictRight

\* The fields of a packet.
LEMMA Fields ==
  ASSUME NEW p \in Packet
  PROVE  /\ p.len \in 0 .. MTU /\ p.h_proto \in {"IP", "other"}
         /\ p.protocol \in {"UDP", "TCP", "other"}
BY DEF Packet

LEMMA ParserInvInit == Init => ParserInv
<1> SUFFICES ASSUME Init PROVE ParserInv
  OBVIOUS
<1>1. pkt.len \in 0 .. MTU
  BY Fields DEF Init
<1>2. QED
  BY <1>1, ParserAssumption, SMT DEF Init, ParserInv, TypeOK, HeaderEnds, ReadsInside, VerdictRight

LEMMA ParserInvStep == ParserInv /\ [Next]_vars => ParserInv'
<1> SUFFICES ASSUME ParserInv, [Next]_vars PROVE ParserInv'
  OBVIOUS
<1> USE ParserAssumption DEF ParserInv, ReadsInside, VerdictRight, EthHdr, IpHdr, UdpHdr, TcpHdr,
                             HeaderEnds, Behind
<1>f. /\ pkt.len \in 0 .. MTU /\ pkt.h_proto \in {"IP", "other"}
      /\ pkt.protocol \in {"UDP", "TCP", "other"}
  BY Fields DEF TypeOK
<1>1. ASSUME NEW p \in Packet, Take(p) PROVE ParserInv'
  <2>1. p.len \in 0 .. MTU
    BY Fields
  <2>2. QED
    BY <1>1, <2>1, SMT DEF Take, TypeOK
<1>2. CASE parse_eth
  BY <1>2, <1>f, SMT DEF parse_eth, Short, Stop, TypeOK, Reference, Announced, L4
<1>3. CASE parse_ip
  BY <1>3, <1>f, SMT DEF parse_ip, Short, Stop, TypeOK, Reference, Announced, L4
<1>4. CASE parse_udp
  BY <1>4, <1>f, SMT DEF parse_udp, parse_last, Short, Stop, TypeOK, Reference, Announced, L4
<1>5. CASE parse_tcp
  BY <1>5, <1>f, SMT DEF parse_tcp, parse_last, Short, Stop, TypeOK, Reference, Announced, L4
<1>6. CASE UNCHANGED vars
  BY <1>6 DEF vars, TypeOK, Reference, Announced, L4
<1>7. QED
  BY <1>1, <1>2, <1>3, <1>4, <1>5, <1>6 DEF Next, rx_pkt

LEMMA ParserInvAlways == Spec => []ParserInv
BY ParserInvInit, ParserInvStep, PTL DEF Spec

\* Every variable stays in its range; in particular the position is always
\* behind a whole number of headers, at most three, in the order of the layers.
THEOREM ParserTyped == Spec => []TypeOK
<1>1. ParserInv => TypeOK
  BY DEF ParserInv
<1>2. QED
  BY <1>1, ParserInvAlways, PTL

\* The parser never reads past the end of a packet.
THEOREM NeverPastEnd == Spec => []ReadsInside
<1>1. ParserInv => ReadsInside
  BY DEF ParserInv
<1>2. QED
  BY <1>1, ParserInvAlways, PTL

\* The step by step parser reaches the verdict of the reference.
THEOREM ParserRight == Spec => []VerdictRight
<1>1. ParserInv => VerdictRight
  BY DEF ParserInv
<1>2. QED
  BY <1>1, ParserInvAlways, PTL
=============================================================================
