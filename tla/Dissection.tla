------------------------------ MODULE Dissection ------------------------------
(***************************************************************************)
(* What the monitor prints of the packets on a network (PacketProcessor):  *)
(* for every captured frame its size, for an IP packet the length it       *)
(* gives, and what is found where the next header is looked for.           *)
(***************************************************************************)
EXTENDS IpPacket

CONSTANTS
  SizeBase    \* what unsigned sizes are reduced by: 2^32 for ICMP, 2^64 for UDP

VARIABLES
  network,    \* the packets that have passed
  screen      \* what has been printed of them

MonitorInit == screen = <<>>

(* A variant with a mistake: the ICMP header is looked for at a fixed place. *)
IcmpPlaceFixed(p) == MinHeader

(* The ICMP header is behind the IP header, with its options ... *)
IcmpPlace(p) == p.hlen

(* printIcmpInfo: type, code, and the size of the data *)
IcmpInfo(p) ==
  [kind |-> "icmp",
   first |-> p.bytes[IcmpPlace(p) + ICMP_TYPE], second |-> p.bytes[IcmpPlace(p) + ICMP_CODE],
   size |-> (p.len - p.hlen - IcmpHeader) % SizeBase]

(* ... the others are expected behind an IP header without any. *)
TransportPlace == MinHeader

(* printTcpInfo: the ports *)
TcpInfo(p) ==
  [kind |-> "tcp",
   first |-> Ntohs(p.bytes, TransportPlace + 1), second |-> Ntohs(p.bytes, TransportPlace + 3),
   size |-> 0]

(* printUdpInfo: the ports and the size of the data *)
UdpInfo(p) ==
  [TcpInfo(p) EXCEPT
     !.kind = "udp", !.size = (Ntohs(p.bytes, TransportPlace + 5) - UdpHeader) % SizeBase]

HeaderInfo(p) ==
  CASE p.proto = "icmp" -> IcmpInfo(p)
    [] p.proto = "tcp" -> TcpInfo(p)
    [] p.proto = "udp" -> UdpInfo(p)
    [] OTHER -> NoHeader

(* handler, called by pcap_loop for the packets in their order *)
Handler ==
  /\ Len(screen) < Len(network)
  /\ LET p == network[Len(screen) + 1] IN
       screen' = Append(screen,
         [size |-> p.size, len |-> IF p.proto = "arp" THEN 0 ELSE p.len, header |-> HeaderInfo(p)])
  /\ UNCHANGED network
=============================================================================
