------------------------------- MODULE IpPacket -------------------------------
(***************************************************************************)
(* Packets as the switch and the monitor find them in a captured frame.    *)
(*                                                                         *)
(* A packet is its bytes from the IP header on, each a digit to the base   *)
(* ByteBase (256 in the code); a uint16_t is two of them.  Of the IP       *)
(* header, which may have options, the model has a word, the checksum and  *)
(* the options; its other fields are those of the record.  Of the ICMP     *)
(* header there are type, code and checksum, of the others ports and       *)
(* length.  Ethernet pads short frames, so that the place of any of these  *)
(* headers is inside the frame.                                            *)
(***************************************************************************)
EXTENDS Integers, Sequences

CONSTANTS
  ByteBase    \* values of a byte

ASSUME ByteBaseAssumption == ByteBase \in Nat /\ ByteBase >= 2

WordBase == ByteBase * ByteBase
Byte == 0 .. ByteBase - 1

IP_SUM == 3                   \* offsets of the fields in their headers, from 1
ICMP_TYPE == 1
ICMP_CODE == 2
ICMP_CKSUM == 3
MinHeader == 4                \* sizes of the headers
IcmpHeader == 4
UdpHeader == 6
ICMP_ECHOREPLY == 0
ICMP_ECHO == 1                \* 8 in the code

Protocols == {"arp", "icmp", "tcp", "udp", "other"}    \* "arp" is not IP

(* What is in a header behind IP's: of ICMP type, code and the size of the *)
(* data, of the others ports, and of UDP the size.                         *)
Headers == [kind : {"none", "icmp", "tcp", "udp"}, first : Nat, second : Nat, size : Nat]
NoHeader == [kind |-> "none", first |-> 0, second |-> 0, size |-> 0]

(* bytes is what was captured of the size bytes on the wire; hlen is       *)
(* ip_hl << 2 and len is ip_len, behind which there may be padding; target *)
(* says that the addresses are those of the configuration, first that no   *)
(* other fragment goes before this one; header is what its sender has      *)
(* written into the header behind IP's, if there is one.                   *)
Packets ==
  [bytes : Seq(Byte), size : Nat, hlen : Nat, len : Nat, proto : Protocols,
   target : BOOLEAN, first : BOOLEAN, header : Headers]

(* A packet as a host sends it; its length is a uint16_t.                  *)
IsPacket(p) ==
  /\ p \in Packets
  /\ p.hlen >= MinHeader /\ p.hlen % 2 = 0
  /\ p.hlen + UdpHeader <= Len(p.bytes) /\ Len(p.bytes) <= p.size
  /\ p.hlen <= p.len /\ p.len <= p.size /\ p.len < WordBase

(* A uint16_t as it lies in memory, and the same in network byte order. *)
Put(bytes, k, word) ==
  [bytes EXCEPT ![k] = word % ByteBase, ![k + 1] = word \div ByteBase]
WordAt(bytes, k) == bytes[k] + ByteBase * bytes[k + 1]
Ntohs(bytes, k) == ByteBase * bytes[k] + bytes[k + 1]

(* The sender has written p.header behind the IP header.                   *)
HasHeader(p) ==
  LET ports == [kind |-> p.proto, first |-> Ntohs(p.bytes, p.hlen + 1),
                second |-> Ntohs(p.bytes, p.hlen + 3), size |-> 0]
  IN /\ p.proto = "icmp" =>
          /\ p.len >= p.hlen + IcmpHeader
          /\ p.header = [kind |-> "icmp", first |-> p.bytes[p.hlen + ICMP_TYPE],
                         second |-> p.bytes[p.hlen + ICMP_CODE],
                         size |-> p.len - p.hlen - IcmpHeader]
     /\ p.proto = "tcp" => p.header = ports
     /\ p.proto = "udp" =>
          p.header = [ports EXCEPT !.size = Ntohs(p.bytes, p.hlen + 5) - UdpHeader]
     /\ p.proto \in {"arp", "other"} => p.header = NoHeader
=============================================================================
