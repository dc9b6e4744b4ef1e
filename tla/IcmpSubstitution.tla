-------------------------- MODULE IcmpSubstitution --------------------------
(***************************************************************************)
(* How processPacket turns an ICMP echo reply into an echo request         *)
(* (switch_main.cpp): it copies the packet, rewrites type and code, and    *)
(* recomputes the checksums of the ICMP message and of the IP header.  All *)
(* other packets are sent as they are.                                     *)
(***************************************************************************)
EXTENDS IpPacket

CONSTANTS
  IsActive,   \* ttl_cfg->is_active
  NoPacket    \* not a packet

VARIABLES
  packet,     \* what was captured
  modified,   \* modified_packet, or <<>> for nullptr
  region,     \* which checksum is computed: "icmp", then "ip"
  sum,        \* sum and addr of the call of checksum
  addr,
  pc,         \* "next" in captureThread; otherwise in processPacket
  wire        \* history: the packets that have been sent, on a port that gets all

switchVars == <<packet, modified, region, sum, addr, pc, wire>>

SwitchInit ==
  /\ packet = NoPacket /\ modified = <<>>
  /\ region = "icmp" /\ sum = 0 /\ addr = 0
  /\ pc = "next"
  /\ wire = <<>>

-----------------------------------------------------------------------------
(* Where mod_iph and mod_icmp and the two regions are *)

(* A variant with a mistake: the header is taken to have no options. *)
IcmpAtFixed(field) == MinHeader + field

IcmpAt(field) == packet.hlen + field
Start(r) == IF r = "ip" THEN 1 ELSE packet.hlen + 1
End(r) == IF r = "ip" THEN packet.hlen ELSE packet.len
ChecksumAt(r) == IF r = "ip" THEN IP_SUM ELSE IcmpAt(ICMP_CKSUM)

-----------------------------------------------------------------------------
(* pcap_next has returned p. *)
Call(p) ==
  /\ pc = "next"
  /\ packet' = p /\ region' = "icmp" /\ sum' = 0 /\ addr' = 0
  /\ pc' = "decide"
  /\ UNCHANGED <<modified, wire>>

(* A variant with a mistake: the type is not looked at. *)
SubstitutesAnyType == IsActive /\ packet.proto = "icmp" /\ packet.target

(* The type is looked for behind the IP header of any fragment. *)
Substitutes ==
  /\ IsActive /\ packet.proto = "icmp" /\ packet.target
  /\ packet.bytes[IcmpAt(ICMP_TYPE)] = ICMP_ECHOREPLY

Decide ==
  /\ pc = "decide"
  /\ pc' = IF Substitutes THEN "copy" ELSE "send"
  /\ UNCHANGED <<packet, modified, region, sum, addr, wire>>

(* packetLength is the length on the wire.  What lies in memory behind the *)
(* bytes that were captured is copied and sent along.                      *)
WholeFrames ==
  {packet.bytes \o beyond : beyond \in [1 .. packet.size - Len(packet.bytes) -> Byte]}

Copy ==
  /\ pc = "copy"
  /\ modified' \in WholeFrames
  /\ pc' = "rewrite"
  /\ UNCHANGED <<packet, region, sum, addr, wire>>

EchoRequest ==
  [modified EXCEPT ![IcmpAt(ICMP_TYPE)] = ICMP_ECHO, ![IcmpAt(ICMP_CODE)] = 0]

RewriteTo(bytes) ==
  /\ pc = "rewrite"
  /\ modified' = bytes
  /\ region' = "icmp" /\ sum' = 0 /\ addr' = Start("icmp")
  /\ pc' = "sum"
  /\ UNCHANGED <<packet, wire>>

(* A variant with a mistake: the old checksum is not cleared. *)
RewriteUncleared == RewriteTo(EchoRequest)

(* Type, code, and the checksum field cleared. *)
Rewrite == RewriteTo(Put(EchoRequest, ChecksumAt("icmp"), 0))

(* len of the call of checksum that is left. *)
Left == End(region) - addr + 1

Add(n) == sum' = (sum + n) % (WordBase * WordBase)

(* One turn of the loop, or the last byte of an odd length. *)
AddWord ==
  /\ pc = "sum" /\ Left > 1
  /\ Add(WordAt(modified, addr))
  /\ addr' = addr + 2
  /\ UNCHANGED <<packet, modified, region, pc, wire>>

AddByte ==
  /\ pc = "sum" /\ Left = 1
  /\ Add(modified[addr])
  /\ addr' = addr + 1
  /\ UNCHANGED <<packet, modified, region, pc, wire>>

(* The carries are added back once; the result is narrowed to 16 bits. *)
Fold(s) == (s \div WordBase) + (s % WordBase)
Checksum(s) == WordBase - 1 - (Fold(s) % WordBase)

(* The ICMP checksum is stored and the one of the IP header cleared. *)
StoreIcmp ==
  /\ pc = "sum" /\ Left = 0 /\ region = "icmp"
  /\ modified' = Put(Put(modified, ChecksumAt("icmp"), Checksum(sum)), ChecksumAt("ip"), 0)
  /\ region' = "ip" /\ sum' = 0 /\ addr' = Start("ip")
  /\ UNCHANGED <<packet, pc, wire>>

StoreIp ==
  /\ pc = "sum" /\ Left = 0 /\ region = "ip"
  /\ modified' = Put(modified, ChecksumAt("ip"), Checksum(sum))
  /\ pc' = "send"
  /\ UNCHANGED <<packet, region, sum, addr, wire>>

(* packet_to_send is the copy if there is one. *)
Send ==
  /\ pc = "send"
  /\ \E frame \in IF modified = <<>> THEN WholeFrames ELSE {modified} :
       wire' = Append(wire, [packet EXCEPT !.bytes = frame])
  /\ pc' = "next" /\ packet' = NoPacket /\ modified' = <<>>
  /\ UNCHANGED <<region, sum, addr>>

ProcessPacket ==
  Decide \/ Copy \/ Rewrite \/ AddWord \/ AddByte \/ StoreIcmp \/ StoreIp \/ Send
=============================================================================
