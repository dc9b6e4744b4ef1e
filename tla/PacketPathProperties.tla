------------------------- MODULE PacketPathProperties -------------------------
(***************************************************************************)
(* What is required of a datagram's way.                                   *)
(***************************************************************************)
EXTENDS PacketPath, SequencesExt

Plane == INSTANCE SubstitutionPlane WITH captured <- SubSeq(datagram, 1, taken)

Whole == Len(datagram) = 1
FullyCaptured == \A k \in DOMAIN datagram : Len(datagram[k].bytes) = datagram[k].size

(* The message in a sequence of packets, put together by its receiver, and *)
(* what it carries behind the ICMP header.                                 *)
Data(p) == SubSeq(p.bytes, p.hlen + 1, p.len)
Message(packets) == FlattenSeq([k \in DOMAIN packets |-> Data(packets[k])])
Payload(p) == SubSeq(p.bytes, p.hlen + (IF p.first THEN IcmpHeader ELSE 0) + 1, p.len)
Carried(packets) == FlattenSeq([k \in DOMAIN packets |-> Payload(packets[k])])

-----------------------------------------------------------------------------
(* The switch implements SubstitutionPlane. *)
ImplementsSubstitution == Plane!PlaneSpec

(* The sum of the words of the first k bytes: every second byte is the     *)
(* upper half of a word, an odd last one the lower half.                   *)
SumUpTo(bytes) ==
  LET upTo[k \in 0 .. Len(bytes)] ==
        IF k = 0 THEN 0
        ELSE upTo[k - 1] + (IF k % 2 = 0 THEN ByteBase * bytes[k] ELSE bytes[k])
  IN upTo

Total(bytes) == SumUpTo(bytes)[Len(bytes)]

(* RFC 1071: a receiver accepts a header or a message when its one's       *)
(* complement sum has all bits set, which is when the sum is a positive    *)
(* multiple of 2^16 - 1.                                                   *)
Accepted(bytes) == Total(bytes) > 0 /\ Total(bytes) % (WordBase - 1) = 0

(* Adding the carries back once has made another carry. *)
CarriesTwice(bytes, checksumAt) ==
  LET s == Total(bytes) - WordAt(bytes, checksumAt) IN
  (s \div WordBase) + (s % WordBase) >= WordBase

IpHeader(p) == SubSeq(p.bytes, 1, p.hlen)

(* A substituted echo reply is accepted by its receiver exactly when       *)
(* adding the carries back made no second one, which the code would lose.  *)
(* One that comes in fragments is accepted only if what is behind the      *)
(* first does not count: the checksum was computed over the first.         *)
AcceptedUnlessCarriesTwice ==
  Arrived /\ Plane!LooksLikeReply(datagram[1]) =>
    LET message == Message(wire)
        lost == CarriesTwice(Data(wire[1]), ICMP_CKSUM)
    IN /\ Accepted(IpHeader(wire[1])) <=> ~CarriesTwice(IpHeader(wire[1]), IP_SUM)
       /\ Whole => (Accepted(message) <=> ~lost)
       /\ ~Whole /\ ~lost =>
            (Accepted(message) <=> Total(Message(Tail(wire))) % (WordBase - 1) = 0)

(* The receiver gets the data of the message that was sent, unless a later *)
(* fragment of it begins like an echo reply: the switch looks for a header *)
(* in every fragment.  (Of a packet longer than the capture buffer the     *)
(* switch sends what it does not have.)                                    *)
DataIntact ==
  Arrived /\ FullyCaptured /\ datagram[1].proto = "icmp" =>
    (Carried(wire) = Carried(datagram)
       <=> \A k \in DOMAIN datagram : Plane!LooksLikeReply(datagram[k]) => k = 1)

(* The monitor shows what the sender wrote into the header, and of a       *)
(* substituted echo reply an echo request with as much data: where there   *)
(* is a header, and if it is not a TCP or UDP header behind IP options.    *)
ShownAsWritten ==
  \A k \in DOMAIN screen :
    LET p == datagram[k]
        written == IF Plane!LooksLikeReply(p)
                     THEN [p.header EXCEPT !.first = ICMP_ECHO, !.second = 0] ELSE p.header
    IN p.first /\ (p.proto = "icmp" \/ p.hlen = MinHeader) => screen[k].header = written
=============================================================================
