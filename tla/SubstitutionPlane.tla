-------------------------- MODULE SubstitutionPlane --------------------------
(***************************************************************************)
(* What the switch may do to the contents of the packets it forwards: they *)
(* leave one after the other as they came, with the length they had on the *)
(* wire, except that ICMP packets between the configured addresses that    *)
(* begin like an echo reply leave as echo requests with new checksums.  Of *)
(* what was not captured of a packet nothing is promised.                  *)
(***************************************************************************)
EXTENDS IpPacket

CONSTANTS IsActive

VARIABLES captured, wire

PlaneInit == captured = <<>> /\ wire = <<>>

Capture ==
  /\ Len(captured') = Len(captured) + 1
  /\ SubSeq(captured', 1, Len(captured)) = captured
  /\ UNCHANGED wire

LooksLikeReply(p) ==
  /\ IsActive /\ p.proto = "icmp" /\ p.target
  /\ p.bytes[p.hlen + ICMP_TYPE] = ICMP_ECHOREPLY

(* The checksum of the IP header, and the first four bytes behind it. *)
Renewed(p) == {IP_SUM, IP_SUM + 1} \cup p.hlen + 1 .. p.hlen + IcmpHeader

Forward ==
  LET p == captured[Len(wire) + 1]
      out == wire'[Len(wire) + 1]
  IN /\ Len(wire) < Len(captured) /\ Len(wire') = Len(wire) + 1
     /\ wire' = Append(wire, out)
     /\ out = [p EXCEPT !.bytes = out.bytes]
     /\ Len(out.bytes) = p.size
     /\ \A k \in DOMAIN p.bytes \ (IF LooksLikeReply(p) THEN Renewed(p) ELSE {}) :
          out.bytes[k] = p.bytes[k]
     /\ LooksLikeReply(p) =>
          out.bytes[p.hlen + ICMP_TYPE] = ICMP_ECHO /\ out.bytes[p.hlen + ICMP_CODE] = 0
     /\ UNCHANGED captured

PlaneSpec == PlaneInit /\ [][Capture \/ Forward]_<<captured, wire>>
=============================================================================
