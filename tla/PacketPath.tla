------------------------------ MODULE PacketPath ------------------------------
(***************************************************************************)
(* The way of a datagram, whole or in fragments, from the host that sends  *)
(* it through the switch, which may substitute it, to another network, on  *)
(* which the monitor watches and its receiver puts it together again.      *)
(***************************************************************************)
EXTENDS IcmpSubstitution

CONSTANTS
  Datagrams,  \* sequences of packets that make up a datagram each
  SizeBase

(* The k-th packet of a datagram: the first has the header, the others     *)
(* carry more of the data, and all but the last an even number of bytes.   *)
IsFragment(d, k) ==
  /\ d[k].first = (k = 1)
  /\ IF k = 1 THEN HasHeader(d[k]) ELSE d[k].hlen < d[k].len
  /\ k # Len(d) => (d[k].len - d[k].hlen) % 2 = 0

ASSUME PacketPathAssumption ==
  /\ \A d \in Datagrams :
       /\ d \in Seq(Packets) /\ d # <<>>
       /\ \A k \in DOMAIN d : IsPacket(d[k]) /\ IsFragment(d, k)
  /\ IsActive \in BOOLEAN
  /\ SizeBase \in Nat /\ SizeBase >= WordBase

VARIABLES
  datagram,   \* the packets that are sent one after the other
  taken,      \* how many of them the switch has captured
  screen      \* what the monitor has printed

vars == <<datagram, taken, switchVars, screen>>

Monitor == INSTANCE Dissection WITH network <- wire

Init ==
  /\ datagram \in Datagrams /\ taken = 0
  /\ SwitchInit
  /\ Monitor!MonitorInit

Capture ==
  /\ taken < Len(datagram)
  /\ Call(datagram[taken + 1])
  /\ taken' = taken + 1
  /\ UNCHANGED <<datagram, screen>>

Process == ProcessPacket /\ UNCHANGED <<datagram, taken, screen>>

Watch == Monitor!Handler /\ UNCHANGED <<datagram, taken, packet, modified, region, sum, addr, pc>>

Arrived == Len(wire) = Len(datagram)

Done == Arrived /\ Len(screen) = Len(wire) /\ UNCHANGED vars

Next == Capture \/ Process \/ Watch \/ Done

Spec == Init /\ [][Next]_vars
=============================================================================
