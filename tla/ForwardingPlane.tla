--------------------------- MODULE ForwardingPlane ---------------------------
(***************************************************************************)
(* What the switch promises to the networks attached to it, without        *)
(* threads, table, clock or shutdown.  Frames are captured one after the   *)
(* other; for every captured frame at any later time copies are put on     *)
(* ports, under these rules:                                               *)
(*   - a port carries at most one copy of a frame, and frames captured on  *)
(*     the same port leave by any one port in the order of their capture;  *)
(*   - a frame addressed to its own source is not forwarded;               *)
(*   - a frame goes back to the port it came from only if its destination  *)
(*     has been a source there, and then it goes nowhere else;             *)
(*   - all copies are the captured frame, or all are its substitute.       *)
(***************************************************************************)
EXTENDS Integers, Sequences

CONSTANTS Ports, Frames, IsActive

VARIABLES captured, wire

planeVars == <<captured, wire>>

Ids == DOMAIN captured

(* The ports that carry a copy of captured frame i. *)
Egress(i) == {q \in Ports : \E k \in DOMAIN wire[q] : wire[q][k].id = i}

(* The ports on which a host m has been the source of a forwardable frame. *)
SeenOn(m) ==
  {captured[i].port : i \in {j \in Ids : /\ captured[j].frame.src = m
                                         /\ captured[j].frame.dst # m}}

(* The packet that stands for frame f on every port. *)
Promised(f) ==
  IF IsActive /\ f.icmp /\ f.clientToServer /\ f.type = "echoreply"
  THEN [f EXCEPT !.type = "echo"]
  ELSE f

PlaneInit ==
  /\ captured = <<>>
  /\ wire = [p \in Ports |-> <<>>]

Accept(p, f) ==
  /\ captured' = Append(captured, [port |-> p, frame |-> f])
  /\ UNCHANGED wire

(* Port q carries no copy of frame i, nor of a later one from the same port. *)
InTurn(i, q) ==
  \A k \in DOMAIN wire[q] :
    captured[wire[q][k].id].port = captured[i].port => wire[q][k].id < i

Emit(i, q) ==
  LET f == captured[i].frame
      ingress == captured[i].port
  IN /\ f.src # f.dst
     /\ InTurn(i, q)
     /\ \/ q # ingress /\ ingress \notin Egress(i)
        \/ q \in SeenOn(f.dst) /\ Egress(i) = {}
     /\ wire' = [wire EXCEPT ![q] = Append(@, [id |-> i, frame |-> Promised(f)])]
     /\ UNCHANGED captured

PlaneNext ==
  \/ \E p \in Ports, f \in Frames : Accept(p, f)
  \/ \E i \in Ids, q \in Ports : Emit(i, q)

PlaneSpec == PlaneInit /\ [][PlaneNext]_planeVars
=============================================================================
