------------------------------ MODULE MCSwitch ------------------------------
(* Instances of the switch for TLC. *)
EXTENDS SwitchProperties

CONSTANTS a, b   \* the MAC addresses of two hosts

Hosts == {a, b}

Plain(src, dst) ==
  [src |-> src, dst |-> dst, icmp |-> FALSE, clientToServer |-> FALSE, type |-> "other"]
Reply(src, dst) ==
  [src |-> src, dst |-> dst, icmp |-> TRUE, clientToServer |-> TRUE, type |-> "echoreply"]

(* Two hosts that answer each other, one with an echo reply to substitute. *)
TalkFrames == {Plain(a, b), Reply(b, a)}

(* A host that addresses another one, and one that addresses itself. *)
SelfFrames == {Plain(a, b), Plain(b, b)}

(* Frames of one host, as seen when it moves from port to port. *)
MoveFrames == {Plain(a, b), Plain(b, a)}
=============================================================================
