------------------------------- MODULE ChatRoom -------------------------------
(***************************************************************************)
(* What the chat server may at most put into the inboxes of its clients,   *)
(* without threads, descriptors, list of clients or shutdown:              *)
(*   - an acknowledgement only for something the client has sent;          *)
(*   - what one client sent, unaltered and cut into the same pieces for    *)
(*     everyone, never back to the client itself, and in order.            *)
(* That every client gets every piece is not among the rules: see the      *)
(* violated properties of TcpServerProperties.                             *)
(***************************************************************************)
EXTENDS Integers, Sequences, FiniteSets

CONSTANTS Conns, NoConn

VARIABLES sent, inbox

roomVars == <<sent, inbox>>

OK == [from |-> NoConn, first |-> 0, last |-> 0]

Got(c) == {inbox[c][k] : k \in DOMAIN inbox[c]}
Acks(c) == {k \in DOMAIN inbox[c] : inbox[c][k] = OK}

RoomInit ==
  /\ sent = [c \in Conns |-> 0]
  /\ inbox = [c \in Conns |-> <<>>]

Say(c) ==
  /\ sent' = [sent EXCEPT ![c] = @ + 1]
  /\ UNCHANGED inbox

Put(c, piece) ==
  /\ inbox' = [inbox EXCEPT ![c] = Append(@, piece)]
  /\ UNCHANGED sent

Ack(c) ==
  /\ Cardinality(Acks(c)) < sent[c]
  /\ Put(c, OK)

(* Two pieces are the same, or have no message in common. *)
Apart(x, y) == x.from # y.from \/ x = y \/ x.last < y.first \/ y.last < x.first

Relay(c, d, piece) ==
  /\ c # d
  /\ piece.from = c /\ 1 <= piece.first /\ piece.first <= piece.last /\ piece.last <= sent[c]
  /\ \A e \in Conns : \A other \in Got(e) : Apart(piece, other)
  /\ \A earlier \in Got(d) : earlier.from = c => earlier.last <= piece.last
  /\ Put(d, piece)

RoomNext ==
  \/ \E c \in Conns : Say(c) \/ Ack(c)
  \/ \E c, d \in Conns : \E i, j \in 1 .. sent[c] :
       Relay(c, d, [from |-> c, first |-> i, last |-> j])

RoomSpec == RoomInit /\ [][RoomNext]_roomVars
=============================================================================
