----------------------------- MODULE MCTcpServer -----------------------------
(* Instances of the chat server for TLC. *)
EXTENDS TcpServerProperties

CONSTANTS c1, c2, c3

TwoConns == {c1, c2}
ThreeConns == {c1, c2, c3}

OneEach == [c \in Conns |-> 1]
ThreeFromTwo == [c \in Conns |-> IF c = c1 THEN 2 ELSE IF c = c2 THEN 1 ELSE 0]
OneFromFirst == [c \in Conns |-> IF c = c1 THEN 1 ELSE 0]
=============================================================================
