------------------------ MODULE UdpServerProperties ------------------------
(***************************************************************************)
(* What is required of the chat server over UDP.                           *)
(***************************************************************************)
EXTENDS UdpServer

(* Every variable of the server has its type; in particular, bytes_received *)
(* is an index into buffer, however long a datagram is.                    *)
TypeOK ==
  /\ process \in {"up", "failed", "returned"}
  /\ running \in BOOLEAN
  /\ server \in {"none", "open", "closed"}
  /\ main \in DOMAIN NextStep \cup {"start", "command", "closeServer", "join", "return"}
  /\ listener \in [pc : {"none", "check", "call", "recvfrom", "ack", "exited"},
                   client_addr : Addrs \cup {NoAddr}, bytes_received : 0 .. BufferSize - 1]
  /\ queue \in Seq(Datagram)
  /\ received \in Seq(Datagram)
  /\ replies \in Seq([to : Addrs, of : 1 .. MaxReceived])

(* What was answered; the answers due so far, one to the sender of each    *)
(* datagram not empty; and those due before the last datagram came.        *)
Answered == {replies[j] : j \in DOMAIN replies}
Due == {[to |-> received[k].from, of |-> k] :
          k \in {j \in DOMAIN received : received[j].len > 0}}
DueBefore == {reply \in Due : reply.of < Len(received)}

(* udp_listen answers every datagram once, in order and to its sender,     *)
(* whoever has sent before; only the answer to the last datagram received  *)
(* may be still to come, or lost to a stop() meanwhile.                    *)
EachIsAcknowledged ==
  /\ \A i, j \in DOMAIN replies : i < j => replies[i].of < replies[j].of
  /\ IF listener.pc = "ack" THEN Answered = DueBefore
     ELSE Answered = Due \/ (server = "closed" /\ Answered = DueBefore)

-----------------------------------------------------------------------------
(* Liveness, under FairSpec *)

(* stop() returns if the listener is not blocked in recvfrom, or if        *)
(* another datagram has come.                                              *)
StopReturnsUnlessReceiving ==
  main = "join" /\ (listener.pc # "recvfrom" \/ queue # <<>>) ~> process # "up"
=============================================================================
