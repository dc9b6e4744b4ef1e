---------------------------- MODULE UdpChatProofs ----------------------------
(***************************************************************************)
(* Proofs about the chat server over UDP, alone and together with the chat *)
(* client, for every value of the constants: lines and datagrams of any    *)
(* size, any number of them, a network that loses, repeats and reorders    *)
(* what it likes, and others who send to both programs.                    *)
(***************************************************************************)
EXTENDS UdpChatProperties, FiniteSetTheorems, TLAPS

USE UdpServerAssumption

(* The server: any set of clients, datagrams of any length for any buffer, *)
(* any queue of the socket, and any number of datagrams.                   *)

(* The bound on what arrives counts what was received as well. *)
Bounded == Len(received) + Len(queue) <= MaxReceived

(* The listener thread exists from the end of start() on, and the socket   *)
(* is there long before.                                                   *)
ThreadOK ==
  /\ listener.pc = "none" <=> main \in DOMAIN NextStep \cup {"start"}
  /\ server = "none" => main \in {"configure", "socket"}

(* Before sendto, client_addr is the sender of the last datagram received, *)
(* and that is not empty.                                                  *)
AnswerOK ==
  listener.pc = "ack" =>
    /\ Len(received) > 0
    /\ received[Len(received)].len > 0
    /\ listener.client_addr = received[Len(received)].from

(* Once an answer is lost nothing is received any more: the socket is      *)
(* closed, and the thread was not waiting in recvfrom.                     *)
LossIsLast ==
  listener.pc # "ack" /\ Answered # Due =>
    server = "closed" /\ listener.pc \in {"check", "call", "exited"}

UdpServerInv ==
  TypeOK /\ Bounded /\ ThreadOK /\ AnswerOK /\ EachIsAcknowledged /\ LossIsLast

-----------------------------------------------------------------------------
(* The steps of the start lead to one another and at last to "start". *)
LEMMA StartLabels ==
  /\ DOMAIN NextStep = {"configure", "socket", "setsockopt", "ioctl", "bind"}
  /\ \A label \in DOMAIN NextStep : NextStep[label] \in DOMAIN NextStep \cup {"start"}
BY DEF NextStep

(* The initial states satisfy the invariant. *)
LEMMA UdpServerInvInit == Init => UdpServerInv
<1> SUFFICES ASSUME Init PROVE UdpServerInv
  OBVIOUS
<1> USE DEF Init
<1>1. TypeOK
  <2>1. main \in DOMAIN NextStep
    BY StartLabels
  <2>2. listener \in [pc : {"none"}, client_addr : {NoAddr}, bytes_received : 0 .. BufferSize - 1]
    OBVIOUS
  <2>3. listener \in [pc : {"none", "check", "call", "recvfrom", "ack", "exited"},
                      client_addr : Addrs \cup {NoAddr}, bytes_received : 0 .. BufferSize - 1]
    BY <2>2
  <2>4. queue \in Seq(Datagram) /\ received \in Seq(Datagram)
    OBVIOUS
  <2>5. replies \in Seq([to : Addrs, of : 1 .. MaxReceived])
    OBVIOUS
  <2> QED
    BY <2>1, <2>3, <2>4, <2>5 DEF TypeOK
<1>2. Bounded /\ ThreadOK /\ AnswerOK
  BY DEF Bounded, ThreadOK, AnswerOK, NextStep
<1>3. Answered = {} /\ Due = {}
  BY DEF Answered, Due
<1> QED
  BY <1>1, <1>2, <1>3 DEF UdpServerInv, EachIsAcknowledged, LossIsLast

(* Steps that neither receive nor send, and leave a closed socket closed,  *)
(* preserve what is said of answers, whatever the listener's step is.      *)
LEMMA AnswersKept ==
  ASSUME UdpServerInv, UNCHANGED <<received, replies>>,
         server = "closed" => server' = "closed",
         (listener'.pc = "ack") <=> (listener.pc = "ack"),
         listener'.client_addr = listener.client_addr,
         (Answered # Due /\ server = "closed" /\ listener.pc \in {"check", "call", "exited"})
           => listener'.pc \in {"check", "call", "exited"}
  PROVE  AnswerOK' /\ EachIsAcknowledged' /\ LossIsLast'
<1>1. Answered' = Answered /\ Due' = Due /\ DueBefore' = DueBefore
  BY DEF Answered, Due, DueBefore
<1>2. AnswerOK'
  BY DEF UdpServerInv, AnswerOK
<1>3. EachIsAcknowledged'
  BY <1>1 DEF UdpServerInv, EachIsAcknowledged
<1>4. LossIsLast'
  BY <1>1 DEF UdpServerInv, LossIsLast
<1> QED
  BY <1>2, <1>3, <1>4

(* The start, up to the listener thread. *)
LEMMA StartKeeps ==
  ASSUME UdpServerInv, Start
  PROVE  UdpServerInv'
<1>0. ThreadOK /\ TypeOK /\ Bounded
  BY DEF UdpServerInv
<1>1. main \in DOMAIN NextStep \cup {"start"} /\ listener.pc = "none"
  BY <1>0 DEF Start, StartStep, StartFails, StartThread, ThreadOK, NextStep
<1>2. Answered = Due
  BY <1>1 DEF UdpServerInv, LossIsLast
<1>3. UNCHANGED <<queue, received, replies>> /\ listener'.client_addr = listener.client_addr
      /\ listener'.pc # "ack"
  BY <1>0, <1>1 DEF Start, StartStep, StartFails, StartThread, listening, TypeOK
<1>4. Answered' = Answered /\ Due' = Due
  BY <1>3 DEF Answered, Due
<1>5. TypeOK'
  <2>1. listener' \in [pc : {"none", "check", "call", "recvfrom", "ack", "exited"},
                       client_addr : Addrs \cup {NoAddr}, bytes_received : 0 .. BufferSize - 1]
    BY <1>0 DEF Start, StartStep, StartFails, StartThread, listening, TypeOK
  <2>2. main' \in DOMAIN NextStep \cup {"start", "command"}
    BY <1>1, StartLabels DEF Start, StartStep, StartFails, StartThread
  <2>3. /\ process' \in {"up", "failed", "returned"} /\ running' \in BOOLEAN
        /\ server' \in {"none", "open", "closed"}
    BY <1>0 DEF Start, StartStep, StartFails, StartThread, TypeOK
  <2> QED
    BY <1>0, <1>3, <2>1, <2>2, <2>3 DEF TypeOK
<1>6. ThreadOK'
  BY <1>0, <1>1 DEF Start, StartStep, StartFails, StartThread, listening, TypeOK, NextStep, ThreadOK
<1>7. Bounded'
  BY <1>0, <1>3 DEF Bounded
<1>8. AnswerOK' /\ EachIsAcknowledged' /\ LossIsLast'
  BY <1>2, <1>3, <1>4 DEF UdpServerInv, AnswerOK, EachIsAcknowledged, LossIsLast
<1> QED
  BY <1>5, <1>6, <1>7, <1>8 DEF UdpServerInv

(* The test of is_running_ and the begin of recvfrom. *)
LEMMA ListenKeeps ==
  ASSUME UdpServerInv, ListenerCheck \/ ListenerCall
  PROVE  UdpServerInv'
<1>0. ThreadOK /\ TypeOK /\ Bounded
  BY DEF UdpServerInv
<1>1. /\ UNCHANGED <<process, running, server, main, queue, received, replies>>
      /\ listener.pc \in {"check", "call"}
      /\ listener' \in [pc : {"check", "call", "recvfrom", "exited"},
                   client_addr : Addrs \cup {NoAddr}, bytes_received : 0 .. BufferSize - 1]
      /\ listener'.client_addr = listener.client_addr
      /\ server = "closed" => listener'.pc # "recvfrom"
  BY <1>0 DEF ListenerCheck, ListenWhile, ListenerCall, ListenerGoto, TypeOK
<1>2. TypeOK'
  BY <1>0, <1>1 DEF TypeOK
<1>3. Bounded' /\ ThreadOK'
  BY <1>0, <1>1 DEF Bounded, ThreadOK
<1>4. AnswerOK' /\ EachIsAcknowledged' /\ LossIsLast'
  BY <1>1, AnswersKept
<1> QED
  BY <1>2, <1>3, <1>4 DEF UdpServerInv

(* stop() and the return of main. *)
LEMMA StopKeeps ==
  ASSUME UdpServerInv, Command \/ Stop
  PROVE  UdpServerInv'
<1>0. ThreadOK /\ TypeOK /\ Bounded
  BY DEF UdpServerInv
<1>1. /\ UNCHANGED listening
      /\ server' \in {server, "closed"}
      /\ queue' \in {queue, <<>>}
  BY DEF Command, Stop, CloseServer, JoinListener, MainReturn, listening
<1>2. UNCHANGED <<listener, received, replies>>
  BY <1>1 DEF listening
<1>3. TypeOK'
  <2>1. /\ process' \in {"up", "failed", "returned"} /\ running' \in BOOLEAN
        /\ main' \in {"closeServer", "join", "return"}
    BY <1>0 DEF Command, Stop, CloseServer, JoinListener, MainReturn, TypeOK
  <2>2. queue' \in Seq(Datagram)
    <3>1. queue \in Seq(Datagram) /\ <<>> \in Seq(Datagram)
      BY <1>0 DEF TypeOK
    <3> QED
      BY <1>1, <3>1
  <2> QED
    BY <1>0, <1>1, <1>2, <2>1, <2>2 DEF TypeOK
<1>4. ThreadOK'
  BY <1>0, <1>2 DEF ThreadOK, Command, Stop, CloseServer, JoinListener, MainReturn, NextStep
<1>5. Bounded'
  BY <1>0, <1>1, <1>2 DEF Bounded, TypeOK
<1>6. AnswerOK' /\ EachIsAcknowledged' /\ LossIsLast'
  BY <1>1, <1>2, AnswersKept
<1> QED
  BY <1>3, <1>4, <1>5, <1>6 DEF UdpServerInv

(* A datagram arrives. *)
LEMMA ArriveKeeps ==
  ASSUME UdpServerInv, Arrive
  PROVE  UdpServerInv'
<1>0. ThreadOK /\ TypeOK /\ Bounded
  BY DEF UdpServerInv
<1>1. UNCHANGED <<process, running, server, main, listener, received, replies>>
  BY DEF Arrive, listening
<1>2. PICK d \in Datagram : queue' = Append(queue, d)
  BY DEF Arrive
<1>3. queue' \in Seq(Datagram) /\ Len(queue') = Len(queue) + 1
  BY <1>0, <1>2 DEF TypeOK
<1>4. TypeOK'
  BY <1>0, <1>1, <1>3 DEF TypeOK
<1>5. Bounded' /\ ThreadOK'
  BY <1>0, <1>1, <1>3 DEF Bounded, ThreadOK, Arrive, TypeOK
<1>6. AnswerOK' /\ EachIsAcknowledged' /\ LossIsLast'
  BY <1>1, AnswersKept
<1> QED
  BY <1>4, <1>5, <1>6 DEF UdpServerInv

-----------------------------------------------------------------------------
(* recvfrom and sendto *)

(* After a step that receives, the answers due are those due before and,   *)
(* unless the datagram is empty, one to its sender.                        *)
LEMMA DueGrows ==
  ASSUME UdpServerInv, NEW d \in Datagram, received' = Append(received, d)
  PROVE  /\ Due' = Due \cup (IF d.len > 0 THEN {[to |-> d.from, of |-> Len(received) + 1]} ELSE {})
         /\ DueBefore' = Due
<1>0. received \in Seq(Datagram)
  BY DEF UdpServerInv, TypeOK
<1>1. /\ Len(received') = Len(received) + 1 /\ Len(received) \in Nat
      /\ DOMAIN received = 1 .. Len(received)
      /\ DOMAIN received' = 1 .. Len(received) + 1
      /\ received'[Len(received) + 1] = d
      /\ \A k \in 1 .. Len(received) : received'[k] = received[k]
  <2> HIDE DEF Datagram
  <2> QED
    BY <1>0
<1>2. Due' = Due \cup (IF d.len > 0 THEN {[to |-> d.from, of |-> Len(received) + 1]} ELSE {})
  BY <1>1 DEF Due
<1>3. \A reply \in Due : reply.of \in 1 .. Len(received)
  BY <1>1 DEF Due
<1>4. \A reply : reply \in DueBefore' <=> reply \in Due' /\ reply.of < Len(received')
  BY DEF DueBefore
<1>5. ASSUME NEW reply PROVE reply \in DueBefore' <=> reply \in Due
  <2>1. CASE reply \in Due
    BY <1>1, <1>2, <1>3, <1>4, <2>1
  <2>2. CASE reply \notin Due
    <3>1. reply \in Due' => reply.of = Len(received')
      BY <1>1, <1>2, <2>2
    <3> QED
      BY <1>1, <1>4, <2>2, <3>1
  <2> QED
    BY <2>1, <2>2
<1> QED
  BY <1>2, <1>5

(* A datagram is received. *)
LEMMA ReceiveKeeps ==
  ASSUME UdpServerInv, Receive
  PROVE  UdpServerInv'
<1> DEFINE d == Head(queue)
<1>0. ThreadOK /\ TypeOK /\ Bounded
  BY DEF UdpServerInv
<1>1. /\ UNCHANGED <<process, running, server, main, replies>>
      /\ listener.pc = "recvfrom" /\ queue # <<>>
      /\ received' = Append(received, d) /\ queue' = Tail(queue)
  BY DEF Receive, ReceiveFrom
<1>2. d \in Datagram /\ queue' \in Seq(Datagram) /\ Len(queue') = Len(queue) - 1
  BY <1>0, <1>1 DEF TypeOK
<1>3. d.from \in Addrs /\ d.len \in Nat
  BY <1>2 DEF Datagram
<1>4. IF d.len = 0 THEN listener' = [listener EXCEPT !.pc = "check"]
      ELSE listener' = [pc |-> "ack", client_addr |-> d.from, bytes_received |-> Cut(d.len)]
  BY DEF Receive, ReceiveFrom, ListenerGoto
<1>5. Cut(d.len) \in 0 .. BufferSize - 1
  BY <1>3 DEF Cut
<1>6. /\ received' \in Seq(Datagram) /\ Len(received') = Len(received) + 1
      /\ received'[Len(received')] = d
  <2> HIDE DEF d
  <2> QED
    BY <1>0, <1>1, <1>2 DEF TypeOK
<1> HIDE DEF d
<1>7. listener'.pc = (IF d.len = 0 THEN "check" ELSE "ack")
      /\ (d.len # 0 => listener'.client_addr = d.from)
  BY <1>0, <1>4 DEF TypeOK
<1>8. TypeOK'
  <2>1. listener' \in [pc : {"none", "check", "call", "recvfrom", "ack", "exited"},
                       client_addr : Addrs \cup {NoAddr}, bytes_received : 0 .. BufferSize - 1]
    <3>1. CASE d.len = 0
      BY <1>0, <1>4, <3>1 DEF TypeOK
    <3>2. CASE d.len # 0
      BY <1>3, <1>4, <1>5, <3>2
    <3> QED
      BY <3>1, <3>2
  <2> QED
    BY <1>0, <1>1, <1>2, <1>6, <2>1 DEF TypeOK
<1>9. Bounded'
  BY <1>0, <1>2, <1>6 DEF Bounded, TypeOK
<1>10. ThreadOK'
  BY <1>0, <1>1, <1>7 DEF ThreadOK
<1>11. AnswerOK'
  BY <1>0, <1>3, <1>6, <1>7 DEF AnswerOK, TypeOK
<1>12. Answered = Due /\ Answered' = Answered
  BY <1>1 DEF UdpServerInv, LossIsLast, Answered
<1>13. Due' = Due \cup (IF d.len > 0 THEN {[to |-> d.from, of |-> Len(received) + 1]} ELSE {})
       /\ DueBefore' = Due
  BY <1>1, <1>2, DueGrows
<1>14. IF listener'.pc = "ack" THEN Answered' = DueBefore' ELSE Answered' = Due'
  BY <1>3, <1>7, <1>12, <1>13
<1>15. EachIsAcknowledged' /\ LossIsLast'
  BY <1>1, <1>14 DEF UdpServerInv, EachIsAcknowledged, LossIsLast
<1> QED
  BY <1>8, <1>9, <1>10, <1>11, <1>15 DEF UdpServerInv

(* The answers due are the earlier ones and, before sendto, the one to     *)
(* client_addr.                                                            *)
LEMMA LastDue ==
  ASSUME UdpServerInv, listener.pc = "ack"
  PROVE  Due = DueBefore \cup {[to |-> listener.client_addr, of |-> Len(received)]}
<1>1. /\ Len(received) \in Nat /\ Len(received) > 0 /\ DOMAIN received = 1 .. Len(received)
      /\ received[Len(received)].len > 0
      /\ listener.client_addr = received[Len(received)].from
  BY DEF UdpServerInv, TypeOK, AnswerOK
<1>2. ASSUME NEW k \in DOMAIN received PROVE k = Len(received) \/ k < Len(received)
  BY <1>1
<1> QED
  BY <1>1, <1>2 DEF Due, DueBefore

(* A datagram is answered, or the answer is lost. *)
LEMMA AcknowledgeKeeps ==
  ASSUME UdpServerInv, Acknowledge
  PROVE  UdpServerInv'
<1> DEFINE Reply == [to : Addrs, of : 1 .. MaxReceived]
           reply == [to |-> listener.client_addr, of |-> Len(received)]
<1>0. ThreadOK /\ TypeOK /\ Bounded /\ AnswerOK /\ EachIsAcknowledged
  BY DEF UdpServerInv
<1>1. /\ UNCHANGED <<process, running, server, main, queue, received>>
      /\ listener.pc = "ack"
      /\ replies' = IF server = "open" THEN Append(replies, reply) ELSE replies
      /\ listener' = [listener EXCEPT !.pc = "check"]
  BY DEF Acknowledge, ListenerGoto
<1>2. Len(received) \in DOMAIN received /\ Len(received) \in 1 .. MaxReceived
  BY <1>0, <1>1 DEF TypeOK, Bounded, AnswerOK
<1>3. reply \in Reply
  <2>1. received[Len(received)] \in Datagram
    BY <1>0, <1>2 DEF TypeOK
  <2>2. listener.client_addr \in Addrs
    BY <1>0, <1>1, <2>1 DEF AnswerOK, Datagram
  <2> QED
    BY <1>2, <2>2
<1>4. replies \in Seq(Reply)
  BY <1>0 DEF TypeOK
<1>5. \A r \in Answered : r.of < Len(received)
  BY <1>0, <1>1 DEF EachIsAcknowledged, DueBefore
<1>6. reply.of = Len(received)
  OBVIOUS
<1> HIDE DEF reply, Reply
<1>7. replies' \in Seq(Reply)
  BY <1>1, <1>3, <1>4
<1>8. TypeOK'
  <2>1. listener' \in [pc : {"none", "check", "call", "recvfrom", "ack", "exited"},
                       client_addr : Addrs \cup {NoAddr}, bytes_received : 0 .. BufferSize - 1]
    BY <1>0, <1>1 DEF TypeOK
  <2> QED
    BY <1>0, <1>1, <1>7, <2>1 DEF TypeOK, Reply
<1>9. listener'.pc = "check"
  BY <1>0, <1>1 DEF TypeOK
<1>10. Bounded' /\ ThreadOK' /\ AnswerOK'
  BY <1>0, <1>1, <1>9 DEF Bounded, ThreadOK, AnswerOK
<1>11. Due = DueBefore \cup {reply} /\ Due' = Due /\ DueBefore' = DueBefore
  BY <1>1, LastDue DEF reply, Due, DueBefore
<1>12. Answered = DueBefore
  BY <1>0, <1>1 DEF EachIsAcknowledged
<1>13. CASE server = "open"
  <2>1. replies' = Append(replies, reply)
    BY <1>1, <1>13
  <2>2. /\ DOMAIN replies = 1 .. Len(replies) /\ DOMAIN replies' = 1 .. Len(replies) + 1
        /\ Len(replies) \in Nat
        /\ replies'[Len(replies) + 1] = reply
        /\ \A k \in 1 .. Len(replies) : replies'[k] = replies[k]
    BY <1>3, <1>4, <2>1
  <2>3. Answered' = Answered \cup {reply}
    BY <2>2 DEF Answered
  <2>4. ASSUME NEW i \in DOMAIN replies', NEW j \in DOMAIN replies', i < j
        PROVE replies'[i].of < replies'[j].of
    <3>1. i \in DOMAIN replies /\ replies'[i] = replies[i] /\ replies[i] \in Answered
      BY <2>2, <2>4 DEF Answered
    <3>2. CASE j = Len(replies) + 1
      BY <1>5, <1>6, <2>2, <3>1, <3>2
    <3>3. CASE j # Len(replies) + 1
      BY <1>0, <2>2, <2>4, <3>1, <3>3 DEF EachIsAcknowledged
    <3> QED
      BY <3>2, <3>3
  <2>5. Answered' = Due'
    BY <1>11, <1>12, <2>3
  <2>6. EachIsAcknowledged' /\ LossIsLast'
    BY <1>9, <2>4, <2>5 DEF EachIsAcknowledged, LossIsLast
  <2> QED
    BY <1>8, <1>10, <2>6 DEF UdpServerInv
<1>14. CASE server # "open"
  <2>1. replies' = replies /\ Answered' = DueBefore'
    BY <1>1, <1>11, <1>12, <1>14 DEF Answered
  <2>2. server' = "closed"
    BY <1>0, <1>1, <1>14 DEF TypeOK, ThreadOK, NextStep
  <2>3. EachIsAcknowledged' /\ LossIsLast'
    BY <1>0, <1>9, <2>1, <2>2 DEF EachIsAcknowledged, LossIsLast
  <2> QED
    BY <1>8, <1>10, <2>3 DEF UdpServerInv
<1> QED
  BY <1>13, <1>14

-----------------------------------------------------------------------------
(* Every step preserves the invariant. *)
LEMMA UdpServerInvNext ==
  ASSUME UdpServerInv, [Next]_vars
  PROVE  UdpServerInv'
<1>1. CASE UNCHANGED vars
  <2>1. UNCHANGED <<process, running, server, main, listener, received, replies, queue>>
    BY <1>1 DEF vars, listening
  <2>2. TypeOK'
    BY <2>1 DEF UdpServerInv, TypeOK
  <2>3. Bounded' /\ ThreadOK'
    BY <2>1 DEF UdpServerInv, Bounded, ThreadOK
  <2>4. AnswerOK' /\ EachIsAcknowledged' /\ LossIsLast'
    BY <2>1, AnswersKept
  <2> QED
    BY <2>2, <2>3, <2>4 DEF UdpServerInv
<1>2. CASE Next /\ ~UNCHANGED vars
  BY <1>2, StartKeeps, ListenKeeps, ReceiveKeeps, AcknowledgeKeeps, StopKeeps, ArriveKeeps
     DEF Next, Ended, Listener
<1> QED
  BY <1>1, <1>2

(* A lost answer needs a closed socket and a listener that is out of       *)
(* recvfrom, and client_addr is always that of the datagram to be answered *)
(* next: this holds in every reachable state.                              *)
THEOREM UdpServerInvariant == Spec => []UdpServerInv
BY UdpServerInvInit, UdpServerInvNext, PTL DEF Spec

(* Every variable keeps its type; in particular, the byte that udp_listen  *)
(* writes behind a datagram is in the buffer, and every answer is to a     *)
(* client.                                                                 *)
THEOREM UdpServerTypeCorrect == Spec => []TypeOK
<1>1. UdpServerInv => TypeOK
  BY DEF UdpServerInv
<1> QED
  BY <1>1, UdpServerInvariant, PTL

(* udp_listen answers every datagram that is not empty once, in order and  *)
(* to its sender; at most the last answer is lost, to a stop().            *)
THEOREM EveryDatagramAnswered == Spec => []EachIsAcknowledged
<1>1. UdpServerInv => EachIsAcknowledged
  BY DEF UdpServerInv
<1> QED
  BY <1>1, UdpServerInvariant, PTL

-----------------------------------------------------------------------------
(* Client and server together *)

USE UdpChatAssumption

(* The server ends before its socket is bound or after it is closed and    *)
(* its thread gone: nothing arrives at a process that has ended.           *)
EndOK ==
  /\ process = "failed" => main \in DOMAIN NextStep
  /\ process = "returned" => main = "return"
  /\ main \in {"join", "return"} => server = "closed"
  /\ main = "return" => listener.pc = "exited"

Line == [size : Sizes, taken : Nat, result : {"pending", "sent", "refused"}]

Unit == {"ack", "ok", "text"}

(* The client uses UDP, where nothing cuts a link or takes a part of a     *)
(* line.                                                                   *)
ClientOK ==
  /\ link \in {"down", "up"} /\ (link = "up" => protocol = "UDP")
  /\ protocol \in {"UDP", "other"}
  /\ is_connected \/ clientMain \in {"send", "blocked"} => link = "up"
  /\ clientMain \in {"configure", "run"} => link = "down"
  /\ lines \in Seq(Line) /\ Len(lines) <= MaxLines
  /\ clientMain \in {"check", "send", "blocked"} =>
       /\ lines # <<>>
       /\ lines[Len(lines)].taken = 0 /\ lines[Len(lines)].result = "pending"
  /\ link = "down" => SentLines(lines) = {}
  /\ inbound \in Seq(Unit) /\ arrived \in Seq(Unit)

(* What the socket of the client buffers: the parts of the lines that are  *)
(* on their way.                                                           *)
Parts(sending, typed) ==
  {part \in sending \X (1 .. SendSpace) : part[2] <= typed[part[1]].size}

QueuedOK ==
  /\ outward \subseteq SentLines(lines)
  /\ queued \in Nat
  /\ clientProcess = "up" => queued = Cardinality(Parts(outward, lines))

(* What has come to the server, in order. *)
came == received \o queue
FromMe(datagrams) == {k \in DOMAIN datagrams : datagrams[k].from = Me}
FullFromMe(datagrams) == {k \in FromMe(datagrams) : datagrams[k].len > 0}

RepeatedOK == repeated \subseteq SentLines(lines) /\ Cardinality(repeated) <= MaxRepeated

(* A line is on its way or has come to the server, and only once, but for  *)
(* the copies that the network has made.                                   *)
LinesOnce ==
  /\ RepeatedOK
  /\ Cardinality(outward) + Cardinality(FromMe(came))
       <= Cardinality(SentLines(lines)) + Cardinality(repeated)
  /\ Cardinality(outward \cap Owed) + Cardinality(FullFromMe(came))
       <= Cardinality(Owed) + Cardinality(repeated \cap Owed)
  /\ Cardinality(FromOthers(came)) <= MaxOthers

Positions(s, T) == {k \in DOMAIN s : s[k] \in T}

(* An answer is on its way or has come to the client, and only once; what  *)
(* else comes to the client is bounded.                                    *)
ForMe == {k \in DOMAIN replies : replies[k].to = Me}

AnswersOnce ==
  /\ homeward \subseteq ForMe
  /\ Cardinality(Positions(arrived, {"ack"})) + Cardinality(homeward) <= Cardinality(ForMe)
  /\ Cardinality(Positions(arrived, PeerTexts)) <= MaxStrays

(* Each datagram that has arrived has been shown, in order, or waits; and  *)
(* what was shown as a delivery reads "OK".                                *)
ReadsOK == {"ack", "ok"}
Shown == [as : {"delivered", "received"}, chunk : Seq(Unit)]

ShownOnce ==
  /\ shown \in Seq(Shown)
  /\ Len(arrived) = Len(shown) + Len(inbound)
  /\ \A k \in 1 .. Len(inbound) : inbound[k] = arrived[Len(shown) + k]
  /\ \A k \in 1 .. Len(shown) : shown[k].as = "delivered" => arrived[k] \in ReadsOK

ChatInv ==
  /\ UdpServerInv /\ EndOK
  /\ ClientOK /\ QueuedOK /\ LinesOnce /\ AnswersOnce /\ ShownOnce

-----------------------------------------------------------------------------
(* Counting *)

(* The first n naturals are n. *)
LEMMA UpTo == \A n \in Nat : IsFiniteSet(1 .. n) /\ Cardinality(1 .. n) = n
<1> TAKE n \in Nat
<1> QED
  BY FS_Interval

(* An element more counts one more, if it counts. *)
LEMMA PositionsAppend ==
  ASSUME NEW S, NEW s \in Seq(S), NEW e \in S, NEW T
  PROVE  /\ IsFiniteSet(Positions(s, T)) /\ Cardinality(Positions(s, T)) \in Nat
         /\ Cardinality(Positions(Append(s, e), T))
              = Cardinality(Positions(s, T)) + (IF e \in T THEN 1 ELSE 0)
<1>1. /\ Len(s) \in Nat /\ DOMAIN s = 1 .. Len(s)
      /\ DOMAIN Append(s, e) = 1 .. Len(s) + 1
      /\ Append(s, e)[Len(s) + 1] = e
      /\ \A k \in 1 .. Len(s) : Append(s, e)[k] = s[k]
  OBVIOUS
<1>2. IsFiniteSet(Positions(s, T)) /\ Cardinality(Positions(s, T)) \in Nat
  <2>0. 1 \in Int /\ Len(s) \in Int
    BY <1>1
  <2>1. IsFiniteSet(1 .. Len(s))
    BY <2>0, FS_Interval, Zenon
  <2>2. Positions(s, T) \in SUBSET (1 .. Len(s))
    BY <1>1 DEF Positions
  <2> QED
    BY <2>1, <2>2, FS_Subset, FS_CardinalityType
<1>3. Positions(Append(s, e), T)
        = IF e \in T THEN Positions(s, T) \cup {Len(s) + 1} ELSE Positions(s, T)
  BY <1>1 DEF Positions
<1>4. Len(s) + 1 \notin Positions(s, T)
  BY <1>1 DEF Positions
<1> DEFINE P == Positions(s, T)
<1> HIDE DEF P
<1>5. IsFiniteSet(P) /\ Cardinality(P \cup {Len(s) + 1})
        = IF Len(s) + 1 \in P THEN Cardinality(P) ELSE Cardinality(P) + 1
  BY <1>2, FS_AddElement DEF P
<1> QED
  BY <1>2, <1>3, <1>4, <1>5 DEF P

(* The beginning of a sequence counts no more than the whole. *)
LEMMA PositionsPrefix ==
  ASSUME NEW S, NEW s \in Seq(S), NEW t \in Seq(S), NEW T,
         Len(t) <= Len(s), \A k \in 1 .. Len(t) : t[k] = s[k]
  PROVE  /\ IsFiniteSet(Positions(s, T)) /\ Cardinality(Positions(s, T)) \in Nat
         /\ Positions(t, T) \subseteq Positions(s, T)
         /\ IsFiniteSet(Positions(t, T)) /\ Cardinality(Positions(t, T)) \in Nat
         /\ Cardinality(Positions(t, T)) <= Cardinality(Positions(s, T))
<1>1. /\ Len(s) \in Nat /\ DOMAIN s = 1 .. Len(s)
      /\ Len(t) \in Nat /\ DOMAIN t = 1 .. Len(t)
  OBVIOUS
<1>2. IsFiniteSet(1 .. Len(s)) /\ Positions(s, T) \in SUBSET (1 .. Len(s))
  BY <1>1, FS_Interval DEF Positions
<1>3. IsFiniteSet(Positions(s, T))
  BY <1>2, FS_Subset
<1>4. Positions(t, T) \in SUBSET Positions(s, T)
  BY <1>1 DEF Positions
<1> QED
  BY <1>3, <1>4, FS_Subset, FS_CardinalityType

(* Positions of two kinds are as many as those of either kind together.    *)
LEMMA PositionsSplit ==
  ASSUME NEW S, NEW s \in Seq(S), NEW T, NEW U, T \cap U = {}
  PROVE  /\ Cardinality(Positions(s, T)) \in Nat /\ Cardinality(Positions(s, U)) \in Nat
         /\ Cardinality(Positions(s, T \cup U))
              = Cardinality(Positions(s, T)) + Cardinality(Positions(s, U))
<1> DEFINE P == Positions(s, T)
           Q == Positions(s, U)
<1>1. Len(s) <= Len(s) /\ \A k \in 1 .. Len(s) : s[k] = s[k]
  BY Len(s) \in Nat
<1>2. /\ IsFiniteSet(P) /\ Cardinality(P) \in Nat
      /\ IsFiniteSet(Q) /\ Cardinality(Q) \in Nat
  BY <1>1, PositionsPrefix
<1>3. Positions(s, T \cup U) = P \cup Q /\ P \cap Q = {}
  BY DEF Positions
<1> HIDE DEF P, Q
<1>4. Cardinality(P \cup Q) = Cardinality(P) + Cardinality(Q) - Cardinality({})
  BY <1>2, <1>3, FS_Union
<1>5. Cardinality(P \cup Q) = Cardinality(P) + Cardinality(Q)
  BY <1>2, <1>4, FS_EmptySet
<1> QED
  BY <1>2, <1>3, <1>5 DEF P, Q

(* Whatever has arrived is an answer or a stray.                           *)
LEMMA ArrivedCounts ==
  ASSUME ClientOK
  PROVE  /\ Len(arrived) \in Nat /\ Cardinality(Positions(arrived, {"ack"})) \in Nat
         /\ Cardinality(Positions(arrived, PeerTexts)) \in Nat
         /\ Len(arrived) = Cardinality(Positions(arrived, {"ack"}))
                             + Cardinality(Positions(arrived, PeerTexts))
         /\ IsFiniteSet(Positions(arrived, ReadsOK))
         /\ Cardinality(Positions(arrived, ReadsOK)) \in Nat
         /\ Cardinality(Strays) \in Nat
         /\ Cardinality(Positions(arrived, ReadsOK))
              = Cardinality(Positions(arrived, {"ack"})) + Cardinality(Strays)
<1>1. arrived \in Seq(Unit) /\ Len(arrived) \in Nat
  BY DEF ClientOK
<1>2. /\ {"ack"} \cap PeerTexts = {} /\ {"ack"} \cup PeerTexts = Unit
      /\ {"ack"} \cap {"ok"} = {} /\ {"ack"} \cup {"ok"} = ReadsOK
  BY DEF PeerTexts, Unit, ReadsOK
<1>3. Positions(arrived, Unit) = 1 .. Len(arrived)
  <2> HIDE DEF Unit
  <2> QED
    BY <1>1 DEF Positions
<1>4. Strays = Positions(arrived, {"ok"})
  BY DEF Strays, Positions
<1>5. Cardinality(1 .. Len(arrived)) = Len(arrived)
  BY <1>1, UpTo
<1>6. \A T, U : T \cap U = {} =>
         /\ Cardinality(Positions(arrived, T)) \in Nat /\ Cardinality(Positions(arrived, U)) \in Nat
         /\ Cardinality(Positions(arrived, T \cup U))
              = Cardinality(Positions(arrived, T)) + Cardinality(Positions(arrived, U))
  BY <1>1, PositionsSplit
<1>7. IsFiniteSet(Positions(arrived, ReadsOK)) /\ Cardinality(Positions(arrived, ReadsOK)) \in Nat
  <2>1. Len(arrived) <= Len(arrived) /\ \A k \in 1 .. Len(arrived) : arrived[k] = arrived[k]
    BY <1>1
  <2> QED
    BY <1>1, <2>1, PositionsPrefix
<1>8. /\ Cardinality(Positions(arrived, {"ack"})) \in Nat
      /\ Cardinality(Positions(arrived, PeerTexts)) \in Nat
      /\ Cardinality(Positions(arrived, Unit))
           = Cardinality(Positions(arrived, {"ack"})) + Cardinality(Positions(arrived, PeerTexts))
  BY <1>2, <1>6
<1>9. /\ Cardinality(Positions(arrived, {"ok"})) \in Nat
      /\ Cardinality(Positions(arrived, ReadsOK))
           = Cardinality(Positions(arrived, {"ack"})) + Cardinality(Positions(arrived, {"ok"}))
  BY <1>2, <1>6
<1> QED
  BY <1>1, <1>3, <1>4, <1>5, <1>7, <1>8, <1>9

-----------------------------------------------------------------------------
(* The server *)

(* Every step of the server preserves what is said of its end. *)
LEMMA EndKeeps ==
  ASSUME UdpServerInv, EndOK, [Next]_vars
  PROVE  EndOK'
<1>0. /\ ThreadOK /\ TypeOK
      /\ DOMAIN NextStep = {"configure", "socket", "setsockopt", "ioctl", "bind"}
  BY StartLabels DEF UdpServerInv
<1>1. CASE process = "up" /\ Start
  BY <1>0, <1>1, StartLabels DEF Start, StartStep, StartFails, StartThread, EndOK, listening
<1>2. CASE Listener
  <2>1. UNCHANGED <<process, running, server, main>>
    BY <1>2 DEF Listener, ListenerCheck, ListenWhile, ListenerCall, Receive, ReceiveFrom, Acknowledge
  <2>2. listener.pc # "exited"
    BY <1>2 DEF Listener, ListenerCheck, ListenWhile, ListenerCall, Receive, ReceiveFrom, Acknowledge
  <2> QED
    BY <2>1, <2>2 DEF EndOK
<1>3. CASE Command \/ Stop
  BY <1>0, <1>3 DEF Command, Stop, CloseServer, JoinListener, MainReturn, EndOK, listening
<1>4. CASE Arrive
  BY <1>4 DEF Arrive, EndOK, listening
<1>5. CASE UNCHANGED vars
  BY <1>5 DEF vars, listening, EndOK
<1> QED
  BY <1>1, <1>2, <1>3, <1>4, <1>5 DEF Next, Ended

(* A bound socket is that of a process that has not ended. *)
LEMMA BoundIsUp ==
  ASSUME UdpServerInv, EndOK, Bound
  PROVE  process = "up"
<1>0. /\ ThreadOK /\ TypeOK
      /\ DOMAIN NextStep = {"configure", "socket", "setsockopt", "ioctl", "bind"}
  BY StartLabels DEF UdpServerInv
<1> QED
  BY <1>0 DEF Bound, EndOK, ThreadOK, TypeOK

(* What has come to the server stays, but for the datagrams that are       *)
(* dropped with the socket.                                                *)
LEMMA ServerKeepsCome ==
  ASSUME UdpServerInv, Start \/ Listener \/ Command \/ Stop
  PROVE  /\ came \in Seq(Datagram) /\ came' \in Seq(Datagram)
         /\ Len(came') <= Len(came)
         /\ \A k \in 1 .. Len(came') : came'[k] = came[k]
<1>0. queue \in Seq(Datagram) /\ received \in Seq(Datagram)
  BY DEF UdpServerInv, TypeOK
<1> HIDE DEF Datagram
<1>1. CASE UNCHANGED <<received, queue>>
  BY <1>0, <1>1 DEF came
<1>2. CASE Receive
  <2>1. queue # <<>> /\ received' = Append(received, Head(queue)) /\ queue' = Tail(queue)
    BY <1>2 DEF Receive, ReceiveFrom
  <2>2. Append(received, Head(queue)) \o Tail(queue) = received \o queue
    BY <1>0, <2>1
  <2>3. came' = came
    BY <2>1, <2>2 DEF came
  <2>4. came \in Seq(Datagram) /\ Len(came) <= Len(came)
    BY <1>0 DEF came
  <2> QED
    BY <2>3, <2>4
<1>3. CASE queue' = <<>> /\ received' = received
  BY <1>0, <1>3 DEF came
<1> QED
  BY <1>1, <1>2, <1>3
     DEF Start, StartStep, StartFails, StartThread, Listener, ListenerCheck, ListenWhile,
         ListenerCall, Acknowledge, Command, Stop, CloseServer, JoinListener, MainReturn,
         listening

-----------------------------------------------------------------------------
(* The client *)

(* send_message comes back, or goes on waiting. *)
LEMMA LineChanges ==
  ASSUME ClientOK, lines # <<>>, lines[Len(lines)].result = "pending",
         NEW n \in Nat, NEW result \in {"pending", "sent", "refused"},
         Chatter!SendTakes(n, result)
  PROVE  /\ lines' \in Seq(Line) /\ Len(lines') = Len(lines)
         /\ \A k \in DOMAIN lines : lines'[k].size = lines[k].size
         /\ lines'[Len(lines)].taken = lines[Len(lines)].taken + n
         /\ lines'[Len(lines)].result = result
         /\ Len(lines) \in DOMAIN lines /\ Len(lines) \notin SentLines(lines)
         /\ SentLines(lines') = IF result = "sent" THEN SentLines(lines) \cup {Len(lines)}
                                ELSE SentLines(lines)
<1> DEFINE j == Len(lines)
           m == [size |-> lines[j].size, taken |-> lines[j].taken + n, result |-> result]
<1>1. /\ lines \in Seq(Line) /\ j \in Nat /\ DOMAIN lines = 1 .. j /\ j \in DOMAIN lines
      /\ lines[j] \in Line
  BY DEF ClientOK
<1>2. m \in Line
  BY <1>1 DEF Line
<1>3. lines' = [lines EXCEPT ![j] = m]
  BY DEF Chatter!SendTakes
<1>4. m.size = lines[j].size /\ m.taken = lines[j].taken + n /\ m.result = result
  OBVIOUS
<1> HIDE DEF m
<1>5. /\ lines' \in Seq(Line) /\ Len(lines') = j /\ DOMAIN lines' = DOMAIN lines
      /\ lines'[j] = m /\ \A k \in DOMAIN lines : k # j => lines'[k] = lines[k]
  BY <1>1, <1>2, <1>3
<1>6. SentLines(lines') = IF result = "sent" THEN SentLines(lines) \cup {j} ELSE SentLines(lines)
  BY <1>1, <1>4, <1>5 DEF SentLines
<1>7. j \notin SentLines(lines)
  BY DEF SentLines
<1> QED
  BY <1>1, <1>4, <1>5, <1>6, <1>7

(* What a step of the client does to the lines: none is sent, or the one   *)
(* at hand is, whole.                                                      *)
OneSent(k) ==
  /\ k \notin SentLines(lines) /\ SentLines(lines') = SentLines(lines) \cup {k}
  /\ queued' = queued + lines[k].size

LinesGoOn ==
  /\ DOMAIN lines \subseteq DOMAIN lines'
  /\ \A k \in DOMAIN lines : lines'[k].size = lines[k].size
  /\ \/ SentLines(lines') = SentLines(lines) /\ queued' = queued
     \/ \E k \in DOMAIN lines : OneSent(k)

(* A line is taken by the kernel whole, or refused, or waits. *)
LEMMA SendMessageKeeps ==
  ASSUME ClientOK, queued \in Nat, Chatter!SendMessage
  PROVE  ClientOK' /\ LinesGoOn /\ UNCHANGED <<inbound, arrived, shown>>
<1> DEFINE j == Len(lines)
<1>0. clientMain \in {"check", "send", "blocked"}
  BY DEF Chatter!SendMessage, Chatter!CheckConnected, Chatter!Send, Chatter!SendOr,
         Chatter!SendUnblocked, Chatter!SendFails
<1>1. /\ lines \in Seq(Line) /\ lines # <<>> /\ j \in Nat /\ DOMAIN lines = 1 .. j
      /\ j \in DOMAIN lines /\ lines[j] \in Line
      /\ lines[j].taken = 0 /\ lines[j].result = "pending"
  BY <1>0 DEF ClientOK
<1>2. lines[j].size \in Nat /\ Chatter!Left = lines[j].size
  <2>1. lines[j].size \in Sizes
    BY <1>1 DEF Line
  <2>2. \A x \in Sizes : x \in Nat
    OBVIOUS
  <2>3. Chatter!Left = lines[j].size - lines[j].taken
    BY DEF Chatter!Left
  <2>4. lines[j].taken = 0
    BY <1>1
  <2>5. lines[j].size \in Nat
    BY <2>1, <2>2
  <2>6. Chatter!Left = lines[j].size - 0
    BY <2>3, <2>4, Zenon
  <2> HIDE DEF j
  <2> QED
    BY <2>5, <2>6
<1>3. /\ UNCHANGED <<protocol, is_connected, clientRunning, sock, nonblocking, receiver, link,
                     inbound, arrived, shown>>
  BY DEF Chatter!SendMessage, Chatter!CheckConnected, Chatter!Send, Chatter!SendOr,
         Chatter!SendUnblocked, Chatter!SendFails, Chatter!flags
<1>4. \/ clientMain' = "send" /\ is_connected /\ UNCHANGED <<lines, queued>>
      \/ Chatter!SendTakes(0, "refused")
      \/ clientMain \in {"send", "blocked"} /\ Chatter!SendTakes(0, "pending")
      \/ clientMain \in {"send", "blocked"} /\ Chatter!SendTakes(lines[j].size, "sent")
  <2>1. CASE Chatter!CheckConnected
    BY <2>1 DEF Chatter!CheckConnected
  <2>2. CASE clientMain \in {"send", "blocked"}
    <3>1. link = "up" /\ protocol = "UDP"
      BY <2>2 DEF ClientOK
    <3>2. Chatter!Fitting = IF lines[j].size <= SendSpace - queued THEN lines[j].size ELSE 0
      BY <1>2, <3>1 DEF Chatter!Fitting
    <3>3. CASE Chatter!Send
      <4>1. CASE Chatter!Fitting = Chatter!Left
        BY <1>2, <2>2, <3>3, <4>1 DEF Chatter!Send, Chatter!SendOr
      <4>2. CASE Chatter!Fitting # Chatter!Left
        <5>1. Chatter!Fitting = 0
          BY <1>2, <3>2, <4>2
        <5> QED
          BY <2>2, <3>3, <4>2, <5>1 DEF Chatter!Send, Chatter!SendOr
      <4> QED
        BY <4>1, <4>2
    <3>4. CASE Chatter!SendUnblocked
      <4>1. Chatter!Fitting = lines[j].size /\ Chatter!Fitting = Chatter!Left
        BY <1>2, <3>2, <3>4 DEF Chatter!SendUnblocked
      <4> QED
        BY <2>2, <3>4, <4>1 DEF Chatter!SendUnblocked
    <3>5. ~Chatter!SendFails /\ ~Chatter!CheckConnected
      BY <2>2, <3>1 DEF Chatter!SendFails, Chatter!CheckConnected
    <3> QED
      BY <3>3, <3>4, <3>5 DEF Chatter!SendMessage
  <2>3. CASE clientMain = "check" /\ ~Chatter!CheckConnected
    BY <2>3 DEF Chatter!SendMessage, Chatter!Send, Chatter!SendOr, Chatter!SendUnblocked,
                Chatter!SendFails
  <2> QED
    BY <1>0, <2>1, <2>2, <2>3
<1>5. CASE clientMain' = "send" /\ is_connected /\ UNCHANGED <<lines, queued>>
  <2>1. ClientOK'
    BY <1>1, <1>3, <1>5 DEF ClientOK
  <2>2. LinesGoOn
    BY <1>5 DEF LinesGoOn
  <2> QED
    BY <1>3, <2>1, <2>2
<1>6. ASSUME NEW n \in Nat, NEW result \in {"pending", "sent", "refused"},
             Chatter!SendTakes(n, result), result # "sent" => n = 0,
             result = "sent" => n = lines[j].size,
             result # "refused" => clientMain \in {"send", "blocked"}
      PROVE  ClientOK' /\ LinesGoOn
  <2>1. /\ lines' \in Seq(Line) /\ Len(lines') = Len(lines)
        /\ \A k \in DOMAIN lines : lines'[k].size = lines[k].size
        /\ lines'[j].taken = 0 + n /\ lines'[j].result = result
        /\ j \in DOMAIN lines /\ j \notin SentLines(lines)
        /\ SentLines(lines') = IF result = "sent" THEN SentLines(lines) \cup {j}
                               ELSE SentLines(lines)
    BY <1>1, <1>6, LineChanges
  <2>2. /\ clientMain' = IF result = "pending" THEN "blocked" ELSE "input"
        /\ queued' = queued + n
    BY <1>6 DEF Chatter!SendTakes
  <2>3. lines' # <<>> /\ DOMAIN lines' = DOMAIN lines
    BY <1>1, <2>1
  <2>4. result # "refused" => link = "up"
    BY <1>6 DEF ClientOK
  <2>5. ClientOK'
    BY <1>3, <1>6, <2>1, <2>2, <2>3, <2>4 DEF ClientOK
  <2>6. LinesGoOn
    <3>1. CASE result = "sent"
      BY <1>6, <2>1, <2>2, <2>3, <3>1 DEF LinesGoOn, OneSent
    <3>2. CASE result # "sent"
      BY <1>6, <2>1, <2>2, <2>3, <3>2 DEF LinesGoOn
    <3> QED
      BY <3>1, <3>2
  <2> QED
    BY <2>5, <2>6
<1> QED
  BY <1>2, <1>3, <1>4, <1>5, <1>6

(* The steps of main around the sending. *)
LEMMA MainKeeps ==
  ASSUME ClientOK, ClientStart \/ Chatter!Exit \/ Chatter!Stop
  PROVE  ClientOK' /\ UNCHANGED <<lines, queued, inbound, arrived, shown>>
<1>1. UNCHANGED <<lines, queued, inbound, arrived, shown>>
  BY DEF ClientStart, Chatter!Configure, Chatter!ConfigureFails, Chatter!RunUDP, Chatter!Started,
         Chatter!RunFails, Chatter!Exit, Chatter!Stop, Chatter!Join, Chatter!JoinWhen,
         Chatter!CloseSock, Chatter!Return, Chatter!kernel
<1>2. CASE Chatter!Configure /\ protocol' = "UDP"
  BY <1>1, <1>2 DEF Chatter!Configure, Chatter!kernel, ClientOK
<1>3. CASE Chatter!ConfigureFails
  BY <1>1, <1>3 DEF Chatter!ConfigureFails, Chatter!kernel, Chatter!flags, ClientOK
<1>4. CASE Chatter!RunUDP
  BY <1>1, <1>4 DEF Chatter!RunUDP, Chatter!Started, ClientOK
<1>5. CASE Chatter!RunFails
  BY <1>1, <1>5 DEF Chatter!RunFails, Chatter!kernel, ClientOK
<1>6. CASE Chatter!Exit \/ Chatter!Stop
  BY <1>1, <1>6 DEF Chatter!Exit, Chatter!Stop, Chatter!Join, Chatter!JoinWhen,
                    Chatter!CloseSock, Chatter!Return, Chatter!kernel, Chatter!flags, ClientOK
<1> QED
  BY <1>1, <1>2, <1>3, <1>4, <1>5, <1>6 DEF ClientStart

(* The user types a line. *)
LEMMA TypeKeeps ==
  ASSUME ClientOK, NEW size \in Sizes, Chatter!Type(size)
  PROVE  ClientOK' /\ LinesGoOn /\ UNCHANGED <<queued, inbound, arrived, shown>>
<1> DEFINE l == [size |-> size, taken |-> 0, result |-> "pending"]
<1>1. lines \in Seq(Line) /\ Len(lines) \in Nat /\ DOMAIN lines = 1 .. Len(lines)
  BY DEF ClientOK
<1>2. l \in Line /\ l.taken = 0 /\ l.result = "pending"
  BY DEF Line
<1>3. /\ lines' = Append(lines, l) /\ Len(lines) < MaxLines /\ clientMain' = "check"
      /\ clientMain = "input"
      /\ UNCHANGED <<protocol, is_connected, link, queued, inbound, arrived, shown>>
  BY DEF Chatter!Type, Chatter!flags, Chatter!kernel
<1> HIDE DEF l
<1>4. /\ lines' \in Seq(Line) /\ Len(lines') = Len(lines) + 1
      /\ DOMAIN lines' = (DOMAIN lines) \cup {Len(lines) + 1}
      /\ lines'[Len(lines) + 1] = l
      /\ \A k \in DOMAIN lines : lines'[k] = lines[k]
  BY <1>1, <1>2, <1>3
<1>5. SentLines(lines') = SentLines(lines)
  BY <1>2, <1>4 DEF SentLines
<1>6. LinesGoOn
  BY <1>3, <1>4, <1>5 DEF LinesGoOn
<1>7. lines' # <<>>
  BY <1>1, <1>4
<1>8. ClientOK'
  BY <1>1, <1>2, <1>3, <1>4, <1>5, <1>7 DEF ClientOK
<1> QED
  BY <1>3, <1>6, <1>8

(* A datagram is received and shown, as a delivery if it reads "OK". *)
ShowsUnit ==
  /\ inbound # <<>> /\ inbound' = Tail(inbound)
  /\ shown' = Append(shown, [as |-> IF Head(inbound) \in ReadsOK THEN "delivered" ELSE "received",
                             chunk |-> <<Head(inbound)>>])

(* The receiver thread sends nothing, and shows only what has arrived. *)
LEMMA ReceiverKeeps ==
  ASSUME ClientOK, Chatter!Receiver
  PROVE  /\ ClientOK' /\ UNCHANGED <<lines, queued, arrived>>
         /\ UNCHANGED <<inbound, shown>> \/ ShowsUnit
<1>0. /\ UNCHANGED <<lines, queued, arrived, protocol, link, clientMain>>
      /\ is_connected' \in {is_connected, FALSE}
  BY DEF Chatter!Receiver, Chatter!ReceiverCheck, Chatter!SetFlags, Chatter!SetFlagsTo,
         Chatter!Receive, Chatter!ReceiveDatagram, Chatter!ReceiveShowing,
         Chatter!ReceiveNothing, Chatter!ReceiveEnd, Chatter!ReceiveEndAnd, Chatter!ReceiverGoto
<1>1. /\ UNCHANGED <<lines, queued, arrived, protocol, link, clientMain>>
      /\ is_connected' => is_connected
  <2>1. is_connected' = is_connected \/ is_connected' = FALSE
    BY <1>0
  <2>2. is_connected' => is_connected
    BY <2>1, Zenon
  <2> QED
    BY <1>0, <2>2
<1>2. UNCHANGED <<inbound, shown>> \/ ShowsUnit
  <2>1. CASE Chatter!ReceiveDatagram
    <3>1. /\ 1 \in 1 .. Len(inbound)
          /\ inbound' = SubSeq(inbound, 2, Len(inbound))
          /\ shown' = Append(shown, [as |-> IF Chatter!IsOK(SubSeq(inbound, 1, 1))
                                            THEN "delivered" ELSE "received",
                                     chunk |-> SubSeq(inbound, 1, 1)])
      BY <2>1 DEF Chatter!ReceiveDatagram, Chatter!ReceiveShowing
    <3>2. inbound \in Seq(Unit)
      BY DEF ClientOK
    <3> HIDE DEF Unit
    <3>3. inbound # <<>> /\ SubSeq(inbound, 2, Len(inbound)) = Tail(inbound)
      BY <3>1, <3>2
    <3>4. SubSeq(inbound, 1, 1) = <<Head(inbound)>>
      <4> DEFINE t == SubSeq(inbound, 1, 1)
                 u == Head(inbound)
      <4>1. t \in Seq(Unit) /\ Len(t) = 1 /\ t[1] = u
        BY <3>1, <3>2
      <4> HIDE DEF t, u
      <4>2. t = [k \in 1 .. 1 |-> t[k]]
        BY <4>1
      <4>3. <<u>> = [k \in 1 .. 1 |-> u]
        OBVIOUS
      <4>4. \A k \in 1 .. 1 : t[k] = u
        BY <4>1
      <4>5. t = <<u>>
        BY <4>2, <4>3, <4>4
      <4> QED
        BY <4>5 DEF t, u
    <3>5. Chatter!IsOK(<<Head(inbound)>>) <=> Head(inbound) \in ReadsOK
      <4> DEFINE u == Head(inbound)
      <4>1. \A v : <<u>> = <<v>> <=> u = v
        OBVIOUS
      <4> HIDE DEF u
      <4>2. Chatter!IsOK(<<u>>) <=> u \in ReadsOK
        BY <4>1 DEF Chatter!IsOK, ReadsOK
      <4> QED
        BY <4>2 DEF u
    <3> QED
      BY <3>1, <3>3, <3>4, <3>5 DEF ShowsUnit
  <2>2. ASSUME NEW n, Chatter!Receive(n) PROVE FALSE
    BY <2>2 DEF Chatter!Receive, ClientOK
  <2> QED
    BY <2>1, <2>2
       DEF Chatter!Receiver, Chatter!ReceiverCheck, Chatter!SetFlags, Chatter!SetFlagsTo,
           Chatter!ReceiveNothing, Chatter!ReceiveEnd, Chatter!ReceiveEndAnd
<1>3. inbound' \in Seq(Unit)
  <2>1. inbound \in Seq(Unit)
    BY DEF ClientOK
  <2> HIDE DEF Unit
  <2>2. inbound # <<>> => Tail(inbound) \in Seq(Unit)
    BY <2>1
  <2> QED
    BY <1>2, <2>1, <2>2 DEF ShowsUnit
<1>4. ClientOK'
  BY <1>1, <1>3 DEF ClientOK
<1> QED
  BY <1>1, <1>2, <1>4

(* What the steps of the client do. *)
LEMMA ClientStepKeeps ==
  ASSUME ClientOK, queued \in Nat, ClientStep
  PROVE  /\ ClientOK' /\ LinesGoOn /\ UNCHANGED arrived
         /\ UNCHANGED <<inbound, shown>> \/ ShowsUnit
<1>1. UNCHANGED <<lines, queued>> => LinesGoOn
  BY DEF LinesGoOn
<1> QED
  BY <1>1, MainKeeps, TypeKeeps, SendMessageKeeps, ReceiverKeeps DEF ClientStep, ClientMainStep

-----------------------------------------------------------------------------
(* The datagrams that have come, and the lines on their way *)

(* What one more datagram counts. *)
LEMMA DatagramsAppend ==
  ASSUME NEW s \in Seq(Datagram), NEW d \in Datagram
  PROVE  LET t == Append(s, d) IN
         /\ Cardinality(FromMe(s)) \in Nat /\ Cardinality(FullFromMe(s)) \in Nat
         /\ Cardinality(FromOthers(s)) \in Nat
         /\ Cardinality(FromMe(t)) = Cardinality(FromMe(s)) + (IF d.from = Me THEN 1 ELSE 0)
         /\ Cardinality(FullFromMe(t))
              = Cardinality(FullFromMe(s)) + (IF d.from = Me /\ d.len > 0 THEN 1 ELSE 0)
         /\ Cardinality(FromOthers(t))
              = Cardinality(FromOthers(s)) + (IF d.from = Me THEN 0 ELSE 1)
<1> DEFINE M == {e \in Datagram : e.from = Me}
           F == {e \in Datagram : e.from = Me /\ e.len > 0}
           O == {e \in Datagram : e.from # Me}
<1>1. ASSUME NEW r \in Seq(Datagram)
      PROVE  /\ FromMe(r) = Positions(r, M) /\ FullFromMe(r) = Positions(r, F)
             /\ FromOthers(r) = Positions(r, O)
  <2>1. \A k \in DOMAIN r : r[k] \in Datagram
    BY <1>1
  <2> QED
    BY <2>1 DEF FromMe, FullFromMe, FromOthers, Positions
<1>2. /\ d \in M <=> d.from = Me
      /\ d \in F <=> d.from = Me /\ d.len > 0
      /\ d \in O <=> d.from # Me
  OBVIOUS
<1> HIDE DEF M, F, O
<1>3. Append(s, d) \in Seq(Datagram)
  <2> HIDE DEF Datagram
  <2> QED
    OBVIOUS
<1>4. \A T : /\ Cardinality(Positions(s, T)) \in Nat
             /\ Cardinality(Positions(Append(s, d), T))
                  = Cardinality(Positions(s, T)) + (IF d \in T THEN 1 ELSE 0)
  BY PositionsAppend
<1> QED
  BY <1>1, <1>2, <1>3, <1>4

(* What a beginning counts. *)
LEMMA DatagramsPrefix ==
  ASSUME NEW s \in Seq(Datagram), NEW t \in Seq(Datagram),
         Len(t) <= Len(s), \A k \in 1 .. Len(t) : t[k] = s[k]
  PROVE  /\ Cardinality(FromMe(s)) \in Nat /\ Cardinality(FullFromMe(s)) \in Nat
         /\ Cardinality(FromOthers(s)) \in Nat
         /\ Cardinality(FromMe(t)) \in Nat /\ Cardinality(FullFromMe(t)) \in Nat
         /\ Cardinality(FromOthers(t)) \in Nat
         /\ Cardinality(FromMe(t)) <= Cardinality(FromMe(s))
         /\ Cardinality(FullFromMe(t)) <= Cardinality(FullFromMe(s))
         /\ Cardinality(FromOthers(t)) <= Cardinality(FromOthers(s))
         /\ IsFiniteSet(FullFromMe(s)) /\ FullFromMe(t) \subseteq FullFromMe(s)
<1> DEFINE M == {e \in Datagram : e.from = Me}
           F == {e \in Datagram : e.from = Me /\ e.len > 0}
           O == {e \in Datagram : e.from # Me}
<1>1. ASSUME NEW r \in Seq(Datagram)
      PROVE  /\ FromMe(r) = Positions(r, M) /\ FullFromMe(r) = Positions(r, F)
             /\ FromOthers(r) = Positions(r, O)
  <2>1. \A k \in DOMAIN r : r[k] \in Datagram
    BY <1>1
  <2> QED
    BY <2>1 DEF FromMe, FullFromMe, FromOthers, Positions
<1> HIDE DEF M, F, O
<1>2. \A T : /\ IsFiniteSet(Positions(s, T)) /\ Cardinality(Positions(s, T)) \in Nat
             /\ Positions(t, T) \subseteq Positions(s, T)
             /\ IsFiniteSet(Positions(t, T)) /\ Cardinality(Positions(t, T)) \in Nat
             /\ Cardinality(Positions(t, T)) <= Cardinality(Positions(s, T))
  BY PositionsPrefix
<1> QED
  BY <1>1, <1>2

(* Every datagram is the client's or another's. *)
LEMMA DatagramsAll ==
  ASSUME NEW s \in Seq(Datagram)
  PROVE  Len(s) = Cardinality(FromMe(s)) + Cardinality(FromOthers(s))
<1>1. Len(s) \in Nat /\ DOMAIN s = 1 .. Len(s)
  OBVIOUS
<1>2. IsFiniteSet(1 .. Len(s)) /\ Cardinality(1 .. Len(s)) = Len(s)
  BY <1>1, UpTo
<1>3. /\ FromMe(s) \in SUBSET (1 .. Len(s)) /\ FromOthers(s) = (1 .. Len(s)) \ FromMe(s)
      /\ (1 .. Len(s)) \cap FromMe(s) = FromMe(s)
  BY <1>1 DEF FromMe, FromOthers
<1>4. Cardinality(FromOthers(s)) = Cardinality(1 .. Len(s)) - Cardinality(FromMe(s))
  BY <1>2, <1>3, FS_Difference
<1>5. Cardinality(FromMe(s)) \in Nat
  BY <1>2, <1>3, FS_Subset, FS_CardinalityType
<1> QED
  BY <1>1, <1>2, <1>4, <1>5

(* The lines and what is said of them are finite. *)
LEMMA LinesFinite ==
  ASSUME ClientOK
  PROVE  /\ Len(lines) \in Nat /\ DOMAIN lines = 1 .. Len(lines)
         /\ SentLines(lines) \subseteq DOMAIN lines
         /\ IsFiniteSet(SentLines(lines)) /\ Cardinality(SentLines(lines)) \in Nat
         /\ Cardinality(SentLines(lines)) <= MaxLines
         /\ Owed \subseteq SentLines(lines)
         /\ IsFiniteSet(Owed) /\ Cardinality(Owed) \in Nat
         /\ \A k \in DOMAIN lines : lines[k].size \in 0 .. SendSpace
<1>1. Len(lines) \in Nat /\ DOMAIN lines = 1 .. Len(lines) /\ Len(lines) <= MaxLines
  BY DEF ClientOK
<1>2. IsFiniteSet(1 .. Len(lines)) /\ Cardinality(1 .. Len(lines)) = Len(lines)
  BY <1>1, UpTo
<1>3. SentLines(lines) \in SUBSET (1 .. Len(lines)) /\ Owed \in SUBSET SentLines(lines)
  BY <1>1 DEF SentLines, Owed
<1>4. /\ IsFiniteSet(SentLines(lines)) /\ Cardinality(SentLines(lines)) \in Nat
      /\ Cardinality(SentLines(lines)) <= Len(lines)
  BY <1>2, <1>3, FS_Subset, FS_CardinalityType
<1>5. IsFiniteSet(Owed) /\ Cardinality(Owed) \in Nat
  BY <1>3, <1>4, FS_Subset, FS_CardinalityType
<1>6. ASSUME NEW k \in DOMAIN lines PROVE lines[k].size \in 0 .. SendSpace
  <2>1. lines[k] \in Line
    BY <1>6 DEF ClientOK
  <2>2. lines[k].size \in Sizes
    BY <2>1 DEF Line
  <2> QED
    BY <2>2
<1> QED
  BY <1>1, <1>3, <1>4, <1>5, <1>6

(* The copies can be counted.                                              *)
LEMMA RepeatedFinite ==
  ASSUME ClientOK, RepeatedOK
  PROVE  /\ IsFiniteSet(repeated) /\ Cardinality(repeated) \in Nat
         /\ IsFiniteSet(repeated \cap Owed) /\ Cardinality(repeated \cap Owed) \in Nat
         /\ Cardinality(repeated \cap Owed) <= MaxRepeated
<1>1. repeated \in SUBSET SentLines(lines) /\ IsFiniteSet(SentLines(lines))
  BY LinesFinite DEF RepeatedOK
<1>2. IsFiniteSet(repeated) /\ Cardinality(repeated) \in Nat
  BY <1>1, FS_Subset, FS_CardinalityType
<1>3. repeated \cap Owed \in SUBSET repeated
  OBVIOUS
<1>4. /\ IsFiniteSet(repeated \cap Owed) /\ Cardinality(repeated \cap Owed) \in Nat
      /\ Cardinality(repeated \cap Owed) <= Cardinality(repeated)
  BY <1>2, <1>3, FS_Subset, FS_CardinalityType
<1> QED
  BY <1>2, <1>4 DEF RepeatedOK

(* One line more on its way is as many parts more as it has. *)
LEMMA PartsAdd ==
  ASSUME NEW sending, IsFiniteSet(sending), NEW k, k \notin sending,
         NEW typed, typed[k].size \in 0 .. SendSpace
  PROVE  /\ Cardinality(Parts(sending, typed)) \in Nat
         /\ Cardinality(Parts(sending \cup {k}, typed))
              = Cardinality(Parts(sending, typed)) + typed[k].size
<1> DEFINE P == Parts(sending, typed)
           n == typed[k].size
           Q == {k} \X (1 .. n)
<1>1. IsFiniteSet(1 .. SendSpace) /\ IsFiniteSet(1 .. n) /\ Cardinality(1 .. n) = n
  BY FS_Interval
<1>2. IsFiniteSet(sending \X (1 .. SendSpace)) /\ P \in SUBSET (sending \X (1 .. SendSpace))
  BY <1>1, FS_Product DEF Parts
<1>3. IsFiniteSet(P) /\ Cardinality(P) \in Nat
  BY <1>2, FS_Subset, FS_CardinalityType
<1>4. IsFiniteSet({k}) /\ Cardinality({k}) = 1
  BY FS_Singleton
<1>5. IsFiniteSet(Q) /\ Cardinality(Q) = n
  <2>1. IsFiniteSet(Q) /\ Cardinality(Q) = Cardinality({k}) * Cardinality(1 .. n)
    BY <1>1, <1>4, FS_Product
  <2> QED
    BY <1>1, <1>4, <2>1
<1>6. Parts(sending \cup {k}, typed) = P \cup Q
  BY DEF Parts
<1>7. P \cap Q = {}
  BY DEF Parts
<1> HIDE DEF P, Q, n
<1>8. Cardinality(P \cup Q) = Cardinality(P) + Cardinality(Q) - Cardinality({})
  BY <1>3, <1>5, <1>7, FS_Union
<1>9. Cardinality({}) = 0
  BY FS_EmptySet
<1>10. Cardinality(P \cup Q) = Cardinality(P) + n
  BY <1>3, <1>5, <1>8, <1>9 DEF n
<1> QED
  BY <1>3, <1>6, <1>10 DEF P, n

(* What the client sends is on its way, once. *)
LEMMA SendingKeeps ==
  ASSUME ClientOK, QueuedOK, LinesOnce, came \in Seq(Datagram), ClientStep
  PROVE  QueuedOK' /\ LinesOnce'
<1>1. /\ LinesGoOn /\ ClientOK' /\ clientProcess = "up"
      /\ outward' = outward \cup (SentLines(lines') \ SentLines(lines))
      /\ came' = came /\ repeated' = repeated
  BY ClientStepKeeps DEF QueuedOK, ClientStep, serverVars, listening, came
<1>2. /\ RepeatedOK /\ Cardinality(repeated) \in Nat /\ Cardinality(repeated \cap Owed) \in Nat
  BY RepeatedFinite DEF LinesOnce
<1>3. /\ SentLines(lines) \subseteq DOMAIN lines
      /\ IsFiniteSet(SentLines(lines)) /\ Cardinality(SentLines(lines)) \in Nat
      /\ Owed \subseteq SentLines(lines)
      /\ IsFiniteSet(Owed) /\ Cardinality(Owed) \in Nat
      /\ \A k \in DOMAIN lines : lines[k].size \in 0 .. SendSpace
  BY LinesFinite
<1>4. IsFiniteSet(outward) /\ Cardinality(outward) \in Nat /\ outward \subseteq SentLines(lines)
  <2>1. outward \in SUBSET SentLines(lines)
    BY DEF QueuedOK
  <2> QED
    BY <1>3, <2>1, FS_Subset, FS_CardinalityType
<1>5. IsFiniteSet(outward \cap Owed) /\ Cardinality(outward \cap Owed) \in Nat
  BY <1>4, FS_Intersection, FS_CardinalityType
<1>6. /\ Cardinality(FromMe(came)) \in Nat /\ Cardinality(FullFromMe(came)) \in Nat
      /\ Cardinality(FromOthers(came)) \in Nat
  <2>1. Len(came) <= Len(came) /\ \A k \in 1 .. Len(came) : came[k] = came[k]
    <3>1. Len(came) \in Nat
      OBVIOUS
    <3> QED
      BY <3>1
  <2> QED
    BY <2>1, DatagramsPrefix
<1>7. queued \in Nat /\ queued = Cardinality(Parts(outward, lines))
  BY <1>1 DEF QueuedOK
<1>8. \A k \in DOMAIN lines : lines'[k].size = lines[k].size
  BY <1>1 DEF LinesGoOn
<1>9. Owed' = {k \in SentLines(lines') : lines'[k].size > 0}
  BY DEF Owed
<1>10. CASE SentLines(lines') = SentLines(lines) /\ queued' = queued
  <2>1. outward' = outward
    BY <1>1, <1>10
  <2>2. Parts(outward, lines') = Parts(outward, lines)
    BY <1>3, <1>4, <1>8 DEF Parts
  <2>3. Owed' = Owed
    BY <1>3, <1>8, <1>9, <1>10 DEF Owed
  <2>4. QueuedOK'
    BY <1>4, <1>7, <1>10, <2>1, <2>2 DEF QueuedOK
  <2>5. LinesOnce'
    BY <1>1, <1>10, <2>1, <2>3 DEF LinesOnce, RepeatedOK
  <2> QED
    BY <2>4, <2>5
<1>11. ASSUME NEW k \in DOMAIN lines, OneSent(k)
       PROVE  QueuedOK' /\ LinesOnce'
  <2>1. /\ k \notin SentLines(lines) /\ SentLines(lines') = SentLines(lines) \cup {k}
        /\ queued' = queued + lines[k].size
    BY <1>11 DEF OneSent
  <2>2. outward' = outward \cup {k} /\ k \notin outward
    BY <1>1, <1>4, <2>1
  <2>3. Parts(outward', lines') = Parts(outward \cup {k}, lines)
    BY <1>3, <1>4, <1>8, <2>2 DEF Parts
  <2>4. Cardinality(Parts(outward \cup {k}, lines)) = queued + lines[k].size
    BY <1>3, <1>4, <1>7, <2>2, PartsAdd
  <2>5. lines[k].size \in Nat
    BY <1>3
  <2>6. QueuedOK'
    BY <1>4, <1>7, <2>1, <2>2, <2>3, <2>4, <2>5 DEF QueuedOK
  <2>7. /\ Cardinality(outward') = Cardinality(outward) + 1
        /\ Cardinality(SentLines(lines')) = Cardinality(SentLines(lines)) + 1
    <3>1. Cardinality(outward') = Cardinality(outward) + 1
      BY <1>4, <2>2, FS_AddElement
    <3>2. Cardinality(SentLines(lines')) = Cardinality(SentLines(lines)) + 1
      <4> DEFINE S == SentLines(lines)
      <4>1. IsFiniteSet(S) /\ k \notin S /\ SentLines(lines') = S \cup {k}
        BY <1>3, <2>1
      <4> HIDE DEF S
      <4>2. Cardinality(S \cup {k}) = Cardinality(S) + 1
        BY <4>1, FS_AddElement
      <4> QED
        BY <4>1, <4>2 DEF S
    <3> QED
      BY <3>1, <3>2
  <2>8. RepeatedOK' /\ repeated' \cap Owed' = repeated \cap Owed
    <3>1. k \notin repeated
      BY <1>2, <2>1 DEF RepeatedOK
    <3>2. repeated \cap Owed' = repeated \cap Owed
      BY <1>2, <1>3, <1>8, <1>9, <2>1, <3>1 DEF Owed, RepeatedOK
    <3> QED
      BY <1>2, <1>1, <2>1, <3>2 DEF RepeatedOK
  <2>9. Cardinality(outward' \cap Owed') + Cardinality(FullFromMe(came))
          <= Cardinality(Owed') + Cardinality(repeated \cap Owed)
    <3>1. CASE lines[k].size > 0
      <4>1. Owed' = Owed \cup {k} /\ k \notin Owed
        BY <1>3, <1>8, <1>9, <2>1, <3>1 DEF Owed
      <4>2. outward' \cap Owed' = (outward \cap Owed) \cup {k} /\ k \notin outward \cap Owed
        BY <1>3, <1>4, <2>1, <2>2, <4>1
      <4>3. /\ Cardinality(Owed') = Cardinality(Owed) + 1
            /\ Cardinality(outward' \cap Owed') = Cardinality(outward \cap Owed) + 1
        BY <1>3, <1>5, <4>1, <4>2, FS_AddElement
      <4> QED
        BY <1>2, <1>3, <1>5, <1>6, <4>3 DEF LinesOnce
    <3>2. CASE ~(lines[k].size > 0)
      <4>1. Owed' = Owed
        BY <1>3, <1>8, <1>9, <2>1, <3>2 DEF Owed
      <4>2. outward' \cap Owed' = outward \cap Owed
        BY <1>3, <1>4, <2>1, <2>2, <4>1
      <4> QED
        BY <4>1, <4>2 DEF LinesOnce
    <3> QED
      BY <3>1, <3>2
  <2>10. LinesOnce'
    <3>1. Cardinality(outward') + Cardinality(FromMe(came))
            <= Cardinality(SentLines(lines')) + Cardinality(repeated)
      BY SMTT(30), <1>2, <1>3, <1>4, <1>6, <2>7 DEF LinesOnce
    <3> QED
      BY <1>1, <2>9, <2>8, <3>1 DEF LinesOnce
  <2> QED
    BY <2>6, <2>10
<1> QED
  BY <1>1, <1>10, <1>11 DEF LinesGoOn

(* A line leaves the network, to the server or not. *)
LEMMA LeavingKeeps ==
  ASSUME ClientOK, QueuedOK, LinesOnce, came \in Seq(Datagram), NEW k, LineLeaves(k)
  PROVE  /\ ClientOK' /\ QueuedOK'
         /\ k \in DOMAIN lines /\ lines[k].size \in 0 .. SendSpace
         /\ UNCHANGED <<lines, inbound, arrived, shown>>
         /\ SentLines(lines)' = SentLines(lines) /\ Owed' = Owed
         /\ Cardinality(SentLines(lines)) \in Nat /\ Cardinality(SentLines(lines)) <= MaxLines
         /\ Cardinality(Owed) \in Nat
         /\ Cardinality(outward') \in Nat /\ Cardinality(outward) = Cardinality(outward') + 1
         /\ Cardinality(outward' \cap Owed) \in Nat
         /\ Cardinality(outward \cap Owed)
              = Cardinality(outward' \cap Owed) + (IF lines[k].size > 0 THEN 1 ELSE 0)
         /\ link = "up"
         /\ clientProcess = "up" => queued' = queued - lines[k].size /\ lines[k].size <= queued
         /\ clientProcess # "up" => queued' = queued
<1>1. /\ k \in outward /\ outward' = outward \ {k}
      /\ queued' = IF clientProcess = "up" THEN queued - lines[k].size ELSE queued
      /\ UNCHANGED <<clientProcess, protocol, is_connected, clientMain, lines, link, inbound,
                     arrived, shown>>
  BY DEF LineLeaves
<1>2. ClientOK'
  BY <1>1 DEF ClientOK
<1>3. SentLines(lines)' = SentLines(lines) /\ Owed' = Owed
  BY <1>1 DEF SentLines, Owed
<1>4. /\ SentLines(lines) \subseteq DOMAIN lines
      /\ IsFiniteSet(SentLines(lines)) /\ Cardinality(SentLines(lines)) \in Nat
      /\ Cardinality(SentLines(lines)) <= MaxLines
      /\ Owed \subseteq SentLines(lines)
      /\ IsFiniteSet(Owed) /\ Cardinality(Owed) \in Nat
      /\ \A j \in DOMAIN lines : lines[j].size \in 0 .. SendSpace
  BY LinesFinite
<1>5. IsFiniteSet(outward) /\ Cardinality(outward) \in Nat /\ outward \subseteq SentLines(lines)
  <2>1. outward \in SUBSET SentLines(lines)
    BY DEF QueuedOK
  <2> QED
    BY <1>4, <2>1, FS_Subset, FS_CardinalityType
<1>6. k \in DOMAIN lines /\ lines[k].size \in 0 .. SendSpace /\ link = "up"
  BY <1>1, <1>4, <1>5 DEF ClientOK
<1>7. IsFiniteSet(outward') /\ k \notin outward' /\ outward = outward' \cup {k}
  BY <1>1, <1>5, FS_RemoveElement
<1>8. Cardinality(outward') \in Nat /\ Cardinality(outward) = Cardinality(outward') + 1
  BY <1>7, FS_AddElement, FS_CardinalityType
<1>9. IsFiniteSet(outward' \cap Owed) /\ Cardinality(outward' \cap Owed) \in Nat
  BY <1>7, FS_Intersection, FS_CardinalityType
<1>10. Cardinality(outward \cap Owed)
        = Cardinality(outward' \cap Owed) + (IF lines[k].size > 0 THEN 1 ELSE 0)
  <2>1. k \in Owed <=> lines[k].size > 0
    BY <1>1, <1>5 DEF Owed
  <2>2. CASE k \in Owed
    <3>1. outward \cap Owed = (outward' \cap Owed) \cup {k} /\ k \notin outward' \cap Owed
      BY <1>7, <2>2
    <3> QED
      BY <1>9, <2>1, <2>2, <3>1, FS_AddElement
  <2>3. CASE k \notin Owed
    <3>1. outward \cap Owed = outward' \cap Owed
      BY <1>7, <2>3
    <3> QED
      <4>1. Cardinality(outward \cap Owed) = Cardinality(outward' \cap Owed)
        BY <3>1, Zenon
      <4> QED
        BY <1>9, <2>1, <2>3, <4>1
  <2> QED
    BY <2>2, <2>3
<1>11. /\ Cardinality(Parts(outward', lines)) \in Nat
       /\ Cardinality(Parts(outward, lines))
            = Cardinality(Parts(outward', lines)) + lines[k].size
  BY <1>6, <1>7, PartsAdd
<1>12. ASSUME clientProcess = "up"
       PROVE  /\ queued' = Cardinality(Parts(outward', lines)) /\ queued' = queued - lines[k].size
              /\ lines[k].size <= queued
  <2>1. queued = Cardinality(Parts(outward', lines)) + lines[k].size
    BY <1>11, <1>12 DEF QueuedOK
  <2> QED
    BY <1>1, <1>6, <1>11, <1>12, <2>1
<1>13. QueuedOK'
  <2>1. outward' \subseteq SentLines(lines)'
    BY <1>1, <1>3, <1>5
  <2>2. queued' \in Nat
    BY <1>1, <1>11, <1>12 DEF QueuedOK
  <2> QED
    BY <1>1, <1>12, <2>1, <2>2 DEF QueuedOK
<1> QED
  BY <1>1, <1>2, <1>3, <1>4, <1>6, <1>8, <1>9, <1>10, <1>12, <1>13

-----------------------------------------------------------------------------
(* The answers *)

(* No more answers are for the client than lines of it were handled: each  *)
(* answers a datagram of its own.                                          *)
LEMMA AnswersAreToHandled ==
  ASSUME UdpServerInv
  PROVE  /\ IsFiniteSet(Handled) /\ Cardinality(Handled) \in Nat
         /\ IsFiniteSet(ForMe) /\ Cardinality(ForMe) \in Nat
         /\ Cardinality(ForMe) <= Cardinality(Handled)
<1>1. /\ Len(received) \in Nat /\ DOMAIN received = 1 .. Len(received)
      /\ Len(replies) \in Nat /\ DOMAIN replies = 1 .. Len(replies)
  BY DEF UdpServerInv, TypeOK
<1>2. IsFiniteSet(Handled) /\ Cardinality(Handled) \in Nat
  <2>1. IsFiniteSet(1 .. Len(received)) /\ Handled \in SUBSET (1 .. Len(received))
    BY <1>1, UpTo DEF Handled
  <2> QED
    BY <2>1, FS_Subset, FS_CardinalityType
<1> DEFINE f == [k \in ForMe |-> replies[k].of]
<1>3. \A k \in ForMe : replies[k].of \in Handled
  <2> TAKE k \in ForMe
  <2>1. k \in DOMAIN replies /\ replies[k].to = Me
    BY DEF ForMe
  <2>2. replies[k] \in Answered
    BY <2>1 DEF Answered
  <2>3. Answered \subseteq Due
    BY DEF UdpServerInv, EachIsAcknowledged, DueBefore
  <2>4. PICK j \in DOMAIN received :
          received[j].len > 0 /\ replies[k] = [to |-> received[j].from, of |-> j]
    BY <2>2, <2>3 DEF Due
  <2> QED
    BY <2>1, <2>4 DEF Handled
<1>4. \A i, j \in ForMe : i # j => replies[i].of # replies[j].of
  <2> TAKE i, j \in ForMe
  <2>1. i \in 1 .. Len(replies) /\ j \in 1 .. Len(replies)
    BY <1>1 DEF ForMe
  <2>2. replies[i].of \in Nat /\ replies[j].of \in Nat
    BY <1>1, <1>3, <2>1 DEF Handled
  <2>3. \A m, n \in DOMAIN replies : m < n => replies[m].of < replies[n].of
    BY DEF UdpServerInv, EachIsAcknowledged
  <2>4. i # j => i < j \/ j < i
    BY <2>1
  <2> QED
    BY <1>1, <2>1, <2>2, <2>3, <2>4
<1>5. f \in Injection(ForMe, Handled)
  BY <1>3, <1>4 DEF Injection, IsInjective
<1> HIDE DEF f
<1> QED
  BY <1>2, <1>5, FS_Injection, FS_CardinalityType

(* What was handled has come, and what has come was sent. *)
LEMMA HandledWasSent ==
  ASSUME UdpServerInv, ClientOK, QueuedOK, LinesOnce
  PROVE  /\ Cardinality(Handled) <= Cardinality(Owed) + Cardinality(repeated \cap Owed)
         /\ Cardinality(Owed) <= MaxLines /\ Cardinality(Owed) \in Nat
         /\ Cardinality(repeated \cap Owed) <= MaxRepeated
         /\ Cardinality(repeated \cap Owed) \in Nat
         /\ Owed = {} => Cardinality(repeated \cap Owed) = 0
         /\ Cardinality(Owed) > 0 => link = "up"
<1>1. received \in Seq(Datagram) /\ queue \in Seq(Datagram)
  BY DEF UdpServerInv, TypeOK
<1>2. /\ came \in Seq(Datagram) /\ Len(received) <= Len(came)
      /\ \A k \in 1 .. Len(received) : received[k] = came[k]
  <2> HIDE DEF Datagram
  <2> QED
    BY <1>1 DEF came
<1>3. /\ Cardinality(FullFromMe(came)) \in Nat /\ Cardinality(FullFromMe(received)) \in Nat
      /\ Cardinality(FullFromMe(received)) <= Cardinality(FullFromMe(came))
  BY <1>1, <1>2, DatagramsPrefix
<1>4. Handled = FullFromMe(received)
  BY DEF Handled, FullFromMe, FromMe
<1>5. /\ IsFiniteSet(SentLines(lines)) /\ Cardinality(SentLines(lines)) \in Nat
      /\ Cardinality(SentLines(lines)) <= MaxLines
      /\ Owed \in SUBSET SentLines(lines)
      /\ IsFiniteSet(Owed) /\ Cardinality(Owed) \in Nat
  BY LinesFinite
<1>6. Cardinality(Owed) <= Cardinality(SentLines(lines))
  BY <1>5, FS_Subset
<1>7. Cardinality(outward \cap Owed) \in Nat
  <2>1. IsFiniteSet(outward \cap Owed)
    BY <1>5, FS_Intersection
  <2> QED
    BY <2>1, FS_CardinalityType
<1>8. /\ Cardinality(repeated \cap Owed) <= MaxRepeated /\ Cardinality(repeated \cap Owed) \in Nat
  BY RepeatedFinite DEF LinesOnce
<1>9. Cardinality(Handled) <= Cardinality(Owed) + Cardinality(repeated \cap Owed)
  BY <1>8, <1>3, <1>4, <1>5, <1>7 DEF LinesOnce
<1>10. Owed = {} => Cardinality(repeated \cap Owed) = 0
  BY FS_EmptySet
<1>11. Cardinality(Owed) > 0 => link = "up"
  <2>1. Owed = {} => Cardinality(Owed) = 0
    BY FS_EmptySet
  <2>2. Owed # {} => SentLines(lines) # {}
    BY <1>5
  <2> QED
    BY <2>1, <2>2 DEF ClientOK
<1> QED
  BY <1>8, <1>5, <1>6, <1>9, <1>11, <1>10

(* Where nothing arrives at the client and nothing is shown. *)
LEMMA ShowingUndisturbed ==
  ASSUME ShownOnce, UNCHANGED <<arrived, inbound, shown>>
  PROVE  ShownOnce'
BY DEF ShownOnce

(* A step of the server, which may send an answer. *)
LEMMA ServerStepKeeps ==
  ASSUME UdpServerInv, ClientOK, QueuedOK, LinesOnce, AnswersOnce, ShownOnce, ServerStep,
         UdpServerInv'
  PROVE  ClientOK' /\ QueuedOK' /\ LinesOnce' /\ AnswersOnce' /\ ShownOnce'
<1>1. UNCHANGED <<clientVars, outward, lost, repeated>>
  BY DEF ServerStep
<1>2. UNCHANGED <<clientProcess, protocol, is_connected, clientMain, lines, link, queued, inbound,
                  arrived, shown, outward, repeated>>
  BY <1>1 DEF clientVars
<1>3. ClientOK' /\ QueuedOK' /\ SentLines(lines)' = SentLines(lines) /\ Owed' = Owed
  BY <1>2 DEF ClientOK, QueuedOK, SentLines, Owed
<1>4. LinesOnce'
  <2>1. /\ came \in Seq(Datagram) /\ came' \in Seq(Datagram)
        /\ Len(came') <= Len(came) /\ \A k \in 1 .. Len(came') : came'[k] = came[k]
    BY ServerKeepsCome DEF ServerStep
  <2>2. /\ Cardinality(FromMe(came)) \in Nat /\ Cardinality(FullFromMe(came)) \in Nat
        /\ Cardinality(FromOthers(came)) \in Nat
        /\ Cardinality(FromMe(came')) \in Nat /\ Cardinality(FullFromMe(came')) \in Nat
        /\ Cardinality(FromOthers(came')) \in Nat
        /\ Cardinality(FromMe(came')) <= Cardinality(FromMe(came))
        /\ Cardinality(FullFromMe(came')) <= Cardinality(FullFromMe(came))
        /\ Cardinality(FromOthers(came')) <= Cardinality(FromOthers(came))
    BY <2>1, DatagramsPrefix
  <2>3. /\ Cardinality(SentLines(lines)) \in Nat /\ Cardinality(Owed) \in Nat
        /\ Cardinality(outward) \in Nat /\ Cardinality(outward \cap Owed) \in Nat
    <3>1. /\ IsFiniteSet(SentLines(lines)) /\ IsFiniteSet(Owed)
          /\ Cardinality(SentLines(lines)) \in Nat /\ Cardinality(Owed) \in Nat
          /\ outward \in SUBSET SentLines(lines)
      BY LinesFinite DEF QueuedOK
    <3>2. IsFiniteSet(outward) /\ IsFiniteSet(outward \cap Owed)
      BY <3>1, FS_Subset, FS_Intersection
    <3> QED
      BY <3>1, <3>2, FS_CardinalityType
  <2>4. outward' = outward /\ repeated' = repeated
    BY <1>2
  <2>5. Cardinality(repeated) \in Nat /\ Cardinality(repeated \cap Owed) \in Nat
    BY RepeatedFinite DEF LinesOnce
  <2>6. RepeatedOK'
    BY <1>3, <2>4 DEF LinesOnce, RepeatedOK
  <2> QED
    BY <1>3, <2>2, <2>3, <2>4, <2>5, <2>6 DEF LinesOnce
<1>5. AnswersOnce'
  <2> DEFINE Reply == [to : Addrs, of : 1 .. MaxReceived]
             T == {r \in Reply : r.to = Me}
             reply == [to |-> listener.client_addr, of |-> Len(received)]
             new == {k \in Len(replies) + 1 .. Len(replies') : replies'[k].to = Me}
  <2>1. replies \in Seq(Reply) /\ replies' \in Seq(Reply) /\ homeward' = homeward \cup new
    BY DEF UdpServerInv, TypeOK, ServerStep
  <2>2. replies' = replies \/ replies' = Append(replies, reply)
    BY DEF ServerStep, Start, StartStep, StartFails, StartThread, Listener, ListenerCheck,
           ListenWhile, ListenerCall, Receive, ReceiveFrom, Acknowledge, Command, Stop,
           CloseServer, JoinListener, MainReturn, listening
  <2>3. ForMe = Positions(replies, T) /\ ForMe' = Positions(replies', T)
    <3>1. /\ \A k \in DOMAIN replies : replies[k] \in Reply
          /\ \A k \in DOMAIN replies' : replies'[k] \in Reply
      <4> HIDE DEF Reply
      <4> QED
        BY <2>1
    <3> QED
      BY <3>1 DEF ForMe, Positions
  <2>4. Positions(arrived, {"ack"})' = Positions(arrived, {"ack"}) /\ arrived' = arrived
    BY <1>2 DEF Positions
  <2>5. /\ IsFiniteSet(ForMe) /\ Cardinality(ForMe) \in Nat
        /\ IsFiniteSet(homeward) /\ Cardinality(homeward) \in Nat
    <3>1. IsFiniteSet(ForMe) /\ Cardinality(ForMe) \in Nat /\ homeward \in SUBSET ForMe
      BY AnswersAreToHandled DEF AnswersOnce
    <3> QED
      BY <3>1, FS_Subset, FS_CardinalityType
  <2>6. CASE replies' = replies
    <3>1. new = {}
      BY <2>1, <2>6
    <3>2. homeward' = homeward /\ ForMe' = ForMe
      BY <2>1, <2>3, <2>6, <3>1
    <3> QED
      BY <2>4, <3>2 DEF AnswersOnce
  <2>7. CASE replies' = Append(replies, reply) /\ replies' # replies
    <3> DEFINE n == Len(replies) + 1
    <3>1. /\ Len(replies) \in Nat /\ Len(replies') = n /\ n \in DOMAIN replies' /\ replies'[n] = reply
          /\ \A k \in DOMAIN replies : k \in DOMAIN replies' /\ k # n /\ replies'[k] = replies[k]
      <4> HIDE DEF Reply, reply
      <4> QED
        BY <2>1, <2>7
    <3>2. reply \in Reply
      <4> HIDE DEF Reply, reply
      <4> QED
        BY <2>1, <3>1
    <3>3. reply \in T <=> reply.to = Me
      BY <3>2
    <3> HIDE DEF T, reply
    <3>4. Cardinality(ForMe') = Cardinality(ForMe) + (IF reply \in T THEN 1 ELSE 0)
      <4> HIDE DEF Reply
      <4>1. Cardinality(Positions(Append(replies, reply), T))
              = Cardinality(Positions(replies, T)) + (IF reply \in T THEN 1 ELSE 0)
        BY <2>1, <3>2, PositionsAppend
      <4> QED
        BY <2>3, <2>7, <4>1
    <3>5. homeward' = homeward \cup (IF reply \in T THEN {n} ELSE {})
      BY <2>1, <3>1, <3>3
    <3>6. ForMe' = ForMe \cup (IF reply \in T THEN {n} ELSE {}) /\ n \notin ForMe
      <4>1. DOMAIN replies' = (DOMAIN replies) \cup {n}
        <5> HIDE DEF Reply
        <5> QED
          BY <2>1, <2>7, <3>2
      <4> QED
        BY <3>1, <3>3, <4>1 DEF ForMe
    <3>7. /\ homeward \subseteq ForMe
          /\ Cardinality(Positions(arrived, {"ack"})) + Cardinality(homeward) <= Cardinality(ForMe)
      BY DEF AnswersOnce
    <3>8. homeward' \subseteq ForMe'
      BY <3>5, <3>6, <3>7
    <3>9. Cardinality(homeward') = Cardinality(homeward) + (IF reply \in T THEN 1 ELSE 0)
      <4>1. n \notin homeward
        BY <3>6, <3>7
      <4>2. CASE reply \in T
        <5>1. homeward' = homeward \cup {n}
          BY <3>5, <4>2
        <5> QED
          BY <2>5, <4>1, <4>2, <5>1, FS_AddElement
      <4>3. CASE reply \notin T
        <5>1. homeward' = homeward
          BY <3>5, <4>3
        <5> QED
          BY <2>5, <4>3, <5>1
      <4> QED
        BY <4>2, <4>3
    <3>10. Cardinality(Positions(arrived, {"ack"})) + Cardinality(homeward') <= Cardinality(ForMe')
      <4>1. Cardinality(Positions(arrived, {"ack"})) \in Nat
        BY ArrivedCounts
      <4> QED
        BY <2>4, <2>5, <3>4, <3>7, <3>9, <4>1
    <3> QED
      BY <2>4, <3>8, <3>10 DEF AnswersOnce
  <2> QED
    BY <2>2, <2>6, <2>7
<1>6. ShownOnce'
  BY <1>2, ShowingUndisturbed
<1> QED
  BY <1>3, <1>4, <1>5, <1>6

(* What the user has been told reads "OK" and has arrived.                 *)
LEMMA ToldHasArrived ==
  ASSUME ClientOK, ShownOnce
  PROVE  Told \in Nat /\ Told <= Cardinality(Positions(arrived, ReadsOK))
<1> DEFINE T == {k \in DOMAIN shown : shown[k].as = "delivered"}
<1>1. Len(shown) \in Nat /\ DOMAIN shown = 1 .. Len(shown)
  <2>1. shown \in Seq(Shown)
    BY DEF ShownOnce
  <2> QED
    BY <2>1
<1>2. Len(inbound) \in Nat /\ Len(arrived) \in Nat /\ DOMAIN arrived = 1 .. Len(arrived)
  BY DEF ClientOK
<1>3. 1 .. Len(shown) \subseteq DOMAIN arrived
  BY <1>1, <1>2 DEF ShownOnce
<1>4. T \in SUBSET Positions(arrived, ReadsOK)
  BY <1>1, <1>3 DEF ShownOnce, Positions
<1> HIDE DEF T
<1>5. IsFiniteSet(Positions(arrived, ReadsOK))
  BY ArrivedCounts
<1> QED
  BY <1>4, <1>5, FS_Subset, FS_CardinalityType DEF Told, T

(* A step of the client, which may show what has arrived. *)
LEMMA ShowingKeeps ==
  ASSUME ClientOK, ShownOnce, arrived' = arrived, UNCHANGED <<inbound, shown>> \/ ShowsUnit
  PROVE  ShownOnce'
<1> DEFINE r == [as |-> IF Head(inbound) \in ReadsOK THEN "delivered" ELSE "received",
                 chunk |-> <<Head(inbound)>>]
           n == Len(shown) + 1
<1>1. CASE UNCHANGED <<inbound, shown>>
  BY <1>1, ShowingUndisturbed
<1>2. CASE ShowsUnit
  <2>1. inbound \in Seq(Unit) /\ arrived \in Seq(Unit) /\ shown \in Seq(Shown)
    BY DEF ClientOK, ShownOnce
  <2>2. inbound # <<>> /\ inbound' = Tail(inbound) /\ shown' = Append(shown, r)
    BY <1>2 DEF ShowsUnit
  <2>3. r \in Shown /\ (r.as = "delivered" => Head(inbound) \in ReadsOK)
    <3>1. Head(inbound) \in Unit
      <4> HIDE DEF Unit
      <4> QED
        BY <2>1, <2>2
    <3>2. <<Head(inbound)>> \in Seq(Unit)
      <4> HIDE DEF Unit
      <4> QED
        BY <3>1
    <3> QED
      BY <3>2 DEF Shown
  <2> HIDE DEF Unit, Shown, r
  <2>4. /\ Len(shown) \in Nat /\ shown' \in Seq(Shown) /\ Len(shown') = n /\ shown'[n] = r
        /\ \A k \in 1 .. Len(shown) : shown'[k] = shown[k]
    BY <2>1, <2>2, <2>3
  <2>5. /\ Len(inbound) \in Nat /\ Len(inbound') = Len(inbound) - 1 /\ Len(arrived) \in Nat
        /\ Head(inbound) = inbound[1] /\ 1 \in 1 .. Len(inbound)
        /\ \A k \in 1 .. Len(inbound') : inbound'[k] = inbound[k + 1] /\ k + 1 \in 1 .. Len(inbound)
    BY <2>1, <2>2
  <2>6. arrived[n] = Head(inbound)
    BY <2>4, <2>5 DEF ShownOnce
  <2>7. Len(arrived') = Len(shown') + Len(inbound')
    <3>1. Len(arrived) = Len(shown) + Len(inbound)
      BY DEF ShownOnce
    <3>2. Len(arrived') = Len(arrived)
      OBVIOUS
    <3> QED
      BY <2>4, <2>5, <3>1, <3>2
  <2>8. ASSUME NEW k \in 1 .. Len(inbound') PROVE inbound'[k] = arrived'[Len(shown') + k]
    <3>1. inbound'[k] = arrived[Len(shown) + (k + 1)]
      BY <2>5, <2>8 DEF ShownOnce
    <3>2. Len(shown) + (k + 1) = Len(shown') + k
      BY <2>4, <2>5, <2>8
    <3> QED
      BY <3>1, <3>2
  <2>9. ASSUME NEW k \in 1 .. Len(shown'), shown'[k].as = "delivered"
        PROVE  arrived'[k] \in ReadsOK
    <3>1. CASE k = n
      BY <2>3, <2>4, <2>6, <2>9, <3>1
    <3>2. CASE k # n
      <4>1. k \in 1 .. Len(shown)
        BY <2>4, <2>9, <3>2
      <4> QED
        BY <2>4, <2>9, <4>1 DEF ShownOnce
    <3> QED
      BY <3>1, <3>2
  <2> QED
    BY <2>4, <2>7, <2>8, <2>9 DEF ShownOnce
<1> QED
  BY <1>1, <1>2

(* Where nothing is answered and nothing arrives at the client. *)
LEMMA NothingAnswered ==
  ASSUME AnswersOnce, UNCHANGED <<replies, homeward, arrived>>
  PROVE  AnswersOnce'
BY DEF AnswersOnce, ForMe, Positions

(* A step of the client keeps what is known of it and of the counts. *)
LEMMA ClientKeeps ==
  ASSUME ClientOK, QueuedOK, LinesOnce, AnswersOnce, ShownOnce, came \in Seq(Datagram),
         ClientStep
  PROVE  ClientOK' /\ QueuedOK' /\ LinesOnce' /\ AnswersOnce' /\ ShownOnce'
<1>1. UNCHANGED <<replies, homeward>>
  BY DEF ClientStep, serverVars, listening
<1>2. /\ ClientOK' /\ UNCHANGED arrived
      /\ UNCHANGED <<inbound, shown>> \/ ShowsUnit
  BY ClientStepKeeps DEF QueuedOK
<1>3. QueuedOK' /\ LinesOnce'
  BY SendingKeeps
<1>4. AnswersOnce' /\ ShownOnce'
  BY <1>1, <1>2, NothingAnswered, ShowingKeeps
<1> QED
  BY <1>2, <1>3, <1>4

-----------------------------------------------------------------------------
(* The network *)

(* Nothing is sent to the server but what has room among its datagrams. *)
LEMMA ArrivalsBounded ==
  ASSUME UdpServerInv, ClientOK, QueuedOK, LinesOnce,
         \/ outward # {} \/ Cardinality(FromOthers(came)) < MaxOthers
         \/ Cardinality(repeated) < MaxRepeated
  PROVE  /\ came \in Seq(Datagram)
         /\ Len(received) + Len(queue) < MaxReceived
         /\ Cardinality(FromMe(came)) \in Nat /\ Cardinality(FullFromMe(came)) \in Nat
         /\ Cardinality(FromOthers(came)) \in Nat
<1>1. received \in Seq(Datagram) /\ queue \in Seq(Datagram)
  BY DEF UdpServerInv, TypeOK
<1>2. came \in Seq(Datagram) /\ Len(came) = Len(received) + Len(queue) /\ Len(came) \in Nat
  <2> HIDE DEF Datagram
  <2> QED
    BY <1>1 DEF came
<1>3. /\ Cardinality(FromMe(came)) \in Nat /\ Cardinality(FullFromMe(came)) \in Nat
      /\ Cardinality(FromOthers(came)) \in Nat
  <2>1. Len(came) <= Len(came) /\ \A k \in 1 .. Len(came) : came[k] = came[k]
    BY <1>2
  <2> QED
    BY <1>2, <2>1, DatagramsPrefix
<1>4. Len(came) = Cardinality(FromMe(came)) + Cardinality(FromOthers(came))
  BY <1>2, DatagramsAll
<1>5. /\ IsFiniteSet(SentLines(lines)) /\ Cardinality(SentLines(lines)) \in Nat
      /\ Cardinality(SentLines(lines)) <= MaxLines
      /\ outward \in SUBSET SentLines(lines)
  BY LinesFinite DEF QueuedOK
<1>6. IsFiniteSet(outward) /\ Cardinality(outward) \in Nat
  BY <1>5, FS_Subset, FS_CardinalityType
<1>7. outward # {} => Cardinality(outward) > 0
  <2>1. Cardinality(outward) = 0 => outward = {}
    BY <1>6, FS_EmptySet
  <2> QED
    BY <1>6, <2>1
<1>8. Cardinality(repeated) \in Nat /\ Cardinality(repeated) <= MaxRepeated
  BY RepeatedFinite DEF LinesOnce, RepeatedOK
<1> QED
  BY <1>2, <1>3, <1>4, <1>5, <1>6, <1>7, <1>8 DEF LinesOnce

(* A datagram that arrives is one more. *)
LEMMA ArrivalIs ==
  ASSUME UdpServerInv, NEW d \in Datagram, queue' = Append(queue, d), received' = received
  PROVE  came' = Append(came, d)
<1>1. received \in Seq(Datagram) /\ queue \in Seq(Datagram)
  BY DEF UdpServerInv, TypeOK
<1> HIDE DEF Datagram
<1>2. received \o Append(queue, d) = Append(received \o queue, d)
  BY <1>1
<1> QED
  BY <1>2 DEF came

(* A line arrives or is lost. *)
LEMMA LineStepKeeps ==
  ASSUME UdpServerInv, ClientOK, QueuedOK, LinesOnce, AnswersOnce, ShownOnce,
         NEW k, LineArrives(k) \/ LineIsLost(k)
  PROVE  ClientOK' /\ QueuedOK' /\ LinesOnce' /\ AnswersOnce' /\ ShownOnce'
<1>1. LineLeaves(k) /\ k \in outward /\ UNCHANGED <<listening, homeward, repeated>>
  BY DEF LineArrives, LineIsLost, LineLeaves
<1>2. /\ came \in Seq(Datagram)
      /\ Cardinality(FromMe(came)) \in Nat /\ Cardinality(FullFromMe(came)) \in Nat
      /\ Cardinality(FromOthers(came)) \in Nat
  BY <1>1, ArrivalsBounded
<1>3. /\ ClientOK' /\ QueuedOK' /\ lines[k].size \in 0 .. SendSpace
      /\ UNCHANGED <<inbound, arrived, shown>>
      /\ SentLines(lines)' = SentLines(lines) /\ Owed' = Owed
      /\ Cardinality(SentLines(lines)) \in Nat /\ Cardinality(Owed) \in Nat
      /\ Cardinality(outward') \in Nat /\ Cardinality(outward) = Cardinality(outward') + 1
      /\ Cardinality(outward' \cap Owed) \in Nat
      /\ Cardinality(outward \cap Owed)
           = Cardinality(outward' \cap Owed) + (IF lines[k].size > 0 THEN 1 ELSE 0)
  BY <1>1, <1>2, LeavingKeeps
<1>4. AnswersOnce' /\ ShownOnce'
  BY <1>1, <1>3, NothingAnswered, ShowingUndisturbed DEF listening
<1>5. /\ RepeatedOK' /\ repeated' = repeated
      /\ Cardinality(repeated) \in Nat /\ Cardinality(repeated \cap Owed) \in Nat
  BY <1>1, <1>3, RepeatedFinite DEF LinesOnce, RepeatedOK
<1>6. /\ Cardinality(outward) + Cardinality(FromMe(came))
           <= Cardinality(SentLines(lines)) + Cardinality(repeated)
      /\ Cardinality(outward \cap Owed) + Cardinality(FullFromMe(came))
           <= Cardinality(Owed) + Cardinality(repeated \cap Owed)
      /\ Cardinality(FromOthers(came)) <= MaxOthers
  BY DEF LinesOnce
<1>7. LinesOnce'
  <2>1. CASE LineArrives(k)
    <3> DEFINE d == [from |-> Me, len |-> Length(lines[k].size)]
    <3>1. d \in Datagram /\ d.from = Me /\ (d.len > 0 <=> lines[k].size > 0)
      BY <1>3 DEF Datagram, Length
    <3>2. queue' = Append(queue, d) /\ received' = received
      BY <1>1, <2>1 DEF LineArrives, LineIsQueued, listening
    <3> HIDE DEF d
    <3>3. came' = Append(came, d)
      BY <3>1, <3>2, ArrivalIs
    <3>4. /\ Cardinality(FromMe(came')) = Cardinality(FromMe(came)) + 1
          /\ Cardinality(FullFromMe(came'))
               = Cardinality(FullFromMe(came)) + (IF lines[k].size > 0 THEN 1 ELSE 0)
          /\ Cardinality(FromOthers(came')) = Cardinality(FromOthers(came))
      BY <1>2, <3>1, <3>3, DatagramsAppend
    <3>5. Cardinality(outward') + Cardinality(FromMe(came'))
            <= Cardinality(SentLines(lines)) + Cardinality(repeated)
      BY <1>2, <1>3, <1>5, <1>6, <3>4, SMTT(30)
    <3>6. Cardinality(outward' \cap Owed) + Cardinality(FullFromMe(came'))
            <= Cardinality(Owed) + Cardinality(repeated \cap Owed)
      <4>1. CASE lines[k].size > 0
        BY <1>2, <1>3, <1>5, <1>6, <3>4, <4>1, SMTT(30)
      <4>2. CASE ~(lines[k].size > 0)
        BY <1>2, <1>3, <1>5, <1>6, <3>4, <4>2, SMTT(30)
      <4> QED
        BY <4>1, <4>2
    <3> QED
      BY <1>3, <1>5, <1>6, <3>4, <3>5, <3>6 DEF LinesOnce
  <2>2. CASE LineIsLost(k)
    <3>1. came' = came
      BY <1>1, <2>2 DEF LineIsLost, listening, came
    <3>2. /\ Cardinality(FromMe(came')) = Cardinality(FromMe(came))
          /\ Cardinality(FullFromMe(came')) = Cardinality(FullFromMe(came))
          /\ Cardinality(FromOthers(came')) = Cardinality(FromOthers(came))
      BY <3>1, Zenon
    <3>3. Cardinality(outward') + Cardinality(FromMe(came'))
            <= Cardinality(SentLines(lines)) + Cardinality(repeated)
      BY <1>2, <1>3, <1>5, <1>6, <3>2, SMTT(30)
    <3>4. Cardinality(outward' \cap Owed) + Cardinality(FullFromMe(came'))
            <= Cardinality(Owed) + Cardinality(repeated \cap Owed)
      <4>1. CASE lines[k].size > 0
        BY <1>2, <1>3, <1>5, <1>6, <3>2, <4>1, SMTT(30)
      <4>2. CASE ~(lines[k].size > 0)
        BY <1>2, <1>3, <1>5, <1>6, <3>2, <4>2, SMTT(30)
      <4> QED
        BY <4>1, <4>2
    <3>5. Cardinality(FromOthers(came')) <= MaxOthers
      BY <1>6, <3>2
    <3> QED
      BY <1>3, <1>5, <3>3, <3>4, <3>5 DEF LinesOnce
  <2> QED
    BY <2>1, <2>2
<1> QED
  BY <1>3, <1>4, <1>7

(* Another sender's datagram arrives. *)
LEMMA OthersKeep ==
  ASSUME UdpServerInv, ClientOK, QueuedOK, LinesOnce, AnswersOnce, ShownOnce, OthersSend
  PROVE  ClientOK' /\ QueuedOK' /\ LinesOnce' /\ AnswersOnce' /\ ShownOnce'
<1>1. /\ Cardinality(FromOthers(came)) < MaxOthers /\ Arrive
      /\ queue'[Len(queue')].from # Me /\ UNCHANGED <<clientVars, outward, homeward, repeated>>
  BY DEF OthersSend, came
<1>2. UNCHANGED <<clientProcess, protocol, is_connected, clientMain, lines, link, queued, inbound,
                  arrived, shown, outward, homeward, repeated, received, replies>>
  BY <1>1 DEF clientVars, Arrive, listening
<1>3. ClientOK' /\ QueuedOK' /\ SentLines(lines)' = SentLines(lines) /\ Owed' = Owed
  BY <1>2 DEF ClientOK, QueuedOK, SentLines, Owed
<1>4. AnswersOnce' /\ ShownOnce'
  BY <1>2, NothingAnswered, ShowingUndisturbed
<1>5. PICK d \in Datagram : queue' = Append(queue, d)
  BY <1>1 DEF Arrive
<1>6. d.from # Me
  <2>1. queue \in Seq(Datagram)
    BY DEF UdpServerInv, TypeOK
  <2>2. Append(queue, d)[Len(Append(queue, d))] = d
    <3> HIDE DEF Datagram
    <3> QED
      BY <2>1, <1>5
  <2> QED
    BY <1>1, <1>5, <2>2
<1>7. came' = Append(came, d)
  BY <1>2, <1>5, ArrivalIs
<1>8. /\ came \in Seq(Datagram)
      /\ Cardinality(FromMe(came)) \in Nat /\ Cardinality(FullFromMe(came)) \in Nat
      /\ Cardinality(FromOthers(came)) \in Nat
  BY <1>1, ArrivalsBounded
<1>9. /\ Cardinality(FromMe(came')) = Cardinality(FromMe(came)) + 0
      /\ Cardinality(FullFromMe(came')) = Cardinality(FullFromMe(came)) + 0
      /\ Cardinality(FromOthers(came')) = Cardinality(FromOthers(came)) + 1
  BY <1>6, <1>7, <1>8, DatagramsAppend
<1>10. LinesOnce'
  BY <1>1, <1>2, <1>3, <1>8, <1>9 DEF LinesOnce, RepeatedOK
<1> QED
  BY <1>3, <1>4, <1>10

(* A copy of a line arrives. *)
LEMMA RepeatKeeps ==
  ASSUME UdpServerInv, ClientOK, QueuedOK, LinesOnce, AnswersOnce, ShownOnce,
         NEW k, Repeat(k)
  PROVE  ClientOK' /\ QueuedOK' /\ LinesOnce' /\ AnswersOnce' /\ ShownOnce'
<1> DEFINE d == [from |-> Me, len |-> Length(lines[k].size)]
<1>1. /\ k \in SentLines(lines) /\ k \notin repeated /\ Cardinality(repeated) < MaxRepeated
      /\ queue' = Append(queue, d) /\ repeated' = repeated \cup {k}
      /\ UNCHANGED <<listening, clientVars, outward, homeward>>
  BY DEF Repeat, LineIsQueued
<1>2. UNCHANGED <<clientProcess, protocol, is_connected, clientMain, lines, link, queued, inbound,
                  arrived, shown, outward, homeward, received, replies>>
  BY <1>1 DEF clientVars, listening
<1>3. ClientOK' /\ QueuedOK' /\ SentLines(lines)' = SentLines(lines) /\ Owed' = Owed
  BY <1>2 DEF ClientOK, QueuedOK, SentLines, Owed
<1>4. AnswersOnce' /\ ShownOnce'
  BY <1>2, NothingAnswered, ShowingUndisturbed
<1>5. /\ IsFiniteSet(repeated) /\ Cardinality(repeated) \in Nat
      /\ IsFiniteSet(repeated \cap Owed) /\ Cardinality(repeated \cap Owed) \in Nat
  BY RepeatedFinite DEF LinesOnce
<1>6. /\ came \in Seq(Datagram)
      /\ Cardinality(FromMe(came)) \in Nat /\ Cardinality(FullFromMe(came)) \in Nat
      /\ Cardinality(FromOthers(came)) \in Nat
  BY <1>1, ArrivalsBounded
<1>7. /\ k \in DOMAIN lines /\ lines[k].size \in 0 .. SendSpace
      /\ IsFiniteSet(SentLines(lines)) /\ IsFiniteSet(Owed)
      /\ Cardinality(SentLines(lines)) \in Nat /\ Cardinality(Owed) \in Nat
  BY <1>1, LinesFinite
<1>8. Cardinality(outward) \in Nat /\ Cardinality(outward \cap Owed) \in Nat
  <2>1. outward \in SUBSET SentLines(lines)
    BY DEF QueuedOK
  <2>2. IsFiniteSet(outward) /\ IsFiniteSet(outward \cap Owed)
    BY <1>7, <2>1, FS_Subset, FS_Intersection
  <2> QED
    BY <2>2, FS_CardinalityType
<1>9. d \in Datagram /\ d.from = Me /\ (d.len > 0 <=> lines[k].size > 0)
  BY <1>7 DEF Datagram, Length
<1>10. k \in Owed <=> lines[k].size > 0
  BY <1>1 DEF Owed
<1> HIDE DEF d
<1>11. came' = Append(came, d)
  BY <1>1, <1>2, <1>9, ArrivalIs
<1>12. /\ Cardinality(FromMe(came')) = Cardinality(FromMe(came)) + 1
       /\ Cardinality(FullFromMe(came'))
            = Cardinality(FullFromMe(came)) + (IF k \in Owed THEN 1 ELSE 0)
       /\ Cardinality(FromOthers(came')) = Cardinality(FromOthers(came))
  BY <1>6, <1>9, <1>10, <1>11, DatagramsAppend
<1>13. Cardinality(repeated') = Cardinality(repeated) + 1
  BY <1>1, <1>5, FS_AddElement
<1>14. Cardinality(repeated' \cap Owed)
         = Cardinality(repeated \cap Owed) + (IF k \in Owed THEN 1 ELSE 0)
  <2>1. CASE k \in Owed
    <3>1. repeated' \cap Owed = (repeated \cap Owed) \cup {k} /\ k \notin repeated \cap Owed
      BY <1>1, <2>1
    <3>2. Cardinality(repeated' \cap Owed) = Cardinality(repeated \cap Owed) + 1
      BY <1>5, <3>1, FS_AddElement
    <3> QED
      BY <2>1, <3>2
  <2>2. CASE k \notin Owed
    <3>1. repeated' \cap Owed = repeated \cap Owed
      BY <1>1, <2>2
    <3>2. Cardinality(repeated' \cap Owed) = Cardinality(repeated \cap Owed)
      BY <3>1, Zenon
    <3> QED
      BY <1>5, <2>2, <3>2
  <2> QED
    BY <2>1, <2>2
<1>15. RepeatedOK'
  BY <1>1, <1>3, <1>5, <1>13 DEF LinesOnce, RepeatedOK
<1>16. Cardinality(outward) + Cardinality(FromMe(came'))
         <= Cardinality(SentLines(lines)) + Cardinality(repeated')
  <2>1. Cardinality(outward) + Cardinality(FromMe(came))
          <= Cardinality(SentLines(lines)) + Cardinality(repeated)
    BY DEF LinesOnce
  <2> QED
    BY <1>5, <1>6, <1>7, <1>8, <1>12, <1>13, <2>1, SMTT(30)
<1>17. Cardinality(outward \cap Owed) + Cardinality(FullFromMe(came'))
         <= Cardinality(Owed) + Cardinality(repeated' \cap Owed)
  <2>1. Cardinality(outward \cap Owed) + Cardinality(FullFromMe(came))
          <= Cardinality(Owed) + Cardinality(repeated \cap Owed)
    BY DEF LinesOnce
  <2>2. CASE k \in Owed
    BY <1>5, <1>6, <1>7, <1>8, <1>12, <1>14, <2>1, <2>2
  <2>3. CASE k \notin Owed
    BY <1>5, <1>6, <1>7, <1>8, <1>12, <1>14, <2>1, <2>3
  <2> QED
    BY <2>2, <2>3
<1>18. LinesOnce'
  BY <1>2, <1>3, <1>12, <1>15, <1>16, <1>17 DEF LinesOnce
<1> QED
  BY <1>3, <1>4, <1>18

(* One datagram more has arrived, and waits. *)
LEMMA ArrivingKeeps ==
  ASSUME ClientOK, ShownOnce, NEW u \in Unit, Chatter!Arrive(<<u>>), shown' = shown
  PROVE  /\ inbound' \in Seq(Unit) /\ arrived' \in Seq(Unit) /\ arrived' = Append(arrived, u)
         /\ ShownOnce'
<1> DEFINE n == Len(inbound) + 1
<1>1. inbound \in Seq(Unit) /\ arrived \in Seq(Unit) /\ shown \in Seq(Shown)
  BY DEF ClientOK, ShownOnce
<1> HIDE DEF Unit, Shown
<1>2. ASSUME NEW s \in Seq(Unit) PROVE s \o <<u>> = Append(s, u)
  BY <1>2
<1>3. inbound' = Append(inbound, u) /\ arrived' = Append(arrived, u)
  BY <1>1, <1>2 DEF Chatter!Arrive
<1>4. /\ inbound' \in Seq(Unit) /\ arrived' \in Seq(Unit)
      /\ Len(inbound) \in Nat /\ Len(arrived) \in Nat /\ Len(shown) \in Nat
      /\ Len(inbound') = n /\ Len(arrived') = Len(arrived) + 1
      /\ inbound'[n] = u /\ arrived'[Len(arrived) + 1] = u
      /\ \A k \in 1 .. Len(inbound) : inbound'[k] = inbound[k]
      /\ \A k \in 1 .. Len(arrived) : arrived'[k] = arrived[k]
  BY <1>1, <1>3
<1>5. Len(arrived) = Len(shown) + Len(inbound)
  BY DEF ShownOnce
<1>6. Len(arrived') = Len(shown') + Len(inbound')
  BY <1>4, <1>5
<1>7. ASSUME NEW k \in 1 .. Len(inbound') PROVE inbound'[k] = arrived'[Len(shown') + k]
  <2>1. CASE k = n
    <3>1. Len(shown) + n = Len(arrived) + 1
      BY <1>4, <1>5
    <3> QED
      BY <1>4, <2>1, <3>1
  <2>2. CASE k # n
    <3>1. k \in 1 .. Len(inbound) /\ Len(shown) + k \in 1 .. Len(arrived)
      BY <1>4, <1>5, <1>7, <2>2
    <3> QED
      BY <1>4, <3>1 DEF ShownOnce
  <2> QED
    BY <2>1, <2>2
<1>8. ASSUME NEW k \in 1 .. Len(shown'), shown'[k].as = "delivered" PROVE arrived'[k] \in ReadsOK
  <2>1. k \in 1 .. Len(shown) /\ k \in 1 .. Len(arrived)
    BY <1>4, <1>5, <1>8
  <2> QED
    BY <1>4, <1>8, <2>1 DEF ShownOnce
<1>9. ShownOnce'
  BY <1>1, <1>6, <1>7, <1>8 DEF ShownOnce
<1> QED
  BY <1>3, <1>4, <1>9

(* An answer arrives or is lost. *)
LEMMA AnswerStepKeeps ==
  ASSUME UdpServerInv, ClientOK, QueuedOK, LinesOnce, AnswersOnce, ShownOnce,
         NEW k, AnswerArrives(k) \/ AnswerIsLost(k)
  PROVE  ClientOK' /\ QueuedOK' /\ LinesOnce' /\ AnswersOnce' /\ ShownOnce'
<1> DEFINE acks == Cardinality(Positions(arrived, {"ack"}))
           strays == Cardinality(Positions(arrived, PeerTexts))
<1>1. /\ k \in homeward /\ homeward' = homeward \ {k}
      /\ UNCHANGED <<clientProcess, protocol, is_connected, clientMain, lines, link, queued,
                     shown, outward, repeated, received, queue, replies>>
  BY DEF AnswerArrives, AnswerIsLost, AnswerLeaves, serverVars, listening
<1>2. UNCHANGED <<inbound, arrived>> \/ Chatter!Arrive(<<"ack">>)
  BY DEF AnswerArrives, AnswerIsLost
<1>3. /\ arrived \in Seq(Unit) /\ inbound \in Seq(Unit) /\ "ack" \in Unit
      /\ acks \in Nat /\ strays \in Nat
  BY ArrivedCounts DEF ClientOK, Unit
<1>4. /\ inbound' \in Seq(Unit) /\ arrived' \in Seq(Unit) /\ ShownOnce'
      /\ arrived' = arrived \/ arrived' = Append(arrived, "ack")
  <2>1. CASE UNCHANGED <<inbound, arrived>>
    BY <1>1, <1>3, <2>1, ShowingUndisturbed
  <2>2. CASE Chatter!Arrive(<<"ack">>)
    BY <1>1, <1>3, <2>2, ArrivingKeeps
  <2> QED
    BY <1>2, <2>1, <2>2
<1>5. ClientOK' /\ QueuedOK'
  BY <1>1, <1>4 DEF ClientOK, QueuedOK
<1>6. came' = came /\ SentLines(lines)' = SentLines(lines) /\ Owed' = Owed
  BY <1>1 DEF came, SentLines, Owed
<1>7. LinesOnce'
  BY <1>1, <1>6 DEF LinesOnce, RepeatedOK
<1>8. ForMe' = ForMe
  BY <1>1 DEF ForMe
<1>9. /\ Cardinality(homeward) \in Nat /\ Cardinality(homeward') = Cardinality(homeward) - 1
      /\ Cardinality(ForMe) \in Nat
  <2>1. IsFiniteSet(ForMe) /\ Cardinality(ForMe) \in Nat /\ homeward \in SUBSET ForMe
    BY AnswersAreToHandled DEF AnswersOnce
  <2>2. IsFiniteSet(homeward) /\ Cardinality(homeward) \in Nat
    BY <2>1, FS_Subset, FS_CardinalityType
  <2> QED
    BY <1>1, <2>1, <2>2, FS_RemoveElement
<1>10. acks' \in {acks, acks + 1} /\ strays' = strays
  <2>1. CASE arrived' = arrived
    BY <2>1 DEF Positions
  <2>2. CASE arrived' = Append(arrived, "ack")
    <3>1. \A T : Cardinality(Positions(Append(arrived, "ack"), T))
                   = Cardinality(Positions(arrived, T)) + (IF "ack" \in T THEN 1 ELSE 0)
      BY <1>3, PositionsAppend
    <3>2. /\ acks' = Cardinality(Positions(Append(arrived, "ack"), {"ack"}))
          /\ strays' = Cardinality(Positions(Append(arrived, "ack"), PeerTexts))
      BY <2>2, Zenon DEF PeerTexts
    <3>3. "ack" \in {"ack"} /\ "ack" \notin PeerTexts
      BY DEF PeerTexts
    <3> QED
      BY <1>3, <3>1, <3>2, <3>3
  <2> QED
    BY <1>4, <2>1, <2>2
<1>11. /\ homeward \subseteq ForMe /\ acks + Cardinality(homeward) <= Cardinality(ForMe)
       /\ strays <= MaxStrays
  BY DEF AnswersOnce
<1>12. AnswersOnce'
  <2>1. homeward' \subseteq ForMe'
    BY <1>1, <1>8, <1>11
  <2> HIDE DEF acks, strays
  <2>2. acks' + Cardinality(homeward') <= Cardinality(ForMe') /\ strays' <= MaxStrays
    BY <1>3, <1>8, <1>9, <1>10, <1>11
  <2> QED
    BY <2>1, <2>2 DEF AnswersOnce, acks, strays
<1> QED
  BY <1>4, <1>5, <1>7, <1>12

(* The client gets what is no answer on its way to it. *)
LEMMA StrayKeeps ==
  ASSUME UdpServerInv, ClientOK, QueuedOK, LinesOnce, AnswersOnce, ShownOnce, StrayArrives
  PROVE  /\ ClientOK' /\ QueuedOK' /\ LinesOnce' /\ AnswersOnce' /\ ShownOnce'
         /\ Cardinality(Positions(arrived, PeerTexts)) < MaxStrays
<1> DEFINE strays == Positions(arrived, PeerTexts)
<1>1. /\ Cardinality(strays) < MaxStrays
      /\ UNCHANGED <<clientProcess, protocol, is_connected, clientMain, lines, link, queued, shown,
                     outward, homeward, repeated, received, queue, replies>>
  BY DEF StrayArrives, serverVars, listening, Positions
<1>2. PICK u \in PeerTexts : Chatter!Arrive(<<u>>)
  BY DEF StrayArrives
<1>3. /\ arrived \in Seq(Unit) /\ u \in Unit /\ u \notin {"ack"}
      /\ Cardinality(Positions(arrived, {"ack"})) \in Nat /\ Cardinality(strays) \in Nat
  BY <1>2, ArrivedCounts DEF ClientOK, Unit, PeerTexts
<1>4. /\ inbound' \in Seq(Unit) /\ arrived' \in Seq(Unit) /\ ShownOnce'
      /\ arrived' = Append(arrived, u)
  BY <1>1, <1>2, <1>3, ArrivingKeeps
<1>5. ClientOK' /\ QueuedOK'
  BY <1>1, <1>4 DEF ClientOK, QueuedOK
<1>6. came' = came /\ SentLines(lines)' = SentLines(lines) /\ Owed' = Owed
  BY <1>1 DEF came, SentLines, Owed
<1>7. LinesOnce'
  BY <1>1, <1>6 DEF LinesOnce, RepeatedOK
<1>8. ForMe' = ForMe
  BY <1>1 DEF ForMe
<1>9. \A T : Cardinality(Positions(Append(arrived, u), T))
               = Cardinality(Positions(arrived, T)) + (IF u \in T THEN 1 ELSE 0)
  BY <1>3, PositionsAppend
<1>10. /\ Cardinality(Positions(arrived', {"ack"})) = Cardinality(Positions(arrived, {"ack"}))
       /\ Cardinality(Positions(arrived', PeerTexts)) = Cardinality(strays) + 1
  BY <1>2, <1>3, <1>4, <1>9
<1>11. AnswersOnce'
  <2> DEFINE acks == Cardinality(Positions(arrived, {"ack"}))
  <2>1. homeward' \subseteq ForMe' /\ acks + Cardinality(homeward') <= Cardinality(ForMe')
    BY <1>1, <1>8 DEF AnswersOnce
  <2>2. Cardinality(Positions(arrived', PeerTexts)) <= MaxStrays
    BY <1>1, <1>3, <1>10
  <2>3. (PeerTexts)' = PeerTexts
    BY DEF PeerTexts
  <2> QED
    BY <1>10, <2>1, <2>2, <2>3 DEF AnswersOnce
<1> QED
  BY <1>1, <1>4, <1>5, <1>7, <1>11

-----------------------------------------------------------------------------
(* Either program and its environment *)

(* Every step is one of the server as its own module has it: what the      *)
(* network brings finds the socket bound, by a process that is up, and is  *)
(* no more than the bound allows for.                                      *)
LEMMA ServerAllows ==
  ASSUME ChatInv, [ChatNext]_chatVars
  PROVE  [Next]_vars
<1> USE DEF ChatInv
<1>1. CASE ServerStep
  BY <1>1 DEF ServerStep, Next
<1>2. CASE UNCHANGED serverVars
  BY <1>2 DEF serverVars, vars
<1>3. ASSUME NEW k, LineArrives(k) PROVE Next
  <2> DEFINE d == [from |-> Me, len |-> Length(lines[k].size)]
  <2>1. /\ LineLeaves(k) /\ k \in outward /\ Bound /\ Len(queue) < QueueSize
        /\ queue' = Append(queue, d)
        /\ UNCHANGED <<process, running, server, main, listening>>
    BY <1>3 DEF LineArrives, LineIsQueued, LineLeaves
  <2>2. came \in Seq(Datagram) /\ Len(received) + Len(queue) < MaxReceived
    BY <2>1, ArrivalsBounded
  <2>3. lines[k].size \in 0 .. SendSpace
    BY <2>1, <2>2, LeavingKeeps
  <2>4. d \in Datagram
    BY <2>3 DEF Datagram, Length
  <2>5. Arrive
    BY <2>1, <2>2, <2>4 DEF Arrive
  <2> QED
    BY <2>1, <2>5, BoundIsUp DEF Next
<1>4. ASSUME NEW k, LineIsLost(k) PROVE UNCHANGED serverVars
  BY <1>4 DEF LineIsLost, LineLeaves, serverVars
<1>5. ASSUME NEW k, AnswerArrives(k) \/ AnswerIsLost(k) PROVE UNCHANGED serverVars
  BY <1>5 DEF AnswerArrives, AnswerIsLost, AnswerLeaves
<1>6. CASE process = "up" /\ OthersSend
  BY <1>6 DEF OthersSend, Next
<1>7. ClientStep \/ StrayArrives => UNCHANGED serverVars
  BY DEF ClientStep, StrayArrives
<1>8. UNCHANGED chatVars => UNCHANGED serverVars
  BY DEF chatVars
<1>9. ASSUME NEW k, process = "up", Repeat(k) PROVE Next
  <2> DEFINE d == [from |-> Me, len |-> Length(lines[k].size)]
  <2>1. /\ k \in SentLines(lines) /\ Bound /\ Len(queue) < QueueSize
        /\ Cardinality(repeated) < MaxRepeated /\ queue' = Append(queue, d)
        /\ UNCHANGED <<process, running, server, main, listening>>
    BY <1>9 DEF Repeat, LineIsQueued
  <2>2. Len(received) + Len(queue) < MaxReceived
    BY <2>1, ArrivalsBounded
  <2>3. lines[k].size \in 0 .. SendSpace
    BY <2>1, LinesFinite
  <2>4. d \in Datagram
    BY <2>3 DEF Datagram, Length
  <2>5. Arrive
    BY <2>1, <2>2, <2>4 DEF Arrive
  <2> QED
    BY <1>9, <2>5 DEF Next
<1> QED
  BY <1>1, <1>2, <1>3, <1>4, <1>5, <1>6, <1>7, <1>8, <1>9 DEF ChatNext, Delivery, Loss, Over

(* Fewer answers have arrived than may, as long as one is on its way.      *)
LEMMA AnswersBounded ==
  ASSUME ChatInv
  PROVE  /\ Len(arrived) <= MaxLines + MaxRepeated + Cardinality(Positions(arrived, PeerTexts))
         /\ homeward # {} =>
              /\ Len(arrived) < MaxLines + MaxRepeated + Cardinality(Positions(arrived, PeerTexts))
              /\ link = "up"
<1> USE DEF ChatInv
<1> DEFINE acks == Cardinality(Positions(arrived, {"ack"}))
           strays == Cardinality(Positions(arrived, PeerTexts))
           copies == Cardinality(repeated \cap Owed)
<1>1. /\ Cardinality(Handled) \in Nat
      /\ IsFiniteSet(ForMe) /\ Cardinality(ForMe) \in Nat
      /\ Cardinality(ForMe) <= Cardinality(Handled)
  BY AnswersAreToHandled
<1>2. /\ Cardinality(Handled) <= Cardinality(Owed) + copies
      /\ Cardinality(Owed) <= MaxLines /\ Cardinality(Owed) \in Nat
      /\ copies <= MaxRepeated /\ copies \in Nat
      /\ Owed = {} => copies = 0
      /\ Cardinality(Owed) > 0 => link = "up"
  BY HandledWasSent
<1>3. Cardinality(homeward) \in Nat /\ (homeward # {} => Cardinality(homeward) # 0)
  <2>1. homeward \in SUBSET ForMe
    BY DEF AnswersOnce
  <2>2. IsFiniteSet(homeward)
    BY <1>1, <2>1, FS_Subset
  <2> QED
    BY <2>2, FS_CardinalityType, FS_EmptySet
<1>4. acks \in Nat /\ strays \in Nat /\ Len(arrived) = acks + strays
  BY ArrivedCounts
<1>5. acks + Cardinality(homeward) <= Cardinality(ForMe)
  BY DEF AnswersOnce
<1>6. Cardinality(Owed) = 0 => copies = 0
  <2>1. IsFiniteSet(Owed)
    BY LinesFinite
  <2>2. Cardinality(Owed) = 0 => Owed = {}
    BY <2>1, FS_EmptySet
  <2> QED
    BY <1>2, <2>2
<1> HIDE DEF acks, strays, copies
<1>7. acks + Cardinality(homeward) <= Cardinality(Owed) + copies
  BY <1>1, <1>2, <1>3, <1>4, <1>5
<1>8. Len(arrived) <= MaxLines + MaxRepeated + strays
  BY <1>2, <1>3, <1>4, <1>7
<1>9. ASSUME homeward # {}
      PROVE  Len(arrived) < MaxLines + MaxRepeated + strays /\ link = "up"
  BY <1>2, <1>3, <1>4, <1>6, <1>7, <1>9
<1> QED
  BY <1>8, <1>9 DEF strays

(* Every step is one of the client as its own module has it: the server    *)
(* reads what was taken, and what comes to the client may come.            *)
LEMMA ClientAllows ==
  ASSUME ChatInv, [ChatNext]_chatVars
  PROVE  [Chatter!Next]_Chatter!vars
<1> USE DEF ChatInv
<1>1. CASE ClientStep
  BY <1>1 DEF ClientStep, ClientMainStep, ClientStart, Chatter!Next
<1>2. CASE UNCHANGED clientVars
  BY <1>2 DEF clientVars, Chatter!vars, Chatter!flags, Chatter!kernel
<1>3. ASSUME NEW k, LineArrives(k) \/ LineIsLost(k) PROVE [Chatter!Next]_Chatter!vars
  <2>1. /\ LineLeaves(k) /\ k \in outward
        /\ UNCHANGED <<clientProcess, protocol, is_connected, clientRunning, sock, nonblocking,
                       clientMain, receiver, lines, link, inbound, arrived, shown>>
    BY <1>3 DEF LineArrives, LineIsLost, LineLeaves
  <2>2. came \in Seq(Datagram)
    BY <2>1, ArrivalsBounded
  <2>3. /\ lines[k].size \in 0 .. SendSpace /\ link = "up"
        /\ clientProcess = "up" => queued' = queued - lines[k].size /\ lines[k].size <= queued
        /\ clientProcess # "up" => queued' = queued
    BY <2>1, <2>2, LeavingKeeps
  <2>4. queued \in Nat
    BY DEF QueuedOK
  <2>5. CASE queued' = queued
    BY <2>1, <2>5 DEF Chatter!vars, Chatter!flags, Chatter!kernel
  <2>6. CASE queued' # queued
    <3>1. clientProcess = "up" /\ lines[k].size \in 1 .. queued /\ queued' = queued - lines[k].size
      BY <2>3, <2>4, <2>6
    <3>2. Chatter!ServerReads
      BY <2>1, <2>3, <3>1 DEF Chatter!ServerReads, Chatter!flags
    <3> QED
      BY <3>1, <3>2 DEF Chatter!Next, Chatter!Environment
  <2> QED
    BY <2>5, <2>6
<1>4. ASSUME NEW k, AnswerArrives(k) PROVE Chatter!Next
  <2>1. /\ k \in homeward /\ clientProcess = "up" /\ Chatter!Arrive(<<"ack">>)
        /\ UNCHANGED <<clientProcess, protocol, is_connected, clientRunning, sock, nonblocking,
                       clientMain, receiver, lines, link, queued, shown>>
    BY <1>4 DEF AnswerArrives, AnswerLeaves
  <2>2. Len(arrived) < MaxArrived /\ link = "up"
    <3> DEFINE strays == Cardinality(Positions(arrived, PeerTexts))
    <3>1. Len(arrived) < MaxLines + MaxRepeated + strays /\ link = "up"
      BY <2>1, AnswersBounded
    <3>2. Len(arrived) \in Nat /\ strays \in Nat /\ strays <= MaxStrays
      BY ArrivedCounts DEF AnswersOnce
    <3> HIDE DEF strays
    <3> QED
      BY <3>1, <3>2 DEF MaxArrived
  <2>3. Chatter!ServerSends
    BY <2>1, <2>2 DEF Chatter!ServerSends, Chatter!ServerSendsOneOf, Chatter!flags
  <2> QED
    BY <2>1, <2>3 DEF Chatter!Next, Chatter!Environment
<1>5. ASSUME NEW k, AnswerIsLost(k) PROVE UNCHANGED clientVars
  BY <1>5 DEF AnswerIsLost, AnswerLeaves, clientVars
<1>6. ServerStep \/ OthersSend => UNCHANGED clientVars
  BY DEF ServerStep, OthersSend
<1>7. UNCHANGED chatVars => UNCHANGED clientVars
  BY DEF chatVars
<1>8. ASSUME NEW k, Repeat(k) PROVE UNCHANGED clientVars
  BY <1>8 DEF Repeat
<1>9. CASE clientProcess = "up" /\ StrayArrives
  <2>1. /\ link = "up" /\ \E u \in PeerTexts : Chatter!Arrive(<<u>>)
        /\ UNCHANGED <<clientProcess, protocol, is_connected, clientRunning, sock, nonblocking,
                       clientMain, receiver, lines, link, queued, shown>>
    BY <1>9 DEF StrayArrives
  <2>2. Len(arrived) < MaxArrived
    <3> DEFINE strays == Cardinality(Positions(arrived, PeerTexts))
    <3>1. Len(arrived) <= MaxLines + MaxRepeated + strays /\ strays < MaxStrays
      BY <1>9, AnswersBounded, StrayKeeps
    <3>2. Len(arrived) \in Nat /\ strays \in Nat
      BY ArrivedCounts
    <3> HIDE DEF strays
    <3> QED
      BY <3>1, <3>2 DEF MaxArrived
  <2>3. Chatter!ServerSends
    BY <2>1, <2>2 DEF Chatter!ServerSends, Chatter!ServerSendsOneOf, Chatter!flags
  <2> QED
    BY <1>9, <2>3 DEF Chatter!Next, Chatter!Environment
<1> QED
  BY <1>1, <1>2, <1>3, <1>4, <1>5, <1>6, <1>7, <1>8, <1>9 DEF ChatNext, Delivery, Loss, Over

-----------------------------------------------------------------------------
(* Both programs *)

(* Before anything is sent, all counts are zero. *)
LEMMA ChatInvInit == ChatInit => ChatInv
<1> SUFFICES ASSUME ChatInit PROVE ChatInv
  OBVIOUS
<1>1. UdpServerInv
  BY UdpServerInvInit DEF ChatInit
<1>2. EndOK
  BY DEF ChatInit, Init, EndOK
<1>3. ClientOK
  <2>1. SentLines(<<>>) = {}
    BY DEF SentLines
  <2>2. <<>> \in Seq(Line) /\ <<>> \in Seq(Unit) /\ Len(<<>>) = 0
    OBVIOUS
  <2> QED
    BY <2>1, <2>2 DEF ChatInit, Chatter!Init, ClientOK
<1>4. /\ Cardinality({}) = 0 /\ outward = {} /\ homeward = {} /\ repeated = {} /\ queued = 0
      /\ lines = <<>> /\ shown = <<>> /\ inbound = <<>> /\ arrived = <<>>
      /\ received = <<>> /\ queue = <<>> /\ replies = <<>>
  BY FS_EmptySet DEF ChatInit, Init, Chatter!Init
<1>5. QueuedOK
  <2>1. Parts(outward, lines) = {}
    BY <1>4 DEF Parts
  <2> QED
    BY <1>4, <2>1 DEF QueuedOK
<1>6. LinesOnce
  <2>1. came = <<>>
    BY <1>4 DEF came
  <2>2. FromMe(came) = {} /\ FullFromMe(came) = {} /\ FromOthers(came) = {}
    BY <2>1 DEF FromMe, FullFromMe, FromOthers
  <2>3. SentLines(lines) = {} /\ Owed = {} /\ outward \cap Owed = {} /\ repeated \cap Owed = {}
    BY <1>4 DEF SentLines, Owed
  <2>4. /\ Cardinality(FromMe(came)) = 0 /\ Cardinality(FullFromMe(came)) = 0
        /\ Cardinality(FromOthers(came)) = 0
        /\ Cardinality(SentLines(lines)) = 0 /\ Cardinality(Owed) = 0
        /\ Cardinality(outward) = 0 /\ Cardinality(outward \cap Owed) = 0
        /\ Cardinality(repeated) = 0 /\ Cardinality(repeated \cap Owed) = 0
    BY <1>4, <2>2, <2>3, Zenon
  <2> QED
    BY <1>4, <2>4 DEF LinesOnce, RepeatedOK
<1>7. AnswersOnce
  <2>1. ForMe = {} /\ \A T : Positions(arrived, T) = {}
    BY <1>4 DEF ForMe, Positions
  <2>2. Cardinality(ForMe) = 0 /\ \A T : Cardinality(Positions(arrived, T)) = 0
    BY <1>4, <2>1, Zenon
  <2>3. Cardinality(homeward) = 0
    BY <1>4, Zenon
  <2> QED
    BY <1>4, <2>2, <2>3 DEF AnswersOnce
<1>8. ShownOnce
  BY <1>4 DEF ShownOnce
<1> QED
  BY <1>1, <1>2, <1>3, <1>5, <1>6, <1>7, <1>8 DEF ChatInv

(* Every step of either program and of the network preserves the           *)
(* invariant.                                                              *)
LEMMA ChatInvNext ==
  ASSUME ChatInv, [ChatNext]_chatVars
  PROVE  ChatInv'
<1> USE DEF ChatInv
<1>1. UdpServerInv' /\ EndOK'
  BY ServerAllows, UdpServerInvNext, EndKeeps
<1>2. came \in Seq(Datagram)
  <2>1. received \in Seq(Datagram) /\ queue \in Seq(Datagram)
    BY DEF UdpServerInv, TypeOK
  <2> HIDE DEF Datagram
  <2> QED
    BY <2>1 DEF came
<1>3. ClientOK' /\ QueuedOK' /\ LinesOnce' /\ AnswersOnce' /\ ShownOnce'
  <2>1. CASE UNCHANGED chatVars
    <3>1. UNCHANGED <<clientProcess, protocol, is_connected, clientMain, lines, link, queued,
                      inbound, arrived, shown, outward, homeward, repeated, received, queue,
                      replies>>
      BY <2>1 DEF chatVars, serverVars, clientVars, listening
    <3>2. ClientOK' /\ QueuedOK'
      BY <3>1 DEF ClientOK, QueuedOK
    <3>3. came' = came /\ SentLines(lines)' = SentLines(lines) /\ Owed' = Owed
      BY <3>1 DEF came, SentLines, Owed
    <3>4. LinesOnce' /\ AnswersOnce' /\ ShownOnce'
      BY <3>1, <3>3, NothingAnswered, ShowingUndisturbed DEF LinesOnce, RepeatedOK
    <3> QED
      BY <3>2, <3>4
  <2> QED
    BY <1>1, <1>2, <2>1, ServerStepKeeps, ClientKeeps, LineStepKeeps, AnswerStepKeeps, OthersKeep,
       RepeatKeeps, StrayKeeps
       DEF ChatNext, Delivery, Loss, Over
<1> QED
  BY <1>1, <1>3

(* Lines and answers are nowhere twice: in every reachable state those on  *)
(* their way, in the queue and received are no more than were sent.        *)
THEOREM ChatInvariant == ChatSpec => []ChatInv
BY ChatInvInit, ChatInvNext, PTL DEF ChatSpec

(* "Message delivered" is shown at most once for every line or copy of a   *)
(* line that the server has received, and for every datagram that reads    *)
(* "OK" and comes to the client from elsewhere; and what the server has    *)
(* received was reported as sent, or is a copy that the network has made   *)
(* of such a line.                                                         *)
THEOREM ToldOfHandled == ChatSpec => []ToldOfHandledOnly
<1>1. ChatInv => ToldOfHandledOnly
  <2> SUFFICES ASSUME ChatInv PROVE ToldOfHandledOnly
    OBVIOUS
  <2> USE DEF ChatInv
  <2> DEFINE acks == Cardinality(Positions(arrived, {"ack"}))
  <2>1. /\ Cardinality(Handled) \in Nat
        /\ IsFiniteSet(ForMe) /\ Cardinality(ForMe) \in Nat
        /\ Cardinality(ForMe) <= Cardinality(Handled)
    BY AnswersAreToHandled
  <2>2. Cardinality(Handled) <= Cardinality(Owed) + Cardinality(repeated \cap Owed)
    BY HandledWasSent
  <2>3. Cardinality(homeward) \in Nat
    <3>1. homeward \in SUBSET ForMe
      BY DEF AnswersOnce
    <3> QED
      BY <2>1, <3>1, FS_Subset, FS_CardinalityType
  <2>4. /\ acks \in Nat /\ Cardinality(Strays) \in Nat
        /\ Told \in Nat /\ Told <= acks + Cardinality(Strays)
    BY ArrivedCounts, ToldHasArrived
  <2>5. acks + Cardinality(homeward) <= Cardinality(ForMe)
    BY DEF AnswersOnce
  <2> HIDE DEF acks
  <2>6. Told <= Cardinality(Handled) + Cardinality(Strays)
    BY <2>1, <2>3, <2>4, <2>5
  <2> QED
    BY <2>2, <2>6 DEF ToldOfHandledOnly
<1> QED
  BY <1>1, ChatInvariant, PTL

(* Every behaviour of client, server and network is one of the server in   *)
(* the environment its module gives it, and one of the client in its.      *)
THEOREM ComponentsImplemented == ChatSpec => ComponentsAsModelled
<1>1. ChatInit => Init /\ Chatter!Init
  BY DEF ChatInit
<1>2. ChatInv /\ [ChatNext]_chatVars => [Next]_vars /\ [Chatter!Next]_Chatter!vars
  BY ServerAllows, ClientAllows
<1> QED
  BY <1>1, <1>2, ChatInvariant, PTL DEF ChatSpec, ComponentsAsModelled, Spec, Chatter!Spec
=============================================================================
