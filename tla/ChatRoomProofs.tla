---------------------------- MODULE ChatRoomProofs ----------------------------
(***************************************************************************)
(* Proofs about what the clients of the chat server over TCP get, for      *)
(* every value of the constants: that it implements ChatRoom, and that a   *)
(* broadcast reaches every client whose descriptor number is its own.      *)
(***************************************************************************)
EXTENDS TcpServerProofs, FiniteSetTheorems

USE TcpServerAssumption

-----------------------------------------------------------------------------
(* Broadcasts *)

HasEntry(f) == \E k \in DOMAIN clients : clients[k] = f

(* Until the server is stopped, a connection that is served under a        *)
(* descriptor no other connection has had is in tcp_clients_.              *)
EntryOK ==
  running =>
    /\ listener.pc = "spawn" => HasEntry(listener.fd) \/ \E e \in Conns : handler[e].fd = listener.fd
    /\ \A d \in Conns : Serving(d) /\ Fresh(d) => HasEntry(handler[d].fd)

(* In the loop of broadcast_tcp, such a client is still ahead or has got   *)
(* the chunk.                                                              *)
Loop(c) ==
  handler[c].pc = "send" =>
    \A d \in handler[c].audience : StillThere(d) /\ Fresh(d) =>
      \E k \in DOMAIN clients :
        clients[k] = handler[d].fd /\ (k < handler[c].i => BroadcastReached(c, d))

LoopOK == \A c \in Conns : Loop(c)

BroadcastInv == EntryOK /\ LoopOK /\ BroadcastReachesFresh

-----------------------------------------------------------------------------
(* The chat room *)

Busy(c) == handler[c].pc \in {"ack", "broadcast", "send"}

(* No client is owed more acknowledgements than messages were read of it.  *)
AcksOK ==
  \A c \in Conns :
    /\ received[c] <= sent[c]
    /\ Cardinality(Room!Acks(c)) + (IF handler[c].pc = "ack" THEN 1 ELSE 0) <= received[c]

(* The chunk that a thread is busy with is the last that was read, and all *)
(* other pieces of its client in any inbox are older.                      *)
PiecesOK ==
  \A c \in Conns :
    /\ Busy(c) =>
         /\ handler[c].chunk.from = c
         /\ 1 <= handler[c].chunk.first /\ handler[c].chunk.first <= handler[c].chunk.last
         /\ handler[c].chunk.last = received[c]
    /\ \A d \in Conns : \A piece \in Room!Got(d) : piece.from = c =>
         /\ piece.last <= received[c]
         /\ Busy(c) => piece = handler[c].chunk \/ piece.last < handler[c].chunk.first

RoomInv == AcksOK /\ PiecesOK

-----------------------------------------------------------------------------
(* What steps change of the threads *)

ServingSteps == {"check", "recv", "ack", "broadcast", "send"}
BusySteps == {"ack", "broadcast", "send"}

(* A thread keeps its descriptor, and is not served again.  This holds of  *)
(* every step.                                                             *)
Keeps(old, new) ==
  /\ old.pc # "none" => new.fd = old.fd /\ new.pc # "none"
  /\ new.pc \in ServingSteps => old.pc \in ServingSteps \cup {"none"}

(* Nothing new is read. *)
ReadsNot(old, new) ==
  /\ new.chunk = old.chunk
  /\ new.pc = "ack" => old.pc = "ack"
  /\ new.pc \in BusySteps => old.pc \in BusySteps

(* No broadcast begins, advances or ends. *)
LoopsNot(old, new) ==
  /\ new.pc = "send" =>
       old.pc = "send" /\ new.audience = old.audience /\ new.i = old.i /\ new.chunk = old.chunk
  /\ new.pc = "check" =>
       \/ new.audience = {}
       \/ old.pc = "check" /\ new.audience = old.audience /\ new.chunk = old.chunk

Plain ==
  /\ UNCHANGED <<received, inbox>>
  /\ \A c \in Conns : /\ Keeps(handler[c], handler'[c])
                      /\ ReadsNot(handler[c], handler'[c])
                      /\ LoopsNot(handler[c], handler'[c])

(* Where no thread moves, nothing of this happens. *)
LEMMA NoMoveIsPlain ==
  ASSUME UNCHANGED <<handler, received, inbox>>
  PROVE  Plain
BY DEF Plain, Keeps, ReadsNot, LoopsNot

(* Where one thread moves, it is enough to look at that. *)
LEMMA OneMoveIsPlain ==
  ASSUME TypeOK, NEW c \in Conns, NEW thread \in Thread, HandlerBecomes(c, thread),
         UNCHANGED <<received, inbox>>,
         Keeps(handler[c], thread), ReadsNot(handler[c], thread), LoopsNot(handler[c], thread)
  PROVE  Plain
<1>1. /\ handler'[c] = thread
      /\ \A d \in Conns \ {c} : handler'[d] = handler[d]
  BY BecomesIs
<1>2. \A d \in Conns \ {c} : /\ Keeps(handler[d], handler'[d])
                             /\ ReadsNot(handler[d], handler'[d])
                             /\ LoopsNot(handler[d], handler'[d])
  BY <1>1 DEF Keeps, ReadsNot, LoopsNot
<1>3. ASSUME NEW d \in Conns
      PROVE /\ Keeps(handler[d], handler'[d])
            /\ ReadsNot(handler[d], handler'[d])
            /\ LoopsNot(handler[d], handler'[d])
  BY <1>1, <1>2
<1> QED
  BY <1>3 DEF Plain

(* The steps of main and the listener, but for closing and spawning. *)
LEMMA MainIsPlain ==
  ASSUME \/ ListenerCheck \/ ListenerCall \/ Accept \/ AcceptFails \/ PushBegin \/ PushEnd
         \/ Command \/ CloseServer \/ JoinListener \/ ClearBegin \/ ClearEnd \/ MainReturn
         \/ Undefined \/ UNCHANGED vars
  PROVE  Plain
<1>1. UNCHANGED <<handler, received, inbox>>
  BY DEF ListenerCheck, ListenWhile, ListenerCall, Accept, AcceptFails, AcceptFailsThen, PushBegin,
         PushEnd, Command, CloseServer, JoinListener, JoinWhen, ClearBegin, ClearEnd, MainReturn,
         Undefined, vars, threads, network
<1> QED
  BY <1>1, NoMoveIsPlain

(* The steps of the clients. *)
LEMMA ClientIsPlain ==
  ASSUME NEW c \in Conns, Client(c)
  PROVE  Plain
<1>1. UNCHANGED <<handler, received, inbox>>
  BY DEF Client, Connect, SendMessage, Stall, Disconnect, threads
<1> QED
  BY <1>1, NoMoveIsPlain

(* A thread is started. *)
LEMMA SpawnIsPlain ==
  ASSUME DescriptorInv, Spawn
  PROVE  Plain
<1> DEFINE c == listener.conn
           thread == [handler[c] EXCEPT !.pc = "check", !.fd = listener.fd]
<1>0. TypeOK /\ ListenerOK /\ HandlerOK
  BY DEF DescriptorInv
<1>1. /\ listener.pc = "spawn" /\ HandlerBecomes(c, thread)
      /\ UNCHANGED <<received, inbox>>
  BY DEF Spawn, network
<1>2. c \in Conns /\ listener.fd \in Fds /\ handler[c].pc = "none" /\ handler[c].audience = {}
      /\ handler[c] \in Thread
  BY <1>0, <1>1, ThreadFields DEF ListenerOK, HandlerOK, TypeOK
<1> HIDE DEF c
<1>3. /\ thread \in Thread /\ thread.pc = "check" /\ thread.audience = {}
      /\ thread.chunk = handler[c].chunk
  BY <1>2 DEF Thread
<1> HIDE DEF thread
<1>4. Keeps(handler[c], thread) /\ ReadsNot(handler[c], thread) /\ LoopsNot(handler[c], thread)
  BY <1>2, <1>3 DEF Keeps, ReadsNot, LoopsNot, ServingSteps, BusySteps
<1> QED
  BY <1>0, <1>1, <1>2, <1>3, <1>4, OneMoveIsPlain

(* The steps of a thread, but for those that read or send, and for the     *)
(* beginning and the end of a broadcast.                                   *)
LEMMA HandlerIsPlain ==
  ASSUME DescriptorInv, NEW c \in Conns,
         HandlerCheck(c) \/ RecvFails(c) \/ EraseBegin(c) \/ EraseEnd(c)
  PROVE  Plain
<1>0. TypeOK /\ handler[c] \in Thread
  BY ThreadFields DEF DescriptorInv
<1>1. CASE HandlerCheck(c)
  <2> DEFINE label == IF running THEN "recv" ELSE "close"
             thread == [handler[c] EXCEPT !.pc = label, !.audience = {}]
  <2>1. HandlerBecomes(c, thread) /\ handler[c].pc = "check" /\ UNCHANGED <<received, inbox>>
    BY <1>1 DEF HandlerCheck, network
  <2>2. label \in {"recv", "close"}
    OBVIOUS
  <2> HIDE DEF label
  <2>3. thread \in Thread /\ thread.pc = label /\ thread.fd = handler[c].fd
        /\ thread.chunk = handler[c].chunk
    BY <1>0, <2>2 DEF Thread
  <2> HIDE DEF thread
  <2>4. Keeps(handler[c], thread) /\ ReadsNot(handler[c], thread) /\ LoopsNot(handler[c], thread)
    BY <2>1, <2>2, <2>3 DEF Keeps, ReadsNot, LoopsNot, ServingSteps, BusySteps
  <2> QED
    BY <1>0, <2>1, <2>3, <2>4, OneMoveIsPlain
<1>2. CASE RecvFails(c)
  <2> DEFINE thread == [handler[c] EXCEPT !.pc = "close", !.on = NoConn]
  <2>1. HandlerBecomes(c, thread) /\ handler[c].pc = "recv" /\ UNCHANGED <<received, inbox>>
    BY <1>2 DEF RecvFails, RecvFailsIf, network
  <2>2. thread \in Thread /\ thread.pc = "close" /\ thread.fd = handler[c].fd
        /\ thread.chunk = handler[c].chunk
    BY <1>0 DEF Thread
  <2> HIDE DEF thread
  <2>3. Keeps(handler[c], thread) /\ ReadsNot(handler[c], thread) /\ LoopsNot(handler[c], thread)
    BY <2>1, <2>2 DEF Keeps, ReadsNot, LoopsNot, ServingSteps, BusySteps
  <2> QED
    BY <1>0, <2>1, <2>2, <2>3, OneMoveIsPlain
<1>3. CASE (EraseBegin(c) /\ ~WriteRace(c)) \/ EraseEnd(c)
  <2>1. PICK label \in {"erasing", "exited"} :
          /\ HandlerBecomes(c, [handler[c] EXCEPT !.pc = label])
          /\ handler[c].pc \in {"erase", "erasing"} /\ UNCHANGED <<received, inbox>>
    BY <1>3 DEF EraseBegin, EraseEnd, EraseTo, HandlerGoto, network
  <2> DEFINE thread == [handler[c] EXCEPT !.pc = label]
  <2>2. thread \in Thread /\ thread.pc = label /\ thread.fd = handler[c].fd
        /\ thread.chunk = handler[c].chunk
    BY <1>0, <2>1 DEF Thread
  <2>3. HandlerBecomes(c, thread)
    BY <2>1
  <2> HIDE DEF thread
  <2>4. Keeps(handler[c], thread) /\ ReadsNot(handler[c], thread) /\ LoopsNot(handler[c], thread)
    BY <2>1, <2>2 DEF Keeps, ReadsNot, LoopsNot, ServingSteps, BusySteps
  <2> QED
    BY <1>0, <2>1, <2>2, <2>3, <2>4, OneMoveIsPlain
<1>4. CASE EraseBegin(c) /\ WriteRace(c)
  BY <1>4, MainIsPlain DEF EraseBegin
<1> QED
  BY <1>1, <1>2, <1>3, <1>4

(* A descriptor is closed. *)
LEMMA CloseIsPlain ==
  ASSUME DescriptorInv, CloseClient \/ \E c \in Conns : CloseSocket(c)
  PROVE  Plain
<1>0. TypeOK /\ MainOK /\ HandlerOK
  BY DEF DescriptorInv
<1>1. CASE CloseClient
  <2>1. clients[main.i] \in Fds /\ handler' \in HandlersAfterClose(clients[main.i])
        /\ UNCHANGED <<received, inbox>>
    BY <1>0, <1>1 DEF CloseClient, network, TypeOK, MainOK
  <2>2. \A d \in Conns : /\ handler'[d].pc = handler[d].pc /\ handler'[d].fd = handler[d].fd
                         /\ handler'[d].i = handler[d].i /\ handler'[d].chunk = handler[d].chunk
                         /\ handler'[d].audience = handler[d].audience
    BY <1>0, <2>1, AfterCloseIs
  <2> QED
    BY <2>1, <2>2 DEF Plain, Keeps, ReadsNot, LoopsNot
<1>2. ASSUME NEW c \in Conns, CloseSocket(c) PROVE Plain
  <2>1. PICK after \in HandlersAfterClose(handler[c].fd) :
          handler' = [after EXCEPT ![c].pc = "erase"]
    BY <1>2 DEF CloseSocket, CloseSocketThen
  <2>2. handler[c].pc = "close" /\ UNCHANGED <<received, inbox>>
    BY <1>2 DEF CloseSocket, CloseSocketThen, network
  <2>3. handler[c].fd \in Fds
    BY <1>0, <2>2, HasFd
  <2>4. /\ after \in [Conns -> Thread]
        /\ \A d \in Conns : /\ after[d].pc = handler[d].pc /\ after[d].fd = handler[d].fd
                            /\ after[d].i = handler[d].i /\ after[d].chunk = handler[d].chunk
                            /\ after[d].audience = handler[d].audience
    BY <1>0, <2>3, AfterCloseIs
  <2>5. \A d \in Conns : handler'[d].pc = IF d = c THEN "erase" ELSE handler[d].pc
    BY <2>1, <2>4 DEF Thread
  <2>6. \A d \in Conns : /\ handler'[d].fd = handler[d].fd
                         /\ handler'[d].i = handler[d].i /\ handler'[d].chunk = handler[d].chunk
                         /\ handler'[d].audience = handler[d].audience
    BY <2>1, <2>4 DEF Thread
  <2> QED
    BY <2>2, <2>5, <2>6 DEF Plain, Keeps, ReadsNot, LoopsNot, ServingSteps, BusySteps
<1> QED
  BY <1>1, <1>2

(* A broadcast begins with those that are served, and nothing new is read. *)
LEMMA BroadcastBeginIs ==
  ASSUME DescriptorInv, NEW c \in Conns, BroadcastBegin(c), ~ReadRace(c)
  PROVE  /\ handler[c].pc = "broadcast"
         /\ \A d \in Conns \ {c} : handler'[d] = handler[d]
         /\ handler'[c].pc = "send" /\ handler'[c].i = 1
         /\ handler'[c].audience = {d \in Conns \ {c} : Serving(d)}
         /\ handler'[c].fd = handler[c].fd /\ handler'[c].chunk = handler[c].chunk
         /\ UNCHANGED <<process, running, server, clients, main, listener, fds, backlog, peer,
                        sent, received, inbox>>
<1> DEFINE audience == {d \in Conns \ {c} : Serving(d)}
           thread == [handler[c] EXCEPT !.pc = "send", !.i = 1, !.audience = audience]
<1>0. TypeOK /\ handler[c] \in Thread
  BY ThreadFields DEF DescriptorInv
<1>1. HandlerBecomes(c, thread) /\ handler[c].pc = "broadcast"
      /\ UNCHANGED <<process, running, server, clients, main, listener, fds, backlog, peer,
                     sent, received, inbox>>
  BY DEF BroadcastBegin, network
<1>2. audience \in SUBSET Conns
  OBVIOUS
<1> HIDE DEF audience
<1>3. thread \in Thread /\ thread.pc = "send" /\ thread.i = 1 /\ thread.audience = audience
      /\ thread.fd = handler[c].fd /\ thread.chunk = handler[c].chunk
  BY <1>0, <1>2 DEF Thread
<1> HIDE DEF thread
<1>4. handler'[c] = thread /\ \A d \in Conns \ {c} : handler'[d] = handler[d]
  BY <1>0, <1>1, <1>3, BecomesIs
<1> QED
  BY <1>1, <1>3, <1>4 DEF audience

(* A broadcast ends behind the last entry; its audience is remembered. *)
LEMMA BroadcastEndIs ==
  ASSUME DescriptorInv, NEW c \in Conns, BroadcastEnd(c)
  PROVE  /\ handler[c].pc = "send" /\ handler[c].i > Len(clients)
         /\ \A d \in Conns \ {c} : handler'[d] = handler[d]
         /\ handler'[c].pc = "check" /\ handler'[c].audience = handler[c].audience
         /\ handler'[c].fd = handler[c].fd /\ handler'[c].chunk = handler[c].chunk
         /\ UNCHANGED <<process, running, server, clients, main, listener, fds, backlog, peer,
                        sent, received, inbox>>
<1> DEFINE thread == [handler[c] EXCEPT !.pc = "check"]
<1>0. TypeOK /\ handler[c] \in Thread
  BY ThreadFields DEF DescriptorInv
<1>1. HandlerBecomes(c, thread) /\ handler[c].pc = "send" /\ handler[c].i > Len(clients)
      /\ UNCHANGED <<process, running, server, clients, main, listener, fds, backlog, peer,
                     sent, received, inbox>>
  BY DEF BroadcastEnd, HandlerGoto, network
<1>2. thread \in Thread /\ thread.pc = "check" /\ thread.audience = handler[c].audience
      /\ thread.fd = handler[c].fd /\ thread.chunk = handler[c].chunk
  BY <1>0 DEF Thread
<1> HIDE DEF thread
<1>3. handler'[c] = thread /\ \A d \in Conns \ {c} : handler'[d] = handler[d]
  BY <1>0, <1>1, <1>2, BecomesIs
<1> QED
  BY <1>1, <1>2, <1>3

(* recv takes the next messages of the thread's own client. *)
LEMMA RecvIs ==
  ASSUME DescriptorInv, NEW c \in Conns, Recv(c)
  PROVE  /\ handler[c].pc = "recv" /\ handler'[c].pc = "ack"
         /\ \A d \in Conns \ {c} : handler'[d] = handler[d]
         /\ handler'[c].fd = handler[c].fd /\ handler'[c].audience = handler[c].audience
         /\ received' = [received EXCEPT ![c] = handler'[c].chunk.last]
         /\ handler'[c].chunk = [from |-> c, first |-> received[c] + 1,
                                 last |-> handler'[c].chunk.last]
         /\ handler'[c].chunk.last \in received[c] + 1 .. sent[c]
         /\ UNCHANGED <<process, running, server, clients, main, listener, fds, backlog, peer,
                        sent, inbox>>
<1> DEFINE Chunk(n) == [from |-> c, first |-> received[c] + 1, last |-> n]
           Taken(n) == [handler[c] EXCEPT !.pc = "ack", !.on = NoConn, !.chunk = Chunk(n)]
<1>0. TypeOK
  BY DEF DescriptorInv
<1>1. handler[c].pc = "recv" /\ handler[c] \in Thread /\ Behind(c, handler[c].fd) = c
      /\ received[c] \in Nat /\ sent[c] \in Nat
      /\ UNCHANGED <<process, running, server, clients, main, listener, fds, backlog, peer, sent,
                     inbox>>
  BY <1>0, OwnConnection, ThreadFields DEF Recv, TypeOK
<1>2. PICK n \in received[c] + 1 .. sent[c] :
        HandlerBecomes(c, Taken(n)) /\ received' = [received EXCEPT ![c] = n]
  BY <1>1 DEF Recv
<1> DEFINE chunk == Chunk(n)
<1>3. chunk \in Piece /\ chunk.last = n
  BY <1>1, <1>2 DEF Piece
<1> DEFINE thread == Taken(n)
<1>4. HandlerBecomes(c, thread)
  BY <1>2
<1>5. thread \in Thread /\ thread.pc = "ack" /\ thread.audience = handler[c].audience
      /\ thread.fd = handler[c].fd /\ thread.chunk = chunk
  <2> HIDE DEF chunk
  <2>1. thread = [handler[c] EXCEPT !.pc = "ack", !.on = NoConn, !.chunk = chunk]
    BY DEF chunk
  <2> HIDE DEF thread
  <2> QED
    BY <1>1, <1>3, <2>1 DEF Thread
<1> HIDE DEF thread
<1>6. handler'[c] = thread /\ \A d \in Conns \ {c} : handler'[d] = handler[d]
  BY <1>0, <1>4, <1>5, BecomesIs
<1>7. handler'[c].chunk = chunk /\ handler'[c].chunk.last = n
  BY <1>3, <1>5, <1>6
<1> QED
  BY <1>1, <1>2, <1>5, <1>6, <1>7

(* What is put into an inbox. *)
Puts(d, piece) == peer[d] = "open" /\ inbox' = [inbox EXCEPT ![d] = Append(@, piece)]

(* The acknowledgement goes to the thread's own client, if it goes at all. *)
LEMMA AcknowledgeIs ==
  ASSUME DescriptorInv, NEW c \in Conns, Acknowledge(c)
  PROVE  /\ handler[c].pc = "ack" /\ handler'[c].pc = "broadcast"
         /\ \A d \in Conns \ {c} : handler'[d] = handler[d]
         /\ handler'[c].fd = handler[c].fd /\ handler'[c].audience = handler[c].audience
         /\ handler'[c].chunk = handler[c].chunk
         /\ inbox' = inbox \/ Puts(c, OK)
         /\ UNCHANGED <<running, server, clients, main, listener, fds, backlog, sent, received>>
<1> DEFINE thread == [handler[c] EXCEPT !.pc = "broadcast", !.on = NoConn]
           d == Behind(c, handler[c].fd)
<1>0. TypeOK /\ HandlerOK /\ handler[c] \in Thread
  BY ThreadFields DEF DescriptorInv
<1>1. HandlerBecomes(c, thread) /\ handler[c].pc = "ack" /\ Send(d, OK)
      /\ UNCHANGED <<running, server, clients, main, listener, fds, backlog, sent, received>>
  BY DEF Acknowledge
<1>2. d \in {c, NoConn}
  BY <1>1, OwnConnection
<1> HIDE DEF d
<1>3. inbox' = inbox \/ Puts(c, OK)
  BY <1>1, <1>2 DEF Send, Puts
<1>4. thread \in Thread /\ thread.pc = "broadcast" /\ thread.audience = handler[c].audience
      /\ thread.fd = handler[c].fd /\ thread.chunk = handler[c].chunk
  BY <1>0 DEF Thread
<1> HIDE DEF thread
<1>5. handler'[c] = thread /\ \A e \in Conns \ {c} : handler'[e] = handler[e]
  BY <1>0, <1>1, <1>4, BecomesIs
<1> QED
  BY <1>1, <1>3, <1>4, <1>5

(* A turn of the loop puts the chunk into the inbox of somebody else, if   *)
(* it sends at all.                                                        *)
LEMMA BroadcastTurnIs ==
  ASSUME DescriptorInv, NEW c \in Conns, BroadcastTurn(c)
  PROVE  /\ handler[c].pc = "send" /\ handler'[c].pc = "send"
         /\ handler[c].i <= Len(clients) /\ handler'[c].i = handler[c].i + 1
         /\ \A d \in Conns \ {c} : handler'[d] = handler[d]
         /\ handler'[c].fd = handler[c].fd /\ handler'[c].audience = handler[c].audience
         /\ handler'[c].chunk = handler[c].chunk
         /\ inbox' = inbox \/ \E d \in Conns \ {c} : Puts(d, handler[c].chunk)
         /\ UNCHANGED <<running, server, clients, main, listener, fds, backlog, sent, received>>
<1> DEFINE next == handler[c].i + 1
           thread == [handler[c] EXCEPT !.i = next, !.on = NoConn]
           f == clients[handler[c].i]
           d == Behind(c, f)
<1>0. TypeOK /\ HandlerOK /\ ListenerOK /\ OpenOK /\ WaitOK /\ handler[c] \in Thread
      /\ handler[c].i \in Nat /\ next \in Nat
  BY ThreadFields DEF DescriptorInv
<1>1. HandlerBecomes(c, thread) /\ handler[c].pc = "send" /\ handler[c].i <= Len(clients)
      /\ \/ UNCHANGED <<process, peer, inbox>>
         \/ f # handler[c].fd /\ Send(d, handler[c].chunk)
      /\ UNCHANGED <<running, server, clients, main, listener, fds, backlog, sent, received>>
  BY DEF BroadcastTurn, BroadcastTurnExcept
<1>2. d \in Conns \cup {NoConn} /\ f \in Fds
  BY <1>0, <1>1, EntryInTurn, BehindType
<1>3. f # handler[c].fd => d # c
  <2>1. handler[c].on # c
    BY <1>0, <1>1, ThreadFields DEF WaitOK
  <2>2. f # handler[c].fd => fds[f] # c
    BY SMTT(30), <1>0, <1>1, <1>2 DEF OpenOK, ListenerOK
  <2> QED
    BY <2>1, <2>2 DEF Behind
<1> HIDE DEF d
<1>4. inbox' = inbox \/ \E e \in Conns \ {c} : Puts(e, handler[c].chunk)
  BY <1>1, <1>2, <1>3 DEF Send, Puts
<1> HIDE DEF next
<1>5. thread \in Thread /\ thread.pc = "send" /\ thread.audience = handler[c].audience
      /\ thread.fd = handler[c].fd /\ thread.chunk = handler[c].chunk /\ thread.i = next
  BY <1>0, <1>1 DEF Thread
<1> HIDE DEF thread
<1>6. handler'[c] = thread /\ \A e \in Conns \ {c} : handler'[e] = handler[e]
  BY <1>0, <1>1, <1>5, BecomesIs
<1> QED
  BY <1>1, <1>4, <1>5, <1>6 DEF next

(* Every step is one of these. *)
LEMMA StepIsOneOf ==
  ASSUME DescriptorInv, [Next]_vars
  PROVE  \/ Plain
         \/ \E c \in Conns : \/ Recv(c) \/ Acknowledge(c) \/ BroadcastTurn(c) \/ BroadcastEnd(c)
                             \/ BroadcastBegin(c) /\ ~ReadRace(c)
<1>1. CASE Listener
  BY <1>1, MainIsPlain, SpawnIsPlain DEF Listener
<1>2. CASE Command \/ Stop
  BY <1>2, MainIsPlain, CloseIsPlain DEF Stop
<1>3. ASSUME NEW c \in Conns, Handler(c)
      PROVE  \/ Plain
             \/ Recv(c) \/ Acknowledge(c) \/ BroadcastTurn(c) \/ BroadcastEnd(c)
             \/ BroadcastBegin(c) /\ ~ReadRace(c)
  <2>1. BroadcastBegin(c) /\ ReadRace(c) => Undefined
    BY DEF BroadcastBegin
  <2> QED
    BY <1>3, <2>1, MainIsPlain, HandlerIsPlain, CloseIsPlain DEF Handler
<1>4. ASSUME NEW c \in Conns, Client(c) PROVE Plain
  BY <1>4, ClientIsPlain
<1>5. CASE UNCHANGED vars
  BY <1>5, MainIsPlain
<1> QED
  BY <1>1, <1>2, <1>3, <1>4, <1>5 DEF Next, Ended

-----------------------------------------------------------------------------
(* Inboxes *)

(* The acknowledgements in an inbox are finitely many. *)
LEMMA AcksFinite ==
  ASSUME TypeOK, NEW d \in Conns
  PROVE  IsFiniteSet(Room!Acks(d)) /\ Cardinality(Room!Acks(d)) \in Nat
<1>1. DOMAIN inbox[d] = 1 .. Len(inbox[d]) /\ Len(inbox[d]) \in Nat
  <2>1. inbox[d] \in Seq(Piece)
    BY DEF TypeOK
  <2> HIDE DEF Piece
  <2> QED
    BY <2>1
<1>2. IsFiniteSet(1 .. Len(inbox[d]))
  BY <1>1, FS_Interval
<1>3. Room!Acks(d) \subseteq 1 .. Len(inbox[d])
  BY <1>1 DEF Room!Acks
<1> QED
  BY <1>2, <1>3, FS_Subset, FS_CardinalityType

(* What is put into an inbox is there besides what was there, and counts   *)
(* as an acknowledgement if it is one.                                     *)
LEMMA PutsIs ==
  ASSUME TypeOK, NEW d \in Conns, NEW piece \in Piece, Puts(d, piece)
  PROVE  /\ \A e \in Conns \ {d} : inbox'[e] = inbox[e]
         /\ \A x : x \in Room!Got(d)' <=> x \in Room!Got(d) \/ x = piece
         /\ piece # OK => Room!Acks(d)' = Room!Acks(d)
         /\ piece = OK => Cardinality(Room!Acks(d)') = Cardinality(Room!Acks(d)) + 1
<1> DEFINE box == inbox[d]
           new == Append(box, piece)
<1>0. inbox \in [Conns -> Seq(Piece)] /\ box \in Seq(Piece)
  BY DEF TypeOK
<1>1. inbox' = [inbox EXCEPT ![d] = new]
  BY DEF Puts
<1>2. /\ DOMAIN box = 1 .. Len(box) /\ DOMAIN new = 1 .. Len(box) + 1 /\ Len(box) \in Nat
      /\ new[Len(box) + 1] = piece
      /\ \A k \in 1 .. Len(box) : new[k] = box[k]
  <2> HIDE DEF Piece, box
  <2> QED
    BY <1>0
<1> HIDE DEF new
<1>3. inbox'[d] = new /\ \A e \in Conns \ {d} : inbox'[e] = inbox[e]
  BY <1>0, <1>1
<1> HIDE DEF box
<1>4. \A x : x \in Room!Got(d)' <=> \E k \in DOMAIN new : x = new[k]
  BY <1>3 DEF Room!Got
<1>5. \A x : x \in Room!Got(d) <=> \E k \in DOMAIN box : x = box[k]
  BY DEF Room!Got, box
<1>6. \A x : x \in Room!Got(d)' <=> x \in Room!Got(d) \/ x = piece
  BY <1>2, <1>4, <1>5
<1>7. Room!OK = OK
  BY DEF Room!OK, OK, NoChunk
<1>8. Room!Acks(d)' = {k \in DOMAIN new : new[k] = OK}
      /\ Room!Acks(d) = {k \in DOMAIN box : box[k] = OK}
  BY <1>3, <1>7 DEF Room!Acks, box, Room!OK, OK, NoChunk
<1>9. piece # OK => Room!Acks(d)' = Room!Acks(d)
  BY <1>2, <1>8
<1>10. ASSUME piece = OK PROVE Cardinality(Room!Acks(d)') = Cardinality(Room!Acks(d)) + 1
  <2>1. Room!Acks(d)' = Room!Acks(d) \cup {Len(box) + 1}
    BY <1>2, <1>8, <1>10
  <2>2. Len(box) + 1 \notin Room!Acks(d)
    BY <1>2, <1>8
  <2>3. IsFiniteSet(Room!Acks(d))
    BY AcksFinite
  <2> HIDE DEF box
  <2> QED
    BY <2>1, <2>2, <2>3, FS_AddElement
<1> QED
  BY <1>3, <1>6, <1>9, <1>10

(* The parts of a piece are numbers. *)
LEMMA PieceFields ==
  ASSUME TypeOK, NEW d \in Conns, NEW piece \in Room!Got(d)
  PROVE  piece \in Piece /\ piece.first \in Nat /\ piece.last \in Nat
<1>1. inbox[d] \in Seq(Piece)
  BY DEF TypeOK
<1>2. piece \in Piece
  <2> HIDE DEF Piece
  <2> QED
    BY <1>1 DEF Room!Got
<1> QED
  BY <1>2 DEF Piece

(* Nothing is unsent again. *)
LEMMA SentGrows ==
  ASSUME DescriptorInv, [Next]_vars
  PROVE  /\ \A c \in Conns : sent[c] \in Nat /\ sent'[c] \in Nat /\ sent[c] <= sent'[c]
         /\ sent' = sent \/ \E c \in Conns : inbox' = inbox /\ sent' = [sent EXCEPT ![c] = @ + 1]
<1>0. sent \in [Conns -> Nat]
  BY DEF DescriptorInv, TypeOK
<1>1. ASSUME NEW c \in Conns, Handler(c) PROVE sent' = sent
  BY <1>1 DEF Handler, HandlerCheck, Recv, RecvFails, RecvFailsIf, Acknowledge, BroadcastBegin,
     BroadcastTurn, BroadcastTurnExcept, BroadcastEnd, CloseSocket, CloseSocketThen, EraseBegin,
     EraseEnd, EraseTo, Undefined, network
<1>2. ASSUME NEW c \in Conns, Client(c)
      PROVE sent' = sent \/ (inbox' = inbox /\ sent' = [sent EXCEPT ![c] = @ + 1])
  BY <1>2 DEF Client, Connect, SendMessage, Stall, Disconnect
<1>3. Listener \/ Command \/ Stop \/ UNCHANGED vars => sent' = sent
  BY DEF Listener, ListenerCheck, ListenWhile, ListenerCall, Accept, AcceptFails, AcceptFailsThen,
     PushBegin, PushEnd, Spawn, Undefined, network, Command, Stop, CloseServer, JoinListener,
     JoinWhen, CloseClient, ClearBegin, ClearEnd, MainReturn, vars
<1>4. sent' = sent \/ \E c \in Conns : inbox' = inbox /\ sent' = [sent EXCEPT ![c] = @ + 1]
  BY <1>1, <1>2, <1>3 DEF Next, Ended
<1> QED
  BY <1>0, <1>4

-----------------------------------------------------------------------------
(* The invariant of the chat room *)

(* An inbox that is unchanged holds the same pieces and acknowledgements.  *)
LEMMA SameInbox ==
  ASSUME NEW d, inbox'[d] = inbox[d]
  PROVE  Room!Got(d)' = Room!Got(d) /\ Room!Acks(d)' = Room!Acks(d)
BY DEF Room!Got, Room!Acks

(* Where nothing is read and nothing is put into an inbox, the invariant   *)
(* of the chat room is preserved.                                          *)
LEMMA QuietKeepsRoom ==
  ASSUME DescriptorInv, TypeOK', RoomInv, UNCHANGED <<received, inbox>>,
         \A c \in Conns : sent[c] <= sent'[c],
         \A c \in Conns : ReadsNot(handler[c], handler'[c])
  PROVE  RoomInv'
<1>0. TypeOK
  BY DEF DescriptorInv
<1>1. \A d \in Conns : Room!Got(d)' = Room!Got(d) /\ Room!Acks(d)' = Room!Acks(d)
  BY SameInbox
<1>2. ASSUME NEW c \in Conns
      PROVE /\ received'[c] <= sent'[c]
            /\ Cardinality(Room!Acks(c)') + (IF handler'[c].pc = "ack" THEN 1 ELSE 0)
                 <= received'[c]
  <2>1. /\ Cardinality(Room!Acks(c)) \in Nat /\ received[c] \in Nat /\ sent[c] \in Nat
        /\ sent'[c] \in Nat
    BY <1>0, AcksFinite DEF TypeOK
  <2>2. handler'[c].pc = "ack" => handler[c].pc = "ack"
    BY DEF ReadsNot
  <2>3. sent[c] <= sent'[c] /\ received'[c] = received[c]
    OBVIOUS
  <2>4. received[c] <= sent[c]
        /\ Cardinality(Room!Acks(c)) + (IF handler[c].pc = "ack" THEN 1 ELSE 0) <= received[c]
    BY DEF RoomInv, AcksOK
  <2>5. Room!Acks(c)' = Room!Acks(c)
    BY <1>1
  <2> QED
    BY <2>1, <2>2, <2>3, <2>4, <2>5
<1>3. PiecesOK'
  <2>1. \A c \in Conns : /\ Busy(c)' => Busy(c)
                         /\ handler'[c].chunk = handler[c].chunk
    BY DEF Busy, ReadsNot, BusySteps
  <2> QED
    BY <1>1, <2>1 DEF RoomInv, PiecesOK
<1> QED
  BY <1>2, <1>3 DEF RoomInv, AcksOK

(* recv makes the chunk of its thread the last of what was read. *)
LEMMA RecvKeepsRoom ==
  ASSUME DescriptorInv, TypeOK', RoomInv, NEW c \in Conns, Recv(c)
  PROVE  RoomInv'
<1>0. TypeOK
  BY DEF DescriptorInv
<1> DEFINE n == handler'[c].chunk.last
<1>1. /\ handler[c].pc = "recv" /\ handler'[c].pc = "ack"
      /\ \A d \in Conns \ {c} : handler'[d] = handler[d]
      /\ received' = [received EXCEPT ![c] = n]
      /\ handler'[c].chunk = [from |-> c, first |-> received[c] + 1, last |-> n]
      /\ n \in received[c] + 1 .. sent[c]
      /\ UNCHANGED <<sent, inbox>>
  BY RecvIs
<1>2. /\ handler'[c].chunk.from = c /\ handler'[c].chunk.first = received[c] + 1
      /\ handler'[c].chunk.last = n
  BY <1>1
<1> HIDE DEF n
<1>3. /\ received \in [Conns -> Nat] /\ sent \in [Conns -> Nat]
      /\ received'[c] = n /\ \A d \in Conns \ {c} : received'[d] = received[d]
  BY <1>0, <1>1 DEF TypeOK
<1>4. received[c] \in Nat /\ sent[c] \in Nat /\ n \in Nat /\ received[c] + 1 <= n /\ n <= sent[c]
  BY <1>1, <1>3
<1>5. \A d \in Conns : Room!Got(d)' = Room!Got(d) /\ Room!Acks(d)' = Room!Acks(d)
  BY <1>1, SameInbox
<1>6. ASSUME NEW d \in Conns
      PROVE /\ received'[d] <= sent'[d]
            /\ Cardinality(Room!Acks(d)') + (IF handler'[d].pc = "ack" THEN 1 ELSE 0)
                 <= received'[d]
  <2>1. Cardinality(Room!Acks(d)) \in Nat
    BY <1>0, AcksFinite
  <2>2. received[d] <= sent[d]
        /\ Cardinality(Room!Acks(d)) + (IF handler[d].pc = "ack" THEN 1 ELSE 0) <= received[d]
    BY DEF RoomInv, AcksOK
  <2>3. Room!Acks(d)' = Room!Acks(d)
    BY <1>5
  <2>4. CASE d = c
    BY <1>1, <1>3, <1>4, <2>1, <2>2, <2>3, <2>4
  <2>5. CASE d # c
    BY <1>1, <1>3, <2>2, <2>3, <2>5
  <2> QED
    BY <2>4, <2>5
<1>7. ASSUME NEW e \in Conns
      PROVE /\ Busy(e)' =>
                 /\ handler'[e].chunk.from = e
                 /\ 1 <= handler'[e].chunk.first /\ handler'[e].chunk.first <= handler'[e].chunk.last
                 /\ handler'[e].chunk.last = received'[e]
            /\ \A d \in Conns : \A piece \in Room!Got(d) : piece.from = e =>
                 /\ piece.last <= received'[e]
                 /\ Busy(e)' => piece = handler'[e].chunk \/ piece.last < handler'[e].chunk.first
  <2>1. CASE e = c
    <3>1. ASSUME NEW d \in Conns, NEW piece \in Room!Got(d), piece.from = c
          PROVE piece.last <= n /\ piece.last < received[c] + 1
      <4>1. piece.last <= received[c]
        BY <3>1 DEF RoomInv, PiecesOK
      <4>2. piece.last \in Nat
        BY <1>0, PieceFields
      <4> QED
        BY <1>4, <4>1, <4>2
    <3>2. 1 <= received[c] + 1
      BY <1>4
    <3> QED
      BY <1>2, <1>3, <1>4, <2>1, <3>1, <3>2
  <2>2. CASE e # c
    <3>1. handler'[e] = handler[e] /\ received'[e] = received[e] /\ (Busy(e)' <=> Busy(e))
      BY <1>1, <1>3, <2>2 DEF Busy
    <3> QED
      BY <3>1 DEF RoomInv, PiecesOK
  <2> QED
    BY <2>1, <2>2
<1>8. PiecesOK'
  BY <1>5, <1>7 DEF PiecesOK
<1> QED
  BY <1>6, <1>8 DEF RoomInv, AcksOK

(* An acknowledgement to its own client, once for each chunk, or the chunk *)
(* to somebody preserves the invariant of the chat room.                   *)
LEMMA PutKeepsRoom ==
  ASSUME DescriptorInv, TypeOK', RoomInv, NEW c \in Conns, NEW d \in Conns, NEW piece \in Piece,
         Puts(d, piece), UNCHANGED <<sent, received>>,
         \A e \in Conns : ReadsNot(handler[e], handler'[e]),
         \/ piece = OK /\ d = c /\ handler[c].pc = "ack" /\ handler'[c].pc # "ack"
         \/ piece = handler[c].chunk /\ Busy(c)
  PROVE  RoomInv'
<1>0. TypeOK
  BY DEF DescriptorInv
<1>1. OK.from = NoConn /\ NoConn \notin Conns
  BY DEF OK, NoChunk
<1>2. piece = OK \/ (piece.from = c /\ piece # OK /\ piece.last = received[c])
  BY <1>1 DEF RoomInv, PiecesOK
<1>3. /\ \A e \in Conns \ {d} : inbox'[e] = inbox[e]
      /\ \A x : x \in Room!Got(d)' <=> x \in Room!Got(d) \/ x = piece
      /\ piece # OK => Room!Acks(d)' = Room!Acks(d)
      /\ piece = OK => Cardinality(Room!Acks(d)') = Cardinality(Room!Acks(d)) + 1
  BY <1>0, PutsIs
<1>4. \A e \in Conns \ {d} : Room!Got(e)' = Room!Got(e) /\ Room!Acks(e)' = Room!Acks(e)
  BY <1>3, SameInbox
<1>5. ASSUME NEW e \in Conns
      PROVE /\ received'[e] <= sent'[e]
            /\ Cardinality(Room!Acks(e)') + (IF handler'[e].pc = "ack" THEN 1 ELSE 0)
                 <= received'[e]
  <2>1. Cardinality(Room!Acks(e)) \in Nat /\ received[e] \in Nat /\ received'[e] = received[e]
    BY <1>0, AcksFinite DEF TypeOK
  <2>2. received[e] <= sent[e]
        /\ Cardinality(Room!Acks(e)) + (IF handler[e].pc = "ack" THEN 1 ELSE 0) <= received[e]
    BY DEF RoomInv, AcksOK
  <2>3. handler'[e].pc = "ack" => handler[e].pc = "ack"
    BY DEF ReadsNot
  <2>4. CASE e = d /\ piece = OK
    <3>1. handler[e].pc = "ack" /\ handler'[e].pc # "ack"
      BY <1>2, <1>1, <2>4 DEF RoomInv, PiecesOK
    <3> QED
      BY <1>3, <2>1, <2>2, <2>4, <3>1
  <2>5. CASE e # d \/ piece # OK
    <3>1. Room!Acks(e)' = Room!Acks(e)
      BY <1>3, <1>4, <2>5
    <3> QED
      BY <2>1, <2>2, <2>3, <3>1
  <2> QED
    BY <2>4, <2>5
<1>6. ASSUME NEW e \in Conns
      PROVE /\ Busy(e)' => /\ Busy(e)
                           /\ handler'[e].chunk = handler[e].chunk /\ received'[e] = received[e]
            /\ \A g \in Conns : \A x \in Room!Got(g)' :
                 x \in Room!Got(g) \/ x = piece
  BY <1>3, <1>4 DEF Busy, ReadsNot, BusySteps
<1>7. ASSUME NEW e \in Conns, piece.from = e
      PROVE /\ piece.last <= received[e]
            /\ Busy(e) => piece = handler[e].chunk \/ piece.last < handler[e].chunk.first
  <2>1. e = c /\ piece = handler[c].chunk /\ piece.last = received[c] /\ received[c] \in Nat
    BY <1>0, <1>1, <1>2, <1>7 DEF TypeOK
  <2> QED
    BY <2>1
<1>8. PiecesOK'
  BY <1>6, <1>7 DEF RoomInv, PiecesOK
<1> QED
  BY <1>5, <1>8 DEF RoomInv, AcksOK

(* The initial states satisfy the invariant of the chat room. *)
LEMMA RoomInvInit == Init => RoomInv
<1> SUFFICES ASSUME Init PROVE RoomInv
  OBVIOUS
<1>1. \A c \in Conns : /\ handler[c].pc = "none" /\ received[c] = 0 /\ sent[c] = 0
                       /\ inbox[c] = <<>>
  BY DEF Init
<1>2. \A c \in Conns : Room!Acks(c) = {} /\ Room!Got(c) = {}
  BY <1>1 DEF Room!Acks, Room!Got
<1>3. Cardinality({}) = 0
  BY FS_EmptySet
<1>4. AcksOK
  <2>1. \A c \in Conns : Cardinality(Room!Acks(c)) = 0
    BY <1>2, <1>3
  <2> QED
    BY <1>1, <2>1 DEF AcksOK
<1>5. PiecesOK
  BY <1>1, <1>2 DEF PiecesOK, Busy
<1> QED
  BY <1>4, <1>5 DEF RoomInv

(* Every step preserves the invariant of the chat room. *)
LEMMA RoomInvNext ==
  ASSUME DescriptorInv, DescriptorInv', RoomInv, [Next]_vars
  PROVE  RoomInv'
<1>0. TypeOK /\ TypeOK' /\ \A c \in Conns : handler[c].chunk \in Piece
  BY ThreadFields DEF DescriptorInv
<1>1. \A c \in Conns : sent[c] <= sent'[c]
  BY SentGrows
<1>2. OK \in Piece
  BY DEF OK, NoChunk, Piece
<1>3. CASE Plain
  BY <1>0, <1>1, <1>3, QuietKeepsRoom DEF Plain
<1>4. ASSUME NEW c \in Conns, Recv(c) PROVE RoomInv'
  BY <1>0, <1>4, RecvKeepsRoom
<1>5. ASSUME NEW c \in Conns, BroadcastEnd(c) \/ (BroadcastBegin(c) /\ ~ReadRace(c)) PROVE RoomInv'
  <2>1. /\ UNCHANGED <<received, inbox>>
        /\ \A d \in Conns : ReadsNot(handler[d], handler'[d])
    BY <1>5, BroadcastBeginIs, BroadcastEndIs DEF ReadsNot, BusySteps
  <2> QED
    BY <1>0, <1>1, <2>1, QuietKeepsRoom
<1>6. ASSUME NEW c \in Conns, Acknowledge(c) PROVE RoomInv'
  <2>1. /\ handler[c].pc = "ack" /\ handler'[c].pc = "broadcast"
        /\ inbox' = inbox \/ Puts(c, OK)
        /\ UNCHANGED <<sent, received>>
        /\ \A d \in Conns : ReadsNot(handler[d], handler'[d])
    BY <1>6, AcknowledgeIs DEF ReadsNot, BusySteps
  <2>2. CASE inbox' = inbox
    BY <1>0, <1>1, <2>1, <2>2, QuietKeepsRoom
  <2>3. CASE Puts(c, OK)
    BY <1>0, <1>2, <2>1, <2>3, PutKeepsRoom
  <2> QED
    BY <2>1, <2>2, <2>3
<1>7. ASSUME NEW c \in Conns, BroadcastTurn(c) PROVE RoomInv'
  <2>1. /\ handler[c].pc = "send"
        /\ inbox' = inbox \/ \E d \in Conns \ {c} : Puts(d, handler[c].chunk)
        /\ UNCHANGED <<sent, received>>
        /\ \A d \in Conns : ReadsNot(handler[d], handler'[d])
    BY <1>7, BroadcastTurnIs DEF ReadsNot, BusySteps
  <2>2. CASE inbox' = inbox
    BY <1>0, <1>1, <2>1, <2>2, QuietKeepsRoom
  <2>3. ASSUME NEW d \in Conns, Puts(d, handler[c].chunk) PROVE RoomInv'
    BY <1>0, <2>1, <2>3, PutKeepsRoom DEF Busy
  <2> QED
    BY <2>1, <2>2, <2>3
<1> QED
  BY <1>3, <1>4, <1>5, <1>6, <1>7, StepIsOneOf

(* No client is owed more acknowledgements than messages were read of it,  *)
(* and the pieces of a client lie in the inboxes as they were read, in     *)
(* every reachable state.                                                  *)
THEOREM RoomInvariant == Spec => []RoomInv
<1>1. Init /\ DescriptorInv => RoomInv
  BY RoomInvInit
<1>2. DescriptorInv /\ DescriptorInv' /\ RoomInv /\ [Next]_vars => RoomInv'
  BY RoomInvNext
<1> QED
  BY <1>1, <1>2, DescriptorInvariant, PTL DEF Spec

-----------------------------------------------------------------------------
(* The refinement *)

(* Counting is the same in the module ChatRoom. *)
LEMMA RoomCounts == \A S : Room!Cardinality(S) = Cardinality(S)
BY DEF Room!Cardinality, Cardinality, Room!IsFiniteSet, IsFiniteSet

(* An acknowledgement is one the chat room allows. *)
LEMMA AcknowledgeIsAck ==
  ASSUME DescriptorInv, RoomInv, NEW c \in Conns, Acknowledge(c), Puts(c, OK)
  PROVE  Room!Ack(c)
<1>1. /\ Cardinality(Room!Acks(c)) + 1 <= received[c] /\ received[c] <= sent[c]
      /\ sent' = sent
  BY AcknowledgeIs DEF RoomInv, AcksOK
<1>2. Cardinality(Room!Acks(c)) \in Nat /\ received[c] \in Nat /\ sent[c] \in Nat
  BY AcksFinite DEF DescriptorInv, TypeOK
<1>3. Cardinality(Room!Acks(c)) < sent[c]
  BY <1>1, <1>2
<1>4. inbox' = [inbox EXCEPT ![c] = Append(@, Room!OK)]
  BY DEF Puts, Room!OK, OK, NoChunk
<1> QED
  BY <1>1, <1>3, <1>4, RoomCounts DEF Room!Ack, Room!Put

(* A chunk that broadcast_tcp sends is one the chat room allows to relay.  *)
LEMMA TurnIsRelay ==
  ASSUME DescriptorInv, RoomInv, NEW c \in Conns, BroadcastTurn(c),
         NEW d \in Conns \ {c}, Puts(d, handler[c].chunk)
  PROVE  \E i, j \in 1 .. sent[c] : Room!Relay(c, d, [from |-> c, first |-> i, last |-> j])
<1> DEFINE piece == handler[c].chunk
<1>0. TypeOK
  BY DEF DescriptorInv
<1>1. handler[c].pc = "send" /\ sent' = sent
  BY BroadcastTurnIs
<1>2. piece \in Piece /\ received[c] \in Nat /\ sent[c] \in Nat
  BY <1>0, ThreadFields DEF TypeOK
<1>3. /\ piece.from = c /\ 1 <= piece.first /\ piece.first <= piece.last
      /\ piece.last = received[c] /\ received[c] <= sent[c]
  BY <1>1 DEF RoomInv, PiecesOK, AcksOK, Busy
<1>4. \A e \in Conns : \A x \in Room!Got(e) : x.from = c =>
        x.last <= piece.last /\ (x = piece \/ x.last < piece.first)
  BY <1>1, <1>3 DEF RoomInv, PiecesOK, Busy
<1>5. inbox' = [inbox EXCEPT ![d] = Append(@, piece)]
  BY DEF Puts
<1> HIDE DEF piece
<1>6. /\ piece = [from |-> c, first |-> piece.first, last |-> piece.last]
      /\ piece.first \in 1 .. sent[c] /\ piece.last \in 1 .. sent[c]
  BY <1>2, <1>3 DEF Piece
<1>7. Room!Relay(c, d, piece)
  BY <1>1, <1>2, <1>3, <1>4, <1>5 DEF Room!Relay, Room!Apart, Room!Put
<1> QED
  BY <1>6, <1>7

(* Every step is one of the chat room, or changes nothing there. *)
LEMMA RoomStep ==
  ASSUME DescriptorInv, RoomInv, [Next]_vars
  PROVE  [Room!RoomNext]_(Room!roomVars)
<1>1. CASE inbox' = inbox
  <2>1. sent' = sent \/ \E c \in Conns : sent' = [sent EXCEPT ![c] = @ + 1]
    BY SentGrows
  <2>2. CASE sent' = sent
    BY <1>1, <2>2 DEF Room!roomVars
  <2>3. ASSUME NEW c \in Conns, sent' = [sent EXCEPT ![c] = @ + 1] PROVE Room!RoomNext
    BY <1>1, <2>3 DEF Room!RoomNext, Room!Say
  <2> QED
    BY <2>1, <2>2, <2>3
<1>2. ASSUME NEW c \in Conns, Acknowledge(c), inbox' # inbox PROVE Room!RoomNext
  BY <1>2, AcknowledgeIs, AcknowledgeIsAck DEF Room!RoomNext
<1>3. ASSUME NEW c \in Conns, BroadcastTurn(c), inbox' # inbox PROVE Room!RoomNext
  <2>1. PICK d \in Conns \ {c} : Puts(d, handler[c].chunk)
    BY <1>3, BroadcastTurnIs
  <2> QED
    BY <1>3, <2>1, TurnIsRelay DEF Room!RoomNext
<1>4. ASSUME NEW c \in Conns, Recv(c) \/ BroadcastEnd(c) \/ (BroadcastBegin(c) /\ ~ReadRace(c))
      PROVE  inbox' = inbox
  BY <1>4, RecvIs, BroadcastEndIs, BroadcastBeginIs
<1> QED
  BY <1>1, <1>2, <1>3, <1>4, StepIsOneOf DEF Plain

(* Whatever threads, descriptors, clients and stop() do, the inboxes hold  *)
(* what ChatRoom allows: acknowledgements only for what was sent, and the  *)
(* messages of each client in order, cut alike for all, never sent back.   *)
THEOREM ServerImplementsChatRoom == Spec => ImplementsChatRoom
<1>1. Init => Room!RoomInit
  BY DEF Init, Room!RoomInit
<1>2. DescriptorInv /\ RoomInv /\ [Next]_vars => [Room!RoomNext]_(Room!roomVars)
  BY RoomStep
<1>3. [](DescriptorInv /\ RoomInv) /\ [][Next]_vars => [][Room!RoomNext]_(Room!roomVars)
  BY <1>2, PTL
<1> QED
  BY <1>1, <1>3, DescriptorInvariant, RoomInvariant, PTL DEF Spec, ImplementsChatRoom, Room!RoomSpec

-----------------------------------------------------------------------------
(* What every step leaves as it is *)

(* A hangup is not undone: only a connection that was not made yet, and so *)
(* has no thread, is new.                                                  *)
LEMMA HangUpIsFinal ==
  ASSUME DescriptorInv, [Next]_vars, NEW d \in Conns, handler[d].pc # "none",
         peer'[d] \in {"open", "full"}
  PROVE  peer[d] \in {"open", "full"}
<1> DEFINE Ups == {"open", "full"}
           Same == \A e \in Conns : peer[e] # "away" /\ peer'[e] \in Ups => peer[e] \in Ups
<1>0. /\ peer \in [Conns -> {"away", "open", "full", "closed", "reset"}]
      /\ peer[d] # "away"
  BY DEF DescriptorInv, TypeOK, HandlerOK
<1>1. CASE peer' = peer
  BY <1>1
<1>2. ASSUME NEW e, NEW data, Send(e, data) PROVE Same
  BY <1>0, <1>2 DEF Send
<1>3. ASSUME NEW c \in Conns, Client(c) PROVE Same
  BY <1>0, <1>3 DEF Client, Connect, SendMessage, Stall, Disconnect
<1>4. ASSUME NEW c \in Conns, Handler(c) PROVE peer' = peer \/ Same
  <2>1. CASE Acknowledge(c)
    BY <1>2, <2>1 DEF Acknowledge
  <2>2. CASE BroadcastTurn(c)
    BY <1>2, <2>2 DEF BroadcastTurn, BroadcastTurnExcept
  <2>3. CASE ~Acknowledge(c) /\ ~BroadcastTurn(c)
    <3> HIDE DEF Same
    <3> QED
      BY <1>4, <2>3 DEF Handler, HandlerCheck, Recv, RecvFails, RecvFailsIf, BroadcastBegin,
         BroadcastEnd, CloseSocket, CloseSocketThen, EraseBegin, EraseEnd, EraseTo, Undefined,
         network
  <2> QED
    BY <2>1, <2>2, <2>3
<1>5. peer' = peer \/ Same
  <2>1. Listener \/ Command \/ Stop \/ UNCHANGED vars => peer' = peer
    BY DEF Listener, ListenerCheck, ListenWhile, ListenerCall, Accept, AcceptFails,
       AcceptFailsThen, PushBegin, PushEnd, Spawn, Undefined, network, Command, Stop, CloseServer,
       JoinListener, JoinWhen, CloseClient, ClearBegin, ClearEnd, MainReturn, vars
  <2> HIDE DEF Same
  <2> QED
    BY <1>3, <1>4, <2>1 DEF Next, Ended
<1> QED
  BY <1>0, <1>1, <1>5

(* What is in an inbox stays there. *)
LEMMA GotStays ==
  ASSUME DescriptorInv, [Next]_vars, NEW d \in Conns, NEW x \in Room!Got(d)
  PROVE  x \in Room!Got(d)'
<1>0. TypeOK /\ OK \in Piece /\ \A c \in Conns : handler[c].chunk \in Piece
  BY ThreadFields DEF DescriptorInv, OK, NoChunk, Piece
<1>1. CASE inbox' = inbox
  BY <1>1, SameInbox
<1>2. ASSUME NEW e \in Conns, NEW piece \in Piece, Puts(e, piece) PROVE x \in Room!Got(d)'
  BY <1>0, <1>2, PutsIs, SameInbox
<1>3. ASSUME NEW c \in Conns, Acknowledge(c) PROVE x \in Room!Got(d)'
  BY <1>0, <1>1, <1>2, <1>3, AcknowledgeIs
<1>4. ASSUME NEW c \in Conns, BroadcastTurn(c) PROVE x \in Room!Got(d)'
  BY <1>0, <1>1, <1>2, <1>4, BroadcastTurnIs
<1>5. ASSUME NEW c \in Conns, Recv(c) \/ BroadcastEnd(c) \/ (BroadcastBegin(c) /\ ~ReadRace(c))
      PROVE  inbox' = inbox
  BY <1>5, RecvIs, BroadcastEndIs, BroadcastBeginIs
<1> QED
  BY <1>1, <1>3, <1>4, <1>5, StepIsOneOf DEF Plain

(* Every thread keeps its descriptor, and none is served again. *)
LEMMA ThreadsKeep ==
  ASSUME DescriptorInv, [Next]_vars, NEW d \in Conns
  PROVE  Keeps(handler[d], handler'[d])
<1>1. ASSUME NEW c \in Conns, Recv(c) \/ Acknowledge(c) \/ BroadcastTurn(c) \/ BroadcastEnd(c)
                              \/ (BroadcastBegin(c) /\ ~ReadRace(c))
      PROVE  /\ \A e \in Conns \ {c} : handler'[e] = handler[e]
             /\ handler[c].pc \in ServingSteps \ {"none"} /\ handler'[c].pc \in ServingSteps
             /\ handler'[c].fd = handler[c].fd
  BY <1>1, RecvIs, AcknowledgeIs, BroadcastTurnIs, BroadcastBeginIs, BroadcastEndIs DEF ServingSteps
<1>2. ASSUME NEW c \in Conns, Recv(c) \/ Acknowledge(c) \/ BroadcastTurn(c) \/ BroadcastEnd(c)
                              \/ (BroadcastBegin(c) /\ ~ReadRace(c))
      PROVE  Keeps(handler[d], handler'[d])
  BY <1>1, <1>2 DEF Keeps, ServingSteps
<1> QED
  BY <1>2, StepIsOneOf DEF Plain

(* A server that was stopped stays so. *)
LEMMA StoppedForGood ==
  ASSUME DescriptorInv, DescriptorInv', [Next]_vars, running'
  PROVE  running
<1>1. running' = running \/ Command
  BY DEF Next, Ended, Listener, ListenerCheck, ListenWhile, ListenerCall, Accept, AcceptFails,
     AcceptFailsThen, PushBegin, PushEnd, Spawn, Undefined, Stop, CloseServer, JoinListener,
     JoinWhen, CloseClient, ClearBegin, ClearEnd, MainReturn, Handler, HandlerCheck, Recv,
     RecvFails, RecvFailsIf, Acknowledge, BroadcastBegin, BroadcastTurn, BroadcastTurnExcept,
     BroadcastEnd, CloseSocket, CloseSocketThen, EraseBegin, EraseEnd, EraseTo, Client, Connect,
     SendMessage, Stall, Disconnect, vars
<1> QED
  BY <1>1 DEF Command

(* So a client that can be expected to get a broadcast could be before, if *)
(* it had a thread.                                                        *)
LEMMA WasThereBefore ==
  ASSUME DescriptorInv, DescriptorInv', [Next]_vars, NEW d \in Conns, handler[d].pc # "none",
         Serving(d)', Fresh(d)', running'
  PROVE  /\ Serving(d) /\ Fresh(d) /\ running /\ handler'[d].fd = handler[d].fd
         /\ StillThere(d)' => StillThere(d)
<1>1. \A e \in Conns : Keeps(handler[e], handler'[e])
  BY ThreadsKeep
<1>2. Serving(d) /\ handler'[d].fd = handler[d].fd /\ running
  BY <1>1, StoppedForGood DEF Keeps, Serving, ServingSteps
<1>3. Fresh(d)
  <2>1. \A e \in Conns : handler[e].pc = "none" <=> handler[e].fd = 0
    BY DEF DescriptorInv, HandlerOK
  <2> QED
    BY <1>1, <1>2, <2>1 DEF Fresh, Keeps
<1>4. StillThere(d)' => StillThere(d)
  BY <1>2, HangUpIsFinal DEF StillThere
<1> QED
  BY <1>2, <1>3, <1>4

-----------------------------------------------------------------------------
(* The invariant of the broadcasts *)

(* What a step does to tcp_clients_ and to the listener's descriptor.      *)
LEMMA ListStep ==
  ASSUME DescriptorInv, [Next]_vars
  PROVE  \/ PushEnd \/ Spawn \/ ClearEnd \/ \E c \in Conns : EraseEnd(c)
         \/ /\ clients' = clients
            /\ listener'.pc = "spawn" => listener' = listener
<1> DEFINE Quiet == clients' = clients /\ (listener'.pc = "spawn" => listener' = listener)
<1>1. ListenerCheck \/ ListenerCall \/ Accept \/ AcceptFails \/ PushBegin => Quiet
  BY DEF DescriptorInv, TypeOK, ListenerGoto, ListenerCheck, ListenWhile, ListenerCall, Accept, AcceptFails,
     AcceptFailsThen, PushBegin, Undefined, threads
<1>2. Command \/ CloseServer \/ JoinListener \/ CloseClient \/ ClearBegin \/ MainReturn
        \/ UNCHANGED vars => Quiet
  BY DEF Undefined, Command, CloseServer, JoinListener, JoinWhen, CloseClient, ClearBegin,
     MainReturn, vars, threads
<1>3. ASSUME NEW c \in Conns, Handler(c) PROVE EraseEnd(c) \/ Quiet
  BY <1>3 DEF Handler, HandlerCheck, Recv, RecvFails, RecvFailsIf, Acknowledge, BroadcastBegin,
     BroadcastTurn, BroadcastTurnExcept, BroadcastEnd, CloseSocket, CloseSocketThen, EraseBegin,
     Undefined, threads
<1>4. ASSUME NEW c \in Conns, Client(c) PROVE Quiet
  BY <1>4 DEF Client, Connect, SendMessage, Stall, Disconnect, threads
<1> HIDE DEF Quiet
<1>5. PushEnd \/ Spawn \/ ClearEnd \/ (\E c \in Conns : EraseEnd(c)) \/ Quiet
  BY <1>1, <1>2, <1>3, <1>4 DEF Next, Ended, Listener, Stop
<1> QED
  BY <1>5 DEF Quiet

(* Only the listener starts threads. *)
LEMMA NobodyElseSpawns ==
  ASSUME DescriptorInv, [Next]_vars, ~Spawn, NEW d \in Conns, handler[d].pc = "none"
  PROVE  handler'[d].pc = "none"
<1>0. TypeOK /\ MainOK /\ HandlerOK /\ handler \in [Conns -> Thread]
  BY DEF DescriptorInv, TypeOK
<1>1. CASE handler' = handler
  BY <1>1
<1>2. ASSUME NEW c \in Conns \ {d}, NEW thread, HandlerBecomes(c, thread)
      PROVE  handler'[d].pc = "none"
  BY <1>0, <1>2 DEF HandlerBecomes
<1>3. ASSUME NEW f \in Fds, NEW after \in HandlersAfterClose(f)
      PROVE  after[d].pc = "none" /\ after \in [Conns -> Thread]
  BY <1>0, <1>3, AfterCloseIs
<1>4. ASSUME NEW f \in Fds, handler' \in HandlersAfterClose(f)
      PROVE  handler'[d].pc = "none"
  BY <1>0, <1>4, AfterCloseIs
<1>5. ASSUME NEW c \in Conns, Handler(c) PROVE handler'[d].pc = "none"
  <2>1. c # d
    BY <1>5 DEF Handler, HandlerCheck, Recv, RecvFails, RecvFailsIf, Acknowledge, BroadcastBegin,
       BroadcastTurn, BroadcastTurnExcept, BroadcastEnd, CloseSocket, CloseSocketThen,
       EraseBegin, EraseEnd, EraseTo
  <2>2. CASE CloseSocket(c)
    <3>1. handler[c].pc = "close"
      BY <2>2 DEF CloseSocket, CloseSocketThen
    <3>2. handler[c].fd \in Fds
      BY <1>0, <3>1, HasFd
    <3>3. PICK after \in HandlersAfterClose(handler[c].fd) :
            handler' = [after EXCEPT ![c].pc = "erase"]
      BY <2>2 DEF CloseSocket, CloseSocketThen
    <3>4. after[d].pc = "none" /\ after \in [Conns -> Thread]
      BY <1>3, <3>2
    <3> HIDE DEF Thread
    <3> QED
      BY <2>1, <3>3, <3>4
  <2>3. CASE ~CloseSocket(c)
    <3>1. handler' = handler \/ \E thread : HandlerBecomes(c, thread)
      BY <1>5, <2>3 DEF Handler, HandlerCheck, Recv, RecvFails, RecvFailsIf, Acknowledge,
         BroadcastBegin, BroadcastTurn, BroadcastTurnExcept, BroadcastEnd, EraseBegin, EraseEnd,
         EraseTo, HandlerGoto, Undefined, threads
    <3> QED
      BY <1>1, <1>2, <2>1, <3>1
  <2> QED
    BY <2>2, <2>3
<1>6. CASE CloseClient
  BY <1>0, <1>4, <1>6 DEF CloseClient, TypeOK, MainOK
<1>7. (Listener /\ ~Spawn) \/ Command \/ (Stop /\ ~CloseClient) \/ UNCHANGED vars
        \/ (\E c \in Conns : Client(c)) => handler' = handler
  BY DEF Listener, ListenerCheck, ListenWhile, ListenerCall, Accept, AcceptFails, AcceptFailsThen,
     PushBegin, PushEnd, Undefined, Command, Stop, CloseServer, JoinListener, JoinWhen,
     ClearBegin, ClearEnd, MainReturn, Client, Connect, SendMessage, Stall, Disconnect, vars,
     threads
<1> QED
  BY <1>1, <1>5, <1>6, <1>7 DEF Next, Ended

(* A client that is served under a number of its own stays in the list, or *)
(* comes into it, until the server is stopped.                             *)
LEMMA EntryOKNext ==
  ASSUME DescriptorInv, DescriptorInv', EntryOK, [Next]_vars
  PROVE  EntryOK'
<1> SUFFICES ASSUME running'
             PROVE  /\ listener'.pc = "spawn" =>
                         HasEntry(listener.fd)' \/ \E e \in Conns : handler'[e].fd = listener'.fd
                    /\ \A d \in Conns : Serving(d)' /\ Fresh(d)' => HasEntry(handler[d].fd)'
  BY DEF EntryOK
<1>0. /\ TypeOK /\ HandlerOK /\ ListenerOK /\ MainOK /\ running
      /\ clients \in Seq(Fds)
  BY StoppedForGood DEF DescriptorInv, TypeOK
<1>1. \A d \in Conns : Keeps(handler[d], handler'[d])
  BY ThreadsKeep
<1>2. \A f : HasEntry(f) <=> f \in Elements(clients)
  BY DEF HasEntry, Elements
<1>3. \A f : HasEntry(f)' <=> f \in Elements(clients')
  BY DEF HasEntry, Elements
<1>4. \A d \in Conns : handler[d].pc # "none" /\ Serving(d)' /\ Fresh(d)' =>
        /\ Serving(d) /\ Fresh(d) /\ handler'[d].fd = handler[d].fd
        /\ HasEntry(handler[d].fd)
  BY <1>0, WasThereBefore DEF EntryOK
<1>5. listener.pc = "spawn" => HasEntry(listener.fd) \/ \E e \in Conns : handler[e].fd = listener.fd
  BY <1>0 DEF EntryOK
<1>6. listener.pc = "spawn" =>
        HasEntry(listener.fd) \/ \E e \in Conns : handler[e].fd = listener.fd /\ handler'[e].fd = listener.fd
  <2>1. listener.pc = "spawn" => listener.fd # 0
    BY <1>0 DEF ListenerOK, Fds
  <2> QED
    BY <1>0, <1>1, <1>5, <2>1 DEF HandlerOK, Keeps
<1>7. CASE PushEnd
  <2>1. /\ listener.pc = "pushing" /\ clients' = Append(clients, listener.fd)
        /\ listener'.fd = listener.fd /\ handler' = handler
    BY <1>0, <1>7 DEF PushEnd, ListenerGoto, TypeOK
  <2>2. listener.fd \in Fds
    BY <1>0, <2>1 DEF ListenerOK
  <2>3. Elements(clients') = Elements(clients) \cup {listener.fd}
    BY <1>0, <2>1, <2>2, ElementsOfAppend
  <2>4. \A d \in Conns : Serving(d)' => handler[d].pc # "none"
    BY <2>1 DEF Serving
  <2> QED
    BY <1>2, <1>3, <1>4, <2>1, <2>3, <2>4
<1>8. CASE Spawn
  <2>1. PICK n \in Conns : n = listener.conn
    BY <1>0, <1>8 DEF Spawn, ListenerOK, TypeOK
  <2>2. /\ listener.pc = "spawn" /\ listener'.pc = "check" /\ clients' = clients
        /\ listener.fd \in Fds /\ handler[n].pc = "none" /\ handler[n].fd # listener.fd
    <3>1. listener.pc = "spawn" /\ listener'.pc = "check" /\ clients' = clients
      BY <1>8 DEF Spawn
    <3> QED
      BY <1>0, <2>1, <3>1 DEF ListenerOK, HandlerOK, Fds
  <2> DEFINE thread == [handler[n] EXCEPT !.pc = "check", !.fd = listener.fd]
  <2>3. HandlerBecomes(n, thread)
    BY <1>8, <2>1 DEF Spawn
  <2>4. thread \in Thread /\ thread.fd = listener.fd
    <3>1. handler[n] \in Thread
      BY <1>0, ThreadFields
    <3> QED
      BY <2>2, <3>1 DEF Thread
  <2> HIDE DEF thread
  <2>5. handler'[n].fd = listener.fd /\ \A d \in Conns \ {n} : handler'[d] = handler[d]
    BY <1>0, <2>3, <2>4, BecomesIs
  <2>6. Fresh(n)' => HasEntry(listener.fd)
    BY <1>5, <2>2, <2>5 DEF Fresh
  <2>7. \A f : HasEntry(f)' <=> f \in Elements(clients)
    BY <1>3, <2>2
  <2>8. ASSUME NEW d \in Conns, Serving(d)', Fresh(d)' PROVE handler'[d].fd \in Elements(clients)
    <3>1. CASE d = n
      BY <1>2, <2>5, <2>6, <2>8, <3>1
    <3>2. CASE d # n
      <4>1. handler[d].pc # "none"
        BY <2>5, <2>8, <3>2 DEF Serving
      <4> QED
        BY <1>2, <1>4, <2>8, <4>1
    <3> QED
      BY <3>1, <3>2
  <2>9. \A d \in Conns : HasEntry(handler[d].fd)' <=> handler'[d].fd \in Elements(clients')
    BY DEF HasEntry, Elements
  <2> QED
    BY <2>2, <2>8, <2>9
<1>9. CASE ClearEnd
  BY <1>0, <1>9 DEF ClearEnd, MainOK
<1>10. CASE ~Spawn
  <2> \A d \in Conns : Serving(d)' => handler[d].pc # "none"
    BY <1>10, NobodyElseSpawns DEF Serving
  <2>1. CASE clients' = clients /\ (listener'.pc = "spawn" => listener' = listener)
    BY <1>2, <1>3, <1>4, <1>6, <2>1
  <2>2. ASSUME NEW c \in Conns, EraseEnd(c)
        PROVE  /\ listener'.pc = "spawn" =>
                    HasEntry(listener.fd)' \/ \E e \in Conns : handler'[e].fd = listener'.fd
               /\ \A d \in Conns : Serving(d)' /\ Fresh(d)' => HasEntry(handler[d].fd)'
    <3>1. /\ handler[c].pc = "erasing" /\ clients' = Without(handler[c].fd, clients)
          /\ listener' = listener
      BY <2>2 DEF EraseEnd, EraseTo
    <3>2. Elements(clients') = Elements(clients) \ {handler[c].fd}
      BY <1>0, <3>1, WithoutIs
    <3>3. handler'[c].fd = handler[c].fd
      BY <1>1, <3>1 DEF Keeps
    <3>4. \A d \in Conns : Serving(d) /\ Fresh(d) => handler[d].fd # handler[c].fd
      BY <3>1 DEF Serving, Fresh
    <3> QED
      BY <1>2, <1>3, <1>4, <1>6, <3>1, <3>2, <3>3, <3>4
  <2> QED
    BY <1>7, <1>9, <1>10, <2>1, <2>2, ListStep
<1> QED
  BY <1>8, <1>10

(* While a broadcast is under way nobody changes the list. *)
LEMMA ListStaysInLoop ==
  ASSUME DescriptorInv, [Next]_vars, NEW c \in Conns, handler[c].pc = "send"
  PROVE  clients' = clients \/ Spawn
<1>1. ~ListenerWrites /\ ~MainWrites /\ \A d \in Conns : ~HandlerWrites(d)
  BY DEF DescriptorInv, Exclusion, HandlerReads
<1> QED
  BY <1>1, ListStep DEF PushEnd, ClearEnd, EraseEnd, EraseTo, ListenerWrites, MainWrites,
     HandlerWrites

(* The turn that comes to a client's entry leaves the chunk with it.       *)
LEMMA TurnReaches ==
  ASSUME DescriptorInv, NEW c \in Conns, NEW d \in Conns \ {c}, BroadcastTurn(c),
         StillThere(d), Fresh(d), clients[handler[c].i] = handler[d].fd
  PROVE  handler[c].chunk \in Room!Got(d)'
<1> DEFINE f == clients[handler[c].i]
           piece == handler[c].chunk
<1>0. TypeOK /\ MainOK /\ WaitOK /\ HandlerOwnsDescriptor /\ piece \in Piece
      /\ handler[c].on \in Conns \cup {NoConn}
  BY ThreadFields DEF DescriptorInv
<1>1. handler[c].pc = "send" /\ handler[c].fd # f
  BY BroadcastTurnIs DEF Fresh
<1>2. ~Closing /\ Serving(d)
  BY <1>0 DEF StillThere, MainOK, Closing
<1>3. handler[c].on = NoConn \/ handler[c].on = d
  <2>1. handler[c].on # NoConn => handler[handler[c].on].fd = f
    BY <1>0, <1>1, <1>2 DEF WaitOK
  <2> QED
    BY <1>0, <2>1 DEF Fresh
<1>4. handler[c].on = NoConn
  <2>1. handler[c].on # NoConn => handler[handler[c].on].pc \in {"erase", "erasing", "exited"}
    BY <1>0, <1>1, <1>2 DEF WaitOK
  <2> QED
    BY <1>2, <1>3, <2>1 DEF Serving
<1>5. fds[f] = d
  BY <1>0, <1>2 DEF HandlerOwnsDescriptor, UsesDescriptor
<1>6. Behind(c, f) = d
  BY <1>4, <1>5 DEF Behind
<1>7. Send(d, piece)
  <2>1. f \notin {handler[c].fd}
    BY <1>1
  <2> HIDE DEF f
  <2>2. IF f \in {handler[c].fd} THEN UNCHANGED <<process, peer, inbox>>
        ELSE Send(Behind(c, f), piece)
    BY DEF BroadcastTurn, BroadcastTurnExcept, f
  <2> QED
    BY <1>6, <2>1, <2>2
<1>8. Puts(d, piece)
  BY <1>7 DEF Send, Puts, StillThere
<1> QED
  BY <1>0, <1>8, PutsIs

(* A broadcast that neither begins nor advances goes on as it was. *)
LEMMA LoopStays ==
  ASSUME DescriptorInv, DescriptorInv', NEW c \in Conns, Loop(c), [Next]_vars,
         handler[c].pc = "send", handler'[c].audience = handler[c].audience,
         handler'[c].i = handler[c].i, handler'[c].chunk = handler[c].chunk
  PROVE  Loop(c)'
<1> SUFFICES ASSUME NEW d \in handler[c].audience, StillThere(d)', Fresh(d)'
             PROVE  \E k \in DOMAIN clients' :
                      /\ clients'[k] = handler'[d].fd
                      /\ k < handler[c].i => handler[c].chunk \in Room!Got(d)'
  BY DEF Loop, BroadcastReached
<1>1. d \in Conns /\ handler[d].pc # "none"
  BY ThreadFields DEF DescriptorInv, HandlerOK
<1>2. StillThere(d) /\ Fresh(d) /\ handler'[d].fd = handler[d].fd
  BY <1>1, WasThereBefore DEF StillThere
<1>3. PICK k \in DOMAIN clients :
        clients[k] = handler[d].fd /\ (k < handler[c].i => handler[c].chunk \in Room!Got(d))
  BY <1>2 DEF Loop, BroadcastReached
<1>4. clients' = clients
  BY ListStaysInLoop DEF Spawn
<1> QED
  BY <1>1, <1>2, <1>3, <1>4, GotStays

(* A broadcast that begins has everybody ahead. *)
LEMMA LoopBegins ==
  ASSUME DescriptorInv, DescriptorInv', EntryOK, [Next]_vars, NEW c \in Conns,
         BroadcastBegin(c), ~ReadRace(c)
  PROVE  Loop(c)'
<1>1. /\ handler'[c].i = 1 /\ handler'[c].audience = {d \in Conns \ {c} : Serving(d)}
      /\ clients' = clients
  BY BroadcastBeginIs
<1> SUFFICES ASSUME NEW d \in handler'[c].audience, StillThere(d)', Fresh(d)'
             PROVE  \E k \in DOMAIN clients :
                      clients[k] = handler'[d].fd /\ ~(k < handler'[c].i)
  BY <1>1 DEF Loop
<1>2. d \in Conns /\ Serving(d) /\ handler[d].pc # "none"
  BY <1>1 DEF Serving
<1>3. Fresh(d) /\ running /\ handler'[d].fd = handler[d].fd
  BY <1>2, WasThereBefore DEF StillThere
<1>4. PICK k \in DOMAIN clients : clients[k] = handler[d].fd
  BY <1>2, <1>3 DEF EntryOK, HasEntry
<1>5. k \in Nat /\ k >= 1
  <2>1. clients \in Seq(Fds)
    BY DEF DescriptorInv, TypeOK
  <2> QED
    BY <1>4, <2>1
<1> QED
  BY <1>1, <1>3, <1>4, <1>5

(* A turn reaches the client whose entry it looks at. *)
LEMMA LoopTurns ==
  ASSUME DescriptorInv, DescriptorInv', NEW c \in Conns, Loop(c), [Next]_vars, BroadcastTurn(c)
  PROVE  Loop(c)'
<1>1. /\ handler[c].pc = "send" /\ handler'[c].i = handler[c].i + 1 /\ clients' = clients
      /\ handler'[c].audience = handler[c].audience /\ handler'[c].chunk = handler[c].chunk
  BY BroadcastTurnIs
<1> SUFFICES ASSUME NEW d \in handler[c].audience, StillThere(d)', Fresh(d)'
             PROVE  \E k \in DOMAIN clients :
                      /\ clients[k] = handler'[d].fd
                      /\ k < handler'[c].i => handler[c].chunk \in Room!Got(d)'
  BY <1>1 DEF Loop, BroadcastReached
<1>2. d \in Conns /\ handler[d].pc # "none" /\ d # c
  BY ThreadFields DEF DescriptorInv, HandlerOK
<1>3. StillThere(d) /\ Fresh(d) /\ handler'[d].fd = handler[d].fd
  BY <1>2, WasThereBefore DEF StillThere
<1>4. PICK k \in DOMAIN clients :
        clients[k] = handler[d].fd /\ (k < handler[c].i => handler[c].chunk \in Room!Got(d))
  BY <1>1, <1>3 DEF Loop, BroadcastReached
<1>5. k \in Nat /\ handler[c].i \in Nat
  <2>1. clients \in Seq(Fds) /\ handler[c].i \in Nat
    BY ThreadFields DEF DescriptorInv, TypeOK
  <2> QED
    BY <1>4, <2>1
<1>6. CASE k = handler[c].i
  BY <1>2, <1>3, <1>4, <1>6, TurnReaches
<1>7. CASE k # handler[c].i
  BY <1>1, <1>2, <1>3, <1>4, <1>5, <1>7, GotStays
<1> QED
  BY <1>6, <1>7

(* A broadcast that ends has reached everybody, and what was reached stays *)
(* so until the audience is forgotten.                                     *)
LEMMA ReachedNext ==
  ASSUME DescriptorInv, DescriptorInv', NEW c \in Conns, Loop(c), [Next]_vars,
         BroadcastReachesFresh,
         \/ LoopsNot(handler[c], handler'[c])
         \/ BroadcastEnd(c)
         \/ handler'[c].pc # "check",
         NEW d \in handler'[c].audience, handler'[c].pc = "check", StillThere(d)', Fresh(d)'
  PROVE  BroadcastReached(c, d)'
<1> SUFFICES handler'[c].chunk \in Room!Got(d)'
  BY DEF BroadcastReached
<1>0. /\ handler'[c].audience = handler[c].audience /\ handler'[c].chunk = handler[c].chunk
      /\ handler[c].pc = "check" \/ (BroadcastEnd(c) /\ handler[c].pc = "send")
  BY BroadcastEndIs DEF LoopsNot
<1>1. d \in Conns /\ handler[d].pc # "none"
  BY <1>0, ThreadFields DEF DescriptorInv, HandlerOK
<1>2. StillThere(d) /\ Fresh(d)
  BY <1>1, WasThereBefore DEF StillThere
<1>3. handler[c].chunk \in Room!Got(d)
  <2>1. CASE handler[c].pc = "check"
    BY <1>0, <1>2, <2>1 DEF BroadcastReachesFresh, BroadcastReached
  <2>2. CASE BroadcastEnd(c) /\ handler[c].pc = "send"
    <3>1. handler[c].i > Len(clients) /\ handler[c].i \in Nat /\ clients \in Seq(Fds)
      BY <2>2, BroadcastEndIs, ThreadFields DEF DescriptorInv, TypeOK
    <3>2. \A k \in DOMAIN clients : k < handler[c].i
      BY <3>1
    <3> QED
      BY <1>0, <1>2, <2>2, <3>2 DEF Loop, BroadcastReached
  <2> QED
    BY <1>0, <2>1, <2>2
<1> QED
  BY <1>0, <1>1, <1>3, GotStays

(* The initial states satisfy the invariant of the broadcasts. *)
LEMMA BroadcastInvInit == Init => BroadcastInv
<1> SUFFICES ASSUME Init PROVE BroadcastInv
  OBVIOUS
<1>1. \A c \in Conns : handler[c].pc = "none" /\ handler[c].audience = {}
  BY DEF Init
<1>2. listener.pc = "check"
  BY DEF Init
<1> QED
  BY <1>1, <1>2 DEF BroadcastInv, EntryOK, LoopOK, Loop, BroadcastReachesFresh, Serving

(* Every step preserves the invariant of the broadcasts. *)
LEMMA BroadcastInvNext ==
  ASSUME DescriptorInv, DescriptorInv', BroadcastInv, [Next]_vars
  PROVE  BroadcastInv'
<1>0. EntryOK /\ BroadcastReachesFresh /\ \A c \in Conns : Loop(c)
  BY DEF BroadcastInv, LoopOK
<1>1. EntryOK'
  BY <1>0, EntryOKNext
<1>2. ASSUME NEW c \in Conns
      PROVE \/ LoopsNot(handler[c], handler'[c])
            \/ BroadcastEnd(c) \/ BroadcastTurn(c) \/ (BroadcastBegin(c) /\ ~ReadRace(c))
  <2>1. CASE Plain
    BY <2>1 DEF Plain
  <2>2. ASSUME NEW d \in Conns, \/ Recv(d) \/ Acknowledge(d) \/ BroadcastTurn(d) \/ BroadcastEnd(d)
                                \/ BroadcastBegin(d) /\ ~ReadRace(d)
        PROVE \/ LoopsNot(handler[c], handler'[c])
              \/ BroadcastEnd(c) \/ BroadcastTurn(c) \/ (BroadcastBegin(c) /\ ~ReadRace(c))
    <3>1. CASE d # c
      <4>1. handler'[c] = handler[c]
        <5>1. CASE Recv(d) \/ Acknowledge(d) \/ BroadcastEnd(d)
          BY <3>1, <5>1, RecvIs, AcknowledgeIs, BroadcastEndIs
        <5>2. CASE BroadcastTurn(d) \/ (BroadcastBegin(d) /\ ~ReadRace(d))
          BY <3>1, <5>2, BroadcastTurnIs, BroadcastBeginIs
        <5> QED
          BY <2>2, <5>1, <5>2
      <4> QED
        BY <4>1 DEF LoopsNot
    <3>2. CASE d = c
      <4>1. Recv(c) \/ Acknowledge(c) => handler'[c].pc \in {"ack", "broadcast"}
        BY RecvIs, AcknowledgeIs
      <4> QED
        BY <2>2, <3>2, <4>1 DEF LoopsNot
    <3> QED
      BY <3>1, <3>2
  <2> QED
    BY <2>1, <2>2, StepIsOneOf
<1>3. ASSUME NEW c \in Conns PROVE Loop(c)'
  <2>1. CASE handler'[c].pc # "send"
    BY <2>1 DEF Loop
  <2>2. CASE LoopsNot(handler[c], handler'[c]) /\ handler'[c].pc = "send"
    BY <1>0, <2>2, LoopStays DEF LoopsNot
  <2>3. CASE BroadcastBegin(c) /\ ~ReadRace(c)
    BY <1>0, <2>3, LoopBegins
  <2>4. CASE BroadcastTurn(c)
    BY <1>0, <2>4, LoopTurns
  <2>5. BroadcastEnd(c) => handler'[c].pc # "send"
    BY BroadcastEndIs
  <2> QED
    BY <1>2, <2>1, <2>2, <2>3, <2>4, <2>5
<1>4. LoopOK'
  BY <1>3 DEF LoopOK
<1>5. BroadcastReachesFresh'
  <2>1. \A c \in Conns : BroadcastTurn(c) \/ (BroadcastBegin(c) /\ ~ReadRace(c)) => handler'[c].pc # "check"
    BY BroadcastTurnIs, BroadcastBeginIs
  <2>2. ASSUME NEW c \in Conns, NEW d \in handler'[c].audience,
               handler'[c].pc = "check", StillThere(d)', Fresh(d)'
        PROVE  BroadcastReached(c, d)'
    BY <1>0, <1>2, <2>1, <2>2, ReachedNext
  <2> QED
    BY <2>2 DEF BroadcastReachesFresh
<1> QED
  BY <1>1, <1>4, <1>5 DEF BroadcastInv

(* A broadcast reaches every client that was connected when it began and   *)
(* still is, if the client's descriptor number was not used by an earlier  *)
(* connection: whatever connects, disconnects or broadcasts meanwhile.     *)
THEOREM BroadcastReachesAllFresh == Spec => []BroadcastReachesFresh
<1>1. DescriptorInv /\ DescriptorInv' /\ BroadcastInv /\ [Next]_vars => BroadcastInv'
  BY BroadcastInvNext
<1>2. BroadcastInv => BroadcastReachesFresh
  BY DEF BroadcastInv
<1> QED
  BY <1>1, <1>2, BroadcastInvInit, DescriptorInvariant, PTL DEF Spec
=============================================================================
