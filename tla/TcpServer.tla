------------------------------ MODULE TcpServer ------------------------------
(***************************************************************************)
(* The chat server over TCP (Server.cpp, start_server.cpp): a listener     *)
(* thread, one detached thread per accepted connection, and the main       *)
(* thread, which waits for the command to stop.                            *)
(*                                                                         *)
(* The threads share tcp_clients_, a std::vector that nothing protects.    *)
(* push_back, the loop of broadcast_tcp, erase and clear each take more    *)
(* than one step here.  An access that begins while another thread is in   *)
(* the middle of a conflicting one is a data race: process becomes         *)
(* "undefined", and nothing is said of what the program does after.        *)
(*                                                                         *)
(* The clients, the operator and the kernel's part of TCP are external.  A *)
(* message counts as sent once it has reached the server's kernel; send    *)
(* blocks as long as a client does not read and its buffers are full.      *)
(***************************************************************************)
EXTENDS Integers, Sequences, FiniteSets

CONSTANTS
  Conns,       \* TCP connections; a client that returns makes another one
  NoConn,      \* not a connection
  NumFds,      \* descriptors the process may have open for clients
  MaxSent,     \* bound: messages sent, for each connection
  MaxHangUps,  \* bound: connections their clients close or reset
  Stallers,    \* bound: connections whose clients may stop reading for a time
  StopBelow    \* bound: the operator stops the server only while fewer connections
               \* have been made, and then so it remains

ASSUME TcpServerAssumption ==
  /\ NoConn \notin Conns
  /\ NumFds \in Nat \ {0}
  /\ MaxSent \in [Conns -> Nat]
  /\ MaxHangUps \in Nat
  /\ Stallers \subseteq Conns
  /\ StopBelow \in Nat

VARIABLES
  process,     \* "up", "returned", "killed" by SIGPIPE, or "undefined"
  running,     \* is_running_
  server,      \* whether the socket server_socket_ is "open" or "closed"
  clients,     \* tcp_clients_
  main,        \* main and stop(): pc, and its index i into clients
  listener,    \* the listener thread: pc, client_socket fd and what it stands for
  handler,     \* per connection its thread: pc, client_socket fd, the chunk in
               \* buffer, the index i of broadcast_tcp, the connection its call
               \* waits on if the descriptor was closed meanwhile, and as a
               \* history the audience of its broadcast
  fds,         \* kernel: the connection behind each descriptor
  backlog,     \* kernel: established connections not yet accepted
  peer,        \* kernel: what is known of the client's end of a connection
  sent,        \* messages sent by each client
  received,    \* how many of them recv has returned
  inbox        \* history: what was sent to each client, in order

threads == <<main, listener, handler>>
network == <<backlog, peer, sent, received, inbox>>
vars == <<process, running, server, clients, threads, fds, network>>

Fds == 1 .. NumFds
NoChunk == [from |-> NoConn, first |-> 0, last |-> 0]
OK == NoChunk            \* the acknowledgement, which carries no message

Init ==
  /\ process = "up" /\ running = TRUE /\ server = "open" /\ clients = <<>>
  /\ main = [pc |-> "command", i |-> 1]
  /\ listener = [pc |-> "check", conn |-> NoConn, fd |-> 0]
  /\ handler = [c \in Conns |->
                  [pc |-> "none", fd |-> 0, chunk |-> NoChunk, i |-> 1,
                   on |-> NoConn, audience |-> {}]]
  /\ fds = [f \in Fds |-> NoConn]
  /\ backlog = <<>>
  /\ peer = [c \in Conns |-> "away"]
  /\ sent = [c \in Conns |-> 0] /\ received = sent
  /\ inbox = [c \in Conns |-> <<>>]

MainGoto(label) == main' = [main EXCEPT !.pc = label]
ListenerGoto(label) == listener' = [listener EXCEPT !.pc = label]
HandlerBecomes(c, thread) == handler' = [handler EXCEPT ![c] = thread]
HandlerGoto(c, label) == HandlerBecomes(c, [handler[c] EXCEPT !.pc = label])

-----------------------------------------------------------------------------
(* The kernel, as the server sees it *)

FreeFds == {f \in Fds : fds[f] = NoConn}
LowestFd == CHOOSE f \in FreeFds : \A g \in FreeFds : f <= g

(* The connections that have been made. *)
Made == {c \in Conns : peer[c] # "away"}

(* A blocked accept keeps a closed listening socket, and its backlog, alive. *)
Listening == server = "open" \/ listener.pc = "accept"

(* The connection that a call of c on descriptor f is about. *)
Behind(c, f) == IF handler[c].on # NoConn THEN handler[c].on ELSE fds[f]

(* The descriptor a handler calls recv or send on, and whether it has to wait. *)
CallsOn(c) ==
  CASE handler[c].pc \in {"recv", "ack"} -> {handler[c].fd}
    [] handler[c].pc = "send" /\ handler[c].i <= Len(clients) ->
           {clients[handler[c].i]} \ {handler[c].fd}
    [] OTHER -> {}
Waits(c, d) ==
  IF handler[c].pc = "recv" THEN peer[d] \in {"open", "full"} /\ received[d] = sent[d]
  ELSE peer[d] = "full"

(* close(f) does not wake the other threads' calls that wait on f: these   *)
(* go on with the connection they have begun with.  A thread that had yet  *)
(* to make its call finds the descriptor closed.                           *)
Close(f) == fds' = [fds EXCEPT ![f] = NoConn]
HandlersAfterClose(f) ==
  LET MayWait(c) == f \in CallsOn(c) /\ Behind(c, f) = fds[f] /\ Waits(c, fds[f])
  IN {[c \in Conns |-> IF c \in inCall THEN [handler[c] EXCEPT !.on = fds[f]] ELSE handler[c]] :
        inCall \in IF fds[f] = NoConn THEN {{}} ELSE SUBSET {c \in Conns : MayWait(c)}}

(* send to connection d, the result being ignored.  It blocks while d does *)
(* not read.  On a closed descriptor it is an error.  A client that has    *)
(* closed its end answers with a reset; a send after a reset reports it or *)
(* raises SIGPIPE, which ends the process.                                 *)
Send(d, data) ==
  /\ d # NoConn => peer[d] # "full"
  /\ inbox' = IF d # NoConn /\ peer[d] = "open"
                THEN [inbox EXCEPT ![d] = Append(@, data)] ELSE inbox
  /\ peer' = IF d # NoConn /\ peer[d] = "closed" THEN [peer EXCEPT ![d] = "reset"] ELSE peer
  /\ process' \in IF d # NoConn /\ peer[d] = "reset" THEN {process, "killed"} ELSE {process}

-----------------------------------------------------------------------------
(* tcp_clients_ and its data races *)

HandlerReads(c) == handler[c].pc = "send"
HandlerWrites(c) == handler[c].pc = "erasing"
ListenerWrites == listener.pc = "pushing"
MainReads == main.pc = "closeClients"
MainWrites == main.pc \in {"clearing", "returning"}   \* cleared, then destroyed

ReadRace(c) == ListenerWrites \/ MainWrites \/ \E d \in Conns \ {c} : HandlerWrites(d)
WriteRace(c) == ReadRace(c) \/ MainReads \/ \E d \in Conns \ {c} : HandlerReads(d)
AnyHandlerWrites == \E c \in Conns : HandlerWrites(c)
AnyHandlerUses == \E c \in Conns : HandlerReads(c) \/ HandlerWrites(c)

Undefined ==
  /\ process' = "undefined"
  /\ UNCHANGED <<running, server, clients, threads, fds, network>>

-----------------------------------------------------------------------------
(* tcp_listen *)

ListenWhile(go) ==
  /\ listener.pc = "check"
  /\ ListenerGoto(IF go THEN "call" ELSE "exited")
  /\ UNCHANGED <<process, running, server, clients, main, handler, fds, network>>

(* A variant with a mistake: nobody looks at is_running_. *)
ListenForEver == ListenWhile(TRUE)

ListenerCheck == ListenWhile(running)

(* accept on an open socket blocks; on a closed one it fails: continue. *)
ListenerCall ==
  /\ listener.pc = "call"
  /\ ListenerGoto(IF server = "open" THEN "accept" ELSE "check")
  /\ UNCHANGED <<process, running, server, clients, main, handler, fds, network>>

(* The backlog once the thread is out of accept with its head taken, or    *)
(* not: if the socket was closed meanwhile this was its last user.         *)
BacklogAfter(rest) == backlog' = IF server = "open" THEN rest ELSE <<>>

(* accept returns the oldest connection on the lowest free descriptor. *)
Accept ==
  /\ listener.pc = "accept" /\ backlog # <<>> /\ FreeFds # {}
  /\ listener' = [pc |-> "push", conn |-> Head(backlog), fd |-> LowestFd]
  /\ fds' = [fds EXCEPT ![LowestFd] = Head(backlog)]
  /\ BacklogAfter(Tail(backlog))
  /\ UNCHANGED <<process, running, server, clients, main, handler, peer, sent, received, inbox>>

AcceptFailsThen(label) ==
  /\ listener.pc = "accept" /\ backlog # <<>> /\ FreeFds = {}
  /\ ListenerGoto(label)
  /\ BacklogAfter(backlog)
  /\ UNCHANGED <<process, running, server, clients, main, handler, fds, peer, sent, received, inbox>>

(* A variant with a mistake: the error is not noticed. *)
AcceptFailsUnnoticed == AcceptFailsThen("push")

(* A variant with a mistake: the listener gives up. *)
AcceptFailsForGood == AcceptFailsThen("exited")

(* accept fails for want of a descriptor: continue. *)
AcceptFails == AcceptFailsThen("check")

PushBegin ==
  /\ listener.pc = "push"
  /\ IF AnyHandlerUses THEN Undefined
     ELSE /\ ListenerGoto("pushing")
          /\ UNCHANGED <<process, running, server, clients, main, handler, fds, network>>

PushEnd ==
  /\ listener.pc = "pushing"
  /\ clients' = Append(clients, listener.fd)
  /\ ListenerGoto("spawn")
  /\ UNCHANGED <<process, running, server, main, handler, fds, network>>

(* A new thread handles the connection and is detached. *)
Spawn ==
  /\ listener.pc = "spawn"
  /\ HandlerBecomes(listener.conn,
       [handler[listener.conn] EXCEPT !.pc = "check", !.fd = listener.fd])
  /\ listener' = [pc |-> "check", conn |-> NoConn, fd |-> 0]
  /\ UNCHANGED <<process, running, server, clients, main, fds, network>>

Listener ==
  \/ ListenerCheck \/ ListenerCall \/ Accept \/ AcceptFails
  \/ PushBegin \/ PushEnd \/ Spawn

-----------------------------------------------------------------------------
(* handle_tcp_client and broadcast_tcp *)

HandlerCheck(c) ==
  /\ handler[c].pc = "check"
  /\ HandlerBecomes(c, [handler[c] EXCEPT !.pc = IF running THEN "recv" ELSE "close",
                                          !.audience = {}])
  /\ UNCHANGED <<process, running, server, clients, main, listener, fds, network>>

(* recv returns some of the bytes that have arrived; they need not be one  *)
(* message.  Whoever is behind the descriptor is read from.                *)
Recv(c) ==
  /\ handler[c].pc = "recv"
  /\ LET d == Behind(c, handler[c].fd) IN
       /\ d # NoConn /\ peer[d] # "reset"
       /\ \E n \in received[d] + 1 .. sent[d] :
            /\ HandlerBecomes(c, [handler[c] EXCEPT !.pc = "ack", !.on = NoConn,
                 !.chunk = [from |-> d, first |-> received[d] + 1, last |-> n]])
            /\ received' = [received EXCEPT ![d] = n]
  /\ UNCHANGED <<process, running, server, clients, main, listener, fds, backlog, peer, sent, inbox>>

AtEnd(d) == peer[d] = "closed" /\ received[d] = sent[d]

RecvFailsIf(c, broken) ==
  /\ handler[c].pc = "recv"
  /\ Behind(c, handler[c].fd) # NoConn => broken
  /\ HandlerBecomes(c, [handler[c] EXCEPT !.pc = "close", !.on = NoConn])
  /\ UNCHANGED <<process, running, server, clients, main, listener, fds, network>>

(* A variant with a mistake: the end of the stream is no reason to leave. *)
RecvFailsOnError(c) == RecvFailsIf(c, peer[Behind(c, handler[c].fd)] = "reset")

(* A variant with a mistake: a client that has nothing to say is given up. *)
RecvFailsWhenIdle(c) ==
  LET d == Behind(c, handler[c].fd) IN RecvFailsIf(c, peer[d] = "reset" \/ received[d] = sent[d])

(* recv returns 0 or an error: the client has closed or reset the          *)
(* connection, or stop() had closed the descriptor.                        *)
RecvFails(c) ==
  LET d == Behind(c, handler[c].fd) IN RecvFailsIf(c, peer[d] = "reset" \/ AtEnd(d))

Acknowledge(c) ==
  /\ handler[c].pc = "ack"
  /\ Send(Behind(c, handler[c].fd), OK)
  /\ HandlerBecomes(c, [handler[c] EXCEPT !.pc = "broadcast", !.on = NoConn])
  /\ UNCHANGED <<running, server, clients, main, listener, fds, backlog, sent, received>>

(* The connections that are being served: accepted, and not yet given up. *)
Serving(c) == handler[c].pc \in {"check", "recv", "ack", "broadcast", "send"}

(* The loop of broadcast_tcp starts: begin() and end() are evaluated. *)
BroadcastBegin(c) ==
  /\ handler[c].pc = "broadcast"
  /\ IF ReadRace(c) THEN Undefined
     ELSE /\ HandlerBecomes(c, [handler[c] EXCEPT !.pc = "send", !.i = 1,
                                 !.audience = {d \in Conns \ {c} : Serving(d)}])
          /\ UNCHANGED <<process, running, server, clients, main, listener, fds, network>>

BroadcastTurnExcept(c, skipped) ==
  /\ handler[c].pc = "send" /\ handler[c].i <= Len(clients)
  /\ LET f == clients[handler[c].i] IN
       IF f \in skipped THEN UNCHANGED <<process, peer, inbox>>
       ELSE Send(Behind(c, f), handler[c].chunk)
  /\ HandlerBecomes(c, [handler[c] EXCEPT !.i = @ + 1, !.on = NoConn])
  /\ UNCHANGED <<running, server, clients, main, listener, fds, backlog, sent, received>>

(* A variant with a mistake: the sender is not skipped. *)
BroadcastTurnToAll(c) == BroadcastTurnExcept(c, {})

(* One turn of the loop, which skips the sender's descriptor. *)
BroadcastTurn(c) == BroadcastTurnExcept(c, {handler[c].fd})

BroadcastEnd(c) ==
  /\ handler[c].pc = "send" /\ handler[c].i > Len(clients)
  /\ HandlerGoto(c, "check")
  /\ UNCHANGED <<process, running, server, clients, main, listener, fds, network>>

CloseSocketThen(c, label) ==
  /\ handler[c].pc = "close"
  /\ Close(handler[c].fd)
  /\ \E after \in HandlersAfterClose(handler[c].fd) : handler' = [after EXCEPT ![c].pc = label]
  /\ UNCHANGED <<process, running, server, clients, main, listener, network>>

(* A variant with a mistake: the entry is not erased. *)
CloseSocketAndLeave(c) == CloseSocketThen(c, "exited")

(* close(client_socket): from now on accept may use the descriptor again. *)
CloseSocket(c) == CloseSocketThen(c, "erase")

EraseBegin(c) ==
  /\ handler[c].pc = "erase"
  /\ IF WriteRace(c) THEN Undefined
     ELSE /\ HandlerGoto(c, "erasing")
          /\ UNCHANGED <<process, running, server, clients, main, listener, fds, network>>

EraseTo(c, rest) ==
  /\ handler[c].pc = "erasing"
  /\ clients' = rest
  /\ HandlerGoto(c, "exited")
  /\ UNCHANGED <<process, running, server, main, listener, fds, network>>

(* A variant with a mistake: the last entry goes, whosever it is. *)
EraseLast(c) == EraseTo(c, SubSeq(clients, 1, Len(clients) - 1))

(* The sequence without the elements that equal f. *)
Without(f, s) ==
  LET first[n \in 0 .. Len(s)] ==
        IF n = 0 THEN <<>> ELSE first[n - 1] \o (IF s[n] = f THEN <<>> ELSE <<s[n]>>)
  IN first[Len(s)]

(* erase(remove(...)) drops every element that equals the descriptor. *)
EraseEnd(c) == EraseTo(c, Without(handler[c].fd, clients))

Handler(c) ==
  \/ HandlerCheck(c) \/ Recv(c) \/ RecvFails(c) \/ Acknowledge(c)
  \/ BroadcastBegin(c) \/ BroadcastTurn(c) \/ BroadcastEnd(c)
  \/ CloseSocket(c) \/ EraseBegin(c) \/ EraseEnd(c)

-----------------------------------------------------------------------------
(* main and stop() *)

(* The operator types "stop" or "quit"; is_running_ = false. *)
Command ==
  /\ main.pc = "command" /\ Cardinality(Made) < StopBelow
  /\ running' = FALSE
  /\ MainGoto("closeServer")
  /\ UNCHANGED <<process, server, clients, listener, handler, fds, network>>

(* close(server_socket_) does not wake a thread blocked in accept; the     *)
(* member is then set to -1, which accept refuses like a closed socket.    *)
CloseServer ==
  /\ main.pc = "closeServer"
  /\ server' = "closed"
  /\ backlog' = IF listener.pc = "accept" THEN backlog ELSE <<>>
  /\ MainGoto("join")
  /\ UNCHANGED <<process, running, clients, listener, handler, fds, peer, sent, received, inbox>>

JoinWhen(joined) ==
  /\ main.pc = "join" /\ joined
  /\ IF AnyHandlerWrites THEN Undefined
     ELSE /\ MainGoto("closeClients")
          /\ UNCHANGED <<process, running, server, clients, listener, handler, fds, network>>

(* A variant with a mistake: the listener is not waited for. *)
JoinListenerNot == JoinWhen(TRUE)

(* The join returns, and the loop over tcp_clients_ starts. *)
JoinListener == JoinWhen(listener.pc = "exited")

CloseClient ==
  /\ main.pc = "closeClients" /\ main.i <= Len(clients)
  /\ Close(clients[main.i])
  /\ handler' \in HandlersAfterClose(clients[main.i])
  /\ main' = [main EXCEPT !.i = @ + 1]
  /\ UNCHANGED <<process, running, server, clients, listener, network>>

(* tcp_clients_.clear() *)
ClearBegin ==
  /\ main.pc = "closeClients" /\ main.i > Len(clients)
  /\ IF AnyHandlerUses THEN Undefined
     ELSE /\ MainGoto("clearing")
          /\ UNCHANGED <<process, running, server, clients, listener, handler, fds, network>>

(* stop() returns, and the Server object goes out of scope: its destructor *)
(* finds the server stopped, and its members are destroyed.                *)
ClearEnd ==
  /\ main.pc = "clearing"
  /\ clients' = <<>>
  /\ MainGoto("returning")
  /\ UNCHANGED <<process, running, server, listener, handler, fds, network>>

(* main returns, and with the process all detached threads end. *)
MainReturn ==
  /\ main.pc = "returning"
  /\ process' = "returned"
  /\ UNCHANGED <<running, server, clients, threads, fds, network>>

Stop ==
  CloseServer \/ JoinListener \/ CloseClient \/ ClearBegin \/ ClearEnd \/ MainReturn

-----------------------------------------------------------------------------
(* The clients *)

Connect(c) ==
  /\ peer[c] = "away" /\ Listening
  /\ ~running => Cardinality(Made) + 1 < StopBelow
  /\ peer' = [peer EXCEPT ![c] = "open"]
  /\ backlog' = Append(backlog, c)
  /\ UNCHANGED <<process, running, server, clients, threads, fds, sent, received, inbox>>

SendMessage(c) ==
  /\ peer[c] \in {"open", "full"} /\ sent[c] < MaxSent[c]
  /\ sent' = [sent EXCEPT ![c] = @ + 1]
  /\ UNCHANGED <<process, running, server, clients, threads, fds, backlog, peer, received, inbox>>

(* A client stops reading until nothing more can be sent to it, and perhaps *)
(* reads again.                                                            *)
Stall(c) ==
  /\ c \in Stallers /\ peer[c] \in {"open", "full"}
  /\ peer' = [peer EXCEPT ![c] = IF @ = "open" THEN "full" ELSE "open"]
  /\ UNCHANGED <<process, running, server, clients, threads, fds, backlog, sent, received, inbox>>

(* A client closes its end, or resets the connection by leaving something unread. *)
Disconnect(c) ==
  /\ peer[c] \in {"open", "full"}
  /\ Cardinality({d \in Conns : peer[d] \in {"closed", "reset"}}) < MaxHangUps
  /\ \E how \in {"reset"} \cup IF peer[c] = "open" THEN {"closed"} ELSE {} :
       peer' = [peer EXCEPT ![c] = how]
  /\ UNCHANGED <<process, running, server, clients, threads, fds, backlog, sent, received, inbox>>

Client(c) == Connect(c) \/ SendMessage(c) \/ Stall(c) \/ Disconnect(c)

-----------------------------------------------------------------------------
(* The process has ended, or nothing is known of it. *)
Ended == process # "up" /\ UNCHANGED vars

Next ==
  \/ /\ process = "up"
     /\ Listener \/ Command \/ Stop \/ \E c \in Conns : Handler(c) \/ Client(c)
  \/ Ended

Spec == Init /\ [][Next]_vars

(* The operating system runs every thread.  Nothing is assumed of the      *)
(* clients or the operator.                                                *)
Fairness ==
  /\ WF_vars(process = "up" /\ Listener)
  /\ WF_vars(process = "up" /\ Stop)
  /\ \A c \in Conns : WF_vars(process = "up" /\ Handler(c))

FairSpec == Spec /\ Fairness
=============================================================================
