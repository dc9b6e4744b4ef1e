----------------------------- MODULE UdpServer -----------------------------
(***************************************************************************)
(* The chat server over UDP (Server.cpp, start_server.cpp), from the       *)
(* reading of its configuration to the end of main: the main thread opens  *)
(* the socket, starts the listener thread and waits for the command to     *)
(* stop; the listener acknowledges each datagram.                          *)
(*                                                                         *)
(* broadcast_udp is called by nobody, so udp_clients_ stays empty and is   *)
(* left out.  The clients, the network and the kernel are external: since  *)
(* UDP may lose, repeat and reorder, anything may arrive at any time.      *)
(***************************************************************************)
EXTENDS Integers, Sequences

CONSTANTS
  Addrs,        \* addresses of clients
  BufferSize,   \* sizeof(buffer)
  QueueSize,    \* datagrams the socket holds for the program
  MaxReceived   \* bound: datagrams received

ASSUME UdpServerAssumption ==
  /\ BufferSize \in Nat \ {0}
  /\ QueueSize \in Nat \ {0}
  /\ MaxReceived \in Nat

VARIABLES
  process,      \* "up", "failed" to start, or "returned"
  running,      \* is_running_
  server,       \* the socket server_socket_: "none", "open" or "closed"
  main,         \* main, start() and stop(): pc
  listener,     \* the listener thread: pc, client_addr and bytes_received
  queue,        \* kernel: datagrams arrived and not yet received
  received,     \* history: datagrams recvfrom returned, in order
  replies       \* history: what was sent, in order: to whom, and because of
                \* which datagram

listening == <<listener, received, replies>>
vars == <<process, running, server, main, listening, queue>>

NoAddr == "none"

Init ==
  /\ process = "up" /\ running = FALSE /\ server = "none"
  /\ main = "configure"
  /\ listener = [pc |-> "none", client_addr |-> NoAddr, bytes_received |-> 0]
  /\ queue = <<>> /\ received = <<>> /\ replies = <<>>

-----------------------------------------------------------------------------
(* main, the constructor, start() and setup_socket() *)

(* The steps of the start and what follows each. *)
NextStep == [configure |-> "socket", socket |-> "setsockopt", setsockopt |-> "ioctl",
             ioctl |-> "bind", bind |-> "start"]

StartStep ==
  /\ main \in DOMAIN NextStep
  /\ main' = NextStep[main]
  /\ server' = IF main = "socket" THEN "open" ELSE server
  /\ UNCHANGED <<process, running, listening, queue>>

(* No configuration, a port or protocol that does not parse, port 0, or an *)
(* error of a system call: the socket is closed and the exception is       *)
(* reported by main.                                                       *)
StartFails ==
  /\ main \in DOMAIN NextStep
  /\ server' = IF server = "open" THEN "closed" ELSE server
  /\ process' = "failed"
  /\ UNCHANGED <<running, main, listening, queue>>

StartThread ==
  /\ main = "start"
  /\ running' = TRUE
  /\ main' = "command"
  /\ listener' = [listener EXCEPT !.pc = "check"]
  /\ UNCHANGED <<process, server, queue, received, replies>>

Start == StartStep \/ StartFails \/ StartThread

-----------------------------------------------------------------------------
(* udp_listen *)

ListenerGoto(label) == listener' = [listener EXCEPT !.pc = label]

ListenWhile(go) ==
  /\ listener.pc = "check"
  /\ ListenerGoto(IF go THEN "call" ELSE "exited")
  /\ UNCHANGED <<process, running, server, main, queue, received, replies>>

(* A variant with a mistake: nobody looks at is_running_. *)
ListenForEver == ListenWhile(TRUE)

ListenerCheck == ListenWhile(running)

(* recvfrom waits on an open socket, and fails on a closed one. *)
ListenerCall ==
  /\ listener.pc = "call"
  /\ ListenerGoto(IF server = "open" THEN "recvfrom" ELSE "check")
  /\ UNCHANGED <<process, running, server, main, queue, received, replies>>

(* A variant with a mistake: no byte is kept free for the '\n'. *)
CutToBuffer(len) == IF len <= BufferSize THEN len ELSE BufferSize

(* recvfrom is given sizeof(buffer) - 1 bytes and cuts what does not fit. *)
Cut(len) == IF len < BufferSize THEN len ELSE BufferSize - 1

ReceiveFrom(addr) ==
  /\ listener.pc = "recvfrom" /\ queue # <<>>
  /\ received' = Append(received, Head(queue))
  /\ queue' = Tail(queue)
  /\ IF Head(queue).len = 0
       THEN ListenerGoto("check")
       ELSE listener' = [pc |-> "ack", client_addr |-> addr,
                         bytes_received |-> Cut(Head(queue).len)]
  /\ UNCHANGED <<process, running, server, main, replies>>

(* A variant with a mistake: the address is taken from the first datagram. *)
ReceiveFromFirst ==
  ReceiveFrom(IF listener.client_addr = NoAddr THEN Head(queue).from ELSE listener.client_addr)

(* recvfrom returns a datagram and who sent it; an empty one is ignored,   *)
(* and behind another one, at buffer[bytes_received], a '\n' is written.   *)
Receive == ReceiveFrom(Head(queue).from)

(* sendto, which fails when stop() has closed the socket. *)
Acknowledge ==
  /\ listener.pc = "ack"
  /\ replies' =
       IF server = "open"
         THEN Append(replies, [to |-> listener.client_addr, of |-> Len(received)])
         ELSE replies
  /\ ListenerGoto("check")
  /\ UNCHANGED <<process, running, server, main, queue, received>>

Listener == ListenerCheck \/ ListenerCall \/ Receive \/ Acknowledge

-----------------------------------------------------------------------------
(* main and stop() *)

Command ==
  /\ main = "command"
  /\ running' = FALSE
  /\ main' = "closeServer"
  /\ UNCHANGED <<process, server, listening, queue>>

(* Datagrams that wait are dropped with the socket, unless a thread waits  *)
(* in recvfrom: it is not woken, and keeps the socket alive.               *)
CloseServer ==
  /\ main = "closeServer"
  /\ server' = "closed"
  /\ queue' = IF listener.pc = "recvfrom" THEN queue ELSE <<>>
  /\ main' = "join"
  /\ UNCHANGED <<process, running, listening>>

JoinListener ==
  /\ main = "join" /\ listener.pc = "exited"
  /\ main' = "return"
  /\ UNCHANGED <<process, running, server, listening, queue>>

MainReturn ==
  /\ main = "return"
  /\ process' = "returned"
  /\ UNCHANGED <<running, server, main, listening, queue>>

Stop == CloseServer \/ JoinListener \/ MainReturn

-----------------------------------------------------------------------------
(* The network *)

(* The socket is bound and somebody holds it. *)
Bound ==
  \/ server = "open" /\ main \notin DOMAIN NextStep
  \/ listener.pc = "recvfrom"

(* Some datagrams are longer than the buffer. *)
Datagram == [from : Addrs, len : 0 .. BufferSize + 1]

(* All that are longer than the buffer are alike. *)
Length(size) == IF size <= BufferSize THEN size ELSE BufferSize + 1

(* A datagram arrives and finds room in the queue. *)
Arrive ==
  /\ Bound /\ Len(queue) < QueueSize
  /\ Len(received) + Len(queue) < MaxReceived
  /\ \E d \in Datagram : queue' = Append(queue, d)
  /\ UNCHANGED <<process, running, server, main, listening>>

-----------------------------------------------------------------------------
Ended == process # "up" /\ UNCHANGED vars

Next ==
  \/ process = "up" /\ (Start \/ Listener \/ Command \/ Stop \/ Arrive)
  \/ Ended

Spec == Init /\ [][Next]_vars

(* The operating system runs both threads.  Nothing is assumed of the      *)
(* operator or the network.                                                *)
Fairness ==
  /\ WF_vars(process = "up" /\ Start)
  /\ WF_vars(process = "up" /\ Listener)
  /\ WF_vars(process = "up" /\ Stop)

FairSpec == Spec /\ Fairness
=============================================================================
