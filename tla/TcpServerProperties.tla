------------------------- MODULE TcpServerProperties -------------------------
(***************************************************************************)
(* What is required of the chat server over TCP.  A data race ends what    *)
(* can be said: the properties are about executions up to it.              *)
(***************************************************************************)
EXTENDS TcpServer

Room == INSTANCE ChatRoom

Piece == [from : Conns \cup {NoConn}, first : Nat, last : Nat]

Thread ==
  [pc : {"none", "check", "recv", "ack", "broadcast", "send", "close", "erase", "erasing", "exited"},
   fd : Fds \cup {0}, chunk : Piece, i : Nat, on : Conns \cup {NoConn}, audience : SUBSET Conns]

(* Between accept and close, a handler thread (or the listener on its      *)
(* behalf) believes that its descriptor is its connection.                 *)
UsesDescriptor(c) == Serving(c) \/ handler[c].pc = "close"

(* main is closing the descriptors, or has done so. *)
Closing == main.pc \in {"closeClients", "clearing", "returning"}

-----------------------------------------------------------------------------
(* Every variable of the server has its type. *)
TypeOK ==
  /\ process \in {"up", "returned", "killed", "undefined"}
  /\ running \in BOOLEAN
  /\ server \in {"open", "closed"}
  /\ clients \in Seq(Fds)
  /\ main \in [pc : {"command", "closeServer", "join", "closeClients", "clearing", "returning"},
               i : Nat]
  /\ listener \in [pc : {"check", "call", "accept", "push", "pushing", "spawn", "exited"},
                   conn : Conns \cup {NoConn}, fd : Fds \cup {0}]
  /\ handler \in [Conns -> Thread]
  /\ fds \in [Fds -> Conns \cup {NoConn}]
  /\ backlog \in Seq(Conns)
  /\ peer \in [Conns -> {"away", "open", "full", "closed", "reset"}]
  /\ sent \in [Conns -> Nat]
  /\ received \in [Conns -> Nat]
  /\ inbox \in [Conns -> Seq(Piece)]

(* handle_tcp_client keeps using the number client_socket for as long as   *)
(* it runs, and closes it at the end; in between the number always means   *)
(* the handler's own connection, except that stop() may have closed it.    *)
HandlerOwnsDescriptor ==
  \A c \in Conns : UsesDescriptor(c) =>
    \/ fds[handler[c].fd] = c
    \/ Closing /\ fds[handler[c].fd] = NoConn

(* Every element of tcp_clients_ is the descriptor of a handler that has   *)
(* yet to erase it, or of one about to be started; no dead entries pile up. *)
EntriesHaveHandlers ==
  \A k \in DOMAIN clients :
    \/ \E c \in Conns : handler[c].fd = clients[k] /\ handler[c].pc # "exited"
    \/ listener.pc = "spawn" /\ listener.fd = clients[k]

(* A broadcast that has just ended has left c's chunk with d. *)
BroadcastReached(c, d) == handler[c].chunk \in Room!Got(d)

(* d can still be expected to get a broadcast: nobody has hung up on it.   *)
StillThere(d) == Serving(d) /\ peer[d] \in {"open", "full"} /\ running

(* No other connection has been given d's descriptor number, before or after. *)
Fresh(d) == \A e \in Conns \ {d} : handler[e].fd # handler[d].fd

(* A broadcast reaches every client connected when it began, if the        *)
(* client's descriptor number was not used by an earlier connection.       *)
BroadcastReachesFresh ==
  \A c \in Conns : \A d \in handler[c].audience :
    handler[c].pc = "check" /\ StillThere(d) /\ Fresh(d) => BroadcastReached(c, d)

(* The server implements ChatRoom. *)
ImplementsChatRoom == Room!RoomSpec

-----------------------------------------------------------------------------
(* Liveness, under FairSpec *)

(* From some time on no client leaves unread what is sent to it. *)
AllReadInTheEnd == <>[](\A d \in Conns : peer[d] # "full")

(* A client that has hung up is forgotten: its thread closes the socket    *)
(* and takes it off the list.  A thread may be held up in a broadcast by   *)
(* another client that does not read, but no longer than that.             *)
HungUpIsForgotten ==
  AllReadInTheEnd =>
    \A c \in Conns :
      Serving(c) /\ peer[c] \in {"closed", "reset"}
        ~> handler[c].pc = "exited" \/ process # "up"

(* What a client has sent is read, acknowledged and broadcast before its   *)
(* thread waits for more or leaves, whoever stops reading meanwhile, hangs *)
(* up or connects: unless the server is stopped, the client resets, or     *)
(* somebody never reads again.                                             *)
MessageIsHandled ==
  AllReadInTheEnd =>
    \A c \in {w \in Conns : MaxSent[w] > 0} :
      handler[c].pc # "none" /\ sent[c] > 0 /\ peer[c] # "reset"
        ~> \/ /\ received[c] = sent[c] /\ OK \in Room!Got(c)
              /\ handler[c].pc \notin {"ack", "broadcast", "send"}
           \/ peer[c] = "reset" \/ ~running \/ process # "up"

(* All that wait in the backlog are accepted and get their threads, also   *)
(* if accept failed before for want of a descriptor, once it is never out  *)
(* of them again.                                                          *)
BacklogIsServed ==
  <>[](FreeFds # {}) =>
    []<>((backlog = <<>> /\ listener.conn = NoConn) \/ ~running \/ process # "up")

(* stop() returns if the listener is not blocked in accept, or if another  *)
(* client connects.                                                        *)
StopReturnsUnlessAccepting ==
  main.pc = "join" /\ (listener.pc # "accept" \/ backlog # <<>>) ~> process # "up"

-----------------------------------------------------------------------------
(* What the repository says and the code does not do *)

(* Server.cpp: the thread of a client is detached so that it can work      *)
(* independently; the threads then never access tcp_clients_ in conflict.  *)
ClientsRaceFree == process # "undefined"

(* Server.h: broadcast_tcp sends the message to all connected TCP clients  *)
(* except the sender.                                                      *)
BroadcastReachesAll ==
  \A c \in Conns : \A d \in handler[c].audience :
    handler[c].pc = "check" /\ StillThere(d) => BroadcastReached(c, d)
=============================================================================
