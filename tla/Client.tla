------------------------------- MODULE Client -------------------------------
(***************************************************************************)
(* The chat client (Client.cpp, main.cpp), over TCP or UDP: the main       *)
(* thread sends the lines the user types, the receiver thread polls the    *)
(* socket, which it has made non-blocking, and shows what arrives.         *)
(*                                                                         *)
(* What arrives is cut into units that TCP delivers whole: an              *)
(* acknowledgement, a message that reads "OK", a part of any other         *)
(* message.  What is sent is counted in parts of a line.                   *)
(*                                                                         *)
(* The user, the server and the kernel are external.  The race of the two  *)
(* threads on the plain bool is_connected is benign in the compiled        *)
(* program: it is read again in every turn of either loop.                 *)
(***************************************************************************)
EXTENDS Integers, Sequences

CONSTANTS
  Sizes,       \* sizes of the lines the user types, in parts
  SendSpace,   \* parts the socket buffers ahead of the server
  PeerTexts,   \* units other users' messages consist of
  MaxLines,    \* bound: lines typed
  MaxArrived   \* bound: units that arrive

ASSUME ClientAssumption ==
  /\ SendSpace \in Nat \ {0}
  /\ Sizes \subseteq 0 .. SendSpace      \* a datagram must fit the buffer
  /\ PeerTexts \subseteq {"ok", "text"}
  /\ MaxLines \in Nat /\ MaxArrived \in Nat

VARIABLES
  process,       \* "up", "returned", "failed" to start, or "killed" by SIGPIPE
  protocol,      \* "TCP", "UDP", or any other value left in the member
  is_connected,
  running,
  sock,          \* whether sock is an open descriptor
  nonblocking,   \* O_NONBLOCK of the socket
  main,          \* main: pc
  receiver,      \* receiver thread: pc
  lines,         \* history: size of each line typed, parts of it that the
                 \* kernel took, what send_message has returned
  link,          \* kernel: "down", "up", "closed" by the server, "reset"
  queued,        \* kernel: parts taken and not yet read by the server
  inbound,       \* kernel: units arrived and not yet received
  arrived,       \* history: all units that arrived
  shown          \* history: the chunks shown, and what they were shown as

flags == <<protocol, is_connected, running, sock, nonblocking>>
kernel == <<link, queued, inbound, arrived>>
vars == <<process, flags, main, receiver, lines, kernel, shown>>

Smaller(a, b) == IF a < b THEN a ELSE b

Init ==
  /\ process = "up"
  /\ protocol = "other"          \* not initialised by the constructor
  /\ is_connected = FALSE /\ running = FALSE
  /\ sock = FALSE /\ nonblocking = FALSE
  /\ main = "configure" /\ receiver = "none"
  /\ lines = <<>> /\ shown = <<>>
  /\ link = "down" /\ queued = 0 /\ inbound = <<>> /\ arrived = <<>>

-----------------------------------------------------------------------------
(* main: configuration and run() *)

(* loadArgs or load_config.  When arguments are missing an error is        *)
(* printed, and main goes on with whatever the member protocol holds.      *)
Configure ==
  /\ main = "configure"
  /\ \E complete \in BOOLEAN :
       protocol' \in IF complete THEN {"TCP", "UDP"} ELSE {"TCP", "UDP", "other"}
  /\ main' = "run"
  /\ UNCHANGED <<process, is_connected, running, sock, nonblocking, receiver, lines, kernel, shown>>

(* A wrong choice, an unreadable file, a missing key, a protocol or a port *)
(* that does not parse: main returns or an exception ends the process.     *)
ConfigureFails ==
  /\ main = "configure"
  /\ process' = "failed"
  /\ UNCHANGED <<flags, main, receiver, lines, kernel, shown>>

Started ==
  /\ main = "run"
  /\ sock' = TRUE /\ is_connected' = TRUE /\ running' = TRUE
  /\ receiver' = "check" /\ link' = "up"
  /\ main' = "input"
  /\ UNCHANGED <<process, protocol, nonblocking, lines, queued, inbound, arrived, shown>>

(* A socket is connected, or bound to the client's port, and the receiver  *)
(* thread started.                                                         *)
RunTCP == protocol = "TCP" /\ Started
RunUDP == protocol = "UDP" /\ Started

(* socket, connect or bind fails, or the protocol is unknown: an error is  *)
(* printed, and main goes on.                                              *)
RunFails ==
  /\ main = "run"
  /\ sock' \in IF protocol = "other" THEN {FALSE} ELSE BOOLEAN
  /\ main' = "input"
  /\ UNCHANGED <<process, protocol, is_connected, running, nonblocking, receiver, lines, kernel, shown>>

-----------------------------------------------------------------------------
(* main: the loop over the user's lines, send_message *)

Type(size) ==
  /\ main = "input" /\ Len(lines) < MaxLines
  /\ lines' = Append(lines, [size |-> size, taken |-> 0, result |-> "pending"])
  /\ main' = "check"
  /\ UNCHANGED <<process, flags, receiver, kernel, shown>>

(* send_message comes back having handed n more parts to the kernel, or    *)
(* waits in send for room.                                                 *)
SendTakes(n, result) ==
  /\ queued' = queued + n
  /\ lines' = [lines EXCEPT ![Len(lines)] =
                 [size |-> @.size, taken |-> @.taken + n, result |-> result]]
  /\ main' = IF result = "pending" THEN "blocked" ELSE "input"

CheckConnected ==
  /\ main = "check"
  /\ IF is_connected /\ sock
       THEN main' = "send" /\ UNCHANGED <<queued, lines>>
       ELSE SendTakes(0, "refused")
  /\ UNCHANGED <<process, flags, receiver, link, inbound, arrived, shown>>

(* A variant with a mistake: a send that has waited begins the line anew. *)
LeftWhole == lines[Len(lines)].size

Left == lines[Len(lines)].size - lines[Len(lines)].taken

(* What of the line the socket has room for; a datagram is taken whole. *)
Fitting ==
  LET room == SendSpace - queued IN
  IF protocol = "TCP" THEN Smaller(Left, room) ELSE IF Left <= room THEN Left ELSE 0

SendOr(partialResult) ==
  /\ main = "send" /\ link # "reset"
  /\ IF Fitting = Left THEN SendTakes(Fitting, "sent")
     ELSE IF ~nonblocking THEN SendTakes(Fitting, "pending")
     ELSE SendTakes(Fitting, partialResult)
  /\ UNCHANGED <<process, flags, receiver, link, inbound, arrived, shown>>

(* A variant with a mistake: a part taken is no success. *)
SendOrRefuse == SendOr("refused")

(* send or sendto: whatever is not an error is success. *)
Send == SendOr(IF Fitting = 0 THEN "refused" ELSE "sent")

(* A send that waits for room does not look at O_NONBLOCK again. *)
SendUnblocked ==
  /\ main = "blocked" /\ link # "reset" /\ Fitting > 0
  /\ SendTakes(Fitting, IF Fitting = Left THEN "sent" ELSE "pending")
  /\ UNCHANGED <<process, flags, receiver, link, inbound, arrived, shown>>

(* send on a connection that was reset returns what it took before, or     *)
(* fails, or raises SIGPIPE.                                               *)
SendFails ==
  /\ main \in {"send", "blocked"} /\ link = "reset"
  /\ IF lines[Len(lines)].taken > 0
       THEN SendTakes(0, "sent") /\ UNCHANGED process
       ELSE SendTakes(0, "refused") /\ process' \in {"up", "killed"}
  /\ UNCHANGED <<flags, receiver, link, inbound, arrived, shown>>

SendMessage == CheckConnected \/ Send \/ SendUnblocked \/ SendFails

-----------------------------------------------------------------------------
(* receive_messages *)

ReceiverGoto(label) ==
  /\ receiver' = label
  /\ UNCHANGED <<process, protocol, running, sock, main, lines, link, queued, arrived>>

ReceiverCheck ==
  /\ receiver = "check"
  /\ ReceiverGoto(IF ~running THEN "exited"
                  ELSE IF is_connected /\ sock THEN "setFlags" ELSE "check")
  /\ UNCHANGED <<is_connected, nonblocking, inbound, shown>>

SetFlagsTo(flag) ==
  /\ receiver = "setFlags"
  /\ nonblocking' = flag
  /\ ReceiverGoto("recv")
  /\ UNCHANGED <<is_connected, inbound, shown>>

(* A variant with a mistake: the socket stays as it is. *)
SetFlagsNot == SetFlagsTo(nonblocking)

SetFlags == SetFlagsTo(TRUE)

(* A variant with a mistake: the '\n' of a line is expected behind it. *)
IsOKLine(chunk) == FALSE

(* The chunk is exactly the two characters "OK". *)
IsOK(chunk) == chunk \in {<<"ack">>, <<"ok">>}

(* recv returns the first n units, the thread shows the first m of them. *)
ReceiveShowing(n, m) ==
  /\ receiver = "recv" /\ n \in 1 .. Len(inbound)
  /\ LET chunk == SubSeq(inbound, 1, m) IN
       shown' = Append(shown, [as |-> IF IsOK(chunk) THEN "delivered" ELSE "received",
                               chunk |-> chunk])
  /\ inbound' = SubSeq(inbound, n + 1, Len(inbound))
  /\ ReceiverGoto("check")
  /\ UNCHANGED <<is_connected, nonblocking>>

(* A variant with a mistake: one unit is taken for the whole chunk. *)
ReceiveFirst(n) == protocol = "TCP" /\ ReceiveShowing(n, 1)

(* recv returns some of what has arrived. *)
Receive(n) == protocol = "TCP" /\ ReceiveShowing(n, n)

(* recvfrom returns one datagram. *)
ReceiveDatagram == protocol = "UDP" /\ ReceiveShowing(1, 1)

(* Nothing has arrived: EAGAIN. *)
ReceiveNothing ==
  /\ receiver = "recv" /\ inbound = <<>> /\ link = "up" /\ nonblocking
  /\ ReceiverGoto("check")
  /\ UNCHANGED <<is_connected, nonblocking, inbound, shown>>

ReceiveEndAnd(connected) ==
  /\ receiver = "recv" /\ inbound = <<>> /\ link # "up"
  /\ is_connected' = connected
  /\ ReceiverGoto("exited")
  /\ UNCHANGED <<nonblocking, inbound, shown>>

(* A variant with a mistake: the thread leaves and tells nobody. *)
ReceiveEndSilently == ReceiveEndAnd(is_connected)

(* recv returns 0 or an error: the thread leaves for good. *)
ReceiveEnd == ReceiveEndAnd(FALSE)

Receiver ==
  \/ ReceiverCheck \/ SetFlags
  \/ \E n \in 1 .. MaxArrived : Receive(n)
  \/ ReceiveDatagram \/ ReceiveNothing \/ ReceiveEnd

-----------------------------------------------------------------------------
(* main: "exit" or the end of input, stop(), and the destructor, whose     *)
(* stop() finds nothing left to do.                                        *)

Exit ==
  /\ main = "input"
  /\ running' = FALSE
  /\ main' = "join"
  /\ UNCHANGED <<process, protocol, is_connected, sock, nonblocking, receiver, lines, kernel, shown>>

JoinWhen(joined) ==
  /\ main = "join" /\ joined
  /\ main' = "close"
  /\ UNCHANGED <<process, flags, receiver, lines, kernel, shown>>

(* A variant with a mistake: the receiver is not waited for. *)
JoinNot == JoinWhen(TRUE)

Join == JoinWhen(receiver \in {"none", "exited"})

CloseSock ==
  /\ main = "close"
  /\ sock' = FALSE /\ is_connected' = FALSE
  /\ main' = "return"
  /\ UNCHANGED <<process, protocol, running, nonblocking, receiver, lines, kernel, shown>>

Return ==
  /\ main = "return"
  /\ process' = "returned"
  /\ UNCHANGED <<flags, main, receiver, lines, kernel, shown>>

Stop == Join \/ CloseSock \/ Return

-----------------------------------------------------------------------------
(* The server and the network *)

Arrive(units) ==
  /\ inbound' = inbound \o units
  /\ arrived' = arrived \o units

(* The server reads what is there, or some of it; UDP may also lose it. *)
ServerReads ==
  /\ link = "up"
  /\ \E n \in 1 .. queued : queued' = queued - n
  /\ UNCHANGED <<process, flags, main, receiver, lines, link, inbound, arrived, shown>>

ServerSendsOneOf(units) ==
  /\ link = "up" /\ Len(arrived) < MaxArrived
  /\ \E unit \in units : Arrive(<<unit>>)
  /\ UNCHANGED <<process, flags, main, receiver, lines, link, queued, shown>>

(* A variant with a mistake: no acknowledgements are expected. *)
ServerSendsTexts == ServerSendsOneOf(PeerTexts)

(* An "OK" for something that was read, or another user's message, sooner  *)
(* or later; over UDP anybody's datagram, since the sender is not looked   *)
(* at.                                                                     *)
ServerSends == ServerSendsOneOf({"ack"} \cup PeerTexts)

(* The server closes the connection; what it has not read resets it, as    *)
(* does what is sent to it afterwards.                                     *)
ServerCloses ==
  /\ protocol = "TCP" /\ link = "up"
  /\ link' \in {"closed", "reset"}
  /\ UNCHANGED <<process, flags, main, receiver, lines, queued, inbound, arrived, shown>>

ConnectionReset ==
  /\ link = "closed" /\ queued > 0
  /\ link' = "reset"
  /\ UNCHANGED <<process, flags, main, receiver, lines, queued, inbound, arrived, shown>>

Environment == ServerReads \/ ServerSends \/ ServerCloses \/ ConnectionReset

-----------------------------------------------------------------------------
Ended == process # "up" /\ UNCHANGED vars

Next ==
  \/ /\ process = "up"
     /\ \/ Configure \/ ConfigureFails \/ RunTCP \/ RunUDP \/ RunFails
        \/ \E size \in Sizes : Type(size)
        \/ SendMessage \/ Exit \/ Stop \/ Receiver \/ Environment
  \/ Ended

Spec == Init /\ [][Next]_vars

(* The operating system runs both threads.  Nothing is assumed of the user *)
(* or the server, nor that a send that waits for room ever gets it.        *)
Fairness ==
  /\ WF_vars(process = "up" /\ Receiver)
  /\ WF_vars(process = "up" /\ SendMessage)
  /\ WF_vars(process = "up" /\ Stop)

FairSpec == Spec /\ Fairness
=============================================================================
