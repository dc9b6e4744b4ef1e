-------------------------------- MODULE UdpChat --------------------------------
(***************************************************************************)
(* The chat client and the chat server over UDP, on a network that may     *)
(* lose, repeat and reorder their datagrams, among those of other senders, *)
(* which reach the server and the client alike: both take what comes to    *)
(* their ports from anybody.                                               *)
(***************************************************************************)
EXTENDS UdpServer, FiniteSets

CONSTANTS
  Me,          \* the client's address
  Sizes,       \* sizes of the lines its user types
  SendSpace,   \* what its socket buffers
  MaxLines,    \* bound: lines typed
  MaxRepeated, \* bound: lines of which the network makes a copy
  OtherSizes,  \* bound: sizes of datagrams that others send to the server
  MaxOthers,   \* bound: number of these
  MaxStrays    \* bound: datagrams that come to the client and are none of
               \* the answers on their way to it

(* What such a stray datagram reads: "OK", or any other text.  Over UDP    *)
(* the server forwards nobody's messages.                                  *)
PeerTexts == {"ok", "text"}
MaxArrived == MaxLines + MaxRepeated + MaxStrays

ASSUME UdpChatAssumption ==
  /\ Me \in Addrs
  /\ SendSpace \in Nat \ {0} /\ Sizes \subseteq 0 .. SendSpace
  /\ MaxLines \in Nat /\ MaxRepeated \in Nat
  /\ MaxOthers \in Nat /\ MaxStrays \in Nat
  /\ MaxReceived = MaxLines + MaxRepeated + MaxOthers

VARIABLES
  clientProcess, protocol, is_connected, clientRunning, sock, nonblocking, clientMain,
  receiver, lines, link, queued, inbound, arrived, shown,
  outward,     \* the network: lines on their way to the server
  homeward,    \* answers on their way to the client, by their number
  lost,        \* history: whether the network has lost anything
  repeated     \* history: the lines of which the network has made a copy

serverVars == <<process, running, server, main, listening, queue>>
clientVars == <<clientProcess, protocol, is_connected, clientRunning, sock, nonblocking,
                clientMain, receiver, lines, link, queued, inbound, arrived, shown>>
chatVars == <<serverVars, clientVars, outward, homeward, lost, repeated>>

Chatter == INSTANCE Client
  WITH process <- clientProcess, running <- clientRunning, main <- clientMain

ChatInit ==
  /\ Init /\ Chatter!Init
  /\ outward = {} /\ homeward = {} /\ lost = FALSE /\ repeated = {}

-----------------------------------------------------------------------------
(* The two programs.  What they send is on its way at once. *)

ServerStep ==
  /\ process = "up"
  /\ Start \/ Listener \/ Command \/ Stop
  /\ homeward' = homeward \cup
       {k \in Len(replies) + 1 .. Len(replies') : replies'[k].to = Me}
  /\ UNCHANGED <<clientVars, outward, lost, repeated>>

SentLines(typed) == {k \in DOMAIN typed : typed[k].result = "sent"}

(* The client's user has chosen UDP. *)
ClientStart ==
  \/ Chatter!Configure /\ protocol' = "UDP"
  \/ Chatter!ConfigureFails \/ Chatter!RunUDP \/ Chatter!RunFails

ClientMainStep ==
  \/ ClientStart \/ Chatter!SendMessage \/ Chatter!Exit \/ Chatter!Stop
  \/ \E size \in Sizes : Chatter!Type(size)

ClientStep ==
  /\ clientProcess = "up"
  /\ ClientMainStep \/ Chatter!Receiver
  /\ outward' = outward \cup (SentLines(lines') \ SentLines(lines))
  /\ UNCHANGED <<serverVars, homeward, lost, repeated>>

-----------------------------------------------------------------------------
(* The network *)

(* A line leaves the buffer of its sender and gets to the server, or not;  *)
(* nobody looks at the buffer of a process that has ended.                 *)
LineLeaves(k) ==
  /\ k \in outward
  /\ outward' = outward \ {k}
  /\ queued' = IF clientProcess = "up" THEN queued - lines[k].size ELSE queued
  /\ UNCHANGED <<process, running, server, main, listening, clientProcess, protocol,
                 is_connected, clientRunning, sock, nonblocking, clientMain, receiver, lines,
                 link, inbound, arrived, shown, homeward, repeated>>

(* The server's socket is bound and has room for it. *)
LineIsQueued(k) ==
  /\ Bound /\ Len(queue) < QueueSize
  /\ queue' = Append(queue, [from |-> Me, len |-> Length(lines[k].size)])

LineArrives(k) ==
  /\ LineLeaves(k) /\ LineIsQueued(k)
  /\ UNCHANGED lost

LineIsLost(k) ==
  /\ LineLeaves(k)
  /\ lost' = TRUE
  /\ UNCHANGED queue

AnswerLeaves(k) ==
  /\ k \in homeward
  /\ homeward' = homeward \ {k}
  /\ UNCHANGED <<serverVars, clientProcess, protocol, is_connected, clientRunning, sock,
                 nonblocking, clientMain, receiver, lines, link, queued, shown, outward,
                 repeated>>

AnswerArrives(k) ==
  /\ AnswerLeaves(k)
  /\ clientProcess = "up"
  /\ Chatter!Arrive(<<"ack">>)
  /\ UNCHANGED lost

AnswerIsLost(k) ==
  /\ AnswerLeaves(k)
  /\ lost' = TRUE
  /\ UNCHANGED <<inbound, arrived>>

Delivery ==
  \/ \E k \in outward : LineArrives(k)
  \/ \E k \in homeward : AnswerArrives(k)

Loss ==
  \/ \E k \in outward : LineIsLost(k)
  \/ \E k \in homeward : AnswerIsLost(k)

(* A copy of a line gets to the server, before the line, after it, or in   *)
(* its place.                                                              *)
Repeat(k) ==
  /\ k \in SentLines(lines) \ repeated /\ Cardinality(repeated) < MaxRepeated
  /\ LineIsQueued(k)
  /\ repeated' = repeated \cup {k}
  /\ UNCHANGED <<process, running, server, main, listening, clientVars, outward, homeward, lost>>

FromOthers(datagrams) == {k \in DOMAIN datagrams : datagrams[k].from # Me}

OthersSend ==
  /\ Cardinality(FromOthers(received \o queue)) < MaxOthers
  /\ Arrive
  /\ queue'[Len(queue')].from # Me /\ queue'[Len(queue')].len \in OtherSizes
  /\ UNCHANGED <<clientVars, outward, homeward, lost, repeated>>

(* The client gets a datagram that is none of the answers on their way to  *)
(* it: another sender's, an answer to a client that had the port before,   *)
(* or a copy that the network has made of an answer.                       *)
StrayArrives ==
  /\ link = "up"
  /\ Cardinality({k \in DOMAIN arrived : arrived[k] \in PeerTexts}) < MaxStrays
  /\ \E text \in PeerTexts : Chatter!Arrive(<<text>>)
  /\ UNCHANGED <<serverVars, clientProcess, protocol, is_connected, clientRunning, sock,
                 nonblocking, clientMain, receiver, lines, link, queued, shown,
                 outward, homeward, lost, repeated>>

-----------------------------------------------------------------------------
Over == process # "up" /\ clientProcess # "up" /\ UNCHANGED chatVars

ChatNext ==
  \/ ServerStep \/ ClientStep \/ Delivery \/ Loss
  \/ process = "up" /\ (OthersSend \/ \E k \in SentLines(lines) : Repeat(k))
  \/ clientProcess = "up" /\ StrayArrives
  \/ Over

(* Both threads of both programs are run, and what is not lost arrives. *)
ChatFairness ==
  /\ WF_chatVars(ServerStep /\ (Start \/ Stop))
  /\ WF_chatVars(ServerStep /\ Listener)
  /\ WF_chatVars(ClientStep /\ (Chatter!SendMessage \/ Chatter!Stop))
  /\ WF_chatVars(ClientStep /\ Chatter!Receiver)
  /\ WF_chatVars(Delivery)

ChatSpec == ChatInit /\ [][ChatNext]_chatVars /\ ChatFairness
=============================================================================
