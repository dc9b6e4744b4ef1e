---------------------------- MODULE ClientProofs ----------------------------
(***************************************************************************)
(* Proofs about the chat client, for every value of the constants: lines   *)
(* of any size, a socket buffer of any size, any other users' messages,    *)
(* and any number of lines typed and of units that arrive.                 *)
(***************************************************************************)
EXTENDS ClientProperties, SequenceLemmas

USE ClientAssumption

(* The steps of send_message. *)
InSend == {"check", "send", "blocked"}

(* A line exists while it is being sent, and no answer is given to it yet; *)
(* a part of it is taken only where send waits.                            *)
LinesOK ==
  main \in InSend =>
    /\ Len(lines) > 0
    /\ main # "blocked" => lines[Len(lines)].taken = 0

(* The receiver thread exists exactly when run() brought the link up, and  *)
(* only then is there anything that sends: is_connected is set nowhere     *)
(* else, and the link never goes back.                                     *)
LinkOK ==
  /\ receiver = "none" <=> link = "down"
  /\ main \in {"configure", "run"} => receiver = "none"
  /\ is_connected \/ main \in {"send", "blocked"} => link # "down"

(* The receiver thread is between its test of sock and recv only as long   *)
(* as sock is open and main has not joined it.                             *)
SocketOK ==
  /\ receiver \in {"setFlags", "recv"} => sock
  /\ main \in {"close", "return"} => receiver \in {"none", "exited"}

ClientInv == TypeOK /\ LinesOK /\ LinkOK /\ SocketOK /\ RefusedLeftNothing

-----------------------------------------------------------------------------
(* send_message *)

Line == [size : Sizes, taken : Nat, result : {"pending", "sent", "refused"}]

(* The parts of a line are counted by naturals. *)
LEMMA LineCounts ==
  ASSUME NEW l \in Line
  PROVE  l.size \in Nat /\ l.taken \in Nat
<1>1. l.size \in Sizes /\ l.taken \in Nat
  BY DEF Line
<1>2. \A x \in Sizes : x \in Nat
  OBVIOUS
<1> QED
  BY <1>1, <1>2

(* What the kernel takes of a line is no more than is left of it, and no   *)
(* more than there is room for.                                            *)
LEMMA FittingFits ==
  ASSUME ClientInv, Len(lines) > 0
  PROVE  Fitting \in Nat /\ Left \in Nat /\ Fitting <= Left /\ queued + Fitting <= SendSpace
<1>1. Len(lines) \in DOMAIN lines /\ lines \in Seq(Line)
  BY DEF ClientInv, TypeOK, Line
<1>2. lines[Len(lines)] \in Line /\ lines[Len(lines)].taken <= lines[Len(lines)].size
  BY <1>1 DEF ClientInv, TypeOK
<1>3. Left \in Nat
  BY <1>2, LineCounts DEF Left
<1> QED
  BY <1>3 DEF Fitting, Smaller, ClientInv, TypeOK

(* A step of send_message changes what the kernel took of the last line,   *)
(* and its result, and no other line.                                      *)
LEMMA SendTakesEffect ==
  ASSUME ClientInv, Len(lines) > 0, NEW n \in Nat, n <= Left, queued + n <= SendSpace,
         NEW result \in {"pending", "sent", "refused"}, SendTakes(n, result)
  PROVE  /\ lines' \in Seq(Line)
         /\ DOMAIN lines' = DOMAIN lines /\ Len(lines') = Len(lines)
         /\ \A k \in DOMAIN lines : k # Len(lines) => lines'[k] = lines[k]
         /\ lines'[Len(lines)] = [size |-> lines[Len(lines)].size,
                                  taken |-> lines[Len(lines)].taken + n,
                                  result |-> result]
         /\ \A k \in DOMAIN lines' : lines'[k].taken <= lines'[k].size
         /\ queued' \in 0 .. SendSpace
<1> DEFINE j == Len(lines)
           l == lines[j]
           m == [size |-> l.size, taken |-> l.taken + n, result |-> result]
<1>1. j \in DOMAIN lines /\ lines \in Seq(Line)
  BY DEF ClientInv, TypeOK, Line
<1>2. l \in Line
  BY <1>1
<1>3. l.size \in Nat /\ l.taken \in Nat
  BY <1>2, LineCounts
<1>4. m \in Line
  BY <1>2 DEF Line
<1>5. lines' = [lines EXCEPT ![j] = m]
  BY DEF SendTakes
<1>6. m.taken <= m.size
  BY <1>3 DEF Left
<1>7. queued' \in 0 .. SendSpace
  <2>1. queued \in 0 .. SendSpace
    BY DEF ClientInv, TypeOK
  <2>2. n \in Nat /\ queued' = queued + n /\ queued + n <= SendSpace
    BY <2>1 DEF SendTakes
  <2> QED
    BY <2>1, <2>2
<1> HIDE DEF m
<1>8. lines' \in Seq(Line) /\ DOMAIN lines' = DOMAIN lines /\ Len(lines') = Len(lines)
  BY <1>1, <1>4, <1>5
<1>9. lines'[j] = m /\ \A k \in DOMAIN lines : k # j => lines'[k] = lines[k]
  BY <1>1, <1>5
<1>10. \A k \in DOMAIN lines' : lines'[k].taken <= lines'[k].size
  BY <1>6, <1>8, <1>9 DEF ClientInv, TypeOK
<1> QED
  BY <1>7, <1>8, <1>9, <1>10 DEF m

(* Whatever a step of send_message returns, the invariant holds after it,  *)
(* when the kernel takes no more than fits, a line refused has nothing     *)
(* taken and a line is not sent over a link that never was.                *)
LEMMA SendTakesInv ==
  ASSUME ClientInv, main \in InSend, NEW n \in Nat, n <= Left, queued + n <= SendSpace,
         NEW result \in {"pending", "sent", "refused"}, SendTakes(n, result),
         result = "refused" => n = 0 /\ lines[Len(lines)].taken = 0,
         result # "refused" => link # "down",
         process' \in {"up", "killed"},
         UNCHANGED <<flags, receiver, link, inbound, arrived, shown>>
  PROVE  ClientInv'
<1>1. Len(lines) > 0
  BY DEF ClientInv, LinesOK
<1>2. /\ lines' \in Seq(Line)
      /\ DOMAIN lines' = DOMAIN lines /\ Len(lines') = Len(lines)
      /\ \A k \in DOMAIN lines : k # Len(lines) => lines'[k] = lines[k]
      /\ lines'[Len(lines)] = [size |-> lines[Len(lines)].size,
                               taken |-> lines[Len(lines)].taken + n,
                               result |-> result]
      /\ \A k \in DOMAIN lines' : lines'[k].taken <= lines'[k].size
      /\ queued' \in 0 .. SendSpace
  BY <1>1, SendTakesEffect
<1>3. main' = IF result = "pending" THEN "blocked" ELSE "input"
  BY DEF SendTakes
<1>4. TypeOK'
  BY <1>2, <1>3 DEF ClientInv, TypeOK, Line, flags
<1>5. LinesOK' /\ LinkOK' /\ SocketOK'
  BY <1>1, <1>2, <1>3 DEF ClientInv, LinesOK, LinkOK, SocketOK, InSend, flags
<1>6. RefusedLeftNothing'
  BY <1>2 DEF ClientInv, RefusedLeftNothing, TypeOK, flags
<1> QED
  BY <1>4, <1>5, <1>6 DEF ClientInv

(* No step of send_message breaks the invariant. *)
LEMMA SendMessageInv ==
  ASSUME ClientInv, process = "up", SendMessage
  PROVE  ClientInv'
<1>1. ASSUME main \in InSend
      PROVE  /\ Len(lines) > 0
             /\ Fitting \in Nat /\ Left \in Nat /\ Fitting <= Left
             /\ queued + Fitting <= SendSpace /\ queued + 0 <= SendSpace
  BY <1>1, FittingFits DEF ClientInv, LinesOK, TypeOK
<1>2. CASE CheckConnected
  <2>1. CASE is_connected /\ sock
    BY <1>2, <2>1 DEF CheckConnected, ClientInv, TypeOK, LinesOK, LinkOK, SocketOK,
                      RefusedLeftNothing, InSend, flags
  <2>2. CASE ~(is_connected /\ sock)
    <3>1. SendTakes(0, "refused") /\ main = "check"
      BY <1>2, <2>2 DEF CheckConnected
    <3>2. lines[Len(lines)].taken = 0
      BY <3>1 DEF ClientInv, LinesOK, InSend
    <3> QED
      BY <1>1, <1>2, <3>1, <3>2, SendTakesInv DEF CheckConnected, InSend
  <2> QED
    BY <2>1, <2>2
<1>3. CASE Send
  <2>1. main = "send" /\ link # "down" /\ lines[Len(lines)].taken = 0
    BY <1>3 DEF Send, SendOr, ClientInv, LinkOK, LinesOK, InSend
  <2>2. PICK result \in {"pending", "sent", "refused"} :
          /\ SendTakes(Fitting, result)
          /\ result = "refused" => Fitting = 0
    BY <1>3 DEF Send, SendOr
  <2> QED
    BY <1>1, <1>3, <2>1, <2>2, SendTakesInv DEF Send, SendOr, InSend
<1>4. CASE SendUnblocked
  <2>1. PICK result \in {"pending", "sent"} : SendTakes(Fitting, result)
    BY <1>4 DEF SendUnblocked
  <2> QED
    BY <1>1, <1>4, <2>1, SendTakesInv DEF SendUnblocked, InSend, ClientInv, LinkOK
<1>5. CASE SendFails
  <2>1. main \in InSend /\ link # "down" /\ process' \in {"up", "killed"}
    BY <1>5 DEF SendFails, InSend
  <2>2. PICK result \in {"sent", "refused"} :
          /\ SendTakes(0, result)
          /\ result = "refused" => ~(lines[Len(lines)].taken > 0)
    BY <1>5 DEF SendFails
  <2>3. lines[Len(lines)].taken \in Nat
    <3>1. lines \in Seq(Line) /\ Len(lines) \in DOMAIN lines
      BY <1>1, <2>1 DEF ClientInv, TypeOK, Line
    <3>2. lines[Len(lines)] \in Line
      BY <3>1
    <3> QED
      BY <3>2 DEF Line
  <2> QED
    BY <1>1, <1>5, <2>1, <2>2, <2>3, SendTakesInv DEF SendFails
<1> QED
  BY <1>2, <1>3, <1>4, <1>5 DEF SendMessage

-----------------------------------------------------------------------------
(* The invariant *)

(* It holds initially: nothing is open, nothing was sent. *)
LEMMA InitClientInv == Init => ClientInv
<1> SUFFICES ASSUME Init PROVE ClientInv
  OBVIOUS
<1>1. TypeOK
  <2>1. lines = <<>> /\ shown = <<>> /\ inbound = <<>> /\ arrived = <<>>
    BY DEF Init
  <2>2. queued \in 0 .. SendSpace
    BY DEF Init
  <2>3. lines \in Seq(Line) /\ DOMAIN lines = {}
    BY <2>1
  <2>4. /\ shown \in Seq([as : {"delivered", "received"}, chunk : Seq(Unit)])
        /\ inbound \in Seq(Unit) /\ arrived \in Seq(Unit)
    BY <2>1
  <2> QED
    BY <2>2, <2>3, <2>4 DEF Init, TypeOK, Line
<1>2. LinesOK /\ LinkOK /\ SocketOK
  BY DEF Init, LinesOK, LinkOK, SocketOK, InSend
<1>3. RefusedLeftNothing
  BY DEF Init, RefusedLeftNothing
<1> QED
  BY <1>1, <1>2, <1>3 DEF ClientInv

(* A step of main outside send_message keeps it. *)
LEMMA MainInv ==
  ASSUME ClientInv, process = "up",
         \/ Configure \/ ConfigureFails \/ RunTCP \/ RunUDP \/ RunFails
         \/ \E size \in Sizes : Type(size)
         \/ Exit \/ Stop
  PROVE  ClientInv'
<1> USE DEF ClientInv, LinesOK, LinkOK, SocketOK, InSend, flags, kernel
<1>1. CASE Configure \/ ConfigureFails
  BY <1>1 DEF Configure, ConfigureFails, TypeOK, RefusedLeftNothing
<1>2. CASE RunTCP \/ RunUDP
  BY <1>2 DEF RunTCP, RunUDP, Started, TypeOK, RefusedLeftNothing
<1>3. CASE RunFails
  BY <1>3 DEF RunFails, TypeOK, RefusedLeftNothing
<1>4. ASSUME NEW size \in Sizes, Type(size)
      PROVE  ClientInv'
  <2> DEFINE l == [size |-> size, taken |-> 0, result |-> "pending"]
  <2>1. l \in Line /\ lines \in Seq(Line)
    BY DEF Line, TypeOK
  <2>2. lines' = Append(lines, l) /\ l.taken = 0 /\ l.size = size /\ l.result = "pending"
    BY <1>4 DEF Type
  <2>3. size \in Nat
    BY <2>1, LineCounts
  <2> HIDE DEF l
  <2>4. /\ lines' \in Seq(Line) /\ Len(lines') > 0 /\ lines'[Len(lines')] = l
        /\ \A k \in DOMAIN lines' : (k \in DOMAIN lines /\ lines'[k] = lines[k]) \/ lines'[k] = l
    BY <2>1, <2>2
  <2>5. TypeOK'
    <3>1. \A k \in DOMAIN lines' : lines'[k].taken <= lines'[k].size
      BY <2>2, <2>3, <2>4 DEF TypeOK
    <3>2. lines' \in Seq([size : Sizes, taken : Nat, result : {"pending", "sent", "refused"}])
      BY <2>4 DEF Line
    <3> QED
      BY <1>4, <3>1, <3>2 DEF Type, TypeOK
  <2>6. RefusedLeftNothing'
    BY <1>4, <2>2, <2>4 DEF Type, RefusedLeftNothing
  <2> QED
    BY <1>4, <2>2, <2>4, <2>5, <2>6 DEF Type
<1>5. CASE Exit
  BY <1>5 DEF Exit, TypeOK, RefusedLeftNothing
<1>6. CASE Stop
  <2>1. CASE Join
    BY <2>1 DEF Join, JoinWhen, TypeOK, RefusedLeftNothing
  <2>2. CASE CloseSock
    BY <2>2 DEF CloseSock, TypeOK, RefusedLeftNothing
  <2>3. CASE Return
    BY <2>3 DEF Return, TypeOK, RefusedLeftNothing
  <2> QED
    BY <1>6, <2>1, <2>2, <2>3 DEF Stop
<1> QED
  BY <1>1, <1>2, <1>3, <1>4, <1>5, <1>6

(* What recv returns is a sequence of units, and so is what it leaves. *)
LEMMA ReceiveShowingType ==
  ASSUME ClientInv, NEW n \in 1 .. Len(inbound), ReceiveShowing(n, n)
  PROVE  /\ SubSeq(inbound, 1, n) \in Seq(Unit)
         /\ inbound' \in Seq(Unit)
         /\ shown' \in Seq([as : {"delivered", "received"}, chunk : Seq(Unit)])
         /\ shown' = Append(shown, shown'[Len(shown')])
         /\ Len(shown') = Len(shown) + 1
         /\ shown'[Len(shown')].chunk = SubSeq(inbound, 1, n)
<1> DEFINE chunk == SubSeq(inbound, 1, n)
           rec == [as |-> IF IsOK(chunk) THEN "delivered" ELSE "received", chunk |-> chunk]
           Shown == [as : {"delivered", "received"}, chunk : Seq(Unit)]
<1>1. chunk \in Seq(Unit) /\ inbound' \in Seq(Unit)
  BY DEF ReceiveShowing, ClientInv, TypeOK
<1>2. shown' = Append(shown, rec)
  BY DEF ReceiveShowing
<1> HIDE DEF chunk
<1>3. rec \in Shown /\ rec.chunk = chunk
  BY <1>1
<1>4. shown \in Seq(Shown)
  BY DEF ClientInv, TypeOK
<1> HIDE DEF rec, Shown
<1>5. shown' \in Seq(Shown) /\ shown'[Len(shown')] = rec /\ Len(shown') = Len(shown) + 1
  BY <1>2, <1>3, <1>4
<1> QED
  BY <1>1, <1>2, <1>3, <1>5 DEF chunk, Shown

(* Either the receiver thread shows some of what has arrived, or it shows  *)
(* and takes nothing. *)
LEMMA ReceiverCases ==
  ASSUME TypeOK, Receiver
  PROVE  \/ \E n \in 1 .. Len(inbound) : ReceiveShowing(n, n)
         \/ ReceiverCheck \/ SetFlags \/ ReceiveNothing \/ ReceiveEnd
<1>1. ASSUME NEW n, Receive(n) PROVE ReceiveShowing(n, n) /\ n \in 1 .. Len(inbound)
  BY <1>1 DEF Receive, ReceiveShowing
<1>2. ASSUME ReceiveDatagram PROVE ReceiveShowing(1, 1) /\ 1 \in 1 .. Len(inbound)
  BY <1>2 DEF ReceiveDatagram, ReceiveShowing
<1> QED
  BY <1>1, <1>2 DEF Receiver

(* A step of the receiver thread keeps the invariant. *)
LEMMA ReceiverInv ==
  ASSUME ClientInv, process = "up", Receiver
  PROVE  ClientInv'
<1> USE DEF ClientInv, LinesOK, LinkOK, SocketOK, InSend, ReceiverGoto
<1>1. ASSUME NEW n \in 1 .. Len(inbound), ReceiveShowing(n, n)
      PROVE  ClientInv'
  <2>1. TypeOK'
    BY <1>1, ReceiveShowingType DEF ReceiveShowing, TypeOK
  <2>2. RefusedLeftNothing'
    BY <1>1 DEF ReceiveShowing, RefusedLeftNothing
  <2> QED
    BY <1>1, <2>1, <2>2 DEF ReceiveShowing
<1>2. CASE ReceiverCheck
  BY <1>2 DEF ReceiverCheck, TypeOK, RefusedLeftNothing
<1>3. CASE SetFlags
  BY <1>3 DEF SetFlags, SetFlagsTo, TypeOK, RefusedLeftNothing
<1>4. CASE ReceiveNothing
  BY <1>4 DEF ReceiveNothing, TypeOK, RefusedLeftNothing
<1>5. CASE ReceiveEnd
  BY <1>5 DEF ReceiveEnd, ReceiveEndAnd, TypeOK, RefusedLeftNothing
<1> QED
  BY <1>1, <1>2, <1>3, <1>4, <1>5, ReceiverCases

(* What the server sends is a unit. *)
LEMMA ServerSendsType ==
  ASSUME TypeOK, ServerSends
  PROVE  \E unit \in Unit : /\ inbound' = inbound \o <<unit>>
                            /\ arrived' = arrived \o <<unit>>
  BY DEF ServerSends, ServerSendsOneOf, Arrive, Unit

(* A step of the server or the network keeps the invariant. *)
LEMMA EnvironmentInv ==
  ASSUME ClientInv, process = "up", Environment
  PROVE  ClientInv'
<1> USE DEF ClientInv, LinesOK, LinkOK, SocketOK, InSend, flags
<1>1. CASE ServerReads
  BY <1>1 DEF ServerReads, TypeOK, RefusedLeftNothing
<1>2. CASE ServerSends
  <2>1. PICK unit \in Unit : inbound' = inbound \o <<unit>> /\ arrived' = arrived \o <<unit>>
    BY <1>2, ServerSendsType
  <2>2. inbound' \in Seq(Unit) /\ arrived' \in Seq(Unit)
    BY <2>1 DEF TypeOK
  <2> QED
    BY <1>2, <2>2 DEF ServerSends, ServerSendsOneOf, TypeOK, RefusedLeftNothing
<1>3. CASE ServerCloses
  BY <1>3 DEF ServerCloses, TypeOK, RefusedLeftNothing
<1>4. CASE ConnectionReset
  BY <1>4 DEF ConnectionReset, TypeOK, RefusedLeftNothing
<1> QED
  BY <1>1, <1>2, <1>3, <1>4 DEF Environment

(* Every step of the client keeps the invariant. *)
LEMMA NextClientInv == ClientInv /\ [Next]_vars => ClientInv'
<1> SUFFICES ASSUME ClientInv, [Next]_vars PROVE ClientInv'
  OBVIOUS
<1>1. CASE UNCHANGED vars
  BY <1>1 DEF vars, flags, kernel, ClientInv, TypeOK, LinesOK, LinkOK, SocketOK,
              RefusedLeftNothing, InSend
<1>2. CASE Next /\ ~UNCHANGED vars
  BY <1>2, MainInv, SendMessageInv, ReceiverInv, EnvironmentInv DEF Next, Ended
<1> QED
  BY <1>1, <1>2

(* The invariant holds in every state: variables have their types, the     *)
(* receiver thread never uses a closed socket, and of a line refused the   *)
(* kernel has nothing. *)
THEOREM ClientInvariant == Spec => []ClientInv
  BY InitClientInv, NextClientInv, PTL DEF Spec

(* Every variable of the client has its type, and no line is taken more    *)
(* than once, however large the lines and the buffer are. *)
THEOREM ClientTypeCorrect == Spec => []TypeOK
<1>1. ClientInv => TypeOK
  BY DEF ClientInv
<1> QED
  BY <1>1, ClientInvariant, PTL

(* stop() closes sock only when the receiver thread has left it. *)
THEOREM ReceiverNeverOutlivesSocket == Spec => []SocketOutlivesReceiver
<1>1. ClientInv => SocketOutlivesReceiver
  BY DEF ClientInv, SocketOK, SocketOutlivesReceiver
<1> QED
  BY <1>1, ClientInvariant, PTL

(* A line that send_message refuses is not sent, not even in part, and     *)
(* none is called sent where no link ever was. *)
THEOREM RefusalIsClean == Spec => []RefusedLeftNothing
<1>1. ClientInv => RefusedLeftNothing
  BY DEF ClientInv
<1> QED
  BY <1>1, ClientInvariant, PTL

-----------------------------------------------------------------------------
(* What is shown *)

(* The chunks shown, in order. *)
Chunks == [k \in DOMAIN shown |-> shown[k].chunk]

(* The chunks are sequences of units. *)
LEMMA ChunksType ==
  ASSUME TypeOK
  PROVE  Chunks \in Seq(Seq(Unit)) /\ Len(Chunks) = Len(shown)
<1> DEFINE R == Seq(Unit)
           Shown == [as : {"delivered", "received"}, chunk : R]
<1>1. shown \in Seq(Shown)
  BY DEF TypeOK
<1> HIDE DEF R
<1>2. ASSUME NEW rec \in Shown PROVE rec.chunk \in R
  OBVIOUS
<1> HIDE DEF Shown
<1>3. \A k \in 1 .. Len(shown) : shown[k].chunk \in R
  BY <1>1, <1>2
<1>4. DOMAIN shown = 1 .. Len(shown) /\ Len(shown) \in Nat
  BY <1>1
<1>5. Chunks \in Seq(R) /\ Len(Chunks) = Len(shown)
  BY <1>3, <1>4 DEF Chunks
<1> QED
  BY <1>5 DEF R

(* What is shown next goes behind what was shown, and is what is no longer *)
(* to be received.                                                         *)
LEMMA ShownNext ==
  ASSUME ClientInv, ShownInOrder, NEW n \in 1 .. Len(inbound), ReceiveShowing(n, n)
  PROVE  ShownInOrder'
<1> DEFINE chunk == SubSeq(inbound, 1, n)
           Shown == [as : {"delivered", "received"}, chunk : Seq(Unit)]
<1>1. /\ chunk \in Seq(Unit) /\ inbound' \in Seq(Unit) /\ shown' \in Seq(Shown)
      /\ shown' = Append(shown, shown'[Len(shown')]) /\ Len(shown') = Len(shown) + 1
      /\ shown'[Len(shown')].chunk = chunk
  BY ReceiveShowingType
<1>2. chunk \o inbound' = inbound
  BY DEF ReceiveShowing, ClientInv, TypeOK
<1> HIDE DEF chunk
<1>3. TypeOK
  BY DEF ClientInv
<1>4. Chunks \in Seq(Seq(Unit)) /\ Len(Chunks) = Len(shown)
  BY <1>3, ChunksType
<1>5. Chunks' = Append(Chunks, chunk)
  <2>1. shown \in Seq(Shown)
    BY <1>3 DEF TypeOK
  <2> HIDE DEF Shown
  <2>2. DOMAIN shown' = 1 .. Len(shown) + 1 /\ \A k \in DOMAIN shown : shown'[k] = shown[k]
    BY <1>1, <2>1
  <2>3. Chunks' = [k \in 1 .. Len(shown) + 1 |-> shown'[k].chunk]
    BY <2>2 DEF Chunks
  <2>4. Append(Chunks, chunk) = [k \in 1 .. Len(shown) + 1 |->
                                   IF k = Len(shown) + 1 THEN chunk ELSE Chunks[k]]
    <3> DEFINE R == Seq(Unit)
    <3>1. Chunks \in Seq(R) /\ Len(Chunks) = Len(shown) /\ chunk \in R
      BY <1>1, <1>4
    <3> HIDE DEF R
    <3> QED
      BY <3>1, AppendIsFunction
  <2>5. \A k \in 1 .. Len(shown) + 1 :
          shown'[k].chunk = IF k = Len(shown) + 1 THEN chunk ELSE Chunks[k]
    BY SMTT(30), <1>1, <2>1, <2>2 DEF Chunks
  <2> QED
    BY <2>3, <2>4, <2>5
<1>6. FlattenSeq(Append(Chunks, chunk)) = FlattenSeq(Chunks) \o chunk
  BY <1>1, <1>4, FlattenAppend
<1>7. FlattenSeq(Chunks) \in Seq(Unit)
  BY <1>4, FlattenType
<1>8. FlattenSeq(Chunks) \o inbound = arrived
  BY DEF ShownInOrder, Chunks
<1>9. (FlattenSeq(Chunks) \o chunk) \o inbound' = FlattenSeq(Chunks) \o (chunk \o inbound')
  BY <1>1, <1>7, SMTT(30)
<1>10. arrived' = arrived
  BY DEF ReceiveShowing, ReceiverGoto
<1>11. FlattenSeq(Chunks') \o inbound' = arrived'
  BY <1>2, <1>5, <1>6, <1>8, <1>9, <1>10
<1> QED
  BY <1>11 DEF ShownInOrder, Chunks

(* Every step of the client keeps what is shown in order. *)
LEMMA NextShownInOrder == ClientInv /\ ShownInOrder /\ [Next]_vars => ShownInOrder'
<1> SUFFICES ASSUME ClientInv, ShownInOrder, [Next]_vars PROVE ShownInOrder'
  OBVIOUS
<1>1. ASSUME UNCHANGED <<shown, inbound, arrived>> PROVE ShownInOrder'
  BY <1>1 DEF ShownInOrder
<1>2. CASE Receiver
  BY <1>1, <1>2, ReceiverCases, ShownNext DEF ClientInv, ReceiverCheck, SetFlags, SetFlagsTo,
       ReceiveNothing, ReceiveEnd, ReceiveEndAnd, ReceiverGoto
<1>3. CASE ServerSends
  <2>1. PICK unit \in Unit : inbound' = inbound \o <<unit>> /\ arrived' = arrived \o <<unit>>
    BY <1>3, ServerSendsType DEF ClientInv
  <2>2. shown' = shown
    BY <1>3 DEF ServerSends, ServerSendsOneOf
  <2>3. inbound \in Seq(Unit) /\ <<unit>> \in Seq(Unit) /\ FlattenSeq(Chunks) \in Seq(Unit)
    BY ChunksType, FlattenType DEF ClientInv, TypeOK
  <2>4. FlattenSeq(Chunks) \o (inbound \o <<unit>>) = (FlattenSeq(Chunks) \o inbound) \o <<unit>>
    BY <2>3
  <2>5. FlattenSeq(Chunks) \o inbound = arrived
    BY DEF ShownInOrder, Chunks
  <2>6. FlattenSeq(Chunks) \o inbound' = arrived'
    BY <2>1, <2>4, <2>5
  <2> QED
    BY <2>2, <2>6 DEF ShownInOrder, Chunks
<1>4. CASE ~Receiver /\ ~ServerSends
  BY <1>1, <1>4 DEF Next, Ended, vars, kernel, Configure, ConfigureFails, RunTCP, RunUDP,
       Started, RunFails, Type, SendMessage, CheckConnected, Send, SendOr, SendUnblocked,
       SendFails, Exit, Stop, Join, JoinWhen, CloseSock, Return, Environment, ServerReads,
       ServerCloses, ConnectionReset
<1> QED
  BY <1>2, <1>3, <1>4

(* Whatever the chunks in which it is received, all that arrived is shown  *)
(* once and in order, or is still to be received. *)
THEOREM AllIsShownInOrder == Spec => []ShownInOrder
<1>1. Init => ShownInOrder
  BY DEF Init, ShownInOrder, FlattenSeq
<1> QED
  BY <1>1, InitClientInv, NextClientInv, NextShownInOrder, PTL DEF Spec
=============================================================================
