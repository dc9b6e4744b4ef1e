-------------------------- MODULE ClientProperties --------------------------
(***************************************************************************)
(* What is required of the chat client.                                    *)
(***************************************************************************)
EXTENDS Client, SequencesExt

Unit == {"ack", "ok", "text"}

(* Every variable of the client has its type; no line is taken more than   *)
(* once, in however many parts the kernel takes it.                        *)
TypeOK ==
  /\ process \in {"up", "returned", "failed", "killed"}
  /\ protocol \in {"TCP", "UDP", "other"}
  /\ is_connected \in BOOLEAN /\ running \in BOOLEAN
  /\ sock \in BOOLEAN /\ nonblocking \in BOOLEAN
  /\ main \in {"configure", "run", "input", "check", "send", "blocked", "join", "close", "return"}
  /\ receiver \in {"none", "check", "setFlags", "recv", "exited"}
  /\ lines \in Seq([size : Sizes, taken : Nat, result : {"pending", "sent", "refused"}])
  /\ \A k \in DOMAIN lines : lines[k].taken <= lines[k].size
  /\ link \in {"down", "up", "closed", "reset"}
  /\ queued \in 0 .. SendSpace
  /\ inbound \in Seq(Unit) /\ arrived \in Seq(Unit)
  /\ shown \in Seq([as : {"delivered", "received"}, chunk : Seq(Unit)])

(* stop() closes sock only when the receiver thread, which uses it between *)
(* its test and recv without looking again, has finished.                  *)
SocketOutlivesReceiver == receiver \in {"setFlags", "recv"} => sock

(* receive_messages shows all that has arrived, once and in order, in      *)
(* whatever chunks it comes and whenever the connection ends.              *)
ShownInOrder ==
  FlattenSeq([k \in DOMAIN shown |-> shown[k].chunk]) \o inbound = arrived

(* A line that send_message refuses is not sent, not even in part, though  *)
(* the receiver thread makes the socket non-blocking at any moment and the *)
(* connection may break while send waits.  Main goes on after missing      *)
(* arguments, an unknown protocol or a connect that failed, and takes      *)
(* lines; of none of these it is told that it was sent.                    *)
RefusedLeftNothing ==
  \A k \in DOMAIN lines :
    /\ lines[k].result = "refused" => lines[k].taken = 0
    /\ lines[k].result = "sent" => link # "down"

-----------------------------------------------------------------------------
(* Liveness, under FairSpec *)

(* stop() returns however silent the server is: the receiver thread is     *)
(* never stuck in recv when main joins it.                                 *)
StopReturns == main = "join" ~> process # "up"

(* When the server has gone, is_connected says so sooner or later, unless  *)
(* a send ended the process before.                                        *)
LossIsNoticed == link \in {"closed", "reset"} ~> ~is_connected \/ process = "killed"

-----------------------------------------------------------------------------
(* What the repository says and the code does not do *)

(* Client.h: send_message returns true if the sending was successful; then *)
(* the kernel has taken the whole line.                                    *)
SentWhole ==
  \A k \in DOMAIN lines : lines[k].result = "sent" => lines[k].taken = lines[k].size
=============================================================================
