-------------------------- MODULE UdpChatProperties --------------------------
(***************************************************************************)
(* What is required of client and server together, over UDP.               *)
(***************************************************************************)
EXTENDS UdpChat, UdpServerProperties

(* The times the user has been told that a message was delivered. *)
Told == Cardinality({k \in DOMAIN shown : shown[k].as = "delivered"})

Handled == {k \in DOMAIN received : received[k].from = Me /\ received[k].len > 0}

Owed == {k \in SentLines(lines) : lines[k].size > 0}

(* What has come to the client without being an answer on its way to it,   *)
(* and yet reads "OK".                                                     *)
Strays == {k \in DOMAIN arrived : arrived[k] = "ok"}

(* "Message delivered" is shown at most once for every line or copy of a   *)
(* line that the server has received, but for strays that read "OK" too,   *)
(* since receive_messages does not look at who has sent; and what the      *)
(* server has received was reported as sent, or is one copy of such a      *)
(* line: on whatever way lines and answers overtake each other, get lost   *)
(* or are repeated, and whoever else is answered by the server.            *)
ToldOfHandledOnly ==
  /\ Told <= Cardinality(Handled) + Cardinality(Strays)
  /\ Cardinality(Handled) <= Cardinality(Owed) + Cardinality(repeated \cap Owed)

(* Either program sees no more of the other than its own specification     *)
(* allows for: what is shown there of client and server holds here.        *)
ComponentsAsModelled == Spec /\ Chatter!Spec

-----------------------------------------------------------------------------
(* Liveness, under ChatSpec *)

(* The times the user was told so by an answer of the server. *)
Acknowledged ==
  Cardinality({k \in DOMAIN shown : shown[k].as = "delivered" /\ shown[k].chunk = <<"ack">>})

ToBeTold == Cardinality(Owed) + Cardinality(repeated \cap Owed)

(* For every line that send_message reports as sent, and every copy of it  *)
(* that comes to the server, an answer tells the user that it was          *)
(* delivered, whatever strays come in between, unless the network loses    *)
(* something, the line was empty, or one of the programs is stopped or has *)
(* failed.                                                                 *)
ToldInTheEnd ==
  Acknowledged < ToBeTold
    ~> \/ Acknowledged = ToBeTold \/ lost
       \/ main \in {"closeServer", "join", "return"} \/ process # "up"
       \/ clientMain \in {"join", "close", "return"} \/ clientProcess # "up"
=============================================================================
