--------------------------- MODULE StartupProperties ---------------------------
(***************************************************************************)
(* What is required of the start of the programs.                          *)
(***************************************************************************)
EXTENDS Startup

-----------------------------------------------------------------------------
(* The configuration *)

(* What the whole file says of a key: the value of its last line, where an *)
(* empty value of the chat programs is none.                               *)
Says(key) ==
  LET told == {k \in DOMAIN file :
                 /\ file[k].key = key /\ file[k].delimiter /\ ~file[k].comment
                 /\ file[k].value = Word("") => program = "switch"}
  IN IF told = {} THEN Word("absent")
     ELSE file[CHOOSE k \in told : \A j \in told : j <= k].value

ValidPort(text) == text.word = "number" /\ text.n \in 1 .. PortBase - 1

(* A program that starts runs with what its file says last, line for line  *)
(* and whatever else is in the file; the chat server never on port 0,      *)
(* which would mean any port, whatever number it was narrowed from.        *)
StartsAsFileSays ==
  outcome = "started" =>
    IF program = "switch"
      THEN values.is_active <=> Says("enabled") \in {Word("true"), Number(1)}
      ELSE /\ values.protocol = Says("protocol").word
           /\ values.port \in 0 .. PortBase - 1
           /\ ValidPort(Says("port")) => values.port = Says("port").n
           /\ program = "server" => values.port # 0

-----------------------------------------------------------------------------
(* The dialogue of the switch *)

(* The names of the interfaces of the host. *)
InterfaceNames == {addresses[k].name : k \in {j \in DOMAIN addresses : addresses[j].packet}}

(* A switch that starts ages its table with the lifetime that was typed:   *)
(* after an input that is no int, cin reads no names, so that a lifetime   *)
(* that was made up or never assigned does not get that far.  It has a     *)
(* port, and its ports are, in the order typed, the names that are         *)
(* interfaces of the host and could be opened: the port numbers of the     *)
(* table are positions in this list.                                       *)
SwitchStartsAsTyped ==
  program = "switch" /\ outcome = "started" =>
    /\ typed.lifetime = Number(lifetime)
    /\ handles # <<>>
    /\ handles = Among(typed.names, InterfaceNames \cap openable)

-----------------------------------------------------------------------------
(* The monitor *)

(* However the monitor gets out of its main, it has released what it       *)
(* acquired; while it watches it holds its handle and nothing else.        *)
MonitorReleasesAll ==
  /\ step \in {"failed", "returned"} => held = {}
  /\ step = "loop" => held = {"handle"}

(* The monitor opens the interface it was told, or the one the number      *)
(* typed stands for in its list; it walks off the list only for a number   *)
(* that stands for none.                                                   *)
MonitorOpensChoice ==
  LET listed == number.word = "number" /\ number.n \in DOMAIN devices
  IN /\ opened # NoName /\ argument # NoName => opened = argument
     /\ opened # NoName /\ argument = NoName /\ listed => opened = devices[number.n]
     /\ step = "undefined" => argument = NoName /\ ~listed
=============================================================================
