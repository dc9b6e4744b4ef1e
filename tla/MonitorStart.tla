----------------------------- MODULE MonitorStart -----------------------------
(***************************************************************************)
(* The main of the monitor (monitoring_main.cpp): which interface it       *)
(* opens, and what it holds of libpcap's resources until it ends.          *)
(***************************************************************************)
EXTENDS Input, Sequences

CONSTANTS
  Names,      \* names of interfaces
  NoName      \* not a name

VARIABLES
  devices,    \* the list pcap_findalldevs gives
  argument,   \* argv[1], or NoName
  number,     \* the text that is typed
  inum,       \* the variable, once it has been read
  opened,     \* the interface of handle
  held,       \* which of alldevs ("list"), handle ("handle") and fp ("program")
              \* are still to be released
  step        \* where main is; "failed" and "returned" are its ends, "undefined"
              \* a use of what is not there

(* The variables of a monitor that is about to run in the given environment. *)
MonitorInit ==
  /\ inum = 0 /\ opened = NoName /\ held = {} /\ step = "find"

FindDevices ==
  /\ step = "find"
  /\ \/ step' = "failed" /\ UNCHANGED held
     \/ IF devices = <<>> THEN step' = "failed" /\ UNCHANGED held
        ELSE step' = "choose" /\ held' = {"list"}
  /\ UNCHANGED <<devices, argument, number, inum, opened>>

(* Reading the number, which no test keeps within the list. *)
AskNumber ==
  /\ step = "choose" /\ argument = NoName
  /\ inum' \in Extracted(number)
  /\ step' = "walk"
  /\ UNCHANGED <<devices, argument, number, opened, held>>

(* inum - 1 in an int: what it is for the least int is not defined, and    *)
(* the build may wrap it around.                                           *)
Turns(k) == {k - 1, IF k = -IntLimit THEN IntLimit - 1 ELSE k - 1}

WalkFor(turns) ==
  LET d == IF turns > 0 THEN turns + 1 ELSE 1
  IN /\ step = "walk"
     /\ IF d > Len(devices) THEN step' = "undefined" /\ UNCHANGED opened
        ELSE step' = "open" /\ opened' = devices[d]
     /\ UNCHANGED <<devices, argument, number, inum, held>>

(* A variant with a mistake: the loop makes a turn too many. *)
WalkTooFar == WalkFor(inum)

(* The walk down the list, which may go off its end. *)
Walk == \E turns \in Turns(inum) : WalkFor(turns)

TakeArgument ==
  /\ step = "choose" /\ argument # NoName
  /\ opened' = argument
  /\ step' = "open"
  /\ UNCHANGED <<devices, argument, number, inum, held>>

(* A call that acquires `what', or fails and then releases `released'. *)
Acquire(label, what, next, released) ==
  /\ step = label
  /\ \/ step' = next /\ held' = held \cup {what}
     \/ /\ held' = held \ released
        /\ step' = IF released \subseteq held THEN "failed" ELSE "undefined"
  /\ UNCHANGED <<devices, argument, number, inum, opened>>

(* A variant with a mistake: the list is forgotten. *)
CompileOrLeak == Acquire("compile", "program", "filter", {"handle"})

OpenLive == Acquire("open", "handle", "compile", {"list"})
Compile == Acquire("compile", "program", "filter", {"handle", "list"})

(* pcap_setfilter; either way the program is released, and the list. *)
SetFilter ==
  /\ step = "filter"
  /\ \/ step' = "loop" /\ held' = held \ {"program", "list"}
     \/ step' = "failed" /\ held' = held \ {"program", "handle", "list"}
  /\ UNCHANGED <<devices, argument, number, inum, opened>>

(* pcap_loop returns when the interface fails, and only then: Ctrl+C ends  *)
(* the process and with it all that it holds.                              *)
LeaveLoop ==
  /\ step = "loop"
  /\ step' = "returned" /\ held' = held \ {"handle"}
  /\ UNCHANGED <<devices, argument, number, inum, opened>>

MonitorNext ==
  \/ FindDevices \/ AskNumber \/ Walk \/ TakeArgument
  \/ OpenLive \/ Compile \/ SetFilter \/ LeaveLoop
=============================================================================
