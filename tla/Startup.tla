-------------------------------- MODULE Startup --------------------------------
(***************************************************************************)
(* The programs of the repository from main to where their work begins:    *)
(* the server and the client of the chat read a file, the switch asks and  *)
(* reads a file, the monitor takes an argument or asks.                    *)
(***************************************************************************)
EXTENDS SwitchStart

CONSTANTS
  NoName,     \* not a name
  Addresses,  \* bound: lists of addresses there may be on the host of a switch
  Lifetimes,  \* bound: texts that may be typed for a number
  Selections, \* bound: lines of names that may be typed
  Devices     \* bound: lists of interfaces pcap may find

VARIABLES devices, argument, number, inum, opened, held, step

Monitor == INSTANCE MonitorStart

ASSUME StartupAssumption ==
  /\ NoName \notin Names
  /\ Addresses \subseteq Seq([name : Names, packet : BOOLEAN])
  /\ Lifetimes \subseteq Text
  /\ Selections \subseteq Seq(Names)
  /\ Devices \subseteq Seq(Names)
  /\ \A list \in Devices : Len(list) < IntLimit

monitorVars == <<devices, argument, number, inum, opened, held, step>>
vars == <<configurationVars, dialogueVars, monitorVars>>

NothingTyped == [lifetime |-> Word("absent"), names |-> <<>>]

(* One of the programs, and what it will find and be told.  The dialogue   *)
(* of the switch varies with it, the list of the monitor with that.        *)
Init ==
  /\ program \in Configured \cup {"monitor"}
  /\ outcome = CASE program = "switch" -> "lifetime"
                 [] program = "monitor" -> "none"
                 [] OTHER -> "reading"
  /\ ConfigurationInit
  /\ IF program = "switch"
       THEN /\ addresses \in Addresses
            /\ openable \in SUBSET {addresses[k].name : k \in DOMAIN addresses}
            /\ typed \in [lifetime : Lifetimes, names : Selections]
       ELSE addresses = <<>> /\ openable = {} /\ typed = NothingTyped
  /\ DialogueInit
  /\ IF program = "monitor"
       THEN devices \in Devices /\ argument \in Names \cup {NoName} /\ number \in Lifetimes
       ELSE devices = <<>> /\ argument = NoName /\ number = Word("absent")
  /\ Monitor!MonitorInit

StartChatOrSwitch ==
  /\ program \in Configured
  /\ (ReadConfiguration /\ UNCHANGED dialogueVars) \/ Dialogue
  /\ UNCHANGED monitorVars

StartMonitor ==
  /\ program = "monitor"
  /\ Monitor!MonitorNext
  /\ UNCHANGED <<configurationVars, dialogueVars>>

Done ==
  /\ outcome \in {"started", "failed"}
       \/ step \in {"failed", "returned", "undefined"}
  /\ UNCHANGED vars

Next == StartChatOrSwitch \/ StartMonitor \/ Done

Spec == Init /\ [][Next]_vars
=============================================================================
