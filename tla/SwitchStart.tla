------------------------------ MODULE SwitchStart ------------------------------
(***************************************************************************)
(* The main of the switch before its threads start (switch_main.cpp,       *)
(* NetworkUtils.cpp): the lifetime is asked for, then the interfaces, then *)
(* the configuration is read.                                              *)
(***************************************************************************)
EXTENDS Configuration

CONSTANTS Names     \* names that are typed, of interfaces and others

VARIABLES
  addresses,  \* the list getifaddrs gives: names and whether the family is AF_PACKET
  openable,   \* external: the interfaces pcap_open_live can open
  typed,      \* what the operator types: a text, then names on one line
  good,       \* the state of std::cin
  lifetime,
  interfaces, \* what getAvailableInterfaces has returned
  selected,   \* selectedInterfaces that are yet to be opened
  handles     \* the interfaces of the handles

dialogueVars == <<addresses, openable, typed, good, lifetime, interfaces, selected, handles>>

DialogueInit ==
  /\ good = TRUE /\ lifetime = 0
  /\ interfaces = <<>> /\ selected = <<>> /\ handles = <<>>

GoOn(label) == outcome' = label /\ UNCHANGED <<program, file, read, config, values>>

-----------------------------------------------------------------------------
ReadLifetimeThen(usable) ==
  /\ outcome = "lifetime"
  /\ lifetime' \in Extracted(typed.lifetime)
  /\ good' = usable
  /\ GoOn("interfaces")
  /\ UNCHANGED <<addresses, openable, typed, interfaces, selected, handles>>

(* A variant with a mistake: the stream is made good again. *)
ReadLifetimeAndClear == ReadLifetimeThen(TRUE)

ReadLifetime == ReadLifetimeThen(IsInt(typed.lifetime))

(* The names among the first k addresses of the packet family, each once. *)
NamesUpTo ==
  LET upTo[k \in 0 .. Len(addresses)] ==
        IF k = 0 THEN <<>>
        ELSE LET a == addresses[k] IN
             IF ~a.packet \/ \E j \in DOMAIN upTo[k - 1] : upTo[k - 1][j] = a.name
               THEN upTo[k - 1] ELSE Append(upTo[k - 1], a.name)
  IN upTo

(* getifaddrs may fail; without interfaces main returns. *)
GetAvailableInterfaces ==
  /\ outcome = "interfaces"
  /\ interfaces' \in {<<>>, NamesUpTo[Len(addresses)]}
  /\ GoOn(IF interfaces' = <<>> THEN "failed" ELSE "names")
  /\ UNCHANGED <<addresses, openable, typed, good, lifetime, selected, handles>>

(* The names among the first k that are in the set, in their order. *)
AmongUpTo(names, chosen) ==
  LET upTo[k \in 0 .. Len(names)] ==
        IF k = 0 THEN <<>>
        ELSE IF names[k] \in chosen THEN Append(upTo[k - 1], names[k]) ELSE upTo[k - 1]
  IN upTo

Among(names, chosen) == AmongUpTo(names, chosen)[Len(names)]

SelectFrom(names) ==
  /\ outcome = "names"
  /\ selected' = Among(names, {interfaces[k] : k \in DOMAIN interfaces})
  /\ GoOn("opening")
  /\ UNCHANGED <<addresses, openable, typed, good, lifetime, interfaces, handles>>

(* getline: nothing is read from a stream that has failed. *)
SelectInterfaces == SelectFrom(IF good THEN typed.names ELSE <<>>)

(* pcap_open_live for the next name; a failure is only reported. *)
OpenInterface ==
  /\ outcome = "opening" /\ selected # <<>>
  /\ handles' = IF Head(selected) \in openable THEN Append(handles, Head(selected)) ELSE handles
  /\ selected' = Tail(selected)
  /\ GoOn("opening")
  /\ UNCHANGED <<addresses, openable, typed, good, lifetime, interfaces>>

(* Without a handle main returns. *)
CheckHandles ==
  /\ outcome = "opening" /\ selected = <<>>
  /\ GoOn(IF handles # <<>> THEN "reading" ELSE "failed")
  /\ UNCHANGED dialogueVars

Dialogue ==
  \/ ReadLifetime \/ GetAvailableInterfaces \/ SelectInterfaces \/ OpenInterface
  \/ CheckHandles
=============================================================================
