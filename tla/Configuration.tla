---------------------------- MODULE Configuration ----------------------------
(***************************************************************************)
(* From a configuration file to the values the programs run with: the chat *)
(* server and client read it with read_config_file (utilities/config.h),   *)
(* the switch with ConfigParser.                                           *)
(*                                                                         *)
(* Of a file the model has its lines, cut at the '=' and trimmed.  One key *)
(* stands for all that are treated alike: "port" for the ports, "ip" for   *)
(* the addresses of the switch.                                            *)
(***************************************************************************)
EXTENDS Input, Sequences

CONSTANTS
  Lines,      \* lines that may occur in the file of each program
  MaxLines,   \* bound: lines in a file
  PortBase    \* 2^16

Keys == {"port", "protocol", "enabled", "ip"}
Configured == {"server", "client", "switch"}       \* programs that have a file

ASSUME ConfigurationAssumption ==
  /\ Lines \in [Configured ->
       SUBSET [key : Keys, value : Text, comment : BOOLEAN, delimiter : BOOLEAN]]
  /\ MaxLines \in Nat
  /\ PortBase \in Nat \ {0} /\ IntLimit \in Nat /\ PortBase <= IntLimit

VARIABLES
  program,    \* "server", "client" or "switch", or another one
  file,       \* the lines of its configuration file
  read,       \* lines read
  config,     \* the map of read_config_file, or config_ of the switch
  outcome,    \* "reading", "started" or "failed", or not there yet
  values      \* what the program runs with

configurationVars == <<program, file, read, config, outcome, values>>

NoValues == [port |-> 0, protocol |-> "none", is_active |-> FALSE]

ConfigurationInit ==
  /\ file \in IF program \notin Configured THEN {<<>>}
              ELSE UNION {[1 .. n -> Lines[program]] : n \in 0 .. MaxLines}
  /\ read = 0
  /\ config = [k \in Keys |-> Word("absent")]
  /\ values = NoValues

-----------------------------------------------------------------------------
(* read_config_file and ConfigParser::parseLine *)

(* read_config_file: a comment is a line like any other, but with a key    *)
(* that nobody asks for; an empty value is skipped.                        *)
KeptByChat(line) == line.delimiter /\ ~line.comment /\ line.value # Word("")

(* A variant with a mistake: an empty value does not replace another one. *)
KeptUnlessEmpty(line) == line.delimiter /\ ~line.comment /\ line.value # Word("")

(* parseLine: an empty value is stored. *)
KeptBySwitch(line) == line.delimiter /\ ~line.comment

Kept(line) == IF program = "switch" THEN KeptBySwitch(line) ELSE KeptByChat(line)

ReadLine ==
  /\ outcome = "reading" /\ read < Len(file)
  /\ read' = read + 1
  /\ LET line == file[read + 1] IN
       config' = IF Kept(line) THEN [config EXCEPT ![line.key] = line.value] ELSE config
  /\ UNCHANGED <<program, file, outcome, values>>

(* The file does not exist or cannot be read. *)
OpenFails ==
  /\ outcome = "reading" /\ read = 0
  /\ outcome' = "failed"
  /\ UNCHANGED <<program, file, read, config, values>>

-----------------------------------------------------------------------------
(* What is made of the values *)

(* The port is narrowed to uint16_t. *)
Narrowed(k) == k % PortBase

(* The constructor of Server refuses port 0. *)
PortAccepted(k) == Narrowed(k) # 0

(* parse_protocol throws for anything else. *)
IsProtocol(text) == text.word \in {"tcp", "udp"}

(* The client does not look at the number of the port. *)
ClientStarts == IsInt(config["port"]) /\ IsProtocol(config["protocol"])
ServerStarts == ClientStarts /\ PortAccepted(config["port"].n)

ChatValues ==
  [NoValues EXCEPT !.port = Narrowed(config["port"].n), !.protocol = config["protocol"].word]

(* isLoaded(), addresses that are not empty and that inet_pton accepts. *)
SwitchStarts ==
  /\ \E k \in Keys : config[k] # Word("absent")
  /\ config["ip"].word = "address"

(* getBool("enabled", false) *)
GetBool(text) == text.word = "true" \/ text = Number(1)

SwitchValues == [NoValues EXCEPT !.is_active = GetBool(config["enabled"])]

ConfigureWith(starts, started) ==
  /\ outcome = "reading" /\ read = Len(file)
  /\ outcome' = IF starts THEN "started" ELSE "failed"
  /\ values' = IF starts THEN started ELSE values
  /\ UNCHANGED <<program, file, read, config>>

Configure ==
  \/ program = "server" /\ ConfigureWith(ServerStarts, ChatValues)
  \/ program = "client" /\ ConfigureWith(ClientStarts, ChatValues)
  \/ program = "switch" /\ ConfigureWith(SwitchStarts, SwitchValues)

ReadConfiguration == ReadLine \/ OpenFails \/ Configure
=============================================================================
