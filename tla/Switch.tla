------------------------------- MODULE Switch -------------------------------
(***************************************************************************)
(* The program Commutation_table (switch_main.cpp): a learning switch with *)
(* one capture thread per opened interface, one table maintenance thread   *)
(* and the main thread that waits for the operator and shuts down.         *)
(*                                                                         *)
(* A capture thread handles a frame in the steps between which other       *)
(* threads can run: each call into the table (atomic under its mutex) and  *)
(* each pcap_sendpacket is a step.  What a thread computes from its own    *)
(* locals alone, such as the substituted packet, is part of the next step. *)
(*                                                                         *)
(* captured, wire, solo and lastPass are history variables: no guard reads *)
(* them but for the frame a thread holds, which is captured[cur[p]].       *)
(***************************************************************************)
EXTENDS CommutationTable, Sequences, FiniteSets

CONSTANTS
  Frames,      \* the frames the attached networks may send
  IsActive,    \* ttl_cfg.is_active
  MaxFrames,   \* bound: frames captured in a behaviour
  MaxTime,     \* bound: last tick of the clock
  MaxEnters    \* bound: how often the operator presses Enter

(* A frame, as far as processPacket looks at it: the two MAC addresses;    *)
(* whether it is ICMP over IPv4; whether its IP addresses are the          *)
(* configured client and server; and the ICMP type.                        *)
FrameType ==
  [src : Macs, dst : Macs, icmp : BOOLEAN, clientToServer : BOOLEAN,
   type : {"echo", "echoreply", "other"}]

ASSUME SwitchAssumption ==
  /\ Frames \subseteq FrameType
  /\ IsActive \in BOOLEAN
  /\ MaxFrames \in Nat /\ MaxTime \in Nat /\ MaxEnters \in Nat

VARIABLES
  running,     \* the atomic<bool> all threads poll
  pc,          \* where each capture thread is
  cur,         \* the frame each capture thread holds: an index into captured, or 0
  dest,        \* dest_port of each capture thread
  floodTo,     \* loop variable i of the flood of each capture thread
  mpc,         \* where the maintenance thread is
  mnow,        \* local `now' of its current ageEntries call
  mainPc,      \* where main is
  idx,         \* its loop variable over captureThreads, then over handles
  enters,      \* line ends typed and not yet read from std::cin
  typed,       \* line ends typed so far
  open,        \* the pcap handles not closed yet
  captured,    \* history: what pcap_next returned, in order, and on which port
  wire,        \* history: per port, the pcap_sendpacket calls in order
  solo,        \* history: the captures during which no thread still had to
               \* learn from an earlier frame of the same source
  lastPass     \* history: the instant used by the last finished ageEntries

captureVars == <<pc, cur, dest, floodTo>>
maintVars == <<mpc, mnow>>
mainVars == <<mainPc, idx, enters, typed, open>>
historyVars == <<captured, wire, solo, lastPass>>
vars == <<clock, tableVars, running, captureVars, maintVars, mainVars, historyVars>>

Init ==
  /\ TableInit
  /\ running = TRUE
  /\ pc = [p \in Ports |-> "loop"]
  /\ cur = [p \in Ports |-> 0]
  /\ dest = [p \in Ports |-> NotFound]
  /\ floodTo = [p \in Ports |-> 0]
  /\ mpc = "loop" /\ mnow = 0
  /\ mainPc = "ignore" /\ idx = 0 /\ enters = 0 /\ typed = 0 /\ open = Ports
  /\ captured = <<>>
  /\ wire = [p \in Ports |-> <<>>]
  /\ solo = {}
  /\ lastPass = 0

-----------------------------------------------------------------------------
(* Frames in flight *)

Held(p) == captured[cur[p]].frame          \* the frame thread p is processing

(* is_target_icmp_packet and the tests around it: only an ICMP echo reply  *)
(* from the configured client to the configured server is substituted.     *)
IsTarget(f) == f.icmp /\ f.clientToServer /\ f.type = "echoreply"

(* packet_to_send: the frame itself, or its copy turned into an echo request. *)
PacketToSend(f) ==
  IF IsActive /\ IsTarget(f) THEN [f EXCEPT !.type = "echo"] ELSE f

(* pcap_sendpacket on handles[q]; its result is ignored by the caller. *)
SendPacket(p, q) ==
  wire' = [wire EXCEPT ![q] =
             Append(@, [id |-> cur[p], frame |-> PacketToSend(Held(p))])]

(* A frame of source m is captured but its source not yet learned. *)
Unlearned(m) == \E p \in Ports : pc[p] \in {"count", "learn"} /\ Held(p).src = m

-----------------------------------------------------------------------------
(* captureThread and processPacket *)

Goto(p, label) == pc' = [pc EXCEPT ![p] = label]

(* Variants with a mistake, which the properties must detect: a loop that   *)
(* never looks at `running', a thread that gives up its frame when stopped, *)
(* a missing else before the flood, a flood back to the ingress port, and  *)
(* one that runs past the last handle.                                     *)
CheckRunningNever(p) ==
  /\ pc[p] = "loop"
  /\ Goto(p, "next")
  /\ UNCHANGED <<clock, tableVars, running, cur, dest, floodTo, maintVars, mainVars, historyVars>>
LearnSourceOrGiveUp(p) ==
  /\ pc[p] = "learn"
  /\ UpdateEntry(Held(p).src, p)
  /\ Goto(p, IF running THEN "lookup" ELSE "exited")
  /\ UNCHANGED <<clock, totalPackets, running, cur, dest, floodTo, maintVars, mainVars, historyVars>>
SendToDestAndFlood(p) ==
  /\ pc[p] = "send"
  /\ SendPacket(p, dest[p])
  /\ Goto(p, "flood")
  /\ UNCHANGED <<clock, tableVars, running, cur, dest, floodTo, maintVars, mainVars,
                 captured, solo, lastPass>>
FloodTurnEverywhere(p) ==
  /\ pc[p] = "flood"
  /\ SendPacket(p, floodTo[p])
  /\ floodTo' = [floodTo EXCEPT ![p] = @ + 1]
  /\ Goto(p, IF floodTo[p] + 1 < NumPorts THEN "flood" ELSE "finish")
  /\ UNCHANGED <<clock, tableVars, running, cur, dest, maintVars, mainVars,
                 captured, solo, lastPass>>
FloodTurnPastEnd(p) ==
  /\ pc[p] = "flood"
  /\ IF floodTo[p] # p THEN SendPacket(p, floodTo[p]) ELSE UNCHANGED wire
  /\ floodTo' = [floodTo EXCEPT ![p] = @ + 1]
  /\ Goto(p, IF floodTo[p] < NumPorts THEN "flood" ELSE "finish")
  /\ UNCHANGED <<clock, tableVars, running, cur, dest, maintVars, mainVars,
                 captured, solo, lastPass>>

(* while (running) *)
CheckRunning(p) ==
  /\ pc[p] = "loop"
  /\ Goto(p, IF running THEN "next" ELSE "exited")
  /\ UNCHANGED <<clock, tableVars, running, cur, dest, floodTo, maintVars, mainVars, historyVars>>

(* pcap_next returns nothing: the read timeout of 1000 ms may have expired. *)
CaptureNothing(p) ==
  /\ pc[p] = "next"
  /\ Goto(p, "loop")
  /\ UNCHANGED <<clock, tableVars, running, cur, dest, floodTo, maintVars, mainVars, historyVars>>

(* pcap_next returns a frame. *)
Capture(p, f) ==
  /\ pc[p] = "next"
  /\ Len(captured) < MaxFrames
  /\ captured' = Append(captured, [port |-> p, frame |-> f])
  /\ cur' = [cur EXCEPT ![p] = Len(captured) + 1]
  /\ solo' = IF Unlearned(f.src) THEN solo ELSE solo \cup {Len(captured) + 1}
  /\ Goto(p, "count")
  /\ UNCHANGED <<clock, tableVars, running, dest, floodTo, maintVars, mainVars, wire, lastPass>>

(* updateStats(0), then the early return for equal addresses, which makes  *)
(* its own updateStats call in the step "finish".                          *)
CountPacket(p) ==
  /\ pc[p] = "count"
  /\ UpdateStats
  /\ Goto(p, IF Held(p).src = Held(p).dst THEN "finish" ELSE "learn")
  /\ UNCHANGED <<clock, macTable, running, cur, dest, floodTo, maintVars, mainVars, historyVars>>

LearnSource(p) ==
  /\ pc[p] = "learn"
  /\ UpdateEntry(Held(p).src, p)
  /\ Goto(p, "lookup")
  /\ UNCHANGED <<clock, totalPackets, running, cur, dest, floodTo, maintVars, mainVars, historyVars>>

LookupDest(p) ==
  /\ pc[p] = "lookup"
  /\ LET port == GetPortForMac(Held(p).dst) IN
       /\ dest' = [dest EXCEPT ![p] = port]
       /\ Goto(p, IF port # NotFound /\ port < NumPorts THEN "send" ELSE "flood")
  /\ floodTo' = [floodTo EXCEPT ![p] = 0]
  /\ UNCHANGED <<clock, tableVars, running, cur, maintVars, mainVars, historyVars>>

SendToDest(p) ==
  /\ pc[p] = "send"
  /\ SendPacket(p, dest[p])
  /\ Goto(p, "finish")
  /\ UNCHANGED <<clock, tableVars, running, cur, dest, floodTo, maintVars, mainVars,
                 captured, solo, lastPass>>

(* One turn of the loop over all handles, which skips the ingress port. *)
FloodTurn(p) ==
  /\ pc[p] = "flood"
  /\ IF floodTo[p] # p THEN SendPacket(p, floodTo[p]) ELSE UNCHANGED wire
  /\ floodTo' = [floodTo EXCEPT ![p] = @ + 1]
  /\ Goto(p, IF floodTo[p] + 1 < NumPorts THEN "flood" ELSE "finish")
  /\ UNCHANGED <<clock, tableVars, running, cur, dest, maintVars, mainVars,
                 captured, solo, lastPass>>

(* The closing updateStats; the locals of processPacket go out of scope. *)
FinishPacket(p) ==
  /\ pc[p] = "finish"
  /\ UpdateStats
  /\ cur' = [cur EXCEPT ![p] = 0]
  /\ dest' = [dest EXCEPT ![p] = NotFound]
  /\ floodTo' = [floodTo EXCEPT ![p] = 0]
  /\ Goto(p, "loop")
  /\ UNCHANGED <<clock, macTable, running, maintVars, mainVars, historyVars>>

(* What a capture thread does once pcap_next has returned. *)
ProcessPacket(p) ==
  \/ CountPacket(p) \/ LearnSource(p) \/ LookupDest(p)
  \/ SendToDest(p) \/ FloodTurn(p) \/ FinishPacket(p)

-----------------------------------------------------------------------------
(* tableMaintenanceThread; the periodic printing has no effect on the state *)

MaintCheckRunning ==
  /\ mpc = "loop"
  /\ mpc' = IF running THEN "sleep" ELSE "exited"
  /\ UNCHANGED <<clock, tableVars, running, captureVars, mnow, mainVars, historyVars>>

(* The sleep of one second is over (the model lets it last any time) and   *)
(* ageEntries reads the clock, not yet holding the lock.                   *)
MaintReadClock ==
  /\ mpc = "sleep"
  /\ mpc' = "age"
  /\ mnow' = clock
  /\ UNCHANGED <<clock, tableVars, running, captureVars, mainVars, historyVars>>

MaintAge ==
  /\ mpc = "age"
  /\ AgeEntries(mnow)
  /\ lastPass' = mnow
  /\ mpc' = "loop"
  /\ UNCHANGED <<clock, totalPackets, running, captureVars, mnow, mainVars,
                 captured, wire, solo>>

Maintenance == MaintCheckRunning \/ MaintReadClock \/ MaintAge

-----------------------------------------------------------------------------
(* main, from "Press Enter to stop..." on *)

(* cin.ignore() takes one character; the line with the interface names was *)
(* read whole before, so this is the first Enter pressed since.            *)
MainIgnore ==
  /\ mainPc = "ignore" /\ enters > 0
  /\ enters' = enters - 1
  /\ mainPc' = "get"
  /\ UNCHANGED <<clock, tableVars, running, captureVars, maintVars, idx, typed, open, historyVars>>

(* cin.get() takes another one, then running = false. *)
MainStop ==
  /\ mainPc = "get" /\ enters > 0
  /\ enters' = enters - 1
  /\ running' = FALSE
  /\ mainPc' = "join"
  /\ UNCHANGED <<clock, tableVars, captureVars, maintVars, idx, typed, open, historyVars>>

(* With a mistake: the last capture thread is not joined. *)
MainJoinCaptureButLast ==
  /\ mainPc = "join"
  /\ pc[idx] = "exited"
  /\ IF idx + 2 < NumPorts
       THEN idx' = idx + 1 /\ UNCHANGED mainPc
       ELSE idx' = 0 /\ mainPc' = "joinTable"
  /\ UNCHANGED <<clock, tableVars, running, captureVars, maintVars, enters, typed, open, historyVars>>

MainJoinCapture ==
  /\ mainPc = "join"
  /\ pc[idx] = "exited"
  /\ IF idx + 1 < NumPorts
       THEN idx' = idx + 1 /\ UNCHANGED mainPc
       ELSE idx' = 0 /\ mainPc' = "joinTable"
  /\ UNCHANGED <<clock, tableVars, running, captureVars, maintVars, enters, typed, open, historyVars>>

MainJoinTable ==
  /\ mainPc = "joinTable" /\ mpc = "exited"
  /\ mainPc' = "close"
  /\ UNCHANGED <<clock, tableVars, running, captureVars, maintVars, idx, enters, typed, open, historyVars>>

MainCloseHandle ==
  /\ mainPc = "close"
  /\ open' = open \ {idx}
  /\ IF idx + 1 < NumPorts
       THEN idx' = idx + 1 /\ UNCHANGED mainPc
       ELSE idx' = 0 /\ mainPc' = "done"
  /\ UNCHANGED <<clock, tableVars, running, captureVars, maintVars, enters, typed, historyVars>>

Main == MainIgnore \/ MainStop \/ MainJoinCapture \/ MainJoinTable \/ MainCloseHandle

-----------------------------------------------------------------------------
(* The environment *)

Tick ==
  /\ clock < MaxTime
  /\ clock' = clock + 1
  /\ UNCHANGED <<tableVars, running, captureVars, maintVars, mainVars, historyVars>>

PressEnter ==
  /\ mainPc # "done"
  /\ typed < MaxEnters
  /\ typed' = typed + 1
  /\ enters' = enters + 1
  /\ UNCHANGED <<clock, tableVars, running, captureVars, maintVars, mainPc, idx, open, historyVars>>

(* main has returned and the process is gone. *)
Terminated == mainPc = "done" /\ UNCHANGED vars

Next ==
  \/ \E p \in Ports :
       \/ CheckRunning(p)
       \/ CaptureNothing(p)
       \/ \E f \in Frames : Capture(p, f)
       \/ ProcessPacket(p)
  \/ Maintenance
  \/ Main
  \/ Tick
  \/ PressEnter
  \/ Terminated

Spec == Init /\ [][Next]_vars

(* The operating system runs every thread.  Nothing is assumed of the      *)
(* operator, the clock or the attached networks, nor that pcap_next ever   *)
(* returns: libpcap does not promise that the read timeout given to        *)
(* pcap_open_live ends a call while no frame arrives.                      *)
Fairness ==
  /\ \A p \in Ports :
       /\ WF_vars(CheckRunning(p))
       /\ WF_vars(ProcessPacket(p))
  /\ WF_vars(Maintenance)
  /\ WF_vars(Main)

FairSpec == Spec /\ Fairness
=============================================================================
