-------------------------- MODULE SwitchProperties --------------------------
(***************************************************************************)
(* What is required of the switch.                                         *)
(***************************************************************************)
EXTENDS Switch

Plane == INSTANCE ForwardingPlane

Ids == DOMAIN captured
InHand(i) == \E p \in Ports : cur[p] = i

CaptureRecord == [port : Ports, frame : FrameType]   \* an element of captured
SentRecord == [id : Nat, frame : FrameType]          \* an element of a port's wire

-----------------------------------------------------------------------------
(* Every variable of the switch has its type. *)
TypeOK ==
  /\ TableTypeOK
  /\ running \in BOOLEAN
  /\ pc \in [Ports -> {"loop", "next", "count", "learn", "lookup", "send",
                       "flood", "finish", "exited"}]
  /\ cur \in [Ports -> Nat]
  /\ dest \in [Ports -> Ports \cup {NotFound}]
  /\ floodTo \in [Ports -> 0 .. NumPorts]
  /\ mpc \in {"loop", "sleep", "age", "exited"}
  /\ mnow \in Nat
  /\ mainPc \in {"ignore", "get", "join", "joinTable", "close", "done"}
  /\ idx \in Ports
  /\ enters \in Nat /\ typed \in Nat
  /\ open \subseteq Ports
  /\ captured \in Seq(CaptureRecord)
  /\ wire \in [Ports -> Seq(SentRecord)]
  /\ solo \subseteq Nat
  /\ lastPass \in Nat

(* Forwarding (processPacket): once its thread has finished with it, a     *)
(* frame has left by exactly the right ports: none if it was addressed to  *)
(* its own source; otherwise by one port on which its destination has been *)
(* a source, or else by every port but the one it came in on.              *)
ForwardedWhereDue ==
  \A i \in Ids :
    ~InHand(i) =>
      LET f == captured[i].frame
          out == Plane!Egress(i)
      IN IF f.src = f.dst THEN out = {}
         ELSE \/ \E q \in Plane!SeenOn(f.dst) : out = {q}
              \/ out = Ports \ {captured[i].port}

(* Learning (updateEntry) overtaken by a host that moves: when the last    *)
(* capture from m was made while no other thread still had to learn from m *)
(* and that capture has been learned, the table does not name a port that  *)
(* m has left.  Captures of one source in two threads at a time may be     *)
(* learned in the wrong order; they are excluded by `solo'.                *)
MovedHostRelearned ==
  \A i \in solo :
    LET c == captured[i]
        m == c.frame.src
        latest == \A j \in Ids : j > i => captured[j].frame.src # m
    IN latest /\ m # c.frame.dst /\ ~Unlearned(m) /\ Known(m)
         => macTable[m].port = c.port

(* Ageing (ageEntries against updateEntry): no entry in the table had      *)
(* outlived its lifetime when the last finished pass read the clock,       *)
(* whatever other threads refreshed between that reading and the pass.     *)
SurvivorsFresh ==
  MaxLifetimeSec >= 1 =>
    \A m \in Macs : Known(m) =>
      AgeSec(lastPass, macTable[m]) < MaxLifetimeSec

(* Shutdown (main): as long as a capture thread can still call pcap_next   *)
(* or pcap_sendpacket, every handle is open; and when main returns, which  *)
(* destroys the table, no thread is left that could use it.                *)
ResourcesOutliveThreads ==
  /\ (\E p \in Ports : pc[p] # "exited") => open = Ports
  /\ mainPc = "done" => mpc = "exited" /\ \A p \in Ports : pc[p] = "exited"

(* Ageing: an entry disappears only when it really has outlived its        *)
(* lifetime, although the pass compares with a clock read before the lock. *)
NoPrematureEviction ==
  [][\A m \in Macs :
       Known(m) /\ ~Known(m)' => AgeSec(clock, macTable[m]) >= MaxLifetimeSec]_vars

(* lastSeen is the time of the last activity: while an entry stays in the  *)
(* table no thread moves its time stamp backwards.                         *)
LastSeenNeverRewinds ==
  [][\A m \in Macs :
       Known(m) /\ Known(m)' => macTable'[m].lastSeen >= macTable[m].lastSeen]_vars

(* The switch implements ForwardingPlane. *)
ImplementsPlane == Plane!PlaneSpec

-----------------------------------------------------------------------------
(* Liveness, under FairSpec *)

(* Once a frame has been captured its thread finishes with it, also when   *)
(* the switch is being stopped meanwhile.                                  *)
CapturedIsFinished ==
  \A p \in Ports : pc[p] = "count" ~> pc[p] = "loop"

(* As long as the switch runs, an entry that has outlived its lifetime is  *)
(* either refreshed by its host or removed.                                *)
OutlivedIsDropped ==
  \A m \in Macs : Outlived(clock, m) ~> ~Outlived(clock, m) \/ ~running

(* When main clears `running', all threads end and main returns, unless a  *)
(* capture thread stays for ever in pcap_next, which main's join waits     *)
(* for.  Only a thread that is in that call already can do so: none enters *)
(* it afterwards.                                                          *)
StopCompletesUnlessCapturing ==
  /\ ~running ~> mainPc = "done" \/ \E p \in Ports : [](pc[p] = "next")
  /\ ~running /\ (\A p \in Ports : pc[p] # "next") ~> mainPc = "done"
=============================================================================
