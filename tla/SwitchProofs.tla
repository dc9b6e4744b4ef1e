----------------------------- MODULE SwitchProofs -----------------------------
(***************************************************************************)
(* Proofs about the switch, for every value of the constants: any number   *)
(* of ports, any set of addresses and frames, any lifetime and clock       *)
(* resolution, and any bound.                                              *)
(***************************************************************************)
EXTENDS SwitchProperties, TLAPS

USE TableAssumption, SwitchAssumption

(* The steps of processPacket, from its first line to its last. *)
InPacket == {"count", "learn", "lookup", "send", "flood", "finish"}

(* What the locals of a capture thread hold at each of its steps: a frame  *)
(* exactly while it processes one, a port to send to, a loop index in range. *)
LocalsOK ==
  \A p \in Ports :
    /\ pc[p] \in InPacket => cur[p] \in Ids
    /\ pc[p] \notin InPacket => cur[p] = 0
    /\ pc[p] = "send" => dest[p] \in Ports
    /\ pc[p] = "flood" => floodTo[p] \in Ports

TypeInv == TypeOK /\ LocalsOK

-----------------------------------------------------------------------------
(* Integer division, as used by duration_cast. *)

(* The quotient of naturals is a natural and grows with the dividend. *)
LEMMA DivNat ==
  ASSUME NEW x \in Nat, NEW y \in Nat, NEW d \in Nat \ {0}, x <= y
  PROVE  x \div d \in Nat /\ y \div d \in Nat /\ x \div d <= y \div d
  OBVIOUS

(* The age of an entry is an integer, grows with the instant it is         *)
(* computed for, and is not positive for an entry refreshed since then.    *)
LEMMA AgeMonotone ==
  ASSUME NEW t \in Nat, NEW u \in Nat, NEW e \in TableEntry, t <= u
  PROVE  /\ AgeSec(t, e) \in Int
         /\ AgeSec(t, e) <= AgeSec(u, e)
         /\ t <= e.lastSeen => AgeSec(t, e) <= 0
<1> DEFINE x == t - e.lastSeen
           y == u - e.lastSeen
<1>1. x \in Int /\ y \in Int /\ x <= y
  BY DEF TableEntry
<1>2. CASE x >= 0
  <2>1. x \div TicksPerSec <= y \div TicksPerSec /\ x \div TicksPerSec \in Nat
    BY <1>1, <1>2, DivNat
  <2>2. x <= 0 => x \div TicksPerSec = 0
    BY <1>1, <1>2
  <2> QED
    BY <1>1, <1>2, <2>1, <2>2 DEF AgeSec, TruncDiv, TableEntry
<1>3. CASE x < 0
  <2>1. (-x) \div TicksPerSec \in Nat
    BY <1>1, <1>3, DivNat
  <2>2. CASE y >= 0
    <3>1. y \div TicksPerSec \in Nat
      BY <1>1, <2>2, DivNat
    <3> QED
      BY <1>1, <1>3, <2>1, <2>2, <3>1 DEF AgeSec, TruncDiv, TableEntry
  <2>3. CASE y < 0
    <3>1. /\ (-y) \div TicksPerSec \in Nat
          /\ (-y) \div TicksPerSec <= (-x) \div TicksPerSec
      BY <1>1, <1>3, <2>3, DivNat
    <3> QED
      BY <1>1, <1>3, <2>1, <2>3, <3>1 DEF AgeSec, TruncDiv, TableEntry
  <2> QED
    BY <1>1, <2>2, <2>3
<1> QED
  BY <1>1, <1>2, <1>3

(* The packet sent in place of a frame is a frame. *)
LEMMA PacketToSendType ==
  ASSUME NEW f \in FrameType
  PROVE  PacketToSend(f) \in FrameType
  BY DEF FrameType, PacketToSend

-----------------------------------------------------------------------------
(* Type correctness *)

(* The frame a thread holds, its source and its destination have their types. *)
LEMMA HeldType ==
  ASSUME TypeInv, NEW p \in Ports, pc[p] \in InPacket
  PROVE  /\ Held(p) \in FrameType
         /\ Held(p).src \in Macs
         /\ Held(p).dst \in Macs
         /\ cur[p] \in Nat
<1>1. captured \in Seq(CaptureRecord) /\ cur[p] \in DOMAIN captured
  BY DEF TypeInv, TypeOK, LocalsOK, Ids
<1>2. captured[cur[p]] \in CaptureRecord /\ cur[p] \in Nat
  BY <1>1
<1>3. Held(p) \in FrameType
  BY <1>2 DEF Held, CaptureRecord
<1> QED
  BY <1>2, <1>3 DEF FrameType

(* A step that sends keeps the type of the wire. *)
LEMMA SendPacketType ==
  ASSUME TypeInv, NEW p \in Ports, pc[p] \in InPacket, NEW q \in Ports, SendPacket(p, q)
  PROVE  wire' \in [Ports -> Seq(SentRecord)]
<1> DEFINE msg == [id |-> cur[p], frame |-> PacketToSend(Held(p))]
<1>1. msg \in SentRecord
  BY HeldType, PacketToSendType DEF SentRecord
<1>2. wire \in [Ports -> Seq(SentRecord)]
  BY DEF TypeInv, TypeOK
<1>3. wire' = [wire EXCEPT ![q] = Append(wire[q], msg)]
  BY DEF SendPacket
<1> HIDE DEF msg
<1>4. Append(wire[q], msg) \in Seq(SentRecord)
  BY <1>1, <1>2
<1> QED
  BY <1>2, <1>3, <1>4

(* The initial values have their types. *)
LEMMA InitTypeInv == Init => TypeInv
  BY DEF Init, TableInit, TypeInv, TypeOK, TableTypeOK, LocalsOK, TableEntry, NoEntry,
         NotFound, Ports, InPacket

(* Every step of the switch preserves the types and what the locals hold. *)
LEMMA NextTypeInv == TypeInv /\ [Next]_vars => TypeInv'
<1> SUFFICES ASSUME TypeInv, [Next]_vars
             PROVE  TypeInv'
  OBVIOUS
<1> USE DEF TypeInv
<1>1. ASSUME NEW p \in Ports, CheckRunning(p)
      PROVE  TypeInv'
  BY <1>1 DEF CheckRunning, Goto, TypeOK, TableTypeOK, LocalsOK, InPacket, Ids,
              tableVars, maintVars, mainVars, historyVars
<1>2. ASSUME NEW p \in Ports, CaptureNothing(p)
      PROVE  TypeInv'
  BY <1>2 DEF CaptureNothing, Goto, TypeOK, TableTypeOK, LocalsOK, InPacket, Ids,
              tableVars, maintVars, mainVars, historyVars
<1>3. ASSUME NEW p \in Ports, NEW f \in Frames, Capture(p, f)
      PROVE  TypeInv'
  <2> DEFINE rec == [port |-> p, frame |-> f]
  <2>3. rec \in CaptureRecord /\ captured' = Append(captured, rec)
    BY <1>3 DEF Capture, CaptureRecord
  <2> HIDE DEF rec
  <2>4. captured' \in Seq(CaptureRecord)
    BY <2>3 DEF TypeOK
  <2>6. Len(captured) + 1 \in Nat
    BY DEF TypeOK
  <2>5. solo' \subseteq Nat /\ cur' \in [Ports -> Nat]
    BY <1>3, <2>6 DEF Capture, TypeOK
  <2>1. TypeOK'
    BY <1>3, <2>4, <2>5 DEF Capture, Goto, TypeOK, TableTypeOK, tableVars, maintVars, mainVars
  <2>2. LocalsOK'
    BY SMTT(30), <1>3 DEF Capture, Goto, TypeOK, LocalsOK, InPacket, Ids
  <2> QED
    BY <2>1, <2>2
<1>4. ASSUME NEW p \in Ports, CountPacket(p)
      PROVE  TypeInv'
  BY SMTT(30), <1>4 DEF CountPacket, UpdateStats, Goto, TypeOK, TableTypeOK, LocalsOK, InPacket, Ids,
              maintVars, mainVars, historyVars
<1>5. ASSUME NEW p \in Ports, LearnSource(p)
      PROVE  TypeInv'
  <2>1. Held(p).src \in Macs
    BY <1>5, HeldType DEF LearnSource, InPacket
  <2>2. macTable' \in [Macs -> TableEntry \cup {NoEntry}]
    BY <1>5, <2>1 DEF LearnSource, UpdateEntry, TypeOK, TableTypeOK, TableEntry
  <2> QED
    BY <1>5, <2>2 DEF LearnSource, Goto, TypeOK, TableTypeOK, LocalsOK, InPacket, Ids,
                      maintVars, mainVars, historyVars
<1>6. ASSUME NEW p \in Ports, LookupDest(p)
      PROVE  TypeInv'
  <2> DEFINE port == GetPortForMac(Held(p).dst)
  <2>1. port \in Ports \cup {NotFound}
    BY <1>6, HeldType DEF LookupDest, InPacket, GetPortForMac, Known, TypeOK, TableTypeOK, TableEntry
  <2>2. /\ dest' = [dest EXCEPT ![p] = port]
        /\ Goto(p, IF port # NotFound /\ port < NumPorts THEN "send" ELSE "flood")
        /\ floodTo' = [floodTo EXCEPT ![p] = 0]
    BY <1>6 DEF LookupDest
  <2>3. 0 \in Ports
    BY DEF Ports
  <2>4. UNCHANGED <<clock, tableVars, running, cur, maintVars, mainVars, historyVars>>
    BY <1>6 DEF LookupDest
  <2>5. pc[p] = "lookup"
    BY <1>6 DEF LookupDest
  <2> HIDE DEF port
  <2>6. \/ pc' = [pc EXCEPT ![p] = "send"] /\ port \in Ports
        \/ pc' = [pc EXCEPT ![p] = "flood"]
    BY <2>1, <2>2 DEF Goto
  <2>9. 0 \in 0 .. NumPorts
    OBVIOUS
  <2>10. /\ dest' \in [Ports -> Ports \cup {NotFound}]
         /\ floodTo' \in [Ports -> 0 .. NumPorts]
    BY <2>1, <2>2, <2>9 DEF TypeOK
  <2>7. TypeOK'
    BY <2>10, <2>4, <2>6 DEF TypeOK, TableTypeOK, tableVars, maintVars, mainVars, historyVars
  <2>8. LocalsOK'
    BY <2>1, <2>2, <2>3, <2>4, <2>5, <2>6, SMTT(30) DEF TypeOK, LocalsOK, InPacket, Ids, historyVars
  <2> QED
    BY <2>7, <2>8
<1>7. ASSUME NEW p \in Ports, SendToDest(p)
      PROVE  TypeInv'
  <2>1. wire' \in [Ports -> Seq(SentRecord)]
    BY <1>7, SendPacketType DEF SendToDest, LocalsOK, InPacket
  <2>2. TypeOK'
    BY <1>7, <2>1 DEF SendToDest, Goto, TypeOK, TableTypeOK, tableVars, maintVars, mainVars
  <2>3. LocalsOK'
    BY <1>7 DEF SendToDest, Goto, TypeOK, LocalsOK, InPacket, Ids
  <2> QED
    BY <2>2, <2>3
<1>8. ASSUME NEW p \in Ports, FloodTurn(p)
      PROVE  TypeInv'
  <2>1. floodTo[p] \in Ports
    BY <1>8 DEF FloodTurn, LocalsOK
  <2>2. wire' \in [Ports -> Seq(SentRecord)]
    <3>1. CASE floodTo[p] # p
      BY <1>8, <2>1, <3>1, SendPacketType DEF FloodTurn, InPacket
    <3>2. CASE floodTo[p] = p
      BY <1>8, <3>2 DEF FloodTurn, TypeOK
    <3> QED
      BY <3>1, <3>2
  <2> DEFINE next == floodTo[p] + 1
  <2>7. next \in 0 .. NumPorts /\ (next < NumPorts => next \in Ports)
    BY <2>1 DEF Ports
  <2>8. /\ floodTo' = [floodTo EXCEPT ![p] = next]
        /\ pc' = [pc EXCEPT ![p] = IF next < NumPorts THEN "flood" ELSE "finish"]
    BY <1>8 DEF FloodTurn, Goto
  <2>9. /\ floodTo \in [Ports -> 0 .. NumPorts]
        /\ p \in DOMAIN pc
    BY DEF TypeOK
  <2> HIDE DEF next
  <2>3. floodTo' \in [Ports -> 0 .. NumPorts]
    BY <2>7, <2>8, <2>9
  <2>4. pc'[p] = "flood" => floodTo'[p] \in Ports
    BY <2>7, <2>8, <2>9
  <2>5. TypeOK'
    BY <1>8, <2>2, <2>3 DEF FloodTurn, Goto, TypeOK, TableTypeOK, tableVars, maintVars, mainVars
  <2>6. LocalsOK'
    BY <1>8, <2>4 DEF FloodTurn, Goto, TypeOK, LocalsOK, InPacket, Ids
  <2> QED
    BY <2>5, <2>6
<1>9. ASSUME NEW p \in Ports, FinishPacket(p)
      PROVE  TypeInv'
  BY SMTT(30), <1>9 DEF FinishPacket, UpdateStats, Goto, TypeOK, TableTypeOK, LocalsOK, InPacket, Ids,
              maintVars, mainVars, historyVars
<1>10. CASE Maintenance
  BY <1>10 DEF Maintenance, MaintCheckRunning, MaintReadClock, MaintAge, AgeEntries,
               TypeOK, TableTypeOK, LocalsOK, Ids, tableVars, captureVars, mainVars, historyVars
<1>11. CASE Main
  <2>1. CASE MainIgnore
    BY <2>1 DEF MainIgnore, TypeOK, TableTypeOK, LocalsOK, Ids,
                tableVars, captureVars, maintVars, historyVars
  <2>2. CASE MainStop
    <3>1. enters' \in Nat
      BY <2>2 DEF MainStop, TypeOK
    <3>2. TypeOK'
      BY <2>2, <3>1 DEF MainStop, TypeOK, TableTypeOK,
                        tableVars, captureVars, maintVars, historyVars
    <3>3. LocalsOK'
      BY <2>2 DEF MainStop, LocalsOK, Ids, captureVars, historyVars
    <3> QED
      BY <3>2, <3>3
  <2>3. CASE MainJoinCapture
    <3>1. idx' \in Ports
      <4>1. idx \in Ports /\ (idx' = 0 \/ (idx + 1 < NumPorts /\ idx' = idx + 1))
        BY <2>3 DEF MainJoinCapture, TypeOK
      <4> QED
        BY <4>1 DEF Ports
    <3>2. mainPc' \in {"join", "joinTable", "close", "done"}
      BY <2>3 DEF MainJoinCapture
    <3>3. TypeOK'
      BY <2>3, <3>1, <3>2 DEF MainJoinCapture, TypeOK, TableTypeOK,
                             tableVars, captureVars, maintVars, historyVars
    <3>4. LocalsOK'
      BY <2>3 DEF MainJoinCapture, LocalsOK, Ids, captureVars, historyVars
    <3> QED
      BY <3>3, <3>4
  <2>4. CASE MainJoinTable
    BY <2>4 DEF MainJoinTable, TypeOK, TableTypeOK, LocalsOK, Ids,
                tableVars, captureVars, maintVars, historyVars
  <2>5. CASE MainCloseHandle
    <3>1. idx' \in Ports
      <4>1. idx \in Ports /\ (idx' = 0 \/ (idx + 1 < NumPorts /\ idx' = idx + 1))
        BY <2>5 DEF MainCloseHandle, TypeOK
      <4> QED
        BY <4>1 DEF Ports
    <3>2. mainPc' \in {"join", "joinTable", "close", "done"}
      BY <2>5 DEF MainCloseHandle
    <3>3. TypeOK'
      BY <2>5, <3>1, <3>2 DEF MainCloseHandle, TypeOK, TableTypeOK,
                             tableVars, captureVars, maintVars, historyVars
    <3>4. LocalsOK'
      BY <2>5 DEF MainCloseHandle, LocalsOK, Ids, captureVars, historyVars
    <3> QED
      BY <3>3, <3>4
  <2> QED
    BY <1>11, <2>1, <2>2, <2>3, <2>4, <2>5 DEF Main
<1>12. CASE Tick
  BY <1>12 DEF Tick, TypeOK, TableTypeOK, LocalsOK, Ids,
               tableVars, captureVars, maintVars, mainVars, historyVars
<1>13. CASE PressEnter
  BY <1>13 DEF PressEnter, TypeOK, TableTypeOK, LocalsOK, Ids,
               tableVars, captureVars, maintVars, historyVars
<1>14. CASE UNCHANGED vars
  BY <1>14 DEF vars, TypeOK, TableTypeOK, LocalsOK, Ids,
               tableVars, captureVars, maintVars, mainVars, historyVars
<1> QED
  BY <1>1, <1>2, <1>3, <1>4, <1>5, <1>6, <1>7, <1>8, <1>9, <1>10, <1>11, <1>12, <1>13, <1>14
     DEF Next, ProcessPacket, Terminated

(* TypeInv holds in every reachable state. *)
LEMMA TypeInvHolds == Spec => []TypeInv
  BY InitTypeInv, NextTypeInv, PTL DEF Spec

(* Type correctness of the switch. *)
THEOREM TypeCorrect == Spec => []TypeOK
<1>1. TypeInv => TypeOK
  BY DEF TypeInv
<1> QED
  BY <1>1, TypeInvHolds, PTL

-----------------------------------------------------------------------------
(* Ageing *)

(* No instant that was ever stored lies in the future.                     *)
TimeInv ==
  /\ mnow <= clock
  /\ lastPass <= clock
  /\ \A m \in Macs : macTable[m].lastSeen <= clock

AgeingInv == TypeInv /\ TimeInv /\ SurvivorsFresh

(* What a step can do to the clock, the table and the instants the         *)
(* maintenance thread keeps: tick, learn one source at the current time,   *)
(* read the clock, age, or nothing of this.                                *)
LEMMA TableStep ==
  ASSUME TypeInv, [Next]_vars
  PROVE  \/ /\ clock' = clock + 1
            /\ UNCHANGED <<macTable, mnow, lastPass>>
         \/ /\ \E m \in Macs, p \in Ports : UpdateEntry(m, p)
            /\ UNCHANGED <<clock, mnow, lastPass>>
         \/ /\ mnow' = clock
            /\ UNCHANGED <<clock, macTable, lastPass>>
         \/ /\ AgeEntries(mnow) /\ lastPass' = mnow
            /\ UNCHANGED <<clock, mnow>>
         \/ UNCHANGED <<clock, macTable, mnow, lastPass>>
<1>1. ASSUME NEW p \in Ports, LearnSource(p)
      PROVE  /\ \E m \in Macs, q \in Ports : UpdateEntry(m, q)
             /\ UNCHANGED <<clock, mnow, lastPass>>
  <2>1. Held(p).src \in Macs
    BY <1>1, HeldType DEF LearnSource, InPacket
  <2> QED
    BY <1>1, <2>1 DEF LearnSource, maintVars, historyVars
<1>2. ASSUME NEW p \in Ports,
             \/ CheckRunning(p) \/ CaptureNothing(p)
             \/ \E f \in Frames : Capture(p, f)
             \/ CountPacket(p) \/ LookupDest(p)
             \/ SendToDest(p) \/ FloodTurn(p) \/ FinishPacket(p)
      PROVE  UNCHANGED <<clock, macTable, mnow, lastPass>>
  BY <1>2 DEF CheckRunning, CaptureNothing, Capture, CountPacket, LookupDest, SendToDest,
              FloodTurn, FinishPacket, tableVars, maintVars, historyVars
<1>3. ASSUME MaintCheckRunning \/ Main \/ PressEnter \/ UNCHANGED vars
      PROVE  UNCHANGED <<clock, macTable, mnow, lastPass>>
  BY <1>3 DEF MaintCheckRunning, Main, MainIgnore, MainStop, MainJoinCapture, MainJoinTable,
              MainCloseHandle, PressEnter, vars, tableVars, maintVars, historyVars
<1>4. CASE MaintReadClock
  BY <1>4 DEF MaintReadClock, tableVars, historyVars
<1>5. CASE MaintAge
  BY <1>5 DEF MaintAge
<1>6. CASE Tick
  BY <1>6 DEF Tick, tableVars, maintVars, historyVars
<1> QED
  BY <1>1, <1>2, <1>3, <1>4, <1>5, <1>6 DEF Next, ProcessPacket, Maintenance, Terminated

(* What is known of the values the ageing arguments compare. *)
LEMMA TableTypes ==
  ASSUME TypeInv
  PROVE  /\ clock \in Nat /\ mnow \in Nat /\ lastPass \in Nat
         /\ macTable \in [Macs -> TableEntry \cup {NoEntry}]
         /\ \A m \in Macs : macTable[m].lastSeen \in Nat
         /\ \A m \in Macs : Known(m) => macTable[m] \in TableEntry
<1>1. /\ clock \in Nat /\ mnow \in Nat /\ lastPass \in Nat
      /\ macTable \in [Macs -> TableEntry \cup {NoEntry}]
  BY DEF TypeInv, TypeOK, TableTypeOK
<1> QED
  BY <1>1 DEF TableEntry, NoEntry, Known

(* Initially nothing is stored. *)
LEMMA InitAgeing == Init => AgeingInv
<1>1. Init => TypeInv
  BY InitTypeInv
<1>2. Init => TimeInv /\ SurvivorsFresh
  BY DEF Init, TableInit, TimeInv, SurvivorsFresh, NoEntry, Known
<1> QED
  BY <1>1, <1>2 DEF AgeingInv

(* No step lets an outlived entry stay through a pass, or stores an        *)
(* instant of the future.                                                  *)
LEMMA NextAgeing == AgeingInv /\ [Next]_vars => AgeingInv'
<1> SUFFICES ASSUME AgeingInv, [Next]_vars
             PROVE  AgeingInv'
  OBVIOUS
<1>1. TypeInv /\ TypeInv'
  BY NextTypeInv DEF AgeingInv
<1>2. /\ clock \in Nat /\ mnow \in Nat /\ lastPass \in Nat
      /\ macTable \in [Macs -> TableEntry \cup {NoEntry}]
      /\ \A m \in Macs : macTable[m].lastSeen \in Nat
  BY <1>1, TableTypes
<1>3. \A m \in Macs : Known(m)' => macTable'[m] \in TableEntry
  BY <1>1 DEF TypeInv, TypeOK, TableTypeOK, Known
<1>4. TimeInv /\ SurvivorsFresh
  BY DEF AgeingInv
<1>5. CASE clock' = clock + 1 /\ UNCHANGED <<macTable, mnow, lastPass>>
  <2>1. TimeInv'
    BY <1>2, <1>4, <1>5 DEF TimeInv
  <2>2. SurvivorsFresh'
    BY <1>4, <1>5 DEF SurvivorsFresh, Known, AgeSec
  <2> QED
    BY <1>1, <2>1, <2>2 DEF AgeingInv
<1>6. CASE /\ \E m \in Macs, p \in Ports : UpdateEntry(m, p)
           /\ UNCHANGED <<clock, mnow, lastPass>>
  <2>1. PICK m \in Macs, p \in Ports : UpdateEntry(m, p)
    BY <1>6
  <2>2. macTable' = [macTable EXCEPT ![m] = [port |-> p, lastSeen |-> clock]]
    BY <2>1 DEF UpdateEntry
  <2>3. macTable'[m].lastSeen = clock
    BY <1>2, <2>2
  <2>4. \A n \in Macs : n # m => macTable'[n] = macTable[n]
    BY <1>2, <2>2
  <2>5. TimeInv'
    BY <1>2, <1>4, <1>6, <2>3, <2>4 DEF TimeInv
  <2>6. ASSUME NEW n \in Macs, MaxLifetimeSec >= 1, Known(n)'
        PROVE  AgeSec(lastPass, macTable'[n]) < MaxLifetimeSec
    <3>1. CASE n = m
      <4>1. macTable'[m] \in TableEntry
        BY <1>3, <2>6, <3>1
      <4>2. lastPass <= macTable'[m].lastSeen
        BY <1>4, <2>3 DEF TimeInv
      <4>3. AgeSec(lastPass, macTable'[m]) \in Int /\ AgeSec(lastPass, macTable'[m]) <= 0
        BY <1>2, <4>1, <4>2, AgeMonotone
      <4> QED
        BY <2>6, <3>1, <4>3
    <3>2. CASE n # m
      BY <1>4, <2>4, <2>6, <3>2 DEF SurvivorsFresh, Known
    <3> QED
      BY <3>1, <3>2
  <2>7. SurvivorsFresh'
    BY <1>6, <2>6 DEF SurvivorsFresh, AgeSec
  <2> QED
    BY <1>1, <2>5, <2>7 DEF AgeingInv
<1>7. CASE mnow' = clock /\ UNCHANGED <<clock, macTable, lastPass>>
  <2>1. TimeInv'
    BY <1>2, <1>4, <1>7 DEF TimeInv
  <2>2. SurvivorsFresh'
    BY <1>4, <1>7 DEF SurvivorsFresh, Known, AgeSec
  <2> QED
    BY <1>1, <2>1, <2>2 DEF AgeingInv
<1>8. CASE AgeEntries(mnow) /\ lastPass' = mnow /\ UNCHANGED <<clock, mnow>>
  <2>1. \A m \in Macs :
          macTable'[m] = IF Outlived(mnow, m) THEN NoEntry ELSE macTable[m]
    BY <1>8 DEF AgeEntries
  <2>2. TimeInv'
    BY <1>2, <1>4, <1>8, <2>1 DEF TimeInv, NoEntry
  <2>3. ASSUME NEW m \in Macs, Known(m)'
        PROVE  AgeSec(mnow, macTable'[m]) < MaxLifetimeSec
    <3>1. ~Outlived(mnow, m) /\ macTable'[m] = macTable[m]
      BY <2>1, <2>3 DEF Known
    <3>2. Known(m) /\ macTable[m] \in TableEntry
      BY <1>3, <2>3, <3>1 DEF Known
    <3>3. AgeSec(mnow, macTable[m]) \in Int
      BY <1>2, <3>2, AgeMonotone
    <3> QED
      BY <3>1, <3>2, <3>3 DEF Outlived
  <2>4. SurvivorsFresh'
    BY <1>8, <2>3 DEF SurvivorsFresh, AgeSec
  <2> QED
    BY <1>1, <2>2, <2>4 DEF AgeingInv
<1>9. CASE UNCHANGED <<clock, macTable, mnow, lastPass>>
  <2>1. TimeInv'
    BY <1>4, <1>9 DEF TimeInv
  <2>2. SurvivorsFresh'
    BY <1>4, <1>9 DEF SurvivorsFresh, Known, AgeSec
  <2> QED
    BY <1>1, <2>1, <2>2 DEF AgeingInv
<1> QED
  BY <1>1, <1>5, <1>6, <1>7, <1>8, <1>9, TableStep

(* AgeingInv holds in every reachable state. *)
LEMMA AgeingInvHolds == Spec => []AgeingInv
  BY InitAgeing, NextAgeing, PTL DEF Spec

(* No entry that had outlived its lifetime when the last pass read the     *)
(* clock is in the table, however refreshes and the pass interleave.       *)
THEOREM SurvivorsAreFresh == Spec => []SurvivorsFresh
<1>1. AgeingInv => SurvivorsFresh
  BY DEF AgeingInv
<1> QED
  BY <1>1, AgeingInvHolds, PTL

(* A pass evicts an entry only if it has outlived its lifetime by now: the *)
(* instant the pass read before taking the lock can only be too early.     *)
THEOREM EvictionIsDue == Spec => NoPrematureEviction
<1>1. ASSUME AgeingInv, [Next]_vars, NEW m \in Macs, Known(m), ~Known(m)'
      PROVE  AgeSec(clock, macTable[m]) >= MaxLifetimeSec
  <2>1. /\ clock \in Nat /\ mnow \in Nat
        /\ macTable \in [Macs -> TableEntry \cup {NoEntry}]
        /\ macTable[m] \in TableEntry
    BY <1>1, TableTypes DEF AgeingInv
  <2>2. mnow <= clock /\ macTable'[m] # macTable[m]
    BY <1>1 DEF AgeingInv, TimeInv, Known
  <2>3. ~\E n \in Macs, p \in Ports : UpdateEntry(n, p)
    <3> SUFFICES ASSUME NEW n \in Macs, NEW p \in Ports, UpdateEntry(n, p)
                 PROVE  FALSE
      OBVIOUS
    <3>1. macTable'[m] = macTable[m] \/ macTable'[m] = [port |-> p, lastSeen |-> clock]
      BY <2>1 DEF UpdateEntry
    <3>2. macTable'[m] = NoEntry
      BY <1>1 DEF Known
    <3>3. macTable'[m].port = NotFound
      BY <3>2 DEF NoEntry
    <3>4. p # NotFound
      BY DEF Ports, NotFound
    <3> QED
      BY <2>2, <3>1, <3>3, <3>4
  <2>4. AgeEntries(mnow)
    BY <1>1, <2>2, <2>3, TableStep DEF AgeingInv
  <2>5. AgeSec(mnow, macTable[m]) >= MaxLifetimeSec
    BY <2>2, <2>4 DEF AgeEntries, Outlived
  <2>6. /\ AgeSec(mnow, macTable[m]) <= AgeSec(clock, macTable[m])
        /\ AgeSec(mnow, macTable[m]) \in Int
        /\ AgeSec(clock, macTable[m]) \in Int
    BY <2>1, <2>2, AgeMonotone
  <2> QED
    BY <2>5, <2>6
<1>2. AgeingInv /\ [Next]_vars =>
        [\A m \in Macs :
           Known(m) /\ ~Known(m)' => AgeSec(clock, macTable[m]) >= MaxLifetimeSec]_vars
  BY <1>1
<1> QED
  BY <1>2, AgeingInvHolds, PTL DEF Spec, NoPrematureEviction

(* The time stamp of an entry that stays in the table never goes back.     *)
THEOREM LastSeenMonotone == Spec => LastSeenNeverRewinds
<1>1. ASSUME AgeingInv, [Next]_vars, NEW m \in Macs, Known(m), Known(m)'
      PROVE  macTable'[m].lastSeen >= macTable[m].lastSeen
  <2>1. /\ clock \in Nat
        /\ macTable \in [Macs -> TableEntry \cup {NoEntry}]
        /\ macTable[m].lastSeen \in Nat
    BY <1>1, TableTypes DEF AgeingInv
  <2>2. macTable[m].lastSeen <= clock
    BY <1>1 DEF AgeingInv, TimeInv
  <2>3. CASE \E n \in Macs, p \in Ports : UpdateEntry(n, p)
    <3>1. PICK n \in Macs, p \in Ports : UpdateEntry(n, p)
      BY <2>3
    <3>2. macTable'[m] = macTable[m] \/ macTable'[m] = [port |-> p, lastSeen |-> clock]
      BY <2>1, <3>1 DEF UpdateEntry
    <3>3. macTable'[m].lastSeen = macTable[m].lastSeen \/ macTable'[m].lastSeen = clock
      BY <3>2
    <3> QED
      BY <2>1, <2>2, <3>3
  <2>4. CASE AgeEntries(mnow)
    <3>1. macTable'[m] = macTable[m]
      BY <1>1, <2>4 DEF AgeEntries, Known
    <3> QED
      BY <2>1, <3>1
  <2>5. CASE UNCHANGED macTable
    BY <2>1, <2>5
  <2> QED
    BY <1>1, <2>3, <2>4, <2>5, TableStep DEF AgeingInv
<1>2. AgeingInv /\ [Next]_vars =>
        [\A m \in Macs :
           Known(m) /\ Known(m)' => macTable'[m].lastSeen >= macTable[m].lastSeen]_vars
  BY <1>1
<1> QED
  BY <1>2, AgeingInvHolds, PTL DEF Spec, LastSeenNeverRewinds

-----------------------------------------------------------------------------
(* Shutdown *)

(* How far main has come with joining the threads, and that it closes no   *)
(* handle before it has joined them all.                                   *)
JoinInv ==
  /\ mainPc = "join" => \A q \in Ports : q < idx => pc[q] = "exited"
  /\ mainPc \in {"joinTable", "close", "done"} => \A q \in Ports : pc[q] = "exited"
  /\ mainPc \in {"close", "done"} => mpc = "exited"
  /\ mainPc \notin {"close", "done"} => open = Ports
  /\ mainPc \in {"ignore", "get"} => idx = 0

ShutdownInv == TypeInv /\ JoinInv

(* Before main joins, no thread matters; the loop variable is zero.        *)
LEMMA InitShutdown == Init => ShutdownInv
<1>1. Init => JoinInv
  BY DEF Init, JoinInv
<1> QED
  BY <1>1, InitTypeInv DEF ShutdownInv

(* A thread that has exited stays so, and main advances only over exited ones. *)
LEMMA NextShutdown == ShutdownInv /\ [Next]_vars => ShutdownInv'
<1> SUFFICES ASSUME TypeInv, JoinInv, [Next]_vars
             PROVE  JoinInv'
  BY NextTypeInv DEF ShutdownInv
<1>0. /\ pc \in [Ports -> {"loop", "next", "count", "learn", "lookup", "send",
                           "flood", "finish", "exited"}]
      /\ idx \in Ports
  BY DEF TypeInv, TypeOK
<1>1. ASSUME NEW p \in Ports,
             \/ CheckRunning(p) \/ CaptureNothing(p)
             \/ \E f \in Frames : Capture(p, f)
             \/ ProcessPacket(p)
      PROVE  JoinInv'
  <2>1. /\ pc[p] # "exited"
        /\ UNCHANGED <<mainPc, idx, open, mpc>>
        /\ \A q \in Ports : q # p => pc'[q] = pc[q]
    BY <1>0, <1>1
       DEF CheckRunning, CaptureNothing, Capture, ProcessPacket, CountPacket, LearnSource,
           LookupDest, SendToDest, FloodTurn, FinishPacket, Goto, maintVars, mainVars
  <2> QED
    BY <2>1 DEF JoinInv
<1>2. CASE Maintenance
  <2>1. mpc # "exited" /\ UNCHANGED <<mainPc, idx, open, pc>>
    BY <1>2 DEF Maintenance, MaintCheckRunning, MaintReadClock, MaintAge, captureVars, mainVars
  <2> QED
    BY <2>1 DEF JoinInv
<1>3. CASE MainIgnore
  BY <1>3 DEF MainIgnore, JoinInv, captureVars, maintVars
<1>4. CASE MainStop
  <2>1. \A q \in Ports : ~(q < 0)
    BY DEF Ports
  <2>2. mainPc = "get" /\ mainPc' = "join" /\ UNCHANGED <<idx, open, pc, mpc>>
    BY <1>4 DEF MainStop, captureVars, maintVars
  <2> QED
    BY <2>1, <2>2 DEF JoinInv
<1>5. CASE MainJoinCapture
  <2>1. /\ mainPc = "join" /\ pc[idx] = "exited"
        /\ UNCHANGED <<open, pc, mpc>>
    BY <1>5 DEF MainJoinCapture, captureVars, maintVars
  <2>2. \A q \in Ports : q < idx + 1 => pc[q] = "exited"
    <3> SUFFICES ASSUME NEW q \in Ports, q < idx + 1
                 PROVE  pc[q] = "exited"
      OBVIOUS
    <3>1. q < idx \/ q = idx
      BY <1>0 DEF Ports
    <3> QED
      BY <2>1, <3>1 DEF JoinInv
  <2>3. CASE idx + 1 < NumPorts
    <3>1. idx' = idx + 1 /\ mainPc' = "join"
      BY <1>5, <2>1, <2>3 DEF MainJoinCapture
    <3> QED
      BY <2>1, <2>2, <3>1 DEF JoinInv
  <2>4. CASE ~(idx + 1 < NumPorts)
    <3>1. idx' = 0 /\ mainPc' = "joinTable"
      BY <1>5, <2>4 DEF MainJoinCapture
    <3>2. \A q \in Ports : q < idx + 1
      BY <1>0, <2>4 DEF Ports
    <3> QED
      BY <2>1, <2>2, <3>1, <3>2 DEF JoinInv
  <2> QED
    BY <2>3, <2>4
<1>6. CASE MainJoinTable
  BY <1>6 DEF MainJoinTable, JoinInv, captureVars, maintVars
<1>7. CASE MainCloseHandle
  <2>1. mainPc = "close" /\ mainPc' \in {"close", "done"} /\ UNCHANGED <<pc, mpc>>
    BY <1>7 DEF MainCloseHandle, captureVars, maintVars
  <2> QED
    BY <2>1 DEF JoinInv
<1>8. CASE Tick \/ PressEnter \/ UNCHANGED vars
  <2>1. UNCHANGED <<mainPc, idx, open, pc, mpc>>
    BY <1>8 DEF Tick, PressEnter, vars, captureVars, maintVars, mainVars
  <2> QED
    BY <2>1 DEF JoinInv
<1> QED
  BY <1>1, <1>2, <1>3, <1>4, <1>5, <1>6, <1>7, <1>8 DEF Next, Main, Terminated

(* While a capture thread can touch a handle all handles are open, and     *)
(* when main returns no thread is left that could touch the table.         *)
THEOREM NothingUsedAfterClose == Spec => []ResourcesOutliveThreads
<1>1. ShutdownInv => ResourcesOutliveThreads
  <2> SUFFICES ASSUME ShutdownInv
               PROVE  ResourcesOutliveThreads
    OBVIOUS
  <2>1. JoinInv /\ mainPc \in {"ignore", "get", "join", "joinTable", "close", "done"}
    BY DEF ShutdownInv, TypeInv, TypeOK
  <2> QED
    BY <2>1 DEF JoinInv, ResourcesOutliveThreads
<1> QED
  BY <1>1, InitShutdown, NextShutdown, PTL DEF Spec

-----------------------------------------------------------------------------
(* Forwarding and learning: the switch implements the forwarding plane,    *)
(* every frame leaves by the ports it should, and the table follows a host *)
(* that moves.                                                             *)

(* The egress of every frame and the ports where every host was seen, as   *)
(* functions, and the frames for which what is due has been done.          *)
egress == [i \in Ids |-> Plane!Egress(i)]
seen == [m \in Macs |-> Plane!SeenOn(m)]
done ==
  {i \in Ids :
     LET f == captured[i].frame
     IN IF f.src = f.dst THEN egress[i] = {}
        ELSE \/ \E q \in seen[f.dst] : egress[i] = {q}
             \/ egress[i] = Ports \ {captured[i].port}}

(* A thread holds a frame of its own port, the last one captured there. *)
Origin ==
  \A p \in Ports : cur[p] # 0 =>
    /\ cur[p] \in Ids /\ captured[cur[p]].port = p
    /\ \A i \in Ids : captured[i].port = p => i <= cur[p]

(* Only captured frames are sent. *)
WireIds == \A q \in Ports : \A k \in DOMAIN wire[q] : wire[q][k].id \in Ids

(* Where the frame of thread p has been sent so far. *)
Progress(p) ==
  /\ pc[p] \in {"count", "learn", "lookup", "send"} => egress[cur[p]] = {}
  /\ pc[p] = "flood" => egress[cur[p]] = {q \in Ports : q < floodTo[p]} \ {p}
  /\ pc[p] = "finish" => cur[p] \in done
  /\ pc[p] \in {"learn", "lookup", "send", "flood"} => Held(p).src # Held(p).dst
  /\ pc[p] = "send" => dest[p] \in seen[Held(p).dst]

(* A port the table names is one on which the host has been a source. *)
TableSeen == \A m \in Macs : Known(m) => macTable[m].port \in seen[m]

(* What is due has been done for every frame that no thread holds. *)
AllDone == \A i \in Ids : (\A p \in Ports : cur[p] # i) => i \in done

ForwardingInv ==
  /\ TypeInv /\ Origin /\ WireIds /\ TableSeen
  /\ \A p \in Ports : Progress(p)
  /\ AllDone

-----------------------------------------------------------------------------
(* What the steps do to the frames captured and sent *)

(* The types the arguments below need. *)
LEMMA ForwardingTypes ==
  ASSUME TypeInv
  PROVE  /\ captured \in Seq(CaptureRecord) /\ Len(captured) \in Nat
         /\ Ids = 1 .. Len(captured)
         /\ wire \in [Ports -> Seq(SentRecord)]
         /\ cur \in [Ports -> Nat]
         /\ dest \in [Ports -> Ports \cup {NotFound}]
         /\ floodTo \in [Ports -> 0 .. NumPorts]
         /\ pc \in [Ports -> {"loop", "next", "count", "learn", "lookup", "send",
                              "flood", "finish", "exited"}]
         /\ \A p \in Ports : pc[p] \in InPacket <=> cur[p] # 0
         /\ \A p \in Ports : pc[p] \in InPacket => cur[p] \in Ids
         /\ \A p \in Ports : p \in Nat
<1>1. captured \in Seq(CaptureRecord)
  BY DEF TypeInv, TypeOK
<1>2. Ids = 1 .. Len(captured) /\ Len(captured) \in Nat
  BY <1>1 DEF Ids
<1>3. \A p \in Ports : pc[p] \in InPacket <=> cur[p] # 0
  BY <1>2 DEF TypeInv, LocalsOK
<1> QED
  BY <1>1, <1>2, <1>3 DEF TypeInv, TypeOK, LocalsOK, Ports

(* A step that sends frame cur[p] to port q adds q to the egress of that   *)
(* frame and changes no other.                                             *)
LEMMA SendEgress ==
  ASSUME TypeInv, WireIds, NEW p \in Ports, pc[p] \in InPacket, NEW q \in Ports,
         SendPacket(p, q), UNCHANGED captured
  PROVE  /\ egress' = [egress EXCEPT ![cur[p]] = @ \cup {q}]
         /\ WireIds'
<1> DEFINE msg == [id |-> cur[p], frame |-> PacketToSend(Held(p))]
           Sent(i, r) == \E k \in DOMAIN wire[r] : wire[r][k].id = i
           Sent2(i, r) == \E k \in DOMAIN wire'[r] : wire'[r][k].id = i
<1>1. /\ wire \in [Ports -> Seq(SentRecord)] /\ cur[p] \in Ids
  BY ForwardingTypes
<1>2. wire' = [wire EXCEPT ![q] = Append(wire[q], msg)] /\ msg.id = cur[p]
  BY DEF SendPacket
<1>3. msg \in SentRecord
  BY HeldType, PacketToSendType DEF SentRecord
<1> HIDE DEF msg
<1>4. wire[q] \in Seq(SentRecord)
  BY <1>1
<1>5. wire'[q] = Append(wire[q], msg) /\ \A r \in Ports : r # q => wire'[r] = wire[r]
  BY <1>1, <1>2
<1>6. /\ DOMAIN wire'[q] = (DOMAIN wire[q]) \cup {Len(wire[q]) + 1}
      /\ \A k \in DOMAIN wire[q] : wire'[q][k] = wire[q][k]
      /\ wire'[q][Len(wire[q]) + 1] = msg
  BY <1>3, <1>4, <1>5
<1>7. \A i : Sent2(i, q) <=> Sent(i, q) \/ i = cur[p]
  BY <1>2, <1>6
<1>8. \A i : \A r \in Ports : r # q => (Sent2(i, r) <=> Sent(i, r))
  BY <1>5
<1>9. WireIds'
  BY <1>1, <1>2, <1>5, <1>6 DEF WireIds, Ids
<1>10. \A i : /\ Plane!Egress(i) = {r \in Ports : Sent(i, r)}
              /\ Plane!Egress(i)' = {r \in Ports : Sent2(i, r)}
  BY DEF Plane!Egress
<1> HIDE DEF Sent, Sent2
<1>11. ASSUME NEW i \in Ids
       PROVE  egress'[i] = IF i = cur[p] THEN egress[i] \cup {q} ELSE egress[i]
  <2>1. egress[i] = {r \in Ports : Sent(i, r)}
    BY <1>10 DEF egress
  <2>2. egress'[i] = {r \in Ports : Sent2(i, r)}
    BY <1>10 DEF egress, Ids
  <2>3. CASE i = cur[p]
    <3>1. \A r \in Ports : Sent2(i, r) <=> Sent(i, r) \/ r = q
      BY <1>7, <1>8, <2>3
    <3> QED
      BY <2>1, <2>2, <2>3, <3>1
  <2>4. CASE i # cur[p]
    <3>1. \A r \in Ports : Sent2(i, r) <=> Sent(i, r)
      BY <1>7, <1>8, <2>4
    <3> QED
      BY <2>1, <2>2, <2>4, <3>1
  <2> QED
    BY <2>3, <2>4
<1>12. /\ egress = [i \in Ids |-> egress[i]]
       /\ egress' = [i \in Ids |-> egress'[i]]
  BY DEF egress, Ids
<1>13. egress' = [egress EXCEPT ![cur[p]] = @ \cup {q}]
  BY <1>1, <1>11, <1>12
<1> QED
  BY <1>9, <1>13

(* What the other threads keep. *)
OthersUnchanged(p) ==
  \A r \in Ports : r # p => /\ pc'[r] = pc[r] /\ cur'[r] = cur[r]
                            /\ dest'[r] = dest[r] /\ floodTo'[r] = floodTo[r]

(* Frames captured stay where they are, and only that of thread p is sent. *)
FramesKept(p) ==
  \A i \in Ids : /\ i \in Ids' /\ captured'[i] = captured[i]
                 /\ i # cur[p] => egress'[i] = egress[i]

(* A step of thread p takes nothing away from what is due to the frames of *)
(* the other threads and to the frames no thread holds any more.           *)
LEMMA OthersKept ==
  ASSUME TypeInv, Origin, \A r \in Ports : Progress(r),
         NEW p \in Ports, OthersUnchanged(p), FramesKept(p)
  PROVE  /\ \A m \in Macs : seen[m] \subseteq seen'[m]
         /\ \A i \in done : i # cur[p] => i \in done'
         /\ \A r \in Ports : r # p => Progress(r)'
<1>1. ASSUME NEW m \in Macs PROVE seen[m] \subseteq seen'[m]
  <2>1. \A i \in DOMAIN captured : i \in DOMAIN captured' /\ captured'[i] = captured[i]
    BY DEF FramesKept, Ids
  <2> QED
    BY <2>1 DEF seen, Plane!SeenOn, Plane!Ids
<1>2. ASSUME NEW i \in done, i # cur[p]
      PROVE  i \in done'
  <2>1. /\ i \in Ids' /\ captured'[i] = captured[i] /\ egress'[i] = egress[i]
        /\ captured[i].frame.dst \in Macs
    <3>1. i \in Ids
      BY DEF done
    <3>2. captured[i] \in CaptureRecord
      BY <3>1, ForwardingTypes
    <3> QED
      BY <1>2, <3>1, <3>2 DEF FramesKept, CaptureRecord, FrameType
  <2> QED
    BY <1>1, <2>1 DEF done
<1>3. ASSUME NEW r \in Ports, r # p
      PROVE  Progress(r)'
  <2>1. /\ pc'[r] = pc[r] /\ cur'[r] = cur[r] /\ dest'[r] = dest[r] /\ floodTo'[r] = floodTo[r]
    BY <1>3 DEF OthersUnchanged
  <2>2. CASE pc[r] \notin InPacket
    BY <2>1, <2>2 DEF Progress, InPacket
  <2>3. CASE pc[r] \in InPacket
    <3>1. cur[r] \in Ids /\ cur[r] # 0 /\ Held(r).dst \in Macs
      BY <2>3, ForwardingTypes, HeldType
    <3>2. cur[r] # cur[p]
      BY <1>3, <3>1 DEF Origin
    <3>3. captured'[cur[r]] = captured[cur[r]] /\ egress'[cur[r]] = egress[cur[r]]
      BY <3>1, <3>2 DEF FramesKept
    <3>4. cur[r] \in done => cur[r] \in done'
      BY <1>2, <3>2
    <3>5. Progress(r)
      OBVIOUS
    <3> QED
      BY <1>1, <2>1, <3>1, <3>3, <3>4, <3>5 DEF Progress, Held
  <2> QED
    BY <2>2, <2>3
<1> QED
  BY <1>1, <1>2, <1>3

(* What remains to be shown of a step of thread p. *)
LEMMA ThreadStep ==
  ASSUME ForwardingInv, NEW p \in Ports, OthersUnchanged(p), FramesKept(p),
         TypeInv', Origin', WireIds', TableSeen', Progress(p)',
         \A i \in Ids' : i \in Ids \/ i = cur'[p],
         cur'[p] = cur[p] \/ cur[p] = 0 \/ cur[p] \in done'
  PROVE  ForwardingInv'
<1>1. \A r \in Ports : Progress(r)'
  BY OthersKept DEF ForwardingInv
<1>2. ASSUME NEW i \in Ids', \A r \in Ports : cur'[r] # i
      PROVE  i \in done'
  <2>1. i \in Ids /\ i # 0
    BY <1>2, ForwardingTypes DEF ForwardingInv
  <2>2. CASE i = cur[p]
    BY <1>2, <2>1, <2>2
  <2>3. CASE i # cur[p]
    <3>1. \A r \in Ports : cur[r] # i
      BY <1>2, <2>3 DEF OthersUnchanged
    <3>2. i \in done
      BY <2>1, <3>1 DEF ForwardingInv, AllDone
    <3> QED
      BY <2>3, <3>2, OthersKept DEF ForwardingInv
  <2> QED
    BY <2>2, <2>3
<1>3. AllDone'
  BY <1>2 DEF AllDone
<1> QED
  BY <1>1, <1>3 DEF ForwardingInv

(* A step that captures and sends nothing. *)
LEMMA StillStep ==
  ASSUME ForwardingInv, NEW p \in Ports, OthersUnchanged(p), UNCHANGED <<captured, wire, cur>>,
         TypeInv', TableSeen', Progress(p)'
  PROVE  ForwardingInv'
<1>1. Ids' = Ids /\ egress' = egress
  BY DEF Ids, egress, Plane!Egress
<1>2. FramesKept(p) /\ Origin' /\ WireIds'
  BY <1>1 DEF FramesKept, ForwardingInv, Origin, WireIds
<1> QED
  BY <1>1, <1>2, ThreadStep

(* A step that leaves the frames alone, and the table but for entries it   *)
(* removes. *)
LEMMA TableSeenKept ==
  ASSUME TableSeen, UNCHANGED captured,
         \A m \in Macs : Known(m)' => Known(m) /\ macTable'[m] = macTable[m]
  PROVE  TableSeen' /\ seen' = seen
<1>1. seen' = seen
  BY DEF seen, Plane!SeenOn, Plane!Ids
<1> QED
  BY <1>1 DEF TableSeen

(* A thread that has no frame in hand, or that has sent none of it. *)
LEMMA BeforeSending ==
  ASSUME ForwardingInv, [Next]_vars, NEW p \in Ports,
         CheckRunning(p) \/ CaptureNothing(p) \/ CountPacket(p) \/ LearnSource(p) \/ LookupDest(p)
  PROVE  ForwardingInv'
<1> USE DEF ForwardingInv
<1>1. TypeInv'
  BY NextTypeInv
<1>2. /\ pc \in [Ports -> {"loop", "next", "count", "learn", "lookup", "send",
                          "flood", "finish", "exited"}]
      /\ dest \in [Ports -> Ports \cup {NotFound}] /\ floodTo \in [Ports -> 0 .. NumPorts]
      /\ macTable \in [Macs -> TableEntry \cup {NoEntry}]
  BY ForwardingTypes, TableTypes
<1>3. OthersUnchanged(p) /\ UNCHANGED <<captured, wire, cur>>
  BY <1>2 DEF CheckRunning, CaptureNothing, CountPacket, LearnSource, LookupDest, Goto,
              historyVars, OthersUnchanged
<1>4. Ids' = Ids /\ egress' = egress /\ seen' = seen /\ done' = done
  BY <1>3 DEF Ids, egress, Plane!Egress, seen, Plane!SeenOn, Plane!Ids, done
<1>5. Progress(p)
  OBVIOUS
<1>6. CASE CheckRunning(p) \/ CaptureNothing(p)
  <2>1. pc'[p] \in {"loop", "next", "exited"} /\ UNCHANGED macTable
    BY <1>2, <1>6 DEF CheckRunning, CaptureNothing, Goto, tableVars
  <2>2. Progress(p)'
    BY <2>1 DEF Progress
  <2>3. TableSeen'
    BY <1>4, <2>1 DEF TableSeen, Known
  <2> QED
    BY <1>1, <1>3, <2>2, <2>3, StillStep
<1>7. CASE CountPacket(p)
  <2>1. /\ pc[p] = "count" /\ UNCHANGED macTable
        /\ pc'[p] = IF Held(p).src = Held(p).dst THEN "finish" ELSE "learn"
    BY <1>2, <1>7 DEF CountPacket, Goto
  <2>2. cur[p] \in Ids /\ egress[cur[p]] = {}
    BY <1>5, <2>1, ForwardingTypes DEF Progress, InPacket
  <2>3. Held(p).src = Held(p).dst => cur[p] \in done
    BY <2>2 DEF done, Held
  <2>4. Progress(p)'
    BY <1>3, <1>4, <2>1, <2>2, <2>3 DEF Progress, Held
  <2>5. TableSeen'
    BY <1>4, <2>1 DEF TableSeen, Known
  <2> QED
    BY <1>1, <1>3, <2>4, <2>5, StillStep
<1>8. CASE LearnSource(p)
  <2> DEFINE m == Held(p).src
  <2>1. /\ pc[p] = "learn" /\ pc'[p] = "lookup" /\ UpdateEntry(m, p)
    BY <1>2, <1>8 DEF LearnSource, Goto
  <2>2. cur[p] \in Ids /\ m \in Macs /\ m # Held(p).dst /\ captured[cur[p]].port = p
    BY <1>5, <2>1, ForwardingTypes, HeldType DEF Progress, InPacket, Origin
  <2>3. p \in seen[m]
    BY <2>2 DEF seen, Plane!SeenOn, Plane!Ids, Ids, Held
  <2>4. macTable'[m].port = p /\ \A n \in Macs : n # m => macTable'[n] = macTable[n]
    BY <1>2, <2>1, <2>2 DEF UpdateEntry
  <2> HIDE DEF m
  <2>5. TableSeen'
    BY <1>4, <2>3, <2>4 DEF TableSeen, Known
  <2>6. Progress(p)'
    BY <1>3, <1>4, <1>5, <2>1 DEF Progress, Held
  <2> QED
    BY <1>1, <1>3, <2>5, <2>6, StillStep
<1>9. CASE LookupDest(p)
  <2> DEFINE m == Held(p).dst
             port == GetPortForMac(m)
  <2>1. /\ pc[p] = "lookup" /\ UNCHANGED macTable /\ floodTo'[p] = 0 /\ dest'[p] = port
        /\ pc'[p] = IF port # NotFound /\ port < NumPorts THEN "send" ELSE "flood"
    BY <1>2, <1>9 DEF LookupDest, Goto, tableVars
  <2>2. m \in Macs /\ egress[cur[p]] = {} /\ Held(p).src # m
    BY <1>5, <2>1, HeldType DEF Progress, InPacket
  <2>3. port # NotFound => port \in seen[m]
    BY <2>2 DEF GetPortForMac, TableSeen
  <2>4. {q \in Ports : q < 0} = {}
    BY DEF Ports
  <2> HIDE DEF port
  <2>5. Held(p)' = Held(p)
    BY <1>3 DEF Held
  <2>6. Progress(p)'
    BY <1>3, <1>4, <2>1, <2>2, <2>3, <2>4, <2>5 DEF Progress
  <2>7. TableSeen'
    BY <1>4, <2>1 DEF TableSeen, Known
  <2> QED
    BY <1>1, <1>3, <2>6, <2>7, StillStep
<1> QED
  BY <1>6, <1>7, <1>8, <1>9

(* A frame newly captured is the last one of its port, and is not sent. *)
LEMMA Capturing ==
  ASSUME ForwardingInv, [Next]_vars, NEW p \in Ports, NEW f \in Frames, Capture(p, f)
  PROVE  ForwardingInv' /\ captured' = Append(captured, [port |-> p, frame |-> f])
<1> USE DEF ForwardingInv
<1> DEFINE n == Len(captured) + 1
           rec == [port |-> p, frame |-> f]
<1>1. TypeInv'
  BY NextTypeInv
<1>2. /\ captured \in Seq(CaptureRecord) /\ Len(captured) \in Nat /\ Ids = 1 .. Len(captured)
      /\ pc[p] = "next" /\ cur[p] = 0 /\ wire \in [Ports -> Seq(SentRecord)]
  BY ForwardingTypes DEF Capture, InPacket
<1>3. rec \in CaptureRecord /\ captured' = Append(captured, rec) /\ rec.port = p
  BY DEF Capture, CaptureRecord
<1> HIDE DEF rec
<1>4. /\ Ids' = Ids \cup {n} /\ n \notin Ids /\ captured'[n] = rec
      /\ \A i \in Ids : captured'[i] = captured[i]
  BY <1>2, <1>3 DEF Ids
<1>5. /\ cur'[p] = n /\ pc'[p] = "count" /\ UNCHANGED <<wire, macTable>>
      /\ OthersUnchanged(p)
  BY ForwardingTypes DEF Capture, Goto, tableVars, OthersUnchanged
<1>6. \A i \in Ids : egress'[i] = egress[i]
  BY <1>4, <1>5 DEF egress, Plane!Egress
<1>7. egress'[n] = {}
  <2>1. \A q \in Ports : \A k \in DOMAIN wire[q] : wire[q][k].id # n
    BY <1>4 DEF WireIds
  <2> QED
    BY <1>4, <1>5, <2>1 DEF egress, Plane!Egress
<1>8. FramesKept(p)
  BY <1>4, <1>6 DEF FramesKept
<1>9. Origin'
  <2>1. \A i \in Ids : i <= n
    BY <1>2
  <2>2. \A r \in Ports : r # p => cur'[r] = cur[r]
    BY <1>5 DEF OthersUnchanged
  <2> HIDE DEF n
  <2>3. n \in Ids' /\ captured'[n].port = p /\ \A i \in Ids' : captured'[i].port = p => i <= n
    <3>1. n <= n
      BY <1>2 DEF n
    <3> QED
      BY <1>3, <1>4, <2>1, <3>1
  <2>4. ASSUME NEW r \in Ports, r # p, cur[r] # 0
        PROVE  /\ cur[r] \in Ids' /\ captured'[cur[r]].port = r
               /\ \A i \in Ids' : captured'[i].port = r => i <= cur[r]
    BY <1>3, <1>4, <2>4 DEF Origin
  <2> QED
    BY <1>5, <2>2, <2>3, <2>4 DEF Origin
<1>10. WireIds'
  BY <1>4, <1>5 DEF WireIds
<1>11. TableSeen'
  <2>1. \A m \in Macs : seen[m] \subseteq seen'[m]
    BY <1>5, <1>8, OthersKept
  <2> QED
    BY <1>5, <2>1 DEF TableSeen, Known
<1>12. Progress(p)'
  BY <1>5, <1>7 DEF Progress
<1>13. ForwardingInv'
  BY <1>1, <1>2, <1>4, <1>5, <1>8, <1>9, <1>10, <1>11, <1>12, ThreadStep
<1> QED
  BY <1>3, <1>13 DEF rec

(* A step that sends frame cur[p] to port q, when it may: its frame is not *)
(* there yet, and the thread has made its progress.                        *)
LEMMA Sending ==
  ASSUME ForwardingInv, TypeInv', NEW p \in Ports, pc[p] \in InPacket, NEW q \in Ports,
         SendPacket(p, q), UNCHANGED <<captured, cur, macTable>>, OthersUnchanged(p),
         egress' = [egress EXCEPT ![cur[p]] = @ \cup {q}] => Progress(p)'
  PROVE  ForwardingInv'
<1> USE DEF ForwardingInv
<1>1. egress' = [egress EXCEPT ![cur[p]] = @ \cup {q}] /\ WireIds'
  BY SendEgress
<1>2. Ids' = Ids /\ seen' = seen
  BY DEF Ids, seen, Plane!SeenOn, Plane!Ids
<1>3. egress = [i \in Ids |-> egress[i]]
  BY DEF egress
<1>4. FramesKept(p) /\ Origin'
  BY <1>1, <1>2, <1>3 DEF FramesKept, Origin
<1>5. TableSeen'
  BY <1>2 DEF TableSeen, Known
<1> QED
  BY <1>1, <1>2, <1>4, <1>5, ThreadStep

(* The send to the port the table named is all that is due. *)
LEMMA SendToDestInv ==
  ASSUME ForwardingInv, [Next]_vars, NEW p \in Ports, SendToDest(p)
  PROVE  ForwardingInv'
<1> USE DEF ForwardingInv
<1>1. TypeInv'
  BY NextTypeInv
<1>2. /\ pc[p] = "send" /\ pc'[p] = "finish" /\ OthersUnchanged(p) /\ SendPacket(p, dest[p])
      /\ UNCHANGED <<captured, cur, macTable>>
  BY ForwardingTypes DEF SendToDest, Goto, tableVars, OthersUnchanged
<1>3. /\ dest[p] \in Ports /\ cur[p] \in Ids /\ pc[p] \in InPacket
  BY <1>2, ForwardingTypes DEF TypeInv, LocalsOK, InPacket
<1>4. /\ egress[cur[p]] = {} /\ Held(p).src # Held(p).dst /\ dest[p] \in seen[Held(p).dst]
  BY <1>2 DEF Progress
<1>5. ASSUME egress' = [egress EXCEPT ![cur[p]] = @ \cup {dest[p]}]
      PROVE  Progress(p)'
  <2>1. egress'[cur[p]] = {dest[p]}
    <3>1. egress = [i \in Ids |-> egress[i]]
      BY DEF egress
    <3> QED
      BY <1>3, <1>4, <1>5, <3>1
  <2>2. seen' = seen /\ Ids' = Ids
    BY <1>2 DEF seen, Plane!SeenOn, Plane!Ids, Ids
  <2>3. cur[p] \in done'
    BY <1>2, <1>3, <1>4, <2>1, <2>2 DEF done, Held
  <2> QED
    BY <1>2, <2>3 DEF Progress
<1> QED
  BY <1>1, <1>2, <1>3, <1>5, Sending

(* A turn of the flood adds the port of the loop, unless it is the ingress. *)
LEMMA FloodTurnInv ==
  ASSUME ForwardingInv, [Next]_vars, NEW p \in Ports, FloodTurn(p)
  PROVE  ForwardingInv'
<1> USE DEF ForwardingInv
<1> DEFINE q == floodTo[p]
           next == q + 1
<1>1. TypeInv'
  BY NextTypeInv
<1>2. /\ pc[p] = "flood" /\ floodTo'[p] = next /\ OthersUnchanged(p)
      /\ pc'[p] = IF next < NumPorts THEN "flood" ELSE "finish"
      /\ IF q # p THEN SendPacket(p, q) ELSE UNCHANGED wire
      /\ UNCHANGED <<captured, cur, macTable>>
  BY ForwardingTypes DEF FloodTurn, Goto, tableVars, OthersUnchanged
<1>3. q \in Ports /\ q \in Nat /\ cur[p] \in Ids /\ pc[p] \in InPacket
  BY <1>2, ForwardingTypes DEF TypeInv, LocalsOK, InPacket
<1>4. /\ egress[cur[p]] = {r \in Ports : r < q} \ {p} /\ Held(p).src # Held(p).dst
  BY <1>2 DEF Progress
<1>5. {r \in Ports : r < next} = {r \in Ports : r < q} \cup {q}
  BY <1>3 DEF Ports
<1>6. ~(next < NumPorts) => {r \in Ports : r < next} = Ports
  BY <1>3 DEF Ports
<1>7. seen' = seen /\ Ids' = Ids /\ Held(p)' = Held(p)
  BY <1>2 DEF seen, Plane!SeenOn, Plane!Ids, Ids, Held
<1>8. captured[cur[p]].port = p
  BY <1>3, ForwardingTypes DEF Origin
<1> HIDE DEF next
<1>9. ASSUME egress'[cur[p]] = {r \in Ports : r < next} \ {p}
      PROVE  Progress(p)'
  <2>1. CASE next < NumPorts
    BY <1>2, <1>4, <1>7, <1>9, <2>1 DEF Progress
  <2>2. CASE ~(next < NumPorts)
    <3>1. egress'[cur[p]] = Ports \ {p}
      BY <1>6, <1>9, <2>2
    <3>2. cur[p] \in done'
      BY <1>2, <1>3, <1>4, <1>7, <1>8, <3>1 DEF done, Held
    <3> QED
      BY <1>2, <2>2, <3>2 DEF Progress
  <2> QED
    BY <2>1, <2>2
<1>10. CASE q # p
  <2>1. ASSUME egress' = [egress EXCEPT ![cur[p]] = @ \cup {q}]
        PROVE  Progress(p)'
    <3>1. egress = [i \in Ids |-> egress[i]]
      BY DEF egress
    <3>2. egress'[cur[p]] = ({r \in Ports : r < q} \ {p}) \cup {q}
      BY <1>3, <1>4, <2>1, <3>1
    <3>3. egress'[cur[p]] = {r \in Ports : r < next} \ {p}
      BY <1>5, <1>10, <3>2
    <3> QED
      BY <1>9, <3>3
  <2>2. SendPacket(p, q)
    BY <1>2, <1>10
  <2> HIDE DEF q
  <2> QED
    BY <1>1, <1>2, <1>3, <2>1, <2>2, Sending
<1>11. CASE q = p
  <2>1. UNCHANGED wire
    BY <1>2, <1>11
  <2>2. egress' = egress
    BY <1>7, <2>1 DEF egress, Plane!Egress
  <2>3. egress'[cur[p]] = {r \in Ports : r < next} \ {p}
    BY <1>4, <1>5, <1>11, <2>2
  <2>4. Progress(p)'
    BY <1>9, <2>3
  <2>5. TableSeen'
    BY <1>2, <1>7 DEF TableSeen, Known
  <2> QED
    BY <1>1, <1>2, <2>1, <2>4, <2>5, StillStep
<1> QED
  BY <1>10, <1>11

(* When a thread lets its frame go, what is due to it has been done. *)
LEMMA FinishInv ==
  ASSUME ForwardingInv, [Next]_vars, NEW p \in Ports, FinishPacket(p)
  PROVE  ForwardingInv' /\ UNCHANGED <<captured, wire>>
<1> USE DEF ForwardingInv
<1>1. TypeInv'
  BY NextTypeInv
<1>2. /\ pc[p] = "finish" /\ pc'[p] = "loop" /\ cur'[p] = 0 /\ OthersUnchanged(p)
      /\ UNCHANGED <<captured, wire, macTable>>
  BY ForwardingTypes DEF FinishPacket, Goto, historyVars, OthersUnchanged
<1>3. Ids' = Ids /\ egress' = egress /\ seen' = seen /\ done' = done
  BY <1>2 DEF Ids, egress, Plane!Egress, seen, Plane!SeenOn, Plane!Ids, done
<1>4. FramesKept(p) /\ WireIds' /\ TableSeen'
  BY <1>2, <1>3 DEF FramesKept, WireIds, TableSeen, Known
<1>5. Origin'
  BY <1>2, <1>3 DEF Origin, OthersUnchanged
<1>6. Progress(p)' /\ cur[p] \in done'
  BY <1>2, <1>3 DEF Progress
<1>7. ForwardingInv'
  BY <1>1, <1>2, <1>3, <1>4, <1>5, <1>6, ThreadStep
<1> QED
  BY <1>2, <1>7

(* The other threads and the environment handle no frames; ageing only     *)
(* removes entries.                                                        *)
LEMMA ElsewhereInv ==
  ASSUME ForwardingInv, [Next]_vars,
         Maintenance \/ Main \/ Tick \/ PressEnter \/ UNCHANGED vars
  PROVE  /\ ForwardingInv' /\ UNCHANGED <<captured, wire, captureVars, solo>>
         /\ \A m \in Macs : Known(m)' => Known(m) /\ macTable'[m] = macTable[m]
<1> USE DEF ForwardingInv
<1>1. UNCHANGED <<captured, wire, captureVars, solo>>
  BY DEF Maintenance, MaintCheckRunning, MaintReadClock, MaintAge, Main, MainIgnore, MainStop,
         MainJoinCapture, MainJoinTable, MainCloseHandle, Tick, PressEnter, vars, historyVars
<1>2. \A m \in Macs : Known(m)' => Known(m) /\ macTable'[m] = macTable[m]
  <2>1. CASE MaintAge
    BY <2>1 DEF MaintAge, AgeEntries, Known
  <2>2. CASE ~MaintAge
    <3>1. UNCHANGED macTable
      BY <2>2 DEF Maintenance, MaintCheckRunning, MaintReadClock, Main, MainIgnore, MainStop,
             MainJoinCapture, MainJoinTable, MainCloseHandle, Tick, PressEnter, vars, tableVars
    <3> QED
      BY <3>1 DEF Known
  <2> QED
    BY <2>1, <2>2
<1>3. TypeInv'
  BY NextTypeInv
<1>4. TableSeen' /\ seen' = seen
  BY <1>1, <1>2, TableSeenKept
<1>5. Ids' = Ids /\ egress' = egress
  BY <1>1 DEF Ids, egress, Plane!Egress
<1>6. done' = done
  BY <1>1, <1>4, <1>5 DEF done
<1>7. Origin' /\ WireIds' /\ AllDone'
  BY <1>1, <1>5, <1>6 DEF Origin, WireIds, AllDone, captureVars
<1>8. \A p \in Ports : Progress(p)'
  BY <1>1, <1>4, <1>5, <1>6 DEF Progress, Held, captureVars
<1> QED
  BY <1>1, <1>2, <1>3, <1>4, <1>7, <1>8

(* Every step of the switch preserves the invariant. *)
LEMMA NextForwarding == ForwardingInv /\ [Next]_vars => ForwardingInv'
<1> SUFFICES ASSUME ForwardingInv, [Next]_vars PROVE ForwardingInv'
  OBVIOUS
<1>1. ASSUME NEW p \in Ports,
             \/ CheckRunning(p) \/ CaptureNothing(p)
             \/ \E f \in Frames : Capture(p, f)
             \/ ProcessPacket(p)
      PROVE  ForwardingInv'
  BY <1>1, BeforeSending, Capturing, SendToDestInv, FloodTurnInv, FinishInv DEF ProcessPacket
<1>2. CASE Maintenance \/ Main \/ Tick \/ PressEnter \/ UNCHANGED vars
  BY <1>2, ElsewhereInv
<1> QED
  BY <1>1, <1>2 DEF Next, Terminated

(* Initially nothing is captured and the table is empty. *)
LEMMA InitForwarding == Init => ForwardingInv
<1> SUFFICES ASSUME Init PROVE ForwardingInv
  OBVIOUS
<1>1. TypeInv
  BY InitTypeInv
<1>2. Origin /\ \A p \in Ports : Progress(p)
  BY DEF Init, Origin, Progress
<1>3. Ids = {} /\ WireIds /\ TableSeen
  BY DEF Init, TableInit, Ids, WireIds, TableSeen, Known
<1> QED
  BY <1>1, <1>2, <1>3 DEF ForwardingInv, AllDone

(* The invariant holds in every reachable state. *)
LEMMA ForwardingInvHolds == Spec => []ForwardingInv
  BY InitForwarding, NextForwarding, PTL DEF Spec

(* Once its thread has finished with it, a frame has left by exactly the   *)
(* ports it is due, whatever the other threads and the ageing do to the    *)
(* table meanwhile. *)
THEOREM EveryFrameForwarded == Spec => []ForwardedWhereDue
<1>1. ForwardingInv => ForwardedWhereDue
  <2> SUFFICES ASSUME ForwardingInv, NEW i \in Ids, ~InHand(i)
               PROVE  LET f == captured[i].frame
                          out == Plane!Egress(i)
                      IN IF f.src = f.dst THEN out = {}
                         ELSE \/ \E q \in Plane!SeenOn(f.dst) : out = {q}
                              \/ out = Ports \ {captured[i].port}
    BY DEF ForwardedWhereDue
  <2>1. i \in done
    BY DEF ForwardingInv, AllDone, InHand
  <2>2. captured[i].frame.dst \in Macs
    <3>1. captured[i] \in CaptureRecord
      BY ForwardingTypes DEF ForwardingInv
    <3> QED
      BY <3>1 DEF CaptureRecord, FrameType
  <2> QED
    BY <2>1, <2>2 DEF done, egress, seen
<1> QED
  BY <1>1, ForwardingInvHolds, PTL

-----------------------------------------------------------------------------
(* The switch implements the forwarding plane *)

(* Port q may be sent frame cur[p] next: it carries no later frame from p. *)
LEMMA Orderly ==
  ASSUME ForwardingInv, NEW p \in Ports, pc[p] \in InPacket, NEW q \in Ports,
         q \notin egress[cur[p]]
  PROVE  Plane!InTurn(cur[p], q)
<1>1. /\ cur[p] \in Ids /\ cur[p] # 0 /\ wire \in [Ports -> Seq(SentRecord)]
      /\ Ids = 1 .. Len(captured) /\ Len(captured) \in Nat
  BY ForwardingTypes DEF ForwardingInv
<1>2. ASSUME NEW k \in DOMAIN wire[q], captured[wire[q][k].id].port = captured[cur[p]].port
      PROVE  wire[q][k].id < cur[p]
  <2> DEFINE i == wire[q][k].id
  <2>1. i \in Ids
    BY DEF ForwardingInv, WireIds
  <2>2. i <= cur[p]
    BY <1>1, <1>2, <2>1 DEF ForwardingInv, Origin
  <2>3. i # cur[p]
    BY <1>1 DEF egress, Plane!Egress
  <2> QED
    BY <1>1, <2>1, <2>2, <2>3
<1> QED
  BY <1>2 DEF Plane!InTurn

(* A pcap_sendpacket of thread p is an emission of the plane. *)
LEMMA Emission ==
  ASSUME ForwardingInv, NEW p \in Ports, pc[p] \in InPacket, Held(p).src # Held(p).dst,
         NEW q \in Ports, SendPacket(p, q), UNCHANGED captured,
         q \notin egress[cur[p]],
         \/ q # p /\ p \notin egress[cur[p]]
         \/ q \in seen[Held(p).dst] /\ egress[cur[p]] = {}
  PROVE  Plane!PlaneNext
<1>1. cur[p] \in Ids /\ captured[cur[p]].port = p /\ Held(p).dst \in Macs
  BY ForwardingTypes, HeldType DEF ForwardingInv, Origin
<1>2. Plane!InTurn(cur[p], q)
  BY Orderly
<1>3. Plane!Promised(Held(p)) = PacketToSend(Held(p))
  BY DEF Plane!Promised, PacketToSend, IsTarget
<1>4. egress[cur[p]] = Plane!Egress(cur[p]) /\ seen[Held(p).dst] = Plane!SeenOn(Held(p).dst)
  BY <1>1 DEF egress, seen
<1>5. Plane!Emit(cur[p], q)
  BY <1>1, <1>2, <1>3, <1>4 DEF Plane!Emit, Held, SendPacket
<1> QED
  BY <1>1, <1>5 DEF Plane!PlaneNext, Plane!Ids, Ids

(* Every step of the switch is a step of the plane, or none. *)
LEMMA PlaneStep ==
  ASSUME ForwardingInv, [Next]_vars
  PROVE  [Plane!PlaneNext]_(Plane!planeVars)
<1> USE DEF Plane!planeVars
<1>1. ASSUME NEW p \in Ports, NEW f \in Frames, Capture(p, f)
      PROVE  Plane!PlaneNext
  <2>1. captured' = Append(captured, [port |-> p, frame |-> f]) /\ UNCHANGED wire
    BY <1>1 DEF Capture
  <2>2. Plane!Accept(p, f)
    BY <2>1 DEF Plane!Accept
  <2> QED
    BY <2>2 DEF Plane!PlaneNext
<1>2. ASSUME NEW p \in Ports, SendToDest(p)
      PROVE  Plane!PlaneNext
  <2>1. /\ pc[p] = "send" /\ SendPacket(p, dest[p]) /\ UNCHANGED captured
    BY <1>2 DEF SendToDest
  <2>2. dest[p] \in Ports /\ pc[p] \in InPacket
    BY <2>1 DEF ForwardingInv, TypeInv, LocalsOK, InPacket
  <2>3. /\ egress[cur[p]] = {} /\ Held(p).src # Held(p).dst /\ dest[p] \in seen[Held(p).dst]
    BY <2>1 DEF ForwardingInv, Progress
  <2> QED
    BY <2>1, <2>2, <2>3, Emission
<1>3. ASSUME NEW p \in Ports, FloodTurn(p), floodTo[p] # p
      PROVE  Plane!PlaneNext
  <2>1. /\ pc[p] = "flood" /\ SendPacket(p, floodTo[p]) /\ UNCHANGED captured
    BY <1>3 DEF FloodTurn
  <2>2. floodTo[p] \in Ports /\ floodTo[p] \in Nat /\ pc[p] \in InPacket
    BY <2>1 DEF ForwardingInv, TypeInv, LocalsOK, InPacket, Ports
  <2>3. /\ egress[cur[p]] = {q \in Ports : q < floodTo[p]} \ {p} /\ Held(p).src # Held(p).dst
    BY <2>1 DEF ForwardingInv, Progress
  <2>4. floodTo[p] \notin egress[cur[p]] /\ p \notin egress[cur[p]]
    BY <2>2, <2>3
  <2> QED
    BY <1>3, <2>1, <2>2, <2>3, <2>4, Emission
<1>4. ASSUME NEW p \in Ports, FloodTurn(p), floodTo[p] = p
      PROVE  UNCHANGED <<captured, wire>>
  BY <1>4 DEF FloodTurn
<1>5. ASSUME NEW p \in Ports,
             \/ CheckRunning(p) \/ CaptureNothing(p) \/ CountPacket(p) \/ LearnSource(p)
             \/ LookupDest(p) \/ FinishPacket(p)
      PROVE  UNCHANGED <<captured, wire>>
  BY <1>5 DEF CheckRunning, CaptureNothing, CountPacket, LearnSource, LookupDest, FinishPacket,
              historyVars
<1>6. CASE Maintenance \/ Main \/ Tick \/ PressEnter \/ UNCHANGED vars
  BY <1>6, ElsewhereInv
<1> QED
  BY <1>1, <1>2, <1>3, <1>4, <1>5, <1>6 DEF Next, ProcessPacket, Terminated

(* The switch implements the forwarding plane: whatever its threads do at  *)
(* the same time, no port carries a frame twice, frames of one port stay   *)
(* in order on every other, none goes back where it came from unless its   *)
(* destination was a source there, and what is sent is what is promised.   *)
THEOREM SwitchImplementsPlane == Spec => ImplementsPlane
<1>1. Init => Plane!PlaneInit
  BY DEF Init, Plane!PlaneInit
<1>2. ForwardingInv /\ [Next]_vars => [Plane!PlaneNext]_(Plane!planeVars)
  BY PlaneStep
<1> QED
  BY <1>1, <1>2, ForwardingInvHolds, PTL DEF Spec, ImplementsPlane, Plane!PlaneSpec

-----------------------------------------------------------------------------
(* Learning *)

(* Thread p has yet to learn from the frame it holds. *)
Learner(p) == pc[p] \in {"count", "learn"}

(* Frame i is the last one captured from its source. *)
Latest(i) == \A j \in Ids : j > i => captured[j].frame.src # captured[i].frame.src

(* The last frame of a source is the only one it is still learned from;    *)
(* when it has been learned, the table names its port or nothing.          *)
Learnt(i) ==
  Latest(i) =>
    /\ \A p \in Ports : Learner(p) /\ Held(p).src = captured[i].frame.src => cur[p] = i
    /\ \/ captured[i].frame.src = captured[i].frame.dst
       \/ \E p \in Ports : Learner(p) /\ Held(p).src = captured[i].frame.src
       \/ ~Known(captured[i].frame.src)
       \/ macTable[captured[i].frame.src].port = captured[i].port

(* So it is with the captures made while no thread still had to learn from *)
(* their source. *)
LearningInv == solo \subseteq Ids /\ \A i \in solo : Learnt(i)

(* A step that neither captures nor learns, and lets no thread off its     *)
(* frame but one addressed to its own source.                              *)
LEMMA LearningKept ==
  ASSUME ForwardingInv, LearningInv, UNCHANGED <<captured, solo>>,
         \A m \in Macs : Known(m)' => Known(m) /\ macTable'[m] = macTable[m],
         \A r \in Ports : Learner(r)' => Learner(r) /\ cur'[r] = cur[r],
         \A r \in Ports : Learner(r) =>
            \/ Learner(r)' /\ cur'[r] = cur[r]
            \/ Held(r).src = Held(r).dst
  PROVE  LearningInv'
<1>1. Ids' = Ids
  BY DEF Ids
<1>2. ASSUME NEW i \in solo, Latest(i)'
      PROVE  Learnt(i)'
  <2> DEFINE m == captured[i].frame.src
  <2>1. i \in Ids /\ Learnt(i) /\ Latest(i)
    BY <1>1, <1>2 DEF LearningInv, Latest
  <2>2. m \in Macs
    <3>1. captured[i] \in CaptureRecord
      BY <2>1, ForwardingTypes DEF ForwardingInv
    <3> QED
      BY <3>1 DEF CaptureRecord, FrameType
  <2>3. ASSUME NEW r \in Ports, Learner(r)', Held(r)'.src = m
        PROVE  cur'[r] = i
    <3>1. Learner(r) /\ cur'[r] = cur[r] /\ Held(r).src = m
      BY <2>3 DEF Held
    <3> QED
      BY <2>1, <3>1 DEF Learnt
  <2>4. ASSUME captured[i].frame.src # captured[i].frame.dst,
               NEW r \in Ports, Learner(r), Held(r).src = m
        PROVE  Learner(r)' /\ Held(r)'.src = m
    <3>1. cur[r] = i
      BY <2>1, <2>4 DEF Learnt
    <3> QED
      BY <2>4, <3>1 DEF Held
  <2>5. \/ captured[i].frame.src = captured[i].frame.dst
        \/ \E r \in Ports : Learner(r)' /\ Held(r)'.src = m
        \/ ~Known(m)'
        \/ macTable'[m].port = captured[i].port
    BY <2>1, <2>2, <2>4 DEF Learnt
  <2>6. Known(m)' <=> macTable'[m] # NoEntry
    BY DEF Known
  <2> QED
    BY <2>3, <2>5, <2>6 DEF Learnt, Known
<1>3. \A i \in solo : Learnt(i)'
  BY <1>2 DEF Learnt
<1> QED
  BY <1>1, <1>3 DEF LearningInv

(* A thread learns from its frame: from the last one of its source only if *)
(* that is it. *)
LEMMA LearningLearns ==
  ASSUME ForwardingInv, LearningInv, NEW p \in Ports, LearnSource(p)
  PROVE  LearningInv'
<1> DEFINE h == Held(p).src
<1>1. /\ pc[p] = "learn" /\ UpdateEntry(h, p) /\ UNCHANGED <<captured, solo, cur>>
      /\ pc' = [pc EXCEPT ![p] = "lookup"]
  BY DEF LearnSource, Goto, historyVars
<1>2. /\ macTable \in [Macs -> TableEntry \cup {NoEntry}] /\ h \in Macs
      /\ pc \in [Ports -> {"loop", "next", "count", "learn", "lookup", "send",
                          "flood", "finish", "exited"}]
      /\ captured[cur[p]].port = p /\ Learner(p)
  BY <1>1, TableTypes, HeldType, ForwardingTypes DEF ForwardingInv, InPacket, Origin, Learner
<1>3. /\ macTable'[h].port = p
      /\ \A m \in Macs : m # h => macTable'[m] = macTable[m]
  BY <1>1, <1>2 DEF UpdateEntry
<1>4. /\ ~Learner(p)'
      /\ \A r \in Ports : r # p => (Learner(r)' <=> Learner(r))
      /\ \A r \in Ports : Held(r)' = Held(r)
  BY <1>1, <1>2 DEF Learner, Held
<1>5. Ids' = Ids
  BY <1>1 DEF Ids
<1> HIDE DEF h
<1>6. ASSUME NEW i \in solo, Latest(i)'
      PROVE  Learnt(i)'
  <2> DEFINE m == captured[i].frame.src
  <2>1. i \in Ids /\ Learnt(i) /\ Latest(i)
    BY <1>1, <1>5, <1>6 DEF LearningInv, Latest
  <2>2. m \in Macs
    <3>1. captured[i] \in CaptureRecord
      BY <2>1, ForwardingTypes DEF ForwardingInv
    <3> QED
      BY <3>1 DEF CaptureRecord, FrameType
  <2>3. \A r \in Ports : Learner(r)' /\ Held(r)'.src = m => cur'[r] = i
    BY <1>1, <1>4, <2>1 DEF Learnt
  <2>4. CASE m = h
    <3>1. cur[p] = i
      BY <1>2, <2>1, <2>4 DEF Learnt, h
    <3>2. macTable'[m].port = captured[i].port
      BY <1>2, <1>3, <2>4, <3>1
    <3> QED
      BY <1>1, <2>3, <3>2 DEF Learnt
  <2>5. CASE m # h
    <3>1. macTable'[m] = macTable[m]
      BY <1>3, <2>2, <2>5
    <3>2. (\E r \in Ports : Learner(r) /\ Held(r).src = m) =>
             \E r \in Ports : Learner(r)' /\ Held(r)'.src = m
      BY <1>4, <2>5 DEF h
    <3> QED
      BY <1>1, <2>1, <2>3, <3>1, <3>2 DEF Learnt, Known
  <2> QED
    BY <2>4, <2>5
<1>7. \A i \in solo : Learnt(i)'
  BY <1>6 DEF Learnt
<1> QED
  BY <1>1, <1>5, <1>7 DEF LearningInv

(* A new capture is the last one of its source, and marked only when no    *)
(* other one is still to be learned. *)
LEMMA LearningCaptures ==
  ASSUME ForwardingInv, LearningInv, NEW p \in Ports, NEW f \in Frames, Capture(p, f)
  PROVE  LearningInv'
<1> DEFINE n == Len(captured) + 1
           rec == [port |-> p, frame |-> f]
<1>1. /\ captured \in Seq(CaptureRecord) /\ Len(captured) \in Nat /\ Ids = 1 .. Len(captured)
      /\ pc[p] = "next" /\ ~Learner(p)
  BY ForwardingTypes DEF ForwardingInv, Capture, Learner
<1>2. rec \in CaptureRecord /\ captured' = Append(captured, rec) /\ rec.frame = f
  BY DEF Capture, CaptureRecord
<1> HIDE DEF rec
<1>3. /\ Ids' = Ids \cup {n} /\ captured'[n] = rec /\ \A i \in Ids : i < n /\ n # i
      /\ \A i \in Ids : captured'[i] = captured[i]
  BY <1>1, <1>2 DEF Ids
<1>4. /\ cur'[p] = n /\ Learner(p)' /\ UNCHANGED macTable
      /\ solo' = IF Unlearned(f.src) THEN solo ELSE solo \cup {n}
      /\ \A r \in Ports : r # p => (Learner(r)' <=> Learner(r)) /\ cur'[r] = cur[r]
  BY ForwardingTypes DEF ForwardingInv, Capture, Goto, tableVars, Learner
<1>5. Held(p)'.src = f.src
  BY <1>2, <1>3, <1>4 DEF Held
<1>6. \A r \in Ports : Learner(r) => cur[r] \in Ids
  BY ForwardingTypes DEF ForwardingInv, Learner, InPacket
<1>7. \A r \in Ports : r # p /\ Learner(r) => Held(r)' = Held(r)
  BY <1>3, <1>4, <1>6 DEF Held
<1> HIDE DEF n
<1>8. ASSUME NEW i \in solo, Latest(i)'
      PROVE  Learnt(i)'
  <2> DEFINE m == captured[i].frame.src
  <2>1. i \in Ids /\ Learnt(i) /\ captured'[i] = captured[i]
    BY <1>3 DEF LearningInv
  <2>2. Latest(i) /\ f.src # m
    BY <1>2, <1>3, <1>8, <2>1 DEF Latest
  <2>3. \A r \in Ports : Learner(r)' /\ Held(r)'.src = m => cur'[r] = i
    BY <1>4, <1>5, <1>7, <2>1, <2>2 DEF Learnt
  <2>4. (\E r \in Ports : Learner(r) /\ Held(r).src = m) =>
           \E r \in Ports : Learner(r)' /\ Held(r)'.src = m
    BY <1>1, <1>4, <1>7
  <2> QED
    BY <1>4, <2>1, <2>2, <2>3, <2>4 DEF Learnt, Known
<1>9. ASSUME ~Unlearned(f.src), NEW i \in {n}
      PROVE  Learnt(i)'
  <2>1. captured'[i].frame.src = f.src
    BY <1>2, <1>3
  <2>2. \A r \in Ports : Learner(r)' /\ Held(r)'.src = f.src => cur'[r] = i
    BY <1>4, <1>7, <1>9 DEF Unlearned, Learner
  <2> QED
    BY <1>4, <1>5, <2>1, <2>2 DEF Learnt
<1>10. \A i \in solo : Learnt(i)'
  BY <1>8 DEF Learnt
<1>11. \A i \in solo' : i \in Ids' /\ Learnt(i)'
  BY <1>3, <1>4, <1>9, <1>10 DEF LearningInv
<1> QED
  BY <1>11 DEF LearningInv

(* Every step of the switch preserves what is known of learning. *)
LEMMA NextLearning == ForwardingInv /\ LearningInv /\ [Next]_vars => LearningInv'
<1> SUFFICES ASSUME ForwardingInv, LearningInv, [Next]_vars PROVE LearningInv'
  OBVIOUS
<1>1. ASSUME NEW p \in Ports,
             \/ CheckRunning(p) \/ CaptureNothing(p) \/ CountPacket(p)
             \/ LookupDest(p) \/ SendToDest(p) \/ FloodTurn(p) \/ FinishPacket(p)
      PROVE  LearningInv'
  <2>1. UNCHANGED <<captured, solo, macTable>>
    BY <1>1 DEF CheckRunning, CaptureNothing, CountPacket, LookupDest, SendToDest, FloodTurn,
                FinishPacket, tableVars, historyVars
  <2>2. \A r \in Ports : r # p => (Learner(r)' <=> Learner(r)) /\ cur'[r] = cur[r]
    BY <1>1, ForwardingTypes DEF ForwardingInv, CheckRunning, CaptureNothing, CountPacket,
                LookupDest, SendToDest, FloodTurn, FinishPacket, Goto, Learner
  <2>3. CASE CountPacket(p)
    <3>1. /\ Learner(p) /\ UNCHANGED cur
          /\ Learner(p)' \/ Held(p).src = Held(p).dst
      BY <2>3, ForwardingTypes DEF ForwardingInv, CountPacket, Goto, Learner
    <3> QED
      BY <2>1, <2>2, <3>1, LearningKept DEF Known
  <2>4. CASE ~CountPacket(p)
    <3>1. ~Learner(p) /\ ~Learner(p)'
      BY <1>1, <2>4, ForwardingTypes DEF ForwardingInv, CheckRunning, CaptureNothing,
                LookupDest, SendToDest, FloodTurn, FinishPacket, Goto, Learner
    <3> QED
      BY <2>1, <2>2, <3>1, LearningKept DEF Known
  <2> QED
    BY <2>3, <2>4
<1>2. CASE Maintenance \/ Main \/ Tick \/ PressEnter \/ UNCHANGED vars
  <2>1. /\ UNCHANGED <<captured, captureVars, solo>>
        /\ \A m \in Macs : Known(m)' => Known(m) /\ macTable'[m] = macTable[m]
    BY <1>2, ElsewhereInv
  <2>2. \A r \in Ports : (Learner(r)' <=> Learner(r)) /\ cur'[r] = cur[r]
    BY <2>1 DEF captureVars, Learner
  <2> QED
    BY <2>1, <2>2, LearningKept
<1> QED
  BY <1>1, <1>2, LearningLearns, LearningCaptures DEF Next, ProcessPacket, Terminated

(* When the last capture of a host was made while no other one was still   *)
(* to be learned, and it has been learned, the table does not name a port  *)
(* that the host has left.                                                 *)
THEOREM MovedHostIsRelearned == Spec => []MovedHostRelearned
<1>1. Init => LearningInv
  BY DEF Init, LearningInv
<1>2. LearningInv => MovedHostRelearned
  BY DEF LearningInv, Learnt, Latest, Learner, Unlearned, MovedHostRelearned
<1> QED
  BY <1>1, <1>2, InitForwarding, NextForwarding, NextLearning, PTL DEF Spec
=============================================================================
