-------------------------- MODULE CommutationTable --------------------------
(***************************************************************************)
(* The class CommutationTable: the MAC table of the software switch, with  *)
(* the time each entry was last refreshed, and the packet counter.         *)
(*                                                                         *)
(* Every method takes mutex_ for the whole of its body, takes no other     *)
(* lock and calls nothing that blocks, so a call is one atomic step.  The  *)
(* one exception is ageEntries, which reads the clock BEFORE it takes the  *)
(* lock; its caller therefore passes the instant it read in an earlier     *)
(* step.  The durations collected by updateStats are left out: each call   *)
(* appends one and adds one to totalPackets_.                              *)
(***************************************************************************)
EXTENDS Integers

CONSTANTS
  Macs,            \* the MAC addresses that occur in frames
  NumPorts,        \* handles.size(): the number of opened interfaces
  MaxLifetimeSec,  \* maxLifetimeSec_, whatever int the operator typed
  TicksPerSec      \* resolution of the steady clock

ASSUME TableAssumption ==
  /\ NumPorts \in Nat \ {0}
  /\ MaxLifetimeSec \in Int
  /\ TicksPerSec \in Nat \ {0}

VARIABLES
  clock,           \* std::chrono::steady_clock, in ticks
  macTable,        \* macTable_
  totalPackets     \* totalPackets_

tableVars == <<macTable, totalPackets>>

Ports == 0 .. NumPorts - 1   \* indices into the vector of handles
NotFound == -1               \* what getPortForMac answers for an unknown MAC

TableEntry == [port : Ports, lastSeen : Nat]
NoEntry == [port |-> NotFound, lastSeen |-> 0]   \* a MAC that is no key of macTable_

TableInit ==
  /\ clock = 0
  /\ macTable = [m \in Macs |-> NoEntry]
  /\ totalPackets = 0

TableTypeOK ==
  /\ clock \in Nat
  /\ macTable \in [Macs -> TableEntry \cup {NoEntry}]
  /\ totalPackets \in Nat

-----------------------------------------------------------------------------
(* Division of C++ integers, which duration_cast inherits: towards zero.   *)
TruncDiv(a, b) == IF a >= 0 THEN a \div b ELSE -((-a) \div b)

(* duration_cast<seconds>(now - lastSeen).count(), negative when the entry *)
(* was refreshed after `now' was read.                                     *)
AgeSec(now, entry) == TruncDiv(now - entry.lastSeen, TicksPerSec)

Known(m) == macTable[m] # NoEntry

Outlived(now, m) == Known(m) /\ AgeSec(now, macTable[m]) >= MaxLifetimeSec

(* Variants with a mistake, which the properties must detect: an insertion  *)
(* that keeps an existing port, one that clears the stamp of a known entry,*)
(* an ageing that lets an entry live too long, and one that compares the   *)
(* lifetime with ticks instead of seconds.                                 *)
UpdateEntryKeepsPort(mac, port) ==
  macTable' = [macTable EXCEPT ![mac] =
                 [port |-> IF Known(mac) THEN @.port ELSE port, lastSeen |-> clock]]
UpdateEntryUnstamped(mac, port) ==
  macTable' = [macTable EXCEPT ![mac] =
                 [port |-> port, lastSeen |-> IF Known(mac) THEN 0 ELSE clock]]
AgeEntriesLate(now) ==
  macTable' = [m \in Macs |->
    IF Known(m) /\ AgeSec(now, macTable[m]) > MaxLifetimeSec THEN NoEntry ELSE macTable[m]]
AgeEntriesInTicks(now) ==
  macTable' = [m \in Macs |->
    IF Known(m) /\ now - macTable[m].lastSeen >= MaxLifetimeSec THEN NoEntry ELSE macTable[m]]

(* updateEntry: insert or overwrite, stamped with the clock read under the lock. *)
UpdateEntry(mac, port) ==
  macTable' = [macTable EXCEPT ![mac] = [port |-> port, lastSeen |-> clock]]

GetPortForMac(mac) == IF Known(mac) THEN macTable[mac].port ELSE NotFound

(* ageEntries, `now' having been read before the lock was taken. *)
AgeEntries(now) ==
  macTable' = [m \in Macs |-> IF Outlived(now, m) THEN NoEntry ELSE macTable[m]]

UpdateStats == totalPackets' = totalPackets + 1
=============================================================================
