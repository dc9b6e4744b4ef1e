# Verification of the bvs_curs network programs

The repository holds three small C++ network programs for Linux: a learning
**switch** (`CommutationTable/`), a **chat** client and server over TCP or UDP
(`Client/`, `Server/`), and a packet **monitor** (`PacketHandler/`). This
directory holds TLA+ models of their behaviour, TLC configurations that check
the models on small instances, and theorems that TLAPS proves for every
instance. `PROJECT.json` lists the runs, the source lines behind every
definition, the findings, the hazards of the code and the theorems.

    tlc -workers 2 -config Switch_forwarding.cfg MCSwitch     # one run
    tlapm SwitchProofs.tla                                    # one module of proofs

## 1. Inventory

| Component | State | Operations | Interaction |
|---|---|---|---|
| `CommutationTable` (class) | `macTable_`: MAC to port and last-seen time; `processingTimes_`, `maxProcessingTime_`, `totalPackets_`; one mutex | `updateEntry`, `getPortForMac`, `ageEntries`, `updateStats`, `printTable`, `printStats` | shared by all threads of the switch |
| Switch (`switch_main.cpp`) | pcap handles, `running`, locals of each thread | `captureThread`/`processPacket` per interface, `tableMaintenanceThread`, `main` | capture threads send on each other's handles; main joins them and closes the handles |
| ICMP substitution (`switch_main.cpp`) | none | `is_target_icmp_packet`, rewriting in `processPacket`, `checksum` | called by the capture threads |
| `ConfigParser` | key/value map | `loadFromFile`, `parseLine`, `getString`, `getInt`, `getBool` | read once by the switch |
| Chat server, TCP (`Server.cpp`) | `is_running_`, `server_socket_`, `tcp_clients_`, listener thread | `start`, `stop`, `tcp_listen`, `handle_tcp_client`, `broadcast_tcp` | one detached thread per client, all on one unprotected vector |
| Chat server, UDP (`Server.cpp`) | `udp_clients_` | `udp_listen`, `broadcast_udp` (its only call is commented out) | datagrams |
| Chat client (`Client.cpp`, `main.cpp`) | `sock`, `is_connected`, `running`, configuration | `loadArgs`, `load_config`, `run`, `send_message`, `receive_messages`, `stop` | receiver thread and main share the socket; byte stream to the server |
| Monitor (`PacketProcessor`, `monitoring_main.cpp`) | list of interfaces, pcap handle, filter program | choice of an interface, dissection of Ethernet, IP, ICMP, TCP, UDP | sequential; sees what the switch sends on its network |
| `utilities/`, `NetworkUtils` | none | `read_config_file`, `parse_protocol`, `to_string`; listing interfaces, formatting addresses | used by the above |

What is hard, and what makes each component correct:

* **Table and switch.** Learning, ageing, lookup and sending interleave
  between capture threads; `ageEntries` compares with an instant read before it
  locks; a host may move; the switch is stopped while frames are in flight.
  Correct means: every frame leaves by the ports that a consistent table
  justifies, once and in order; entries live as long as configured, neither
  more nor less; nothing is used after it was closed.
* **TCP server.** One vector and one descriptor table, used by a listener, any
  number of handlers and `stop()` without a lock; descriptor numbers are used
  again; clients hang up at any time. Correct means: messages are authentic and
  in order and reach everyone else; a client that has gone is forgotten; `stop`
  ends.
* **UDP server and client.** Nothing is rebroadcast; acknowledgements are told
  from messages by comparing bytes of a stream that has no boundaries; the
  socket becomes non-blocking under the sender's feet.
* **Pure parts.** Carry of the checksum, truncation of port numbers, offsets
  into headers with options.

## 2. Modules

| Module | Content |
|---|---|
| `CommutationTable` | the class: one operator per method |
| `Switch` | capture threads, maintenance thread, main; extends `CommutationTable` |
| `ForwardingPlane` | what the switch promises to its networks; no threads, table or clock |
| `SwitchProperties`, `MCSwitch` | its type invariant, safety, action and liveness properties and the refinement; instances for TLC |
| `SwitchProofs` | proofs about the switch: types, ageing, shutdown, forwarding, learning, the refinement |
| `TcpServer` | listener, handlers, `stop()`; the vector, the descriptors and the kernel's view of the connections |
| `ChatRoom` | what may at most appear in the clients' inboxes |
| `TcpServerProperties`, `MCTcpServer` | its properties and instances |
| `TcpServerProofs`, `ChatRoomProofs` | proofs about it: types, descriptors, entries; broadcasts, the refinement |
| `Client`, `ClientProperties`, `ClientProofs` | main and receiver thread of the chat client on one socket, over TCP and UDP; its properties and proofs |
| `UdpServer`, `UdpServerProperties` | the server over UDP, with the start that both protocols share; its properties |
| `UdpChat`, `UdpChatProperties`, `UdpChatProofs` | `UdpServer` and `Client` composed, with the network between them; what is required of both, and proofs about the server alone and both together |
| `IpPacket` | packets as switch and monitor find them in a frame, and words in their bytes |
| `IcmpSubstitution` | the content of what `processPacket` sends: decision, copy, rewriting, `checksum` word by word |
| `SubstitutionPlane` | what the switch may do to the content of a packet at all |
| `Dissection` | what the monitor shows of the packets on a network |
| `PacketPath` | a datagram's way through `IcmpSubstitution` to a network that `Dissection` watches |
| `PacketPathProperties`, `MCPacketPath`, `PacketPathProofs` | what is required of that way, packets for TLC, and proofs |
| `Input` | texts and the numbers that `stoi` and `cin` make of them |
| `Configuration` | from the lines of a file to the values the programs run with |
| `SwitchStart` | the dialogue of the switch and the opening of its interfaces |
| `MonitorStart` | the main of the monitor |
| `Startup` | the start of the four programs |
| `StartupProperties`, `MCStartup`, `StartupProofs` | what is required of it, files and inputs for TLC, and proofs |
| `SequenceLemmas` | induction over sets of naturals, functions that are defined step by step, concatenations: what several proofs share |

Where two programs meet at run time, they are composed: the client and the
server over UDP in `UdpChat`, the switch and the monitor in `PacketPath`. Over
TCP the two are modules of their own: what a client sees of its server, and the
server of its clients, is in each the weakest environment, units that arrive in
any chunks at any time, and peers that close, reset or stop reading whenever
they like.

Definitions named as variants "with a mistake" are used by no specification;
each is a plausible bug with which one property is seen to fail.

## 3. The switch

**State.** `macTable`, `totalPackets` are the members of the class;
`running`, `open` (handles not closed) are shared; `pc`, `cur`, `dest`,
`floodTo` are the program counter and locals of each capture thread; `mpc`,
`mnow` those of the maintenance thread; `mainPc`, `idx`, `enters`, `typed` those
of main and its input. `captured`, `wire`, `solo`, `lastPass` are histories
that no guard depends on (a thread reads its frame from `captured`).

**Steps.** Every method of the class holds the mutex for its whole body, takes
no other lock and does not block, so a call is one step. `ageEntries` reads
the clock before it locks: `MaintReadClock` and `MaintAge` are two steps. In
`processPacket` every call into the table and every `pcap_sendpacket` is a
step; what a thread computes from its own locals belongs to the next step.
`updateStats` is called at both ends of a packet, in the early return too.

**Data.** A frame has its two addresses and what the substitution looks at.
Instants are ticks, and ages are divided as `duration_cast` does, towards zero.
The time between two passes is not fixed to one second: any delay is possible.
The operator is reduced to pressing Enter. The dialogue before the threads start
is in `SwitchStart` and the bytes of a frame in `IcmpSubstitution` (sec. 7). Not in
the model: durations, printing, failing sends, and two handles on the same
network.

| Run | Question | Bounds |
|---|---|---|
| `switch_forwarding` | Does every frame leave by the right ports, once, in order (`ForwardedWhereDue`), and does the switch implement `ForwardingPlane`? | 3 ports, so that flooding is more than one copy; 3 frames, so that a lookup meets an entry learned before, meanwhile and at the same port; no ageing |
| `switch_aging` | Are entries dropped exactly when due, are stamps monotone, is a host found where it moved to? | lifetime 1 s in half-second ticks, 4 instants: ages below, at and above the limit, and refreshes between the reading of the clock and the pass |
| `switch_shutdown` | Do the threads finish their frames, and does main return unless one of them stays in `pcap_next`, without closing anything in use; do outlived entries go? | 2 ports, 2 frames, one tick, two Enters |

`MovedHostRelearned` leaves out captures of one source that two threads hold at
the same time: they may be learned in either order, and the code promises
nothing about that. `SurvivorsFresh` is about lifetimes of at least one second;
with zero or less, an entry refreshed during a pass is already outlived.

**Fairness.** The operating system runs every thread. Nothing is assumed of the
operator, the clock or the networks, nor that `pcap_next` ever returns: libpcap
does not promise that the read timeout of 1000 ms given to `pcap_open_live` ends
a call, and on Linux with TPACKET_V3 it polls without one, so that a thread on a
silent network waits for the next frame, and main's join for the thread.
`StopCompletesUnlessCapturing` says that nothing else holds up the stop: main
returns or some thread stays in `pcap_next` for ever, and it returns in any case
when no thread is in that call at the moment `running` is false.

## 4. The TCP chat server

**State.** `running`, `server`, `clients` are `is_running_`, `server_socket_` and
`tcp_clients_`; `main`, `listener` and `handler[c]` are records with the program
counter and the locals of each thread: `client_socket`, what is in `buffer`, the
index into the vector. The kernel has the descriptor table
`fds`, the `backlog` of the listening socket and what is known of each client's
end (`peer`). A connection is used once; a client that returns makes another.

**Steps.** Every system call is a step, and so is each turn of a loop. Accesses
to `tcp_clients_` take time: the loop of `broadcast_tcp` lasts from its first
step to its last, `push_back`, `erase` and `clear` have a begin and an end. When
an access begins during a conflicting one of another thread, the program has a
data race; `process` becomes `"undefined"` and the behaviour ends, because
nothing can be said of a vector that is reallocated under an iterator. All
other properties of the server are thus about executions without a race so
far. Races on `is_running_` and `server_socket_` are benign in the compiled
program: a stale value costs one more turn of a loop.

**Kernel.** `accept` returns the lowest free number. A client may close its end,
after which the first send to it provokes a reset, or reset the connection at
once; a send after a reset may raise SIGPIPE, which nothing in the program
handles. A client may stop reading (`peer` is `"full"`) and start again: a `send` to
it then blocks, inside the broadcast of whoever writes. `close` wakes nobody:
`accept` keeps a closed listening socket alive until it returns, and `recv` or
`send` go on waiting for the connection they began with (`on` in `handler`),
although the number may mean another one by then. A blocked `send` is one step,
when it has got rid of the whole message; that two handlers blocked on one
client may deliver parts of their messages alternately is not in the model.

| Run | Question | Bounds |
|---|---|---|
| `tcp_chat` | Are the entries of the list always those of living handlers, does a broadcast reach everyone whose descriptor is not second-hand, and is what arrives authentic, in order, cut alike for all and never echoed (`ChatRoom`)? | 3 connections over 2 descriptors, 1 hang-up: one number is used again, also while its old entry is still listed, and accept can run out of descriptors; two clients write, so that broadcasts meet, one of them twice, so that two messages are received together or apart; nobody stops reading and nobody stops the server |
| `tcp_stop` | Does no handler ever touch another's connection? Are clients that hang up forgotten, messages handled and waiting connections served? Does `stop` end when the listener is not stuck? | 3 connections over 2 descriptors, one of which writes, one may stop reading, one hangs up: a handler can be held up in a broadcast, and accept can fail; the server is stopped only while fewer than 3 connections have been made, and none is made after that |
| `tcp_race` | Do detached threads leave each other's data alone? **No**: data race on `tcp_clients_`. | 2 connections |
| `tcp_broadcast` | Does a broadcast reach all connected clients? **No**: the descriptor is closed before its entry is erased, a new client inherits the number and loses its entry. | as `tcp_chat`, a message each |

Deadlock is not checked for the server: with nobody connecting it is idle, and
`stop()` may wait for ever for a listener that is blocked in `accept`, which is
why `StopReturnsUnlessAccepting` has its condition. The model has SIGPIPE, which
may end the whole server when one client resets its connection (`process` is
`"killed"`); no property promises otherwise. At the end of standard input
`start_server` spins without ever stopping: to the other threads this is an
operator who never stops the server, which the runs contain.

**Fairness:** every thread of the server is run; nothing is assumed of clients
or operator. Since one client that never reads again holds up everyone who
writes to it for ever, `HungUpIsForgotten` and `MessageIsHandled` are about
behaviours in which in the end everybody reads (`AllReadInTheEnd`) however often
they stop before; and since `accept` fails at once while the process is out of
descriptors, `BacklogIsServed` is about those in which from some time on one is
free. Neither condition rules out the hazard: that a thread was blocked, or
`accept` failed, before.

Not in the model: the start up to `listen` (it is in `UdpServer`), and the content
of messages.

## 5. The UDP chat server

**State and steps.** `main` runs through the steps of the start, each of which
may fail and then closes what is open, waits for the command, and goes through
`stop()`; `listener` is the thread with its `client_addr`. Every system call is
a step. A datagram is its sender and its length, from empty to longer than the
buffer; `bytes_received` is where the `'\n'` goes. Not in the model:
`broadcast_udp`, which nobody calls, and `udp_clients_`, which only it fills.

**Composition.** `UdpChat` puts one client and its user next to the server, and
between them a network: `outward` and `homeward` are sets, so that lines and answers
overtake each other, and any of them may be lost (`lost`). A line leaves the
client's socket buffer when the network takes it, and is dropped when the
server's queue stays full or its socket is not bound. Of a line the network may
make a copy (`Repeat`; `repeated` holds the lines it has copied), which the server
answers like the line.

Both programs take datagrams from anybody. Others send to the server
(`OthersSend`), and it answers each to its sender. To the client comes, besides the
answers on their way to it, any datagram that reaches its port (`StrayArrives`):
another sender's, an answer to the client that had the port before, a copy of an
answer. `receive_messages` has the address of the sender (`sender_addr`) and does not
look at it, so a stray that reads "OK" is shown as a delivery. A repeated
*answer* counts as a stray too: nothing in it would tell it from one.

| Run | Question | Bounds |
|---|---|---|
| `udp_chat` | Is each datagram answered once, in order and to its sender, and is nothing written behind the buffer? Is the user told of a delivery only for lines the server has handled, but for strays that read "OK", and in the end for all? Does each program stay within the environment the other's module assumes (`ComponentsAsModelled`)? Does `stop` end when the listener is not stuck? | a line of size 0 or 2 and a copy of it, and one foreign datagram of size 3 to the server, for a buffer of 2: empty, full and too long ones, two answers to the client and the address of another one to be confused; 1 datagram may wait; one stray to the client, before, between or behind the answers |

`ToldOfHandledOnly` bounds what the user is told by what the server has handled
*and* the strays that read "OK" and have come, and what the server has handled
by what was reported as sent and the copies of it. Without the strays the first
bound does not hold: the user of a client that has sent nothing can be told of a
delivery. `ToldInTheEnd` counts only what the server's own answers tell, so that no
stray can stand in for one.

`ComponentsAsModelled` is the link to section 6: every behaviour of the
composition is one of `UdpServer` and one of `Client`, so that what is checked of
the client against an arbitrary server holds with this one.

Deadlock is not checked: a server without datagrams is idle, and `stop()` waits
for a listener blocked in `recvfrom` until one more comes, hence the condition of
`StopReturnsUnlessReceiving`. **Fairness:** both threads of either program are
run, and what the network does not lose it delivers; nothing is assumed of user,
operator or other senders. `ToldInTheEnd` names the excuses: a loss, an empty
line (which `recvfrom` returns as 0 bytes and nobody answers), a program that is
stopped or failed.

## 6. The chat client

**State and steps.** `is_connected`, `running`, `sock`, `protocol` are the members
(`protocol` starts with what the constructor leaves, which is nothing);
`main` and `receiver` the two threads. What arrives is a sequence of units: an
acknowledgement, a message that reads "OK", a part of a message; over TCP `recv`
returns any number of them, over UDP one. A chunk is shown whole: that it is cut
at its first zero byte, and a datagram at 1023 bytes, is left out. `ShownInOrder`
asks whether all is shown, once and in order, and not under which heading (see
`Client.cpp:184` in sec. 7). The server may send, read, close or reset at any
time, each on its own. What is sent is counted in parts of a line, and
the kernel takes `SendSpace` of them ahead of the server. The receiver makes the
socket non-blocking while the main thread may be about to send, or waiting in
`send`, which then goes on waiting. A send after a reset fails or raises SIGPIPE.
`lines`, `arrived`, `shown` are histories (a thread reads the line at hand from
`lines`).

| Run | Question | Bounds |
|---|---|---|
| `client_session` | Is all that arrives shown once and in order, does a refused line leave nothing behind, is no line reported as sent without a connection (main goes on after a failed start), does `stop` return however silent the server is, and is a loss noticed? | 2 lines of 0, 1 or 2 parts into room for 2, so that a send fits, fits in part or not at all; 3 units, so that one chunk holds an acknowledgement and a message |
| `client_partial` | Is a line that `send_message` reports as sent really sent? **No**: a part may be. | |

**Fairness:** both threads are run. Nothing is assumed of user or server, nor
that a `send` that waits for room ever gets it: `StopReturns` starts where main
has left the loop over the user's lines. The race of the threads on the plain
`is_connected` costs at most a turn of a loop. Deadlock is checked.

## 7. Packets, and the start of the programs

**Packets.** `IcmpSubstitution` follows `processPacket` from the test of the packet
to the second checksum and the sending, one turn of the loop of `checksum` at a
time. A packet is its bytes from the IP header on. `Switch` abstracts from them
and `PacketPath` from the threads, which share nothing of a packet's content.
`Dissection` is `PacketProcessor::handler`: of each packet the sizes and, of the header
behind IP's, type and code or the ports. Of the two programs `PacketPath` makes one
path, as when the monitor watches a network behind the switch.

| Run | Question | Bounds |
|---|---|---|
| `packet_path` | Do only echo replies change, and only in their headers (`SubstitutionPlane`)? Does a receiver accept them? Is the data of a datagram intact where it is put together again? Does the monitor show what was written? | bytes have four values and words sixteen, so that sums have no carry, have one, and have one that makes another; headers with and without options, odd and even payloads, padding, several old checksums, one byte not captured; two or three fragments, the later ones beginning like a reply or not |

`AcceptedUnlessCarriesTwice` judges the result as a receiver would, by the one's
complement sum, and not by repeating the computation: the receiver discards the
packet in exactly those cases where **adding the carries back once makes another
one, which the code loses**, or where a later fragment counts. `DataIntact` and
`ShownAsWritten` say exactly where the looking for headers at a place that may
hold none goes wrong: in later fragments, and behind IP options. `sum` is a
`uint32_t` and its overflow is in the model (`Add`), but the regions are shorter than
the 2^16 bytes that IP's length field can say, too short to reach it.

`PacketPathAssumption` is what is assumed of the host that sends: that it writes
lengths that fit the packet and a header behind IP's where there is one, and
that all fragments but the last carry an even number of bytes (in IP a multiple
of eight).

**Start.** `Configuration` reads a file line by line, as `read_config_file` and
`ConfigParser` do, and turns the values into those the server, the client and
the switch run with. `SwitchStart` asks for the lifetime and the names, opens the
interfaces and then reads the file; `MonitorStart` walks down pcap's list, and
acquires and releases what libpcap hands out. `Startup` is any one of the four.

| Run | Question | Bounds |
|---|---|---|
| `startup` | Does what starts run with what the file says last and the operator typed? Does the monitor open what it was told, and release what it acquired on every way out? | every file of up to three lines out of 18 (chat) or 5 (switch), enough for a key that is given, replaced and given in vain; ports have 3 bits and integers 5, with numbers on both sides of each limit; lists of up to three interfaces, with repeated and unknown names |

Of the port `StartsAsFileSays` speaks only when the file gives a valid one, apart
from the server's never being 0: the code narrows it to 16 bits before the test
that should refuse values above 65535, so the server starts on port 1 when the
file says 65537. `SwitchStartsAsTyped` shows why nothing needs to test the lifetime:
after an input that is no number `cin` reads no names either, and without a name
main returns. `MonitorOpensChoice` allows the walk off the list only for numbers
that stand for no interface; a signed overflow in `inum - 1` takes either value.

### Where the code falls short of its own words

`tcp_race`, `tcp_broadcast` and `client_partial` let TLC find a step-by-step
account of three disagreements that take several actors; `findings` in
`PROJECT.json` quotes the words they are held against. The models contain others
as the code has them, and the properties above say so in their conditions:

| Place | What happens |
|---|---|
| `switch_main.cpp:13` | a second carry of the checksum is lost (`AcceptedUnlessCarriesTwice`) |
| `switch_main.cpp:66` | an ICMP header is looked for in every fragment: the checksum of a fragmented reply covers its first part only, and a later fragment that begins with a zero is overwritten (`AcceptedUnlessCarriesTwice`, `DataIntact`) |
| `switch_main.cpp:125` | of a packet longer than the capture buffer, memory behind it is sent (`Copy`, `Send`; the condition `FullyCaptured` of `DataIntact`) |
| `switch_main.cpp:48` | `updateStats` is called twice for every packet, so that `totalPackets_` is twice the "counter of processed packets" |
| `switch_main.cpp:123` | on a silent network `pcap_next` may not return, and the stop waits for a frame (`StopCompletesUnlessCapturing`) |
| `switch_main.cpp:223` | "Press Enter to stop": `ignore` and `get` want two |
| `Server.cpp:96` | closing the socket wakes neither `accept` nor `recvfrom`; "stop" then waits for another client (`StopReturnsUnless...`) |
| `Server.cpp:147` | SIGPIPE: a client's reset may end the server |
| `Server.cpp:175` | the datagram is ended by a newline and not by a zero, so the log shows what lies behind it (not in the model) |
| `Server.cpp:183` | `broadcast_udp` is commented out: over UDP no messages are exchanged |
| `Client.cpp:184` | an acknowledgement that arrives together with a message is shown as part of it |
| `Client.cpp:217` | the sender of a datagram is not compared with the server and anybody's "OK" is shown as a delivery (the strays of `ToldOfHandledOnly`) |
| `start_server.cpp:10` | the port is narrowed before it is tested (`StartsAsFileSays`) |
| `PacketProcessor.cpp:90` | TCP and UDP headers are looked for at a fixed place, also behind IP options (`ShownAsWritten`) |
| `monitoring_main.cpp:35` | a number that stands for no interface walks off the list or takes the first one; at the end of input the number is never assigned (`MonitorOpensChoice`) |

## 8. What is proved

The theorems hold for every value of the constants that satisfies the named
assumptions of the module (`TableAssumption`, `SwitchAssumption`,
`TcpServerAssumption`, `ClientAssumption`, `UdpServerAssumption`,
`UdpChatAssumption`, `ByteBaseAssumption`, `PacketPathAssumption`,
`ConfigurationAssumption`, `StartupAssumption`): any number of ports, connections
and descriptors, any addresses, frames, lines and datagrams, any buffer sizes,
packets of any length in any number of fragments, files and lists of any length,
and any value of the bounds that keep TLC's instances finite. Every safety
property, action property and refinement that a passing run checks is among them.
Each proof has the form: an inductive invariant, the lemmas that the initial
states satisfy it and every step preserves it, one lemma for each kind of step,
and the property as a consequence.

**The switch** (`SwitchProofs`)

* `TypeCorrect`. The invariant `TypeInv` adds `LocalsOK` to the types: a thread
  holds a frame exactly while it processes one, and its `dest_port` and loop
  index are in range when they are used. Without it, nothing would be known of
  the frame that a step reads from `captured`.
* `SurvivorsAreFresh`, `EvictionIsDue`, `LastSeenMonotone`: the ageing
  properties. The invariant `AgeingInv` adds that no stored instant lies in the
  future of the clock (`TimeInv`). The lemma `TableStep` reduces every step of
  the switch to the five things a step can do to the table and its instants;
  `AgeMonotone` is the arithmetic of the truncated division. Since the instant
  a pass uses is not later than now, what it evicts is due; since a refreshed
  entry is not older than that instant, its age is not positive and the pass
  keeps it.
* `NothingUsedAfterClose`: handles outlive the capture threads. `JoinInv` says
  how far main's joins have come; an exited thread stays so.
* `EveryFrameForwarded`. What a thread decides rests on a lookup that others
  may have overtaken, so the invariant `ForwardingInv` speaks of histories: a
  port that the table or a `dest_port` names is one where the host *has been*
  seen (`TableSeen`, `Progress`), which nothing takes back; `Progress` says how
  far the frame has been sent at each step of its thread, in the middle of a
  flood the ports below the loop index; and `AllDone` that the frames nobody
  holds are where they should be.
* `SwitchImplementsPlane`: every step of the switch is a step of
  `ForwardingPlane` or a stutter. From `ForwardingInv` it follows that a frame
  is sent to a port at most once and while it is the latest of its own port
  (`Origin`), hence in order.
* `MovedHostIsRelearned`. `LearningInv` relates the table to the last capture of
  each source that has been learned.

**The server over TCP** (`TcpServerProofs`, `ChatRoomProofs`). After a data race
the model says nothing more, so these hold up to the first one.

* `DescriptorIsOwn`, `NoDeadEntries`, `TcpServerTypeCorrect`, from one invariant,
  `DescriptorInv`: an open number belongs to the listener's new connection or
  to the one handler that uses it (`OpenOK`); whoever waits in the backlog has no
  number and no thread (`BacklogOK`); what a call waits on that is not behind its
  number any more has been given up by its thread or by main (`WaitOK`); and
  as long as there was no race nobody changes the vector while it is read
  (`Exclusion`). The parts need each other: that a number is not used again
  while a handler uses it rests on what is open, and what is open on who closes.
* `ServerImplementsChatRoom`. `RoomInv` counts: no more acknowledgements than
  messages were read, and all pieces of a client's messages in any inbox are
  older than the chunk its thread is busy with, or that chunk. `StepIsOneOf`
  says which few steps concern the room at all, and `Plain` what the others keep.
* `BroadcastReachesAllFresh`. `EntryOK` says who is in the vector, and `Loop`
  that in the middle of a broadcast each of its audience is still ahead in the
  vector, or has got the chunk, or does not count any more. Here `Exclusion` is
  needed: the vector does not change under the loop.

**The server over UDP** (`UdpChatProofs`, first part): `UdpServerTypeCorrect`, by which the
newline behind a datagram is in the buffer, and `EveryDatagramAnswered`. That at
most the last answer is missing is not inductive; `LossIsLast` adds that a lost
answer means a closed socket and a listener that is not waiting in `recvfrom`, so that
nothing is received any more.

**The client** (`ClientProofs`): `ClientTypeCorrect`,
`ReceiverNeverOutlivesSocket`, `RefusalIsClean`, `AllIsShownInOrder`. `ClientInv`
adds where the line at hand stands (`LinesOK`), that the receiver exists exactly
when the link was brought up (`LinkOK`), and that main joins the receiver
before it closes (`SocketOK`); the last theorem rests on `FlattenAppend`, a fact about the
library's folding of sequences.

**Client and server over UDP** (`UdpChatProofs`)

* `ComponentsImplemented`: every step of the composition is a step of `UdpServer`
  or a stutter, and a step of `Client` or a stutter. What has to be shown is
  that the network brings to each no more than its module allows for: a line
  finds the socket bound by a process that is up (`EndOK`), leaves behind in the
  client's buffer exactly the parts of the lines still on their way (`QueuedOK`), and
  an answer finds a client that has sent something.
* `ToldOfHandled`. The invariant `ChatInv` counts along the way of a line: those
  on their way and those that have come, received or still queued, are together
  no more than were sent and copied (`LinesOnce`), for all lines and for those that
  are not empty; the answers on their way and arrived are no more than the
  replies to this client, and of what has arrived besides there is no more than
  `MaxStrays` (`AnswersOnce`); each reply answers a datagram of its own, which is
  `EachIsAcknowledged` again; and each thing shown has a place of its own among
  what has arrived, and reads "OK" if it is shown as a delivery (`ShownOnce`).
  Hence whoever sends whatever to either program, the user is told at most once
  for each datagram handled and each stray that reads "OK".

**A datagram's way** (`PacketPathProofs`). The invariant has four parts: which packet
of the datagram is where (`Places`); how far its copy has come at each step of
`processPacket` (`Working`); that what was sent is what may be sent for the packet
that was captured (`Delivered`); and that the screen shows what was on the wire
(`Shown`).

* `ReplyAcceptedUnlessCarriesTwice`. The loop invariant of `checksum` is in
  `Working` (`Summing`): `sum` is the sum of the region's bytes up to `addr`, every
  second one weighted. That it never leaves 32 bits is proved with it
  (`SumBounded`, from the length of a packet). What follows is arithmetic:
  adding the carries back keeps a sum modulo 2^16 - 1 (`FoldCongruent`), so that
  a checksum stored where the field was cleared makes the receiver's sum a
  multiple, unless the code lost the second carry, when it is off by one
  (`ChecksumAccepted`). The order in the code matters: the ICMP checksum is
  stored before the IP header is summed, and `PutOutside` says that neither
  touches the other's region. The last claim of the property, about fragments,
  needs that a first part of even length adds to the sum of the rest
  (`TotalConcat`).
* `SwitchOnlySubstitutes`: with `captured` mapped to the packets taken so far,
  `Capture` and `Send` are the steps of `SubstitutionPlane`, and everything between
  them is a stutter. From `Working` it follows that what leaves differs from what
  was captured in the two headers only.
* `DataArriveUnlessTakenForReply`. That all data are kept when no later fragment
  was taken for a reply goes packet by packet. The converse needs more: the
  fragment that was overwritten differs in its first byte, and since all parts
  have kept their lengths, no change in one can be made up for by another
  (`FlattenInjective`).
* `MonitorShowsWhatWasWritten`: `Delivered` and `Shown`, by the kinds of header.

**The start of the programs** (`StartupProofs`)

* `ProgramsStartAsFileSays`. `ReadSoFar` is the loop invariant of reading a file: for
  every key, the map has what the last of the lines read so far says, or nothing if
  none does. At the end of the file this is what the whole file says, and
  `StartedWith` adds that a program that has started did read to the end and
  found its values acceptable.
* `SwitchStartsWithWhatWasTyped`. `DialogueSoFar` ties the state of `cin` to the
  lifetime, the list of interfaces to the addresses, and in the middle of the
  opening the handles to a front part of the names selected. To select the
  interfaces among the names, and of these the ones that can be opened, is to
  select once (`AmongTwice`).
* `MonitorAlwaysReleases`, `MonitorOpensWhatItWasTold`, from `MonitorSoFar`: what is
  held at each step of main, and that no interface was opened before one was
  chosen.

`SequenceLemmas` holds what several of them share. Where an argument needs
induction (the lowest free descriptor, the concatenation of all chunks, the
sum of a region, the names of a list) it is stated for a *set* of naturals
(`LeastElement`, `Induction`, `InductionUpTo`), which can be cited; that a function
defined by recursion exists, and so has the values its equations give it, is
`StepwiseExists`.

**Only model-checked** are the liveness properties, since neither fairness nor
`ENABLED` is within the prover's reach: `CapturedIsFinished`, `OutlivedIsDropped`,
`StopCompletesUnlessCapturing` of the switch; `HungUpIsForgotten`, `MessageIsHandled`,
`BacklogIsServed`, `StopReturnsUnlessAccepting` of the TCP server;
`StopReturnsUnlessReceiving` and `ToldInTheEnd` over UDP; `StopReturns` and
`LossIsNoticed` of the client. The three runs that end in a violation are
counterexamples and need no proof.

## 9. Not modelled

* Printing and formatting: tables, statistics (`printStats` and the durations it
  averages), addresses, flags and time stamps in the monitor, and the functions
  of `NetworkUtils` apart from `getAvailableInterfaces`. They change nothing.
* `getInt`, `load_ttl_config`, `broadcast_udp`: called by nobody.
* A failing `pcap_sendpacket`, whose result is ignored, and two handles on one
  network: the interface that is typed twice. `SwitchStart` shows that it can be;
  in `Switch` every port has a network of its own.
* The parsing of the client's arguments beyond complete, missing or invalid, and
  the trimming of the lines of a file.
* More than one copy of one line that the UDP network makes (a copy of an answer
  counts as a stray, sec. 5), and interleaved parts of two messages that are
  sent to one client over TCP (sec. 4).
* `Headers.h`, which includes.

## 10. Plan

1. Two handles on one network: what the switch sends it captures again, and a
   flooded frame comes back for ever; failing sends.
2. `SwitchStats`: `printStats` and `updateStats`, whose average counts the zero
   samples.
