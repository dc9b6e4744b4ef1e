--------------------------- MODULE TcpServerProofs ---------------------------
(***************************************************************************)
(* Proofs about the chat server over TCP, for every value of the           *)
(* constants: any set of connections, any number of descriptors, any       *)
(* number of messages, clients that hang up or stop reading, and a stop()  *)
(* at any time.  They hold up to the first data race on tcp_clients_, if   *)
(* there is one.                                                           *)
(***************************************************************************)
EXTENDS TcpServerProperties, SequenceLemmas

USE TcpServerAssumption

(* main leaves the command once and for all, and closes descriptors only   *)
(* after the listener thread is gone.                                      *)
MainOK ==
  /\ main.i \in Nat \ {0}
  /\ running <=> main.pc = "command"
  /\ Closing => listener.pc = "exited"

(* From accept to the start of the thread the listener holds a connection  *)
(* that is open under its descriptor and has no thread yet.                *)
ListenerOK ==
  /\ listener.conn # NoConn <=> listener.pc \in {"push", "pushing", "spawn"}
  /\ listener.conn # NoConn =>
       /\ listener.fd \in Fds
       /\ fds[listener.fd] = listener.conn
       /\ handler[listener.conn].pc = "none" /\ peer[listener.conn] # "away"

(* A connection waits in the backlog once, and only until it is accepted.  *)
BacklogOK ==
  /\ \A k \in DOMAIN backlog :
       /\ handler[backlog[k]].pc = "none" /\ peer[backlog[k]] # "away"
       /\ backlog[k] # listener.conn
  /\ \A j, k \in DOMAIN backlog : j # k => backlog[j] # backlog[k]

(* A thread exists for connections that have been made, and has a          *)
(* descriptor; its audience are others that had threads.                   *)
HandlerOK ==
  \A c \in Conns :
    /\ handler[c].pc = "none" <=> handler[c].fd = 0
    /\ handler[c].pc = "none" => handler[c].audience = {}
    /\ peer[c] = "away" => handler[c].pc = "none"
    /\ handler[c].i \in Nat \ {0}
    /\ c \notin handler[c].audience
    /\ \A d \in handler[c].audience : handler[d].pc # "none"

(* An open descriptor is the one of the listener or of the thread that     *)
(* uses it.                                                                *)
OpenOK ==
  \A f \in Fds, c \in Conns : fds[f] = c =>
    \/ c = listener.conn /\ listener.fd = f
    \/ handler[c].fd = f /\ UsesDescriptor(c)

(* No thread reads tcp_clients_ while another one changes it.              *)
Exclusion ==
  \A c \in Conns : HandlerReads(c) =>
    ~ListenerWrites /\ ~MainWrites /\ \A d \in Conns : ~HandlerWrites(d)

(* A call that waits on a connection whose descriptor has been closed      *)
(* meanwhile: recv and the acknowledgement on the thread's own, which only *)
(* main closes; send on another one, which has given up or which main has  *)
(* closed.                                                                 *)
WaitOK ==
  \A c \in Conns : handler[c].on # NoConn =>
    \/ handler[c].pc \in {"recv", "ack"} /\ handler[c].on = c
    \/ /\ handler[c].pc = "send" /\ handler[c].on # c /\ handler[c].i <= Len(clients)
       /\ \/ Closing
          \/ /\ handler[handler[c].on].fd = clients[handler[c].i]
             /\ handler[handler[c].on].pc \in {"erase", "erasing", "exited"}

DescriptorInv ==
  /\ TypeOK /\ MainOK /\ ListenerOK /\ BacklogOK /\ HandlerOK /\ OpenOK /\ Exclusion /\ WaitOK
  /\ HandlerOwnsDescriptor /\ EntriesHaveHandlers

-----------------------------------------------------------------------------
(* Operators of the model *)

(* The lowest free descriptor is free. *)
LEMMA LowestFdIsFree ==
  ASSUME FreeFds # {}
  PROVE  LowestFd \in Fds /\ fds[LowestFd] = NoConn
<1>1. FreeFds \in SUBSET Nat
  BY DEF FreeFds, Fds
<1>2. \E f \in FreeFds : \A g \in FreeFds : f <= g
  BY <1>1, LeastElement
<1>3. LowestFd \in FreeFds
  BY <1>2 DEF LowestFd
<1> QED
  BY <1>3 DEF FreeFds

Step(g, f, s, n) ==
  g[n] = IF n = 0 THEN <<>> ELSE g[n - 1] \o (IF s[n] = f THEN <<>> ELSE <<s[n]>>)

(* Element after element can be looked at and taken over. *)
LEMMA WithoutPrefix ==
  ASSUME NEW S, NEW s \in Seq(S), NEW f, NEW n \in Nat, n <= Len(s)
  PROVE  \E g \in [0 .. n -> Seq(S)] : \A i \in 0 .. n : Step(g, f, s, i)
<1> DEFINE G(m) == {g \in [0 .. m -> Seq(S)] : \A i \in 0 .. m : Step(g, f, s, i)}
           T == {m \in Nat : m <= Len(s) => G(m) # {}}
<1>1. 0 \in T
  <2>1. [i \in 0 .. 0 |-> <<>>] \in G(0)
    BY DEF Step
  <2> QED
    BY <2>1
<1>2. ASSUME NEW m \in T PROVE m + 1 \in T
  <2> SUFFICES ASSUME m + 1 <= Len(s) PROVE G(m + 1) # {}
    <3>1. m + 1 \in Nat
      OBVIOUS
    <3> HIDE DEF G
    <3> QED
      BY <3>1
  <2>0. m \in Nat /\ m <= Len(s) /\ G(m) # {}
    <3> HIDE DEF G
    <3> QED
      OBVIOUS
  <2>1. PICK g : g \in G(m)
    <3> HIDE DEF G
    <3> QED
      BY <2>0
  <2> DEFINE last == g[m] \o (IF s[m + 1] = f THEN <<>> ELSE <<s[m + 1]>>)
             h == [i \in 0 .. m + 1 |-> IF i = m + 1 THEN last ELSE g[i]]
  <2>2. last \in Seq(S)
    <3>1. g[m] \in Seq(S) /\ s[m + 1] \in S
      BY <2>0, <2>1
    <3>2. <<>> \in Seq(S) /\ <<s[m + 1]>> \in Seq(S)
      BY <3>1
    <3> QED
      BY <3>1, <3>2
  <2>3. h \in [0 .. m + 1 -> Seq(S)]
    <3> HIDE DEF last
    <3> QED
      BY <2>1, <2>2
  <2>4. ASSUME NEW i \in 0 .. m + 1 PROVE Step(h, f, s, i)
    <3>1. CASE i = m + 1
      <4>1. h[i] = last /\ h[i - 1] = g[m] /\ i # 0
        <5> HIDE DEF last
        <5> QED
          BY <2>0, <3>1
      <4> HIDE DEF h
      <4> QED
        BY <3>1, <4>1 DEF Step
    <3>2. CASE i # m + 1
      <4>1. h[i] = g[i] /\ (i # 0 => h[i - 1] = g[i - 1]) /\ i \in 0 .. m
        <5> HIDE DEF last
        <5> QED
          BY <2>0, <3>2
      <4>2. Step(g, f, s, i)
        BY <2>1, <4>1
      <4> HIDE DEF h
      <4> QED
        BY <4>1, <4>2 DEF Step
    <3> QED
      BY <3>1, <3>2
  <2> HIDE DEF h
  <2>5. h \in G(m + 1)
    BY <2>3, <2>4
  <2> QED
    BY <2>5
<1> HIDE DEF T
<1>3. T = Nat
  <2>1. T \in SUBSET Nat
    BY DEF T
  <2> QED
    BY <1>1, <1>2, <2>1, Induction
<1>4. n \in T
  BY <1>3
<1> QED
  BY <1>4 DEF T

Elements(s) == {s[k] : k \in DOMAIN s}

(* What Append adds to the elements of a sequence. *)
LEMMA ElementsOfAppend ==
  ASSUME NEW S, NEW t \in Seq(S), NEW e \in S
  PROVE  Elements(Append(t, e)) = Elements(t) \cup {e}
<1> DEFINE u == Append(t, e)
<1>1. /\ u \in Seq(S) /\ Len(u) = Len(t) + 1 /\ u[Len(t) + 1] = e
      /\ \A k \in 1 .. Len(t) : u[k] = t[k]
  OBVIOUS
<1> HIDE DEF u
<1>2. DOMAIN u = 1 .. Len(t) + 1 /\ DOMAIN t = 1 .. Len(t) /\ Len(t) \in Nat
  BY <1>1
<1>3. ASSUME NEW x \in Elements(u) PROVE x \in Elements(t) \cup {e}
  <2>1. PICK k \in 1 .. Len(t) + 1 : x = u[k]
    BY <1>2, <1>3 DEF Elements
  <2> QED
    BY <1>1, <1>2, <2>1 DEF Elements
<1>4. ASSUME NEW x \in Elements(t) \cup {e} PROVE x \in Elements(u)
  <2>1. CASE x = e
    BY <1>1, <1>2, <2>1 DEF Elements
  <2>2. CASE x \in Elements(t)
    BY <1>1, <1>2, <2>2 DEF Elements
  <2> QED
    BY <1>4, <2>1, <2>2
<1>5. Elements(u) = Elements(t) \cup {e}
  BY <1>3, <1>4
<1> QED
  BY <1>5 DEF u

(* What erase(remove(...)) leaves is a sequence of the other elements. *)
LEMMA WithoutIs ==
  ASSUME NEW S, NEW s \in Seq(S), NEW f
  PROVE  /\ Without(f, s) \in Seq(S)
         /\ Elements(Without(f, s)) = Elements(s) \ {f}
<1> DEFINE E(g) == g = [n \in 0 .. Len(s) |->
                          IF n = 0 THEN <<>> ELSE g[n - 1] \o (IF s[n] = f THEN <<>> ELSE <<s[n]>>)]
           first == CHOOSE g : E(g)
           Seen(n) == {s[k] : k \in 1 .. n} \ {f}
<1>0. Len(s) \in Nat /\ Len(s) \in 0 .. Len(s) /\ DOMAIN s = 1 .. Len(s)
  OBVIOUS
<1>1. \E g \in [0 .. Len(s) -> Seq(S)] : \A i \in 0 .. Len(s) : Step(g, f, s, i)
  <2> DEFINE n == Len(s)
  <2>1. n \in Nat /\ n <= Len(s)
    OBVIOUS
  <2> HIDE DEF n
  <2>2. \E g \in [0 .. n -> Seq(S)] : \A i \in 0 .. n : Step(g, f, s, i)
    BY <2>1, WithoutPrefix
  <2> QED
    BY <2>2 DEF n
<1>2. PICK g \in [0 .. Len(s) -> Seq(S)] : \A i \in 0 .. Len(s) : Step(g, f, s, i)
  BY <1>1
<1>3. E(g)
  BY <1>2 DEF Step
<1>4. E(first)
  BY <1>3
<1>5. Without(f, s) = first[Len(s)]
  BY DEF Without
<1> HIDE DEF first
<1>6. first[0] = <<>>
  BY <1>4
<1> DEFINE T == {n \in Nat : n <= Len(s) => first[n] \in Seq(S) /\ Elements(first[n]) = Seen(n)}
<1>7. 0 \in T
  <2>1. Elements(<<>>) = {} /\ Seen(0) = {}
    BY DEF Elements
  <2>2. <<>> \in Seq(S)
    OBVIOUS
  <2> HIDE DEF Seen
  <2> QED
    BY <1>6, <2>1, <2>2
<1>8. ASSUME NEW n \in T PROVE n + 1 \in T
  <2>0. n \in Nat /\ n + 1 \in Nat
    OBVIOUS
  <2> SUFFICES ASSUME n + 1 <= Len(s)
               PROVE  first[n + 1] \in Seq(S) /\ Elements(first[n + 1]) = Seen(n + 1)
    <3> HIDE DEF Seen
    <3> QED
      BY <2>0
  <2>1. first[n] \in Seq(S) /\ Elements(first[n]) = Seen(n)
    <3>1. n <= Len(s)
      BY <1>0, <2>0
    <3> HIDE DEF Seen
    <3> QED
      BY <3>1
  <2> DEFINE t == first[n]
             e == s[n + 1]
  <2>2. e \in S
    BY <1>0, <2>0
  <2>3. first[n + 1] = t \o (IF e = f THEN <<>> ELSE <<e>>)
    <3>1. n + 1 \in 0 .. Len(s) /\ n + 1 # 0 /\ (n + 1) - 1 = n
      BY <1>0, <2>0
    <3> QED
      BY <1>4, <3>1
  <2>4. Seen(n + 1) = IF e = f THEN Seen(n) ELSE Seen(n) \cup {e}
    BY <2>0
  <2>5. t \in Seq(S) /\ Elements(t) = Seen(n)
    BY <2>1
  <2> HIDE DEF t, e, Seen
  <2>6. CASE e = f
    <3>1. t \o <<>> = t
      BY <2>5
    <3> QED
      BY <2>3, <2>4, <2>5, <2>6, <3>1
  <2>7. CASE e # f
    <3>1. t \o <<e>> = Append(t, e) /\ Append(t, e) \in Seq(S)
      BY <2>2, <2>5
    <3>2. Elements(Append(t, e)) = Elements(t) \cup {e}
      BY <2>2, <2>5, ElementsOfAppend
    <3> QED
      BY <2>3, <2>4, <2>5, <2>7, <3>1, <3>2
  <2> QED
    BY <2>6, <2>7
<1> HIDE DEF T
<1>9. T = Nat
  <2>1. T \in SUBSET Nat
    BY DEF T
  <2> QED
    BY <1>7, <1>8, <2>1, Induction
<1>10. Len(s) \in T
  BY <1>0, <1>9
<1>11. first[Len(s)] \in Seq(S) /\ Elements(first[Len(s)]) = Seen(Len(s))
  <2> HIDE DEF Seen
  <2> QED
    BY <1>0, <1>10 DEF T
<1>12. Seen(Len(s)) = Elements(s) \ {f}
  BY <1>0 DEF Elements
<1> QED
  BY <1>5, <1>11, <1>12

-----------------------------------------------------------------------------
(* Steps of the handler threads *)

(* A thread that moves leaves the other threads where they are. *)
LEMMA BecomesIs ==
  ASSUME TypeOK, NEW c \in Conns, NEW thread \in Thread, HandlerBecomes(c, thread)
  PROVE  /\ handler' \in [Conns -> Thread]
         /\ handler'[c] = thread
         /\ \A d \in Conns \ {c} : handler'[d] = handler[d]
BY DEF HandlerBecomes, TypeOK

(* The fields of a thread have their types. *)
LEMMA ThreadFields ==
  ASSUME TypeOK, NEW c \in Conns
  PROVE  /\ handler[c] \in Thread
         /\ handler[c].pc \in {"none", "check", "recv", "ack", "broadcast", "send", "close",
                               "erase", "erasing", "exited"}
         /\ handler[c].fd \in Fds \cup {0} /\ handler[c].fd \in Nat
         /\ handler[c].chunk \in Piece /\ handler[c].i \in Nat
         /\ handler[c].on \in Conns \cup {NoConn} /\ handler[c].audience \subseteq Conns
BY SMTT(30) DEF TypeOK, Thread, Fds

Busies == {"check", "recv", "ack", "broadcast", "send", "close"}

(* Thread c takes a step that does not give its descriptor up. *)
Moves(c) ==
  /\ UNCHANGED <<running, main, listener, fds, backlog>>
  /\ \A d \in Conns : peer'[d] = "away" <=> peer[d] = "away"
  /\ \A d \in Conns \ {c} : handler'[d] = handler[d]
  /\ handler'[c].fd = handler[c].fd /\ handler'[c].i # 0
  /\ \/ handler[c].pc \in Busies /\ handler'[c].pc \in Busies
     \/ handler[c].pc = "erase" /\ handler'[c].pc = "erasing"
     \/ handler[c].pc = "erasing" /\ handler'[c].pc = "exited"
  /\ \A d \in handler'[c].audience : d # c /\ handler[d].pc # "none"

(* Besides, it does not leave. *)
GoesOn(c) ==
  /\ Moves(c)
  /\ UNCHANGED clients
  /\ handler'[c].on = NoConn /\ handler'[c].pc # "exited"
  /\ handler'[c].pc = "send" =>
       ~ListenerWrites /\ ~MainWrites /\ \A d \in Conns : ~HandlerWrites(d)
  /\ handler'[c].pc = "erasing" => \A d \in Conns : ~HandlerReads(d)

(* Such a step preserves what is said of main, the listener, the backlog,  *)
(* the threads and the descriptors.                                        *)
LEMMA MovesKeeps ==
  ASSUME DescriptorInv, TypeOK', NEW c \in Conns, Moves(c)
  PROVE  MainOK' /\ ListenerOK' /\ BacklogOK' /\ HandlerOK' /\ OpenOK' /\ HandlerOwnsDescriptor'
<1> USE DEF Moves
<1>0. TypeOK /\ MainOK /\ ListenerOK /\ BacklogOK /\ HandlerOK /\ OpenOK /\ Exclusion /\ WaitOK
      /\ HandlerOwnsDescriptor /\ EntriesHaveHandlers
  BY DEF DescriptorInv
<1>1. \A d \in Conns : handler'[d].fd = handler[d].fd
                       /\ (handler'[d].pc = "none" <=> handler[d].pc = "none")
                       /\ (handler'[d].pc \in Busies <=> handler[d].pc \in Busies)
  BY DEF Busies
<1>2. MainOK'
  BY <1>0 DEF MainOK, Closing
<1>3. ListenerOK'
  <2>1. listener.conn \in Conns \cup {NoConn}
    BY <1>0 DEF TypeOK
  <2> QED
    BY <1>0, <1>1, <2>1 DEF ListenerOK
<1>4. BacklogOK'
  <2>1. \A k \in DOMAIN backlog : backlog[k] \in Conns
    BY <1>0 DEF TypeOK
  <2> QED
    BY <1>0, <1>1, <2>1 DEF BacklogOK
<1>5. HandlerOK'
  <2>1. \A d \in Conns : handler'[d].i \in Nat
    BY ThreadFields DEF TypeOK, Thread
  <2>2. \A d \in Conns : \A e \in handler[d].audience \cup handler'[d].audience : e \in Conns
    BY <1>0 DEF TypeOK, Thread
  <2>3. ASSUME NEW d \in Conns, d # c
        PROVE /\ handler'[d].pc = "none" <=> handler'[d].fd = 0
              /\ handler'[d].pc = "none" => handler'[d].audience = {}
              /\ peer'[d] = "away" => handler'[d].pc = "none"
              /\ handler'[d].i \in Nat \ {0}
              /\ d \notin handler'[d].audience
              /\ \A e \in handler'[d].audience : handler'[e].pc # "none"
    BY <1>0, <1>1, <2>2, <2>3 DEF HandlerOK
  <2>4. /\ handler'[c].pc # "none" /\ handler'[c].fd # 0 /\ peer'[c] # "away"
        /\ handler'[c].i \in Nat \ {0} /\ c \notin handler'[c].audience
        /\ \A e \in handler'[c].audience : handler'[e].pc # "none"
    BY <1>0, <1>1, <2>1, <2>2 DEF HandlerOK, Busies
  <2> QED
    BY <2>3, <2>4 DEF HandlerOK
<1>6. OpenOK'
  <2>1. \A f \in Fds : fds[f] \in Conns \cup {NoConn}
    BY <1>0 DEF TypeOK
  <2> QED
    BY <1>0, <1>1, <2>1 DEF OpenOK, UsesDescriptor, Serving, Busies
<1>7. HandlerOwnsDescriptor'
  BY <1>0, <1>1 DEF HandlerOwnsDescriptor, UsesDescriptor, Serving, Busies, Closing
<1> QED
  BY <1>2, <1>3, <1>4, <1>5, <1>6, <1>7

(* A thread that goes on preserves the invariant. *)
LEMMA GoesOnKeeps ==
  ASSUME DescriptorInv, TypeOK', NEW c \in Conns, GoesOn(c)
  PROVE  DescriptorInv'
<1> USE DEF GoesOn, Moves
<1>0. TypeOK /\ MainOK /\ ListenerOK /\ BacklogOK /\ HandlerOK /\ OpenOK /\ Exclusion /\ WaitOK
      /\ HandlerOwnsDescriptor /\ EntriesHaveHandlers
  BY DEF DescriptorInv
<1>1. \A d \in Conns : handler'[d].fd = handler[d].fd
  OBVIOUS
<1>2. MainOK' /\ ListenerOK' /\ BacklogOK' /\ HandlerOK' /\ OpenOK' /\ HandlerOwnsDescriptor'
  BY MovesKeeps
<1>3. Exclusion'
  BY <1>0 DEF Exclusion, HandlerReads, HandlerWrites, ListenerWrites, MainWrites
<1>4. WaitOK'
  <2> SUFFICES ASSUME NEW d \in Conns, handler'[d].on # NoConn
               PROVE  \/ handler'[d].pc \in {"recv", "ack"} /\ handler'[d].on = d
                      \/ /\ handler'[d].pc = "send" /\ handler'[d].on # d
                         /\ handler'[d].i <= Len(clients)
                         /\ \/ Closing
                            \/ /\ handler'[handler'[d].on].fd = clients[handler'[d].i]
                               /\ handler'[handler'[d].on].pc \in {"erase", "erasing", "exited"}
    BY DEF WaitOK, Closing
  <2>1. d # c /\ handler'[d] = handler[d] /\ handler[d].on \in Conns
    BY <1>0, ThreadFields
  <2>2. handler[handler[d].on].pc \in {"erase", "erasing", "exited"}
          => handler'[handler[d].on].pc \in {"erase", "erasing", "exited"}
    BY <2>1 DEF Busies
  <2> QED
    BY <1>0, <1>1, <2>1, <2>2 DEF WaitOK
<1>5. EntriesHaveHandlers'
  <2>1. \A d \in Conns : handler[d].pc # "exited" => handler'[d].pc # "exited"
    BY DEF Busies
  <2> QED
    BY <1>0, <1>1, <2>1 DEF EntriesHaveHandlers
<1> QED
  BY <1>0, <1>2, <1>3, <1>4, <1>5 DEF DescriptorInv

(* A call is about a connection, or fails. *)
LEMMA BehindType ==
  ASSUME TypeOK, NEW c \in Conns, NEW f \in Fds
  PROVE  Behind(c, f) \in Conns \cup {NoConn}
BY ThreadFields DEF Behind, TypeOK

(* What send may change. *)
LEMMA SendIs ==
  ASSUME TypeOK, NEW d \in Conns \cup {NoConn}, NEW data \in Piece, Send(d, data)
  PROVE  /\ process' \in {"up", "returned", "killed", "undefined"}
         /\ peer' \in [Conns -> {"away", "open", "full", "closed", "reset"}]
         /\ \A e \in Conns : peer'[e] = "away" <=> peer[e] = "away"
         /\ inbox' \in [Conns -> Seq(Piece)]
<1>1. inbox \in [Conns -> Seq(Piece)]
      /\ peer \in [Conns -> {"away", "open", "full", "closed", "reset"}]
      /\ process \in {"up", "returned", "killed", "undefined"}
  BY DEF TypeOK
<1>2. inbox' \in [Conns -> Seq(Piece)]
  <2>1. CASE d # NoConn /\ peer[d] = "open"
    <3>1. Append(inbox[d], data) \in Seq(Piece)
      <4>1. inbox[d] \in Seq(Piece)
        BY <1>1, <2>1
      <4> HIDE DEF Piece
      <4> QED
        BY <4>1
    <3>2. inbox' = [inbox EXCEPT ![d] = Append(inbox[d], data)]
      BY <2>1 DEF Send
    <3> QED
      BY <1>1, <2>1, <3>1, <3>2
  <2>2. CASE ~(d # NoConn /\ peer[d] = "open")
    BY <1>1, <2>2 DEF Send
  <2> QED
    BY <2>1, <2>2
<1> QED
  BY <1>1, <1>2 DEF Send

(* The threads that have a descriptor. *)
LEMMA HasFd ==
  ASSUME TypeOK, HandlerOK, NEW c \in Conns, handler[c].pc # "none"
  PROVE  handler[c].fd \in Fds
BY ThreadFields DEF HandlerOK

(* The test of is_running_. *)
LEMMA HandlerCheckKeeps ==
  ASSUME DescriptorInv, NEW c \in Conns, HandlerCheck(c)
  PROVE  DescriptorInv'
<1> DEFINE thread == [handler[c] EXCEPT !.pc = IF running THEN "recv" ELSE "close", !.audience = {}]
<1>0. TypeOK /\ HandlerOK /\ WaitOK
  BY DEF DescriptorInv
<1>1. HandlerBecomes(c, thread) /\ handler[c].pc = "check" /\ handler[c] \in Thread
      /\ UNCHANGED <<process, running, server, clients, main, listener, fds, network>>
  BY <1>0, ThreadFields DEF HandlerCheck
<1>2. thread \in Thread /\ thread.pc \in {"recv", "close"} /\ thread.audience = {}
      /\ thread.fd = handler[c].fd /\ thread.on = handler[c].on /\ thread.i = handler[c].i
  BY <1>1 DEF Thread
<1> HIDE DEF thread
<1>3. /\ handler' \in [Conns -> Thread] /\ handler'[c] = thread
      /\ \A d \in Conns \ {c} : handler'[d] = handler[d]
  BY <1>0, <1>1, <1>2, BecomesIs
<1>4. TypeOK'
  BY SMTT(30), <1>0, <1>1, <1>3 DEF TypeOK, network
<1>5. handler[c].on = NoConn /\ handler[c].i # 0
  BY <1>0, <1>1 DEF WaitOK, HandlerOK
<1>6. GoesOn(c)
  BY <1>1, <1>2, <1>3, <1>4, <1>5 DEF GoesOn, Moves, Busies, network
<1> QED
  BY <1>4, <1>6, GoesOnKeeps

(* recv reads from the thread's own connection, if anything. *)
LEMMA OwnConnection ==
  ASSUME DescriptorInv, NEW c \in Conns, handler[c].pc \in {"recv", "ack"},
         Behind(c, handler[c].fd) # NoConn
  PROVE  Behind(c, handler[c].fd) = c
BY DEF DescriptorInv, WaitOK, HandlerOwnsDescriptor, UsesDescriptor, Serving, Behind

(* recv returns something. *)
LEMMA RecvKeeps ==
  ASSUME DescriptorInv, NEW c \in Conns, Recv(c)
  PROVE  DescriptorInv'
<1> DEFINE Taken(n) == [handler[c] EXCEPT !.pc = "ack", !.on = NoConn,
                          !.chunk = [from |-> c, first |-> received[c] + 1, last |-> n]]
<1>0. TypeOK /\ HandlerOK
  BY DEF DescriptorInv
<1>1. handler[c].pc = "recv" /\ handler[c] \in Thread /\ Behind(c, handler[c].fd) = c
      /\ received[c] \in Nat /\ sent[c] \in Nat
      /\ UNCHANGED <<process, running, server, clients, main, listener, fds, backlog, peer, sent, inbox>>
  BY <1>0, OwnConnection, ThreadFields DEF Recv, TypeOK
<1>2. PICK n \in received[c] + 1 .. sent[c] :
        HandlerBecomes(c, Taken(n)) /\ received' = [received EXCEPT ![c] = n]
  BY <1>1 DEF Recv
<1>3. n \in Nat /\ received' \in [Conns -> Nat]
  BY <1>0, <1>1, <1>2 DEF TypeOK
<1>4. [from |-> c, first |-> received[c] + 1, last |-> n] \in Piece
  BY <1>1, <1>3 DEF Piece
<1> DEFINE thread == Taken(n)
<1>5. thread \in Thread /\ thread.pc = "ack" /\ thread.audience = handler[c].audience
      /\ thread.fd = handler[c].fd /\ thread.on = NoConn /\ thread.i = handler[c].i
  BY <1>1, <1>4 DEF Thread
<1>6. HandlerBecomes(c, thread)
  BY <1>2
<1> HIDE DEF thread
<1>7. /\ handler' \in [Conns -> Thread] /\ handler'[c] = thread
      /\ \A d \in Conns \ {c} : handler'[d] = handler[d]
  BY <1>0, <1>5, <1>6, BecomesIs
<1>8. TypeOK'
  BY <1>0, <1>1, <1>3, <1>7, SMTT(30) DEF TypeOK
<1>9. handler[c].i # 0 /\ \A d \in handler[c].audience : d \in Conns /\ d # c /\ handler[d].pc # "none"
  BY <1>0, ThreadFields DEF HandlerOK
<1>10. GoesOn(c)
  BY <1>1, <1>5, <1>7, <1>8, <1>9 DEF GoesOn, Moves, Busies
<1> QED
  BY <1>8, <1>10, GoesOnKeeps

(* recv fails, or the client has closed the connection. *)
LEMMA RecvFailsKeeps ==
  ASSUME DescriptorInv, NEW c \in Conns, RecvFails(c)
  PROVE  DescriptorInv'
<1> DEFINE thread == [handler[c] EXCEPT !.pc = "close", !.on = NoConn]
<1>0. TypeOK /\ HandlerOK
  BY DEF DescriptorInv
<1>1. HandlerBecomes(c, thread) /\ handler[c].pc = "recv" /\ handler[c] \in Thread
      /\ UNCHANGED <<process, running, server, clients, main, listener, fds, network>>
  BY <1>0, ThreadFields DEF RecvFails, RecvFailsIf
<1>2. thread \in Thread /\ thread.pc = "close" /\ thread.audience = handler[c].audience
      /\ thread.fd = handler[c].fd /\ thread.on = NoConn /\ thread.i = handler[c].i
  BY <1>1 DEF Thread
<1> HIDE DEF thread
<1>3. /\ handler' \in [Conns -> Thread] /\ handler'[c] = thread
      /\ \A d \in Conns \ {c} : handler'[d] = handler[d]
  BY <1>0, <1>1, <1>2, BecomesIs
<1>4. TypeOK'
  BY SMTT(30), <1>0, <1>1, <1>3 DEF TypeOK, network
<1>5. handler[c].i # 0 /\ \A d \in handler[c].audience : d \in Conns /\ d # c /\ handler[d].pc # "none"
  BY <1>0, ThreadFields DEF HandlerOK
<1>6. GoesOn(c)
  BY <1>1, <1>2, <1>3, <1>4, <1>5 DEF GoesOn, Moves, Busies, network
<1> QED
  BY <1>4, <1>6, GoesOnKeeps

(* The acknowledgement is sent, or cannot be. *)
LEMMA AcknowledgeKeeps ==
  ASSUME DescriptorInv, NEW c \in Conns, Acknowledge(c)
  PROVE  DescriptorInv'
<1> DEFINE thread == [handler[c] EXCEPT !.pc = "broadcast", !.on = NoConn]
           d == Behind(c, handler[c].fd)
<1>0. TypeOK /\ HandlerOK
  BY DEF DescriptorInv
<1>1. HandlerBecomes(c, thread) /\ handler[c].pc = "ack" /\ handler[c] \in Thread
      /\ Send(d, OK)
      /\ UNCHANGED <<running, server, clients, main, listener, fds, backlog, sent, received>>
  BY <1>0, ThreadFields DEF Acknowledge
<1>2. thread \in Thread /\ thread.pc = "broadcast" /\ thread.audience = handler[c].audience
      /\ thread.fd = handler[c].fd /\ thread.on = NoConn /\ thread.i = handler[c].i
  BY <1>1 DEF Thread
<1>3. d \in Conns \cup {NoConn} /\ OK \in Piece
  BY <1>0, <1>1, HasFd, BehindType DEF OK, NoChunk, Piece
<1> HIDE DEF thread, d
<1>4. /\ process' \in {"up", "returned", "killed", "undefined"}
      /\ peer' \in [Conns -> {"away", "open", "full", "closed", "reset"}]
      /\ \A e \in Conns : peer'[e] = "away" <=> peer[e] = "away"
      /\ inbox' \in [Conns -> Seq(Piece)]
  BY <1>0, <1>1, <1>3, SendIs
<1>5. /\ handler' \in [Conns -> Thread] /\ handler'[c] = thread
      /\ \A e \in Conns \ {c} : handler'[e] = handler[e]
  BY <1>0, <1>1, <1>2, BecomesIs
<1>6. TypeOK'
  BY <1>0, <1>1, <1>4, <1>5 DEF TypeOK
<1>7. handler[c].i # 0 /\ \A e \in handler[c].audience : e \in Conns /\ e # c /\ handler[e].pc # "none"
  BY <1>0, ThreadFields DEF HandlerOK
<1>8. GoesOn(c)
  BY <1>1, <1>2, <1>4, <1>5, <1>6, <1>7 DEF GoesOn, Moves, Busies
<1> QED
  BY <1>6, <1>8, GoesOnKeeps

(* Nothing moves but the process as a whole, and clients. *)
Still ==
  /\ UNCHANGED <<running, clients, main, listener, handler, fds, backlog>>
  /\ \A d \in Conns : peer'[d] = "away" <=> peer[d] = "away"

(* Where only those move, the invariant is preserved. *)
LEMMA StillKeeps ==
  ASSUME DescriptorInv, TypeOK', Still
  PROVE  DescriptorInv'
<1>0. TypeOK /\ MainOK /\ ListenerOK /\ BacklogOK /\ HandlerOK /\ OpenOK /\ Exclusion /\ WaitOK
      /\ HandlerOwnsDescriptor /\ EntriesHaveHandlers
  BY DEF DescriptorInv
<1>1. UNCHANGED <<running, clients, main, listener, handler, fds, backlog>>
      /\ \A d \in Conns : peer'[d] = "away" <=> peer[d] = "away"
  BY DEF Still
<1>2. MainOK'
  BY <1>0, <1>1 DEF MainOK, Closing
<1>3. ListenerOK'
  <2>1. listener.conn \in Conns \cup {NoConn}
    BY <1>0 DEF TypeOK
  <2> QED
    BY <1>0, <1>1, <2>1 DEF ListenerOK
<1>4. BacklogOK'
  <2>1. \A k \in DOMAIN backlog : backlog[k] \in Conns
    BY <1>0 DEF TypeOK
  <2> QED
    BY <1>0, <1>1, <2>1 DEF BacklogOK
<1>5. HandlerOK'
  BY <1>0, <1>1 DEF HandlerOK
<1>6. OpenOK' /\ HandlerOwnsDescriptor'
  BY <1>0, <1>1 DEF OpenOK, HandlerOwnsDescriptor, UsesDescriptor, Serving, Closing
<1>7. Exclusion' /\ WaitOK'
  BY <1>0, <1>1 DEF Exclusion, WaitOK, HandlerReads, HandlerWrites, ListenerWrites, MainWrites, Closing
<1>8. EntriesHaveHandlers'
  BY <1>0, <1>1 DEF EntriesHaveHandlers
<1> QED
  BY <1>2, <1>3, <1>4, <1>5, <1>6, <1>7, <1>8 DEF DescriptorInv

(* A data race is noted; the state of before is kept. *)
LEMMA UndefinedKeeps ==
  ASSUME DescriptorInv, Undefined
  PROVE  DescriptorInv'
<1>1. UNCHANGED <<running, server, clients, main, listener, handler, fds, backlog, peer, sent,
                  received, inbox>> /\ process' = "undefined"
  BY DEF Undefined, threads, network
<1>2. TypeOK'
  BY <1>1 DEF DescriptorInv, TypeOK
<1> QED
  BY <1>1, <1>2, StillKeeps DEF Still

(* The loop of a broadcast starts. *)
LEMMA BroadcastBeginKeeps ==
  ASSUME DescriptorInv, NEW c \in Conns, BroadcastBegin(c)
  PROVE  DescriptorInv'
<1> DEFINE audience == {d \in Conns \ {c} : Serving(d)}
           thread == [handler[c] EXCEPT !.pc = "send", !.i = 1, !.audience = audience]
<1>0. TypeOK /\ HandlerOK /\ WaitOK
  BY DEF DescriptorInv
<1>1. CASE ReadRace(c)
  BY <1>1, UndefinedKeeps DEF BroadcastBegin
<1>2. CASE ~ReadRace(c)
  <2>1. HandlerBecomes(c, thread) /\ handler[c].pc = "broadcast" /\ handler[c] \in Thread
        /\ UNCHANGED <<process, running, server, clients, main, listener, fds, network>>
    BY <1>0, <1>2, ThreadFields DEF BroadcastBegin
  <2>2. audience \in SUBSET Conns /\ \A d \in audience : d # c /\ handler[d].pc # "none"
    BY DEF Serving
  <2> HIDE DEF audience
  <2>3. thread \in Thread /\ thread.pc = "send" /\ thread.audience = audience
        /\ thread.fd = handler[c].fd /\ thread.on = handler[c].on /\ thread.i = 1
    BY <2>1, <2>2 DEF Thread
  <2> HIDE DEF thread
  <2>4. /\ handler' \in [Conns -> Thread] /\ handler'[c] = thread
        /\ \A d \in Conns \ {c} : handler'[d] = handler[d]
    BY <1>0, <2>1, <2>3, BecomesIs
  <2>5. TypeOK'
    BY <1>0, <2>1, <2>4 DEF TypeOK, network
  <2>6. handler[c].on = NoConn
    BY <1>0, <2>1 DEF WaitOK
  <2>7. ~ListenerWrites /\ ~MainWrites /\ \A d \in Conns : ~HandlerWrites(d)
    BY <1>2, <2>1 DEF ReadRace, HandlerWrites
  <2>8. GoesOn(c)
    BY <2>1, <2>2, <2>3, <2>4, <2>6, <2>7 DEF GoesOn, Moves, Busies, network
  <2> QED
    BY <2>5, <2>8, GoesOnKeeps
<1> QED
  BY <1>1, <1>2

(* The entry that a turn of the loop is about. *)
LEMMA EntryInTurn ==
  ASSUME TypeOK, HandlerOK, NEW c \in Conns, handler[c].i <= Len(clients)
  PROVE  handler[c].i \in DOMAIN clients /\ clients[handler[c].i] \in Fds
BY DEF HandlerOK, TypeOK

(* One turn of the loop. *)
LEMMA BroadcastTurnKeeps ==
  ASSUME DescriptorInv, NEW c \in Conns, BroadcastTurn(c)
  PROVE  DescriptorInv'
<1> DEFINE next == handler[c].i + 1
           thread == [handler[c] EXCEPT !.i = next, !.on = NoConn]
           f == clients[handler[c].i]
           d == Behind(c, f)
<1>0. TypeOK /\ HandlerOK /\ Exclusion
  BY DEF DescriptorInv
<1>1. HandlerBecomes(c, thread) /\ handler[c].pc = "send" /\ handler[c] \in Thread
      /\ handler[c].chunk \in Piece /\ handler[c].i <= Len(clients)
      /\ (UNCHANGED <<process, peer, inbox>> \/ Send(d, handler[c].chunk))
      /\ UNCHANGED <<running, server, clients, main, listener, fds, backlog, sent, received>>
  BY <1>0, ThreadFields DEF BroadcastTurn, BroadcastTurnExcept
<1>2. thread \in Thread /\ thread.pc = "send" /\ thread.audience = handler[c].audience
      /\ thread.fd = handler[c].fd /\ thread.on = NoConn /\ thread.i # 0
  <2>1. handler[c].i \in Nat
    BY <1>0, ThreadFields
  <2>2. next \in Nat /\ next # 0
    BY <2>1
  <2> HIDE DEF next
  <2> QED
    BY <1>1, <2>2 DEF Thread
<1>3. d \in Conns \cup {NoConn}
  BY <1>0, <1>1, EntryInTurn, BehindType
<1> HIDE DEF thread, d
<1>4. /\ process' \in {"up", "returned", "killed", "undefined"}
      /\ peer' \in [Conns -> {"away", "open", "full", "closed", "reset"}]
      /\ \A e \in Conns : peer'[e] = "away" <=> peer[e] = "away"
      /\ inbox' \in [Conns -> Seq(Piece)]
  <2>1. CASE UNCHANGED <<process, peer, inbox>>
    BY <1>0, <2>1 DEF TypeOK
  <2>2. CASE Send(d, handler[c].chunk)
    BY <1>0, <1>1, <1>3, <2>2, SendIs
  <2> QED
    BY <1>1, <2>1, <2>2
<1>5. /\ handler' \in [Conns -> Thread] /\ handler'[c] = thread
      /\ \A e \in Conns \ {c} : handler'[e] = handler[e]
  BY <1>0, <1>1, <1>2, BecomesIs
<1>6. TypeOK'
  BY <1>0, <1>1, <1>4, <1>5 DEF TypeOK
<1>7. \A e \in handler[c].audience : e \in Conns /\ e # c /\ handler[e].pc # "none"
  BY <1>0, ThreadFields DEF HandlerOK
<1>8. ~ListenerWrites /\ ~MainWrites /\ \A e \in Conns : ~HandlerWrites(e)
  BY <1>0, <1>1 DEF Exclusion, HandlerReads
<1>9. GoesOn(c)
  BY <1>1, <1>2, <1>4, <1>5, <1>7, <1>8 DEF GoesOn, Moves, Busies
<1> QED
  BY <1>6, <1>9, GoesOnKeeps

(* The loop ends. *)
LEMMA BroadcastEndKeeps ==
  ASSUME DescriptorInv, NEW c \in Conns, BroadcastEnd(c)
  PROVE  DescriptorInv'
<1> DEFINE thread == [handler[c] EXCEPT !.pc = "check"]
<1>0. TypeOK /\ HandlerOK /\ WaitOK
  BY DEF DescriptorInv
<1>1. HandlerBecomes(c, thread) /\ handler[c].pc = "send" /\ handler[c] \in Thread
      /\ handler[c].i > Len(clients)
      /\ UNCHANGED <<process, running, server, clients, main, listener, fds, network>>
  BY <1>0, ThreadFields DEF BroadcastEnd, HandlerGoto
<1>2. thread \in Thread /\ thread.pc = "check" /\ thread.audience = handler[c].audience
      /\ thread.fd = handler[c].fd /\ thread.on = handler[c].on /\ thread.i = handler[c].i
  BY <1>1 DEF Thread
<1> HIDE DEF thread
<1>3. /\ handler' \in [Conns -> Thread] /\ handler'[c] = thread
      /\ \A d \in Conns \ {c} : handler'[d] = handler[d]
  BY <1>0, <1>1, <1>2, BecomesIs
<1>4. TypeOK'
  BY <1>0, <1>1, <1>3 DEF TypeOK, network
<1>5. handler[c].on = NoConn
  <2>1. handler[c].i \in Nat /\ Len(clients) \in Nat
    BY <1>0, ThreadFields DEF TypeOK
  <2> QED
    BY <1>0, <1>1, <2>1 DEF WaitOK
<1>6. handler[c].i # 0 /\ \A d \in handler[c].audience : d \in Conns /\ d # c /\ handler[d].pc # "none"
  BY <1>0, ThreadFields DEF HandlerOK
<1>7. GoesOn(c)
  BY <1>1, <1>2, <1>3, <1>5, <1>6 DEF GoesOn, Moves, Busies, network
<1> QED
  BY <1>4, <1>7, GoesOnKeeps

(* erase begins. *)
LEMMA EraseBeginKeeps ==
  ASSUME DescriptorInv, NEW c \in Conns, EraseBegin(c)
  PROVE  DescriptorInv'
<1> DEFINE thread == [handler[c] EXCEPT !.pc = "erasing"]
<1>0. TypeOK /\ HandlerOK /\ WaitOK
  BY DEF DescriptorInv
<1>1. CASE WriteRace(c)
  BY <1>1, UndefinedKeeps DEF EraseBegin
<1>2. CASE ~WriteRace(c)
  <2>1. HandlerBecomes(c, thread) /\ handler[c].pc = "erase" /\ handler[c] \in Thread
        /\ UNCHANGED <<process, running, server, clients, main, listener, fds, network>>
    BY <1>0, <1>2, ThreadFields DEF EraseBegin, HandlerGoto
  <2>2. thread \in Thread /\ thread.pc = "erasing" /\ thread.audience = handler[c].audience
        /\ thread.fd = handler[c].fd /\ thread.on = handler[c].on /\ thread.i = handler[c].i
    BY <2>1 DEF Thread
  <2> HIDE DEF thread
  <2>3. /\ handler' \in [Conns -> Thread] /\ handler'[c] = thread
        /\ \A d \in Conns \ {c} : handler'[d] = handler[d]
    BY <1>0, <2>1, <2>2, BecomesIs
  <2>4. TypeOK'
    BY <1>0, <2>1, <2>3 DEF TypeOK, network
  <2>5. handler[c].on = NoConn
    BY <1>0, <2>1 DEF WaitOK
  <2>6. handler[c].i # 0 /\ \A d \in handler[c].audience : d \in Conns /\ d # c /\ handler[d].pc # "none"
    BY <1>0, ThreadFields DEF HandlerOK
  <2>7. \A d \in Conns : ~HandlerReads(d)
    BY <1>2, <2>1 DEF WriteRace, HandlerReads
  <2>8. GoesOn(c)
    BY <2>1, <2>2, <2>3, <2>5, <2>6, <2>7 DEF GoesOn, Moves, Busies, network
  <2> QED
    BY <2>4, <2>8, GoesOnKeeps
<1> QED
  BY <1>1, <1>2

(* erase ends: the thread's descriptor is in tcp_clients_ no more. *)
LEMMA EraseEndKeeps ==
  ASSUME DescriptorInv, NEW c \in Conns, EraseEnd(c)
  PROVE  DescriptorInv'
<1> DEFINE thread == [handler[c] EXCEPT !.pc = "exited"]
<1>0. TypeOK /\ HandlerOK /\ Exclusion /\ WaitOK /\ EntriesHaveHandlers
  BY DEF DescriptorInv
<1>1. HandlerBecomes(c, thread) /\ handler[c].pc = "erasing" /\ handler[c] \in Thread
      /\ clients' = Without(handler[c].fd, clients)
      /\ UNCHANGED <<process, running, server, main, listener, fds, network>>
  BY <1>0, ThreadFields DEF EraseEnd, EraseTo, HandlerGoto
<1>2. thread \in Thread /\ thread.pc = "exited" /\ thread.audience = handler[c].audience
      /\ thread.fd = handler[c].fd /\ thread.on = handler[c].on /\ thread.i = handler[c].i
  BY <1>1 DEF Thread
<1> HIDE DEF thread
<1>3. /\ handler' \in [Conns -> Thread] /\ handler'[c] = thread
      /\ \A d \in Conns \ {c} : handler'[d] = handler[d]
  BY <1>0, <1>1, <1>2, BecomesIs
<1>4. clients' \in Seq(Fds) /\ Elements(clients') = Elements(clients) \ {handler[c].fd}
  BY <1>0, <1>1, WithoutIs DEF TypeOK
<1>5. TypeOK'
  BY <1>0, <1>1, <1>3, <1>4 DEF TypeOK, network
<1>6. handler[c].i # 0 /\ \A d \in handler[c].audience : d \in Conns /\ d # c /\ handler[d].pc # "none"
  BY <1>0, ThreadFields DEF HandlerOK
<1>7. Moves(c)
  BY <1>1, <1>2, <1>3, <1>6 DEF Moves, Busies, network
<1>8. MainOK' /\ ListenerOK' /\ BacklogOK' /\ HandlerOK' /\ OpenOK' /\ HandlerOwnsDescriptor'
  BY <1>5, <1>7, MovesKeeps
<1>9. \A d \in Conns : handler[d].pc # "send" /\ handler'[d].pc # "send"
  BY <1>0, <1>1, <1>2, <1>3 DEF Exclusion, HandlerReads, HandlerWrites
<1>10. Exclusion'
  BY <1>9 DEF Exclusion, HandlerReads
<1>11. WaitOK'
  BY <1>0, <1>1, <1>2, <1>3, <1>9 DEF WaitOK
<1>12. EntriesHaveHandlers'
  <2> SUFFICES ASSUME NEW k \in DOMAIN clients'
               PROVE  \/ \E d \in Conns : handler'[d].fd = clients'[k] /\ handler'[d].pc # "exited"
                      \/ listener'.pc = "spawn" /\ listener'.fd = clients'[k]
    BY DEF EntriesHaveHandlers
  <2>1. PICK j \in DOMAIN clients : clients[j] = clients'[k] /\ clients[j] # handler[c].fd
    BY <1>4 DEF Elements
  <2>2. \/ \E d \in Conns : handler[d].fd = clients[j] /\ handler[d].pc # "exited"
        \/ listener.pc = "spawn" /\ listener.fd = clients[j]
    BY <1>0 DEF EntriesHaveHandlers
  <2> QED
    BY <1>1, <1>3, <2>1, <2>2
<1> QED
  BY <1>5, <1>8, <1>10, <1>11, <1>12 DEF DescriptorInv

-----------------------------------------------------------------------------
(* Descriptors are closed *)

(* close(f) changes of the threads only what some of them wait for. *)
LEMMA AfterCloseIs ==
  ASSUME TypeOK, NEW f \in Fds, NEW after \in HandlersAfterClose(f)
  PROVE  /\ after \in [Conns -> Thread]
         /\ \A d \in Conns : /\ after[d].pc = handler[d].pc /\ after[d].fd = handler[d].fd
                             /\ after[d].i = handler[d].i /\ after[d].chunk = handler[d].chunk
                             /\ after[d].audience = handler[d].audience
         /\ \A d \in Conns : \/ after[d].on = handler[d].on
                             \/ after[d].on = fds[f] /\ fds[f] # NoConn /\ f \in CallsOn(d)
<1>1. fds[f] \in Conns \cup {NoConn} /\ handler \in [Conns -> Thread]
  BY DEF TypeOK
<1>2. PICK inCall \in SUBSET Conns :
        /\ after = [c \in Conns |-> IF c \in inCall THEN [handler[c] EXCEPT !.on = fds[f]]
                                    ELSE handler[c]]
        /\ \A c \in inCall : fds[f] # NoConn /\ f \in CallsOn(c)
  BY DEF HandlersAfterClose
<1> QED
  BY <1>1, <1>2 DEF Thread

(* What a thread waits for when its descriptor is closed: recv and the     *)
(* acknowledgement for its own connection, send for another one.           *)
LEMMA WaitsFor ==
  ASSUME DescriptorInv, NEW f \in Fds, NEW d \in Conns, fds[f] # NoConn, f \in CallsOn(d)
  PROVE  \/ handler[d].pc \in {"recv", "ack"} /\ fds[f] = d
         \/ /\ handler[d].pc = "send" /\ fds[f] # d
            /\ handler[d].i <= Len(clients) /\ clients[handler[d].i] = f
<1>0. TypeOK /\ ListenerOK /\ OpenOK /\ HandlerOwnsDescriptor
  BY DEF DescriptorInv
<1>1. CASE handler[d].pc \in {"recv", "ack"}
  <2>1. handler[d].fd = f
    BY <1>1 DEF CallsOn
  <2> QED
    BY <1>0, <1>1, <2>1 DEF HandlerOwnsDescriptor, UsesDescriptor, Serving
<1>2. CASE handler[d].pc = "send"
  <2>1. handler[d].i <= Len(clients) /\ clients[handler[d].i] = f /\ f # handler[d].fd
    BY <1>2 DEF CallsOn
  <2>2. fds[f] # d
    BY <1>0, <1>2, <2>1 DEF OpenOK, ListenerOK
  <2> QED
    BY <1>2, <2>1, <2>2
<1>3. CASE handler[d].pc \notin {"recv", "ack", "send"}
  BY <1>3 DEF CallsOn
<1> QED
  BY <1>1, <1>2, <1>3

(* The thread closes its descriptor. *)
LEMMA CloseSocketKeeps ==
  ASSUME DescriptorInv, NEW c \in Conns, CloseSocket(c)
  PROVE  DescriptorInv'
<1> DEFINE f == handler[c].fd
<1>0. TypeOK /\ MainOK /\ ListenerOK /\ BacklogOK /\ HandlerOK /\ OpenOK /\ Exclusion /\ WaitOK
      /\ HandlerOwnsDescriptor /\ EntriesHaveHandlers
  BY DEF DescriptorInv
<1>1. PICK after \in HandlersAfterClose(f) : handler' = [after EXCEPT ![c].pc = "erase"]
  BY DEF CloseSocket, CloseSocketThen
<1>2. /\ handler[c].pc = "close" /\ fds' = [fds EXCEPT ![f] = NoConn]
      /\ UNCHANGED <<process, running, server, clients, main, listener, backlog, peer, sent,
                     received, inbox>>
  BY DEF CloseSocket, CloseSocketThen, Close, network
<1>3. f \in Fds
  BY <1>0, <1>2, HasFd
<1>4. /\ after \in [Conns -> Thread]
      /\ \A d \in Conns : /\ after[d].pc = handler[d].pc /\ after[d].fd = handler[d].fd
                          /\ after[d].i = handler[d].i /\ after[d].chunk = handler[d].chunk
                          /\ after[d].audience = handler[d].audience
      /\ \A d \in Conns : \/ after[d].on = handler[d].on
                          \/ after[d].on = fds[f] /\ fds[f] # NoConn /\ f \in CallsOn(d)
  BY <1>0, <1>3, AfterCloseIs
<1>5. handler' \in [Conns -> Thread]
  BY <1>1, <1>4 DEF Thread
<1>6. \A d \in Conns : handler'[d].pc = IF d = c THEN "erase" ELSE handler[d].pc
  BY <1>1, <1>4 DEF Thread
<1>7. \A d \in Conns : /\ handler'[d].fd = handler[d].fd
                       /\ handler'[d].i = handler[d].i /\ handler'[d].chunk = handler[d].chunk
                       /\ handler'[d].audience = handler[d].audience
                       /\ handler'[d].on = after[d].on
  BY <1>1, <1>4 DEF Thread
<1>8. fds' \in [Fds -> Conns \cup {NoConn}] /\ fds'[f] = NoConn
      /\ \A g \in Fds : g # f => fds'[g] = fds[g]
  BY <1>0, <1>2, <1>3 DEF TypeOK
<1>9. fds[f] = c \/ (Closing /\ fds[f] = NoConn)
  BY <1>0, <1>2 DEF HandlerOwnsDescriptor, UsesDescriptor
<1>10. TypeOK'
  BY <1>0, <1>2, <1>5, <1>8 DEF TypeOK
<1> HIDE DEF f
<1>11. MainOK'
  BY <1>0, <1>2 DEF MainOK, Closing
<1>12. ListenerOK'
  <2>1. listener.conn \in Conns \cup {NoConn}
    BY <1>0 DEF TypeOK
  <2>2. listener.conn # NoConn => listener.fd # f
    BY <1>0, <1>2, <1>9 DEF ListenerOK, MainOK
  <2> QED
    BY <1>0, <1>2, <1>6, <1>8, <2>1, <2>2 DEF ListenerOK
<1>13. BacklogOK'
  <2>1. \A k \in DOMAIN backlog : backlog[k] \in Conns
    BY <1>0 DEF TypeOK
  <2> QED
    BY <1>0, <1>2, <1>6, <2>1 DEF BacklogOK
<1>14. HandlerOK'
  <2>1. \A d \in Conns : \A e \in handler[d].audience : e \in Conns
    BY <1>0, ThreadFields
  <2> QED
    BY <1>0, <1>2, <1>6, <1>7, <2>1 DEF HandlerOK
<1>15. OpenOK'
  <2> SUFFICES ASSUME NEW g \in Fds, NEW e \in Conns, fds'[g] = e
               PROVE  \/ e = listener.conn /\ listener.fd = g
                      \/ handler'[e].fd = g /\ UsesDescriptor(e)'
    BY <1>2 DEF OpenOK
  <2>1. g # f /\ fds[g] = e
    BY <1>8
  <2>2. CASE handler[e].fd = g /\ UsesDescriptor(e)
    <3>1. e # c
      BY <2>1, <2>2 DEF f
    <3>2. handler'[e].pc = handler[e].pc /\ handler'[e].fd = g
      BY <1>6, <1>7, <2>2, <3>1
    <3> QED
      BY <2>2, <3>2 DEF UsesDescriptor, Serving
  <2> QED
    BY <1>0, <2>1, <2>2 DEF OpenOK
<1>16. Exclusion'
  BY <1>0, <1>2, <1>6 DEF Exclusion, HandlerReads, HandlerWrites, ListenerWrites, MainWrites
<1>17. WaitOK'
  <2> SUFFICES ASSUME NEW d \in Conns, handler'[d].on # NoConn
               PROVE  \/ handler'[d].pc \in {"recv", "ack"} /\ handler'[d].on = d
                      \/ /\ handler'[d].pc = "send" /\ handler'[d].on # d
                         /\ handler'[d].i <= Len(clients)
                         /\ \/ Closing
                            \/ /\ handler'[handler'[d].on].fd = clients[handler'[d].i]
                               /\ handler'[handler'[d].on].pc \in {"erase", "erasing", "exited"}
    BY <1>2 DEF WaitOK, Closing
  <2>1. CASE handler'[d].on = handler[d].on
    <3>1. handler[d].on \in Conns /\ d # c
      BY <1>0, <1>2, <2>1, ThreadFields DEF WaitOK
    <3>2. handler'[d].pc = handler[d].pc /\ handler'[d].i = handler[d].i
          /\ handler'[handler[d].on].fd = handler[handler[d].on].fd
          /\ (handler[handler[d].on].pc \in {"erase", "erasing", "exited"}
                => handler'[handler[d].on].pc \in {"erase", "erasing", "exited"})
      BY <1>6, <1>7, <3>1
    <3> QED
      BY <1>0, <2>1, <3>2 DEF WaitOK
  <2>2. CASE handler'[d].on # handler[d].on
    <3>1. handler'[d].on = fds[f] /\ fds[f] # NoConn /\ f \in CallsOn(d)
      BY <1>4, <1>7, <2>2
    <3>2. fds[f] = c /\ handler'[c].fd = f /\ handler'[c].pc = "erase"
      BY <1>6, <1>7, <1>9, <3>1 DEF f
    <3>3. \/ handler[d].pc \in {"recv", "ack"} /\ fds[f] = d
          \/ /\ handler[d].pc = "send" /\ fds[f] # d
             /\ handler[d].i <= Len(clients) /\ clients[handler[d].i] = f
      BY <1>3, <3>1, WaitsFor
    <3>4. d # c /\ handler'[d].pc = handler[d].pc /\ handler'[d].i = handler[d].i
      BY <1>2, <1>6, <1>7, <3>3
    <3> QED
      BY <3>1, <3>2, <3>3, <3>4
  <2> QED
    BY <2>1, <2>2
<1>18. HandlerOwnsDescriptor'
  <2> SUFFICES ASSUME NEW d \in Conns, UsesDescriptor(d)'
               PROVE  fds'[handler'[d].fd] = d \/ (Closing /\ fds'[handler'[d].fd] = NoConn)
    BY <1>2 DEF HandlerOwnsDescriptor, Closing
  <2>1. d # c /\ UsesDescriptor(d) /\ handler'[d].fd = handler[d].fd
    BY <1>6, <1>7 DEF UsesDescriptor, Serving
  <2>2. handler[d].fd \in Fds
    BY <1>0, <2>1, HasFd DEF UsesDescriptor, Serving
  <2> QED
    BY <1>0, <1>8, <1>9, <2>1, <2>2 DEF HandlerOwnsDescriptor
<1>19. EntriesHaveHandlers'
  BY <1>0, <1>2, <1>6, <1>7 DEF EntriesHaveHandlers
<1> QED
  BY <1>10, <1>11, <1>12, <1>13, <1>14, <1>15, <1>16, <1>17, <1>18, <1>19 DEF DescriptorInv

(* main closes a descriptor. *)
LEMMA CloseClientKeeps ==
  ASSUME DescriptorInv, CloseClient
  PROVE  DescriptorInv'
<1> DEFINE f == clients[main.i]
<1>0. TypeOK /\ MainOK /\ ListenerOK /\ BacklogOK /\ HandlerOK /\ OpenOK /\ Exclusion /\ WaitOK
      /\ HandlerOwnsDescriptor /\ EntriesHaveHandlers
  BY DEF DescriptorInv
<1>1. /\ main.pc = "closeClients" /\ main.i <= Len(clients)
      /\ fds' = [fds EXCEPT ![f] = NoConn]
      /\ handler' \in HandlersAfterClose(f)
      /\ main' = [main EXCEPT !.i = @ + 1]
      /\ UNCHANGED <<process, running, server, clients, listener, backlog, peer, sent,
                     received, inbox>>
  BY DEF CloseClient, Close, network
<1>2. f \in Fds
  BY <1>0, <1>1 DEF TypeOK, MainOK
<1>3. /\ handler' \in [Conns -> Thread]
      /\ \A d \in Conns : /\ handler'[d].pc = handler[d].pc /\ handler'[d].fd = handler[d].fd
                          /\ handler'[d].i = handler[d].i /\ handler'[d].chunk = handler[d].chunk
                          /\ handler'[d].audience = handler[d].audience
      /\ \A d \in Conns : \/ handler'[d].on = handler[d].on
                          \/ handler'[d].on = fds[f] /\ fds[f] # NoConn /\ f \in CallsOn(d)
  BY <1>0, <1>1, <1>2, AfterCloseIs
<1>4. fds' \in [Fds -> Conns \cup {NoConn}] /\ fds'[f] = NoConn
      /\ \A g \in Fds : g # f => fds'[g] = fds[g]
  BY <1>0, <1>1, <1>2 DEF TypeOK
<1>5. main'.pc = "closeClients" /\ main'.i = main.i + 1 /\ Closing /\ Closing'
      /\ main' \in [pc : {"closeClients"}, i : Nat] /\ main.i \in Nat
  <2> DEFINE next == main.i + 1
  <2>1. main.i \in Nat /\ next \in Nat /\ main' = [main EXCEPT !.i = next]
    BY <1>0, <1>1 DEF TypeOK
  <2> HIDE DEF next
  <2>2. main'.pc = "closeClients" /\ main'.i = next /\ main' \in [pc : {"closeClients"}, i : Nat]
    BY <1>0, <1>1, <2>1 DEF TypeOK
  <2> QED
    BY <1>1, <2>1, <2>2 DEF Closing, next
<1>6. listener.pc = "exited" /\ listener.conn = NoConn
  BY <1>0, <1>5 DEF MainOK, ListenerOK
<1>7. TypeOK'
  BY <1>0, <1>1, <1>3, <1>4, <1>5 DEF TypeOK
<1> HIDE DEF f
<1>8. MainOK'
  BY <1>0, <1>1, <1>5, <1>6 DEF MainOK
<1>9. ListenerOK'
  BY <1>1, <1>6 DEF ListenerOK
<1>10. BacklogOK'
  <2>1. \A k \in DOMAIN backlog : backlog[k] \in Conns
    BY <1>0 DEF TypeOK
  <2> QED
    BY <1>0, <1>1, <1>3, <2>1 DEF BacklogOK
<1>11. HandlerOK'
  <2>1. \A d \in Conns : \A e \in handler[d].audience : e \in Conns
    BY <1>0, ThreadFields
  <2> QED
    BY <1>0, <1>1, <1>3, <2>1 DEF HandlerOK
<1>12. OpenOK'
  <2> SUFFICES ASSUME NEW g \in Fds, NEW e \in Conns, fds'[g] = e
               PROVE  handler'[e].fd = g /\ UsesDescriptor(e)'
    BY DEF OpenOK
  <2>1. fds[g] = e
    BY <1>4
  <2>2. handler[e].fd = g /\ UsesDescriptor(e)
    BY <1>0, <1>6, <2>1 DEF OpenOK
  <2> QED
    BY <1>3, <2>2 DEF UsesDescriptor, Serving
<1>13. Exclusion'
  BY <1>0, <1>1, <1>3, <1>5 DEF Exclusion, HandlerReads, HandlerWrites, ListenerWrites, MainWrites
<1>14. WaitOK'
  <2> SUFFICES ASSUME NEW d \in Conns, handler'[d].on # NoConn
               PROVE  \/ handler'[d].pc \in {"recv", "ack"} /\ handler'[d].on = d
                      \/ handler'[d].pc = "send" /\ handler'[d].on # d
                         /\ handler'[d].i <= Len(clients)
    BY <1>1, <1>5 DEF WaitOK
  <2>1. CASE handler'[d].on = handler[d].on
    BY <1>0, <1>3, <2>1 DEF WaitOK
  <2>2. CASE handler'[d].on # handler[d].on
    BY <1>2, <1>3, <2>2, WaitsFor
  <2> QED
    BY <2>1, <2>2
<1>15. HandlerOwnsDescriptor'
  <2> SUFFICES ASSUME NEW d \in Conns, UsesDescriptor(d)'
               PROVE  fds'[handler'[d].fd] = d \/ fds'[handler'[d].fd] = NoConn
    BY <1>5 DEF HandlerOwnsDescriptor
  <2>1. UsesDescriptor(d) /\ handler'[d].fd = handler[d].fd
    BY <1>3 DEF UsesDescriptor, Serving
  <2>2. handler[d].fd \in Fds
    BY <1>0, <2>1, HasFd DEF UsesDescriptor, Serving
  <2> QED
    BY <1>0, <1>4, <2>1, <2>2 DEF HandlerOwnsDescriptor
<1>16. EntriesHaveHandlers'
  BY <1>0, <1>1, <1>3 DEF EntriesHaveHandlers
<1> QED
  BY <1>7, <1>8, <1>9, <1>10, <1>11, <1>12, <1>13, <1>14, <1>15, <1>16 DEF DescriptorInv

-----------------------------------------------------------------------------
(* Steps of main and of the listener *)

(* main or the listener goes on while the threads stay where they are. *)
Stays ==
  /\ UNCHANGED <<handler, fds, peer>>
  /\ listener'.conn = listener.conn /\ listener'.fd = listener.fd
  /\ listener.conn # NoConn <=> listener'.pc \in {"push", "pushing", "spawn"}
  /\ listener.pc = "spawn" => listener'.pc = "spawn"
  /\ backlog' \in {backlog, <<>>}
  /\ Closing => Closing'
  /\ (ListenerWrites' \/ MainWrites') =>
       ListenerWrites \/ MainWrites \/ \A d \in Conns : ~HandlerReads(d)
  /\ clients' = clients \/ (clients' = <<>> /\ \A d \in Conns : ~HandlerReads(d))

(* Such a step preserves the invariant, if what is said of main holds.     *)
LEMMA StaysKeeps ==
  ASSUME DescriptorInv, TypeOK', MainOK', Stays
  PROVE  DescriptorInv'
<1>0. TypeOK /\ ListenerOK /\ BacklogOK /\ HandlerOK /\ OpenOK /\ Exclusion /\ WaitOK
      /\ HandlerOwnsDescriptor /\ EntriesHaveHandlers
  BY DEF DescriptorInv
<1> USE DEF Stays
<1>1. ListenerOK'
  BY <1>0 DEF ListenerOK
<1>2. BacklogOK'
  BY <1>0 DEF BacklogOK
<1>3. HandlerOK'
  BY <1>0 DEF HandlerOK
<1>4. OpenOK'
  BY <1>0 DEF OpenOK, UsesDescriptor, Serving
<1>5. HandlerOwnsDescriptor'
  BY <1>0 DEF HandlerOwnsDescriptor, UsesDescriptor, Serving
<1>6. Exclusion'
  BY <1>0 DEF Exclusion, HandlerReads, HandlerWrites
<1>7. WaitOK'
  <2>1. CASE clients' = clients
    BY <1>0, <2>1 DEF WaitOK
  <2>2. CASE \A d \in Conns : ~HandlerReads(d)
    BY <1>0, <2>2 DEF WaitOK, HandlerReads
  <2> QED
    BY <2>1, <2>2
<1>8. EntriesHaveHandlers'
  <2>1. CASE clients' = clients
    BY <1>0, <2>1 DEF EntriesHaveHandlers
  <2>2. CASE clients' = <<>>
    BY <2>2 DEF EntriesHaveHandlers
  <2> QED
    BY <2>1, <2>2
<1> QED
  BY <1>1, <1>2, <1>3, <1>4, <1>5, <1>6, <1>7, <1>8 DEF DescriptorInv

(* What main's step changes of main. *)
LEMMA MainGoesTo ==
  ASSUME TypeOK,
         NEW label \in {"closeServer", "join", "closeClients", "clearing", "returning"},
         MainGoto(label)
  PROVE  /\ main' \in [pc : {"command", "closeServer", "join", "closeClients", "clearing",
                             "returning"}, i : Nat]
         /\ main'.pc = label /\ main'.i = main.i
BY DEF MainGoto, TypeOK

(* stop() begins, and closes the listening socket. *)
LEMMA StopBeginsKeeps ==
  ASSUME DescriptorInv, Command \/ CloseServer
  PROVE  DescriptorInv'
<1>0. TypeOK /\ MainOK /\ ListenerOK
  BY DEF DescriptorInv
<1>1. PICK label \in {"closeServer", "join"} : MainGoto(label)
  BY DEF Command, CloseServer
<1>2. /\ main' \in [pc : {"command", "closeServer", "join", "closeClients", "clearing",
                          "returning"}, i : Nat]
      /\ main'.pc = label /\ main'.i = main.i
  BY <1>0, <1>1, MainGoesTo
<1>3. /\ UNCHANGED <<process, clients, listener, handler, fds, peer, sent, received, inbox>>
      /\ main.pc \in {"command", "closeServer"}
      /\ running' = FALSE /\ server' \in {server, "closed"} /\ backlog' \in {backlog, <<>>}
  BY <1>0 DEF Command, CloseServer, network, MainOK, TypeOK
<1>4. backlog' \in Seq(Conns)
  <2>1. backlog \in Seq(Conns) /\ <<>> \in Seq(Conns)
    BY <1>0 DEF TypeOK
  <2> QED
    BY <1>3, <2>1
<1>5. TypeOK'
  BY <1>0, <1>2, <1>3, <1>4 DEF TypeOK
<1>6. ~Closing /\ ~Closing' /\ ~MainWrites'
  BY <1>1, <1>2, <1>3 DEF Closing, MainWrites
<1>7. MainOK'
  BY <1>0, <1>2, <1>3, <1>6 DEF MainOK
<1>8. Stays
  BY <1>0, <1>3, <1>6 DEF Stays, ListenerOK, ListenerWrites
<1> QED
  BY <1>5, <1>7, <1>8, StaysKeeps

(* The join returns, when the listener thread is gone. *)
LEMMA JoinKeeps ==
  ASSUME DescriptorInv, JoinListener
  PROVE  DescriptorInv'
<1>0. TypeOK /\ MainOK /\ ListenerOK
  BY DEF DescriptorInv
<1>1. CASE AnyHandlerWrites
  BY <1>1, UndefinedKeeps DEF JoinListener, JoinWhen
<1>2. CASE ~AnyHandlerWrites
  <2>1. /\ MainGoto("closeClients") /\ main.pc = "join" /\ listener.pc = "exited"
        /\ UNCHANGED <<process, running, server, clients, listener, handler, fds, backlog, peer,
                       sent, received, inbox>>
    BY <1>2 DEF JoinListener, JoinWhen, network
  <2>2. /\ main' \in [pc : {"command", "closeServer", "join", "closeClients", "clearing",
                            "returning"}, i : Nat]
        /\ main'.pc = "closeClients" /\ main'.i = main.i
    BY <1>0, <2>1, MainGoesTo
  <2>3. TypeOK'
    BY <1>0, <2>1, <2>2 DEF TypeOK
  <2>4. MainOK'
    BY <1>0, <2>1, <2>2 DEF MainOK
  <2>5. Stays
    BY <1>0, <2>1, <2>2 DEF Stays, ListenerOK, Closing, ListenerWrites, MainWrites
  <2> QED
    BY <2>3, <2>4, <2>5, StaysKeeps
<1> QED
  BY <1>1, <1>2

(* tcp_clients_ is cleared. *)
LEMMA ClearKeeps ==
  ASSUME DescriptorInv, ClearBegin \/ ClearEnd
  PROVE  DescriptorInv'
<1>0. TypeOK /\ MainOK /\ ListenerOK /\ Exclusion
  BY DEF DescriptorInv
<1>1. CASE ClearBegin /\ AnyHandlerUses
  BY <1>1, UndefinedKeeps DEF ClearBegin
<1>2. CASE ~(ClearBegin /\ AnyHandlerUses)
  <2>1. PICK label \in {"clearing", "returning"} : MainGoto(label)
    BY <1>2 DEF ClearBegin, ClearEnd
  <2>2. /\ main' \in [pc : {"command", "closeServer", "join", "closeClients", "clearing",
                            "returning"}, i : Nat]
        /\ main'.pc = label /\ main'.i = main.i
    BY <1>0, <2>1, MainGoesTo
  <2>3. /\ UNCHANGED <<process, running, server, listener, handler, fds, backlog, peer, sent,
                       received, inbox>>
        /\ clients' \in {clients, <<>>}
        /\ main.pc \in {"closeClients", "clearing"}
    BY <1>2 DEF ClearBegin, ClearEnd, network
  <2>4. \A d \in Conns : ~HandlerReads(d)
    BY <1>0, <1>2 DEF ClearBegin, ClearEnd, AnyHandlerUses, Exclusion, MainWrites
  <2>5. clients' \in Seq(Fds)
    <3>1. clients \in Seq(Fds) /\ <<>> \in Seq(Fds)
      BY <1>0 DEF TypeOK
    <3> QED
      BY <2>3, <3>1
  <2>6. TypeOK'
    BY <1>0, <2>2, <2>3, <2>5 DEF TypeOK
  <2>7. MainOK'
    BY <1>0, <2>2, <2>3 DEF MainOK, Closing
  <2>8. Stays
    BY <1>0, <2>2, <2>3, <2>4 DEF Stays, ListenerOK, Closing
  <2> QED
    BY <2>6, <2>7, <2>8, StaysKeeps
<1> QED
  BY <1>1, <1>2

(* What the listener's step changes of the listener. *)
LEMMA ListenerGoesTo ==
  ASSUME TypeOK, NEW label \in {"check", "call", "accept", "push", "pushing", "spawn", "exited"},
         ListenerGoto(label)
  PROVE  /\ listener' \in [pc : {"check", "call", "accept", "push", "pushing", "spawn", "exited"},
                           conn : Conns \cup {NoConn}, fd : Fds \cup {0}]
         /\ listener'.pc = label
         /\ listener'.conn = listener.conn /\ listener'.fd = listener.fd
BY DEF ListenerGoto, TypeOK

(* The test of is_running_, the call of accept, and its failure. *)
LEMMA ListenKeeps ==
  ASSUME DescriptorInv, ListenerCheck \/ ListenerCall \/ AcceptFails
  PROVE  DescriptorInv'
<1>0. TypeOK /\ MainOK /\ ListenerOK
  BY DEF DescriptorInv
<1>1. PICK label \in {"check", "call", "accept", "exited"} : ListenerGoto(label)
  BY DEF ListenerCheck, ListenWhile, ListenerCall, AcceptFails, AcceptFailsThen
<1>2. /\ listener' \in [pc : {"check", "call", "accept", "push", "pushing", "spawn", "exited"},
                        conn : Conns \cup {NoConn}, fd : Fds \cup {0}]
      /\ listener'.pc = label
      /\ listener'.conn = listener.conn /\ listener'.fd = listener.fd
  BY <1>0, <1>1, ListenerGoesTo
<1>3. /\ UNCHANGED <<process, running, server, clients, main, handler, fds, peer, sent, received,
                     inbox>>
      /\ backlog' \in {backlog, <<>>}
      /\ listener.pc \in {"check", "call", "accept"}
  BY DEF ListenerCheck, ListenWhile, ListenerCall, AcceptFails, AcceptFailsThen, network,
         BacklogAfter
<1>4. backlog' \in Seq(Conns)
  <2>1. backlog \in Seq(Conns) /\ <<>> \in Seq(Conns)
    BY <1>0 DEF TypeOK
  <2> QED
    BY <1>3, <2>1
<1>5. TypeOK'
  BY <1>0, <1>2, <1>3, <1>4 DEF TypeOK
<1>6. MainOK'
  BY <1>0, <1>3 DEF MainOK, Closing
<1>7. Stays
  BY <1>0, <1>1, <1>2, <1>3 DEF Stays, ListenerOK, Closing, ListenerWrites, MainWrites
<1> QED
  BY <1>5, <1>6, <1>7, StaysKeeps

(* push_back begins. *)
LEMMA PushBeginKeeps ==
  ASSUME DescriptorInv, PushBegin
  PROVE  DescriptorInv'
<1>0. TypeOK /\ MainOK /\ ListenerOK
  BY DEF DescriptorInv
<1>1. CASE AnyHandlerUses
  BY <1>1, UndefinedKeeps DEF PushBegin
<1>2. CASE ~AnyHandlerUses
  <2>1. /\ ListenerGoto("pushing") /\ listener.pc = "push"
        /\ UNCHANGED <<process, running, server, clients, main, handler, fds, backlog, peer, sent,
                       received, inbox>>
    BY <1>2 DEF PushBegin, network
  <2>2. /\ listener' \in [pc : {"check", "call", "accept", "push", "pushing", "spawn", "exited"},
                          conn : Conns \cup {NoConn}, fd : Fds \cup {0}]
        /\ listener'.pc = "pushing"
        /\ listener'.conn = listener.conn /\ listener'.fd = listener.fd
    BY <1>0, <2>1, ListenerGoesTo
  <2>3. TypeOK'
    BY <1>0, <2>1, <2>2 DEF TypeOK
  <2>4. MainOK'
    BY <1>0, <2>1 DEF MainOK, Closing
  <2>5. \A d \in Conns : ~HandlerReads(d)
    BY <1>2 DEF AnyHandlerUses
  <2>6. Stays
    BY <1>0, <2>1, <2>2, <2>5 DEF Stays, ListenerOK, Closing
  <2> QED
    BY <2>3, <2>4, <2>6, StaysKeeps
<1> QED
  BY <1>1, <1>2

(* push_back ends. *)
LEMMA PushEndKeeps ==
  ASSUME DescriptorInv, PushEnd
  PROVE  DescriptorInv'
<1>0. TypeOK /\ MainOK /\ ListenerOK /\ BacklogOK /\ HandlerOK /\ OpenOK /\ Exclusion /\ WaitOK
      /\ HandlerOwnsDescriptor /\ EntriesHaveHandlers
  BY DEF DescriptorInv
<1>1. /\ listener.pc = "pushing" /\ ListenerGoto("spawn")
      /\ clients' = Append(clients, listener.fd)
      /\ UNCHANGED <<process, running, server, main, handler, fds, backlog, peer, sent, received,
                     inbox>>
  BY DEF PushEnd, network
<1>2. /\ listener' \in [pc : {"check", "call", "accept", "push", "pushing", "spawn", "exited"},
                        conn : Conns \cup {NoConn}, fd : Fds \cup {0}]
      /\ listener'.pc = "spawn"
      /\ listener'.conn = listener.conn /\ listener'.fd = listener.fd
  BY <1>0, <1>1, ListenerGoesTo
<1>3. listener.fd \in Fds /\ clients \in Seq(Fds)
  BY <1>0, <1>1 DEF ListenerOK, TypeOK
<1>4. clients' \in Seq(Fds) /\ Elements(clients') = Elements(clients) \cup {listener.fd}
  <2>1. Append(clients, listener.fd) \in Seq(Fds)
    <3> DEFINE S == Fds
    <3> HIDE DEF S
    <3>1. clients \in Seq(S) /\ listener.fd \in S
      BY <1>3 DEF S
    <3>2. Append(clients, listener.fd) \in Seq(S)
      BY <3>1
    <3> QED
      BY <3>2 DEF S
  <2> QED
    BY <1>1, <1>3, <2>1, ElementsOfAppend
<1>5. TypeOK'
  BY <1>0, <1>1, <1>2, <1>4 DEF TypeOK
<1>6. MainOK' /\ ListenerOK' /\ BacklogOK' /\ HandlerOK' /\ OpenOK' /\ HandlerOwnsDescriptor'
  <2>1. MainOK'
    BY <1>0, <1>1 DEF MainOK, Closing
  <2>2. ListenerOK' /\ BacklogOK' /\ HandlerOK'
    BY <1>0, <1>1, <1>2 DEF ListenerOK, BacklogOK, HandlerOK
  <2>3. OpenOK' /\ HandlerOwnsDescriptor'
    BY <1>0, <1>1, <1>2 DEF OpenOK, HandlerOwnsDescriptor, UsesDescriptor, Serving, Closing
  <2> QED
    BY <2>1, <2>2, <2>3
<1>7. \A d \in Conns : handler[d].pc # "send"
  BY <1>0, <1>1 DEF Exclusion, HandlerReads, ListenerWrites
<1>8. Exclusion' /\ WaitOK'
  BY <1>0, <1>1, <1>7 DEF Exclusion, WaitOK, HandlerReads
<1>9. EntriesHaveHandlers'
  <2> SUFFICES ASSUME NEW k \in DOMAIN clients'
               PROVE  \/ \E d \in Conns : handler[d].fd = clients'[k] /\ handler[d].pc # "exited"
                      \/ listener'.pc = "spawn" /\ listener'.fd = clients'[k]
    BY <1>1 DEF EntriesHaveHandlers
  <2>1. clients'[k] = listener.fd \/ \E j \in DOMAIN clients : clients[j] = clients'[k]
    BY <1>4 DEF Elements
  <2> QED
    BY <1>0, <1>1, <1>2, <2>1 DEF EntriesHaveHandlers
<1> QED
  BY <1>5, <1>6, <1>8, <1>9 DEF DescriptorInv

(* accept returns the oldest connection on a free descriptor. *)
LEMMA AcceptKeeps ==
  ASSUME DescriptorInv, Accept
  PROVE  DescriptorInv'
<1> DEFINE f == LowestFd
           b == Head(backlog)
<1>0. TypeOK /\ MainOK /\ ListenerOK /\ BacklogOK /\ HandlerOK /\ OpenOK /\ Exclusion /\ WaitOK
      /\ HandlerOwnsDescriptor /\ EntriesHaveHandlers
  BY DEF DescriptorInv
<1>1. /\ listener.pc = "accept" /\ backlog # <<>>
      /\ listener' = [pc |-> "push", conn |-> b, fd |-> f]
      /\ fds' = [fds EXCEPT ![f] = b]
      /\ backlog' \in {Tail(backlog), <<>>}
      /\ UNCHANGED <<process, running, server, clients, main, handler, peer, sent, received, inbox>>
  BY DEF Accept, BacklogAfter
<1>2. f \in Fds /\ fds[f] = NoConn
  BY LowestFdIsFree DEF Accept
<1>3. /\ backlog \in Seq(Conns) /\ DOMAIN backlog = 1 .. Len(backlog) /\ Len(backlog) \in Nat
      /\ 1 \in DOMAIN backlog /\ b = backlog[1] /\ b \in Conns
  BY <1>0, <1>1 DEF TypeOK
<1>4. /\ backlog' \in Seq(Conns)
      /\ \A k \in DOMAIN backlog' : k + 1 \in DOMAIN backlog /\ backlog'[k] = backlog[k + 1]
                                    /\ k \in Nat
  <2>1. CASE backlog' = Tail(backlog)
    BY <1>1, <1>3, <2>1
  <2>2. CASE backlog' = <<>>
    BY <2>2
  <2> QED
    BY <1>1, <2>1, <2>2
<1> HIDE DEF b, f
<1>5. listener.conn = NoConn /\ ~Closing
  BY <1>0, <1>1 DEF ListenerOK, MainOK
<1>6. fds' \in [Fds -> Conns \cup {NoConn}] /\ fds'[f] = b
      /\ \A g \in Fds : g # f => fds'[g] = fds[g]
  BY <1>0, <1>1, <1>2, <1>3 DEF TypeOK
<1>7. TypeOK'
  BY <1>0, <1>1, <1>2, <1>3, <1>4, <1>6 DEF TypeOK
<1>8. MainOK'
  BY <1>0, <1>1, <1>5 DEF MainOK, Closing
<1>9. ListenerOK'
  BY <1>0, <1>1, <1>2, <1>3, <1>6 DEF ListenerOK, BacklogOK
<1>10. BacklogOK'
  <2>1. ASSUME NEW k \in DOMAIN backlog'
        PROVE  handler'[backlog'[k]].pc = "none" /\ peer'[backlog'[k]] # "away"
               /\ backlog'[k] # listener'.conn
    <3>1. k + 1 \in DOMAIN backlog /\ backlog'[k] = backlog[k + 1] /\ k + 1 # 1
      BY <1>4
    <3>2. handler[backlog[k + 1]].pc = "none" /\ peer[backlog[k + 1]] # "away"
          /\ backlog[k + 1] # backlog[1]
      BY <1>0, <1>3, <3>1 DEF BacklogOK
    <3> QED
      BY <1>1, <1>3, <3>1, <3>2
  <2>2. ASSUME NEW j \in DOMAIN backlog', NEW k \in DOMAIN backlog', j # k
        PROVE  backlog'[j] # backlog'[k]
    <3>1. j + 1 \in DOMAIN backlog /\ k + 1 \in DOMAIN backlog /\ j + 1 # k + 1
          /\ backlog'[j] = backlog[j + 1] /\ backlog'[k] = backlog[k + 1]
      BY <1>4, <2>2
    <3> QED
      BY <1>0, <3>1 DEF BacklogOK
  <2> QED
    BY <2>1, <2>2 DEF BacklogOK
<1>11. HandlerOK'
  BY <1>0, <1>1 DEF HandlerOK
<1>12. OpenOK'
  BY <1>0, <1>1, <1>5, <1>6 DEF OpenOK, UsesDescriptor, Serving
<1>13. Exclusion' /\ WaitOK'
  BY <1>0, <1>1 DEF Exclusion, WaitOK, HandlerReads, HandlerWrites, ListenerWrites, MainWrites,
                    Closing
<1>14. HandlerOwnsDescriptor'
  <2> SUFFICES ASSUME NEW d \in Conns, UsesDescriptor(d)
               PROVE  fds'[handler[d].fd] = d
    BY <1>1 DEF HandlerOwnsDescriptor, UsesDescriptor, Serving
  <2>1. handler[d].fd \in Fds
    BY <1>0, HasFd DEF UsesDescriptor, Serving
  <2> QED
    BY <1>0, <1>2, <1>5, <1>6, <2>1 DEF HandlerOwnsDescriptor
<1>15. EntriesHaveHandlers'
  BY <1>0, <1>1 DEF EntriesHaveHandlers
<1> QED
  BY <1>7, <1>8, <1>9, <1>10, <1>11, <1>12, <1>13, <1>14, <1>15 DEF DescriptorInv

(* The thread of a connection is started. *)
LEMMA SpawnKeeps ==
  ASSUME DescriptorInv, Spawn
  PROVE  DescriptorInv'
<1> DEFINE c == listener.conn
           f == listener.fd
           thread == [handler[c] EXCEPT !.pc = "check", !.fd = f]
<1>0. TypeOK /\ MainOK /\ ListenerOK /\ BacklogOK /\ HandlerOK /\ OpenOK /\ Exclusion /\ WaitOK
      /\ HandlerOwnsDescriptor /\ EntriesHaveHandlers
  BY DEF DescriptorInv
<1>1. /\ listener.pc = "spawn" /\ HandlerBecomes(c, thread)
      /\ listener' = [pc |-> "check", conn |-> NoConn, fd |-> 0]
      /\ UNCHANGED <<process, running, server, clients, main, fds, backlog, peer, sent, received,
                     inbox>>
  BY DEF Spawn, network
<1>2. /\ c \in Conns /\ f \in Fds /\ fds[f] = c /\ handler[c].pc = "none" /\ peer[c] # "away"
      /\ handler[c] \in Thread /\ c # NoConn
  BY <1>0, <1>1, ThreadFields DEF ListenerOK, TypeOK
<1> HIDE DEF c, f
<1>3. /\ thread \in Thread /\ thread.pc = "check" /\ thread.audience = handler[c].audience
      /\ thread.fd = f /\ thread.on = handler[c].on /\ thread.i = handler[c].i
  BY <1>2 DEF Thread
<1> HIDE DEF thread
<1>4. /\ handler' \in [Conns -> Thread] /\ handler'[c] = thread
      /\ \A d \in Conns \ {c} : handler'[d] = handler[d]
  BY <1>0, <1>1, <1>2, <1>3, BecomesIs
<1>5. TypeOK'
  BY <1>0, <1>1, <1>4 DEF TypeOK
<1>6. ~Closing /\ ~Closing' /\ handler[c].on = NoConn /\ handler[c].fd = 0
      /\ handler[c].audience = {}
  BY <1>0, <1>1, <1>2 DEF MainOK, Closing, WaitOK, HandlerOK
<1>7. MainOK'
  BY <1>0, <1>1, <1>6 DEF MainOK
<1>8. ListenerOK'
  BY <1>1 DEF ListenerOK
<1>9. BacklogOK'
  <2>1. \A k \in DOMAIN backlog : backlog[k] \in Conns /\ backlog[k] # c
    BY <1>0 DEF TypeOK, BacklogOK, c
  <2> QED
    BY <1>0, <1>1, <1>4, <2>1 DEF BacklogOK
<1>10. HandlerOK'
  <2>1. \A d \in Conns : \A e \in handler[d].audience : e \in Conns /\ e # c
    BY <1>0, <1>2, ThreadFields DEF HandlerOK
  <2>2. ASSUME NEW d \in Conns, d # c
        PROVE /\ handler'[d].pc = "none" <=> handler'[d].fd = 0
              /\ handler'[d].pc = "none" => handler'[d].audience = {}
              /\ peer'[d] = "away" => handler'[d].pc = "none"
              /\ handler'[d].i \in Nat \ {0}
              /\ d \notin handler'[d].audience
              /\ \A e \in handler'[d].audience : handler'[e].pc # "none"
    BY <1>0, <1>1, <1>4, <2>1, <2>2 DEF HandlerOK
  <2>3. f # 0
    BY <1>2 DEF Fds
  <2>4. /\ handler'[c].pc # "none" /\ handler'[c].fd # 0 /\ handler'[c].audience = {}
        /\ handler'[c].i \in Nat \ {0}
    BY <1>0, <1>2, <1>3, <1>4, <1>6, <2>3 DEF HandlerOK
  <2>5. ASSUME NEW d \in Conns
        PROVE /\ handler'[d].pc = "none" <=> handler'[d].fd = 0
              /\ handler'[d].pc = "none" => handler'[d].audience = {}
              /\ peer'[d] = "away" => handler'[d].pc = "none"
              /\ handler'[d].i \in Nat \ {0}
              /\ d \notin handler'[d].audience
              /\ \A e \in handler'[d].audience : handler'[e].pc # "none"
    <3>1. CASE d = c
      BY <1>1, <1>2, <2>4, <3>1
    <3>2. CASE d # c
      BY <2>2, <3>2
    <3> QED
      BY <3>1, <3>2
  <2> QED
    BY <2>5 DEF HandlerOK
<1>11. OpenOK'
  <2> SUFFICES ASSUME NEW g \in Fds, NEW e \in Conns, fds[g] = e
               PROVE  handler'[e].fd = g /\ UsesDescriptor(e)'
    BY <1>1 DEF OpenOK
  <2>1. CASE e = c
    <3>1. g = f
      BY <1>0, <1>2, <2>1 DEF OpenOK, UsesDescriptor, Serving, c, f
    <3> QED
      BY <1>3, <1>4, <2>1, <3>1 DEF UsesDescriptor, Serving
  <2>2. CASE e # c
    BY <1>0, <1>4, <2>2 DEF OpenOK, UsesDescriptor, Serving, c
  <2> QED
    BY <2>1, <2>2
<1>12. Exclusion'
  BY <1>0, <1>1, <1>3, <1>4 DEF Exclusion, HandlerReads, HandlerWrites, ListenerWrites, MainWrites
<1>13. WaitOK'
  <2> SUFFICES ASSUME NEW d \in Conns, handler'[d].on # NoConn
               PROVE  \/ handler'[d].pc \in {"recv", "ack"} /\ handler'[d].on = d
                      \/ /\ handler'[d].pc = "send" /\ handler'[d].on # d
                         /\ handler'[d].i <= Len(clients)
                         /\ handler'[handler'[d].on].fd = clients[handler'[d].i]
                         /\ handler'[handler'[d].on].pc \in {"erase", "erasing", "exited"}
    BY <1>1 DEF WaitOK
  <2>1. d # c /\ handler'[d] = handler[d] /\ handler[d].on \in Conns
    BY <1>0, <1>3, <1>4, <1>6, ThreadFields
  <2>2. handler[handler[d].on].pc \in {"erase", "erasing", "exited"} => handler[d].on # c
    BY <1>2
  <2> QED
    BY <1>0, <1>4, <1>6, <2>1, <2>2 DEF WaitOK
<1>14. HandlerOwnsDescriptor'
  <2> SUFFICES ASSUME NEW d \in Conns, UsesDescriptor(d)'
               PROVE  fds[handler'[d].fd] = d
    BY <1>1 DEF HandlerOwnsDescriptor
  <2>1. CASE d = c
    BY <1>2, <1>3, <1>4, <2>1
  <2>2. CASE d # c
    BY <1>0, <1>4, <1>6, <2>2 DEF HandlerOwnsDescriptor, UsesDescriptor, Serving
  <2> QED
    BY <2>1, <2>2
<1>15. EntriesHaveHandlers'
  <2> SUFFICES ASSUME NEW k \in DOMAIN clients
               PROVE  \E d \in Conns : handler'[d].fd = clients[k] /\ handler'[d].pc # "exited"
    BY <1>1 DEF EntriesHaveHandlers
  <2>1. clients[k] \in Fds /\ clients[k] # 0
    BY <1>0 DEF TypeOK, Fds
  <2>2. CASE clients[k] = f
    BY <1>2, <1>3, <1>4, <2>2
  <2>3. CASE clients[k] # f
    <3>1. PICK d \in Conns : handler[d].fd = clients[k] /\ handler[d].pc # "exited"
      BY <1>0, <2>3 DEF EntriesHaveHandlers, f
    <3>2. d # c
      BY <1>6, <2>1, <3>1
    <3> QED
      BY <1>4, <3>1, <3>2
  <2> QED
    BY <2>2, <2>3
<1> QED
  BY <1>5, <1>7, <1>8, <1>9, <1>10, <1>11, <1>12, <1>13, <1>14, <1>15 DEF DescriptorInv

-----------------------------------------------------------------------------
(* Steps of the clients, and the end *)

(* A client connects. *)
LEMMA ConnectKeeps ==
  ASSUME DescriptorInv, NEW c \in Conns, Connect(c)
  PROVE  DescriptorInv'
<1>0. TypeOK /\ MainOK /\ ListenerOK /\ BacklogOK /\ HandlerOK /\ OpenOK /\ Exclusion /\ WaitOK
      /\ HandlerOwnsDescriptor /\ EntriesHaveHandlers
  BY DEF DescriptorInv
<1>1. /\ peer[c] = "away" /\ peer' = [peer EXCEPT ![c] = "open"]
      /\ backlog' = Append(backlog, c)
      /\ UNCHANGED <<process, running, server, clients, main, listener, handler, fds, sent,
                     received, inbox>>
  BY DEF Connect, threads
<1>2. backlog \in Seq(Conns)
  BY <1>0 DEF TypeOK
<1>3. /\ backlog' \in Seq(Conns) /\ Len(backlog) \in Nat
      /\ DOMAIN backlog = 1 .. Len(backlog) /\ DOMAIN backlog' = 1 .. Len(backlog) + 1
      /\ backlog'[Len(backlog) + 1] = c
      /\ \A k \in DOMAIN backlog : backlog'[k] = backlog[k]
  BY <1>1, <1>2
<1>4. peer' \in [Conns -> {"away", "open", "full", "closed", "reset"}] /\ peer'[c] = "open"
      /\ \A d \in Conns : d # c => peer'[d] = peer[d]
  BY <1>0, <1>1 DEF TypeOK
<1>5. TypeOK'
  BY <1>0, <1>1, <1>3, <1>4 DEF TypeOK
<1>6. handler[c].pc = "none" /\ listener.conn # c
      /\ \A k \in DOMAIN backlog : backlog[k] # c /\ backlog[k] \in Conns
  BY <1>0, <1>1, <1>2 DEF HandlerOK, ListenerOK, BacklogOK
<1>7. MainOK'
  BY <1>0, <1>1 DEF MainOK, Closing
<1>8. ListenerOK'
  <2>1. listener.conn \in Conns \cup {NoConn}
    BY <1>0 DEF TypeOK
  <2> QED
    BY <1>0, <1>1, <1>4, <2>1 DEF ListenerOK
<1>9. BacklogOK'
  <2>1. ASSUME NEW k \in DOMAIN backlog'
        PROVE  handler[backlog'[k]].pc = "none" /\ peer'[backlog'[k]] # "away"
               /\ backlog'[k] # listener.conn
    <3>1. CASE k = Len(backlog) + 1
      BY <1>3, <1>4, <1>6, <3>1
    <3>2. CASE k \in DOMAIN backlog
      BY <1>0, <1>3, <1>4, <1>6, <3>2 DEF BacklogOK
    <3> QED
      BY <1>3, <3>1, <3>2
  <2>2. ASSUME NEW j \in DOMAIN backlog', NEW k \in DOMAIN backlog', j # k
        PROVE  backlog'[j] # backlog'[k]
    <3>1. CASE j = Len(backlog) + 1
      BY <1>3, <1>6, <2>2, <3>1
    <3>2. CASE k = Len(backlog) + 1
      BY <1>3, <1>6, <2>2, <3>2
    <3>3. CASE j \in DOMAIN backlog /\ k \in DOMAIN backlog
      BY <1>0, <1>3, <2>2, <3>3 DEF BacklogOK
    <3> QED
      BY <1>3, <3>1, <3>2, <3>3
  <2> QED
    BY <1>1, <2>1, <2>2 DEF BacklogOK
<1>10. HandlerOK'
  BY <1>0, <1>1, <1>4 DEF HandlerOK
<1>11. OpenOK' /\ HandlerOwnsDescriptor'
  BY <1>0, <1>1 DEF OpenOK, HandlerOwnsDescriptor, UsesDescriptor, Serving, Closing
<1>12. Exclusion' /\ WaitOK'
  BY <1>0, <1>1 DEF Exclusion, WaitOK, HandlerReads, HandlerWrites, ListenerWrites, MainWrites,
                    Closing
<1>13. EntriesHaveHandlers'
  BY <1>0, <1>1 DEF EntriesHaveHandlers
<1> QED
  BY <1>5, <1>7, <1>8, <1>9, <1>10, <1>11, <1>12, <1>13 DEF DescriptorInv

(* A client writes, stops or starts reading, or hangs up. *)
LEMMA ClientKeeps ==
  ASSUME DescriptorInv, NEW c \in Conns, SendMessage(c) \/ Stall(c) \/ Disconnect(c)
  PROVE  DescriptorInv'
<1>0. TypeOK
  BY DEF DescriptorInv
<1>1. UNCHANGED <<process, running, server, clients, main, listener, handler, fds, backlog,
                  received, inbox>>
  BY DEF SendMessage, Stall, Disconnect, threads
<1>2. sent' \in [Conns -> Nat]
  <2>1. sent \in [Conns -> Nat]
    BY <1>0 DEF TypeOK
  <2>2. CASE SendMessage(c)
    BY <2>1, <2>2 DEF SendMessage
  <2> QED
    BY <2>1, <2>2 DEF Stall, Disconnect
<1>3. /\ peer' \in [Conns -> {"away", "open", "full", "closed", "reset"}]
      /\ \A d \in Conns : peer'[d] = "away" <=> peer[d] = "away"
  <2>1. peer \in [Conns -> {"away", "open", "full", "closed", "reset"}]
    BY <1>0 DEF TypeOK
  <2>2. CASE peer' = peer
    BY <2>1, <2>2
  <2>3. CASE peer[c] # "away" /\ \E how \in {"open", "full", "closed", "reset"} :
               peer' = [peer EXCEPT ![c] = how]
    BY <2>1, <2>3
  <2>4. SendMessage(c) => peer' = peer
    BY DEF SendMessage
  <2>5. Stall(c) \/ Disconnect(c) =>
          peer[c] # "away" /\ \E how \in {"open", "full", "closed", "reset"} :
            peer' = [peer EXCEPT ![c] = how]
    BY <2>1 DEF Stall, Disconnect
  <2> QED
    BY <2>2, <2>3, <2>4, <2>5
<1>4. TypeOK'
  BY <1>0, <1>1, <1>2, <1>3 DEF TypeOK
<1> QED
  BY <1>1, <1>3, <1>4, StillKeeps DEF Still

(* main returns, or nothing happens. *)
LEMMA EndKeeps ==
  ASSUME DescriptorInv, MainReturn \/ UNCHANGED vars
  PROVE  DescriptorInv'
<1>1. /\ UNCHANGED <<running, server, clients, main, listener, handler, fds, backlog, peer, sent,
                     received, inbox>>
      /\ process' \in {process, "returned"}
  BY DEF MainReturn, vars, threads, network
<1>2. TypeOK'
  BY <1>1 DEF DescriptorInv, TypeOK
<1> QED
  BY <1>1, <1>2, StillKeeps DEF Still

-----------------------------------------------------------------------------
(* The initial states satisfy the invariant. *)
LEMMA DescriptorInvInit == Init => DescriptorInv
<1> SUFFICES ASSUME Init PROVE DescriptorInv
  OBVIOUS
<1> USE DEF Init
<1>0. NoChunk \in Piece
  BY DEF NoChunk, Piece
<1>1. handler \in [Conns -> Thread]
      /\ \A c \in Conns : /\ handler[c].pc = "none" /\ handler[c].fd = 0 /\ handler[c].i = 1
                          /\ handler[c].on = NoConn /\ handler[c].audience = {}
  <2> DEFINE thread == [pc |-> "none", fd |-> 0, chunk |-> NoChunk, i |-> 1, on |-> NoConn,
                        audience |-> {}]
  <2>1. thread \in Thread /\ thread.pc = "none" /\ thread.fd = 0 /\ thread.i = 1
        /\ thread.on = NoConn /\ thread.audience = {}
    BY <1>0 DEF Thread
  <2>2. handler = [c \in Conns |-> thread]
    OBVIOUS
  <2> HIDE DEF thread
  <2> QED
    BY <2>1, <2>2
<1>2. TypeOK
  <2>1. clients \in Seq(Fds) /\ backlog \in Seq(Conns)
    OBVIOUS
  <2>2. inbox \in [Conns -> Seq(Piece)]
    <3>1. <<>> \in Seq(Piece)
      OBVIOUS
    <3> QED
      BY <3>1
  <2> QED
    BY <1>1, <2>1, <2>2 DEF TypeOK
<1>3. MainOK /\ ListenerOK /\ BacklogOK
  BY DEF MainOK, ListenerOK, BacklogOK, Closing
<1>4. HandlerOK /\ Exclusion /\ WaitOK
  BY <1>1 DEF HandlerOK, Exclusion, WaitOK, HandlerReads
<1>5. OpenOK /\ HandlerOwnsDescriptor
  BY <1>1 DEF OpenOK, HandlerOwnsDescriptor, UsesDescriptor, Serving
<1>6. EntriesHaveHandlers
  BY DEF EntriesHaveHandlers
<1> QED
  BY <1>2, <1>3, <1>4, <1>5, <1>6 DEF DescriptorInv

(* Every step preserves the invariant. *)
LEMMA DescriptorInvNext ==
  ASSUME DescriptorInv, [Next]_vars
  PROVE  DescriptorInv'
<1>1. CASE Listener
  BY <1>1, ListenKeeps, AcceptKeeps, PushBeginKeeps, PushEndKeeps, SpawnKeeps DEF Listener
<1>2. CASE Command \/ Stop
  BY <1>2, StopBeginsKeeps, JoinKeeps, CloseClientKeeps, ClearKeeps, EndKeeps DEF Stop
<1>3. ASSUME NEW c \in Conns, Handler(c) PROVE DescriptorInv'
  BY <1>3, HandlerCheckKeeps, RecvKeeps, RecvFailsKeeps, AcknowledgeKeeps, BroadcastBeginKeeps,
     BroadcastTurnKeeps, BroadcastEndKeeps, CloseSocketKeeps, EraseBeginKeeps, EraseEndKeeps
     DEF Handler
<1>4. ASSUME NEW c \in Conns, Client(c) PROVE DescriptorInv'
  BY <1>4, ConnectKeeps, ClientKeeps DEF Client
<1>5. CASE UNCHANGED vars
  BY <1>5, EndKeeps
<1> QED
  BY <1>1, <1>2, <1>3, <1>4, <1>5 DEF Next, Ended

(* How tcp_clients_, the descriptors, the backlog and the threads belong   *)
(* together, in every reachable state.                                     *)
THEOREM DescriptorInvariant == Spec => []DescriptorInv
BY DescriptorInvInit, DescriptorInvNext, PTL DEF Spec

(* Every variable keeps its type: among others, every element of           *)
(* tcp_clients_ is a descriptor, and nothing is sent or received on        *)
(* anything but a connection.                                              *)
THEOREM TcpServerTypeCorrect == Spec => []TypeOK
<1>1. DescriptorInv => TypeOK
  BY DEF DescriptorInv
<1> QED
  BY <1>1, DescriptorInvariant, PTL

(* The number client_socket means the handler's own connection for as long *)
(* as handle_tcp_client uses it, unless stop() has closed it.              *)
THEOREM DescriptorIsOwn == Spec => []HandlerOwnsDescriptor
<1>1. DescriptorInv => HandlerOwnsDescriptor
  BY DEF DescriptorInv
<1> QED
  BY <1>1, DescriptorInvariant, PTL

(* tcp_clients_ has no dead entries: each is the descriptor of a handler   *)
(* that has yet to erase it, or of one about to be started.                *)
THEOREM NoDeadEntries == Spec => []EntriesHaveHandlers
<1>1. DescriptorInv => EntriesHaveHandlers
  BY DEF DescriptorInv
<1> QED
  BY <1>1, DescriptorInvariant, PTL
=============================================================================
