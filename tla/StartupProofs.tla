---------------------------- MODULE StartupProofs ----------------------------
(***************************************************************************)
(* Proofs about the start of the programs, for every value of the          *)
(* constants: files of any number of lines, any texts and names typed, any *)
(* addresses and devices of the host, and any width of ports and integers. *)
(***************************************************************************)
EXTENDS StartupProperties, SequenceLemmas

-----------------------------------------------------------------------------
(* The names of a sequence that are in a set *)

(* The function that AmongUpTo defines by recursion exists. *)
LEMMA AmongUpToIs ==
  ASSUME NEW S, NEW s \in Seq(S), NEW C
  PROVE  /\ AmongUpTo(s, C) \in [0 .. Len(s) -> Seq(S)]
         /\ AmongUpTo(s, C)[0] = <<>>
         /\ \A k \in 1 .. Len(s) :
              AmongUpTo(s, C)[k] = IF s[k] \in C THEN Append(AmongUpTo(s, C)[k - 1], s[k])
                                   ELSE AmongUpTo(s, C)[k - 1]
<1> DEFINE n == Len(s)
           Step(k, t) == IF s[k] \in C THEN Append(t, s[k]) ELSE t
           E(f) == f = [k \in 0 .. n |-> IF k = 0 THEN <<>> ELSE Step(k, f[k - 1])]
           F == [k \in 1 .. n |-> [t \in Seq(S) |-> Step(k, t)]]
           u == AmongUpTo(s, C)
<1>1. n \in Nat /\ <<>> \in Seq(S) /\ \A k \in 1 .. n : s[k] \in S
  OBVIOUS
<1>2. \A k \in 1 .. n : \A t \in Seq(S) : Step(k, t) \in Seq(S)
  BY <1>1
<1>3. u = CHOOSE f : E(f)
  BY DEF AmongUpTo
<1> HIDE DEF Step
<1>4. F \in [1 .. n -> [Seq(S) -> Seq(S)]]
  BY <1>2
<1> DEFINE Empty == <<>>
           D == Seq(S)
<1>5. PICK f \in [0 .. n -> D] : f[0] = Empty /\ \A k \in 1 .. n : f[k] = F[k][f[k - 1]]
  <2>1. n \in Nat /\ Empty \in D /\ F \in [1 .. n -> [D -> D]]
    BY <1>1, <1>4
  <2> HIDE DEF Empty, D, F, n
  <2> QED
    BY <2>1, StepwiseExists
<1>6. E(f)
  <2>1. ASSUME NEW k \in 0 .. n
        PROVE  f[k] = IF k = 0 THEN Empty ELSE Step(k, f[k - 1])
    <3>1. CASE k = 0
      BY <1>5, <3>1
    <3>2. CASE k # 0
      <4>1. f[k] = F[k][f[k - 1]] /\ k \in 1 .. n /\ f[k - 1] \in D
        <5> HIDE DEF F, D
        <5> QED
          BY <1>1, <1>5, <3>2
      <4>2. F[k] = [t \in D |-> Step(k, t)]
        BY <4>1
      <4>3. F[k][f[k - 1]] = Step(k, f[k - 1])
        BY <4>1, <4>2
      <4> QED
        BY <3>2, <4>1, <4>3
    <3> QED
      BY <3>1, <3>2
  <2> HIDE DEF Step, F
  <2> QED
    BY <1>5, <2>1
<1>7. E(u)
  BY <1>3, <1>6
<1> HIDE DEF u, n
<1>8. DOMAIN u = 0 .. n /\ u[0] = <<>> /\ \A k \in 1 .. n : u[k] = Step(k, u[k - 1])
  BY <1>1, <1>7
<1>9. 0 .. n \subseteq {k \in 0 .. n : u[k] \in D}
  <2> DEFINE T == {k \in 0 .. n : u[k] \in D}
  <2>0. 0 \in 0 .. n /\ <<>> \in D /\ \A k \in 1 .. n : \A t \in D : Step(k, t) \in D
    BY <1>1, <1>2
  <2> HIDE DEF D
  <2>1. 0 \in T
    BY <2>0, <1>8
  <2>2. \A k \in 1 .. n : k - 1 \in T => k \in T
    BY <1>1, <2>0, <1>8
  <2> HIDE DEF T
  <2>3. 0 .. n \subseteq T
    BY <1>1, <2>1, <2>2, InductionUpTo
  <2> QED
    BY <2>3 DEF T
<1>10. u \in [0 .. n -> D]
  BY <1>7, <1>8, <1>9
<1> QED
  BY <1>8, <1>10 DEF u, n, Step

(* What is chosen of a sequence is a sequence of its elements. *)
LEMMA AmongType ==
  ASSUME NEW S, NEW s \in Seq(S), NEW C
  PROVE  Among(s, C) \in Seq(S)
<1>1. Len(s) \in 0 .. Len(s)
  OBVIOUS
<1> QED
  BY <1>1, AmongUpToIs DEF Among

(* Nothing is chosen of nothing. *)
LEMMA AmongEmpty ==
  ASSUME NEW S, NEW s \in Seq(S), NEW C
  PROVE  Len(s) = 0 => Among(s, C) = <<>>
<1>1. AmongUpTo(s, C)[0] = <<>>
  BY AmongUpToIs
<1> QED
  BY <1>1 DEF Among

(* What is chosen of the first elements does not depend on the others. *)
LEMMA AmongPrefix ==
  ASSUME NEW S, NEW s \in Seq(S), NEW t \in Seq(S), NEW C, NEW n \in Nat,
         n <= Len(s), n <= Len(t), \A k \in 1 .. n : s[k] = t[k]
  PROVE  AmongUpTo(s, C)[n] = AmongUpTo(t, C)[n]
<1> DEFINE u == AmongUpTo(s, C)
           v == AmongUpTo(t, C)
           T == {k \in 0 .. n : u[k] = v[k]}
<1>1. /\ u[0] = <<>> /\ v[0] = <<>>
      /\ \A k \in 1 .. n : u[k] = IF s[k] \in C THEN Append(u[k - 1], s[k]) ELSE u[k - 1]
      /\ \A k \in 1 .. n : v[k] = IF t[k] \in C THEN Append(v[k - 1], t[k]) ELSE v[k - 1]
  BY AmongUpToIs
<1> HIDE DEF u, v
<1>2. 0 \in T
  BY <1>1
<1>3. \A k \in 1 .. n : k - 1 \in T => k \in T
  BY <1>1
<1> HIDE DEF T
<1>4. 0 .. n \subseteq T
  BY <1>2, <1>3, InductionUpTo
<1>5. n \in T
  BY <1>4
<1> QED
  BY <1>5 DEF T, u, v

(* An element more is chosen, or not. *)
LEMMA AmongAppend ==
  ASSUME NEW S, NEW s \in Seq(S), NEW e \in S, NEW C
  PROVE  Among(Append(s, e), C) = IF e \in C THEN Append(Among(s, C), e) ELSE Among(s, C)
<1> DEFINE t == Append(s, e)
           n == Len(s)
<1>1. /\ t \in Seq(S) /\ Len(t) = n + 1 /\ n \in Nat
      /\ t[n + 1] = e /\ \A k \in 1 .. n : t[k] = s[k]
  OBVIOUS
<1> HIDE DEF t
<1>2. AmongUpTo(t, C)[n + 1]
        = IF t[n + 1] \in C THEN Append(AmongUpTo(t, C)[n], t[n + 1]) ELSE AmongUpTo(t, C)[n]
  <2>1. n + 1 \in 1 .. Len(t) /\ (n + 1) - 1 = n
    BY <1>1
  <2> HIDE DEF n
  <2> QED
    BY <1>1, <2>1, AmongUpToIs
<1>3. AmongUpTo(t, C)[n] = AmongUpTo(s, C)[n]
  BY <1>1, AmongPrefix
<1> QED
  BY <1>1, <1>2, <1>3 DEF Among, t

(* To choose twice is to choose what is in both sets. *)
LEMMA AmongTwice ==
  ASSUME NEW S, NEW s \in Seq(S), NEW A, NEW B
  PROVE  Among(Among(s, A), B) = Among(s, A \cap B)
<1> DEFINE n == Len(s)
           u == AmongUpTo(s, A)
           v == AmongUpTo(s, A \cap B)
           T == {k \in 0 .. n : Among(u[k], B) = v[k]}
<1>1. /\ n \in Nat /\ \A k \in 1 .. n : s[k] \in S
      /\ u \in [0 .. n -> Seq(S)] /\ u[0] = <<>> /\ v[0] = <<>>
      /\ \A k \in 1 .. n : u[k] = IF s[k] \in A THEN Append(u[k - 1], s[k]) ELSE u[k - 1]
      /\ \A k \in 1 .. n : v[k] = IF s[k] \in A \cap B THEN Append(v[k - 1], s[k]) ELSE v[k - 1]
  BY AmongUpToIs
<1> HIDE DEF u, v, n
<1>2. 0 \in T
  <2>1. u[0] \in Seq(S) /\ Len(u[0]) = 0
    BY <1>1
  <2>2. Among(u[0], B) = <<>>
    BY <2>1, AmongEmpty
  <2> QED
    BY <1>1, <2>2
<1>3. ASSUME NEW k \in 1 .. n, k - 1 \in T PROVE k \in T
  <2>1. u[k - 1] \in Seq(S) /\ s[k] \in S /\ Among(u[k - 1], B) = v[k - 1] /\ k \in 0 .. n
    BY <1>1, <1>3
  <2>2. Among(Append(u[k - 1], s[k]), B)
          = IF s[k] \in B THEN Append(Among(u[k - 1], B), s[k]) ELSE Among(u[k - 1], B)
    <3> DEFINE w == u[k - 1]
               e == s[k]
    <3>1. w \in Seq(S) /\ e \in S
      BY <2>1
    <3> HIDE DEF w, e
    <3>2. Among(Append(w, e), B) = IF e \in B THEN Append(Among(w, B), e) ELSE Among(w, B)
      BY <3>1, AmongAppend
    <3> QED
      BY <3>2 DEF w, e
  <2>3. Among(u[k], B) = v[k]
    BY <1>1, <2>1, <2>2
  <2> QED
    BY <2>1, <2>3
<1> HIDE DEF T
<1>4. 0 .. n \subseteq T
  BY <1>1, <1>2, <1>3, InductionUpTo
<1>5. n \in T
  BY <1>1, <1>4
<1> QED
  BY <1>5 DEF T, u, v, n, Among

-----------------------------------------------------------------------------
(* The names of the interfaces *)

Elements(t) == {t[j] : j \in DOMAIN t}

(* An element more is an element more. *)
LEMMA ElementsAppend ==
  ASSUME NEW S, NEW t \in Seq(S), NEW e \in S
  PROVE  Elements(Append(t, e)) = Elements(t) \cup {e}
<1> DEFINE v == Append(t, e)
<1>1. /\ DOMAIN t = 1 .. Len(t) /\ DOMAIN v = 1 .. Len(t) + 1 /\ Len(t) \in Nat
      /\ v[Len(t) + 1] = e /\ \A k \in 1 .. Len(t) : v[k] = t[k]
  OBVIOUS
<1> HIDE DEF v
<1>2. Elements(v) \subseteq Elements(t) \cup {e}
  <2>1. ASSUME NEW j \in DOMAIN v PROVE v[j] \in Elements(t) \cup {e}
    BY <1>1 DEF Elements
  <2> QED
    BY <2>1 DEF Elements
<1>3. Elements(t) \cup {e} \subseteq Elements(v)
  <2>1. e \in Elements(v)
    <3>1. Len(t) + 1 \in DOMAIN v
      BY <1>1
    <3> QED
      BY <1>1, <3>1 DEF Elements
  <2>2. ASSUME NEW j \in DOMAIN t PROVE t[j] \in Elements(v)
    BY <1>1 DEF Elements
  <2> QED
    BY <2>1, <2>2 DEF Elements
<1> QED
  BY <1>2, <1>3 DEF v

Address == [name : Names, packet : BOOLEAN]

(* The names among the first k addresses of the packet family. *)
NamesIn(k) == {addresses[j].name : j \in {i \in 1 .. k : addresses[i].packet}}

(* An address of the list has a name. *)
LEMMA AddressTypes ==
  ASSUME addresses \in Seq(Address)
  PROVE  /\ Len(addresses) \in Nat /\ DOMAIN addresses = 1 .. Len(addresses)
         /\ \A k \in 1 .. Len(addresses) : addresses[k].name \in Names
<1>1. /\ Len(addresses) \in Nat /\ DOMAIN addresses = 1 .. Len(addresses)
      /\ \A k \in 1 .. Len(addresses) : addresses[k] \in Address
  OBVIOUS
<1> QED
  BY <1>1 DEF Address

(* The function that NamesUpTo defines by recursion exists. *)
LEMMA NamesUpToIs ==
  ASSUME addresses \in Seq(Address)
  PROVE  /\ NamesUpTo \in [0 .. Len(addresses) -> Seq(Names)]
         /\ NamesUpTo[0] = <<>>
         /\ \A k \in 1 .. Len(addresses) :
              NamesUpTo[k] =
                IF ~addresses[k].packet \/ addresses[k].name \in Elements(NamesUpTo[k - 1])
                  THEN NamesUpTo[k - 1] ELSE Append(NamesUpTo[k - 1], addresses[k].name)
<1> DEFINE n == Len(addresses)
           Step(k, t) == IF ~addresses[k].packet \/ \E j \in DOMAIN t : t[j] = addresses[k].name
                           THEN t ELSE Append(t, addresses[k].name)
           E(f) == f = [k \in 0 .. n |-> IF k = 0 THEN <<>> ELSE Step(k, f[k - 1])]
           F == [k \in 1 .. n |-> [t \in Seq(Names) |-> Step(k, t)]]
           u == NamesUpTo
<1>1. n \in Nat /\ <<>> \in Seq(Names) /\ \A k \in 1 .. n : addresses[k].name \in Names
  BY AddressTypes
<1>2. \A k \in 1 .. n : \A t \in Seq(Names) : Step(k, t) \in Seq(Names)
  BY <1>1
<1>3. u = CHOOSE f : E(f)
  BY DEF NamesUpTo
<1> HIDE DEF Step
<1>4. F \in [1 .. n -> [Seq(Names) -> Seq(Names)]]
  BY <1>2
<1> DEFINE Empty == <<>>
           D == Seq(Names)
<1>5. PICK f \in [0 .. n -> D] : f[0] = Empty /\ \A k \in 1 .. n : f[k] = F[k][f[k - 1]]
  <2>1. n \in Nat /\ Empty \in D /\ F \in [1 .. n -> [D -> D]]
    BY <1>1, <1>4
  <2> HIDE DEF Empty, D, F, n
  <2> QED
    BY <2>1, StepwiseExists
<1>6. E(f)
  <2>1. ASSUME NEW k \in 0 .. n
        PROVE  f[k] = IF k = 0 THEN Empty ELSE Step(k, f[k - 1])
    <3>1. CASE k = 0
      BY <1>5, <3>1
    <3>2. CASE k # 0
      <4>1. f[k] = F[k][f[k - 1]] /\ k \in 1 .. n /\ f[k - 1] \in D
        <5> HIDE DEF F, D
        <5> QED
          BY <1>1, <1>5, <3>2
      <4>2. F[k] = [t \in D |-> Step(k, t)]
        BY <4>1
      <4>3. F[k][f[k - 1]] = Step(k, f[k - 1])
        BY <4>1, <4>2
      <4> QED
        BY <3>2, <4>1, <4>3
    <3> QED
      BY <3>1, <3>2
  <2> HIDE DEF Step, F
  <2> QED
    BY <1>5, <2>1
<1>7. E(u)
  BY <1>3, <1>6
<1> HIDE DEF u, n
<1>8. DOMAIN u = 0 .. n /\ u[0] = <<>> /\ \A k \in 1 .. n : u[k] = Step(k, u[k - 1])
  BY <1>1, <1>7
<1>9. 0 .. n \subseteq {k \in 0 .. n : u[k] \in D}
  <2> DEFINE T == {k \in 0 .. n : u[k] \in D}
  <2>0. 0 \in 0 .. n /\ <<>> \in D /\ \A k \in 1 .. n : \A t \in D : Step(k, t) \in D
    BY <1>1, <1>2
  <2> HIDE DEF D
  <2>1. 0 \in T
    BY <2>0, <1>8
  <2>2. \A k \in 1 .. n : k - 1 \in T => k \in T
    BY <1>1, <2>0, <1>8
  <2> HIDE DEF T
  <2>3. 0 .. n \subseteq T
    BY <1>1, <2>1, <2>2, InductionUpTo
  <2> QED
    BY <2>3 DEF T
<1>10. u \in [0 .. n -> D]
  BY <1>7, <1>8, <1>9
<1>11. \A k \in 1 .. n : u[k] = IF ~addresses[k].packet \/ addresses[k].name \in Elements(u[k - 1])
                                  THEN u[k - 1] ELSE Append(u[k - 1], addresses[k].name)
  BY <1>8 DEF Step, Elements
<1> QED
  BY <1>8, <1>10, <1>11 DEF u, n

(* getAvailableInterfaces returns the names of the interfaces. *)
LEMMA NamesAreOfInterfaces ==
  ASSUME addresses \in Seq(Address)
  PROVE  Elements(NamesUpTo[Len(addresses)]) = InterfaceNames
<1> DEFINE n == Len(addresses)
           u == NamesUpTo
           T == {k \in 0 .. n : Elements(u[k]) = NamesIn(k)}
<1>1. /\ u \in [0 .. n -> Seq(Names)] /\ u[0] = <<>>
      /\ \A k \in 1 .. n : u[k] = IF ~addresses[k].packet \/ addresses[k].name \in Elements(u[k - 1])
                                    THEN u[k - 1] ELSE Append(u[k - 1], addresses[k].name)
  BY NamesUpToIs
<1>2. n \in Nat /\ DOMAIN addresses = 1 .. n /\ \A k \in 1 .. n : addresses[k].name \in Names
  BY AddressTypes
<1> HIDE DEF u, n
<1>3. 0 \in T
  BY <1>1, <1>2 DEF Elements, NamesIn
<1>4. ASSUME NEW k \in 1 .. n, k - 1 \in T PROVE k \in T
  <2>1. u[k - 1] \in Seq(Names) /\ Elements(u[k - 1]) = NamesIn(k - 1) /\ k \in 0 .. n
    BY <1>1, <1>2, <1>4
  <2>2. NamesIn(k) = IF addresses[k].packet THEN NamesIn(k - 1) \cup {addresses[k].name}
                     ELSE NamesIn(k - 1)
    <3>1. \A j : j \in 1 .. k <=> j = k \/ j \in 1 .. k - 1
      BY <1>2
    <3> QED
      BY <3>1 DEF NamesIn
  <2>3. Elements(Append(u[k - 1], addresses[k].name))
          = Elements(u[k - 1]) \cup {addresses[k].name}
    BY <1>2, <2>1, ElementsAppend
  <2>4. Elements(u[k]) = NamesIn(k)
    <3>1. CASE ~addresses[k].packet
      BY <1>1, <2>1, <2>2, <3>1
    <3>2. CASE addresses[k].packet /\ addresses[k].name \in Elements(u[k - 1])
      BY <1>1, <2>1, <2>2, <3>2
    <3>3. CASE addresses[k].packet /\ addresses[k].name \notin Elements(u[k - 1])
      BY <1>1, <2>1, <2>2, <2>3, <3>3
    <3> QED
      BY <3>1, <3>2, <3>3
  <2> QED
    BY <2>1, <2>4
<1> HIDE DEF T
<1>5. 0 .. n \subseteq T
  BY <1>2, <1>3, <1>4, InductionUpTo
<1>6. n \in T
  BY <1>2, <1>5
<1>7. Elements(u[n]) = NamesIn(n)
  BY <1>6 DEF T
<1> QED
  BY <1>2, <1>7 DEF InterfaceNames, NamesIn, u, n

-----------------------------------------------------------------------------
(* The inductive invariant *)

FileLine == [key : Keys, value : Text, comment : BOOLEAN, delimiter : BOOLEAN]

Dialogues == {"lifetime", "interfaces", "names", "opening"}

Types ==
  /\ program \in Configured \cup {"monitor"}
  /\ outcome \in Dialogues \cup {"none", "reading", "started", "failed"}
  /\ outcome \in Dialogues => program = "switch"
  /\ program = "monitor" <=> outcome = "none"
  /\ file \in Seq(FileLine) /\ read \in 0 .. Len(file)
  /\ config \in [Keys -> Text]
  /\ addresses \in Seq(Address)
  /\ typed \in [lifetime : Text, names : Seq(Names)]
  /\ devices \in Seq(Names) /\ Len(devices) < IntLimit
  /\ argument \in Names \cup {NoName}
  /\ number \in Text

(* The lines read that say something of a key. *)
Told(key) == {k \in 1 .. read : file[k].key = key /\ Kept(file[k])}

(* The map has of every key what the last of these lines says. *)
ReadSoFar ==
  \A key \in Keys :
    \/ Told(key) = {} /\ config[key] = Word("absent")
    \/ \E k \in Told(key) : (\A j \in Told(key) : j <= k) /\ config[key] = file[k].value

(* A program that has started has read its file and accepted the values.   *)
StartedWith ==
  outcome = "started" =>
    /\ read = Len(file)
    /\ program = "switch" => values = SwitchValues
    /\ program \in {"server", "client"} => values = ChatValues
    /\ program = "server" => ServerStarts

(* The names that are selected. *)
Chosen == IF good THEN Among(typed.names, InterfaceNames) ELSE <<>>

(* What the dialogue of the switch has come to. *)
DialogueSoFar ==
  program = "switch" =>
    /\ outcome # "lifetime" =>
         lifetime \in Extracted(typed.lifetime) /\ good = IsInt(typed.lifetime)
    /\ outcome = "names" => Elements(interfaces) = InterfaceNames
    /\ outcome \in {"lifetime", "interfaces", "names"} => handles = <<>>
    /\ outcome = "opening" =>
         \E k \in 0 .. Len(Chosen) : /\ selected = SubSeq(Chosen, k + 1, Len(Chosen))
                                     /\ handles = AmongUpTo(Chosen, openable)[k]
    /\ outcome \in {"reading", "started"} =>
         handles # <<>> /\ handles = Among(Chosen, openable)

(* What the monitor holds, and whose name it goes by, at each of its steps. *)
MonitorSoFar ==
  /\ step \in {"find", "failed", "returned"} => held = {}
  /\ step \in {"choose", "walk", "open"} => held = {"list"}
  /\ step = "compile" => held = {"handle", "list"}
  /\ step = "filter" => held = {"handle", "list", "program"}
  /\ step = "loop" => held = {"handle"}
  /\ step \in {"find", "choose", "walk"} => opened = NoName
  /\ step = "walk" => argument = NoName /\ inum \in Extracted(number)

-----------------------------------------------------------------------------
(* Types *)

(* The variables of the programs that do not run have their first values. *)
LEMMA TypesInit ==
  ASSUME Init
  PROVE  Types
<1>0. Word("absent") \in Text
  BY DEF Text, Word
<1>1. /\ program \in Configured \cup {"monitor"}
      /\ outcome \in Dialogues \cup {"none", "reading", "started", "failed"}
      /\ outcome \in Dialogues => program = "switch"
      /\ program = "monitor" <=> outcome = "none"
  BY DEF Init, Configured, Dialogues
<1>2. file \in Seq(FileLine)
  <2>1. CASE program \notin Configured
    <3>1. file = <<>>
      BY <2>1 DEF Init, ConfigurationInit
    <3> QED
      BY <3>1
  <2>2. CASE program \in Configured
    <3>1. PICK n \in 0 .. MaxLines : file \in [1 .. n -> Lines[program]]
      BY <2>2, ConfigurationAssumption DEF Init, ConfigurationInit
    <3>2. Lines[program] \subseteq FileLine
      BY <2>2, ConfigurationAssumption DEF FileLine
    <3>3. n \in Nat /\ file \in [1 .. n -> FileLine]
      BY <3>1, <3>2, ConfigurationAssumption
    <3> QED
      BY <3>3
  <2> QED
    BY <2>1, <2>2
<1>3. read \in 0 .. Len(file)
  <2>1. read = 0
    BY DEF Init, ConfigurationInit
  <2> HIDE DEF FileLine
  <2> QED
    BY <1>2, <2>1
<1>4. config \in [Keys -> Text]
  BY <1>0 DEF Init, ConfigurationInit
<1>5. addresses \in Seq(Address) /\ typed \in [lifetime : Text, names : Seq(Names)]
  <2>2. CASE program = "switch"
    BY <2>2, StartupAssumption DEF Init, Address
  <2>3. CASE program # "switch"
    <3>1. addresses = <<>> /\ typed = NothingTyped
      BY <2>3 DEF Init
    <3> QED
      BY <1>0, <3>1 DEF NothingTyped
  <2> QED
    BY <2>2, <2>3
<1>6. devices \in Seq(Names) /\ Len(devices) < IntLimit
  <2>1. CASE program = "monitor"
    BY <2>1, StartupAssumption DEF Init
  <2>2. CASE program # "monitor"
    <3>1. devices = <<>> /\ 0 < IntLimit
      BY <2>2, ConfigurationAssumption DEF Init
    <3> QED
      BY <3>1
  <2> QED
    BY <2>1, <2>2
<1>7. argument \in Names \cup {NoName} /\ number \in Text
  BY <1>0, StartupAssumption DEF Init
<1> QED
  BY <1>1, <1>2, <1>3, <1>4, <1>5, <1>6, <1>7 DEF Types

(* The environment stays as it is. *)
LEMMA Environment ==
  ASSUME [Next]_vars
  PROVE  UNCHANGED <<program, file, addresses, openable, typed, devices, argument, number>>
<1> USE DEF configurationVars, dialogueVars, monitorVars
<1>1. CASE StartChatOrSwitch
  BY <1>1 DEF StartChatOrSwitch, ReadConfiguration, ReadLine, OpenFails, Configure, ConfigureWith,
     Dialogue, ReadLifetime, ReadLifetimeThen, GetAvailableInterfaces, SelectInterfaces,
     SelectFrom, OpenInterface, CheckHandles, GoOn
<1>2. CASE StartMonitor
  BY <1>2 DEF StartMonitor, Monitor!MonitorNext, Monitor!FindDevices, Monitor!AskNumber,
     Monitor!Walk, Monitor!WalkFor, Monitor!TakeArgument, Monitor!OpenLive, Monitor!Compile,
     Monitor!Acquire, Monitor!SetFilter, Monitor!LeaveLoop
<1>3. CASE Done \/ UNCHANGED vars
  BY <1>3 DEF Done, vars
<1> QED
  BY <1>1, <1>2, <1>3 DEF Next

(* A line of the file has a key and a value. *)
LEMMA LineTypes ==
  ASSUME Types
  PROVE  /\ Len(file) \in Nat /\ read \in 0 .. Len(file)
         /\ \A k \in 1 .. Len(file) : file[k].key \in Keys /\ file[k].value \in Text
<1>1. \A k \in 1 .. Len(file) : file[k] \in FileLine
  BY DEF Types
<1> QED
  BY <1>1 DEF Types, FileLine

(* Every step of any of the programs keeps the types. *)
LEMMA TypesNext ==
  ASSUME Types, [Next]_vars
  PROVE  Types'
<1>1. UNCHANGED <<program, file, addresses, openable, typed, devices, argument, number>>
  BY Environment
<1>2. /\ outcome' \in Dialogues \cup {"none", "reading", "started", "failed"}
      /\ outcome' \in Dialogues => program = "switch"
      /\ program = "monitor" <=> outcome' = "none"
  <2>1. CASE StartChatOrSwitch
    <3>1. CASE ReadConfiguration /\ UNCHANGED dialogueVars
      BY <2>1, <3>1 DEF Types, StartChatOrSwitch, Configured, Dialogues, ReadConfiguration,
         ReadLine, OpenFails, Configure, ConfigureWith
    <3>2. CASE Dialogue
      <4>1. outcome \in Dialogues
        BY <3>2 DEF Dialogue, Dialogues, ReadLifetime, ReadLifetimeThen, GetAvailableInterfaces,
           SelectInterfaces, SelectFrom, OpenInterface, CheckHandles
      <4>2. outcome' \in {"interfaces", "names", "opening", "reading", "failed"}
        BY <3>2 DEF Dialogue, ReadLifetime, ReadLifetimeThen, GetAvailableInterfaces,
           SelectInterfaces, SelectFrom, OpenInterface, CheckHandles, GoOn
      <4> QED
        BY <4>1, <4>2 DEF Types, Dialogues
    <3> QED
      BY <2>1, <3>1, <3>2 DEF StartChatOrSwitch
  <2>2. CASE StartMonitor
    BY <2>2 DEF Types, StartMonitor, configurationVars
  <2>3. CASE Done \/ UNCHANGED vars
    BY <2>3 DEF Types, Done, vars, configurationVars
  <2> QED
    BY <2>1, <2>2, <2>3 DEF Next
<1>3. read' \in 0 .. Len(file) /\ config' \in [Keys -> Text]
  <2>1. CASE ReadLine
    <3>1. read + 1 \in 1 .. Len(file) /\ read' = read + 1
      BY <2>1, LineTypes DEF ReadLine
    <3>2. file[read + 1].key \in Keys /\ file[read + 1].value \in Text
      BY <3>1, LineTypes
    <3>3. config' = config
            \/ config' = [config EXCEPT ![file[read + 1].key] = file[read + 1].value]
      BY <2>1 DEF ReadLine
    <3>4. config' \in [Keys -> Text]
      BY <3>2, <3>3 DEF Types
    <3> QED
      BY <3>1, <3>4, LineTypes
  <2>2. CASE UNCHANGED <<read, config>>
    BY <2>2 DEF Types
  <2>3. ReadLine \/ UNCHANGED <<read, config>>
    BY DEF Next, vars, StartChatOrSwitch, ReadConfiguration, OpenFails, Configure, ConfigureWith,
       Dialogue, ReadLifetime, ReadLifetimeThen, GetAvailableInterfaces, SelectInterfaces,
       SelectFrom, OpenInterface, CheckHandles, GoOn, StartMonitor, Done, configurationVars
  <2> QED
    BY <2>1, <2>2, <2>3
<1> QED
  BY <1>1, <1>2, <1>3 DEF Types

-----------------------------------------------------------------------------
(* The configuration *)

(* Of a key there is a last line that says something, or none. *)
LEMMA ToldTypes ==
  ASSUME Types
  PROVE  \A key : Told(key) \subseteq 1 .. Len(file)
<1>1. 1 .. read \subseteq 1 .. Len(file)
  BY LineTypes
<1> QED
  BY <1>1 DEF Told

(* A line that is read counts instead of an earlier one with its key. *)
LEMMA ReadSoFarNext ==
  ASSUME Types, ReadSoFar, [Next]_vars
  PROVE  ReadSoFar'
<1>1. program' = program /\ file' = file
  BY Environment
<1>2. CASE ReadLine
  <2> DEFINE line == file[read + 1]
  <2>1. read' = read + 1 /\ read + 1 \in 1 .. Len(file) /\ read \in Nat
    BY <1>2, LineTypes DEF ReadLine
  <2>2. line.key \in Keys
    BY <2>1, LineTypes
  <2>3. config' = IF Kept(line) THEN [config EXCEPT ![line.key] = line.value] ELSE config
    BY <1>2 DEF ReadLine
  <2>4. config \in [Keys -> Text]
    BY DEF Types
  <2>5. ASSUME NEW key \in Keys
        PROVE  Told(key)' = IF line.key = key /\ Kept(line) THEN Told(key) \cup {read + 1}
                            ELSE Told(key)
    <3>1. \A k : k \in 1 .. read + 1 <=> k = read + 1 \/ k \in 1 .. read
      BY <2>1
    <3>2. \A l : Kept(l)' = Kept(l)
      BY <1>1 DEF Kept, KeptByChat, KeptBySwitch
    <3>3. Told(key)' = {k \in 1 .. read + 1 : file[k].key = key /\ Kept(file[k])}
      BY <1>1, <2>1, <3>2 DEF Told
    <3> QED
      BY <3>1, <3>3 DEF Told
  <2>6. ASSUME NEW key \in Keys
        PROVE  \/ Told(key)' = {} /\ config'[key] = Word("absent")
               \/ \E k \in Told(key)' :
                    (\A j \in Told(key)' : j <= k) /\ config'[key] = file[k].value
    <3>1. CASE line.key = key /\ Kept(line)
      <4>1. Told(key)' = Told(key) \cup {read + 1}
        BY <2>5, <3>1
      <4>2. config'[key] = line.value
        BY <2>2, <2>3, <2>4, <3>1
      <4>3. \A j \in Told(key) : j <= read + 1
        BY <2>1 DEF Told
      <4> QED
        BY <2>1, <4>1, <4>2, <4>3
    <3>2. CASE ~(line.key = key /\ Kept(line))
      <4>1. Told(key)' = Told(key)
        BY <2>5, <3>2
      <4>2. config'[key] = config[key]
        BY <2>2, <2>3, <2>4, <3>2
      <4> QED
        BY <4>1, <4>2 DEF ReadSoFar
    <3> QED
      BY <3>1, <3>2
  <2> QED
    BY <1>1, <2>6 DEF ReadSoFar
<1>3. CASE UNCHANGED <<read, config>>
  <2>1. \A l : Kept(l)' = Kept(l)
    BY <1>1 DEF Kept, KeptByChat, KeptBySwitch
  <2>2. \A key : Told(key)' = Told(key)
    BY <1>1, <1>3, <2>1 DEF Told
  <2> QED
    BY <1>1, <1>3, <2>2 DEF ReadSoFar
<1>4. ReadLine \/ UNCHANGED <<read, config>>
  BY DEF Next, vars, StartChatOrSwitch, ReadConfiguration, OpenFails, Configure, ConfigureWith,
     Dialogue, ReadLifetime, ReadLifetimeThen, GetAvailableInterfaces, SelectInterfaces,
     SelectFrom, OpenInterface, CheckHandles, GoOn, StartMonitor, Done, configurationVars
<1> QED
  BY <1>2, <1>3, <1>4

(* A program starts only with values that it has accepted. *)
LEMMA StartedWithNext ==
  ASSUME Types, StartedWith, [Next]_vars
  PROVE  StartedWith'
<1> SUFFICES ASSUME outcome' = "started"
             PROVE  /\ read' = Len(file)
                    /\ program = "switch" => values' = SwitchValues'
                    /\ program \in {"server", "client"} => values' = ChatValues'
                    /\ program = "server" => ServerStarts'
  BY Environment DEF StartedWith
<1>1. CASE Configure
  <2>1. config' = config /\ read' = read /\ read = Len(file)
    BY <1>1 DEF Configure, ConfigureWith
  <2>2. /\ program = "switch" => values' = SwitchValues
        /\ program \in {"server", "client"} => values' = ChatValues
        /\ program = "server" => ServerStarts
    BY <1>1 DEF Configure, ConfigureWith
  <2> QED
    BY <2>1, <2>2 DEF SwitchValues, ChatValues, ServerStarts, ClientStarts
<1>2. CASE UNCHANGED <<outcome, read, config, values>>
  BY <1>2 DEF StartedWith, SwitchValues, ChatValues, ServerStarts, ClientStarts
<1>3. Configure \/ UNCHANGED <<outcome, read, config, values>>
  <2>1. CASE StartChatOrSwitch
    BY <2>1 DEF StartChatOrSwitch, ReadConfiguration, ReadLine, OpenFails, Dialogue, ReadLifetime,
       ReadLifetimeThen, GetAvailableInterfaces, SelectInterfaces, SelectFrom, OpenInterface,
       CheckHandles, GoOn
  <2>2. CASE StartMonitor \/ Done \/ UNCHANGED vars
    BY <2>2 DEF StartMonitor, Done, vars, configurationVars
  <2> QED
    BY <2>1, <2>2 DEF Next
<1> QED
  BY <1>1, <1>2, <1>3

(* Once the file is read, the map has what the whole file says. *)
LEMMA MapIsFile ==
  ASSUME Types, ReadSoFar, read = Len(file), program \in Configured, NEW key \in Keys
  PROVE  config[key] = Says(key)
<1> DEFINE told == {k \in DOMAIN file :
                      /\ file[k].key = key /\ file[k].delimiter /\ ~file[k].comment
                      /\ file[k].value = Word("") => program = "switch"}
<1>1. told = Told(key)
  <2>1. DOMAIN file = 1 .. read
    BY DEF Types
  <2>2. \A l : Kept(l) <=> l.delimiter /\ ~l.comment /\ (l.value = Word("") => program = "switch")
    BY DEF Kept, KeptByChat, KeptBySwitch
  <2> QED
    BY <2>1, <2>2 DEF Told
<1>2. Says(key) = IF told = {} THEN Word("absent")
                  ELSE file[CHOOSE k \in told : \A j \in told : j <= k].value
  BY DEF Says
<1> HIDE DEF told
<1>3. CASE told = {}
  BY <1>1, <1>2, <1>3 DEF ReadSoFar
<1>4. CASE told # {}
  <2>1. PICK k \in told : (\A j \in told : j <= k) /\ config[key] = file[k].value
    BY <1>1, <1>4 DEF ReadSoFar
  <2>2. told \subseteq Nat
    BY <1>1, LineTypes, ToldTypes
  <2>3. \A i \in told : (\A j \in told : j <= i) => i = k
    BY <2>1, <2>2
  <2>4. (CHOOSE i \in told : \A j \in told : j <= i) = k
    BY <2>1, <2>3
  <2> QED
    BY <1>2, <1>4, <2>1, <2>4
<1> QED
  BY <1>3, <1>4

(* A text that is not a number is its word. *)
LEMMA WordIs ==
  ASSUME NEW text \in Text, NEW w, w # "number"
  PROVE  text.word = w <=> text = Word(w)
<1>1. text = [word |-> text.word, n |-> text.n]
  BY DEF Text
<1>2. text.word = w => text.n = 0
  BY DEF Text
<1>3. text.word = w => text = Word(w)
  BY <1>1, <1>2 DEF Word
<1>4. Word(w).word = w
  BY DEF Word
<1> QED
  BY <1>3, <1>4

(* What a program that has started runs with. *)
LEMMA StartedAsFileSays ==
  ASSUME Types, ReadSoFar, StartedWith
  PROVE  StartsAsFileSays
<1> SUFFICES ASSUME outcome = "started"
             PROVE  IF program = "switch"
                      THEN values.is_active <=> Says("enabled") \in {Word("true"), Number(1)}
                      ELSE /\ values.protocol = Says("protocol").word
                           /\ values.port \in 0 .. PortBase - 1
                           /\ ValidPort(Says("port")) => values.port = Says("port").n
                           /\ program = "server" => values.port # 0
  BY DEF StartsAsFileSays
<1>1. read = Len(file) /\ program \in Configured
  BY DEF Types, StartedWith
<1>2. \A key \in Keys : config[key] = Says(key) /\ Says(key) \in Text
  BY <1>1, MapIsFile DEF Types
<1>3. PortBase \in Nat \ {0}
  BY ConfigurationAssumption
<1>4. CASE program = "switch"
  <2>1. values.is_active = GetBool(Says("enabled"))
    BY <1>2, <1>4 DEF StartedWith, SwitchValues, NoValues, Keys
  <2>2. Says("enabled") \in Text
    BY <1>2 DEF Keys
  <2>3. Says("enabled").word = "true" <=> Says("enabled") = Word("true")
    BY <2>2, WordIs
  <2> QED
    BY <1>4, <2>1, <2>3 DEF GetBool
<1>5. CASE program # "switch"
  <2> DEFINE p == Says("port")
  <2>1. program \in {"server", "client"}
    BY <1>1, <1>5 DEF Configured
  <2>2. config["port"] = p /\ p \in Text /\ config["protocol"] = Says("protocol")
    BY <1>2 DEF Keys
  <2>3. values = ChatValues /\ (program = "server" => ServerStarts)
    BY <2>1 DEF StartedWith
  <2>4. values.port = p.n % PortBase /\ values.protocol = Says("protocol").word
    BY <2>2, <2>3 DEF ChatValues, NoValues, Narrowed
  <2>5. p.n \in Int
    BY <2>2 DEF Text
  <2>6. program = "server" => p.n % PortBase # 0
    BY <2>2, <2>3 DEF ServerStarts, PortAccepted, Narrowed
  <2> HIDE DEF p
  <2>7. p.n % PortBase \in 0 .. PortBase - 1
    BY <1>3, <2>5
  <2>8. ValidPort(p) => p.n % PortBase = p.n
    <3>1. ASSUME p.n \in 1 .. PortBase - 1 PROVE p.n % PortBase = p.n
      BY <1>3, <2>5, <3>1
    <3> QED
      BY <3>1 DEF ValidPort
  <2> QED
    BY <1>5, <2>4, <2>6, <2>7, <2>8 DEF p
<1> QED
  BY <1>4, <1>5

(* A program that starts runs with what its file says last, line for line, *)
(* for files of any length and ports of any width.                         *)
THEOREM ProgramsStartAsFileSays == Spec => []StartsAsFileSays
<1>1. Init => Types /\ ReadSoFar /\ StartedWith
  <2>1. ASSUME Init PROVE ReadSoFar
    <3>1. read = 0 /\ config = [k \in Keys |-> Word("absent")]
      BY <2>1 DEF Init, ConfigurationInit
    <3> QED
      BY <3>1 DEF ReadSoFar, Told
  <2>2. ASSUME Init PROVE StartedWith
    BY <2>2 DEF Init, StartedWith
  <2> QED
    BY <2>1, <2>2, TypesInit
<1>2. Types /\ ReadSoFar /\ StartedWith /\ [Next]_vars => (Types /\ ReadSoFar /\ StartedWith)'
  BY TypesNext, ReadSoFarNext, StartedWithNext
<1>3. Types /\ ReadSoFar /\ StartedWith => StartsAsFileSays
  BY StartedAsFileSays
<1> QED
  BY <1>1, <1>2, <1>3, PTL DEF Spec

-----------------------------------------------------------------------------
(* The dialogue of the switch *)

(* What is chosen, now and in the next state.                              *)
LEMMA ChosenTypes ==
  ASSUME Types
  PROVE  Chosen \in Seq(Names) /\ Len(Chosen) \in Nat /\ typed.names \in Seq(Names)
<1>1. typed.names \in Seq(Names)
  BY DEF Types
<1>2. Among(typed.names, InterfaceNames) \in Seq(Names)
  BY <1>1, AmongType
<1>3. Chosen \in Seq(Names)
  BY <1>2 DEF Chosen
<1> QED
  BY <1>1, <1>3

(* What is to be opened depends on what stays as it is. *)
LEMMA ChosenSame ==
  ASSUME UNCHANGED <<good, typed, addresses>>
  PROVE  Chosen' = Chosen /\ InterfaceNames' = InterfaceNames
<1>1. InterfaceNames' = InterfaceNames
  BY DEF InterfaceNames
<1> QED
  BY <1>1 DEF Chosen, Among, AmongUpTo

(* The names that are found are selected in the order they were typed in. *)
LEMMA SelectKeeps ==
  ASSUME Types, DialogueSoFar, program = "switch", SelectInterfaces
  PROVE  selected' = Chosen
<1>1. outcome = "names" /\ Elements(interfaces) = InterfaceNames
  BY DEF SelectInterfaces, SelectFrom, DialogueSoFar
<1>2. selected' = Among(IF good THEN typed.names ELSE <<>>, Elements(interfaces))
  BY DEF SelectInterfaces, SelectFrom, Elements
<1>3. CASE good
  BY <1>1, <1>2, <1>3 DEF Chosen
<1>4. CASE ~good
  <2> DEFINE none == <<>>
  <2>1. none \in Seq(Names) /\ Len(none) = 0
    OBVIOUS
  <2> HIDE DEF none
  <2>2. Among(none, InterfaceNames) = <<>>
    BY <2>1, AmongEmpty
  <2> QED
    BY <1>1, <1>2, <1>4, <2>2 DEF Chosen, none
<1> QED
  BY <1>3, <1>4

(* pcap_open_live for the next name leaves one name less to be opened.     *)
LEMMA OpenKeeps ==
  ASSUME Types, OpenInterface,
         NEW c \in Seq(Names), NEW k \in 0 .. Len(c),
         selected = SubSeq(c, k + 1, Len(c)), handles = AmongUpTo(c, openable)[k]
  PROVE  /\ k + 1 \in 0 .. Len(c)
         /\ selected' = SubSeq(c, (k + 1) + 1, Len(c))
         /\ handles' = AmongUpTo(c, openable)[k + 1]
<1> DEFINE u == AmongUpTo(c, openable)
<1>1. /\ selected # <<>> /\ selected' = Tail(selected)
      /\ handles' = IF Head(selected) \in openable THEN Append(handles, Head(selected)) ELSE handles
  BY DEF OpenInterface
<1>2. k < Len(c) /\ Len(c) \in Nat /\ k \in Nat
  BY <1>1
<1>3. Head(selected) = c[k + 1] /\ Tail(selected) = SubSeq(c, (k + 1) + 1, Len(c))
  BY <1>2
<1>4. u[k + 1] = IF c[k + 1] \in openable THEN Append(u[k], c[k + 1]) ELSE u[k]
  <2> DEFINE j == k + 1
  <2>1. j \in 1 .. Len(c) /\ j - 1 = k
    BY <1>2
  <2> HIDE DEF j
  <2>2. u[j] = IF c[j] \in openable THEN Append(u[j - 1], c[j]) ELSE u[j - 1]
    BY <2>1, AmongUpToIs
  <2> QED
    BY <2>1, <2>2 DEF j
<1> QED
  BY <1>1, <1>2, <1>3, <1>4

(* Every step of the dialogue leads to what is due at the next one. *)
LEMMA DialogueStep ==
  ASSUME Types, DialogueSoFar, Dialogue, program = "switch"
  PROVE  DialogueSoFar'
<1>0. UNCHANGED <<program, addresses, openable, typed>>
  BY DEF Dialogue, ReadLifetime, ReadLifetimeThen, GetAvailableInterfaces, SelectInterfaces,
     SelectFrom, OpenInterface, CheckHandles, GoOn, dialogueVars
<1>1. CASE ReadLifetime
  BY <1>0, <1>1 DEF ReadLifetime, ReadLifetimeThen, GoOn, DialogueSoFar
<1>2. CASE GetAvailableInterfaces
  <2>1. outcome = "interfaces" /\ UNCHANGED <<typed, good, lifetime, handles>>
    BY <1>2 DEF GetAvailableInterfaces
  <2>2. outcome' \in {"failed", "names"} /\ (outcome' = "names" => interfaces' # <<>>)
    BY <1>2 DEF GetAvailableInterfaces, GoOn
  <2>3. interfaces' \in {<<>>, NamesUpTo[Len(addresses)]}
    BY <1>2 DEF GetAvailableInterfaces
  <2>4. outcome' = "names" => Elements(interfaces') = InterfaceNames
    BY <2>2, <2>3, NamesAreOfInterfaces DEF Types
  <2>5. InterfaceNames' = InterfaceNames
    BY <1>0 DEF InterfaceNames
  <2> QED
    BY <1>0, <2>1, <2>2, <2>4, <2>5 DEF DialogueSoFar, Elements
<1>3. CASE SelectInterfaces
  <2>1. outcome = "names" /\ outcome' = "opening" /\ UNCHANGED <<typed, good, lifetime, handles>>
    BY <1>3 DEF SelectInterfaces, SelectFrom, GoOn
  <2>2. Chosen' = Chosen
    BY <1>0, <2>1, ChosenSame
  <2>3. Len(Chosen) \in Nat /\ selected' = SubSeq(Chosen, 0 + 1, Len(Chosen))
    BY <1>3, SelectKeeps, ChosenTypes
  <2>4. handles' = AmongUpTo(Chosen, openable)[0]
    BY <2>1, AmongUpToIs, ChosenTypes DEF DialogueSoFar
  <2>5. 0 \in 0 .. Len(Chosen)
    BY <2>3
  <2>6. \E k \in 0 .. Len(Chosen') : /\ selected' = SubSeq(Chosen', k + 1, Len(Chosen'))
                                     /\ handles' = AmongUpTo(Chosen', openable')[k]
    BY <1>0, <2>2, <2>3, <2>4, <2>5
  <2> QED
    BY <1>0, <2>1, <2>6 DEF DialogueSoFar
<1>4. CASE OpenInterface
  <2>1. outcome = "opening" /\ outcome' = "opening" /\ UNCHANGED <<typed, good, lifetime>>
    BY <1>4 DEF OpenInterface, GoOn
  <2>2. Chosen' = Chosen
    BY <1>0, <2>1, ChosenSame
  <2>3. PICK k \in 0 .. Len(Chosen) : /\ selected = SubSeq(Chosen, k + 1, Len(Chosen))
                                      /\ handles = AmongUpTo(Chosen, openable)[k]
    BY <2>1 DEF DialogueSoFar
  <2>4. /\ k + 1 \in 0 .. Len(Chosen)
        /\ selected' = SubSeq(Chosen, (k + 1) + 1, Len(Chosen))
        /\ handles' = AmongUpTo(Chosen, openable)[k + 1]
    BY <1>4, <2>3, ChosenTypes, OpenKeeps
  <2>5. \E j \in 0 .. Len(Chosen') : /\ selected' = SubSeq(Chosen', j + 1, Len(Chosen'))
                                     /\ handles' = AmongUpTo(Chosen', openable')[j]
    BY <1>0, <2>2, <2>4
  <2> QED
    BY <1>0, <2>1, <2>5 DEF DialogueSoFar
<1>5. CASE CheckHandles
  <2>1. /\ outcome = "opening" /\ selected = <<>> /\ UNCHANGED dialogueVars
        /\ outcome' = IF handles # <<>> THEN "reading" ELSE "failed"
    BY <1>5 DEF CheckHandles, GoOn
  <2>2. Chosen' = Chosen
    BY <2>1, ChosenSame DEF dialogueVars
  <2>3. PICK k \in 0 .. Len(Chosen) : /\ selected = SubSeq(Chosen, k + 1, Len(Chosen))
                                      /\ handles = AmongUpTo(Chosen, openable)[k]
    BY <2>1 DEF DialogueSoFar
  <2>4. k = Len(Chosen)
    <3>0. Len(selected) = 0
      BY <2>1
    <3>1. Len(SubSeq(Chosen, k + 1, Len(Chosen))) = 0
      BY <2>3, <3>0
    <3> QED
      BY <3>1, ChosenTypes
  <2>5. handles = Among(Chosen, openable)
    BY <2>3, <2>4 DEF Among
  <2>6. handles' = Among(Chosen', openable')
    BY <2>1, <2>2, <2>5 DEF dialogueVars
  <2> QED
    BY <2>1, <2>6, <1>0 DEF DialogueSoFar, dialogueVars
<1> QED
  BY <1>1, <1>2, <1>3, <1>4, <1>5 DEF Dialogue

(* Steps of other programs do not change the dialogue. *)
LEMMA DialogueSoFarNext ==
  ASSUME Types, DialogueSoFar, [Next]_vars
  PROVE  DialogueSoFar'
<1>0. program' = program
  BY Environment
<1>1. CASE program # "switch"
  BY <1>0, <1>1 DEF DialogueSoFar
<1>2. CASE program = "switch"
  <2>1. CASE Dialogue
    BY <1>2, <2>1, DialogueStep
  <2>2. CASE ReadConfiguration /\ UNCHANGED dialogueVars
    <3>1. outcome = "reading" /\ outcome' \in {"reading", "started", "failed"}
      BY <2>2 DEF ReadConfiguration, ReadLine, OpenFails, Configure, ConfigureWith
    <3>2. UNCHANGED <<handles, openable, typed, lifetime, good>> /\ Chosen' = Chosen
      BY <2>2, ChosenSame DEF dialogueVars
    <3>3. Among(Chosen, openable)' = Among(Chosen, openable)
      BY <3>2
    <3> QED
      BY <1>0, <3>1, <3>2, <3>3 DEF DialogueSoFar
  <2>3. CASE UNCHANGED vars
    <3>1. UNCHANGED <<outcome, lifetime, good, typed, interfaces, selected, handles, openable>>
      BY <2>3 DEF vars, configurationVars, dialogueVars
    <3>2. Chosen' = Chosen /\ InterfaceNames' = InterfaceNames
      BY <2>3, ChosenSame DEF vars, dialogueVars
    <3> QED
      BY <1>0, <3>1, <3>2 DEF DialogueSoFar, Elements
  <2>4. Dialogue \/ (ReadConfiguration /\ UNCHANGED dialogueVars) \/ UNCHANGED vars
    BY <1>2 DEF Next, StartChatOrSwitch, StartMonitor, Done
  <2> QED
    BY <2>1, <2>2, <2>3, <2>4
<1> QED
  BY <1>1, <1>2

(* Only with the lifetime that was typed does the dialogue lead to a port. *)
LEMMA StartedAsTyped ==
  ASSUME Types, DialogueSoFar
  PROVE  SwitchStartsAsTyped
<1> SUFFICES ASSUME program = "switch", outcome = "started"
             PROVE  /\ typed.lifetime = Number(lifetime)
                    /\ handles # <<>>
                    /\ handles = Among(typed.names, InterfaceNames \cap openable)
  BY DEF SwitchStartsAsTyped
<1>1. /\ lifetime \in Extracted(typed.lifetime) /\ good = IsInt(typed.lifetime)
      /\ handles # <<>> /\ handles = Among(Chosen, openable)
  BY DEF DialogueSoFar
<1>2. typed.lifetime \in Text /\ typed.names \in Seq(Names)
  BY DEF Types
<1>3. good
  <2> SUFFICES ASSUME ~good PROVE FALSE
    OBVIOUS
  <2> DEFINE none == <<>>
  <2>1. Chosen = none /\ none \in Seq(Names) /\ Len(none) = 0
    BY DEF Chosen
  <2>2. handles # none
    BY <1>1
  <2> HIDE DEF none
  <2>3. Among(none, openable) = <<>>
    BY <2>1, AmongEmpty
  <2> QED
    BY <1>1, <2>1, <2>2, <2>3 DEF none
<1>4. IsInt(typed.lifetime) /\ lifetime = typed.lifetime.n
  BY <1>1, <1>3 DEF Extracted
<1>5. typed.lifetime = Number(lifetime)
  <2>1. typed.lifetime = [word |-> typed.lifetime.word, n |-> typed.lifetime.n]
    BY <1>2 DEF Text
  <2> QED
    BY <1>4, <2>1 DEF IsInt, Number
<1>6. Chosen = Among(typed.names, InterfaceNames)
  BY <1>3 DEF Chosen
<1>7. handles = Among(typed.names, InterfaceNames \cap openable)
  BY <1>1, <1>2, <1>6, AmongTwice
<1> QED
  BY <1>1, <1>5, <1>7

(* A switch that starts ages its table with the lifetime that was typed,   *)
(* and its ports are, in the order typed, the interfaces that were named   *)
(* and could be opened.                                                    *)
THEOREM SwitchStartsWithWhatWasTyped == Spec => []SwitchStartsAsTyped
<1>1. Init => Types /\ DialogueSoFar
  <2>1. ASSUME Init, program = "switch" PROVE outcome = "lifetime" /\ handles = <<>>
    BY <2>1 DEF Init, DialogueInit
  <2>2. ASSUME Init PROVE DialogueSoFar
    BY <2>1, <2>2 DEF DialogueSoFar
  <2> QED
    BY <2>2, TypesInit
<1>2. Types /\ DialogueSoFar /\ [Next]_vars => (Types /\ DialogueSoFar)'
  BY TypesNext, DialogueSoFarNext
<1>3. Types /\ DialogueSoFar => SwitchStartsAsTyped
  BY StartedAsTyped
<1> QED
  BY <1>1, <1>2, <1>3, PTL DEF Spec

-----------------------------------------------------------------------------
(* The monitor *)

(* Every step of the monitor acquires or releases what it should. *)
LEMMA MonitorSoFarNext ==
  ASSUME MonitorSoFar, [Next]_vars
  PROVE  MonitorSoFar'
<1>0. UNCHANGED <<devices, argument, number>>
  BY Environment
<1>1. CASE StartMonitor
  <2>1. CASE Monitor!FindDevices
    BY <1>0, <2>1 DEF MonitorSoFar, Monitor!FindDevices
  <2>2. CASE Monitor!AskNumber
    BY <1>0, <2>2 DEF MonitorSoFar, Monitor!AskNumber, Monitor!Extracted, Extracted, Monitor!IsInt,
       IsInt, Monitor!Ints, Ints
  <2>3. CASE Monitor!Walk
    BY <1>0, <2>3 DEF MonitorSoFar, Monitor!Walk, Monitor!WalkFor
  <2>4. CASE Monitor!TakeArgument
    BY <1>0, <2>4 DEF MonitorSoFar, Monitor!TakeArgument
  <2>5. CASE Monitor!OpenLive
    BY <1>0, <2>5 DEF MonitorSoFar, Monitor!OpenLive, Monitor!Acquire
  <2>6. CASE Monitor!Compile
    BY <1>0, <2>6 DEF MonitorSoFar, Monitor!Compile, Monitor!Acquire
  <2>7. CASE Monitor!SetFilter
    BY <1>0, <2>7 DEF MonitorSoFar, Monitor!SetFilter
  <2>8. CASE Monitor!LeaveLoop
    BY <1>0, <2>8 DEF MonitorSoFar, Monitor!LeaveLoop
  <2> QED
    BY <1>1, <2>1, <2>2, <2>3, <2>4, <2>5, <2>6, <2>7, <2>8 DEF StartMonitor, Monitor!MonitorNext
<1>2. CASE StartChatOrSwitch \/ Done \/ UNCHANGED vars
  BY <1>2 DEF MonitorSoFar, StartChatOrSwitch, Done, vars, monitorVars
<1> QED
  BY <1>1, <1>2 DEF Next

(* However the monitor gets out of its main, it has released what it       *)
(* acquired.                                                               *)
THEOREM MonitorAlwaysReleases == Spec => []MonitorReleasesAll
<1>1. Init => MonitorSoFar
  BY DEF Init, MonitorSoFar, Monitor!MonitorInit
<1>2. MonitorSoFar /\ [Next]_vars => MonitorSoFar'
  BY MonitorSoFarNext
<1>3. MonitorSoFar => MonitorReleasesAll
  BY DEF MonitorSoFar, MonitorReleasesAll
<1> QED
  BY <1>1, <1>2, <1>3, PTL DEF Spec

(* A number that stands for an interface of the list is an int, and the    *)
(* walk for it makes one turn less.                                        *)
LEMMA WalkIsToNumber ==
  ASSUME Types, MonitorSoFar, Monitor!Walk,
         number.word = "number", number.n \in DOMAIN devices
  PROVE  opened' = devices[number.n] /\ step' = "open"
<1>1. step = "walk" /\ inum \in Extracted(number)
  BY DEF MonitorSoFar, Monitor!Walk, Monitor!WalkFor
<1>2. number.n \in 1 .. Len(devices) /\ Len(devices) \in Nat /\ Len(devices) < IntLimit
  BY DEF Types
<1>3. IntLimit \in Nat
  BY ConfigurationAssumption
<1>4. inum = number.n
  BY <1>1, <1>2, <1>3 DEF Extracted, IsInt, Ints
<1>5. PICK turns \in Monitor!Turns(inum) : Monitor!WalkFor(turns)
  BY DEF Monitor!Walk
<1>6. turns = number.n - 1
  BY <1>2, <1>3, <1>4, <1>5 DEF Monitor!Turns
<1>7. (IF turns > 0 THEN turns + 1 ELSE 1) = number.n
  BY <1>2, <1>6
<1>8. ~(number.n > Len(devices))
  BY <1>2
<1> QED
  BY <1>5, <1>7, <1>8 DEF Monitor!WalkFor

(* The walk along the list opens the interface with the number typed. *)
LEMMA OpensChoiceNext ==
  ASSUME Types, MonitorSoFar, MonitorOpensChoice, [Next]_vars
  PROVE  MonitorOpensChoice'
<1> DEFINE listed == number.word = "number" /\ number.n \in DOMAIN devices
<1>0. UNCHANGED <<devices, argument, number>>
  BY Environment
<1> SUFFICES /\ opened' # NoName /\ argument # NoName => opened' = argument
             /\ opened' # NoName /\ argument = NoName /\ listed => opened' = devices[number.n]
             /\ step' = "undefined" => argument = NoName /\ ~listed
  BY <1>0 DEF MonitorOpensChoice
<1>1. /\ opened # NoName /\ argument # NoName => opened = argument
      /\ opened # NoName /\ argument = NoName /\ listed => opened = devices[number.n]
      /\ step = "undefined" => argument = NoName /\ ~listed
  BY DEF MonitorOpensChoice
<1>2. CASE StartMonitor
  <2>1. CASE Monitor!FindDevices \/ Monitor!AskNumber \/ Monitor!SetFilter \/ Monitor!LeaveLoop
    <3>1. opened' = opened /\ step' # "undefined"
      BY <2>1 DEF Monitor!FindDevices, Monitor!AskNumber, Monitor!SetFilter, Monitor!LeaveLoop
    <3> QED
      BY <1>1, <3>1
  <2>2. CASE Monitor!Walk
    <3>1. argument = NoName
      BY <2>2 DEF MonitorSoFar, Monitor!Walk, Monitor!WalkFor
    <3>2. listed => opened' = devices[number.n] /\ step' = "open"
      BY <2>2, WalkIsToNumber
    <3> QED
      BY <3>1, <3>2
  <2>3. CASE Monitor!TakeArgument
    BY <2>3 DEF Monitor!TakeArgument
  <2>4. CASE Monitor!OpenLive \/ Monitor!Compile
    <3>1. opened' = opened /\ step' # "undefined"
      BY <2>4 DEF MonitorSoFar, Monitor!OpenLive, Monitor!Compile, Monitor!Acquire
    <3> QED
      BY <1>1, <3>1
  <2> QED
    BY <1>2, <2>1, <2>2, <2>3, <2>4 DEF StartMonitor, Monitor!MonitorNext
<1>3. CASE StartChatOrSwitch \/ Done \/ UNCHANGED vars
  <2>1. opened' = opened /\ step' = step
    BY <1>3 DEF StartChatOrSwitch, Done, vars, monitorVars
  <2> QED
    BY <1>1, <2>1
<1> QED
  BY <1>2, <1>3 DEF Next

(* The monitor opens the interface it was told, by name or by number, and  *)
(* walks off its list only for a number that stands for none.              *)
THEOREM MonitorOpensWhatItWasTold == Spec => []MonitorOpensChoice
<1>1. Init => Types /\ MonitorSoFar /\ MonitorOpensChoice
  <2>1. ASSUME Init PROVE opened = NoName /\ step = "find"
    BY <2>1 DEF Init, Monitor!MonitorInit
  <2>2. ASSUME Init PROVE MonitorOpensChoice
    BY <2>1, <2>2 DEF MonitorOpensChoice
  <2>3. Init => MonitorSoFar
    BY DEF Init, MonitorSoFar, Monitor!MonitorInit
  <2> QED
    BY <2>2, <2>3, TypesInit
<1>2. Types /\ MonitorSoFar /\ MonitorOpensChoice /\ [Next]_vars
        => (Types /\ MonitorSoFar /\ MonitorOpensChoice)'
  BY TypesNext, MonitorSoFarNext, OpensChoiceNext
<1> QED
  BY <1>1, <1>2, PTL DEF Spec
=============================================================================
