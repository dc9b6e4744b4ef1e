----------------------------- MODULE MCPacketPath -----------------------------
(***************************************************************************)
(* Datagrams for TLC, with bytes to the base 4: IP headers with and        *)
(* without options, odd and even lengths, and padding; the old checksums   *)
(* are arbitrary.                                                          *)
(***************************************************************************)
EXTENDS PacketPathProperties

Options == {<<>>, <<0, 1>>, <<3, 3>>, <<3, 3, 3, 3>>}
Payloads == UNION {[1 .. n -> {0, 3}] : n \in 0 .. 3} \cup {<<1, 2, 1>>, <<3, 3, 3, 3>>}
MinFrame == 14

(* A packet of len bytes, padded; `missing' bytes of it are not captured. *)
Packet(ip, data, proto, first, header, missing) ==
  LET len == Len(ip \o data)
      size == IF len < MinFrame THEN MinFrame ELSE len
      frame == ip \o data \o [k \in 1 .. size - len |-> 1]
  IN [bytes |-> SubSeq(frame, 1, size - missing), size |-> size, hlen |-> Len(ip), len |-> len,
      proto |-> proto, target |-> TRUE, first |-> first, header |-> header]

Icmp(type, code, payload, ip, missing) ==
  Packet(ip, <<type, code, 2, 1>> \o payload, "icmp", TRUE,
    [kind |-> "icmp", first |-> type, second |-> code, size |-> Len(payload)], missing)

Untargeted(p) == [p EXCEPT !.target = FALSE]

Replies ==
  {d \in {<<Icmp(0, code, payload, word \o old \o options, 0)>> :
            word \in {<<0, 0>>, <<1, 0>>, <<3, 3>>}, old \in {<<0, 0>>, <<2, 1>>},
            options \in Options, code \in {0, 1}, payload \in Payloads} :
     d[1].len < WordBase}

Truncated == {<<Icmp(0, 0, payload, <<1, 2, 0, 1>>, 1)>> : payload \in Payloads}

Fragmented ==
  {<<Icmp(type, 0, first, <<1, 2, 0, 0>>, 0),
     Packet(<<1, 0, 2, 2>> \o options, rest, "icmp", FALSE, NoHeader, 0)>> :
       type \in {0, 1}, options \in Options, first \in {<<>>, <<0, 2>>, <<2, 1>>},
       rest \in [1 .. 2 -> {0, 2}] \cup [1 .. 4 -> {0, 1, 2}]}

InThree ==
  {<<Icmp(0, 0, <<>>, <<1, 2, 0, 0>>, 0)>>
     \o [k \in 1 .. 2 |-> Packet(<<1, 0, 2, 2>>, rest[k], "icmp", FALSE, NoHeader, 0)] :
       rest \in [1 .. 2 -> {<<1, 1>>, <<0, 2>>, <<1, 0, 2, 1>>}]}

(* Ports 1 and 6, and UDP lengths from 6 to 10. *)
Other ==
  {<<Packet(<<1, 2, 0, 1>> \o options, <<0, 1, 1, 2>> \o rest, proto, TRUE,
            [kind |-> proto, first |-> 1, second |-> 6,
             size |-> IF proto = "udp" THEN ByteBase * rest[1] + rest[2] - UdpHeader ELSE 0], 0)>> :
     options \in Options, rest \in {<<1, 2>>, <<2, 0>>, <<2, 2>>}, proto \in {"tcp", "udp"}}
    \cup {<<Packet(<<1, 2, 0, 1>>, <<0, 1>>, proto, TRUE, NoHeader, 0)>> :
            proto \in {"arp", "other"}}

SomeDatagrams ==
  Replies \cup Truncated \cup Fragmented \cup InThree \cup Other
    \cup {<<Icmp(1, 0, <<2>>, <<1, 2, 0, 1>>, 0)>>}
    \cup {<<Untargeted(Icmp(0, 1, <<2>>, <<1, 2, 0, 1>>, 0))>>}
=============================================================================
