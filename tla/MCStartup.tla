------------------------------- MODULE MCStartup -------------------------------
(***************************************************************************)
(* Lines, names and numbers for TLC, to check the start of the programs.   *)
(***************************************************************************)
EXTENDS StartupProperties

(* Lines for TLC, with ports of 3 bits and ints of 5. *)

Line(key, value) == [key |-> key, value |-> value, comment |-> FALSE, delimiter |-> TRUE]

ChatLines ==
  {Line("port", v) : v \in {Number(k) : k \in {-16, -8, -1, 0, 1, 5, 7, 8, 9, 15, 16}}
                             \cup {Word(""), Word("other")}}
    \cup {Line("protocol", Word(w)) : w \in {"tcp", "udp", "other"}}
    \cup {[Line("port", Number(3)) EXCEPT !.comment = TRUE],
          [Line("port", Number(3)) EXCEPT !.delimiter = FALSE]}

SwitchLines ==
  {Line("enabled", v) : v \in {Word("true"), Word(""), Number(1)}}
    \cup {Line("ip", Word(w)) : w \in {"address", "other"}}

SomeLines == [p \in Configured |-> IF p = "switch" THEN SwitchLines ELSE ChatLines]

(* Hosts and inputs for TLC: with e1 and e2 interfaces, lo another one. *)
Entry(n, p) == [name |-> n, packet |-> p]

SomeAddresses ==
  {<<>>, <<Entry("lo", FALSE)>>,
   <<Entry("e1", TRUE), Entry("e2", TRUE), Entry("e1", FALSE), Entry("e1", TRUE)>>}

SomeLifetimes ==
  {Word("absent"), Word("other")} \cup {Number(k) : k \in {-16, 0, 1, 2, 3, 16}}

SomeSelections == {<<>>, <<"e2">>, <<"lo", "e1">>, <<"e2", "e1">>, <<"e1", "lo", "e1">>}

SomeDevices == {<<>>, <<"e1">>, <<"e2", "e1">>, <<"e1", "e2", "lo">>}
=============================================================================
