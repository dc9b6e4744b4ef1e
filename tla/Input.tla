-------------------------------- MODULE Input --------------------------------
(***************************************************************************)
(* Texts, of a file or typed, and the numbers the programs read from them. *)
(* A text is a number or a word; "absent" is no text: a key that is not in *)
(* the file, or the end of the input.                                      *)
(***************************************************************************)
EXTENDS Integers

CONSTANT IntLimit   \* 2^31

Text ==
  {t \in [word : {"", "absent", "number", "true", "false", "tcp", "udp", "address", "other"},
          n : Int] : t.word # "number" => t.n = 0}
Word(w) == [word |-> w, n |-> 0]
Number(k) == [word |-> "number", n |-> k]

Ints == -IntLimit .. IntLimit - 1

(* stoi throws, and std::cin fails, unless the text begins with an int. *)
IsInt(text) == text.word = "number" /\ text.n \in Ints

(* What cin >> variable may leave in a variable that was not initialised:  *)
(* 0 for what is no number, a limit for one that is too big; at the end of *)
(* the input nothing is assigned.                                          *)
Extracted(text) ==
  IF IsInt(text) THEN {text.n}
  ELSE IF text.word = "number" THEN {IF text.n < 0 THEN -IntLimit ELSE IntLimit - 1}
  ELSE IF text.word = "absent" THEN Ints
  ELSE {0}
=============================================================================
