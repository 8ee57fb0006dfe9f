-------------------------- MODULE MCExampleServer ---------------------------
(***************************************************************************)
(* The example server for TLC: the texts of its two legacy responses, and  *)
(* texts around the limits of the responses' constructors; and how much    *)
(* follows a handshake: of the 128 bytes a misread length asks for too     *)
(* many, 256 finds four and waits, 300 takes them all from what follows.   *)
(***************************************************************************)
EXTENDS ExampleServer

Text(v, m, o, x) == [version |-> v, motd |-> m, online |-> o, max |-> x]

ExampleTexts ==
    {Text(7, 40, 1, 1), Text(7, 26, 1, 1)}
      \union {Text(0, m, 2, 2) : m \in {0, 250, 251}}
      \union {Text(3, m, 2, 2) : m \in {32750, 32751, 65000}}

Behind == [n \in Lengths |-> IF n = 300 THEN 200 ELSE 4]
=============================================================================
