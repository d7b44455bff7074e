----------------------------- MODULE TypedText -----------------------------
(***************************************************************************)
(* What the receive side of the console promises the person who types: a   *)
(* text that grows at its end, of which only the line being typed can be   *)
(* corrected, and which the console takes from the beginning, a whole line *)
(* at a time.  Break is a byte dropped, or lost to a race that the         *)
(* implementation names; nothing is promised until it recovers.            *)
(***************************************************************************)
EXTENDS Naturals, Sequences

CONSTANT Byte   \* records with a field end: is the byte the end of a line

VARIABLES text, broken

Init == text = <<>> /\ broken = FALSE

Type == \E b \in Byte : text' = Append(text, b)

Erase ==
  /\ text # <<>> /\ ~text[Len(text)].end
  /\ text' = SubSeq(text, 1, Len(text) - 1)

Escape == text' = <<>>

\* The first line: up to its end, n, and no further.
Obey ==
  \E n \in DOMAIN text :
    /\ \A i \in 1 .. n : text[i].end <=> i = n
    /\ text' = SubSeq(text, n + 1, Len(text))

Break == ~broken /\ broken' = TRUE /\ text' = <<>>

Recover == broken /\ broken' = FALSE /\ text' = <<>>

Next ==
  \/ ~broken /\ broken' = FALSE /\ (Type \/ Erase \/ Escape \/ Obey)
  \/ Break \/ Recover

Spec == Init /\ [][Next]_<<text, broken>>
=============================================================================
