----------------------------- MODULE ByteStream -----------------------------
(***************************************************************************)
(* What the transmit side of the console promises those who print: a queue *)
(* of limited length.  A byte goes in at once, whoever sends it; bytes go  *)
(* out in the order in which they came in, each once.  Break is one of the *)
(* races that the implementation names; nothing is promised afterwards.    *)
(***************************************************************************)
EXTENDS Naturals, Sequences

CONSTANTS Byte, Capacity, None   \* None, no byte

VARIABLES pending, sent, broken   \* sent: the byte that went out last

Init == pending = <<>> /\ sent = None /\ broken = FALSE

Put ==
  /\ Len(pending) < Capacity
  /\ \E b \in Byte : pending' = Append(pending, b)
  /\ sent' = sent

Transmit ==
  /\ pending # <<>>
  /\ sent' = Head(pending) /\ pending' = Tail(pending)

Break == broken' = TRUE /\ pending' = <<>> /\ sent' = None

Next ==
  /\ ~broken
  /\ \/ broken' = FALSE /\ (Put \/ Transmit)
     \/ Break

Spec == Init /\ [][Next]_<<pending, sent, broken>>
=============================================================================
