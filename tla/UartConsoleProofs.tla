------------------------- MODULE UartConsoleProofs -------------------------
(***************************************************************************)
(* The receive side of the console for every size of the ring and of the   *)
(* message buffer, every range of the line count and any keys.             *)
(***************************************************************************)
EXTENDS UartConsole, SequenceTheorems, FiniteSetTheorems, TLAPS

-----------------------------------------------------------------------------
(* The inductive invariant, in four parts.                                 *)

Shifting == {"check", "advance", "clearFull"}

\* Types; UARTQUEUE_ShiftUntil goes on while there is room in msg.
CountInv ==
  /\ TypeOK
  /\ pc \in Shifting => Len(msg) < CONSOLE_MAX_MESSAGE_LENGTH
  /\ pc = "idle" => msg = <<>>

\* Slots from o up to i, going round the ring.
Dist(i, o) == IF i >= o THEN i - o ELSE UART_QUEUE_ITEMS + i - o

\* The indices, the full condition and the count of the bytes kept; in the window of ClearFull
\* the full condition says nothing.
RingInv ==
  /\ pc # "clearFull" =>
       IF full THEN pIn = pOut /\ kept = UART_QUEUE_ITEMS ELSE Dist(pIn, pOut) = kept
  /\ pc = "clearFull" => Dist(pIn, pOut) = kept
  /\ pc = "advance" => out = pOut /\ ~Empty /\ dataOut = queue[pOut]

\* The bytes in the ring, and the place on its line of each next one: of the byte put in next,
\* of the one after slot i, and of the first in the ring.
InRing(i) == Dist(i, pOut) < kept
Place(b) == <<b.line, b.column>>
Typed == <<line, column + 1>>
After(i) == IF Dist(i, pOut) + 1 = kept THEN Typed ELSE Place(queue[Next1(i)])
First == IF kept = 0 THEN Typed ELSE Place(queue[pOut])

\* What comes after a byte: the first of a line after an end, or the next of its line.
Follows(b, p) == p = IF b.end THEN <<b.line + 1, 1>> ELSE <<b.line, b.column + 1>>

\* Behind the byte in slot i there is at least one for each line entered, and then the
\* characters of the line being typed.
Behind(i) ==
  /\ queue[i].line <= line /\ queue[i].column <= UART_QUEUE_ITEMS
  /\ queue[i].line < line => line - queue[i].line <= kept - Dist(i, pOut) - column

\* The bytes in the ring are in sequence up to the one being typed, and the line being typed is
\* all there.
ChainInv ==
  /\ column <= kept
  /\ \A i \in Index : InRing(i) => Follows(queue[i], After(i)) /\ Behind(i)

\* A count that stands for at least one line.
AtLeastOne(n) == IF n = 0 THEN CountRange ELSE n

\* msg is the beginning of a line that goes on in dataOut and in the ring, or all of it; the
\* count is at most that of the lines in the ring and of the one that is being shifted.
LineInv ==
  /\ \A i \in DOMAIN msg :
       /\ msg[i].line = msg[1].line /\ msg[i].column = i
       /\ msg[i].end <=> i = Len(msg) /\ pc \notin Shifting
  /\ pc \in {"countLoad", "countStore", "handle"} => msg # <<>>
  /\ pc \in {"check", "advance"} =>
       /\ First[2] = Len(msg) + 1
       /\ msg # <<>> => First[1] = msg[1].line
       /\ AtLeastOne(msgCount) <= line - First[1]
  /\ pc = "clearFull" =>
       /\ dataOut.column = Len(msg) + 1 /\ dataOut.column <= UART_QUEUE_ITEMS
       /\ msg # <<>> => dataOut.line = msg[1].line
       /\ Follows(dataOut, First)
       /\ AtLeastOne(msgCount) <= line - dataOut.line
  /\ pc \notin Shifting => First[2] = 1
  /\ pc = "countLoad" => AtLeastOne(msgCount) <= line - First[1] + 1
  /\ pc = "countStore" => AtLeastOne(reg) <= line - First[1] + 1
  /\ pc \in {"idle", "handle"} => msgCount <= line - First[1]

IInv ==
  /\ CountInv
  /\ clean => RingInv
  /\ clean /\ ~dropped => ChainInv /\ LineInv

-----------------------------------------------------------------------------
(* Going round the ring.                                                   *)

LEMMA Sizes ==
  /\ UART_QUEUE_ITEMS \in Nat /\ UART_QUEUE_ITEMS >= 1
  /\ CONSOLE_MAX_MESSAGE_LENGTH \in Nat /\ CONSOLE_MAX_MESSAGE_LENGTH > UART_QUEUE_ITEMS
  /\ CountRange \in Nat /\ CountRange > UART_QUEUE_ITEMS
  /\ MaxLines \in Nat /\ MaxColumns \in Nat
BY ConsoleConstants

LEMMA NextFacts ==
  \A i \in Index :
    /\ Next1(i) \in Index /\ Next1(i) = IF i = UART_QUEUE_ITEMS - 1 THEN 0 ELSE i + 1
    /\ Back1(i) \in Index /\ Next1(Back1(i)) = i
<1> SUFFICES ASSUME NEW i \in Index
             PROVE  /\ Next1(i) \in Index
                    /\ Next1(i) = IF i = UART_QUEUE_ITEMS - 1 THEN 0 ELSE i + 1
                    /\ Back1(i) \in Index /\ Next1(Back1(i)) = i
  OBVIOUS
<1>1. \A j \in Index : Next1(j) = IF j = UART_QUEUE_ITEMS - 1 THEN 0 ELSE j + 1
  BY Sizes DEF Index, Next1
<1>2. Back1(i) \in Index
  BY Sizes DEF Index, Back1
<1>3. Next1(Back1(i)) = i
  BY <1>1, <1>2, Sizes DEF Index, Back1
<1> QED
  BY <1>1, <1>2, <1>3, Sizes DEF Index

LEMMA DistFacts ==
  \A i, o \in Index :
    /\ Dist(i, o) \in 0 .. UART_QUEUE_ITEMS - 1
    /\ Dist(i, o) = 0 <=> i = o
    /\ i # o => Dist(i, Next1(o)) = Dist(i, o) - 1
    /\ Dist(o, Next1(o)) = UART_QUEUE_ITEMS - 1
    /\ Next1(i) # o => Dist(Next1(i), o) = Dist(i, o) + 1
    /\ Next1(i) = o => Dist(i, o) = UART_QUEUE_ITEMS - 1
    /\ i # o => Dist(Back1(i), o) = Dist(i, o) - 1
    /\ Dist(Back1(o), o) = UART_QUEUE_ITEMS - 1
<1> TAKE i, o \in Index
<1>1. /\ Next1(i) = IF i = UART_QUEUE_ITEMS - 1 THEN 0 ELSE i + 1
      /\ Next1(o) = IF o = UART_QUEUE_ITEMS - 1 THEN 0 ELSE o + 1
  BY NextFacts
<1> QED
  BY <1>1, Sizes DEF Index, Dist, Back1

LEMMA DistOneToOne ==
  \A i, j, o \in Index : Dist(i, o) = Dist(j, o) => i = j
BY Sizes DEF Dist, Index

\* A byte that is not the last in the ring has the next one in the next slot.
LEMMA NextInRing ==
  ASSUME NEW i \in Index, NEW o \in Index, NEW n \in 0 .. UART_QUEUE_ITEMS, Dist(i, o) + 1 < n
  PROVE  Dist(Next1(i), o) = Dist(i, o) + 1
BY Sizes, NextFacts, DistFacts

-----------------------------------------------------------------------------
(* Types and counts.                                                       *)

LEMMA InitCount == Init => CountInv
<1> SUFFICES ASSUME Init PROVE CountInv
  OBVIOUS
<1>1. 0 \in Index /\ Zero \in Byte
  BY Sizes DEF Index, Zero, Byte
<1>2. queue \in [Index -> Byte]
  BY <1>1 DEF Init
<1>3. TypeOK
  BY <1>1, <1>2, Sizes DEF Init, TypeOK
<1> QED
  BY <1>3 DEF Init, CountInv, Shifting

LEMMA AddTypes ==
  ASSUME TypeOK, NEW byte \in Byte, UARTQUEUE_Add(byte)
  PROVE  /\ pIn' \in Index /\ pOut' \in Index /\ full' \in BOOLEAN /\ queue' \in [Index -> Byte]
         /\ dropped' \in BOOLEAN /\ kept' \in 0 .. UART_QUEUE_ITEMS /\ clean' \in BOOLEAN
<1>1. CASE full
  BY <1>1 DEF UARTQUEUE_Add, TypeOK, ring
<1>2. CASE ~full
  BY <1>2, Sizes, NextFacts DEF UARTQUEUE_Add, TypeOK
<1> QED
  BY <1>1, <1>2

LEMMA KeyCount ==
  ASSUME CountInv, USART_RXNE_ISR
  PROVE  CountInv'
<1> USE Sizes
<1>0. /\ TypeOK /\ line \in Int /\ line >= 1 /\ column \in Nat /\ column <= MaxColumns
      /\ kept \in 0 .. UART_QUEUE_ITEMS
  BY DEF CountInv, TypeOK
<1>1. CASE Char
  <2>0. line \in 0 .. MaxLines /\ column + 1 \in 0 .. MaxColumns + 1
    BY <1>0, <1>1 DEF Char
  <2>1. [line |-> line, column |-> column + 1, end |-> FALSE] \in Byte
    BY <2>0 DEF Byte
  <2>2. TypeOK'
    BY <1>0, <1>1, <2>1, AddTypes DEF Char, TypeOK, service
  <2> QED
    BY <1>1, <2>2 DEF Char, CountInv, service
<1>2. CASE End
  <2>0. line \in 0 .. MaxLines /\ column + 1 \in 0 .. MaxColumns + 1
    BY <1>0, <1>2 DEF End
  <2>1. [line |-> line, column |-> column + 1, end |-> TRUE] \in Byte
    BY <2>0 DEF Byte
  <2>2. msgCount' \in 0 .. CountRange - 1
    BY <1>0, <1>2 DEF End, TypeOK
  <2>3. TypeOK'
    BY <1>0, <1>2, <2>1, <2>2, AddTypes DEF End, TypeOK, service
  <2> QED
    BY <1>2, <2>3 DEF End, CountInv, service
<1>3. CASE Backspace
  <2>1. pIn' \in Index /\ full' \in BOOLEAN
    BY <1>0, <1>3, NextFacts DEF Backspace, TypeOK
  <2>2. kept' \in 0 .. UART_QUEUE_ITEMS /\ column' \in 0 .. MaxColumns
    BY <1>0, <1>3 DEF Backspace
  <2>3. clean' \in BOOLEAN
    BY <1>3 DEF Backspace
  <2>4. TypeOK'
    BY <1>0, <1>3, <2>1, <2>2, <2>3 DEF Backspace, TypeOK, service
  <2> QED
    BY <1>3, <2>4 DEF Backspace, CountInv, service
<1>4. CASE Abort
  <2>1. 0 \in Index /\ 0 \in 0 .. UART_QUEUE_ITEMS /\ 0 \in 0 .. MaxColumns
    BY DEF Index
  <2>2. /\ clean' \in BOOLEAN /\ missed' \in BOOLEAN /\ dropped' \in BOOLEAN
        /\ entered' \subseteq 1 .. MaxLines
    <3>1. missed \in BOOLEAN /\ dropped \in BOOLEAN /\ entered \subseteq 1 .. MaxLines
      BY DEF CountInv, TypeOK
    <3>2. entered' \in {entered, {}}
      BY <1>4 DEF Abort
    <3>3. clean' \in BOOLEAN /\ missed' \in BOOLEAN /\ dropped' \in BOOLEAN
      BY Zenon, <1>4, <3>1 DEF Abort, Idle
    <3> QED
      BY <3>1, <3>2, <3>3
  <2>3. TypeOK'
    BY <1>0, <1>4, <2>1, <2>2 DEF Abort, TypeOK, service
  <2> QED
    BY <1>4, <2>3 DEF Abort, CountInv, service
<1> QED
  BY <1>1, <1>2, <1>3, <1>4 DEF USART_RXNE_ISR

LEMMA ServiceCount ==
  ASSUME CountInv, console_service
  PROVE  CountInv'
<1> USE Sizes
<1>0. TypeOK
  BY DEF CountInv
<1>1. CASE Begin
  BY <1>0, <1>1 DEF Begin, CountInv, TypeOK, Shifting, ring, history
<1>2. CASE Check
  BY <1>0, <1>2 DEF Check, CountInv, TypeOK, Shifting, ring, history
<1>3. CASE Advance
  <2>1. TypeOK'
    BY <1>0, <1>3, NextFacts DEF Advance, TypeOK
  <2> QED
    BY <1>3, <2>1 DEF Advance, CountInv, Shifting
<1>4. CASE ClearFull
  <2>1. 0 \in Index /\ Zero \in Byte
    BY DEF Index, Zero, Byte
  <2>2. msg' \in Seq(Byte) /\ Len(msg') = Len(msg) + 1 /\ Len(msg) < CONSOLE_MAX_MESSAGE_LENGTH
    BY <1>0, <1>4 DEF ClearFull, TypeOK, CountInv, Shifting
  <2>3. TypeOK'
    BY <1>0, <1>4, <2>1, <2>2 DEF ClearFull, TypeOK, history
  <2> QED
    BY <1>0, <1>4, <2>2, <2>3 DEF ClearFull, CountInv, TypeOK, Shifting
<1>5. CASE CountLoad
  BY <1>0, <1>5 DEF CountLoad, CountInv, TypeOK, Shifting, ring, history
<1>6. CASE CountStore
  <2>1. msgCount' \in 0 .. CountRange - 1
    BY <1>0, <1>6 DEF CountStore, TypeOK
  <2>2. TypeOK'
    BY <1>0, <1>6, <2>1 DEF CountStore, TypeOK, ring, history
  <2> QED
    BY <1>6, <2>2 DEF CountStore, CountInv, Shifting
<1>7. CASE Handle
  <2>1. entered' \subseteq 1 .. MaxLines
    BY <1>0, <1>7 DEF Handle, TypeOK
  <2>2. msg' = <<>> /\ msg' \in Seq(Byte) /\ Len(msg') = 0
    BY <1>7 DEF Handle
  <2>3. TypeOK'
    BY <1>0, <1>7, <2>1, <2>2 DEF Handle, TypeOK, ring
  <2> QED
    BY <1>7, <2>2, <2>3 DEF Handle, CountInv, Shifting
<1> QED
  BY <1>1, <1>2, <1>3, <1>4, <1>5, <1>6, <1>7 DEF console_service

LEMMA CountStep == CountInv /\ [Next]_vars => CountInv'
<1>1. CountInv /\ UNCHANGED vars => CountInv'
  BY DEF CountInv, TypeOK, vars, ring, service, history
<1> QED
  BY <1>1, KeyCount, ServiceCount DEF Next

\* TypeOK: the ring's indices, the count of lines, the message and its length keep their types,
\* for every size of ring and buffer and any keys at any moment.
THEOREM TypeCorrect == Spec => []TypeOK
<1>1. CountInv => TypeOK
  BY DEF CountInv
<1> QED
  BY <1>1, InitCount, CountStep, PTL DEF Spec

-----------------------------------------------------------------------------
(* The indices and the count of the bytes kept.                            *)

LEMMA RingTypes ==
  ASSUME CountInv
  PROVE  /\ pIn \in Index /\ pOut \in Index /\ out \in Index /\ full \in BOOLEAN
         /\ queue \in [Index -> Byte] /\ kept \in 0 .. UART_QUEUE_ITEMS /\ kept \in Nat
         /\ column \in Nat /\ line \in Nat
BY Sizes DEF CountInv, TypeOK

\* A byte that comes in goes to the slot behind the last, unless the ring is full.
LEMMA AddRing ==
  ASSUME CountInv, RingInv, NEW byte \in Byte, UARTQUEUE_Add(byte), UNCHANGED service, clean'
  PROVE  /\ RingInv' /\ pOut' = pOut
         /\ ~dropped' => /\ Dist(pIn, pOut) = kept /\ kept < UART_QUEUE_ITEMS /\ kept' = kept + 1
                          /\ queue'[pIn] = byte
                          /\ \A i \in Index \ {pIn} : queue'[i] = queue[i]
<1> USE Sizes, RingTypes
<1>1. CASE full
  BY <1>1 DEF UARTQUEUE_Add, RingInv, Empty, Dist, ring, service
<1>2. CASE ~full
  <2>1. /\ queue' = [queue EXCEPT ![pIn] = byte] /\ pIn' = Next1(pIn) /\ pOut' = pOut
        /\ full' = (Next1(pIn) = pOut) /\ ~(full' /\ pc = "clearFull")
        /\ kept' = IF kept < UART_QUEUE_ITEMS THEN kept + 1 ELSE kept
        /\ pc' = pc /\ out' = out /\ dataOut' = dataOut
    BY <1>2 DEF UARTQUEUE_Add, service
  <2>2. Dist(pIn, pOut) = kept
    BY <1>2 DEF RingInv
  <2>3. kept < UART_QUEUE_ITEMS /\ kept' = kept + 1
    BY <2>1, <2>2, DistFacts
  <2>4. Next1(pIn) = pOut => kept + 1 = UART_QUEUE_ITEMS
    BY <2>2, DistFacts
  <2>5. Next1(pIn) # pOut => Dist(Next1(pIn), pOut) = kept + 1
    BY <2>2, DistFacts
  <2>6. queue'[pIn] = byte /\ \A i \in Index \ {pIn} : queue'[i] = queue[i]
    BY <2>1
  <2>7. pc = "advance" => out = pOut /\ pIn # pOut /\ dataOut = queue[pOut]
    BY <1>2 DEF RingInv, Empty
  <2>8. RingInv'
    <3>1. IF full' THEN pIn' = pOut' /\ kept' = UART_QUEUE_ITEMS ELSE Dist(pIn', pOut') = kept'
      BY <2>1, <2>3, <2>4, <2>5
    <3>2. pc' = "clearFull" => Dist(pIn', pOut') = kept'
      BY <2>1, <3>1
    <3>3. pc' = "advance" => out' = pOut' /\ ~Empty' /\ dataOut' = queue'[pOut']
      BY <2>1, <2>6, <2>7 DEF Empty
    <3> QED
      BY <3>1, <3>2, <3>3 DEF RingInv, Dist
  <2> QED
    BY <2>1, <2>2, <2>3, <2>6, <2>8
<1> QED
  BY <1>1, <1>2

LEMMA BackspaceRing ==
  ASSUME CountInv, RingInv, Backspace, clean'
  PROVE  RingInv' /\ kept >= 1 /\ kept' = kept - 1
<1> USE Sizes, RingTypes
<1>1. /\ pc = "idle" /\ ~Empty /\ pIn' = Back1(pIn) /\ pOut' = pOut /\ full' = FALSE
      /\ kept' = (IF kept > 0 THEN kept - 1 ELSE 0) /\ pc' = pc
  BY DEF Backspace, Idle, service
<1>2. CASE full
  <2>1. pIn = pOut /\ kept = UART_QUEUE_ITEMS
    BY <1>1, <1>2 DEF RingInv
  <2>2. Dist(Back1(pIn), pOut) = UART_QUEUE_ITEMS - 1
    BY <2>1, DistFacts
  <2> QED
    BY <1>1, <2>1, <2>2 DEF RingInv, Dist
<1>3. CASE ~full
  <2>1. Dist(pIn, pOut) = kept /\ pIn # pOut
    BY <1>1, <1>3 DEF RingInv, Empty
  <2>2. kept >= 1 /\ Dist(Back1(pIn), pOut) = kept - 1
    BY <2>1, DistFacts
  <2> QED
    BY <1>1, <2>1, <2>2 DEF RingInv, Dist
<1> QED
  BY <1>2, <1>3

LEMMA AdvanceRing ==
  ASSUME CountInv, RingInv, Advance
  PROVE  /\ RingInv' /\ kept >= 1 /\ kept' = kept - 1 /\ pOut' = Next1(pOut)
         /\ dataOut = queue[pOut]
<1> USE Sizes, RingTypes
<1>1. /\ out = pOut /\ ~Empty /\ dataOut = queue[pOut] /\ pOut' = Next1(pOut) /\ pIn' = pIn
      /\ kept' = (IF kept > 0 THEN kept - 1 ELSE 0) /\ pc' = "clearFull"
  BY DEF Advance, RingInv
<1>2. CASE full
  <2>1. pIn = pOut /\ kept = UART_QUEUE_ITEMS
    BY <1>2 DEF Advance, RingInv
  <2>2. Dist(pIn, Next1(pOut)) = UART_QUEUE_ITEMS - 1
    BY <2>1, DistFacts
  <2> QED
    BY <1>1, <2>1, <2>2 DEF RingInv, Dist
<1>3. CASE ~full
  <2>1. Dist(pIn, pOut) = kept /\ pIn # pOut
    BY <1>1, <1>3 DEF Advance, RingInv, Empty
  <2>2. kept >= 1 /\ Dist(pIn, Next1(pOut)) = kept - 1
    BY <2>1, DistFacts
  <2> QED
    BY <1>1, <2>1, <2>2 DEF RingInv, Dist
<1> QED
  BY <1>2, <1>3

\* An escape while the console is idle sets the ring up as it was at first.
LEMMA EscapeRing ==
  ASSUME Abort, Idle
  PROVE  RingInv' /\ kept' = 0 /\ pOut' = 0 /\ pc' = "idle"
<1>1. pIn' = 0 /\ pOut' = 0 /\ full' = FALSE /\ kept' = 0 /\ pc' = "idle"
  BY DEF Abort, Idle, service
<1> QED
  BY <1>1, Sizes DEF RingInv, Dist

LEMMA RingStep ==
  ASSUME CountInv, RingInv, Next, clean'
  PROVE  RingInv'
<1> USE Sizes, RingTypes
<1>1. CASE Char
  <2>1. [line |-> line, column |-> column + 1, end |-> FALSE] \in Byte
    BY <1>1 DEF Char, Byte, CountInv, TypeOK
  <2> QED
    BY <1>1, <2>1, AddRing DEF Char
<1>2. CASE End
  <2>1. [line |-> line, column |-> column + 1, end |-> TRUE] \in Byte
    BY <1>2 DEF End, Byte, CountInv, TypeOK
  <2> QED
    BY <1>2, <2>1, AddRing DEF End
<1>3. CASE Backspace
  BY <1>3, BackspaceRing
<1>4. CASE Abort
  BY <1>4, EscapeRing DEF Abort
<1>5. CASE Begin
  BY <1>5 DEF Begin, RingInv, Dist, ring, history
<1>6. CASE Check
  BY <1>6 DEF Check, RingInv, Empty, Dist, ring, history
<1>7. CASE Advance
  BY <1>7, AdvanceRing
<1>8. CASE ClearFull
  BY <1>8 DEF ClearFull, RingInv, Dist, history
<1>9. CASE CountLoad
  BY <1>9 DEF CountLoad, RingInv, Dist, ring, history
<1>10. CASE CountStore
  BY <1>10 DEF CountStore, RingInv, Dist, ring, history
<1>11. CASE Handle
  BY <1>11 DEF Handle, RingInv, Dist, ring
<1> QED
  BY <1>1, <1>2, <1>3, <1>4, <1>5, <1>6, <1>7, <1>8, <1>9, <1>10, <1>11
     DEF Next, USART_RXNE_ISR, console_service

\* Only an escape at an idle console makes up for a deletion or a full ring at a bad moment, a byte
\* dropped or an end of line missed.
LEMMA HistoryBefore ==
  ASSUME TypeOK, [Next]_vars, ~(Abort /\ Idle)
  PROVE  (clean' => clean) /\ (~dropped' => ~dropped) /\ (~missed' => ~missed)
BY DEF TypeOK, Next, USART_RXNE_ISR, Char, End, UARTQUEUE_Add, Backspace, Abort, console_service,
       Begin, Check, Advance, ClearFull, CountLoad, CountStore, Handle, vars, history

LEMMA RingHolds == Spec => [](CountInv /\ (clean => RingInv))
<1>1. Init => CountInv /\ (clean => RingInv)
  BY InitCount, Sizes DEF Init, RingInv, Dist
<1>2. CountInv /\ (clean => RingInv) /\ [Next]_vars => (CountInv /\ (clean => RingInv))'
  <2> SUFFICES ASSUME CountInv, clean => RingInv, [Next]_vars
               PROVE  CountInv' /\ (clean' => RingInv')
    OBVIOUS
  <2>1. CountInv'
    BY CountStep
  <2>2. ASSUME clean' PROVE RingInv'
    <3>1. CASE Abort /\ Idle
      BY <3>1, EscapeRing
    <3>2. CASE ~(Abort /\ Idle)
      <4>1. RingInv
        BY <2>2, <3>2, HistoryBefore DEF CountInv
      <4>2. CASE Next
        BY <2>2, <4>1, <4>2, RingStep
      <4>3. CASE UNCHANGED vars
        BY <4>1, <4>3 DEF RingInv, Empty, Dist, vars, ring, service, history
      <4> QED
        BY <4>2, <4>3
    <3> QED
      BY <3>1, <3>2
  <2> QED
    BY <2>1, <2>2
<1> QED
  BY <1>1, <1>2, PTL DEF Spec

\* RingAgrees: whatever comes in during UARTQUEUE_Get, the ring holds the bytes received and not
\* yet shifted out or deleted, unless a deletion or the filling of the ring falls into one of the
\* moments that clean names, and again after the next escape at an idle console.
THEOREM RingAgreesHolds == Spec => []RingAgrees
<1>1. CountInv /\ (clean => RingInv) => RingAgrees
  BY RingTypes DEF RingAgrees, HoldsWhatWasKept, UARTQUEUE_FillLevel, RingInv, Dist
<1> QED
  BY <1>1, RingHolds, PTL

-----------------------------------------------------------------------------
(* The sequence of the bytes in the ring, when a byte is put in, taken out *)
(* or deleted.                                                             *)

LEMMA ByteTypes ==
  ASSUME CountInv
  PROVE  \A i \in Index : /\ queue[i].line \in Nat /\ queue[i].column \in Nat
                          /\ queue[i].end \in BOOLEAN
BY Sizes, RingTypes DEF Byte

LEMMA ChainPut ==
  ASSUME CountInv, ChainInv, NEW byte \in Byte, byte.line = line, byte.column = column + 1,
         Dist(pIn, pOut) = kept, kept < UART_QUEUE_ITEMS, kept' = kept + 1, pOut' = pOut,
         queue'[pIn] = byte, \A i \in Index \ {pIn} : queue'[i] = queue[i],
         \/ line' = line /\ column' = column + 1 /\ byte.end = FALSE
         \/ line' = line + 1 /\ column' = 0 /\ byte.end = TRUE
  PROVE  ChainInv' /\ First' = First
<1> USE Sizes, RingTypes, ByteTypes
<1>1. column' <= kept' /\ column + 1 <= UART_QUEUE_ITEMS
  BY DEF ChainInv
<1>2. ASSUME NEW i \in Index, Dist(i, pOut) < kept + 1
      PROVE  /\ queue'[i].line <= line' /\ queue'[i].column <= UART_QUEUE_ITEMS
             /\ queue'[i].line < line' =>
                  line' - queue'[i].line <= kept + 1 - Dist(i, pOut) - column'
  <2>1. CASE i = pIn
    BY <1>1, <2>1
  <2>2. CASE i # pIn
    <3>1. Dist(i, pOut) \in Nat /\ Dist(i, pOut) < kept
      BY <1>2, <2>2, DistFacts, DistOneToOne
    <3>2. Behind(i)
      BY <3>1 DEF ChainInv, InRing
    <3> QED
      BY <2>2, <3>1, <3>2 DEF Behind
  <2> QED
    BY <2>1, <2>2
<1>3. ASSUME NEW i \in Index, Dist(i, pOut) < kept + 1
      PROVE  Follows(queue'[i], IF Dist(i, pOut) + 1 = kept + 1 THEN <<line', column' + 1>>
                                ELSE <<queue'[Next1(i)].line, queue'[Next1(i)].column>>)
  <2>0. Dist(i, pOut) \in Nat
    BY DistFacts
  <2>1. CASE i = pIn
    BY <2>1 DEF Follows
  <2>2. CASE i # pIn
    <3>1. Dist(i, pOut) < kept
      BY <1>3, <2>0, <2>2, DistOneToOne
    <3>2. Follows(queue[i], After(i)) /\ queue'[i] = queue[i]
      BY <2>2, <3>1 DEF ChainInv, InRing
    <3>3. Next1(i) \in Index /\ Dist(Next1(i), pOut) = Dist(i, pOut) + 1
      BY <2>0, <3>1, NextFacts, NextInRing
    <3>4. CASE Dist(i, pOut) + 1 = kept
      <4>1. Next1(i) = pIn
        BY <3>3, <3>4, DistOneToOne
      <4> QED
        BY <2>0, <3>2, <3>4, <4>1 DEF After, Typed
    <3>5. CASE Dist(i, pOut) + 1 # kept
      <4>1. Next1(i) # pIn
        BY <3>3, <3>5
      <4> QED
        BY <2>0, <3>1, <3>2, <3>3, <3>5, <4>1 DEF After, Place
    <3> QED
      BY <3>4, <3>5
  <2> QED
    BY <2>1, <2>2
<1>4. ChainInv'
  <2>1. \A i \in Index : Dist(i, pOut)' = Dist(i, pOut)
    BY DEF Dist
  <2>2. ASSUME NEW i \in Index, InRing(i)' PROVE Follows(queue[i], After(i))'
    <3>1. Dist(i, pOut) < kept + 1
      BY <2>1, <2>2 DEF InRing
    <3>2. After(i)' = IF Dist(i, pOut) + 1 = kept + 1 THEN <<line', column' + 1>>
                      ELSE <<queue'[Next1(i)].line, queue'[Next1(i)].column>>
      BY <2>1 DEF After, Typed, Place
    <3> QED
      BY <1>3, <3>1, <3>2 DEF Follows
  <2>3. ASSUME NEW i \in Index, InRing(i)' PROVE Behind(i)'
    <3>1. Dist(i, pOut) < kept + 1
      BY <2>1, <2>3 DEF InRing
    <3>2. kept' - Dist(i, pOut)' - column' = kept + 1 - Dist(i, pOut) - column'
      <4>1. Dist(i, pOut) \in Nat /\ column' \in Nat
        BY DistFacts
      <4>2. Dist(i, pOut)' = Dist(i, pOut)
        BY DEF Dist
      <4> QED
        BY <4>1, <4>2
    <3>3. /\ queue'[i].line <= line' /\ queue'[i].column <= UART_QUEUE_ITEMS
          /\ queue'[i].line < line' =>
               line' - queue'[i].line <= kept + 1 - Dist(i, pOut) - column'
      BY <1>2, <3>1
    <3> QED
      BY <3>2, <3>3 DEF Behind
  <2> QED
    BY <1>1, <2>2, <2>3 DEF ChainInv
<1>5. First' = First
  <2>1. CASE kept = 0
    <3>1. pOut = pIn
      BY <2>1, DistFacts
    <3> QED
      BY <2>1, <3>1 DEF First, Typed, Place
  <2>2. CASE kept # 0
    <3>1. pOut # pIn
      BY <2>2, DistFacts
    <3> QED
      BY <2>2, <3>1 DEF First, Place
  <2> QED
    BY <2>1, <2>2
<1> QED
  BY <1>4, <1>5

LEMMA ChainTake ==
  ASSUME CountInv, ChainInv, kept >= 1, kept' = kept - 1, pOut' = Next1(pOut),
         UNCHANGED <<queue, line, column>>, queue[pOut].line < line
  PROVE  ChainInv' /\ Follows(queue[pOut], First') /\ queue[pOut].column <= UART_QUEUE_ITEMS
<1> USE Sizes, RingTypes, ByteTypes
<1>1. Dist(pOut, pOut) = 0 /\ Next1(pOut) \in Index
  BY DistFacts, NextFacts
<1>2. Behind(pOut) /\ Follows(queue[pOut], After(pOut))
  BY <1>1 DEF ChainInv, InRing
<1>3. column' <= kept'
  BY <1>1, <1>2 DEF Behind
<1>4. ASSUME NEW i \in Index, Dist(i, Next1(pOut)) < kept - 1
      PROVE  /\ Dist(i, Next1(pOut)) = Dist(i, pOut) - 1 /\ Dist(i, pOut) \in Nat
             /\ Follows(queue[i], After(i)) /\ Behind(i)
  <2>1. i # pOut
    BY <1>4, DistFacts
  <2>2. Dist(i, Next1(pOut)) = Dist(i, pOut) - 1 /\ Dist(i, pOut) \in Nat
    BY <2>1, DistFacts
  <2> QED
    BY <1>4, <2>2 DEF ChainInv, InRing
<1>5. ASSUME NEW i \in Index, Dist(i, Next1(pOut)) < kept - 1
      PROVE  /\ Follows(queue[i], IF Dist(i, Next1(pOut)) + 1 = kept - 1 THEN Typed
                                  ELSE Place(queue[Next1(i)]))
             /\ queue[i].line <= line /\ queue[i].column <= UART_QUEUE_ITEMS
             /\ queue[i].line < line =>
                  line - queue[i].line <= kept - 1 - Dist(i, Next1(pOut)) - column
  BY <1>4, <1>5 DEF After, Behind
<1>6. ChainInv'
  BY <1>3, <1>5 DEF ChainInv, InRing, Behind, After, Typed, Place, Dist
<1>7. First' = After(pOut)
  BY <1>1 DEF First, After, Typed, Place
<1> QED
  BY <1>2, <1>6, <1>7 DEF Behind

LEMMA ChainDelete ==
  ASSUME CountInv, ChainInv, kept >= 1, kept' = kept - 1, column > 0, column' = column - 1,
         UNCHANGED <<queue, pOut, line>>
  PROVE  ChainInv' /\ First' = First
<1> USE Sizes, RingTypes, ByteTypes
<1>1. column' <= kept'
  BY DEF ChainInv
<1>2. \A i \in Index : Dist(i, pOut) + 1 = kept => Place(queue[i]) = <<line, column>>
  <2> SUFFICES ASSUME NEW i \in Index, Dist(i, pOut) + 1 = kept
               PROVE  Place(queue[i]) = <<line, column>>
    OBVIOUS
  <2>1. Dist(i, pOut) \in Nat /\ Dist(i, pOut) < kept
    BY DistFacts
  <2>2. Follows(queue[i], <<line, column + 1>>)
    BY <2>1 DEF ChainInv, InRing, After, Typed
  <2> QED
    BY <2>2 DEF Follows, Place
<1>3. ASSUME NEW i \in Index, Dist(i, pOut) < kept - 1
      PROVE  /\ Follows(queue[i], IF Dist(i, pOut) + 1 = kept - 1 THEN <<line, column - 1 + 1>>
                                  ELSE Place(queue[Next1(i)]))
             /\ queue[i].line <= line /\ queue[i].column <= UART_QUEUE_ITEMS
             /\ queue[i].line < line =>
                  line - queue[i].line <= kept - 1 - Dist(i, pOut) - (column - 1)
  <2>1. Dist(i, pOut) \in Nat /\ Dist(i, pOut) < kept
    BY <1>3, DistFacts
  <2>2. Behind(i) /\ Follows(queue[i], Place(queue[Next1(i)]))
    BY <1>3, <2>1 DEF ChainInv, InRing, After
  <2>3. Next1(i) \in Index /\ Dist(Next1(i), pOut) = Dist(i, pOut) + 1
    BY <1>3, <2>1, NextFacts, NextInRing
  <2>4. Dist(i, pOut) + 1 = kept - 1 => Place(queue[Next1(i)]) = <<line, column>>
    BY <1>2, <2>1, <2>3
  <2> QED
    BY <2>1, <2>2, <2>4 DEF Behind
<1>4. ChainInv'
  BY <1>1, <1>3 DEF ChainInv, InRing, Behind, After, Typed, Place, Dist
<1>5. First' = First
  <2>1. CASE kept = 1
    <3>1. Dist(pOut, pOut) = 0 /\ column = 1
      BY <2>1, DistFacts DEF ChainInv
    <3>2. Place(queue[pOut]) = <<line, column>>
      BY <1>2, <2>1, <3>1
    <3> QED
      BY <2>1, <3>1, <3>2 DEF First, Typed, Place
  <2>2. CASE kept # 1
    BY <2>2 DEF First, Place
  <2> QED
    BY <2>1, <2>2
<1> QED
  BY <1>4, <1>5

-----------------------------------------------------------------------------
(* The line that is being shifted, and the count of lines.                 *)

LEMMA CountArithmetic ==
  \A n \in 0 .. CountRange - 1 :
    /\ AtLeastOne(n) \in Nat /\ AtLeastOne(n) >= 1
    /\ (n + 1) % CountRange <= n + 1
    /\ AtLeastOne((n + 1) % CountRange) <= AtLeastOne(n) + 1
    /\ (n - 1) % CountRange = AtLeastOne(n) - 1
<1> TAKE n \in 0 .. CountRange - 1
<1>1. (n + 1) % CountRange = IF n = CountRange - 1 THEN 0 ELSE n + 1
  BY Sizes
<1>2. (n - 1) % CountRange = IF n = 0 THEN CountRange - 1 ELSE n - 1
  BY Sizes
<1> QED
  BY <1>1, <1>2, Sizes DEF AtLeastOne

LEMMA LineTypes ==
  ASSUME CountInv
  PROVE  /\ First[1] \in Nat /\ First[2] \in Nat /\ msg \in Seq(Byte) /\ Len(msg) \in Nat
         /\ dataOut \in Byte /\ dataOut.line \in Nat /\ dataOut.column \in Nat
         /\ dataOut.end \in BOOLEAN
         /\ msgCount \in 0 .. CountRange - 1 /\ reg \in 0 .. CountRange - 1
<1>1. msg \in Seq(Byte) /\ dataOut \in Byte
  BY DEF CountInv, TypeOK
<1>2. dataOut.line \in Nat /\ dataOut.column \in Nat /\ dataOut.end \in BOOLEAN
  BY <1>1, Sizes DEF Byte
<1>3. First[1] \in Nat /\ First[2] \in Nat
  BY RingTypes, ByteTypes DEF First, Typed, Place
<1> QED
  BY <1>1, <1>2, <1>3 DEF CountInv, TypeOK

\* Steps that leave the ring's bytes, the line and the column as they are.
LEMMA ChainKept ==
  ASSUME ChainInv, UNCHANGED <<pOut, queue, line, column, kept>>
  PROVE  ChainInv' /\ First' = First
BY DEF ChainInv, InRing, Behind, After, First, Typed, Place, Dist, Follows

\* A line more: the count grows by one at most.
LEMMA OneLineMore ==
  ASSUME LineInv, First[1] \in Nat, line \in Nat, dataOut.line \in Nat,
         msgCount \in Nat, msgCount' \in Nat, AtLeastOne(reg) \in Nat,
         AtLeastOne(msgCount) \in Nat, AtLeastOne(msgCount') \in Nat,
         line' = line + 1, First' = First, msgCount' <= msgCount + 1,
         AtLeastOne(msgCount') <= AtLeastOne(msgCount) + 1
  PROVE  /\ pc \in {"check", "advance"} => AtLeastOne(msgCount') <= line' - First'[1]
         /\ pc = "clearFull" => AtLeastOne(msgCount') <= line' - dataOut.line
         /\ pc = "countLoad" => AtLeastOne(msgCount') <= line' - First'[1] + 1
         /\ pc = "countStore" => AtLeastOne(reg) <= line' - First'[1] + 1
         /\ pc \in {"idle", "handle"} => msgCount' <= line' - First'[1]
<1>1. First'[1] = First[1]
  OBVIOUS
<1>2. \A a, b, n, l \in Nat :
        /\ a <= l - n /\ b <= a + 1 => b <= l + 1 - n
        /\ a <= l - n + 1 /\ b <= a + 1 => b <= l + 1 - n + 1
        /\ a <= l - n + 1 => a <= l + 1 - n + 1
  OBVIOUS
<1>3. ASSUME pc \in {"check", "advance"} PROVE AtLeastOne(msgCount') <= line + 1 - First[1]
  BY <1>2, <1>3 DEF LineInv
<1>4. ASSUME pc = "clearFull" PROVE AtLeastOne(msgCount') <= line + 1 - dataOut.line
  BY <1>2, <1>4 DEF LineInv
<1>5. ASSUME pc = "countLoad" PROVE AtLeastOne(msgCount') <= line + 1 - First[1] + 1
  BY <1>2, <1>5 DEF LineInv
<1>6. ASSUME pc = "countStore" PROVE AtLeastOne(reg) <= line + 1 - First[1] + 1
  BY <1>2, <1>6 DEF LineInv
<1>7. ASSUME pc \in {"idle", "handle"} PROVE msgCount' <= line + 1 - First[1]
  BY <1>2, <1>7 DEF LineInv
<1> QED
  BY <1>1, <1>3, <1>4, <1>5, <1>6, <1>7

LEMMA FromZero == \A i \in Index : ~(Dist(i, 0) < 0)
<1>1. 0 \in Index
  BY Sizes DEF Index
<1>2. ASSUME NEW i \in Index PROVE Dist(i, 0) \in 0 .. UART_QUEUE_ITEMS - 1
  BY <1>1, <1>2, DistFacts
<1>3. \A n \in 0 .. UART_QUEUE_ITEMS - 1 : ~(n < 0)
  BY Sizes
<1> QED
  BY <1>2, <1>3

\* After an escape at an idle console the invariant holds, whatever was before.
LEMMA EscapeLine ==
  ASSUME CountInv, Abort, Idle
  PROVE  ChainInv' /\ First'[1] = line /\ First'[2] = 1 /\ LineInv'
<1>1. /\ kept' = 0 /\ column' = 0 /\ pOut' = 0 /\ line' = line /\ line \in Nat
      /\ msgCount' = 0 /\ pc' = "idle" /\ msg' = <<>>
  BY Sizes DEF Abort, Idle, service, CountInv, TypeOK
<1>2. ChainInv'
  BY <1>1, FromZero DEF ChainInv, InRing, Dist
<1>3. First'[1] = line /\ First'[2] = 1
  BY <1>1 DEF First, Typed
<1> QED
  BY <1>1, <1>2, <1>3 DEF LineInv, Shifting

\* A key changes the end of what is in the ring, or all of it, but never its beginning.
LEMMA KeyChain ==
  ASSUME CountInv, RingInv, ChainInv, clean', ~dropped'
  PROVE  Char \/ End \/ Backspace => ChainInv' /\ First' = First
<1> USE Sizes, RingTypes
<1>1. ASSUME Char PROVE ChainInv' /\ First' = First
  <2> DEFINE byte == [line |-> line, column |-> column + 1, end |-> FALSE]
  <2>1. byte \in Byte
    BY <1>1 DEF Char, Byte, CountInv, TypeOK
  <2>2. /\ pOut' = pOut /\ Dist(pIn, pOut) = kept /\ kept < UART_QUEUE_ITEMS /\ kept' = kept + 1
        /\ queue'[pIn] = byte /\ \A i \in Index \ {pIn} : queue'[i] = queue[i]
    BY <1>1, <2>1, AddRing DEF Char
  <2>3. byte.line = line /\ byte.column = column + 1 /\ byte.end = FALSE
    OBVIOUS
  <2> HIDE DEF byte
  <2>4. ChainInv' /\ First' = First
    BY <1>1, <2>1, <2>2, <2>3, ChainPut DEF Char
  <2> QED
    BY <2>4
<1>2. ASSUME End PROVE ChainInv' /\ First' = First
  <2> DEFINE byte == [line |-> line, column |-> column + 1, end |-> TRUE]
  <2>1. byte \in Byte
    BY <1>2 DEF End, Byte, CountInv, TypeOK
  <2>2. /\ pOut' = pOut /\ Dist(pIn, pOut) = kept /\ kept < UART_QUEUE_ITEMS /\ kept' = kept + 1
        /\ queue'[pIn] = byte /\ \A i \in Index \ {pIn} : queue'[i] = queue[i]
    BY <1>2, <2>1, AddRing DEF End
  <2>3. byte.line = line /\ byte.column = column + 1 /\ byte.end = TRUE
    OBVIOUS
  <2> HIDE DEF byte
  <2>4. ChainInv' /\ First' = First
    BY <1>2, <2>1, <2>2, <2>3, ChainPut DEF End
  <2> QED
    BY <2>4
<1>3. ASSUME Backspace PROVE ChainInv' /\ First' = First
  <2>1. kept >= 1 /\ kept' = kept - 1
    BY <1>3, BackspaceRing
  <2>2. column > 0 /\ column' = column - 1
    BY <1>3 DEF Backspace
  <2>3. ChainInv' /\ First' = First
    BY <1>3, <2>1, <2>2, ChainDelete DEF Backspace
  <2> QED
    BY <2>3
<1> QED
  BY <1>1, <1>2, <1>3

LEMMA KeyLine ==
  ASSUME CountInv, RingInv, ChainInv, LineInv, USART_RXNE_ISR, clean', ~dropped'
  PROVE  ChainInv' /\ LineInv'
<1> USE Sizes, RingTypes, LineTypes
<1>1. CASE Char
  <2>1. ChainInv' /\ First' = First
    BY <1>1, KeyChain
  <2> QED
    BY <1>1, <2>1 DEF Char, LineInv, service
<1>2. CASE End
  <2>1. ChainInv' /\ First' = First
    BY <1>2, KeyChain
  <2>2. /\ msgCount' <= msgCount + 1 /\ msgCount' \in Nat
        /\ AtLeastOne(msgCount') <= AtLeastOne(msgCount) + 1
        /\ AtLeastOne(msgCount) \in Nat /\ AtLeastOne(msgCount') \in Nat /\ msgCount \in Nat
    <3>1. msgCount \in 0 .. CountRange - 1 /\ msgCount' \in 0 .. CountRange - 1
      BY CountStep, <1>2 DEF CountInv, TypeOK, Next, USART_RXNE_ISR
    <3>2. msgCount' = (msgCount + 1) % CountRange
      BY <1>2 DEF End
    <3>3. msgCount' <= msgCount + 1 /\ AtLeastOne(msgCount') <= AtLeastOne(msgCount) + 1
      BY <3>1, <3>2, CountArithmetic
    <3> QED
      BY <3>1, <3>3, CountArithmetic
  <2>3. AtLeastOne(reg) \in Nat
    BY CountArithmetic
  <2>4. /\ line' = line + 1 /\ UNCHANGED <<pc, msg, reg, dataOut>>
    BY <1>2 DEF End, service
  <2>5. /\ First[1] \in Nat /\ line \in Nat /\ dataOut.line \in Nat
    OBVIOUS
  <2>6. /\ pc \in {"check", "advance"} => AtLeastOne(msgCount') <= line' - First'[1]
        /\ pc = "clearFull" => AtLeastOne(msgCount') <= line' - dataOut.line
        /\ pc = "countLoad" => AtLeastOne(msgCount') <= line' - First'[1] + 1
        /\ pc = "countStore" => AtLeastOne(reg) <= line' - First'[1] + 1
        /\ pc \in {"idle", "handle"} => msgCount' <= line' - First'[1]
    BY <2>1, <2>2, <2>3, <2>4, <2>5, OneLineMore
  <2> QED
    BY <2>1, <2>4, <2>6 DEF LineInv, Shifting
<1>3. CASE Backspace
  <2>1. ChainInv' /\ First' = First
    BY <1>3, KeyChain
  <2> QED
    BY <1>3, <2>1 DEF Backspace, LineInv, service
<1>4. CASE Abort
  BY <1>4, EscapeLine DEF Abort
<1> QED
  BY <1>1, <1>2, <1>3, <1>4 DEF USART_RXNE_ISR

LEMMA AppendByte ==
  ASSUME NEW m \in Seq(Byte), NEW byte \in Byte
  PROVE  /\ Len(Append(m, byte)) = Len(m) + 1 /\ Append(m, byte) # <<>>
         /\ DOMAIN Append(m, byte) = 1 .. Len(m) + 1
         /\ Append(m, byte)[Len(m) + 1] = byte
         /\ \A i \in 1 .. Len(m) : Append(m, byte)[i] = m[i]
         /\ DOMAIN m = 1 .. Len(m)
OBVIOUS

\* UARTQUEUE_Get finds a byte as long as the end of the line has not been shifted out, and msg has
\* room for it: UARTQUEUE_ShiftUntil stops at the end of a line.
LEMMA CheckFinds ==
  ASSUME CountInv, RingInv, LineInv, pc = "check"
  PROVE  ~Empty
<1> USE RingTypes
<1> SUFFICES ASSUME Empty PROVE FALSE
  OBVIOUS
<1>1. kept = 0
  BY DistFacts DEF RingInv, Empty
<1>2. First[1] = line
  BY <1>1 DEF First, Typed
<1>3. AtLeastOne(msgCount) \in Nat /\ AtLeastOne(msgCount) >= 1 /\ line \in Nat
  BY LineTypes, CountArithmetic
<1>4. AtLeastOne(msgCount) <= line - line
  BY <1>2 DEF LineInv
<1> QED
  BY <1>3, <1>4

LEMMA FitsMessage ==
  ASSUME CountInv, LineInv, ClearFull
  PROVE  pc' = IF dataOut.end THEN "countLoad" ELSE "check"
<1>1. pc = "clearFull" /\ Len(msg) + 1 <= UART_QUEUE_ITEMS /\ Len(msg) \in Nat
  BY LineTypes DEF ClearFull, LineInv
<1>2. Len(msg) + 1 # CONSOLE_MAX_MESSAGE_LENGTH
  BY <1>1, Sizes
<1> QED
  BY <1>2 DEF ClearFull

LEMMA ServiceLine ==
  ASSUME CountInv, RingInv, ChainInv, LineInv, console_service
  PROVE  ChainInv' /\ LineInv'
<1> USE Sizes, RingTypes, LineTypes
<1>0. /\ AtLeastOne(msgCount) \in Nat /\ AtLeastOne(msgCount) >= 1
      /\ AtLeastOne(reg) \in Nat /\ AtLeastOne(reg) >= 1
  BY CountArithmetic
<1>1. CASE Begin
  <2>1. ChainInv' /\ First' = First
    BY <1>1, ChainKept DEF Begin, ring, history
  <2>2. msg = <<>> /\ msg' = msg /\ msgCount # 0 /\ msgCount' = msgCount /\ line' = line
        /\ pc = "idle" /\ pc' = "check"
    BY <1>1 DEF Begin, CountInv, history
  <2>3. AtLeastOne(msgCount) = msgCount
    BY <2>2 DEF AtLeastOne
  <2> QED
    BY <2>1, <2>2, <2>3 DEF LineInv, Shifting
<1>2. CASE Check
  <2>1. ChainInv' /\ First' = First
    BY <1>2, ChainKept DEF Check, ring, history
  <2>2. ~Empty
    BY <1>2, CheckFinds DEF Check
  <2> QED
    BY <1>2, <2>1, <2>2 DEF Check, LineInv, Shifting, history
<1>3. CASE Advance
  <2>1. kept >= 1 /\ kept' = kept - 1 /\ pOut' = Next1(pOut) /\ dataOut = queue[pOut]
    BY <1>3, AdvanceRing
  <2>2. First = Place(dataOut) /\ First[1] = dataOut.line /\ First[2] = dataOut.column
    BY <2>1 DEF First, Place
  <2>3. dataOut.line < line
    BY SMTT(30), <1>0, <1>3, <2>2 DEF Advance, LineInv
  <2>4. ChainInv' /\ Follows(dataOut, First') /\ dataOut.column <= UART_QUEUE_ITEMS
    BY <1>3, <2>1, <2>3, ChainTake DEF Advance
  <2> QED
    BY <1>3, <2>2, <2>4 DEF Advance, LineInv, Shifting, Follows
<1>4. CASE ClearFull
  <2>1. ChainInv' /\ First' = First
    BY <1>4, ChainKept DEF ClearFull, history
  <2>2. /\ dataOut.column = Len(msg) + 1 /\ dataOut.column <= UART_QUEUE_ITEMS
        /\ msg # <<>> => dataOut.line = msg[1].line
        /\ Follows(dataOut, First) /\ AtLeastOne(msgCount) <= line - dataOut.line
        /\ \A i \in DOMAIN msg : /\ msg[i].line = msg[1].line /\ msg[i].column = i /\ ~msg[i].end
    BY <1>4 DEF ClearFull, LineInv, Shifting
  <2>3. /\ pc' = (IF dataOut.end THEN "countLoad" ELSE "check")
        /\ msgCount' = msgCount /\ line' = line
    BY <1>4, FitsMessage DEF ClearFull, history
  <2>4. /\ msg' = Append(msg, dataOut) /\ Len(msg') = Len(msg) + 1 /\ msg' # <<>>
        /\ DOMAIN msg' = 1 .. Len(msg) + 1
        /\ msg'[Len(msg) + 1] = dataOut /\ \A i \in 1 .. Len(msg) : msg'[i] = msg[i]
        /\ DOMAIN msg = 1 .. Len(msg)
    BY <1>4, AppendByte DEF ClearFull
  <2>5. msg'[1].line = dataOut.line
    <3>1. CASE msg = <<>>
      BY <2>4, <3>1
    <3>2. CASE msg # <<>>
      <4>1. 1 \in 1 .. Len(msg)
        BY <3>2
      <4> QED
        BY <2>2, <2>4, <3>2, <4>1
    <3> QED
      BY <3>1, <3>2
  <2>6. ASSUME NEW i \in DOMAIN msg'
        PROVE  /\ msg'[i].line = msg'[1].line /\ msg'[i].column = i
               /\ msg'[i].end <=> i = Len(msg') /\ pc' \notin Shifting
    <3>1. CASE i = Len(msg) + 1
      BY <2>2, <2>3, <2>4, <2>5, <3>1 DEF Shifting
    <3>2. CASE i \in 1 .. Len(msg)
      <4>1. msg'[i] = msg[i] /\ ~msg[i].end /\ msg[i].column = i /\ i # Len(msg')
        BY <2>2, <2>4, <3>2
      <4>2. msg[i].line = dataOut.line
        <5>1. msg # <<>>
          BY <3>2
        <5> QED
          BY <2>2, <2>4, <3>2, <5>1
      <4> QED
        BY <2>5, <4>1, <4>2
    <3> QED
      BY SMTT(30), <2>4, <3>1, <3>2
  <2>7. CASE dataOut.end
    <3>1. First[1] = dataOut.line + 1 /\ First[2] = 1 /\ pc' = "countLoad"
      BY <2>2, <2>3, <2>7 DEF Follows
    <3>2. AtLeastOne(msgCount) <= line - First[1] + 1
      BY SMTT(30), <1>0, <2>2, <3>1
    <3> QED
      BY <2>1, <2>3, <2>4, <2>6, <3>1, <3>2 DEF LineInv, Shifting
  <2>8. CASE ~dataOut.end
    <3>1. First[1] = dataOut.line /\ First[2] = Len(msg') + 1 /\ pc' = "check"
      BY <2>2, <2>3, <2>4, <2>8 DEF Follows
    <3>2. AtLeastOne(msgCount) <= line - First[1]
      BY <2>2, <3>1
    <3> QED
      BY <2>1, <2>3, <2>4, <2>5, <2>6, <3>1, <3>2 DEF LineInv, Shifting
  <2> QED
    BY <2>7, <2>8
<1>5. CASE CountLoad
  <2>1. ChainInv' /\ First' = First
    BY <1>5, ChainKept DEF CountLoad, ring, history
  <2> QED
    BY <1>5, <2>1 DEF CountLoad, LineInv, Shifting, history
<1>6. CASE CountStore
  <2>1. ChainInv' /\ First' = First
    BY <1>6, ChainKept DEF CountStore, ring, history
  <2>2. msgCount' = AtLeastOne(reg) - 1
    BY <1>6, CountArithmetic DEF CountStore
  <2>3. pc = "countStore" /\ pc' = "handle" /\ msg' = msg /\ msg # <<>> /\ line' = line
    BY <1>6 DEF CountStore, LineInv, history
  <2>4. msgCount' <= line - First[1]
    BY SMTT(30), <1>0, <2>2, <2>3 DEF LineInv
  <2> QED
    BY <2>1, <2>3, <2>4 DEF LineInv, Shifting
<1>7. CASE Handle
  <2>1. ChainInv' /\ First' = First
    BY <1>7, ChainKept DEF Handle, ring
  <2> QED
    BY <1>7, <2>1 DEF Handle, LineInv, Shifting
<1> QED
  BY <1>1, <1>2, <1>3, <1>4, <1>5, <1>6, <1>7 DEF console_service

LEMMA InitOK == Init => IInv
<1> SUFFICES ASSUME Init PROVE IInv
  OBVIOUS
<1>1. CountInv /\ RingInv
  BY InitCount, Sizes DEF Init, RingInv, Dist
<1>2. \A i \in Index : ~InRing(i)
  BY <1>1, RingTypes, DistFacts DEF Init, InRing
<1>3. ChainInv
  BY <1>2 DEF Init, ChainInv
<1>4. First = <<1, 1>>
  BY DEF Init, First, Typed
<1>5. LineInv
  BY <1>4 DEF Init, LineInv, Shifting
<1> QED
  BY <1>1, <1>3, <1>5 DEF IInv

LEMMA StepOK == IInv /\ [Next]_vars => IInv'
<1> SUFFICES ASSUME IInv, [Next]_vars PROVE IInv'
  OBVIOUS
<1>1. CountInv /\ CountInv'
  BY CountStep DEF IInv
<1>2. CASE Abort /\ Idle
  BY <1>1, <1>2, EscapeRing, EscapeLine DEF IInv
<1>3. CASE ~(Abort /\ Idle)
  <2>1. (clean' => clean) /\ (~dropped' => ~dropped)
    BY <1>1, <1>3, HistoryBefore DEF CountInv
  <2>2. CASE UNCHANGED vars
    <3>1. ASSUME clean PROVE RingInv'
      BY <2>2, <3>1 DEF IInv, RingInv, Empty, Dist, vars, ring, service, history
    <3>2. ASSUME clean, ~dropped PROVE ChainInv' /\ LineInv'
      <4>1. ChainInv' /\ First' = First
        BY <2>2, <3>2, ChainKept DEF IInv, vars, ring, history
      <4> QED
        BY <2>2, <3>2, <4>1 DEF IInv, LineInv, vars, service, history
    <3> QED
      BY <1>1, <2>2, <3>1, <3>2 DEF IInv, vars, history
  <2>3. CASE Next
    <3>1. ASSUME clean' PROVE RingInv'
      BY <2>1, <2>3, <3>1, RingStep DEF IInv
    <3>2. ASSUME clean', ~dropped' PROVE ChainInv' /\ LineInv'
      BY <2>1, <2>3, <3>2, KeyLine, ServiceLine DEF IInv, Next
    <3> QED
      BY <1>1, <3>1, <3>2 DEF IInv
  <2> QED
    BY <2>2, <2>3
<1> QED
  BY <1>2, <1>3

\* WholeLine: what console_handle_msg is given is one line as it was typed and edited, from its
\* first character up to its end and never longer than the ring, whatever comes in while it is
\* shifted out, for every size of ring and buffer; after a byte dropped or a race, it is so again
\* from the next escape at an idle console on.
THEOREM WholeLineHolds == Spec => []WholeLine
<1>1. IInv => WholeLine
  <2> SUFFICES ASSUME IInv, pc = "handle", clean, ~dropped, NEW i \in DOMAIN msg
               PROVE  msg[i] = [line |-> msg[1].line, column |-> i, end |-> i = Len(msg)]
    BY DEF WholeLine
  <2>1. msg[i] \in Byte
    <3>1. msg \in Seq(Byte)
      BY LineTypes DEF IInv
    <3> QED
      BY <3>1
  <2>2. msg[i].line = msg[1].line /\ msg[i].column = i /\ (msg[i].end <=> i = Len(msg))
    BY DEF IInv, LineInv, Shifting
  <2>3. msg[i].end \in BOOLEAN
    BY <2>1 DEF Byte
  <2> QED
    BY <2>1, <2>2, <2>3 DEF Byte
<1> QED
  BY <1>1, InitOK, StepOK, PTL DEF Spec

-----------------------------------------------------------------------------
(* The count of lines is that of the lines entered and not handled.        *)

\* The oldest line that has not been handled, or the one being typed.
Oldest ==
  IF msg # <<>> THEN msg[1].line ELSE IF pc = "clearFull" THEN dataOut.line ELSE First[1]

\* The lines entered and not handled are those in msg, dataOut and the ring, and the count is
\* exact: LineInv with equality, as no end of line has fallen into the decrement.
CountedInv ==
  /\ entered = Oldest .. line - 1
  /\ pc \in {"countLoad", "countStore", "handle"} => First[1] = msg[1].line + 1
  /\ pc \in {"idle", "handle"} => msgCount = line - First[1]
  /\ pc \in {"check", "advance"} => AtLeastOne(msgCount) = line - First[1]
  /\ pc = "clearFull" => AtLeastOne(msgCount) = line - dataOut.line
  /\ pc = "countLoad" => AtLeastOne(msgCount) = line - First[1] + 1
  /\ pc = "countStore" => AtLeastOne(reg) = line - First[1] + 1 /\ reg = msgCount

EInv == IInv /\ (clean /\ ~dropped /\ ~missed => CountedInv)

\* Each line in the ring that is not the one being typed has its last byte there.
LEMMA LinesFit ==
  ASSUME CountInv, ChainInv
  PROVE  First[1] \in Nat /\ First[1] <= line /\ line - First[1] <= kept
<1> USE Sizes, RingTypes, ByteTypes
<1>1. CASE kept = 0
  BY <1>1 DEF First, Typed
<1>2. CASE kept # 0
  <2>1. Dist(pOut, pOut) = 0
    BY DistFacts
  <2>2. Behind(pOut)
    BY <1>2, <2>1 DEF ChainInv, InRing
  <2>3. First[1] = queue[pOut].line /\ First[1] \in Nat
    BY <1>2 DEF First, Place
  <2>4. queue[pOut].line <= line /\ (queue[pOut].line < line => line - queue[pOut].line <= kept - column)
    BY <2>1, <2>2 DEF Behind
  <2> QED
    BY <2>3, <2>4
<1> QED
  BY <1>1, <1>2

LEMMA OldestFits ==
  ASSUME CountInv, ChainInv, LineInv, CountedInv
  PROVE  Oldest \in Nat /\ Oldest <= line /\ line \in Nat
<1>1. /\ First[1] \in Nat /\ First[1] <= line /\ line \in Nat /\ dataOut.line \in Nat
      /\ AtLeastOne(msgCount) >= 1 /\ AtLeastOne(msgCount) \in Nat
  BY LinesFit, LineTypes, RingTypes, CountArithmetic
<1>2. CASE msg = <<>>
  <2>1. pc = "clearFull" => dataOut.line <= line
    BY <1>1 DEF CountedInv
  <2> QED
    BY <1>1, <1>2, <2>1 DEF Oldest
<1>3. CASE msg # <<>>
  <2>1. msg[1].line \in Nat
    <3>1. msg \in Seq(Byte) /\ 1 \in DOMAIN msg
      BY <1>3, LineTypes
    <3>2. msg[1] \in Byte
      BY <3>1
    <3> QED
      BY <3>2, Sizes DEF Byte
  <2>2. CASE pc \in {"check", "advance"}
    <3>1. msg[1].line = First[1]
      BY <1>3, <2>2 DEF LineInv
    <3> QED
      BY <1>1, <1>3, <3>1 DEF Oldest
  <2>3. CASE pc = "clearFull"
    <3>1. msg[1].line = dataOut.line /\ dataOut.line <= line
      BY <1>1, <1>3, <2>3 DEF LineInv, CountedInv
    <3> QED
      BY <1>1, <1>3, <3>1 DEF Oldest
  <2>4. CASE pc \in {"countLoad", "countStore", "handle"}
    <3>1. First[1] = msg[1].line + 1
      BY <2>4 DEF CountedInv
    <3> QED
      BY <1>1, <1>3, <2>1, <3>1 DEF Oldest
  <2>5. pc \in {"check", "advance", "clearFull", "countLoad", "countStore", "handle"}
    BY <1>3 DEF CountInv, TypeOK
  <2> QED
    BY <2>2, <2>3, <2>4, <2>5
<1> QED
  BY <1>2, <1>3

\* One more line is counted as one more, though the count wraps.
LEMMA CountOneMore ==
  \A n \in 0 .. CountRange - 1, m \in 0 .. UART_QUEUE_ITEMS - 1 :
    /\ n = m => (n + 1) % CountRange = m + 1
    /\ AtLeastOne(n) = m + 1 => AtLeastOne((n + 1) % CountRange) = m + 2
<1> TAKE n \in 0 .. CountRange - 1, m \in 0 .. UART_QUEUE_ITEMS - 1
<1>1. (n + 1) % CountRange = IF n = CountRange - 1 THEN 0 ELSE n + 1
  BY Sizes
<1>2. ASSUME n = m PROVE (n + 1) % CountRange = m + 1
  BY <1>1, <1>2, Sizes
<1>3. ASSUME AtLeastOne(n) = m + 1 PROVE AtLeastOne((n + 1) % CountRange) = m + 2
  <2>1. n = m + 1
    BY <1>3, Sizes DEF AtLeastOne
  <2> QED
    BY <1>1, <2>1, Sizes DEF AtLeastOne
<1> QED
  BY <1>2, <1>3

\* Before a byte comes in, there is room for the lines in hand and in the ring in the count.
LEMMA EndCounted ==
  ASSUME CountInv, ChainInv, LineInv, CountedInv, kept < UART_QUEUE_ITEMS, pc # "countStore",
         line' = line + 1, msgCount' = (msgCount + 1) % CountRange, First' = First,
         UNCHANGED <<pc, msg, dataOut, reg>>
  PROVE  /\ pc \in {"idle", "handle"} => msgCount' = line' - First'[1]
         /\ pc \in {"check", "advance"} => AtLeastOne(msgCount') = line' - First'[1]
         /\ pc = "clearFull" => AtLeastOne(msgCount') = line' - dataOut.line
         /\ pc = "countLoad" => AtLeastOne(msgCount') = line' - First'[1] + 1
<1>1. /\ First[1] \in Nat /\ line \in Nat /\ First[1] <= line /\ line - First[1] <= kept
      /\ dataOut.line \in Nat /\ msgCount \in 0 .. CountRange - 1 /\ kept \in Nat
  BY LinesFit, LineTypes, RingTypes
<1>2. AtLeastOne(msgCount) \in Nat /\ AtLeastOne(msgCount) >= 1
  BY <1>1, CountArithmetic
<1>3. ASSUME NEW m \in Int, msgCount = m, m >= 0, m < UART_QUEUE_ITEMS PROVE msgCount' = m + 1
  <2>1. m \in 0 .. UART_QUEUE_ITEMS - 1
    BY <1>3, Sizes
  <2> QED
    BY <1>1, <1>3, <2>1, CountOneMore
<1>4. ASSUME NEW m \in Int, AtLeastOne(msgCount) = m, m <= UART_QUEUE_ITEMS
      PROVE  AtLeastOne(msgCount') = m + 1
  <2>1. m - 1 \in 0 .. UART_QUEUE_ITEMS - 1 /\ AtLeastOne(msgCount) = (m - 1) + 1
    BY <1>2, <1>4, Sizes
  <2>2. AtLeastOne(msgCount') = (m - 1) + 2
    BY <1>1, <2>1, CountOneMore
  <2> QED
    BY <2>2
<1>5. ASSUME pc \in {"idle", "handle"} PROVE msgCount' = line - First[1] + 1
  <2>1. msgCount = line - First[1]
    BY <1>5 DEF CountedInv
  <2> QED
    BY <1>1, <1>3, <2>1, Sizes
<1>6. ASSUME pc \in {"check", "advance"} PROVE AtLeastOne(msgCount') = line - First[1] + 1
  <2>1. AtLeastOne(msgCount) = line - First[1]
    BY <1>6 DEF CountedInv
  <2> QED
    BY <1>1, <1>4, <2>1, Sizes
<1>7. ASSUME pc = "clearFull" PROVE AtLeastOne(msgCount') = line - dataOut.line + 1
  <2>1. AtLeastOne(msgCount) = line - dataOut.line
    BY <1>7 DEF CountedInv
  <2>2. First[1] = dataOut.line \/ First[1] = dataOut.line + 1
    BY <1>7 DEF LineInv, Follows
  <2>3. line - dataOut.line <= UART_QUEUE_ITEMS
    BY <1>1, <2>2, Sizes
  <2> QED
    BY <1>1, <1>4, <2>1, <2>3
<1>8. ASSUME pc = "countLoad" PROVE AtLeastOne(msgCount') = line - First[1] + 2
  <2>1. AtLeastOne(msgCount) = line - First[1] + 1
    BY <1>8 DEF CountedInv
  <2>2. line - First[1] + 1 <= UART_QUEUE_ITEMS
    BY <1>1, Sizes
  <2> QED
    BY <1>1, <1>4, <2>1, <2>2
<1>9. line' - First'[1] = line - First[1] + 1 /\ line' - dataOut.line = line - dataOut.line + 1
  BY <1>1
<1> QED
  BY <1>1, <1>5, <1>6, <1>7, <1>8, <1>9

LEMMA EscapeCounted ==
  ASSUME CountInv, Abort, Idle
  PROVE  CountedInv'
<1>1. /\ pc' = "idle" /\ msg' = <<>> /\ msgCount' = 0 /\ line' = line /\ entered' = {}
      /\ line \in Nat
  BY Sizes DEF Abort, Idle, service, CountInv, TypeOK
<1>2. First'[1] = line /\ Oldest' = line
  BY <1>1, EscapeLine DEF Oldest
<1>3. line .. line - 1 = {}
  BY <1>1
<1> QED
  BY <1>1, <1>2, <1>3 DEF CountedInv

LEMMA KeyCounted ==
  ASSUME CountInv, RingInv, ChainInv, LineInv, CountedInv, USART_RXNE_ISR,
         clean', ~dropped', ~missed'
  PROVE  CountedInv'
<1>1. CASE Char
  <2>1. First' = First
    BY <1>1, KeyChain
  <2>2. UNCHANGED <<pc, msg, dataOut, reg, msgCount, line, entered>>
    BY <1>1 DEF Char, service
  <2> QED
    BY <2>1, <2>2 DEF CountedInv, Oldest, AtLeastOne
<1>2. CASE End
  <2>1. First' = First
    BY <1>2, KeyChain
  <2>2. /\ UNCHANGED <<pc, msg, dataOut, reg>> /\ line' = line + 1 /\ pc # "countStore"
        /\ msgCount' = (msgCount + 1) % CountRange /\ entered' = entered \cup {line}
    BY <1>2 DEF End, service
  <2>3. kept < UART_QUEUE_ITEMS
    <3>1. [line |-> line, column |-> column + 1, end |-> TRUE] \in Byte
      BY <1>2, Sizes DEF End, Byte, CountInv, TypeOK
    <3> QED
      BY <1>2, <3>1, AddRing DEF End
  <2>4. /\ pc \in {"idle", "handle"} => msgCount' = line' - First'[1]
        /\ pc \in {"check", "advance"} => AtLeastOne(msgCount') = line' - First'[1]
        /\ pc = "clearFull" => AtLeastOne(msgCount') = line' - dataOut.line
        /\ pc = "countLoad" => AtLeastOne(msgCount') = line' - First'[1] + 1
    BY <2>1, <2>2, <2>3, EndCounted
  <2>5. Oldest' = Oldest
    BY <2>1, <2>2 DEF Oldest
  <2>6. entered' = Oldest' .. line' - 1
    <3>1. Oldest \in Int /\ Oldest <= line /\ line \in Int
      BY OldestFits
    <3>2. entered = Oldest .. line - 1
      BY DEF CountedInv
    <3>3. \A a, b \in Int : a <= b => (a .. b - 1) \cup {b} = a .. (b + 1) - 1
      OBVIOUS
    <3> QED
      BY <2>2, <2>5, <3>1, <3>2, <3>3
  <2>7. pc \in {"countLoad", "countStore", "handle"} => First[1] = msg[1].line + 1
    BY DEF CountedInv
  <2> QED
    BY <2>1, <2>2, <2>4, <2>6, <2>7 DEF CountedInv
<1>3. CASE Backspace
  <2>1. First' = First
    BY <1>3, KeyChain
  <2>2. UNCHANGED <<pc, msg, dataOut, reg, msgCount, line, entered>>
    BY <1>3 DEF Backspace, service
  <2> QED
    BY <2>1, <2>2 DEF CountedInv, Oldest, AtLeastOne
<1>4. CASE Abort
  BY <1>4, EscapeCounted DEF Abort
<1> QED
  BY <1>1, <1>2, <1>3, <1>4 DEF USART_RXNE_ISR

LEMMA ServiceCounted ==
  ASSUME CountInv, RingInv, ChainInv, LineInv, CountedInv, console_service, ~missed
  PROVE  CountedInv'
<1>1. CASE Begin
  <2>1. First' = First
    BY <1>1, ChainKept DEF Begin, ring, history
  <2>2. /\ pc = "idle" /\ pc' = "check" /\ msgCount # 0
        /\ UNCHANGED <<msg, dataOut, reg, msgCount, line, entered>>
    BY <1>1 DEF Begin, history
  <2>3. AtLeastOne(msgCount') = line' - First'[1]
    BY <2>1, <2>2 DEF CountedInv, AtLeastOne
  <2> QED
    BY <2>1, <2>2, <2>3 DEF CountedInv, Oldest
<1>2. CASE Check
  <2>1. First' = First
    BY <1>2, ChainKept DEF Check, ring, history
  <2>2. /\ pc = "check" /\ UNCHANGED <<msg, reg, msgCount, line, entered>>
    BY <1>2 DEF Check, history
  <2>3. pc' = "advance"
    BY <1>2, CheckFinds DEF Check
  <2>4. Oldest' = Oldest
    BY <2>1, <2>2, <2>3 DEF Oldest
  <2>5. entered = Oldest .. line - 1 /\ AtLeastOne(msgCount) = line - First[1]
    BY <2>2 DEF CountedInv
  <2>6. AtLeastOne(msgCount)' = AtLeastOne(msgCount)
    BY <2>2 DEF AtLeastOne
  <2> QED
    BY <2>1, <2>2, <2>3, <2>4, <2>5, <2>6 DEF CountedInv
<1>3. CASE Advance
  <2>1. dataOut = queue[pOut] /\ kept >= 1
    BY <1>3, AdvanceRing
  <2>2. First[1] = dataOut.line
    BY <2>1, RingTypes DEF First, Place
  <2>3. /\ pc = "advance" /\ pc' = "clearFull"
        /\ UNCHANGED <<msg, dataOut, reg, msgCount, line, entered>>
    BY <1>3 DEF Advance
  <2>4. msg # <<>> => First[1] = msg[1].line
    BY <2>3 DEF LineInv
  <2>5. Oldest' = Oldest
    BY <2>2, <2>3, <2>4 DEF Oldest
  <2>6. entered = Oldest .. line - 1 /\ AtLeastOne(msgCount) = line - First[1]
    BY <2>3 DEF CountedInv
  <2>7. AtLeastOne(msgCount)' = AtLeastOne(msgCount)
    BY <2>3 DEF AtLeastOne
  <2> QED
    BY <2>2, <2>3, <2>5, <2>6, <2>7 DEF CountedInv
<1>4. CASE ClearFull
  <2>1. First' = First
    BY <1>4, ChainKept DEF ClearFull, history
  <2>2. /\ pc = "clearFull" /\ msg' = Append(msg, dataOut)
        /\ pc' = (IF dataOut.end THEN "countLoad" ELSE "check")
        /\ UNCHANGED <<reg, msgCount, line, entered>>
    BY <1>4, FitsMessage DEF ClearFull, history
  <2>3. /\ First[1] = (IF dataOut.end THEN dataOut.line + 1 ELSE dataOut.line)
        /\ msg # <<>> => dataOut.line = msg[1].line
    BY <2>2 DEF LineInv, Follows
  <2>4. msg' # <<>> /\ msg'[1].line = dataOut.line
    <3>1. msg \in Seq(Byte) /\ dataOut \in Byte
      BY LineTypes
    <3>2. CASE msg = <<>>
      <4>1. msg'[1] = dataOut /\ msg' # <<>>
        BY <2>2, <3>1, <3>2
      <4> QED
        BY <4>1
    <3>3. CASE msg # <<>>
      <4>1. 1 \in 1 .. Len(msg)
        BY <3>1, <3>3
      <4>2. msg' # <<>> /\ msg'[1] = msg[1]
        BY <2>2, <3>1, <4>1, AppendByte
      <4> QED
        BY <2>3, <3>3, <4>2
    <3> QED
      BY <3>2, <3>3
  <2>5. Oldest' = dataOut.line
    BY <2>4 DEF Oldest
  <2>6. Oldest = dataOut.line
    BY <2>2, <2>3 DEF Oldest
  <2>7. entered = Oldest .. line - 1 /\ AtLeastOne(msgCount) = line - dataOut.line
    BY <2>2 DEF CountedInv
  <2>8. AtLeastOne(msgCount)' = AtLeastOne(msgCount)
    BY <2>2 DEF AtLeastOne
  <2>9. line \in Nat /\ dataOut.line \in Nat
    BY LineTypes, RingTypes
  <2>10. CASE dataOut.end
    <3>1. pc' = "countLoad" /\ First'[1] = dataOut.line + 1
      BY <2>1, <2>2, <2>3, <2>10
    <3>2. line - dataOut.line = line - (dataOut.line + 1) + 1
      BY <2>9
    <3> QED
      BY <2>2, <2>4, <2>5, <2>6, <2>7, <2>8, <3>1, <3>2 DEF CountedInv
  <2>11. CASE ~dataOut.end
    <3>1. pc' = "check" /\ First'[1] = dataOut.line
      BY <2>1, <2>2, <2>3, <2>11
    <3> QED
      BY <2>2, <2>5, <2>6, <2>7, <2>8, <3>1 DEF CountedInv
  <2> QED
    BY <2>10, <2>11
<1>5. CASE CountLoad
  <2>1. First' = First
    BY <1>5, ChainKept DEF CountLoad, ring, history
  <2>2. /\ pc = "countLoad" /\ pc' = "countStore" /\ reg' = msgCount
        /\ UNCHANGED <<msg, dataOut, msgCount, line, entered>>
    BY <1>5 DEF CountLoad, history
  <2>3. Oldest' = Oldest
    BY <2>1, <2>2 DEF Oldest
  <2>4. /\ entered = Oldest .. line - 1 /\ AtLeastOne(msgCount) = line - First[1] + 1
        /\ First[1] = msg[1].line + 1
    BY <2>2 DEF CountedInv
  <2>5. AtLeastOne(reg)' = AtLeastOne(msgCount)
    BY <2>2 DEF AtLeastOne
  <2> QED
    BY <2>1, <2>2, <2>3, <2>4, <2>5 DEF CountedInv
<1>6. CASE CountStore
  <2>1. First' = First
    BY <1>6, ChainKept DEF CountStore, ring, history
  <2>2. /\ pc = "countStore" /\ msgCount' = (reg - 1) % CountRange
        /\ UNCHANGED <<msg, dataOut, line, entered>>
    BY <1>6 DEF CountStore, history
  <2>3. pc' = "handle"
    BY <1>6 DEF CountStore, LineInv
  <2>4. /\ entered = Oldest .. line - 1 /\ AtLeastOne(reg) = line - First[1] + 1
        /\ First[1] = msg[1].line + 1
    BY <2>2 DEF CountedInv
  <2>5. msgCount' = AtLeastOne(reg) - 1
    BY <2>2, LineTypes, CountArithmetic
  <2>6. line \in Nat /\ First[1] \in Nat
    BY LineTypes, RingTypes
  <2>7. msgCount' = line - First[1]
    BY <2>4, <2>5, <2>6
  <2>8. Oldest' = Oldest
    BY <2>1, <2>2, <2>3 DEF Oldest
  <2> QED
    BY <2>1, <2>2, <2>3, <2>4, <2>7, <2>8 DEF CountedInv
<1>7. CASE Handle
  <2>1. First' = First
    BY <1>7, ChainKept DEF Handle, ring
  <2>2. /\ pc = "handle" /\ pc' = "idle" /\ msg' = <<>> /\ entered' = entered \ {msg[1].line}
        /\ UNCHANGED <<msgCount, line>>
    BY <1>7 DEF Handle
  <2>3. /\ msg # <<>> /\ entered = Oldest .. line - 1 /\ First[1] = msg[1].line + 1
        /\ msgCount = line - First[1]
    BY <2>2 DEF CountedInv, LineInv
  <2>4. Oldest = msg[1].line /\ Oldest' = First[1]
    BY <2>1, <2>2, <2>3 DEF Oldest
  <2>5. Oldest \in Nat /\ line \in Nat
    BY OldestFits
  <2>6. \A a, b \in Int : (a .. b) \ {a} = a + 1 .. b
    OBVIOUS
  <2>7. entered' = Oldest' .. line' - 1
    BY <2>2, <2>3, <2>4, <2>5, <2>6
  <2> QED
    BY <2>1, <2>2, <2>3, <2>7 DEF CountedInv
<1> QED
  BY <1>1, <1>2, <1>3, <1>4, <1>5, <1>6, <1>7 DEF console_service

LEMMA InitCounted == Init => CountedInv
<1> SUFFICES ASSUME Init PROVE CountedInv
  OBVIOUS
<1>1. First = <<1, 1>>
  BY DEF Init, First, Typed
<1>2. Oldest = 1
  BY <1>1 DEF Init, Oldest
<1>3. 1 .. 0 = {}
  OBVIOUS
<1> QED
  BY <1>1, <1>2, <1>3 DEF Init, CountedInv

LEMMA CountedStep == EInv /\ [Next]_vars => EInv'
<1> SUFFICES ASSUME EInv, [Next]_vars PROVE EInv'
  OBVIOUS
<1>1. IInv' /\ CountInv
  BY StepOK DEF EInv, IInv
<1>2. CASE Abort /\ Idle
  BY <1>1, <1>2, EscapeCounted DEF EInv
<1>3. ASSUME ~(Abort /\ Idle), clean', ~dropped', ~missed' PROVE CountedInv'
  <2>1. clean /\ ~dropped /\ ~missed
    BY <1>1, <1>3, HistoryBefore DEF CountInv
  <2>2. CountInv /\ RingInv /\ ChainInv /\ LineInv /\ CountedInv
    BY <2>1, Zenon DEF EInv, IInv
  <2>3. CASE USART_RXNE_ISR
    BY <1>3, <2>2, <2>3, KeyCounted
  <2>4. CASE console_service
    BY <2>1, <2>2, <2>4, ServiceCounted
  <2>5. CASE UNCHANGED vars
    <3>1. First' = First
      BY <2>2, <2>5, ChainKept DEF vars, ring, history
    <3>2. UNCHANGED <<pc, msg, dataOut, reg, msgCount, line, entered>>
      BY <2>5 DEF vars, service, history
    <3> QED
      BY <2>2, <3>1, <3>2 DEF CountedInv, Oldest, AtLeastOne
  <2> QED
    BY <2>3, <2>4, <2>5 DEF Next
<1> QED
  BY <1>1, <1>2, <1>3 DEF EInv

\* LinesCounted: while nothing was lost, deleted under a pending line or missed, the console that is
\* idle has counted exactly the lines entered and not handled, though the count wraps, and though
\* it is decremented in two steps between which keys come in.
THEOREM LinesCountedHolds == Spec => []LinesCounted
<1>1. EInv => LinesCounted
  <2> SUFFICES ASSUME EInv, pc = "idle", clean, ~dropped, ~missed
               PROVE  msgCount = Cardinality(entered)
    BY DEF LinesCounted
  <2>1. CountInv /\ ChainInv /\ CountedInv
    BY DEF EInv, IInv
  <2>2. msg = <<>>
    BY <2>1 DEF CountInv
  <2>3. entered = First[1] .. line - 1 /\ msgCount = line - First[1]
    BY <2>1, <2>2 DEF CountedInv, Oldest
  <2>4. First[1] \in Nat /\ line \in Nat /\ First[1] <= line
    BY <2>1, LinesFit, RingTypes
  <2>5. Cardinality(entered) = IF First[1] > line - 1 THEN 0 ELSE (line - 1) - First[1] + 1
    <3>1. First[1] \in Int /\ line - 1 \in Int
      BY <2>4
    <3>2. Cardinality(First[1] .. line - 1)
            = IF First[1] > line - 1 THEN 0 ELSE (line - 1) - First[1] + 1
      BY ONLY <3>1, FS_Interval
    <3> QED
      BY <2>3, <3>2
  <2> QED
    BY <2>3, <2>4, <2>5
<1>2. Init => EInv
  BY InitOK, InitCounted DEF EInv
<1> QED
  BY <1>1, <1>2, CountedStep, PTL DEF Spec

-----------------------------------------------------------------------------
(* The refinement of TypedText.                                            *)

\* The i-th slot from o on, and what k slots from o on hold.
Slot(o, i) == (o + i - 1) % UART_QUEUE_ITEMS
Slots(q, o, k) == [i \in 1 .. k |-> q[Slot(o, i)]]

LEMMA SlotFacts ==
  ASSUME NEW o \in Index, NEW i \in 1 .. UART_QUEUE_ITEMS
  PROVE  /\ Slot(o, i) \in Index /\ Dist(Slot(o, i), o) = i - 1
         /\ i = 1 => Slot(o, i) = o
         /\ i > 1 => Slot(o, i) = Slot(Next1(o), i - 1)
<1> USE Sizes DEF Index
<1>1. Slot(o, i) = IF o + i - 1 < UART_QUEUE_ITEMS THEN o + i - 1 ELSE o + i - 1 - UART_QUEUE_ITEMS
  BY DEF Slot
<1>2. Slot(o, i) \in Index /\ (i = 1 => Slot(o, i) = o)
  BY <1>1
<1>3. Dist(Slot(o, i), o) = i - 1
  BY <1>1 DEF Dist
<1>4. i > 1 => Slot(o, i) = Slot(Next1(o), i - 1)
  <2>1. Next1(o) = IF o = UART_QUEUE_ITEMS - 1 THEN 0 ELSE o + 1
    BY NextFacts
  <2>2. CASE o = UART_QUEUE_ITEMS - 1
    <3>1. i > 1 => Slot(Next1(o), i - 1) = (i - 2) % UART_QUEUE_ITEMS
      BY <2>1, <2>2 DEF Slot
    <3>2. i > 1 => (i - 2) % UART_QUEUE_ITEMS = i - 2
      OBVIOUS
    <3> QED
      BY <1>1, <2>2, <3>1, <3>2
  <2>3. CASE o # UART_QUEUE_ITEMS - 1
    BY <2>1, <2>3 DEF Slot
  <2> QED
    BY <2>2, <2>3
<1> QED
  BY <1>2, <1>3, <1>4

LEMMA SlotsSeq ==
  ASSUME NEW q \in [Index -> Byte], NEW o \in Index, NEW k \in 0 .. UART_QUEUE_ITEMS
  PROVE  /\ Slots(q, o, k) \in Seq(Byte) /\ Len(Slots(q, o, k)) = k
         /\ \A i \in 1 .. k : Slots(q, o, k)[i] = q[Slot(o, i)]
<1>1. k \in Nat /\ 1 .. k \subseteq 1 .. UART_QUEUE_ITEMS
  BY Sizes
<1>2. \A i \in 1 .. k : q[Slot(o, i)] \in Byte
  BY <1>1, SlotFacts
<1>3. Slots(q, o, k) \in [1 .. k -> Byte]
  BY <1>2 DEF Slots
<1> QED
  BY <1>1, <1>3 DEF Slots

\* A byte put behind the others.
LEMMA SlotsPut ==
  ASSUME NEW q \in [Index -> Byte], NEW r \in [Index -> Byte], NEW o \in Index,
         NEW k \in 0 .. UART_QUEUE_ITEMS - 1, NEW p \in Index, Dist(p, o) = k,
         \A i \in Index \ {p} : r[i] = q[i]
  PROVE  Slots(r, o, k + 1) = Append(Slots(q, o, k), r[p])
<1> DEFINE s == Slots(r, o, k + 1)
           t == Append(Slots(q, o, k), r[p])
<1>1. k \in Nat /\ k \in 0 .. UART_QUEUE_ITEMS /\ k + 1 \in 0 .. UART_QUEUE_ITEMS
  BY Sizes
<1>2. /\ s \in Seq(Byte) /\ Len(s) = k + 1
      /\ \A i \in 1 .. k + 1 : s[i] = r[Slot(o, i)]
  BY <1>1, SlotsSeq
<1>3. /\ Slots(q, o, k) \in Seq(Byte) /\ Len(Slots(q, o, k)) = k
      /\ \A i \in 1 .. k : Slots(q, o, k)[i] = q[Slot(o, i)]
  BY <1>1, SlotsSeq
<1>4. /\ t \in Seq(Byte) /\ Len(t) = k + 1 /\ t[k + 1] = r[p]
      /\ \A i \in 1 .. k : t[i] = q[Slot(o, i)]
  BY <1>1, <1>3, AppendProperties
<1>5. ASSUME NEW i \in 1 .. k + 1 PROVE s[i] = t[i]
  <2>1. i \in 1 .. UART_QUEUE_ITEMS
    BY <1>1, Sizes
  <2>2. Slot(o, i) \in Index /\ Dist(Slot(o, i), o) = i - 1
    BY <2>1, SlotFacts
  <2>3. CASE i = k + 1
    <3>1. Slot(o, i) = p
      BY <1>1, <2>2, <2>3, DistOneToOne
    <3> QED
      BY <1>2, <1>4, <2>3, <3>1
  <2>4. CASE i # k + 1
    <3>1. i \in 1 .. k /\ Slot(o, i) # p
      BY <1>1, <2>2, <2>4
    <3> QED
      BY <1>2, <1>4, <2>2, <3>1
  <2> QED
    BY <2>3, <2>4
<1> HIDE DEF s, t
<1>6. s = t
  BY <1>2, <1>4, <1>5, SeqEqual
<1> QED
  BY <1>6 DEF s, t

\* The first byte taken out.
LEMMA SlotsTake ==
  ASSUME NEW q \in [Index -> Byte], NEW o \in Index, NEW k \in 1 .. UART_QUEUE_ITEMS
  PROVE  Slots(q, o, k) = <<q[o]>> \o Slots(q, Next1(o), k - 1)
<1> DEFINE s == Slots(q, o, k)
           u == Slots(q, Next1(o), k - 1)
           t == <<q[o]>> \o u
<1>1. /\ k \in Nat /\ k >= 1 /\ k \in 0 .. UART_QUEUE_ITEMS /\ k - 1 \in 0 .. UART_QUEUE_ITEMS
      /\ Next1(o) \in Index
  BY Sizes, NextFacts
<1>2. s \in Seq(Byte) /\ Len(s) = k /\ \A i \in 1 .. k : s[i] = q[Slot(o, i)]
  BY <1>1, SlotsSeq
<1>3. /\ u \in Seq(Byte) /\ Len(u) = k - 1
      /\ \A i \in 1 .. k - 1 : u[i] = q[Slot(Next1(o), i)]
  BY <1>1, SlotsSeq
<1> HIDE DEF s, u
<1>4. <<q[o]>> \in Seq(Byte) /\ Len(<<q[o]>>) = 1 /\ <<q[o]>>[1] = q[o]
  OBVIOUS
<1>5. /\ t \in Seq(Byte) /\ Len(t) = k /\ t[1] = q[o]
      /\ \A i \in 2 .. k : t[i] = u[i - 1]
  BY <1>1, <1>3, <1>4, ConcatProperties
<1>6. ASSUME NEW i \in 1 .. k PROVE s[i] = t[i]
  <2>1. i \in 1 .. UART_QUEUE_ITEMS
    BY <1>1, Sizes
  <2>2. CASE i = 1
    BY <1>2, <1>5, <2>1, <2>2, SlotFacts
  <2>3. CASE i # 1
    <3>1. i > 1 /\ i \in 2 .. k /\ i - 1 \in 1 .. k - 1
      BY <1>1, <2>3
    <3>2. Slot(o, i) = Slot(Next1(o), i - 1)
      BY <2>1, <3>1, SlotFacts
    <3> QED
      BY <1>2, <1>3, <1>5, <3>1, <3>2
  <2> QED
    BY <2>2, <2>3
<1> HIDE DEF t
<1>7. s = t
  BY <1>2, <1>5, <1>6, SeqEqual
<1> QED
  BY <1>7 DEF s, t, u

\* The last byte deleted.
LEMMA SlotsDrop ==
  ASSUME NEW q \in [Index -> Byte], NEW o \in Index, NEW k \in 1 .. UART_QUEUE_ITEMS
  PROVE  Slots(q, o, k - 1) = SubSeq(Slots(q, o, k), 1, k - 1)
<1> DEFINE s == Slots(q, o, k)
           t == Slots(q, o, k - 1)
           u == SubSeq(s, 1, k - 1)
<1>1. k \in Nat /\ k >= 1 /\ k \in 0 .. UART_QUEUE_ITEMS /\ k - 1 \in 0 .. UART_QUEUE_ITEMS
  BY Sizes
<1>2. s \in Seq(Byte) /\ Len(s) = k /\ \A i \in 1 .. k : s[i] = q[Slot(o, i)]
  BY <1>1, SlotsSeq
<1>3. t \in Seq(Byte) /\ Len(t) = k - 1 /\ \A i \in 1 .. k - 1 : t[i] = q[Slot(o, i)]
  BY <1>1, SlotsSeq
<1> HIDE DEF s, t
<1>4. \A i \in 1 .. k - 1 : s[i] \in Byte
  BY <1>1, <1>2
<1>5. /\ u \in Seq(Byte) /\ Len(u) = k - 1 /\ \A i \in 1 .. k - 1 : u[i] = s[i]
  BY <1>1, <1>4, SubSeqProperties
<1>6. \A i \in 1 .. Len(t) : t[i] = u[i]
  BY <1>1, <1>2, <1>3, <1>5
<1> HIDE DEF u
<1>7. t = u
  BY <1>3, <1>5, <1>6, SeqEqual
<1> QED
  BY <1>7 DEF s, t, u

LEMMA TextIs ==
  /\ Text = Taken \o Slots(queue, pOut, kept)
  /\ Text' = Taken' \o Slots(queue', pOut', kept')
BY DEF Text, Slots, Slot

LEMMA TextTypes ==
  ASSUME CountInv
  PROVE  /\ Taken \in Seq(Byte) /\ Slots(queue, pOut, kept) \in Seq(Byte) /\ Text \in Seq(Byte)
         /\ Len(Slots(queue, pOut, kept)) = kept
<1>1. Taken \in Seq(Byte)
  BY LineTypes, AppendProperties DEF Taken
<1>2. Slots(queue, pOut, kept) \in Seq(Byte) /\ Len(Slots(queue, pOut, kept)) = kept
  BY RingTypes, SlotsSeq
<1> QED
  BY <1>1, <1>2, TextIs, ConcatProperties

\* A byte behind the second of two sequences, and what is left behind the first.
LEMMA ConcatAppend ==
  ASSUME NEW s \in Seq(Byte), NEW t \in Seq(Byte), NEW byte \in Byte
  PROVE  s \o Append(t, byte) = Append(s \o t, byte)
<1>1. <<byte>> \in Seq(Byte) /\ s \o t \in Seq(Byte)
  BY ConcatProperties
<1>2. Append(t, byte) = t \o <<byte>> /\ Append(s \o t, byte) = (s \o t) \o <<byte>>
  BY <1>1, AppendIsConcat
<1> QED
  BY <1>1, <1>2, ConcatAssociative

LEMMA ConcatRest ==
  ASSUME NEW s \in Seq(Byte), NEW t \in Seq(Byte)
  PROVE  SubSeq(s \o t, Len(s) + 1, Len(s \o t)) = t
<1> DEFINE w == s \o t
           u == SubSeq(w, Len(s) + 1, Len(w))
<1>1. /\ w \in Seq(Byte) /\ Len(w) = Len(s) + Len(t) /\ Len(s) \in Nat /\ Len(t) \in Nat
      /\ \A i \in 1 .. Len(t) : w[Len(s) + i] = t[i]
  BY ConcatProperties
<1> HIDE DEF w
<1>2. \A i \in Len(s) + 1 .. Len(w) : w[i] \in Byte
  BY <1>1
<1>3. /\ u \in Seq(Byte) /\ Len(u) = Len(t)
      /\ \A i \in 1 .. Len(t) : u[i] = w[Len(s) + i]
  <2>1. /\ u \in Seq(Byte)
        /\ Len(u) = IF Len(s) + 1 <= Len(w) THEN Len(w) - (Len(s) + 1) + 1 ELSE 0
        /\ \A i \in 1 .. Len(w) - (Len(s) + 1) + 1 : u[i] = w[Len(s) + 1 + i - 1]
    BY <1>1, <1>2, SubSeqProperties
  <2>2. Len(w) - (Len(s) + 1) + 1 = Len(t)
    BY <1>1
  <2> HIDE DEF u
  <2>3. Len(u) = Len(t)
    <3>1. Len(s) + 1 <= Len(w) \/ Len(t) = 0
      BY <1>1
    <3>2. ~(Len(s) + 1 <= Len(w)) => Len(t) = 0
      BY <3>1
    <3>3. CASE Len(s) + 1 <= Len(w)
      BY <2>1, <2>2, <3>3
    <3>4. CASE ~(Len(s) + 1 <= Len(w))
      BY <2>1, <3>2, <3>4
    <3> QED
      BY <3>3, <3>4
  <2>4. ASSUME NEW i \in 1 .. Len(t) PROVE u[i] = w[Len(s) + i]
    <3>1. u[i] = w[Len(s) + 1 + i - 1]
      BY <2>1, <2>2
    <3>2. Len(s) + 1 + i - 1 = Len(s) + i
      BY <1>1
    <3> QED
      BY <3>1, <3>2
  <2> QED
    BY <2>1, <2>3, <2>4
<1>4. u = t
  <2>1. \A i \in 1 .. Len(u) : u[i] = t[i]
    BY <1>1, <1>3
  <2> HIDE DEF u
  <2> QED
    BY <1>3, <2>1, SeqEqual
<1> QED
  BY <1>4 DEF w, u

\* The last byte in the ring, while something is on the line being typed, is of that line.
LEMMA LastTyped ==
  ASSUME CountInv, ChainInv, column > 0, kept \in 1 .. UART_QUEUE_ITEMS
  PROVE  ~queue[Slot(pOut, kept)].end
<1> DEFINE i == Slot(pOut, kept)
<1>1. i \in Index /\ Dist(i, pOut) = kept - 1 /\ kept \in Nat /\ column \in Nat
  BY SlotFacts, RingTypes
<1> HIDE DEF i
<1>2. Dist(i, pOut) < kept /\ Dist(i, pOut) + 1 = kept
  BY <1>1
<1>3. Follows(queue[i], <<line, column + 1>>)
  BY <1>1, <1>2 DEF ChainInv, InRing, After, Typed
<1>4. column + 1 # 1
  BY <1>1
<1> QED
  BY <1>3, <1>4 DEF Follows, i

LEMMA EscapeText ==
  ASSUME CountInv, Abort, Idle
  PROVE  Safe' /\ Text' = <<>>
<1>1. kept' = 0 /\ pc' = "idle" /\ msg' = <<>>
  BY DEF Abort, Idle, service, CountInv
<1>2. Taken' = <<>> /\ Slots(queue', pOut', kept') = <<>>
  BY <1>1 DEF Taken, Slots
<1>3. Text' = <<>>
  BY <1>2, TextIs
<1> QED
  BY <1>3 DEF Abort, Safe

\* What a key that is not an escape does to the text.
LEMMA KeyText ==
  ASSUME CountInv, CountInv', RingInv, ChainInv, clean', ~dropped'
  PROVE  /\ Char \/ End => \E b \in Byte : Text' = Append(Text, b)
         /\ Backspace => /\ Text # <<>> /\ ~Text[Len(Text)].end
                         /\ Text' = SubSeq(Text, 1, Len(Text) - 1)
<1> USE RingTypes
<1>1. queue' \in [Index -> Byte]
  BY DEF CountInv, TypeOK
<1>2. ASSUME NEW byte \in Byte, UARTQUEUE_Add(byte), UNCHANGED service
      PROVE  Text' = Append(Text, byte)
  <2>1. /\ pOut' = pOut /\ Dist(pIn, pOut) = kept /\ kept < UART_QUEUE_ITEMS /\ kept' = kept + 1
        /\ queue'[pIn] = byte /\ \A i \in Index \ {pIn} : queue'[i] = queue[i]
    BY <1>2, AddRing
  <2>2. kept \in 0 .. UART_QUEUE_ITEMS - 1
    BY <2>1, Sizes
  <2>3. Slots(queue', pOut, kept + 1) = Append(Slots(queue, pOut, kept), byte)
    BY <1>1, <2>1, <2>2, SlotsPut
  <2>4. Taken' = Taken
    BY <1>2 DEF Taken, service
  <2>5. Text' = Taken \o Append(Slots(queue, pOut, kept), byte)
    BY <2>1, <2>3, <2>4, TextIs
  <2> QED
    BY <2>5, ConcatAppend, TextTypes, TextIs
<1>3. ASSUME Char PROVE \E b \in Byte : Text' = Append(Text, b)
  <2>1. [line |-> line, column |-> column + 1, end |-> FALSE] \in Byte
    BY <1>3, Sizes DEF Char, Byte, CountInv, TypeOK
  <2> QED
    BY <1>2, <1>3, <2>1 DEF Char
<1>4. ASSUME End PROVE \E b \in Byte : Text' = Append(Text, b)
  <2>1. [line |-> line, column |-> column + 1, end |-> TRUE] \in Byte
    BY <1>4, Sizes DEF End, Byte, CountInv, TypeOK
  <2> QED
    BY <1>2, <1>4, <2>1 DEF End
<1>5. ASSUME Backspace
      PROVE  /\ Text # <<>> /\ ~Text[Len(Text)].end
             /\ Text' = SubSeq(Text, 1, Len(Text) - 1)
  <2>1. kept >= 1 /\ kept' = kept - 1
    BY <1>5, BackspaceRing
  <2>2. pc = "idle" /\ pc' = "idle" /\ msg = <<>> /\ msg' = <<>> /\ queue' = queue /\ pOut' = pOut
    BY <1>5 DEF Backspace, Idle, service, CountInv
  <2>3. Taken = <<>> /\ Taken' = <<>>
    BY <2>2 DEF Taken
  <2>4. kept \in 1 .. UART_QUEUE_ITEMS /\ kept \in 0 .. UART_QUEUE_ITEMS
    BY <2>1, Sizes
  <2>5. Text = Slots(queue, pOut, kept) /\ Text' = Slots(queue, pOut, kept - 1)
    <3>1. /\ Slots(queue, pOut, kept) \in Seq(Byte)
          /\ Slots(queue', pOut', kept') \in Seq(Byte)
      BY <2>1, <2>2, <2>4, Sizes, SlotsSeq
    <3> QED
      BY <2>1, <2>2, <2>3, <3>1, TextIs, ConcatEmptySeq
  <2>6. Text \in Seq(Byte) /\ Len(Text) = kept /\ Text[kept] = queue[Slot(pOut, kept)]
    BY <2>4, <2>5, SlotsSeq
  <2>7. ~queue[Slot(pOut, kept)].end
    BY <1>5, <2>4, LastTyped DEF Backspace
  <2> QED
    BY <2>4, <2>5, <2>6, <2>7, SlotsDrop, EmptySeq
<1> QED
  BY <1>3, <1>4, <1>5

LEMMA AppendThenRest ==
  ASSUME NEW s \in Seq(Byte), NEW b \in Byte, NEW rest \in Seq(Byte)
  PROVE  Append(s, b) \o rest = s \o (<<b>> \o rest)
<1>1. <<b>> \in Seq(Byte)
  OBVIOUS
<1>2. Append(s, b) = s \o <<b>>
  BY AppendIsConcat
<1>3. (s \o <<b>>) \o rest = s \o (<<b>> \o rest)
  BY <1>1, ConcatAssociative
<1> QED
  BY <1>2, <1>3

\* What console_service does to it: nothing, but for the step that hands over a line.
LEMMA ServiceText ==
  ASSUME CountInv, CountInv', RingInv, LineInv, console_service
  PROVE  \/ Text' = Text
         \/ \E n \in DOMAIN Text :
              /\ \A i \in 1 .. n : Text[i].end <=> i = n
              /\ Text' = SubSeq(Text, n + 1, Len(Text))
<1> USE RingTypes, LineTypes
<1>1. CASE Begin \/ Check \/ CountLoad \/ CountStore
  <2>1. UNCHANGED <<queue, pOut, kept, msg>> /\ pc # "clearFull" /\ pc' # "clearFull"
    BY <1>1 DEF Begin, Check, CountLoad, CountStore, ring, history
  <2> QED
    BY <2>1, TextIs DEF Taken
<1>2. CASE Advance
  <2>1. /\ kept >= 1 /\ kept' = kept - 1 /\ pOut' = Next1(pOut) /\ dataOut = queue[pOut]
    BY <1>2, AdvanceRing
  <2>2. /\ pc = "advance" /\ pc' = "clearFull" /\ UNCHANGED <<queue, msg, dataOut>>
    BY <1>2 DEF Advance
  <2>3. /\ kept \in 1 .. UART_QUEUE_ITEMS /\ kept - 1 \in 0 .. UART_QUEUE_ITEMS
        /\ Next1(pOut) \in Index
    <3>1. Next1(pOut) \in Index
      BY ZenonT(40), NextFacts
    <3> QED
      BY <2>1, <3>1, Sizes
  <2> DEFINE rest == Slots(queue, Next1(pOut), kept - 1)
  <2>4. rest \in Seq(Byte)
    BY <2>3, SlotsSeq
  <2>5. Text = msg \o (<<dataOut>> \o rest)
    BY <2>1, <2>2, <2>3, SlotsTake, TextIs DEF Taken
  <2>6. Text' = Append(msg, dataOut) \o rest
    BY <2>1, <2>2, TextIs DEF Taken
  <2> HIDE DEF rest
  <2>7. Append(msg, dataOut) \o rest = msg \o (<<dataOut>> \o rest)
    BY <2>4, AppendThenRest
  <2> QED
    BY <2>5, <2>6, <2>7
<1>3. CASE ClearFull
  <2>1. /\ pc = "clearFull" /\ pc' # "clearFull" /\ msg' = Append(msg, dataOut)
        /\ UNCHANGED <<queue, pOut, kept>>
    BY <1>3 DEF ClearFull, history
  <2> QED
    BY <2>1, TextIs DEF Taken
<1>4. CASE Handle
  <2>1. /\ pc = "handle" /\ pc' = "idle" /\ msg' = <<>> /\ UNCHANGED <<queue, pOut, kept>>
    BY <1>4 DEF Handle, ring
  <2> DEFINE rest == Slots(queue, pOut, kept)
  <2>2. rest \in Seq(Byte)
    BY SlotsSeq
  <2>3. Text = msg \o rest /\ Text' = <<>> \o rest
    BY <2>1, TextIs DEF Taken
  <2> HIDE DEF rest
  <2>4. Text' = rest
    BY <2>2, <2>3, ConcatEmptySeq
  <2>5. /\ msg # <<>> /\ Len(msg) \in Nat
        /\ \A i \in DOMAIN msg : msg[i].end <=> i = Len(msg)
    BY <2>1 DEF LineInv, Shifting
  <2>6. Len(msg) >= 1 /\ DOMAIN msg = 1 .. Len(msg)
    BY <2>5, EmptySeq
  <2>7. /\ Text \in Seq(Byte) /\ Len(Text) = Len(msg) + Len(rest) /\ Len(rest) \in Nat
        /\ \A i \in 1 .. Len(msg) : Text[i] = msg[i]
    BY <2>2, <2>3, ConcatProperties
  <2>8. Len(msg) \in DOMAIN Text
    BY <2>5, <2>6, <2>7
  <2>9. \A i \in 1 .. Len(msg) : Text[i].end <=> i = Len(msg)
    BY <2>5, <2>6, <2>7
  <2>10. SubSeq(Text, Len(msg) + 1, Len(Text)) = rest
    BY <2>2, <2>3, ConcatRest
  <2> QED
    BY <2>4, <2>8, <2>9, <2>10
<1> QED
  BY <1>1, <1>2, <1>3, <1>4 DEF console_service

LEMMA TextStep ==
  ASSUME IInv, IInv', Next, Safe'
  PROVE  \/ Text' = <<>>
         \/ /\ Safe
            /\ \/ Text' = Text
               \/ \E b \in Byte : Text' = Append(Text, b)
               \/ /\ Text # <<>> /\ ~Text[Len(Text)].end
                  /\ Text' = SubSeq(Text, 1, Len(Text) - 1)
               \/ \E n \in DOMAIN Text :
                    /\ \A i \in 1 .. n : Text[i].end <=> i = n
                    /\ Text' = SubSeq(Text, n + 1, Len(Text))
<1>1. CountInv /\ CountInv' /\ clean' /\ ~dropped'
  BY DEF IInv, Safe
<1>2. CASE Abort /\ Idle
  BY <1>1, <1>2, EscapeText
<1>3. CASE ~(Abort /\ Idle)
  <2>1. clean /\ ~dropped
    BY <1>1, <1>3, HistoryBefore DEF CountInv
  <2>2. RingInv /\ ChainInv /\ LineInv
    BY <2>1, Zenon DEF IInv
  <2>3. CASE Char \/ End \/ Backspace
    BY <1>1, <2>1, <2>2, <2>3, KeyText DEF Safe
  <2>4. CASE console_service
    BY <1>1, <2>1, <2>2, <2>4, ServiceText DEF Safe
  <2> QED
    BY <1>1, <1>3, <2>3, <2>4 DEF Next, USART_RXNE_ISR, Abort
<1> QED
  BY <1>2, <1>3

\* ImplementsTypedText: the ring filled by the interrupt and emptied by console_service step by step
\* is a text that keys change at its end at once and of which whole first lines are taken, except
\* from a byte dropped, or one of the moments that clean names, to the next escape at an idle
\* console, for every size of ring and buffer.
THEOREM ImplementsTypedTextHolds == Spec => ImplementsTypedText
<1> DEFINE text == IF Safe THEN Text ELSE <<>>
           broken == ~Safe
<1>1. Init => Editor!Init
  <2> SUFFICES ASSUME Init PROVE Safe /\ Text = <<>>
    BY DEF Editor!Init
  <2>1. Taken = <<>> /\ Slots(queue, pOut, kept) = <<>>
    BY DEF Init, Taken, Slots
  <2> QED
    BY <2>1, TextIs DEF Init, Safe
<1>2. IInv /\ IInv' /\ [Next]_vars => [Editor!Next]_<<text, broken>>
  <2> SUFFICES ASSUME IInv, IInv', [Next]_vars PROVE [Editor!Next]_<<text, broken>>
    OBVIOUS
  <2>1. CASE UNCHANGED vars
    <3>1. Text' = Text /\ Safe' = Safe
      BY <2>1 DEF Text, Taken, Safe, vars, ring, service, history
    <3> QED
      BY <3>1
  <2>2. CASE Next /\ Safe'
    <3>1. text' = Text' /\ broken' = FALSE
      BY <2>2
    <3>2. CASE Text' = <<>>
      BY <3>1, <3>2 DEF Editor!Next, Editor!Escape, Editor!Recover
    <3>3. CASE Safe /\ Text' = Text
      BY <3>1, <3>3
    <3>4. CASE Safe /\ \E b \in Byte : Text' = Append(Text, b)
      BY <3>1, <3>4 DEF Editor!Next, Editor!Type
    <3>5. CASE /\ Safe /\ Text # <<>> /\ ~Text[Len(Text)].end
               /\ Text' = SubSeq(Text, 1, Len(Text) - 1)
      BY <3>1, <3>5 DEF Editor!Next, Editor!Erase
    <3>6. CASE /\ Safe
               /\ \E n \in DOMAIN Text :
                    /\ \A i \in 1 .. n : Text[i].end <=> i = n
                    /\ Text' = SubSeq(Text, n + 1, Len(Text))
      BY <3>1, <3>6 DEF Editor!Next, Editor!Obey
    <3> QED
      BY <2>2, <3>2, <3>3, <3>4, <3>5, <3>6, TextStep
  <2>3. CASE ~Safe'
    <3>1. CASE Safe
      BY <2>3, <3>1 DEF Editor!Next, Editor!Break
    <3>2. CASE ~Safe
      BY <2>3, <3>2
    <3> QED
      BY <3>1, <3>2
  <2> QED
    BY <2>1, <2>2, <2>3
<1> QED
  BY <1>1, <1>2, InitOK, StepOK, PTL DEF Spec, ImplementsTypedText, Editor!Spec
=============================================================================
