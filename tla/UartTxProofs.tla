---------------------------- MODULE UartTxProofs ----------------------------
(***************************************************************************)
(* The transmit path of the console for every size of the ring, every size *)
(* of message and everything the handlers may send.                        *)
(***************************************************************************)
EXTENDS UartTx, TLAPS

-----------------------------------------------------------------------------
(* The inductive invariant, in three parts.                                *)

\* Slots from o up to i, going round the ring.
Dist(i, o) == IF i >= o THEN i - o ELSE UARTTX_QUEUE_ITEMS + i - o

\* Fill, without the modulus.
Level == IF pIn = pOut THEN (IF full \/ pc = "compare" THEN UARTTX_QUEUE_ITEMS ELSE 0)
         ELSE Dist(pIn, pOut)

\* The number of the last byte that has left the ring.
Gone == last + (IF dr = 0 THEN 0 ELSE 1) + (IF pc \in {"getClear", "writeDR"} THEN 1 ELSE 0)

\* Bytes that a handler has yet to add; bytes that the main loop has yet to add.
Owed ==
  IF isr \in {"send", "wait"} THEN isrLeft + (job.sends - 1) * job.size
  ELSE IF isr = "kick" THEN (job.sends - 1) * job.size ELSE 0
ToAdd == IF pc = "compare" THEN left - 1 ELSE left

Adding == {"test", "wait", "retest", "write", "advance", "compare"}

\* Types, and the bound on the bytes added: what the senders still owe stays within it.
CountInv ==
  /\ TypeOK
  /\ IF pc \in Adding THEN left >= 1 ELSE left = 0
  /\ IF isr \in {"send", "wait"} THEN isrLeft >= 1 ELSE isrLeft = 0
  /\ isr \in {"send", "wait", "kick"} => job.sends >= 1
  /\ added + ToAdd + Owed <= MaxBytes

\* The indices and what the registers of the main loop know of them.
RingInv ==
  /\ full => (pIn = pOut <=> pc # "getClear")
  /\ pc \in {"write", "advance", "compare"} => ~full
  /\ pc \in {"advance", "compare"} => slot = pIn
  /\ pc = "advance" => queue[pIn] = added + 1
  /\ InGet => dr = 0
  /\ pc = "getAdvance" => slot = pOut /\ ~Empty

\* The bytes in the register, in the main loop's hands and in the ring are numbered in
\* sequence, from the last one sent to the last one added.
InRing ==
  /\ added = Gone + Level
  /\ \A i \in Index : Dist(i, pOut) < Level => queue[i] = Gone + 1 + Dist(i, pOut)

BytesInv ==
  /\ ordered
  /\ dr # 0 => dr = last + 1
  /\ InGet => outByte = last + 1
  /\ InRing

\* With the transmit interrupt off, and no byte sent since without it, either a sender is about
\* to turn it on, or what is in the ring and what is still to come fit into it, so that nobody
\* waits for room.
DrainInv ==
  /\ InGet \/ dr # 0 => txeie \/ unarmed
  /\ ~txeie /\ ~unarmed /\ isr \in {"idle", "txe"} =>
       /\ pc \in {"idle", "wait", "retest", "get"} => Empty
       /\ pc \in Adding => Level + ToAdd <= UARTTX_QUEUE_ITEMS

IInv == CountInv /\ (clean => RingInv /\ BytesInv /\ DrainInv)

-----------------------------------------------------------------------------
(* Going round the ring.                                                   *)

LEMMA WrapFacts ==
  \A i \in Index : /\ Wrap1(i) \in Index /\ Wrap1(i) # i
                   /\ Wrap1(i) = IF i = UARTTX_QUEUE_ITEMS - 1 THEN 0 ELSE i + 1
<1> SUFFICES ASSUME NEW i \in Index
             PROVE  Wrap1(i) = IF i = UARTTX_QUEUE_ITEMS - 1 THEN 0 ELSE i + 1
  BY TransmitConstants DEF Index
<1> QED
  BY TransmitConstants DEF Index, Wrap1

LEMMA DistFacts ==
  \A i, o \in Index :
    /\ Dist(i, o) \in 0 .. UARTTX_QUEUE_ITEMS - 1
    /\ Dist(i, o) = 0 <=> i = o
    /\ i # o => Dist(i, Wrap1(o)) = Dist(i, o) - 1
    /\ Dist(o, Wrap1(o)) = UARTTX_QUEUE_ITEMS - 1
    /\ Wrap1(i) # o => Dist(Wrap1(i), o) = Dist(i, o) + 1
    /\ Wrap1(i) = o => Dist(i, o) = UARTTX_QUEUE_ITEMS - 1
<1> SUFFICES ASSUME NEW i \in Index, NEW o \in Index
             PROVE  /\ Dist(i, o) \in 0 .. UARTTX_QUEUE_ITEMS - 1
                    /\ Dist(i, o) = 0 <=> i = o
                    /\ i # o => Dist(i, Wrap1(o)) = Dist(i, o) - 1
                    /\ Dist(o, Wrap1(o)) = UARTTX_QUEUE_ITEMS - 1
                    /\ Wrap1(i) # o => Dist(Wrap1(i), o) = Dist(i, o) + 1
                    /\ Wrap1(i) = o => Dist(i, o) = UARTTX_QUEUE_ITEMS - 1
  OBVIOUS
<1>1. UARTTX_QUEUE_ITEMS \in Nat /\ UARTTX_QUEUE_ITEMS > 1
  BY TransmitConstants
<1>2. /\ Wrap1(i) = IF i = UARTTX_QUEUE_ITEMS - 1 THEN 0 ELSE i + 1
      /\ Wrap1(o) = IF o = UARTTX_QUEUE_ITEMS - 1 THEN 0 ELSE o + 1
  BY WrapFacts
<1> QED
  BY <1>1, <1>2 DEF Index, Dist

-----------------------------------------------------------------------------
(* Types and counts.                                                       *)

LEMMA InitCount == Init => CountInv
<1> SUFFICES ASSUME Init PROVE CountInv
  OBVIOUS
<1>1. 0 \in Index /\ 0 \in Numbers /\ NoJob \in Job
  BY TransmitConstants DEF Index, Numbers, NoJob, Job
<1>2. 0 \in 0 .. UARTTX_QUEUE_ITEMS
  BY TransmitConstants
<1>3. queue \in [Index -> Numbers]
  BY <1>1 DEF Init
<1>4. TypeOK
  BY <1>1, <1>2, <1>3 DEF Init, TypeOK
<1> QED
  BY <1>4, TransmitConstants DEF Init, CountInv, Adding, ToAdd, Owed

LEMMA CountTypes ==
  ASSUME CountInv
  PROVE  /\ TypeOK /\ 0 \in Index /\ 0 \in Numbers
         /\ UARTTX_QUEUE_ITEMS \in Nat /\ UARTTX_QUEUE_ITEMS > 1 /\ MaxBytes \in Nat
         /\ added \in Nat /\ added <= MaxBytes
         /\ left \in Nat /\ isrLeft \in Nat /\ job.size \in Nat /\ job.sends \in {0, 1, 2, 3}
         /\ Owed \in Nat /\ ToAdd \in Nat
<1> USE TransmitConstants
<1>1. job.sends \in {0, 1, 2, 3} /\ job.size \in Nat
  BY DEF CountInv, TypeOK, Job
<1>2. ASSUME job.sends >= 1 PROVE (job.sends - 1) * job.size \in Nat
  BY <1>1, <1>2
<1>3. /\ TypeOK /\ left \in Nat /\ isrLeft \in Nat /\ added \in Nat /\ added <= MaxBytes
      /\ 0 \in Index /\ 0 \in Numbers
  BY DEF CountInv, TypeOK, Numbers, Index
<1>4. ToAdd \in Nat
  BY <1>3 DEF CountInv, ToAdd, Adding
<1> QED
  BY <1>1, <1>2, <1>3, <1>4 DEF CountInv, Owed

\* A step of the main loop that adds nothing.
LEMMA MainQuiet ==
  ASSUME CountInv, UNCHANGED <<handler, added>>, TypeOK', ToAdd' = ToAdd,
         IF pc' \in Adding THEN left' >= 1 ELSE left' = 0
  PROVE  CountInv'
BY DEF CountInv, handler, Owed

LEMMA MainCount ==
  ASSUME CountInv, Send \/ marble_UART_send
  PROVE  CountInv'
<1> USE CountTypes, WrapFacts
<1> USE DEF Runs
<1>1. CASE Send
  <2>1. PICK n \in MainSizes : added + n <= MaxBytes /\ left' = n
    BY <1>1 DEF Send
  <2>2. n \in 0 .. UARTTX_QUEUE_ITEMS /\ n \in Nat /\ n >= 1
    BY TransmitConstants
  <2>3. TypeOK'
    BY <1>1, <2>1, <2>2 DEF Send, TypeOK, ring, usart, armed, handler, history
  <2>4. Owed' = 0 /\ ToAdd' = n /\ added' = added
    BY <1>1, <2>1 DEF Send, Owed, ToAdd, handler, history
  <2>5. /\ IF isr' \in {"send", "wait"} THEN isrLeft' >= 1 ELSE isrLeft' = 0
        /\ isr' \in {"send", "wait", "kick"} => job'.sends >= 1
    BY <1>1 DEF Send, handler, CountInv
  <2> QED
    BY <1>1, <2>1, <2>2, <2>3, <2>4, <2>5 DEF Send, CountInv, Adding
<1>2. CASE Test
  BY <1>2, MainQuiet DEF Test, TypeOK, ring, usart, armed, handler, history, ToAdd, Adding, CountInv
<1>3. CASE Wait
  BY <1>3, MainQuiet DEF Wait, TypeOK, ring, usart, armed, handler, history, ToAdd, Adding, CountInv
<1>4. CASE Retest
  <2>1. CASE full
    <3>1. TypeOK' /\ left' = 0 /\ pc' = "kick" /\ ToAdd' = 0
      BY <1>4, <2>1 DEF Retest, TypeOK, ring, usart, armed, handler, history, ToAdd
    <3>2. UNCHANGED <<handler, added>>
      BY <1>4 DEF Retest, history
    <3> QED
      BY <3>1, <3>2 DEF CountInv, handler, Owed, Adding
  <2>2. CASE ~full
    BY <1>4, <2>2, MainQuiet
       DEF Retest, TypeOK, ring, usart, armed, handler, history, ToAdd, Adding, CountInv
  <2> QED
    BY <2>1, <2>2
<1>5. CASE Write
  <2>1. added + 1 \in Numbers
    BY <1>5 DEF Write, CountInv, ToAdd, Adding, Numbers
  <2>2. queue' \in [Index -> Numbers]
    BY <1>5, <2>1 DEF Write, TypeOK
  <2> QED
    BY <1>5, <2>2, MainQuiet
       DEF Write, TypeOK, usart, armed, handler, history, ToAdd, Adding, CountInv
<1>6. CASE Advance
  <2>1. TypeOK'
    <3>1. added + 1 \in Numbers
      BY <1>6 DEF Advance, CountInv, ToAdd, Adding, Numbers
    <3> QED
      BY <1>6, <3>1 DEF Advance, TypeOK, usart, armed, handler
  <2>2. ToAdd' = ToAdd - 1 /\ Owed' = Owed /\ added' = added + 1
    BY <1>6 DEF Advance, ToAdd, Owed, handler
  <2> QED
    BY <1>6, <2>1, <2>2 DEF Advance, CountInv, Adding, handler
<1>7. CASE Compare
  <2>1. left >= 1 /\ left' = left - 1 /\ pc = "compare"
        /\ pc' = IF left = 1 THEN "kick" ELSE "test"
    BY <1>7 DEF Compare, CountInv, Adding
  <2>2. left' \in 0 .. UARTTX_QUEUE_ITEMS
    BY <2>1 DEF TypeOK
  <2>3. TypeOK'
    BY <1>7, <2>2 DEF Compare, TypeOK, usart, armed, handler, history
  <2>4. ToAdd' = ToAdd
    BY <2>1 DEF ToAdd
  <2>5. IF pc' \in Adding THEN left' >= 1 ELSE left' = 0
    BY <2>1 DEF Adding
  <2> QED
    BY <1>7, <2>3, <2>4, <2>5, MainQuiet DEF Compare, history
<1>8. CASE Kick
  BY <1>8, MainQuiet DEF Kick, TypeOK, ring, usart, armed, handler, history, ToAdd, Adding, CountInv
<1>9. CASE Enable
  BY <1>9, MainQuiet DEF Enable, TypeOK, ring, handler, history, ToAdd, Adding, CountInv
<1>10. CASE Get
  <2>1. TypeOK'
    BY <1>10 DEF Get, TypeOK, ring, usart, armed, handler
  <2> QED
    BY <1>10, <2>1, MainQuiet DEF Get, ToAdd, Adding, CountInv
<1>11. CASE GetAdvance
  BY <1>11, MainQuiet DEF GetAdvance, TypeOK, usart, armed, handler, history, ToAdd, Adding, CountInv
<1>12. CASE GetClear
  BY <1>12, MainQuiet DEF GetClear, TypeOK, usart, armed, handler, history, ToAdd, Adding, CountInv
<1>13. CASE WriteDR
  BY <1>13, MainQuiet DEF WriteDR, armed, TypeOK, ring, handler, history, ToAdd, Adding, CountInv
<1> QED
  BY <1>1, <1>2, <1>3, <1>4, <1>5, <1>6, <1>7, <1>8, <1>9, <1>10, <1>11, <1>12, <1>13
     DEF marble_UART_send

\* A handler takes up the messages of a job: what it owes is what the job sends.
LEMMA MessagesCount ==
  ASSUME NEW j \in Job, Messages(j)
  PROVE  /\ job' \in Job /\ isrLeft' \in 0 .. UARTTX_QUEUE_ITEMS
         /\ isr' \in {"idle", "send", "kick", "txe"}
         /\ IF isr' \in {"send", "wait"} THEN isrLeft' >= 1 ELSE isrLeft' = 0
         /\ isr' \in {"send", "wait", "kick"} => job'.sends >= 1
         /\ Owed' = j.sends * j.size
<1>1. /\ j.sends \in 0 .. 3 /\ j.size \in 0 .. UARTTX_QUEUE_ITEMS /\ j.size \in Nat
      /\ NoJob \in Job /\ UARTTX_QUEUE_ITEMS \in Nat
  BY TransmitConstants DEF Job, NoJob
<1>2. CASE j.sends = 0
  <2>1. isr' \in {"txe", "idle"} /\ job' = NoJob /\ isrLeft' = 0
    BY <1>2 DEF Messages
  <2>2. Owed' = 0 /\ j.sends * j.size = 0
    BY <1>1, <1>2, <2>1 DEF Owed
  <2> QED
    BY <1>1, <2>1, <2>2
<1>3. CASE j.sends # 0
  <2>1. isr' = (IF j.size = 0 THEN "kick" ELSE "send") /\ job' = j /\ isrLeft' = j.size
    BY <1>3 DEF Messages
  <2>2. Owed' = IF j.size = 0 THEN (j.sends - 1) * j.size ELSE j.size + (j.sends - 1) * j.size
    BY <2>1 DEF Owed
  <2>3. Owed' = j.sends * j.size
    BY <1>1, <1>3, <2>2
  <2> QED
    BY <1>1, <1>3, <2>1, <2>3
<1> QED
  BY <1>2, <1>3

\* What is left of a handler's job after one of its messages.
LEMMA AfterMessageCount ==
  ASSUME CountInv, isr = "kick", AfterMessage
  PROVE  /\ job' \in Job /\ isrLeft' \in 0 .. UARTTX_QUEUE_ITEMS
         /\ isr' \in {"idle", "send", "kick", "txe"}
         /\ IF isr' \in {"send", "wait"} THEN isrLeft' >= 1 ELSE isrLeft' = 0
         /\ isr' \in {"send", "wait", "kick"} => job'.sends >= 1
         /\ Owed' = Owed
<1> DEFINE rest == [job EXCEPT !.sends = @ - 1]
<1>1. job \in Job /\ job.sends >= 1
  BY CountTypes DEF CountInv, TypeOK
<1>2. rest \in Job /\ rest.sends = job.sends - 1 /\ rest.size = job.size
  BY <1>1 DEF Job
<1>3. Owed = rest.sends * rest.size
  BY <1>2 DEF Owed
<1>4. Messages(rest)
  BY DEF AfterMessage
<1> HIDE DEF rest
<1> QED
  BY <1>2, <1>3, <1>4, MessagesCount

LEMMA HandlerCount ==
  ASSUME CountInv, Shift \/ Interrupt \/ Handler
  PROVE  CountInv'
<1> USE CountTypes, WrapFacts
<1>1. CASE Shift
  <2>1. TypeOK'
    BY <1>1 DEF Shift, armed, TypeOK, ring, main, handler
  <2> QED
    BY <1>1, <2>1 DEF Shift, armed, CountInv, main, handler, ToAdd, Owed
<1>2. CASE Interrupt
  <2>1. PICK j \in HandlerJobs : added + left + j.sends * j.size <= MaxBytes /\ Messages(j)
    BY <1>2 DEF Interrupt
  <2>2. j \in Job /\ j.sends * j.size \in Nat
    <3>1. j.sends \in {0, 1, 2, 3} /\ j.size \in Nat
      BY TransmitConstants DEF Job
    <3> QED
      BY <3>1, TransmitConstants
  <2>3. /\ job' \in Job /\ isrLeft' \in 0 .. UARTTX_QUEUE_ITEMS
        /\ isr' \in {"idle", "send", "kick", "txe"}
        /\ IF isr' \in {"send", "wait"} THEN isrLeft' >= 1 ELSE isrLeft' = 0
        /\ isr' \in {"send", "wait", "kick"} => job'.sends >= 1
        /\ Owed' = j.sends * j.size
    BY <2>1, <2>2, MessagesCount
  <2>4. TypeOK'
    BY <1>2, <2>3 DEF Interrupt, TypeOK, ring, usart, armed, main, history
  <2>5. ToAdd' <= left /\ added' = added /\ ToAdd' \in Nat
    BY <1>2 DEF Interrupt, main, history, ToAdd
  <2>6. IF pc' \in Adding THEN left' >= 1 ELSE left' = 0
    BY <1>2 DEF Interrupt, main, CountInv
  <2>7. added' + ToAdd' + Owed' <= MaxBytes
    BY <2>1, <2>2, <2>3, <2>5
  <2> QED
    BY <2>3, <2>4, <2>6, <2>7 DEF CountInv
<1>3. CASE IsrSend
  <2>1. CASE full
    BY <1>3, <2>1 DEF IsrSend, CountInv, TypeOK, ring, history, usart, armed, main, ToAdd, Owed
  <2>2. CASE ~full
    <3>1. /\ HandlerAdd /\ isrLeft' = isrLeft - 1
          /\ isr' = IF isrLeft = 1 THEN "kick" ELSE "send"
          /\ UNCHANGED <<usart, main, job>> /\ isrLeft >= 1 /\ isr \in {"send", "wait"}
          /\ job.sends >= 1
      BY <1>3, <2>2 DEF IsrSend, CountInv
    <3>2. Owed' = Owed - 1 /\ Owed >= 1
      <4>1. (job.sends - 1) * job.size \in Nat
        BY <3>1
      <4> QED
        BY <3>1, <4>1 DEF Owed
    <3>3. added + 1 \in Numbers /\ ToAdd' = ToAdd /\ added' = added + 1
      BY <3>1, <3>2 DEF CountInv, Numbers, HandlerAdd, ToAdd, main
    <3>4. queue' \in [Index -> Numbers]
      BY <3>1, <3>3 DEF HandlerAdd, TypeOK
    <3>5. isrLeft' \in 0 .. UARTTX_QUEUE_ITEMS
      BY <3>1 DEF TypeOK
    <3>6. TypeOK'
      BY <3>1, <3>3, <3>4, <3>5 DEF HandlerAdd, TypeOK, usart, armed, main
    <3> QED
      BY <3>1, <3>2, <3>3, <3>6 DEF CountInv, main
  <2> QED
    BY <2>1, <2>2 DEF TypeOK
<1>4. CASE IsrKick
  <2>1. /\ job' \in Job /\ isrLeft' \in 0 .. UARTTX_QUEUE_ITEMS
        /\ isr' \in {"idle", "send", "kick", "txe"}
        /\ IF isr' \in {"send", "wait"} THEN isrLeft' >= 1 ELSE isrLeft' = 0
        /\ isr' \in {"send", "wait", "kick"} => job'.sends >= 1
        /\ Owed' = Owed
    BY <1>4, AfterMessageCount DEF IsrKick
  <2>2. TypeOK' /\ added' = added
    BY ZenonT(120), <1>4, <2>1
       DEF IsrKick, HandlerGet, HandlerGetsNothing, TypeOK, ring, usart, armed, history, main
  <2> QED
    BY <1>4, <2>1, <2>2 DEF IsrKick, CountInv, main, ToAdd
<1>5. CASE USART_TXE_ISR
  <2>1. /\ isr \in {"idle", "txe"} /\ isr' = "idle" /\ UNCHANGED <<main, job, isrLeft>>
    BY <1>5 DEF USART_TXE_ISR
  <2>2. TypeOK' /\ added' = added
    BY ZenonT(60), <1>5, <2>1
       DEF USART_TXE_ISR, HandlerGet, HandlerGetsNothing, TypeOK, ring, usart, armed, history, main
  <2> QED
    BY <2>1, <2>2 DEF CountInv, main, ToAdd, Owed
<1> QED
  BY <1>1, <1>2, <1>3, <1>4, <1>5 DEF Handler

LEMMA CountStep == CountInv /\ [Next]_vars => CountInv'
<1>1. CountInv /\ UNCHANGED vars => CountInv'
  BY DEF CountInv, TypeOK, vars, ring, usart, armed, main, handler, history, ToAdd, Owed
<1> QED
  BY <1>1, MainCount, HandlerCount DEF Next

\* TypeOK: the indices, the registers of the main loop and of the handlers, the data register
\* and the bytes keep their types, for every ring, every message and every job of a handler.
THEOREM TypeCorrect == Spec => []TypeOK
<1>1. CountInv => TypeOK
  BY DEF CountInv
<1> QED
  BY <1>1, InitCount, CountStep, PTL DEF Spec

-----------------------------------------------------------------------------
(* What is in the ring, before and after a byte is put in or taken out.    *)

LEMMA LevelFacts ==
  ASSUME CountInv, RingInv
  PROVE  /\ Level \in 0 .. UARTTX_QUEUE_ITEMS /\ Gone \in Nat /\ last \in Nat
         /\ Level < UARTTX_QUEUE_ITEMS => Dist(pIn, pOut) = Level
         /\ Empty /\ pc # "compare" => Level = 0
         /\ ~Empty /\ pc # "getClear" => Level >= 1
         /\ full /\ pc # "getClear" => Level = UARTTX_QUEUE_ITEMS
         /\ ~full /\ pc # "compare" => Level = Dist(pIn, pOut)
<1>1. pIn \in Index /\ pOut \in Index /\ last \in Nat /\ full \in BOOLEAN
  BY CountTypes DEF TypeOK, Numbers
<1>2. Gone \in Nat
  BY <1>1 DEF Gone
<1> QED
  BY <1>1, <1>2, CountTypes, DistFacts DEF RingInv, Level, Empty

LEMMA LevelPut ==
  ASSUME CountInv, RingInv, ~full, pc # "compare",
         pIn' = Wrap1(pIn), pOut' = pOut,
         Wrap1(pIn) = pOut => full' \/ pc' = "compare"
  PROVE  Level' = Level + 1 /\ Level < UARTTX_QUEUE_ITEMS
<1>1. pIn \in Index /\ pOut \in Index
  BY CountTypes DEF TypeOK
<1>2. Level = Dist(pIn, pOut) /\ Dist(pIn, pOut) \in 0 .. UARTTX_QUEUE_ITEMS - 1
  BY <1>1, LevelFacts, DistFacts
<1>3. Level' = IF Wrap1(pIn) = pOut THEN UARTTX_QUEUE_ITEMS ELSE Dist(Wrap1(pIn), pOut)
  BY DEF Level, Dist
<1> QED
  BY <1>1, <1>2, <1>3, DistFacts, CountTypes

LEMMA LevelTake ==
  ASSUME CountInv, RingInv, ~Empty, pc # "getClear",
         pIn' = pIn, pOut' = Wrap1(pOut),
         Wrap1(pOut) = pIn => ~full' /\ pc' # "compare"
  PROVE  Level' = Level - 1 /\ Level >= 1
<1>1. pIn \in Index /\ pOut \in Index /\ Wrap1(pOut) \in Index
  BY CountTypes, WrapFacts DEF TypeOK
<1>2. Level = IF pIn = pOut THEN UARTTX_QUEUE_ITEMS ELSE Dist(pIn, pOut)
  BY DEF Level, Empty
<1>3. Level' = IF pIn = Wrap1(pOut) THEN 0 ELSE Dist(pIn, Wrap1(pOut))
  BY DEF Level, Dist
<1>4. Level >= 1
  BY LevelFacts
<1>5. CASE pIn = pOut
  BY <1>1, <1>2, <1>3, <1>4, <1>5, DistFacts, WrapFacts
<1>6. CASE pIn # pOut
  BY <1>1, <1>2, <1>3, <1>4, <1>6, DistFacts
<1> QED
  BY <1>5, <1>6

LEMMA DistOneToOne ==
  \A i, j, o \in Index : Dist(i, o) = Dist(j, o) => i = j
BY CountTypes, TransmitConstants DEF Dist, Index

LEMMA BytesPut ==
  ASSUME CountInv, RingInv, InRing, Level < UARTTX_QUEUE_ITEMS, Level' = Level + 1,
         Gone' = Gone, added' = added + 1, pOut' = pOut, queue'[pIn] = added + 1,
         \A i \in Index \ {pIn} : queue'[i] = queue[i]
  PROVE  InRing'
<1>1. pIn \in Index /\ pOut \in Index
  BY CountTypes DEF TypeOK
<1>2. Level \in Nat /\ Gone \in Nat /\ Dist(pIn, pOut) = Level
  BY LevelFacts
<1>3. added' = Gone' + Level'
  BY <1>2 DEF InRing
<1>4. ASSUME NEW i \in Index, Dist(i, pOut) < Level + 1
      PROVE  queue'[i] = Gone + 1 + Dist(i, pOut)
  <2>1. Dist(i, pOut) \in Nat
    BY <1>1, DistFacts, CountTypes
  <2>2. CASE i = pIn
    BY <1>2, <2>2, CountTypes DEF InRing
  <2>3. CASE i # pIn
    <3>1. Dist(i, pOut) # Level
      BY <1>1, <1>2, <2>3, DistOneToOne
    <3> QED
      BY <1>2, <1>4, <2>1, <2>3, <3>1 DEF InRing
  <2> QED
    BY <2>2, <2>3
<1> QED
  BY <1>3, <1>4 DEF InRing, Dist

LEMMA BytesTake ==
  ASSUME CountInv, RingInv, InRing, Level >= 1, Level' = Level - 1,
         Gone' = Gone + 1, added' = added, pOut' = Wrap1(pOut), queue' = queue
  PROVE  InRing' /\ queue[pOut] = Gone + 1
<1>1. pOut \in Index /\ Wrap1(pOut) \in Index
  BY CountTypes, WrapFacts DEF TypeOK
<1>2. Level \in 0 .. UARTTX_QUEUE_ITEMS /\ Gone \in Nat
  BY LevelFacts
<1>3. added' = Gone' + Level'
  BY <1>2 DEF InRing
<1>4. queue[pOut] = Gone + 1
  <2>1. Dist(pOut, pOut) = 0
    BY <1>1, DistFacts
  <2> QED
    BY <1>1, <1>2, <2>1 DEF InRing
<1>5. ASSUME NEW i \in Index, Dist(i, Wrap1(pOut)) < Level - 1
      PROVE  queue[i] = Gone + 2 + Dist(i, Wrap1(pOut))
  <2>1. i # pOut
    BY <1>1, <1>2, <1>5, DistFacts, CountTypes
  <2>2. Dist(i, Wrap1(pOut)) = Dist(i, pOut) - 1 /\ Dist(i, pOut) \in Nat
    BY <1>1, <2>1, DistFacts, CountTypes
  <2>3. queue[i] = Gone + 1 + Dist(i, pOut)
    BY <1>2, <1>5, <2>2 DEF InRing
  <2> QED
    BY <1>2, <2>2, <2>3
<1> QED
  BY <1>2, <1>3, <1>4, <1>5 DEF InRing, Dist

-----------------------------------------------------------------------------
(* The ring and its bytes, action by action.                               *)

LEMMA InitBytes == Init => RingInv /\ BytesInv /\ DrainInv
<1> SUFFICES ASSUME Init PROVE RingInv /\ BytesInv /\ DrainInv
  OBVIOUS
<1>1. CountInv /\ RingInv
  BY InitCount DEF Init, RingInv, InGet
<1>2. Level = 0 /\ Gone = 0
  BY DEF Init, Level, Gone
<1>3. \A i \in Index : ~(Dist(i, pOut) < 0)
  BY <1>1, CountTypes, DistFacts DEF Init
<1>4. BytesInv
  BY <1>2, <1>3 DEF Init, BytesInv, InRing, InGet
<1>5. DrainInv
  BY DEF Init, DrainInv, InGet, Empty, Adding
<1> QED
  BY <1>1, <1>4, <1>5

\* A step that leaves the ring and the numbers of the bytes as they are.
LEMMA BytesQuiet ==
  ASSUME InRing, Level' = Level, Gone' = Gone, UNCHANGED <<pOut, queue, added>>
  PROVE  InRing'
BY DEF InRing, Dist

LEMMA MainBytes ==
  ASSUME CountInv, RingInv, BytesInv, Send \/ marble_UART_send, clean'
  PROVE  RingInv' /\ BytesInv'
<1> USE DEF Runs
<1>1. CASE Send
  BY <1>1, BytesQuiet
     DEF Send, RingInv, BytesInv, InGet, Empty, Level, Dist, Gone, ring, usart, history
<1>2. CASE Test
  BY <1>2, BytesQuiet
     DEF Test, RingInv, BytesInv, InGet, Empty, Level, Dist, Gone, ring, usart, history
<1>3. CASE Wait
  BY <1>3, BytesQuiet
     DEF Wait, RingInv, BytesInv, InGet, Empty, Level, Dist, Gone, ring, usart, history
<1>4. CASE Retest
  BY <1>4, BytesQuiet
     DEF Retest, RingInv, BytesInv, InGet, Empty, Level, Dist, Gone, ring, usart, history
<1>5. CASE Write
  <2>1. pIn \in Index /\ pOut \in Index /\ queue \in [Index -> Numbers]
    BY CountTypes DEF TypeOK
  <2>2. ~full /\ Level = Dist(pIn, pOut) /\ Level \in Nat
    BY <1>5, LevelFacts DEF Write, RingInv
  <2>3. RingInv'
    BY <1>5, <2>1, <2>2 DEF Write, RingInv, InGet, usart, history
  <2>4. Level' = Level /\ Gone' = Gone
    BY <1>5 DEF Write, Level, Dist, Gone, usart, history
  <2>5. \A i \in Index : Dist(i, pOut) < Level => queue'[i] = queue[i]
    BY <1>5, <2>1, <2>2 DEF Write
  <2>6. InRing'
    BY <1>5, <2>4, <2>5 DEF Write, BytesInv, InRing, Dist, history
  <2> QED
    BY <1>5, <2>3, <2>6 DEF Write, BytesInv, InGet, usart, history
<1>6. CASE Advance
  <2>1. pIn' = Wrap1(pIn) /\ slot' = Wrap1(pIn) /\ ~full /\ queue[pIn] = added + 1
    BY <1>6 DEF Advance, RingInv
  <2>2. RingInv'
    BY <1>6, <2>1 DEF Advance, RingInv, InGet, usart
  <2>3. Level' = Level + 1 /\ Level < UARTTX_QUEUE_ITEMS
    BY <1>6, <2>1, LevelPut DEF Advance
  <2>4. Gone' = Gone
    BY <1>6 DEF Advance, Gone, usart
  <2>5. InRing'
    BY <1>6, <2>1, <2>3, <2>4, BytesPut DEF Advance, BytesInv
  <2> QED
    BY <1>6, <2>2, <2>5 DEF Advance, BytesInv, InGet, usart
<1>7. CASE Compare
  <2>1. slot = pIn /\ ~full /\ full' = (pIn = pOut)
    BY <1>7 DEF Compare, RingInv
  <2>2. pc' \in {"kick", "test"}
    BY <1>7 DEF Compare
  <2>3. Level' = Level /\ Gone' = Gone
    BY <1>7, <2>1, <2>2 DEF Compare, Level, Dist, Gone, usart, history
  <2>4. InRing'
    BY <1>7, <2>3, BytesQuiet DEF Compare, BytesInv, history
  <2> QED
    BY <1>7, <2>1, <2>2, <2>4 DEF Compare, RingInv, BytesInv, InGet, usart, history
<1>8. CASE Kick
  BY <1>8, BytesQuiet
     DEF Kick, RingInv, BytesInv, InGet, Empty, Level, Dist, Gone, ring, usart, history
<1>9. CASE Enable
  BY <1>9, BytesQuiet
     DEF Enable, RingInv, BytesInv, InGet, Empty, Level, Dist, Gone, ring, history
<1>10. CASE Get
  <2>1. Level' = Level /\ Gone' = Gone
    BY <1>10 DEF Get, Level, Dist, Gone, ring, usart
  <2>2. InRing'
    BY <1>10, <2>1, BytesQuiet DEF Get, BytesInv, ring
  <2>3. CASE Empty
    BY <1>10, <2>2, <2>3 DEF Get, RingInv, BytesInv, InGet, ring, usart
  <2>4. CASE ~Empty
    <3>1. dr = 0 /\ pc' = "getAdvance" /\ slot' = pOut /\ outByte' = queue[pOut]
      BY <1>10, <2>4 DEF Get, CONSOLE_USART_TX_DATA_READY
    <3>2. pOut \in Index /\ Dist(pOut, pOut) = 0
      BY CountTypes, DistFacts DEF TypeOK
    <3>3. Level >= 1 /\ Level \in Nat /\ Gone = last /\ last \in Nat
      BY <1>10, <2>4, <3>1, LevelFacts, CountTypes DEF Get, Gone
    <3>4. queue[pOut] = last + 1
      BY <3>2, <3>3 DEF BytesInv, InRing
    <3> QED
      BY <1>10, <2>2, <2>4, <3>1, <3>4 DEF Get, RingInv, BytesInv, InGet, Empty, ring, usart
  <2> QED
    BY <2>3, <2>4
<1>11. CASE GetAdvance
  <2>1. slot = pOut /\ ~Empty /\ dr = 0 /\ pOut' = Wrap1(pOut) /\ pIn' = pIn /\ full' = full
        /\ pc' = "getClear"
    BY <1>11 DEF GetAdvance, RingInv, InGet
  <2>2. full => pIn = pOut
    BY <1>11 DEF GetAdvance, RingInv
  <2>3. pIn \in Index /\ pOut \in Index
    BY CountTypes DEF TypeOK
  <2>4. Wrap1(pOut) = pIn => ~full
    BY <2>2, <2>3, WrapFacts
  <2>5. Level' = Level - 1 /\ Level >= 1
    BY <1>11, <2>1, <2>4, LevelTake DEF GetAdvance
  <2>6. Gone' = Gone + 1
    BY <1>11, <2>1, LevelFacts DEF GetAdvance, Gone, usart, history
  <2>7. InRing'
    BY <1>11, <2>1, <2>5, <2>6, BytesTake DEF GetAdvance, BytesInv, history
  <2>8. RingInv'
    BY <1>11, <2>1, <2>4 DEF GetAdvance, RingInv, InGet, usart
  <2> QED
    BY <1>11, <2>7, <2>8 DEF GetAdvance, BytesInv, InGet, usart, history
<1>12. CASE GetClear
  <2>1. full => pIn # pOut
    BY <1>12 DEF GetClear, RingInv
  <2>2. Level' = Level /\ Gone' = Gone
    BY <1>12, <2>1 DEF GetClear, Level, Dist, Gone, usart, history
  <2>3. InRing'
    BY <1>12, <2>2, BytesQuiet DEF GetClear, BytesInv, history
  <2> QED
    BY <1>12, <2>3 DEF GetClear, RingInv, BytesInv, InGet, usart, history
<1>13. CASE WriteDR
  <2>1. dr = 0 /\ outByte = last + 1 /\ last \in Nat
    BY <1>13, LevelFacts DEF WriteDR, RingInv, BytesInv, InGet
  <2>2. Level' = Level /\ Gone' = Gone
    BY <1>13, <2>1 DEF WriteDR, Level, Dist, Gone, ring, history
  <2>3. InRing'
    BY <1>13, <2>2, BytesQuiet DEF WriteDR, BytesInv, ring, history
  <2> QED
    BY <1>13, <2>1, <2>3 DEF WriteDR, RingInv, BytesInv, InGet, ring, history
<1> QED
  BY <1>1, <1>2, <1>3, <1>4, <1>5, <1>6, <1>7, <1>8, <1>9, <1>10, <1>11, <1>12, <1>13
     DEF marble_UART_send

\* A handler puts a byte into the ring that is not full.
LEMMA HandlerAddBytes ==
  ASSUME CountInv, RingInv, BytesInv, ~full, HandlerAdd, UNCHANGED <<usart, main>>, clean'
  PROVE  RingInv' /\ BytesInv' /\ Level' = Level + 1
<1>1. pIn \in Index /\ pOut \in Index /\ queue \in [Index -> Numbers]
  BY CountTypes DEF TypeOK
<1>2. ~InAdd /\ ~(pc = "getClear" /\ full')
  BY DEF HandlerAdd
<1>3. pIn' = Wrap1(pIn) /\ pOut' = pOut /\ full' = (Wrap1(pIn) = pOut) /\ added' = added + 1
  BY DEF HandlerAdd
<1>4. Level' = Level + 1 /\ Level < UARTTX_QUEUE_ITEMS
  BY <1>2, <1>3, LevelPut DEF InAdd
<1>5. Gone' = Gone
  BY DEF HandlerAdd, Gone, usart, main
<1>6. queue'[pIn] = added + 1 /\ \A i \in Index \ {pIn} : queue'[i] = queue[i]
  BY <1>1 DEF HandlerAdd
<1>7. InRing'
  BY <1>3, <1>4, <1>5, <1>6, BytesPut DEF BytesInv
<1>8. RingInv'
  BY <1>2, <1>3 DEF RingInv, InAdd, InGet, Empty, usart, main
<1> QED
  BY <1>4, <1>7, <1>8 DEF HandlerAdd, BytesInv, InGet, usart, main

\* A handler moves a byte of the ring to the empty data register.
LEMMA HandlerGetBytes ==
  ASSUME CountInv, RingInv, BytesInv, ~Empty, dr = 0, HandlerGet, UNCHANGED main, clean'
  PROVE  RingInv' /\ BytesInv'
<1>1. pIn \in Index /\ pOut \in Index
  BY CountTypes DEF TypeOK
<1>2. ~InGet /\ ~(pc = "compare" /\ Wrap1(pOut) = pIn)
  BY DEF HandlerGet
<1>3. /\ pIn' = pIn /\ pOut' = Wrap1(pOut) /\ full' = FALSE /\ queue' = queue /\ added' = added
      /\ dr' = queue[pOut] /\ last' = last /\ ordered' = ordered /\ pc' = pc
  BY DEF HandlerGet, main
<1>4. Level' = Level - 1 /\ Level >= 1
  BY <1>2, <1>3, LevelTake DEF InGet
<1>5. Gone = last /\ last \in Nat
  BY <1>2, LevelFacts DEF Gone, InGet
<1>6. queue[pOut] = last + 1
  <2>1. Dist(pOut, pOut) = 0 /\ Level \in Nat
    BY <1>1, DistFacts, LevelFacts
  <2> QED
    BY <1>1, <1>4, <1>5, <2>1 DEF BytesInv, InRing
<1>7. Gone' = Gone + 1
  BY <1>2, <1>3, <1>5, <1>6 DEF Gone, InGet
<1>8. InRing'
  BY <1>3, <1>4, <1>7, BytesTake DEF BytesInv
<1>9. RingInv'
  BY <1>2, <1>3 DEF RingInv, InGet, Empty, main
<1> QED
  BY <1>2, <1>3, <1>6, <1>8, <1>9 DEF BytesInv, InGet, main

\* A step of a handler that leaves the ring alone.
LEMMA RingUntouched ==
  ASSUME RingInv, BytesInv, UNCHANGED <<ring, dr, main, added, last, ordered>>
  PROVE  RingInv' /\ BytesInv' /\ Level' = Level
<1>1. Level' = Level /\ Gone' = Gone
  BY DEF Level, Dist, Gone, ring, main
<1>2. InRing'
  BY <1>1, BytesQuiet DEF BytesInv, ring
<1> QED
  BY <1>1, <1>2 DEF RingInv, BytesInv, InGet, Empty, ring, main

LEMMA HandlerBytes ==
  ASSUME CountInv, RingInv, BytesInv, Shift \/ Interrupt \/ Handler, clean'
  PROVE  RingInv' /\ BytesInv'
<1>1. CASE Shift
  <2>1. dr = last + 1 /\ ~InGet /\ last' = last + 1 /\ dr' = 0 /\ ordered' = TRUE
    BY <1>1 DEF Shift, RingInv, BytesInv
  <2>2. Level' = Level /\ Gone' = Gone
    BY <1>1, <2>1, LevelFacts DEF Shift, Level, Dist, Gone, ring, main
  <2>3. InRing'
    BY <1>1, <2>2, BytesQuiet DEF Shift, BytesInv, ring
  <2> QED
    BY <1>1, <2>1, <2>3 DEF Shift, RingInv, BytesInv, InGet, Empty, ring, main
<1>2. CASE Interrupt
  BY <1>2, RingUntouched DEF Interrupt, usart, history
<1>3. CASE IsrSend
  <2>1. CASE full
    BY <1>3, <2>1, RingUntouched DEF IsrSend, usart, history
  <2>2. CASE ~full
    BY <1>3, <2>2, HandlerAddBytes DEF IsrSend
  <2> QED
    BY <2>1, <2>2
<1>4. CASE IsrKick
  <2>1. UNCHANGED main
    BY <1>4 DEF IsrKick
  <2>2. CASE dr # 0
    BY <1>4, <2>1, <2>2, RingUntouched
       DEF IsrKick, CONSOLE_USART_TX_DATA_READY, usart, history
  <2>3. CASE dr = 0 /\ Empty
    BY <1>4, <2>1, <2>3, RingUntouched
       DEF IsrKick, CONSOLE_USART_TX_DATA_READY, HandlerGetsNothing
  <2>4. CASE dr = 0 /\ ~Empty
    BY <1>4, <2>1, <2>4, HandlerGetBytes DEF IsrKick, CONSOLE_USART_TX_DATA_READY
  <2> QED
    BY <2>2, <2>3, <2>4
<1>5. CASE USART_TXE_ISR
  <2>1. UNCHANGED main
    BY <1>5 DEF USART_TXE_ISR
  <2>2. CASE dr # 0
    BY <1>5, <2>1, <2>2, RingUntouched
       DEF USART_TXE_ISR, CONSOLE_USART_TX_DATA_READY, usart, history
  <2>3. CASE dr = 0 /\ Empty
    BY <1>5, <2>1, <2>3, RingUntouched
       DEF USART_TXE_ISR, CONSOLE_USART_TX_DATA_READY, HandlerGetsNothing
  <2>4. CASE dr = 0 /\ ~Empty
    BY <1>5, <2>1, <2>4, HandlerGetBytes DEF USART_TXE_ISR, CONSOLE_USART_TX_DATA_READY
  <2> QED
    BY <2>2, <2>3, <2>4
<1> QED
  BY <1>1, <1>2, <1>3, <1>4, <1>5 DEF Handler

-----------------------------------------------------------------------------
(* The interrupt that empties the ring.                                    *)

LEMMA MainDrain ==
  ASSUME CountInv, RingInv, BytesInv, DrainInv, Send \/ marble_UART_send, clean'
  PROVE  DrainInv'
<1> USE CountTypes DEF Runs
<1>0. Level \in Nat /\ (Empty /\ pc # "compare" => Level = 0)
  BY LevelFacts
<1>1. CASE Send
  <2>1. left' \in 1 .. UARTTX_QUEUE_ITEMS /\ ToAdd' = left'
    BY <1>1, TransmitConstants DEF Send, ToAdd
  <2>2. Level' = Level
    BY <1>1 DEF Send, Level, Dist, ring
  <2> QED
    BY <1>0, <1>1, <2>1, <2>2
       DEF Send, DrainInv, InGet, Empty, Adding, ring, usart, armed, handler
<1>2. CASE Test
  <2>1. full => Level = UARTTX_QUEUE_ITEMS
    BY <1>2, LevelFacts DEF Test
  <2>2. Level' = Level /\ ToAdd' = ToAdd /\ ToAdd >= 1
    BY <1>2 DEF Test, Level, Dist, ToAdd, CountInv, Adding, ring
  <2> QED
    BY <1>0, <1>2, <2>1, <2>2 DEF Test, DrainInv, InGet, Empty, Adding, ring, usart, armed, handler
<1>3. CASE Wait
  <2>1. Level' = Level /\ ToAdd' = ToAdd
    BY <1>3 DEF Wait, Level, Dist, ToAdd, ring
  <2> QED
    BY <1>3, <2>1 DEF Wait, DrainInv, InGet, Empty, Adding, ring, usart, armed, handler
<1>4. CASE Retest
  <2>1. ~full => Level' = Level /\ ToAdd' = ToAdd
    BY <1>4 DEF Retest, Level, Dist, ToAdd, ring
  <2> QED
    BY <1>4, <2>1 DEF Retest, DrainInv, InGet, Empty, Adding, ring, usart, armed, handler
<1>5. CASE Write
  <2>1. Level' = Level /\ ToAdd' = ToAdd
    BY <1>5 DEF Write, Level, Dist, ToAdd
  <2> QED
    BY <1>5, <2>1 DEF Write, DrainInv, InGet, Adding, usart, armed, handler
<1>6. CASE Advance
  <2>1. pIn' = Wrap1(pIn) /\ ~full
    BY <1>6 DEF Advance, RingInv
  <2>2. Level' = Level + 1
    BY <1>6, <2>1, LevelPut DEF Advance
  <2>3. ToAdd' = ToAdd - 1
    BY <1>6 DEF Advance, ToAdd
  <2> QED
    BY <1>0, <1>6, <2>2, <2>3 DEF Advance, DrainInv, InGet, Adding, usart, armed, handler
<1>7. CASE Compare
  <2>1. slot = pIn /\ ~full /\ full' = (pIn = pOut) /\ pc' \in {"kick", "test"}
    BY <1>7 DEF Compare, RingInv
  <2>2. Level' = Level /\ ToAdd' = ToAdd
    BY <1>7, <2>1 DEF Compare, Level, Dist, ToAdd
  <2> QED
    BY <1>7, <2>1, <2>2 DEF Compare, DrainInv, InGet, Adding, usart, armed, handler
<1>8. CASE Kick
  BY <1>8 DEF Kick, DrainInv, InGet, Adding, CONSOLE_USART_TX_DATA_READY, usart, armed, handler
<1>9. CASE Enable
  BY <1>9 DEF Enable, DrainInv
<1>10. CASE Get
  BY <1>10 DEF Get, DrainInv, InGet, Empty, Adding, ring, usart, armed, handler
<1>11. CASE GetAdvance
  BY <1>11 DEF GetAdvance, DrainInv, InGet, Adding, usart, armed, handler
<1>12. CASE GetClear
  BY <1>12 DEF GetClear, DrainInv, InGet, Adding, usart, armed, handler
<1>13. CASE WriteDR
  BY <1>13 DEF WriteDR, armed, DrainInv, InGet, ring, handler
<1> QED
  BY <1>1, <1>2, <1>3, <1>4, <1>5, <1>6, <1>7, <1>8, <1>9, <1>10, <1>11, <1>12, <1>13
     DEF marble_UART_send

LEMMA HandlerDrain ==
  ASSUME CountInv, RingInv, BytesInv, DrainInv, Shift \/ Interrupt \/ Handler, clean'
  PROVE  DrainInv'
<1> USE CountTypes
<1>1. CASE Shift
  BY <1>1 DEF Shift, armed, DrainInv, InGet, Empty, Level, Dist, ToAdd, ring, main, handler
<1>2. CASE Interrupt
  <2>1. isr = "idle" /\ UNCHANGED <<ring, usart, main>>
    BY <1>2 DEF Interrupt
  <2>2. Level' = Level /\ ToAdd' = ToAdd
    BY <2>1 DEF Level, Dist, ToAdd, ring, main
  <2> QED
    BY <2>1, <2>2 DEF DrainInv, InGet, Empty, ring, usart, armed, main
<1>3. CASE IsrSend
  <2>1. isr' \in {"send", "wait", "kick"} /\ UNCHANGED <<usart, main>>
    BY <1>3 DEF IsrSend
  <2> QED
    BY <2>1 DEF DrainInv, InGet, usart, armed, main
<1>4. CASE IsrKick
  <2>1. CASE dr = 0
    <3>1. txeie'
      BY <1>4, <2>1 DEF IsrKick, CONSOLE_USART_TX_DATA_READY
    <3> QED
      BY <3>1 DEF DrainInv
  <2>2. CASE dr # 0
    <3>1. UNCHANGED <<usart, main>> /\ (txeie' \/ unarmed')
      BY <1>4, <2>2 DEF IsrKick, DrainInv, CONSOLE_USART_TX_DATA_READY, usart, armed
    <3> QED
      BY <2>2, <3>1 DEF DrainInv, InGet, usart, armed, main
  <2> QED
    BY <2>1, <2>2
<1>5. CASE USART_TXE_ISR
  <2>1. CASE dr = 0 /\ Empty
    <3>1. ~InGet /\ pc # "compare" /\ UNCHANGED <<ring, dr, main>> /\ isr' = "idle"
      BY <1>5, <2>1 DEF USART_TXE_ISR, CONSOLE_USART_TX_DATA_READY, HandlerGetsNothing
    <3>2. Level = 0 /\ Level' = Level
      BY <2>1, <3>1, LevelFacts DEF Level, Dist, ring, main
    <3>3. ToAdd' = left /\ left \in 0 .. UARTTX_QUEUE_ITEMS
      BY <3>1 DEF ToAdd, main, TypeOK
    <3> QED
      BY <2>1, <3>1, <3>2, <3>3 DEF DrainInv, InGet, Empty, ring, main
  <2>2. CASE ~(dr = 0 /\ Empty)
    <3>1. /\ txeie' = txeie /\ (txeie' \/ unarmed') /\ UNCHANGED main
          /\ dr' = dr \/ ~InGet
      BY <1>5, <2>2
         DEF USART_TXE_ISR, HandlerGet, DrainInv, CONSOLE_USART_TX_DATA_READY, usart, armed
    <3> QED
      BY <3>1 DEF DrainInv, InGet, main
  <2> QED
    BY <2>1, <2>2
<1> QED
  BY <1>1, <1>2, <1>3, <1>4, <1>5 DEF Handler

-----------------------------------------------------------------------------
(* The invariant, and what it means for the runs' properties.              *)

LEMMA InitOK == Init => IInv
BY InitCount, InitBytes DEF IInv

\* Once a handler has touched the ring at a bad moment, nothing is claimed any more.
LEMMA CleanBefore ==
  ASSUME TypeOK, Next, clean'
  PROVE  clean
BY DEF TypeOK, Next, Shift, Send, marble_UART_send, Test, Wait, Retest, Write, Advance, Compare,
       Kick, Enable, Get, GetAdvance, GetClear, WriteDR, Interrupt, Handler, IsrSend, IsrKick,
       USART_TXE_ISR, HandlerAdd, HandlerGet, HandlerGetsNothing, history

LEMMA StepOK == IInv /\ [Next]_vars => IInv'
<1>1. ASSUME IInv, Next PROVE IInv'
  <2>1. CountInv /\ CountInv'
    BY <1>1, CountStep DEF IInv
  <2>2. ASSUME clean' PROVE RingInv' /\ BytesInv' /\ DrainInv'
    <3>1. RingInv /\ BytesInv /\ DrainInv
      BY <1>1, <2>1, <2>2, CleanBefore DEF IInv, CountInv
    <3> QED
      BY <1>1, <2>1, <2>2, <3>1, MainBytes, HandlerBytes, MainDrain, HandlerDrain DEF Next
  <2> QED
    BY <2>1, <2>2 DEF IInv
<1>2. ASSUME IInv, UNCHANGED vars PROVE IInv'
  <2>1. CountInv'
    BY <1>2, CountStep DEF IInv
  <2>2. UNCHANGED <<Level, Gone, ToAdd, clean>>
    BY <1>2 DEF vars, ring, usart, armed, main, history, Level, Dist, Gone, ToAdd
  <2>3. CASE clean
    <3>1. RingInv' /\ BytesInv'
      BY <1>2, <2>3, RingUntouched DEF IInv, vars, usart, armed, history
    <3>2. DrainInv'
      BY <1>2, <2>2, <2>3
         DEF IInv, DrainInv, InGet, Empty, Adding, vars, ring, usart, armed, main, handler
    <3> QED
      BY <2>1, <3>1, <3>2 DEF IInv
  <2> QED
    BY <2>1, <2>2, <2>3 DEF IInv
<1> QED
  BY <1>1, <1>2

\* The bytes that Fill counts, and the slots that Pipeline reads them from.
LEMMA FillIsLevel ==
  ASSUME TypeOK
  PROVE  Fill = Level
<1>1. pIn \in Index /\ pOut \in Index /\ UARTTX_QUEUE_ITEMS \in Nat /\ UARTTX_QUEUE_ITEMS > 1
  BY TransmitConstants DEF TypeOK
<1>2. CASE pIn > pOut
  BY <1>1, <1>2 DEF Fill, Level, Dist, Index
<1>3. CASE pIn < pOut
  <2>1. (pIn - pOut) % UARTTX_QUEUE_ITEMS = UARTTX_QUEUE_ITEMS + pIn - pOut
    BY <1>1, <1>3 DEF Index
  <2> QED
    BY <1>1, <1>3, <2>1 DEF Fill, Level, Dist, Index
<1>4. CASE pIn = pOut
  BY <1>4 DEF Fill, Level
<1> QED
  BY <1>1, <1>2, <1>3, <1>4 DEF Index

LEMMA SlotFacts ==
  ASSUME NEW o \in Index, NEW i \in 1 .. UARTTX_QUEUE_ITEMS
  PROVE  (o + i - 1) % UARTTX_QUEUE_ITEMS \in Index
         /\ Dist((o + i - 1) % UARTTX_QUEUE_ITEMS, o) = i - 1
<1>1. UARTTX_QUEUE_ITEMS \in Nat /\ UARTTX_QUEUE_ITEMS > 1
  BY TransmitConstants
<1>2. (o + i - 1) % UARTTX_QUEUE_ITEMS =
        IF o + i - 1 < UARTTX_QUEUE_ITEMS THEN o + i - 1 ELSE o + i - 1 - UARTTX_QUEUE_ITEMS
  BY <1>1 DEF Index
<1> QED
  BY <1>1, <1>2 DEF Index, Dist

LEMMA NumberedFrom ==
  ASSUME NEW k \in Nat, NEW m \in Nat
  PROVE  /\ <<>> \o [i \in 1 .. m |-> k + i] = [i \in 1 .. m |-> k + i]
         /\ <<k + 1>> \o [i \in 1 .. m |-> k + 1 + i] = [i \in 1 .. m + 1 |-> k + i]
<1>1. [i \in 1 .. m |-> k + i] \in Seq(Nat) /\ [i \in 1 .. m |-> k + 1 + i] \in Seq(Nat)
  OBVIOUS
<1> QED
  BY <1>1

LEMMA PipelineNumbered ==
  ASSUME CountInv, RingInv, BytesInv
  PROVE  Pipeline = [i \in 1 .. added - last |-> last + i]
<1> DEFINE InFill == [i \in 1 .. Fill |-> queue[(pOut + i - 1) % UARTTX_QUEUE_ITEMS]]
<1>1. /\ Fill = Level /\ Level \in 0 .. UARTTX_QUEUE_ITEMS /\ Level \in Nat
      /\ Gone \in Nat /\ last \in Nat /\ pOut \in Index
  BY CountTypes, LevelFacts, FillIsLevel DEF TypeOK
<1>2. InFill = [i \in 1 .. Level |-> Gone + i]
  <2>1. ASSUME NEW i \in 1 .. Level
        PROVE  queue[(pOut + i - 1) % UARTTX_QUEUE_ITEMS] = Gone + i
    <3>1. i \in 1 .. UARTTX_QUEUE_ITEMS
      BY <1>1, CountTypes
    <3>2. /\ (pOut + i - 1) % UARTTX_QUEUE_ITEMS \in Index
          /\ Dist((pOut + i - 1) % UARTTX_QUEUE_ITEMS, pOut) = i - 1
      BY <1>1, <3>1, SlotFacts
    <3> QED
      BY <1>1, <3>2 DEF BytesInv, InRing
  <2> QED
    BY <1>1, <2>1
<1>3. added = Gone + Level
  BY DEF BytesInv, InRing
<1>4. CASE dr = 0 /\ pc \notin {"getClear", "writeDR"}
  <2>1. Gone = last /\ Held = <<>>
    BY <1>1, <1>4 DEF Gone, Held
  <2>2. Pipeline = (<<>> \o <<>>) \o InFill
    BY <1>4, <2>1 DEF Pipeline
  <2> QED
    BY <1>1, <1>2, <1>3, <2>1, <2>2, NumberedFrom
<1>5. CASE dr # 0
  <2>1. dr = last + 1 /\ Gone = last + 1 /\ Held = <<>>
    BY <1>1, <1>5 DEF RingInv, BytesInv, InGet, Gone, Held
  <2>2. Pipeline = (<<last + 1>> \o <<>>) \o InFill
    BY <1>5, <2>1 DEF Pipeline
  <2>3. <<last + 1>> \o <<>> = <<last + 1>> /\ added - last = Level + 1
    BY <1>1, <1>3, <2>1
  <2>4. InFill = [i \in 1 .. Level |-> last + 1 + i]
    BY <1>2, <2>1
  <2>5. Pipeline = <<last + 1>> \o [i \in 1 .. Level |-> last + 1 + i]
    BY <2>2, <2>3, <2>4
  <2> HIDE DEF InFill
  <2> QED
    BY <1>1, <2>3, <2>5, NumberedFrom
<1>6. CASE dr = 0 /\ pc \in {"getClear", "writeDR"}
  <2>1. outByte = last + 1 /\ Gone = last + 1 /\ Held = <<last + 1>>
    BY <1>1, <1>6 DEF BytesInv, InGet, Gone, Held
  <2>2. Pipeline = (<<>> \o <<last + 1>>) \o InFill
    BY <1>6, <2>1 DEF Pipeline
  <2>3. <<>> \o <<last + 1>> = <<last + 1>> /\ added - last = Level + 1
    BY <1>1, <1>3, <2>1
  <2>4. InFill = [i \in 1 .. Level |-> last + 1 + i]
    BY <1>2, <2>1
  <2>5. Pipeline = <<last + 1>> \o [i \in 1 .. Level |-> last + 1 + i]
    BY <2>2, <2>3, <2>4
  <2> HIDE DEF InFill
  <2> QED
    BY <1>1, <2>3, <2>5, NumberedFrom
<1> QED
  BY <1>4, <1>5, <1>6

\* BytesKept: every byte that printf, an echo or another handler puts into the ring leaves it
\* once and in order, though no lock keeps the senders apart, as long as no handler touches the
\* ring at one of the moments that clean names.
THEOREM BytesKeptHolds == Spec => []BytesKept
<1>1. IInv => BytesKept
  BY PipelineNumbered DEF IInv, BytesKept, BytesInv
<1> QED
  BY <1>1, InitOK, StepOK, PTL DEF Spec

\* Draining: with the same reservation, no output is left in the ring with the interrupt off
\* when marble_UART_send has returned, and none waits for room that nobody makes, unless since the
\* interrupt was last set a byte went out with it clear (USART_TXE_ISR does not look at TXEIE).
THEOREM DrainingHolds == Spec => []Draining
<1>1. IInv => Draining
  BY DEF IInv, DrainInv, Draining
<1> QED
  BY <1>1, InitOK, StepOK, PTL DEF Spec

-----------------------------------------------------------------------------
(* The refinement of ByteStream.                                           *)

\* No more than the ring and one hand hold.
LEMMA InTransit ==
  ASSUME CountInv, RingInv, BytesInv
  PROVE  added = Gone + Level /\ Gone \in {last, last + 1} /\ added - last \in Nat
<1>1. last \in Nat /\ Level \in Nat /\ added = Gone + Level
  BY LevelFacts, CountTypes DEF BytesInv, InRing
<1>2. ~(dr # 0 /\ pc \in {"getClear", "writeDR"})
  BY DEF RingInv, InGet
<1>3. Gone \in {last, last + 1}
  BY <1>1, <1>2 DEF Gone
<1> QED
  BY <1>1, <1>3

LEMMA RoomLeft ==
  ASSUME CountInv, RingInv, BytesInv, ~full, pc # "compare"
  PROVE  added - last < UARTTX_QUEUE_ITEMS + 1
<1>1. pIn \in Index /\ pOut \in Index
  BY CountTypes DEF TypeOK
<1>2. Level = Dist(pIn, pOut) /\ last \in Nat
  BY LevelFacts
<1>3. Level \in Nat /\ Level < UARTTX_QUEUE_ITEMS
  BY <1>1, <1>2, DistFacts, CountTypes
<1>4. added = Gone + Level /\ Gone \in {last, last + 1}
  BY InTransit
<1> QED
  BY <1>2, <1>3, <1>4, CountTypes

\* What is on its way is numbered from the byte after the last one sent.
Numbered ==
  /\ Pipeline = [i \in 1 .. added - last |-> last + i]
  /\ last \in Nat /\ added \in Nat /\ added <= MaxBytes

\* What a step does to the numbers of the bytes added and sent.
LEMMA NumbersStep ==
  ASSUME CountInv, RingInv, BytesInv, Next, clean'
  PROVE  \/ added' = added /\ last' = last
         \/ added' = added + 1 /\ last' = last /\ added - last < UARTTX_QUEUE_ITEMS + 1
         \/ added' = added /\ last' = last + 1 /\ added - last >= 1
<1>1. CASE Shift
  <2>1. dr # 0 /\ dr = last + 1 /\ last' = last + 1 /\ added' = added
    BY <1>1 DEF Shift, armed, BytesInv
  <2>2. /\ Level \in 0 .. UARTTX_QUEUE_ITEMS /\ last \in Nat /\ added = Gone + Level
        /\ Gone = last + 1
    BY <2>1, LevelFacts DEF BytesInv, InRing, Gone, RingInv, InGet
  <2>3. added - last >= 1
    BY <2>2, CountTypes
  <2> QED
    BY <2>1, <2>3
<1>2. CASE Advance
  <2>1. added' = added + 1 /\ last' = last /\ ~full /\ pc # "compare"
    BY <1>2 DEF Advance, Runs, RingInv
  <2> QED
    BY <2>1, RoomLeft
<1>3. CASE IsrSend
  <2>1. CASE full
    BY <1>3, <2>1 DEF IsrSend, history
  <2>2. CASE ~full
    <3>1. added' = added + 1 /\ last' = last /\ pc # "compare"
      BY <1>3, <2>2 DEF IsrSend, HandlerAdd, InAdd
    <3> QED
      BY <2>2, <3>1, RoomLeft
  <2> QED
    BY <2>1, <2>2
<1>4. CASE \/ Send \/ Test \/ Wait \/ Retest \/ Write \/ Compare \/ Kick \/ Enable
           \/ Get \/ GetAdvance \/ GetClear \/ WriteDR \/ Interrupt \/ IsrKick \/ USART_TXE_ISR
  BY <1>4 DEF Send, Test, Wait, Retest, Write, Compare, Kick, Enable, Get, GetAdvance, GetClear,
              WriteDR, Interrupt, IsrKick, USART_TXE_ISR, HandlerGet, HandlerGetsNothing, history
<1> QED
  BY <1>1, <1>2, <1>3, <1>4 DEF Next, marble_UART_send, Handler

\* Putting the next number at the end, and taking the first one.
LEMMA NumbersInSequence ==
  ASSUME NEW k \in Nat, NEW m \in Nat
  PROVE  LET s == [i \in 1 .. m |-> k + i]
         IN  /\ Len(s) = m
             /\ Append(s, k + m + 1) = [i \in 1 .. m + 1 |-> k + i]
             /\ m >= 1 => /\ s # <<>> /\ Head(s) = k + 1
                          /\ Tail(s) = [i \in 1 .. m - 1 |-> k + 1 + i]
<1> DEFINE s == [i \in 1 .. m |-> k + i]
<1>1. s \in Seq(Nat) /\ Len(s) = m
  OBVIOUS
<1>2. Append(s, k + m + 1) = [i \in 1 .. m + 1 |-> k + i]
  BY <1>1
<1>3. ASSUME m >= 1
      PROVE  s # <<>> /\ Head(s) = k + 1 /\ Tail(s) = [i \in 1 .. m - 1 |-> k + 1 + i]
  BY <1>1, <1>3
<1> QED
  BY <1>1, <1>2, <1>3

\* ImplementsByteStream: the main loop, the handlers and the transmitter together are one queue of
\* bytes, of limited length and in order, for every size of ring and whatever they send, until a
\* handler touches the ring at one of the moments that clean names.
THEOREM ImplementsByteStreamHolds == Spec => ImplementsByteStream
<1> DEFINE pending == IF clean THEN Pipeline ELSE <<>>
           sent == IF clean THEN last ELSE 0
           broken == ~clean
<1>1. Init => Stream!Init
  <2> SUFFICES ASSUME Init PROVE pending = <<>> /\ sent = 0 /\ broken = FALSE
    BY DEF Stream!Init
  <2>1. clean /\ last = 0 /\ added = 0
    BY DEF Init
  <2>2. Pipeline = [i \in 1 .. added - last |-> last + i]
    BY InitOK, <2>1, PipelineNumbered DEF IInv
  <2>3. Pipeline = <<>>
    BY <2>1, <2>2
  <2> QED
    BY <2>1, <2>3
<1>2. IInv /\ clean => Numbered
  BY PipelineNumbered, CountTypes DEF IInv, Numbered, TypeOK, Numbers
<1>3. IInv' /\ clean' => Numbered'
  BY <1>2, PTL
<1>4. IInv /\ IInv' /\ [Next]_vars => [Stream!Next]_<<pending, sent, broken>>
  <2> SUFFICES ASSUME IInv, IInv', [Next]_vars PROVE [Stream!Next]_<<pending, sent, broken>>
    OBVIOUS
  <2>1. CASE UNCHANGED vars
    <3>1. Pipeline' = Pipeline /\ last' = last /\ clean' = clean
      BY <2>1 DEF Pipeline, Held, Fill, vars, ring, usart, armed, main, history
    <3> QED
      BY <3>1
  <2>2. CASE Next /\ clean'
    <3>1. /\ CountInv /\ RingInv /\ BytesInv /\ clean
          /\ CountInv' /\ RingInv' /\ BytesInv'
      BY <2>2, CleanBefore DEF IInv, CountInv
    <3>2. /\ Pipeline = [i \in 1 .. added - last |-> last + i]
          /\ Pipeline' = [i \in 1 .. added' - last' |-> last' + i]
          /\ last \in Nat /\ added \in Nat /\ added' \in Nat /\ added' <= MaxBytes
      BY <1>2, <1>3, <2>2, <3>1 DEF Numbered
    <3>3. added - last \in Nat
      BY <3>1, InTransit
    <3>4. CASE added' = added /\ last' = last
      BY <2>2, <3>1, <3>2, <3>4
    <3>5. CASE added' = added + 1 /\ last' = last /\ added - last < UARTTX_QUEUE_ITEMS + 1
      <4>1. /\ Len(Pipeline) = added - last
            /\ Append(Pipeline, last + (added - last) + 1) = [i \in 1 .. added - last + 1 |-> last + i]
        BY <3>2, <3>3, NumbersInSequence
      <4>2. last + (added - last) + 1 = added + 1 /\ added' - last' = added - last + 1
        BY <3>2, <3>5
      <4>3. Pipeline' = Append(Pipeline, added + 1)
        BY <3>2, <3>5, <4>1, <4>2
      <4>4. added + 1 \in 1 .. MaxBytes
        BY <3>2, <3>5
      <4>5. Len(pending) < UARTTX_QUEUE_ITEMS + 1 /\ sent' = sent
            /\ pending' = Append(pending, added + 1)
        BY <2>2, <3>1, <3>5, <4>1, <4>3
      <4> QED
        BY <2>2, <3>1, <4>4, <4>5 DEF Stream!Next, Stream!Put
    <3>6. CASE added' = added /\ last' = last + 1 /\ added - last >= 1
      <4>1. /\ Pipeline # <<>> /\ Head(Pipeline) = last + 1
            /\ Tail(Pipeline) = [i \in 1 .. added - last - 1 |-> last + 1 + i]
        BY <3>2, <3>3, <3>6, NumbersInSequence
      <4>2. added' - last' = added - last - 1
        BY <3>2, <3>6
      <4>3. pending # <<>> /\ sent' = Head(pending) /\ pending' = Tail(pending)
        BY <2>2, <3>1, <3>2, <3>6, <4>1, <4>2
      <4> QED
        BY <2>2, <3>1, <4>3 DEF Stream!Next, Stream!Transmit
    <3> QED
      BY <2>2, <3>1, <3>4, <3>5, <3>6, NumbersStep
  <2>3. CASE ~clean'
    <3>1. CASE clean
      BY <2>3, <3>1 DEF Stream!Next, Stream!Break
    <3>2. CASE ~clean
      BY <2>3, <3>2
    <3> QED
      BY <3>1, <3>2
  <2> QED
    BY <2>1, <2>2, <2>3
<1> QED
  BY <1>1, <1>4, InitOK, StepOK, PTL DEF Spec, ImplementsByteStream, Stream!Spec
=============================================================================
