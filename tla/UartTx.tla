------------------------------- MODULE UartTx -------------------------------
(***************************************************************************)
(* The transmit side of the console (uart_fifo.c): the transmit ring, its  *)
(* senders and the transmit interrupt.  printf and marble_UART_send are    *)
(* called by the main loop and by the handlers of the USART (echo, erase)  *)
(* and of the DONE pin.  These handlers and the tick have one priority:    *)
(* each runs to its end between two accesses of the main loop, and none    *)
(* interrupts another.                                                     *)
(***************************************************************************)
EXTENDS Integers, Sequences

CONSTANTS
  UARTTX_QUEUE_ITEMS,
  MainSizes,     \* sizes of the messages of the main loop (a character of printf: 1)
  HandlerJobs,   \* what a handler sends: how many messages, of what size, is it the USART's;
                 \* the end of an empty line sends none
  MaxBytes       \* bound: bytes put into the ring

Job == [sends : 0 .. 3, size : 0 .. UARTTX_QUEUE_ITEMS, usart : BOOLEAN]

ASSUME TransmitConstants ==
  /\ UARTTX_QUEUE_ITEMS \in Nat /\ UARTTX_QUEUE_ITEMS > 1
  /\ MainSizes \subseteq 1 .. UARTTX_QUEUE_ITEMS
  /\ HandlerJobs \subseteq Job
  /\ MaxBytes \in Nat

VARIABLES
  \* UARTTX_queue; the data register (0: TXE) and TXEIE
  pIn, pOut, full, queue, dr, txeie,
  \* the main loop in marble_UART_send: where it is, bytes left, an index and a byte in registers
  pc, left, slot, outByte,
  \* the handler: where it is, its job, bytes left of the message
  isr, job, isrLeft,
  \* history: bytes are numbered as they are put into the ring; the last one sent, were they
  \* sent in order, did no handler touch the ring at a bad moment
  added, last, ordered, clean,
  \* history: since TXEIE was last set, a byte was sent with TXEIE clear
  unarmed

ring == <<pIn, pOut, full, queue>>
armed == <<txeie, unarmed>>
usart == <<dr, armed>>
main == <<pc, left, slot, outByte>>
handler == <<isr, job, isrLeft>>
history == <<added, last, ordered, clean>>
vars == <<ring, usart, main, handler, history>>

Index == 0 .. UARTTX_QUEUE_ITEMS - 1
NoJob == [sends |-> 0, size |-> 0, usart |-> FALSE]

Init ==
  /\ pIn = 0 /\ pOut = 0 /\ full = FALSE /\ queue = [i \in Index |-> 0]
  /\ dr = 0 /\ txeie = FALSE
  /\ pc = "idle" /\ left = 0 /\ slot = 0 /\ outByte = 0
  /\ isr = "idle" /\ job = NoJob /\ isrLeft = 0
  /\ added = 0 /\ last = 0 /\ ordered = TRUE /\ clean = TRUE /\ unarmed = FALSE

Wrap1(i) == (i + 1) % UARTTX_QUEUE_ITEMS
Empty == pIn = pOut /\ ~full
CONSOLE_USART_TX_DATA_READY == dr = 0

InAdd == pc \in {"write", "advance", "compare"}
InGet == pc \in {"getAdvance", "getClear", "writeDR"}

(***************************************************************************)
(* The transmitter takes the byte out of the data register.                *)
(***************************************************************************)
Shift ==
  /\ dr # 0
  /\ ordered' = (ordered /\ dr = last + 1)
  /\ last' = dr /\ dr' = 0
  /\ UNCHANGED <<ring, armed, main, handler, added, clean>>

(***************************************************************************)
(* marble_UART_send in the main loop: first USART_Tx_LL_Queue, with the    *)
(* steps of UARTTXQUEUE_Add for each byte.                                 *)
(***************************************************************************)
Runs(at) == pc = at /\ isr = "idle"

Send ==
  /\ Runs("idle")
  /\ \E n \in MainSizes : added + n <= MaxBytes /\ left' = n
  /\ pc' = "test"
  /\ UNCHANGED <<ring, usart, slot, outByte, handler, history>>

SlipTest ==   \* slip: a byte is put into the ring without a test for room
  /\ Runs("test") /\ pc' = "write"
  /\ UNCHANGED <<ring, usart, left, slot, outByte, handler, history>>

Test ==
  /\ Runs("test")
  /\ pc' = IF full THEN "wait" ELSE "write"
  /\ UNCHANGED <<ring, usart, left, slot, outByte, handler, history>>

\* _USART_Tx_RetryOnEmpty: until there is room, or the time is over; the tick can pass.
Wait ==
  /\ Runs("wait") /\ pc' = "retest"
  /\ UNCHANGED <<ring, usart, left, slot, outByte, handler, history>>

\* The second UARTTXQUEUE_Add; when it fails too the rest of the message is given up.
Retest ==
  /\ Runs("retest")
  /\ IF full THEN pc' = "kick" /\ left' = 0 ELSE pc' = "write" /\ UNCHANGED left
  /\ UNCHANGED <<ring, usart, slot, outByte, handler, history>>

Write ==
  /\ Runs("write")
  /\ queue' = [queue EXCEPT ![pIn] = added + 1]
  /\ slot' = pIn /\ pc' = "advance"
  /\ UNCHANGED <<pIn, pOut, full, usart, left, outByte, handler, history>>

\* pIn steps on from the index in a register, or reading it again.
Advance ==
  /\ Runs("advance") /\ pc' = "compare"
  /\ \E from \in {slot, pIn} : pIn' = Wrap1(from) /\ slot' = Wrap1(from)
  /\ added' = added + 1
  /\ UNCHANGED <<pOut, full, queue, usart, left, outByte, handler, last, ordered, clean>>

SlipLeft ==   \* slip: one byte more than the message has
  /\ Runs("compare")
  /\ \E p \in {slot, pIn} : full' = (full \/ p = pOut)
  /\ left' = left - 1 /\ slot' = 0
  /\ pc' = IF left = 0 THEN "kick" ELSE "test"
  /\ UNCHANGED <<pIn, pOut, queue, usart, outByte, handler, history>>

SlipCompare ==   \* slip: the ring that has filled up is not marked full
  /\ Runs("compare")
  /\ left' = left - 1 /\ slot' = 0
  /\ pc' = IF left = 1 THEN "kick" ELSE "test"
  /\ UNCHANGED <<ring, usart, outByte, handler, history>>

Compare ==
  /\ Runs("compare")
  /\ \E p \in {slot, pIn} : full' = (full \/ p = pOut)
  /\ left' = left - 1 /\ slot' = 0
  /\ pc' = IF left = 1 THEN "kick" ELSE "test"
  /\ UNCHANGED <<pIn, pOut, queue, usart, outByte, handler, history>>

(***************************************************************************)
(* Then it kicks off the transmission, with the steps of UARTTXQUEUE_Get.  *)
(***************************************************************************)
Kick ==
  /\ Runs("kick")
  /\ pc' = IF CONSOLE_USART_TX_DATA_READY THEN "enable" ELSE "idle"
  /\ UNCHANGED <<ring, usart, left, slot, outByte, handler, history>>

SlipEnable ==   \* slip: the interrupt is not enabled
  /\ Runs("enable") /\ pc' = "get"
  /\ UNCHANGED <<ring, usart, left, slot, outByte, handler, history>>

Enable ==
  /\ Runs("enable") /\ pc' = "get"
  /\ txeie' = TRUE /\ unarmed' = FALSE
  /\ UNCHANGED <<ring, dr, left, slot, outByte, handler, history>>

Get ==
  /\ Runs("get")
  /\ IF Empty THEN pc' = "idle" /\ UNCHANGED <<slot, outByte>>
     ELSE pc' = "getAdvance" /\ slot' = pOut /\ outByte' = queue[pOut]
  /\ clean' = (clean /\ (Empty \/ CONSOLE_USART_TX_DATA_READY))
  /\ UNCHANGED <<ring, usart, left, handler, added, last, ordered>>

GetAdvance ==
  /\ Runs("getAdvance") /\ pc' = "getClear"
  /\ \E from \in {slot, pOut} : pOut' = Wrap1(from)
  /\ slot' = 0
  /\ UNCHANGED <<pIn, full, queue, usart, left, outByte, handler, history>>

GetClear ==
  /\ Runs("getClear") /\ pc' = "writeDR"
  /\ full' = FALSE
  /\ UNCHANGED <<pIn, pOut, queue, usart, left, slot, outByte, handler, history>>

WriteDR ==
  /\ Runs("writeDR") /\ pc' = "idle"
  /\ dr' = outByte /\ outByte' = 0
  /\ UNCHANGED <<ring, armed, left, slot, handler, history>>

marble_UART_send ==
  \/ Test \/ Wait \/ Retest \/ Write \/ Advance \/ Compare
  \/ Kick \/ Enable \/ Get \/ GetAdvance \/ GetClear \/ WriteDR

(***************************************************************************)
(* The handlers.                                                           *)
(***************************************************************************)
\* UARTTXQUEUE_Add in one go, of a byte there is room for.
HandlerAdd ==
  /\ queue' = [queue EXCEPT ![pIn] = added + 1]
  /\ pIn' = Wrap1(pIn) /\ full' = (Wrap1(pIn) = pOut)
  /\ added' = added + 1
  /\ clean' = (clean /\ ~InAdd /\ ~(pc = "getClear" /\ full'))
  /\ UNCHANGED <<pOut, last, ordered>>

\* UARTTXQUEUE_Get in one go, of a ring that is not empty, and the write to the register.
HandlerGet ==
  /\ dr' = queue[pOut]
  /\ pOut' = Wrap1(pOut) /\ full' = FALSE
  /\ clean' = (clean /\ ~InGet /\ ~(pc = "compare" /\ Wrap1(pOut) = pIn))
  /\ UNCHANGED <<pIn, queue, added, last, ordered>>

\* The ring looks empty; it may be so for a moment only.
HandlerGetsNothing ==
  /\ clean' = (clean /\ ~InGet /\ pc # "compare")
  /\ UNCHANGED <<ring, dr, added, last, ordered>>

\* A handler goes on with the messages of job j.  CONSOLE_USART_ISR ends with USART_TXE_ISR,
\* also when USART_RXNE_ISR has sent nothing.
Messages(j) ==
  IF j.sends = 0
  THEN isr' = (IF j.usart THEN "txe" ELSE "idle") /\ job' = NoJob /\ isrLeft' = 0
  ELSE isr' = (IF j.size = 0 THEN "kick" ELSE "send") /\ job' = j /\ isrLeft' = j.size

\* A byte comes in, or the DONE pin rises.
Interrupt ==
  /\ isr = "idle"
  /\ \E j \in HandlerJobs : added + left + j.sends * j.size <= MaxBytes /\ Messages(j)
  /\ UNCHANGED <<ring, usart, main, history>>

\* A byte of the handler's message.  A full ring makes it wait (_USART_Tx_RetryOnEmpty): the tick
\* stands still in a handler, so only room ends the wait.
IsrSend ==
  /\ isr \in {"send", "wait"} /\ (isr = "wait" => ~full)
  /\ IF full THEN isr' = "wait" /\ UNCHANGED <<ring, history, isrLeft>>
     ELSE HandlerAdd /\ isrLeft' = isrLeft - 1 /\ isr' = IF isrLeft = 1 THEN "kick" ELSE "send"
  /\ UNCHANGED <<usart, main, job>>

AfterMessage == Messages([job EXCEPT !.sends = @ - 1])

SlipIsrKick ==   \* slip: the kick of a handler writes the data register without a look at it
  /\ isr = "kick"
  /\ txeie' = TRUE /\ unarmed' = FALSE
  /\ IF Empty THEN HandlerGetsNothing ELSE HandlerGet
  /\ AfterMessage
  /\ UNCHANGED main

IsrKick ==
  /\ isr = "kick"
  /\ IF CONSOLE_USART_TX_DATA_READY
     THEN txeie' = TRUE /\ unarmed' = FALSE /\ (IF Empty THEN HandlerGetsNothing ELSE HandlerGet)
     ELSE UNCHANGED <<ring, usart, history>>
  /\ AfterMessage
  /\ UNCHANGED main

\* USART_TXE_ISR, which CONSOLE_USART_ISR also calls after a received byte.  It looks at TXE, not
\* at TXEIE: a byte may go out with TXEIE clear.
USART_TXE_ISR ==
  /\ \/ isr = "txe"
     \/ isr = "idle" /\ txeie /\ CONSOLE_USART_TX_DATA_READY
  /\ isr' = "idle"
  /\ IF ~CONSOLE_USART_TX_DATA_READY THEN UNCHANGED <<ring, usart, history>>
     ELSE IF Empty THEN txeie' = FALSE /\ HandlerGetsNothing /\ UNCHANGED unarmed
     ELSE HandlerGet /\ unarmed' = (unarmed \/ ~txeie) /\ UNCHANGED txeie
  /\ UNCHANGED <<main, job, isrLeft>>

Handler == IsrSend \/ IsrKick \/ USART_TXE_ISR

Next == Shift \/ Send \/ marble_UART_send \/ Interrupt \/ Handler

Spec == Init /\ [][Next]_vars
FairSpec == Spec /\ WF_vars(Shift) /\ WF_vars(Handler) /\ WF_vars(marble_UART_send)

-----------------------------------------------------------------------------
Numbers == 0 .. MaxBytes

TypeOK ==
  /\ pIn \in Index /\ pOut \in Index /\ full \in BOOLEAN /\ queue \in [Index -> Numbers]
  /\ dr \in Numbers /\ txeie \in BOOLEAN
  /\ pc \in {"idle", "test", "wait", "retest", "write", "advance", "compare",
             "kick", "enable", "get", "getAdvance", "getClear", "writeDR"}
  /\ left \in 0 .. UARTTX_QUEUE_ITEMS /\ slot \in Index /\ outByte \in Numbers
  /\ isr \in {"idle", "send", "wait", "kick", "txe"}
  /\ job \in Job /\ isrLeft \in 0 .. UARTTX_QUEUE_ITEMS
  /\ added \in Numbers /\ last \in Numbers /\ ordered \in BOOLEAN /\ clean \in BOOLEAN
  /\ unarmed \in BOOLEAN

\* Bytes in the ring, when the full condition is about to be set or cleared too.
Fill ==
  IF pIn = pOut THEN IF full \/ pc = "compare" THEN UARTTX_QUEUE_ITEMS ELSE 0
  ELSE (pIn - pOut) % UARTTX_QUEUE_ITEMS

\* A byte the main loop has taken out of the ring and not yet written to the register.
Held == IF pc \in {"getClear", "writeDR"} THEN <<outByte>> ELSE <<>>

\* What was put into the ring and has not been sent, oldest first: in the data register, in the
\* main loop's hands, in the ring.
Pipeline ==
  (IF dr = 0 THEN <<>> ELSE <<dr>>) \o Held
    \o [i \in 1 .. Fill |-> queue[(pOut + i - 1) % UARTTX_QUEUE_ITEMS]]

\* Every byte that any sender has put into the ring goes out once and in order, though the main
\* loop and the handlers share the ring without a lock, as long as no handler adds while the main
\* loop is in UARTTXQUEUE_Add (or fills the ring while it is about to clear the full condition), no
\* handler takes a byte while it is in its own UARTTXQUEUE_Get or between its look at the data
\* register and a Get that finds another byte, and none empties the ring between the update of pIn
\* and the test for a full ring.
BytesKept ==
  clean => /\ ordered
           /\ Pipeline = [i \in 1 .. added - last |-> last + i]

\* With the same reservation the main loop, the handlers and the transmitter together are one
\* queue of bytes: no more wait than fit the ring and one hand, each goes in once and at once, and
\* the one that goes out is the oldest, although ring, registers and hands are shared without a lock.
Stream ==
  INSTANCE ByteStream WITH
    Byte <- 1 .. MaxBytes, Capacity <- UARTTX_QUEUE_ITEMS + 1, None <- 0, broken <- ~clean,
    pending <- IF clean THEN Pipeline ELSE <<>>, sent <- IF clean THEN last ELSE 0
ImplementsByteStream == Stream!Spec

\* While bytes are in the ring and nobody is sending, or the main loop waits for room, the
\* interrupt that empties the ring is enabled, unless a byte went out with TXEIE clear: the end of
\* an empty line in the middle of a message (USART_RXNE_ISR sends nothing, USART_TXE_ISR sends all
\* the same) makes the kick of that message find TXE clear, and its last bytes are left lying.
Draining ==
  clean /\ isr = "idle" /\ pc \in {"idle", "wait"} /\ ~Empty => txeie \/ unarmed

\* Bytes lie in the ring, and nothing will send them before the next message.
Stranded == isr = "idle" /\ pc = "idle" /\ dr = 0 /\ ~Empty /\ ~txeie

\* Every byte put into the ring is sent, unless a handler waits for room, or it lies stranded for
\* ever, nobody having anything to send any more: nothing else stops the output, and the next
\* message takes stranded bytes with it.
AllSent ==
  \A n \in 1 .. MaxBytes :
    added >= n ~> (last >= n \/ ~clean \/ isr = "wait" \/ [](Stranded /\ unarmed))

\* uart_fifo.c:445: marble_UART_send kicks off the transmission.  Does not hold: see Draining.
NothingStranded == clean => ~Stranded

\* uart_fifo.c:441: a string sent over the UART goes out as it is.  Does not hold, not even with
\* the transmit interrupt as the only handler (HandlerJobs = {}): TXE may come between Kick and Get.
SendsTheString == ordered

\* uart_fifo.c:306: the wait for room in the ring comes to an end, by room or by the timeout.  Does
\* not hold: in a handler the tick stands still and the transmit interrupt cannot make room.
WaitEnds == isr = "wait" ~> isr # "wait"
=============================================================================
