----------------------------- MODULE UartConsole -----------------------------
(***************************************************************************)
(* The receive side of the console: the ring that the USART interrupt      *)
(* fills (uart_fifo.c), the count of entered lines, and console_service,   *)
(* which takes one line out of the ring at a time (console.c).             *)
(*                                                                         *)
(* The interrupt runs between any two accesses of the main loop, is not    *)
(* interrupted itself, and neither side masks the other: UARTQUEUE_Get and *)
(* the decrement of _msgCount are several steps each.                      *)
(***************************************************************************)
EXTENDS Integers, FiniteSets, Sequences

CONSTANTS
  UART_QUEUE_ITEMS, CONSOLE_MAX_MESSAGE_LENGTH,
  CountRange,  \* _msgCount counts modulo this
  Keys,        \* kinds of key that are pressed
  MaxLines,    \* bound: lines entered
  MaxColumns   \* bound: characters on a line

KeyKinds == {"char", "end", "backspace", "abort"}

ASSUME ConsoleConstants ==
  /\ UART_QUEUE_ITEMS \in Nat \ {0}
  /\ CONSOLE_MAX_MESSAGE_LENGTH \in Nat /\ CONSOLE_MAX_MESSAGE_LENGTH > UART_QUEUE_ITEMS
  /\ CountRange \in Nat /\ CountRange > UART_QUEUE_ITEMS
  /\ Keys \subseteq KeyKinds
  /\ MaxLines \in Nat /\ MaxColumns \in Nat

VARIABLES
  \* UART_queue, _msgCount
  pIn, pOut, full, queue, msgCount,
  \* console_service: where it is, the index and the byte in registers, msg, and the
  \* count in a register
  pc, out, dataOut, msg, reg,
  \* history: the line being typed and the characters on it, the bytes put in and neither
  \* taken out nor deleted, the lines entered and not yet handled
  line, column, kept, entered,
  \* history, since the last escape at an idle console: every deletion was of characters of the
  \* line being typed, while the console was idle, and the ring did not fill up in the window of
  \* ClearFull; some increment of _msgCount fell into its decrement; a byte found no room (which
  \* _dataLost of the code records for ever, and nobody reads)
  clean, missed, dropped

ring == <<pIn, pOut, full, queue>>
service == <<pc, out, dataOut, msg, reg>>
history == <<line, column, kept, entered, clean, missed, dropped>>
vars == <<ring, msgCount, service, history>>

Index == 0 .. UART_QUEUE_ITEMS - 1
Byte == [line : 0 .. MaxLines, column : 0 .. MaxColumns + 1, end : BOOLEAN]
Zero == [line |-> 0, column |-> 0, end |-> FALSE]   \* what the ring holds at first

Init ==
  /\ pIn = 0 /\ pOut = 0 /\ full = FALSE /\ queue = [i \in Index |-> Zero]
  /\ msgCount = 0
  /\ pc = "idle" /\ out = 0 /\ dataOut = Zero /\ msg = <<>> /\ reg = 0
  /\ line = 1 /\ column = 0 /\ kept = 0 /\ entered = {} /\ clean = TRUE
  /\ missed = FALSE /\ dropped = FALSE

Next1(i) == (i + 1) % UART_QUEUE_ITEMS
Back1(i) == IF i = 0 THEN UART_QUEUE_ITEMS - 1 ELSE i - 1

Empty == pIn = pOut /\ ~full

UARTQUEUE_FillLevel ==
  IF full THEN UART_QUEUE_ITEMS
  ELSE IF pIn >= pOut THEN pIn - pOut ELSE UART_QUEUE_ITEMS + pIn - pOut

(***************************************************************************)
(* The receive interrupt, USART_RXNE_ISR: one step per key.                *)
(***************************************************************************)
SlipAdd(byte) ==   \* slip: the ring that fills up is not marked full
  IF full
  THEN dropped' = TRUE /\ UNCHANGED <<ring, kept, clean>>
  ELSE /\ queue' = [queue EXCEPT ![pIn] = byte]
       /\ pIn' = Next1(pIn)
       /\ kept' = IF kept < UART_QUEUE_ITEMS THEN kept + 1 ELSE kept
       /\ UNCHANGED <<pOut, full, dropped, clean>>

UARTQUEUE_Add(byte) ==
  IF full
  THEN dropped' = TRUE /\ UNCHANGED <<ring, kept, clean>>
  ELSE /\ queue' = [queue EXCEPT ![pIn] = byte]
       /\ pIn' = Next1(pIn) /\ full' = (Next1(pIn) = pOut)
       /\ kept' = IF kept < UART_QUEUE_ITEMS THEN kept + 1 ELSE kept
       /\ clean' = (clean /\ ~(full' /\ pc = "clearFull"))
       /\ UNCHANGED <<pOut, dropped>>

Char ==
  /\ line <= MaxLines /\ column < MaxColumns
  /\ UARTQUEUE_Add([line |-> line, column |-> column + 1, end |-> FALSE])
  /\ column' = column + 1
  /\ UNCHANGED <<msgCount, service, line, entered, missed>>

SlipEnd ==   \* slip: console_pend_msg is not called
  /\ line <= MaxLines /\ ~Empty
  /\ UARTQUEUE_Add([line |-> line, column |-> column + 1, end |-> TRUE])
  /\ line' = line + 1 /\ column' = 0 /\ entered' = entered \cup {line}
  /\ UNCHANGED <<msgCount, missed, service>>

\* Return or newline; it counts even when the ring had no room for it.
End ==
  /\ line <= MaxLines /\ ~Empty
  /\ UARTQUEUE_Add([line |-> line, column |-> column + 1, end |-> TRUE])
  /\ msgCount' = (msgCount + 1) % CountRange
  /\ missed' = (missed \/ pc = "countStore")
  /\ line' = line + 1 /\ column' = 0 /\ entered' = entered \cup {line}
  /\ UNCHANGED service

Idle == pc = "idle" /\ msgCount = 0

\* UARTQUEUE_Rewind(1).
Backspace ==
  /\ ~Empty
  /\ pIn' = Back1(pIn) /\ full' = FALSE
  /\ kept' = IF kept > 0 THEN kept - 1 ELSE 0
  /\ column' = IF column > 0 THEN column - 1 ELSE 0
  /\ clean' = (clean /\ Idle /\ column > 0)
  /\ UNCHANGED <<pOut, queue, msgCount, service, line, entered, missed, dropped>>

\* UARTQUEUE_Clear; the lines counted so far stay counted.  While the console is idle none is, and
\* all that went wrong before is over.
Abort ==
  /\ pIn' = 0 /\ pOut' = 0 /\ full' = FALSE
  /\ kept' = 0 /\ column' = 0 /\ entered' = IF Idle THEN {} ELSE entered
  /\ clean' = Idle /\ missed' = (missed /\ ~Idle) /\ dropped' = (dropped /\ ~Idle)
  /\ UNCHANGED <<queue, msgCount, service, line>>

USART_RXNE_ISR ==
  \/ "char" \in Keys /\ Char
  \/ "end" \in Keys /\ End
  \/ "backspace" \in Keys /\ Backspace
  \/ "abort" \in Keys /\ Abort

(***************************************************************************)
(* console_service: when a line has been counted, shift bytes out until    *)
(* the end of one, decrement the count, and handle what was shifted.       *)
(***************************************************************************)
Begin ==
  /\ pc = "idle" /\ msgCount # 0
  /\ pc' = "check"
  /\ UNCHANGED <<ring, msgCount, out, dataOut, msg, reg, history>>

\* UARTQUEUE_Get reads the indices and the byte ...
Check ==
  /\ pc = "check"
  /\ IF Empty THEN pc' = "countLoad" /\ UNCHANGED <<out, dataOut>>
     ELSE pc' = "advance" /\ out' = pOut /\ dataOut' = queue[pOut]
  /\ UNCHANGED <<ring, msgCount, msg, reg, history>>

SlipAdvance ==   \* slip: pOut wraps one slot late
  /\ pc = "advance" /\ pc' = "clearFull"
  /\ pOut' = IF out >= UART_QUEUE_ITEMS THEN 0 ELSE out + 1
  /\ kept' = IF kept > 0 THEN kept - 1 ELSE 0
  /\ UNCHANGED <<pIn, full, queue, msgCount, out, dataOut, msg, reg, line, column, entered,
                 clean, missed, dropped>>

\* ... advances pOut, from a register or reading it again ...
Advance ==
  /\ pc = "advance" /\ pc' = "clearFull"
  /\ \E from \in {out, pOut} : pOut' = Next1(from)
  /\ kept' = IF kept > 0 THEN kept - 1 ELSE 0
  /\ UNCHANGED <<pIn, full, queue, msgCount, out, dataOut, msg, reg, line, column, entered,
                 clean, missed, dropped>>

SlipClearFull ==   \* slip: the shift does not stop at the end of a line
  /\ pc = "clearFull"
  /\ full' = FALSE
  /\ msg' = Append(msg, dataOut)
  /\ pc' = IF Len(msg) + 1 = CONSOLE_MAX_MESSAGE_LENGTH THEN "countLoad" ELSE "check"
  /\ UNCHANGED <<pIn, pOut, queue, msgCount, out, dataOut, reg, history>>

\* ... and ends the full condition; UARTQUEUE_ShiftUntil goes on to the end of the line.
\* (A local that is dead is given its first value again.)
ClearFull ==
  /\ pc = "clearFull"
  /\ full' = FALSE
  /\ msg' = Append(msg, dataOut)
  /\ pc' = IF Len(msg) + 1 = CONSOLE_MAX_MESSAGE_LENGTH \/ dataOut.end THEN "countLoad" ELSE "check"
  /\ out' = 0 /\ dataOut' = Zero
  /\ UNCHANGED <<pIn, pOut, queue, msgCount, reg, history>>

\* _msgCount-- is a load and a store.
CountLoad ==
  /\ pc = "countLoad" /\ pc' = "countStore"
  /\ reg' = msgCount
  /\ UNCHANGED <<ring, msgCount, out, dataOut, msg, history>>

CountStore ==
  /\ pc = "countStore"
  /\ msgCount' = (reg - 1) % CountRange
  /\ pc' = IF msg = <<>> THEN "idle" ELSE "handle"
  /\ reg' = 0
  /\ UNCHANGED <<ring, out, dataOut, msg, history>>

\* console_handle_msg.
Handle ==
  /\ pc = "handle" /\ pc' = "idle" /\ msg' = <<>>
  /\ entered' = entered \ {msg[1].line}
  /\ UNCHANGED <<ring, msgCount, out, dataOut, reg, line, column, kept, clean, missed, dropped>>

console_service ==
  Begin \/ Check \/ Advance \/ ClearFull \/ CountLoad \/ CountStore \/ Handle

Next == USART_RXNE_ISR \/ console_service

Spec == Init /\ [][Next]_vars
FairSpec == Spec /\ WF_vars(console_service)

-----------------------------------------------------------------------------
TypeOK ==
  /\ pIn \in Index /\ pOut \in Index /\ full \in BOOLEAN
  /\ queue \in [Index -> Byte]
  /\ msgCount \in 0 .. CountRange - 1
  /\ pc \in {"idle", "check", "advance", "clearFull", "countLoad", "countStore", "handle"}
  /\ out \in Index /\ dataOut \in Byte /\ reg \in 0 .. CountRange - 1
  /\ msg \in Seq(Byte) /\ Len(msg) <= CONSOLE_MAX_MESSAGE_LENGTH
  /\ line \in 1 .. MaxLines + 1 /\ column \in 0 .. MaxColumns
  /\ kept \in 0 .. UART_QUEUE_ITEMS /\ entered \subseteq 1 .. MaxLines
  /\ clean \in BOOLEAN /\ missed \in BOOLEAN /\ dropped \in BOOLEAN

\* The bytes in the ring are those received and not yet shifted out or deleted, except in
\* the middle of UARTQUEUE_Get.
HoldsWhatWasKept ==
  pc # "clearFull" => UARTQUEUE_FillLevel = kept

\* So they are whatever comes in during UARTQUEUE_Get, except a backspace, an escape, or the
\* bytes that fill the ring just before Get ends the full condition.  From each of these, and from
\* what the properties below except, an escape while the console is idle recovers.
RingAgrees == clean => HoldsWhatWasKept

\* What is handed to console_handle_msg is one line as it was typed and edited, whole and up
\* to its end, unless bytes were lost to a full ring or deleted under a pending line: no
\* two lines run together, no half line is obeyed.
WholeLine ==
  pc = "handle" /\ clean /\ ~dropped
    => \A i \in DOMAIN msg : msg[i] = [line |-> msg[1].line, column |-> i, end |-> i = Len(msg)]

\* The bytes received and not yet handed over or deleted: those shifted out of the ring, then
\* those in it.
Taken == IF pc = "clearFull" THEN Append(msg, dataOut) ELSE msg
Text == Taken \o [i \in 1 .. kept |-> queue[(pOut + i - 1) % UART_QUEUE_ITEMS]]

\* The interrupt and console_service together, with the ring, the register and the message between
\* them and no lock, do to the text what a typewriter and an attentive reader would: every key
\* changes its end, at once, and what goes to console_handle_msg is always the first line of it.
\* Where that fails, an escape at an idle console makes a fresh start.
Safe == clean /\ ~dropped
Editor == INSTANCE TypedText WITH text <- IF Safe THEN Text ELSE <<>>, broken <- ~Safe
ImplementsTypedText == Editor!Spec

\* While the console is idle it knows of every line that was entered and not handled, unless an
\* end of line fell into the decrement: none is left lying without a count, none is counted that
\* an escape has deleted.
LinesCounted ==
  pc = "idle" /\ clean /\ ~dropped /\ ~missed => msgCount = Cardinality(entered)

\* A line that was entered is handled, unless bytes were lost or deleted as above, or an end of
\* line fell between the load and the store of _msgCount--.
LinesHandled ==
  \A l \in 1 .. MaxLines : l \in entered ~> (l \notin entered \/ dropped \/ ~clean \/ missed)
=============================================================================
