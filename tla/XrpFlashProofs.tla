--------------------------- MODULE XrpFlashProofs ---------------------------
(***************************************************************************)
(* The flash of the XRP7724 under xrp_flash, for every image and size of   *)
(* page, every bound of the loops and any number of faults: no word is     *)
(* programmed over another, and what is reported as done is done.          *)
(***************************************************************************)
EXTENDS XrpProofs

-----------------------------------------------------------------------------
(* The invariant.                                                          *)

\* The labels of xrp_flash: xrp_process_flash, and what follows it for a page.
Processing == {"presetDelay", "flashInit", "command", "poll", "checkDelay"}
Erased == {"presetProgram", "checkProgram", "programInit", "setAddress"}
Programming == {"program", "readBack"}
Checking == {"resetAddress", "doubleCheck", "lastCheck"}
Flashing == Processing \cup Erased \cup Programming \cup Checking

\* The word that the driver is at, and the words of its page.
Here == FirstWord + at - 1
PageHolds(c) == \A w \in PageWords(page) : cells[w] = c

\* A clear or erase in progress is of this page, or was left over by an earlier run; what is
\* left over is waited for before the first command is accepted.
TaskInv ==
  /\ pc \in Flashing /\ page > 0 => task = NoTask \/ task[2] = page
  /\ pc \in {"checkDelay"} \cup Erased \cup Programming \cup Checking => task = NoTask
  /\ flashed => task = NoTask

\* While the delay register reads what was preset the chip has neither lost power nor failed, so
\* that a command that is not refused is in progress or has done its work.
Done == PageHolds(IF command = "clear" THEN "clear" ELSE "erased")
CommandInv ==
  /\ pc = "poll" /\ ram[DelayReg] = 255 /\ ~refused =>
       task = <<command, page>> \/ (task = NoTask /\ Done)
  /\ pc = "checkDelay" /\ ram[DelayReg] = 255 => Done

\* The words of the page that are still to be programmed are erased, or have lost their word to
\* a weak cell, and the pointer of a chip in flash mode is at the next of them.
ErasedInv ==
  /\ pc \in Erased => PageHolds("erased")
  /\ pc \in Programming =>
       /\ flashMode => ptr = Here
       /\ \A w \in PageWords(page) :
            w > Here \/ (w = Here /\ pc = "program") => cells[w] \in {"erased", "spoilt"}

\* The pages before this one hold the image, and so do the words of this one that have been
\* read a second time, if the chip has not lost power since the delay was preset.
ImageInv ==
  /\ pc \in Flashing => ~flashed /\ \A w \in Words : w < FirstWord => cells[w] = Image[w]
  /\ pc = "doubleCheck" /\ ram[DelayReg] = 255 =>
       ptr = Here /\ \A w \in PageWords(page) : w < Here => cells[w] = Image[w]
  /\ pc = "lastCheck" /\ ram[DelayReg] = 255 => \A w \in PageWords(page) : cells[w] = Image[w]
  /\ flashed => cells = Image

FlashInv ==
  /\ pc \notin Flashing => page = 0
  /\ TaskInv /\ CommandInv /\ ErasedInv /\ ImageInv /\ NeverOver

-----------------------------------------------------------------------------
(* The words of a page.                                                    *)

LEMMA Pages ==
  ASSUME NEW p \in 0 .. LastPage, NEW w \in Words
  PROVE  w \in PageWords(p) <=> p * PageSize < w /\ w <= p * PageSize + PageSize
<1> DEFINE q == (w - 1) \div PageSize
           r == (w - 1) % PageSize
<1>1. PageSize \in Nat \ {0} /\ w \in Nat /\ w >= 1 /\ p \in Nat
  BY ChipConstants, SizeType, OnePage
<1>2. q \in Nat /\ r \in 0 .. PageSize - 1 /\ w - 1 = PageSize * q + r
  BY <1>1
<1>3. w \in PageWords(p) <=> q = p
  BY DEF PageWords
<1> HIDE DEF q, r
<1>4. p * PageSize = PageSize * p
  BY <1>1
<1>5. CASE q = p
  BY <1>1, <1>2, <1>3, <1>5
<1>6. CASE q < p
  <2>1. PageSize * (q + 1) <= PageSize * p
    BY <1>1, <1>2, <1>6
  <2>2. PageSize * (q + 1) = PageSize * q + PageSize
    BY <1>1, <1>2
  <2> QED
    BY <1>1, <1>2, <1>3, <1>4, <1>6, <2>1, <2>2
<1>7. CASE q > p
  <2>1. PageSize * (p + 1) <= PageSize * q
    BY <1>1, <1>2, <1>7
  <2>2. PageSize * (p + 1) = PageSize * p + PageSize
    BY <1>1
  <2> QED
    BY <1>1, <1>2, <1>3, <1>4, <1>7, <2>1, <2>2
<1> QED
  BY <1>1, <1>2, <1>5, <1>6, <1>7

LEMMA LastWordOfImage == LastPage * PageSize + PageSize = Size
<1> DEFINE q == Size \div PageSize
<1>1. PageSize \in Nat \ {0} /\ Size \in Nat \ {0} /\ Size % PageSize = 0
  BY ChipConstants, SizeType
<1>2. q \in Nat /\ Size = q * PageSize /\ LastPage = q - 1
  BY <1>1 DEF LastPage
<1> HIDE DEF q
<1>3. (q - 1) * PageSize + PageSize = q * PageSize
  BY <1>1, <1>2
<1> QED
  BY <1>2, <1>3

\* Where the driver is.
LEMMA HereFacts ==
  ASSUME PlacesOK, pc \notin {"write", "verify"}
  PROVE  /\ page \in Nat /\ page \in 0 .. LastPage /\ at \in 1 .. PageSize /\ PageSize \in Nat
         /\ FirstWord \in Nat /\ FirstWord >= 1 /\ Here \in Nat /\ Here \in PageWords(page)
         /\ FirstWord \in Words /\ FirstWord = page * PageSize + 1 /\ Words = 1 .. Size /\ Size \in Nat
         /\ PageWords(page) \subseteq Words
         /\ \A w \in Words : w \in PageWords(page) <=> FirstWord <= w /\ w < FirstWord + PageSize
         /\ Expected = Image[Here]
<1>1. /\ page \in Nat /\ page \in 0 .. LastPage /\ at \in 1 .. PageSize /\ PageSize \in Nat
      /\ PageSize >= 1 /\ 1 \in 1 .. PageSize
  BY ChipConstants, OnePage DEF PlacesOK
<1>2. page * PageSize \in Nat
  BY <1>1
<1>3. FirstWord = page * PageSize + 1 /\ Here = page * PageSize + at
  BY <1>1, <1>2 DEF FirstWord, Here
<1>4. page * PageSize + 1 \in Words /\ page * PageSize + at \in Words
  BY <1>1, PageInImage
<1>5. \A w \in Words : w \in PageWords(page) <=> FirstWord <= w /\ w < FirstWord + PageSize
  BY <1>1, <1>2, <1>3, Pages, SizeType
<1>6. Here \in PageWords(page)
  BY <1>1, <1>2, <1>3, <1>4, <1>5
<1>7. PageWords(page) \subseteq Words
  BY DEF PageWords
<1> QED
  BY <1>1, <1>2, <1>3, <1>4, <1>5, <1>6, <1>7, SizeType DEF Expected, Here

-----------------------------------------------------------------------------
(* Steps of the driver.                                                    *)

Given == ChipTypeOK /\ DriverInv /\ FlashInv

LEMMA GivenFacts ==
  ASSUME Given
  PROVE  /\ PlacesOK /\ AtRest /\ TaskInv /\ CommandInv /\ ErasedInv /\ ImageInv /\ NeverOver
         /\ ram \in [Addresses -> 0 .. 255] /\ DelayReg \in Addresses
         /\ cells \in [Words -> CellValues] /\ ptr \in Words /\ (pc \notin Flashing => page = 0)
BY ChipParts, ChipConstants DEF Given, DriverInv, FlashInv, ChipDataOK

\* A step that ends an operation, or is none of xrp_flash's, and leaves the flash alone.
LEMMA Elsewhere ==
  ASSUME Given, pc' \notin Flashing, page' = 0, UNCHANGED <<cells, task, flashed>>
  PROVE  FlashInv'
<1>1. /\ pc' \notin Processing /\ pc' \notin Erased /\ pc' \notin Programming
      /\ pc' \notin Checking
  BY DEF Flashing
<1>2. TaskInv'
  BY <1>1, GivenFacts DEF TaskInv, Flashing, Processing
<1>3. CommandInv' /\ ErasedInv'
  BY <1>1 DEF CommandInv, ErasedInv, Processing
<1>4. ImageInv' /\ NeverOver'
  BY <1>1, GivenFacts DEF ImageInv, NeverOver, Flashing, Checking
<1> QED
  BY <1>2, <1>3, <1>4 DEF FlashInv

LEMMA RuntimeFlash == ASSUME Given, Runtime \/ xrp_boot PROVE FlashInv'
<1>1. pc \notin Flashing
  BY DEF Runtime, xrp_boot, StopChip, WriteTag, WriteByte, VerifyByte, TagCheck, SetOperate,
         Flashing, Processing, Erased, Programming, Checking
<1>2. page = 0
  BY <1>1 DEF Given, FlashInv
<1>3. UNCHANGED <<cells, task, flashed>>
  BY DEF Runtime, xrp_boot, StopChip, WriteTag, WriteByte, VerifyByte, TagCheck, SetOperate,
         xrp_set2, chipVars, flashChip, flashVars
<1>4. page' = 0
  BY <1>2 DEF Runtime, xrp_boot, StopChip, WriteTag, WriteByte, VerifyByte, TagCheck, SetOperate,
              flashVars, Return
<1>5. pc' \in {"idle", "stop", "tag", "write", "verify", "tagCheck", "operate"}
  BY DEF Runtime, xrp_boot, StopChip, WriteTag, WriteByte, VerifyByte, TagCheck, SetOperate,
         NextRecord, Goto, Return
<1>6. pc' \notin Flashing
  BY <1>5 DEF Flashing, Processing, Erased, Programming, Checking
<1> QED
  BY <1>3, <1>4, <1>6, Elsewhere

\* A transaction or a check that fails ends xrp_flash.
LEMMA GivesUp ==
  ASSUME Given, Return, UNCHANGED <<cells, task, flashed>> PROVE FlashInv'
BY Elsewhere DEF Return, Flashing, Processing, Erased, Programming, Checking

\* A step from label to label that leaves the flash, the page and the word alone.
LEMMA GoesOn ==
  ASSUME Given, pc \in Flashing, pc' \in Flashing, UNCHANGED <<cells, page, at, flashed>>,
         TaskInv', CommandInv', ErasedInv',
         pc' \notin {"doubleCheck", "lastCheck"}
  PROVE  FlashInv'
<1>1. ~flashed' /\ \A w \in Words : w < FirstWord => cells'[w] = Image[w]
  BY GivenFacts DEF ImageInv
<1>2. FirstWord' = FirstWord
  BY DEF FirstWord
<1>3. ImageInv'
  BY <1>1, <1>2 DEF ImageInv
<1>4. NeverOver'
  BY GivenFacts DEF NeverOver
<1> QED
  BY <1>3, <1>4 DEF FlashInv

LEMMA StartFlash == ASSUME Given, xrp_flash PROVE FlashInv'
<1>1. /\ pc = "idle" /\ pc' = "presetDelay" /\ flashed' = FALSE /\ page' = page
      /\ UNCHANGED <<cells, task>>
  BY DEF xrp_flash, Goto, chipVars, flashChip
<1>2. page' = 0
  BY <1>1 DEF Given, FlashInv, Flashing, Processing, Erased, Programming, Checking
<1>3. TaskInv' /\ CommandInv' /\ ErasedInv'
  BY <1>1, <1>2 DEF TaskInv, CommandInv, ErasedInv, Flashing, Processing, Erased, Programming,
                    Checking
<1>4. FirstWord' = 1
  BY <1>2, ChipConstants DEF FirstWord
<1>5. \A w \in Words : ~(w < 1)
  BY SizeType
<1>6. ImageInv'
  BY <1>1, <1>4, <1>5 DEF ImageInv
<1>7. NeverOver'
  BY <1>1, GivenFacts DEF NeverOver
<1> QED
  BY <1>1, <1>3, <1>6, <1>7 DEF FlashInv, Flashing, Processing

\* The delay reads what was preset only if it is.
LEMMA DelayRead == ASSUME NEW v \in xrp_read2(DelayReg), v = 255 PROVE ram[DelayReg] = 255
BY DEF xrp_read2

LEMMA ProcessFlash ==
  ASSUME Given, PresetDelay \/ FlashInit \/ Command \/ Poll \/ CheckDelay \/ CheckProgram
  PROVE  FlashInv'
<1> USE GivenFacts
<1> USE DEF Flashing, Processing, Erased, Programming, Checking, Goto
<1>1. CASE PresetDelay
  <2>1. /\ UNCHANGED <<cells, ptr, flashMode, task, page, at, flashed, command>>
        /\ \/ pc = "presetDelay" /\ pc' = "flashInit"
           \/ pc = "presetProgram" /\ pc' = "checkProgram"
    BY <1>1 DEF PresetDelay, xrp_set2, flashChip, flashVars
  <2>2. TaskInv' /\ CommandInv' /\ ErasedInv'
    BY <2>1 DEF TaskInv, CommandInv, ErasedInv, PageHolds
  <2> QED
    BY <2>1, <2>2, GoesOn
<1>2. CASE FlashInit
  <2>1. CASE Fails
    BY <2>1, GivesUp DEF Fails, chipVars, flashChip
  <2>2. CASE ~Fails
    <3>1. /\ UNCHANGED <<cells, ptr, task, page, at, flashed, command>>
          /\ \/ pc = "flashInit" /\ pc' = "command"
             \/ pc = "programInit" /\ pc' = "setAddress"
      BY <1>2, <2>2 DEF FlashInit, FLASH_INIT, flashVars
    <3>2. TaskInv' /\ CommandInv' /\ ErasedInv'
      BY <3>1 DEF TaskInv, CommandInv, ErasedInv, PageHolds
    <3> QED
      BY <3>1, <3>2, GoesOn
  <2> QED
    BY <2>1, <2>2
<1>3. CASE Command
  <2>1. CASE Fails
    BY <2>1, GivesUp DEF Fails, chipVars, flashChip
  <2>2. CASE ~Fails
    <3>1. /\ UNCHANGED <<cells, ram, page, at, flashed, command>>
          /\ pc = "command" /\ pc' = "poll" /\ FlashCommand(command, page)
      BY <1>3, <2>2 DEF Command, FlashCommand, store
    <3>2. (task' = <<command, page>> /\ refused' = FALSE) \/ (refused' = TRUE /\ task' = task)
      BY <3>1 DEF FlashCommand
    <3>3. TaskInv'
      BY <3>1, <3>2 DEF TaskInv, ImageInv
    <3>4. CommandInv' /\ ErasedInv'
      BY <3>1, <3>2 DEF CommandInv, ErasedInv
    <3> QED
      BY <3>1, <3>3, <3>4, GoesOn
  <2> QED
    BY <2>1, <2>2
<1>4. CASE Poll
  <2>1. UNCHANGED chipVars /\ UNCHANGED <<cells, ram, task, refused>> /\ pc = "poll"
    BY <1>4 DEF Poll, chipVars, flashChip
  <2>2. CASE Return /\ UNCHANGED flashed
    BY <2>1, <2>2, GivesUp
  <2>3. CASE pc' = pc /\ UNCHANGED <<page, at, flashed, command>>
    <3>1. TaskInv' /\ CommandInv' /\ ErasedInv'
      BY <2>1, <2>3 DEF TaskInv, CommandInv, ErasedInv, PageHolds, Done
    <3> QED
      BY <2>1, <2>3, <3>1, GoesOn
  <2>4. CASE /\ task = NoTask /\ ~refused /\ pc' = "checkDelay"
             /\ UNCHANGED <<page, at, flashed, command>>
    <3>1. ram[DelayReg] = 255 => Done
      <4>1. NoTask # <<command, page>>
        BY DEF NoTask, PlacesOK
      <4> QED
        BY <2>1, <2>4, <4>1 DEF CommandInv
    <3>2. TaskInv' /\ CommandInv' /\ ErasedInv'
      BY <2>1, <2>4, <3>1 DEF TaskInv, CommandInv, ErasedInv, PageHolds, Done
    <3> QED
      BY <2>1, <2>4, <3>2, GoesOn
  <2>5. CASE pc' = "command" /\ UNCHANGED <<page, at, flashed, command>>
    <3>1. TaskInv' /\ CommandInv' /\ ErasedInv'
      BY <2>1, <2>5 DEF TaskInv, CommandInv, ErasedInv
    <3> QED
      BY <2>1, <2>5, <3>1, GoesOn
  <2> QED
    BY <1>4, <2>2, <2>3, <2>4, <2>5 DEF Poll
<1>5. CASE CheckDelay
  <2>1. UNCHANGED <<cells, ram, task, refused>> /\ pc = "checkDelay" /\ task = NoTask
    BY <1>5 DEF CheckDelay, chipVars, flashChip, TaskInv
  <2>2. CASE Return /\ UNCHANGED flashed
    BY <2>1, <2>2, GivesUp
  <2>3. CASE pc' = "presetDelay" /\ UNCHANGED <<page, at, flashed>>
    <3>1. TaskInv' /\ CommandInv' /\ ErasedInv'
      BY <2>1, <2>3 DEF TaskInv, CommandInv, ErasedInv
    <3> QED
      BY <2>1, <2>3, <3>1, GoesOn
  <2>4. CASE /\ ram[DelayReg] = 255 /\ command # "clear" /\ pc' = "presetProgram"
             /\ UNCHANGED <<page, at, flashed>>
    <3>1. PageHolds("erased")
      BY <2>1, <2>4 DEF CommandInv, Done
    <3>2. TaskInv' /\ CommandInv' /\ ErasedInv'
      BY <2>1, <2>4, <3>1 DEF TaskInv, CommandInv, ErasedInv, PageHolds
    <3> QED
      BY <2>1, <2>4, <3>2, GoesOn
  <2> QED
    BY <1>5, <2>2, <2>3, <2>4, DelayRead DEF CheckDelay
<1>6. CASE CheckProgram
  <2>1. UNCHANGED <<cells, ram, task, refused>> /\ pc = "checkProgram"
    BY <1>6 DEF CheckProgram, chipVars, flashChip
  <2>2. CASE Return /\ UNCHANGED flashed
    BY <2>1, <2>2, GivesUp
  <2>3. CASE pc' = "programInit" /\ UNCHANGED <<page, at, flashed, command>>
    <3>1. TaskInv' /\ CommandInv' /\ ErasedInv'
      BY <2>1, <2>3 DEF TaskInv, CommandInv, ErasedInv, PageHolds
    <3> QED
      BY <2>1, <2>3, <3>1, GoesOn
  <2> QED
    BY <1>6, <2>2, <2>3 DEF CheckProgram, flashVars
<1> QED
  BY <1>1, <1>2, <1>3, <1>4, <1>5, <1>6

\* The pointer is set to the first word of the page, to program it and to read it again.
LEMMA AddressFlash == ASSUME Given, SetAddress PROVE FlashInv'
<1> USE GivenFacts
<1>1. /\ UNCHANGED <<cells, ram, task>>
      /\ pc \in {"setAddress", "resetAddress"}
  BY DEF SetAddress, SetPointer, chipVars, flashChip, store
<1>2. CASE Return /\ UNCHANGED flashed
  BY <1>1, <1>2, GivesUp
<1>3. CASE /\ ptr' = FirstWord /\ UNCHANGED <<page, at, flashed>>
           /\ Goto(IF pc = "setAddress" THEN "program" ELSE "doubleCheck")
  <2>1. FirstWord' = FirstWord /\ Here' = FirstWord
    <3>1. at = 1
      BY <1>1 DEF AtRest
    <3>2. FirstWord' = FirstWord
      BY <1>3 DEF FirstWord
    <3> QED
      BY <1>1, <1>3, <3>1, <3>2, HereFacts DEF Here
  <2>2. pc \in Flashing /\ pc \in Erased \cup Checking /\ task = NoTask /\ pc' \in Flashing
    BY <1>1, <1>3 DEF Flashing, Erased, Programming, Checking, Goto, TaskInv
  <2>3. TaskInv'
    BY <1>1, <2>2 DEF TaskInv
  <2>4. CommandInv'
    BY <1>1, <1>3 DEF CommandInv, Goto
  <2>5. ~flashed' /\ \A w \in Words : w < FirstWord' => cells'[w] = Image[w]
    BY <1>1, <1>3, <2>1, <2>2 DEF ImageInv
  <2>6. NeverOver'
    BY <1>1 DEF NeverOver
  <2>7. CASE pc = "setAddress"
    <3>1. pc' = "program" /\ PageHolds("erased")
      BY <1>3, <2>7 DEF ErasedInv, Erased, Goto
    <3>2. ErasedInv'
      BY <1>1, <1>3, <2>1, <3>1 DEF ErasedInv, Erased, Programming, PageHolds
    <3>3. ImageInv'
      BY <2>5, <3>1 DEF ImageInv
    <3> QED
      BY <2>2, <2>3, <2>4, <2>6, <3>2, <3>3 DEF FlashInv
  <2>8. CASE pc = "resetAddress"
    <3>1. pc' = "doubleCheck"
      BY <1>3, <2>8 DEF Goto
    <3>2. ErasedInv'
      BY <3>1 DEF ErasedInv, Erased, Programming
    <3>3. \A w \in PageWords(page) : ~(w < FirstWord)
      BY <1>1, HereFacts
    <3>4. ImageInv'
      BY <1>3, <2>1, <2>5, <3>1, <3>3 DEF ImageInv
    <3> QED
      BY <2>2, <2>3, <2>4, <2>6, <3>2, <3>4 DEF FlashInv
  <2> QED
    BY <1>1, <2>7, <2>8
<1> QED
  BY <1>2, <1>3 DEF SetAddress, flashVars

\* What the chip does with a word: it is taken or lost, and another of the page may be lost.
LEMMA WordProgrammed ==
  ASSUME Given, pc = "program", Program(Expected)
  PROVE  \A w \in Words :
           \/ cells'[w] = cells[w]
           \/ w \in PageWords(page) /\ cells'[w] = "spoilt"
           \/ w = Here /\ cells'[w] = Image[w]
<1> USE GivenFacts, HereFacts
<1>1. CASE ~flashMode
  BY <1>1 DEF Program
<1>2. CASE flashMode
  <2> DEFINE new == [cells EXCEPT ![ptr] = CASE @ = "erased" -> Expected [] @ = "spoilt" -> @
                                             [] OTHER -> "over"]
  <2>1. ptr = Here /\ cells[Here] \in {"erased", "spoilt"}
    BY <1>2 DEF ErasedInv, Programming
  <2>2. (Here - 1) \div PageSize = page
    BY DEF PageWords
  <2>3. new \in [Words -> CellValues \cup {Expected}]
    BY DEF CellValues, Marks
  <2>4. new[Here] \in {Expected, "spoilt"} /\ \A w \in Words \ {Here} : new[w] = cells[w]
    BY <2>1
  <2>5. \/ cells' = new
        \/ \E v \in PageWords(page) : cells' = [new EXCEPT ![v] = "spoilt"]
    BY <1>2, <2>1, <2>2, Zenon DEF Program
  <2> HIDE DEF new
  <2> QED
    BY ZenonT(60), <2>3, <2>4, <2>5
<1> QED
  BY <1>1, <1>2

LEMMA ProgramFlash == ASSUME Given, ProgramWord PROVE FlashInv'
<1> USE GivenFacts
<1>1. CASE Fails
  BY <1>1, GivesUp DEF Fails, chipVars, flashChip
<1>2. CASE ~Fails
  <2>1. /\ Program(Expected) /\ pc = "program" /\ pc' = "readBack"
        /\ UNCHANGED <<page, at, flashed>>
    BY <1>2 DEF ProgramWord, Goto, flashVars
  <2>2. UNCHANGED <<ram, ptr, flashMode, task>>
    BY <2>1 DEF Program
  <2>3. FirstWord' = FirstWord /\ Here' = Here
    BY <2>1 DEF FirstWord, Here
  <2>4. pc \in Flashing /\ pc' \in Flashing /\ pc \in Programming /\ pc' \in Programming
    BY <2>1 DEF Flashing, Programming
  <2>5. TaskInv'
    BY <2>1, <2>2, <2>4 DEF TaskInv
  <2>6. CommandInv'
    BY <2>1 DEF CommandInv
  <2>7. ErasedInv'
    <3>1. pc' \notin Erased
      BY <2>1 DEF Erased
    <3>2. flashMode' => ptr' = Here'
      BY <2>2, <2>3, <2>4 DEF ErasedInv
    <3>3. \A w \in PageWords(page) : w > Here => cells'[w] \in {"erased", "spoilt"}
      <4> TAKE w \in PageWords(page)
      <4>1. w \in Words /\ w \in Nat
        BY <2>1, HereFacts
      <4>2. CASE w > Here
        BY <2>1, <2>4, <4>1, <4>2, WordProgrammed, HereFacts DEF ErasedInv
      <4> QED
        BY <4>2
    <3> QED
      BY <2>1, <2>3, <3>1, <3>2, <3>3 DEF ErasedInv
  <2>8. \A w \in Words : w < FirstWord => cells'[w] = Image[w]
    <3> TAKE w \in Words
    <3>1. CASE w < FirstWord
      <4>1. w \notin PageWords(page) /\ w # Here
        BY <2>1, <3>1, HereFacts
      <4>2. cells'[w] = cells[w]
        BY <2>1, <4>1, WordProgrammed
      <4> QED
        BY <2>4, <3>1, <4>2 DEF ImageInv
    <3> QED
      BY <3>1
  <2>9. ImageInv'
    BY <2>1, <2>3, <2>4, <2>8 DEF ImageInv
  <2>10. NeverOver'
    <3> SUFFICES ASSUME NEW w \in Words PROVE cells'[w] # "over"
      BY DEF NeverOver
    <3>1. Image[w] # "over"
      BY ChipConstants DEF Marks
    <3> QED
      BY <2>1, <3>1, WordProgrammed DEF NeverOver
  <2> QED
    BY <2>4, <2>5, <2>6, <2>7, <2>9, <2>10 DEF FlashInv
<1> QED
  BY <1>1, <1>2

LEMMA SmallModulo == ASSUME NEW n \in Nat, NEW m \in Nat, n < m PROVE n % m = n
OBVIOUS

\* The next word of the page, if there is one.
LEMMA NextWord ==
  ASSUME PlacesOK, pc \notin {"write", "verify"}, page' = page
  PROVE  /\ FirstWord' = FirstWord
         /\ at' = at + 1 => Here' = Here + 1
         /\ ~LastWord => (Here % Size) + 1 = Here + 1 /\ at + 1 \in 1 .. PageSize
         /\ LastWord => \A w \in PageWords(page) : w < Here \/ w = Here
<1> USE HereFacts
<1>1. FirstWord' = FirstWord
  BY DEF FirstWord
<1>2. at' = at + 1 => Here' = Here + 1
  BY <1>1 DEF Here
<1>3. ASSUME ~LastWord PROVE (Here % Size) + 1 = Here + 1 /\ at + 1 \in 1 .. PageSize
  <2>1. at + 1 \in 1 .. PageSize
    BY <1>3 DEF LastWord
  <2>2. page * PageSize + (at + 1) \in Words
    BY <2>1, PageInImage
  <2>3. page * PageSize \in Int
    OBVIOUS
  <2>4. Here = page * PageSize + at
    BY <2>3 DEF Here
  <2>5. Here < Size /\ Here \in Nat /\ Size \in Nat
    BY <2>2, <2>3, <2>4
  <2>6. Here % Size = Here
    BY <2>5, SmallModulo
  <2> QED
    BY <2>1, <2>6
<1>4. ASSUME LastWord, NEW w \in PageWords(page) PROVE w < Here \/ w = Here
  <2>1. w \in Words /\ w < FirstWord + PageSize /\ Here = FirstWord + PageSize - 1
    BY <1>4 DEF LastWord, Here
  <2> QED
    BY <2>1
<1> QED
  BY <1>1, <1>2, <1>3, <1>4

\* A word is read back, and the pointer moves to the next one, which is to be programmed.
LEMMA ReadFlash == ASSUME Given, ReadBack PROVE FlashInv'
<1> USE GivenFacts
<1>1. UNCHANGED <<cells, ram, task>> /\ pc = "readBack"
  BY DEF ReadBack, ReadNext, Fails, chipVars, flashChip, store
<1>2. CASE Return /\ UNCHANGED flashed
  BY <1>1, <1>2, GivesUp
<1>3. CASE /\ ReadNext /\ UNCHANGED flashVars
           /\ IF LastWord THEN at' = 1 /\ Goto("resetAddress") ELSE at' = at + 1 /\ Goto("program")
  <2>1. /\ pc \in Flashing /\ pc \in Programming /\ pc' \in {"resetAddress", "program"}
        /\ pc' \in Flashing /\ task = NoTask
    BY <1>1, <1>3 DEF Flashing, Programming, Checking, Goto, TaskInv
  <2>2. FirstWord' = FirstWord /\ page' = page /\ flashed' = flashed
    BY <1>3 DEF FirstWord, flashVars
  <2>3. TaskInv'
    BY <1>1, <2>1 DEF TaskInv
  <2>4. CommandInv'
    BY <2>1 DEF CommandInv
  <2>5. ImageInv' /\ NeverOver'
    BY <1>1, <2>1, <2>2 DEF ImageInv, NeverOver
  <2>6. ErasedInv'
    <3>1. CASE LastWord
      BY <1>3, <3>1 DEF ErasedInv, Erased, Programming, Goto
    <3>2. CASE ~LastWord
      <4>1. pc' = "program" /\ at' = at + 1 /\ ptr' = (ptr % Size) + 1 /\ flashMode' = flashMode
        BY <1>3, <3>2 DEF Goto, ReadNext
      <4>2. Here' = Here + 1 /\ (Here % Size) + 1 = Here + 1 /\ Here \in Nat
        BY <1>1, <2>2, <3>2, <4>1, NextWord, HereFacts
      <4>3. flashMode' => ptr' = Here'
        BY <2>1, <4>1, <4>2 DEF ErasedInv
      <4>4. \A w \in PageWords(page) : w > Here' \/ w = Here' => w \in Nat /\ w > Here
        <5>1. PageWords(page) \subseteq Nat
          BY <1>1, HereFacts
        <5> QED
          BY <4>2, <5>1
      <4>5. \A w \in PageWords(page) : w > Here' \/ w = Here' => cells'[w] \in {"erased", "spoilt"}
        BY <1>1, <2>1, <4>4 DEF ErasedInv
      <4> QED
        BY <2>2, <4>1, <4>3, <4>5 DEF ErasedInv, Erased
    <3> QED
      BY <3>1, <3>2
  <2> QED
    BY <2>1, <2>3, <2>4, <2>5, <2>6 DEF FlashInv
<1> QED
  BY <1>2, <1>3 DEF ReadBack, Fails

\* The page is read a second time.
LEMMA DoubleFlash == ASSUME Given, DoubleCheck PROVE FlashInv'
<1> USE GivenFacts
<1>1. UNCHANGED <<cells, ram, task>> /\ pc = "doubleCheck"
  BY DEF DoubleCheck, ReadNext, Fails, chipVars, flashChip, store
<1>2. CASE Return /\ UNCHANGED flashed
  BY <1>1, <1>2, GivesUp
<1>3. CASE /\ Matches /\ ReadNext /\ UNCHANGED flashVars
           /\ IF LastWord THEN at' = 1 /\ Goto("lastCheck") ELSE at' = at + 1 /\ UNCHANGED pc
  <2>1. /\ pc \in Flashing /\ pc' \in {"lastCheck", "doubleCheck"}
        /\ pc' \in Flashing /\ task = NoTask
    BY <1>1, <1>3 DEF Flashing, Checking, Goto, TaskInv
  <2>2. FirstWord' = FirstWord /\ page' = page /\ flashed' = flashed
    BY <1>3 DEF FirstWord, flashVars
  <2>3. TaskInv'
    BY <1>1, <2>1 DEF TaskInv
  <2>4. CommandInv' /\ ErasedInv'
    BY <2>1 DEF CommandInv, ErasedInv, Erased, Programming
  <2>5. NeverOver'
    BY <1>1 DEF NeverOver
  <2>6. ~flashed' /\ \A w \in Words : w < FirstWord' => cells'[w] = Image[w]
    BY <1>1, <2>1, <2>2 DEF ImageInv
  <2>7. ram[DelayReg] = 255 =>
          ptr = Here /\ \A w \in PageWords(page) : w < Here \/ w = Here => cells[w] = Image[w]
    BY <1>1, <1>3, HereFacts DEF ImageInv, Matches
  <2>8. ImageInv'
    <3>1. CASE LastWord
      <4>1. pc' = "lastCheck"
        BY <1>3, <3>1 DEF Goto
      <4>2. ram[DelayReg] = 255 => \A w \in PageWords(page) : cells[w] = Image[w]
        BY <1>1, <2>2, <2>7, <3>1, NextWord
      <4> QED
        BY <1>1, <2>2, <2>6, <4>1, <4>2 DEF ImageInv
    <3>2. CASE ~LastWord
      <4>1. pc' = "doubleCheck" /\ at' = at + 1 /\ ptr' = (ptr % Size) + 1
        BY <1>1, <1>3, <3>2 DEF ReadNext
      <4>2. Here' = Here + 1 /\ (Here % Size) + 1 = Here + 1 /\ Here \in Nat
        BY <1>1, <2>2, <3>2, <4>1, NextWord, HereFacts
      <4>3. \A w \in PageWords(page) : w < Here' => w < Here \/ w = Here
        BY <1>1, <4>2, HereFacts
      <4> QED
        BY <1>1, <2>2, <2>6, <2>7, <4>1, <4>2, <4>3 DEF ImageInv
    <3> QED
      BY <3>1, <3>2
  <2> QED
    BY <2>1, <2>3, <2>4, <2>5, <2>8 DEF FlashInv
<1> QED
  BY <1>2, <1>3 DEF DoubleCheck, Fails

\* The page is done, and after the last one the image.
LEMMA PageDone == ASSUME Given, LastCheck PROVE FlashInv'
<1> USE GivenFacts
<1>1. UNCHANGED <<cells, ram, task>> /\ pc = "lastCheck" /\ task = NoTask
  BY DEF LastCheck, chipVars, flashChip, TaskInv, Checking
<1>2. CASE Return /\ UNCHANGED flashed
  BY <1>1, <1>2, GivesUp
<1>3. ASSUME ram[DelayReg] = 255
      PROVE  \A w \in Words : w < FirstWord + PageSize => cells[w] = Image[w]
  <2> TAKE w \in Words
  <2>1. w < FirstWord + PageSize => w < FirstWord \/ w \in PageWords(page)
    BY <1>1, HereFacts
  <2> QED
    BY <1>1, <1>3, <2>1 DEF ImageInv, Flashing, Checking
<1>4. CASE /\ ram[DelayReg] = 255 /\ page < LastPage
           /\ page' = page + 1 /\ Goto("presetDelay") /\ UNCHANGED flashed
  <2>1. pc' = "presetDelay" /\ pc' \in Flashing /\ pc \in Flashing
    BY <1>1, <1>4 DEF Goto, Flashing, Processing, Checking
  <2>2. FirstWord' = FirstWord + PageSize
    <3>1. page \in Nat /\ PageSize \in Nat /\ page * PageSize \in Nat
      BY <1>1, HereFacts
    <3>2. (page + 1) * PageSize = page * PageSize + PageSize
      BY <3>1
    <3> QED
      BY <1>4, <3>1, <3>2 DEF FirstWord
  <2>3. TaskInv'
    BY <1>1 DEF TaskInv
  <2>4. CommandInv' /\ ErasedInv'
    BY <2>1 DEF CommandInv, ErasedInv, Erased, Programming
  <2>5. ~flashed' /\ \A w \in Words : w < FirstWord' => cells'[w] = Image[w]
    BY <1>1, <1>3, <1>4, <2>1, <2>2 DEF ImageInv
  <2>6. ImageInv' /\ NeverOver'
    BY <1>1, <2>1, <2>5 DEF ImageInv, NeverOver
  <2> QED
    BY <2>1, <2>3, <2>4, <2>6 DEF FlashInv
<1>5. CASE ram[DelayReg] = 255 /\ page = LastPage /\ Return /\ flashed' = TRUE
  <2>1. pc' = "idle" /\ page' = 0
    BY <1>5 DEF Return
  <2>2. pc' \notin Flashing
    BY <2>1 DEF Flashing, Processing, Erased, Programming, Checking
  <2>3. \A w \in Words : w < FirstWord + PageSize
    BY <1>1, <1>5, HereFacts, LastWordOfImage
  <2>4. \A w \in Words : cells[w] = Image[w]
    BY <1>3, <1>5, <2>3
  <2>5. cells = Image
    <3>1. Image = [w \in Words |-> Image[w]]
      BY ChipConstants DEF Words
    <3> QED
      BY <2>4, <3>1
  <2>6. TaskInv'
    BY <1>1 DEF TaskInv
  <2>7. CommandInv' /\ ErasedInv'
    BY <2>1 DEF CommandInv, ErasedInv, Erased, Programming
  <2>8. ImageInv' /\ NeverOver'
    BY <1>1, <2>1, <2>2, <2>5 DEF ImageInv, NeverOver
  <2> QED
    BY <2>1, <2>6, <2>7, <2>8 DEF FlashInv
<1> QED
  BY <1>2, <1>4, <1>5, DelayRead DEF LastCheck

-----------------------------------------------------------------------------
(* Steps of the chip.                                                      *)

\* A clear or erase that ends, one way or another, fills the page that it was of.
LEMMA Filled ==
  ASSUME Given, task # NoTask, NEW c \in {"clear", "erased", "spoilt"},
         cells' = FillPage(task[2], c), task' = NoTask, UNCHANGED driver
  PROVE  TaskInv' /\ ErasedInv' /\ ImageInv' /\ NeverOver'
<1> USE GivenFacts
<1>1. UNCHANGED <<pc, page, at, command, flashed>>
  BY DEF driver
<1>2. pc \notin {"checkDelay"} \cup Erased \cup Programming \cup Checking /\ ~flashed
  BY DEF TaskInv
<1>3. TaskInv'
  BY DEF TaskInv
<1>4. ErasedInv'
  BY <1>1, <1>2 DEF ErasedInv
<1>5. FirstWord' = FirstWord
  BY <1>1 DEF FirstWord
<1>6. ASSUME pc \in Flashing, NEW w \in Words, w < FirstWord PROVE cells'[w] = cells[w]
  <2>1. pc \notin {"write", "verify"}
    BY <1>6 DEF Flashing, Processing, Erased, Programming, Checking
  <2>2. page \in Nat /\ w >= 1 /\ w \in Nat
    BY <2>1, HereFacts
  <2>3. page > 0
    <3>1. FirstWord = page * PageSize + 1
      BY <2>1, HereFacts
    <3>2. page = 0 => FirstWord = 1
      BY <3>1, ChipConstants
    <3> QED
      BY <1>6, <2>2, <3>2
  <2>4. task[2] = page
    BY <1>6, <2>3 DEF TaskInv
  <2>5. w \notin PageWords(page)
    BY <1>6, <2>1, <2>2, HereFacts
  <2> QED
    BY <2>4, <2>5 DEF FillPage
<1>7. ImageInv'
  BY <1>1, <1>2, <1>5, <1>6 DEF ImageInv, Checking
<1>8. NeverOver'
  BY DEF NeverOver, FillPage
<1> QED
  BY <1>3, <1>4, <1>7, <1>8

LEMMA FinishFlash == ASSUME Given, Finish, UNCHANGED driver PROVE FlashInv'
<1> USE GivenFacts
<1>1. UNCHANGED <<pc, page, at, command, flashed>> /\ refused' = refused
  BY DEF driver, Finish
<1>2. TaskInv' /\ ErasedInv' /\ ImageInv' /\ NeverOver'
  BY Filled DEF Finish
<1>3. pc \notin {"checkDelay"}
  BY DEF Finish, TaskInv
<1>4. CASE ram' = [ram EXCEPT ![DelayReg] = 1]
  <2>1. ram'[DelayReg] = 1
    BY <1>4
  <2>2. CommandInv'
    BY <2>1 DEF CommandInv
  <2> QED
    BY <1>1, <1>2, <2>2 DEF FlashInv
<1>5. CASE /\ cells' = FillPage(task[2], IF task[1] = "clear" THEN "clear" ELSE "erased")
           /\ UNCHANGED ram
  <2>1. ASSUME pc = "poll", ram[DelayReg] = 255, ~refused PROVE Done'
    <3>1. task = <<command, page>>
      BY <2>1 DEF Finish, CommandInv
    <3> QED
      BY <1>1, <1>5, <3>1 DEF Done, PageHolds, FillPage, PageWords
  <2>2. task' = NoTask
    BY DEF Finish
  <2>3. CommandInv'
    BY <1>1, <1>3, <1>5, <2>1, <2>2 DEF CommandInv
  <2> QED
    BY <1>1, <1>2, <2>3 DEF FlashInv
<1> QED
  BY <1>4, <1>5 DEF Finish

LEMMA PowerFlash == ASSUME Given, LosePower, UNCHANGED driver PROVE FlashInv'
<1> USE GivenFacts
<1>1. UNCHANGED <<pc, page, at, command, flashed>>
  BY DEF driver
<1>2. ram'[DelayReg] = 170 /\ flashMode' = FALSE /\ task' = NoTask
  BY DEF LosePower, PowerUp
<1>3. CommandInv'
  BY <1>2 DEF CommandInv
<1>4. TaskInv' /\ ErasedInv' /\ ImageInv' /\ NeverOver'
  <2>1. CASE task = NoTask
    <3>1. cells' = cells
      BY <2>1 DEF LosePower
    <3>2. FirstWord' = FirstWord
      BY <1>1 DEF FirstWord
    <3> QED
      BY <1>1, <1>2, <3>1, <3>2 DEF TaskInv, ErasedInv, ImageInv, NeverOver, PageHolds, Here
  <2>2. CASE task # NoTask
    BY <1>2, <2>2, Filled DEF LosePower
  <2> QED
    BY <2>1, <2>2
<1> QED
  BY <1>1, <1>3, <1>4 DEF FlashInv

-----------------------------------------------------------------------------
(* The whole.                                                              *)

LEMMA FlashInitially == Init => FlashInv
<1> SUFFICES ASSUME Init PROVE FlashInv
  OBVIOUS
<1>1. /\ pc = "idle" /\ page = 0 /\ flashed = FALSE /\ task = NoTask
      /\ cells = [w \in Words |-> "old"]
  BY DEF Init, ChipInit
<1>2. /\ pc \notin Flashing /\ pc \notin Erased /\ pc \notin Programming /\ pc \notin Checking
  BY <1>1 DEF Flashing, Processing, Erased, Programming, Checking
<1>3. TaskInv /\ CommandInv /\ ErasedInv /\ ImageInv /\ NeverOver
  BY <1>1, <1>2 DEF TaskInv, CommandInv, ErasedInv, ImageInv, NeverOver
<1> QED
  BY <1>1, <1>3 DEF FlashInv

LEMMA FlashStep == ASSUME Given, [Next]_vars PROVE FlashInv'
<1>1. CASE UNCHANGED vars
  BY <1>1 DEF Given, vars, driver, chipVars, flashChip, FlashInv, TaskInv, CommandInv, ErasedInv,
              ImageInv, NeverOver, Done, PageHolds, Here, FirstWord
<1>2. CASE Console \/ Runtime
  BY <1>2, RuntimeFlash, StartFlash DEF Console
<1>3. CASE Flash
  BY <1>3, ProcessFlash, AddressFlash, ProgramFlash, ReadFlash, DoubleFlash, PageDone DEF Flash
<1>4. CASE Chip
  BY <1>4, FinishFlash, PowerFlash DEF Chip
<1> QED
  BY <1>1, <1>2, <1>3, <1>4 DEF Next, Driver

\* The types, the places and locals of the driver (i2c_pm.c, hexrec.c), and the state of the
\* flash under xrp_flash, together: the inductive invariant.
THEOREM FlashHolds == Spec => []Given
<1>1. Init => Given
  BY TypeInit, DriverInit, FlashInitially DEF Given
<1>2. Given /\ [Next]_vars => Given'
  BY TypeStep, FlashStep DEF Given
<1> QED
  BY <1>1, <1>2, PTL DEF Spec

\* No word of the flash is programmed over one that has not been erased since, whatever the chip
\* answers, whatever fails, and whatever an earlier run left behind (i2c_pm.c, hexrec.c).
THEOREM NeverOverHolds == Spec => []NeverOver
<1>1. Given => NeverOver
  BY GivenFacts
<1> QED
  BY <1>1, FlashHolds, PTL

\* When xrp_flash reports completion, the flash holds the image, word for word (i2c_pm.c).
THEOREM FlashedIsImageHolds == Spec => []FlashedIsImage
<1>1. Given => FlashedIsImage
  BY GivenFacts DEF ImageInv, FlashedIsImage
<1> QED
  BY <1>1, FlashHolds, PTL
=============================================================================
