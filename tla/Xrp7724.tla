------------------------------ MODULE Xrp7724 ------------------------------
(***************************************************************************)
(* How the firmware programs the XRP7724 (i2c_pm.c, hexrec.c): xrp_boot    *)
(* loads the runtime registers with a static list of hex records and sets  *)
(* the chip to operate; xrp_flash clears, erases, programs and verifies    *)
(* the pages of its flash.  Both run in the main loop, blocking it, one    *)
(* transaction of the bus at a time.                                       *)
(*                                                                         *)
(* Any transaction may fail.  What the caller makes of that differs: some  *)
(* give up, some ignore it, and a failed xrp_read2 reads as zero.          *)
(***************************************************************************)
EXTENDS XrpChip, FiniteSets

CONSTANTS
  Records,    \* xrp_program_static's list: sequences of <<address, value>>
  Retries, Outers, Polls   \* bounds of the loops of xrp_process_flash

NotWritten == "D022"
NotVerified == {NotWritten, "FFAD"}
Pattern == 147    \* 0x93, written to Tag

StaticBytes == UNION {{Records[r][j] : j \in DOMAIN Records[r]} : r \in DOMAIN Records}

\* The list names no register twice.
ASSUME DriverConstants ==
  /\ Records \in Seq(Seq((Addresses \ {Tag, DelayReg}) \X (0 .. 255)) \ {<<>>})
  /\ Records # <<>>
  /\ \A b, c \in StaticBytes : b[1] = c[1] => b = c
  /\ Retries \in Nat \ {0} /\ Outers \in Nat \ {0} /\ Polls \in Nat \ {0}

VARIABLES
  pc,
  rec, at,       \* record, and byte of it or word of the page
  fault,         \* rc of xrp_push_high
  page, command, retry, outer, poll,
  flashed        \* history: the last xrp_flash reported completion

driver == <<pc, rec, at, fault, page, command, retry, outer, poll, flashed>>
runtimeVars == <<rec, fault>>
flashVars == <<page, command, retry, outer, poll, flashed>>
vars == <<chipVars, driver>>

Init ==
  /\ ChipInit
  /\ pc = "idle" /\ rec = 1 /\ at = 1 /\ fault = FALSE
  /\ page = 0 /\ command = "clear" /\ retry = 0 /\ outer = 0 /\ poll = 0
  /\ flashed = FALSE

Goto(l) == pc' = l

\* Every return, early or not, leaves the locals behind.
Return ==
  /\ pc' = "idle" /\ rec' = 1 /\ at' = 1 /\ fault' = FALSE
  /\ page' = 0 /\ command' = "clear" /\ retry' = 0 /\ outer' = 0 /\ poll' = 0

\* xrp_set2: neither a failed write nor a readback that differs stops a caller.
xrp_set2(a, v) ==
  /\ WriteRegister(a, v) \/ UNCHANGED ram
  /\ UNCHANGED <<operate, flashChip, hits>>

\* What xrp_read2 may return.
xrp_read2(a) == {ram[a], 0}

\* A transaction that fails makes the caller return.
Fails == Return /\ UNCHANGED <<chipVars, flashed>>

(***************************************************************************)
(* xrp_boot and xrp_go                                                     *)
(***************************************************************************)
\* xrp_boot skips a chip with a channel on; a chip of which no channel's status can be read counts
\* as off, so one in operation can come this way too.
xrp_boot ==
  /\ pc = "idle" /\ Goto("stop")
  /\ UNCHANGED <<chipVars, runtimeVars, at, flashVars>>

\* What reads back from PWR_CHIP_READY is not looked at.
StopChip ==
  /\ pc = "stop" /\ Goto("tag")
  /\ operate' \in {FALSE, operate}
  /\ UNCHANGED <<ram, flashChip, hits, runtimeVars, at, flashVars>>

WriteTag ==
  /\ pc = "tag" /\ Goto("write")
  /\ xrp_set2(Tag, Pattern)
  /\ UNCHANGED <<runtimeVars, at, flashVars>>

Byte == Records[rec][at]
LastByte == at = Len(Records[rec])

\* The first loop of xrp_push_high.
WriteByte ==
  /\ pc = "write"
  /\ IF Byte[1] = NotWritten THEN UNCHANGED chipVars ELSE xrp_set2(Byte[1], Byte[2])
  /\ IF LastByte THEN at' = 1 /\ Goto("verify") ELSE at' = at + 1 /\ UNCHANGED pc
  /\ UNCHANGED <<runtimeVars, flashVars>>

SlipNextRecord ==   \* slip: one record too many
  /\ at' = 1
  /\ IF rec <= Len(Records) THEN rec' = rec + 1 /\ Goto("write") ELSE rec' = 1 /\ Goto("tagCheck")

NextRecord ==
  /\ at' = 1
  /\ IF rec < Len(Records) THEN rec' = rec + 1 /\ Goto("write") ELSE rec' = 1 /\ Goto("tagCheck")

ByteDiffers(v) == Byte[1] \notin NotVerified /\ v # Byte[2]

SlipVerify ==   \* slip: each byte sets the result anew
  /\ pc = "verify"
  /\ \E v \in xrp_read2(Byte[1]) :
       \/ ~LastByte /\ fault' = ByteDiffers(v) /\ at' = at + 1 /\ UNCHANGED <<pc, rec, flashVars>>
       \/ LastByte /\ ~ByteDiffers(v) /\ NextRecord /\ UNCHANGED flashVars /\ fault' = FALSE
       \/ LastByte /\ ByteDiffers(v) /\ Return /\ UNCHANGED flashed
  /\ UNCHANGED chipVars

\* The second loop, which goes on after a fault.  At its end a fault stops xrp_program_static, and
\* with it xrp_go.  The record that ends the list is not a fault.
VerifyByte ==
  /\ pc = "verify"
  /\ \E v \in xrp_read2(Byte[1]) :
       LET bad == fault \/ ByteDiffers(v)
       IN  \/ ~LastByte /\ fault' = bad /\ at' = at + 1 /\ UNCHANGED <<pc, rec, flashVars>>
           \/ LastByte /\ ~bad /\ NextRecord /\ UNCHANGED <<fault, flashVars>>
           \/ LastByte /\ bad /\ Return /\ UNCHANGED flashed
  /\ UNCHANGED chipVars

SlipTagCheck ==   \* slip: the tag is not looked at
  /\ pc = "tagCheck" /\ Goto("operate")
  /\ UNCHANGED <<chipVars, runtimeVars, at, flashVars>>

\* A chip that has lost power since it was tagged is not set to operate.
TagCheck ==
  /\ pc = "tagCheck"
  /\ \E v \in xrp_read2(Tag) :
       IF v = Pattern THEN Goto("operate") /\ UNCHANGED <<runtimeVars, at, flashVars>>
       ELSE Return /\ UNCHANGED flashed
  /\ UNCHANGED chipVars

SetOperate ==
  /\ pc = "operate" /\ Return
  /\ operate' \in {TRUE, operate}
  /\ UNCHANGED <<ram, flashChip, hits, flashed>>

Runtime ==
  StopChip \/ WriteTag \/ WriteByte \/ VerifyByte \/ TagCheck \/ SetOperate

(***************************************************************************)
(* xrp_flash: xrp_program_page for each page, which is xrp_process_flash   *)
(* to clear, again to erase, and then the programming by xrp_push_low.     *)
(***************************************************************************)
FirstWord == page * PageSize + 1

xrp_flash ==
  /\ pc = "idle" /\ Goto("presetDelay") /\ flashed' = FALSE
  /\ UNCHANGED <<chipVars, runtimeVars, at, page, command, retry, outer, poll>>

PresetDelay ==
  /\ pc \in {"presetDelay", "presetProgram"}
  /\ xrp_set2(DelayReg, 255)
  /\ Goto(IF pc = "presetDelay" THEN "flashInit" ELSE "checkProgram")
  /\ UNCHANGED <<runtimeVars, at, flashVars>>

FlashInit ==
  /\ pc \in {"flashInit", "programInit"}
  /\ \/ /\ FLASH_INIT
        /\ Goto(IF pc = "flashInit" THEN "command" ELSE "setAddress")
        /\ UNCHANGED <<runtimeVars, at, flashVars>>
     \/ Fails

Command ==
  /\ pc = "command"
  /\ \/ /\ FlashCommand(command, page)
        /\ Goto("poll") /\ poll' = 0
        /\ UNCHANGED <<runtimeVars, at, page, command, retry, outer, flashed>>
     \/ Fails

SlipPoll ==   \* slip: polls as long as the chip is busy
  /\ pc = "poll"
  /\ \/ /\ task # NoTask
        /\ poll' = (poll + 1) % Polls
        /\ UNCHANGED <<pc, runtimeVars, at, page, command, retry, outer, flashed>>
     \/ /\ task = NoTask /\ ~refused
        /\ Goto("checkDelay") /\ outer' = 0 /\ poll' = 0
        /\ UNCHANGED <<runtimeVars, at, page, command, retry, flashed>>
     \/ Return /\ UNCHANGED flashed
  /\ UNCHANGED chipVars

\* Busy: poll again, up to the bound.  Refused: give the command again, up to the bound.
Poll ==
  /\ pc = "poll"
  /\ \/ /\ task # NoTask /\ poll + 1 < Polls
        /\ poll' = poll + 1
        /\ UNCHANGED <<pc, runtimeVars, at, page, command, retry, outer, flashed>>
     \/ /\ task = NoTask /\ ~refused
        /\ Goto("checkDelay") /\ outer' = 0 /\ poll' = 0
        /\ UNCHANGED <<runtimeVars, at, page, command, retry, flashed>>
     \/ /\ task = NoTask /\ refused /\ outer + 1 < Outers
        /\ Goto("command") /\ outer' = outer + 1 /\ poll' = 0
        /\ UNCHANGED <<runtimeVars, at, page, command, retry, flashed>>
     \/ \* Timeout, status stuck, or failed
        Return /\ UNCHANGED flashed
  /\ UNCHANGED chipVars

SlipCheckDelay ==   \* slip: what the delay reads is not looked at
  /\ pc = "checkDelay" /\ retry' = 0
  /\ IF command = "clear" THEN command' = "erase" /\ Goto("presetDelay")
     ELSE command' = "clear" /\ Goto("presetProgram")
  /\ UNCHANGED <<chipVars, runtimeVars, at, page, outer, poll, flashed>>

\* The end of xrp_process_flash: the chip has not changed the delay, or a retry.
CheckDelay ==
  /\ pc = "checkDelay"
  /\ \E v \in xrp_read2(DelayReg) :
       \/ /\ v = 255 /\ retry' = 0
          /\ IF command = "clear" THEN command' = "erase" /\ Goto("presetDelay")
             ELSE command' = "clear" /\ Goto("presetProgram")
          /\ UNCHANGED <<runtimeVars, at, page, outer, poll, flashed>>
       \/ /\ v # 255 /\ retry + 1 < Retries
          /\ retry' = retry + 1 /\ Goto("presetDelay")
          /\ UNCHANGED <<runtimeVars, at, page, command, outer, poll, flashed>>
       \/ v # 255 /\ retry + 1 = Retries /\ Return /\ UNCHANGED flashed
  /\ UNCHANGED chipVars

CheckProgram ==
  /\ pc = "checkProgram"
  /\ \E v \in xrp_read2(DelayReg) :
       IF v = 255 THEN Goto("programInit") /\ UNCHANGED <<runtimeVars, at, flashVars>>
       ELSE Return /\ UNCHANGED flashed
  /\ UNCHANGED chipVars

\* xrp_reg_write_check of FLASH_PROGRAM_ADDRESS: what counts is the readback.
SetAddress ==
  /\ pc \in {"setAddress", "resetAddress"}
  /\ SetPointer(FirstWord) \/ UNCHANGED chipVars
  /\ \/ /\ ptr' = FirstWord
        /\ Goto(IF pc = "setAddress" THEN "program" ELSE "doubleCheck")
        /\ UNCHANGED <<runtimeVars, at, flashVars>>
     \/ Return /\ UNCHANGED flashed

LastWord == at = PageSize
Expected == Image[FirstWord + at - 1]
Matches == cells[ptr] = Expected

ProgramWord ==
  /\ pc = "program"
  /\ \/ Program(Expected) /\ Goto("readBack") /\ UNCHANGED <<runtimeVars, at, flashVars>>
     \/ Fails

ReadBack ==
  /\ pc = "readBack"
  /\ \/ /\ Matches /\ ReadNext
        /\ IF LastWord THEN at' = 1 /\ Goto("resetAddress") ELSE at' = at + 1 /\ Goto("program")
        /\ UNCHANGED <<runtimeVars, flashVars>>
     \/ ~Matches /\ ReadNext /\ Return /\ UNCHANGED flashed
     \/ Fails

SlipDoubleCheck ==   \* slip: the page is not read a second time
  /\ pc = "doubleCheck" /\ at' = 1 /\ Goto("lastCheck")
  /\ UNCHANGED <<chipVars, runtimeVars, flashVars>>

\* The whole page is read once more: words that a later one spoilt show here.
DoubleCheck ==
  /\ pc = "doubleCheck"
  /\ \/ /\ Matches /\ ReadNext
        /\ IF LastWord THEN at' = 1 /\ Goto("lastCheck") ELSE at' = at + 1 /\ UNCHANGED pc
        /\ UNCHANGED <<runtimeVars, flashVars>>
     \/ ~Matches /\ ReadNext /\ Return /\ UNCHANGED flashed
     \/ Fails

\* The end of xrp_program_page, and of xrp_flash after the last one.
LastCheck ==
  /\ pc = "lastCheck"
  /\ \E v \in xrp_read2(DelayReg) :
       \/ /\ v = 255 /\ page < LastPage
          /\ page' = page + 1 /\ Goto("presetDelay")
          /\ UNCHANGED <<runtimeVars, at, command, retry, outer, poll, flashed>>
       \/ v = 255 /\ page = LastPage /\ Return /\ flashed' = TRUE
       \/ v # 255 /\ Return /\ UNCHANGED flashed
  /\ UNCHANGED chipVars

Flash ==
  \/ PresetDelay \/ FlashInit \/ Command \/ Poll \/ CheckDelay \/ CheckProgram
  \/ SetAddress \/ ProgramWord \/ ReadBack \/ DoubleCheck \/ LastCheck

-----------------------------------------------------------------------------
Driver == Runtime \/ Flash
Console == xrp_boot \/ xrp_flash
Chip == (Finish \/ LosePower) /\ UNCHANGED driver

Next == Console \/ Driver \/ Chip

Spec == Init /\ [][Next]_vars

\* The processor runs; nobody has to type, and the chip may hang.
FairSpec == Spec /\ WF_vars(Driver)

-----------------------------------------------------------------------------
Labels ==
  {"idle", "stop", "tag", "write", "verify", "tagCheck", "operate", "presetDelay", "flashInit",
   "command", "poll", "checkDelay", "presetProgram", "checkProgram", "programInit", "setAddress",
   "program", "readBack", "resetAddress", "doubleCheck", "lastCheck"}

\* The locals stay within the lists and bounds of the loops.
TypeOK ==
  /\ ChipTypeOK
  /\ pc \in Labels
  /\ rec \in 1 .. Len(Records)
  /\ at \in 1 .. (IF pc \in {"write", "verify"} THEN Len(Records[rec]) ELSE PageSize)
  /\ fault \in BOOLEAN /\ flashed \in BOOLEAN
  /\ page \in 0 .. LastPage /\ command \in {"clear", "erase"}
  /\ retry \in 0 .. Retries - 1 /\ outer \in 0 .. Outers - 1 /\ poll \in 0 .. Polls - 1

InPlace(b) == b[1] \in NotVerified \/ b[2] = 0 \/ ram[b[1]] = b[2]

\* Every byte of the static list is in its register, except the two registers that are not
\* verified and bytes that are zero, which a failed read looks like.
Loaded == \A b \in StaticBytes : InPlace(b)

\* xrp_go decides to set the chip to operate only when the chip holds the whole list, whichever
\* transactions failed and whenever the chip lost power since the first record.
StartsLoaded == [][pc = "tagCheck" /\ pc' = "operate" => Loaded]_vars

\* When xrp_flash reports completion every page of the chip holds the image, although weak cells
\* lose words already verified, commands are refused and fail, and transactions are lost.
FlashedIsImage == flashed /\ pc = "idle" => cells = Image

\* No word is programmed over one that has not been erased since, whatever the chip answers to
\* the commands, and whatever an earlier run that was cut short left in it.
NeverOver == \A w \in Words : cells[w] # "over"

\* Both operations end, on a chip that stays busy or refuses for ever, too.
Returns == (pc # "idle") ~> (pc = "idle")

\* i2c_pm.c:1004: the registers are loaded while the chip does not operate, "check that
\* PWR_CHIP_READY (0E) reads back 0".  Does not hold: xrp_go ignores what it reads back.
LoadedWhileOff == pc \in {"write", "verify"} => ~operate
=============================================================================
