----------------------------- MODULE EepromEmu -----------------------------
(***************************************************************************)
(* Non-volatile parameters kept in two flash sectors (eeprom_emu.c), with  *)
(* the default-filling layer above them (eeprom.c).                        *)
(*                                                                         *)
(* A bank is a header that tells its state and a log of frames; the value  *)
(* of a tag is its last good frame.  When the log is full the live frames  *)
(* are migrated to the other bank.  The flash survives a power cut, the    *)
(* RAM record does not.  Every step performs at most one flash operation,  *)
(* and every flash operation may be cut short, so that the next boot finds *)
(* whatever half of it reached the sector.                                 *)
(***************************************************************************)
EXTENDS Integers, FiniteSets

CONSTANTS
  EEPROM_COUNT,  \* frames in a bank, the header included
  NumTags,       \* number of parameters; their tags are 1..NumTags
  Val,           \* values a parameter can take
  Default,       \* Default[t]: the value written when t is missing at boot
  ShortTag,      \* tags whose datum is shorter than a frame's payload
  WordTags,      \* tags below this have their bit inside ee_is_full's array
  Cuts,          \* kinds of flash operation during which the power may be lost
  Faults,        \* kinds of flash operation that may report an error
  None, Blank, Bad

Tag == 1 .. NumTags
Slot == 1 .. EEPROM_COUNT - 1
Bank == {0, 1}
NoBank == 2
Good == [tag : Tag, val : Val]
Frame == Good \cup {Blank, Bad}
Header == {"erased", "valid", "moving", "invalid"}

ASSUME EepromConstants ==
  /\ EEPROM_COUNT \in Nat \ {0, 1}
  /\ NumTags \in Nat \ {0}
  /\ Default \in [Tag -> Val]
  /\ ShortTag \subseteq Tag
  /\ WordTags \in Nat
  /\ None \notin Val
  /\ Blank \notin Good /\ Bad \notin Good /\ Blank # Bad

VARIABLES
  hdr,     \* hdr[b]: state the header of bank b votes for (ee_page_state)
  frames,  \* frames[b][n]: what ee_frame_check makes of slot n of bank b
  ram      \* the running code: where it is, ee_active, its arguments and locals

flash == <<hdr, frames>>
vars == <<hdr, frames, ram>>

Other(b) == 1 - b

PowerOn ==
  [pc |-> "boot", active |-> NoBank, src |-> NoBank, srcn |-> 0, failed |-> FALSE,
   tag |-> 0, val |-> None, todo |-> 1, res |-> "none"]

Init ==
  /\ hdr = [b \in Bank |-> "erased"]
  /\ frames = [b \in Bank |-> [n \in Slot |-> Blank]]
  /\ ram = PowerOn

(***************************************************************************)
(* Reading a bank.                                                         *)
(***************************************************************************)
\* The log of a bank: its slots up to the first unused one.
Log(b) == {n \in Slot : \A m \in 1 .. n : frames[b][m] # Blank}

Holds(b, n, t) == frames[b][n] \in Good /\ frames[b][n].tag = t

\* The value of t in the last of the slots S of bank b that holds it.
LastIn(b, S, t) ==
  LET hits == {n \in S : Holds(b, n, t)}
  IN  IF hits = {} THEN None
      ELSE frames[b][CHOOSE n \in hits : \A m \in hits : m <= n].val

ee_find(b, t) == LastIn(b, Log(b), t)

\* Slot n is the one ee_write picks; no slot is when the bank is full.
FirstUnused(b, n) == /\ frames[b][n] = Blank
                     /\ \A m \in 1 .. n - 1 : frames[b][m] # Blank

Full(b) == \A n \in Slot : frames[b][n] # Blank

\* Some frame of bank b is hidden by a later one of its tag: a migration frees it.
Superseded(b) == \E m, n \in Slot : \E t \in Tag :
                   m < n /\ Holds(b, m, t) /\ Holds(b, n, t)

\* ee_is_full keeps one bit per tag in an array of one word, but indexes it by tag/8.
\* The bit of a tag beyond the array may be found already set, which reads as a
\* duplicate.
SlipNeverReclaim(b) == {FALSE}   \* slip: a bank without blanks taken as full

ReclaimableAnswers(b) ==
  {Superseded(b)} \cup
  {TRUE : n \in {m \in Slot : frames[b][m] \in Good /\ frames[b][m].tag >= WordTags}}

(***************************************************************************)
(* The flash.  An operation is done, fails with an error, or is cut short  *)
(* by a loss of power.  A frame or a header is programmed as two words, so *)
(* one that is not done may be absent, half there or whole.  Programming   *)
(* clears bits and never sets one.  A sector whose erase is cut has each   *)
(* slot kept, garbled or blank, and its header reads as erased only once   *)
(* all of it is.                                                           *)
(***************************************************************************)
Endings(kind) == {"done"} \cup {"cut" : c \in Cuts \cap {kind}}
                         \cup {"fail" : f \in Faults \cap {kind}}

Programmed(old, new) ==
  CASE old = "erased"                       -> {new}
    [] old = "moving" \/ new = "moving"     -> {"moving"}
    [] old = "invalid" /\ new = "valid"     -> {"invalid", "valid"}
    [] OTHER                                -> {new}

ProgramHeader(b, new, end) ==
  LET whole == Programmed(hdr[b], new)
      partly == {hdr[b]} \cup (IF hdr[b] \in whole THEN {} ELSE {"invalid"})
  IN  /\ \E h \in IF end = "done" THEN whole ELSE whole \cup partly :
           hdr' = [hdr EXCEPT ![b] = h]
      /\ UNCHANGED frames

ProgramFrame(b, n, f, end) ==
  /\ \E g \in IF end = "done" THEN {f} ELSE {Blank, Bad, f} :
       frames' = [frames EXCEPT ![b][n] = g]
  /\ UNCHANGED hdr

Erased(b) == /\ hdr' = [hdr EXCEPT ![b] = "erased"]
             /\ frames' = [frames EXCEPT ![b] = [n \in Slot |-> Blank]]

HalfErased(b) ==
  /\ \E h \in {hdr[b], "invalid"} : hdr' = [hdr EXCEPT ![b] = h]
  /\ \E kept, garbled \in SUBSET Slot :
       frames' = [frames EXCEPT ![b] =
         [n \in Slot |-> IF n \in kept THEN frames[b][n]
                         ELSE IF n \in garbled THEN Bad ELSE Blank]]

\* An erase that fails was refused, or started ("erasing") and did not finish.
EraseSector(b, end) ==
  \/ end \in {"done", "cut"} /\ Erased(b)
  \/ end = "cut" /\ HalfErased(b)
  \/ end = "fail" /\ UNCHANGED flash
  \/ end = "fail" /\ "erasing" \in Faults /\ (Erased(b) \/ HalfErased(b))

(***************************************************************************)
(* Control: where the running code goes after the flash operation of a     *)
(* step has ended.  A cut leaves only the flash, and the code starts over. *)
(***************************************************************************)
Goto(pc) == [ram EXCEPT !.pc = pc]

\* fmc_ee_write returns: to eeprom_restore_all at boot, to its caller later.
Return(result) ==
  [PowerOn EXCEPT !.pc = IF ram.todo <= NumTags THEN "populate" ELSE "idle",
                  !.active = ram.active, !.todo = ram.todo, !.res = result]

After(end, done, fail) ==
  ram' = CASE end = "done" -> done
           [] end = "fail" -> fail
           [] end = "cut"  -> PowerOn

(***************************************************************************)
(* eeprom_system_init.                                                     *)
(***************************************************************************)
OneValid(b) == hdr[b] = "valid" /\ hdr[Other(b)] # "valid"

BootAdopt ==
  /\ ram.pc = "boot"
  /\ \E b \in Bank :
       /\ OneValid(b) /\ hdr[Other(b)] # "moving"
       /\ ram' = [ram EXCEPT !.pc = "populate", !.active = b]
  /\ UNCHANGED flash

SlipMigrating(from) ==   \* slip: the backward scan starts one slot early
  [ram EXCEPT !.pc = "migrate", !.src = from, !.srcn = EEPROM_COUNT - 2, !.failed = FALSE]

Migrating(from) ==
  [ram EXCEPT !.pc = "migrate", !.src = from, !.srcn = EEPROM_COUNT - 1, !.failed = FALSE]

BootResume ==
  /\ ram.pc = "boot"
  /\ \E b \in Bank :
       /\ OneValid(b) /\ hdr[Other(b)] = "moving"
       /\ ram' = Migrating(Other(b))
  /\ UNCHANGED flash

BootFormat ==
  /\ ram.pc = "boot"
  /\ ~ \E b \in Bank : OneValid(b)
  /\ ram' = Goto(IF \A b \in Bank : hdr[b] = "erased" THEN "format" ELSE "wipe0")
  /\ UNCHANGED flash

\* Both sectors are erased in turn; what the erases return is overwritten.
Wipe ==
  /\ ram.pc \in {"wipe0", "wipe1"}
  /\ \E end \in Endings("wipe") :
       LET first == ram.pc = "wipe0"
           next == Goto(IF first THEN "wipe1" ELSE "format")
       IN  /\ EraseSector(IF first THEN 0 ELSE 1, end)
           /\ After(end, next, next)

Format ==
  /\ ram.pc = "format"
  /\ \E end \in Endings("header") :
       /\ ProgramHeader(0, "valid", end)
       /\ After(end, [ram EXCEPT !.pc = "populate", !.active = 0], Goto("populate"))

(***************************************************************************)
(* ee_migrate: the slots of src from the last down to the first.  Only the *)
(* result of the last copy is kept.  At boot nothing is active.            *)
(***************************************************************************)
Scanned(failed) == [ram EXCEPT !.srcn = ram.srcn - 1, !.failed = failed]

SlipCopyAll == frames[ram.src][ram.srcn] \in Good   \* slip: older frames copied too

\* The frame under the cursor is good and its tag is not yet in the other bank.
ToCopy == LET f == frames[ram.src][ram.srcn]
          IN  f \in Good /\ ee_find(Other(ram.src), f.tag) = None

SlipMigratePastHeader ==   \* slip: the loop condition lets srcn go below the header
  /\ ram.pc = "migrate"
  /\ ram.srcn \in Slot => ~ToCopy
  /\ ram' = Scanned(ram.failed)
  /\ UNCHANGED flash

MigrateSkip ==
  /\ ram.pc = "migrate" /\ ram.srcn \in Slot
  /\ ~ToCopy
  /\ ram' = Scanned(ram.failed)
  /\ UNCHANGED flash

MigrateCopy ==
  /\ ram.pc = "migrate" /\ ram.srcn \in Slot
  /\ ToCopy
  /\ LET dst == Other(ram.src)
     IN  \/ /\ Full(dst)
            /\ ram' = Scanned(TRUE)
            /\ UNCHANGED flash
         \/ \E n \in Slot, end \in Endings("migrate") :
              /\ FirstUnused(dst, n)
              /\ ProgramFrame(dst, n, frames[ram.src][ram.srcn], end)
              /\ After(end, Scanned(FALSE), Scanned(TRUE))

MigrateEnd ==
  /\ ram.pc = "migrate" /\ ram.srcn = 0
  /\ ram' = IF ram.active = NoBank
            THEN IF ram.failed THEN [PowerOn EXCEPT !.pc = "populate"] ELSE Goto("bootErase")
            ELSE IF ram.failed THEN Return("err") ELSE Goto("setValid")
  /\ UNCHANGED flash

BootErase ==
  /\ ram.pc = "bootErase"
  /\ \E end \in Endings("erase") :
       /\ EraseSector(ram.src, end)
       /\ After(end, [PowerOn EXCEPT !.pc = "populate", !.active = Other(ram.src)],
                     [PowerOn EXCEPT !.pc = "populate"])

(***************************************************************************)
(* eeprom_restore_all: a default for every tag that cannot be read.        *)
(***************************************************************************)
Populate ==
  /\ ram.pc = "populate"
  /\ ram' = IF ram.todo > NumTags THEN Goto("idle")
            ELSE IF ram.active # NoBank /\ ee_find(ram.active, ram.todo) = None
            THEN [ram EXCEPT !.pc = "write", !.tag = ram.todo, !.val = Default[ram.todo],
                             !.todo = ram.todo + 1]
            ELSE [ram EXCEPT !.todo = ram.todo + 1]
  /\ UNCHANGED flash

(***************************************************************************)
(* fmc_ee_write.                                                           *)
(***************************************************************************)
Store(t, v) ==
  /\ ram.pc = "idle"
  /\ ram' = IF ram.active = NoBank THEN Return("err")
            ELSE [ram EXCEPT !.pc = "write", !.tag = t, !.val = v, !.res = "none"]
  /\ UNCHANGED flash

\* Whether the request repeats the bytes of the last frame of its tag.  Beyond a short
\* datum they are whatever the stack of eeprom_store_val held.
Repeats ==
  LET same == ee_find(ram.active, ram.tag) = ram.val
  IN  {same} \cup (IF ram.tag \in ShortTag THEN {FALSE} ELSE {})

WriteRepeat ==
  /\ ram.pc \in {"write", "retry"}
  /\ TRUE \in Repeats
  /\ ram' = Return("ok")
  /\ UNCHANGED flash

WriteFrame ==
  /\ ram.pc \in {"write", "retry"}
  /\ FALSE \in Repeats
  /\ \E n \in Slot, end \in Endings("frame") :
       /\ FirstUnused(ram.active, n)
       /\ ProgramFrame(ram.active, n, [tag |-> ram.tag, val |-> ram.val], end)
       /\ After(end, Return("ok"), Return("err"))

\* -ENOSPC: migrate when that frees a slot and the other bank is erased, once.
WriteFull ==
  /\ ram.pc \in {"write", "retry"}
  /\ FALSE \in Repeats
  /\ Full(ram.active)
  /\ \E reclaimable \in ReclaimableAnswers(ram.active) :
       ram' = IF ram.pc = "retry" \/ ~reclaimable THEN Return("full")
              ELSE IF hdr[Other(ram.active)] # "erased" THEN Return("err")
              ELSE Goto("setMoving")
  /\ UNCHANGED flash

SlipNoMovingMark ==   \* slip: the old bank is not marked before its frames are copied
  /\ ram.pc = "setMoving"
  /\ ram' = Migrating(ram.active)
  /\ UNCHANGED flash

SetMoving ==
  /\ ram.pc = "setMoving"
  /\ \E end \in Endings("header") :
       /\ ProgramHeader(ram.active, "moving", end)
       /\ After(end, Migrating(ram.active), Return("err"))

SetValid ==
  /\ ram.pc = "setValid"
  /\ \E end \in Endings("header") :
       /\ ProgramHeader(Other(ram.src), "valid", end)
       /\ After(end, Goto("eraseOld"), Return("err"))

EraseOld ==
  /\ ram.pc = "eraseOld"
  /\ \E end \in Endings("erase") :
       /\ EraseSector(ram.src, end)
       /\ After(end, [ram EXCEPT !.pc = "retry", !.active = Other(ram.src),
                                 !.src = NoBank, !.failed = FALSE],
                     Return("err"))

PowerCut ==
  /\ ram # PowerOn
  /\ ram.pc = "wipe1" => "wipe" \in Cuts
  /\ ram' = PowerOn
  /\ UNCHANGED flash

Next ==
  \/ BootAdopt \/ BootResume \/ BootFormat \/ Wipe \/ Format
  \/ MigrateSkip \/ MigrateCopy \/ MigrateEnd \/ BootErase \/ Populate
  \/ WriteRepeat \/ WriteFrame \/ WriteFull \/ SetMoving \/ SetValid \/ EraseOld
  \/ \E t \in Tag, v \in Val : Store(t, v)
  \/ PowerCut

Spec == Init /\ [][Next]_vars

(***************************************************************************)
(* What a reader gets, and what the next boot would make of the flash.     *)
(***************************************************************************)
Recovered(t) ==
  IF \E b \in Bank : OneValid(b)
  THEN LET b == CHOOSE b \in Bank : OneValid(b)
           kept == ee_find(b, t)
       IN  IF kept = None /\ hdr[Other(b)] = "moving" THEN LastIn(Other(b), Slot, t) ELSE kept
  ELSE None

\* fmc_ee_read of the running code; with no active bank, what the flash still holds.
Stored(t) == IF ram.active = NoBank THEN Recovered(t) ELSE ee_find(ram.active, t)

-----------------------------------------------------------------------------
TypeOK ==
  /\ hdr \in [Bank -> Header]
  /\ frames \in [Bank -> [Slot -> Frame]]
  /\ ram \in [pc : {"boot", "wipe0", "wipe1", "format", "migrate", "bootErase", "populate",
                    "write", "retry", "setMoving", "setValid", "eraseOld", "idle"},
              active : Bank \cup {NoBank}, src : Bank \cup {NoBank}, srcn : 0 .. EEPROM_COUNT - 1,
              failed : BOOLEAN, tag : 0 .. NumTags, val : Val \cup {None},
              todo : 1 .. NumTags + 1, res : {"none", "ok", "err", "full"}]

\* The two banks are never both marked valid, whatever step of a migration, of a format or
\* of a boot the power is cut in: eeprom_system_init would answer by erasing both.
AtMostOneValid == ~ (hdr[0] = "valid" /\ hdr[1] = "valid")

\* Once a bank is marked valid, what the next boot would recover (eeprom_system_init, with
\* the migration it resumes) is for every tag what fmc_ee_read returns now: a power cut
\* at this point loses nothing and brings back nothing old.
RecoveryAgrees ==
  ram.active # NoBank /\ (\E b \in Bank : hdr[b] = "valid")
    => \A t \in Tag : Recovered(t) = ee_find(ram.active, t)

\* A store is refused for lack of space only when no slot of the active bank is blank and no good
\* frame of it is hidden by a later one of its tag.  Torn frames are not counted among those that
\* could be freed: ee_is_full takes their slots as used, although ee_migrate would leave them behind.
NoSpaceOnlyIfFull ==
  ram.res = "full" /\ ram.pc = "idle" => Full(ram.active) /\ ~Superseded(ram.active)

\* With more slots than tags, every migration makes room for the store it was begun for, also one
\* that ee_is_full began for nothing (a torn frame, or a tag beyond its array taken for a duplicate)
\* or that used up the log with equal settings: none is refused once a bank has been marked moving,
\* copied and erased for it, and no store after store wears out the flash without a gain.
MigrationMakesRoom == ram.pc = "retry" => ~Full(ram.active)

\* Every step changes the stored settings as one whole store of one tag does, or not at
\* all, or is a reformat that forgets them all: no torn, stale or misplaced value.
Abstract == INSTANCE NvStore WITH store <- [t \in Tag |-> Stored(t)]
ImplementsNvStore == Abstract!Spec

\* No stale value: in one step the setting of a tag stays, is lost with a reformat, or becomes
\* the value fmc_ee_write is storing; an older value never comes back (ee_migrate takes a
\* tag it finds in the destination as already migrated).
NoReversion ==
  [][\A t \in Tag : \/ Stored(t)' \in {Stored(t), None}
                    \/ (ram.tag = t /\ Stored(t)' = ram.val)]_vars

\* Settings persist across power cycles: a tag that has a value never goes back to none.
SettingsPersist == [][\A t \in Tag : Stored(t) # None => Stored(t)' # None]_vars
=============================================================================
