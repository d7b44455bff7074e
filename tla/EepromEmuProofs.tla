-------------------------- MODULE EepromEmuProofs --------------------------
(***************************************************************************)
(* Facts about the emulated EEPROM for every number of slots, tags and     *)
(* values, and for every choice of the operations that may fail or be cut. *)
(***************************************************************************)
EXTENDS EepromEmu, TLAPS

-----------------------------------------------------------------------------
(* The flash primitives keep the shape of the two banks.                   *)

LEMMA ProgrammedType ==
  ASSUME NEW old \in Header, NEW new \in {"valid", "moving"}
  PROVE  Programmed(old, new) \subseteq Header
BY DEF Programmed, Header

\* A header that is being programmed changes to a header, and the other bank's stays.
LEMMA ProgramHeaderStep ==
  ASSUME hdr \in [Bank -> Header], NEW b \in Bank, NEW new \in {"valid", "moving"}, NEW end,
         ProgramHeader(b, new, end)
  PROVE  /\ hdr' \in [Bank -> Header]
         /\ hdr'[Other(b)] = hdr[Other(b)]
         /\ new = "moving" => hdr'[b] # "valid" \/ hdr[b] = "valid"
         /\ new = "moving" /\ end = "done" => hdr'[b] = "moving"
         /\ UNCHANGED frames
<1> DEFINE whole == Programmed(hdr[b], new)
           partly == {hdr[b]} \cup (IF hdr[b] \in whole THEN {} ELSE {"invalid"})
<1>1. PICK h \in (IF end = "done" THEN whole ELSE whole \cup partly) :
             hdr' = [hdr EXCEPT ![b] = h]
  BY DEF ProgramHeader
<1>2. whole \subseteq Header
  BY ProgrammedType
<1>3. h \in Header
  BY <1>2 DEF Header
<1>4. new = "moving" => whole = {"moving"}
  BY DEF Programmed, Header
<1>5. Other(b) \in Bank /\ Other(b) # b
  BY DEF Other, Bank
<1>6. hdr'[b] = h /\ hdr'[Other(b)] = hdr[Other(b)]
  BY <1>1, <1>5
<1> QED
  BY <1>1, <1>3, <1>4, <1>6 DEF ProgramHeader

LEMMA ProgramFrameStep ==
  ASSUME frames \in [Bank -> [Slot -> Frame]], NEW b \in Bank, NEW n \in Slot,
         NEW f \in Frame, NEW end, ProgramFrame(b, n, f, end)
  PROVE  frames' \in [Bank -> [Slot -> Frame]] /\ UNCHANGED hdr
BY DEF ProgramFrame, Frame

\* An erase, whole or cut, leaves the other bank alone and marks nothing valid.
LEMMA EraseSectorStep ==
  ASSUME hdr \in [Bank -> Header], frames \in [Bank -> [Slot -> Frame]], NEW b \in Bank,
         NEW end, EraseSector(b, end)
  PROVE  /\ hdr' \in [Bank -> Header]
         /\ frames' \in [Bank -> [Slot -> Frame]]
         /\ hdr'[Other(b)] = hdr[Other(b)]
         /\ hdr'[b] = "valid" => hdr[b] = "valid"
<1>1. Other(b) \in Bank /\ Other(b) # b
  BY DEF Other, Bank
<1>2. CASE Erased(b)
  BY <1>1, <1>2 DEF Erased, Header, Frame
<1>3. CASE HalfErased(b)
  <2>1. PICK h \in {hdr[b], "invalid"} : hdr' = [hdr EXCEPT ![b] = h]
    BY <1>3 DEF HalfErased
  <2>2. PICK kept \in SUBSET Slot, garbled \in SUBSET Slot :
          frames' = [frames EXCEPT ![b] =
            [n \in Slot |-> IF n \in kept THEN frames[b][n]
                            ELSE IF n \in garbled THEN Bad ELSE Blank]]
    BY <1>3 DEF HalfErased
  <2>3. hdr' \in [Bank -> Header] /\ hdr'[b] = h /\ hdr'[Other(b)] = hdr[Other(b)]
    BY <1>1, <2>1 DEF Header
  <2>4. frames' \in [Bank -> [Slot -> Frame]]
    BY <2>2 DEF Frame
  <2> QED
    BY <2>1, <2>3, <2>4
<1>4. CASE UNCHANGED flash
  BY <1>4 DEF flash
<1> QED
  BY <1>2, <1>3, <1>4 DEF EraseSector

-----------------------------------------------------------------------------
(* Types.  Only the control record needs care: a step ends at one of two   *)
(* places or starts over.                                                  *)

PcType == {"boot", "wipe0", "wipe1", "format", "migrate", "bootErase", "populate",
           "write", "retry", "setMoving", "setValid", "eraseOld", "idle"}
RamType ==
  [pc : PcType, active : Bank \cup {NoBank}, src : Bank \cup {NoBank},
   srcn : 0 .. EEPROM_COUNT - 1, failed : BOOLEAN, tag : 0 .. NumTags,
   val : Val \cup {None}, todo : 1 .. NumTags + 1, res : {"none", "ok", "err", "full"}]

LEMMA PowerOnType == PowerOn \in RamType
BY EepromConstants DEF PowerOn, RamType, PcType, Bank, NoBank

LEMMA ReturnType ==
  ASSUME ram \in RamType, NEW r \in {"ok", "err", "full"}
  PROVE  Return(r) \in RamType
<1>1. ram.active \in Bank \cup {NoBank} /\ ram.todo \in 1 .. NumTags + 1
  BY DEF RamType
<1>2. (IF ram.todo <= NumTags THEN "populate" ELSE "idle") \in PcType
  BY DEF PcType
<1> QED
  BY ZenonT(60), <1>1, <1>2, PowerOnType DEF Return, RamType

LEMMA GotoType ==
  ASSUME ram \in RamType, NEW pc \in PcType
  PROVE  Goto(pc) \in RamType
BY DEF Goto, RamType

LEMMA AfterType ==
  ASSUME NEW end \in {"done", "cut", "fail"}, NEW done \in RamType, NEW fail \in RamType,
         After(end, done, fail)
  PROVE  /\ ram' \in RamType
         /\ end = "done" => ram' = done
         /\ end = "fail" => ram' = fail
         /\ end = "cut" => ram' = PowerOn
BY PowerOnType DEF After

LEMMA EndingsType == ASSUME NEW k PROVE Endings(k) \subseteq {"done", "cut", "fail"}
BY DEF Endings

-----------------------------------------------------------------------------
(* The inductive invariant.  That both banks are never valid rests on two  *)
(* facts about where the code stands: while the frames of the active bank  *)
(* are copied, and until the other bank is marked valid, the active one is *)
(* marked moving; and a reformat only runs with no bank marked valid.      *)

RamOK(r, h) ==
  /\ r \in RamType
  /\ r.pc = "boot" => r = PowerOn
  /\ r.pc \in {"migrate", "bootErase", "setValid", "eraseOld"} => r.src \in Bank
  /\ r.pc \in {"write", "retry", "setMoving", "setValid", "eraseOld"} => r.active \in Bank
  /\ r.active \in Bank /\ r.pc \notin {"populate", "idle"} => r.tag \in Tag /\ r.val \in Val
  /\ r.pc \in {"migrate", "setValid"} /\ r.active \in Bank =>
       r.src = r.active /\ h[r.src] = "moving"
  /\ r.pc \in {"wipe0", "wipe1", "format"} =>
       r.active = NoBank /\ h[0] # "valid" /\ h[1] # "valid"

IInv ==
  /\ hdr \in [Bank -> Header]
  /\ frames \in [Bank -> [Slot -> Frame]]
  /\ AtMostOneValid
  /\ RamOK(ram, hdr)

LEMMA RestOK ==
  ASSUME NEW r \in RamType, r.pc \in {"populate", "idle"}, NEW h
  PROVE  RamOK(r, h)
BY DEF RamOK

LEMMA PowerOnOK == ASSUME NEW h PROVE RamOK(PowerOn, h)
<1>1. PowerOn.pc = "boot" /\ PowerOn.active = NoBank
  BY DEF PowerOn
<1>2. NoBank \notin Bank
  BY DEF NoBank, Bank
<1> QED
  BY <1>1, <1>2, PowerOnType DEF RamOK

LEMMA ReturnOK ==
  ASSUME ram \in RamType, NEW r \in {"ok", "err", "full"}, NEW h
  PROVE  RamOK(Return(r), h)
<1>1. Return(r).pc \in {"populate", "idle"}
  BY DEF Return, PowerOn
<1> QED
  BY <1>1, RestOK, ReturnType

\* Whatever the flash operation of a step ends with, the step leaves the code at a place
\* where the invariant holds if its two continuations do.
LEMMA AfterOK ==
  ASSUME NEW end \in {"done", "cut", "fail"}, NEW done, NEW fail, After(end, done, fail),
         end = "done" => RamOK(done, hdr'), end = "fail" => RamOK(fail, hdr')
  PROVE  RamOK(ram', hdr')
<1>1. CASE end = "done"
  BY <1>1 DEF After
<1>2. CASE end = "fail"
  BY <1>2 DEF After
<1>3. CASE end = "cut"
  <2>1. ram' = PowerOn
    BY <1>3 DEF After
  <2> QED
    BY <2>1, PowerOnOK
<1> QED
  BY <1>1, <1>2, <1>3

LEMMA BankFacts == /\ Bank = {0, 1} /\ NoBank \notin Bank /\ Other(0) = 1 /\ Other(1) = 0
                   /\ \A b \in Bank : Other(b) \in Bank /\ Other(Other(b)) = b /\ Other(b) # b
BY DEF Bank, NoBank, Other

LEMMA MigratingType ==
  ASSUME ram \in RamType, NEW b \in Bank
  PROVE  /\ Migrating(b) \in RamType
         /\ Migrating(b).pc = "migrate" /\ Migrating(b).src = b
         /\ Migrating(b).active = ram.active
         /\ Migrating(b).tag = ram.tag /\ Migrating(b).val = ram.val
<1>1. EEPROM_COUNT - 1 \in 0 .. EEPROM_COUNT - 1
  BY EepromConstants
<1> QED
  BY <1>1 DEF Migrating, RamType, PcType

LEMMA ScannedOK ==
  ASSUME RamOK(ram, hdr), ram.pc = "migrate", ram.srcn \in Slot, NEW failed \in BOOLEAN
  PROVE  RamOK(Scanned(failed), hdr)
<1>1. ram \in RamType /\ ram.srcn - 1 \in 0 .. EEPROM_COUNT - 1
  BY EepromConstants DEF RamOK, Slot
<1>2. Scanned(failed) = [ram EXCEPT !.srcn = ram.srcn - 1, !.failed = failed]
  BY DEF Scanned
<1>3. Scanned(failed) \in RamType
  BY <1>1, <1>2 DEF RamType
<1>4. /\ Scanned(failed).pc = ram.pc /\ Scanned(failed).src = ram.src
      /\ Scanned(failed).active = ram.active
      /\ Scanned(failed).tag = ram.tag /\ Scanned(failed).val = ram.val
  BY <1>1, <1>2 DEF RamType
<1> QED
  BY <1>3, <1>4 DEF RamOK

LEMMA InitInv == Init => IInv
<1> SUFFICES ASSUME Init PROVE IInv
  OBVIOUS
<1>1. hdr \in [Bank -> Header] /\ frames \in [Bank -> [Slot -> Frame]] /\ ram = PowerOn
  BY DEF Init, Header, Frame
<1>2. hdr[0] # "valid"
  BY DEF Init, Bank
<1> QED
  BY <1>1, <1>2, PowerOnOK DEF IInv, AtMostOneValid

\* A step that leaves the flash alone keeps the invariant if it goes to a sound place.
LEMMA QuietStep ==
  ASSUME IInv, UNCHANGED flash, RamOK(ram', hdr)
  PROVE  IInv'
BY DEF IInv, flash, AtMostOneValid

\* A flash operation whose end the code sees.
LEMMA FlashStep ==
  ASSUME IInv, hdr' \in [Bank -> Header], frames' \in [Bank -> [Slot -> Frame]],
         NEW b \in Bank, hdr'[Other(b)] = hdr[Other(b)],
         hdr'[b] = "valid" => hdr[b] = "valid" \/ hdr[Other(b)] # "valid",
         RamOK(ram', hdr')
  PROVE  IInv'
<1>1. AtMostOneValid'
  BY BankFacts DEF IInv, AtMostOneValid
<1> QED
  BY <1>1 DEF IInv

LEMMA StepInv == IInv /\ [Next]_vars => IInv'
<1> SUFFICES ASSUME IInv, [Next]_vars PROVE IInv'
  OBVIOUS
<1> USE BankFacts
<1>a. hdr \in [Bank -> Header] /\ frames \in [Bank -> [Slot -> Frame]] /\ RamOK(ram, hdr)
      /\ ram \in RamType /\ ~ (hdr[0] = "valid" /\ hdr[1] = "valid")
  BY DEF IInv, RamOK, AtMostOneValid
<1>1. CASE BootAdopt
  <2>1. PICK b \in Bank : ram' = [ram EXCEPT !.pc = "populate", !.active = b]
    BY <1>1 DEF BootAdopt
  <2>2. ram' \in RamType /\ ram'.pc = "populate"
    BY <1>a, <2>1 DEF RamType, PcType
  <2> QED
    BY <1>1, <2>2, RestOK, QuietStep DEF BootAdopt
<1>2. CASE BootResume
  <2>1. PICK b \in Bank : ram' = Migrating(Other(b))
    BY <1>2 DEF BootResume
  <2>2. ram.active = NoBank
    BY <1>2, <1>a DEF BootResume, RamOK, PowerOn
  <2>3. /\ ram' \in RamType /\ ram'.pc = "migrate"
        /\ ram'.src = Other(b) /\ ram'.active = ram.active
    BY <1>a, <2>1, MigratingType
  <2>4. RamOK(ram', hdr)
    BY <2>2, <2>3 DEF RamOK
  <2> QED
    BY <1>2, <2>4, QuietStep DEF BootResume
<1>3. CASE BootFormat
  <2>1. ram = PowerOn
    BY <1>3, <1>a DEF BootFormat, RamOK
  <2>2. PICK pc \in {"format", "wipe0"} : ram' = Goto(pc)
    BY <1>3 DEF BootFormat
  <2>3. ram' \in RamType
    BY <1>a, <2>2, GotoType DEF PcType
  <2>4. ram'.pc = pc /\ ram'.active = NoBank
    BY <2>1, <2>2 DEF Goto, PowerOn
  <2>5. hdr[0] # "valid" /\ hdr[1] # "valid"
    BY <1>3, <1>a DEF BootFormat, OneValid
  <2>6. RamOK(ram', hdr)
    BY <2>3, <2>4, <2>5 DEF RamOK
  <2> QED
    BY <1>3, <2>6, QuietStep DEF BootFormat
<1>4. CASE Wipe
  <2> DEFINE b == IF ram.pc = "wipe0" THEN 0 ELSE 1
             next == Goto(IF ram.pc = "wipe0" THEN "wipe1" ELSE "format")
  <2>1. PICK end \in Endings("wipe") : EraseSector(b, end) /\ After(end, next, next)
    BY <1>4 DEF Wipe
  <2>2. /\ hdr' \in [Bank -> Header] /\ frames' \in [Bank -> [Slot -> Frame]]
        /\ hdr'[Other(b)] = hdr[Other(b)] /\ (hdr'[b] = "valid" => hdr[b] = "valid")
    BY <1>a, <2>1, EraseSectorStep
  <2>3. ram.active = NoBank /\ hdr[0] # "valid" /\ hdr[1] # "valid"
    BY <1>4, <1>a DEF Wipe, RamOK
  <2>4. next \in RamType
    BY <1>a, GotoType DEF PcType
  <2>5. next.pc \in {"wipe1", "format"} /\ next.active = NoBank
    BY <1>a, <2>3 DEF Goto, RamType
  <2>6. RamOK(next, hdr')
    BY <2>2, <2>3, <2>4, <2>5 DEF RamOK
  <2>7. RamOK(ram', hdr')
    BY <2>1, <2>6, AfterOK, EndingsType
  <2> QED
    BY <2>2, <2>7, FlashStep
<1>5. CASE Format
  <2> DEFINE done == [ram EXCEPT !.pc = "populate", !.active = 0]
  <2>1. PICK end \in Endings("header") :
          ProgramHeader(0, "valid", end) /\ After(end, done, Goto("populate"))
    BY <1>5 DEF Format
  <2>2. /\ hdr' \in [Bank -> Header] /\ UNCHANGED frames /\ hdr'[Other(0)] = hdr[Other(0)]
    BY <1>a, <2>1, ProgramHeaderStep
  <2>3. hdr[1] # "valid"
    BY <1>5, <1>a DEF Format, RamOK
  <2>4. done \in RamType /\ done.pc = "populate"
    BY <1>a DEF RamType, PcType
  <2>5. Goto("populate") \in RamType /\ Goto("populate").pc = "populate"
    BY <1>a, GotoType DEF PcType, Goto, RamType
  <2>6. RamOK(ram', hdr')
    BY ZenonT(60), <2>1, <2>4, <2>5, RestOK, AfterOK, EndingsType
  <2> QED
    BY <1>a, <2>2, <2>3, <2>6, FlashStep
<1>6. CASE MigrateSkip
  <2>1. RamOK(Scanned(ram.failed), hdr)
    BY <1>6, <1>a, ScannedOK DEF MigrateSkip, RamType
  <2> QED
    BY <1>6, <2>1, QuietStep DEF MigrateSkip
<1>7. CASE MigrateCopy
  <2> DEFINE dst == Other(ram.src)
             f == frames[ram.src][ram.srcn]
  <2>1. RamOK(Scanned(TRUE), hdr) /\ RamOK(Scanned(FALSE), hdr) /\ dst \in Bank
    BY <1>7, <1>a, ScannedOK DEF MigrateCopy, RamOK
  <2>2. CASE ram' = Scanned(TRUE) /\ UNCHANGED flash
    BY <2>1, <2>2, QuietStep
  <2>3. CASE \E n \in Slot, end \in Endings("migrate") :
               ProgramFrame(dst, n, f, end) /\ After(end, Scanned(FALSE), Scanned(TRUE))
    <3>1. PICK n \in Slot, end \in Endings("migrate") :
                 ProgramFrame(dst, n, f, end) /\ After(end, Scanned(FALSE), Scanned(TRUE))
      BY <2>3
    <3>2. f \in Frame
      BY <1>7 DEF MigrateCopy, ToCopy, Frame
    <3>3. frames' \in [Bank -> [Slot -> Frame]] /\ UNCHANGED hdr
      BY <1>a, <2>1, <3>1, <3>2, ProgramFrameStep
    <3>4. RamOK(Scanned(TRUE), hdr') /\ RamOK(Scanned(FALSE), hdr')
      BY <2>1, <3>3
    <3> HIDE DEF f
    <3>5. RamOK(ram', hdr')
      BY <3>1, <3>4, AfterOK, EndingsType
    <3> QED
      BY <1>a, <2>1, <3>3, <3>5, FlashStep
  <2> QED
    BY <1>7, <2>2, <2>3 DEF MigrateCopy
<1>8. CASE MigrateEnd
  <2>1. ram.src \in Bank /\ ram.pc = "migrate"
    BY <1>8, <1>a DEF MigrateEnd, RamOK
  <2>2. CASE ram' = [PowerOn EXCEPT !.pc = "populate"]
    <3>1. ram' \in RamType /\ ram'.pc = "populate"
      BY <2>2, PowerOnType DEF RamType, PcType
    <3> QED
      BY <1>8, <3>1, RestOK, QuietStep DEF MigrateEnd
  <2>3. CASE ram' = Return("err")
    BY <1>8, <1>a, <2>3, ReturnOK, QuietStep DEF MigrateEnd
  <2>4. CASE ram' = Goto("bootErase") /\ ram.active = NoBank
    <3>1. ram' \in RamType /\ ram'.pc = "bootErase" /\ ram'.src \in Bank /\ ram'.active = NoBank
      BY <1>a, <2>1, <2>4, GotoType DEF PcType, Goto, RamType
    <3>2. RamOK(ram', hdr)
      BY <3>1 DEF RamOK
    <3> QED
      BY <1>8, <3>2, QuietStep DEF MigrateEnd
  <2>5. CASE ram' = Goto("setValid") /\ ram.active # NoBank
    <3>1. ram' \in RamType
      BY <1>a, <2>5, GotoType DEF PcType
    <3>2. ram' = [ram EXCEPT !.pc = "setValid"] /\ ram.active \in Bank
      BY <1>a, <2>5 DEF Goto, RamType
    <3>3. RamOK(ram', hdr)
      BY <1>a, <2>1, <3>1, <3>2 DEF RamOK, RamType
    <3> QED
      BY <1>8, <3>3, QuietStep DEF MigrateEnd
  <2> QED
    BY <1>8, <2>2, <2>3, <2>4, <2>5 DEF MigrateEnd
<1>9. CASE BootErase
  <2> DEFINE done == [PowerOn EXCEPT !.pc = "populate", !.active = Other(ram.src)]
             fail == [PowerOn EXCEPT !.pc = "populate"]
  <2>1. PICK end \in Endings("erase") : EraseSector(ram.src, end) /\ After(end, done, fail)
    BY <1>9 DEF BootErase
  <2>2. ram.src \in Bank
    BY <1>9, <1>a DEF BootErase, RamOK
  <2>3. /\ hdr' \in [Bank -> Header] /\ frames' \in [Bank -> [Slot -> Frame]]
        /\ hdr'[Other(ram.src)] = hdr[Other(ram.src)]
        /\ (hdr'[ram.src] = "valid" => hdr[ram.src] = "valid")
    BY <1>a, <2>1, <2>2, EraseSectorStep
  <2>4. done \in RamType /\ fail \in RamType /\ done.pc = "populate" /\ fail.pc = "populate"
    BY <2>2, PowerOnType DEF RamType, PcType
  <2>5. RamOK(done, hdr') /\ RamOK(fail, hdr')
    BY <2>4, RestOK
  <2> HIDE DEF done, fail
  <2>6. RamOK(ram', hdr')
    BY <2>1, <2>5, AfterOK, EndingsType
  <2> QED
    BY <2>2, <2>3, <2>6, FlashStep
<1>10. CASE Populate
  <2>1. CASE ram' = Goto("idle")
    <3>1. ram' \in RamType /\ ram'.pc = "idle"
      BY <1>a, <2>1, GotoType DEF PcType, Goto, RamType
    <3> QED
      BY <1>10, <3>1, RestOK, QuietStep DEF Populate
  <2>2. CASE ram.todo <= NumTags /\ ram.active # NoBank
             /\ ram' = [ram EXCEPT !.pc = "write", !.tag = ram.todo, !.val = Default[ram.todo],
                                   !.todo = ram.todo + 1]
    <3>1. ram.todo \in Tag /\ ram.todo \in 0 .. NumTags /\ ram.todo + 1 \in 1 .. NumTags + 1
          /\ Default[ram.todo] \in Val /\ ram.active \in Bank
      BY <1>a, <2>2, EepromConstants DEF RamType, Tag
    <3>2. /\ ram' \in RamType /\ ram'.pc = "write" /\ ram'.active \in Bank
          /\ ram'.tag \in Tag /\ ram'.val \in Val
      BY <1>a, <2>2, <3>1 DEF RamType, PcType
    <3>3. RamOK(ram', hdr)
      BY <3>2 DEF RamOK
    <3> QED
      BY <1>10, <3>3, QuietStep DEF Populate
  <2>3. CASE ram.todo <= NumTags /\ ram' = [ram EXCEPT !.todo = ram.todo + 1]
    <3>1. ram.todo + 1 \in 1 .. NumTags + 1
      BY <1>a, <2>3, EepromConstants DEF RamType
    <3>2. ram' \in RamType /\ ram'.pc = "populate"
      BY <1>10, <1>a, <2>3, <3>1 DEF RamType, Populate
    <3> QED
      BY <1>10, <3>2, RestOK, QuietStep DEF Populate
  <2>4. ram.todo > NumTags \/ ram.todo <= NumTags
    BY <1>a, EepromConstants DEF RamType
  <2> QED
    BY <1>10, <2>1, <2>2, <2>3, <2>4 DEF Populate
<1>11. CASE WriteRepeat
  BY <1>11, <1>a, ReturnOK, QuietStep DEF WriteRepeat
<1>12. CASE WriteFrame
  <2> DEFINE f == [tag |-> ram.tag, val |-> ram.val]
  <2>1. PICK n \in Slot, end \in Endings("frame") :
          ProgramFrame(ram.active, n, f, end) /\ After(end, Return("ok"), Return("err"))
    BY <1>12 DEF WriteFrame
  <2>2. ram.active \in Bank /\ ram.tag \in Tag /\ ram.val \in Val
    BY <1>12, <1>a DEF WriteFrame, RamOK
  <2>3. f \in Frame
    BY <2>2 DEF Frame, Good
  <2>4. frames' \in [Bank -> [Slot -> Frame]] /\ UNCHANGED hdr
    BY <1>a, <2>1, <2>2, <2>3, ProgramFrameStep
  <2>5. RamOK(ram', hdr')
    BY <1>a, <2>1, ReturnOK, AfterOK, EndingsType
  <2> QED
    BY <1>a, <2>2, <2>4, <2>5, FlashStep
<1>13. CASE WriteFull
  <2>1. CASE \E r \in {"full", "err"} : ram' = Return(r)
    BY <1>13, <1>a, <2>1, ReturnOK, QuietStep DEF WriteFull
  <2>2. CASE ram' = Goto("setMoving")
    <3>1. /\ ram' \in RamType /\ ram'.pc = "setMoving" /\ ram'.active = ram.active
          /\ ram'.tag = ram.tag /\ ram'.val = ram.val
      BY <1>a, <2>2, GotoType DEF PcType, Goto, RamType
    <3>2. ram.active \in Bank /\ ram.tag \in Tag /\ ram.val \in Val
      BY <1>13, <1>a DEF WriteFull, RamOK
    <3>3. RamOK(ram', hdr)
      BY <3>1, <3>2 DEF RamOK
    <3> QED
      BY <1>13, <3>3, QuietStep DEF WriteFull
  <2> QED
    BY <1>13, <2>1, <2>2 DEF WriteFull
<1>14. CASE SetMoving
  <2>1. PICK end \in Endings("header") :
          ProgramHeader(ram.active, "moving", end) /\ After(end, Migrating(ram.active), Return("err"))
    BY <1>14 DEF SetMoving
  <2>2. ram.active \in Bank /\ ram.tag \in Tag /\ ram.val \in Val
    BY <1>14, <1>a DEF SetMoving, RamOK
  <2>3. /\ hdr' \in [Bank -> Header] /\ UNCHANGED frames
        /\ hdr'[Other(ram.active)] = hdr[Other(ram.active)]
        /\ (hdr'[ram.active] = "valid" => hdr[ram.active] = "valid")
        /\ (end = "done" => hdr'[ram.active] = "moving")
    BY <1>a, <2>1, <2>2, ProgramHeaderStep
  <2>4. end = "done" => RamOK(Migrating(ram.active), hdr')
    BY <1>a, <2>2, <2>3, MigratingType DEF RamOK
  <2>5. RamOK(ram', hdr')
    BY <1>a, <2>1, <2>4, ReturnOK, AfterOK, EndingsType
  <2> QED
    BY <1>a, <2>2, <2>3, <2>5, FlashStep
<1>15. CASE SetValid
  <2>1. PICK end \in Endings("header") :
          ProgramHeader(Other(ram.src), "valid", end) /\ After(end, Goto("eraseOld"), Return("err"))
    BY <1>15 DEF SetValid
  <2>2. /\ ram.active \in Bank /\ ram.src = ram.active /\ hdr[ram.src] = "moving"
        /\ ram.tag \in Tag /\ ram.val \in Val
    BY <1>15, <1>a DEF SetValid, RamOK
  <2>3. hdr' \in [Bank -> Header] /\ UNCHANGED frames /\ hdr'[ram.src] = hdr[ram.src]
    BY <1>a, <2>1, <2>2, ProgramHeaderStep
  <2>4. Goto("eraseOld") \in RamType /\ Goto("eraseOld") = [ram EXCEPT !.pc = "eraseOld"]
    BY <1>a, GotoType DEF PcType, Goto
  <2>5. RamOK(Goto("eraseOld"), hdr')
    BY <1>a, <2>2, <2>4 DEF RamOK, RamType
  <2>6. RamOK(ram', hdr')
    BY <1>a, <2>1, <2>5, ReturnOK, AfterOK, EndingsType
  <2> QED
    BY <1>a, <2>2, <2>3, <2>6, FlashStep
<1>16. CASE EraseOld
  <2> DEFINE done == [ram EXCEPT !.pc = "retry", !.active = Other(ram.src),
                                 !.src = NoBank, !.failed = FALSE]
  <2>1. PICK end \in Endings("erase") :
          EraseSector(ram.src, end) /\ After(end, done, Return("err"))
    BY <1>16 DEF EraseOld
  <2>2. ram.src \in Bank /\ ram.tag \in Tag /\ ram.val \in Val
    BY <1>16, <1>a DEF EraseOld, RamOK
  <2>3. /\ hdr' \in [Bank -> Header] /\ frames' \in [Bank -> [Slot -> Frame]]
        /\ hdr'[Other(ram.src)] = hdr[Other(ram.src)]
        /\ (hdr'[ram.src] = "valid" => hdr[ram.src] = "valid")
    BY <1>a, <2>1, <2>2, EraseSectorStep
  <2>4. /\ done \in RamType /\ done.pc = "retry" /\ done.active \in Bank
        /\ done.tag \in Tag /\ done.val \in Val
    BY <1>a, <2>2 DEF RamType, PcType
  <2>5. RamOK(done, hdr')
    BY <2>4 DEF RamOK
  <2>6. RamOK(ram', hdr')
    BY <1>a, <2>1, <2>5, ReturnOK, AfterOK, EndingsType
  <2> QED
    BY <2>2, <2>3, <2>6, FlashStep
<1>17. CASE \E t \in Tag, v \in Val : Store(t, v)
  <2>1. PICK t \in Tag, v \in Val : Store(t, v)
    BY <1>17
  <2>2. CASE ram' = Return("err")
    BY <1>a, <2>1, <2>2, ReturnOK, QuietStep DEF Store
  <2>3. CASE ram.active # NoBank
             /\ ram' = [ram EXCEPT !.pc = "write", !.tag = t, !.val = v, !.res = "none"]
    <3>1. t \in 0 .. NumTags /\ ram.active \in Bank
      BY <1>a, <2>3, EepromConstants DEF Tag, RamType
    <3>2. /\ ram' \in RamType /\ ram'.pc = "write" /\ ram'.active \in Bank
          /\ ram'.tag \in Tag /\ ram'.val \in Val
      BY <1>a, <2>3, <3>1 DEF RamType, PcType
    <3>3. RamOK(ram', hdr)
      BY <3>2 DEF RamOK
    <3> QED
      BY <2>1, <3>3, QuietStep DEF Store
  <2> QED
    BY <2>1, <2>2, <2>3 DEF Store
<1>18. CASE PowerCut
  BY <1>18, PowerOnOK, QuietStep DEF PowerCut
<1>19. CASE UNCHANGED vars
  BY <1>a, <1>19, QuietStep DEF vars, flash
<1> QED
  BY <1>1, <1>2, <1>3, <1>4, <1>5, <1>6, <1>7, <1>8, <1>9, <1>10, <1>11, <1>12, <1>13, <1>14,
     <1>15, <1>16, <1>17, <1>18, <1>19 DEF Next

LEMMA InvHolds == Spec => []IInv
BY InitInv, StepInv, PTL DEF Spec

\* Type correctness of the flash and of the running code, for every size of a bank, every set
\* of parameters and every choice of the flash operations that fail or are cut.
THEOREM TypeCorrect == Spec => []TypeOK
<1>1. IInv => TypeOK
  BY DEF IInv, RamOK, RamType, PcType, TypeOK
<1> QED
  BY <1>1, InvHolds, PTL

\* eeprom_system_init never meets two banks marked valid, which it would answer by erasing
\* both: no interleaving of stores, migrations, boots, failures and power cuts leads there.
THEOREM AtMostOneValidHolds == Spec => []AtMostOneValid
<1>1. IInv => AtMostOneValid
  BY DEF IInv
<1> QED
  BY <1>1, InvHolds, PTL
=============================================================================
