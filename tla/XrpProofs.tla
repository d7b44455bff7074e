----------------------------- MODULE XrpProofs -----------------------------
(***************************************************************************)
(* Facts about the programming of the XRP7724, for every image, every list *)
(* of records, every bound of the loops and any number of faults.          *)
(***************************************************************************)
EXTENDS Xrp7724, TLAPS

-----------------------------------------------------------------------------
(* Sizes and lists.                                                        *)

LEMMA SizeType == Size \in Nat \ {0} /\ Words = 1 .. Size
BY ChipConstants DEF Size, Words

\* The words of a page are words of the image.
LEMMA PageInImage ==
  ASSUME NEW p \in 0 .. LastPage, NEW k \in 1 .. PageSize
  PROVE  p * PageSize + k \in Words
<1> DEFINE q == Size \div PageSize
<1>1. PageSize \in Nat \ {0} /\ Size \in Nat \ {0} /\ Size % PageSize = 0
  BY ChipConstants, SizeType
<1>2. q \in Nat /\ Size = q * PageSize
  BY <1>1
<1>3. p \in Nat /\ p + 1 <= q
  BY <1>2 DEF LastPage
<1> HIDE DEF q
<1>4. (p + 1) * PageSize <= q * PageSize
  BY <1>1, <1>2, <1>3
<1>5. p * PageSize + PageSize = (p + 1) * PageSize /\ p * PageSize \in Nat
  BY <1>1, <1>3
<1> QED
  BY <1>1, <1>2, <1>4, <1>5, SizeType

LEMMA OnePage == LastPage \in Nat /\ 0 \in 0 .. LastPage
<1>1. PageSize \in Nat \ {0} /\ Size \in Nat \ {0} /\ Size % PageSize = 0
  BY ChipConstants, SizeType
<1> DEFINE q == Size \div PageSize
<1>2. q \in Nat /\ Size = q * PageSize
  BY <1>1
<1>3. q # 0
  BY <1>1, <1>2
<1> QED
  BY <1>2, <1>3 DEF LastPage

LEMMA ImageValue == ASSUME NEW w \in Words PROVE Image[w] \in CellValues
BY DEF CellValues

LEMMA ListType ==
  /\ Len(Records) \in Nat \ {0}
  /\ \A r \in 1 .. Len(Records) :
       /\ Len(Records[r]) \in Nat \ {0}
       /\ \A j \in 1 .. Len(Records[r]) :
            /\ Records[r][j] \in (Addresses \ {Tag, DelayReg}) \X (0 .. 255)
            /\ Records[r][j] \in StaticBytes
<1>1. Len(Records) \in Nat \ {0} /\ DOMAIN Records = 1 .. Len(Records)
  BY DriverConstants
<1> SUFFICES ASSUME NEW r \in 1 .. Len(Records)
             PROVE  /\ Len(Records[r]) \in Nat \ {0}
                    /\ \A j \in 1 .. Len(Records[r]) :
                         /\ Records[r][j] \in (Addresses \ {Tag, DelayReg}) \X (0 .. 255)
                         /\ Records[r][j] \in StaticBytes
  BY <1>1
<1>2. Records[r] \in Seq((Addresses \ {Tag, DelayReg}) \X (0 .. 255)) /\ Records[r] # <<>>
  BY DriverConstants
<1>3. Len(Records[r]) \in Nat \ {0} /\ DOMAIN Records[r] = 1 .. Len(Records[r])
  BY <1>2
<1>4. \A j \in 1 .. Len(Records[r]) :
        Records[r][j] \in (Addresses \ {Tag, DelayReg}) \X (0 .. 255)
  BY <1>2
<1>5. \A j \in 1 .. Len(Records[r]) : Records[r][j] \in StaticBytes
  BY <1>1, <1>3 DEF StaticBytes
<1> QED
  BY <1>3, <1>4, <1>5

-----------------------------------------------------------------------------
(* Types of the chip, for each operation of it.                            *)

ChipDataOK ==
  /\ ram \in [Addresses -> 0 .. 255]
  /\ cells \in [Words -> CellValues] /\ ptr \in Words
  /\ task \in {NoTask} \cup ({"clear", "erase"} \X (0 .. LastPage))
  /\ hits \in 0 .. MaxHits

ChipFlagsOK == operate \in BOOLEAN /\ flashMode \in BOOLEAN /\ refused \in BOOLEAN

LEMMA ChipParts == ChipTypeOK <=> ChipDataOK /\ ChipFlagsOK
BY Zenon DEF ChipTypeOK, ChipDataOK, ChipFlagsOK

LEMMA ChipIdleType == ASSUME ChipTypeOK, UNCHANGED chipVars PROVE ChipTypeOK'
<1>1. ChipDataOK'
  BY ChipParts DEF ChipDataOK, chipVars, flashChip
<1>2. operate' = operate /\ flashMode' = flashMode /\ refused' = refused
  BY DEF chipVars, flashChip
<1>3. ChipFlagsOK'
  BY <1>2, ChipParts, Zenon DEF ChipFlagsOK
<1> QED
  BY <1>1, <1>3, Zenon DEF ChipTypeOK, ChipDataOK, ChipFlagsOK

LEMMA Set2Type ==
  ASSUME ChipTypeOK, NEW a \in Addresses, NEW v \in 0 .. 255, xrp_set2(a, v)
  PROVE  ChipTypeOK'
<1>1. ChipDataOK'
  BY ChipParts DEF ChipDataOK, xrp_set2, WriteRegister, flashChip
<1>2. operate' = operate /\ flashMode' = flashMode /\ refused' = refused
  BY DEF xrp_set2, flashChip
<1>3. ChipFlagsOK'
  BY <1>2, ChipParts, Zenon DEF ChipFlagsOK
<1> QED
  BY <1>1, <1>3, Zenon DEF ChipTypeOK, ChipDataOK, ChipFlagsOK

LEMMA CommandsType ==
  ASSUME ChipTypeOK, page \in 0 .. LastPage, command \in {"clear", "erase"},
         FLASH_INIT \/ FlashCommand(command, page) \/ ReadNext
  PROVE  ChipTypeOK'
<1>1. ChipDataOK'
  <2>1. (ptr % Size) + 1 \in Words
    BY SizeType, ChipParts DEF ChipDataOK
  <2> QED
    BY <2>1, ChipParts DEF ChipDataOK, FLASH_INIT, FlashCommand, ReadNext, store
<1>2. operate' = operate
  BY DEF FLASH_INIT, FlashCommand, ReadNext, store
<1>3. flashMode' \in {TRUE, flashMode} /\ refused' \in {TRUE, FALSE, refused}
  BY Zenon DEF FLASH_INIT, FlashCommand, ReadNext
<1>4. ChipFlagsOK'
  BY <1>2, <1>3, ChipParts, Zenon DEF ChipFlagsOK
<1> QED
  BY <1>1, <1>4, Zenon DEF ChipTypeOK, ChipDataOK, ChipFlagsOK

LEMMA PointerType ==
  ASSUME ChipTypeOK, NEW w \in Words, SetPointer(w) PROVE ChipTypeOK'
<1>1. ChipDataOK'
  BY ChipParts DEF ChipDataOK, SetPointer, store
<1>2. operate' = operate /\ flashMode' = flashMode /\ refused' = refused
  BY DEF SetPointer, store
<1>3. ChipFlagsOK'
  BY <1>2, ChipParts, Zenon DEF ChipFlagsOK
<1> QED
  BY <1>1, <1>3, Zenon DEF ChipTypeOK, ChipDataOK, ChipFlagsOK

LEMMA ProgramType ==
  ASSUME ChipTypeOK, NEW v \in CellValues, Program(v) PROVE ChipTypeOK'
<1> DEFINE new == [cells EXCEPT ![ptr] = CASE @ = "erased" -> v [] @ = "spoilt" -> @
                                           [] OTHER -> "over"]
<1>1. {"over", "spoilt"} \subseteq CellValues
  BY DEF CellValues, Marks
<1>2. new \in [Words -> CellValues]
  BY <1>1, ChipParts DEF ChipDataOK
<1>3. \A w : PageWords(w) \subseteq Words
  BY DEF PageWords
<1>4. \/ cells' = cells /\ hits' = hits
      \/ cells' = new /\ hits' = hits
      \/ /\ hits < MaxHits /\ hits' = hits + 1
         /\ \E w \in Words : cells' = [new EXCEPT ![w] = "spoilt"]
  BY <1>3, Zenon DEF Program
<1> HIDE DEF new
<1>5. cells' \in [Words -> CellValues]
  BY <1>1, <1>2, <1>4, ChipParts DEF ChipDataOK
<1>6. hits' \in 0 .. MaxHits
  BY <1>4, ChipParts, ChipConstants DEF ChipDataOK
<1>7. ChipDataOK'
  BY <1>5, <1>6, ChipParts DEF ChipDataOK, Program
<1>8. operate' = operate /\ flashMode' = flashMode /\ refused' = refused
  BY DEF Program
<1>9. ChipFlagsOK'
  BY <1>8, ChipParts, Zenon DEF ChipFlagsOK
<1> QED
  BY <1>7, <1>9, Zenon DEF ChipTypeOK, ChipDataOK, ChipFlagsOK

LEMMA FillType ==
  ASSUME ChipDataOK, NEW p, NEW c \in CellValues
  PROVE  FillPage(p, c) \in [Words -> CellValues]
BY DEF FillPage, ChipDataOK

LEMMA AloneType == ASSUME ChipTypeOK, Finish \/ LosePower PROVE ChipTypeOK'
<1>1. {"clear", "erased", "spoilt"} \subseteq CellValues
  BY DEF CellValues, Marks
<1>2. \A p : \A c \in {"clear", "erased", "spoilt"} : FillPage(p, c) \in [Words -> CellValues]
  BY <1>1, FillType, ChipParts
<1>3. cells' \in [Words -> CellValues]
  BY <1>2, ChipParts DEF Finish, LosePower, ChipDataOK
<1>4. PowerUp \in [Addresses -> 0 .. 255]
  BY DEF PowerUp
<1>5. ram' \in [Addresses -> 0 .. 255]
  BY <1>4, ChipParts DEF Finish, LosePower, ChipDataOK
<1>6. 1 \in Words
  BY SizeType
<1>7. ptr' \in Words /\ task' = NoTask
  BY <1>6, ChipParts DEF Finish, LosePower, ChipDataOK
<1>8. hits' \in 0 .. MaxHits
  BY ChipParts, ChipConstants DEF Finish, LosePower, ChipDataOK
<1>9. ChipDataOK'
  BY <1>3, <1>5, <1>7, <1>8 DEF ChipDataOK
<1>10. ChipFlagsOK'
  BY ChipParts, Zenon DEF Finish, LosePower, ChipFlagsOK
<1> QED
  BY <1>9, <1>10, Zenon DEF ChipTypeOK, ChipDataOK, ChipFlagsOK

-----------------------------------------------------------------------------
(* Types of the driver.  TypeOK is strengthened by what the locals are     *)
(* outside the loops that use them: the loops start from there.            *)

PlacesOK ==
  /\ pc \in Labels
  /\ rec \in 1 .. Len(Records)
  /\ at \in 1 .. (IF pc \in {"write", "verify"} THEN Len(Records[rec]) ELSE PageSize)
  /\ page \in 0 .. LastPage /\ command \in {"clear", "erase"}
  /\ retry \in 0 .. Retries - 1 /\ outer \in 0 .. Outers - 1 /\ poll \in 0 .. Polls - 1

AtRest ==
  /\ pc \notin {"write", "verify"} => rec = 1
  /\ pc \notin {"write", "verify", "program", "readBack", "doubleCheck"} => at = 1

FlagsOK == fault \in BOOLEAN /\ flashed \in BOOLEAN /\ (pc # "verify" => ~fault)

DriverInv == PlacesOK /\ AtRest /\ FlagsOK

LEMMA TypeParts == ChipTypeOK /\ DriverInv => TypeOK
BY Zenon DEF TypeOK, DriverInv, PlacesOK, FlagsOK

LEMMA DriverInit == Init => DriverInv
<1> SUFFICES ASSUME Init PROVE DriverInv
  OBVIOUS
<1>1. PlacesOK /\ AtRest
  BY OnePage, ListType, DriverConstants, ChipConstants DEF Init, PlacesOK, AtRest, Labels
<1>2. FlagsOK
  BY Zenon DEF Init, FlagsOK
<1> QED
  BY <1>1, <1>2 DEF DriverInv

LEMMA ReturnPlaces == ASSUME Return PROVE PlacesOK' /\ AtRest'
BY OnePage, ListType, DriverConstants, ChipConstants DEF Return, PlacesOK, AtRest, Labels

LEMMA RuntimePlaces == ASSUME PlacesOK, AtRest, Runtime \/ Console PROVE PlacesOK' /\ AtRest'
<1> USE ListType, ChipConstants DEF PlacesOK, AtRest, Goto, flashVars, runtimeVars
<1>1. CASE StopChip
  BY <1>1 DEF StopChip, Labels
<1>2. CASE WriteTag
  BY <1>2 DEF WriteTag, Labels
<1>3. CASE WriteByte
  BY SMTT(30), <1>3 DEF WriteByte, LastByte, Labels
<1>4. CASE VerifyByte
  <2>1. CASE Return
    BY <2>1, ReturnPlaces
  <2>2. CASE ~LastByte /\ at' = at + 1 /\ UNCHANGED <<pc, rec, flashVars>>
    BY <1>4, <2>2 DEF VerifyByte, LastByte
  <2>3. CASE NextRecord /\ UNCHANGED flashVars
    BY SMTT(30), <2>3 DEF NextRecord, Labels
  <2> QED
    BY <1>4, <2>1, <2>2, <2>3 DEF VerifyByte
<1>5. CASE TagCheck
  <2>1. CASE Return
    BY <2>1, ReturnPlaces
  <2>2. CASE Goto("operate") /\ UNCHANGED <<runtimeVars, at, flashVars>>
    BY <1>5, <2>2 DEF TagCheck, Labels
  <2> QED
    BY <1>5, <2>1, <2>2 DEF TagCheck
<1>6. CASE SetOperate
  BY <1>6, ReturnPlaces DEF SetOperate
<1>7. CASE Console
  BY <1>7 DEF Console, xrp_boot, xrp_flash, Labels
<1> QED
  BY <1>1, <1>2, <1>3, <1>4, <1>5, <1>6, <1>7 DEF Runtime

LEMMA FlashPlaces == ASSUME PlacesOK, AtRest, Flash PROVE PlacesOK' /\ AtRest'
<1> USE DriverConstants, ChipConstants DEF PlacesOK, AtRest, Goto, flashVars, runtimeVars
<1>1. ASSUME Return PROVE PlacesOK' /\ AtRest'
  BY <1>1, ReturnPlaces
<1>2. CASE PresetDelay
  BY <1>2 DEF PresetDelay, Labels
<1>3. CASE FlashInit
  BY SMTT(30), <1>1, <1>3 DEF FlashInit, Fails, Labels
<1>4. CASE Command
  BY <1>1, <1>4 DEF Command, Fails, Labels
<1>5. CASE Poll
  BY SMTT(30), <1>1, <1>5 DEF Poll, Labels
<1>6. CASE CheckDelay
  BY SMTT(30), <1>1, <1>6 DEF CheckDelay, Labels
<1>7. CASE CheckProgram
  BY SMTT(30), <1>1, <1>7 DEF CheckProgram, Labels
<1>8. CASE SetAddress
  <2>1. CASE Return
    BY <2>1, ReturnPlaces
  <2>2. CASE Goto(IF pc = "setAddress" THEN "program" ELSE "doubleCheck")
               /\ UNCHANGED <<runtimeVars, at, flashVars>>
    <3>1. pc \in {"setAddress", "resetAddress"} /\ UNCHANGED <<rec, at, page, command>>
          /\ UNCHANGED <<retry, outer, poll>> /\ pc' \in {"program", "doubleCheck"}
      BY <1>8, <2>2 DEF SetAddress
    <3> QED
      BY <3>1 DEF Labels
  <2> QED
    BY <1>8, <2>1, <2>2 DEF SetAddress
<1>9. CASE ProgramWord
  BY SMTT(30), <1>1, <1>9 DEF ProgramWord, Fails, Labels
<1>10. CASE ReadBack
  BY SMTT(30), <1>1, <1>10 DEF ReadBack, LastWord, Fails, Labels
<1>11. CASE DoubleCheck
  BY SMTT(30), <1>1, <1>11 DEF DoubleCheck, LastWord, Fails, Labels
<1>12. CASE LastCheck
  BY SMTT(30), <1>1, <1>12, OnePage DEF LastCheck, Labels
<1> QED
  BY <1>2, <1>3, <1>4, <1>5, <1>6, <1>7, <1>8, <1>9, <1>10, <1>11, <1>12 DEF Flash

LEMMA FlagsStep == ASSUME FlagsOK, Runtime \/ Flash \/ Console PROVE FlagsOK'
<1>1. ASSUME Return, flashed' \in {TRUE, flashed} PROVE FlagsOK'
  <2>1. fault' = FALSE /\ pc' = "idle"
    BY <1>1 DEF Return
  <2> QED
    BY <1>1, <2>1, Zenon DEF FlagsOK
<1>2. ASSUME UNCHANGED runtimeVars, UNCHANGED flashed, pc # "verify" PROVE FlagsOK'
  <2>1. fault' = fault
    BY <1>2 DEF runtimeVars
  <2> QED
    BY <1>2, <2>1, Zenon DEF FlagsOK
<1>3. CASE VerifyByte
  <2>1. PICK v \in xrp_read2(Byte[1]) :
          LET bad == fault \/ ByteDiffers(v)
          IN  \/ ~LastByte /\ fault' = bad /\ at' = at + 1 /\ UNCHANGED <<pc, rec, flashVars>>
              \/ LastByte /\ ~bad /\ NextRecord /\ UNCHANGED <<fault, flashVars>>
              \/ LastByte /\ bad /\ Return /\ UNCHANGED flashed
    BY <1>3, Zenon DEF VerifyByte
  <2> DEFINE bad == fault \/ ByteDiffers(v)
  <2>2. bad \in BOOLEAN
    OBVIOUS
  <2>3. CASE fault' = bad /\ UNCHANGED <<pc, rec, flashVars>>
    <3>1. pc' = "verify" /\ flashed' = flashed
      BY <1>3, <2>3 DEF VerifyByte, flashVars
    <3> QED
      BY <2>2, <2>3, <3>1, Zenon DEF FlagsOK
  <2>4. CASE ~bad /\ UNCHANGED <<fault, flashVars>>
    <3>1. fault' = fault /\ flashed' = flashed
      BY <2>4 DEF flashVars
    <3>2. ~fault
      BY <2>4, Zenon
    <3> HIDE DEF bad
    <3> QED
      BY <3>1, <3>2, Zenon DEF FlagsOK
  <2> HIDE DEF bad
  <2> QED
    BY <1>1, <2>1, <2>3, <2>4, Zenon DEF bad
<1>4. CASE StopChip \/ WriteTag \/ WriteByte
  BY <1>2, <1>4 DEF StopChip, WriteTag, WriteByte, flashVars
<1>5. CASE TagCheck \/ SetOperate
  BY <1>1, <1>2, <1>5 DEF TagCheck, SetOperate, flashVars
<1>6. CASE xrp_boot
  BY <1>2, <1>6 DEF xrp_boot, flashVars
<1>7. CASE xrp_flash
  <2>1. fault' = fault /\ flashed' = FALSE /\ pc = "idle"
    BY <1>7 DEF xrp_flash, runtimeVars
  <2> QED
    BY <2>1, Zenon DEF FlagsOK
<1>8. CASE Flash
  <2>1. \/ Return /\ flashed' \in {TRUE, flashed}
        \/ UNCHANGED runtimeVars /\ UNCHANGED flashed /\ pc # "verify"
    <3>1. CASE PresetDelay \/ FlashInit \/ Command \/ Poll
      BY <3>1 DEF PresetDelay, FlashInit, Command, Poll, Fails, flashVars, runtimeVars
    <3>2. CASE CheckDelay \/ CheckProgram \/ SetAddress \/ ProgramWord
      BY <3>2 DEF CheckDelay, CheckProgram, SetAddress, ProgramWord, Fails, flashVars, runtimeVars
    <3>3. CASE ReadBack \/ DoubleCheck \/ LastCheck
      BY <3>3 DEF ReadBack, DoubleCheck, LastCheck, Fails, flashVars, runtimeVars
    <3> QED
      BY <1>8, <3>1, <3>2, <3>3 DEF Flash
  <2> QED
    BY <1>1, <1>2, <2>1
<1> QED
  BY <1>3, <1>4, <1>5, <1>6, <1>7, <1>8 DEF Runtime, Console

-----------------------------------------------------------------------------
(* The whole.                                                              *)

LEMMA RuntimeChip == ASSUME ChipTypeOK, PlacesOK, AtRest, Runtime PROVE ChipTypeOK'
<1>1. Tag \in Addresses /\ Pattern \in 0 .. 255
  BY ChipConstants DEF Pattern
<1>2. ASSUME operate' \in {TRUE, FALSE, operate}, UNCHANGED <<ram, flashChip, hits>>
      PROVE  ChipTypeOK'
  <2>1. ChipDataOK'
    BY <1>2, ChipParts DEF ChipDataOK, flashChip
  <2>2. flashMode' = flashMode /\ refused' = refused
    BY <1>2 DEF flashChip
  <2>3. ChipFlagsOK'
    BY <1>2, <2>2, ChipParts, Zenon DEF ChipFlagsOK
  <2> QED
    BY <2>1, <2>3, Zenon DEF ChipTypeOK, ChipDataOK, ChipFlagsOK
<1>3. CASE StopChip \/ SetOperate
  BY <1>2, <1>3 DEF StopChip, SetOperate
<1>4. CASE WriteTag
  BY <1>1, <1>4, Set2Type DEF WriteTag
<1>5. CASE WriteByte
  <2>1. Byte \in (Addresses \ {Tag, DelayReg}) \X (0 .. 255)
    BY <1>5, ListType DEF Byte, PlacesOK, WriteByte
  <2>2. Byte[1] \in Addresses /\ Byte[2] \in 0 .. 255
    BY <2>1
  <2> QED
    BY <1>5, <2>2, Set2Type, ChipIdleType DEF WriteByte
<1>6. CASE VerifyByte \/ TagCheck
  BY <1>6, ChipIdleType DEF VerifyByte, TagCheck
<1> QED
  BY <1>3, <1>4, <1>5, <1>6 DEF Runtime

LEMMA FlashChip == ASSUME ChipTypeOK, PlacesOK, AtRest, Flash PROVE ChipTypeOK'
<1>1. page \in 0 .. LastPage /\ command \in {"clear", "erase"} /\ 1 \in 1 .. PageSize
  BY ChipConstants DEF PlacesOK
<1>2. FirstWord \in Words
  BY <1>1, PageInImage DEF FirstWord
<1>3. CASE PresetDelay
  BY <1>3, ChipConstants, Set2Type DEF PresetDelay
<1>4. CASE FlashInit
  BY <1>1, <1>4, CommandsType, ChipIdleType DEF FlashInit, Fails
<1>5. CASE Command
  BY <1>1, <1>5, CommandsType, ChipIdleType DEF Command, Fails
<1>6. CASE Poll \/ CheckDelay \/ CheckProgram \/ LastCheck
  BY <1>6, ChipIdleType DEF Poll, CheckDelay, CheckProgram, LastCheck
<1>7. CASE SetAddress
  BY <1>2, <1>7, PointerType, ChipIdleType DEF SetAddress
<1>8. CASE ProgramWord
  <2>1. at \in 1 .. PageSize
    BY <1>8 DEF PlacesOK, ProgramWord
  <2>2. page * PageSize + at \in Words
    BY <1>1, <2>1, PageInImage
  <2>3. FirstWord + at - 1 = page * PageSize + at
    <3>1. page * PageSize \in Int
      BY <1>1, ChipConstants, OnePage
    <3> QED
      BY <2>1, <3>1 DEF FirstWord
  <2>4. Expected \in CellValues
    BY <2>2, <2>3, ImageValue DEF Expected
  <2> QED
    BY <1>8, <2>4, ProgramType, ChipIdleType DEF ProgramWord, Fails
<1>9. CASE ReadBack \/ DoubleCheck
  BY <1>1, <1>9, CommandsType, ChipIdleType DEF ReadBack, DoubleCheck, Fails
<1> QED
  BY <1>3, <1>4, <1>5, <1>6, <1>7, <1>8, <1>9 DEF Flash

LEMMA TypeInit == Init => ChipTypeOK
<1> SUFFICES ASSUME Init PROVE ChipTypeOK
  OBVIOUS
<1>1. PowerUp \in [Addresses -> 0 .. 255] /\ "old" \in CellValues /\ 1 \in Words
  BY SizeType DEF PowerUp, CellValues, Marks
<1>2. ChipDataOK
  BY <1>1, ChipConstants DEF Init, ChipInit, ChipDataOK
<1>3. ChipFlagsOK
  BY Zenon DEF Init, ChipInit, ChipFlagsOK
<1> QED
  BY <1>2, <1>3, ChipParts

LEMMA TypeStep == ChipTypeOK /\ DriverInv /\ [Next]_vars => ChipTypeOK' /\ DriverInv'
<1> SUFFICES ASSUME ChipTypeOK, DriverInv, [Next]_vars PROVE ChipTypeOK' /\ DriverInv'
  OBVIOUS
<1>1. PlacesOK /\ AtRest /\ FlagsOK
  BY DEF DriverInv
<1>2. ASSUME UNCHANGED driver PROVE DriverInv'
  <2>1. PlacesOK' /\ AtRest'
    BY <1>1, <1>2 DEF PlacesOK, AtRest, driver
  <2>2. fault' = fault /\ flashed' = flashed /\ pc' = pc
    BY <1>2 DEF driver
  <2>3. FlagsOK'
    BY <1>1, <2>2, Zenon DEF FlagsOK
  <2> QED
    BY <2>1, <2>3 DEF DriverInv
<1>3. CASE Console
  <2>1. UNCHANGED chipVars
    BY <1>3 DEF Console, xrp_boot, xrp_flash
  <2> QED
    BY <1>1, <1>3, <2>1, ChipIdleType, RuntimePlaces, FlagsStep DEF DriverInv
<1>4. CASE Runtime
  BY <1>1, <1>4, RuntimeChip, RuntimePlaces, FlagsStep DEF DriverInv
<1>5. CASE Flash
  BY <1>1, <1>5, FlashChip, FlashPlaces, FlagsStep DEF DriverInv
<1>6. CASE Chip
  BY <1>2, <1>6, AloneType DEF Chip
<1>7. CASE UNCHANGED vars
  BY <1>2, <1>7, ChipIdleType DEF vars
<1> QED
  BY <1>3, <1>4, <1>5, <1>6, <1>7 DEF Next, Driver

\* The registers and the flash keep their types, and the locals of the driver (i2c_pm.c,
\* hexrec.c) are what each label needs them to be.
THEOREM TypesHold == Spec => [](ChipTypeOK /\ DriverInv)
<1>1. Init => ChipTypeOK /\ DriverInv
  BY TypeInit, DriverInit
<1> QED
  BY <1>1, TypeStep, PTL DEF Spec

\* The locals of the two operations stay within their lists and bounds (i2c_pm.c, hexrec.c).
THEOREM TypeCorrect == Spec => []TypeOK
BY TypesHold, TypeParts, PTL

-----------------------------------------------------------------------------
(* The list is in the chip when xrp_go sets it to operate.  As long as the *)
(* tag is in its register the chip has not lost power since it was written *)
(* there, and the bytes verified so far are in place: of the records       *)
(* before this one, and of this one as far as the second loop has come     *)
(* without a fault.                                                        *)

RecordInPlace(r) == \A j \in 1 .. Len(Records[r]) : InPlace(Records[r][j])

Progress ==
  /\ pc \in {"write", "verify"} => \A r \in 1 .. rec - 1 : RecordInPlace(r)
  /\ pc = "verify" /\ ~fault => \A j \in 1 .. at - 1 : InPlace(Records[rec][j])
  /\ pc = "tagCheck" => \A r \in 1 .. Len(Records) : RecordInPlace(r)

ProgressInv == ram[Tag] = Pattern => Progress

\* What a list's byte may suffer: nothing, if the registers keep their values or if a byte of the
\* list is written, for there is one value for a register.
LEMMA InPlaceKept ==
  ASSUME NEW b \in StaticBytes, InPlace(b), ram \in [Addresses -> 0 .. 255],
         NEW a \in Addresses, NEW v \in 0 .. 255,
         ram' = ram \/ ram' = [ram EXCEPT ![a] = v],
         \/ a \in {Tag, DelayReg}
         \/ \E c \in StaticBytes : a = c[1] /\ v = c[2]
  PROVE  InPlace(b)'
<1>1. b[1] \in Addresses \ {Tag, DelayReg}
  <2>1. PICK r \in DOMAIN Records : \E j \in DOMAIN Records[r] : b = Records[r][j]
    BY DEF StaticBytes
  <2>2. PICK j \in DOMAIN Records[r] : b = Records[r][j]
    BY <2>1
  <2>3. r \in 1 .. Len(Records)
    BY DriverConstants
  <2>4. Records[r] \in Seq((Addresses \ {Tag, DelayReg}) \X (0 .. 255))
    BY DriverConstants, <2>3
  <2>5. j \in 1 .. Len(Records[r])
    BY <2>4
  <2>6. b \in (Addresses \ {Tag, DelayReg}) \X (0 .. 255)
    BY <2>2, <2>3, <2>5, ListType
  <2> QED
    BY <2>6
<1>2. CASE a # b[1]
  BY <1>1, <1>2 DEF InPlace
<1>3. CASE a = b[1]
  <2>1. PICK c \in StaticBytes : a = c[1] /\ v = c[2]
    BY <1>1, <1>3
  <2>2. c = b
    BY <1>3, <2>1, DriverConstants
  <2>3. ram' = ram \/ ram'[b[1]] = b[2]
    BY <1>1, <1>3, <2>1, <2>2
  <2> QED
    BY <2>3 DEF InPlace
<1> QED
  BY <1>2, <1>3

LEMMA RecordKept ==
  ASSUME ram \in [Addresses -> 0 .. 255], NEW a \in Addresses, NEW v \in 0 .. 255,
         ram' = ram \/ ram' = [ram EXCEPT ![a] = v],
         \/ a \in {Tag, DelayReg}
         \/ \E c \in StaticBytes : a = c[1] /\ v = c[2],
         NEW r \in 1 .. Len(Records), RecordInPlace(r)
  PROVE  RecordInPlace(r)'
<1> SUFFICES ASSUME NEW j \in 1 .. Len(Records[r]) PROVE InPlace(Records[r][j])'
  BY DEF RecordInPlace
<1>1. Records[r][j] \in StaticBytes
  BY ListType
<1>2. InPlace(Records[r][j])
  BY DEF RecordInPlace
<1> QED
  BY <1>1, <1>2, InPlaceKept

\* A byte that the second loop finds no difference in is in place.
LEMMA SameInPlace ==
  ASSUME NEW v \in xrp_read2(Byte[1]), ~ByteDiffers(v) PROVE InPlace(Byte)
BY DEF xrp_read2, ByteDiffers, InPlace

\* Steps of the chip on its own.
LEMMA ProgressAlone ==
  ASSUME ChipTypeOK, DriverInv, ProgressInv, UNCHANGED driver,
         Finish \/ LosePower \/ UNCHANGED chipVars
  PROVE  ProgressInv'
<1> SUFFICES ASSUME ram'[Tag] = Pattern PROVE Progress'
  BY DEF ProgressInv
<1>1. ram \in [Addresses -> 0 .. 255] /\ Tag \in Addresses /\ DelayReg \in Addresses
  BY ChipConstants DEF ChipTypeOK
<1>2. ~LosePower
  BY <1>1 DEF LosePower, PowerUp, Pattern
<1>3. ram' = ram \/ ram' = [ram EXCEPT ![DelayReg] = 1]
  BY <1>2 DEF Finish, chipVars
<1>4. ram[Tag] = Pattern
  BY <1>1, <1>3 DEF Tag, DelayReg
<1>5. Progress
  BY <1>4 DEF ProgressInv
<1>6. \A r \in 1 .. Len(Records) : RecordInPlace(r) => RecordInPlace(r)'
  <2> SUFFICES ASSUME NEW r \in 1 .. Len(Records), RecordInPlace(r) PROVE RecordInPlace(r)'
    OBVIOUS
  <2>1. DelayReg \in {Tag, DelayReg} /\ 1 \in 0 .. 255
    OBVIOUS
  <2> QED
    BY <1>1, <1>3, <2>1, RecordKept
<1>7. PlacesOK
  BY DEF DriverInv
<1>8. pc' = pc /\ rec' = rec /\ at' = at /\ fault' = fault
  BY DEF driver
<1>9. ASSUME pc \in {"write", "verify"} PROVE \A r \in 1 .. rec - 1 : RecordInPlace(r)'
  <2>1. \A r \in 1 .. rec - 1 : r \in 1 .. Len(Records) /\ RecordInPlace(r)
    BY <1>5, <1>7, <1>9, ListType DEF Progress, PlacesOK
  <2> QED
    BY <2>1, <1>6
<1>10. ASSUME pc = "verify", ~fault PROVE \A j \in 1 .. at - 1 : InPlace(Records[rec][j])'
  <2>1. \A j \in 1 .. at - 1 :
          Records[rec][j] \in StaticBytes /\ InPlace(Records[rec][j])
    BY <1>5, <1>7, <1>10, ListType DEF Progress, PlacesOK
  <2>2. rec' = rec
    BY <1>8
  <2>3. DelayReg \in Addresses /\ 1 \in 0 .. 255
    BY ChipConstants DEF DelayReg
  <2>4. ASSUME NEW b \in StaticBytes, InPlace(b) PROVE InPlace(b)'
    BY <1>1, <1>3, <2>3, <2>4, InPlaceKept
  <2> QED
    BY <2>1, <2>2, <2>4
<1>11. ASSUME pc = "tagCheck" PROVE \A r \in 1 .. Len(Records) : RecordInPlace(r)'
  BY <1>5, <1>6, <1>11 DEF Progress
<1>12. ~fault' => ~fault
  BY <1>8, Zenon
<1> QED
  BY <1>8, <1>9, <1>10, <1>11, <1>12 DEF Progress

LEMMA ProgressWrite ==
  ASSUME ChipTypeOK, DriverInv, ProgressInv, WriteByte PROVE ProgressInv'
<1> SUFFICES ASSUME ram'[Tag] = Pattern PROVE Progress'
  BY DEF ProgressInv
<1>1. ram \in [Addresses -> 0 .. 255] /\ Tag \in Addresses
  BY ChipConstants DEF ChipTypeOK
<1>2. PlacesOK /\ pc = "write"
  BY DEF DriverInv, WriteByte
<1>3. Byte \in StaticBytes /\ Byte \in (Addresses \ {Tag, DelayReg}) \X (0 .. 255)
  BY <1>2, ListType DEF Byte, PlacesOK
<1>4. Byte[1] \in Addresses /\ Byte[1] # Tag /\ Byte[2] \in 0 .. 255
  BY <1>3
<1>5. ram' = ram \/ ram' = [ram EXCEPT ![Byte[1]] = Byte[2]]
  BY DEF WriteByte, xrp_set2, WriteRegister, chipVars
<1>6. ram[Tag] = Pattern
  BY <1>1, <1>4, <1>5
<1>7. \A r \in 1 .. rec - 1 : r \in 1 .. Len(Records) /\ RecordInPlace(r)
  BY <1>2, <1>6, ListType DEF ProgressInv, Progress, PlacesOK
<1>8. \A r \in 1 .. rec - 1 : RecordInPlace(r)'
  <2>1. \E c \in StaticBytes : Byte[1] = c[1] /\ Byte[2] = c[2]
    BY <1>3
  <2> QED
    BY ZenonT(60), <1>1, <1>4, <1>5, <1>7, <2>1, RecordKept
<1>9. rec' = rec /\ (pc' = "write" \/ (pc' = "verify" /\ at' = 1))
  BY <1>2 DEF WriteByte, Goto, runtimeVars
<1> QED
  BY <1>8, <1>9 DEF Progress

LEMMA ProgressVerify ==
  ASSUME ChipTypeOK, DriverInv, ProgressInv, VerifyByte PROVE ProgressInv'
<1> SUFFICES ASSUME ram'[Tag] = Pattern PROVE Progress'
  BY DEF ProgressInv
<1>1. PlacesOK /\ pc = "verify"
  BY DEF DriverInv, VerifyByte
<1>2. ram' = ram
  BY DEF VerifyByte, chipVars
<1>3. Progress
  BY <1>2 DEF ProgressInv
<1>4. \A r \in 1 .. rec - 1 : RecordInPlace(r)'
  <2>1. \A r \in 1 .. rec - 1 : RecordInPlace(r)
    BY <1>1, <1>3 DEF Progress
  <2> QED
    BY <1>2, <2>1 DEF RecordInPlace, InPlace
<1>5. rec \in 1 .. Len(Records) /\ at \in 1 .. Len(Records[rec]) /\ Len(Records[rec]) \in Nat
      /\ Len(Records) \in Nat
  BY <1>1, ListType DEF PlacesOK
<1>6. PICK v \in xrp_read2(Byte[1]) :
        LET bad == fault \/ ByteDiffers(v)
        IN  \/ ~LastByte /\ fault' = bad /\ at' = at + 1 /\ UNCHANGED <<pc, rec, flashVars>>
            \/ LastByte /\ ~bad /\ NextRecord /\ UNCHANGED <<fault, flashVars>>
            \/ LastByte /\ bad /\ Return /\ UNCHANGED flashed
  BY Zenon DEF VerifyByte
<1>7. \A b : InPlace(b) => InPlace(b)'
  BY <1>2 DEF InPlace
<1>8. ASSUME ~fault, ~ByteDiffers(v) PROVE \A j \in 1 .. at : InPlace(Records[rec][j])
  <2>1. InPlace(Records[rec][at])
    BY <1>8, SameInPlace DEF Byte
  <2>2. \A j \in 1 .. at - 1 : InPlace(Records[rec][j])
    BY <1>1, <1>3, <1>8 DEF Progress
  <2> TAKE j \in 1 .. at
  <2>3. j = at \/ j \in 1 .. at - 1
    BY <1>5
  <2> QED
    BY <2>1, <2>2, <2>3
<1>9. CASE Return
  BY <1>9 DEF Return, Progress
<1>10. CASE at' = at + 1 /\ (fault' = (fault \/ ByteDiffers(v))) /\ UNCHANGED <<pc, rec, flashVars>>
  <2>1. rec' = rec /\ pc' = "verify" /\ at' - 1 = at
    BY <1>1, <1>5, <1>10
  <2>2. ~fault' => ~fault /\ ~ByteDiffers(v)
    BY <1>10, Zenon
  <2>3. ~fault' => \A j \in 1 .. at' - 1 : InPlace(Records[rec][j])'
    <3>1. ~fault' => \A j \in 1 .. at : InPlace(Records[rec][j])
      BY <1>8, <2>2
    <3> QED
      BY <1>2, <2>1, <3>1 DEF InPlace
  <2> QED
    BY <1>4, <2>1, <2>3 DEF Progress
<1>11. CASE LastByte /\ ~(fault \/ ByteDiffers(v)) /\ NextRecord
  <2>1. RecordInPlace(rec)
    BY <1>8, <1>11 DEF LastByte, RecordInPlace
  <2>2. \A r \in 1 .. rec : RecordInPlace(r)'
    <3> TAKE r \in 1 .. rec
    <3>1. CASE r = rec
      <4>1. RecordInPlace(r)
        BY <2>1, <3>1
      <4> QED
        BY <1>7, <4>1 DEF RecordInPlace
    <3>2. CASE r # rec
      <4>1. r \in 1 .. rec - 1
        BY <1>5, <3>2
      <4> QED
        BY <1>4, <4>1
    <3> QED
      BY <3>1, <3>2
  <2>3. \/ rec' - 1 = rec /\ pc' = "write"
        \/ rec = Len(Records) /\ pc' = "tagCheck"
    BY <1>5, <1>11 DEF NextRecord, Goto
  <2> QED
    BY <2>2, <2>3 DEF Progress
<1> QED
  BY <1>6, <1>9, <1>10, <1>11, Zenon

LEMMA ProgressStep ==
  ChipTypeOK /\ DriverInv /\ ProgressInv /\ [Next]_vars => ProgressInv'
<1> SUFFICES ASSUME ChipTypeOK, DriverInv, ProgressInv, [Next]_vars PROVE ProgressInv'
  OBVIOUS
<1>1. ASSUME pc' \notin {"write", "verify", "tagCheck"} PROVE ProgressInv'
  BY <1>1 DEF ProgressInv, Progress
<1>2. CASE Console \/ StopChip \/ SetOperate \/ TagCheck
  BY <1>1, <1>2 DEF Console, xrp_boot, xrp_flash, StopChip, SetOperate, TagCheck, Goto, Return
<1>3. CASE WriteTag
  <2>1. rec' = 1 /\ pc' = "write"
    BY <1>3 DEF WriteTag, DriverInv, AtRest, Goto, runtimeVars
  <2> QED
    BY <2>1 DEF ProgressInv, Progress
<1>4. CASE WriteByte
  BY <1>4, ProgressWrite
<1>5. CASE VerifyByte
  BY <1>5, ProgressVerify
<1>6. CASE Flash
  <2>1. CASE PresetDelay \/ FlashInit \/ Command \/ Poll
    BY <1>1, <2>1 DEF PresetDelay, FlashInit, Command, Poll, Fails, Goto, Return
  <2>2. CASE CheckDelay \/ CheckProgram \/ SetAddress \/ ProgramWord
    BY <1>1, <2>2 DEF CheckDelay, CheckProgram, SetAddress, ProgramWord, Fails, Goto, Return
  <2>3. CASE ReadBack \/ DoubleCheck \/ LastCheck
    BY <1>1, <2>3 DEF ReadBack, DoubleCheck, LastCheck, Fails, Goto, Return
  <2> QED
    BY <1>6, <2>1, <2>2, <2>3 DEF Flash
<1>7. CASE Chip \/ UNCHANGED vars
  BY <1>7, ProgressAlone DEF Chip, vars
<1> QED
  BY <1>2, <1>3, <1>4, <1>5, <1>6, <1>7 DEF Next, Driver, Runtime

LEMMA LoadedAtCheck ==
  ASSUME ChipTypeOK, ProgressInv, pc = "tagCheck", TagCheck, pc' = "operate" PROVE Loaded
<1>1. Pattern \in xrp_read2(Tag)
  BY DEF TagCheck, Return
<1>2. Progress
  BY <1>1 DEF xrp_read2, Pattern, ProgressInv
<1> SUFFICES ASSUME NEW b \in StaticBytes PROVE InPlace(b)
  BY DEF Loaded
<1>3. PICK r \in DOMAIN Records : \E j \in DOMAIN Records[r] : b = Records[r][j]
  BY DEF StaticBytes
<1>4. PICK j \in DOMAIN Records[r] : b = Records[r][j]
  BY <1>3
<1>5. r \in 1 .. Len(Records)
  BY DriverConstants
<1>6. Records[r] \in Seq((Addresses \ {Tag, DelayReg}) \X (0 .. 255))
  BY DriverConstants, <1>5
<1>7. j \in 1 .. Len(Records[r])
  BY <1>6
<1> QED
  BY <1>2, <1>4, <1>5, <1>7 DEF Progress, RecordInPlace

\* xrp_go sets the chip to operate only when it holds every byte of the list that is verified and
\* not zero, whatever faults happened before (xrp_push_high, xrp_go).
THEOREM StartsLoadedHolds == Spec => StartsLoaded
<1>1. Init => ProgressInv
  BY DEF Init, ProgressInv, Progress
<1>2. ChipTypeOK /\ DriverInv /\ ProgressInv /\ [Next]_vars
        => [pc = "tagCheck" /\ pc' = "operate" => Loaded]_vars
  <2> SUFFICES ASSUME ChipTypeOK, ProgressInv, Next, pc = "tagCheck", pc' = "operate"
               PROVE  Loaded
    OBVIOUS
  <2>1. TagCheck
    <3>1. ~Console /\ ~Chip
      BY DEF Console, xrp_boot, xrp_flash, Chip, driver
    <3>2. ~Flash
      BY DEF Flash, PresetDelay, FlashInit, Command, Poll, CheckDelay, CheckProgram, SetAddress,
         ProgramWord, ReadBack, DoubleCheck, LastCheck
    <3>3. Runtime
      BY <3>1, <3>2 DEF Next, Driver
    <3> QED
      BY <3>3 DEF Runtime, StopChip, WriteTag, WriteByte, VerifyByte, SetOperate
  <2> QED
    BY <2>1, LoadedAtCheck
<1> QED
  BY <1>1, <1>2, ProgressStep, TypesHold, PTL DEF Spec, StartsLoaded
=============================================================================
