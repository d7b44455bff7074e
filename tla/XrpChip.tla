------------------------------ MODULE XrpChip ------------------------------
(***************************************************************************)
(* The XRP7724 power supply of boards up to v1.3, as far as i2c_pm.c and   *)
(* hexrec.c use it: runtime registers with two-byte addresses, the         *)
(* operate bit, and a flash that is cleared, erased and programmed page by *)
(* page with one-byte commands and a read-write pointer.                   *)
(*                                                                         *)
(* The chip may lose power for a moment at any time; its runtime registers *)
(* are then back at their power-up values and its flash commands forgotten.*)
(* A transaction that fails has not reached the chip.                      *)
(***************************************************************************)
EXTENDS Integers, Sequences

CONSTANTS
  Image,      \* the words of the flash image, from word 0
  PageSize,   \* words of a page
  Addresses,  \* runtime registers
  MaxHits     \* bound: power losses and weak flash cells

Words == DOMAIN Image
Size == Len(Image)
PageWords(p) == {w \in Words : (w - 1) \div PageSize = p}
LastPage == (Size \div PageSize) - 1

\* What a flash cell holds when it is not a word of the image.
Marks == {"old", "clear", "erased", "spoilt", "over"}

Tag == "8000"         \* a register that is written first and read last
DelayReg == "8068"    \* YFLASHPGMDELAY: 255 until a flash command fails

ASSUME ChipConstants ==
  /\ Image \in Seq(STRING) /\ Image # <<>> /\ \A w \in Words : Image[w] \notin Marks
  /\ PageSize \in Nat \ {0} /\ Size % PageSize = 0
  /\ MaxHits \in Nat
  /\ {Tag, DelayReg} \subseteq Addresses

VARIABLES
  ram, operate,
  cells,      \* flash: a word of the image or a mark; "over" is a word programmed over a cell
              \* that had not been erased
  ptr,        \* read-write pointer, in words from 1
  flashMode,  \* a FLASH_INIT since power-up
  task,       \* clear or erase in progress: <<command, page>> or none
  refused,    \* status 0xff of the last flash command
  hits

flashChip == <<cells, ptr, flashMode, task, refused>>
chipVars == <<ram, operate, hits, flashChip>>
store == <<ram, operate, hits>>

NoTask == <<"none", 0>>
PowerUp == [a \in Addresses |-> 170]
CellValues == Marks \cup {Image[w] : w \in Words}

ChipInit ==
  /\ ram = PowerUp /\ operate \in BOOLEAN
  /\ cells = [w \in Words |-> "old"] /\ ptr = 1
  /\ flashMode = FALSE /\ task = NoTask /\ refused = FALSE
  /\ hits = 0

(***************************************************************************)
(* Transactions of the driver that reach the chip.                         *)
(***************************************************************************)
WriteRegister(a, v) == ram' = [ram EXCEPT ![a] = v]

FLASH_INIT == flashMode' = TRUE /\ UNCHANGED <<store, cells, ptr, task, refused>>

\* A busy chip, or one that is not in flash mode, refuses; so may any.
FlashCommand(c, p) ==
  /\ \/ flashMode /\ task = NoTask /\ task' = <<c, p>> /\ refused' = FALSE
     \/ refused' = TRUE /\ UNCHANGED task
  /\ UNCHANGED <<store, cells, ptr, flashMode>>

\* FLASH_PROGRAM_ADDRESS
SetPointer(w) == ptr' = w /\ UNCHANGED <<store, cells, flashMode, task, refused>>

\* FLASH_PROGRAM_DATA: a weak cell does not take the word, or another of the page loses its own.
Program(v) ==
  /\ IF ~flashMode THEN UNCHANGED <<cells, hits>>
     ELSE LET new == [cells EXCEPT ![ptr] = CASE @ = "erased" -> v [] @ = "spoilt" -> @
                                              [] OTHER -> "over"]
          IN \/ cells' = new /\ UNCHANGED hits
             \/ /\ hits < MaxHits /\ hits' = hits + 1
                /\ \E w \in PageWords((ptr - 1) \div PageSize) :
                     cells' = [new EXCEPT ![w] = "spoilt"]
  /\ UNCHANGED <<ram, operate, ptr, flashMode, task, refused>>

\* FLASH_PROGRAM_DATA_INC_ADDRESS: the word read is the one at the pointer before it moves.
ReadNext == ptr' = (ptr % Size) + 1 /\ UNCHANGED <<store, cells, flashMode, task, refused>>

(***************************************************************************)
(* The chip on its own.                                                    *)
(***************************************************************************)
FillPage(p, c) == [w \in Words |-> IF w \in PageWords(p) THEN c ELSE cells[w]]

Finish ==
  /\ task # NoTask /\ task' = NoTask
  /\ \/ /\ cells' = FillPage(task[2], IF task[1] = "clear" THEN "clear" ELSE "erased")
        /\ UNCHANGED ram
     \/ cells' = FillPage(task[2], "spoilt") /\ ram' = [ram EXCEPT ![DelayReg] = 1]
  /\ UNCHANGED <<operate, hits, ptr, flashMode, refused>>

LosePower ==
  /\ hits < MaxHits /\ hits' = hits + 1
  /\ ram' = PowerUp /\ operate' = FALSE
  /\ cells' = IF task = NoTask THEN cells ELSE FillPage(task[2], "spoilt")
  /\ ptr' = 1 /\ flashMode' = FALSE /\ task' = NoTask /\ refused' = FALSE

ChipTypeOK ==
  /\ ram \in [Addresses -> 0 .. 255] /\ operate \in BOOLEAN
  /\ cells \in [Words -> CellValues] /\ ptr \in Words
  /\ flashMode \in BOOLEAN /\ refused \in BOOLEAN
  /\ task \in {NoTask} \cup ({"clear", "erase"} \X (0 .. LastPage))
  /\ hits \in 0 .. MaxHits
=============================================================================
