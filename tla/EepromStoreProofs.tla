------------------------- MODULE EepromStoreProofs -------------------------
(***************************************************************************)
(* What the emulated EEPROM keeps, for every number of slots, tags and     *)
(* values: the settings change by whole stores only and survive a loss of  *)
(* power at every flash operation, provided the operations of              *)
(* CoveredFaults are the only ones that fail or are cut.                   *)
(*                                                                         *)
(* The facts about logs are stated for an arbitrary log f, a function from *)
(* slots to frames, so that they serve before and after a step.            *)
(***************************************************************************)
EXTENDS EepromEmuProofs, WellFoundedInduction, FiniteSetTheorems

\* The flash operations that may fail or be cut: any header or frame write and any erase of
\* the old bank, but no erase of a reformat, no failed copy of a migration and no erase
\* that reports an error half way.  The code does not survive those.
CoveredFaults == "wipe" \notin Cuts /\ {"wipe", "migrate", "erasing"} \cap Faults = {}

-----------------------------------------------------------------------------
(* A log: the frames of one bank.                                          *)

LogType == [Slot -> Frame]

HoldsIn(f, n, t) == f[n] \in Good /\ f[n].tag = t
LogOf(f) == {n \in Slot : \A m \in 1 .. n : f[m] # Blank}
LastOf(f, S, t) ==
  LET hits == {n \in S : HoldsIn(f, n, t)}
  IN  IF hits = {} THEN None ELSE f[CHOOSE n \in hits : \A m \in hits : m <= n].val
FindIn(f, t) == LastOf(f, LogOf(f), t)

Empty(f) == \A n \in Slot : f[n] = Blank
FullLog(f) == \A n \in Slot : f[n] # Blank
Tidy(f) == \A m, n \in Slot : m < n /\ f[m] = Blank => f[n] = Blank
Twice(f) == \E m, n \in Slot : \E t \in Tag : m < n /\ HoldsIn(f, m, t) /\ HoldsIn(f, n, t)

\* Every frame of g above slot k has its tag in f.
Covers(g, k, f) == \A n \in Slot : n > k /\ g[n] \in Good => FindIn(f, g[n].tag) # None
Agree(f, g) == \A t \in Tag : FindIn(f, t) = FindIn(g, t)
Within(f, g) == \A t \in Tag : FindIn(f, t) \in {None, FindIn(g, t)}

-----------------------------------------------------------------------------
(* The strengthening: h are the headers, F the logs of the banks, r is the *)
(* running code.                                                           *)

\* A bank marked valid or erased has no hole; a bank marked erased holds no tag twice; and
\* while a valid bank has a moving one beside it, it has every tag of that one.
LogsOK(h, F) ==
  \A b \in Bank :
    /\ h[b] \in {"valid", "erased"} => Tidy(F[b])
    /\ h[b] = "erased" => ~Twice(F[b])
    /\ h[b] = "valid" /\ h[Other(b)] = "moving" => Covers(F[Other(b)], 0, F[b])

\* A bank marked erased has frames only while the other one is marked moving: they are the
\* copies of an unfinished migration, and a reformat wipes both.
SpareOK(h, F) ==
  \A b \in Bank : h[b] = "erased" /\ ~Empty(F[b]) => h[Other(b)] = "moving"

\* The active bank is the valid one, or it is full and its migration was given up; if that
\* got as far as marking the other bank valid, both say the same.
ActiveOK(h, F, r) ==
  r.active \in Bank =>
    LET a == r.active
        o == Other(r.active)
    IN  /\ \/ h[a] = "valid" /\ h[o] # "moving"
           \/ FullLog(F[a]) /\ h[a] # "valid" /\ (h[o] = "valid" => Agree(F[a], F[o]))
        /\ h[o] = "erased" => Within(F[o], F[a])

\* Where the code stands in a migration or a reformat.
MigrateOK(h, F, r) ==
  LET s == r.src
      o == Other(r.src)
  IN  /\ r.pc = "setMoving" => FullLog(F[r.active]) /\ h[Other(r.active)] = "erased"
      /\ r.pc \in {"migrate", "setValid", "eraseOld"} /\ r.active \in Bank =>
           r.src = r.active /\ h[s] = "moving" /\ FullLog(F[s])
      /\ r.pc \in {"migrate", "setValid"} /\ r.active \in Bank => h[o] = "erased"
      /\ r.pc = "migrate" =>
           IF r.failed THEN FullLog(F[o]) /\ r.active \in Bank ELSE Covers(F[s], r.srcn, F[o])
      /\ r.pc = "setValid" => Covers(F[s], 0, F[o])
      /\ r.pc = "eraseOld" => h[o] = "valid" /\ ~Twice(F[o])
      /\ r.pc = "bootErase" => r.active = NoBank
      /\ r.pc \in {"migrate", "bootErase"} /\ r.active = NoBank =>
           h[s] = "moving" /\ h[o] = "valid"
      /\ r.pc = "wipe1" => h[0] = "erased" /\ Empty(F[0])
      /\ r.pc = "format" => \A b \in Bank : h[b] = "erased" /\ Empty(F[b])

\* A store that has migrated, or that was refused for lack of space, has nothing to reclaim.
SpaceOK(F, r) ==
  /\ r.pc = "retry" => ~Twice(F[r.active])
  /\ r.res = "full" => r.active \in Bank
  /\ r.res = "full" /\ r.pc \in {"populate", "idle"} =>
       FullLog(F[r.active]) /\ ~Twice(F[r.active])

\* What holds of the flash and the active bank wherever the code stands, but for the gap
\* between the two erases of a reformat.
SteadyOK(h, F, r) ==
  /\ LogsOK(h, F)
  /\ r.pc # "wipe1" => SpareOK(h, F)
  /\ ActiveOK(h, F, r)

StoreOK(h, F, r) ==
  /\ SteadyOK(h, F, r)
  /\ MigrateOK(h, F, r)
  /\ SpaceOK(F, r)

SInv == IInv /\ StoreOK(hdr, frames, ram)

-----------------------------------------------------------------------------
(* Facts about logs.                                                       *)

LEMMA SlotFacts == /\ Slot \subseteq Nat /\ Slot # {} /\ IsFiniteSet(Slot)
                   /\ \A n \in Slot : n >= 1 /\ n <= EEPROM_COUNT - 1
                   /\ \A n \in Slot : 1 .. n \subseteq Slot
<1>1. EEPROM_COUNT \in Nat /\ EEPROM_COUNT - 1 >= 1
  BY EepromConstants
<1>2. IsFiniteSet(Slot)
  BY <1>1, FS_Interval DEF Slot
<1> QED
  BY <1>1, <1>2 DEF Slot

LEMMA FrameFacts == /\ Blank \in Frame /\ Bad \in Frame /\ Blank # Bad
                    /\ Blank \notin Good /\ Bad \notin Good
                    /\ \A x \in Frame : x \in Good \/ x = Blank \/ x = Bad
                    /\ \A x \in Good : x \in Frame /\ x.tag \in Tag /\ x.val \in Val
                    /\ None \notin Val
BY EepromConstants DEF Frame, Good

\* The suffixes of a set of slots are finite sets, and a smallest one starts at the last slot.
LEMMA LastSlot ==
  ASSUME NEW S \in SUBSET Slot, S # {}
  PROVE  \E n \in S : \A m \in S : m <= n
<1> DEFINE From(n) == {m \in S : m >= n}
           T == {From(n) : n \in S}
           R == StrictSubsetOrdering(Slot)
<1>1. T \subseteq FiniteSubsetsOf(Slot) /\ T # {}
  <2>1. \A n \in S : From(n) \in SUBSET Slot
    OBVIOUS
  <2>2. \A n \in S : IsFiniteSet(From(n))
    BY <2>1, SlotFacts, FS_Subset
  <2>3. \A n \in S : From(n) \in FiniteSubsetsOf(Slot)
    BY <2>1, <2>2 DEF FiniteSubsetsOf
  <2> HIDE DEF From
  <2> QED
    BY <2>3
<1>2. PICK U \in T : \A W \in T : ~ (<<W, U>> \in R)
  <2> HIDE DEF T, R
  <2>1. IsWellFoundedOn(StrictSubsetOrdering(Slot), FiniteSubsetsOf(Slot))
    BY FS_StrictSubsetOrderingWellFounded
  <2> QED
    BY <2>1, <1>1, WFMin DEF R
<1>3. PICK n \in S : U = From(n)
  OBVIOUS
<1>4. ASSUME NEW m \in S, m > n PROVE FALSE
  <2>1. From(m) \subseteq From(n) /\ n \in From(n) /\ n \notin From(m)
    <3>1. n \in Nat /\ m \in Nat /\ S \subseteq Nat
      BY SlotFacts
    <3>2. m > n /\ n >= n /\ ~ (n >= m)
      BY <1>4, <3>1
    <3>3. \A k \in S : k >= m => k >= n
      BY <3>1, <3>2
    <3> QED
      BY <3>2, <3>3
  <2>2. From(m) \in SUBSET Slot /\ From(n) \in SUBSET Slot /\ From(m) # From(n)
    BY <2>1
  <2>3. <<From(m), From(n)>> \in R
    BY <2>1, <2>2 DEF StrictSubsetOrdering
  <2> QED
    BY <1>2, <1>3, <2>3
<1> QED
  BY <1>4, SlotFacts

\* LastOf is None exactly when no slot of S holds the tag, and otherwise what the last such
\* slot holds.
LEMMA LastOfValue ==
  ASSUME NEW f, NEW S \in SUBSET Slot, NEW t, NEW n \in S, HoldsIn(f, n, t),
         \A m \in S : HoldsIn(f, m, t) => m <= n
  PROVE  LastOf(f, S, t) = f[n].val /\ LastOf(f, S, t) # None
<1> DEFINE hits == {m \in S : HoldsIn(f, m, t)}
           last == CHOOSE k \in hits : \A m \in hits : m <= k
<1>1. n \in hits /\ \A m \in hits : m <= n
  OBVIOUS
<1>2. last \in hits /\ \A m \in hits : m <= last
  BY <1>1
<1>3. last = n
  <2>1. last <= n /\ n <= last /\ last \in Nat /\ n \in Nat
    BY <1>1, <1>2, SlotFacts
  <2> QED
    BY <2>1
<1>4. LastOf(f, S, t) = f[n].val
  BY <1>1, <1>3 DEF LastOf
<1> QED
  BY <1>4, FrameFacts DEF HoldsIn

LEMMA LastOfNone ==
  ASSUME NEW f, NEW S \in SUBSET Slot, NEW t
  PROVE  LastOf(f, S, t) = None <=> \A n \in S : ~ HoldsIn(f, n, t)
<1>1. CASE \A n \in S : ~ HoldsIn(f, n, t)
  BY <1>1 DEF LastOf
<1>2. CASE \E n \in S : HoldsIn(f, n, t)
  <2>1. PICK n \in {m \in S : HoldsIn(f, m, t)} :
               \A m \in {k \in S : HoldsIn(f, k, t)} : m <= n
    BY <1>2, LastSlot
  <2> QED
    BY <2>1, LastOfValue
<1> QED
  BY <1>1, <1>2

LEMMA LastOfSome ==
  ASSUME NEW f, NEW S \in SUBSET Slot, NEW t, \E n \in S : HoldsIn(f, n, t)
  PROVE  \E n \in S : /\ HoldsIn(f, n, t) /\ \A m \in S : HoldsIn(f, m, t) => m <= n
                      /\ LastOf(f, S, t) = f[n].val
<1>1. PICK n \in {m \in S : HoldsIn(f, m, t)} : \A m \in {k \in S : HoldsIn(f, k, t)} : m <= n
  BY LastSlot
<1> QED
  BY <1>1, LastOfValue

\* Only the slots that hold the tag matter.
LEMMA LastOfSame ==
  ASSUME NEW f, NEW g, NEW S \in SUBSET Slot, NEW U \in SUBSET Slot, NEW t,
         \A n \in Slot : (n \in S /\ HoldsIn(f, n, t)) <=> (n \in U /\ HoldsIn(g, n, t)),
         \A n \in S : HoldsIn(f, n, t) => f[n] = g[n]
  PROVE  LastOf(f, S, t) = LastOf(g, U, t)
<1>1. CASE \A n \in S : ~ HoldsIn(f, n, t)
  BY <1>1, LastOfNone
<1>2. CASE \E n \in S : HoldsIn(f, n, t)
  <2>1. PICK n \in S : /\ HoldsIn(f, n, t) /\ \A m \in S : HoldsIn(f, m, t) => m <= n
                       /\ LastOf(f, S, t) = f[n].val
    BY <1>2, LastOfSome
  <2>2. n \in U /\ HoldsIn(g, n, t) /\ \A m \in U : HoldsIn(g, m, t) => m <= n
    BY <2>1
  <2>3. LastOf(g, U, t) = g[n].val
    BY <2>2, LastOfValue
  <2> QED
    BY <2>1, <2>3
<1> QED
  BY <1>1, <1>2

\* In a log without holes every frame is part of the log.
LEMMA TidyFind ==
  ASSUME NEW f \in LogType, Tidy(f), NEW t
  PROVE  FindIn(f, t) = LastOf(f, Slot, t)
<1>1. ASSUME NEW n \in Slot, HoldsIn(f, n, t) PROVE n \in LogOf(f)
  <2>1. f[n] # Blank
    BY <1>1, FrameFacts DEF HoldsIn
  <2>2. ASSUME NEW m \in 1 .. n PROVE f[m] # Blank
    <3>1. m \in Slot /\ (m < n \/ m = n)
      BY SlotFacts
    <3> QED
      BY <2>1, <3>1 DEF Tidy
  <2> QED
    BY <2>2 DEF LogOf
<1>2. LogOf(f) \in SUBSET Slot
  BY DEF LogOf
<1> QED
  BY <1>1, <1>2, LastOfSame DEF FindIn

LEMMA FullTidy == ASSUME NEW f, FullLog(f) PROVE Tidy(f)
BY DEF FullLog, Tidy

LEMMA EmptyLog ==
  ASSUME NEW f, Empty(f)
  PROVE  Tidy(f) /\ ~Twice(f) /\ \A t : FindIn(f, t) = None
<1>1. \A t : \A n \in Slot : ~ HoldsIn(f, n, t)
  BY FrameFacts DEF Empty, HoldsIn
<1>2. LogOf(f) \in SUBSET Slot
  BY DEF LogOf
<1>3. \A t : FindIn(f, t) = None
  BY <1>1, <1>2, LastOfNone DEF FindIn
<1> QED
  BY <1>1, <1>3 DEF Tidy, Twice, Empty

LEMMA FindNone ==
  ASSUME NEW f \in LogType, Tidy(f), NEW t
  PROVE  FindIn(f, t) = None <=> \A n \in Slot : ~ HoldsIn(f, n, t)
BY TidyFind, LastOfNone

LEMMA FindVal ==
  ASSUME NEW f \in LogType, NEW t
  PROVE  FindIn(f, t) \in Val \cup {None}
<1>1. LogOf(f) \in SUBSET Slot
  BY DEF LogOf
<1>2. CASE \E n \in LogOf(f) : HoldsIn(f, n, t)
  BY <1>1, <1>2, LastOfSome, FrameFacts DEF FindIn, HoldsIn
<1>3. CASE \A n \in LogOf(f) : ~ HoldsIn(f, n, t)
  BY <1>1, <1>3, LastOfNone DEF FindIn
<1> QED
  BY <1>2, <1>3

-----------------------------------------------------------------------------
(* Appending frame x at the first unused slot n of a log without holes.    *)

FirstBlank(f, n) == f[n] = Blank /\ \A m \in 1 .. n - 1 : f[m] # Blank

LEMMA AfterFirst ==
  ASSUME NEW f \in LogType, Tidy(f), NEW n \in Slot, FirstBlank(f, n)
  PROVE  \A m \in Slot : /\ m < n => f[m] # Blank
                         /\ m >= n => f[m] = Blank
<1>1. \A m \in Slot : m < n => m \in 1 .. n - 1
  BY SlotFacts
<1>2. \A m \in Slot : m >= n => m = n \/ n < m
  BY SlotFacts
<1> QED
  BY <1>1, <1>2 DEF FirstBlank, Tidy

LEMMA AppendTidy ==
  ASSUME NEW f \in LogType, Tidy(f), NEW n \in Slot, FirstBlank(f, n), NEW x \in Frame
  PROVE  [f EXCEPT ![n] = x] \in LogType /\ Tidy([f EXCEPT ![n] = x])
<1> DEFINE g == [f EXCEPT ![n] = x]
<1>1. g \in LogType /\ g[n] = x /\ \A m \in Slot : m # n => g[m] = f[m]
  BY DEF LogType
<1> HIDE DEF g
<1>2. ASSUME NEW k \in Slot, NEW m \in Slot, k < m, g[k] = Blank PROVE g[m] = Blank
  <2>1. k >= n
    BY <1>1, <1>2, AfterFirst, SlotFacts
  <2>2. m > n
    BY <1>2, <2>1, SlotFacts
  <2> QED
    BY <1>1, <2>2, AfterFirst, SlotFacts
<1> QED
  BY <1>1, <1>2 DEF Tidy, g

\* A blank or garbled frame changes nothing a reader finds; a good one changes its tag only.
LEMMA AppendFind ==
  ASSUME NEW f \in LogType, Tidy(f), NEW n \in Slot, FirstBlank(f, n), NEW x \in Frame, NEW t
  PROVE  FindIn([f EXCEPT ![n] = x], t) =
           IF x \in Good /\ x.tag = t THEN x.val ELSE FindIn(f, t)
<1> DEFINE g == [f EXCEPT ![n] = x]
<1>1. g[n] = x /\ \A m \in Slot : m # n => g[m] = f[m]
  BY DEF LogType
<1>2. g \in LogType /\ Tidy(g)
  BY AppendTidy
<1>3. FindIn(g, t) = LastOf(g, Slot, t) /\ FindIn(f, t) = LastOf(f, Slot, t)
  BY <1>2, TidyFind
<1> HIDE DEF g
<1>4. CASE x \in Good /\ x.tag = t
  <2>1. HoldsIn(g, n, t)
    BY <1>1, <1>4 DEF HoldsIn
  <2>2. ASSUME NEW m \in Slot, HoldsIn(g, m, t) PROVE m <= n
    <3>1. m > n => g[m] = Blank
      BY <1>1, AfterFirst, SlotFacts
    <3> QED
      BY <2>2, <3>1, FrameFacts, SlotFacts DEF HoldsIn
  <2>3. LastOf(g, Slot, t) = g[n].val
    BY <2>1, <2>2, LastOfValue
  <2> QED
    BY <1>1, <1>3, <1>4, <2>3 DEF g
<1>5. CASE ~ (x \in Good /\ x.tag = t)
  <2>1. ~ HoldsIn(g, n, t) /\ ~ HoldsIn(f, n, t)
    BY <1>1, <1>5, FrameFacts DEF HoldsIn, FirstBlank
  <2>2. \A m \in Slot : HoldsIn(g, m, t) <=> HoldsIn(f, m, t)
    BY <1>1, <2>1 DEF HoldsIn
  <2>3. \A m \in Slot : HoldsIn(g, m, t) => g[m] = f[m]
    BY <1>1, <2>1
  <2>4. LastOf(g, Slot, t) = LastOf(f, Slot, t)
    BY <2>2, <2>3, LastOfSame
  <2> QED
    BY <1>3, <1>5, <2>4 DEF g
<1> QED
  BY <1>4, <1>5

LEMMA AppendOnce ==
  ASSUME NEW f \in LogType, Tidy(f), NEW n \in Slot, FirstBlank(f, n), NEW x \in Frame,
         ~Twice(f), x \in Good => FindIn(f, x.tag) = None
  PROVE  ~Twice([f EXCEPT ![n] = x])
<1> DEFINE g == [f EXCEPT ![n] = x]
<1>1. g[n] = x /\ \A m \in Slot : m # n => g[m] = f[m]
  BY DEF LogType
<1> HIDE DEF g
<1>2. SUFFICES ASSUME NEW k \in Slot, NEW m \in Slot, NEW t \in Tag,
                      k < m, HoldsIn(g, k, t), HoldsIn(g, m, t)
               PROVE  FALSE
  BY DEF Twice, g
<1>3. CASE k # n /\ m # n
  BY <1>1, <1>2, <1>3 DEF Twice, HoldsIn
<1>4. CASE k = n
  <2>1. g[m] = Blank
    BY <1>1, <1>2, <1>4, AfterFirst, SlotFacts
  <2> QED
    BY <1>2, <2>1, FrameFacts DEF HoldsIn
<1>5. CASE m = n
  <2>1. x \in Good /\ x.tag = t /\ HoldsIn(f, k, t)
    BY <1>1, <1>2, <1>5, SlotFacts DEF HoldsIn
  <2> QED
    BY <2>1, FindNone
<1> QED
  BY <1>3, <1>4, <1>5

-----------------------------------------------------------------------------
(* What a reader gets, as a function of the flash and of the active bank.  *)

ValidIn(h, b) == h[b] = "valid" /\ h[Other(b)] # "valid"

RecoveredIn(h, F, t) ==
  IF \E b \in Bank : ValidIn(h, b)
  THEN LET b == CHOOSE b \in Bank : ValidIn(h, b)
           kept == FindIn(F[b], t)
       IN  IF kept = None /\ h[Other(b)] = "moving" THEN LastOf(F[Other(b)], Slot, t) ELSE kept
  ELSE None

Reader(h, F, r, t) ==
  IF r.active \in Bank THEN FindIn(F[r.active], t)
  ELSE IF h[0] = "valid" THEN FindIn(F[0], t)
  ELSE IF h[1] = "valid" THEN FindIn(F[1], t)
  ELSE None

\* A step keeps every setting, forgets all of them, or stores the requested one.
Change ==
  \/ \A t \in Tag : Reader(hdr', frames', ram', t) = Reader(hdr, frames, ram, t)
  \/ \A t \in Tag : Reader(hdr', frames', ram', t) = None
  \/ /\ ram.tag \in Tag /\ ram.val \in Val
     /\ \A t \in Tag : Reader(hdr', frames', ram', t) =
                         IF t = ram.tag THEN ram.val ELSE Reader(hdr, frames, ram, t)

StepOK == StoreOK(hdr', frames', ram') /\ Change

\* With one bank valid, what a boot recovers is what that bank holds.
LEMMA RecoveredValid ==
  ASSUME NEW h, NEW F, LogsOK(h, F), NEW b \in Bank, ValidIn(h, b), NEW t \in Tag
  PROVE  RecoveredIn(h, F, t) = FindIn(F[b], t)
<1> USE BankFacts
<1>1. \A c \in Bank : ValidIn(h, c) => c = b
  BY DEF ValidIn
<1>2. (CHOOSE c \in Bank : ValidIn(h, c)) = b
  BY <1>1
<1>3. h[Other(b)] = "moving" /\ FindIn(F[b], t) = None => LastOf(F[Other(b)], Slot, t) = None
  <2> SUFFICES ASSUME h[Other(b)] = "moving", FindIn(F[b], t) = None
               PROVE  LastOf(F[Other(b)], Slot, t) = None
    OBVIOUS
  <2>1. Covers(F[Other(b)], 0, F[b])
    BY DEF LogsOK, ValidIn
  <2>2. \A n \in Slot : ~ HoldsIn(F[Other(b)], n, t)
    BY <2>1, SlotFacts DEF Covers, HoldsIn
  <2> QED
    BY <2>2, LastOfNone
<1> HIDE DEF ValidIn
<1> QED
  BY <1>2, <1>3 DEF RecoveredIn

LEMMA RecoveredNone ==
  ASSUME NEW h, NEW F, h[0] # "valid", h[1] # "valid", NEW t
  PROVE  RecoveredIn(h, F, t) = None
BY BankFacts DEF RecoveredIn, ValidIn

LEMMA ReaderRecovered ==
  ASSUME NEW h, NEW F, NEW r, LogsOK(h, F), ~ (h[0] = "valid" /\ h[1] = "valid"),
         r.active \notin Bank, NEW t \in Tag
  PROVE  Reader(h, F, r, t) = RecoveredIn(h, F, t)
<1> USE BankFacts
<1>1. CASE h[0] = "valid"
  BY <1>1, RecoveredValid DEF Reader, ValidIn
<1>2. CASE h[1] = "valid"
  BY <1>2, RecoveredValid DEF Reader, ValidIn
<1>3. CASE h[0] # "valid" /\ h[1] # "valid"
  BY <1>3, RecoveredNone DEF Reader
<1> QED
  BY <1>1, <1>2, <1>3

-----------------------------------------------------------------------------
(* Where a step ends.                                                      *)

LEMMA RestMigrate ==
  ASSUME NEW h, NEW F, NEW q, q.pc \in {"boot", "wipe0", "populate", "idle", "write", "retry"}
  PROVE  MigrateOK(h, F, q)
BY DEF MigrateOK

\* The code moves on and leaves the flash and the active bank as they were.
LEMMA QuietOK ==
  ASSUME SInv, UNCHANGED flash, ram.pc # "wipe1", ram'.active = ram.active,
         MigrateOK(hdr, frames, ram'), SpaceOK(frames, ram')
  PROVE  StepOK
<1>1. hdr' = hdr /\ frames' = frames
  BY DEF flash
<1>2. SteadyOK(hdr, frames, ram')
  BY DEF SInv, StoreOK, SteadyOK, ActiveOK
<1>3. \A t \in Tag : Reader(hdr', frames', ram', t) = Reader(hdr, frames, ram, t)
  BY <1>1 DEF Reader
<1> QED
  BY <1>1, <1>2, <1>3 DEF StepOK, StoreOK, Change

LEMMA ReturnFields ==
  ASSUME ram \in RamType, NEW x
  PROVE  /\ Return(x).pc \in {"populate", "idle"} /\ Return(x).active = ram.active
         /\ Return(x).res = x
BY DEF Return, PowerOn

\* fmc_ee_write returns "full" only from a full bank with nothing to reclaim.
LEMMA ReturnStore ==
  ASSUME NEW h, NEW F, ram \in RamType, SteadyOK(h, F, ram), ram.pc # "wipe1",
         NEW x \in {"ok", "err", "full"},
         x = "full" => /\ ram.active \in Bank /\ FullLog(F[ram.active])
                       /\ ~Twice(F[ram.active])
  PROVE  /\ StoreOK(h, F, Return(x))
         /\ \A t \in Tag : Reader(h, F, Return(x), t) = Reader(h, F, ram, t)
<1> DEFINE q == Return(x)
<1>1. q.pc \in {"populate", "idle"} /\ q.active = ram.active /\ q.res = x
  BY ReturnFields
<1> HIDE DEF q
<1>2. SteadyOK(h, F, q)
  BY <1>1 DEF SteadyOK, ActiveOK
<1>3. MigrateOK(h, F, q)
  BY <1>1, RestMigrate
<1>4. SpaceOK(F, q)
  BY <1>1 DEF SpaceOK
<1>5. \A t \in Tag : Reader(h, F, q, t) = Reader(h, F, ram, t)
  BY <1>1 DEF Reader
<1> QED
  BY <1>2, <1>3, <1>4, <1>5 DEF StoreOK, q

\* A loss of power leaves what the active bank holds for the next boot, or, when no bank is
\* marked valid, nothing.
LEMMA PowerOnStore ==
  ASSUME NEW h, NEW F, ram \in RamType, SteadyOK(h, F, ram), ram.pc # "wipe1",
         ~ (h[0] = "valid" /\ h[1] = "valid")
  PROVE  /\ StoreOK(h, F, PowerOn)
         /\ \/ \A t \in Tag : Reader(h, F, PowerOn, t) = Reader(h, F, ram, t)
            \/ \A t \in Tag : Reader(h, F, PowerOn, t) = None
<1> USE BankFacts
<1>1. PowerOn.pc = "boot" /\ PowerOn.active = NoBank /\ PowerOn.res = "none"
  BY DEF PowerOn
<1>2. SteadyOK(h, F, PowerOn)
  BY <1>1 DEF SteadyOK, ActiveOK
<1>3. MigrateOK(h, F, PowerOn)
  BY <1>1, RestMigrate
<1>4. SpaceOK(F, PowerOn)
  BY <1>1 DEF SpaceOK
<1>5. CASE ram.active \notin Bank
  BY <1>1, <1>2, <1>3, <1>4, <1>5 DEF Reader, StoreOK
<1>6. CASE ram.active \in Bank /\ h[ram.active] = "valid"
  <2>1. \A t \in Tag : Reader(h, F, PowerOn, t) = Reader(h, F, ram, t)
    BY <1>1, <1>6 DEF Reader
  <2> QED
    BY <1>2, <1>3, <1>4, <2>1 DEF StoreOK
<1>7. CASE ram.active \in Bank /\ h[ram.active] # "valid" /\ h[Other(ram.active)] = "valid"
  <2>1. Agree(F[ram.active], F[Other(ram.active)])
    BY <1>7 DEF SteadyOK, ActiveOK
  <2>2. \A t \in Tag : Reader(h, F, PowerOn, t) = FindIn(F[Other(ram.active)], t)
    BY <1>1, <1>7 DEF Reader
  <2>3. \A t \in Tag : Reader(h, F, ram, t) = FindIn(F[ram.active], t)
    BY <1>7 DEF Reader
  <2> QED
    BY <1>2, <1>3, <1>4, <2>1, <2>2, <2>3 DEF StoreOK, Agree
<1>8. CASE ram.active \in Bank /\ h[ram.active] # "valid" /\ h[Other(ram.active)] # "valid"
  <2>1. \A t \in Tag : Reader(h, F, PowerOn, t) = None
    BY <1>1, <1>8 DEF Reader
  <2> QED
    BY <1>2, <1>3, <1>4, <2>1 DEF StoreOK
<1> QED
  BY <1>5, <1>6, <1>7, <1>8

-----------------------------------------------------------------------------
(* What the flash operations leave.                                        *)

LEMMA HeaderMoving ==
  ASSUME hdr \in [Bank -> Header], NEW b \in Bank, NEW end, ProgramHeader(b, "moving", end)
  PROVE  /\ hdr'[b] \in {hdr[b], "invalid", "moving"} /\ hdr'[Other(b)] = hdr[Other(b)]
         /\ end = "done" \/ hdr[b] = "moving" => hdr'[b] = "moving"
         /\ frames' = frames
<1>1. Programmed(hdr[b], "moving") = {"moving"}
  BY DEF Programmed, Header
<1> QED
  BY <1>1, BankFacts DEF ProgramHeader

LEMMA HeaderValid ==
  ASSUME hdr \in [Bank -> Header], NEW b \in Bank, hdr[b] = "erased", NEW end,
         ProgramHeader(b, "valid", end)
  PROVE  /\ hdr'[b] \in {"erased", "invalid", "valid"} /\ hdr'[Other(b)] = hdr[Other(b)]
         /\ end = "done" => hdr'[b] = "valid"
         /\ frames' = frames
<1>1. Programmed(hdr[b], "valid") = {"valid"}
  BY DEF Programmed
<1> QED
  BY <1>1, BankFacts DEF ProgramHeader

LEMMA FrameWritten ==
  ASSUME frames \in [Bank -> LogType], NEW b \in Bank, NEW n \in Slot, NEW f, NEW end,
         ProgramFrame(b, n, f, end)
  PROVE  \E g \in {Blank, Bad, f} :
           /\ frames'[b] = [frames[b] EXCEPT ![n] = g]
           /\ frames'[Other(b)] = frames[Other(b)]
           /\ end = "done" => g = f
           /\ hdr' = hdr
BY BankFacts DEF ProgramFrame, LogType

\* A bank that is erased, wholly or in part, while the other one is valid.
RetiredOK(h, F, s) ==
  \/ h[s] = "erased" /\ Empty(F[s])
  \/ h[s] = "invalid"
  \/ h[s] = "moving" /\ Covers(F[s], 0, F[Other(s)])

LEMMA RetiredSteady ==
  ASSUME NEW h, NEW F, NEW s \in Bank, h[Other(s)] = "valid", Tidy(F[Other(s)]),
         RetiredOK(h, F, s)
  PROVE  LogsOK(h, F) /\ SpareOK(h, F)
BY BankFacts, EmptyLog DEF RetiredOK, LogsOK, SpareOK

LEMMA ErasedLeaves ==
  ASSUME hdr \in [Bank -> Header], frames \in [Bank -> LogType], NEW b \in Bank, Erased(b)
  PROVE  /\ hdr'[b] = "erased" /\ Empty(frames'[b])
         /\ hdr'[Other(b)] = hdr[Other(b)] /\ frames'[Other(b)] = frames[Other(b)]
BY BankFacts DEF Erased, Empty

LEMMA EraseLeaves ==
  ASSUME CoveredFaults, hdr \in [Bank -> Header], frames \in [Bank -> LogType],
         NEW s \in Bank, hdr[s] = "moving", Covers(frames[s], 0, frames[Other(s)]),
         NEW end \in {"done", "cut"}, EraseSector(s, end)
  PROVE  /\ RetiredOK(hdr', frames', s)
         /\ end = "done" => hdr'[s] = "erased" /\ Empty(frames'[s])
         /\ hdr'[Other(s)] = hdr[Other(s)] /\ frames'[Other(s)] = frames[Other(s)]
<1> USE BankFacts
<1>1. CASE Erased(s)
  BY <1>1, ErasedLeaves DEF RetiredOK
<1>2. CASE HalfErased(s) /\ end = "cut"
  <2>1. PICK h \in {hdr[s], "invalid"} : hdr' = [hdr EXCEPT ![s] = h]
    BY <1>2 DEF HalfErased
  <2>2. PICK kept \in SUBSET Slot, garbled \in SUBSET Slot :
          frames' = [frames EXCEPT ![s] =
            [n \in Slot |-> IF n \in kept THEN frames[s][n]
                            ELSE IF n \in garbled THEN Bad ELSE Blank]]
    BY <1>2 DEF HalfErased
  <2>3. hdr'[s] = h /\ hdr'[Other(s)] = hdr[Other(s)] /\ frames'[Other(s)] = frames[Other(s)]
    BY <2>1, <2>2
  <2>4. \A n \in Slot : frames'[s][n] \in Good => frames'[s][n] = frames[s][n]
    BY <2>2, FrameFacts
  <2>5. Covers(frames'[s], 0, frames'[Other(s)])
    BY <2>3, <2>4 DEF Covers
  <2> QED
    BY <1>2, <2>1, <2>3, <2>5 DEF RetiredOK
<1> QED
  BY <1>1, <1>2 DEF EraseSector

-----------------------------------------------------------------------------
(* One lemma per action.                                                   *)

LEMMA SInvFacts ==
  ASSUME SInv
  PROVE  /\ hdr \in [Bank -> Header] /\ frames \in [Bank -> LogType]
         /\ ram \in RamType /\ RamOK(ram, hdr)
         /\ ~ (hdr[0] = "valid" /\ hdr[1] = "valid")
         /\ SteadyOK(hdr, frames, ram) /\ LogsOK(hdr, frames)
         /\ MigrateOK(hdr, frames, ram) /\ SpaceOK(frames, ram)
BY DEF SInv, IInv, RamOK, AtMostOneValid, StoreOK, SteadyOK, LogType

LEMMA NextFacts ==
  ASSUME IInv'
  PROVE  ~ (hdr'[0] = "valid" /\ hdr'[1] = "valid")
BY DEF IInv, AtMostOneValid

LEMMA FindOps ==
  \A b, t : /\ ee_find(b, t) = FindIn(frames[b], t)
            /\ Full(b) <=> FullLog(frames[b])
            /\ Superseded(b) <=> Twice(frames[b])
            /\ \A n : FirstUnused(b, n) <=> FirstBlank(frames[b], n)
BY DEF ee_find, LastIn, Log, Holds, FindIn, LastOf, LogOf, HoldsIn, Full, FullLog,
       Superseded, Twice, FirstUnused, FirstBlank

LEMMA BootAdoptOK == ASSUME SInv, BootAdopt PROVE StepOK
<1> USE BankFacts, SInvFacts
<1>1. PICK b \in Bank : /\ OneValid(b) /\ hdr[Other(b)] # "moving"
                        /\ ram' = [ram EXCEPT !.pc = "populate", !.active = b]
  BY DEF BootAdopt
<1>2. ram = PowerOn /\ hdr' = hdr /\ frames' = frames
  BY DEF BootAdopt, RamOK, flash
<1>3. ram.active = NoBank /\ ram.res = "none" /\ ram.pc = "boot"
  BY <1>2 DEF PowerOn
<1>4. ram'.pc = "populate" /\ ram'.active = b /\ ram'.res = "none"
  BY <1>1, <1>3 DEF RamType
<1>5. hdr[b] = "valid" /\ hdr[Other(b)] # "valid" /\ hdr[Other(b)] # "moving"
  BY <1>1 DEF OneValid
<1>6. hdr[Other(b)] = "erased" => Within(frames[Other(b)], frames[b])
  BY <1>3, <1>5, EmptyLog DEF SteadyOK, SpareOK, Within
<1>7. SteadyOK(hdr, frames, ram')
  BY <1>3, <1>4, <1>5, <1>6 DEF SteadyOK, ActiveOK
<1>8. MigrateOK(hdr, frames, ram') /\ SpaceOK(frames, ram')
  BY <1>4, RestMigrate DEF SpaceOK
<1>9. \A t \in Tag : Reader(hdr', frames', ram', t) = Reader(hdr, frames, ram, t)
  BY <1>2, <1>3, <1>4, <1>5 DEF Reader
<1> QED
  BY <1>2, <1>7, <1>8, <1>9 DEF StepOK, StoreOK, Change

\* ee_migrate starts at the last slot, above which there is nothing to cover.
LEMMA MigratingFields ==
  ASSUME ram \in RamType, NEW b, NEW g, NEW f
  PROVE  /\ Migrating(b).pc = "migrate" /\ Migrating(b).src = b
         /\ Migrating(b).failed = FALSE /\ Migrating(b).active = ram.active
         /\ Migrating(b).res = ram.res
         /\ Covers(g, Migrating(b).srcn, f)
<1>1. Migrating(b).srcn = EEPROM_COUNT - 1
  BY DEF Migrating, RamType
<1>2. \A n \in Slot : ~ (n > EEPROM_COUNT - 1)
  BY SlotFacts, EepromConstants
<1> QED
  BY <1>1, <1>2 DEF Migrating, RamType, Covers

LEMMA BootResumeOK == ASSUME SInv, BootResume PROVE StepOK
<1> USE BankFacts, SInvFacts
<1>1. PICK b \in Bank : /\ OneValid(b) /\ hdr[Other(b)] = "moving"
                        /\ ram' = Migrating(Other(b))
  BY DEF BootResume
<1>2. ram = PowerOn /\ UNCHANGED flash
  BY DEF BootResume, RamOK
<1>3. ram.active = NoBank /\ ram.res = "none" /\ ram.pc = "boot"
  BY <1>2 DEF PowerOn
<1>4. /\ ram'.pc = "migrate" /\ ram'.src = Other(b) /\ ram'.failed = FALSE
      /\ ram'.active = NoBank /\ ram'.res = "none"
      /\ Covers(frames[Other(b)], ram'.srcn, frames[b])
  BY <1>1, <1>3, MigratingFields
<1>5. MigrateOK(hdr, frames, ram')
  BY <1>1, <1>4 DEF MigrateOK, OneValid
<1>6. SpaceOK(frames, ram')
  BY <1>4 DEF SpaceOK
<1> QED
  BY <1>2, <1>3, <1>4, <1>5, <1>6, QuietOK

LEMMA GotoFields ==
  ASSUME ram \in RamType, NEW pc
  PROVE  /\ Goto(pc).pc = pc /\ Goto(pc).active = ram.active /\ Goto(pc).src = ram.src
         /\ Goto(pc).srcn = ram.srcn /\ Goto(pc).failed = ram.failed
         /\ Goto(pc).res = ram.res /\ Goto(pc).todo = ram.todo
BY DEF Goto, RamType

LEMMA BootFormatOK == ASSUME SInv, BootFormat PROVE StepOK
<1> USE BankFacts, SInvFacts
<1>1. ram = PowerOn /\ UNCHANGED flash
  BY DEF BootFormat, RamOK
<1>2. ram.active = NoBank /\ ram.res = "none" /\ ram.pc = "boot"
  BY <1>1 DEF PowerOn
<1>3. SpareOK(hdr, frames)
  BY <1>2 DEF SteadyOK
<1>4. PICK pc \in {"format", "wipe0"} :
        /\ ram' = Goto(pc)
        /\ pc = "format" => \A b \in Bank : hdr[b] = "erased"
  BY DEF BootFormat
<1>5. ram'.pc = pc /\ ram'.active = NoBank /\ ram'.res = "none"
  BY <1>2, <1>4, GotoFields
<1>6. pc = "format" => \A b \in Bank : hdr[b] = "erased" /\ Empty(frames[b])
  BY <1>3, <1>4 DEF SpareOK
<1>7. MigrateOK(hdr, frames, ram') /\ SpaceOK(frames, ram')
  BY <1>5, <1>6 DEF MigrateOK, SpaceOK
<1> QED
  BY <1>1, <1>2, <1>5, <1>7, QuietOK

LEMMA WipeOK == ASSUME CoveredFaults, SInv, Wipe PROVE StepOK
<1> USE BankFacts, SInvFacts
<1> DEFINE b == IF ram.pc = "wipe0" THEN 0 ELSE 1
           next == Goto(IF ram.pc = "wipe0" THEN "wipe1" ELSE "format")
<1>1. PICK end \in Endings("wipe") : EraseSector(b, end) /\ After(end, next, next)
  BY DEF Wipe
<1>2. end = "done"
  BY <1>1 DEF Endings, CoveredFaults
<1>3. ram' = next /\ Erased(b)
  BY <1>1, <1>2 DEF After, EraseSector
<1>4. /\ ram.active = NoBank /\ hdr[0] # "valid" /\ hdr[1] # "valid"
      /\ ram.pc \in {"wipe0", "wipe1"}
  BY DEF RamOK, Wipe
<1>5. /\ hdr'[b] = "erased" /\ Empty(frames'[b])
      /\ hdr'[Other(b)] = hdr[Other(b)] /\ frames'[Other(b)] = frames[Other(b)]
  BY <1>3, ErasedLeaves
<1>6. ram.pc = "wipe1" => hdr[0] = "erased" /\ Empty(frames[0])
  BY DEF MigrateOK
<1>7. /\ ram'.pc = IF ram.pc = "wipe0" THEN "wipe1" ELSE "format"
      /\ ram'.active = NoBank /\ ram'.res = ram.res
  BY <1>3, <1>4, GotoFields
<1>8. ram'.pc = "format" => \A c \in Bank : hdr'[c] = "erased" /\ Empty(frames'[c])
  BY <1>4, <1>5, <1>6, <1>7
<1>9. LogsOK(hdr', frames')
  BY <1>4, <1>5, EmptyLog DEF LogsOK
<1>10. SteadyOK(hdr', frames', ram')
  BY <1>4, <1>7, <1>8, <1>9 DEF SteadyOK, SpareOK, ActiveOK
<1>11. MigrateOK(hdr', frames', ram')
  BY <1>4, <1>5, <1>7, <1>8 DEF MigrateOK
<1>12. SpaceOK(frames', ram')
  BY <1>4, <1>7 DEF SpaceOK
<1>13. \A t \in Tag : Reader(hdr', frames', ram', t) = None
  BY <1>4, <1>5, <1>7 DEF Reader
<1> QED
  BY <1>10, <1>11, <1>12, <1>13 DEF StepOK, StoreOK, Change

LEMMA FormatOK == ASSUME SInv, IInv', Format PROVE StepOK
<1> USE BankFacts, SInvFacts
<1> DEFINE done == [ram EXCEPT !.pc = "populate", !.active = 0]
<1>1. PICK end \in Endings("header") :
        ProgramHeader(0, "valid", end) /\ After(end, done, Goto("populate"))
  BY DEF Format
<1>2. /\ \A b \in Bank : hdr[b] = "erased" /\ Empty(frames[b])
      /\ ram.active = NoBank /\ ram.pc = "format" /\ ram.res # "full"
  BY DEF MigrateOK, RamOK, Format, SpaceOK
<1>3. /\ hdr'[0] \in {"erased", "invalid", "valid"} /\ hdr'[1] = "erased"
      /\ end = "done" => hdr'[0] = "valid"
      /\ frames' = frames
  BY <1>1, <1>2, HeaderValid
<1>4. /\ LogsOK(hdr', frames') /\ SpareOK(hdr', frames')
      /\ \A b \in Bank, t \in Tag : FindIn(frames'[b], t) = None
  BY <1>2, <1>3, EmptyLog DEF LogsOK, SpareOK
<1>5. PICK q : ram' = q /\ (\/ q = PowerOn
                            \/ q = Goto("populate")
                            \/ q = done /\ end = "done")
  BY <1>1, EndingsType DEF After
<1>6. /\ q.pc \in {"boot", "populate"} /\ q.res # "full"
      /\ q.active \in Bank => q.active = 0 /\ hdr'[0] = "valid"
  <2>1. PowerOn.pc = "boot" /\ PowerOn.res = "none" /\ PowerOn.active = NoBank
    BY DEF PowerOn
  <2>2. /\ Goto("populate").pc = "populate" /\ Goto("populate").res = ram.res
        /\ Goto("populate").active = ram.active
    BY GotoFields
  <2>3. done.pc = "populate" /\ done.res = ram.res /\ done.active = 0
    BY DEF RamType
  <2> HIDE DEF done
  <2> QED
    BY <1>2, <1>3, <1>5, <2>1, <2>2, <2>3
<1>7. ActiveOK(hdr', frames', q)
  BY <1>3, <1>4, <1>6 DEF ActiveOK, Within
<1>8. MigrateOK(hdr', frames', q) /\ SpaceOK(frames', q)
  BY <1>6, RestMigrate DEF SpaceOK
<1>9. \A t \in Tag : Reader(hdr', frames', q, t) = None
  BY <1>4, <1>6 DEF Reader
<1> QED
  BY <1>4, <1>5, <1>7, <1>8, <1>9 DEF StepOK, StoreOK, SteadyOK, Change

LEMMA SlotOrder == \A k \in Slot : k > 0 /\ \A n \in Slot : n > k - 1 => n = k \/ n > k
<1> SUFFICES ASSUME NEW k \in Slot
             PROVE  k > 0 /\ \A n \in Slot : n > k - 1 => n = k \/ n > k
  OBVIOUS
<1>1. k \in Nat /\ k >= 1 /\ \A n \in Slot : n \in Nat
  BY SlotFacts
<1> QED
  BY <1>1

LEMMA ScannedFields ==
  ASSUME ram \in RamType, NEW failed
  PROVE  /\ Scanned(failed).pc = ram.pc /\ Scanned(failed).active = ram.active
         /\ Scanned(failed).src = ram.src /\ Scanned(failed).srcn = ram.srcn - 1
         /\ Scanned(failed).failed = failed /\ Scanned(failed).res = ram.res
BY DEF Scanned, RamType

LEMMA MigrateSkipOK == ASSUME SInv, MigrateSkip PROVE StepOK
<1> USE BankFacts, SInvFacts
<1> DEFINE s == ram.src
           o == Other(ram.src)
<1>1. /\ ram.pc = "migrate" /\ ram.srcn \in Slot /\ ~ToCopy
      /\ ram' = Scanned(ram.failed) /\ UNCHANGED flash
  BY DEF MigrateSkip
<1>2. /\ ram'.pc = "migrate" /\ ram'.active = ram.active /\ ram'.src = s
      /\ ram'.srcn = ram.srcn - 1 /\ ram'.failed = ram.failed /\ ram'.res = ram.res
  BY <1>1, ScannedFields
<1>3. frames[s][ram.srcn] \in Good => FindIn(frames[o], frames[s][ram.srcn].tag) # None
  BY <1>1, FindOps DEF ToCopy
<1>4. \A n \in Slot : n > ram.srcn - 1 => n = ram.srcn \/ n > ram.srcn
  BY <1>1, SlotOrder
<1>5. Covers(frames[s], ram.srcn, frames[o]) => Covers(frames[s], ram.srcn - 1, frames[o])
  BY <1>3, <1>4 DEF Covers
<1>6. MigrateOK(hdr, frames, ram')
  BY <1>1, <1>2, <1>5 DEF MigrateOK
<1>7. SpaceOK(frames, ram')
  BY <1>1, <1>2 DEF SpaceOK
<1> QED
  BY <1>1, <1>2, <1>6, <1>7, QuietOK

\* The frame that ee_migrate copies is the last of its tag: what a reader finds in src.
LEMMA CopiedIsLast ==
  ASSUME NEW f \in LogType, NEW g, FullLog(f), NEW k \in Slot, f[k] \in Good,
         Covers(f, k, g), FindIn(g, f[k].tag) = None
  PROVE  FindIn(f, f[k].tag) = f[k].val
<1>1. HoldsIn(f, k, f[k].tag)
  BY DEF HoldsIn
<1>2. ASSUME NEW m \in Slot, HoldsIn(f, m, f[k].tag) PROVE m <= k
  <2>1. ~ (m > k)
    BY <1>2 DEF Covers, HoldsIn
  <2> QED
    BY <2>1, SlotFacts
<1>3. LastOf(f, Slot, f[k].tag) = f[k].val
  BY <1>1, <1>2, LastOfValue
<1> QED
  BY <1>3, FullTidy, TidyFind

LEMMA MigrateCopyOK == ASSUME CoveredFaults, SInv, IInv', MigrateCopy PROVE StepOK
<1> USE BankFacts, SInvFacts
<1> DEFINE s == ram.src
           o == Other(ram.src)
           k == ram.srcn
           x == frames[ram.src][ram.srcn]
<1>1. /\ ram.pc = "migrate" /\ k \in Slot /\ s \in Bank
      /\ x \in Good /\ FindIn(frames[o], x.tag) = None
  BY FindOps DEF MigrateCopy, ToCopy, RamOK
<1>2. ram.active \in Bank
  <2>1. SUFFICES ASSUME ram.active = NoBank PROVE FALSE
    BY DEF RamType
  <2>2. hdr[s] = "moving" /\ hdr[o] = "valid"
    BY <1>1, <2>1 DEF MigrateOK
  <2>3. Covers(frames[s], 0, frames[o])
    BY <1>1, <2>2 DEF LogsOK
  <2> QED
    BY <1>1, <2>3, SlotOrder DEF Covers
<1>3. s = ram.active /\ hdr[s] = "moving" /\ FullLog(frames[s]) /\ hdr[o] = "erased"
  BY <1>1, <1>2 DEF MigrateOK
<1>4. CASE FullLog(frames[o]) /\ ram' = Scanned(TRUE) /\ UNCHANGED flash
  <2>1. /\ ram'.pc = "migrate" /\ ram'.active = ram.active /\ ram'.src = s
        /\ ram'.failed = TRUE /\ ram'.res = ram.res
    BY <1>1, <1>4, ScannedFields
  <2>2. MigrateOK(hdr, frames, ram') /\ SpaceOK(frames, ram')
    BY <1>2, <1>3, <1>4, <2>1 DEF MigrateOK, SpaceOK
  <2> QED
    BY <1>1, <1>4, <2>1, <2>2, QuietOK
<1>5. CASE \E n \in Slot, end \in Endings("migrate") :
             /\ FirstBlank(frames[o], n)
             /\ ProgramFrame(o, n, x, end)
             /\ After(end, Scanned(FALSE), Scanned(TRUE))
  <2>1. PICK n \in Slot, end \in Endings("migrate") :
             /\ FirstBlank(frames[o], n)
             /\ ProgramFrame(o, n, x, end)
             /\ After(end, Scanned(FALSE), Scanned(TRUE))
    BY <1>5
  <2>2. end \in {"done", "cut"}
    BY <2>1 DEF Endings, CoveredFaults
  <2> HIDE DEF x
  <2>3. PICK g \in {Blank, Bad, x} :
          /\ frames'[o] = [frames[o] EXCEPT ![n] = g]
          /\ frames'[s] = frames[s] /\ hdr' = hdr
          /\ end = "done" => g = x
    BY <1>1, <2>1, FrameWritten
  <2>4. ~ ram.failed /\ Covers(frames[s], k, frames[o])
    BY <1>1, <2>1 DEF MigrateOK, FirstBlank, FullLog
  <2>5. Tidy(frames[o]) /\ ~Twice(frames[o]) /\ frames[o] \in LogType /\ frames[s] \in LogType
    BY <1>1, <1>3 DEF LogsOK
  <2>6. g \in Frame /\ (g \in Good => g = x)
    BY <1>1, FrameFacts
  <2>7. Tidy(frames'[o]) /\ ~Twice(frames'[o])
    BY <1>1, <2>1, <2>3, <2>5, <2>6, AppendTidy, AppendOnce
  <2>8. \A t : FindIn(frames'[o], t) =
                 IF g \in Good /\ g.tag = t THEN g.val ELSE FindIn(frames[o], t)
    BY <2>1, <2>3, <2>5, <2>6, AppendFind
  <2>9. FindIn(frames[s], x.tag) = x.val
    BY <1>1, <1>3, <2>4, <2>5, CopiedIsLast DEF x
  <2>10. Within(frames'[o], frames'[s])
    <3>1. Within(frames[o], frames[s])
      BY <1>1, <1>2, <1>3 DEF SteadyOK, ActiveOK
    <3> QED
      BY <2>3, <2>6, <2>8, <2>9, <3>1 DEF Within
  <2>11. LogsOK(hdr', frames') /\ SpareOK(hdr', frames')
    <3>1. \A b \in Bank : b = s \/ b = o
      BY <1>1
    <3> QED
      BY <1>1, <1>3, <2>3, <2>7, <3>1 DEF LogsOK, SpareOK
  <2>12. SteadyOK(hdr', frames', ram)
    BY <1>2, <1>3, <2>3, <2>10, <2>11 DEF SteadyOK, ActiveOK
  <2>13. \A t \in Tag : Reader(hdr', frames', ram, t) = Reader(hdr, frames, ram, t)
    BY <1>2, <1>3, <2>3 DEF Reader
  <2>14. CASE end = "cut"
    <3>1. ram' = PowerOn
      BY <2>1, <2>14 DEF After
    <3>2. /\ StoreOK(hdr', frames', PowerOn)
          /\ \/ \A t \in Tag : Reader(hdr', frames', PowerOn, t) = Reader(hdr', frames', ram, t)
             \/ \A t \in Tag : Reader(hdr', frames', PowerOn, t) = None
      BY <1>1, <2>12, NextFacts, PowerOnStore
    <3> QED
      BY <2>13, <3>1, <3>2 DEF StepOK, Change
  <2>15. CASE end = "done"
    <3>1. ram' = Scanned(FALSE)
      BY <2>1, <2>15 DEF After
    <3>2. /\ ram'.pc = "migrate" /\ ram'.active = ram.active /\ ram'.src = s
          /\ ram'.srcn = k - 1 /\ ram'.failed = FALSE /\ ram'.res = ram.res
      BY <1>1, <3>1, ScannedFields
    <3>3. \A m \in Slot : m > k - 1 => m = k \/ m > k
      BY <1>1, SlotOrder
    <3>4. Covers(frames'[s], k - 1, frames'[o])
      <4>1. FindIn(frames'[o], x.tag) # None
        BY <1>1, <2>3, <2>8, <2>15, FrameFacts
      <4>2. \A t : FindIn(frames[o], t) # None => FindIn(frames'[o], t) # None
        BY <2>6, <2>8, FrameFacts
      <4> QED
        BY <2>3, <2>4, <3>3, <4>1, <4>2 DEF Covers, x
    <3>5. MigrateOK(hdr', frames', ram')
      BY <1>2, <1>3, <2>3, <3>2, <3>4 DEF MigrateOK
    <3>6. SpaceOK(frames', ram')
      BY <1>2, <3>2 DEF SpaceOK
    <3>7. SteadyOK(hdr', frames', ram')
      BY <2>12, <3>2, <1>1 DEF SteadyOK, ActiveOK
    <3>8. \A t \in Tag : Reader(hdr', frames', ram', t) = Reader(hdr', frames', ram, t)
      BY <3>2 DEF Reader
    <3> QED
      BY <2>13, <3>5, <3>6, <3>7, <3>8 DEF StepOK, StoreOK, Change
  <2> QED
    BY <2>2, <2>14, <2>15
<1> QED
  BY <1>4, <1>5, FindOps DEF MigrateCopy

LEMMA MigrateEndOK == ASSUME SInv, MigrateEnd PROVE StepOK
<1> USE BankFacts, SInvFacts
<1> DEFINE s == ram.src
           o == Other(ram.src)
<1>1. ram.pc = "migrate" /\ ram.srcn = 0 /\ s \in Bank /\ UNCHANGED flash
  BY DEF MigrateEnd, RamOK
<1>2. IF ram.failed THEN ram.active \in Bank ELSE Covers(frames[s], 0, frames[o])
  BY <1>1 DEF MigrateOK
<1>3. CASE ram.failed
  <2>1. ram' = Return("err")
    BY <1>2, <1>3 DEF MigrateEnd
  <2>2. hdr' = hdr /\ frames' = frames
    BY <1>1 DEF flash
  <2> QED
    BY <1>1, <2>1, <2>2, ReturnStore DEF StepOK, Change
<1>4. CASE ~ ram.failed
  <2>1. PICK pc \in {"bootErase", "setValid"} :
          ram' = Goto(pc) /\ (pc = "bootErase" <=> ram.active = NoBank)
    BY <1>4 DEF MigrateEnd
  <2>2. ram'.pc = pc /\ ram'.active = ram.active /\ ram'.src = s /\ ram'.res = ram.res
    BY <2>1, GotoFields
  <2>3. MigrateOK(hdr, frames, ram')
    BY <1>1, <1>2, <1>4, <2>1, <2>2 DEF MigrateOK
  <2>4. SpaceOK(frames, ram')
    BY <2>2 DEF SpaceOK
  <2> QED
    BY <1>1, <2>2, <2>3, <2>4, QuietOK
<1> QED
  BY <1>3, <1>4

\* The erase of the old bank, with the other one valid: whatever it leaves, the next boot
\* reads the other bank.
LEMMA EraseOldBank ==
  ASSUME CoveredFaults, SInv, NEW s \in Bank, hdr[s] = "moving", hdr[Other(s)] = "valid",
         NEW end \in {"done", "cut"}, EraseSector(s, end)
  PROVE  /\ LogsOK(hdr', frames') /\ SpareOK(hdr', frames')
         /\ hdr'[Other(s)] = "valid" /\ hdr'[s] # "valid"
         /\ frames'[Other(s)] = frames[Other(s)]
         /\ end = "done" => hdr'[s] = "erased" /\ Empty(frames'[s])
<1> USE BankFacts, SInvFacts
<1>1. Covers(frames[s], 0, frames[Other(s)]) /\ Tidy(frames[Other(s)])
  BY DEF LogsOK
<1>2. /\ RetiredOK(hdr', frames', s)
      /\ end = "done" => hdr'[s] = "erased" /\ Empty(frames'[s])
      /\ hdr'[Other(s)] = hdr[Other(s)] /\ frames'[Other(s)] = frames[Other(s)]
  BY <1>1, EraseLeaves
<1>3. LogsOK(hdr', frames') /\ SpareOK(hdr', frames')
  BY <1>1, <1>2, RetiredSteady
<1> QED
  BY <1>2, <1>3 DEF RetiredOK

LEMMA EraseFails ==
  ASSUME CoveredFaults, NEW s, EraseSector(s, "fail")
  PROVE  hdr' = hdr /\ frames' = frames
BY DEF EraseSector, CoveredFaults, flash

LEMMA BootEraseOK == ASSUME CoveredFaults, SInv, BootErase PROVE StepOK
<1> USE BankFacts, SInvFacts
<1> DEFINE s == ram.src
           o == Other(ram.src)
           done == [PowerOn EXCEPT !.pc = "populate", !.active = o]
           fail == [PowerOn EXCEPT !.pc = "populate"]
<1>1. PICK end \in Endings("erase") : EraseSector(s, end) /\ After(end, done, fail)
  BY DEF BootErase
<1>2. /\ ram.pc = "bootErase" /\ s \in Bank /\ ram.active = NoBank
      /\ hdr[s] = "moving" /\ hdr[o] = "valid"
  BY DEF BootErase, RamOK, MigrateOK
<1>3. /\ done.pc = "populate" /\ done.active = o /\ done.res = "none"
      /\ fail.pc = "populate" /\ fail.active = NoBank /\ fail.res = "none"
      /\ PowerOn.pc = "boot" /\ PowerOn.active = NoBank /\ PowerOn.res = "none"
  BY DEF PowerOn
<1> HIDE DEF done, fail
<1>4. \A t \in Tag : Reader(hdr, frames, ram, t) = FindIn(frames[o], t)
  BY <1>2 DEF Reader
<1>5. CASE end = "fail"
  <2>1. ram' = fail /\ hdr' = hdr /\ frames' = frames
    BY <1>1, <1>5, EraseFails DEF After
  <2>2. SteadyOK(hdr', frames', ram')
    BY <1>2, <1>3, <2>1 DEF SteadyOK, ActiveOK
  <2>3. MigrateOK(hdr', frames', ram') /\ SpaceOK(frames', ram')
    BY <1>3, <2>1, RestMigrate DEF SpaceOK
  <2>4. \A t \in Tag : Reader(hdr', frames', ram', t) = FindIn(frames[o], t)
    BY <1>2, <1>3, <2>1 DEF Reader
  <2> QED
    BY <1>4, <2>2, <2>3, <2>4 DEF StepOK, StoreOK, Change
<1>6. CASE end \in {"done", "cut"}
  <2>1. /\ LogsOK(hdr', frames') /\ SpareOK(hdr', frames')
        /\ hdr'[o] = "valid" /\ hdr'[s] # "valid" /\ frames'[o] = frames[o]
        /\ end = "done" => hdr'[s] = "erased" /\ Empty(frames'[s])
    BY <1>1, <1>2, <1>6, EraseOldBank
  <2>2. ram' = IF end = "done" THEN done ELSE PowerOn
    BY <1>1, <1>6 DEF After
  <2>3. ActiveOK(hdr', frames', ram')
    BY <1>2, <1>3, <2>1, <2>2, EmptyLog DEF ActiveOK, Within
  <2>4. MigrateOK(hdr', frames', ram') /\ SpaceOK(frames', ram')
    BY <1>3, <2>2, RestMigrate DEF SpaceOK
  <2>5. \A t \in Tag : Reader(hdr', frames', ram', t) = FindIn(frames[o], t)
    BY <1>2, <1>3, <2>1, <2>2 DEF Reader
  <2> QED
    BY <1>4, <2>1, <2>3, <2>4, <2>5 DEF StepOK, StoreOK, SteadyOK, Change
<1> QED
  BY <1>5, <1>6, EndingsType

LEMMA PopulateOK == ASSUME SInv, Populate PROVE StepOK
<1> USE BankFacts, SInvFacts
<1>1. ram.pc = "populate" /\ UNCHANGED flash
  BY DEF Populate
<1>2. /\ ram'.pc \in {"populate", "idle", "write"}
      /\ ram'.active = ram.active /\ ram'.res = ram.res
  BY <1>1 DEF Populate, Goto, RamType
<1>3. MigrateOK(hdr, frames, ram') /\ SpaceOK(frames, ram')
  BY <1>1, <1>2, RestMigrate DEF SpaceOK
<1> QED
  BY <1>1, <1>2, <1>3, QuietOK

LEMMA WriteRepeatOK == ASSUME SInv, WriteRepeat PROVE StepOK
<1> USE SInvFacts
<1>1. ram.pc # "wipe1" /\ ram' = Return("ok") /\ hdr' = hdr /\ frames' = frames
  BY DEF WriteRepeat, flash
<1> QED
  BY <1>1, ReturnStore DEF StepOK, Change

LEMMA WriteFrameOK == ASSUME SInv, IInv', WriteFrame PROVE StepOK
<1> USE BankFacts, SInvFacts
<1> DEFINE a == ram.active
           o == Other(ram.active)
           x == [tag |-> ram.tag, val |-> ram.val]
<1>1. /\ ram.pc \in {"write", "retry"} /\ a \in Bank /\ ram.tag \in Tag /\ ram.val \in Val
      /\ x \in Good
  BY DEF WriteFrame, RamOK, Good
<1>2. PICK n \in Slot, end \in Endings("frame") :
        /\ FirstBlank(frames[a], n)
        /\ ProgramFrame(a, n, x, end)
        /\ After(end, Return("ok"), Return("err"))
  BY FindOps DEF WriteFrame
<1>3. x.tag = ram.tag /\ x.val = ram.val
  OBVIOUS
<1> HIDE DEF x
<1>4. PICK g \in {Blank, Bad, x} :
        /\ frames'[a] = [frames[a] EXCEPT ![n] = g]
        /\ frames'[o] = frames[o] /\ hdr' = hdr
        /\ end = "done" => g = x
  BY <1>1, <1>2, FrameWritten
<1>5. hdr[a] = "valid" /\ hdr[o] # "moving" /\ hdr[o] # "valid"
  <2>1. ~ FullLog(frames[a])
    BY <1>2 DEF FirstBlank, FullLog
  <2> QED
    BY <1>1, <2>1 DEF SteadyOK, ActiveOK
<1>6. Tidy(frames[a]) /\ frames[a] \in LogType /\ g \in Frame /\ (g \in Good => g = x)
  BY <1>1, <1>5, FrameFacts DEF LogsOK
<1>7. Tidy(frames'[a])
  BY <1>2, <1>4, <1>6, AppendTidy
<1>8. \A t : FindIn(frames'[a], t) =
               IF g \in Good /\ g.tag = t THEN g.val ELSE FindIn(frames[a], t)
  BY <1>2, <1>4, <1>6, AppendFind
<1>9. hdr[o] = "erased" => Empty(frames[o])
  BY <1>1, <1>5 DEF SteadyOK, SpareOK
<1>10. LogsOK(hdr', frames') /\ SpareOK(hdr', frames')
  <2>1. \A b \in Bank : b = a \/ b = o
    BY <1>1
  <2> QED
    BY <1>1, <1>4, <1>5, <1>7, <1>9, <2>1, EmptyLog DEF LogsOK, SpareOK
<1>11. SteadyOK(hdr', frames', ram)
  BY <1>1, <1>4, <1>5, <1>9, <1>10, EmptyLog DEF SteadyOK, ActiveOK, Within
<1>12. /\ \A t \in Tag : Reader(hdr', frames', ram, t) = FindIn(frames'[a], t)
       /\ \A t \in Tag : Reader(hdr, frames, ram, t) = FindIn(frames[a], t)
  BY <1>1 DEF Reader
<1>13. \/ \A t \in Tag : Reader(hdr', frames', ram, t) = Reader(hdr, frames, ram, t)
       \/ \A t \in Tag : Reader(hdr', frames', ram, t) =
                           IF t = ram.tag THEN ram.val ELSE Reader(hdr, frames, ram, t)
  BY <1>3, <1>6, <1>8, <1>12
<1>14. CASE end = "cut"
  <2>1. ram' = PowerOn
    BY <1>2, <1>14 DEF After
  <2>2. /\ StoreOK(hdr', frames', PowerOn)
        /\ \/ \A t \in Tag : Reader(hdr', frames', PowerOn, t) = Reader(hdr', frames', ram, t)
           \/ \A t \in Tag : Reader(hdr', frames', PowerOn, t) = None
    BY <1>1, <1>11, NextFacts, PowerOnStore
  <2> QED
    BY <1>1, <1>13, <2>1, <2>2 DEF StepOK, Change
<1>15. CASE end # "cut"
  <2>1. PICK r \in {"ok", "err"} : ram' = Return(r)
    BY <1>2, <1>15, EndingsType DEF After
  <2>2. /\ StoreOK(hdr', frames', Return(r))
        /\ \A t \in Tag : Reader(hdr', frames', Return(r), t) = Reader(hdr', frames', ram, t)
    BY <1>1, <1>11, ReturnStore
  <2> QED
    BY <1>1, <1>13, <2>1, <2>2 DEF StepOK, Change
<1> QED
  BY <1>14, <1>15

LEMMA WriteFullOK == ASSUME SInv, WriteFull PROVE StepOK
<1> USE BankFacts, SInvFacts
<1>1. /\ ram.pc \in {"write", "retry"} /\ ram.active \in Bank
      /\ FullLog(frames[ram.active]) /\ UNCHANGED flash
  BY FindOps DEF WriteFull, RamOK
<1>2. PICK reclaimable \in ReclaimableAnswers(ram.active) :
       ram' = IF ram.pc = "retry" \/ ~reclaimable THEN Return("full")
              ELSE IF hdr[Other(ram.active)] # "erased" THEN Return("err")
              ELSE Goto("setMoving")
  BY DEF WriteFull
<1>3. ~reclaimable => ~Twice(frames[ram.active])
  BY FindOps DEF ReclaimableAnswers
<1>4. ram.pc = "retry" => ~Twice(frames[ram.active])
  BY DEF SpaceOK
<1>5. CASE \/ ram' = Return("err")
           \/ ram' = Return("full") /\ ~Twice(frames[ram.active])
  BY <1>1, <1>5, ReturnStore DEF StepOK, Change, flash
<1>6. CASE ram' = Goto("setMoving") /\ hdr[Other(ram.active)] = "erased"
  <2>1. ram'.pc = "setMoving" /\ ram'.active = ram.active /\ ram'.res = ram.res
    BY <1>6, GotoFields
  <2>2. MigrateOK(hdr, frames, ram') /\ SpaceOK(frames, ram')
    BY <1>1, <1>6, <2>1 DEF MigrateOK, SpaceOK
  <2> QED
    BY <1>1, <2>1, <2>2, QuietOK
<1> QED
  BY <1>2, <1>3, <1>4, <1>5, <1>6

LEMMA SetMovingOK == ASSUME SInv, IInv', SetMoving PROVE StepOK
<1> USE BankFacts, SInvFacts
<1> DEFINE a == ram.active
           o == Other(ram.active)
<1>1. PICK end \in Endings("header") :
        ProgramHeader(a, "moving", end) /\ After(end, Migrating(a), Return("err"))
  BY DEF SetMoving
<1>2. ram.pc = "setMoving" /\ a \in Bank /\ FullLog(frames[a]) /\ hdr[o] = "erased"
  BY DEF SetMoving, RamOK, MigrateOK
<1>3. /\ hdr'[a] \in {hdr[a], "invalid", "moving"} /\ hdr'[o] = "erased"
      /\ end = "done" \/ hdr[a] = "moving" => hdr'[a] = "moving"
      /\ frames' = frames
  BY <1>1, <1>2, HeaderMoving
<1>4. SpareOK(hdr, frames) /\ ActiveOK(hdr, frames, ram)
  BY <1>2 DEF SteadyOK
<1>5. \A b \in Bank : b = a \/ b = o
  BY <1>2
<1>6. LogsOK(hdr', frames')
  BY <1>2, <1>3, <1>5 DEF LogsOK
<1>7. SpareOK(hdr', frames')
  BY <1>2, <1>3, <1>4, <1>5 DEF SpareOK
<1>8. ActiveOK(hdr', frames', ram)
  BY <1>2, <1>3, <1>4 DEF ActiveOK
<1>9. SteadyOK(hdr', frames', ram)
  BY <1>6, <1>7, <1>8 DEF SteadyOK
<1>10. \A t \in Tag : Reader(hdr', frames', ram, t) = Reader(hdr, frames, ram, t)
  BY <1>2, <1>3 DEF Reader
<1>11. CASE end = "cut"
  <2>1. ram' = PowerOn
    BY <1>1, <1>11 DEF After
  <2> QED
    BY <1>2, <1>9, <1>10, <2>1, NextFacts, PowerOnStore DEF StepOK, Change
<1>12. CASE end = "fail"
  <2>1. ram' = Return("err")
    BY <1>1, <1>12 DEF After
  <2> QED
    BY <1>2, <1>9, <1>10, <2>1, ReturnStore DEF StepOK, Change
<1>13. CASE end = "done"
  <2>1. ram' = Migrating(a)
    BY <1>1, <1>13 DEF After
  <2>2. /\ ram'.pc = "migrate" /\ ram'.src = a /\ ram'.failed = FALSE
        /\ ram'.active = a /\ ram'.res = ram.res
        /\ Covers(frames'[a], ram'.srcn, frames'[o])
    BY <2>1, MigratingFields
  <2>3. SteadyOK(hdr', frames', ram')
    <3>1. ActiveOK(hdr', frames', ram')
      BY <1>8, <2>2 DEF ActiveOK
    <3> QED
      BY <1>6, <1>7, <3>1 DEF SteadyOK
  <2>4. MigrateOK(hdr', frames', ram') /\ SpaceOK(frames', ram')
    BY <1>2, <1>3, <1>13, <2>2 DEF MigrateOK, SpaceOK
  <2>5. \A t \in Tag : Reader(hdr', frames', ram', t) = Reader(hdr', frames', ram, t)
    BY <2>2 DEF Reader
  <2> QED
    BY <1>10, <2>3, <2>4, <2>5 DEF StepOK, StoreOK, Change
<1> QED
  BY <1>11, <1>12, <1>13, EndingsType

\* Every tag migrated and no value changed: the two banks say the same.
LEMMA CoveredAgree ==
  ASSUME NEW f \in LogType, NEW g, Tidy(f), Covers(f, 0, g), Within(g, f)
  PROVE  Agree(f, g)
<1>1. ASSUME NEW t \in Tag, FindIn(f, t) # None PROVE FindIn(g, t) # None
  <2>1. PICK n \in Slot : HoldsIn(f, n, t)
    BY <1>1, FindNone
  <2> QED
    BY <2>1, SlotOrder DEF Covers, HoldsIn
<1> QED
  BY <1>1 DEF Within, Agree

LEMMA SetValidOK == ASSUME SInv, IInv', SetValid PROVE StepOK
<1> USE BankFacts, SInvFacts
<1> DEFINE s == ram.src
           o == Other(ram.src)
<1>1. PICK end \in Endings("header") :
        ProgramHeader(o, "valid", end) /\ After(end, Goto("eraseOld"), Return("err"))
  BY DEF SetValid
<1>2. /\ ram.pc = "setValid" /\ s \in Bank /\ ram.active = s
      /\ hdr[s] = "moving" /\ FullLog(frames[s]) /\ hdr[o] = "erased"
      /\ Covers(frames[s], 0, frames[o])
  BY DEF SetValid, RamOK, MigrateOK
<1>3. /\ hdr'[o] \in {"erased", "invalid", "valid"} /\ hdr'[s] = "moving"
      /\ end = "done" => hdr'[o] = "valid"
      /\ frames' = frames
  BY <1>1, <1>2, HeaderValid
<1>4. Within(frames[o], frames[s])
  BY <1>2 DEF SteadyOK, ActiveOK
<1>5. Agree(frames[s], frames[o])
  BY <1>2, <1>4, FullTidy, CoveredAgree
<1>6. \A b \in Bank : b = s \/ b = o
  BY <1>2
<1>7. Tidy(frames[o]) /\ ~Twice(frames[o])
  BY <1>2 DEF LogsOK
<1>8. LogsOK(hdr', frames') /\ SpareOK(hdr', frames')
  BY <1>2, <1>3, <1>6, <1>7 DEF LogsOK, SpareOK
<1>9. SteadyOK(hdr', frames', ram)
  BY <1>2, <1>3, <1>4, <1>5, <1>8 DEF SteadyOK, ActiveOK
<1>10. \A t \in Tag : Reader(hdr', frames', ram, t) = Reader(hdr, frames, ram, t)
  BY <1>2, <1>3 DEF Reader
<1>11. CASE end = "cut"
  <2>1. ram' = PowerOn
    BY <1>1, <1>11 DEF After
  <2> QED
    BY <1>2, <1>9, <1>10, <2>1, NextFacts, PowerOnStore DEF StepOK, Change
<1>12. CASE end = "fail"
  <2>1. ram' = Return("err")
    BY <1>1, <1>12 DEF After
  <2> QED
    BY <1>2, <1>9, <1>10, <2>1, ReturnStore DEF StepOK, Change
<1>13. CASE end = "done"
  <2>1. ram' = Goto("eraseOld")
    BY <1>1, <1>13 DEF After
  <2>2. /\ ram'.pc = "eraseOld" /\ ram'.src = s /\ ram'.active = ram.active
        /\ ram'.res = ram.res
    BY <2>1, GotoFields
  <2>3. SteadyOK(hdr', frames', ram')
    <3>1. ActiveOK(hdr', frames', ram)
      BY <1>2, <1>9 DEF SteadyOK
    <3>2. ActiveOK(hdr', frames', ram')
      BY <2>2, <3>1 DEF ActiveOK
    <3> QED
      BY <1>8, <3>2 DEF SteadyOK
  <2>4. MigrateOK(hdr', frames', ram') /\ SpaceOK(frames', ram')
    BY <1>2, <1>3, <1>7, <1>13, <2>2 DEF MigrateOK, SpaceOK
  <2>5. \A t \in Tag : Reader(hdr', frames', ram', t) = Reader(hdr', frames', ram, t)
    BY <2>2 DEF Reader
  <2> QED
    BY <1>10, <2>3, <2>4, <2>5 DEF StepOK, StoreOK, Change
<1> QED
  BY <1>11, <1>12, <1>13, EndingsType

LEMMA EraseOldOK == ASSUME CoveredFaults, SInv, EraseOld PROVE StepOK
<1> USE BankFacts, SInvFacts
<1> DEFINE s == ram.src
           o == Other(ram.src)
           done == [ram EXCEPT !.pc = "retry", !.active = o, !.src = NoBank, !.failed = FALSE]
<1>1. PICK end \in Endings("erase") : EraseSector(s, end) /\ After(end, done, Return("err"))
  BY DEF EraseOld
<1>2. /\ ram.pc = "eraseOld" /\ s \in Bank /\ ram.active = s
      /\ hdr[s] = "moving" /\ hdr[o] = "valid" /\ ~Twice(frames[o])
  BY DEF EraseOld, RamOK, MigrateOK
<1>3. done.pc = "retry" /\ done.active = o /\ done.res = ram.res
  BY DEF RamType
<1>4. PowerOn.pc = "boot" /\ PowerOn.active = NoBank /\ PowerOn.res = "none"
  BY DEF PowerOn
<1> HIDE DEF done
<1>5. Agree(frames[s], frames[o])
  BY <1>2 DEF SteadyOK, ActiveOK
<1>6. \A t \in Tag : Reader(hdr, frames, ram, t) = FindIn(frames[o], t)
  BY <1>2, <1>5 DEF Reader, Agree
<1>7. CASE end = "fail"
  <2>1. ram' = Return("err") /\ hdr' = hdr /\ frames' = frames
    BY <1>1, <1>7, EraseFails DEF After
  <2> QED
    BY <1>2, <2>1, ReturnStore DEF StepOK, Change
<1>8. CASE end \in {"done", "cut"}
  <2>1. /\ LogsOK(hdr', frames') /\ SpareOK(hdr', frames')
        /\ hdr'[o] = "valid" /\ hdr'[s] # "valid" /\ frames'[o] = frames[o]
        /\ end = "done" => hdr'[s] = "erased" /\ Empty(frames'[s])
    BY <1>1, <1>2, <1>8, EraseOldBank
  <2>2. ram' = IF end = "done" THEN done ELSE PowerOn
    BY <1>1, <1>8 DEF After
  <2>3. ActiveOK(hdr', frames', ram')
    BY <1>2, <1>3, <1>4, <2>1, <2>2, EmptyLog DEF ActiveOK, Within
  <2>4. MigrateOK(hdr', frames', ram') /\ SpaceOK(frames', ram')
    BY <1>2, <1>3, <1>4, <2>1, <2>2, RestMigrate DEF SpaceOK
  <2>5. \A t \in Tag : Reader(hdr', frames', ram', t) = FindIn(frames[o], t)
    BY <1>2, <1>3, <1>4, <2>1, <2>2 DEF Reader
  <2> QED
    BY <1>6, <2>1, <2>3, <2>4, <2>5 DEF StepOK, StoreOK, SteadyOK, Change
<1> QED
  BY <1>7, <1>8, EndingsType

LEMMA AcceptOK == ASSUME SInv, NEW t \in Tag, NEW v \in Val, Store(t, v) PROVE StepOK
<1> USE BankFacts, SInvFacts
<1>1. ram.pc = "idle" /\ UNCHANGED flash
  BY DEF Store
<1>2. CASE ram' = Return("err")
  BY <1>1, <1>2, ReturnStore DEF StepOK, Change, flash
<1>3. CASE ram' = [ram EXCEPT !.pc = "write", !.tag = t, !.val = v, !.res = "none"]
  <2>1. ram'.pc = "write" /\ ram'.active = ram.active /\ ram'.res = "none"
    BY <1>3 DEF RamType
  <2>2. MigrateOK(hdr, frames, ram') /\ SpaceOK(frames, ram')
    BY <2>1, RestMigrate DEF SpaceOK
  <2> QED
    BY <1>1, <2>1, <2>2, QuietOK
<1> QED
  BY <1>2, <1>3 DEF Store

LEMMA PowerCutOK == ASSUME CoveredFaults, SInv, PowerCut PROVE StepOK
<1> USE SInvFacts
<1>1. ram.pc # "wipe1" /\ ram' = PowerOn /\ hdr' = hdr /\ frames' = frames
  BY DEF PowerCut, CoveredFaults, flash
<1> QED
  BY <1>1, PowerOnStore DEF StepOK, Change

LEMMA StutterOK == ASSUME SInv, UNCHANGED vars PROVE StepOK
BY DEF SInv, StepOK, Change, vars

-----------------------------------------------------------------------------
(* The step, the inductive invariant and what follows from them.           *)

LEMMA StepSound ==
  ASSUME CoveredFaults, SInv, [Next]_vars
  PROVE  IInv' /\ StepOK
<1>1. IInv'
  BY StepInv DEF SInv
<1>2. StepOK
  BY <1>1, BootAdoptOK, BootResumeOK, BootFormatOK, WipeOK, FormatOK, MigrateSkipOK,
     MigrateCopyOK, MigrateEndOK, BootEraseOK, PopulateOK, WriteRepeatOK, WriteFrameOK,
     WriteFullOK, SetMovingOK, SetValidOK, EraseOldOK, AcceptOK, PowerCutOK, StutterOK
     DEF Next
<1> QED
  BY <1>1, <1>2

LEMMA InitStore == Init => SInv
<1> SUFFICES ASSUME Init PROVE SInv
  OBVIOUS
<1> USE BankFacts
<1>1. IInv
  BY InitInv
<1>2. /\ hdr[0] = "erased" /\ hdr[1] = "erased" /\ Empty(frames[0]) /\ Empty(frames[1])
      /\ ram = PowerOn
  BY DEF Init, Empty
<1>3. ram.pc = "boot" /\ ram.active = NoBank /\ ram.res = "none"
  BY <1>2 DEF PowerOn
<1>4. SteadyOK(hdr, frames, ram)
  BY <1>2, <1>3, EmptyLog DEF SteadyOK, LogsOK, SpareOK, ActiveOK
<1>5. MigrateOK(hdr, frames, ram) /\ SpaceOK(frames, ram)
  BY <1>3, RestMigrate DEF SpaceOK
<1> QED
  BY <1>1, <1>4, <1>5 DEF SInv, StoreOK

LEMMA StoreInvHolds == ASSUME CoveredFaults PROVE Spec => []SInv
<1>1. SInv /\ [Next]_vars => SInv'
  BY StepSound DEF SInv, StepOK
<1> QED
  BY <1>1, InitStore, PTL DEF Spec

\* A reader of the running code, or of what the next boot would recover, before and after.
LEMMA StoredIs ==
  ASSUME NEW t \in Tag
  PROVE  /\ SInv => Stored(t) = Reader(hdr, frames, ram, t)
         /\ SInv' => Stored(t)' = Reader(hdr', frames', ram', t)
<1> USE BankFacts
<1>1. /\ Recovered(t) = RecoveredIn(hdr, frames, t)
      /\ Recovered(t)' = RecoveredIn(hdr', frames', t)
  BY DEF Recovered, RecoveredIn, ValidIn, OneValid, ee_find, FindIn, LastIn, LastOf, Log,
         LogOf, Holds, HoldsIn
<1>2. /\ Stored(t) = IF ram.active = NoBank THEN Recovered(t) ELSE FindIn(frames[ram.active], t)
      /\ Stored(t)' = IF ram'.active = NoBank THEN Recovered(t)'
                      ELSE FindIn(frames'[ram'.active], t)
  BY DEF Stored, ee_find, FindIn, LastIn, LastOf, Log, LogOf, Holds, HoldsIn
<1>3. SUFFICES
        ASSUME NEW h, NEW F, NEW r \in RamType, LogsOK(h, F), ~ (h[0] = "valid" /\ h[1] = "valid")
        PROVE  Reader(h, F, r, t) = IF r.active = NoBank THEN RecoveredIn(h, F, t)
                                    ELSE FindIn(F[r.active], t)
  <2>1. SInv => /\ ram \in RamType /\ LogsOK(hdr, frames)
                /\ ~ (hdr[0] = "valid" /\ hdr[1] = "valid")
    BY SInvFacts
  <2>2. SInv' => /\ ram' \in RamType /\ LogsOK(hdr', frames')
                 /\ ~ (hdr'[0] = "valid" /\ hdr'[1] = "valid")
    BY DEF SInv, IInv, RamOK, AtMostOneValid, StoreOK, SteadyOK
  <2> QED
    BY <1>1, <1>2, <1>3, <2>1, <2>2
<1>4. CASE r.active = NoBank
  BY <1>3, <1>4, ReaderRecovered
<1>5. CASE r.active \in Bank
  BY <1>5 DEF Reader
<1> QED
  BY <1>3, <1>4, <1>5 DEF RamType

\* What any step of the firmware, of the flash or of a power cut does to the settings.
LEMMA StoredStep ==
  ASSUME CoveredFaults, SInv, [Next]_vars
  PROVE  \/ \A t \in Tag : Stored(t)' = Stored(t)
         \/ \A t \in Tag : Stored(t)' = None
         \/ /\ ram.tag \in Tag /\ ram.val \in Val
            /\ \A t \in Tag : Stored(t)' = IF t = ram.tag THEN ram.val ELSE Stored(t)
<1>1. SInv' /\ Change
  BY StepSound DEF SInv, StepOK
<1>2. \A t \in Tag : /\ Stored(t) = Reader(hdr, frames, ram, t)
                     /\ Stored(t)' = Reader(hdr', frames', ram', t)
  BY <1>1, StoredIs
<1> QED
  BY <1>1, <1>2 DEF Change

\* Once a bank is marked valid, what the next boot would recover (eeprom_system_init, with
\* the migration it resumes) is for every tag what fmc_ee_read returns now, for every size of
\* the banks and however stores, failures and power cuts follow each other.
THEOREM RecoveryAgreesHolds == ASSUME CoveredFaults PROVE Spec => []RecoveryAgrees
<1>1. SInv => RecoveryAgrees
  <2> SUFFICES ASSUME SInv, ram.active # NoBank, NEW b \in Bank, hdr[b] = "valid", NEW t \in Tag
               PROVE  Recovered(t) = ee_find(ram.active, t)
    BY DEF RecoveryAgrees
  <2> USE BankFacts, SInvFacts
  <2>1. Recovered(t) = RecoveredIn(hdr, frames, t)
    BY DEF Recovered, RecoveredIn, ValidIn, OneValid, ee_find, FindIn, LastIn, LastOf, Log,
           LogOf, Holds, HoldsIn
  <2>2. RecoveredIn(hdr, frames, t) = FindIn(frames[b], t)
    BY RecoveredValid DEF ValidIn
  <2>3. ram.active \in Bank
    BY DEF RamType
  <2>4. FindIn(frames[b], t) = FindIn(frames[ram.active], t)
    BY <2>3 DEF SteadyOK, ActiveOK, Agree
  <2> QED
    BY <2>1, <2>2, <2>4, FindOps
<1> QED
  BY <1>1, StoreInvHolds, PTL

\* fmc_ee_write refuses a store for lack of space only when no slot of the active bank is blank and
\* no good frame of it is hidden by a later one of its tag (slots of torn frames count as used): the
\* single retry after a migration loses no room.
THEOREM NoSpaceOnlyIfFullHolds == ASSUME CoveredFaults PROVE Spec => []NoSpaceOnlyIfFull
<1>1. SInv => NoSpaceOnlyIfFull
  BY SInvFacts, FindOps DEF NoSpaceOnlyIfFull, SpaceOK
<1> QED
  BY <1>1, StoreInvHolds, PTL

\* No stale value: in one step the setting of a tag stays, is lost with a reformat, or becomes
\* the value fmc_ee_write is storing.
THEOREM NoReversionHolds == ASSUME CoveredFaults PROVE Spec => NoReversion
<1>1. SInv /\ [Next]_vars =>
        [\A t \in Tag : \/ Stored(t)' \in {Stored(t), None}
                        \/ (ram.tag = t /\ Stored(t)' = ram.val)]_vars
  BY StoredStep
<1> QED
  BY <1>1, StoreInvHolds, PTL DEF Spec, NoReversion

\* The two flash banks implement a map from tags to values that changes by whole stores and by
\* a reformat only: the abstract store NvStore, under the refinement mapping Stored.
THEOREM ImplementsNvStoreHolds == ASSUME CoveredFaults PROVE Spec => ImplementsNvStore
<1> DEFINE store == [t \in Tag |-> Stored(t)]
<1>1. Init => Abstract!Init
  <2> SUFFICES ASSUME Init, NEW t \in Tag PROVE Stored(t) = None
    BY DEF Abstract!Init
  <2>1. Reader(hdr, frames, ram, t) = None
    BY BankFacts DEF Init, PowerOn, Reader
  <2> QED
    BY <2>1, InitStore, StoredIs
<1>2. SInv /\ [Next]_vars => [Abstract!Next]_store
  <2> SUFFICES ASSUME SInv, [Next]_vars PROVE [Abstract!Next]_store
    OBVIOUS
  <2>1. CASE \A t \in Tag : Stored(t)' = Stored(t)
    <3>1. store' = store
      BY <2>1
    <3> QED
      BY <3>1
  <2>2. CASE \A t \in Tag : Stored(t)' = None
    <3>1. Abstract!Forget
      BY <2>2 DEF Abstract!Forget
    <3> QED
      BY <3>1 DEF Abstract!Next
  <2>3. CASE /\ ram.tag \in Tag /\ ram.val \in Val
             /\ \A t \in Tag : Stored(t)' = IF t = ram.tag THEN ram.val ELSE Stored(t)
    <3>1. Abstract!Put(ram.tag, ram.val)
      BY <2>3 DEF Abstract!Put
    <3> QED
      BY <2>3, <3>1 DEF Abstract!Next
  <2> QED
    BY <2>1, <2>2, <2>3, StoredStep
<1> QED
  BY <1>1, <1>2, StoreInvHolds, PTL DEF Spec, ImplementsNvStore, Abstract!Spec
-----------------------------------------------------------------------------
(* Room after a migration.  One that goes through copies good frames only, *)
(* one of each tag, to an empty bank or after good copies of one that was  *)
(* given up; copies cut by a loss of power are lost in a reformat.         *)

NoBad(f) == \A n \in Slot : f[n] # Bad

\* The spare bank, while it is erased or its copies are complete, and the bank a store is tried on
\* again hold no garbled frame.
CopiesOK ==
  ram.active \in Bank =>
    /\ hdr[Other(ram.active)] = "erased" \/ ram.pc = "eraseOld"
         => NoBad(frames[Other(ram.active)])
    /\ ram.pc = "retry" => NoBad(frames[ram.active])

\* Steps that leave the frames and the header of the spare bank alone, or give up the active one.
LEMMA CopiesKept ==
  ASSUME SInv, CopiesOK, ram'.pc \notin {"eraseOld", "retry"},
         \/ ram'.active = NoBank
         \/ /\ ram'.active = ram.active /\ ram.active \in Bank
            /\ UNCHANGED <<frames[Other(ram.active)], hdr[Other(ram.active)]>>
  PROVE  CopiesOK'
BY BankFacts DEF CopiesOK

LEMMA BootCopies ==
  ASSUME SInv, CopiesOK, BootAdopt \/ BootResume \/ BootFormat \/ Wipe \/ Format PROVE CopiesOK'
<1> USE BankFacts, SInvFacts
<1>1. PowerOn.active = NoBank /\ PowerOn.pc = "boot"
  BY DEF PowerOn
<1>2. CASE BootAdopt
  <2>1. PICK b \in Bank : /\ OneValid(b) /\ hdr[Other(b)] # "moving"
                          /\ ram' = [ram EXCEPT !.pc = "populate", !.active = b]
    BY <1>2 DEF BootAdopt
  <2>2. ram'.active = b /\ ram'.pc = "populate" /\ hdr' = hdr /\ frames' = frames
    BY <1>2, <2>1 DEF BootAdopt, RamType, flash
  <2>3. hdr[Other(b)] = "erased" => Empty(frames[Other(b)])
    BY <1>2, <2>1 DEF BootAdopt, SteadyOK, SpareOK, OneValid
  <2> QED
    BY <2>2, <2>3, FrameFacts DEF CopiesOK, NoBad, Empty
<1>3. CASE BootResume \/ BootFormat
  <2>1. ram = PowerOn
    BY <1>3 DEF BootResume, BootFormat, RamOK
  <2>2. ram'.active = NoBank /\ ram'.pc \in {"migrate", "format", "wipe0"}
    <3>1. CASE BootResume
      BY SMTT(30), <3>1, <2>1 DEF BootResume, Migrating, PowerOn
    <3>2. CASE BootFormat
      BY SMTT(30), <3>2, <2>1 DEF BootFormat, Goto, PowerOn
    <3> QED
      BY <1>3, <3>1, <3>2
  <2> QED
    BY <2>2, CopiesKept
<1>4. CASE Wipe
  <2>1. ram.active = NoBank
    BY <1>4 DEF Wipe, RamOK
  <2>2. ram'.active = NoBank /\ ram'.pc \in {"boot", "wipe1", "format"}
    <3>1. PICK end \in Endings("wipe") :
            After(end, Goto(IF ram.pc = "wipe0" THEN "wipe1" ELSE "format"),
                       Goto(IF ram.pc = "wipe0" THEN "wipe1" ELSE "format"))
      BY <1>4 DEF Wipe
    <3>2. \A pc : Goto(pc).active = NoBank /\ Goto(pc).pc = pc
      BY <2>1 DEF Goto, RamType
    <3> QED
      BY <1>1, <3>1, <3>2, EndingsType DEF After
  <2> QED
    BY <2>2, CopiesKept
<1>5. CASE Format
  <2>1. PICK end \in Endings("header") :
          /\ ProgramHeader(0, "valid", end)
          /\ After(end, [ram EXCEPT !.pc = "populate", !.active = 0], Goto("populate"))
    BY <1>5 DEF Format
  <2>2. ram.active = NoBank /\ \A b \in Bank : Empty(frames[b])
    BY <1>5 DEF Format, RamOK, MigrateOK
  <2>3. frames' = frames
    BY <2>1 DEF ProgramHeader
  <2>4. ram'.pc \notin {"eraseOld", "retry"}
    BY <1>1, <2>1, EndingsType DEF After, Goto, RamType
  <2> QED
    BY <2>2, <2>3, <2>4, FrameFacts DEF CopiesOK, NoBad, Empty
<1> QED
  BY <1>2, <1>3, <1>4, <1>5

LEMMA MigrationCopies ==
  ASSUME CoveredFaults, SInv, CopiesOK,
         MigrateSkip \/ MigrateCopy \/ MigrateEnd \/ BootErase \/ SetMoving \/ SetValid \/ EraseOld
  PROVE  CopiesOK'
<1> USE BankFacts, SInvFacts
<1> DEFINE s == ram.src
           o == Other(ram.src)
<1>1. PowerOn.active = NoBank /\ PowerOn.pc = "boot"
  BY DEF PowerOn
<1>2. ram.active \in Bank \cup {NoBank}
  BY DEF RamType
<1>3. \A x : Return(x).active = ram.active /\ Return(x).pc \in {"populate", "idle"}
  BY ReturnFields
<1>4. CASE MigrateSkip \/ MigrateEnd \/ (MigrateCopy /\ UNCHANGED flash)
  <2>1. hdr' = hdr /\ frames' = frames
    BY <1>4 DEF MigrateSkip, MigrateEnd, flash
  <2>2. ram'.active \in {NoBank, ram.active} /\ ram'.pc \notin {"eraseOld", "retry"}
    <3>1. CASE MigrateSkip
      BY <3>1, ScannedFields DEF MigrateSkip
    <3>2. CASE MigrateEnd
      <4>1. [PowerOn EXCEPT !.pc = "populate"].active = NoBank
            /\ [PowerOn EXCEPT !.pc = "populate"].pc = "populate"
        BY DEF PowerOn
      <4> QED
        BY <1>3, <3>2, <4>1, GotoFields DEF MigrateEnd
    <3>3. CASE MigrateCopy
      <4>1. \A x : Scanned(x).active = ram.active /\ Scanned(x).pc = ram.pc
        BY DEF Scanned, RamType
      <4>2. ram.pc = "migrate"
        BY <3>3 DEF MigrateCopy
      <4>3. CASE ram' = Scanned(TRUE)
        BY <4>1, <4>2, <4>3
      <4>4. CASE \E end \in Endings("migrate") : After(end, Scanned(FALSE), Scanned(TRUE))
        <5>1. PICK end \in Endings("migrate") : After(end, Scanned(FALSE), Scanned(TRUE))
          BY <4>4
        <5>2. ram' = Scanned(FALSE) \/ ram' = Scanned(TRUE) \/ ram' = PowerOn
          BY <5>1, EndingsType DEF After
        <5> QED
          BY <1>1, <4>1, <4>2, <5>2
      <4> QED
        BY <3>3, <4>3, <4>4 DEF MigrateCopy
    <3> QED
      BY <1>4, <3>1, <3>2, <3>3
  <2> QED
    BY <1>2, <2>1, <2>2, CopiesKept
<1>5. CASE MigrateCopy /\ ~UNCHANGED flash
  <2>1. PICK n \in Slot, end \in Endings("migrate") :
          /\ ProgramFrame(o, n, frames[s][ram.srcn], end)
          /\ After(end, Scanned(FALSE), Scanned(TRUE))
    BY <1>5 DEF MigrateCopy
  <2>2. end \in {"done", "cut"} /\ ram.pc = "migrate" /\ s \in Bank
        /\ frames[s][ram.srcn] \in Good
    BY <1>5, <2>1 DEF MigrateCopy, ToCopy, Endings, CoveredFaults, RamOK
  <2>3. CASE end = "cut" \/ ram.active = NoBank
    <3>1. ram'.active = NoBank /\ ram'.pc \in {"boot", "migrate"}
      BY <1>1, <2>1, <2>2, <2>3, ScannedFields DEF After
    <3> QED
      BY <3>1, CopiesKept
  <2>4. CASE end = "done" /\ ram.active # NoBank
    <3>1. ram'.active = s /\ ram'.pc = "migrate" /\ ram.active = s
      BY <1>2, <2>1, <2>2, <2>4, ScannedFields DEF After, MigrateOK
    <3>2. hdr[o] = "erased" /\ hdr' = hdr
      BY <2>1, <2>2, <2>4, <1>2 DEF MigrateOK, ProgramFrame
    <3>3. \A m \in Slot : frames'[o][m] \in {frames[o][m], frames[s][ram.srcn]}
      BY <2>1, <2>2, <2>4 DEF ProgramFrame, LogType
    <3>4. NoBad(frames[o])
      BY <2>2, <3>1, <3>2 DEF CopiesOK
    <3> QED
      BY <2>2, <3>1, <3>2, <3>3, <3>4, FrameFacts DEF CopiesOK, NoBad
  <2> QED
    BY <2>2, <2>3, <2>4
<1>6. CASE BootErase
  <2> DEFINE done == [PowerOn EXCEPT !.pc = "populate", !.active = o]
             fail == [PowerOn EXCEPT !.pc = "populate"]
  <2>1. PICK end \in Endings("erase") : EraseSector(s, end) /\ After(end, done, fail)
    BY <1>6 DEF BootErase
  <2>2. s \in Bank /\ hdr[s] = "moving" /\ hdr[o] = "valid" /\ end \in {"done", "cut", "fail"}
    BY <1>6, EndingsType DEF BootErase, RamOK, MigrateOK
  <2>3. /\ done.pc = "populate" /\ done.active = o /\ fail.pc = "populate" /\ fail.active = NoBank
    BY DEF PowerOn
  <2> HIDE DEF done, fail
  <2>4. CASE end = "done"
    <3>1. hdr'[s] = "erased" /\ Empty(frames'[s])
      BY <2>1, <2>2, <2>4, EraseOldBank
    <3>2. ram'.active = o /\ ram'.pc = "populate" /\ Other(o) = s
      BY <2>1, <2>2, <2>3, <2>4 DEF After
    <3> QED
      BY <3>1, <3>2, FrameFacts DEF CopiesOK, NoBad, Empty
  <2>5. CASE end # "done"
    <3>1. ram'.active = NoBank /\ ram'.pc \in {"boot", "populate"}
      BY <1>1, <2>1, <2>2, <2>3, <2>5 DEF After
    <3> QED
      BY <3>1, CopiesKept
  <2> QED
    BY <2>4, <2>5
<1>7. CASE SetMoving
  <2>1. PICK end \in Endings("header") :
          /\ ProgramHeader(ram.active, "moving", end)
          /\ After(end, Migrating(ram.active), Return("err"))
    BY <1>7 DEF SetMoving
  <2>2. ram.active \in Bank /\ end \in {"done", "cut", "fail"}
    BY <1>7, EndingsType DEF SetMoving, RamOK
  <2>3. frames' = frames /\ hdr'[Other(ram.active)] = hdr[Other(ram.active)]
    BY <2>1, <2>2, HeaderMoving
  <2>4. ram'.active \in {NoBank, ram.active} /\ ram'.pc \notin {"eraseOld", "retry"}
    BY <1>1, <1>3, <2>1, <2>2, MigratingFields DEF After
  <2> QED
    BY <2>2, <2>3, <2>4, CopiesKept
<1>8. CASE SetValid
  <2>1. PICK end \in Endings("header") :
          /\ ProgramHeader(o, "valid", end)
          /\ After(end, Goto("eraseOld"), Return("err"))
    BY <1>8 DEF SetValid
  <2>2. /\ s \in Bank /\ ram.active = s /\ hdr[o] = "erased" /\ end \in {"done", "cut", "fail"}
    BY <1>8, EndingsType DEF SetValid, RamOK, MigrateOK
  <2>3. frames' = frames /\ NoBad(frames[o])
    BY <2>1, <2>2 DEF ProgramHeader, CopiesOK
  <2>4. ram'.active \in {NoBank, s} /\ ram'.pc # "retry"
    BY <1>1, <1>3, <2>1, <2>2, GotoFields DEF After
  <2> QED
    BY <2>2, <2>3, <2>4 DEF CopiesOK
<1>9. CASE EraseOld
  <2> DEFINE done == [ram EXCEPT !.pc = "retry", !.active = o, !.src = NoBank, !.failed = FALSE]
  <2>1. PICK end \in Endings("erase") : EraseSector(s, end) /\ After(end, done, Return("err"))
    BY <1>9 DEF EraseOld
  <2>2. /\ s \in Bank /\ ram.active = s /\ hdr[s] = "moving" /\ hdr[o] = "valid"
        /\ ram.pc = "eraseOld" /\ end \in {"done", "cut", "fail"}
    BY <1>9, EndingsType DEF EraseOld, RamOK, MigrateOK
  <2>3. done.pc = "retry" /\ done.active = o
    BY DEF RamType
  <2> HIDE DEF done
  <2>4. CASE end = "done"
    <3>1. hdr'[s] = "erased" /\ Empty(frames'[s]) /\ frames'[o] = frames[o]
      BY <2>1, <2>2, <2>4, EraseOldBank
    <3>2. ram'.active = o /\ Other(o) = s /\ NoBad(frames[o])
      BY <2>1, <2>2, <2>3, <2>4 DEF After, CopiesOK
    <3> QED
      BY <3>1, <3>2, FrameFacts DEF CopiesOK, NoBad, Empty
  <2>5. CASE end = "cut"
    BY <1>1, <2>1, <2>5, CopiesKept DEF After
  <2>6. CASE end = "fail"
    <3>1. hdr' = hdr /\ frames' = frames /\ ram' = Return("err")
      BY <2>1, <2>6, EraseFails DEF After
    <3>2. ram'.pc \notin {"eraseOld", "retry"} /\ ram'.active = ram.active
      BY <1>3, <3>1
    <3> QED
      BY <2>2, <3>1, <3>2, CopiesKept
  <2> QED
    BY <2>2, <2>4, <2>5, <2>6
<1> QED
  BY <1>4, <1>5, <1>6, <1>7, <1>8, <1>9

LEMMA StoreCopies ==
  ASSUME SInv, CopiesOK,
         \/ Populate \/ WriteRepeat \/ WriteFrame \/ WriteFull \/ PowerCut
         \/ \E t \in Tag, v \in Val : Store(t, v)
  PROVE  CopiesOK'
<1> USE BankFacts, SInvFacts
<1>1. PowerOn.active = NoBank /\ PowerOn.pc = "boot"
  BY DEF PowerOn
<1>2. ram.active \in Bank \cup {NoBank}
  BY DEF RamType
<1>3. \A x : Return(x).active = ram.active /\ Return(x).pc \in {"populate", "idle"}
  BY ReturnFields
<1>4. CASE WriteFrame
  <2>1. PICK n \in Slot, end \in Endings("frame") :
          /\ ProgramFrame(ram.active, n, [tag |-> ram.tag, val |-> ram.val], end)
          /\ After(end, Return("ok"), Return("err"))
    BY <1>4 DEF WriteFrame
  <2>2. ram.active \in Bank /\ end \in {"done", "cut", "fail"}
    BY <1>4, EndingsType DEF WriteFrame, RamOK
  <2>3. frames'[Other(ram.active)] = frames[Other(ram.active)] /\ hdr' = hdr
    BY <2>1, <2>2, FrameWritten
  <2>4. ram'.active \in {NoBank, ram.active} /\ ram'.pc \notin {"eraseOld", "retry"}
    BY <1>1, <1>3, <2>1, <2>2 DEF After
  <2> QED
    BY <2>2, <2>3, <2>4, CopiesKept
<1>5. CASE PowerCut
  BY <1>1, <1>5, CopiesKept DEF PowerCut
<1>6. CASE Populate \/ WriteRepeat \/ WriteFull \/ \E t \in Tag, v \in Val : Store(t, v)
  <2>1. hdr' = hdr /\ frames' = frames
    BY <1>6 DEF Populate, WriteRepeat, WriteFull, Store, flash
  <2>2. ram'.active = ram.active /\ ram'.pc \notin {"eraseOld", "retry"}
    <3>1. CASE Populate
      BY <3>1 DEF Populate, Goto, RamType
    <3>2. CASE WriteRepeat
      BY <1>3, <3>2 DEF WriteRepeat
    <3>3. CASE WriteFull
      BY <1>3, <3>3, GotoFields DEF WriteFull
    <3>4. CASE \E t \in Tag, v \in Val : Store(t, v)
      <4>1. PICK t \in Tag, v \in Val : Store(t, v)
        BY <3>4
      <4>2. CASE ram.active = NoBank
        BY <1>3, <4>1, <4>2 DEF Store
      <4>3. CASE ram.active # NoBank
        <5>1. ram' = [ram EXCEPT !.pc = "write", !.tag = t, !.val = v, !.res = "none"]
          BY <4>1, <4>3 DEF Store
        <5> QED
          BY <5>1 DEF RamType
      <4> QED
        BY <4>2, <4>3
    <3> QED
      BY <1>6, <3>1, <3>2, <3>3, <3>4
  <2> QED
    BY <1>2, <2>1, <2>2, CopiesKept
<1> QED
  BY <1>4, <1>5, <1>6

\* A full log without garbled frames holds some tag twice when there are more slots than tags.
LEMMA MoreSlotsThanTags ==
  ASSUME NumTags < EEPROM_COUNT - 1, NEW f \in LogType, NoBad(f), FullLog(f)
  PROVE  Twice(f)
<1>1. NumTags \in Nat \ {0} /\ EEPROM_COUNT - 1 \in Nat \ {0}
  BY EepromConstants
<1>2. IsFiniteSet(Tag) /\ IsFiniteSet(Slot) /\ Cardinality(Tag) < Cardinality(Slot)
  <2>1. IsFiniteSet(Tag) /\ Cardinality(Tag) = NumTags
    BY <1>1, FS_Interval DEF Tag
  <2> DEFINE n == EEPROM_COUNT - 1
  <2>2. n \in Nat \ {0} /\ Slot = 1 .. n
    BY <1>1 DEF Slot
  <2> HIDE DEF n
  <2>3. IsFiniteSet(Slot) /\ Cardinality(Slot) = n
    BY <2>2, FS_Interval
  <2> QED
    BY <1>1, <2>1, <2>3 DEF n
<1>3. \A n \in Slot : f[n] \in Good
  BY FrameFacts DEF LogType, NoBad, FullLog
<1> DEFINE tagOf == [n \in Slot |-> f[n].tag]
<1>4. tagOf \in [Slot -> Tag]
  BY <1>3, FrameFacts
<1>5. PICK m, n \in Slot : m # n /\ tagOf[m] = tagOf[n]
  <2> HIDE DEF tagOf
  <2> QED
    BY <1>2, <1>4, FS_PigeonHole
<1>6. m < n \/ n < m
  BY <1>5, SlotFacts
<1> QED
  BY <1>3, <1>4, <1>5, <1>6 DEF Twice, HoldsIn

\* With more slots than tags, the store that a migration was begun for finds room after it
\* (fmc_ee_write, ee_migrate), whatever ee_is_full took for reclaimable, for every size of the banks
\* and however stores, failures and power cuts follow each other.
THEOREM MigrationMakesRoomHolds ==
  ASSUME CoveredFaults, NumTags < EEPROM_COUNT - 1
  PROVE  Spec => []MigrationMakesRoom
<1>1. Init => CopiesOK
  BY BankFacts DEF Init, PowerOn, CopiesOK
<1>2. SInv /\ CopiesOK /\ [Next]_vars => CopiesOK'
  <2>1. SInv /\ CopiesOK /\ UNCHANGED vars => CopiesOK'
    BY DEF CopiesOK, vars
  <2> QED
    BY <2>1, BootCopies, MigrationCopies, StoreCopies DEF Next
<1>3. SInv /\ CopiesOK => MigrationMakesRoom
  <2> SUFFICES ASSUME SInv, CopiesOK, ram.pc = "retry", Full(ram.active) PROVE FALSE
    BY DEF MigrationMakesRoom
  <2>1. ram.active \in Bank /\ frames[ram.active] \in LogType /\ ~Twice(frames[ram.active])
    BY SInvFacts DEF RamOK, SpaceOK
  <2>2. NoBad(frames[ram.active]) /\ FullLog(frames[ram.active])
    BY <2>1, FindOps DEF CopiesOK
  <2> QED
    BY <2>1, <2>2, MoreSlotsThanTags
<1> QED
  BY <1>1, <1>2, <1>3, StoreInvHolds, PTL DEF Spec
=============================================================================
