------------------------------ MODULE NvStore ------------------------------
(***************************************************************************)
(* What the non-volatile parameter store promises the rest of the          *)
(* firmware: one value per tag, changed by one store at a time and by      *)
(* nothing else.  Forget is the reformat that eeprom_system_init falls     *)
(* back to when it finds no bank it can trust.                             *)
(***************************************************************************)
CONSTANTS Tag, Val, None   \* None, no value, is not in Val

VARIABLE store

Init == store = [t \in Tag |-> None]

Put(t, v) == store' = [store EXCEPT ![t] = v]

Forget == store' = [t \in Tag |-> None]

Next == Forget \/ \E t \in Tag, v \in Val : Put(t, v)

Spec == Init /\ [][Next]_store
=============================================================================
