---------------------------- MODULE MCBoardPower ----------------------------
(***************************************************************************)
(* Small instance: two channels, the second of them 3.3 V.  The voltage    *)
(* that is written is above the limits of the one and below those of the   *)
(* other.  Page 7 does not exist, 255 is all of them.                      *)
(***************************************************************************)
EXTENDS BoardPower

MCLowLimit == [c \in Channels |-> 2 + 3 * c]
MCHighLimit == [c \in Channels |-> 3 + 3 * c]
=============================================================================
