------------------------------ MODULE Ltm4673 ------------------------------
(***************************************************************************)
(* The LTM4673 power supply of boards from v1.4, and what the firmware     *)
(* does with it (ltm4673.c, i2c_pm.c): the shadow of its PAGE register     *)
(* that the bus hooks keep, telemetry, channel status, and the PMBridge    *)
(* by which a person at the console writes its registers, within limits    *)
(* that depend on the shadow.  All of it runs in the main loop, one        *)
(* transaction of a person or one update of the telemetry at a time.       *)
(*                                                                         *)
(* A transaction that fails has not reached the device.                    *)
(***************************************************************************)
EXTENDS Integers, FiniteSets

CONSTANTS
  LastChannel,        \* channels, which are pages of the device, are 0 .. LastChannel
  LowLimit, HighLimit, \* of VOUT_COMMAND, for each channel
  Volts,              \* what a person may write to VOUT_COMMAND
  UserPages           \* what a person may write to PAGE

Channels == 0 .. LastChannel
AllPages == 255       \* writes go to every channel
Pages == Channels \cup {AllPages}

ASSUME SupplyConstants ==
  /\ LastChannel \in Nat /\ LastChannel < AllPages
  /\ LowLimit \in [Channels -> Nat] /\ HighLimit \in [Channels -> Nat]
  /\ \A c \in Channels : LowLimit[c] <= HighLimit[c]
  /\ Volts \subseteq Nat
  /\ UserPages \subseteq 0 .. AllPages

VARIABLES
  ltm4673_page,       \* the shadow
  \* the device: PAGE, VOUT_COMMAND of each channel, channels out of regulation, channels
  \* with other bits in STATUS_WORD
  page, vout, off, latched,
  flaky,              \* transactions may fail
  \* history: the shadow has been set from the device since the MMC started; VOUT_COMMAND was
  \* written while it had not, or for all channels
  synced, unlimited

supply == <<page, vout, latched>>
ltmVars == <<ltm4673_page, page, vout, latched, synced, unlimited>>

LtmInit ==
  /\ ltm4673_page = 0
  /\ page = 0 /\ vout = LowLimit /\ latched = {}
  /\ synced = FALSE /\ unlimited = FALSE

\* A page write and its hook, or a failed one.
Select(p) ==
  \/ page' = p /\ ltm4673_page' = p /\ synced' = TRUE
  \/ flaky /\ UNCHANGED <<page, ltm4673_page, synced>>

\* ltm4673_init reads PAGE to start the shadow.
ltm4673_init ==
  /\ \/ ltm4673_page' = page /\ synced' = TRUE
     \/ flaky /\ UNCHANGED <<ltm4673_page, synced>>
  /\ UNCHANGED <<supply, unlimited>>

\* Telemetry selects every page in turn and goes on after failures.
ltm4673_update_telem ==
  /\ \E last \in Channels : (last = LastChannel \/ flaky) /\ Select(last)
  /\ UNCHANGED <<vout, latched, unlimited>>

\* The status that is read with page p selected; with all of them, that of any.
StatusRead(p) ==
  {c \notin off \cup latched : c \in IF p \in Channels THEN {p} ELSE Channels}

\* ltm4673_ch_status selects pages and reads their status until it can read one, and answers for
\* that one; if it can read none the answer is good.
ltm4673_ch_status(good) ==
  /\ \E c \in Channels :
       /\ c = 0 \/ flaky
       /\ \E last \in 0 .. c : (last = c \/ flaky) /\ Select(last)
       /\ \/ good \in StatusRead(page')
          \/ flaky /\ c = LastChannel /\ good = TRUE
  /\ UNCHANGED <<vout, latched, unlimited>>

(***************************************************************************)
(* PMBridge_xact, for the transactions that matter here.                   *)
(***************************************************************************)
SlipLimits(v) ==   \* slip: only the upper limit is applied
  IF ltm4673_page \notin Channels THEN v
  ELSE IF v > HighLimit[ltm4673_page] THEN HighLimit[ltm4673_page] ELSE v

\* VOUT_COMMAND has limits on each channel's page, and none on the page for all.
ltm4673_apply_limits(v) ==
  IF ltm4673_page \notin Channels THEN v
  ELSE IF v < LowLimit[ltm4673_page] THEN LowLimit[ltm4673_page]
  ELSE IF v > HighLimit[ltm4673_page] THEN HighLimit[ltm4673_page] ELSE v

SlipWritePage(p) ==   \* slip: the hook takes page numbers that the device refuses
  /\ IF p \in Pages THEN Select(p) /\ UNCHANGED latched
     ELSE ltm4673_page' = p /\ latched' = Channels /\ UNCHANGED <<page, synced>>
  /\ UNCHANGED <<vout, unlimited>>

\* The device refuses other page numbers, and says so in its status; so does the hook.
WritePage(p) ==
  /\ IF p \in Pages THEN Select(p) /\ UNCHANGED latched
     ELSE latched' = Channels /\ UNCHANGED <<page, ltm4673_page, synced>>
  /\ UNCHANGED <<vout, unlimited>>

ReadPage ==
  /\ ltm4673_page' = page /\ synced' = TRUE
  /\ UNCHANGED <<supply, unlimited>>

WriteVout(v) ==
  /\ vout' = [c \in Channels |->
                IF page \in {c, AllPages} THEN ltm4673_apply_limits(v) ELSE vout[c]]
  /\ unlimited' = (unlimited \/ ~synced \/ page = AllPages)
  /\ UNCHANGED <<ltm4673_page, page, latched, synced>>

ClearFaults ==
  /\ latched' = IF page = AllPages THEN {} ELSE latched \ {page}
  /\ UNCHANGED <<ltm4673_page, page, vout, synced, unlimited>>

PMBridge_xact ==
  \/ \E p \in UserPages : WritePage(p)
  \/ ReadPage
  \/ \E v \in Volts : WriteVout(v)
  \/ ClearFaults

-----------------------------------------------------------------------------
LtmTypeOK ==
  /\ ltm4673_page \in Pages /\ page \in Pages
  /\ vout \in [Channels -> Nat]
  /\ off \subseteq Channels /\ latched \subseteq Channels
  /\ flaky \in BOOLEAN /\ synced \in BOOLEAN /\ unlimited \in BOOLEAN

\* Once it has been set, the shadow is the page the device has selected, through page writes of
\* telemetry, of the status check and of a person, refused and failed ones included.
ShadowAgrees == synced => ltm4673_page = page

\* Whatever page telemetry or the status check left selected under a person who writes
\* VOUT_COMMAND, the channel that is set gets a value within its own limits; only the page for
\* all channels and a shadow that was never read from the device get around them.
VoutWithin ==
  unlimited \/ \A c \in Channels : vout[c] \in LowLimit[c] .. HighLimit[c]
=============================================================================
