----------------------------- MODULE BoardPower -----------------------------
(***************************************************************************)
(* How the board follows its power supply (marble_board.c): the filter of  *)
(* the PWRGD pin and the re-initialisation after a return of power, the    *)
(* check of the supply before the clock crosspoint is set up, the          *)
(* over-temperature path of boards up to v1.3, and with them the           *)
(* telemetry and the PMBridge of the LTM4673.                              *)
(*                                                                         *)
(* board_init takes most of a second: power may go at each of its steps.   *)
(***************************************************************************)
EXTENDS Ltm4673

CONSTANTS
  PWR_GOOD,      \* length of the filter
  Rail33         \* the channel that supplies the clock crosspoint with 3.3 V

ASSUME PowerConstants ==
  /\ PWR_GOOD \in Nat \ {0}
  /\ Rail33 \in Channels

VARIABLES
  rev,           \* the board: "old" up to v1.3, with an XRP7724, "new" from v1.4
  \* where the main loop is, and what board_init was called by
  pc, caller,
  over_temp, pwr_state, pwr_good, do_reboot,
  rebootDue,     \* XRP_REBOOT_DELAY has passed since _reboot_time
  hot,           \* the OVER_TEMP pin
  clocks,        \* the crosspoint has been set up since it has power
  missed         \* history: writes of its last set-up were lost, though it had power

mmc == <<pc, caller, over_temp, pwr_state, pwr_good, do_reboot, rebootDue>>
env == <<rev, off, flaky, hot>>
crosspoint == <<clocks, missed>>
vars == <<ltmVars, mmc, env, crosspoint>>

MmcInit ==
  /\ pc = "pmInit" /\ caller = "boot"
  /\ over_temp = FALSE /\ pwr_state = PWR_GOOD /\ pwr_good = TRUE
  /\ do_reboot = FALSE /\ rebootDue = FALSE

Init ==
  /\ LtmInit /\ MmcInit
  /\ rev \in {"old", "new"}
  /\ off \in {{}, Channels, {Rail33}} /\ flaky = FALSE /\ hot = FALSE
  /\ clocks = FALSE /\ missed = FALSE

PWRGD == off = {}

(***************************************************************************)
(* board_init and the reset of the FPGA after it.                          *)
(***************************************************************************)
I2C_PM_init ==
  /\ pc = "pmInit" /\ pc' = "check"
  /\ IF rev = "new" THEN ltm4673_init ELSE UNCHANGED ltmVars
  /\ UNCHANGED <<env, crosspoint, caller, over_temp, pwr_state, pwr_good, do_reboot, rebootDue>>

\* xrp_ch_status of the 3.3 V channel; a status that cannot be read is not good.
xrp_ch_status(good) == good = (Rail33 \notin off) \/ (flaky /\ ~good)

SlipCheck ==   \* slip: a failed check leaves the filter alone
  /\ pc = "check"
  /\ \E good \in BOOLEAN :
       /\ IF rev = "old" THEN xrp_ch_status(good) /\ UNCHANGED ltmVars ELSE ltm4673_ch_status(good)
       /\ IF good THEN pc' = "xpoint" /\ UNCHANGED pwr_good
          ELSE pc' = "reset" /\ pwr_good' = FALSE
  /\ UNCHANGED <<env, crosspoint, caller, pwr_state, over_temp, do_reboot, rebootDue>>

\* mgtclk_xpoint_en, up to the set-up of the crosspoint.
Check ==
  /\ pc = "check"
  /\ \E good \in BOOLEAN :
       /\ IF rev = "old" THEN xrp_ch_status(good) /\ UNCHANGED ltmVars ELSE ltm4673_ch_status(good)
       /\ IF good THEN pc' = "xpoint" /\ UNCHANGED <<pwr_good, pwr_state>>
          ELSE pc' = "reset" /\ pwr_good' = FALSE /\ pwr_state' = PWR_GOOD - 1
  /\ UNCHANGED <<env, crosspoint, caller, over_temp, do_reboot, rebootDue>>

\* adn4600_init, LM75_Init and system_off_chip_init: lost on chips without power.  adn4600_init looks
\* at no result of its writes to the FPGA's bus: when all are lost the crosspoint stays as it is,
\* when some are, it is left reset or set up by half, and board_init goes on as if all was well.
Xpoint ==
  /\ pc = "xpoint" /\ pc' = "reset"
  /\ IF Rail33 \in off THEN clocks' = FALSE /\ missed' = FALSE
     ELSE \/ clocks' = TRUE /\ missed' = FALSE
          \/ clocks' \in {clocks, FALSE} /\ missed' = TRUE
  /\ UNCHANGED <<env, ltmVars, caller, over_temp, pwr_state, pwr_good, do_reboot, rebootDue>>

SlipReset ==   \* slip: the pending reboot is not taken back
  /\ pc = "reset" /\ pc' = "service"
  /\ IF caller = "reboot" THEN pwr_good' = TRUE ELSE UNCHANGED pwr_good
  /\ UNCHANGED <<env, ltmVars, crosspoint, caller, over_temp, pwr_state, rebootDue, do_reboot>>

\* FPGAWD_SelfReset; on the way back from a reboot the board is good whatever the check said.
Reset ==
  /\ pc = "reset" /\ pc' = "service"
  /\ IF caller = "reboot" THEN pwr_good' = TRUE /\ do_reboot' = FALSE
     ELSE UNCHANGED <<pwr_good, do_reboot>>
  /\ UNCHANGED <<env, ltmVars, crosspoint, caller, over_temp, pwr_state, rebootDue>>

(***************************************************************************)
(* The main loop: commands and telemetry, then board_service.              *)
(***************************************************************************)
system_service ==
  /\ pc = "service" /\ rev = "new"
  /\ ltm4673_update_telem \/ PMBridge_xact
  /\ UNCHANGED <<mmc, env, crosspoint>>

board_init(by) == pc' = "pmInit" /\ caller' = by

\* Boards up to v1.3: re-initialise some time after the end of an over-temperature.
RebootAfterDelay(cleared) ==
  /\ do_reboot' = (do_reboot \/ cleared)
  /\ rebootDue' = (rebootDue /\ ~cleared)
  /\ IF do_reboot /\ rebootDue' THEN board_init("reboot") ELSE UNCHANGED <<pc, caller>>
  /\ UNCHANGED <<pwr_state, pwr_good>>

SlipPowerUp ==   \* slip: power is good as soon as the pin says so once
  IF pwr_state = PWR_GOOD THEN UNCHANGED <<pwr_state, pwr_good, pc, caller>>
  ELSE /\ pwr_state' = PWR_GOOD
       /\ pwr_good' = TRUE
       /\ UNCHANGED <<pc, caller>>

PowerUp ==
  IF pwr_state = PWR_GOOD THEN UNCHANGED <<pwr_state, pwr_good, pc, caller>>
  ELSE /\ pwr_state' = pwr_state + 1
       /\ IF pwr_state' = PWR_GOOD /\ ~pwr_good
          THEN pwr_good' = TRUE /\ board_init("powerGood")
          ELSE UNCHANGED <<pwr_good, pc, caller>>

SlipPowerDown ==   \* slip: the counter has no lower end
  /\ pwr_state' = pwr_state - 1
  /\ pwr_good' = (pwr_good /\ ~(pwr_state = 1))
  /\ UNCHANGED <<pc, caller>>

PowerDown ==
  /\ pwr_state' = IF pwr_state = 0 THEN 0 ELSE pwr_state - 1
  /\ pwr_good' = (pwr_good /\ ~(pwr_state = 1))
  /\ UNCHANGED <<pc, caller>>

FilterPWRGD(cleared) ==
  /\ do_reboot' = (do_reboot \/ cleared)
  /\ UNCHANGED rebootDue
  /\ IF PWRGD THEN PowerUp ELSE PowerDown

board_service ==
  /\ pc = "service"
  /\ over_temp' = hot
  /\ LET cleared == over_temp /\ ~hot
     IN  IF rev = "old" THEN RebootAfterDelay(cleared) ELSE FilterPWRGD(cleared)
  /\ UNCHANGED <<env, ltmVars, crosspoint>>

(***************************************************************************)
(* The surroundings.                                                       *)
(***************************************************************************)
\* A channel fails; its status may keep a trace of it.  The crosspoint forgets without power.
ChannelFails(c) ==
  /\ c \notin off /\ off' = off \cup {c}
  /\ latched' \in {latched, latched \cup {c}}
  /\ clocks' = (clocks /\ c # Rail33) /\ missed' = (missed /\ c # Rail33)
  /\ UNCHANGED <<mmc, rev, flaky, hot, ltm4673_page, page, vout, synced, unlimited>>

\* An outage lasts longer than the filter of the PWRGD pin: power comes back only to a board that
\* has noticed (or does not look).
ChannelReturns(c) ==
  /\ c \in off /\ (~pwr_good \/ rev = "old")
  /\ off' = off \ {c}
  /\ UNCHANGED <<mmc, rev, flaky, hot, ltmVars, crosspoint>>

BusChanges == flaky' = ~flaky /\ UNCHANGED <<mmc, rev, off, hot, ltmVars, crosspoint>>

TemperatureChanges == hot' = ~hot /\ UNCHANGED <<mmc, rev, off, flaky, ltmVars, crosspoint>>

DelayPasses ==
  /\ do_reboot /\ ~rebootDue /\ rev = "old"
  /\ rebootDue' = TRUE
  /\ UNCHANGED <<pc, caller, over_temp, pwr_state, pwr_good, do_reboot, env, ltmVars, crosspoint>>

\* The MMC restarts; the supply and the crosspoint stay as they are.
MmcRestarts ==
  /\ pc' = "pmInit" /\ caller' = "boot"
  /\ over_temp' = FALSE /\ pwr_state' = PWR_GOOD /\ pwr_good' = TRUE
  /\ do_reboot' = FALSE /\ rebootDue' = FALSE
  /\ ltm4673_page' = 0 /\ synced' = FALSE
  /\ UNCHANGED <<env, supply, unlimited, crosspoint>>

Environment ==
  \/ \E c \in Channels : ChannelFails(c) \/ ChannelReturns(c)
  \/ BusChanges \/ TemperatureChanges \/ MmcRestarts

MainLoop == I2C_PM_init \/ Check \/ Xpoint \/ Reset \/ board_service

Next == MainLoop \/ system_service \/ DelayPasses \/ Environment

Spec == Init /\ [][Next]_vars
FairSpec == Spec /\ WF_vars(MainLoop) /\ WF_vars(DelayPasses)

-----------------------------------------------------------------------------
TypeOK ==
  /\ LtmTypeOK
  /\ rev \in {"old", "new"}
  /\ pc \in {"pmInit", "check", "xpoint", "reset", "service"}
  /\ caller \in {"boot", "powerGood", "reboot"}
  /\ pwr_state \in 0 .. PWR_GOOD
  /\ over_temp \in BOOLEAN /\ pwr_good \in BOOLEAN /\ do_reboot \in BOOLEAN
  /\ rebootDue \in BOOLEAN /\ hot \in BOOLEAN
  /\ clocks \in BOOLEAN /\ missed \in BOOLEAN

\* On boards from v1.4, while power is reported good and is good, the clock crosspoint is set up,
\* or its set-up was tried under power and writes to it were lost: no outage, no failed check and no
\* restart during board_init leaves it without a set-up unnoticed.
GoodIsSetUp ==
  rev = "new" /\ pc = "service" /\ pwr_good /\ PWRGD => clocks \/ missed

\* When the supply is good for good and its bus works, boards from v1.4 end up reported good and
\* with the crosspoint set up, whatever happened before, but for a set-up tried under power whose
\* writes were lost: that one is never tried again.
Recovers ==
  <>[](PWRGD /\ latched = {} /\ ~flaky) /\ []<>(pc = "service") /\ rev = "new"
    => <>[](pwr_good /\ (clocks \/ missed))

\* On boards up to v1.3 the end of an over-temperature leads to a reboot, once, unless the next one
\* begins before it.
RebootsOnce == do_reboot /\ rev = "old" ~> (~do_reboot \/ hot)

\* marble_board.c:1510: the crosspoint is enabled if the 3.3 V rail is on.  Does not hold: the check
\* of the LTM4673 answers for the first channel it can read, and good if it can read none.
RailChecked == [][pc = "check" /\ pc' = "xpoint" => Rail33 \notin off]_vars
=============================================================================
