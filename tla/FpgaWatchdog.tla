---------------------------- MODULE FpgaWatchdog ----------------------------
(***************************************************************************)
(* The FPGA watchdog (watchdog.c), the FPGA reset and DONE processing of   *)
(* system.c, and the mailbox update that drives them (mailbox.c).          *)
(*                                                                         *)
(* The main loop walks through system_service and board_service one access *)
(* to shared state at a time; the DONE interrupt and the system timer      *)
(* interrupt run between any two of its steps.  Around them are the FPGA,  *)
(* its power rails, and the remote host that answers nonces and may reboot *)
(* the FPGA into a user image.                                             *)
(***************************************************************************)
EXTENDS Integers

CONSTANTS
  MAX_WATCHDOG_TIMEOUT_PERIODS,
  MAILBOX_UPDATE_PERIOD_SECONDS,
  DefaultPolls,   \* max_poll_counts until a period is set
  Periods,        \* periods typed at the console, in seconds
  EepromReads,    \* what a boot may find: are the stored parameters readable
  Horizon         \* bound on the two history counters

ASSUME WatchdogConstants ==
  /\ MAX_WATCHDOG_TIMEOUT_PERIODS \in Nat \ {0}
  /\ MAILBOX_UPDATE_PERIOD_SECONDS \in Nat \ {0}
  /\ DefaultPolls \in Nat
  /\ Periods \subseteq Nat
  /\ EepromReads \subseteq BOOLEAN /\ EepromReads # {}
  /\ Horizon \in Nat

VARIABLES
  \* watchdog.c
  fpga_state, poll_counter, max_poll_counts,
  \* system.c; the two tick comparisons are kept as "the delay has passed"
  spi_update, fpga_net_prog_pend, pushDue, fpga_reset, fpga_reset_callback, releaseDue,
  \* the rest of the MMC: where the main loop is, the register a decrement goes through,
  \* marble_pwr_good, the mailbox switch, and the parameters in non-volatile memory
  pc, reg, pwr_good, mbox_is_enabled, eeprom,
  \* the FPGA: rails, PROG_B, configuration, image, whether it has its MAC and IP, and
  \* which nonce its mailbox shows and holds an answer for
  rails, prog_b, config, image, addressed, shown, answer,
  \* history: mailbox periods and polls since the last reload of the counter, and whether
  \* that reload hit a decrement under way
  periods, polls, hit

wd == <<fpga_state, poll_counter, max_poll_counts>>
sys == <<spi_update, fpga_net_prog_pend, pushDue, fpga_reset, fpga_reset_callback, releaseDue>>
loop == <<pc, reg>>
params == <<mbox_is_enabled, eeprom>>
fpga == <<rails, prog_b, config, image, addressed, shown, answer>>
history == <<periods, polls, hit>>
vars == <<wd, sys, loop, pwr_good, params, fpga, history>>

Least(a, b) == IF a < b THEN a ELSE b

Init ==
  /\ fpga_state = "BOOT" /\ poll_counter = 0 /\ max_poll_counts = DefaultPolls
  /\ spi_update = FALSE /\ fpga_net_prog_pend = FALSE /\ pushDue = FALSE
  /\ fpga_reset = FALSE /\ fpga_reset_callback = FALSE /\ releaseDue = FALSE
  /\ pc = "boot" /\ reg = 0 /\ pwr_good = TRUE /\ mbox_is_enabled = TRUE
  /\ \E ok \in EepromReads : eeprom = [ok |-> ok, wd_period |-> 0, mbox_en |-> TRUE]
  /\ rails = TRUE /\ prog_b = "high" /\ config = "loading" /\ image = "golden"
  /\ addressed = FALSE /\ shown = "none" /\ answer = "none"
  /\ periods = 0 /\ polls = 0 /\ hit = FALSE

(***************************************************************************)
(* The nonce.  What the FPGA's mailbox shows, and what the host's answer   *)
(* was computed from, is the current local_nonce or a stale one.           *)
(***************************************************************************)
NewNonce(n) == IF n = "current" THEN "stale" ELSE n

\* pet_wdog: reload the counter and draw a new nonce.
SlipPet ==   \* slip: the nonce is renewed, the counter is not reloaded
  /\ UNCHANGED poll_counter
  /\ shown' = NewNonce(shown) /\ answer' = NewNonce(answer)
  /\ periods' = 0 /\ polls' = 0

pet_wdog ==
  /\ poll_counter' = max_poll_counts
  /\ shown' = NewNonce(shown) /\ answer' = NewNonce(answer)
  /\ periods' = 0 /\ polls' = 0

\* The FPGA stops running its image, and what its registers held is gone.
Stops(next) ==
  /\ config' = next
  /\ addressed' = FALSE /\ shown' = "none" /\ answer' = "none"

(***************************************************************************)
(* Interrupts.  The handler of a rising DONE preempts the main loop, so it *)
(* is one step with the edge.                                              *)
(***************************************************************************)
HandlerRegistered == pc # "boot"

\* FPGAWD_DoneHandler.
SlipDoneHandler ==   \* slip: the second DONE edge is not taken for the user image
  \/ /\ fpga_state \in {"BOOT", "GOLDEN"} /\ fpga_state' = "GOLDEN"
     /\ UNCHANGED <<poll_counter, shown, answer, history>>
  \/ /\ fpga_state = "USER" /\ fpga_state' = "USER"
     /\ pet_wdog
     /\ hit' = (pc \in {"pollStore", "pollState"})

FPGAWD_DoneHandler ==
  /\ fpga_state' = CASE fpga_state = "BOOT"              -> "GOLDEN"
                     [] fpga_state \in {"GOLDEN", "USER"} -> "USER"
                     [] fpga_state = "RESET"             -> "RESET"
  /\ IF fpga_state \in {"GOLDEN", "USER"}
     THEN pet_wdog /\ hit' = (pc \in {"pollStore", "pollState"})
     ELSE UNCHANGED <<poll_counter, shown, answer, history>>

\* fpga_done_handler, on the edge that ends a configuration; that takes longer than the
\* code between enable_fpga and the end of fpga_reset_callback.
ConfigDone ==
  /\ config = "loading" /\ pc # "callback"
  /\ config' = "running"
  /\ IF HandlerRegistered /\ pwr_good
     THEN /\ fpga_net_prog_pend' = TRUE /\ pushDue' = FALSE
          /\ FPGAWD_DoneHandler
     ELSE UNCHANGED <<fpga_net_prog_pend, pushDue, fpga_state, poll_counter, shown, answer,
                      history>>
  /\ UNCHANGED <<max_poll_counts, spi_update, fpga_reset, fpga_reset_callback, releaseDue,
                 loop, pwr_good, params, rails, prog_b, image, addressed>>

\* timer_int_handler, on the interrupt that completes a mailbox period.
MailboxTick ==
  /\ spi_update' = (HandlerRegistered \/ spi_update)
  /\ periods' = Least(periods + 1, Horizon)
  /\ UNCHANGED <<wd, fpga_net_prog_pend, pushDue, fpga_reset, fpga_reset_callback, releaseDue,
                 loop, pwr_good, params, fpga, polls, hit>>

\* FPGA_PUSH_DELAY_MS since the last DONE edge, FPGA_RESET_DURATION_MS since disable_fpga.
PushDelayPasses ==
  /\ fpga_net_prog_pend /\ ~pushDue /\ pushDue' = TRUE
  /\ UNCHANGED <<wd, spi_update, fpga_net_prog_pend, fpga_reset, fpga_reset_callback,
                 releaseDue, loop, pwr_good, params, fpga, history>>

ResetHoldPasses ==
  /\ fpga_reset /\ ~releaseDue /\ releaseDue' = TRUE
  /\ UNCHANGED <<wd, spi_update, fpga_net_prog_pend, pushDue, fpga_reset, fpga_reset_callback,
                 loop, pwr_good, params, fpga, history>>

(***************************************************************************)
(* FPGAWD_SelfReset: disable_fpga, schedule the release, enter RESET.  No  *)
(* DONE edge can come once PROG_B is low, so it is one step.               *)
(***************************************************************************)
FPGAWD_SelfReset ==
  /\ fpga_reset_callback' = TRUE /\ fpga_reset' = TRUE /\ releaseDue' = FALSE
  /\ fpga_state' = "RESET"
  /\ prog_b' = "low" /\ Stops("blank")
  /\ UNCHANGED <<poll_counter, max_poll_counts, spi_update, fpga_net_prog_pend, pushDue,
                 pwr_good, params, rails, image, history>>

\* FPGAWD_SetPeriod.
MaxPolls(period) ==
  LET p == Least(period, MAX_WATCHDOG_TIMEOUT_PERIODS)
      n == (p \div MAILBOX_UPDATE_PERIOD_SECONDS) - 1
  IN  IF n > 0 THEN n ELSE 0

FPGAWD_SetPeriod(period) ==
  /\ max_poll_counts' = MaxPolls(period) /\ poll_counter' = MaxPolls(period)
  /\ periods' = 0 /\ polls' = 0 /\ hit' = FALSE
  /\ UNCHANGED fpga_state

FPGAWD_GetPeriod ==
  IF max_poll_counts = 0 THEN 0 ELSE (max_poll_counts + 1) * MAILBOX_UPDATE_PERIOD_SECONDS

(***************************************************************************)
(* Boot: system_init applies the stored parameters and registers the       *)
(* handlers; after the board is initialised main resets the FPGA.          *)
(***************************************************************************)
ApplyParams ==
  /\ pc = "boot"
  /\ IF eeprom.ok
     THEN FPGAWD_SetPeriod(eeprom.wd_period) /\ mbox_is_enabled' = eeprom.mbox_en
     ELSE UNCHANGED <<wd, history, mbox_is_enabled>>
  /\ pc' = "bootReset"
  /\ UNCHANGED <<sys, reg, pwr_good, eeprom, fpga>>

BootReset ==
  /\ pc = "bootReset"
  /\ FPGAWD_SelfReset
  /\ pc' = "service" /\ UNCHANGED reg

(***************************************************************************)
(* system_service: mbox_update when the timer asks for it.                 *)
(***************************************************************************)
Service ==
  /\ pc = "service"
  /\ pc' = IF ~spi_update THEN "pend" ELSE IF mbox_is_enabled THEN "poll" ELSE "clear"
  /\ UNCHANGED <<wd, sys, reg, pwr_good, params, fpga, history>>

SlipPoll ==   \* slip: no test for a counter that is already zero
  /\ pc = "poll"
  /\ reg' = poll_counter - 1 /\ pc' = "pollStore"
  /\ polls' = Least(polls + 1, Horizon)
  /\ UNCHANGED <<wd, sys, pwr_good, params, fpga, periods, hit>>

\* FPGAWD_Poll: the decrement loads the counter, stores it, then looks at fpga_state.
Poll ==
  /\ pc = "poll"
  /\ IF poll_counter = 0 THEN pc' = "hash" /\ UNCHANGED <<reg, polls>>
     ELSE /\ reg' = poll_counter - 1 /\ pc' = "pollStore"
          /\ polls' = Least(polls + 1, Horizon)
  /\ UNCHANGED <<wd, sys, pwr_good, params, fpga, periods, hit>>

PollStore ==
  /\ pc = "pollStore"
  /\ poll_counter' = reg
  /\ pc' = IF reg = 0 THEN "pollState" ELSE "hash"
  /\ UNCHANGED <<fpga_state, max_poll_counts, sys, reg, pwr_good, params, fpga, history>>

PollState ==
  /\ pc = "pollState"
  /\ pc' = "hash" /\ UNCHANGED reg
  /\ \/ fpga_state = "USER" /\ FPGAWD_SelfReset
     \/ fpga_state # "USER" /\ UNCHANGED <<wd, sys, pwr_good, params, fpga, history>>

\* mailbox_update_input: FPGAWD_HandleHash reads the answer and vets it.  vet_hash says
\* yes (-1) when the key cannot be read, no to a MAC of all zeros.
SlipVetted == answer \in {"current", "stale"}   \* slip: the MAC of any nonce is accepted

Vetted == ~eeprom.ok \/ (config = "running" /\ answer = "current")

HandleHash ==
  /\ pc = "hash"
  /\ pc' = IF Vetted THEN "pet" ELSE "output"
  /\ UNCHANGED <<wd, sys, reg, pwr_good, params, fpga, history>>

Pet ==
  /\ pc = "pet" /\ pc' = "output"
  /\ pet_wdog
  /\ hit' = FALSE
  /\ UNCHANGED <<fpga_state, max_poll_counts, sys, reg, pwr_good, params, rails, prog_b, config,
                 image, addressed>>

\* mailbox_update_output: the nonce is shown to the host, if an FPGA is there to hold it.
Output ==
  /\ pc = "output" /\ pc' = "clear"
  /\ shown' = IF config = "running" THEN "current" ELSE shown
  /\ UNCHANGED <<wd, sys, reg, pwr_good, params, rails, prog_b, config, image, addressed,
                 answer, history>>

ClearUpdate ==
  /\ pc = "clear" /\ pc' = "pend"
  /\ spi_update' = FALSE
  /\ UNCHANGED <<wd, fpga_net_prog_pend, pushDue, fpga_reset, fpga_reset_callback, releaseDue,
                 reg, pwr_good, params, fpga, history>>

(***************************************************************************)
(* system_service: push MAC and IP some time after DONE, then forget it;   *)
(* release PROG_B some time after a reset.                                 *)
(***************************************************************************)
Pend ==
  /\ pc = "pend"
  /\ pc' = IF fpga_net_prog_pend /\ pushDue THEN "push" ELSE "release"
  /\ UNCHANGED <<wd, sys, reg, pwr_good, params, fpga, history>>

PushMacIp ==
  /\ pc = "push" /\ pc' = "pushed"
  /\ addressed' = (addressed \/ (config = "running" /\ eeprom.ok))
  /\ UNCHANGED <<wd, sys, reg, pwr_good, params, rails, prog_b, config, image, shown, answer,
                 history>>

ClearPend ==
  /\ pc = "pushed" /\ pc' = "release"
  /\ fpga_net_prog_pend' = FALSE
  /\ UNCHANGED <<wd, spi_update, pushDue, fpga_reset, fpga_reset_callback, releaseDue, reg,
                 pwr_good, params, fpga, history>>

EnableFpga ==
  /\ pc = "release"
  /\ IF fpga_reset /\ releaseDue
     THEN /\ pc' = "callback" /\ prog_b' = "high"
          /\ config' = IF rails THEN "loading" ELSE "blank"
          /\ image' = "golden"
     ELSE pc' = "console" /\ UNCHANGED <<prog_b, config, image>>
  /\ UNCHANGED <<wd, sys, reg, pwr_good, params, rails, addressed, shown, answer, history>>

SlipCallback ==   \* slip: the reset is over but the watchdog is not told
  /\ pc = "callback" /\ pc' = "console"
  /\ fpga_reset' = FALSE
  /\ UNCHANGED <<wd, spi_update, fpga_net_prog_pend, pushDue, fpga_reset_callback, releaseDue,
                 reg, pwr_good, params, fpga, history>>

\* fpga_reset_callback of watchdog.c, then fpga_reset = 0.
Callback ==
  /\ pc = "callback" /\ pc' = "console"
  /\ fpga_state' = "BOOT" /\ poll_counter' = 0
  /\ fpga_reset_callback' = FALSE /\ fpga_reset' = FALSE
  /\ UNCHANGED <<max_poll_counts, spi_update, fpga_net_prog_pend, pushDue, releaseDue, reg,
                 pwr_good, params, fpga, history>>

(***************************************************************************)
(* console_service: nothing, or one of the commands that matter here.      *)
(***************************************************************************)
ConsoleIdle ==
  /\ pc = "console" /\ pc' = "board"
  /\ UNCHANGED <<wd, sys, reg, pwr_good, params, fpga, history>>

\* "u": set the period, and store what FPGAWD_SetPeriod pegged it to.
ConsolePeriod(period) ==
  /\ pc = "console" /\ pc' = "board"
  /\ FPGAWD_SetPeriod(period)
  /\ eeprom' = IF eeprom.ok
               THEN [eeprom EXCEPT !.wd_period = Least(period, MAX_WATCHDOG_TIMEOUT_PERIODS)]
               ELSE eeprom
  /\ UNCHANGED <<sys, reg, pwr_good, mbox_is_enabled, fpga>>

\* "r": mbox_enable and mbox_disable.
ConsoleMailbox(enable) ==
  /\ pc = "console" /\ pc' = "board"
  /\ mbox_is_enabled' = enable
  /\ eeprom' = IF eeprom.ok THEN [eeprom EXCEPT !.mbox_en = enable] ELSE eeprom
  /\ UNCHANGED <<wd, sys, reg, pwr_good, fpga, history>>

\* "6": push MAC and IP (and "m" and "n" in builds that push what they store).
ConsolePush ==
  /\ pc = "console" /\ pc' = "board"
  /\ addressed' = (addressed \/ (config = "running" /\ eeprom.ok))
  /\ UNCHANGED <<wd, sys, reg, pwr_good, params, rails, prog_b, config, image, shown, answer,
                 history>>

\* "5": reset the FPGA.
ConsoleReset ==
  /\ pc = "console" /\ pc' = "board" /\ UNCHANGED reg
  /\ FPGAWD_SelfReset

(***************************************************************************)
(* board_service: the filtered PWRGD pin.  How long the filter waits is    *)
(* left open, so a step may also leave pwr_good behind the rails.          *)
(***************************************************************************)
BoardIdle ==
  /\ pc = "board" /\ pc' = "service"
  /\ UNCHANGED <<wd, sys, reg, pwr_good, params, fpga, history>>

PowerLost ==
  /\ pc = "board" /\ ~rails /\ pwr_good
  /\ pwr_good' = FALSE /\ pc' = "service"
  /\ UNCHANGED <<wd, sys, reg, params, fpga, history>>

PowerGood ==
  /\ pc = "board" /\ rails /\ ~pwr_good
  /\ pwr_good' = TRUE /\ pc' = "boardInit"
  /\ UNCHANGED <<wd, sys, reg, params, fpga, history>>

\* board_init, here and at boot, may find a rail bad and withdraw pwr_good; the reset follows
\* anyway.
BoardInitFails ==
  /\ pc \in {"boardInit", "bootReset"} /\ pwr_good
  /\ pc' = IF pc = "boardInit" THEN "boardReset" ELSE "bootReset"
  /\ pwr_good' = FALSE
  /\ UNCHANGED <<wd, sys, reg, params, fpga, history>>

BoardReset ==
  /\ pc \in {"boardInit", "boardReset"} /\ pc' = "service" /\ UNCHANGED reg
  /\ FPGAWD_SelfReset

(***************************************************************************)
(* Surroundings: the host, the rails, and a reset of the MMC itself.       *)
(***************************************************************************)
\* The host answers the nonce it is shown.
HostAnswers ==
  /\ config = "running" /\ shown # "none" /\ answer' = shown
  /\ UNCHANGED <<wd, sys, loop, pwr_good, params, rails, prog_b, config, image, addressed,
                 shown, history>>

\* The host makes the running FPGA load a user image.
HostReboots ==
  /\ config = "running" /\ Stops("loading") /\ image' = "user"
  /\ UNCHANGED <<wd, sys, loop, pwr_good, params, rails, prog_b, history>>

RailsDrop ==
  /\ rails /\ rails' = FALSE /\ Stops("blank")
  /\ UNCHANGED <<wd, sys, loop, pwr_good, params, prog_b, image, history>>

RailsRise ==
  /\ ~rails /\ rails' = TRUE /\ image' = "golden"
  /\ config' = IF prog_b = "high" THEN "loading" ELSE "blank"
  /\ UNCHANGED <<wd, sys, loop, pwr_good, params, prog_b, addressed, shown, answer, history>>

\* RAM is lost; PROG_B floats high; what the next boot can read of the EEPROM is open.
MmcReset ==
  /\ fpga_state' = "BOOT" /\ poll_counter' = 0 /\ max_poll_counts' = DefaultPolls
  /\ spi_update' = FALSE /\ fpga_net_prog_pend' = FALSE /\ pushDue' = FALSE
  /\ fpga_reset' = FALSE /\ fpga_reset_callback' = FALSE /\ releaseDue' = FALSE
  /\ pc' = "boot" /\ reg' = 0 /\ pwr_good' = TRUE /\ mbox_is_enabled' = TRUE
  /\ \E ok \in EepromReads : eeprom' = [eeprom EXCEPT !.ok = ok]
  /\ prog_b' = "high"
  /\ config' = IF rails /\ prog_b = "low" THEN "loading" ELSE config
  /\ image' = IF prog_b = "low" THEN "golden" ELSE image
  /\ shown' = NewNonce(shown) /\ answer' = NewNonce(answer)
  /\ periods' = 0 /\ polls' = 0 /\ hit' = FALSE
  /\ UNCHANGED <<rails, addressed>>

MainLoop ==
  \/ ApplyParams \/ BootReset
  \/ Service \/ Poll \/ PollStore \/ PollState \/ HandleHash \/ Pet \/ Output \/ ClearUpdate
  \/ Pend \/ PushMacIp \/ ClearPend \/ EnableFpga \/ Callback
  \/ ConsoleIdle \/ ConsolePush \/ ConsoleReset
  \/ \E p \in Periods : ConsolePeriod(p)
  \/ \E e \in BOOLEAN : ConsoleMailbox(e)
  \/ BoardIdle \/ PowerLost \/ PowerGood \/ BoardInitFails \/ BoardReset

Next ==
  \/ MainLoop
  \/ ConfigDone \/ MailboxTick \/ PushDelayPasses \/ ResetHoldPasses
  \/ HostAnswers \/ HostReboots \/ RailsDrop \/ RailsRise \/ MmcReset

Fairness ==
  /\ WF_vars(MainLoop)
  /\ WF_vars(MailboxTick) /\ WF_vars(PushDelayPasses) /\ WF_vars(ResetHoldPasses)
  /\ WF_vars(ConfigDone)

Spec == Init /\ [][Next]_vars
FairSpec == Spec /\ Fairness

-----------------------------------------------------------------------------
States == {"BOOT", "GOLDEN", "USER", "RESET"}
Places == {"boot", "bootReset", "service", "poll", "pollStore", "pollState", "hash", "pet",
           "output", "clear", "pend", "push", "pushed", "release", "callback", "console",
           "board", "boardInit", "boardReset"}

CountersOK ==
  /\ poll_counter \in Nat /\ max_poll_counts \in Nat /\ reg \in Nat
  /\ periods \in 0 .. Horizon /\ polls \in 0 .. Horizon

ParamsOK ==
  eeprom \in [ok : BOOLEAN, wd_period : 0 .. MAX_WATCHDOG_TIMEOUT_PERIODS, mbox_en : BOOLEAN]

FlagsOK ==
  /\ spi_update \in BOOLEAN /\ fpga_net_prog_pend \in BOOLEAN /\ pushDue \in BOOLEAN
  /\ fpga_reset \in BOOLEAN /\ fpga_reset_callback \in BOOLEAN /\ releaseDue \in BOOLEAN
  /\ pwr_good \in BOOLEAN /\ mbox_is_enabled \in BOOLEAN
  /\ rails \in BOOLEAN /\ addressed \in BOOLEAN /\ hit \in BOOLEAN

PlacesOK ==
  /\ fpga_state \in States /\ pc \in Places
  /\ prog_b \in {"low", "high"} /\ config \in {"blank", "loading", "running"}
  /\ image \in {"golden", "user"}
  /\ shown \in {"none", "current", "stale"} /\ answer \in {"none", "current", "stale"}

TypeOK == CountersOK /\ ParamsOK /\ FlagsOK /\ PlacesOK

\* The FPGA is held in reset only while its release is scheduled, and the watchdog is in
\* RESET exactly from the reset to the callback: neither a second reset before the first is
\* released nor a reset from the console, the board or the watchdog strands one of them.
ResetIsReleased ==
  /\ prog_b = "low" => fpga_reset
  /\ fpga_reset <=> fpga_state = "RESET"
  /\ fpga_reset => fpga_reset_callback

\* A user image that runs is watched: the count of DONE edges has not mistaken it for the
\* golden one, unless the reset that follows a boot or a return of power is still to come.
UserIsWatched ==
  config = "running" /\ image = "user" /\ pwr_good
    => fpga_state = "USER" \/ pc \in {"boot", "bootReset", "boardInit"}

\* No FPGA comes up while the watchdog still believes it held in reset ("This should not
\* happen", FPGAWD_DoneHandler): its edge would not be counted, and a user image loaded next
\* would be taken for the golden one.
DoneNotInReset ==
  [][config = "loading" /\ config' = "running" => fpga_state # "RESET"]_vars

\* watchdog.md:67: a value read from the mailbox resets the watchdog timer if it matches the MAC of
\* the nonce.  Does not hold when the key cannot be read (vet_hash).
OnlyAnswersReload == [][pc = "hash" /\ pc' = "pet" => config = "running" /\ answer = "current"]_vars

\* The watchdog resets the FPGA only after max_poll_counts polls without a reload, unless the
\* last reload came from a DONE edge in the middle of a decrement of FPGAWD_Poll.
Fires == pc = "pollState" /\ fpga_state = "USER" /\ fpga_state' = "RESET"
FullCount == [][Fires => polls >= max_poll_counts \/ hit]_vars

\* With the watchdog and the mailbox on, a user image that nobody answers for does not run
\* for ever: it is reset, or the counter is reloaded again and again.
Unattended ==
  config = "running" /\ image = "user" /\ pwr_good /\ max_poll_counts > 0 /\ mbox_is_enabled
    /\ periods > 0
Recovers == []<>(~Unattended)

\* When the host falls silent for good, a watched user image does not run on for ever, whatever
\* answer it or an image before it left in the mailbox: it is reset, goes down or is no longer
\* watched, unless the period is set or the MMC restarted again and again.
Watched == config = "running" /\ image = "user" /\ pwr_good /\ max_poll_counts > 0 /\ mbox_is_enabled
SilentIsReset ==
  \/ []<>(~Watched)
  \/ []<><<HostAnswers>>_vars
  \/ []<><<\E p \in Periods : ConsolePeriod(p)>>_vars
  \/ []<><<MmcReset>>_vars

\* watchdog.c:65: the watchdog waits for (max_poll_counts + 1) mailbox periods, so no image is reset
\* while the answer to the current nonce waits in the mailbox.  Does not hold: mbox_update counts
\* before it reads the mailbox, and with max_poll_counts = 1 (4 or 5 seconds) even a host that
\* answers every nonce at once comes too late.
AnswerSaves == [][Fires => answer # "current"]_vars

\* doc: the active periods are those from 2 to 510 seconds, to within 2 seconds.
DocumentedPeriod ==
  [][\A p \in Periods : ConsolePeriod(p) /\ p \in 2 .. 510 => FPGAWD_GetPeriod' \in p - 1 .. p]_vars

\* doc: the MAC and IP addresses are sent in response to the DONE interrupt: once the MMC
\* stays up, an FPGA that comes up gets its addresses, or goes down again.
Addressed ==
  <>[](pc # "boot") =>
    (config = "running" /\ pwr_good) ~> (addressed \/ config # "running" \/ ~pwr_good)
=============================================================================
