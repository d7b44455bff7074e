------------------------- MODULE FpgaWatchdogProofs -------------------------
(***************************************************************************)
(* Facts about the watchdog and the FPGA reset for every choice of the     *)
(* periods, of the constants of watchdog.c and of the history bound.       *)
(***************************************************************************)
EXTENDS FpgaWatchdog, TLAPS

LEMMA LeastType == ASSUME NEW a \in Nat, NEW b \in Nat PROVE Least(a, b) \in Nat /\ Least(a, b) <= b
BY DEF Least

LEMMA MaxPollsType == ASSUME NEW p \in Nat PROVE MaxPolls(p) \in Nat
<1> DEFINE n == (Least(p, MAX_WATCHDOG_TIMEOUT_PERIODS) \div MAILBOX_UPDATE_PERIOD_SECONDS) - 1
<1>1. n \in Int
  BY LeastType, WatchdogConstants
<1> HIDE DEF n
<1>2. (IF n > 0 THEN n ELSE 0) \in Nat
  BY <1>1
<1> QED
  BY <1>2 DEF MaxPolls, n

-----------------------------------------------------------------------------
(* Types.  The four parts of TypeOK are taken one by one: the counters are *)
(* arithmetic, the flags and the places first-order.                       *)

LEMMA InitType == Init => TypeOK
<1> SUFFICES ASSUME Init PROVE TypeOK
  OBVIOUS
<1> USE WatchdogConstants
<1>1. CountersOK
  BY DEF Init, CountersOK
<1>2. ParamsOK
  BY DEF Init, ParamsOK
<1>3. FlagsOK
  BY ZenonT(30) DEF Init, FlagsOK
<1>4. PlacesOK
  BY ZenonT(30) DEF Init, PlacesOK, States, Places
<1> QED
  BY <1>1, <1>2, <1>3, <1>4 DEF TypeOK

LEMMA CountersStep == TypeOK /\ [Next]_vars => CountersOK'
<1> SUFFICES ASSUME TypeOK, [Next]_vars PROVE CountersOK'
  OBVIOUS
<1>1. CASE Service
  BY <1>1 DEF Service, CountersOK, TypeOK,
     wd, sys, loop, params, fpga, history
<1>2. CASE Poll
  BY <1>2, WatchdogConstants DEF Poll, Least, CountersOK, TypeOK,
     wd, sys, loop, params, fpga, history
<1>3. CASE PollStore
  BY <1>3 DEF PollStore, CountersOK, TypeOK,
     wd, sys, loop, params, fpga, history
<1>4. CASE HandleHash
  BY <1>4 DEF HandleHash, CountersOK, TypeOK,
     wd, sys, loop, params, fpga, history
<1>5. CASE Pet
  BY <1>5, WatchdogConstants DEF Pet, pet_wdog, NewNonce, CountersOK, TypeOK,
     wd, sys, loop, params, fpga, history
<1>6. CASE Output
  BY <1>6 DEF Output, CountersOK, TypeOK,
     wd, sys, loop, params, fpga, history
<1>7. CASE ClearUpdate
  BY <1>7 DEF ClearUpdate, CountersOK, TypeOK,
     wd, sys, loop, params, fpga, history
<1>8. CASE Pend
  BY <1>8 DEF Pend, CountersOK, TypeOK,
     wd, sys, loop, params, fpga, history
<1>9. CASE PushMacIp
  BY <1>9 DEF PushMacIp, CountersOK, TypeOK,
     wd, sys, loop, params, fpga, history
<1>10. CASE ClearPend
  BY <1>10 DEF ClearPend, CountersOK, TypeOK,
     wd, sys, loop, params, fpga, history
<1>11. CASE EnableFpga
  BY <1>11 DEF EnableFpga, CountersOK, TypeOK,
     wd, sys, loop, params, fpga, history
<1>12. CASE Callback
  BY <1>12 DEF Callback, CountersOK, TypeOK,
     wd, sys, loop, params, fpga, history
<1>13. CASE ConsoleIdle
  BY <1>13 DEF ConsoleIdle, CountersOK, TypeOK,
     wd, sys, loop, params, fpga, history
<1>14. CASE ConsolePush
  BY <1>14 DEF ConsolePush, CountersOK, TypeOK,
     wd, sys, loop, params, fpga, history
<1>15. CASE BoardIdle
  BY <1>15 DEF BoardIdle, CountersOK, TypeOK,
     wd, sys, loop, params, fpga, history
<1>16. CASE PowerLost
  BY <1>16 DEF PowerLost, CountersOK, TypeOK,
     wd, sys, loop, params, fpga, history
<1>17. CASE PowerGood
  BY <1>17 DEF PowerGood, CountersOK, TypeOK,
     wd, sys, loop, params, fpga, history
<1>18. CASE BoardInitFails
  BY <1>18 DEF BoardInitFails, CountersOK, TypeOK,
     wd, sys, loop, params, fpga, history
<1>19. CASE ConfigDone
  BY <1>19, WatchdogConstants DEF ConfigDone, FPGAWD_DoneHandler, pet_wdog, NewNonce, CountersOK, TypeOK,
     wd, sys, loop, params, fpga, history
<1>20. CASE MailboxTick
  BY <1>20, WatchdogConstants DEF MailboxTick, Least, CountersOK, TypeOK,
     wd, sys, loop, params, fpga, history
<1>21. CASE PushDelayPasses
  BY <1>21 DEF PushDelayPasses, CountersOK, TypeOK,
     wd, sys, loop, params, fpga, history
<1>22. CASE ResetHoldPasses
  BY <1>22 DEF ResetHoldPasses, CountersOK, TypeOK,
     wd, sys, loop, params, fpga, history
<1>23. CASE HostAnswers
  BY <1>23 DEF HostAnswers, CountersOK, TypeOK,
     wd, sys, loop, params, fpga, history
<1>24. CASE HostReboots
  BY <1>24 DEF HostReboots, Stops, CountersOK, TypeOK,
     wd, sys, loop, params, fpga, history
<1>25. CASE RailsDrop
  BY <1>25 DEF RailsDrop, Stops, CountersOK, TypeOK,
     wd, sys, loop, params, fpga, history
<1>26. CASE RailsRise
  BY <1>26 DEF RailsRise, CountersOK, TypeOK,
     wd, sys, loop, params, fpga, history
<1>27. CASE MmcReset
  BY <1>27, WatchdogConstants DEF MmcReset, NewNonce, CountersOK, TypeOK,
     wd, sys, loop, params, fpga, history
<1>28. CASE BootReset
  BY <1>28 DEF BootReset, FPGAWD_SelfReset, Stops, CountersOK, TypeOK,
     wd, sys, loop, params, fpga, history
<1>29. CASE ConsoleReset
  BY <1>29 DEF ConsoleReset, FPGAWD_SelfReset, Stops, CountersOK, TypeOK,
     wd, sys, loop, params, fpga, history
<1>30. CASE BoardReset
  BY <1>30 DEF BoardReset, FPGAWD_SelfReset, Stops, CountersOK, TypeOK,
     wd, sys, loop, params, fpga, history
<1>31. CASE PollState
  BY <1>31 DEF PollState, FPGAWD_SelfReset, Stops, CountersOK, TypeOK,
     wd, sys, loop, params, fpga, history
<1>32. CASE ApplyParams
  <2>1. CASE eeprom.ok
    <3>1. eeprom.wd_period \in Nat
      BY DEF TypeOK, ParamsOK
    <3>2. MaxPolls(eeprom.wd_period) \in Nat
      BY <3>1, MaxPollsType
    <3> QED
      BY <1>32, <2>1, <3>2, WatchdogConstants DEF ApplyParams, FPGAWD_SetPeriod, CountersOK, TypeOK
  <2>2. CASE ~eeprom.ok
    BY <1>32, <2>2 DEF ApplyParams, CountersOK, TypeOK, wd, history
  <2> QED
    BY <2>1, <2>2
<1>33. CASE \E p \in Periods : ConsolePeriod(p)
  <2>1. PICK p \in Periods : ConsolePeriod(p)
    BY <1>33
  <2>2. MaxPolls(p) \in Nat
    BY MaxPollsType, WatchdogConstants
  <2> QED
    BY <2>1, <2>2, WatchdogConstants DEF ConsolePeriod, FPGAWD_SetPeriod, CountersOK, TypeOK
<1>34. CASE \E e \in BOOLEAN : ConsoleMailbox(e)
  BY <1>34 DEF ConsoleMailbox, CountersOK, TypeOK,
     wd, sys, loop, params, fpga, history
<1>35. CASE UNCHANGED vars
  BY <1>35 DEF vars, CountersOK, TypeOK,
     wd, sys, loop, params, fpga, history
<1> QED
  BY <1>1, <1>2, <1>3, <1>4, <1>5, <1>6, <1>7, <1>8, <1>9, <1>10, <1>11, <1>12,
     <1>13, <1>14, <1>15, <1>16, <1>17, <1>18, <1>19, <1>20, <1>21, <1>22, <1>23, <1>24,
     <1>25, <1>26, <1>27, <1>28, <1>29, <1>30, <1>31, <1>32, <1>33, <1>34, <1>35 DEF Next, MainLoop

LEMMA FlagsStep == TypeOK /\ [Next]_vars => FlagsOK'
<1> SUFFICES ASSUME TypeOK, [Next]_vars PROVE FlagsOK'
  OBVIOUS
<1>1. CASE Service
  BY ZenonT(30), <1>1 DEF Service, FlagsOK, TypeOK,
     wd, sys, loop, params, fpga, history
<1>2. CASE Poll
  BY ZenonT(30), <1>2 DEF Poll, Least, FlagsOK, TypeOK,
     wd, sys, loop, params, fpga, history
<1>3. CASE PollStore
  BY ZenonT(30), <1>3 DEF PollStore, FlagsOK, TypeOK,
     wd, sys, loop, params, fpga, history
<1>4. CASE HandleHash
  BY ZenonT(30), <1>4 DEF HandleHash, FlagsOK, TypeOK,
     wd, sys, loop, params, fpga, history
<1>5. CASE Pet
  BY ZenonT(30), <1>5 DEF Pet, pet_wdog, NewNonce, FlagsOK, TypeOK,
     wd, sys, loop, params, fpga, history
<1>6. CASE Output
  BY ZenonT(30), <1>6 DEF Output, FlagsOK, TypeOK,
     wd, sys, loop, params, fpga, history
<1>7. CASE ClearUpdate
  BY ZenonT(30), <1>7 DEF ClearUpdate, FlagsOK, TypeOK,
     wd, sys, loop, params, fpga, history
<1>8. CASE Pend
  BY ZenonT(30), <1>8 DEF Pend, FlagsOK, TypeOK,
     wd, sys, loop, params, fpga, history
<1>9. CASE PushMacIp
  BY ZenonT(30), <1>9 DEF PushMacIp, FlagsOK, TypeOK,
     wd, sys, loop, params, fpga, history
<1>10. CASE ClearPend
  BY ZenonT(30), <1>10 DEF ClearPend, FlagsOK, TypeOK,
     wd, sys, loop, params, fpga, history
<1>11. CASE EnableFpga
  BY ZenonT(30), <1>11 DEF EnableFpga, FlagsOK, TypeOK,
     wd, sys, loop, params, fpga, history
<1>12. CASE Callback
  BY ZenonT(30), <1>12 DEF Callback, FlagsOK, TypeOK,
     wd, sys, loop, params, fpga, history
<1>13. CASE ConsoleIdle
  BY ZenonT(30), <1>13 DEF ConsoleIdle, FlagsOK, TypeOK,
     wd, sys, loop, params, fpga, history
<1>14. CASE ConsolePush
  BY ZenonT(30), <1>14 DEF ConsolePush, FlagsOK, TypeOK,
     wd, sys, loop, params, fpga, history
<1>15. CASE BoardIdle
  BY ZenonT(30), <1>15 DEF BoardIdle, FlagsOK, TypeOK,
     wd, sys, loop, params, fpga, history
<1>16. CASE PowerLost
  BY ZenonT(30), <1>16 DEF PowerLost, FlagsOK, TypeOK,
     wd, sys, loop, params, fpga, history
<1>17. CASE PowerGood
  BY ZenonT(30), <1>17 DEF PowerGood, FlagsOK, TypeOK,
     wd, sys, loop, params, fpga, history
<1>18. CASE BoardInitFails
  BY ZenonT(30), <1>18 DEF BoardInitFails, FlagsOK, TypeOK,
     wd, sys, loop, params, fpga, history
<1>19. CASE ConfigDone
  <2>1. fpga_net_prog_pend' \in BOOLEAN /\ pushDue' \in BOOLEAN
    BY ZenonT(30), <1>19 DEF ConfigDone, FlagsOK, TypeOK
  <2>2. hit' \in BOOLEAN
    <3>1. CASE HandlerRegistered /\ pwr_good
      <4>1. UNCHANGED hit \/ hit' = (pc \in {"pollStore", "pollState"})
        BY ZenonT(30), <1>19, <3>1 DEF ConfigDone, FPGAWD_DoneHandler, history
      <4>2. (pc \in {"pollStore", "pollState"}) \in BOOLEAN
        OBVIOUS
      <4>3. hit \in BOOLEAN
        BY DEF FlagsOK, TypeOK
      <4> QED
        BY ZenonT(30), <4>1, <4>2, <4>3
    <3>2. CASE ~(HandlerRegistered /\ pwr_good)
      BY ZenonT(30), <1>19, <3>2 DEF ConfigDone, FlagsOK, TypeOK, history
    <3> QED
      BY <3>1, <3>2
  <2> QED
    BY ZenonT(30), <1>19, <2>1, <2>2 DEF ConfigDone, FlagsOK, TypeOK, params
<1>20. CASE MailboxTick
  BY ZenonT(30), <1>20 DEF MailboxTick, Least, FlagsOK, TypeOK,
     wd, sys, loop, params, fpga, history
<1>21. CASE PushDelayPasses
  BY ZenonT(30), <1>21 DEF PushDelayPasses, FlagsOK, TypeOK,
     wd, sys, loop, params, fpga, history
<1>22. CASE ResetHoldPasses
  BY ZenonT(30), <1>22 DEF ResetHoldPasses, FlagsOK, TypeOK,
     wd, sys, loop, params, fpga, history
<1>23. CASE HostAnswers
  BY ZenonT(30), <1>23 DEF HostAnswers, FlagsOK, TypeOK,
     wd, sys, loop, params, fpga, history
<1>24. CASE HostReboots
  BY ZenonT(30), <1>24 DEF HostReboots, Stops, FlagsOK, TypeOK,
     wd, sys, loop, params, fpga, history
<1>25. CASE RailsDrop
  BY ZenonT(30), <1>25 DEF RailsDrop, Stops, FlagsOK, TypeOK,
     wd, sys, loop, params, fpga, history
<1>26. CASE RailsRise
  BY ZenonT(30), <1>26 DEF RailsRise, FlagsOK, TypeOK,
     wd, sys, loop, params, fpga, history
<1>27. CASE MmcReset
  BY ZenonT(30), <1>27 DEF MmcReset, NewNonce, FlagsOK, TypeOK,
     wd, sys, loop, params, fpga, history
<1>28. CASE BootReset
  BY ZenonT(30), <1>28 DEF BootReset, FPGAWD_SelfReset, Stops, FlagsOK, TypeOK,
     wd, sys, loop, params, fpga, history
<1>29. CASE ConsoleReset
  BY ZenonT(30), <1>29 DEF ConsoleReset, FPGAWD_SelfReset, Stops, FlagsOK, TypeOK,
     wd, sys, loop, params, fpga, history
<1>30. CASE BoardReset
  BY ZenonT(30), <1>30 DEF BoardReset, FPGAWD_SelfReset, Stops, FlagsOK, TypeOK,
     wd, sys, loop, params, fpga, history
<1>31. CASE PollState
  BY ZenonT(60), <1>31 DEF PollState, FPGAWD_SelfReset, Stops, FlagsOK, TypeOK,
     wd, sys, loop, params, fpga, history
<1>32. CASE ApplyParams
  <2>1. eeprom.mbox_en \in BOOLEAN
    BY DEF TypeOK, ParamsOK
  <2>2. mbox_is_enabled' \in BOOLEAN /\ hit' \in BOOLEAN
    BY ZenonT(30), <1>32, <2>1 DEF ApplyParams, FPGAWD_SetPeriod, FlagsOK, TypeOK, history
  <2> QED
    BY ZenonT(30), <1>32, <2>2 DEF ApplyParams, FlagsOK, TypeOK, sys, fpga
<1>33. CASE \E p \in Periods : ConsolePeriod(p)
  BY ZenonT(30), <1>33 DEF ConsolePeriod, FPGAWD_SetPeriod, FlagsOK, TypeOK,
     wd, sys, loop, params, fpga, history
<1>34. CASE \E e \in BOOLEAN : ConsoleMailbox(e)
  BY ZenonT(30), <1>34 DEF ConsoleMailbox, FlagsOK, TypeOK,
     wd, sys, loop, params, fpga, history
<1>35. CASE UNCHANGED vars
  BY ZenonT(30), <1>35 DEF vars, FlagsOK, TypeOK,
     wd, sys, loop, params, fpga, history
<1> QED
  BY <1>1, <1>2, <1>3, <1>4, <1>5, <1>6, <1>7, <1>8, <1>9, <1>10, <1>11, <1>12,
     <1>13, <1>14, <1>15, <1>16, <1>17, <1>18, <1>19, <1>20, <1>21, <1>22, <1>23, <1>24,
     <1>25, <1>26, <1>27, <1>28, <1>29, <1>30, <1>31, <1>32, <1>33, <1>34, <1>35 DEF Next, MainLoop

LEMMA PlacesStep == TypeOK /\ [Next]_vars => PlacesOK'
<1> SUFFICES ASSUME TypeOK, [Next]_vars PROVE PlacesOK'
  OBVIOUS
<1>1. CASE Service
  BY <1>1 DEF Service, PlacesOK, States, Places, TypeOK,
     wd, sys, loop, params, fpga, history
<1>2. CASE Poll
  BY <1>2 DEF Poll, Least, PlacesOK, States, Places, TypeOK,
     wd, sys, loop, params, fpga, history
<1>3. CASE PollStore
  BY <1>3 DEF PollStore, PlacesOK, States, Places, TypeOK,
     wd, sys, loop, params, fpga, history
<1>4. CASE HandleHash
  BY <1>4 DEF HandleHash, PlacesOK, States, Places, TypeOK,
     wd, sys, loop, params, fpga, history
<1>5. CASE Pet
  BY <1>5 DEF Pet, pet_wdog, NewNonce, PlacesOK, States, Places, TypeOK,
     wd, sys, loop, params, fpga, history
<1>6. CASE Output
  BY <1>6 DEF Output, PlacesOK, States, Places, TypeOK,
     wd, sys, loop, params, fpga, history
<1>7. CASE ClearUpdate
  BY <1>7 DEF ClearUpdate, PlacesOK, States, Places, TypeOK,
     wd, sys, loop, params, fpga, history
<1>8. CASE Pend
  BY <1>8 DEF Pend, PlacesOK, States, Places, TypeOK,
     wd, sys, loop, params, fpga, history
<1>9. CASE PushMacIp
  BY <1>9 DEF PushMacIp, PlacesOK, States, Places, TypeOK,
     wd, sys, loop, params, fpga, history
<1>10. CASE ClearPend
  BY <1>10 DEF ClearPend, PlacesOK, States, Places, TypeOK,
     wd, sys, loop, params, fpga, history
<1>11. CASE EnableFpga
  BY <1>11 DEF EnableFpga, PlacesOK, States, Places, TypeOK,
     wd, sys, loop, params, fpga, history
<1>12. CASE Callback
  BY <1>12 DEF Callback, PlacesOK, States, Places, TypeOK,
     wd, sys, loop, params, fpga, history
<1>13. CASE ConsoleIdle
  BY <1>13 DEF ConsoleIdle, PlacesOK, States, Places, TypeOK,
     wd, sys, loop, params, fpga, history
<1>14. CASE ConsolePush
  BY <1>14 DEF ConsolePush, PlacesOK, States, Places, TypeOK,
     wd, sys, loop, params, fpga, history
<1>15. CASE BoardIdle
  BY <1>15 DEF BoardIdle, PlacesOK, States, Places, TypeOK,
     wd, sys, loop, params, fpga, history
<1>16. CASE PowerLost
  BY <1>16 DEF PowerLost, PlacesOK, States, Places, TypeOK,
     wd, sys, loop, params, fpga, history
<1>17. CASE PowerGood
  BY <1>17 DEF PowerGood, PlacesOK, States, Places, TypeOK,
     wd, sys, loop, params, fpga, history
<1>18. CASE BoardInitFails
  BY <1>18 DEF BoardInitFails, PlacesOK, States, Places, TypeOK,
     wd, sys, loop, params, fpga, history
<1>19. CASE ConfigDone
  BY <1>19 DEF ConfigDone, FPGAWD_DoneHandler, pet_wdog, NewNonce, PlacesOK, States, Places, TypeOK,
     wd, sys, loop, params, fpga, history
<1>20. CASE MailboxTick
  BY <1>20 DEF MailboxTick, Least, PlacesOK, States, Places, TypeOK,
     wd, sys, loop, params, fpga, history
<1>21. CASE PushDelayPasses
  BY <1>21 DEF PushDelayPasses, PlacesOK, States, Places, TypeOK,
     wd, sys, loop, params, fpga, history
<1>22. CASE ResetHoldPasses
  BY <1>22 DEF ResetHoldPasses, PlacesOK, States, Places, TypeOK,
     wd, sys, loop, params, fpga, history
<1>23. CASE HostAnswers
  BY <1>23 DEF HostAnswers, PlacesOK, States, Places, TypeOK,
     wd, sys, loop, params, fpga, history
<1>24. CASE HostReboots
  BY <1>24 DEF HostReboots, Stops, PlacesOK, States, Places, TypeOK,
     wd, sys, loop, params, fpga, history
<1>25. CASE RailsDrop
  BY <1>25 DEF RailsDrop, Stops, PlacesOK, States, Places, TypeOK,
     wd, sys, loop, params, fpga, history
<1>26. CASE RailsRise
  BY <1>26 DEF RailsRise, PlacesOK, States, Places, TypeOK,
     wd, sys, loop, params, fpga, history
<1>27. CASE MmcReset
  BY <1>27 DEF MmcReset, NewNonce, PlacesOK, States, Places, TypeOK,
     wd, sys, loop, params, fpga, history
<1>28. CASE BootReset
  BY <1>28 DEF BootReset, FPGAWD_SelfReset, Stops, PlacesOK, States, Places, TypeOK,
     wd, sys, loop, params, fpga, history
<1>29. CASE ConsoleReset
  BY <1>29 DEF ConsoleReset, FPGAWD_SelfReset, Stops, PlacesOK, States, Places, TypeOK,
     wd, sys, loop, params, fpga, history
<1>30. CASE BoardReset
  BY <1>30 DEF BoardReset, FPGAWD_SelfReset, Stops, PlacesOK, States, Places, TypeOK,
     wd, sys, loop, params, fpga, history
<1>31. CASE PollState
  BY <1>31 DEF PollState, FPGAWD_SelfReset, Stops, PlacesOK, States, Places, TypeOK,
     wd, sys, loop, params, fpga, history
<1>32. CASE ApplyParams
  BY <1>32 DEF ApplyParams, FPGAWD_SetPeriod, PlacesOK, States, Places, TypeOK,
     wd, sys, loop, params, fpga, history
<1>33. CASE \E p \in Periods : ConsolePeriod(p)
  BY <1>33 DEF ConsolePeriod, FPGAWD_SetPeriod, PlacesOK, States, Places, TypeOK,
     wd, sys, loop, params, fpga, history
<1>34. CASE \E e \in BOOLEAN : ConsoleMailbox(e)
  BY <1>34 DEF ConsoleMailbox, PlacesOK, States, Places, TypeOK,
     wd, sys, loop, params, fpga, history
<1>35. CASE UNCHANGED vars
  BY <1>35 DEF vars, PlacesOK, States, Places, TypeOK,
     wd, sys, loop, params, fpga, history
<1> QED
  BY <1>1, <1>2, <1>3, <1>4, <1>5, <1>6, <1>7, <1>8, <1>9, <1>10, <1>11, <1>12,
     <1>13, <1>14, <1>15, <1>16, <1>17, <1>18, <1>19, <1>20, <1>21, <1>22, <1>23, <1>24,
     <1>25, <1>26, <1>27, <1>28, <1>29, <1>30, <1>31, <1>32, <1>33, <1>34, <1>35 DEF Next, MainLoop

\* Only the console and a new boot touch what the non-volatile memory holds.
LEMMA ParamsStep == TypeOK /\ [Next]_vars => ParamsOK'
<1> SUFFICES ASSUME TypeOK, [Next]_vars PROVE ParamsOK'
  OBVIOUS
<1>1. CASE \E p \in Periods : ConsolePeriod(p)
  <2>1. PICK p \in Periods : ConsolePeriod(p)
    BY <1>1
  <2>2. Least(p, MAX_WATCHDOG_TIMEOUT_PERIODS) \in 0 .. MAX_WATCHDOG_TIMEOUT_PERIODS
    <3>1. p \in Nat /\ MAX_WATCHDOG_TIMEOUT_PERIODS \in Nat
      BY WatchdogConstants
    <3> QED
      BY <3>1 DEF Least
  <2> QED
    BY <2>1, <2>2 DEF ConsolePeriod, ParamsOK, TypeOK
<1>2. CASE \E e \in BOOLEAN : ConsoleMailbox(e)
  <2>1. PICK e \in BOOLEAN : ConsoleMailbox(e)
    BY <1>2
  <2> QED
    BY <2>1 DEF ConsoleMailbox, ParamsOK, TypeOK
<1>3. CASE MmcReset
  <2>1. PICK ok \in BOOLEAN : eeprom' = [eeprom EXCEPT !.ok = ok]
    BY <1>3, WatchdogConstants DEF MmcReset
  <2> QED
    BY <2>1 DEF ParamsOK, TypeOK
<1>4. CASE UNCHANGED eeprom
  BY <1>4 DEF ParamsOK, TypeOK
<1> QED
  BY <1>1, <1>2, <1>3, <1>4
  DEF Next, MainLoop,
      Service, Poll, PollStore, HandleHash, Pet, Output, ClearUpdate, Pend, 
      PushMacIp, ClearPend, EnableFpga, Callback, ConsoleIdle, ConsolePush, 
      BoardIdle, PowerLost, PowerGood, BoardInitFails, ConfigDone, MailboxTick, 
      PushDelayPasses, ResetHoldPasses, HostAnswers, HostReboots, RailsDrop, 
      RailsRise, BootReset, ConsoleReset, BoardReset, PollState, ApplyParams, 
      FPGAWD_SelfReset, params, vars

\* Type correctness of the watchdog, the FPGA reset and the main loop, through every
\* interrupt and every reset of the MMC (watchdog.c, system.c): in particular no decrement
\* takes the unsigned counter below zero.
THEOREM TypeCorrect == Spec => []TypeOK
<1>1. Init => TypeOK
  BY InitType
<1>2. TypeOK /\ [Next]_vars => TypeOK'
  BY CountersStep, ParamsStep, FlagsStep, PlacesStep DEF TypeOK
<1> QED
  BY <1>1, <1>2, PTL DEF Spec

-----------------------------------------------------------------------------
(* The reset and the watchdog's state.                                     *)

\* Between enable_fpga and the callback PROG_B is already high and the reset not yet over.
ReleaseUnderWay ==
  /\ pc = "callback" => fpga_reset /\ prog_b = "high"
  /\ fpga_reset /\ prog_b = "high" => pc = "callback"
  /\ pc = "callback" => image = "golden" /\ config # "running"

\* An FPGA that is configured, or being configured, is not held in reset.
ConfigNeedsProgB == config # "blank" => prog_b = "high"

\* The reset of a boot or of a return of power is still to come.
ResetToCome == pc \in {"boot", "bootReset", "boardInit"}

\* The DONE edge of the golden image has been seen before the next image is asked for.
GoldenSeen ==
  pwr_good /\ ~ResetToCome /\ (config = "running" \/ (config = "loading" /\ image = "user"))
    => fpga_state \in {"GOLDEN", "USER"}

ResetInv == ResetIsReleased /\ ReleaseUnderWay /\ ConfigNeedsProgB
WatchInv == GoldenSeen /\ UserIsWatched

LEMMA ResetStep == PlacesOK /\ ResetInv /\ [Next]_vars => ResetInv'
<1> SUFFICES ASSUME PlacesOK, ResetInv, [Next]_vars PROVE ResetInv'
  OBVIOUS
<1>1. CASE Service
  BY ZenonT(30), <1>1 DEF Service, ResetInv, ResetIsReleased, ReleaseUnderWay, ConfigNeedsProgB,
     wd, sys, loop, params, fpga, history
<1>2. CASE Poll
  BY ZenonT(30), <1>2 DEF Poll, ResetInv, ResetIsReleased, ReleaseUnderWay, ConfigNeedsProgB,
     wd, sys, loop, params, fpga, history
<1>3. CASE PollStore
  BY ZenonT(30), <1>3 DEF PollStore, ResetInv, ResetIsReleased, ReleaseUnderWay, ConfigNeedsProgB,
     wd, sys, loop, params, fpga, history
<1>4. CASE HandleHash
  BY ZenonT(30), <1>4 DEF HandleHash, ResetInv, ResetIsReleased, ReleaseUnderWay, ConfigNeedsProgB,
     wd, sys, loop, params, fpga, history
<1>5. CASE Pet
  BY ZenonT(30), <1>5 DEF Pet, ResetInv, ResetIsReleased, ReleaseUnderWay, ConfigNeedsProgB,
     wd, sys, loop, params, fpga, history
<1>6. CASE Output
  BY ZenonT(30), <1>6 DEF Output, ResetInv, ResetIsReleased, ReleaseUnderWay, ConfigNeedsProgB,
     wd, sys, loop, params, fpga, history
<1>7. CASE ClearUpdate
  BY ZenonT(30), <1>7 DEF ClearUpdate, ResetInv, ResetIsReleased, ReleaseUnderWay, ConfigNeedsProgB,
     wd, sys, loop, params, fpga, history
<1>8. CASE Pend
  BY ZenonT(30), <1>8 DEF Pend, ResetInv, ResetIsReleased, ReleaseUnderWay, ConfigNeedsProgB,
     wd, sys, loop, params, fpga, history
<1>9. CASE PushMacIp
  BY ZenonT(30), <1>9 DEF PushMacIp, ResetInv, ResetIsReleased, ReleaseUnderWay, ConfigNeedsProgB,
     wd, sys, loop, params, fpga, history
<1>10. CASE ClearPend
  BY ZenonT(30), <1>10 DEF ClearPend, ResetInv, ResetIsReleased, ReleaseUnderWay, ConfigNeedsProgB,
     wd, sys, loop, params, fpga, history
<1>11. CASE EnableFpga
  BY ZenonT(30), <1>11 DEF EnableFpga, ResetInv, ResetIsReleased, ReleaseUnderWay, ConfigNeedsProgB,
     wd, sys, loop, params, fpga, history
<1>12. CASE Callback
  BY ZenonT(30), <1>12 DEF Callback, ResetInv, ResetIsReleased, ReleaseUnderWay, ConfigNeedsProgB,
     wd, sys, loop, params, fpga, history
<1>13. CASE ConsoleIdle
  BY ZenonT(30), <1>13 DEF ConsoleIdle, ResetInv, ResetIsReleased, ReleaseUnderWay, ConfigNeedsProgB,
     wd, sys, loop, params, fpga, history
<1>14. CASE ConsolePush
  BY ZenonT(30), <1>14 DEF ConsolePush, ResetInv, ResetIsReleased, ReleaseUnderWay, ConfigNeedsProgB,
     wd, sys, loop, params, fpga, history
<1>15. CASE BoardIdle
  BY ZenonT(30), <1>15 DEF BoardIdle, ResetInv, ResetIsReleased, ReleaseUnderWay, ConfigNeedsProgB,
     wd, sys, loop, params, fpga, history
<1>16. CASE PowerLost
  BY ZenonT(30), <1>16 DEF PowerLost, ResetInv, ResetIsReleased, ReleaseUnderWay, ConfigNeedsProgB,
     wd, sys, loop, params, fpga, history
<1>17. CASE PowerGood
  BY ZenonT(30), <1>17 DEF PowerGood, ResetInv, ResetIsReleased, ReleaseUnderWay, ConfigNeedsProgB,
     wd, sys, loop, params, fpga, history
<1>18. CASE BoardInitFails
  BY ZenonT(30), <1>18 DEF BoardInitFails, ResetInv, ResetIsReleased, ReleaseUnderWay, ConfigNeedsProgB,
     wd, sys, loop, params, fpga, history
<1>19. CASE ConfigDone
  BY ZenonT(30), <1>19 DEF ConfigDone, FPGAWD_DoneHandler, ResetInv, ResetIsReleased, ReleaseUnderWay, ConfigNeedsProgB, HandlerRegistered, PlacesOK, States,
     wd, sys, loop, params, fpga, history
<1>20. CASE MailboxTick
  BY ZenonT(30), <1>20 DEF MailboxTick, ResetInv, ResetIsReleased, ReleaseUnderWay, ConfigNeedsProgB,
     wd, sys, loop, params, fpga, history
<1>21. CASE PushDelayPasses
  BY ZenonT(30), <1>21 DEF PushDelayPasses, ResetInv, ResetIsReleased, ReleaseUnderWay, ConfigNeedsProgB,
     wd, sys, loop, params, fpga, history
<1>22. CASE ResetHoldPasses
  BY ZenonT(30), <1>22 DEF ResetHoldPasses, ResetInv, ResetIsReleased, ReleaseUnderWay, ConfigNeedsProgB,
     wd, sys, loop, params, fpga, history
<1>23. CASE HostAnswers
  BY ZenonT(30), <1>23 DEF HostAnswers, ResetInv, ResetIsReleased, ReleaseUnderWay, ConfigNeedsProgB,
     wd, sys, loop, params, fpga, history
<1>24. CASE HostReboots
  BY ZenonT(30), <1>24 DEF HostReboots, Stops, ResetInv, ResetIsReleased, ReleaseUnderWay, ConfigNeedsProgB,
     wd, sys, loop, params, fpga, history
<1>25. CASE RailsDrop
  BY ZenonT(30), <1>25 DEF RailsDrop, Stops, ResetInv, ResetIsReleased, ReleaseUnderWay, ConfigNeedsProgB,
     wd, sys, loop, params, fpga, history
<1>26. CASE RailsRise
  BY ZenonT(30), <1>26 DEF RailsRise, ResetInv, ResetIsReleased, ReleaseUnderWay, ConfigNeedsProgB,
     wd, sys, loop, params, fpga, history
<1>27. CASE MmcReset
  BY ZenonT(30), <1>27 DEF MmcReset, ResetInv, ResetIsReleased, ReleaseUnderWay, ConfigNeedsProgB,
     wd, sys, loop, params, fpga, history
<1>28. CASE BootReset
  BY ZenonT(30), <1>28 DEF BootReset, FPGAWD_SelfReset, Stops, ResetInv, ResetIsReleased, ReleaseUnderWay, ConfigNeedsProgB,
     wd, sys, loop, params, fpga, history
<1>29. CASE ConsoleReset
  BY ZenonT(30), <1>29 DEF ConsoleReset, FPGAWD_SelfReset, Stops, ResetInv, ResetIsReleased, ReleaseUnderWay, ConfigNeedsProgB,
     wd, sys, loop, params, fpga, history
<1>30. CASE BoardReset
  BY ZenonT(30), <1>30 DEF BoardReset, FPGAWD_SelfReset, Stops, ResetInv, ResetIsReleased, ReleaseUnderWay, ConfigNeedsProgB,
     wd, sys, loop, params, fpga, history
<1>31. CASE PollState
  <2>1. CASE FPGAWD_SelfReset
    BY ZenonT(30), <1>31, <2>1 DEF PollState, FPGAWD_SelfReset, Stops, ResetInv, ResetIsReleased, ReleaseUnderWay, ConfigNeedsProgB, wd, sys, loop, params, fpga, history
  <2>2. CASE UNCHANGED <<wd, sys, pwr_good, params, fpga, history>>
    BY ZenonT(30), <1>31, <2>2 DEF PollState, ResetInv, ResetIsReleased, ReleaseUnderWay, ConfigNeedsProgB, wd, sys, loop, params, fpga, history
  <2> QED
    BY <1>31, <2>1, <2>2 DEF PollState
<1>32. CASE ApplyParams
  BY ZenonT(30), <1>32 DEF ApplyParams, FPGAWD_SetPeriod, ResetInv, ResetIsReleased, ReleaseUnderWay, ConfigNeedsProgB,
     wd, sys, loop, params, fpga, history
<1>33. CASE \E p \in Periods : ConsolePeriod(p)
  <2>1. PICK p \in Periods : ConsolePeriod(p)
    BY <1>33
  <2>2. pc = "console" /\ pc' = "board" /\ UNCHANGED <<fpga_state, sys, pwr_good, fpga>>
    BY <2>1 DEF ConsolePeriod, FPGAWD_SetPeriod, wd
  <2> QED
    BY ZenonT(30), <2>2 DEF ResetInv, ResetIsReleased, ReleaseUnderWay, ConfigNeedsProgB, sys, fpga
<1>34. CASE \E e \in BOOLEAN : ConsoleMailbox(e)
  <2>1. PICK e \in BOOLEAN : ConsoleMailbox(e)
    BY <1>34
  <2>2. pc = "console" /\ pc' = "board" /\ UNCHANGED <<fpga_state, sys, pwr_good, fpga>>
    BY <2>1 DEF ConsoleMailbox, wd
  <2> QED
    BY ZenonT(30), <2>2 DEF ResetInv, ResetIsReleased, ReleaseUnderWay, ConfigNeedsProgB, sys, fpga
<1>35. CASE UNCHANGED vars
  BY ZenonT(30), <1>35 DEF vars, ResetInv, ResetIsReleased, ReleaseUnderWay, ConfigNeedsProgB,
     wd, sys, loop, params, fpga, history
<1> QED
  BY <1>1, <1>2, <1>3, <1>4, <1>5, <1>6, <1>7, <1>8, <1>9, <1>10, <1>11, <1>12,
     <1>13, <1>14, <1>15, <1>16, <1>17, <1>18, <1>19, <1>20, <1>21, <1>22, <1>23, <1>24,
     <1>25, <1>26, <1>27, <1>28, <1>29, <1>30, <1>31, <1>32, <1>33, <1>34, <1>35 DEF Next, MainLoop

LEMMA WatchStep == PlacesOK /\ ResetInv /\ WatchInv /\ [Next]_vars => WatchInv'
<1> SUFFICES ASSUME PlacesOK, ResetInv, WatchInv, [Next]_vars PROVE WatchInv'
  OBVIOUS
<1>1. CASE Service
  BY ZenonT(30), <1>1 DEF Service, WatchInv, GoldenSeen, UserIsWatched, ResetToCome,
     wd, sys, loop, params, fpga, history
<1>2. CASE Poll
  BY ZenonT(30), <1>2 DEF Poll, WatchInv, GoldenSeen, UserIsWatched, ResetToCome,
     wd, sys, loop, params, fpga, history
<1>3. CASE PollStore
  BY ZenonT(30), <1>3 DEF PollStore, WatchInv, GoldenSeen, UserIsWatched, ResetToCome,
     wd, sys, loop, params, fpga, history
<1>4. CASE HandleHash
  BY ZenonT(30), <1>4 DEF HandleHash, WatchInv, GoldenSeen, UserIsWatched, ResetToCome,
     wd, sys, loop, params, fpga, history
<1>5. CASE Pet
  BY ZenonT(30), <1>5 DEF Pet, WatchInv, GoldenSeen, UserIsWatched, ResetToCome,
     wd, sys, loop, params, fpga, history
<1>6. CASE Output
  BY ZenonT(30), <1>6 DEF Output, WatchInv, GoldenSeen, UserIsWatched, ResetToCome,
     wd, sys, loop, params, fpga, history
<1>7. CASE ClearUpdate
  BY ZenonT(30), <1>7 DEF ClearUpdate, WatchInv, GoldenSeen, UserIsWatched, ResetToCome,
     wd, sys, loop, params, fpga, history
<1>8. CASE Pend
  BY ZenonT(30), <1>8 DEF Pend, WatchInv, GoldenSeen, UserIsWatched, ResetToCome,
     wd, sys, loop, params, fpga, history
<1>9. CASE PushMacIp
  BY ZenonT(30), <1>9 DEF PushMacIp, WatchInv, GoldenSeen, UserIsWatched, ResetToCome,
     wd, sys, loop, params, fpga, history
<1>10. CASE ClearPend
  BY ZenonT(30), <1>10 DEF ClearPend, WatchInv, GoldenSeen, UserIsWatched, ResetToCome,
     wd, sys, loop, params, fpga, history
<1>11. CASE EnableFpga
  BY ZenonT(30), <1>11 DEF EnableFpga, WatchInv, GoldenSeen, UserIsWatched, ResetToCome, ResetInv, ReleaseUnderWay,
     wd, sys, loop, params, fpga, history
<1>12. CASE Callback
  BY ZenonT(30), <1>12 DEF Callback, WatchInv, GoldenSeen, UserIsWatched, ResetToCome, ResetInv, ReleaseUnderWay,
     wd, sys, loop, params, fpga, history
<1>13. CASE ConsoleIdle
  BY ZenonT(30), <1>13 DEF ConsoleIdle, WatchInv, GoldenSeen, UserIsWatched, ResetToCome,
     wd, sys, loop, params, fpga, history
<1>14. CASE ConsolePush
  BY ZenonT(30), <1>14 DEF ConsolePush, WatchInv, GoldenSeen, UserIsWatched, ResetToCome,
     wd, sys, loop, params, fpga, history
<1>15. CASE BoardIdle
  BY ZenonT(30), <1>15 DEF BoardIdle, WatchInv, GoldenSeen, UserIsWatched, ResetToCome,
     wd, sys, loop, params, fpga, history
<1>16. CASE PowerLost
  BY ZenonT(30), <1>16 DEF PowerLost, WatchInv, GoldenSeen, UserIsWatched, ResetToCome,
     wd, sys, loop, params, fpga, history
<1>17. CASE PowerGood
  BY ZenonT(30), <1>17 DEF PowerGood, WatchInv, GoldenSeen, UserIsWatched, ResetToCome,
     wd, sys, loop, params, fpga, history
<1>18. CASE BoardInitFails
  BY ZenonT(30), <1>18 DEF BoardInitFails, WatchInv, GoldenSeen, UserIsWatched, ResetToCome,
     wd, sys, loop, params, fpga, history
<1>19. CASE ConfigDone
  BY ZenonT(30), <1>19 DEF ConfigDone, FPGAWD_DoneHandler, WatchInv, GoldenSeen, UserIsWatched, ResetToCome, HandlerRegistered, PlacesOK, States, ResetInv, ResetIsReleased, ReleaseUnderWay, ConfigNeedsProgB,
     wd, sys, loop, params, fpga, history
<1>20. CASE MailboxTick
  BY ZenonT(30), <1>20 DEF MailboxTick, WatchInv, GoldenSeen, UserIsWatched, ResetToCome,
     wd, sys, loop, params, fpga, history
<1>21. CASE PushDelayPasses
  BY ZenonT(30), <1>21 DEF PushDelayPasses, WatchInv, GoldenSeen, UserIsWatched, ResetToCome,
     wd, sys, loop, params, fpga, history
<1>22. CASE ResetHoldPasses
  BY ZenonT(30), <1>22 DEF ResetHoldPasses, WatchInv, GoldenSeen, UserIsWatched, ResetToCome,
     wd, sys, loop, params, fpga, history
<1>23. CASE HostAnswers
  BY ZenonT(30), <1>23 DEF HostAnswers, WatchInv, GoldenSeen, UserIsWatched, ResetToCome,
     wd, sys, loop, params, fpga, history
<1>24. CASE HostReboots
  BY ZenonT(30), <1>24 DEF HostReboots, Stops, WatchInv, GoldenSeen, UserIsWatched, ResetToCome, ResetInv, ReleaseUnderWay,
     wd, sys, loop, params, fpga, history
<1>25. CASE RailsDrop
  BY ZenonT(30), <1>25 DEF RailsDrop, Stops, WatchInv, GoldenSeen, UserIsWatched, ResetToCome,
     wd, sys, loop, params, fpga, history
<1>26. CASE RailsRise
  BY ZenonT(30), <1>26 DEF RailsRise, WatchInv, GoldenSeen, UserIsWatched, ResetToCome,
     wd, sys, loop, params, fpga, history
<1>27. CASE MmcReset
  BY ZenonT(30), <1>27 DEF MmcReset, WatchInv, GoldenSeen, UserIsWatched, ResetToCome,
     wd, sys, loop, params, fpga, history
<1>28. CASE BootReset
  BY ZenonT(30), <1>28 DEF BootReset, FPGAWD_SelfReset, Stops, WatchInv, GoldenSeen, UserIsWatched, ResetToCome,
     wd, sys, loop, params, fpga, history
<1>29. CASE ConsoleReset
  BY ZenonT(30), <1>29 DEF ConsoleReset, FPGAWD_SelfReset, Stops, WatchInv, GoldenSeen, UserIsWatched, ResetToCome,
     wd, sys, loop, params, fpga, history
<1>30. CASE BoardReset
  BY ZenonT(30), <1>30 DEF BoardReset, FPGAWD_SelfReset, Stops, WatchInv, GoldenSeen, UserIsWatched, ResetToCome,
     wd, sys, loop, params, fpga, history
<1>31. CASE PollState
  <2>1. CASE FPGAWD_SelfReset
    BY ZenonT(30), <1>31, <2>1 DEF PollState, FPGAWD_SelfReset, Stops, WatchInv, GoldenSeen, UserIsWatched, ResetToCome, wd, sys, loop, params, fpga, history
  <2>2. CASE UNCHANGED <<wd, sys, pwr_good, params, fpga, history>>
    BY ZenonT(30), <1>31, <2>2 DEF PollState, WatchInv, GoldenSeen, UserIsWatched, ResetToCome, wd, sys, loop, params, fpga, history
  <2> QED
    BY <1>31, <2>1, <2>2 DEF PollState
<1>32. CASE ApplyParams
  BY ZenonT(30), <1>32 DEF ApplyParams, FPGAWD_SetPeriod, WatchInv, GoldenSeen, UserIsWatched, ResetToCome,
     wd, sys, loop, params, fpga, history
<1>33. CASE \E p \in Periods : ConsolePeriod(p)
  <2>1. PICK p \in Periods : ConsolePeriod(p)
    BY <1>33
  <2>2. pc = "console" /\ pc' = "board" /\ UNCHANGED <<fpga_state, sys, pwr_good, fpga>>
    BY <2>1 DEF ConsolePeriod, FPGAWD_SetPeriod, wd
  <2> QED
    BY ZenonT(30), <2>2 DEF WatchInv, GoldenSeen, UserIsWatched, ResetToCome, sys, fpga
<1>34. CASE \E e \in BOOLEAN : ConsoleMailbox(e)
  <2>1. PICK e \in BOOLEAN : ConsoleMailbox(e)
    BY <1>34
  <2>2. pc = "console" /\ pc' = "board" /\ UNCHANGED <<fpga_state, sys, pwr_good, fpga>>
    BY <2>1 DEF ConsoleMailbox, wd
  <2> QED
    BY ZenonT(30), <2>2 DEF WatchInv, GoldenSeen, UserIsWatched, ResetToCome, sys, fpga
<1>35. CASE UNCHANGED vars
  BY ZenonT(30), <1>35 DEF vars, WatchInv, GoldenSeen, UserIsWatched, ResetToCome,
     wd, sys, loop, params, fpga, history
<1> QED
  BY <1>1, <1>2, <1>3, <1>4, <1>5, <1>6, <1>7, <1>8, <1>9, <1>10, <1>11, <1>12,
     <1>13, <1>14, <1>15, <1>16, <1>17, <1>18, <1>19, <1>20, <1>21, <1>22, <1>23, <1>24,
     <1>25, <1>26, <1>27, <1>28, <1>29, <1>30, <1>31, <1>32, <1>33, <1>34, <1>35 DEF Next, MainLoop

\* No FPGA stays in reset: PROG_B is low only while a release is scheduled (system.c
\* 174-180, 285-291), whatever resets, power cycles and reboots overlap.
THEOREM ResetIsReleasedHolds == Spec => []ResetIsReleased
<1>1. Init => ResetInv
  BY ZenonT(30) DEF Init, ResetInv, ResetIsReleased, ReleaseUnderWay, ConfigNeedsProgB
<1>2. TypeOK /\ ResetInv /\ [Next]_vars => ResetInv'
  BY ResetStep DEF TypeOK
<1>3. ResetInv => ResetIsReleased
  BY DEF ResetInv
<1> QED
  BY <1>1, <1>2, <1>3, TypeCorrect, PTL DEF Spec

\* A user image that runs is watched (FPGAWD_DoneHandler, watchdog.c 98-123): the count of
\* DONE edges does not take it for the golden one.
THEOREM UserIsWatchedHolds == Spec => []UserIsWatched
<1>1. Init => ResetInv /\ WatchInv
  BY ZenonT(30) DEF Init, ResetInv, ResetIsReleased, ReleaseUnderWay, ConfigNeedsProgB,
     WatchInv, GoldenSeen, UserIsWatched, ResetToCome
<1>2. TypeOK /\ ResetInv /\ [Next]_vars => ResetInv'
  BY ResetStep DEF TypeOK
<1>3. TypeOK /\ ResetInv /\ WatchInv /\ [Next]_vars => WatchInv'
  BY WatchStep DEF TypeOK
<1>4. WatchInv => UserIsWatched
  BY DEF WatchInv
<1> QED
  BY <1>1, <1>2, <1>3, <1>4, TypeCorrect, PTL DEF Spec

\* Only the DONE edge ends a configuration.
LEMMA OnlyConfigDone ==
  ASSUME [Next]_vars, config = "loading", config' = "running"
  PROVE  ConfigDone
BY DEF Next, MainLoop,
     Service, Poll, PollStore, HandleHash, Pet, Output, ClearUpdate, Pend, PushMacIp,
     ClearPend, EnableFpga, Callback, ConsoleIdle, ConsolePush, BoardIdle, PowerLost,
     PowerGood, BoardInitFails, MailboxTick, PushDelayPasses, ResetHoldPasses,
     HostAnswers, HostReboots, RailsDrop, RailsRise, MmcReset, BootReset,
     ConsoleReset, BoardReset, PollState, ApplyParams, ConsolePeriod, ConsoleMailbox,
     FPGAWD_SetPeriod, FPGAWD_SelfReset, Stops, vars, wd, sys, fpga

\* No FPGA comes up while the watchdog believes it held in reset (watchdog.c 114-117).
THEOREM DoneNotInResetHolds == Spec => DoneNotInReset
<1>1. Init => ResetInv
  BY ZenonT(30) DEF Init, ResetInv, ResetIsReleased, ReleaseUnderWay, ConfigNeedsProgB
<1>2. TypeOK /\ ResetInv /\ [Next]_vars => ResetInv'
  BY ResetStep DEF TypeOK
<1>3. TypeOK /\ ResetInv /\ [Next]_vars
        => [config = "loading" /\ config' = "running" => fpga_state # "RESET"]_vars
  <2> SUFFICES ASSUME ResetInv, [Next]_vars, config = "loading", config' = "running",
                      fpga_state = "RESET"
               PROVE  FALSE
    OBVIOUS
  <2>1. pc # "callback"
    BY OnlyConfigDone DEF ConfigDone
  <2>2. fpga_reset /\ prog_b = "high"
    BY DEF ResetInv, ResetIsReleased, ConfigNeedsProgB
  <2> QED
    BY <2>1, <2>2 DEF ResetInv, ReleaseUnderWay
<1> QED
  BY <1>1, <1>2, <1>3, TypeCorrect, PTL DEF Spec, DoneNotInReset

-----------------------------------------------------------------------------
(* The count.  A reset by the watchdog comes after a full count of polls.  *)

\* The history counter can count as far as any period makes the watchdog count.
HistoryReaches ==
  DefaultPolls <= Horizon /\ \A p \in Periods \cup {0} : MaxPolls(p) <= Horizon

\* What FPGAWD_Poll has still to count: while it is at it, the register it decrements through
\* tells, and a DONE edge that reloads the counter meanwhile goes unnoticed.
ToCount ==
  IF pc = "pollStore" THEN reg ELSE IF pc = "pollState" THEN 0 ELSE poll_counter

\* Polls made and polls to come are a full count, from the reload on that makes an image the
\* user's.  The period in force, and the one that the next boot finds, can be counted.
CountInv ==
  /\ max_poll_counts <= Horizon /\ MaxPolls(eeprom.wd_period) <= Horizon
  /\ fpga_state = "USER" /\ ~hit => ToCount + polls >= max_poll_counts

\* A period that is stored counts as it did when it was set.
LEMMA StoredPeriod ==
  ASSUME NEW p \in Nat
  PROVE  MaxPolls(Least(p, MAX_WATCHDOG_TIMEOUT_PERIODS)) = MaxPolls(p)
<1>1. Least(Least(p, MAX_WATCHDOG_TIMEOUT_PERIODS), MAX_WATCHDOG_TIMEOUT_PERIODS)
        = Least(p, MAX_WATCHDOG_TIMEOUT_PERIODS)
  BY WatchdogConstants DEF Least
<1> QED
  BY <1>1, Zenon DEF MaxPolls

\* A step that has nothing to do with the count.
LEMMA CountKept ==
  ASSUME CountInv, UNCHANGED <<max_poll_counts, eeprom, reg, polls, hit>>,
         \/ fpga_state' # "USER"
         \/ /\ UNCHANGED <<fpga_state, poll_counter>>
            /\ pc' = pc \/ (pc \notin {"pollStore", "pollState"} /\ pc' \notin {"pollStore", "pollState"})
  PROVE  CountInv'
<1>1. (max_poll_counts <= Horizon /\ MaxPolls(eeprom.wd_period) <= Horizon)'
  BY DEF CountInv, MaxPolls, Least
<1>2. CASE fpga_state' # "USER"
  BY <1>1, <1>2 DEF CountInv
<1>3. CASE /\ UNCHANGED <<fpga_state, poll_counter>>
           /\ \/ pc' = pc
              \/ pc \notin {"pollStore", "pollState"} /\ pc' \notin {"pollStore", "pollState"}
  <2>1. ToCount' = ToCount
    BY <1>3 DEF ToCount
  <2> QED
    BY <1>1, <1>3, <2>1 DEF CountInv
<1> QED
  BY <1>2, <1>3

\* A reload starts the count anew, wherever the main loop is.
LEMMA CountReloaded ==
  ASSUME CountersOK, CountInv, UNCHANGED <<max_poll_counts, eeprom, pc>>,
         poll_counter' = max_poll_counts, polls' = 0,
         hit' = (pc \in {"pollStore", "pollState"})
  PROVE  CountInv'
<1>1. (max_poll_counts <= Horizon /\ MaxPolls(eeprom.wd_period) <= Horizon)'
  BY DEF CountInv, MaxPolls, Least
<1>2. CASE pc \in {"pollStore", "pollState"}
  BY <1>1, <1>2, ZenonT(30) DEF CountInv
<1>3. CASE pc \notin {"pollStore", "pollState"}
  <2>1. ToCount' = max_poll_counts'
    BY <1>3 DEF ToCount
  <2> QED
    BY <1>1, <2>1 DEF CountInv, CountersOK
<1> QED
  BY <1>2, <1>3

LEMMA CountStep ==
  ASSUME TypeOK, CountInv, HistoryReaches, [Next]_vars PROVE CountInv'
<1> USE DEF TypeOK
<1>1. CASE Poll
  <2>1. CASE poll_counter = 0
    BY <1>1, <2>1, CountKept DEF Poll, wd, params
  <2>2. CASE poll_counter # 0
    <3>1. /\ reg' = poll_counter - 1 /\ pc' = "pollStore" /\ pc = "poll"
          /\ polls' = Least(polls + 1, Horizon)
          /\ UNCHANGED <<fpga_state, max_poll_counts, eeprom, hit>>
      BY <1>1, <2>2 DEF Poll, wd, params
    <3>2. ToCount = poll_counter /\ ToCount' = poll_counter - 1
      BY <3>1 DEF ToCount
    <3>3. (max_poll_counts <= Horizon /\ MaxPolls(eeprom.wd_period) <= Horizon)'
      BY <3>1 DEF CountInv, MaxPolls, Least
    <3>4. poll_counter + polls >= max_poll_counts
            => (poll_counter - 1) + polls' >= max_poll_counts
      BY <2>2, <3>1, WatchdogConstants DEF CountersOK, CountInv, Least
    <3> QED
      BY <3>1, <3>2, <3>3, <3>4 DEF CountInv
  <2> QED
    BY <2>1, <2>2
<1>2. CASE PollStore
  <2>1. /\ pc = "pollStore" /\ poll_counter' = reg
        /\ pc' = IF reg = 0 THEN "pollState" ELSE "hash"
        /\ UNCHANGED <<fpga_state, max_poll_counts, eeprom, polls, hit>>
    BY <1>2 DEF PollStore, params, history
  <2>2. ToCount' = ToCount
    BY <2>1 DEF ToCount
  <2>3. (max_poll_counts <= Horizon /\ MaxPolls(eeprom.wd_period) <= Horizon)'
    BY <2>1 DEF CountInv, MaxPolls, Least
  <2> QED
    BY <2>1, <2>2, <2>3 DEF CountInv
<1>3. CASE PollState
  <2>1. CASE FPGAWD_SelfReset
    BY <1>3, <2>1, CountKept DEF PollState, FPGAWD_SelfReset, params, history
  <2>2. CASE fpga_state # "USER" /\ UNCHANGED <<wd, sys, pwr_good, params, fpga, history>>
    BY <1>3, <2>2, CountKept DEF PollState, wd, params, history
  <2> QED
    BY <1>3, <2>1, <2>2 DEF PollState
<1>4. CASE Pet
  <2>1. /\ pc = "pet" /\ pc' = "output" /\ poll_counter' = max_poll_counts /\ polls' = 0
        /\ UNCHANGED <<max_poll_counts, eeprom>>
    BY <1>4 DEF Pet, pet_wdog, params
  <2>2. ToCount' = max_poll_counts'
    BY <2>1 DEF ToCount
  <2>3. (max_poll_counts <= Horizon /\ MaxPolls(eeprom.wd_period) <= Horizon)'
    BY <2>1 DEF CountInv, MaxPolls, Least
  <2> QED
    BY <2>1, <2>2, <2>3 DEF CountInv, CountersOK
<1>5. CASE ConfigDone
  <2>1. UNCHANGED <<max_poll_counts, eeprom, pc, reg>>
    BY <1>5 DEF ConfigDone, loop, params
  <2>2. CASE /\ poll_counter' = max_poll_counts /\ polls' = 0
             /\ hit' = (pc \in {"pollStore", "pollState"})
    BY <2>1, <2>2, CountReloaded
  <2>3. CASE UNCHANGED <<poll_counter, polls, hit>> /\ (fpga_state' = fpga_state \/ fpga_state' # "USER")
    BY <2>1, <2>3, CountKept
  <2>4. CASE HandlerRegistered /\ pwr_good
    <3>1. FPGAWD_DoneHandler
      BY <1>5, <2>4 DEF ConfigDone
    <3>2. CASE fpga_state \in {"GOLDEN", "USER"}
      BY <2>2, <3>1, <3>2 DEF FPGAWD_DoneHandler, pet_wdog
    <3>3. CASE fpga_state \notin {"GOLDEN", "USER"}
      <4>1. fpga_state \in {"BOOT", "RESET"}
        BY <3>3 DEF PlacesOK, States
      <4>2. fpga_state' # "USER" /\ UNCHANGED <<poll_counter, polls, hit>>
        BY <3>1, <3>3, <4>1 DEF FPGAWD_DoneHandler, history
      <4> QED
        BY <2>3, <4>2
    <3> QED
      BY <3>2, <3>3
  <2>5. CASE ~(HandlerRegistered /\ pwr_good)
    BY <1>5, <2>3, <2>5 DEF ConfigDone, history
  <2> QED
    BY <2>4, <2>5
<1>6. ASSUME NEW p \in Nat, FPGAWD_SetPeriod(p), MaxPolls(p) <= Horizon,
             pc' \notin {"pollStore", "pollState"},
             eeprom' = eeprom \/ MaxPolls(eeprom'.wd_period) = MaxPolls(p)
      PROVE  CountInv'
  <2>1. ToCount' = max_poll_counts' /\ max_poll_counts' = MaxPolls(p) /\ polls' = 0
    BY <1>6 DEF ToCount, FPGAWD_SetPeriod
  <2>2. MaxPolls(p) \in Nat
    BY <1>6, MaxPollsType
  <2>3. MaxPolls(eeprom'.wd_period) <= Horizon
    BY <1>6 DEF CountInv
  <2>4. (MaxPolls(eeprom.wd_period) <= Horizon)'
    BY <2>3 DEF MaxPolls, Least
  <2> QED
    BY <1>6, <2>1, <2>2, <2>4 DEF CountInv
<1>7. CASE ApplyParams
  <2>1. pc = "boot" /\ pc' = "bootReset" /\ eeprom' = eeprom
    BY <1>7 DEF ApplyParams
  <2>2. CASE eeprom.ok
    <3>1. eeprom.wd_period \in Nat
      BY DEF ParamsOK
    <3> QED
      BY <1>6, <1>7, <2>1, <2>2, <3>1 DEF ApplyParams, CountInv
  <2>3. CASE ~eeprom.ok
    BY <1>7, <2>1, <2>3, CountKept DEF ApplyParams, wd, history
  <2> QED
    BY <2>2, <2>3
<1>8. CASE \E p \in Periods : ConsolePeriod(p)
  <2>1. PICK p \in Periods : ConsolePeriod(p)
    BY <1>8
  <2>2. p \in Nat /\ MaxPolls(p) <= Horizon
    BY WatchdogConstants DEF HistoryReaches
  <2>3. eeprom' = eeprom \/ eeprom'.wd_period = Least(p, MAX_WATCHDOG_TIMEOUT_PERIODS)
    BY <2>1 DEF ConsolePeriod, ParamsOK
  <2>4. eeprom' = eeprom \/ MaxPolls(eeprom'.wd_period) = MaxPolls(p)
    BY <2>2, <2>3, StoredPeriod
  <2> QED
    BY <1>6, <2>1, <2>2, <2>4 DEF ConsolePeriod
<1>9. CASE \E e \in BOOLEAN : ConsoleMailbox(e)
  <2>1. PICK e \in BOOLEAN : ConsoleMailbox(e)
    BY <1>9
  <2>2. /\ pc = "console" /\ pc' = "board" /\ UNCHANGED <<wd, reg, history>>
        /\ eeprom'.wd_period = eeprom.wd_period
    BY <2>1 DEF ConsoleMailbox, ParamsOK
  <2>3. (MaxPolls(eeprom.wd_period) <= Horizon)'
    BY <2>2 DEF CountInv, MaxPolls, Least
  <2>4. ToCount' = ToCount
    BY <2>2 DEF ToCount, wd
  <2> QED
    BY <2>2, <2>3, <2>4 DEF CountInv, wd, history
<1>10. CASE MmcReset
  <2>1. fpga_state' = "BOOT" /\ max_poll_counts' = DefaultPolls
        /\ eeprom'.wd_period = eeprom.wd_period
    BY <1>10 DEF MmcReset, ParamsOK
  <2>2. (MaxPolls(eeprom.wd_period) <= Horizon)'
    BY <2>1 DEF CountInv, MaxPolls, Least
  <2> QED
    BY <2>1, <2>2 DEF CountInv, HistoryReaches
<1>11. CASE BootReset \/ ConsoleReset \/ BoardReset \/ Callback
  BY <1>11, CountKept DEF BootReset, ConsoleReset, BoardReset, Callback, FPGAWD_SelfReset, params,
     history
<1>12. CASE Service \/ HandleHash \/ Output \/ ClearUpdate \/ Pend \/ PushMacIp \/ ClearPend
  BY <1>12, CountKept DEF Service, HandleHash, Output, ClearUpdate, Pend, PushMacIp, ClearPend,
     wd, params, history
<1>13. CASE EnableFpga \/ ConsoleIdle \/ ConsolePush \/ BoardIdle \/ PowerLost \/ PowerGood
              \/ BoardInitFails
  BY <1>13, CountKept DEF EnableFpga, ConsoleIdle, ConsolePush, BoardIdle, PowerLost, PowerGood,
     BoardInitFails, wd, params, history
<1>14. CASE MailboxTick \/ PushDelayPasses \/ ResetHoldPasses \/ HostAnswers \/ HostReboots
              \/ RailsDrop \/ RailsRise \/ UNCHANGED vars
  BY <1>14, CountKept DEF MailboxTick, PushDelayPasses, ResetHoldPasses, HostAnswers, HostReboots,
     RailsDrop, RailsRise, wd, loop, params, history, vars
<1> QED
  BY <1>1, <1>2, <1>3, <1>4, <1>5, <1>7, <1>8, <1>9, <1>10, <1>11, <1>12, <1>13, <1>14
     DEF Next, MainLoop

\* No user image is reset early: between the reload of the counter and the reset lie as many
\* polls as the period asks for, whatever DONE edges, resets, consoles and answers come between
\* (FPGAWD_Poll, FPGAWD_SetPeriod, watchdog.c), unless a DONE edge hit a decrement.
THEOREM FullCountHolds == ASSUME HistoryReaches PROVE Spec => FullCount
<1>1. Init => CountInv
  <2> SUFFICES ASSUME Init PROVE CountInv
    OBVIOUS
  <2>1. max_poll_counts = DefaultPolls /\ eeprom.wd_period = 0 /\ fpga_state = "BOOT"
    BY DEF Init
  <2> QED
    BY <2>1 DEF CountInv, HistoryReaches
<1>2. TypeOK /\ CountInv /\ [Next]_vars => CountInv'
  BY CountStep
<1>3. TypeOK /\ CountInv /\ [Next]_vars
        => [Fires => polls >= max_poll_counts \/ hit]_vars
  BY DEF Fires, CountInv, ToCount, TypeOK, CountersOK
<1> QED
  BY <1>1, <1>2, <1>3, TypeCorrect, PTL DEF Spec, FullCount
=============================================================================
