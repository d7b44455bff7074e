-------------------------- MODULE BoardPowerProofs --------------------------
(***************************************************************************)
(* Facts about the power supply and how the board follows it, for every    *)
(* number of channels, every table of limits and every length of filter.   *)
(***************************************************************************)
EXTENDS BoardPower, TLAPS

-----------------------------------------------------------------------------
(* The supply.                                                             *)

LEMMA ClampType == ASSUME NEW v \in Nat PROVE ltm4673_apply_limits(v) \in Nat
BY SupplyConstants DEF ltm4673_apply_limits

LEMMA SelectType ==
  ASSUME LtmTypeOK, NEW p \in Channels, Select(p)
  PROVE  ltm4673_page' \in Pages /\ page' \in Pages /\ synced' \in BOOLEAN
<1>1. ltm4673_page' \in Pages /\ page' \in Pages
  BY DEF LtmTypeOK, Select, Pages
<1>2. synced' \in BOOLEAN
  BY Zenon DEF LtmTypeOK, Select
<1> QED
  BY <1>1, <1>2

LEMMA XactType ==
  ASSUME LtmTypeOK, PMBridge_xact, UNCHANGED env PROVE LtmTypeOK'
<1>1. CASE \E p \in UserPages : WritePage(p)
  <2>1. PICK p \in UserPages : WritePage(p)
    BY <1>1
  <2>2. ltm4673_page' \in Pages /\ page' \in Pages /\ vout' \in [Channels -> Nat]
        /\ off' \subseteq Channels /\ latched' \subseteq Channels
    BY <2>1 DEF LtmTypeOK, WritePage, Select, env
  <2>3. flaky' \in BOOLEAN /\ synced' \in BOOLEAN /\ unlimited' \in BOOLEAN
    BY <2>1, Zenon DEF LtmTypeOK, WritePage, Select, env
  <2> QED
    BY <2>2, <2>3 DEF LtmTypeOK
<1>2. CASE ReadPage
  <2>1. ltm4673_page' \in Pages /\ page' \in Pages /\ vout' \in [Channels -> Nat]
        /\ off' \subseteq Channels /\ latched' \subseteq Channels
    BY <1>2 DEF LtmTypeOK, ReadPage, supply, env
  <2>2. flaky' \in BOOLEAN /\ synced' \in BOOLEAN /\ unlimited' \in BOOLEAN
    BY <1>2, Zenon DEF LtmTypeOK, ReadPage, supply, env
  <2> QED
    BY <2>1, <2>2 DEF LtmTypeOK
<1>3. CASE \E v \in Volts : WriteVout(v)
  <2>1. PICK v \in Volts : WriteVout(v)
    BY <1>3
  <2>2. v \in Nat /\ ltm4673_apply_limits(v) \in Nat
    BY ClampType, SupplyConstants
  <2>3. vout' \in [Channels -> Nat]
    BY <2>1, <2>2 DEF LtmTypeOK, WriteVout
  <2>4. ltm4673_page' \in Pages /\ page' \in Pages
        /\ off' \subseteq Channels /\ latched' \subseteq Channels
    BY <2>1 DEF LtmTypeOK, WriteVout, env
  <2>5. flaky' \in BOOLEAN /\ synced' \in BOOLEAN
    BY <2>1, Zenon DEF LtmTypeOK, WriteVout, env
  <2>6. (unlimited \/ ~synced \/ page = AllPages) \in BOOLEAN
    OBVIOUS
  <2>7. unlimited' \in BOOLEAN
    BY <2>1, <2>6, Zenon DEF WriteVout
  <2> QED
    BY <2>3, <2>4, <2>5, <2>7 DEF LtmTypeOK
<1>4. CASE ClearFaults
  <2>1. ltm4673_page' \in Pages /\ page' \in Pages /\ vout' \in [Channels -> Nat]
        /\ off' \subseteq Channels /\ latched' \subseteq Channels
    BY <1>4 DEF LtmTypeOK, ClearFaults, env
  <2>2. flaky' \in BOOLEAN /\ synced' \in BOOLEAN /\ unlimited' \in BOOLEAN
    BY <1>4, Zenon DEF LtmTypeOK, ClearFaults, env
  <2> QED
    BY <2>1, <2>2 DEF LtmTypeOK
<1> QED
  BY <1>1, <1>2, <1>3, <1>4 DEF PMBridge_xact

LEMMA TelemetryType ==
  ASSUME LtmTypeOK, ltm4673_update_telem, UNCHANGED env PROVE LtmTypeOK'
<1>1. PICK last \in Channels : Select(last)
  BY DEF ltm4673_update_telem
<1>2. ltm4673_page' \in Pages /\ page' \in Pages /\ synced' \in BOOLEAN
  BY <1>1, SelectType
<1>3. vout' \in [Channels -> Nat] /\ off' \subseteq Channels /\ latched' \subseteq Channels
  BY DEF ltm4673_update_telem, LtmTypeOK, env
<1>4. flaky' \in BOOLEAN /\ unlimited' \in BOOLEAN
  BY Zenon DEF ltm4673_update_telem, LtmTypeOK, env
<1> QED
  BY <1>2, <1>3, <1>4 DEF LtmTypeOK

LEMMA StatusType ==
  ASSUME LtmTypeOK, NEW good \in BOOLEAN, ltm4673_ch_status(good), UNCHANGED env
  PROVE  LtmTypeOK'
<1>1. PICK c \in Channels : \E last \in 0 .. c : Select(last)
  BY DEF ltm4673_ch_status
<1>2. PICK last \in 0 .. c : Select(last)
  BY <1>1
<1>3. last \in Channels
  BY SupplyConstants DEF Channels
<1>4. ltm4673_page' \in Pages /\ page' \in Pages /\ synced' \in BOOLEAN
  BY <1>2, <1>3, SelectType
<1>5. vout' \in [Channels -> Nat] /\ off' \subseteq Channels /\ latched' \subseteq Channels
  BY DEF ltm4673_ch_status, LtmTypeOK, env
<1>6. flaky' \in BOOLEAN /\ unlimited' \in BOOLEAN
  BY Zenon DEF ltm4673_ch_status, LtmTypeOK, env
<1> QED
  BY <1>4, <1>5, <1>6 DEF LtmTypeOK

LEMMA StartType == ASSUME LtmTypeOK, ltm4673_init, UNCHANGED env PROVE LtmTypeOK'
<1>1. ltm4673_page' \in Pages /\ page' \in Pages /\ vout' \in [Channels -> Nat]
      /\ off' \subseteq Channels /\ latched' \subseteq Channels
  BY DEF ltm4673_init, supply, LtmTypeOK, env
<1>2. flaky' \in BOOLEAN /\ synced' \in BOOLEAN /\ unlimited' \in BOOLEAN
  BY Zenon DEF ltm4673_init, LtmTypeOK, env
<1> QED
  BY <1>1, <1>2 DEF LtmTypeOK

LEMMA IdleType == ASSUME LtmTypeOK, UNCHANGED ltmVars, UNCHANGED env PROVE LtmTypeOK'
<1>1. ltm4673_page' \in Pages /\ page' \in Pages /\ vout' \in [Channels -> Nat]
      /\ off' \subseteq Channels /\ latched' \subseteq Channels
  BY DEF ltmVars, LtmTypeOK, env
<1>2. flaky' \in BOOLEAN /\ synced' \in BOOLEAN /\ unlimited' \in BOOLEAN
  BY Zenon DEF ltmVars, LtmTypeOK, env
<1> QED
  BY <1>1, <1>2 DEF LtmTypeOK

-----------------------------------------------------------------------------
(* Types of the whole: the places are arithmetic and first-order, the      *)
(* flags first-order.                                                      *)

PlacesOK ==
  /\ rev \in {"old", "new"}
  /\ pc \in {"pmInit", "check", "xpoint", "reset", "service"}
  /\ caller \in {"boot", "powerGood", "reboot"}
  /\ pwr_state \in 0 .. PWR_GOOD

FlagsOK ==
  /\ over_temp \in BOOLEAN /\ pwr_good \in BOOLEAN /\ do_reboot \in BOOLEAN
  /\ rebootDue \in BOOLEAN /\ hot \in BOOLEAN
  /\ clocks \in BOOLEAN /\ missed \in BOOLEAN

LEMMA TypeParts == TypeOK <=> LtmTypeOK /\ PlacesOK /\ FlagsOK
BY Zenon DEF TypeOK, PlacesOK, FlagsOK

LEMMA InitType == Init => TypeOK
<1> SUFFICES ASSUME Init PROVE TypeOK
  OBVIOUS
<1>1. 0 \in Channels /\ 0 \in Pages
  BY SupplyConstants DEF Channels, Pages
<1>2. ltm4673_page \in Pages /\ page \in Pages /\ vout \in [Channels -> Nat]
      /\ off \subseteq Channels /\ latched \subseteq Channels
  BY <1>1, SupplyConstants, PowerConstants DEF Init, LtmInit
<1>3. flaky \in BOOLEAN /\ synced \in BOOLEAN /\ unlimited \in BOOLEAN
  BY Zenon DEF Init, LtmInit
<1>4. LtmTypeOK
  BY <1>2, <1>3 DEF LtmTypeOK
<1>5. PlacesOK
  BY PowerConstants DEF Init, MmcInit, PlacesOK
<1>6. FlagsOK
  BY ZenonT(30) DEF Init, MmcInit, FlagsOK
<1> QED
  BY <1>4, <1>5, <1>6, TypeParts

LEMMA PlacesStep == TypeOK /\ [Next]_vars => PlacesOK'
<1> SUFFICES ASSUME TypeOK, [Next]_vars PROVE PlacesOK'
  OBVIOUS
<1>1. PlacesOK
  BY TypeParts
<1>2. CASE I2C_PM_init
  BY <1>1, <1>2 DEF I2C_PM_init, PlacesOK, env
<1>3. CASE Check
  BY <1>1, <1>3, PowerConstants DEF Check, PlacesOK, env
<1>4. CASE Xpoint
  BY <1>1, <1>4 DEF Xpoint, PlacesOK, env
<1>5. CASE Reset
  BY <1>1, <1>5 DEF Reset, PlacesOK, env
<1>6. CASE board_service
  BY <1>1, <1>6, PowerConstants
  DEF board_service, RebootAfterDelay, FilterPWRGD, PowerUp, PowerDown, board_init, PlacesOK, env
<1>7. CASE system_service
  BY <1>1, <1>7 DEF system_service, PlacesOK, mmc, env
<1>8. CASE DelayPasses
  BY <1>1, <1>8 DEF DelayPasses, PlacesOK, env
<1>9. CASE Environment
  BY <1>1, <1>9, PowerConstants
  DEF Environment, ChannelFails, ChannelReturns, BusChanges, TemperatureChanges, MmcRestarts,
      PlacesOK, mmc, env
<1>10. CASE UNCHANGED vars
  BY <1>1, <1>10 DEF PlacesOK, vars, mmc, env
<1> QED
  BY <1>2, <1>3, <1>4, <1>5, <1>6, <1>7, <1>8, <1>9, <1>10 DEF Next, MainLoop

LEMMA FlagsStep == TypeOK /\ [Next]_vars => FlagsOK'
<1> SUFFICES ASSUME TypeOK, [Next]_vars PROVE FlagsOK'
  OBVIOUS
<1>1. FlagsOK
  BY TypeParts
<1>2. CASE I2C_PM_init
  BY <1>1, <1>2, Zenon DEF I2C_PM_init, FlagsOK, env, crosspoint
<1>3. CASE Check
  BY <1>1, <1>3, Zenon DEF Check, FlagsOK, env, crosspoint
<1>4. CASE Xpoint
  <2>1. clocks' \in BOOLEAN /\ missed' \in BOOLEAN
    BY <1>1, <1>4, Zenon DEF Xpoint, FlagsOK
  <2> QED
    BY <1>1, <1>4, <2>1, Zenon DEF Xpoint, FlagsOK, env
<1>5. CASE Reset
  BY <1>1, <1>5, Zenon DEF Reset, FlagsOK, env, crosspoint
<1>6. CASE board_service
  <2> DEFINE cleared == over_temp /\ ~hot
  <2>1. (do_reboot \/ cleared) \in BOOLEAN /\ (rebootDue /\ ~cleared) \in BOOLEAN
        /\ (pwr_good /\ ~(pwr_state = 1)) \in BOOLEAN
    OBVIOUS
  <2>2. CASE rev = "old"
    <3>1. RebootAfterDelay(cleared)
      BY <1>6, <2>2, Zenon DEF board_service
    <3> HIDE DEF cleared
    <3> QED
      BY <1>1, <1>6, <2>1, <3>1, ZenonT(30)
      DEF board_service, RebootAfterDelay, board_init, FlagsOK, env, crosspoint
  <2>3. CASE rev # "old"
    <3>1. FilterPWRGD(cleared)
      BY <1>6, <2>3, Zenon DEF board_service
    <3> HIDE DEF cleared
    <3>2. pwr_good' \in BOOLEAN
      BY <1>1, <2>1, <3>1, ZenonT(30) DEF FilterPWRGD, PowerUp, PowerDown, FlagsOK
    <3> QED
      BY <1>1, <1>6, <2>1, <3>1, <3>2, ZenonT(30)
      DEF board_service, FilterPWRGD, FlagsOK, env, crosspoint
  <2> QED
    BY <2>2, <2>3
<1>7. CASE system_service
  BY <1>1, <1>7, Zenon DEF system_service, FlagsOK, mmc, env, crosspoint
<1>8. CASE DelayPasses
  BY <1>1, <1>8, Zenon DEF DelayPasses, FlagsOK, env, crosspoint
<1>9. CASE \E c \in Channels : ChannelFails(c) \/ ChannelReturns(c)
  <2>1. PICK c \in Channels : ChannelFails(c) \/ ChannelReturns(c)
    BY <1>9
  <2>2. (clocks /\ c # Rail33) \in BOOLEAN /\ (missed /\ c # Rail33) \in BOOLEAN
    OBVIOUS
  <2> QED
    BY <1>1, <2>1, <2>2, ZenonT(30) DEF ChannelFails, ChannelReturns, FlagsOK, mmc, crosspoint
<1>10. CASE BusChanges \/ TemperatureChanges \/ MmcRestarts
  <2>1. (~hot) \in BOOLEAN
    OBVIOUS
  <2> QED
    BY <1>1, <1>10, <2>1, ZenonT(30)
    DEF BusChanges, TemperatureChanges, MmcRestarts, FlagsOK, mmc, env, crosspoint
<1>11. CASE UNCHANGED vars
  BY <1>1, <1>11, Zenon DEF FlagsOK, vars, mmc, env, crosspoint
<1> QED
  BY <1>2, <1>3, <1>4, <1>5, <1>6, <1>7, <1>8, <1>9, <1>10, <1>11 DEF Next, MainLoop, Environment

LEMMA SupplyStep == TypeOK /\ [Next]_vars => LtmTypeOK'
<1> SUFFICES ASSUME TypeOK, [Next]_vars PROVE LtmTypeOK'
  OBVIOUS
<1>1. LtmTypeOK
  BY TypeParts
<1>2. CASE I2C_PM_init
  <2>1. UNCHANGED env /\ (ltm4673_init \/ UNCHANGED ltmVars)
    BY <1>2 DEF I2C_PM_init
  <2> QED
    BY <1>1, <2>1, StartType, IdleType
<1>3. CASE Check
  <2>1. PICK good \in BOOLEAN : UNCHANGED ltmVars \/ ltm4673_ch_status(good)
    BY <1>3 DEF Check
  <2>2. UNCHANGED env
    BY <1>3 DEF Check
  <2> QED
    BY <1>1, <2>1, <2>2, StatusType, IdleType
<1>4. CASE Xpoint \/ Reset \/ board_service \/ DelayPasses \/ UNCHANGED vars
  <2>1. UNCHANGED env /\ UNCHANGED ltmVars
    BY <1>4 DEF Xpoint, Reset, board_service, DelayPasses, vars
  <2> QED
    BY <1>1, <2>1, IdleType
<1>5. CASE system_service
  <2>1. UNCHANGED env /\ (ltm4673_update_telem \/ PMBridge_xact)
    BY <1>5 DEF system_service
  <2> QED
    BY <1>1, <2>1, TelemetryType, XactType
<1>6. CASE \E c \in Channels : ChannelFails(c) \/ ChannelReturns(c)
  <2>1. PICK c \in Channels : ChannelFails(c) \/ ChannelReturns(c)
    BY <1>6
  <2>2. ltm4673_page' \in Pages /\ page' \in Pages /\ vout' \in [Channels -> Nat]
        /\ off' \subseteq Channels /\ latched' \subseteq Channels
    BY <1>1, <2>1 DEF ChannelFails, ChannelReturns, LtmTypeOK, ltmVars
  <2>3. flaky' \in BOOLEAN /\ synced' \in BOOLEAN /\ unlimited' \in BOOLEAN
    BY <1>1, <2>1, Zenon DEF ChannelFails, ChannelReturns, LtmTypeOK, ltmVars
  <2> QED
    BY <2>2, <2>3 DEF LtmTypeOK
<1>7. CASE BusChanges \/ TemperatureChanges \/ MmcRestarts
  <2>1. 0 \in Pages
    BY SupplyConstants DEF Channels, Pages
  <2>2. ltm4673_page' \in Pages /\ page' \in Pages /\ vout' \in [Channels -> Nat]
        /\ off' \subseteq Channels /\ latched' \subseteq Channels
    BY <1>1, <1>7, <2>1
    DEF BusChanges, TemperatureChanges, MmcRestarts, LtmTypeOK, ltmVars, env, supply
  <2>3. (~flaky) \in BOOLEAN
    OBVIOUS
  <2>4. flaky' \in BOOLEAN /\ synced' \in BOOLEAN /\ unlimited' \in BOOLEAN
    BY <1>1, <1>7, <2>3, ZenonT(30)
    DEF BusChanges, TemperatureChanges, MmcRestarts, LtmTypeOK, ltmVars, env
  <2> QED
    BY <2>2, <2>4 DEF LtmTypeOK
<1> QED
  BY <1>2, <1>3, <1>4, <1>5, <1>6, <1>7 DEF Next, MainLoop, Environment

\* Every reachable state has the types of TypeOK (marble_board.c, ltm4673.c).
THEOREM TypeCorrect == Spec => []TypeOK
<1>1. TypeOK /\ [Next]_vars => TypeOK'
  <2> SUFFICES ASSUME TypeOK, [Next]_vars PROVE TypeOK'
    OBVIOUS
  <2>1. LtmTypeOK' /\ PlacesOK' /\ FlagsOK'
    BY SupplyStep, PlacesStep, FlagsStep
  <2> QED
    BY <2>1, Zenon DEF TypeOK, PlacesOK, FlagsOK
<1> QED
  BY <1>1, InitType, PTL DEF Spec

-----------------------------------------------------------------------------
(* The shadow of PAGE.  Every transaction that can move the page is one of *)
(* Select's, a refused write, or a read; the others leave both alone.      *)

ShadowVars == <<ltm4673_page, page, synced>>

LEMMA SelectShadow ==
  ASSUME ShadowAgrees, NEW p, Select(p) \/ UNCHANGED ShadowVars PROVE ShadowAgrees'
<1>1. ltm4673_page' = page' \/ (ltm4673_page' = ltm4673_page /\ page' = page /\ synced' = synced)
  BY DEF ShadowVars, Select
<1> QED
  BY <1>1, Zenon DEF ShadowAgrees

LEMMA ShadowStep == ShadowAgrees /\ [Next]_vars => ShadowAgrees'
<1> SUFFICES ASSUME ShadowAgrees, [Next]_vars PROVE ShadowAgrees'
  OBVIOUS
<1>1. ASSUME ltm4673_init PROVE ShadowAgrees'
  BY <1>1, Zenon DEF ltm4673_init, supply, ShadowAgrees
<1>2. ASSUME PMBridge_xact PROVE ShadowAgrees'
  <2>1. CASE \E p \in UserPages : WritePage(p)
    <3>1. PICK p \in UserPages : Select(p) \/ UNCHANGED ShadowVars
      BY <2>1 DEF WritePage, ShadowVars
    <3> QED
      BY <3>1, SelectShadow
  <2>2. CASE ReadPage
    BY <2>2, Zenon DEF ReadPage, supply, ShadowAgrees
  <2>3. CASE (\E v \in Volts : WriteVout(v)) \/ ClearFaults
    <3>1. UNCHANGED ShadowVars
      BY <2>3 DEF WriteVout, ClearFaults, ShadowVars
    <3> QED
      BY <3>1, SelectShadow
  <2> QED
    BY <1>2, <2>1, <2>2, <2>3 DEF PMBridge_xact
<1>3. ASSUME UNCHANGED ShadowVars PROVE ShadowAgrees'
  BY <1>3, SelectShadow
<1>4. CASE I2C_PM_init
  <2>1. ltm4673_init \/ UNCHANGED ShadowVars
    BY <1>4 DEF I2C_PM_init, ltmVars, ShadowVars
  <2> QED
    BY <1>1, <1>3, <2>1
<1>5. CASE Check
  <2>1. (\E p : Select(p)) \/ UNCHANGED ShadowVars
    BY <1>5 DEF Check, ltm4673_ch_status, ltmVars, ShadowVars
  <2> QED
    BY <2>1, <1>3, SelectShadow
<1>6. CASE system_service
  <2>1. (\E p : Select(p)) \/ PMBridge_xact
    BY <1>6 DEF system_service, ltm4673_update_telem
  <2> QED
    BY <2>1, <1>2, SelectShadow
<1>7. CASE MmcRestarts
  BY <1>7, Zenon DEF MmcRestarts, ShadowAgrees
<1>8. CASE Xpoint \/ Reset \/ board_service \/ DelayPasses \/ UNCHANGED vars
           \/ BusChanges \/ TemperatureChanges
           \/ \E c \in Channels : ChannelFails(c) \/ ChannelReturns(c)
  <2>1. UNCHANGED ShadowVars
    BY <1>8 DEF Xpoint, Reset, board_service, DelayPasses, vars, BusChanges, TemperatureChanges,
       ChannelFails, ChannelReturns, ltmVars, ShadowVars
  <2> QED
    BY <2>1, <1>3
<1> QED
  BY <1>4, <1>5, <1>6, <1>7, <1>8 DEF Next, MainLoop, Environment

\* The shadow of the PAGE register is right, once set (ltm4673_hook_write, ltm4673_hook_read).
THEOREM ShadowAgreesHolds == Spec => []ShadowAgrees
<1>1. Init => ShadowAgrees
  BY Zenon DEF Init, LtmInit, ShadowAgrees
<1> QED
  BY <1>1, ShadowStep, PTL DEF Spec

-----------------------------------------------------------------------------
(* The limits of VOUT_COMMAND.  A write that counts is one with the shadow *)
(* set and the page of one channel, so the limits applied are those of the *)
(* channel that is written: that is what ShadowAgrees is needed for.       *)

LEMMA ClampWithin ==
  ASSUME NEW v \in Nat, ltm4673_page \in Channels
  PROVE  ltm4673_apply_limits(v) \in LowLimit[ltm4673_page] .. HighLimit[ltm4673_page]
BY SupplyConstants DEF ltm4673_apply_limits

LEMMA WriteVoutWithin ==
  ASSUME TypeOK, ShadowAgrees, VoutWithin, NEW v \in Volts, WriteVout(v) PROVE VoutWithin'
<1> SUFFICES ASSUME ~unlimited'
             PROVE  \A c \in Channels : vout'[c] \in LowLimit[c] .. HighLimit[c]
  BY DEF VoutWithin
<1>1. ~unlimited /\ synced /\ page # AllPages
  BY DEF WriteVout
<1>2. ltm4673_page = page /\ page \in Channels
  BY <1>1 DEF ShadowAgrees, TypeOK, LtmTypeOK, Pages
<1>3. v \in Nat
  BY SupplyConstants
<1>4. ltm4673_apply_limits(v) \in LowLimit[page] .. HighLimit[page]
  BY <1>2, <1>3, ClampWithin
<1>5. \A c \in Channels : vout[c] \in LowLimit[c] .. HighLimit[c]
  BY <1>1 DEF VoutWithin
<1> TAKE c \in Channels
<1>6. CASE page = c
  <2>1. vout'[c] = ltm4673_apply_limits(v)
    BY <1>6 DEF WriteVout
  <2> QED
    BY <2>1, <1>4, <1>6
<1>7. CASE page # c
  <2>1. vout'[c] = vout[c]
    BY <1>1, <1>7 DEF WriteVout
  <2> QED
    BY <2>1, <1>5
<1> QED
  BY <1>6, <1>7

LEMMA VoutStep == TypeOK /\ ShadowAgrees /\ VoutWithin /\ [Next]_vars => VoutWithin'
<1> SUFFICES ASSUME TypeOK, ShadowAgrees, VoutWithin, [Next]_vars PROVE VoutWithin'
  OBVIOUS
<1>1. ASSUME vout' = vout, unlimited' = unlimited PROVE VoutWithin'
  BY <1>1 DEF VoutWithin
<1>2. CASE I2C_PM_init
  BY <1>1, <1>2 DEF I2C_PM_init, ltm4673_init, supply, ltmVars
<1>3. CASE Check
  BY <1>1, <1>3 DEF Check, ltm4673_ch_status, ltmVars
<1>4. CASE system_service
  <2>1. CASE ltm4673_update_telem
    BY <1>1, <2>1 DEF ltm4673_update_telem
  <2>2. CASE \E v \in Volts : WriteVout(v)
    BY <2>2, WriteVoutWithin
  <2>3. CASE (\E p \in UserPages : WritePage(p)) \/ ReadPage \/ ClearFaults
    BY <1>1, <2>3 DEF WritePage, ReadPage, ClearFaults, supply
  <2> QED
    BY <1>4, <2>1, <2>2, <2>3 DEF system_service, PMBridge_xact
<1>5. CASE Xpoint \/ Reset \/ board_service \/ DelayPasses \/ Environment \/ UNCHANGED vars
  <2>1. vout' = vout /\ unlimited' = unlimited
    BY <1>5 DEF Xpoint, Reset, board_service, DelayPasses, vars, Environment, BusChanges,
       TemperatureChanges, ChannelFails, ChannelReturns, MmcRestarts, supply, ltmVars
  <2> QED
    BY <2>1, <1>1
<1> QED
  BY <1>2, <1>3, <1>4, <1>5 DEF Next, MainLoop

\* No channel is set outside its own limits from the console, as long as the page for all channels
\* is not used and the shadow has been set (ltm4673_apply_limits_cmd).
THEOREM VoutWithinHolds == Spec => []VoutWithin
<1>1. Init => VoutWithin
  BY SupplyConstants DEF Init, LtmInit, VoutWithin
<1> QED
  BY <1>1, VoutStep, TypeCorrect, ShadowAgreesHolds, PTL DEF Spec

-----------------------------------------------------------------------------
(* The crosspoint.  GoodIsSetUp is strengthened to the step before the     *)
(* service loop and to outages of other channels than its own; only old    *)
(* boards reboot, which is what makes good a board that failed its check.  *)

CrosspointInv ==
  /\ caller = "reboot" => rev = "old"
  /\ rev = "new" /\ pc \in {"reset", "service"} /\ pwr_good /\ Rail33 \notin off
       => clocks \/ missed

LEMMA CrosspointStep == TypeOK /\ CrosspointInv /\ [Next]_vars => CrosspointInv'
<1> SUFFICES ASSUME TypeOK, CrosspointInv, [Next]_vars PROVE CrosspointInv'
  OBVIOUS
<1> USE DEF CrosspointInv
<1>1. CASE I2C_PM_init
  BY <1>1 DEF I2C_PM_init, env, crosspoint
<1>2. CASE Check
  BY <1>2 DEF Check, env, crosspoint
<1>3. CASE Xpoint
  BY <1>3 DEF Xpoint, env, crosspoint
<1>4. CASE Reset
  BY <1>4 DEF Reset, env, crosspoint
<1>5. CASE board_service
  <2>1. CASE rev = "old"
    BY <1>5, <2>1 DEF board_service, RebootAfterDelay, board_init, env, crosspoint
  <2>2. CASE rev # "old"
    BY <1>5, <2>2 DEF board_service, FilterPWRGD, PowerUp, PowerDown, board_init, env, crosspoint
  <2> QED
    BY <2>1, <2>2
<1>6. CASE system_service \/ UNCHANGED vars
  BY <1>6 DEF system_service, vars, mmc, env, crosspoint
<1>7. CASE DelayPasses
  BY <1>7 DEF DelayPasses, env, crosspoint
<1>8. CASE \E c \in Channels : ChannelFails(c)
  <2>1. PICK c \in Channels : ChannelFails(c)
    BY <1>8
  <2>2. Rail33 \notin off' => Rail33 \notin off /\ c # Rail33
    BY <2>1 DEF ChannelFails
  <2>3. rev' = rev /\ pc' = pc /\ caller' = caller /\ pwr_good' = pwr_good
    BY <2>1 DEF ChannelFails, mmc
  <2>4. clocks' = (clocks /\ c # Rail33) /\ missed' = (missed /\ c # Rail33)
    BY <2>1, Zenon DEF ChannelFails
  <2> QED
    BY <2>2, <2>3, <2>4, Zenon
<1>9. CASE \E c \in Channels : ChannelReturns(c)
  BY <1>9 DEF ChannelReturns, mmc, crosspoint, TypeOK
<1>10. CASE BusChanges \/ TemperatureChanges
  BY <1>10 DEF BusChanges, TemperatureChanges, mmc, crosspoint
<1>11. CASE MmcRestarts
  BY <1>11 DEF MmcRestarts, env, crosspoint
<1> QED
  BY <1>1, <1>2, <1>3, <1>4, <1>5, <1>6, <1>7, <1>8, <1>9, <1>10, <1>11
  DEF Next, MainLoop, Environment

\* A board from v1.4 that says its power is good, when it is, has its clock crosspoint set up, or
\* has tried to with the crosspoint under power and lost writes that adn4600_init does not check
\* (board_service, mgtclk_xpoint_en).
THEOREM GoodIsSetUpHolds == Spec => []GoodIsSetUp
<1>1. Init => CrosspointInv
  BY DEF Init, MmcInit, CrosspointInv
<1>2. CrosspointInv => GoodIsSetUp
  BY DEF CrosspointInv, GoodIsSetUp, PWRGD
<1> QED
  BY <1>1, <1>2, CrosspointStep, TypeCorrect, PTL DEF Spec
=============================================================================
