----------------------------- MODULE FanMapping -----------------------------
(***************************************************************************)
(* sync/fan_mapping.h: the conversions between the six fan levels of the   *)
(* unit, the Matter percent axis and the coarse FanMode ranges.  A         *)
(* FanSpeed is a level 1..6 or FanAuto, the nullopt of the code.           *)
(***************************************************************************)
EXTENDS Integers

kFanSpeedMax == 6

FanAuto   == 0
FanLevels == 1..kFanSpeedMax      \* Quiet, Low, MidLow, Medium, MidHigh, High
FanSpeeds == FanLevels \cup {FanAuto}
MidLow    == 3

FanModeCategories == {"Off", "Low", "Medium", "High", "Auto"}

speedLevelToPercent(level) == (level * 100) \div kFanSpeedMax

\* Mutant: rounds up once too often and is not clamped.
percentToSpeedLevelUnclamped(percent) == (kFanSpeedMax * percent + 99) \div 100 + 1

percentToSpeedLevel(percent) ==
    LET raw == (kFanSpeedMax * percent + 99) \div 100
    IN  CASE raw < 1            -> 1
          [] raw > kFanSpeedMax -> kFanSpeedMax
          [] OTHER              -> raw

fanModeOf(speed) ==
    CASE speed = FanAuto -> "Auto"
      [] speed \in 1..2  -> "Low"
      [] speed \in 3..4  -> "Medium"
      [] OTHER           -> "High"

\* Mutant: the level below, which for Medium is the top of Low's range.
representativeSpeedBelow(category) ==
    CASE category = "Medium" -> 2
      [] category = "High"   -> 6
      [] OTHER               -> 2

\* The level a FanMode write lands on.
representativeSpeed(category) ==
    CASE category = "Medium" -> 4
      [] category = "High"   -> 6
      [] OTHER               -> 2
=============================================================================
