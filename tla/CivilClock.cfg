SPECIFICATION Spec
CONSTANTS
  TicksPerMs = 2
  FirstYear <- Before0
  LastYear = 2101
  DetailedYears <- Years
  Shifts <- FewShifts
  TimesOfDay <- DayEnds
  Zones <- SomeZones
  Letter = {1}
  MaxLetters = 6
  Moves <- FewMoves
  MaxMoved = 30
  DateFormats <- Texts
  WideFormats <- WideTexts
  CenturyFormats <- CenturyTexts
  Mixed <- FewMixed
  TimeFormats <- TimeTexts
INVARIANTS DatesMatchDays ArithmeticFollowsCalendar TimeSplitExact FormattedTimesSort SplitKeepsText 
CHECK_DEADLOCK FALSE
