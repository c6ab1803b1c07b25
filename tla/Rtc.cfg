SPECIFICATION Spec
CONSTANTS
  EndDay = 24836
  CallDays = {0, 789, 11015, 24836}
  Calendars <- MCCalendars
  MaxCalls = 3
  MaxMoves = 3
INVARIANTS to_tmRight mktimeRight
PROPERTY ClockKeepsTime
