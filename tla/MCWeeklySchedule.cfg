CONSTANTS
    DaysPerWeek = 7
    MinutesPerDay = 3
    MaxSchedules = 2
    Times = {0, 2}
SPECIFICATION TableSpec
INVARIANTS NearestIsFound
