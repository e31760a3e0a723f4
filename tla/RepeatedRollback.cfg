SPECIFICATION VSpec
CONSTANTS
    Runs = {r1, r2}
    NumEntries = 1
    Trees = {1}
    Initial = {1}
    Old = Old
    Absent = Absent
    Damaged = Damaged
    Nobody = Nobody
    MaxTrouble = 2
INVARIANT
    OutputsSurvive
