SPECIFICATION TSpec
CONSTANTS
    Users = {u1, u2, u3, u4}
    Admins = {}
    DailyLimit = 2
    Cooldown = 1
    DayLength = 6
    MaxTime = 3
    MaxRequest = 2
    LostAnswers = FALSE
    ListingFails = FALSE
CHECK_DEADLOCK FALSE
SYMMETRY TriggerSymmetry
INVARIANT
    AcceptedWithinLimit
