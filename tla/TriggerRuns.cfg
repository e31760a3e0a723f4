SPECIFICATION TSpec
CONSTANTS
    Users = {u1, u2, u3}
    Admins = {a1}
    DailyLimit = 2
    Cooldown = 2
    DayLength = 5
    MaxTime = 5
    MaxRequest = 1
    LostAnswers = TRUE
    ListingFails = TRUE
CHECK_DEADLOCK FALSE
SYMMETRY TriggerSymmetry
INVARIANTS
    AcceptedWithinLimit
    CooldownKept
    UserRunsDontOverlap
