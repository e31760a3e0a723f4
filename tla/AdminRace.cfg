SPECIFICATION TSpec
CONSTANTS
    Users = {u1}
    Admins = {a1}
    DailyLimit = 2
    Cooldown = 2
    DayLength = 3
    MaxTime = 2
    MaxRequest = 1
    LostAnswers = FALSE
    ListingFails = FALSE
CHECK_DEADLOCK FALSE
INVARIANT
    OneRunAtATime
