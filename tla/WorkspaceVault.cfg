SPECIFICATION VSpec
CONSTANTS
    Runs = {r1, r2, r3}
    NumEntries = 2
    Trees = {1}
    Initial = {1}
    Old = Old
    Absent = Absent
    Damaged = Damaged
    Nobody = Nobody
    MaxTrouble = 2
SYMMETRY RunSymmetry
INVARIANTS
    FailedNeverShown
PROPERTIES
    CommittedStays
    VaultAtomic
