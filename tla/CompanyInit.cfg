SPECIFICATION FairSpec
CONSTANTS
    Calls = {c1, c2}
    Trees = {own, mine}
    UserTrees = {mine}
    UserFiles = {"agents"}
    Faults = {"probe", "files", "company", "chain", "git", "push", "registry", "line", "status"}
    Resets = {"plain", "project"}
    MaxExtras = 2
    Overlap <- Tame
INVARIANTS
    TypeOK
    SkeletonInPlace
    ReadyIsApplied
    StagesEarned
PROPERTIES
    ImplementsLadder
    SetupFinishes
