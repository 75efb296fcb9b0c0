SPECIFICATION Spec
CONSTANTS
    People = {owner, member}
    Owner = owner
    MaxKeys <- TwoOfTheOwner
    Faults = 1
    Nobody = Nobody
INVARIANTS
    OncePerWish
    GivenOrder
    ToldIsDone
CHECK_DEADLOCK FALSE
