\* Every basis, rate and quantity, with up to two rows of each kind.
SPECIFICATION Spec
CONSTANTS
    Grain = 4
    Parts <- SmallParts
    Quantities = {3}
    Amounts <- SmallAmounts
    MaxItems = 2
INVARIANTS
    TypeOK
    NetWithinHalfCent
    SlipAddsUp
CHECK_DEADLOCK FALSE
