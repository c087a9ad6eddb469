CONSTANTS
    W4 <- MCW4
    W6 <- MCW6
    NONE = NONE
    TypeError = TypeError
    ValueError = ValueError
    IndexError = IndexError
    NetmaskValueError = NetmaskValueError
    AddressValueError = AddressValueError
SPECIFICATION Spec
\* A call of address_exclude returns or raises: the terminal states are real.
CHECK_DEADLOCK FALSE
INVARIANTS
    TypeOK
    ReturnedSorted
PROPERTIES
    RefinesAbstractExclude
