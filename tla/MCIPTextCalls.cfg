CONSTANTS
    OctetMax <- MCOctetMax
    HextetCount <- MCHextetCount
    ValueError = ValueError
    AddressValueError = AddressValueError
SPECIFICATION Spec
\* Each behaviour is one call of a side-effect-free conversion and ends there.
CHECK_DEADLOCK FALSE
INVARIANTS
    TypeOK
    IPAddressExact
    V6StrCanonical
    TextRoundTrip
    ClassifyMatchesTable
    EmbeddedV4RoundTrip
