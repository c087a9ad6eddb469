CONSTANTS
    h1 = h1
    h2 = h2
    Bad = Bad
    Hosts <- MCHosts
    ProgramsMayFail = FALSE
SYMMETRY MCSymmetry
SPECIFICATION Spec
INVARIANT NoUnboundTstamp
