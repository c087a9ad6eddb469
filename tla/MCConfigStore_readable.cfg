CONSTANTS
    MaxPort <- MCMaxPort
    KeyVals <- MCKeyVals
    ValueError = ValueError
    KeyError = KeyError
SPECIFICATION Spec
INVARIANT ConfigStaysReadable
