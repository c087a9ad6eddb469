CONSTANTS
    MaxPort <- MCMaxPort
    KeyVals <- MCKeyVals
    ValueError = ValueError
    KeyError = KeyError
SPECIFICATION Spec
PROPERTY KeysPreserved
