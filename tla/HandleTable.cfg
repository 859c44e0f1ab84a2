SPECIFICATION Spec
CONSTANTS
    h1 = h1
    h2 = h2
    h3 = h3
    h4 = h4
    h5 = h5
    h6 = h6
    k1 = k1
    k2 = k2
    k3 = k3
    k4 = k4
    k5 = k5
    nullptr = nullptr
    Handles <- MCHandles
    Keys <- MCKeys
    KeyOf <- MCKeyOf
    Hash <- MCHash
INVARIANTS
    ChainsSound
    CountIsExact
PROPERTIES
    ImplementsMap
