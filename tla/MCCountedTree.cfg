SPECIFICATION Spec
CONSTANTS
    Trees <- MCIncomplete
    U8_MAX = 3
    U32_MAX = 7
    U64_MAX = 15
    PKG_MAX = 200
    BUFFER = 1300
INVARIANT CountedTreeIsWritten
