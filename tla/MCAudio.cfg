SPECIFICATION Spec
CONSTANTS
    Blocks = {b1, b2, b3}
    NULL = NULL
    MaxMsgs = 2
INVARIANTS
    TypeOK
    BufferSafe
    NoLeak
    
 
