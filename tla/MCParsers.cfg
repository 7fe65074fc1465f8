SPECIFICATION Spec
INVARIANTS
    
    
    JsonRight
    Base64Right
    UnescapedInPlace
    GmtimeRight
\* A text ends.
CHECK_DEADLOCK FALSE
