CONSTANTS
  Event = {e1, e2, e3}
  Size = 4
  Nil = nil
SPECIFICATION RingSpec
INVARIANT NoNilRead
INVARIANT WalkIsContents
PROPERTY IsRecent
