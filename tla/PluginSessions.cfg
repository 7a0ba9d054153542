CONSTANTS
  Rooms = {r1, r2}
  Callers = {k1, k2}
  Nil = Nil
SPECIFICATION Spec
INVARIANT TypeOK
INVARIANT HelperServed
PROPERTY ChangesAnyway
PROPERTY CalledAgain
CHECK_DEADLOCK FALSE
