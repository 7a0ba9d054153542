CONSTANTS
  asks = asks
  picky = picky
  Clients = {c1}
  Plugins = {asks, picky}
  Emitters = {picky}
  Crons = {picky}
  Kinds <- AllKinds
  ChanCap = 1
  BatchMax = 1
  MaxEvents = 3
SPECIFICATION Spec
INVARIANT TypeOK
INVARIANT StackBounded
INVARIANT NoFeedback
INVARIANT EveryoneAsked
INVARIANT PublishedOnce
INVARIANT AnswersInOrder
PROPERTY IsPublication
CHECK_DEADLOCK FALSE
