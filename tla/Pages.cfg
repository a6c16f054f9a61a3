SPECIFICATION Spec
CONSTANTS
  u1 = u1  u2 = u2  m1 = m1  m2 = m2  h1 = h1  h2 = h2
  Users <- TwoUsers
  Messages <- TwoMessages
  Presses <- TwoPresses
  NoMessage = NoMessage
  MaxSize = 2
  MaxDrift = 1
  MaxRestarts = 1
SYMMETRY Symmetry
INVARIANTS Inv PageInBounds
PROPERTIES RendersInBounds ImplementsPager TurnedByOwner
