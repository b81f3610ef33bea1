SPECIFICATION CursorsSpec
CONSTANTS
  e1 = e1
  e2 = e2
  Client = {c1, c2}
  Editor = {e1, e2}
  Initial <- TwoTexts
  Ranges <- SomeRanges
  MaxTyped = 2
  MaxSelected = 2
  MaxFocused = 3
  Margin = 0
  Nil = Nil
  AtEnd = AtEnd
INVARIANTS
  DrawnTrue
  OneEditor
  HoverTrue
CHECK_DEADLOCK FALSE
SYMMETRY Clients
