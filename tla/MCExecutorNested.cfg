SPECIFICATION Spec
CONSTANTS
  N = 2
  DequeCap = 2
  a = a
  b = b
  c = c
  d = d
  Tasks = {a, b, c, d}
  Main = Main
  NoTask = NoTask
  Programs <- TwoParents
PROPERTY NestedGroupsComplete
CHECK_DEADLOCK FALSE
