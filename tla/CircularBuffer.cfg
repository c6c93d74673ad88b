SPECIFICATION Spec
CONSTANTS
  a = a
  b = b
  null = null
  Item <- MCItem
  NoItem <- null
  Capacity = 3
INVARIANT
  TypeOK
PROPERTY ImplementsQueue
