SPECIFICATION Spec
CONSTANTS
  A = A
  B = B
  C = C
  D = D
  E = E
  first = first
  second = second
  Roles = {r1, r2}
  Epochs = {A, B, C, D, E}
  Previous <- Follows
  Directories = {first, second}
  Directory <- KeptIn
  MaxStops = 1
  NULL = NULL
  Torn = Torn
INVARIANTS OpenedIsReady OneOpen
PROPERTY LineageFixed
CHECK_DEADLOCK FALSE
