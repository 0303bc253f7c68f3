SPECIFICATION Spec
CONSTANTS
  A = A
  B = B
  C = C
  D = D
  E = E
  first = first
  second = second
  Roles = {r1}
  Epochs = {A, B, E}
  Previous <- Follows
  Directories = {first, second}
  Directory <- KeptIn
  MaxStops = 1
  NULL = NULL
  Torn = Torn
INVARIANT PreviousRefuses
CHECK_DEADLOCK FALSE
