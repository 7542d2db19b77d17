CONSTANTS
  Keys = {1, 2, 3}
  MaxLen = 6
SPECIFICATION Spec
INVARIANT AgreesWithSorting
PROPERTY HeapKept
