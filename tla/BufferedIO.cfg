CONSTANTS
  x = x
  y = y
  t1 = t1
  t2 = t2
  None = None
  Callers = {t1, t2}
  Bytes = {x, y}
  BufferSize = 2
  MaxSize = 3
  Requests = {1, 2, 3}
  Payloads <- Some
  Uses <- Kinds
SPECIFICATION BufferSpec
INVARIANT BufferSound
PROPERTY ImplementsFile
