CONSTANTS
  PageSize = 30
  MaxPages = 2
  HeaderSize = 1
  EntrySize = 3
  TypeSize = 1
  FieldsSize = 2
  Half = 256
  MaxFile = 40
  HeapPages = 1
  MaxMapped = 4
  MaxArgs = 2
  MaxEnv = 2
  MaxString = 3
  WordSize = 2
  Align = 4
  Unreadable <- MCUnreadable
  Inputs <- MCInputs
SPECIFICATION Spec
INVARIANTS
  PlainImagesLoad
  LoadExact
  StackFits
  ArgumentsArrive
