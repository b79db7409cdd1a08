SPECIFICATION DataSpec
CONSTANTS
  Width = 2
  Levels = 3
  Branch = 2
  Words = {1, 2, 3, 4}
  Elems = {1, 3}
  Text <- TextDef
  MaxLen <- MaxLenDef
  Hashes <- HashesDef
  Types <- TypesDef
  Sources <- SourcesDef
  TypeKey = 3
  VariantKey = 4
  SetKey = 1
  FuncKey = 1
  MaxText = 3
  MaxNodes = 3
  MaxIndent = 1
  Pieces <- PiecesDef
  Scalars <- ScalarsDef
INVARIANTS SameValue AllTraced
PROPERTY NeverRemovesAnother
CHECK_DEADLOCK FALSE
