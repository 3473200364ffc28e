\* Every sequence of six strokes.
CONSTANTS
  Strokes <- MCStrokes
  ExitLine <- MCExitLine
  MaxStrokes = 6
SPECIFICATION Spec
INVARIANT TypeOK
PROPERTY ImplementsEditor
CHECK_DEADLOCK FALSE
