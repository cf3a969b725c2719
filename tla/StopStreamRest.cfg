\* The rest of the text behind a stop sequence.
SPECIFICATION TextSpec
CONSTANTS
  a = a  b = b
  Letters <- AB
  Pieces <- PiecesUpTo2
  Stops <- SomeStops
  MaxLength = 6
CHECK_DEADLOCK FALSE
INVARIANT NoStopSequenceReturned
