SPECIFICATION InputsSpec
CONSTANTS
  MaxLines = 3
  MaxChunks = 2
  MAX_CHANNELS = 2
  Formats = {"Float32", "Int16"}
  Rates = {48000, 44100, 16000}
INVARIANTS
  InputsTypeOK
  ParsedAsWritten
  LinesResync
  CodecsFollow
  BothEndsAgree
