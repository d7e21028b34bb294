SPECIFICATION Spec
CONSTANTS
  MaxLines = 3
  Numeral <- MCNumeral
  SendBuffer = 80
  RequestCode = {0, 44}
INVARIANTS
  ServesTheFile
  AnswersTheRequest
  ListsFit
