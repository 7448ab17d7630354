SPECIFICATION MapperSpec
CONSTANTS
  Config <- MCConfig
  Message <- MCMessage
INVARIANTS
  MatchAgrees
  HundredthsWithinOne
  EncodingsAgree
  InvertReverses
