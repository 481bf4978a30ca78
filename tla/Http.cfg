SPECIFICATION FairSpec
CONSTANTS
  Tokens = {t1, t2}
  StartsWith <- MCStartsWith
  Quoted = {"reboot"}
  Services <- MCServices
  Missing = Missing
  Empty = Empty
  BodyUnits = {1, 2}
  BufferParts = 4
  RecvTimeout = 1
  BodyTotal = 1
  FailLimit = 2
INVARIANTS
  TypeOK
  ReadBounded
  NotCutShort
  WholeJson
  AnsweredOnce
  OnlyForToken
  ThreadGoesOn
PROPERTIES
  NoFalse401
  ServesAsSeen
  PadReleased
  RequestEnds
  ListensAgain
