SPECIFICATION Spec
CONSTANTS
  k1 = k1
  k2 = k2
  w = w
  W = W
  ww = ww
  long = long
  q = q
  qe = qe
  stump = stump
  Absent = Absent
  Empty = Empty
  Undefined = Undefined
  Fraction = Fraction
  NaN = NaN
  Wildcard = Wildcard
  Words <- MCWords
  Order <- MCOrder
  SlotOrder <- MCSlots
  Stripe <- MCStripe
  Length <- MCLength
  Concat <- MCConcat
  Part <- MCPart
  Upper <- MCUpper
  Distance <- MCDistance
  Params <- MCParams
  Quoted = {q, qe}
  MapHashes = {1, w}
  Positions = {0, 2}
  PageBounds <- MCPages
  Numbers = {0, 2}
  Places <- MCPlaces
  ShortKeys = {k1}
  IterLimit = 2
  MaxTokens = 4
  MaxLength = 2
  MaxNumber = 2
INVARIANTS TypeOK ReadBack Inverses PagesCoverRange ListedOnce AnswersAgree
PROPERTIES LastElementDeletes
