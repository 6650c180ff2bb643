SPECIFICATION MCSpec
CONSTANTS
  r1 = r1
  q1 = q1
  a1 = a1
  a2 = a2
  a3 = a3
  NoLang = NoLang
  Attempts <- ThreeAttempts
  Texts <- TwoTexts
  PhoneLangs <- SomePhones
  Replies <- OneReply
  HumanTexts <- SomeHuman
  OutPolicy = "escalate"
  Window = 3
  Values <- SomeValues
  Edits <- OneEdit
  MaxHuman = 1
  ModelTexts <- OneReply
  MaxTurns = 3
  MaxCalls = 2
  MaxIterations = 4
  Breaker = 2
SYMMETRY Symmetry
CHECK_DEADLOCK FALSE
INVARIANTS
  NoRepeats
  LanguageSticks
  AttributesKept
  RequestsWellFormed
  GivesUpForCause
