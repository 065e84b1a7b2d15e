SPECIFICATION Spec
CONSTANTS
  Threads = {t1}
  Addresses = {a1, a2, a3}
  Null = Null
  Slots = 2
  MaxLen = 2
INVARIANTS TypeOK RememberedIsCurrent LongestRemembered
PROPERTY AnswersRight
