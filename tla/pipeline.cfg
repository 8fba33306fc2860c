\* Every fault at once: a line that is not UTF-8, as many panicking requests as
\* workers, so that the crew can be lost and the reader stranded behind a full
\* queue, and a host that may close stdin or stdout at any moment.
SPECIFICATION FairSpec
CONSTANTS
  None = None
  Lines = {a, h, f, g, garbled}
  Blank = {}
  Garbled = {garbled}
  Fatal = {f, g}
  Workers = {w1, w2}
  Capacity = 1
INVARIANTS
  TypeOK OnePlace LossesExcused CleanReturn StrandedExcused
  IntakeNeverStalls
PROPERTIES
  ImplementsService
  EveryRequestSettled EveryRequestAnswered ReturnsAtEndOfInput
CHECK_DEADLOCK FALSE
