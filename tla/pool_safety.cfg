\* Two workers, three connections, two keys.  Ttl is three cleanup intervals as
\* in the code, and an interval is two units, so that uses fall between sweeps.
SPECIFICATION Spec
CONSTANTS
  None = None
  a = a
  Colon = Colon
  Chars = {a, Colon}
  Workers = {w1, w2}
  Params <- MCParams
  Ttl = 6
  Interval = 2
  MaxTime = 9
INVARIANTS TypeOK ServedOwnConfig IdleBound UsedStaysPooled
CHECK_DEADLOCK FALSE
