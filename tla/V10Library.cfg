SPECIFICATION Spec
CONSTANTS
  bad = bad
  wrong = wrong
  empty = empty
  plain = plain
  named = named
  both = both
  kinds = kinds
  twice = twice
  conditional = conditional
  lossy = lossy
  zero = zero
  wrapped = wrapped
  long = long
  vast = vast
  mapped = mapped
  loading = loading
  nameless = nameless
  angle = angle
  matrix = matrix
  letter = letter
  xaxis = xaxis
  yaxis = yaxis
  model = model
  Unparsable = {bad}
  Analyzed <- MCAnalyzed
  IntRange = 16
  NoModel = NoModel
  Unset = Unset
  Garbled = Garbled
  Indices = {0, 1, 2}
  MaxCalls = 3
CHECK_DEADLOCK FALSE
INVARIANT TypeOK
INVARIANT ChecksFindTheirQubits
PROPERTY ImplementsContract
