SPECIFICATION SpecCancel
CONSTANTS
  Flush = {f1, f2, f3}
  Typed = {2}
  MaxEntity = 3
  NoFlush = NoFlush
SYMMETRY Symmetry
INVARIANT NoDataLost
