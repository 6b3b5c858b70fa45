\* Chunks as the server and its clients write them, in any order, with an
\* asset too many (3 > 2) or bytes too many (9 > 8) in the cache.
CONSTANTS
  large = large
  small1 = small1
  small2 = small2
  small3 = small3
  Asset <- Assets
  Size <- Sizes
  Pieces <- Chunked
  MaxCount = 2
  MaxBytes = 8
  MinAge = 1
  MaxAge = 3
  Interval = 2
  Word = 65536
  NoEntry = NoEntry
  Static = Static
  MaxTime = 6
SPECIFICATION Spec
SYMMETRY Symmetry
INVARIANTS TypeOK RangesExact CompleteExactly
PROPERTIES InUseKept
