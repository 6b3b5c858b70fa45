\* Writes of any offset and length to one asset.
CONSTANTS
  large = large
  small1 = small1
  small2 = small2
  small3 = small3
  Asset <- Assets
  Size <- Sizes
  Pieces <- Arbitrary
  MaxCount = 2
  MaxBytes = 8
  MinAge = 1
  MaxAge = 3
  Interval = 2
  Word = 65536
  NoEntry = NoEntry
  Static = Static
  MaxTime = 1
SPECIFICATION Spec
INVARIANTS CompleteIsWritten
