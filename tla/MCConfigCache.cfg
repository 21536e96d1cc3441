CONSTANTS
  Offset <- MCOffset
  Byte <- MCByte
  Contents <- MCContents
  Missing = Missing
SPECIFICATION Spec
INVARIANT VerdictSound
PROPERTY CachedForever
