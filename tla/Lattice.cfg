SPECIFICATION LatticeSpec
CONSTANTS
  W = 5
  ByteBits = 2
  LongBits = 2
  MaxNumCoeffs = 2
  MaxLen = 2
  Exponents = {0, 6, 31}
INVARIANTS LatticeTypeOK
  IntegersExact DrawnFairly TransformExact
  Decrypts ErrorBoundsNoise KeysAgree KeysMatch
CHECK_DEADLOCK FALSE
