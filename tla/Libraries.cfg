SPECIFICATION LibrarySpec
CONSTANTS
  P = 11
  A = 1
  B = 6
  Generator <- MCGenerator
  Order = 13
  Ids <- MCIds
  Oracles <- MCOracles
  CipherKeys <- MCCipherKeys
  ElGamalKeys = {5}
  Randoms = {6}
  MaxOps = 3
INVARIANTS RoundTrip PaillierExact CurveExact ValuesExact FilesExact LogsKept SinksServed CrashReported LogControlled
CHECK_DEADLOCK FALSE
