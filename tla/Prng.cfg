\* The buffer holds three bytes and a word is two, so that words straddle two
\* buffers, which the 8160 bytes of the code allow once Rand8 has been called, and
\* end at the last byte of one.
SPECIFICATION FairSpec
CONSTANTS
  Threads = {t1, t2, t3}
  OutputBytes = 3
  WordBytes = 2
  MaxSalt = 2
INVARIANTS TypeOK NoByteTwice ReadInBuffer StreamInv
PROPERTIES ImplementsStream MutexReleased
CHECK_DEADLOCK FALSE
