\* All files of few rows over two identifiers, with repetitions.  Two rows of the
\* larger value exceed what can be printed, a row of each does not.
SPECIFICATION FairSpec
CONSTANTS
  Ids = {ada, eve}
  Values = {1, 3}
  MaxRows = 3
  MessageSpace = 10
  MaxInt = 5
  ZeroCiphertext = ZeroCiphertext
INVARIANTS AggregatesInv ExactWhenDistinct OneSelection SecondSumIsReal
PROPERTIES Served
CHECK_DEADLOCK FALSE
