SPECIFICATION FairSpec
CONSTANTS
  c1 = c1
  c2 = c2
  c3 = c3
  ada = ada
  ruby = ruby
  eve = eve
  Ids <- MCIds
  ServerIds <- MCServerIds
  NoCipher = NoCipher
  NoResult = NoResult
  Clients = {c1, c2}
  ClientIds <- MCClientIdsOverlap
  Overlap = TRUE
  MaxRestarts = 1
INVARIANTS NoOvercount OvercountInv
PROPERTIES CallsReturn SessionEnds
CHECK_DEADLOCK FALSE
