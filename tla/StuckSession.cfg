SPECIFICATION Spec
CONSTANTS
  c1 = c1
  c2 = c2
  c3 = c3
  ada = ada
  ruby = ruby
  eve = eve
  Ids <- MCIds
  ServerIds <- MCServerIds
  NoCipher = NoCipher
  NoResult = NoResult
  Clients = {c1, c2}
  ClientIds <- MCClientIds2
  Overlap = FALSE
  MaxRestarts = 0
PROPERTIES RefusedOnlyWhileBusy
CHECK_DEADLOCK FALSE
