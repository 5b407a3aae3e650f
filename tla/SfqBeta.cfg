\* Everything interleaves, until registrations race.
CONSTANTS
  Requests = {r1, r2, r3}
  Procs = {p1, p2}
  Ctx = {p1, p2, kblockd}
  Kblockd = kblockd
  NoReq = NoReq
  NoSfqq = NoSfqq
  REQUEST_DEPTH = 0
  MaxSfqq = 2
  MaxStale = 1
SPECIFICATION FirstRaceSpec
SYMMETRY Symm
\* An oops stops the machine.
CHECK_DEADLOCK FALSE
INVARIANTS
  StrandsOnlyInRaces
  CursorStraysOnlyInRaces
  OnePlace
