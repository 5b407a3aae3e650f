\* Two processes, which share a queue or have one each.
CONSTANTS
  Requests = {r1, r2}
  Procs = {p1, p2}
  Cfqqs = {q1, q2}
  Oom = oom
  NoCfqq = NoCfqq
  Ctx = {cpu1, kblockd}
  Kblockd = kblockd
  NoReq = NoReq
  MaxStale = 0
SPECIFICATION MCSpec
SYMMETRY Symm
INVARIANTS
  NoBug
  RefsExact
  BusyExactly
  NoStranded
