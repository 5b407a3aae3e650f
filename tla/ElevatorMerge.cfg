\* Three requests on three sectors: single ones merge into one of the largest size.
CONSTANTS
  Requests = {r1, r2, r3}
  NoReq = NoReq
  Sectors = 3
  MaxSectors = 3
SYMMETRY Symm
SPECIFICATION MergingSpec
INVARIANTS
  MergeStateAgrees
  BackIsFence
