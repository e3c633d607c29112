SPECIFICATION Spec
CONSTANTS
  Servers = {s0, s1}
  Sizes = {1, 2}
  Numbers = {1, 2}
  Faults = {"crash", "open", "full"}
  MaxRuns = 3
INVARIANTS EntryPerElement FromOneDraw BadTableIsOld
