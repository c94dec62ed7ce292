SPECIFICATION Spec
CONSTANTS
  Readers = {r1, r2}
  Writers = {w1}
  Prompt = {"a", "a2", "b"}
  Score <- MCScore
  Threshold = 1
  TTL = 0
  MaxEntries = 2
  Setups <- MCOverlapping
  MaxTime = 1
SYMMETRY Callers
INVARIANT HitIsSimilar
