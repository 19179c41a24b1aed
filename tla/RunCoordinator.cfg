SPECIFICATION Spec
CONSTANTS
  Keys = {k1}
  Callers = {c1, c2}
  Entries = {1, 2, 3, 4}
  Fibers = {1, 2}
  None = None
INVARIANTS OneDrainPerKey
PROPERTIES WakeLeadsToDrain RunLeadsToReturn
