CONSTANTS
  Session = {s1, s2}
  PAA = {a1}
  TEID = {t1, t2, t3}
  Ebi = {6, 7}
  DefaultEbi = 5
  Flow <- Flows
  Offer <- Offers
  MaxRequest = 3
  Budget = 4
  Attempts = 2
  MapMaxEntries = 2
  MaxTFTRules = 2
  None = None
SPECIFICATION Spec
INVARIANTS TypeOK BearersIndexed CreatedOnce PgwAgrees KernelAgrees 
SYMMETRY Symmetry
CHECK_DEADLOCK FALSE
