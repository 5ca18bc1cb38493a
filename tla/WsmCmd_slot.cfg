SPECIFICATION FairSpec
CONSTANTS
  Tasks = {t1, t2}
  Ids = {getc, setc}
  Exempt = {getc}
  FFFF = FFFF
  Nobody = Nobody
  MaxSends = 3
  MaxRepeats = 0
  MaxLate = 0
INVARIANTS
  SlotFree
