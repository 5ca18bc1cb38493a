SPECIFICATION FairSpec
CONSTANTS
  Tasks = {t1, t2}
  Ids = {getc, setc}
  Exempt = {getc}
  FFFF = FFFF
  Nobody = Nobody
  MaxSends = 3
  MaxRepeats = 1
  MaxLate = 1
INVARIANTS
  HandlerInsideSend
  
  ConfirmAccepted
  CopiesTheCommand
  NoBug
