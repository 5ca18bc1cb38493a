SPECIFICATION FairSpec
CONSTANTS
  Tasks = {t1, t2}
  Ids = {getc, setc}
  Exempt = {getc}
  FFFF = FFFF
  Nobody = Nobody
  MaxSends = 2
  MaxRepeats = 1
  MaxLate = 2
PROPERTIES
  SendReturns
\* The machine may stop on a BUG_ON; a call that hangs is what SendReturns is about.
CHECK_DEADLOCK FALSE
