SPECIFICATION Spec
CONSTANTS
  m1 = m1
  c1 = c1
  r1 = r1
  r2 = r2
  Messages = {m1}
  Calls = {c1}
  Reasonings = {r1, r2}
  Anonymous = {m1, r2}
  Signed = {r2}
  Output <- OutputDef
  Full <- FullDef
  MaxStray = 2
  NoItem = NoItem
INVARIANTS TypeOK AnswerWellFormed ChatWellFormed AnswerComplete ChatComplete EndIsHonest
CHECK_DEADLOCK FALSE
