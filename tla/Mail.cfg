SPECIFICATION MCSpec
CONSTANTS
  u1 = u1
  u2 = u2
  x = x
  m1 = m1
  m2 = m2
  m3 = m3
  m4 = m4
  m5 = m5
  Users = {u1, u2}
  Strangers = {x}
  Mails = {m1, m2, m4, m5}
  OtherMails = {m3}
  Unfinished = {m4}
  NoOne = none
  Owner = u1
  To <- MCTo
  TooLong <- MCTooLong
  Confs <- MCConfs
  Parts = 2
  MaxNotes = 2
  MaxFaults = 1
CHECK_DEADLOCK FALSE
INVARIANTS SentWasDelivered OneCopy FiledOnce
PROPERTY Settled
