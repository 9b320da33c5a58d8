\* Two masters, two diversifiers, room for two and for three records; the chip
\* is reset only while not connected.
SPECIFICATION Spec
CONSTANTS
  Peers = {p1, p2}
  NoPeer = NoPeer
  Div = {d1, d2}
  NoDiv = NoDiv
  MaxMasters = 2
  MaxRecords = 3
  ResetAnytime = FALSE
INVARIANTS BondsReload AttributesReload  
CHECK_DEADLOCK FALSE
