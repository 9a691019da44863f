SPECIFICATION TSpec
CONSTANTS
  Name = {"send", "wipe"}
  Server = {"timed", "untimed"}
  Offers <- MCOffers
  Timed = {"timed"}
  Attacher = {t1}
  Call = {i1}
  Blocked = {"wipe"}
  Confirm = {"send"}
  MaxClient = 2
  MaxNative = 1
  MaxHandler = 1
 
PROPERTIES ApprovedOnly CallEnds
CHECK_DEADLOCK FALSE
