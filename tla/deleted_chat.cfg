SPECIFICATION StoreSpec
CONSTANTS
  ChatIds = {"c1", "c2"}
  Tokens = {"t1"}
  MaxMessages = 2
  MaxWrites = 4
  KeepItems = 1
  StoreHazards = {"late_unwind"}
INVARIANT DeletedStaysDeleted
CHECK_DEADLOCK FALSE
