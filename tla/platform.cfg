SPECIFICATION PlatformSpec
CONSTANTS
  BufferMax = 2
  MaxEvents = 4
  MaxTurns = 2
  ChannelHazards = {}
  Chats = {"a", "b"}
  Calls = {"a1", "a2", "b1"}
  ChatOf <- MCChatOf
  OpsOf <- MCOpsOf
  Slots = 1
  MaxGen <- MCMaxGen
  Uses = {1, 2, 3}
  Payloads = {"p", "q"}
  MsgOf <- MCMsgOf
  Watchdog = 2
  ChatIds = {"c1", "c2"}
  Tokens = {"t1"}
  MaxMessages = 2
  MaxWrites = 4
  KeepItems = 1
  StoreHazards = {}
  Places = {"p"}
  Reports <- MCReports
  MaxResults = 3
INVARIANTS
  
  StreamedOnce
  GateOnScreen
  HeavyBounded
  
  NeverCrossLabelled
  TextFirst
  StallsOnlyInSilence
PROPERTIES
  BlockedNeverStarts
  ApprovedGetsItsTurn
  WedgeEnds
  
  SharesFrozen
  
CHECK_DEADLOCK FALSE
