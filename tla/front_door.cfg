SPECIFICATION DoorSpec
CONSTANTS
  NoEntry = NoEntry
  NoPrefix = NoPrefix
  BadPrefix = BadPrefix
  NoIp = NoIp
  NoName = NoName
  NoAnswer = NoAnswer
  Addresses <- Clients
  Families = {"v4", "v6"}
  Width <- Bits
  Configs <- SomeConfigs
  Calls <- SomeCalls
  MaxPerSec = 2
  Second = 1
INVARIANTS
  TwiceTheLimit
  RefusalIsEarned
  ListsDecide
  SiteIsNamed
