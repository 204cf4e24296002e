\* The booking page over the cached catalogue; edits of the shop.
SPECIFICATION FairSpec
CONSTANTS
  DAY = 12
  WEEK = 2
  AllPros = AllPros
  Handler = {1, 2}
  s1 = s1
  s2 = s2
  Service = {s1, s2}
  ana = ana
  bia = bia
  Pro = {ana, bia}
  Owner = ana
  Day = {0, 1}
  Limits <- MCLimits
  NoPro = NoPro
  NoEntry = NoEntry
  ProfileKey = ProfileKey
  NoDay = NoDay
  NoSlot = NoSlot
  NoService = NoService
  NoHandler = NoHandler
INVARIANTS TypeOK SlotsFit InvalidationSuffices TimesAreOfChoice BookedAsShown
PROPERTIES CacheCatchesUp
CHECK_DEADLOCK FALSE
