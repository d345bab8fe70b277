SPECIFICATION FairSpec
CONSTANTS
  r1 = r1
  r2 = r2
  gpt = gpt
  claude = claude
  code = code
  plain = plain
  choices = choices
  Requests = {r1, r2}
  Mixes <- OneEach
  Models = {gpt, claude}
  Texts <- MCTexts
  Extras = {plain, choices}
  Tables = {{gpt}, {gpt, claude}}
  Asked <- MCAsked
  OptOut = {r2}
  Claude = {claude}
  Rules <- MCRules
  DefaultWindow = 60
  Windows <- MCWindows
  TriggerPercent = 85
  MinKeep = 1
  MaxParts = 1
INVARIANTS
  CompressSound
  CacheSound
  DoneMeansComplete
  StreamTerminated
  BilledOnce
  QuietAfterReturn
PROPERTIES
  GoneReturns
