SPECIFICATION LiveSpec
CONSTANTS
  Pods = {a, b}
  MaxTokens = 5
  MaxFaults = 1
  MaxDeaths = 1
  None = None
INVARIANTS
  SavedBeforeHandoff
  MintsAccountedFor
PROPERTIES
  HandoffWasLive
  Ready
