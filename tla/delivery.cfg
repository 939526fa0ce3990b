SPECIFICATION SceneSpec
CONSTANTS
  Prompt = {p1, p2}
  Others = {p2}
  OneBrowser = TRUE
  NoPrompt = NoPrompt
  Hasty = TRUE
  LoseChats = TRUE
  MaxHistory = 50
  MaxTexts = 1
  MaxStreams = 1
  MaxDrops = 1
  MaxReloads = 1
  MaxRestarts = 1
PROPERTIES
  WatchDelivered
  
  OrphansSettled
CHECK_DEADLOCK FALSE
