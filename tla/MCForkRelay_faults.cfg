CONSTANTS
  NBrowsers = 1
  MaxPresence = 3
  MaxFaults = 1
SPECIFICATION FairSpec
CHECK_DEADLOCK FALSE
INVARIANTS OnePresence NoOrphanBrowser
PROPERTIES BrowserServed MacReleased PresenceRecovers
