SPECIFICATION Spec
CONSTANTS
  Tabs = {1, 2}
  Names = {"r", "c"}
  Sources = {"cdn", "synced", "remote", "models"}
  Synced = {"r"}
  Listers = {1}
  MaxSaves = 2
  Callers = {"viewer", "prescan", "export"}
  MaxAsks = 6
INVARIANTS
  SavedItemsFound
  ModelsOnDisk
PROPERTIES
  PeersReach
CHECK_DEADLOCK FALSE
