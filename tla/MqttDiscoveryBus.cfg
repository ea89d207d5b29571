SPECIFICATION Spec
CONSTANTS
  Slaves = {1}
  Entities = {1, 2}
  Types = {"sensor", "switch"}
  Writable = {"switch"}
  Payloads = {"a", "b", "c", "d"}
  Texts <- Versions
  MaxVersion = 3
  MaxEdits = 3
  MaxPending = 2
  Settings = {home}
  MaxClients = 1
  MaxListeners = 1
  NoText = NoText
  Absent = Absent
  None = None
  Current = Current
INVARIANTS
  BusDeletionWithdraws
CHECK_DEADLOCK FALSE
