SPECIFICATION Spec
CONSTANTS
  none = none
  None <- none
  Environments <- EnvironmentsUsed
  Umasks <- AnyUmask
  MaxEdits = 2
  MaxFaults = 1
  MaxDeaths = 2
  Drops <- OneDrop
  MaxBreaches = 2
INVARIANTS
  AttestationTypeOK
  SocketGuarded
  EntriesStayVerifiable
  LookupIsExact
  ServedEventsVerify
PROPERTIES
  ServesAgain
  EveryEntryAttested
