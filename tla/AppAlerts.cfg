CONSTANTS
  Threads = {t1, t2}
  MainThread = main
  MonitorErrors = {NoInternet}
  GeoWarnings = {OutsideUKWarning}
  NoId = nil
  NoInstance = none
SPECIFICATION Spec
INVARIANTS TypeOK RememberedIsPresented
PROPERTIES EveryWarningShown SettledIsSilent
