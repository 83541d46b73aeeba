CONSTANTS
  Threads = {t1, t2}
  MonitorErrors = {NoInternet}
  NoError = nil
  IsPhone = TRUE
  MaxQueue = 1
SPECIFICATION Spec
INVARIANTS GridMonitorTypeOK SoleMonitorOwnsPanel
PROPERTIES PausedMonitorsStop PanelConverges
