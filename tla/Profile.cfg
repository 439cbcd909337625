CONSTANTS
  p = p
  q = q
  Procs <- Both
  Fonts = {13, 14}
  DefaultFont = 14
  Absent = Absent
  Torn = Torn
  MaxReports = 2
  Trials <- AllTrials
SPECIFICATION ProfileSpec
SYMMETRY InstanceSymmetry
INVARIANTS ReportsKept SettingsOnDisk EveryReportOffered
