SPECIFICATION Spec
CONSTANTS
  Lines <- MCLines
  Sample <- MCSample
INVARIANTS
  LinesRead
  SettingsAsWritten
PROPERTY
  SettingFound
