SPECIFICATION Spec
CONSTANTS
  cell_voltage_low = cell_voltage_low
  cell_temp_high = cell_temp_high
  Alarms = {cell_voltage_low, cell_temp_high}
  Severity <- MCSeverity
  Configs <- MCConfigs
  MaxDelay = 2
  Cooldown = 2
  Lossy = TRUE
  MaxRestarts = 1
INVARIANTS NoSilentAlarm PressingAlarmIsActive ProtectionHeldForCooldown
