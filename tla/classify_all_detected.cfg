SPECIFICATION Spec
CONSTANTS
  x = "FEMALE_GENITALIA_EXPOSED"
  y = "BUTTOCKS_EXPOSED"
  z = "BUTTOCKS_COVERED"
  Label = {"FEMALE_GENITALIA_EXPOSED", "BUTTOCKS_EXPOSED", "BUTTOCKS_COVERED"}
  Top = 2
  Settings <- SmallSettings
  Raw <- SmallRaw
INVARIANTS AllAboveConfidence
CHECK_DEADLOCK FALSE
