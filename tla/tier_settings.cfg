SPECIFICATION Spec
CONSTANTS
  x = x
  y = y
  v = v
  strict = strict
  moderation = moderation
  Label = {x, y}
  Value = {v}
  None = None
  Preset = {strict, moderation}
  PresetLabels <- LabelsOf
  DefaultLabels = {x}
  Given <- SmallGiven
INVARIANTS TypeOK SelectionIndependent ThresholdsKeepLabels
CHECK_DEADLOCK FALSE
