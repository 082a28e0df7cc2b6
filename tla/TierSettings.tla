---------------------------- MODULE TierSettings ----------------------------
(***************************************************************************)
(* Where the label set of one tier comes from: the environment, the        *)
(* presets and their overrides, merged at start-up by AppSettings          *)
(* (app/config/settings.py) and again for each job that names a preset     *)
(* (resolve_preset, with apply_to of app/config/models.py).  The code does *)
(* the same for block, review and sensitive, one after the other.          *)
(*                                                                         *)
(* A Python dict is a function on the keys it holds.  A threshold value is *)
(* opaque here; label_thresholds is known by the labels it is given for.   *)
(*                                                                         *)
(* A definition X_Y, before X, is a faulty variant of X that nothing uses. *)
(***************************************************************************)
EXTENDS Naturals

CONSTANTS
  Label,              \* valid labels
  Value,              \* values of a threshold
  None,               \* null
  Preset,             \* preset names
  PresetLabels,       \* labels of the tier in each preset of presets.py
  DefaultLabels,      \* labels of the tier when no preset is selected
  Given               \* the dicts the environment may hold for the tier

NoPreset == "no preset"
Key == {"labels", "confidence", "area_ratio", "label_thresholds"}

\* A LabelSetConfig.
LabelSet == [labels : SUBSET Label, confidence : Value \cup {None},
             area_ratio : Value \cup {None}, label_thresholds : SUBSET Label]

\* What a dict may hold under a key; all of them may be null.
GivenValue(key) ==
  {None} \cup
    (IF key \in {"labels", "label_thresholds"} THEN SUBSET Label ELSE Value)

ASSUME SettingsAssumption ==
  /\ None \notin Value
  /\ \A L \in SUBSET Label : L # None
  /\ NoPreset \notin Preset
  /\ PresetLabels \in [Preset -> SUBSET Label]
  /\ DefaultLabels \subseteq Label
  /\ \A d \in Given :
       DOMAIN d \subseteq Key /\ \A key \in DOMAIN d : d[key] \in GivenValue(key)

VARIABLES
  selected,           \* VISION_NSFW_PRESET
  unset,              \* is VISION_NSFW_<TIER> absent?
  global,             \* dict given as VISION_NSFW_<TIER>, empty if absent
  override,           \* dict given as VISION_NSFW_<PRESET>__<TIER>, by preset
  phase,              \* "boot", "up", or "failed"
  tier,               \* settings.<tier>, once up
  job                 \* the last job: its preset, its label set, did it raise?

vars == <<selected, unset, global, override, phase, tier, job>>

-----------------------------------------------------------------------------
(* LabelSetConfig *)

\* {**d, **e}
Update(d, e) ==
  [key \in DOMAIN d \cup DOMAIN e |-> IF key \in DOMAIN e THEN e[key] ELSE d[key]]

\* Field defaults.
Empty == [labels |-> {}, confidence |-> None, area_ratio |-> None,
          label_thresholds |-> {}]

\* The types of the fields, and _validate_threshold_keys_subset_of_labels.
Valid(config) ==
  /\ config.labels # None /\ config.label_thresholds # None
  /\ config.label_thresholds \subseteq config.labels

\* LabelSetConfig(**dict): what the dict lacks has its default.
Fields(dict) == Update(Empty, dict)

\* The label sets in presets.py set no thresholds.
PresetConfig(p) == [Empty EXCEPT !.labels = PresetLabels[p]]

-----------------------------------------------------------------------------
(* Start-up: _apply_preset, then the fields are validated *)

\* Keys of an override that are given and not null.
Keys(p) == {key \in DOMAIN override[p] : override[p][key] # None}

\* The override's keys that are merged, but not its labels.
Merged_WithoutLabels(p) ==
  Update(PresetConfig(p), [key \in Keys(p) \ {"labels"} |-> override[p][key]])

\* {**preset_config, **tier_raw}
Merged(p) == Update(PresetConfig(p), [key \in Keys(p) |-> override[p][key]])

\* if field not in data / elif "labels" not in data[field] / else as it is.
WithPreset(p) ==
  IF "labels" \in DOMAIN global THEN global ELSE Update(Merged(p), global)

\* Without VISION_NSFW_<TIER> the field has its default_factory.
WithoutPreset ==
  IF unset THEN [labels |-> DefaultLabels] ELSE global

BootTier ==
  Fields(IF selected = NoPreset THEN WithoutPreset ELSE WithPreset(selected))

\* The settings are validated: the tier, and every PresetTierOverride, whose
\* label_thresholds may not be null, whatever preset is selected.
ValidSettings ==
  /\ Valid(BootTier)
  /\ \A p \in Preset : "label_thresholds" \in DOMAIN override[p]
                         => "label_thresholds" \in Keys(p)

Init ==
  /\ selected \in Preset \cup {NoPreset}
  /\ unset \in BOOLEAN
  /\ global \in Given
  /\ unset => DOMAIN global = {}
  /\ override \in [Preset -> Given]
  /\ phase = "boot"
  /\ tier = Empty
  /\ job = [preset |-> NoPreset, config |-> Empty, raised |-> FALSE]

\* The raw dict is kept in place of the validated model.
Boot_RawDict ==
  /\ phase = "boot"
  /\ ValidSettings
  /\ phase' = "up"
  /\ tier' = IF selected = NoPreset THEN WithoutPreset ELSE WithPreset(selected)
  /\ UNCHANGED <<selected, unset, global, override, job>>

\* get_settings() succeeds.
Boot ==
  /\ phase = "boot"
  /\ ValidSettings
  /\ phase' = "up"
  /\ tier' = BootTier
  /\ UNCHANGED <<selected, unset, global, override, job>>

\* ValidationError: SystemExit(1).
BootFails ==
  /\ phase = "boot"
  /\ ~ValidSettings
  /\ phase' = "failed"
  /\ UNCHANGED <<selected, unset, global, override, tier, job>>

-----------------------------------------------------------------------------
(* Each job *)

\* An empty label list counts as not given, as an empty dict does.
Applied_Truthy(p) ==
  [key \in Key |->
     IF key \in Keys(p) /\ override[p][key] # {}
     THEN override[p][key] ELSE PresetConfig(p)[key]]

\* apply_to: a field of the override that is not None replaces the preset's,
\* for label_thresholds one that is not empty.
Applied(p) ==
  [key \in Key |->
     IF key \in Keys(p) /\ (key = "label_thresholds" => override[p][key] # {})
     THEN override[p][key] ELSE PresetConfig(p)[key]]

\* A job without a preset runs with settings.<tier>.
JobDefault ==
  /\ phase = "up"
  /\ job' = [preset |-> NoPreset, config |-> tier, raised |-> FALSE]
  /\ UNCHANGED <<selected, unset, global, override, phase, tier>>

\* A job that names a preset runs with resolve_preset(p), which constructs,
\* so validates, a LabelSetConfig and raises if it must.
JobPreset(p) ==
  /\ phase = "up"
  /\ job' = [preset |-> p, config |-> Applied(p), raised |-> ~Valid(Applied(p))]
  /\ UNCHANGED <<selected, unset, global, override, phase, tier>>

Next == Boot \/ BootFails \/ JobDefault \/ \E p \in Preset : JobPreset(p)

Spec == Init /\ [][Next]_vars

-----------------------------------------------------------------------------
(* Properties *)

TypeOK ==
  /\ selected \in Preset \cup {NoPreset}
  /\ unset \in BOOLEAN
  /\ global \in Given
  /\ override \in [Preset -> Given]
  /\ phase \in {"boot", "up", "failed"}
  /\ tier \in LabelSet
  /\ job \in [preset : Preset \cup {NoPreset}, config : LabelSet, raised : BOOLEAN]

\* configuration.md, scope: per-preset overrides apply "regardless of how it
\* is selected", by VISION_NSFW_PRESET or by the job.  The two merges, of raw
\* dicts at start-up and of models per job, agree.
SelectionIndependent ==
  job.preset # NoPreset /\ job.preset = selected /\ DOMAIN global = {}
    => job.config = tier /\ ~job.raised

\* settings.py, preset: with threshold-only settings of the tier "the preset's
\* labels are kept", those of its override included.
ThresholdsKeepLabels ==
  phase = "up" /\ selected # NoPreset /\ "labels" \notin DOMAIN global
    => tier.labels = Applied(selected).labels
=============================================================================
