------------------------- MODULE TierSettingsProofs -------------------------
(***************************************************************************)
(* Proofs about TierSettings, for all labels, presets and environments:    *)
(* the merge of raw dicts at start-up and the merge of models per job give *)
(* the same label set, and no null gets into either.                       *)
(***************************************************************************)
EXTENDS TierSettings, TLAPS

USE SettingsAssumption

\* The environment stays, a service that is up has the label set its dicts
\* give, and a job that named a preset got that preset's.
Inv ==
  /\ override \in [Preset -> Given]
  /\ unset \in BOOLEAN
  /\ global \in Given
  /\ selected \in Preset \cup {NoPreset}
  /\ phase = "up" => tier = BootTier /\ ValidSettings
  /\ job.preset # NoPreset =>
       /\ phase = "up"
       /\ job.preset \in Preset
       /\ job.config = Applied(job.preset)
       /\ job.raised = ~Valid(Applied(job.preset))

LEMMA InvInit == Init => Inv
BY DEF Init, Inv

LEMMA InvNext == Inv /\ [Next]_vars => Inv'
<1> SUFFICES ASSUME Inv, [Next]_vars
             PROVE  Inv'
  OBVIOUS
<1> USE DEF Inv
<1>1. ASSUME UNCHANGED <<selected, unset, global, override>>
      PROVE  /\ BootTier' = BootTier
             /\ \A p \in Preset : Applied(p)' = Applied(p)
  BY <1>1 DEF BootTier, WithoutPreset, WithPreset, Merged, Keys, Applied
<1>2. ASSUME UNCHANGED <<selected, unset, global, override>>
      PROVE  ValidSettings' = ValidSettings
  BY <1>1, <1>2 DEF ValidSettings, Valid, Keys
<1>3. CASE Boot
  BY <1>1, <1>2, <1>3 DEF Boot
<1>4. CASE BootFails
  BY <1>4 DEF BootFails
<1>5. CASE JobDefault
  BY <1>1, <1>2, <1>5 DEF JobDefault
<1>6. ASSUME NEW p \in Preset, JobPreset(p)
      PROVE  Inv'
  BY <1>1, <1>2, <1>6 DEF JobPreset, Valid
<1>7. CASE UNCHANGED vars
  BY <1>1, <1>2, <1>7 DEF vars, Valid
<1>8. QED
  BY <1>3, <1>4, <1>5, <1>6, <1>7 DEF Next

\* When d has all the keys already.
LEMMA UpdateAll ==
  ASSUME NEW K, NEW d, NEW e, DOMAIN e \subseteq K, DOMAIN d = K
  PROVE  Update(d, e)
           = [key \in K |-> IF key \in DOMAIN e THEN e[key] ELSE d[key]]
<1>1. DOMAIN d \cup DOMAIN e = K
  OBVIOUS
<1>2. QED
  BY <1>1 DEF Update

\* The two merges of an override into its preset agree on every key.
LEMMA MergesAgree ==
  ASSUME override \in [Preset -> Given], NEW p \in Preset
  PROVE  Fields(Merged(p)) = Applied(p)
<1>1. DOMAIN override[p] \subseteq Key
  OBVIOUS
<1>2. /\ PresetConfig(p) = [key \in Key |-> PresetConfig(p)[key]]
      /\ PresetConfig(p)["label_thresholds"] = {}
  BY DEF PresetConfig, Empty, Key
<1>3. Keys(p) \subseteq Key
  BY <1>1 DEF Keys
<1>4. Merged(p) = [key \in Key |-> IF key \in Keys(p) THEN override[p][key]
                                   ELSE PresetConfig(p)[key]]
  <2> DEFINE given == [key \in Keys(p) |-> override[p][key]]
  <2>1. DOMAIN given = Keys(p) /\ DOMAIN PresetConfig(p) = Key
    BY <1>2
  <2>2. Update(PresetConfig(p), given)
          = [key \in Key |-> IF key \in DOMAIN given THEN given[key]
                             ELSE PresetConfig(p)[key]]
    BY <1>3, <2>1, UpdateAll
  <2>3. QED
    BY <2>1, <2>2 DEF Merged
<1>5. Fields(Merged(p)) = Merged(p)
  <2>1. DOMAIN Merged(p) = Key /\ DOMAIN Empty = Key
    BY <1>4 DEF Empty, Key
  <2>2. Update(Empty, Merged(p))
          = [key \in Key |-> IF key \in DOMAIN Merged(p) THEN Merged(p)[key]
                             ELSE Empty[key]]
    BY <2>1, UpdateAll
  <2>3. QED
    BY <1>4, <2>1, <2>2 DEF Fields
<1>6. QED
  BY <1>2, <1>4, <1>5 DEF Applied

\* What the global dict gives replaces what the merged preset gives.
LEMMA BootGives ==
  ASSUME Inv, selected # NoPreset, "labels" \notin DOMAIN global
  PROVE  BootTier = [key \in Key |-> IF key \in DOMAIN global THEN global[key]
                                     ELSE Applied(selected)[key]]
<1> DEFINE p == selected
<1>1. /\ p \in Preset /\ DOMAIN global \subseteq Key
      /\ override \in [Preset -> Given]
  BY DEF Inv
<1>2. Update(Empty, Merged(p)) = Applied(p)
  BY <1>1, MergesAgree DEF Fields
<1>3. DOMAIN Empty = Key /\ DOMAIN Applied(p) = Key
  BY DEF Empty, Key, Applied
<1>4. DOMAIN Merged(p) \subseteq Key
  BY <1>2, <1>3 DEF Update
<1>5. BootTier = Update(Empty, Update(Merged(p), global))
  BY DEF BootTier, WithPreset, Fields
<1> DEFINE over == Update(Merged(p), global)
<1>6. /\ DOMAIN over = DOMAIN Merged(p) \cup DOMAIN global
      /\ \A key \in DOMAIN over :
           over[key] = IF key \in DOMAIN global THEN global[key] ELSE Merged(p)[key]
  BY DEF Update
<1>7. BootTier = [key \in Key |-> IF key \in DOMAIN over THEN over[key] ELSE Empty[key]]
  <2> HIDE DEF over
  <2>1. DOMAIN over \subseteq Key
    BY <1>1, <1>4, <1>6
  <2>2. QED
    BY <1>3, <1>5, <2>1, UpdateAll DEF over
<1>8. Applied(p) = [key \in Key |-> IF key \in DOMAIN Merged(p) THEN Merged(p)[key]
                                    ELSE Empty[key]]
  BY <1>2, <1>3, <1>4, UpdateAll
<1>9. QED
  <2> HIDE DEF over
  <2>1. QED
    BY <1>1, <1>6, <1>7, <1>8

-----------------------------------------------------------------------------
(* Types *)

\* A dict of the environment, or one that was merged from some.
Typed(dict) ==
  DOMAIN dict \subseteq Key /\ \A key \in DOMAIN dict : dict[key] \in GivenValue(key)

LEMMA UpdateTyped ==
  ASSUME NEW d, NEW e, Typed(d), Typed(e)
  PROVE  Typed(Update(d, e))
BY DEF Typed, Update

\* What the validators let pass is a LabelSetConfig: null stands for nothing
\* but a threshold that is not given.
LEMMA ValidIsLabelSet ==
  ASSUME NEW config, config = [key \in Key |-> config[key]], Typed(config),
         config.labels # None, config.label_thresholds # None
  PROVE  config \in LabelSet
<1>1. config = [labels |-> config.labels, confidence |-> config.confidence,
                area_ratio |-> config.area_ratio,
                label_thresholds |-> config.label_thresholds]
  BY DEF Key
<1>2. /\ config.labels \in GivenValue("labels")
      /\ config.label_thresholds \in GivenValue("label_thresholds")
      /\ config.confidence \in GivenValue("confidence")
      /\ config.area_ratio \in GivenValue("area_ratio")
  BY DEF Typed, Key
<1>3. QED
  BY <1>1, <1>2 DEF LabelSet, GivenValue

LEMMA EmptyTyped ==
  /\ Empty \in LabelSet /\ Typed(Empty) /\ DOMAIN Empty = Key
  /\ \A p \in Preset : /\ PresetConfig(p) \in LabelSet
                       /\ Typed(PresetConfig(p)) /\ DOMAIN PresetConfig(p) = Key
<1>1. Empty \in LabelSet /\ \A p \in Preset : PresetConfig(p) \in LabelSet
  BY DEF PresetConfig, Empty, LabelSet
<1>2. ASSUME NEW config \in LabelSet
      PROVE  Typed(config) /\ DOMAIN config = Key
  BY <1>2 DEF LabelSet, Typed, Key, GivenValue
<1>3. QED
  BY <1>1, <1>2

\* A start that succeeds, from whatever dicts, yields a LabelSetConfig.
LEMMA BootTyped ==
  ASSUME Inv, ValidSettings
  PROVE  BootTier \in LabelSet
<1> DEFINE dict == IF selected = NoPreset THEN WithoutPreset ELSE WithPreset(selected)
<1>1. Typed(global)
  BY DEF Inv, Typed
<1>2. Typed(WithoutPreset)
  <2>1. Typed([labels |-> DefaultLabels])
    BY DEF Typed, Key, GivenValue
  <2>2. WithoutPreset = [labels |-> DefaultLabels] \/ WithoutPreset = global
    BY DEF WithoutPreset
  <2>3. QED
    BY <1>1, <2>1, <2>2
<1>3. ASSUME selected # NoPreset
      PROVE  Typed(WithPreset(selected))
  <2>1. selected \in Preset /\ Typed(override[selected])
    BY <1>3 DEF Inv, Typed
  <2>2. Typed([key \in Keys(selected) |-> override[selected][key]])
    BY <2>1 DEF Typed, Keys
  <2>3. Typed(Merged(selected))
    BY <2>1, <2>2, EmptyTyped, UpdateTyped DEF Merged
  <2>4. \/ WithPreset(selected) = global
        \/ WithPreset(selected) = Update(Merged(selected), global)
    BY DEF WithPreset
  <2>5. QED
    BY <1>1, <2>3, <2>4, UpdateTyped
<1>4. Typed(dict)
  BY <1>2, <1>3
<1> HIDE DEF dict
<1>5. BootTier = Update(Empty, dict)
  BY DEF BootTier, Fields, dict
<1>6. BootTier = [key \in Key |-> BootTier[key]]
  BY <1>4, <1>5, EmptyTyped, UpdateAll DEF Typed
<1>7. Typed(BootTier)
  BY <1>4, <1>5, EmptyTyped, UpdateTyped
<1>8. BootTier.labels # None /\ BootTier.label_thresholds # None
  BY DEF ValidSettings, Valid
<1> HIDE DEF BootTier
<1>9. QED
  BY <1>6, <1>7, <1>8, ValidIsLabelSet

\* So does resolve_preset(), before its validation even.
LEMMA AppliedTyped ==
  ASSUME Inv, NEW p \in Preset
  PROVE  Applied(p) \in LabelSet
<1>1. Typed(override[p]) /\ Typed(PresetConfig(p)) /\ PresetConfig(p) \in LabelSet
  BY EmptyTyped DEF Inv, Typed
<1>2. Applied(p) = [key \in Key |-> Applied(p)[key]]
  BY DEF Applied
<1>3. ASSUME NEW key \in Key
      PROVE  /\ Applied(p)[key] \in GivenValue(key)
             /\ key \in {"labels", "label_thresholds"} => Applied(p)[key] # None
  <2>1. PresetConfig(p)[key] \in GivenValue(key)
    BY <1>1, EmptyTyped DEF Typed
  <2>2. key \in {"labels", "label_thresholds"} => PresetConfig(p)[key] # None
    BY <1>1 DEF LabelSet
  <2>3. key \in Keys(p) => override[p][key] \in GivenValue(key) \ {None}
    BY <1>1 DEF Typed, Keys
  <2>4. QED
    BY <2>1, <2>2, <2>3 DEF Applied
<1>4. Typed(Applied(p)) /\ Applied(p).labels # None /\ Applied(p).label_thresholds # None
  BY <1>2, <1>3 DEF Typed, Key
<1>5. QED
  BY <1>2, <1>3, <1>4, ValidIsLabelSet

\* Every step leaves typed state: the label sets it writes, if any, are those
\* of a start whose settings were valid or of a preset that exists.
LEMMA TypeNext == Inv /\ TypeOK /\ [Next]_vars => TypeOK'
<1> SUFFICES ASSUME Inv, TypeOK
             PROVE  [Next]_vars => TypeOK'
  OBVIOUS
<1>keep. UNCHANGED <<selected, unset, global, override, phase, tier, job>> => TypeOK'
  BY DEF TypeOK
<1>start. Boot \/ BootFails => TypeOK'
  BY BootTyped DEF Boot, BootFails, TypeOK
<1>preset. \A p \in Preset : JobPreset(p) => TypeOK'
  <2> TAKE p \in Preset
  <2>1. Applied(p) \in LabelSet /\ (~Valid(Applied(p))) \in BOOLEAN
    BY AppliedTyped
  <2>2. QED
    BY <2>1 DEF JobPreset, TypeOK
<1>default. JobDefault => TypeOK'
  BY DEF JobDefault, TypeOK
<1> QED
  BY <1>keep, <1>start, <1>preset, <1>default DEF Next, vars

-----------------------------------------------------------------------------
(* Properties *)

LEMMA Invariant == Spec => []Inv
BY InvInit, InvNext, PTL DEF Spec

\* Whatever the dicts hold, null included, settings and jobs have label sets
\* whose labels are valid ones and whose thresholds are values or not given.
THEOREM TypeCorrect == Spec => []TypeOK
<1>1. Init => TypeOK
  BY EmptyTyped DEF Init, TypeOK
<1>2. QED
  BY <1>1, TypeNext, Invariant, PTL DEF Spec

\* Selected by the environment or named by a job, a preset with its overrides
\* means the same, and a job that names it does not raise if the start did not.
THEOREM SelectionDoesNotMatter == Spec => []SelectionIndependent
<1>1. Inv => SelectionIndependent
  <2> SUFFICES ASSUME Inv, job.preset # NoPreset, job.preset = selected,
                      DOMAIN global = {}
               PROVE  job.config = tier /\ ~job.raised
    BY DEF SelectionIndependent
  <2>1. BootTier = [key \in Key |-> Applied(selected)[key]]
    BY BootGives
  <2>2. Applied(selected) = [key \in Key |-> Applied(selected)[key]]
    BY DEF Applied
  <2>3. QED
    BY <2>1, <2>2 DEF Inv, ValidSettings
<1>2. QED
  BY <1>1, Invariant, PTL

\* Thresholds given for a tier alone do not disturb the preset's labels.
THEOREM LabelsKept == Spec => []ThresholdsKeepLabels
<1>1. Inv => ThresholdsKeepLabels
  BY BootGives DEF Inv, ThresholdsKeepLabels, Key
<1>2. QED
  BY <1>1, Invariant, PTL
=============================================================================
