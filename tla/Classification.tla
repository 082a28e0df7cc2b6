--------------------------- MODULE Classification ---------------------------
(***************************************************************************)
(* classify() of app/detection/detector.py: one step per detection of the  *)
(* loop.  Confidences and area ratios are levels 0 .. Top of an ordered    *)
(* scale; both are compared with >= only, so nothing else about them       *)
(* matters.  A detection keeps its label, confidence and area ratio; the   *)
(* bounding box is carried along by the code and decides nothing else.     *)
(*                                                                         *)
(* A definition X_Y, before X, is a faulty variant of X that nothing uses. *)
(***************************************************************************)
EXTENDS Integers, Sequences

CONSTANTS
  Label,              \* NudeNet labels
  Top,                \* highest confidence and area level
  Settings,           \* the settings to try
  Raw                 \* the detector outputs to try: sequences of detections

Tier == {"block", "review", "sensitive"}
Key == {"confidence", "area_ratio"}
Level == 0 .. Top

None == -1
Threshold == Level \cup {None}

Detection == [label : Label, confidence : Level, area_ratio : Level]

\* LabelThreshold, and LabelSetConfig whose label_thresholds are a function
\* on some of its labels (_validate_threshold_keys_subset_of_labels).
LabelThreshold == [Key -> Threshold]
LabelSetConfig ==
  UNION {[labels : {L}, confidence : Threshold, area_ratio : Threshold,
          label_thresholds : UNION {[K -> LabelThreshold] : K \in SUBSET L}] :
         L \in SUBSET Label}

\* The part of AppSettings that classify reads.
AppSettings == [tier : [Tier -> LabelSetConfig],
                threshold : [Key -> Level],
                debug_detect_threshold : Level]

ASSUME ClassificationAssumption ==
  /\ Top \in Nat
  /\ Settings \subseteq AppSettings
  /\ Raw \subseteq Seq(Detection)

VARIABLES
  settings, raw,      \* arguments
  i,                  \* index of the next detection
  all,                \* all_detected
  found               \* block_detected, review_detected, sensitive_detected

vars == <<settings, raw, i, all, found>>

-----------------------------------------------------------------------------

\* The set before the label.
Resolve_SetFirst(label_val, set_val, global_val) ==
  IF set_val # None THEN set_val
  ELSE IF label_val # None THEN label_val ELSE global_val

\* "label -> set -> global"
Resolve(label_val, set_val, global_val) ==
  IF label_val # None THEN label_val
  ELSE IF set_val # None THEN set_val ELSE global_val

\* lt.confidence if lt else None
LabelValue(cfg, label, key) ==
  IF label \in DOMAIN cfg.label_thresholds
  THEN cfg.label_thresholds[label][key] ELSE None

Effective(s, t, label, key) ==
  Resolve(LabelValue(s.tier[t], label, key), s.tier[t][key], s.threshold[key])

\* _check_set: both thresholds are reached.
CheckSet(s, t, d) ==
  \A key \in Key : d[key] >= Effective(s, t, d.label, key)

\* Does the detection go into the tier's list?
Triggers(s, t, d) == d.label \in s.tier[t].labels /\ CheckSet(s, t, d)

Init ==
  /\ settings \in Settings
  /\ raw \in Raw
  /\ i = 1
  /\ all = <<>>
  /\ found = [t \in Tier |-> <<>>]

\* confidence < debug_floor: continue.
Discard ==
  /\ i <= Len(raw)
  /\ raw[i].confidence < settings.debug_detect_threshold
  /\ i' = i + 1
  /\ UNCHANGED <<settings, raw, all, found>>

\* if / elif / elif in place of three ifs.
Collect_FirstTier ==
  /\ i <= Len(raw)
  /\ raw[i].confidence >= settings.debug_detect_threshold
  /\ all' = Append(all, raw[i])
  /\ found' = [t \in Tier |->
                 IF /\ Triggers(settings, t, raw[i])
                    /\ t # "block" => ~Triggers(settings, "block", raw[i])
                 THEN Append(found[t], raw[i]) ELSE found[t]]
  /\ i' = i + 1
  /\ UNCHANGED <<settings, raw>>

\* The tiers are filled independently of each other.
Collect ==
  /\ i <= Len(raw)
  /\ raw[i].confidence >= settings.debug_detect_threshold
  /\ all' = Append(all, raw[i])
  /\ found' = [t \in Tier |-> IF Triggers(settings, t, raw[i])
                              THEN Append(found[t], raw[i]) ELSE found[t]]
  /\ i' = i + 1
  /\ UNCHANGED <<settings, raw>>

Next == Discard \/ Collect

Spec == Init /\ [][Next]_vars

-----------------------------------------------------------------------------
(* Properties *)

Returned == i > Len(raw)

TypeOK ==
  /\ settings \in AppSettings
  /\ raw \in Seq(Detection)
  /\ i \in 1 .. Len(raw) + 1
  /\ all \in Seq(Detection)
  /\ found \in [Tier -> Seq(Detection)]

\* concepts/README.md, threshold resolution: of the label's, the tier's and
\* the global threshold, the first that is given decides.
FirstGiven(s, t, label, key) ==
  LET chain == <<LabelValue(s.tier[t], label, key), s.tier[t][key],
                 s.threshold[key]>>
      first == CHOOSE n \in 1 .. 3 :
                 chain[n] # None /\ \A m \in 1 .. n - 1 : chain[m] = None
  IN  chain[first]

\* Does the documented chain send the detection to the tier?
Selects(s, t, d) ==
  /\ d.confidence >= s.debug_detect_threshold
  /\ d.label \in s.tier[t].labels
  /\ \A key \in Key : d[key] >= FirstGiven(s, t, d.label, key)

\* The detections seen so far that it sends there, by their positions.
Selected(t) == {n \in 1 .. i - 1 : Selects(settings, t, raw[n])}

\* at enumerates the set S of positions in increasing order.
Enumerates(at, S) ==
  /\ \A k, l \in DOMAIN at : k < l => at[k] < at[l]
  /\ \A n \in S : \E k \in DOMAIN at : at[k] = n

\* The loop computes, for each tier on its own ("tiers are not mutually
\* exclusive"), what the documented chain selects: all of it, each detection
\* as often as the detector gave it, in the detector's order.
TiersAsDocumented ==
  \A t \in Tier :
    \E at \in [1 .. Len(found[t]) -> Selected(t)] :
      /\ Enumerates(at, Selected(t))
      /\ \A k \in DOMAIN at : found[t][k] = raw[at[k]]

\* concepts/README.md: all_detected "always contains every detection that
\* passed VISION_NSFW_CONFIDENCE_THRESHOLD".
AllAboveConfidence ==
  Returned => \A n \in 1 .. Len(raw) :
    raw[n].confidence >= settings.threshold["confidence"]
      => \E m \in 1 .. Len(all) : all[m] = raw[n]
=============================================================================
