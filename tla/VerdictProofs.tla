--------------------------- MODULE VerdictProofs ----------------------------
(***************************************************************************)
(* Proofs about Verdict, for all photos, thresholds and label subsets:     *)
(* what the presets promise, from what the loop computes (TierSound) and   *)
(* from how their label sets lie in each other.                            *)
(***************************************************************************)
EXTENDS Verdict, ClassificationProofs

USE ClassificationAssumption

\* A tier as severe as t, or more severe.
AtLeast(t) ==
  CASE t = "block" -> {"block"}
    [] t = "review" -> {"block", "review"}
    [] t = "sensitive" -> Tier

\* Whatever a configuration does with a label, strict does no less.
LEMMA StrictLabels ==
  ASSUME NEW config \in Configs, NEW t \in Tier, NEW label \in config[t]
  PROVE  \E u \in AtLeast(t) : label \in strict[u]
BY DEF Configs, PRESETS, strict, moderation, nude_female, permissive,
   social_media, default, Explicit, Genitalia, Breasts, Exposed, Covered,
   AtLeast, Tier

\* Every configuration blocks or holds explicit labels.
LEMMA ExplicitLabels ==
  ASSUME NEW config \in Configs, NEW label \in Explicit
  PROVE  \E u \in {"block", "review"} : label \in config[u]
BY DEF Configs, PRESETS, strict, moderation, nude_female, permissive,
   social_media, default, Explicit, Genitalia, Breasts, Exposed

\* The names in presets.py are labels NudeNet knows, so that importing it does
\* not raise (_validate_labels).
LEMMA PresetsAreValid ==
  \A config \in Configs, t \in Tier : config[t] \subseteq VALID_LABELS
BY DEF Configs, PRESETS, strict, moderation, nude_female, permissive,
   social_media, default, Explicit, Genitalia, Breasts, Exposed, Covered,
   VALID_LABELS, Tier

\* Without thresholds in the label set the global ones decide.
LEMMA GlobalDecides ==
  ASSUME NEW s, NEW config, NEW t \in Tier, NEW d,
         s.tier = PresetTiers(config)
  PROVE  Triggers(s, t, d) <=>
           /\ d.label \in config[t] \cap Label
           /\ \A key \in Key : d[key] >= s.threshold[key]
<1>1. s.tier[t] = LabelsOnly(config[t])
  BY DEF PresetTiers
<1>2. s.tier[t].labels = config[t] \cap Label
  BY <1>1 DEF LabelsOnly
<1>3. ASSUME NEW key \in Key
      PROVE  Effective(s, t, d.label, key) = s.threshold[key]
  <2>1. d.label \notin DOMAIN s.tier[t].label_thresholds
    BY <1>1 DEF LabelsOnly
  <2>2. s.tier[t][key] = None
    BY <1>1 DEF LabelsOnly, Key
  <2>3. QED
    BY <2>1, <2>2 DEF Effective, LabelValue, Resolve
<1>4. QED
  BY <1>2, <1>3 DEF Triggers, CheckSet

\* When the loop is done, a tier's flag is up iff a detection triggers it.
LEMMA FlagIffTriggered ==
  ASSUME TypeOK, TierSound, Returned, NEW t \in Tier
  PROVE  t \in Flags <=> \E n \in 1 .. Len(raw) :
           /\ raw[n].confidence >= settings.debug_detect_threshold
           /\ Triggers(settings, t, raw[n])
<1>1. /\ raw \in Seq(Detection) /\ found[t] \in Seq(Detection)
      /\ i = Len(raw) + 1
  BY DEF TypeOK, Returned
<1>2. ASSUME NEW n \in 1 .. Len(raw),
             raw[n].confidence >= settings.debug_detect_threshold,
             Triggers(settings, t, raw[n])
      PROVE  t \in Flags
  <2>1. raw[n] \in Detection /\ n \in 1 .. i - 1
    BY <1>1
  <2>2. \E m \in 1 .. Len(found[t]) : found[t][m] = raw[n]
    BY <1>2, <2>1 DEF TierSound
  <2>3. QED
    BY <1>1, <2>2 DEF Flags
<1>3. ASSUME t \in Flags
      PROVE  \E n \in 1 .. Len(raw) :
               /\ raw[n].confidence >= settings.debug_detect_threshold
               /\ Triggers(settings, t, raw[n])
  <2>1. 1 \in 1 .. Len(found[t]) /\ found[t][1] \in Detection
    BY <1>1, <1>3 DEF Flags
  <2>2. PICK d \in Detection : d = found[t][1]
    BY <2>1
  <2>3. /\ \E n \in 1 .. i - 1 : raw[n] = d
        /\ d.confidence >= settings.debug_detect_threshold
        /\ Triggers(settings, t, d)
    BY <2>1, <2>2 DEF TierSound
  <2>4. QED
    BY <1>1, <2>3
<1>4. QED
  BY <1>2, <1>3

\* On no photo is another preset, or the default, more severe than strict.
THEOREM StrictestIsStrict == Spec => []StrictIsStrictest
<1>1. TypeOK /\ TierSound => StrictIsStrictest
  <2> SUFFICES ASSUME TypeOK, TierSound, Returned,
                      settings.tier = PresetTiers(strict),
                      NEW config \in Configs
               PROVE  Severity(WouldFlag(config)) <= Severity(Flags)
    BY DEF StrictIsStrictest
  <2> DEFINE other == [settings EXCEPT !.tier = PresetTiers(config)]
  <2>1. /\ other.tier = PresetTiers(config)
        /\ other.threshold = settings.threshold
    BY DEF TypeOK, AppSettings
  <2>2. ASSUME NEW t \in Tier, t \in WouldFlag(config)
        PROVE  \E u \in AtLeast(t) : u \in Flags
    <3>1. PICK n \in 1 .. Len(raw) :
            /\ raw[n].confidence >= settings.debug_detect_threshold
            /\ Triggers(other, t, raw[n])
      BY <2>2 DEF WouldFlag
    <3>2. /\ raw[n].label \in config[t] \cap Label
          /\ \A key \in Key : raw[n][key] >= settings.threshold[key]
      BY <2>1, <3>1, GlobalDecides
    <3>3. PICK u \in AtLeast(t) : raw[n].label \in strict[u]
      BY <3>2, StrictLabels
    <3>4. u \in Tier
      BY <3>3 DEF AtLeast, Tier
    <3>5. Triggers(settings, u, raw[n])
      BY <3>2, <3>3, <3>4, GlobalDecides
    <3>6. QED
      BY <3>1, <3>3, <3>4, <3>5, FlagIffTriggered
  <2>3. QED
    BY <2>2 DEF Severity, AtLeast, Tier
<1>2. QED
  BY <1>1, TypeCorrect, TiersCorrect, TiersSound, PTL

\* With every preset, explicit content that the detector is sure of is at least
\* held for review.
THEOREM ExplicitHeld == Spec => []ExplicitIsHeld
<1>1. TypeOK /\ TierSound => ExplicitIsHeld
  <2> SUFFICES ASSUME TypeOK, TierSound, Returned,
                      NEW config \in Configs,
                      settings.tier = PresetTiers(config),
                      NEW n \in 1 .. Len(raw),
                      raw[n].label \in Explicit,
                      raw[n].confidence >= settings.debug_detect_threshold,
                      \A key \in Key : raw[n][key] >= settings.threshold[key]
               PROVE  Severity(Flags) >= 2
    BY DEF ExplicitIsHeld
  <2>1. raw[n].label \in Label
    <3>1. raw \in Seq(Detection)
      BY DEF TypeOK
    <3>2. raw[n] \in Detection
      BY <3>1
    <3>3. QED
      BY <3>2 DEF Detection
  <2>2. PICK u \in {"block", "review"} : raw[n].label \in config[u]
    BY ExplicitLabels
  <2>3. u \in Tier /\ Triggers(settings, u, raw[n])
    BY <2>1, <2>2, GlobalDecides DEF Tier
  <2>4. u \in Flags
    BY <2>3, FlagIffTriggered
  <2>5. QED
    BY <2>2, <2>4 DEF Severity
<1>2. QED
  BY <1>1, TypeCorrect, TiersCorrect, TiersSound, PTL
=============================================================================
