------------------------------ MODULE Verdict -------------------------------
(***************************************************************************)
(* classify() with the label sets of the presets: what becomes of a photo. *)
(* A preset of presets.py sets no thresholds, so the global ones decide.   *)
(* Labels that the instance leaves out of Label never occur.               *)
(***************************************************************************)
EXTENDS Classification, Presets

\* LabelSetConfig(labels=L)
LabelsOnly(L) ==
  [labels |-> L \cap Label, confidence |-> None, area_ratio |-> None,
   label_thresholds |-> [label \in {} |-> [key \in Key |-> None]]]

\* block, review and sensitive of resolve_preset(), no overrides given.
PresetTiers(config) == [t \in Tier |-> LabelsOnly(config[t])]

\* What Lychee does with the photo (concepts/README.md, tier meanings), given
\* the flags that are set: hide it, hold it for review, mark it, or nothing.
Severity(flags) ==
  IF "block" \in flags THEN 3
  ELSE IF "review" \in flags THEN 2
  ELSE IF "sensitive" \in flags THEN 1 ELSE 0

\* should_block, should_review, is_sensitive
Flags == {t \in Tier : found[t] # <<>>}

-----------------------------------------------------------------------------
(* Properties *)

\* The flags the same photo would get under another preset.
WouldFlag(config) ==
  {t \in Tier : \E n \in 1 .. Len(raw) :
     /\ raw[n].confidence >= settings.debug_detect_threshold
     /\ Triggers([settings EXCEPT !.tier = PresetTiers(config)], t, raw[n])}

\* presets.py: strict is for "family-friendly or children's services".  On no
\* photo is another preset, or the default, more severe.
StrictIsStrictest ==
  Returned /\ settings.tier = PresetTiers(strict)
    => \A config \in Configs : Severity(WouldFlag(config)) <= Severity(Flags)

\* No preset lets a photo pass with exposed genitalia or anus in it that the
\* detector is sure enough of: it is blocked or held for review, whatever
\* else is in it.
ExplicitIsHeld ==
  /\ Returned
  /\ \E config \in Configs : settings.tier = PresetTiers(config)
  /\ \E n \in 1 .. Len(raw) :
       /\ raw[n].label \in Explicit
       /\ raw[n].confidence >= settings.debug_detect_threshold
       /\ \A key \in Key : raw[n][key] >= settings.threshold[key]
  => Severity(Flags) >= 2
=============================================================================
