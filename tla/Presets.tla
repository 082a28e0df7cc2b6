------------------------------ MODULE Presets -------------------------------
(***************************************************************************)
(* The label sets of app/config/presets.py, and the defaults of            *)
(* settings.py, as data.  None of them sets a threshold of its own.        *)
(*                                                                         *)
(* A definition X_Y, before X, is a faulty variant of X that nothing uses. *)
(***************************************************************************)

Genitalia == {"FEMALE_GENITALIA_EXPOSED", "MALE_GENITALIA_EXPOSED"}
Explicit == Genitalia \cup {"ANUS_EXPOSED"}
Breasts == {"FEMALE_BREAST_EXPOSED", "MALE_BREAST_EXPOSED"}
Exposed == Explicit \cup Breasts \cup {"BUTTOCKS_EXPOSED"}
Covered == {"FEMALE_BREAST_COVERED", "FEMALE_GENITALIA_COVERED",
            "BUTTOCKS_COVERED", "ANUS_COVERED"}
Harmless == {"FACE_FEMALE", "FACE_MALE", "BELLY_COVERED", "FEET_COVERED",
             "ARMPITS_COVERED"}

\* labels.py
VALID_LABELS == Exposed \cup Covered \cup Harmless
                  \cup {"BELLY_EXPOSED", "ARMPITS_EXPOSED", "FEET_EXPOSED"}

\* STRICT without the buttocks in its block list.
strict_Forgets ==
  [block |-> Explicit \cup Breasts, review |-> Covered,
   sensitive |-> {"BELLY_EXPOSED", "ARMPITS_EXPOSED", "FEET_EXPOSED"}]

strict ==
  [block |-> Exposed, review |-> Covered,
   sensitive |-> {"BELLY_EXPOSED", "ARMPITS_EXPOSED", "FEET_EXPOSED"}]

moderation ==
  [block |-> {}, review |-> Exposed, sensitive |-> Covered \cup {"BELLY_EXPOSED"}]

\* NUDE_FEMALE with female genitalia among the sensitive labels.
nude_female_Lenient ==
  [block |-> {"MALE_GENITALIA_EXPOSED", "ANUS_EXPOSED"}, review |-> {},
   sensitive |-> {"FEMALE_GENITALIA_EXPOSED", "FEMALE_BREAST_EXPOSED",
                  "BUTTOCKS_EXPOSED"} \cup Covered]

nude_female ==
  [block |-> {"MALE_GENITALIA_EXPOSED", "ANUS_EXPOSED"},
   review |-> {"FEMALE_GENITALIA_EXPOSED"},
   sensitive |-> {"FEMALE_BREAST_EXPOSED", "BUTTOCKS_EXPOSED"} \cup Covered]

permissive ==
  [block |-> Explicit, review |-> {}, sensitive |-> Breasts \cup {"BUTTOCKS_EXPOSED"}]

social_media ==
  [block |-> Explicit \cup {"FEMALE_BREAST_EXPOSED"},
   review |-> {"BUTTOCKS_EXPOSED", "MALE_BREAST_EXPOSED"},
   sensitive |-> Covered \cup {"BELLY_EXPOSED"}]

\* The defaults of settings.py, without a preset.
default ==
  [block |-> Explicit, review |-> {"BUTTOCKS_EXPOSED", "FEMALE_BREAST_EXPOSED"},
   sensitive |-> Covered \cup {"BELLY_EXPOSED"}]

PRESETS == {strict, moderation, nude_female, permissive, social_media}
Configs == PRESETS \cup {default}
=============================================================================
