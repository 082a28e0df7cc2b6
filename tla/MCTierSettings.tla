--------------------------- MODULE MCTierSettings ---------------------------
(* Small environments for TierSettings: two presets, two labels, and dicts *)
(* that hold up to two keys: validation relates two of them, the merges    *)
(* take each key by itself.  area_ratio is merged as confidence is, so no  *)
(* dict gives it.                                                          *)
EXTENDS TierSettings

CONSTANTS x, y, strict, moderation, v

Values(key) ==
  CASE key = "labels" -> {None, {}, {x}}
    [] key = "confidence" -> {None, v}
    [] key = "label_thresholds" -> {None, {}, {y}}

SmallGiven ==
  UNION {{d \in [K -> UNION {Values(key) : key \in K}] :
            \A key \in K : d[key] \in Values(key)} :
         K \in {{}, {"labels"}, {"confidence"}, {"label_thresholds"},
                {"labels", "confidence"}, {"labels", "label_thresholds"},
                {"confidence", "label_thresholds"}}}

LabelsOf == [p \in {strict, moderation} |-> IF p = strict THEN {x, y} ELSE {}]
=============================================================================
