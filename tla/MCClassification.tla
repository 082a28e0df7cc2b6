-------------------------- MODULE MCClassification --------------------------
(* Small inputs for Classification: up to two detections of two labels; a  *)
(* block tier with all combinations of thresholds at the three levels of   *)
(* the chain; a review tier that shares its labels and sets none.  Then    *)
(* the presets, with a covered label as the third.                         *)
EXTENDS Verdict

CONSTANTS x, y, z

NoThresholds == [k \in {} |-> [j \in Key |-> None]]
ForX(c, a) == [k \in {x} |-> [confidence |-> c, area_ratio |-> a]]

TierConfig(L, c, a, by) ==
  [labels |-> L, confidence |-> c, area_ratio |-> a, label_thresholds |-> by]

BlockTiers ==
  {TierConfig(L, c, a, by) :
     L \in {{x}, {x, y}}, c \in {None, 1, 2}, a \in {None, 1},
     by \in {NoThresholds, ForX(0, None), ForX(2, 0), ForX(None, 2)}}

SmallTiers ==
  {[t \in Tier |->
      IF t = "block" THEN B
      ELSE IF t = "review" THEN TierConfig({x, y}, None, None, NoThresholds)
      ELSE TierConfig({y}, 2, None, NoThresholds)] : B \in BlockTiers}

SmallSettings ==
  {[tier |-> T, threshold |-> [confidence |-> g, area_ratio |-> 0],
    debug_detect_threshold |-> f] :
      T \in SmallTiers \cup {PresetTiers(config) : config \in Configs},
      g \in {0, 1}, f \in {0, 1, 2}}

\* Areas below, at and above the area thresholds in use.
SmallDetection ==
  [label : {x, y}, confidence : {0, 1, 2}, area_ratio : {0, 1}]

Sure(label, c) == [label |-> label, confidence |-> c, area_ratio |-> 1]

SmallRaw ==
  {<<>>} \cup {<<d>> : d \in SmallDetection \cup {Sure(z, 1)}}
         \cup {<<d, Sure(l, c)>> : d \in SmallDetection, l \in {x, z}, c \in {1, 2}}
=============================================================================
