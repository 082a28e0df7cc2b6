------------------------ MODULE ClassificationProofs ------------------------
(***************************************************************************)
(* Proofs about Classification, for all labels, levels, settings and       *)
(* detector outputs: at every step of classify()'s loop the list of a tier *)
(* is what the documented chain selects from the detections seen so far,   *)
(* in their order.                                                         *)
(***************************************************************************)
EXTENDS Classification, TLAPS

USE ClassificationAssumption

-----------------------------------------------------------------------------
(* Types *)

LEMMA TypeNext == TypeOK /\ [Next]_vars => TypeOK'
<1> SUFFICES ASSUME TypeOK, [Next]_vars
             PROVE  TypeOK'
  OBVIOUS
<1> USE DEF TypeOK
<1>1. CASE Discard
  BY <1>1 DEF Discard
<1>2. CASE Collect
  <2>1. raw[i] \in Detection /\ i \in Nat
    BY <1>2 DEF Collect
  <2>2. ASSUME NEW t \in Tier
        PROVE  found'[t] \in Seq(Detection)
    BY <1>2, <2>1 DEF Collect
  <2>3. found' \in [Tier -> Seq(Detection)]
    BY <1>2, <2>2 DEF Collect
  <2>4. all' \in Seq(Detection)
    BY <1>2, <2>1 DEF Collect
  <2>5. QED
    BY <1>2, <2>3, <2>4 DEF Collect
<1>3. CASE UNCHANGED vars
  BY <1>3 DEF vars
<1>4. QED
  BY <1>1, <1>2, <1>3 DEF Next

\* The arguments stay as they are, the lists hold detections.
THEOREM TypeCorrect == Spec => []TypeOK
<1>1. Init => TypeOK
  <2> SUFFICES ASSUME Init PROVE TypeOK
    OBVIOUS
  <2>1. raw \in Seq(Detection) /\ settings \in AppSettings
    BY DEF Init
  <2>2. Len(raw) \in Nat
    BY <2>1
  <2>3. QED
    BY <2>1, <2>2 DEF Init, TypeOK
<1>2. QED
  BY <1>1, TypeNext, PTL DEF Spec

-----------------------------------------------------------------------------
(* The threshold chain *)

\* The nested conditionals of _resolve find the first threshold given: there
\* always is one, since the global thresholds are never None.
LEMMA ChainResolves ==
  ASSUME NEW s \in AppSettings, NEW t \in Tier, NEW label, NEW key \in Key
  PROVE  Effective(s, t, label, key) = FirstGiven(s, t, label, key)
<1> DEFINE own == LabelValue(s.tier[t], label, key)
           set == s.tier[t][key]
           all_tiers == s.threshold[key]
           chain == <<own, set, all_tiers>>
           IsFirst(n) == chain[n] # None /\ \A m \in 1 .. n - 1 : chain[m] = None
           first == CHOOSE n \in 1 .. 3 : IsFirst(n)
<1>1. all_tiers # None
  BY DEF AppSettings, Level, None
<1>2. /\ FirstGiven(s, t, label, key) = chain[first]
      /\ Effective(s, t, label, key) = Resolve(own, set, all_tiers)
  BY DEF FirstGiven, Effective
<1> HIDE DEF own, set, all_tiers
<1>3. chain[1] = own /\ chain[2] = set /\ chain[3] = all_tiers
  OBVIOUS
<1>4. \E n \in 1 .. 3 : IsFirst(n)
  <2>1. CASE own # None
    BY <1>3, <2>1
  <2>2. CASE own = None /\ set # None
    <3>1. 2 \in 1 .. 3 /\ \A m \in 1 .. 2 - 1 : m = 1
      OBVIOUS
    <3>2. QED
      BY <1>3, <2>2, <3>1
  <2>3. CASE own = None /\ set = None
    <3>1. 3 \in 1 .. 3 /\ \A m \in 1 .. 3 - 1 : m = 1 \/ m = 2
      OBVIOUS
    <3>2. QED
      BY <1>1, <1>3, <2>3, <3>1
  <2>4. QED
    BY <2>1, <2>2, <2>3
<1>5. first \in 1 .. 3 /\ IsFirst(first)
  BY <1>4
<1> HIDE DEF first
<1>6. QED
  <2>1. CASE first = 1
    BY <1>2, <1>3, <1>5, <2>1 DEF Resolve
  <2>2. CASE first = 2
    BY <1>2, <1>3, <1>5, <2>2 DEF Resolve
  <2>3. CASE first = 3
    BY <1>2, <1>3, <1>5, <2>3 DEF Resolve
  <2>4. QED
    BY <1>5, <2>1, <2>2, <2>3

\* Above the debug floor, _check_set and the label test select what the chain
\* selects.
LEMMA TriggersIsSelects ==
  ASSUME NEW s \in AppSettings, NEW t \in Tier, NEW d \in Detection
  PROVE  Selects(s, t, d)
           <=> d.confidence >= s.debug_detect_threshold /\ Triggers(s, t, d)
BY ChainResolves DEF Selects, Triggers, CheckSet

-----------------------------------------------------------------------------
(* The tiers *)

\* at says from which positions the list of the tier was filled.
FilledFrom(at, t) ==
  /\ at \in [1 .. Len(found[t]) -> Selected(t)]
  /\ Enumerates(at, Selected(t))
  /\ \A k \in DOMAIN at : found[t][k] = raw[at[k]]

\* One more detection is seen: if it is selected, its position joins the set.
LEMMA SelectedNext ==
  ASSUME TypeOK, i \in 1 .. Len(raw), i' = i + 1, UNCHANGED <<settings, raw>>,
         NEW t \in Tier
  PROVE  Selected(t)' = IF Selects(settings, t, raw[i]) THEN Selected(t) \cup {i}
                        ELSE Selected(t)
<1>1. 1 .. i' - 1 = (1 .. i - 1) \cup {i}
  OBVIOUS
<1>2. \A n : Selects(settings', t, raw'[n]) = Selects(settings, t, raw[n])
  OBVIOUS
<1>3. Selected(t)' = {n \in 1 .. i' - 1 : Selects(settings', t, raw'[n])}
  BY DEF Selected, Selects, FirstGiven, LabelValue
<1>4. QED
  BY <1>1, <1>2, <1>3 DEF Selected

\* No detection gets lost between the loop and a tier's list, none gets in
\* that does not reach both of its documented thresholds or the debug floor,
\* none twice, and none before an earlier one.
THEOREM TiersCorrect == Spec => []TiersAsDocumented
<1>1. TiersAsDocumented <=> \A t \in Tier : \E at : FilledFrom(at, t)
  BY DEF TiersAsDocumented, FilledFrom
<1>2. Init => TiersAsDocumented
  <2> SUFFICES ASSUME Init, NEW t \in Tier
               PROVE  \E at : FilledFrom(at, t)
    BY <1>1
  <2>1. found[t] = <<>> /\ Selected(t) = {} /\ 1 .. Len(found[t]) = {}
    BY DEF Init, Selected
  <2>2. [k \in {} |-> 0] \in [{} -> {}]
    OBVIOUS
  <2>3. FilledFrom([k \in {} |-> 0], t)
    BY <2>1, <2>2 DEF FilledFrom, Enumerates
  <2>4. QED
    BY <2>3
<1>3. TypeOK /\ TiersAsDocumented /\ [Next]_vars => TiersAsDocumented'
  <2> SUFFICES ASSUME TypeOK, TiersAsDocumented, [Next]_vars, NEW t \in Tier
               PROVE  \E at : FilledFrom(at, t)'
    BY DEF TiersAsDocumented, FilledFrom
  <2>1. PICK at : FilledFrom(at, t)
    BY <1>1
  <2>2. /\ settings \in AppSettings
        /\ raw \in Seq(Detection) /\ i \in Nat \ {0}
        /\ found[t] \in Seq(Detection) /\ Len(found[t]) \in Nat
        /\ Selected(t) \subseteq 1 .. i - 1
    BY DEF TypeOK, Selected
  <2>3. ASSUME Selected(t)' = Selected(t), found'[t] = found[t], raw' = raw
        PROVE  FilledFrom(at, t)'
    BY <2>1, <2>3 DEF FilledFrom, Enumerates
  <2>4. CASE UNCHANGED vars
    <3>1. Selected(t)' = Selected(t)
      BY <2>4 DEF vars, Selected, Selects, FirstGiven, LabelValue
    <3>2. QED
      BY <2>3, <2>4, <3>1 DEF vars
  <2>5. CASE Discard
    <3>1. /\ i \in 1 .. Len(raw) /\ raw[i] \in Detection
          /\ i' = i + 1 /\ UNCHANGED <<settings, raw, found>>
      BY <2>2, <2>5 DEF Discard
    <3>2. ~Selects(settings, t, raw[i])
      BY <2>2, <2>5, <3>1 DEF Discard, Selects, Detection, AppSettings, Level
    <3>3. QED
      BY <2>3, <3>1, <3>2, SelectedNext
  <2>6. CASE Collect
    <3>1. /\ i \in 1 .. Len(raw) /\ raw[i] \in Detection
          /\ i' = i + 1 /\ UNCHANGED <<settings, raw>>
          /\ found'[t] = IF Triggers(settings, t, raw[i])
                         THEN Append(found[t], raw[i]) ELSE found[t]
      BY <2>2, <2>6 DEF Collect
    <3>2. Selects(settings, t, raw[i]) <=> Triggers(settings, t, raw[i])
      BY <2>2, <2>6, <3>1, TriggersIsSelects DEF Collect
    <3>3. CASE ~Triggers(settings, t, raw[i])
      BY <2>3, <3>1, <3>2, <3>3, SelectedNext
    <3>4. CASE Triggers(settings, t, raw[i])
      <4> DEFINE n == Len(found[t])
                 more == [k \in 1 .. n + 1 |-> IF k = n + 1 THEN i ELSE at[k]]
      <4>1. /\ found'[t] = Append(found[t], raw[i])
            /\ Len(found'[t]) = n + 1
            /\ found'[t][n + 1] = raw[i]
            /\ \A k \in 1 .. n : found'[t][k] = found[t][k]
        BY <2>2, <3>1, <3>4
      <4>2. Selected(t)' = Selected(t) \cup {i}
        BY <3>1, <3>2, <3>4, SelectedNext
      <4>3. /\ at \in [1 .. n -> Selected(t)]
            /\ Enumerates(at, Selected(t))
            /\ \A k \in 1 .. n : found[t][k] = raw[at[k]]
        BY <2>1 DEF FilledFrom
      <4>4. \A k \in 1 .. n : at[k] \in Selected(t) /\ at[k] < i
        BY <2>2, <4>3
      <4>5. more \in [1 .. n + 1 -> Selected(t) \cup {i}]
        BY <2>2, <4>4
      <4>6. Enumerates(more, Selected(t) \cup {i})
        <5>1. DOMAIN at = 1 .. n /\ DOMAIN more = 1 .. n + 1
          BY <4>3
        <5>2. /\ \A k \in 1 .. n : more[k] = at[k]
              /\ more[n + 1] = i
          BY <2>2
        <5> HIDE DEF more
        <5>3. ASSUME NEW k \in 1 .. n + 1, NEW l \in 1 .. n + 1, k < l
              PROVE  more[k] < more[l]
          <6>1. k \in 1 .. n
            BY <2>2, <5>3
          <6>2. CASE l = n + 1
            BY <4>4, <5>2, <6>1, <6>2
          <6>3. CASE l # n + 1
            <7>1. l \in 1 .. n
              BY <2>2, <6>3
            <7>2. at[k] < at[l]
              BY <4>3, <5>1, <5>3, <6>1, <7>1 DEF Enumerates
            <7>3. QED
              BY <5>2, <6>1, <7>1, <7>2
          <6>4. QED
            BY <6>2, <6>3
        <5>4. ASSUME NEW m \in Selected(t) \cup {i}
              PROVE  \E k \in 1 .. n + 1 : more[k] = m
          <6>1. CASE m = i
            BY <2>2, <5>2, <6>1
          <6>2. CASE m \in Selected(t)
            <7>1. PICK k \in 1 .. n : at[k] = m
              BY <4>3, <5>1, <6>2 DEF Enumerates
            <7>2. k \in 1 .. n + 1
              BY <2>2
            <7>3. QED
              BY <5>2, <7>1, <7>2
          <6>3. QED
            BY <6>1, <6>2
        <5>5. QED
          BY <5>1, <5>3, <5>4 DEF Enumerates
      <4>7. \A k \in 1 .. n + 1 : found'[t][k] = raw'[more[k]]
        BY <2>2, <3>1, <4>1, <4>3
      <4>8. ASSUME NEW g, g = more
            PROVE  FilledFrom(g, t)'
        <5> HIDE DEF more
        <5>1. FilledFrom(g, t)'
                <=> /\ g \in [1 .. Len(found'[t]) -> Selected(t)']
                    /\ Enumerates(g, Selected(t)')
                    /\ \A k \in DOMAIN g : found'[t][k] = raw'[g[k]]
          BY DEF FilledFrom, Enumerates
        <5>2. QED
          BY <4>1, <4>2, <4>5, <4>6, <4>7, <4>8, <5>1
      <4>9. QED
        BY <4>8
    <3>5. QED
      BY <3>3, <3>4
  <2>7. QED
    BY <2>4, <2>5, <2>6 DEF Next
<1>4. QED
  BY <1>2, <1>3, TypeCorrect, PTL DEF Spec

\* The same, element by element, in the code's terms: what is in a tier's
\* list was seen and triggers it, and what was seen and triggers it is in the
\* list.
TierSound ==
  \A t \in Tier, d \in Detection :
    (\E n \in 1 .. Len(found[t]) : found[t][n] = d)
      <=> /\ \E n \in 1 .. i - 1 : raw[n] = d
          /\ d.confidence >= settings.debug_detect_threshold
          /\ Triggers(settings, t, d)

LEMMA TiersSound == TypeOK /\ TiersAsDocumented => TierSound
<1> SUFFICES ASSUME TypeOK, TiersAsDocumented, NEW t \in Tier, NEW d \in Detection
             PROVE  (\E n \in 1 .. Len(found[t]) : found[t][n] = d)
                      <=> /\ \E n \in 1 .. i - 1 : raw[n] = d
                          /\ d.confidence >= settings.debug_detect_threshold
                          /\ Triggers(settings, t, d)
  BY DEF TierSound
<1>1. Selects(settings, t, d)
        <=> d.confidence >= settings.debug_detect_threshold
              /\ Triggers(settings, t, d)
  BY TriggersIsSelects DEF TypeOK
<1>2. PICK at \in [1 .. Len(found[t]) -> Selected(t)] :
        /\ Enumerates(at, Selected(t))
        /\ \A k \in DOMAIN at : found[t][k] = raw[at[k]]
  BY DEF TiersAsDocumented
<1>3. ASSUME NEW k \in 1 .. Len(found[t]), found[t][k] = d
      PROVE  (\E n \in 1 .. i - 1 : raw[n] = d) /\ Selects(settings, t, d)
  BY <1>2, <1>3 DEF Selected
<1>4. ASSUME NEW n \in 1 .. i - 1, raw[n] = d, Selects(settings, t, d)
      PROVE  \E k \in 1 .. Len(found[t]) : found[t][k] = d
  BY <1>2, <1>4 DEF Selected, Enumerates
<1>5. QED
  BY <1>1, <1>3, <1>4
=============================================================================
