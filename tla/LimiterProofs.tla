--------------------------- MODULE LimiterProofs ----------------------------
(***************************************************************************)
(* What tryAcquire and a release closure do to the counters, for every set *)
(* of holders: the lemmas that the proofs about connections and about      *)
(* tunnels share.                                                          *)
(***************************************************************************)
EXTENDS ConcurrentLimiter, FiniteSetTheorems, TLAPS

\* While the counters describe the holders, the count of a key that has no
\* entry is 0, as for a Go map.
LEMMA HeldCounts ==
    ASSUME NEW holders, NEW owner, NEW k, IsFiniteSet(holders),
           Accounts(holders, owner)
    PROVE  Held(k) = Cardinality({h \in holders : owner[h] = k})
<1>1. CASE k \in DOMAIN perKey
  BY <1>1 DEF Accounts, Held
<1>2. CASE k \notin DOMAIN perKey
  <2>1. {h \in holders : owner[h] = k} = {}
    BY <1>2 DEF Accounts
  <2> QED
    BY <1>2, <2>1, FS_EmptySet DEF Held
<1> QED
  BY <1>1, <1>2

\* tryAcquire adds one holder to what the counters describe, within limits.
LEMMA AcquireCounts ==
    ASSUME NEW holders, NEW owner, NEW h, IsFiniteSet(holders), h \notin holders,
           Accounts(holders, owner), WithinLimits, Acquire(owner[h])
    PROVE  /\ total' = Cardinality(holders \cup {h})
           /\ DOMAIN perKey' = {owner[g] : g \in holders \cup {h}}
           /\ \A k \in DOMAIN perKey' :
                  perKey'[k] = Cardinality({g \in holders \cup {h} : owner[g] = k})
           /\ WithinLimits'
<1> DEFINE Of(k) == {g \in holders : owner[g] = k}
           key == owner[h]
<1>1. total' = Cardinality(holders \cup {h})
  BY FS_AddElement DEF Acquire, Accounts
<1>2. DOMAIN perKey' = {owner[g] : g \in holders \cup {h}}
  BY DEF Acquire, Accounts
<1>3. ASSUME NEW k \in DOMAIN perKey'
      PROVE  perKey'[k] = Cardinality({g \in holders \cup {h} : owner[g] = k})
  <2>1. CASE k = key
    <3>1. {g \in holders \cup {h} : owner[g] = k} = Of(k) \cup {h}
      BY <2>1
    <3>2. IsFiniteSet(Of(k)) /\ h \notin Of(k)
      BY FS_Subset
    <3>3. Cardinality(Of(k) \cup {h}) = Cardinality(Of(k)) + 1
      BY <3>2, FS_AddElement
    <3>4. perKey'[k] = Held(k) + 1
      BY <2>1 DEF Acquire
    <3> QED
      BY <3>1, <3>3, <3>4, HeldCounts
  <2>2. CASE k # key
    <3>1. {g \in holders \cup {h} : owner[g] = k} = Of(k)
      BY <2>2
    <3>2. k \in DOMAIN perKey /\ perKey'[k] = perKey[k]
      BY <2>2 DEF Acquire
    <3> QED
      BY <3>1, <3>2 DEF Accounts
  <2> QED
    BY <2>1, <2>2
<1>4. WithinLimits'
  <2>1. total \in Nat /\ Held(key) \in Nat
    <3>1. IsFiniteSet(Of(key))
      BY FS_Subset
    <3> QED
      BY <3>1, HeldCounts, FS_CardinalityType DEF Accounts
  <2>2. total' <= MaxTotal
    BY <2>1, LimiterAssumption DEF Acquire, CanAcquire
  <2>3. ASSUME NEW k \in DOMAIN perKey' PROVE perKey'[k] <= MaxPerKey
    BY <2>1, LimiterAssumption DEF Acquire, CanAcquire, WithinLimits
  <2> QED
    BY <2>2, <2>3 DEF WithinLimits
<1> QED
  BY <1>1, <1>2, <1>3, <1>4

\* A release takes its holder out of what the counters describe, and the entry
\* of a key that holds nothing any more out of the map.
LEMMA ReleaseCounts ==
    ASSUME NEW holders, NEW owner, NEW h \in holders, IsFiniteSet(holders),
           Accounts(holders, owner), WithinLimits, Release(owner[h])
    PROVE  /\ total' = Cardinality(holders \ {h})
           /\ DOMAIN perKey' = {owner[g] : g \in holders \ {h}}
           /\ \A k \in DOMAIN perKey' :
                  perKey'[k] = Cardinality({g \in holders \ {h} : owner[g] = k})
           /\ WithinLimits'
<1> DEFINE Of(k) == {g \in holders : owner[g] = k}
           key == owner[h]
           left == Held(key) - 1
<1>1. total' = Cardinality(holders \ {h})
  BY FS_RemoveElement DEF Release, Accounts
<1>2. IsFiniteSet(Of(key)) /\ h \in Of(key)
  BY FS_Subset
<1>3. /\ {g \in holders \ {h} : owner[g] = key} = Of(key) \ {h}
      /\ IsFiniteSet(Of(key) \ {h})
      /\ left = Cardinality(Of(key) \ {h})
  <2>1. {g \in holders \ {h} : owner[g] = key} = Of(key) \ {h}
    OBVIOUS
  <2>2. /\ IsFiniteSet(Of(key) \ {h})
        /\ Cardinality(Of(key) \ {h}) = Cardinality(Of(key)) - 1
    BY <1>2, FS_RemoveElement
  <2> QED
    BY <2>1, <2>2, HeldCounts
<1>4. left = 0 <=> \A g \in holders \ {h} : owner[g] # key
  <2>1. left = 0 <=> Of(key) \ {h} = {}
    BY <1>3, FS_EmptySet
  <2> QED
    BY <2>1
<1>5. key \in DOMAIN perKey
  BY DEF Accounts
<1>6. /\ DOMAIN perKey' = DOMAIN perKey \ (IF left = 0 THEN {key} ELSE {})
      /\ \A k \in DOMAIN perKey' :
             perKey'[k] = IF k = key THEN left ELSE perKey[k]
  BY <1>5 DEF Release
<1>7. DOMAIN perKey' = {owner[g] : g \in holders \ {h}}
  <2>1. DOMAIN perKey = {owner[g] : g \in holders}
    BY DEF Accounts
  <2>2. CASE left = 0
    BY <1>4, <1>6, <2>1, <2>2
  <2>3. CASE left # 0
    BY <1>4, <1>6, <2>1, <2>3
  <2> QED
    BY <2>2, <2>3
<1>8. ASSUME NEW k \in DOMAIN perKey'
      PROVE  perKey'[k] = Cardinality({g \in holders \ {h} : owner[g] = k})
  <2>1. CASE k = key
    BY <1>3, <1>6, <2>1
  <2>2. CASE k # key
    <3>1. {g \in holders \ {h} : owner[g] = k} = Of(k)
      BY <2>2
    <3>2. k \in DOMAIN perKey /\ perKey'[k] = perKey[k]
      BY <1>6, <2>2
    <3> QED
      BY <3>1, <3>2 DEF Accounts
  <2> QED
    BY <2>1, <2>2
<1>9. WithinLimits'
  <2>1. total \in Nat /\ Held(key) \in Nat
    BY <1>2, HeldCounts, FS_CardinalityType DEF Accounts
  <2>2. total' <= MaxTotal
    BY <2>1, LimiterAssumption DEF Release, WithinLimits
  <2>3. ASSUME NEW k \in DOMAIN perKey' PROVE perKey'[k] <= MaxPerKey
    <3>1. k \in DOMAIN perKey
      BY <1>6
    <3>2. perKey[key] <= MaxPerKey /\ Held(key) = perKey[key]
      BY <1>5 DEF WithinLimits, Held
    <3> QED
      BY <1>6, <2>1, <3>1, <3>2, LimiterAssumption DEF WithinLimits
  <2> QED
    BY <2>2, <2>3 DEF WithinLimits
<1> QED
  BY <1>1, <1>7, <1>8, <1>9
=============================================================================
