------------------------- MODULE AuthLimiterProofs --------------------------
(***************************************************************************)
(* Proofs about AuthLimiter.  The hosts of the list, taken as a set, are   *)
(* those of the map, and the list is strictly ordered by recency; a record *)
(* that is not blocked has fewer than MaxAttempts failures.  Everything    *)
(* else, the refinement of the policy included, follows from this and from *)
(* the arithmetic of rounding up.                                          *)
(***************************************************************************)
EXTENDS AuthLimiter, FiniteSetTheorems, FunctionTheorems, SequenceTheorems, TLAPS

-----------------------------------------------------------------------------
(* Rounding up *)

LEMMA ConstantTypes ==
    /\ MaxAttempts \in Nat \ {0} /\ Window \in Nat \ {0} /\ Block \in Nat \ {0}
    /\ MaxIPs \in Nat \ {0} /\ Second \in Nat \ {0}
    /\ IsFiniteSet(IPs)
  BY AuthAssumption DEF AuthAssumption

LEMMA Division ==
    ASSUME NEW t \in Nat, NEW s \in Nat \ {0}
    PROVE  /\ t \div s \in Nat
           /\ t % s \in 0 .. s - 1
           /\ t = s * (t \div s) + (t % s)
  OBVIOUS

LEMMA Quotient ==
    ASSUME NEW s \in Nat \ {0}, NEW q \in Nat, NEW r \in 0 .. s - 1
    PROVE  (s * q + r) \div s = q
<1> DEFINE p == (s * q + r) \div s
           m == (s * q + r) % s
<1>1. p \in Nat /\ m \in 0 .. s - 1 /\ s * p + m = s * q + r
  <2>1. s * q + r \in Nat
    OBVIOUS
  <2> QED
    BY <2>1, Division
<1> HIDE DEF p, m
<1>2. ~(p < q)
  <2>1. SUFFICES ASSUME p + 1 <= q PROVE FALSE
    BY <1>1
  <2>2. s * q >= s * (p + 1)
    BY <2>1, <1>1
  <2> QED
    BY <2>2, <1>1
<1>3. ~(q < p)
  <2>1. SUFFICES ASSUME q + 1 <= p PROVE FALSE
    BY <1>1
  <2>2. s * p >= s * (q + 1)
    BY <2>1, <1>1
  <2> QED
    BY <2>2, <1>1
<1> QED
  BY <1>1, <1>2, <1>3 DEF p

\* The seconds announced cover t ticks, by less than one second more.
LEMMA SecondsCover ==
    ASSUME NEW t \in Nat
    PROVE  /\ Seconds(t) * Second \in Nat
           /\ t <= Seconds(t) * Second
           /\ Seconds(t) * Second < t + Second
<1> DEFINE q == t \div Second
           r == t % Second
<1>1. q \in Nat /\ r \in 0 .. Second - 1 /\ t = Second * q + r
  BY Division, ConstantTypes
<1>2. Seconds(t) = q + (IF r = 0 THEN 0 ELSE 1)
  BY DEF Seconds
<1> HIDE DEF q, r
<1>3. Seconds(t) * Second = Second * q + (IF r = 0 THEN 0 ELSE Second)
  BY <1>1, <1>2, ConstantTypes
<1> QED
  BY <1>1, <1>3, ConstantTypes

\* Both ways of rounding up agree.
LEMMA SecondsAgree ==
    ASSUME NEW t \in Nat
    PROVE  Seconds(t) = Policy!Seconds(t)
<1> DEFINE q == t \div Second
           r == t % Second
<1>1. q \in Nat /\ r \in 0 .. Second - 1 /\ t = Second * q + r
  BY Division, ConstantTypes
<1>2. Seconds(t) = q + (IF r = 0 THEN 0 ELSE 1)
  BY DEF Seconds
<1> HIDE DEF q, r
<1>3. CASE r = 0
  <2>1. t + Second - 1 = Second * q + (Second - 1)
    BY <1>1, <1>3, ConstantTypes
  <2>2. (t + Second - 1) \div Second = q
    BY <2>1, <1>1, Quotient, ConstantTypes
  <2> QED
    BY <2>2, <1>1, <1>2, <1>3 DEF Policy!Seconds
<1>4. CASE r # 0
  <2>1. t + Second - 1 = Second * (q + 1) + (r - 1)
    BY <1>1, ConstantTypes
  <2>2. r - 1 \in 0 .. Second - 1 /\ q + 1 \in Nat
    BY <1>1, <1>4, ConstantTypes
  <2>3. (t + Second - 1) \div Second = q + 1
    BY <2>1, <2>2, Quotient, ConstantTypes
  <2> QED
    BY <2>3, <1>2, <1>4 DEF Policy!Seconds
<1> QED
  BY <1>3, <1>4

-----------------------------------------------------------------------------
(* The list *)

Hosts(s) == {s[i] : i \in DOMAIN s}

\* s is strictly ordered by r.
InOrder(r, s) ==
    \A i, j \in DOMAIN s :
        i < j => <<s[i], s[j]>> \in r /\ <<s[j], s[i]>> \notin r

\* recency after an attempt of ip.
Touched(r, ip) == {p \in r : p[1] # ip} \cup (IPs \ {ip}) \X {ip}

Distinct(s) == \A i, j \in DOMAIN s : s[i] = s[j] => i = j

LEMMA OrderedIsDistinct ==
    ASSUME NEW r, NEW s \in Seq(IPs), InOrder(r, s)
    PROVE  Distinct(s)
<1>1. SUFFICES ASSUME NEW i \in DOMAIN s, NEW j \in DOMAIN s, i < j
               PROVE  s[i] # s[j]
  BY DEF Distinct
<1> QED
  BY <1>1 DEF InOrder

\* A list without repetitions has as many places as hosts.
LEMMA LengthIsCardinality ==
    ASSUME NEW s \in Seq(IPs), Distinct(s)
    PROVE  IsFiniteSet(Hosts(s)) /\ Cardinality(Hosts(s)) = Len(s)
<1>1. Len(s) \in Nat /\ DOMAIN s = 1 .. Len(s) /\ s \in [1 .. Len(s) -> IPs]
  OBVIOUS
<1>2. s \in Surjection(1 .. Len(s), Hosts(s))
  BY <1>1 DEF Surjection, Hosts
<1>3. s \in Injection(1 .. Len(s), Hosts(s))
  BY <1>1, <1>2 DEF Surjection, Injection, IsInjective, Distinct
<1>4. IsFiniteSet(1 .. Len(s)) /\ Cardinality(1 .. Len(s)) = Len(s)
  BY <1>1, FS_Interval
<1> QED
  BY <1>2, <1>3, <1>4, FS_Surjection

\* Removing a host keeps the order of the others.
LEMMA WithoutHost ==
    ASSUME NEW s \in Seq(IPs), Distinct(s), NEW ip \in IPs
    PROVE  /\ Without(s, ip) \in Seq(IPs)
           /\ Hosts(Without(s, ip)) = Hosts(s) \ {ip}
           /\ \A i, j \in DOMAIN Without(s, ip) : i < j =>
                 \E k, l \in DOMAIN s :
                     k < l /\ s[k] = Without(s, ip)[i] /\ s[l] = Without(s, ip)[j]
<1>0. Len(s) \in Nat /\ DOMAIN s = 1 .. Len(s) /\ s \in [1 .. Len(s) -> IPs]
  OBVIOUS
<1>1. CASE ~ \E i \in DOMAIN s : s[i] = ip
  <2>1. Without(s, ip) = s
    BY <1>1 DEF Without
  <2> QED
    BY <2>1, <1>1, <1>0 DEF Hosts
<1>2. CASE \E i \in DOMAIN s : s[i] = ip
  <2> DEFINE p == CHOOSE j \in DOMAIN s : s[j] = ip
             At(j) == IF j < p THEN j ELSE j + 1
  <2>1. p \in 1 .. Len(s) /\ s[p] = ip
    BY <1>2, <1>0
  <2> DEFINE w == [j \in 1 .. Len(s) - 1 |-> IF j < p THEN s[j] ELSE s[j + 1]]
  <2>2. Without(s, ip) = w
    BY <1>2 DEF Without
  <2> HIDE DEF p
  <2>3. Len(s) - 1 \in Nat
    BY <2>1, <1>0
  <2>4. \A j \in 1 .. Len(s) - 1 :
           /\ w[j] = s[At(j)] /\ At(j) \in 1 .. Len(s) /\ At(j) # p
           /\ w[j] \in IPs
    BY <2>1, <1>0
  <2>5. w \in [1 .. Len(s) - 1 -> IPs]
    BY <2>4
  <2>6. w \in Seq(IPs) /\ DOMAIN w = 1 .. Len(s) - 1
    BY <2>3, <2>5, SeqDef
  <2>7. Hosts(w) = Hosts(s) \ {ip}
    <3>1. ASSUME NEW j \in 1 .. Len(s) - 1
          PROVE  w[j] \in Hosts(s) \ {ip}
      BY <2>1, <2>4, <1>0 DEF Hosts, Distinct
    <3>2. ASSUME NEW i \in 1 .. Len(s), s[i] # ip
          PROVE  \E j \in 1 .. Len(s) - 1 : At(j) = i
      <4>1. CASE i < p
        BY <4>1, <2>1, <1>0
      <4>2. CASE ~(i < p)
        <5>1. i - 1 \in 1 .. Len(s) - 1 /\ ~(i - 1 < p)
          BY <4>2, <3>2, <2>1, <1>0
        <5>2. At(i - 1) = i
          BY <5>1
        <5> QED
          BY <5>1, <5>2
      <4> QED
        BY <4>1, <4>2
    <3>3. Hosts(s) \ {ip} \subseteq Hosts(w)
      BY <3>2, <2>4, <2>6, <1>0 DEF Hosts
    <3> QED
      BY <3>1, <3>3, <2>6 DEF Hosts
  <2>8. ASSUME NEW i \in DOMAIN w, NEW j \in DOMAIN w, i < j
        PROVE  \E k, l \in DOMAIN s : k < l /\ s[k] = w[i] /\ s[l] = w[j]
    <3>1. At(i) < At(j)
      BY <2>8, <2>6, <2>1, <1>0
    <3> QED
      BY <3>1, <2>4, <2>6, <1>0
  <2> QED
    BY <2>2, <2>6, <2>7, <2>8
<1> QED
  BY <1>1, <1>2

\* After an attempt of ip the list without it is in order still.
LEMMA RemovedInOrder ==
    ASSUME NEW r, NEW s \in Seq(IPs), InOrder(r, s), NEW ip \in IPs
    PROVE  InOrder(Touched(r, ip), Without(s, ip))
<1> DEFINE w == Without(s, ip)
<1>1. /\ w \in Seq(IPs) /\ Hosts(w) = Hosts(s) \ {ip}
      /\ \A i, j \in DOMAIN w : i < j =>
             \E k, l \in DOMAIN s : k < l /\ s[k] = w[i] /\ s[l] = w[j]
  BY OrderedIsDistinct, WithoutHost
<1> HIDE DEF w
<1>2. SUFFICES ASSUME NEW i \in DOMAIN w, NEW j \in DOMAIN w, i < j
               PROVE  /\ <<w[i], w[j]>> \in Touched(r, ip)
                      /\ <<w[j], w[i]>> \notin Touched(r, ip)
  BY DEF w, InOrder
<1>3. w[i] \in IPs \ {ip} /\ w[j] \in IPs \ {ip}
  <2>1. \A k \in DOMAIN w : w[k] \in IPs /\ w[k] \in Hosts(w)
    BY <1>1 DEF Hosts
  <2> QED
    BY <2>1, <1>1
<1>4. <<w[i], w[j]>> \in r /\ <<w[j], w[i]>> \notin r
  <2>1. PICK k \in DOMAIN s, l \in DOMAIN s : k < l /\ s[k] = w[i] /\ s[l] = w[j]
    BY <1>1, <1>2
  <2> QED
    BY <2>1 DEF InOrder
<1> QED
  BY <1>3, <1>4 DEF Touched

\* Moved to the back, ip is the host seen last.
LEMMA MovedToBack ==
    ASSUME NEW r, NEW s \in Seq(IPs), InOrder(r, s), NEW ip \in IPs
    PROVE  /\ ToBack(s, ip) \in Seq(IPs)
           /\ Hosts(ToBack(s, ip)) = Hosts(s) \cup {ip}
           /\ InOrder(Touched(r, ip), ToBack(s, ip))
<1> DEFINE w == Without(s, ip)
           b == ToBack(s, ip)
           t == Touched(r, ip)
<1>1. /\ w \in Seq(IPs) /\ Hosts(w) = Hosts(s) \ {ip}
      /\ InOrder(t, w)
  BY OrderedIsDistinct, WithoutHost, RemovedInOrder
<1>2. b = Append(w, ip)
  BY DEF ToBack
<1> HIDE DEF w, b, t
<1>3. /\ b \in Seq(IPs) /\ Len(w) \in Nat
      /\ DOMAIN w = 1 .. Len(w) /\ DOMAIN b = 1 .. Len(w) + 1
      /\ \A i \in DOMAIN w : b[i] = w[i]
      /\ b[Len(w) + 1] = ip
  BY <1>1, <1>2
<1>4. Hosts(b) = Hosts(w) \cup {ip}
  <2>1. \A i \in DOMAIN b : i \in DOMAIN w \/ i = Len(w) + 1
    BY <1>3
  <2>2. Len(w) + 1 \in DOMAIN b /\ DOMAIN w \subseteq DOMAIN b
    BY <1>3
  <2> QED
    BY <1>3, <2>1, <2>2 DEF Hosts
<1>5. ASSUME NEW i \in DOMAIN b, NEW j \in DOMAIN b, i < j
      PROVE  <<b[i], b[j]>> \in t /\ <<b[j], b[i]>> \notin t
  <2>1. i \in DOMAIN w /\ (j \in DOMAIN w \/ j = Len(w) + 1)
    BY <1>3, <1>5
  <2>2. CASE j \in DOMAIN w
    <3>1. <<w[i], w[j]>> \in t /\ <<w[j], w[i]>> \notin t
      BY <1>1, <1>5, <2>1, <2>2 DEF InOrder
    <3> QED
      BY <3>1, <2>1, <2>2, <1>3
  <2>3. CASE j = Len(w) + 1
    <3>1. w[i] \in Hosts(w) /\ w[i] \in IPs
      BY <1>1, <2>1 DEF Hosts
    <3>2. w[i] \in IPs \ {ip} /\ b[j] = ip /\ b[i] = w[i]
      BY <3>1, <1>1, <1>3, <2>1, <2>3
    <3> QED
      BY <3>2 DEF t, Touched
  <2> QED
    BY <2>1, <2>2, <2>3
<1> QED
  BY <1>1, <1>3, <1>4, <1>5 DEF b, t, InOrder

-----------------------------------------------------------------------------
(* The invariant *)

\* A record that is not blocked has fewer failures than would block it.
BelowLimit ==
    \A ip \in Tracked :
        byIP[ip].blockedFor = NoBlock => byIP[ip].count < MaxAttempts

Inv == TypeOK /\ ListIsLeastRecentFirst /\ BelowLimit /\ RetryAfterSuffices

LEMMA InvInit == Init => Inv
<1> SUFFICES ASSUME Init PROVE Inv
  OBVIOUS
<1>1. Tracked = {}
  BY DEF Init, Tracked
<1>2. oldestFirst = <<>> /\ DOMAIN oldestFirst = {} /\ Len(oldestFirst) = 0
  BY DEF Init
<1>3. TypeOK
  BY <1>1, <1>2 DEF Init, TypeOK
<1>4. ListIsLeastRecentFirst
  BY <1>1, <1>2, ConstantTypes DEF ListIsLeastRecentFirst
<1> QED
  BY <1>1, <1>3, <1>4 DEF Inv, BelowLimit, RetryAfterSuffices, Blocked

\* The list and the map have the same size.
LEMMA SizesAgree ==
    ASSUME TypeOK, ListIsLeastRecentFirst
    PROVE  /\ InOrder(recency, oldestFirst) /\ Hosts(oldestFirst) = Tracked
           /\ IsFiniteSet(Tracked) /\ Cardinality(Tracked) = Len(oldestFirst)
           /\ Len(oldestFirst) \in Nat
<1>1. InOrder(recency, oldestFirst) /\ Hosts(oldestFirst) = Tracked
  BY DEF ListIsLeastRecentFirst, SeenLaterThan, InOrder, Hosts
<1>2. oldestFirst \in Seq(IPs)
  BY DEF TypeOK
<1> QED
  BY <1>1, <1>2, OrderedIsDistinct, LengthIsCardinality

\* The record of ip after a failure.
LEMMA FailureRecord ==
    ASSUME Inv, NEW ip \in IPs
    PROVE  /\ AfterFailure(ip) \in [count      : 1 .. MaxAttempts,
                                    age        : 0 .. Window,
                                    blockedFor : {NoBlock, Block}]
           /\ AfterFailure(ip).blockedFor = NoBlock =>
                  AfterFailure(ip).count < MaxAttempts
<1> DEFINE base == IF WindowOpen(ip) THEN byIP[ip] ELSE NewWindow
<1>1. /\ base \in [count      : 0 .. MaxAttempts - 1,
                   age        : 0 .. Window,
                   blockedFor : {NoBlock} \cup 0 .. Block]
      /\ base.blockedFor = NoBlock
  <2>1. CASE WindowOpen(ip)
    <3>1. /\ byIP[ip] \in [count : 1 .. MaxAttempts, age : 0 .. Window,
                           blockedFor : {NoBlock} \cup 0 .. Block]
          /\ byIP[ip].blockedFor = NoBlock
          /\ byIP[ip].count < MaxAttempts
      BY <2>1 DEF WindowOpen, Inv, TypeOK, BelowLimit
    <3>2. byIP[ip].count \in 0 .. MaxAttempts - 1
      BY <3>1, ConstantTypes
    <3> QED
      BY <2>1, <3>1, <3>2
  <2>2. CASE ~WindowOpen(ip)
    <3>1. 0 \in 0 .. MaxAttempts - 1 /\ 0 \in 0 .. Window
      BY ConstantTypes
    <3> QED
      BY <2>2, <3>1 DEF NewWindow
  <2> QED
    BY <2>1, <2>2
<1>2. AfterFailure(ip) =
          [base EXCEPT !.count = base.count + 1,
                       !.blockedFor = IF base.count + 1 >= MaxAttempts
                                      THEN Block ELSE base.blockedFor]
  BY DEF AfterFailure
<1> HIDE DEF base
<1>3. base.count + 1 \in 1 .. MaxAttempts
  BY <1>1, ConstantTypes
<1>4. NoBlock # Block
  BY ConstantTypes DEF NoBlock
<1>5. CASE base.count + 1 >= MaxAttempts
  BY <1>1, <1>2, <1>3, <1>4, <1>5
<1>6. CASE ~(base.count + 1 >= MaxAttempts)
  <2>1. base.count + 1 < MaxAttempts
    BY <1>6, <1>3, ConstantTypes
  <2> QED
    BY <1>1, <1>2, <1>3, <1>6, <2>1
<1> QED
  BY <1>5, <1>6

\* What an action has to show of the list it leaves.
LEMMA ListKept ==
    ASSUME oldestFirst' \in Seq(IPs), Hosts(oldestFirst') = Tracked',
           InOrder(recency', oldestFirst'), Cardinality(Tracked') <= MaxIPs
    PROVE  ListIsLeastRecentFirst'
<1>1. Len(oldestFirst') = Cardinality(Tracked')
  BY OrderedIsDistinct, LengthIsCardinality
<1> QED
  BY <1>1 DEF ListIsLeastRecentFirst, Hosts, InOrder, SeenLaterThan

LEMMA WhileBlockedInv ==
    ASSUME Inv, NEW ip \in IPs, AttemptWhileBlocked(ip)
    PROVE  Inv'
<1> USE DEF AttemptWhileBlocked
<1>0. /\ TypeOK /\ ListIsLeastRecentFirst
      /\ byIP' = byIP /\ Tracked' = Tracked /\ Seen(ip)
      /\ ip \in Tracked /\ byIP[ip].blockedFor \in Nat
  <2>1. byIP[ip].blockedFor \in {NoBlock} \cup 0 .. Block /\ byIP[ip].blockedFor > 0
    BY DEF Inv, TypeOK, Blocked
  <2> QED
    BY <2>1 DEF Inv, Tracked, Blocked, NoBlock
<1> DEFINE b == byIP[ip].blockedFor
           p == Seconds(b) * Second
<1>1. /\ p \in Nat /\ b <= p /\ p < b + Second
      /\ promised' = [promised EXCEPT ![ip] = p]
  BY <1>0, SecondsCover DEF SayBlocked
<1>2. /\ InOrder(recency, oldestFirst) /\ Hosts(oldestFirst) = Tracked
      /\ oldestFirst \in Seq(IPs) /\ recency \subseteq IPs \X IPs
      /\ Cardinality(Tracked) <= MaxIPs
  <2>1. Cardinality(Tracked) = Len(oldestFirst) /\ Len(oldestFirst) <= MaxIPs
    BY <1>0, SizesAgree DEF ListIsLeastRecentFirst
  <2> QED
    BY <1>0, <2>1, SizesAgree DEF TypeOK
<1>3. oldestFirst' \in Seq(IPs) /\ ListIsLeastRecentFirst'
  <2>1. /\ oldestFirst' \in Seq(IPs) /\ Hosts(oldestFirst') = Tracked
        /\ InOrder(recency', oldestFirst')
    <3>1. recency' = Touched(recency, ip) /\ oldestFirst' = ToBack(oldestFirst, ip)
      BY <1>0 DEF Seen, Touched
    <3>2. Tracked \cup {ip} = Tracked
      BY <1>0
    <3> HIDE DEF AttemptWhileBlocked
    <3> QED
      BY <3>1, <3>2, <1>2, MovedToBack
  <2> QED
    BY <2>1, <1>0, <1>2, ListKept
<1>4. TypeOK'
  <2>1. recency' \subseteq IPs \X IPs
    BY <1>0, <1>2 DEF Seen
  <2>2. promised' \in [IPs -> Nat]
    BY <1>1, <1>0 DEF TypeOK
  <2> QED
    BY <1>0, <1>3, <2>1, <2>2 DEF TypeOK
<1>5. BelowLimit'
  BY <1>0 DEF Inv, BelowLimit
<1>6. RetryAfterSuffices'
  <2> HIDE DEF p
  <2> SUFFICES ASSUME NEW q \in IPs, Blocked(q)'
               PROVE  /\ byIP[q].blockedFor <= promised'[q]
                      /\ promised'[q] < byIP[q].blockedFor + Second
    BY <1>0 DEF RetryAfterSuffices
  <2>1. Blocked(q)
    BY <1>0 DEF Blocked
  <2>2. CASE q = ip
    BY <2>2, <1>1 DEF Inv, TypeOK
  <2>3. CASE q # ip
    BY <2>3, <2>1, <1>1 DEF Inv, TypeOK, RetryAfterSuffices
  <2> QED
    BY <2>2, <2>3
<1> QED
  BY <1>3, <1>4, <1>5, <1>6 DEF Inv

LEMMA ValidInv ==
    ASSUME Inv, NEW ip \in IPs, AttemptValid(ip)
    PROVE  Inv'
<1> USE DEF AttemptValid
<1>0. /\ TypeOK /\ ListIsLeastRecentFirst /\ Seen(ip)
      /\ Tracked' = Tracked \ {ip} /\ promised' = promised
      /\ \A k \in Tracked' : byIP'[k] = byIP[k]
  BY DEF Inv, Tracked
<1>1. /\ InOrder(recency, oldestFirst) /\ Hosts(oldestFirst) = Tracked
      /\ oldestFirst \in Seq(IPs) /\ recency \subseteq IPs \X IPs
      /\ Cardinality(Tracked') <= MaxIPs
  <2>1. Cardinality(Tracked) = Len(oldestFirst) /\ Len(oldestFirst) <= MaxIPs
    BY <1>0, SizesAgree DEF ListIsLeastRecentFirst
  <2>2. Cardinality(Tracked') <= Cardinality(Tracked) /\ IsFiniteSet(Tracked')
    BY <1>0, SizesAgree, FS_Subset
  <2>3. Cardinality(Tracked') \in Nat /\ Cardinality(Tracked) \in Nat
    BY <2>2, <1>0, SizesAgree, FS_CardinalityType
  <2> QED
    BY <1>0, <2>1, <2>2, <2>3, SizesAgree, ConstantTypes DEF TypeOK
<1>2. oldestFirst' \in Seq(IPs) /\ ListIsLeastRecentFirst'
  <2>1. /\ oldestFirst' \in Seq(IPs) /\ Hosts(oldestFirst') = Tracked'
        /\ InOrder(recency', oldestFirst')
    BY <1>0, <1>1, OrderedIsDistinct, WithoutHost, RemovedInOrder DEF Seen, Touched
  <2> QED
    BY <2>1, <1>1, ListKept
<1>3. recency' \subseteq IPs \X IPs
  BY <1>0, <1>1 DEF Seen
<1>4. TypeOK'
  BY <1>0, <1>2, <1>3 DEF TypeOK
<1> QED
  BY <1>0, <1>2, <1>4 DEF Inv, BelowLimit, RetryAfterSuffices, Blocked

\* A record one tick later.
LEMMA TickRecord ==
    ASSUME TypeOK, Tick, NEW ip \in Tracked
    PROVE  /\ byIP'[ip] \in [count : 1 .. MaxAttempts, age : 0 .. Window,
                             blockedFor : {NoBlock} \cup 0 .. Block]
           /\ byIP'[ip].count = byIP[ip].count
           /\ byIP'[ip].age = IF byIP[ip].age < Window THEN byIP[ip].age + 1
                              ELSE byIP[ip].age
           /\ byIP'[ip].blockedFor =
                 IF byIP[ip].blockedFor > 0 THEN byIP[ip].blockedFor - 1
                 ELSE byIP[ip].blockedFor
           /\ byIP[ip].blockedFor \in {NoBlock} \cup 0 .. Block
<1>1. byIP[ip] \in [count : 1 .. MaxAttempts, age : 0 .. Window,
                    blockedFor : {NoBlock} \cup 0 .. Block]
  BY DEF TypeOK
<1> DEFINE a == IF byIP[ip].age < Window THEN byIP[ip].age + 1 ELSE byIP[ip].age
           b == IF byIP[ip].blockedFor > 0 THEN byIP[ip].blockedFor - 1
                ELSE byIP[ip].blockedFor
<1>2. byIP'[ip] = [byIP[ip] EXCEPT !.age = a, !.blockedFor = b]
  BY DEF Tick
<1>3. a \in 0 .. Window
  <2>1. byIP[ip].age \in 0 .. Window
    BY <1>1
  <2> QED
    BY <2>1, ConstantTypes
<1>4. b \in {NoBlock} \cup 0 .. Block
  <2>1. byIP[ip].blockedFor \in {NoBlock} \cup 0 .. Block
    BY <1>1
  <2> QED
    BY <2>1, ConstantTypes DEF NoBlock
<1>5. byIP[ip].blockedFor \in {NoBlock} \cup 0 .. Block
  BY <1>1
<1> HIDE DEF a, b
<1>6. /\ byIP'[ip] \in [count : 1 .. MaxAttempts, age : 0 .. Window,
                        blockedFor : {NoBlock} \cup 0 .. Block]
      /\ byIP'[ip].count = byIP[ip].count /\ byIP'[ip].blockedFor = b
      /\ byIP'[ip].age = a
  BY <1>1, <1>2, <1>3, <1>4
<1> QED
  BY <1>5, <1>6 DEF a, b

LEMMA TickInv ==
    ASSUME Inv, Tick
    PROVE  Inv'
<1>0. /\ TypeOK /\ ListIsLeastRecentFirst /\ Tracked' = Tracked
      /\ oldestFirst' = oldestFirst /\ recency' = recency
  BY DEF Inv, Tracked, Tick
<1>1. \A ip \in Tracked :
          /\ byIP'[ip] \in [count : 1 .. MaxAttempts, age : 0 .. Window,
                            blockedFor : {NoBlock} \cup 0 .. Block]
          /\ byIP'[ip].count = byIP[ip].count
          /\ byIP'[ip].blockedFor =
                IF byIP[ip].blockedFor > 0 THEN byIP[ip].blockedFor - 1
                ELSE byIP[ip].blockedFor
          /\ byIP[ip].blockedFor \in {NoBlock} \cup 0 .. Block
  BY <1>0, TickRecord
<1>2. promised' \in [IPs -> Nat]
  <2>1. \A ip \in IPs : promised[ip] \in Nat
    BY <1>0 DEF TypeOK
  <2>2. \A ip \in IPs : (IF promised[ip] > 0 THEN promised[ip] - 1 ELSE 0) \in Nat
    BY <2>1
  <2> QED
    BY <2>2 DEF Tick
<1>3. TypeOK'
  BY <1>0, <1>1, <1>2 DEF TypeOK
<1>4. ListIsLeastRecentFirst'
  BY <1>0 DEF ListIsLeastRecentFirst, SeenLaterThan
<1>5. BelowLimit'
  <2> SUFFICES ASSUME NEW ip \in Tracked, byIP'[ip].blockedFor = NoBlock
               PROVE  byIP'[ip].count < MaxAttempts
    BY <1>0 DEF BelowLimit
  <2>1. byIP[ip].blockedFor = NoBlock
    BY <1>1 DEF NoBlock
  <2> QED
    BY <2>1, <1>1 DEF Inv, BelowLimit
<1>6. RetryAfterSuffices'
  <2> SUFFICES ASSUME NEW ip \in IPs, Blocked(ip)'
               PROVE  /\ byIP'[ip].blockedFor <= promised'[ip]
                      /\ promised'[ip] < byIP'[ip].blockedFor + Second
    BY DEF RetryAfterSuffices
  <2>1. ip \in Tracked /\ byIP'[ip].blockedFor > 0
    BY <1>0 DEF Blocked
  <2>2. byIP[ip].blockedFor \in Nat /\ byIP'[ip].blockedFor = byIP[ip].blockedFor - 1
    BY <2>1, <1>1 DEF NoBlock
  <2>3. /\ byIP[ip].blockedFor <= promised[ip]
        /\ promised[ip] < byIP[ip].blockedFor + Second
        /\ byIP[ip].blockedFor > 1
    <3>1. byIP[ip].blockedFor > 1
      BY <2>1, <2>2
    <3> QED
      BY <3>1, <2>1, <2>2 DEF Inv, RetryAfterSuffices, Blocked
  <2>4. promised[ip] \in Nat /\ promised'[ip] = promised[ip] - 1
    <3>1. /\ promised[ip] \in Nat
          /\ promised'[ip] = IF promised[ip] > 0 THEN promised[ip] - 1 ELSE 0
      BY <1>0 DEF TypeOK, Tick
    <3> QED
      BY <3>1, <2>2, <2>3
  <2> QED
    BY <2>2, <2>3, <2>4, ConstantTypes
<1> QED
  BY <1>3, <1>4, <1>5, <1>6 DEF Inv

\* The list once room is made for ip.
Left(ip) == IF Evicted(ip) = {} THEN oldestFirst ELSE Tail(oldestFirst)

\* The oldest record makes room for a new one.
LEMMA Eviction ==
    ASSUME Inv, NEW ip \in IPs
    PROVE  /\ InOrder(recency, Left(ip)) /\ Left(ip) \in Seq(IPs)
           /\ Hosts(Left(ip)) = Tracked \ Evicted(ip)
           /\ Cardinality((Tracked \ Evicted(ip)) \cup {ip}) <= MaxIPs
           /\ Evicted(ip) # {} =>
                 /\ ip \notin Tracked /\ Cardinality(Tracked) = MaxIPs
                 /\ Head(oldestFirst) \in Tracked
                 /\ Evicted(ip) = {Head(oldestFirst)}
                 /\ \A v \in Tracked \ Evicted(ip) :
                        SeenLaterThan(v, Head(oldestFirst))
<1> DEFINE full == ip \notin Tracked /\ Cardinality(Tracked) >= MaxIPs
<1>1. /\ InOrder(recency, oldestFirst) /\ Hosts(oldestFirst) = Tracked
      /\ oldestFirst \in Seq(IPs) /\ Len(oldestFirst) <= MaxIPs
      /\ IsFiniteSet(Tracked) /\ Cardinality(Tracked) = Len(oldestFirst)
      /\ Len(oldestFirst) \in Nat /\ DOMAIN oldestFirst = 1 .. Len(oldestFirst)
  BY SizesAgree DEF Inv, TypeOK, ListIsLeastRecentFirst
<1>2. CASE ~full
  <2>1. Evicted(ip) = {}
    BY <1>2 DEF Evicted
  <2>2. Cardinality(Tracked \cup {ip}) <= MaxIPs
    <3>1. CASE ip \in Tracked
      <4>1. Tracked \cup {ip} = Tracked
        BY <3>1
      <4> QED
        BY <4>1, <1>1
    <3>2. CASE ip \notin Tracked
      <4>1. Cardinality(Tracked \cup {ip}) = Len(oldestFirst) + 1
        BY <3>2, <1>1, FS_AddElement
      <4>2. Len(oldestFirst) < MaxIPs
        BY <3>2, <1>1, <1>2, ConstantTypes
      <4> QED
        BY <4>1, <4>2, <1>1, ConstantTypes
    <3> QED
      BY <3>1, <3>2
  <2> QED
    BY <2>1, <2>2, <1>1 DEF Left
<1>3. CASE full
  <2> DEFINE h == Head(oldestFirst)
             t == Tail(oldestFirst)
  <2>1. Evicted(ip) = {h} /\ Evicted(ip) # {}
    BY <1>3 DEF Evicted
  <2>2. /\ Len(oldestFirst) = MaxIPs /\ oldestFirst # <<>>
        /\ 1 \in DOMAIN oldestFirst /\ h = oldestFirst[1]
    BY <1>1, <1>3, ConstantTypes
  <2>3. /\ t \in Seq(IPs) /\ DOMAIN t = 1 .. Len(oldestFirst) - 1
        /\ \A i \in DOMAIN t : t[i] = oldestFirst[i + 1] /\ i + 1 \in DOMAIN oldestFirst
    BY <1>1, <2>2
  <2> HIDE DEF h, t
  <2>4. Distinct(oldestFirst)
    BY <1>1, OrderedIsDistinct
  <2>5. Hosts(t) = Tracked \ {h}
    <3>1. ASSUME NEW i \in DOMAIN t PROVE t[i] \in Hosts(oldestFirst) \ {h}
      <4>1. i + 1 # 1
        BY <2>3, <1>1
      <4> QED
        BY <4>1, <2>2, <2>3, <2>4 DEF Hosts, Distinct
    <3>2. ASSUME NEW i \in DOMAIN oldestFirst, oldestFirst[i] # h
          PROVE  oldestFirst[i] \in Hosts(t)
      <4>1. i - 1 \in DOMAIN t /\ (i - 1) + 1 = i
        BY <3>2, <2>2, <2>3, <1>1
      <4> QED
        BY <4>1, <2>3 DEF Hosts
    <3> QED
      BY <3>1, <3>2, <1>1 DEF Hosts
  <2>6. InOrder(recency, t)
    <3>1. SUFFICES ASSUME NEW i \in DOMAIN t, NEW j \in DOMAIN t, i < j
                   PROVE  /\ <<t[i], t[j]>> \in recency
                          /\ <<t[j], t[i]>> \notin recency
      BY DEF InOrder
    <3>2. i + 1 < j + 1 /\ i + 1 \in DOMAIN oldestFirst /\ j + 1 \in DOMAIN oldestFirst
      BY <3>1, <2>3, <1>1
    <3> QED
      BY <3>2, <2>3, <1>1 DEF InOrder
  <2>7. Cardinality((Tracked \ {h}) \cup {ip}) <= MaxIPs
    <3>1. h \in Tracked
      BY <2>2, <1>1 DEF Hosts
    <3>2. IsFiniteSet(Tracked \ {h}) /\ Cardinality(Tracked \ {h}) = MaxIPs - 1
      BY <3>1, <1>1, <2>2, FS_RemoveElement
    <3>3. Cardinality((Tracked \ {h}) \cup {ip}) = (MaxIPs - 1) + 1
      BY <3>2, <1>3, FS_AddElement
    <3> QED
      BY <3>3, ConstantTypes
  <2>8. ASSUME NEW v \in Tracked \ {h} PROVE SeenLaterThan(v, h)
    <3>1. PICK j \in DOMAIN oldestFirst : oldestFirst[j] = v
      BY <1>1 DEF Hosts
    <3>2. 1 < j
      BY <3>1, <2>2, <1>1
    <3> QED
      BY <3>1, <3>2, <2>2, <1>1 DEF InOrder, SeenLaterThan
  <2>9. h \in Tracked
    BY <2>2, <1>1 DEF Hosts
  <2> QED
    BY <2>1, <2>2, <2>3, <2>5, <2>6, <2>7, <2>8, <2>9, <1>1, <1>3 DEF h, t, Left
<1> QED
  BY <1>2, <1>3

LEMMA InvalidInv ==
    ASSUME Inv, NEW ip \in IPs, AttemptInvalid(ip)
    PROVE  Inv'
<1> DEFINE record == AfterFailure(ip)
           left == Left(ip)
           p == Seconds(Block) * Second
<1>0. /\ TypeOK /\ Tracked' = (Tracked \ Evicted(ip)) \cup {ip}
      /\ Tracked' \subseteq IPs
      /\ \A k \in Tracked' : byIP'[k] = IF k = ip THEN record ELSE byIP[k]
      /\ oldestFirst' = ToBack(left, ip) /\ recency' = Touched(recency, ip)
  BY DEF Inv, Tracked, TypeOK, AttemptInvalid, Seen, Touched,
         Left
<1>1. \A k \in Tracked' : k # ip => k \in Tracked
  BY <1>0
<1>2. /\ record \in [count : 1 .. MaxAttempts, age : 0 .. Window,
                     blockedFor : {NoBlock, Block}]
      /\ record.blockedFor = NoBlock => record.count < MaxAttempts
  BY FailureRecord
<1>3. p \in Nat /\ Block <= p /\ p < Block + Second
  BY SecondsCover, ConstantTypes
<1>4. promised' = IF record.blockedFor = Block THEN [promised EXCEPT ![ip] = p]
                  ELSE promised
  BY DEF AttemptInvalid, SayBlocked
<1> HIDE DEF record, p
<1>5. oldestFirst' \in Seq(IPs) /\ ListIsLeastRecentFirst'
  <2>1. /\ left \in Seq(IPs) /\ InOrder(recency, left)
        /\ Hosts(left) = Tracked \ Evicted(ip)
        /\ Cardinality((Tracked \ Evicted(ip)) \cup {ip}) <= MaxIPs
    BY Eviction
  <2> HIDE DEF left
  <2>2. /\ oldestFirst' \in Seq(IPs) /\ InOrder(recency', oldestFirst')
        /\ Hosts(oldestFirst') = Tracked'
    BY <2>1, <1>0, MovedToBack
  <2> QED
    BY <2>1, <2>2, <1>0, ListKept
<1>6. TypeOK'
  <2>1. promised' \in [IPs -> Nat]
    BY <1>0, <1>3, <1>4 DEF TypeOK
  <2>2. recency' \subseteq IPs \X IPs
    BY <1>0 DEF TypeOK, Touched
  <2>3. ASSUME NEW k \in Tracked'
        PROVE  byIP'[k] \in [count : 1 .. MaxAttempts, age : 0 .. Window,
                             blockedFor : {NoBlock} \cup 0 .. Block]
    <3>1. CASE k = ip
      <4>1. Block \in 0 .. Block
        BY ConstantTypes
      <4> QED
        BY <3>1, <4>1, <1>0, <1>2
    <3>2. CASE k # ip
      BY <3>2, <1>0, <1>1 DEF TypeOK
    <3> QED
      BY <3>1, <3>2
  <2> QED
    BY <1>0, <1>5, <2>1, <2>2, <2>3 DEF TypeOK
<1>7. BelowLimit'
  <2> SUFFICES ASSUME NEW k \in Tracked', byIP'[k].blockedFor = NoBlock
               PROVE  byIP'[k].count < MaxAttempts
    BY DEF BelowLimit
  <2> QED
    BY <1>0, <1>1, <1>2 DEF Inv, BelowLimit
<1>8. RetryAfterSuffices'
  <2> SUFFICES ASSUME NEW k \in IPs, Blocked(k)'
               PROVE  /\ byIP'[k].blockedFor <= promised'[k]
                      /\ promised'[k] < byIP'[k].blockedFor + Second
    BY DEF RetryAfterSuffices
  <2>0. k \in Tracked' /\ byIP'[k].blockedFor > 0
    BY DEF Blocked
  <2>1. CASE k = ip
    <3>1. byIP'[k] = record
      BY <2>0, <2>1, <1>0
    <3>2. record.blockedFor = Block
      BY <2>0, <3>1, <1>2 DEF NoBlock
    <3>3. promised'[k] = p
      BY <3>2, <2>1, <1>0, <1>4 DEF TypeOK
    <3> QED
      BY <3>1, <3>2, <3>3, <1>3
  <2>2. CASE k # ip
    <3>1. byIP'[k] = byIP[k] /\ k \in Tracked
      BY <2>0, <2>2, <1>0, <1>1
    <3>2. promised'[k] = promised[k]
      BY <2>2, <1>0, <1>4 DEF TypeOK
    <3>3. Blocked(k)
      BY <2>0, <3>1 DEF Blocked
    <3> QED
      BY <3>1, <3>2, <3>3 DEF Inv, RetryAfterSuffices
  <2> QED
    BY <2>1, <2>2
<1> QED
  BY <1>5, <1>6, <1>7, <1>8 DEF Inv

LEMMA InvNext == Inv /\ [Next]_vars => Inv'
<1> SUFFICES ASSUME Inv, [Next]_vars PROVE Inv'
  OBVIOUS
<1>1. ASSUME NEW ip \in IPs, AttemptWhileBlocked(ip) PROVE Inv'
  BY <1>1, WhileBlockedInv
<1>2. ASSUME NEW ip \in IPs, AttemptValid(ip) PROVE Inv'
  BY <1>2, ValidInv
<1>3. ASSUME NEW ip \in IPs, AttemptInvalid(ip) PROVE Inv'
  BY <1>3, InvalidInv
<1>4. CASE Tick
  BY <1>4, TickInv
<1>5. CASE UNCHANGED vars
  BY <1>5 DEF vars, history, Inv, TypeOK, ListIsLeastRecentFirst, BelowLimit,
              RetryAfterSuffices, Tracked, Blocked, SeenLaterThan
<1> QED
  BY <1>1, <1>2, <1>3, <1>4, <1>5 DEF Next

THEOREM Invariance == Spec => []Inv
  BY InvInit, InvNext, PTL DEF Spec

-----------------------------------------------------------------------------
(* What follows *)

\* The fields of every record are within the configured limits: no record
\* counts beyond max_failed_attempts or blocks for longer than block_duration.
THEOREM TypeCorrect == Spec => []TypeOK
<1>1. Inv => TypeOK
  BY DEF Inv
<1> QED
  BY <1>1, Invariance, PTL

\* Map and list hold the same hosts, at most max_tracked_ips, the least
\* recently seen one first.
THEOREM LeastRecentFirst == Spec => []ListIsLeastRecentFirst
<1>1. Inv => ListIsLeastRecentFirst
  BY DEF Inv
<1> QED
  BY <1>1, Invariance, PTL

\* Retry-After covers the rest of the block, by less than a second.
THEOREM RetryAfterIsExact == Spec => []RetryAfterSuffices
<1>1. Inv => RetryAfterSuffices
  BY DEF Inv
<1> QED
  BY <1>1, Invariance, PTL

\* A block ends early only by the eviction of the least recently seen host.
THEOREM BlocksHold == Spec => BlockEndsByTimeOrEviction
<1> DEFINE Holds ==
        \A ip \in IPs :
          /\ Blocked(ip) /\ byIP[ip].blockedFor > 1 /\ ~Blocked(ip)'
          => /\ Cardinality(Tracked) = MaxIPs
             /\ \A v \in Tracked \ {ip} : SeenLaterThan(v, ip)
           Ends(ip) == Blocked(ip) /\ byIP[ip].blockedFor > 1 /\ ~Blocked(ip)'
           Oldest(ip) == /\ Cardinality(Tracked) = MaxIPs
                         /\ \A v \in Tracked \ {ip} : SeenLaterThan(v, ip)
<1>1. ASSUME Inv, [Next]_vars, NEW ip \in IPs, Ends(ip)
      PROVE  Oldest(ip)
  <2>0. /\ ip \in Tracked /\ byIP[ip].blockedFor \in Int /\ byIP[ip].blockedFor > 1
        /\ ~(ip \in Tracked' /\ byIP'[ip].blockedFor > 0) /\ Blocked(ip)
    BY <1>1 DEF Inv, TypeOK, Blocked, NoBlock
  <2>1. ASSUME NEW q \in IPs, AttemptWhileBlocked(q) PROVE FALSE
    BY <2>0, <2>1 DEF AttemptWhileBlocked, Tracked
  <2>2. ASSUME NEW q \in IPs, AttemptValid(q) PROVE FALSE
    <3>1. q # ip /\ Tracked' = Tracked \ {q} /\ \A k \in Tracked' : byIP'[k] = byIP[k]
      BY <2>0, <2>2 DEF AttemptValid, Tracked
    <3> QED
      BY <3>1, <2>0
  <2>3. ASSUME NEW q \in IPs, AttemptInvalid(q) PROVE Oldest(ip)
    <3>1. /\ q # ip /\ Tracked' = (Tracked \ Evicted(q)) \cup {q}
          /\ \A k \in Tracked' : k # q => byIP'[k] = byIP[k]
      BY <2>0, <2>3 DEF AttemptInvalid, Tracked
    <3>2. ip \in Evicted(q)
      BY <3>1, <2>0
    <3>3. Inv
      BY <1>1
    <3>4. /\ Evicted(q) = {Head(oldestFirst)} /\ Cardinality(Tracked) = MaxIPs
          /\ \A v \in Tracked \ Evicted(q) : SeenLaterThan(v, Head(oldestFirst))
      BY <3>2, <3>3, Eviction
    <3>5. ip = Head(oldestFirst)
      BY <3>2, <3>4
    <3> QED
      BY <3>4, <3>5
  <2>4. CASE Tick
    <3>1. Tracked' = Tracked
      BY <2>4 DEF Tick, Tracked
    <3>2. byIP'[ip].blockedFor = IF byIP[ip].blockedFor > 0
                                 THEN byIP[ip].blockedFor - 1
                                 ELSE byIP[ip].blockedFor
      BY <1>1, <2>0, <2>4, TickRecord DEF Inv
    <3> QED
      BY <3>1, <3>2, <2>0
  <2>5. CASE UNCHANGED vars
    BY <2>0, <2>5 DEF vars, Tracked
  <2> QED
    BY <1>1, <2>1, <2>2, <2>3, <2>4, <2>5 DEF Next
<1>2. Inv /\ [Next]_vars => [Holds]_vars
  BY <1>1
<1> QED
  BY <1>2, Invariance, PTL DEF Spec, BlockEndsByTimeOrEviction

-----------------------------------------------------------------------------
(* The policy *)

Standings == [ip \in IPs |-> Standing(ip)]

\* The standing is that of a record, or of none.
LEMMA StandingTypes ==
    ASSUME Inv, NEW ip \in IPs
    PROVE  /\ ip \notin Tracked => Standing(ip) = Policy!Clean
           /\ ~WindowOpen(ip) /\ ~Blocked(ip) => Standing(ip) = Policy!Clean
           /\ Standing(ip).blockedFor > 0 <=> Blocked(ip)
           /\ Standing(ip).blockedFor = 0 <=> ~Blocked(ip)
           /\ Blocked(ip) => Standing(ip).blockedFor = byIP[ip].blockedFor
           /\ Standing(ip).blockedFor \in Nat
<1>1. ip \in Tracked => byIP[ip].blockedFor \in {NoBlock} \cup 0 .. Block
  BY DEF Inv, TypeOK
<1>2. Standing(ip).blockedFor = IF Blocked(ip) THEN byIP[ip].blockedFor ELSE 0
  BY DEF Standing
<1>3. Blocked(ip) => byIP[ip].blockedFor \in Nat \ {0}
  BY <1>1 DEF Blocked, NoBlock
<1>4. ip \notin Tracked => ~WindowOpen(ip) /\ ~Blocked(ip)
  BY DEF WindowOpen, Blocked
<1>5. ~WindowOpen(ip) /\ ~Blocked(ip) => Standing(ip) = Policy!Clean
  BY DEF Standing, Policy!Clean
<1> QED
  BY <1>2, <1>3, <1>4, <1>5

\* Who keeps its record keeps its standing.
LEMMA SameStanding ==
    ASSUME NEW ip \in IPs, ip \in Tracked' <=> ip \in Tracked,
           ip \in Tracked => byIP'[ip] = byIP[ip]
    PROVE  Standing(ip)' = Standing(ip)
  BY DEF Standing, WindowOpen, Blocked

\* Who has no record afterwards is clean.
LEMMA NoRecord ==
    ASSUME NEW ip \in IPs, ip \notin Tracked'
    PROVE  Standing(ip)' = Policy!Clean
  BY DEF Standing, WindowOpen, Blocked, Policy!Clean

LEMMA RefusalRefines ==
    ASSUME Inv, NEW ip \in IPs, AttemptWhileBlocked(ip)
    PROVE  Policy!Refuse(ip) /\ Standings' = Standings
<1>1. Blocked(ip) /\ byIP' = byIP /\ Tracked' = Tracked
  BY DEF AttemptWhileBlocked, Tracked
<1>2. Standing(ip).blockedFor \in Nat
  BY StandingTypes
<1>3. Standings' = Standings
  BY <1>1, SameStanding DEF Standings
<1>4. Standing(ip).blockedFor = byIP[ip].blockedFor /\ Standing(ip).blockedFor > 0
  BY <1>1, StandingTypes
<1>5. Seconds(byIP[ip].blockedFor) = Policy!Seconds(Standing(ip).blockedFor)
  BY <1>2, <1>4, SecondsAgree
<1>6. Policy!Say(ip, "429", Policy!Seconds(Standing(ip).blockedFor))
  BY <1>5 DEF AttemptWhileBlocked, SayBlocked, Say, Policy!Say
<1> QED
  BY <1>3, <1>4, <1>6 DEF Policy!Refuse, Standings

LEMMA LoginRefines ==
    ASSUME Inv, NEW ip \in IPs, AttemptValid(ip)
    PROVE  Policy!Login(ip)
<1>1. /\ ~Blocked(ip) /\ Tracked' = Tracked \ {ip}
      /\ \A k \in Tracked' : byIP'[k] = byIP[k]
      /\ Policy!Say(ip, "pass", 0)
  BY DEF AttemptValid, Tracked, Say, Policy!Say
<1>2. \A k \in IPs \ {ip} : Standing(k)' = Standing(k)
  BY <1>1, SameStanding
<1>3. Standing(ip)' = Policy!Clean
  BY <1>1, NoRecord
<1>4. Standings' = [Standings EXCEPT ![ip] = Policy!Clean]
  BY <1>2, <1>3 DEF Standings
<1>5. Standings[ip].blockedFor = 0
  BY <1>1, StandingTypes DEF Standings
<1> QED
  BY <1>1, <1>4, <1>5 DEF Policy!Login, Standings

\* The standing that a record gives.
StandingOf(record) ==
    LET open == record.blockedFor = NoBlock /\ record.age < Window
    IN  [failures   |-> IF open THEN record.count ELSE 0,
         windowLeft |-> IF open THEN Window - record.age ELSE 0,
         blockedFor |-> IF record.blockedFor > 0 THEN record.blockedFor ELSE 0]

LEMMA RecordStanding ==
    ASSUME NEW ip \in IPs
    PROVE  /\ ip \in Tracked => Standing(ip) = StandingOf(byIP[ip])
           /\ ip \in Tracked' => Standing(ip)' = StandingOf(byIP'[ip])
  BY DEF Standing, StandingOf, WindowOpen, Blocked

\* The policy counts a failure as the record does.
LEMMA FailedStanding ==
    ASSUME Inv, NEW ip \in IPs, ~Blocked(ip)
    PROVE  /\ StandingOf(AfterFailure(ip)) = Policy!AfterFailure(Standing(ip))
           /\ AfterFailure(ip).blockedFor = Block <=>
                  Policy!AfterFailure(Standing(ip)).blockedFor > 0
<1> DEFINE base == IF WindowOpen(ip) THEN byIP[ip] ELSE NewWindow
           c == base.count
           a == base.age
<1>1. /\ c \in Nat /\ a \in Nat /\ a < Window
      /\ base = [count |-> c, age |-> a, blockedFor |-> NoBlock]
      /\ c = 0 => a = 0
      /\ Standing(ip) =
             [failures |-> c, windowLeft |-> IF c = 0 THEN 0 ELSE Window - a,
              blockedFor |-> 0]
  <2>1. CASE WindowOpen(ip)
    <3>1. /\ byIP[ip] \in [count : 1 .. MaxAttempts, age : 0 .. Window,
                           blockedFor : {NoBlock} \cup 0 .. Block]
          /\ byIP[ip].blockedFor = NoBlock /\ byIP[ip].age < Window
      BY <2>1 DEF Inv, TypeOK, WindowOpen
    <3>2. byIP[ip].count \in Nat \ {0} /\ byIP[ip].age \in Nat
      BY <3>1, ConstantTypes
    <3>3. base = byIP[ip]
      BY <2>1
    <3>4. Standing(ip) = [failures |-> c, windowLeft |-> Window - a, blockedFor |-> 0]
      BY <2>1, <3>3 DEF Standing
    <3> HIDE DEF base
    <3> QED
      BY <3>1, <3>2, <3>3, <3>4
  <2>2. CASE ~WindowOpen(ip)
    <3>1. base = NewWindow
      BY <2>2
    <3>2. Standing(ip) = Policy!Clean
      BY <2>2, StandingTypes
    <3> HIDE DEF base
    <3> QED
      BY <3>1, <3>2, ConstantTypes DEF NewWindow, Policy!Clean
  <2> QED
    BY <2>1, <2>2
<1>2. AfterFailure(ip) =
          [base EXCEPT !.count = c + 1,
                       !.blockedFor = IF c + 1 >= MaxAttempts
                                      THEN Block ELSE base.blockedFor]
  BY DEF AfterFailure
<1> HIDE DEF base, c, a
<1>3. AfterFailure(ip) =
          [count |-> c + 1, age |-> a,
           blockedFor |-> IF c + 1 >= MaxAttempts THEN Block ELSE NoBlock]
  BY <1>1, <1>2
<1>4. Block \in Nat \ {0} /\ NoBlock # Block /\ ~(NoBlock > 0)
  BY ConstantTypes DEF NoBlock
<1>5. CASE c + 1 >= MaxAttempts
  <2>1. AfterFailure(ip) = [count |-> c + 1, age |-> a, blockedFor |-> Block]
    BY <1>3, <1>5
  <2>2. StandingOf(AfterFailure(ip)) =
            [failures |-> 0, windowLeft |-> 0, blockedFor |-> Block]
    BY <2>1, <1>4 DEF StandingOf
  <2>3. Policy!AfterFailure(Standing(ip)) =
            [failures |-> 0, windowLeft |-> 0, blockedFor |-> Block]
    BY <1>1, <1>5 DEF Policy!AfterFailure, Policy!Clean
  <2> QED
    BY <2>1, <2>2, <2>3, <1>4
<1>6. CASE ~(c + 1 >= MaxAttempts)
  <2>1. AfterFailure(ip) = [count |-> c + 1, age |-> a, blockedFor |-> NoBlock]
    BY <1>3, <1>6
  <2>2. StandingOf(AfterFailure(ip)) =
            [failures |-> c + 1, windowLeft |-> Window - a, blockedFor |-> 0]
    BY <2>1, <1>1, <1>4 DEF StandingOf
  <2>3. Policy!AfterFailure(Standing(ip)) =
            [failures |-> c + 1, windowLeft |-> Window - a, blockedFor |-> 0]
    BY <1>1, <1>6, ConstantTypes DEF Policy!AfterFailure
  <2> QED
    BY <2>1, <2>2, <2>3, <1>4
<1> QED
  BY <1>5, <1>6

LEMMA FailureRefines ==
    ASSUME Inv, NEW ip \in IPs, AttemptInvalid(ip)
    PROVE  Policy!Fail(ip)
<1> DEFINE record == AfterFailure(ip)
           next == Policy!AfterFailure(Standing(ip))
           gone == Evicted(ip)
<1>0. /\ ~Blocked(ip) /\ Tracked' = (Tracked \ gone) \cup {ip}
      /\ Tracked \subseteq IPs
      /\ \A k \in Tracked' : byIP'[k] = IF k = ip THEN record ELSE byIP[k]
      /\ IF record.blockedFor = Block THEN Say(ip, "429", Seconds(Block))
         ELSE Say(ip, "407", 0)
  BY DEF AttemptInvalid, SayBlocked, Tracked, Inv, TypeOK
<1>1. Standings[ip].blockedFor = 0 /\ Standings[ip] = Standing(ip)
  BY <1>0, StandingTypes DEF Standings
<1>2. Standing(ip)' = next
  <2>1. ip \in Tracked' /\ byIP'[ip] = record
    BY <1>0
  <2> QED
    BY <1>0, <2>1, RecordStanding, FailedStanding
<1>3. record.blockedFor = Block <=> next.blockedFor > 0
  BY <1>0, FailedStanding
<1>4. Seconds(Block) = Policy!Seconds(Block)
  BY SecondsAgree, ConstantTypes
<1> HIDE DEF record, next
<1>5. IF next.blockedFor > 0 THEN Policy!Say(ip, "429", Policy!Seconds(Block))
      ELSE Policy!Say(ip, "407", 0)
  BY <1>0, <1>3, <1>4 DEF Say, Policy!Say
<1>6. \A v \in IPs \ {ip} :
          Standing(v)' = IF v \in gone THEN Policy!Clean ELSE Standing(v)
  <2> SUFFICES ASSUME NEW v \in IPs \ {ip}
               PROVE  Standing(v)' = IF v \in gone THEN Policy!Clean ELSE Standing(v)
    OBVIOUS
  <2>1. CASE v \in gone
    BY <2>1, <1>0, NoRecord
  <2>2. CASE v \notin gone
    <3>1. v \in Tracked' <=> v \in Tracked
      BY <2>2, <1>0
    <3>2. v \in Tracked => byIP'[v] = byIP[v]
      BY <3>1, <1>0
    <3> QED
      BY <2>2, <3>1, <3>2, SameStanding
  <2> QED
    BY <2>1, <2>2
<1>7. gone = {} \/ /\ \E v \in IPs \ {ip} : gone = {v}
                   /\ Standing(ip) = Policy!Clean /\ Cardinality(IPs) > MaxIPs
  <2> SUFFICES ASSUME gone # {}
               PROVE  /\ \E v \in IPs \ {ip} : gone = {v}
                      /\ Standing(ip) = Policy!Clean /\ Cardinality(IPs) > MaxIPs
    OBVIOUS
  <2>1. /\ ip \notin Tracked /\ Cardinality(Tracked) = MaxIPs
        /\ Head(oldestFirst) \in Tracked /\ gone = {Head(oldestFirst)}
    BY Eviction
  <2>2. Standing(ip) = Policy!Clean
    BY <2>1, StandingTypes
  <2>3. Cardinality(IPs) > MaxIPs
    <3>1. /\ Cardinality(Tracked) <= Cardinality(IPs)
          /\ Cardinality(IPs) = Cardinality(Tracked) => IPs = Tracked
      BY <1>0, ConstantTypes, FS_Subset
    <3>2. Cardinality(IPs) \in Nat /\ IPs # Tracked
      BY <2>1, ConstantTypes, FS_CardinalityType
    <3> QED
      BY <3>1, <3>2, <2>1, ConstantTypes
  <2> QED
    BY <2>1, <2>2, <2>3, <1>0
<1>8. gone \in IF Standings[ip] = Policy!Clean /\ Cardinality(IPs) > MaxIPs
              THEN {{v} : v \in IPs \ {ip}} \cup {{}}
              ELSE {{}}
  BY <1>1, <1>7
<1>9. Standings' = [v \in IPs |-> IF v = ip THEN next
                                 ELSE IF v \in gone THEN Policy!Clean
                                 ELSE Standings[v]]
  <2>1. /\ Standings' = [v \in IPs |-> Standing(v)']
        /\ \A v \in IPs : Standings[v] = Standing(v)
    BY DEF Standings
  <2>2. \A v \in IPs : Standing(v)' = IF v = ip THEN next
                                       ELSE IF v \in gone THEN Policy!Clean
                                       ELSE Standings[v]
    BY <1>2, <1>6, <2>1
  <2> DEFINE After(v) == IF v = ip THEN next
                         ELSE IF v \in gone THEN Policy!Clean ELSE Standings[v]
  <2>3. \A v \in IPs : Standing(v)' = After(v)
    BY <2>2
  <2> HIDE DEF After
  <2>4. Standings' = [v \in IPs |-> After(v)]
    BY <2>1, <2>3
  <2> QED
    BY <2>4 DEF After
<1> QED
  <2>1. Policy!Cardinality(IPs) = Cardinality(IPs)
    BY DEF Policy!Cardinality, Cardinality
  <2>2. gone \in Policy!Displaced(ip)
    BY <1>8, <2>1 DEF Policy!Displaced, Standings
  <2> HIDE DEF gone
  <2>3. /\ [k \in IPs |-> Standing(k)]' =
               [v \in IPs |-> IF v = ip THEN next
                             ELSE IF v \in gone THEN Policy!Clean
                             ELSE [k \in IPs |-> Standing(k)][v]]
        /\ next = Policy!AfterFailure([k \in IPs |-> Standing(k)][ip])
        /\ [k \in IPs |-> Standing(k)][ip].blockedFor = 0
    BY <1>1, <1>9 DEF Standings, next
  <2> QED
    BY <1>5, <2>2, <2>3 DEF Policy!Fail

LEMMA TickRefines ==
    ASSUME Inv, Tick
    PROVE  Policy!Tick
<1>1. ASSUME NEW ip \in IPs
      PROVE  Standing(ip)' = Policy!Older(Standing(ip))
  <2>0. Tracked' = Tracked
    BY DEF Tick, Tracked
  <2>1. CASE ip \notin Tracked
    <3>1. Standing(ip) = Policy!Clean /\ Standing(ip)' = Policy!Clean
      BY <2>0, <2>1, StandingTypes, NoRecord
    <3> QED
      BY <3>1 DEF Policy!Older, Policy!Clean
  <2>2. CASE ip \in Tracked
    <3> DEFINE c == byIP[ip].count
               a == byIP[ip].age
               b == byIP[ip].blockedFor
    <3>1. byIP[ip] \in [count : 1 .. MaxAttempts, age : 0 .. Window,
                        blockedFor : {NoBlock} \cup 0 .. Block]
      BY <2>2 DEF Inv, TypeOK
    <3>2. c \in Nat /\ a \in 0 .. Window /\ b \in {NoBlock} \cup 0 .. Block
      BY <3>1, ConstantTypes
    <3>3. /\ byIP'[ip].count = c
          /\ byIP'[ip].age = IF a < Window THEN a + 1 ELSE a
          /\ byIP'[ip].blockedFor = IF b > 0 THEN b - 1 ELSE b
      BY <2>2, TickRecord DEF Inv
    <3>4. /\ Standing(ip) = StandingOf(byIP[ip])
          /\ Standing(ip)' = StandingOf(byIP'[ip])
      BY <2>0, <2>2, RecordStanding
    <3>5. CASE b > 0
      <4>1. Standing(ip) = [failures |-> 0, windowLeft |-> 0, blockedFor |-> b]
        BY <3>2, <3>4, <3>5 DEF StandingOf, NoBlock
      <4>2. Standing(ip)' = [failures |-> 0, windowLeft |-> 0, blockedFor |-> b - 1]
        <5>1. /\ byIP'[ip].blockedFor = b - 1 /\ b - 1 # NoBlock
              /\ (IF b - 1 > 0 THEN b - 1 ELSE 0) = b - 1
          BY <3>2, <3>3, <3>5 DEF NoBlock
        <5> QED
          BY <3>4, <5>1 DEF StandingOf
      <4> HIDE DEF b
      <4> QED
        BY <4>1, <4>2, <3>5 DEF Policy!Older
    <3>6. CASE b = 0
      <4>1. Standing(ip) = Policy!Clean
        BY <3>4, <3>6 DEF StandingOf, NoBlock, Policy!Clean
      <4>2. Standing(ip)' = Policy!Clean
        BY <3>3, <3>4, <3>6 DEF StandingOf, NoBlock, Policy!Clean
      <4> QED
        BY <4>1, <4>2 DEF Policy!Older, Policy!Clean
    <3>7. CASE b = NoBlock
      <4>1. byIP'[ip].blockedFor = NoBlock /\ ~(NoBlock > 0)
        BY <3>3, <3>7 DEF NoBlock
      <4>2. CASE a < Window
        <5>1. Standing(ip) = [failures |-> c, windowLeft |-> Window - a, blockedFor |-> 0]
          BY <3>4, <3>7, <4>1, <4>2 DEF StandingOf
        <5>2. Window - a \in Nat \ {0} /\ byIP'[ip].age = a + 1
          BY <3>2, <3>3, <4>2, ConstantTypes
        <5>3. CASE Window - a <= 1
          <6>1. ~(a + 1 < Window)
            BY <5>3, <3>2, ConstantTypes
          <6>2. Standing(ip)' = Policy!Clean
            BY <3>4, <4>1, <5>2, <6>1 DEF StandingOf, Policy!Clean
          <6> QED
            BY <5>1, <5>3, <6>2 DEF Policy!Older
        <5>4. CASE ~(Window - a <= 1)
          <6>1. a + 1 < Window /\ Window - (a + 1) = Window - a - 1
            BY <5>4, <3>2, ConstantTypes
          <6>2. Standing(ip)' =
                    [failures |-> c, windowLeft |-> Window - a - 1, blockedFor |-> 0]
            BY <3>3, <3>4, <4>1, <5>2, <6>1 DEF StandingOf
          <6> HIDE DEF a, c
          <6> QED
            BY <5>1, <5>4, <6>2 DEF Policy!Older
        <5> QED
          BY <5>3, <5>4
      <4>3. CASE ~(a < Window)
        <5>1. Standing(ip) = Policy!Clean
          BY <3>4, <3>7, <4>1, <4>3 DEF StandingOf, Policy!Clean
        <5>2. Standing(ip)' = Policy!Clean
          BY <3>3, <3>4, <4>1, <4>3 DEF StandingOf, Policy!Clean
        <5> QED
          BY <5>1, <5>2 DEF Policy!Older, Policy!Clean
      <4> QED
        BY <4>2, <4>3
    <3> QED
      BY <3>2, <3>5, <3>6, <3>7
  <2> QED
    BY <2>1, <2>2
<1>2. Standings' = [ip \in IPs |-> Policy!Older(Standings[ip])]
  BY <1>1 DEF Standings
<1>3. UNCHANGED answer
  BY DEF Tick
<1> QED
  BY <1>2, <1>3 DEF Policy!Tick, Standings

\* The limiter is the policy of AuthPolicy, which knows no records.
THEOREM PolicyRefinement == Spec => ImplementsPolicy
<1>1. Init => Policy!Init
  <2> SUFFICES ASSUME Init PROVE Policy!Init
    OBVIOUS
  <2>1. Tracked = {}
    BY DEF Init, Tracked
  <2>2. \A ip \in IPs : Standing(ip) = Policy!Clean
    BY <2>1 DEF Standing, WindowOpen, Blocked, Policy!Clean
  <2> QED
    BY <2>2 DEF Init, Policy!Init
<1>2. Inv /\ [Next]_vars => [Policy!Next]_(Policy!vars)
  <2> SUFFICES ASSUME Inv, [Next]_vars PROVE [Policy!Next]_(Policy!vars)
    OBVIOUS
  <2>1. ASSUME NEW ip \in IPs, AttemptWhileBlocked(ip) PROVE Policy!Next
    BY <2>1, RefusalRefines DEF Policy!Next
  <2>2. ASSUME NEW ip \in IPs, AttemptValid(ip) PROVE Policy!Next
    BY <2>2, LoginRefines DEF Policy!Next
  <2>3. ASSUME NEW ip \in IPs, AttemptInvalid(ip) PROVE Policy!Next
    BY <2>3, FailureRefines DEF Policy!Next
  <2>4. CASE Tick
    BY <2>4, TickRefines DEF Policy!Next
  <2>5. CASE UNCHANGED vars
    <3>1. byIP' = byIP /\ answer' = answer /\ Tracked' = Tracked
      BY <2>5 DEF vars, Tracked
    <3>2. \A ip \in IPs : Standing(ip)' = Standing(ip)
      BY <3>1, SameStanding
    <3> QED
      BY <3>1, <3>2 DEF Policy!vars
  <2> QED
    BY <2>1, <2>2, <2>3, <2>4, <2>5 DEF Next
<1> QED
  BY <1>1, <1>2, Invariance, PTL DEF Spec, Policy!Spec, ImplementsPolicy

\* The policy in one sentence, for each host: only a failure of its own raises its
\* count, by one, and is answered with 407; a block starts only with the
\* max_failed_attempts-th of them, lasts block_duration, and its answer says so.
\* No attempt of another host, no eviction and no lapse of a record counts.
OnlyOwnFailuresCount ==
    [][\A ip \in IPs :
         /\ Standing(ip)'.failures > Standing(ip).failures =>
              /\ Standing(ip)'.failures = Standing(ip).failures + 1
              /\ answer' = [ip |-> ip, verdict |-> "407", retryAfter |-> 0]
         /\ ~Blocked(ip) /\ Blocked(ip)' =>
              /\ Standing(ip).failures = MaxAttempts - 1
              /\ Standing(ip)'.blockedFor = Block
              /\ answer' = [ip |-> ip, verdict |-> "429",
                            retryAfter |-> Seconds(Block)]]_vars

\* What a record that is not blocked counts is below the limit.
LEMMA FailuresBelowLimit ==
    ASSUME Inv, NEW ip \in IPs
    PROVE  /\ Standing(ip).failures \in 0 .. MaxAttempts - 1
           /\ Standing(ip).blockedFor \in Nat
<1>1. Standing(ip).failures = IF WindowOpen(ip) THEN byIP[ip].count ELSE 0
  BY DEF Standing
<1>2. WindowOpen(ip) => byIP[ip].count \in Nat /\ byIP[ip].count < MaxAttempts
  BY ConstantTypes DEF Inv, TypeOK, BelowLimit, WindowOpen
<1> QED
  BY <1>1, <1>2, ConstantTypes, StandingTypes

\* A failure in terms of standings: that of the host is counted, that of every
\* other one stays or is forgotten.
LEMMA FailureCounts ==
    ASSUME Inv, NEW ip \in IPs, AttemptInvalid(ip)
    PROVE  /\ ~Blocked(ip)
           /\ Standing(ip)' = Policy!AfterFailure(Standing(ip))
           /\ \A v \in IPs \ {ip} :
                  Standing(v)' = Policy!Clean \/ Standing(v)' = Standing(v)
           /\ answer' = IF Policy!AfterFailure(Standing(ip)).blockedFor > 0
                        THEN [ip |-> ip, verdict |-> "429",
                              retryAfter |-> Seconds(Block)]
                        ELSE [ip |-> ip, verdict |-> "407", retryAfter |-> 0]
<1>0. Policy!Fail(ip)
  BY FailureRefines
<1>1. \A v \in IPs : Standings[v] = Standing(v) /\ Standings'[v] = Standing(v)'
  BY DEF Standings
<1> DEFINE next == Policy!AfterFailure(Standing(ip))
<1>2. PICK gone :
        Standings' = [v \in IPs |-> IF v = ip THEN next
                                   ELSE IF v \in gone THEN Policy!Clean
                                   ELSE Standings[v]]
  <2>1. Standings[ip] = Standing(ip)
    BY <1>1
  <2> QED
    BY <1>0, <2>1 DEF Policy!Fail, Standings
<1>3. IF next.blockedFor > 0 THEN Policy!Say(ip, "429", Policy!Seconds(Block))
      ELSE Policy!Say(ip, "407", 0)
  <2>1. Standings[ip] = Standing(ip)
    BY <1>1
  <2> QED
    BY <1>0, <2>1 DEF Policy!Fail, Standings
<1> HIDE DEF next
<1>4. Seconds(Block) = Policy!Seconds(Block)
  BY SecondsAgree, ConstantTypes
<1>5. Standing(ip)' = next
  BY <1>1, <1>2
<1>6. \A v \in IPs \ {ip} : Standing(v)' = Policy!Clean \/ Standing(v)' = Standing(v)
  BY <1>1, <1>2
<1>7. ~Blocked(ip)
  BY DEF AttemptInvalid
<1>8. answer' = IF next.blockedFor > 0
                THEN [ip |-> ip, verdict |-> "429", retryAfter |-> Seconds(Block)]
                ELSE [ip |-> ip, verdict |-> "407", retryAfter |-> 0]
  BY <1>3, <1>4 DEF Policy!Say
<1> QED
  BY <1>5, <1>6, <1>7, <1>8 DEF next

\* A host whose standing stays, ends or ages neither counts a failure nor gets
\* blocked.
LEMMA NothingCounts ==
    ASSUME Inv, NEW ip \in IPs,
           \/ Standing(ip)' = Standing(ip)
           \/ Standing(ip)' = Policy!Clean
           \/ Standing(ip)' = Policy!Older(Standing(ip))
    PROVE  /\ ~(Standing(ip)'.failures > Standing(ip).failures)
           /\ ~Blocked(ip) => ~Blocked(ip)'
<1> DEFINE s == Standing(ip)
           t == Standing(ip)'
<1>1. /\ s.failures \in Nat /\ s.blockedFor \in Nat
      /\ ~Blocked(ip) => s.blockedFor = 0
  BY FailuresBelowLimit, StandingTypes, ConstantTypes
<1>2. /\ s = [failures |-> s.failures, windowLeft |-> s.windowLeft,
              blockedFor |-> s.blockedFor]
  BY DEF Standing
<1>3. Blocked(ip)' => t.blockedFor > 0
  BY DEF Standing, Blocked
<1> HIDE DEF s, t
<1>4. /\ ~(t.failures > s.failures)
      /\ s.blockedFor = 0 => ~(t.blockedFor > 0)
  <2>1. CASE t = s
    BY <1>1, <2>1
  <2>2. CASE t = Policy!Clean
    BY <1>1, <2>2 DEF Policy!Clean
  <2>3. CASE t = Policy!Older(s)
    BY <1>1, <1>2, <2>3 DEF Policy!Older, Policy!Clean
  <2> QED
    BY <2>1, <2>2, <2>3 DEF s, t
<1> QED
  BY <1>1, <1>3, <1>4 DEF s, t

\* authFailureLimiter.attempt blocks a host for its own failures alone: at the
\* limit, never before it, for whatever other hosts do meanwhile.
THEOREM BlocksAreEarned == Spec => OnlyOwnFailuresCount
<1> DEFINE Counts(ip) ==
        /\ Standing(ip)'.failures > Standing(ip).failures =>
             /\ Standing(ip)'.failures = Standing(ip).failures + 1
             /\ answer' = [ip |-> ip, verdict |-> "407", retryAfter |-> 0]
        /\ ~Blocked(ip) /\ Blocked(ip)' =>
             /\ Standing(ip).failures = MaxAttempts - 1
             /\ Standing(ip)'.blockedFor = Block
             /\ answer' = [ip |-> ip, verdict |-> "429",
                           retryAfter |-> Seconds(Block)]
<1>1. ASSUME Inv, NEW ip \in IPs, AttemptInvalid(ip) PROVE Counts(ip)
  <2> DEFINE s == Standing(ip)
             t == Standing(ip)'
  <2>1. s.failures \in 0 .. MaxAttempts - 1
    BY <1>1, FailuresBelowLimit
  <2>2. /\ ~Blocked(ip) /\ t = Policy!AfterFailure(s)
        /\ answer' = IF Policy!AfterFailure(s).blockedFor > 0
                     THEN [ip |-> ip, verdict |-> "429",
                           retryAfter |-> Seconds(Block)]
                     ELSE [ip |-> ip, verdict |-> "407", retryAfter |-> 0]
    BY <1>1, FailureCounts
  <2>3. Blocked(ip)' => t.blockedFor > 0
    BY <1>1 DEF Standing, Blocked
  <2> HIDE DEF s, t
  <2>4. CASE s.failures + 1 >= MaxAttempts
    <3>1. t = [failures |-> 0, windowLeft |-> 0, blockedFor |-> Block]
      BY <2>2, <2>4 DEF Policy!AfterFailure, Policy!Clean
    <3>2. answer' = [ip |-> ip, verdict |-> "429", retryAfter |-> Seconds(Block)]
      BY <2>2, <3>1, ConstantTypes
    <3>3. s.failures = MaxAttempts - 1 /\ ~(t.failures > s.failures)
      BY <2>1, <2>4, <3>1, ConstantTypes
    <3>4. t.blockedFor = Block
      BY <3>1
    <3> QED
      BY <3>2, <3>3, <3>4 DEF s, t
  <2>5. CASE ~(s.failures + 1 >= MaxAttempts)
    <3>1. t.failures = s.failures + 1 /\ t.blockedFor = 0
      BY <2>2, <2>5 DEF Policy!AfterFailure
    <3>2. answer' = [ip |-> ip, verdict |-> "407", retryAfter |-> 0]
      BY <2>2, <3>1
    <3> QED
      BY <2>3, <3>1, <3>2 DEF s, t
  <2> QED
    BY <2>4, <2>5
<1>2. ASSUME Inv, [Next]_vars, NEW ip \in IPs,
             \A v \in IPs : AttemptInvalid(v) => v # ip
      PROVE  \/ Standing(ip)' = Standing(ip)
             \/ Standing(ip)' = Policy!Clean
             \/ Standing(ip)' = Policy!Older(Standing(ip))
  <2>0. Standings[ip] = Standing(ip) /\ Standings'[ip] = Standing(ip)'
    BY DEF Standings
  <2>1. ASSUME NEW v \in IPs, AttemptWhileBlocked(v)
        PROVE  Standing(ip)' = Standing(ip)
    BY <1>2, <2>0, <2>1, RefusalRefines
  <2>2. ASSUME NEW v \in IPs, AttemptValid(v)
        PROVE  Standing(ip)' = Policy!Clean \/ Standing(ip)' = Standing(ip)
    <3>1. Standings' = [Standings EXCEPT ![v] = Policy!Clean]
      BY <1>2, <2>2, LoginRefines DEF Policy!Login, Standings
    <3> QED
      BY <2>0, <3>1 DEF Standings
  <2>3. ASSUME NEW v \in IPs, AttemptInvalid(v)
        PROVE  Standing(ip)' = Policy!Clean \/ Standing(ip)' = Standing(ip)
    BY <1>2, <2>3, FailureCounts
  <2>4. ASSUME Tick PROVE Standing(ip)' = Policy!Older(Standing(ip))
    <3>1. Standings' = [v \in IPs |-> Policy!Older(Standings[v])]
      BY <1>2, <2>4, TickRefines DEF Policy!Tick, Standings
    <3> QED
      BY <2>0, <3>1
  <2>5. ASSUME UNCHANGED vars PROVE Standing(ip)' = Standing(ip)
    <3>1. byIP' = byIP /\ Tracked' = Tracked
      BY <2>5 DEF vars, Tracked
    <3> QED
      BY <3>1, SameStanding
  <2> QED
    BY <1>2, <2>1, <2>2, <2>3, <2>4, <2>5 DEF Next
<1>3. ASSUME Inv, [Next]_vars, NEW ip \in IPs PROVE Counts(ip)
  <2>1. CASE AttemptInvalid(ip)
    BY <1>1, <1>3, <2>1
  <2>2. CASE ~AttemptInvalid(ip)
    <3>1. /\ ~(Standing(ip)'.failures > Standing(ip).failures)
          /\ ~Blocked(ip) => ~Blocked(ip)'
      BY <1>2, <1>3, <2>2, NothingCounts
    <3> QED
      BY <3>1
  <2> QED
    BY <2>1, <2>2
<1>4. Inv /\ [Next]_vars => [\A ip \in IPs : Counts(ip)]_vars
  BY <1>3
<1> QED
  BY <1>4, Invariance, PTL DEF Spec, OnlyOwnFailuresCount
=============================================================================
