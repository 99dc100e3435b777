--------------------------- MODULE ListenerProofs ---------------------------
(***************************************************************************)
(* The connection limits hold for every number of connections, hosts and   *)
(* closing goroutines, and the listener implements SlotPool.               *)
(***************************************************************************)
EXTENDS Listener, LimiterProofs

-----------------------------------------------------------------------------
(* The invariant of the listener *)

\* Accept, Close and their interleavings keep the types of the listener's own
\* variables.
LEMMA ConnTypeCorrect == Spec => []ConnTypeOK
<1>1. Init => ConnTypeOK
  BY DEF Init, ConnTypeOK
<1>2. ConnTypeOK /\ [Next]_vars => ConnTypeOK'
  <2> SUFFICES ASSUME ConnTypeOK, [Next]_vars PROVE ConnTypeOK'
    OBVIOUS
  <2>1. ASSUME NEW c \in Conns, Accept(c) PROVE ConnTypeOK'
    BY <2>1 DEF ConnTypeOK, Accept
  <2>2. ASSUME NEW c \in Conns, Admit(c) PROVE ConnTypeOK'
    BY <2>2 DEF ConnTypeOK, Admit
  <2>3. ASSUME NEW c \in Conns, TurnAway(c) PROVE ConnTypeOK'
    BY <2>3 DEF ConnTypeOK, TurnAway
  <2>4. ASSUME NEW c \in Conns, NEW g \in Closers, BeginClose(c, g)
        PROVE  ConnTypeOK'
    BY <2>4 DEF ConnTypeOK, BeginClose
  <2>5. ASSUME NEW c \in Conns, NEW g \in Closers, FinishClose(c, g)
        PROVE  ConnTypeOK'
    BY <2>5 DEF ConnTypeOK, FinishClose
  <2>6. CASE AcceptFails
    BY <2>6 DEF ConnTypeOK, AcceptFails
  <2>7. CASE UNCHANGED vars
    BY <2>7 DEF ConnTypeOK, vars, connVars
  <2> QED
    BY <2>1, <2>2, <2>3, <2>4, <2>5, <2>6, <2>7 DEF Next
<1> QED
  BY <1>1, <1>2, PTL DEF Spec

\* The inductive invariant: the counters describe the holders, Close runs in
\* its order and somebody is about to release each closed connection's slot.
Inv == ConnTypeOK /\ SlotsMatchConnections /\ CloseOrder /\ NoSlotLost

\* The holders are finitely many connections, so that they can be counted.
LEMMA HoldersFinite == IsFiniteSet(Holders) /\ Holders \in SUBSET Conns
  BY ListenerAssumption, FS_Subset DEF Holders

\* A step that changes neither the holders, nor their hosts, nor the counters
\* keeps the account.
LEMMA SameHolders ==
    ASSUME SlotsMatchConnections, Holders' = Holders,
           \A h \in Holders : host'[h] = host[h], UNCHANGED limiterVars
    PROVE  SlotsMatchConnections'
<1>1. {host'[h] : h \in Holders'} = {host[h] : h \in Holders}
  OBVIOUS
<1>2. \A k : {h \in Holders' : host'[h] = k} = {h \in Holders : host[h] = k}
  OBVIOUS
<1> QED
  BY <1>1, <1>2 DEF SlotsMatchConnections, Accounts, WithinLimits, limiterVars

\* Accept, when tryAcquire succeeds, makes the connection a holder and keeps
\* the account.
LEMMA AdmitKeepsSlots ==
    ASSUME ConnTypeOK, SlotsMatchConnections, NEW c \in Conns, Admit(c), ~spent[c]
    PROVE  SlotsMatchConnections' /\ Holders' = Holders \cup {c}
<1>1. c \notin Holders
  BY DEF Admit, Holders
<1>2. Holders' = Holders \cup {c} /\ host' = host
  BY DEF Admit, Holders, ConnTypeOK
<1>3. /\ total' = Cardinality(Holders \cup {c})
      /\ DOMAIN perKey' = {host[g] : g \in Holders \cup {c}}
      /\ \A k \in DOMAIN perKey' :
             perKey'[k] = Cardinality({g \in (Holders \cup {c}) : host[g] = k})
      /\ WithinLimits'
  <2>1. Acquire(host[c]) /\ Accounts(Holders, host) /\ WithinLimits
    BY DEF Admit, SlotsMatchConnections
  <2> QED
    BY <1>1, <2>1, HoldersFinite, AcquireCounts
<1> QED
  BY <1>1, <1>2, <1>3 DEF SlotsMatchConnections, Accounts

\* The first once.Do(c.release) takes the connection out of the holders and
\* keeps the account.
LEMMA FinishKeepsSlots ==
    ASSUME ConnTypeOK, SlotsMatchConnections, CloseOrder, NEW c \in Conns,
           NEW goroutine \in Closers, FinishClose(c, goroutine), ~spent[c]
    PROVE  SlotsMatchConnections' /\ c \in Holders /\ Holders' = Holders \ {c}
<1>1. c \in Holders
  BY DEF FinishClose, CloseOrder, Holders
<1>2. Holders' = Holders \ {c} /\ host' = host
  BY DEF FinishClose, Holders, ConnTypeOK
<1>3. /\ total' = Cardinality(Holders \ {c})
      /\ DOMAIN perKey' = {host[g] : g \in Holders \ {c}}
      /\ \A k \in DOMAIN perKey' :
             perKey'[k] = Cardinality({g \in (Holders \ {c}) : host[g] = k})
      /\ WithinLimits'
  <2>1. Release(host[c]) /\ Accounts(Holders, host) /\ WithinLimits
    BY DEF FinishClose, SlotsMatchConnections
  <2> QED
    BY <1>1, <2>1, HoldersFinite, ReleaseCounts
<1> QED
  BY <1>1, <1>2, <1>3 DEF SlotsMatchConnections, Accounts

\* The invariant holds before the first connection is accepted.
LEMMA InvInit == Init => Inv
<1> SUFFICES ASSUME Init PROVE Inv
  OBVIOUS
<1>1. Holders = {}
  BY DEF Init, Holders
<1>2. SlotsMatchConnections
  BY <1>1, FS_EmptySet, LimiterAssumption
     DEF SlotsMatchConnections, Accounts, WithinLimits, Init, LimiterInit
<1>3. ConnTypeOK /\ CloseOrder /\ NoSlotLost
  BY <1>1 DEF Init, ConnTypeOK, CloseOrder, NoSlotLost
<1> QED
  BY <1>2, <1>3 DEF Inv

\* Every step of the accept loop and of the closing goroutines keeps the
\* invariant: one step per action.
LEMMA InvStep ==
    ASSUME Inv, ConnTypeOK', [Next]_vars
    PROVE  Inv'
<1> USE DEF Inv
<1>1. ASSUME NEW c \in Conns, Accept(c) PROVE Inv'
  <2>1. c \notin Holders /\ Holders' = Holders
    BY <1>1 DEF Accept, Unused, Holders, ConnTypeOK
  <2>2. SlotsMatchConnections'
    BY <1>1, <2>1, SameHolders, HoldersFinite DEF Accept, ConnTypeOK
  <2>3. CloseOrder' /\ NoSlotLost'
    BY <1>1, <2>1 DEF Accept, Unused, CloseOrder, NoSlotLost, Holders, ConnTypeOK
  <2> QED
    BY <2>2, <2>3
<1>2. ASSUME NEW c \in Conns, Admit(c) PROVE Inv'
  <2>1. ~spent[c]
    BY <1>2 DEF Admit, CloseOrder
  <2>2. SlotsMatchConnections' /\ Holders' = Holders \cup {c}
    BY <1>2, <2>1, AdmitKeepsSlots
  <2>3. CloseOrder'
    BY <1>2, <2>1 DEF Admit, CloseOrder, ConnTypeOK
  <2>4. NoSlotLost'
    BY <1>2, <2>2 DEF Admit, NoSlotLost, CloseOrder, Holders, ConnTypeOK
  <2> QED
    BY <2>2, <2>3, <2>4
<1>3. ASSUME NEW c \in Conns, TurnAway(c) PROVE Inv'
  <2>1. Holders' = Holders
    BY <1>3 DEF TurnAway, Holders, ConnTypeOK
  <2>2. SlotsMatchConnections'
    BY <1>3, <2>1, SameHolders DEF TurnAway, Refuse
  <2>3. CloseOrder' /\ NoSlotLost'
    BY <1>3, <2>1 DEF TurnAway, CloseOrder, NoSlotLost, Holders, ConnTypeOK
  <2> QED
    BY <2>2, <2>3
<1>4. ASSUME NEW c \in Conns, NEW g \in Closers, BeginClose(c, g) PROVE Inv'
  <2>1. Holders' = Holders
    BY <1>4 DEF BeginClose, Holders, ConnTypeOK
  <2>2. SlotsMatchConnections'
    BY <1>4, <2>1, SameHolders DEF BeginClose
  <2>3. CloseOrder' /\ NoSlotLost'
    BY <1>4, <2>1 DEF BeginClose, CloseOrder, NoSlotLost, Holders, ConnTypeOK
  <2> QED
    BY <2>2, <2>3
<1>5. ASSUME NEW c \in Conns, NEW g \in Closers, FinishClose(c, g) PROVE Inv'
  <2>1. CloseOrder'
    BY <1>5 DEF FinishClose, CloseOrder, ConnTypeOK
  <2>2. CASE spent[c]
    <3>1. Holders' = Holders /\ c \notin Holders
      BY <1>5, <2>2 DEF FinishClose, Holders, ConnTypeOK
    <3>2. SlotsMatchConnections'
      BY <1>5, <2>2, <3>1, SameHolders DEF FinishClose
    <3>3. NoSlotLost'
      BY <1>5, <3>1 DEF FinishClose, NoSlotLost, Holders, ConnTypeOK
    <3> QED
      BY <2>1, <3>2, <3>3
  <2>3. CASE ~spent[c]
    <3>1. SlotsMatchConnections' /\ Holders' = Holders \ {c}
      BY <1>5, <2>3, FinishKeepsSlots
    <3>2. NoSlotLost'
      BY <1>5, <3>1 DEF FinishClose, NoSlotLost, Holders, ConnTypeOK
    <3> QED
      BY <2>1, <3>1, <3>2
  <2> QED
    BY <2>2, <2>3
<1>6. CASE AcceptFails
  <2>1. Holders' = Holders
    BY <1>6 DEF AcceptFails, Holders
  <2>2. SlotsMatchConnections'
    BY <1>6, <2>1, SameHolders DEF AcceptFails
  <2>3. CloseOrder' /\ NoSlotLost'
    BY <1>6, <2>1 DEF AcceptFails, CloseOrder, NoSlotLost
  <2> QED
    BY <2>2, <2>3
<1>7. CASE UNCHANGED vars
  <2>1. Holders' = Holders
    BY <1>7 DEF vars, connVars, Holders
  <2>2. SlotsMatchConnections'
    BY <1>7, <2>1, SameHolders DEF vars, connVars
  <2>3. CloseOrder' /\ NoSlotLost'
    BY <1>7, <2>1 DEF vars, connVars, CloseOrder, NoSlotLost
  <2> QED
    BY <2>2, <2>3
<1> QED
  BY <1>1, <1>2, <1>3, <1>4, <1>5, <1>6, <1>7 DEF Next

\* The invariant holds in every reachable state.
LEMMA Invariance == Spec => []Inv
  BY InvInit, InvStep, ConnTypeCorrect, PTL DEF Spec

-----------------------------------------------------------------------------
(* What the limits promise *)

\* Every reachable state is well typed: l.total and the entries of l.perKey
\* never become negative, since each connection's once releases one slot.
THEOREM TypeCorrect == Spec => []TypeOK
<1>1. Inv => TypeOK
  <2> SUFFICES ASSUME Inv PROVE TypeOK
    OBVIOUS
  <2>1. total \in Nat
    BY HoldersFinite, FS_CardinalityType DEF Inv, SlotsMatchConnections, Accounts
  <2>2. DOMAIN perKey \subseteq Keys
    BY HoldersFinite DEF Inv, SlotsMatchConnections, Accounts, ConnTypeOK
  <2>3. ASSUME NEW k \in DOMAIN perKey PROVE perKey[k] \in Nat
    <3>1. IsFiniteSet({h \in Holders : host[h] = k})
      BY HoldersFinite, FS_Subset
    <3> QED
      BY <3>1, FS_CardinalityType DEF Inv, SlotsMatchConnections, Accounts
  <2> QED
    BY <2>1, <2>2, <2>3 DEF Inv, TypeOK, LimiterTypeOK
<1> QED
  BY <1>1, Invariance, PTL

\* The limiter's counters are exact whatever the goroutines that close the
\* connections do: closing twice, or together, releases one slot.
THEOREM SlotsExact == Spec => []SlotsMatchConnections
  BY Invariance, PTL DEF Inv

\* No closed connection keeps its slot without a goroutine about to release it.
THEOREM NoLostSlot == Spec => []NoSlotLost
  BY Invariance, PTL DEF Inv

\* max_connections and max_connections_per_ip bound the sockets that are open,
\* not merely the counters.
THEOREM SocketsBounded == Spec => []OpenSocketsWithinLimits
<1>1. Inv => OpenSocketsWithinLimits
  <2> SUFFICES ASSUME Inv PROVE OpenSocketsWithinLimits
    OBVIOUS
  <2> DEFINE Open == {c \in Conns : socket[c] = "open" /\ admission[c] = "in"}
  <2>1. Open \subseteq Holders
    BY DEF Inv, CloseOrder, Holders
  <2>2. Cardinality(Open) <= MaxTotal
    <3>1. Cardinality(Open) <= Cardinality(Holders)
      BY <2>1, HoldersFinite, FS_Subset
    <3>2. Cardinality(Holders) <= MaxTotal
      BY DEF Inv, SlotsMatchConnections, Accounts, WithinLimits
    <3>3. Cardinality(Open) \in Nat /\ Cardinality(Holders) \in Nat
      BY <2>1, HoldersFinite, FS_Subset, FS_CardinalityType
    <3> QED
      BY <3>1, <3>2, <3>3, LimiterAssumption
  <2>3. ASSUME NEW k \in Keys
        PROVE  Cardinality({c \in Open : host[c] = k}) <= MaxPerKey
    <3> DEFINE Of == {h \in Holders : host[h] = k}
    <3>1. IsFiniteSet(Of) /\ Cardinality(Of) \in Nat
      BY HoldersFinite, FS_Subset, FS_CardinalityType
    <3>2. {c \in Open : host[c] = k} \subseteq Of
      BY <2>1
    <3>3. /\ Cardinality({c \in Open : host[c] = k}) <= Cardinality(Of)
          /\ Cardinality({c \in Open : host[c] = k}) \in Nat
      BY <3>1, <3>2, FS_Subset, FS_CardinalityType
    <3>4. Cardinality(Of) = Held(k)
      BY HoldersFinite, HeldCounts DEF Inv, SlotsMatchConnections
    <3>5. Held(k) <= MaxPerKey
      BY LimiterAssumption
         DEF Inv, SlotsMatchConnections, WithinLimits, Held
    <3> QED
      BY <3>1, <3>3, <3>4, <3>5, LimiterAssumption
  <2> QED
    BY <2>2, <2>3 DEF OpenSocketsWithinLimits
<1> QED
  BY <1>1, Invariance, PTL

-----------------------------------------------------------------------------
(* Refinement *)

\* The users inside the abstract pool are the holders.
LEMMA InsideIsHolders ==
    /\ Pool!Inside = Holders
    /\ \A k : Pool!InsideOf(k) = {h \in Holders : host[h] = k}
  BY DEF Pool!Inside, Pool!InsideOf, Holders

\* SlotPool counts with the same Cardinality.
LEMMA SameCardinality == \A S : Pool!Cardinality(S) = Cardinality(S)
  BY DEF Pool!Cardinality, Cardinality

\* The limiter's two comparisons decide whether the pool has room.
LEMMA RoomIsCanAcquire ==
    ASSUME SlotsMatchConnections, NEW k
    PROVE  Pool!Room(k) <=> CanAcquire(k)
<1>1. Held(k) = Cardinality({h \in Holders : host[h] = k})
  BY HoldersFinite, HeldCounts DEF SlotsMatchConnections
<1>2. total = Cardinality(Holders)
  BY DEF SlotsMatchConnections, Accounts
<1> QED
  BY <1>1, <1>2, InsideIsHolders, SameCardinality DEF Pool!Room, CanAcquire

\* The status a connection has in the pool.
Status == [c \in Conns |-> IF c \in Holders THEN "in"
                           ELSE IF admission[c] = "refused" THEN "denied"
                           ELSE "out"]

\* Every step of the listener is a step of the pool or changes nothing there.
LEMMA StepRefines ==
    ASSUME Inv, Inv', [Next]_vars
    PROVE  [Pool!Next]_(Pool!vars)
<1> USE DEF Inv
<1>1. ASSUME NEW c \in Conns, Accept(c) PROVE Pool!Next
  <2>1. c \notin Holders /\ Holders' = Holders
    BY <1>1 DEF Accept, Unused, Holders, ConnTypeOK
  <2>2. PICK k \in Keys : host' = [host EXCEPT ![c] = k]
    BY <1>1 DEF Accept
  <2>3. Status[c] # "in" /\ Status' = [Status EXCEPT ![c] = "out"]
    <3>1. admission' = [admission EXCEPT ![c] = "pending"]
      BY <1>1 DEF Accept
    <3>2. \A d \in Conns : Status'[d] = IF d = c THEN "out" ELSE Status[d]
      BY <2>1, <3>1 DEF Status, ConnTypeOK
    <3> QED
      BY <2>1, <3>2 DEF Status
  <2>4. Pool!Come(c, k)
    BY <2>2, <2>3 DEF Pool!Come, Status
  <2> QED
    BY <2>4 DEF Pool!Next
<1>2. ASSUME NEW c \in Conns, Admit(c) PROVE Pool!Next
  <2>1. ~spent[c] /\ c \notin Holders
    BY <1>2 DEF Admit, CloseOrder, Holders
  <2>2. Holders' = Holders \cup {c} /\ host' = host
    BY <1>2, <2>1, AdmitKeepsSlots DEF Admit
  <2>3. Status[c] = "out" /\ Status' = [Status EXCEPT ![c] = "in"]
    BY <1>2, <2>1, <2>2 DEF Admit, Status, ConnTypeOK
  <2>4. Pool!Room(host[c])
    BY <1>2, RoomIsCanAcquire DEF Admit, Acquire
  <2>5. Pool!Grant(c)
    BY <2>2, <2>3, <2>4 DEF Pool!Grant, Status
  <2> QED
    BY <2>5 DEF Pool!Next
<1>3. ASSUME NEW c \in Conns, TurnAway(c) PROVE Pool!Next
  <2>1. c \notin Holders /\ Holders' = Holders /\ host' = host
    BY <1>3 DEF TurnAway, Holders, ConnTypeOK
  <2>2. Status[c] = "out" /\ Status' = [Status EXCEPT ![c] = "denied"]
    <3>1. /\ admission[c] = "pending"
          /\ admission' = [admission EXCEPT ![c] = "refused"]
      BY <1>3 DEF TurnAway
    <3>2. \A d \in Conns : Status'[d] = IF d = c THEN "denied" ELSE Status[d]
      BY <2>1, <3>1 DEF Status, ConnTypeOK
    <3> QED
      BY <2>1, <3>1, <3>2 DEF Status
  <2>3. ~Pool!Room(host[c])
    BY <1>3, RoomIsCanAcquire DEF TurnAway, Refuse
  <2>4. Pool!Deny(c)
    BY <2>1, <2>2, <2>3 DEF Pool!Deny, Status
  <2> QED
    BY <2>4 DEF Pool!Next
<1>4. ASSUME NEW c \in Conns, NEW g \in Closers, BeginClose(c, g)
      PROVE  UNCHANGED Pool!vars
  <2>1. Holders' = Holders /\ admission' = admission /\ host' = host
    BY <1>4 DEF BeginClose, Holders, ConnTypeOK
  <2> QED
    BY <2>1 DEF Pool!vars
<1>5. ASSUME NEW c \in Conns, NEW g \in Closers, FinishClose(c, g)
      PROVE  [Pool!Next]_(Pool!vars)
  <2>1. CASE spent[c]
    <3>1. Holders' = Holders /\ admission' = admission /\ host' = host
      BY <1>5, <2>1 DEF FinishClose, Holders, ConnTypeOK
    <3> QED
      BY <3>1 DEF Pool!vars
  <2>2. CASE ~spent[c]
    <3>1. /\ c \in Holders /\ Holders' = Holders \ {c}
          /\ admission' = admission /\ host' = host
      BY <1>5, <2>2, FinishKeepsSlots DEF FinishClose
    <3>2. Status[c] = "in" /\ Status' = [Status EXCEPT ![c] = "out"]
      BY <3>1 DEF Status, Holders
    <3>3. Pool!GiveBack(c)
      BY <3>1, <3>2 DEF Pool!GiveBack, Status
    <3> QED
      BY <3>3 DEF Pool!Next
  <2> QED
    BY <2>1, <2>2
<1>6. CASE AcceptFails
  BY <1>6 DEF AcceptFails, Holders, Pool!vars
<1>7. CASE UNCHANGED vars
  BY <1>7 DEF vars, connVars, Holders, Pool!vars
<1> QED
  BY <1>1, <1>2, <1>3, <1>4, <1>5, <1>6, <1>7 DEF Next

\* The listener implements the slot pool: connections are admitted only below
\* both limits and refused only at one of them, for every interleaving of the
\* accept loop with the goroutines that close connections.
THEOREM Refinement == Spec => ImplementsSlotPool
<1>1. Init => Pool!Init
  BY DEF Init, Pool!Init, Holders
<1>2. Inv /\ Inv' /\ [Next]_vars => [Pool!Next]_(Pool!vars)
  BY StepRefines
<1> QED
  BY <1>1, <1>2, Invariance, PTL DEF Spec, Pool!Spec, ImplementsSlotPool
=============================================================================
