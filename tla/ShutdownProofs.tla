--------------------------- MODULE ShutdownProofs ---------------------------
(***************************************************************************)
(* What closeAll and waitFor promise holds for every number of tunnels and *)
(* every interleaving of their handlers, copying goroutines, timers and    *)
(* callbacks with Run.                                                     *)
(***************************************************************************)
EXTENDS Shutdown, FiniteSetTheorems, TLAPS

-----------------------------------------------------------------------------
(* The inductive invariant *)

\* Run is past the critical section of closeAll exactly when the registry
\* refuses tunnels.
RegistryClosesOnce == closing = (main \notin {"serving", "closeAll"})

\* While closeAll loops, a registered tunnel is closed or still in the slice
\* that closeAll goes through.  No tunnel can have joined since.
CloseAllMissesNone ==
    main = "closing" => \A t \in active : pairClosed[t] \/ t \in pairs

\* The deferred closePair runs before the deferred release.
PairClosesBeforeRelease == \A t \in Tunnels : pc[t] = "unwound" => pairClosed[t]

Inv ==
    /\ TypeOK
    /\ WaitCountsTunnels
    /\ RegistryClosesOnce
    /\ CloseAllMissesNone
    /\ PairClosesBeforeRelease
    /\ ReleasedTunnelsAreClosed
    /\ NoTunnelEscapesCloseAll

\* The registered tunnels are finitely many, so that they can be counted.
LEMMA ActiveFinite ==
    ASSUME TypeOK PROVE IsFiniteSet(active) /\ Cardinality(active) \in Nat
  BY ShutdownAssumption, FS_Subset, FS_CardinalityType DEF TypeOK

LEMMA Initially == Init => Inv
<1> SUFFICES ASSUME Init PROVE Inv
  OBVIOUS
<1> USE DEF Init, RegistryInit
<1>1. TypeOK
  BY DEF TypeOK, Ends
<1>2. WaitCountsTunnels
  BY FS_EmptySet DEF WaitCountsTunnels
<1>3. /\ RegistryClosesOnce /\ CloseAllMissesNone /\ PairClosesBeforeRelease
      /\ ReleasedTunnelsAreClosed /\ NoTunnelEscapesCloseAll
  BY DEF RegistryClosesOnce, CloseAllMissesNone, PairClosesBeforeRelease,
         ReleasedTunnelsAreClosed, NoTunnelEscapesCloseAll
<1> QED
  BY <1>1, <1>2, <1>3 DEF Inv

\* A registered tunnel is counted, so its release leaves a natural number.
LEMMA CounterSteps ==
    ASSUME TypeOK, WaitCountsTunnels
    PROVE  wait + 1 \in Nat /\ \A t \in active : wait - 1 \in Nat
<1>1. wait \in Nat /\ (active # {} => wait # 0)
  BY ActiveFinite, FS_EmptySet DEF WaitCountsTunnels
<1> QED
  BY <1>1

\* Every step keeps the types; release never takes the counter below zero.
LEMMA KeepsTypeOK == Inv /\ [Next]_vars => TypeOK'
<1> SUFFICES ASSUME Inv, [Next]_vars PROVE TypeOK'
  OBVIOUS
<1> USE DEF Inv, TypeOK, Ends,
            Goto, ClosePair, ends, client, tunnelVars, runVars, registryVars,
            shared
<1>1. ASSUME NEW t \in Tunnels, Register(t) PROVE TypeOK'
  BY <1>1, CounterSteps DEF Register, Track
<1>2. ASSUME NEW t \in Tunnels, UnwindRegistration(t) PROVE TypeOK'
  BY <1>2, CounterSteps DEF UnwindRegistration, Untrack
<1>3. ASSUME NEW t \in Tunnels,
             \/ Start(t) \/ EndSetup(t) \/ Hijack(t) \/ RegisterRefused(t)
      PROVE  TypeOK'
  <2>1. CASE Start(t)
    BY <2>1 DEF Start
  <2>2. CASE EndSetup(t)
    BY <2>2 DEF EndSetup
  <2>3. CASE Hijack(t)
    BY <2>3 DEF Hijack
  <2>4. CASE RegisterRefused(t)
    BY <2>4 DEF RegisterRefused, Untracked, TrackRefused
  <2> QED
    BY <1>3, <2>1, <2>2, <2>3, <2>4
<1>4. ASSUME NEW t \in Tunnels,
             \/ Greet(t) \/ FirstResult(t) \/ SecondResult(t) \/ UnwindPair(t)
      PROVE  TypeOK'
  <2>1. CASE Greet(t)
    BY <2>1 DEF Greet
  <2>2. CASE FirstResult(t)
    BY <2>2 DEF FirstResult
  <2>3. CASE SecondResult(t)
    BY <2>3 DEF SecondResult
  <2>4. CASE UnwindPair(t)
    BY <2>4 DEF UnwindPair
  <2> QED
    BY <1>4, <2>1, <2>2, <2>3, <2>4
<1>5. ASSUME NEW t \in Tunnels, Copying(t) \/ IdleFires(t) \/ ContextCloses(t)
      PROVE  TypeOK'
  <2>1. CASE UpEnds(t)
    BY <2>1 DEF UpEnds
  <2>2. CASE DownEnds(t)
    BY <2>2 DEF DownEnds
  <2>3. CASE IdleFires(t)
    BY <2>3 DEF IdleFires, Relaying
  <2>4. CASE ContextCloses(t)
    BY <2>4 DEF ContextCloses
  <2> QED
    BY <1>5, <2>1, <2>2, <2>3, <2>4 DEF Copying
<1>6. ASSUME NEW t \in Tunnels, Leave(t) \/ Stall(t) \/ Resume(t)
      PROVE  TypeOK'
  <2>1. CASE Leave(t)
    BY <2>1 DEF Leave
  <2>2. CASE Stall(t)
    BY <2>2 DEF Stall
  <2>3. CASE Resume(t)
    BY <2>3 DEF Resume
  <2> QED
    BY <1>6, <2>1, <2>2, <2>3
<1>7. CASE StopServing \/ CloseAll \/ CloseNextPair \/ EndCloseAll
  BY <1>7 DEF StopServing, CloseAll, StartClosing, CloseNextPair, EndCloseAll
<1>8. CASE ShutdownDone \/ ShutdownFails \/ WaitDone \/ WaitExpires \/ Expire
  BY <1>8 DEF ShutdownDone, ShutdownFails, WaitDone, WaitExpires, Expire
<1>9. CASE UNCHANGED vars
  BY <1>9 DEF vars
<1> QED
  BY <1>1, <1>2, <1>3, <1>4, <1>5, <1>6, <1>7, <1>8, <1>9
     DEF Next, Handler, Client, Run

\* track adds a tunnel and counts it, release undoes both, and nothing else
\* touches the registered tunnels.
LEMMA KeepsWaitCountsTunnels == Inv /\ [Next]_vars => WaitCountsTunnels'
<1> SUFFICES ASSUME Inv, [Next]_vars PROVE WaitCountsTunnels'
  OBVIOUS
<1> USE DEF Inv, TypeOK, WaitCountsTunnels,
            Goto, ClosePair, ends, client, tunnelVars, runVars, registryVars,
            shared
<1>1. ASSUME NEW t \in Tunnels, Register(t) PROVE WaitCountsTunnels'
  <2>1. t \notin active /\ active' = active \cup {t} /\ wait' = wait + 1
    BY <1>1 DEF Register, Untracked, Track
  <2>2. wait' = Cardinality(active')
    BY <2>1, ActiveFinite, FS_AddElement
  <2> QED
    BY <1>1, <2>1, <2>2 DEF Register
<1>2. ASSUME NEW t \in Tunnels, UnwindRegistration(t) PROVE WaitCountsTunnels'
  <2>1. t \in active /\ active' = active \ {t} /\ wait' = wait - 1
    BY <1>2 DEF UnwindRegistration, Untrack
  <2>2. wait' = Cardinality(active')
    BY <2>1, ActiveFinite, FS_RemoveElement
  <2> QED
    BY <1>2, <2>1, <2>2 DEF UnwindRegistration
<1>3. ASSUME NEW t \in Tunnels,
             \/ Start(t) \/ EndSetup(t) \/ Hijack(t) \/ RegisterRefused(t)
      PROVE  WaitCountsTunnels'
  BY <1>3 DEF Start, EndSetup, Hijack, RegisterRefused, Untracked, TrackRefused
<1>4. ASSUME NEW t \in Tunnels,
             \/ Greet(t) \/ FirstResult(t) \/ SecondResult(t) \/ UnwindPair(t)
      PROVE  WaitCountsTunnels'
  BY <1>4 DEF Greet, FirstResult, SecondResult, UnwindPair
<1>5. ASSUME NEW t \in Tunnels, Copying(t) \/ IdleFires(t) \/ ContextCloses(t)
      PROVE  WaitCountsTunnels'
  BY <1>5 DEF Copying, UpEnds, DownEnds, IdleFires, ContextCloses, Relaying
<1>6. ASSUME NEW t \in Tunnels, Leave(t) \/ Stall(t) \/ Resume(t)
      PROVE  WaitCountsTunnels'
  BY <1>6 DEF Leave, Stall, Resume, Relaying
<1>7. CASE StopServing \/ CloseAll \/ CloseNextPair \/ EndCloseAll
  BY <1>7 DEF StopServing, CloseAll, StartClosing, CloseNextPair, EndCloseAll
<1>8. CASE ShutdownDone \/ ShutdownFails \/ WaitDone \/ WaitExpires \/ Expire
  BY <1>8 DEF ShutdownDone, ShutdownFails, WaitDone, WaitExpires, Expire
<1>9. CASE UNCHANGED vars
  BY <1>9 DEF vars
<1> QED
  BY <1>1, <1>2, <1>3, <1>4, <1>5, <1>6, <1>7, <1>8, <1>9
     DEF Next, Handler, Client, Run

\* Only closeAll closes the registry, and only there Run passes it.
LEMMA KeepsRegistryClosesOnce == Inv /\ [Next]_vars => RegistryClosesOnce'
<1> SUFFICES ASSUME Inv, [Next]_vars PROVE RegistryClosesOnce'
  OBVIOUS
<1> USE DEF Inv, TypeOK, RegistryClosesOnce,
            Goto, ClosePair, ends, client, tunnelVars, runVars, registryVars,
            shared
<1>1. ASSUME NEW t \in Tunnels, Register(t) PROVE RegistryClosesOnce'
  BY <1>1 DEF Register, Untracked, Track
<1>2. ASSUME NEW t \in Tunnels, UnwindRegistration(t) PROVE RegistryClosesOnce'
  BY <1>2 DEF UnwindRegistration, Untrack
<1>3. ASSUME NEW t \in Tunnels,
             \/ Start(t) \/ EndSetup(t) \/ Hijack(t) \/ RegisterRefused(t)
      PROVE  RegistryClosesOnce'
  BY <1>3 DEF Start, EndSetup, Hijack, RegisterRefused, Untracked, TrackRefused
<1>4. ASSUME NEW t \in Tunnels,
             \/ Greet(t) \/ FirstResult(t) \/ SecondResult(t) \/ UnwindPair(t)
      PROVE  RegistryClosesOnce'
  BY <1>4 DEF Greet, FirstResult, SecondResult, UnwindPair
<1>5. ASSUME NEW t \in Tunnels, Copying(t) \/ IdleFires(t) \/ ContextCloses(t)
      PROVE  RegistryClosesOnce'
  BY <1>5 DEF Copying, UpEnds, DownEnds, IdleFires, ContextCloses, Relaying
<1>6. ASSUME NEW t \in Tunnels, Leave(t) \/ Stall(t) \/ Resume(t)
      PROVE  RegistryClosesOnce'
  BY <1>6 DEF Leave, Stall, Resume, Relaying
<1>7. CASE StopServing \/ CloseAll \/ CloseNextPair \/ EndCloseAll
  BY <1>7 DEF StopServing, CloseAll, StartClosing, CloseNextPair, EndCloseAll
<1>8. CASE ShutdownDone \/ ShutdownFails \/ WaitDone \/ WaitExpires \/ Expire
  BY <1>8 DEF ShutdownDone, ShutdownFails, WaitDone, WaitExpires, Expire
<1>9. CASE UNCHANGED vars
  BY <1>9 DEF vars
<1> QED
  BY <1>1, <1>2, <1>3, <1>4, <1>5, <1>6, <1>7, <1>8, <1>9
     DEF Next, Handler, Client, Run

\* closeAll starts with every registered tunnel, loses one only by closing it,
\* and no tunnel registers meanwhile.
LEMMA KeepsCloseAllMissesNone == Inv /\ [Next]_vars => CloseAllMissesNone'
<1> SUFFICES ASSUME Inv, [Next]_vars PROVE CloseAllMissesNone'
  OBVIOUS
<1> USE DEF Inv, TypeOK, RegistryClosesOnce, CloseAllMissesNone,
            Goto, ClosePair, ends, client, tunnelVars, runVars, registryVars,
            shared
<1>1. ASSUME NEW t \in Tunnels, Register(t) PROVE CloseAllMissesNone'
  BY <1>1 DEF Register, Untracked, Track
<1>2. ASSUME NEW t \in Tunnels, UnwindRegistration(t) PROVE CloseAllMissesNone'
  BY <1>2 DEF UnwindRegistration, Untrack
<1>3. ASSUME NEW t \in Tunnels,
             \/ Start(t) \/ EndSetup(t) \/ Hijack(t) \/ RegisterRefused(t)
      PROVE  CloseAllMissesNone'
  BY <1>3 DEF Start, EndSetup, Hijack, RegisterRefused, Untracked, TrackRefused
<1>4. ASSUME NEW t \in Tunnels,
             \/ Greet(t) \/ FirstResult(t) \/ SecondResult(t) \/ UnwindPair(t)
      PROVE  CloseAllMissesNone'
  BY <1>4 DEF Greet, FirstResult, SecondResult, UnwindPair
<1>5. ASSUME NEW t \in Tunnels, Copying(t) \/ IdleFires(t) \/ ContextCloses(t)
      PROVE  CloseAllMissesNone'
  BY <1>5 DEF Copying, UpEnds, DownEnds, IdleFires, ContextCloses, Relaying
<1>6. ASSUME NEW t \in Tunnels, Leave(t) \/ Stall(t) \/ Resume(t)
      PROVE  CloseAllMissesNone'
  BY <1>6 DEF Leave, Stall, Resume, Relaying
<1>7. CASE StopServing \/ CloseAll \/ CloseNextPair \/ EndCloseAll
  BY <1>7 DEF StopServing, CloseAll, StartClosing, CloseNextPair, EndCloseAll
<1>8. CASE ShutdownDone \/ ShutdownFails \/ WaitDone \/ WaitExpires \/ Expire
  BY <1>8 DEF ShutdownDone, ShutdownFails, WaitDone, WaitExpires, Expire
<1>9. CASE UNCHANGED vars
  BY <1>9 DEF vars
<1> QED
  BY <1>1, <1>2, <1>3, <1>4, <1>5, <1>6, <1>7, <1>8, <1>9
     DEF Next, Handler, Client, Run

\* A handler reaches its release through closePair, and nothing reopens a pair.
LEMMA KeepsPairClosesBeforeRelease == Inv /\ [Next]_vars => PairClosesBeforeRelease'
<1> SUFFICES ASSUME Inv, [Next]_vars PROVE PairClosesBeforeRelease'
  OBVIOUS
<1> USE DEF Inv, TypeOK, PairClosesBeforeRelease,
            Goto, ClosePair, ends, client, tunnelVars, runVars, registryVars,
            shared
<1>1. ASSUME NEW t \in Tunnels, Register(t) PROVE PairClosesBeforeRelease'
  BY <1>1 DEF Register, Untracked, Track
<1>2. ASSUME NEW t \in Tunnels, UnwindRegistration(t) PROVE PairClosesBeforeRelease'
  BY <1>2 DEF UnwindRegistration, Untrack
<1>3. ASSUME NEW t \in Tunnels,
             \/ Start(t) \/ EndSetup(t) \/ Hijack(t) \/ RegisterRefused(t)
      PROVE  PairClosesBeforeRelease'
  BY <1>3 DEF Start, EndSetup, Hijack, RegisterRefused, Untracked, TrackRefused
<1>4. ASSUME NEW t \in Tunnels,
             \/ Greet(t) \/ FirstResult(t) \/ SecondResult(t) \/ UnwindPair(t)
      PROVE  PairClosesBeforeRelease'
  BY <1>4 DEF Greet, FirstResult, SecondResult, UnwindPair
<1>5. ASSUME NEW t \in Tunnels, Copying(t) \/ IdleFires(t) \/ ContextCloses(t)
      PROVE  PairClosesBeforeRelease'
  BY <1>5 DEF Copying, UpEnds, DownEnds, IdleFires, ContextCloses, Relaying
<1>6. ASSUME NEW t \in Tunnels, Leave(t) \/ Stall(t) \/ Resume(t)
      PROVE  PairClosesBeforeRelease'
  BY <1>6 DEF Leave, Stall, Resume, Relaying
<1>7. CASE StopServing \/ CloseAll \/ CloseNextPair \/ EndCloseAll
  BY <1>7 DEF StopServing, CloseAll, StartClosing, CloseNextPair, EndCloseAll
<1>8. CASE ShutdownDone \/ ShutdownFails \/ WaitDone \/ WaitExpires \/ Expire
  BY <1>8 DEF ShutdownDone, ShutdownFails, WaitDone, WaitExpires, Expire
<1>9. CASE UNCHANGED vars
  BY <1>9 DEF vars
<1> QED
  BY <1>1, <1>2, <1>3, <1>4, <1>5, <1>6, <1>7, <1>8, <1>9
     DEF Next, Handler, Client, Run

\* A handler moves alone, and closePair is for good.
LEMMA HandlerMovesAlone ==
    ASSUME TypeOK, NEW t \in Tunnels, NEW l, pc' = [pc EXCEPT ![t] = l],
           \/ pairClosed' = pairClosed
           \/ pairClosed' = [pairClosed EXCEPT ![t] = TRUE]
    PROVE  /\ pc'[t] = l /\ \A u \in Tunnels \ {t} : pc'[u] = pc[u]
           /\ \A u \in Tunnels : pairClosed[u] => pairClosed'[u]
  BY DEF TypeOK

\* A handler returns only by a path that called closePair.
LEMMA KeepsReleasedTunnelsAreClosed == Inv /\ [Next]_vars => ReleasedTunnelsAreClosed'
<1> SUFFICES ASSUME Inv, [Next]_vars PROVE ReleasedTunnelsAreClosed'
  OBVIOUS
<1> USE DEF Inv, TypeOK, WaitCountsTunnels,
            PairClosesBeforeRelease, ReleasedTunnelsAreClosed,
            Goto, ClosePair, ends, client, tunnelVars, runVars, registryVars,
            shared
<1>1. ASSUME NEW t \in Tunnels, Register(t) PROVE ReleasedTunnelsAreClosed'
  <2>1. /\ active' = active \cup {t} /\ pairClosed' = pairClosed
        /\ \A u \in Tunnels \ {t} : pc'[u] = pc[u]
    BY <1>1 DEF Register, Track
  <2> QED
    BY <2>1
<1>2. ASSUME NEW t \in Tunnels, UnwindRegistration(t) PROVE ReleasedTunnelsAreClosed'
  <2>1. /\ active' = active \ {t} /\ pairClosed' = pairClosed /\ pc[t] = "unwound"
        /\ \A u \in Tunnels \ {t} : pc'[u] = pc[u]
    BY <1>2 DEF UnwindRegistration, Untrack
  <2> QED
    BY <2>1
<1>3. ASSUME NEW t \in Tunnels,
             \/ Start(t) \/ EndSetup(t) \/ Hijack(t) \/ RegisterRefused(t)
      PROVE  ReleasedTunnelsAreClosed'
  <2>1. CASE Start(t)
    BY <2>1 DEF Start
  <2>2. CASE EndSetup(t)
    BY <2>2 DEF EndSetup
  <2>3. CASE Hijack(t)
    <3>1. PICK l \in {"aborted", "untracked"} :
              pc' = [pc EXCEPT ![t] = l]
      BY <2>3 DEF Hijack
    <3> QED
      BY <2>3, <3>1 DEF Hijack
  <2>4. CASE RegisterRefused(t)
    BY <2>4 DEF RegisterRefused, Untracked, TrackRefused
  <2> QED
    BY <1>3, <2>1, <2>2, <2>3, <2>4
<1>4. ASSUME NEW t \in Tunnels,
             \/ Greet(t) \/ FirstResult(t) \/ SecondResult(t) \/ UnwindPair(t)
      PROVE  ReleasedTunnelsAreClosed'
  <2>1. CASE Greet(t)
    BY <2>1 DEF Greet
  <2>2. CASE FirstResult(t)
    <3>1. /\ pc' = [pc EXCEPT ![t] = "second"] /\ active' = active
          /\ \/ pairClosed' = [pairClosed EXCEPT ![t] = TRUE]
             \/ pairClosed' = pairClosed
      BY <2>2 DEF FirstResult
    <3> QED
      BY <3>1, HandlerMovesAlone
  <2>3. CASE SecondResult(t)
    BY <2>3 DEF SecondResult
  <2>4. CASE UnwindPair(t)
    BY <2>4 DEF UnwindPair
  <2> QED
    BY <1>4, <2>1, <2>2, <2>3, <2>4
<1>5. ASSUME NEW t \in Tunnels, Copying(t) \/ IdleFires(t) \/ ContextCloses(t)
      PROVE  ReleasedTunnelsAreClosed'
  <2>1. CASE UpEnds(t)
    BY <2>1 DEF UpEnds
  <2>2. CASE DownEnds(t)
    BY <2>2 DEF DownEnds
  <2>3. CASE IdleFires(t)
    BY <2>3 DEF IdleFires, Relaying
  <2>4. CASE ContextCloses(t)
    BY <2>4 DEF ContextCloses
  <2> QED
    BY <1>5, <2>1, <2>2, <2>3, <2>4 DEF Copying
<1>6. ASSUME NEW t \in Tunnels, Leave(t) \/ Stall(t) \/ Resume(t)
      PROVE  ReleasedTunnelsAreClosed'
  BY <1>6 DEF Leave, Stall, Resume, Relaying
<1>7. CASE StopServing \/ CloseAll \/ CloseNextPair \/ EndCloseAll
  BY <1>7 DEF StopServing, CloseAll, StartClosing, CloseNextPair, EndCloseAll
<1>8. CASE ShutdownDone \/ ShutdownFails \/ WaitDone \/ WaitExpires \/ Expire
  BY <1>8 DEF ShutdownDone, ShutdownFails, WaitDone, WaitExpires, Expire
<1>9. CASE UNCHANGED vars
  BY <1>9 DEF vars
<1> QED
  BY <1>1, <1>2, <1>3, <1>4, <1>5, <1>6, <1>7, <1>8, <1>9
     DEF Next, Handler, Client, Run

\* closeAll ends when its slice is empty, and then every registered tunnel is
\* closed and no other can register.
LEMMA KeepsNoTunnelEscapesCloseAll == Inv /\ [Next]_vars => NoTunnelEscapesCloseAll'
<1> SUFFICES ASSUME Inv, [Next]_vars PROVE NoTunnelEscapesCloseAll'
  OBVIOUS
<1> USE DEF Inv, TypeOK, RegistryClosesOnce, CloseAllMissesNone,
            NoTunnelEscapesCloseAll,
            Goto, ClosePair, ends, client, tunnelVars, runVars, registryVars,
            shared
<1>1. ASSUME NEW t \in Tunnels, Register(t) PROVE NoTunnelEscapesCloseAll'
  BY <1>1 DEF Register, Untracked, Track
<1>2. ASSUME NEW t \in Tunnels, UnwindRegistration(t) PROVE NoTunnelEscapesCloseAll'
  BY <1>2 DEF UnwindRegistration, Untrack
<1>3. ASSUME NEW t \in Tunnels,
             \/ Start(t) \/ EndSetup(t) \/ Hijack(t) \/ RegisterRefused(t)
      PROVE  NoTunnelEscapesCloseAll'
  BY <1>3 DEF Start, EndSetup, Hijack, RegisterRefused, Untracked, TrackRefused
<1>4. ASSUME NEW t \in Tunnels,
             \/ Greet(t) \/ FirstResult(t) \/ SecondResult(t) \/ UnwindPair(t)
      PROVE  NoTunnelEscapesCloseAll'
  BY <1>4 DEF Greet, FirstResult, SecondResult, UnwindPair
<1>5. ASSUME NEW t \in Tunnels, Copying(t) \/ IdleFires(t) \/ ContextCloses(t)
      PROVE  NoTunnelEscapesCloseAll'
  BY <1>5 DEF Copying, UpEnds, DownEnds, IdleFires, ContextCloses, Relaying
<1>6. ASSUME NEW t \in Tunnels, Leave(t) \/ Stall(t) \/ Resume(t)
      PROVE  NoTunnelEscapesCloseAll'
  BY <1>6 DEF Leave, Stall, Resume, Relaying
<1>7. CASE StopServing \/ CloseAll \/ CloseNextPair \/ EndCloseAll
  BY <1>7 DEF StopServing, CloseAll, StartClosing, CloseNextPair, EndCloseAll
<1>8. CASE ShutdownDone \/ ShutdownFails \/ WaitDone \/ WaitExpires \/ Expire
  BY <1>8 DEF ShutdownDone, ShutdownFails, WaitDone, WaitExpires, Expire
<1>9. CASE UNCHANGED vars
  BY <1>9 DEF vars
<1> QED
  BY <1>1, <1>2, <1>3, <1>4, <1>5, <1>6, <1>7, <1>8, <1>9
     DEF Next, Handler, Client, Run

\* The invariant holds in every reachable state.
LEMMA Invariance == Spec => []Inv
<1>1. Inv /\ [Next]_vars => Inv'
  BY KeepsTypeOK, KeepsWaitCountsTunnels, KeepsRegistryClosesOnce,
     KeepsCloseAllMissesNone, KeepsPairClosesBeforeRelease,
     KeepsReleasedTunnelsAreClosed, KeepsNoTunnelEscapesCloseAll DEF Inv
<1> QED
  BY <1>1, Initially, PTL DEF Spec

-----------------------------------------------------------------------------
(* What closing and waiting promise *)

\* Every reachable state is well typed: in particular wait.Done never takes the
\* WaitGroup below zero, which would panic.
THEOREM TypeCorrect == Spec => []TypeOK
  BY Invariance, PTL DEF Inv

\* The WaitGroup counts exactly the handlers between track and release, so that
\* waitFor waits for them and for nobody else.
THEOREM WaitExact == Spec => []WaitCountsTunnels
  BY Invariance, PTL DEF Inv

\* When release has run, both connections of the tunnel are closed: waitFor is
\* never told of a tunnel that still holds a socket.
THEOREM ReleasedClosed == Spec => []ReleasedTunnelsAreClosed
  BY Invariance, PTL DEF Inv

\* track against closeAll: a tunnel that registers concurrently with closeAll is
\* either refused or closed, for every number of tunnels and every order of the
\* critical sections.
THEOREM NoneEscapes == Spec => []NoTunnelEscapesCloseAll
  BY Invariance, PTL DEF Inv

\* The WaitGroup is not reused while Run waits on it: wait.Add happens only
\* before closeAll.
THEOREM NoAddWhileWaiting == Spec => NoAddDuringWait
<1>1. Inv /\ [Next]_vars =>
          [(main \in {"wait", "returned"}) => (wait' <= wait)]_vars
  <2> SUFFICES ASSUME Inv, [Next]_vars, main \in {"wait", "returned"}
               PROVE  wait' <= wait
    OBVIOUS
  <2> USE DEF registryVars, runVars, shared, tunnelVars
  <2>1. wait \in Nat /\ closing
    BY DEF Inv, TypeOK, RegistryClosesOnce
  <2>2. ASSUME NEW t \in Tunnels, Handler(t) PROVE wait' <= wait
    <3>1. CASE Register(t)
      BY <2>1, <3>1 DEF Register, Track
    <3>2. CASE RegisterRefused(t)
      BY <2>1, <3>2 DEF RegisterRefused, TrackRefused
    <3>3. CASE UnwindRegistration(t)
      BY <2>1, <3>3 DEF UnwindRegistration, Untrack
    <3>4. CASE \/ EndSetup(t) \/ Hijack(t) \/ Greet(t) \/ FirstResult(t)
               \/ SecondResult(t) \/ UnwindPair(t)
      <4>1. UNCHANGED wait
        BY <3>4 DEF EndSetup, Hijack, Greet, FirstResult, SecondResult,
                    UnwindPair
      <4> QED
        BY <2>1, <4>1
    <3> QED
      BY <2>2, <3>1, <3>2, <3>3, <3>4 DEF Handler
  <2>3. ASSUME NEW t \in Tunnels,
               Copying(t) \/ IdleFires(t) \/ ContextCloses(t) \/ Client(t)
        PROVE  wait' = wait
    BY <2>3 DEF Copying, UpEnds, DownEnds, IdleFires, ContextCloses, Client,
                Start, Leave, Stall, Resume
  <2>4. CASE StopServing \/ Run \/ Expire
    <3>1. wait' = wait
      BY <2>4
         DEF StopServing, Run, CloseAll, StartClosing, CloseNextPair,
             EndCloseAll, ShutdownDone, ShutdownFails, WaitDone, WaitExpires,
             Expire
    <3> QED
      BY <2>1, <3>1
  <2>5. CASE UNCHANGED vars
    BY <2>1, <2>5 DEF vars
  <2> QED
    BY <2>1, <2>2, <2>3, <2>4, <2>5 DEF Next
<1> QED
  BY <1>1, Invariance, PTL DEF Spec, NoAddDuringWait
=============================================================================
