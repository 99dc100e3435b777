------------------------- MODULE HTTPExchangeProofs -------------------------
(***************************************************************************)
(* For every body, buffer, idle timeout and header: what passes between    *)
(* client and upstream, and how the setup timer, the watchdog, the copy    *)
(* and the client's departure may interleave in one forwarded request.     *)
(***************************************************************************)
EXTENDS HTTPExchange, TLAPS

-----------------------------------------------------------------------------
(* Headers *)

\* A field survives the removal exactly if it is not a fixed hop-by-hop field
\* nor listed by Connection, nor listed by what Connection leaves of
\* Proxy-Connection; and survivors keep their values.
LEMMA FieldsLeft ==
    ASSUME NEW h
    PROVE  LET kept == RemoveHopHeaders(h)
               rest == DropListed(h, "Connection")
           IN  /\ DOMAIN kept = DOMAIN h \ (HopHeaders
                       \cup Listed(h, "Connection")
                       \cup Listed(rest, "Proxy-Connection"))
               /\ \A f \in DOMAIN kept : kept[f] = h[f]
  BY DEF RemoveHopHeaders, DropListed, Without

\* Connection may hide the list of Proxy-Connection, but does not change it.
LEMMA ProxyConnectionLeft ==
    ASSUME NEW h
    PROVE  Listed(DropListed(h, "Connection"), "Proxy-Connection") =
           IF "Proxy-Connection" \in Listed(h, "Connection") THEN {}
           ELSE Listed(h, "Proxy-Connection")
  BY DEF DropListed, Without, Listed

\* What RemoveHopHeaders leaves has no hop-by-hop field, honours both lists
\* and loses nothing else.
LEMMA RemovalIsExact ==
    ASSUME NEW h
    PROVE  LET kept == RemoveHopHeaders(h)
           IN  NoHopField(h, kept) /\ HonoursBoth(h, kept) /\ KeepsEndToEnd(h, kept)
<1> DEFINE kept == RemoveHopHeaders(h)
           hidden == Listed(DropListed(h, "Connection"), "Proxy-Connection")
<1>1. /\ DOMAIN kept = DOMAIN h \ (HopHeaders \cup Listed(h, "Connection")
                                              \cup hidden)
      /\ \A f \in DOMAIN kept : kept[f] = h[f]
  BY FieldsLeft
<1>2. hidden = IF "Proxy-Connection" \in Listed(h, "Connection") THEN {}
               ELSE Listed(h, "Proxy-Connection")
  BY ProxyConnectionLeft
<1> HIDE DEF kept, hidden
<1>3. NoHopField(h, kept)
  BY <1>1 DEF NoHopField
<1>4. HonoursBoth(h, kept)
  BY <1>1, <1>2 DEF HonoursBoth
<1>5. KeepsEndToEnd(h, kept)
  BY <1>1, <1>2 DEF KeepsEndToEnd
<1> QED
  BY <1>3, <1>4, <1>5 DEF kept

\* The same for a request, which loses X-Forwarded-For as well.
LEMMA RequestRemovalIsExact ==
    ASSUME NEW h
    PROVE  LET s == Without(RemoveHopHeaders(h), {"X-Forwarded-For"})
           IN  /\ NoHopField(h, s)
               /\ HonoursBoth(h, s)
               /\ "X-Forwarded-For" \notin DOMAIN s
               /\ KeepsEndToEnd(Without(h, {"X-Forwarded-For"}), s)
<1> DEFINE kept == RemoveHopHeaders(h)
           s == Without(kept, {"X-Forwarded-For"})
           own == Without(h, {"X-Forwarded-For"})
<1>1. NoHopField(h, kept) /\ HonoursBoth(h, kept) /\ KeepsEndToEnd(h, kept)
  BY RemovalIsExact
<1> HIDE DEF kept
<1>2. /\ DOMAIN s = DOMAIN kept \ {"X-Forwarded-For"}
      /\ \A f \in DOMAIN s : s[f] = kept[f]
  BY DEF Without
<1>3. /\ DOMAIN own = DOMAIN h \ {"X-Forwarded-For"}
      /\ \A f \in DOMAIN own : own[f] = h[f]
  BY DEF Without
<1>4. /\ Listed(own, "Connection") = Listed(h, "Connection")
      /\ Listed(own, "Proxy-Connection") = Listed(h, "Proxy-Connection")
  BY <1>3 DEF Listed
<1> HIDE DEF s, own
<1>5. NoHopField(h, s) /\ HonoursBoth(h, s) /\ "X-Forwarded-For" \notin DOMAIN s
  BY <1>1, <1>2 DEF NoHopField, HonoursBoth
<1>6. KeepsEndToEnd(own, s)
  BY <1>1, <1>2, <1>3, <1>4 DEF KeepsEndToEnd
<1> QED
  BY <1>5, <1>6 DEF s, kept, own

-----------------------------------------------------------------------------
(* The inductive invariant *)

Copying    == {"read", "write", "join", "unwind"}
Responding == Copying \cup {"respond"}

\* Timer and headers decide their race once: the timer cancels only an attempt
\* that it won, and whoever holds a response has won the attempt.
Race ==
    /\ \A a \in Attempts :
           timer[a] = "won" \/ cause[a] = "deadline" => setupState[a] = 2
    /\ pc \in Responding \cup {"refused"} => setupState[attempt] = 1

\* An attempt that is over left nothing behind.
Over(a) == cause[a] # "none" /\ body[a] # "open" /\ timer[a] # "armed"

\* What each attempt still holds, by the place of the handler.
Holding ==
    /\ \A a \in Attempts : a < attempt => Over(a)
    /\ \A a \in Attempts : a > attempt \/ (a = attempt /\ pc = "prepare")
                               => timer[a] = "off" /\ body[a] = "none"
    /\ pc \in {"failed", "again", "done"} => Over(attempt)
    /\ pc = "do" \/ (pc \in {"claim", "settle"} /\ did \in {"error", "timeout"})
           => body[attempt] # "open"
    /\ pc \in Responding \cup {"refused"} => timer[attempt] # "armed"
    /\ pc \notin Copying \ {"unwind"} => watchdog \in {"off", "ended"}

\* The watchdog's timer is never set beyond the rest of the interval.
OnTime == watchdog = "waiting" => left + sinceRead <= IdleTimeout

\* The copy has written what it read, but for the piece in its hands; it ends
\* without a failure only at the end of the body.
InStep ==
    /\ pc \notin Copying \ {"read"} /\ pc # "done" => delivered = copied
    /\ pc = "write" => delivered + 1 = copied
    /\ pc \notin {"join", "unwind", "done"} => failure = "none"
    /\ pc \in {"join", "unwind"} /\ failure = "none" =>
           upstream = "eof" /\ copied = arrived /\ delivered = copied
    /\ reply = "complete" => pc = "done" /\ upstream = "eof" /\ delivered = arrived

\* The headers sent on are those received without their hop-by-hop fields, and
\* nothing is answered before its time.
Forwarded ==
    /\ pc # "prepare" => sent = Without(RemoveHopHeaders(header), {"X-Forwarded-For"})
    /\ reply \in {"relayed", "complete", "aborted"} =>
           relayed = RemoveHopHeaders(received)
    /\ reply = "relayed" <=> pc \in Copying
    /\ reply \notin {"none", "relayed"} => pc = "done"

\* Somebody will wake each waiting handler: until the race is decided the setup
\* timer is on its way to cancel, and only Cut ends the watchdog of a copy.
Watched ==
    /\ \A a \in Attempts : a > attempt \/ (a = attempt /\ pc = "prepare")
                               => setupState[a] = 0
    /\ pc \in {"do", "claim"} =>
         \/ setupState[attempt] = 0 /\ timer[attempt] \in {"armed", "running"}
         \/ setupState[attempt] = 2 /\ timer[attempt] = "won"
         \/ /\ setupState[attempt] = 2 /\ timer[attempt] = "ended"
            /\ cause[attempt] # "none"
    /\ pc \in {"claim", "settle"} => did # "none"
    /\ pc = "settle" => setupState[attempt] # 0
    /\ pc \in {"read", "write"} =>
         \/ watchdog \in {"waiting", "cutting"}
         \/ watchdog = "ended" /\ cause[attempt] # "none"
    /\ pc = "join" => watchdog # "off"

Inv == TypeOK /\ Race /\ Holding /\ OnTime /\ InStep /\ Forwarded /\ Watched

\* Types, bounds and the watchdog's deadline follow from OnTime and InStep.
LEMMA KeepsTypeOK == Inv /\ [Next]_vars => TypeOK'
<1> SUFFICES ASSUME Inv, [Next]_vars PROVE TypeOK'
  OBVIOUS
<1> USE HTTPExchangeAssumption DEF Inv, TypeOK, OnTime, InStep, Responding,
      Copying, Attempts, request, setup, headers, transfer, watching, times
<1>1. CASE Prepare \/ Interrupted \/ Claim
  BY <1>1 DEF Prepare, Interrupted, Claim, Set
<1>2. CASE SettleTimedOut \/ SettleFailed \/ SettleAnswered
  BY <1>2 DEF SettleTimedOut, SettleFailed, SettleAnswered, Set, Cancelled,
     StoppedTimer, ClosedBody
<1>3. CASE Refuse \/ CheckContext \/ Retry \/ GiveUp \/ Respond
  BY <1>3 DEF Refuse, CheckContext, Retry, GiveUp, Respond, Set, Cancelled,
     ClosedBody
<1>4. CASE Read \/ ReadEnds \/ ReadCancelled \/ Write \/ WriteFails
  BY <1>4 DEF Read, ReadEnds, ReadCancelled, Write, WriteFails
<1>5. CASE Join \/ Unwind
  BY <1>5 DEF Join, Unwind, Set, Cancelled, ClosedBody, Aborts
<1>6. CASE Answered \/ Refused
  BY <1>6 DEF Answered, Refused, Set
<1>7. CASE PieceArrives \/ BodyEnds
  BY <1>7 DEF PieceArrives, BodyEnds, Open
<1>8. CASE Leave
  BY <1>8 DEF Leave, Cancelled, Set
<1>9. CASE Stall
  BY <1>9 DEF Stall
<1>10. ASSUME NEW a \in Attempts, Timer(a) PROVE TypeOK'
  BY <1>10 DEF Timer, TimerFires, TimerClaims, TimerCancels
<1>11. CASE Watchdog
  BY <1>11 DEF Watchdog, Watch, Cut, WatchdogStops, Cancelled, Set
<1>12. CASE Tick
  BY <1>12 DEF Tick, Blocked
<1>13. CASE UNCHANGED vars
  BY <1>13 DEF vars
<1> QED
  BY <1>1, <1>2, <1>3, <1>4, <1>5, <1>6, <1>7, <1>8, <1>9, <1>10, <1>11, <1>12,
     <1>13 DEF Next, Handler, Environment

\* CompareAndSwap lets one of timer and headers win; the other leaves the
\* attempt alone.
LEMMA KeepsRace == Inv /\ [Next]_vars => Race'
<1> SUFFICES ASSUME Inv, [Next]_vars PROVE Race'
  OBVIOUS
<1> USE HTTPExchangeAssumption DEF Inv, TypeOK, Race, Responding, Copying,
      Attempts, request, setup, headers, transfer, watching, times
<1>1. CASE Prepare \/ Interrupted \/ Claim
  BY <1>1 DEF Prepare, Interrupted, Claim, Set
<1>2. CASE SettleTimedOut \/ SettleFailed \/ SettleAnswered
  BY <1>2 DEF SettleTimedOut, SettleFailed, SettleAnswered, Set, Cancelled,
     StoppedTimer, ClosedBody
<1>3. CASE Refuse \/ CheckContext \/ Retry \/ GiveUp \/ Respond
  BY <1>3 DEF Refuse, CheckContext, Retry, GiveUp, Respond, Set, Cancelled,
     ClosedBody
<1>4. CASE Read \/ ReadEnds \/ ReadCancelled \/ Write \/ WriteFails
  BY <1>4 DEF Read, ReadEnds, ReadCancelled, Write, WriteFails
<1>5. CASE Join \/ Unwind
  BY <1>5 DEF Join, Unwind, Set, Cancelled, ClosedBody, Aborts
<1>6. CASE Answered \/ Refused
  BY <1>6 DEF Answered, Refused, Set
<1>7. CASE PieceArrives \/ BodyEnds
  BY <1>7 DEF PieceArrives, BodyEnds, Open
<1>8. CASE Leave
  BY <1>8 DEF Leave, Cancelled, Set
<1>9. CASE Stall
  BY <1>9 DEF Stall
<1>10. ASSUME NEW a \in Attempts, Timer(a) PROVE Race'
  BY <1>10 DEF Timer, TimerFires, TimerClaims, TimerCancels
<1>11. CASE Watchdog
  BY <1>11 DEF Watchdog, Watch, Cut, WatchdogStops, Cancelled, Set
<1>12. CASE Tick
  BY <1>12 DEF Tick, Blocked
<1>13. CASE UNCHANGED vars
  BY <1>13 DEF vars
<1> QED
  BY <1>1, <1>2, <1>3, <1>4, <1>5, <1>6, <1>7, <1>8, <1>9, <1>10, <1>11, <1>12,
     <1>13 DEF Next, Handler, Environment

\* Every way out of an attempt cancels its context, closes its body and stops
\* its timer before the next attempt or the end of the handler.
LEMMA KeepsHolding == Inv /\ [Next]_vars => Holding'
<1> SUFFICES ASSUME Inv, [Next]_vars PROVE Holding'
  OBVIOUS
<1> USE HTTPExchangeAssumption DEF Inv, TypeOK, Holding, Over, Responding,
      Copying, Attempts, request, setup, headers, transfer, watching, times
<1>1. CASE Prepare \/ Interrupted \/ Claim
  BY <1>1 DEF Prepare, Interrupted, Claim, Set
<1>2. CASE SettleTimedOut \/ SettleFailed \/ SettleAnswered
  BY <1>2 DEF SettleTimedOut, SettleFailed, SettleAnswered, Set, Cancelled,
     StoppedTimer, ClosedBody
<1>3. CASE Refuse \/ CheckContext \/ Retry \/ GiveUp \/ Respond
  BY <1>3 DEF Refuse, CheckContext, Retry, GiveUp, Respond, Set, Cancelled,
     ClosedBody
<1>4. CASE Read \/ ReadEnds \/ ReadCancelled \/ Write \/ WriteFails
  BY <1>4 DEF Read, ReadEnds, ReadCancelled, Write, WriteFails
<1>5. CASE Join \/ Unwind
  BY <1>5 DEF Join, Unwind, Set, Cancelled, ClosedBody, Aborts
<1>6. CASE Answered \/ Refused
  BY <1>6 DEF Answered, Refused, Set
<1>7. CASE PieceArrives \/ BodyEnds
  BY <1>7 DEF PieceArrives, BodyEnds, Open
<1>8. CASE Leave
  BY <1>8 DEF Leave, Cancelled, Set
<1>9. CASE Stall
  BY <1>9 DEF Stall
<1>10. ASSUME NEW a \in Attempts, Timer(a) PROVE Holding'
  BY <1>10 DEF Timer, TimerFires, TimerClaims, TimerCancels
<1>11. CASE Watchdog
  BY <1>11 DEF Watchdog, Watch, Cut, WatchdogStops, Cancelled, Set
<1>12. CASE Tick
  BY <1>12 DEF Tick, Blocked
<1>13. CASE UNCHANGED vars
  BY <1>13 DEF vars
<1> QED
  BY <1>1, <1>2, <1>3, <1>4, <1>5, <1>6, <1>7, <1>8, <1>9, <1>10, <1>11, <1>12,
     <1>13 DEF Next, Handler, Environment

\* Each tick takes from what is left what it adds to the time since the read.
LEMMA KeepsOnTime == Inv /\ [Next]_vars => OnTime'
<1> SUFFICES ASSUME Inv, [Next]_vars PROVE OnTime'
  OBVIOUS
<1> USE HTTPExchangeAssumption DEF Inv, TypeOK, OnTime, Responding, Copying,
      Attempts, request, setup, headers, transfer, watching, times
<1>1. CASE Prepare \/ Interrupted \/ Claim
  BY <1>1 DEF Prepare, Interrupted, Claim, Set
<1>2. CASE SettleTimedOut \/ SettleFailed \/ SettleAnswered
  BY <1>2 DEF SettleTimedOut, SettleFailed, SettleAnswered, Set, Cancelled,
     StoppedTimer, ClosedBody
<1>3. CASE Refuse \/ CheckContext \/ Retry \/ GiveUp \/ Respond
  BY <1>3 DEF Refuse, CheckContext, Retry, GiveUp, Respond, Set, Cancelled,
     ClosedBody
<1>4. CASE Read \/ ReadEnds \/ ReadCancelled \/ Write \/ WriteFails
  BY <1>4 DEF Read, ReadEnds, ReadCancelled, Write, WriteFails
<1>5. CASE Join \/ Unwind
  BY <1>5 DEF Join, Unwind, Set, Cancelled, ClosedBody, Aborts
<1>6. CASE Answered \/ Refused
  BY <1>6 DEF Answered, Refused, Set
<1>7. CASE PieceArrives \/ BodyEnds
  BY <1>7 DEF PieceArrives, BodyEnds, Open
<1>8. CASE Leave
  BY <1>8 DEF Leave, Cancelled, Set
<1>9. CASE Stall
  BY <1>9 DEF Stall
<1>10. ASSUME NEW a \in Attempts, Timer(a) PROVE OnTime'
  BY <1>10 DEF Timer, TimerFires, TimerClaims, TimerCancels
<1>11. CASE Watchdog
  BY <1>11 DEF Watchdog, Watch, Cut, WatchdogStops, Cancelled, Set
<1>12. CASE Tick
  BY <1>12 DEF Tick, Blocked
<1>13. CASE UNCHANGED vars
  BY <1>13 DEF vars
<1> QED
  BY <1>1, <1>2, <1>3, <1>4, <1>5, <1>6, <1>7, <1>8, <1>9, <1>10, <1>11, <1>12,
     <1>13 DEF Next, Handler, Environment

\* Only the end of the upstream's body ends the copy without a failure.
LEMMA KeepsInStep == Inv /\ [Next]_vars => InStep'
<1> SUFFICES ASSUME Inv, [Next]_vars PROVE InStep'
  OBVIOUS
<1> USE HTTPExchangeAssumption DEF Inv, TypeOK, InStep, Responding, Copying,
      Attempts, request, setup, headers, transfer, watching, times
<1>1. CASE Prepare \/ Interrupted \/ Claim
  BY <1>1 DEF Prepare, Interrupted, Claim, Set
<1>2. CASE SettleTimedOut \/ SettleFailed \/ SettleAnswered
  BY <1>2 DEF SettleTimedOut, SettleFailed, SettleAnswered, Set, Cancelled,
     StoppedTimer, ClosedBody
<1>3. CASE Refuse \/ CheckContext \/ Retry \/ GiveUp \/ Respond
  BY <1>3 DEF Refuse, CheckContext, Retry, GiveUp, Respond, Set, Cancelled,
     ClosedBody
<1>4. CASE Read \/ ReadEnds \/ ReadCancelled \/ Write \/ WriteFails
  BY <1>4 DEF Read, ReadEnds, ReadCancelled, Write, WriteFails
<1>5. CASE Join \/ Unwind
  BY <1>5 DEF Join, Unwind, Set, Cancelled, ClosedBody, Aborts
<1>6. CASE Answered \/ Refused
  BY <1>6 DEF Answered, Refused, Set
<1>7. CASE PieceArrives \/ BodyEnds
  BY <1>7 DEF PieceArrives, BodyEnds, Open
<1>8. CASE Leave
  BY <1>8 DEF Leave, Cancelled, Set
<1>9. CASE Stall
  BY <1>9 DEF Stall
<1>10. ASSUME NEW a \in Attempts, Timer(a) PROVE InStep'
  BY <1>10 DEF Timer, TimerFires, TimerClaims, TimerCancels
<1>11. CASE Watchdog
  BY <1>11 DEF Watchdog, Watch, Cut, WatchdogStops, Cancelled, Set
<1>12. CASE Tick
  BY <1>12 DEF Tick, Blocked
<1>13. CASE UNCHANGED vars
  BY <1>13 DEF vars
<1> QED
  BY <1>1, <1>2, <1>3, <1>4, <1>5, <1>6, <1>7, <1>8, <1>9, <1>10, <1>11, <1>12,
     <1>13 DEF Next, Handler, Environment

\* Headers are filtered once, when they are sent on.
LEMMA KeepsForwarded == Inv /\ [Next]_vars => Forwarded'
<1> SUFFICES ASSUME Inv, [Next]_vars PROVE Forwarded'
  OBVIOUS
<1> USE HTTPExchangeAssumption DEF Inv, TypeOK, Forwarded, Responding, Copying,
      Attempts, request, setup, headers, transfer, watching, times
<1>1. CASE Prepare \/ Interrupted \/ Claim
  BY <1>1 DEF Prepare, Interrupted, Claim, Set
<1>2. CASE SettleTimedOut \/ SettleFailed \/ SettleAnswered
  BY <1>2 DEF SettleTimedOut, SettleFailed, SettleAnswered, Set, Cancelled,
     StoppedTimer, ClosedBody
<1>3. CASE Refuse \/ CheckContext \/ Retry \/ GiveUp \/ Respond
  BY <1>3 DEF Refuse, CheckContext, Retry, GiveUp, Respond, Set, Cancelled,
     ClosedBody
<1>4. CASE Read \/ ReadEnds \/ ReadCancelled \/ Write \/ WriteFails
  BY <1>4 DEF Read, ReadEnds, ReadCancelled, Write, WriteFails
<1>5. CASE Join \/ Unwind
  BY <1>5 DEF Join, Unwind, Set, Cancelled, ClosedBody, Aborts
<1>6. CASE Answered \/ Refused
  BY <1>6 DEF Answered, Refused, Set
<1>7. CASE PieceArrives \/ BodyEnds
  BY <1>7 DEF PieceArrives, BodyEnds, Open
<1>8. CASE Leave
  BY <1>8 DEF Leave, Cancelled, Set
<1>9. CASE Stall
  BY <1>9 DEF Stall
<1>10. ASSUME NEW a \in Attempts, Timer(a) PROVE Forwarded'
  BY <1>10 DEF Timer, TimerFires, TimerClaims, TimerCancels
<1>11. CASE Watchdog
  BY <1>11 DEF Watchdog, Watch, Cut, WatchdogStops, Cancelled, Set
<1>12. CASE Tick
  BY <1>12 DEF Tick, Blocked
<1>13. CASE UNCHANGED vars
  BY <1>13 DEF vars
<1> QED
  BY <1>1, <1>2, <1>3, <1>4, <1>5, <1>6, <1>7, <1>8, <1>9, <1>10, <1>11, <1>12,
     <1>13 DEF Next, Handler, Environment

\* Claim is the only way out of the setup that no timer decides, and a watchdog
\* that ends before the copy does has cancelled the attempt.
LEMMA KeepsWatched == Inv /\ [Next]_vars => Watched'
<1> SUFFICES ASSUME Inv, [Next]_vars PROVE Watched'
  OBVIOUS
<1> USE HTTPExchangeAssumption DEF Inv, TypeOK, Holding, Watched, Responding, Copying,
      Attempts, request, setup, headers, transfer, watching, times
<1>1. CASE Prepare \/ Interrupted \/ Claim
  BY <1>1 DEF Prepare, Interrupted, Claim, Set
<1>2. CASE SettleTimedOut \/ SettleFailed \/ SettleAnswered
  BY <1>2 DEF SettleTimedOut, SettleFailed, SettleAnswered, Set, Cancelled,
     StoppedTimer, ClosedBody
<1>3. CASE Refuse \/ CheckContext \/ Retry \/ GiveUp \/ Respond
  BY <1>3 DEF Refuse, CheckContext, Retry, GiveUp, Respond, Set, Cancelled,
     ClosedBody
<1>4. CASE Read \/ ReadEnds \/ ReadCancelled \/ Write \/ WriteFails
  BY <1>4 DEF Read, ReadEnds, ReadCancelled, Write, WriteFails
<1>5. CASE Join \/ Unwind
  BY <1>5 DEF Join, Unwind, Set, Cancelled, ClosedBody, Aborts
<1>6. CASE Answered \/ Refused
  BY <1>6 DEF Answered, Refused, Set
<1>7. CASE PieceArrives \/ BodyEnds
  BY <1>7 DEF PieceArrives, BodyEnds, Open
<1>8. CASE Leave
  BY <1>8 DEF Leave, Cancelled, Set
<1>9. CASE Stall
  BY <1>9 DEF Stall
<1>10. ASSUME NEW a \in Attempts, Timer(a) PROVE Watched'
  BY <1>10 DEF Timer, TimerFires, TimerClaims, TimerCancels
<1>11. CASE Watchdog
  BY <1>11 DEF Watchdog, Watch, Cut, WatchdogStops, Cancelled, Set
<1>12. CASE Tick
  BY <1>12 DEF Tick, Blocked
<1>13. CASE UNCHANGED vars
  BY <1>13 DEF vars
<1> QED
  BY <1>1, <1>2, <1>3, <1>4, <1>5, <1>6, <1>7, <1>8, <1>9, <1>10, <1>11, <1>12,
     <1>13 DEF Next, Handler, Environment

LEMMA Initially == Init => Inv
<1> SUFFICES ASSUME Init PROVE Inv
  OBVIOUS
<1> USE HTTPExchangeAssumption DEF Init, Attempts, Responding, Copying
<1>1. TypeOK
  <2>1. /\ setupState \in [Attempts -> 0 .. 2]
        /\ timer \in [Attempts -> {"off", "armed", "running", "won", "stopped",
                                   "ended"}]
        /\ cause \in [Attempts -> {"none", "client", "deadline", "idle",
                                   "released"}]
        /\ body \in [Attempts -> {"none", "open", "closed"}]
    OBVIOUS
  <2>2. copied \in 0 .. arrived /\ delivered \in 0 .. copied
    OBVIOUS
  <2>3. arrived \in copied .. copied + Buffer
    OBVIOUS
  <2>4. left \in 0 .. IdleTimeout /\ sinceRead \in 0 .. IdleTimeout
        /\ sinceArrival \in 0 .. IdleTimeout
    OBVIOUS
  <2> QED
    BY <2>1, <2>2, <2>3, <2>4 DEF TypeOK
<1>2. Race /\ Holding
  BY DEF Race, Holding, Over
<1>3. OnTime /\ InStep /\ Forwarded
  BY DEF OnTime, InStep, Forwarded
<1>4. Watched
  BY DEF Watched
<1> QED
  BY <1>1, <1>2, <1>3, <1>4 DEF Inv

LEMMA Invariance == Spec => []Inv
<1>1. Inv /\ [Next]_vars => Inv'
  BY KeepsTypeOK, KeepsRace, KeepsHolding, KeepsOnTime, KeepsInStep,
     KeepsForwarded, KeepsWatched DEF Inv
<1> QED
  BY <1>1, Initially, PTL DEF Spec

-----------------------------------------------------------------------------
(* What follows *)

\* copyHTTPResponse's watchdog leaves no response idle beyond the timeout, and
\* every variable has its type.
THEOREM TypeCorrect == Spec => []TypeOK
  BY Invariance, PTL DEF Inv

\* The setup timer of doHTTPRequest never cancels a response that the handler
\* holds.
THEOREM BodySpared == Spec => []SetupTimerSparesBody
<1>1. Inv => SetupTimerSparesBody
  <2> SUFFICES ASSUME Inv, pc \in Responding PROVE cause[attempt] # "deadline"
    BY DEF SetupTimerSparesBody, Responding, Copying
  <2>1. setupState[attempt] = 1 /\ attempt \in Attempts
    BY DEF Inv, Race, TypeOK
  <2> QED
    BY <2>1 DEF Inv, Race
<1> QED
  BY <1>1, Invariance, PTL

\* forwardRequest leaves no context, body, timer or watchdog behind, whichever
\* of its returns it takes.
THEOREM LeaksNothing == Spec => []NothingLeaks
<1>1. Inv => NothingLeaks
  <2> SUFFICES ASSUME Inv, pc = "done"
               PROVE  /\ \A a \in Attempts : timer[a] # "off" => cause[a] # "none"
                      /\ \A a \in Attempts : body[a] # "open" /\ timer[a] # "armed"
                      /\ watchdog \in {"off", "ended"}
    BY DEF NothingLeaks
  <2>1. watchdog \in {"off", "ended"}
    BY DEF Inv, Holding, Copying
  <2>2. ASSUME NEW a \in Attempts
        PROVE  /\ timer[a] # "off" => cause[a] # "none"
               /\ body[a] # "open" /\ timer[a] # "armed"
    <3>1. CASE a > attempt
      BY <3>1 DEF Inv, Holding
    <3>2. CASE a <= attempt
      <4>1. a < attempt \/ a = attempt
        BY <3>2 DEF Inv, TypeOK, Attempts
      <4>2. Over(a)
        BY <4>1 DEF Inv, Holding
      <4> QED
        BY <4>2 DEF Over
    <3> QED
      BY <3>1, <3>2 DEF Inv, TypeOK, Attempts
  <2> QED
    BY <2>1, <2>2
<1> QED
  BY <1>1, Invariance, PTL

\* Nobody waits without a limit: while Client.Do has not returned the setup timer
\* is about to cancel the attempt or the context has ended; doHTTPRequest always
\* finds its race decided; a copy that waits for the upstream or the client has
\* its watchdog, or its context has ended; and <-stopped waits for a watchdog
\* that was started.
WaitsAreWatched ==
    /\ pc = "do" => \/ cause[attempt] # "none"
                    \/ timer[attempt] \in {"armed", "running", "won"}
    /\ pc = "settle" => setupState[attempt] \in {1, 2} /\ did # "none"
    /\ pc \in {"read", "write"} => \/ cause[attempt] # "none"
                                   \/ watchdog \in {"waiting", "cutting"}
    /\ pc = "join" => watchdog # "off"

\* The safety half of WaitsOnlyForTheClient: whoever an upstream keeps waiting
\* is watched by the setup timer or by copyHTTPResponse's watchdog.
THEOREM NobodyForgotten == Spec => []WaitsAreWatched
<1>1. Inv => WaitsAreWatched
  <2> SUFFICES ASSUME Inv PROVE WaitsAreWatched
    OBVIOUS
  <2>1. attempt \in Attempts /\ setupState[attempt] \in 0 .. 2
    BY DEF Inv, TypeOK
  <2> QED
    BY <2>1 DEF Inv, Watched, WaitsAreWatched
<1> QED
  BY <1>1, Invariance, PTL

\* A response that ends normally is whole (http.go:83).
THEOREM TruncationShows == Spec => []TruncationIsVisible
<1>1. Inv => TruncationIsVisible
  BY DEF Inv, InStep, TruncationIsVisible
<1> QED
  BY <1>1, Invariance, PTL

\* Whatever headers client and upstream send, with whatever lists, only
\* end-to-end fields pass, and all of those that removeHopHeaders must keep.
THEOREM HeadersFiltered == Spec => []OnlyEndToEndFieldsPass
<1>1. Inv => OnlyEndToEndFieldsPass
  <2> SUFFICES ASSUME Inv PROVE OnlyEndToEndFieldsPass
    OBVIOUS
  <2>1. ASSUME pc # "prepare"
        PROVE  /\ NoHopField(header, sent)
               /\ HonoursBoth(header, sent)
               /\ "X-Forwarded-For" \notin DOMAIN sent
               /\ KeepsEndToEnd(Without(header, {"X-Forwarded-For"}), sent)
    BY <2>1, RequestRemovalIsExact DEF Inv, Forwarded
  <2>2. ASSUME reply \in {"relayed", "complete", "aborted"}
        PROVE  /\ NoHopField(received, relayed)
               /\ HonoursBoth(received, relayed)
               /\ KeepsEndToEnd(received, relayed)
    BY <2>2, RemovalIsExact DEF Inv, Forwarded
  <2> QED
    BY <2>1, <2>2 DEF OnlyEndToEndFieldsPass
<1> QED
  BY <1>1, Invariance, PTL
=============================================================================
