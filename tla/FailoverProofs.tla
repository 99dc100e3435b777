--------------------------- MODULE FailoverProofs ---------------------------
(***************************************************************************)
(* What the request handlers promise holds for every number of concurrent  *)
(* requests, of upstreams and of client hosts, for either algorithm and    *)
(* for every request a client can send.                                    *)
(***************************************************************************)
EXTENDS Failover, FiniteSetTheorems, TLAPS

-----------------------------------------------------------------------------
(* The inductive invariant *)

\* The types of the variables other than the tunnel counters.
HandlerTypeOK ==
    /\ BalancerTypeOK
    /\ pc \in [Requests -> Locations]
    /\ req \in [Requests -> Traffic]
    /\ gone \in [Requests -> BOOLEAN]
    /\ selected \in [Requests -> Upstreams \cup {NoExclude}]
    /\ attempt \in [Requests -> {0, 1}]
    /\ outcome \in [Requests -> Outcomes]
    /\ reply \in [Requests -> Replies]
    /\ tried \in [Requests -> Seq(Upstreams)]

\* Inside the loop, and before it in handleConnect, there is a selection.
SelectionIsUpstream ==
    \A r \in Requests :
        /\ pc[r] = "serve" => selected[r] = NoExclude
        /\ pc[r] \in {"admit", "attempt", "failed", "mark", "again", "succeeded"}
               => selected[r] \in Upstreams

\* The loop variable counts the attempts, the last one is the selection, and a
\* second round is an alternate for a request that may be retried.
AttemptsAreCounted ==
    \A r \in Requests :
        /\ pc[r] \in {"serve", "admit"} => attempt[r] = 0 /\ tried[r] = <<>>
        /\ pc[r] = "attempt" => Len(tried[r]) = attempt[r]
        /\ pc[r] = "attempt" /\ attempt[r] = 1 =>
               tried[r][1] # selected[r] /\ CanRetry(r)
        /\ pc[r] \in {"failed", "mark", "again", "succeeded"} =>
               /\ Len(tried[r]) = attempt[r] + 1
               /\ tried[r][Len(tried[r])] = selected[r]

\* Where a handler is after an attempt tells how the attempt ended; "cancelled"
\* is an outcome only for a client that has left.
OutcomeLeadsHere ==
    \A r \in Requests :
        /\ pc[r] \in {"serve", "admit"} => outcome[r] = "none"
        /\ pc[r] = "failed" =>
               outcome[r] \in {"error", "timeout", "unsupported", "uncontacted",
                               "cancelled"}
        /\ pc[r] = "mark" =>
               outcome[r] \in {"407", "error", "timeout", "uncontacted"}
        /\ pc[r] = "again" =>
               outcome[r] \in {"407", "error", "timeout", "uncontacted",
                               "unsupported"}
        /\ pc[r] \in {"succeeded", "stream"} => outcome[r] = "ok"
        /\ outcome[r] = "cancelled" => gone[r]

\* A handler answers once, when it leaves the loop or before it enters it.
AnswersComeLast ==
    \A r \in Requests :
        /\ pc[r] \in {"serve", "admit", "attempt", "failed", "mark", "again",
                      "succeeded"} => reply[r] = "none"
        /\ pc[r] = "stream" => reply[r] = "relayed"
        /\ pc[r] = "release" => reply[r] # "429"

\* Only handleConnect acquires and releases tunnel slots.
OnlyConnectTunnels ==
    \A r \in Requests : pc[r] \in {"admit", "release"} => IsConnect(r)

Inv ==
    /\ HandlerTypeOK
    /\ SelectionIsUpstream
    /\ AttemptsAreCounted
    /\ BoundedFailover
    /\ OutcomeLeadsHere
    /\ AnswersComeLast
    /\ RepliesAreTruthful
    /\ OnlyConnectTunnels

\* The methods of the balancer keep its types, whoever calls them.
LEMMA SelectTypes ==
    ASSUME BalancerTypeOK, NEW exclude, NEW i \in Upstreams, Select(exclude, i)
    PROVE  BalancerTypeOK'
<1>1. Successor(i) \in Upstreams
  BY BalancerAssumption DEF Successor, Upstreams
<1> QED
  BY <1>1 DEF BalancerTypeOK, Select

LEMMA MarkTypes ==
    ASSUME BalancerTypeOK, NEW i, MarkFailure(i) \/ MarkSuccess(i)
    PROVE  BalancerTypeOK'
<1>1. 0 \in 0 .. Cooldown /\ Cooldown \in 0 .. Cooldown
  BY BalancerAssumption
<1> QED
  BY <1>1 DEF BalancerTypeOK, MarkFailure, MarkSuccess

LEMMA TickTypes == BalancerTypeOK /\ Tick => BalancerTypeOK'
<1> SUFFICES ASSUME BalancerTypeOK, Tick, NEW i \in Upstreams
             PROVE  (IF unhealthyFor[i] > 0 THEN unhealthyFor[i] - 1 ELSE 0)
                        \in 0 .. Cooldown
  BY DEF BalancerTypeOK, Tick
<1> QED
  BY BalancerAssumption DEF BalancerTypeOK

LEMMA SameBalancer ==
    BalancerTypeOK /\ UNCHANGED balancerVars => BalancerTypeOK'
  BY DEF BalancerTypeOK, balancerVars

\* Every step keeps the types.
LEMMA KeepsHandlerTypeOK == Inv /\ [Next]_vars => HandlerTypeOK'
<1> SUFFICES ASSUME Inv, [Next]_vars PROVE HandlerTypeOK'
  OBVIOUS
<1> USE DEF Inv, HandlerTypeOK, Locations, Outcomes, Replies, SelectionIsUpstream,
            Goto, Answer, Finish, IsConnect, course, requestVars, tunnelVars,
            shared
<1>1. ASSUME NEW r \in Requests,
             \/ Unauthorized(r) \/ NoUpstream(r)
             \/ AcquireTunnel(r) \/ RefuseTunnel(r)
      PROVE  HandlerTypeOK'
  <2>1. CASE Unauthorized(r)
    BY <2>1, SameBalancer DEF Unauthorized
  <2>2. CASE NoUpstream(r)
    BY <2>2, SameBalancer DEF NoUpstream, SelectNone
  <2>3. CASE AcquireTunnel(r)
    BY <2>3, SameBalancer DEF AcquireTunnel
  <2>4. CASE RefuseTunnel(r)
    BY <2>4, SameBalancer DEF RefuseTunnel
  <2> QED
    BY <1>1, <2>1, <2>2, <2>3, <2>4
<1>2. ASSUME NEW r \in Requests, SelectFirst(r) PROVE HandlerTypeOK'
  <2>1. PICK i \in Upstreams : Select(NoExclude, i) /\
                              selected' = [selected EXCEPT ![r] = i]
    BY <1>2 DEF SelectFirst
  <2>2. BalancerTypeOK'
    BY <2>1, SelectTypes
  <2> QED
    BY <1>2, <2>1, <2>2 DEF SelectFirst, Invalid
<1>3. ASSUME NEW r \in Requests, Attempt(r) PROVE HandlerTypeOK'
  <2>1. tried' = [tried EXCEPT ![r] = Append(@, selected[r])]
    BY <1>3 DEF Attempt
  <2>2. selected[r] \in Upstreams
    BY <1>3 DEF Attempt
  <2>3. Append(tried[r], selected[r]) \in Seq(Upstreams)
    BY <2>2
  <2>4. tried' \in [Requests -> Seq(Upstreams)]
    BY <2>1, <2>3
  <2>5. PICK o \in Possible(r) : /\ outcome' = [outcome EXCEPT ![r] = o]
                                /\ pc' = [pc EXCEPT ![r] = AfterAttempt(r, o)]
    BY <1>3 DEF Attempt
  <2>6. o \in Outcomes
    BY DEF Possible, Rejection, ConnectOutcomes, HTTPOutcomes
  <2>7. AfterAttempt(r, o) \in Locations
    BY DEF AfterAttempt
  <2>8. BalancerTypeOK'
    BY <1>3, SameBalancer DEF Attempt
  <2> QED
    BY <1>3, <2>4, <2>5, <2>6, <2>7, <2>8 DEF Attempt
<1>4. ASSUME NEW r \in Requests,
             CheckContext(r) \/ GiveUp(r)
      PROVE  HandlerTypeOK'
  BY <1>4, SameBalancer DEF CheckContext, GiveUp, SelectNone
<1>5. ASSUME NEW r \in Requests,
             ReportFailure(r) \/ ReportSuccess(r)
      PROVE  HandlerTypeOK'
  <2>1. BalancerTypeOK'
    BY <1>5, MarkTypes DEF ReportFailure, ReportSuccess
  <2> QED
    BY <1>5, <2>1 DEF ReportFailure, ReportSuccess
<1>6. ASSUME NEW r \in Requests, Retry(r) PROVE HandlerTypeOK'
  <2>1. PICK i \in Upstreams : Select(selected[r], i) /\
                              selected' = [selected EXCEPT ![r] = i]
    BY <1>6 DEF Retry
  <2>2. BalancerTypeOK'
    BY <2>1, SelectTypes
  <2>3. attempt[r] = 0
    BY <1>6 DEF Retry, MayRetry
  <2> QED
    BY <1>6, <2>1, <2>2, <2>3 DEF Retry
<1>7. ASSUME NEW r \in Requests,
             EndStream(r) \/ ReleaseTunnel(r) \/ Leave(r)
      PROVE  HandlerTypeOK'
  BY <1>7, SameBalancer DEF EndStream, ReleaseTunnel, Leave
<1>8. CASE Elapse \/ UNCHANGED vars
  BY <1>8, TickTypes, SameBalancer DEF Elapse, vars
<1> QED
  BY <1>1, <1>2, <1>3, <1>4, <1>5, <1>6, <1>7, <1>8 DEF Next, Handle

\* A handler goes on with an upstream that Next returned.
LEMMA KeepsSelectionIsUpstream == Inv /\ [Next]_vars => SelectionIsUpstream'
<1> SUFFICES ASSUME Inv, [Next]_vars PROVE SelectionIsUpstream'
  OBVIOUS
<1> USE DEF Inv, HandlerTypeOK, SelectionIsUpstream,
            Goto, Answer, Finish, IsConnect, course, requestVars, tunnelVars,
            shared, balancerVars
<1>1. ASSUME NEW r \in Requests,
             \/ Unauthorized(r) \/ NoUpstream(r)
             \/ AcquireTunnel(r) \/ RefuseTunnel(r)
      PROVE  SelectionIsUpstream'
  BY <1>1 DEF Unauthorized, NoUpstream, AcquireTunnel, RefuseTunnel,
              SelectNone
<1>2. ASSUME NEW r \in Requests, SelectFirst(r) PROVE SelectionIsUpstream'
  BY <1>2 DEF SelectFirst, Select, Picks, Available, Invalid
<1>3. ASSUME NEW r \in Requests, Attempt(r) PROVE SelectionIsUpstream'
  BY <1>3 DEF Attempt, Possible, Rejection, ConnectOutcomes, HTTPOutcomes,
              AfterAttempt
<1>4. ASSUME NEW r \in Requests,
             CheckContext(r) \/ GiveUp(r)
      PROVE  SelectionIsUpstream'
  BY <1>4 DEF CheckContext, GiveUp, SelectNone
<1>5. ASSUME NEW r \in Requests,
             ReportFailure(r) \/ ReportSuccess(r)
      PROVE  SelectionIsUpstream'
  BY <1>5 DEF ReportFailure, ReportSuccess, MarkFailure, MarkSuccess
<1>6. ASSUME NEW r \in Requests, Retry(r) PROVE SelectionIsUpstream'
  BY <1>6 DEF Retry, MayRetry, CanRetry, Select, Picks, Available
<1>7. ASSUME NEW r \in Requests,
             EndStream(r) \/ ReleaseTunnel(r) \/ Leave(r)
      PROVE  SelectionIsUpstream'
  BY <1>7 DEF EndStream, ReleaseTunnel, Leave
<1>8. CASE Elapse \/ UNCHANGED vars
  BY <1>8 DEF Elapse, Tick, vars
<1> QED
  BY <1>1, <1>2, <1>3, <1>4, <1>5, <1>6, <1>7, <1>8 DEF Next, Handle

\* The loop appends one attempt for each round, and Next never returns the
\* upstream it is told to exclude.
LEMMA KeepsAttemptsAreCounted == Inv /\ [Next]_vars => AttemptsAreCounted'
<1> SUFFICES ASSUME Inv, [Next]_vars PROVE AttemptsAreCounted'
  OBVIOUS
<1> USE DEF Inv, HandlerTypeOK, AttemptsAreCounted, SelectionIsUpstream, CanRetry,
            Goto, Answer, Finish, IsConnect, course, requestVars, tunnelVars,
            shared, balancerVars
<1>1. ASSUME NEW r \in Requests,
             \/ Unauthorized(r) \/ NoUpstream(r)
             \/ AcquireTunnel(r) \/ RefuseTunnel(r)
      PROVE  AttemptsAreCounted'
  BY <1>1 DEF Unauthorized, NoUpstream, AcquireTunnel, RefuseTunnel,
              SelectNone
<1>2. ASSUME NEW r \in Requests, SelectFirst(r) PROVE AttemptsAreCounted'
  BY <1>2 DEF SelectFirst, Select, Picks, Available, Invalid
<1>3. ASSUME NEW r \in Requests, Attempt(r) PROVE AttemptsAreCounted'
  <2>1. /\ pc[r] = "attempt" /\ Len(tried[r]) = attempt[r]
        /\ tried[r] \in Seq(Upstreams) /\ selected[r] \in Upstreams
    BY <1>3 DEF Attempt
  <2>2. /\ Len(tried'[r]) = attempt'[r] + 1
        /\ tried'[r][Len(tried'[r])] = selected'[r]
    <3>1. /\ tried'[r] = Append(tried[r], selected[r])
          /\ selected' = selected /\ attempt' = attempt
      BY <1>3 DEF Attempt
    <3> QED
      BY <2>1, <3>1
  <2>3. pc'[r] \in {"failed", "mark", "succeeded"}
    BY <1>3 DEF Attempt, AfterAttempt
  <2>4. \A q \in Requests \ {r} : pc'[q] = pc[q] /\ tried'[q] = tried[q]
    BY <1>3 DEF Attempt
  <2> QED
    BY <1>3, <2>2, <2>3, <2>4 DEF Attempt
<1>4. ASSUME NEW r \in Requests,
             CheckContext(r) \/ GiveUp(r)
      PROVE  AttemptsAreCounted'
  BY <1>4 DEF CheckContext, GiveUp, SelectNone
<1>5. ASSUME NEW r \in Requests,
             ReportFailure(r) \/ ReportSuccess(r)
      PROVE  AttemptsAreCounted'
  BY <1>5 DEF ReportFailure, ReportSuccess, MarkFailure, MarkSuccess
<1>6. ASSUME NEW r \in Requests, Retry(r) PROVE AttemptsAreCounted'
  <2>1. PICK i \in Upstreams : Select(selected[r], i) /\
                              selected' = [selected EXCEPT ![r] = i]
    BY <1>6 DEF Retry
  <2>2. i # selected[r]
    BY <2>1 DEF Select, Picks, Available
  <2>3. /\ pc[r] = "again" /\ attempt[r] = 0 /\ CanRetry(r)
        /\ attempt' = [attempt EXCEPT ![r] = @ + 1]
        /\ pc' = [pc EXCEPT ![r] = "attempt"] /\ tried' = tried /\ req' = req
    BY <1>6 DEF Retry, MayRetry
  <2>4. Len(tried[r]) = 1 /\ tried[r][1] = selected[r] /\ attempt'[r] = 1
    <3>1. Len(tried[r]) = attempt[r] + 1 /\ tried[r][Len(tried[r])] = selected[r]
      BY <2>3
    <3>2. attempt'[r] = attempt[r] + 1
      BY <2>3
    <3> QED
      BY <2>3, <3>1, <3>2
  <2>5. tried'[r][1] # selected'[r] /\ Len(tried'[r]) = attempt'[r]
    BY <2>1, <2>2, <2>3, <2>4
  <2>6. CanRetry(r)'
    BY <2>3
  <2>7. \A q \in Requests \ {r} :
            /\ pc'[q] = pc[q] /\ attempt'[q] = attempt[q]
            /\ selected'[q] = selected[q]
    BY <2>1, <2>3
  <2> QED
    BY <2>3, <2>5, <2>6, <2>7
<1>7. ASSUME NEW r \in Requests,
             EndStream(r) \/ ReleaseTunnel(r) \/ Leave(r)
      PROVE  AttemptsAreCounted'
  BY <1>7 DEF EndStream, ReleaseTunnel, Leave
<1>8. CASE Elapse \/ UNCHANGED vars
  BY <1>8 DEF Elapse, Tick, vars
<1> QED
  BY <1>1, <1>2, <1>3, <1>4, <1>5, <1>6, <1>7, <1>8 DEF Next, Handle

\* The second attempt is one that AttemptsAreCounted has prepared.
LEMMA KeepsBoundedFailover == Inv /\ [Next]_vars => BoundedFailover'
<1> SUFFICES ASSUME Inv, [Next]_vars PROVE BoundedFailover'
  OBVIOUS
<1> USE DEF Inv, HandlerTypeOK, AttemptsAreCounted, BoundedFailover, CanRetry,
            Goto, Answer, Finish, IsConnect, course, requestVars, tunnelVars,
            shared, balancerVars
<1>1. ASSUME NEW r \in Requests,
             \/ Unauthorized(r) \/ NoUpstream(r)
             \/ AcquireTunnel(r) \/ RefuseTunnel(r)
      PROVE  BoundedFailover'
  BY <1>1 DEF Unauthorized, NoUpstream, AcquireTunnel, RefuseTunnel,
              SelectNone
<1>2. ASSUME NEW r \in Requests, SelectFirst(r) PROVE BoundedFailover'
  BY <1>2 DEF SelectFirst, Select, Picks, Available, Invalid
<1>3. ASSUME NEW r \in Requests, Attempt(r) PROVE BoundedFailover'
  <2>1. /\ pc[r] = "attempt" /\ Len(tried[r]) = attempt[r]
        /\ attempt[r] = 1 => tried[r][1] # selected[r] /\ CanRetry(r)
        /\ attempt[r] \in {0, 1}
        /\ tried' = [tried EXCEPT ![r] = Append(@, selected[r])] /\ req' = req
    BY <1>3 DEF Attempt
  <2>2. CASE attempt[r] = 0
    <3>1. Len(tried'[r]) = 1
      BY <2>1, <2>2
    <3> QED
      BY <2>1, <3>1
  <2>3. CASE attempt[r] = 1
    <3>1. /\ Len(tried'[r]) = 2 /\ tried'[r][1] = tried[r][1]
          /\ tried'[r][2] = selected[r]
      BY <2>1, <2>3
    <3> QED
      BY <2>1, <2>3, <3>1
  <2> QED
    BY <2>1, <2>2, <2>3
<1>4. ASSUME NEW r \in Requests,
             CheckContext(r) \/ GiveUp(r)
      PROVE  BoundedFailover'
  BY <1>4 DEF CheckContext, GiveUp, SelectNone
<1>5. ASSUME NEW r \in Requests,
             ReportFailure(r) \/ ReportSuccess(r)
      PROVE  BoundedFailover'
  BY <1>5 DEF ReportFailure, ReportSuccess, MarkFailure, MarkSuccess
<1>6. ASSUME NEW r \in Requests, Retry(r) PROVE BoundedFailover'
  BY <1>6 DEF Retry, MayRetry, CanRetry, Select, Picks, Available
<1>7. ASSUME NEW r \in Requests,
             EndStream(r) \/ ReleaseTunnel(r) \/ Leave(r)
      PROVE  BoundedFailover'
  BY <1>7 DEF EndStream, ReleaseTunnel, Leave
<1>8. CASE Elapse \/ UNCHANGED vars
  BY <1>8 DEF Elapse, Tick, vars
<1> QED
  BY <1>1, <1>2, <1>3, <1>4, <1>5, <1>6, <1>7, <1>8 DEF Next, Handle

\* A handler that sees the client gone does not reach the charge.
LEMMA KeepsOutcomeLeadsHere == Inv /\ [Next]_vars => OutcomeLeadsHere'
<1> SUFFICES ASSUME Inv, [Next]_vars PROVE OutcomeLeadsHere'
  OBVIOUS
<1> USE DEF Inv, HandlerTypeOK, OutcomeLeadsHere,
            Goto, Answer, Finish, IsConnect, course, requestVars, tunnelVars,
            shared, balancerVars
<1>1. ASSUME NEW r \in Requests,
             \/ Unauthorized(r) \/ NoUpstream(r)
             \/ AcquireTunnel(r) \/ RefuseTunnel(r)
      PROVE  OutcomeLeadsHere'
  BY <1>1 DEF Unauthorized, NoUpstream, AcquireTunnel, RefuseTunnel,
              SelectNone
<1>2. ASSUME NEW r \in Requests, SelectFirst(r) PROVE OutcomeLeadsHere'
  BY <1>2 DEF SelectFirst, Select, Picks, Available, Invalid
<1>3. ASSUME NEW r \in Requests, Attempt(r) PROVE OutcomeLeadsHere'
  <2>1. PICK o \in Possible(r) : /\ outcome' = [outcome EXCEPT ![r] = o]
                                /\ pc' = [pc EXCEPT ![r] = AfterAttempt(r, o)]
    BY <1>3 DEF Attempt
  <2>2. /\ o \in {"ok", "407", "error", "timeout", "uncontacted", "unsupported",
                  "cancelled"}
        /\ o = "cancelled" => gone[r]
    BY DEF Possible, Rejection, ConnectOutcomes, HTTPOutcomes
  <2>3. gone' = gone
    BY <1>3 DEF Attempt
  <2> QED
    BY <2>1, <2>2, <2>3 DEF AfterAttempt
<1>4. ASSUME NEW r \in Requests,
             CheckContext(r) \/ GiveUp(r)
      PROVE  OutcomeLeadsHere'
  BY <1>4 DEF CheckContext, GiveUp, SelectNone
<1>5. ASSUME NEW r \in Requests,
             ReportFailure(r) \/ ReportSuccess(r)
      PROVE  OutcomeLeadsHere'
  BY <1>5 DEF ReportFailure, ReportSuccess, MarkFailure, MarkSuccess
<1>6. ASSUME NEW r \in Requests, Retry(r) PROVE OutcomeLeadsHere'
  BY <1>6 DEF Retry, MayRetry, CanRetry, Select, Picks, Available
<1>7. ASSUME NEW r \in Requests,
             EndStream(r) \/ ReleaseTunnel(r) \/ Leave(r)
      PROVE  OutcomeLeadsHere'
  BY <1>7 DEF EndStream, ReleaseTunnel, Leave
<1>8. CASE Elapse \/ UNCHANGED vars
  BY <1>8 DEF Elapse, Tick, vars
<1> QED
  BY <1>1, <1>2, <1>3, <1>4, <1>5, <1>6, <1>7, <1>8 DEF Next, Handle

\* Each handler answers in one step, and never goes back into the loop.
LEMMA KeepsAnswersComeLast == Inv /\ [Next]_vars => AnswersComeLast'
<1> SUFFICES ASSUME Inv, [Next]_vars PROVE AnswersComeLast'
  OBVIOUS
<1> USE DEF Inv, HandlerTypeOK, AnswersComeLast,
            Goto, Answer, Finish, IsConnect, course, requestVars, tunnelVars,
            shared, balancerVars
<1>1. ASSUME NEW r \in Requests,
             \/ Unauthorized(r) \/ NoUpstream(r)
             \/ AcquireTunnel(r) \/ RefuseTunnel(r)
      PROVE  AnswersComeLast'
  BY <1>1 DEF Unauthorized, NoUpstream, AcquireTunnel, RefuseTunnel,
              SelectNone
<1>2. ASSUME NEW r \in Requests, SelectFirst(r) PROVE AnswersComeLast'
  BY <1>2 DEF SelectFirst, Select, Picks, Available, Invalid
<1>3. ASSUME NEW r \in Requests, Attempt(r) PROVE AnswersComeLast'
  BY <1>3 DEF Attempt, Possible, Rejection, ConnectOutcomes, HTTPOutcomes,
              AfterAttempt
<1>4. ASSUME NEW r \in Requests,
             CheckContext(r) \/ GiveUp(r)
      PROVE  AnswersComeLast'
  BY <1>4 DEF CheckContext, GiveUp, SelectNone
<1>5. ASSUME NEW r \in Requests,
             ReportFailure(r) \/ ReportSuccess(r)
      PROVE  AnswersComeLast'
  BY <1>5 DEF ReportFailure, ReportSuccess, MarkFailure, MarkSuccess
<1>6. ASSUME NEW r \in Requests, Retry(r) PROVE AnswersComeLast'
  BY <1>6 DEF Retry, MayRetry, CanRetry, Select, Picks, Available
<1>7. ASSUME NEW r \in Requests,
             EndStream(r) \/ ReleaseTunnel(r) \/ Leave(r)
      PROVE  AnswersComeLast'
  BY <1>7 DEF EndStream, ReleaseTunnel, Leave
<1>8. CASE Elapse \/ UNCHANGED vars
  BY <1>8 DEF Elapse, Tick, vars
<1> QED
  BY <1>1, <1>2, <1>3, <1>4, <1>5, <1>6, <1>7, <1>8 DEF Next, Handle

\* The status follows from the outcome of the last attempt.
LEMMA KeepsRepliesAreTruthful == Inv /\ [Next]_vars => RepliesAreTruthful'
<1> SUFFICES ASSUME Inv, [Next]_vars PROVE RepliesAreTruthful'
  OBVIOUS
<1> USE DEF Inv, HandlerTypeOK, RepliesAreTruthful, AnswersComeLast,
            OutcomeLeadsHere, AttemptsAreCounted,
            Goto, Answer, Finish, IsConnect, course, requestVars, tunnelVars,
            shared, balancerVars
<1>1. ASSUME NEW r \in Requests,
             \/ Unauthorized(r) \/ NoUpstream(r)
             \/ AcquireTunnel(r) \/ RefuseTunnel(r)
      PROVE  RepliesAreTruthful'
  BY <1>1 DEF Unauthorized, NoUpstream, AcquireTunnel, RefuseTunnel,
              SelectNone
<1>2. ASSUME NEW r \in Requests, SelectFirst(r) PROVE RepliesAreTruthful'
  BY <1>2 DEF SelectFirst, Select, Picks, Available, Invalid
<1>3. ASSUME NEW r \in Requests, Attempt(r) PROVE RepliesAreTruthful'
  BY <1>3 DEF Attempt, Possible, Rejection, ConnectOutcomes, HTTPOutcomes,
              AfterAttempt
<1>4. ASSUME NEW r \in Requests,
             CheckContext(r) \/ GiveUp(r)
      PROVE  RepliesAreTruthful'
  <2>1. CASE CheckContext(r)
    BY <2>1 DEF CheckContext
  <2>2. CASE GiveUp(r)
    BY <2>2 DEF GiveUp, SelectNone
  <2> QED
    BY <1>4, <2>1, <2>2
<1>5. ASSUME NEW r \in Requests,
             ReportFailure(r) \/ ReportSuccess(r)
      PROVE  RepliesAreTruthful'
  <2>1. CASE ReportFailure(r)
    BY <2>1 DEF ReportFailure
  <2>2. CASE ReportSuccess(r)
    BY <2>2 DEF ReportSuccess
  <2> QED
    BY <1>5, <2>1, <2>2
<1>6. ASSUME NEW r \in Requests, Retry(r) PROVE RepliesAreTruthful'
  BY <1>6 DEF Retry, MayRetry, CanRetry, Select, Picks, Available
<1>7. ASSUME NEW r \in Requests,
             EndStream(r) \/ ReleaseTunnel(r) \/ Leave(r)
      PROVE  RepliesAreTruthful'
  <2>1. CASE EndStream(r) \/ ReleaseTunnel(r)
    BY <2>1 DEF EndStream, ReleaseTunnel
  <2>2. CASE Leave(r)
    BY <2>2 DEF Leave
  <2> QED
    BY <1>7, <2>1, <2>2
<1>8. CASE Elapse \/ UNCHANGED vars
  BY <1>8 DEF Elapse, Tick, vars
<1> QED
  BY <1>1, <1>2, <1>3, <1>4, <1>5, <1>6, <1>7, <1>8 DEF Next, Handle

\* forwardRequest has no admission and nothing to release.
LEMMA KeepsOnlyConnectTunnels == Inv /\ [Next]_vars => OnlyConnectTunnels'
<1> SUFFICES ASSUME Inv, [Next]_vars PROVE OnlyConnectTunnels'
  OBVIOUS
<1> USE DEF Inv, HandlerTypeOK, OnlyConnectTunnels,
            Goto, Answer, Finish, IsConnect, course, requestVars, tunnelVars,
            shared, balancerVars
<1>1. ASSUME NEW r \in Requests,
             \/ Unauthorized(r) \/ NoUpstream(r)
             \/ AcquireTunnel(r) \/ RefuseTunnel(r)
      PROVE  OnlyConnectTunnels'
  BY <1>1 DEF Unauthorized, NoUpstream, AcquireTunnel, RefuseTunnel,
              SelectNone
<1>2. ASSUME NEW r \in Requests, SelectFirst(r) PROVE OnlyConnectTunnels'
  BY <1>2 DEF SelectFirst, Select, Picks, Available, Invalid
<1>3. ASSUME NEW r \in Requests, Attempt(r) PROVE OnlyConnectTunnels'
  BY <1>3 DEF Attempt, Possible, Rejection, ConnectOutcomes, HTTPOutcomes,
              AfterAttempt
<1>4. ASSUME NEW r \in Requests,
             CheckContext(r) \/ GiveUp(r)
      PROVE  OnlyConnectTunnels'
  BY <1>4 DEF CheckContext, GiveUp, SelectNone
<1>5. ASSUME NEW r \in Requests,
             ReportFailure(r) \/ ReportSuccess(r)
      PROVE  OnlyConnectTunnels'
  BY <1>5 DEF ReportFailure, ReportSuccess, MarkFailure, MarkSuccess
<1>6. ASSUME NEW r \in Requests, Retry(r) PROVE OnlyConnectTunnels'
  BY <1>6 DEF Retry, MayRetry, CanRetry, Select, Picks, Available
<1>7. ASSUME NEW r \in Requests,
             EndStream(r) \/ ReleaseTunnel(r) \/ Leave(r)
      PROVE  OnlyConnectTunnels'
  BY <1>7 DEF EndStream, ReleaseTunnel, Leave
<1>8. CASE Elapse \/ UNCHANGED vars
  BY <1>8 DEF Elapse, Tick, vars
<1> QED
  BY <1>1, <1>2, <1>3, <1>4, <1>5, <1>6, <1>7, <1>8 DEF Next, Handle

\* A request waits in ServeHTTP with nothing selected and nothing attempted.
LEMMA Initially == Init => Inv
<1> SUFFICES ASSUME Init PROVE Inv
  OBVIOUS
<1> USE DEF Init
<1>1. HandlerTypeOK
  <2>1. tried \in [Requests -> Seq(Upstreams)]
    OBVIOUS
  <2> QED
    BY <2>1 DEF HandlerTypeOK, Locations, Outcomes, Replies
<1>2. AttemptsAreCounted /\ BoundedFailover
  BY DEF AttemptsAreCounted, BoundedFailover
<1>3. /\ SelectionIsUpstream /\ OutcomeLeadsHere /\ AnswersComeLast
      /\ RepliesAreTruthful /\ OnlyConnectTunnels
  BY DEF SelectionIsUpstream, OutcomeLeadsHere, AnswersComeLast,
         RepliesAreTruthful, OnlyConnectTunnels
<1> QED
  BY <1>1, <1>2, <1>3 DEF Inv

LEMMA InvStep == Inv /\ [Next]_vars => Inv'
  BY KeepsHandlerTypeOK, KeepsSelectionIsUpstream, KeepsAttemptsAreCounted,
     KeepsBoundedFailover, KeepsOutcomeLeadsHere, KeepsAnswersComeLast,
     KeepsRepliesAreTruthful, KeepsOnlyConnectTunnels DEF Inv

\* The invariant holds in every reachable state.
LEMMA Invariance == Spec => []Inv
  BY Initially, InvStep, PTL DEF Spec

-----------------------------------------------------------------------------
(* Tunnel slots *)

\* The limiter's lemmas, about the counters of tunnelLimiter.
Limit == INSTANCE LimiterProofs WITH
    Keys <- Clients, MaxTotal <- MaxTunnels, MaxPerKey <- MaxTunnelsPerIP,
    total <- tunnelTotal, perKey <- tunnelPerIP

\* The host each handler's client has.
Host == [r \in Requests |-> req[r].client]

\* Every instance counts with the same Cardinality.
LEMMA SameCounting ==
    /\ \A S : TunnelLimiter!Cardinality(S) = Cardinality(S)
    /\ \A S : Limit!Cardinality(S) = Cardinality(S)
    /\ \A S : IsFiniteSet(S) => Limit!IsFiniteSet(S)
<1>1. \A S : TunnelLimiter!Cardinality(S) = Cardinality(S)
  BY DEF TunnelLimiter!Cardinality, Cardinality
<1>2. \A S : Limit!Cardinality(S) = Cardinality(S)
  BY DEF Limit!Cardinality, Cardinality
<1>3. \A S : IsFiniteSet(S) => Limit!IsFiniteSet(S)
  BY DEF Limit!IsFiniteSet, IsFiniteSet
<1> QED
  BY <1>1, <1>2, <1>3

\* The property, in the words of the lemmas.
LEMMA SlotsAreAccounts ==
    TunnelSlotsMatchHandlers <=>
        Limit!Accounts(Tunnelling, Host) /\ Limit!WithinLimits
<1>1. Limit!Accounts(Tunnelling, Host) <=>
          TunnelLimiter!Accounts(Tunnelling, Host)
  BY SameCounting DEF Limit!Accounts, TunnelLimiter!Accounts
<1>2. Limit!WithinLimits <=> TunnelLimiter!WithinLimits
  BY DEF Limit!WithinLimits, TunnelLimiter!WithinLimits
<1> QED
  BY <1>1, <1>2 DEF TunnelSlotsMatchHandlers, Host

LEMMA SlotsAreAccountsNext ==
    (Limit!Accounts(Tunnelling, Host) /\ Limit!WithinLimits)'
        => TunnelSlotsMatchHandlers'
  BY SlotsAreAccounts, PTL

\* The handlers that hold a slot are finitely many.
LEMMA TunnellingFinite ==
    /\ IsFiniteSet(Tunnelling) /\ Limit!IsFiniteSet(Tunnelling)
    /\ Tunnelling \subseteq Requests
<1>1. Tunnelling \subseteq Requests
  BY DEF Tunnelling
<1>2. IsFiniteSet(Tunnelling)
  BY <1>1, FailoverAssumption, FS_Subset
<1> QED
  BY <1>1, <1>2, SameCounting

\* No handler changes the request it serves.
LEMMA RequestsStay == [Next]_vars => req' = req /\ Host' = Host
<1>1. [Next]_vars => req' = req
  <2> USE DEF course, requestVars
  <2>1. ASSUME NEW r \in Requests,
               \/ Unauthorized(r) \/ SelectFirst(r) \/ NoUpstream(r)
               \/ AcquireTunnel(r) \/ RefuseTunnel(r) \/ Attempt(r)
               \/ CheckContext(r) \/ ReportFailure(r)
        PROVE  req' = req
    BY <2>1 DEF Unauthorized, SelectFirst, NoUpstream, AcquireTunnel,
                RefuseTunnel, Attempt, CheckContext, ReportFailure
  <2>2. ASSUME NEW r \in Requests,
               \/ Retry(r) \/ GiveUp(r) \/ ReportSuccess(r) \/ ReleaseTunnel(r)
               \/ EndStream(r) \/ Leave(r)
        PROVE  req' = req
    BY <2>2 DEF Retry, GiveUp, ReportSuccess, ReleaseTunnel, EndStream, Leave
  <2>3. Elapse \/ UNCHANGED vars => req' = req
    BY DEF Elapse, vars
  <2> QED
    BY <2>1, <2>2, <2>3 DEF Next, Handle
<1> QED
  BY <1>1 DEF Host

\* tryAcquire succeeds: one more handler holds a slot, and is counted.
LEMMA AcquireKeepsSlots ==
    ASSUME Inv, TunnelSlotsMatchHandlers, NEW r \in Requests, AcquireTunnel(r)
    PROVE  TunnelSlotsMatchHandlers' /\ Tunnelling' = Tunnelling \cup {r}
<1>1. pc[r] = "admit" /\ pc' = [pc EXCEPT ![r] = "attempt"] /\ IsConnect(r)
      /\ req' = req
  BY DEF AcquireTunnel, Goto, course, Inv, OnlyConnectTunnels
<1>2. r \notin Tunnelling /\ Tunnelling' = Tunnelling \cup {r} /\ Host' = Host
  BY <1>1 DEF Tunnelling, Host, Inv, HandlerTypeOK, IsConnect
<1>3. Limit!Acquire(Host[r])
  BY DEF AcquireTunnel, Host, Limit!Acquire, TunnelLimiter!Acquire,
         Limit!CanAcquire, TunnelLimiter!CanAcquire, Limit!Held,
         TunnelLimiter!Held
<1>4. Limit!LimiterAssumption
  BY FailoverAssumption DEF Limit!LimiterAssumption
<1>5. /\ tunnelTotal' = Limit!Cardinality(Tunnelling \cup {r})
      /\ DOMAIN tunnelPerIP' = {Host[g] : g \in Tunnelling \cup {r}}
      /\ \A k \in DOMAIN tunnelPerIP' :
             tunnelPerIP'[k] =
                 Limit!Cardinality({g \in Tunnelling \cup {r} : Host[g] = k})
      /\ Limit!WithinLimits'
  BY <1>2, <1>3, <1>4, TunnellingFinite, SlotsAreAccounts, Limit!AcquireCounts
<1> QED
  BY <1>2, <1>5, SlotsAreAccountsNext DEF Limit!Accounts

\* releaseTunnel: the handler was counted, and is not any more.
LEMMA ReleaseKeepsSlots ==
    ASSUME Inv, TunnelSlotsMatchHandlers, NEW r \in Requests, ReleaseTunnel(r)
    PROVE  /\ TunnelSlotsMatchHandlers'
           /\ r \in Tunnelling /\ Tunnelling' = Tunnelling \ {r}
<1>1. pc[r] = "release" /\ pc' = [pc EXCEPT ![r] = "done"] /\ IsConnect(r)
      /\ req' = req
  BY DEF ReleaseTunnel, Goto, course, Inv, OnlyConnectTunnels
<1>2. r \in Tunnelling /\ Tunnelling' = Tunnelling \ {r} /\ Host' = Host
  BY <1>1 DEF Tunnelling, Host, Inv, HandlerTypeOK, IsConnect
<1>3. Limit!Release(Host[r])
  BY DEF ReleaseTunnel, Host, Limit!Release, TunnelLimiter!Release, Limit!Held,
         TunnelLimiter!Held
<1>4. Limit!LimiterAssumption
  BY FailoverAssumption DEF Limit!LimiterAssumption
<1>5. /\ tunnelTotal' = Limit!Cardinality(Tunnelling \ {r})
      /\ DOMAIN tunnelPerIP' = {Host[g] : g \in Tunnelling \ {r}}
      /\ \A k \in DOMAIN tunnelPerIP' :
             tunnelPerIP'[k] =
                 Limit!Cardinality({g \in Tunnelling \ {r} : Host[g] = k})
      /\ Limit!WithinLimits'
  BY <1>2, <1>3, <1>4, TunnellingFinite, SlotsAreAccounts, Limit!ReleaseCounts
<1> QED
  BY <1>2, <1>5, SlotsAreAccountsNext DEF Limit!Accounts

\* Whatever else happens, the counters and the handlers that hold a slot stay
\* the same: a handler leaves handleConnect only through its deferred release.
LEMMA OthersKeepTunnels ==
    ASSUME Inv, [Next]_vars,
           \A r \in Requests : ~AcquireTunnel(r) /\ ~ReleaseTunnel(r)
    PROVE  Tunnelling' = Tunnelling /\ UNCHANGED tunnelVars
<1> USE DEF Inv, HandlerTypeOK, OnlyConnectTunnels, Goto, Answer, Finish,
            IsConnect, course, requestVars, shared, Tunnelling
<1>1. ASSUME NEW r \in Requests,
             \/ Unauthorized(r) \/ SelectFirst(r) \/ NoUpstream(r)
             \/ RefuseTunnel(r)
      PROVE  Tunnelling' = Tunnelling /\ UNCHANGED tunnelVars
  BY <1>1 DEF Unauthorized, SelectFirst, NoUpstream, RefuseTunnel,
              TunnelLimiter!Refuse, TunnelLimiter!limiterVars, tunnelVars
<1>2. ASSUME NEW r \in Requests, Attempt(r)
      PROVE  Tunnelling' = Tunnelling /\ UNCHANGED tunnelVars
  BY <1>2 DEF Attempt, AfterAttempt
<1>3. ASSUME NEW r \in Requests,
             CheckContext(r) \/ GiveUp(r) \/ EndStream(r) \/ Leave(r)
      PROVE  Tunnelling' = Tunnelling /\ UNCHANGED tunnelVars
  BY <1>3 DEF CheckContext, GiveUp, EndStream, Leave
<1>4. ASSUME NEW r \in Requests, ReportFailure(r) \/ ReportSuccess(r) \/ Retry(r)
      PROVE  Tunnelling' = Tunnelling /\ UNCHANGED tunnelVars
  BY <1>4 DEF ReportFailure, ReportSuccess, Retry
<1>5. CASE Elapse \/ UNCHANGED vars
  BY <1>5 DEF Elapse, vars
<1> QED
  BY <1>1, <1>2, <1>3, <1>4, <1>5 DEF Next, Handle

\* The account of the tunnel slots holds in every reachable state.
LEMMA SlotsInvariance == Spec => []TunnelSlotsMatchHandlers
<1>1. Init => TunnelSlotsMatchHandlers
  <2> SUFFICES ASSUME Init PROVE TunnelSlotsMatchHandlers
    OBVIOUS
  <2>1. Tunnelling = {}
    BY DEF Init, Tunnelling
  <2>2. tunnelTotal = 0 /\ DOMAIN tunnelPerIP = {}
    BY DEF Init, TunnelLimiter!LimiterInit
  <2>3. Limit!Accounts(Tunnelling, Host)
    BY <2>1, <2>2, SameCounting, FS_EmptySet DEF Limit!Accounts
  <2>4. Limit!WithinLimits
    BY <2>2, FailoverAssumption DEF Limit!WithinLimits
  <2> QED
    BY <2>3, <2>4, SlotsAreAccounts
<1>2. Inv /\ TunnelSlotsMatchHandlers /\ [Next]_vars => TunnelSlotsMatchHandlers'
  <2> SUFFICES ASSUME Inv, TunnelSlotsMatchHandlers, [Next]_vars
               PROVE  TunnelSlotsMatchHandlers'
    OBVIOUS
  <2>1. CASE \A r \in Requests : ~AcquireTunnel(r) /\ ~ReleaseTunnel(r)
    <3>1. Tunnelling' = Tunnelling /\ Host' = Host /\ UNCHANGED tunnelVars
      BY <2>1, OthersKeepTunnels, RequestsStay
    <3>2. (Limit!Accounts(Tunnelling, Host) /\ Limit!WithinLimits)'
      BY <3>1, SlotsAreAccounts DEF Limit!Accounts, Limit!WithinLimits, tunnelVars
    <3> QED
      BY <3>2, SlotsAreAccountsNext
  <2> QED
    BY <2>1, AcquireKeepsSlots, ReleaseKeepsSlots
<1> QED
  BY <1>1, <1>2, Invariance, PTL DEF Spec

-----------------------------------------------------------------------------
(* What the handlers promise *)

\* Every reachable state is well typed: no handler makes a third attempt, and
\* each release finds a tunnel that was counted.
THEOREM TypeCorrect == Spec => []TypeOK
<1>1. Inv /\ TunnelSlotsMatchHandlers => TypeOK
  <2> SUFFICES ASSUME Inv, TunnelSlotsMatchHandlers PROVE TypeOK
    OBVIOUS
  <2>1. Limit!Accounts(Tunnelling, Host)
    BY SlotsAreAccounts
  <2>2. tunnelTotal \in Nat
    BY <2>1, SameCounting, TunnellingFinite, FS_CardinalityType
       DEF Limit!Accounts
  <2>3. DOMAIN tunnelPerIP \subseteq Clients
    <3>1. \A r \in Requests : Host[r] \in Clients
      BY FailoverAssumption DEF Inv, HandlerTypeOK, Host, RequestKind
    <3> QED
      BY <2>1, <3>1, TunnellingFinite DEF Limit!Accounts
  <2>4. ASSUME NEW k \in DOMAIN tunnelPerIP PROVE tunnelPerIP[k] \in Nat
    <3>1. IsFiniteSet({r \in Tunnelling : Host[r] = k})
      BY TunnellingFinite, FS_Subset
    <3> QED
      BY <2>1, <3>1, SameCounting, FS_CardinalityType DEF Limit!Accounts
  <2>5. TunnelLimiter!LimiterTypeOK
    BY <2>2, <2>3, <2>4 DEF TunnelLimiter!LimiterTypeOK
  <2> QED
    BY <2>5 DEF TypeOK, Inv, HandlerTypeOK
<1> QED
  BY <1>1, Invariance, SlotsInvariance, PTL

\* max_tunnels and max_tunnels_per_ip bound the CONNECT handlers that are past
\* their admission, and each of the returns of handleConnect gives its slot
\* back, whatever else runs meanwhile.
THEOREM TunnelSlotsExact == Spec => []TunnelSlotsMatchHandlers
  BY SlotsInvariance

\* The loops of forwardRequest and handleConnect try at most one alternate,
\* another upstream than the failed one, and only where a retry is safe.
THEOREM FailoverBounded == Spec => []BoundedFailover
  BY Invariance, PTL DEF Inv

\* The status a client is told follows from what happened to its request.
THEOREM RepliesTruthful == Spec => []RepliesAreTruthful
  BY Invariance, PTL DEF Inv

\* MarkFailure is called only on the account of an upstream that the request
\* attempted last, with an outcome that is the upstream's failure.
THEOREM OnlyFailuresAreCharged == Spec => OnlyFailuresCool
<1> DEFINE Charged ==
        \A i \in Upstreams : unhealthyFor'[i] > unhealthyFor[i] =>
           \E r \in Requests :
              /\ tried[r] # <<>> /\ tried[r][Len(tried[r])] = i
              /\ outcome[r] \in {"407", "error", "timeout", "uncontacted"}
<1>1. Inv /\ [Next]_vars => [Charged]_vars
  <2> SUFFICES ASSUME Inv, [Next]_vars, NEW i \in Upstreams,
                      unhealthyFor'[i] > unhealthyFor[i]
               PROVE  \E r \in Requests :
                          /\ tried[r] # <<>> /\ tried[r][Len(tried[r])] = i
                          /\ outcome[r] \in {"407", "error", "timeout",
                                             "uncontacted"}
    OBVIOUS
  <2>1. unhealthyFor[i] \in 0 .. Cooldown /\ Cooldown \in Nat
    BY BalancerAssumption DEF Inv, HandlerTypeOK, BalancerTypeOK
  <2>2. unhealthyFor' # unhealthyFor
    BY <2>1
  <2>3. ASSUME NEW r \in Requests, ReportFailure(r)
        PROVE  /\ tried[r] # <<>> /\ tried[r][Len(tried[r])] = i
               /\ outcome[r] \in {"407", "error", "timeout", "uncontacted"}
    <3>1. i = selected[r] /\ pc[r] = "mark"
      BY <2>1, <2>3 DEF ReportFailure, MarkFailure, Inv, HandlerTypeOK,
                        BalancerTypeOK
    <3>2. /\ Len(tried[r]) = attempt[r] + 1 /\ attempt[r] \in {0, 1}
          /\ tried[r][Len(tried[r])] = selected[r]
          /\ outcome[r] \in {"407", "error", "timeout", "uncontacted"}
      BY <3>1 DEF Inv, HandlerTypeOK, AttemptsAreCounted, OutcomeLeadsHere
    <3>3. tried[r] # <<>>
      BY <3>2
    <3> QED
      BY <3>1, <3>2, <3>3
  <2>4. ASSUME NEW r \in Requests, ReportSuccess(r) PROVE FALSE
    BY <2>1, <2>4 DEF ReportSuccess, MarkSuccess, Inv, HandlerTypeOK,
                      BalancerTypeOK
  <2>5. CASE Elapse
    BY <2>1, <2>5 DEF Elapse, Tick
  <2>6. ASSUME NEW r \in Requests,
               \/ Unauthorized(r) \/ SelectFirst(r) \/ NoUpstream(r)
               \/ AcquireTunnel(r) \/ RefuseTunnel(r) \/ Attempt(r)
        PROVE  FALSE
    BY <2>2, <2>6 DEF Unauthorized, SelectFirst, NoUpstream, AcquireTunnel,
                      RefuseTunnel, Attempt, Select, SelectNone, shared,
                      balancerVars
  <2>7. ASSUME NEW r \in Requests,
               \/ CheckContext(r) \/ Retry(r) \/ GiveUp(r) \/ ReleaseTunnel(r)
               \/ EndStream(r) \/ Leave(r)
        PROVE  FALSE
    BY <2>2, <2>7 DEF CheckContext, Retry, GiveUp, ReleaseTunnel, EndStream,
                      Leave, Select, SelectNone, shared, balancerVars
  <2>8. CASE UNCHANGED vars
    BY <2>2, <2>8 DEF vars, shared, balancerVars
  <2> QED
    BY <2>3, <2>4, <2>5, <2>6, <2>7, <2>8 DEF Next, Handle
<1> QED
  BY <1>1, Invariance, PTL DEF Spec, OnlyFailuresCool

\* A client is told of a failure without an attempt, or after one that might have
\* been repeated, only if the balancer, asked at that moment, has no upstream for it.
THEOREM RefusalsHaveNoAlternate == Spec => RefusedOnlyWithoutAlternate
<1> DEFINE Justified(r) ==
        /\ tried[r] = <<>> => Available(NoExclude) = {}
        /\ Len(tried[r]) = 1 /\ CanRetry(r) => Available(tried[r][1]) = {}
           AllJustified ==
        \A r \in Requests :
            reply[r] = "none" /\ reply'[r] \in {"502", "504"} => Justified(r)
<1>1. Inv /\ [Next]_vars => [AllJustified]_vars
  <2> SUFFICES ASSUME Inv, [Next]_vars, NEW r \in Requests,
                      reply[r] = "none", reply'[r] \in {"502", "504"}
               PROVE  Justified(r)
    OBVIOUS
  <2> USE DEF Answer, course, requestVars, shared
  <2>1. ASSUME NEW q \in Requests, GiveUp(q) PROVE Justified(r)
    <3>1. q = r
      BY <2>1 DEF GiveUp, Inv, HandlerTypeOK
    <3>2. /\ Len(tried[r]) = attempt[r] + 1 /\ attempt[r] \in {0, 1}
          /\ tried[r][Len(tried[r])] = selected[r]
      <4>1. pc[r] = "again"
        BY <2>1, <3>1 DEF GiveUp
      <4> QED
        BY <4>1 DEF Inv, AttemptsAreCounted, HandlerTypeOK
    <3>3. tried[r] # <<>>
      BY <3>2
    <3>4. ASSUME Len(tried[r]) = 1, CanRetry(r)
          PROVE  Available(tried[r][1]) = {}
      <4>1. attempt[r] = 0 /\ tried[r][1] = selected[r]
        BY <3>2, <3>4
      <4> QED
        BY <2>1, <3>1, <3>4, <4>1 DEF GiveUp, MayRetry, SelectNone
    <3> QED
      BY <3>3, <3>4
  <2>2. ASSUME NEW q \in Requests, NoUpstream(q) PROVE Justified(r)
    <3>1. q = r
      BY <2>2 DEF NoUpstream, Inv, HandlerTypeOK
    <3>2. tried[r] = <<>> /\ Available(NoExclude) = {}
      BY <2>2, <3>1 DEF NoUpstream, SelectNone, Inv, AttemptsAreCounted
    <3> QED
      BY <3>2
  <2>3. ASSUME NEW q \in Requests,
               \/ Unauthorized(q) \/ SelectFirst(q) \/ RefuseTunnel(q)
               \/ ReportSuccess(q)
        PROVE  FALSE
    BY <2>3 DEF Unauthorized, SelectFirst, RefuseTunnel, ReportSuccess, Inv,
                HandlerTypeOK
  <2>4. ASSUME NEW q \in Requests,
               \/ AcquireTunnel(q) \/ Attempt(q) \/ CheckContext(q)
               \/ ReportFailure(q) \/ Retry(q) \/ ReleaseTunnel(q)
               \/ EndStream(q) \/ Leave(q)
        PROVE  FALSE
    BY <2>4 DEF AcquireTunnel, Attempt, CheckContext, ReportFailure, Retry,
                ReleaseTunnel, EndStream, Leave
  <2>5. CASE Elapse \/ UNCHANGED vars
    BY <2>5 DEF Elapse, vars
  <2> QED
    BY <2>1, <2>2, <2>3, <2>4, <2>5 DEF Next, Handle
<1> QED
  BY <1>1, Invariance, PTL DEF Spec, RefusedOnlyWithoutAlternate

\* Bounds what a handler may still do: the rest of its round, and a second round
\* while it is in its first.
StepsLeft(r) ==
    LET second == IF attempt[r] = 0 THEN 4 ELSE 0
    IN  CASE pc[r] = "serve"                    -> 12
          [] pc[r] = "admit"                    -> 11
          [] pc[r] = "attempt"                  -> 6 + second
          [] pc[r] \in {"failed", "succeeded"}  -> 5 + second
          [] pc[r] = "mark"                     -> 4 + second
          [] pc[r] = "again"                    -> 3 + second
          [] pc[r] = "stream"                   -> 2
          [] pc[r] = "release"                  -> 1
          [] OTHER                              -> 0

\* Whatever fails, is retried or refused, and whatever other requests do to the
\* balancer and the limiter meanwhile, each step of a handler brings it closer to
\* its end, and it has at most twelve to take.
HandlersAdvance ==
    [][\A r \in Requests :
          pc'[r] # pc[r] => StepsLeft(r)' < StepsLeft(r) /\ StepsLeft(r) <= 12]_vars

\* The variant on which EveryRequestSettles rests: the loop of forwardRequest and
\* of handleConnect makes no third round and no step backwards.
THEOREM HandlersEnd == Spec => HandlersAdvance
<1> DEFINE Advances(r) ==
        pc'[r] # pc[r] => StepsLeft(r)' < StepsLeft(r) /\ StepsLeft(r) <= 12
<1>1. ASSUME Inv, [Next]_vars, NEW r \in Requests PROVE Advances(r)
  <2> SUFFICES ASSUME pc'[r] # pc[r]
               PROVE  StepsLeft(r)' < StepsLeft(r) /\ StepsLeft(r) <= 12
    OBVIOUS
  <2> USE <1>1 DEF StepsLeft, Inv, HandlerTypeOK, Goto, Answer, Finish, course,
                   requestVars
  <2>1. attempt[r] \in {0, 1}
    OBVIOUS
  <2>2. CASE Unauthorized(r) \/ NoUpstream(r) \/ RefuseTunnel(r)
    BY <2>1, <2>2 DEF Unauthorized, NoUpstream, RefuseTunnel
  <2>3. CASE SelectFirst(r)
    BY <2>1, <2>3 DEF SelectFirst
  <2>4. CASE AcquireTunnel(r)
    BY <2>1, <2>4 DEF AcquireTunnel
  <2>5. CASE Attempt(r)
    BY <2>1, <2>5 DEF Attempt, AfterAttempt
  <2>6. CASE CheckContext(r)
    BY <2>1, <2>6 DEF CheckContext
  <2>7. CASE ReportFailure(r) \/ ReportSuccess(r)
    BY <2>1, <2>7 DEF ReportFailure, ReportSuccess
  <2>8. CASE Retry(r)
    <3>1. /\ attempt[r] = 0 /\ attempt'[r] = 1
          /\ pc[r] = "again" /\ pc'[r] = "attempt"
      BY <2>8 DEF Retry, MayRetry
    <3> QED
      BY <3>1
  <2>9. CASE GiveUp(r)
    BY <2>1, <2>9 DEF GiveUp
  <2>10. CASE EndStream(r) \/ ReleaseTunnel(r)
    BY <2>1, <2>10 DEF EndStream, ReleaseTunnel
  <2>11. ASSUME NEW q \in Requests, Handle(q) \/ EndStream(q) PROVE q = r
    <3>1. \E l : pc' = [pc EXCEPT ![q] = l]
      BY <2>11 DEF Handle, Unauthorized, SelectFirst, NoUpstream, AcquireTunnel,
         RefuseTunnel, Attempt, CheckContext, ReportFailure, Retry, GiveUp,
         ReportSuccess, ReleaseTunnel, EndStream
    <3> QED
      BY <3>1
  <2>12. CASE Elapse \/ UNCHANGED vars \/ \E q \in Requests : Leave(q)
    BY <2>12 DEF Elapse, Leave, vars
  <2> QED
    BY <1>1, <2>2, <2>3, <2>4, <2>5, <2>6, <2>7, <2>8, <2>9, <2>10, <2>11, <2>12
       DEF Next, Handle
<1>2. Inv /\ [Next]_vars => [\A r \in Requests : Advances(r)]_vars
  BY <1>1
<1> QED
  BY <1>2, Invariance, PTL DEF Spec, HandlersAdvance

-----------------------------------------------------------------------------
(* Refinement *)

\* A handler that was refused a tunnel; the 429 of a blocked host comes before
\* any selection.
TurnedAway(r) == reply[r] = "429" /\ selected[r] # NoExclude

\* The status a handler has in the abstract pool of tunnel slots.
TunnelStatus == [r \in Requests |-> IF r \in Tunnelling THEN "in"
                                    ELSE IF TurnedAway(r) THEN "denied"
                                    ELSE "out"]

TunnelPool == INSTANCE SlotPool WITH
    Users <- Requests, Keys <- Clients, MaxTotal <- MaxTunnels,
    MaxPerKey <- MaxTunnelsPerIP, status <- TunnelStatus, key <- Host

\* CONNECT handlers are admitted only below both limits, and refused only at
\* one of them.
ImplementsTunnelPool == TunnelPool!Spec

\* The limiter's two comparisons decide whether the pool has room.
LEMMA RoomIsCanAcquire ==
    ASSUME TunnelSlotsMatchHandlers, NEW k
    PROVE  TunnelPool!Room(k) <=> TunnelLimiter!CanAcquire(k)
<1>1. \A S : TunnelPool!Cardinality(S) = Cardinality(S)
  BY DEF TunnelPool!Cardinality, Cardinality
<1>2. /\ TunnelPool!Inside = Tunnelling
      /\ TunnelPool!InsideOf(k) = {h \in Tunnelling : Host[h] = k}
  BY TunnellingFinite DEF TunnelPool!Inside, TunnelPool!InsideOf, TunnelStatus
<1>3. Limit!Accounts(Tunnelling, Host)
  BY SlotsAreAccounts
<1>4. tunnelTotal = Cardinality(Tunnelling)
  BY <1>3, SameCounting DEF Limit!Accounts
<1>5. Limit!LimiterAssumption
  BY FailoverAssumption DEF Limit!LimiterAssumption
<1>6. Limit!Held(k) = Cardinality({h \in Tunnelling : Host[h] = k})
  BY <1>3, <1>5, TunnellingFinite, SameCounting, Limit!HeldCounts
<1>7. TunnelLimiter!Held(k) = Limit!Held(k)
  BY DEF TunnelLimiter!Held, Limit!Held
<1> QED
  BY <1>1, <1>2, <1>4, <1>6, <1>7
     DEF TunnelPool!Room, TunnelLimiter!CanAcquire

\* Every step of a handler is a step of the pool or changes nothing there.
LEMMA StepRefines ==
    ASSUME Inv, TunnelSlotsMatchHandlers, [Next]_vars
    PROVE  [TunnelPool!Next]_(TunnelPool!vars)
<1>1. Host' = Host
  BY RequestsStay
<1>2. ASSUME NEW r \in Requests, AcquireTunnel(r) PROVE TunnelPool!Next
  <2>1. Tunnelling' = Tunnelling \cup {r}
    BY <1>2, AcquireKeepsSlots
  <2>2. /\ pc[r] = "admit" /\ reply[r] = "none"
        /\ reply' = reply /\ selected' = selected
    BY <1>2 DEF AcquireTunnel, course, Inv, AnswersComeLast
  <2>3. /\ r \notin Tunnelling /\ ~TurnedAway(r)
    BY <2>2 DEF Tunnelling, TurnedAway
  <2>4. /\ TunnelStatus[r] = "out"
        /\ TunnelStatus' = [TunnelStatus EXCEPT ![r] = "in"]
    BY <2>1, <2>2, <2>3 DEF TunnelStatus, TurnedAway
  <2>5. TunnelPool!Room(Host[r])
    <3>1. TunnelLimiter!CanAcquire(Host[r])
      BY <1>2 DEF AcquireTunnel, TunnelLimiter!Acquire, Host
    <3> QED
      BY <3>1, RoomIsCanAcquire
  <2> QED
    BY <1>1, <2>4, <2>5 DEF TunnelPool!Next, TunnelPool!Grant
<1>3. ASSUME NEW r \in Requests, ReleaseTunnel(r) PROVE TunnelPool!Next
  <2>1. r \in Tunnelling /\ Tunnelling' = Tunnelling \ {r}
    BY <1>3, ReleaseKeepsSlots
  <2>2. reply' = reply /\ selected' = selected
    BY <1>3 DEF ReleaseTunnel, course
  <2>3. ~TurnedAway(r)
    BY <1>3 DEF ReleaseTunnel, TurnedAway, Inv, AnswersComeLast
  <2>4. /\ TunnelStatus[r] = "in"
        /\ TunnelStatus' = [TunnelStatus EXCEPT ![r] = "out"]
    BY <2>1, <2>2, <2>3 DEF TunnelStatus, TurnedAway
  <2> QED
    BY <1>1, <2>4 DEF TunnelPool!Next, TunnelPool!GiveBack
<1>4. ASSUME NEW r \in Requests, RefuseTunnel(r) PROVE TunnelPool!Next
  <2>1. /\ pc[r] = "admit" /\ pc' = [pc EXCEPT ![r] = "done"]
        /\ reply[r] = "none" /\ reply' = [reply EXCEPT ![r] = "429"]
        /\ selected' = selected /\ selected[r] \in Upstreams /\ req' = req
    BY <1>4 DEF RefuseTunnel, Answer, Goto, course, Inv, AnswersComeLast,
                SelectionIsUpstream
  <2>2. r \notin Tunnelling /\ Tunnelling' = Tunnelling
    BY <2>1 DEF Tunnelling, Inv, HandlerTypeOK, IsConnect
  <2>3. selected[r] # NoExclude
    BY <2>1, BalancerAssumption DEF Upstreams, NoExclude
  <2>4. \A q \in Requests : TurnedAway(q)' <=> (q = r \/ TurnedAway(q))
    BY <2>1, <2>3 DEF TurnedAway, Inv, HandlerTypeOK
  <2>5. /\ TunnelStatus[r] = "out"
        /\ TunnelStatus' = [TunnelStatus EXCEPT ![r] = "denied"]
    <3>1. ~TurnedAway(r)
      BY <2>1 DEF TurnedAway
    <3> QED
      BY <2>2, <2>4, <3>1 DEF TunnelStatus
  <2>6. ~TunnelPool!Room(Host[r])
    <3>1. ~TunnelLimiter!CanAcquire(Host[r])
      BY <1>4 DEF RefuseTunnel, TunnelLimiter!Refuse, Host
    <3> QED
      BY <3>1, RoomIsCanAcquire
  <2> QED
    BY <1>1, <2>5, <2>6 DEF TunnelPool!Next, TunnelPool!Deny
<1>5. CASE \A r \in Requests :
               ~AcquireTunnel(r) /\ ~ReleaseTunnel(r) /\ ~RefuseTunnel(r)
  <2>1. Tunnelling' = Tunnelling
    BY <1>5, OthersKeepTunnels
  <2>2. \A q \in Requests \ Tunnelling : TurnedAway(q)' <=> TurnedAway(q)
    <3> USE DEF Answer, course, requestVars, shared, TurnedAway, Inv,
                HandlerTypeOK, Tunnelling
    <3>1. ASSUME NEW r \in Requests, Unauthorized(r) \/ NoUpstream(r)
          PROVE  \A q \in Requests : TurnedAway(q)' <=> TurnedAway(q)
      BY <3>1 DEF Unauthorized, NoUpstream, SelectionIsUpstream, AnswersComeLast
    <3>2. ASSUME NEW r \in Requests, SelectFirst(r)
          PROVE  \A q \in Requests : TurnedAway(q)' <=> TurnedAway(q)
      BY <3>2 DEF SelectFirst, SelectionIsUpstream, AnswersComeLast
    <3>3. ASSUME NEW r \in Requests, Retry(r)
          PROVE  \A q \in Requests : TurnedAway(q)' <=> TurnedAway(q)
      BY <3>3 DEF Retry, AnswersComeLast
    <3>4. ASSUME NEW r \in Requests, GiveUp(r) \/ ReportSuccess(r)
          PROVE  \A q \in Requests : TurnedAway(q)' <=> TurnedAway(q)
      BY <3>4 DEF GiveUp, ReportSuccess, AnswersComeLast
    <3>5. ASSUME NEW r \in Requests,
                 \/ Attempt(r) \/ CheckContext(r) \/ ReportFailure(r)
                 \/ EndStream(r) \/ Leave(r)
          PROVE  \A q \in Requests : TurnedAway(q)' <=> TurnedAway(q)
      BY <3>5 DEF Attempt, CheckContext, ReportFailure, EndStream, Leave
    <3>6. Elapse \/ UNCHANGED vars =>
              \A q \in Requests : TurnedAway(q)' <=> TurnedAway(q)
      BY DEF Elapse, vars
    <3> QED
      BY <1>5, <3>1, <3>2, <3>3, <3>4, <3>5, <3>6 DEF Next, Handle
  <2>3. TunnelStatus' = TunnelStatus
    BY <2>1, <2>2 DEF TunnelStatus
  <2> QED
    BY <1>1, <2>3 DEF TunnelPool!vars
<1> QED
  BY <1>2, <1>3, <1>4, <1>5

\* max_tunnels and max_tunnels_per_ip give what SlotPool promises, for every
\* interleaving of the handlers: no CONNECT is refused while there is room.
THEOREM TunnelRefinement == Spec => ImplementsTunnelPool
<1>1. Init => TunnelPool!Init
  <2> SUFFICES ASSUME Init PROVE TunnelPool!Init
    OBVIOUS
  <2>1. Tunnelling = {} /\ \A r \in Requests : ~TurnedAway(r)
    BY DEF Init, Tunnelling, TurnedAway
  <2>2. \A r \in Requests : Host[r] \in Clients
    BY FailoverAssumption DEF Init, Host, RequestKind
  <2> QED
    BY <2>1, <2>2 DEF TunnelPool!Init, TunnelStatus, Host
<1>2. Inv /\ TunnelSlotsMatchHandlers /\ [Next]_vars =>
          [TunnelPool!Next]_(TunnelPool!vars)
  BY StepRefines
<1> QED
  BY <1>1, <1>2, Invariance, SlotsInvariance, PTL
     DEF Spec, TunnelPool!Spec, ImplementsTunnelPool
=============================================================================
