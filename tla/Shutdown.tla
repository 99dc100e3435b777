------------------------------ MODULE Shutdown ------------------------------
(***************************************************************************)
(* CONNECT tunnels from the end of their setup to their end (relayHTTP1,   *)
(* relayHTTP2 and relay of internal/proxy/tunnel.go), and the way Run of   *)
(* internal/proxy/run.go closes them and returns.                          *)
(*                                                                         *)
(* A tunnel has a handler goroutine (pc), two copying goroutines (up:      *)
(* client to upstream, down: upstream to client), an idle timer and, over  *)
(* HTTP/2, a callback on the request's context.  All of them may call      *)
(* closePair.  net/http's Shutdown and Close are modelled from how Run     *)
(* uses them: Shutdown waits for the handlers of connections that are not  *)
(* hijacked, Close breaks those connections.                               *)
(***************************************************************************)
EXTENDS TunnelRegistry

ASSUME ShutdownAssumption == IsFiniteSet(Tunnels)

VARIABLES
    main,        \* where Run is
    reason,      \* why it stopped serving: "none", "signal" or "serve error"
    pairs,       \* pairs that closeAll has still to close
    expired,     \* shutdownCtx.Err() != nil
    failed,      \* the errors Run joins: "shutdown" and "tunnels"
    pc,          \* where each handler is
    up, down,    \* copying goroutines: "none", "copying", "ok" or "err"
    http2,       \* the tunnels whose request came over HTTP/2
    pairClosed,  \* closePair has run
    gone,        \* the client has disconnected or its connection was broken
    stalled,     \* the client does not read, so a write to it blocks
    idled        \* the idle timer has fired

runVars    == <<main, reason, pairs, expired, failed>>
ends       == <<up, down>>
client     == <<http2, gone, stalled>>
tunnelVars == <<pc, ends, client, pairClosed, idled>>
shared     == <<runVars, registryVars>>
vars       == <<tunnelVars, shared>>

Init ==
    /\ RegistryInit
    /\ main = "serving"
    /\ reason = "none"
    /\ pairs = {}
    /\ expired = FALSE
    /\ failed = {}
    /\ pc = [t \in Tunnels |-> "none"]
    /\ up = [t \in Tunnels |-> "none"]
    /\ down = [t \in Tunnels |-> "none"]
    /\ http2 = {}
    /\ pairClosed = [t \in Tunnels |-> FALSE]
    /\ gone = [t \in Tunnels |-> FALSE]
    /\ stalled = [t \in Tunnels |-> FALSE]
    /\ idled = [t \in Tunnels |-> FALSE]

Goto(t, l)   == pc' = [pc EXCEPT ![t] = l]
ClosePair(t) == pairClosed' = [pairClosed EXCEPT ![t] = TRUE]

\* Handlers that Server.Shutdown waits for: a hijacked connection is not the
\* server's any more.
Served(t) ==
    /\ pc[t] \notin {"none", "returned", "aborted"}
    /\ t \in http2 \/ pc[t] \in {"setup", "connected"}

-----------------------------------------------------------------------------
(* The handler of a tunnel *)

\* A CONNECT request of either HTTP version reaches dialConnect.  As long as
\* the server has not been shut down its open connections may bring new ones,
\* and when Serve failed nobody shuts it down.
Start(t) ==
    /\ pc[t] = "none"
    /\ \/ main \in {"serving", "closeAll", "closing", "shutdown"}
       \/ main = "wait" /\ reason = "serve error"
    /\ Goto(t, "setup")
    /\ http2' \in {http2, http2 \cup {t}}
    /\ UNCHANGED <<ends, pairClosed, gone, stalled, idled, shared>>

\* dialConnect fails, so that there is nothing to close, or succeeds.
EndSetup(t) ==
    /\ pc[t] = "setup"
    /\ \E l \in {"aborted", "connected"} : Goto(t, l)
    /\ UNCHANGED <<ends, client, pairClosed, idled, shared>>

\* hijacker.Hijack(); HTTP/2 has no such step.  It may fail: the upstream
\* connection is closed and there is no tunnel, as the client's connection is
\* still the server's.
Hijack(t) ==
    /\ pc[t] = "connected"
    /\ t \notin http2
    /\ \E l \in {"aborted", "untracked"} : Goto(t, l)
    /\ UNCHANGED <<ends, client, pairClosed, idled, shared>>

Untracked(t) == pc[t] = IF t \in http2 THEN "connected" ELSE "untracked"

Register(t) ==
    /\ Untracked(t)
    /\ Track(t)
    /\ Goto(t, "tracked")
    /\ UNCHANGED <<ends, client, pairClosed, idled, runVars>>

\* track refuses: both connections are closed and the handler returns.
RegisterRefused(t) ==
    /\ Untracked(t)
    /\ TrackRefused
    /\ ClosePair(t)
    /\ Goto(t, "returned")
    /\ UNCHANGED <<ends, client, idled, runVars>>

\* Nothing interrupts a blocked write to the client but the end of its
\* connection: closePair closes that of HTTP/1, and only the request body and
\* the upstream connection of an HTTP/2 stream.
WriteBlocked(t) ==
    stalled[t] /\ ~gone[t] /\ (pairClosed[t] => t \in http2)

\* The 200 goes out, or its write fails.  No idle timer runs yet.
Greet(t) ==
    /\ pc[t] = "tracked"
    /\ ~WriteBlocked(t)
    /\ \/ Goto(t, "unwinding") /\ UNCHANGED <<up, down>>
       \/ /\ Goto(t, "relaying")
          /\ up' = [up EXCEPT ![t] = "copying"]
          /\ down' = [down EXCEPT ![t] = "copying"]
    /\ UNCHANGED <<pairClosed, client, idled, shared>>

\* first := <-results, the result of either goroutine.
FirstResult(t) ==
    /\ pc[t] = "relaying"
    /\ \E first \in {up[t], down[t]} \ {"copying"} :
           IF first = "err" THEN ClosePair(t) ELSE UNCHANGED pairClosed
    /\ Goto(t, "second")
    /\ UNCHANGED <<ends, client, idled, shared>>

\* second := <-results, and relay returns.
SecondResult(t) ==
    /\ pc[t] = "second"
    /\ up[t] # "copying" /\ down[t] # "copying"
    /\ Goto(t, "unwinding")
    /\ UNCHANGED <<ends, client, pairClosed, idled, shared>>

\* Mutant: release is called before closePair.
MutantUnwindPair(t) ==
    /\ pc[t] = "unwinding"
    /\ Untrack(t)
    /\ Goto(t, "unwound")
    /\ UNCHANGED <<ends, client, pairClosed, idled, runVars>>

\* The deferred calls, last one first: closePair, then release.
UnwindPair(t) ==
    /\ pc[t] = "unwinding"
    /\ ClosePair(t)
    /\ Goto(t, "unwound")
    /\ UNCHANGED <<ends, client, idled, shared>>

UnwindRegistration(t) ==
    /\ pc[t] = "unwound"
    /\ Untrack(t)
    /\ Goto(t, "returned")
    /\ UNCHANGED <<ends, client, pairClosed, idled, runVars>>

-----------------------------------------------------------------------------
(* The goroutines beside the handler *)

Relaying(t) == pc[t] \in {"relaying", "second"}

\* Reading from the client ends: with EOF, or with an error, as it must once
\* the pair is closed.
UpEnds(t) ==
    /\ up[t] = "copying"
    /\ \E r \in IF pairClosed[t] THEN {"err"} ELSE {"ok", "err"} :
           up' = [up EXCEPT ![t] = r]
    /\ UNCHANGED <<pc, down, client, pairClosed, idled, shared>>

DownEnds(t) ==
    /\ down[t] = "copying"
    /\ ~WriteBlocked(t)
    /\ \E r \in IF pairClosed[t] THEN {"err"} ELSE {"ok", "err"} :
           down' = [down EXCEPT ![t] = r]
    /\ UNCHANGED <<pc, up, client, pairClosed, idled, shared>>

\* Mutant: the timer only stops the handler's bookkeeping.
MutantIdleFires(t) ==
    /\ Relaying(t)
    /\ ~idled[t]
    /\ idled' = [idled EXCEPT ![t] = TRUE]
    /\ UNCHANGED <<pc, ends, client, pairClosed, shared>>

\* No byte was read from either side for tunnel_idle_timeout.
IdleFires(t) ==
    /\ Relaying(t)
    /\ ~idled[t]
    /\ idled' = [idled EXCEPT ![t] = TRUE]
    /\ ClosePair(t)
    /\ UNCHANGED <<pc, ends, client, shared>>

\* context.AfterFunc(r.Context(), closePair) of relayhttp2.
ContextCloses(t) ==
    /\ t \in http2
    /\ pc[t] \in {"tracked", "relaying", "second"}
    /\ gone[t]
    /\ ~pairClosed[t]
    /\ ClosePair(t)
    /\ UNCHANGED <<pc, ends, client, idled, shared>>

-----------------------------------------------------------------------------
(* Clients *)

Leave(t) ==
    /\ pc[t] \notin {"none", "returned", "aborted"}
    /\ ~gone[t]
    /\ gone' = [gone EXCEPT ![t] = TRUE]
    /\ UNCHANGED <<pc, ends, pairClosed, http2, stalled, idled, shared>>

\* The client stops reading, perhaps before it has read the 200.
Stall(t) ==
    /\ pc[t] = "tracked" \/ Relaying(t)
    /\ ~stalled[t]
    /\ stalled' = [stalled EXCEPT ![t] = TRUE]
    /\ UNCHANGED <<pc, ends, pairClosed, gone, http2, idled, shared>>

Resume(t) ==
    /\ stalled[t]
    /\ stalled' = [stalled EXCEPT ![t] = FALSE]
    /\ UNCHANGED <<pc, ends, pairClosed, gone, http2, idled, shared>>

-----------------------------------------------------------------------------
(* Run *)

\* ctx is cancelled by a signal, or Serve returns an error.
StopServing ==
    /\ main = "serving"
    /\ main' = "closeAll"
    /\ reason' \in {"signal", "serve error"}
    /\ UNCHANGED <<pairs, expired, failed, tunnelVars, registryVars>>

CloseAll ==
    /\ main = "closeAll"
    /\ StartClosing
    /\ pairs' = active
    /\ main' = "closing"
    /\ UNCHANGED <<reason, expired, failed, tunnelVars>>

\* One turn of closeAll's loop over the pairs it collected.
CloseNextPair ==
    /\ main = "closing"
    /\ \E t \in pairs : pairs' = pairs \ {t} /\ ClosePair(t)
    /\ UNCHANGED <<main, reason, expired, failed, pc, ends, client, idled,
                   registryVars>>

\* After a signal Run goes on to server.Shutdown, else straight to waitFor.
EndCloseAll ==
    /\ main = "closing"
    /\ pairs = {}
    /\ main' = IF reason = "signal" THEN "shutdown" ELSE "wait"
    /\ UNCHANGED <<reason, pairs, expired, failed, tunnelVars, registryVars>>

\* server.Shutdown(shutdownCtx) returns nil.
ShutdownDone ==
    /\ main = "shutdown"
    /\ \A t \in Tunnels : ~Served(t)
    /\ main' = "wait"
    /\ UNCHANGED <<reason, pairs, expired, failed, tunnelVars, registryVars>>

\* Mutant: server.Close() is not called.
MutantShutdownFails ==
    /\ main = "shutdown"
    /\ expired
    /\ failed' = failed \cup {"shutdown"}
    /\ main' = "wait"
    /\ UNCHANGED <<reason, pairs, expired, tunnelVars, registryVars>>

\* It returns an error, and server.Close() breaks what is left.
ShutdownFails ==
    /\ main = "shutdown"
    /\ expired
    /\ failed' = failed \cup {"shutdown"}
    /\ gone' = [t \in Tunnels |-> gone[t] \/ Served(t)]
    /\ main' = "wait"
    /\ UNCHANGED <<reason, pairs, expired, pc, ends, http2, pairClosed,
                   stalled, idled, registryVars>>

\* tunnels.waitFor(shutdownCtx): the select takes either case that is ready.
WaitDone ==
    /\ main = "wait"
    /\ wait = 0
    /\ main' = "returned"
    /\ UNCHANGED <<reason, pairs, expired, failed, tunnelVars, registryVars>>

\* Mutant: waitFor ignores its context.
MutantWaitExpires ==
    /\ main = "wait"
    /\ expired /\ wait = 0
    /\ failed' = failed \cup {"tunnels"}
    /\ main' = "returned"
    /\ UNCHANGED <<reason, pairs, expired, tunnelVars, registryVars>>

WaitExpires ==
    /\ main = "wait"
    /\ expired
    /\ failed' = failed \cup {"tunnels"}
    /\ main' = "returned"
    /\ UNCHANGED <<reason, pairs, expired, tunnelVars, registryVars>>

\* shutdown_timeout passes.  The timer starts before closeAll after a signal,
\* and after it when Serve failed.
Expire ==
    /\ \/ main \in {"shutdown", "wait"}
       \/ main \in {"closeAll", "closing"} /\ reason = "signal"
    /\ ~expired
    /\ expired' = TRUE
    /\ UNCHANGED <<main, reason, pairs, failed, tunnelVars, registryVars>>

-----------------------------------------------------------------------------

Handler(t) ==
    \/ EndSetup(t) \/ Hijack(t) \/ Register(t) \/ RegisterRefused(t)
    \/ Greet(t) \/ FirstResult(t) \/ SecondResult(t)
    \/ UnwindPair(t) \/ UnwindRegistration(t)

Copying(t) == UpEnds(t) \/ DownEnds(t)

Client(t) == Start(t) \/ Leave(t) \/ Stall(t) \/ Resume(t)

Run ==
    \/ CloseAll \/ CloseNextPair \/ EndCloseAll
    \/ ShutdownDone \/ ShutdownFails \/ WaitDone \/ WaitExpires

Next ==
    \/ \E t \in Tunnels :
           Handler(t) \/ Copying(t) \/ IdleFires(t) \/ ContextCloses(t) \/ Client(t)
    \/ StopServing \/ Run \/ Expire

Spec == Init /\ [][Next]_vars

\* The process' own goroutines run: Run, the handlers (dialConnect ends by its
\* timeout), the context callback and the timer of shutdownCtx.  A copying
\* goroutine is only obliged to end once the pair is closed: before that the
\* two sides may stay silent for as long as they like.
Fairness ==
    /\ WF_vars(Run) /\ WF_vars(Expire)
    /\ \A t \in Tunnels :
           /\ WF_vars(Handler(t))
           /\ WF_vars(ContextCloses(t))
           /\ WF_vars(pairClosed[t] /\ UpEnds(t))
           /\ WF_vars(pairClosed[t] /\ DownEnds(t))

FairSpec == Spec /\ Fairness

-----------------------------------------------------------------------------

Ends == {"none", "copying", "ok", "err"}

\* Every variable has its type; the WaitGroup counter is never negative.
TypeOK ==
    /\ closing \in BOOLEAN
    /\ active \subseteq Tunnels
    /\ wait \in Nat
    /\ main \in {"serving", "closeAll", "closing", "shutdown", "wait", "returned"}
    /\ reason \in {"none", "signal", "serve error"}
    /\ pairs \subseteq Tunnels
    /\ expired \in BOOLEAN
    /\ failed \subseteq {"shutdown", "tunnels"}
    /\ pc \in [Tunnels -> {"none", "setup", "connected", "untracked", "tracked",
                           "relaying", "second", "unwinding", "unwound",
                           "returned", "aborted"}]
    /\ up \in [Tunnels -> Ends] /\ down \in [Tunnels -> Ends]
    /\ http2 \subseteq Tunnels
    /\ pairClosed \in [Tunnels -> BOOLEAN] /\ gone \in [Tunnels -> BOOLEAN]
    /\ stalled \in [Tunnels -> BOOLEAN] /\ idled \in [Tunnels -> BOOLEAN]

\* The WaitGroup counts the registered tunnels, and these are the handlers
\* between track and release: waitFor waits for them and for nobody else.
WaitCountsTunnels ==
    /\ wait = Cardinality(active)
    /\ active = {t \in Tunnels : pc[t] \in {"tracked", "relaying", "second",
                                            "unwinding", "unwound"}}

\* A tunnel that is not registered any more has both its connections closed:
\* when waitFor is told that all are released, none of them is still open.
ReleasedTunnelsAreClosed ==
    \A t \in Tunnels \ active :
        pc[t] \in {"unwinding", "unwound", "returned"} => pairClosed[t]

\* When closeAll is over every registered tunnel is closed, also one that
\* registered while closeAll was running.
NoTunnelEscapesCloseAll ==
    main \in {"shutdown", "wait", "returned"} =>
        \A t \in active : pairClosed[t]

\* Nobody adds to the WaitGroup while Run waits on it.
NoAddDuringWait ==
    [][(main \in {"wait", "returned"}) => (wait' <= wait)]_vars

\* Run returns after a signal or an error of Serve, whatever the clients do.
RunReturns == (main = "closeAll") ~> (main = "returned")

\* After a signal every tunnel ends, also one whose client does not read.
TunnelsEndAfterSignal ==
    \A t \in Tunnels :
        (main = "closeAll" /\ reason = "signal")
            ~> (pc[t] \in {"none", "returned", "aborted"})

\* A tunnel that was idle for tunnel_idle_timeout ends, unless it is an HTTP/2
\* stream whose client does not read.
IdleTunnelsEndIfRead ==
    \A t \in Tunnels :
        idled[t] ~> (pc[t] = "returned" \/ (t \in http2 /\ stalled[t]))

\* README.md:192: a tunnel "closes after tunnel_idle_timeout without traffic".
IdleTunnelsEnd == \A t \in Tunnels : idled[t] ~> (pc[t] = "returned")
=============================================================================
