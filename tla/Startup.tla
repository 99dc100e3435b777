------------------------------ MODULE Startup -------------------------------
(***************************************************************************)
(* A process from its start to the end of one connection to an upstream:   *)
(* ConfigSources puts the configuration together and validates it, and     *)
(* DialConnect uses one of the upstreams it contains.                      *)
(***************************************************************************)
EXTENDS ConfigSources, DialConnect

\* One limit of 255 bytes, in Validate and in the handshakes.
ASSUME StartupAssumption == ByteLimit = Byte - 1

vars == <<configVars, dialVars>>

Init == ConfigInit /\ DialInit

Load == ConfigStep /\ UNCHANGED dialVars

\* A request selects an upstream and needs a connection to it.
Connect ==
    /\ stage = "serving"
    /\ \E i \in DOMAIN upstreams, path \in {"CONNECT", "forward"} :
         Begin(path, [scheme |-> upstreams[i].url.scheme, auth |-> upstreams[i].auth],
               settings["PROXY_NETWORK"])
    /\ UNCHANGED configVars

SetUp == DialStep /\ UNCHANGED configVars

Next == Load \/ Connect \/ SetUp

Spec == Init /\ [][Next]_vars

\* The goroutine and the callback run; the upstream need not do anything.
FairSpec ==
    /\ Spec
    /\ WF_vars(Alone /\ UNCHANGED configVars)
    /\ WF_vars(Callback /\ UNCHANGED configVars)

\* What Validate accepts, the other components can work with, and what they use
\* is what was configured.  The limits are those the limiters and the HTTP/2
\* server need, and a public listener is protected.  No upstream fails each of
\* its connections because of its own settings.  Tunnels dial the network that
\* proxy.network selects (README.md:133; the transport of a SOCKS upstream dials
\* "tcp" whatever the setting: server.go:94 shadows the variable).
AcceptedSettingsHold ==
    /\ ServesWithinLimits
    /\ result # "config"
    /\ job # NoJob /\ job.path = "CONNECT" /\ dialed # "none" =>
           dialed = IF settings["PROXY_NETWORK"] = "auto" THEN "tcp"
                    ELSE settings["PROXY_NETWORK"]
=============================================================================
