----------------------------- MODULE MCFailover -----------------------------
(***************************************************************************)
(* Instances of Failover for TLC.  Two concurrent requests are enough for  *)
(* every pair of shared accesses to interleave; the two upstreams make one *)
(* the alternate of the other.                                             *)
(***************************************************************************)
EXTENDS Failover

CONSTANTS r1, r2, c1, c2

Send(c, m, b, d) == [client |-> c, method |-> m, body |-> b, dest |-> d]

\* Forwarded requests, replayable and not, beside tunnels of two hosts.
MixedTraffic ==
    {Send(c1, "GET", "none", d) : d \in {"good", "badport"}}
    \cup {Send(c1, "GET", "some", "good"), Send(c1, "GET", "wrapped", "good"),
           Send(c1, "POST", "none", "good")}
    \cup {Send(c1, "CONNECT", "none", d) : d \in {"good", "invalid"}}
    \cup {Send(c2, "CONNECT", "none", "unsupported")}

\* A forwarded request whose port is out of range.
BadPortTraffic == {Send(c1, "GET", "none", "badport")}

\* One request of each kind, without its variants.
PlainTraffic == {Send(c1, "GET", "none", "good"), Send(c1, "CONNECT", "none", "good")}

MixedSchemes == [i \in Upstreams |-> IF i = 0 THEN "http" ELSE "socks4"]
=============================================================================
