--------------------------- MODULE MCHTTPExchange ---------------------------
(***************************************************************************)
(* The values of HTTPExchange's constants for TLC.                         *)
(***************************************************************************)
EXTENDS HTTPExchange, TLC

\* Headers that list nothing, list each other, or list end-to-end fields.
MCRequestHeaders ==
    { ("Connection" :> {"Proxy-Connection", "X-A"}) @@ ("Proxy-Connection" :> {"X-B"})
        @@ [f \in {"X-A", "X-B", "X-C", "X-Forwarded-For", "Proxy-Authorization"} |-> {}],
      ("Proxy-Connection" :> {"X-A", "Connection"}) @@ ("Connection" :> {"X-B"})
        @@ [f \in {"X-A", "X-B", "X-C", "TE"} |-> {}] }

MCResponseHeaders ==
    { ("Connection" :> {"Connection", "X-A", "Absent"})
        @@ [f \in {"X-A", "X-B", "Keep-Alive", "Upgrade"} |-> {}],
      ("Proxy-Connection" :> {"X-B"}) @@ [f \in {"X-A", "X-B", "Trailer"} |-> {}] }
=============================================================================
