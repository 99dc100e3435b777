------------------------------ MODULE Headers -------------------------------
(***************************************************************************)
(* removeHopHeaders of internal/proxy/headers.go.  A header is a function  *)
(* from the names of its fields, in canonical form, to the names listed in *)
(* their values; only the values of Connection and Proxy-Connection are    *)
(* ever looked at.                                                         *)
(***************************************************************************)

HopHeaders ==
    {"Connection", "Keep-Alive", "Proxy-Authenticate", "Proxy-Authorization",
     "Proxy-Connection", "TE", "Trailer", "Transfer-Encoding", "Upgrade"}

\* header.Values(field), split at commas.
Listed(header, field) == IF field \in DOMAIN header THEN header[field] ELSE {}

\* header.Del of each name.
Without(header, names) == [f \in DOMAIN header \ names |-> header[f]]

\* One turn of the loop over the two fields.  The values are those the field
\* has when its turn comes; removing the field itself does not disturb them.
DropListed(header, field) == Without(header, Listed(header, field))

\* Mutant: the fixed fields go first, and with them the lists.
MutantRemoveHopHeaders(header) ==
    DropListed(DropListed(Without(header, HopHeaders), "Connection"),
               "Proxy-Connection")

RemoveHopHeaders(header) ==
    Without(DropListed(DropListed(header, "Connection"), "Proxy-Connection"),
            HopHeaders)

-----------------------------------------------------------------------------

\* What is left holds no field that concerns this connection only.
NoHopField(header, left) ==
    DOMAIN left \cap (HopHeaders \cup Listed(header, "Connection")) = {}

\* And every other field is left as it was.  A field listed only by
\* Proxy-Connection may stay when Connection lists Proxy-Connection.
KeepsEndToEnd(header, left) ==
    \A f \in DOMAIN header :
        f \in HopHeaders \cup Listed(header, "Connection")
                         \cup Listed(header, "Proxy-Connection")
        \/ (f \in DOMAIN left /\ left[f] = header[f])

\* Unless Connection lists Proxy-Connection, both lists are honoured.
HonoursBoth(header, left) ==
    "Proxy-Connection" \in Listed(header, "Connection")
    \/ DOMAIN left \cap Listed(header, "Proxy-Connection") = {}
=============================================================================
