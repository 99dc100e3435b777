------------------------------- MODULE Socks --------------------------------
(***************************************************************************)
(* The messages of internal/socks/socks.go: what DialContext rejects, what *)
(* connect4 and connect5 send, and how long the answers are.  A message is *)
(* a sequence of bytes.  Byte, 256 in the code, is a parameter so that TLC *)
(* can reach the limits of one length byte.                                *)
(*                                                                         *)
(* A destination is a record [kind, host, port].  Its host is a sequence   *)
(* of bytes: four of an "ip4" address (IPv4-mapped ones included, as       *)
(* net.IP.To4 has them), sixteen of an "ip6" address, or a "name".         *)
(***************************************************************************)
EXTENDS Integers, Sequences

CONSTANT Byte

ASSUME SocksAssumption == Byte \in Nat /\ Byte > 5

\* uint16, of which the wire has two bytes; writing them is big-endian.
MaxPort == Byte * Byte - 1
PortBytes(port) == <<port \div Byte, port % Byte>>

Contains(text, b) == \E i \in DOMAIN text : text[i] = b

NoRejection == "none"

\* Mutant: no bound on the length of a name.
MutantDestinationError(scheme, dest) ==
    IF dest.host = <<>> \/ dest.port \notin 1 .. MaxPort THEN "failed"
    ELSE IF \/ dest.kind = "name" /\ Contains(dest.host, 0)
            \/ dest.kind = "ip6" /\ scheme = "socks4" THEN "unsupported"
    ELSE NoRejection

\* The checks of DialContext before it dials.
DestinationError(scheme, dest) ==
    IF dest.host = <<>> \/ dest.port \notin 1 .. MaxPort THEN "failed"
    ELSE IF \/ dest.kind = "name" /\ (Contains(dest.host, 0) \/ Len(dest.host) > Byte - 1)
            \/ dest.kind = "ip6" /\ scheme = "socks4" THEN "unsupported"
    ELSE NoRejection

\* Addresses 0.0.0.x announce a SOCKS4a name.
Marker(host) == host[1] = 0 /\ host[2] = 0 /\ host[3] = 0 /\ host[4] # 0

\* What the handshake itself rejects before it writes.
HandshakeError(scheme, dest, auth) ==
    CASE scheme = "socks4" /\ auth.enabled
            /\ (Len(auth.username) > Byte - 1 \/ Contains(auth.username, 0)) -> "config"
      [] scheme = "socks4" /\ dest.kind = "ip4" /\ Marker(dest.host) -> "unsupported"
      [] scheme = "socks5" /\ auth.enabled
            /\ (Len(auth.username) \notin 1 .. Byte - 1
                \/ Len(auth.password) \notin 1 .. Byte - 1) -> "config"
      [] OTHER -> NoRejection

\* connect4: USERID and a SOCKS4a name end with a zero byte.
Request4(dest, auth) ==
    <<4, 1>> \o PortBytes(dest.port)
        \o (IF dest.kind = "ip4" THEN dest.host ELSE <<0, 0, 0, 1>>)
        \o (IF auth.enabled THEN auth.username ELSE <<>>) \o <<0>>
        \o (IF dest.kind = "name" THEN dest.host \o <<0>> ELSE <<>>)

\* connect5: the only method offered, the credentials, and the request.
Method(auth) == IF auth.enabled THEN 2 ELSE 0

LengthByte(text) == Len(text) % Byte

Login5(auth) ==
    <<1, LengthByte(auth.username)>> \o auth.username
        \o <<LengthByte(auth.password)>> \o auth.password

Request5(dest) ==
    <<5, 1, 0>>
        \o (CASE dest.kind = "ip4" -> <<1>> \o dest.host
              [] dest.kind = "ip6" -> <<4>> \o dest.host
              [] OTHER -> <<3, LengthByte(dest.host)>> \o dest.host)
        \o PortBytes(dest.port)

\* Bytes that connect5 discards after the four of the reply (and the length
\* byte, whose value is named): the bound address and its port.
AddressLength(atyp, named) ==
    (CASE atyp = 1 -> 4 [] atyp = 4 -> 16 [] OTHER -> named) + 2

-----------------------------------------------------------------------------
(* The other side: how a SOCKS server reads a request and frames its reply. *)

FirstZero(text) ==
    CHOOSE i \in DOMAIN text : text[i] = 0 /\ \A j \in 1 .. i - 1 : text[j] # 0

Understood4(request) ==
    LET address == SubSeq(request, 5, 8)
        rest    == SubSeq(request, 9, Len(request))
        user    == FirstZero(rest)
        after   == SubSeq(rest, user + 1, Len(rest))
        named   == Marker(address)
    IN  [kind |-> IF named THEN "name" ELSE "ip4",
         host |-> IF named THEN SubSeq(after, 1, FirstZero(after) - 1) ELSE address,
         port |-> request[3] * Byte + request[4],
         user |-> SubSeq(rest, 1, user - 1),
         tail |-> IF named THEN SubSeq(after, FirstZero(after) + 1, Len(after)) ELSE after]

Understood5(request) ==
    LET named == request[4] = 3
        first == IF named THEN 6 ELSE 5
        size  == CASE request[4] = 1 -> 4 [] request[4] = 4 -> 16 [] OTHER -> request[5]
    IN  [kind |-> CASE request[4] = 1 -> "ip4" [] request[4] = 4 -> "ip6" [] OTHER -> "name",
         host |-> SubSeq(request, first, first + size - 1),
         port |-> request[first + size] * Byte + request[first + size + 1],
         tail |-> SubSeq(request, first + size + 2, Len(request))]

\* The credentials (RFC 1929).
UnderstoodLogin(login) ==
    LET user  == login[2]
        after == SubSeq(login, 3 + user, Len(login))
    IN  [user     |-> SubSeq(login, 3, 2 + user),
         password |-> SubSeq(after, 2, 1 + after[1]),
         tail     |-> SubSeq(after, 2 + after[1], Len(after))]

\* The length of a SOCKS5 reply whose bound address has the type atyp.
Reply5Length(atyp, named) ==
    CASE atyp = 1 -> 10 [] atyp = 4 -> 22 [] OTHER -> 7 + named
=============================================================================
