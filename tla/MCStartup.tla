----------------------------- MODULE MCStartup ------------------------------
(***************************************************************************)
(* The values of Startup's constants for TLC.                              *)
(***************************************************************************)
EXTENDS Startup

Url(scheme)      == [scheme |-> scheme, bare |-> TRUE, port |-> Absent]
Anonymous        == [enabled |-> FALSE, username |-> NoText, password |-> NoText]
As(user, secret) == [enabled |-> TRUE, username |-> user, password |-> secret]
Proxy(scheme, auth) == [url |-> Url(scheme), auth |-> auth, ca |-> NoFile]

Long == <<1, 2, 1, 2, 1, 2, 1>>   \* as long as a length byte can say

\* No file; a broken one; one upstream of each protocol on a loopback address;
\* a public listener.
MCYamlFiles ==
    { Absent,
      [broken |-> TRUE],
      [broken |-> FALSE,
       settings |-> "PROXY_NETWORK" :> "tcp6" @@ "PROXY_MAX_TUNNELS" :> 64
                        @@ "PROXY_MAX_TUNNELS_PER_IP" :> 64,
       upstreams |-> << Proxy("socks5", As(<<1>>, <<0, 2>>)), Proxy("http", Anonymous) >>],
      [broken |-> FALSE,
       settings |-> "SERVER_HOST" :> "0.0.0.0" @@ "AUTH_ENABLED" :> TRUE
                        @@ "AUTH_USERNAME" :> <<1>> @@ "AUTH_PASSWORD" :> <<2, 3>>,
       upstreams |-> << [Proxy("https", As(<<1>>, <<2>>)) EXCEPT !.ca = "file"],
                        Proxy("socks4", As(Long, NoText)) >>] }

Line(name, value) == [kind |-> "ours", name |-> name, value |-> value]

\* No file; comments and other names; a setting; a name twice; a line that is no
\* assignment; a misspelt name; a list of one upstream; a list that is longer
\* than its count, and one without a count.
MCEnvFiles ==
    { Absent,
      << [kind |-> "other"], Line("SERVER_ALLOW_INSECURE_PUBLIC_HTTP", TRUE),
         Line("PROXY_NETWORK", "tcp4") >>,
      << Line("PROXY_NETWORK", "tcp4"), Line("PROXY_NETWORK", "tcp4") >>,
      << [kind |-> "invalid"] >>,
      << Line("PROXY_NETWROK", "tcp4") >>,
      << Line("UPSTREAM_COUNT", 1), Line("UPSTREAM_1_URL", Url("socks5")),
         Line("UPSTREAM_1_AUTH_ENABLED", TRUE),
         Line("UPSTREAM_1_AUTH_USERNAME", Long) >>,
      << Line("UPSTREAM_COUNT", 1), Line("UPSTREAM_1_URL", Url("http")),
         Line("UPSTREAM_2_URL", Url("http")) >>,
      << Line("UPSTREAM_1_URL", Url("http")) >> }

\* Nothing; a setting; a limit below the other one; a value that does not parse;
\* a misspelt name; no host; an upstream beyond the count, whether the count comes from
\* here, from the env file or from nowhere; a password for the env file's upstream;
\* a list of two, with TLS for the listener.
MCEnvirons ==
    { [n \in {} |-> 0],
      "PROXY_NETWORK" :> "auto" @@ "SERVER_HTTP2_MAX_CONCURRENT_STREAMS" :> 2,
      "PROXY_MAX_TUNNELS" :> 32,
      "AUTH_ENABLED" :> Malformed,
      "PROXY_NETWROK" :> "tcp4",
      "SERVER_HOST" :> NoHost,
      "UPSTREAM_2_URL" :> Url("http"),
      "UPSTREAM_1_AUTH_PASSWORD" :> <<2>>,
      "UPSTREAM_COUNT" :> 2 @@ "UPSTREAM_1_URL" :> Url("http")
        @@ "UPSTREAM_2_URL" :> Url("socks4")
        @@ "SERVER_TLS_CERT_FILE" :> "file" @@ "SERVER_TLS_KEY_FILE" :> "file" }

\* No name; names up to the length limit and beyond, with a zero byte, and like a user;
\* addresses of both versions and the mark of SOCKS4a; ports at their bounds.
To(kind, host, port) == [kind |-> kind, host |-> host, port |-> port]

MCDestinations ==
    { To("name", <<5>>, 9), To("name", <<>>, 9), To("name", Long, MaxPort), To("name", Long \o <<1>>, 1),
      To("name", <<5, 0, 5>>, 9), To("ip4", <<1, 2, 3, 4>>, 8),
      To("ip4", <<0, 0, 0, 1>>, 8), To("ip4", <<0, 0, 0, 0>>, 8),
      To("ip6", <<0, 0, 0, 0, 1, 0, 0, 0, 0, 0, 0, 0, 0, 0, 0, 1>>, 8),
      To("name", <<5>>, 0), To("name", <<5>>, MaxPort + 1) }
=============================================================================
