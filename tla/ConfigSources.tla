--------------------------- MODULE ConfigSources ---------------------------
(***************************************************************************)
(* internal/config and the start of Run: the configuration is put together *)
(* from the defaults, a YAML file, an env file and the environment of the  *)
(* process, and validated, before anything is served.                      *)
(*                                                                         *)
(* A variable is named without its prefix MUX_.  Numbers and durations (in *)
(* seconds) are integers, Malformed stands for a text that does not parse; *)
(* credentials are sequences of bytes, files are usable or not.            *)
(***************************************************************************)
EXTENDS Integers, Sequences, FiniteSets, TLC

CONSTANTS
    YamlFiles,     \* contents of the YAML file, or Absent
    EnvFiles,      \* lines of the env file, or Absent
    Environs,      \* MUX_ variables of the process
    ByteLimit,     \* longest text of a SOCKS credential, 255 in the code
    Malformed, Absent

VARIABLES
    stage,      \* "yaml", "env", "apply", "validate", "run", "serving" or "stopped"
    settings,   \* config.Config without its upstreams
    upstreams,  \* config.Config.Upstreams
    values,     \* what readEnvValues returned
    sources     \* history: what was read, until the server runs

configVars == <<stage, settings, upstreams, values, sources>>

StringNames ==
    {"SERVER_HOST", "SERVER_TLS_CERT_FILE", "SERVER_TLS_KEY_FILE",
     "AUTH_USERNAME", "AUTH_PASSWORD", "PROXY_ALGORITHM", "PROXY_NETWORK"}

BooleanNames ==
    {"SERVER_ALLOW_INSECURE_PUBLIC_HTTP",
     "SERVER_ALLOW_UNAUTHENTICATED_PUBLIC_PROXY", "AUTH_ENABLED"}

IntegerNames ==
    {"SERVER_PORT", "SERVER_MAX_CONNECTIONS", "SERVER_MAX_CONNECTIONS_PER_IP",
     "SERVER_MAX_HEADER_BYTES", "SERVER_HTTP2_MAX_CONCURRENT_STREAMS",
     "PROXY_TIMEOUT", "AUTH_MAX_FAILED_ATTEMPTS", "AUTH_MAX_TRACKED_IPS",
     "PROXY_MAX_IDLE_CONNS", "PROXY_MAX_IDLE_CONNS_PER_HOST",
     "PROXY_MAX_CONNS_PER_HOST", "PROXY_MAX_TUNNELS", "PROXY_MAX_TUNNELS_PER_IP"}

DurationNames ==
    {"SERVER_READ_HEADER_TIMEOUT", "SERVER_IDLE_TIMEOUT",
     "SERVER_SHUTDOWN_TIMEOUT", "SERVER_HTTP2_SEND_PING_TIMEOUT",
     "SERVER_HTTP2_PING_TIMEOUT", "SERVER_HTTP2_WRITE_BYTE_TIMEOUT",
     "PROXY_DIAL_TIMEOUT", "PROXY_DIAL_KEEP_ALIVE",
     "PROXY_TLS_HANDSHAKE_TIMEOUT", "PROXY_RESPONSE_HEADER_TIMEOUT",
     "PROXY_RESPONSE_BODY_IDLE_TIMEOUT", "PROXY_IDLE_CONN_TIMEOUT",
     "PROXY_EXPECT_CONTINUE_TIMEOUT", "PROXY_TUNNEL_IDLE_TIMEOUT",
     "PROXY_FAILOVER_COOLDOWN", "AUTH_FAILURE_WINDOW", "AUTH_BLOCK_DURATION"}

SettingNames == StringNames \cup BooleanNames \cup IntegerNames \cup DurationNames

-----------------------------------------------------------------------------
(* The sources *)

NoText == <<>>
NoFile == ""

Default ==
    [n \in SettingNames |->
        CASE n \in BooleanNames -> FALSE
          [] n \in {"AUTH_USERNAME", "AUTH_PASSWORD"} -> NoText
          [] n \in {"SERVER_TLS_CERT_FILE", "SERVER_TLS_KEY_FILE"} -> NoFile
          [] n = "SERVER_HOST" -> "127.0.0.1"
          [] n = "PROXY_ALGORITHM" -> "roundrobin"
          [] n = "PROXY_NETWORK" -> "auto"
          [] n = "SERVER_PORT" -> 8380
          [] n = "SERVER_MAX_CONNECTIONS" -> 1024
          [] n = "SERVER_MAX_HEADER_BYTES" -> 65536
          [] n = "AUTH_MAX_TRACKED_IPS" -> 4096
          [] n = "PROXY_MAX_IDLE_CONNS" -> 100
          [] n = "PROXY_MAX_TUNNELS" -> 256
          [] n = "AUTH_BLOCK_DURATION" -> 300
          [] n = "PROXY_IDLE_CONN_TIMEOUT" -> 90
          [] n = "PROXY_EXPECT_CONTINUE_TIMEOUT" -> 1
          [] n \in {"SERVER_MAX_CONNECTIONS_PER_IP", "PROXY_MAX_TUNNELS_PER_IP"} -> 128
          [] n \in {"SERVER_IDLE_TIMEOUT", "PROXY_RESPONSE_BODY_IDLE_TIMEOUT",
                    "PROXY_TUNNEL_IDLE_TIMEOUT"} -> 120
          [] n \in {"SERVER_HTTP2_SEND_PING_TIMEOUT", "AUTH_FAILURE_WINDOW"} -> 60
          [] n \in {"SERVER_READ_HEADER_TIMEOUT", "SERVER_SHUTDOWN_TIMEOUT",
                    "SERVER_HTTP2_PING_TIMEOUT"} -> 15
          [] n \in {"AUTH_MAX_FAILED_ATTEMPTS", "PROXY_MAX_IDLE_CONNS_PER_HOST",
                    "PROXY_DIAL_TIMEOUT", "PROXY_TLS_HANDSHAKE_TIMEOUT"} -> 10
          [] n \in {"PROXY_MAX_CONNS_PER_HOST",
                    "SERVER_HTTP2_MAX_CONCURRENT_STREAMS"} -> 0
          [] OTHER -> 30]

ConfigInit ==
    /\ stage = "yaml"
    /\ settings = Default
    /\ upstreams = <<>>
    /\ values = [n \in {} |-> 0]
    /\ sources = [yaml |-> Absent, env |-> Absent, environ |-> [n \in {} |-> 0]]

Stop == stage' = "stopped"

\* What new says, and else what old says.
Over(new, old) ==
    [n \in DOMAIN new \cup DOMAIN old |-> IF n \in DOMAIN new THEN new[n] ELSE old[n]]

\* The YAML file is merged over the defaults, or is missing, or stops the start
\* because it cannot be read or has a key or a value that is not known.
ReadYaml ==
    /\ stage = "yaml"
    /\ \E file \in YamlFiles :
         /\ sources' = [sources EXCEPT !.yaml = file]
         /\ IF file = Absent THEN stage' = "env" /\ UNCHANGED <<settings, upstreams>>
            ELSE IF file.broken THEN Stop /\ UNCHANGED <<settings, upstreams>>
            ELSE /\ stage' = "env"
                 /\ settings' = Over(file.settings, settings)
                 /\ upstreams' = file.upstreams
    /\ UNCHANGED values

\* A line is blank or a comment, invalid, an assignment of another program's
\* variable, or one of ours.
Ours(lines) == {i \in DOMAIN lines : lines[i].kind = "ours"}

BadEnvFile(lines) ==
    \/ \E i \in DOMAIN lines : lines[i].kind = "invalid"
    \/ \E i, j \in Ours(lines) : i # j /\ lines[i].name = lines[j].name

EnvFileValues(lines) ==
    [n \in {lines[i].name : i \in Ours(lines)} |->
        lines[CHOOSE i \in Ours(lines) : lines[i].name = n].value]

Merged(fromFile, environ) == Over(environ, fromFile)

\* readEnvValues.  Without any variable a missing YAML file is an error.
ReadEnv ==
    /\ stage = "env"
    /\ \E file \in EnvFiles, environ \in Environs :
         /\ sources' = [sources EXCEPT !.env = file, !.environ = environ]
         /\ LET lines == IF file = Absent THEN <<>> ELSE file
            IN  IF BadEnvFile(lines) THEN Stop /\ UNCHANGED values
                ELSE /\ values' = Merged(EnvFileValues(lines), environ)
                     /\ IF sources.yaml = Absent /\ DOMAIN values' = {} THEN Stop
                        ELSE stage' = "apply"
    /\ UNCHANGED <<settings, upstreams>>

-----------------------------------------------------------------------------
(* applyEnvOverrides *)

Suffixes == {"URL", "AUTH_USERNAME", "AUTH_PASSWORD", "TLS_CA_FILE", "AUTH_ENABLED"}

UpstreamVariable(i, suffix) == "UPSTREAM_" \o ToString(i) \o "_" \o suffix

\* The highest UPSTREAM_COUNT.
MaxCount == 1024

\* What parses has the type of its variable.
Typed(name, value) ==
    value # Malformed =>
        /\ name \in IntegerNames \cup DurationNames => value \in Int
        /\ \A i \in 1 .. MaxCount, s \in {"AUTH_USERNAME", "AUTH_PASSWORD"} :
               name = UpstreamVariable(i, s) => value \in Seq(Nat)

\* What the decoders of the three sources return.
ASSUME ConfigAssumption ==
    /\ \A file \in YamlFiles \ {Absent} : ~file.broken =>
         /\ \A n \in DOMAIN file.settings :
              file.settings[n] # Malformed /\ Typed(n, file.settings[n])
         /\ \A i \in DOMAIN file.upstreams :
              {file.upstreams[i].auth.username, file.upstreams[i].auth.password}
                  \subseteq Seq(Nat)
    /\ \A lines \in EnvFiles \ {Absent} :
         \A i \in Ours(lines) : Typed(lines[i].name, lines[i].value)
    /\ \A environ \in Environs :
         \A n \in DOMAIN environ : Typed(n, environ[n])

Count ==
    IF "UPSTREAM_COUNT" \in DOMAIN values THEN values["UPSTREAM_COUNT"] ELSE 0

Known ==
    SettingNames \cup {"PUBLISH_HOST", "PUBLISH_PORT", "UPSTREAM_COUNT"}
        \cup {UpstreamVariable(i, s) : i \in 1 .. Count, s \in Suffixes}

Given(name, otherwise) == IF name \in DOMAIN values THEN values[name] ELSE otherwise

\* Mutant: the upstreams of the YAML file are overridden one by one.
MutantUpstreamFromEnv(i) ==
    LET old == IF i \in DOMAIN upstreams THEN upstreams[i]
               ELSE [url |-> Absent, auth |-> [enabled |-> FALSE, username |-> NoText,
                                               password |-> NoText], ca |-> NoFile]
    IN  [url  |-> Given(UpstreamVariable(i, "URL"), old.url),
         auth |-> [enabled  |-> Given(UpstreamVariable(i, "AUTH_ENABLED"), old.auth.enabled),
                   username |-> Given(UpstreamVariable(i, "AUTH_USERNAME"), old.auth.username),
                   password |-> Given(UpstreamVariable(i, "AUTH_PASSWORD"), old.auth.password)],
         ca   |-> Given(UpstreamVariable(i, "TLS_CA_FILE"), old.ca)]

UpstreamFromEnv(i) ==
    [url  |-> Given(UpstreamVariable(i, "URL"), Absent),
     auth |-> [enabled  |-> Given(UpstreamVariable(i, "AUTH_ENABLED"), FALSE),
               username |-> Given(UpstreamVariable(i, "AUTH_USERNAME"), NoText),
               password |-> Given(UpstreamVariable(i, "AUTH_PASSWORD"), NoText)],
     ca   |-> Given(UpstreamVariable(i, "TLS_CA_FILE"), NoFile)]

\* Mutant: only the names of the process environment are checked.
MutantAcceptable ==
    /\ \A n \in DOMAIN values : values[n] # Malformed
    /\ Count \in 0 .. MaxCount
    /\ \A i \in 1 .. Count : Given(UpstreamVariable(i, "URL"), Absent) # Absent
    /\ DOMAIN sources.environ \subseteq Known

\* Every value of a known name parses, the count is in range, every upstream
\* has a URL, and no other name is set, be it in the environment or in the file.
Acceptable ==
    /\ \A n \in DOMAIN values : values[n] # Malformed
    /\ Count \in 0 .. MaxCount
    /\ \A i \in 1 .. Count : Given(UpstreamVariable(i, "URL"), Absent) # Absent
    /\ DOMAIN values \subseteq Known

ApplyEnv ==
    /\ stage = "apply"
    /\ IF ~Acceptable THEN Stop /\ UNCHANGED <<settings, upstreams>>
       ELSE /\ stage' = "validate"
            /\ settings' = [n \in SettingNames |-> Given(n, settings[n])]
            /\ upstreams' = IF "UPSTREAM_COUNT" \in DOMAIN values
                            THEN [i \in 1 .. Count |-> UpstreamFromEnv(i)]
                            ELSE upstreams
    /\ UNCHANGED <<values, sources>>

-----------------------------------------------------------------------------
(* Validate *)

Colon        == 3
HasColon(t)  == \E i \in DOMAIN t : t[i] = Colon
HasZero(t)   == \E i \in DOMAIN t : t[i] = 0
Demonstration == <<4, 4>>   \* the credentials of the example files

Local(host) == host \in {"127.0.0.1", "::1", "localhost"}

TLS == settings["SERVER_TLS_CERT_FILE"] # NoFile

NonNegative ==
    {"SERVER_HTTP2_SEND_PING_TIMEOUT", "SERVER_HTTP2_PING_TIMEOUT",
     "SERVER_HTTP2_WRITE_BYTE_TIMEOUT", "PROXY_EXPECT_CONTINUE_TIMEOUT",
     "PROXY_MAX_IDLE_CONNS", "PROXY_MAX_IDLE_CONNS_PER_HOST",
     "PROXY_MAX_CONNS_PER_HOST", "SERVER_HTTP2_MAX_CONCURRENT_STREAMS"}

\* Bounds of one value.
ValidValues ==
    /\ \A n \in IntegerNames \cup DurationNames :
         settings[n] >= IF n \in NonNegative THEN 0 ELSE 1
    /\ settings["SERVER_PORT"] <= 65535
    /\ settings["SERVER_MAX_HEADER_BYTES"] >= 1024
    /\ settings["SERVER_MAX_HEADER_BYTES"] <= 16 * 1024 * 1024
    /\ settings["AUTH_MAX_FAILED_ATTEMPTS"] <= 1000
    /\ settings["AUTH_MAX_TRACKED_IPS"] <= 65536
    /\ settings["PROXY_ALGORITHM"] \in {"roundrobin", "random"}
    /\ settings["PROXY_NETWORK"] \in {"auto", "tcp4", "tcp6"}

\* A limit per client within the limit for all.
ValidLimits ==
    /\ settings["SERVER_MAX_CONNECTIONS_PER_IP"] <= settings["SERVER_MAX_CONNECTIONS"]
    /\ settings["PROXY_MAX_TUNNELS_PER_IP"] <= settings["PROXY_MAX_TUNNELS"]
    /\ settings["SERVER_HTTP2_MAX_CONCURRENT_STREAMS"] <= settings["PROXY_MAX_TUNNELS"]
    /\ settings["SERVER_HTTP2_MAX_CONCURRENT_STREAMS"] <= settings["PROXY_MAX_TUNNELS_PER_IP"]

\* Stands for the hosts with a space, a slash or a line end.
NoHost == "no host"

\* Who may reach the listener, and how.
ValidExposure ==
    /\ settings["SERVER_HOST"] \notin {"", NoHost}
    /\ TLS <=> settings["SERVER_TLS_KEY_FILE"] # NoFile
    /\ \/ Local(settings["SERVER_HOST"]) \/ TLS
       \/ settings["SERVER_ALLOW_INSECURE_PUBLIC_HTTP"]
    /\ \/ Local(settings["SERVER_HOST"]) \/ settings["AUTH_ENABLED"]
       \/ settings["SERVER_ALLOW_UNAUTHENTICATED_PUBLIC_PROXY"]
    /\ settings["AUTH_ENABLED"] =>
         /\ {settings["AUTH_USERNAME"], settings["AUTH_PASSWORD"]}
                \cap {NoText, Demonstration} = {}
         /\ ~HasColon(settings["AUTH_USERNAME"])

\* Mutant: a SOCKS5 upstream may have a user without a password.
MutantValidCredentials(scheme, auth) ==
    /\ auth.username \notin {NoText, Demonstration}
    /\ auth.password # Demonstration
    /\ CASE scheme = "socks4" -> /\ auth.password = NoText
                                 /\ Len(auth.username) <= ByteLimit
                                 /\ ~HasZero(auth.username)
         [] scheme = "socks5" -> /\ Len(auth.username) <= ByteLimit
                                 /\ Len(auth.password) <= ByteLimit
         [] OTHER             -> auth.password # NoText /\ ~HasColon(auth.username)

\* The credentials of an upstream, by what its protocol can carry.
ValidCredentials(scheme, auth) ==
    /\ auth.username \notin {NoText, Demonstration}
    /\ auth.password # Demonstration
    /\ CASE scheme = "socks4" -> /\ auth.password = NoText
                                 /\ Len(auth.username) <= ByteLimit
                                 /\ ~HasZero(auth.username)
         [] scheme = "socks5" -> /\ auth.password # NoText
                                 /\ Len(auth.username) <= ByteLimit
                                 /\ Len(auth.password) <= ByteLimit
         [] OTHER             -> auth.password # NoText /\ ~HasColon(auth.username)

Ports == 1 .. 65535

\* UpstreamURL accepts a scheme, a host and a port; `bare` stands for the
\* absence of everything else and of the example host.
ValidURL(url) ==
    /\ url.scheme \in {"http", "https", "socks4", "socks5"}
    /\ url.bare
    /\ url.port = Absent \/ url.port \in Ports

ValidUpstream(u) ==
    /\ ValidURL(u.url)
    /\ u.auth.enabled => ValidCredentials(u.url.scheme, u.auth)
    /\ u.ca # NoFile => u.url.scheme = "https"

Valid ==
    /\ ValidValues /\ ValidLimits /\ ValidExposure
    /\ upstreams # <<>>
    /\ \A i \in DOMAIN upstreams : ValidUpstream(upstreams[i])

\* Certificate, key and CA files are read whenever the configuration is
\* validated, and may be unusable each time.
UsesFiles == TLS \/ \E i \in DOMAIN upstreams : upstreams[i].ca # NoFile

ValidateConfig ==
    /\ stage = "validate"
    /\ \/ Valid /\ stage' = "run"
       \/ (~Valid \/ UsesFiles) /\ Stop
    /\ UNCHANGED <<settings, upstreams, values, sources>>

-----------------------------------------------------------------------------
(* Run up to the first request *)

\* The settings of the listener and of the HTTP server.
EffectiveStreams ==
    LET limit(n) == settings[n]
    IN  IF limit("SERVER_HTTP2_MAX_CONCURRENT_STREAMS") > 0
        THEN limit("SERVER_HTTP2_MAX_CONCURRENT_STREAMS")
        ELSE IF limit("PROXY_MAX_TUNNELS") < limit("PROXY_MAX_TUNNELS_PER_IP")
             THEN limit("PROXY_MAX_TUNNELS") ELSE limit("PROXY_MAX_TUNNELS_PER_IP")

\* NewProxyServer validates again; the address may be taken.
Run ==
    /\ stage = "run"
    /\ \/ Valid /\ stage' = "serving"
       \/ Stop
    /\ values' = [n \in {} |-> 0]
    /\ sources' = [yaml |-> Absent, env |-> Absent, environ |-> [n \in {} |-> 0]]
    /\ UNCHANGED <<settings, upstreams>>

ConfigStep == ReadYaml \/ ReadEnv \/ ApplyEnv \/ ValidateConfig \/ Run

-----------------------------------------------------------------------------
(* Properties *)

Accepted == stage = "run"

InYaml(name) == sources.yaml # Absent /\ name \in DOMAIN sources.yaml.settings

\* The variables of the env file and of the process.
GivenNames ==
    DOMAIN sources.environ
        \cup IF sources.env = Absent THEN {}
             ELSE {sources.env[i].name : i \in Ours(sources.env)}

\* The environment of the process says so, or if it does not have the variable
\* the env file.
Said(name, value) ==
    IF name \in DOMAIN sources.environ THEN value = sources.environ[name]
    ELSE \E i \in Ours(sources.env) :
             sources.env[i].name = name /\ sources.env[i].value = value

Field(upstream, suffix) ==
    CASE suffix = "URL"           -> upstream.url
      [] suffix = "AUTH_USERNAME" -> upstream.auth.username
      [] suffix = "AUTH_PASSWORD" -> upstream.auth.password
      [] suffix = "AUTH_ENABLED"  -> upstream.auth.enabled
      [] OTHER                    -> upstream.ca

\* config.go:157 and README.md:91: "Process environment takes precedence over
\* .env, then YAML, then defaults", for each setting on its own.  A list of
\* upstreams has the length and the values that the variables say, each of them
\* from the one source or the other.
Precedence ==
    Accepted =>
        /\ \A n \in SettingNames :
             IF n \in GivenNames THEN Said(n, settings[n])
             ELSE settings[n] = IF InYaml(n) THEN sources.yaml.settings[n] ELSE Default[n]
        /\ "UPSTREAM_COUNT" \in GivenNames =>
             /\ Said("UPSTREAM_COUNT", Len(upstreams))
             /\ \A i \in DOMAIN upstreams, s \in Suffixes :
                  UpstreamVariable(i, s) \in GivenNames =>
                      Said(UpstreamVariable(i, s), Field(upstreams[i], s))

\* A variable without effect stops the start, whether the environment or the env
\* file has it: a misspelt name, an upstream beyond the count, upstreams without
\* a count (env.go:208, env_test.go:148).  PUBLISH_HOST and PUBLISH_PORT are for
\* Docker Compose and are let through.
NothingIsIgnored ==
    Accepted =>
        \A n \in GivenNames :
            \/ n \in SettingNames \cup {"PUBLISH_HOST", "PUBLISH_PORT", "UPSTREAM_COUNT"}
            \/ \E i \in DOMAIN upstreams, s \in Suffixes :
                   n = UpstreamVariable(i, s) /\ "UPSTREAM_COUNT" \in GivenNames

\* What is given takes effect, in the documented order, or the process says so.
SourcesTakeEffect == Precedence /\ NothingIsIgnored

\* The list of upstreams has one origin: credentials of the YAML file are never
\* sent to an upstream whose URL comes from a variable.
UpstreamsHaveOneOrigin ==
    Accepted =>
        LET n(i, s)    == UpstreamVariable(i, s)
            isGiven(v) == v \in GivenNames
        IN  IF isGiven("UPSTREAM_COUNT")
            THEN \A i \in DOMAIN upstreams :
                   /\ isGiven(n(i, "URL"))
                   /\ upstreams[i].auth.username # NoText => isGiven(n(i, "AUTH_USERNAME"))
                   /\ upstreams[i].auth.password # NoText => isGiven(n(i, "AUTH_PASSWORD"))
                   /\ upstreams[i].auth.enabled => isGiven(n(i, "AUTH_ENABLED"))
                   /\ upstreams[i].ca # NoFile => isGiven(n(i, "TLS_CA_FILE"))
            ELSE upstreams = sources.yaml.upstreams

\* Once it serves, after every merge, the limits are what the limiters and the
\* HTTP/2 server need: none is zero, none per client exceeds the one for all,
\* no connection may open more streams than tunnels.  A public listener has TLS
\* and authentication or was allowed to go without.
ServesWithinLimits ==
    stage = "serving" =>
        /\ settings["SERVER_MAX_CONNECTIONS_PER_IP"] \in 1 .. settings["SERVER_MAX_CONNECTIONS"]
        /\ settings["PROXY_MAX_TUNNELS_PER_IP"] \in 1 .. settings["PROXY_MAX_TUNNELS"]
        /\ EffectiveStreams \in 1 .. settings["PROXY_MAX_TUNNELS_PER_IP"]
        /\ settings["SERVER_HOST"] = "0.0.0.0" =>
             /\ \/ settings["SERVER_TLS_CERT_FILE"] # NoFile /\ settings["SERVER_TLS_KEY_FILE"] # NoFile
                \/ settings["SERVER_ALLOW_INSECURE_PUBLIC_HTTP"]
             /\ \/ settings["AUTH_ENABLED"] /\ settings["AUTH_PASSWORD"] # NoText
                \/ settings["SERVER_ALLOW_UNAUTHENTICATED_PUBLIC_PROXY"]
=============================================================================
