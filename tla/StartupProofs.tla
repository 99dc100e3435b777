---------------------------- MODULE StartupProofs ---------------------------
(***************************************************************************)
(* Proofs about Startup, for every set of configuration sources and every  *)
(* size of buffers and messages.  The configuration part says, for each    *)
(* stage, what settings and upstreams are in terms of the sources that     *)
(* were read; the connection part relates the place of the goroutine, the  *)
(* callback and the context, and the bytes that are sent to what was asked *)
(* for.                                                                    *)
(***************************************************************************)
EXTENDS Startup, SequenceTheorems, TLAPS

-----------------------------------------------------------------------------
(* The configuration *)

Numbers == IntegerNames \cup DurationNames

\* What the defaults and the YAML file say.
FromYaml(n) == IF InYaml(n) THEN sources.yaml.settings[n] ELSE Default[n]

YamlUpstreams == IF sources.yaml = Absent THEN <<>> ELSE sources.yaml.upstreams

EnvLines == IF sources.env = Absent THEN <<>> ELSE sources.env

YamlRead ==
    stage \in {"env", "apply"} =>
        /\ \A n \in SettingNames : settings[n] = FromYaml(n)
        /\ upstreams = YamlUpstreams

VariablesRead ==
    stage \in {"apply", "validate", "run"} =>
        /\ sources.env \in EnvFiles /\ sources.environ \in Environs
        /\ values = Merged(EnvFileValues(EnvLines), sources.environ)

VariablesApplied ==
    stage \in {"validate", "run"} =>
        /\ Acceptable
        /\ \A n \in SettingNames : settings[n] = Given(n, FromYaml(n))
        /\ upstreams = IF "UPSTREAM_COUNT" \in DOMAIN values
                       THEN [i \in 1 .. Count |-> UpstreamFromEnv(i)]
                       ELSE YamlUpstreams

ConfigTyped ==
    /\ stage \in {"yaml", "env", "apply", "validate", "run", "serving", "stopped"}
    /\ sources = [yaml |-> sources.yaml, env |-> sources.env,
                  environ |-> sources.environ]
    /\ stage = "yaml" => settings = Default /\ upstreams = <<>>
    /\ \A n \in Numbers : settings[n] \in Int
    /\ \A i \in DOMAIN upstreams :
         {upstreams[i].auth.username, upstreams[i].auth.password} \subseteq Seq(Nat)

ConfigInv ==
    /\ ConfigTyped /\ YamlRead /\ VariablesRead /\ VariablesApplied
    /\ stage \in {"run", "serving"} => Valid

LEMMA DefaultNumbers ==
    ASSUME NEW n \in Numbers
    PROVE  Default[n] \in Int
<1>1. n \in SettingNames
  BY DEF Numbers, SettingNames
<1>2. /\ n \notin BooleanNames
      /\ n \notin {"AUTH_USERNAME", "AUTH_PASSWORD"}
      /\ n \notin {"SERVER_TLS_CERT_FILE", "SERVER_TLS_KEY_FILE"}
      /\ n # "SERVER_HOST" /\ n # "PROXY_ALGORITHM" /\ n # "PROXY_NETWORK"
  BY DEF Numbers, IntegerNames, DurationNames, BooleanNames
<1> QED
  BY <1>1, <1>2 DEF Default

LEMMA NumbersAreSettings == Numbers \subseteq SettingNames
  BY DEF Numbers, SettingNames

LEMMA NumberTyped ==
    ASSUME NEW n \in Numbers, NEW value, value # Malformed, Typed(n, value)
    PROVE  value \in Int
  BY DEF Typed, Numbers

LEMMA ConfigStart == ConfigInit => ConfigInv
<1> SUFFICES ASSUME ConfigInit PROVE ConfigInv
  OBVIOUS
<1> USE DEF ConfigInit
<1>1. DOMAIN upstreams = {}
  OBVIOUS
<1>2. ConfigTyped
  BY <1>1, DefaultNumbers DEF ConfigTyped
<1> QED
  BY <1>2 DEF ConfigInv, YamlRead, VariablesRead, VariablesApplied

LEMMA ReadYamlKeeps ==
    ASSUME ConfigInv, ReadYaml
    PROVE  ConfigInv'
<1> USE DEF ReadYaml, Stop
<1>0. /\ stage = "yaml" /\ settings = Default /\ upstreams = <<>> /\ ConfigTyped
      /\ sources = [yaml |-> sources.yaml, env |-> sources.env,
                    environ |-> sources.environ]
  BY DEF ConfigInv, ConfigTyped
<1>1. PICK file \in YamlFiles :
         /\ sources' = [sources EXCEPT !.yaml = file]
         /\ IF file = Absent THEN stage' = "env" /\ UNCHANGED <<settings, upstreams>>
            ELSE IF file.broken THEN Stop /\ UNCHANGED <<settings, upstreams>>
            ELSE /\ stage' = "env"
                 /\ settings' = Over(file.settings, settings)
                 /\ upstreams' = file.upstreams
  OBVIOUS
<1>2. /\ sources'.yaml = file
      /\ sources' = [yaml |-> sources'.yaml, env |-> sources'.env,
                     environ |-> sources'.environ]
      /\ stage' \in {"env", "stopped"}
  BY <1>0, <1>1
<1>3. CASE stage' = "stopped" \/ file = Absent
  <2>1. settings' = Default /\ upstreams' = <<>>
    BY <1>0, <1>1, <1>3
  <2>2. ConfigTyped'
    BY <1>2, <2>1, DefaultNumbers DEF ConfigTyped
  <2>3. YamlRead'
    <3>1. CASE stage' = "stopped"
      BY <3>1 DEF YamlRead
    <3>2. CASE file = Absent
      BY <3>2, <1>2, <2>1 DEF YamlRead, FromYaml, InYaml, YamlUpstreams
    <3> QED
      BY <1>3, <3>1, <3>2
  <2> QED
    BY <1>2, <2>2, <2>3 DEF ConfigInv, VariablesRead, VariablesApplied
<1>4. CASE stage' # "stopped" /\ file # Absent
  <2>1. /\ ~file.broken /\ stage' = "env" /\ upstreams' = file.upstreams
        /\ settings' = Over(file.settings, Default)
    BY <1>0, <1>1, <1>4
  <2>2. /\ \A n \in DOMAIN file.settings :
               file.settings[n] # Malformed /\ Typed(n, file.settings[n])
        /\ \A i \in DOMAIN file.upstreams :
               {file.upstreams[i].auth.username, file.upstreams[i].auth.password}
                   \subseteq Seq(Nat)
    BY <1>4, <2>1, ConfigAssumption
  <2>3. \A n \in SettingNames :
           settings'[n] = IF n \in DOMAIN file.settings THEN file.settings[n]
                          ELSE Default[n]
    <3>1. DOMAIN Default = SettingNames
      BY DEF Default
    <3> QED
      BY <2>1, <3>1 DEF Over
  <2>4. \A n \in Numbers : settings'[n] \in Int
    <3> SUFFICES ASSUME NEW n \in Numbers PROVE settings'[n] \in Int
      OBVIOUS
    <3>1. n \in SettingNames
      BY NumbersAreSettings
    <3>2. CASE n \in DOMAIN file.settings
      <4>1. file.settings[n] # Malformed /\ Typed(n, file.settings[n])
        BY <2>2, <3>2
      <4> QED
        BY <2>3, <3>1, <3>2, <4>1, NumberTyped
    <3>3. CASE n \notin DOMAIN file.settings
      BY <2>3, <3>1, <3>3, DefaultNumbers
    <3> QED
      BY <3>2, <3>3
  <2>5. ConfigTyped'
    BY <1>2, <2>1, <2>2, <2>4 DEF ConfigTyped
  <2>6. YamlRead'
    BY <1>2, <1>4, <2>1, <2>3 DEF YamlRead, FromYaml, InYaml, YamlUpstreams
  <2> QED
    BY <1>2, <2>5, <2>6 DEF ConfigInv, VariablesRead, VariablesApplied
<1> QED
  BY <1>3, <1>4

LEMMA ReadEnvKeeps ==
    ASSUME ConfigInv, ReadEnv
    PROVE  ConfigInv'
<1> USE DEF ReadEnv, Stop
<1>0. /\ stage = "env" /\ ConfigTyped /\ YamlRead
      /\ sources = [yaml |-> sources.yaml, env |-> sources.env,
                    environ |-> sources.environ]
      /\ settings' = settings /\ upstreams' = upstreams
  BY DEF ConfigInv, ConfigTyped
<1>1. PICK file \in EnvFiles, environ \in Environs :
         /\ sources' = [sources EXCEPT !.env = file, !.environ = environ]
         /\ LET lines == IF file = Absent THEN <<>> ELSE file
            IN  IF BadEnvFile(lines) THEN Stop /\ UNCHANGED values
                ELSE /\ values' = Merged(EnvFileValues(lines), environ)
                     /\ IF sources.yaml = Absent /\ DOMAIN values' = {} THEN Stop
                        ELSE stage' = "apply"
  OBVIOUS
<1>2. /\ sources'.yaml = sources.yaml /\ sources'.env = file
      /\ sources'.environ = environ
      /\ sources' = [yaml |-> sources'.yaml, env |-> sources'.env,
                     environ |-> sources'.environ]
  BY <1>0, <1>1
<1>3. /\ stage' \in {"stopped", "apply"}
      /\ stage' = "apply" => values' = Merged(EnvFileValues(EnvLines'), environ)
  BY <1>1, <1>2 DEF EnvLines
<1>4. ConfigTyped'
  BY <1>0, <1>2, <1>3 DEF ConfigTyped
<1>5. YamlRead'
  BY <1>0, <1>2, <1>3 DEF YamlRead, FromYaml, InYaml, YamlUpstreams
<1>6. VariablesRead'
  BY <1>2, <1>3 DEF VariablesRead
<1> QED
  BY <1>3, <1>4, <1>5, <1>6 DEF ConfigInv, VariablesApplied

\* A value that was read and parses has the type of its name.
LEMMA ValuesTyped ==
    ASSUME VariablesRead, stage = "apply", NEW n \in DOMAIN values,
           values[n] # Malformed
    PROVE  Typed(n, values[n])
<1>1. /\ sources.env \in EnvFiles /\ sources.environ \in Environs
      /\ values = Over(sources.environ, EnvFileValues(EnvLines))
  BY DEF VariablesRead, Merged
<1>2. CASE n \in DOMAIN sources.environ
  <2>1. values[n] = sources.environ[n]
    BY <1>1, <1>2 DEF Over
  <2> QED
    BY <1>1, <1>2, <2>1, ConfigAssumption
<1>3. CASE n \notin DOMAIN sources.environ
  <2>1. n \in DOMAIN EnvFileValues(EnvLines) /\ values[n] = EnvFileValues(EnvLines)[n]
    BY <1>1, <1>3 DEF Over
  <2>2. PICK i \in Ours(EnvLines) : EnvLines[i].name = n /\ values[n] = EnvLines[i].value
    BY <2>1 DEF EnvFileValues
  <2>3. sources.env # Absent /\ EnvLines = sources.env
    BY <2>2 DEF EnvLines, Ours
  <2>4. Typed(EnvLines[i].name, EnvLines[i].value)
    BY <1>1, <2>2, <2>3, ConfigAssumption
  <2> QED
    BY <2>2, <2>4
<1> QED
  BY <1>2, <1>3

\* The variable of the user name or of the password of an upstream.
CredentialVariable(name) ==
    \E i \in 1 .. MaxCount, s \in {"AUTH_USERNAME", "AUTH_PASSWORD"} :
        name = UpstreamVariable(i, s)

LEMMA UpstreamCredential ==
    ASSUME NEW i \in 1 .. MaxCount, NEW s \in {"AUTH_USERNAME", "AUTH_PASSWORD"}
    PROVE  CredentialVariable(UpstreamVariable(i, s))
<1> SUFFICES \E j \in 1 .. MaxCount, q \in {"AUTH_USERNAME", "AUTH_PASSWORD"} :
                UpstreamVariable(i, s) = UpstreamVariable(j, q)
  BY DEF CredentialVariable
<1> WITNESS i \in 1 .. MaxCount, s \in {"AUTH_USERNAME", "AUTH_PASSWORD"}
<1> QED
  OBVIOUS

LEMMA CredentialTyped ==
    ASSUME NEW name, CredentialVariable(name),
           NEW value, value # Malformed, Typed(name, value)
    PROVE  value \in Seq(Nat)
  BY DEF CredentialVariable, Typed

LEMMA ApplyEnvKeeps ==
    ASSUME ConfigInv, ApplyEnv
    PROVE  ConfigInv'
<1>0. /\ stage = "apply" /\ ConfigTyped /\ YamlRead /\ VariablesRead
      /\ values' = values /\ sources' = sources
      /\ stage' \in {"stopped", "validate"}
  BY DEF ConfigInv, ApplyEnv, Stop
<1>1. VariablesRead'
  BY <1>0 DEF VariablesRead, EnvLines
<1>2. CASE ~Acceptable
  <2>1. stage' = "stopped" /\ settings' = settings /\ upstreams' = upstreams
    BY <1>2 DEF ApplyEnv, Stop
  <2>2. ConfigTyped'
    BY <1>0, <2>1 DEF ConfigTyped
  <2> QED
    BY <1>1, <2>1, <2>2 DEF ConfigInv, YamlRead, VariablesApplied
<1>3. CASE Acceptable
  <2>1. /\ stage' = "validate"
        /\ settings' = [n \in SettingNames |-> Given(n, settings[n])]
        /\ upstreams' = IF "UPSTREAM_COUNT" \in DOMAIN values
                        THEN [i \in 1 .. Count |-> UpstreamFromEnv(i)]
                        ELSE upstreams
    BY <1>3 DEF ApplyEnv
  <2>2. Count \in 0 .. MaxCount /\ \A n \in DOMAIN values : values[n] # Malformed
    BY <1>3 DEF Acceptable
  <2>3. \A n \in Numbers : settings'[n] \in Int
    <3> SUFFICES ASSUME NEW n \in Numbers PROVE settings'[n] \in Int
      OBVIOUS
    <3>1. settings'[n] = Given(n, settings[n]) /\ settings[n] \in Int
      BY <1>0, <2>1, NumbersAreSettings DEF ConfigTyped
    <3>2. n \in DOMAIN values => values[n] \in Int
      <4> SUFFICES ASSUME n \in DOMAIN values PROVE values[n] \in Int
        OBVIOUS
      <4>1. values[n] # Malformed
        BY <2>2
      <4>2. Typed(n, values[n])
        BY <1>0, <4>1, ValuesTyped
      <4> QED
        BY <4>1, <4>2, NumberTyped
    <3> QED
      BY <3>1, <3>2 DEF Given
  <2>4. \A i \in DOMAIN upstreams' :
           {upstreams'[i].auth.username, upstreams'[i].auth.password} \subseteq Seq(Nat)
    <3>1. CASE "UPSTREAM_COUNT" \in DOMAIN values
      <4> SUFFICES ASSUME NEW i \in 1 .. Count
                   PROVE  {UpstreamFromEnv(i).auth.username,
                           UpstreamFromEnv(i).auth.password} \subseteq Seq(Nat)
        BY <2>1, <3>1
      <4>1. ASSUME NEW s \in {"AUTH_USERNAME", "AUTH_PASSWORD"}
            PROVE  Given(UpstreamVariable(i, s), NoText) \in Seq(Nat)
        <5>1. i \in 1 .. MaxCount
          BY <2>2 DEF MaxCount
        <5>2. CASE UpstreamVariable(i, s) \in DOMAIN values
          <6>1. Typed(UpstreamVariable(i, s), values[UpstreamVariable(i, s)])
            BY <1>0, <2>2, <5>2, ValuesTyped
          <6>2. values[UpstreamVariable(i, s)] # Malformed
            BY <2>2, <5>2
          <6>3. values[UpstreamVariable(i, s)] \in Seq(Nat)
            BY <5>1, <6>1, <6>2, UpstreamCredential, CredentialTyped
          <6> QED
            BY <5>2, <6>3 DEF Given
        <5>3. CASE UpstreamVariable(i, s) \notin DOMAIN values
          BY <5>3 DEF Given, NoText
        <5> QED
          BY <5>2, <5>3
      <4> QED
        BY <4>1 DEF UpstreamFromEnv
    <3>2. CASE "UPSTREAM_COUNT" \notin DOMAIN values
      BY <1>0, <2>1, <3>2 DEF ConfigTyped
    <3> QED
      BY <3>1, <3>2
  <2>5. ConfigTyped'
    BY <1>0, <2>1, <2>3, <2>4 DEF ConfigTyped
  <2>6. VariablesApplied'
    <3>1. Acceptable' /\ Count' = Count
      BY <1>0, <1>3 DEF Acceptable, Count, Known, Given
    <3>2. \A n \in SettingNames : settings'[n] = Given(n, FromYaml(n))'
      BY <1>0, <2>1 DEF YamlRead, FromYaml, InYaml, Given
    <3>3. \A i : UpstreamFromEnv(i)' = UpstreamFromEnv(i)
      BY <1>0 DEF UpstreamFromEnv, Given
    <3>4. upstreams' = IF "UPSTREAM_COUNT" \in DOMAIN values'
                       THEN [i \in 1 .. Count' |-> UpstreamFromEnv(i)']
                       ELSE YamlUpstreams'
      BY <1>0, <2>1, <3>1, <3>3 DEF YamlRead, YamlUpstreams
    <3> QED
      BY <3>1, <3>2, <3>4 DEF VariablesApplied
  <2> QED
    BY <1>1, <2>1, <2>5, <2>6 DEF ConfigInv, YamlRead
<1> QED
  BY <1>2, <1>3

\* Valid and what was applied only depend on what is left alone.
LEMMA SameValid ==
    ASSUME settings' = settings, upstreams' = upstreams, Valid
    PROVE  Valid'
<1>1. ValidValues'
  BY DEF Valid, ValidValues
<1>2. ValidLimits'
  BY DEF Valid, ValidLimits
<1>3. ValidExposure'
  BY DEF Valid, ValidExposure, TLS, Local, HasColon
<1>4. (\A i \in DOMAIN upstreams : ValidUpstream(upstreams[i]))'
  BY DEF Valid
<1> QED
  BY <1>1, <1>2, <1>3, <1>4 DEF Valid

LEMMA SameVariables ==
    ASSUME stage' = "run" => stage \in {"validate", "run"},
           stage' = "validate" => stage = "validate",
           stage' = "apply" => stage = "apply",
           UNCHANGED <<settings, upstreams, values, sources>>,
           VariablesRead, VariablesApplied
    PROVE  VariablesRead' /\ VariablesApplied'
<1>1. EnvLines' = EnvLines
  BY DEF EnvLines
<1>2. VariablesRead'
  BY <1>1 DEF VariablesRead
<1>3. Count' = Count /\ Known' = Known
  BY DEF Known, Count
<1>4. Acceptable' = Acceptable
  BY <1>3 DEF Acceptable, Given
<1>5. ASSUME NEW n PROVE Given(n, FromYaml(n))' = Given(n, FromYaml(n))
  BY DEF Given, FromYaml, InYaml
<1>6. ASSUME NEW i PROVE UpstreamFromEnv(i)' = UpstreamFromEnv(i)
  BY DEF UpstreamFromEnv, Given
<1>7. YamlUpstreams' = YamlUpstreams
  BY DEF YamlUpstreams
<1>8. VariablesApplied'
  BY <1>3, <1>4, <1>5, <1>6, <1>7 DEF VariablesApplied
<1> QED
  BY <1>2, <1>8

\* Validation and the start of the server leave the settings alone.
LEMMA ServingKeeps ==
    ASSUME ConfigInv, ValidateConfig \/ Run
    PROVE  ConfigInv'
<1>0. /\ settings' = settings /\ upstreams' = upstreams
      /\ stage \in {"validate", "run"} /\ stage' \in {"run", "serving", "stopped"}
      /\ stage' \in {"run", "serving"} => Valid
      /\ stage' = "run" => stage = "validate" /\ values' = values /\ sources' = sources
      /\ sources' = [yaml |-> sources'.yaml, env |-> sources'.env,
                     environ |-> sources'.environ]
  BY DEF ValidateConfig, Run, Stop, ConfigInv, ConfigTyped
<1>1. ConfigTyped'
  BY <1>0 DEF ConfigInv, ConfigTyped
<1>2. Valid => Valid'
  BY <1>0, SameValid
<1>3. stage' = "run" => VariablesRead' /\ VariablesApplied'
  BY <1>0, SameVariables DEF ConfigInv
<1> QED
  BY <1>0, <1>1, <1>2, <1>3
     DEF ConfigInv, YamlRead, VariablesRead, VariablesApplied

LEMMA ConfigKept ==
    ASSUME ConfigInv, ConfigStep \/ UNCHANGED configVars
    PROVE  ConfigInv'
<1>1. CASE ConfigStep
  BY <1>1, ReadYamlKeeps, ReadEnvKeeps, ApplyEnvKeeps, ServingKeeps DEF ConfigStep
<1>2. CASE UNCHANGED configVars
  <2>0. UNCHANGED <<stage, settings, upstreams, values, sources>>
    BY <1>2 DEF configVars
  <2>1. ConfigTyped'
    BY <2>0 DEF ConfigInv, ConfigTyped
  <2>2. YamlRead'
    BY <2>0 DEF ConfigInv, YamlRead, FromYaml, InYaml, YamlUpstreams
  <2>3. VariablesRead' /\ VariablesApplied'
    BY <2>0, SameVariables DEF ConfigInv
  <2>4. Valid => Valid'
    BY <2>0, SameValid
  <2> QED
    BY <2>0, <2>1, <2>2, <2>3, <2>4 DEF ConfigInv
<1> QED
  BY <1>1, <1>2

\* What was read, by its origin.
LEMMA Origins ==
    ASSUME VariablesRead, stage = "run"
    PROVE  /\ DOMAIN values = GivenNames
           /\ \A n \in GivenNames : Said(n, values[n])
<1>1. values = Over(sources.environ, EnvFileValues(EnvLines))
  BY DEF VariablesRead, Merged
<1> DEFINE names == {EnvLines[i].name : i \in Ours(EnvLines)}
<1>2. DOMAIN EnvFileValues(EnvLines) = names
  BY DEF EnvFileValues
<1>3. names = IF sources.env = Absent THEN {}
              ELSE {sources.env[i].name : i \in Ours(sources.env)}
  BY DEF EnvLines, Ours
<1>4. DOMAIN values = GivenNames
  BY <1>1, <1>2, <1>3 DEF Over, GivenNames
<1>5. ASSUME NEW n \in GivenNames PROVE Said(n, values[n])
  <2>1. CASE n \in DOMAIN sources.environ
    BY <1>1, <2>1 DEF Over, Said
  <2>2. CASE n \notin DOMAIN sources.environ
    <3>1. n \in names /\ sources.env # Absent
      BY <1>3, <2>2 DEF GivenNames
    <3>2. EnvLines = sources.env
      BY <3>1 DEF EnvLines
    <3>3. values[n] = EnvFileValues(sources.env)[n]
      BY <1>1, <1>2, <2>2, <3>1, <3>2 DEF Over
    <3> DEFINE k == CHOOSE i \in Ours(sources.env) : sources.env[i].name = n
    <3>4. k \in Ours(sources.env) /\ sources.env[k].name = n
      BY <3>1, <3>2
    <3>5. EnvFileValues(sources.env)[n] = sources.env[k].value
      BY <3>1, <3>2 DEF EnvFileValues
    <3> QED
      BY <2>2, <3>3, <3>4, <3>5 DEF Said
  <2> QED
    BY <2>1, <2>2
<1> QED
  BY <1>4, <1>5

\* A field of an upstream that a variable gives is what the variable says.
LEMMA FieldSaid ==
    ASSUME VariablesRead, stage = "run", NEW i, NEW s \in Suffixes,
           UpstreamVariable(i, s) \in GivenNames
    PROVE  Said(UpstreamVariable(i, s), Field(UpstreamFromEnv(i), s))
<1> DEFINE v(q) == UpstreamVariable(i, q)
           url      == Given(v("URL"), Absent)
           enabled  == Given(v("AUTH_ENABLED"), FALSE)
           username == Given(v("AUTH_USERNAME"), NoText)
           password == Given(v("AUTH_PASSWORD"), NoText)
           ca       == Given(v("TLS_CA_FILE"), NoFile)
<1>1. UpstreamFromEnv(i) =
        [url |-> url, ca |-> ca,
         auth |-> [enabled |-> enabled, username |-> username, password |-> password]]
  BY DEF UpstreamFromEnv
<1>2. /\ v(s) \in DOMAIN values
      /\ Said(v(s), values[v(s)])
  BY Origins
<1>3. /\ s = "URL" => url = values[v(s)]
      /\ s = "AUTH_ENABLED" => enabled = values[v(s)]
      /\ s = "AUTH_USERNAME" => username = values[v(s)]
      /\ s = "AUTH_PASSWORD" => password = values[v(s)]
      /\ s = "TLS_CA_FILE" => ca = values[v(s)]
  BY <1>2 DEF Given
<1> HIDE DEF url, enabled, username, password, ca
<1>4. Field(UpstreamFromEnv(i), s) =
        CASE s = "URL" -> url [] s = "AUTH_USERNAME" -> username
          [] s = "AUTH_PASSWORD" -> password [] s = "AUTH_ENABLED" -> enabled
          [] OTHER -> ca
  BY <1>1 DEF Field
<1>5. Field(UpstreamFromEnv(i), s) = values[v(s)]
  BY <1>3, <1>4 DEF Suffixes
<1> QED
  BY <1>2, <1>5

LEMMA EffectOfSources == ConfigInv => SourcesTakeEffect
<1> SUFFICES ASSUME ConfigInv, stage = "run" PROVE SourcesTakeEffect
  BY DEF SourcesTakeEffect, Precedence, NothingIsIgnored, Accepted
<1>0. VariablesRead /\ VariablesApplied
  BY DEF ConfigInv
<1>1. /\ Acceptable
      /\ \A n \in SettingNames : settings[n] = Given(n, FromYaml(n))
      /\ upstreams = IF "UPSTREAM_COUNT" \in DOMAIN values
                     THEN [i \in 1 .. Count |-> UpstreamFromEnv(i)]
                     ELSE YamlUpstreams
  BY <1>0 DEF VariablesApplied
<1>2. /\ DOMAIN values = GivenNames
      /\ \A n \in GivenNames : Said(n, values[n])
  BY <1>0, Origins
<1>3. ASSUME "UPSTREAM_COUNT" \in GivenNames
      PROVE  /\ Count = values["UPSTREAM_COUNT"] /\ Count \in Nat
             /\ upstreams = [i \in 1 .. Count |-> UpstreamFromEnv(i)]
  <2>1. Count \in Nat
    BY <1>1 DEF Acceptable, MaxCount
  <2> QED
    BY <1>1, <1>2, <1>3, <2>1 DEF Count
<1>4. Precedence
  <2>1. ASSUME NEW n \in SettingNames
        PROVE  IF n \in GivenNames THEN Said(n, settings[n])
               ELSE settings[n] = FromYaml(n)
    BY <1>1, <1>2 DEF Given
  <2>2. ASSUME "UPSTREAM_COUNT" \in GivenNames
        PROVE  /\ Said("UPSTREAM_COUNT", Len(upstreams))
               /\ \A i \in DOMAIN upstreams, s \in Suffixes :
                    UpstreamVariable(i, s) \in GivenNames =>
                        Said(UpstreamVariable(i, s), Field(upstreams[i], s))
    <3>1. Len(upstreams) = Count /\ DOMAIN upstreams = 1 .. Count
      BY <1>3, <2>2
    <3>2. Said("UPSTREAM_COUNT", Len(upstreams))
      BY <1>2, <1>3, <2>2, <3>1
    <3>3. ASSUME NEW i \in DOMAIN upstreams, NEW s \in Suffixes,
                 UpstreamVariable(i, s) \in GivenNames
          PROVE  Said(UpstreamVariable(i, s), Field(upstreams[i], s))
      <4>1. upstreams[i] = UpstreamFromEnv(i)
        BY <1>3, <2>2, <3>1
      <4> QED
        BY <1>0, <3>3, <4>1, FieldSaid
    <3> QED
      BY <3>2, <3>3
  <2> QED
    BY <2>1, <2>2 DEF Precedence, FromYaml
<1>5. NothingIsIgnored
  <2> SUFFICES ASSUME NEW n \in GivenNames,
                      n \notin SettingNames
                          \cup {"PUBLISH_HOST", "PUBLISH_PORT", "UPSTREAM_COUNT"}
               PROVE  \E i \in DOMAIN upstreams, s \in Suffixes :
                         n = UpstreamVariable(i, s) /\ "UPSTREAM_COUNT" \in GivenNames
    BY DEF NothingIsIgnored
  <2>1. n \in Known
    BY <1>1, <1>2 DEF Acceptable
  <2>2. PICK i \in 1 .. Count, s \in Suffixes : n = UpstreamVariable(i, s)
    BY <2>1 DEF Known
  <2>3. "UPSTREAM_COUNT" \in GivenNames
    BY <1>2, <2>2 DEF Count
  <2>4. DOMAIN upstreams = 1 .. Count
    BY <1>3, <2>3
  <2> QED
    BY <2>2, <2>3, <2>4
<1> QED
  BY <1>4, <1>5 DEF SourcesTakeEffect

LEMMA OriginOfUpstreams == ConfigInv => UpstreamsHaveOneOrigin
<1> SUFFICES ASSUME ConfigInv, stage = "run" PROVE UpstreamsHaveOneOrigin
  BY DEF UpstreamsHaveOneOrigin, Accepted
<1> DEFINE isGiven(v) == v \in GivenNames
<1>0. VariablesRead /\ VariablesApplied /\ Valid
  BY DEF ConfigInv
<1>1. /\ Acceptable
      /\ upstreams = IF "UPSTREAM_COUNT" \in DOMAIN values
                     THEN [i \in 1 .. Count |-> UpstreamFromEnv(i)]
                     ELSE YamlUpstreams
  BY <1>0 DEF VariablesApplied
<1>2. \A v : v \in DOMAIN values <=> isGiven(v)
  BY <1>0, Origins
<1>3. CASE isGiven("UPSTREAM_COUNT")
  <2>1. ASSUME NEW i \in DOMAIN upstreams
        PROVE  /\ isGiven(UpstreamVariable(i, "URL"))
               /\ upstreams[i].auth.username # NoText =>
                      isGiven(UpstreamVariable(i, "AUTH_USERNAME"))
               /\ upstreams[i].auth.password # NoText =>
                      isGiven(UpstreamVariable(i, "AUTH_PASSWORD"))
               /\ upstreams[i].auth.enabled =>
                      isGiven(UpstreamVariable(i, "AUTH_ENABLED"))
               /\ upstreams[i].ca # NoFile =>
                      isGiven(UpstreamVariable(i, "TLS_CA_FILE"))
    <3>1. i \in 1 .. Count /\ upstreams[i] = UpstreamFromEnv(i)
      BY <1>1, <1>2, <1>3
    <3> DEFINE url      == Given(UpstreamVariable(i, "URL"), Absent)
               enabled  == Given(UpstreamVariable(i, "AUTH_ENABLED"), FALSE)
               username == Given(UpstreamVariable(i, "AUTH_USERNAME"), NoText)
               password == Given(UpstreamVariable(i, "AUTH_PASSWORD"), NoText)
               ca       == Given(UpstreamVariable(i, "TLS_CA_FILE"), NoFile)
               auth     == [enabled |-> enabled, username |-> username,
                            password |-> password]
    <3>2. upstreams[i] = [url |-> url, auth |-> auth, ca |-> ca]
      BY <3>1 DEF UpstreamFromEnv
    <3>3. url # Absent
      BY <1>1, <3>1 DEF Acceptable
    <3>4. /\ url # Absent => UpstreamVariable(i, "URL") \in DOMAIN values
          /\ enabled # FALSE => UpstreamVariable(i, "AUTH_ENABLED") \in DOMAIN values
          /\ username # NoText => UpstreamVariable(i, "AUTH_USERNAME") \in DOMAIN values
          /\ password # NoText => UpstreamVariable(i, "AUTH_PASSWORD") \in DOMAIN values
          /\ ca # NoFile => UpstreamVariable(i, "TLS_CA_FILE") \in DOMAIN values
      BY DEF Given
    <3> HIDE DEF url, enabled, username, password, ca
    <3>5. /\ upstreams[i].auth.enabled = enabled
          /\ upstreams[i].auth.username = username
          /\ upstreams[i].auth.password = password
          /\ upstreams[i].ca = ca
      BY <3>2
    <3> QED
      BY <1>2, <3>3, <3>4, <3>5
  <2> QED
    BY <1>3, <2>1 DEF UpstreamsHaveOneOrigin
<1>4. CASE ~isGiven("UPSTREAM_COUNT")
  <2>1. upstreams = YamlUpstreams /\ upstreams # <<>>
    BY <1>0, <1>1, <1>2, <1>4 DEF Valid
  <2>2. upstreams = sources.yaml.upstreams
    BY <2>1 DEF YamlUpstreams
  <2> QED
    BY <1>4, <2>2 DEF UpstreamsHaveOneOrigin
<1> QED
  BY <1>3, <1>4

LEMMA LimitsServed == ConfigInv => ServesWithinLimits
<1> SUFFICES ASSUME ConfigInv, stage = "serving" PROVE ServesWithinLimits
  BY DEF ServesWithinLimits
<1>0. ConfigTyped /\ ValidValues /\ ValidLimits /\ ValidExposure
  BY DEF ConfigInv, Valid
<1>1. \A n \in Numbers :
         settings[n] \in Int /\ settings[n] >= IF n \in NonNegative THEN 0 ELSE 1
  BY <1>0 DEF ConfigTyped, ValidValues, Numbers
<1>2. /\ settings["SERVER_MAX_CONNECTIONS_PER_IP"] \in Nat \ {0}
      /\ settings["SERVER_MAX_CONNECTIONS"] \in Nat \ {0}
      /\ settings["PROXY_MAX_TUNNELS_PER_IP"] \in Nat \ {0}
      /\ settings["PROXY_MAX_TUNNELS"] \in Nat \ {0}
      /\ settings["SERVER_HTTP2_MAX_CONCURRENT_STREAMS"] \in Nat
  <2>1. {"SERVER_MAX_CONNECTIONS_PER_IP", "SERVER_MAX_CONNECTIONS",
         "PROXY_MAX_TUNNELS_PER_IP", "PROXY_MAX_TUNNELS"} \subseteq Numbers \ NonNegative
    BY DEF Numbers, IntegerNames, NonNegative
  <2>2. "SERVER_HTTP2_MAX_CONCURRENT_STREAMS" \in Numbers \cap NonNegative
    BY DEF Numbers, IntegerNames, NonNegative
  <2> QED
    BY <1>1, <2>1, <2>2
<1>3. /\ settings["SERVER_MAX_CONNECTIONS_PER_IP"]
            \in 1 .. settings["SERVER_MAX_CONNECTIONS"]
      /\ settings["PROXY_MAX_TUNNELS_PER_IP"] \in 1 .. settings["PROXY_MAX_TUNNELS"]
      /\ EffectiveStreams \in 1 .. settings["PROXY_MAX_TUNNELS_PER_IP"]
  BY <1>0, <1>2 DEF ValidLimits, EffectiveStreams
<1>4. settings["SERVER_HOST"] = "0.0.0.0" =>
        /\ \/ settings["SERVER_TLS_CERT_FILE"] # NoFile /\ settings["SERVER_TLS_KEY_FILE"] # NoFile
           \/ settings["SERVER_ALLOW_INSECURE_PUBLIC_HTTP"]
        /\ \/ settings["AUTH_ENABLED"] /\ settings["AUTH_PASSWORD"] # NoText
           \/ settings["SERVER_ALLOW_UNAUTHENTICATED_PUBLIC_PROXY"]
  <2> SUFFICES ASSUME settings["SERVER_HOST"] = "0.0.0.0"
               PROVE  /\ \/ /\ settings["SERVER_TLS_CERT_FILE"] # NoFile
                            /\ settings["SERVER_TLS_KEY_FILE"] # NoFile
                         \/ settings["SERVER_ALLOW_INSECURE_PUBLIC_HTTP"]
                      /\ \/ /\ settings["AUTH_ENABLED"]
                            /\ settings["AUTH_PASSWORD"] # NoText
                         \/ settings["SERVER_ALLOW_UNAUTHENTICATED_PUBLIC_PROXY"]
    OBVIOUS
  <2>1. ~Local(settings["SERVER_HOST"])
    BY DEF Local
  <2> QED
    BY <1>0, <2>1 DEF ValidExposure, TLS
<1> QED
  BY <1>3, <1>4 DEF ServesWithinLimits

-----------------------------------------------------------------------------
(* The connection *)

\* Places between the registration of the callback and the deferred calls, and
\* those calls.
Open ==
    {"limit", "handshake", "assigned", "request", "limitHeader", "status",
     "field", "checkStatus", "socks4", "method", "login", "socks5", "length",
     "address", "clear", "checkContext"}

Before == {"idle", "dial", "register"}

Deferred == {"stop", "close", "cancel", "done"}

Results == {"ok", "failed", "timeout", "cancelled", "config", "unsupported"}

\* The goroutine has a result exactly when it is at its deferred calls.
Progress ==
    /\ pc \in Before \cup Open \cup Deferred \cup {"crashed"}
    /\ ctx \in {"live", "expired", "client", "released"}
    /\ callback \in {"none", "armed", "running", "closing", "ended", "stopped"}
    /\ result \in Results \cup {"none"}
    /\ closed \in BOOLEAN
    /\ pc \in Before \cup Open => result = "none"
    /\ pc \in Deferred => result # "none"

EndedContext == ctx \in {"expired", "client"}

\* The callback runs when the context has ended, is armed until the deferred
\* calls, and something else than it only closes what has failed.
Closing ==
    /\ callback \in {"running", "closing", "ended"} => EndedContext
    /\ callback = "armed" => pc \in Open \cup {"stop"}
    /\ callback = "none" => pc \notin Open /\ result # "ok"
    /\ pc = "idle" => callback = "none" /\ ctx = "live"
    /\ ctx = "released" => pc = "done"
    /\ closed => EndedContext \/ (pc \in {"cancel", "done"} /\ Failed)
    /\ result = "ok" \/ pc = "checkContext" => deadline = Unlimited
    /\ pc \in {"cancel", "done"} /\ Failed /\ connection # "none" => closed

\* The budget is what is left of the limit when every line end counts for two.
Budget ==
    /\ remaining \in Int /\ wire \in Int
    /\ remaining <= HeaderLimit /\ remaining + ReadBuffer + 2 >= 0
    /\ wire <= HeaderLimit + ReadBuffer
    /\ wire + remaining <= HeaderLimit
    /\ ~bare => wire + remaining = HeaderLimit
    /\ remaining < 0 => result \notin {"none", "ok"}

\* Bytes that the server announced and connect5 still has to read.
Frame ==
    /\ announced \in Int /\ consumed \in Int
    /\ named.length \in Int
    /\ pc = "length" =>
         /\ named.atyp = 3
         /\ announced = consumed + 1 + AddressLength(named.atyp, named.length)
    /\ pc = "address" =>
         announced = consumed + AddressLength(named.atyp, named.length)
    /\ pc \in (Before \cup Open) \ {"length", "address"} => announced = consumed
    /\ result = "ok" => announced = consumed

\* The job is that of a configured upstream.
Task ==
    /\ pc = "idle" => dialed = "none"
    /\ pc # "idle" =>
         /\ stage = "serving"
         /\ job.path \in {"CONNECT", "forward"}
         /\ job.network = settings["PROXY_NETWORK"]
         /\ \E i \in DOMAIN upstreams : /\ job.scheme = upstreams[i].url.scheme
                                        /\ job.auth = upstreams[i].auth
         /\ dialed # "none" => dialed = Network(job.path, job.network)
    /\ pc = "socks4" => job.scheme = "socks4"
    /\ pc = "method" => job.scheme = "socks5"
    /\ result # "config"

\* connect5 has credentials, and has not rejected them.
LoginFits ==
    /\ job.auth.enabled
    /\ HandshakeError("socks5", job.destination, job.auth) = NoRejection

\* The request of a job whose destination and credentials were accepted.
Sent ==
    \/ /\ job.scheme = "socks4" /\ request = Request4(job.destination, job.auth)
       /\ DestinationError("socks4", job.destination) = NoRejection
       /\ HandshakeError("socks4", job.destination, job.auth) = NoRejection
    \/ job.scheme = "socks5" /\ request = Login5(job.auth) /\ LoginFits
    \/ /\ job.scheme = "socks5" /\ request = Request5(job.destination)
       /\ DestinationError("socks5", job.destination) = NoRejection

\* No connection is set up for a destination that is rejected.
Asked ==
    /\ pc = "idle" => request = <<>>
    /\ pc # "idle" /\ IsSocks(job.scheme) =>
         /\ job.destination \in Destinations
         /\ pc \in Before \cup Open =>
              DestinationError(job.scheme, job.destination) = NoRejection
    /\ pc \in {"login", "socks5"} => job.scheme = "socks5"
    /\ pc = "login" => LoginFits
    /\ request # <<>> => Sent

\* From its registration on the callback stays armed or runs until the deferred
\* calls, and only a torn read keeps it from closing the connection; only the
\* assignment after a TLS handshake (connect.go:145) can be read torn.
Watching ==
    /\ pc \in Open => callback \in {"armed", "running", "closing", "ended"}
    /\ callback = "ended" => closed \/ seen = "torn"
    /\ pc \in {"idle", "dial"} => connection = "none"
    /\ pc \in Before => connection # "torn" /\ callback = "none"
    /\ callback \in {"none", "armed"} => seen = "none"
    /\ connection = "torn" \/ pc = "handshake" => job.scheme = "https"
    /\ seen = "torn" \/ pc = "crashed" => job.scheme = "https"

ConnectionInv ==
    Progress /\ Closing /\ Budget /\ Frame /\ Task /\ Asked /\ Watching

LEMMA ConnectionStart == DialInit => ConnectionInv
<1> SUFFICES ASSUME DialInit PROVE ConnectionInv
  OBVIOUS
<1> USE DEF DialInit, Before, Open, Deferred
<1>1. Progress
  BY DEF Progress
<1>2. Closing
  BY DEF Closing, Failed
<1>3. Budget
  <2>1. HeaderLimit \in Nat /\ ReadBuffer \in Nat
    BY DialConnectAssumption
  <2> QED
    BY <2>1 DEF Budget
<1>4. Frame
  BY DEF Frame, NoReply
<1>5. Task
  BY DEF Task
<1>6. Asked
  BY DEF Asked
<1>7. Watching
  BY DEF Watching
<1> QED
  BY <1>1, <1>2, <1>3, <1>4, <1>5, <1>6, <1>7 DEF ConnectionInv

\* The errors there are.
LEMMA Errors ==
    ASSUME NEW e \in {"failed", "timeout", "unsupported", "config"}
    PROVE  /\ ContextError \in {"timeout", "cancelled"}
           /\ ctx = "live" => SetupError(e) = e
           /\ ctx # "live" => SetupError(e) = ContextError
           /\ SetupError(e) \in Results \ {"ok"}
           /\ e # "config" => SetupError(e) # "config"
           /\ ClosedError \in Results \ {"ok", "config"}
  BY DEF ContextError, SetupError, ClosedError, Results

LEMMA Rejections ==
    ASSUME NEW scheme, NEW d, NEW auth
    PROVE  /\ DestinationError(scheme, d) \in {NoRejection, "failed", "unsupported"}
           /\ HandshakeError(scheme, d, auth) \in {NoRejection, "config", "unsupported"}
  BY DEF DestinationError, HandshakeError, NoRejection

\* What a SOCKS handshake rejects, and how it goes on.
LEMMA Handshakes ==
    ASSUME Socks4 \/ OfferMethod
    PROVE  /\ pc \in {"socks4", "method"}
           /\ UNCHANGED <<job, dialContext, connection, dialed, deadline, header>>
           /\ \/ pc' \in {"clear", "login", "socks5"} /\ result' = result
              \/ \E e \in {"failed", "unsupported", "config"} :
                    /\ Return(SetupError(e))
                    /\ e = "config" =>
                         HandshakeError(IF pc = "socks4" THEN "socks4" ELSE "socks5",
                                        job.destination, job.auth) = "config"
<1>1. CASE Socks4
  <2> DEFINE e == HandshakeError("socks4", job.destination, job.auth)
  <2>1. e \in {NoRejection, "config", "unsupported"}
    BY Rejections
  <2>2. \/ Return(SetupError(e)) /\ e # NoRejection
        \/ Return(SetupError("failed"))
        \/ Goto("clear")
    BY <1>1 DEF Socks4
  <2>3. pc = "socks4" /\ e = HandshakeError(IF pc = "socks4" THEN "socks4" ELSE "socks5",
                                           job.destination, job.auth)
    BY <1>1 DEF Socks4
  <2> HIDE DEF e
  <2> QED
    BY <1>1, <2>1, <2>2, <2>3 DEF Socks4, Goto
<1>2. CASE OfferMethod
  <2> DEFINE e == HandshakeError("socks5", job.destination, job.auth)
  <2>1. e \in {NoRejection, "config", "unsupported"}
    BY Rejections
  <2>2. \/ Return(SetupError(e)) /\ e # NoRejection
        \/ Return(SetupError("failed"))
        \/ Goto("login") \/ Goto("socks5")
    BY <1>2 DEF OfferMethod
  <2>3. pc = "method" /\ e = HandshakeError(IF pc = "socks4" THEN "socks4" ELSE "socks5",
                                           job.destination, job.auth)
    BY <1>2 DEF OfferMethod
  <2> HIDE DEF e
  <2> QED
    BY <1>2, <2>1, <2>2, <2>3 DEF OfferMethod, Goto
<1> QED
  BY <1>1, <1>2

LEMMA ProgressKept ==
    ASSUME Progress, DialStep
    PROVE  Progress'
<1> USE DEF Progress, Before, Open, Deferred, Return, Goto, dialContext
<1>1. CASE DialInterrupted \/ RegisterCallback \/ LimitSetup \/ Assigned \/ LimitHeader
  <2>1. CASE DialInterrupted
    BY <2>1, Errors DEF DialInterrupted, Results
  <2>2. CASE RegisterCallback
    BY <2>2 DEF RegisterCallback
  <2>3. CASE LimitSetup
    BY <2>3, Errors DEF LimitSetup, Results
  <2>4. CASE Assigned
    BY <2>4 DEF Assigned
  <2>5. CASE LimitHeader
    BY <2>5 DEF LimitHeader, Results
  <2> QED
    BY <1>1, <2>1, <2>2, <2>3, <2>4, <2>5
<1>2. CASE CheckStatus \/ CheckContext \/ TalkInterrupted \/ HandshakeInterrupted
           \/ ClearDeadline
  <2>1. CASE CheckStatus
    BY <2>1 DEF CheckStatus, Results
  <2>2. CASE CheckContext
    BY <2>2, Errors DEF CheckContext, Results
  <2>3. CASE TalkInterrupted
    BY <2>3, Errors DEF TalkInterrupted, Talking, Results
  <2>4. CASE HandshakeInterrupted
    BY <2>4, Errors DEF HandshakeInterrupted, Results
  <2>5. CASE ClearDeadline
    BY <2>5, Errors DEF ClearDeadline, Results
  <2> QED
    BY <1>2, <2>1, <2>2, <2>3, <2>4, <2>5
<1>3. CASE StopCallback \/ CloseFailed \/ Cancel
  <2>1. CASE StopCallback
    BY <2>1 DEF StopCallback
  <2>2. CASE CloseFailed
    BY <2>2 DEF CloseFailed
  <2>3. CASE Cancel
    BY <2>3 DEF Cancel
  <2> QED
    BY <1>3, <2>1, <2>2, <2>3
<1>4. CASE Dial \/ DialFails \/ TalkFails \/ Handshake \/ SendRequest
  <2>1. CASE Dial
    BY <2>1 DEF Dial
  <2>2. CASE DialFails
    BY <2>2, Errors DEF DialFails, Results
  <2>3. CASE TalkFails
    BY <2>3, Errors DEF TalkFails, Talking, Results
  <2>4. CASE Handshake
    BY <2>4 DEF Handshake
  <2>5. CASE SendRequest
    BY <2>5 DEF SendRequest
  <2> QED
    BY <1>4, <2>1, <2>2, <2>3, <2>4, <2>5
<1>5. ASSUME NEW size \in 0 .. ReadBuffer, NEW ending \in LineEnds,
             ReadLine(size, ending)
      PROVE  Progress'
  BY <1>5, Errors DEF ReadLine, Results
<1>6. CASE Socks4 \/ OfferMethod
  <2>1. CASE Socks4
    BY <2>1, Handshakes, Errors DEF Results
  <2>2. CASE OfferMethod
    BY <2>2, Handshakes, Errors DEF Results
  <2> QED
    BY <1>6, <2>1, <2>2
<1>7. CASE Login \/ Socks5Invalid \/ ReadLength \/ DiscardAddress
  <2>1. CASE Login
    BY <2>1, Errors DEF Login, Talk, Results
  <2>2. CASE Socks5Invalid
    BY <2>2, Errors DEF Socks5Invalid, Results
  <2>3. CASE ReadLength
    BY <2>3 DEF ReadLength
  <2>4. CASE DiscardAddress
    BY <2>4, Errors DEF DiscardAddress, Results
  <2> QED
    BY <1>7, <2>1, <2>2, <2>3, <2>4
<1>8. ASSUME NEW answer \in Answers, Socks5(answer)
      PROVE  Progress'
  BY <1>8 DEF Socks5
<1>9. CASE CallbackStarts \/ CallbackReads
  <2>1. CASE CallbackStarts
    BY <2>1 DEF CallbackStarts
  <2>2. CASE CallbackReads
    BY <2>2 DEF CallbackReads
  <2> QED
    BY <1>9, <2>1, <2>2
<1>10. CASE CallbackCloses
  <2>1. /\ callback' = "ended" /\ UNCHANGED <<ctx, result>>
        /\ closed' \in BOOLEAN /\ (pc' = pc \/ pc' = "crashed")
    BY <1>10 DEF CallbackCloses
  <2> QED
    BY <2>1
<1>11. CASE ContextEnds
  BY <1>11 DEF ContextEnds
<1> QED
  BY <1>1, <1>2, <1>3, <1>4, <1>5, <1>6, <1>7, <1>8, <1>9, <1>10, <1>11
     DEF DialStep, Alone, WithUpstream, Callback

LEMMA ClosingKept ==
    ASSUME Progress, Closing, DialStep
    PROVE  Closing'
<1> USE DEF Progress, Closing, Before, Open, Deferred, Return, Goto, Failed,
            dialContext, EndedContext
<1>0. pc \in Before \cup Open =>
        /\ ctx # "released"
        /\ closed => ctx # "live"
  OBVIOUS
<1>1. CASE DialInterrupted \/ RegisterCallback \/ LimitSetup
  BY <1>0, <1>1, Errors DEF DialInterrupted, RegisterCallback, LimitSetup, Results
<1>2. CASE Assigned \/ LimitHeader \/ CheckStatus \/ CheckContext
  BY <1>0, <1>2, Errors DEF Assigned, LimitHeader, CheckStatus, CheckContext, Results
<1>3. CASE TalkInterrupted
  BY <1>0, <1>3, Errors DEF TalkInterrupted, Talking, Results
<1>4. CASE HandshakeInterrupted \/ ClearDeadline
  BY <1>0, <1>4, Errors DEF HandshakeInterrupted, ClearDeadline, Results
<1>5. CASE StopCallback
  BY <1>5 DEF StopCallback
<1>6. CASE CloseFailed
  <2>1. closed' <=> (closed \/ (result # "ok" /\ connection # "none"))
    BY <1>6, Zenon DEF CloseFailed
  <2>2. /\ pc = "close" /\ pc' = "cancel" /\ result # "none"
        /\ UNCHANGED <<ctx, callback, connection, deadline, result>>
    BY <1>6 DEF CloseFailed
  <2> QED
    BY <2>1, <2>2
<1>7. CASE Cancel
  BY <1>7 DEF Cancel
<1>8. CASE Dial \/ DialFails \/ TalkFails \/ Handshake \/ SendRequest
  BY <1>0, <1>8, Errors DEF Dial, DialFails, TalkFails, Talking, Handshake,
                            SendRequest, Results
<1>9. ASSUME NEW size \in 0 .. ReadBuffer, NEW ending \in LineEnds,
             ReadLine(size, ending)
      PROVE  Closing'
  BY <1>0, <1>9, Errors DEF ReadLine, Results
<1>10. CASE Socks4 \/ OfferMethod
  BY <1>0, <1>10, Handshakes, Errors DEF Results
<1>11. CASE Login \/ Socks5Invalid \/ ReadLength \/ DiscardAddress
  BY <1>0, <1>11, Errors DEF Login, Socks5Invalid, ReadLength, DiscardAddress, Talk,
                             Results
<1>12. ASSUME NEW answer \in Answers, Socks5(answer)
       PROVE  Closing'
  BY <1>0, <1>12 DEF Socks5
<1>13. CASE CallbackStarts \/ CallbackReads
  BY <1>13 DEF CallbackStarts, CallbackReads
<1>14. CASE CallbackCloses
  BY <1>14 DEF CallbackCloses
<1>15. CASE ContextEnds
  BY <1>15 DEF ContextEnds
<1> QED
  BY <1>1, <1>2, <1>3, <1>4, <1>5, <1>6, <1>7, <1>8, <1>9, <1>10, <1>11, <1>12,
     <1>13, <1>14, <1>15 DEF DialStep, Alone, WithUpstream, Callback

\* No step but the callback's own end lets go of a connection, and only Handshake
\* makes one that can be read torn.
LEMMA WatchingKept ==
    ASSUME Progress, Closing, Watching, DialStep
    PROVE  Watching'
<1> USE DEF Progress, Closing, Watching, Before, Open, Deferred, Return, Goto,
            dialContext
<1>1. CASE DialInterrupted \/ RegisterCallback
  BY <1>1 DEF DialInterrupted, RegisterCallback
<1>2. CASE LimitSetup
  BY <1>2 DEF LimitSetup
<1>3. CASE Assigned \/ LimitHeader \/ CheckStatus \/ CheckContext
  BY <1>3 DEF Assigned, LimitHeader, CheckStatus, CheckContext
<1>4. CASE TalkInterrupted \/ HandshakeInterrupted \/ ClearDeadline
  BY <1>4 DEF TalkInterrupted, HandshakeInterrupted, ClearDeadline, Talking
<1>5. CASE StopCallback
  BY <1>5 DEF StopCallback
<1>6. CASE CloseFailed
  <2>1. closed => closed'
    BY <1>6, Zenon DEF CloseFailed
  <2>2. /\ pc' = "cancel" /\ pc = "close"
        /\ UNCHANGED <<job, callback, seen, connection>>
    BY <1>6 DEF CloseFailed
  <2> QED
    BY <2>1, <2>2
<1>7. CASE Cancel
  BY <1>7 DEF Cancel
<1>8. CASE Dial \/ DialFails \/ TalkFails
  BY <1>8 DEF Dial, DialFails, TalkFails, Talking
<1>9. CASE Handshake \/ SendRequest
  BY <1>9 DEF Handshake, SendRequest
<1>10. ASSUME NEW size \in 0 .. ReadBuffer, NEW ending \in LineEnds,
              ReadLine(size, ending)
       PROVE  Watching'
  BY <1>10 DEF ReadLine
<1>11. CASE Socks4 \/ OfferMethod
  BY <1>11, Handshakes
<1>12. CASE Login \/ Socks5Invalid \/ ReadLength \/ DiscardAddress
  BY <1>12 DEF Login, Socks5Invalid, ReadLength, DiscardAddress, Talk
<1>13. ASSUME NEW answer \in Answers, Socks5(answer)
       PROVE  Watching'
  BY <1>13 DEF Socks5
<1>14. CASE CallbackStarts \/ CallbackReads
  BY <1>14 DEF CallbackStarts, CallbackReads
<1>15. CASE CallbackCloses
  BY <1>15 DEF CallbackCloses
<1>16. CASE ContextEnds
  BY <1>16 DEF ContextEnds
<1> QED
  BY <1>1, <1>2, <1>3, <1>4, <1>5, <1>6, <1>7, <1>8, <1>9, <1>10, <1>11, <1>12,
     <1>13, <1>14, <1>15, <1>16 DEF DialStep, Alone, WithUpstream, Callback

\* Steps that read nothing of the header leave the budget alone, and what has no
\* result then has none later or had none.
LEMMA BudgetKept ==
    ASSUME Progress, Budget, DialStep
    PROVE  Budget'
<1> USE DEF Progress, Budget, Before, Open, Deferred, Return, Goto, header
<1>1. ASSUME NEW size \in 0 .. ReadBuffer, NEW ending \in LineEnds,
             ReadLine(size, ending)
      PROVE  Budget'
  <2> DEFINE cost == Cost(size, ending)
             sent == WireSize(size, ending)
  <2>1. /\ ReadBuffer \in Nat /\ size \in Nat /\ size <= ReadBuffer
        /\ HeaderLimit \in Nat /\ result = "none" /\ remaining >= 0
    BY <1>1, DialConnectAssumption DEF ReadLine
  <2>2. /\ cost \in Nat /\ cost <= size + 2
        /\ sent \in Int /\ sent <= cost
        /\ ending \notin {"LF", "EOF"} => sent = cost
    BY <2>1 DEF Cost, WireSize, LineEnds
  <2>3. /\ remaining' = remaining - cost
        /\ wire' = wire + sent /\ sent <= ReadBuffer
    BY <1>1 DEF ReadLine
  <2>4. ~bare' => ~bare /\ ending \notin {"LF", "EOF"}
    BY <1>1 DEF ReadLine
  <2>5. remaining' < 0 => result' = SetupError("failed")
    BY <1>1 DEF ReadLine
  <2>6. SetupError("failed") \notin {"none", "ok"}
    BY Errors DEF Results
  <2> HIDE DEF cost, sent
  <2>7. /\ remaining' \in Int /\ wire' \in Int
        /\ remaining' <= HeaderLimit /\ remaining' + ReadBuffer + 2 >= 0
        /\ wire' + remaining' <= HeaderLimit /\ wire' <= HeaderLimit + ReadBuffer
    BY <2>1, <2>2, <2>3
  <2>8. ~bare' => wire' + remaining' = HeaderLimit
    BY <2>1, <2>2, <2>3, <2>4
  <2> QED
    BY <2>5, <2>6, <2>7, <2>8
<1>2. CASE UNCHANGED header /\ (pc \in Before \cup Open \/ result' = result)
  BY <1>2
<1>3. CASE Alone
  BY <1>2, <1>3 DEF Alone, DialInterrupted, RegisterCallback, LimitSetup, Assigned,
        LimitHeader, CheckStatus, CheckContext, TalkInterrupted, Talking,
        HandshakeInterrupted, ClearDeadline, StopCallback, CloseFailed, Cancel
<1>4. CASE Dial \/ DialFails \/ TalkFails \/ Handshake \/ SendRequest
           \/ Socks4 \/ OfferMethod
  BY <1>2, <1>4, Handshakes DEF Dial, DialFails, TalkFails, Talking, Handshake,
        SendRequest
<1>5. CASE \/ Login \/ Socks5Invalid \/ ReadLength \/ DiscardAddress
           \/ \E answer \in Answers : Socks5(answer)
  BY <1>2, <1>5 DEF Login, Talk, Socks5Invalid, ReadLength, DiscardAddress, Socks5
<1>6. CASE Callback \/ ContextEnds
  BY <1>2, <1>6 DEF Callback, CallbackStarts, CallbackReads, CallbackCloses,
        ContextEnds
<1> QED
  BY <1>1, <1>3, <1>4, <1>5, <1>6 DEF DialStep, WithUpstream

LEMMA FrameKept ==
    ASSUME Progress, Frame, DialStep
    PROVE  Frame'
<1> USE DEF Progress, Frame, Before, Open, Deferred, Return, Goto, framing
<1>1. CASE UNCHANGED framing /\ pc \in (Before \cup Open) \ {"length", "address"}
           /\ pc' \notin {"length", "address"}
  BY <1>1
<1>2. CASE UNCHANGED framing /\ pc' \in {"stop", "crashed"} /\ result' # "ok"
  BY <1>2
<1>3. CASE UNCHANGED framing /\ result' = result /\ pc' \in Deferred \cup {"crashed", pc}
  BY <1>3
<1>4. CASE DialInterrupted \/ RegisterCallback \/ LimitSetup \/ Assigned
           \/ LimitHeader \/ CheckStatus \/ CheckContext \/ HandshakeInterrupted
           \/ ClearDeadline
  BY <1>1, <1>4 DEF DialInterrupted, RegisterCallback, LimitSetup, Assigned,
        LimitHeader, CheckStatus, CheckContext, HandshakeInterrupted, ClearDeadline
<1>5. CASE TalkInterrupted \/ TalkFails
  BY <1>2, <1>5, Errors DEF TalkInterrupted, TalkFails, Results
<1>6. CASE StopCallback \/ CloseFailed \/ Cancel \/ Callback \/ ContextEnds
  BY <1>3, <1>6 DEF StopCallback, CloseFailed, Cancel, Callback, CallbackStarts,
        CallbackReads, CallbackCloses, ContextEnds
<1>7. CASE Dial \/ DialFails \/ Handshake \/ SendRequest
           \/ \E size \in 0 .. ReadBuffer, ending \in LineEnds :
                  ReadLine(size, ending)
  BY <1>1, <1>7 DEF Dial, DialFails, Handshake, SendRequest, ReadLine
<1>8. CASE Socks4 \/ OfferMethod \/ Login
  <2>1. /\ pc \in {"socks4", "method", "login"}
        /\ pc' \in {"clear", "login", "socks5", "stop"}
        /\ named' = named
    BY <1>8, Handshakes DEF Login, Talk, Socks4, OfferMethod
  <2>2. \E size \in {0, 2, 8} :
           announced' = announced + size /\ consumed' = consumed + size
    BY <1>8 DEF Login, Talk, Socks4, OfferMethod
  <2> QED
    BY <2>1, <2>2
<1>9. ASSUME NEW answer \in Answers, Socks5(answer)
      PROVE  Frame'
  <2>1. /\ answer.atyp \in {1, 3, 4} /\ answer.length \in Int
        /\ pc = "socks5" /\ named' = answer /\ result' = "none"
        /\ announced' = announced + Reply5Length(answer.atyp, answer.length)
        /\ consumed' = consumed + 4
        /\ pc' = IF answer.atyp = 3 THEN "length" ELSE "address"
    BY <1>9, SocksAssumption DEF Socks5, Answers
  <2> QED
    BY <2>1 DEF Reply5Length, AddressLength
<1>10. CASE Socks5Invalid
  BY <1>10, Errors DEF Socks5Invalid, Results
<1>11. CASE ReadLength
  <2>1. /\ pc = "length" /\ pc' = "address" /\ consumed' = consumed + 1
        /\ UNCHANGED <<named, announced, result>>
    BY <1>11 DEF ReadLength
  <2> QED
    BY <2>1 DEF AddressLength
<1>12. CASE DiscardAddress
  <2>1. /\ pc = "address" /\ pc' \in {"clear", "stop"}
        /\ consumed' = consumed + AddressLength(named.atyp, named.length)
        /\ UNCHANGED <<named, announced>>
    BY <1>12 DEF DiscardAddress
  <2> QED
    BY <2>1
<1> QED
  BY <1>4, <1>5, <1>6, <1>7, <1>8, <1>9, <1>10, <1>11, <1>12
     DEF DialStep, Alone, WithUpstream

\* Every upstream that is served is valid, and its credentials are text.
LEMMA Served ==
    ASSUME ConfigInv, stage = "serving", NEW i \in DOMAIN upstreams
    PROVE  /\ upstreams[i].url.scheme \in {"http", "https", "socks4", "socks5"}
           /\ upstreams[i].auth.enabled =>
                ValidCredentials(upstreams[i].url.scheme, upstreams[i].auth)
           /\ upstreams[i].auth.username \in Seq(Nat)
           /\ upstreams[i].auth.password \in Seq(Nat)
<1>1. ValidUpstream(upstreams[i])
  BY DEF ConfigInv, Valid
<1>2. {upstreams[i].auth.username, upstreams[i].auth.password} \subseteq Seq(Nat)
  BY DEF ConfigInv, ConfigTyped
<1>3. upstreams[i].url.scheme \in {"http", "https", "socks4", "socks5"}
  BY <1>1 DEF ValidUpstream, ValidURL
<1>4. upstreams[i].auth.enabled =>
        ValidCredentials(upstreams[i].url.scheme, upstreams[i].auth)
  BY <1>1 DEF ValidUpstream
<1> QED
  BY <1>2, <1>3, <1>4

\* What Validate accepts fits in the bytes of the handshakes.
LEMMA CredentialsFit ==
    ASSUME NEW auth, NEW d, NEW scheme \in {"socks4", "socks5"},
           auth.enabled => ValidCredentials(scheme, auth),
           auth.username \in Seq(Nat), auth.password \in Seq(Nat)
    PROVE  HandshakeError(scheme, d, auth) # "config"
<1>1. ASSUME auth.enabled, scheme = "socks4"
      PROVE  Len(auth.username) <= Byte - 1 /\ ~Contains(auth.username, 0)
  BY <1>1, StartupAssumption DEF ValidCredentials, HasZero, Contains
<1>2. ASSUME auth.enabled, scheme = "socks5"
      PROVE  /\ Len(auth.username) \in 1 .. Byte - 1
             /\ Len(auth.password) \in 1 .. Byte - 1
  <2>1. /\ auth.username # <<>> /\ auth.password # <<>>
        /\ Len(auth.username) <= Byte - 1 /\ Len(auth.password) <= Byte - 1
    BY <1>2, StartupAssumption DEF ValidCredentials, NoText
  <2>2. Len(auth.username) \in Nat \ {0} /\ Len(auth.password) \in Nat \ {0}
    BY <2>1
  <2> QED
    BY <2>1, <2>2, SocksAssumption
<1>3. Len(auth.username) \in Nat /\ Byte \in Nat
  BY SocksAssumption
<1>4. CASE scheme = "socks4"
  BY <1>1, <1>3, <1>4 DEF HandshakeError, NoRejection
<1>5. CASE scheme = "socks5"
  BY <1>2, <1>3, <1>5 DEF HandshakeError, NoRejection
<1> QED
  BY <1>4, <1>5

LEMMA TaskKept ==
    ASSUME Progress, Closing, Task, ConfigInv, DialStep, UNCHANGED configVars
    PROVE  Task'
<1> USE DEF Progress, Before, Open, Deferred, Return, Goto
<1>1. UNCHANGED <<stage, settings, upstreams>>
  BY DEF configVars
<1>2. ASSUME pc # "idle", pc' # "idle", job' = job,
             \/ dialed' = dialed
             \/ dialed' = Network(job.path, job.network),
             pc' = "socks4" => job.scheme = "socks4",
             pc' = "method" => job.scheme = "socks5",
             result' # "config"
      PROVE  Task'
  BY <1>1, <1>2 DEF Task, Network
<1>3. CASE DialInterrupted \/ RegisterCallback \/ Assigned \/ LimitHeader
           \/ CheckStatus \/ CheckContext
  BY <1>2, <1>3, Errors DEF Task, DialInterrupted, RegisterCallback, Assigned, LimitHeader,
        CheckStatus, CheckContext
<1>4. CASE LimitSetup
  <2>1. PICK i \in DOMAIN upstreams : job.scheme = upstreams[i].url.scheme
    BY <1>4 DEF LimitSetup, Task
  <2>2. job.scheme \in {"http", "https", "socks4", "socks5"}
    BY <1>4, <2>1, Served DEF LimitSetup, Task
  <2> QED
    BY <1>2, <1>4, <2>2, Errors DEF Task, LimitSetup
<1>5. CASE TalkInterrupted \/ TalkFails \/ HandshakeInterrupted \/ ClearDeadline
  BY <1>2, <1>5, Errors DEF Task, TalkInterrupted, TalkFails, Talking, HandshakeInterrupted,
        ClearDeadline
<1>6. CASE StopCallback \/ CloseFailed \/ Cancel
  BY <1>2, <1>6 DEF Task, StopCallback, CloseFailed, Cancel
<1>7. CASE Dial \/ DialFails \/ Handshake \/ SendRequest
  BY <1>2, <1>7, Errors DEF Task, Dial, DialFails, Handshake, SendRequest
<1>8. ASSUME NEW size \in 0 .. ReadBuffer, NEW ending \in LineEnds,
             ReadLine(size, ending)
      PROVE  Task'
  BY <1>2, <1>8, Errors DEF Task, ReadLine
<1>9. CASE Socks4 \/ OfferMethod
  <2> DEFINE scheme == IF pc = "socks4" THEN "socks4" ELSE "socks5"
  <2>1. pc \in {"socks4", "method"} /\ job.scheme = scheme
    BY <1>9, Handshakes DEF Task
  <2>2. PICK i \in DOMAIN upstreams :
           job.scheme = upstreams[i].url.scheme /\ job.auth = upstreams[i].auth
    BY <2>1 DEF Task
  <2>3. stage = "serving"
    BY <2>1 DEF Task
  <2>4. HandshakeError(scheme, job.destination, job.auth) # "config"
    BY <2>1, <2>2, <2>3, Served, CredentialsFit
  <2>5. result' # "config"
    BY <1>9, <2>1, <2>4, Handshakes, Errors
  <2> QED
    BY <1>2, <1>9, <2>1, <2>5, Handshakes
<1>10. CASE \/ Login \/ Socks5Invalid \/ ReadLength \/ DiscardAddress
            \/ \E answer \in Answers : Socks5(answer)
  BY <1>2, <1>10, Errors DEF Task, Login, Talk, Socks5Invalid, ReadLength, DiscardAddress,
        Socks5
<1>11. CASE Callback \/ ContextEnds
  BY <1>2, <1>11 DEF Task, Closing, Callback, CallbackStarts, CallbackReads,
        CallbackCloses, ContextEnds
<1> QED
  BY <1>3, <1>4, <1>5, <1>6, <1>7, <1>8, <1>9, <1>10, <1>11
     DEF DialStep, Alone, WithUpstream

\* A connection begins with a valid upstream, so with a destination that is
\* rejected or with a dial.
LEMMA Begins ==
    ASSUME Progress, Closing, Task, ConfigInv, Connect
    PROVE  /\ Task'
           /\ pc = "idle" /\ UNCHANGED <<dialContext, connection, deadline, header,
                                       framing>>
           /\ \/ pc' = "dial" /\ result' = result
              \/ pc' = "stop" /\ result' \in Results \ {"ok"}
<1>1. PICK i \in DOMAIN upstreams, path \in {"CONNECT", "forward"} :
         Begin(path, [scheme |-> upstreams[i].url.scheme, auth |-> upstreams[i].auth],
               settings["PROXY_NETWORK"])
  BY DEF Connect
<1> DEFINE scheme == upstreams[i].url.scheme
           auth   == upstreams[i].auth
<1>2. PICK d \in Targets(path, scheme) :
         /\ job' = [path |-> path, scheme |-> scheme, auth |-> auth,
                    network |-> settings["PROXY_NETWORK"], destination |-> d]
         /\ \/ /\ DestinationError(scheme, d) # NoRejection
               /\ Return(SetupError(DestinationError(scheme, d)))
            \/ /\ scheme = "socks4" /\ auth.enabled /\ auth.password # <<>>
               /\ Return("config")
            \/ Goto("dial")
  BY <1>1 DEF Begin
<1>3. /\ stage = "serving" /\ UNCHANGED <<stage, settings, upstreams>>
      /\ pc = "idle"
      /\ UNCHANGED <<dialContext, connection, dialed, deadline, header, framing>>
  BY <1>1 DEF Connect, configVars, Begin
<1>4. ~(scheme = "socks4" /\ auth.enabled /\ auth.password # <<>>)
  BY <1>3, Served DEF ValidCredentials, NoText
<1>5. DestinationError(scheme, d) \in {NoRejection, "failed", "unsupported"}
  BY Rejections
<1>6. \/ pc' = "dial" /\ result' = result
      \/ pc' = "stop" /\ result' \in Results \ {"ok", "config"}
  BY <1>2, <1>4, <1>5, Errors DEF Return, Goto, Results
<1>7. /\ job'.path \in {"CONNECT", "forward"}
      /\ job'.network = settings["PROXY_NETWORK"]
      /\ job'.scheme = scheme /\ job'.auth = auth
  BY <1>2
<1>8. dialed' = "none" /\ result # "config"
  BY <1>3 DEF Task
<1>9. Task'
  BY <1>3, <1>6, <1>7, <1>8 DEF Task
<1> QED
  BY <1>3, <1>6, <1>9

LEMMA AskedKept ==
    ASSUME Closing, Task, Asked, DialStep
    PROVE  Asked'
<1> USE DEF Return, Goto
<1>1. ASSUME pc # "idle", pc' # "idle", UNCHANGED <<job, request>>,
             pc' \in Before \cup Open => pc \in Before \cup Open,
             pc' \in {"login", "socks5"} => job.scheme = "socks5",
             pc' = "login" => LoginFits
      PROVE  Asked'
  BY <1>1 DEF Asked, Sent, LoginFits
<1> USE DEF Before, Open, Deferred
<1>2. CASE DialInterrupted \/ RegisterCallback \/ LimitSetup \/ Assigned \/ LimitHeader
  BY <1>1, <1>2 DEF DialInterrupted, RegisterCallback, LimitSetup, Assigned,
                      LimitHeader, framing
<1>3. CASE CheckStatus \/ CheckContext \/ TalkInterrupted \/ HandshakeInterrupted
           \/ ClearDeadline
  BY <1>1, <1>3 DEF CheckStatus, CheckContext, TalkInterrupted, Talking,
                      HandshakeInterrupted, ClearDeadline, framing
<1>4. CASE StopCallback \/ CloseFailed \/ Cancel
  BY <1>1, <1>4 DEF StopCallback, CloseFailed, Cancel, framing
<1>5. CASE Dial \/ DialFails \/ TalkFails \/ Handshake \/ SendRequest
  BY <1>1, <1>5 DEF Dial, DialFails, TalkFails, Talking, Handshake, SendRequest,
                    framing
<1>6. ASSUME NEW size \in 0 .. ReadBuffer, NEW ending \in LineEnds,
             ReadLine(size, ending)
      PROVE  Asked'
  BY <1>1, <1>6 DEF ReadLine, framing
<1>7. CASE Socks4
  <2> DEFINE e == HandshakeError("socks4", job.destination, job.auth)
  <2>1. /\ pc = "socks4" /\ job' = job /\ pc' \in {"clear", "stop"}
        /\ \/ request' = request
           \/ e = NoRejection /\ request' = Request4(job.destination, job.auth)
    BY <1>7 DEF Socks4, framing, Talk
  <2>2. job.scheme = "socks4"
    BY <2>1 DEF Task
  <2>3. DestinationError("socks4", job.destination) = NoRejection
    BY <2>1, <2>2 DEF Asked, IsSocks
  <2>4. CASE request' = request
    BY <1>1, <2>1, <2>4
  <2>5. CASE e = NoRejection /\ request' = Request4(job.destination, job.auth)
    <3>1. Sent'
      BY <2>1, <2>2, <2>3, <2>5 DEF Sent
    <3> QED
      BY <2>1, <2>2, <3>1 DEF Asked
  <2> QED
    BY <2>1, <2>4, <2>5
<1>8. CASE OfferMethod
  <2>1. /\ pc = "method" /\ UNCHANGED <<job, request>>
        /\ pc' \in {"login", "socks5", "stop"}
        /\ pc' = "login" => LoginFits
    BY <1>8 DEF OfferMethod, framing, Talk, LoginFits, Method
  <2>2. job.scheme = "socks5"
    BY <2>1 DEF Task
  <2> QED
    BY <1>1, <2>1, <2>2
<1>9. CASE Login
  <2>1. /\ pc = "login" /\ job' = job /\ pc' \in {"socks5", "stop"}
        /\ request' = Login5(job.auth)
    BY <1>9 DEF Login, Talk
  <2>2. job.scheme = "socks5" /\ LoginFits
    BY <2>1 DEF Asked
  <2>3. Sent'
    BY <2>1, <2>2 DEF Sent, LoginFits
  <2> QED
    BY <2>1, <2>2, <2>3 DEF Asked
<1>10. CASE Socks5Invalid \/ \E answer \in Answers : Socks5(answer)
  <2>1. /\ pc = "socks5" /\ job' = job /\ pc' \in {"length", "address", "stop"}
        /\ request' = Request5(job.destination)
    BY <1>10 DEF Socks5Invalid, Socks5
  <2>2. job.scheme = "socks5"
    BY <2>1 DEF Asked
  <2>3. DestinationError("socks5", job.destination) = NoRejection
    BY <2>1, <2>2 DEF Asked, IsSocks
  <2>4. Sent'
    BY <2>1, <2>2, <2>3 DEF Sent
  <2> QED
    BY <2>1, <2>2, <2>4 DEF Asked
<1>11. CASE ReadLength \/ DiscardAddress
  BY <1>1, <1>11 DEF ReadLength, DiscardAddress
<1>12. CASE Callback \/ ContextEnds
  <2>1. pc # "idle" /\ pc' \in {pc, "crashed"} /\ UNCHANGED <<job, request>>
    BY <1>12 DEF Closing, Callback, CallbackStarts, CallbackReads, CallbackCloses,
                 ContextEnds, framing
  <2> QED
    BY <1>1, <2>1 DEF Asked
<1> QED
  BY <1>2, <1>3, <1>4, <1>5, <1>6, <1>7, <1>8, <1>9, <1>10, <1>11, <1>12
     DEF DialStep, Alone, WithUpstream

LEMMA AskedFirst ==
    ASSUME Asked, Connect
    PROVE  Asked'
<1>1. PICK i \in DOMAIN upstreams, path \in {"CONNECT", "forward"} :
         Begin(path, [scheme |-> upstreams[i].url.scheme, auth |-> upstreams[i].auth],
               settings["PROXY_NETWORK"])
  BY DEF Connect
<1> DEFINE scheme == upstreams[i].url.scheme
<1>2. PICK d \in Targets(path, scheme) :
         /\ job' = [path |-> path, scheme |-> scheme, auth |-> upstreams[i].auth,
                    network |-> settings["PROXY_NETWORK"], destination |-> d]
         /\ IF IsSocks(scheme) /\ DestinationError(scheme, d) # NoRejection
            THEN pc' = "stop"
            ELSE pc' \in {"stop", "dial"}
  BY <1>1 DEF Begin, Return, Goto
<1>3. pc = "idle" /\ request' = request /\ request = <<>>
  BY <1>1 DEF Begin, framing, Asked
<1>4. IsSocks(scheme) => d \in Destinations
  BY <1>2 DEF Targets
<1>5. job'.scheme = scheme /\ job'.destination = d
  BY <1>2
<1> HIDE DEF scheme
<1>6. (IsSocks(job.scheme))' <=> IsSocks(scheme)
  BY <1>5 DEF IsSocks
<1> QED
  BY <1>2, <1>3, <1>4, <1>5, <1>6 DEF Asked, Before, Open

-----------------------------------------------------------------------------
(* The messages: what a server reads is what was written. *)

LEMMA Concat ==
    ASSUME NEW s \in Seq(Nat), NEW t \in Seq(Nat)
    PROVE  /\ s \o t \in Seq(Nat) /\ Len(s \o t) = Len(s) + Len(t)
           /\ Len(s) \in Nat /\ Len(t) \in Nat
           /\ DOMAIN (s \o t) = 1 .. Len(s) + Len(t)
           /\ \A i \in 1 .. Len(s) : (s \o t)[i] = s[i]
           /\ \A i \in 1 .. Len(t) : (s \o t)[Len(s) + i] = t[i]
<1>1. /\ s \o t \in Seq(Nat) /\ Len(s \o t) = Len(s) + Len(t)
      /\ \A i \in 1 .. Len(s) + Len(t) :
            (s \o t)[i] = IF i <= Len(s) THEN s[i] ELSE t[i - Len(s)]
  BY ConcatProperties
<1>2. Len(s) \in Nat /\ Len(t) \in Nat
  BY LenProperties
<1>3. DOMAIN (s \o t) = 1 .. Len(s) + Len(t)
  BY <1>1, LenProperties
<1>4. ASSUME NEW i \in 1 .. Len(t)
      PROVE  (s \o t)[Len(s) + i] = t[i]
  <2>1. /\ Len(s) + i \in 1 .. Len(s) + Len(t)
        /\ ~(Len(s) + i <= Len(s)) /\ (Len(s) + i) - Len(s) = i
    BY <1>2
  <2> QED
    BY <1>1, <2>1
<1> QED
  BY <1>1, <1>2, <1>3, <1>4

\* A text cut where two parts meet.
LEMMA Cuts ==
    ASSUME NEW s \in Seq(Nat), NEW t \in Seq(Nat)
    PROVE  /\ SubSeq(s \o t, 1, Len(s)) = s
           /\ SubSeq(s \o t, Len(s) + 1, Len(s \o t)) = t
<1>1. /\ s \o t \in Seq(Nat) /\ Len(s \o t) = Len(s) + Len(t)
      /\ \A i \in 1 .. Len(s) + Len(t) :
            (s \o t)[i] = IF i <= Len(s) THEN s[i] ELSE t[i - Len(s)]
  BY ConcatProperties
<1>2. /\ Len(s) \in Nat /\ Len(t) \in Nat
      /\ \A i \in 1 .. Len(s) + Len(t) : (s \o t)[i] \in Nat
  BY <1>1, LenProperties, ElementOfSeq
<1> DEFINE u == s \o t
<1>3. /\ SubSeq(u, 1, Len(s)) \in Seq(Nat)
      /\ Len(SubSeq(u, 1, Len(s))) = Len(s)
      /\ \A i \in 1 .. Len(s) : SubSeq(u, 1, Len(s))[i] = u[i]
  <2>1. \A i \in 1 .. Len(s) : u[i] \in Nat
    BY <1>2
  <2>2. 1 \in Int /\ Len(s) \in Int
    BY <1>2
  <2> HIDE DEF u
  <2> QED
    BY <1>2, <2>1, <2>2, SubSeqProperties
<1>4. /\ SubSeq(u, Len(s) + 1, Len(s) + Len(t)) \in Seq(Nat)
      /\ Len(SubSeq(u, Len(s) + 1, Len(s) + Len(t))) = Len(t)
      /\ \A i \in 1 .. Len(t) :
            SubSeq(u, Len(s) + 1, Len(s) + Len(t))[i] = u[i + Len(s)]
  <2> DEFINE m == Len(s) + 1
             n == Len(s) + Len(t)
  <2>1. m \in Int /\ n \in Int /\ n - m + 1 = Len(t) /\ m - 1 = Len(s)
    BY <1>2
  <2>2. \A i \in m .. n : u[i] \in Nat
    BY <1>2
  <2>3. /\ SubSeq(u, m, n) \in Seq(Nat)
        /\ Len(SubSeq(u, m, n)) = IF m <= n THEN n - m + 1 ELSE 0
        /\ \A i \in 1 .. n - m + 1 : SubSeq(u, m, n)[i] = u[m + i - 1]
    <3> HIDE DEF u, m, n
    <3> QED
      BY <2>1, <2>2, SubSeqProperties
  <2>4. (m <= n <=> Len(t) # 0) /\ \A i \in 1 .. Len(t) : m + i - 1 = i + Len(s)
    BY <1>2
  <2> QED
    BY <1>2, <2>1, <2>3, <2>4
<1>5. SubSeq(u, 1, Len(s)) = s
  <2>1. \A i \in 1 .. Len(s) : SubSeq(u, 1, Len(s))[i] = s[i]
    BY <1>1, <1>2, <1>3
  <2> HIDE DEF u
  <2> QED
    BY <1>3, <2>1, SeqEqual
<1>6. SubSeq(u, Len(s) + 1, Len(s) + Len(t)) = t
  <2>1. \A i \in 1 .. Len(t) : u[i + Len(s)] = t[i]
    <3> TAKE i \in 1 .. Len(t)
    <3>1. i + Len(s) \in 1 .. Len(s) + Len(t) /\ ~(i + Len(s) <= Len(s))
             /\ (i + Len(s)) - Len(s) = i
      BY <1>2
    <3> QED
      BY <1>1, <3>1
  <2> DEFINE c == SubSeq(u, Len(s) + 1, Len(s) + Len(t))
  <2>2. c \in Seq(Nat) /\ Len(c) = Len(t) /\ \A i \in 1 .. Len(t) : c[i] = t[i]
    BY <1>4, <2>1
  <2> HIDE DEF c
  <2>3. c = t
    BY <2>2, SeqEqual
  <2> QED
    BY <2>3 DEF c
<1> QED
  BY <1>1, <1>5, <1>6

\* Concatenation as an operator of its own, which the provers do not look into.
Cat(s, t) == s \o t

LEMMA CatType ==
    ASSUME NEW s \in Seq(Nat), NEW t \in Seq(Nat)
    PROVE  Cat(s, t) \in Seq(Nat)
  BY DEF Cat

LEMMA CatAssociative ==
    ASSUME NEW s \in Seq(Nat), NEW t \in Seq(Nat), NEW u \in Seq(Nat)
    PROVE  Cat(Cat(s, t), u) = Cat(s, Cat(t, u))
  BY ConcatAssociative, SMTT(30) DEF Cat

LEMMA Regroup ==
    ASSUME NEW s \in Seq(Nat), NEW t \in Seq(Nat), NEW u \in Seq(Nat)
    PROVE  (s \o t) \o u = s \o (t \o u)
<1>1. Cat(Cat(s, t), u) = Cat(s, Cat(t, u))
  BY CatAssociative
<1> QED
  BY <1>1 DEF Cat

LEMMA CatRegroup ==
    ASSUME NEW h \in Seq(Nat), NEW u \in Seq(Nat), NEW z \in Seq(Nat),
           NEW t \in Seq(Nat)
    PROVE  Cat(Cat(Cat(h, u), z), t) = Cat(h, Cat(u, Cat(z, t)))
  BY CatAssociative, CatType

\* The part in the middle.
LEMMA Middle ==
    ASSUME NEW g \in Seq(Nat), NEW a \in Seq(Nat), NEW r \in Seq(Nat)
    PROVE  SubSeq(g \o (a \o r), Len(g) + 1, Len(g) + Len(a)) = a
<1> DEFINE w == g \o (a \o r)
           h == g \o a
           c == SubSeq(w, Len(g) + 1, Len(g) + Len(a))
           k == Len(g)
           m == Len(a)
<1>1. w = h \o r
  BY Regroup
<1>2. h \in Seq(Nat) /\ Len(h) = k + m /\ k \in Nat /\ m \in Nat
      /\ \A i \in 1 .. m : h[k + i] = a[i]
  BY Concat
<1>3. w \in Seq(Nat) /\ Len(w) >= k + m /\ \A i \in 1 .. k + m : w[i] = h[i]
  <2> HIDE DEF h, w, k, m
  <2>1. /\ h \o r \in Seq(Nat) /\ Len(h \o r) = Len(h) + Len(r) /\ Len(r) \in Nat
        /\ \A i \in 1 .. Len(h) : (h \o r)[i] = h[i]
    BY <1>2, Concat
  <2> QED
    BY <1>1, <1>2, <2>1
<1>4. \A i \in k + 1 .. k + m : w[i] \in Nat
  <2> HIDE DEF h, w, k, m
  <2> QED
    BY <1>2, <1>3, ElementOfSeq
<1>5. c \in Seq(Nat) /\ Len(c) = m /\ \A i \in 1 .. m : c[i] = w[k + i]
  <2> HIDE DEF h, w
  <2>1. k + 1 \in Int /\ k + m \in Int /\ (k + m) - (k + 1) + 1 = m
    BY <1>2
  <2> DEFINE x == k + 1
             y == k + m
  <2>2. /\ SubSeq(w, x, y) \in Seq(Nat)
        /\ Len(SubSeq(w, x, y)) = IF x <= y THEN y - x + 1 ELSE 0
        /\ \A i \in 1 .. y - x + 1 : SubSeq(w, x, y)[i] = w[x + i - 1]
    <3> HIDE DEF k, m
    <3>1. x \in Int /\ y \in Int /\ \A i \in x .. y : w[i] \in Nat
      BY <1>4, <2>1
    <3> HIDE DEF x, y
    <3> QED
      BY <3>1, SubSeqProperties
  <2>3. (x <= y <=> m # 0) /\ \A i \in 1 .. m : x + i - 1 = k + i
    BY <1>2
  <2> QED
    BY <1>2, <2>1, <2>2, <2>3
<1>6. \A i \in 1 .. m : c[i] = a[i]
  <2> HIDE DEF c, h, w, k
  <2> TAKE i \in 1 .. m
  <2>1. k + i \in 1 .. k + m
    BY <1>2
  <2> QED
    BY <1>2, <1>3, <1>5, <2>1
<1> HIDE DEF c
<1> QED
  BY <1>5, <1>6, SeqEqual DEF c

\* A text without a zero byte ends at the first one.
LEMMA ZeroEnds ==
    ASSUME NEW u \in Seq(Nat), NEW t \in Seq(Nat), ~Contains(u, 0)
    PROVE  LET s == u \o (<<0>> \o t)
           IN  /\ FirstZero(s) = Len(u) + 1
               /\ SubSeq(s, 1, Len(u)) = u
               /\ SubSeq(s, Len(u) + 2, Len(s)) = t
<1> DEFINE z == <<0>>
           v == z \o t
           s == u \o v
<1>1. z \in Seq(Nat) /\ Len(z) = 1 /\ z[1] = 0
  OBVIOUS
<1> HIDE DEF z
<1>2. v \in Seq(Nat) /\ Len(v) = 1 + Len(t) /\ v[1] = 0 /\ Len(t) \in Nat
  <2>1. /\ z \o t \in Seq(Nat) /\ Len(z \o t) = Len(z) + Len(t) /\ Len(t) \in Nat
        /\ \A i \in 1 .. Len(z) : (z \o t)[i] = z[i]
    <3>1. z \in Seq(Nat)
      BY <1>1
    <3> QED
      BY <3>1, Concat
  <2>2. 1 \in 1 .. Len(z)
    BY <1>1
  <2> QED
    BY <1>1, <2>1, <2>2
<1> HIDE DEF v
<1>3. /\ DOMAIN s = 1 .. Len(u) + Len(v) /\ Len(u) \in Nat
      /\ \A i \in 1 .. Len(u) : s[i] = u[i]
      /\ \A i \in 1 .. Len(v) : s[Len(u) + i] = v[i]
  BY <1>2, Concat
<1>4. SubSeq(s, 1, Len(u)) = u
  BY <1>2, Cuts
<1>5. SubSeq(s, Len(u) + 2, Len(s)) = t
  <2>1. u \o z \in Seq(Nat) /\ Len(u \o z) = Len(u) + 1
    <3>1. z \in Seq(Nat)
      BY <1>1
    <3>2. u \o z \in Seq(Nat) /\ Len(u \o z) = Len(u) + Len(z)
      BY <3>1, Concat
    <3> QED
      BY <1>1, <3>2
  <2>2. SubSeq((u \o z) \o t, Len(u \o z) + 1, Len((u \o z) \o t)) = t
    BY <2>1, Cuts
  <2>3. s = (u \o z) \o t
    BY <1>1, Regroup DEF v
  <2>4. Len(u \o z) + 1 = Len(u) + 2
    BY <1>3, <2>1
  <2> QED
    BY <2>2, <2>3, <2>4
<1>6. s[Len(u) + 1] = 0 /\ \A i \in 1 .. Len(u) : s[i] # 0
  <2>1. 1 \in 1 .. Len(v)
    BY <1>2
  <2>2. \A i \in 1 .. Len(u) : u[i] # 0
    BY LenProperties DEF Contains
  <2> HIDE DEF s
  <2> QED
    BY <1>2, <1>3, <2>1, <2>2
<1>7. FirstZero(s) = Len(u) + 1
  <2> HIDE DEF s
  <2>1. ASSUME NEW i \in DOMAIN s, s[i] = 0, \A j \in 1 .. i - 1 : s[j] # 0
        PROVE  i = Len(u) + 1
    <3>1. CASE i <= Len(u)
      BY <1>3, <1>6, <2>1, <3>1
    <3>2. CASE i > Len(u) + 1
      BY <1>3, <1>6, <2>1, <3>2
    <3> QED
      BY <1>3, <3>1, <3>2
  <2>2. /\ Len(u) + 1 \in DOMAIN s
        /\ \A j \in 1 .. (Len(u) + 1) - 1 : s[j] # 0
    BY <1>2, <1>3, <1>6
  <2> QED
    BY <1>6, <2>1, <2>2 DEF FirstZero
<1> QED
  BY <1>4, <1>5, <1>7 DEF s, v, z

LEMMA Remainder ==
    ASSUME NEW a \in Nat, NEW b \in Nat, a < b
    PROVE  a % b = a
  OBVIOUS

\* The two bytes of a port.
LEMMA PortIsWritten ==
    ASSUME NEW port \in 1 .. MaxPort
    PROVE  /\ PortBytes(port) \in Seq(Nat) /\ Len(PortBytes(port)) = 2
           /\ PortBytes(port)[1] * Byte + PortBytes(port)[2] = port
<1>1. Byte \in Nat /\ Byte > 0 /\ port \in Nat
  BY SocksAssumption DEF MaxPort
<1>2. /\ port \div Byte \in Nat /\ port % Byte \in Nat
      /\ (port \div Byte) * Byte + (port % Byte) = port
  BY <1>1
<1> QED
  BY <1>2 DEF PortBytes

\* The server finds a port, an address, a user name and perhaps a name in w.
Finds(w, p, a, u, n, t) ==
    Understood4(w) =
        [kind |-> IF Marker(a) THEN "name" ELSE "ip4",
         host |-> IF Marker(a) THEN n ELSE a,
         port |-> p[1] * Byte + p[2], user |-> u,
         tail |-> IF Marker(a) THEN <<>> ELSE t]

LEMMA Parsed4 ==
    ASSUME NEW p \in Seq(Nat), Len(p) = 2, NEW a \in Seq(Nat), Len(a) = 4,
           NEW u \in Seq(Nat), ~Contains(u, 0), NEW t \in Seq(Nat),
           NEW n \in Seq(Nat), ~Contains(n, 0), Marker(a) => t = n \o << 0 >>,
           NEW w, w = <<4, 1>> \o p \o a \o u \o << 0 >> \o t
    PROVE  Finds(w, p, a, u, n, t)
<1> DEFINE c == <<4, 1>>
           z == <<0>>
           rest == u \o (z \o t)
<1>1. c \in Seq(Nat) /\ Len(c) = 2 /\ z \in Seq(Nat) /\ <<>> \in Seq(Nat)
  OBVIOUS
<1> HIDE DEF c, z
<1>2. /\ c \o p \in Seq(Nat) /\ Len(c \o p) = 4
      /\ \A i \in 1 .. 2 : (c \o p)[2 + i] = p[i]
  <2>1. /\ c \o p \in Seq(Nat) /\ Len(c \o p) = Len(c) + Len(p)
        /\ \A i \in 1 .. Len(p) : (c \o p)[Len(c) + i] = p[i]
    BY <1>1, Concat
  <2> QED
    BY <1>1, <2>1
<1> DEFINE g == c \o p
           h == g \o a
<1> HIDE DEF g
<1>3. g \in Seq(Nat) /\ Len(g) = 4 /\ g[3] = p[1] /\ g[4] = p[2]
  <2>1. g[2 + 1] = p[1] /\ g[2 + 2] = p[2]
    BY <1>2 DEF g
  <2> QED
    BY <1>2, <2>1 DEF g
<1>4. /\ h \in Seq(Nat) /\ Len(h) = 8 /\ h[3] = p[1] /\ h[4] = p[2]
  <2>1. /\ h \in Seq(Nat) /\ Len(h) = Len(g) + Len(a)
        /\ \A i \in 1 .. Len(g) : h[i] = g[i]
    BY <1>3, Concat
  <2> HIDE DEF h
  <2> QED
    BY <1>3, <2>1
<1>5. z \o t \in Seq(Nat) /\ rest \in Seq(Nat)
  <2>1. z \o t \in Seq(Nat)
    BY <1>1, Concat
  <2> QED
    BY <2>1, Concat
<1>6. w = h \o rest
  <2>1. Cat(Cat(Cat(h, u), z), t) = Cat(h, Cat(u, Cat(z, t)))
    <3> HIDE DEF h
    <3> QED
      BY <1>1, <1>4, CatRegroup
  <2> QED
    BY <2>1 DEF Cat, g, c, z
<1>7. h \o rest = g \o (a \o rest)
  <2>1. Cat(Cat(g, a), rest) = Cat(g, Cat(a, rest))
    <3> HIDE DEF rest
    <3> QED
      BY <1>3, <1>5, CatAssociative
  <2> QED
    BY <2>1 DEF Cat
<1>8. SubSeq(w, 5, 8) = a
  <2>1. SubSeq(g \o (a \o rest), Len(g) + 1, Len(g) + Len(a)) = a
    BY <1>3, <1>5, Middle
  <2>2. Len(g) + 1 = 5 /\ Len(g) + Len(a) = 8
    BY <1>3
  <2> QED
    BY <1>6, <1>7, <2>1, <2>2
<1>9. w[3] = p[1] /\ w[4] = p[2] /\ SubSeq(w, 9, Len(w)) = rest
  <2> HIDE DEF h, rest
  <2>1. /\ \A i \in 1 .. Len(h) : (h \o rest)[i] = h[i]
    BY <1>4, <1>5, Concat
  <2>2. SubSeq(h \o rest, Len(h) + 1, Len(h \o rest)) = rest
    BY <1>4, <1>5, Cuts
  <2>3. Len(h) + 1 = 9 /\ 3 \in 1 .. Len(h) /\ 4 \in 1 .. Len(h)
    BY <1>4
  <2> QED
    BY <1>4, <1>6, <2>1, <2>2, <2>3
<1>10. /\ FirstZero(rest) = Len(u) + 1
       /\ SubSeq(rest, 1, Len(u)) = u
       /\ SubSeq(rest, Len(u) + 2, Len(rest)) = t
  BY ZeroEnds DEF z
<1>11. Marker(a) =>
         /\ FirstZero(t) = Len(n) + 1
         /\ SubSeq(t, 1, Len(n)) = n
         /\ SubSeq(t, Len(n) + 2, Len(t)) = <<>>
  <2> SUFFICES ASSUME Marker(a)
               PROVE  /\ FirstZero(t) = Len(n) + 1
                      /\ SubSeq(t, 1, Len(n)) = n
                      /\ SubSeq(t, Len(n) + 2, Len(t)) = <<>>
    OBVIOUS
  <2>1. z \o <<>> = z
    BY <1>1, ConcatEmptySeq
  <2>2. t = n \o (<<0>> \o <<>>)
    BY <2>1 DEF z
  <2> QED
    BY <1>1, <2>2, ZeroEnds
<1>12. /\ Len(u) \in Nat /\ Len(n) \in Nat
       /\ (Len(u) + 1) - 1 = Len(u) /\ (Len(u) + 1) + 1 = Len(u) + 2
       /\ (Len(n) + 1) - 1 = Len(n) /\ (Len(n) + 1) + 1 = Len(n) + 2
  <2>1. Len(u) \in Nat /\ Len(n) \in Nat
    BY LenProperties
  <2> QED
    BY <2>1
<1> HIDE DEF rest
<1>13. Understood4(w) =
         [kind |-> IF Marker(a) THEN "name" ELSE "ip4",
          host |-> IF Marker(a) THEN n ELSE a,
          port |-> p[1] * Byte + p[2], user |-> u,
          tail |-> IF Marker(a) THEN <<>> ELSE t]
  <2>1. Understood4(w) =
         [kind |-> IF Marker(a) THEN "name" ELSE "ip4",
          host |-> IF Marker(a) THEN SubSeq(t, 1, FirstZero(t) - 1) ELSE a,
          port |-> p[1] * Byte + p[2], user |-> u,
          tail |-> IF Marker(a) THEN SubSeq(t, FirstZero(t) + 1, Len(t)) ELSE t]
    BY <1>8, <1>9, <1>10, <1>12, ZenonT(40) DEF Understood4
  <2>2. Marker(a) => /\ SubSeq(t, 1, FirstZero(t) - 1) = n
                     /\ SubSeq(t, FirstZero(t) + 1, Len(t)) = <<>>
    BY <1>11, <1>12, Zenon
  <2> QED
    BY <2>1, <2>2
<1> QED
  BY <1>13 DEF Finds

\* A kind x, an address h and a port p lie in the request w.
Lies(w, x, h, p) ==
    LET k == 3 + Len(x)
    IN  /\ w[4] = x[1] /\ (Len(x) = 2 => w[5] = x[2])
        /\ SubSeq(w, k + 1, k + Len(h)) = h
        /\ w[k + Len(h) + 1] = p[1] /\ w[k + Len(h) + 2] = p[2]
        /\ SubSeq(w, k + Len(h) + 3, Len(w)) = <<>>

LEMMA Laid5 ==
    ASSUME NEW x \in Seq(Nat), Len(x) \in {1, 2}, NEW h \in Seq(Nat),
           NEW p \in Seq(Nat), Len(p) = 2,
           NEW w, w = <<5, 1, 0>> \o (x \o h) \o p
    PROVE  Lies(w, x, h, p)
<1> DEFINE k == 3 + Len(x)
           c == <<5, 1, 0>>
           g == c \o x
           e == g \o h
<1>1. c \in Seq(Nat) /\ Len(c) = 3 /\ <<>> \in Seq(Nat)
  OBVIOUS
<1> HIDE DEF c
<1>2. Len(h) \in Nat /\ k \in Nat
  BY LenProperties
<1>3. /\ g \in Seq(Nat) /\ Len(g) = k
      /\ \A i \in 1 .. Len(x) : g[3 + i] = x[i]
  <2>1. /\ g \in Seq(Nat) /\ Len(g) = Len(c) + Len(x)
        /\ \A i \in 1 .. Len(x) : g[Len(c) + i] = x[i]
    BY <1>1, Concat
  <2> HIDE DEF g
  <2> QED
    BY <1>1, <2>1
<1> HIDE DEF g
<1>4. /\ e \in Seq(Nat) /\ Len(e) = k + Len(h)
      /\ \A i \in 1 .. k : e[i] = g[i]
  <2>1. /\ e \in Seq(Nat) /\ Len(e) = Len(g) + Len(h)
        /\ \A i \in 1 .. Len(g) : e[i] = g[i]
    BY <1>3, Concat
  <2> HIDE DEF e, k
  <2> QED
    BY <1>3, <2>1
<1>5. w = e \o p
  <2>1. Cat(Cat(c, x), h) = Cat(c, Cat(x, h))
    BY <1>1, CatAssociative
  <2> QED
    BY <2>1 DEF Cat, g, c
<1>6. e \o p = g \o (h \o p)
  <2>1. Cat(Cat(g, h), p) = Cat(g, Cat(h, p))
    BY <1>3, CatAssociative
  <2> QED
    BY <2>1 DEF Cat
<1>7. SubSeq(w, k + 1, k + Len(h)) = h
  <2>1. SubSeq(g \o (h \o p), Len(g) + 1, Len(g) + Len(h)) = h
    BY <1>3, Middle
  <2> QED
    BY <1>3, <1>5, <1>6, <2>1
<1> HIDE DEF e, k
<1>8. /\ w \in Seq(Nat) /\ Len(w) = k + Len(h) + 2
      /\ \A i \in 1 .. k + Len(h) : w[i] = e[i]
      /\ \A i \in 1 .. 2 : w[k + Len(h) + i] = p[i]
  <2>1. /\ e \o p \in Seq(Nat) /\ Len(e \o p) = Len(e) + Len(p)
        /\ \A i \in 1 .. Len(e) : (e \o p)[i] = e[i]
        /\ \A i \in 1 .. Len(p) : (e \o p)[Len(e) + i] = p[i]
    BY <1>4, Concat
  <2> QED
    BY <1>2, <1>4, <1>5, <2>1
<1>9. w[4] = x[1] /\ (Len(x) = 2 => w[5] = x[2])
  <2>1. \A i \in 1 .. Len(x) : w[3 + i] = x[i]
    <3> TAKE i \in 1 .. Len(x)
    <3>1. 3 + i \in 1 .. k /\ 3 + i \in 1 .. k + Len(h)
      BY <1>2 DEF k
    <3> QED
      BY <1>3, <1>4, <1>8, <3>1
  <2>2. w[3 + 1] = x[1] /\ (Len(x) = 2 => w[3 + 2] = x[2])
    BY <2>1
  <2> QED
    BY <2>2
<1>10. SubSeq(w, k + Len(h) + 3, Len(w)) = <<>>
  <2>1. SubSeq(w \o <<>>, Len(w) + 1, Len(w \o <<>>)) = <<>>
    BY <1>1, <1>8, Cuts, SMTT(20)
  <2>2. w \o <<>> = w
    BY <1>8, ConcatEmptySeq
  <2>3. Len(w) + 1 = k + Len(h) + 3
    <3>1. Len(w) = k + Len(h) + 2
      BY <1>8, Zenon
    <3>2. (k + Len(h) + 2) + 1 = k + Len(h) + 3
      BY <1>2
    <3> QED
      BY <3>1, <3>2, Zenon
  <2> QED
    BY <2>1, <2>2, <2>3
<1>11. w[k + Len(h) + 1] = p[1] /\ w[k + Len(h) + 2] = p[2]
  <2>1. 1 \in 1 .. 2 /\ 2 \in 1 .. 2
    OBVIOUS
  <2> QED
    BY <1>8, <2>1, Zenon
<1> QED
  BY <1>7, <1>9, <1>10, <1>11, Zenon DEF Lies, k

\* The server reads what connect4 was asked to ask for.
LEMMA Read4 ==
    ASSUME NEW d \in Destinations, NEW auth,
           auth.enabled => auth.username \in Seq(Nat),
           DestinationError("socks4", d) = NoRejection,
           HandshakeError("socks4", d, auth) = NoRejection
    PROVE  Understood4(Request4(d, auth)) =
               [kind |-> d.kind, host |-> d.host, port |-> d.port, tail |-> <<>>,
                user |-> IF auth.enabled THEN auth.username ELSE <<>>]
<1> DEFINE a == IF d.kind = "ip4" THEN d.host ELSE <<0, 0, 0, 1>>
           u == IF auth.enabled THEN auth.username ELSE <<>>
           t == IF d.kind = "name" THEN d.host \o <<0>> ELSE <<>>
           n == IF d.kind = "name" THEN d.host ELSE <<>>
           p == PortBytes(d.port)
<1>1. /\ d.port \in 1 .. MaxPort /\ d.kind \in {"ip4", "name"}
      /\ d.kind = "name" => ~Contains(d.host, 0)
      /\ d.host \in Seq(Nat) /\ (d.kind = "ip4" => Len(d.host) = 4)
  BY DestinationAssumption DEF DestinationError, NoRejection
<1>2. /\ d.kind = "ip4" => ~Marker(d.host)
      /\ auth.enabled => ~Contains(auth.username, 0)
  BY DEF HandshakeError, NoRejection
<1>3. /\ <<>> \in Seq(Nat) /\ ~Contains(<<>>, 0)
      /\ <<0, 0, 0, 1>> \in Seq(Nat) /\ Len(<<0, 0, 0, 1>>) = 4
      /\ Marker(<<0, 0, 0, 1>>) /\ <<0>> \in Seq(Nat)
  BY DEF Contains, Marker
<1>4. /\ a \in Seq(Nat) /\ Len(a) = 4 /\ (Marker(a) <=> d.kind = "name")
  BY <1>1, <1>2, <1>3
<1>5. u \in Seq(Nat) /\ ~Contains(u, 0) /\ n \in Seq(Nat) /\ ~Contains(n, 0)
  BY <1>1, <1>2, <1>3
<1>6. t \in Seq(Nat) /\ (Marker(a) => t = n \o <<0>>)
  BY <1>1, <1>3, <1>4, Concat
<1>7. p \in Seq(Nat) /\ Len(p) = 2 /\ p[1] * Byte + p[2] = d.port
  BY <1>1, PortIsWritten
<1> DEFINE w == Request4(d, auth)
<1>8. w = <<4, 1>> \o p \o a \o u \o <<0>> \o t
  BY DEF Request4
<1> HIDE DEF p, a, u, t, n, w
<1>9. Understood4(w) =
          [kind |-> IF Marker(a) THEN "name" ELSE "ip4",
           host |-> IF Marker(a) THEN n ELSE a,
           port |-> p[1] * Byte + p[2], user |-> u,
           tail |-> IF Marker(a) THEN <<>> ELSE t]
  <2>1. /\ p \in Seq(Nat) /\ Len(p) = 2 /\ a \in Seq(Nat) /\ Len(a) = 4
        /\ u \in Seq(Nat) /\ ~Contains(u, 0) /\ t \in Seq(Nat)
        /\ n \in Seq(Nat) /\ ~Contains(n, 0)
    BY <1>4, <1>5, <1>6, <1>7
  <2>2. Marker(a) => t = n \o <<0>>
    BY <1>6
  <2> QED
    <3>1. Finds(w, p, a, u, n, t)
      BY <1>8, <2>1, <2>2, Parsed4
    <3> QED
      BY <3>1, Zenon DEF Finds
<1> QED
  BY <1>1, <1>4, <1>7, <1>9 DEF a, u, t, n, w

\* The same of connect5; a name's length fits its byte.
LEMMA Read5 ==
    ASSUME NEW d \in Destinations, DestinationError("socks5", d) = NoRejection
    PROVE  Understood5(Request5(d)) =
               [kind |-> d.kind, host |-> d.host, port |-> d.port, tail |-> <<>>]
<1> DEFINE h == d.host
           p == PortBytes(d.port)
           x == CASE d.kind = "ip4" -> <<1>> [] d.kind = "ip6" -> <<4>>
                  [] OTHER -> <<3, LengthByte(h)>>
           w == Request5(d)
<1>1. /\ d.port \in 1 .. MaxPort /\ d.kind \in {"ip4", "ip6", "name"}
      /\ h \in Seq(Nat) /\ (d.kind = "ip4" => Len(h) = 4)
      /\ d.kind = "ip6" => Len(h) = 16
      /\ d.kind = "name" => Len(h) <= Byte - 1
  <2>1. /\ d.kind \in {"ip4", "ip6", "name"} /\ h \in Seq(Nat)
        /\ d.kind = "ip4" => Len(h) = 4
        /\ d.kind = "ip6" => Len(h) = 16
    BY DestinationAssumption
  <2>2. Len(h) \in Nat /\ Byte - 1 \in Int
    BY <2>1, LenProperties, SocksAssumption
  <2>3. d.port \in 1 .. MaxPort /\ ~(d.kind = "name" /\ Len(h) > Byte - 1)
    BY Zenon DEF DestinationError, NoRejection
  <2> QED
    BY <2>1, <2>2, <2>3
<1> HIDE DEF h
<1>2. Len(h) \in Nat /\ Byte \in Nat /\ Byte > 0
  BY <1>1, LenProperties, SocksAssumption
<1>3. LengthByte(h) \in Nat /\ (d.kind = "name" => LengthByte(h) = Len(h))
  <2> DEFINE l == Len(h)
  <2>1. l \in Nat /\ (d.kind = "name" => l < Byte)
    BY <1>1, <1>2
  <2> HIDE DEF l
  <2>2. l % Byte \in Nat
    BY <1>2, <2>1
  <2>3. d.kind = "name" => l % Byte = l
    BY <1>2, <2>1, Remainder
  <2> QED
    BY <2>2, <2>3 DEF LengthByte, l
<1>4. p \in Seq(Nat) /\ Len(p) = 2 /\ p[1] * Byte + p[2] = d.port
  BY <1>1, PortIsWritten
<1> HIDE DEF p
<1>5. /\ x \in Seq(Nat) /\ Len(x) \in {1, 2}
      /\ d.kind = "ip4" => Len(x) = 1 /\ x[1] = 1
      /\ d.kind = "ip6" => Len(x) = 1 /\ x[1] = 4
      /\ d.kind = "name" => Len(x) = 2 /\ x[1] = 3 /\ x[2] = Len(h)
  BY <1>1, <1>3
<1>6. w = <<5, 1, 0>> \o (x \o h) \o p
  <2>1. x \o h = CASE d.kind = "ip4" -> <<1>> \o h
                   [] d.kind = "ip6" -> <<4>> \o h
                   [] OTHER -> <<3, LengthByte(h)>> \o h
    BY <1>1
  <2> QED
    BY <2>1 DEF Request5, p, h
<1> HIDE DEF x, w
<1> DEFINE k == 3 + Len(x)
<1> HIDE DEF k
<1>7. /\ w[4] = x[1] /\ (Len(x) = 2 => w[5] = x[2])
      /\ SubSeq(w, k + 1, k + Len(h)) = h
      /\ w[k + Len(h) + 1] = p[1] /\ w[k + Len(h) + 2] = p[2]
      /\ SubSeq(w, k + Len(h) + 3, Len(w)) = <<>>
  <2>1. /\ x \in Seq(Nat) /\ Len(x) \in {1, 2} /\ h \in Seq(Nat)
        /\ p \in Seq(Nat) /\ Len(p) = 2
    BY <1>1, <1>4, <1>5
  <2>2. Lies(w, x, h, p)
    BY <1>6, <2>1, Laid5
  <2> QED
    BY <2>2, Zenon DEF Lies, k
<1> DEFINE first == IF w[4] = 3 THEN 6 ELSE 5
           size == CASE w[4] = 1 -> 4 [] w[4] = 4 -> 16 [] OTHER -> w[5]
<1>8. first = k + 1 /\ size = Len(h) /\ k \in Nat
  <2>1. w[4] = x[1] /\ (Len(x) = 2 => w[5] = x[2])
    BY <1>7, Zenon
  <2>2. CASE d.kind = "ip4"
    <3>1. Len(x) = 1 /\ w[4] = 1 /\ Len(h) = 4
      BY <1>1, <1>5, <2>1, <2>2
    <3>2. first = 5 /\ size = 4
      BY <3>1
    <3> QED
      BY <3>1, <3>2 DEF k
  <2>3. CASE d.kind = "ip6"
    <3>1. Len(x) = 1 /\ w[4] = 4 /\ Len(h) = 16
      BY <1>1, <1>5, <2>1, <2>3
    <3>2. first = 5 /\ size = 16
      BY <3>1
    <3> QED
      BY <3>1, <3>2 DEF k
  <2>4. CASE d.kind = "name"
    <3>1. Len(x) = 2 /\ w[4] = 3 /\ w[5] = Len(h)
      BY <1>1, <1>5, <2>1, <2>4
    <3>2. first = 6 /\ size = Len(h)
      BY <3>1
    <3> QED
      BY <3>1, <3>2 DEF k
  <2> QED
    BY <1>1, <2>2, <2>3, <2>4
<1> HIDE DEF first, size
<1>9. /\ first + size - 1 = k + Len(h) /\ first + size = k + Len(h) + 1
      /\ first + size + 1 = k + Len(h) + 2 /\ first + size + 2 = k + Len(h) + 3
  BY <1>2, <1>8
<1>10. (CASE w[4] = 1 -> "ip4" [] w[4] = 4 -> "ip6" [] OTHER -> "name") = d.kind
  BY <1>1, <1>5, <1>7
<1>11. Understood5(w) =
         [kind |-> (CASE w[4] = 1 -> "ip4" [] w[4] = 4 -> "ip6" [] OTHER -> "name"),
          host |-> SubSeq(w, first, first + size - 1),
          port |-> w[first + size] * Byte + w[first + size + 1],
          tail |-> SubSeq(w, first + size + 2, Len(w))]
  BY Zenon DEF Understood5, first, size
<1> QED
  BY <1>4, <1>7, <1>8, <1>9, <1>10, <1>11 DEF w, h

\* The first byte tells a login from a request.
Starts(s, b) == s \in Seq(Nat) /\ Len(s) > 0 /\ s[1] = b

LEMMA StartStays ==
    ASSUME NEW b, NEW s, Starts(s, b), NEW t \in Seq(Nat)
    PROVE  Starts(s \o t, b)
<1>1. s \in Seq(Nat) /\ Len(s) > 0 /\ s[1] = b
  BY DEF Starts
<1>2. /\ s \o t \in Seq(Nat) /\ Len(s \o t) = Len(s) + Len(t)
      /\ Len(s) \in Nat /\ Len(t) \in Nat
      /\ \A i \in 1 .. Len(s) : (s \o t)[i] = s[i]
  BY <1>1, Concat
<1>3. 1 \in 1 .. Len(s)
  BY <1>1, <1>2
<1> QED
  BY <1>1, <1>2, <1>3 DEF Starts

LEMMA LengthByteIsNat ==
    ASSUME NEW t \in Seq(Nat)
    PROVE  LengthByte(t) \in Nat
<1> DEFINE l == Len(t)
<1>1. l \in Nat /\ Byte \in Nat /\ Byte > 0
  BY LenProperties, SocksAssumption
<1> HIDE DEF l
<1>2. l % Byte \in Nat
  BY <1>1
<1> QED
  BY <1>2 DEF LengthByte, l

LEMMA LoginStartsWithOne ==
    ASSUME NEW auth, auth.username \in Seq(Nat), auth.password \in Seq(Nat)
    PROVE  Starts(Login5(auth), 1)
<1> DEFINE u == auth.username
           p == auth.password
           g == <<1, LengthByte(u)>>
           n == <<LengthByte(p)>>
<1>1. LengthByte(u) \in Nat /\ LengthByte(p) \in Nat
  BY LengthByteIsNat
<1>2. u \in Seq(Nat) /\ p \in Seq(Nat) /\ n \in Seq(Nat)
  BY <1>1
<1>3. Starts(g, 1)
  BY <1>1 DEF Starts
<1> HIDE DEF g, n, u, p
<1>4. Starts(g \o u, 1)
  BY <1>2, <1>3, StartStays
<1>5. Starts(g \o u \o n, 1)
  BY <1>2, <1>4, StartStays
<1>6. Starts(g \o u \o n \o p, 1)
  BY <1>2, <1>5, StartStays
<1> QED
  BY <1>6 DEF Login5, g, n, u, p

LEMMA RequestStartsWithFive ==
    ASSUME NEW d \in Destinations, d.port \in 1 .. MaxPort
    PROVE  Starts(Request5(d), 5)
<1> DEFINE h == d.host
           p == PortBytes(d.port)
           a == CASE d.kind = "ip4" -> <<1>> \o h
                  [] d.kind = "ip6" -> <<4>> \o h
                  [] OTHER -> <<3, LengthByte(h)>> \o h
           c == <<5, 1, 0>>
<1>1. h \in Seq(Nat) /\ LengthByte(h) \in Nat
  BY DestinationAssumption, LengthByteIsNat
<1>2. a \in Seq(Nat)
  <2> HIDE DEF h
  <2>1. /\ <<1>> \in Seq(Nat) /\ <<4>> \in Seq(Nat)
        /\ <<3, LengthByte(h)>> \in Seq(Nat)
    BY <1>1
  <2>2. /\ <<1>> \o h \in Seq(Nat) /\ <<4>> \o h \in Seq(Nat)
        /\ <<3, LengthByte(h)>> \o h \in Seq(Nat)
    BY <1>1, <2>1, Concat
  <2> QED
    BY <2>2
<1>3. p \in Seq(Nat)
  BY PortIsWritten
<1>4. Starts(c, 5)
  BY DEF Starts
<1>5. Request5(d) = c \o a \o p
  BY DEF Request5
<1> HIDE DEF a, p, c
<1>6. Starts(c \o a, 5)
  BY <1>2, <1>4, StartStays
<1>7. Starts(c \o a \o p, 5)
  BY <1>3, <1>6, StartStays
<1> QED
  BY <1>5, <1>7

\* The server reads the credentials that connect5 was given.
LEMMA ReadLogin ==
    ASSUME NEW auth, auth.username \in Seq(Nat), auth.password \in Seq(Nat),
           Len(auth.username) \in 1 .. Byte - 1, Len(auth.password) \in 1 .. Byte - 1
    PROVE  UnderstoodLogin(Login5(auth)) =
               [user |-> auth.username, password |-> auth.password, tail |-> <<>>]
<1> DEFINE u == auth.username
           p == auth.password
           c == <<1, Len(u)>>
           n == <<Len(p)>>
           rest == n \o p
           w == Login5(auth)
<1>1. /\ u \in Seq(Nat) /\ p \in Seq(Nat)
      /\ Len(u) \in Nat /\ Len(u) < Byte /\ Len(p) \in Nat /\ Len(p) < Byte
      /\ Byte \in Nat
  BY SocksAssumption
<1> HIDE DEF u, p
<1>2. LengthByte(u) = Len(u) /\ LengthByte(p) = Len(p)
  BY <1>1, Remainder DEF LengthByte
<1>3. w = ((c \o u) \o n) \o p
  BY <1>2 DEF Login5, u, p
<1>4. /\ c \in Seq(Nat) /\ Len(c) = 2 /\ c[2] = Len(u)
      /\ n \in Seq(Nat) /\ Len(n) = 1 /\ n[1] = Len(p)
  BY <1>1
<1> HIDE DEF c, n, w
<1>5. /\ rest \in Seq(Nat) /\ Len(rest) = 1 + Len(p) /\ rest[1] = Len(p)
      /\ SubSeq(rest, 2, Len(rest)) = p
  <2>1. /\ n \o p \in Seq(Nat) /\ Len(n \o p) = Len(n) + Len(p)
        /\ \A i \in 1 .. Len(n) : (n \o p)[i] = n[i]
    BY <1>1, <1>4, Concat
  <2>2. SubSeq(n \o p, Len(n) + 1, Len(n \o p)) = p
    BY <1>1, <1>4, Cuts
  <2>3. 1 \in 1 .. Len(n) /\ Len(n) + 1 = 2
    BY <1>4
  <2> QED
    BY <1>4, <2>1, <2>2, <2>3
<1> HIDE DEF rest
<1>6. w = c \o (u \o rest)
  <2>1. Cat(Cat(Cat(c, u), n), p) = Cat(c, Cat(u, Cat(n, p)))
    BY <1>1, <1>4, CatRegroup
  <2> QED
    BY <1>3, <2>1 DEF Cat, rest
<1> DEFINE t == u \o rest
           g == c \o u
<1>7. SubSeq(w, 3, 2 + Len(u)) = u
  <2>1. c \in Seq(Nat) /\ u \in Seq(Nat) /\ rest \in Seq(Nat)
    BY <1>1, <1>4, <1>5
  <2>2. SubSeq(c \o t, Len(c) + 1, Len(c) + Len(u)) = u
    BY <2>1, Middle
  <2>3. Len(c) + 1 = 3 /\ Len(c) + Len(u) = 2 + Len(u)
    BY <1>4
  <2> HIDE DEF t
  <2> QED
    BY <1>6, <2>2, <2>3 DEF t
<1>8. w[2] = Len(u)
  <2>1. t \in Seq(Nat)
    BY <1>1, <1>5, Concat
  <2> HIDE DEF t
  <2>2. \A i \in 1 .. Len(c) : (c \o t)[i] = c[i]
    BY <1>4, <2>1, Concat
  <2>3. w = c \o t /\ 2 \in 1 .. Len(c)
    BY <1>4, <1>6 DEF t
  <2> QED
    BY <1>4, <2>2, <2>3
<1>9. SubSeq(w, 3 + Len(u), Len(w)) = rest
  <2>1. g \in Seq(Nat) /\ Len(g) = 2 + Len(u)
    <3>1. c \in Seq(Nat) /\ u \in Seq(Nat)
      BY <1>1, <1>4
    <3>2. g \in Seq(Nat) /\ Len(g) = Len(c) + Len(u)
      BY <3>1, Concat
    <3> QED
      BY <1>4, <3>2
  <2>2. w = g \o rest
    <3>1. Cat(Cat(c, u), rest) = Cat(c, Cat(u, rest))
      BY <1>1, <1>4, <1>5, CatAssociative
    <3> QED
      BY <1>6, <3>1 DEF Cat
  <2> HIDE DEF g
  <2>3. SubSeq(g \o rest, Len(g) + 1, Len(g \o rest)) = rest
    BY <1>5, <2>1, Cuts
  <2>4. Len(g) + 1 = 3 + Len(u)
    BY <1>1, <2>1
  <2> QED
    BY <2>2, <2>3, <2>4
<1>10. SubSeq(rest, 2 + Len(p), Len(rest)) = <<>>
  <2>1. <<>> \in Seq(Nat) /\ rest \o <<>> = rest
    BY <1>5, ConcatEmptySeq
  <2>2. SubSeq(rest \o <<>>, Len(rest) + 1, Len(rest \o <<>>)) = <<>>
    BY <1>5, <2>1, Cuts
  <2>3. Len(rest) + 1 = 2 + Len(p)
    BY <1>1, <1>5
  <2> QED
    BY <2>1, <2>2, <2>3
<1>11. SubSeq(rest, 2, 1 + Len(p)) = p
  BY <1>5
<1>12. UnderstoodLogin(w) = [user |-> u, password |-> p, tail |-> <<>>]
  BY <1>5, <1>7, <1>8, <1>9, <1>10, <1>11 DEF UnderstoodLogin
<1> QED
  BY <1>12 DEF w, u, p

\* Credentials that connect5 accepts fit their length bytes.
LEMMA LoginLengths ==
    ASSUME NEW auth, auth.enabled, NEW d,
           HandshakeError("socks5", d, auth) = NoRejection
    PROVE  Len(auth.username) \in 1 .. Byte - 1 /\ Len(auth.password) \in 1 .. Byte - 1
  BY DEF HandshakeError, NoRejection

LEMMA TargetSeen ==
    ASSUME ConfigInv, Task, Asked
    PROVE  ServerSeesTheTarget
<1> SUFFICES ASSUME request # <<>> PROVE ServerSeesTheTarget
  BY DEF ServerSeesTheTarget
<1>1. pc # "idle" /\ Sent
  BY DEF Asked
<1>2. job.auth.username \in Seq(Nat) /\ job.auth.password \in Seq(Nat)
  <2>1. PICK i \in DOMAIN upstreams : job.auth = upstreams[i].auth
    BY <1>1 DEF Task
  <2> QED
    BY <1>1, <2>1, Served DEF Task
<1>3. IsSocks(job.scheme) /\ job.destination \in Destinations
  BY <1>1 DEF Asked, Sent, IsSocks
<1>4. CASE job.scheme = "socks4"
  <2>1. /\ request = Request4(job.destination, job.auth)
        /\ DestinationError("socks4", job.destination) = NoRejection
        /\ HandshakeError("socks4", job.destination, job.auth) = NoRejection
    BY <1>1, <1>4 DEF Sent
  <2>2. Understood4(request) =
          [kind |-> job.destination.kind, host |-> job.destination.host,
           port |-> job.destination.port, tail |-> <<>>,
           user |-> IF job.auth.enabled THEN job.auth.username ELSE <<>>]
    BY <1>2, <1>3, <2>1, Read4
  <2> QED
    BY <1>4, <2>2, Zenon DEF ServerSeesTheTarget
<1>5. CASE job.scheme = "socks5" /\ request[1] = 5
  <2>1. request # Login5(job.auth)
    <3>1. Login5(job.auth)[1] = 1
      BY <1>2, LoginStartsWithOne DEF Starts
    <3> QED
      BY <1>5, <3>1
  <2>2. /\ request = Request5(job.destination)
        /\ DestinationError("socks5", job.destination) = NoRejection
    BY <1>1, <1>5, <2>1 DEF Sent
  <2>3. Understood5(request) =
          [kind |-> job.destination.kind, host |-> job.destination.host,
           port |-> job.destination.port, tail |-> <<>>]
    BY <1>3, <2>2, Read5
  <2>4. request[1] # 1
    BY <1>5
  <2> QED
    BY <1>5, <2>3, <2>4, Zenon DEF ServerSeesTheTarget
<1>6. CASE job.scheme = "socks5" /\ request[1] = 1
  <2>1. CASE request = Request5(job.destination)
             /\ DestinationError("socks5", job.destination) = NoRejection
    <3>1. job.destination.port \in 1 .. MaxPort
      BY <2>1 DEF DestinationError, NoRejection
    <3>2. Request5(job.destination)[1] = 5
      BY <1>3, <3>1, RequestStartsWithFive DEF Starts
    <3> QED
      BY <1>6, <2>1, <3>2
  <2>2. CASE request = Login5(job.auth) /\ LoginFits
    <3>1. /\ Len(job.auth.username) \in 1 .. Byte - 1
          /\ Len(job.auth.password) \in 1 .. Byte - 1
      BY <2>2, LoginLengths DEF LoginFits
    <3>2. UnderstoodLogin(request) =
            [user |-> job.auth.username, password |-> job.auth.password, tail |-> <<>>]
      BY <1>2, <2>2, <3>1, ReadLogin
    <3>3. request[1] # 5
      BY <1>6
    <3> QED
      BY <1>6, <3>2, <3>3, Zenon DEF ServerSeesTheTarget
  <2> QED
    BY <1>1, <1>6, <2>1, <2>2 DEF Sent
<1>7. CASE job.scheme # "socks4" /\ ~(job.scheme = "socks5" /\ request[1] \in {1, 5})
  BY <1>7, Zenon DEF ServerSeesTheTarget
<1> QED
  BY <1>4, <1>5, <1>6, <1>7

-----------------------------------------------------------------------------
(* The whole *)

Inv == ConfigInv /\ ConnectionInv

LEMMA Start == Init => Inv
  BY ConfigStart, ConnectionStart DEF Init, Inv

LEMMA Step == Inv /\ [Next]_vars => Inv'
<1> SUFFICES ASSUME Inv, [Next]_vars PROVE Inv'
  OBVIOUS
<1>0. ConfigInv /\ ConnectionInv /\ Progress /\ Closing /\ Budget /\ Frame /\ Task
      /\ Asked /\ Watching
  BY DEF Inv, ConnectionInv
<1>1. CASE Load \/ UNCHANGED vars
  <2>1. UNCHANGED dialVars /\ (ConfigStep \/ UNCHANGED configVars)
    BY <1>1 DEF Load, vars
  <2>2. ConfigInv'
    BY <1>0, <2>1, ConfigKept
  <2>3. pc # "idle" => UNCHANGED <<stage, settings, upstreams>>
    <3>1. ConfigStep => stage # "serving"
      BY DEF ConfigStep, ReadYaml, ReadEnv, ApplyEnv, ValidateConfig, Run
    <3> QED
      BY <1>0, <2>1, <3>1 DEF Task, configVars
  <2>4. UNCHANGED <<job, pc, ctx, callback, seen, closed, connection, dialed, deadline,
                    remaining, partial, status, wire, bare, request, named,
                    announced, consumed, result>>
    BY <2>1 DEF dialVars, dialContext, header, framing
  <2>5. Progress' /\ Budget' /\ Frame'
    BY <1>0, <2>4 DEF Progress, Budget, Frame
  <2>6. Closing'
    BY <1>0, <2>4 DEF Closing, EndedContext, Failed
  <2>7. Task'
    BY <1>0, <2>3, <2>4 DEF Task, Network
  <2>8. Asked'
    BY <1>0, <2>4 DEF Asked, Sent, LoginFits
  <2>9. Watching'
    BY <1>0, <2>4 DEF Watching
  <2> QED
    BY <2>2, <2>5, <2>6, <2>7, <2>8, <2>9 DEF Inv, ConnectionInv
<1>2. CASE Connect
  <2>1. ConfigInv'
    BY <1>0, <1>2, ConfigKept DEF Connect
  <2>2. /\ Task'
        /\ pc = "idle"
        /\ UNCHANGED <<ctx, callback, closed, connection, deadline, remaining, wire,
                       bare, named, announced, consumed>>
        /\ \/ pc' = "dial" /\ result' = result
           \/ pc' = "stop" /\ result' \in Results \ {"ok"}
    BY <1>0, <1>2, Begins DEF dialContext, header, framing
  <2>3. result = "none" /\ callback = "none"
    BY <1>0, <2>2 DEF Progress, Closing, Before
  <2> USE DEF Before, Open, Deferred
  <2>4. Progress'
    BY <1>0, <2>2, <2>3 DEF Progress, Results
  <2>5. Closing'
    BY <1>0, <2>2, <2>3 DEF Closing, EndedContext, Failed, Results
  <2>6. Budget'
    BY <1>0, <2>2, <2>3 DEF Budget, Results
  <2>7. Frame'
    BY <1>0, <2>2, <2>3 DEF Frame, Results
  <2>8. Asked'
    BY <1>0, <1>2, AskedFirst
  <2>9. Watching'
    <3>1. seen' = seen
      BY <1>0, <1>2, Begins DEF dialContext
    <3>2. connection = "none" /\ seen = "none"
      BY <1>0, <2>2, <2>3 DEF Watching
    <3> QED
      BY <2>2, <2>3, <3>1, <3>2 DEF Watching
  <2> QED
    BY <2>1, <2>2, <2>4, <2>5, <2>6, <2>7, <2>8, <2>9 DEF Inv, ConnectionInv
<1>3. CASE SetUp
  <2>1. ConfigInv'
    BY <1>0, <1>3, ConfigKept DEF SetUp
  <2> QED
    BY <1>0, <1>3, <2>1, ProgressKept, ClosingKept, BudgetKept, FrameKept, TaskKept,
       AskedKept, WatchingKept DEF SetUp, Inv, ConnectionInv
<1> QED
  BY <1>1, <1>2, <1>3 DEF Next

LEMMA Invariant == Spec => []Inv
  BY Start, Step, PTL DEF Spec

-----------------------------------------------------------------------------
(* The theorems *)

\* Whatever the files and variables say: a setting comes from the process
\* environment, else the env file, else the YAML file, else the defaults, and a
\* variable that would be without effect stops the start (config.go and env.go).
THEOREM Sources == Spec => []SourcesTakeEffect
  BY Invariant, EffectOfSources, PTL DEF Inv

\* The upstreams come from the variables or from the YAML file, never from both
\* (applyUpstreamEnv replaces the list).
THEOREM OneOrigin == Spec => []UpstreamsHaveOneOrigin
  BY Invariant, OriginOfUpstreams, PTL DEF Inv

\* A server that serves has limits that fit, a protected public listener and
\* upstreams whose own settings never fail a connection (Validate), and its
\* tunnels use the network that was configured (dialConnect).
THEOREM AcceptedHold == Spec => []AcceptedSettingsHold
<1>1. Inv => AcceptedSettingsHold
  BY LimitsServed DEF Inv, ConnectionInv, Task, AcceptedSettingsHold, Network
<1> QED
  BY <1>1, Invariant, PTL

\* The deferred calls of dialConnect and DialContext close every connection whose
\* setup failed, and nothing closes one that was returned in time.
THEOREM OnlyFailedClose == Spec => []OnlyFailedSetupsClose
<1>1. Inv => OnlyFailedSetupsClose
  BY DEF Inv, ConnectionInv, Progress, Closing, EndedContext, Open, Before, Deferred,
         OnlyFailedSetupsClose, Failed
<1> QED
  BY <1>1, Invariant, PTL

\* setupError: whatever fails after the end of the context is reported as that end,
\* whoever asked for the connection, but for a refusal and three SetDeadlines.
THEOREM InterruptionsReported == Spec => InterruptionIsReported
<1> DEFINE Reported ==
        result = "none" /\ Failed' /\ ctx # "live" =>
            result' = ContextError \/ SaysNothing
<1>1. ASSUME Inv, [Next]_vars PROVE Reported
  <2> SUFFICES ASSUME result = "none", Failed', ctx # "live"
               PROVE  result' = ContextError \/ SaysNothing
    OBVIOUS
  <2>0. Progress /\ Closing /\ result' # result
    BY <1>1 DEF Inv, ConnectionInv, Failed
  <2>1. \A e \in {"failed", "timeout", "unsupported", "config"} :
           SetupError(e) = ContextError
    BY Errors
  <2> USE <2>0, <2>1 DEF Return, Goto
  <2>2. CASE Load \/ UNCHANGED vars
    BY <2>2 DEF Load, vars, dialVars
  <2>3. CASE Connect
    BY <2>3 DEF Connect, Begin, Closing
  <2>4. CASE DialInterrupted \/ RegisterCallback \/ Assigned \/ CheckContext
    BY <2>4 DEF DialInterrupted, RegisterCallback, Assigned, CheckContext, Failed
  <2>5. CASE LimitSetup \/ LimitHeader \/ ClearDeadline \/ CheckStatus
    <3>1. ClosedError = ContextError \/ ~(job.path = "CONNECT" /\ IsSocks(job.scheme))
      BY DEF ClosedError
    <3>2. CASE LimitSetup
      BY <3>1, <3>2 DEF LimitSetup, SaysNothing
    <3>3. CASE LimitHeader
      BY <3>3 DEF LimitHeader, SaysNothing
    <3>4. CASE ClearDeadline
      BY <3>1, <3>4 DEF ClearDeadline, SaysNothing, Failed
    <3>5. CASE CheckStatus
      BY <3>5 DEF CheckStatus, SaysNothing
    <3> QED
      BY <2>5, <3>2, <3>3, <3>4, <3>5
  <2>6. CASE TalkInterrupted \/ TalkFails \/ HandshakeInterrupted
    BY <2>6 DEF TalkInterrupted, TalkFails, HandshakeInterrupted
  <2>7. CASE StopCallback \/ CloseFailed \/ Cancel
    BY <2>7 DEF StopCallback, CloseFailed, Cancel
  <2>8. CASE Dial \/ DialFails \/ Handshake \/ SendRequest
    BY <2>8 DEF Dial, DialFails, Handshake, SendRequest
  <2>9. ASSUME NEW size \in 0 .. ReadBuffer, NEW ending \in LineEnds,
               ReadLine(size, ending)
        PROVE  result' = ContextError \/ SaysNothing
    BY <2>9 DEF ReadLine
  <2>10. CASE Socks4 \/ OfferMethod
    BY <2>10, Handshakes
  <2>11. CASE \/ Login \/ Socks5Invalid \/ ReadLength \/ DiscardAddress
              \/ \E answer \in Answers : Socks5(answer)
    BY <2>11 DEF Login, Talk, Socks5Invalid, ReadLength, DiscardAddress, Socks5
  <2>12. CASE Callback \/ ContextEnds
    BY <2>12 DEF Callback, CallbackStarts, CallbackReads, CallbackCloses, ContextEnds
  <2> QED
    BY <1>1, <2>2, <2>3, <2>4, <2>5, <2>6, <2>7, <2>8, <2>9, <2>10, <2>11, <2>12
       DEF Next, SetUp, DialStep, Alone, WithUpstream
<1>2. Inv /\ [Next]_vars => [Reported]_dialVars
  BY <1>1
<1> QED
  BY <1>2, Invariant, PTL DEF Spec, InterruptionIsReported

\* Once the context has ended, whoever still talks to the upstream has its
\* connection closed, or a callback on its way to close it, unless that read the
\* variable torn; and nobody talks with a context that cancel() ended.
EndReachesTheSetup ==
    pc \in Talking /\ ctx # "live" =>
        /\ EndedContext
        /\ closed \/ callback \in {"armed", "running", "closing"} \/ seen = "torn"

\* The safety half of EndedContextEndsSetup: context.AfterFunc leaves no setup to
\* wait for its upstream.
THEOREM SetupsInterrupted == Spec => []EndReachesTheSetup
<1>1. Inv => EndReachesTheSetup
  BY DEF Inv, ConnectionInv, Progress, Closing, Watching, EndedContext, Open,
         Talking, EndReachesTheSetup
<1> QED
  BY <1>1, Invariant, PTL

\* The unsynchronised read of the callback can meet a torn value, and end the
\* process, only in dialConnect's TLS handshake with an https upstream.
OnlyTLSIsTorn ==
    seen = "torn" \/ pc = "crashed" => job.scheme = "https"

\* Neither SOCKS nor plain HTTP upstreams are exposed to the race of connect.go:145.
THEOREM RaceNeedsTLS == Spec => []OnlyTLSIsTorn
<1>1. Inv => OnlyTLSIsTorn
  BY DEF Inv, ConnectionInv, Watching, OnlyTLSIsTorn
<1> QED
  BY <1>1, Invariant, PTL

\* readConnectStatus and readLimitedLine: a header is accepted within the limit and
\* only rejected for its size beyond it, whatever its lines and their parts are.
THEOREM HeaderBounded == Spec => []HeaderWithinLimit
<1>1. Inv => HeaderWithinLimit
  <2>1. HeaderLimit \in Nat /\ ReadBuffer \in Nat
    BY DialConnectAssumption
  <2> QED
    BY <2>1 DEF Inv, ConnectionInv, Budget, HeaderWithinLimit
<1> QED
  BY <1>1, Invariant, PTL

\* Bounds what a setup may still do: its places in order, and while the header is
\* read what its budget leaves.
WorkLeft ==
    LET line == remaining + ReadBuffer + 10
        head == HeaderLimit + ReadBuffer + 11
    IN  CASE pc = "idle"                -> head + 7
          [] pc = "dial"                -> head + 6
          [] pc = "register"            -> head + 5
          [] pc = "limit"               -> head + 4
          [] pc = "handshake"           -> head + 3
          [] pc = "assigned"            -> head + 2
          [] pc = "request"             -> head + 1
          [] pc = "limitHeader"         -> head
          [] pc \in {"status", "field"} -> line
          [] pc = "method"              -> 11
          [] pc = "login"               -> 10
          [] pc = "socks5"              -> 9
          [] pc = "length"              -> 8
          [] pc \in {"socks4", "address", "checkStatus"} -> 7
          [] pc = "clear"               -> 6
          [] pc = "checkContext"        -> 5
          [] pc = "stop"                -> 4
          [] pc = "close"               -> 3
          [] pc = "cancel"              -> 2
          [] pc = "done"                -> 1
          [] OTHER                      -> 0

\* A setup makes no step backwards and an upstream cannot keep it reading: each
\* part of a header line, however short or long, uses up budget, and each other
\* step of the goroutine leads on.  So a setup has at most HeaderLimit +
\* ReadBuffer + 18 steps, whatever the upstream sends.
SetupAdvances ==
    [][pc' # pc \/ remaining' # remaining =>
           WorkLeft' < WorkLeft /\ WorkLeft' \in Nat]_vars

\* A part of the header costs at least one of the budget.
LEMMA ReadingCosts ==
    ASSUME Progress, Budget, NEW size \in 0 .. ReadBuffer,
           NEW ending \in LineEnds, ReadLine(size, ending)
    PROVE  /\ pc \in {"status", "field"} /\ pc' \in {"status", "field", "checkStatus", "stop"}
           /\ remaining' \in Int /\ remaining' < remaining
           /\ remaining' + ReadBuffer + 2 >= 0
<1>1. ReadBuffer \in Nat /\ ReadBuffer > 1 /\ size \in Nat /\ size <= ReadBuffer
  BY DialConnectAssumption
<1>2. /\ pc \in {"status", "field"} /\ remaining' = remaining - Cost(size, ending)
      /\ ending = "more" => size >= ReadBuffer - 1
      /\ pc' \in {"status", "field", "checkStatus", "stop"}
  BY DEF ReadLine, Return, Goto
<1>3. Cost(size, ending) \in Nat \ {0} /\ Cost(size, ending) <= size + 2
  BY <1>1, <1>2 DEF Cost
<1>4. remaining \in Int /\ remaining >= 0
  BY <1>2 DEF Progress, Budget, Before, Open
<1> QED
  BY <1>1, <1>2, <1>3, <1>4

\* A SOCKS4 handshake ends the setup or clears the deadline; offering a SOCKS5
\* method ends it or leads on to the login or the request.
LEMMA HandshakeMoves ==
    ASSUME Socks4 \/ OfferMethod
    PROVE  /\ remaining' = remaining
           /\ \/ pc = "socks4" /\ pc' \in {"clear", "stop"}
              \/ pc = "method" /\ pc' \in {"login", "socks5", "stop"}
<1>1. remaining' = remaining
  BY Handshakes DEF header
<1>2. CASE Socks4
  <2> DEFINE e == HandshakeError("socks4", job.destination, job.auth)
  <2>1. \/ Return(SetupError(e))
        \/ Return(SetupError("failed"))
        \/ Goto("clear")
    BY <1>2 DEF Socks4
  <2>2. pc = "socks4"
    BY <1>2 DEF Socks4
  <2> HIDE DEF e
  <2> QED
    BY <1>1, <2>1, <2>2 DEF Return, Goto
<1>3. CASE OfferMethod
  <2> DEFINE e == HandshakeError("socks5", job.destination, job.auth)
  <2>1. \/ Return(SetupError(e))
        \/ Return(SetupError("failed"))
        \/ Goto("login") \/ Goto("socks5")
    BY <1>3 DEF OfferMethod
  <2>2. pc = "method"
    BY <1>3 DEF OfferMethod
  <2> HIDE DEF e
  <2> QED
    BY <1>1, <2>1, <2>2 DEF Return, Goto
<1> QED
  BY <1>2, <1>3

\* readConnectStatus, connect4, connect5 and the deferred calls all come to an end:
\* the variant on which EndedContextEndsSetup rests.
THEOREM SetupsEnd == Spec => SetupAdvances
<1> DEFINE Advances ==
        pc' # pc \/ remaining' # remaining =>
            WorkLeft' < WorkLeft /\ WorkLeft' \in Nat
<1>1. ASSUME Inv, [Next]_vars PROVE Advances
  <2>0. /\ HeaderLimit \in Nat /\ ReadBuffer \in Nat \ {0}
        /\ Progress /\ Budget
        /\ remaining \in Int /\ remaining <= HeaderLimit
        /\ remaining + ReadBuffer + 2 >= 0
    BY <1>1, DialConnectAssumption DEF Inv, ConnectionInv, Budget
  <2> USE <2>0 DEF WorkLeft, Return, Goto, header
  <2>1. CASE Load \/ UNCHANGED vars
    BY <2>1 DEF Load, vars, dialVars
  <2>2. CASE Connect
    <3>1. pc = "idle" /\ pc' \in {"dial", "stop"} /\ remaining' = remaining
      BY <1>1, <2>2, Begins DEF Inv, ConnectionInv, header
    <3> QED
      BY <2>0, <3>1
  <2>3. ASSUME NEW size \in 0 .. ReadBuffer, NEW ending \in LineEnds,
               ReadLine(size, ending)
        PROVE  Advances
    <3>1. /\ pc \in {"status", "field"} /\ pc' \in {"status", "field", "checkStatus", "stop"}
          /\ remaining' \in Int /\ remaining' < remaining
          /\ remaining' + ReadBuffer + 2 >= 0
      BY <2>3, ReadingCosts
    <3> QED
      BY <3>1
  <2>4. CASE DialInterrupted \/ RegisterCallback \/ LimitSetup \/ Assigned
             \/ LimitHeader
    BY <2>4 DEF DialInterrupted, RegisterCallback, LimitSetup, Assigned,
                LimitHeader
  <2>5. CASE CheckStatus \/ CheckContext \/ ClearDeadline
    BY <2>5 DEF CheckStatus, CheckContext, ClearDeadline
  <2>6. CASE TalkInterrupted \/ HandshakeInterrupted \/ TalkFails
    BY <2>6 DEF TalkInterrupted, HandshakeInterrupted, TalkFails, Talking
  <2>7. CASE StopCallback \/ CloseFailed \/ Cancel
    BY <2>7 DEF StopCallback, CloseFailed, Cancel
  <2>8. CASE Dial \/ DialFails \/ Handshake \/ SendRequest
    BY <2>8 DEF Dial, DialFails, Handshake, SendRequest
  <2>9. CASE Socks4 \/ OfferMethod
    BY <2>9, HandshakeMoves
  <2>10. CASE Login \/ Socks5Invalid \/ ReadLength \/ DiscardAddress
    BY <2>10 DEF Login, Talk, Socks5Invalid, ReadLength, DiscardAddress
  <2>11. CASE \E answer \in Answers : Socks5(answer)
    BY <2>11 DEF Socks5
  <2>12. CASE CallbackStarts \/ CallbackReads \/ ContextEnds
    BY <2>12 DEF CallbackStarts, CallbackReads, ContextEnds
  <2>13. CASE CallbackCloses
    <3>1. remaining' = remaining /\ (pc' = pc \/ pc' = "crashed")
      BY <2>13 DEF CallbackCloses
    <3>2. pc # "crashed" => WorkLeft >= 1
      BY DEF Progress, Before, Open, Deferred
    <3> QED
      BY <3>1, <3>2
  <2> QED
    BY <1>1, <2>1, <2>2, <2>3, <2>4, <2>5, <2>6, <2>7, <2>8, <2>9, <2>10, <2>11,
       <2>12, <2>13 DEF Next, SetUp, DialStep, Alone, WithUpstream, Callback
<1>2. Inv /\ [Next]_vars => [Advances]_vars
  BY <1>1
<1> QED
  BY <1>2, Invariant, PTL DEF Spec, SetupAdvances

\* connect4 and connect5 read what the server announced to the last byte, for each
\* type and length of the bound address.
THEOREM TunnelStartsRight == Spec => []TunnelStartsAtItsFirstByte
<1>1. Inv => TunnelStartsAtItsFirstByte
  BY DEF Inv, ConnectionInv, Frame, TunnelStartsAtItsFirstByte
<1> QED
  BY <1>1, Invariant, PTL

\* What a SOCKS server reads in a request of connect4 or connect5 is what was asked
\* for, whatever the destinations and the credentials are.
THEOREM TargetsSeen == Spec => []ServerSeesTheTarget
<1>1. Inv => ServerSeesTheTarget
  BY TargetSeen DEF Inv, ConnectionInv
<1> QED
  BY <1>1, Invariant, PTL
=============================================================================
