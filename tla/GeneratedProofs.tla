---------------------------- MODULE GeneratedProofs ----------------------------
(****************************************************************************)
(* What is generated from a server's spec fits together, for every spec     *)
(* over any ports, secrets and sizes, and what is sent of a user's spec     *)
(* says what the spec says, whatever limits it sets. TLC has a few of each: *)
(* the code compares them with a few constants and otherwise passes them    *)
(* on.                                                                      *)
(****************************************************************************)
EXTENDS Generated, TLAPS

LEMMA PlainIsASpec == PlainServer \in ServerSpec
BY SecretsAssumption DEF PlainServer, ServerSpec

\* The owner's edits lead from specs to specs.
LEMMA ServerIsASpec == Spec => [](server \in ServerSpec)
<1>1. Init => server \in ServerSpec
  BY PlainIsASpec DEF Init
<1>2. server \in ServerSpec /\ [ServerEdited \/ UserEdited]_<<server, user>>
      => (server \in ServerSpec)'
  BY DEF ServerEdited, UserEdited, ServerSpec
<1> QED
  BY <1>1, <1>2, PTL DEF Spec

LEMMA PortIsPositive ==
  ASSUME NEW p \in Ports
  PROVE  p \in Nat /\ p > 0
BY PortsAssumption

\* What applyDefaults leaves.
LEMMA Defaulted ==
  ASSUME NEW s \in ServerSpec
  PROVE  /\ ApplyDefaults(s).sftpPort = IF s.sftpPort = 0 THEN 2022 ELSE s.sftpPort
         /\ ApplyDefaults(s).sftpPort > 0
         /\ ApplyDefaults(s).webPort = IF s.webPort = 0 THEN 8080 ELSE s.webPort
         /\ ApplyDefaults(s).sftp = s.sftp /\ ApplyDefaults(s).http = s.http
         /\ ApplyDefaults(s).volume = s.volume /\ ApplyDefaults(s).admin = s.admin
<1>1. /\ ApplyDefaults(s).sftpPort = IF s.sftpPort = 0 THEN 2022 ELSE s.sftpPort
      /\ ApplyDefaults(s).webPort = IF s.webPort = 0 THEN 8080 ELSE s.webPort
  BY DEF ApplyDefaults, ServerSpec
<1>2. /\ ApplyDefaults(s).sftp = s.sftp /\ ApplyDefaults(s).http = s.http
      /\ ApplyDefaults(s).volume = s.volume /\ ApplyDefaults(s).admin = s.admin
  BY DEF ApplyDefaults, ServerSpec
<1>3. s.sftpPort # 0 => s.sftpPort > 0
  BY PortIsPositive DEF ServerSpec
<1>4. ApplyDefaults(s).sftpPort > 0
  <2>1. CASE s.sftpPort = 0
    BY <1>1, <2>1
  <2>2. CASE s.sftpPort # 0
    <3>1. ApplyDefaults(s).sftpPort = s.sftpPort
      BY <1>1, <2>2
    <3>2. s.sftpPort > 0
      BY <1>3, <2>2
    <3> QED
      BY <3>1, <3>2
  <2> QED
    BY <2>1, <2>2
<1> QED
  BY <1>1, <1>2, <1>4

\* The port of sftpgo.json, computed by itself, is the port of the other children and
\* of the status, for every spec.
THEOREM SftpAgrees == Spec => []SftpReachable
<1>1. server \in ServerSpec => SftpReachable
  BY Defaulted
     DEF SftpReachable, StatusPorts, ServiceFor, DeploymentFor, ConfigMapFor,
         SftpgoMinimalConfig, GetSFTPPort
<1> QED
  BY <1>1, ServerIsASpec, PTL

\* The secret the user controller logs in with is the one the pod makes its default
\* admin of, for every spec.
THEOREM AdminAgrees == Spec => []SameAdmin
<1>1. server \in ServerSpec => SameAdmin
  BY Defaulted DEF SameAdmin, ApiSecret, ConfigMapFor, SftpgoMinimalConfig, DeploymentFor
<1> QED
  BY <1>1, ServerIsASpec, PTL

\* With default ports the user controller's URL, the Service, the container and the
\* configuration agree on the REST port, whatever the other fields.
THEOREM DefaultApiAgrees == Spec => []ApiReachableByDefault
<1>1. server \in ServerSpec => ApiReachableByDefault
  <2> SUFFICES ASSUME server \in ServerSpec, server.webPort \in {0, 8080},
                      ~(Overrides(server.http) /\ server.http # 8080)
               PROVE  ApiReached
    BY DEF ApiReachableByDefault
  <2>1. GetWebPort(ApplyDefaults(server)) = 8080
    BY Defaulted DEF GetWebPort
  <2>2. ApiPort(server) = 8080
    BY DEF ApiPort
  <2> QED
    BY <2>1, <2>2 DEF ApiReached, ServiceFor, DeploymentFor, ConfigMapFor, SftpgoMinimalConfig
<1> QED
  BY <1>1, ServerIsASpec, PTL

--------------------------------------------------------------------------------
LEMMA SentField ==
  ASSUME NEW payload, NEW field \in DOMAIN payload, payload[field] # ZeroPayload[field]
  PROVE  field \in DOMAIN Sent(payload) /\ Sent(payload)[field] = payload[field]
BY DEF Sent

\* The status is in every body, and says what the spec says.
THEOREM StatusIsSent == Spec => []DisableIsSent
<1>1. DisableIsSent
  <2> DEFINE payload == UserFromCR(user)
  <2>1. "status" \in DOMAIN payload
    BY DEF UserFromCR
  <2>2. payload["status"] = IF user.status = "disabled" THEN 0 ELSE 1
    BY DEF UserFromCR
  <2>3. ZeroPayload["status"] = 2
    BY DEF ZeroPayload
  <2>4. payload["status"] # ZeroPayload["status"]
    BY <2>2, <2>3
  <2>5. "status" \in DOMAIN Body /\ Body["status"] = payload["status"]
    BY <2>1, <2>4, SentField DEF Body
  <2> QED
    BY <2>2, <2>5 DEF DisableIsSent
<1> QED
  BY <1>1, PTL

LEMMA UserIsASpec == Spec => [](user \in UserSpec)
<1>1. Init => user \in UserSpec
  <2>1. None \in PasswordRefs /\ None \in KeyRefs
    BY DEF PasswordRefs, KeyRefs
  <2>2. PlainUser \in UserSpec
    BY <2>1, LimitsAssumption DEF PlainUser, UserSpec
  <2> QED
    BY <2>2, UserSpecsAssumption DEF Init
<1>2. user \in UserSpec /\ [ServerEdited \/ UserEdited]_<<server, user>>
      => (user \in UserSpec)'
  BY DEF ServerEdited, UserEdited, UserSpec
<1> QED
  BY <1>1, <1>2, PTL DEF Spec

\* What the filter leaves of a key secret is empty exactly when it holds no key, and an
\* inline list with a key is not empty.
LEMMA KeysAreCounted ==
  ASSUME NEW spec \in UserSpec, ~Unreadable(spec),
         spec.publicKeys = {} \/ "key" \in spec.publicKeys
  PROVE  ResolvePublicKeys(spec) # {} <=> "key" \in ResolvePublicKeys(spec)
<1>1. CASE spec.publicKeys # {}
  BY <1>1 DEF ResolvePublicKeys
<1>2. CASE spec.publicKeys = {} /\ spec.keysRef = None
  BY <1>2 DEF ResolvePublicKeys
<1>3. CASE spec.publicKeys = {} /\ spec.keysRef # None
  <2>1. spec.keysRef # Missing
    BY <1>3 DEF Unreadable
  <2>2. spec.keysRef \in SUBSET Lines
    BY <1>3, <2>1 DEF UserSpec, KeyRefs
  <2>3. ResolvePublicKeys(spec) = spec.keysRef \ {"blank", "comment"}
    BY <1>3 DEF ResolvePublicKeys
  <2> QED
    BY <2>2, <2>3 DEF Lines
<1> QED
  BY <1>1, <1>2, <1>3

\* What the body holds of the credentials is what was resolved.
LEMMA CredentialsInBody ==
  CanLogIn <=> ResolvePassword(user) # "" \/ "key" \in ResolvePublicKeys(user)
<1> DEFINE payload == UserFromCR(user)
<1>1. /\ "password" \in DOMAIN payload /\ payload["password"] = ResolvePassword(user)
      /\ "publicKeys" \in DOMAIN payload
      /\ payload["publicKeys"] = ResolvePublicKeys(user)
  BY DEF UserFromCR
<1>2. ZeroPayload["password"] = "" /\ ZeroPayload["publicKeys"] = {}
  BY DEF ZeroPayload
<1>3. "password" \in DOMAIN Body /\ Body["password"] # "" <=> ResolvePassword(user) # ""
  <2>1. CASE ResolvePassword(user) # ""
    BY <1>1, <1>2, <2>1, SentField DEF Body
  <2>2. CASE ResolvePassword(user) = ""
    BY <1>1, <1>2, <2>2 DEF Body, Sent
  <2> QED
    BY <2>1, <2>2
<1>4. "publicKeys" \in DOMAIN Body /\ "key" \in Body["publicKeys"]
      <=> "key" \in ResolvePublicKeys(user)
  <2>1. CASE ResolvePublicKeys(user) # {}
    BY <1>1, <1>2, <2>1, SentField DEF Body
  <2>2. CASE ResolvePublicKeys(user) = {}
    BY <1>1, <1>2, <2>2 DEF Body, Sent
  <2> QED
    BY <2>1, <2>2
<1> QED
  BY <1>3, <1>4 DEF CanLogIn

\* The test lets through exactly the accounts whose body has a password or a key, for
\* every combination of inline values, references, blank lines and comments but a
\* keyless inline list, which it never stops.
THEOREM CreatedLogsIn == Spec => []CreatedCanLogIn
<1>1. user \in UserSpec => CreatedCanLogIn
  <2> SUFFICES ASSUME user \in UserSpec, ~Unreadable(user)
               PROVE  ~Refused(user) <=> CanLogIn \/ KeylessInline
    BY DEF CreatedCanLogIn
  <2>1. CASE KeylessInline
    <3>1. ResolvePublicKeys(user) = user.publicKeys /\ user.publicKeys # {}
      BY <2>1 DEF KeylessInline, ResolvePublicKeys
    <3> QED
      BY <2>1, <3>1 DEF Refused
  <2>2. CASE ~KeylessInline
    <3>1. ResolvePublicKeys(user) # {} <=> "key" \in ResolvePublicKeys(user)
      BY <2>2, KeysAreCounted DEF KeylessInline
    <3> QED
      BY <2>2, <3>1, CredentialsInBody DEF Refused
  <2> QED
    BY <2>1, <2>2
<1> QED
  BY <1>1, UserIsASpec, PTL

\* A limit that is copied arrives: a zero is left out and read as zero.
LEMMA CopiedLimit ==
  ASSUME NEW field \in DOMAIN UserFromCR(user), ZeroPayload[field] = 0,
         NEW limit \in Nat, UserFromCR(user)[field] = limit
  PROVE  Limited(limit, Field(field))
<1>1. CASE limit = 0
  BY <1>1 DEF Limited
<1>2. CASE limit # 0
  <2>1. Field(field) = limit
    BY <1>2, SentField DEF Field, Body
  <2> QED
    BY <2>1 DEF Limited
<1> QED
  BY <1>1, <1>2

\* A limit that is divided and not rounded to zero arrives, rounded down.
LEMMA DividedLimit ==
  ASSUME NEW field \in DOMAIN UserFromCR(user), ZeroPayload[field] = 0,
         NEW limit \in Nat, UserFromCR(user)[field] = limit \div 1024, limit >= 1024
  PROVE  Limited(limit, Field(field) * 1024)
<1>1. /\ limit \div 1024 \in Nat /\ limit \div 1024 > 0
      /\ (limit \div 1024) * 1024 <= limit
  OBVIOUS
<1>2. Field(field) = limit \div 1024
  BY <1>1, SentField DEF Field, Body
<1> QED
  BY <1>1, <1>2 DEF Limited

\* No quota, limit on sessions or bandwidth of at least one KB/s is lifted on its way
\* to the server, for any numbers.
THEOREM LimitsArrive == Spec => []LimitsAreKept
<1>1. user \in UserSpec => LimitsAreKept
  <2> SUFFICES ASSUME user \in UserSpec PROVE LimitsAreKept
    OBVIOUS
  <2> DEFINE payload == UserFromCR(user)
  <2>1. {"quotaSize", "quotaFiles", "upload", "download", "maxSessions"} \subseteq DOMAIN payload
    BY DEF UserFromCR
  <2>2. /\ ZeroPayload["quotaSize"] = 0 /\ ZeroPayload["quotaFiles"] = 0
        /\ ZeroPayload["upload"] = 0 /\ ZeroPayload["download"] = 0
        /\ ZeroPayload["maxSessions"] = 0
    BY DEF ZeroPayload
  <2>3. user.maxSessions \in Nat /\ payload["maxSessions"] = user.maxSessions
    BY LimitsAssumption DEF UserFromCR, UserSpec
  <2>4. Limited(user.maxSessions, Field("maxSessions"))
    BY <2>1, <2>2, <2>3, CopiedLimit
  <2>5. ASSUME user.quota # None
        PROVE  /\ Limited(user.quota.size, Field("quotaSize"))
               /\ Limited(user.quota.files, Field("quotaFiles"))
    <3>1. /\ user.quota.size \in Nat /\ user.quota.files \in Nat
          /\ payload["quotaSize"] = user.quota.size
          /\ payload["quotaFiles"] = user.quota.files
      BY <2>5, LimitsAssumption DEF UserFromCR, UserSpec
    <3> QED
      BY <2>1, <2>2, <3>1, CopiedLimit
  <2>6. ASSUME user.bandwidth # None, user.bandwidth.upload >= 1024
        PROVE  Limited(user.bandwidth.upload, Field("upload") * 1024)
    <3>1. /\ user.bandwidth.upload \in Nat
          /\ payload["upload"] = user.bandwidth.upload \div 1024
      BY <2>6, LimitsAssumption DEF UserFromCR, UserSpec
    <3> QED
      BY <2>1, <2>2, <2>6, <3>1, DividedLimit
  <2>7. ASSUME user.bandwidth # None, user.bandwidth.download >= 1024
        PROVE  Limited(user.bandwidth.download, Field("download") * 1024)
    <3>1. /\ user.bandwidth.download \in Nat
          /\ payload["download"] = user.bandwidth.download \div 1024
      BY <2>7, LimitsAssumption DEF UserFromCR, UserSpec
    <3> QED
      BY <2>1, <2>2, <2>7, <3>1, DividedLimit
  <2> QED
    BY <2>4, <2>5, <2>6, <2>7 DEF LimitsAreKept
<1> QED
  BY <1>1, UserIsASpec, PTL
================================================================================
