------------------------------- MODULE Generated -------------------------------
(****************************************************************************)
(* ServerResources and UserPayload put to use: a server whose owner edits   *)
(* its web port starting from any spec, or a user who is enabled and        *)
(* disabled starting from any of some specs, and what has to hold of the    *)
(* children, the status, the URL and the bodies generated from them.        *)
(****************************************************************************)
EXTENDS ServerResources, UserPayload

CONSTANT UserSpecs  \* the specs a user may start from

VARIABLES server, user

ASSUME UserSpecsAssumption == UserSpecs \subseteq UserSpec

PlainServer == [sftpPort |-> 0, webPort |-> 0, sftp |-> None, http |-> None,
                backend |-> NoName, volume |-> None, admin |-> None]
PlainUser == [password |-> "", passwordRef |-> None, publicKeys |-> {}, keysRef |-> None,
              status |-> "", permissions |-> {}, quota |-> None, bandwidth |-> None,
              maxSessions |-> 0]

Init == \/ server \in ServerSpec /\ user = PlainUser
        \/ server = PlainServer /\ user \in UserSpecs

ServerEdited ==
  /\ user = PlainUser
  /\ \E port \in Ports \cup {0} : server' = [server EXCEPT !.webPort = port]
  /\ UNCHANGED user
UserEdited ==
  /\ server = PlainServer
  /\ \E status \in {"enabled", "disabled"} : user' = [user EXCEPT !.status = status]
  /\ UNCHANGED server

Spec == Init /\ [][ServerEdited \/ UserEdited]_<<server, user>>

--------------------------------------------------------------------------------
\* An SFTP client that follows the status reaches the port sftpd listens on: four
\* computations of the port (status, Service, container, sftpgo.json) agree.
SftpReachable ==
  /\ StatusPorts(server).sftp = ServiceFor(server).sftp
  /\ ServiceFor(server).sftp = DeploymentFor(server).sftp
  /\ DeploymentFor(server).sftp = ConfigMapFor(server).sftpd

\* The controllers agree on the administrator: whatever secret the user controller
\* logs in with is the one from which the pod creates its default admin.
SameAdmin ==
  ApiSecret(server) # None
  => /\ ConfigMapFor(server).createDefaultAdmin
     /\ DeploymentFor(server).adminFrom = ApiSecret(server)

ApiReached ==
  /\ ApiPort(server) = ServiceFor(server).web
  /\ ServiceFor(server).web = DeploymentFor(server).web
  /\ DeploymentFor(server).web = ConfigMapFor(server).httpd

\* With default ports the user controller's requests reach the REST API, through a
\* URL, a Service, a container port and a configuration that are computed apart.
ApiReachableByDefault ==
  /\ server.webPort \in {0, 8080} /\ ~(Overrides(server.http) /\ server.http # 8080)
  => ApiReached

\* "Web/API port (default: 8080)", "Build API URL (service is same name as server)":
\* the requests reach the REST API whatever ports a spec gives.
ApiReachable == ApiReached

--------------------------------------------------------------------------------
Body == Sent(UserFromCR(user))
Field(field) == IF field \in DOMAIN Body THEN Body[field] ELSE 0

\* What the CR limits (0 = unlimited) is limited on the server, and no further up.
Limited(limit, applied) == limit > 0 => applied > 0 /\ applied <= limit

\* The body has something to log in with.
CanLogIn == \/ "password" \in DOMAIN Body /\ Body.password # ""
            \/ "publicKeys" \in DOMAIN Body /\ "key" \in Body.publicKeys

\* An inline list of lines that are no keys: it is counted and sent as it stands.
KeylessInline == user.publicKeys # {} /\ "key" \notin user.publicKeys

\* The "either password or publicKeys" test, made before the body is built of other
\* values, lets through exactly the accounts that can log in, whatever the blank
\* lines and comments of a key secret and a password key the secret does not have;
\* but for a keyless inline list, with which the test always lets an account through.
CreatedCanLogIn ==
  ~Unreadable(user) => (~Refused(user) <=> CanLogIn \/ KeylessInline)

\* Disabling a user reaches the server although it is a zero value in the body, and
\* no other value of spec.status disables it.
DisableIsSent ==
  ~Unreadable(user) => /\ "status" \in DOMAIN Body
                       /\ Body.status = 0 <=> user.status = "disabled"

\* No quota, limit on sessions or bandwidth of at least one KB/s is lifted on its way
\* to the server (the limits on transfers and rates of a spec are not sent at all).
LimitsAreKept ==
  ~Unreadable(user) =>
    /\ user.quota # None => /\ Limited(user.quota.size, Field("quotaSize"))
                            /\ Limited(user.quota.files, Field("quotaFiles"))
    /\ user.bandwidth # None /\ user.bandwidth.upload >= 1024
         => Limited(user.bandwidth.upload, Field("upload") * 1024)
    /\ user.bandwidth # None /\ user.bandwidth.download >= 1024
         => Limited(user.bandwidth.download, Field("download") * 1024)
    /\ Limited(user.maxSessions, Field("maxSessions"))

\* "Upload speed limit (bytes/sec, 0 = unlimited)": only 0 means unlimited.
OnlyZeroIsUnlimited ==
  ~Unreadable(user) /\ user.bandwidth # None
  => Limited(user.bandwidth.upload, Field("upload") * 1024)
================================================================================
