---------------------------- MODULE ServerResources ----------------------------
(****************************************************************************)
(* What SftpGoServerReconciler makes of the spec of one SftpGoServer        *)
(* (internal/controller/sftpgoserver_controller.go): the generated          *)
(* sftpgo.json, the Deployment, the Service, the PVC and the status, and    *)
(* the address and credentials SftpGoUserReconciler derives from the same   *)
(* spec. Three code paths compute ports from the spec, two read the admin   *)
(* secret, and a pod works only if they agree.                              *)
(*                                                                          *)
(* Port 0 is an omitted field, None a nil pointer. Labels, images, mount    *)
(* paths, resource requirements and scheduling constraints pass through and *)
(* are left out.                                                            *)
(****************************************************************************)
EXTENDS Naturals, Optional

CONSTANTS
  Ports,    \* port numbers a spec may give
  Secrets,  \* names of admin secrets, NoName among them
  Sizes,    \* volume sizes a spec may give
  NoName    \* an omitted name

ASSUME PortsAssumption == Ports \subseteq Nat \ {0}
ASSUME SecretsAssumption == NoName \in Secrets /\ None \notin Secrets
ASSUME SizesAssumption == None \notin Sizes \cup {NoName}

Backends == {"memory", "sqlite", "mysql", "postgres"}

\* sftp and http are Config.SFTP and Config.HTTP, of which only the port is used; volume
\* is the size of the data volume.
ServerSpec == [sftpPort: Ports \cup {0}, webPort: Ports \cup {0},
               sftp: Ports \cup {0, None}, http: Ports \cup {0, None},
               backend: Backends \cup {NoName},
               volume: Sizes \cup {NoName, None}, admin: Secrets \cup {None}]

ApplyDefaults(spec) ==
  [spec EXCEPT !.sftpPort = IF @ = 0 THEN 2022 ELSE @,
               !.webPort = IF @ = 0 THEN 8080 ELSE @,
               !.backend = IF @ = NoName THEN "sqlite" ELSE @]

Overrides(port) == port # None /\ port > 0
\* Mutant: the port of the SFTP section is ignored.
GetSFTPPortTop(spec) == spec.sftpPort

GetSFTPPort(spec) == IF Overrides(spec.sftp) THEN spec.sftp ELSE spec.sftpPort
GetWebPort(spec) == IF Overrides(spec.http) THEN spec.http ELSE spec.webPort

\* Mutant: createDefaultAdmin is not passed on.
SftpgoMinimalConfigBare(spec) ==
  [sftpd |-> IF Overrides(spec.sftp) THEN spec.sftp
             ELSE IF spec.sftpPort > 0 THEN spec.sftpPort ELSE 2022,
   httpd |-> 8080, driver |-> spec.backend, createDefaultAdmin |-> FALSE]

\* sftpgo.json: its own computation of the SFTP port, the REST API on 8080, the
\* database one fixed file whatever the driver (left out), and none of spec.database.
SftpgoMinimalConfig(spec) ==
  [sftpd |-> IF Overrides(spec.sftp) THEN spec.sftp
             ELSE IF spec.sftpPort > 0 THEN spec.sftpPort ELSE 2022,
   httpd |-> 8080,
   driver |-> spec.backend,
   createDefaultAdmin |-> spec.admin # None]

DeploymentFor(s) ==
  LET spec == ApplyDefaults(s)
  IN [sftp |-> GetSFTPPort(spec),
      web |-> GetWebPort(spec),
      persistent |-> spec.volume # None,
      adminFrom |-> spec.admin]

ServiceFor(s) ==
  LET spec == ApplyDefaults(s)
  IN [sftp |-> GetSFTPPort(spec), web |-> GetWebPort(spec)]

\* The PVC is made from the spec without defaults, and only if there is a volume.
PvcFor(s) ==
  IF s.volume = None THEN None
  ELSE IF s.volume = NoName THEN "10Gi" ELSE s.volume

ConfigMapFor(s) == SftpgoMinimalConfig(ApplyDefaults(s))

StatusPorts(s) ==
  LET spec == ApplyDefaults(s)
  IN [sftp |-> GetSFTPPort(spec), web |-> GetWebPort(spec), http |-> GetWebPort(spec)]

\* Mutant: no default port.
ApiPortGiven(s) == s.webPort

\* The user controller's view of the same object.
ApiPort(s) == IF s.webPort > 0 THEN s.webPort ELSE 8080
ApiSecret(s) == IF s.admin \in {None, NoName} THEN None ELSE s.admin

================================================================================
