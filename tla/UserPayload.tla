------------------------------ MODULE UserPayload ------------------------------
(****************************************************************************)
(* What SftpGoUserReconciler sends to SFTPGo for one SftpGoUser: the        *)
(* credentials it resolves (sftpgouser_controller.go), the payload          *)
(* UserFromCR builds of them and of the spec, and the JSON body, which      *)
(* leaves out zero values (internal/sftpgo/client.go).                      *)
(*                                                                          *)
(* E-mail, paths, addresses, groups and folders are copied and left out.    *)
(****************************************************************************)
EXTENDS Naturals, Optional

CONSTANTS
  Limits,  \* values of the numeric limits; 0 is "not given" and "unlimited"
  Missing  \* a reference to a secret that is not there

ASSUME LimitsAssumption == Limits \subseteq Nat /\ 0 \in Limits

\* An entry of a key list, as TrimSpace and the "#" test tell them apart. A list is the
\* set of the kinds of its entries: order and number do not matter.
Lines == {"key", "blank", "comment"}
\* The secret a spec refers to: not there, without the key named, or with it.
PasswordRefs == {None, Missing, "noKey", "password"}
KeyRefs == {None, Missing} \cup SUBSET Lines

UserSpec == [password: {"", "inline"}, passwordRef: PasswordRefs,
             publicKeys: SUBSET Lines, keysRef: KeyRefs,
             status: {"", "enabled", "disabled"},
             permissions: SUBSET {"list", "upload"},
             quota: [size: Limits, files: Limits] \cup {None},
             bandwidth: [upload: Limits, download: Limits] \cup {None},
             maxSessions: Limits]

\* A secret that is needed and cannot be read ends the Reconcile call; a key it
\* does not have is an empty password.
Unreadable(spec) == \/ spec.password = "" /\ spec.passwordRef = Missing
                    \/ spec.publicKeys = {} /\ spec.keysRef = Missing

ResolvePassword(spec) ==
  IF spec.password # "" THEN spec.password
  ELSE IF spec.passwordRef = "password" THEN "fromSecret" ELSE ""

\* Only the lines of a secret are filtered, an inline list is passed on as it is.
ResolvePublicKeys(spec) ==
  IF spec.publicKeys # {} THEN spec.publicKeys
  ELSE IF spec.keysRef = None THEN {}
  ELSE spec.keysRef \ {"blank", "comment"}

\* Mutant: every size is divided.
UserFromCRInKB(spec) ==
  [status |-> IF spec.status = "disabled" THEN 0 ELSE 1,
   permissions |-> IF spec.permissions = {} THEN {"*"} ELSE spec.permissions,
   password |-> ResolvePassword(spec), publicKeys |-> ResolvePublicKeys(spec),
   quotaSize |-> IF spec.quota = None THEN 0 ELSE spec.quota.size \div 1024,
   quotaFiles |-> IF spec.quota = None THEN 0 ELSE spec.quota.files,
   upload |-> IF spec.bandwidth = None THEN 0 ELSE spec.bandwidth.upload \div 1024,
   download |-> IF spec.bandwidth = None THEN 0 ELSE spec.bandwidth.download \div 1024,
   maxSessions |-> spec.maxSessions]

\* SFTPGo's API takes KB/s.
UserFromCR(spec) ==
  [status |-> IF spec.status = "disabled" THEN 0 ELSE 1,
   permissions |-> IF spec.permissions = {} THEN {"*"} ELSE spec.permissions,
   password |-> ResolvePassword(spec),
   publicKeys |-> ResolvePublicKeys(spec),
   quotaSize |-> IF spec.quota = None THEN 0 ELSE spec.quota.size,
   quotaFiles |-> IF spec.quota = None THEN 0 ELSE spec.quota.files,
   upload |-> IF spec.bandwidth = None THEN 0 ELSE spec.bandwidth.upload \div 1024,
   download |-> IF spec.bandwidth = None THEN 0 ELSE spec.bandwidth.download \div 1024,
   maxSessions |-> spec.maxSessions]

\* Mutant: status is "omitempty" too.
ZeroPayloadAll ==
  [status |-> 0, permissions |-> {}, password |-> "", publicKeys |-> {},
   quotaSize |-> 0, quotaFiles |-> 0, upload |-> 0, download |-> 0, maxSessions |-> 0]

\* The fields of the body: a zero value is left out, except status.
ZeroPayload ==
  [status |-> 2, permissions |-> {}, password |-> "", publicKeys |-> {},
   quotaSize |-> 0, quotaFiles |-> 0, upload |-> 0, download |-> 0, maxSessions |-> 0]
Sent(payload) ==
  [field \in {f \in DOMAIN payload : payload[f] # ZeroPayload[f]} |-> payload[field]]

\* Mutant: the references are tested, not what they resolve to.
RefusedByReference(spec) ==
  /\ spec.password = "" /\ spec.passwordRef = None
  /\ spec.publicKeys = {} /\ spec.keysRef = None

\* A new account needs a password or a key; an existing one is updated anyway.
Refused(spec) == ResolvePassword(spec) = "" /\ ResolvePublicKeys(spec) = {}
================================================================================
