------------------------------ MODULE SftpgoClient -----------------------------
(****************************************************************************)
(* The SFTPGo servers as internal/sftpgo/client.go sees them: the accounts  *)
(* behind GET/POST/PUT/DELETE /api/v2/users, and the requests whose caller  *)
(* gave up (the 30 second client timeout, a broken connection, a crash of   *)
(* the manager) but which the server may still execute.                     *)
(* An account is named by the server and the user name on it.               *)
(****************************************************************************)
EXTENDS Naturals

CONSTANTS
  Servers,    \* SftpGoServer objects a user may refer to
  Usernames,  \* spec.username values
  Contents,   \* what UserFromCR makes of the rest of a spec
  Null,       \* no account
  MaxId       \* bound on database ids: they start over after MaxId

ASSUME MaxIdAssumption == MaxId \in Nat \ {0}

VARIABLES
  accounts,  \* accounts[a]: [content, id] or Null
  lastId,    \* the last database id handed out
  late       \* abandoned requests still on their way

sftpgoVars == <<accounts, lastId, late>>

Account == Servers \X Usernames
Request == [method: {"POST", "PUT", "DELETE"}, account: Account,
            content: Contents]

SftpgoTypeOK ==
  /\ accounts \in [Account -> [content: Contents, id: 1..MaxId] \cup {Null}]
  /\ lastId \in 0..MaxId
  /\ late \subseteq Request

SftpgoInit ==
  /\ accounts = [a \in Account |-> Null]
  /\ lastId = 0
  /\ late = {}

\* POST of a known name is a conflict, PUT and DELETE of an unknown one a 404.
Accepts(r) == (r.method = "POST") <=> (accounts[r.account] = Null)

\* Ids are only compared, so a few names of them are enough.
NextId == IF lastId < MaxId THEN lastId + 1 ELSE 1

\* The server executes a request it accepts.
Execute(r) ==
  /\ Accepts(r)
  /\ \/ /\ r.method = "POST"
        /\ accounts' = [accounts EXCEPT ![r.account] =
                          [content |-> r.content, id |-> NextId]]
        /\ lastId' = NextId
     \/ /\ r.method = "PUT"
        /\ accounts' = [accounts EXCEPT ![r.account].content = r.content]
        /\ UNCHANGED lastId
     \/ /\ r.method = "DELETE"
        /\ accounts' = [accounts EXCEPT ![r.account] = Null]
        /\ UNCHANGED lastId

\* What the caller may observe of a request it sends: executed and answered,
\* refused by the server, or an error in the middle (no token, no connection,
\* a timeout, an unreadable answer) after which the request is lost or late.
Send(r, outcome) ==
  \/ outcome = "ok" /\ Execute(r) /\ UNCHANGED late
  \/ outcome = "refused" /\ ~Accepts(r) /\ UNCHANGED sftpgoVars
  \/ outcome = "lost" /\ late' \in {late, late \cup {r}}
                      /\ UNCHANGED <<accounts, lastId>>

\* Mutant: a 404 is not told apart from an account without an id.
GetUserNil(a) == IF accounts[a] = Null THEN Null ELSE accounts[a].id

\* The client's calls. GetUser is a pure read: the id of the account, 0 for 404.
GetUser(a) == IF accounts[a] = Null THEN 0 ELSE accounts[a].id

UpsertUser(method, a, content, outcome) ==
  Send([method |-> method, account |-> a, content |-> content], outcome)

DeleteUser(a, content, outcome) ==
  Send([method |-> "DELETE", account |-> a, content |-> content], outcome)

\* An abandoned request reaches the server after all.
Arrive(r) ==
  /\ r \in late
  /\ late' = late \ {r}
  /\ \/ Execute(r)
     \/ ~Accepts(r) /\ UNCHANGED <<accounts, lastId>>

\* A server without a data volume (emptyDir) loses its database with its pod.
LoseData(s) ==
  /\ accounts' = [a \in Account |-> IF a[1] = s THEN Null ELSE accounts[a]]
  /\ UNCHANGED <<lastId, late>>
================================================================================
