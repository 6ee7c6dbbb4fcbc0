----------------------------- MODULE AccountLedger -----------------------------
(****************************************************************************)
(* What SftpGoUserReconciler promises about SFTPGo accounts, without        *)
(* caches, watches, jobs, retries or requests: a ledger of who answers for  *)
(* which account. An account comes into being only while somebody answers   *)
(* for it, and nobody stops answering for one that is there, unless it is   *)
(* entered as abandoned, for one of three reasons: the object was renamed,  *)
(* its server could not be used, or a request nobody waited for any longer  *)
(* brought the account back.                                                *)
(****************************************************************************)
CONSTANTS Users, Servers, Usernames

VARIABLES
  claims,     \* <<o, a>>: object o carries the finalizer and names account a
  present,    \* accounts that are there
  pending,    \* accounts a request nobody waits for may still create
  abandoned,  \* accounts that were let go of
  usable      \* servers that are there and can be logged in to

Accounts == Servers \X Usernames
ledger == <<claims, present, pending, abandoned, usable>>

Init ==
  /\ claims = {} /\ present = {} /\ pending = {} /\ abandoned = {}
  /\ usable \subseteq Servers

Answered(a) == a \in abandoned \/ \E o \in Users : <<o, a>> \in claims

Claim(o, a) ==
  /\ \A b \in Accounts : <<o, b>> \notin claims
  /\ claims' = claims \cup {<<o, a>>}
  /\ UNCHANGED <<present, pending, abandoned, usable>>

Rename(o, a, b) ==
  /\ <<o, a>> \in claims
  /\ claims' = (claims \ {<<o, a>>}) \cup {<<o, b>>}
  /\ abandoned' = abandoned \cup {a}
  /\ UNCHANGED <<present, pending, usable>>

Release(o, a) ==
  /\ <<o, a>> \in claims
  /\ a \in present => a \in abandoned
  /\ claims' = claims \ {<<o, a>>}
  /\ UNCHANGED <<present, pending, abandoned, usable>>

Provide(a) ==
  /\ Answered(a)
  /\ present' = present \cup {a}
  /\ UNCHANGED <<claims, pending, abandoned, usable>>

LoseTrack(a) ==
  /\ Answered(a)
  /\ pending' = pending \cup {a}
  /\ UNCHANGED <<claims, present, abandoned, usable>>

Stray(a) ==
  /\ a \in pending
  /\ pending' \in {pending, pending \ {a}}
  /\ \/ UNCHANGED <<present, abandoned>>
     \/ /\ present' = present \cup {a}
        /\ \/ Answered(a) /\ UNCHANGED abandoned
           \/ abandoned' = abandoned \cup {a}
  /\ UNCHANGED <<claims, usable>>

\* Deleted, by whomever, or lost with a database.
Vanish ==
  /\ present' \in SUBSET present
  /\ UNCHANGED <<claims, pending, abandoned, usable>>

Abandon(a) ==
  /\ a[1] \notin usable
  /\ abandoned' = abandoned \cup {a}
  /\ UNCHANGED <<claims, present, pending, usable>>

ServersChange ==
  /\ usable' \in SUBSET Servers
  /\ UNCHANGED <<claims, present, pending, abandoned>>

Next ==
  \/ \E o \in Users, a \in Accounts :
       \/ Claim(o, a) \/ Release(o, a)
       \/ \E b \in Accounts : Rename(o, a, b)
  \/ \E a \in Accounts : Provide(a) \/ LoseTrack(a) \/ Stray(a) \/ Abandon(a)
  \/ Vanish \/ ServersChange

Spec == Init /\ [][Next]_ledger
================================================================================
