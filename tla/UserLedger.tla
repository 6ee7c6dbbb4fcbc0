------------------------------- MODULE UserLedger -------------------------------
(****************************************************************************)
(* UserController as an implementation of AccountLedger.                    *)
(****************************************************************************)
EXTENDS UserController

StoredClaims == {c \in Users \X Account : Claims(c[1], c[2])}
ExistingAccounts == {a \in Account : accounts[a] # Null}
LatePosts == {r.account : r \in {q \in late : q.method = "POST"}}
UsableServers == {s \in Servers : srv[s] = "ready"}

Ledger == INSTANCE AccountLedger
            WITH claims <- StoredClaims, present <- ExistingAccounts,
                 pending <- LatePosts, abandoned <- disowned, usable <- UsableServers

\* Whatever the caches hold and whatever is retried, lost or executed late, every
\* step of the controller and its surroundings is an entry in the ledger or none at
\* all: POST only for an account somebody answers for, the finalizer removed only
\* from an object whose account is gone or abandoned, accounts abandoned only for
\* one of the three reasons.
KeepsLedger == Ledger!Spec
================================================================================
