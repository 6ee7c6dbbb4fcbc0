--------------------------- MODULE MCUserController ----------------------------
(****************************************************************************)
(* Small instances of UserController for TLC.                               *)
(****************************************************************************)
EXTENDS UserLedger, TLC

CONSTANTS o1, o2, s1, u1, u2, c1, c2

\* One object, two accounts it may name, two contents, with and without credentials
\* (which an account that exists does not need).
OneUserSpecs == {[account |-> <<s1, u1>>, content |-> c1, cred |-> "given"],
                 [account |-> <<s1, u2>>, content |-> c1, cred |-> "given"],
                 [account |-> <<s1, u1>>, content |-> c2, cred |-> "none"],
                 [account |-> <<s1, u1>>, content |-> c2, cred |-> "unreadable"]}

\* The specs whose fate differs: the second names another account, and has nothing
\* to log in with.
FairSpecs == {[account |-> <<s1, u1>>, content |-> c1, cred |-> "given"],
              [account |-> <<s1, u2>>, content |-> c2, cred |-> "none"]}

\* Two objects that name the same account.
SharedSpecs == {[account |-> <<s1, u1>>, content |-> c1, cred |-> "given"],
                [account |-> <<s1, u1>>, content |-> c2, cred |-> "given"]}

\* Runs in which the server is usable from the start.
ReadyInit == Init /\ \A s \in Servers : srv[s] = "ready"
ReadyFairSpec == ReadyInit /\ [][Next]_vars /\ Fairness
================================================================================
