----------------------------- MODULE MCTwoManagers -----------------------------
(****************************************************************************)
(* Two managers, one SftpGoUser, one account.                               *)
(****************************************************************************)
EXTENDS TwoManagers, TLC

CONSTANTS o1, s1, u1, c1
OneSpec == {[account |-> <<s1, u1>>, content |-> c1, cred |-> "given"]}
================================================================================
