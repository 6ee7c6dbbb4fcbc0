------------------------------ MODULE MCGenerated ------------------------------
(****************************************************************************)
(* Generated for TLC: every server spec over two ports, two secrets and a   *)
(* volume size, and every user spec whose limits come in pairs (size and    *)
(* files, upload and download get the same value).                          *)
(****************************************************************************)
EXTENDS Generated

MCSecrets == {NoName, "sftpgo-admin-secret"}
MCUserSpecs ==
  {u \in UserSpec : /\ u.quota # None => u.quota.size = u.quota.files
                    /\ u.bandwidth # None => u.bandwidth.upload = u.bandwidth.download
                    /\ u.maxSessions \in {0, 1}}
================================================================================
