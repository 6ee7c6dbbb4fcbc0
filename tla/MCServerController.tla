-------------------------- MODULE MCServerController ---------------------------
(****************************************************************************)
(* Small instances of ServerController for TLC: one server name.            *)
(****************************************************************************)
EXTENDS ServerOwnership, TLC

CONSTANTS s1

MCNoPods == {NoPods}
MCPods == {NoPods, [replicas |-> 1, ready |-> 1]}
MCSecrets == {NoName}
Plain == [sftpPort |-> 0, webPort |-> 0, sftp |-> None, http |-> None,
          backend |-> NoName, volume |-> None, admin |-> None]
OtherPort == [Plain EXCEPT !.sftpPort = 9090]

\* A spec with a volume.
OneSpec == {[OtherPort EXCEPT !.volume = NoName]}

\* Two specs that differ in all generated children, one of them with a volume.
VolumeSpecs == {Plain, [OtherPort EXCEPT !.volume = NoName]}
PortSpecs == {Plain, OtherPort}
================================================================================
