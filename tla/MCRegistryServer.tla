-------------------------- MODULE MCRegistryServer --------------------------
(* Model checking of RegistryServer: an interface with one peer, named below *)
(* it, and users who have one e-mail between them.                           *)
EXTENDS RegistryServer
MCHome == <<"plc">>
MCPeers == {<<"plc", "ple">>}
MCCalled == [n \in Slices \cup Users |-> IF n \in Users THEN "mail" ELSE "slice"]
=============================================================================
