------------------------------ MODULE MCGateway ------------------------------
(* Three pools that run, two of them for audio and of one priority, so     *)
(* that a route may name one, the other and the first again; and one that  *)
(* an import may create.  Three providers, the names of models suggesting  *)
(* the first.                                                              *)
EXTENDS GatewayChecks, IdentityChecks

MCProviderOf == <<1, 2, 1, 2>>
MCPriority == <<1, 1, 2, 0>>
MCSpeaks == <<{"chat", "stt"}, {"stt"}, {"chat"}, {"chat"}>>
=============================================================================
