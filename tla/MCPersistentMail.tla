--------------------------- MODULE MCPersistentMail ---------------------------
(***************************************************************************)
(* Two gateways on one database, each serving one of two avatars.          *)
(***************************************************************************)
EXTENDS PersistentMail

CONSTANTS g1, g2, ann, bob

OneGatewayEach == {<<g1, ann>>, <<g2, bob>>}
OneGateway == {<<g1, ann>>}
=============================================================================
