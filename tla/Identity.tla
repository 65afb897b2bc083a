------------------------------ MODULE Identity ------------------------------
(***************************************************************************)
(* Whom a request comes from (api.rs, the extractors AuthToken and         *)
(* AdminToken; auth.rs, AuthManager).  The extractor reads the settings    *)
(* that are live when the request arrives; AuthManager keeps those the     *)
(* server started with.  Secret, issuer and audience sign a token          *)
(* together: one signer stands for the three.                              *)
(***************************************************************************)
EXTENDS Integers, Sequences

CONSTANTS
  ClientIds,      \* registration takes any id, "admin-bypass" as well
  Signers,
  AccessKeys,     \* texts that may be an admin key or a master key
  NoKey,          \* None, for a key or a header that is not there
  FallbackKey     \* the admin key of the environment, or the built-in one

ASSUME IdentityAssumption ==
  FallbackKey \in AccessKeys /\ NoKey \notin AccessKeys

AuthConfig ==
  [enabled : BOOLEAN, admin_key : AccessKeys \cup {NoKey},
   master_key : AccessKeys \cup {NoKey}, signer : Signers]

Roles == {"admin", "client", "none"}
Jwts == [sub : ClientIds, role : Roles, signer : Signers, fresh : BOOLEAN]

(* What a request presents: X-Admin-Key, X-Nexus-Client-Id, and tokens in  *)
(* the order they are looked for: Authorization, the three headers for API *)
(* keys, and the query.  (A text that is no JWT is taken from AccessKeys.) *)
Tokens == [jwt : Jwts] \cup [text : AccessKeys]
Presented(places) ==
  [admin_key : AccessKeys \cup {NoKey}, client_id : ClientIds, tokens : places]

Claims(sub, role) == [sub |-> sub, role |-> role]
Rejected == Claims("none", "none")      \* 401

(* Tokens of a year, as both ways to register a client make them. *)
GenerateToken(boot, sub) ==
  [sub |-> sub, role |-> "client", signer |-> boot.signer, fresh |-> TRUE]

(* AuthManager::validate_token. *)
ValidateToken(boot, token) ==
  CASE ~ boot.enabled -> Claims("anonymous", "none")
    [] boot.enabled /\ token \in [jwt : Jwts] ->
         IF token.jwt.signer = boot.signer /\ token.jwt.fresh
         THEN Claims(token.jwt.sub, token.jwt.role) ELSE Rejected
    [] OTHER -> Rejected

AdminKey(live) == IF live.admin_key # NoKey THEN live.admin_key ELSE FallbackKey
HasAdminKey(live, request) == request.admin_key = AdminKey(live)
HasMasterKey(live, token) == live.master_key # NoKey /\ token = [text |-> live.master_key]

(* Mutant: tokens are checked with the settings as they are now. *)
IdentifyLive(live, boot, request) ==
  CASE ~ live.enabled -> Claims("local-client", "admin")
    [] live.enabled /\ HasAdminKey(live, request) -> Claims("admin-bypass", "admin")
    [] OTHER ->
         IF request.tokens = <<>> THEN Rejected
         ELSE IF HasMasterKey(live, Head(request.tokens)) THEN Claims(request.client_id, "admin")
         ELSE ValidateToken(live, Head(request.tokens))

(* Mutant: the master key is looked for in every place. *)
IdentifyAnywhere(live, boot, request) ==
  CASE ~ live.enabled -> Claims("local-client", "admin")
    [] live.enabled /\ HasAdminKey(live, request) -> Claims("admin-bypass", "admin")
    [] OTHER ->
         IF request.tokens = <<>> THEN Rejected
         ELSE IF \E i \in DOMAIN request.tokens : HasMasterKey(live, request.tokens[i])
         THEN Claims(request.client_id, "admin")
         ELSE ValidateToken(boot, Head(request.tokens))

(* AuthToken::from_request_parts: only the first token counts.             *)
Identify(live, boot, request) ==
  CASE ~ live.enabled -> Claims("local-client", "admin")
    [] live.enabled /\ HasAdminKey(live, request) -> Claims("admin-bypass", "admin")
    [] OTHER ->
         IF request.tokens = <<>> THEN Rejected
         ELSE IF HasMasterKey(live, Head(request.tokens)) THEN Claims(request.client_id, "admin")
         ELSE ValidateToken(boot, Head(request.tokens))

(* AdminToken. *)
Administers(claims) == claims.role = "admin" \/ claims.sub = "admin-bypass"
=============================================================================
