--------------------------- MODULE IdentityChecks ---------------------------
(***************************************************************************)
(* What a token is worth, whatever was patched since the server started.   *)
(***************************************************************************)
EXTENDS Gateway

(* AuthManager uses two of the settings that the server started with.      *)
Boots == {c \in AuthConfig : c.admin_key = NoKey /\ c.master_key = NoKey}

(* All that may be presented with up to two tokens. *)
Requesters == Presented({<<>>} \cup {<<t>> : t \in Tokens} \cup (Tokens \X Tokens))

Bears(request, ts) == request.tokens # <<>> /\ Head(request.tokens) \in ts

Issued(boot, id) == [jwt : {GenerateToken(boot, id)}]

Signed(boot, subs, roles) ==
  [jwt : [sub : subs, role : roles, signer : {boot.signer}, fresh : {TRUE}]]

(* The reasons that docs/AUTH.md lists: authentication is off, the admin   *)
(* key, the master key, or a token with that role that is valid for the    *)
(* settings the server started with; and one it does not list, such a      *)
(* token of any role whose client is called as those with the admin key    *)
(* are (api.rs, AdminToken).                                               *)
ReasonToAdminister(boot, live, request) ==
  \/ ~ live.enabled
  \/ HasAdminKey(live, request)
  \/ Bears(request, [text : {live.master_key} \ {NoKey}])
  \/ boot.enabled /\ Bears(request, Signed(boot, ClientIds, {"admin"}))
  \/ boot.enabled /\ Bears(request, Signed(boot, ClientIds \cap {"admin-bypass"}, Roles))

(* Whom the token that was made for a client stands for: the client, or    *)
(* nobody when the server was started without authentication.              *)
Holder(boot, id) ==
  IF boot.enabled THEN Claims(id, "client") ELSE Claims("anonymous", "none")

(* Roles that the holder of an issued token may get in its place, or for   *)
(* another client.                                                         *)
Misread ==
  {role \in Roles :
     \E boot \in Boots, live \in AuthConfig, request \in Requesters, id \in ClientIds :
       LET claims == Identify(live, boot, request)
       IN  /\ live.enabled /\ ~ HasAdminKey(live, request)
           /\ Bears(request, Issued(boot, id))
           /\ claims.role = role /\ claims # Holder(boot, id)}

(* Roles that some request gets for no reason, or with a reason in vain.   *)
Unexplained ==
  {role \in Roles :
     \E boot \in Boots, live \in AuthConfig, request \in Requesters :
       LET claims == Identify(live, boot, request)
       IN  /\ claims.role = role
           /\ ~ (Administers(claims) <=> ReasonToAdminister(boot, live, request))}

(* What a token from registration is worth is settled when the server      *)
(* starts, and no PATCH of the secret, the issuer or the keys and nothing  *)
(* that is presented after the token changes it: it names its client, and  *)
(* nobody else; but on a server that was started without authentication    *)
(* and got it by a PATCH every token names "anonymous", and no client      *)
(* (lib.rs gives AuthManager a copy of the settings; auth.rs               *)
(* validate_token; api.rs takes the first token it finds).                 *)
IssuedTokensHold == req.role \notin Misread

(* A request runs as an administrator's for one of the reasons that        *)
(* docs/AUTH.md lists, or because a valid token names "admin-bypass", an   *)
(* id that registration lets any client have; and with such a reason it    *)
(* never runs as anybody else's (api.rs, the extractors).                  *)
AdminsExplained == req.role \notin Unexplained
=============================================================================
