------------------------------ MODULE MCProxy ------------------------------
(* One POST, one GET and one task of /execute on a pool of one or two      *)
(* slots of one key; an import may bring a slot of a second key.           *)
EXTENDS ProxyChecks, TLC

CONSTANTS post, get, exec, a1, a2, b1, ka, kb

MCRequests == {post, get, exec}
OneSlot == <<a1>>
TwoSlots == <<a1, a2>>
MCKeyOf == [s \in Slots |-> IF s = b1 THEN kb ELSE ka]
MCCooldownOnLimit == [k \in Keys |-> k = ka]
MCMidnights == {2}

(* The POST has a chat of one token beside a role, or two tokens in fields *)
(* that are looked at only if the usual ones are empty; the others have no *)
(* body.                                                                   *)
Chat == (<<"messages", "content">> :> 1) @@ (<<"messages", "role">> :> 1)
Unusual == (<<"messages", "content">> :> 0) @@ (<<"tools", "text">> :> 2)
MCBodies == [r \in Requests |-> IF r = post THEN {Chat, Unusual} ELSE {NoTexts}]

(* Answers: none that is JSON; a text of one token; a total of 2^32; and a *)
(* stream that reports its total of two after a text in an unusual field.  *)
Untold(path) == [total |-> Unreported, body |-> path :> 1]
Told(n) == [total |-> n, body |-> NoTexts]
MCAnswers ==
  {{}, {Untold(<<"choices", "message", "content">>)}, {Told(U32Max + 1)},
   {Untold(<<"delta", "content">>), Told(2)}}
=============================================================================
