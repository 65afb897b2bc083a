---------------------------- MODULE TokenEstimate ----------------------------
(***************************************************************************)
(* How many tokens a request and an answer are taken to have (utils.rs,    *)
(* api.rs extract_response_tokens): estimated from the texts of their JSON *)
(* unless the provider reports a total.  Of a JSON value only its texts    *)
(* matter and the fields they lie under, from the outermost object inwards *)
(* (arrays are passed through): it is a function from such paths to the    *)
(* tokens of the texts there, none for blank ones.  Nothing, a number or   *)
(* what is no JSON has no texts.  Proxy has what is charged.               *)
(***************************************************************************)
EXTENDS KeyLimits, Sequences, FiniteSetsExt, Functions

CONSTANT Unreported    \* the total of an answer that reports none

IsJson(v) == IsFiniteSet(DOMAIN v) /\ v \in [DOMAIN v -> Nat]
NoTexts == [path \in {} |-> 0]

RequestFields ==
  {"prompt", "input", "text", "instructions", "system", "messages", "contents",
   "parts", "content", "system_instruction", "systemInstruction"}
ResponseFields ==
  {"text", "content", "message", "output_text", "output", "parts", "candidates", "choices"}
TextFields ==
  {"text", "content", "parts", "message", "messages", "contents", "input", "prompt"}

(* The collectors descend into the fields names of the outermost objects   *)
(* and into TextFields from there on (collect_textish).                    *)
Collected(path, names) ==
  \A i \in DOMAIN path : path[i] \in IF i = 1 THEN names ELSE TextFields

TokensIn(v, names) == SumFunctionOnSet(v, {p \in DOMAIN v : Collected(p, names)})

(* collect_all_string_segments *)
AllTokens(v) == SumFunctionOnSet(v, DOMAIN v)

(* Mutant: a body without the usual fields counts nothing. *)
EstimateUsual(v, names) == TokensIn(v, names)

(* Only when the usual fields hold no text are all texts counted. *)
Estimate(v, names) == IF TokensIn(v, names) = 0 THEN AllTokens(v) ELSE TokensIn(v, names)

RequestTokens(v) == Estimate(v, RequestFields) % (U32Max + 1)

(* What one JSON answer or event says: its total, cut to 32 bits, or else  *)
(* the estimate of its texts.                                              *)
EventTokens(e) ==
  (IF e.total # Unreported THEN e.total ELSE Estimate(e.body, ResponseFields)) % (U32Max + 1)

(* A JSON answer is one event; of an event stream the largest counts, and  *)
(* of anything else nothing.                                               *)
OutputTokens(events) == Max({0} \cup {EventTokens(e) : e \in events})
=============================================================================
