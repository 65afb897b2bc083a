----------------------------- MODULE MCRegistry -----------------------------
(* Two pools of provider 1 and one that an import may create.  Between two *)
(* starts pool 1 may leave or come back; it may lose its synchronisation   *)
(* while pool 2 moves to provider 2, so that nobody marks what pool 2 has  *)
(* stored under provider 1; or it may move itself and change its priority. *)
(* One model is enough: every statement of the task acts on the rows of a  *)
(* model as if it were alone, so what happens to one of several models is  *)
(* a behaviour of this instance.  A day has one period instead of four.    *)
EXTENDS RegistryChecks, TLC

Entry(provider, priority, skip) ==
  [provider |-> provider, priority |-> priority, skip_model_sync |-> skip]

MCFirstConfig == <<Entry(1, 2, FALSE), Entry(1, 1, FALSE)>>
MCEdited ==
  { MCFirstConfig,
    2 :> Entry(1, 1, FALSE),
    <<Entry(1, 2, TRUE), Entry(2, 1, FALSE)>>,
    <<Entry(2, 0, FALSE), Entry(1, 1, FALSE)>> }
=============================================================================
