----------------------------- MODULE ConfigStore -----------------------------
(***************************************************************************)
(* What changes the configuration while the server runs (mcp.rs            *)
(* import_key and update_pool_description, api.rs handle_patch_config), in *)
(* the order it reaches the places that hold it: the ArcSwap in memory, the *)
(* secret files, config.yaml, the grants of the database and the keys of   *)
(* the running pools.  Requests run on several threads, and between any    *)
(* two steps of one there may be steps of another or the end of the        *)
(* process.  fs::write is two steps: opening the file truncates it, then   *)
(* the text goes to its beginning.                                         *)
(***************************************************************************)
EXTENDS Naturals, Sequences, SequencesExt

CONSTANTS
  Importers,   \* requests that import a key
  Editors,     \* requests that change a setting, each one of its own
  Clients,
  Pools,
  ProviderOf,  \* the provider a pool has, or gets from the request
  Configured,  \* pools that config.yaml names at the first start
  Keys,        \* the secrets
  Asked,       \* the imports that may be asked for
  NoJob

ASSUME ConfigAssumption ==
  /\ Configured \subseteq Pools
  /\ Importers \cap Editors = {}
  /\ Asked \subseteq [client : Clients, pool : Pools, key : Keys, kv_cache : BOOLEAN]
  /\ NoJob \notin Asked

Tasks == Importers \cup Editors

(* A secret file is named by the client and the provider. *)
FileOf(j) == <<j.client, ProviderOf[j.pool]>>
Files == {FileOf(j) : j \in Asked}

Configs == [pools : SUBSET Pools, keys : [Pools -> Seq(Files)], edits : SUBSET Editors]

VARIABLES
  up,       \* whether the server runs
  mem,      \* the configuration in memory
  disk,     \* the configuration of config.yaml, when it is ...
  yaml,     \* ... "whole", not "empty", or "mixed" of two texts
  files,    \* the secrets in each file there is
  grants,   \* client_pools
  running,  \* pools there were when the server started
  live,     \* the keys of each running pool, one element per ApiKey
  dropped,  \* imports whose key the running pool had no room for (history)
  pc, job, snap, buf,   \* of each request: its step, arguments, copies of the
                        \* configuration and of the secret file
  alone,    \* requests that run and overlapped no other one (history)
  kept,     \* requests answered well after running alone (history)
  written,  \* imports that have written their secret (history)
  marred,   \* secret files that were read or left inside a write (history)
  lone,     \* the request inside a save of config.yaml that no other one
            \* overlapped so far, if any (history)
  sound     \* whether the last such save to end was one of those (history)

saves == <<disk, yaml, lone, sound>>
history == <<alone, kept, written, marred>>
copies == <<snap, buf>>
local == <<pc, job, copies>>
stored == <<saves, files, grants>>
vars == <<up, mem, stored, running, live, dropped, local, history>>

Active == {t \in Tasks : pc[t] \notin {"idle", "done"}}
Saving == {t \in Tasks : pc[t] = "saving"}
WritersOf(f) == {t \in Importers : pc[t] = "writing" /\ FileOf(job[t]) = f}

(* Mutant: the secret file is added whether the pool has it or not. *)
WithEntryAlways(c, j) ==
  [pools |-> c.pools \cup {j.pool},
   keys  |-> [c.keys EXCEPT ![j.pool] = Append(@, FileOf(j))],
   edits |-> c.edits]

(* The configuration after an import: the pool is created if need be, and  *)
(* the secret file is added unless the pool already has it.                *)
WithEntry(c, j) ==
  [pools |-> c.pools \cup {j.pool},
   keys  |-> [c.keys EXCEPT ![j.pool] =
                IF Contains(@, FileOf(j)) THEN @ ELSE Append(@, FileOf(j))],
   edits |-> c.edits]

(* Mutant: a secret file is taken for one key. *)
KeyPerFile(p) == [i \in DOMAIN disk.keys[p] |-> files[disk.keys[p][i]]]

(* The keys a start makes for a pool: one per line of its secret files. *)
KeysOnDisk(p) ==
  FlattenSeq([i \in DOMAIN disk.keys[p] |-> files[disk.keys[p][i]]])

NothingYet == [pools |-> {}, keys |-> [p \in Pools |-> <<>>], edits |-> {}]

Init ==
  /\ up = TRUE
  /\ mem = [pools |-> Configured, keys |-> [p \in Pools |-> <<>>], edits |-> {}]
  /\ disk = mem /\ yaml = "whole" /\ lone = {} /\ sound = TRUE
  /\ files = <<>> /\ grants = {}
  /\ running = Configured /\ live = [p \in Pools |-> <<>>] /\ dropped = {}
  /\ pc = [t \in Tasks |-> "idle"]
  /\ job = [t \in Importers |-> NoJob]
  /\ snap = [t \in Tasks |-> NothingYet]
  /\ buf = [t \in Importers |-> <<>>]
  /\ alone = {} /\ kept = {} /\ written = {} /\ marred = {}

Goto(t, step) == pc' = [pc EXCEPT ![t] = step]

(* A request takes its copy of the configuration in memory. *)
Begin(t, step) ==
  /\ up /\ pc[t] = "idle"
  /\ snap' = [snap EXCEPT ![t] = mem]
  /\ alone' = IF Active = {} THEN {t} ELSE {}
  /\ Goto(t, step)
  /\ UNCHANGED <<up, mem, stored, running, live, dropped, buf, kept, written, marred>>

(* import_key; the keys are then verified with the provider. *)
BeginImport(t, j) ==
  /\ Begin(t, "verify")
  /\ job' = [job EXCEPT ![t] = j]

(* save_secret_for_client reads the file, or starts an empty one, ...       *)
ReadSecrets(t) ==
  LET f == FileOf(job[t])
  IN  /\ pc[t] = "verify"
      /\ buf' = [buf EXCEPT ![t] = IF f \in DOMAIN files THEN files[f] ELSE <<>>]
      /\ marred' = IF WritersOf(f) = {} THEN marred ELSE marred \cup {f}
      /\ Goto(t, "write")
      /\ UNCHANGED <<up, mem, stored, running, live, dropped, job, snap, alone, kept, written>>

(* ... and writes it back with the key at its end.                         *)
OpenSecrets(t) ==
  LET f == FileOf(job[t])
  IN  /\ pc[t] = "write"
      /\ files' = [g \in DOMAIN files \cup {f} |-> IF g = f THEN <<>> ELSE files[g]]
      /\ Goto(t, "writing")
      /\ UNCHANGED <<up, mem, saves, grants, running, live, dropped, job, copies, history>>

(* What is in a file after text over old: the secrets of a provider are of *)
(* one length.                                                             *)
Over(text, old) ==
  text \o SubSeq(old, Len(text) + 1, Len(old))

WriteSecrets(t) ==
  LET f == FileOf(job[t])
  IN  /\ pc[t] = "writing"
      /\ files' = [files EXCEPT ![f] = Over(Append(buf[t], job[t].key), @)]
      /\ buf' = [buf EXCEPT ![t] = <<>>]
      /\ written' = written \cup {t}
      /\ Goto(t, IF job[t].kv_cache /\ job[t].pool \in snap[t].pools
                 THEN "kv_cache" ELSE "save")
      /\ UNCHANGED <<up, mem, saves, grants, running, live, dropped, job, snap, alone, kept, marred>>

(* set_pool_kv_cache makes the row of the client and the pool if there is  *)
(* none; a failure is only printed.                                        *)
SetKvCache(t) ==
  /\ pc[t] = "kv_cache"
  /\ \/ grants' = grants \cup {<<job[t].client, job[t].pool>>}
     \/ UNCHANGED grants
  /\ Goto(t, "save")
  /\ UNCHANGED <<up, mem, saves, files, running, live, dropped, job, copies, history>>

(* Mutant: config.yaml is saved before the secrets are written. *)
SaveFirst(t) ==
  /\ pc[t] \in {"verify", "save"}
  /\ yaml' = "whole" /\ disk' = WithEntry(snap[t], job[t])
  /\ Goto(t, IF pc[t] = "verify" THEN "verify" ELSE "saving")
  /\ UNCHANGED <<up, mem, lone, sound, files, grants, running, live, dropped, job, copies, history>>

(* config.yaml is truncated ...                                            *)
OpenConfig(t) ==
  /\ pc[t] = "save"
  /\ yaml' = "empty" /\ lone' = IF Saving = {} THEN {t} ELSE {}
  /\ Goto(t, "saving")
  /\ UNCHANGED <<up, mem, disk, sound, files, grants, running, live, dropped, job, copies, history>>

(* Mutant: the configuration is not saved for a pool that exists. *)
SaveNewPools(t) ==
  /\ pc[t] = "saving"
  /\ disk' = IF job[t].pool \in snap[t].pools THEN disk ELSE WithEntry(snap[t], job[t])
  /\ yaml' = "whole" /\ sound' = (t \in lone) /\ lone' = lone \ {t}
  /\ Goto(t, IF job[t].pool \in snap[t].pools THEN "live" ELSE "store")
  /\ UNCHANGED <<up, mem, files, grants, running, live, dropped, job, copies, history>>

(* ... and gets the request's copy with the key in it.  Where another one  *)
(* wrote since, the end of a longer text stays behind the shorter one.     *)
Save(t) ==
  /\ pc[t] = "saving"
  /\ disk' = WithEntry(snap[t], job[t])
  /\ yaml' \in IF yaml = "empty" THEN {"whole"} ELSE {"whole", "mixed"}
  /\ sound' = (t \in lone) /\ lone' = lone \ {t}
  /\ Goto(t, IF job[t].pool \in snap[t].pools THEN "live" ELSE "store")
  /\ UNCHANGED <<up, mem, files, grants, running, live, dropped, job, copies, history>>

(* The running pool gets an ApiKey, or not if its channel is full: the     *)
(* error of add_key is ignored.  (How many slots fit is KeyPool's AddKey.) *)
(* A pool made since the start has no KeyPool.                             *)
AddLive(t) ==
  /\ pc[t] = "live"
  /\ \/ /\ job[t].pool \in running /\ UNCHANGED dropped
        /\ live' = [live EXCEPT ![job[t].pool] = Append(@, job[t].key)]
     \/ job[t].pool \in running /\ dropped' = dropped \cup {t} /\ UNCHANGED live
     \/ job[t].pool \notin running /\ UNCHANGED <<live, dropped>>
  /\ Goto(t, "store")
  /\ UNCHANGED <<up, mem, stored, running, job, copies, history>>

(* The requests ts end, with their copies.  A file that one has open stays *)
(* as it is.                                                               *)
End(ts) ==
  /\ pc' = [t \in Tasks |-> IF t \in ts THEN "done" ELSE pc[t]]
  /\ snap' = [t \in Tasks |-> IF t \in ts THEN NothingYet ELSE snap[t]]
  /\ buf' = [t \in Importers |-> IF t \in ts THEN <<>> ELSE buf[t]]
  /\ alone' = {}
  /\ marred' = marred \cup {FileOf(job[t]) : t \in {u \in ts \cap Importers : pc[u] = "writing"}}
  /\ lone' = lone \ ts
  /\ sound' = (sound /\ ts \cap Saving = {})

Answered(t) ==
  /\ kept' = IF t \in alone THEN kept \cup {t} ELSE kept
  /\ End({t})

StoreImport(t) ==
  /\ pc[t] = "store"
  /\ mem' = WithEntry(snap[t], job[t])
  /\ Answered(t)
  /\ UNCHANGED <<up, disk, yaml, files, grants, running, live, dropped, job, written>>

(* The verification, a file operation or the client fails the request: it  *)
(* ends where it is.                                                       *)
Fail(t) ==
  /\ pc[t] \in {"verify", "write", "writing", "kv_cache", "save", "saving"}
  /\ End({t})
  /\ UNCHANGED <<up, mem, disk, yaml, files, grants, running, live, dropped, job, kept, written>>

(* update_pool_description and handle_patch_config. *)
BeginEdit(t) ==
  /\ Begin(t, "edit")
  /\ UNCHANGED job

StoreEdit(t) ==
  /\ pc[t] = "edit"
  /\ mem' = [snap[t] EXCEPT !.edits = @ \cup {t}]
  /\ Answered(t)
  /\ UNCHANGED <<up, disk, yaml, files, grants, running, live, dropped, job, written>>

(* The process ends, with the requests it runs and all it has in memory. *)
Crash ==
  /\ up /\ up' = FALSE
  /\ End(Active) /\ dropped' = {}
  /\ kept' = {t \in kept : t \in Editors => t \in disk.edits}
  /\ UNCHANGED <<mem, disk, yaml, files, grants, running, live, job, written>>

Loadable(c) == \A p \in c.pools : \A i \in DOMAIN c.keys[p] : c.keys[p][i] \in DOMAIN files

(* AppConfig::load and run_server: a config.yaml that is no configuration  *)
(* ends the start, as does a secret file that cannot be read.              *)
Start ==
  /\ ~ up /\ yaml = "whole" /\ Loadable(disk) /\ up' = TRUE
  /\ mem' = disk
  /\ running' = disk.pools
  /\ live' = [p \in Pools |-> IF p \in disk.pools THEN KeysOnDisk(p) ELSE <<>>]
  /\ UNCHANGED <<stored, dropped, local, history>>

Import(t) ==
  \/ \E j \in Asked : BeginImport(t, j)
  \/ ReadSecrets(t) \/ OpenSecrets(t) \/ WriteSecrets(t) \/ SetKvCache(t)
  \/ OpenConfig(t) \/ Save(t) \/ AddLive(t) \/ StoreImport(t) \/ Fail(t)

Next ==
  \/ \E t \in Importers : Import(t)
  \/ \E t \in Editors : BeginEdit(t) \/ StoreEdit(t)
  \/ Crash
  \/ Start

Spec == Init /\ [][Next]_vars
=============================================================================
