---------------------------- MODULE ConfigChecks ----------------------------
(***************************************************************************)
(* What a change of the configuration leaves behind, through overlapping   *)
(* requests, failures half way and restarts.                               *)
(***************************************************************************)
EXTENDS ConfigStore

(* Types of the configuration's copies, the files and the requests.        *)
TypeOK ==
  /\ up \in BOOLEAN
  /\ mem \in Configs /\ disk \in Configs /\ yaml \in {"whole", "empty", "mixed"}
  /\ lone \subseteq Tasks /\ sound \in BOOLEAN
  /\ DOMAIN files \subseteq Files /\ \A f \in DOMAIN files : files[f] \in Seq(Keys)
  /\ grants \subseteq Clients \X Pools
  /\ running \subseteq Pools /\ live \in [Pools -> Seq(Keys)]
  /\ pc \in [Tasks -> {"idle", "verify", "write", "writing", "kv_cache", "save",
                       "saving", "live", "store", "edit", "done"}]
  /\ job \in [Importers -> Asked \cup {NoJob}]
  /\ snap \in [Tasks -> Configs]
  /\ buf \in [Importers -> Seq(Keys)]
  /\ alone \subseteq Tasks /\ kept \subseteq Tasks
  /\ dropped \subseteq Importers
  /\ written \subseteq Importers /\ marred \subseteq Files

(* Whatever imports overlap, fail or are cut off, a start that can read    *)
(* config.yaml finds every secret file it names: run_server gives up at    *)
(* the first that it cannot read (lib.rs), and import_key writes the       *)
(* secrets before the configuration (mcp.rs).  And config.yaml can be read *)
(* unless the last save of it met another one inside AppConfig::save or    *)
(* was cut off there (config.rs).                                          *)
Restartable ==
  /\ yaml = "whole" => Loadable(disk)
  /\ sound /\ Saving = {} => yaml = "whole"

ImportInEffect(t) ==
  LET j == job[t] IN
  /\ j.pool \in mem.pools /\ Contains(mem.keys[j.pool], FileOf(j))
  /\ yaml = "whole" => j.pool \in disk.pools /\ Contains(disk.keys[j.pool], FileOf(j))
  /\ FileOf(j) \in marred \/ WritersOf(FileOf(j)) # {} \/ Contains(files[FileOf(j)], j.key)
  /\ j.pool \in running =>
       \/ Contains(live[j.pool], j.key)
       \/ FileOf(j) \in marred
       \/ t \in dropped

(* A change that overlapped no other change stays, whatever overlaps after *)
(* it: an imported key is in memory, on disk and in the running pool, also *)
(* after restarts; a setting is in memory until one (mcp.rs import_key,    *)
(* api.rs handle_patch_config: each writes a whole copy back).  A key that *)
(* the running pool had no room for is missing there until the next start  *)
(* (mcp.rs ignores the error of add_key); and a secret file that another   *)
(* import read in the middle of a write, or that one was cut off in, loses *)
(* the keys it had (storage.rs).                                           *)
AnsweredChangesStay ==
  up => \A t \in kept : IF t \in Editors THEN t \in mem.edits ELSE ImportInEffect(t)

Limiters(p, k) == {i \in DOMAIN live[p] : live[p][i] = k}

ImportsOf(p, k) ==
  {t \in written : job[t].key = k /\ ProviderOf[job[t].pool] = ProviderOf[p]}

(* A running pool has no more limiters for a secret than times an import,  *)
(* of this pool or another, wrote it for the pool's provider: a secret     *)
(* file that two imports share is named by a pool once (mcp.rs "avoid      *)
(* duplicates in config"), so that a start, which makes an ApiKey per line *)
(* (lib.rs), makes none twice for one import.  It says nothing of the sum: *)
(* pools that name the same file have a limiter each for every line of it, *)
(* and a secret that is imported twice has two in one pool.                *)
LimitersHaveImports ==
  up => \A p \in Pools : \A k \in Keys :
          Cardinality(Limiters(p, k)) <= Cardinality(ImportsOf(p, k))
=============================================================================
