---------------------------- MODULE ConfigProofs ----------------------------
(***************************************************************************)
(* The configuration, whatever imports and edits overlap, fail or are cut  *)
(* off, for any number of them: the server can always be started again, a  *)
(* limiter of a pool has an import, and a change that was answered stays.  *)
(***************************************************************************)
EXTENDS ConfigChecks, SequenceTheorems, OrderingProofs

(* Configurations that name no other secret files than those of F.         *)
ConfigsOver(F) == [pools : SUBSET Pools, keys : [Pools -> Seq(F)], edits : SUBSET Editors]

Steps == {"idle", "verify", "write", "writing", "kv_cache", "save", "saving",
          "live", "store", "edit", "done"}

(* Every configuration that is, or may yet become, config.yaml names only  *)
(* files there are: an import that has read the one in memory may save it  *)
(* at any later time, and one past its write also names its own file.      *)
ConfigsInv ==
  /\ mem \in ConfigsOver(DOMAIN files)
  /\ disk \in ConfigsOver(DOMAIN files)
  /\ snap \in [Tasks -> ConfigsOver(DOMAIN files)]

JobsInv ==
  /\ pc \in [Tasks -> Steps]
  /\ job \in [Importers -> Asked \cup {NoJob}]
  /\ \A t \in Importers :
       /\ pc[t] # "idle" => job[t] \in Asked
       /\ pc[t] \in {"writing", "kv_cache", "save", "saving", "live", "store"} =>
            FileOf(job[t]) \in DOMAIN files

(* A save that nothing overlapped finds the file as empty as it left it.   *)
SavesInv ==
  /\ \A t \in lone : Saving = {t} /\ yaml = "empty"
  /\ sound /\ Saving = {} => yaml = "whole"

IInv == ConfigsInv /\ JobsInv /\ SavesInv

-----------------------------------------------------------------------------
(* What names files of F names files of any larger set.                    *)
LEMMA MoreFiles ==
  ASSUME NEW F, NEW G, F \subseteq G
  PROVE  ConfigsOver(F) \subseteq ConfigsOver(G)
BY DEF ConfigsOver

(* An import into a configuration adds its own file and no other           *)
(* (mcp.rs, import_key).                                                   *)
LEMMA EntryOver ==
  ASSUME NEW F, NEW c \in ConfigsOver(F), NEW j \in Asked, FileOf(j) \in F
  PROVE  WithEntry(c, j) \in ConfigsOver(F)
<1>1. j.pool \in Pools
  BY ConfigAssumption DEF ConfigAssumption
<1> DEFINE ks == IF Contains(c.keys[j.pool], FileOf(j)) THEN c.keys[j.pool]
                 ELSE Append(c.keys[j.pool], FileOf(j))
<1>2. ks \in Seq(F)
  BY <1>1 DEF ConfigsOver
<1>3. WithEntry(c, j) = [pools |-> c.pools \cup {j.pool},
                         keys |-> [c.keys EXCEPT ![j.pool] = ks],
                         edits |-> c.edits]
  BY DEF WithEntry
<1> HIDE DEF ks
<1> QED BY <1>1, <1>2, <1>3 DEF ConfigsOver

LEMMA NothingOver ==
  ASSUME NEW F
  PROVE  NothingYet \in ConfigsOver(F)
BY DEF NothingYet, ConfigsOver

(* The first start.                                                        *)
LEMMA InitInv == Init => IInv
<1> SUFFICES ASSUME Init PROVE IInv
  OBVIOUS
<1> USE DEF Init
<1>1. ConfigsInv
  <2>1. mem \in ConfigsOver(DOMAIN files)
    BY ConfigAssumption DEF ConfigAssumption, ConfigsOver
  <2> QED BY <2>1, NothingOver DEF ConfigsInv
<1>2. JobsInv
  BY DEF JobsInv, Steps, Tasks
<1>3. SavesInv
  BY DEF SavesInv
<1> QED BY <1>1, <1>2, <1>3 DEF IInv

(* A request that goes from one step to another, neither of them inside a  *)
(* save, leaves the saves as they are.                                     *)
LEMMA NotSaving ==
  ASSUME IInv, NEW t \in Tasks, NEW step, Goto(t, step), UNCHANGED saves,
         pc[t] # "saving", step # "saving"
  PROVE  SavesInv'
<1>1. Saving' = Saving
  BY DEF Goto, Saving, IInv, JobsInv
<1> QED BY <1>1 DEF IInv, SavesInv, saves

(* Requests that end leave the invariant alone.                            *)
LEMMA EndInv ==
  ASSUME IInv, NEW ts \in SUBSET Active, End(ts), UNCHANGED <<yaml, files, job>>
  PROVE  /\ JobsInv' /\ SavesInv' /\ snap' \in [Tasks -> ConfigsOver(DOMAIN files)]
<1>1. snap' \in [Tasks -> ConfigsOver(DOMAIN files)]
  BY NothingOver DEF IInv, ConfigsInv, End
<1>2. pc' \in [Tasks -> Steps]
  BY DEF IInv, JobsInv, End, Steps
<1>3. \A t \in Importers : \/ pc'[t] = pc[t]
                           \/ pc[t] # "idle" /\ pc'[t] = "done"
  BY DEF End, Tasks, Active
<1>4. JobsInv'
  BY <1>2, <1>3 DEF IInv, JobsInv
<1>5. SavesInv'
  <2>1. Saving' = Saving \ ts
    BY DEF Saving, End
  <2>2. lone' = lone \ ts /\ sound' = (sound /\ ts \cap Saving = {})
    BY DEF End
  <2>3. \A t \in lone' : Saving' = {t} /\ yaml' = "empty"
    BY <2>1, <2>2 DEF IInv, SavesInv
  <2>4. sound' /\ Saving' = {} => Saving = {} /\ sound
    BY <2>1, <2>2
  <2> QED BY <2>3, <2>4 DEF IInv, SavesInv
<1> QED BY <1>1, <1>4, <1>5

(* An import writes its secret file before any configuration may name it.  *)
LEMMA ImportInv ==
  ASSUME IInv, NEW t \in Importers, Import(t)
  PROVE  IInv'
<1> USE DEF IInv, JobsInv, Goto, Tasks, Steps, local, copies, stored, saves, history
<1>0. ASSUME NEW step, Goto(t, step), UNCHANGED saves, pc[t] # "saving", step # "saving"
      PROVE  SavesInv'
  BY <1>0, NotSaving
<1>1. ASSUME NEW j \in Asked, BeginImport(t, j) PROVE IInv'
  <2>1. ConfigsInv'
    BY <1>1 DEF BeginImport, Begin, ConfigsInv
  <2>2. JobsInv'
    BY <1>1 DEF BeginImport, Begin
  <2>3. SavesInv'
    BY <1>1, <1>0 DEF BeginImport, Begin
  <2> QED BY <2>1, <2>2, <2>3
<1>2. CASE ReadSecrets(t)
  <2>1. ConfigsInv' /\ JobsInv'
    BY <1>2 DEF ReadSecrets, ConfigsInv
  <2>2. SavesInv'
    BY <1>2, <1>0 DEF ReadSecrets
  <2> QED BY <2>1, <2>2
<1>3. CASE OpenSecrets(t)
  <2>1. DOMAIN files' = DOMAIN files \cup {FileOf(job[t])}
    BY <1>3 DEF OpenSecrets
  <2>2. ConfigsInv'
    <3>1. ConfigsOver(DOMAIN files) \subseteq ConfigsOver(DOMAIN files')
      BY <2>1, MoreFiles
    <3> QED BY <1>3, <3>1 DEF OpenSecrets, ConfigsInv
  <2>3. JobsInv'
    BY <1>3, <2>1 DEF OpenSecrets, FileOf
  <2>4. SavesInv'
    BY <1>3, <1>0 DEF OpenSecrets
  <2> QED BY <2>2, <2>3, <2>4
<1>4. CASE WriteSecrets(t)
  <2>1. DOMAIN files' = DOMAIN files
    BY <1>4 DEF WriteSecrets
  <2>2. ConfigsInv'
    BY <1>4, <2>1 DEF WriteSecrets, ConfigsInv
  <2>3. JobsInv'
    BY <1>4, <2>1 DEF WriteSecrets, FileOf
  <2>4. SavesInv'
    <3>1. PICK step \in {"kv_cache", "save"} : Goto(t, step)
      BY <1>4 DEF WriteSecrets
    <3> QED BY <1>4, <3>1, <1>0 DEF WriteSecrets
  <2> QED BY <2>2, <2>3, <2>4
<1>5. CASE SetKvCache(t)
  <2>1. ConfigsInv' /\ JobsInv'
    BY <1>5 DEF SetKvCache, ConfigsInv
  <2>2. SavesInv'
    BY <1>5, <1>0 DEF SetKvCache
  <2> QED BY <2>1, <2>2
<1>6. CASE OpenConfig(t)
  <2>1. ConfigsInv' /\ JobsInv'
    BY <1>6 DEF OpenConfig, ConfigsInv
  <2>2. Saving' = Saving \cup {t}
    BY <1>6 DEF OpenConfig, Saving
  <2>3. SavesInv'
    BY <1>6, <2>2 DEF OpenConfig, SavesInv
  <2> QED BY <2>1, <2>3
<1>9. CASE Save(t)
  <2>1. WithEntry(snap[t], job[t]) \in ConfigsOver(DOMAIN files)
    BY <1>9, EntryOver DEF Save, ConfigsInv
  <2>2. ConfigsInv'
    BY <1>9, <2>1 DEF Save, ConfigsInv
  <2>3. JobsInv'
    BY <1>9 DEF Save
  <2>4. Saving' = Saving \ {t} /\ t \in Saving
    BY <1>9 DEF Save, Saving
  <2>5. lone' = {}
    BY <1>9, <2>4 DEF Save, SavesInv
  <2>6. sound' => yaml' = "whole"
    BY <1>9 DEF Save, SavesInv
  <2>7. SavesInv'
    BY <2>5, <2>6 DEF SavesInv
  <2> QED BY <2>2, <2>3, <2>7
<1>10. CASE AddLive(t)
  <2>1. ConfigsInv' /\ JobsInv'
    BY <1>10 DEF AddLive, ConfigsInv
  <2>2. SavesInv'
    BY <1>10, <1>0 DEF AddLive
  <2> QED BY <2>1, <2>2
<1>7. CASE StoreImport(t)
  <2>1. WithEntry(snap[t], job[t]) \in ConfigsOver(DOMAIN files)
    BY <1>7, EntryOver DEF StoreImport, ConfigsInv
  <2>2. End({t}) /\ {t} \subseteq Active
    BY <1>7 DEF StoreImport, Answered, Active
  <2>3. JobsInv' /\ SavesInv' /\ snap' \in [Tasks -> ConfigsOver(DOMAIN files)]
    BY <1>7, <2>2, EndInv DEF StoreImport
  <2>4. ConfigsInv'
    BY <1>7, <2>1, <2>3 DEF StoreImport, ConfigsInv
  <2> QED BY <2>3, <2>4
<1>8. CASE Fail(t)
  <2>1. End({t}) /\ {t} \subseteq Active
    BY <1>8 DEF Fail, Active
  <2>2. JobsInv' /\ SavesInv' /\ snap' \in [Tasks -> ConfigsOver(DOMAIN files)]
    BY <1>8, <2>1, EndInv DEF Fail
  <2>3. ConfigsInv'
    BY <1>8, <2>2 DEF Fail, ConfigsInv
  <2> QED BY <2>2, <2>3
<1> QED
  BY <1>1, <1>2, <1>3, <1>4, <1>5, <1>6, <1>7, <1>8, <1>9, <1>10 DEF Import

(* An edit stores its copy with the files it names.                        *)
LEMMA EditInv ==
  ASSUME IInv, NEW t \in Editors, BeginEdit(t) \/ StoreEdit(t)
  PROVE  IInv'
<1> USE DEF IInv, Tasks
<1>1. CASE BeginEdit(t)
  <2>1. ConfigsInv'
    BY <1>1 DEF BeginEdit, Begin, ConfigsInv, stored, saves
  <2>2. \A i \in Importers : i # t
    BY ConfigAssumption DEF ConfigAssumption
  <2>3. JobsInv'
    BY <1>1, <2>2 DEF BeginEdit, Begin, JobsInv, Goto, Steps, stored, saves
  <2>4. SavesInv'
    BY <1>1, NotSaving DEF BeginEdit, Begin, stored
  <2> QED BY <2>1, <2>3, <2>4
<1>2. CASE StoreEdit(t)
  <2>1. End({t}) /\ {t} \subseteq Active
    BY <1>2 DEF StoreEdit, Answered, Active
  <2>2. JobsInv' /\ SavesInv' /\ snap' \in [Tasks -> ConfigsOver(DOMAIN files)]
    BY <1>2, <2>1, EndInv DEF StoreEdit, stored
  <2>3. mem' \in ConfigsOver(DOMAIN files)
    BY <1>2 DEF StoreEdit, ConfigsInv, ConfigsOver
  <2>4. ConfigsInv'
    BY <1>2, <2>2, <2>3 DEF StoreEdit, ConfigsInv, stored
  <2> QED BY <2>2, <2>4
<1> QED BY <1>1, <1>2

LEMMA StepInv == IInv /\ [Next]_vars => IInv'
<1> SUFFICES ASSUME IInv, [Next]_vars PROVE IInv'
  OBVIOUS
<1>1. ASSUME NEW t \in Importers, Import(t) PROVE IInv'
  BY <1>1, ImportInv
<1>2. ASSUME NEW t \in Editors, BeginEdit(t) \/ StoreEdit(t) PROVE IInv'
  BY <1>2, EditInv
<1>3. CASE Crash
  <2>1. JobsInv' /\ SavesInv' /\ snap' \in [Tasks -> ConfigsOver(DOMAIN files)]
    BY <1>3, EndInv DEF Crash, stored
  <2>2. ConfigsInv'
    BY <1>3, <2>1 DEF Crash, ConfigsInv, IInv, stored
  <2> QED BY <2>1, <2>2 DEF IInv
<1>4. CASE Start
  BY <1>4 DEF Start, IInv, ConfigsInv, JobsInv, SavesInv, Saving, local, copies, stored, saves
<1>5. CASE UNCHANGED vars
  BY <1>5 DEF vars, local, copies, stored, saves, IInv, ConfigsInv, JobsInv, SavesInv, Saving
<1> QED
  BY <1>1, <1>2, <1>3, <1>4, <1>5 DEF Next

-----------------------------------------------------------------------------
(* For any number of imports, edits, pools and clients: a config.yaml that *)
(* can be read names only secret files there are, so that the start of     *)
(* run_server (lib.rs) never fails for an import that ended half way       *)
(* (mcp.rs); and it can be read unless the last save (config.rs) met       *)
(* another one or was cut off.                                             *)
THEOREM Restarts == Spec => []Restartable
<1>1. IInv => Restartable
  BY DEF IInv, ConfigsInv, SavesInv, ConfigsOver, Restartable, Loadable
<1> QED
  BY InitInv, StepInv, <1>1, PTL DEF Spec

-----------------------------------------------------------------------------
(* Where the elements of s, the first m sequences of seqs one after the    *)
(* other, come from: h tells for each its sequence and its place there.    *)
LaidOut(s, seqs, m, h) ==
  /\ h \in [DOMAIN s -> (1 .. m) \X Nat]
  /\ \A i \in DOMAIN s : /\ h[i][2] \in DOMAIN seqs[h[i][1]]
                         /\ s[i] = seqs[h[i][1]][h[i][2]]
  /\ \A i, j \in DOMAIN s : h[i] = h[j] => i = j
  /\ \A a \in 1 .. m : \A b \in DOMAIN seqs[a] : \E i \in DOMAIN s : h[i] = <<a, b>>

(* One sequence more.                                                      *)
LEMMA LaidOutNext ==
  ASSUME NEW S, NEW seqs \in Seq(Seq(S)), NEW m \in Nat, m + 1 \in DOMAIN seqs,
         NEW s \in Seq(S), NEW h, LaidOut(s, seqs, m, h)
  PROVE  \E g : LaidOut(s \o seqs[m + 1], seqs, m + 1, g)
<1> DEFINE t == seqs[m + 1]
<1> DEFINE st == s \o t
<1> DEFINE g == [i \in DOMAIN st |-> IF i <= Len(s) THEN h[i] ELSE <<m + 1, i - Len(s)>>]
<1>1. /\ t \in Seq(S) /\ Len(t) \in Nat /\ DOMAIN t = 1 .. Len(t)
      /\ Len(s) \in Nat /\ DOMAIN s = 1 .. Len(s)
  OBVIOUS
<1>2. /\ DOMAIN st = 1 .. Len(s) + Len(t)
      /\ \A i \in DOMAIN st : st[i] = IF i <= Len(s) THEN s[i] ELSE t[i - Len(s)]
  <2> HIDE DEF t
  <2>1. /\ st \in Seq(S) /\ Len(st) = Len(s) + Len(t)
        /\ \A i \in 1 .. Len(s) + Len(t) : st[i] = IF i <= Len(s) THEN s[i] ELSE t[i - Len(s)]
    BY <1>1, ConcatProperties
  <2> QED  BY <2>1, LenProperties
<1>h. /\ \A i \in 1 .. Len(s) : /\ h[i] \in (1 .. m) \X Nat
                                /\ h[i][2] \in DOMAIN seqs[h[i][1]]
                                /\ s[i] = seqs[h[i][1]][h[i][2]]
      /\ \A i, j \in 1 .. Len(s) : h[i] = h[j] => i = j
      /\ \A a \in 1 .. m : \A b \in DOMAIN seqs[a] : \E i \in 1 .. Len(s) : h[i] = <<a, b>>
  BY <1>1 DEF LaidOut
<1> HIDE DEF st, t
<1>3. ASSUME NEW i \in DOMAIN st
      PROVE  /\ g[i] \in (1 .. m + 1) \X Nat
             /\ g[i][2] \in DOMAIN seqs[g[i][1]] /\ st[i] = seqs[g[i][1]][g[i][2]]
  <2>1. CASE i <= Len(s)
    <3>1. g[i] = h[i] /\ i \in 1 .. Len(s) /\ st[i] = s[i]  BY <1>1, <1>2, <2>1
    <3> HIDE DEF g
    <3>2. h[i] \in (1 .. m) \X Nat /\ h[i][2] \in DOMAIN seqs[h[i][1]] /\ s[i] = seqs[h[i][1]][h[i][2]]
      BY <1>h, <3>1
    <3>3. (1 .. m) \X Nat \subseteq (1 .. m + 1) \X Nat  OBVIOUS
    <3> QED  BY <3>1, <3>2, <3>3
  <2>2. CASE ~ (i <= Len(s))
    <3>1. g[i] = <<m + 1, i - Len(s)>> /\ i - Len(s) \in 1 .. Len(t)
      BY <1>1, <1>2, <2>2
    <3> QED  BY <1>1, <1>2, <2>2, <3>1 DEF t
  <2> QED  BY <2>1, <2>2
<1>4. ASSUME NEW i \in DOMAIN st, NEW j \in DOMAIN st, g[i] = g[j] PROVE i = j
  <2>1. ASSUME NEW k \in DOMAIN st
        PROVE  /\ k <= Len(s) => g[k] = h[k] /\ k \in 1 .. Len(s) /\ g[k][1] # m + 1
               /\ ~ (k <= Len(s)) => g[k][1] = m + 1 /\ g[k][2] = k - Len(s)
    <3>1. k <= Len(s) => g[k] = h[k] /\ k \in 1 .. Len(s)  BY <1>1, <1>2
    <3>2. \A l \in 1 .. Len(s) : h[l][1] \in 1 .. m  BY <1>h
    <3>3. ~ (k <= Len(s)) => g[k] = <<m + 1, k - Len(s)>>  BY <1>1, <1>2
    <3> HIDE DEF g
    <3> QED  BY <3>1, <3>2, <3>3
  <2> HIDE DEF g
  <2>3. CASE i <= Len(s) /\ j <= Len(s)  BY <1>4, <1>h, <2>1, <2>3
  <2>4. CASE ~ (i <= Len(s)) /\ ~ (j <= Len(s))
    <3>1. g[i][2] = i - Len(s) /\ g[j][2] = j - Len(s)  BY <2>1, <2>4
    <3>2. i - Len(s) = j - Len(s)  BY <1>4, <3>1
    <3> QED  BY <1>1, <1>2, <3>2
  <2>5. CASE i <= Len(s) /\ ~ (j <= Len(s))  BY <1>4, <2>1, <2>5
  <2>6. CASE ~ (i <= Len(s)) /\ j <= Len(s)  BY <1>4, <2>1, <2>6
  <2> QED  BY <2>3, <2>4, <2>5, <2>6
<1>5. ASSUME NEW a \in 1 .. m + 1, NEW b \in DOMAIN seqs[a]
      PROVE  \E i \in DOMAIN st : g[i] = <<a, b>>
  <2>1. CASE a = m + 1
    <3>1. b \in 1 .. Len(t)  BY <1>1, <2>1 DEF t
    <3> DEFINE i == Len(s) + b
    <3>2. i \in DOMAIN st /\ ~ (i <= Len(s)) /\ i - Len(s) = b
      BY <1>1, <1>2, <3>1
    <3> HIDE DEF i
    <3>3. g[i] = <<a, b>>  BY <2>1, <3>2
    <3> QED  BY <3>2, <3>3
  <2>2. CASE a # m + 1
    <3>0. a \in 1 .. m  BY <2>2
    <3>1. PICK i \in 1 .. Len(s) : h[i] = <<a, b>>  BY <1>h, <3>0
    <3>2. i \in DOMAIN st /\ g[i] = h[i]  BY <1>1, <1>2
    <3> QED  BY <3>1, <3>2
  <2> QED  BY <2>1, <2>2
<1>6. g \in [DOMAIN st -> (1 .. m + 1) \X Nat]  BY <1>3
<1> HIDE DEF g
<1>7. LaidOut(st, seqs, m + 1, g)  BY <1>3, <1>4, <1>5, <1>6 DEF LaidOut
<1> QED  BY <1>7 DEF st, t

(* The links of the chain that FlattenSeq follows; there are some, by      *)
(* induction over their number.                                            *)
Links(g, seqs, m) ==
  g = [i \in 1 .. m |-> IF i = 1 THEN seqs[i] ELSE g[i - 1] \o seqs[i]]

LEMMA LinksExist ==
  ASSUME NEW seqs, NEW n \in Nat
  PROVE  \E g : Links(g, seqs, n)
<1> DEFINE G == {m \in 0 .. n : \E g : Links(g, seqs, m)}
<1>1. Links([i \in 1 .. 0 |-> <<>>], seqs, 0)
  BY DEF Links
<1>2. 0 \in G  BY <1>1
<1>3. ASSUME NEW m \in 0 .. n - 1, m \in G PROVE m + 1 \in G
  <2>1. PICK g : Links(g, seqs, m)  BY <1>3
  <2> DEFINE g2 == [i \in 1 .. m + 1 |-> IF i = 1 THEN seqs[i] ELSE g[i - 1] \o seqs[i]]
  <2>2. DOMAIN g = 1 .. m /\ \A i \in 1 .. m : g[i] = IF i = 1 THEN seqs[i] ELSE g[i - 1] \o seqs[i]
    BY <2>1 DEF Links
  <2>3. \A i \in 1 .. m : g2[i] = g[i]
    <3> TAKE i \in 1 .. m
    <3>1. g[i] = IF i = 1 THEN seqs[i] ELSE g[i - 1] \o seqs[i]  BY <2>2
    <3>2. i \in 1 .. m + 1  OBVIOUS
    <3>3. g2[i] = IF i = 1 THEN seqs[i] ELSE g[i - 1] \o seqs[i]  BY <3>2
    <3> QED  BY <3>1, <3>3
  <2>4. \A i \in 1 .. m + 1 : i # 1 => i - 1 \in 1 .. m  OBVIOUS
  <2>5. \A i \in 1 .. m + 1 : g2[i] = IF i = 1 THEN seqs[i] ELSE g2[i - 1] \o seqs[i]
    <3> TAKE i \in 1 .. m + 1
    <3>1. g2[i] = IF i = 1 THEN seqs[i] ELSE g[i - 1] \o seqs[i]  OBVIOUS
    <3> HIDE DEF g2
    <3>2. i # 1 => g2[i - 1] = g[i - 1]  BY <2>3, <2>4
    <3> QED  BY <3>1, <3>2
  <2>6. DOMAIN g2 = 1 .. m + 1 /\ g2 = [i \in 1 .. m + 1 |-> g2[i]]  OBVIOUS
  <2> HIDE DEF g2
  <2>7. Links(g2, seqs, m + 1)  BY <2>5, <2>6 DEF Links
  <2>8. m + 1 \in 0 .. n  OBVIOUS
  <2> QED  BY <2>7, <2>8
<1> HIDE DEF G
<1>4. 0 .. n \subseteq G  BY <1>2, <1>3, UpTo
<1>5. n \in G  BY <1>4
<1> QED  BY <1>5 DEF G

(* A flattened sequence has the elements of all the sequences, each once.  *)
LEMMA Flattened ==
  ASSUME NEW S, NEW seqs \in Seq(Seq(S))
  PROVE  /\ FlattenSeq(seqs) \in Seq(S)
         /\ \E h : LaidOut(FlattenSeq(seqs), seqs, Len(seqs), h)
<1> DEFINE n == Len(seqs)
<1>0. n \in Nat /\ DOMAIN seqs = 1 .. n  OBVIOUS
<1> DEFINE F == CHOOSE g : Links(g, seqs, n)
<1>1. \E g : Links(g, seqs, n)  BY <1>0, LinksExist
<1>2. Links(F, seqs, n)  BY <1>1
<1>3. n # 0 => FlattenSeq(seqs) = F[n]  BY DEF FlattenSeq, Links
<1>4. n = 0 => FlattenSeq(seqs) = seqs /\ seqs = <<>>  BY <1>0 DEF FlattenSeq
<1> DEFINE Done(m) == F[m] \in Seq(S) /\ \E h : LaidOut(F[m], seqs, m, h)
<1> HIDE DEF F, n
<1>f. \A i \in 1 .. n : F[i] = IF i = 1 THEN seqs[i] ELSE F[i - 1] \o seqs[i]
  BY <1>2 DEF Links
<1>5. 1 \in 1 .. n => Done(1)
  <2> SUFFICES ASSUME 1 \in 1 .. n PROVE Done(1)  OBVIOUS
  <2> DEFINE h == [i \in DOMAIN seqs[1] |-> <<1, i>>]
  <2>1. F[1] = seqs[1] /\ seqs[1] \in Seq(S)  BY <1>0, <1>f
  <2>2. LaidOut(seqs[1], seqs, 1, h)
    <3>1. DOMAIN seqs[1] \subseteq Nat  BY <2>1
    <3>2. h \in [DOMAIN seqs[1] -> (1 .. 1) \X Nat]  BY <3>1
    <3>3. \A i \in DOMAIN seqs[1] : h[i][1] = 1 /\ h[i][2] = i  OBVIOUS
    <3>4. \A a \in 1 .. 1 : \A b \in DOMAIN seqs[a] : b \in DOMAIN seqs[1] /\ h[b] = <<a, b>>
      OBVIOUS
    <3> HIDE DEF h
    <3> QED  BY <3>2, <3>3, <3>4 DEF LaidOut
  <2> QED  BY <2>1, <2>2
<1>6. ASSUME NEW m \in 1 .. n - 1, Done(m) PROVE Done(m + 1)
  <2>2. m + 1 \in 1 .. n /\ m + 1 \in DOMAIN seqs /\ seqs[m + 1] \in Seq(S)  BY <1>0
  <2>1. F[m + 1] = F[m] \o seqs[m + 1]
    <3>1. m + 1 # 1 /\ (m + 1) - 1 = m  OBVIOUS
    <3> QED  BY <1>f, <2>2, <3>1
  <2>3. F[m + 1] \in Seq(S)  BY <1>6, <2>1, <2>2, ConcatProperties
  <2>4. PICK h : LaidOut(F[m], seqs, m, h)  BY <1>6
  <2>5. \E g : LaidOut(F[m] \o seqs[m + 1], seqs, m + 1, g)
    BY <1>6, <2>2, <2>4, LaidOutNext
  <2> QED  BY <2>1, <2>3, <2>5
<1>7. n # 0 => Done(n)
  <2> DEFINE H == {m \in 0 .. n : m = 0 \/ Done(m)}
  <2>1. 0 \in H  BY <1>0
  <2>2. ASSUME NEW m \in 0 .. n - 1, m \in H PROVE m + 1 \in H
    <3> HIDE DEF Done
    <3>1. m = 0 \/ (m \in 1 .. n - 1 /\ Done(m))  BY <2>2
    <3> QED  BY <1>0, <1>5, <1>6, <2>2, <3>1
  <2> HIDE DEF H, Done
  <2>3. 0 .. n \subseteq H  BY <1>0, <2>1, <2>2, UpTo
  <2>4. n \in H  BY <1>0, <2>3
  <2> QED  BY <2>4 DEF H
<1>8. CASE n # 0  BY <1>3, <1>7, <1>8 DEF n
<1>9. CASE n = 0
  <2>1. FlattenSeq(seqs) = <<>>  BY <1>4, <1>9
  <2>2. LaidOut(<<>>, seqs, 0, <<>>)  BY DEF LaidOut
  <2> QED  BY <1>9, <2>1, <2>2 DEF n
<1> QED  BY <1>8, <1>9

-----------------------------------------------------------------------------
(* A text over another one: the end of a longer old one is left.           *)
LEMMA OverFacts ==
  ASSUME NEW S, NEW text \in Seq(S), NEW old \in Seq(S), NEW s, s = Over(text, old)
  PROVE  /\ s \in Seq(S) /\ DOMAIN s = 1 .. Len(s) /\ Len(s) >= Len(text)
         /\ \A i \in 1 .. Len(text) : s[i] = text[i]
         /\ \A i \in DOMAIN s : i > Len(text) => i \in DOMAIN old /\ s[i] = old[i]
<1> DEFINE m == Len(text)
<1> DEFINE n == Len(old)
<1> DEFINE rest == SubSeq(old, m + 1, n)
<1>1. m \in Nat /\ n \in Nat /\ DOMAIN old = 1 .. n  OBVIOUS
<1>2. /\ rest \in Seq(S) /\ Len(rest) = IF m + 1 <= n THEN n - (m + 1) + 1 ELSE 0
      /\ \A i \in 1 .. n - (m + 1) + 1 : rest[i] = old[(m + 1) + i - 1]
  <2>1. \A i \in m + 1 .. n : old[i] \in S  BY <1>1
  <2> QED  BY <1>1, <2>1, SubSeqProperties
<1> HIDE DEF rest, m, n
<1>3. s = text \o rest  BY DEF Over, rest, m, n
<1>4. /\ s \in Seq(S) /\ Len(s) = m + Len(rest)
      /\ \A i \in 1 .. m + Len(rest) : s[i] = IF i <= m THEN text[i] ELSE rest[i - m]
  BY <1>2, <1>3, ConcatProperties DEF m
<1>5. DOMAIN s = 1 .. Len(s)  BY <1>4
<1>6. ASSUME NEW i \in DOMAIN s, i > m PROVE i \in DOMAIN old /\ s[i] = old[i]
  <2>1. m + 1 <= n /\ i - m \in 1 .. n - (m + 1) + 1 /\ i \in 1 .. n
    BY <1>1, <1>2, <1>4, <1>5, <1>6
  <2>2. s[i] = rest[i - m] /\ (m + 1) + (i - m) - 1 = i
    BY <1>1, <1>2, <1>4, <1>5, <1>6, <2>1
  <2> QED  BY <1>1, <1>2, <2>1, <2>2
<1> QED  BY <1>1, <1>2, <1>4, <1>5, <1>6 DEF m

(* What may be asked for.                                                  *)
LEMMA AskedFacts ==
  ASSUME NEW j \in Asked
  PROVE  /\ j.client \in Clients /\ j.pool \in Pools /\ j.key \in Keys
         /\ FileOf(j) \in Files
BY ConfigAssumption DEF ConfigAssumption, Files

(* The keys of a pool after a start are those in its files, line by line.  *)
LEMMA KeysFacts ==
  ASSUME TypeOK, Loadable(disk), NEW p \in disk.pools
  PROVE  /\ KeysOnDisk(p) \in Seq(Keys)
         /\ \E h : LaidOut(KeysOnDisk(p), [i \in DOMAIN disk.keys[p] |-> files[disk.keys[p][i]]],
                           Len(disk.keys[p]), h)
<1> DEFINE ks == disk.keys[p]
<1> DEFINE seqs == [i \in DOMAIN ks |-> files[ks[i]]]
<1>1. p \in Pools /\ ks \in Seq(Files)
  BY DEF TypeOK, Configs
<1>2. \A i \in DOMAIN ks : files[ks[i]] \in Seq(Keys)
  BY DEF TypeOK, Loadable
<1>3. DOMAIN ks = 1 .. Len(ks) /\ Len(ks) \in Nat  BY <1>1
<1>4. seqs \in Seq(Seq(Keys)) /\ Len(seqs) = Len(ks)
  BY <1>2, <1>3, IsASeq
<1>5. KeysOnDisk(p) = FlattenSeq(seqs)  BY DEF KeysOnDisk
<1> HIDE DEF seqs, ks
<1>6. /\ FlattenSeq(seqs) \in Seq(Keys)
      /\ \E h : LaidOut(FlattenSeq(seqs), seqs, Len(seqs), h)
  BY <1>4, Flattened
<1>7. /\ KeysOnDisk(p) \in Seq(Keys)
      /\ \E h : LaidOut(KeysOnDisk(p), seqs, Len(ks), h)
  BY <1>4, <1>5, <1>6
<1> QED  BY <1>7 DEF seqs, ks

(* Types, with the invariant of the restart.                               *)
TypesInv == IInv /\ TypeOK

LEMMA TypesInit == Init => TypeOK
<1> SUFFICES ASSUME Init PROVE TypeOK  OBVIOUS
<1>1. NothingYet \in Configs /\ mem \in Configs
  BY ConfigAssumption DEF NothingYet, Configs, Init, ConfigAssumption
<1>2. pc \in [Tasks -> Steps]  BY DEF Init, Steps
<1> QED  BY <1>1, <1>2, ConfigAssumption DEF Init, TypeOK, Steps, ConfigAssumption

(* The configurations name files of importers only.                        *)
LEMMA ConfigTypes ==
  ASSUME IInv, DOMAIN files \subseteq Files
  PROVE  mem \in Configs /\ disk \in Configs /\ snap \in [Tasks -> Configs]
<1>1. ConfigsOver(DOMAIN files) \subseteq ConfigsOver(Files)  BY MoreFiles
<1>2. ConfigsOver(Files) = Configs  BY DEF ConfigsOver, Configs
<1> QED  BY <1>1, <1>2 DEF IInv, ConfigsInv

LEMMA TypesStep ==
  ASSUME TypesInv, [Next]_vars
  PROVE  TypeOK'
<1>0. IInv'  BY StepInv DEF TypesInv
<1> DEFINE FilesOK == /\ DOMAIN files \subseteq Files
                      /\ \A f \in DOMAIN files : files[f] \in Seq(Keys)
                      /\ buf \in [Importers -> Seq(Keys)] /\ live \in [Pools -> Seq(Keys)]
<1> DEFINE RestOK == /\ up \in BOOLEAN /\ yaml \in {"whole", "empty", "mixed"}
                     /\ lone \subseteq Tasks /\ sound \in BOOLEAN
                     /\ grants \subseteq Clients \X Pools /\ running \subseteq Pools
                     /\ alone \subseteq Tasks /\ kept \subseteq Tasks
                     /\ written \subseteq Importers /\ marred \subseteq Files
                     /\ dropped \subseteq Importers
<1>s. SUFFICES FilesOK' /\ RestOK'
  <2>1. ASSUME FilesOK' PROVE (mem \in Configs /\ disk \in Configs /\ snap \in [Tasks -> Configs])'
    <3>1. IInv' /\ (DOMAIN files \subseteq Files)'  BY <1>0, <2>1
    <3> QED  BY <3>1, ConfigTypes, PTL
  <2>2. (pc \in [Tasks -> Steps] /\ job \in [Importers -> Asked \cup {NoJob}])'
    BY <1>0 DEF IInv, JobsInv
  <2> QED  BY <2>1, <2>2 DEF TypeOK, Steps
<1>ok. FilesOK /\ RestOK /\ pc \in [Tasks -> Steps] /\ job \in [Importers -> Asked \cup {NoJob}]
  BY DEF TypesInv, IInv, JobsInv, TypeOK
<1>j. ASSUME NEW t \in Importers, pc[t] # "idle"
      PROVE  job[t] \in Asked /\ FileOf(job[t]) \in Files
  BY <1>j, AskedFacts DEF TypesInv, IInv, JobsInv
<1>e. ASSUME NEW ts \in SUBSET Active, End(ts), UNCHANGED <<files, live>>
      PROVE  /\ FilesOK'
             /\ (/\ lone \subseteq Tasks /\ sound \in BOOLEAN
                 /\ alone \subseteq Tasks /\ marred \subseteq Files)'
  <2>1. \A t \in ts \cap Importers : FileOf(job[t]) \in Files  BY <1>j DEF Active
  <2>2. buf' \in [Importers -> Seq(Keys)]  BY <1>e, <1>ok DEF End
  <2> QED  BY <1>e, <1>ok, <2>1, <2>2 DEF End
<1>1. ASSUME NEW t \in Importers, Import(t) PROVE FilesOK' /\ RestOK'
  <2> USE DEF local, copies, stored, saves, history
  <2>t. t \in Tasks  BY DEF Tasks
  <2>1. ASSUME NEW j \in Asked, BeginImport(t, j) PROVE FilesOK' /\ RestOK'
    BY <1>ok, <2>1, <2>t DEF BeginImport, Begin
  <2>2. CASE ReadSecrets(t)
    BY <1>ok, <1>j, <2>2 DEF ReadSecrets
  <2>3. CASE OpenSecrets(t)
    BY <1>ok, <1>j, <2>3 DEF OpenSecrets
  <2>4. CASE WriteSecrets(t)
    <3>1. job[t] \in Asked /\ FileOf(job[t]) \in DOMAIN files
      BY <2>4 DEF WriteSecrets, TypesInv, IInv, JobsInv
    <3>2. Append(buf[t], job[t].key) \in Seq(Keys)
      BY <1>ok, <3>1, AskedFacts
    <3>3. Over(Append(buf[t], job[t].key), files[FileOf(job[t])]) \in Seq(Keys)
      BY <1>ok, <3>1, <3>2, OverFacts
    <3> QED  BY <1>ok, <2>4, <3>3 DEF WriteSecrets
  <2>5. CASE SetKvCache(t)
    <3>1. <<job[t].client, job[t].pool>> \in Clients \X Pools
      BY <1>j, <2>5, AskedFacts DEF SetKvCache
    <3> QED  BY <1>ok, <2>5, <3>1 DEF SetKvCache
  <2>6. CASE OpenConfig(t)
    BY <1>ok, <2>6, <2>t DEF OpenConfig
  <2>7. CASE Save(t)
    BY <1>ok, <2>7 DEF Save
  <2>8. CASE AddLive(t)
    <3>1. job[t] \in Asked  BY <1>j, <2>8 DEF AddLive
    <3>2. Append(live[job[t].pool], job[t].key) \in Seq(Keys)
      BY <1>ok, <3>1, AskedFacts
    <3> QED  BY <1>ok, <2>8, <3>1, <3>2 DEF AddLive
  <2>9. CASE StoreImport(t)
    <3>1. {t} \in SUBSET Active /\ End({t})
      BY <2>9, <2>t DEF StoreImport, Answered, Active
    <3> QED  BY <1>ok, <1>e, <2>9, <3>1, <2>t DEF StoreImport, Answered
  <2>10. CASE Fail(t)
    <3>1. {t} \in SUBSET Active /\ End({t})
      BY <2>10, <2>t DEF Fail, Active
    <3> QED  BY <1>ok, <1>e, <2>10, <3>1 DEF Fail
  <2> QED
    BY <1>1, <2>1, <2>2, <2>3, <2>4, <2>5, <2>6, <2>7, <2>8, <2>9, <2>10 DEF Import
<1>2. ASSUME NEW t \in Editors, BeginEdit(t) \/ StoreEdit(t) PROVE FilesOK' /\ RestOK'
  <2>t. t \in Tasks  BY DEF Tasks
  <2>1. CASE BeginEdit(t)
    BY <1>ok, <2>1, <2>t DEF BeginEdit, Begin, stored, saves
  <2>2. CASE StoreEdit(t)
    <3>1. {t} \in SUBSET Active /\ End({t})
      BY <2>2, <2>t DEF StoreEdit, Answered, Active
    <3> QED  BY <1>ok, <1>e, <2>2, <3>1, <2>t DEF StoreEdit, Answered
  <2> QED  BY <1>2, <2>1, <2>2
<1>3. CASE Crash
  <2>1. Active \in SUBSET Active /\ End(Active)  BY <1>3 DEF Crash
  <2>2. /\ FilesOK'
        /\ (lone \subseteq Tasks /\ sound \in BOOLEAN /\ alone \subseteq Tasks /\ marred \subseteq Files)'
    <3>1. UNCHANGED <<files, live, yaml, grants, running, written>>  BY <1>3 DEF Crash
    <3>2. \A t \in Active \cap Importers : FileOf(job[t]) \in Files  BY <1>j DEF Active
    <3>3. buf' \in [Importers -> Seq(Keys)]  BY <2>1, <1>ok DEF End
    <3> QED  BY <2>1, <1>ok, <3>1, <3>2, <3>3 DEF End
  <2>3. kept' \subseteq kept  BY <1>3 DEF Crash
  <2>4. up' \in BOOLEAN /\ dropped' = {} /\ UNCHANGED <<yaml, grants, running, written>>
    BY <1>3 DEF Crash
  <2> QED  BY <1>ok, <2>2, <2>3, <2>4
<1>4. CASE Start
  <2>1. \A p \in disk.pools : KeysOnDisk(p) \in Seq(Keys)
    BY <1>4, KeysFacts DEF Start, TypesInv
  <2>2. disk.pools \subseteq Pools  BY DEF TypesInv, TypeOK, Configs
  <2> QED  BY <1>ok, <1>4, <2>1, <2>2 DEF Start, local, copies, stored, saves, history
<1>5. CASE UNCHANGED vars
  BY <1>ok, <1>5 DEF vars, local, copies, stored, saves, history
<1> QED
  BY <1>1, <1>2, <1>3, <1>4, <1>5 DEF Next

LEMMA TypesAlways == Spec => []TypesInv
<1>1. Init => TypesInv  BY InitInv, TypesInit DEF TypesInv
<1>2. TypesInv /\ [Next]_vars => TypesInv'  BY StepInv, TypesStep DEF TypesInv
<1> QED  BY <1>1, <1>2, PTL DEF Spec

(* The copies of the configuration, the files and the requests are well    *)
(* typed: a start makes keys of secrets only.                              *)
THEOREM ConfigTyping == Spec => []TypeOK
BY TypesAlways, PTL DEF TypesInv

-----------------------------------------------------------------------------
(* Where an import is past its write, and where its limiter is made.       *)
Past == {"kv_cache", "save", "saving", "live", "store"}
Counted == {t \in written : pc[t] \in {"store", "done"}}

StepsInv ==
  /\ ~ up => Active = {}
  /\ IsFiniteSet(written)
  /\ \A t \in Importers :
       /\ pc[t] \in Past => t \in written
       /\ pc[t] \in {"idle", "verify", "write", "writing"} => t \notin written
       /\ t \in written => job[t] \in Asked

LEMMA StepsInit == Init => StepsInv
<1> SUFFICES ASSUME Init PROVE StepsInv  OBVIOUS
<1>1. pc = [t \in Tasks |-> "idle"] /\ written = {} /\ up  BY DEF Init
<1> QED  BY <1>1, FS_EmptySet DEF StepsInv, Past, Tasks

(* What was imported stays what it was.                                    *)
LEMMA StepsStep ==
  ASSUME TypesInv, StepsInv, [Next]_vars
  PROVE  /\ StepsInv'
         /\ written \subseteq written' /\ Counted \subseteq Counted'
         /\ \A t \in written : job'[t] = job[t]
         /\ \A t \in Importers : pc[t] # "idle" => job'[t] = job[t]
         /\ \A t \in Importers : pc[t] = "done" => pc'[t] = "done"
<1> USE DEF local, copies, stored, saves, history
<1>ok. /\ pc \in [Tasks -> Steps] /\ job \in [Importers -> Asked \cup {NoJob}]
       /\ written \subseteq Importers /\ \A t \in Importers : pc[t] # "idle" => job[t] \in Asked
  BY DEF TypesInv, IInv, JobsInv, TypeOK
<1>ed. \A t \in Importers : t \notin Editors /\ t \in Tasks
  BY ConfigAssumption DEF ConfigAssumption, Tasks
<1>ip. Importers \subseteq Tasks  BY DEF Tasks
<1> DEFINE Each(t) == /\ pc[t] \in Past => t \in written
                      /\ pc[t] \in {"idle", "verify", "write", "writing"} => t \notin written
                      /\ t \in written => job[t] \in Asked
<1> DEFINE Goal == /\ StepsInv'
                   /\ written \subseteq written' /\ Counted \subseteq Counted'
                   /\ \A t \in written : job'[t] = job[t]
                   /\ \A t \in Importers : pc[t] # "idle" => job'[t] = job[t]
                   /\ \A t \in Importers : pc[t] = "done" => pc'[t] = "done"
<1> SUFFICES Goal  OBVIOUS
<1>each. \A t \in Importers : Each(t)  BY DEF StepsInv
<1>up. ~ up => \A t \in Tasks : pc[t] \in {"idle", "done"}  BY DEF StepsInv, Active
(* A request goes on while the server runs. *)
<1>go. ASSUME NEW t \in Tasks, NEW step \in Steps, up, up' = up, Goto(t, step),
              \A u \in Importers \ {t} : job'[u] = job[u],
              t \in Importers => /\ pc[t] \notin {"store", "done"} /\ Each(t)'
                                 /\ pc[t] # "idle" => job'[t] = job[t],
              written' = written \/ (t \in Importers /\ written' = written \cup {t})
       PROVE  Goal
  <2>1. pc' = [pc EXCEPT ![t] = step]  BY <1>go DEF Goto
  <2>2. \A u \in Importers : Each(u)'
    <3> TAKE u \in Importers
    <3>1. CASE u = t  BY <3>1, <1>go
    <3>2. CASE u # t
      <4>1. pc'[u] = pc[u] /\ job'[u] = job[u] /\ (u \in written' <=> u \in written)
        BY <1>ok, <1>ed, <1>go, <2>1, <3>2
      <4> QED  BY <1>each, <4>1
    <3> QED  BY <3>1, <3>2
  <2>3. IsFiniteSet(written')
    <3>1. IsFiniteSet(written) /\ IsFiniteSet(written \cup {t})  BY FS_AddElement DEF StepsInv
    <3> QED  BY <1>go, <3>1
  <2>4. StepsInv'  BY <1>go, <2>2, <2>3 DEF StepsInv
  <2>5. written \subseteq written'  BY <1>go
  <2>6. \A u \in written : u \in Importers /\ pc[u] # "idle" /\ job'[u] = job[u]
    BY <1>go, <1>ok, <1>each
  <2>7. Counted \subseteq Counted'
    <3> SUFFICES ASSUME NEW u \in Counted PROVE u \in Counted'  OBVIOUS
    <3>1. u \in written /\ pc[u] \in {"store", "done"} /\ u \in written' /\ u \in Importers
      BY <2>5, <1>ok DEF Counted
    <3>2. u # t  BY <3>1, <1>go
    <3>3. pc'[u] = pc[u]  BY <2>1, <3>2, <1>ok, <1>ed, <3>1
    <3> QED  BY <3>1, <3>3 DEF Counted
  <2>8. \A u \in Importers : pc[u] = "done" => pc'[u] = "done"  BY <1>go, <1>ok, <1>ip, <2>1
  <2> QED  BY <1>go, <2>4, <2>5, <2>6, <2>7, <2>8, <1>ok
(* Requests end, one of them or all with the server. *)
<1>end. ASSUME NEW ts, ts \in SUBSET Active, End(ts), UNCHANGED <<job, written>>,
               up' = up \/ ts = Active, up => up' \/ ts = Active, ~ up => ~ up'
        PROVE  Goal
  <2>1. \A t \in Tasks : pc'[t] = IF t \in ts THEN "done" ELSE pc[t]  BY <1>end DEF End
  <2>2. \A u \in Importers : Each(u)'  BY <1>end, <1>each, <1>ip, <2>1 DEF Past
  <2>3. ~ up' => Active' = {}
    <3>1. CASE ts = Active  BY <2>1, <3>1 DEF Active
    <3>2. CASE ts # Active  BY <1>end, <2>1, <3>2 DEF Active, StepsInv
    <3> QED  BY <3>1, <3>2
  <2>4. StepsInv'  BY <1>end, <2>2, <2>3 DEF StepsInv
  <2>5. Counted \subseteq Counted'  BY <1>end, <1>ok, <1>ip, <2>1 DEF Counted
  <2>6. \A u \in Importers : pc[u] = "done" => pc'[u] = "done"  BY <1>ip, <2>1
  <2> QED  BY <1>end, <2>4, <2>5, <2>6
<1>on. ASSUME NEW t \in Tasks, pc[t] \notin {"idle", "done"} PROVE up
  BY <1>on DEF StepsInv, Active
<1>1. ASSUME NEW t \in Importers, Import(t) PROVE Goal
  <2>t. t \in Tasks /\ Each(t) /\ (pc[t] \notin {"idle", "done"} => up)
    BY <1>ip, <1>each, <1>on
  <2>p. ASSUME NEW step, Goto(t, step) PROVE pc'[t] = step
    BY <2>p, <2>t, <1>ok DEF Goto
  <2> HIDE DEF Goal
  <2>1. ASSUME NEW j \in Asked, BeginImport(t, j) PROVE Goal
    <3>1. up /\ up' = up /\ pc[t] = "idle" /\ Goto(t, "verify") /\ written' = written
          /\ \A u \in Importers \ {t} : job'[u] = job[u]
      BY <1>ok, <2>1 DEF BeginImport, Begin
    <3>2. Each(t)'  BY <2>t, <2>p, <3>1 DEF Past
    <3> HIDE DEF Each
    <3> QED  BY <1>go, <2>t, <3>1, <3>2 DEF Steps
  <2>go. ASSUME NEW step \in Steps, pc[t] \notin {"idle", "store", "done"}, Goto(t, step),
                up' = up, job' = job, step \notin Past, written' = written,
                step \in {"write", "writing"} => pc[t] \in {"verify", "write"},
                step # "idle", step # "verify"
         PROVE Goal
    <3>1. Each(t)'  BY <2>go, <2>t, <2>p
    <3> HIDE DEF Each
    <3> QED  BY <1>go, <2>go, <2>t, <3>1
  <2>past. ASSUME NEW step \in Past, pc[t] \in {"kv_cache", "save", "saving", "live"}, Goto(t, step),
                  up' = up, job' = job, written' = written
           PROVE Goal
    <3>1. Each(t)'  BY <2>past, <2>t, <2>p DEF Past
    <3> HIDE DEF Each
    <3> QED  BY <1>go, <2>past, <2>t, <3>1 DEF Past, Steps
  <2>2. CASE ReadSecrets(t)
    BY <2>go, <2>2 DEF ReadSecrets, Steps, Past
  <2>3. CASE OpenSecrets(t)
    BY <2>go, <2>3 DEF OpenSecrets, Steps, Past
  <2>4. CASE WriteSecrets(t)
    <3>1. PICK step \in {"kv_cache", "save"} : Goto(t, step)
      BY <2>4 DEF WriteSecrets
    <3>2. up' = up /\ pc[t] = "writing" /\ job' = job /\ written' = written \cup {t}
      BY <2>4 DEF WriteSecrets
    <3>3. job[t] \in Asked  BY <1>ok, <3>2
    <3>4. Each(t)'  BY <2>p, <3>1, <3>2, <3>3
    <3> HIDE DEF Each
    <3> QED  BY <1>go, <2>t, <3>1, <3>2, <3>4 DEF Steps
  <2>5. CASE SetKvCache(t)
    BY <2>past, <2>5 DEF SetKvCache, Past
  <2>6. CASE OpenConfig(t)
    BY <2>past, <2>6 DEF OpenConfig, Past
  <2>7. CASE Save(t)
    <3>1. PICK step \in {"live", "store"} : Goto(t, step)  BY <2>7 DEF Save
    <3> QED  BY <2>past, <2>7, <3>1 DEF Save, Past
  <2>8. CASE AddLive(t)
    BY <2>past, <2>8 DEF AddLive, Past
  <2>9. CASE StoreImport(t)
    <3>1. {t} \in SUBSET Active /\ End({t}) /\ up
      BY <2>9, <2>t DEF StoreImport, Answered, Active
    <3> QED  BY <1>end, <2>9, <3>1 DEF StoreImport
  <2>10. CASE Fail(t)
    <3>1. {t} \in SUBSET Active /\ End({t}) /\ up
      BY <2>10, <2>t DEF Fail, Active
    <3> QED  BY <1>end, <2>10, <3>1 DEF Fail
  <2> QED
    BY <1>1, <2>1, <2>2, <2>3, <2>4, <2>5, <2>6, <2>7, <2>8, <2>9, <2>10 DEF Import
<1>2. ASSUME NEW t \in Editors, BeginEdit(t) \/ StoreEdit(t) PROVE Goal
  <2>t. t \in Tasks /\ t \notin Importers  BY <1>ed DEF Tasks
  <2> HIDE DEF Goal, Each
  <2>1. CASE BeginEdit(t)
    BY <1>go, <2>1, <2>t DEF BeginEdit, Begin, Steps
  <2>2. CASE StoreEdit(t)
    <3>1. {t} \in SUBSET Active /\ End({t}) /\ up
      BY <2>2, <2>t, <1>on DEF StoreEdit, Answered, Active
    <3> QED  BY <1>end, <2>2, <3>1 DEF StoreEdit
  <2> QED  BY <1>2, <2>1, <2>2
<1>3. CASE Crash
  <2>1. Active \in SUBSET Active /\ End(Active) /\ UNCHANGED <<job, written>>
    BY <1>3 DEF Crash
  <2> QED  BY <1>3, <1>end, <2>1 DEF Crash
<1>4. CASE Start
  BY <1>4, <1>each DEF Start, StepsInv, Counted
<1>5. CASE UNCHANGED vars
  BY <1>5, <1>each DEF vars, StepsInv, Counted, Active
<1> QED
  BY <1>1, <1>2, <1>3, <1>4, <1>5 DEF Next

(* Where the configurations come from, whatever the step.                  *)
LEMMA Sources ==
  ASSUME TypesInv, [Next]_vars
  PROVE  /\ \/ mem' = mem \/ (~ up /\ mem' = disk)
            \/ \E t \in Importers \cap Active : job[t] \in Asked /\ mem' = WithEntry(snap[t], job[t])
            \/ \E t \in Editors \cap Active : mem' = [snap[t] EXCEPT !.edits = @ \cup {t}]
         /\ \/ disk' = disk
            \/ \E t \in Importers \cap Active : job[t] \in Asked /\ disk' = WithEntry(snap[t], job[t])
         /\ \A t \in Tasks : \/ snap'[t] = snap[t] /\ (t \in Active' => t \in Active)
                             \/ snap'[t] = mem
                             \/ snap'[t] = NothingYet /\ t \notin Active'
<1> USE DEF local, copies, stored, saves, history
<1>ok. /\ snap \in [Tasks -> Configs] /\ Importers \subseteq Tasks /\ Editors \subseteq Tasks
       /\ \A t \in Importers : pc[t] # "idle" => job[t] \in Asked
       /\ pc \in [Tasks -> Steps]
  BY DEF TypesInv, IInv, JobsInv, TypeOK, Tasks
<1> DEFINE Copied == \A t \in Tasks : \/ snap'[t] = snap[t] /\ (t \in Active' => t \in Active)
                                      \/ snap'[t] = mem
                                      \/ snap'[t] = NothingYet /\ t \notin Active'
<1>e. ASSUME NEW ts, End(ts) PROVE Copied
  BY <1>e DEF End, Active
<1>go. ASSUME NEW t \in Tasks, t \in Active, NEW step, Goto(t, step), snap' = snap PROVE Copied
  BY <1>go, <1>ok DEF Goto, Active
<1>b. ASSUME NEW t \in Tasks, NEW step, Begin(t, step) PROVE Copied /\ mem' = mem /\ disk' = disk
  BY <1>b, <1>ok DEF Begin, Goto, Active
<1>1. ASSUME NEW t \in Importers, Import(t)
      PROVE  /\ mem' = mem \/ (t \in Active /\ job[t] \in Asked /\ mem' = WithEntry(snap[t], job[t]))
             /\ disk' = disk \/ (t \in Active /\ job[t] \in Asked /\ disk' = WithEntry(snap[t], job[t]))
             /\ Copied
  <2>t. t \in Tasks /\ (pc[t] \notin {"idle", "done"} => t \in Active)  BY <1>ok DEF Active
  <2> HIDE DEF Copied
  <2>1. ASSUME NEW j \in Asked, BeginImport(t, j)
        PROVE  mem' = mem /\ disk' = disk /\ Copied
    BY <1>b, <2>1, <2>t DEF BeginImport
  <2>2. CASE ReadSecrets(t)  BY <1>go, <2>2, <2>t DEF ReadSecrets
  <2>3. CASE OpenSecrets(t)  BY <1>go, <2>3, <2>t DEF OpenSecrets
  <2>4. CASE WriteSecrets(t)
    <3>1. PICK step \in {"kv_cache", "save"} : Goto(t, step)  BY <2>4 DEF WriteSecrets
    <3> QED  BY <1>go, <2>4, <2>t, <3>1 DEF WriteSecrets
  <2>5. CASE SetKvCache(t)  BY <1>go, <2>5, <2>t DEF SetKvCache
  <2>6. CASE OpenConfig(t)  BY <1>go, <2>6, <2>t DEF OpenConfig
  <2>7. CASE Save(t)
    <3>1. PICK step \in {"live", "store"} : Goto(t, step)  BY <2>7 DEF Save
    <3> QED  BY <1>go, <1>ok, <2>7, <2>t, <3>1 DEF Save
  <2>8. CASE AddLive(t)  BY <1>go, <2>8, <2>t DEF AddLive
  <2>9. CASE StoreImport(t)  BY <1>ok, <1>e, <2>9, <2>t DEF StoreImport, Answered
  <2>10. CASE Fail(t)  BY <1>e, <2>10 DEF Fail
  <2> QED
    BY <1>1, <2>1, <2>2, <2>3, <2>4, <2>5, <2>6, <2>7, <2>8, <2>9, <2>10 DEF Import
<1>2. ASSUME NEW t \in Editors, BeginEdit(t) \/ StoreEdit(t)
      PROVE  /\ mem' = mem \/ (t \in Active /\ mem' = [snap[t] EXCEPT !.edits = @ \cup {t}])
             /\ disk' = disk
             /\ Copied
  <2>t. t \in Tasks /\ (pc[t] \notin {"idle", "done"} => t \in Active)  BY <1>ok DEF Active
  <2> HIDE DEF Copied
  <2>1. CASE BeginEdit(t)  BY <1>b, <2>1, <2>t DEF BeginEdit
  <2>2. CASE StoreEdit(t)  BY <1>e, <2>2, <2>t DEF StoreEdit, Answered
  <2> QED  BY <1>2, <2>1, <2>2
<1>3. CASE Crash
  <2>1. \A t \in Tasks : \/ snap'[t] = NothingYet /\ t \notin Active'
                         \/ snap'[t] = snap[t] /\ (t \in Active' => t \in Active)
    BY <1>3 DEF Crash, End, Active
  <2> QED  BY <1>3, <2>1 DEF Crash
<1>4. CASE Start  BY <1>4 DEF Start, Active
<1>5. CASE UNCHANGED vars  BY <1>5 DEF vars, Active
<1> HIDE DEF Copied
<1>6. CASE \E t \in Importers : Import(t)
  BY <1>1, <1>6 DEF Copied
<1>7. CASE \E t \in Editors : BeginEdit(t) \/ StoreEdit(t)
  BY <1>2, <1>7 DEF Copied
<1> QED
  BY <1>3, <1>4, <1>5, <1>6, <1>7 DEF Next

(* A pool's secret files are of its provider, and none is there twice.     *)
Tidy(c) ==
  \A p \in Pools :
    /\ \A i \in DOMAIN c.keys[p] : c.keys[p][i][2] = ProviderOf[p]
    /\ \A i, j \in DOMAIN c.keys[p] : i # j => c.keys[p][i] # c.keys[p][j]

TidyInv == Tidy(mem) /\ Tidy(disk) /\ \A t \in Tasks : Tidy(snap[t])

LEMMA TidyEntry ==
  ASSUME NEW c \in Configs, Tidy(c), NEW j \in Asked
  PROVE  Tidy(WithEntry(c, j))
<1> DEFINE ks == c.keys[j.pool]
<1> DEFINE new == IF Contains(ks, FileOf(j)) THEN ks ELSE Append(ks, FileOf(j))
<1>1. j.pool \in Pools /\ FileOf(j) \in Files  BY AskedFacts
<1>2. ks \in Seq(Files) /\ DOMAIN ks = 1 .. Len(ks)  BY <1>1 DEF Configs
<1>3. /\ \A i \in DOMAIN ks : ks[i][2] = ProviderOf[j.pool]
      /\ \A i, k \in DOMAIN ks : i # k => ks[i] # ks[k]
  BY <1>1 DEF Tidy
<1>f. FileOf(j)[2] = ProviderOf[j.pool]  BY DEF FileOf
<1>k. \A p \in Pools : WithEntry(c, j).keys[p] = IF p = j.pool THEN new ELSE c.keys[p]
  BY <1>1 DEF WithEntry, Configs
<1> HIDE DEF ks
<1>4. /\ \A i \in DOMAIN new : new[i][2] = ProviderOf[j.pool]
      /\ \A i, k \in DOMAIN new : i # k => new[i] # new[k]
  <2>1. CASE Contains(ks, FileOf(j))  BY <1>3, <2>1
  <2>2. CASE ~ Contains(ks, FileOf(j))
    <3>1. new = Append(ks, FileOf(j))  BY <2>2
    <3>2. /\ DOMAIN new = 1 .. Len(ks) + 1 /\ new[Len(ks) + 1] = FileOf(j)
          /\ \A i \in 1 .. Len(ks) : new[i] = ks[i]
      <4> HIDE DEF new
      <4>1. /\ new \in Seq(Files) /\ Len(new) = Len(ks) + 1 /\ new[Len(ks) + 1] = FileOf(j)
            /\ \A i \in 1 .. Len(ks) : new[i] = ks[i]
        BY <1>1, <1>2, <3>1, AppendProperties
      <4> QED  BY <4>1
    <3>3. \A i \in 1 .. Len(ks) : ks[i] # FileOf(j)  BY <2>2 DEF Contains
    <3>4. Len(ks) \in Nat /\ \A i \in 1 .. Len(ks) + 1 : i \in 1 .. Len(ks) \/ i = Len(ks) + 1
      BY <1>2
    <3> HIDE DEF new
    <3> QED  BY <1>2, <1>3, <1>f, <3>2, <3>3, <3>4
  <2> QED  BY <2>1, <2>2
<1> HIDE DEF new
<1> QED  BY <1>4, <1>k DEF Tidy

LEMMA TidyInit == Init => TidyInv
BY DEF Init, TidyInv, Tidy, NothingYet

LEMMA TidyStep ==
  ASSUME TypesInv, TidyInv, [Next]_vars
  PROVE  TidyInv'
<1>ok. snap \in [Tasks -> Configs] /\ Importers \subseteq Tasks /\ Editors \subseteq Tasks
  BY DEF TypesInv, TypeOK, Tasks
<1>w. ASSUME NEW t \in Importers, job[t] \in Asked PROVE Tidy(WithEntry(snap[t], job[t]))
  BY <1>ok, <1>w, TidyEntry DEF TidyInv
<1>e. ASSUME NEW t \in Editors PROVE Tidy([snap[t] EXCEPT !.edits = @ \cup {t}])
  <2>1. [snap[t] EXCEPT !.edits = @ \cup {t}].keys = snap[t].keys  BY <1>ok DEF Configs
  <2> QED  BY <1>ok, <2>1 DEF TidyInv, Tidy
<1>n. Tidy(NothingYet)  BY DEF Tidy, NothingYet
<1>1. Tidy(mem') /\ Tidy(disk')  BY <1>w, <1>e, Sources DEF TidyInv
<1>2. \A t \in Tasks : Tidy(snap'[t])
  <2> TAKE t \in Tasks
  <2>1. snap'[t] = snap[t] \/ snap'[t] = mem \/ snap'[t] = NothingYet  BY Sources
  <2> QED  BY <1>n, <2>1 DEF TidyInv
<1> QED  BY <1>1, <1>2 DEF TidyInv, Tidy

(* Each line of the text s of the file f is there from an import of its    *)
(* own, one of those in w, which wrote it at the place that at tells.      *)
From(s, f, at, w, jobs) ==
  \A i \in DOMAIN s :
    \E t \in w : at[t] = i /\ FileOf(jobs[t]) = f /\ jobs[t].key = s[i]

OriginInv ==
  \E at \in [Importers -> Nat] :
    /\ \A f \in DOMAIN files : From(files[f], f, at, written, job)
    /\ \A t \in Importers :
         pc[t] \in {"write", "writing"} => From(buf[t], FileOf(job[t]), at, written, job)

(* A line keeps its import as imports are added.                           *)
LEMMA FromMore ==
  ASSUME NEW s, NEW f, NEW at, NEW w, NEW jobs, From(s, f, at, w, jobs),
         NEW at2, NEW w2, NEW jobs2, w \subseteq w2,
         \A t \in w : jobs2[t] = jobs[t] /\ at2[t] = at[t]
  PROVE  From(s, f, at2, w2, jobs2)
BY DEF From

LEMMA OriginInit == Init => OriginInv
<1> SUFFICES ASSUME Init PROVE OriginInv  OBVIOUS
<1> DEFINE at == [t \in Importers |-> 0]
<1>1. at \in [Importers -> Nat]  OBVIOUS
<1>2. DOMAIN files = {} /\ \A t \in Importers : pc[t] = "idle"  BY DEF Init, Tasks
<1> QED  BY <1>1, <1>2 DEF OriginInv

(* Whoever writes a file puts its key one line behind the copy it took:    *)
(* imports that overlap may write the same line, and the last one counts.  *)
LEMMA OriginStep ==
  ASSUME TypesInv, StepsInv, OriginInv, [Next]_vars
  PROVE  OriginInv'
<1> USE DEF local, copies, stored, saves, history
<1>ok. /\ pc \in [Tasks -> Steps] /\ Importers \subseteq Tasks /\ written \subseteq Importers
       /\ DOMAIN files \subseteq Files /\ \A f \in DOMAIN files : files[f] \in Seq(Keys)
       /\ buf \in [Importers -> Seq(Keys)]
       /\ \A t \in Importers : pc[t] # "idle" => job[t] \in Asked
  BY DEF TypesInv, IInv, JobsInv, TypeOK, Tasks
<1>more. /\ written \subseteq written' /\ \A t \in written : job'[t] = job[t]
         /\ \A t \in Importers : pc[t] # "idle" => job'[t] = job[t]
  BY StepsStep
<1> PICK at \in [Importers -> Nat] :
      /\ \A f \in DOMAIN files : From(files[f], f, at, written, job)
      /\ \A t \in Importers :
           pc[t] \in {"write", "writing"} => From(buf[t], FileOf(job[t]), at, written, job)
  BY DEF OriginInv
<1>from. ASSUME NEW s, NEW f, From(s, f, at, written, job) PROVE From(s, f, at, written', job')
  BY <1>from, <1>more, FromMore
(* No new line, and a copy only of a file. *)
<1>same. ASSUME \A f \in DOMAIN files' :
                  files'[f] = <<>> \/ (f \in DOMAIN files /\ files'[f] = files[f]),
                \A t \in Importers : pc'[t] \in {"write", "writing"} =>
                  /\ pc[t] # "idle"
                  /\ \/ pc[t] \in {"write", "writing"} /\ buf'[t] = buf[t]
                     \/ buf'[t] = <<>>
                     \/ FileOf(job[t]) \in DOMAIN files /\ buf'[t] = files[FileOf(job[t])]
         PROVE  OriginInv'
  <2>0. ASSUME NEW f PROVE From(<<>>, f, at, written, job)  BY DEF From
  <2>1. \A f \in DOMAIN files' : From(files'[f], f, at, written', job')
    BY <1>same, <2>0, <1>from
  <2>2. ASSUME NEW t \in Importers, pc'[t] \in {"write", "writing"}
        PROVE  From(buf'[t], FileOf(job'[t]), at, written', job')
    <3>1. job'[t] = job[t]  BY <1>same, <1>more, <2>2
    <3>2. From(buf'[t], FileOf(job[t]), at, written, job)  BY <1>same, <2>0, <2>2
    <3> QED  BY <3>1, <3>2, <1>from
  <2> QED  BY <2>1, <2>2 DEF OriginInv
<1>keep. ASSUME files' = files, \A t \in Importers : pc'[t] \in {"write", "writing"} =>
                  pc[t] \in {"write", "writing"} /\ buf'[t] = buf[t]
         PROVE  OriginInv'
  BY <1>keep, <1>same
<1>end. ASSUME NEW ts, End(ts), files' = files PROVE OriginInv'
  BY <1>end, <1>keep, <1>ok DEF End
<1>1. ASSUME NEW t \in Importers, Import(t) PROVE OriginInv'
  <2>p. ASSUME NEW step, Goto(t, step)
        PROVE  \A u \in Importers : pc'[u] = IF u = t THEN step ELSE pc[u]
    BY <2>p, <1>ok DEF Goto
  <2>1. ASSUME NEW j \in Asked, BeginImport(t, j) PROVE OriginInv'
    BY <2>1, <2>p, <1>keep DEF BeginImport, Begin
  <2>2. CASE ReadSecrets(t)
    <3>1. \A u \in Importers : buf'[u] = IF u # t THEN buf[u]
             ELSE IF FileOf(job[t]) \in DOMAIN files THEN files[FileOf(job[t])] ELSE <<>>
      BY <1>ok, <2>2 DEF ReadSecrets
    <3>2. files' = files /\ Goto(t, "write") /\ pc[t] = "verify"  BY <2>2 DEF ReadSecrets
    <3> QED  BY <1>same, <2>p, <3>1, <3>2
  <2>3. CASE OpenSecrets(t)
    <3>1. /\ \A f \in DOMAIN files' : files'[f] = <<>> \/ (f \in DOMAIN files /\ files'[f] = files[f])
          /\ Goto(t, "writing") /\ pc[t] = "write" /\ buf' = buf
      BY <2>3 DEF OpenSecrets
    <3> QED  BY <1>same, <2>p, <3>1
  <2>4. CASE WriteSecrets(t)
    <3> DEFINE f == FileOf(job[t])
    <3> DEFINE text == Append(buf[t], job[t].key)
    <3> DEFINE new == Over(text, files[f])
    <3> DEFINE at2 == [at EXCEPT ![t] = Len(text)]
    <3>1. /\ pc[t] = "writing" /\ written' = written \cup {t} /\ t \notin written
          /\ job' = job /\ job[t] \in Asked /\ f \in DOMAIN files
      BY <2>4 DEF WriteSecrets, StepsInv, TypesInv, IInv, JobsInv
    <3>2. /\ files' = [files EXCEPT ![f] = new]
          /\ \A u \in Importers : u # t => pc'[u] = pc[u] /\ buf'[u] = buf[u]
          /\ pc'[t] \in {"kv_cache", "save"}
      BY <2>4, <2>p, <1>ok DEF WriteSecrets
    <3>b. buf[t] \in Seq(Keys) /\ job[t].key \in Keys /\ files[f] \in Seq(Keys)
      BY <1>ok, <3>1, AskedFacts
    <3>3. /\ text \in Seq(Keys) /\ Len(text) = Len(buf[t]) + 1 /\ Len(text) \in Nat
          /\ \A i \in 1 .. Len(buf[t]) : text[i] = buf[t][i]
          /\ text[Len(text)] = job[t].key
      BY <3>b, AppendProperties
    <3>f. From(files[f], f, at, written, job) /\ From(buf[t], f, at, written, job)
      BY <3>1
    <3> HIDE DEF text
    <3>4. /\ DOMAIN new = 1 .. Len(new)
          /\ \A i \in 1 .. Len(text) : new[i] = text[i]
          /\ \A i \in DOMAIN new : i > Len(text) => i \in DOMAIN files[f] /\ new[i] = files[f][i]
      BY <3>b, <3>3, OverFacts
    <3>5. at2 \in [Importers -> Nat] /\ at2[t] = Len(text) /\ \A u \in written : at2[u] = at[u]
      BY <3>1, <3>3, <1>ok
    <3> HIDE DEF at2, new, f
    <3>6. \A s, g : From(s, g, at, written, job) => From(s, g, at2, written', job')
      BY <3>1, <3>5, FromMore
    <3>7. From(new, f, at2, written', job')
      <4> SUFFICES ASSUME NEW i \in DOMAIN new
                   PROVE  \E u \in written' : at2[u] = i /\ FileOf(job'[u]) = f /\ job'[u].key = new[i]
        BY DEF From
      <4>1. CASE i = Len(text)
        <5>1. i \in 1 .. Len(text)  BY <3>3, <4>1, <3>b
        <5> QED  BY <3>1, <3>3, <3>4, <3>5, <4>1, <5>1 DEF f
      <4>2. CASE i < Len(text)
        <5>1. i \in 1 .. Len(buf[t]) /\ i \in DOMAIN buf[t] /\ new[i] = buf[t][i]
          BY <3>b, <3>3, <3>4, <4>2
        <5> QED  BY <3>f, <3>1, <3>5, <5>1 DEF From
      <4>3. CASE i > Len(text)
        BY <3>f, <3>1, <3>4, <3>5, <4>3 DEF From
      <4> QED  BY <3>3, <3>4, <4>1, <4>2, <4>3
    <3>8. \A g \in DOMAIN files' : From(files'[g], g, at2, written', job')
      BY <3>2, <3>6, <3>7
    <3>9. ASSUME NEW u \in Importers, pc'[u] \in {"write", "writing"}
          PROVE  From(buf'[u], FileOf(job'[u]), at2, written', job')
      <4>1. u # t  BY <3>2, <3>9
      <4>2. buf'[u] = buf[u] /\ pc'[u] = pc[u] /\ job'[u] = job[u]  BY <3>1, <3>2, <4>1
      <4>3. From(buf[u], FileOf(job[u]), at, written, job)  BY <3>9, <4>2
      <4> QED  BY <3>6, <4>2, <4>3
    <3> QED  BY <3>5, <3>8, <3>9 DEF OriginInv
  <2>5. CASE SetKvCache(t)  BY <1>keep, <2>p, <2>5 DEF SetKvCache
  <2>6. CASE OpenConfig(t)  BY <1>keep, <2>p, <2>6 DEF OpenConfig
  <2>7. CASE Save(t)
    <3>1. PICK step \in {"live", "store"} : Goto(t, step)  BY <2>7 DEF Save
    <3> QED  BY <1>keep, <2>p, <2>7, <3>1 DEF Save
  <2>8. CASE AddLive(t)  BY <1>keep, <2>p, <2>8 DEF AddLive
  <2>9. CASE StoreImport(t)  BY <1>end, <2>9 DEF StoreImport, Answered
  <2>10. CASE Fail(t)  BY <1>end, <2>10 DEF Fail
  <2> QED
    BY <1>1, <2>1, <2>2, <2>3, <2>4, <2>5, <2>6, <2>7, <2>8, <2>9, <2>10 DEF Import
<1>2. ASSUME NEW t \in Editors, BeginEdit(t) \/ StoreEdit(t) PROVE OriginInv'
  <2>1. CASE BeginEdit(t)
    <3>1. \A u \in Importers : pc'[u] = pc[u]
      BY <1>ok, <2>1, ConfigAssumption DEF BeginEdit, Begin, Goto, ConfigAssumption
    <3> QED  BY <1>keep, <2>1, <3>1 DEF BeginEdit, Begin
  <2>2. CASE StoreEdit(t)  BY <1>end, <2>2 DEF StoreEdit, Answered
  <2> QED  BY <1>2, <2>1, <2>2
<1>3. CASE Crash
  <2>1. files' = files /\ \A t \in Importers : pc'[t] \in {"write", "writing"} =>
                  pc[t] \in {"write", "writing"} /\ buf'[t] = buf[t]
    BY <1>ok, <1>3 DEF Crash, End
  <2> QED  BY <1>keep, <2>1
<1>4. CASE Start  BY <1>keep, <1>4 DEF Start
<1>5. CASE UNCHANGED vars  BY <1>keep, <1>5 DEF vars
<1> QED
  BY <1>1, <1>2, <1>3, <1>4, <1>5 DEF Next

(* Each limiter of ks is there for an import of its own, one of those in w *)
(* and for a pool of the provider of p.                                    *)
Backed(ks, p, w, jobs) ==
  \E o \in [DOMAIN ks -> w] :
    /\ \A i \in DOMAIN ks :
         jobs[o[i]].key = ks[i] /\ ProviderOf[jobs[o[i]].pool] = ProviderOf[p]
    /\ \A i, j \in DOMAIN ks : o[i] = o[j] => i = j

LimiterInv == \A p \in Pools : Backed(live[p], p, Counted, job)

(* A limiter keeps its import ...                                          *)
LEMMA BackedMore ==
  ASSUME NEW ks, NEW p, NEW w, NEW jobs, Backed(ks, p, w, jobs),
         NEW w2, NEW jobs2, w \subseteq w2, \A t \in w : jobs2[t] = jobs[t]
  PROVE  Backed(ks, p, w2, jobs2)
<1> PICK o \in [DOMAIN ks -> w] :
      /\ \A i \in DOMAIN ks :
           jobs[o[i]].key = ks[i] /\ ProviderOf[jobs[o[i]].pool] = ProviderOf[p]
      /\ \A i, j \in DOMAIN ks : o[i] = o[j] => i = j
  BY DEF Backed
<1>1. o \in [DOMAIN ks -> w2] /\ \A i \in DOMAIN ks : jobs2[o[i]] = jobs[o[i]]
  OBVIOUS
<1> QED  BY <1>1 DEF Backed

(* ... and a new one gets an import that made none before.                 *)
LEMMA BackedAppend ==
  ASSUME NEW ks \in Seq(Keys), NEW p, NEW w, NEW jobs, Backed(ks, p, w, jobs),
         NEW t, t \notin w, jobs[t].key \in Keys, ProviderOf[jobs[t].pool] = ProviderOf[p]
  PROVE  Backed(Append(ks, jobs[t].key), p, w \cup {t}, jobs)
<1> PICK o \in [DOMAIN ks -> w] :
      /\ \A i \in DOMAIN ks :
           jobs[o[i]].key = ks[i] /\ ProviderOf[jobs[o[i]].pool] = ProviderOf[p]
      /\ \A i, j \in DOMAIN ks : o[i] = o[j] => i = j
  BY DEF Backed
<1> DEFINE new == Append(ks, jobs[t].key)
<1> DEFINE n == Len(ks)
<1> DEFINE o2 == [i \in DOMAIN new |-> IF i = n + 1 THEN t ELSE o[i]]
<1>1. n \in Nat /\ DOMAIN ks = 1 .. n  OBVIOUS
<1>2. /\ DOMAIN new = 1 .. n + 1 /\ new[n + 1] = jobs[t].key
      /\ \A i \in 1 .. n : new[i] = ks[i]
  <2> HIDE DEF new
  <2>1. /\ new \in Seq(Keys) /\ Len(new) = n + 1 /\ new[n + 1] = jobs[t].key
        /\ \A i \in 1 .. n : new[i] = ks[i]
    BY AppendProperties DEF new
  <2> QED  BY <1>1, <2>1
<1> HIDE DEF new, n
<1>3. \A i \in DOMAIN new : i = n + 1 \/ (i \in 1 .. n /\ i # n + 1)  BY <1>1, <1>2
<1>4. o2[n + 1] = t /\ \A i \in 1 .. n : o2[i] = o[i] /\ o2[i] \in w
  <2>1. n + 1 \in DOMAIN new /\ \A i \in 1 .. n : i \in DOMAIN new /\ i # n + 1  BY <1>1, <1>2
  <2> QED  BY <1>1, <2>1
<1>5. o2 \in [DOMAIN new -> w \cup {t}]  BY <1>1, <1>3
<1> HIDE DEF o2
<1>6. \A i \in DOMAIN new :
        jobs[o2[i]].key = new[i] /\ ProviderOf[jobs[o2[i]].pool] = ProviderOf[p]
  BY <1>1, <1>2, <1>3, <1>4
<1>7. \A i, j \in DOMAIN new : o2[i] = o2[j] => i = j
  <2> SUFFICES ASSUME NEW i \in DOMAIN new, NEW j \in DOMAIN new, o2[i] = o2[j] PROVE i = j
    OBVIOUS
  <2>1. CASE i = n + 1 /\ j = n + 1  BY <2>1
  <2>2. CASE i \in 1 .. n /\ j \in 1 .. n  BY <1>1, <1>4, <2>2
  <2>3. CASE i = n + 1 /\ j \in 1 .. n  BY <1>4, <2>3
  <2>4. CASE i \in 1 .. n /\ j = n + 1  BY <1>4, <2>4
  <2> QED  BY <1>3, <2>1, <2>2, <2>3, <2>4
<1> QED  BY <1>5, <1>6, <1>7 DEF Backed, new

(* A start makes a limiter per line of the pool's files, of which no one   *)
(* is there twice, and each line has an import of its own.                 *)
LEMMA StartBacked ==
  ASSUME TypesInv, StepsInv, TidyInv, OriginInv, ~ up, Loadable(disk), NEW p \in disk.pools
  PROVE  Backed(KeysOnDisk(p), p, Counted, job)
<1> DEFINE fs == disk.keys[p]
<1> DEFINE lines == [i \in DOMAIN fs |-> files[fs[i]]]
<1> DEFINE ks == KeysOnDisk(p)
<1>1. PICK at \in [Importers -> Nat] : \A f \in DOMAIN files : From(files[f], f, at, written, job)
  BY DEF OriginInv
<1>2. PICK h : LaidOut(ks, lines, Len(fs), h)
  BY KeysFacts DEF TypesInv
<1>3. /\ p \in Pools /\ fs \in Seq(Files) /\ DOMAIN fs = 1 .. Len(fs)
      /\ \A i \in DOMAIN fs : fs[i] \in DOMAIN files
      /\ \A i \in DOMAIN fs : fs[i][2] = ProviderOf[p]
      /\ \A i, j \in DOMAIN fs : i # j => fs[i] # fs[j]
  BY DEF TypesInv, TypeOK, Configs, Loadable, TidyInv, Tidy
<1>4. \A t \in written : t \in Importers /\ t \in Counted /\ job[t] \in Asked
  <2> SUFFICES ASSUME NEW t \in written PROVE t \in Importers /\ t \in Counted /\ job[t] \in Asked
    OBVIOUS
  <2>1. t \in Importers /\ t \in Tasks /\ Active = {}
    BY DEF TypesInv, TypeOK, StepsInv, Tasks
  <2>2. pc[t] \in {"idle", "done"} /\ pc[t] # "idle" /\ job[t] \in Asked
    BY <2>1 DEF StepsInv, Active
  <2> QED  BY <2>1, <2>2 DEF Counted
<1>5. \A i \in DOMAIN lines : lines[i] = files[fs[i]]  OBVIOUS
<1> DEFINE Is(i, t) == /\ at[t] = h[i][2] /\ FileOf(job[t]) = fs[h[i][1]]
                       /\ job[t].key = ks[i]
<1> HIDE DEF fs, lines, ks
<1>6. \A i \in DOMAIN ks : /\ h[i] \in (1 .. Len(fs)) \X Nat
                           /\ h[i][2] \in DOMAIN files[fs[h[i][1]]]
                           /\ ks[i] = files[fs[h[i][1]]][h[i][2]]
  <2> TAKE i \in DOMAIN ks
  <2>1. /\ h[i] \in (1 .. Len(fs)) \X Nat /\ h[i][2] \in DOMAIN lines[h[i][1]]
        /\ ks[i] = lines[h[i][1]][h[i][2]]
    BY <1>2 DEF LaidOut
  <2>2. h[i][1] \in DOMAIN fs  BY <1>3, <2>1
  <2>3. lines[h[i][1]] = files[fs[h[i][1]]]  BY <2>2 DEF lines
  <2> QED  BY <2>1, <2>3
<1>7. ASSUME NEW i \in DOMAIN ks PROVE \E t \in written : Is(i, t)
  <2>1. h[i][1] \in DOMAIN fs  BY <1>3, <1>6
  <2>2. From(files[fs[h[i][1]]], fs[h[i][1]], at, written, job)  BY <1>1, <1>3, <2>1
  <2> QED  BY <1>6, <2>2 DEF From
<1> DEFINE o == [i \in DOMAIN ks |-> CHOOSE t \in written : Is(i, t)]
<1>8. ASSUME NEW i \in DOMAIN ks PROVE o[i] \in written /\ Is(i, o[i])
  <2> HIDE DEF Is
  <2>1. \E t \in written : Is(i, t)  BY <1>7
  <2> QED  BY <2>1
<1>9. o \in [DOMAIN ks -> Counted]
  <2>1. \A i \in DOMAIN ks : o[i] \in Counted  BY <1>4, <1>8
  <2>2. o = [i \in DOMAIN ks |-> o[i]]  OBVIOUS
  <2> HIDE DEF o
  <2> QED  BY <2>1, <2>2
<1> HIDE DEF o
<1>10. \A i \in DOMAIN ks :
         job[o[i]].key = ks[i] /\ ProviderOf[job[o[i]].pool] = ProviderOf[p]
  <2> TAKE i \in DOMAIN ks
  <2>1. job[o[i]].key = ks[i] /\ FileOf(job[o[i]]) = fs[h[i][1]]  BY <1>8
  <2>2. h[i][1] \in DOMAIN fs  BY <1>3, <1>6
  <2>3. fs[h[i][1]][2] = ProviderOf[p]  BY <1>3, <2>2
  <2>4. FileOf(job[o[i]])[2] = ProviderOf[job[o[i]].pool]  BY DEF FileOf
  <2> QED  BY <2>1, <2>3, <2>4
<1>11. \A i, j \in DOMAIN ks : o[i] = o[j] => i = j
  <2> SUFFICES ASSUME NEW i \in DOMAIN ks, NEW j \in DOMAIN ks, o[i] = o[j] PROVE i = j
    OBVIOUS
  <2>1. h[i][2] = h[j][2] /\ fs[h[i][1]] = fs[h[j][1]]  BY <1>8
  <2>2. h[i][1] = h[j][1]  BY <1>3, <1>6, <2>1
  <2>3. h[i] = h[j]  BY <1>6, <2>1, <2>2
  <2> QED  BY <1>2, <2>3 DEF LaidOut
<1>12. Backed(ks, p, Counted, job)  BY <1>9, <1>10, <1>11 DEF Backed
<1> QED  BY <1>12 DEF ks

LEMMA LimiterInit == Init => LimiterInv
<1> SUFFICES ASSUME Init, NEW p \in Pools PROVE Backed(live[p], p, Counted, job)
  BY DEF LimiterInv
<1>1. live[p] = <<>> /\ DOMAIN live[p] = {}  BY DEF Init
<1>2. <<>> \in [DOMAIN live[p] -> Counted]  BY <1>1
<1> QED  BY <1>1, <1>2 DEF Backed

(* Limiters are made one at a time, or all anew by a start.                *)
LEMMA LimiterStep ==
  ASSUME TypesInv, StepsInv, TidyInv, OriginInv, LimiterInv, [Next]_vars
  PROVE  LimiterInv'
<1> USE DEF local, copies, stored, saves, history
<1>more. /\ Counted \subseteq Counted' /\ Counted \subseteq written
         /\ \A t \in written : job'[t] = job[t]
  BY StepsStep DEF Counted
<1>back. ASSUME NEW ks, NEW p, Backed(ks, p, Counted, job) PROVE Backed(ks, p, Counted', job')
  BY <1>back, <1>more, BackedMore
<1>same. ASSUME live' = live PROVE LimiterInv'
  BY <1>same, <1>back DEF LimiterInv
<1>1. ASSUME NEW t \in Importers, Import(t) PROVE LimiterInv'
  <2>1. ASSUME NEW j \in Asked, BeginImport(t, j) PROVE LimiterInv'
    BY <2>1, <1>same DEF BeginImport, Begin
  <2>2. CASE ReadSecrets(t)  BY <2>2, <1>same DEF ReadSecrets
  <2>3. CASE OpenSecrets(t)  BY <2>3, <1>same DEF OpenSecrets
  <2>4. CASE WriteSecrets(t)  BY <2>4, <1>same DEF WriteSecrets
  <2>5. CASE SetKvCache(t)  BY <2>5, <1>same DEF SetKvCache
  <2>6. CASE OpenConfig(t)  BY <2>6, <1>same DEF OpenConfig
  <2>7. CASE Save(t)  BY <2>7, <1>same DEF Save
  <2>8. CASE AddLive(t)
    <3>1. /\ pc[t] = "live" /\ job' = job /\ written' = written /\ job[t] \in Asked
          /\ t \in written /\ t \in Tasks /\ live \in [Pools -> Seq(Keys)]
          /\ pc \in [Tasks -> Steps]
      BY <2>8 DEF AddLive, TypesInv, TypeOK, IInv, JobsInv, StepsInv, Past, Tasks
    <3>2. t \notin Counted /\ Counted' = Counted \cup {t}
      <4>1. \A u \in Tasks : pc'[u] = IF u = t THEN "store" ELSE pc[u]
        BY <2>8, <3>1 DEF AddLive, Goto
      <4>2. written \subseteq Tasks  BY DEF TypesInv, TypeOK, Tasks
      <4> QED  BY <3>1, <4>1, <4>2 DEF Counted
    <3>3. CASE live' = live  BY <3>3, <1>same
    <3>4. CASE live' = [live EXCEPT ![job[t].pool] = Append(@, job[t].key)]
      <4> DEFINE p == job[t].pool
      <4>1. p \in Pools /\ job[t].key \in Keys  BY <3>1, AskedFacts
      <4>2. \A q \in Pools : live'[q] = IF q = p THEN Append(live[p], job[t].key) ELSE live[q]
        BY <3>1, <3>4, <4>1
      <4>3. live[p] \in Seq(Keys) /\ Backed(live[p], p, Counted, job)
        BY <3>1, <4>1 DEF LimiterInv
      <4>4. Backed(Append(live[p], job[t].key), p, Counted \cup {t}, job)
        BY <3>2, <4>1, <4>3, BackedAppend
      <4>5. \A q \in Pools : q # p => Backed(live'[q], q, Counted', job')
        BY <1>back, <4>2 DEF LimiterInv
      <4>6. Backed(live'[p], p, Counted', job')  BY <3>1, <3>2, <4>1, <4>2, <4>4
      <4> QED  BY <4>5, <4>6 DEF LimiterInv
    <3> QED  BY <2>8, <3>3, <3>4 DEF AddLive
  <2>9. CASE StoreImport(t)  BY <2>9, <1>same DEF StoreImport
  <2>10. CASE Fail(t)  BY <2>10, <1>same DEF Fail
  <2> QED
    BY <1>1, <2>1, <2>2, <2>3, <2>4, <2>5, <2>6, <2>7, <2>8, <2>9, <2>10 DEF Import
<1>2. ASSUME NEW t \in Editors, BeginEdit(t) \/ StoreEdit(t) PROVE LimiterInv'
  BY <1>2, <1>same DEF BeginEdit, Begin, StoreEdit
<1>3. CASE Crash  BY <1>3, <1>same DEF Crash
<1>4. CASE Start
  <2>1. ~ up /\ Loadable(disk) /\ job' = job /\ Counted' = Counted
    BY <1>4 DEF Start, Counted
  <2>2. \A p \in disk.pools : Backed(KeysOnDisk(p), p, Counted, job)
    BY <2>1, StartBacked
  <2>3. \A p : Backed(<<>>, p, Counted, job)
    <3>1. DOMAIN <<>> = {} /\ <<>> \in [DOMAIN <<>> -> Counted]  OBVIOUS
    <3> QED  BY <3>1 DEF Backed
  <2>4. \A p \in Pools : live'[p] = IF p \in disk.pools THEN KeysOnDisk(p) ELSE <<>>
    BY <1>4 DEF Start
  <2>5. \A p \in Pools : Backed(live'[p], p, Counted', job')
    BY <2>1, <2>2, <2>3, <2>4
  <2> QED  BY <2>5 DEF LimiterInv
<1>5. CASE UNCHANGED vars  BY <1>5, <1>same DEF vars
<1> QED
  BY <1>1, <1>2, <1>3, <1>4, <1>5 DEF Next

(* All that the limiters rest on.                                          *)
LimitersInv == TypesInv /\ StepsInv /\ TidyInv /\ OriginInv /\ LimiterInv

LEMMA LimitersAlways == Spec => []LimitersInv
<1>1. Init => LimitersInv
  BY StepsInit, InitInv, TypesInit, TidyInit, OriginInit, LimiterInit DEF LimitersInv, TypesInv
<1>2. LimitersInv /\ [Next]_vars => LimitersInv'
  BY StepInv, TypesStep, StepsStep, TidyStep, OriginStep, LimiterStep DEF LimitersInv, TypesInv
<1> QED  BY <1>1, <1>2, PTL DEF Spec

(* For any number of imports, files, pools and restarts: a running pool    *)
(* has no more limiters for a secret than imports, through this pool or    *)
(* another, wrote it for the provider, as each line of a file has an       *)
(* import of its own (mcp.rs import_key, storage.rs) and a start reads     *)
(* each file that the pool names once (lib.rs).                            *)
THEOREM LimitersBacked == Spec => []LimitersHaveImports
<1>1. LimitersInv => LimitersHaveImports
  <2> SUFFICES ASSUME LimitersInv, NEW p \in Pools, NEW k \in Keys
               PROVE  Cardinality(Limiters(p, k)) <= Cardinality(ImportsOf(p, k))
    BY DEF LimitersHaveImports
  <2>1. PICK o \in [DOMAIN live[p] -> Counted] :
          /\ \A i \in DOMAIN live[p] :
               job[o[i]].key = live[p][i] /\ ProviderOf[job[o[i]].pool] = ProviderOf[p]
          /\ \A i, j \in DOMAIN live[p] : o[i] = o[j] => i = j
    BY DEF LimitersInv, LimiterInv, Backed
  <2> DEFINE g == [i \in Limiters(p, k) |-> o[i]]
  <2>2. \A i \in Limiters(p, k) : i \in DOMAIN live[p] /\ live[p][i] = k  BY DEF Limiters
  <2>3. \A i \in Limiters(p, k) : o[i] \in ImportsOf(p, k)
    BY <2>1, <2>2 DEF ImportsOf, Counted
  <2>4. g \in Injection(Limiters(p, k), ImportsOf(p, k))
    BY <2>1, <2>2, <2>3 DEF Injection, IsInjective
  <2>5. IsFiniteSet(ImportsOf(p, k))
    <3>1. IsFiniteSet(written) /\ ImportsOf(p, k) \subseteq written
      BY DEF LimitersInv, StepsInv, ImportsOf
    <3> QED  BY <3>1, FS_Subset
  <2> QED  BY <2>4, <2>5, FS_Injection
<1> QED  BY <1>1, LimitersAlways, PTL

-----------------------------------------------------------------------------
(* An import is in a configuration.                                        *)
HasImport(c, j) == j.pool \in c.pools /\ Contains(c.keys[j.pool], FileOf(j))

(* A pool that runs is in every copy of the configuration.                 *)
RunningInv == up => running \subseteq mem.pools /\ \A t \in Active : running \subseteq snap[t].pools

(* What a change that nothing overlaps has done so far.                    *)
AloneInv ==
  \A t \in alone :
    /\ up /\ Active = {t} /\ snap[t] = mem
    /\ t \in Importers =>
         /\ pc[t] \in Past =>
              FileOf(job[t]) \in DOMAIN files /\ Contains(files[FileOf(job[t])], job[t].key)
         /\ pc[t] \in {"live", "store"} => HasImport(disk, job[t])
         /\ pc[t] = "store" /\ job[t].pool \in running =>
              Contains(live[job[t].pool], job[t].key) \/ t \in dropped

(* What is left of the changes that are to stay: every copy that may be    *)
(* written back has them ...                                               *)
KeptEdits ==
  \A t \in kept \cap Editors :
    /\ up => t \in mem.edits /\ \A u \in Active : t \in snap[u].edits
    /\ ~ up => t \in disk.edits

KeptConfigs ==
  \A t \in kept \cap Importers :
    /\ pc[t] = "done" /\ job[t] \in Asked
    /\ HasImport(disk, job[t])
    /\ up => HasImport(mem, job[t])
    /\ \A u \in Active : HasImport(snap[u], job[t])

(* ... as has every copy of a secret file, or one that writes has it open. *)
Readable(f, k) ==
  /\ f \in DOMAIN files
  /\ WritersOf(f) # {} \/ Contains(files[f], k)
  /\ \A u \in Importers : pc[u] \in {"write", "writing"} /\ FileOf(job[u]) = f => Contains(buf[u], k)

KeptFiles ==
  \A t \in kept \cap Importers :
    FileOf(job[t]) \in marred \/ Readable(FileOf(job[t]), job[t].key)

KeptLimiters ==
  \A t \in kept \cap Importers :
    up /\ job[t].pool \in running =>
      \/ Contains(live[job[t].pool], job[t].key)
      \/ FileOf(job[t]) \in marred
      \/ t \in dropped

KeptInv == RunningInv /\ AloneInv /\ KeptEdits /\ KeptConfigs /\ KeptFiles /\ KeptLimiters

(* An element more.                                                        *)
LEMMA ContainsAppend ==
  ASSUME NEW S, NEW s \in Seq(S), NEW e \in S
  PROVE  /\ Contains(Append(s, e), e)
         /\ \A x : Contains(s, x) => Contains(Append(s, e), x)
<1> DEFINE t == Append(s, e)
<1>1. /\ Len(s) \in Nat /\ Len(t) = Len(s) + 1 /\ t[Len(s) + 1] = e
      /\ \A i \in 1 .. Len(s) : t[i] = s[i]
  BY AppendProperties
<1> HIDE DEF t
<1>2. Len(s) + 1 \in 1 .. Len(t) /\ 1 .. Len(s) \subseteq 1 .. Len(t)  BY <1>1
<1>3. Contains(t, e)  BY <1>1, <1>2 DEF Contains
<1>4. \A x : Contains(s, x) => Contains(t, x)  BY <1>1, <1>2 DEF Contains
<1> QED  BY <1>3, <1>4 DEF t

(* An import puts its file into a configuration and takes nothing out.     *)
LEMMA EntryHas ==
  ASSUME NEW c \in Configs, NEW j \in Asked
  PROVE  /\ WithEntry(c, j) \in Configs /\ HasImport(WithEntry(c, j), j)
         /\ c.pools \subseteq WithEntry(c, j).pools /\ c.edits = WithEntry(c, j).edits
         /\ \A j2 \in Asked : HasImport(c, j2) => HasImport(WithEntry(c, j), j2)
<1> DEFINE ks == c.keys[j.pool]
<1> DEFINE new == IF Contains(ks, FileOf(j)) THEN ks ELSE Append(ks, FileOf(j))
<1>1. j.pool \in Pools /\ FileOf(j) \in Files /\ \A j2 \in Asked : j2.pool \in Pools
  BY AskedFacts
<1>2. ks \in Seq(Files)  BY <1>1 DEF Configs
<1>c. Configs = ConfigsOver(Files)  BY DEF Configs, ConfigsOver
<1>3. WithEntry(c, j) \in Configs  BY <1>1, <1>c, EntryOver
<1>k. /\ \A p \in Pools : WithEntry(c, j).keys[p] = IF p = j.pool THEN new ELSE c.keys[p]
      /\ WithEntry(c, j).pools = c.pools \cup {j.pool} /\ WithEntry(c, j).edits = c.edits
  BY <1>1 DEF WithEntry, Configs
<1>4. Contains(new, FileOf(j)) /\ \A f : Contains(ks, f) => Contains(new, f)
  <2> HIDE DEF ks
  <2> QED  BY <1>1, <1>2, ContainsAppend
<1>5. HasImport(WithEntry(c, j), j)
  <2> HIDE DEF new
  <2> QED  BY <1>1, <1>4, <1>k DEF HasImport
<1>6. \A j2 \in Asked : HasImport(c, j2) => HasImport(WithEntry(c, j), j2)
  <2> SUFFICES ASSUME NEW j2 \in Asked, HasImport(c, j2) PROVE HasImport(WithEntry(c, j), j2)
    OBVIOUS
  <2> HIDE DEF new
  <2>1. CASE j2.pool = j.pool  BY <1>1, <1>4, <1>k, <2>1 DEF HasImport
  <2>2. CASE j2.pool # j.pool  BY <1>1, <1>k, <2>2 DEF HasImport
  <2> QED  BY <2>1, <2>2
<1> QED  BY <1>3, <1>5, <1>6, <1>k

(* Which changes become ones that are to stay.                             *)
LEMMA Keeps ==
  ASSUME TypesInv, [Next]_vars
  PROVE  \A t \in kept' : \/ t \in kept
                          \/ t \in alone /\ t \in Importers /\ StoreImport(t)
                          \/ t \in alone /\ t \in Editors /\ StoreEdit(t)
<1> USE DEF local, copies, stored, saves, history
<1>1. ASSUME NEW t \in Importers, Import(t)
      PROVE  kept' = kept \/ (StoreImport(t) /\ kept' = IF t \in alone THEN kept \cup {t} ELSE kept)
  BY <1>1 DEF Import, BeginImport, Begin, ReadSecrets, OpenSecrets, WriteSecrets, SetKvCache,
     OpenConfig, Save, AddLive, StoreImport, Fail, Answered
<1>2. ASSUME NEW t \in Editors, BeginEdit(t) \/ StoreEdit(t)
      PROVE  kept' = kept \/ (StoreEdit(t) /\ kept' = IF t \in alone THEN kept \cup {t} ELSE kept)
  BY <1>2 DEF BeginEdit, Begin, StoreEdit, Answered
<1>3. CASE Crash  BY <1>3 DEF Crash
<1>4. CASE Start  BY <1>4 DEF Start
<1>5. CASE UNCHANGED vars  BY <1>5 DEF vars
<1>6. CASE \E t \in Importers : Import(t)
  <2>1. PICK t \in Importers : Import(t)  BY <1>6
  <2>2. kept' = kept \/ (StoreImport(t) /\ kept' = IF t \in alone THEN kept \cup {t} ELSE kept)
    BY <1>1, <2>1
  <2> QED  BY <2>2
<1>7. CASE \E t \in Editors : BeginEdit(t) \/ StoreEdit(t)  BY <1>2, <1>7
<1> QED  BY <1>3, <1>4, <1>5, <1>6, <1>7 DEF Next

LEMMA KeptInit == Init => KeptInv
<1> SUFFICES ASSUME Init PROVE KeptInv  OBVIOUS
<1>1. /\ up /\ alone = {} /\ kept = {} /\ running = Configured /\ mem.pools = Configured
      /\ Active = {}
  BY DEF Init, Active
<1> QED
  BY <1>1 DEF KeptInv, RunningInv, AloneInv, KeptEdits, KeptConfigs, KeptFiles, KeptLimiters

(* The server starts with what config.yaml names, and stops with no        *)
(* request left.                                                           *)
LEMMA UpDown ==
  ASSUME TypesInv, StepsInv, [Next]_vars
  PROVE  /\ ~ up' => Active' = {}
         /\ up' /\ ~ up => mem' = disk /\ running' = disk.pools /\ Active = {} /\ Active' = {}
         /\ up => running' = running
         /\ ~ up => kept' \subseteq kept
         /\ up /\ ~ up' => kept' = {t \in kept : t \in Editors => t \in disk.edits} /\ disk' = disk
         /\ ~ up => disk' = disk /\ UNCHANGED <<marred, files, buf, pc, alone>>
<1> USE DEF local, copies, stored, saves, history
<1>0. ~ up => Active = {}  BY DEF StepsInv
<1>s. ~ up' => Active' = {}  BY StepsStep DEF StepsInv
<1>1. ASSUME NEW t \in Importers, Import(t)
      PROVE  up /\ up' = up /\ running' = running
  <2>1. up
    BY <1>1, <1>0 DEF Import, BeginImport, Begin, ReadSecrets, OpenSecrets, WriteSecrets, SetKvCache,
       OpenConfig, Save, AddLive, StoreImport, Fail, Active, Tasks
  <2> QED
    BY <1>1, <2>1 DEF Import, BeginImport, Begin, ReadSecrets, OpenSecrets, WriteSecrets, SetKvCache,
       OpenConfig, Save, AddLive, StoreImport, Fail
<1>2. ASSUME NEW t \in Editors, BeginEdit(t) \/ StoreEdit(t)
      PROVE  up /\ up' = up /\ running' = running
  BY <1>2, <1>0 DEF BeginEdit, Begin, StoreEdit, Active, Tasks
<1>3. CASE Crash  BY <1>3, <1>s DEF Crash
<1>4. CASE Start  BY <1>0, <1>4, <1>s DEF Start, Active
<1>5. CASE UNCHANGED vars  BY <1>5, <1>s DEF vars
<1>6. CASE \E t \in Importers : Import(t)  BY <1>1, <1>6, <1>s
<1>7. CASE \E t \in Editors : BeginEdit(t) \/ StoreEdit(t)  BY <1>2, <1>7, <1>s
<1> QED  BY <1>3, <1>4, <1>5, <1>6, <1>7 DEF Next

(* No step takes a running pool out of a copy.                             *)
LEMMA RunningStep ==
  ASSUME TypesInv, StepsInv, RunningInv, [Next]_vars
  PROVE  RunningInv'
<1>ok. snap \in [Tasks -> Configs] /\ Importers \subseteq Tasks /\ Editors \subseteq Tasks
  BY DEF TypesInv, TypeOK, Tasks
<1>1. CASE up' /\ ~ up  BY <1>1, UpDown DEF RunningInv
<1>2. CASE up' /\ up
  <2>1. running' = running  BY <1>2, UpDown
  <2>2. \A t \in Importers : job[t] \in Asked => snap[t].pools \subseteq WithEntry(snap[t], job[t]).pools
    BY <1>ok, EntryHas
  <2>3. \A t \in Editors : [snap[t] EXCEPT !.edits = @ \cup {t}].pools = snap[t].pools
    BY <1>ok DEF Configs
  <2>4. running \subseteq mem'.pools
    BY <1>2, <2>2, <2>3, Sources DEF RunningInv
  <2>5. ASSUME NEW t \in Active' PROVE running \subseteq snap'[t].pools
    <3>1. t \in Tasks  BY DEF Active
    <3>2. (snap'[t] = snap[t] /\ t \in Active) \/ snap'[t] = mem  BY <3>1, Sources
    <3> QED  BY <1>2, <3>2 DEF RunningInv
  <2> QED  BY <2>1, <2>4, <2>5 DEF RunningInv
<1>3. CASE ~ up'  BY <1>3 DEF RunningInv
<1> QED  BY <1>1, <1>2, <1>3

(* What is done alone is done for good: nothing else moves meanwhile.      *)
LEMMA AloneStep ==
  ASSUME TypesInv, StepsInv, RunningInv, AloneInv, [Next]_vars
  PROVE  AloneInv'
<1> USE DEF local, copies, stored, saves, history
<1>ok. /\ pc \in [Tasks -> Steps] /\ Importers \subseteq Tasks /\ Editors \subseteq Tasks
       /\ snap \in [Tasks -> Configs] /\ live \in [Pools -> Seq(Keys)]
       /\ buf \in [Importers -> Seq(Keys)] /\ alone \subseteq Tasks
       /\ \A f \in DOMAIN files : files[f] \in Seq(Keys)
       /\ \A t \in Importers : pc[t] # "idle" => job[t] \in Asked
       /\ \A t \in Importers : t \notin Editors
  BY ConfigAssumption DEF TypesInv, IInv, JobsInv, TypeOK, Tasks, ConfigAssumption
<1>0. ASSUME alone' = {} PROVE AloneInv'  BY <1>0 DEF AloneInv
<1>end. ASSUME NEW ts, End(ts) PROVE AloneInv'  BY <1>0, <1>end DEF End
<1>b. ASSUME NEW t \in Tasks, NEW step \in {"verify", "edit"}, Begin(t, step),
             t \in Importers => step = "verify"
      PROVE  AloneInv'
  <2>1. CASE Active # {}  BY <1>0, <1>b, <2>1 DEF Begin
  <2>2. CASE Active = {}
    <3>1. alone' = {t} /\ up' /\ snap'[t] = mem /\ mem' = mem
      BY <1>b, <1>ok, <2>2 DEF Begin
    <3>2. \A u \in Tasks : pc'[u] = IF u = t THEN step ELSE pc[u]
      BY <1>b, <1>ok DEF Begin, Goto
    <3>3. Active' = {t}  BY <2>2, <3>2 DEF Active
    <3>4. t \in Importers => pc'[t] = "verify"  BY <1>b, <3>2
    <3> QED  BY <3>1, <3>3, <3>4 DEF AloneInv, Past
  <2> QED  BY <2>1, <2>2
(* A step of the request that is alone. *)
<1>go. ASSUME NEW t \in Importers, t \in Active, NEW step \in Steps, Goto(t, step),
              step \notin {"idle", "done"},
              UNCHANGED <<up, mem, snap, alone, job>>,
              t \in alone =>
                /\ step \in Past =>
                     FileOf(job[t]) \in DOMAIN files' /\ Contains(files'[FileOf(job[t])], job[t].key)
                /\ step \in {"live", "store"} => HasImport(disk', job[t])
                /\ step = "store" /\ job[t].pool \in running' =>
                     Contains(live'[job[t].pool], job[t].key) \/ t \in dropped'
       PROVE  AloneInv'
  <2> SUFFICES ASSUME NEW u \in alone'
               PROVE  (/\ up /\ Active = {u} /\ snap[u] = mem
                       /\ u \in Importers =>
                            /\ pc[u] \in Past =>
                                 /\ FileOf(job[u]) \in DOMAIN files
                                 /\ Contains(files[FileOf(job[u])], job[u].key)
                            /\ pc[u] \in {"live", "store"} => HasImport(disk, job[u])
                            /\ pc[u] = "store" /\ job[u].pool \in running =>
                                 Contains(live[job[u].pool], job[u].key) \/ u \in dropped)'
    BY DEF AloneInv
  <2>1. u \in alone /\ u = t /\ Active = {t}  BY <1>go DEF AloneInv
  <2>2. \A v \in Tasks : pc'[v] = IF v = t THEN step ELSE pc[v]  BY <1>go, <1>ok DEF Goto
  <2>3. Active' = {t}  BY <1>go, <2>1, <2>2, <1>ok DEF Active
  <2>4. up /\ snap[t] = mem  BY <2>1 DEF AloneInv
  <2>5. pc'[t] = step  BY <2>2, <1>ok
  <2> QED  BY <1>go, <2>1, <2>3, <2>4, <2>5 DEF HasImport, FileOf
<1>1. ASSUME NEW t \in Importers, Import(t) PROVE AloneInv'
  <2>t. t \in Tasks /\ (pc[t] \notin {"idle", "done"} => t \in Active) /\ (pc[t] # "idle" => job[t] \in Asked)
    BY <1>ok DEF Active
  <2>a. t \in alone =>
          /\ snap[t] = mem
          /\ pc[t] \in Past =>
               FileOf(job[t]) \in DOMAIN files /\ Contains(files[FileOf(job[t])], job[t].key)
          /\ pc[t] \in {"live", "store"} => HasImport(disk, job[t])
    BY DEF AloneInv
  <2> USE DEF Past, Steps
  <2>1. ASSUME NEW j \in Asked, BeginImport(t, j) PROVE AloneInv'
    BY <1>b, <2>1, <2>t DEF BeginImport
  <2>2. CASE ReadSecrets(t)  BY <1>go, <2>2, <2>t DEF ReadSecrets
  <2>3. CASE OpenSecrets(t)  BY <1>go, <2>3, <2>t DEF OpenSecrets
  <2>4. CASE WriteSecrets(t)
    <3>1. PICK step \in {"kv_cache", "save"} : Goto(t, step)  BY <2>4 DEF WriteSecrets
    <3> DEFINE f == FileOf(job[t])
    <3> DEFINE text == Append(buf[t], job[t].key)
    <3> DEFINE new == Over(text, files[f])
    <3>2. f \in DOMAIN files /\ job[t].key \in Keys
      BY <2>4, <2>t, AskedFacts DEF WriteSecrets, TypesInv, IInv, JobsInv
    <3>3. text \in Seq(Keys) /\ Contains(text, job[t].key)
      BY <1>ok, <3>2, ContainsAppend
    <3>4. Contains(new, job[t].key)
      <4>0. files[f] \in Seq(Keys)  BY <1>ok, <3>2
      <4> HIDE DEF f, text
      <4>1. /\ Len(new) >= Len(text) /\ Len(new) \in Nat /\ Len(text) \in Nat
            /\ \A i \in 1 .. Len(text) : new[i] = text[i]
        BY <4>0, <3>3, OverFacts
      <4> HIDE DEF new
      <4> QED  BY <4>1, <3>3 DEF Contains
    <3>5. files' = [files EXCEPT ![f] = new] /\ UNCHANGED <<up, mem, snap, alone, job>> /\ t \in Active
      BY <2>4, <2>t DEF WriteSecrets
    <3>6. f \in DOMAIN files' /\ files'[f] = new  BY <3>2, <3>5
    <3> HIDE DEF new
    <3> QED  BY <1>go, <3>1, <3>4, <3>5, <3>6
  <2>5. CASE SetKvCache(t)  BY <1>go, <2>5, <2>t, <2>a DEF SetKvCache
  <2>6. CASE OpenConfig(t)  BY <1>go, <2>6, <2>t, <2>a DEF OpenConfig
  <2>7. CASE Save(t)
    <3>1. PICK step \in {"live", "store"} :
            Goto(t, step) /\ (step = "store" => job[t].pool \notin snap[t].pools)
      BY <2>7 DEF Save
    <3>2. HasImport(disk', job[t])  BY <1>ok, <2>7, <2>t, EntryHas DEF Save
    <3>3. t \in alone => running \subseteq snap[t].pools  BY <2>a DEF AloneInv, RunningInv
    <3>4. t \in Active /\ UNCHANGED <<up, mem, snap, alone, job, files, running>>
      BY <2>7, <2>t DEF Save
    <3> QED  BY <1>go, <2>7, <2>a, <3>1, <3>2, <3>3, <3>4 DEF Save
  <2>8. CASE AddLive(t)
    <3>1. job[t] \in Asked /\ job[t].pool \in Pools /\ job[t].key \in Keys
      BY <2>8, <2>t, AskedFacts DEF AddLive
    <3>2. Contains(Append(live[job[t].pool], job[t].key), job[t].key)
      BY <1>ok, <3>1, ContainsAppend
    <3>3. job[t].pool \in running =>
            live'[job[t].pool] = Append(live[job[t].pool], job[t].key) \/ t \in dropped'
      BY <1>ok, <2>8, <3>1 DEF AddLive
    <3>4. job[t].pool \in running' => Contains(live'[job[t].pool], job[t].key) \/ t \in dropped'
      BY <2>8, <3>2, <3>3 DEF AddLive
    <3> QED  BY <1>go, <2>8, <2>t, <2>a, <3>4 DEF AddLive
  <2>9. CASE StoreImport(t)  BY <1>end, <2>9 DEF StoreImport, Answered
  <2>10. CASE Fail(t)  BY <1>end, <2>10 DEF Fail
  <2> QED
    BY <1>1, <2>1, <2>2, <2>3, <2>4, <2>5, <2>6, <2>7, <2>8, <2>9, <2>10 DEF Import
<1>2. ASSUME NEW t \in Editors, BeginEdit(t) \/ StoreEdit(t) PROVE AloneInv'
  <2>1. CASE BeginEdit(t)  BY <1>b, <1>ok, <2>1 DEF BeginEdit
  <2>2. CASE StoreEdit(t)  BY <1>end, <2>2 DEF StoreEdit, Answered
  <2> QED  BY <1>2, <2>1, <2>2
<1>3. CASE Crash  BY <1>0, <1>3 DEF Crash, End
<1>4. CASE Start
  <2>1. alone' = {}  BY <1>4 DEF Start, AloneInv
  <2> QED  BY <1>0, <2>1
<1>5. CASE UNCHANGED vars  BY <1>5 DEF vars, AloneInv, Active, HasImport
<1> QED
  BY <1>1, <1>2, <1>3, <1>4, <1>5 DEF Next

(* A setting that stays is in every copy that may be written back.         *)
LEMMA KeptEditsStep ==
  ASSUME TypesInv, StepsInv, AloneInv, KeptEdits, [Next]_vars
  PROVE  KeptEdits'
<1>ok. /\ snap \in [Tasks -> Configs] /\ Importers \subseteq Tasks /\ Editors \subseteq Tasks
  BY DEF TypesInv, TypeOK, Tasks
<1>w. /\ \A t \in Importers : job[t] \in Asked => WithEntry(snap[t], job[t]).edits = snap[t].edits
      /\ \A t \in Editors : [snap[t] EXCEPT !.edits = @ \cup {t}].edits = snap[t].edits \cup {t}
  BY <1>ok, EntryHas DEF Configs
<1> SUFFICES ASSUME NEW e \in kept' \cap Editors
             PROVE  /\ up' => e \in mem'.edits /\ \A u \in Active' : e \in snap'[u].edits
                    /\ ~ up' => e \in disk'.edits
  BY DEF KeptEdits
<1>1. CASE e \in kept
  <2>0. /\ up => e \in mem.edits /\ \A u \in Active : e \in snap[u].edits
        /\ ~ up => e \in disk.edits
    BY <1>1 DEF KeptEdits
  <2>1. CASE up /\ up'
    <3>1. e \in mem'.edits  BY <1>w, <2>0, <2>1, Sources
    <3>2. ASSUME NEW u \in Active' PROVE e \in snap'[u].edits
      <4>1. u \in Tasks  BY DEF Active
      <4>2. (snap'[u] = snap[u] /\ u \in Active) \/ snap'[u] = mem  BY <4>1, Sources
      <4> QED  BY <2>0, <2>1, <4>2
    <3> QED  BY <2>1, <3>1, <3>2
  <2>2. CASE ~ up /\ up'  BY <2>0, <2>2, UpDown
  <2>3. CASE up /\ ~ up'
    <3>1. e \in disk'.edits  BY <2>3, UpDown
    <3> QED  BY <2>3, <3>1
  <2>4. CASE ~ up /\ ~ up'  BY <2>0, <2>4, UpDown
  <2> QED  BY <2>1, <2>2, <2>3, <2>4
<1>2. CASE e \notin kept
  <2>1. e \in alone /\ StoreEdit(e)
    BY <1>2, Keeps, ConfigAssumption DEF ConfigAssumption
  <2>2. up' /\ mem'.edits = snap[e].edits \cup {e}
    BY <1>w, <2>1 DEF StoreEdit, AloneInv
  <2>3. Active' = {}
    BY <2>1 DEF StoreEdit, Answered, End, Active, AloneInv
  <2> QED  BY <2>2, <2>3
<1> QED  BY <1>1, <1>2

(* An import that stays is in every copy, and in config.yaml.              *)
LEMMA KeptConfigsStep ==
  ASSUME TypesInv, StepsInv, AloneInv, KeptConfigs, [Next]_vars
  PROVE  KeptConfigs'
<1>ok. /\ snap \in [Tasks -> Configs] /\ Importers \subseteq Tasks /\ Editors \subseteq Tasks
       /\ pc \in [Tasks -> Steps]
  BY DEF TypesInv, TypeOK, Tasks, IInv, JobsInv
<1>w. ASSUME NEW t \in Importers, job[t] \in Asked, NEW j \in Asked, HasImport(snap[t], j)
      PROVE  HasImport(WithEntry(snap[t], job[t]), j)
  BY <1>ok, <1>w, EntryHas
<1>e. ASSUME NEW t \in Editors, NEW j, HasImport(snap[t], j)
      PROVE  HasImport([snap[t] EXCEPT !.edits = @ \cup {t}], j)
  <2>1. snap[t] \in Configs  BY <1>ok
  <2>2. /\ [snap[t] EXCEPT !.edits = @ \cup {t}].pools = snap[t].pools
        /\ [snap[t] EXCEPT !.edits = @ \cup {t}].keys = snap[t].keys
    BY <2>1 DEF Configs
  <2> QED  BY <1>e, <2>2 DEF HasImport
<1> SUFFICES ASSUME NEW t \in kept' \cap Importers
             PROVE  /\ pc'[t] = "done" /\ job'[t] \in Asked
                    /\ HasImport(disk', job'[t])
                    /\ up' => HasImport(mem', job'[t])
                    /\ \A u \in Active' : HasImport(snap'[u], job'[t])
  BY DEF KeptConfigs, HasImport, FileOf
<1>1. CASE t \in kept
  <2>0. /\ pc[t] = "done" /\ job[t] \in Asked
        /\ HasImport(disk, job[t])
        /\ up => HasImport(mem, job[t])
        /\ \A u \in Active : HasImport(snap[u], job[t])
    BY <1>1 DEF KeptConfigs
  <2>1. job'[t] = job[t]  BY <2>0, StepsStep
  <2>2. pc'[t] = "done"  BY <2>0, StepsStep
  <2>3. HasImport(disk', job[t])  BY <1>w, <2>0, Sources
  <2>4. up' => HasImport(mem', job[t])
    <3>1. CASE up  BY <1>w, <1>e, <2>0, <3>1, Sources
    <3>2. CASE ~ up /\ up'  BY <2>0, <3>2, UpDown
    <3> QED  BY <3>1, <3>2
  <2>5. \A u \in Active' : HasImport(snap'[u], job[t])
    <3> TAKE u \in Active'
    <3>1. u \in Tasks  BY DEF Active
    <3>2. (snap'[u] = snap[u] /\ u \in Active) \/ snap'[u] = mem  BY <3>1, Sources
    <3>3. CASE up  BY <2>0, <3>2, <3>3
    <3>4. CASE ~ up
      <4>1. Active' = {}  BY <3>4, UpDown
      <4> QED  BY <4>1
    <3> QED  BY <3>3, <3>4
  <2> QED  BY <2>0, <2>1, <2>2, <2>3, <2>4, <2>5
<1>2. CASE t \notin kept
  <2>1. t \in alone /\ StoreImport(t)
    BY <1>2, Keeps, ConfigAssumption DEF ConfigAssumption
  <2>2. job' = job /\ disk' = disk /\ up' /\ mem' = WithEntry(snap[t], job[t]) /\ pc[t] = "store"
    BY <2>1 DEF StoreImport, AloneInv
  <2>3. job[t] \in Asked  BY <2>2 DEF TypesInv, IInv, JobsInv
  <2>4. HasImport(disk, job[t])  BY <2>1, <2>2 DEF AloneInv
  <2>5. HasImport(mem', job[t])  BY <1>ok, <2>2, <2>3, EntryHas
  <2>6. Active' = {} /\ pc'[t] = "done"
    BY <1>ok, <2>1 DEF StoreImport, Answered, End, Active, AloneInv
  <2> QED  BY <2>2, <2>3, <2>4, <2>5, <2>6
<1> QED  BY <1>1, <1>2

(* A file that was once caught in a write remains one.                     *)
LEMMA MarredStays == [Next]_vars => marred \subseteq marred'
<1> SUFFICES ASSUME [Next]_vars PROVE marred \subseteq marred'  OBVIOUS
<1> USE DEF local, copies, stored, saves, history
<1>1. ASSUME NEW t \in Importers, Import(t) PROVE marred \subseteq marred'
  BY <1>1 DEF Import, BeginImport, Begin, ReadSecrets, OpenSecrets, WriteSecrets, SetKvCache,
     OpenConfig, Save, AddLive, StoreImport, Fail, Answered, End
<1>2. ASSUME NEW t \in Editors, BeginEdit(t) \/ StoreEdit(t) PROVE marred \subseteq marred'
  BY <1>2 DEF BeginEdit, Begin, StoreEdit, Answered, End
<1>3. Crash \/ Start \/ UNCHANGED vars => marred \subseteq marred'  BY DEF Crash, Start, vars, End
<1> QED  BY <1>1, <1>2, <1>3 DEF Next

(* A secret file in good order stays so, or is marred.                     *)
LEMMA ReadableStep ==
  ASSUME TypesInv, StepsInv, [Next]_vars, NEW f \in Files, NEW k \in Keys,
         f \in marred \/ Readable(f, k)
  PROVE  f \in marred' \/ Readable(f, k)'
<1> USE DEF local, copies, stored, saves, history
<1>ok. /\ pc \in [Tasks -> Steps] /\ Importers \subseteq Tasks
       /\ buf \in [Importers -> Seq(Keys)]
       /\ \A g \in DOMAIN files : files[g] \in Seq(Keys)
       /\ \A t \in Importers : pc[t] # "idle" => job[t] \in Asked
  BY DEF TypesInv, IInv, JobsInv, TypeOK, Tasks
<1>w. WritersOf(f) = {t \in Importers : pc[t] = "writing" /\ FileOf(job[t]) = f}
  BY DEF WritersOf
<1>w2. WritersOf(f)' = {t \in Importers : pc'[t] = "writing" /\ FileOf(job'[t]) = f}
  BY DEF WritersOf, FileOf
<1>r. Readable(f, k)' <=>
        /\ f \in DOMAIN files'
        /\ WritersOf(f)' # {} \/ Contains(files'[f], k)
        /\ \A u \in Importers : pc'[u] \in {"write", "writing"} /\ FileOf(job'[u]) = f => Contains(buf'[u], k)
  BY DEF Readable, FileOf
<1>0. marred \subseteq marred'  BY MarredStays
<1> SUFFICES ASSUME f \notin marred' PROVE Readable(f, k)'
  OBVIOUS
<1>1. /\ f \in DOMAIN files
      /\ WritersOf(f) # {} \/ Contains(files[f], k)
      /\ \A u \in Importers : pc[u] \in {"write", "writing"} /\ FileOf(job[u]) = f => Contains(buf[u], k)
  BY <1>0 DEF Readable
(* Neither the file nor who has it open changes, nor does a copy of it.    *)
<1>same. ASSUME files' = files,
                \A t \in Importers :
                  /\ pc'[t] = "writing" /\ FileOf(job'[t]) = f <=> pc[t] = "writing" /\ FileOf(job[t]) = f
                  /\ pc'[t] \in {"write", "writing"} =>
                       pc[t] \in {"write", "writing"} /\ job'[t] = job[t] /\ buf'[t] = buf[t]
         PROVE  Readable(f, k)'
  <2>1. WritersOf(f)' = WritersOf(f)  BY <1>same, <1>w, <1>w2
  <2> QED  BY <1>same, <1>1, <1>r, <2>1
<1>end. ASSUME NEW ts, End(ts), files' = files, job' = job PROVE Readable(f, k)'
  <2>1. \A t \in ts \cap Importers : ~ (pc[t] = "writing" /\ FileOf(job[t]) = f)
    BY <1>end DEF End
  <2>2. \A t \in Importers : /\ pc'[t] = IF t \in ts THEN "done" ELSE pc[t]
                             /\ buf'[t] = IF t \in ts THEN <<>> ELSE buf[t]
    BY <1>end, <1>ok DEF End
  <2> QED  BY <1>end, <1>same, <2>1, <2>2
<1>2. ASSUME NEW t \in Importers, Import(t) PROVE Readable(f, k)'
  <2>p. ASSUME NEW step, Goto(t, step)
        PROVE  \A u \in Importers : pc'[u] = IF u = t THEN step ELSE pc[u]
    BY <2>p, <1>ok DEF Goto
  <2>1. ASSUME NEW j \in Asked, BeginImport(t, j) PROVE Readable(f, k)'
    <3>1. /\ \A u \in Importers \ {t} : job'[u] = job[u]
          /\ pc[t] = "idle" /\ Goto(t, "verify") /\ files' = files /\ buf' = buf
      BY <2>1, <1>ok DEF BeginImport, Begin, TypesInv, TypeOK
    <3>2. ASSUME NEW u \in Importers
          PROVE  /\ pc'[u] = "writing" /\ FileOf(job'[u]) = f <=> pc[u] = "writing" /\ FileOf(job[u]) = f
                 /\ pc'[u] \in {"write", "writing"} =>
                      pc[u] \in {"write", "writing"} /\ job'[u] = job[u] /\ buf'[u] = buf[u]
      <4>1. CASE u = t  BY <2>p, <3>1, <4>1
      <4>2. CASE u # t
        <5>1. pc'[u] = pc[u] /\ job'[u] = job[u] /\ buf'[u] = buf[u]  BY <2>p, <3>1, <4>2
        <5> QED  BY <5>1
      <4> QED  BY <4>1, <4>2
    <3> QED  BY <1>same, <3>1, <3>2
  <2>2. CASE ReadSecrets(t)
    <3> DEFINE g == FileOf(job[t])
    <3>1. /\ files' = files /\ job' = job /\ Goto(t, "write") /\ pc[t] = "verify"
          /\ \A u \in Importers \ {t} : buf'[u] = buf[u]
          /\ g \in DOMAIN files => buf'[t] = files[g]
          /\ WritersOf(g) # {} => g \in marred'
      BY <2>2, <1>ok DEF ReadSecrets
    <3>2. WritersOf(f)' = WritersOf(f)  BY <2>p, <3>1, <1>w, <1>w2
    <3>3. g = f => Contains(buf'[t], k)  BY <1>1, <3>1
    <3>4. \A u \in Importers : pc'[u] \in {"write", "writing"} /\ FileOf(job'[u]) = f => Contains(buf'[u], k)
      BY <1>1, <2>p, <3>1, <3>3
    <3> QED  BY <1>1, <1>r, <3>1, <3>2, <3>4
  <2>3. CASE OpenSecrets(t)
    <3> DEFINE g == FileOf(job[t])
    <3>1. /\ f \in DOMAIN files' /\ (f # g => files'[f] = files[f])
          /\ job' = job /\ buf' = buf /\ Goto(t, "writing") /\ pc[t] = "write"
      BY <2>3, <1>1 DEF OpenSecrets
    <3>2. WritersOf(f) \subseteq WritersOf(f)' /\ (g = f => t \in WritersOf(f)')
      BY <2>p, <3>1, <1>w, <1>w2
    <3>3. WritersOf(f)' # {} \/ Contains(files'[f], k)  BY <1>1, <3>1, <3>2
    <3>4. \A u \in Importers : pc'[u] \in {"write", "writing"} /\ FileOf(job'[u]) = f => Contains(buf'[u], k)
      BY <1>1, <2>p, <3>1
    <3> QED  BY <1>r, <3>1, <3>3, <3>4
  <2>4. CASE WriteSecrets(t)
    <3> DEFINE g == FileOf(job[t])
    <3> DEFINE text == Append(buf[t], job[t].key)
    <3>1. PICK step \in {"kv_cache", "save"} : Goto(t, step)  BY <2>4 DEF WriteSecrets
    <3>2. /\ files' = [files EXCEPT ![g] = Over(text, files[g])]
          /\ job' = job /\ pc[t] = "writing" /\ \A u \in Importers \ {t} : buf'[u] = buf[u]
      BY <2>4, <1>ok DEF WriteSecrets
    <3>3. g \in DOMAIN files /\ job[t].key \in Keys /\ buf[t] \in Seq(Keys) /\ text \in Seq(Keys)
      BY <1>ok, <3>2, AskedFacts DEF TypesInv, IInv, JobsInv
    <3>4. ASSUME g = f PROVE Contains(files'[f], k)
      <4>1. Contains(buf[t], k)  BY <1>1, <3>2, <3>4
      <4>2. Contains(text, k)  BY <3>3, <4>1, ContainsAppend
      <4>3. files'[f] = Over(text, files[f]) /\ files[f] \in Seq(Keys)
        BY <1>ok, <3>2, <3>3, <3>4
      <4> DEFINE new == Over(text, files[f])
      <4> HIDE DEF text
      <4>4. /\ Len(new) >= Len(text) /\ Len(new) \in Nat /\ Len(text) \in Nat
            /\ \A i \in 1 .. Len(text) : new[i] = text[i]
        BY <3>3, <4>3, OverFacts
      <4> HIDE DEF new
      <4>5. Contains(new, k)  BY <4>2, <4>4 DEF Contains
      <4> QED  BY <4>3, <4>5 DEF new
    <3>5. f \in DOMAIN files' /\ (f # g => files'[f] = files[f])  BY <1>1, <3>2
    <3>6. f # g => WritersOf(f)' = WritersOf(f)
      <4> SUFFICES ASSUME f # g PROVE WritersOf(f)' = WritersOf(f)  OBVIOUS
      <4>1. \A u \in Importers : pc'[u] = "writing" /\ FileOf(job[u]) = f <=>
                                 pc[u] = "writing" /\ FileOf(job[u]) = f
        BY <2>p, <3>1
      <4> QED  BY <3>2, <4>1, <1>w, <1>w2
    <3>7. WritersOf(f)' # {} \/ Contains(files'[f], k)  BY <1>1, <3>4, <3>5, <3>6
    <3>8. \A u \in Importers : pc'[u] \in {"write", "writing"} /\ FileOf(job'[u]) = f => Contains(buf'[u], k)
      BY <1>1, <2>p, <3>1, <3>2
    <3> QED  BY <1>r, <3>5, <3>7, <3>8
  <2>go. ASSUME NEW step, Goto(t, step), step \notin {"write", "writing"},
                pc[t] # "writing", UNCHANGED <<files, job, buf>>
         PROVE  Readable(f, k)'
    BY <1>same, <2>go, <2>p
  <2>5. CASE SetKvCache(t)  BY <2>go, <2>5 DEF SetKvCache
  <2>6. CASE OpenConfig(t)  BY <2>go, <2>6 DEF OpenConfig
  <2>7. CASE Save(t)
    <3>1. PICK step \in {"live", "store"} : Goto(t, step)  BY <2>7 DEF Save
    <3> QED  BY <2>go, <2>7, <3>1 DEF Save
  <2>8. CASE AddLive(t)  BY <2>go, <2>8 DEF AddLive
  <2>9. CASE StoreImport(t)  BY <1>end, <2>9 DEF StoreImport, Answered
  <2>10. CASE Fail(t)  BY <1>end, <2>10 DEF Fail
  <2> QED
    BY <1>2, <2>1, <2>2, <2>3, <2>4, <2>5, <2>6, <2>7, <2>8, <2>9, <2>10 DEF Import
<1>3. ASSUME NEW t \in Editors, BeginEdit(t) \/ StoreEdit(t) PROVE Readable(f, k)'
  <2>1. CASE BeginEdit(t)
    <3>1. \A u \in Importers : pc'[u] = pc[u]
      BY <1>ok, <2>1, ConfigAssumption DEF BeginEdit, Begin, Goto, ConfigAssumption
    <3> QED  BY <1>same, <2>1, <3>1 DEF BeginEdit, Begin
  <2>2. CASE StoreEdit(t)  BY <1>end, <2>2 DEF StoreEdit, Answered
  <2> QED  BY <1>3, <2>1, <2>2
<1>4. CASE Crash
  <2>1. \A t \in Active \cap Importers : ~ (pc[t] = "writing" /\ FileOf(job[t]) = f)
    BY <1>4 DEF Crash, End
  <2>2. \A t \in Importers : /\ pc'[t] = IF t \in Active THEN "done" ELSE pc[t]
                             /\ buf'[t] = IF t \in Active THEN <<>> ELSE buf[t]
    BY <1>4, <1>ok DEF Crash, End
  <2> QED  BY <1>4, <1>same, <2>1, <2>2 DEF Crash
<1>5. CASE Start  BY <1>5, <1>same DEF Start
<1>6. CASE UNCHANGED vars  BY <1>6, <1>same DEF vars
<1> QED
  BY <1>2, <1>3, <1>4, <1>5, <1>6 DEF Next

(* An import that stays has its secret in the file.                        *)
LEMMA KeptFilesStep ==
  ASSUME TypesInv, StepsInv, AloneInv, KeptConfigs, KeptFiles, [Next]_vars
  PROVE  KeptFiles'
<1>p. ASSUME NEW f, NEW k
      PROVE  Readable(f, k)' <=>
        /\ f \in DOMAIN files'
        /\ WritersOf(f)' # {} \/ Contains(files'[f], k)
        /\ \A u \in Importers : pc'[u] \in {"write", "writing"} /\ FileOf(job'[u]) = f => Contains(buf'[u], k)
  BY DEF Readable, FileOf
<1>1. ASSUME NEW t \in kept' \cap Importers, NEW f, NEW k, f = FileOf(job'[t]), k = job'[t].key
      PROVE  f \in marred' \/ Readable(f, k)'
  <2>1. CASE t \in kept
    <3>1. pc[t] = "done" /\ job[t] \in Asked /\ job'[t] = job[t]
      BY <2>1, StepsStep DEF KeptConfigs
    <3>2. f = FileOf(job[t]) /\ k = job[t].key /\ f \in Files /\ k \in Keys
      BY <1>1, <3>1, AskedFacts
    <3>3. f \in marred \/ Readable(f, k)  BY <2>1, <3>2 DEF KeptFiles
    <3> QED  BY <3>2, <3>3, ReadableStep
  <2>2. CASE t \notin kept
    <3>1. t \in alone /\ StoreImport(t)
      BY <2>2, Keeps, ConfigAssumption DEF ConfigAssumption
    <3>2. job' = job /\ files' = files /\ pc[t] = "store"  BY <3>1 DEF StoreImport
    <3>3. f \in DOMAIN files /\ Contains(files[f], k)  BY <1>1, <3>1, <3>2 DEF AloneInv, Past
    <3>4. Active' = {}
      BY <3>1 DEF StoreImport, Answered, End, Active, AloneInv
    <3>5. \A u \in Importers : pc'[u] \notin {"write", "writing"}
      BY <3>4 DEF Active, Tasks
    <3> QED  BY <1>p, <3>2, <3>3, <3>5
  <2> QED  BY <2>1, <2>2
<1>2. ASSUME NEW t \in kept' \cap Importers
      PROVE  (FileOf(job[t]) \in marred \/ Readable(FileOf(job[t]), job[t].key))'
  <2>1. \A f, k : f = FileOf(job'[t]) /\ k = job'[t].key =>
          f \in marred' \/ (/\ f \in DOMAIN files'
                            /\ WritersOf(f)' # {} \/ Contains(files'[f], k)
                            /\ \A u \in Importers :
                                 pc'[u] \in {"write", "writing"} /\ FileOf(job'[u]) = f =>
                                   Contains(buf'[u], k))
    BY <1>1, <1>p
  <2> QED  BY <2>1 DEF Readable, FileOf, WritersOf
<1> QED  BY <1>2 DEF KeptFiles

(* What a file holds, the pool that has it gets at the next start.         *)
LEMMA StartHas ==
  ASSUME TypesInv, Loadable(disk), NEW j \in Asked, HasImport(disk, j),
         Contains(files[FileOf(j)], j.key)
  PROVE  Contains(KeysOnDisk(j.pool), j.key)
<1> DEFINE p == j.pool
<1> DEFINE fs == disk.keys[p]
<1> DEFINE lines == [i \in DOMAIN fs |-> files[fs[i]]]
<1> DEFINE ks == KeysOnDisk(p)
<1>1. p \in disk.pools /\ p \in Pools /\ fs \in Seq(Files) /\ DOMAIN fs = 1 .. Len(fs)
  BY AskedFacts DEF HasImport, TypesInv, TypeOK, Configs
<1>2. PICK h : LaidOut(ks, lines, Len(fs), h)
  BY <1>1, KeysFacts DEF TypesInv
<1>3. ks \in Seq(Keys)  BY <1>1, KeysFacts DEF TypesInv
<1>4. PICK a \in 1 .. Len(fs) : fs[a] = FileOf(j)  BY DEF HasImport, Contains
<1>5. FileOf(j) \in DOMAIN files /\ files[FileOf(j)] \in Seq(Keys)
  BY <1>1, <1>4 DEF Loadable, TypesInv, TypeOK
<1>6. PICK b \in 1 .. Len(files[FileOf(j)]) : files[FileOf(j)][b] = j.key
  BY DEF Contains
<1>7. lines[a] = files[FileOf(j)] /\ b \in DOMAIN lines[a] /\ lines[a][b] = j.key
  BY <1>1, <1>4, <1>5, <1>6
<1> HIDE DEF lines, ks, fs
<1>8. PICK i \in DOMAIN ks : h[i] = <<a, b>>  BY <1>2, <1>7 DEF LaidOut
<1>9. ks[i] = j.key  BY <1>2, <1>7, <1>8 DEF LaidOut
<1>10. Contains(ks, j.key)  BY <1>3, <1>8, <1>9 DEF Contains
<1> QED  BY <1>10 DEF ks

(* An import that stays has its limiter, again after each start.           *)
LEMMA KeptLimitersStep ==
  ASSUME TypesInv, StepsInv, AloneInv, KeptConfigs, KeptFiles, KeptLimiters, [Next]_vars
  PROVE  KeptLimiters'
<1> USE DEF local, copies, stored, saves, history
<1> SUFFICES ASSUME NEW t \in kept' \cap Importers, up', job'[t].pool \in running',
                    FileOf(job'[t]) \notin marred', t \notin dropped'
             PROVE  Contains(live'[job'[t].pool], job'[t].key)
  BY DEF KeptLimiters, FileOf
<1>1. CASE t \in kept
  <2>1. /\ pc[t] = "done" /\ job[t] \in Asked /\ job'[t] = job[t]
        /\ HasImport(disk, job[t])
    BY <1>1, StepsStep DEF KeptConfigs
  <2> DEFINE j == job[t]
  <2>2. j.pool \in Pools /\ j.key \in Keys  BY <2>1, AskedFacts
  <2>3. FileOf(j) \notin marred
    <3>1. FileOf(job'[t]) = FileOf(j)  BY <2>1
    <3> QED  BY <3>1, MarredStays
  <2>4. CASE Start
    <3>1. Loadable(disk) /\ j.pool \in disk.pools /\ ~ up
      BY <2>1, <2>4 DEF Start
    <3>2. WritersOf(FileOf(j)) = {}
      BY <3>1 DEF StepsInv, WritersOf, Active, Tasks
    <3>3. Contains(files[FileOf(j)], j.key)
      BY <1>1, <2>3, <3>2 DEF KeptFiles, Readable
    <3>4. Contains(KeysOnDisk(j.pool), j.key)  BY <2>1, <3>1, <3>3, StartHas
    <3>5. live'[j.pool] = KeysOnDisk(j.pool)  BY <2>2, <2>4, <3>1 DEF Start
    <3> QED  BY <2>1, <3>4, <3>5
  <2>5. CASE ~ Start
    <3>1. up /\ running' = running
      <4>1. CASE up  BY <4>1, UpDown
      <4>2. CASE ~ up
        <5>0. Active = {}  BY <4>2 DEF StepsInv
        <5>1. ASSUME NEW u \in Importers, Import(u) PROVE FALSE
          BY <4>2, <5>0, <5>1 DEF Import, BeginImport, Begin, ReadSecrets, OpenSecrets, WriteSecrets,
             SetKvCache, OpenConfig, Save, AddLive, StoreImport, Fail, Active, Tasks
        <5>2. ASSUME NEW u \in Editors, BeginEdit(u) \/ StoreEdit(u) PROVE FALSE
          BY <4>2, <5>0, <5>2 DEF BeginEdit, Begin, StoreEdit, Active, Tasks
        <5> QED  BY <2>5, <4>2, <5>1, <5>2 DEF Next, Crash, vars
      <4> QED  BY <4>1, <4>2
    <3>0. dropped \subseteq dropped'
      <4>1. ASSUME NEW u \in Importers, Import(u) PROVE dropped \subseteq dropped'
        BY <4>1 DEF Import, BeginImport, Begin, ReadSecrets, OpenSecrets, WriteSecrets,
           SetKvCache, OpenConfig, Save, AddLive, StoreImport, Fail
      <4>2. ASSUME NEW u \in Editors, BeginEdit(u) \/ StoreEdit(u) PROVE dropped' = dropped
        BY <4>2 DEF BeginEdit, Begin, StoreEdit
      <4>3. ~ Crash  BY DEF Crash
      <4> QED  BY <2>5, <4>1, <4>2, <4>3 DEF Next, vars
    <3>2. Contains(live[j.pool], j.key)
      BY <1>1, <2>1, <2>3, <3>0, <3>1 DEF KeptLimiters
    <3>3. CASE live' = live  BY <2>1, <3>2, <3>3
    <3>4. ASSUME NEW u \in Importers, AddLive(u) PROVE Contains(live'[j.pool], j.key)
      <4>1. job[u] \in Asked /\ job[u].pool \in Pools /\ job[u].key \in Keys /\ live \in [Pools -> Seq(Keys)]
        BY <3>4, AskedFacts DEF AddLive, TypesInv, TypeOK, IInv, JobsInv
      <4>2. live'[j.pool] = live[j.pool] \/ live'[j.pool] = Append(live[j.pool], job[u].key)
        BY <2>2, <3>4, <4>1 DEF AddLive
      <4>3. live[j.pool] \in Seq(Keys)  BY <2>2, <4>1
      <4> HIDE DEF j
      <4>4. Contains(Append(live[j.pool], job[u].key), j.key)
        BY <3>2, <4>1, <4>3, ContainsAppend
      <4> QED  BY <3>2, <4>2, <4>4
    <3>5. live' = live \/ \E u \in Importers : AddLive(u)
      <4>1. ASSUME NEW u \in Importers, Import(u) PROVE live' = live \/ AddLive(u)
        BY <4>1 DEF Import, BeginImport, Begin, ReadSecrets, OpenSecrets, WriteSecrets,
           SetKvCache, OpenConfig, Save, StoreImport, Fail
      <4>2. ASSUME NEW u \in Editors, BeginEdit(u) \/ StoreEdit(u) PROVE live' = live
        BY <4>2 DEF BeginEdit, Begin, StoreEdit
      <4> QED  BY <2>5, <4>1, <4>2 DEF Next, Crash, vars
    <3> QED  BY <2>1, <3>3, <3>4, <3>5
  <2> QED  BY <2>4, <2>5
<1>2. CASE t \notin kept
  <2>1. t \in alone /\ StoreImport(t)
    BY <1>2, Keeps, ConfigAssumption DEF ConfigAssumption
  <2>2. /\ job' = job /\ live' = live /\ running' = running /\ dropped' = dropped
        /\ pc[t] = "store"
    BY <2>1 DEF StoreImport
  <2> QED  BY <2>1, <2>2 DEF AloneInv
<1> QED  BY <1>1, <1>2

LEMMA KeptAlways == Spec => [](TypesInv /\ StepsInv /\ KeptInv)
<1>1. Init => TypesInv /\ StepsInv /\ KeptInv
  BY InitInv, TypesInit, StepsInit, KeptInit DEF TypesInv
<1>2. TypesInv /\ StepsInv /\ KeptInv /\ [Next]_vars => (TypesInv /\ StepsInv /\ KeptInv)'
  BY StepInv, TypesStep, StepsStep, RunningStep, AloneStep, KeptEditsStep, KeptConfigsStep,
     KeptFilesStep, KeptLimitersStep DEF TypesInv, KeptInv
<1> QED  BY <1>1, <1>2, PTL DEF Spec

(* For any number of requests, files, pools and restarts: a change that    *)
(* overlapped no other one when it was made is still in effect, though     *)
(* later ones write whole copies back (mcp.rs import_key, api.rs           *)
(* handle_patch_config), but for a secret file that was caught in a write; *)
(* a key that found no room in the running pool is there from the next     *)
(* start.                                                                  *)
THEOREM ChangesStay == Spec => []AnsweredChangesStay
<1>1. TypesInv /\ KeptInv => AnsweredChangesStay
  <2> SUFFICES ASSUME KeptInv, up, NEW t \in kept, TypesInv
               PROVE  IF t \in Editors THEN t \in mem.edits ELSE ImportInEffect(t)
    BY DEF AnsweredChangesStay
  <2>1. CASE t \in Editors  BY <2>1 DEF KeptInv, KeptEdits
  <2>2. CASE t \notin Editors
    <3>1. t \in kept \cap Importers  BY <2>2 DEF TypesInv, TypeOK, Tasks
    <3>2. /\ HasImport(disk, job[t]) /\ HasImport(mem, job[t])
          /\ FileOf(job[t]) \in marred \/ Readable(FileOf(job[t]), job[t].key)
          /\ job[t].pool \in running =>
               \/ Contains(live[job[t].pool], job[t].key)
               \/ FileOf(job[t]) \in marred
               \/ t \in dropped
      BY <3>1 DEF KeptInv, KeptConfigs, KeptFiles, KeptLimiters
    <3> QED  BY <2>2, <3>2 DEF ImportInEffect, HasImport, Readable
  <2> QED  BY <2>1, <2>2
<1> QED  BY <1>1, KeptAlways, PTL
=============================================================================
