--------------------------- MODULE WorkspaceProofs ---------------------------
(***************************************************************************)
(* The three stores agree, whatever fails, comes late or dies: what the    *)
(* database says of accounts and files is so in registry and workspace,    *)
(* and nobody but the user's own jobs touches what is the user's.          *)
(***************************************************************************)
EXTENDS Workspaces, TLAPS

USE WorkspacesAssumption

(***************************************************************************)
(* Types.                                                                  *)
(***************************************************************************)
LEMMA Sets ==
  /\ Shipped \in Hashes \/ template \notin Versions
  /\ NoHashes \in Hashes
  /\ Hashes \subseteq [Files -> Contents]
  /\ NoEntry \in Entries
  BY DEF Shipped, Hashes, NoHashes, Contents, NoEntry, Entries, Versions, Absent, InTemplate

LEMMA PendingSet ==
  ASSUME TypeOK, NEW u \in Users, NEW h \in Hashes, NEW v \in 0..MaxVersion
  PROVE  [pending EXCEPT ![u] = [hashes |-> h, version |-> v]]
            \in [Users -> [hashes : Hashes, version : 0..MaxVersion]]
  BY DEF TypeOK

LEMMA RegistrySet ==
  ASSUME TypeOK, NEW u \in Users, NEW e \in Entries, Saved(u, e) \/ Unsaved(u, e)
  PROVE  registry' \in [Users -> Entries] /\ saved' \in [Users -> Entries]
<1>1. registry' = [registry EXCEPT ![u] = e] /\ (saved' = registry' \/ saved' = saved)
  BY DEF Saved, Unsaved, Registered
<1>2. registry \in [Users -> Entries] /\ saved \in [Users -> Entries]
  BY DEF TypeOK
<1>3. registry' \in [Users -> Entries]
  BY <1>1, <1>2
<1> QED
  BY <1>1, <1>2, <1>3

LEMMA EntriesMade ==
  ASSUME TypeOK, NEW u \in Users
  PROVE  /\ Entry(u) \in Entries
         /\ Recorded(u) \in Entries
         /\ \A on \in BOOLEAN : [registry[u] EXCEPT !.enabled = on] \in Entries
<1> DEFINE P == [hashes : Hashes, version : 0..MaxVersion]
<1>1. pending[u] \in P
  BY DEF TypeOK
<1>2. pending[u].hashes \in Hashes /\ pending[u].version \in 0..MaxVersion
  BY <1>1
<1>3. registry[u] \in Entries
  BY DEF TypeOK
<1>4. Entry(u) \in Entries
  BY <1>2 DEF Entry, Entries
<1>5. Recorded(u) \in Entries
  BY <1>2, <1>3 DEF Recorded, Entries
<1>6. \A on \in BOOLEAN : [registry[u] EXCEPT !.enabled = on] \in Entries
  BY <1>3 DEF Entries
<1> QED
  BY <1>4, <1>5, <1>6

LEMMA PcSets ==
  ASSUME TypeOK, NEW u \in Users
  PROVE  /\ \A pc \in ProvisionPcs : ProvisionAt(u, pc) => provision' \in [Users -> ProvisionPcs]
         /\ \A pc \in UpgradePcs : UpgradeAt(u, pc) => upgrade' \in [Users -> UpgradePcs]
<1> HIDE WorkspacesAssumption
<1> QED
  BY DEF TypeOK, ProvisionAt, UpgradeAt

LEMMA ProvisionTypes ==
  ASSUME TypeOK, NEW u \in Users, ProvisionStep(u) PROVE TypeOK'
<1> USE DEF TypeOK, webVars, jobVars, uploadVars, treeVars, diskVars, Removed
<1>1. CASE ProvisionBegin(u)
  BY <1>1 DEF ProvisionBegin, ProvisionAt, ProvisionPcs
<1>2. CASE ProvisionFill(u)
  <2>1. Shipped \in Hashes /\ Shipped \in [Files -> Contents]
    BY Sets
  <2>2. template \in 0..MaxVersion
    BY DEF Versions
  <2>3. provision' \in [Users -> ProvisionPcs]
    <3>1. ProvisionAt(u, "filled") \/ ProvisionAt(u, "error")
      BY <1>2 DEF ProvisionFill
    <3> QED
      BY <3>1, PcSets DEF ProvisionPcs
  <2>6. home' \in [Users -> BOOLEAN] /\ account' \in [Users -> BOOLEAN]
    BY <1>2 DEF ProvisionFill
  <2>4. pending' \in [Users -> [hashes : Hashes, version : 0..MaxVersion]]
    <3>1. pending' = [pending EXCEPT ![u] = [hashes |-> Shipped, version |-> template]]
          \/ pending' = pending
      BY <1>2 DEF ProvisionFill
    <3>2. [pending EXCEPT ![u] = [hashes |-> Shipped, version |-> template]]
            \in [Users -> [hashes : Hashes, version : 0..MaxVersion]]
      BY <2>1, <2>2, PendingSet
    <3> QED
      BY <3>1, <3>2
  <2>5. work' \in [Users -> [Files -> Contents]] /\ head' \in [Users -> [Files -> Contents]]
    <3>1. CASE work' = [work EXCEPT ![u] = Shipped] /\ head' = [head EXCEPT ![u] = Shipped]
      BY <2>1, <3>1
    <3>2. CASE UNCHANGED <<work, head>>
      BY <3>2
    <3> QED
      BY <1>2, <3>1, <3>2 DEF ProvisionFill
  <2> QED
    BY <1>2, <2>3, <2>4, <2>5, <2>6, SMTT(30) DEF ProvisionFill
<1>3. CASE ProvisionRegister(u)
  <2>1. registry' \in [Users -> Entries] /\ saved' \in [Users -> Entries]
    BY <1>3, EntriesMade, RegistrySet DEF ProvisionRegister
  <2>2. provision' \in [Users -> ProvisionPcs]
    <3>1. ProvisionAt(u, "ok") \/ ProvisionAt(u, "error")
      BY <1>3 DEF ProvisionRegister
    <3> QED
      BY <3>1, PcSets DEF ProvisionPcs
  <2>3. home' \in [Users -> BOOLEAN] /\ account' \in [Users -> BOOLEAN]
    BY <1>3 DEF ProvisionRegister
  <2> QED
    BY <1>3, <2>1, <2>2, <2>3 DEF ProvisionRegister
<1> QED
  BY <1>1, <1>2, <1>3 DEF ProvisionStep

LEMMA ImportTypes ==
  ASSUME TypeOK, NEW r \in Uploads, ImportStep(r) PROVE TypeOK'
<1> USE DEF TypeOK, webVars, jobVars, runnerVars, treeVars, diskVars, ImportAt, ImportPcs, Places,
        Parts, PartsOf, Imported
<1>1. CASE ImportBegin(r)
  BY <1>1 DEF ImportBegin, uploadVars
<1>2. CASE ImportMove(r)
  BY <1>2 DEF ImportMove
<1>3. CASE ImportCommit(r)
  BY <1>3 DEF ImportCommit
<1>4. CASE ImportUndo(r)
  BY <1>4 DEF ImportUndo
<1> QED
  BY <1>1, <1>2, <1>3, <1>4 DEF ImportStep

LEMMA CommitTypes ==
  ASSUME TypeOK, NEW u \in Users, CommitAll(u)
  PROVE  /\ head' \in [Users -> [Files -> Contents]]
         /\ report' \in [Users -> BOOLEAN]
         /\ committed' \in [Uploads -> SUBSET Parts]
  BY DEF TypeOK, CommitAll, Imported, PartsOf, Parts

LEMMA UpgradeTypes ==
  ASSUME TypeOK, NEW u \in Users, UpgradeStep(u) PROVE TypeOK'
<1> USE DEF TypeOK, webVars, jobVars, uploadVars, treeVars, diskVars
<1>1. CASE UpgradeBegin(u) \/ UpgradeStatus(u)
  BY <1>1 DEF UpgradeBegin, UpgradeStatus, UpgradeAt, UpgradePcs
<1>2. CASE UpgradeCopy(u)
  <2>1. registry[u] \in Entries
    OBVIOUS
  <2>2. registry[u].hashes \in Hashes
    BY <2>1 DEF Entries
  <2>3. template \in 0..MaxVersion /\ template \in Contents
    BY DEF Versions, Contents
  <2>4. Carried(u) \in Hashes
    BY <2>2 DEF Carried, Hashes
  <2>5. ASSUME NEW S, Copied(u, S) PROVE work' \in [Users -> [Files -> Contents]]
    <3>1. [f \in Files |-> IF f \in S THEN template ELSE work[u][f]] \in [Files -> Contents]
      BY <2>3
    <3> QED
      BY <2>5, <3>1 DEF Copied
  <2>6. work' \in [Users -> [Files -> Contents]]
    BY <1>2, <2>5 DEF UpgradeCopy
  <2>7. pending' \in [Users -> [hashes : Hashes, version : 0..MaxVersion]]
    <3>1. pending' = [pending EXCEPT ![u] = [hashes |-> Carried(u), version |-> template]]
          \/ pending' = pending
      BY <1>2 DEF UpgradeCopy
    <3>2. [pending EXCEPT ![u] = [hashes |-> Carried(u), version |-> template]]
            \in [Users -> [hashes : Hashes, version : 0..MaxVersion]]
      BY <2>3, <2>4, PendingSet
    <3> QED
      BY <3>1, <3>2
  <2> QED
    BY <1>2, <2>6, <2>7 DEF UpgradeCopy, UpgradeAt, UpgradePcs
<1>3. CASE UpgradeCommit(u)
  BY <1>3, CommitTypes DEF UpgradeCommit, UpgradeAt, UpgradePcs
<1>4. CASE UpgradeSave(u)
  <2>1. registry' \in [Users -> Entries] /\ saved' \in [Users -> Entries]
    BY <1>4, EntriesMade, RegistrySet DEF UpgradeSave
  <2>2. upgrade' \in [Users -> UpgradePcs]
    <3>1. UpgradeAt(u, "ok") \/ UpgradeAt(u, "error")
      BY <1>4 DEF UpgradeSave
    <3> QED
      BY <3>1, PcSets DEF UpgradePcs
  <2> QED
    BY <1>4, <2>1, <2>2 DEF UpgradeSave
<1> QED
  BY <1>1, <1>2, <1>3, <1>4 DEF UpgradeStep

LEMMA WebTypes ==
  ASSUME TypeOK, NEW u \in Users,
         Create(u) \/ CreateReply(u) \/ Upgrade(u) \/ UpgradeReply(u) \/ GiveUp(u)
  PROVE  TypeOK'
<1> USE DEF TypeOK, jobVars, diskVars, treeVars, uploadVars, runnerVars
<1>1. CASE Create(u)
  BY <1>1 DEF Create, ProvisionPcs
<1>4. CASE Upgrade(u)
  BY <1>4 DEF Upgrade, UpgradePcs
<1>3. CASE CreateReply(u) \/ UpgradeReply(u)
  <2>1. pending[u] \in [hashes : Hashes, version : 0..MaxVersion]
    OBVIOUS
  <2>2. pending[u].version \in 0..MaxVersion
    BY <2>1
  <2>3. version' \in [Users -> 0..MaxVersion]
    BY <1>3, <2>2 DEF CreateReply, UpgradeReply
  <2> QED
    BY <1>3, <2>3 DEF CreateReply, UpgradeReply
<1>2. CASE GiveUp(u)
  BY <1>2 DEF GiveUp, Unlinked, Places
<1> QED
  BY <1>1, <1>2, <1>3, <1>4

LEMMA UploadTypes ==
  ASSUME TypeOK, NEW r \in Uploads, Upload(r) \/ UploadReply(r) PROVE TypeOK'
<1> USE DEF TypeOK, jobVars, treeVars, uploadVars, runnerVars
<1>1. Uploader[r] \in Users
  OBVIOUS
<1>2. CASE Upload(r)
  <2>1. place' \in [Uploads -> [Parts -> Places]]
    BY <1>2 DEF Upload, Places
  <2> QED
    BY <1>1, <1>2, <2>1 DEF Upload, ImportPcs, diskVars
<1>3. CASE UploadReply(r)
  <2>1. Unlinked(r) \in [Parts -> Places]
    BY DEF Unlinked, Places
  <2>2. place' \in [Uploads -> [Parts -> Places]]
    BY <1>3, <2>1 DEF UploadReply
  <2> QED
    BY <1>1, <1>3, <2>2 DEF UploadReply
<1> QED
  BY <1>2, <1>3

LEMMA JobTypes ==
  ASSUME TypeOK, NEW u \in Users, JobStep(u) PROVE TypeOK'
<1> USE DEF TypeOK, webVars, jobVars, diskVars, treeVars, uploadVars, runnerVars
<1>1. CASE JobBegins(u) \/ JobEnds(u) \/ UnitBegins(u) \/ UnitEnds(u)
  BY <1>1 DEF JobBegins, JobEnds, UnitBegins, UnitEnds
<1>2. CASE UnitWrites(u)
  BY <1>2 DEF UnitWrites, Contents
<1>3. CASE UnitCommits(u)
  BY <1>3, CommitTypes DEF UnitCommits
<1> QED
  BY <1>1, <1>2, <1>3 DEF JobStep, UnitActs

LEMMA OtherTypes ==
  ASSUME TypeOK,
         (\E u \in Users, on \in BOOLEAN : Switch(u, on)) \/ WebCrash \/ RunnerCrash \/ Deploy
  PROVE  TypeOK'
<1> USE DEF TypeOK, diskVars, treeVars, uploadVars, webVars, jobVars, runnerVars
<1>1. ASSUME NEW u \in Users, NEW on \in BOOLEAN, Switch(u, on) PROVE TypeOK'
  <2>1. registry' \in [Users -> Entries] /\ saved' \in [Users -> Entries]
    BY <1>1, EntriesMade, RegistrySet DEF Switch, Switched
  <2> QED
    BY <1>1, <2>1 DEF Switch, Switched
<1>2. CASE WebCrash
  BY <1>2 DEF WebCrash
<1>3. CASE RunnerCrash
  BY <1>3 DEF RunnerCrash, ProvisionPcs, UpgradePcs, ImportPcs
<1>4. CASE Deploy
  BY <1>4 DEF Deploy, Versions
<1> QED
  BY <1>1, <1>2, <1>3, <1>4

\* The state of the workspaces keeps its shape.
THEOREM TypeCorrect == Spec => []TypeOK
<1>1. Init => TypeOK
  <2>1. NoHashes \in Hashes /\ NoHashes \in [Files -> Contents] /\ NoEntry \in Entries
    BY Sets
  <2> QED
    BY <2>1 DEF Init, TypeOK, ProvisionPcs, UpgradePcs, ImportPcs, Places, Versions, Parts
<1>2. TypeOK /\ [Next]_vars => TypeOK'
  <2> SUFFICES ASSUME TypeOK, [Next]_vars PROVE TypeOK'
    OBVIOUS
  <2>1. CASE Next
    BY <2>1, ProvisionTypes, ImportTypes, UpgradeTypes, WebTypes, UploadTypes, JobTypes,
       OtherTypes DEF Next
  <2>2. CASE UNCHANGED vars
    BY <2>2 DEF TypeOK, vars, webVars, jobVars, runnerVars, diskVars, treeVars, uploadVars
  <2> QED
    BY <2>1, <2>2
<1> QED
  BY <1>1, <1>2, PTL DEF Spec

(***************************************************************************)
(* Accounts.  A row of the database needs an answer, an answer a save, and *)
(* a save what was made before it; and versions only grow on the way from  *)
(* the template over the registry's memory and its file to the database.   *)
(***************************************************************************)
Opened(u) ==
    /\ awaited[u] = "provision" => version[u] = 0
    /\ version[u] # 0 => provision[u] = "ok"
    /\ version[u] = 0 => upgrade[u] = "none"
    /\ provision[u] \in {"filled", "ok"} => pending[u].version # 0
    /\ provision[u] = "filled" => account[u] /\ home[u]
    /\ provision[u] = "made" => account[u]
    /\ provision[u] = "ok" => account[u] /\ home[u] /\ saved[u].known
    /\ saved[u].known => registry[u].known

Ordered(u) ==
    /\ provision[u] \in {"none", "sent", "made", "filled"} => registry[u].version = 0
    /\ saved[u].version <= registry[u].version
    /\ registry[u].version <= template /\ pending[u].version <= template
    /\ upgrade[u] \in {"copied", "committed"} => registry[u].version <= pending[u].version
    /\ upgrade[u] = "ok" => pending[u].version <= saved[u].version
    /\ provision[u] = "ok" /\ version[u] = 0 => pending[u].version <= saved[u].version
    /\ version[u] <= saved[u].version

Backed == \A u \in Users : Opened(u) /\ Ordered(u)

LEMMA Fields ==
  ASSUME TypeOK, NEW u \in Users
  PROVE  /\ Entry(u).known /\ Entry(u).version = pending[u].version
         /\ Recorded(u).known = registry[u].known
         /\ Recorded(u).enabled = registry[u].enabled
         /\ Recorded(u).version = pending[u].version
         /\ \A on \in BOOLEAN : /\ [registry[u] EXCEPT !.enabled = on].known = registry[u].known
                                /\ [registry[u] EXCEPT !.enabled = on].version = registry[u].version
<1>1. registry[u] \in Entries
  BY DEF TypeOK
<1> QED
  BY <1>1 DEF Entries, Entry, Recorded

LEMMA Numbers ==
  ASSUME TypeOK, NEW u \in Users
  PROVE  /\ template \in Nat \ {0} /\ version[u] \in Nat
         /\ registry[u].version \in Nat /\ saved[u].version \in Nat
         /\ pending[u].version \in Nat
<1>1. registry[u] \in Entries /\ saved[u] \in Entries
      /\ pending[u] \in [hashes : Hashes, version : 0..MaxVersion]
  BY DEF TypeOK
<1>2. registry[u].version \in 0..MaxVersion /\ saved[u].version \in 0..MaxVersion
      /\ pending[u].version \in 0..MaxVersion
  BY <1>1 DEF Entries
<1> QED
  BY <1>2 DEF TypeOK, Versions

\* A save leaves every entry on the disk at least as new as it was.
LEMMA SaveKeeps ==
  ASSUME TypeOK, Backed, NEW u \in Users, NEW e, Saved(u, e) \/ Unsaved(u, e),
         registry[u].known => e.known, e.version \in Nat, registry[u].version <= e.version
  PROVE  \A w \in Users :
           /\ saved[w].known => saved'[w].known
           /\ saved'[w].known => registry'[w].known
           /\ saved[w].version <= saved'[w].version
           /\ saved'[w].version <= registry'[w].version
           /\ registry'[w] = IF w = u THEN e ELSE registry[w]
           /\ saved'[w].version \in Nat
<1>1. registry' = [registry EXCEPT ![u] = e] /\ (saved' = registry' \/ saved' = saved)
  BY DEF Saved, Unsaved, Registered
<1>2. \A w \in Users : registry'[w] = IF w = u THEN e ELSE registry[w]
  BY <1>1 DEF TypeOK
<1> SUFFICES ASSUME NEW w \in Users
    PROVE  /\ saved[w].known => saved'[w].known
           /\ saved'[w].known => registry'[w].known
           /\ saved[w].version <= saved'[w].version
           /\ saved'[w].version <= registry'[w].version
           /\ saved'[w].version \in Nat
  BY <1>2
<1>4. /\ saved[w].known => registry[w].known
      /\ saved[w].version <= registry[w].version
      /\ saved[w].version \in Nat /\ registry[w].version \in Nat
  BY Numbers DEF Backed, Opened, Ordered
<1>5. registry[w].known => registry'[w].known
  BY <1>2
<1>6. registry[w].version <= registry'[w].version /\ registry'[w].version \in Nat
  BY <1>2, <1>4
<1>7. CASE saved' = registry'
  BY <1>4, <1>5, <1>6, <1>7
<1>8. CASE saved' = saved
  BY <1>4, <1>5, <1>6, <1>8
<1> QED
  BY <1>1, <1>7, <1>8

\* What neither the stores nor the two handlers are touched by.
LEMMA BackedStays ==
  ASSUME Backed, UNCHANGED <<template, version, provision, upgrade, pending, registry, saved,
                             account, home>>,
         \A u \in Users : awaited'[u] = "provision" => awaited[u] = "provision"
  PROVE  Backed'
  BY DEF Backed, Opened, Ordered

LEMMA BackedWeb ==
  ASSUME TypeOK, Backed, NEW u \in Users,
         Create(u) \/ CreateReply(u) \/ Upgrade(u) \/ UpgradeReply(u) \/ GiveUp(u)
  PROVE  Backed'
<1> SUFFICES ASSUME NEW w \in Users PROVE Opened(w)' /\ Ordered(w)'
  BY DEF Backed
<1>1. Opened(w) /\ Ordered(w) /\ Opened(u) /\ Ordered(u)
  BY DEF Backed
<1> USE DEF TypeOK, diskVars, runnerVars, treeVars, uploadVars
<1>2. CASE Create(u)
  BY <1>1, <1>2, Numbers DEF Create, Opened, Ordered
<1>3. CASE CreateReply(u)
  BY <1>1, <1>3, Numbers DEF CreateReply, Opened, Ordered
<1>4. CASE Upgrade(u)
  BY <1>1, <1>4, Numbers DEF Upgrade, Opened, Ordered
<1>5. CASE UpgradeReply(u)
  BY <1>1, <1>5, Numbers DEF UpgradeReply, Opened, Ordered
<1>6. CASE GiveUp(u)
  BY <1>1, <1>6 DEF GiveUp, Opened, Ordered
<1> QED
  BY <1>2, <1>3, <1>4, <1>5, <1>6

LEMMA BackedProvision ==
  ASSUME TypeOK, Backed, NEW u \in Users, ProvisionStep(u) PROVE Backed'
<1> SUFFICES ASSUME NEW w \in Users PROVE Opened(w)' /\ Ordered(w)'
  BY DEF Backed
<1>1. Opened(w) /\ Ordered(w) /\ Opened(u) /\ Ordered(u)
  BY DEF Backed
<1>2. CASE ProvisionBegin(u)
  BY <1>1, <1>2 DEF ProvisionBegin, ProvisionAt, Opened, Ordered, TypeOK, webVars, jobVars
<1>3. CASE ProvisionFill(u)
  BY <1>1, <1>3, Numbers
     DEF ProvisionFill, ProvisionAt, Removed, Opened, Ordered, TypeOK, webVars, jobVars
<1>4. CASE ProvisionRegister(u)
  <2>1. registry[u].version = 0 /\ pending[u].version \in Nat /\ Entry(u).known
        /\ Entry(u).version = pending[u].version
    BY <1>1, <1>4, Fields, Numbers DEF ProvisionRegister, Ordered
  <2>2. Saved(u, Entry(u)) \/ Unsaved(u, Entry(u))
    BY <1>4 DEF ProvisionRegister
  <2>3. /\ saved[w].known => saved'[w].known
        /\ saved'[w].known => registry'[w].known
        /\ saved[w].version <= saved'[w].version
        /\ saved'[w].version <= registry'[w].version
        /\ registry'[w] = IF w = u THEN Entry(u) ELSE registry[w]
        /\ saved'[w].version \in Nat
    BY <2>1, <2>2, SaveKeeps
  <2> QED
    BY <1>1, <1>4, <2>1, <2>3, Numbers
       DEF ProvisionRegister, ProvisionAt, Removed, Opened, Ordered, TypeOK, webVars, jobVars, Saved
<1> QED
  BY <1>2, <1>3, <1>4 DEF ProvisionStep

LEMMA BackedUpgrade ==
  ASSUME TypeOK, Backed, NEW u \in Users, UpgradeStep(u) PROVE Backed'
<1> SUFFICES ASSUME NEW w \in Users PROVE Opened(w)' /\ Ordered(w)'
  BY DEF Backed
<1>1. Opened(w) /\ Ordered(w) /\ Opened(u) /\ Ordered(u)
  BY DEF Backed
<1>2. CASE UpgradeBegin(u)
  BY <1>1, <1>2 DEF UpgradeBegin, UpgradeAt, Opened, Ordered, TypeOK, webVars, jobVars, diskVars
<1>3. CASE UpgradeStatus(u)
  BY <1>1, <1>3 DEF UpgradeStatus, UpgradeAt, Opened, Ordered, TypeOK, webVars, jobVars, diskVars
<1>4. CASE UpgradeCopy(u)
  BY <1>1, <1>4, Numbers DEF UpgradeCopy, UpgradeAt, Opened, Ordered, TypeOK, webVars, jobVars
<1>5. CASE UpgradeCommit(u)
  BY <1>1, <1>5 DEF UpgradeCommit, UpgradeAt, Opened, Ordered, TypeOK, webVars, jobVars
<1>6. CASE UpgradeSave(u)
  <2>1. registry[u].version <= pending[u].version /\ pending[u].version \in Nat
        /\ Recorded(u).known = registry[u].known /\ Recorded(u).version = pending[u].version
    BY <1>1, <1>6, Fields, Numbers DEF UpgradeSave, Ordered
  <2>2. Saved(u, Recorded(u)) \/ Unsaved(u, Recorded(u))
    BY <1>6 DEF UpgradeSave
  <2>3. /\ saved[w].known => saved'[w].known
        /\ saved'[w].known => registry'[w].known
        /\ saved[w].version <= saved'[w].version
        /\ saved'[w].version <= registry'[w].version
        /\ registry'[w] = IF w = u THEN Recorded(u) ELSE registry[w]
        /\ saved'[w].version \in Nat
    BY <2>1, <2>2, SaveKeeps
  <2>4. version[u] # 0 /\ provision[u] = "ok"
    BY <1>1, <1>6 DEF UpgradeSave, Opened
  <2> QED
    BY <1>1, <1>6, <2>1, <2>3, <2>4, Numbers
       DEF UpgradeSave, UpgradeAt, Opened, Ordered, TypeOK, webVars, jobVars, diskVars, Saved
<1> QED
  BY <1>2, <1>3, <1>4, <1>5, <1>6 DEF UpgradeStep

LEMMA BackedOther ==
  ASSUME TypeOK, Backed,
         (\E u \in Users, on \in BOOLEAN : Switch(u, on)) \/ WebCrash \/ RunnerCrash \/ Deploy
  PROVE  Backed'
<1>1. ASSUME NEW u \in Users, NEW on \in BOOLEAN, Switch(u, on) PROVE Backed'
  <2> SUFFICES ASSUME NEW w \in Users PROVE Opened(w)' /\ Ordered(w)'
    BY DEF Backed
  <2> DEFINE e == [registry[u] EXCEPT !.enabled = on]
  <2>1. e.known = registry[u].known /\ e.version = registry[u].version
    BY Fields
  <2>2. Saved(u, e) \/ Unsaved(u, e)
    BY <1>1 DEF Switch, Switched
  <2>3. e.version \in Nat /\ registry[u].version <= e.version
    BY <2>1, Numbers
  <2> HIDE DEF e
  <2>4. /\ saved[w].known => saved'[w].known
        /\ saved'[w].known => registry'[w].known
        /\ saved[w].version <= saved'[w].version
        /\ saved'[w].version <= registry'[w].version
        /\ registry'[w] = IF w = u THEN e ELSE registry[w]
        /\ saved'[w].version \in Nat
    BY <2>1, <2>2, <2>3, SaveKeeps
  <2>5. registry'[w].version = registry[w].version
    BY <2>1, <2>4
  <2>6. Opened(w) /\ Ordered(w)
    BY DEF Backed
  <2> QED
    BY <1>1, <2>4, <2>5, <2>6, Numbers DEF Switch, Switched, Opened, Ordered, diskVars
<1>2. CASE WebCrash
  BY <1>2, BackedStays DEF WebCrash, diskVars, runnerVars
<1>3. CASE RunnerCrash
  <2> SUFFICES ASSUME NEW w \in Users PROVE Opened(w)' /\ Ordered(w)'
    BY DEF Backed
  <2>1. Opened(w) /\ Ordered(w)
    BY DEF Backed
  <2>2. /\ UNCHANGED <<template, version, awaited, pending, saved, account, home>>
        /\ registry' = saved
    BY <1>3 DEF RunnerCrash, diskVars
  <2>3. provision'[w] = IF provision[w] \in {"sent", "made", "filled"} THEN "error"
                                                                   ELSE provision[w]
    BY <1>3 DEF RunnerCrash
  <2>4. upgrade'[w] = IF upgrade[w] \in Upgrading \union {"sent"} THEN "error" ELSE upgrade[w]
    BY <1>3 DEF RunnerCrash
  <2>5. Opened(w)'
    BY <2>1, <2>2, <2>3, <2>4 DEF Opened, Upgrading
  <2>6. Ordered(w)'
    BY <2>1, <2>2, <2>3, <2>4, Numbers DEF Ordered, Upgrading
  <2> QED
    BY <2>5, <2>6
<1>4. CASE Deploy
  BY <1>4, Numbers DEF Deploy, Backed, Opened, Ordered, diskVars, runnerVars, webVars, jobVars
<1> QED
  BY <1>1, <1>2, <1>3, <1>4

LEMMA BackedBeside ==
  ASSUME TypeOK, Backed,
         \/ \E r \in Uploads : Upload(r) \/ UploadReply(r) \/ ImportStep(r)
         \/ \E u \in Users : JobStep(u)
  PROVE  Backed'
<1> USE DEF TypeOK, webVars, jobVars, diskVars, treeVars, uploadVars, runnerVars
<1>1. ASSUME NEW r \in Uploads, Upload(r) \/ UploadReply(r) PROVE Backed'
  <2>1. r # "provision" /\ Uploader[r] \in Users
    OBVIOUS
  <2> QED
    BY <1>1, <2>1, BackedStays DEF Upload, UploadReply
<1>2. ASSUME NEW r \in Uploads, ImportStep(r) PROVE Backed'
  BY <1>2, BackedStays DEF ImportStep, ImportBegin, ImportMove, ImportCommit, ImportUndo
<1>3. ASSUME NEW u \in Users, JobStep(u) PROVE Backed'
  BY <1>3, BackedStays DEF JobStep, JobBegins, JobEnds, UnitBegins, UnitActs,
     UnitWrites, UnitCommits, UnitEnds
<1> QED
  BY <1>1, <1>2, <1>3

LEMMA BackedInvariant == Spec => []Backed
<1>1. Init => Backed
  BY DEF Init, Backed, Opened, Ordered, NoEntry
<1>2. TypeOK /\ Backed /\ [Next]_vars => Backed'
  <2> SUFFICES ASSUME TypeOK, Backed, [Next]_vars PROVE Backed'
    OBVIOUS
  <2>1. CASE Next
    BY <2>1, BackedWeb, BackedProvision, BackedUpgrade, BackedOther, BackedBeside DEF Next
  <2>2. CASE UNCHANGED vars
    BY <2>2, BackedStays DEF vars, webVars, jobVars, runnerVars, diskVars
  <2> QED
    BY <2>1, <2>2
<1> QED
  BY <1>1, <1>2, TypeCorrect, PTL DEF Spec

\* Whatever fails, is late or dies: a user in the database has an account, a
\* workspace and an entry in registry.json that is as new as the row.
THEOREM AccountsAreBacked == Spec => []AccountIsBacked
<1>1. Backed => AccountIsBacked
  BY DEF Backed, Opened, Ordered, AccountIsBacked
<1> QED
  BY <1>1, BackedInvariant, PTL

(***************************************************************************)
(* Uploads.  A row needs the answer "ok", which follows the commit; after  *)
(* it nothing moves the parts, and every later commit keeps them.          *)
(***************************************************************************)
Whole(r) == Imported(r) = PartsOf(r) /\ committed[r] = PartsOf(r)
Stored ==
    /\ \A r \in records : import[r] = "ok"
    /\ \A r \in Uploads : import[r] = "ok" => Whole(r)

LEMMA StoredStays ==
  ASSUME TypeOK, Stored, records' = records, UNCHANGED <<import, place>>,
         UNCHANGED committed \/ \E u \in Users : CommitAll(u)
  PROVE  Stored'
<1> SUFFICES ASSUME NEW r \in Uploads, import[r] = "ok" PROVE Whole(r)'
  BY DEF Stored
<1>1. Imported(r)' = Imported(r) /\ Whole(r)
  BY DEF Stored, Imported
<1>2. committed'[r] \in {committed[r], Imported(r)}
  BY DEF CommitAll
<1> QED
  BY <1>1, <1>2 DEF Whole

\* Staged files that are unlinked, and moves of one upload, leave the others.
LEMMA StoredMoved ==
  ASSUME TypeOK, Stored, NEW r \in Uploads, import[r] # "ok",
         \A s \in Uploads \ {r} : place'[s] = place[s] /\ committed'[s] = committed[s]
                                  /\ import'[s] = import[s],
         records' = records, import'[r] = "ok" => Whole(r)'
  PROVE  Stored'
<1>1. ASSUME NEW s \in Uploads, import'[s] = "ok" PROVE Whole(s)'
  <2>1. CASE s # r
    BY <1>1, <2>1 DEF Stored, Whole, Imported
  <2> QED
    BY <1>1, <2>1
<1>2. ASSUME NEW s \in records PROVE import'[s] = "ok"
  <2>1. s \in Uploads /\ s # r
    BY <1>2 DEF Stored, TypeOK
  <2> QED
    BY <1>2, <2>1 DEF Stored
<1> QED
  BY <1>1, <1>2 DEF Stored

LEMMA StoredUploads ==
  ASSUME TypeOK, Stored, NEW r \in Uploads, Upload(r) \/ UploadReply(r) \/ ImportStep(r)
  PROVE  Stored'
<1> USE DEF TypeOK
<1>1. CASE Upload(r)
  <2>1. import[r] # "ok" /\ import'[r] # "ok"
    BY <1>1 DEF Upload
  <2> QED
    BY <1>1, <2>1, StoredMoved DEF Upload
<1>2. CASE UploadReply(r)
  <2>1. CASE import[r] = "ok"
    BY <1>2, <2>1 DEF UploadReply, Stored, runnerVars, Whole, Imported
  <2>2. CASE import[r] # "ok"
    BY <1>2, <2>2, StoredMoved DEF UploadReply, runnerVars
  <2> QED
    BY <2>1, <2>2
<1>3. CASE ImportBegin(r) \/ ImportMove(r) \/ ImportUndo(r)
  BY <1>3, StoredMoved
     DEF ImportBegin, ImportMove, ImportUndo, ImportAt, webVars, jobVars, diskVars, runnerVars,
         uploadVars
<1>4. CASE ImportCommit(r)
  <2>1. Whole(r)' /\ import[r] # "ok"
    BY <1>4 DEF ImportCommit, Whole, Imported
  <2> QED
    BY <1>4, <2>1, StoredMoved DEF ImportCommit, ImportAt, webVars, jobVars
<1> QED
  BY <1>1, <1>2, <1>3, <1>4 DEF ImportStep

LEMMA StoredGivenUp ==
  ASSUME TypeOK, Stored, NEW u \in Users, GiveUp(u) PROVE Stored'
<1>1. UNCHANGED <<records, import, committed>>
  BY DEF GiveUp, runnerVars
<1> SUFFICES ASSUME NEW r \in Uploads, import[r] = "ok" PROVE Whole(r)'
  BY <1>1 DEF Stored
<1>2. \A p \in Parts : (place'[r][p] = "workspace") <=> (place[r][p] = "workspace")
  BY DEF GiveUp, Unlinked, TypeOK
<1>3. Imported(r)' = Imported(r)
  BY <1>2 DEF Imported, PartsOf, Parts
<1> QED
  BY <1>1, <1>3 DEF Stored, Whole

LEMMA StoredOther ==
  ASSUME TypeOK, Stored,
         \/ \E u \in Users : \/ Create(u) \/ CreateReply(u) \/ Upgrade(u) \/ UpgradeReply(u)
                             \/ JobStep(u) \/ ProvisionStep(u) \/ UpgradeStep(u)
         \/ \E u \in Users, on \in BOOLEAN : Switch(u, on)
         \/ WebCrash \/ RunnerCrash \/ Deploy
  PROVE  Stored'
<1> USE DEF webVars, jobVars, runnerVars, diskVars, treeVars, uploadVars
<1>1. ASSUME NEW u \in Users,
             Create(u) \/ CreateReply(u) \/ Upgrade(u) \/ UpgradeReply(u) PROVE Stored'
  BY <1>1, StoredStays DEF Create, CreateReply, Upgrade, UpgradeReply
<1>2. ASSUME NEW u \in Users, JobStep(u) PROVE Stored'
  BY <1>2, StoredStays DEF JobStep, JobBegins, JobEnds, UnitBegins, UnitActs,
     UnitWrites, UnitCommits, UnitEnds
<1>3. ASSUME NEW u \in Users, ProvisionStep(u) PROVE Stored'
  BY <1>3, StoredStays DEF ProvisionStep, ProvisionBegin, ProvisionFill, ProvisionRegister
<1>4. ASSUME NEW u \in Users, UpgradeStep(u) PROVE Stored'
  BY <1>4, StoredStays
     DEF UpgradeStep, UpgradeBegin, UpgradeStatus, UpgradeCopy, UpgradeCommit, UpgradeSave
<1>5. ASSUME NEW u \in Users, NEW on \in BOOLEAN, Switch(u, on) PROVE Stored'
  BY <1>5, StoredStays DEF Switch, Switched
<1>6. CASE WebCrash \/ Deploy
  BY <1>6, StoredStays DEF WebCrash, Deploy
<1>7. CASE RunnerCrash
  BY <1>7 DEF RunnerCrash, Stored, Whole, Imported, TypeOK
<1> QED
  BY <1>1, <1>2, <1>3, <1>4, <1>5, <1>6, <1>7

\* A row in files has its file and its text, committed, in the workspace.
THEOREM RecordedStaysStored == Spec => []RecordedIsStored
<1>1. Init => Stored
  BY DEF Init, Stored
<1>2. TypeOK /\ Stored /\ [Next]_vars => Stored'
  <2> SUFFICES ASSUME TypeOK, Stored, [Next]_vars PROVE Stored'
    OBVIOUS
  <2>1. CASE Next
    BY <2>1, StoredUploads, StoredGivenUp, StoredOther DEF Next
  <2>2. CASE UNCHANGED vars
    BY <2>2, StoredStays DEF vars, webVars, jobVars, runnerVars, diskVars, uploadVars
  <2> QED
    BY <2>1, <2>2
<1>3. TypeOK /\ Stored => RecordedIsStored
  BY DEF Stored, Whole, RecordedIsStored, TypeOK
<1> QED
  BY <1>1, <1>2, <1>3, TypeCorrect, PTL DEF Spec

(***************************************************************************)
(* Working trees.  Who writes to them, and what holds while an upgrade is  *)
(* at work on one.                                                         *)
(***************************************************************************)
LEMMA Writers ==
  ASSUME TypeOK, [Next]_vars, NEW u \in Users
  PROVE  /\ UNCHANGED work[u] \/ UnitWrites(u) \/ ProvisionFill(u) \/ UpgradeCopy(u)
         /\ \/ UNCHANGED <<head[u], report[u]>>
            \/ UnitCommits(u) \/ ProvisionFill(u) \/ UpgradeCopy(u) \/ UpgradeCommit(u)
<1> USE DEF TypeOK, webVars, jobVars, runnerVars, diskVars, treeVars, uploadVars
<1>1. ASSUME NEW w \in Users,
             Create(w) \/ CreateReply(w) \/ Upgrade(w) \/ UpgradeReply(w) \/ GiveUp(w)
      PROVE  UNCHANGED treeVars
  BY <1>1 DEF Create, CreateReply, Upgrade, UpgradeReply, GiveUp
<1>2. ASSUME NEW w \in Users, JobStep(w)
      PROVE  /\ UNCHANGED work[u] \/ UnitWrites(u)
             /\ UNCHANGED <<head[u], report[u]>> \/ UnitCommits(u)
  <2>1. CASE UnitWrites(w)
    BY <2>1 DEF UnitWrites
  <2>2. CASE UnitCommits(w)
    BY <2>2 DEF UnitCommits, CommitAll
  <2> QED
    BY <1>2, <2>1, <2>2 DEF JobStep, JobBegins, JobEnds, UnitBegins, UnitActs, UnitEnds
<1>3. ASSUME NEW w \in Users, ProvisionStep(w)
      PROVE  UNCHANGED <<work[u], head[u], report[u]>> \/ ProvisionFill(u)
  <2>1. CASE ProvisionFill(w)
    BY <2>1 DEF ProvisionFill
  <2> QED
    BY <1>3, <2>1 DEF ProvisionStep, ProvisionBegin, ProvisionRegister
<1>4. ASSUME NEW w \in Users, UpgradeStep(w)
      PROVE  \/ UNCHANGED <<work[u], head[u], report[u]>>
             \/ UpgradeCopy(u) \/ (UpgradeCommit(u) /\ UNCHANGED work[u])
  <2>1. CASE UpgradeCopy(w)
    <3>1. PICK S : Copied(w, S)
      BY <2>1 DEF UpgradeCopy
    <3>2. u # w => UNCHANGED <<work[u], head[u], report[u]>>
      BY <2>1, <3>1 DEF Copied, UpgradeCopy
    <3> QED
      BY <2>1, <3>2
  <2>2. CASE UpgradeCommit(w)
    <3>1. UNCHANGED work /\ (u # w => head'[u] = head[u] /\ report'[u] = report[u])
      BY <2>2 DEF UpgradeCommit, CommitAll
    <3> QED
      BY <2>2, <3>1
  <2> QED
    BY <1>4, <2>1, <2>2 DEF UpgradeStep, UpgradeBegin, UpgradeStatus, UpgradeSave
<1>5. ASSUME NEW r \in Uploads, Upload(r) \/ UploadReply(r) \/ ImportStep(r)
      PROVE  UNCHANGED treeVars
  BY <1>5 DEF Upload, UploadReply, ImportStep, ImportBegin, ImportMove, ImportCommit, ImportUndo
<1>6. ASSUME NEW w \in Users, NEW on \in BOOLEAN, Switch(w, on) PROVE UNCHANGED treeVars
  BY <1>6 DEF Switch, Switched
<1>7. ASSUME WebCrash \/ RunnerCrash \/ Deploy \/ UNCHANGED vars PROVE UNCHANGED treeVars
  BY <1>7 DEF WebCrash, RunnerCrash, Deploy, vars
<1> QED
  BY <1>1, <1>2, <1>3, <1>4, <1>5, <1>6, <1>7 DEF Next

\* There is no workspace before _provision has made it.
Early == {"none", "sent", "made"}
Homeless == \A u \in Users : provision[u] \in Early => ~home[u]

LEMMA HomelessStep ==
  ASSUME TypeOK, Homeless, [Next]_vars PROVE Homeless'
<1> SUFFICES ASSUME NEW u \in Users, provision'[u] \in Early PROVE ~home'[u]
  BY DEF Homeless
<1> USE DEF TypeOK, webVars, jobVars, runnerVars, diskVars, treeVars, uploadVars, Homeless, Early
<1>1. ASSUME NEW w \in Users,
             CreateReply(w) \/ Upgrade(w) \/ UpgradeReply(w) \/ GiveUp(w)
      PROVE  ~home'[u]
  BY <1>1 DEF CreateReply, Upgrade, UpgradeReply, GiveUp
<1>2. ASSUME NEW w \in Users, Create(w) PROVE ~home'[u]
  BY <1>2 DEF Create
<1>3. ASSUME NEW w \in Users, ProvisionStep(w) PROVE ~home'[u]
  BY <1>3 DEF ProvisionStep, ProvisionBegin, ProvisionFill, ProvisionRegister, ProvisionAt, Removed
<1>4. ASSUME NEW w \in Users, JobStep(w) \/ UpgradeStep(w) PROVE ~home'[u]
  BY <1>4 DEF JobStep, JobBegins, JobEnds, UnitBegins, UnitActs, UnitWrites, UnitCommits,
     UnitEnds, UpgradeStep, UpgradeBegin, UpgradeStatus, UpgradeCopy, UpgradeCommit, UpgradeSave
<1>5. ASSUME NEW r \in Uploads, Upload(r) \/ UploadReply(r) \/ ImportStep(r) PROVE ~home'[u]
  BY <1>5 DEF Upload, UploadReply, ImportStep, ImportBegin, ImportMove, ImportCommit, ImportUndo
<1>6. ASSUME NEW w \in Users, NEW on \in BOOLEAN, Switch(w, on) PROVE ~home'[u]
  BY <1>6 DEF Switch, Switched
<1>7. CASE WebCrash \/ RunnerCrash \/ Deploy \/ UNCHANGED vars
  BY <1>7 DEF WebCrash, RunnerCrash, Deploy, vars
<1> QED
  BY <1>1, <1>2, <1>3, <1>4, <1>5, <1>6, <1>7 DEF Next

\* Preserved files, and files of the user's own that have a recorded hash, are
\* written to by nobody but units.
THEOREM PersonalFilesAreKept == Spec => PersonalFilesKept
<1> DEFINE Kept == \A u \in Users, f \in Files :
          /\ home[u] /\ home'[u] /\ work'[u][f] # work[u][f]
          /\ f \in Preserved \/ (work[u][f] = Mine /\ registry[u].hashes[f] # Absent)
          => UnitWrites(u)
<1>1. Init => Homeless
  BY DEF Init, Homeless
<1>2. TypeOK /\ Homeless /\ [Next]_vars => Kept
  <2> SUFFICES ASSUME TypeOK, Homeless, [Next]_vars, NEW u \in Users, NEW f \in Files,
                      home[u], work'[u][f] # work[u][f],
                      f \in Preserved \/ (work[u][f] = Mine /\ registry[u].hashes[f] # Absent)
               PROVE  UnitWrites(u)
    OBVIOUS
  <2>1. UnitWrites(u) \/ ProvisionFill(u) \/ UpgradeCopy(u)
    BY Writers
  <2>2. ~ProvisionFill(u)
    BY DEF ProvisionFill, Homeless, Early
  <2>3. ASSUME UpgradeCopy(u) PROVE FALSE
    <3>1. f \in Updated(u)
      BY <2>3 DEF UpgradeCopy, Copied, TypeOK
    <3>2. registry[u] \in Entries
      BY DEF TypeOK
    <3>3. registry[u].hashes[f] \in Versions \union {Absent}
      BY <3>2 DEF Entries, Hashes
    <3>4. registry[u].hashes[f] # Mine
      BY <3>3 DEF Versions, Absent, Mine
    <3> QED
      BY <3>1, <3>4 DEF Updated, Conflict, Mine, Absent
  <2> QED
    BY <2>1, <2>2, <2>3
<1> QED
  BY <1>1, <1>2, HomelessStep, TypeCorrect, PTL DEF Spec, PersonalFilesKept

\* A disabled user has no upgrade and no import under way, and a user the
\* registry does not know has no workspace to be in.
Quiet ==
    /\ \A u \in Users : upgrade[u] \in Upgrading => registry[u].enabled
    /\ \A u \in Users : provision[u] \in Early \union {"filled"} => ~registry[u].known
    /\ \A u \in Users : saved[u].known => registry[u].known
    /\ \A r \in Uploads : import[r] = "moving" => registry[Uploader[r]].enabled
    /\ \A r \in Uploads : import[r] = "none" => Imported(r) = {}

LEMMA QuietStays ==
  ASSUME TypeOK, Quiet, UNCHANGED <<upgrade, provision, registry, saved, import>>,
         \A r \in Uploads : import[r] = "none" => UNCHANGED place[r]
  PROVE  Quiet'
  BY DEF Quiet, Imported

LEMMA QuietWeb ==
  ASSUME TypeOK, Quiet, NEW u \in Users,
         Create(u) \/ CreateReply(u) \/ Upgrade(u) \/ UpgradeReply(u) \/ JobStep(u)
  PROVE  Quiet'
<1> USE DEF TypeOK, webVars, jobVars, runnerVars, diskVars, treeVars, uploadVars
<1>1. CASE CreateReply(u) \/ UpgradeReply(u)
  BY <1>1, QuietStays DEF CreateReply, UpgradeReply
<1>2. CASE JobStep(u)
  BY <1>2, QuietStays DEF JobStep, JobBegins, JobEnds, UnitBegins, UnitActs,
     UnitWrites, UnitCommits, UnitEnds
<1>3. CASE Create(u)
  BY <1>3 DEF Create, Quiet, Early, Imported
<1>4. CASE Upgrade(u)
  BY <1>4 DEF Upgrade, Quiet, Upgrading, Imported
<1> QED
  BY <1>1, <1>2, <1>3, <1>4

LEMMA QuietSave ==
  ASSUME TypeOK, Quiet, NEW u \in Users, NEW e, Saved(u, e) \/ Unsaved(u, e),
         registry[u].known => e.known,
         ~e.enabled => LoopFree /\ upgrade[u] \notin Upgrading,
         \A w \in Users : provision'[w] \in Early \union {"filled"} =>
            (w = u => ~e.known) /\ provision[w] \in Early \union {"filled"},
         \A w \in Users : upgrade'[w] \in Upgrading => upgrade[w] \in Upgrading,
         UNCHANGED <<import, place>>
  PROVE  Quiet'
<1>1. registry' = [registry EXCEPT ![u] = e] /\ (saved' = registry' \/ saved' = saved)
  BY DEF Saved, Unsaved, Registered
<1>2. \A w \in Users : registry'[w] = IF w = u THEN e ELSE registry[w]
  BY <1>1 DEF TypeOK
<1>3. \A w \in Users : upgrade'[w] \in Upgrading => registry'[w].enabled
  BY <1>2 DEF Quiet
<1>4. \A w \in Users : provision'[w] \in Early \union {"filled"} => ~registry'[w].known
  BY <1>2 DEF Quiet
<1>5. \A w \in Users : registry[w].known => registry'[w].known
  BY <1>2
<1>6. ASSUME NEW w \in Users, saved'[w].known PROVE registry'[w].known
  BY <1>1, <1>5, <1>6 DEF Quiet
<1>7. \A r \in Uploads : import'[r] = "moving" => registry'[Uploader[r]].enabled
  BY <1>2 DEF Quiet, LoopFree
<1> QED
  BY <1>3, <1>4, <1>6, <1>7 DEF Quiet, Imported

LEMMA QuietRunner ==
  ASSUME TypeOK, Quiet, NEW u \in Users, ProvisionStep(u) \/ UpgradeStep(u) PROVE Quiet'
<1> USE DEF TypeOK, webVars, jobVars, diskVars, treeVars, uploadVars
<1>1. CASE ProvisionBegin(u)
  BY <1>1 DEF ProvisionBegin, ProvisionAt, Quiet, Early, Imported
<1>2. CASE ProvisionFill(u)
  BY <1>2 DEF ProvisionFill, ProvisionAt, Removed, Quiet, Early, Imported
<1>3. CASE ProvisionRegister(u)
  <2>1. Entry(u).known /\ Entry(u).enabled
    BY DEF Entry
  <2>2. \A w \in Users : provision'[w] \in Early \union {"filled"} =>
            (w = u => ~Entry(u).known) /\ provision[w] \in Early \union {"filled"}
    BY <1>3 DEF ProvisionRegister, ProvisionAt, Removed, Early
  <2> QED
    BY <1>3, <2>1, <2>2, QuietSave DEF ProvisionRegister
<1>4. CASE UpgradeBegin(u)
  BY <1>4 DEF UpgradeBegin, UpgradeAt, Quiet, Upgrading, Imported
<1>5. CASE UpgradeStatus(u) \/ UpgradeCopy(u) \/ UpgradeCommit(u)
  <2>1. upgrade[u] \in Upgrading /\ \A w \in Users : w # u => upgrade'[w] = upgrade[w]
    BY <1>5 DEF UpgradeStatus, UpgradeCopy, UpgradeCommit, UpgradeAt, Upgrading
  <2>2. UNCHANGED <<provision, import, registry, saved, place>>
    BY <1>5 DEF UpgradeStatus, UpgradeCopy, UpgradeCommit
  <2>3. \A w \in Users : upgrade'[w] \in Upgrading => registry'[w].enabled
    BY <2>1, <2>2 DEF Quiet
  <2> QED
    BY <2>2, <2>3 DEF Quiet, Imported
<1>6. CASE UpgradeSave(u)
  <2>1. Recorded(u).known = registry[u].known /\ Recorded(u).enabled = registry[u].enabled
    BY Fields
  <2>2. registry[u].enabled /\ UNCHANGED <<provision, import, place>>
    BY <1>6 DEF UpgradeSave, Quiet, Upgrading
  <2>3. \A w \in Users : upgrade'[w] \in Upgrading => upgrade[w] \in Upgrading
    BY <1>6 DEF UpgradeSave, UpgradeAt, Upgrading
  <2>4. \A w \in Users : provision'[w] \in Early \union {"filled"} =>
            (w = u => ~Recorded(u).known) /\ provision[w] \in Early \union {"filled"}
    BY <2>1, <2>2 DEF Quiet
  <2>5. Saved(u, Recorded(u)) \/ Unsaved(u, Recorded(u))
    BY <1>6 DEF UpgradeSave
  <2> QED
    BY <2>1, <2>2, <2>3, <2>4, <2>5, QuietSave
<1> QED
  BY <1>1, <1>2, <1>3, <1>4, <1>5, <1>6 DEF ProvisionStep, UpgradeStep

LEMMA QuietUploads ==
  ASSUME TypeOK, Quiet, NEW r \in Uploads, Upload(r) \/ UploadReply(r) \/ ImportStep(r)
  PROVE  Quiet'
<1> USE DEF TypeOK, runnerVars, webVars, jobVars, diskVars, treeVars, uploadVars
<1>1. CASE Upload(r)
  BY <1>1 DEF Upload, Quiet, Imported
<1>2. CASE UploadReply(r)
  BY <1>2, QuietStays DEF UploadReply
<1>3. CASE ImportBegin(r)
  BY <1>3 DEF ImportBegin, ImportAt, Quiet, Imported
<1>4. CASE ImportMove(r)
  BY <1>4, QuietStays DEF ImportMove
<1>5. CASE ImportCommit(r) \/ ImportUndo(r)
  <2>1. import'[r] \in {"ok", "error"} /\ UNCHANGED <<upgrade, provision, registry, saved>>
    BY <1>5 DEF ImportCommit, ImportUndo, ImportAt
  <2>2. \A s \in Uploads \ {r} : import'[s] = import[s] /\ place'[s] = place[s]
    BY <1>5 DEF ImportCommit, ImportUndo, ImportAt
  <2>3. ASSUME NEW s \in Uploads, import'[s] \in {"none", "moving"}
        PROVE  s # r /\ import[s] = import'[s] /\ Imported(s)' = Imported(s)
    BY <2>1, <2>2, <2>3 DEF Imported
  <2> QED
    BY <2>1, <2>3 DEF Quiet
<1> QED
  BY <1>1, <1>2, <1>3, <1>4, <1>5 DEF ImportStep

LEMMA QuietGivenUp ==
  ASSUME TypeOK, Quiet, NEW u \in Users, GiveUp(u) PROVE Quiet'
<1>1. UNCHANGED <<upgrade, provision, registry, saved, import>>
  BY DEF GiveUp, runnerVars
<1>2. \A r \in Uploads, p \in Parts : place'[r][p] = "workspace" => place[r][p] = "workspace"
  BY DEF GiveUp, Unlinked, TypeOK
<1>3. \A r \in Uploads : Imported(r)' \subseteq Imported(r)
  BY <1>2 DEF Imported, PartsOf, Parts
<1> QED
  BY <1>1, <1>3 DEF Quiet

LEMMA QuietOther ==
  ASSUME TypeOK, Quiet,
         (\E u \in Users, on \in BOOLEAN : Switch(u, on)) \/ WebCrash \/ RunnerCrash \/ Deploy
  PROVE  Quiet'
<1> USE DEF TypeOK, webVars, jobVars, diskVars, treeVars, uploadVars, runnerVars
<1>1. ASSUME NEW u \in Users, NEW on \in BOOLEAN, Switch(u, on) PROVE Quiet'
  <2> DEFINE e == [registry[u] EXCEPT !.enabled = on]
  <2>1. e.known = registry[u].known
    BY Fields
  <2>2. Saved(u, e) \/ Unsaved(u, e)
    BY <1>1 DEF Switch, Switched
  <2> HIDE DEF e
  <2>3. LoopFree /\ upgrade[u] \notin Upgrading /\ UNCHANGED <<upgrade, provision, import, place>>
    BY <1>1 DEF Switch, Switched, LockFree
  <2>4. \A w \in Users : provision'[w] \in Early \union {"filled"} =>
            (w = u => ~e.known) /\ provision[w] \in Early \union {"filled"}
    BY <2>1, <2>3 DEF Quiet
  <2> QED
    BY <2>1, <2>2, <2>3, <2>4, QuietSave
<1>2. CASE WebCrash \/ Deploy
  BY <1>2, QuietStays DEF WebCrash, Deploy
<1>3. CASE RunnerCrash
  BY <1>3 DEF RunnerCrash, Quiet, Imported, Early, Upgrading
<1> QED
  BY <1>1, <1>2, <1>3

LEMMA QuietStep ==
  ASSUME TypeOK, Quiet, [Next]_vars PROVE Quiet'
<1>1. CASE Next
  BY <1>1, QuietWeb, QuietRunner, QuietUploads, QuietGivenUp, QuietOther DEF Next
<1>2. CASE UNCHANGED vars
  BY <1>2, QuietStays DEF vars, runnerVars, diskVars, uploadVars
<1> QED
  BY <1>1, <1>2

LEMMA Movers ==
  ASSUME TypeOK, Quiet, [Next]_vars, NEW r \in Uploads, import[r] # "moving"
  PROVE  Imported(r)' = Imported(r)
<1>1. UNCHANGED place => Imported(r)' = Imported(r)
  BY DEF Imported
<1> USE DEF TypeOK, webVars, jobVars, runnerVars, diskVars, treeVars, uploadVars
<1>2. ASSUME NEW u \in Users, GiveUp(u) PROVE Imported(r)' = Imported(r)
  <2>1. \A p \in Parts : (place'[r][p] = "workspace") <=> (place[r][p] = "workspace")
    BY <1>2 DEF GiveUp, Unlinked
  <2> QED
    BY <2>1 DEF Imported, PartsOf, Parts
<1>3. ASSUME NEW s \in Uploads, Upload(s) PROVE Imported(r)' = Imported(r)
  <2>1. CASE s = r
    <3>1. Imported(r) = {}
      BY <1>3, <2>1 DEF Upload, Quiet
    <3>2. \A p \in Parts : place'[r][p] # "workspace"
      BY <1>3, <2>1 DEF Upload
    <3> QED
      BY <3>1, <3>2 DEF Imported, PartsOf, Parts
  <2>2. CASE s # r
    BY <1>3, <2>2 DEF Upload, Imported
  <2> QED
    BY <2>1, <2>2
<1>4. ASSUME NEW s \in Uploads, UploadReply(s) PROVE Imported(r)' = Imported(r)
  <2>1. \A p \in Parts : (place'[r][p] = "workspace") <=> (place[r][p] = "workspace")
    BY <1>4 DEF UploadReply, Unlinked
  <2> QED
    BY <2>1 DEF Imported, PartsOf, Parts
<1>5. ASSUME NEW s \in Uploads, ImportStep(s) PROVE Imported(r)' = Imported(r)
  <2>1. CASE s = r
    BY <1>1, <1>5, <2>1 DEF ImportStep, ImportBegin, ImportMove, ImportCommit, ImportUndo
  <2>2. CASE s # r
    <3>1. place'[r] = place[r]
      BY <1>5, <2>2 DEF ImportStep, ImportBegin, ImportMove, ImportCommit, ImportUndo
    <3> QED
      BY <3>1 DEF Imported
  <2> QED
    BY <2>1, <2>2
<1>6. ASSUME NEW u \in Users, \/ Create(u) \/ CreateReply(u) \/ Upgrade(u) \/ UpgradeReply(u)
                              \/ JobStep(u) \/ ProvisionStep(u)
      PROVE  UNCHANGED place
  BY <1>6 DEF Create, CreateReply, Upgrade, UpgradeReply, JobStep, JobBegins, JobEnds,
     UnitBegins, UnitActs, UnitWrites, UnitCommits, UnitEnds, ProvisionStep, ProvisionBegin,
     ProvisionFill, ProvisionRegister
<1>7. ASSUME NEW u \in Users, UpgradeStep(u) PROVE UNCHANGED place
  BY <1>7 DEF UpgradeStep, UpgradeBegin, UpgradeStatus, UpgradeCopy, UpgradeCommit, UpgradeSave
<1>8. ASSUME \/ \E u \in Users, on \in BOOLEAN : Switch(u, on)
             \/ WebCrash \/ RunnerCrash \/ Deploy \/ UNCHANGED vars
      PROVE  UNCHANGED place
  BY <1>8 DEF Switch, Switched, WebCrash, RunnerCrash, Deploy, vars
<1> QED
  BY <1>1, <1>2, <1>3, <1>4, <1>5, <1>6, <1>7, <1>8 DEF Next

\* Once a user is disabled only a unit that was asked for can change the workspace.
THEOREM DisabledStaysQuiet == Spec => DisabledIsQuiet
<1>1. Init => Quiet
  <2>1. ASSUME Init, NEW r \in Uploads PROVE Imported(r) = {}
    BY <2>1 DEF Init, Imported, PartsOf, Parts
  <2> QED
    BY <2>1 DEF Init, Quiet, Upgrading, NoEntry
<1>2. TypeOK /\ Quiet /\ [Next]_vars =>
        \A u \in Users :
          registry[u].known /\ ~registry[u].enabled /\ ~UnitActs(u)
          => /\ UNCHANGED <<work[u], head[u], report[u]>>
             /\ \A r \in Uploads : Uploader[r] = u => Imported(r)' = Imported(r)
  <2> SUFFICES ASSUME TypeOK, Quiet, [Next]_vars, NEW u \in Users,
                      registry[u].known, ~registry[u].enabled, ~UnitActs(u)
               PROVE  /\ UNCHANGED <<work[u], head[u], report[u]>>
                      /\ \A r \in Uploads : Uploader[r] = u => Imported(r)' = Imported(r)
    OBVIOUS
  <2>1. ~ProvisionFill(u) /\ ~UpgradeCopy(u) /\ ~UpgradeCommit(u)
    BY DEF ProvisionFill, UpgradeCopy, UpgradeCommit, Quiet, Early, Upgrading
  <2>2. ~UnitWrites(u) /\ ~UnitCommits(u)
    BY DEF UnitActs
  <2>3. \A r \in Uploads : Uploader[r] = u => import[r] # "moving"
    BY DEF Quiet
  <2> QED
    BY <2>1, <2>2, <2>3, Writers, Movers
<1> QED
  BY <1>1, <1>2, QuietStep, TypeCorrect, PTL DEF Spec, DisabledIsQuiet

(***************************************************************************)
(* Upgrades.  From git status to the commit nobody writes to the tree, for *)
(* the user's lock keeps new jobs away, but a unit whose job is over; and  *)
(* what such a unit does is on record.                                     *)
(***************************************************************************)
Alone(u) ==
    awaited[u] = "upgrade" => ~active[u] /\ version[u] # 0
Own(u) ==
    awaited[u] = "upgrade" /\ ~astray[u] =>
        /\ upgrade[u] = "clean" => work[u] = head[u]
        /\ upgrade[u] = "copied" =>
             \A f \in Files : work[u][f] \in {head[u][f], pending[u].version}

LEMMA OwnStays ==
  ASSUME NEW u \in Users, Alone(u), Own(u),
         UNCHANGED <<version[u], pending[u], work[u], head[u], astray[u]>>,
         awaited'[u] = "upgrade" => awaited[u] = "upgrade",
         active'[u] => active[u],
         upgrade'[u] \in {upgrade[u], "error", "status"}
  PROVE  Alone(u)' /\ Own(u)'
  BY DEF Alone, Own

LEMMA OwnWeb ==
  ASSUME TypeOK, NEW u \in Users, Alone(u), Own(u), NEW w \in Users,
         Create(w) \/ CreateReply(w) \/ Upgrade(w) \/ UpgradeReply(w) \/ GiveUp(w)
  PROVE  Alone(u)' /\ Own(u)'
<1> USE DEF TypeOK, webVars, jobVars, runnerVars, diskVars, treeVars, uploadVars
<1>1. CASE Upgrade(w)
  BY <1>1 DEF Upgrade, Alone, Own
<1>2. CASE Create(w)
  BY <1>2, OwnStays DEF Create
<1>3. CASE GiveUp(w)
  BY <1>3, OwnStays DEF GiveUp
<1>4. CASE CreateReply(w) \/ UpgradeReply(w)
  <2>1. CASE u = w
    BY <1>4, <2>1 DEF CreateReply, UpgradeReply, Alone, Own
  <2>2. CASE u # w
    BY <1>4, <2>2, OwnStays DEF CreateReply, UpgradeReply
  <2> QED
    BY <2>1, <2>2
<1> QED
  BY <1>1, <1>2, <1>3, <1>4

LEMMA OwnJobs ==
  ASSUME TypeOK, NEW u \in Users, Alone(u), Own(u), NEW w \in Users, JobStep(w)
  PROVE  Alone(u)' /\ Own(u)'
<1> USE DEF TypeOK, webVars, jobVars, runnerVars, diskVars, treeVars, uploadVars
<1>1. CASE JobBegins(w)
  BY <1>1 DEF JobBegins, Alone, Own
<1>2. CASE JobEnds(w) \/ UnitBegins(w) \/ UnitEnds(w)
  <2>1. UNCHANGED <<version, awaited, astray, upgrade, work, head, pending>>
    BY <1>2 DEF JobEnds, UnitBegins, UnitEnds
  <2>2. active'[u] => active[u]
    BY <1>2 DEF JobEnds, UnitBegins, UnitEnds
  <2> QED
    BY <2>1, <2>2, OwnStays
<1>3. CASE UnitWrites(w)
  <2>1. UNCHANGED <<version, awaited, active, upgrade, head, pending>>
    BY <1>3 DEF UnitWrites
  <2>2. CASE u = w
    <3>1. Alone(u)'
      BY <2>1 DEF Alone
    <3>2. awaited'[u] = "upgrade" /\ upgrade'[u] \in {"clean", "copied"} => astray'[u]
      BY <1>3, <2>1, <2>2 DEF UnitWrites, Alone
    <3> QED
      BY <3>1, <3>2 DEF Own
  <2>3. CASE u # w
    <3>1. work'[u] = work[u] /\ astray'[u] = astray[u]
      BY <1>3, <2>3 DEF UnitWrites
    <3> QED
      BY <2>1, <3>1, OwnStays
  <2> QED
    BY <2>2, <2>3
<1>4. CASE UnitCommits(w)
  <2>1. UNCHANGED <<version, awaited, active, astray, upgrade, work, pending>>
    BY <1>4 DEF UnitCommits
  <2>2. head'[u] = IF u = w THEN work[u] ELSE head[u]
    BY <1>4 DEF UnitCommits, CommitAll
  <2> QED
    BY <2>1, <2>2 DEF Alone, Own
<1> QED
  BY <1>1, <1>2, <1>3, <1>4 DEF JobStep, UnitActs

LEMMA OwnRunner ==
  ASSUME TypeOK, Backed, NEW u \in Users, Alone(u), Own(u), NEW w \in Users,
         ProvisionStep(w) \/ UpgradeStep(w)
  PROVE  Alone(u)' /\ Own(u)'
<1> USE DEF TypeOK, webVars, jobVars, diskVars, treeVars, uploadVars
<1>1. CASE ProvisionStep(w)
  <2>1. CASE ProvisionFill(w)
    <3>1. u = w => awaited[u] # "upgrade"
      BY <2>1 DEF ProvisionFill, Backed, Opened, Alone
    <3>2. UNCHANGED <<version, awaited, jobVars, upgrade>>
      BY <2>1 DEF ProvisionFill
    <3>3. u # w => UNCHANGED <<pending[u], work[u], head[u]>>
      BY <2>1 DEF ProvisionFill
    <3> QED
      BY <3>1, <3>2, <3>3, OwnStays DEF Alone, Own
  <2> QED
    BY <1>1, <2>1, OwnStays DEF ProvisionStep, ProvisionBegin, ProvisionRegister
<1>2. CASE UpgradeBegin(w)
  BY <1>2, OwnStays DEF UpgradeBegin, UpgradeAt
<1>3. CASE UpgradeStatus(w)
  BY <1>3 DEF UpgradeStatus, UpgradeAt, Alone, Own, Dirty
<1>4. CASE UpgradeCopy(w)
  <2>1. PICK S : Copied(w, S)
    BY <1>4 DEF UpgradeCopy
  <2>2. CASE u # w
    BY <1>4, <2>1, <2>2, OwnStays DEF UpgradeCopy, UpgradeAt, Copied
  <2>3. CASE u = w /\ upgrade'[u] = "copied"
    <3>1. pending'[u].version = template /\ upgrade[u] = "clean"
          /\ UNCHANGED <<version, awaited, jobVars, head>>
      BY <1>4, <2>3 DEF UpgradeCopy, UpgradeAt
    <3>2. \A f \in Files : work'[u][f] \in {work[u][f], template}
      BY <2>1, <2>3 DEF Copied
    <3> QED
      BY <2>3, <3>1, <3>2 DEF Alone, Own
  <2>4. CASE u = w /\ upgrade'[u] # "copied"
    BY <1>4, <2>4 DEF UpgradeCopy, UpgradeAt, Alone, Own
  <2> QED
    BY <2>2, <2>3, <2>4
<1>5. CASE UpgradeCommit(w)
  <2>1. CASE u = w
    BY <1>5, <2>1 DEF UpgradeCommit, UpgradeAt, Alone, Own
  <2>2. CASE u # w
    BY <1>5, <2>2, OwnStays DEF UpgradeCommit, UpgradeAt, CommitAll
  <2> QED
    BY <2>1, <2>2
<1>6. CASE UpgradeSave(w)
  BY <1>6 DEF UpgradeSave, UpgradeAt, Alone, Own
<1> QED
  BY <1>1, <1>2, <1>3, <1>4, <1>5, <1>6 DEF UpgradeStep

LEMMA OwnOther ==
  ASSUME TypeOK, NEW u \in Users, Alone(u), Own(u),
         \/ \E r \in Uploads : Upload(r) \/ UploadReply(r) \/ ImportStep(r)
         \/ \E w \in Users, on \in BOOLEAN : Switch(w, on)
         \/ WebCrash \/ RunnerCrash \/ Deploy \/ UNCHANGED vars
  PROVE  Alone(u)' /\ Own(u)'
<1> USE DEF TypeOK, webVars, jobVars, runnerVars, diskVars, treeVars, uploadVars
<1>1. ASSUME NEW r \in Uploads, Upload(r) \/ UploadReply(r) PROVE Alone(u)' /\ Own(u)'
  <2>1. awaited'[u] = "upgrade" => awaited[u] = "upgrade"
    BY <1>1 DEF Upload, UploadReply
  <2>2. /\ UNCHANGED <<version[u], pending[u], work[u], head[u]>>
        /\ UNCHANGED <<active, astray, upgrade>>
    BY <1>1 DEF Upload, UploadReply
  <2> QED
    BY <2>1, <2>2, OwnStays
<1>2. ASSUME NEW r \in Uploads, ImportStep(r) PROVE Alone(u)' /\ Own(u)'
  BY <1>2, OwnStays DEF ImportStep, ImportBegin, ImportMove, ImportCommit, ImportUndo
<1>3. ASSUME NEW w \in Users, NEW on \in BOOLEAN, Switch(w, on) PROVE Alone(u)' /\ Own(u)'
  BY <1>3, OwnStays DEF Switch, Switched
<1>4. CASE WebCrash \/ Deploy \/ UNCHANGED vars
  BY <1>4, OwnStays DEF WebCrash, Deploy, vars
<1>5. CASE RunnerCrash
  BY <1>5 DEF RunnerCrash, Alone, Own, Upgrading
<1> QED
  BY <1>1, <1>2, <1>3, <1>4, <1>5

\* While the Web waits for an upgrade, what its commit holds beside the upgrade was
\* written by a unit that had outlived its job.
THEOREM CommitsAreExplained == Spec => CommitIsExplained
<1> DEFINE Owns == \A u \in Users : Alone(u) /\ Own(u)
           Explained == \A u \in Users, f \in Files :
                            Foreign(u, f) /\ awaited[u] = "upgrade" => astray[u]
<1>1. Init => Owns
  BY DEF Init, Alone, Own
<1>2. TypeOK /\ Backed /\ Owns /\ [Next]_vars => Owns'
  <2> SUFFICES ASSUME TypeOK, Backed, Owns, [Next]_vars, NEW u \in Users
               PROVE  Alone(u)' /\ Own(u)'
    OBVIOUS
  <2> QED
    BY OwnWeb, OwnJobs, OwnRunner, OwnOther DEF Next
<1>3. TypeOK /\ Owns /\ [Next]_vars => Explained
  <2> SUFFICES ASSUME TypeOK, Owns, NEW u \in Users, NEW f \in Files,
                      Foreign(u, f), awaited[u] = "upgrade", ~astray[u]
               PROVE  FALSE
    OBVIOUS
  <2>1. work[u][f] \in {head[u][f], pending[u].version}
    BY DEF Own, Foreign, UpgradeCommit
  <2>2. head'[u] = work[u]
    BY DEF Foreign, UpgradeCommit, CommitAll, TypeOK
  <2> QED
    BY <2>1, <2>2 DEF Foreign
<1> QED
  BY <1>1, <1>2, <1>3, BackedInvariant, TypeCorrect, PTL DEF Spec, CommitIsExplained
=============================================================================
