----------------------------- MODULE Workspaces -----------------------------
(***************************************************************************)
(* The workspaces of the users: how the Web opens an account, uploads a    *)
(* file and upgrades the template (webapp/admin.py, files.py), and what    *)
(* the Runner does for it (_provision, _file_import, _upgrade, _disable,   *)
(* _enable in webapp/runner_server.py; webapp/template_files.py).  Three   *)
(* stores must agree: the database, the Runner's registry and the          *)
(* workspace with its Git repository.                                      *)
(*                                                                         *)
(* The Runner is one asyncio loop.  _provision and _file_import never      *)
(* await, so while one of them is half done no other handler moves         *)
(* (LoopFree), but the process may be killed.  _upgrade holds              *)
(* registry.lock and runs git in threads: between its steps other handlers *)
(* and jobs do move.                                                       *)
(*                                                                         *)
(* A job and its unit (systemd's, in which Claude works) do not end        *)
(* together: a worker that fails a job hangs up, and the Runner notices it *)
(* with the unit's next output; a unit that was asked for may start after  *)
(* a stop or a disable; and the units of a process that died are stopped   *)
(* by systemd a little later.  The units of a user are not told apart.     *)
(*                                                                         *)
(* Contents of a file are the template version it was copied from, or      *)
(* Mine. Git's index is not kept apart: what is written between an add and *)
(* its commit is left to the next commit, like what is written after it.   *)
(***************************************************************************)
EXTENDS Integers, FiniteSets

CONSTANTS
    Users,
    Files,       \* paths of template files
    Preserved,   \* those is_preserved keeps: master.md, base/, data/, ...
    Since,       \* the template version in which a file first appears
    MaxVersion,  \* bound: versions of the template
    Uploads,     \* ids of uploads, each used once
    Uploader,    \* the user of an upload
    Extracted,   \* uploads of PDF and DOCX files: they have a text, too
    Limit,       \* max_user_storage_bytes, in parts of uploads
    Faults,      \* "io": a command or a write fails; "late": a request is
                 \* given up after 180 seconds while the Runner goes on
    MaxCrashes   \* bound: deaths of either process

ASSUME WorkspacesAssumption ==
    /\ Preserved \subseteq Files
    /\ MaxVersion \in Nat \ {0} /\ MaxCrashes \in Nat /\ Limit \in Nat
    /\ Since \in [Files -> 1..MaxVersion]
    /\ Uploader \in [Uploads -> Users]
    /\ Extracted \subseteq Uploads
    /\ Faults \subseteq {"io", "late"}
    /\ Uploads \cap {"none", "provision", "upgrade"} = {}

Absent == 0  \* no such file, or no hash of it
Mine == -1   \* what the user wrote
Versions == 1..MaxVersion
Contents == Versions \union {Absent, Mine}
Hashes == [Files -> Versions \union {Absent}]
Parts == {"original", "text"}
PartsOf(r) == IF r \in Extracted THEN Parts ELSE {"original"}

VARIABLES
    template,   \* version of the template the service is deployed with
    version,    \* users.template_version; 0: there is no row
    awaited,    \* what a handler with the user's lock waits for
    records,    \* uploads with a row in files
    active,     \* a job of the user is queued or running in the database
    unit,       \* a unit of the user has been asked for, or is at work
    astray,     \* history: a unit whose job is over has written since the
                \* upgrade under way has looked at the working tree
    provision,  \* where _provision for the user is
    upgrade,    \* where _upgrade for the user is
    import,     \* where _file_import of the upload is
    pending,    \* local variables of both: hashes and version to record
    registry,   \* registry.data
    saved,      \* registry.json
    account,    \* the Linux account
    home,       \* the user's directory with its repository
    work, head, \* template files in the working tree, and as committed
    report,     \* a report of an upgrade that is not committed
    place,      \* where the parts of an upload are
    committed,  \* the parts of an upload that are committed
    crashes

jobVars == <<active, unit, astray>>
webVars == <<version, awaited, records, jobVars>>
runnerVars == <<provision, upgrade, import, pending, registry, saved>>
treeVars == <<work, head, report>>
uploadVars == <<place, committed>>
diskVars == <<account, home, treeVars, uploadVars>>
vars == <<template, webVars, runnerVars, diskVars, crashes>>

ProvisionPcs == {"none", "sent", "made", "filled", "ok", "error"}
UpgradePcs == {"none", "sent", "status", "clean", "copied", "committed", "ok", "error"}
ImportPcs_Short == {"none", "sent", "moving", "ok", "error"}  \* mutant
ImportPcs == {"none", "sent", "moving", "ok", "error", "reset"}
Places == {"none", "staged", "workspace"}

NoHashes == [f \in Files |-> Absent]
NoEntry == [known |-> FALSE, enabled |-> FALSE, hashes |-> NoHashes, version |-> 0]
Entries == [known : BOOLEAN, enabled : BOOLEAN, hashes : Hashes, version : 0..MaxVersion]

Init ==
    /\ template = 1
    /\ version = [u \in Users |-> 0]
    /\ awaited = [u \in Users |-> "none"]
    /\ records = {}
    /\ active = [u \in Users |-> FALSE]
    /\ unit = active
    /\ astray = active
    /\ provision = [u \in Users |-> "none"]
    /\ upgrade = [u \in Users |-> "none"]
    /\ import = [r \in Uploads |-> "none"]
    /\ pending = [u \in Users |-> [hashes |-> NoHashes, version |-> 0]]
    /\ registry = [u \in Users |-> NoEntry]
    /\ saved = registry
    /\ account = [u \in Users |-> FALSE]
    /\ home = [u \in Users |-> FALSE]
    /\ work = [u \in Users |-> NoHashes]
    /\ head = work
    /\ report = [u \in Users |-> FALSE]
    /\ place = [r \in Uploads |-> [p \in Parts |-> "none"]]
    /\ committed = [r \in Uploads |-> {}]
    /\ crashes = 0

InTemplate == {f \in Files : Since[f] <= template}
Shipped == [f \in Files |-> IF f \in InTemplate THEN template ELSE Absent]

\* The parts of an upload that are in the workspace.
Imported(r) == {p \in PartsOf(r) : place[r][p] = "workspace"}

\* git status --porcelain.
Dirty(u) ==
    \/ work[u] # head[u]
    \/ report[u]
    \/ \E r \in Uploads : Uploader[r] = u /\ Imported(r) # committed[r]

\* git add . and git commit.
CommitAll(u) ==
    /\ head' = [head EXCEPT ![u] = work[u]]
    /\ report' = [report EXCEPT ![u] = FALSE]
    /\ committed' = [r \in Uploads |-> IF Uploader[r] = u THEN Imported(r)
                                                          ELSE committed[r]]

LoopFree ==
    /\ \A u \in Users : provision[u] \notin {"made", "filled"}
    /\ \A r \in Uploads : import[r] # "moving"

Upgrading == {"status", "clean", "copied", "committed"}
LockFree == \A u \in Users : upgrade[u] \notin Upgrading

\* registry.save: the whole registry, in memory already, to the disk; or not.
Registered(u, entry) == registry' = [registry EXCEPT ![u] = entry]
Saved(u, entry) == Registered(u, entry) /\ saved' = registry'
Unsaved(u, entry) == "io" \in Faults /\ Registered(u, entry) /\ UNCHANGED saved

-----------------------------------------------------------------------------
(* The Web: a handler sends one request and waits for its answer.          *)

\* create_user: an id of its own for each account, and no row before the answer.
Create(u) ==
    /\ version[u] = 0 /\ awaited[u] = "none" /\ provision[u] = "none"
    /\ awaited' = [awaited EXCEPT ![u] = "provision"]
    /\ provision' = [provision EXCEPT ![u] = "sent"]
    /\ UNCHANGED <<template, version, records, jobVars, upgrade, import, pending,
                   registry, saved, diskVars, crashes>>

CreateReply(u) ==
    /\ awaited[u] = "provision" /\ provision[u] \in {"ok", "error"}
    /\ awaited' = [awaited EXCEPT ![u] = "none"]
    /\ version' = IF provision[u] = "ok"
                  THEN [version EXCEPT ![u] = pending[u].version] ELSE version
    /\ UNCHANGED <<template, records, jobVars, runnerVars, diskVars, crashes>>

\* upload_file: staged when no job is active and the quota allows it.
Used(u) ==
    {part \in records \X Parts : Uploader[part[1]] = u /\ part[2] \in PartsOf(part[1])}

Upload(r) ==
    LET u == Uploader[r] IN
    /\ version[u] # 0 /\ awaited[u] = "none" /\ ~active[u]
    /\ import[r] = "none"
    /\ Cardinality(Used(u)) + Cardinality(PartsOf(r)) <= Limit
    /\ awaited' = [awaited EXCEPT ![u] = r]
    /\ import' = [import EXCEPT ![r] = "sent"]
    /\ place' = [place EXCEPT ![r] = [p \in Parts |-> IF p \in PartsOf(r) THEN "staged"
                                                                         ELSE "none"]]
    /\ UNCHANGED <<template, version, records, jobVars, provision, upgrade, pending,
                   registry, saved, account, home, treeVars, committed, crashes>>

\* The staged files of an upload that failed are unlinked, unless what the
\* request raised was neither a RunnerError nor a ValueError.
Unlinked(r) == [p \in Parts |-> IF place[r][p] = "staged" THEN "none" ELSE place[r][p]]

UploadReply(r) ==
    LET u == Uploader[r] IN
    /\ awaited[u] = r /\ import[r] \in {"ok", "error", "reset"}
    /\ awaited' = [awaited EXCEPT ![u] = "none"]
    /\ records' = IF import[r] = "ok" THEN records \union {r} ELSE records
    /\ place' = IF import[r] = "error" THEN [place EXCEPT ![r] = Unlinked(r)] ELSE place
    /\ UNCHANGED <<template, version, jobVars, runnerVars, account, home, treeVars,
                   committed, crashes>>

\* upgrade_template of admin.py; one _upgrade of a user at a time (a bound).
Upgrade_BesideJob(u) ==  \* mutant: the active job is not looked for
    /\ version[u] # 0 /\ awaited[u] = "none"
    /\ upgrade[u] \in {"none", "ok", "error"}
    /\ awaited' = [awaited EXCEPT ![u] = "upgrade"]
    /\ upgrade' = [upgrade EXCEPT ![u] = "sent"]
    /\ UNCHANGED <<template, version, records, jobVars, provision, import, pending,
                   registry, saved, diskVars, crashes>>
Upgrade(u) ==
    /\ version[u] # 0 /\ awaited[u] = "none" /\ ~active[u]
    /\ upgrade[u] \in {"none", "ok", "error"}
    /\ awaited' = [awaited EXCEPT ![u] = "upgrade"]
    /\ upgrade' = [upgrade EXCEPT ![u] = "sent"]
    /\ UNCHANGED <<template, version, records, jobVars, provision, import, pending,
                   registry, saved, diskVars, crashes>>

UpgradeReply(u) ==
    /\ awaited[u] = "upgrade" /\ upgrade[u] \in {"ok", "error"}
    /\ awaited' = [awaited EXCEPT ![u] = "none"]
    /\ version' = IF upgrade[u] = "ok"
                  THEN [version EXCEPT ![u] = pending[u].version] ELSE version
    /\ UNCHANGED <<template, records, jobVars, runnerVars, diskVars, crashes>>

\* The request is given up, the handler fails and the lock is free.
GiveUp(u) ==
    /\ "late" \in Faults
    /\ awaited[u] # "none"
    /\ awaited' = [awaited EXCEPT ![u] = "none"]
    /\ place' = IF awaited[u] \in Uploads
                THEN [place EXCEPT ![awaited[u]] = Unlinked(awaited[u])] ELSE place
    /\ UNCHANGED <<template, version, records, jobVars, runnerVars, account, home,
                   treeVars, committed, crashes>>

\* The next start marks the jobs as failed, before anything else is served.
WebCrash ==
    /\ crashes < MaxCrashes
    /\ crashes' = crashes + 1
    /\ awaited' = [u \in Users |-> "none"]
    /\ active' = [u \in Users |-> FALSE]
    /\ UNCHANGED <<template, version, records, unit, astray, runnerVars, diskVars>>

\* create_job, under the user's lock.
JobBegins(u) ==
    /\ version[u] # 0 /\ awaited[u] = "none" /\ ~active[u]
    /\ active' = [active EXCEPT ![u] = TRUE]
    /\ UNCHANGED <<template, version, awaited, records, unit, astray, runnerVars,
                   diskVars, crashes>>

\* The job ends in the database: its stream is over, its worker fails it, or it
\* is stopped.
JobEnds(u) ==
    /\ active[u]
    /\ active' = [active EXCEPT ![u] = FALSE]
    /\ UNCHANGED <<template, version, awaited, records, unit, astray, runnerVars,
                   diskVars, crashes>>

\* _run asks for the unit of an enabled user.
UnitBegins(u) ==
    /\ active[u] /\ ~unit[u] /\ LoopFree
    /\ registry[u].enabled
    /\ unit' = [unit EXCEPT ![u] = TRUE]
    /\ UNCHANGED <<template, version, awaited, records, active, astray, runnerVars,
                   diskVars, crashes>>

\* The unit works in the workspace, and may commit.  Uploads belong to root and
\* are read-only for it; that it does not rename their directories is assumed.
UnitWrites(u) ==
    /\ unit[u]
    /\ \E f \in Files, content \in {Mine, Absent} : work' = [work EXCEPT ![u][f] = content]
    /\ astray' = [astray EXCEPT ![u] =
            @ \/ (upgrade[u] \in {"clean", "copied"} /\ ~active[u])]
    /\ UNCHANGED <<template, version, awaited, records, active, unit, runnerVars,
                   account, home, head, report, uploadVars, crashes>>

UnitCommits(u) ==
    /\ unit[u]
    /\ CommitAll(u)
    /\ UNCHANGED <<template, webVars, runnerVars, account, home, work, place, crashes>>

UnitEnds(u) ==
    /\ unit[u]
    /\ unit' = [unit EXCEPT ![u] = FALSE]
    /\ UNCHANGED <<template, version, awaited, records, active, astray, runnerVars,
                   diskVars, crashes>>

UnitActs(u) == UnitWrites(u) \/ UnitCommits(u)
JobStep(u) == JobBegins(u) \/ JobEnds(u) \/ UnitBegins(u) \/ UnitActs(u) \/ UnitEnds(u)

-----------------------------------------------------------------------------
(* _provision.                                                             *)

ProvisionAt(u, pc) == provision' = [provision EXCEPT ![u] = pc]

\* useradd and usermod; what they leave when they fail stays.
ProvisionBegin(u) ==
    /\ provision[u] = "sent" /\ LoopFree /\ LockFree
    /\ ~registry[u].known /\ ~home[u]
    /\ \/ ProvisionAt(u, "made") /\ account' = [account EXCEPT ![u] = TRUE]
       \/ /\ "io" \in Faults
          /\ ProvisionAt(u, "error")
          /\ \E made \in BOOLEAN : account' = [account EXCEPT ![u] = made]
    /\ UNCHANGED <<template, webVars, upgrade, import, pending, registry, saved, home,
                   treeVars, uploadVars, crashes>>

\* rmtree and userdel.
Removed(u) ==
    /\ ProvisionAt(u, "error")
    /\ account' = [account EXCEPT ![u] = FALSE]
    /\ home' = [home EXCEPT ![u] = FALSE]

\* copy_template and the first commit.
ProvisionFill(u) ==
    /\ provision[u] = "made"
    /\ \/ /\ ProvisionAt(u, "filled")
          /\ home' = [home EXCEPT ![u] = TRUE]
          /\ work' = [work EXCEPT ![u] = Shipped]
          /\ head' = [head EXCEPT ![u] = Shipped]
          /\ pending' = [pending EXCEPT ![u] = [hashes |-> Shipped, version |-> template]]
          /\ UNCHANGED account
       \/ "io" \in Faults /\ Removed(u) /\ UNCHANGED <<work, head, pending>>
    /\ UNCHANGED <<template, webVars, upgrade, import, registry, saved, report,
                   uploadVars, crashes>>

\* The entry is registered and the registry saved.
Entry(u) == [known |-> TRUE, enabled |-> TRUE, hashes |-> pending[u].hashes,
             version |-> pending[u].version]
ProvisionRegister_Unsaved(u) ==  \* mutant: the registry is not saved
    /\ provision[u] = "filled"
    /\ ProvisionAt(u, "ok") /\ Registered(u, Entry(u))
    /\ UNCHANGED <<template, webVars, upgrade, import, pending, saved, diskVars, crashes>>
ProvisionRegister(u) ==
    /\ provision[u] = "filled"
    /\ \/ ProvisionAt(u, "ok") /\ Saved(u, Entry(u)) /\ UNCHANGED <<account, home>>
       \/ Removed(u) /\ Unsaved(u, Entry(u))
    /\ UNCHANGED <<template, webVars, upgrade, import, pending, treeVars, uploadVars,
                   crashes>>

ProvisionStep(u) == ProvisionBegin(u) \/ ProvisionFill(u) \/ ProvisionRegister(u)

-----------------------------------------------------------------------------
(* _file_import.                                                           *)

ImportAt(r, pc) == import' = [import EXCEPT ![r] = pc]

\* The user is enabled, the staged files are there and the targets are not.
ImportBegin(r) ==
    /\ import[r] = "sent" /\ LoopFree
    /\ ImportAt(r, IF /\ registry[Uploader[r]].enabled
                      /\ \A p \in PartsOf(r) : place[r][p] = "staged"
                   THEN "moving" ELSE "error")
    /\ UNCHANGED <<template, webVars, provision, upgrade, pending, registry, saved,
                   diskVars, crashes>>

\* First the file, then its text.
ImportMove(r) ==
    /\ import[r] = "moving"
    /\ \E p \in PartsOf(r) :
          /\ place[r][p] = "staged"
          /\ p = "text" => place[r]["original"] = "workspace"
          /\ place' = [place EXCEPT ![r][p] = "workspace"]
    /\ UNCHANGED <<template, webVars, runnerVars, account, home, treeVars, committed,
                   crashes>>

\* git commit of these paths alone.
ImportCommit(r) ==
    /\ import[r] = "moving"
    /\ Imported(r) = PartsOf(r)
    /\ ImportAt(r, "ok")
    /\ committed' = [committed EXCEPT ![r] = PartsOf(r)]
    /\ UNCHANGED <<template, webVars, provision, upgrade, pending, registry, saved,
                   account, home, treeVars, place, crashes>>

\* Something failed: what was moved is moved back.
ImportUndo_Swallows(r) ==  \* mutant: the exception is not raised again
    /\ import[r] = "moving" /\ "io" \in Faults
    /\ ImportAt(r, "ok")
    /\ place' = [place EXCEPT ![r] = [p \in Parts |-> IF p \in Imported(r) THEN "staged"
                                                                          ELSE place[r][p]]]
    /\ UNCHANGED <<template, webVars, provision, upgrade, pending, registry, saved,
                   account, home, treeVars, committed, crashes>>
ImportUndo(r) ==
    /\ import[r] = "moving" /\ "io" \in Faults
    /\ ImportAt(r, "error")
    /\ place' = [place EXCEPT ![r] = [p \in Parts |-> IF p \in Imported(r) THEN "staged"
                                                                          ELSE place[r][p]]]
    /\ UNCHANGED <<template, webVars, provision, upgrade, pending, registry, saved,
                   account, home, treeVars, committed, crashes>>

ImportStep(r) == ImportBegin(r) \/ ImportMove(r) \/ ImportCommit(r) \/ ImportUndo(r)

-----------------------------------------------------------------------------
(* _upgrade.                                                               *)

UpgradeAt(u, pc) == upgrade' = [upgrade EXCEPT ![u] = pc]

\* The lock is taken and the user looked up; git status starts in a thread.
UpgradeBegin(u) ==
    /\ upgrade[u] = "sent" /\ LoopFree /\ LockFree
    /\ UpgradeAt(u, IF registry[u].enabled THEN "status" ELSE "error")
    /\ UNCHANGED <<template, webVars, provision, import, pending, registry, saved,
                   diskVars, crashes>>

\* Uncommitted changes stop the upgrade.
UpgradeStatus(u) ==
    /\ upgrade[u] = "status"
    /\ \/ UpgradeAt(u, IF Dirty(u) THEN "error" ELSE "clean")
       \/ "io" \in Faults /\ UpgradeAt(u, "error")
    /\ UNCHANGED <<template, webVars, provision, import, pending, registry, saved,
                   diskVars, crashes>>

\* upgrade_template of template_files.py: which files it leaves alone, which it
\* replaces, and the hashes it returns.
Conflict(u, f) ==
    LET hash == registry[u].hashes[f]
    IN  work[u][f] # Absent /\ hash # Absent /\ work[u][f] # hash
Updated_All(u) == {f \in InTemplate : ~Conflict(u, f)}  \* mutant: is_preserved forgotten
Updated(u) == {f \in InTemplate \ Preserved : ~Conflict(u, f)}
Carried(u) ==
    [f \in Files |->
        IF f \in Updated(u) \/ (/\ f \in InTemplate \intersect Preserved
                                /\ registry[u].hashes[f] = Absent)
        THEN template ELSE registry[u].hashes[f]]
Copied(u, S) == work' = [work EXCEPT ![u] = [f \in Files |-> IF f \in S THEN template
                                                                       ELSE work[u][f]]]

\* The files are copied and the report written; or some of them.
UpgradeCopy(u) ==
    /\ upgrade[u] = "clean" /\ LoopFree
    /\ \/ /\ UpgradeAt(u, "copied")
          /\ Copied(u, Updated(u))
          /\ report' = [report EXCEPT ![u] = TRUE]
          /\ pending' = [pending EXCEPT ![u] = [hashes |-> Carried(u), version |-> template]]
          /\ UNCHANGED astray
       \/ /\ "io" \in Faults
          /\ UpgradeAt(u, "error")
          /\ \E S \in SUBSET Updated(u) : Copied(u, S)
          /\ astray' = [astray EXCEPT ![u] = FALSE]
          /\ UNCHANGED <<report, pending>>
    /\ UNCHANGED <<template, version, awaited, records, active, unit, provision, import,
                   registry, saved, account, home, head, uploadVars, crashes>>

UpgradeCommit(u) ==
    /\ upgrade[u] = "copied"
    /\ astray' = [astray EXCEPT ![u] = FALSE]
    /\ \/ UpgradeAt(u, "committed") /\ CommitAll(u)
       \/ "io" \in Faults /\ UpgradeAt(u, "error") /\ UNCHANGED <<head, report, committed>>
    /\ UNCHANGED <<template, version, awaited, records, active, unit, provision, import,
                   pending, registry, saved, account, home, work, place, crashes>>

\* The new hashes and version are recorded, the lock is free again.
Recorded(u) == [registry[u] EXCEPT !.hashes = pending[u].hashes,
                                   !.version = pending[u].version]
UpgradeSave(u) ==
    /\ upgrade[u] = "committed" /\ LoopFree
    /\ \/ UpgradeAt(u, "ok") /\ Saved(u, Recorded(u))
       \/ UpgradeAt(u, "error") /\ Unsaved(u, Recorded(u))
    /\ UNCHANGED <<template, webVars, provision, import, pending, diskVars, crashes>>

UpgradeStep(u) ==
    UpgradeBegin(u) \/ UpgradeStatus(u) \/ UpgradeCopy(u) \/ UpgradeCommit(u) \/ UpgradeSave(u)

-----------------------------------------------------------------------------
(* The rest.                                                               *)

\* _disable and _enable.  A disable stops the user's units after it has saved,
\* but for one that is asked for and has not started, and for what systemctl
\* cannot stop.  When the Web calls them is JobManager's matter; here they come at
\* any time.
Switched(u, on) ==
    /\ Saved(u, [registry[u] EXCEPT !.enabled = on])
    /\ \E goesOn \in BOOLEAN : unit' = [unit EXCEPT ![u] = @ /\ (on \/ goesOn)]
Switch_Unlocked(u, on) ==  \* mutant: registry.lock is not taken
    /\ registry[u].known /\ LoopFree
    /\ Switched(u, on)
    /\ UNCHANGED <<template, version, awaited, records, active, astray, provision,
                   upgrade, import, pending, diskVars, crashes>>
Switch(u, on) ==
    /\ registry[u].known /\ LoopFree /\ LockFree
    /\ \/ Switched(u, on)
       \/ Unsaved(u, [registry[u] EXCEPT !.enabled = on]) /\ UNCHANGED unit
    /\ UNCHANGED <<template, version, awaited, records, active, astray, provision,
                   upgrade, import, pending, diskVars, crashes>>

\* Every request under way is lost, with what it had done.
RunnerCrash ==
    /\ crashes < MaxCrashes
    /\ crashes' = crashes + 1
    /\ registry' = saved
    /\ provision' = [u \in Users |-> IF provision[u] \in {"sent", "made", "filled"}
                                     THEN "error" ELSE provision[u]]
    /\ upgrade' = [u \in Users |-> IF upgrade[u] \in Upgrading \union {"sent"}
                                   THEN "error" ELSE upgrade[u]]
    /\ \E lost \in {"error", "reset"} :
          import' = [r \in Uploads |-> IF import[r] \in {"sent", "moving"} THEN lost
                                                                         ELSE import[r]]
    /\ astray' = [u \in Users |-> FALSE]
    /\ UNCHANGED <<template, version, awaited, records, active, unit, pending, saved,
                   diskVars>>

Deploy ==
    /\ template < MaxVersion
    /\ template' = template + 1
    /\ UNCHANGED <<webVars, runnerVars, diskVars, crashes>>

Next ==
    \/ \E u \in Users : Create(u) \/ CreateReply(u) \/ Upgrade(u) \/ UpgradeReply(u)
    \/ \E r \in Uploads : Upload(r) \/ UploadReply(r)
    \/ \E u \in Users : GiveUp(u)
    \/ \E u \in Users : JobStep(u)
    \/ \E u \in Users : ProvisionStep(u) \/ UpgradeStep(u)
    \/ \E r \in Uploads : ImportStep(r)
    \/ \E u \in Users, on \in BOOLEAN : Switch(u, on)
    \/ WebCrash
    \/ RunnerCrash
    \/ Deploy

Spec == Init /\ [][Next]_vars
-----------------------------------------------------------------------------
(* Properties.                                                             *)

TypeOK ==
    /\ template \in Versions
    /\ version \in [Users -> 0..MaxVersion]
    /\ awaited \in [Users -> {"none", "provision", "upgrade"} \union Uploads]
    /\ records \subseteq Uploads
    /\ active \in [Users -> BOOLEAN] /\ unit \in [Users -> BOOLEAN]
    /\ astray \in [Users -> BOOLEAN]
    /\ provision \in [Users -> ProvisionPcs]
    /\ upgrade \in [Users -> UpgradePcs]
    /\ import \in [Uploads -> ImportPcs]
    /\ pending \in [Users -> [hashes : Hashes, version : 0..MaxVersion]]
    /\ registry \in [Users -> Entries] /\ saved \in [Users -> Entries]
    /\ account \in [Users -> BOOLEAN] /\ home \in [Users -> BOOLEAN]
    /\ work \in [Users -> [Files -> Contents]] /\ head \in [Users -> [Files -> Contents]]
    /\ report \in [Users -> BOOLEAN]
    /\ place \in [Uploads -> [Parts -> Places]]
    /\ committed \in [Uploads -> SUBSET Parts]
    /\ crashes \in 0..MaxCrashes

\* A user the database knows has an account, a workspace and an entry in
\* registry.json that is at least as new as the version in the database: whatever
\* fails, is late or dies between the three stores (create_user commits after
\* the answer, the Runner answers after the save).
AccountIsBacked ==
    \A u \in Users : version[u] # 0 =>
        account[u] /\ home[u] /\ saved[u].known /\ version[u] <= saved[u].version

\* A row in files has its file, and its text, committed in the workspace.
RecordedIsStored ==
    \A r \in records : Imported(r) = PartsOf(r) /\ committed[r] = PartsOf(r)

\* Nobody but a unit changes a preserved file, or a file of the user's own for
\* which the registry has a hash ("never overwritten automatically").
PersonalFilesKept ==
    [][\A u \in Users, f \in Files :
          /\ home[u] /\ home'[u] /\ work'[u][f] # work[u][f]
          /\ f \in Preserved \/ (work[u][f] = Mine /\ registry[u].hashes[f] # Absent)
          => UnitWrites(u)]_vars

\* What the user wrote is skipped by an upgrade and reported as a conflict.
UserWorkKept ==
    [][\A u \in Users, f \in Files :
          UpgradeCopy(u) /\ work[u][f] = Mine => work'[u][f] = Mine]_vars

\* Nothing in the workspace of a disabled user changes but by a unit that had
\* been asked for before: registry.lock keeps a disable out of an upgrade.
DisabledIsQuiet ==
    [][\A u \in Users :
          registry[u].known /\ ~registry[u].enabled /\ ~UnitActs(u)
          => /\ UNCHANGED <<work[u], head[u], report[u]>>
             /\ \A r \in Uploads : Uploader[r] = u => Imported(r)' = Imported(r)]_vars

\* What the commit of an upgrade holds that the upgrade did not copy.
Foreign(u, f) ==
    UpgradeCommit(u) /\ head'[u][f] # head[u][f] /\ head'[u][f] # pending[u].version

\* The user's lock keeps jobs away from an upgrade while the Web waits for it:
\* its commit takes along nothing of the user's but what a unit that outlived its
\* job has written since git status (against docs/web/template-upgrade.md, by
\* which it holds the report and the files it has updated).
CommitIsExplained ==
    [][\A u \in Users, f \in Files :
          Foreign(u, f) /\ awaited[u] = "upgrade" => astray[u]]_vars
=============================================================================
