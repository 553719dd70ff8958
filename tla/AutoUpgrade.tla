----------------------------- MODULE AutoUpgrade -----------------------------
(***************************************************************************)
(* The automatic upgrade of the plugin: the scheduler in the gateway's     *)
(* process and the worker it starts, which outlives the gateway's restart, *)
(* src/plugins/openclaw/src/auto-upgrade/.                                 *)
(*                                                                         *)
(* Versions are numbered; a broken one is not loaded by the gateway.  The  *)
(* scheduler runs where the plugin is loaded.  The openclaw command and    *)
(* npm are external.                                                       *)
(***************************************************************************)
EXTENDS Naturals

CONSTANTS
    Latest,              \* bound: versions that are published
    Broken,              \* those that cannot be loaded, the first is not among them
    MaxWorker            \* bound: workers that are started

Versions == 1..Latest
Workers == 1..MaxWorker
Missing == 0

VARIABLES
    dir,                 \* the version in the plugin's directory, if it is whole
    bak,                 \* and in the backup directory
    run,                 \* the version the gateway has loaded, if any
    published,
    check,               \* the scheduler: its step, and the version and state it has read
    worker,              \* the workers: their step, versions and the state read
    lock,                \* the worker the lock file names
    skipped,             \* skippedVersions in the state file
    overlap              \* a check has gone on while a worker was at work

disk == <<dir, bak>>
vars == <<disk, run, published, check, worker, lock, skipped, overlap>>

Steps == {"none", "start", "backup", "update", "updating", "verify", "remove", "ok", "restore",
          "restoring", "fallback", "uninstalled", "restart", "skip", "skipping", "last", "lasting",
          "died", "exited"}
TypeOK ==
    /\ dir \in Versions \cup {Missing} /\ bak \in Versions \cup {Missing} /\ run \in Versions \cup {Missing}
    /\ published \in Versions
    /\ check \in [step : {"idle", "ask", "write", "lock"}, cur : Versions \cup {Missing}, read : SUBSET Versions]
    /\ worker \in [Workers -> [step : Steps, from : Versions \cup {Missing}, to : Versions \cup {Missing},
                               skip : BOOLEAN, read : SUBSET Versions]]
    /\ lock \in Workers \cup {Missing}
    /\ skipped \subseteq Versions /\ overlap \in BOOLEAN

Idle == [step |-> "idle", cur |-> Missing, read |-> {}]
NotStarted == [step |-> "none", from |-> Missing, to |-> Missing, skip |-> FALSE, read |-> {}]
Init ==
    /\ dir = 1 /\ bak = Missing /\ run = 1 /\ published = 1
    /\ check = Idle /\ lock = Missing /\ skipped = {} /\ overlap = FALSE
    /\ worker = [w \in Workers |-> NotStarted]

Works(v) == v \in Versions \ Broken
Alive(w) == worker[w].step \notin {"none", "died", "exited"}

-----------------------------------------------------------------------------
(* The scheduler: __check *)

\* isUpgradeLocked: the lock of a worker that is not alive is removed.
NotLocked == \A w \in Workers : Alive(w) => lock # w

CheckLock ==
    /\ run # Missing /\ check.step = "idle" /\ NotLocked
    /\ lock' = Missing
    /\ check' = [check EXCEPT !.step = "ask"]
    /\ overlap' = (overlap \/ \E w \in Workers : Alive(w))
    /\ UNCHANGED <<disk, run, published, worker, skipped>>

CheckFails ==
    /\ check.step # "idle" /\ check' = Idle
    /\ UNCHANGED <<disk, run, published, worker, lock, skipped, overlap>>

\* checkForUpdate: updateLastCheck reads the state and writes it back.
ReadState ==
    /\ check.step = "ask" /\ dir # Missing
    /\ check' = [step |-> "write", cur |-> dir, read |-> skipped]
    /\ UNCHANGED <<disk, run, published, worker, lock, skipped, overlap>>

\* The installed version is the one the worker starts from.
Available == published > check.cur /\ published \notin check.read
WriteState ==
    /\ check.step = "write"
    /\ skipped' = check.read
    /\ IF ~Available THEN check' = Idle /\ UNCHANGED worker
       ELSE \E w \in Workers :
              /\ worker[w].step = "none" /\ \A x \in 1..w - 1 : worker[x].step # "none"
              /\ worker' = [worker EXCEPT ![w].step = "start", ![w].from = check.cur, ![w].to = published]
              /\ check' = [Idle EXCEPT !.step = "lock"]
    /\ UNCHANGED <<disk, run, published, lock, overlap>>

Started(w) == worker[w].step # "none" /\ \A x \in Workers : x > w => worker[x].step = "none"
WriteLock ==
    /\ check.step = "lock" /\ check' = Idle
    /\ \E w \in Workers : Started(w) /\ lock' = w
    /\ UNCHANGED <<disk, run, published, worker, skipped, overlap>>

-----------------------------------------------------------------------------
(* The worker *)

At(w, step) == worker[w].step = step
Goes(w, step) == worker' = [worker EXCEPT ![w].step = step]
Same == UNCHANGED <<run, published, check, lock, skipped, overlap>>

\* createBackup: the old one is removed, and a whole copy is renamed to it.  If
\* it cannot be made, the worker ends (Exits).  And if it went on.
BackupTried(w) ==
    At(w, "backup") /\ bak' \in {Missing, dir} /\ Goes(w, "update") /\ UNCHANGED dir /\ Same
RemoveOldBackup(w) == At(w, "start") /\ bak' = Missing /\ Goes(w, "backup") /\ UNCHANGED dir /\ Same
CreateBackup(w) == At(w, "backup") /\ dir # Missing /\ bak' = dir /\ Goes(w, "update") /\ UNCHANGED dir /\ Same

\* runPluginUpdate
UpdateBegins(w) == At(w, "update") /\ dir' = Missing /\ Goes(w, "updating") /\ UNCHANGED bak /\ Same
Updated(w) ==
    /\ At(w, "updating")
    /\ dir' = worker[w].to /\ Goes(w, "verify")
    /\ UNCHANGED bak /\ Same
UpdateFails(w) ==
    /\ At(w, "updating")
    /\ dir' \in {Missing, worker[w].from, worker[w].to} /\ Goes(w, "restore")
    /\ UNCHANGED bak /\ Same

\* verifyUpgrade: the plugin answers, of whatever version it is.  It may fail
\* for other reasons, a timeout or a failure of the command.
Verified(w) == At(w, "verify") /\ run # Missing /\ Goes(w, "remove") /\ UNCHANGED disk /\ Same
NotVerified(w) ==
    /\ At(w, "verify")
    /\ worker' = [worker EXCEPT ![w].step = "restore", ![w].skip = TRUE]
    /\ UNCHANGED disk /\ Same

\* removeBackup, or it fails
RemoveBackup(w) == At(w, "remove") /\ bak' \in {Missing, bak} /\ Goes(w, "last") /\ UNCHANGED dir /\ Same

\* handleRollback, restoreFromBackup
Restore(w) ==
    /\ At(w, "restore")
    /\ IF bak = Missing THEN UNCHANGED dir /\ Goes(w, "fallback")
       ELSE dir' = Missing /\ Goes(w, "restoring")
    /\ UNCHANGED bak /\ Same
Restored(w) ==
    /\ At(w, "restoring") /\ bak # Missing
    /\ dir' = bak /\ bak' = Missing /\ Goes(w, "restart")
    /\ Same
RestoreFails(w) == At(w, "restoring") /\ Goes(w, "fallback") /\ UNCHANGED disk /\ Same

\* fallbackInstallOldVersion: uninstall, and install
Uninstall(w) ==
    /\ At(w, "fallback")
    /\ dir' \in {Missing, dir} /\ Goes(w, "uninstalled")
    /\ UNCHANGED bak /\ Same
Install(w) ==
    /\ At(w, "uninstalled")
    /\ dir' \in {worker[w].from, dir} /\ Goes(w, "restart")
    /\ UNCHANGED bak /\ Same

\* waitForGateway, and what is left to be noted
RollbackEnds(w) ==
    /\ At(w, "restart")
    /\ Goes(w, IF worker[w].skip THEN "skip" ELSE "last")
    /\ UNCHANGED disk /\ Same

\* addSkippedVersion, if verification has failed, and updateLastUpgrade: both
\* read the state and write it back; the former may fail.
Forgets(w, step) == worker' = [worker EXCEPT ![w].step = step, ![w].read = {}]
ReadNoted(w) ==
    /\ worker[w].step \in {"skip", "last"}
    /\ worker' = [worker EXCEPT ![w].step = IF @ = "skip" THEN "skipping" ELSE "lasting",
                               ![w].read = skipped]
    /\ UNCHANGED disk /\ Same
WriteSkipped(w) ==
    /\ At(w, "skipping")
    /\ skipped' \in {skipped, worker[w].read \cup {worker[w].to}} /\ Forgets(w, "last")
    /\ UNCHANGED <<disk, run, published, check, lock, overlap>>
WriteLast(w) ==
    /\ At(w, "lasting")
    /\ skipped' = worker[w].read /\ Forgets(w, "ok")
    /\ UNCHANGED <<disk, run, published, check, lock, overlap>>

\* The worker ends, by itself, by an error or a crash.
Exits(w) ==
    /\ Alive(w)
    /\ worker' = [worker EXCEPT ![w] =
                     [NotStarted EXCEPT !.step = IF At(w, "ok") THEN "exited" ELSE "died"]]
    /\ UNCHANGED disk /\ Same

-----------------------------------------------------------------------------
(* The gateway and npm *)

\* The worker asks for it while it waits for the gateway, and it may happen at
\* any time.
GatewayRestarts ==
    /\ run' = IF Works(dir) THEN dir ELSE Missing
    /\ check' = Idle
    /\ UNCHANGED <<disk, published, worker, lock, skipped, overlap>>

Publish ==
    /\ published < Latest /\ published' = published + 1
    /\ UNCHANGED <<disk, run, check, worker, lock, skipped, overlap>>

Next ==
    \/ CheckLock \/ CheckFails \/ ReadState \/ WriteState \/ WriteLock
    \/ \E w \in Workers :
        \/ RemoveOldBackup(w) \/ CreateBackup(w) \/ UpdateBegins(w) \/ Updated(w) \/ UpdateFails(w)
        \/ Verified(w) \/ NotVerified(w) \/ RemoveBackup(w) \/ Restore(w) \/ Restored(w)
        \/ RestoreFails(w) \/ Uninstall(w) \/ Install(w) \/ RollbackEnds(w)
        \/ ReadNoted(w) \/ WriteSkipped(w) \/ WriteLast(w) \/ Exits(w)
    \/ GatewayRestarts \/ Publish

Spec == Init /\ [][Next]_vars

-----------------------------------------------------------------------------
(* Properties *)

\* At every step, so that a crash does no harm, a version that works is in the
\* plugin's directory or in the backup.  It is given up only
\*  - when another version is installed than the gateway runs, which answers
\*    for it in the verification;
\*  - by a worker that started from a broken version, which a worker that died
\*    may leave while the gateway still runs the old one;
\*  - after a check has gone on while a worker was at work, which only happens
\*    if the lock of the worker was not written: the check before had failed, or
\*    the gateway was restarted.
Kept == Works(dir) \/ Works(bak)
KeepsPlugin ==
    /\ (Kept /\ ~Kept' /\ ~overlap) =>
         \E w \in Workers :
             \/ Alive(w) /\ ~Works(worker[w].from) /\ worker'[w] # worker[w]
             \/ RemoveBackup(w) /\ run # dir
    /\ (~overlap /\ overlap') => \A w \in Workers : Alive(w) => lock # w
PluginKept == [][KeepsPlugin]_vars
=============================================================================
