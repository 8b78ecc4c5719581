------------------------------- MODULE JobRuns -------------------------------
(***************************************************************************)
(* Runs of the jobs that ScheduledJobs keeps timers of, started by the     *)
(* timer or by hand, as often and as close together as they like. Each run *)
(* has a row among the deployments. A backup of a volume that is to turn   *)
(* its service off holds a lock of the service while it stops it, archives *)
(* the volume, starts it and uploads the archive. The jobs are all of one  *)
(* kind, on one service, and archive into one directory of the bucket:     *)
(* what jobs of different kinds or services share is not modelled, for     *)
(* they share nothing.                                                     *)
(***************************************************************************)
EXTENDS Naturals, FiniteSets

CONSTANTS
  Jobs,       \* ids of the jobs
  Here,       \* the kinds the jobs may be of
  Keep,       \* keepLatestCount of each job, 0 for all
  Matches,    \* Matches[j]: jobs whose archives the pattern of j matches
  Rank,       \* the names of the archives are in the order of Rank, then of time
  MaxRuns,    \* bound of the model: runs
  MaxScale,   \* bound of the model: replicas a user gives the service
  MaxEvents   \* bound of the model: runs, failed commands, deployments, restarts

ASSUME JobsAssumption == Jobs # {}
ASSUME KeepAssumption == Keep \in [Jobs -> Nat] /\ Rank \in [Jobs -> Nat]
ASSUME MatchesAssumption ==
  Matches \in [Jobs -> SUBSET Jobs] /\ \A j \in Jobs : j \in Matches[j]
ASSUME BoundsAssumption ==
  MaxRuns \in Nat /\ MaxScale \in Nat \ {0} /\ MaxEvents \in Nat

VARIABLES
  kind,       \* what the jobs are; it never changes
  turnOff,    \* the jobs that turn the service off; it never changes
  flock,      \* whether the host has the flock command; it never changes
  run,        \* run[r]: the r-th run
  row,        \* row[r]: the status of its row among the deployments
  replicas,   \* what the service runs
  wanted,     \* what the last deployment of the service asked for
  lock,       \* the run that holds the lock of the service, 0 for none
  local,      \* the runs whose archive is on the host
  bucket,     \* the runs whose archive, whole or not, is in the bucket
  boot,       \* what a starting server does about the rows of the one before
  failed,     \* runs one of whose commands failed
  robbed,     \* runs whose archive on the host a failed run of their job removed
  stored,     \* runs that ever put an archive into the bucket, be it a part of one
  uploaded,   \* those of them that put it there whole
  harmed,     \* whether a failure or a deployment left the service off its scale
  raced,      \* jobs of which two runs made their rows at the same time
  events      \* runs, failed commands, deployments and restarts so far

rigid == <<kind, turnOff, flock>>
host  == <<replicas, wanted, lock, local, bucket>>
ghost == <<failed, robbed, stored, uploaded, harmed, raced>>
vars  == <<rigid, run, row, host, boot, ghost, events>>

-----------------------------------------------------------------------------
Runs     == 1..MaxRuns
Kinds    == {"backup", "volume", "schedule", "host"}
ASSUME HereAssumption == Here \subseteq Kinds
Scale    == 0..MaxScale
Statuses == {"none", "running", "done", "error", "cancelled"}
Locked   == {"inspect", "stop", "tar", "start", "upload", "remove"}
Stages   == Locked \cup {"none", "supersede", "row", "find", "lock", "unload", "notify",
                         "command", "status", "list", "delete", "clean", "notifyError",
                         "error", "end", "lost", "dead"}

\* The run of a job: where it is, when it named its archive, the scale to go back
\* to, whether the archiving succeeded and the archives it is to delete.
Run == [job : Jobs, at : Stages, stamp : 0..MaxRuns, saved : Scale, ok : BOOLEAN,
        todo : SUBSET Runs]

\* The job of a run that has not begun says nothing.
nobody == CHOOSE j \in Jobs : TRUE

nowhere(j) == [job |-> j, at |-> "none", stamp |-> 0, saved |-> 0, ok |-> TRUE,
               todo |-> {}]

at(r, stage) == run[r].at = stage
jobOf(r)     == run[r].job
begun        == {r \in Runs : ~at(r, "none")}
over(r)      == run[r].at \in {"none", "end", "lost", "dead"}
offTurning(r) == kind = "volume" /\ jobOf(r) \in turnOff

TypeOK ==
  /\ kind \in Here /\ turnOff \subseteq Jobs /\ flock \in BOOLEAN
  /\ run \in [Runs -> Run] /\ row \in [Runs -> Statuses]
  /\ \A r \in Runs : over(r) \/ at(r, "supersede") \/ at(r, "row") \/ row[r] # "none"
  /\ replicas \in Scale /\ wanted \in Scale
  /\ lock \in {0} \cup {r \in Runs : run[r].at \in Locked \cup {"dead"}}
  /\ local \subseteq begun /\ bucket \subseteq stored
  /\ uploaded \subseteq stored /\ stored \subseteq begun
  /\ boot \in [at : {"read", "write", "up", "unswept"}, found : SUBSET Runs]
  /\ failed \subseteq Runs /\ robbed \subseteq Runs
  /\ harmed \in BOOLEAN /\ raced \subseteq Jobs
  /\ events \in 0..MaxEvents

Init ==
  /\ kind \in Here /\ flock \in BOOLEAN /\ turnOff \in SUBSET Jobs
  /\ kind # "volume" => turnOff = {}
  /\ turnOff = {} => flock
  /\ run = [r \in Runs |-> nowhere(nobody)]
  /\ row = [r \in Runs |-> "none"]
  /\ replicas = MaxScale /\ wanted = MaxScale
  /\ lock = 0 /\ local = {} /\ bucket = {}
  /\ boot = [at |-> "up", found |-> {}]
  /\ failed = {} /\ robbed = {} /\ stored = {} /\ uploaded = {}
  /\ harmed = FALSE /\ raced = {}
  /\ events = 0

-----------------------------------------------------------------------------
Event == events < MaxEvents /\ events' = events + 1
Quiet == UNCHANGED <<rigid, boot, events>>

continue(r, x) == run' = [run EXCEPT ![r] = x]
goto(r, stage) == continue(r, [run[r] EXCEPT !.at = stage])
scheduled == kind \in {"schedule", "host"}

\* Mutant: the lock is let go only by a command that succeeds.
releasedAtTheEnd(r) == IF lock = r /\ at(r, "remove") THEN 0 ELSE lock

\* The command of r exits: flock and the trap on EXIT both let the lock go.
released(r) == IF lock = r THEN 0 ELSE lock

\* The timer fires, or the user asks for a run.
begin ==
  /\ \E r \in Runs, j \in Jobs :
       /\ at(r, "none") /\ \A s \in Runs : s < r => ~at(s, "none")
       /\ continue(r, [nowhere(j) EXCEPT !.at = IF scheduled THEN "supersede" ELSE "row"])
  /\ Event /\ UNCHANGED <<rigid, boot, row, host, ghost>>

\* Mutant: only the schedules of the server are looked at.
toSupersedeHost(j) ==
  {s \in Runs : jobOf(s) = j /\ row[s] = "running" /\ kind = "host"}

\* A new run of a schedule makes an error of the row of the one before.
toSupersede(j) == {s \in Runs : jobOf(s) = j /\ row[s] = "running"}

supersede(r) ==
  /\ at(r, "supersede")
  /\ row' = [s \in Runs |-> IF s \in toSupersede(jobOf(r)) THEN "error" ELSE row[s]]
  /\ raced' = raced \cup {j \in {jobOf(r)} : \E s \in Runs : jobOf(s) = j /\ at(s, "row")}
  /\ goto(r, "row")
  /\ Quiet /\ UNCHANGED <<host, failed, robbed, stored, uploaded, harmed>>

\* Mutant: the lock is not taken.
afterRowUnlocked(r) ==
  CASE kind = "backup"  -> "find"
    [] scheduled        -> "command"
    [] offTurning(r)    -> "inspect"
    [] OTHER            -> "tar"

\* The row is there; what follows names the archive by the time.
afterRow(r) ==
  CASE kind = "backup"  -> "find"
    [] scheduled        -> "command"
    [] offTurning(r)    -> "lock"
    [] OTHER            -> "tar"

insertRow(r) ==
  /\ at(r, "row")
  /\ row' = [row EXCEPT ![r] = "running"]
  /\ continue(r, [run[r] EXCEPT !.at = afterRow(r),
                    !.stamp = 1 + Cardinality({s \in Runs : run[s].stamp # 0})])
  /\ Quiet /\ UNCHANGED <<host, ghost>>

\* Backups of Postgres and of libsql read their destination with the row made.
find(r) ==
  /\ at(r, "find") /\ goto(r, "upload")
  /\ Quiet /\ UNCHANGED <<row, host, ghost>>

-----------------------------------------------------------------------------
(* The command of a volume backup                                          *)

\* Mutant: the lock is the job's, not the service's.
freeOfJob(r) == ~\E s \in Runs : lock = s /\ jobOf(s) = jobOf(r)

free(r) == lock = 0

\* flock, or mkdir until it succeeds.
takeLock(r) ==
  /\ at(r, "lock") /\ free(r)
  /\ lock' = r /\ goto(r, "inspect")
  /\ Quiet /\ UNCHANGED <<row, replicas, wanted, local, bucket, ghost>>

inspect(r) ==
  /\ at(r, "inspect")
  /\ continue(r, [run[r] EXCEPT !.at = "stop", !.saved = replicas])
  /\ Quiet /\ UNCHANGED <<row, host, ghost>>

stop(r) ==
  /\ at(r, "stop")
  /\ replicas' = 0 /\ goto(r, "tar")
  /\ Quiet /\ UNCHANGED <<row, wanted, lock, local, bucket, ghost>>

tar(r) ==
  /\ at(r, "tar")
  /\ local' = local \cup {r}
  /\ goto(r, IF offTurning(r) THEN "start" ELSE "upload")
  /\ Quiet /\ UNCHANGED <<row, replicas, wanted, lock, bucket, ghost>>

\* The service is started whether or not the archiving succeeded.
start(r) ==
  /\ at(r, "start")
  /\ replicas' = run[r].saved
  /\ continue(r, [run[r] EXCEPT !.at = IF run[r].ok THEN "upload" ELSE "clean",
                               !.saved = 0, !.ok = TRUE])
  /\ lock' = IF run[r].ok THEN lock ELSE released(r)
  /\ Quiet /\ UNCHANGED <<row, wanted, local, bucket, ghost>>

hasArchive(r) == kind = "volume" => r \in local

upload(r) ==
  /\ at(r, "upload") /\ hasArchive(r)
  /\ bucket' = bucket \cup {r}
  /\ stored' = stored \cup {r} /\ uploaded' = uploaded \cup {r}
  /\ goto(r, IF kind = "volume" THEN "remove" ELSE "notify")
  /\ Quiet /\ UNCHANGED <<row, replicas, wanted, lock, local, failed, robbed, harmed, raced>>

\* A dump that ended early is taken out of the bucket again.
unload(r) ==
  /\ at(r, "unload")
  /\ bucket' = bucket \ {r} /\ goto(r, "notifyError")
  /\ Quiet /\ UNCHANGED <<row, replicas, wanted, lock, local, ghost>>

retains(r) == Keep[jobOf(r)] > 0

remove(r) ==
  /\ at(r, "remove") /\ hasArchive(r)
  /\ local' = local \ {r} /\ lock' = released(r)
  /\ goto(r, IF retains(r) THEN "list" ELSE "status")
  /\ Quiet /\ UNCHANGED <<row, replicas, wanted, bucket, ghost>>

\* There is no archive any more to upload or to remove.
missArchive(r) ==
  /\ run[r].at \in {"upload", "remove"} /\ ~hasArchive(r)
  /\ lock' = released(r) /\ goto(r, "clean")
  /\ Quiet /\ UNCHANGED <<row, replicas, wanted, local, bucket, ghost>>

-----------------------------------------------------------------------------
(* The end of a run                                                        *)

later(s, r) ==
  \/ Rank[jobOf(s)] > Rank[jobOf(r)]
  \/ Rank[jobOf(s)] = Rank[jobOf(r)] /\ run[s].stamp > run[r].stamp

\* Mutant: one archive too many is cut off.
beyondOneLess(names, n) ==
  {r \in names : Cardinality({s \in names : later(s, r)}) >= n - 1}

\* sort -r | tail -n +$((n+1))
beyond(names, n) == {r \in names : Cardinality({s \in names : later(s, r)}) >= n}

matched(j) == {s \in bucket : jobOf(s) \in Matches[j]}

list(r) ==
  /\ at(r, "list")
  /\ continue(r, [run[r] EXCEPT !.at = "delete",
                    !.todo = beyond(matched(jobOf(r)), Keep[jobOf(r)])])
  /\ Quiet /\ UNCHANGED <<row, host, ghost>>

afterRetention == IF kind = "volume" THEN "status" ELSE "end"

delete(r) ==
  /\ at(r, "delete")
  /\ bucket' = bucket \ run[r].todo
  /\ continue(r, [run[r] EXCEPT !.at = afterRetention, !.todo = {}])
  /\ Quiet /\ UNCHANGED <<row, replicas, wanted, lock, local, ghost>>

\* A notification of success sent, or the command of a schedule run.
proceed(r) ==
  /\ run[r].at \in {"notify", "command"}
  /\ goto(r, "status")
  /\ Quiet /\ UNCHANGED <<row, host, ghost>>

status(r) ==
  /\ at(r, "status")
  /\ row' = [row EXCEPT ![r] = "done"]
  /\ goto(r, IF kind = "backup" /\ retains(r) THEN "list" ELSE "end")
  /\ Quiet /\ UNCHANGED <<host, ghost>>

\* Mutant: the archives of all volume backups are removed.
ownArchivesAll(r) == local

\* rm -rf of every archive in the directory of the job.
ownArchives(r) == {s \in local : jobOf(s) = jobOf(r)}

clean(r) ==
  /\ at(r, "clean")
  /\ local' = local \ ownArchives(r)
  /\ robbed' = robbed \cup {s \in local \ {r} : jobOf(s) = jobOf(r)}
  /\ goto(r, "error")
  /\ Quiet
  /\ UNCHANGED <<row, replicas, wanted, lock, bucket, failed, stored, uploaded, harmed, raced>>

notifyError(r) ==
  /\ at(r, "notifyError") /\ goto(r, "error")
  /\ Quiet /\ UNCHANGED <<row, host, ghost>>

error(r) ==
  /\ at(r, "error")
  /\ row' = [row EXCEPT ![r] = "error"]
  /\ goto(r, "end")
  /\ Quiet /\ UNCHANGED <<host, ghost>>

-----------------------------------------------------------------------------
(* Failures, deployments of the service and restarts                       *)

\* Where a run may go on when the command or query at its stage fails. Nobody takes
\* care of a failure between the row and the try, nor of one while a failure is
\* handled. Retention swallows the failures of its commands, but in a volume backup
\* not that of reading the destination first.
onFailure(r) ==
  CASE at(r, "row") -> {"end"}
    [] run[r].at \in {"find", "clean", "notifyError", "error"} -> {"lost"}
    [] at(r, "delete") -> {afterRetention}
    [] at(r, "list") -> {afterRetention} \cup (IF kind = "volume" THEN {"clean"} ELSE {})
    [] at(r, "tar") /\ offTurning(r) -> {"start"}
    [] at(r, "upload") /\ kind = "backup" -> {"unload"}
    [] OTHER -> {CASE kind = "backup" -> "notifyError"
                   [] scheduled       -> "error"
                   [] OTHER           -> "clean"}

\* What the shell of a command knew goes with it.
left(r, stage) == [run[r] EXCEPT !.at = stage, !.saved = 0, !.ok = TRUE, !.todo = {}]

\* Archiving may leave part of an archive on the host, and a dump that breaks off part
\* of one in the bucket, for what is piped there counts as whole when the pipe ends;
\* stopping may have stopped the service; a failed row is written as an error.
fail(r) ==
  /\ run[r].at \in (Locked \ {"lock"}) \cup
                   {"row", "find", "unload", "notify", "command", "status", "list",
                    "delete", "clean", "notifyError", "error"}
  /\ Event
  /\ \E stage \in onFailure(r) :
       /\ continue(r, IF stage = "start" THEN [run[r] EXCEPT !.at = "start", !.ok = FALSE]
                      ELSE left(r, stage))
       /\ lock' = IF stage = "start" THEN lock ELSE released(r)
  /\ row' = IF at(r, "row") THEN [row EXCEPT ![r] = "error"] ELSE row
  /\ failed' = failed \cup {r}
  /\ \/ /\ UNCHANGED <<replicas, local, bucket, stored>>
        /\ harmed' = (harmed \/ at(r, "start"))
     \/ /\ at(r, "tar") /\ local' = local \cup {r}
        /\ UNCHANGED <<replicas, bucket, stored, harmed>>
     \/ /\ at(r, "upload") /\ kind = "backup"
        /\ bucket' = bucket \cup {r} /\ stored' = stored \cup {r}
        /\ UNCHANGED <<replicas, local, harmed>>
     \/ /\ at(r, "stop") /\ replicas' = 0 /\ harmed' = TRUE
        /\ UNCHANGED <<local, bucket, stored>>
  /\ UNCHANGED <<rigid, boot, wanted, robbed, uploaded, raced>>

\* The scale of the service is between being read and being restored.
inWindow(r) == offTurning(r) /\ run[r].at \in {"stop", "tar", "start"}

\* A deployment gives the service its scale. Within the window of a run the run
\* takes it back; outside it repairs what went wrong before.
deploy ==
  /\ Event
  /\ \E n \in Scale : replicas' = n /\ wanted' = n
  /\ harmed' = \E r \in Runs : inWindow(r)
  /\ UNCHANGED <<rigid, run, row, lock, local, bucket, boot, failed, robbed, stored,
                 uploaded, raced>>

\* The server dies with all runs, a dump perhaps before its upload. The kernel lets a flock go,
\* nobody removes the directory that stands for the lock elsewhere. A server sweeps
\* the rows of the one before, unless an earlier part of its start fails; the cloud
\* edition never does.
restart ==
  /\ Event
  /\ run' = [r \in Runs |-> IF over(r) THEN run[r] ELSE left(r, "dead")]
  /\ lock' = IF flock THEN 0 ELSE lock
  /\ boot' \in [at : {"read", "unswept"}, found : {{}}]
  /\ \E parts \in SUBSET {r \in Runs : at(r, "upload") /\ kind = "backup"} :
       bucket' = bucket \cup parts /\ stored' = stored \cup parts
  /\ harmed' = (harmed \/ \E r \in Runs : inWindow(r) /\ ~at(r, "stop"))
  /\ UNCHANGED <<rigid, row, replicas, wanted, local, failed, robbed, uploaded, raced>>

\* Mutant: every row of a schedule is left alone.
toCancelBackups == {r \in Runs : row[r] = "running" /\ ~scheduled}

\* initCancelDeployments: rows of schedules other than those of the server itself
\* are left alone.
toCancel == {r \in Runs : row[r] = "running" /\ kind # "schedule"}

selectRunning ==
  /\ boot.at = "read"
  /\ boot' = [at |-> "write", found |-> toCancel]
  /\ UNCHANGED <<rigid, run, row, host, ghost, events>>

cancelRunning ==
  /\ boot.at = "write"
  /\ row' = [r \in Runs |-> IF r \in boot.found THEN "cancelled" ELSE row[r]]
  /\ boot' = [at |-> "up", found |-> {}]
  /\ UNCHANGED <<rigid, run, host, ghost, events>>

\* The sweep swallows its own failure.
sweepFails ==
  /\ boot.at \in {"read", "write"} /\ Event
  /\ boot' = [at |-> "unswept", found |-> {}]
  /\ UNCHANGED <<rigid, run, row, host, ghost>>

-----------------------------------------------------------------------------
Step(r) ==
  \/ supersede(r) \/ insertRow(r) \/ find(r)
  \/ takeLock(r) \/ inspect(r) \/ stop(r) \/ tar(r) \/ start(r)
  \/ upload(r) \/ unload(r) \/ remove(r) \/ missArchive(r)
  \/ list(r) \/ delete(r) \/ proceed(r) \/ status(r)
  \/ clean(r) \/ notifyError(r) \/ error(r)

Next ==
  \/ begin \/ deploy \/ restart \/ selectRunning \/ cancelRunning \/ sweepFails
  \/ \E r \in Runs : Step(r) \/ fail(r)

\* Every command of a run ends, be it in failure.
Spec == Init /\ [][Next]_vars /\ \A r \in Runs : WF_vars(Step(r))

-----------------------------------------------------------------------------
\* Backups of the volumes of a service never leave it at another scale than its
\* last deployment gave it, however many of them run at once: the lock keeps a run
\* from saving the scale another run set. Exceptions are a stop or a start that
\* failed, a server that died and a deployment that ran while the service was
\* stopped, up to the next deployment.
ServiceRestored ==
  ~harmed /\ (\A r \in Runs : inWindow(r) => at(r, "stop")) => replicas = wanted

\* A backup ends as an error only if one of its own commands failed or a failed run
\* of the same job, which removes all archives of the job from the host, took the
\* archive it was about to upload.
FailuresExplained ==
  kind \in {"backup", "volume"} =>
    \A r \in Runs : row[r] = "error" => r \in failed \cup robbed

\* The archives of j ever put whole into the bucket that are among its newest, as
\* many as it keeps, when those of counted are counted.
recent(j, counted) ==
  {r \in uploaded :
     /\ jobOf(r) = j
     /\ \/ Keep[j] = 0
        \/ Cardinality({s \in counted : jobOf(s) = j /\ later(s, r)}) < Keep[j]}

\* What the forms say of keepLatestCount: how many recent backups to keep.
KeepsRecent == \A j \in Jobs : recent(j, uploaded) \subseteq bucket

alone(j) == \A i \in Jobs : j \in Matches[i] \/ i \in Matches[j] => i = j

\* It holds of a job whose pattern matches its own archives only and whose archives
\* no other pattern matches, whatever the order in which runs list and delete, up to
\* the parts of archives that dumps that failed or were killed left in the bucket, if
\* only for a while: each may cost the job one of its recent archives, and no more.
AloneKeepsRecent == \A j \in Jobs : alone(j) => recent(j, stored) \subseteq bucket

\* Once a server is up that could sweep the rows of the one before, no row is left
\* running by a run that is over, except when the handling of a failure failed as
\* well or nobody was to handle it, as between the row of a Postgres backup and the
\* reading of its destination, and except for the rows of schedules the server
\* before was running, which wait for the next run of the schedule.
RunningRowsAreRuns ==
  boot.at = "up" =>
    \A r \in Runs :
      row[r] = "running" =>
        ~over(r) \/ at(r, "lost") \/ (at(r, "dead") /\ kind = "schedule")

\* A schedule has one running row at most, however often it is run before a run is
\* over, unless two of its runs made their rows at the same time.
OneRunningRow ==
  scheduled =>
    \A j \in Jobs \ raced :
      Cardinality({r \in Runs : jobOf(r) = j /\ row[r] = "running"}) <= 1

\* A run that waits for the lock gets it, whatever fails, unless the lock is a
\* directory and its holder died with a server.
LockWaitersProceed ==
  \A r \in Runs :
    at(r, "lock") ~>
      (~at(r, "lock") \/ (~flock /\ \E s \in Runs : lock = s /\ at(s, "dead")))

\* Seen from the service, the stages of its backups are those of ServiceWindow: one
\* at a time, however they fail, and none sets a scale it has not found. A run
\* that got past the lock, or kept a scale for the next attempt, would break it.
inWindows  == {r \in Runs : offTurning(r) /\ run[r].at \in Locked}
scaleFound == IF lock \in inWindows THEN run[lock].saved ELSE 0

Window == INSTANCE ServiceWindow WITH inside <- inWindows, found <- scaleFound

ImplementsServiceWindow == Window!Spec
-----------------------------------------------------------------------------
(* The inductive invariant behind the safety properties                    *)

\* The stages of a run before anything of it is in the bucket.
early == {"none", "supersede", "row", "find", "lock", "inspect", "stop", "tar", "start",
          "upload"}

\* What the stage of a run says of its job, its row and its archive.
StagesOK ==
  \A r \in Runs :
    /\ run[r].at \in {"none", "supersede", "row"} => row[r] = "none" /\ run[r].stamp = 0
    /\ run[r].at \in early => r \notin stored
    /\ at(r, "unload") => r \notin uploaded
    /\ run[r].at \in {"lock", "inspect", "stop", "start"} => offTurning(r)
    /\ run[r].at \in {"tar", "remove", "clean"} => kind = "volume"
    /\ run[r].at \in {"find", "unload", "notify", "notifyError"} => kind = "backup"
    /\ run[r].at \in {"supersede", "command"} => scheduled
    /\ run[r].at \in {"list", "delete"} => retains(r)
    /\ run[r].at \in {"upload", "list", "delete"} => ~scheduled

\* Only the run that holds the lock is between taking and releasing it.
LockOK ==
  \A r \in Runs :
    /\ lock = r => offTurning(r)
    /\ offTurning(r) /\ run[r].at \in Locked => lock = r

\* A run that has read the scale of the service has read what was asked for.
ScaleOK == ~harmed => \A r \in Runs : inWindow(r) => run[r].saved = wanted

\* Who is about to end as an error, or may become so, has a reason.
ErrorsOK ==
  kind \in {"backup", "volume"} =>
    \A r \in Runs :
      /\ run[r].at \in {"clean", "unload", "notifyError", "error"} =>
           r \in failed \cup robbed
      /\ ~run[r].ok => r \in failed
      /\ run[r].at \in {"start", "upload", "remove"} /\ kind = "volume"
           => r \in local \cup robbed \cup failed

\* A running row belongs to a run, or to one that could not end; a server that
\* starts has found the rows of the one before.
RowsOK ==
  /\ \A r \in Runs : row[r] = "running" => ~over(r) \/ at(r, "lost") \/ at(r, "dead")
  /\ boot.at = "write" /\ kind # "schedule" =>
       \A r \in Runs : row[r] = "running" /\ at(r, "dead") => r \in boot.found
  /\ \A r \in boot.found : row[r] # "none"
  /\ kind = "backup" => \A r \in Runs : run[r].at \in {"list", "delete"} => row[r] # "running"

\* Between superseding and making its own row a run finds no running row.
SingleOK ==
  scheduled =>
    \A r, s \in Runs :
      jobOf(r) = jobOf(s) /\ jobOf(r) \notin raced /\ r # s =>
        /\ ~(at(r, "row") /\ at(s, "row"))
        /\ ~(at(r, "row") /\ row[s] = "running")
        /\ ~(row[r] = "running" /\ row[s] = "running")

\* No run is about to delete a recent archive of a job that is alone.
TodoOK ==
  \A r \in Runs :
    /\ run[r].todo \subseteq stored
    /\ \A j \in Jobs : alone(j) => run[r].todo \cap recent(j, stored) = {}

IInv ==
  /\ TypeOK /\ StagesOK
  /\ LockOK /\ ScaleOK /\ ServiceRestored
  /\ ErrorsOK /\ FailuresExplained
  /\ RowsOK /\ RunningRowsAreRuns
  /\ SingleOK
  /\ TodoOK /\ AloneKeepsRecent
=============================================================================
