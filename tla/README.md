# Formal models of dinghy

dinghy is a self-hosted platform that deploys applications and docker compose
projects to the local host and to remote servers: a Next.js/tRPC server with an
in-memory deployment queue, the services library under `packages/server`, two
small services for the cloud edition (`apps/api`, `apps/schedules`) and a
metrics agent in Go (`apps/monitoring`). This directory holds TLA+ models of its
concurrent core, TLC configurations that check them on small instances and
TLAPS proofs of the most important properties for every instance.

Paths below are relative to the repository root.

## 1. Inventory of the system

| Component | State | Operations | Hard because of | Correct when |
|---|---|---|---|---|
| Deployment queue: `apps/dokploy/server/queues/{in-memory-queue,concurrency,queue-types}.ts` | per partition (server): waiting array, active list, set of active groups; `running`, `processor`, counter | `process`, `run`, `close`, `add`, `remove`, `removeWaiting`, `clearWaiting`; `drainPartition` and `runJob` inside | a drain awaits the configured limit while others are in flight; limits change under it; jobs withdrawn meanwhile | one build per service and partition, limit respected, order kept, no job forgotten |
| Requests that fill it: `queueSetup.ts`, tRPC routers, `pages/api/deploy/*` | none of their own | deploy, redeploy, previews, webhooks, cleaning of queues | independent clients choose the partition | all builds of a service meet in one partition |
| Deployment of a service: `deployments-queue.ts`, `services/{application,compose,preview-deployment,deployment}.ts`, `utils/startup/cancel-deployments.ts`, `server.ts` | database: status of every service, table of deployments; log directories; boot progress | the job's chain of awaits, deletion, start/stop, clearing and removing deployments, crash, boot sweep | every await interleaves with requests and other jobs; anything may fail; crash anywhere | no deployment runs for ever, none is rewritten by a stranger, retention bounded |
| Traefik configuration: `utils/traefik/{application,domain,middleware,redirect,security,forward-auth}.ts` | one YAML file per application, one `middlewares.yml` per server | `manageDomain`, `removeDomain`, `updateDomainMiddlewares`, create/update/remove of redirect and security middlewares, deletion of the file | read, await, write back, without a lock; a failed remote read is an empty file | files stay whole; no lost router, no router of a disabled domain, no router past its password, nothing undefined referred to |
| Domains, redirects and security: `services/{domain,redirect,security}.ts`, `routers/domain.ts` | rows of the database | create, update, toggle, delete of each, deletion of the application | the row and the file are written one after the other, some in a transaction | rows and routers agree |
| Preview deployments: `pages/api/deploy/github.ts`, `services/preview-deployment.ts` | `previewDeployments` rows, their domains; service, code directory and Traefik file on the host | opened/labeled/synchronize/closed events, removal by a user, deletion of the application, build | events delivered twice or at once; creation fails half way; a removal meets a build | within the preview limit, one preview per pull request, nothing left behind |
| Schedules: `utils/schedules`, `services/schedule.ts`, `routers/schedule.ts` | rows; node-schedule jobs in memory; deployments of the schedule | create, update, delete, cron run, manual run, boot | the row is written first and the timer awaits later; overlapping runs | an enabled row has its timer and no other fires; one row runs |
| Backups and restore: `utils/backups`, `utils/restore`, `routers/backup.ts` | the same; files at an S3 destination | the same, plus upload and retention | retention against a running upload; deletion of the database | the newest N backups remain |
| Volume backups: `utils/volume-backups`, `routers/volume-backups.ts` | the same; lock on the host, scale of the service, archives on the host | lock, stop, archive, start, upload, remove, retention, clean-up after a failure | failure or kill in between; lock directory left behind; clean-up of the archives of other runs | the service gets its scale back, archives of other runs survive |
| Cloud schedules: `apps/schedules`, `utils/schedules` of the cloud edition | repeatable BullMQ jobs in Redis | `/create-backup`, `/update-backup`, `/remove-job`, initialisation | calls over HTTP may be lost; the key of a job contains its time zone | a removed job never fires |
| Rollbacks: `services/rollbacks.ts` | `rollback` rows, images | create, remove, roll back | retention removes images | a rollback offered can be executed |
| Cloud deployments: `apps/api` | Inngest events | deploy, cancel | cancellation racing the run | one build per server at a time |
| Database services: `services/{postgres,mysql,...}.ts` | status of the service | deploy, start, stop, rebuild, delete | one docker call between two status writes, without the queue | status follows the service |
| Monitoring agent: `apps/monitoring` | SQLite metrics, tickers | collect, thresholds, cleanup | overlapping ticks | — |
| Billing: `pages/api/stripe/webhook.ts` | subscription state, active servers | webhook events | reordered events | quota matches subscription |
| Permissions, authentication, builders, providers, websockets, UI, migrations | — | — | no shared protocol | not modelled (see section 8) |

How they interact: routers and webhooks call `myQueue.add`; the queue calls
`processDeploymentJob`, which calls the deploy functions of the services; these
write the database and run shell commands (locally, or over ssh); on boot
`server.ts` first listens and then sweeps what the previous process left.
Queue, cron jobs and running builds live in the memory of the process only.
The handlers of domains, previews and schedules are tRPC calls or webhooks of that
process: they interleave at every `await`, with each other, with builds and with
cron runs. Traefik watches the files they write; the cloud edition keeps its
timers in a second process, which calls the same runs.

## 2. Modules

| Module | Models | EXTENDS / INSTANCE |
|---|---|---|
| `DeploymentJobs` | payload of a job, partition and group keys | |
| `ServiceQueue` | abstract: what the queue promises | extends `DeploymentJobs` |
| `DeploymentQueue` | class `InMemoryQueue` | extends `DeploymentJobs`, instantiates `ServiceQueue` |
| `DeploymentRequests` | who adds which payload on a self-hosted instance | extends `DeploymentQueue` |
| `DeploymentLifecycle` | jobs, services, deployment rows, requests, crash, boot | extends `DeploymentJobs`, runs on `Queue == INSTANCE ServiceQueue` |
| `DomainRouters` | abstract: what the files of Traefik promise to the domains | |
| `TraefikConfig` | domains, redirects, users and the files of Traefik | instantiates `DomainRouters` |
| `PreviewHosting` | abstract: what a host keeps of a preview, and until when | |
| `PreviewDeployments` | pull request events, creation and removal of previews | instantiates `PreviewHosting` |
| `ScheduledJobs` | rows and timers of schedules, backups, volume backups, both editions | |
| `ServiceWindow` | abstract: what the lock of a service promises to the backups of its volumes | |
| `JobRuns` | the runs those timers start, their lock, archives and rows | instantiates `ServiceWindow` |
| `<module>Proofs` for all of these but `DeploymentJobs` and the abstract ones | theorems | extend the module and `TLAPS` |
| `DeploymentRowsProofs` | theorems on the rows and statuses of `DeploymentLifecycle` | extends `DeploymentLifecycleProofs` |
| `MC<module>` for the same modules | instances for TLC | extend the module |

Names follow the source. Definitions whose comment starts with "Mutant" are
never used by the specifications: each changes one definition the way a
plausible bug would, to see that a property notices.

### DeploymentQueue

A JavaScript function runs uninterrupted to its next `await`; so each method is
one action, and `drainPartition` is cut at `await this.resolveConcurrency(key)`:

- its first part belongs to the caller (`schedule`, or the end of `runJob`) and
  leaves one more drain in `resolving[p]`;
- `ResolveConcurrency(p)` reads `limit[p]` (the database) and moves the drain
  to `resolved[p][c]`; a failed query or missing row yields 1
  (`QueryMayFail`);
- `DrainPartition(p, c)` is the loop, with the limit `c`, stale or not.

Drains of a partition are interchangeable and counted. The array `waiting` is only
pushed, filtered and spliced, and `seq` numbers its jobs: it is a set ordered by
id. The steps take the result of the `while` loop in closed form, `Admitted(p, c)`; the loop
itself is the recursive function `Loop(p, c)` of the number of iterations, `iterate`, and the
invariant `AdmittedIsTheLoop` compares both in every state. `JobSettles` does not look
at `running`, like the code: builds go on in a closed queue. The timestamps and
`getJobs`, which reads only, are left out.

### DeploymentRequests

`routerJob` carries the server of the service, `webhookJob` does not: on a
self-hosted instance `IS_CLOUD` is false and the webhooks leave `serverId`
unset. `Home` gives the server of each service.

### DeploymentLifecycle

A job is a program counter, `task[j].at`, over the awaits of
`processDeploymentJob` and of what it calls:

    status -> retention -> insert -> build -> rowDone -> statusDone -> notify -> end
                              |         \-> report -> rowError -> statusError -> end
                              \-> insertError -> end

`applications`, `composes` and previews run this protocol in three copies (six
with the rebuild variants); `entity(data)` names the service and
`isPreview` marks where a copy differs: previews send no notification, their
report is a comment on the pull request and not a line in a log file, and their
domain is read outside the `try`. `setRows` and `setStatus` are `UPDATE ...
WHERE`: they do nothing when the row or the service is gone. Row ids are given
in creation order, as `createdAt` is.

Abstracted: the text and titles of rows, commit information added in
`finally`, notifications of a failed build (sent after everything is written),
`buildServerId`, what the shell commands do. `removeLastTenDeployments` is one
step although it awaits for each row: only jobs of the same service create its
rows, and those exclude each other. The removal of each old row has a catch of its
own: any of them may fail (`removeEach`), the row is kept and the job goes on; `stuck`
records such rows. Deletions are one step although they
await between the previews, the row, the queue and the directories
(`PreviewDeployments` cuts them at each of these).

`Faults` selects the optional failures: `retention`, `remove`, `prepare`, `notify`,
`report`, `domain`, `clear`, `sweep`. Each is explained in the module. They are a
constant because some properties hold only without some of them, which is what
the properties' comments, the theorems' assumptions and section 6 say. After a
sweep that failed (`sweepFails`) the server is up with rows of the dead one still
running, until the next start (`boot = "unswept"`).

### TraefikConfig

A handler is `task[h]`: its operation, the stage it waits at and the copies of file,
row and middlewares it has read. On a remote server every read and write is an ssh
command, hence a step; on the local host `readFileSync`/`writeFileSync` join the
step before, unless an `await` of the database, bcrypt or `rm` lies in between
(`inSync`). `setDomain` is `manageDomain` together with `removeDomain`, which it calls for a
disabled domain. Routers are named by their domain and whether they are
`websecure`, middlewares by what they stand for. A failed remote command counts
against `MaxFaults`: reads then yield an empty configuration, as
`loadOrCreateConfig` does, writes throw.

The middlewares of a domain with sign-on (`gate`) need the authentication domain of the
server. `authDomain` is whether its row exists, which an administrator may add and remove at
any time; `createForwardAuthMiddleware` awaits it (`queryAuthDomain`) and without it writes
nothing, while the router refers to the middlewares all the same. `ungated` are the domains
of which that was so at their last save.

`raced` and `calm` are history variables: `raced` records that a write replaced
a file other than the one its handler had read, or was made for a row that had
changed; `calm` that no request which ended overlapped another or met a failure.

`DomainRouters` sees two maps from domains to kinds of router (web and websecure): those
the rows ask for (`kindsAsked`) and those the files show (`kindsShown`). `Save` is the write of
a row, `Publish` the write of a file by `manageDomain` or `removeDomain`, `Create` both at
once, as in the transaction of `createDomain`; `Forget` and `Withdraw` are the deletion of an application
and of its file. Once `raced`, nothing is promised of the files (`Stray`).

### PreviewDeployments

An event reads the applications of the repository with their previews once
(`room` is the comparison with the limit made then), and goes through them:
row, domain, file, link of the domain, job. A removal tries each of its operations on its own, the
row last whatever failed: service, code, file and row here; its fifth, the deployments with their
logs, is in `DeploymentLifecycle`. The queue is reduced to its promise for one application: one build at
a time, any waiting preview next. `overlapped` records the pull requests of which
two activities got in each other's way, `left` the previews of whose removal an
operation failed. Comments on the pull request are left out. `deployPreview` of a
preview without domain ends at once (it throws before its `try`).

`PreviewHosting` keeps for each preview whether it has a row (`Create`, `Drop`), has had one
(`gone`), and has anything on the host (`Host`, `Clear`): the host is cleared before the
row goes. `excused` are the previews of `left` and of the pull requests in `overlapped`.

### ScheduledJobs

A row has a state, a switch and a cron expression; a timer the expression it was set with and
whether it can still be found under its name: node-schedule keeps one job per
name, and setting it again leaves the first firing, unlisted (`armed`). In the
cloud edition the same handlers call `apps/schedules` (`add`, `remove`, `lookup`
and `drop`, each of which may be lost), where the key of a schedule contains a
time zone that its removal does not name (`removed`). `boot` is the start of either process:
it reads the rows of one kind after the other and sets the timers; in the cloud
the clean-up of the queue is not awaited and may come at any time (`clean`), or fail, which
is only logged (`cleanFail`). The reading of a kind may fail too (`bootReadFail`): in the jobs
process and, self-hosted, for the backups, it ends the setting of timers; for the other
kinds it is logged. A create of an enabled backup in the cloud inserts the row and is then
refused if the server is inactive (`refused`).
Deletion of a database cancels the timers of its backups; deletion of any other
service only removes the rows. `disturbed[j]` records why a timer may be wrong:
`overlap` of requests, `lost` call, `left` by a removal that does not look,
`wiped` by the clean-up, `kept` by a clean-up that failed, `skipped` by the start, or refused at
creation, because the server is inactive. A restart begins afresh, since it reads everything
again. A failure before the row is written changes nothing and is not a step.

### JobRuns

A run is a program counter over the awaits and commands of `runBackup`,
`runVolumeBackup` and `runCommand` (schedules):

    schedule:  supersede -> row -> command -> status -> end
    backup:    row -> find -> upload [-> unload] -> notify -> status -> list -> delete -> end
    volume:    row -> [lock -> inspect -> stop ->] tar [-> start] -> upload -> remove
                   [-> list -> delete] -> status -> end

with an error path that removes the archives on the host, notifies and writes the
status. `find` is the reading of the destination between the row and the `try` of a Postgres or
libsql backup; nobody handles its failure (`lost`). A dump that breaks off, or is killed with
the server, may leave part of an archive in the bucket, since `rclone rcat` stores what it got when
the pipe ends: `bucket` and `stored` have it, `uploaded` has whole archives only, and `unload`
is the command that removes the part, which may fail. `sweepFails` and the boot phase
`unswept` stand for a start without a sweep, by failure or, in the cloud, by design. The shell
script of a volume backup is cut at its commands, since `set -e`,
the trap on `EXIT` and other runs meet it there. `Matches` and `Rank` say what a run's
listing sees of other jobs' archives and in which order `sort -r` puts them; `robbed`,
`failed`, `harmed` and `raced` record what the properties' exceptions name.

`ServiceWindow` sees the service only: its scale, the runs that hold its lock
(`inWindows`) and the scale the one inside has found (`scaleFound`). `inspect` is `Look`, `stop`
is `Stop`, `start` is `GiveBack`; a failure or a kill leaves the window (`Leave`), a
deployment changes the scale at any time (`Deploy`).

## 3. Properties and runs

| Run | Instance | Properties | Size |
|---|---|---|---|
| `DeploymentQueue` | 3 jobs; local host and one server; an application, its preview, a compose with the same id, a remote application; limits 1 and 2 changing at any time, queries may fail | `TypeOK`, `ServiceExclusive`, `NoStall`, `AdmittedIsTheLoop`, `BuildsWithinLimit`, `OldestFirst`, `ImplementsServiceQueue` | 460,000 states |
| `DeploymentQueueLive` | one host, 3 jobs, fairness | `EveryJobStarts` | |
| `DeploymentRequestsLocal` | routers and webhooks, all services local, constant limit 2, 4 jobs | `WorkConserving` | 10,000 |
| `DeploymentRequests` (violation) | one application on a remote server | `OneBuildPerService` | |
| `DeploymentLifecycle` | an application and a compose; `Keep = 1`; 2 jobs between crashes, 3 rows, 1 crash, 1 other request; faults retention, remove, prepare, notify, sweep | `TypeOK`, `NoOrphanRows`, `RowsBounded`, `FinishedRowsStay`, `JobsSpareRows` | 2,860,000 |
| `DeploymentLifecycleSettles` | an application and its preview, fairness; faults remove, prepare, notify | `QuietServicesSettled`, `RowsSettle` | 71,000 |
| `DeploymentLifecycleCleared` (violation) | one application, no crash, fault clear | `EndedBuildsRecorded` | |
| `TraefikConfig` | an application, local or remote, with two domains, a redirect and two users; 2 handlers, 3 requests, 1 failed command; empty, or with a gated and a disabled domain; with or without an authentication domain | `TypeOK`, `RoutersServed`, `RoutersAgree`, `RoutersProtected`, `SaveRepairs`, `ImplementsDomainRouters` | 2,500,000 |
| `PreviewDeployments` | an application with limit 2, two pull requests, 2 handlers, 4 previews, 4 events (requests, failures, restarts) | `TypeOK`, `WithinLimit`, `OnePreviewPerPull`, `ClosedLeavesNoRow`, `NoOrphans`, `ImplementsPreviewHosting` | 2,040,000 |
| `ScheduledJobs` | a job of any kind in either edition, two expressions, 2 handlers, 5 events | `TypeOK`, `EnabledIsTimed`, `NoStrayTimer` | 1,030,000 |
| `JobRuns` | two jobs of a service, of any one kind, one keeping one archive; 2 runs, 4 events; fairness | `TypeOK`, `ServiceRestored`, `FailuresExplained`, `AloneKeepsRecent`, `RunningRowsAreRuns`, `OneRunningRow`, `ImplementsServiceWindow`, `LockWaitersProceed` | 570,000 |
| `JobRunsSharedPrefix` (violation) | volumes `data` and `data-cache` of a service under one prefix | `KeepsRecent` | |

- **ServiceExclusive** two builds of a service never overlap in a partition,
  however many drains resume at once.
- **NoStall**, **WorkConserving**, **EveryJobStarts**: a waiting job is only looked
  at by a drain. An open partition with waiting jobs always has a build (whose end
  starts a drain) or a drain in flight; a *free slot* has a drain in flight too
  as long as limits neither change nor fail to be read (raising a limit
  schedules nothing in the code, so `WorkConserving` is false in general); and
  under fairness every job leaves the waiting list.
- **BuildsWithinLimit**: a build starts within the limit configured now, or
  within one that a drain in flight has read; it cannot be exceeded by two drains
  that each count slots.
- **OldestFirst**: a job overtakes only jobs whose service some other job builds.
- **OneBuildPerService**: exclusion on the whole instance, not per partition. A theorem when
  all services are local, violated otherwise.
- **AdmittedIsTheLoop**, **ImplementsServiceQueue**: the loop of a drain starts what the
  model says it starts, and seen from outside the queue submits, starts, finishes and withdraws jobs,
  each service one at a time.
- **NoOrphanRows**, **RowsSettle**: once the sweep at boot has passed a row is "running" only
  while a live job will settle it; a row never runs for ever if the sweep succeeds.
- **QuietServicesSettled**: without a crash, a service is shown running only while
  a job of it is active.
- **RowsBounded**, **JobsSpareRows**, **FinishedRowsStay**: retention keeps at most
  `Keep + 1` rows, but for those it once could not remove, never touches another service's rows or one about to be
  settled; finished rows never run again.
- **RoutersServed**: in every interleaving and after every failed read Traefik is shown
  whole files: each router with its service, each `websecure` router with the web
  router that redirects to it.
- **RoutersAgree**, **SaveRepairs**: at rest exactly the enabled domains have routers,
  with https exactly where asked for, unless a command failed or a handler wrote
  over what it had not read; and whatever that left behind, saving the domain
  again, alone, repairs it.
- **ImplementsDomainRouters**: and not only at rest: until such an overwriting each write
  changes the routers of its own domain, to what the row asks for at that moment. An edit of
  another domain, of a redirect or of a user, and a failed command, change nobody else's.
- **RoutersProtected**: requests that come one after the other leave no router
  without the redirects and the password of its application, nor with a
  middleware that is not defined, except for the sign-on of a domain last saved
  without an authentication domain.
- **WithinLimit**, **OnePreviewPerPull**: the preview limit is exceeded by at most one
  preview less than requests handled at once, however many events come; two
  previews of a pull request need overlapping events.
- **ClosedLeavesNoRow**, **NoOrphans**: closing leaves no row, and at no moment does anything on
  the host outlive its row, unless the removal failed or met the creation or the build.
- **ImplementsPreviewHosting**: the host of a preview is cleared before its row goes, with the
  same exceptions, and no preview returns: neither jobs of its build that still wait nor a restart
  bring it back.
- **EnabledIsTimed**, **NoStrayTimer**: an enabled job at rest has the timer of its row, and no
  other timer fires; the reasons for which that fails are listed completely: overlaps, failed calls
  and readings, late and failed clean-ups, refused and skipped timers, removals that forget one.
- **ServiceRestored**: backups of the volumes of a service, however many at once, give it back the scale
  of its last deployment.
- **ImplementsServiceWindow**: one backup at a time looks at the scale of a service and
  stops it, and the only scales a backup ever sets are zero and the one it has found. It
  sees a run that passes the lock although nothing went wrong with the scale yet.
- **FailuresExplained**: a backup fails by a command of its own or because a failed run of its job
  took its archive, and by nothing else.
- **AloneKeepsRecent**, **KeepsRecent**: the newest N whole archives of a job are in the bucket.
  `KeepsRecent` says so without a condition and is false; `AloneKeepsRecent` holds of a job alone
  in its directory and counts the parts of archives that were ever in the bucket: each costs at
  most one recent archive, and nothing else costs any, in whatever order runs list and delete.
- **RunningRowsAreRuns**, **OneRunningRow**: rows end with their run or the next sweep, except when
  nobody handled the failure of the run or its handling failed; a schedule has one running row.
- **LockWaitersProceed**: who waits for the lock of a service gets it.

Several properties hold only up to something the code does not prevent
(`raced`, `overlapped`, `disturbed`, `robbed`). Their content is that this is
the *only* way: the history variable names one event, and every other
interleaving and failure must leave the property intact.

### Bounds

Three jobs are the least with which a job can overtake another while a third
builds, and two jobs of a group plus another service the least for exclusion
and order; four are used where the state space allows. Limits 1 and 2 give full
and free partitions. `MaxDrains = 1` restricts *client* calls of
`run`/`process`/`add` only through `process` and `run`: several drains of a partition are in flight in
most states, since each `add` and each end of a job starts one. `Keep = 1`
stands for 10: with three rows a service passes its limit, also across a crash.
One crash is enough for the sweep to meet rows of a dead process; one extra
request meets every step of a job. `MaxRows` counts the rows that waiting jobs
will still create, so that a bound never blocks a job in the middle.
`CHECK_DEADLOCK` is off because a server without requests is allowed to rest.

Traefik: two handlers give every race of a read and a write, the third request the repair (or the
second overlap) after it; applications share `middlewares.yml` only, whose races
already arise between the redirect and the users of one. Previews: four ids let two
pull requests have two previews each, past the limit of two. Scheduled jobs share
nothing but the start of their process, so one job of each kind in each edition
suffices; five events allow a creation, an overlapping pair, a lost call and a restart.
The instance with two jobs, one expression and four events (1.7 million states up to
the symmetry of the jobs)
was checked as well. Runs: two of them overlap in every way; three runs with four
events but without the liveness property (6.1 million states), and with it and
three events, hold as well. Symmetry is used only in runs
without liveness properties.

### Fairness

`DeploymentQueue!Fairness`: pending promises are resumed by the event loop, the
query of the limit settles, a build ends. Clients are under no obligation.
`DeploymentLifecycle!Fairness`: the steps of active jobs and the boot sequence go
on. `RowsSettle` is checked without the fault `sweep`: a step of `server.ts` before the sweep that
throws, or a query of the sweep that fails, leaves the rows to the next start, and nothing
forces another one. The queue is not
assumed to start jobs, nor users to act, and crashes are bounded, not forced.
`JobRuns!Spec` has weak fairness of each run's `Step`: every command ends, be it
in failure, and every promise settles. `flock` and the `mkdir` loop hand the lock to one waiter
after the other; with a bounded number of runs weak fairness suffices for each.
The three modules without liveness properties have no fairness.

## 4. Findings

1. **Two builds of one remote service** (`OneBuildPerService`). The doc comment of
   the queue says jobs of a service "never run in parallel ... (same code dir, same
   container name, etc)" (`in-memory-queue.ts:12-15`). Exclusion is per
   partition; webhooks on a self-hosted instance leave `serverId` out
   (`github.ts:263`, `[refreshToken].ts:272`), routers set it. A push and a click
   build a remote service twice at the same time.
2. **A failed build that stays "running"** (`EndedBuildsRecorded`). The catch of
   the deploy functions appends to the log before it writes the status
   (`application.ts:257-264`). When the append fails (log directory cleared
   through *clear deployments*, host out of reach) the deployment and its service stay
   "running" until the next boot, against what
   `application.real.test.ts:351-355` expects of a failed build.
3. **Retention that deletes the archive just made** (`KeepsRecent`). The form says
   "How many recent backups to keep" (`handle-volume-backups.tsx:596`). The archives
   of a volume are listed by `--include "${volumeName}-*.tar"` (`volume-backups/utils.ts:90`) in a
   directory of the service and prefix; those of `data-cache` match the pattern of
   `data`, sort before them and use up the number to keep.

## 5. Proofs

TLAPS checks, for every set of servers, services and payloads, every limit and
every bound:

`DeploymentQueueProofs`
: `TypeCorrect`, `InductiveInvariant`, `ServicesAreExclusive`, `NeverStalls`,
  `StartsOldestFirst`, `StartsWithinLimit`, `Refinement`
  (`Spec => ImplementsServiceQueue`), `DrainsRunTheLoop` (`Spec => []AdmittedIsTheLoop`).

`DeploymentRequestsProofs`
: `OneBuild` (`SpecRequests => []OneBuildPerService`) if all services are local;
  `SlotsAreFilled` (`WorkConserving`) if no query of a limit fails;
  `RequestsImplementQueue` (`SpecRequests => ImplementsServiceQueue`).

`DeploymentLifecycleProofs`
: `LifecycleTypeCorrect`; whatever fails, `SlotsAreFreed` (`SlotsAreTasks`) and
  `LifecycleUsesQueue` (`Spec => UsesQueue`); and, without the faults report, domain
  and clear, `LifecycleInvariant` and `NoOrphans` (`Spec => []NoOrphanRows`).

`DeploymentRowsProofs`
: `FinishedRowsAreFinal` (`FinishedRowsStay`), without any assumption; if all clients
  name the same server for a service (`OneHome`), `JobsSpareOthers`
  (`JobsSpareRows`) and `RowsAreBounded` (`RowsBounded`), whatever fails; without the
  faults report, domain, retention and clear (`Settling`),
  `RunningServicesHaveJobs` (`QuietServicesSettled`).

`TraefikConfigProofs`
: `TypeCorrect`, `FilesWhole` (`Spec => []RoutersServed`), `DomainsAgree`
  (`RoutersAgree`) and `SavingRepairs` (`SaveRepairs`) from `AgreementInvariant`,
  `RoutersStayProtected` (`RoutersProtected`) from `ProtectionInvariant`,
  `DomainRoutersRefinement` (`Spec => ImplementsDomainRouters`).

`PreviewDeploymentsProofs`
: `TypeCorrect`, `LimitExceededByOverlapOnly` (`WithinLimit`), `PreviewsUnique`
  (`OnePreviewPerPull`), `HostAccountedFor` (`NoOrphans`), `ClosingIsFinal`
  (`ClosedLeavesNoRow`), `HostingRefinement` (`Spec => ImplementsPreviewHosting`).

`ScheduledJobsProofs`
: `TypeCorrect`, `EnabledTimed` (`EnabledIsTimed`), `NoStray` (`NoStrayTimer`).

`JobRunsProofs`
: `TypeCorrect`, `ScaleRestored` (`ServiceRestored`), `FailuresHaveReasons`
  (`FailuresExplained`), `RetentionKeepsRecent` (`AloneKeepsRecent`), `RowsEnd`
  (`RunningRowsAreRuns`), `RowsOfSchedulesSingle` (`OneRunningRow`), `WindowRefinement`
  (`Spec => ImplementsServiceWindow`).

*The queue.* Neither exclusion nor progress is inductive. `IInv` adds that
`activeGroups` is exactly the set of the groups of `active`, with one job per
group (`GroupsTrackActive`): without it `JobSettles` could free the group of a job
that still runs. `WaitingNumbered` (distinct ids up to `seq`) makes "the oldest of its
group" unique, and `WaitingKnown` says that a partition with jobs is a key of the
map, without which `schedule` would skip it; `FiniteJobs` lets cardinalities be
compared. Order and limit are action properties: `OlderIsAdmitted` and
`AdmittedBound` compare the ranks of candidates. The refinement maps `waiting` and
`active` to `queued` and `building`; every drain is a `Start` of the set
`Admitted(p, c)`, or a stutter.

`Admitted` is a set defined at once; `drainPartition` is a `while` loop that takes the first
candidate, starts it and looks again. `begun` is its loop invariant: what has been started is
admitted, and nothing older in the same partition has been passed over. So the loop goes
on exactly while a job of `Admitted` has not been started (`goesOn`), and each iteration starts one
(`iterates`). `Loop(p, c)` is the recursive function of its iterations. That there
is such a function is proved, not assumed: it is the union of the finite
runs of the loop, and if one length had none, or two, a least length would; then the
length before it has exactly one, which `iterate` extends. `LoopInvariant` holds for every number of
iterations by the same argument. After `|waiting|` of them either `Admitted` or every waiting
job has been started, and in the second case `Admitted` is `waiting`: `DrainsRunTheLoop`, for
every reachable state and any limit.

*Requests.* They are operations of the queue, so its invariant holds. If every service
is local, so is every job (`LocalJobs`), and exclusion in the partition is exclusion on the
instance. `WorkConserving` is strengthened to `NoIdleSlot`: with fewer active jobs than
the limit, any candidate comes with a drain. `DrainFills` shows that a drain
leaves none: the oldest candidate it skips has found the limit reached by the active jobs and
the older candidates, all of which it has just started. A request withdraws whole
services, so that no younger job takes the place of a withdrawn one.

*The lifecycle.* `RunningAccounted`: a running row has a job between its
creation and its last write, or the sweep has not passed (it may have failed), or has it in
`toCancel`. Its hard case is `report`: a job may only skip its last write if
the log is gone, and then, by `LogsPresent`, its row is gone as well; this
needs `RowsNumbered` (a job's row belongs to its service, fresh ids are
fresh) and `JobsNumbered` (a queued job is not active, so that `StartBuilds`
overwrites no running task). The assumptions name exactly the three ways in
which the code loses a row, two of which are section 4's and hazards of
`PROJECT.json`.

The rest holds whatever fails. `SlotsAreTasks`: `active` is the set of jobs with a
task, so that no end of a job, by an error in the middle or otherwise, leaves
its service blocked. It is what makes a job's last step a `JobSettles` of the queue, and with
it every step of the lifecycle is a step of `ServiceQueue`, leaves it alone, or is the
crash, after which the queue is empty again (`UsesQueue`).

*Rows.* The abstract queue runs one job of a service per partition (`JobsApart`), so under
`OneHome` a service has one active job. Therefore the job that removes old rows is
the only one that could own a row of its service, and it owns none yet; and
the room it made is still there when it inserts: `Room` says that a row not in `stuck` has fewer
than `Keep` newer ones while a job of its service is about to insert, and at most `Keep` otherwise;
rows have numbers of their own (`RowsApart`), a new one is newer than all (`RoomInsert`), and
retention leaves those with fewer than `Keep` newer ones and those it fails to remove. If clients disagree (finding 1),
two partitions build one service at once and none of this is claimed. A service that
is "running" has a job between its first and its last write of the status
(`Quiet`), which no failure skips as long as the log is there for the report (`LogsOrGone`).

*The Traefik files.* A write replaces the file by an edit of what was read, maybe long
ago; so the invariant adds that what every request has read is whole too
(`soundTask`), and each edit preserves wholeness.

`RoutersAgree` is about rest, so its invariant must say what is true in between: the routers of a
domain are those its row asks for, or a request past its row write has yet to
make them so (`Shown`). A write that lands keeps this for the other domains because, as long as
`raced` is false, the file is what the handler read. That it is right for its own
domain needs what the handler knows of the rows: `RowsKept` (rows go with their application, and
only one request brings a row back), `StagesKept` (which operation can be at
which stage, with which row) and `CleanKnows`: a handler that ran alone knows the row and the middlewares
of its domain from its last read on. `SaveRepairs` does not assume
`~ raced`: it follows from `CleanKnows`, as a save replaces both routers of its domain
whatever was in the file.

`RoutersProtected` relates rows, the routers in one file and the definitions in another.
`Tidy` says that they agree (`Settled`) up to the references and users that the
request in progress is about to add or remove (`openRefs`, `openUsers`), and what that
request knows (`Knows`); at rest nothing is open. `Owned` says that the file of an application
holds its own routers and references only, so that a request disturbs one application,
and `CleanAlone` that a request counted as clean has the server for itself. The sign-on of the
domains in `ungated` is taken out of what must be defined (`Unset`). A save that finds an
authentication domain takes its own domain out of `ungated`, never another, and has the reference
among its open ones (`openRefs`) until it has written the middlewares.
`AbsenceAssumption` only says that a file that is missing is not a content.

The refinement of `DomainRouters` needs no new invariant. Under `Agreement` and as long as `raced`
is false, a write of a file is made for the row as it is (`WriteDomainShows`), leaves all routers
as they are (`WriteAppShows`), or comes after the rows of the application went
(`RemoveConfigShows`); every other step touches one row at most. No assumption on failures is
needed: a handler that has read an empty configuration for a file that was not empty sets
`raced` when it writes it back.

*Previews.* `WithinLimit` counts rows of a limit that was checked against
older rows: `RoomLeft` bounds the previews of an application together with the
requests that found room for one and have not inserted it yet (`pending`): one that
finds room sees the rows below the limit, and at most the other handlers are
pending beside it. `OneCreator` says that of a pull
request not in `overlapped` one request at most can create.

What is left behind needs the order of a removal: service, code, file, row, each of which
may fail. `HostAccounted` is `NoOrphans`: what is on
the host has its row or is excused (`left`, `overlapped`). The row is deleted last,
so `RemovalProgress` says what the stages before have not removed is excused,
and `RowsStand` that what a build or an event is about to put there has its row; it holds
because a removal that meets a build or a request is in `overlapped` (`Alone`),
which takes `OwnPreviews`. `DeleteCovers` is the same for the deletion of an application,
whose previews lose their rows at once. `ClosedListed` says that a closed pull request gets no row,
and that each it has is on the list of the request that closes it, until that list
is empty: `ClosedLeavesNoRow`.

`HostingRefinement` rests on the same invariant, before and after each step. A build or an event hosts
something of a preview that has its row or is excused, since it is accounted for
afterwards; when rows go, what they leave on the host is excused for the same reason; and
a new preview gets an id that none has had.

*Timers.* A job is at rest only between requests, so the invariant says for every stage of a
request what rows and timers look like meanwhile: `agreed` and `fits` for undisturbed requests,
`FoundOK` for what a starting process has read, `TimersOfRequests` and
`TimersAtRest` for the timers there are. `TimedOK` says of an enabled job that it has its timer or
that a starting process has yet to set it (`unset`); a failed reading of rows ends `unset` for all
the jobs it recorded as `missed`.

*Runs.* `LockOK` and `ScaleOK` tie the lock to the stage of its holder, and the scale it
saved to the scale last asked for, which is what makes a second run save the
right one; `ErrorsOK` attributes every failure; `TodoOK` says that no run
is about to delete one of the newest archives, counted among all that were ever in the bucket
(`stored`), and uploads of other runs, whole or in part, keep it so: what is in the bucket when a run
lists it is part of `stored`, and `stored` only grows;
`RowsOK` and `SingleOK` follow rows to their end, across a restart and its sweep.
`WindowRefinement` adds `NothingKept`: a run that does not hold the lock knows of no scale, so
that a run enters its window with none found and gives back only what it found
inside. `WindowHeld` says that whoever is inside holds the lock, hence is alone.

Assumptions on constants are the `ASSUME`s of the modules; TLC evaluates them on
every run. Every safety property of the passing runs, invariant, action property
or refinement, is proved. Only model-checked is liveness: `EveryJobStarts`, `RowsSettle`
and `LockWaitersProceed`, whose proofs need fairness, hence `ENABLED`.

## 6. What is known to fail, by design of the model

- With fault `report`, `domain` or `clear`, `NoOrphanRows` is false: see finding 2.
  `domain` is a preview whose creation failed between the insertion of its row and
  that of its domain (`preview-deployment.ts:170-212`); the next push finds it,
  and its deployment throws at `application.ts:388`, outside the `try`.
- With fault `retention`, `QuietServicesSettled` is false: a remote host that is
  down when old logs are removed leaves the status "running" without a row
  (`deployment.ts:729`), and nothing resets it.
- After a crash a service may stay "running" without a row, and a preview always
  does: `initCancelDeployments` starts from rows and knows applications and
  composes only. `QuietServicesSettled` is therefore stated for runs without a
  crash.
- The comment of `manageDomain` says that a disabled domain "can't be revived by a
  later domain edit" (`utils/traefik/domain.ts:23-25`). That is so of its own check; but the
  edit of another domain that read the file before writes the routers back, and
  `RoutersAgree` without its condition on `raced` is false. The next save of
  the domain repairs it (`SaveRepairs`).
- The limit of previews is exceeded by overlapping events, and two deliveries of an event
  create two previews: nothing in the database makes them unique.
- A removal that meets the build of its preview leaves the service the build creates afterwards.
- Deleting a volume backup, or a service other than a database, leaves the
  timers of its jobs until the next restart; so do updates in the cloud of a schedule, whose
  timers are never removed, and the deletion of a libsql database.
- `KeepsRecent` is false without overlapping patterns too (`Matches <- Apart`, `Here = {"backup"}`,
  three events). When a dump breaks off, `rclone rcat` has stored what it got as the newest archive
  (`backups/utils.ts:295`); the command that removes it comes later and its failure is ignored (line
  298). A run that lists in between and keeps one archive counts the part and deletes the whole
  archive it has just made, although the form says "only keeps the latest N backups in the cloud"
  (`handle-backup.tsx:644-645`). `AloneKeepsRecent` says that nothing worse happens.
- Requests on one job that overlap may leave it without its timer or with an old one.
- A domain with sign-on that is saved while its server has no authentication domain gets a
  router that refers to middlewares nobody has written (`forward-auth.ts:80-83`); they are
  written by the next save of the domain, not by setting the authentication domain.
- With fault `sweep` rows of a dead server stay running until the next start that sweeps, and so
  do all rows in the cloud, which never sweeps (`server.ts:61`).
- A repeatable job stays in the queue of the cloud after its row is gone when the clean-up of a
  start fails (`apps/schedules/src/queue.ts:19`).
- A run that was superseded writes its own status over "error" when it ends. When
  writing the log and notifying both fail, the row stays running until the next
  start ("lost" in the model).
- On a host without `flock` the directory that serves as a lock outlives a kill, and every
  later run waits for ever (`LockWaitersProceed` names the case).

## 7. Plan

Done, most important first: the queue, its requests and the deployment
lifecycle, the state that every other part relies on; then the Traefik files,
previews, timers and runs of scheduled jobs, each with its proofs.

What would come next:

1. Rollbacks: images kept against the deployments whose retention removes them.
2. Monitoring, billing and database services, as far as they keep state of their own.

## 8. Not modelled

Shell commands, docker and git (a build is a step that succeeds or fails), the
user interface, SQL migrations, templates, emails, installation scripts: they are
most of the repository's lines and hold no protocol. Permissions and
authentication are decision tables within one request; websocket streams are
pure I/O. `application.markRunning` writes the same status as `markRunning` and
has no caller in the interface. Cloud deployments: concurrency, cancellation and
retries are those of an external service.

Within the modelled parts:

- Traefik: `enableForwardAuthOnDomain` and `disableForwardAuthOnDomain`, which set one field of a
  domain as its update may and, the second, remove its middlewares as well; the router file of the authentication
  domain and the proxy behind it; domains of previews and composes, custom entry points, the file of the panel (`web-server.ts`), files edited by hand,
  a write that is cut off half way, the rejection of the un-awaited
  `createRedirectMiddleware`.
- Previews: which applications an event selects (branches, labels, permissions of the
  author), comments on the pull request.
- Timers: clean-up jobs of servers, expressions that are not valid, a clean-up of the queue that
  stops half way, servers that are activated or deactivated meanwhile.
- Runs: the process id by which a schedule is killed; retention of the rows of runs;
  commands on a remote host that go on after the server restarted; `turnOff` of volumes of
  database services; restores, each one shell pipeline without state of its own.
