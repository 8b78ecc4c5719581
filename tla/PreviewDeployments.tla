------------------------- MODULE PreviewDeployments -------------------------
(***************************************************************************)
(* Preview deployments: GitHub delivers the events of pull requests to a   *)
(* webhook, which creates a preview (a row, a domain, a Traefik file) for  *)
(* each application that asks for them and queues its build; closing the   *)
(* pull request, deleting a preview or its application removes the service *)
(* of the preview, its code, its file and its row, one after the other.    *)
(* Every step is an await: requests and builds interleave between any two. *)
(***************************************************************************)
EXTENDS Naturals, FiniteSets

CONSTANTS
  Apps, Pulls,
  MaxPreviews,  \* bound of the model: previews in all
  limit,        \* previewLimit of each application
  None,         \* no preview, application, pull request or build
  Handlers,     \* requests handled at the same time
  MaxEvents     \* bound of the model: requests, failed operations and restarts

ASSUME LimitAssumption == limit \in [Apps -> Nat]
ASSUME HandlersAssumption == IsFiniteSet(Handlers) /\ Handlers # {}
ASSUME BoundsAssumption == MaxPreviews \in Nat /\ MaxEvents \in Nat

\* Ids stand for the random ones, and for the names, previews get.
Previews == 1..MaxPreviews

ASSUME NamesAssumption ==
  /\ None \notin Apps \cup Pulls \cup [app : Apps, pull : Pulls]
  /\ None \notin [of : Previews, at : {"prepare", "clone", "service"}]

VARIABLES
  apps,       \* the applications that exist
  of,         \* of[p]: application and pull request p was created for
  rows,       \* the previews in the database
  domained,   \* those whose domainId is set
  services, code, files,   \* what exists on the host under the name of p
  waiting,    \* waiting[p]: the jobs of p in the queue
  building,   \* building[a]: the preview of a that is built
  task,       \* task[h]: the request h handles
  closed,     \* pull requests whose last event was their closing
  overlapped, \* pull requests of which two activities got in each other's way
  left,       \* previews some operation of whose removal failed
  events      \* requests that arrived, operations that failed, restarts

hostVars == <<services, code, files>>
jobVars  == <<waiting, building>>
vars == <<apps, of, rows, domained, hostVars, jobVars, task, closed, overlapped,
          left, events>>

-----------------------------------------------------------------------------
Removals == {"close", "remove", "deleteApp"}
Stages == {"loop", "insert", "domain", "file", "link", "enqueue",
           "rmService", "rmCode", "rmFile", "rmRow", "clean", "idle"}

\* A request: what is left to do, the application and preview it is busy with,
\* and, of an event that may create previews, the applications that had room for
\* one more when they were read.
Task == [op : Removals \cup {"event", "none"}, at : Stages,
         pull : Pulls \cup {None}, app : Apps \cup {None},
         preview : Previews \cup {0},
         todo : SUBSET (Apps \cup Previews), room : SUBSET Apps, creates : BOOLEAN]
Build == [of : Previews, at : {"prepare", "clone", "service"}]

nowhere == [op |-> "none", at |-> "idle", pull |-> None, app |-> None,
            preview |-> 0, todo |-> {}, room |-> {}, creates |-> FALSE]

idle(h) == task[h].op = "none"

\* The previews there have ever been.
known == {p \in Previews : of[p] # None}

previewsOf(a) == {p \in rows : of[p].app = a}

\* Mutant: only the previews that run are removed.
pullPreviewsRunning(q) == {p \in rows \cap services : of[p].pull = q}

pullPreviews(q) == {p \in rows : of[p].pull = q}

TypeOK ==
  /\ apps \subseteq Apps
  /\ of \in [Previews -> [app : Apps, pull : Pulls] \cup {None}]
  /\ rows \subseteq known
  /\ domained \subseteq rows
  /\ services \cup code \cup files \subseteq known
  /\ waiting \in [Previews -> Nat]
  /\ \A p \in Previews : waiting[p] > 0 => p \in known
  /\ building \in [Apps -> Build \cup {None}]
  /\ \A a \in Apps : building[a] # None => building[a].of \in known
  /\ task \in [Handlers -> Task]
  /\ closed \subseteq Pulls /\ overlapped \subseteq Pulls /\ left \subseteq Previews
  /\ events \in 0..MaxEvents

Init ==
  /\ apps = Apps /\ of = [p \in Previews |-> None]
  /\ rows = {} /\ domained = {} /\ services = {} /\ code = {} /\ files = {}
  /\ waiting = [p \in Previews |-> 0] /\ building = [a \in Apps |-> None]
  /\ task = [h \in Handlers |-> nowhere]
  /\ closed = {} /\ overlapped = {} /\ left = {} /\ events = 0

-----------------------------------------------------------------------------
(* Who gets in whose way                                                   *)

\* The pull requests a task is about.
pullsOf(t) ==
  CASE t.op = "none"      -> {}
    [] t.op = "deleteApp" -> Pulls
    [] OTHER              -> {t.pull}

built == {of[building[a].of].pull : a \in {a \in Apps : building[a] # None}}

\* A removal and anything else, or two events that may both create a preview.
disturbs(t) ==
  pullsOf(t) \cap
    ((UNION {pullsOf(task[g]) : g \in {g \in Handlers :
                                         \/ t.op \in Removals
                                         \/ task[g].op \in Removals
                                         \/ t.creates /\ task[g].creates}})
     \cup {q \in built : t.op \in Removals})

\* Something happens that the model bounds.
Event == events < MaxEvents /\ events' = events + 1

arrive(h, t) ==
  /\ idle(h) /\ Event
  /\ task' = [task EXCEPT ![h] = t]
  /\ overlapped' = overlapped \cup disturbs(t)
  /\ UNCHANGED <<apps, of, rows, domained, hostVars, jobVars, left>>

continue(h, t) == task' = [task EXCEPT ![h] = t]
goto(h, stage) == continue(h, [task[h] EXCEPT !.at = stage])
end(h)         == continue(h, nowhere)

at(h, stage) == task[h].at = stage

dbVars    == <<apps, of, rows, domained>>
ghostVars == <<closed, overlapped, left>>

\* An operation fails and the error ends the request.
throw(h) == Event /\ end(h)

-----------------------------------------------------------------------------
(* An event of a pull request                                              *)

\* Mutant: one preview too many is allowed.
belowLimitOrAt(a) == Cardinality(previewsOf(a)) <= limit[a]

belowLimit(a) == Cardinality(previewsOf(a)) < limit[a]

\* The applications of the repository are read here, each with its previews;
\* the permissions of the author and the labels of the pull request may rule out
\* any of them.  `unlabeled` creates nothing.
pullRequestEvent(h, q, creates) ==
  \E allowed \in SUBSET apps :
    /\ arrive(h, [nowhere EXCEPT !.op = "event", !.at = "loop", !.pull = q,
                                 !.todo = allowed, !.creates = creates,
                                 !.room = {a \in allowed : creates /\ belowLimit(a)}])
    /\ closed' = IF creates THEN closed \ {q} ELSE closed

\* Mutant: only a preview that runs counts.
existingRunning(a, q) == {p \in services : of[p] = [app |-> a, pull |-> q]}

existing(a, q) == {p \in rows : of[p] = [app |-> a, pull |-> q]}

\* findPreviewDeploymentByApplicationId, and the limit for a new preview.
nextApplication(h) ==
  LET t == task[h] IN
  /\ at(h, "loop") /\ t.op = "event" /\ t.todo # {}
  /\ \E a \in t.todo :
       LET u == [t EXCEPT !.todo = @ \ {a}, !.room = @ \ {a}] IN
       \/ \E p \in existing(a, t.pull) :
            continue(h, [u EXCEPT !.at = "enqueue", !.preview = p])
       \/ /\ existing(a, t.pull) = {}
          /\ continue(h, IF a \in t.room THEN [u EXCEPT !.at = "insert", !.app = a]
                                         ELSE u)
  /\ UNCHANGED <<dbVars, hostVars, jobVars, ghostVars, events>>

\* The comment on the pull request comes before the row; either may fail, and
\* the row refers to the application.
insertPreview(h) ==
  LET t == task[h] IN
  /\ at(h, "insert")
  /\ \/ /\ t.app \in apps
        /\ \E p \in Previews :
             /\ of[p] = None /\ \A r \in 1..(p - 1) : of[r] # None
             /\ of' = [of EXCEPT ![p] = [app |-> t.app, pull |-> t.pull]]
             /\ rows' = rows \cup {p}
             /\ continue(h, [t EXCEPT !.at = "domain", !.preview = p])
        /\ UNCHANGED events
     \/ t.app \notin apps /\ end(h) /\ UNCHANGED <<of, rows, events>>
     \/ throw(h) /\ UNCHANGED <<of, rows>>
  /\ UNCHANGED <<apps, domained, hostVars, jobVars, ghostVars>>

\* The domain refers to the preview.
createDomain(h) ==
  /\ at(h, "domain")
  /\ \/ task[h].preview \in rows /\ goto(h, "file") /\ UNCHANGED events
     \/ task[h].preview \notin rows /\ end(h) /\ UNCHANGED events
     \/ throw(h)
  /\ UNCHANGED <<dbVars, hostVars, jobVars, ghostVars>>

\* The error of a failed write is logged and nothing else.
manageDomain(h) ==
  /\ at(h, "file")
  /\ goto(h, "link")
  /\ \/ files' = files \cup {task[h].preview} /\ UNCHANGED events
     \/ Event /\ UNCHANGED files
  /\ UNCHANGED <<dbVars, services, code, jobVars, ghostVars>>

\* Mutant: the update inserts what is missing.
linkedAnyway(p) == {p}

\* UPDATE ... WHERE: a preview that is gone stays gone.
linked(p) == {p} \cap rows

linkDomain(h) ==
  /\ at(h, "link")
  /\ \/ /\ domained' = domained \cup linked(task[h].preview)
        /\ goto(h, "enqueue")
        /\ UNCHANGED events
     \/ throw(h) /\ UNCHANGED domained
  /\ UNCHANGED <<apps, of, rows, hostVars, jobVars, ghostVars>>

enqueue(h) ==
  /\ at(h, "enqueue")
  /\ waiting' = [waiting EXCEPT ![task[h].preview] = @ + 1]
  /\ continue(h, [task[h] EXCEPT !.at = "loop", !.app = None, !.preview = 0])
  /\ UNCHANGED <<dbVars, hostVars, building, ghostVars, events>>

\* The user asks for a rebuild; the row was found before.
redeploy(p) ==
  /\ p \in rows /\ Event
  /\ waiting' = [waiting EXCEPT ![p] = @ + 1]
  /\ UNCHANGED <<dbVars, hostVars, building, task, closed, overlapped, left>>

-----------------------------------------------------------------------------
(* Removals                                                                *)

pullRequestClosed(h, q) ==
  /\ arrive(h, [nowhere EXCEPT !.op = "close", !.at = "loop", !.pull = q,
                               !.todo = pullPreviews(q)])
  /\ closed' = closed \cup {q}

deletePreview(h, p) ==
  /\ p \in rows
  /\ arrive(h, [nowhere EXCEPT !.op = "remove", !.at = "loop",
                               !.pull = of[p].pull, !.todo = {p}])
  /\ UNCHANGED closed

deleteApplication(h, a) ==
  /\ a \in apps
  /\ arrive(h, [nowhere EXCEPT !.op = "deleteApp", !.at = "loop", !.app = a,
                               !.todo = previewsOf(a)])
  /\ UNCHANGED closed

\* removePreviewDeployment looks the preview and its application up; one that is
\* gone is passed over.
nextPreview(h) ==
  LET t == task[h] IN
  /\ at(h, "loop") /\ t.op \in Removals /\ t.todo # {}
  /\ \E p \in t.todo :
       LET u == [t EXCEPT !.todo = @ \ {p}] IN
       continue(h, IF p \in rows THEN [u EXCEPT !.at = "rmService", !.preview = p]
                                 ELSE u)
  /\ UNCHANGED <<dbVars, hostVars, jobVars, ghostVars, events>>

\* The operations are tried one by one, whatever the others did: a failure is
\* logged, and the row goes all the same.
removed(h, from, to, before, after) ==
  /\ at(h, from)
  /\ continue(h, [task[h] EXCEPT !.at = to,
                                 !.preview = IF to = "loop" THEN 0 ELSE @])
  /\ \/ after = before \ {task[h].preview} /\ UNCHANGED <<left, events>>
     \/ /\ Event
        /\ left' = left \cup {task[h].preview}
        /\ after = before
  /\ UNCHANGED <<apps, of, jobVars, closed, overlapped>>

removePreviewDeployment(h) ==
  \/ /\ removed(h, "rmService", "rmCode", services, services')
     /\ UNCHANGED <<rows, domained, code, files>>
  \/ /\ removed(h, "rmCode", "rmFile", code, code')
     /\ UNCHANGED <<rows, domained, services, files>>
  \/ /\ removed(h, "rmFile", "rmRow", files, files')
     /\ UNCHANGED <<rows, domained, services, code>>
  \/ /\ removed(h, "rmRow", "loop", rows, rows')
     /\ domained' = domained \cap rows'
     /\ UNCHANGED hostVars

\* The previews listed at first are removed; any other goes with the row of the
\* application, by cascade.
deleteApplicationRow(h) ==
  LET a == task[h].app IN
  /\ at(h, "loop") /\ task[h].op = "deleteApp" /\ task[h].todo = {}
  /\ apps' = apps \ {a}
  /\ rows' = rows \ previewsOf(a)
  /\ domained' = domained \ previewsOf(a)
  /\ goto(h, "clean")
  /\ UNCHANGED <<of, hostVars, jobVars, ghostVars, events>>

cleanQueuesByApplication(h) ==
  /\ at(h, "clean")
  /\ waiting' = [p \in Previews |->
                   IF of[p] # None /\ of[p].app = task[h].app THEN 0 ELSE waiting[p]]
  /\ end(h)
  /\ UNCHANGED <<dbVars, hostVars, building, ghostVars, events>>

respond(h) ==
  /\ at(h, "loop") /\ task[h].op # "deleteApp" /\ task[h].todo = {}
  /\ end(h)
  /\ UNCHANGED <<dbVars, hostVars, jobVars, ghostVars, events>>

-----------------------------------------------------------------------------
(* Builds: the queue runs one at a time of an application and its previews *)

build(a, b) == building' = [building EXCEPT ![a] = b]

startBuild(a, p) ==
  /\ building[a] = None /\ waiting[p] > 0 /\ of[p].app = a
  /\ waiting' = [waiting EXCEPT ![p] = @ - 1]
  /\ build(a, [of |-> p, at |-> "prepare"])
  /\ overlapped' = overlapped \cup
       ({of[p].pull} \cap UNION {pullsOf(task[h]) : h \in {h \in Handlers :
                                                           task[h].op \in Removals}})
  /\ UNCHANGED <<dbVars, hostVars, task, closed, left, events>>

\* Mutant: a job is built though its preview is gone.
preparedBlindly(a, p) == a \in apps

\* Without its row, its domain or its application the job ends.
prepared(a, p) == a \in apps /\ p \in domained

prepareBuild(a) ==
  /\ building[a] # None /\ building[a].at = "prepare"
  /\ \/ /\ prepared(a, building[a].of)
        /\ build(a, [building[a] EXCEPT !.at = "clone"])
     \/ ~ prepared(a, building[a].of) /\ build(a, None)
  /\ UNCHANGED <<dbVars, hostVars, waiting, task, ghostVars, events>>

\* The repository is cloned and the image built, or not.
cloneAndBuild(a) ==
  /\ building[a] # None /\ building[a].at = "clone"
  /\ \/ code' = code \cup {building[a].of} /\ build(a, [building[a] EXCEPT !.at = "service"])
     \/ code' \in {code, code \cup {building[a].of}} /\ build(a, None)
  /\ UNCHANGED <<dbVars, services, files, waiting, task, ghostVars, events>>

\* The service is updated, or created where there is none.
mechanizeDockerContainer(a) ==
  /\ building[a] # None /\ building[a].at = "service"
  /\ services' \in {services, services \cup {building[a].of}}
  /\ build(a, None)
  /\ UNCHANGED <<dbVars, code, files, waiting, task, ghostVars, events>>

\* The server restarts: requests, builds and the queue are lost, and GitHub does
\* not deliver again.
restart ==
  /\ Event
  /\ closed' = closed \ UNION {pullsOf(task[h]) : h \in Handlers}
  /\ task' = [h \in Handlers |-> nowhere]
  /\ waiting' = [p \in Previews |-> 0]
  /\ building' = [a \in Apps |-> None]
  /\ UNCHANGED <<dbVars, hostVars, overlapped, left>>

-----------------------------------------------------------------------------
Arrive(h) ==
  \/ \E q \in Pulls : \/ \E creates \in BOOLEAN : pullRequestEvent(h, q, creates)
                      \/ pullRequestClosed(h, q)
  \/ \E p \in Previews : deletePreview(h, p)
  \/ \E a \in Apps : deleteApplication(h, a)

Work(h) ==
  \/ nextApplication(h) \/ insertPreview(h) \/ createDomain(h) \/ manageDomain(h)
  \/ linkDomain(h) \/ enqueue(h)
  \/ nextPreview(h) \/ removePreviewDeployment(h)
  \/ deleteApplicationRow(h) \/ cleanQueuesByApplication(h)
  \/ respond(h)

RunBuild(a) ==
  \/ \E p \in Previews : startBuild(a, p)
  \/ prepareBuild(a) \/ cloneAndBuild(a) \/ mechanizeDockerContainer(a)

Next ==
  \/ \E h \in Handlers : Arrive(h) \/ Work(h)
  \/ \E p \in Previews : redeploy(p)
  \/ \E a \in Apps : RunBuild(a)
  \/ restart

Spec == Init /\ [][Next]_vars

-----------------------------------------------------------------------------
(* Properties                                                              *)

\* The limit is compared with a number read before other requests created their
\* previews, so it can be exceeded: by one preview less than there are requests
\* at the same time, and by no more however many events arrive.
WithinLimit ==
  \A a \in Apps :
    Cardinality(previewsOf(a)) + 1 <= limit[a] + Cardinality(Handlers)

\* An event that finds no preview creates one without a constraint that would
\* keep it single.  Still an application has two previews of a pull request only
\* if two of its events, or an event and a removal, were handled at once.
OnePreviewPerPull ==
  \A p, r \in rows : of[p] = of[r] /\ of[p].pull \notin overlapped => p = r

\* A closed pull request keeps no preview, whatever failed while it was created
\* or built and whatever waits in the queue, unless the closing met another
\* activity of the pull request or failed itself.
ClosedLeavesNoRow ==
  \A p \in rows :
    /\ \A h \in Handlers : idle(h)
    /\ of[p].pull \in closed \ overlapped
    => p \in left

\* Nothing on the host outlives the row of its preview, at any moment: nobody could
\* remove it any more.  Only a removal that failed, or one that met the creation or
\* the build of the preview, leaves a service, a directory or a Traefik file behind.
NoOrphans ==
  \A p \in services \cup code \cup files :
    \/ p \in rows
    \/ p \in left
    \/ of[p].pull \in overlapped

\* Every step of a request, a build or a removal is one that PreviewHosting allows:
\* the host is cleared before the row goes, rows that go by cascade included, and
\* neither a job left in the queue nor a restart brings anything of a preview back.
Hosting == INSTANCE PreviewHosting
  WITH gone    <- known \ rows,
       hosted  <- services \cup code \cup files,
       excused <- {p \in known : p \in left \/ of[p].pull \in overlapped}

ImplementsPreviewHosting == Hosting!Spec

-----------------------------------------------------------------------------
(* The inductive invariant behind WithinLimit and OnePreviewPerPull        *)

EventStages   == {"insert", "domain", "file", "link", "enqueue"}
RemovalStages == {"rmService", "rmCode", "rmFile", "rmRow"}

\* What each stage of a request may rely on.
soundTask(t) ==
  /\ t.op = "none" => t = nowhere
  /\ t.op \in {"event", "close", "remove"} => t.pull \in Pulls
  /\ t.op = "deleteApp" => t.app \in Apps
  /\ t.op = "event" => t.todo \subseteq Apps
  /\ t.op \in Removals => t.todo \subseteq known
  /\ t.op # "event" => t.room = {} /\ ~ t.creates /\ t.at \notin EventStages
  /\ t.at \in RemovalStages => t.op \in Removals
  /\ t.at = "clean" => t.op = "deleteApp"
  /\ t.at = "insert" => t.app \in Apps \ t.room /\ t.creates
  /\ t.at \in (EventStages \cup RemovalStages) \ {"insert"} => t.preview \in known
  /\ t.room # {} => t.creates

\* The requests that may still create a preview of a.
pending(a) ==
  {h \in Handlers : \/ a \in task[h].room
                    \/ task[h].at = "insert" /\ task[h].app = a}

RoomLeft ==
  \A a \in Apps :
    Cardinality(previewsOf(a)) + Cardinality(pending(a)) + 1
      <= limit[a] + Cardinality(Handlers)

\* Without an overlap one request at most creates previews of a pull request,
\* and what it is about to insert does not exist.
OneCreator ==
  /\ \A g, h \in Handlers :
       /\ task[g].creates /\ task[h].creates
       /\ task[g].pull = task[h].pull /\ task[g].pull \notin overlapped
       => g = h
  /\ \A h \in Handlers :
       task[h].at = "insert" /\ task[h].pull \notin overlapped
       => existing(task[h].app, task[h].pull) = {}

IInv == /\ TypeOK
        /\ \A h \in Handlers : soundTask(task[h])
        /\ RoomLeft
        /\ OneCreator
        /\ OnePreviewPerPull
=============================================================================
