---------------------- MODULE PreviewDeploymentsProofs ----------------------
(***************************************************************************)
(* Proofs about PreviewDeployments, for any number of applications, pull   *)
(* requests, limits and requests at the same time: the types, the bound on *)
(* the previews of an application, the uniqueness of a preview, and that   *)
(* nothing on the host and no row outlives its preview or pull request.    *)
(***************************************************************************)
EXTENDS PreviewDeployments, FiniteSetTheorems, TLAPS

-----------------------------------------------------------------------------
(* The invariant in four parts                                             *)

DataOK ==
  /\ apps \subseteq Apps
  /\ of \in [Previews -> [app : Apps, pull : Pulls] \cup {None}]
  /\ rows \subseteq known
  /\ domained \subseteq rows
  /\ services \cup code \cup files \subseteq known
  /\ closed \subseteq Pulls /\ overlapped \subseteq Pulls /\ left \subseteq Previews
  /\ events \in 0..MaxEvents

JobsOK ==
  /\ waiting \in [Previews -> Nat]
  /\ \A p \in Previews : waiting[p] > 0 => p \in known
  /\ building \in [Apps -> Build \cup {None}]
  /\ \A a \in Apps : building[a] # None => building[a].of \in known

TasksOK == task \in [Handlers -> Task] /\ \A h \in Handlers : soundTask(task[h])

SingleOK == OneCreator /\ OnePreviewPerPull

\* IInv is its parts, in a state and in the next one.
LEMMA Parts ==
  /\ IInv <=> DataOK /\ JobsOK /\ TasksOK /\ RoomLeft /\ SingleOK
  /\ IInv' <=> DataOK' /\ JobsOK' /\ TasksOK' /\ RoomLeft' /\ SingleOK'
BY DEF IInv, TypeOK, DataOK, JobsOK, TasksOK, SingleOK

LEMMA KnownHas ==
  ASSUME DataOK, NEW p \in known
  PROVE  p \in Previews /\ of[p].app \in Apps /\ of[p].pull \in Pulls
BY DEF DataOK, known

LEMMA NowhereSound == nowhere \in Task /\ soundTask(nowhere)
BY NamesAssumption
   DEF nowhere, Task, Stages, soundTask, Removals, EventStages, RemovalStages

-----------------------------------------------------------------------------
(* Frames: what a step that leaves these alone, or shrinks them, keeps     *)

LEMMA JobsKept ==
  ASSUME JobsOK, UNCHANGED jobVars, known \subseteq known'
  PROVE  JobsOK'
BY DEF JobsOK, jobVars

\* A request moves on to t.
LEMMA Moves ==
  ASSUME TasksOK, NEW h \in Handlers, NEW t \in Task, continue(h, t),
         UNCHANGED of, soundTask(t)
  PROVE  TasksOK'
<1>1. task' \in [Handlers -> Task]
  BY DEF TasksOK, continue
<1>2. ASSUME NEW g \in Handlers PROVE soundTask(task[g])'
  <2>1. task'[g] = t \/ task'[g] = task[g]
    BY DEF TasksOK, continue
  <2>2. soundTask(t) /\ soundTask(task[g])
    BY DEF TasksOK
  <2> QED
    BY <2>1, <2>2 DEF soundTask, known
<1> QED
  BY <1>1, <1>2 DEF TasksOK

\* No preview appears and no request gets nearer to one.
LEMMA RoomKept ==
  ASSUME RoomLeft, DataOK, DataOK',
         \A a \in Apps : previewsOf(a)' \subseteq previewsOf(a),
         \A a \in Apps : pending(a)' \subseteq pending(a)
  PROVE  RoomLeft'
<1> SUFFICES ASSUME NEW a \in Apps
             PROVE  (Cardinality(previewsOf(a)) + Cardinality(pending(a)) + 1
                       <= limit[a] + Cardinality(Handlers))'
  BY DEF RoomLeft
<1>1. IsFiniteSet(Previews)
  BY BoundsAssumption, FS_Interval DEF Previews
<1>2. IsFiniteSet(previewsOf(a)) /\ IsFiniteSet(pending(a))
  BY <1>1, HandlersAssumption, FS_Subset DEF previewsOf, pending, DataOK, known
<1>3. /\ IsFiniteSet(previewsOf(a)') /\ IsFiniteSet(pending(a)')
      /\ Cardinality(previewsOf(a)') <= Cardinality(previewsOf(a))
      /\ Cardinality(pending(a)') <= Cardinality(pending(a))
  BY <1>2, FS_Subset
<1>4. /\ Cardinality(previewsOf(a)) \in Nat /\ Cardinality(pending(a)) \in Nat
      /\ Cardinality(previewsOf(a)') \in Nat /\ Cardinality(pending(a)') \in Nat
      /\ Cardinality(Handlers) \in Nat /\ limit[a] \in Nat
  BY <1>2, <1>3, HandlersAssumption, LimitAssumption, FS_CardinalityType
<1>5. Cardinality(previewsOf(a)) + Cardinality(pending(a)) + 1
        <= limit[a] + Cardinality(Handlers)
  BY DEF RoomLeft
<1> QED
  BY <1>3, <1>4, <1>5

\* No row appears, no overlap is forgotten, and no request begins to create.
LEMMA SingleKept ==
  ASSUME SingleOK, rows' \subseteq rows, UNCHANGED of, overlapped \subseteq overlapped',
         \A h \in Handlers : task'[h].creates =>
           task[h].creates /\ task'[h].pull = task[h].pull,
         \A h \in Handlers : task'[h].at = "insert" =>
           /\ task[h].at = "insert"
           /\ task'[h].app = task[h].app /\ task'[h].pull = task[h].pull
  PROVE  SingleOK'
<1>1. OnePreviewPerPull'
  BY DEF SingleOK, OnePreviewPerPull
<1>2. ASSUME NEW g \in Handlers, NEW h \in Handlers, task'[g].creates, task'[h].creates,
             task'[g].pull = task'[h].pull, task'[g].pull \notin overlapped'
      PROVE  g = h
  BY <1>2 DEF SingleOK, OneCreator
<1>3. ASSUME NEW h \in Handlers, task'[h].at = "insert", task'[h].pull \notin overlapped'
      PROVE  (existing(task[h].app, task[h].pull) = {})'
  BY <1>3 DEF SingleOK, OneCreator, existing
<1> QED
  BY <1>1, <1>2, <1>3 DEF SingleOK, OneCreator

\* A request moves on to t, which is no nearer to a new preview than before; rows
\* may go.
LEMMA Advances ==
  ASSUME IInv, NEW h \in Handlers, NEW t \in Task, continue(h, t), soundTask(t),
         t.room \subseteq task[h].room, t.at # "insert",
         t.creates => task[h].creates /\ t.pull = task[h].pull,
         UNCHANGED of, rows' \subseteq rows, UNCHANGED overlapped, DataOK', JobsOK'
  PROVE  IInv'
<1>1. DataOK /\ TasksOK /\ RoomLeft /\ SingleOK
  BY Parts
<1>2. task' \in [Handlers -> Task] /\ task'[h] = t
      /\ \A g \in Handlers \ {h} : task'[g] = task[g]
  BY <1>1 DEF TasksOK, continue
<1>3. \A a \in Apps : previewsOf(a)' \subseteq previewsOf(a)
  BY DEF previewsOf
<1>4. \A a \in Apps : pending(a)' \subseteq pending(a)
  BY <1>2 DEF pending
<1>5. RoomLeft'
  BY <1>1, <1>3, <1>4, RoomKept
<1>6. SingleOK'
  BY <1>1, <1>2, SingleKept
<1>7. TasksOK'
  BY <1>1, Moves
<1> QED
  BY <1>5, <1>6, <1>7, Parts
\* Requests wait while something else goes on.
LEMMA Waits ==
  ASSUME IInv, UNCHANGED <<of, rows, task>>, overlapped \subseteq overlapped',
         DataOK', JobsOK'
  PROVE  IInv'
<1>1. DataOK /\ TasksOK /\ RoomLeft /\ SingleOK
  BY Parts
<1>2. TasksOK'
  BY <1>1 DEF TasksOK, soundTask, known
<1>3. \A a \in Apps : previewsOf(a)' \subseteq previewsOf(a)
  BY DEF previewsOf
<1>4. \A a \in Apps : pending(a)' \subseteq pending(a)
  BY DEF pending
<1>5. RoomLeft'
  BY <1>1, <1>3, <1>4, RoomKept
<1>6. SingleOK'
  BY <1>1, SingleKept
<1> QED
  BY <1>2, <1>5, <1>6, Parts

-----------------------------------------------------------------------------
(* Requests arrive                                                         *)

\* A request that creates nothing arrives.
LEMMA ArrivesIdly ==
  ASSUME IInv, NEW h \in Handlers, NEW t \in Task, arrive(h, t), soundTask(t),
         t.room = {}, ~ t.creates, t.at # "insert", closed' \subseteq Pulls
  PROVE  IInv'
<1>1. DataOK /\ TasksOK /\ RoomLeft /\ SingleOK /\ JobsOK
  BY Parts
<1>2. /\ task' \in [Handlers -> Task] /\ task'[h] = t
      /\ \A g \in Handlers \ {h} : task'[g] = task[g]
      /\ UNCHANGED <<apps, of, rows, domained, hostVars, jobVars, left>>
      /\ overlapped' = overlapped \cup disturbs(t)
  BY <1>1 DEF TasksOK, arrive
<1>3. disturbs(t) \subseteq Pulls
  <2>1. pullsOf(t) \subseteq Pulls \cup {None}
    BY DEF pullsOf, Task
  <2>2. t.op \in {"none", "deleteApp", "event", "close", "remove"}
    BY DEF Task, Removals
  <2>3. pullsOf(t) \subseteq Pulls
    BY <2>2 DEF pullsOf, soundTask
  <2> QED
    BY <2>3 DEF disturbs
<1>4. DataOK'
  <2>1. events' \in 0..MaxEvents
    BY <1>1, BoundsAssumption DEF DataOK, arrive, Event
  <2> QED
    BY <1>1, <1>2, <1>3, <2>1 DEF DataOK, hostVars, known
<1>5. JobsOK'
  BY <1>1, <1>2, JobsKept DEF known
<1>6. TasksOK'
  BY <1>1, <1>2, Moves DEF arrive, continue
<1>7. \A a \in Apps : previewsOf(a)' \subseteq previewsOf(a)
  BY <1>2 DEF previewsOf
<1>8. \A a \in Apps : pending(a)' \subseteq pending(a)
  BY <1>2 DEF pending
<1>9. RoomLeft'
  BY <1>1, <1>4, <1>7, <1>8, RoomKept
<1>10. SingleOK'
  BY <1>1, <1>2, SingleKept
<1> QED
  BY <1>4, <1>5, <1>6, <1>9, <1>10, Parts

LEMMA RemovalArrives ==
  ASSUME IInv, NEW h \in Handlers,
         \/ \E q \in Pulls : pullRequestClosed(h, q)
         \/ \E p \in Previews : deletePreview(h, p)
         \/ \E a \in Apps : deleteApplication(h, a)
  PROVE  IInv'
<1>1. DataOK
  BY Parts
<1>2. \A T : rows \subseteq known /\ previewsOf(T) \subseteq known /\ pullPreviews(T) \subseteq known
  BY <1>1 DEF DataOK, previewsOf, pullPreviews
<1>3. known \subseteq Previews /\ closed \subseteq Pulls
  BY <1>1 DEF known, DataOK
<1>4. ASSUME NEW q \in Pulls, pullRequestClosed(h, q) PROVE IInv'
  <2> DEFINE t == [nowhere EXCEPT !.op = "close", !.at = "loop", !.pull = q,
                                  !.todo = pullPreviews(q)]
  <2>1. t \in Task
    BY <1>2, <1>3 DEF Task, nowhere, Removals, Stages
  <2>2. soundTask(t)
    BY <1>2 DEF soundTask, nowhere, Removals, EventStages, RemovalStages
  <2>3. t.room = {} /\ ~ t.creates /\ t.at # "insert"
    BY DEF nowhere
  <2>4. closed' \subseteq Pulls /\ arrive(h, t)
    BY <1>3, <1>4 DEF pullRequestClosed
  <2> QED
    BY <2>1, <2>2, <2>3, <2>4, ArrivesIdly
<1>5. ASSUME NEW p \in Previews, deletePreview(h, p) PROVE IInv'
  <2> DEFINE t == [nowhere EXCEPT !.op = "remove", !.at = "loop",
                                  !.pull = of[p].pull, !.todo = {p}]
  <2>1. p \in known /\ of[p].pull \in Pulls
    BY <1>1, <1>2, <1>5, KnownHas DEF deletePreview
  <2>2. t \in Task
    BY <2>1 DEF Task, nowhere, Removals, Stages
  <2>3. soundTask(t)
    BY <2>1 DEF soundTask, nowhere, Removals, EventStages, RemovalStages
  <2>4. t.room = {} /\ ~ t.creates /\ t.at # "insert"
    BY DEF nowhere
  <2>5. closed' \subseteq Pulls /\ arrive(h, t)
    BY <1>3, <1>5 DEF deletePreview
  <2> QED
    BY <2>2, <2>3, <2>4, <2>5, ArrivesIdly
<1>6. ASSUME NEW a \in Apps, deleteApplication(h, a) PROVE IInv'
  <2> DEFINE t == [nowhere EXCEPT !.op = "deleteApp", !.at = "loop", !.app = a,
                                  !.todo = previewsOf(a)]
  <2>1. t \in Task
    BY <1>2, <1>3 DEF Task, nowhere, Removals, Stages
  <2>2. soundTask(t)
    BY <1>2 DEF soundTask, nowhere, Removals, EventStages, RemovalStages
  <2>3. t.room = {} /\ ~ t.creates /\ t.at # "insert"
    BY DEF nowhere
  <2>4. closed' \subseteq Pulls /\ arrive(h, t)
    BY <1>3, <1>6 DEF deleteApplication
  <2> QED
    BY <2>1, <2>2, <2>3, <2>4, ArrivesIdly
<1> QED
  BY <1>4, <1>5, <1>6

\* Where an event that may create a preview of a arrives, there is room for one.
LEMMA EventArrives ==
  ASSUME IInv, NEW h \in Handlers, NEW q \in Pulls, NEW creates \in BOOLEAN,
         pullRequestEvent(h, q, creates)
  PROVE  IInv'
<1>1. DataOK /\ TasksOK /\ RoomLeft /\ SingleOK /\ JobsOK
  BY Parts
<1>2. PICK allowed \in SUBSET apps :
        arrive(h, [nowhere EXCEPT !.op = "event", !.at = "loop", !.pull = q,
                                  !.todo = allowed, !.creates = creates,
                                  !.room = {a \in allowed : creates /\ belowLimit(a)}])
  BY DEF pullRequestEvent
<1> DEFINE room == {a \in allowed : creates /\ belowLimit(a)}
           t == [nowhere EXCEPT !.op = "event", !.at = "loop", !.pull = q,
                                !.todo = allowed, !.creates = creates, !.room = room]
<1>3. allowed \subseteq Apps /\ room \subseteq Apps
  BY <1>1 DEF DataOK
<1>4. t \in Task
  BY <1>3 DEF Task, nowhere, Stages
<1>5. /\ t.op = "event" /\ t.at = "loop" /\ t.pull = q /\ t.todo = allowed
      /\ t.creates = creates /\ t.room = room
  BY DEF nowhere
<1>6. soundTask(t)
  BY <1>3, <1>5 DEF soundTask, Removals, EventStages, RemovalStages
<1> HIDE DEF t
<1>7. /\ task' \in [Handlers -> Task] /\ task'[h] = t
      /\ \A g \in Handlers \ {h} : task'[g] = task[g]
      /\ UNCHANGED <<apps, of, rows, domained, hostVars, jobVars, left>>
      /\ overlapped' = overlapped \cup disturbs(t)
      /\ idle(h) /\ Event
  BY <1>1, <1>2, <1>4 DEF TasksOK, arrive, t
<1>8. task[h] = nowhere
  BY <1>1, <1>7 DEF TasksOK, soundTask, idle
<1>9. DataOK'
  <2>1. events' \in 0..MaxEvents
    BY <1>1, <1>7, BoundsAssumption DEF DataOK, Event
  <2>2. closed' \subseteq Pulls
    BY <1>1 DEF DataOK, pullRequestEvent
  <2>3. disturbs(t) \subseteq Pulls
    BY <1>5 DEF disturbs, pullsOf
  <2> QED
    BY <1>1, <1>7, <2>1, <2>2, <2>3 DEF DataOK, hostVars, known
<1>10. JobsOK'
  BY <1>1, <1>7, JobsKept DEF known
<1>11. TasksOK'
  <2>1. continue(h, t)
    BY <1>2 DEF arrive, continue, t
  <2> QED
    BY <1>1, <1>4, <1>6, <1>7, <2>1, Moves
<1>12. SingleOK'
  <2>1. OnePreviewPerPull'
    BY <1>1, <1>7 DEF SingleOK, OnePreviewPerPull
  <2>2. ASSUME NEW g \in Handlers, g # h, creates, task[g].creates, task[g].pull = q
        PROVE  q \in overlapped'
    <3>1. task[g].op = "event"
      BY <1>1, <2>2 DEF TasksOK, soundTask
    <3>2. q \in pullsOf(t) /\ q \in pullsOf(task[g])
      BY <1>5, <2>2, <3>1 DEF pullsOf
    <3>3. q \in disturbs(t)
      BY <1>5, <2>2, <3>2 DEF disturbs
    <3> QED
      BY <1>7, <3>3
  <2>3. ASSUME NEW f \in Handlers, NEW g \in Handlers, task'[f].creates, task'[g].creates,
               task'[f].pull = task'[g].pull, task'[f].pull \notin overlapped'
        PROVE  f = g
    BY <1>1, <1>5, <1>7, <2>2, <2>3 DEF SingleOK, OneCreator
  <2>4. ASSUME NEW g \in Handlers, task'[g].at = "insert", task'[g].pull \notin overlapped'
        PROVE  (existing(task[g].app, task[g].pull) = {})'
    BY <1>1, <1>5, <1>7, <2>4 DEF SingleOK, OneCreator, existing
  <2> QED
    BY <2>1, <2>3, <2>4 DEF SingleOK, OneCreator
<1>13. RoomLeft'
  <2> SUFFICES ASSUME NEW a \in Apps
               PROVE  (Cardinality(previewsOf(a)) + Cardinality(pending(a)) + 1
                         <= limit[a] + Cardinality(Handlers))'
    BY DEF RoomLeft
  <2>1. previewsOf(a)' = previewsOf(a)
    BY <1>7 DEF previewsOf
  <2>2. IsFiniteSet(previewsOf(a))
    <3>1. IsFiniteSet(Previews)
      BY BoundsAssumption, FS_Interval DEF Previews
    <3> QED
      BY <1>1, <3>1, FS_Subset DEF previewsOf, DataOK, known
  <2>3. /\ IsFiniteSet(pending(a)) /\ IsFiniteSet(pending(a)')
        /\ Cardinality(pending(a)') <= Cardinality(Handlers)
    BY HandlersAssumption, FS_Subset DEF pending
  <2>4. /\ Cardinality(previewsOf(a)) \in Nat /\ Cardinality(pending(a)) \in Nat
        /\ Cardinality(pending(a)') \in Nat
        /\ Cardinality(Handlers) \in Nat /\ limit[a] \in Nat
    BY <2>2, <2>3, HandlersAssumption, LimitAssumption, FS_CardinalityType
  <2>5. CASE a \in room
    <3>1. Cardinality(previewsOf(a)) < limit[a]
      BY <2>5 DEF belowLimit
    <3> QED
      BY <2>1, <2>3, <2>4, <3>1
  <2>6. CASE a \notin room
    <3>1. pending(a)' \subseteq pending(a)
      BY <1>5, <1>7, <2>6 DEF pending
    <3>2. Cardinality(pending(a)') <= Cardinality(pending(a))
      BY <2>3, <3>1, FS_Subset
    <3>3. Cardinality(previewsOf(a)) + Cardinality(pending(a)) + 1
            <= limit[a] + Cardinality(Handlers)
      BY <1>1 DEF RoomLeft
    <3> QED
      BY <2>1, <2>4, <3>2, <3>3
  <2> QED
    BY <2>5, <2>6
<1> QED
  BY <1>9, <1>10, <1>11, <1>12, <1>13, Parts
-----------------------------------------------------------------------------
(* Events at work                                                          *)

\* What an event does next to an application leaves the bound alone: it is
\* passed over, or the event goes from its list to its insertion.
LEMMA NextApplicationStep ==
  ASSUME IInv, NEW h \in Handlers, nextApplication(h)
  PROVE  IInv'
<1> DEFINE t == task[h]
<1>1. DataOK /\ TasksOK /\ RoomLeft /\ SingleOK /\ JobsOK
  BY Parts
<1>2. t \in Task /\ soundTask(t) /\ t.op = "event" /\ t.at = "loop"
  BY <1>1 DEF TasksOK, nextApplication, at
<1>3. UNCHANGED <<apps, of, rows, domained, hostVars, jobVars, closed, overlapped,
                  left, events>>
  BY DEF nextApplication, dbVars, ghostVars
<1>4. DataOK' /\ JobsOK'
  BY <1>1, <1>3 DEF DataOK, JobsOK, known, hostVars, jobVars
<1>5. PICK a \in t.todo :
        LET u == [t EXCEPT !.todo = @ \ {a}, !.room = @ \ {a}] IN
        \/ \E p \in existing(a, t.pull) :
             continue(h, [u EXCEPT !.at = "enqueue", !.preview = p])
        \/ /\ existing(a, t.pull) = {}
           /\ continue(h, IF a \in t.room THEN [u EXCEPT !.at = "insert", !.app = a]
                                          ELSE u)
  BY DEF nextApplication
<1> DEFINE u == [t EXCEPT !.todo = @ \ {a}, !.room = @ \ {a}]
<1>6. a \in Apps
  BY <1>2, <1>5 DEF soundTask
<1>7. /\ u \in Task /\ soundTask(u)
      /\ u.room = t.room \ {a} /\ u.at = "loop" /\ u.creates = t.creates
      /\ u.pull = t.pull /\ u.op = "event" /\ u.todo = t.todo \ {a} /\ u.app = t.app
  BY <1>2 DEF Task, soundTask, Removals, EventStages, RemovalStages
<1> HIDE DEF u
<1>8. CASE \E p \in existing(a, t.pull) :
             continue(h, [u EXCEPT !.at = "enqueue", !.preview = p])
  <2>1. PICK p \in existing(a, t.pull) :
          continue(h, [u EXCEPT !.at = "enqueue", !.preview = p])
    BY <1>8
  <2>2. p \in known /\ p \in Previews
    BY <1>1 DEF existing, DataOK, known
  <2>3. [u EXCEPT !.at = "enqueue", !.preview = p] \in Task
    BY <1>7, <2>2 DEF Task, Stages
  <2>4. soundTask([u EXCEPT !.at = "enqueue", !.preview = p])
    BY <1>7, <2>2 DEF soundTask, Task, Removals, EventStages, RemovalStages
  <2>5. LET v == [u EXCEPT !.at = "enqueue", !.preview = p] IN
        /\ v.room \subseteq t.room /\ v.at # "insert"
        /\ v.creates => t.creates /\ v.pull = t.pull
    BY <1>7 DEF Task
  <2> QED
    BY <1>3, <1>4, <2>1, <2>3, <2>4, <2>5, Advances
<1>9. CASE continue(h, u)
  BY <1>3, <1>4, <1>7, <1>9, Advances
<1>10. CASE /\ existing(a, t.pull) = {} /\ a \in t.room
            /\ continue(h, [u EXCEPT !.at = "insert", !.app = a])
  <2> DEFINE v == [u EXCEPT !.at = "insert", !.app = a]
  <2>1. t.creates
    BY <1>2, <1>10 DEF soundTask
  <2>2. /\ v \in Task /\ v.room = t.room \ {a} /\ v.at = "insert" /\ v.app = a
        /\ v.creates /\ v.pull = t.pull /\ v.op = "event" /\ v.todo = u.todo
    BY <1>6, <1>7, <2>1 DEF Task, Stages
  <2>3. soundTask(v)
    BY <1>6, <1>7, <2>2 DEF soundTask, Removals, EventStages, RemovalStages
  <2>4. continue(h, v)
    BY <1>10
  <2> HIDE DEF v
  <2>5. TasksOK'
    BY <1>1, <1>3, <2>2, <2>3, <2>4, Moves
  <2>6. task'[h] = v /\ \A g \in Handlers \ {h} : task'[g] = task[g]
    BY <1>1, <2>4 DEF TasksOK, continue
  <2>7. \A b \in Apps : pending(b)' \subseteq pending(b)
    BY <1>10, <2>2, <2>6 DEF pending
  <2>8. \A b \in Apps : previewsOf(b)' \subseteq previewsOf(b)
    BY <1>3 DEF previewsOf
  <2>9. RoomLeft'
    BY <1>1, <1>4, <2>7, <2>8, RoomKept
  <2>10. OnePreviewPerPull'
    BY <1>1, <1>3 DEF SingleOK, OnePreviewPerPull
  <2>11. ASSUME NEW f \in Handlers, NEW g \in Handlers, task'[f].creates,
                task'[g].creates, task'[f].pull = task'[g].pull,
                task'[f].pull \notin overlapped'
         PROVE  f = g
    BY <1>1, <1>3, <2>1, <2>2, <2>6, <2>11 DEF SingleOK, OneCreator
  <2>12. ASSUME NEW g \in Handlers, task'[g].at = "insert", task'[g].pull \notin overlapped'
         PROVE  (existing(task[g].app, task[g].pull) = {})'
    BY <1>1, <1>3, <1>10, <2>2, <2>6, <2>12 DEF SingleOK, OneCreator, existing
  <2> QED
    BY <1>4, <2>5, <2>9, <2>10, <2>11, <2>12, Parts DEF SingleOK, OneCreator
<1> QED
  BY <1>5, <1>8, <1>9, <1>10 DEF u

\* The request that inserts a preview was pending and is no more.
LEMMA InsertStep ==
  ASSUME IInv, NEW h \in Handlers, NEW p \in Previews, at(h, "insert"),
         of[p] = None, of' = [of EXCEPT ![p] = [app |-> task[h].app, pull |-> task[h].pull]],
         rows' = rows \cup {p},
         continue(h, [task[h] EXCEPT !.at = "domain", !.preview = p]),
         UNCHANGED <<apps, domained, hostVars, jobVars, ghostVars, events>>
  PROVE  IInv'
<1> DEFINE t == task[h]
           a == t.app
           v == [t EXCEPT !.at = "domain", !.preview = p]
<1>1. DataOK /\ TasksOK /\ RoomLeft /\ SingleOK /\ JobsOK
  BY Parts
<1>2. /\ t \in Task /\ soundTask(t) /\ t.at = "insert" /\ t.creates
      /\ t.app \in Apps /\ t.pull \in Pulls /\ t.op = "event"
  BY <1>1 DEF TasksOK, at, soundTask, EventStages
<1>3. p \notin known /\ p \notin rows
  BY <1>1 DEF known, DataOK
<1>4. /\ of' \in [Previews -> [app : Apps, pull : Pulls] \cup {None}]
      /\ of'[p] = [app |-> t.app, pull |-> t.pull]
      /\ \A r \in Previews \ {p} : of'[r] = of[r]
  BY <1>1, <1>2 DEF DataOK
<1>5. known' = known \cup {p}
  BY <1>2, <1>3, <1>4, NamesAssumption DEF known
<1>6. DataOK'
  BY <1>1, <1>4, <1>5 DEF DataOK, hostVars, ghostVars
<1>7. JobsOK'
  BY <1>1, <1>5, JobsKept
<1>8. /\ v \in Task /\ v.at = "domain" /\ v.preview = p /\ v.room = t.room
      /\ v.creates = t.creates /\ v.pull = t.pull /\ v.op = t.op /\ v.todo = t.todo
  BY <1>2 DEF Task, Stages
<1>9. /\ task' \in [Handlers -> Task] /\ task'[h] = v
      /\ \A g \in Handlers \ {h} : task'[g] = task[g]
  BY <1>1, <1>8 DEF TasksOK, continue
<1> HIDE DEF v
<1>10. TasksOK'
  <2>1. soundTask(task[h])'
    BY <1>2, <1>5, <1>8, <1>9 DEF soundTask, Removals, EventStages, RemovalStages
  <2>2. \A g \in Handlers \ {h} : soundTask(task[g])'
    BY <1>1, <1>5, <1>9 DEF TasksOK, soundTask
  <2> QED
    BY <1>9, <2>1, <2>2 DEF TasksOK
<1>11. RoomLeft'
  <2> SUFFICES ASSUME NEW b \in Apps
               PROVE  (Cardinality(previewsOf(b)) + Cardinality(pending(b)) + 1
                         <= limit[b] + Cardinality(Handlers))'
    BY DEF RoomLeft
  <2>1. IsFiniteSet(previewsOf(b)) /\ IsFiniteSet(pending(b))
    <3>1. IsFiniteSet(Previews)
      BY BoundsAssumption, FS_Interval DEF Previews
    <3> QED
      BY <1>1, <3>1, HandlersAssumption, FS_Subset DEF previewsOf, pending, DataOK, known
  <2>2. /\ Cardinality(previewsOf(b)) \in Nat /\ Cardinality(pending(b)) \in Nat
        /\ Cardinality(Handlers) \in Nat /\ limit[b] \in Nat
    BY <2>1, HandlersAssumption, LimitAssumption, FS_CardinalityType
  <2>3. Cardinality(previewsOf(b)) + Cardinality(pending(b)) + 1
          <= limit[b] + Cardinality(Handlers)
    BY <1>1 DEF RoomLeft
  <2>4. CASE b # a
    <3>1. previewsOf(b)' = previewsOf(b)
      BY <1>1, <1>3, <1>4, <2>4 DEF previewsOf, DataOK, known
    <3>2. pending(b)' = pending(b)
      BY <1>2, <1>8, <1>9, <2>4 DEF pending
    <3> QED
      BY <2>3, <3>1, <3>2
  <2>5. CASE b = a
    <3>1. previewsOf(b)' = previewsOf(b) \cup {p} /\ p \notin previewsOf(b)
      BY <1>1, <1>3, <1>4, <2>5 DEF previewsOf, DataOK, known
    <3>2. Cardinality(previewsOf(b)') = Cardinality(previewsOf(b)) + 1
      BY <2>1, <3>1, FS_AddElement
    <3>3. b \notin t.room
      BY <1>2, <2>5 DEF soundTask
    <3>4. pending(b)' = pending(b) \ {h} /\ h \in pending(b)
      BY <1>2, <1>8, <1>9, <2>5, <3>3 DEF pending
    <3>5. Cardinality(pending(b)') = Cardinality(pending(b)) - 1
      BY <2>1, <3>4, FS_RemoveElement
    <3> QED
      BY <2>2, <2>3, <3>2, <3>5
  <2> QED
    BY <2>4, <2>5
<1>12. OnePreviewPerPull'
  <2> SUFFICES ASSUME NEW q \in rows', NEW r \in rows', of'[q] = of'[r],
                      of'[q].pull \notin overlapped'
               PROVE  q = r
    BY DEF OnePreviewPerPull
  <2>1. UNCHANGED overlapped /\ rows \subseteq Previews
    BY <1>1 DEF ghostVars, DataOK, known
  <2>2. CASE q \in rows /\ r \in rows
    BY <1>1, <1>3, <1>4, <2>1, <2>2 DEF SingleOK, OnePreviewPerPull
  <2>3. ASSUME NEW o \in rows, t.pull \notin overlapped PROVE of'[o] # of'[p]
    BY <1>1, <1>2, <1>3, <1>4, <2>1, <2>3 DEF SingleOK, OneCreator, existing
  <2> QED
    BY <1>4, <2>1, <2>2, <2>3
<1>13. OneCreator'
  <2>1. UNCHANGED overlapped /\ rows \subseteq Previews
    BY <1>1 DEF ghostVars, DataOK, known
  <2>2. ASSUME NEW f \in Handlers, NEW g \in Handlers, task'[f].creates,
               task'[g].creates, task'[f].pull = task'[g].pull,
               task'[f].pull \notin overlapped'
        PROVE  f = g
    BY <1>1, <1>8, <1>9, <2>1, <2>2 DEF SingleOK, OneCreator
  <2>3. ASSUME NEW g \in Handlers, task'[g].at = "insert", task'[g].pull \notin overlapped'
        PROVE  (existing(task[g].app, task[g].pull) = {})'
    <3>1. g # h /\ task'[g] = task[g]
      BY <1>8, <1>9, <2>3
    <3>2. task[g].creates
      BY <1>1, <2>3, <3>1 DEF TasksOK, soundTask
    <3>3. task[g].pull # t.pull
      BY <1>1, <1>2, <2>1, <2>3, <3>1, <3>2 DEF SingleOK, OneCreator
    <3>4. existing(task[g].app, task[g].pull) = {}
      BY <1>1, <2>1, <2>3, <3>1 DEF SingleOK, OneCreator
    <3> QED
      BY <1>3, <1>4, <2>1, <3>1, <3>3, <3>4 DEF existing
  <2> QED
    BY <2>2, <2>3 DEF OneCreator
<1> QED
  BY <1>6, <1>7, <1>10, <1>11, <1>12, <1>13, Parts DEF SingleOK
LEMMA EventStep ==
  ASSUME IInv, NEW h \in Handlers,
         \/ insertPreview(h) \/ createDomain(h) \/ manageDomain(h)
         \/ linkDomain(h) \/ enqueue(h)
  PROVE  IInv'
<1> DEFINE t == task[h]
<1>1. DataOK /\ TasksOK /\ JobsOK
  BY Parts
<1>2. t \in Task /\ soundTask(t)
  BY <1>1 DEF TasksOK
<1>3. Event => events' \in 0..MaxEvents
  BY <1>1, BoundsAssumption DEF Event, DataOK
<1>4. ASSUME end(h), UNCHANGED <<apps, of, rows, domained, hostVars, jobVars, ghostVars>>,
             Event \/ UNCHANGED events
      PROVE  IInv'
  <2>1. DataOK'
    BY <1>1, <1>3, <1>4 DEF DataOK, known, hostVars, ghostVars
  <2>2. JobsOK'
    BY <1>1, <1>4, JobsKept DEF known
  <2>3. nowhere.room = {} /\ nowhere.at = "idle" /\ ~ nowhere.creates
    BY DEF nowhere
  <2> QED
    BY <1>4, <2>1, <2>2, <2>3, NowhereSound, Advances DEF end, ghostVars
<1>5. ASSUME NEW stage \in {"file", "link", "enqueue"}, goto(h, stage),
             t.at \in {"domain", "file", "link"},
             UNCHANGED <<of, rows, overlapped>>, DataOK', JobsOK'
      PROVE  IInv'
  <2> DEFINE u == [t EXCEPT !.at = stage]
  <2>1. u \in Task
    BY <1>2 DEF Task, Stages
  <2>2. soundTask(u)
    BY <1>2, <1>5 DEF Task, soundTask, Removals, EventStages, RemovalStages
  <2>3. u.room = t.room /\ u.at # "insert" /\ u.creates = t.creates /\ u.pull = t.pull
    BY <1>2 DEF Task
  <2> QED
    BY <1>5, <2>1, <2>2, <2>3, Advances DEF goto
<1>6. CASE insertPreview(h)
  <2>1. CASE \E p \in Previews :
               /\ of[p] = None
               /\ of' = [of EXCEPT ![p] = [app |-> t.app, pull |-> t.pull]]
               /\ rows' = rows \cup {p}
               /\ continue(h, [t EXCEPT !.at = "domain", !.preview = p])
               /\ UNCHANGED events
    BY <1>6, <2>1, InsertStep DEF insertPreview
  <2>2. CASE end(h) /\ UNCHANGED <<of, rows>> /\ (Event \/ UNCHANGED events)
    BY <1>4, <1>6, <2>2 DEF insertPreview
  <2> QED
    BY <1>6, <2>1, <2>2 DEF insertPreview, throw
<1>7. CASE createDomain(h)
  <2>1. CASE goto(h, "file") /\ UNCHANGED events
    <3>1. DataOK' /\ JobsOK'
      BY <1>1, <1>7, <2>1, JobsKept
         DEF createDomain, DataOK, known, dbVars, hostVars, ghostVars
    <3> QED
      BY <1>5, <1>7, <2>1, <3>1 DEF createDomain, at, dbVars, ghostVars
  <2>2. CASE end(h) /\ (Event \/ UNCHANGED events)
    BY <1>4, <1>7, <2>2 DEF createDomain, dbVars
  <2> QED
    BY <1>7, <2>1, <2>2 DEF createDomain, throw
<1>8. CASE manageDomain(h)
  <2>1. t.at = "file" /\ t.preview \in known
    BY <1>2, <1>8 DEF manageDomain, at, soundTask, EventStages
  <2>2. DataOK'
    BY <1>1, <1>3, <1>8, <2>1 DEF manageDomain, DataOK, known, dbVars, ghostVars
  <2>3. JobsOK'
    BY <1>1, <1>8, JobsKept DEF manageDomain, known, dbVars
  <2> QED
    BY <1>5, <1>8, <2>1, <2>2, <2>3 DEF manageDomain, dbVars, ghostVars
<1>9. CASE linkDomain(h)
  <2>1. CASE end(h) /\ Event /\ UNCHANGED domained
    BY <1>4, <1>9, <2>1 DEF linkDomain
  <2>2. CASE /\ domained' = domained \cup linked(t.preview)
             /\ goto(h, "enqueue") /\ UNCHANGED events
    <3>1. DataOK'
      BY <1>1, <1>9, <2>2 DEF linkDomain, linked, DataOK, known, hostVars, ghostVars
    <3>2. JobsOK'
      BY <1>1, <1>9, JobsKept DEF linkDomain, known
    <3> QED
      BY <1>5, <1>9, <2>2, <3>1, <3>2 DEF linkDomain, at, ghostVars
  <2> QED
    BY <1>9, <2>1, <2>2 DEF linkDomain, throw
<1>10. CASE enqueue(h)
  <2> DEFINE u == [t EXCEPT !.at = "loop", !.app = None, !.preview = 0]
  <2>1. t.preview \in known /\ t.op = "event"
    BY <1>2, <1>10 DEF enqueue, at, soundTask, EventStages
  <2>2. u \in Task
    BY <1>2 DEF Task, Stages
  <2>3. soundTask(u)
    BY <1>2, <2>1 DEF Task, soundTask, Removals, EventStages, RemovalStages
  <2>4. u.room = t.room /\ u.at # "insert" /\ u.creates = t.creates /\ u.pull = t.pull
    BY <1>2 DEF Task
  <2>5. DataOK'
    BY <1>1, <1>10 DEF enqueue, DataOK, known, dbVars, hostVars, ghostVars
  <2>6. JobsOK'
    BY <1>1, <1>10, <2>1 DEF enqueue, JobsOK, known, dbVars
  <2>7. continue(h, u) /\ UNCHANGED <<of, rows, overlapped>>
    BY <1>10 DEF enqueue, dbVars, ghostVars
  <2> QED
    BY <2>2, <2>3, <2>4, <2>5, <2>6, <2>7, Advances
<1> QED
  BY <1>6, <1>7, <1>8, <1>9, <1>10

-----------------------------------------------------------------------------
(* Removals at work                                                        *)

LEMMA RemovalStep ==
  ASSUME IInv, NEW h \in Handlers,
         \/ nextPreview(h) \/ removePreviewDeployment(h) \/ deleteApplicationRow(h)
         \/ cleanQueuesByApplication(h) \/ respond(h)
  PROVE  IInv'
<1> DEFINE t == task[h]
<1>1. DataOK /\ TasksOK /\ JobsOK
  BY Parts
<1>2. t \in Task /\ soundTask(t)
  BY <1>1 DEF TasksOK
<1>3. Event => events' \in 0..MaxEvents
  BY <1>1, BoundsAssumption DEF Event, DataOK
<1>4. ASSUME end(h), UNCHANGED <<of, rows, overlapped>>, DataOK', JobsOK'
      PROVE  IInv'
  <2>1. nowhere.room = {} /\ nowhere.at = "idle" /\ ~ nowhere.creates
    BY DEF nowhere
  <2> QED
    BY <1>4, <2>1, NowhereSound, Advances DEF end
<1>5. CASE nextPreview(h)
  <2>1. PICK p \in t.todo :
          continue(h, IF p \in rows
                      THEN [[t EXCEPT !.todo = @ \ {p}]
                              EXCEPT !.at = "rmService", !.preview = p]
                      ELSE [t EXCEPT !.todo = @ \ {p}])
    BY <1>5 DEF nextPreview
  <2> DEFINE u == [t EXCEPT !.todo = @ \ {p}]
             w == [u EXCEPT !.at = "rmService", !.preview = p]
  <2>2. t.op \in Removals /\ t.at = "loop" /\ p \in known /\ p \in Previews
    BY <1>2, <1>5 DEF nextPreview, at, soundTask, known
  <2>3. /\ u \in Task /\ u.room = t.room /\ u.at = t.at /\ u.creates = t.creates
        /\ u.pull = t.pull /\ u.op = t.op /\ u.app = t.app /\ u.preview = t.preview
        /\ u.todo = t.todo \ {p}
    BY <1>2 DEF Task
  <2> HIDE DEF u
  <2>4. soundTask(u)
    BY <1>2, <2>2, <2>3 DEF soundTask, Removals, EventStages, RemovalStages
  <2>5. /\ w \in Task /\ w.room = t.room /\ w.at = "rmService" /\ w.creates = t.creates
        /\ w.pull = t.pull /\ w.op = t.op /\ w.app = t.app /\ w.preview = p
        /\ w.todo = u.todo
    BY <2>2, <2>3 DEF Task, Stages
  <2> HIDE DEF w
  <2>6. soundTask(w)
    BY <2>2, <2>3, <2>4, <2>5 DEF soundTask, Removals, EventStages, RemovalStages
  <2>7. continue(h, u) \/ continue(h, w)
    BY <2>1 DEF u, w
  <2>8. DataOK' /\ JobsOK'
    BY <1>1, <1>5, JobsKept
       DEF nextPreview, DataOK, known, dbVars, hostVars, ghostVars
  <2>9. UNCHANGED <<of, rows, overlapped>>
    BY <1>5 DEF nextPreview, dbVars, ghostVars
  <2> QED
    BY <2>2, <2>3, <2>4, <2>5, <2>6, <2>7, <2>8, <2>9, Advances
<1>6. ASSUME NEW from \in RemovalStages, NEW to \in {"rmCode", "rmFile", "rmRow", "loop"},
             NEW before, NEW after, removed(h, from, to, before, after),
             rows' \subseteq rows, domained' \subseteq domained \cap rows',
             services' \subseteq services, code' \subseteq code, files' \subseteq files
      PROVE  IInv'
  <2> DEFINE u == [t EXCEPT !.at = to, !.preview = IF to = "loop" THEN 0 ELSE @]
  <2>1. t.at \in RemovalStages /\ t.op \in Removals /\ t.preview \in known
    BY <1>2, <1>6 DEF removed, at, soundTask, RemovalStages
  <2>2. /\ u \in Task /\ u.room = t.room /\ u.at = to /\ u.creates = t.creates
        /\ u.pull = t.pull /\ u.op = t.op /\ u.app = t.app /\ u.todo = t.todo
        /\ u.preview = IF to = "loop" THEN 0 ELSE t.preview
    BY <1>2 DEF Task, Stages
  <2> HIDE DEF u
  <2>3. soundTask(u)
    BY <1>2, <2>1, <2>2 DEF soundTask, Removals, EventStages, RemovalStages
  <2>4. DataOK'
    BY <1>1, <1>3, <1>6, <2>1 DEF removed, DataOK, known
  <2>5. JobsOK'
    BY <1>1, <1>6, JobsKept DEF removed, known
  <2>6. continue(h, u) /\ UNCHANGED <<of, overlapped>>
    BY <1>6 DEF removed, u
  <2> QED
    BY <1>6, <2>2, <2>3, <2>4, <2>5, <2>6, Advances
<1>7. CASE removePreviewDeployment(h)
  <2>1. domained \subseteq rows
    BY <1>1 DEF DataOK
  <2>2. \A before, after : removed(h, "rmService", "rmCode", before, after)
                           => after \subseteq before
    BY DEF removed
  <2>3. \A before, after : removed(h, "rmCode", "rmFile", before, after)
                           => after \subseteq before
    BY DEF removed
  <2>4. \A before, after : removed(h, "rmFile", "rmRow", before, after)
                           => after \subseteq before
    BY DEF removed
  <2>5. \A before, after : removed(h, "rmRow", "loop", before, after)
                           => after \subseteq before
    BY DEF removed
  <2> QED
    BY <1>6, <1>7, <2>1, <2>2, <2>3, <2>4, <2>5
       DEF removePreviewDeployment, RemovalStages, hostVars
<1>8. CASE deleteApplicationRow(h)
  <2> DEFINE u == [t EXCEPT !.at = "clean"]
  <2>1. u \in Task
    BY <1>2 DEF Task, Stages
  <2>2. soundTask(u)
    BY <1>2, <1>8 DEF Task, soundTask, Removals, EventStages, RemovalStages,
                      deleteApplicationRow
  <2>3. u.room = t.room /\ u.at # "insert" /\ u.creates = t.creates /\ u.pull = t.pull
    BY <1>2 DEF Task
  <2>4. DataOK'
    BY <1>1, <1>8 DEF deleteApplicationRow, DataOK, known, hostVars, ghostVars
  <2>5. JobsOK'
    BY <1>1, <1>8, JobsKept DEF deleteApplicationRow, known
  <2>6. continue(h, u) /\ UNCHANGED <<of, overlapped>> /\ rows' \subseteq rows
    BY <1>8 DEF deleteApplicationRow, ghostVars, goto
  <2> QED
    BY <2>1, <2>2, <2>3, <2>4, <2>5, <2>6, Advances
<1>9. CASE cleanQueuesByApplication(h)
  <2>1. DataOK' /\ UNCHANGED <<of, rows, overlapped>>
    BY <1>1, <1>9 DEF cleanQueuesByApplication, DataOK, known, dbVars, hostVars, ghostVars
  <2>2. JobsOK'
    BY <1>1, <1>9 DEF cleanQueuesByApplication, JobsOK, known, dbVars
  <2> QED
    BY <1>4, <1>9, <2>1, <2>2 DEF cleanQueuesByApplication
<1>10. CASE respond(h)
  <2>1. DataOK' /\ UNCHANGED <<of, rows, overlapped>>
    BY <1>1, <1>10 DEF respond, DataOK, known, dbVars, hostVars, ghostVars
  <2>2. JobsOK'
    BY <1>1, <1>10, JobsKept DEF respond, known, dbVars
  <2> QED
    BY <1>4, <1>10, <2>1, <2>2 DEF respond
<1> QED
  BY <1>5, <1>7, <1>8, <1>9, <1>10
-----------------------------------------------------------------------------
(* Builds and restarts                                                     *)

LEMMA BuildStep ==
  ASSUME IInv, NEW a \in Apps, RunBuild(a)
  PROVE  IInv'
<1>1. DataOK /\ JobsOK
  BY Parts
<1>2. ASSUME NEW b \in Build \cup {None}, build(a, b), b # None => b.of \in known,
             UNCHANGED of
      PROVE  /\ building' \in [Apps -> Build \cup {None}]
             /\ \A c \in Apps : building'[c] # None => building'[c].of \in known'
  BY <1>1, <1>2 DEF build, JobsOK, known
<1>3. ASSUME building[a] # None
      PROVE  building[a] \in Build /\ building[a].of \in known
  BY <1>1, <1>3 DEF JobsOK
<1>4. ASSUME NEW p \in Previews, startBuild(a, p) PROVE IInv'
  <2>1. p \in known
    BY <1>1, <1>4 DEF startBuild, JobsOK
  <2>2. JobsOK'
    <3>1. [of |-> p, at |-> "prepare"] \in Build
      BY DEF Build
    <3>2. waiting' \in [Previews -> Nat]
      BY <1>1, <1>4 DEF startBuild, JobsOK
    <3>3. \A r \in Previews : waiting'[r] > 0 => r \in known'
      BY <1>1, <1>4, <2>1 DEF startBuild, JobsOK, known, dbVars
    <3> QED
      BY <1>2, <1>4, <2>1, <3>1, <3>2, <3>3 DEF startBuild, JobsOK, dbVars
  <2>3. of[p].pull \in Pulls
    BY <1>1, <2>1, KnownHas
  <2>4. DataOK'
    BY <1>1, <1>4, <2>3 DEF startBuild, DataOK, known, dbVars, hostVars
  <2> QED
    BY <1>4, <2>2, <2>4, Waits DEF startBuild, dbVars
<1>5. CASE prepareBuild(a)
  <2>1. building[a] \in Build /\ building[a].of \in known
    BY <1>3, <1>5 DEF prepareBuild
  <2>2. LET b == [building[a] EXCEPT !.at = "clone"] IN b \in Build /\ b.of \in known
    BY <2>1 DEF Build
  <2>3. JobsOK'
    BY <1>1, <1>2, <1>5, <2>2 DEF prepareBuild, JobsOK, known, dbVars
  <2>4. DataOK'
    BY <1>1, <1>5 DEF prepareBuild, DataOK, known, dbVars, hostVars, ghostVars
  <2> QED
    BY <1>5, <2>3, <2>4, Waits DEF prepareBuild, dbVars, ghostVars
<1>6. CASE cloneAndBuild(a)
  <2>1. building[a] \in Build /\ building[a].of \in known
    BY <1>3, <1>6 DEF cloneAndBuild
  <2>2. LET b == [building[a] EXCEPT !.at = "service"] IN b \in Build /\ b.of \in known
    BY <2>1 DEF Build
  <2>3. JobsOK'
    BY <1>1, <1>2, <1>6, <2>2 DEF cloneAndBuild, JobsOK, known, dbVars
  <2>4. DataOK'
    BY <1>1, <1>6, <2>1 DEF cloneAndBuild, DataOK, known, dbVars, ghostVars
  <2> QED
    BY <1>6, <2>3, <2>4, Waits DEF cloneAndBuild, dbVars, ghostVars
<1>7. CASE mechanizeDockerContainer(a)
  <2>1. building[a].of \in known
    BY <1>3, <1>7 DEF mechanizeDockerContainer
  <2>2. JobsOK'
    BY <1>1, <1>2, <1>7 DEF mechanizeDockerContainer, JobsOK, known, dbVars
  <2>3. DataOK'
    BY <1>1, <1>7, <2>1 DEF mechanizeDockerContainer, DataOK, known, dbVars, ghostVars
  <2> QED
    BY <1>7, <2>2, <2>3, Waits DEF mechanizeDockerContainer, dbVars, ghostVars
<1> QED
  BY <1>4, <1>5, <1>6, <1>7 DEF RunBuild

LEMMA RestartStep == ASSUME IInv, restart PROVE IInv'
<1>1. DataOK /\ RoomLeft /\ SingleOK
  BY Parts
<1>2. DataOK'
  <2>1. events' \in 0..MaxEvents
    BY <1>1, BoundsAssumption DEF restart, Event, DataOK
  <2> QED
    BY <1>1, <2>1 DEF restart, DataOK, known, dbVars, hostVars
<1>3. JobsOK'
  BY DEF restart, JobsOK
<1>4. UNCHANGED <<of, rows, overlapped>> /\ \A h \in Handlers : task'[h] = nowhere
  BY DEF restart, dbVars
<1>5. nowhere.room = {} /\ nowhere.at = "idle" /\ ~ nowhere.creates
  BY DEF nowhere
<1>6. TasksOK'
  <2>1. task' \in [Handlers -> Task]
    BY NowhereSound DEF restart
  <2> QED
    BY <1>4, <2>1, NowhereSound DEF TasksOK, soundTask, known, nowhere
<1>7. RoomLeft'
  <2>1. \A a \in Apps : previewsOf(a)' \subseteq previewsOf(a)
    BY <1>4 DEF previewsOf
  <2>2. \A a \in Apps : pending(a)' \subseteq pending(a)
    BY <1>4, <1>5 DEF pending
  <2> QED
    BY <1>1, <1>2, <2>1, <2>2, RoomKept
<1>8. SingleOK'
  BY <1>1, <1>4, <1>5, SingleKept
<1> QED
  BY <1>2, <1>3, <1>6, <1>7, <1>8, Parts

LEMMA RedeployStep == ASSUME IInv, NEW p \in Previews, redeploy(p) PROVE IInv'
<1>1. DataOK /\ JobsOK
  BY Parts
<1>2. DataOK'
  <2>1. events' \in 0..MaxEvents
    BY <1>1, BoundsAssumption DEF redeploy, Event, DataOK
  <2> QED
    BY <1>1, <2>1 DEF redeploy, DataOK, known, dbVars, hostVars
<1>3. JobsOK'
  BY <1>1 DEF redeploy, JobsOK, DataOK, known, dbVars
<1> QED
  BY <1>2, <1>3, Waits DEF redeploy, dbVars

-----------------------------------------------------------------------------
LEMMA InitInvariant == Init => IInv
<1> SUFFICES ASSUME Init PROVE IInv
  OBVIOUS
<1>1. nowhere.room = {} /\ nowhere.at = "idle" /\ ~ nowhere.creates
  BY DEF nowhere
<1>2. DataOK
  <2>1. events \in 0..MaxEvents
    BY BoundsAssumption DEF Init
  <2> QED
    BY <2>1 DEF Init, DataOK, known
<1>3. JobsOK
  BY DEF Init, JobsOK
<1>4. TasksOK
  BY NowhereSound DEF Init, TasksOK
<1>5. SingleOK
  BY <1>1 DEF Init, SingleOK, OneCreator, OnePreviewPerPull
<1>6. RoomLeft
  <2> SUFFICES ASSUME NEW a \in Apps
               PROVE  Cardinality(previewsOf(a)) + Cardinality(pending(a)) + 1
                        <= limit[a] + Cardinality(Handlers)
    BY DEF RoomLeft
  <2>1. previewsOf(a) = {} /\ pending(a) = {}
    BY <1>1 DEF Init, previewsOf, pending
  <2>2. Cardinality(previewsOf(a)) = 0 /\ Cardinality(pending(a)) = 0
    BY <2>1, FS_EmptySet
  <2>3. /\ Cardinality(Handlers) \in Nat /\ Cardinality(Handlers) # 0
        /\ limit[a] \in Nat
    BY HandlersAssumption, LimitAssumption, FS_CardinalityType, FS_EmptySet
  <2> QED
    BY <2>2, <2>3
<1> QED
  BY <1>2, <1>3, <1>4, <1>5, <1>6, Parts

LEMMA StepInvariant == IInv /\ [Next]_vars => IInv'
<1> SUFFICES ASSUME IInv, [Next]_vars PROVE IInv'
  OBVIOUS
<1>1. ASSUME NEW h \in Handlers, Arrive(h) PROVE IInv'
  BY <1>1, RemovalArrives, EventArrives DEF Arrive
<1>2. ASSUME NEW h \in Handlers, Work(h) PROVE IInv'
  BY <1>2, NextApplicationStep, EventStep, RemovalStep DEF Work
<1>3. CASE UNCHANGED vars
  <2>1. DataOK' /\ JobsOK'
    BY <1>3, Parts DEF vars, DataOK, JobsOK, known, hostVars, jobVars
  <2> QED
    BY <1>3, <2>1, Waits DEF vars
<1> QED
  BY <1>1, <1>2, <1>3, BuildStep, RedeployStep, RestartStep DEF Next

LEMMA Invariant == Spec => []IInv
BY InitInvariant, StepInvariant, PTL DEF Spec

\* Every variable keeps its type: no domain is linked, no job waits and no build
\* runs for a preview there has never been, and no domain is linked to a preview
\* whose row is gone.
THEOREM TypeCorrect == Spec => []TypeOK
<1>1. IInv => TypeOK
  BY DEF IInv
<1> QED
  BY <1>1, Invariant, PTL

\* However many events arrive and whatever fails, an application has at most
\* limit - 1 + n previews when n requests are handled at the same time.
THEOREM LimitExceededByOverlapOnly == Spec => []WithinLimit
<1>1. IInv => WithinLimit
  <2> SUFFICES ASSUME IInv, NEW a \in Apps
               PROVE  Cardinality(previewsOf(a)) + 1 <= limit[a] + Cardinality(Handlers)
    BY DEF WithinLimit
  <2>1. IsFiniteSet(previewsOf(a)) /\ IsFiniteSet(pending(a))
    <3>1. IsFiniteSet(Previews)
      BY BoundsAssumption, FS_Interval DEF Previews
    <3> QED
      BY <3>1, HandlersAssumption, FS_Subset, Parts DEF previewsOf, pending, DataOK, known
  <2>2. /\ Cardinality(previewsOf(a)) \in Nat /\ Cardinality(pending(a)) \in Nat
        /\ Cardinality(Handlers) \in Nat /\ limit[a] \in Nat
    BY <2>1, HandlersAssumption, LimitAssumption, FS_CardinalityType
  <2>3. Cardinality(previewsOf(a)) + Cardinality(pending(a)) + 1
          <= limit[a] + Cardinality(Handlers)
    BY DEF IInv, RoomLeft
  <2> QED
    BY <2>2, <2>3
<1> QED
  BY <1>1, Invariant, PTL

\* No interleaving gives an application two previews of a pull request whose
\* events and removals were handled one after the other, though no constraint of
\* the database forbids them.
THEOREM PreviewsUnique == Spec => []OnePreviewPerPull
<1>1. IInv => OnePreviewPerPull
  BY DEF IInv
<1> QED
  BY <1>1, Invariant, PTL

-----------------------------------------------------------------------------
(* What the host holds: the inductive invariant behind NoOrphans and       *)
(* ClosedLeavesNoRow                                                       *)

\* What happened to p is excused: an operation of its removal failed, or its pull
\* request saw two activities at once.
excused(p) == p \in left \/ of[p].pull \in overlapped

\* The previews a removal still has to remove.
listed(t) == (IF t.op \in Removals THEN t.todo ELSE {})
             \cup (IF t.at \in RemovalStages THEN {t.preview} ELSE {})

\* A removal that shares a pull request with another request, or with a build, has
\* been noticed.
RemovalsAlone ==
  \A g, h \in Handlers :
    g # h /\ task[g].op \in Removals =>
      pullsOf(task[g]) \cap pullsOf(task[h]) \subseteq overlapped
BuildsAlone ==
  \A h \in Handlers, a \in Apps :
    /\ task[h].op \in Removals /\ building[a] # None
    /\ of[building[a].of].pull \in pullsOf(task[h])
    => of[building[a].of].pull \in overlapped

\* A request works on previews of its own pull requests.
OwnPreviews ==
  \A h \in Handlers :
    /\ \A p \in listed(task[h]) : of[p].pull \in pullsOf(task[h])
    /\ task[h].at \in EventStages \ {"insert"} => of[task[h].preview].pull = task[h].pull

\* What an event or a build is about to put on the host has its row.
RowsStand ==
  /\ \A h \in Handlers :
       task[h].at = "file" => task[h].preview \in rows \/ task[h].pull \in overlapped
  /\ \A a \in Apps :
       building[a] # None /\ building[a].at \in {"clone", "service"} =>
         building[a].of \in rows \/ of[building[a].of].pull \in overlapped

\* What the stages before this one have left of p.
remains(p, stage) ==
  \/ stage \in {"rmCode", "rmFile", "rmRow"} /\ p \in services
  \/ stage \in {"rmFile", "rmRow"} /\ p \in code
  \/ stage = "rmRow" /\ p \in files

RemovalProgress ==
  \A h \in Handlers :
    task[h].at \in RemovalStages /\ remains(task[h].preview, task[h].at)
      => excused(task[h].preview)

\* The deletion of an application has every preview of it on its list.
DeleteCovers ==
  \A h \in Handlers :
    task[h].op = "deleteApp" /\ task[h].at # "clean" =>
      \A p \in previewsOf(task[h].app) : p \in listed(task[h]) \/ excused(p)

HostAccounted == \A p \in services \cup code \cup files : p \in rows \/ excused(p)

\* A pull request that is closed gets no preview, and those it has are about to go.
ClosedListed ==
  /\ \A h \in Handlers : task[h].creates => task[h].pull \notin closed \ overlapped
  /\ \A p \in rows : of[p].pull \in closed =>
       \/ excused(p)
       \/ \E h \in Handlers : /\ task[h].op = "close" /\ task[h].pull = of[p].pull
                              /\ p \in listed(task[h])

Alone    == RemovalsAlone /\ BuildsAlone
Accounts == OwnPreviews /\ RowsStand /\ RemovalProgress /\ DeleteCovers
            /\ HostAccounted /\ ClosedListed

\* A request that moves from t to u stays what it is, or ends.
pursues(t, u) ==
  \/ u = nowhere
  \/ /\ u.op = t.op /\ u.pull = t.pull /\ u.creates = t.creates
     /\ t.op = "deleteApp" => u.app = t.app

LEMMA PullsOf ==
  /\ \A t \in Task : soundTask(t) => pullsOf(t) \subseteq Pulls
  /\ \A t \in Task : t.op \in {"event", "close", "remove"} => pullsOf(t) = {t.pull}
  /\ \A t \in Task : t.op = "deleteApp" => pullsOf(t) = Pulls
  /\ pullsOf(nowhere) = {}
<1>1. \A t \in Task : t.op \in {"none", "deleteApp", "event", "close", "remove"}
  BY DEF Task, Removals
<1>2. nowhere.op = "none"
  BY DEF nowhere
<1> QED
  BY <1>1, <1>2 DEF pullsOf, soundTask

\* The request h goes on to t, and the others stay where they are.
LEMMA GoesOn ==
  ASSUME TasksOK, NEW h \in Handlers, NEW t, continue(h, t)
  PROVE  task'[h] = t /\ \A g \in Handlers \ {h} : task'[g] = task[g]
BY DEF TasksOK, continue

LEMMA Nowhere ==
  /\ nowhere.op = "none" /\ nowhere.at = "idle" /\ ~ nowhere.creates
  /\ listed(nowhere) = {}
BY DEF nowhere, listed, Removals, RemovalStages

\* Nobody is in anybody's way who was not before.
LEMMA AloneKept ==
  ASSUME DataOK, JobsOK, TasksOK, Alone,
         \A p \in known : of'[p] = of[p], overlapped \subseteq overlapped',
         \A g \in Handlers : pursues(task[g], task'[g]),
         \A a \in Apps : building'[a] # None =>
           building[a] # None /\ building'[a].of = building[a].of
  PROVE  Alone'
<1>1. \A g \in Handlers : /\ pullsOf(task'[g]) \subseteq pullsOf(task[g])
                          /\ task'[g].op \in Removals => task[g].op \in Removals
  <2> TAKE g \in Handlers
  <2>1. CASE task'[g] = nowhere
    BY <2>1, PullsOf, Nowhere DEF Removals
  <2>2. CASE task'[g] # nowhere
    <3>1. task'[g].op = task[g].op /\ task'[g].pull = task[g].pull
      BY <2>2 DEF pursues
    <3> QED
      BY <3>1 DEF pullsOf
  <2> QED
    BY <2>1, <2>2
<1>2. RemovalsAlone'
  <2> SUFFICES ASSUME NEW g \in Handlers, NEW h \in Handlers, g # h, task'[g].op \in Removals
               PROVE  (pullsOf(task[g]) \cap pullsOf(task[h]))' \subseteq overlapped'
    BY DEF RemovalsAlone
  <2>1. pullsOf(task[g])' = pullsOf(task'[g]) /\ pullsOf(task[h])' = pullsOf(task'[h])
    BY DEF pullsOf
  <2>2. pullsOf(task[g]) \cap pullsOf(task[h]) \subseteq overlapped
    BY <1>1 DEF Alone, RemovalsAlone
  <2> QED
    BY <1>1, <2>1, <2>2
<1>3. BuildsAlone'
  <2> SUFFICES ASSUME NEW h \in Handlers, NEW a \in Apps, task'[h].op \in Removals,
                      building'[a] # None,
                      of'[building'[a].of].pull \in pullsOf(task'[h])
               PROVE  of'[building'[a].of].pull \in overlapped'
    BY DEF BuildsAlone, pullsOf
  <2>1. /\ building[a] # None /\ building'[a].of = building[a].of
        /\ of'[building[a].of] = of[building[a].of]
    BY DEF JobsOK
  <2> QED
    BY <1>1, <2>1 DEF Alone, BuildsAlone
<1> QED
  BY <1>2, <1>3 DEF Alone

\* A request goes on with its list, and nothing else happens to previews.
LEMMA AccountsHandedOn ==
  ASSUME TasksOK, Accounts, NEW h \in Handlers, NEW u \in Task, continue(h, u),
         UNCHANGED <<of, rows, hostVars, building, closed, overlapped, left>>,
         pursues(task[h], u), listed(u) \subseteq listed(task[h]),
         task[h].at # "clean" => rows \cap listed(task[h]) \subseteq listed(u),
         u.at \in EventStages \ {"insert"} => of[u.preview].pull = u.pull,
         u.at = "file" => u.preview \in rows,
         u.at \in RemovalStages => u.at = "rmService",
         u.op = "deleteApp" /\ u.at # "clean" => task[h].at # "clean"
  PROVE  Accounts'
<1> DEFINE t == task[h]
<1>1. task'[h] = u /\ \A g \in Handlers \ {h} : task'[g] = task[g]
  BY GoesOn
<1>2. /\ \A p \in known : excused(p)' = excused(p)
      /\ UNCHANGED <<services, code, files>>
      /\ \A p : excused(p)' <=> excused(p)
  BY DEF excused, hostVars
<1>3. \A g \in Handlers : /\ listed(task[g])' = listed(task'[g])
                          /\ pullsOf(task[g])' = pullsOf(task'[g])
  BY DEF listed, pullsOf
<1>4. u = nowhere \/ (u.op = t.op /\ u.pull = t.pull /\ u.creates = t.creates
                      /\ (t.op = "deleteApp" => u.app = t.app))
  BY DEF pursues
<1>5. OwnPreviews'
  <2>1. \A p \in listed(u) : of[p].pull \in pullsOf(u)
    <3>1. CASE u = nowhere
      BY <3>1, Nowhere
    <3>2. CASE u # nowhere
      BY <1>4, <3>2 DEF Accounts, OwnPreviews, pullsOf
    <3> QED
      BY <3>1, <3>2
  <2>2. \A p \in listed(task'[h]) : of'[p].pull \in pullsOf(task'[h])
    BY <1>1, <2>1
  <2>3. \A g \in Handlers \ {h} : \A p \in listed(task'[g]) : of'[p].pull \in pullsOf(task'[g])
    BY <1>1 DEF Accounts, OwnPreviews
  <2> QED
    BY <1>1, <1>3, <2>2, <2>3 DEF Accounts, OwnPreviews
<1>6. RowsStand'
  BY <1>1 DEF Accounts, RowsStand
<1>7. RemovalProgress'
  <2> SUFFICES ASSUME NEW g \in Handlers, task'[g].at \in RemovalStages,
                      remains(task[g].preview, task[g].at)'
               PROVE  excused(task'[g].preview)
    BY <1>2 DEF RemovalProgress, excused
  <2>1. g # h
    BY <1>1 DEF remains
  <2> QED
    BY <1>1, <1>2, <2>1 DEF Accounts, RemovalProgress, remains
<1>8. DeleteCovers'
  <2> SUFFICES ASSUME NEW g \in Handlers, task'[g].op = "deleteApp", task'[g].at # "clean",
                      NEW p \in rows, of[p].app = task'[g].app
               PROVE  p \in listed(task'[g]) \/ excused(p)
    BY <1>2, <1>3 DEF DeleteCovers, previewsOf
  <2>1. \A f \in Handlers : task[f].op = "deleteApp" /\ task[f].at # "clean"
                             /\ of[p].app = task[f].app
                             => p \in listed(task[f]) \/ excused(p)
    BY DEF Accounts, DeleteCovers, previewsOf
  <2>2. CASE g = h
    BY <1>1, <1>4, <2>1, <2>2, Nowhere
  <2> QED
    BY <1>1, <2>1, <2>2
<1>9. HostAccounted'
  BY <1>2 DEF Accounts, HostAccounted
<1>10. ClosedListed'
  <2>1. \A g \in Handlers : task'[g].creates => task'[g].pull \notin closed' \ overlapped'
    BY <1>1, <1>4, Nowhere DEF Accounts, ClosedListed
  <2>2. ASSUME NEW p \in rows, of[p].pull \in closed, ~ excused(p)
        PROVE  \E g \in Handlers : /\ task'[g].op = "close" /\ task'[g].pull = of[p].pull
                                   /\ p \in listed(task'[g])
    <3>1. PICK g \in Handlers : /\ task[g].op = "close" /\ task[g].pull = of[p].pull
                                /\ p \in listed(task[g])
      BY <2>2 DEF Accounts, ClosedListed
    <3>2. CASE g # h
      BY <1>1, <3>1, <3>2
    <3>3. CASE g = h
      <4>1. t.at # "clean"
        BY <3>1, <3>3 DEF TasksOK, soundTask
      <4>2. p \in listed(u)
        BY <3>1, <3>3, <4>1
      <4> QED
        BY <1>1, <1>4, <3>1, <3>3, <4>2, Nowhere
    <3> QED
      BY <3>2, <3>3
  <2> QED
    BY <1>2, <1>3, <2>1, <2>2 DEF ClosedListed
<1> QED
  BY <1>5, <1>6, <1>7, <1>8, <1>9, <1>10 DEF Accounts

\* Steps of requests that leave the previews and the host alone.
LEMMA QuietWork ==
  ASSUME IInv, Accounts, NEW h \in Handlers,
         \/ nextApplication(h) \/ createDomain(h) \/ linkDomain(h) \/ enqueue(h)
         \/ nextPreview(h) \/ cleanQueuesByApplication(h) \/ respond(h)
         \/ insertPreview(h) /\ end(h) /\ UNCHANGED <<of, rows>>
  PROVE  Accounts' /\ pursues(task[h], task'[h])
<1> DEFINE t == task[h]
<1>1. DataOK /\ TasksOK /\ JobsOK
  BY Parts
<1>2. t \in Task /\ soundTask(t)
  BY <1>1 DEF TasksOK
<1>3. UNCHANGED <<of, rows, hostVars, building, closed, overlapped, left>>
  BY DEF nextApplication, createDomain, linkDomain, enqueue, nextPreview,
         cleanQueuesByApplication, respond, insertPreview, dbVars, jobVars, ghostVars
<1>4. t.op = "event" => listed(t) = {}
  BY <1>2 DEF listed, soundTask, Removals
<1>5. ASSUME end(h), t.at = "clean" \/ listed(t) = {}
      PROVE  Accounts' /\ pursues(task[h], task'[h])
  <2>1. pursues(t, nowhere) /\ task'[h] = nowhere
    BY <1>1, <1>5, NowhereSound, GoesOn DEF pursues, end
  <2> QED
    BY <1>1, <1>3, <1>5, <2>1, Nowhere, NowhereSound, AccountsHandedOn
       DEF end, EventStages, RemovalStages
<1>6. ASSUME NEW u \in Task, continue(h, u), t.op = "event", u.op = "event",
             u.pull = t.pull, u.creates = t.creates, u.at \notin RemovalStages,
             u.at \in EventStages \ {"insert"} => of[u.preview].pull = u.pull,
             u.at = "file" => u.preview \in rows
      PROVE  Accounts' /\ pursues(task[h], task'[h])
  <2>1. listed(u) = {} /\ pursues(t, u) /\ task'[h] = u
    BY <1>1, <1>6, GoesOn DEF listed, pursues, Removals
  <2> QED
    BY <1>1, <1>3, <1>4, <1>6, <2>1, AccountsHandedOn
<1>7. ASSUME t.at \in EventStages PROVE t.op = "event"
  BY <1>2, <1>7 DEF soundTask
<1>8. ASSUME t.at \in EventStages \ {"insert"} PROVE of[t.preview].pull = t.pull
  BY <1>8 DEF Accounts, OwnPreviews
<1>9. CASE nextApplication(h)
  <2>1. t.op = "event" /\ t.at = "loop"
    BY <1>9 DEF nextApplication, at
  <2>2. PICK a \in t.todo :
          LET u == [t EXCEPT !.todo = @ \ {a}, !.room = @ \ {a}] IN
          \/ \E p \in existing(a, t.pull) :
               continue(h, [u EXCEPT !.at = "enqueue", !.preview = p])
          \/ continue(h, [u EXCEPT !.at = "insert", !.app = a])
          \/ continue(h, u)
    BY <1>9 DEF nextApplication
  <2> DEFINE u == [t EXCEPT !.todo = @ \ {a}, !.room = @ \ {a}]
  <2>3. u \in Task /\ u.op = "event" /\ u.pull = t.pull /\ u.creates = t.creates
        /\ u.at = "loop"
    BY <1>2, <2>1 DEF Task
  <2> HIDE DEF u
  <2>4. ASSUME NEW p \in existing(a, t.pull),
               continue(h, [u EXCEPT !.at = "enqueue", !.preview = p])
        PROVE  Accounts' /\ pursues(task[h], task'[h])
    <3> DEFINE w == [u EXCEPT !.at = "enqueue", !.preview = p]
    <3>1. p \in Previews /\ of[p].pull = t.pull
      BY <1>1 DEF existing, DataOK, known
    <3>2. /\ w \in Task /\ w.op = "event" /\ w.pull = t.pull /\ w.creates = t.creates
          /\ w.at = "enqueue" /\ w.preview = p
      BY <2>3, <3>1 DEF Task, Stages
    <3> QED
      BY <1>6, <2>1, <2>4, <3>1, <3>2 DEF RemovalStages
  <2>5. ASSUME continue(h, [u EXCEPT !.at = "insert", !.app = a])
        PROVE  Accounts' /\ pursues(task[h], task'[h])
    <3> DEFINE w == [u EXCEPT !.at = "insert", !.app = a]
    <3>1. a \in Apps
      BY <1>2, <2>1 DEF soundTask
    <3>2. /\ w \in Task /\ w.op = "event" /\ w.pull = t.pull /\ w.creates = t.creates
          /\ w.at = "insert"
      BY <2>3, <3>1 DEF Task, Stages
    <3> QED
      BY <1>6, <2>1, <2>5, <3>2 DEF RemovalStages
  <2>6. ASSUME continue(h, u) PROVE Accounts' /\ pursues(task[h], task'[h])
    BY <1>6, <2>1, <2>3, <2>6 DEF RemovalStages, EventStages
  <2> QED
    BY <2>2, <2>4, <2>5, <2>6 DEF u
<1>10. ASSUME NEW stage \in {"file", "enqueue"}, goto(h, stage),
              t.at \in EventStages \ {"insert"}, stage = "file" => t.preview \in rows
       PROVE  Accounts' /\ pursues(task[h], task'[h])
  <2> DEFINE u == [t EXCEPT !.at = stage]
  <2>1. /\ u \in Task /\ u.op = t.op /\ u.pull = t.pull /\ u.creates = t.creates
        /\ u.at = stage /\ u.preview = t.preview
    BY <1>2 DEF Task, Stages
  <2> QED
    BY <1>6, <1>7, <1>8, <1>10, <2>1 DEF goto, RemovalStages
<1>11. CASE createDomain(h)
  <2>1. t.at = "domain"
    BY <1>11 DEF createDomain, at
  <2> QED
    BY <1>4, <1>5, <1>7, <1>10, <1>11, <2>1 DEF createDomain, throw, EventStages
<1>12. CASE linkDomain(h)
  <2>1. t.at = "link"
    BY <1>12 DEF linkDomain, at
  <2> QED
    BY <1>4, <1>5, <1>7, <1>10, <1>12, <2>1 DEF linkDomain, throw, EventStages
<1>13. CASE enqueue(h)
  <2> DEFINE u == [t EXCEPT !.at = "loop", !.app = None, !.preview = 0]
  <2>1. t.at = "enqueue" /\ t.op = "event" /\ continue(h, u)
    BY <1>7, <1>13 DEF enqueue, at, EventStages
  <2>2. /\ u \in Task /\ u.op = "event" /\ u.pull = t.pull /\ u.creates = t.creates
        /\ u.at = "loop"
    BY <1>2, <2>1 DEF Task, Stages
  <2> QED
    BY <1>6, <2>1, <2>2 DEF RemovalStages, EventStages
<1>14. CASE nextPreview(h)
  <2>1. PICK p \in t.todo :
          continue(h, IF p \in rows
                      THEN [[t EXCEPT !.todo = @ \ {p}]
                              EXCEPT !.at = "rmService", !.preview = p]
                      ELSE [t EXCEPT !.todo = @ \ {p}])
    BY <1>14 DEF nextPreview
  <2> DEFINE u == [t EXCEPT !.todo = @ \ {p}]
             w == [u EXCEPT !.at = "rmService", !.preview = p]
  <2>2. t.op \in Removals /\ t.at = "loop" /\ p \in Previews
    BY <1>2, <1>14 DEF nextPreview, at, soundTask, known
  <2>3. /\ u \in Task /\ u.at = "loop" /\ u.creates = t.creates /\ u.pull = t.pull
        /\ u.op = t.op /\ u.app = t.app /\ u.todo = t.todo \ {p}
    BY <1>2, <2>2 DEF Task
  <2> HIDE DEF u
  <2>4. /\ w \in Task /\ w.at = "rmService" /\ w.creates = t.creates
        /\ w.pull = t.pull /\ w.op = t.op /\ w.app = t.app /\ w.preview = p
        /\ w.todo = t.todo \ {p}
    BY <2>2, <2>3 DEF Task, Stages
  <2> HIDE DEF w
  <2>5. listed(t) = t.todo
    BY <2>2 DEF listed, RemovalStages
  <2>6. ASSUME p \notin rows, continue(h, u) PROVE Accounts' /\ pursues(task[h], task'[h])
    <3>1. listed(u) = t.todo \ {p} /\ pursues(t, u) /\ task'[h] = u
      BY <1>1, <2>2, <2>3, <2>6, GoesOn DEF listed, pursues, RemovalStages
    <3> QED
      BY <1>1, <1>3, <2>2, <2>3, <2>5, <2>6, <3>1, AccountsHandedOn
         DEF EventStages, RemovalStages
  <2>7. ASSUME continue(h, w) PROVE Accounts' /\ pursues(task[h], task'[h])
    <3>1. listed(w) = t.todo /\ pursues(t, w) /\ task'[h] = w
      BY <1>1, <2>2, <2>4, <2>7, GoesOn DEF listed, pursues, RemovalStages
    <3> QED
      BY <1>1, <1>3, <2>2, <2>4, <2>5, <2>7, <3>1, AccountsHandedOn
         DEF EventStages, RemovalStages
  <2> QED
    BY <2>1, <2>6, <2>7 DEF u, w
<1>15. CASE cleanQueuesByApplication(h)
  BY <1>5, <1>15 DEF cleanQueuesByApplication, at
<1>16. CASE respond(h)
  <2>1. listed(t) = {}
    BY <1>16 DEF respond, listed, at, RemovalStages
  <2> QED
    BY <1>5, <1>16, <2>1 DEF respond
<1>17. CASE insertPreview(h) /\ end(h)
  <2>1. t.at = "insert"
    BY <1>17 DEF insertPreview, at
  <2> QED
    BY <1>4, <1>5, <1>7, <1>17, <2>1 DEF EventStages
<1> QED
  BY <1>9, <1>11, <1>12, <1>13, <1>14, <1>15, <1>16, <1>17

\* A preview appears: its row is there before anything of it.
LEMMA InsertAccounts ==
  ASSUME IInv, Alone, Accounts, NEW h \in Handlers, NEW p \in Previews, at(h, "insert"),
         of[p] = None, of' = [of EXCEPT ![p] = [app |-> task[h].app, pull |-> task[h].pull]],
         rows' = rows \cup {p},
         continue(h, [task[h] EXCEPT !.at = "domain", !.preview = p]),
         UNCHANGED <<apps, domained, hostVars, jobVars, ghostVars, events>>
  PROVE  Accounts' /\ pursues(task[h], task'[h]) /\ \A r \in known : of'[r] = of[r]
<1> DEFINE t == task[h]
           v == [t EXCEPT !.at = "domain", !.preview = p]
<1>1. DataOK /\ TasksOK /\ JobsOK
  BY Parts
<1>2. /\ t \in Task /\ soundTask(t) /\ t.at = "insert" /\ t.creates /\ t.pull \in Pulls
      /\ t.op = "event"
  BY <1>1 DEF TasksOK, at, soundTask, EventStages
<1>3. p \notin known /\ rows \subseteq known /\ services \cup code \cup files \subseteq known
  BY <1>1 DEF known, DataOK
<1>4. /\ of'[p].app = t.app /\ of'[p].pull = t.pull
      /\ \A r \in known : of'[r] = of[r] /\ r # p
  BY <1>1, <1>3 DEF DataOK, known
<1>5. /\ v \in Task /\ v.at = "domain" /\ v.preview = p
      /\ v.creates = t.creates /\ v.pull = t.pull /\ v.op = t.op /\ v.todo = t.todo
  BY <1>2 DEF Task, Stages
<1>6. task'[h] = v /\ \A g \in Handlers \ {h} : task'[g] = task[g]
  BY <1>1, GoesOn
<1> HIDE DEF v
<1>7. pursues(t, v) /\ listed(v) = {}
  BY <1>2, <1>5 DEF pursues, listed, Removals, RemovalStages
<1>8. UNCHANGED <<services, code, files, building, closed, overlapped, left>>
  BY DEF hostVars, jobVars, ghostVars
<1>9. \A r \in known : excused(r)' <=> excused(r)
  BY <1>4, <1>8 DEF excused
<1>10. \A g \in Handlers : /\ listed(task[g])' = listed(task'[g])
                           /\ pullsOf(task[g])' = pullsOf(task'[g])
  BY DEF listed, pullsOf
<1>11. ASSUME NEW g \in Handlers PROVE listed(task[g]) \subseteq known
  BY <1>1 DEF TasksOK, soundTask, listed, RemovalStages
<1>12. OwnPreviews'
  <2>1. \A g \in Handlers \ {h} : \A r \in listed(task[g]) : of'[r].pull \in pullsOf(task[g])
    BY <1>4, <1>11 DEF Accounts, OwnPreviews
  <2>2. ASSUME NEW g \in Handlers \ {h}, task[g].at \in EventStages \ {"insert"}
        PROVE  of'[task[g].preview].pull = task[g].pull
    <3>1. task[g].preview \in known
      BY <1>1, <2>2 DEF TasksOK, soundTask
    <3> QED
      BY <1>4, <2>2, <3>1 DEF Accounts, OwnPreviews
  <2> QED
    BY <1>4, <1>5, <1>6, <1>7, <1>10, <2>1, <2>2 DEF OwnPreviews
<1>13. RowsStand'
  <2>1. \A g \in Handlers : task'[g].at = "file" =>
          task'[g].preview \in rows' \/ task'[g].pull \in overlapped'
    BY <1>5, <1>6, <1>8 DEF Accounts, RowsStand
  <2>2. \A a \in Apps : building'[a] # None /\ building'[a].at \in {"clone", "service"} =>
          building'[a].of \in rows' \/ of'[building'[a].of].pull \in overlapped'
    BY <1>1, <1>4, <1>8 DEF Accounts, RowsStand, JobsOK
  <2> QED
    BY <2>1, <2>2 DEF RowsStand
<1>14. RemovalProgress'
  <2> SUFFICES ASSUME NEW g \in Handlers, task'[g].at \in RemovalStages,
                      remains(task[g].preview, task[g].at)'
               PROVE  excused(task[g].preview)'
    BY DEF RemovalProgress
  <2>1. g # h
    BY <1>5, <1>6 DEF RemovalStages
  <2>2. task'[g] = task[g] /\ task[g].preview \in known
    BY <1>1, <1>6, <2>1 DEF TasksOK, soundTask, RemovalStages
  <2>3. remains(task[g].preview, task[g].at)
    BY <1>8, <2>2 DEF remains
  <2>4. excused(task[g].preview)
    BY <2>2, <2>3 DEF Accounts, RemovalProgress
  <2> QED
    BY <1>9, <2>2, <2>4 DEF excused
<1>15. DeleteCovers'
  <2> SUFFICES ASSUME NEW g \in Handlers, task'[g].op = "deleteApp", task'[g].at # "clean",
                      NEW r \in rows', of'[r].app = task'[g].app
               PROVE  r \in listed(task'[g]) \/ excused(r)'
    BY <1>10 DEF DeleteCovers, previewsOf
  <2>1. g # h /\ task'[g] = task[g]
    BY <1>2, <1>5, <1>6
  <2>2. CASE r = p
    <3>1. task[g].op \in Removals /\ t.pull \in pullsOf(task[g]) /\ t.pull \in pullsOf(t)
      BY <1>2, <2>1 DEF Removals, pullsOf
    <3>2. t.pull \in overlapped
      BY <2>1, <3>1 DEF Alone, RemovalsAlone
    <3> QED
      BY <1>4, <1>8, <2>2, <3>2 DEF excused
  <2>3. CASE r # p
    <3>1. r \in known /\ r \in rows
      BY <1>3, <2>3
    <3>2. r \in listed(task[g]) \/ excused(r)
      BY <1>4, <2>1, <3>1 DEF Accounts, DeleteCovers, previewsOf
    <3> QED
      BY <1>9, <2>1, <3>1, <3>2
  <2> QED
    BY <2>2, <2>3
<1>16. HostAccounted'
  BY <1>3, <1>8, <1>9 DEF Accounts, HostAccounted
<1>17. ClosedListed'
  <2>1. \A g \in Handlers : task'[g].creates => task'[g].pull \notin closed' \ overlapped'
    BY <1>5, <1>6, <1>8 DEF Accounts, ClosedListed
  <2>2. ASSUME NEW r \in rows', of'[r].pull \in closed', ~ excused(r)'
        PROVE  \E g \in Handlers : /\ task'[g].op = "close" /\ task'[g].pull = of'[r].pull
                                   /\ r \in listed(task'[g])
    <3>1. r # p
      BY <1>2, <1>4, <1>8, <2>2 DEF Accounts, ClosedListed, excused
    <3>2. r \in rows /\ r \in known
      BY <1>3, <3>1
    <3>3. PICK g \in Handlers : /\ task[g].op = "close" /\ task[g].pull = of[r].pull
                                /\ r \in listed(task[g])
      BY <1>4, <1>8, <1>9, <2>2, <3>2 DEF Accounts, ClosedListed
    <3>4. g # h
      BY <1>2, <3>3
    <3> QED
      BY <1>4, <1>6, <3>2, <3>3, <3>4
  <2> QED
    BY <1>10, <2>1, <2>2 DEF ClosedListed
<1> QED
  BY <1>4, <1>6, <1>7, <1>12, <1>13, <1>14, <1>15, <1>16, <1>17 DEF Accounts

\* The file of a domain appears under a row, or under a pull request whose removal
\* the event has met.
LEMMA ManageAccounts ==
  ASSUME IInv, Alone, Accounts, NEW h \in Handlers, manageDomain(h)
  PROVE  Accounts' /\ pursues(task[h], task'[h])
<1> DEFINE t == task[h]
           u == [t EXCEPT !.at = "link"]
           p == t.preview
<1>1. DataOK /\ TasksOK /\ JobsOK
  BY Parts
<1>2. t \in Task /\ soundTask(t) /\ t.at = "file" /\ t.op = "event" /\ p \in known
  BY <1>1 DEF TasksOK, manageDomain, at, soundTask, EventStages
<1>3. /\ u \in Task /\ u.at = "link" /\ u.op = t.op /\ u.pull = t.pull
      /\ u.creates = t.creates /\ u.preview = p
  BY <1>2 DEF Task, Stages
<1>4. task'[h] = u /\ \A g \in Handlers \ {h} : task'[g] = task[g]
  BY <1>1, GoesOn DEF manageDomain, goto
<1> HIDE DEF u
<1>5. /\ UNCHANGED <<of, rows, services, code, building, closed, overlapped, left>>
      /\ files' \subseteq files \cup {p}
  BY DEF manageDomain, dbVars, jobVars, ghostVars
<1>6. pursues(t, u) /\ listed(u) = {} /\ listed(t) = {}
  BY <1>2, <1>3 DEF pursues, listed, Removals, RemovalStages
<1>7. \A r : excused(r)' <=> excused(r)
  BY <1>5 DEF excused
<1>8. \A g \in Handlers : /\ listed(task[g])' = listed(task'[g])
                          /\ pullsOf(task[g])' = pullsOf(task'[g])
  BY DEF listed, pullsOf
<1>9. of[p].pull = t.pull
  BY <1>2 DEF Accounts, OwnPreviews, EventStages
<1>10. OwnPreviews'
  BY <1>3, <1>4, <1>5, <1>6, <1>8, <1>9 DEF Accounts, OwnPreviews
<1>11. RowsStand'
  BY <1>3, <1>4, <1>5 DEF Accounts, RowsStand
<1>12. RemovalProgress'
  <2> SUFFICES ASSUME NEW g \in Handlers, task'[g].at \in RemovalStages,
                      remains(task[g].preview, task[g].at)'
               PROVE  excused(task'[g].preview)
    BY <1>7 DEF RemovalProgress, excused
  <2>1. g # h /\ task'[g] = task[g]
    BY <1>3, <1>4 DEF RemovalStages
  <2>2. CASE task[g].preview = p
    <3>1. task[g].op \in Removals /\ p \in listed(task[g])
      BY <1>1, <2>1, <2>2 DEF TasksOK, soundTask, listed
    <3>2. t.pull \in pullsOf(task[g]) /\ t.pull \in pullsOf(t)
      BY <1>2, <1>9, <3>1 DEF Accounts, OwnPreviews, pullsOf
    <3>3. t.pull \in overlapped
      BY <2>1, <3>1, <3>2 DEF Alone, RemovalsAlone
    <3> QED
      BY <1>9, <2>1, <2>2, <3>3 DEF excused
  <2>3. CASE task[g].preview # p
    BY <1>5, <2>1, <2>3 DEF Accounts, RemovalProgress, remains
  <2> QED
    BY <2>2, <2>3
<1>13. DeleteCovers'
  BY <1>2, <1>3, <1>4, <1>5, <1>7, <1>8 DEF Accounts, DeleteCovers, previewsOf
<1>14. HostAccounted'
  <2>1. p \in rows \/ excused(p)
    BY <1>2, <1>9 DEF Accounts, RowsStand, excused
  <2> QED
    BY <1>5, <1>7, <2>1 DEF Accounts, HostAccounted
<1>15. ClosedListed'
  <2>1. \A g \in Handlers : task'[g].creates => task'[g].pull \notin closed' \ overlapped'
    BY <1>3, <1>4, <1>5 DEF Accounts, ClosedListed
  <2>2. \A g \in Handlers : task[g].op = "close" => task'[g] = task[g]
    BY <1>2, <1>4
  <2> QED
    BY <1>5, <1>7, <1>8, <2>1, <2>2 DEF Accounts, ClosedListed
<1> QED
  BY <1>4, <1>6, <1>10, <1>11, <1>12, <1>13, <1>14, <1>15 DEF Accounts

\* A removal goes on, from t to u, and removes rows: its own preview's, or those of
\* an application.  What loses its row, and what it no longer lists, is accounted
\* for.
LEMMA RemovalAccounts ==
  ASSUME IInv, Alone, Accounts, NEW h \in Handlers, NEW u \in Task, continue(h, u),
         task[h].op \in Removals, u.op = task[h].op, u.pull = task[h].pull,
         u.creates = task[h].creates, u.app = task[h].app,
         UNCHANGED <<of, building, closed, overlapped>>, left \subseteq left',
         rows' \subseteq rows,
         services' \subseteq services, code' \subseteq code, files' \subseteq files,
         \A p \in rows \ rows' : of[p].pull \in pullsOf(task[h]),
         \A p \in (rows \ rows') \cap (services' \cup code' \cup files') :
           p \in left' \/ of[p].pull \in overlapped,
         listed(u) \subseteq listed(task[h]),
         \A p \in listed(task[h]) \cap rows' : p \in listed(u) \/ p \in left',
         task[h].at = "clean" => u.at = "clean",
         u.at \notin EventStages,
         u.at \in RemovalStages /\ remains(u.preview, u.at)'
           => u.preview \in left' \/ of[u.preview].pull \in overlapped
  PROVE  Accounts' /\ pursues(task[h], task'[h])
<1> DEFINE t == task[h]
<1>1. DataOK /\ TasksOK /\ JobsOK
  BY Parts
<1>2. task'[h] = u /\ \A g \in Handlers \ {h} : task'[g] = task[g]
  BY <1>1, GoesOn
<1>3. \A p : excused(p) => excused(p)'
  BY DEF excused
<1>4. \A g \in Handlers : /\ listed(task[g])' = listed(task'[g])
                          /\ pullsOf(task[g])' = pullsOf(task'[g])
  BY DEF listed, pullsOf
<1>5. pullsOf(u) = pullsOf(t)
  BY DEF pullsOf
<1>6. ASSUME NEW q \in pullsOf(t), NEW g \in Handlers \ {h}, q \in pullsOf(task[g])
      PROVE  q \in overlapped
  BY <1>6 DEF Alone, RemovalsAlone
<1>7. OwnPreviews'
  BY <1>2, <1>4, <1>5 DEF Accounts, OwnPreviews
<1>8. RowsStand'
  <2>1. ASSUME NEW g \in Handlers, task'[g].at = "file"
        PROVE  task'[g].preview \in rows' \/ task'[g].pull \in overlapped'
    <3>1. g # h /\ task'[g] = task[g]
      BY <1>2, <2>1 DEF EventStages
    <3>2. task[g].op = "event" /\ task[g].pull \in pullsOf(task[g])
      BY <1>1, <2>1, <3>1 DEF TasksOK, soundTask, EventStages, pullsOf
    <3>3. of[task[g].preview].pull = task[g].pull
      BY <2>1, <3>1 DEF Accounts, OwnPreviews, EventStages
    <3>4. task[g].preview \in rows \/ task[g].pull \in overlapped
      BY <2>1, <3>1 DEF Accounts, RowsStand
    <3> QED
      BY <1>6, <3>1, <3>2, <3>3, <3>4
  <2>2. ASSUME NEW a \in Apps, building[a] # None, building[a].at \in {"clone", "service"}
        PROVE  building[a].of \in rows' \/ of[building[a].of].pull \in overlapped
    <3>1. building[a].of \in rows \/ of[building[a].of].pull \in overlapped
      BY <2>2 DEF Accounts, RowsStand
    <3>2. of[building[a].of].pull \in pullsOf(t) => of[building[a].of].pull \in overlapped
      BY <2>2 DEF Alone, BuildsAlone
    <3> QED
      BY <3>1, <3>2
  <2> QED
    BY <2>1, <2>2 DEF RowsStand
<1>9. RemovalProgress'
  <2> SUFFICES ASSUME NEW g \in Handlers, task'[g].at \in RemovalStages,
                      remains(task[g].preview, task[g].at)'
               PROVE  excused(task[g].preview)'
    BY DEF RemovalProgress
  <2>1. CASE g = h
    BY <1>2, <2>1 DEF excused, remains
  <2>2. CASE g # h
    <3>1. task'[g] = task[g] /\ remains(task[g].preview, task[g].at)
      BY <1>2, <2>2 DEF remains
    <3>2. excused(task[g].preview)
      BY <3>1 DEF Accounts, RemovalProgress
    <3> QED
      BY <3>1, <3>2 DEF excused
  <2> QED
    BY <2>1, <2>2
<1>10. DeleteCovers'
  <2> SUFFICES ASSUME NEW g \in Handlers, task'[g].op = "deleteApp", task'[g].at # "clean",
                      NEW p \in rows', of[p].app = task'[g].app
               PROVE  p \in listed(task'[g]) \/ excused(p)'
    BY <1>4 DEF DeleteCovers, previewsOf
  <2>1. task[g].op = "deleteApp" /\ task[g].at # "clean" /\ of[p].app = task[g].app
    BY <1>2
  <2>2. p \in listed(task[g]) \/ excused(p)
    BY <2>1 DEF Accounts, DeleteCovers, previewsOf
  <2> QED
    BY <1>2, <1>3, <2>2 DEF excused
<1>11. HostAccounted'
  <2> SUFFICES ASSUME NEW p \in services' \cup code' \cup files'
               PROVE  p \in rows' \/ excused(p)'
    BY DEF HostAccounted
  <2>1. p \in rows \/ excused(p)
    BY DEF Accounts, HostAccounted
  <2> QED
    BY <1>3, <2>1 DEF excused
<1>12. ClosedListed'
  <2>1. \A g \in Handlers : task'[g].creates => task'[g].pull \notin closed' \ overlapped'
    BY <1>2 DEF Accounts, ClosedListed
  <2>2. ASSUME NEW p \in rows', of[p].pull \in closed, ~ excused(p)'
        PROVE  \E g \in Handlers : /\ task'[g].op = "close" /\ task'[g].pull = of[p].pull
                                   /\ p \in listed(task'[g])
    <3>1. PICK g \in Handlers : /\ task[g].op = "close" /\ task[g].pull = of[p].pull
                                /\ p \in listed(task[g])
      BY <1>3, <2>2 DEF Accounts, ClosedListed
    <3> QED
      BY <1>2, <2>2, <3>1 DEF excused
  <2> QED
    BY <1>4, <2>1, <2>2 DEF ClosedListed
<1> QED
  BY <1>2, <1>7, <1>8, <1>9, <1>10, <1>11, <1>12 DEF Accounts, pursues

LEMMA RemovalWork ==
  ASSUME IInv, Alone, Accounts, NEW h \in Handlers,
         removePreviewDeployment(h) \/ deleteApplicationRow(h)
  PROVE  Accounts' /\ pursues(task[h], task'[h])
<1> DEFINE t == task[h]
<1>1. DataOK /\ TasksOK /\ JobsOK
  BY Parts
<1>2. t \in Task /\ soundTask(t)
  BY <1>1 DEF TasksOK
<1>3. PICK p : p = t.preview
  OBVIOUS
<1>4. ASSUME NEW from \in RemovalStages, NEW to \in {"rmCode", "rmFile", "rmRow", "loop"},
             at(h, from), from = "rmRow" <=> to = "loop",
             continue(h, [t EXCEPT !.at = to, !.preview = IF to = "loop" THEN 0 ELSE @]),
             UNCHANGED <<of, building, closed, overlapped>>, left \subseteq left',
             rows' \subseteq rows, services' \subseteq services, code' \subseteq code,
             files' \subseteq files, rows \ rows' \subseteq {p},
             to = "loop" => p \in left' \/ p \notin rows',
             to # "loop" => UNCHANGED rows,
             to # "loop" /\ remains(p, to)' => remains(p, from) \/ p \in left'
      PROVE  Accounts' /\ pursues(task[h], task'[h])
  <2> DEFINE u == [t EXCEPT !.at = to, !.preview = IF to = "loop" THEN 0 ELSE @]
  <2>1. t.at = from /\ t.op \in Removals /\ p \in known
    BY <1>2, <1>3, <1>4 DEF at, soundTask, RemovalStages
  <2>2. /\ u \in Task /\ u.at = to /\ u.creates = t.creates
        /\ u.pull = t.pull /\ u.op = t.op /\ u.app = t.app /\ u.todo = t.todo
        /\ u.preview = IF to = "loop" THEN 0 ELSE p
    BY <1>2, <1>3, <2>1 DEF Task, Stages
  <2>3. continue(h, u)
    BY <1>4
  <2>4. listed(t) = t.todo \cup {p}
    BY <1>3, <2>1 DEF listed
  <2>5. listed(u) = t.todo \cup (IF to = "loop" THEN {} ELSE {p})
    BY <2>1, <2>2 DEF listed, RemovalStages
  <2>6. of[p].pull \in pullsOf(t)
    BY <2>4 DEF Accounts, OwnPreviews
  <2>7. remains(p, from) => excused(p)
    BY <1>3, <1>4, <2>1 DEF Accounts, RemovalProgress
  <2>8. to = "loop" /\ p \in services' \cup code' \cup files' => excused(p)
    BY <1>4, <2>7 DEF remains
  <2>9. \A r \in (rows \ rows') \cap (services' \cup code' \cup files') :
          r \in left' \/ of[r].pull \in overlapped
    BY <1>4, <2>8 DEF excused
  <2>10. PICK v : v = u
    OBVIOUS
  <2>11. v.at \in RemovalStages /\ remains(v.preview, v.at)'
          => v.preview \in left' \/ of[v.preview].pull \in overlapped
    <3> SUFFICES ASSUME to # "loop", remains(p, to)'
                 PROVE  p \in left' \/ of[p].pull \in overlapped
      BY <2>2, <2>10 DEF RemovalStages, remains
    <3> QED
      BY <1>4, <2>7 DEF excused
  <2>12. /\ listed(u) \subseteq listed(t)
         /\ \A r \in listed(t) \cap rows' : r \in listed(u) \/ r \in left'
         /\ t.at # "clean" /\ u.at \notin EventStages
    BY <1>4, <2>1, <2>2, <2>4, <2>5 DEF RemovalStages, EventStages
  <2>13. \A r \in rows \ rows' : of[r].pull \in pullsOf(t)
    BY <1>4, <2>6
  <2> HIDE DEF u
  <2> QED
    BY <1>4, <2>1, <2>2, <2>3, <2>9, <2>10, <2>11, <2>12, <2>13, RemovalAccounts
<1>5. CASE removePreviewDeployment(h)
  <2>1. CASE /\ removed(h, "rmService", "rmCode", services, services')
             /\ UNCHANGED <<rows, code, files>>
    <3>1. /\ services' \subseteq services
          /\ remains(p, "rmCode")' => p \in left'
      BY <1>3, <2>1 DEF removed, remains
    <3> QED
      BY <1>4, <2>1, <3>1 DEF RemovalStages, removed, jobVars
  <2>2. CASE /\ removed(h, "rmCode", "rmFile", code, code')
             /\ UNCHANGED <<rows, services, files>>
    <3>1. /\ code' \subseteq code
          /\ remains(p, "rmFile")' => remains(p, "rmCode") \/ p \in left'
      BY <1>3, <2>2 DEF removed, remains
    <3> QED
      BY <1>4, <2>2, <3>1 DEF RemovalStages, removed, jobVars
  <2>3. CASE /\ removed(h, "rmFile", "rmRow", files, files')
             /\ UNCHANGED <<rows, services, code>>
    <3>1. /\ files' \subseteq files
          /\ remains(p, "rmRow")' => remains(p, "rmFile") \/ p \in left'
      BY <1>3, <2>3 DEF removed, remains
    <3> QED
      BY <1>4, <2>3, <3>1 DEF RemovalStages, removed, jobVars
  <2>4. CASE /\ removed(h, "rmRow", "loop", rows, rows')
             /\ UNCHANGED hostVars
    <3>1. /\ rows' \subseteq rows /\ rows \ rows' \subseteq {p}
          /\ p \in left' \/ p \notin rows'
      BY <1>3, <2>4 DEF removed
    <3> QED
      BY <1>4, <2>4, <3>1 DEF RemovalStages, removed, jobVars, hostVars
  <2> QED
    BY <1>5, <2>1, <2>2, <2>3, <2>4 DEF removePreviewDeployment
<1>6. CASE deleteApplicationRow(h)
  <2> DEFINE u == [t EXCEPT !.at = "clean"]
  <2>1. t.op = "deleteApp" /\ t.at = "loop" /\ t.todo = {} /\ continue(h, u)
        /\ rows' = rows \ previewsOf(t.app)
    BY <1>6 DEF deleteApplicationRow, at, goto
  <2>2. /\ u \in Task /\ u.at = "clean" /\ u.op = t.op /\ u.pull = t.pull
        /\ u.creates = t.creates /\ u.app = t.app /\ u.todo = t.todo
    BY <1>2 DEF Task, Stages
  <2>3. listed(t) = {} /\ listed(u) = {}
    BY <2>1, <2>2 DEF listed, RemovalStages
  <2>4. UNCHANGED <<of, hostVars, building, closed, overlapped, left>>
    BY <1>6 DEF deleteApplicationRow, jobVars, ghostVars
  <2>5. \A r \in rows \ rows' : of[r].pull \in pullsOf(t)
    <3>1. pullsOf(t) = Pulls
      BY <1>2, <2>1, PullsOf
    <3> QED
      BY <1>1, <2>1, <3>1, KnownHas DEF DataOK
  <2>6. \A r \in rows \ rows' : r \in left' \/ of[r].pull \in overlapped
    BY <2>1, <2>3, <2>4 DEF Accounts, DeleteCovers, excused
  <2> HIDE DEF u
  <2> QED
    BY <2>1, <2>2, <2>3, <2>4, <2>5, <2>6, RemovalAccounts
       DEF hostVars, EventStages, RemovalStages, Removals
<1> QED
  BY <1>5, <1>6

\* A request arrives where a removal is, or a removal where anything is: that is
\* noticed.
LEMMA ArrivalAlone ==
  ASSUME IInv, Alone, NEW h \in Handlers, NEW t \in Task, arrive(h, t)
  PROVE  Alone' /\ task'[h] = t /\ \A g \in Handlers \ {h} : task'[g] = task[g]
<1>1. DataOK /\ TasksOK /\ JobsOK
  BY Parts
<1>2. task'[h] = t /\ \A g \in Handlers \ {h} : task'[g] = task[g]
  BY <1>1, GoesOn DEF arrive, continue
<1>3. UNCHANGED <<of, building>> /\ overlapped' = overlapped \cup disturbs(t)
  BY DEF arrive, jobVars
<1>4. ASSUME NEW g \in Handlers, t.op \in Removals \/ task[g].op \in Removals
      PROVE  pullsOf(t) \cap pullsOf(task[g]) \subseteq overlapped'
  BY <1>3, <1>4 DEF disturbs
<1>5. RemovalsAlone'
  <2> SUFFICES ASSUME NEW f \in Handlers, NEW g \in Handlers, f # g, task'[f].op \in Removals
               PROVE  pullsOf(task'[f]) \cap pullsOf(task'[g]) \subseteq overlapped'
    BY DEF RemovalsAlone, pullsOf
  <2>1. CASE f # h /\ g # h
    BY <1>2, <1>3, <2>1 DEF Alone, RemovalsAlone
  <2>2. CASE f = h
    BY <1>2, <1>4, <2>2
  <2>3. CASE g = h
    BY <1>2, <1>4, <2>3
  <2> QED
    BY <2>1, <2>2, <2>3
<1>6. BuildsAlone'
  <2> SUFFICES ASSUME NEW g \in Handlers, NEW a \in Apps, task'[g].op \in Removals,
                      building[a] # None, of[building[a].of].pull \in pullsOf(task'[g])
               PROVE  of[building[a].of].pull \in overlapped'
    BY <1>3 DEF BuildsAlone, pullsOf
  <2>1. CASE g = h
    BY <1>2, <1>3, <2>1 DEF disturbs, built
  <2>2. CASE g # h
    BY <1>2, <1>3, <2>2 DEF Alone, BuildsAlone
  <2> QED
    BY <2>1, <2>2
<1> QED
  BY <1>2, <1>5, <1>6 DEF Alone

LEMMA ArrivalAccounts ==
  ASSUME IInv, Accounts, NEW h \in Handlers, NEW t \in Task, arrive(h, t), t.at = "loop",
         \A p \in listed(t) : of[p].pull \in pullsOf(t),
         t.op = "deleteApp" => previewsOf(t.app) \subseteq listed(t),
         \A g \in Handlers : task'[g].creates => task'[g].pull \notin closed' \ overlapped',
         \A p \in rows : of[p].pull \in closed' =>
           \/ of[p].pull \in closed
           \/ t.op = "close" /\ t.pull = of[p].pull /\ p \in listed(t)
  PROVE  Accounts'
<1>1. DataOK /\ TasksOK /\ JobsOK
  BY Parts
<1>2. task'[h] = t /\ \A g \in Handlers \ {h} : task'[g] = task[g]
  BY <1>1, GoesOn DEF arrive, continue
<1>3. /\ UNCHANGED <<of, rows, services, code, files, building, left>>
      /\ overlapped \subseteq overlapped'
  BY DEF arrive, hostVars, jobVars
<1>4. \A p : excused(p) => excused(p)'
  BY <1>3 DEF excused
<1>5. \A g \in Handlers : /\ listed(task[g])' = listed(task'[g])
                          /\ pullsOf(task[g])' = pullsOf(task'[g])
  BY DEF listed, pullsOf
<1>6. listed(task[h]) = {}
  BY <1>1, Nowhere DEF TasksOK, soundTask, arrive, idle
<1>7. OwnPreviews'
  BY <1>2, <1>3, <1>5 DEF Accounts, OwnPreviews, EventStages
<1>8. RowsStand'
  BY <1>2, <1>3 DEF Accounts, RowsStand
<1>9. RemovalProgress'
  <2> SUFFICES ASSUME NEW g \in Handlers, task'[g].at \in RemovalStages,
                      remains(task[g].preview, task[g].at)'
               PROVE  excused(task[g].preview)'
    BY DEF RemovalProgress
  <2>1. g # h /\ task'[g] = task[g]
    BY <1>2 DEF RemovalStages
  <2> QED
    BY <1>3, <2>1 DEF Accounts, RemovalProgress, remains, excused
<1>10. DeleteCovers'
  BY <1>2, <1>3, <1>4, <1>5 DEF Accounts, DeleteCovers, previewsOf
<1>11. HostAccounted'
  BY <1>3, <1>4 DEF Accounts, HostAccounted
<1>12. ClosedListed'
  <2> SUFFICES ASSUME NEW p \in rows, of[p].pull \in closed', ~ excused(p)'
               PROVE  \E g \in Handlers : /\ task'[g].op = "close" /\ task'[g].pull = of[p].pull
                                          /\ p \in listed(task'[g])
    BY <1>3, <1>5 DEF ClosedListed
  <2>1. CASE of[p].pull \in closed
    <3>1. PICK g \in Handlers : /\ task[g].op = "close" /\ task[g].pull = of[p].pull
                                /\ p \in listed(task[g])
      BY <1>4, <2>1 DEF Accounts, ClosedListed
    <3>2. g # h
      BY <1>6, <3>1
    <3> QED
      BY <1>2, <3>1, <3>2
  <2>2. CASE of[p].pull \notin closed
    BY <1>2, <2>2
  <2> QED
    BY <2>1, <2>2
<1> QED
  BY <1>7, <1>8, <1>9, <1>10, <1>11, <1>12 DEF Accounts

LEMMA ArriveAccounts ==
  ASSUME IInv, Alone, Accounts, NEW h \in Handlers, Arrive(h)
  PROVE  Alone' /\ Accounts'
<1>1. DataOK /\ TasksOK /\ JobsOK
  BY Parts
<1>2. /\ rows \subseteq known /\ known \subseteq Previews /\ apps \subseteq Apps
      /\ \A a : previewsOf(a) \subseteq Previews /\ pullPreviews(a) \subseteq Previews
  BY <1>1 DEF DataOK, known, previewsOf, pullPreviews
<1>3. ASSUME NEW g \in Handlers, task[g].creates
      PROVE  pullsOf(task[g]) = {task[g].pull}
  BY <1>1, <1>3 DEF TasksOK, soundTask, pullsOf
<1>4. ASSUME NEW q \in Pulls, NEW creates \in BOOLEAN, pullRequestEvent(h, q, creates)
      PROVE  Alone' /\ Accounts'
  <2>1. PICK allowed \in SUBSET apps :
          arrive(h, [nowhere EXCEPT !.op = "event", !.at = "loop", !.pull = q,
                                    !.todo = allowed, !.creates = creates,
                                    !.room = {a \in allowed : creates /\ belowLimit(a)}])
    BY <1>4 DEF pullRequestEvent
  <2> DEFINE t == [nowhere EXCEPT !.op = "event", !.at = "loop", !.pull = q,
                                  !.todo = allowed, !.creates = creates,
                                  !.room = {a \in allowed : creates /\ belowLimit(a)}]
  <2>2. t \in Task /\ t.op = "event" /\ t.at = "loop" /\ t.creates = creates /\ t.pull = q
    BY <1>2 DEF Task, nowhere, Stages
  <2>3. arrive(h, t)
    BY <2>1
  <2> HIDE DEF t
  <2>4. Alone' /\ task'[h] = t /\ \A g \in Handlers \ {h} : task'[g] = task[g]
    BY <2>2, <2>3, ArrivalAlone
  <2>5. closed' \subseteq closed /\ (creates => q \notin closed')
        /\ overlapped \subseteq overlapped'
    BY <1>4, <2>3 DEF pullRequestEvent, arrive
  <2>6. \A g \in Handlers : task'[g].creates => task'[g].pull \notin closed' \ overlapped'
    BY <2>2, <2>4, <2>5 DEF Accounts, ClosedListed
  <2>7. listed(t) = {}
    BY <2>2 DEF listed, Removals, RemovalStages
  <2> QED
    BY <2>2, <2>3, <2>4, <2>5, <2>6, <2>7, ArrivalAccounts
<1>5. ASSUME NEW q \in Pulls, pullRequestClosed(h, q)
      PROVE  Alone' /\ Accounts'
  <2> DEFINE t == [nowhere EXCEPT !.op = "close", !.at = "loop", !.pull = q,
                                  !.todo = pullPreviews(q)]
  <2>1. /\ t \in Task /\ t.op = "close" /\ t.at = "loop" /\ ~ t.creates /\ t.pull = q
        /\ t.todo = pullPreviews(q)
    BY <1>2 DEF Task, nowhere, Removals, Stages
  <2>2. arrive(h, t) /\ closed' = closed \cup {q}
    BY <1>5 DEF pullRequestClosed
  <2> HIDE DEF t
  <2>3. Alone' /\ task'[h] = t /\ \A g \in Handlers \ {h} : task'[g] = task[g]
    BY <2>1, <2>2, ArrivalAlone
  <2>4. listed(t) = pullPreviews(q) /\ pullsOf(t) = {q}
    BY <2>1 DEF listed, pullsOf, Removals, RemovalStages
  <2>5. ASSUME NEW g \in Handlers, task'[g].creates
        PROVE  task'[g].pull \notin closed' \ overlapped'
    <3>1. g # h /\ task'[g] = task[g]
      BY <2>1, <2>3, <2>5
    <3>2. CASE task[g].pull = q
      <4>1. q \in disturbs(t)
        BY <1>3, <2>1, <2>4, <2>5, <3>1, <3>2 DEF disturbs, Removals
      <4> QED
        BY <2>2, <3>1, <3>2, <4>1 DEF arrive
    <3>3. CASE task[g].pull # q
      BY <2>2, <2>5, <3>1, <3>3 DEF Accounts, ClosedListed, arrive
    <3> QED
      BY <3>2, <3>3
  <2>6. \A p \in rows : of[p].pull \in closed' =>
          of[p].pull \in closed \/ (t.pull = of[p].pull /\ p \in listed(t))
    BY <2>1, <2>2, <2>4 DEF pullPreviews
  <2>7. \A p \in listed(t) : of[p].pull \in pullsOf(t)
    BY <2>4 DEF pullPreviews
  <2> QED
    BY <2>1, <2>2, <2>3, <2>5, <2>6, <2>7, ArrivalAccounts
<1>6. ASSUME NEW t \in Task, arrive(h, t), UNCHANGED closed, t.at = "loop", ~ t.creates,
             \A p \in listed(t) : of[p].pull \in pullsOf(t),
             t.op = "deleteApp" => previewsOf(t.app) \subseteq listed(t)
      PROVE  Alone' /\ Accounts'
  <2>1. Alone' /\ task'[h] = t /\ \A g \in Handlers \ {h} : task'[g] = task[g]
    BY <1>6, ArrivalAlone
  <2>2. \A g \in Handlers : task'[g].creates => task'[g].pull \notin closed' \ overlapped'
    BY <1>6, <2>1 DEF Accounts, ClosedListed, arrive
  <2> QED
    BY <1>6, <2>1, <2>2, ArrivalAccounts
<1>7. ASSUME NEW p \in Previews, deletePreview(h, p)
      PROVE  Alone' /\ Accounts'
  <2> DEFINE t == [nowhere EXCEPT !.op = "remove", !.at = "loop",
                                  !.pull = of[p].pull, !.todo = {p}]
  <2>1. p \in known /\ of[p].pull \in Pulls
    BY <1>1, <1>2, <1>7, KnownHas DEF deletePreview
  <2>2. /\ t \in Task /\ t.op = "remove" /\ t.at = "loop" /\ ~ t.creates
        /\ t.pull = of[p].pull /\ t.todo = {p}
    BY <2>1 DEF Task, nowhere, Removals, Stages
  <2>3. arrive(h, t) /\ UNCHANGED closed
    BY <1>7 DEF deletePreview
  <2> HIDE DEF t
  <2>4. listed(t) = {p} /\ pullsOf(t) = {of[p].pull}
    BY <2>2 DEF listed, pullsOf, Removals, RemovalStages
  <2> QED
    BY <1>6, <2>2, <2>3, <2>4
<1>8. ASSUME NEW a \in Apps, deleteApplication(h, a)
      PROVE  Alone' /\ Accounts'
  <2> DEFINE t == [nowhere EXCEPT !.op = "deleteApp", !.at = "loop", !.app = a,
                                  !.todo = previewsOf(a)]
  <2>1. /\ t \in Task /\ t.op = "deleteApp" /\ t.at = "loop" /\ ~ t.creates
        /\ t.app = a /\ t.todo = previewsOf(a)
    BY <1>2 DEF Task, nowhere, Removals, Stages
  <2>2. arrive(h, t) /\ UNCHANGED closed
    BY <1>8 DEF deleteApplication
  <2> HIDE DEF t
  <2>3. listed(t) = previewsOf(a) /\ pullsOf(t) = Pulls
    BY <2>1 DEF listed, pullsOf, Removals, RemovalStages
  <2>4. \A p \in previewsOf(a) : of[p].pull \in Pulls
    BY <1>1, <1>2, KnownHas DEF previewsOf
  <2> QED
    BY <1>6, <2>1, <2>2, <2>3, <2>4
<1> QED
  BY <1>4, <1>5, <1>7, <1>8 DEF Arrive

\* A build moves on to b and leaves behind what its stage is about; requests wait.
LEMMA BuildAccounts ==
  ASSUME IInv, Alone, Accounts, NEW a \in Apps, NEW b \in Build \cup {None}, build(a, b),
         UNCHANGED <<of, rows, files, task, closed, left>>,
         overlapped \subseteq overlapped',
         b # None /\ b.at \in {"clone", "service"} =>
           b.of \in rows \/ of[b.of].pull \in overlapped,
         \A p \in (services' \cup code') \ (services \cup code) :
           building[a] # None /\ building[a].at \in {"clone", "service"} /\ p = building[a].of,
         \A p \in services' \ services :
           building[a] # None /\ building[a].at \in {"clone", "service"} /\ p = building[a].of,
         \A p \in code' \ code :
           building[a] # None /\ building[a].at \in {"clone", "service"} /\ p = building[a].of
  PROVE  Accounts'
<1>1. DataOK /\ TasksOK /\ JobsOK
  BY Parts
<1>2. building'[a] = b /\ \A c \in Apps \ {a} : building'[c] = building[c]
  BY <1>1 DEF JobsOK, build
<1>3. \A p : excused(p) => excused(p)'
  BY DEF excused
<1>4. \A g \in Handlers : /\ listed(task[g])' = listed(task[g])
                          /\ pullsOf(task[g])' = pullsOf(task[g])
  BY DEF listed, pullsOf
<1>5. OwnPreviews'
  BY <1>4 DEF Accounts, OwnPreviews
<1>6. RowsStand'
  BY <1>2 DEF Accounts, RowsStand
<1>7. RemovalProgress'
  <2> SUFFICES ASSUME NEW g \in Handlers, task[g].at \in RemovalStages,
                      remains(task[g].preview, task[g].at)'
               PROVE  excused(task[g].preview)'
    BY DEF RemovalProgress
  <2>1. CASE remains(task[g].preview, task[g].at)
    BY <1>3, <2>1 DEF Accounts, RemovalProgress, excused
  <2>2. CASE ~ remains(task[g].preview, task[g].at)
    <3>1. building[a] # None /\ task[g].preview = building[a].of
      BY <2>2 DEF remains
    <3>2. task[g].op \in Removals /\ task[g].preview \in listed(task[g])
      BY <1>1 DEF TasksOK, soundTask, listed
    <3>3. of[building[a].of].pull \in pullsOf(task[g])
      BY <3>1, <3>2 DEF Accounts, OwnPreviews
    <3>4. of[task[g].preview].pull \in overlapped
      BY <3>1, <3>2, <3>3 DEF Alone, BuildsAlone
    <3> QED
      BY <3>4 DEF excused
  <2> QED
    BY <2>1, <2>2
<1>8. DeleteCovers'
  BY <1>3, <1>4 DEF Accounts, DeleteCovers, previewsOf
<1>9. HostAccounted'
  <2>1. building[a] # None /\ building[a].at \in {"clone", "service"} =>
          building[a].of \in rows \/ excused(building[a].of)
    BY DEF Accounts, RowsStand, excused
  <2> QED
    BY <1>3, <2>1 DEF Accounts, HostAccounted
<1>10. ClosedListed'
  BY <1>3, <1>4 DEF Accounts, ClosedListed
<1> QED
  BY <1>5, <1>6, <1>7, <1>8, <1>9, <1>10 DEF Accounts

LEMMA BuildsKeep ==
  ASSUME IInv, Alone, Accounts, NEW a \in Apps, RunBuild(a)
  PROVE  Alone' /\ Accounts'
<1>1. DataOK /\ TasksOK /\ JobsOK
  BY Parts
<1>2. ASSUME building[a] # None
      PROVE  building[a] \in Build /\ building[a].of \in known
  BY <1>1, <1>2 DEF JobsOK
<1>3. ASSUME NEW b \in Build \cup {None}, build(a, b), UNCHANGED <<of, task, overlapped>>,
             b # None => building[a] # None /\ b.of = building[a].of
      PROVE  Alone'
  <2>1. building'[a] = b /\ \A c \in Apps \ {a} : building'[c] = building[c]
    BY <1>1, <1>3 DEF JobsOK, build
  <2> QED
    BY <1>1, <1>3, <2>1, AloneKept DEF pursues
<1>4. ASSUME NEW p \in Previews, startBuild(a, p) PROVE Alone' /\ Accounts'
  <2> DEFINE b == [of |-> p, at |-> "prepare"]
  <2>1. b \in Build /\ b.of = p /\ b.at = "prepare"
    BY DEF Build
  <2>2. /\ build(a, b) /\ UNCHANGED <<of, rows, services, code, files, task, closed, left>>
        /\ overlapped \subseteq overlapped'
        /\ \A h \in Handlers : task[h].op \in Removals /\ of[p].pull \in pullsOf(task[h])
                                 => of[p].pull \in overlapped'
    BY <1>4 DEF startBuild, dbVars, hostVars
  <2>3. building'[a] = b /\ \A c \in Apps \ {a} : building'[c] = building[c]
    BY <1>1, <2>2 DEF JobsOK, build
  <2> HIDE DEF b
  <2>4. Accounts'
    BY <2>1, <2>2, BuildAccounts
  <2>5. RemovalsAlone'
    BY <2>2 DEF Alone, RemovalsAlone, pullsOf
  <2>6. BuildsAlone'
    <3> SUFFICES ASSUME NEW h \in Handlers, NEW c \in Apps, task[h].op \in Removals,
                        building'[c] # None, of[building'[c].of].pull \in pullsOf(task[h])
                 PROVE  of[building'[c].of].pull \in overlapped'
      BY <2>2 DEF BuildsAlone, pullsOf
    <3>1. CASE c = a
      BY <2>1, <2>2, <2>3, <3>1
    <3>2. CASE c # a
      BY <2>2, <2>3, <3>2 DEF Alone, BuildsAlone
    <3> QED
      BY <3>1, <3>2
  <2> QED
    BY <2>4, <2>5, <2>6 DEF Alone
<1>5. CASE prepareBuild(a)
  <2>1. building[a] # None /\ building[a] \in Build /\ building[a].at = "prepare"
    BY <1>2, <1>5 DEF prepareBuild
  <2>2. UNCHANGED <<of, rows, services, code, files, task, closed, overlapped, left>>
    BY <1>5 DEF prepareBuild, dbVars, hostVars, ghostVars
  <2>3. CASE build(a, None)
    BY <1>3, <2>2, <2>3, BuildAccounts
  <2>4. CASE prepared(a, building[a].of) /\ build(a, [building[a] EXCEPT !.at = "clone"])
    <3> DEFINE b == [building[a] EXCEPT !.at = "clone"]
    <3>1. b \in Build /\ b.of = building[a].of /\ b.at = "clone" /\ b.of \in rows
      BY <1>1, <2>1, <2>4 DEF Build, prepared, DataOK
    <3> HIDE DEF b
    <3>2. build(a, b)
      BY <2>4 DEF b
    <3> QED
      BY <1>3, <2>1, <2>2, <3>1, <3>2, BuildAccounts
  <2> QED
    BY <1>5, <2>3, <2>4 DEF prepareBuild
<1>6. CASE cloneAndBuild(a)
  <2>1. building[a] # None /\ building[a] \in Build /\ building[a].at = "clone"
    BY <1>2, <1>6 DEF cloneAndBuild
  <2>2. /\ UNCHANGED <<of, rows, services, files, task, closed, overlapped, left>>
        /\ code' \subseteq code \cup {building[a].of} /\ code \subseteq code'
    BY <1>6 DEF cloneAndBuild, dbVars, ghostVars
  <2>3. CASE build(a, None)
    BY <1>3, <2>1, <2>2, <2>3, BuildAccounts
  <2>4. CASE build(a, [building[a] EXCEPT !.at = "service"])
    <3> DEFINE b == [building[a] EXCEPT !.at = "service"]
    <3>1. b \in Build /\ b.of = building[a].of /\ b.at = "service"
      BY <2>1 DEF Build
    <3> HIDE DEF b
    <3>2. build(a, b)
      BY <2>4 DEF b
    <3>3. b.of \in rows \/ of[b.of].pull \in overlapped
      BY <2>1, <3>1 DEF Accounts, RowsStand
    <3> QED
      BY <1>3, <2>1, <2>2, <3>1, <3>2, <3>3, BuildAccounts
  <2> QED
    BY <1>6, <2>3, <2>4 DEF cloneAndBuild
<1>7. CASE mechanizeDockerContainer(a)
  <2>1. building[a] # None /\ building[a].at = "service" /\ build(a, None)
    BY <1>7 DEF mechanizeDockerContainer
  <2>2. /\ UNCHANGED <<of, rows, code, files, task, closed, overlapped, left>>
        /\ services' \subseteq services \cup {building[a].of}
    BY <1>7 DEF mechanizeDockerContainer, dbVars, ghostVars
  <2> QED
    BY <1>3, <2>1, <2>2, BuildAccounts
<1> QED
  BY <1>4, <1>5, <1>6, <1>7 DEF RunBuild

LEMMA RestartKeeps == ASSUME IInv, Alone, Accounts, restart PROVE Alone' /\ Accounts'
<1>1. \A g \in Handlers : task'[g] = nowhere
  BY DEF restart
<1>2. /\ \A a \in Apps : building'[a] = None
      /\ UNCHANGED <<of, rows, services, code, files, overlapped, left>>
      /\ closed' = closed \ UNION {pullsOf(task[h]) : h \in Handlers}
  BY DEF restart, dbVars, hostVars
<1>3. nowhere.op \notin Removals /\ nowhere.at \notin EventStages \cup RemovalStages
  BY Nowhere DEF Removals, EventStages, RemovalStages
<1>4. Alone'
  BY <1>1, <1>2, <1>3 DEF Alone, RemovalsAlone, BuildsAlone
<1>5. OwnPreviews' /\ RowsStand' /\ RemovalProgress' /\ DeleteCovers'
  <2>1. \A g \in Handlers : listed(task[g])' = {}
    BY <1>1, Nowhere DEF listed
  <2> QED
    BY <1>1, <1>2, <1>3, <2>1, Nowhere
       DEF OwnPreviews, RowsStand, RemovalProgress, DeleteCovers, EventStages
<1>6. HostAccounted'
  BY <1>2 DEF Accounts, HostAccounted, excused
<1>7. ClosedListed'
  <2>1. ASSUME NEW p \in rows, of[p].pull \in closed' PROVE excused(p)
    <3>1. \A g \in Handlers : of[p].pull \notin pullsOf(task[g])
      BY <1>2, <2>1
    <3>2. \A g \in Handlers : task[g].op = "close" => pullsOf(task[g]) = {task[g].pull}
      BY DEF pullsOf
    <3> QED
      BY <1>2, <2>1, <3>1, <3>2 DEF Accounts, ClosedListed
  <2> QED
    BY <1>1, <1>2, <2>1, Nowhere DEF ClosedListed, excused
<1> QED
  BY <1>4, <1>5, <1>6, <1>7 DEF Accounts

\* Nothing moves but the queue and the count of events.
LEMMA NothingMoves ==
  ASSUME IInv, Alone, Accounts,
         UNCHANGED <<of, rows, hostVars, building, task, closed, overlapped, left>>
  PROVE  Alone' /\ Accounts'
<1>1. \A g \in Handlers : /\ listed(task[g])' = listed(task[g])
                          /\ pullsOf(task[g])' = pullsOf(task[g])
  BY DEF listed, pullsOf
<1>2. Alone'
  BY <1>1 DEF Alone, RemovalsAlone, BuildsAlone
<1>3. UNCHANGED <<services, code, files>>
  BY DEF hostVars
<1> QED
  BY <1>1, <1>2, <1>3
     DEF Accounts, OwnPreviews, RowsStand, RemovalProgress, DeleteCovers, HostAccounted,
         ClosedListed, excused, remains, previewsOf

LEMMA AccountsInitially == Init => Alone /\ Accounts
<1> SUFFICES ASSUME Init PROVE Alone /\ Accounts
  OBVIOUS
<1>1. nowhere.op \notin Removals /\ nowhere.at \notin EventStages \cup RemovalStages
  BY Nowhere DEF Removals, EventStages, RemovalStages
<1>2. \A h \in Handlers : task[h] = nowhere
  BY DEF Init
<1> QED
  BY <1>1, <1>2, Nowhere
     DEF Init, Alone, RemovalsAlone, BuildsAlone, Accounts, OwnPreviews, RowsStand,
         RemovalProgress, DeleteCovers, HostAccounted, ClosedListed, EventStages

LEMMA WorkKeeps ==
  ASSUME IInv, Alone, Accounts, NEW h \in Handlers, Work(h)
  PROVE  Alone' /\ Accounts'
<1>1. DataOK /\ TasksOK /\ JobsOK
  BY Parts
<1>2. UNCHANGED <<building, overlapped>>
  BY DEF Work, nextApplication, insertPreview, createDomain, manageDomain, linkDomain,
         enqueue, nextPreview, removePreviewDeployment, removed, deleteApplicationRow,
         cleanQueuesByApplication, respond, jobVars, ghostVars
<1>3. ASSUME NEW u, continue(h, u), pursues(task[h], task'[h]),
             \A r \in known : of'[r] = of[r]
      PROVE  Alone'
  <2>1. \A g \in Handlers : pursues(task[g], task'[g])
    BY <1>1, <1>3, GoesOn DEF pursues
  <2> QED
    BY <1>1, <1>2, <1>3, <2>1, AloneKept
<1>4. PICK u : continue(h, u)
  BY DEF Work, nextApplication, insertPreview, createDomain, manageDomain, linkDomain,
         enqueue, nextPreview, removePreviewDeployment, removed, deleteApplicationRow,
         cleanQueuesByApplication, respond, goto, end, throw
<1>5. CASE insertPreview(h) /\ ~ (end(h) /\ UNCHANGED <<of, rows>>)
  <2>1. PICK p \in Previews :
          /\ of[p] = None
          /\ of' = [of EXCEPT ![p] = [app |-> task[h].app, pull |-> task[h].pull]]
          /\ rows' = rows \cup {p}
          /\ continue(h, [task[h] EXCEPT !.at = "domain", !.preview = p])
          /\ UNCHANGED events
    BY <1>5 DEF insertPreview, throw
  <2>2. at(h, "insert") /\ UNCHANGED <<apps, domained, hostVars, jobVars, ghostVars, events>>
    BY <1>5, <2>1 DEF insertPreview
  <2>3. Accounts' /\ pursues(task[h], task'[h]) /\ \A r \in known : of'[r] = of[r]
    BY <2>1, <2>2, InsertAccounts
  <2> QED
    BY <1>3, <1>4, <2>3
<1>6. CASE ~ (insertPreview(h) /\ ~ (end(h) /\ UNCHANGED <<of, rows>>))
  <2>1. UNCHANGED of
    BY <1>6 DEF Work, nextApplication, createDomain, manageDomain, linkDomain,
         enqueue, nextPreview, removePreviewDeployment, removed, deleteApplicationRow,
         cleanQueuesByApplication, respond, dbVars
  <2>2. Accounts' /\ pursues(task[h], task'[h])
    BY <1>6, QuietWork, ManageAccounts, RemovalWork DEF Work
  <2> QED
    BY <1>3, <1>4, <2>1, <2>2
<1> QED
  BY <1>5, <1>6

LEMMA AccountsStep == IInv /\ Alone /\ Accounts /\ [Next]_vars => Alone' /\ Accounts'
<1> SUFFICES ASSUME IInv, Alone, Accounts, [Next]_vars PROVE Alone' /\ Accounts'
  OBVIOUS
<1>1. ASSUME NEW p \in Previews, redeploy(p) PROVE Alone' /\ Accounts'
  BY <1>1, NothingMoves DEF redeploy, dbVars
<1>2. CASE UNCHANGED vars
  BY <1>2, NothingMoves DEF vars, jobVars
<1> QED
  BY <1>1, <1>2, ArriveAccounts, WorkKeeps, BuildsKeep, RestartKeeps DEF Next

LEMMA EverythingAccounted == Spec => [](IInv /\ Alone /\ Accounts)
BY InitInvariant, StepInvariant, AccountsInitially, AccountsStep, PTL DEF Spec

\* At every moment every service, directory and Traefik file on the host belongs to
\* a preview that is in the database, unless an operation of its removal failed or
\* the removal met another request or a build of its pull request: whatever failed
\* while it was created or built, and whenever the server restarted.
THEOREM HostAccountedFor == Spec => []NoOrphans
<1>1. Accounts => NoOrphans
  BY DEF Accounts, HostAccounted, NoOrphans, excused
<1> QED
  BY <1>1, EverythingAccounted, PTL

\* A pull request that was closed keeps no row once no request is in progress, with
\* the same two exceptions: no event that was being handled brings a preview back.
THEOREM ClosingIsFinal == Spec => []ClosedLeavesNoRow
<1>1. Accounts => ClosedLeavesNoRow
  BY DEF Accounts, ClosedListed, ClosedLeavesNoRow, excused, idle
<1> QED
  BY <1>1, EverythingAccounted, PTL

-----------------------------------------------------------------------------
(* The steps implement PreviewHosting                                      *)

hosted   == services \cup code \cup files
excuses  == {p \in known : p \in left \/ of[p].pull \in overlapped}

\* The previews PreviewHosting may excuse are those the invariant excuses.
Cleared ==
  /\ hosted \subseteq rows \cup excuses
  /\ rows \subseteq known /\ hosted \subseteq known /\ known \subseteq Previews

LEMMA HostedExcused ==
  /\ IInv /\ Accounts => Cleared
  /\ IInv' /\ Accounts' => Cleared'
<1>1. IInv /\ Accounts => Cleared
  BY Parts DEF DataOK, Accounts, HostAccounted, excused, hosted, excuses, known, Cleared
<1> QED
  BY <1>1, PTL

\* Nothing happens to rows and host; who is in whose way may have become known.
LEMMA HostingExcuses ==
  ASSUME IInv, Accounts, UNCHANGED <<of, rows, services, code, files>>,
         left \subseteq left', overlapped \subseteq overlapped'
  PROVE  Hosting!Next
<1>1. known' = known /\ hosted' = hosted
  BY DEF known, hosted
<1>0. excuses \subseteq excuses' /\ excuses' \subseteq known
  BY <1>1 DEF excuses
<1>2. known \subseteq Previews
  BY DEF known
<1>3. PICK S \in SUBSET Previews : excuses' = excuses \cup S /\ S \subseteq known
  BY <1>0, <1>2
<1>4. Hosting!Excuse(S)
  BY <1>1, <1>3 DEF Hosting!Excuse, hosted, excuses
<1> QED
  BY <1>4 DEF Hosting!Next

\* Something of one preview appears on the host, or goes from it.
LEMMA HostingHosts ==
  ASSUME IInv, Accounts, IInv', Accounts', UNCHANGED <<of, rows, left, overlapped>>,
         NEW p \in Previews, hosted' \in {hosted, hosted \cup {p}, hosted \ {p}}
  PROVE  [Hosting!Next]_(Hosting!vars)
<1>1. known' = known /\ excuses' = excuses
  BY DEF known, excuses
<1>2. CASE hosted' = hosted
  BY <1>1, <1>2 DEF Hosting!vars, hosted, excuses
<1>3. CASE hosted' = hosted \cup {p}
  <2>1. hosted' \subseteq rows' \cup excuses'
    BY HostedExcused DEF Cleared
  <2>2. p \in rows \cup excuses
    BY <1>1, <1>3, <2>1
  <2>3. Hosting!Host(p)
    BY <1>1, <1>3, <2>2 DEF Hosting!Host, hosted, excuses
  <2> QED
    BY <2>3 DEF Hosting!Next
<1>4. CASE hosted' = hosted \ {p}
  <2>1. Hosting!Clear(p)
    BY <1>1, <1>4 DEF Hosting!Clear, hosted, excuses
  <2> QED
    BY <2>1 DEF Hosting!Next
<1> QED
  BY <1>2, <1>3, <1>4

\* Rows go, and the host is as it was: it had been cleared before.
LEMMA HostingDrops ==
  ASSUME IInv, Accounts, IInv', Accounts',
         UNCHANGED <<of, services, code, files, left, overlapped>>, rows' \subseteq rows
  PROVE  Hosting!Next
<1>1. known' = known /\ excuses' = excuses /\ hosted' = hosted
  BY DEF known, excuses, hosted
<1>2. hosted' \subseteq rows' \cup excuses'
  BY HostedExcused DEF Cleared
<1> DEFINE S == rows \ rows'
<1>3. /\ S \subseteq rows /\ S \cap hosted \subseteq excuses /\ S \in SUBSET Previews
      /\ rows' = rows \ S /\ known \ rows' = (known \ rows) \cup S
  BY <1>1, <1>2, HostedExcused DEF Cleared
<1> HIDE DEF S
<1>4. Hosting!Drop(S)
  BY <1>1, <1>3 DEF Hosting!Drop, hosted, excuses
<1> QED
  BY <1>3, <1>4 DEF Hosting!Next

LEMMA HostingCreates ==
  ASSUME IInv, Accounts, NEW h \in Handlers, insertPreview(h)
  PROVE  Hosting!Next
<1>1. CASE UNCHANGED <<of, rows>>
  BY <1>1, HostingExcuses DEF insertPreview, hostVars, ghostVars
<1>2. CASE ~ UNCHANGED <<of, rows>>
  <2> DEFINE x == [app |-> task[h].app, pull |-> task[h].pull]
  <2>9. x \in [app : Apps, pull : Pulls]
    BY Parts DEF insertPreview, at, TasksOK, soundTask
  <2>1. PICK p \in Previews :
          of[p] = None /\ of' = [of EXCEPT ![p] = x] /\ rows' = rows \cup {p}
    BY <1>2 DEF insertPreview
  <2> HIDE DEF x
  <2>2. UNCHANGED <<services, code, files, left, overlapped>>
    BY DEF insertPreview, hostVars, ghostVars
  <2>3. x # None
    BY <2>9, NamesAssumption
  <2>4. of \in [Previews -> [app : Apps, pull : Pulls] \cup {None}]
    BY Parts DEF DataOK
  <2>5. known' = known \cup {p} /\ p \notin known /\ \A r \in known : of'[r] = of[r]
    BY <2>1, <2>3, <2>4, SMTT(30) DEF known
  <2>6. excuses' \in {excuses, excuses \cup {p}}
    BY <2>2, <2>5 DEF excuses
  <2>7. p \notin rows /\ known' \ rows' = known \ rows /\ hosted' = hosted
    BY <2>1, <2>2, <2>5, HostedExcused DEF Cleared, hosted
  <2>8. Hosting!Create(p)
    BY <2>1, <2>2, <2>5, <2>6, <2>7 DEF Hosting!Create, hosted, excuses
  <2> QED
    BY <2>8 DEF Hosting!Next
<1> QED
  BY <1>1, <1>2

LEMMA HostingRemoves ==
  ASSUME IInv, Accounts, IInv', Accounts', NEW h \in Handlers, removePreviewDeployment(h)
  PROVE  [Hosting!Next]_(Hosting!vars)
<1> DEFINE p == task[h].preview
<1>1. p \in Previews /\ UNCHANGED <<of, overlapped>>
  BY Parts DEF removePreviewDeployment, removed, at, TasksOK, soundTask, RemovalStages,
     EventStages, known
<1>2. CASE left' = left \cup {p} /\ UNCHANGED <<rows, services, code, files>>
  BY <1>1, <1>2, HostingExcuses
<1>3. CASE left' = left /\ rows' = rows /\ hosted' \in {hosted, hosted \ {p}}
  BY <1>1, <1>3, HostingHosts
<1>4. CASE left' = left /\ rows' \subseteq rows /\ UNCHANGED <<services, code, files>>
  BY <1>1, <1>4, HostingDrops
<1>5. CASE removed(h, "rmRow", "loop", rows, rows') /\ UNCHANGED hostVars
  BY <1>2, <1>4, <1>5 DEF removed, hostVars
<1>6. CASE ~ (removed(h, "rmRow", "loop", rows, rows') /\ UNCHANGED hostVars)
  <2>1. rows' = rows
    BY <1>6 DEF removePreviewDeployment
  <2>2. \/ left' = left \cup {p} /\ UNCHANGED <<services, code, files>>
        \/ left' = left /\ hosted' \in {hosted, hosted \ {p}}
    <3>1. CASE services' = services \ {p} /\ UNCHANGED <<code, files, left>>
      BY <3>1 DEF hosted
    <3>2. CASE code' = code \ {p} /\ UNCHANGED <<services, files, left>>
      BY <3>2 DEF hosted
    <3>3. CASE files' = files \ {p} /\ UNCHANGED <<services, code, left>>
      BY <3>3 DEF hosted
    <3> QED
      BY <1>6, <3>1, <3>2, <3>3 DEF removePreviewDeployment, removed
  <2> QED
    BY <1>2, <1>3, <2>1, <2>2
<1> QED
  BY <1>5, <1>6

LEMMA HostingWork ==
  ASSUME IInv, Accounts, IInv', Accounts', NEW h \in Handlers, Work(h)
  PROVE  [Hosting!Next]_(Hosting!vars)
<1>1. CASE insertPreview(h)
  BY <1>1, HostingCreates
<1>2. CASE removePreviewDeployment(h)
  BY <1>2, HostingRemoves
<1>3. CASE manageDomain(h)
  <2>1. task[h].preview \in Previews
    BY <1>3, Parts DEF manageDomain, at, TasksOK, soundTask, RemovalStages, EventStages, known
  <2>2. UNCHANGED <<of, rows, left, overlapped>>
        /\ hosted' \in {hosted, hosted \cup {task[h].preview}}
    BY <1>3 DEF manageDomain, dbVars, ghostVars, hosted
  <2> QED
    BY <2>1, <2>2, HostingHosts
<1>4. CASE deleteApplicationRow(h)
  BY <1>4, HostingDrops DEF deleteApplicationRow, hostVars, ghostVars
<1>5. CASE \/ nextApplication(h) \/ createDomain(h) \/ linkDomain(h) \/ enqueue(h)
           \/ nextPreview(h) \/ cleanQueuesByApplication(h) \/ respond(h)
  <2>1. UNCHANGED <<of, rows, services, code, files, left, overlapped>>
    BY <1>5 DEF nextApplication, createDomain, linkDomain, enqueue, nextPreview,
       cleanQueuesByApplication, respond, dbVars, hostVars, ghostVars
  <2> QED
    BY <2>1, HostingExcuses
<1> QED
  BY <1>1, <1>2, <1>3, <1>4, <1>5 DEF Work

LEMMA HostingBuilds ==
  ASSUME IInv, Accounts, IInv', Accounts', NEW a \in Apps, RunBuild(a)
  PROVE  [Hosting!Next]_(Hosting!vars)
<1>1. CASE (\E p \in Previews : startBuild(a, p)) \/ prepareBuild(a)
  BY <1>1, HostingExcuses DEF startBuild, prepareBuild, dbVars, hostVars, ghostVars
<1>2. CASE cloneAndBuild(a) \/ mechanizeDockerContainer(a)
  <2>1. building[a].of \in Previews
    BY <1>2, Parts DEF cloneAndBuild, mechanizeDockerContainer, JobsOK, known
  <2>2. UNCHANGED <<of, rows, left, overlapped>>
        /\ hosted' \in {hosted, hosted \cup {building[a].of}}
    BY <1>2 DEF cloneAndBuild, mechanizeDockerContainer, dbVars, ghostVars, hosted
  <2> QED
    BY <2>1, <2>2, HostingHosts
<1> QED
  BY <1>1, <1>2 DEF RunBuild

\* With any number of applications, pull requests and requests at a time, whatever
\* fails and whenever the server restarts: a preview that is not excused is cleared
\* from the host before its row goes, and nothing of it returns.
THEOREM HostingRefinement == Spec => ImplementsPreviewHosting
<1>1. Init => Hosting!Init
  <2> SUFFICES ASSUME Init PROVE Hosting!Init
    OBVIOUS
  <2>1. known = {}
    BY DEF Init, known
  <2> QED
    BY <2>1 DEF Init, Hosting!Init
<1>2. IInv /\ IInv' /\ Accounts /\ Accounts' /\ [Next]_vars => [Hosting!Next]_(Hosting!vars)
  <2> SUFFICES ASSUME IInv, IInv', Accounts, Accounts', [Next]_vars
               PROVE  [Hosting!Next]_(Hosting!vars)
    OBVIOUS
  <2>1. ASSUME NEW h \in Handlers, Arrive(h) PROVE [Hosting!Next]_(Hosting!vars)
    <3>1. /\ UNCHANGED <<of, rows, services, code, files, left>>
          /\ overlapped \subseteq overlapped'
      BY <2>1 DEF Arrive, pullRequestEvent, pullRequestClosed, deletePreview,
         deleteApplication, arrive, hostVars
    <3> QED
      BY <3>1, HostingExcuses
  <2>2. ASSUME NEW p \in Previews, redeploy(p) PROVE [Hosting!Next]_(Hosting!vars)
    BY <2>2, HostingExcuses DEF redeploy, dbVars, hostVars
  <2>3. CASE restart
    BY <2>3, HostingExcuses DEF restart, dbVars, hostVars
  <2>4. CASE UNCHANGED vars
    BY <2>4, HostingExcuses DEF vars, hostVars
  <2> QED
    BY <2>1, <2>2, <2>3, <2>4, HostingWork, HostingBuilds DEF Next
<1> QED
  BY <1>1, <1>2, EverythingAccounted, PTL
     DEF Spec, ImplementsPreviewHosting, Hosting!Spec
=============================================================================
