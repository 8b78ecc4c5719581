------------------------ MODULE TraefikConfigProofs ------------------------
(***************************************************************************)
(* Three invariants of the files, each inductive with those before it.     *)
(* IInv: whatever requests overlap and whatever remote commands fail, the  *)
(* file of every application is well-formed and whole.  Agreement: unless  *)
(* a command fails or a write replaces what its handler has not read, the  *)
(* routers are those the rows ask for.  Protection: while requests come    *)
(* one after the other, every router is behind what its rows put it        *)
(* behind, and middlewares.yml defines it.                                 *)
(***************************************************************************)
EXTENDS TraefikConfig, TLAPS

-----------------------------------------------------------------------------
(* What the edits of a file return                                         *)

\* The middlewares findApplicationById finds have names of the file.
LEMMA AttachedType ==
  ASSUME NEW a \in Apps PROVE attached(a) \in SUBSET Reference
BY DEF attached, Reference, Named

LEMMA EmptyServed == Empty \in Config /\ served(Empty)
BY DEF Empty, Config, served

LEMMA LoadServed ==
  ASSUME NEW f \in Config \cup {NoFile}, f # NoFile => served(f)
  PROVE  /\ loadOrCreateConfig(f) \in Config
         /\ served(loadOrCreateConfig(f))
BY EmptyServed DEF loadOrCreateConfig

LEMMA RoutersForType ==
  ASSUME NEW d \in Domains, NEW row \in Settings \cup {NoDomain},
         NEW seen \in SUBSET Reference
  PROVE  /\ routersFor(d, row, seen) \in SUBSET Router
         /\ \A x \in routersFor(d, row, seen) : x.of = d
         /\ \A x \in routersFor(d, row, seen) : x.secure =>
              \E y \in routersFor(d, row, seen) : y.of = x.of /\ ~ y.secure
         /\ ~ exposed(row) => routersFor(d, row, seen) = {}
<1>1. ASSUME NEW secure \in BOOLEAN, exposed(row)
      PROVE  createRouterConfig(d, row, seen, secure) \in Router
  <2> DEFINE uses == createRouterConfig(d, row, seen, secure).uses
  <2>1. RedirectToHttps \in Reference /\ strip(d) \in Reference /\ gate(d) \in Reference
    BY DEF Reference, Named
  <2>2. uses \in SUBSET Reference
    BY <2>1 DEF createRouterConfig
  <2> QED
    BY <2>2 DEF createRouterConfig, Router
<1>2. CASE exposed(row)
  <2>1. routersFor(d, row, seen) =
          {createRouterConfig(d, row, seen, secure) :
             secure \in {s \in BOOLEAN : s => row.https}}
    BY <1>2 DEF routersFor
  <2>2. routersFor(d, row, seen) \in SUBSET Router
    BY <2>1, <1>1, <1>2
  <2>3. \A s \in BOOLEAN : /\ createRouterConfig(d, row, seen, s).of = d
                           /\ createRouterConfig(d, row, seen, s).secure = s
    BY DEF createRouterConfig
  <2>4. createRouterConfig(d, row, seen, FALSE) \in routersFor(d, row, seen)
    BY <2>1
  <2> QED
    BY <1>2, <2>1, <2>2, <2>3, <2>4
<1>3. CASE ~ exposed(row)
  BY <1>3 DEF routersFor
<1> QED
  BY <1>2, <1>3

\* manageDomain and removeDomain keep a file whole.
LEMMA SetDomainServed ==
  ASSUME NEW cfg \in Config, served(cfg),
         NEW d \in Domains, NEW row \in Settings \cup {NoDomain},
         NEW seen \in SUBSET Reference
  PROVE  setDomain(cfg, d, row, seen) \in Config /\ served(setDomain(cfg, d, row, seen))
<1> DEFINE new  == setDomain(cfg, d, row, seen)
           mine == routersFor(d, row, seen)
<1>1. /\ new.routers = {x \in cfg.routers : x.of # d} \cup mine
      /\ new.services = IF exposed(row) THEN cfg.services \cup {d}
                                        ELSE cfg.services \ {d}
      /\ new = [routers |-> new.routers, services |-> new.services]
  BY DEF setDomain
<1>2. /\ mine \in SUBSET Router
      /\ \A x \in mine : x.of = d
      /\ \A x \in mine : x.secure => \E y \in mine : y.of = x.of /\ ~ y.secure
      /\ ~ exposed(row) => mine = {}
  BY RoutersForType
<1>3. cfg.routers \in SUBSET Router /\ cfg.services \in SUBSET Domains
  BY DEF Config
<1>4. new.routers \in SUBSET Router /\ new.services \in SUBSET Domains
  BY <1>1, <1>2, <1>3
<1>5. new \in Config
  BY <1>1, <1>4 DEF Config
<1>6. ASSUME NEW x \in new.routers
      PROVE  /\ x.of \in new.services
             /\ x.secure => \E y \in new.routers : y.of = x.of /\ ~ y.secure
  <2>1. CASE x \in mine
    BY <2>1, <1>1, <1>2
  <2>2. CASE x \in cfg.routers /\ x.of # d
    <3>1. x.of \in new.services
      BY <2>2, <1>1 DEF served
    <3>2. ASSUME x.secure PROVE \E y \in new.routers : y.of = x.of /\ ~ y.secure
      <4>1. PICK y \in cfg.routers : y.of = x.of /\ ~ y.secure
        BY <2>2, <3>2 DEF served
      <4> QED
        BY <4>1, <2>2, <1>1
    <3> QED
      BY <3>1, <3>2
  <2> QED
    BY <1>1, <2>1, <2>2
<1> QED
  BY <1>5, <1>6 DEF served

\* So does anything that only changes what routers use.
LEMMA RelabelServed ==
  ASSUME NEW cfg \in Config, served(cfg), NEW F \in [cfg.routers -> Router],
         \A x \in cfg.routers : F[x].of = x.of /\ F[x].secure = x.secure,
         NEW new, new = [routers |-> {F[x] : x \in cfg.routers},
                         services |-> cfg.services]
  PROVE  new \in Config /\ served(new)
<1>1. new \in Config
  BY DEF Config
<1>2. ASSUME NEW z \in new.routers
      PROVE  /\ z.of \in new.services
             /\ z.secure => \E y \in new.routers : y.of = z.of /\ ~ y.secure
  <2>1. PICK x \in cfg.routers : z = F[x]
    BY <1>2
  <2>2. z.of \in new.services
    BY <2>1 DEF served
  <2>3. ASSUME z.secure PROVE \E y \in new.routers : y.of = z.of /\ ~ y.secure
    <3>1. PICK y \in cfg.routers : y.of = x.of /\ ~ y.secure
      BY <2>1, <2>3 DEF served
    <3>2. F[y] \in new.routers
      BY <3>1
    <3> QED
      BY <2>1, <3>1, <3>2
  <2> QED
    BY <2>2, <2>3
<1> QED
  BY <1>1, <1>2 DEF served

\* The edits of a redirect or a user.
LEMMA MiddlewareServed ==
  ASSUME NEW cfg \in Config, served(cfg), NEW ref \in Reference
  PROVE  /\ addMiddleware(cfg, ref) \in Config /\ served(addMiddleware(cfg, ref))
         /\ deleteMiddleware(cfg, ref) \in Config /\ served(deleteMiddleware(cfg, ref))
<1> DEFINE more == [x \in cfg.routers |-> [x EXCEPT !.uses = @ \cup {ref}]]
           less == [x \in cfg.routers |-> [x EXCEPT !.uses = @ \ {ref}]]
<1>1. /\ cfg.routers \in SUBSET Router
      /\ cfg = [routers |-> cfg.routers, services |-> cfg.services]
  BY DEF Config
<1>2. \A x \in cfg.routers :
        /\ more[x] \in Router /\ more[x].of = x.of /\ more[x].secure = x.secure
        /\ less[x] \in Router /\ less[x].of = x.of /\ less[x].secure = x.secure
  BY <1>1 DEF Router
<1>3. more \in [cfg.routers -> Router] /\ less \in [cfg.routers -> Router]
  BY <1>2
<1>r. ASSUME NEW S
      PROVE  [cfg EXCEPT !.routers = S] = [routers |-> S, services |-> cfg.services]
  BY DEF Config
<1>4. addMiddleware(cfg, ref) = [routers  |-> {more[x] : x \in cfg.routers},
                                 services |-> cfg.services]
  <2>1. {more[x] : x \in cfg.routers} =
        {[x EXCEPT !.uses = @ \cup {ref}] : x \in cfg.routers}
    OBVIOUS
  <2> QED
    BY ONLY <2>1, <1>r DEF addMiddleware
<1>5. deleteMiddleware(cfg, ref) = [routers  |-> {less[x] : x \in cfg.routers},
                                    services |-> cfg.services]
  <2>1. {less[x] : x \in cfg.routers} =
        {[x EXCEPT !.uses = @ \ {ref}] : x \in cfg.routers}
    OBVIOUS
  <2> QED
    BY ONLY <2>1, <1>r DEF deleteMiddleware
<1> HIDE DEF more, less
<1>6. addMiddleware(cfg, ref) \in Config /\ served(addMiddleware(cfg, ref))
  BY <1>2, <1>3, <1>4, RelabelServed
<1>7. deleteMiddleware(cfg, ref) \in Config /\ served(deleteMiddleware(cfg, ref))
  BY <1>2, <1>3, <1>5, RelabelServed
<1> QED
  BY <1>6, <1>7

-----------------------------------------------------------------------------
(* What the edits of middlewares.yml return                                *)

LEMMA EntryNames ==
  /\ RedirectToHttps \in Entry
  /\ \A d \in Domains : strip(d) \in Entry /\ gate(d) \in Entry
  /\ \A r \in Redirects : redirect(r) \in Entry /\ redirect(r) \in Reference
  /\ \A u \in Users : user(u) \in Entry
  /\ \A a \in Apps : auth(a) \in Reference
BY DEF Entry, Reference, Named

LEMMA SectionType ==
  ASSUME NEW mw \in (SUBSET Entry) \cup {NoSection}
  PROVE  section(mw) \in SUBSET Entry
BY DEF section

LEMMA DomainEditsType ==
  ASSUME NEW t \in Task, t.of \in Domains
  PROVE  /\ pathsEdit(t) \in (SUBSET Entry) \cup {NoSection}
         /\ gateEdit(t) \in (SUBSET Entry) \cup {NoSection}
<1>1. t.mw \in (SUBSET Entry) \cup {NoSection}
  BY DEF Task
<1>2. section(t.mw) \in SUBSET Entry /\ (t.mw # NoSection => section(t.mw) = t.mw)
  BY <1>1, SectionType DEF section
<1>3. section(t.mw) \ {strip(t.of)} # {} => t.mw # NoSection
  BY DEF section
<1> QED
  BY <1>1, <1>2, <1>3, EntryNames DEF pathsEdit, gateEdit

LEMMA MwEditType ==
  ASSUME NEW t \in Task, soundTask(t),
         t.op \in RedirectOps \cup UserOps \cup {"deleteApp"}
  PROVE  mwEdit(t) \in (SUBSET Entry) \cup {NoSection}
<1>1. t.mw \in (SUBSET Entry) \cup {NoSection}
  BY DEF Task
<1>2. CASE t.mw = NoSection
  BY <1>2 DEF mwEdit
<1>3. CASE t.mw # NoSection
  <2>1. t.mw \in SUBSET Entry
    BY <1>1, <1>3
  <2>2. CASE t.op \in RedirectOps
    BY <1>3, <2>1, <2>2, EntryNames DEF mwEdit, soundTask, RedirectOps, UserOps
  <2>3. CASE t.op \in UserOps
    BY <1>3, <2>1, <2>3, EntryNames DEF mwEdit, soundTask, RedirectOps, UserOps
  <2>4. CASE t.op = "deleteApp"
    BY <1>3, <2>1, <2>4 DEF mwEdit
  <2> QED
    BY <2>2, <2>3, <2>4
<1> QED
  BY <1>2, <1>3

LEMMA AppEditServed ==
  ASSUME NEW t \in Task, soundTask(t), t.op \in RedirectOps \cup UserOps
  PROVE  appEdit(t) \in Config /\ served(appEdit(t))
<1>1. t.cfg \in Config /\ served(t.cfg)
  BY DEF Task, soundTask
<1>2. CASE t.op \in {"addRedirect", "dropRedirect"}
  <2>1. redirect(t.of) \in Reference
    BY <1>2, EntryNames DEF soundTask, RedirectOps
  <2> QED
    BY <1>1, <1>2, <2>1, MiddlewareServed DEF appEdit
<1>3. CASE t.op \in UserOps
  <2>1. t.of \in Users
    BY <1>3 DEF soundTask
  <2>2. auth(appOf[t.of]) \in Reference
    BY <2>1, EntryNames, IdsAssumption
  <2> QED
    BY <1>1, <1>3, <2>2, MiddlewareServed DEF appEdit, UserOps
<1>4. CASE t.op = "editRedirect"
  <2>1. auth(appOf[t.of]) \in Reference
    BY <1>4, EntryNames, IdsAssumption DEF soundTask, RedirectOps
  <2> QED
    BY <1>1, <1>4, <2>1, MiddlewareServed DEF appEdit
<1> QED
  BY <1>2, <1>3, <1>4 DEF RedirectOps

-----------------------------------------------------------------------------
(* Steps of requests                                                       *)

\* The part of the invariant that is about the tasks, and the rest.
TasksOK == task \in [Handlers -> Task] /\ \A h \in Handlers : soundTask(task[h])

RowsOK == /\ remote \in BOOLEAN
          /\ apps \subseteq Apps
          /\ domains \in [Domains -> Settings \cup {NoDomain}]
          /\ redirects \in [Redirects -> {"none", "inserted", "saved"}]
          /\ users \subseteq Users
          /\ authDomain \in BOOLEAN /\ ungated \subseteq Domains

FilesOK == /\ file \in [Apps -> Config \cup {NoFile}]
           /\ middlewares \in (SUBSET Entry) \cup {NoSection}
           /\ RoutersServed

GhostsOK == /\ raced \in BOOLEAN /\ calm \in BOOLEAN
            /\ faults \in 0..MaxFaults /\ requests \in 0..MaxRequests

LEMMA Parts ==
  /\ IInv <=> TasksOK /\ RowsOK /\ FilesOK /\ GhostsOK
  /\ IInv' <=> TasksOK' /\ RowsOK' /\ FilesOK' /\ GhostsOK'
BY DEF IInv, TypeOK, TasksOK, RowsOK, FilesOK, GhostsOK

LEMMA NewTaskSound ==
  ASSUME NEW op \in Ops, NEW stage \in {"row", "app", "mwRead", "idle"},
         NEW x \in Domains \cup Redirects \cup Users \cup Apps,
         NEW row \in Settings \cup {NoDomain},
         op \in DomainOps => x \in Domains,
         op \in RedirectOps => x \in Redirects,
         op \in UserOps => x \in Users,
         op = "deleteApp" => x \in Apps,
         op = "toggle" => row \in Settings,
         stage = "app" => op \in DomainOps,
         stage = "mwRead" => op \in RedirectOps \cup UserOps
  PROVE  newTask(op, stage, x, row) \in Task /\ soundTask(newTask(op, stage, x, row))
<1> DEFINE t == newTask(op, stage, x, row)
<1>1. t \in Task
  BY EmptyServed DEF newTask, Task, Awaits
<1>2. soundTask(t)
  BY EmptyServed DEF newTask, soundTask, DomainStages
<1> QED
  BY <1>1, <1>2

LEMMA NowhereSound == nowhere \in Task /\ soundTask(nowhere)
<1>1. (CHOOSE a \in Apps : TRUE) \in Apps
  BY IdsAssumption
<1>2. /\ "none" \in Ops /\ "none" \notin DomainOps /\ "none" \notin RedirectOps
      /\ "none" \notin UserOps
  BY DEF Ops, DomainOps, RedirectOps, UserOps
<1> QED
  BY <1>1, <1>2, NewTaskSound DEF nowhere

\* A handler moves on with t.
LEMMA Moves ==
  ASSUME TasksOK, GhostsOK, NEW h \in Handlers, NEW t \in Task, soundTask(t)
  PROVE  /\ continue(h, t) /\ UNCHANGED <<raced, faults>> => TasksOK' /\ GhostsOK'
         /\ fail(h, t) /\ UNCHANGED raced => TasksOK' /\ GhostsOK'
<1>1. ASSUME NEW c \in Task, soundTask(c), task' = [task EXCEPT ![h] = c] PROVE TasksOK'
  BY <1>1 DEF TasksOK
<1>2. [t EXCEPT !.clean = FALSE] \in Task /\ soundTask([t EXCEPT !.clean = FALSE])
  BY DEF Task, soundTask
<1>3. ASSUME faults < MaxFaults PROVE faults + 1 \in 0..MaxFaults
  BY <1>3, BoundsAssumption DEF GhostsOK
<1> QED
  BY <1>1, <1>2, <1>3 DEF continue, fail, GhostsOK

\* A request ends.
LEMMA Ends ==
  ASSUME TasksOK, GhostsOK, NEW h \in Handlers
  PROVE  /\ finish(h) /\ faults' = faults /\ raced' \in BOOLEAN => TasksOK' /\ GhostsOK'
         /\ failAndThrow(h) /\ UNCHANGED raced => TasksOK' /\ GhostsOK'
<1>1. task' = [task EXCEPT ![h] = nowhere] => TasksOK'
  BY NowhereSound DEF TasksOK
<1>2. task[h].clean \in BOOLEAN
  BY DEF TasksOK, Task
<1>3. ASSUME faults < MaxFaults PROVE faults + 1 \in 0..MaxFaults
  BY <1>3, BoundsAssumption DEF GhostsOK
<1> QED
  BY <1>1, <1>2, <1>3 DEF finish, failAndThrow, GhostsOK

\* A request arrives with a sound task.
LEMMA Arrives ==
  ASSUME TasksOK, GhostsOK, NEW h \in Handlers, NEW t \in Task, soundTask(t),
         arrive(h, t)
  PROVE  TasksOK' /\ GhostsOK'
<1>1. \A c \in Task, b \in BOOLEAN :
        /\ [c EXCEPT !.clean = b] \in Task
        /\ soundTask(c) => soundTask([c EXCEPT !.clean = b])
  BY DEF Task, soundTask
<1>2. quietBut({h}) \in BOOLEAN
  BY DEF quietBut
<1>3. TasksOK'
  <2>1. \A g \in Handlers : task'[g] \in Task /\ soundTask(task'[g])
    BY <1>1, <1>2 DEF arrive, TasksOK
  <2>2. task' \in [Handlers -> Task]
    BY <2>1 DEF arrive
  <2> QED
    BY <2>1, <2>2 DEF TasksOK
<1>4. GhostsOK'
  BY BoundsAssumption DEF arrive, GhostsOK
<1> QED
  BY <1>3, <1>4

LEMMA ArriveStep ==
  ASSUME IInv, NEW h \in Handlers, Arrive(h) PROVE IInv'
<1> USE Parts
<1>1. TasksOK /\ RowsOK /\ FilesOK /\ GhostsOK
  OBVIOUS
<1>2. ASSUME NEW t \in Task, soundTask(t), begin(h, t) PROVE IInv'
  <2>1. TasksOK' /\ GhostsOK'
    BY <1>1, <1>2, Arrives DEF begin
  <2>2. RowsOK' /\ FilesOK'
    BY <1>1, <1>2
       DEF begin, arrive, RowsOK, FilesOK, gateVars, rowVars, fileVars, RoutersServed
  <2> QED
    BY <2>1, <2>2
<1>3. ASSUME NEW d \in Domains, NEW shape \in Shapes,
             createDomain(h, d, shape) \/ updateDomain(h, d, shape)
      PROVE  IInv'
  <2>1. /\ newTask("create", "app", d, shape) \in Task
        /\ soundTask(newTask("create", "app", d, shape))
        /\ newTask("update", "row", d, shape) \in Task
        /\ soundTask(newTask("update", "row", d, shape))
    BY ShapesAssumption, NewTaskSound DEF Ops, DomainOps, RedirectOps, UserOps
  <2> QED
    BY <1>2, <1>3, <2>1 DEF createDomain, updateDomain
<1>4. ASSUME NEW d \in Domains, toggleEnable(h, d) \/ deleteDomain(h, d) PROVE IInv'
  <2>1. domains[d] # NoDomain /\ domains[d] \in Settings \cup {NoDomain}
    BY <1>1, <1>4 DEF toggleEnable, deleteDomain, RowsOK
  <2>2. [domains[d] EXCEPT !.enabled = ~ domains[d].enabled] \in Settings
    BY <2>1 DEF Settings
  <2>3. \A row \in Settings : /\ newTask("toggle", "row", d, row) \in Task
                              /\ soundTask(newTask("toggle", "row", d, row))
    BY NewTaskSound DEF Ops, DomainOps, RedirectOps, UserOps
  <2>4. /\ newTask("delete", "row", d, NoDomain) \in Task
        /\ soundTask(newTask("delete", "row", d, NoDomain))
    BY NewTaskSound DEF Ops, DomainOps, RedirectOps, UserOps
  <2> QED
    BY <1>2, <1>4, <2>2, <2>3, <2>4 DEF toggleEnable, deleteDomain
<1>5. ASSUME NEW r \in Redirects, createRedirect(h, r) PROVE IInv'
  <2>1. /\ newTask("addRedirect", "mwRead", r, NoDomain) \in Task
        /\ soundTask(newTask("addRedirect", "mwRead", r, NoDomain))
    BY NewTaskSound DEF Ops, DomainOps, RedirectOps, UserOps
  <2>2. TasksOK' /\ GhostsOK'
    BY <1>1, <1>5, <2>1, Arrives DEF createRedirect
  <2>3. RowsOK' /\ FilesOK'
    BY <1>1, <1>5
       DEF createRedirect, arrive, RowsOK, FilesOK, gateVars, fileVars, RoutersServed
  <2> QED
    BY <2>2, <2>3
<1>6. ASSUME NEW r \in Redirects, updateRedirect(h, r) \/ removeRedirect(h, r)
      PROVE  IInv'
  <2>1. /\ newTask("editRedirect", "mwRead", r, NoDomain) \in Task
        /\ soundTask(newTask("editRedirect", "mwRead", r, NoDomain))
        /\ newTask("dropRedirect", "row", r, NoDomain) \in Task
        /\ soundTask(newTask("dropRedirect", "row", r, NoDomain))
    BY NewTaskSound DEF Ops, DomainOps, RedirectOps, UserOps
  <2> QED
    BY <1>2, <1>6, <2>1 DEF updateRedirect, removeRedirect
<1>7. ASSUME NEW u \in Users,
             createSecurity(h, u) \/ deleteSecurity(h, u) \/ updateSecurity(h, u)
      PROVE  IInv'
  <2>1. /\ newTask("addUser", "mwRead", u, NoDomain) \in Task
        /\ soundTask(newTask("addUser", "mwRead", u, NoDomain))
        /\ newTask("dropUser", "row", u, NoDomain) \in Task
        /\ soundTask(newTask("dropUser", "row", u, NoDomain))
        /\ newTask("changeUser", "mwRead", u, NoDomain) \in Task
        /\ soundTask(newTask("changeUser", "mwRead", u, NoDomain))
    BY NewTaskSound DEF Ops, DomainOps, RedirectOps, UserOps
  <2> QED
    BY <1>2, <1>7, <2>1 DEF createSecurity, deleteSecurity, updateSecurity
<1>8. ASSUME NEW a \in Apps, deleteApplication(h, a) PROVE IInv'
  <2>1. /\ newTask("deleteApp", "row", a, NoDomain) \in Task
        /\ soundTask(newTask("deleteApp", "row", a, NoDomain))
    BY NewTaskSound DEF Ops, DomainOps, RedirectOps, UserOps
  <2>2. \A t \in Task, S \in SUBSET Reference :
          /\ [t EXCEPT !.seen = S] \in Task
          /\ soundTask(t) => soundTask([t EXCEPT !.seen = S])
    BY DEF Task, soundTask
  <2> QED
    BY <1>2, <1>8, <2>1, <2>2, AttachedType DEF deleteApplication
<1> QED
  BY <1>3, <1>4, <1>5, <1>6, <1>7, <1>8 DEF Arrive

\* A step that leaves rows and files alone, or keeps them in order, is judged by
\* what it does to the tasks.
LEMMA DomainStep ==
  ASSUME IInv, NEW h \in Handlers,
         \/ writeRow(h) \/ rereadRow(h) \/ findApplication(h) \/ load(h)
         \/ readForPaths(h) \/ writePaths(h) \/ queryAuthDomain(h) \/ readForGate(h) \/ writeGate(h)
         \/ writeDomain(h)
  PROVE  IInv'
<1> DEFINE t == task[h]
<1>1. TasksOK /\ RowsOK /\ FilesOK /\ GhostsOK
  BY Parts
<1>2. t \in Task /\ soundTask(t)
  BY <1>1 DEF TasksOK
<1>3. ASSUME NEW c \in Task, soundTask(c), UNCHANGED raced,
             \/ continue(h, c) /\ UNCHANGED faults
             \/ fail(h, c)
      PROVE  TasksOK' /\ GhostsOK'
  BY <1>1, <1>3, Moves
<1>4. ASSUME UNCHANGED raced,
             \/ finish(h) /\ UNCHANGED faults
             \/ failAndThrow(h)
      PROVE  TasksOK' /\ GhostsOK'
  BY <1>1, <1>4, Ends DEF GhostsOK
<1>5. UNCHANGED <<remote, gateVars, rowVars>> => RowsOK'
  BY <1>1 DEF RowsOK, rowVars, gateVars
<1>6. UNCHANGED fileVars => FilesOK'
  BY <1>1 DEF FilesOK, fileVars, RoutersServed
<1>7. UNCHANGED file /\ middlewares' \in (SUBSET Entry) \cup {NoSection} => FilesOK'
  BY <1>1 DEF FilesOK, RoutersServed
<1>8. CASE writeRow(h)
  <2>1. t.of \in Domains /\ t.row \in Settings \cup {NoDomain}
        /\ (t.op = "toggle" => t.row \in Settings)
    BY <1>2, <1>8 DEF writeRow, soundTask, Task, DomainOps
  <2>2. domains' \in [Domains -> Settings \cup {NoDomain}]
    <3>1. CASE domains' = domains
      BY <1>1, <3>1 DEF RowsOK
    <3>2. CASE domains' = [domains EXCEPT ![t.of] = t.row]
      BY <1>1, <2>1, <3>2 DEF RowsOK
    <3>3. CASE /\ t.op = "toggle" /\ domains[t.of] # NoDomain
               /\ domains' = [domains EXCEPT ![t.of].enabled = t.row.enabled]
      <4>1. domains[t.of] \in Settings /\ t.row.enabled \in BOOLEAN
        BY <1>1, <2>1, <3>3 DEF RowsOK, Settings
      <4>2. [domains[t.of] EXCEPT !.enabled = t.row.enabled] \in Settings
        BY <4>1 DEF Settings
      <4> QED
        BY <1>1, <2>1, <3>3, <4>2 DEF RowsOK
    <3> QED
      BY <1>8, <3>1, <3>2, <3>3 DEF writeRow
  <2>3. RowsOK'
    BY <1>1, <1>8, <2>2 DEF writeRow, RowsOK, gateVars
  <2>4. \A stage \in {"app", "reread"} :
          /\ [t EXCEPT !.at = stage] \in Task
          /\ soundTask([t EXCEPT !.at = stage])
    BY <1>2, <1>8 DEF writeRow, Task, Awaits, soundTask, DomainOps, DomainStages
  <2>5. TasksOK' /\ GhostsOK'
    BY <1>3, <1>4, <1>8, <2>4 DEF writeRow, goto
  <2> QED
    BY <1>6, <1>8, <2>3, <2>5, Parts DEF writeRow
<1>9. CASE rereadRow(h)
  <2>1. t.of \in Domains
    BY <1>2, <1>9 DEF rereadRow, at, soundTask, DomainStages
  <2>2. domains[t.of] # NoDomain => domains[t.of] \in Settings
    BY <1>1, <2>1 DEF RowsOK
  <2>3. domains[t.of] # NoDomain =>
          /\ [t EXCEPT !.at = "app", !.row = domains[t.of]] \in Task
          /\ soundTask([t EXCEPT !.at = "app", !.row = domains[t.of]])
    BY <1>2, <1>9, <2>2 DEF rereadRow, at, Task, Awaits, soundTask, DomainStages
  <2>4. TasksOK' /\ GhostsOK'
    BY <1>3, <1>4, <1>9, <2>3 DEF rereadRow, throw
  <2> QED
    BY <1>5, <1>6, <1>9, <2>4, Parts DEF rereadRow, throw
<1>10. CASE findApplication(h)
  <2>1. appOf[t.of] \in Apps
    BY <1>2, <1>10, IdsAssumption DEF findApplication, soundTask
  <2>2. /\ [t EXCEPT !.at = "load", !.seen = attached(appOf[t.of])] \in Task
        /\ soundTask([t EXCEPT !.at = "load", !.seen = attached(appOf[t.of])])
    BY <1>2, <1>10, <2>1, AttachedType
       DEF findApplication, Task, Awaits, soundTask
  <2>3. TasksOK' /\ GhostsOK'
    BY <1>3, <1>4, <1>10, <2>2 DEF findApplication, throw
  <2> QED
    BY <1>5, <1>6, <1>10, <2>3, Parts DEF findApplication, throw
<1>11. CASE load(h)
  <2>1. appOf[t.of] \in Apps /\ t.op \in DomainOps
    BY <1>2, <1>11, IdsAssumption DEF load, at, soundTask, DomainStages
  <2>2. \A cfg \in Config : served(cfg) =>
          /\ [t EXCEPT !.at = "paths", !.cfg = cfg] \in Task
          /\ soundTask([t EXCEPT !.at = "paths", !.cfg = cfg])
    BY <1>2, <2>1 DEF Task, Steps, soundTask
  <2>3. LET cfg == loadOrCreateConfig(file[appOf[t.of]]) IN cfg \in Config /\ served(cfg)
    BY <1>1, <2>1, LoadServed DEF FilesOK, RoutersServed
  <2>4. TasksOK' /\ GhostsOK'
    BY <1>3, <1>11, <2>2, <2>3, EmptyServed DEF load
  <2> QED
    BY <1>5, <1>6, <1>11, <2>4, Parts DEF load
<1>12. ASSUME t.at \in DomainStages
       PROVE  /\ t.op \in DomainOps /\ t.of \in Domains /\ appOf[t.of] \in Apps
              /\ \A stage \in Awaits \cup Steps :
                   stage \notin {"appRead", "fileWrite", "mwRead", "mwWrite"} =>
                     /\ [t EXCEPT !.at = stage] \in Task
                     /\ soundTask([t EXCEPT !.at = stage])
                     /\ \A mw \in (SUBSET Entry) \cup {NoSection} :
                          /\ [t EXCEPT !.at = stage, !.mw = mw] \in Task
                          /\ soundTask([t EXCEPT !.at = stage, !.mw = mw])
  <2>1. t.op \in DomainOps /\ t.of \in Domains /\ appOf[t.of] \in Apps
    BY <1>2, <1>12, IdsAssumption DEF soundTask
  <2>2. ASSUME NEW stage \in Awaits \cup Steps,
               stage \notin {"appRead", "fileWrite", "mwRead", "mwWrite"}
        PROVE  /\ [t EXCEPT !.at = stage] \in Task
               /\ soundTask([t EXCEPT !.at = stage])
    <3>1. [t EXCEPT !.at = stage] \in Task
      BY <1>2 DEF Task
    <3> QED
      BY <1>2, <2>1, <2>2, <3>1 DEF soundTask
  <2>3. ASSUME NEW stage \in Awaits \cup Steps,
               stage \notin {"appRead", "fileWrite", "mwRead", "mwWrite"},
               NEW mw \in (SUBSET Entry) \cup {NoSection}
        PROVE  /\ [t EXCEPT !.at = stage, !.mw = mw] \in Task
               /\ soundTask([t EXCEPT !.at = stage, !.mw = mw])
    <3>1. [t EXCEPT !.at = stage, !.mw = mw] \in Task
      BY <1>2 DEF Task
    <3> QED
      BY <1>2, <2>1, <2>3, <3>1 DEF soundTask, Task
  <2> QED
    BY <2>1, <2>2, <2>3
<1>13. /\ lastStep(t) \in {"rm", "write"}
       /\ afterPaths(t) \in {"rm", "write", "gateQuery", "gateRead"}
  BY DEF lastStep, afterPaths
<1>14. middlewares \in (SUBSET Entry) \cup {NoSection}
  BY <1>1 DEF FilesOK
<1>15. CASE readForPaths(h)
  <2>1. t.at \in DomainStages
    BY <1>15 DEF readForPaths, at, DomainStages
  <2>2. TasksOK' /\ GhostsOK'
    BY <1>3, <1>12, <1>13, <1>14, <1>15, <2>1 DEF readForPaths, goto, Awaits, Steps
  <2> QED
    BY <1>5, <1>6, <1>15, <2>2, Parts DEF readForPaths
<1>16. CASE queryAuthDomain(h) \/ readForGate(h)
  <2>1. t.at \in DomainStages
    BY <1>16 DEF queryAuthDomain, readForGate, at, DomainStages
  <2>2. TasksOK' /\ GhostsOK'
    BY <1>3, <1>12, <1>13, <1>14, <1>16, <2>1 DEF queryAuthDomain, readForGate, goto, Awaits, Steps
  <2>3. CASE queryAuthDomain(h)
    <3>1. t.of \in Domains
      BY <1>2, <2>1, <2>3 DEF soundTask, DomainOps, DomainStages
    <3>2. RowsOK'
      BY <1>1, <2>3, <3>1 DEF queryAuthDomain, RowsOK, rowVars
    <3> QED
      BY <1>6, <2>2, <2>3, <3>2, Parts DEF queryAuthDomain
  <2> QED
    BY <1>5, <1>6, <1>16, <2>2, <2>3, Parts DEF readForGate
<1>17. ASSUME NEW mw \in (SUBSET Entry) \cup {NoSection},
              NEW next \in {"rm", "write", "gateQuery", "gateRead"},
              t.at \in DomainStages, writeMiddlewares(h, mw, next)
       PROVE  IInv'
  <2>1. TasksOK' /\ GhostsOK'
    BY <1>3, <1>12, <1>17 DEF writeMiddlewares, goto, Awaits, Steps
  <2> QED
    BY <1>5, <1>7, <1>14, <1>17, <2>1, Parts DEF writeMiddlewares
<1>18. CASE writePaths(h) \/ writeGate(h)
  <2>1. t.at \in DomainStages
    BY <1>18 DEF writePaths, writeGate, at, DomainStages
  <2> QED
    BY <1>2, <1>12, <1>13, <1>17, <1>18, <2>1, DomainEditsType DEF writePaths, writeGate
<1>19. CASE writeDomain(h)
  <2>1. t.of \in Domains /\ appOf[t.of] \in Apps /\ t.row \in Settings \cup {NoDomain}
        /\ t.seen \in SUBSET Reference /\ t.cfg \in Config /\ served(t.cfg)
    BY <1>2, <1>19, IdsAssumption DEF writeDomain, soundTask, Task
  <2>2. edited(t) \in Config /\ served(edited(t))
    BY <2>1, SetDomainServed DEF edited
  <2>3. FilesOK'
    <3>1. CASE UNCHANGED file
      BY <1>7, <1>14, <1>19, <3>1 DEF writeDomain
    <3>2. CASE file' = [file EXCEPT ![appOf[t.of]] =
                          IF t.at = "rm" THEN NoFile ELSE edited(t)]
      <4>1. file' \in [Apps -> Config \cup {NoFile}]
        BY <1>1, <2>1, <2>2, <3>2 DEF FilesOK
      <4>2. ASSUME NEW a \in Apps, file'[a] # NoFile PROVE served(file'[a])
        BY <1>1, <2>1, <2>2, <3>2, <4>2 DEF FilesOK, RoutersServed
      <4> QED
        BY <1>1, <1>19, <4>1, <4>2 DEF writeDomain, FilesOK, RoutersServed
    <3> QED
      BY <1>19, <3>1, <3>2 DEF writeDomain
  <2>4. RowsOK'
    BY <1>1, <1>19, <2>1 DEF writeDomain, commitDomain, RowsOK, gateVars
  <2>5. TasksOK' /\ GhostsOK'
    <3>1. stale(t) \in BOOLEAN
      BY DEF stale
    <3>2. (raced \/ stale(t)) \in BOOLEAN
      BY <3>1
    <3> QED
      BY <1>1, <1>4, <1>19, <3>2, Ends DEF writeDomain
  <2> QED
    BY <2>3, <2>4, <2>5, Parts
<1> QED
  BY <1>8, <1>9, <1>10, <1>11, <1>15, <1>16, <1>18, <1>19

LEMMA AttachmentStep ==
  ASSUME IInv, NEW h \in Handlers,
         \/ updateUserRow(h) \/ deleteRow(h) \/ readMiddlewares(h) \/ readApp(h)
         \/ writeAttachment(h) \/ writeApp(h)
  PROVE  IInv'
<1> DEFINE t == task[h]
<1>1. TasksOK /\ RowsOK /\ FilesOK /\ GhostsOK
  BY Parts
<1>2. t \in Task /\ soundTask(t)
  BY <1>1 DEF TasksOK
<1>3. ASSUME NEW c \in Task, soundTask(c), UNCHANGED raced,
             \/ continue(h, c) /\ UNCHANGED faults
             \/ fail(h, c)
      PROVE  TasksOK' /\ GhostsOK'
  BY <1>1, <1>3, Moves
<1>4. ASSUME UNCHANGED raced,
             \/ finish(h) /\ UNCHANGED faults
             \/ failAndThrow(h)
      PROVE  TasksOK' /\ GhostsOK'
  BY <1>1, <1>4, Ends DEF GhostsOK
<1>5. UNCHANGED <<remote, gateVars, rowVars>> => RowsOK'
  BY <1>1 DEF RowsOK, rowVars, gateVars
<1>6. UNCHANGED fileVars => FilesOK'
  BY <1>1 DEF FilesOK, fileVars, RoutersServed
<1>7. UNCHANGED file /\ middlewares' \in (SUBSET Entry) \cup {NoSection} => FilesOK'
  BY <1>1 DEF FilesOK, RoutersServed
<1>8. middlewares \in (SUBSET Entry) \cup {NoSection}
  BY <1>1 DEF FilesOK
<1>9. CASE updateUserRow(h)
  <2>1. t.of \in Users
    BY <1>2, <1>9 DEF updateUserRow, soundTask, UserOps
  <2>2. /\ [t EXCEPT !.op = "restoreUser", !.at = "mwRead"] \in Task
        /\ soundTask([t EXCEPT !.op = "restoreUser", !.at = "mwRead"])
    BY <1>2, <2>1 DEF Task, Ops, Awaits, soundTask, DomainOps, RedirectOps, UserOps,
                      DomainStages
  <2>3. TasksOK' /\ GhostsOK'
    BY <1>3, <1>4, <1>9, <2>2 DEF updateUserRow
  <2> QED
    BY <1>5, <1>6, <1>9, <2>3, Parts DEF updateUserRow
<1>10. CASE deleteRow(h)
  <2>1. /\ [t EXCEPT !.at = "mwRead"] \in Task
        /\ soundTask([t EXCEPT !.at = "mwRead"])
    BY <1>2, <1>10 DEF deleteRow, Task, Awaits, soundTask, RedirectOps, UserOps,
                       DomainStages
  <2>2. TasksOK' /\ GhostsOK'
    BY <1>3, <1>4, <1>10, <2>1 DEF deleteRow, goto
  <2>3. RowsOK'
    BY <1>1, <1>10 DEF deleteRow, RowsOK, gateVars
  <2> QED
    BY <1>6, <1>10, <2>2, <2>3, Parts DEF deleteRow
<1>11. CASE readMiddlewares(h)
  <2>1. t.op \in RedirectOps \cup UserOps \cup {"deleteApp"}
    BY <1>2, <1>11 DEF readMiddlewares, at, soundTask
  <2>2. ASSUME NEW stage \in {"mwWrite", "appRead"},
               stage = "appRead" => t.op # "deleteApp"
        PROVE  /\ [t EXCEPT !.mw = middlewares, !.at = stage] \in Task
               /\ soundTask([t EXCEPT !.mw = middlewares, !.at = stage])
    <3>1. [t EXCEPT !.mw = middlewares, !.at = stage] \in Task
      BY <1>2, <1>8, <2>2 DEF Task, Steps
    <3> QED
      BY <1>2, <2>1, <2>2, <3>1 DEF soundTask, DomainStages, Task
  <2>3. /\ [t EXCEPT !.at = "rm"] \in Task
        /\ soundTask([t EXCEPT !.at = "rm"])
    BY <1>2 DEF Task, Awaits, soundTask, DomainStages
  <2>4. TasksOK' /\ GhostsOK'
    BY <1>3, <1>4, <1>11, <2>2, <2>3 DEF readMiddlewares
  <2> QED
    BY <1>5, <1>6, <1>11, <2>4, Parts DEF readMiddlewares
<1>12. ASSUME t.at \in {"appRead", "fileWrite"} \/ t.op \in RedirectOps \cup UserOps
       PROVE  t.op \in RedirectOps \cup UserOps /\ appOf[t.of] \in Apps
  BY <1>2, <1>12, IdsAssumption DEF soundTask
<1>13. CASE readApp(h)
  <2>1. t.op \in RedirectOps \cup UserOps /\ appOf[t.of] \in Apps
    BY <1>12, <1>13 DEF readApp, at
  <2>2. \A cfg \in Config : served(cfg) =>
          /\ [t EXCEPT !.at = "mwWrite", !.cfg = cfg] \in Task
          /\ soundTask([t EXCEPT !.at = "mwWrite", !.cfg = cfg])
    BY <1>2, <2>1 DEF Task, Steps, soundTask, DomainStages
  <2>3. LET cfg == loadOrCreateConfig(file[appOf[t.of]]) IN cfg \in Config /\ served(cfg)
    BY <1>1, <2>1, LoadServed DEF FilesOK, RoutersServed
  <2>4. TasksOK' /\ GhostsOK'
    BY <1>3, <1>13, <2>2, <2>3, EmptyServed DEF readApp
  <2> QED
    BY <1>5, <1>6, <1>13, <2>4, Parts DEF readApp
<1>14. t.op = "changeUser" => /\ [t EXCEPT !.at = "row"] \in Task
                              /\ soundTask([t EXCEPT !.at = "row"])
  BY <1>2 DEF Task, Awaits, soundTask, DomainStages
<1>15. ASSUME UNCHANGED raced,
              \/ proceed(h) /\ UNCHANGED faults
              \/ failAndProceed(h)
       PROVE  TasksOK' /\ GhostsOK'
  BY <1>3, <1>4, <1>14, <1>15 DEF proceed, failAndProceed, goto
<1>16. CASE writeAttachment(h)
  <2>1. t.op \in RedirectOps \cup UserOps \cup {"deleteApp"}
    BY <1>2, <1>16 DEF writeAttachment, at, soundTask
  <2>2. /\ afterMiddlewares(t) \in {"rm", "end", "fileWrite"}
        /\ afterMiddlewares(t) = "fileWrite" => t.op # "deleteApp"
    BY DEF afterMiddlewares
  <2>3. ASSUME NEW stage \in {"rm", "fileWrite"},
               stage = "fileWrite" => t.op # "deleteApp"
        PROVE  /\ [t EXCEPT !.at = stage] \in Task
               /\ soundTask([t EXCEPT !.at = stage])
    BY <1>2, <2>1, <2>3 DEF Task, Awaits, Steps, soundTask, DomainStages
  <2>4. TasksOK' /\ GhostsOK'
    BY <1>3, <1>15, <1>16, <2>2, <2>3 DEF writeAttachment, goto
  <2>5. FilesOK'
    BY <1>2, <1>7, <1>8, <1>16, <2>1, MwEditType DEF writeAttachment
  <2> QED
    BY <1>5, <1>16, <2>4, <2>5, Parts DEF writeAttachment
<1>17. CASE writeApp(h)
  <2>1. t.op \in RedirectOps \cup UserOps /\ appOf[t.of] \in Apps
    BY <1>12, <1>17 DEF writeApp
  <2>2. appEdit(t) \in Config /\ served(appEdit(t))
    BY <1>2, <2>1, AppEditServed
  <2>3. FilesOK'
    <3>1. CASE UNCHANGED file
      BY <1>7, <1>8, <1>17, <3>1 DEF writeApp
    <3>2. CASE file' = [file EXCEPT ![appOf[t.of]] =
                          IF t.at = "rm" THEN NoFile ELSE appEdit(t)]
      <4>1. file' \in [Apps -> Config \cup {NoFile}]
        BY <1>1, <2>1, <2>2, <3>2 DEF FilesOK
      <4>2. ASSUME NEW a \in Apps, file'[a] # NoFile PROVE served(file'[a])
        BY <1>1, <2>1, <2>2, <3>2, <4>2 DEF FilesOK, RoutersServed
      <4> QED
        BY <1>1, <1>17, <4>1, <4>2 DEF writeApp, FilesOK, RoutersServed
    <3> QED
      BY <1>17, <3>1, <3>2 DEF writeApp
  <2>4. RowsOK'
    <3>1. t.op = "addUser" => t.of \in Users
      BY <1>2 DEF soundTask, UserOps
    <3> QED
      BY <1>1, <1>17, <3>1 DEF writeApp, commitUser, RowsOK, gateVars
  <2>5. TasksOK' /\ GhostsOK'
    <3>1. ASSUME raced' \in BOOLEAN, proceed(h), UNCHANGED faults
          PROVE  TasksOK' /\ GhostsOK'
      <4>1. CASE t.op = "changeUser"
        <5>1. TasksOK'
          BY <1>1, <1>14, <3>1, <4>1 DEF proceed, goto, continue, TasksOK
        <5> QED
          BY <1>1, <3>1, <4>1, <5>1 DEF proceed, goto, continue, GhostsOK
      <4>2. CASE t.op # "changeUser"
        BY <1>1, <3>1, <4>2, Ends DEF proceed
      <4> QED
        BY <4>1, <4>2
    <3>2. (raced \/ loadOrCreateConfig(file[appOf[t.of]]) # t.cfg) \in BOOLEAN
      OBVIOUS
    <3> QED
      BY <1>15, <1>17, <3>1, <3>2 DEF writeApp
  <2> QED
    BY <2>3, <2>4, <2>5, Parts
<1> QED
  BY <1>9, <1>10, <1>11, <1>13, <1>16, <1>17

LEMMA DeleteStep ==
  ASSUME IInv, NEW h \in Handlers, deleteApplicationRow(h) \/ removeTraefikConfig(h)
  PROVE  IInv'
<1> DEFINE t == task[h]
<1>1. TasksOK /\ RowsOK /\ FilesOK /\ GhostsOK
  BY Parts
<1>2. t \in Task /\ soundTask(t) /\ t.op = "deleteApp" /\ t.of \in Apps
  BY <1>1 DEF TasksOK, soundTask, deleteApplicationRow, removeTraefikConfig
<1>3. CASE deleteApplicationRow(h)
  <2>1. /\ [t EXCEPT !.at = "mwRead"] \in Task
        /\ soundTask([t EXCEPT !.at = "mwRead"])
    BY <1>2 DEF Task, Awaits, soundTask, DomainStages
  <2>2. TasksOK' /\ GhostsOK'
    BY <1>1, <1>3, <2>1, Moves DEF deleteApplicationRow, goto
  <2>3. RowsOK'
    BY <1>1, <1>3 DEF deleteApplicationRow, RowsOK, gateVars
  <2>4. FilesOK'
    BY <1>1, <1>3 DEF deleteApplicationRow, FilesOK, fileVars, RoutersServed
  <2> QED
    BY <2>2, <2>3, <2>4, Parts
<1>4. CASE removeTraefikConfig(h)
  <2>1. TasksOK' /\ GhostsOK'
    BY <1>1, <1>4, Ends DEF removeTraefikConfig, GhostsOK
  <2>2. RowsOK'
    BY <1>1, <1>4 DEF removeTraefikConfig, RowsOK, rowVars, gateVars
  <2>3. FilesOK'
    BY <1>1, <1>2, <1>4 DEF removeTraefikConfig, FilesOK, RoutersServed
  <2> QED
    BY <2>1, <2>2, <2>3, Parts
<1> QED
  BY <1>3, <1>4

-----------------------------------------------------------------------------
LEMMA InitInvariant == Init => IInv
<1> SUFFICES ASSUME Init PROVE IInv
  OBVIOUS
<1>1. RowsOK
  BY ShapesAssumption DEF Init, RowsOK
<1>2. TasksOK
  BY NowhereSound DEF Init, TasksOK
<1>3. GhostsOK
  <2>1. 0 \in 0..MaxFaults /\ 0 \in 0..MaxRequests
    BY BoundsAssumption
  <2>2. raced = FALSE /\ calm = TRUE /\ faults = 0 /\ requests = 0
    BY DEF Init
  <2> QED
    BY <2>1, <2>2 DEF GhostsOK
<1>4. ASSUME NEW a \in Apps, rendered(a) # NoFile
      PROVE  rendered(a) \in Config /\ served(rendered(a))
  <2> DEFINE D == {d \in Enabled : appOf[d] = a}
  <2>1. D \subseteq Domains /\ \A d \in D : domains[d] \in Settings \cup {NoDomain}
    BY <1>1 DEF Enabled, RowsOK
  <2>2. rendered(a) = [routers  |-> UNION {routersFor(d, domains[d], attached(a)) : d \in D},
                       services |-> D]
    BY <1>4 DEF rendered
  <2>3. attached(a) \in SUBSET Reference
    BY AttachedType
  <2>4. \A d \in D :
          /\ routersFor(d, domains[d], attached(a)) \in SUBSET Router
          /\ \A x \in routersFor(d, domains[d], attached(a)) : x.of = d
          /\ \A x \in routersFor(d, domains[d], attached(a)) : x.secure =>
               \E y \in routersFor(d, domains[d], attached(a)) :
                 y.of = x.of /\ ~ y.secure
    BY <2>1, <2>3, RoutersForType
  <2>5. rendered(a) \in Config
    BY <2>1, <2>2, <2>4 DEF Config
  <2>6. ASSUME NEW x \in rendered(a).routers
        PROVE  /\ x.of \in rendered(a).services
               /\ x.secure => \E y \in rendered(a).routers : y.of = x.of /\ ~ y.secure
    <3>1. PICK d \in D : x \in routersFor(d, domains[d], attached(a))
      BY <2>2, <2>6
    <3> QED
      BY <2>2, <2>4, <3>1
  <2> QED
    BY <2>5, <2>6 DEF served
<1>5. FilesOK
  <2>1. middlewares \in SUBSET Entry
    BY <1>1, EntryNames DEF Init, RowsOK, Enabled
  <2>2. file \in [Apps -> Config \cup {NoFile}]
    BY <1>4 DEF Init
  <2>3. RoutersServed
    BY <1>4 DEF Init, RoutersServed
  <2> QED
    BY <2>1, <2>2, <2>3 DEF FilesOK
<1> QED
  BY <1>1, <1>2, <1>3, <1>5, Parts

LEMMA StepInvariant == IInv /\ [Next]_vars => IInv'
<1> SUFFICES ASSUME IInv, [Next]_vars PROVE IInv'
  OBVIOUS
<1>1. ASSUME NEW h \in Handlers, Arrive(h) \/ Work(h) PROVE IInv'
  BY <1>1, ArriveStep, DomainStep, AttachmentStep, DeleteStep DEF Work
<1>2. ASSUME NEW r \in Redirects, commitRedirect(r) PROVE IInv'
  <2>1. TasksOK' /\ GhostsOK' /\ FilesOK'
    BY <1>2, Parts
       DEF commitRedirect, TasksOK, GhostsOK, FilesOK, fileVars, RoutersServed
  <2>2. RowsOK'
    BY <1>2, Parts DEF commitRedirect, RowsOK, gateVars
  <2> QED
    BY <2>1, <2>2, Parts
<1>3. CASE setForwardAuthSettings \/ removeForwardAuthSettings
  <2>1. TasksOK' /\ GhostsOK' /\ FilesOK'
    <3>1. /\ UNCHANGED <<file, middlewares, task, raced, calm, faults>>
          /\ requests < MaxRequests /\ requests' = requests + 1
      BY <1>3 DEF setForwardAuthSettings, removeForwardAuthSettings, saveAuthDomain, fileVars
    <3>2. GhostsOK'
      BY <3>1, Parts, BoundsAssumption DEF GhostsOK
    <3>3. TasksOK' /\ FilesOK'
      BY <3>1, Parts DEF TasksOK, FilesOK, RoutersServed
    <3> QED
      BY <3>2, <3>3
  <2>2. RowsOK'
    BY <1>3, Parts
       DEF setForwardAuthSettings, removeForwardAuthSettings, saveAuthDomain, RowsOK,
           rowVars
  <2> QED
    BY <2>1, <2>2, Parts
<1>4. CASE UNCHANGED vars
  <2>1. TasksOK' /\ GhostsOK' /\ FilesOK' /\ RowsOK'
    BY <1>4, Parts DEF vars, gateVars, rowVars, fileVars, TasksOK, GhostsOK, FilesOK, RowsOK,
                       RoutersServed
  <2> QED
    BY <2>1, Parts
<1> QED
  BY <1>1, <1>2, <1>3, <1>4 DEF Next

\* Rows, files and what requests have read keep their types.
THEOREM TypeCorrect == Spec => []TypeOK
<1>1. IInv => TypeOK
  BY DEF IInv
<1> QED
  BY InitInvariant, StepInvariant, <1>1, PTL DEF Spec

\* For any number of requests at a time, applications, domains, redirects and
\* users, on both kinds of server and whatever fails: no file Traefik reads has
\* a router without its service, or a websecure router without its web router.
THEOREM FilesWhole == Spec => []RoutersServed
<1>1. IInv => RoutersServed
  BY DEF IInv
<1> QED
  BY InitInvariant, StepInvariant, <1>1, PTL DEF Spec

-----------------------------------------------------------------------------
(* The inductive invariant behind RoutersAgree and SaveRepairs             *)

\* The kinds of router d has among the routers S: web, websecure.
secures(S, d) == {x.secure : x \in {y \in S : y.of = d}}

\* The kinds its row asks for.
wanted(row) == {s \in BOOLEAN : exposed(row) /\ (s => row.https)}

routers(a) == loadOrCreateConfig(file[a]).routers
shown(d)   == secures(routers(appOf[d]), d)

\* A request of one of these kinds, about x, has changed the rows and will
\* change the file.
past(ops, x) ==
  \E h \in Handlers : task[h].op \in ops /\ task[h].of = x /\ task[h].at # "row"

\* The rows of an application go with it, and a request that works on what has
\* no row yet, or no longer, is the only one that can bring it back.
RowsKept ==
  /\ \A d \in Domains : appOf[d] \notin apps => domains[d] = NoDomain
  /\ \A h \in Handlers :
       LET t == task[h] IN
       /\ t.op = "create" =>
            /\ domains[t.of] = NoDomain /\ appOf[t.of] \in apps
            /\ \A g \in Handlers \ {h} :
                 task[g].op \in {"create", "delete"} => task[g].of # t.of
       /\ t.op = "delete" /\ t.at # "row" => domains[t.of] = NoDomain
       /\ t.op = "deleteApp" /\ t.at # "row" => t.of \notin apps

\* What a handler works with at the stages that tell its operations apart.
StageKept(t) ==
  /\ t.at = "reread" => t.op \in {"update", "toggle"}
  /\ t.op = "delete" => t.row = NoDomain
  /\ t.op \in {"update", "toggle"} => t.row # NoDomain
  /\ t.op \in DomainOps /\ t.at = "rm" => edited(t).routers = {}
  /\ t.op \in RedirectOps \cup UserOps /\ t.at = "rm" => t.cfg = Empty

StagesKept == \A h \in Handlers : StageKept(task[h])

\* The routers of a domain are what its row asks for, or a request is about to
\* make them so.
Shown ==
  ~ raced /\ faults = 0 =>
    \A d \in Domains :
      /\ appOf[d] \notin apps => shown(d) = {} \/ past({"deleteApp"}, appOf[d])
      /\ appOf[d] \in apps /\ domains[d] = NoDomain =>
           shown(d) = {} \/ past({"delete"}, d)
      /\ domains[d] # NoDomain =>
           shown(d) = wanted(domains[d]) \/ past({"update", "toggle"}, d)

\* From its last read of the rows on, a handler that runs alone knows them.
Loaded == (DomainStages \cup {"rm"}) \ {"reread", "app"}

CleanKnows ==
  \A h \in Handlers :
    LET t == task[h] IN
    t.clean /\ t.op \in DomainOps =>
      /\ quietBut({h})
      /\ t.at \in Loaded => t.seen = attached(appOf[t.of])
      /\ t.op \in {"update", "toggle"} /\ t.at \in Loaded \cup {"app"} =>
           t.row = domains[t.of]

Agreement == RowsKept /\ StagesKept /\ Shown /\ CleanKnows

-----------------------------------------------------------------------------
LEMMA WantedRouters ==
  ASSUME NEW d \in Domains, NEW row \in Settings \cup {NoDomain},
         NEW seen \in SUBSET Reference
  PROVE  secures(routersFor(d, row, seen), d) = wanted(row)
<1>1. \A s \in BOOLEAN : /\ createRouterConfig(d, row, seen, s).of = d
                         /\ createRouterConfig(d, row, seen, s).secure = s
  BY DEF createRouterConfig
<1>2. CASE exposed(row)
  <2>1. routersFor(d, row, seen) =
          {createRouterConfig(d, row, seen, secure) :
             secure \in {s \in BOOLEAN : s => row.https}}
    BY <1>2 DEF routersFor
  <2> HIDE DEF createRouterConfig
  <2>2. ASSUME NEW s \in secures(routersFor(d, row, seen), d) PROVE s \in wanted(row)
    BY <1>1, <1>2, <2>1 DEF secures, wanted
  <2>3. ASSUME NEW s \in wanted(row) PROVE s \in secures(routersFor(d, row, seen), d)
    BY <1>1, <1>2, <2>1 DEF secures, wanted
  <2> QED
    BY <2>2, <2>3
<1>3. CASE ~ exposed(row)
  BY <1>3 DEF routersFor, secures, wanted
<1> QED
  BY <1>2, <1>3

\* manageDomain and removeDomain give a domain the routers its row asks for,
\* and leave those of the others alone.
LEMMA SetDomainRouters ==
  ASSUME NEW cfg \in Config, NEW d \in Domains,
         NEW row \in Settings \cup {NoDomain}, NEW seen \in SUBSET Reference
  PROVE  /\ {x \in setDomain(cfg, d, row, seen).routers : x.of = d} = routersFor(d, row, seen)
         /\ secures(setDomain(cfg, d, row, seen).routers, d) = wanted(row)
         /\ \A e \in Domains \ {d} :
              secures(setDomain(cfg, d, row, seen).routers, e) = secures(cfg.routers, e)
<1> DEFINE new  == setDomain(cfg, d, row, seen).routers
           mine == routersFor(d, row, seen)
<1>1. new = {x \in cfg.routers : x.of # d} \cup mine
  BY DEF setDomain
<1>2. \A x \in mine : x.of = d
  BY RoutersForType
<1> HIDE DEF new, mine
<1>3. {x \in new : x.of = d} = mine
  BY <1>1, <1>2
<1>4. \A x \in mine : x \in new
  BY <1>1
<1>5. secures(new, d) = secures(mine, d)
  BY <1>2, <1>3 DEF secures
<1>6. secures(mine, d) = wanted(row)
  BY WantedRouters DEF mine
<1>7. ASSUME NEW e \in Domains \ {d} PROVE secures(new, e) = secures(cfg.routers, e)
  <2>1. {x \in new : x.of = e} = {x \in cfg.routers : x.of = e}
    BY <1>1, <1>2
  <2> QED
    BY <2>1 DEF secures
<1> QED
  BY <1>3, <1>5, <1>6, <1>7 DEF new, mine

LEMMA Relabelled ==
  ASSUME NEW S, NEW F, NEW d, \A x \in S : F[x].of = x.of /\ F[x].secure = x.secure
  PROVE  secures({F[x] : x \in S}, d) = secures(S, d)
<1>1. ASSUME NEW s \in secures(S, d) PROVE s \in secures({F[x] : x \in S}, d)
  <2>1. PICK x \in S : x.of = d /\ s = x.secure
    BY <1>1 DEF secures
  <2>2. F[x].of = d /\ F[x].secure = s
    BY <2>1
  <2> QED
    BY <2>2 DEF secures
<1>2. ASSUME NEW s \in secures({F[x] : x \in S}, d) PROVE s \in secures(S, d)
  <2>1. PICK x \in S : F[x].of = d /\ s = F[x].secure
    BY <1>2 DEF secures
  <2> QED
    BY <2>1 DEF secures
<1> QED
  BY <1>1, <1>2

\* The edits of a redirect or a user change what routers use and nothing else.
LEMMA MiddlewareRouters ==
  ASSUME NEW cfg \in Config, NEW ref, NEW d
  PROVE  /\ secures(addMiddleware(cfg, ref).routers, d) = secures(cfg.routers, d)
         /\ secures(deleteMiddleware(cfg, ref).routers, d) = secures(cfg.routers, d)
<1> DEFINE R    == cfg.routers
           more == {[x EXCEPT !.uses = @ \cup {ref}] : x \in R}
           less == {[x EXCEPT !.uses = @ \ {ref}] : x \in R}
<1>1. R \in SUBSET Router
  BY DEF Config
<1>2. addMiddleware(cfg, ref).routers = more /\ deleteMiddleware(cfg, ref).routers = less
  BY DEF Config, addMiddleware, deleteMiddleware
<1>3. \A x \in R : \A U : /\ [x EXCEPT !.uses = U].of = x.of
                          /\ [x EXCEPT !.uses = U].secure = x.secure
  BY <1>1 DEF Router
<1>4. secures(more, d) = secures(R, d)
  <2> DEFINE F == [x \in R |-> [x EXCEPT !.uses = @ \cup {ref}]]
  <2>1. \A x \in R : F[x].of = x.of /\ F[x].secure = x.secure
    BY <1>3
  <2>2. more = {F[x] : x \in R}
    OBVIOUS
  <2> HIDE DEF F, more
  <2> QED
    BY <2>1, <2>2, Relabelled
<1>5. secures(less, d) = secures(R, d)
  <2> DEFINE F == [x \in R |-> [x EXCEPT !.uses = @ \ {ref}]]
  <2>1. \A x \in R : F[x].of = x.of /\ F[x].secure = x.secure
    BY <1>3
  <2>2. less = {F[x] : x \in R}
    OBVIOUS
  <2> HIDE DEF F, less
  <2> QED
    BY <2>1, <2>2, Relabelled
<1> QED
  BY <1>2, <1>4, <1>5

\* Apart from the files: what a handler does to its task, and that it is busy.
moved(t, u) == /\ u.of = t.of
               /\ u.op = t.op \/ (t.op \in UserOps /\ u.op \in UserOps)
               /\ u.at = "row" => t.op = "changeUser"
               /\ u.clean => t.clean

LEMMA WorkMoves ==
  ASSUME IInv, NEW h \in Handlers, Work(h)
  PROVE  /\ task[h].op # "none"
         /\ \A g \in Handlers \ {h} : task'[g] = task[g]
         /\ task'[h] = nowhere \/ moved(task[h], task'[h])
         /\ TasksOK'
<1> DEFINE t == task[h]
<1>1. /\ task \in [Handlers -> Task] /\ t \in Task /\ soundTask(t)
      /\ TasksOK'
  BY Parts, DomainStep, AttachmentStep, DeleteStep DEF TasksOK, Work
<1>2. t.op # "none"
  BY <1>1 DEF Work, writeRow, rereadRow, findApplication, load, readForPaths, writePaths,
     queryAuthDomain, readForGate, writeGate, writeDomain, updateUserRow, deleteRow,
     readMiddlewares,
     readApp, writeAttachment, writeApp, deleteApplicationRow, removeTraefikConfig,
     at, soundTask, DomainStages, DomainOps, RedirectOps, UserOps
<1>3. ASSUME NEW c \in Task, task' = [task EXCEPT ![h] = c], c = nowhere \/ moved(t, c)
      PROVE  /\ \A g \in Handlers \ {h} : task'[g] = task[g]
             /\ task'[h] = nowhere \/ moved(task[h], task'[h])
  BY <1>1, <1>3
<1>4. ASSUME \/ finish(h) \/ failAndThrow(h)
      PROVE  /\ \A g \in Handlers \ {h} : task'[g] = task[g]
             /\ task'[h] = nowhere \/ moved(task[h], task'[h])
  BY <1>3, <1>4, NowhereSound DEF finish, failAndThrow
<1>5. ASSUME NEW c, moved(t, c), continue(h, c)
      PROVE  /\ \A g \in Handlers \ {h} : task'[g] = task[g]
             /\ task'[h] = nowhere \/ moved(task[h], task'[h])
  BY <1>1, <1>5 DEF continue
<1>6. ASSUME NEW stage, stage # "row" \/ t.op = "changeUser", NEW mw, NEW seen, NEW cfg, NEW row
      PROVE  /\ moved(t, [t EXCEPT !.at = stage])
             /\ moved(t, [t EXCEPT !.at = stage, !.mw = mw])
             /\ moved(t, [t EXCEPT !.mw = mw, !.at = stage])
             /\ moved(t, [t EXCEPT !.at = stage, !.seen = seen])
             /\ moved(t, [t EXCEPT !.at = stage, !.cfg = cfg])
             /\ moved(t, [t EXCEPT !.at = stage, !.row = row])
  BY <1>1, <1>6 DEF moved, Task
<1>7. ASSUME NEW stage, stage # "row" \/ t.op = "changeUser", NEW mw, NEW cfg
      PROVE  /\ moved(t, [[t EXCEPT !.at = stage] EXCEPT !.clean = FALSE])
             /\ moved(t, [[t EXCEPT !.at = stage, !.mw = mw] EXCEPT !.clean = FALSE])
             /\ moved(t, [[t EXCEPT !.at = stage, !.cfg = cfg] EXCEPT !.clean = FALSE])
  BY <1>1, <1>7 DEF moved, Task
<1>8. /\ lastStep(t) # "row" /\ afterPaths(t) # "row" /\ afterMiddlewares(t) # "row"
  BY DEF lastStep, afterPaths, afterMiddlewares
<1> HIDE DEF moved
<1>9. CASE writeRow(h) \/ rereadRow(h) \/ findApplication(h)
  BY <1>1, <1>2, <1>4, <1>5, <1>6, <1>9 DEF writeRow, rereadRow, findApplication, throw, goto
<1>10. CASE load(h)
  BY <1>1, <1>2, <1>5, <1>6, <1>7, <1>10 DEF load, fail
<1>11. CASE readForPaths(h)
  BY <1>1, <1>2, <1>5, <1>6, <1>7, <1>8, <1>11 DEF readForPaths, fail, goto
<1>12. CASE queryAuthDomain(h) \/ readForGate(h)
  BY <1>1, <1>2, <1>5, <1>6, <1>7, <1>8, <1>12 DEF queryAuthDomain, readForGate, fail, goto
<1>13. CASE writePaths(h) \/ writeGate(h)
  BY <1>1, <1>2, <1>5, <1>6, <1>7, <1>8, <1>13
     DEF writePaths, writeGate, writeMiddlewares, fail, goto
<1>14. CASE writeDomain(h)
  BY <1>1, <1>2, <1>4, <1>14 DEF writeDomain
<1>15. CASE updateUserRow(h)
  <2>1. t.op = "changeUser" =>
          moved(t, [t EXCEPT !.op = "restoreUser", !.at = "mwRead"])
    BY <1>1 DEF moved, Task, UserOps
  <2> QED
    BY <1>1, <1>2, <1>4, <1>5, <1>15, <2>1 DEF updateUserRow
<1>16. CASE deleteRow(h)
  BY <1>1, <1>2, <1>4, <1>5, <1>6, <1>16 DEF deleteRow, goto
<1>17. CASE readMiddlewares(h)
  BY <1>1, <1>2, <1>4, <1>5, <1>6, <1>7, <1>17 DEF readMiddlewares, fail
<1>18. CASE readApp(h)
  BY <1>1, <1>2, <1>5, <1>6, <1>7, <1>18 DEF readApp, fail
<1>19. ASSUME proceed(h) \/ failAndProceed(h)
       PROVE  /\ \A g \in Handlers \ {h} : task'[g] = task[g]
              /\ task'[h] = nowhere \/ moved(task[h], task'[h])
  BY <1>4, <1>5, <1>6, <1>7, <1>19 DEF proceed, failAndProceed, fail, goto
<1>20. CASE writeAttachment(h)
  BY <1>1, <1>2, <1>5, <1>6, <1>7, <1>8, <1>19, <1>20 DEF writeAttachment, fail, goto
<1>21. CASE writeApp(h)
  BY <1>1, <1>2, <1>19, <1>21 DEF writeApp
<1>22. CASE deleteApplicationRow(h) \/ removeTraefikConfig(h)
  BY <1>1, <1>2, <1>4, <1>5, <1>6, <1>22
     DEF deleteApplicationRow, removeTraefikConfig, goto
<1> QED
  BY <1>9, <1>10, <1>11, <1>12, <1>13, <1>14, <1>15, <1>16, <1>17, <1>18, <1>20, <1>21,
     <1>22 DEF Work

\* What a request finds and begins with when it arrives.
begun(h, u) ==
  /\ u.op \in Ops \ {"none"}
  /\ u.at = IF u.op = "create" THEN "app"
            ELSE IF u.op \in DomainOps \cup {"dropRedirect", "dropUser", "deleteApp"}
            THEN "row" ELSE "mwRead"
  /\ u.clean = quietBut({h})
  /\ u.cfg = Empty /\ u.mw = NoSection
  /\ u.op = "create" => /\ domains[u.of] = NoDomain /\ appOf[u.of] \in apps
                        /\ ~ busyWith(u.of)
  /\ u.op \in {"update", "toggle"} => u.row # NoDomain
  /\ u.op = "delete" => domains[u.of] # NoDomain /\ u.row = NoDomain
  /\ u.op = "deleteApp" => u.of \in apps /\ u.seen = attached(u.of)
  /\ u.op # "deleteApp" => u.seen = {}

LEMMA ArriveMoves ==
  ASSUME IInv, NEW h \in Handlers, Arrive(h)
  PROVE  /\ task[h].op = "none"
         /\ \A g \in Handlers \ {h} : task'[g] = [task[g] EXCEPT !.clean = FALSE]
         /\ begun(h, task'[h])
         /\ UNCHANGED <<remote, gateVars, apps, domains, users, fileVars, raced, calm, faults>>
         /\ redirects' # redirects => task'[h].op = "addRedirect"
         /\ TasksOK'
<1> DEFINE Goal == /\ task[h].op = "none"
                   /\ \A g \in Handlers \ {h} : task'[g] = [task[g] EXCEPT !.clean = FALSE]
                   /\ begun(h, task'[h])
                   /\ UNCHANGED <<remote, gateVars, apps, domains, users, fileVars, raced, calm,
                                  faults>>
                   /\ redirects' # redirects => task'[h].op = "addRedirect"
<1>1. TasksOK' /\ task \in [Handlers -> Task]
  BY Parts, ArriveStep DEF TasksOK
<1>2. ASSUME NEW t, arrive(h, t)
      PROVE  /\ task[h].op = "none"
             /\ \A g \in Handlers \ {h} : task'[g] = [task[g] EXCEPT !.clean = FALSE]
             /\ task'[h] = [t EXCEPT !.clean = quietBut({h})]
             /\ UNCHANGED <<remote, gateVars, fileVars, raced, calm, faults>>
  BY <1>2 DEF arrive, idle
<1>3. ASSUME NEW op \in Ops \ {"none"}, NEW stage, NEW x, NEW row,
             arrive(h, newTask(op, stage, x, row)),
             stage = (IF op = "create" THEN "app"
                      ELSE IF op \in DomainOps \cup {"dropRedirect", "dropUser"} THEN "row"
                      ELSE "mwRead"),
             op = "create" => /\ domains[x] = NoDomain /\ appOf[x] \in apps
                              /\ ~ busyWith(x),
             op \in {"update", "toggle"} => row # NoDomain,
             op = "delete" => domains[x] # NoDomain /\ row = NoDomain,
             op # "deleteApp",
             UNCHANGED <<apps, domains, users>>,
             redirects' # redirects => op = "addRedirect"
      PROVE  Goal
  <2> DEFINE u == task'[h]
  <2>1. u = [newTask(op, stage, x, row) EXCEPT !.clean = quietBut({h})]
    BY <1>2, <1>3
  <2>2. /\ u.op = op /\ u.at = stage /\ u.of = x /\ u.row = row /\ u.seen = {}
        /\ u.cfg = Empty /\ u.mw = NoSection /\ u.clean = quietBut({h})
    BY <2>1 DEF newTask
  <2>3. begun(h, u)
    BY <1>3, <2>2 DEF begun
  <2> QED
    BY <1>2, <1>3, <2>2, <2>3
<1>o. /\ Ops = {"create", "update", "toggle", "delete", "addRedirect", "editRedirect",
               "dropRedirect", "addUser", "dropUser", "changeUser", "restoreUser",
               "deleteApp", "none"}
      /\ DomainOps = {"create", "update", "toggle", "delete"}
  BY DEF Ops, DomainOps, RedirectOps, UserOps
<1> HIDE DEF Goal
<1>4. ASSUME NEW d \in Domains, NEW shape \in Shapes,
             createDomain(h, d, shape) \/ updateDomain(h, d, shape)
      PROVE  Goal
  <2>1. shape # NoDomain
    BY IdsAssumption, ShapesAssumption
  <2> QED
    BY <1>3, <1>o, <1>4, <2>1 DEF createDomain, updateDomain, begin, rowVars
<1>5. ASSUME NEW d \in Domains, toggleEnable(h, d) \/ deleteDomain(h, d) PROVE Goal
  <2>1. ASSUME domains[d] # NoDomain
        PROVE  [domains[d] EXCEPT !.enabled = ~ domains[d].enabled] # NoDomain
    <3>1. domains[d] \in Settings
      BY <2>1, Parts DEF RowsOK
    <3>2. [domains[d] EXCEPT !.enabled = ~ domains[d].enabled] \in Settings
      BY <3>1 DEF Settings
    <3> QED
      BY <3>2, IdsAssumption
  <2> QED
    BY <1>3, <1>o, <1>5, <2>1 DEF toggleEnable, deleteDomain, begin, rowVars
<1>6. ASSUME NEW r \in Redirects, createRedirect(h, r) PROVE Goal
  BY <1>3, <1>o, <1>6 DEF createRedirect
<1>7. ASSUME NEW r \in Redirects, updateRedirect(h, r) \/ removeRedirect(h, r) PROVE Goal
  BY <1>3, <1>o, <1>7 DEF updateRedirect, removeRedirect, begin, rowVars
<1>8. ASSUME NEW u \in Users,
             createSecurity(h, u) \/ deleteSecurity(h, u) \/ updateSecurity(h, u)
      PROVE  Goal
  BY <1>3, <1>o, <1>8 DEF createSecurity, deleteSecurity, updateSecurity, begin, rowVars
<1>9. ASSUME NEW a \in Apps, deleteApplication(h, a) PROVE Goal
  <2> DEFINE u == task'[h]
  <2>1. /\ u = [[newTask("deleteApp", "row", a, NoDomain) EXCEPT !.seen = attached(a)]
                 EXCEPT !.clean = quietBut({h})]
        /\ a \in apps
        /\ UNCHANGED rowVars
    BY <1>2, <1>9 DEF deleteApplication, begin
  <2>2. /\ u.op = "deleteApp" /\ u.at = "row" /\ u.of = a /\ u.seen = attached(a)
        /\ u.cfg = Empty /\ u.mw = NoSection /\ u.clean = quietBut({h})
    BY <2>1 DEF newTask
  <2>3. begun(h, u)
    BY <1>o, <2>1, <2>2 DEF begun
  <2> QED
    BY <1>2, <1>9, <2>1, <2>3 DEF deleteApplication, begin, rowVars, Goal
<1>10. Goal
  BY <1>4, <1>5, <1>6, <1>7, <1>8, <1>9 DEF Arrive
<1> QED
  BY <1>1, <1>10 DEF Goal

-----------------------------------------------------------------------------
LEMMA RowsKeptWork ==
  ASSUME IInv, RowsKept, StagesKept, NEW h \in Handlers, Work(h) PROVE RowsKept'
<1> DEFINE t == task[h]
<1>1. TasksOK /\ RowsOK /\ t \in Task /\ soundTask(t)
  BY Parts DEF TasksOK
<1>2. /\ t.op # "none"
      /\ \A g \in Handlers \ {h} : task'[g] = task[g]
      /\ task'[h] = nowhere \/ moved(t, task'[h])
  BY WorkMoves
<1>3. nowhere.op = "none"
  BY DEF nowhere, newTask
\* Domains without a row get one, and rows and applications go, at three steps.
<1>4. ASSUME UNCHANGED <<apps, domains>>, t.at # "row" \/ t.op \notin {"delete", "deleteApp"}
             \/ task'[h] = nowhere
      PROVE  RowsKept'
  BY <1>1, <1>2, <1>3, <1>4 DEF RowsKept, moved, UserOps
<1>5. ASSUME apps' = apps, task'[h] = nowhere \/ (t.op = "delete" => domains'[t.of] = NoDomain),
             t.op # "deleteApp" \/ task'[h] = nowhere,
             \A d \in Domains : domains[d] = NoDomain => domains'[d] = NoDomain
      PROVE  RowsKept'
  <2>1. \A d \in Domains : appOf[d] \notin apps' => domains'[d] = NoDomain
    BY <1>5 DEF RowsKept
  <2>2. ASSUME NEW g \in Handlers
        PROVE  LET v == task'[g] IN
               /\ v.op = "create" =>
                    /\ domains'[v.of] = NoDomain /\ appOf[v.of] \in apps'
                    /\ \A k \in Handlers \ {g} :
                         task'[k].op \in {"create", "delete"} => task'[k].of # v.of
               /\ v.op = "delete" /\ v.at # "row" => domains'[v.of] = NoDomain
               /\ v.op = "deleteApp" /\ v.at # "row" => v.of \notin apps'
    <3>1. \A k \in Handlers : task'[k].op \in {"create", "delete", "deleteApp"} =>
            task'[k].op = task[k].op /\ task'[k].of = task[k].of
      BY <1>2, <1>3 DEF moved, UserOps
    <3>2. \A k \in Handlers : task[k].op \in {"create", "delete"} => task[k].of \in Domains
      BY <1>1 DEF TasksOK, soundTask, DomainOps
    <3>3. g # h => task'[g] = task[g]
      BY <1>2
    <3>4. ASSUME task'[g].op = "create"
          PROVE  /\ domains'[task'[g].of] = NoDomain /\ appOf[task'[g].of] \in apps'
                 /\ \A k \in Handlers \ {g} :
                      task'[k].op \in {"create", "delete"} => task'[k].of # task'[g].of
      BY <1>5, <3>1, <3>2, <3>4 DEF RowsKept
    <3>5. ASSUME task'[g].op = "delete", task'[g].at # "row"
          PROVE  domains'[task'[g].of] = NoDomain
      BY <1>3, <1>5, <3>1, <3>2, <3>3, <3>5 DEF RowsKept
    <3>6. ASSUME task'[g].op = "deleteApp", task'[g].at # "row"
          PROVE  task'[g].of \notin apps'
      BY <1>3, <1>5, <3>1, <3>3, <3>6 DEF RowsKept
    <3> QED
      BY <3>4, <3>5, <3>6
  <2> QED
    BY <2>1, <2>2 DEF RowsKept
<1>6. CASE writeRow(h)
  <2>1. t.of \in Domains /\ t.op \in {"update", "toggle", "delete"} /\ t.at = "row"
    BY <1>1, <1>6 DEF writeRow, at, soundTask, DomainOps
  <2>2. apps' = apps /\ t.op # "deleteApp"
    BY <1>6, <2>1 DEF writeRow
  <2>3. \A d \in Domains : domains[d] = NoDomain => domains'[d] = NoDomain
    BY <1>1, <1>6, <2>1 DEF writeRow, RowsOK
  <2>4. t.op = "delete" => domains'[t.of] = NoDomain
    BY <1>1, <1>6, <2>1 DEF writeRow, RowsOK, StagesKept, StageKept
  <2> QED
    BY <1>5, <2>2, <2>3, <2>4
<1>7. CASE writeDomain(h)
  <2>1. /\ t.of \in Domains /\ t.op \in DomainOps /\ t.at # "row"
        /\ task'[h] = nowhere /\ apps' = apps
    BY <1>1, <1>2, <1>7, NowhereSound
       DEF writeDomain, at, soundTask, finish, failAndThrow, TasksOK
  <2>2. CASE t.op # "create"
    BY <1>4, <1>7, <2>1, <2>2 DEF writeDomain, commitDomain
  <2>3. CASE t.op = "create"
    <3>1. /\ \A d \in Domains : d # t.of => domains'[d] = domains[d]
          /\ appOf[t.of] \in apps
      BY <1>1, <1>7, <2>1, <2>3 DEF writeDomain, commitDomain, RowsOK, RowsKept
    <3>2. \A g \in Handlers \ {h} : task[g].op \in {"create", "delete"} =>
            task[g].of # t.of /\ task[g].of \in Domains
      BY <1>1, <2>3 DEF RowsKept, TasksOK, soundTask, DomainOps
    <3> QED
      BY <1>2, <1>3, <2>1, <3>1, <3>2 DEF RowsKept
  <2> QED
    BY <2>2, <2>3
<1>8. CASE deleteApplicationRow(h)
  <2>1. /\ t.op = "deleteApp" /\ t.of \in Apps /\ t.at = "row"
        /\ apps' = apps \ {t.of}
        /\ \A d \in Domains : domains'[d] = IF appOf[d] = t.of THEN NoDomain ELSE domains[d]
    BY <1>1, <1>8 DEF deleteApplicationRow, at, soundTask
  <2>2. \A g \in Handlers : task[g].op = "create" => appOf[task[g].of] # t.of
    BY <1>8 DEF deleteApplicationRow, inTransaction
  <2>3. \A g \in Handlers : task[g].op \in {"create", "delete"} => task[g].of \in Domains
    BY <1>1 DEF TasksOK, soundTask, DomainOps
  <2>4. task'[h] = [t EXCEPT !.at = "mwRead"]
    BY <1>1, <1>8 DEF deleteApplicationRow, goto, continue, TasksOK
  <2>5. task'[h].of = t.of /\ task'[h].op = "deleteApp"
    BY <1>1, <2>1, <2>4 DEF Task
  <2> QED
    BY <1>2, <2>1, <2>2, <2>3, <2>5 DEF RowsKept
<1>9. CASE /\ UNCHANGED <<apps, domains>>
           /\ ~ writeRow(h) /\ ~ deleteApplicationRow(h)
  <2>1. t.at = "row" => t.op \notin {"delete", "deleteApp"}
    BY <1>9 DEF Work, rereadRow, findApplication, load, readForPaths, writePaths,
       queryAuthDomain, readForGate, writeGate, writeDomain, updateUserRow, deleteRow,
       readMiddlewares,
       readApp, writeAttachment, writeApp, removeTraefikConfig, at
  <2> QED
    BY <1>4, <1>9, <2>1
<1> QED
  <2>1. writeRow(h) \/ writeDomain(h) \/ deleteApplicationRow(h) \/ UNCHANGED <<apps, domains>>
    BY DEF Work, rereadRow, findApplication, load, readForPaths, writePaths,
       queryAuthDomain, readForGate, writeGate, writeMiddlewares, updateUserRow, deleteRow,
       readMiddlewares,
       readApp, writeAttachment, writeApp, removeTraefikConfig, rowVars, throw
  <2> QED
    BY <1>6, <1>7, <1>8, <1>9, <2>1

LEMMA ArriveOthers ==
  ASSUME IInv, NEW h \in Handlers, Arrive(h)
  PROVE  /\ task \in [Handlers -> Task] /\ task' \in [Handlers -> Task]
         /\ \A g \in Handlers \ {h} :
              /\ task'[g].op = task[g].op /\ task'[g].of = task[g].of
              /\ task'[g].at = task[g].at /\ task'[g].row = task[g].row
              /\ task'[g].seen = task[g].seen /\ task'[g].cfg = task[g].cfg
              /\ task'[g].mw = task[g].mw /\ ~ task'[g].clean
<1>1. task \in [Handlers -> Task] /\ task' \in [Handlers -> Task]
  BY Parts, ArriveStep DEF TasksOK
<1>2. \A g \in Handlers \ {h} : task'[g] = [task[g] EXCEPT !.clean = FALSE]
  BY ArriveMoves
<1> QED
  BY <1>1, <1>2 DEF Task

LEMMA RowsKeptArrive ==
  ASSUME IInv, RowsKept, NEW h \in Handlers, Arrive(h) PROVE RowsKept'
<1> DEFINE u == task'[h]
<1>1. /\ task[h].op = "none" /\ begun(h, u)
      /\ apps' = apps /\ domains' = domains
  BY ArriveMoves
<1>2. \A g \in Handlers \ {h} : /\ task'[g].op = task[g].op /\ task'[g].of = task[g].of
                                /\ task'[g].at = task[g].at
  BY ArriveOthers
<1>3. u.op \in {"delete", "deleteApp"} => u.at = "row"
  BY <1>1 DEF begun, DomainOps
<1>4. ASSUME u.op = "create"
      PROVE  /\ domains[u.of] = NoDomain /\ appOf[u.of] \in apps
             /\ \A g \in Handlers \ {h} :
                  task[g].op \in {"create", "delete"} => task[g].of # u.of
  BY <1>1, <1>4 DEF begun, busyWith, idle
<1>5. u.op = "delete" => domains[u.of] # NoDomain
  BY <1>1 DEF begun
<1>6. ASSUME NEW g \in Handlers
      PROVE  LET v == task'[g] IN
             /\ v.op = "create" =>
                  /\ domains[v.of] = NoDomain /\ appOf[v.of] \in apps
                  /\ \A k \in Handlers \ {g} :
                       task'[k].op \in {"create", "delete"} => task'[k].of # v.of
             /\ v.op = "delete" /\ v.at # "row" => domains[v.of] = NoDomain
             /\ v.op = "deleteApp" /\ v.at # "row" => v.of \notin apps
  <2>1. CASE g = h
    BY <1>2, <1>3, <1>4, <2>1
  <2>2. CASE g # h
    <3>1. task'[g].op = task[g].op /\ task'[g].of = task[g].of /\ task'[g].at = task[g].at
      BY <1>2, <2>2
    <3>2. ASSUME task[g].op = "create", NEW k \in Handlers \ {g},
                 task'[k].op \in {"create", "delete"}
          PROVE  task'[k].of # task[g].of
      <4>1. domains[task[g].of] = NoDomain
        BY <3>2 DEF RowsKept
      <4>2. CASE k = h
        <5>1. u.op = "create" => task[g].of # u.of
          BY <1>4, <2>2, <3>2
        <5> QED
          BY <1>5, <3>2, <4>1, <4>2, <5>1
      <4>3. CASE k # h
        BY <1>2, <3>2, <4>3 DEF RowsKept
      <4> QED
        BY <4>2, <4>3
    <3> QED
      BY <3>1, <3>2 DEF RowsKept
  <2> QED
    BY <2>1, <2>2
<1> QED
  BY <1>1, <1>6 DEF RowsKept

-----------------------------------------------------------------------------
LEMMA StagesKeptArrive ==
  ASSUME IInv, StagesKept, NEW h \in Handlers, Arrive(h) PROVE StagesKept'
<1> DEFINE u == task'[h]
<1>1. begun(h, u) /\ TasksOK'
  BY ArriveMoves
<1>2. u.at \in {"row", "app", "mwRead"}
  BY <1>1 DEF begun
<1>3. ASSUME NEW g \in Handlers PROVE StageKept(task'[g])
  <2>1. CASE g = h
    BY <1>1, <1>2, <2>1 DEF begun, StageKept
  <2>2. CASE g # h
    <3>1. /\ task'[g].op = task[g].op /\ task'[g].of = task[g].of
          /\ task'[g].at = task[g].at /\ task'[g].row = task[g].row
          /\ task'[g].seen = task[g].seen /\ task'[g].cfg = task[g].cfg
      BY ArriveOthers, <2>2
    <3> QED
      BY <3>1 DEF StagesKept, StageKept, edited
  <2> QED
    BY <2>1, <2>2
<1> QED
  BY <1>3 DEF StagesKept, StageKept

\* What the task of a handler becomes when it moves on.
agrees(t, u) == u.op = t.op /\ u.of = t.of /\ u.row = t.row

LEMMA MovesTo ==
  ASSUME TasksOK, NEW h \in Handlers
  PROVE  LET t == task[h]
             u == task'[h]
         IN
         /\ \A stage : goto(h, stage) =>
              /\ agrees(t, u) /\ u.at = stage /\ u.clean = t.clean
              /\ u.seen = t.seen /\ u.cfg = t.cfg /\ u.mw = t.mw
         /\ \A stage, mw : continue(h, [t EXCEPT !.at = stage, !.mw = mw]) =>
              /\ agrees(t, u) /\ u.at = stage /\ u.clean = t.clean
              /\ u.seen = t.seen /\ u.cfg = t.cfg /\ u.mw = mw
         /\ \A stage, mw : continue(h, [t EXCEPT !.mw = mw, !.at = stage]) =>
              /\ agrees(t, u) /\ u.at = stage /\ u.clean = t.clean
              /\ u.seen = t.seen /\ u.cfg = t.cfg /\ u.mw = mw
         /\ \A stage, cfg : continue(h, [t EXCEPT !.at = stage, !.cfg = cfg]) =>
              /\ agrees(t, u) /\ u.at = stage /\ u.clean = t.clean
              /\ u.seen = t.seen /\ u.cfg = cfg /\ u.mw = t.mw
         /\ \A stage, seen : continue(h, [t EXCEPT !.at = stage, !.seen = seen]) =>
              /\ agrees(t, u) /\ u.at = stage /\ u.clean = t.clean
              /\ u.seen = seen /\ u.cfg = t.cfg /\ u.mw = t.mw
         /\ \A stage : fail(h, [t EXCEPT !.at = stage]) =>
              /\ agrees(t, u) /\ u.at = stage /\ u.clean = FALSE
              /\ u.seen = t.seen /\ u.cfg = t.cfg /\ u.mw = t.mw
         /\ \A stage, mw : fail(h, [t EXCEPT !.at = stage, !.mw = mw]) =>
              /\ agrees(t, u) /\ u.at = stage /\ u.clean = FALSE
              /\ u.seen = t.seen /\ u.cfg = t.cfg /\ u.mw = mw
         /\ \A stage, cfg : fail(h, [t EXCEPT !.at = stage, !.cfg = cfg]) =>
              /\ agrees(t, u) /\ u.at = stage /\ u.clean = FALSE
              /\ u.seen = t.seen /\ u.cfg = cfg /\ u.mw = t.mw
         /\ \A stage, row : continue(h, [t EXCEPT !.at = stage, !.row = row]) =>
              /\ u.op = t.op /\ u.of = t.of /\ u.row = row
              /\ u.at = stage /\ u.clean = t.clean
              /\ u.seen = t.seen /\ u.cfg = t.cfg /\ u.mw = t.mw
<1> DEFINE t == task[h]
           u == task'[h]
<1>1. t \in Task /\ task \in [Handlers -> Task]
  BY DEF TasksOK
<1>2. \A c : continue(h, c) => u = c
  BY <1>1 DEF continue
<1>3. \A c : fail(h, c) => u = [c EXCEPT !.clean = FALSE]
  BY <1>2 DEF fail
<1>4. ASSUME NEW stage, goto(h, stage)
      PROVE  /\ agrees(t, u) /\ u.at = stage /\ u.clean = t.clean
             /\ u.seen = t.seen /\ u.cfg = t.cfg /\ u.mw = t.mw
  BY <1>1, <1>2, <1>4 DEF agrees, Task, goto
<1>5. ASSUME NEW stage, NEW mw, continue(h, [t EXCEPT !.at = stage, !.mw = mw])
      PROVE  /\ agrees(t, u) /\ u.at = stage /\ u.clean = t.clean
             /\ u.seen = t.seen /\ u.cfg = t.cfg /\ u.mw = mw
  BY <1>1, <1>2, <1>5 DEF agrees, Task
<1>6. ASSUME NEW stage, NEW mw, continue(h, [t EXCEPT !.mw = mw, !.at = stage])
      PROVE  /\ agrees(t, u) /\ u.at = stage /\ u.clean = t.clean
             /\ u.seen = t.seen /\ u.cfg = t.cfg /\ u.mw = mw
  BY <1>1, <1>2, <1>6 DEF agrees, Task
<1>7. ASSUME NEW stage, NEW cfg, continue(h, [t EXCEPT !.at = stage, !.cfg = cfg])
      PROVE  /\ agrees(t, u) /\ u.at = stage /\ u.clean = t.clean
             /\ u.seen = t.seen /\ u.cfg = cfg /\ u.mw = t.mw
  BY <1>1, <1>2, <1>7 DEF agrees, Task
<1>8. ASSUME NEW stage, NEW seen, continue(h, [t EXCEPT !.at = stage, !.seen = seen])
      PROVE  /\ agrees(t, u) /\ u.at = stage /\ u.clean = t.clean
             /\ u.seen = seen /\ u.cfg = t.cfg /\ u.mw = t.mw
  BY <1>1, <1>2, <1>8 DEF agrees, Task
<1>9. ASSUME NEW stage, fail(h, [t EXCEPT !.at = stage])
      PROVE  /\ agrees(t, u) /\ u.at = stage /\ u.clean = FALSE
             /\ u.seen = t.seen /\ u.cfg = t.cfg /\ u.mw = t.mw
  <2> DEFINE c == [t EXCEPT !.at = stage]
  <2>1. u = [c EXCEPT !.clean = FALSE]
    BY <1>3, <1>9
  <2>2. /\ agrees(t, c) /\ c.at = stage
        /\ c.seen = t.seen /\ c.cfg = t.cfg /\ c.mw = t.mw
    BY <1>1 DEF agrees, Task
  <2>3. DOMAIN c = DOMAIN t /\ c = [f \in DOMAIN t |-> c[f]] /\ "clean" \in DOMAIN t
    BY <1>1 DEF Task
  <2> HIDE DEF c
  <2> QED
    BY <2>1, <2>2, <2>3 DEF agrees
<1>10. ASSUME NEW stage, NEW mw, fail(h, [t EXCEPT !.at = stage, !.mw = mw])
      PROVE  /\ agrees(t, u) /\ u.at = stage /\ u.clean = FALSE
             /\ u.seen = t.seen /\ u.cfg = t.cfg /\ u.mw = mw
  <2> DEFINE c == [t EXCEPT !.at = stage, !.mw = mw]
  <2>1. u = [c EXCEPT !.clean = FALSE]
    BY <1>3, <1>10
  <2>2. /\ agrees(t, c) /\ c.at = stage
        /\ c.seen = t.seen /\ c.cfg = t.cfg /\ c.mw = mw
    BY <1>1 DEF agrees, Task
  <2>3. DOMAIN c = DOMAIN t /\ c = [f \in DOMAIN t |-> c[f]] /\ "clean" \in DOMAIN t
    BY <1>1 DEF Task
  <2> HIDE DEF c
  <2> QED
    BY <2>1, <2>2, <2>3 DEF agrees
<1>11. ASSUME NEW stage, NEW cfg, fail(h, [t EXCEPT !.at = stage, !.cfg = cfg])
      PROVE  /\ agrees(t, u) /\ u.at = stage /\ u.clean = FALSE
             /\ u.seen = t.seen /\ u.cfg = cfg /\ u.mw = t.mw
  <2> DEFINE c == [t EXCEPT !.at = stage, !.cfg = cfg]
  <2>1. u = [c EXCEPT !.clean = FALSE]
    BY <1>3, <1>11
  <2>2. /\ agrees(t, c) /\ c.at = stage
        /\ c.seen = t.seen /\ c.cfg = cfg /\ c.mw = t.mw
    BY <1>1 DEF agrees, Task
  <2>3. DOMAIN c = DOMAIN t /\ c = [f \in DOMAIN t |-> c[f]] /\ "clean" \in DOMAIN t
    BY <1>1 DEF Task
  <2> HIDE DEF c
  <2> QED
    BY <2>1, <2>2, <2>3 DEF agrees
<1>12. ASSUME NEW stage, NEW row, continue(h, [t EXCEPT !.at = stage, !.row = row])
       PROVE  /\ u.op = t.op /\ u.of = t.of /\ u.row = row
              /\ u.at = stage /\ u.clean = t.clean
              /\ u.seen = t.seen /\ u.cfg = t.cfg /\ u.mw = t.mw
  BY <1>1, <1>2, <1>12 DEF Task
<1> QED
  BY <1>4, <1>5, <1>6, <1>7, <1>8, <1>9, <1>10, <1>11, <1>12

LEMMA StagesKeptWork ==
  ASSUME IInv, StagesKept, NEW h \in Handlers, Work(h) PROVE StagesKept'
<1> DEFINE t == task[h]
           u == task'[h]
<1>1. /\ \A g \in Handlers \ {h} : task'[g] = task[g]
      /\ u = nowhere \/ moved(t, u)
      /\ u \in Task /\ t \in Task /\ soundTask(t) /\ task \in [Handlers -> Task]
      /\ TasksOK
  BY WorkMoves, Parts DEF TasksOK
<1>2. SUFFICES StageKept(u)
  <2>1. \A g \in Handlers : StageKept(task'[g])
    BY <1>1, <1>2 DEF StagesKept, StageKept
  <2> QED
    BY <2>1 DEF StagesKept, StageKept
<1>3. StageKept(t)
  BY DEF StagesKept, StageKept
<1>4. StageKept(nowhere)
  BY DEF StageKept, nowhere, newTask, DomainOps, RedirectOps, UserOps
<1>6. ASSUME u.op = t.op, u.row = t.row, u.at \notin {"reread", "rm"}
      PROVE  StageKept(u)
  BY <1>3, <1>6 DEF StageKept
<1>7. CASE u = nowhere
  BY <1>4, <1>7
<1>8. CASE writeRow(h) /\ u # nowhere
  <2>1. u = [t EXCEPT !.at = IF t.op = "delete" THEN "app" ELSE "reread"]
    BY <1>1, <1>8 DEF writeRow, finish, goto, continue
  <2> QED
    BY <1>1, <1>3, <1>8, <2>1 DEF StageKept, writeRow, Task
<1>9. CASE rereadRow(h) /\ u # nowhere
  <2>1. u = [t EXCEPT !.at = "app", !.row = domains[t.of]] /\ domains[t.of] # NoDomain
        /\ t.at = "reread"
    BY <1>1, <1>9 DEF rereadRow, throw, finish, continue, at
  <2> QED
    BY <1>1, <1>3, <1>9, <2>1 DEF StageKept, rereadRow, Task
<1>10. CASE (findApplication(h) \/ load(h) \/ readApp(h) \/ readMiddlewares(h)) /\ u # nowhere
  <2>1. ASSUME findApplication(h), u # nowhere
        PROVE  u.op = t.op /\ u.row = t.row /\ u.at = "load"
    BY <1>1, <2>1, MovesTo DEF findApplication, throw, finish, agrees
  <2>2. ASSUME load(h) PROVE u.op = t.op /\ u.row = t.row /\ u.at = "paths"
    <3> DEFINE cfg == loadOrCreateConfig(file[appOf[t.of]])
    <3>1. \/ continue(h, [t EXCEPT !.at = "paths", !.cfg = cfg])
          \/ fail(h, [t EXCEPT !.at = "paths", !.cfg = Empty])
      BY <2>2 DEF load
    <3> HIDE DEF cfg
    <3>2. CASE continue(h, [t EXCEPT !.at = "paths", !.cfg = cfg])
      BY <1>1, <3>2, MovesTo DEF agrees
    <3>3. CASE fail(h, [t EXCEPT !.at = "paths", !.cfg = Empty])
      BY <1>1, <3>3, MovesTo DEF agrees
    <3> QED
      BY <3>1, <3>2, <3>3
  <2>3. ASSUME readApp(h) PROVE u.op = t.op /\ u.row = t.row /\ u.at = "mwWrite"
    <3> DEFINE cfg == loadOrCreateConfig(file[appOf[t.of]])
    <3>1. \/ continue(h, [t EXCEPT !.at = "mwWrite", !.cfg = cfg])
          \/ fail(h, [t EXCEPT !.at = "mwWrite", !.cfg = Empty])
      BY <2>3 DEF readApp
    <3> HIDE DEF cfg
    <3>2. CASE continue(h, [t EXCEPT !.at = "mwWrite", !.cfg = cfg])
      BY <1>1, <3>2, MovesTo DEF agrees
    <3>3. CASE fail(h, [t EXCEPT !.at = "mwWrite", !.cfg = Empty])
      BY <1>1, <3>3, MovesTo DEF agrees
    <3> QED
      BY <3>1, <3>2, <3>3
  <2>4. ASSUME readMiddlewares(h), u # nowhere
        PROVE  /\ u.op = t.op /\ u.row = t.row /\ u.at # "reread"
               /\ u.at = "rm" => t.op = "deleteApp"
    <3> DEFINE stage == IF t.op \in {"editRedirect", "deleteApp"} THEN "mwWrite" ELSE "appRead"
    <3>1. \/ continue(h, [t EXCEPT !.mw = middlewares, !.at = stage])
          \/ t.op = "deleteApp" /\ fail(h, [t EXCEPT !.at = "rm"])
          \/ failAndThrow(h)
      BY <2>4 DEF readMiddlewares
    <3>2. stage \notin {"rm", "reread"}
      OBVIOUS
    <3> HIDE DEF stage
    <3>3. CASE continue(h, [t EXCEPT !.mw = middlewares, !.at = stage])
      BY <1>1, <3>2, <3>3, MovesTo DEF agrees
    <3>4. CASE t.op = "deleteApp" /\ fail(h, [t EXCEPT !.at = "rm"])
      <4>1. \A to : fail(h, [t EXCEPT !.at = to]) => agrees(t, u) /\ u.at = to
        BY <1>1, MovesTo
      <4> QED
        BY <3>4, <4>1 DEF agrees
    <3>5. CASE failAndThrow(h)
      <4>1. u = nowhere
        BY <1>1, <3>5 DEF failAndThrow
      <4> QED
        BY <2>4, <4>1
    <3> QED
      BY <3>1, <3>3, <3>4, <3>5
  <2> QED
    BY <1>3, <1>10, <2>1, <2>2, <2>3, <2>4 DEF StageKept, DomainOps, RedirectOps, UserOps
\* Stages that only pass on what was read from the file.
<1>11. ASSUME u.op = t.op, u.of = t.of, u.row = t.row, u.seen = t.seen, u.cfg = t.cfg,
              t.at \in DomainStages,
              u.at \in {"pathsWrite", "gateRead", "gateWrite", lastStep(t), afterPaths(t)}
       PROVE  StageKept(u)
  <2>1. /\ t.op \in DomainOps
        /\ u.at # "reread"
        /\ u.at = "rm" => edited(t).routers = {}
    BY <1>1, <1>11 DEF soundTask, lastStep, afterPaths
  <2>2. edited(u) = edited(t)
    BY <1>11 DEF edited
  <2> QED
    BY <1>3, <1>11, <2>1, <2>2 DEF StageKept, DomainOps, RedirectOps, UserOps
<1>12. CASE readForPaths(h)
  <2>1. /\ u.op = t.op /\ u.of = t.of /\ u.row = t.row /\ u.seen = t.seen /\ u.cfg = t.cfg
        /\ u.at \in {"pathsWrite", afterPaths(t)}
    BY <1>1, <1>12, MovesTo DEF readForPaths, agrees
  <2>2. t.at \in DomainStages
    BY <1>12 DEF readForPaths, at, DomainStages
  <2> QED
    BY <1>11, <2>1, <2>2
<1>13. CASE queryAuthDomain(h) \/ readForGate(h)
  <2>1. /\ u.op = t.op /\ u.of = t.of /\ u.row = t.row /\ u.seen = t.seen /\ u.cfg = t.cfg
        /\ u.at \in {"gateRead", "gateWrite", lastStep(t)}
    BY <1>1, <1>13, MovesTo DEF queryAuthDomain, readForGate, agrees
  <2>2. t.at \in DomainStages
    BY <1>13 DEF queryAuthDomain, readForGate, at, DomainStages
  <2> QED
    BY <1>11, <2>1, <2>2
<1>14. CASE writePaths(h) \/ writeGate(h)
  <2>1. /\ u.op = t.op /\ u.of = t.of /\ u.row = t.row /\ u.seen = t.seen /\ u.cfg = t.cfg
        /\ u.at \in {lastStep(t), afterPaths(t)}
    BY <1>1, <1>14, MovesTo DEF writePaths, writeGate, writeMiddlewares, agrees
  <2>2. t.at \in DomainStages
    BY <1>14 DEF writePaths, writeGate, at, DomainStages
  <2> QED
    BY <1>11, <2>1, <2>2
<1>15. CASE writeDomain(h)
  BY <1>1, <1>4, <1>15 DEF writeDomain, finish, failAndThrow
<1>16. CASE updateUserRow(h) /\ u # nowhere
  <2>1. u = [t EXCEPT !.op = "restoreUser", !.at = "mwRead"]
    BY <1>1, <1>16 DEF updateUserRow, finish, continue
  <2>2. u.op = "restoreUser" /\ u.at = "mwRead"
    BY <1>1, <2>1 DEF Task
  <2> QED
    BY <2>2 DEF StageKept, DomainOps
<1>17. CASE (deleteRow(h) \/ deleteApplicationRow(h)) /\ u # nowhere
  <2>1. u.op = t.op /\ u.row = t.row /\ u.at = "mwRead"
    BY <1>1, <1>17, MovesTo DEF deleteRow, deleteApplicationRow, finish, agrees
  <2> QED
    BY <1>6, <2>1
<1>18. ASSUME proceed(h) \/ failAndProceed(h), u # nowhere
       PROVE  StageKept(u)
  <2>1. u.op = t.op /\ u.row = t.row /\ u.at = "row"
    BY <1>1, <1>18, MovesTo DEF proceed, failAndProceed, finish, failAndThrow, agrees
  <2> QED
    BY <1>6, <2>1
<1>19. CASE writeAttachment(h) /\ u # nowhere
  <2>1. CASE proceed(h) \/ failAndProceed(h)
    BY <1>18, <1>19, <2>1
  <2>2. CASE \/ goto(h, afterMiddlewares(t))
             \/ fail(h, [t EXCEPT !.at = afterMiddlewares(t)])
    <3>1. u.op = t.op /\ u.row = t.row /\ u.cfg = t.cfg /\ u.at = afterMiddlewares(t)
      BY <1>1, <2>2, MovesTo DEF agrees
    <3>2. t.op \in RedirectOps \cup UserOps \cup {"deleteApp"}
      BY <1>1, <1>19 DEF writeAttachment, at, soundTask
    <3>3. /\ u.at \in {"rm", "end", "fileWrite"}
          /\ u.at = "rm" => t.cfg = Empty \/ t.op = "deleteApp"
      BY <3>1 DEF afterMiddlewares
    <3> QED
      BY <1>3, <3>1, <3>2, <3>3 DEF StageKept, DomainOps, RedirectOps, UserOps
  <2> QED
    BY <1>19, <2>1, <2>2 DEF writeAttachment
<1>20. CASE writeApp(h) /\ u # nowhere
  BY <1>18, <1>20 DEF writeApp
<1>21. CASE removeTraefikConfig(h)
  BY <1>1, <1>4, <1>21 DEF removeTraefikConfig, finish, failAndThrow
<1> QED
  BY <1>7, <1>8, <1>9, <1>10, <1>12, <1>13, <1>14, <1>15, <1>16, <1>17, <1>19, <1>20, <1>21
     DEF Work

\* A step that leaves routers, rows and what is owed to them alone.
LEMMA ShownFrame ==
  ASSUME Shown, UNCHANGED <<apps, domains>>,
         \A d \in Domains : shown(d)' = shown(d),
         ~ raced' /\ faults' = 0 => ~ raced /\ faults = 0,
         \A d \in Domains :
           /\ appOf[d] \notin apps /\ past({"deleteApp"}, appOf[d]) =>
                past({"deleteApp"}, appOf[d])'
           /\ appOf[d] \in apps /\ past({"delete"}, d) => past({"delete"}, d)'
           /\ domains[d] # NoDomain /\ past({"update", "toggle"}, d) =>
                past({"update", "toggle"}, d)'
  PROVE  Shown'
BY DEF Shown

LEMMA ShownArrive ==
  ASSUME IInv, Shown, NEW h \in Handlers, Arrive(h) PROVE Shown'
<1>1. task[h].op = "none" /\ UNCHANGED <<apps, domains, fileVars, raced, faults>>
  BY ArriveMoves
<1>2. \A g \in Handlers \ {h} : /\ task'[g].op = task[g].op /\ task'[g].of = task[g].of
                                /\ task'[g].at = task[g].at
  BY ArriveOthers
<1>3. ASSUME NEW ops \in {{"deleteApp"}, {"delete"}, {"update", "toggle"}}, NEW x, past(ops, x)
      PROVE  past(ops, x)'
  BY <1>1, <1>2, <1>3 DEF past
<1>4. \A d \in Domains : shown(d)' = shown(d)
  BY <1>1 DEF shown, routers, fileVars
<1> QED
  BY <1>1, <1>3, <1>4, ShownFrame

\* What is owed stays owed while the handler that owes it goes on, or when
\* the handler that ends owed nothing.
LEMMA PastWork ==
  ASSUME IInv, NEW h \in Handlers, Work(h), NEW ops, ops \cap UserOps = {},
         NEW x, past(ops, x),
         \/ task'[h] # nowhere
         \/ task[h].op \notin ops \/ task[h].of # x \/ task[h].at = "row"
  PROVE  past(ops, x)'
<1>1. /\ \A g \in Handlers \ {h} : task'[g] = task[g]
      /\ task'[h] = nowhere \/ moved(task[h], task'[h])
  BY WorkMoves
<1>2. PICK g \in Handlers : task[g].op \in ops /\ task[g].of = x /\ task[g].at # "row"
  BY DEF past
<1>3. task'[g].op \in ops /\ task'[g].of = x /\ task'[g].at # "row"
  <2>1. CASE g # h
    BY <1>1, <1>2, <2>1
  <2>2. CASE g = h
    BY <1>1, <1>2, <2>2 DEF moved, UserOps
  <2> QED
    BY <2>1, <2>2
<1> QED
  BY <1>3 DEF past

\* The routers of d depend on the file of its application alone.
LEMMA SetFile ==
  ASSUME FilesOK, NEW a \in Apps, NEW f \in Config \cup {NoFile},
         file' = [file EXCEPT ![a] = f]
  PROVE  /\ routers(a)' = loadOrCreateConfig(f).routers
         /\ \A d \in Domains : appOf[d] # a => shown(d)' = shown(d)
         /\ \A d \in Domains : appOf[d] = a =>
              shown(d)' = secures(loadOrCreateConfig(f).routers, d)
<1>1. file \in [Apps -> Config \cup {NoFile}] /\ \A d \in Domains : appOf[d] \in Apps
  BY IdsAssumption DEF FilesOK
<1> QED
  BY <1>1 DEF shown, routers

\* A write of manageDomain or removeDomain, of what the handler has read, gives its
\* domain what the row asks for at that moment and changes nothing for the others.
LEMMA WriteDomainShows ==
  ASSUME IInv, RowsKept, StagesKept, NEW h \in Handlers, writeDomain(h),
         ~ failAndThrow(h), ~ raced', NEW e \in Domains, e = task[h].of
  PROVE  /\ shown(e)' = wanted(domains'[e])
         /\ \A d \in Domains \ {e} : shown(d)' = shown(d) /\ domains'[d] = domains[d]
         /\ apps' = apps
<1> DEFINE t == task[h]
           f == IF t.at = "rm" THEN NoFile ELSE edited(t)
<1>1. t \in Task /\ soundTask(t) /\ RowsOK /\ FilesOK
  BY Parts DEF TasksOK
<1>2. PICK b \in Apps : b = appOf[e]
  BY IdsAssumption
<1>3. /\ t.op \in DomainOps /\ t.row \in Settings \cup {NoDomain}
      /\ t.seen \in SUBSET Reference /\ t.cfg \in Config
  BY <1>1 DEF writeDomain, Task
<1>4. /\ file' = [file EXCEPT ![b] = f]
      /\ ~ stale(t) /\ apps' = apps
  BY <1>2 DEF writeDomain
<1>5. edited(t) \in Config
  BY <1>1, <1>3, SetDomainServed DEF edited, soundTask
<1>6. loadOrCreateConfig(f).routers = edited(t).routers
  BY <1>3, <1>5, AbsenceAssumption DEF loadOrCreateConfig, StagesKept, StageKept, Empty
<1>7. /\ secures(edited(t).routers, e) = wanted(t.row)
      /\ \A d \in Domains \ {e} : secures(edited(t).routers, d) = secures(t.cfg.routers, d)
  BY <1>3, SetDomainRouters DEF edited
<1>8. t.cfg.routers = routers(b)
  BY <1>2, <1>4 DEF stale, routers
<1>9. f \in Config \cup {NoFile}
  BY <1>5
<1>10. shown(e)' = wanted(t.row) /\ \A d \in Domains \ {e} : shown(d)' = shown(d)
  <2> HIDE DEF f
  <2>1. /\ \A d \in Domains : appOf[d] # b => shown(d)' = shown(d)
        /\ \A d \in Domains : appOf[d] = b =>
             shown(d)' = secures(loadOrCreateConfig(f).routers, d)
    BY <1>1, <1>4, <1>9, SetFile
  <2>2. \A d \in Domains : appOf[d] = b => shown(d) = secures(t.cfg.routers, d)
    BY <1>8 DEF shown
  <2> QED
    BY <1>2, <1>6, <1>7, <2>1, <2>2
<1>11. domains'[e] = t.row /\ \A d \in Domains \ {e} : domains'[d] = domains[d]
  <2>1. CASE t.op = "create"
    BY <1>1, <2>1 DEF writeDomain, commitDomain, RowsOK
  <2>2. CASE t.op = "delete"
    BY <2>2 DEF writeDomain, at, commitDomain, RowsKept, StagesKept, StageKept
  <2>3. CASE t.op \in {"update", "toggle"}
    BY <1>4, <2>3 DEF writeDomain, commitDomain, stale
  <2> QED
    BY <1>3, <2>1, <2>2, <2>3 DEF DomainOps
<1> QED
  BY <1>4, <1>10, <1>11

\* A write of a redirect or a user, of what the handler has read, leaves every
\* domain the routers it has.
LEMMA WriteAppShows ==
  ASSUME IInv, StagesKept, NEW h \in Handlers, writeApp(h), ~ raced'
  PROVE  UNCHANGED <<apps, domains>> /\ \A d \in Domains : shown(d)' = shown(d)
<1> DEFINE t == task[h]
           f == IF t.at = "rm" THEN NoFile ELSE appEdit(t)
<1>1. t \in Task /\ soundTask(t) /\ FilesOK
  BY Parts DEF TasksOK
<1>2. t.op \in RedirectOps \cup UserOps /\ t.cfg \in Config /\ appOf[t.of] \in Apps
  BY <1>1, IdsAssumption DEF writeApp, soundTask, Task
<1>3. PICK b \in Apps : b = appOf[t.of]
  BY <1>2
<1>4. UNCHANGED <<apps, domains>>
  BY DEF writeApp
<1>5. CASE UNCHANGED file
  BY <1>4, <1>5 DEF shown, routers
<1>6. CASE ~ UNCHANGED file
  <2>1. file' = [file EXCEPT ![b] = f] /\ loadOrCreateConfig(file[b]) = t.cfg
    BY <1>3, <1>6 DEF writeApp
  <2>2. appEdit(t) \in Config
    BY <1>1, <1>2, AppEditServed
  <2>3. t.cfg = Empty \/ t.at # "rm"
    BY <1>2 DEF StagesKept, StageKept
  <2>4. \A d : secures(appEdit(t).routers, d) = secures(t.cfg.routers, d)
    BY <1>2, MiddlewareRouters DEF appEdit
  <2>5. \A d : secures(loadOrCreateConfig(f).routers, d) = secures(t.cfg.routers, d)
    BY <2>2, <2>3, <2>4, AbsenceAssumption DEF loadOrCreateConfig
  <2>6. f \in Config \cup {NoFile}
    BY <2>2
  <2> HIDE DEF f
  <2>7. /\ \A d \in Domains : appOf[d] # b => shown(d)' = shown(d)
        /\ \A d \in Domains : appOf[d] = b =>
             shown(d)' = secures(loadOrCreateConfig(f).routers, d)
    BY <1>1, <2>1, <2>6, SetFile
  <2>8. \A d \in Domains : appOf[d] = b => shown(d) = secures(t.cfg.routers, d)
    BY <2>1 DEF shown, routers
  <2> QED
    BY <1>4, <2>5, <2>7, <2>8
<1> QED
  BY <1>5, <1>6

\* The file of an application that is gone goes, and with it the routers.
LEMMA RemoveConfigShows ==
  ASSUME IInv, RowsKept, NEW h \in Handlers, removeTraefikConfig(h), ~ failAndThrow(h),
         NEW a \in Apps, a = task[h].of
  PROVE  /\ UNCHANGED <<apps, domains, raced>> /\ a \notin apps
         /\ \A d \in Domains : appOf[d] = a => domains[d] = NoDomain /\ shown(d)' = {}
         /\ \A d \in Domains : appOf[d] # a => shown(d)' = shown(d)
<1>1. /\ file' = [file EXCEPT ![a] = NoFile] /\ UNCHANGED <<apps, domains, raced>>
      /\ task[h].op = "deleteApp" /\ task[h].at = "rm"
  BY DEF removeTraefikConfig, at, rowVars
<1>2. a \notin apps
  BY <1>1 DEF RowsKept
<1>3. FilesOK
  BY Parts
<1>4. /\ \A d \in Domains : appOf[d] # a => shown(d)' = shown(d)
      /\ \A d \in Domains : appOf[d] = a =>
           shown(d)' = secures(loadOrCreateConfig(NoFile).routers, d)
  BY <1>1, <1>3, SetFile
<1>5. \A d \in Domains : appOf[d] = a => shown(d)' = {}
  BY <1>4 DEF loadOrCreateConfig, Empty, secures
<1> QED
  BY <1>1, <1>2, <1>4, <1>5 DEF RowsKept

LEMMA ShownWork ==
  ASSUME IInv, RowsKept, RowsKept', StagesKept, Shown, NEW h \in Handlers, Work(h)
  PROVE Shown'
<1> DEFINE t == task[h]
           u == task'[h]
<1>1. /\ \A g \in Handlers \ {h} : task'[g] = task[g]
      /\ u = nowhere \/ moved(t, u)
      /\ u \in Task /\ t \in Task /\ soundTask(t) /\ task \in [Handlers -> Task]
      /\ TasksOK /\ RowsOK /\ FilesOK /\ GhostsOK
      /\ t.op # "none"
  BY WorkMoves, Parts DEF TasksOK
<1>2. raced' \in BOOLEAN /\ (raced => raced') /\ faults \in Nat /\ (faults # 0 => faults' # 0)
  <2>1. faults' \in {faults, faults + 1} /\ (raced => raced') /\ raced' \in BOOLEAN
    BY <1>1 DEF Work, writeRow, rereadRow, findApplication, load, readForPaths, writePaths,
       queryAuthDomain, readForGate, writeGate, writeMiddlewares, writeDomain, updateUserRow,
       deleteRow,
       readMiddlewares, readApp, writeAttachment, writeApp, deleteApplicationRow,
       removeTraefikConfig, throw, finish, fail, failAndThrow, proceed, failAndProceed, GhostsOK
  <2>2. faults \in Nat
    BY <1>1, BoundsAssumption DEF GhostsOK
  <2> QED
    BY <2>1, <2>2
<1>3. SUFFICES ASSUME ~ raced', faults' = 0 PROVE Shown'
  BY DEF Shown
<1>4. ~ raced /\ faults = 0
  BY <1>2, <1>3
<1>5. ~ failAndThrow(h) /\ \A c : ~ fail(h, c)
  BY <1>2, <1>3, <1>4 DEF failAndThrow, fail
<1>6. ASSUME NEW ops \in {{"deleteApp"}, {"delete"}, {"update", "toggle"}}, NEW x, past(ops, x),
             \/ u # nowhere
             \/ t.op \notin ops \/ t.of # x \/ t.at = "row"
      PROVE  past(ops, x)'
  <2>1. ops \cap UserOps = {}
    BY <1>6 DEF UserOps
  <2> QED
    BY <1>6, <2>1, PastWork
<1>7. ASSUME UNCHANGED <<apps, domains>>, \A d \in Domains : shown(d)' = shown(d),
             \/ u # nowhere \/ t.at = "row"
             \/ t.op \notin {"update", "toggle", "delete", "deleteApp"}
      PROVE  Shown'
  <2>1. \A ops \in {{"deleteApp"}, {"delete"}, {"update", "toggle"}} : \A x :
          past(ops, x) => past(ops, x)'
    BY <1>6, <1>7
  <2> QED
    BY <1>4, <1>7, <2>1, ShownFrame
<1>8. UNCHANGED file => \A d \in Domains : shown(d)' = shown(d)
  BY DEF shown, routers
<1>9. CASE writeRow(h)
  <2>1. t.of \in Domains /\ t.op \in {"update", "toggle", "delete"} /\ t.at = "row"
    BY <1>1, <1>9 DEF writeRow, at, soundTask, DomainOps
  <2>2. UNCHANGED <<apps, file>>
    BY <1>9 DEF writeRow, fileVars
  <2>3. CASE domains' = domains
    BY <1>7, <1>8, <2>1, <2>2, <2>3
  <2>4. CASE domains' # domains
    <3>1. /\ goto(h, IF t.op = "delete" THEN "app" ELSE "reread")
          /\ domains[t.of] # NoDomain
          /\ \A d \in Domains : d # t.of => domains'[d] = domains[d]
      BY <1>1, <1>9, <2>1, <2>4 DEF writeRow, RowsOK
    <3>2. u.op = t.op /\ u.of = t.of /\ u.at # "row"
      <4>1. \A to : goto(h, to) => agrees(t, u) /\ u.at = to
        BY <1>1, MovesTo
      <4> QED
        BY <3>1, <4>1 DEF agrees
    <3>x. PICK e \in Domains : e = t.of
      BY <2>1
    <3>3. t.op = "delete" => past({"delete"}, e)'
      BY <3>2, <3>x DEF past
    <3>4. t.op = "delete" => domains'[t.of] = NoDomain
      BY <1>1, <1>9, <2>1, <3>1 DEF writeRow, RowsOK, StagesKept, StageKept
    <3>5. t.op # "delete" => domains'[t.of] # NoDomain
      <4>1. CASE t.op = "toggle"
        <5>1. domains[t.of] \in Settings /\ t.row.enabled \in BOOLEAN
          BY <1>1, <2>1, <3>1, <4>1 DEF RowsOK, soundTask, Settings
        <5>2. domains'[t.of] = [domains[t.of] EXCEPT !.enabled = t.row.enabled]
          BY <1>1, <1>9, <2>1, <3>1, <4>1 DEF writeRow, RowsOK
        <5>3. domains'[t.of] \in Settings
          BY <5>1, <5>2 DEF Settings
        <5> QED
          BY <5>3, IdsAssumption
      <4>2. CASE t.op = "update"
        BY <1>1, <1>9, <2>1, <3>1, <4>2 DEF writeRow, RowsOK, StagesKept, StageKept
      <4> QED
        BY <2>1, <4>1, <4>2
    <3>6. t.op # "delete" => past({"update", "toggle"}, e)'
      BY <2>1, <3>2, <3>x DEF past
    <3>7. \A ops \in {{"deleteApp"}, {"delete"}, {"update", "toggle"}} : \A x :
            past(ops, x) => past(ops, x)'
      BY <1>6, <2>1
    <3>8. \A d \in Domains : shown(d)' = shown(d)
      BY <1>8, <2>2
    <3>9. ASSUME NEW d \in Domains
          PROVE  /\ appOf[d] \notin apps' => shown(d)' = {} \/ past({"deleteApp"}, appOf[d])'
                 /\ appOf[d] \in apps' /\ domains'[d] = NoDomain =>
                      shown(d)' = {} \/ past({"delete"}, d)'
                 /\ domains'[d] # NoDomain =>
                      shown(d)' = wanted(domains'[d]) \/ past({"update", "toggle"}, d)'
      <4>1. CASE d # t.of
        BY <1>4, <2>2, <3>1, <3>7, <3>8, <4>1 DEF Shown
      <4>2. CASE d = e
        BY <1>4, <2>2, <3>x, <3>1, <3>3, <3>4, <3>5, <3>6, <3>7, <3>8, <4>2 DEF Shown
      <4> QED
        BY <3>x, <4>1, <4>2
    <3> QED
      BY <3>9 DEF Shown
  <2> QED
    BY <2>3, <2>4
<1>10. CASE rereadRow(h)
  <2>1. UNCHANGED <<apps, domains, file>>
    BY <1>10 DEF rereadRow, throw, rowVars, fileVars
  <2>2. CASE u # nowhere
    BY <1>7, <1>8, <2>1, <2>2
  <2>3. CASE u = nowhere
    <3>1. t.op \in {"update", "toggle"}
      BY <1>10 DEF rereadRow, at, StagesKept, StageKept
    <3>2. domains[t.of] = NoDomain
      <4>1. ASSUME domains[t.of] # NoDomain PROVE FALSE
        <5>1. continue(h, [t EXCEPT !.at = "app", !.row = domains[t.of]])
          BY <1>10, <4>1 DEF rereadRow
        <5>2. u.at = "app"
          BY <1>1, <5>1, MovesTo
        <5> QED
          BY <2>3, <5>2 DEF nowhere, newTask
      <4> QED
        BY <4>1
    <3>3. \A d \in Domains :
            /\ past({"deleteApp"}, appOf[d]) => past({"deleteApp"}, appOf[d])'
            /\ past({"delete"}, d) => past({"delete"}, d)'
            /\ domains[d] # NoDomain /\ past({"update", "toggle"}, d) =>
                 past({"update", "toggle"}, d)'
      BY <1>6, <3>1, <3>2
    <3> QED
      BY <1>4, <1>8, <2>1, <3>3, ShownFrame
  <2> QED
    BY <2>2, <2>3
<1>11. CASE findApplication(h)
  <2>1. UNCHANGED <<apps, domains, file>>
    BY <1>11 DEF findApplication, throw, rowVars, fileVars
  <2>2. CASE u # nowhere
    BY <1>7, <1>8, <2>1, <2>2
  <2>3. CASE u = nowhere
    <3>1. t.op \in DomainOps /\ t.of \in Domains
      BY <1>1, <1>11 DEF findApplication, soundTask
    <3>2. appOf[t.of] \notin apps
      <4>1. ASSUME appOf[t.of] \in apps PROVE FALSE
        <5>1. continue(h, [t EXCEPT !.at = "load", !.seen = attached(appOf[t.of])])
          BY <1>11, <4>1 DEF findApplication
        <5>2. u.at = "load"
          BY <1>1, <5>1, MovesTo
        <5> QED
          BY <2>3, <5>2 DEF nowhere, newTask
      <4> QED
        BY <4>1
    <3>3. domains[t.of] = NoDomain
      BY <3>1, <3>2 DEF RowsKept
    <3>4. \A d \in Domains :
            /\ past({"deleteApp"}, appOf[d]) => past({"deleteApp"}, appOf[d])'
            /\ appOf[d] \in apps /\ past({"delete"}, d) => past({"delete"}, d)'
            /\ domains[d] # NoDomain /\ past({"update", "toggle"}, d) =>
                 past({"update", "toggle"}, d)'
      BY <1>6, <3>1, <3>2, <3>3 DEF DomainOps
    <3> QED
      BY <1>4, <1>8, <2>1, <3>4, ShownFrame
  <2> QED
    BY <2>2, <2>3
<1>12. CASE writeDomain(h)
  <2>1. /\ t.op \in DomainOps /\ t.of \in Domains /\ u = nowhere /\ ~ failAndThrow(h)
    BY <1>1, <1>5, <1>12 DEF writeDomain, at, soundTask, finish
  <2>x. PICK e \in Domains : e = t.of
    BY <2>1
  <2>2. /\ shown(e)' = wanted(domains'[e])
        /\ \A d \in Domains \ {e} : shown(d)' = shown(d) /\ domains'[d] = domains[d]
        /\ apps' = apps
    BY <1>3, <1>12, <2>1, <2>x, WriteDomainShows
  <2>10. /\ \A x : past({"deleteApp"}, x) => past({"deleteApp"}, x)'
         /\ \A d \in Domains \ {t.of} :
              /\ past({"delete"}, d) => past({"delete"}, d)'
              /\ past({"update", "toggle"}, d) => past({"update", "toggle"}, d)'
    BY <1>6, <2>1 DEF DomainOps
  <2>11. wanted(NoDomain) = {}
    BY DEF wanted, exposed
  <2>12. ASSUME NEW d \in Domains
         PROVE  /\ appOf[d] \notin apps' => shown(d)' = {} \/ past({"deleteApp"}, appOf[d])'
                /\ appOf[d] \in apps' /\ domains'[d] = NoDomain =>
                     shown(d)' = {} \/ past({"delete"}, d)'
                /\ domains'[d] # NoDomain =>
                     shown(d)' = wanted(domains'[d]) \/ past({"update", "toggle"}, d)'
    <3>1. CASE d # e
      BY <1>4, <2>x, <2>2, <2>10, <3>1 DEF Shown
    <3>2. CASE d = e
      <4>1. appOf[e] \notin apps' => domains'[e] = NoDomain
        BY DEF RowsKept
      <4> QED
        BY <2>2, <2>11, <3>2, <4>1
    <3> QED
      BY <3>1, <3>2
  <2> QED
    BY <2>12 DEF Shown
<1>13. CASE writeApp(h)
  <2>1. t.op \notin {"update", "toggle", "delete", "deleteApp"}
    BY <1>13 DEF writeApp, RedirectOps, UserOps
  <2>2. UNCHANGED <<apps, domains>> /\ \A d \in Domains : shown(d)' = shown(d)
    BY <1>3, <1>13, WriteAppShows
  <2> QED
    BY <1>7, <2>1, <2>2
<1>14. CASE deleteApplicationRow(h)
  <2>1. /\ t.op = "deleteApp" /\ t.of \in Apps
        /\ apps' = apps \ {t.of} /\ UNCHANGED file
        /\ \A d \in Domains : domains'[d] = IF appOf[d] = t.of THEN NoDomain ELSE domains[d]
        /\ goto(h, "mwRead")
    BY <1>1, <1>14 DEF deleteApplicationRow, soundTask, fileVars
  <2>2. u.op = "deleteApp" /\ u.of = t.of /\ u.at = "mwRead"
    BY <1>1, <2>1, MovesTo DEF agrees
  <2>x. PICK b \in Apps : b = t.of
    BY <2>1
  <2>3. past({"deleteApp"}, b)'
    BY <2>2, <2>x DEF past
  <2>4. \A ops \in {{"deleteApp"}, {"delete"}, {"update", "toggle"}} : \A x :
          past(ops, x) => past(ops, x)'
    <3>1. u # nowhere
      BY <2>2 DEF nowhere, newTask
    <3> QED
      BY <1>6, <3>1
  <2>5. \A d \in Domains : shown(d)' = shown(d)
    BY <1>8, <2>1
  <2>6. \A d \in Domains : appOf[d] # t.of => (appOf[d] \in apps' <=> appOf[d] \in apps)
    BY <2>1
  <2> QED
    BY <1>4, <2>x, <2>1, <2>3, <2>4, <2>5, <2>6 DEF Shown
<1>15. CASE removeTraefikConfig(h)
  <2>0. PICK a \in Apps : a = t.of
    BY <1>1, <1>15 DEF removeTraefikConfig, soundTask
  <2>1. t.op = "deleteApp" /\ ~ failAndThrow(h)
    BY <1>5, <1>15 DEF removeTraefikConfig
  <2>2. /\ UNCHANGED <<apps, domains>> /\ a \notin apps
        /\ \A d \in Domains : appOf[d] = a => domains[d] = NoDomain /\ shown(d)' = {}
        /\ \A d \in Domains : appOf[d] # a => shown(d)' = shown(d)
    BY <1>15, <2>0, <2>1, RemoveConfigShows
  <2>5. /\ \A x : x # a /\ past({"deleteApp"}, x) => past({"deleteApp"}, x)'
        /\ \A d : past({"delete"}, d) => past({"delete"}, d)'
        /\ \A d : past({"update", "toggle"}, d) => past({"update", "toggle"}, d)'
    BY <1>6, <2>0, <2>1
  <2> QED
    BY <1>4, <2>2, <2>5 DEF Shown
<1>16. CASE /\ UNCHANGED <<apps, domains, file>>
            /\ \/ u # nowhere \/ t.at = "row"
               \/ t.op \notin {"update", "toggle", "delete", "deleteApp"}
  BY <1>7, <1>8, <1>16
<1>17. CASE \/ load(h) \/ readForPaths(h) \/ writePaths(h) \/ queryAuthDomain(h)
            \/ readForGate(h) \/ writeGate(h)
  <2>1. UNCHANGED <<apps, domains, file>>
    BY <1>17 DEF load, readForPaths, writePaths, queryAuthDomain, readForGate, writeGate,
       writeMiddlewares,
       rowVars, fileVars
  <2>2. u.op = t.op
    BY <1>1, <1>17, MovesTo DEF load, readForPaths, writePaths, queryAuthDomain, readForGate,
       writeGate,
       writeMiddlewares, agrees
  <2>3. u # nowhere
    BY <1>1, <2>2 DEF nowhere, newTask
  <2> QED
    BY <1>16, <2>1, <2>3
<1>18. CASE \/ updateUserRow(h) \/ deleteRow(h) \/ readApp(h)
  <2>1. UNCHANGED <<apps, domains, file>>
    BY <1>18 DEF updateUserRow, deleteRow, readApp, rowVars, fileVars
  <2>2. t.op \notin {"update", "toggle", "delete", "deleteApp"}
    BY <1>1, <1>18 DEF updateUserRow, deleteRow, readApp, at, soundTask, RedirectOps, UserOps
  <2> QED
    BY <1>16, <2>1, <2>2
<1>19. CASE readMiddlewares(h) \/ writeAttachment(h)
  <2>1. UNCHANGED <<apps, domains, file>>
    BY <1>19 DEF readMiddlewares, writeAttachment, rowVars, fileVars
  <2>2. t.op \in RedirectOps \cup UserOps \cup {"deleteApp"}
    BY <1>1, <1>19 DEF readMiddlewares, writeAttachment, at, soundTask
  <2>3. t.op # "deleteApp" => t.op \notin {"update", "toggle", "delete", "deleteApp"}
    BY <2>2 DEF RedirectOps, UserOps
  <2>4. t.op = "deleteApp" => u # nowhere
    <3> SUFFICES ASSUME t.op = "deleteApp" PROVE u.op = "deleteApp"
      BY DEF nowhere, newTask
    <3>1. \/ goto(h, "rm")
          \/ continue(h, [t EXCEPT !.mw = middlewares, !.at = "mwWrite"])
      BY <1>5, <1>19 DEF readMiddlewares, writeAttachment, afterMiddlewares
    <3>2. \A mw, to : continue(h, [t EXCEPT !.mw = mw, !.at = to]) => agrees(t, u)
      BY <1>1, MovesTo
    <3>3. \A to : goto(h, to) => agrees(t, u)
      BY <1>1, MovesTo
    <3> QED
      BY <3>1, <3>2, <3>3 DEF agrees
  <2> QED
    BY <1>16, <2>1, <2>3, <2>4
<1> QED
  BY <1>9, <1>10, <1>11, <1>12, <1>13, <1>14, <1>15, <1>17, <1>18, <1>19 DEF Work

LEMMA CleanKnowsArrive ==
  ASSUME IInv, CleanKnows, NEW h \in Handlers, Arrive(h) PROVE CleanKnows'
<1> DEFINE u == task'[h]
<1>1. /\ task[h].op = "none" /\ begun(h, u)
      /\ UNCHANGED <<apps, domains, users>>
      /\ redirects' # redirects => u.op = "addRedirect"
      /\ TasksOK'
  BY ArriveMoves
<1>2. \A g \in Handlers \ {h} : task'[g].op = task[g].op /\ ~ task'[g].clean
  BY ArriveOthers
<1>3. ASSUME u.clean, u.op \in DomainOps PROVE quietBut({h})'
  <2>1. quietBut({h})
    BY <1>1, <1>3 DEF begun
  <2>2. redirects' = redirects
    BY <1>1, <1>3 DEF DomainOps
  <2> QED
    BY <1>2, <2>1, <2>2 DEF quietBut, idle
<1>4. u.op \in DomainOps => u.at = IF u.op = "create" THEN "app" ELSE "row"
  BY <1>1 DEF begun
<1>5. u.op \in DomainOps => u.at \notin Loaded /\ (u.at = "app" => u.op = "create")
  BY <1>4 DEF Loaded, DomainStages
<1> QED
  BY <1>2, <1>3, <1>5 DEF CleanKnows

LEMMA CleanKnowsWork ==
  ASSUME IInv, StagesKept, CleanKnows, NEW h \in Handlers, Work(h) PROVE CleanKnows'
<1> DEFINE t == task[h]
           u == task'[h]
<1>1. /\ \A g \in Handlers \ {h} : task'[g] = task[g]
      /\ u = nowhere \/ moved(t, u)
      /\ u \in Task /\ t \in Task /\ soundTask(t) /\ task \in [Handlers -> Task]
      /\ TasksOK /\ t.op # "none"
  BY WorkMoves, Parts DEF TasksOK
<1>2. ASSUME NEW g \in Handlers \ {h}, task'[g].clean, task'[g].op \in DomainOps PROVE FALSE
  <2>1. quietBut({g})
    BY <1>1, <1>2 DEF CleanKnows
  <2> QED
    BY <1>1, <2>1 DEF quietBut, idle
<1>3. ASSUME u.clean, u.op \in DomainOps
      PROVE  t.clean /\ t.op = u.op /\ t.of = u.of /\ u # nowhere /\ quietBut({h})
  <2>1. u # nowhere
    BY <1>3 DEF nowhere, newTask
  <2>2. t.clean /\ t.op = u.op /\ t.of = u.of
    BY <1>1, <1>3, <2>1 DEF moved, DomainOps, UserOps
  <2> QED
    BY <1>3, <2>1, <2>2 DEF CleanKnows
\* The steps of a request about a domain.
<1>4. ASSUME u.clean, u.op \in DomainOps
      PROVE  \/ writeRow(h) \/ rereadRow(h) \/ findApplication(h) \/ load(h)
             \/ readForPaths(h) \/ writePaths(h) \/ queryAuthDomain(h) \/ readForGate(h) \/ writeGate(h)
  <2>1. t.op \in DomainOps
    BY <1>3, <1>4
  <2>2. ~ writeDomain(h)
    BY <1>1, <1>3, <1>4 DEF writeDomain, finish, failAndThrow
  <2>3. t.op \notin RedirectOps \cup UserOps \cup {"deleteApp"}
    BY <2>1 DEF DomainOps, RedirectOps, UserOps
  <2>4. t.at \notin {"mwRead", "mwWrite", "appRead"}
    BY <1>1, <2>3 DEF soundTask
  <2> QED
    BY <2>2, <2>3, <2>4 DEF Work, updateUserRow, deleteRow, readMiddlewares, readApp,
       writeAttachment, writeApp, deleteApplicationRow, removeTraefikConfig, at,
       RedirectOps, UserOps
<1>5. ASSUME u.clean, u.op \in DomainOps
      PROVE  UNCHANGED <<apps, redirects, users>> /\ (~ writeRow(h) => domains' = domains)
  BY <1>4, <1>5 DEF writeRow, rereadRow, findApplication, load, readForPaths, writePaths,
     queryAuthDomain, readForGate, writeGate, writeMiddlewares, throw, rowVars
<1>6. ASSUME u.clean, u.op \in DomainOps PROVE quietBut({h})'
  BY <1>1, <1>3, <1>5, <1>6 DEF quietBut, idle
<1>7. ASSUME u.clean, u.op \in DomainOps
      PROVE  \A a : attached(a)' = attached(a)
  BY <1>5, <1>7 DEF attached
<1>8. ASSUME u.clean, u.op \in DomainOps
      PROVE  /\ u.at \in Loaded => u.seen = attached(appOf[t.of])
             /\ u.op \in {"update", "toggle"} /\ u.at \in Loaded \cup {"app"} =>
                  u.row = domains'[t.of]
  <2>1. /\ t.clean /\ t.op = u.op /\ u # nowhere
        /\ t.at \in Loaded => t.seen = attached(appOf[t.of])
        /\ t.op \in {"update", "toggle"} /\ t.at \in Loaded \cup {"app"} =>
             t.row = domains[t.of]
    BY <1>3, <1>8 DEF CleanKnows
  <2>2. CASE writeRow(h)
    <3>1. u.at = IF t.op = "delete" THEN "app" ELSE "reread"
      <4>1. goto(h, IF t.op = "delete" THEN "app" ELSE "reread")
        BY <1>1, <2>1, <2>2 DEF writeRow, finish
      <4>2. \A to : goto(h, to) => u.at = to
        BY <1>1, MovesTo
      <4> QED
        BY <4>1, <4>2
    <3> QED
      BY <2>1, <3>1 DEF Loaded
  <2>3. CASE rereadRow(h)
    <3>1. continue(h, [t EXCEPT !.at = "app", !.row = domains[t.of]])
      BY <1>1, <2>1, <2>3 DEF rereadRow, throw, finish
    <3>2. u = [t EXCEPT !.at = "app", !.row = domains[t.of]]
      BY <1>1, <3>1 DEF continue
    <3>3. u.at = "app" /\ u.row = domains[t.of]
      BY <1>1, <3>2 DEF Task
    <3>4. domains' = domains
      BY <2>3 DEF rereadRow, throw, rowVars
    <3> QED
      BY <3>3, <3>4 DEF Loaded, DomainStages
  <2>4. CASE findApplication(h)
    <3>1. continue(h, [t EXCEPT !.at = "load", !.seen = attached(appOf[t.of])])
      BY <1>1, <2>1, <2>4 DEF findApplication, throw, finish
    <3>2. u = [t EXCEPT !.at = "load", !.seen = attached(appOf[t.of])]
      BY <1>1, <3>1 DEF continue
    <3>3. u.row = t.row /\ u.seen = attached(appOf[t.of])
      BY <1>1, <3>2 DEF Task
    <3>4. domains' = domains /\ t.at = "app"
      BY <2>4 DEF findApplication, throw, rowVars, at
    <3> QED
      BY <2>1, <3>3, <3>4
  <2>5. CASE \/ load(h) \/ readForPaths(h) \/ writePaths(h) \/ queryAuthDomain(h)
             \/ readForGate(h) \/ writeGate(h)
    <3>1. t.at \in Loaded
      BY <2>5 DEF load, readForPaths, writePaths, queryAuthDomain, readForGate, writeGate, at,
         Loaded,
         DomainStages
    <3>2. domains' = domains
      BY <2>5 DEF load, readForPaths, writePaths, queryAuthDomain, readForGate, writeGate,
         writeMiddlewares,
         rowVars
    <3>3. u.row = t.row /\ u.seen = t.seen
      <4>1. CASE load(h)
        <5> DEFINE cfg == loadOrCreateConfig(file[appOf[t.of]])
        <5>1. \/ continue(h, [t EXCEPT !.at = "paths", !.cfg = cfg])
              \/ fail(h, [t EXCEPT !.at = "paths", !.cfg = Empty])
          BY <4>1 DEF load
        <5> HIDE DEF cfg
        <5>2. CASE continue(h, [t EXCEPT !.at = "paths", !.cfg = cfg])
          BY <1>1, <5>2, MovesTo DEF agrees
        <5>3. CASE fail(h, [t EXCEPT !.at = "paths", !.cfg = Empty])
          BY <1>1, <5>3, MovesTo DEF agrees
        <5> QED
          BY <5>1, <5>2, <5>3
      <4>2. CASE readForPaths(h) \/ writePaths(h) \/ queryAuthDomain(h) \/ readForGate(h)
                                 \/ writeGate(h)
        BY <1>1, <4>2, MovesTo DEF readForPaths, writePaths, queryAuthDomain, readForGate,
           writeGate,
           writeMiddlewares, agrees
      <4> QED
        BY <2>5, <4>1, <4>2
    <3> QED
      BY <2>1, <3>1, <3>2, <3>3
  <2> QED
    BY <1>4, <1>8, <2>2, <2>3, <2>4, <2>5
<1>9. PICK x : x = t.of
  OBVIOUS
<1>10. ASSUME u.clean, u.op \in DomainOps
       PROVE  /\ u.at \in Loaded => u.seen = attached(appOf[x])'
              /\ u.op \in {"update", "toggle"} /\ u.at \in Loaded \cup {"app"} =>
                   u.row = domains'[x]
              /\ u.of = x
  BY <1>3, <1>7, <1>8, <1>9, <1>10
<1> QED
  BY <1>2, <1>6, <1>10 DEF CleanKnows

-----------------------------------------------------------------------------
LEMMA AgreementInit == Init => Agreement
<1> SUFFICES ASSUME Init PROVE Agreement
  OBVIOUS
<1>1. IInv /\ \A h \in Handlers : task[h] = nowhere
  BY InitInvariant DEF Init
<1>2. RowsOK
  BY <1>1, Parts
<1>3. /\ nowhere.op = "none" /\ nowhere.at = "idle" /\ nowhere.clean = FALSE
      /\ "none" \notin DomainOps \cup RedirectOps \cup UserOps
  BY DEF nowhere, newTask, DomainOps, RedirectOps, UserOps
<1>4. apps = Apps /\ \A d \in Domains : appOf[d] \in Apps
  BY IdsAssumption DEF Init
<1>5. RowsKept
  BY <1>1, <1>3, <1>4 DEF RowsKept
<1>6. StagesKept
  BY <1>1, <1>3 DEF StagesKept, StageKept
<1>7. CleanKnows
  BY <1>1, <1>3 DEF CleanKnows
<1>8. ASSUME NEW d \in Domains PROVE shown(d) = wanted(domains[d])
  <2> DEFINE a == appOf[d]
             D == {e \in Enabled : appOf[e] = a}
             R == UNION {routersFor(e, domains[e], attached(a)) : e \in D}
  <2>1. a \in Apps /\ attached(a) \in SUBSET Reference
    BY <1>4, AttachedType
  <2>2. file[a] = rendered(a)
    BY <2>1 DEF Init
  <2>3. \A e \in Domains : domains[e] \in Settings \cup {NoDomain}
    BY <1>2 DEF RowsOK
  <2>4. \A e \in Domains : e \in Enabled <=> exposed(domains[e])
    BY DEF Enabled, exposed
  <2>5. \A e \in D : /\ e \in Domains
                     /\ \A x \in routersFor(e, domains[e], attached(a)) : x.of = e
    BY <2>1, <2>3, RoutersForType DEF Enabled
  <2>6. CASE D = {}
    <3>1. routers(a) = {}
      BY <2>2, <2>6 DEF rendered, routers, loadOrCreateConfig, Empty
    <3>2. ~ exposed(domains[d])
      BY <2>4, <2>6
    <3> QED
      BY <3>1, <3>2 DEF shown, secures, wanted
  <2>7. CASE D # {}
    <3>1. routers(a) = R
      <4>1. rendered(a) = [routers |-> R, services |-> D]
        BY <2>7 DEF rendered
      <4>2. rendered(a) # NoFile
        <5>1. R \in SUBSET Router
          BY <2>1, <2>3, <2>5, RoutersForType
        <5>2. rendered(a) \in Config
          BY <2>5, <4>1, <5>1 DEF Config
        <5> QED
          BY <5>2, AbsenceAssumption
      <4> QED
        BY <2>2, <4>1, <4>2 DEF routers, loadOrCreateConfig
    <3>2. CASE d \in D
      <4>1. {x \in R : x.of = d} =
            {x \in routersFor(d, domains[d], attached(a)) : x.of = d}
        BY <2>5, <3>2
      <4>2. secures(R, d) = secures(routersFor(d, domains[d], attached(a)), d)
        BY <4>1 DEF secures
      <4> QED
        BY <2>1, <2>3, <3>1, <4>2, WantedRouters DEF shown
    <3>3. CASE d \notin D
      <4>1. {x \in R : x.of = d} = {}
        BY <2>5, <3>3
      <4>2. ~ exposed(domains[d])
        BY <2>4, <3>3
      <4> QED
        BY <3>1, <4>1, <4>2 DEF shown, secures, wanted
    <3> QED
      BY <3>2, <3>3
  <2> QED
    BY <2>6, <2>7
<1>9. wanted(NoDomain) = {}
  BY DEF wanted, exposed
<1>10. Shown
  BY <1>4, <1>8, <1>9 DEF Shown
<1> QED
  BY <1>5, <1>6, <1>7, <1>10 DEF Agreement

LEMMA AgreementStep == IInv /\ Agreement /\ [Next]_vars => Agreement'
<1> SUFFICES ASSUME IInv, Agreement, [Next]_vars PROVE Agreement'
  OBVIOUS
<1> USE DEF Agreement
<1>1. ASSUME NEW h \in Handlers, Arrive(h) PROVE Agreement'
  BY <1>1, RowsKeptArrive, StagesKeptArrive, ShownArrive, CleanKnowsArrive
<1>2. ASSUME NEW h \in Handlers, Work(h) PROVE Agreement'
  BY <1>2, RowsKeptWork, StagesKeptWork, ShownWork, CleanKnowsWork
<1>3. ASSUME NEW r \in Redirects, commitRedirect(r) PROVE Agreement'
  <2>1. UNCHANGED <<apps, domains, users, file, task, raced, faults>>
        /\ redirects[r] = "inserted"
    BY <1>3 DEF commitRedirect, fileVars
  <2>2. RowsKept' /\ StagesKept'
    BY <2>1 DEF RowsKept, StagesKept, StageKept, edited
  <2>3. Shown'
    BY <2>1 DEF Shown, shown, routers, past
  <2>4. \A h \in Handlers : ~ (task[h].clean /\ task[h].op \in DomainOps)
    BY <1>3, <2>1 DEF CleanKnows, quietBut
  <2>5. CleanKnows'
    BY <2>1, <2>4 DEF CleanKnows
  <2> QED
    BY <2>2, <2>3, <2>5
<1>4. CASE setForwardAuthSettings \/ removeForwardAuthSettings \/ UNCHANGED vars
  <2>1. UNCHANGED <<apps, domains, redirects, users, file, task, raced, faults>>
    BY <1>4 DEF setForwardAuthSettings, removeForwardAuthSettings, saveAuthDomain, vars,
       rowVars, fileVars
  <2>2. RowsKept' /\ StagesKept'
    BY <2>1 DEF RowsKept, StagesKept, StageKept, edited
  <2>3. Shown'
    BY <2>1 DEF Shown, shown, routers, past
  <2>4. CleanKnows'
    BY <2>1 DEF CleanKnows, quietBut, idle, attached
  <2> QED
    BY <2>2, <2>3, <2>4
<1> QED
  BY <1>1, <1>2, <1>3, <1>4 DEF Next

\* Rows are kept in order, handlers that run alone know what they write, and
\* without races and failures every domain is shown as its row asks for, or a
\* request that has changed the row is about to see to it.
THEOREM AgreementInvariant == Spec => [](IInv /\ Agreement)
<1>1. Init => IInv /\ Agreement
  BY InitInvariant, AgreementInit
<1>2. IInv /\ Agreement /\ [Next]_vars => IInv' /\ Agreement'
  BY StepInvariant, AgreementStep
<1> QED
  BY <1>1, <1>2, PTL DEF Spec

LEMMA RoutersOfDomain ==
  ASSUME NEW d \in Domains
  PROVE  RoutersOf(d) = {x \in routers(appOf[d]) : x.of = d}
BY DEF RoutersOf, routers, loadOrCreateConfig, Empty

\* Whatever overlaps, on both kinds of server: when no handler has written over
\* what it had not read and no remote command has failed, exactly the enabled
\* domains have routers once every handler has returned.
THEOREM DomainsAgree == Spec => []RoutersAgree
<1>1. IInv /\ Agreement => RoutersAgree
  <2> SUFFICES ASSUME IInv, Agreement, AtRest, ~ raced, faults = 0, NEW d \in Domains
               PROVE  {x.secure : x \in RoutersOf(d)} =
                      {secure \in BOOLEAN : d \in Enabled /\ (secure => domains[d].https)}
    BY DEF RoutersAgree
  <2>1. \A ops, x : "none" \notin ops => ~ past(ops, x)
    BY DEF past, AtRest, quietBut, idle
  <2>2. shown(d) = wanted(domains[d])
    <3>1. wanted(NoDomain) = {}
      BY DEF wanted, exposed
    <3>2. appOf[d] \notin apps => domains[d] = NoDomain
      BY DEF Agreement, RowsKept
    <3> QED
      BY <2>1, <3>1, <3>2 DEF Agreement, Shown
  <2>3. {x.secure : x \in RoutersOf(d)} = shown(d)
    BY RoutersOfDomain DEF shown, secures
  <2>4. d \in Enabled <=> exposed(domains[d])
    BY DEF Enabled, exposed
  <2> QED
    BY <2>2, <2>3, <2>4 DEF wanted
<1> QED
  BY AgreementInvariant, <1>1, PTL

\* Saving a domain while nothing else runs gives it the routers of its row, in
\* whatever state earlier races and failures have left the file.
THEOREM SavingRepairs == Spec => SaveRepairs
<1>1. ASSUME IInv, Agreement, [Next]_vars, NEW h \in Handlers, NEW d \in Domains,
             task[h].op \in {"create", "update", "toggle"}, task[h].of = d,
             task[h].at \in {"write", "rm"}, task[h].clean,
             task'[h].op = "none", faults' = faults
      PROVE  RoutersOf(d)' = routersFor(d, domains'[d], attached(appOf[d]))
  <2> DEFINE t == task[h]
             a == appOf[d]
             f == IF t.at = "rm" THEN NoFile ELSE edited(t)
  <2>1. writeDomain(h)
    <3>1. ASSUME NEW g \in Handlers, Arrive(g) PROVE FALSE
      <4>1. g # h /\ task'[h].op = t.op
        BY <1>1, <3>1, ArriveMoves, ArriveOthers
      <4> QED
        BY <1>1, <4>1
    <3>2. ASSUME NEW g \in Handlers \ {h}, Work(g) PROVE FALSE
      BY <1>1, <3>2, WorkMoves
    <3>3. ~ \E r \in Redirects : commitRedirect(r)
      BY <1>1 DEF commitRedirect
    <3>4. ~ (setForwardAuthSettings \/ removeForwardAuthSettings \/ UNCHANGED vars)
      BY <1>1 DEF setForwardAuthSettings, removeForwardAuthSettings, saveAuthDomain, vars
    <3>5. Work(h)
      BY <1>1, <3>1, <3>2, <3>3, <3>4 DEF Next
    <3>6. t.op \notin RedirectOps \cup UserOps \cup {"deleteApp"}
      BY <1>1 DEF RedirectOps, UserOps
    <3> QED
      BY <1>1, <3>5, <3>6 DEF Work, writeRow, rereadRow, findApplication, load, readForPaths,
         writePaths, queryAuthDomain, readForGate, writeGate, updateUserRow, deleteRow,
         readMiddlewares, readApp,
         writeAttachment, writeApp, deleteApplicationRow, removeTraefikConfig, at
  <2>2. /\ TasksOK /\ RowsOK /\ FilesOK /\ GhostsOK
        /\ t \in Task /\ soundTask(t)
    BY <1>1, Parts DEF TasksOK
  <2>3. faults' # faults + 1
    BY <1>1, <2>2, BoundsAssumption DEF GhostsOK
  <2>4. file' = [file EXCEPT ![a] = f] /\ commitDomain(t)
    BY <1>1, <2>1, <2>3 DEF writeDomain, failAndThrow
  <2>5. /\ t.row \in Settings \cup {NoDomain} /\ t.seen \in SUBSET Reference
        /\ t.cfg \in Config /\ a \in Apps /\ t.op \in DomainOps /\ served(t.cfg)
    BY <1>1, <2>2, IdsAssumption DEF Task, DomainOps, soundTask
  <2>6. edited(t) \in Config
    BY <1>1, <2>5, SetDomainServed DEF edited
  <2>7. f \in Config \cup {NoFile} /\ loadOrCreateConfig(f).routers = edited(t).routers
    BY <1>1, <2>5, <2>6, AbsenceAssumption DEF loadOrCreateConfig, Agreement, StagesKept,
       StageKept, Empty
  <2>8. {x \in edited(t).routers : x.of = d} = routersFor(d, t.row, t.seen)
    BY <1>1, <2>5, SetDomainRouters DEF edited
  <2>9. t.seen = attached(a) /\ t.row = domains'[d]
    <3>1. t.at \in Loaded
      BY <1>1 DEF Loaded, DomainStages
    <3>2. t.seen = attached(a)
      BY <1>1, <2>5, <3>1 DEF Agreement, CleanKnows
    <3>3. CASE t.op = "create"
      BY <1>1, <2>2, <2>4, <3>2, <3>3 DEF commitDomain, RowsOK
    <3>4. CASE t.op \in {"update", "toggle"}
      BY <1>1, <2>4, <2>5, <3>1, <3>2, <3>4 DEF commitDomain, Agreement, CleanKnows
    <3> QED
      BY <1>1, <3>3, <3>4
  <2>10. RoutersOf(d)' = {x \in routers(a)' : x.of = d}
    BY RoutersOfDomain DEF RoutersOf, routers, loadOrCreateConfig, Empty
  <2>11. routers(a)' = loadOrCreateConfig(f).routers
    <3> HIDE DEF f
    <3> QED
      BY <2>2, <2>4, <2>5, <2>7, SetFile
  <2> QED
    BY <2>7, <2>8, <2>9, <2>10, <2>11
<1>2. IInv /\ Agreement /\ [Next]_vars =>
        [\A h \in Handlers, d \in Domains :
           /\ task[h].op \in {"create", "update", "toggle"} /\ task[h].of = d
           /\ task[h].at \in {"write", "rm"} /\ task[h].clean
           /\ task'[h].op = "none" /\ faults' = faults
           => RoutersOf(d)' = routersFor(d, domains'[d], attached(appOf[d]))]_vars
  BY <1>1
<1> QED
  BY AgreementInvariant, <1>2, PTL DEF Spec, SaveRepairs

-----------------------------------------------------------------------------
(* The files implement DomainRouters                                       *)

LEMMA KindsAre ==
  /\ kindsAsked = [d \in Domains |-> wanted(domains[d])]
  /\ kindsShown = [d \in Domains |-> shown(d)]
  /\ kindsAsked' = [d \in Domains |-> wanted(domains'[d])]
  /\ kindsShown' = [d \in Domains |-> shown(d)']
<1>1. kindsAsked = [d \in Domains |-> wanted(domains[d])]
  BY DEF kindsAsked, wanted, Enabled, exposed
<1>2. kindsShown = [d \in Domains |-> shown(d)]
  BY RoutersOfDomain DEF kindsShown, shown, secures
<1> DEFINE agree == /\ kindsAsked = [d \in Domains |-> wanted(domains[d])]
                    /\ kindsShown = [d \in Domains |-> shown(d)]
<1>3. agree
  BY <1>1, <1>2
<1> HIDE DEF agree
<1>4. agree'
  BY <1>3, PTL
<1> QED
  BY <1>3, <1>4 DEF agree

LEMMA KindsType ==
  /\ \A row : wanted(row) \in SUBSET BOOLEAN
  /\ FilesOK => \A d \in Domains : shown(d) \in SUBSET BOOLEAN
  /\ FilesOK' => \A d \in Domains : shown(d)' \in SUBSET BOOLEAN
<1>1. FilesOK => \A d \in Domains : shown(d) \in SUBSET BOOLEAN
  <2> SUFFICES ASSUME FilesOK, NEW d \in Domains PROVE shown(d) \in SUBSET BOOLEAN
    OBVIOUS
  <2>1. loadOrCreateConfig(file[appOf[d]]) \in Config
    BY IdsAssumption, EmptyServed DEF FilesOK, loadOrCreateConfig
  <2>2. routers(appOf[d]) \subseteq Router
    BY <2>1 DEF routers, Config
  <2> QED
    BY <2>2 DEF shown, secures, Router
<1> DEFINE typed == \A d \in Domains : shown(d) \in SUBSET BOOLEAN
<1>2. FilesOK => typed
  BY <1>1
<1> HIDE DEF typed
<1>3. FilesOK' => typed'
  BY <1>2, PTL
<1> QED
  BY <1>1, <1>3 DEF wanted, typed

\* A step that changes neither rows nor files.
LEMMA PublishedFrame ==
  ASSUME UNCHANGED <<domains, file, raced>>
  PROVE  UNCHANGED Published!vars
BY DEF Published!vars, kindsAsked, kindsShown, Enabled, RoutersOf

\* A write over what the handler had not read.
LEMMA PublishedStray ==
  ASSUME raced', FilesOK',
         \/ UNCHANGED domains
         \/ \E e \in Domains : \A d \in Domains \ {e} : domains'[d] = domains[d]
  PROVE  Published!Next
<1>1. kindsShown' \in [Domains -> SUBSET BOOLEAN]
  BY KindsAre, KindsType
<1>2. CASE UNCHANGED domains
  <2>1. kindsAsked' = kindsAsked
    BY <1>2, KindsAre
  <2> QED
    BY <1>1, <2>1 DEF Published!Next, Published!Stray
<1>3. CASE \E e \in Domains : \A d \in Domains \ {e} : domains'[d] = domains[d]
  <2>1. PICK e \in Domains : \A d \in Domains \ {e} : domains'[d] = domains[d]
    BY <1>3
  <2>2. kindsAsked' = [kindsAsked EXCEPT ![e] = wanted(domains'[e])]
    BY <2>1, KindsAre
  <2>3. wanted(domains'[e]) \in SUBSET BOOLEAN
    BY KindsType
  <2> QED
    BY <1>1, <2>2, <2>3 DEF Published!Next, Published!Stray
<1> QED
  BY <1>2, <1>3

\* The row of one domain changes, and no file.
LEMMA PublishedSave ==
  ASSUME UNCHANGED <<file, raced>>, NEW e \in Domains,
         \A d \in Domains \ {e} : domains'[d] = domains[d]
  PROVE  Published!Next
<1>1. kindsAsked' = [kindsAsked EXCEPT ![e] = wanted(domains'[e])]
  BY KindsAre
<1>2. kindsShown' = kindsShown
  BY DEF kindsShown, RoutersOf
<1>3. wanted(domains'[e]) \in SUBSET BOOLEAN
  BY KindsType
<1>4. Published!Save(e, wanted(domains'[e]))
  BY <1>1, <1>2 DEF Published!Save
<1> QED
  BY <1>3, <1>4 DEF Published!Next

LEMMA PublishedWriteDomain ==
  ASSUME IInv, IInv', Agreement, NEW h \in Handlers, writeDomain(h)
  PROVE  Published!Next
<1> DEFINE t == task[h]
<1>1. t.op \in DomainOps /\ t.of \in Domains /\ RowsOK /\ FilesOK'
  BY Parts DEF TasksOK, soundTask, writeDomain
<1>2. PICK e \in Domains : e = t.of
  BY <1>1
<1>3. \A d \in Domains \ {e} : domains'[d] = domains[d]
  BY <1>1, <1>2 DEF writeDomain, commitDomain, RowsOK
<1>4. CASE failAndThrow(h)
  <2>1. UNCHANGED <<file, raced>>
    BY <1>1, <1>4, Parts, BoundsAssumption DEF writeDomain, failAndThrow, GhostsOK
  <2> QED
    BY <1>3, <2>1, PublishedSave
<1>5. CASE ~ failAndThrow(h) /\ raced'
  BY <1>1, <1>3, <1>5, PublishedStray
<1>6. CASE ~ failAndThrow(h) /\ ~ raced'
  <2>1. /\ shown(e)' = wanted(domains'[e])
        /\ \A d \in Domains \ {e} : shown(d)' = shown(d)
    BY <1>2, <1>6, WriteDomainShows DEF Agreement
  <2>2. kindsShown' = [kindsShown EXCEPT ![e] = wanted(domains'[e])]
    BY <2>1, KindsAre
  <2>3. raced' = raced
    <3>1. raced \in BOOLEAN /\ raced' \in BOOLEAN
      BY Parts DEF GhostsOK
    <3> QED
      BY <1>6, <3>1 DEF writeDomain
  <2>4. CASE t.op = "create"
    <3>1. domains[e] = NoDomain
      BY <1>2, <2>4 DEF Agreement, RowsKept
    <3>2. kindsAsked[e] = {}
      BY <3>1, KindsAre DEF wanted, exposed
    <3>3. kindsAsked' = [kindsAsked EXCEPT ![e] = wanted(domains'[e])]
      BY <1>3, KindsAre
    <3>4. Published!Create(e, wanted(domains'[e]))
      BY <2>2, <2>3, <3>2, <3>3 DEF Published!Create
    <3> QED
      BY <3>4, KindsType DEF Published!Next
  <2>5. CASE t.op # "create"
    <3>1. domains' = domains
      BY <2>5 DEF writeDomain, commitDomain
    <3>2. kindsAsked' = kindsAsked /\ kindsAsked[e] = wanted(domains'[e])
      BY <3>1, KindsAre
    <3>3. Published!Publish(e)
      BY <2>2, <2>3, <3>2 DEF Published!Publish
    <3> QED
      BY <3>3 DEF Published!Next
  <2> QED
    BY <2>4, <2>5
<1> QED
  BY <1>4, <1>5, <1>6

LEMMA PublishedWork ==
  ASSUME IInv, IInv', Agreement, NEW h \in Handlers, Work(h)
  PROVE  [Published!Next]_(Published!vars)
<1> DEFINE t == task[h]
<1>1. /\ RowsOK /\ FilesOK /\ FilesOK' /\ GhostsOK /\ raced \in BOOLEAN /\ raced' \in BOOLEAN
      /\ t \in Task /\ soundTask(t)
  BY Parts DEF TasksOK, GhostsOK
<1>2. CASE writeRow(h)
  <2>1. t.of \in Domains /\ UNCHANGED <<file, raced>>
    BY <1>1, <1>2 DEF writeRow, at, soundTask, DomainOps, fileVars
  <2>2. PICK e \in Domains : e = t.of
    BY <2>1
  <2>3. \A d \in Domains \ {e} : domains'[d] = domains[d]
    BY <1>1, <1>2, <2>2 DEF writeRow, RowsOK
  <2> QED
    BY <2>1, <2>3, PublishedSave
<1>3. CASE writeDomain(h)
  BY <1>3, PublishedWriteDomain
<1>4. CASE writeApp(h)
  <2>1. UNCHANGED domains
    BY <1>4 DEF writeApp
  <2>2. CASE raced'
    BY <1>1, <2>1, <2>2, PublishedStray
  <2>3. CASE ~ raced'
    <3>1. \A d \in Domains : shown(d)' = shown(d)
      BY <1>4, <2>3, WriteAppShows DEF Agreement
    <3>2. kindsShown' = kindsShown /\ kindsAsked' = kindsAsked
      BY <2>1, <3>1, KindsAre
    <3>3. raced' = raced
      BY <1>1, <1>4, <2>3 DEF writeApp
    <3> QED
      BY <3>2, <3>3 DEF Published!vars
  <2> QED
    BY <2>2, <2>3
<1>5. CASE deleteApplicationRow(h)
  <2> DEFINE D == {d \in Domains : appOf[d] = t.of}
  <2>1. /\ UNCHANGED <<file, raced>>
        /\ \A d \in Domains : domains'[d] = IF d \in D THEN NoDomain ELSE domains[d]
    BY <1>5 DEF deleteApplicationRow, fileVars
  <2>2. wanted(NoDomain) = {}
    BY DEF wanted, exposed
  <2>3. D \in SUBSET Domains
    OBVIOUS
  <2> HIDE DEF D
  <2>4. kindsAsked' = [d \in Domains |-> IF d \in D THEN {} ELSE kindsAsked[d]]
    BY <2>1, <2>2, KindsAre
  <2>5. kindsShown' = kindsShown
    BY <2>1 DEF kindsShown, RoutersOf
  <2>6. Published!Forget(D)
    BY <2>1, <2>4, <2>5 DEF Published!Forget
  <2> QED
    BY <2>3, <2>6 DEF Published!Next
<1>6. CASE removeTraefikConfig(h)
  <2>1. CASE failAndThrow(h)
    <3>1. UNCHANGED <<domains, file, raced>>
      BY <1>1, <1>6, <2>1, BoundsAssumption
         DEF removeTraefikConfig, failAndThrow, rowVars, GhostsOK
    <3> QED
      BY <3>1, PublishedFrame
  <2>2. CASE ~ failAndThrow(h)
    <3>1. PICK a \in Apps : a = t.of
      BY <1>1, <1>6 DEF removeTraefikConfig, soundTask
    <3>2. /\ UNCHANGED <<domains, raced>>
          /\ \A d \in Domains : appOf[d] = a => domains[d] = NoDomain /\ shown(d)' = {}
          /\ \A d \in Domains : appOf[d] # a => shown(d)' = shown(d)
      BY <1>6, <2>2, <3>1, RemoveConfigShows DEF Agreement
    <3> DEFINE D == {d \in Domains : appOf[d] = a}
    <3>3. wanted(NoDomain) = {}
      BY DEF wanted, exposed
    <3>4. \A d \in D : kindsAsked[d] = {}
      BY <3>2, <3>3, KindsAre
    <3>5. D \in SUBSET Domains /\ \A d \in Domains : d \in D <=> appOf[d] = a
      OBVIOUS
    <3> HIDE DEF D
    <3>6. kindsShown' = [d \in Domains |-> IF d \in D THEN {} ELSE kindsShown[d]]
      BY <3>2, <3>5, KindsAre
    <3>7. kindsAsked' = kindsAsked
      BY <3>2, KindsAre
    <3>8. Published!Withdraw(D)
      BY <3>2, <3>4, <3>6, <3>7 DEF Published!Withdraw
    <3> QED
      BY <3>5, <3>8 DEF Published!Next
  <2> QED
    BY <2>1, <2>2
<1>7. CASE \/ rereadRow(h) \/ findApplication(h) \/ load(h) \/ readForPaths(h)
           \/ writePaths(h) \/ queryAuthDomain(h) \/ readForGate(h) \/ writeGate(h)
           \/ updateUserRow(h)
           \/ deleteRow(h) \/ readMiddlewares(h) \/ readApp(h) \/ writeAttachment(h)
  <2>1. UNCHANGED <<domains, file, raced>>
    BY <1>7 DEF rereadRow, findApplication, load, readForPaths, writePaths, queryAuthDomain,
       readForGate,
       writeGate, writeMiddlewares, updateUserRow, deleteRow, readMiddlewares, readApp,
       writeAttachment, throw, rowVars, fileVars
  <2> QED
    BY <2>1, PublishedFrame
<1> QED
  BY <1>2, <1>3, <1>4, <1>5, <1>6, <1>7 DEF Work

\* With any number of requests, applications and failing remote commands, the
\* routers of a domain change only to what its row asks for at that moment, and no
\* request on another domain, redirect or user changes them, until the first write
\* over something its handler had not read.
THEOREM DomainRoutersRefinement == Spec => ImplementsDomainRouters
<1>1. Init => Published!Init
  <2> SUFFICES ASSUME Init PROVE Published!Init
    OBVIOUS
  <2>1. IInv /\ Agreement
    BY InitInvariant, AgreementInit
  <2>2. kindsAsked \in [Domains -> SUBSET BOOLEAN]
    BY KindsAre, KindsType
  <2>3. \A d \in Domains : shown(d) = wanted(domains[d])
    <3>1. \A ops, x : "none" \notin ops => ~ past(ops, x)
      BY DEF Init, past, nowhere, newTask
    <3>2. wanted(NoDomain) = {}
      BY DEF wanted, exposed
    <3>3. ~ raced /\ faults = 0
      BY DEF Init
    <3> QED
      BY <2>1, <3>1, <3>2, <3>3 DEF Agreement, Shown, RowsKept
  <2>4. kindsShown = kindsAsked
    BY <2>3, KindsAre
  <2> QED
    BY <2>2, <2>4 DEF Init, Published!Init
<1>2. IInv /\ IInv' /\ Agreement /\ [Next]_vars => [Published!Next]_(Published!vars)
  <2> SUFFICES ASSUME IInv, IInv', Agreement, [Next]_vars
               PROVE  [Published!Next]_(Published!vars)
    OBVIOUS
  <2>1. ASSUME NEW h \in Handlers, Arrive(h) PROVE [Published!Next]_(Published!vars)
    BY <2>1, ArriveMoves, PublishedFrame DEF fileVars
  <2>2. ASSUME NEW h \in Handlers, Work(h) PROVE [Published!Next]_(Published!vars)
    BY <2>2, PublishedWork
  <2>3. CASE \/ \E r \in Redirects : commitRedirect(r)
             \/ setForwardAuthSettings \/ removeForwardAuthSettings \/ UNCHANGED vars
    <3>1. UNCHANGED <<domains, file, raced>>
      BY <2>3 DEF commitRedirect, setForwardAuthSettings, removeForwardAuthSettings,
         saveAuthDomain, vars, rowVars, fileVars
    <3> QED
      BY <3>1, PublishedFrame
  <2> QED
    BY <2>1, <2>2, <2>3 DEF Next
<1> QED
  BY <1>1, <1>2, AgreementInvariant, PTL
     DEF Spec, ImplementsDomainRouters, Published!Spec

-----------------------------------------------------------------------------
(* The inductive invariant behind RoutersProtected                         *)

\* What the rows put a router of a behind: a redirect from its INSERT on.
Want(a) ==
  {redirect(r) : r \in {r \in Redirects : appOf[r] = a /\ redirects[r] # "none"}}
  \cup {auth(b) : b \in {a} \cap {appOf[u] : u \in users}}

\* The redirects of an application, and its password.
ownRefs(a) == {auth(a)} \cup {redirect(r) : r \in {r \in Redirects : appOf[r] = a}}

\* What a request about t.of may leave undone between its steps: references
\* that routers lack, or that middlewares.yml does not define.
openRefs(t) ==
  CASE t.op \in DomainOps /\ t.at \in Loaded -> {strip(t.of), gate(t.of)}
    [] \/ t.op = "addRedirect"
       \/ t.op = "dropRedirect" /\ t.at # "row" -> {redirect(t.of)}
    [] \/ t.op \in {"addUser", "changeUser", "restoreUser"}
       \/ t.op = "dropUser" /\ t.at \in {"fileWrite", "rm"} -> {auth(appOf[t.of])}
    [] t.op = "deleteApp" /\ t.at # "row" ->
         ownRefs(t.of)
    [] OTHER -> {}

\* Users whose row and whose line in middlewares.yml may disagree meanwhile.
openUsers(t) ==
  CASE \/ t.op \in {"addUser", "changeUser", "restoreUser"}
       \/ t.op = "dropUser" /\ t.at # "row" -> {t.of}
    [] t.op = "deleteApp" /\ t.at # "row" -> {u \in Users : appOf[u] = t.of}
    [] OTHER -> {}

\* The sign-on that domains refer to and no authentication domain backed.
Unset == {gate(d) : d \in ungated}

\* Rows and files agree but for the references E and the users U.
Settled(E, U) ==
  LET mw == section(middlewares) IN
  /\ RedirectToHttps \in mw
  /\ \A u \in Users \ U : u \in users <=> user(u) \in mw
  /\ \A a \in Apps :
       /\ \A ref \in Want(a) \ E : defined(ref, mw)
       /\ \A x \in routers(a) :
            /\ RedirectToHttps \notin x.uses => Want(a) \ E \subseteq x.uses
            /\ \A ref \in x.uses \ E : defined(ref, mw) \/ ref \in Unset

\* What a request that runs alone has read is so, and what it has done is done.
Knows(t) ==
  LET mw  == section(middlewares)
      cfg == loadOrCreateConfig(file[appOf[t.of]])
  IN
  /\ t.at \in {"pathsWrite", "gateWrite", "appRead", "mwWrite"} => t.mw = middlewares
  /\ t.op \in DomainOps =>
       /\ t.at \in Loaded \ {"load"} => t.cfg = cfg
       /\ t.at \in {"gateQuery", "gateRead", "gateWrite", "write"}
            /\ exposed(t.row) /\ t.row.strip =>
            strip(t.of) \in mw
       /\ t.at = "write" /\ exposed(t.row) /\ t.row.gate =>
            gate(t.of) \in mw \cup Unset
  /\ t.op \in (RedirectOps \cup UserOps) \ {"editRedirect"}
       /\ t.at \in {"mwWrite", "fileWrite", "rm"} => t.cfg = cfg
  /\ t.op = "editRedirect" => t.at \in {"mwRead", "mwWrite"}
  /\ t.op = "addRedirect" /\ t.at \in {"fileWrite", "rm"} => redirect(t.of) \in mw
  /\ t.op = "dropRedirect" /\ t.at # "row" => redirects[t.of] = "none"
  /\ t.op \in {"addUser", "restoreUser"} /\ t.at \in {"fileWrite", "rm"} => user(t.of) \in mw
  /\ t.op \in {"changeUser", "restoreUser"} => t.of \in users
  /\ t.op = "dropUser" /\ t.at # "row" =>
       /\ t.of \notin users
       /\ t.at \in {"mwRead", "appRead", "mwWrite"} => user(t.of) \in mw
       /\ t.at \in {"fileWrite", "rm"} => usersIn(mw, appOf[t.of]) = {}
  /\ t.op = "deleteApp" =>
       /\ t.seen \subseteq ownRefs(t.of)
       /\ t.at = "row" => (auth(t.of) \in t.seen <=> \E u \in users : appOf[u] = t.of)
       /\ t.at # "row" => /\ \A u \in users : appOf[u] # t.of
                          /\ \A r \in Redirects : appOf[r] = t.of => redirects[r] = "none"
       /\ t.at \in {"mwRead", "mwWrite"} /\ auth(t.of) \notin t.seen => usersIn(mw, t.of) = {}
       /\ t.at = "rm" => usersIn(mw, t.of) = {}

\* A file holds routers of its application, behind what belongs to it.
ownConfig(a, cfg) ==
  \A x \in cfg.routers :
    /\ appOf[x.of] = a
    /\ x.uses \subseteq ownRefs(a) \cup {RedirectToHttps, strip(x.of), gate(x.of)}

Owned ==
  /\ \A a \in Apps : ownConfig(a, loadOrCreateConfig(file[a]))
  /\ \A h \in Handlers :
       LET t == task[h] IN
       /\ t.op \in DomainOps \cup RedirectOps \cup UserOps => ownConfig(appOf[t.of], t.cfg)
       /\ t.op \in DomainOps => t.seen \subseteq ownRefs(appOf[t.of])

CleanAlone == \A h \in Handlers : task[h].clean => \A g \in Handlers \ {h} : idle(g)

\* While requests come one after the other, rows and files agree, but for what
\* the one in progress is about to do.
Tidy ==
  calm =>
    /\ (\A h \in Handlers : idle(h)) => Settled({}, {})
    /\ \A h \in Handlers : task[h].clean /\ ~ idle(h) =>
         Settled(openRefs(task[h]), openUsers(task[h])) /\ Knows(task[h])

Protection == Owned /\ CleanAlone /\ Tidy

-----------------------------------------------------------------------------
(* Names, references and the middlewares that define them                  *)

LEMMA NamesDiffer ==
  /\ \A d, e : /\ strip(d) # gate(e)
               /\ strip(d) = strip(e) => d = e
               /\ gate(d) = gate(e) => d = e
  /\ \A d, x : /\ strip(d) # redirect(x) /\ strip(d) # auth(x) /\ strip(d) # user(x)
               /\ gate(d) # redirect(x) /\ gate(d) # auth(x) /\ gate(d) # user(x)
  /\ \A r, x : /\ redirect(r) = redirect(x) => r = x
               /\ redirect(r) # auth(x) /\ redirect(r) # user(x)
  /\ \A a, x : /\ auth(a) = auth(x) => a = x
               /\ auth(a) # user(x)
  /\ \A u, v : user(u) = user(v) => u = v
  /\ \A x : /\ RedirectToHttps # strip(x) /\ RedirectToHttps # gate(x)
            /\ RedirectToHttps # redirect(x) /\ RedirectToHttps # auth(x)
            /\ RedirectToHttps # user(x)
BY DEF strip, gate, redirect, auth, user, RedirectToHttps

LEMMA NotInConfig ==
  /\ \A a, mw : mw \subseteq Entry => auth(a) \notin mw
  /\ \A ref, mw : (\A a : ref # auth(a)) => (defined(ref, mw) <=> ref \in mw)
  /\ \A a \in Apps, mw \in SUBSET Entry : defined(auth(a), mw) <=> usersIn(mw, a) # {}
<1>1. \A a : auth(a) \notin Entry
  BY NamesDiffer DEF Entry, Named
<1> HIDE DEF RedirectToHttps, strip, gate, redirect, auth, user
<1> QED
  BY <1>1, NamesDiffer DEF defined

-----------------------------------------------------------------------------
\* What the application has attached belongs to it.
LEMMA AttachedOwn ==
  ASSUME NEW a \in Apps
  PROVE  attached(a) \subseteq ownRefs(a) /\ Want(a) \subseteq ownRefs(a)
BY DEF attached, Want, ownRefs

LEMMA SetDomainOwn ==
  ASSUME NEW cfg \in Config, NEW d \in Domains,
         NEW row \in Settings \cup {NoDomain}, NEW seen \in SUBSET ownRefs(appOf[d]),
         ownConfig(appOf[d], cfg)
  PROVE  ownConfig(appOf[d], setDomain(cfg, d, row, seen))
<1> DEFINE a == appOf[d]
<1>1. ASSUME NEW s, exposed(row)
      PROVE  /\ createRouterConfig(d, row, seen, s).of = d
             /\ createRouterConfig(d, row, seen, s).uses
                  \subseteq ownRefs(a) \cup {RedirectToHttps, strip(d), gate(d)}
  BY DEF createRouterConfig
<1>2. \A x \in routersFor(d, row, seen) :
        x.of = d /\ x.uses \subseteq ownRefs(a) \cup {RedirectToHttps, strip(d), gate(d)}
  <2> HIDE DEF createRouterConfig
  <2> QED
    BY <1>1 DEF routersFor
<1>3. setDomain(cfg, d, row, seen).routers =
        {x \in cfg.routers : x.of # d} \cup routersFor(d, row, seen)
  BY DEF setDomain
<1> QED
  BY <1>2, <1>3 DEF ownConfig

\* What an edit of the middlewares makes of the routers of a file.
LEMMA EditedRouters ==
  ASSUME NEW cfg \in Config, NEW ref \in Reference
  PROVE  /\ \A y \in addMiddleware(cfg, ref).routers : \E x \in cfg.routers :
              y.of = x.of /\ y.uses = x.uses \cup {ref}
         /\ \A y \in deleteMiddleware(cfg, ref).routers : \E x \in cfg.routers :
              y.of = x.of /\ y.uses = x.uses \ {ref}
<1> DEFINE R    == cfg.routers
           more == {[x EXCEPT !.uses = @ \cup {ref}] : x \in R}
           less == {[x EXCEPT !.uses = @ \ {ref}] : x \in R}
<1>1. R \in SUBSET Router
  BY DEF Config
<1>2. addMiddleware(cfg, ref).routers = more /\ deleteMiddleware(cfg, ref).routers = less
  BY DEF Config, addMiddleware, deleteMiddleware
<1>3. ASSUME NEW y \in more
      PROVE  \E x \in R : y.of = x.of /\ y.uses = x.uses \cup {ref}
  <2>1. PICK x \in R : y = [x EXCEPT !.uses = @ \cup {ref}]
    BY <1>3
  <2>2. y.of = x.of /\ y.uses = x.uses \cup {ref}
    BY <1>1, <2>1 DEF Router
  <2> QED
    BY <2>2
<1>4. ASSUME NEW y \in less
      PROVE  \E x \in R : y.of = x.of /\ y.uses = x.uses \ {ref}
  <2>1. PICK x \in R : y = [x EXCEPT !.uses = @ \ {ref}]
    BY <1>4
  <2>2. y.of = x.of /\ y.uses = x.uses \ {ref}
    BY <1>1, <2>1 DEF Router
  <2> QED
    BY <2>2
<1> HIDE DEF more, less
<1> QED
  BY <1>2, <1>3, <1>4

\* The reference an edit is about belongs to the application.
editedRef(t) ==
  IF t.op \in {"addRedirect", "dropRedirect"} THEN redirect(t.of) ELSE auth(appOf[t.of])

LEMMA EditedRef ==
  ASSUME NEW t \in Task, soundTask(t), t.op \in RedirectOps \cup UserOps
  PROVE  /\ editedRef(t) \in Reference /\ editedRef(t) \in ownRefs(appOf[t.of])
         /\ appEdit(t) = IF t.op \in {"addRedirect", "addUser", "restoreUser"}
                         THEN addMiddleware(t.cfg, editedRef(t))
                         ELSE deleteMiddleware(t.cfg, editedRef(t))
<1>1. t.op \in RedirectOps => t.of \in Redirects
  BY DEF soundTask
<1>2. t.op \in UserOps => t.of \in Users
  BY DEF soundTask
<1>3. appOf[t.of] \in Apps
  BY <1>1, <1>2, IdsAssumption
<1>4. t.op \in {"addRedirect", "dropRedirect"} => t.op \in RedirectOps
  BY DEF RedirectOps
<1>5. editedRef(t) \in Reference /\ editedRef(t) \in ownRefs(appOf[t.of])
  BY <1>1, <1>3, <1>4, EntryNames DEF editedRef, ownRefs
<1>6. CASE t.op \in {"addRedirect", "dropRedirect"}
  BY <1>5, <1>6 DEF appEdit, editedRef
<1>7. CASE t.op \notin {"addRedirect", "dropRedirect"}
  BY <1>5, <1>7 DEF appEdit, editedRef
<1> QED
  BY <1>5, <1>6, <1>7

LEMMA AppEditOwn ==
  ASSUME NEW t \in Task, soundTask(t), t.op \in RedirectOps \cup UserOps,
         ownConfig(appOf[t.of], t.cfg)
  PROVE  ownConfig(appOf[t.of], appEdit(t))
<1> DEFINE a == appOf[t.of]
           own(x) == ownRefs(a) \cup {RedirectToHttps, strip(x), gate(x)}
<1>1. t.cfg \in Config
  BY DEF Task
<1>2. editedRef(t) \in Reference /\ editedRef(t) \in ownRefs(a)
  BY EditedRef
<1>3. \A y \in appEdit(t).routers : \E x \in t.cfg.routers :
        y.of = x.of /\ y.uses \subseteq x.uses \cup {editedRef(t)}
  BY <1>1, <1>2, EditedRef, EditedRouters
<1> QED
  BY <1>2, <1>3 DEF ownConfig

LEMMA EmptyOwn == \A a : ownConfig(a, Empty)
BY DEF ownConfig, Empty

-----------------------------------------------------------------------------
ownTask(t) ==
  /\ t.op \in DomainOps \cup RedirectOps \cup UserOps => ownConfig(appOf[t.of], t.cfg)
  /\ t.op \in DomainOps => t.seen \subseteq ownRefs(appOf[t.of])

LEMMA OwnedInit == Init => Owned
<1> SUFFICES ASSUME Init PROVE Owned
  OBVIOUS
<1>1. RowsOK
  BY InitInvariant, Parts
<1>2. ASSUME NEW a \in Apps PROVE ownConfig(a, loadOrCreateConfig(file[a]))
  <2> DEFINE D == {d \in Enabled : appOf[d] = a}
             R == UNION {routersFor(e, domains[e], attached(a)) : e \in D}
  <2>1. file[a] = rendered(a)
    BY DEF Init
  <2>2. CASE D = {}
    BY <2>1, <2>2, EmptyOwn DEF rendered, loadOrCreateConfig
  <2>3. CASE D # {}
    <3>1. rendered(a) = [routers |-> R, services |-> D]
      BY <2>3 DEF rendered
    <3>2. \A e \in D : /\ e \in Domains /\ appOf[e] = a
                       /\ domains[e] \in Settings \cup {NoDomain}
      BY <1>1 DEF Enabled, RowsOK
    <3>3. attached(a) \in SUBSET ownRefs(a)
      BY AttachedOwn
    <3>4. ASSUME NEW e \in D
          PROVE  ownConfig(a, [routers |-> routersFor(e, domains[e], attached(a)),
                               services |-> {}])
      <4>1. setDomain(Empty, e, domains[e], attached(a)).routers =
              routersFor(e, domains[e], attached(a))
        BY DEF setDomain, Empty
      <4>2. ownConfig(a, setDomain(Empty, e, domains[e], attached(a)))
        BY <3>2, <3>3, EmptyServed, EmptyOwn, SetDomainOwn
      <4> QED
        BY <4>1, <4>2 DEF ownConfig
    <3>5. ownConfig(a, rendered(a))
      BY <3>1, <3>4 DEF ownConfig
    <3> QED
      BY <2>1, <3>5, EmptyOwn DEF loadOrCreateConfig
  <2> QED
    BY <2>2, <2>3
<1>3. \A h \in Handlers : task[h] = nowhere
  BY DEF Init
<1>4. nowhere.op = "none"
  BY DEF nowhere, newTask
<1> QED
  BY <1>2, <1>3, <1>4 DEF Owned, DomainOps, RedirectOps, UserOps

LEMMA OwnedArrive ==
  ASSUME IInv, Owned, NEW h \in Handlers, Arrive(h) PROVE Owned'
<1>1. begun(h, task'[h]) /\ file' = file
  BY ArriveMoves DEF fileVars
<1>2. ASSUME NEW g \in Handlers PROVE ownTask(task'[g])
  <2>1. CASE g = h
    BY <1>1, <2>1, EmptyOwn DEF begun, ownTask, DomainOps
  <2>2. CASE g # h
    <3>1. /\ task'[g].op = task[g].op /\ task'[g].of = task[g].of
          /\ task'[g].seen = task[g].seen /\ task'[g].cfg = task[g].cfg
      BY <2>2, ArriveOthers
    <3> QED
      BY <3>1 DEF Owned, ownTask
  <2> QED
    BY <2>1, <2>2
<1>3. \A a \in Apps : ownConfig(a, loadOrCreateConfig(file'[a]))
  BY <1>1 DEF Owned
<1> QED
  BY <1>2, <1>3 DEF Owned, ownTask, ownConfig, ownRefs

LEMMA OwnedWork ==
  ASSUME IInv, Owned, NEW h \in Handlers, Work(h) PROVE Owned'
<1> DEFINE t == task[h]
           u == task'[h]
<1>1. /\ \A g \in Handlers \ {h} : task'[g] = task[g]
      /\ u = nowhere \/ moved(t, u)
      /\ u \in Task /\ t \in Task /\ soundTask(t) /\ task \in [Handlers -> Task]
      /\ TasksOK /\ RowsOK /\ FilesOK /\ t.op # "none"
  BY WorkMoves, Parts DEF TasksOK
<1>2. ownTask(t) /\ \A a \in Apps : ownConfig(a, loadOrCreateConfig(file[a]))
  BY DEF Owned, ownTask
<1>3. nowhere.op = "none" /\ "none" \notin DomainOps \cup RedirectOps \cup UserOps
  BY DEF nowhere, newTask, DomainOps, RedirectOps, UserOps
<1>4. ownTask(nowhere)
  BY <1>3 DEF ownTask
<1>5. ASSUME ownTask(u), \A a \in Apps : ownConfig(a, loadOrCreateConfig(file'[a]))
      PROVE  Owned'
  <2>1. \A g \in Handlers : ownTask(task'[g])
    BY <1>1, <1>5 DEF Owned, ownTask
  <2> QED
    BY <1>5, <2>1 DEF Owned, ownTask, ownConfig, ownRefs
<1>6. /\ u.of = t.of /\ u.cfg = t.cfg /\ u.seen = t.seen
      /\ \/ u.op = t.op
         \/ u.op \in UserOps /\ t.op \in UserOps
      => ownTask(u)
  BY <1>2 DEF ownTask, DomainOps, UserOps
<1>7. ASSUME ownTask(u), file' = file PROVE Owned'
  BY <1>2, <1>5, <1>7
<1>8. \A b \in Apps, f \in Config \cup {NoFile} :
        /\ file' = [file EXCEPT ![b] = f]
        /\ ownConfig(b, loadOrCreateConfig(f))
        => \A a \in Apps : ownConfig(a, loadOrCreateConfig(file'[a]))
  BY <1>1, <1>2 DEF FilesOK
<1>9. \A a \in Apps : loadOrCreateConfig(file[a]) \in Config
  BY <1>1, LoadServed DEF FilesOK, RoutersServed
<1>10. CASE writeRow(h) \/ rereadRow(h)
  <2>1. file' = file
    BY <1>10 DEF writeRow, rereadRow, throw, fileVars
  <2>2. CASE u = nowhere
    BY <1>4, <1>7, <2>1, <2>2
  <2>3. CASE u # nowhere
    <3>1. \/ \E to : goto(h, to)
          \/ \E row : continue(h, [t EXCEPT !.at = "app", !.row = row])
      BY <1>1, <1>10, <2>3 DEF writeRow, rereadRow, throw, finish
    <3>2. u.of = t.of /\ u.op = t.op /\ u.cfg = t.cfg /\ u.seen = t.seen
      BY <1>1, <3>1, MovesTo DEF agrees
    <3>3. ownTask(u)
      BY <1>6, <3>2
    <3> QED
      BY <1>7, <2>1, <3>3
  <2> QED
    BY <2>2, <2>3
<1>11. CASE findApplication(h)
  <2>1. file' = file
    BY <1>11 DEF findApplication, throw, fileVars
  <2>2. CASE u = nowhere
    BY <1>4, <1>7, <2>1, <2>2
  <2>3. CASE u # nowhere
    <3>1. continue(h, [t EXCEPT !.at = "load", !.seen = attached(appOf[t.of])])
      BY <1>1, <1>11, <2>3 DEF findApplication, throw, finish
    <3>2. u.of = t.of /\ u.op = t.op /\ u.cfg = t.cfg /\ u.seen = attached(appOf[t.of])
      <4>1. u = [t EXCEPT !.at = "load", !.seen = attached(appOf[t.of])]
        BY <1>1, <3>1 DEF continue
      <4> QED
        BY <1>1, <4>1 DEF Task
    <3>3. appOf[t.of] \in Apps
      BY <1>1, <1>11, IdsAssumption DEF findApplication, soundTask
    <3>4. ownTask(u)
      BY <1>2, <3>2, <3>3, AttachedOwn DEF ownTask
    <3> QED
      BY <1>7, <2>1, <3>4
  <2> QED
    BY <2>2, <2>3
<1>12. CASE load(h) \/ readApp(h)
  <2> DEFINE cfg == loadOrCreateConfig(file[appOf[t.of]])
  <2>1. file' = file
    BY <1>12 DEF load, readApp, fileVars
  <2>2. appOf[t.of] \in Apps
    BY <1>1, <1>12, IdsAssumption DEF load, readApp, at, soundTask, DomainStages
  <2>3. ownConfig(appOf[t.of], cfg)
    BY <1>2, <2>2
  <2> HIDE DEF cfg
  <2>4. u.of = t.of /\ u.op = t.op /\ u.seen = t.seen /\ u.cfg \in {cfg, Empty}
    <3>1. CASE load(h)
      <4>1. \/ continue(h, [t EXCEPT !.at = "paths", !.cfg = cfg])
            \/ fail(h, [t EXCEPT !.at = "paths", !.cfg = Empty])
        BY <3>1 DEF load, cfg
      <4>2. CASE continue(h, [t EXCEPT !.at = "paths", !.cfg = cfg])
        <5>1. u = [t EXCEPT !.at = "paths", !.cfg = cfg]
          BY <1>1, <4>2 DEF continue
        <5> QED
          BY <1>1, <5>1 DEF Task
      <4>3. CASE fail(h, [t EXCEPT !.at = "paths", !.cfg = Empty])
        <5>1. u = [[t EXCEPT !.at = "paths", !.cfg = Empty] EXCEPT !.clean = FALSE]
          BY <1>1, <4>3 DEF fail, continue
        <5> QED
          BY <1>1, <5>1 DEF Task
      <4> QED
        BY <4>1, <4>2, <4>3
    <3>2. CASE readApp(h)
      <4>1. \/ continue(h, [t EXCEPT !.at = "mwWrite", !.cfg = cfg])
            \/ fail(h, [t EXCEPT !.at = "mwWrite", !.cfg = Empty])
        BY <3>2 DEF readApp, cfg
      <4>2. CASE continue(h, [t EXCEPT !.at = "mwWrite", !.cfg = cfg])
        <5>1. u = [t EXCEPT !.at = "mwWrite", !.cfg = cfg]
          BY <1>1, <4>2 DEF continue
        <5> QED
          BY <1>1, <5>1 DEF Task
      <4>3. CASE fail(h, [t EXCEPT !.at = "mwWrite", !.cfg = Empty])
        <5>1. u = [[t EXCEPT !.at = "mwWrite", !.cfg = Empty] EXCEPT !.clean = FALSE]
          BY <1>1, <4>3 DEF fail, continue
        <5> QED
          BY <1>1, <5>1 DEF Task
      <4> QED
        BY <4>1, <4>2, <4>3
    <3> QED
      BY <1>12, <3>1, <3>2
  <2>5. ownTask(u)
    BY <1>2, <2>3, <2>4, EmptyOwn DEF ownTask
  <2> QED
    BY <1>7, <2>1, <2>5
<1>13. CASE readForPaths(h) \/ writePaths(h) \/ queryAuthDomain(h) \/ readForGate(h) \/ writeGate(h)
  <2>1. file' = file
    BY <1>13 DEF readForPaths, writePaths, queryAuthDomain, readForGate, writeGate,
       writeMiddlewares, fileVars
  <2>2. u.of = t.of /\ u.op = t.op /\ u.seen = t.seen /\ u.cfg = t.cfg
    BY <1>1, <1>13, MovesTo DEF readForPaths, writePaths, queryAuthDomain, readForGate, writeGate,
       writeMiddlewares, agrees
  <2>3. ownTask(u)
    BY <1>6, <2>2
  <2> QED
    BY <1>7, <2>1, <2>3
<1>14. CASE updateUserRow(h)
  <2>1. file' = file
    BY <1>14 DEF updateUserRow, fileVars
  <2>2. CASE u = nowhere
    BY <1>4, <1>7, <2>1, <2>2
  <2>3. CASE u # nowhere
    <3>1. u = [t EXCEPT !.op = "restoreUser", !.at = "mwRead"] /\ t.op \in UserOps
      BY <1>1, <1>14, <2>3 DEF updateUserRow, continue, finish, UserOps
    <3>2. /\ u.of = t.of /\ u.op = "restoreUser" /\ t.op \in UserOps
          /\ u.cfg = t.cfg /\ u.seen = t.seen
      BY <1>1, <3>1 DEF Task
    <3> QED
      BY <1>6, <1>7, <2>1, <3>2 DEF UserOps
  <2> QED
    BY <2>2, <2>3
<1>15. CASE deleteRow(h) \/ deleteApplicationRow(h)
  <2>1. file' = file
    BY <1>15 DEF deleteRow, deleteApplicationRow, fileVars
  <2>2. CASE u = nowhere
    BY <1>4, <1>7, <2>1, <2>2
  <2>3. CASE u # nowhere
    <3>1. \E to : goto(h, to)
      BY <1>1, <1>15, <2>3 DEF deleteRow, deleteApplicationRow, finish
    <3>2. u.of = t.of /\ u.op = t.op /\ u.cfg = t.cfg /\ u.seen = t.seen
      BY <1>1, <3>1, MovesTo DEF agrees
    <3>3. ownTask(u)
      BY <1>6, <3>2
    <3> QED
      BY <1>7, <2>1, <3>3
  <2> QED
    BY <2>2, <2>3
<1>16. CASE readMiddlewares(h) \/ writeAttachment(h)
  <2>1. file' = file
    BY <1>16 DEF readMiddlewares, writeAttachment, fileVars
  <2>2. CASE u = nowhere
    BY <1>4, <1>7, <2>1, <2>2
  <2>3. CASE u # nowhere
    <3>1. \/ \E mw, to : continue(h, [t EXCEPT !.mw = mw, !.at = to])
          \/ \E to : goto(h, to) \/ fail(h, [t EXCEPT !.at = to])
      BY <1>1, <1>16, <2>3 DEF readMiddlewares, writeAttachment, proceed, failAndProceed,
         finish, failAndThrow
    <3>2. u.of = t.of /\ u.op = t.op /\ u.cfg = t.cfg /\ u.seen = t.seen
      BY <1>1, <3>1, MovesTo DEF agrees
    <3>3. ownTask(u)
      BY <1>6, <3>2
    <3> QED
      BY <1>7, <2>1, <3>3
  <2> QED
    BY <2>2, <2>3
<1>17. CASE writeDomain(h)
  <2>1. /\ t.op \in DomainOps /\ t.of \in Domains /\ u = nowhere
        /\ t.row \in Settings \cup {NoDomain} /\ t.seen \in SUBSET Reference
        /\ t.cfg \in Config /\ appOf[t.of] \in Apps
    BY <1>1, <1>17, IdsAssumption
       DEF writeDomain, soundTask, finish, failAndThrow, Task
  <2>2. edited(t) \in Config
    BY <1>1, <2>1, SetDomainServed DEF edited, soundTask
  <2>3. ownConfig(appOf[t.of], edited(t))
    BY <1>2, <2>1, SetDomainOwn DEF edited, ownTask
  <2>4. file' = file \/ \E f \in {NoFile, edited(t)} : file' = [file EXCEPT ![appOf[t.of]] = f]
    BY <1>17 DEF writeDomain
  <2>5. \A a \in Apps : ownConfig(a, loadOrCreateConfig(file'[a]))
    BY <1>2, <1>8, <2>1, <2>2, <2>3, <2>4, EmptyOwn DEF loadOrCreateConfig
  <2> QED
    BY <1>4, <1>5, <2>1, <2>5
<1>18. CASE writeApp(h)
  <2>1. /\ t.op \in RedirectOps \cup UserOps /\ t.cfg \in Config /\ appOf[t.of] \in Apps
    BY <1>1, <1>18, IdsAssumption DEF writeApp, soundTask, Task
  <2>2. appEdit(t) \in Config /\ ownConfig(appOf[t.of], appEdit(t))
    BY <1>1, <1>2, <2>1, AppEditServed, AppEditOwn DEF ownTask
  <2>3. file' = file \/ \E f \in {NoFile, appEdit(t)} : file' = [file EXCEPT ![appOf[t.of]] = f]
    BY <1>18 DEF writeApp
  <2>4. \A a \in Apps : ownConfig(a, loadOrCreateConfig(file'[a]))
    BY <1>2, <1>8, <2>1, <2>2, <2>3, EmptyOwn DEF loadOrCreateConfig
  <2>5. CASE u = nowhere
    BY <1>4, <1>5, <2>4, <2>5
  <2>6. CASE u # nowhere
    <3>1. \E to : goto(h, to) \/ fail(h, [t EXCEPT !.at = to])
      BY <1>1, <1>18, <2>6 DEF writeApp, proceed, failAndProceed, finish, failAndThrow
    <3>2. u.of = t.of /\ u.op = t.op /\ u.cfg = t.cfg /\ u.seen = t.seen
      BY <1>1, <3>1, MovesTo DEF agrees
    <3>3. ownTask(u)
      BY <1>6, <3>2
    <3> QED
      BY <1>5, <2>4, <3>3
  <2> QED
    BY <2>5, <2>6
<1>19. CASE removeTraefikConfig(h)
  <2>1. u = nowhere /\ t.of \in Apps
    BY <1>1, <1>19 DEF removeTraefikConfig, finish, failAndThrow, soundTask
  <2>2. file' = file \/ file' = [file EXCEPT ![t.of] = NoFile]
    BY <1>19 DEF removeTraefikConfig
  <2>3. \A a \in Apps : ownConfig(a, loadOrCreateConfig(file'[a]))
    BY <1>2, <1>8, <2>1, <2>2, EmptyOwn DEF loadOrCreateConfig
  <2> QED
    BY <1>4, <1>5, <2>1, <2>3
<1> QED
  BY <1>10, <1>11, <1>12, <1>13, <1>14, <1>15, <1>16, <1>17, <1>18, <1>19 DEF Work

-----------------------------------------------------------------------------
(* Requests that run alone                                                 *)

LEMMA CleanAloneArrive ==
  ASSUME IInv, CleanAlone, NEW h \in Handlers, Arrive(h) PROVE CleanAlone'
<1>1. begun(h, task'[h])
  BY ArriveMoves
<1>2. \A g \in Handlers \ {h} : task'[g].op = task[g].op /\ ~ task'[g].clean
  BY ArriveOthers
<1>3. task'[h].clean => quietBut({h})
  BY <1>1 DEF begun
<1> QED
  BY <1>2, <1>3 DEF CleanAlone, quietBut, idle

LEMMA CleanAloneWork ==
  ASSUME IInv, CleanAlone, NEW h \in Handlers, Work(h) PROVE CleanAlone'
<1>1. /\ task[h].op # "none"
      /\ \A g \in Handlers \ {h} : task'[g] = task[g]
      /\ task'[h] = nowhere \/ moved(task[h], task'[h])
  BY WorkMoves
<1>2. ~ nowhere.clean
  BY DEF nowhere, newTask
<1>3. task'[h].clean => task[h].clean
  BY <1>1, <1>2 DEF moved
<1> QED
  BY <1>1, <1>3 DEF CleanAlone, idle

-----------------------------------------------------------------------------
(* What is left undone                                                     *)

\* What openRefs and openUsers are, request by request.
LEMMA OpenOf ==
  ASSUME NEW t
  PROVE  /\ t.op \in DomainOps =>
              /\ openRefs(t) = IF t.at \in Loaded THEN {strip(t.of), gate(t.of)} ELSE {}
              /\ openUsers(t) = {}
         /\ t.op = "addRedirect" => openRefs(t) = {redirect(t.of)} /\ openUsers(t) = {}
         /\ t.op = "dropRedirect" =>
              /\ openRefs(t) = IF t.at # "row" THEN {redirect(t.of)} ELSE {}
              /\ openUsers(t) = {}
         /\ t.op \in {"editRedirect", "none"} => openRefs(t) = {} /\ openUsers(t) = {}
         /\ t.op \in {"addUser", "changeUser", "restoreUser"} =>
              openRefs(t) = {auth(appOf[t.of])} /\ openUsers(t) = {t.of}
         /\ t.op = "dropUser" =>
              /\ openRefs(t) = IF t.at \in {"fileWrite", "rm"} THEN {auth(appOf[t.of])} ELSE {}
              /\ openUsers(t) = IF t.at # "row" THEN {t.of} ELSE {}
         /\ t.op = "deleteApp" =>
              /\ openRefs(t) = IF t.at # "row" THEN ownRefs(t.of) ELSE {}
              /\ openUsers(t) = IF t.at # "row" THEN {u \in Users : appOf[u] = t.of} ELSE {}
<1> HIDE DEF strip, gate, redirect, auth
<1>1. CASE t.op \in DomainOps
  BY <1>1 DEF openRefs, openUsers, DomainOps
<1>2. CASE t.op = "addRedirect"
  BY <1>2 DEF openRefs, openUsers, DomainOps
<1>3. CASE t.op = "dropRedirect"
  BY <1>3 DEF openRefs, openUsers, DomainOps
<1>4. CASE t.op \in {"editRedirect", "none"}
  BY <1>4 DEF openRefs, openUsers, DomainOps
<1>5. CASE t.op \in {"addUser", "changeUser", "restoreUser"}
  BY <1>5 DEF openRefs, openUsers, DomainOps
<1>6. CASE t.op = "dropUser"
  BY <1>6 DEF openRefs, openUsers, DomainOps
<1>7. CASE t.op = "deleteApp"
  BY <1>7 DEF openRefs, openUsers, DomainOps
<1> QED
  BY <1>1, <1>2, <1>3, <1>4, <1>5, <1>6, <1>7

\* Something more may be left undone when files and rows stay as they are.
LEMMA SettledFrame ==
  ASSUME NEW E, NEW F, NEW U, NEW V, Settled(E, U), E \subseteq F, U \subseteq V,
         UNCHANGED <<redirects, users, file, middlewares>>,
         \A ref : ref \in Unset /\ ref \notin F => ref \in Unset'
  PROVE  Settled(F, V)'
<1>1. \A a : Want(a)' = Want(a) /\ routers(a)' = routers(a)
  BY DEF Want, routers
<1> HIDE DEF Unset
<1> QED
  BY <1>1 DEF Settled

\* The sign-on no authentication domain backs stays what it was.
LEMMA UnsetFrame ==
  ASSUME UNCHANGED ungated PROVE Unset' = Unset
BY DEF Unset

\* Rows go, and what they wanted is left undone.
LEMMA SettledRows ==
  ASSUME NEW E, NEW F, NEW U, NEW V, Settled(E, U), UNCHANGED <<file, middlewares>>,
         Unset' = Unset,
         \A a \in Apps : Want(a)' \ F \subseteq Want(a) \ E,
         E \subseteq F, U \subseteq V,
         \A u \in Users \ V : u \in users' <=> u \in users
  PROVE  Settled(F, V)'
<1>1. \A a : routers(a)' = routers(a)
  BY DEF routers
<1> HIDE DEF Unset
<1> QED
  BY <1>1 DEF Settled

\* A write of middlewares.yml that takes away nothing but what is left undone.
LEMMA SettledMiddlewares ==
  ASSUME NEW E, NEW F, NEW U, NEW V, Settled(E, U), UNCHANGED <<redirects, users, file>>,
         FilesOK, Unset' = Unset,
         NEW mw, mw = section(middlewares'),
         RedirectToHttps \in mw,
         \A u \in Users \ V : u \in users <=> user(u) \in mw,
         \A ref \in Reference : ref \notin F /\ defined(ref, section(middlewares)) => defined(ref, mw),
         E \subseteq F
  PROVE  Settled(F, V)'
<1>1. \A a : Want(a)' = Want(a) /\ routers(a)' = routers(a)
  BY DEF Want, routers
<1> HIDE DEF Unset
<1>2. PICK old : old = section(middlewares)
  OBVIOUS
<1>3. section(middlewares)' = mw
  BY DEF section
<1>4. ASSUME NEW a \in Apps
      PROVE  Want(a) \subseteq Reference /\ \A x \in routers(a) : x.uses \subseteq Reference
  <2>1. Want(a) \subseteq Reference
    BY EntryNames DEF Want
  <2>2. loadOrCreateConfig(file[a]) \in Config
    BY LoadServed DEF FilesOK, RoutersServed
  <2> QED
    BY <2>1, <2>2 DEF routers, Config, Router
<1>5. ASSUME NEW a \in Apps
      PROVE  /\ \A ref \in Want(a) \ F : defined(ref, mw)
             /\ \A x \in routers(a) :
                  /\ RedirectToHttps \notin x.uses => Want(a) \ F \subseteq x.uses
                  /\ \A ref \in x.uses \ F : defined(ref, mw) \/ ref \in Unset
  <2>1. /\ \A ref \in Want(a) \ E : defined(ref, old)
        /\ \A x \in routers(a) :
             /\ RedirectToHttps \notin x.uses => Want(a) \ E \subseteq x.uses
             /\ \A ref \in x.uses \ E : defined(ref, old) \/ ref \in Unset
    BY <1>2 DEF Settled
  <2> QED
    BY <1>2, <1>4, <2>1
<1> QED
  BY <1>1, <1>3, <1>5 DEF Settled

\* A write of the file of b, when nothing left undone is about others.
LEMMA SettledFile ==
  ASSUME IInv, NEW E, NEW F, NEW U, NEW V, Settled(E, U),
         UNCHANGED <<redirects, middlewares>>, Unset' = Unset,
         NEW b \in Apps, NEW f \in Config \cup {NoFile}, file' = [file EXCEPT ![b] = f],
         NEW mw, mw = section(middlewares),
         \A u \in Users \ V : u \in users' <=> user(u) \in mw,
         \A a \in Apps \ {b} : Want(a)' = Want(a) /\ Want(a) \cap E = {},
         \A a \in Apps \ {b} : \A x \in routers(a) : x.uses \cap E = {},
         \A ref \in Want(b)' \ F : defined(ref, mw),
         \A x \in loadOrCreateConfig(f).routers :
           /\ RedirectToHttps \notin x.uses => Want(b)' \ F \subseteq x.uses
           /\ \A ref \in x.uses \ F : defined(ref, mw) \/ ref \in Unset
  PROVE  Settled(F, V)'
<1>1. file \in [Apps -> Config \cup {NoFile}]
  BY DEF IInv, TypeOK
<1>2. /\ routers(b)' = loadOrCreateConfig(f).routers
      /\ \A a \in Apps \ {b} : routers(a)' = routers(a)
  BY <1>1 DEF routers
<1>3. section(middlewares)' = mw
  BY DEF section
<1> HIDE DEF Unset
<1>4. ASSUME NEW a \in Apps \ {b}
      PROVE  /\ \A ref \in Want(a)' \ F : defined(ref, mw)
             /\ \A x \in routers(a)' :
                  /\ RedirectToHttps \notin x.uses => Want(a)' \ F \subseteq x.uses
                  /\ \A ref \in x.uses \ F : defined(ref, mw) \/ ref \in Unset
  BY <1>2 DEF Settled
<1> QED
  BY <1>2, <1>3, <1>4 DEF Settled

-----------------------------------------------------------------------------
\* What is defined stays so while its name, or some user of it, stays.
LEMMA DefinedKept ==
  ASSUME NEW mw, NEW new, NEW ref, defined(ref, mw),
         ref \in mw => ref \in new,
         \A a \in Apps : ref = auth(a) /\ usersIn(mw, a) # {} => usersIn(new, a) # {}
  PROVE  defined(ref, new)
BY DEF defined

LEMMA DefinedMore ==
  ASSUME NEW mw, NEW new, mw \subseteq new
  PROVE  \A ref : defined(ref, mw) => defined(ref, new)
BY DEF defined, usersIn

\* A name that is not a user's is taken away.
LEMMA DefinedLess ==
  ASSUME NEW mw, NEW gone, \A u \in Users : user(u) \notin gone
  PROVE  \A ref : ref \notin gone /\ defined(ref, mw) => defined(ref, mw \ gone)
BY DEF defined, usersIn

\* What an application has is not another's.
LEMMA OwnApart ==
  ASSUME NEW a \in Apps, NEW b \in Apps \ {a}
  PROVE  /\ ownRefs(a) \cap ownRefs(b) = {}
         /\ Want(a) \cap ownRefs(b) = {}
         /\ \A d : \A e \in {strip(d), gate(d)} : e \notin ownRefs(a)
<1>1. Want(a) \subseteq ownRefs(a)
  BY AttachedOwn
<1>2. ownRefs(a) \cap ownRefs(b) = {}
  <2> HIDE DEF redirect, auth
  <2> QED
    BY NamesDiffer DEF ownRefs
<1>3. \A d : \A e \in {strip(d), gate(d)} : e \notin ownRefs(a)
  <2> HIDE DEF redirect, auth, strip, gate
  <2> QED
    BY NamesDiffer DEF ownRefs
<1> QED
  BY <1>1, <1>2, <1>3

LEMMA RoutersApart ==
  ASSUME Owned, NEW a \in Apps, NEW b \in Apps \ {a}, NEW x \in routers(a)
  PROVE  /\ x.uses \cap ownRefs(b) = {}
         /\ \A d : appOf[d] = b => x.uses \cap {strip(d), gate(d)} = {}
<1>1. appOf[x.of] = a /\ x.uses \subseteq ownRefs(a) \cup {RedirectToHttps, strip(x.of), gate(x.of)}
  BY DEF Owned, ownConfig, routers
<1>2. RedirectToHttps \notin ownRefs(b)
  <2> HIDE DEF redirect, auth, RedirectToHttps
  <2> QED
    BY NamesDiffer DEF ownRefs
<1>3. x.uses \cap ownRefs(b) = {}
  BY <1>1, <1>2, OwnApart
<1>4. \A d : d # x.of => x.uses \cap {strip(d), gate(d)} = {}
  <2> HIDE DEF strip, gate, RedirectToHttps
  <2> QED
    BY <1>1, OwnApart, NamesDiffer
<1> QED
  BY <1>1, <1>3, <1>4

\* What the routers of a domain may use.
LEMMA RouterUses ==
  ASSUME NEW d, NEW row, NEW seen, NEW x \in routersFor(d, row, seen)
  PROVE  /\ exposed(row) /\ x.of = d
         /\ RedirectToHttps \notin x.uses => seen \subseteq x.uses
         /\ \A ref \in x.uses : \/ ref = RedirectToHttps \/ ref \in seen
                                \/ ref = strip(d) /\ row.strip
                                \/ ref = gate(d) /\ row.gate
<1>1. exposed(row)
  BY DEF routersFor
<1>2. PICK s \in BOOLEAN : x = createRouterConfig(d, row, seen, s)
  BY <1>1 DEF routersFor
<1> HIDE DEF strip, gate, RedirectToHttps
<1>3. /\ x.of = d
      /\ x.uses = IF row.https /\ ~ s
                  THEN {RedirectToHttps}
                  ELSE seen \cup {strip(e) : e \in {e \in {d} : row.strip}}
                            \cup {gate(e) : e \in {e \in {d} : row.gate}}
  BY <1>2 DEF createRouterConfig
<1> QED
  BY <1>1, <1>3

\* Without a row inserted and not committed, the routers are behind what is attached.
LEMMA WantAttached ==
  ASSUME RowsOK, \A r \in Redirects : redirects[r] # "inserted"
  PROVE  \A a : attached(a) = Want(a)
<1>1. \A r \in Redirects : redirects[r] = "saved" <=> redirects[r] # "none"
  BY DEF RowsOK
<1> QED
  BY <1>1 DEF attached, Want

-----------------------------------------------------------------------------
LEMMA TidyInit == Init => CleanAlone /\ Tidy
<1> SUFFICES ASSUME Init PROVE CleanAlone /\ Tidy
  OBVIOUS
<1>1. RowsOK /\ FilesOK
  BY InitInvariant, Parts
<1>2. \A h \in Handlers : task[h].op = "none" /\ ~ task[h].clean
  BY DEF Init, nowhere, newTask
<1>3. \A r \in Redirects : redirects[r] \in {"none", "saved"}
  BY ShapesAssumption DEF Init
<1>4. \A a : attached(a) = Want(a)
  BY <1>1, <1>3, WantAttached
<1> DEFINE S == {d \in Enabled : domains[d].strip}
           G == {d \in Enabled : domains[d].gate}
           R == {r \in Redirects : redirects[r] = "saved"}
<1>5. /\ middlewares = {RedirectToHttps} \cup {strip(d) : d \in S} \cup {gate(d) : d \in G}
                         \cup {redirect(r) : r \in R} \cup {user(u) : u \in users}
      /\ middlewares \in SUBSET Entry
  <2>1. middlewares = {RedirectToHttps} \cup {strip(d) : d \in S} \cup {gate(d) : d \in G}
                        \cup {redirect(r) : r \in R} \cup {user(u) : u \in users}
    BY DEF Init
  <2>2. S \subseteq Domains /\ G \subseteq Domains /\ R \subseteq Redirects /\ users \subseteq Users
    BY <1>1 DEF RowsOK, Enabled
  <2> HIDE DEF S, G, R, strip, gate, redirect, user, RedirectToHttps
  <2> QED
    BY <2>1, <2>2, EntryNames
<1>6. section(middlewares) = middlewares
  BY <1>5, AbsenceAssumption DEF section
<1>7. \A u \in Users : u \in users <=> user(u) \in middlewares
  <2> HIDE DEF S, G, R, strip, gate, redirect, user, RedirectToHttps
  <2> QED
    BY <1>5, NamesDiffer
<1>8. ASSUME NEW a \in Apps, NEW ref \in Want(a) PROVE defined(ref, middlewares)
  <2>1. CASE \E r \in R : ref = redirect(r)
    BY <1>5, <2>1 DEF defined
  <2>2. CASE ref = auth(a) /\ \E u \in users : appOf[u] = a
    <3>1. PICK u \in users : appOf[u] = a
      BY <2>2
    <3>2. u \in usersIn(middlewares, a)
      BY <1>1, <1>7, <3>1 DEF usersIn, RowsOK
    <3> QED
      BY <2>2, <3>2 DEF defined
  <2> QED
    BY <1>3, <2>1, <2>2 DEF Want
<1>9. ASSUME NEW a \in Apps, NEW x \in routers(a)
      PROVE  /\ RedirectToHttps \notin x.uses => Want(a) \subseteq x.uses
             /\ \A ref \in x.uses : defined(ref, middlewares)
  <2> DEFINE D == {e \in Enabled : appOf[e] = a}
  <2>1. PICK e \in D : x \in routersFor(e, domains[e], attached(a))
    <3>1. file[a] = rendered(a)
      BY DEF Init
    <3>2. CASE D = {}
      BY <3>1, <3>2 DEF rendered, routers, loadOrCreateConfig, Empty
    <3>3. CASE D # {}
      <4>1. rendered(a).routers = UNION {routersFor(e, domains[e], attached(a)) : e \in D}
        BY <3>3 DEF rendered
      <4>2. rendered(a) # NoFile
        BY <1>9, <3>1 DEF routers, loadOrCreateConfig, Empty
      <4>3. x \in UNION {routersFor(e, domains[e], attached(a)) : e \in D}
        BY <3>1, <4>1, <4>2 DEF routers, loadOrCreateConfig
      <4> QED
        BY <4>3
    <3> QED
      BY <3>2, <3>3
  <2>2. /\ RedirectToHttps \notin x.uses => Want(a) \subseteq x.uses
        /\ \A ref \in x.uses : \/ ref = RedirectToHttps \/ ref \in Want(a)
                               \/ ref = strip(e) /\ e \in S
                               \/ ref = gate(e) /\ e \in G
    BY <1>4, <2>1, RouterUses
  <2>3. \A ref \in middlewares : defined(ref, middlewares)
    BY DEF defined
  <2> HIDE DEF S, G, R, strip, gate, redirect, user, RedirectToHttps
  <2> QED
    BY <1>5, <1>8, <2>2, <2>3
<1>10. Settled({}, {})
  <2> HIDE DEF S, G, R, strip, gate, redirect, user, RedirectToHttps
  <2> QED
    BY <1>5, <1>6, <1>7, <1>8, <1>9 DEF Settled
<1> QED
  BY <1>2, <1>10 DEF CleanAlone, Tidy

-----------------------------------------------------------------------------
\* What a request finds in the rows when it arrives.
LEMMA ArriveFinds ==
  ASSUME IInv, NEW h \in Handlers, Arrive(h), NEW v, v = task'[h]
  PROVE  /\ v.op = "changeUser" => v.of \in users
         /\ redirects' = redirects \/ redirects' = [redirects EXCEPT ![v.of] = "inserted"]
         /\ v.op # "restoreUser"
<1>1. task \in [Handlers -> Task]
  BY Parts DEF TasksOK
<1>2. ASSUME NEW t, arrive(h, t) PROVE v = [t EXCEPT !.clean = quietBut({h})]
  BY <1>2 DEF arrive
<1>3. ASSUME NEW op, NEW stage, NEW x, NEW row, arrive(h, newTask(op, stage, x, row))
      PROVE  v.op = op /\ v.of = x
  <2>1. v = [newTask(op, stage, x, row) EXCEPT !.clean = quietBut({h})]
    BY <1>2, <1>3
  <2> QED
    BY <2>1 DEF newTask
<1>4. ASSUME NEW a, begin(h, [newTask("deleteApp", "row", a, NoDomain) EXCEPT !.seen = attached(a)])
      PROVE  v.op = "deleteApp" /\ v.of = a /\ redirects' = redirects
  <2> DEFINE c == [newTask("deleteApp", "row", a, NoDomain) EXCEPT !.seen = attached(a)]
  <2>1. c.op = "deleteApp" /\ c.of = a
    BY DEF newTask
  <2>2. v = [c EXCEPT !.clean = quietBut({h})]
    BY <1>2, <1>4 DEF begin
  <2>3. /\ DOMAIN c = {"op", "at", "of", "row", "seen", "cfg", "mw", "clean"}
        /\ c = [f \in DOMAIN c |-> c[f]]
    BY DEF newTask
  <2> HIDE DEF c
  <2> QED
    BY <1>4, <2>1, <2>2, <2>3 DEF begin, rowVars
<1>5. CASE \E d \in Domains, shape \in Shapes :
             createDomain(h, d, shape) \/ updateDomain(h, d, shape)
  BY <1>3, <1>5 DEF createDomain, updateDomain, begin, rowVars
<1>6. CASE \E d \in Domains : toggleEnable(h, d) \/ deleteDomain(h, d)
  BY <1>3, <1>6 DEF toggleEnable, deleteDomain, begin, rowVars
<1>7. CASE \E r \in Redirects : createRedirect(h, r) \/ updateRedirect(h, r) \/ removeRedirect(h, r)
  BY <1>3, <1>7 DEF createRedirect, updateRedirect, removeRedirect, begin, rowVars
<1>8. CASE \E u \in Users : createSecurity(h, u) \/ deleteSecurity(h, u) \/ updateSecurity(h, u)
  BY <1>3, <1>8 DEF createSecurity, deleteSecurity, updateSecurity, begin, rowVars
<1>9. CASE \E a \in Apps : deleteApplication(h, a)
  BY <1>4, <1>9 DEF deleteApplication
<1> QED
  BY <1>5, <1>6, <1>7, <1>8, <1>9 DEF Arrive

LEMMA TidyArrive ==
  ASSUME IInv, CleanAlone, Tidy, NEW h \in Handlers, Arrive(h) PROVE Tidy'
<1>1. /\ begun(h, task'[h])
      /\ UNCHANGED <<users, file, middlewares, calm>> /\ Unset' = Unset
      /\ redirects' # redirects => task'[h].op = "addRedirect"
      /\ task[h].op = "none"
  BY ArriveMoves, UnsetFrame DEF fileVars, gateVars
<1>2. \A g \in Handlers \ {h} : ~ task'[g].clean
  BY ArriveOthers
<1>3. PICK v : v = task'[h]
  OBVIOUS
<1>4. /\ v.op = "changeUser" => v.of \in users
      /\ redirects' = redirects \/ redirects' = [redirects EXCEPT ![v.of] = "inserted"]
      /\ v.op # "restoreUser"
  BY <1>3, ArriveFinds
<1>5. /\ v.op # "none"
      /\ v.at = IF v.op = "create" THEN "app"
                ELSE IF v.op \in DomainOps \cup {"dropRedirect", "dropUser", "deleteApp"}
                THEN "row" ELSE "mwRead"
      /\ v.clean = quietBut({h})
      /\ v.op = "deleteApp" => v.of \in Apps /\ v.seen = attached(v.of)
  BY <1>1, <1>3 DEF begun, IInv, TypeOK
<1>6. SUFFICES ASSUME calm, v.clean
               PROVE  Settled(openRefs(v), openUsers(v))' /\ Knows(v)'
  <2>1. \A g \in Handlers : task'[g].clean /\ task'[g].op # "none" => g = h /\ v.clean
    BY <1>2, <1>3
  <2> QED
    BY <1>1, <1>3, <1>5, <1>6, <2>1 DEF Tidy, idle
<1>7. Settled({}, {})
  BY <1>1, <1>5, <1>6 DEF Tidy, quietBut, idle
<1>8. Settled(openRefs(v), openUsers(v))'
  <2>1. CASE redirects' = redirects
    BY <1>1, <1>7, <2>1, SettledFrame
  <2>2. CASE redirects' # redirects
    <3>1. v.op = "addRedirect" /\ redirects' = [redirects EXCEPT ![v.of] = "inserted"]
      BY <1>1, <1>3, <1>4, <2>2
    <3>2. redirects \in [Redirects -> {"none", "inserted", "saved"}]
      BY DEF IInv, TypeOK
    <3>3. \A a : Want(a)' \ {redirect(v.of)} \subseteq Want(a)
      BY <1>1, <3>1, <3>2 DEF Want
    <3>4. openRefs(v) = {redirect(v.of)} /\ openUsers(v) = {}
      BY <3>1, OpenOf
    <3>5. Settled({redirect(v.of)}, {})'
      <4> HIDE DEF redirect
      <4> QED
        BY <1>1, <1>7, <3>3, SettledRows
    <3> QED
      BY <3>4, <3>5
  <2> QED
    BY <2>1, <2>2
<1>9. Knows(v)'
  <2>1. ASSUME v.op = "deleteApp"
        PROVE  /\ v.seen \subseteq ownRefs(v.of)
               /\ auth(v.of) \in v.seen <=> \E u \in users : appOf[u] = v.of
    <3>1. v.seen \subseteq ownRefs(v.of)
      BY <1>5, <2>1, AttachedOwn
    <3>2. auth(v.of) \in attached(v.of) <=> \E u \in users : appOf[u] = v.of
      <4> HIDE DEF auth, redirect
      <4>1. \A r : auth(v.of) # redirect(r)
        BY NamesDiffer
      <4> QED
        BY <4>1, NamesDiffer DEF attached
    <3> QED
      BY <1>5, <2>1, <3>1, <3>2
  <2>2. v.at \in {"app", "row", "mwRead"}
    BY <1>5
  <2>3. v.op \in {"dropRedirect", "dropUser", "deleteApp"} => v.at = "row"
    BY <1>5 DEF DomainOps
  <2>4. v.op = "editRedirect" => v.at = "mwRead"
    BY <1>5 DEF DomainOps
  <2>5. "app" \notin Loaded /\ "row" \notin Loaded /\ "mwRead" \notin Loaded
    BY DEF Loaded, DomainStages
  <2> HIDE DEF auth, redirect, user, strip, gate
  <2> QED
    BY <1>1, <1>4, <2>1, <2>2, <2>3, <2>4, <2>5 DEF Knows
<1> QED
  BY <1>8, <1>9

\* The commit of a redirect changes nothing for files that know it already.
LEMMA TidyCommit ==
  ASSUME IInv, CleanAlone, Tidy, NEW r \in Redirects, commitRedirect(r)
  PROVE  CleanAlone' /\ Tidy'
<1>1. /\ UNCHANGED <<users, file, middlewares, task, calm>> /\ Unset' = Unset
      /\ redirects' = [redirects EXCEPT ![r] = "saved"] /\ redirects[r] = "inserted"
      /\ redirects \in [Redirects -> {"none", "inserted", "saved"}]
  BY UnsetFrame DEF commitRedirect, gateVars, fileVars, IInv, TypeOK
<1>2. \A x : redirects'[x] = "none" <=> redirects[x] = "none"
  BY <1>1
<1>3. \A x \in Redirects : redirects'[x] = "none" <=> redirects[x] = "none"
  BY <1>1
<1>4. \A a : Want(a)' = Want(a)
  BY <1>1, <1>3 DEF Want
<1>5. \A E, U : Settled(E, U) => Settled(E, U)'
  <2> TAKE E, U
  <2>1. \A a : routers(a)' = routers(a)
    BY <1>1 DEF routers
  <2> HIDE DEF Unset
  <2> QED
    BY <1>1, <1>4, <2>1 DEF Settled
<1>6. \A t : Knows(t) => Knows(t)'
  <2> HIDE DEF Unset, auth, redirect, user, strip, gate
  <2> QED
    BY <1>1, <1>2, <1>3 DEF Knows
<1>7. ASSUME calm, NEW h \in Handlers, task[h].clean, ~ idle(h)
      PROVE  (Settled(openRefs(task[h]), openUsers(task[h])) /\ Knows(task[h]))'
  <2>1. PICK t : t = task[h]
    OBVIOUS
  <2>2. Settled(openRefs(t), openUsers(t)) /\ Knows(t)
    BY <1>7, <2>1 DEF Tidy
  <2>3. Settled(openRefs(t), openUsers(t))' /\ Knows(t)'
    BY <1>5, <1>6, <2>2
  <2>4. task'[h] = t
    BY <1>1, <2>1
  <2> QED
    BY <2>3, <2>4
<1> QED
  BY <1>1, <1>5, <1>7 DEF CleanAlone, Tidy, idle

-----------------------------------------------------------------------------
\* A step that leaves its request alone and the system calm is no failure.
LEMMA CleanStep ==
  ASSUME IInv, Tidy, NEW h \in Handlers, Work(h), calm',
         task'[h] = nowhere \/ task'[h].clean
  PROVE  /\ calm /\ task[h].clean /\ faults' = faults
         /\ Settled(openRefs(task[h]), openUsers(task[h])) /\ Knows(task[h])
<1> DEFINE t == task[h]
           u == task'[h]
<1>1. /\ t.op # "none"
      /\ u = nowhere \/ moved(t, u)
      /\ t \in Task /\ TasksOK /\ GhostsOK /\ task \in [Handlers -> Task]
  BY WorkMoves, Parts DEF TasksOK
<1>2. ~ nowhere.clean /\ nowhere.op = "none"
  BY DEF nowhere, newTask
<1>3. ~ failAndThrow(h)
  BY DEF failAndThrow
<1>4. \A stage : ~ fail(h, [t EXCEPT !.at = stage])
  BY <1>1, <1>2, MovesTo DEF agrees
<1>5. ASSUME NEW stage, NEW mw, fail(h, [t EXCEPT !.at = stage, !.mw = mw]) PROVE FALSE
  <2>1. u = [[t EXCEPT !.at = stage, !.mw = mw] EXCEPT !.clean = FALSE]
    BY <1>1, <1>5 DEF fail, continue
  <2>2. u.op = t.op /\ ~ u.clean
    BY <1>1, <2>1 DEF Task
  <2> QED
    BY <1>1, <1>2, <2>2
<1>6. ASSUME NEW stage, NEW cfg, fail(h, [t EXCEPT !.at = stage, !.cfg = cfg]) PROVE FALSE
  <2>1. u = [[t EXCEPT !.at = stage, !.cfg = cfg] EXCEPT !.clean = FALSE]
    BY <1>1, <1>6 DEF fail, continue
  <2>2. u.op = t.op /\ ~ u.clean
    BY <1>1, <2>1 DEF Task
  <2> QED
    BY <1>1, <1>2, <2>2
<1>7. faults' = faults
  <2>1. CASE writeRow(h) \/ rereadRow(h) \/ findApplication(h) \/ updateUserRow(h)
             \/ deleteRow(h) \/ deleteApplicationRow(h)
    BY <2>1 DEF writeRow, rereadRow, findApplication, updateUserRow, deleteRow,
       deleteApplicationRow, throw
  <2>2. CASE load(h) \/ readApp(h)
    BY <1>6, <2>2 DEF load, readApp
  <2>3. CASE readForPaths(h) \/ writePaths(h) \/ writeGate(h)
    BY <1>4, <2>3 DEF readForPaths, writePaths, writeGate, writeMiddlewares
  <2>4. CASE queryAuthDomain(h) \/ readForGate(h)
    BY <1>5, <2>4 DEF queryAuthDomain, readForGate
  <2>5. CASE writeDomain(h) \/ removeTraefikConfig(h)
    BY <1>3, <2>5 DEF writeDomain, removeTraefikConfig
  <2>6. CASE readMiddlewares(h)
    BY <1>3, <1>4, <2>6 DEF readMiddlewares
  <2>7. CASE writeAttachment(h) \/ writeApp(h)
    BY <1>3, <1>4, <2>7 DEF writeAttachment, writeApp, failAndProceed
  <2> QED
    BY <2>1, <2>2, <2>3, <2>4, <2>5, <2>6, <2>7 DEF Work
<1>8. ASSUME u = nowhere PROVE calm /\ t.clean
  <2>1. ASSUME NEW c, continue(h, c) PROVE c = nowhere /\ calm
    BY <1>1, <1>8, <2>1 DEF continue
  <2>2. ASSUME NEW stage PROVE ~ goto(h, stage)
    BY <1>1, <1>2, <1>8, <2>2, MovesTo DEF agrees
  <2>3. calm \in BOOLEAN /\ t.clean \in BOOLEAN
    BY <1>1 DEF GhostsOK, Task
  <2>4. finish(h) => calm /\ t.clean
    BY <2>3 DEF finish
  <2>5. ASSUME NEW stage, NEW x
        PROVE  /\ ~ continue(h, [t EXCEPT !.at = stage, !.cfg = x])
               /\ ~ continue(h, [t EXCEPT !.at = stage, !.mw = x])
               /\ ~ continue(h, [t EXCEPT !.mw = x, !.at = stage])
               /\ ~ continue(h, [t EXCEPT !.at = stage, !.seen = x])
               /\ ~ continue(h, [t EXCEPT !.at = stage, !.row = x])
               /\ ~ continue(h, [t EXCEPT !.op = "restoreUser", !.at = stage])
    <3>1. /\ [t EXCEPT !.at = stage, !.cfg = x].op = t.op
          /\ [t EXCEPT !.at = stage, !.mw = x].op = t.op
          /\ [t EXCEPT !.mw = x, !.at = stage].op = t.op
          /\ [t EXCEPT !.at = stage, !.seen = x].op = t.op
          /\ [t EXCEPT !.at = stage, !.row = x].op = t.op
          /\ [t EXCEPT !.op = "restoreUser", !.at = stage].op = "restoreUser"
      BY <1>1 DEF Task
    <3>2. nowhere.op # t.op /\ nowhere.op # "restoreUser"
      BY <1>1, <1>2
    <3> QED
      BY <2>1, <3>1, <3>2
  <2>7. finish(h)
    <3>1. CASE writeRow(h)
      BY <2>2, <3>1 DEF writeRow
    <3>2. CASE rereadRow(h)
      BY <2>5, <3>2 DEF rereadRow, throw
    <3>3. CASE findApplication(h)
      BY <2>5, <3>3 DEF findApplication, throw
    <3>4. CASE load(h) \/ readApp(h)
      BY <1>6, <2>5, <3>4 DEF load, readApp
    <3>5. CASE readForPaths(h) \/ queryAuthDomain(h) \/ readForGate(h)
      BY <1>4, <1>5, <2>2, <2>5, <3>5 DEF readForPaths, queryAuthDomain, readForGate
    <3>6. CASE readMiddlewares(h)
      BY <1>3, <1>4, <2>5, <3>6 DEF readMiddlewares
    <3>7. CASE writePaths(h) \/ writeGate(h) \/ writeDomain(h) \/ writeAttachment(h) \/ writeApp(h)
      BY <1>1, <1>3, <1>4, <2>2, <3>7 DEF writePaths, writeGate, writeMiddlewares, writeDomain,
         writeAttachment, writeApp, proceed, failAndProceed
    <3>8. CASE updateUserRow(h) \/ deleteRow(h) \/ deleteApplicationRow(h) \/ removeTraefikConfig(h)
      BY <1>3, <2>2, <2>5, <3>8 DEF updateUserRow, deleteRow, deleteApplicationRow,
         removeTraefikConfig
    <3> QED
      BY <3>1, <3>2, <3>3, <3>4, <3>5, <3>6, <3>7, <3>8 DEF Work
  <2> QED
    BY <2>4, <2>7
<1>9. ASSUME u # nowhere PROVE calm /\ t.clean
  <2>1. t.clean
    BY <1>1, <1>9 DEF moved
  <2>2. calm \in BOOLEAN /\ (calm' = calm \/ calm' = (calm /\ t.clean))
    BY <1>1, <1>3 DEF Work, writeRow, rereadRow, findApplication, load, readForPaths, writePaths,
       queryAuthDomain, readForGate, writeGate, writeMiddlewares, writeDomain, updateUserRow,
       deleteRow,
       readMiddlewares, readApp, writeAttachment, writeApp, deleteApplicationRow,
       removeTraefikConfig, throw, finish, fail, proceed, failAndProceed, goto, continue, GhostsOK
  <2> QED
    BY <2>1, <2>2
<1>10. calm /\ t.clean
  BY <1>8, <1>9
<1> QED
  BY <1>1, <1>7, <1>10 DEF Tidy, idle

-----------------------------------------------------------------------------
(* Steps of a request that runs alone                                      *)

\* Handler h has left its request at t as it should be, and takes a step to v.
goesOn(h, t, v) ==
  /\ t = task[h] /\ v = task'[h] /\ faults' = faults
  /\ t \in Task /\ t.op # "none" /\ soundTask(t) /\ StageKept(t)
  /\ Settled(openRefs(t), openUsers(t)) /\ Knows(t)

\* So it leaves it at v.
leaves(v) == Settled(openRefs(v), openUsers(v))' /\ (v # nowhere => Knows(v)')

LEMMA Ended == openRefs(nowhere) = {} /\ openUsers(nowhere) = {}
<1>1. nowhere.op = "none"
  BY DEF nowhere, newTask
<1> QED
  BY <1>1, OpenOf

LEMMA GoesTo ==
  ASSUME IInv, NEW h \in Handlers, NEW t, NEW v, goesOn(h, t, v)
  PROVE  /\ \A c : continue(h, c) => v = c
         /\ finish(h) => v = nowhere
         /\ \A stage : goto(h, stage) =>
              /\ v.op = t.op /\ v.of = t.of /\ v.row = t.row /\ v.at = stage
              /\ v.seen = t.seen /\ v.cfg = t.cfg /\ v.mw = t.mw
         /\ \A c : ~ fail(h, c)
         /\ ~ failAndThrow(h)
<1>1. TasksOK /\ GhostsOK /\ task \in [Handlers -> Task]
  BY Parts DEF TasksOK
<1>2. faults + 1 # faults
  BY <1>1, BoundsAssumption DEF GhostsOK
<1>3. ASSUME NEW stage, goto(h, stage)
      PROVE  /\ v.op = t.op /\ v.of = t.of /\ v.row = t.row /\ v.at = stage
             /\ v.seen = t.seen /\ v.cfg = t.cfg /\ v.mw = t.mw
  <2>1. v = [t EXCEPT !.at = stage] /\ t \in Task
    BY <1>1, <1>3 DEF goesOn, goto, continue
  <2> QED
    BY <2>1 DEF Task
<1>4. (\A c : ~ fail(h, c)) /\ ~ failAndThrow(h)
  BY <1>2 DEF goesOn, fail, failAndThrow
<1>5. \A c : task' = [task EXCEPT ![h] = c] => v = c
  BY <1>1 DEF goesOn
<1> QED
  BY <1>3, <1>4, <1>5 DEF continue, finish

\* Up to the reads of the files, a request about a domain leaves nothing undone.
LEMMA TidyRowSteps ==
  ASSUME IInv, NEW h \in Handlers, NEW t, NEW v, goesOn(h, t, v),
         writeRow(h) \/ rereadRow(h) \/ findApplication(h)
  PROVE  leaves(v)
<1>1. /\ t.op \in DomainOps /\ t.at \in {"row", "reread", "app"} /\ t \in Task
      /\ Settled(openRefs(t), openUsers(t))
      /\ UNCHANGED <<redirects, users, file, middlewares>> /\ Unset' = Unset
  BY UnsetFrame DEF goesOn, writeRow, rereadRow, findApplication, throw, at, soundTask,
     DomainStages, DomainOps, gateVars, rowVars, fileVars
<1>2. openRefs(t) = {} /\ openUsers(t) = {}
  BY <1>1, OpenOf DEF Loaded, DomainStages
<1>3. CASE v = nowhere
  BY <1>1, <1>2, <1>3, Ended, SettledFrame DEF leaves
<1>4. CASE v # nowhere
  <2>1. v.op = t.op /\ v.at \in {"reread", "app", "load"}
    <3>1. CASE writeRow(h)
      BY <1>4, <3>1, GoesTo DEF writeRow
    <3>2. CASE rereadRow(h)
      <4>1. v = [t EXCEPT !.at = "app", !.row = domains[t.of]]
        BY <1>4, <3>2, GoesTo DEF rereadRow, throw, goesOn
      <4> QED
        BY <1>1, <4>1 DEF Task
    <3>3. CASE findApplication(h)
      <4>1. v = [t EXCEPT !.at = "load", !.seen = attached(appOf[t.of])]
        BY <1>4, <3>3, GoesTo DEF findApplication, throw, goesOn
      <4> QED
        BY <1>1, <4>1 DEF Task
    <3> QED
      BY <3>1, <3>2, <3>3
  <2>2. Settled(openRefs(v), openUsers(v))'
    BY <1>1, <1>2, <2>1, OpenOf, SettledFrame
  <2>3. Knows(v)'
    <3>1. v.at \notin Loaded \ {"load"}
      BY <2>1 DEF Loaded, DomainStages
    <3>2. v.op \notin RedirectOps \cup UserOps \cup {"deleteApp"}
      BY <1>1, <2>1 DEF DomainOps, RedirectOps, UserOps
    <3> QED
      BY <2>1, <3>1, <3>2 DEF Knows, RedirectOps, UserOps
  <2> QED
    BY <2>2, <2>3 DEF leaves
<1> QED
  BY <1>3, <1>4

-----------------------------------------------------------------------------
\* What a request about a domain knows once it has read the application.
LEMMA KnowsDomain ==
  ASSUME NEW v, v.op \in DomainOps
  PROVE  /\ Knows(v)' <=>
              /\ v.at \in {"pathsWrite", "gateWrite"} => v.mw = middlewares'
              /\ v.at \in {"appRead", "mwWrite"} => v.mw = middlewares'
              /\ v.at \in Loaded \ {"load"} => v.cfg = loadOrCreateConfig(file'[appOf[v.of]])
              /\ v.at \in {"gateQuery", "gateRead", "gateWrite", "write"}
                   /\ exposed(v.row) /\ v.row.strip =>
                   strip(v.of) \in section(middlewares')
              /\ v.at = "write" /\ exposed(v.row) /\ v.row.gate =>
                   gate(v.of) \in section(middlewares') \cup Unset'
         /\ Knows(v) <=>
              /\ v.at \in {"pathsWrite", "gateWrite"} => v.mw = middlewares
              /\ v.at \in {"appRead", "mwWrite"} => v.mw = middlewares
              /\ v.at \in Loaded \ {"load"} => v.cfg = loadOrCreateConfig(file[appOf[v.of]])
              /\ v.at \in {"gateQuery", "gateRead", "gateWrite", "write"}
                   /\ exposed(v.row) /\ v.row.strip =>
                   strip(v.of) \in section(middlewares)
              /\ v.at = "write" /\ exposed(v.row) /\ v.row.gate =>
                   gate(v.of) \in section(middlewares) \cup Unset
<1>1. v.op \notin {"addRedirect", "dropRedirect", "editRedirect", "addUser", "restoreUser",
                   "changeUser", "dropUser", "deleteApp"}
  BY DEF DomainOps
<1>2. v.op \notin RedirectOps \cup UserOps
  BY <1>1 DEF RedirectOps, UserOps
<1> HIDE DEF Unset, strip, gate, auth, redirect, user
<1> QED
  BY <1>1, <1>2 DEF Knows, section, loadOrCreateConfig

\* The stages that follow one another in manageDomain and removeDomain.
LEMMA DomainSteps ==
  ASSUME NEW t
  PROVE  /\ lastStep(t) \in {"write", "rm"} /\ (exposed(t.row) => lastStep(t) = "write")
         /\ afterPaths(t) \in {"gateQuery", "gateRead", "write"}
         /\ afterPaths(t) = "gateQuery" => exposed(t.row) /\ t.row.gate
         /\ afterPaths(t) = "gateRead" => ~ exposed(t.row)
         /\ afterPaths(t) = "write" => exposed(t.row) /\ ~ t.row.gate
<1>1. lastStep(t) \in {"write", "rm"} /\ (exposed(t.row) => lastStep(t) = "write")
  BY DEF lastStep
<1>2. CASE exposed(t.row) /\ t.row.gate
  BY <1>1, <1>2 DEF afterPaths
<1>3. CASE ~ exposed(t.row)
  BY <1>1, <1>3 DEF afterPaths
<1>4. CASE exposed(t.row) /\ ~ t.row.gate
  BY <1>1, <1>4 DEF afterPaths
<1> QED
  BY <1>1, <1>2, <1>3, <1>4

LEMMA TidyDomainReads ==
  ASSUME IInv, NEW h \in Handlers, NEW t, NEW v, goesOn(h, t, v),
         load(h) \/ readForPaths(h) \/ queryAuthDomain(h) \/ readForGate(h)
  PROVE  leaves(v)
<1>1. /\ t.op \in DomainOps /\ t.at \in {"load", "paths", "gateQuery", "gateRead"} /\ t \in Task
      /\ Settled(openRefs(t), openUsers(t)) /\ Knows(t)
      /\ UNCHANGED <<redirects, users, file, middlewares>>
      /\ \A ref : ref \in Unset /\ ref # gate(t.of) => ref \in Unset'
  <2>1. ASSUME queryAuthDomain(h), NEW ref, ref \in Unset, ref # gate(t.of)
        PROVE  ref \in Unset'
    <3>1. ungated \ {t.of} \subseteq ungated'
      BY <2>1 DEF queryAuthDomain, goesOn
    <3> QED
      BY <2>1, <3>1 DEF Unset
  <2>2. ~ queryAuthDomain(h) => Unset' = Unset
    BY UnsetFrame DEF load, readForPaths, readForGate, gateVars
  <2> HIDE DEF Unset
  <2> QED
    BY <2>1, <2>2 DEF goesOn, load, readForPaths, queryAuthDomain, readForGate, at, soundTask,
       DomainStages, rowVars, fileVars
<1>2. {"load", "paths", "pathsWrite", "gateQuery", "gateRead", "gateWrite", "write", "rm"}
        \subseteq Loaded
  BY DEF Loaded, DomainStages
<1>3. ASSUME v.op = t.op, v.of = t.of, v.row = t.row, v.at \in Loaded \ {"load"},
             v.at \in {"pathsWrite", "gateWrite"} => v.mw = middlewares,
             v.at \notin {"appRead", "mwWrite"},
             v.cfg = loadOrCreateConfig(file[appOf[t.of]]),
             v.at \in {"gateQuery", "gateRead", "gateWrite", "write"}
               /\ exposed(t.row) /\ t.row.strip =>
               strip(t.of) \in section(middlewares),
             v.at = "write" /\ exposed(t.row) /\ t.row.gate => gate(t.of) \in Unset'
      PROVE  leaves(v)
  <2>1. Settled(openRefs(v), openUsers(v))'
    <3>1. openRefs(v) = openRefs(t) /\ openUsers(v) = openUsers(t)
      BY <1>1, <1>2, <1>3, OpenOf
    <3>2. gate(t.of) \in openRefs(v)
      BY <1>1, <1>2, <1>3, OpenOf
    <3> HIDE DEF Unset, gate
    <3> QED
      BY <1>1, <3>1, <3>2, SettledFrame
  <2>2. Knows(v)'
    <3> HIDE DEF Unset, gate, strip
    <3> QED
      BY <1>1, <1>3, KnowsDomain
  <2> QED
    BY <2>1, <2>2 DEF leaves
<1>4. CASE load(h)
  <2>1. v = [t EXCEPT !.at = "paths", !.cfg = loadOrCreateConfig(file[appOf[t.of]])]
    BY <1>4, GoesTo DEF load, goesOn
  <2>2. /\ v.op = t.op /\ v.of = t.of /\ v.row = t.row /\ v.at = "paths"
        /\ v.cfg = loadOrCreateConfig(file[appOf[t.of]])
    BY <1>1, <2>1 DEF Task
  <2> QED
    BY <1>2, <1>3, <2>2
<1>5. CASE readForPaths(h)
  <2>1. t.at = "paths" /\ t.cfg = loadOrCreateConfig(file[appOf[t.of]])
    BY <1>1, <1>2, <1>5, KnowsDomain DEF readForPaths, at, goesOn
  <2>2. CASE exposed(t.row) /\ ~ t.row.strip /\ goto(h, afterPaths(t))
    <3>1. /\ v.op = t.op /\ v.of = t.of /\ v.row = t.row /\ v.at = afterPaths(t)
          /\ v.cfg = t.cfg
      BY <2>2, GoesTo
    <3> QED
      BY <1>2, <1>3, <2>1, <2>2, <3>1, DomainSteps
  <2>3. CASE continue(h, [t EXCEPT !.at = "pathsWrite", !.mw = middlewares])
    <3>1. v = [t EXCEPT !.at = "pathsWrite", !.mw = middlewares]
      BY <2>3, GoesTo
    <3>2. /\ v.op = t.op /\ v.of = t.of /\ v.row = t.row /\ v.at = "pathsWrite"
          /\ v.cfg = t.cfg /\ v.mw = middlewares
      BY <1>1, <3>1 DEF Task
    <3> QED
      BY <1>2, <1>3, <2>1, <3>2
  <2> QED
    BY <1>5, <2>2, <2>3, GoesTo DEF readForPaths, goesOn
<1>6. CASE readForGate(h)
  <2>1. /\ t.at = "gateRead" /\ t.cfg = loadOrCreateConfig(file[appOf[t.of]])
        /\ exposed(t.row) /\ t.row.strip =>
             strip(t.of) \in section(middlewares)
    BY <1>1, <1>2, <1>6, KnowsDomain DEF readForGate, at, goesOn
  <2>2. CASE ~ exposed(t.row) /\ goto(h, lastStep(t))
    <3>1. /\ v.op = t.op /\ v.of = t.of /\ v.row = t.row /\ v.at = lastStep(t)
          /\ v.cfg = t.cfg
      BY <2>2, GoesTo
    <3> QED
      BY <1>2, <1>3, <2>1, <2>2, <3>1, DomainSteps
  <2>3. CASE continue(h, [t EXCEPT !.at = "gateWrite", !.mw = middlewares])
    <3>1. v = [t EXCEPT !.at = "gateWrite", !.mw = middlewares]
      BY <2>3, GoesTo
    <3>2. /\ v.op = t.op /\ v.of = t.of /\ v.row = t.row /\ v.at = "gateWrite"
          /\ v.cfg = t.cfg /\ v.mw = middlewares
      BY <1>1, <3>1 DEF Task
    <3> QED
      BY <1>2, <1>3, <2>1, <3>2
  <2> QED
    BY <1>6, <2>2, <2>3, GoesTo DEF readForGate, goesOn
\* Without an authentication domain the reference stays undefined.
<1>7. CASE queryAuthDomain(h)
  <2>1. /\ t.at = "gateQuery" /\ t.cfg = loadOrCreateConfig(file[appOf[t.of]])
        /\ exposed(t.row) /\ t.row.strip => strip(t.of) \in section(middlewares)
    BY <1>1, <1>2, <1>7, KnowsDomain DEF queryAuthDomain, at, goesOn
  <2>2. /\ v.op = t.op /\ v.of = t.of /\ v.row = t.row /\ v.cfg = t.cfg
        /\ v.at = IF authDomain THEN "gateRead" ELSE lastStep(t)
    BY <1>7, GoesTo DEF queryAuthDomain, goesOn
  <2>3. ~ authDomain => gate(t.of) \in Unset'
    BY <1>7 DEF queryAuthDomain, goesOn, Unset
  <2> HIDE DEF Unset, gate, strip
  <2> QED
    BY <1>2, <1>3, <2>1, <2>2, <2>3, DomainSteps
<1> QED
  BY <1>4, <1>5, <1>6, <1>7

-----------------------------------------------------------------------------
LEMMA TidyDomainWrites ==
  ASSUME IInv, NEW h \in Handlers, NEW t, NEW v, goesOn(h, t, v),
         writePaths(h) \/ writeGate(h)
  PROVE  leaves(v)
<1> DEFINE E  == {strip(t.of), gate(t.of)}
           mw == section(middlewares)
<1>1. /\ t.op \in DomainOps /\ t.of \in Domains /\ t.at \in {"pathsWrite", "gateWrite"}
      /\ t \in Task
      /\ UNCHANGED <<redirects, users, file>> /\ FilesOK /\ Unset' = Unset
  BY Parts, UnsetFrame DEF goesOn, writePaths, writeGate, writeMiddlewares, at, soundTask,
     DomainStages, gateVars, rowVars
<1>2. {"gateQuery", "gateRead", "pathsWrite", "gateWrite", "write", "rm"}
        \subseteq Loaded \ {"load"}
  BY DEF Loaded, DomainStages
<1>3. openRefs(t) = E /\ openUsers(t) = {}
  BY <1>1, <1>2, OpenOf
<1>4. /\ Settled(E, {}) /\ t.mw = middlewares
      /\ t.cfg = loadOrCreateConfig(file[appOf[t.of]])
      /\ t.at = "gateWrite" /\ exposed(t.row) /\ t.row.strip => strip(t.of) \in mw
  <2>1. Settled(E, {}) /\ Knows(t)
    BY <1>3 DEF goesOn
  <2> HIDE DEF E
  <2> QED
    BY <1>1, <1>2, <2>1, KnowsDomain
<1>5. mw \in SUBSET Entry
  BY <1>1, SectionType DEF FilesOK
<1>6. RedirectToHttps \in mw
  BY <1>4 DEF Settled
\* What is written differs from what was read by one name of the domain.
<1>7. ASSUME NEW e \in E, NEW new, new = mw \cup {e} \/ new = mw \ {e},
             section(middlewares') = new, NEW stage \in {"gateQuery", "gateRead", "write", "rm"},
             v.op = t.op, v.of = t.of, v.row = t.row, v.at = stage, v.cfg = t.cfg,
             exposed(t.row) /\ t.row.strip => strip(t.of) \in new,
             stage = "write" /\ exposed(t.row) /\ t.row.gate => gate(t.of) \in new
      PROVE  leaves(v)
  <2> HIDE DEF strip, gate, redirect, auth, user, RedirectToHttps
  <2>1. /\ RedirectToHttps # e /\ (\A a : auth(a) # e) /\ (\A u : user(u) # e)
    BY NamesDiffer
  <2>2. /\ RedirectToHttps \in new
        /\ \A u : user(u) \in new <=> user(u) \in mw
        /\ \A a : usersIn(new, a) = usersIn(mw, a)
    BY <1>6, <1>7, <2>1 DEF usersIn
  <2>3. \A ref : ref \notin E /\ defined(ref, mw) => defined(ref, new)
    BY <1>7, <2>2, DefinedKept
  <2>4. \A u \in Users \ {} : u \in users <=> user(u) \in new
    BY <1>4, <2>2 DEF Settled
  <2>5. Settled(E, {})'
    <3> HIDE DEF E, mw
    <3>1. \A ref : ref \notin E /\ defined(ref, section(middlewares)) => defined(ref, new)
      BY <2>3 DEF mw
    <3> QED
      BY <1>1, <1>4, <1>7, <2>2, <2>4, <3>1, SettledMiddlewares
  <2>6. openRefs(v) = E /\ openUsers(v) = {}
    BY <1>1, <1>2, <1>7, OpenOf
  <2>7. Knows(v)'
    <3> HIDE DEF E, mw
    <3> QED
      BY <1>1, <1>4, <1>7, KnowsDomain
  <2>8. Settled(openRefs(v), openUsers(v))'
    <3> HIDE DEF E
    <3> QED
      BY <2>5, <2>6
  <2> QED
    BY <2>7, <2>8 DEF leaves
<1>8. t.mw # NoSection /\ section(t.mw) = mw /\ mw = t.mw
  BY <1>4, <1>6 DEF section
<1>9. ASSUME NEW new \in SUBSET Entry PROVE section(new) = new
  BY AbsenceAssumption DEF section
<1>10. CASE writePaths(h)
  <2>1. /\ middlewares' = pathsEdit(t) /\ goto(h, afterPaths(t))
    BY <1>10, GoesTo DEF writePaths, writeMiddlewares, goesOn
  <2>2. /\ v.op = t.op /\ v.of = t.of /\ v.row = t.row /\ v.at = afterPaths(t) /\ v.cfg = t.cfg
    BY <2>1, GoesTo
  <2>3. CASE exposed(t.row)
    <3>1. middlewares' = mw \cup {strip(t.of)}
      BY <1>8, <2>1, <2>3 DEF pathsEdit
    <3>2. section(middlewares') = mw \cup {strip(t.of)}
      BY <1>1, <1>5, <1>9, <3>1, EntryNames
    <3> HIDE DEF mw
    <3> QED
      BY <1>7, <2>2, <2>3, <3>2, DomainSteps
  <2>4. CASE ~ exposed(t.row)
    <3>1. RedirectToHttps \in mw \ {strip(t.of)}
      BY <1>6, NamesDiffer
    <3>2. middlewares' = mw \ {strip(t.of)}
      BY <1>8, <2>1, <2>4, <3>1 DEF pathsEdit
    <3>3. section(middlewares') = mw \ {strip(t.of)}
      BY <1>5, <1>9, <3>2
    <3> HIDE DEF mw
    <3> QED
      BY <1>7, <2>2, <2>4, <3>3, DomainSteps
  <2> QED
    BY <2>3, <2>4
<1>11. CASE writeGate(h)
  <2>1. /\ middlewares' = gateEdit(t) /\ goto(h, lastStep(t)) /\ t.at = "gateWrite"
    BY <1>11, GoesTo DEF writeGate, writeMiddlewares, goesOn, at
  <2>2. /\ v.op = t.op /\ v.of = t.of /\ v.row = t.row /\ v.at = lastStep(t) /\ v.cfg = t.cfg
    BY <2>1, GoesTo
  <2>3. CASE exposed(t.row)
    <3>1. middlewares' = mw \cup {gate(t.of)}
      BY <1>8, <2>1, <2>3 DEF gateEdit
    <3>2. section(middlewares') = mw \cup {gate(t.of)}
      BY <1>1, <1>5, <1>9, <3>1, EntryNames
    <3> HIDE DEF mw
    <3> QED
      BY <1>4, <1>7, <2>1, <2>2, <2>3, <3>2, DomainSteps
  <2>4. CASE ~ exposed(t.row)
    <3>1. middlewares' = mw \ {gate(t.of)}
      BY <1>8, <2>1, <2>4 DEF gateEdit
    <3>2. section(middlewares') = mw \ {gate(t.of)}
      BY <1>5, <1>9, <3>1
    <3> HIDE DEF mw
    <3> QED
      BY <1>7, <2>2, <2>4, <3>2, DomainSteps
  <2> QED
    BY <2>3, <2>4
<1> QED
  BY <1>10, <1>11

-----------------------------------------------------------------------------
\* The routers of a domain that is saved are behind what its application has.
LEMMA TidyWriteDomain ==
  ASSUME IInv, Owned, CleanKnows, NEW h \in Handlers, NEW t, NEW v, goesOn(h, t, v),
         t.clean, writeDomain(h)
  PROVE  leaves(v)
<1> DEFINE f  == IF t.at = "rm" THEN NoFile ELSE edited(t)
           mw == section(middlewares)
<1>1. /\ t.op \in DomainOps /\ t.of \in Domains /\ t.at \in {"write", "rm"} /\ t \in Task
      /\ t.row \in Settings \cup {NoDomain} /\ t.seen \in SUBSET Reference /\ t.cfg \in Config
      /\ soundTask(t) /\ StageKept(t) /\ t = task[h]
      /\ UNCHANGED <<redirects, users, middlewares>>
      /\ RowsOK /\ Unset' = Unset
  BY Parts, UnsetFrame DEF goesOn, writeDomain, at, soundTask, Task, gateVars
<1>2. PICK b \in Apps : b = appOf[t.of]
  BY <1>1, IdsAssumption
<1>3. PICK d \in Domains : d = t.of
  BY <1>1
<1>4. v = nowhere /\ file' = [file EXCEPT ![b] = f]
  BY <1>1, <1>2, GoesTo DEF writeDomain, goesOn
<1>5. t.at \in Loaded \ {"load"}
  BY <1>1 DEF Loaded, DomainStages
<1> DEFINE E == {strip(d), gate(d)}
<1>6. Settled(E, {})
  <2>1. openRefs(t) = {strip(t.of), gate(t.of)} /\ openUsers(t) = {}
    BY <1>1, <1>5, OpenOf
  <2> HIDE DEF strip, gate
  <2> QED
    BY <1>3, <2>1 DEF goesOn
<1>7. /\ t.cfg = loadOrCreateConfig(file[b])
      /\ t.at = "write" /\ exposed(t.row) /\ t.row.strip => strip(d) \in mw
      /\ t.at = "write" /\ exposed(t.row) /\ t.row.gate => gate(d) \in mw \cup Unset
  <2>1. Knows(t)
    BY DEF goesOn
  <2> HIDE DEF Unset, strip, gate
  <2> QED
    BY <1>1, <1>2, <1>3, <1>5, <2>1, KnowsDomain
<1>8. t.seen = Want(b)
  <2>1. quietBut({h}) /\ t.seen = attached(b)
    BY <1>1, <1>2, <1>5 DEF CleanKnows
  <2> QED
    BY <1>1, <2>1, WantAttached DEF quietBut
<1>9. edited(t) \in Config
  BY <1>1, SetDomainServed DEF edited, soundTask
<1>10. ASSUME NEW x \in loadOrCreateConfig(f).routers
       PROVE  /\ t.at = "write"
              /\ \/ x \in routers(b) /\ x.of # d
                 \/ x \in routersFor(d, t.row, Want(b))
  <2>1. t.at = "write"
    BY <1>1, <1>10 DEF loadOrCreateConfig, Empty
  <2>2. x \in edited(t).routers
    BY <1>9, <1>10, <2>1, AbsenceAssumption DEF loadOrCreateConfig
  <2>3. edited(t).routers = {y \in t.cfg.routers : y.of # d} \cup routersFor(d, t.row, Want(b))
    BY <1>3, <1>8 DEF edited, setDomain
  <2> QED
    BY <1>7, <2>1, <2>2, <2>3 DEF routers
<1>11. Want(b) \cap E = {} /\ \A a \in Apps \ {b} : Want(a) \cap E = {}
  <2>1. \A a \in Apps : Want(a) \subseteq ownRefs(a)
    BY AttachedOwn
  <2>2. \A a \in Apps : \A e \in E : e \notin ownRefs(a)
    <3> TAKE a \in Apps
    <3> HIDE DEF strip, gate, redirect, auth
    <3> QED
      BY NamesDiffer DEF ownRefs
  <2> QED
    BY <2>1, <2>2
<1>12. \A ref \in Want(b) : defined(ref, mw)
  BY <1>6, <1>11 DEF Settled
<1>13. ASSUME NEW x \in loadOrCreateConfig(f).routers
       PROVE  /\ RedirectToHttps \notin x.uses => Want(b) \subseteq x.uses
              /\ \A ref \in x.uses : defined(ref, mw) \/ ref \in Unset
  <2> HIDE DEF Unset
  <2>1. CASE x \in routers(b) /\ x.of # d
    <3>1. /\ RedirectToHttps \notin x.uses => Want(b) \ E \subseteq x.uses
          /\ \A ref \in x.uses \ E : defined(ref, mw) \/ ref \in Unset
      BY <1>6, <2>1 DEF Settled
    <3>2. x.uses \cap E = {}
      <4>1. x.uses \subseteq ownRefs(b) \cup {RedirectToHttps, strip(x.of), gate(x.of)}
        BY <2>1 DEF Owned, ownConfig, routers
      <4> HIDE DEF strip, gate, redirect, auth, RedirectToHttps
      <4> QED
        BY <2>1, <4>1, NamesDiffer DEF ownRefs
    <3> HIDE DEF E
    <3> QED
      BY <1>11, <3>1, <3>2
  <2>2. CASE x \in routersFor(d, t.row, Want(b))
    <3>1. RedirectToHttps \in mw
      BY <1>6 DEF Settled
    <3>2. \A ref \in mw : defined(ref, mw)
      BY DEF defined
    <3>3. t.at = "write"
      BY <1>10
    <3>4. /\ exposed(t.row)
          /\ RedirectToHttps \notin x.uses => Want(b) \subseteq x.uses
          /\ \A ref \in x.uses : \/ ref = RedirectToHttps \/ ref \in Want(b)
                                 \/ ref = strip(d) /\ t.row.strip
                                 \/ ref = gate(d) /\ t.row.gate
      BY <2>2, RouterUses
    <3> HIDE DEF mw, strip, gate, RedirectToHttps
    <3> QED
      BY <1>7, <1>12, <3>1, <3>2, <3>3, <3>4
  <2> QED
    BY <1>10, <2>1, <2>2
<1>14. Settled({}, {})'
  <2>1. \A a : Want(a)' = Want(a)
    BY <1>1 DEF Want
  <2>2. \A u \in Users \ {} : u \in users' <=> user(u) \in mw
    BY <1>1, <1>6 DEF Settled
  <2>3. \A a \in Apps \ {b} : \A x \in routers(a) : x.uses \cap E = {}
    BY <1>2, <1>3, RoutersApart
  <2>4. f \in Config \cup {NoFile}
    BY <1>9
  <2> HIDE DEF E, f
  <2>5. \A ref \in Want(b)' \ {} : defined(ref, mw)
    BY <1>12, <2>1
  <2>6. \A x \in loadOrCreateConfig(f).routers :
           /\ RedirectToHttps \notin x.uses => Want(b)' \ {} \subseteq x.uses
           /\ \A ref \in x.uses \ {} : defined(ref, mw) \/ ref \in Unset
    BY <1>13, <2>1
  <2>7. \A a \in Apps \ {b} : Want(a)' = Want(a) /\ Want(a) \cap E = {}
    BY <1>11, <2>1
  <2> HIDE DEF mw
  <2>8. mw = section(middlewares)
    BY DEF mw
  <2> QED
    BY <1>1, <1>4, <1>6, <2>2, <2>3, <2>4, <2>5, <2>6, <2>7, <2>8, SettledFile
<1>15. openRefs(v) = {} /\ openUsers(v) = {}
  BY <1>4, Ended
<1> QED
  BY <1>4, <1>14, <1>15 DEF leaves

-----------------------------------------------------------------------------
\* What the requests about redirects and users, and a delete, know.
LEMMA KnowsAttachment ==
  ASSUME NEW v, v.op \in RedirectOps \cup UserOps \cup {"deleteApp"},
         v.at \notin {"pathsWrite", "gateWrite"}
  PROVE  Knows(v)' <=>
         LET mw == section(middlewares') IN
         /\ v.at \in {"appRead", "mwWrite"} => v.mw = middlewares'
         /\ v.op \notin {"editRedirect", "deleteApp"} /\ v.at \in {"mwWrite", "fileWrite", "rm"} =>
              v.cfg = loadOrCreateConfig(file'[appOf[v.of]])
         /\ v.op = "editRedirect" => v.at \in {"mwRead", "mwWrite"}
         /\ v.op = "addRedirect" /\ v.at \in {"fileWrite", "rm"} => redirect(v.of) \in mw
         /\ v.op = "dropRedirect" /\ v.at # "row" => redirects'[v.of] = "none"
         /\ v.op \in {"addUser", "restoreUser"} /\ v.at \in {"fileWrite", "rm"} =>
              user(v.of) \in mw
         /\ v.op \in {"changeUser", "restoreUser"} => v.of \in users'
         /\ v.op = "dropUser" /\ v.at # "row" =>
              /\ v.of \notin users'
              /\ v.at \in {"mwRead", "appRead", "mwWrite"} => user(v.of) \in mw
              /\ v.at \in {"fileWrite", "rm"} => usersIn(mw, appOf[v.of]) = {}
         /\ v.op = "deleteApp" =>
              /\ v.seen \subseteq ownRefs(v.of)
              /\ v.at = "row" => (auth(v.of) \in v.seen <=> \E u \in users' : appOf[u] = v.of)
              /\ v.at # "row" =>
                   /\ \A u \in users' : appOf[u] # v.of
                   /\ \A r \in Redirects : appOf[r] = v.of => redirects'[r] = "none"
              /\ v.at \in {"mwRead", "mwWrite"} /\ auth(v.of) \notin v.seen =>
                   usersIn(mw, v.of) = {}
              /\ v.at = "rm" => usersIn(mw, v.of) = {}
<1>1. v.op \notin DomainOps
  BY DEF DomainOps, RedirectOps, UserOps
<1>2. v.op \in (RedirectOps \cup UserOps) \ {"editRedirect"} <=>
        v.op \notin {"editRedirect", "deleteApp"}
  BY DEF RedirectOps, UserOps
<1> HIDE DEF Unset, strip, gate, auth, redirect, user
<1> QED
  BY <1>1, <1>2 DEF Knows, section, loadOrCreateConfig

\* The reads of a redirect, a user or a delete.
LEMMA TidyAttachmentReads ==
  ASSUME IInv, NEW h \in Handlers, NEW t, NEW v, goesOn(h, t, v),
         readMiddlewares(h) \/ readApp(h) \/ updateUserRow(h)
  PROVE  leaves(v)
<1>1. /\ t.op \in RedirectOps \cup UserOps \cup {"deleteApp"} /\ t \in Task
      /\ t.at \in {"row", "mwRead", "appRead"}
      /\ Settled(openRefs(t), openUsers(t)) /\ Knows(t)
      /\ UNCHANGED <<redirects, users, file, middlewares>> /\ Unset' = Unset
      /\ t.at = "appRead" => t.op # "deleteApp"
  BY UnsetFrame DEF goesOn, readMiddlewares, readApp, updateUserRow, at, soundTask, gateVars,
     rowVars, fileVars, UserOps, RedirectOps
<1>2. CASE readMiddlewares(h)
  <2>1. t.at = "mwRead"
    BY <1>2 DEF readMiddlewares, at, goesOn
  <2>2. continue(h, [t EXCEPT !.mw = middlewares,
                              !.at = IF t.op \in {"editRedirect", "deleteApp"}
                                     THEN "mwWrite" ELSE "appRead"])
    BY <1>2, GoesTo DEF readMiddlewares, goesOn
  <2>3. v = [t EXCEPT !.mw = middlewares,
                      !.at = IF t.op \in {"editRedirect", "deleteApp"} THEN "mwWrite" ELSE "appRead"]
    BY <2>2, GoesTo
  <2>4. /\ v.op = t.op /\ v.of = t.of /\ v.mw = middlewares /\ v.seen = t.seen
        /\ v.at = IF t.op \in {"editRedirect", "deleteApp"} THEN "mwWrite" ELSE "appRead"
    BY <1>1, <2>3 DEF Task
  <2>5. openRefs(v) = openRefs(t) /\ openUsers(v) = openUsers(t)
    <3>1. /\ t.op \in RedirectOps \cup UserOps \cup {"deleteApp"}
          /\ v.op = t.op /\ v.of = t.of /\ t.at = "mwRead" /\ v.at \in {"mwWrite", "appRead"}
      BY <1>1, <2>1, <2>4
    <3>2. CASE t.op \in {"addRedirect", "dropRedirect", "editRedirect"}
      BY <3>1, <3>2, OpenOf
    <3>3. CASE t.op \in {"addUser", "changeUser", "restoreUser"}
      BY <3>1, <3>3, OpenOf
    <3>4. CASE t.op = "dropUser"
      <4>1. openRefs(t) = {} /\ openUsers(t) = {t.of}
        BY <3>1, <3>4, OpenOf
      <4>2. openRefs(v) = {} /\ openUsers(v) = {t.of}
        BY <3>1, <3>4, OpenOf
      <4> QED
        BY <4>1, <4>2
    <3>5. CASE t.op = "deleteApp"
      <4> DEFINE mine == {u \in Users : appOf[u] = t.of}
      <4>1. openRefs(t) = ownRefs(t.of) /\ openUsers(t) = mine
        BY <3>1, <3>5, OpenOf
      <4>2. openRefs(v) = ownRefs(t.of) /\ openUsers(v) = mine
        BY <3>1, <3>5, OpenOf
      <4> QED
        BY <4>1, <4>2
    <3> QED
      BY <3>1, <3>2, <3>3, <3>4, <3>5 DEF RedirectOps, UserOps
  <2>6. Settled(openRefs(v), openUsers(v))'
    <3> HIDE DEF Unset
    <3> QED
      BY <1>1, <2>5, SettledFrame
  <2>7. Knows(v)'
    <3>1. Knows(v)' <=> Knows(v)
      BY <1>1 DEF Knows
    <3> HIDE DEF auth, redirect, user, strip, gate
    <3>2. Knows(v)
      BY <1>1, <2>1, <2>4 DEF Knows, DomainOps, RedirectOps, UserOps
    <3> QED
      BY <3>1, <3>2
  <2> QED
    BY <2>6, <2>7 DEF leaves
<1>3. CASE readApp(h)
  <2>1. t.at = "appRead" /\ t.op # "editRedirect"
    BY <1>1, <1>3 DEF readApp, at, goesOn, Knows
  <2>2. v = [t EXCEPT !.at = "mwWrite", !.cfg = loadOrCreateConfig(file[appOf[t.of]])]
    BY <1>3, GoesTo DEF readApp, goesOn
  <2>3. /\ v.op = t.op /\ v.of = t.of /\ v.mw = t.mw /\ v.seen = t.seen /\ v.at = "mwWrite"
        /\ v.cfg = loadOrCreateConfig(file[appOf[t.of]])
    BY <1>1, <2>2 DEF Task
  <2>4. openRefs(v) = openRefs(t) /\ openUsers(v) = openUsers(t)
    BY <1>1, <2>1, <2>3, OpenOf DEF RedirectOps, UserOps
  <2>5. Settled(openRefs(v), openUsers(v))'
    BY <1>1, <2>4, SettledFrame
  <2>6. Knows(v)'
    <3>1. Knows(v)' <=> Knows(v)
      BY <1>1 DEF Knows
    <3> HIDE DEF auth, redirect, user, strip, gate
    <3>2. Knows(v)
      BY <1>1, <2>1, <2>3 DEF Knows, DomainOps, RedirectOps, UserOps
    <3> QED
      BY <3>1, <3>2
  <2> QED
    BY <2>5, <2>6 DEF leaves
<1>4. CASE updateUserRow(h)
  <2>1. t.op = "changeUser" /\ t.at = "row" /\ t.of \in users
    BY <1>1, <1>4 DEF updateUserRow, at, goesOn, Knows
  <2>2. v = [t EXCEPT !.op = "restoreUser", !.at = "mwRead"]
    BY <1>4, <2>1, GoesTo DEF updateUserRow, goesOn
  <2>3. v.op = "restoreUser" /\ v.of = t.of /\ v.at = "mwRead"
    BY <1>1, <2>2 DEF Task
  <2>4. openRefs(v) = openRefs(t) /\ openUsers(v) = openUsers(t)
    BY <2>1, <2>3, OpenOf
  <2>5. Settled(openRefs(v), openUsers(v))'
    BY <1>1, <2>4, SettledFrame
  <2>6. Knows(v)'
    BY <1>1, <2>1, <2>3, KnowsAttachment DEF UserOps
  <2> QED
    BY <2>5, <2>6 DEF leaves
<1> QED
  BY <1>2, <1>3, <1>4

-----------------------------------------------------------------------------
LEMMA AfterMiddlewares ==
  ASSUME NEW t, t.op \in RedirectOps \cup UserOps \cup {"deleteApp"}
  PROVE  /\ t.op = "deleteApp" => afterMiddlewares(t) = "rm"
         /\ t.op = "editRedirect" => afterMiddlewares(t) = "end"
         /\ t.op \in {"dropUser", "changeUser"} /\ ~ lastUser(t) => afterMiddlewares(t) = "end"
         /\ t.op \in {"dropUser", "changeUser"} /\ lastUser(t) =>
              afterMiddlewares(t) \in {"rm", "fileWrite"}
         /\ t.op \in {"addRedirect", "dropRedirect", "addUser", "restoreUser"} =>
              afterMiddlewares(t) \in {"rm", "fileWrite"}
<1>1. CASE t.op = "deleteApp"
  BY <1>1 DEF afterMiddlewares
<1>2. CASE t.op = "editRedirect"
  BY <1>2 DEF afterMiddlewares
<1>3. CASE t.op \in {"dropUser", "changeUser"} /\ ~ lastUser(t)
  BY <1>3 DEF afterMiddlewares
<1>4. CASE t.op \in {"dropUser", "changeUser"} /\ lastUser(t)
  BY <1>4 DEF afterMiddlewares
<1>5. CASE t.op \in {"addRedirect", "dropRedirect", "addUser", "restoreUser"}
  BY <1>5 DEF afterMiddlewares
<1> QED
  BY <1>1, <1>2, <1>3, <1>4, <1>5 DEF RedirectOps, UserOps

\* What is written to middlewares.yml, where there is an "http" section.
LEMMA MwEdits ==
  ASSUME NEW t, t.mw # NoSection
  PROVE  /\ t.op = "addRedirect" => mwEdit(t) = t.mw \cup {redirect(t.of)}
         /\ t.op = "dropRedirect" => mwEdit(t) = t.mw \ {redirect(t.of)}
         /\ t.op = "editRedirect" => mwEdit(t) = t.mw
         /\ t.op \in {"addUser", "restoreUser"} => mwEdit(t) = t.mw \cup {user(t.of)}
         /\ t.op \in {"dropUser", "changeUser"} => mwEdit(t) = t.mw \ {user(t.of)}
         /\ t.op = "deleteApp" => mwEdit(t) =
              t.mw \ ({redirect(r) : r \in {r \in Redirects : redirect(r) \in t.seen}}
                      \cup {user(u) : u \in {u \in Users : /\ appOf[u] = t.of
                                                           /\ auth(t.of) \in t.seen}})
<1> HIDE DEF redirect, user, auth
<1>1. CASE t.op = "addRedirect"
  BY <1>1 DEF mwEdit
<1>2. CASE t.op = "dropRedirect"
  BY <1>2 DEF mwEdit
<1>3. CASE t.op = "editRedirect"
  BY <1>3 DEF mwEdit
<1>4. CASE t.op \in {"addUser", "restoreUser"}
  BY <1>4 DEF mwEdit
<1>5. CASE t.op \in {"dropUser", "changeUser"}
  BY <1>5 DEF mwEdit
<1>6. CASE t.op = "deleteApp"
  BY <1>6 DEF mwEdit
<1> QED
  BY <1>1, <1>2, <1>3, <1>4, <1>5, <1>6

LEMMA TidyWriteAttachment ==
  ASSUME IInv, NEW h \in Handlers, NEW t, NEW v, goesOn(h, t, v), writeAttachment(h)
  PROVE  leaves(v)
<1> DEFINE mw == section(middlewares)
           new == mwEdit(t)
<1>1. /\ t.op \in RedirectOps \cup UserOps \cup {"deleteApp"} /\ t \in Task /\ t.at = "mwWrite"
      /\ Settled(openRefs(t), openUsers(t)) /\ Knows(t) /\ soundTask(t)
      /\ UNCHANGED <<redirects, users, file>> /\ FilesOK /\ Unset' = Unset
      /\ middlewares' = new
  BY GoesTo, Parts, UnsetFrame
     DEF goesOn, writeAttachment, at, soundTask, gateVars, rowVars, failAndProceed
<1>2. RedirectToHttps \in mw /\ t.mw = middlewares
  BY <1>1 DEF Settled, Knows
<1>3. t.mw # NoSection /\ t.mw = mw /\ mw \in SUBSET Entry /\ section(t.mw) = mw
  BY <1>1, <1>2, SectionType DEF section, FilesOK
<1>4. ASSUME new \in SUBSET Entry PROVE section(middlewares') = new
  BY <1>1, <1>4, AbsenceAssumption DEF section
<1>5. \/ /\ v.op = t.op /\ v.of = t.of /\ v.cfg = t.cfg /\ v.seen = t.seen
         /\ v.at = IF afterMiddlewares(t) = "end" THEN "row" ELSE afterMiddlewares(t)
         /\ afterMiddlewares(t) = "end" => t.op = "changeUser"
      \/ v = nowhere /\ t.op # "changeUser" /\ afterMiddlewares(t) = "end"
  <2>1. IF afterMiddlewares(t) = "end" THEN proceed(h) ELSE goto(h, afterMiddlewares(t))
    <3>1. ~ failAndProceed(h) /\ ~ fail(h, [t EXCEPT !.at = afterMiddlewares(t)])
      BY GoesTo DEF failAndProceed
    <3>2. t = task[h]
      BY DEF goesOn
    <3> QED
      BY <3>1, <3>2 DEF writeAttachment
  <2>2. proceed(h) => IF t.op = "changeUser" THEN goto(h, "row") ELSE finish(h)
    BY DEF proceed, goesOn
  <2>3. finish(h) => v = nowhere
    BY GoesTo
  <2>4. \A stage : goto(h, stage) =>
          v.op = t.op /\ v.of = t.of /\ v.at = stage /\ v.seen = t.seen /\ v.cfg = t.cfg
    BY GoesTo
  <2> QED
    BY <2>1, <2>2, <2>3, <2>4
<1>6. ASSUME NEW F, NEW V, new \in SUBSET Entry, openRefs(t) \subseteq F, RedirectToHttps \in new,
             \A u \in Users \ V : u \in users <=> user(u) \in new,
             \A ref \in Reference : ref \notin F /\ defined(ref, mw) => defined(ref, new)
      PROVE  Settled(F, V)'
  <2>1. section(middlewares') = new
    BY <1>4, <1>6
  <2>2. \A ref \in Reference :
          ref \notin F /\ defined(ref, section(middlewares)) => defined(ref, new)
    BY <1>6
  <2> HIDE DEF new, mw, user, RedirectToHttps
  <2> QED
    BY <1>1, <1>6, <2>1, <2>2, SettledMiddlewares
\* The requests whose next step is about the file of the application.
<1>7. ASSUME new \in SUBSET Entry, v # nowhere
      PROVE  Knows(v)' <=>
             /\ v.op \notin {"editRedirect", "deleteApp"} /\ v.at \in {"mwWrite", "fileWrite", "rm"}
                  => v.cfg = loadOrCreateConfig(file[appOf[v.of]])
             /\ v.op = "editRedirect" => v.at \in {"mwRead", "mwWrite"}
             /\ v.op = "addRedirect" /\ v.at \in {"fileWrite", "rm"} => redirect(v.of) \in new
             /\ v.op = "dropRedirect" /\ v.at # "row" => redirects[v.of] = "none"
             /\ v.op \in {"addUser", "restoreUser"} /\ v.at \in {"fileWrite", "rm"} =>
                  user(v.of) \in new
             /\ v.op \in {"changeUser", "restoreUser"} => v.of \in users
             /\ v.op = "dropUser" /\ v.at # "row" =>
                  /\ v.of \notin users
                  /\ v.at \in {"fileWrite", "rm"} => usersIn(new, appOf[v.of]) = {}
             /\ v.op = "deleteApp" =>
                  /\ v.seen \subseteq ownRefs(v.of)
                  /\ v.at = "row" => (auth(v.of) \in v.seen <=> \E u \in users : appOf[u] = v.of)
                  /\ v.at # "row" =>
                       /\ \A u \in users : appOf[u] # v.of
                       /\ \A r \in Redirects : appOf[r] = v.of => redirects[r] = "none"
                  /\ v.at = "rm" => usersIn(new, v.of) = {}
  <2>1. section(middlewares') = new
    BY <1>4, <1>7
  <2>2. v.at \in {"row", "rm", "fileWrite"}
    BY <1>1, <1>5, <1>7, AfterMiddlewares DEF RedirectOps, UserOps
  <2> HIDE DEF new, user, redirect, auth
  <2> QED
    BY <1>1, <1>5, <1>7, <2>1, <2>2, KnowsAttachment
<1>8. CASE t.op \in {"addRedirect", "dropRedirect"}
  <2> DEFINE e == redirect(t.of)
  <2>1. t.of \in Redirects /\ e \in Entry
    BY <1>1, <1>8, EntryNames DEF soundTask, RedirectOps
  <2>2. IF t.op = "addRedirect" THEN new = mw \cup {e} ELSE new = mw \ {e}
    BY <1>3, <1>8, MwEdits
  <2>3. new \in SUBSET Entry
    BY <1>3, <2>1, <2>2
  <2>4. openRefs(t) = {e} /\ openUsers(t) = {}
    BY <1>1, <1>8, OpenOf
  <2>5. /\ v.op = t.op /\ v.of = t.of /\ v.cfg = t.cfg /\ v.at \in {"rm", "fileWrite"}
        /\ v # nowhere
    BY <1>1, <1>5, <1>8, AfterMiddlewares DEF nowhere, newTask
  <2>6. openRefs(v) = {e} /\ openUsers(v) = {}
    BY <1>8, <2>5, OpenOf
  <2>7. e # RedirectToHttps /\ \A u : user(u) # e
    BY NamesDiffer
  <2> HIDE DEF new, mw, e
  <2>8. \A ref : ref \notin {e} /\ defined(ref, mw) => defined(ref, new)
    BY <2>2, <2>7, DefinedMore, DefinedLess
  <2>9. Settled({e}, {})'
    <3>1. \A u \in Users : u \in users <=> user(u) \in mw
      BY <1>1, <2>4 DEF Settled, mw
    <3> HIDE DEF user, RedirectToHttps
    <3>2. \A u \in Users \ {} : u \in users <=> user(u) \in new
      BY <2>2, <2>7, <3>1
    <3> QED
      BY <1>2, <1>6, <2>2, <2>3, <2>4, <2>7, <2>8, <3>2
  <2>10. Knows(v)'
    <3>1. /\ t.cfg = loadOrCreateConfig(file[appOf[t.of]])
          /\ t.op = "dropRedirect" => redirects[t.of] = "none"
      BY <1>1, <1>8 DEF Knows, RedirectOps
    <3> QED
      BY <1>7, <1>8, <2>2, <2>3, <2>5, <3>1 DEF e
  <2> QED
    BY <2>6, <2>9, <2>10 DEF leaves
<1>9. CASE t.op = "editRedirect"
  <2>1. new = mw
    BY <1>3, <1>9, MwEdits
  <2>2. v = nowhere
    <3>1. afterMiddlewares(t) = "end"
      BY <1>1, <1>9, AfterMiddlewares
    <3> QED
      BY <1>5, <1>9, <3>1
  <2>3. openRefs(t) = {} /\ openUsers(t) = {}
    BY <1>9, OpenOf
  <2> HIDE DEF new
  <2>4. Settled({}, {})'
    BY <1>1, <1>2, <1>3, <1>6, <2>1, <2>3 DEF Settled
  <2> QED
    BY <2>2, <2>4, Ended DEF leaves
<1> DEFINE u == t.of
           b == appOf[u]
           e == user(u)
\* A user added or removed: the lines of the others stay.
<1>10. ASSUME t.op \in UserOps, new = mw \cup {e} \/ new = mw \ {e}
       PROVE  /\ u \in Users /\ b \in Apps /\ e \in Entry /\ new \in SUBSET Entry
              /\ RedirectToHttps \in new
              /\ \A w \in Users \ {u} : user(w) \in new <=> user(w) \in mw
              /\ \A a : usersIn(new, a) \ {u} = usersIn(mw, a) \ {u}
              /\ \A a : a # b => usersIn(new, a) = usersIn(mw, a)
              /\ \A ref \in Reference : ref # auth(b) /\ defined(ref, mw) => defined(ref, new)
  <2>1. u \in Users /\ b \in Apps /\ e \in Entry
    BY <1>1, <1>10, EntryNames, IdsAssumption DEF soundTask
  <2>2. new \in SUBSET Entry
    BY <1>3, <1>10, <2>1
  <2>3. e # RedirectToHttps /\ \A w \in Users \ {u} : user(w) # e
    BY NamesDiffer
  <2>4. \A ref \in Reference : ref # e
    <3> HIDE DEF strip, gate, redirect, auth, user, RedirectToHttps
    <3> QED
      BY NamesDiffer DEF Reference, Named
  <2> HIDE DEF new, mw
  <2>5. \A w \in Users \ {u} : user(w) \in new <=> user(w) \in mw
    BY <1>10, <2>3
  <2>6. /\ \A a : usersIn(new, a) \ {u} = usersIn(mw, a) \ {u}
        /\ \A a : a # b => usersIn(new, a) = usersIn(mw, a)
    <3> HIDE DEF user, e
    <3> QED
      BY <2>5 DEF usersIn
  <2>7. ASSUME NEW ref \in Reference, ref # auth(b), defined(ref, mw) PROVE defined(ref, new)
    <3> HIDE DEF e, auth, user
    <3> QED
      BY <1>10, <2>4, <2>6, <2>7, DefinedKept
  <2> QED
    BY <1>2, <1>10, <2>1, <2>2, <2>3, <2>5, <2>6, <2>7
<1>11. CASE t.op \in {"addUser", "restoreUser"}
  <2>1. new = mw \cup {e} /\ t.op \in UserOps
    BY <1>3, <1>11, MwEdits DEF UserOps
  <2>2. openRefs(t) = {auth(b)} /\ openUsers(t) = {u}
    BY <1>11, OpenOf
  <2>3. /\ v.op = t.op /\ v.of = u /\ v.cfg = t.cfg /\ v.at \in {"rm", "fileWrite"}
        /\ v # nowhere
    BY <1>1, <1>5, <1>11, AfterMiddlewares DEF nowhere, newTask
  <2>4. openRefs(v) = {auth(b)} /\ openUsers(v) = {u}
    BY <1>11, <2>3, OpenOf
  <2>5. Settled({auth(b)}, {u})'
    <3>1. \A w \in Users \ {u} : w \in users <=> user(w) \in mw
      BY <1>1, <2>2 DEF Settled
    <3> HIDE DEF new, mw, e, auth, user, RedirectToHttps
    <3> QED
      BY <1>6, <1>10, <2>1, <2>2, <3>1
  <2>6. Knows(v)'
    <3>1. /\ t.cfg = loadOrCreateConfig(file[appOf[t.of]])
          /\ t.op = "restoreUser" => t.of \in users
      BY <1>1, <1>11 DEF Knows, UserOps
    <3>2. new \in SUBSET Entry /\ e \in new
      BY <1>10, <2>1
    <3> HIDE DEF new, mw
    <3> QED
      BY <1>7, <1>11, <2>3, <3>1, <3>2
  <2> QED
    BY <2>4, <2>5, <2>6 DEF leaves
<1>12. CASE t.op \in {"dropUser", "changeUser"}
  <2>1. new = mw \ {e} /\ t.op \in UserOps
    BY <1>3, <1>12, MwEdits DEF UserOps
  <2>2. /\ openRefs(t) = IF t.op = "dropUser" THEN {} ELSE {auth(b)}
        /\ openUsers(t) = {u}
    BY <1>1, <1>12, OpenOf
  <2>3. lastUser(t) <=> usersIn(mw, b) = {u}
    BY <1>3 DEF lastUser
  <2>4. u \notin usersIn(new, b)
    BY <2>1 DEF usersIn
  <2>5. \A w \in Users \ {u} : w \in users <=> user(w) \in mw
    BY <1>1, <2>2 DEF Settled
  <2>6. /\ t.op = "dropUser" => u \notin users /\ e \in mw
        /\ t.op = "changeUser" => u \in users
    BY <1>1, <1>12 DEF Knows
  <2>7. t.cfg = loadOrCreateConfig(file[b])
    BY <1>1, <1>12 DEF Knows, UserOps
  <2>8. CASE lastUser(t) \/ t.op = "changeUser"
    <3>1. /\ v.op = t.op /\ v.of = u /\ v.cfg = t.cfg /\ v # nowhere
          /\ v.at \in {"row", "rm", "fileWrite"}
          /\ t.op = "dropUser" => v.at \in {"rm", "fileWrite"} /\ lastUser(t)
      BY <1>1, <1>5, <1>12, <2>8, AfterMiddlewares DEF nowhere, newTask
    <3>2. openRefs(v) = {auth(b)} /\ openUsers(v) = {u}
      BY <1>12, <3>1, OpenOf
    <3>3. Settled({auth(b)}, {u})'
      <4> HIDE DEF new, mw, e, auth, user, RedirectToHttps
      <4> QED
        BY <1>6, <1>10, <2>1, <2>2, <2>5
    <3>4. Knows(v)'
      <4>1. lastUser(t) => usersIn(new, b) = {}
        BY <1>10, <2>1, <2>3, <2>4
      <4>2. new \in SUBSET Entry
        BY <1>10, <2>1
      <4> HIDE DEF new, mw, e, user
      <4> QED
        BY <1>7, <1>12, <2>6, <2>7, <3>1, <4>1, <4>2
    <3> QED
      BY <3>2, <3>3, <3>4 DEF leaves
  <2>9. CASE ~ lastUser(t) /\ t.op = "dropUser"
    <3>1. v = nowhere
      <4>1. afterMiddlewares(t) = "end"
        BY <1>1, <2>9, AfterMiddlewares
      <4> QED
        BY <1>5, <2>9, <4>1
    <3>2. usersIn(new, b) # {}
      <4>1. u \in usersIn(mw, b)
        BY <1>10, <2>1, <2>6, <2>9 DEF usersIn
      <4> QED
        BY <1>10, <2>1, <2>3, <2>9, <4>1
    <3>3. defined(auth(b), new)
      BY <1>10, <2>1, <3>2 DEF defined
    <3>4. \A w \in Users \ {} : w \in users <=> user(w) \in new
      BY <1>10, <2>1, <2>5, <2>6, <2>9
    <3>5. Settled({}, {})'
      <4>1. \A ref \in Reference : ref \notin {} /\ defined(ref, mw) => defined(ref, new)
        BY <1>10, <2>1, <3>3
      <4>2. openRefs(t) \subseteq {} /\ new \in SUBSET Entry /\ RedirectToHttps \in new
        BY <1>10, <2>1, <2>2, <2>9
      <4> HIDE DEF new, mw, e, auth, user, RedirectToHttps
      <4> QED
        BY <1>6, <3>4, <4>1, <4>2
    <3> QED
      BY <3>1, <3>5, Ended DEF leaves
  <2> QED
    BY <1>12, <2>8, <2>9
<1>13. CASE t.op = "deleteApp"
  <2> DEFINE gone == {redirect(r) : r \in {r \in Redirects : redirect(r) \in t.seen}}
                     \cup {user(w) : w \in {w \in Users : /\ appOf[w] = t.of
                                                          /\ auth(t.of) \in t.seen}}
  <2>1. new = mw \ gone
    BY <1>3, <1>13, MwEdits
  <2>2. new \in SUBSET Entry
    BY <1>3, <2>1
  <2>3. /\ openRefs(t) = ownRefs(t.of)
        /\ openUsers(t) = {w \in Users : appOf[w] = t.of}
    BY <1>1, <1>13, OpenOf
  <2>4. /\ v.op = t.op /\ v.of = t.of /\ v.seen = t.seen /\ v.at = "rm" /\ v # nowhere
    BY <1>1, <1>5, <1>13, AfterMiddlewares DEF nowhere, newTask
  <2>5. /\ openRefs(v) = ownRefs(t.of)
        /\ openUsers(v) = {w \in Users : appOf[w] = t.of}
    BY <1>13, <2>4, OpenOf
  <2>6. /\ t.seen \subseteq ownRefs(t.of)
        /\ auth(t.of) \notin t.seen => usersIn(mw, t.of) = {}
        /\ \A w \in users : appOf[w] # t.of
        /\ \A r \in Redirects : appOf[r] = t.of => redirects[r] = "none"
    <3> HIDE DEF auth
    <3> QED
      BY <1>1, <1>13 DEF Knows
  <2>7. /\ RedirectToHttps \notin gone
        /\ \A w : appOf[w] # t.of => user(w) \notin gone
        /\ \A ref \in Reference : ref \in gone => ref \in t.seen
    <3> HIDE DEF strip, gate, redirect, auth, user, RedirectToHttps
    <3> QED
      BY NamesDiffer DEF Reference, Named
  <2>8. usersIn(new, t.of) = {}
    <3> HIDE DEF redirect, auth, user
    <3> QED
      BY <2>1, <2>6 DEF usersIn
  <2>9. Knows(v)'
    <3> HIDE DEF new, mw, gone, auth
    <3> QED
      BY <1>7, <1>13, <2>2, <2>4, <2>6, <2>8
  <2>10. Settled(ownRefs(t.of), {w \in Users : appOf[w] = t.of})'
    <3>1. \A w \in Users \ {w \in Users : appOf[w] = t.of} : w \in users <=> user(w) \in mw
      BY <1>1, <2>3 DEF Settled
    <3> HIDE DEF gone, user
    <3>2. \A w \in Users \ {w \in Users : appOf[w] = t.of} : w \in users <=> user(w) \in new
      BY <2>1, <2>7, <3>1
    <3>3. ASSUME NEW ref \in Reference, ref \notin ownRefs(t.of), defined(ref, mw)
          PROVE  defined(ref, new)
      <4>1. ref \in mw => ref \in new
        BY <2>1, <2>6, <2>7, <3>3
      <4>2. ASSUME NEW a \in Apps, ref = auth(a) PROVE usersIn(new, a) = usersIn(mw, a)
        <5>1. a # t.of
          BY <3>3, <4>2 DEF ownRefs
        <5> QED
          BY <2>1, <2>7, <5>1 DEF usersIn
      <4> HIDE DEF new, mw
      <4> QED
        BY <3>3, <4>1, <4>2, DefinedKept
    <3>4. RedirectToHttps \in new
      BY <1>2, <2>1, <2>7
    <3> HIDE DEF new, mw, RedirectToHttps
    <3> QED
      BY <1>6, <2>2, <2>3, <3>2, <3>3, <3>4
  <2> QED
    BY <2>5, <2>9, <2>10 DEF leaves
<1> QED
  BY <1>1, <1>8, <1>9, <1>11, <1>12, <1>13 DEF RedirectOps, UserOps

-----------------------------------------------------------------------------
\* What a request about a redirect or a user writes to the application's file
\* puts every router behind what its rows ask for.
LEMMA TidyWriteApp ==
  ASSUME IInv, Owned, NEW h \in Handlers, NEW t, NEW v, goesOn(h, t, v), writeApp(h)
  PROVE  leaves(v)
<1> DEFINE f  == IF t.at = "rm" THEN NoFile ELSE appEdit(t)
           mw == section(middlewares)
           adds == {"addRedirect", "addUser", "restoreUser"}
           E  == {editedRef(t)}
           F  == IF t.op = "changeUser" THEN E ELSE {}
           V  == IF t.op = "changeUser" THEN {t.of} ELSE {}
<1>1. /\ t.op \in RedirectOps \cup UserOps /\ t.at \in {"fileWrite", "rm"} /\ t \in Task
      /\ t.cfg \in Config /\ soundTask(t) /\ StageKept(t) /\ Knows(t) /\ t = task[h]
      /\ UNCHANGED <<redirects, middlewares>> /\ RowsOK /\ Unset' = Unset
      /\ users' = IF t.op = "addUser" THEN users \cup {t.of} ELSE users
  BY Parts, UnsetFrame DEF goesOn, writeApp, at, Task, commitUser, gateVars
<1>2. t.op # "editRedirect"
  BY <1>1 DEF Knows
<1>3. PICK b \in Apps : b = appOf[t.of]
  BY <1>1, IdsAssumption DEF soundTask
<1>4. /\ file' = [file EXCEPT ![b] = f]
      /\ IF t.op = "changeUser"
         THEN v.op = "changeUser" /\ v.of = t.of /\ v.at = "row" /\ v # nowhere
         ELSE v = nowhere
  <2>1. ~ failAndProceed(h)
    BY GoesTo DEF failAndProceed
  <2>2. /\ file' = [file EXCEPT ![appOf[t.of]] = f]
        /\ IF t.op = "changeUser" THEN goto(h, "row") ELSE finish(h)
    BY <1>1, <2>1 DEF writeApp, proceed
  <2>3. nowhere.op = "none"
    BY DEF nowhere, newTask
  <2> QED
    BY <1>3, <2>2, <2>3, GoesTo
<1>5. openRefs(t) = E /\ openUsers(t) = IF t.op \in UserOps THEN {t.of} ELSE {}
  BY <1>1, <1>2, OpenOf DEF editedRef, RedirectOps, UserOps
<1>6. Settled(E, IF t.op \in UserOps THEN {t.of} ELSE {})
  BY <1>5 DEF goesOn
<1>7. t.cfg = loadOrCreateConfig(file[b])
  BY <1>1, <1>2, <1>3 DEF Knows
<1>8. editedRef(t) \in Reference /\ editedRef(t) \in ownRefs(b)
  BY <1>1, <1>3, EditedRef
<1>9. editedRef(t) # RedirectToHttps
  BY NamesDiffer DEF editedRef
<1>10. f \in Config \cup {NoFile}
  BY <1>1, AppEditServed
<1>11. t.op \in UserOps => t.of \in Users /\ editedRef(t) = auth(b)
  BY <1>1, <1>3 DEF soundTask, editedRef, RedirectOps, UserOps
<1>12. t.op \in RedirectOps => t.of \in Redirects /\ editedRef(t) = redirect(t.of)
  BY <1>1, <1>2 DEF soundTask, editedRef, RedirectOps
\* Rows of users and lines of middlewares.yml.
<1>13. \A w \in Users \ V : w \in users' <=> user(w) \in mw
  <2>1. \A w \in Users : (t.op \in UserOps /\ w # t.of) \/ t.op \in RedirectOps =>
          (w \in users <=> user(w) \in mw)
    BY <1>1, <1>6 DEF Settled, RedirectOps, UserOps
  <2>2. /\ t.op \in {"addUser", "restoreUser"} => user(t.of) \in mw
        /\ t.op = "restoreUser" => t.of \in users
        /\ t.op = "dropUser" => t.of \notin users /\ usersIn(mw, b) = {}
    BY <1>1, <1>3 DEF Knows
  <2>3. t.op = "dropUser" => user(t.of) \notin mw
    BY <1>3, <1>11, <2>2 DEF usersIn, UserOps
  <2> HIDE DEF mw, user
  <2> QED
    BY <1>1, <2>1, <2>2, <2>3 DEF RedirectOps, UserOps
<1>14. /\ \A a \in Apps \ {b} : Want(a)' = Want(a)
       /\ Want(b)' \subseteq Want(b) \cup (IF t.op = "addUser" THEN E ELSE {})
  <2>1. CASE t.op = "addUser"
    <3>1. t.of \in Users /\ editedRef(t) = auth(b) /\ users' = users \cup {t.of}
      BY <1>1, <1>11, <2>1 DEF UserOps
    <3> HIDE DEF auth, redirect
    <3> QED
      BY <1>1, <1>3, <3>1 DEF Want
  <2>2. CASE t.op # "addUser"
    BY <1>1, <2>2 DEF Want
  <2> QED
    BY <2>1, <2>2
<1>15. t.op \in adds => defined(editedRef(t), mw)
  <2>1. CASE t.op = "addRedirect"
    <3>1. redirect(t.of) \in mw
      BY <1>1, <2>1 DEF Knows
    <3> QED
      BY <1>12, <2>1, <3>1 DEF defined, RedirectOps
  <2>2. CASE t.op \in {"addUser", "restoreUser"}
    <3>1. user(t.of) \in mw
      BY <1>1, <2>2 DEF Knows
    <3>2. t.of \in usersIn(mw, b) /\ editedRef(t) = auth(b)
      BY <1>3, <1>11, <2>2, <3>1 DEF usersIn, UserOps
    <3> QED
      BY <3>2 DEF defined
  <2> QED
    BY <2>1, <2>2
<1>16. t.op \notin adds => editedRef(t) \notin Want(b)' \ F
  <2>1. CASE t.op = "dropRedirect"
    <3>1. redirects'[t.of] = "none" /\ t.of \in Redirects /\ editedRef(t) = redirect(t.of)
      BY <1>1, <1>12, <2>1 DEF Knows, RedirectOps
    <3> HIDE DEF redirect, auth
    <3> QED
      BY <3>1, NamesDiffer DEF Want
  <2>2. CASE t.op = "dropUser"
    <3>1. t.of \notin users /\ usersIn(mw, b) = {} /\ users' = users /\ editedRef(t) = auth(b)
      BY <1>1, <1>3, <1>11, <2>2 DEF Knows, UserOps
    <3>2. \A w \in users : appOf[w] # b
      BY <1>1, <1>13, <2>2, <3>1 DEF usersIn, RowsOK
    <3> HIDE DEF redirect, auth
    <3> QED
      BY <3>1, <3>2, NamesDiffer DEF Want
  <2>3. CASE t.op = "changeUser"
    BY <2>3
  <2> QED
    BY <1>1, <1>2, <2>1, <2>2, <2>3 DEF RedirectOps, UserOps
<1>17. \A ref \in Want(b)' \ F : defined(ref, mw)
  <2>1. \A ref \in Want(b) \ E : defined(ref, mw)
    BY <1>6 DEF Settled
  <2> HIDE DEF mw, F
  <2> QED
    BY <1>14, <1>15, <1>16, <2>1
<1>18. ASSUME NEW y \in loadOrCreateConfig(f).routers
       PROVE  /\ RedirectToHttps \notin y.uses => Want(b)' \ F \subseteq y.uses
              /\ \A ref \in y.uses \ F : defined(ref, mw) \/ ref \in Unset
  <2>1. y \in appEdit(t).routers
    BY <1>10, <1>18, AbsenceAssumption DEF loadOrCreateConfig, Empty
  <2>2. PICK x \in t.cfg.routers :
          y.uses = IF t.op \in adds THEN x.uses \cup E ELSE x.uses \ E
    <3>1. CASE t.op \in adds
      <4>1. appEdit(t) = addMiddleware(t.cfg, editedRef(t))
        BY <1>1, <3>1, EditedRef
      <4> QED
        BY <1>1, <1>8, <2>1, <3>1, <4>1, EditedRouters
    <3>2. CASE t.op \notin adds
      <4>1. appEdit(t) = deleteMiddleware(t.cfg, editedRef(t))
        BY <1>1, <3>2, EditedRef
      <4> QED
        BY <1>1, <1>8, <2>1, <3>2, <4>1, EditedRouters
    <3> QED
      BY <3>1, <3>2
  <2>3. /\ RedirectToHttps \notin x.uses => Want(b) \ E \subseteq x.uses
        /\ \A ref \in x.uses \ E : defined(ref, mw) \/ ref \in Unset
    BY <1>6, <1>7, <2>2 DEF Settled, routers
  <2> HIDE DEF mw, F, RedirectToHttps, adds, Unset
  <2> QED
    BY <1>9, <1>14, <1>15, <1>16, <2>2, <2>3 DEF adds
<1>19. Settled(F, V)'
  <2>1. \A a \in Apps \ {b} : Want(a)' = Want(a) /\ Want(a) \cap E = {}
    BY <1>8, <1>14, OwnApart
  <2>2. \A a \in Apps \ {b} : \A x \in routers(a) : x.uses \cap E = {}
    BY <1>8, RoutersApart
  <2> HIDE DEF E, F, V, f, mw
  <2>3. mw = section(middlewares)
    BY DEF mw
  <2> QED
    BY <1>1, <1>4, <1>6, <1>10, <1>13, <1>17, <1>18, <2>1, <2>2, <2>3, SettledFile
<1>20. CASE t.op = "changeUser"
  <2>1. openRefs(v) = E /\ openUsers(v) = {t.of}
    BY <1>3, <1>4, <1>11, <1>20, OpenOf DEF UserOps
  <2>2. t.of \in users'
    BY <1>1, <1>20 DEF Knows
  <2>3. Knows(v)'
    <3>1. v.op \in RedirectOps \cup UserOps \cup {"deleteApp"}
      BY <1>4, <1>20 DEF UserOps
    <3> HIDE DEF auth, redirect, user
    <3> QED
      BY <1>4, <1>20, <2>2, <3>1, KnowsAttachment
  <2> QED
    BY <1>19, <1>20, <2>1, <2>3 DEF leaves
<1>21. CASE t.op # "changeUser"
  BY <1>4, <1>19, <1>21, Ended DEF leaves
<1> QED
  BY <1>20, <1>21

-----------------------------------------------------------------------------
\* What a row that goes leaves in the files, its request is about to remove.
LEMMA TidyDeleteRow ==
  ASSUME IInv, NEW h \in Handlers, NEW t, NEW v, goesOn(h, t, v), deleteRow(h)
  PROVE  leaves(v)
<1>1. /\ t.op \in {"dropRedirect", "dropUser"} /\ t.at = "row" /\ t \in Task /\ soundTask(t)
      /\ t = task[h] /\ Settled(openRefs(t), openUsers(t))
      /\ UNCHANGED <<file, middlewares>> /\ RowsOK /\ Unset' = Unset
  BY Parts, UnsetFrame DEF goesOn, deleteRow, at, gateVars, fileVars
<1>2. Settled({}, {})
  <2>1. openRefs(t) = {} /\ openUsers(t) = {}
    BY <1>1, OpenOf
  <2> QED
    BY <1>1, <2>1
<1>3. CASE t.op = "dropRedirect"
  <2>1. /\ redirects' = [redirects EXCEPT ![t.of] = "none"] /\ UNCHANGED users
        /\ IF redirects[t.of] = "none" THEN finish(h) ELSE goto(h, "mwRead")
        /\ t.of \in Redirects
    BY <1>1, <1>3 DEF deleteRow, soundTask, RedirectOps
  <2>2. CASE redirects[t.of] = "none"
    <3>1. UNCHANGED redirects
      BY <1>1, <2>1, <2>2 DEF RowsOK
    <3> QED
      BY <1>1, <1>2, <2>1, <2>2, <3>1, GoesTo, Ended, SettledFrame DEF leaves
  <2>3. CASE redirects[t.of] # "none"
    <3>1. v.op = "dropRedirect" /\ v.of = t.of /\ v.at = "mwRead"
      BY <1>3, <2>1, <2>3, GoesTo
    <3>2. openRefs(v) = {redirect(t.of)} /\ openUsers(v) = {}
      BY <3>1, OpenOf
    <3>3. Settled({redirect(t.of)}, {})'
      <4>1. \A a \in Apps : Want(a)' \subseteq Want(a)
        <5> HIDE DEF redirect, auth
        <5> QED
          BY <1>1, <2>1 DEF Want, RowsOK
      <4> HIDE DEF redirect
      <4>2. \A a \in Apps : Want(a)' \ {redirect(t.of)} \subseteq Want(a) \ {}
        BY <4>1
      <4> QED
        BY <1>1, <1>2, <2>1, <4>2, SettledRows
    <3>4. Knows(v)'
      <4>1. redirects'[t.of] = "none"
        BY <1>1, <2>1 DEF RowsOK
      <4>2. v.op \in RedirectOps \cup UserOps \cup {"deleteApp"}
        BY <3>1 DEF RedirectOps
      <4> HIDE DEF redirect, auth, user
      <4> QED
        BY <3>1, <4>1, <4>2, KnowsAttachment
    <3> QED
      BY <3>2, <3>3, <3>4 DEF leaves
  <2> QED
    BY <2>2, <2>3
<1>4. CASE t.op = "dropUser"
  <2>1. /\ users' = users \ {t.of} /\ UNCHANGED redirects
        /\ IF t.of \notin users THEN finish(h) ELSE goto(h, "mwRead")
        /\ t.of \in Users
    BY <1>1, <1>4 DEF deleteRow, soundTask, UserOps
  <2>2. CASE t.of \notin users
    <3>1. UNCHANGED users
      BY <2>1, <2>2
    <3> QED
      BY <1>1, <1>2, <2>1, <2>2, <3>1, GoesTo, Ended, SettledFrame DEF leaves
  <2>3. CASE t.of \in users
    <3>1. v.op = "dropUser" /\ v.of = t.of /\ v.at = "mwRead"
      BY <1>4, <2>1, <2>3, GoesTo
    <3>2. openRefs(v) = {} /\ openUsers(v) = {t.of}
      BY <3>1, OpenOf
    <3>3. Settled({}, {t.of})'
      <4>1. \A a \in Apps : Want(a)' \subseteq Want(a)
        <5> HIDE DEF redirect, auth
        <5> QED
          BY <2>1 DEF Want
      <4>2. \A a \in Apps : Want(a)' \ {} \subseteq Want(a) \ {}
        BY <4>1
      <4>3. \A w \in Users \ {t.of} : w \in users' <=> w \in users
        BY <2>1
      <4> QED
        BY <1>1, <1>2, <4>2, <4>3, SettledRows
    <3>4. Knows(v)'
      <4>1. user(t.of) \in section(middlewares') /\ t.of \notin users'
        BY <1>1, <1>2, <2>1, <2>3 DEF Settled
      <4>2. v.op \in RedirectOps \cup UserOps \cup {"deleteApp"}
        BY <3>1 DEF UserOps
      <4> HIDE DEF redirect, auth, user
      <4> QED
        BY <3>1, <4>1, <4>2, KnowsAttachment
    <3> QED
      BY <3>2, <3>3, <3>4 DEF leaves
  <2> QED
    BY <2>2, <2>3
<1> QED
  BY <1>1, <1>3, <1>4

LEMMA TidyDeleteApplicationRow ==
  ASSUME IInv, NEW h \in Handlers, NEW t, NEW v, goesOn(h, t, v), deleteApplicationRow(h)
  PROVE  leaves(v)
<1> DEFINE mine == {w \in Users : appOf[w] = t.of}
<1>1. /\ t.op = "deleteApp" /\ t.at = "row" /\ t \in Task /\ soundTask(t) /\ t.of \in Apps
      /\ t = task[h] /\ Settled(openRefs(t), openUsers(t)) /\ Knows(t)
      /\ UNCHANGED <<file, middlewares>> /\ RowsOK /\ Unset' = Unset
      /\ redirects' = [r \in Redirects |-> IF appOf[r] = t.of THEN "none" ELSE redirects[r]]
      /\ users' = {u \in users : appOf[u] # t.of}
      /\ goto(h, "mwRead")
  BY Parts, UnsetFrame DEF goesOn, deleteApplicationRow, at, gateVars, fileVars, soundTask
<1>2. Settled({}, {})
  <2>1. openRefs(t) = {} /\ openUsers(t) = {}
    BY <1>1, OpenOf
  <2> QED
    BY <1>1, <2>1
<1>3. v.op = "deleteApp" /\ v.of = t.of /\ v.at = "mwRead" /\ v.seen = t.seen
  BY <1>1, GoesTo
<1>4. openRefs(v) = ownRefs(t.of) /\ openUsers(v) = mine
  BY <1>3, OpenOf
<1>5. Settled(ownRefs(t.of), mine)'
  <2>1. \A a \in Apps : Want(a)' \subseteq Want(a)
    <3> HIDE DEF redirect, auth
    <3> QED
      BY <1>1 DEF Want
  <2>2. \A a \in Apps : Want(a)' \ ownRefs(t.of) \subseteq Want(a) \ {}
    BY <2>1
  <2>3. \A w \in Users \ mine : w \in users' <=> w \in users
    BY <1>1
  <2> QED
    BY <1>1, <1>2, <2>2, <2>3, SettledRows
<1>6. /\ t.seen \subseteq ownRefs(t.of)
      /\ auth(t.of) \in t.seen <=> \E u \in users : appOf[u] = t.of
  <2> HIDE DEF auth
  <2> QED
    BY <1>1 DEF Knows
<1>7. auth(t.of) \notin t.seen => usersIn(section(middlewares'), t.of) = {}
  <2> HIDE DEF auth
  <2>1. \A w \in Users : w \in users <=> user(w) \in section(middlewares')
    BY <1>1, <1>2 DEF Settled
  <2> HIDE DEF user
  <2> QED
    BY <1>6, <2>1 DEF usersIn
<1>8. Knows(v)'
  <2>1. v.op \in RedirectOps \cup UserOps \cup {"deleteApp"}
    BY <1>3
  <2>2. /\ \A u \in users' : appOf[u] # v.of
        /\ \A r \in Redirects : appOf[r] = v.of => redirects'[r] = "none"
    BY <1>1, <1>3
  <2> HIDE DEF redirect, auth, user
  <2> QED
    BY <1>3, <1>6, <1>7, <2>1, <2>2, KnowsAttachment
<1> QED
  BY <1>4, <1>5, <1>8 DEF leaves

LEMMA TidyRemoveConfig ==
  ASSUME IInv, Owned, NEW h \in Handlers, NEW t, NEW v, goesOn(h, t, v),
         removeTraefikConfig(h)
  PROVE  leaves(v)
<1> DEFINE mw == section(middlewares)
           mine == {w \in Users : appOf[w] = t.of}
           E == ownRefs(t.of)
<1>1. /\ t.op = "deleteApp" /\ t.at = "rm" /\ t.of \in Apps /\ t = task[h]
      /\ Settled(openRefs(t), openUsers(t)) /\ Knows(t)
      /\ UNCHANGED <<redirects, users, middlewares>> /\ RowsOK /\ Unset' = Unset
      /\ v = nowhere /\ file' = [file EXCEPT ![t.of] = NoFile]
  BY GoesTo, Parts, UnsetFrame DEF goesOn, removeTraefikConfig, at, gateVars, rowVars, soundTask
<1>2. Settled(E, mine)
  <2>1. openRefs(t) = E /\ openUsers(t) = mine
    BY <1>1, OpenOf
  <2> QED
    BY <1>1, <2>1
<1>3. /\ \A u \in users : appOf[u] # t.of
      /\ \A r \in Redirects : appOf[r] = t.of => redirects[r] = "none"
      /\ usersIn(mw, t.of) = {}
  BY <1>1 DEF Knows
<1>4. Want(t.of) = {} /\ \A a : Want(a)' = Want(a)
  <2> HIDE DEF redirect, auth
  <2> QED
    BY <1>1, <1>3 DEF Want
<1>5. \A w \in Users \ {} : w \in users' <=> user(w) \in mw
  <2>1. \A w \in Users \ mine : w \in users <=> user(w) \in mw
    BY <1>2 DEF Settled
  <2>2. \A w \in mine : w \notin users /\ user(w) \notin mw
    BY <1>3 DEF usersIn
  <2> HIDE DEF mw, user
  <2> QED
    BY <1>1, <2>1, <2>2
<1>6. \A a \in Apps \ {t.of} : Want(a)' = Want(a) /\ Want(a) \cap E = {}
  BY <1>1, <1>4, OwnApart
<1>7. \A a \in Apps \ {t.of} : \A x \in routers(a) : x.uses \cap E = {}
  BY <1>1, RoutersApart
<1>8. loadOrCreateConfig(NoFile).routers = {}
  BY DEF loadOrCreateConfig, Empty
<1>9. Settled({}, {})'
  <2> HIDE DEF mw, E, mine
  <2>1. mw = section(middlewares)
    BY DEF mw
  <2>2. \A ref \in Want(t.of)' \ {} : defined(ref, mw)
    BY <1>1, <1>4
  <2>3. \A x \in loadOrCreateConfig(NoFile).routers :
           /\ RedirectToHttps \notin x.uses => Want(t.of)' \ {} \subseteq x.uses
           /\ \A ref \in x.uses \ {} : defined(ref, mw) \/ ref \in Unset
    BY <1>8
  <2> QED
    BY <1>1, <1>2, <1>5, <1>6, <1>7, <2>1, <2>2, <2>3, SettledFile
<1> QED
  BY <1>1, <1>9, Ended DEF leaves

-----------------------------------------------------------------------------
LEMMA TidyWork ==
  ASSUME IInv, Agreement, Protection, NEW h \in Handlers, Work(h) PROVE Tidy'
<1>1. PICK t, v : t = task[h] /\ v = task'[h]
  OBVIOUS
<1>2. /\ t.op # "none"
      /\ \A g \in Handlers \ {h} : task'[g] = task[g]
      /\ v = nowhere \/ moved(t, v)
      /\ t \in Task /\ soundTask(t) /\ StageKept(t)
  BY <1>1, WorkMoves, Parts DEF TasksOK, Agreement, StagesKept
<1>3. Owned /\ CleanAlone /\ Tidy /\ CleanKnows
  BY DEF Protection, Agreement
<1>4. nowhere.op = "none"
  BY DEF nowhere, newTask
<1>5. CASE ~ calm'
  BY <1>5 DEF Tidy
<1>6. CASE calm' /\ (v = nowhere \/ v.clean)
  <2>1. goesOn(h, t, v) /\ t.clean
    BY <1>1, <1>2, <1>3, <1>6, CleanStep DEF goesOn
  <2>2. leaves(v)
    BY <1>3, <2>1, TidyRowSteps, TidyDomainReads, TidyDomainWrites, TidyWriteDomain,
       TidyAttachmentReads, TidyWriteAttachment, TidyWriteApp, TidyDeleteRow,
       TidyDeleteApplicationRow, TidyRemoveConfig DEF Work
  <2>3. \A g \in Handlers \ {h} : task'[g].op = "none"
    BY <1>1, <1>2, <1>3, <2>1 DEF CleanAlone, idle
  <2>4. v.op = "none" => Settled({}, {})'
    <3>1. v.op = "none" => openRefs(v) = {} /\ openUsers(v) = {}
      BY OpenOf
    <3> QED
      BY <2>2, <3>1 DEF leaves
  <2>5. v.op # "none" => Settled(openRefs(v), openUsers(v))' /\ Knows(v)'
    BY <1>4, <2>2 DEF leaves
  <2> QED
    BY <1>1, <2>3, <2>4, <2>5 DEF Tidy, idle
<1>7. CASE v # nowhere /\ ~ v.clean
  <2>1. v.op # "none"
    BY <1>2, <1>7 DEF moved, UserOps
  <2>2. \A g \in Handlers : ~ task'[g].clean
    BY <1>1, <1>2, <1>3, <1>7 DEF CleanAlone, idle
  <2> QED
    BY <1>1, <2>1, <2>2 DEF Tidy, idle
<1> QED
  BY <1>5, <1>6, <1>7

LEMMA ProtectionInit == Init => Protection
  BY OwnedInit, TidyInit DEF Protection

LEMMA ProtectionStep == IInv /\ Agreement /\ Protection /\ [Next]_vars => Protection'
<1> SUFFICES ASSUME IInv, Agreement, Protection, [Next]_vars PROVE Protection'
  OBVIOUS
<1>1. ASSUME NEW h \in Handlers, Arrive(h) PROVE Protection'
  BY <1>1, OwnedArrive, CleanAloneArrive, TidyArrive DEF Protection
<1>2. ASSUME NEW h \in Handlers, Work(h) PROVE Protection'
  BY <1>2, OwnedWork, CleanAloneWork, TidyWork DEF Protection
<1>3. ASSUME NEW r \in Redirects, commitRedirect(r) PROVE Protection'
  <2>1. Owned'
    BY <1>3 DEF Protection, Owned, commitRedirect, fileVars
  <2> QED
    BY <1>3, <2>1, TidyCommit DEF Protection
<1>4. CASE setForwardAuthSettings \/ removeForwardAuthSettings \/ UNCHANGED vars
  <2>1. UNCHANGED <<redirects, users, file, middlewares, task, calm>> /\ Unset' = Unset
    BY <1>4, UnsetFrame DEF setForwardAuthSettings, removeForwardAuthSettings, saveAuthDomain, vars,
       gateVars, rowVars, fileVars
  <2>2. Owned' /\ CleanAlone'
    BY <2>1 DEF Protection, Owned, CleanAlone, idle
  <2>3. \A E, U : Settled(E, U) => Settled(E, U)'
    BY <2>1, SettledFrame
  <2>4. \A c : Knows(c) => Knows(c)'
    <3> HIDE DEF Unset
    <3> QED
      BY <2>1 DEF Knows
  <2>5. Tidy'
    BY <2>1, <2>3, <2>4 DEF Protection, Tidy, idle
  <2> QED
    BY <2>2, <2>5 DEF Protection
<1> QED
  BY <1>1, <1>2, <1>3, <1>4 DEF Next

\* While requests come one after the other and none has failed, rows and files
\* agree but for what the request in progress still has to do, and a file holds
\* the routers of its application behind nothing of another.
THEOREM ProtectionInvariant == Spec => [](IInv /\ Agreement /\ Protection)
<1>1. Init => IInv /\ Agreement /\ Protection
  BY InitInvariant, AgreementInit, ProtectionInit
<1>2. IInv /\ Agreement /\ Protection /\ [Next]_vars => IInv' /\ Agreement' /\ Protection'
  BY StepInvariant, AgreementStep, ProtectionStep
<1> QED
  BY <1>1, <1>2, PTL DEF Spec

\* For any number of applications, domains, redirects and users, on both kinds of
\* server: after requests that came one after the other every router that takes
\* requests is behind the redirects and the password of its application, and
\* every reference of a router is defined in middlewares.yml, or is the sign-on
\* of its domain, last saved while the server had no authentication domain.
THEOREM RoutersStayProtected == Spec => []RoutersProtected
<1>1. IInv /\ Agreement /\ Protection => RoutersProtected
  <2> SUFFICES ASSUME IInv, Protection, AtRest, calm,
                      NEW d \in Domains, NEW x \in RoutersOf(d)
               PROVE  /\ RedirectToHttps \notin x.uses => attached(appOf[d]) \subseteq x.uses
                      /\ \A ref \in x.uses : \/ defined(ref, section(middlewares))
                                             \/ ref = gate(d) /\ d \in ungated
    BY DEF RoutersProtected
  <2>1. Settled({}, {})
    BY DEF Protection, Tidy, AtRest, quietBut
  <2>2. x \in routers(appOf[d]) /\ appOf[d] \in Apps
    BY RoutersOfDomain, IdsAssumption
  <2>3. attached(appOf[d]) = Want(appOf[d])
    BY Parts, WantAttached DEF AtRest, quietBut
  <2>4. ASSUME NEW ref \in x.uses, ref \in Unset PROVE ref = gate(d) /\ d \in ungated
    <3>1. x.uses \subseteq ownRefs(appOf[d]) \cup {RedirectToHttps, strip(d), gate(d)}
      BY <2>2, RoutersOfDomain DEF Protection, Owned, ownConfig, routers
    <3>2. \A e : gate(e) \notin ownRefs(appOf[d]) /\ gate(e) # RedirectToHttps
                  /\ gate(e) # strip(d) /\ (gate(e) = gate(d) => e = d)
      <4> HIDE DEF strip, gate, redirect, auth, RedirectToHttps
      <4> QED
        BY NamesDiffer DEF ownRefs
    <3>3. PICK e \in ungated : ref = gate(e)
      BY <2>4 DEF Unset
    <3> HIDE DEF gate, strip, RedirectToHttps
    <3> QED
      BY <2>4, <3>1, <3>2, <3>3
  <2> HIDE DEF Unset
  <2> QED
    BY <2>1, <2>2, <2>3, <2>4 DEF Settled
<1> QED
  BY ProtectionInvariant, <1>1, PTL

=============================================================================
