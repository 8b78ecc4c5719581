--------------------------- MODULE TraefikConfig ---------------------------
(***************************************************************************)
(* The files through which applications are exposed: one file of routers   *)
(* and services per application, one file of middlewares per server, both  *)
(* read, edited and written back by request handlers that hold no lock,    *)
(* next to the rows of domains, redirects and users in the database.       *)
(*                                                                         *)
(* On a remote server every read and write is a command over ssh, awaited. *)
(* On the server Dokploy itself runs on reads and writes are synchronous:  *)
(* a handler yields only where it awaits the database, bcrypt or rm.       *)
(***************************************************************************)
EXTENDS Naturals

CONSTANTS
  Apps, Domains, Redirects, Users,
  appOf,        \* the application of each domain, redirect and user
  Shapes,       \* the settings a request may give a domain
  Seeds,        \* the rows the system may start with
  NoDomain, NoFile, NoSection,   \* a missing row, file, "http" section
  Handlers,     \* requests handled at the same time
  MaxRequests,  \* bound of the model: requests in all
  MaxFaults     \* bound of the model: remote commands that fail

Settings == [enabled : BOOLEAN, https : BOOLEAN, strip : BOOLEAN, gate : BOOLEAN]

ASSUME IdsAssumption ==
  /\ appOf \in [Domains \cup Redirects \cup Users -> Apps]
  /\ Apps # {}
  /\ NoDomain \notin Settings
ASSUME ShapesAssumption ==
  /\ Shapes \subseteq Settings
  /\ Seeds \subseteq [domains   : [Domains -> Settings \cup {NoDomain}],
                     redirects : [Redirects -> {"none", "saved"}],
                     users     : SUBSET Users, authDomain : BOOLEAN]
ASSUME BoundsAssumption == MaxRequests \in Nat /\ MaxFaults \in Nat

VARIABLES
  remote,       \* the applications run on a remote server; never changes
  apps,         \* the applications that exist
  domains,      \* domains[d]: the row of a domain
  redirects,    \* redirects[r]: "none", "inserted" and not committed, "saved"
  users,        \* the rows of security that exist
  file,         \* file[a]: routers and services of a
  middlewares,  \* middlewares.yml
  authDomain,   \* the row of forwardAuthSettings of the server exists
  ungated,      \* domains whose last look for that row found none
  task,         \* task[h]: the request h handles, what it has read
  raced,        \* some write replaced what its handler had not read
  calm,         \* no request that ended overlapped another or saw a failure
  faults, requests

rowVars  == <<apps, domains, redirects, users>>
fileVars == <<file, middlewares>>
gateVars == <<authDomain, ungated>>
vars == <<remote, gateVars, rowVars, fileVars, task, raced, calm, faults, requests>>

-----------------------------------------------------------------------------
(* Names and contents of the files                                         *)

RedirectToHttps == <<"redirect-to-https">>
strip(d)    == <<"stripprefix", d>>
gate(d)     == <<"forward-auth", d>>
redirect(r) == <<"redirect", r>>
auth(a)     == <<"auth", a>>
user(u)     == <<"auth", appOf[u], u>>   \* a line of the users of auth(a)

Named == {RedirectToHttps} \cup {strip(d) : d \in Domains}
           \cup {gate(d) : d \in Domains} \cup {redirect(r) : r \in Redirects}
Reference == Named \cup {auth(a) : a \in Apps}
Entry     == Named \cup {user(u) : u \in Users}

Router == [of : Domains, secure : BOOLEAN, uses : SUBSET Reference]
Config == [routers : SUBSET Router, services : SUBSET Domains]
Empty  == [routers |-> {}, services |-> {}]

\* A missing file is no file, a missing section no set of middlewares.
ASSUME AbsenceAssumption ==
  NoFile \notin Config /\ \A mw \in SUBSET Entry : mw # NoSection

loadOrCreateConfig(f) == IF f = NoFile THEN Empty ELSE f

usersIn(mw, a) == {u \in Users : appOf[u] = a /\ user(u) \in mw}
defined(ref, mw) ==
  ref \in mw \/ \E a \in Apps : ref = auth(a) /\ usersIn(mw, a) # {}

\* Mutant: the guard for disabled domains is missing.
exposedAnyway(row) == row # NoDomain

exposed(row) == row # NoDomain /\ row.enabled

\* What findApplicationById finds attached to the application.
attached(a) == {redirect(r) : r \in {r \in Redirects : /\ appOf[r] = a
                                                       /\ redirects[r] = "saved"}}
               \cup {auth(b) : b \in {a} \cap {appOf[u] : u \in users}}

\* The web router of an https domain only redirects.
createRouterConfig(d, row, seen, secure) ==
  [of |-> d, secure |-> secure,
   uses |-> IF row.https /\ ~ secure
            THEN {RedirectToHttps}
            ELSE seen \cup {strip(x) : x \in {x \in {d} : row.strip}}
                      \cup {gate(x) : x \in {x \in {d} : row.gate}}]

routersFor(d, row, seen) ==
  IF exposed(row)
  THEN {createRouterConfig(d, row, seen, secure) :
          secure \in {s \in BOOLEAN : s => row.https}}
  ELSE {}

\* Mutant: a domain that goes back to http keeps its websecure router.
keepSecure(cfg, d, row, seen) ==
  [routers  |-> {x \in cfg.routers : x.of # d \/ (x.secure /\ exposed(row))}
                  \cup routersFor(d, row, seen),
   services |-> IF exposed(row) THEN cfg.services \cup {d} ELSE cfg.services \ {d}]

\* Mutant: removeDomain forgets the websecure router.
leaveSecure(cfg, d, row, seen) ==
  [routers  |-> {x \in cfg.routers : x.of # d \/ (x.secure /\ ~ exposed(row))}
                  \cup routersFor(d, row, seen),
   services |-> IF exposed(row) THEN cfg.services \cup {d} ELSE cfg.services \ {d}]

\* manageDomain and removeDomain: the router and service keys of d.
setDomain(cfg, d, row, seen) ==
  [routers  |-> {x \in cfg.routers : x.of # d} \cup routersFor(d, row, seen),
   services |-> IF exposed(row) THEN cfg.services \cup {d} ELSE cfg.services \ {d}]

addMiddleware(cfg, ref) ==
  [cfg EXCEPT !.routers = {[x EXCEPT !.uses = @ \cup {ref}] : x \in cfg.routers}]

deleteMiddleware(cfg, ref) ==
  [cfg EXCEPT !.routers = {[x EXCEPT !.uses = @ \ {ref}] : x \in cfg.routers}]

-----------------------------------------------------------------------------
(* Requests in progress                                                    *)

DomainOps   == {"create", "update", "toggle", "delete"}
RedirectOps == {"addRedirect", "editRedirect", "dropRedirect"}
UserOps     == {"addUser", "dropUser", "changeUser", "restoreUser"}
Ops == DomainOps \cup RedirectOps \cup UserOps \cup {"deleteApp", "none"}

\* Where a handler waits, or, on the local server, goes on at once.
Awaits == {"row", "reread", "app", "load", "gateQuery", "mwRead", "rm"}
Steps  == {"paths", "pathsWrite", "gateRead", "gateWrite", "write",
           "appRead", "mwWrite", "fileWrite"}

Task == [op : Ops, at : Awaits \cup Steps \cup {"idle"},
         of : Domains \cup Redirects \cup Users \cup Apps,
         row : Settings \cup {NoDomain}, seen : SUBSET Reference,
         cfg : Config, mw : (SUBSET Entry) \cup {NoSection}, clean : BOOLEAN]

idle(h) == task[h].op = "none"
\* Nothing is going on but what the handlers H do.
quietBut(H) == /\ \A h \in Handlers \ H : idle(h)
               /\ \A r \in Redirects : redirects[r] # "inserted"
AtRest      == quietBut({})

newTask(op, at, x, row) ==
  [op |-> op, at |-> at, of |-> x, row |-> row, seen |-> {}, cfg |-> Empty,
   mw |-> NoSection, clean |-> FALSE]

nowhere == newTask("none", "idle", CHOOSE a \in Apps : TRUE, NoDomain)

\* bcrypt.hash is awaited between the two reads of createSecurityMiddleware.
inSync(h) == /\ ~ remote
             /\ task[h].at \in Steps
             /\ ~ (task[h].at = "appRead" /\ task[h].op \in {"addUser", "restoreUser"})

\* Nobody else runs before a synchronous stretch of the local server ends.
runs(h) == \A g \in Handlers \ {h} : ~ inSync(g)

at(h, stage) == task[h].at = stage /\ runs(h)

TypeOK ==
  /\ remote \in BOOLEAN
  /\ apps \subseteq Apps
  /\ domains \in [Domains -> Settings \cup {NoDomain}]
  /\ redirects \in [Redirects -> {"none", "inserted", "saved"}]
  /\ users \subseteq Users
  /\ file \in [Apps -> Config \cup {NoFile}]
  /\ middlewares \in (SUBSET Entry) \cup {NoSection}
  /\ authDomain \in BOOLEAN /\ ungated \subseteq Domains
  /\ task \in [Handlers -> Task]
  /\ raced \in BOOLEAN /\ calm \in BOOLEAN
  /\ faults \in 0..MaxFaults /\ requests \in 0..MaxRequests

\* The domains that are to be reached.
Enabled == {d \in Domains : domains[d] # NoDomain /\ domains[d].enabled}

rendered(a) ==
  LET D == {d \in Enabled : appOf[d] = a} IN
  IF D = {} THEN NoFile
  ELSE [routers  |-> UNION {routersFor(d, domains[d], attached(a)) : d \in D},
        services |-> D]

\* Quiet states earlier requests, one after the other, have left.
Init ==
  /\ remote \in BOOLEAN
  /\ apps = Apps
  /\ \E rows \in Seeds : /\ domains = rows.domains
                         /\ redirects = rows.redirects
                         /\ users = rows.users
                         /\ authDomain = rows.authDomain
  /\ file = [a \in Apps |-> rendered(a)]
  /\ middlewares = {RedirectToHttps}
       \cup {strip(d) : d \in {d \in Enabled : domains[d].strip}}
       \cup {gate(d) : d \in {d \in Enabled : domains[d].gate}}
       \cup {redirect(r) : r \in {r \in Redirects : redirects[r] = "saved"}}
       \cup {user(u) : u \in users}
  /\ ungated = {}
  /\ task = [h \in Handlers |-> nowhere]
  /\ raced = FALSE /\ calm = TRUE /\ faults = 0 /\ requests = 0

\* A request arrives; from here on neither it nor the others run alone.
arrive(h, t) ==
  /\ idle(h) /\ runs(h) /\ requests < MaxRequests
  /\ requests' = requests + 1
  /\ task' = [g \in Handlers |->
                IF g = h
                THEN [t EXCEPT !.clean = quietBut({h})]
                ELSE [task[g] EXCEPT !.clean = FALSE]]
  /\ UNCHANGED <<remote, gateVars, fileVars, raced, calm, faults>>

begin(h, t) == arrive(h, t) /\ UNCHANGED rowVars

continue(h, t) == task' = [task EXCEPT ![h] = t] /\ UNCHANGED <<calm, requests>>

goto(h, stage) == continue(h, [task[h] EXCEPT !.at = stage])

finish(h) == /\ task' = [task EXCEPT ![h] = nowhere]
             /\ calm' = (calm /\ task[h].clean)
             /\ UNCHANGED requests

throw(h) == finish(h) /\ UNCHANGED <<rowVars, fileVars, raced, faults>>

\* A remote command fails and the handler goes on, with t, all the same.
fail(h, t) == /\ remote /\ faults < MaxFaults
              /\ faults' = faults + 1
              /\ continue(h, [t EXCEPT !.clean = FALSE])

\* A remote command fails and the error ends the request.
failAndThrow(h) == /\ remote /\ faults < MaxFaults
                   /\ faults' = faults + 1
                   /\ task' = [task EXCEPT ![h] = nowhere]
                   /\ calm' = FALSE
                   /\ UNCHANGED requests

-----------------------------------------------------------------------------
(* Domains: the router of the API, up to manageDomain                      *)

busyWith(x) == \E h \in Handlers : ~ idle(h) /\ task[h].of = x

\* The row of a new domain is not committed before manageDomain has returned.
createDomain(h, d, shape) ==
  /\ domains[d] = NoDomain /\ ~ busyWith(d) /\ appOf[d] \in apps
  /\ begin(h, newTask("create", "app", d, shape))

updateDomain(h, d, shape) ==
  /\ domains[d] # NoDomain
  /\ begin(h, newTask("update", "row", d, shape))

\* enabled is read here, and its negation written at the next step.
toggleEnable(h, d) ==
  /\ domains[d] # NoDomain
  /\ begin(h, newTask("toggle", "row", d,
                      [domains[d] EXCEPT !.enabled = ~ domains[d].enabled]))

deleteDomain(h, d) ==
  /\ domains[d] # NoDomain
  /\ begin(h, newTask("delete", "row", d, NoDomain))

\* UPDATE or DELETE ... WHERE: a row that is gone stays gone.
writeRow(h) ==
  LET t == task[h] IN
  /\ at(h, "row") /\ t.op \in {"update", "toggle", "delete"}
  /\ IF t.op = "delete" /\ domains[t.of] = NoDomain
     THEN finish(h) /\ UNCHANGED domains
     ELSE /\ domains' =
               IF domains[t.of] = NoDomain THEN domains
               ELSE IF t.op = "toggle"
               THEN [domains EXCEPT ![t.of].enabled = t.row.enabled]
               ELSE [domains EXCEPT ![t.of] = t.row]
          /\ goto(h, IF t.op = "delete" THEN "app" ELSE "reread")
  /\ UNCHANGED <<remote, gateVars, apps, redirects, users, fileVars, raced, faults>>

rereadRow(h) ==
  LET t == task[h] IN
  /\ at(h, "reread")
  /\ IF domains[t.of] = NoDomain THEN throw(h)
     ELSE /\ continue(h, [t EXCEPT !.at = "app", !.row = domains[t.of]])
          /\ UNCHANGED <<rowVars, fileVars, raced, faults>>
  /\ UNCHANGED <<remote, gateVars>>

\* findApplicationById, with the redirects and users of the application.
findApplication(h) ==
  LET t == task[h]
      a == appOf[t.of]
  IN
  /\ at(h, "app") /\ t.op \in DomainOps
  /\ IF a \notin apps THEN throw(h)
     ELSE /\ continue(h, [t EXCEPT !.at = "load", !.seen = attached(a)])
          /\ UNCHANGED <<rowVars, fileVars, raced, faults>>
  /\ UNCHANGED <<remote, gateVars>>

-----------------------------------------------------------------------------
(* manageDomain and removeDomain                                           *)

\* A failed read is taken for a file that does not exist.
load(h) ==
  LET t == task[h] IN
  /\ at(h, "load")
  /\ \/ /\ continue(h, [t EXCEPT !.at = "paths",
                                 !.cfg = loadOrCreateConfig(file[appOf[t.of]])])
        /\ UNCHANGED faults
     \/ fail(h, [t EXCEPT !.at = "paths", !.cfg = Empty])
  /\ UNCHANGED <<remote, gateVars, rowVars, fileVars, raced>>

edited(t) == setDomain(t.cfg, t.of, t.row, t.seen)

\* Mutant: the file goes with the first domain that goes.
lastStepHasty(t) == IF ~ exposed(t.row) THEN "rm" ELSE "write"

\* removeDomain removes the file instead of writing one without routers.
lastStep(t) ==
  IF ~ exposed(t.row) /\ edited(t).routers = {} THEN "rm" ELSE "write"

afterPaths(t) ==
  CASE exposed(t.row) /\ t.row.gate -> "gateQuery"
    [] ~ exposed(t.row)             -> "gateRead"
    [] OTHER                        -> lastStep(t)

\* createPathMiddlewares and removePathMiddlewares, up to their read: without
\* the file the first begins a new one, the second gives up.
readForPaths(h) ==
  LET t == task[h] IN
  /\ at(h, "paths")
  /\ \/ exposed(t.row) /\ ~ t.row.strip /\ goto(h, afterPaths(t)) /\ UNCHANGED faults
     \/ /\ exposed(t.row) => t.row.strip
        /\ \/ /\ continue(h, [t EXCEPT !.at = "pathsWrite", !.mw = middlewares])
              /\ UNCHANGED faults
           \/ fail(h, [t EXCEPT !.at = IF exposed(t.row) THEN "pathsWrite"
                                                         ELSE afterPaths(t)])
  /\ UNCHANGED <<remote, gateVars, rowVars, fileVars, raced>>

section(mw) == IF mw = NoSection THEN {} ELSE mw

\* A section left empty is deleted, and "http" with it.
pathsEdit(t) ==
  IF exposed(t.row) THEN section(t.mw) \cup {strip(t.of)}
  ELSE IF section(t.mw) \ {strip(t.of)} = {} THEN NoSection
  ELSE t.mw \ {strip(t.of)}

gateEdit(t) ==
  IF exposed(t.row) THEN section(t.mw) \cup {gate(t.of)} ELSE section(t.mw) \ {gate(t.of)}

\* The error of a failed write is logged and nothing else.
writeMiddlewares(h, mw, next) ==
  /\ \/ middlewares' = mw /\ goto(h, next) /\ UNCHANGED faults
     \/ fail(h, [task[h] EXCEPT !.at = next]) /\ UNCHANGED middlewares
  /\ UNCHANGED <<remote, gateVars, rowVars, file, raced>>

writePaths(h) ==
  /\ at(h, "pathsWrite")
  /\ writeMiddlewares(h, pathsEdit(task[h]), afterPaths(task[h]))

\* createForwardAuthMiddleware without an authentication domain writes nothing;
\* the router refers to the middlewares all the same.
queryAuthDomain(h) ==
  LET t == task[h] IN
  /\ at(h, "gateQuery")
  /\ goto(h, IF authDomain THEN "gateRead" ELSE lastStep(t))
  /\ ungated' = IF authDomain THEN ungated \ {t.of} ELSE ungated \cup {t.of}
  /\ UNCHANGED <<remote, authDomain, rowVars, fileVars, raced, faults>>

\* createForwardAuthMiddleware after its query, removeForwardAuthMiddleware.
readForGate(h) ==
  LET t == task[h] IN
  /\ at(h, "gateRead")
  /\ \/ /\ IF ~ exposed(t.row) /\ gate(t.of) \notin section(middlewares)
           THEN goto(h, lastStep(t))
           ELSE continue(h, [t EXCEPT !.at = "gateWrite", !.mw = middlewares])
        /\ UNCHANGED faults
     \/ fail(h, [t EXCEPT !.at = IF exposed(t.row) THEN "gateWrite" ELSE lastStep(t),
                          !.mw = NoSection])
  /\ UNCHANGED <<remote, gateVars, rowVars, fileVars, raced>>

writeGate(h) ==
  /\ at(h, "gateWrite")
  /\ writeMiddlewares(h, gateEdit(task[h]), lastStep(task[h]))

\* Whether the file, or the row, is no longer what the handler has read.
stale(t) ==
  \/ loadOrCreateConfig(file[appOf[t.of]]) # t.cfg
  \/ t.op \in {"update", "toggle"} /\ domains[t.of] # t.row

\* The transaction of createDomain commits when manageDomain has returned.
commitDomain(t) ==
  domains' = IF t.op = "create" THEN [domains EXCEPT ![t.of] = t.row] ELSE domains

writeDomain(h) ==
  LET t == task[h]
      a == appOf[t.of]
  IN
  /\ at(h, "write") \/ at(h, "rm")
  /\ t.op \in DomainOps
  /\ \/ /\ file' = [file EXCEPT ![a] = IF t.at = "rm" THEN NoFile ELSE edited(t)]
        /\ raced' = (raced \/ stale(t))
        /\ finish(h)
        /\ UNCHANGED faults
     \/ failAndThrow(h) /\ UNCHANGED <<file, raced>>
  /\ commitDomain(t)
  /\ UNCHANGED <<remote, gateVars, apps, redirects, users, middlewares>>

\* The row of the server; the router of the authentication domain, which comes and
\* goes with it, is in a file of its own.
saveAuthDomain(present) ==
  /\ authDomain # present /\ requests < MaxRequests
  /\ requests' = requests + 1
  /\ authDomain' = present
  /\ UNCHANGED <<remote, ungated, rowVars, fileVars, task, raced, calm, faults>>

setForwardAuthSettings    == saveAuthDomain(TRUE)
removeForwardAuthSettings == saveAuthDomain(FALSE)

-----------------------------------------------------------------------------
(* Redirects and users                                                     *)

\* createRedirectMiddleware is called inside the transaction and not awaited.
createRedirect(h, r) ==
  /\ redirects[r] = "none" /\ ~ busyWith(r) /\ appOf[r] \in apps
  /\ arrive(h, newTask("addRedirect", "mwRead", r, NoDomain))
  /\ redirects' = [redirects EXCEPT ![r] = "inserted"]
  /\ UNCHANGED <<apps, domains, users>>

commitRedirect(r) ==
  /\ redirects[r] = "inserted"
  /\ redirects' = [redirects EXCEPT ![r] = "saved"]
  /\ UNCHANGED <<remote, gateVars, apps, domains, users, fileVars, task, raced, calm,
                 faults, requests>>

updateRedirect(h, r) ==
  redirects[r] = "saved" /\ begin(h, newTask("editRedirect", "mwRead", r, NoDomain))

removeRedirect(h, r) ==
  redirects[r] = "saved" /\ begin(h, newTask("dropRedirect", "row", r, NoDomain))

createSecurity(h, u) ==
  /\ u \notin users /\ ~ busyWith(u) /\ appOf[u] \in apps
  /\ begin(h, newTask("addUser", "mwRead", u, NoDomain))

deleteSecurity(h, u) ==
  u \in users /\ begin(h, newTask("dropUser", "row", u, NoDomain))

\* A new password: the user is removed from the files and added again.
updateSecurity(h, u) ==
  u \in users /\ begin(h, newTask("changeUser", "mwRead", u, NoDomain))

\* The transaction of updateSecurity holds the row from its UPDATE on.
rowLocked(u) == \E g \in Handlers : task[g].op = "restoreUser" /\ task[g].of = u

\* The UPDATE between the removal and the addition of a user.
updateUserRow(h) ==
  LET t == task[h] IN
  /\ at(h, "row") /\ t.op = "changeUser" /\ ~ rowLocked(t.of)
  /\ IF t.of \in users
     THEN continue(h, [t EXCEPT !.op = "restoreUser", !.at = "mwRead"])
     ELSE finish(h)
  /\ UNCHANGED <<remote, gateVars, rowVars, fileVars, raced, faults>>

\* The row goes first; if it is gone already the request ends.
deleteRow(h) ==
  LET t == task[h] IN
  /\ at(h, "row") /\ t.op \in {"dropRedirect", "dropUser"} /\ ~ rowLocked(t.of)
  /\ IF t.op = "dropRedirect"
     THEN /\ redirects' = [redirects EXCEPT ![t.of] = "none"]
          /\ IF redirects[t.of] = "none" THEN finish(h) ELSE goto(h, "mwRead")
          /\ UNCHANGED users
     ELSE /\ users' = users \ {t.of}
          /\ IF t.of \notin users THEN finish(h) ELSE goto(h, "mwRead")
          /\ UNCHANGED redirects
  /\ UNCHANGED <<remote, gateVars, apps, domains, fileVars, raced, faults>>

\* Unlike those of domains, these reads of the middlewares throw; a delete of the
\* application goes on with its next operation.
readMiddlewares(h) ==
  LET t == task[h] IN
  /\ at(h, "mwRead")
  /\ \/ /\ continue(h, [t EXCEPT !.mw = middlewares,
                                 !.at = IF t.op \in {"editRedirect", "deleteApp"}
                                        THEN "mwWrite" ELSE "appRead"])
        /\ UNCHANGED faults
     \/ t.op # "deleteApp" /\ failAndThrow(h)
     \/ t.op = "deleteApp" /\ fail(h, [t EXCEPT !.at = "rm"])
  /\ UNCHANGED <<remote, gateVars, rowVars, fileVars, raced>>

readApp(h) ==
  LET t == task[h] IN
  /\ at(h, "appRead")
  /\ \/ /\ continue(h, [t EXCEPT !.at = "mwWrite",
                                 !.cfg = loadOrCreateConfig(file[appOf[t.of]])])
        /\ UNCHANGED faults
     \/ fail(h, [t EXCEPT !.at = "mwWrite", !.cfg = Empty])
  /\ UNCHANGED <<remote, gateVars, rowVars, fileVars, raced>>

\* Mutant: removing any user takes the password off the application.
anyUser(t) == TRUE

lastUser(t) == usersIn(section(t.mw), appOf[t.of]) = {t.of}

\* Mutant: a middleware without its list of users is written.
mwEditNoList(t) == t.mw \cup {auth(appOf[t.of])}

\* Without an "http" section nothing is added.
mwEdit(t) ==
  IF t.mw = NoSection THEN NoSection
  ELSE CASE t.op = "addRedirect"  -> t.mw \cup {redirect(t.of)}
         [] t.op = "dropRedirect" -> t.mw \ {redirect(t.of)}
         [] t.op = "editRedirect" -> t.mw
         [] t.op \in {"addUser", "restoreUser"}  -> t.mw \cup {user(t.of)}
         [] t.op \in {"dropUser", "changeUser"}  -> t.mw \ {user(t.of)}
         [] t.op = "deleteApp" ->
              t.mw \ ({redirect(r) : r \in {r \in Redirects : redirect(r) \in t.seen}}
                      \cup {user(u) : u \in {u \in Users : /\ appOf[u] = t.of
                                                           /\ auth(t.of) \in t.seen}})

appEdit(t) ==
  CASE t.op = "addRedirect"  -> addMiddleware(t.cfg, redirect(t.of))
    [] t.op = "dropRedirect" -> deleteMiddleware(t.cfg, redirect(t.of))
    [] t.op \in {"addUser", "restoreUser"} -> addMiddleware(t.cfg, auth(appOf[t.of]))
    [] OTHER -> deleteMiddleware(t.cfg, auth(appOf[t.of]))

\* The application's file is left alone by an update of a redirect, and by the
\* removal of a user who is not the last.
afterMiddlewares(t) ==
  CASE t.op = "deleteApp" -> "rm"
    [] t.op = "editRedirect" -> "end"
    [] t.op \in {"dropUser", "changeUser"} /\ ~ lastUser(t) -> "end"
    [] OTHER -> IF t.cfg = Empty THEN "rm" ELSE "fileWrite"

\* What follows the last write: updateSecurity adds the user it has removed.
proceed(h) ==
  IF task[h].op = "changeUser" THEN goto(h, "row") ELSE finish(h)

failAndProceed(h) ==
  IF task[h].op = "changeUser"
  THEN fail(h, [task[h] EXCEPT !.at = "row"])
  ELSE failAndThrow(h)

writeAttachment(h) ==
  LET t    == task[h]
      next == afterMiddlewares(t)
  IN
  /\ at(h, "mwWrite")
  /\ \/ /\ middlewares' = mwEdit(t)
        /\ IF next = "end" THEN proceed(h) ELSE goto(h, next)
        /\ UNCHANGED faults
     \/ /\ IF next = "end" THEN failAndProceed(h) ELSE fail(h, [t EXCEPT !.at = next])
        /\ UNCHANGED middlewares
  /\ UNCHANGED <<remote, gateVars, rowVars, file, raced>>

\* createSecurity commits when createSecurityMiddleware has returned.
commitUser(t) == users' = IF t.op = "addUser" THEN users \cup {t.of} ELSE users

\* writeAppTraefikConfig: a file without routers and services is removed.
writeApp(h) ==
  LET t == task[h]
      a == appOf[t.of]
  IN
  /\ at(h, "fileWrite") \/ at(h, "rm")
  /\ t.op \in RedirectOps \cup UserOps
  /\ \/ /\ file' = [file EXCEPT ![a] = IF t.at = "rm" THEN NoFile ELSE appEdit(t)]
        /\ raced' = (raced \/ loadOrCreateConfig(file[a]) # t.cfg)
        /\ proceed(h)
        /\ UNCHANGED faults
     \/ failAndProceed(h) /\ UNCHANGED <<file, raced>>
  /\ commitUser(t)
  /\ UNCHANGED <<remote, gateVars, apps, domains, redirects, middlewares>>

-----------------------------------------------------------------------------
(* The application is deleted                                              *)

deleteApplication(h, a) ==
  /\ a \in apps
  /\ begin(h, [newTask("deleteApp", "row", a, NoDomain) EXCEPT !.seen = attached(a)])

\* A transaction that inserted a row of a holds off the deletion of a.
inTransaction(a) ==
  \/ \E h \in Handlers : /\ task[h].op \in {"create", "addUser", "restoreUser"}
                         /\ appOf[task[h].of] = a
  \/ \E r \in Redirects : appOf[r] = a /\ redirects[r] = "inserted"

\* The rows of the application go by cascade.
deleteApplicationRow(h) ==
  LET a == task[h].of IN
  /\ at(h, "row") /\ task[h].op = "deleteApp" /\ ~ inTransaction(a)
  /\ apps' = apps \ {a}
  /\ domains' = [d \in Domains |-> IF appOf[d] = a THEN NoDomain ELSE domains[d]]
  /\ redirects' = [r \in Redirects |-> IF appOf[r] = a THEN "none" ELSE redirects[r]]
  /\ users' = {u \in users : appOf[u] # a}
  /\ goto(h, "mwRead")
  /\ UNCHANGED <<remote, gateVars, fileVars, raced, faults>>

\* The operations of a delete are tried one by one, whatever the others did.
removeTraefikConfig(h) ==
  /\ at(h, "rm") /\ task[h].op = "deleteApp"
  /\ \/ file' = [file EXCEPT ![task[h].of] = NoFile] /\ finish(h) /\ UNCHANGED faults
     \/ failAndThrow(h) /\ UNCHANGED file
  /\ UNCHANGED <<remote, gateVars, rowVars, middlewares, raced>>

-----------------------------------------------------------------------------
Arrive(h) ==
  \/ \E d \in Domains, shape \in Shapes :
       createDomain(h, d, shape) \/ updateDomain(h, d, shape)
  \/ \E d \in Domains : toggleEnable(h, d) \/ deleteDomain(h, d)
  \/ \E r \in Redirects :
       createRedirect(h, r) \/ updateRedirect(h, r) \/ removeRedirect(h, r)
  \/ \E u \in Users :
       createSecurity(h, u) \/ deleteSecurity(h, u) \/ updateSecurity(h, u)
  \/ \E a \in Apps : deleteApplication(h, a)

Work(h) ==
  \/ writeRow(h) \/ rereadRow(h) \/ findApplication(h) \/ load(h)
  \/ readForPaths(h) \/ writePaths(h)
  \/ queryAuthDomain(h) \/ readForGate(h) \/ writeGate(h) \/ writeDomain(h)
  \/ updateUserRow(h) \/ deleteRow(h) \/ readMiddlewares(h) \/ readApp(h) \/ writeAttachment(h)
  \/ writeApp(h)
  \/ deleteApplicationRow(h) \/ removeTraefikConfig(h)

Next ==
  \/ \E h \in Handlers : Arrive(h) \/ Work(h)
  \/ \E r \in Redirects : commitRedirect(r)
  \/ setForwardAuthSettings \/ removeForwardAuthSettings

Spec == Init /\ [][Next]_vars

-----------------------------------------------------------------------------
(* Properties                                                              *)

RoutersOf(d) == IF file[appOf[d]] = NoFile THEN {}
                ELSE {x \in file[appOf[d]].routers : x.of = d}

served(cfg) ==
  \A x \in cfg.routers :
    /\ x.of \in cfg.services
    /\ x.secure => \E y \in cfg.routers : y.of = x.of /\ ~ y.secure

\* In every interleaving, after every failed read: what Traefik is shown is
\* whole, each router next to its service and a websecure router next to the
\* web router that redirects to it.
RoutersServed == \A a \in Apps : file[a] # NoFile => served(file[a])

\* The comment of manageDomain says a disabled domain cannot be revived.  It
\* can, and an enabled one can lose its routers, but only in two ways: a remote
\* command failed, or a handler wrote a file over what it had not read, or for
\* a row that had changed.  Otherwise, whatever overlapped, at rest exactly the
\* enabled domains have routers, with https exactly where it is asked for.
RoutersAgree ==
  AtRest /\ ~ raced /\ faults = 0 =>
    \A d \in Domains :
      {x.secure : x \in RoutersOf(d)} =
      {secure \in BOOLEAN : d \in Enabled /\ (secure => domains[d].https)}

\* Requests that come one after the other leave every router that takes
\* requests behind the redirects and the password of its application, and
\* behind nothing that middlewares.yml does not define, with one exception: the
\* sign-on of a domain that was last saved while its server had no
\* authentication domain.
RoutersProtected ==
  AtRest /\ calm =>
    \A d \in Domains : \A x \in RoutersOf(d) :
      /\ RedirectToHttps \notin x.uses => attached(appOf[d]) \subseteq x.uses
      /\ \A ref \in x.uses : \/ defined(ref, section(middlewares))
                             \/ ref = gate(d) /\ d \in ungated

\* Whatever races and failures have left in the file, saving a domain again
\* while nothing else runs gives it the routers its row asks for.
SaveRepairs ==
  [][\A h \in Handlers, d \in Domains :
       /\ task[h].op \in {"create", "update", "toggle"} /\ task[h].of = d
       /\ task[h].at \in {"write", "rm"} /\ task[h].clean
       /\ task'[h].op = "none" /\ faults' = faults
       => RoutersOf(d)' = routersFor(d, domains'[d], attached(appOf[d]))]_vars

\* What a row asks for and the files show of each domain are as DomainRouters has
\* them, in every interleaving, whatever fails: a request on one domain, redirect or
\* user never disturbs the routers of another domain, and those it changes become
\* what the row asks for by then, not what it asked for when the request read it.
kindsAsked == [d \in Domains |-> {s \in BOOLEAN : d \in Enabled /\ (s => domains[d].https)}]
kindsShown == [d \in Domains |-> {x.secure : x \in RoutersOf(d)}]

Published == INSTANCE DomainRouters
  WITH Kinds <- BOOLEAN, asked <- kindsAsked, shown <- kindsShown, astray <- raced

ImplementsDomainRouters == Published!Spec

-----------------------------------------------------------------------------
(* The inductive invariant behind RoutersServed                            *)

DomainStages == {"reread", "app", "load", "paths", "pathsWrite", "gateQuery",
                 "gateRead", "gateWrite", "write"}

\* A request works on what its operation is about, and what it has read of the
\* application's file is whole.
soundTask(t) ==
  /\ t.op \in DomainOps => t.of \in Domains
  /\ t.op \in RedirectOps => t.of \in Redirects
  /\ t.op \in UserOps => t.of \in Users
  /\ t.op = "deleteApp" => t.of \in Apps
  /\ t.op = "toggle" => t.row \in Settings
  /\ t.at \in DomainStages => t.op \in DomainOps
  /\ t.at \in {"appRead", "fileWrite"} => t.op \in RedirectOps \cup UserOps
  /\ t.at \in {"mwRead", "mwWrite"} =>
       t.op \in RedirectOps \cup UserOps \cup {"deleteApp"}
  /\ served(t.cfg)

IInv == /\ TypeOK
        /\ RoutersServed
        /\ \A h \in Handlers : soundTask(task[h])
=============================================================================
