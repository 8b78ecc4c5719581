------------------------- MODULE ScheduledJobsProofs -------------------------
(***************************************************************************)
(* Proofs about ScheduledJobs, for any number of jobs, expressions and     *)
(* requests at the same time, in both editions: the types, that an enabled *)
(* job has its timer and that no other timer is left.                      *)
(***************************************************************************)
EXTENDS ScheduledJobs, TLAPS

TasksOK == \A h \in Handlers : soundTask(task[h])
TInv    == TypeOK /\ TasksOK /\ BootOK /\ NewOK

-----------------------------------------------------------------------------
(* The record of a request                                                 *)

LEMMA NothingSound == nothing \in Task /\ soundTask(nothing)
BY CronsAssumption DEF nothing, Task, Ops, Stages, Calls, soundTask

LEMMA Continues ==
  ASSUME TypeOK, NEW h \in Handlers, NEW t \in Task, continue(h, t)
  PROVE  /\ task' \in [Handlers -> Task] /\ task'[h] = t
         /\ \A g \in Handlers \ {h} : task'[g] = task[g]
BY DEF TypeOK, continue

LEMMA Busy ==
  ASSUME TInv, NEW h \in Handlers, ~at(h, "idle")
  PROVE  /\ task[h] \in Task /\ task[h].job \in Jobs /\ ~idle(h) /\ soundTask(task[h])
         /\ kind[task[h].job] \in Kinds /\ row[task[h].job] \in Row
<1>1. task[h] \in Task /\ soundTask(task[h])
  BY DEF TInv, TypeOK, TasksOK
<1>2. ~idle(h)
  BY <1>1 DEF soundTask, idle, at, nothing
<1>3. task[h].job \in Jobs
  BY <1>1, <1>2 DEF soundTask, idle
<1> QED
  BY <1>1, <1>2, <1>3 DEF TInv, TypeOK

\* The request of h ends, or goes on as t, which is the same request.
same(h, t) == t = nothing \/ (t.op = task[h].op /\ t.job = task[h].job /\ t.at \notin {"idle", "insert"})

advances(h) ==
  /\ task' \in [Handlers -> Task] /\ \A g \in Handlers \ {h} : task'[g] = task[g]
  /\ soundTask(task'[h]) /\ same(h, task'[h]) /\ ~idle(h)

LEMMA Advance ==
  ASSUME TInv, NEW h \in Handlers, ~idle(h), NEW t \in Task, continue(h, t),
         soundTask(t), same(h, t)
  PROVE  advances(h) /\ task'[h] = t
BY Continues DEF TInv, advances

LEMMA EndAdvances ==
  ASSUME TInv, NEW h \in Handlers, ~idle(h), end(h)
  PROVE  advances(h) /\ task'[h] = nothing
BY NothingSound, Advance DEF end, same

\* Only the stage changes.
LEMMA GotoAdvances ==
  ASSUME TInv, NEW h \in Handlers, ~idle(h), NEW stage \in Stages \ {"idle", "insert"}, goto(h, stage),
         soundTask([task[h] EXCEPT !.at = stage])
  PROVE  /\ advances(h) /\ task'[h].at = stage /\ task'[h].op = task[h].op
         /\ task'[h].job = task[h].job /\ task'[h].enabled = task[h].enabled
         /\ task'[h].cron = task[h].cron /\ task'[h].old = task[h].old
<1>1. task[h] \in Task
  BY DEF TInv, TypeOK
<1> DEFINE t == [task[h] EXCEPT !.at = stage]
<1>2. /\ t \in Task /\ t.at = stage /\ t.op = task[h].op /\ t.job = task[h].job
      /\ t.enabled = task[h].enabled /\ t.cron = task[h].cron /\ t.old = task[h].old
  BY <1>1 DEF Task
<1>3. continue(h, t) /\ soundTask(t)
  BY DEF goto
<1> HIDE DEF t
<1> QED
  BY <1>2, <1>3, Advance DEF same

LEMMA InsertAdvances ==
  ASSUME TInv, NEW h \in Handlers, insert(h)
  PROVE  /\ advances(h) /\ at(h, "insert")
         /\ \E enabled \in BOOLEAN, cron \in Crons :
              /\ row' = [row EXCEPT ![task[h].job] =
                           [state |-> "live", enabled |-> enabled, cron |-> cron]]
              /\ ~enabled \/ task'[h] # nothing
              /\ task'[h] # nothing =>
                   /\ task'[h].enabled = enabled /\ task'[h].cron = cron
                   /\ task'[h].op = "create"
                   /\ task'[h].at \in {"reread", "add", "arm"}
<1>1. PICK enabled \in BOOLEAN, cron \in Crons :
        /\ row' = [row EXCEPT ![task[h].job] =
                     [state |-> "live", enabled |-> enabled, cron |-> cron]]
        /\ continue(h, inserted([task[h] EXCEPT !.enabled = enabled, !.cron = cron]))
  BY DEF insert
<1>2. at(h, "insert") /\ task[h] \in Task /\ soundTask(task[h]) /\ ~idle(h)
      /\ task[h].job \in Jobs /\ kind[task[h].job] \in Kinds /\ task[h].op = "create"
  <2>1. ~at(h, "idle") /\ at(h, "insert")
    BY DEF insert, at
  <2> QED
    BY <2>1, Busy DEF soundTask, at
<1> DEFINE u == [task[h] EXCEPT !.enabled = enabled, !.cron = cron]
           t == inserted(u)
<1>3. /\ u \in Task /\ u.enabled = enabled /\ u.cron = cron /\ u.op = "create"
      /\ u.job = task[h].job
  BY <1>2 DEF Task, soundTask, at
<1> HIDE DEF u
<1>4. \/ t = nothing /\ ~enabled
      \/ \E stage \in {"reread", "add", "arm"} :
           /\ t = [u EXCEPT !.at = stage]
           /\ stage = "reread" => \/ kind[u.job] = "backup"
                                  \/ kind[u.job] = "volume" /\ ~cloud /\ enabled
           /\ stage = "add" => cloud /\ enabled
           /\ stage = "arm" => ~cloud /\ enabled
  BY <1>2, <1>3 DEF inserted, Kinds
<1>5. /\ t \in Task /\ soundTask(t) /\ same(h, t)
      /\ ~enabled \/ t # nothing
      /\ t # nothing => /\ t.enabled = enabled /\ t.cron = cron /\ t.op = "create"
                        /\ t.at \in {"reread", "add", "arm"}
  <2>1. CASE t = nothing
    BY <1>4, <2>1, NothingSound DEF same, nothing, Task
  <2>2. CASE t # nothing
    <3>1. PICK stage \in {"reread", "add", "arm"} :
           /\ t = [u EXCEPT !.at = stage]
           /\ stage = "reread" => \/ kind[u.job] = "backup"
                                  \/ kind[u.job] = "volume" /\ ~cloud /\ enabled
           /\ stage = "add" => cloud /\ enabled
           /\ stage = "arm" => ~cloud /\ enabled
      BY <1>4, <2>2
    <3>2. /\ t.at = stage /\ t.enabled = enabled /\ t.cron = cron /\ t.op = "create"
          /\ t.job = u.job /\ t \in Task
      BY <1>3, <3>1 DEF Task, Stages, Calls
    <3>3. soundTask(t)
      BY <1>2, <1>3, <3>1, <3>2 DEF soundTask, Calls
    <3> QED
      BY <1>2, <1>3, <2>2, <3>2, <3>3 DEF same
  <2> QED
    BY <2>1, <2>2
<1>6. continue(h, t)
  BY <1>1 DEF u
<1> HIDE DEF t
<1>7. advances(h) /\ task'[h] = t
  BY <1>2, <1>5, <1>6, Advance
<1> QED
  BY <1>1, <1>2, <1>5, <1>7

LEMMA FindAdvances ==
  ASSUME TInv, NEW h \in Handlers, find(h)
  PROVE  /\ advances(h) /\ task[h].at \in {"find", "refind"}
         /\ LET t == task[h]  j == t.job  u == task'[h] IN
              \/ u = nothing /\ ~live(j)
              \/ live(j) /\ t.op = "update" /\ u.at = "write"
              \/ live(j) /\ t.op = "delete" /\ u.at \in {"refind", "erase"}
              \/ live(j) /\ t.op = "service" /\ u.at = "erase" /\ ~row[j].enabled
              \/ live(j) /\ t.op = "service" /\ u.at = "remove" /\ cloud /\ u.cron = row[j].cron
              \/ live(j) /\ t.op = "service" /\ u.at = "disarm" /\ ~cloud
<1> DEFINE t == task[h]  j == t.job
<1>1. task[h].at \in {"find", "refind"}
  BY DEF find
<1>2. /\ t \in Task /\ soundTask(t) /\ ~idle(h) /\ j \in Jobs /\ kind[j] \in Kinds
      /\ row[j] \in Row
  BY <1>1, Busy DEF at
<1>3. /\ t.op \in {"update", "delete", "service"} /\ (at(h, "refind") => t.op = "delete")
  BY <1>1, <1>2 DEF soundTask, at
<1>4. CASE ~live(j)
  <2>1. end(h)
    BY <1>4 DEF find
  <2> QED
    BY <1>1, <1>2, <1>4, <2>1, EndAdvances
<1>5. CASE live(j) /\ t.op = "update"
  <2>1. ~at(h, "refind")
    BY <1>3, <1>5
  <2>2. goto(h, "write")
    BY <1>5, <2>1 DEF find
  <2>3. "write" \in Stages \ {"idle", "insert"}
    BY DEF Stages
  <2>4. soundTask([t EXCEPT !.at = "write"])
    BY <1>2, <1>5 DEF soundTask, Task, Calls
  <2> QED
    BY <1>1, <1>2, <1>5, <2>2, <2>3, <2>4, GotoAdvances
<1>6. CASE live(j) /\ t.op # "update" /\ at(h, "refind")
  <2>1. goto(h, "erase") /\ "erase" \in Stages \ {"idle", "insert"}
    BY <1>6 DEF find, Stages
  <2>2. soundTask([t EXCEPT !.at = "erase"])
    BY <1>2, <1>3, <1>6 DEF soundTask, Task, Calls
  <2> QED
    BY <1>1, <1>2, <1>3, <1>6, <2>1, <2>2, GotoAdvances
<1>7. CASE live(j) /\ t.op # "update" /\ ~at(h, "refind")
  <2> DEFINE stage == CASE t.op = "delete" ->
                             IF kind[j] = "schedule" THEN "refind" ELSE "erase"
                        [] t.op = "service" /\ row[j].enabled ->
                             IF cloud THEN "remove" ELSE "disarm"
                        [] OTHER -> "erase"
             u == [t EXCEPT !.cron = row[j].cron, !.at = stage]
  <2>1. continue(h, u)
    BY <1>7 DEF find
  <2>2. \/ t.op = "delete" /\ stage \in {"refind", "erase"}
        \/ t.op = "service" /\ stage = "erase" /\ ~row[j].enabled
        \/ t.op = "service" /\ stage = "remove" /\ cloud
        \/ t.op = "service" /\ stage = "disarm" /\ ~cloud
    BY <1>3, <1>7
  <2> HIDE DEF stage
  <2>3. /\ u.at = stage /\ u.cron = row[j].cron /\ u.op = t.op /\ u.job = j /\ u \in Task
    BY <1>2, <2>2 DEF Task, Row, Stages, Calls
  <2> HIDE DEF u
  <2>4. soundTask(u)
    BY <1>2, <2>2, <2>3 DEF soundTask, Calls
  <2>5. same(h, u)
    BY <2>2, <2>3 DEF same
  <2>6. advances(h) /\ task'[h] = u
    BY <1>2, <2>1, <2>3, <2>4, <2>5, Advance
  <2> QED
    BY <1>1, <1>7, <2>2, <2>3, <2>6
<1> QED
  BY <1>4, <1>5, <1>6, <1>7

LEMMA WriteAdvances ==
  ASSUME TInv, NEW h \in Handlers, write(h), live(task[h].job)
  PROVE  /\ advances(h) /\ at(h, "write") /\ task[h].op = "update"
         /\ \E enabled \in BOOLEAN, cron \in Crons :
              LET u == task'[h]  j == task[h].job IN
              /\ row' = [row EXCEPT ![j].enabled = enabled, ![j].cron = cron]
              /\ IF cloud /\ row[j].enabled /\ ~enabled /\ row[j].cron # cron
                 THEN spoil(j, "left") ELSE UNCHANGED disturbed
              /\ u # nothing /\ u.op = "update" /\ u.enabled = enabled /\ u.cron = cron
              /\ \/ u.at = "reread" /\ kind[j] = "backup"
                 \/ u.at = "remove" /\ cloud /\ ~enabled /\ kind[j] # "backup"
                 \/ u.at = "lookup" /\ cloud /\ kind[j] = "volume"
                 \/ u.at = "disarm" /\ ~cloud /\ kind[j] = "volume"
                 \/ u.at = "add" /\ cloud /\ kind[j] = "schedule"
                 \/ u.at = "replace" /\ ~cloud /\ kind[j] = "schedule"
<1> DEFINE j == task[h].job
<1>1. PICK enabled \in BOOLEAN, cron \in Crons :
        /\ row' = [row EXCEPT ![j].enabled = enabled, ![j].cron = cron]
        /\ continue(h, written([task[h] EXCEPT !.enabled = enabled, !.cron = cron]))
        /\ IF cloud /\ row[j].enabled /\ ~enabled /\ row[j].cron # cron
           THEN spoil(j, "left") ELSE UNCHANGED disturbed
  BY DEF write
<1>2. at(h, "write") /\ task[h] \in Task /\ soundTask(task[h]) /\ ~idle(h)
      /\ j \in Jobs /\ kind[j] \in Kinds /\ task[h].op = "update"
  <2>1. ~at(h, "idle") /\ at(h, "write")
    BY DEF write, at
  <2> QED
    BY <2>1, Busy DEF soundTask, at
<1> DEFINE v == [task[h] EXCEPT !.enabled = enabled, !.cron = cron]
           u == written(v)
<1>3. v \in Task /\ v.enabled = enabled /\ v.cron = cron /\ v.op = "update" /\ v.job = j
  BY <1>2 DEF Task
<1>4. continue(h, u)
  BY <1>1
<1> HIDE DEF v
<1>5. \E stage \in {"reread", "remove", "lookup", "disarm", "add", "replace"} :
        /\ u = [v EXCEPT !.at = stage]
        /\ \/ stage = "reread" /\ kind[j] = "backup"
           \/ stage = "remove" /\ cloud /\ ~enabled /\ kind[j] # "backup"
           \/ stage = "lookup" /\ cloud /\ kind[j] = "volume" /\ enabled
           \/ stage = "disarm" /\ ~cloud /\ kind[j] = "volume"
           \/ stage = "add" /\ cloud /\ kind[j] = "schedule" /\ enabled
           \/ stage = "replace" /\ ~cloud /\ kind[j] = "schedule"
  BY <1>2, <1>3 DEF written, Kinds
<1>6. PICK stage \in {"reread", "remove", "lookup", "disarm", "add", "replace"} :
        /\ u = [v EXCEPT !.at = stage]
        /\ \/ stage = "reread" /\ kind[j] = "backup"
           \/ stage = "remove" /\ cloud /\ ~enabled /\ kind[j] # "backup"
           \/ stage = "lookup" /\ cloud /\ kind[j] = "volume" /\ enabled
           \/ stage = "disarm" /\ ~cloud /\ kind[j] = "volume"
           \/ stage = "add" /\ cloud /\ kind[j] = "schedule" /\ enabled
           \/ stage = "replace" /\ ~cloud /\ kind[j] = "schedule"
  BY <1>5
<1>7. /\ u \in Task /\ u.at = stage /\ u.enabled = enabled /\ u.cron = cron
      /\ u.op = "update" /\ u.job = j
  BY <1>3, <1>6 DEF Task, Stages, Calls
<1> HIDE DEF u
<1>8. soundTask(u) /\ same(h, u)
  BY <1>2, <1>6, <1>7 DEF soundTask, same, Calls
<1>9. advances(h) /\ task'[h] = u
  BY <1>2, <1>4, <1>7, <1>8, Advance
<1>10. u # nothing
  BY <1>7 DEF nothing
<1> QED
  BY <1>1, <1>2, <1>6, <1>7, <1>9, <1>10

LEMMA RereadAdvances ==
  ASSUME TInv, NEW h \in Handlers, reread(h)
  PROVE  /\ advances(h) /\ at(h, "reread") /\ task[h].op \in {"create", "update"}
         /\ LET t == task[h]  j == t.job  u == task'[h]
                enabled == IF kind[j] = "backup" THEN row[j].enabled ELSE t.enabled IN
              \/ u = nothing /\ ~live(j)
              \/ u = nothing /\ t.op = "create" /\ (~enabled \/ "skipped" \in disturbed'[j])
              \/ /\ live(j) /\ u # nothing /\ u.op = t.op
                 /\ u.cron = row[j].cron /\ u.enabled = enabled
                 /\ \/ u.at = "replace" /\ ~cloud /\ kind[j] = "backup" /\ t.op = "update"
                    \/ u.at = "lookup" /\ cloud /\ kind[j] = "backup" /\ t.op = "update"
                    \/ u.at = "remove" /\ cloud /\ ~enabled /\ t.op = "update"
                    \/ u.at = "add" /\ cloud /\ t.op = "create"
                    \/ u.at = "arm" /\ ~cloud /\ (t.op = "create" \/ kind[j] = "volume")
<1> DEFINE t == task[h]  j == t.job
           enabled == IF kind[j] = "backup" THEN row[j].enabled ELSE t.enabled
<1>1. at(h, "reread")
  BY DEF reread
<1>2. /\ t \in Task /\ soundTask(t) /\ ~idle(h) /\ j \in Jobs /\ kind[j] \in Kinds
      /\ row[j] \in Row /\ (live(j) => row[j].cron \in Crons)
  <2>1. ~at(h, "idle")
    BY <1>1 DEF at
  <2> QED
    BY <2>1, Busy DEF TInv, TypeOK
<1>3. /\ t.op \in {"create", "update"}
      /\ kind[j] = "backup" \/ (kind[j] = "volume" /\ ~cloud /\ t.enabled)
  BY <1>1, <1>2 DEF soundTask, at
<1>4. CASE ~live(j)
  <2>1. end(h)
    BY <1>4 DEF reread, present
  <2>2. advances(h) /\ task'[h] = nothing
    BY <1>2, <2>1, EndAdvances
  <2> QED
    BY <1>1, <1>3, <1>4, <2>2
<1> DEFINE again == [t EXCEPT !.cron = row[j].cron, !.enabled = enabled]
<1>6. CASE live(j) /\ refused(again)
  <2>1. end(h) /\ spoil(j, "skipped")
    BY <1>6 DEF reread, present
  <2>2. again.op = "create" /\ again.op = t.op
    BY <1>2, <1>6 DEF refused, Task
  <2>3. "skipped" \in disturbed'[j]
    BY <1>2, <2>1 DEF spoil, TInv, TypeOK
  <2>4. advances(h) /\ task'[h] = nothing
    BY <1>2, <2>1, EndAdvances
  <2> QED
    BY <1>1, <1>3, <2>2, <2>3, <2>4
<1>5. CASE live(j) /\ ~refused(again)
  <2> DEFINE v == [t EXCEPT !.cron = row[j].cron, !.enabled = enabled]
             u == readAgain(v)
  <2>1. enabled \in BOOLEAN
    BY <1>2 DEF Task, Row
  <2>2. continue(h, u)
    BY <1>5 DEF reread, present
  <2> HIDE DEF enabled
  <2>3. /\ v \in Task /\ v.enabled = enabled /\ v.cron = row[j].cron /\ v.op = t.op
        /\ v.job = j
    BY <1>2, <2>1 DEF Task, Row
  <2> HIDE DEF v
  <2>4. \/ u = nothing /\ t.op = "create" /\ ~enabled
        \/ \E stage \in {"replace", "lookup", "remove", "add", "arm"} :
             /\ u = [v EXCEPT !.at = stage]
             /\ \/ stage = "replace" /\ ~cloud /\ kind[j] = "backup" /\ t.op = "update"
                \/ /\ stage = "lookup" /\ cloud /\ kind[j] = "backup" /\ t.op = "update"
                   /\ enabled
                \/ stage = "remove" /\ cloud /\ ~enabled /\ t.op = "update"
                \/ stage = "add" /\ cloud /\ t.op = "create" /\ enabled
                \/ /\ stage = "arm" /\ ~cloud /\ (t.op = "create" \/ kind[j] = "volume")
                   /\ enabled \/ kind[j] = "volume"
    BY <1>3, <2>3 DEF readAgain
  <2>5. CASE u = nothing
    <3>1. t.op = "create" /\ ~enabled
      <4>1. nothing.op = "none"
        BY DEF nothing
      <4>2. \A stage : [v EXCEPT !.at = stage].op = t.op
        BY <2>3 DEF Task
      <4> QED
        BY <1>3, <2>4, <2>5, <4>1, <4>2
    <3>2. advances(h) /\ task'[h] = nothing
      BY <1>2, <2>2, <2>5, NothingSound, Advance DEF same
    <3> QED
      BY <1>1, <1>3, <3>1, <3>2 DEF enabled
  <2>6. CASE u # nothing
    <3>1. PICK stage \in {"replace", "lookup", "remove", "add", "arm"} :
             /\ u = [v EXCEPT !.at = stage]
             /\ \/ stage = "replace" /\ ~cloud /\ kind[j] = "backup" /\ t.op = "update"
                \/ /\ stage = "lookup" /\ cloud /\ kind[j] = "backup" /\ t.op = "update"
                   /\ enabled
                \/ stage = "remove" /\ cloud /\ ~enabled /\ t.op = "update"
                \/ stage = "add" /\ cloud /\ t.op = "create" /\ enabled
                \/ /\ stage = "arm" /\ ~cloud /\ (t.op = "create" \/ kind[j] = "volume")
                   /\ enabled \/ kind[j] = "volume"
      BY <2>4, <2>6
    <3>2. /\ u \in Task /\ u.at = stage /\ u.enabled = enabled /\ u.cron = row[j].cron
          /\ u.op = t.op /\ u.job = j
      BY <2>3, <3>1 DEF Task, Stages, Calls
    <3> HIDE DEF u
    <3>3. kind[j] = "volume" => enabled
      BY <1>3 DEF enabled
    <3>4. soundTask(u) /\ same(h, u)
      BY <1>2, <1>3, <1>5, <3>1, <3>2, <3>3 DEF soundTask, same, Calls
    <3>5. advances(h) /\ task'[h] = u
      BY <1>2, <2>2, <3>2, <3>4, Advance
    <3> QED
      BY <1>1, <1>3, <1>5, <2>6, <3>1, <3>2, <3>5 DEF enabled
  <2> QED
    BY <2>5, <2>6
<1> QED
  BY <1>4, <1>5, <1>6

LEMMA LastAdvances ==
  ASSUME TInv, NEW h \in Handlers, armTimer(h) \/ replace(h) \/ add(h)
  PROVE  advances(h) /\ task'[h] = nothing
<1>1. end(h) /\ ~at(h, "idle")
  BY DEF armTimer, replace, add, at
<1> QED
  BY <1>1, Busy, EndAdvances

LEMMA DisarmAdvances ==
  ASSUME TInv, NEW h \in Handlers, disarm(h)
  PROVE  /\ advances(h) /\ at(h, "disarm")
         /\ LET t == task[h]  u == task'[h] IN
              \/ u.at = "erase" /\ t.op = "service" /\ u # nothing
              \/ /\ u.at = "reread" /\ t.op = "update" /\ t.enabled /\ u # nothing
                 /\ u.enabled = t.enabled /\ u.cron = t.cron
              \/ u = nothing /\ t.op # "service" /\ (t.op = "update" => ~t.enabled)
<1> DEFINE t == task[h]
<1>1. /\ at(h, "disarm") /\ t \in Task /\ soundTask(t) /\ ~idle(h) /\ t.job \in Jobs
      /\ kind[t.job] \in Kinds
  <2>1. ~at(h, "idle") /\ at(h, "disarm")
    BY DEF disarm, at
  <2> QED
    BY <2>1, Busy
<1>2. t.op \in {"update", "delete", "service"} /\ ~cloud
  BY <1>1 DEF soundTask, at
<1>3. nothing.at = "idle"
  BY DEF nothing
<1>4. CASE t.op = "service"
  <2>1. goto(h, "erase") /\ "erase" \in Stages \ {"idle", "insert"}
    BY <1>4 DEF disarm, Stages
  <2>2. soundTask([t EXCEPT !.at = "erase"])
    BY <1>1, <1>4 DEF soundTask, Task, Calls
  <2> QED
    BY <1>1, <1>3, <1>4, <2>1, <2>2, GotoAdvances
<1>5. CASE t.op = "update" /\ t.enabled
  <2>1. goto(h, "reread") /\ "reread" \in Stages \ {"idle", "insert"}
    BY <1>5 DEF disarm, Stages
  <2>2. soundTask([t EXCEPT !.at = "reread"])
    BY <1>1, <1>2, <1>5 DEF soundTask, Task, Calls, at
  <2> QED
    BY <1>1, <1>3, <1>5, <2>1, <2>2, GotoAdvances
<1>6. CASE t.op # "service" /\ ~(t.op = "update" /\ t.enabled)
  <2>1. end(h)
    BY <1>6 DEF disarm
  <2> QED
    BY <1>1, <1>6, <2>1, EndAdvances
<1> QED
  BY <1>4, <1>5, <1>6

LEMMA EraseAdvances ==
  ASSUME TInv, NEW h \in Handlers, erase(h)
  PROVE  /\ advances(h) /\ at(h, "erase")
         /\ LET t == task[h]  j == t.job  u == task'[h] IN
              \/ /\ u = nothing
                 /\ \/ t.op \in {"service", "cascade"}
                    \/ t.op = "delete" /\ kind[j] = "volume"
                    \/ t.op = "delete" /\ cloud /\ kind[j] = "backup" /\ ~live(j)
              \/ /\ u # nothing /\ t.op = "delete" /\ kind[j] # "volume"
                 /\ u.at = (IF cloud THEN "remove" ELSE "disarm")
                 /\ kind[j] = "backup" /\ live(j) => u.cron = row[j].cron
<1> DEFINE t == task[h]  j == t.job
<1>1. /\ at(h, "erase") /\ t \in Task /\ soundTask(t) /\ ~idle(h) /\ j \in Jobs
      /\ kind[j] \in Kinds /\ row[j] \in Row
  <2>1. ~at(h, "idle") /\ at(h, "erase")
    BY DEF erase, at
  <2> QED
    BY <2>1, Busy
<1>2. t.op \in {"delete", "service", "cascade"}
  BY <1>1 DEF soundTask, at
<1>3. CASE t.op = "delete" /\ kind[j] # "volume" /\ ~(cloud /\ kind[j] = "backup" /\ ~live(j))
  <2> DEFINE cron == IF kind[j] = "backup" /\ live(j) THEN row[j].cron ELSE t.cron
             stage == IF cloud THEN "remove" ELSE "disarm"
             u == [t EXCEPT !.at = stage, !.cron = cron]
  <2>1. continue(h, u)
    BY <1>3 DEF erase
  <2>2. cron \in Crons \cup {None} /\ stage \in {"remove", "disarm"}
        /\ (stage = "remove" => cloud) /\ (stage = "disarm" => ~cloud)
    BY <1>1 DEF Task, Row
  <2>3. (kind[j] = "backup" /\ live(j) => cron = row[j].cron)
        /\ stage = IF cloud THEN "remove" ELSE "disarm"
    OBVIOUS
  <2> HIDE DEF cron, stage
  <2>4. u \in Task /\ u.at = stage /\ u.cron = cron /\ u.op = "delete" /\ u.job = j
    BY <1>1, <1>3, <2>2 DEF Task, Stages, Calls
  <2> HIDE DEF u
  <2>5. soundTask(u) /\ same(h, u) /\ u # nothing
    BY <1>1, <1>3, <2>2, <2>4 DEF soundTask, same, Calls, nothing
  <2>6. advances(h) /\ task'[h] = u
    BY <1>1, <2>1, <2>4, <2>5, Advance
  <2> QED
    BY <1>1, <1>3, <2>3, <2>4, <2>5, <2>6
<1>4. CASE ~(t.op = "delete" /\ kind[j] # "volume" /\ ~(cloud /\ kind[j] = "backup" /\ ~live(j)))
  <2>1. end(h)
    BY <1>4 DEF erase
  <2> QED
    BY <1>1, <1>2, <1>4, <2>1, EndAdvances
<1> QED
  BY <1>3, <1>4

\* The end of a removal, also when it failed.
LEMMA AfterRemove ==
  ASSUME TInv, NEW h \in Handlers, ~at(h, "idle"), afterRemove(h)
  PROVE  /\ advances(h)
         /\ \/ task'[h] # nothing /\ task'[h].at = "erase" /\ task[h].op = "service"
            \/ task'[h] = nothing /\ task[h].op # "service"
<1>1. /\ task[h] \in Task /\ soundTask(task[h]) /\ ~idle(h) /\ task[h].job \in Jobs
      /\ kind[task[h].job] \in Kinds
  BY Busy
<1>2. CASE task[h].op = "service"
  <2>1. goto(h, "erase") /\ "erase" \in Stages \ {"idle", "insert"}
    BY <1>2 DEF afterRemove, Stages
  <2>2. soundTask([task[h] EXCEPT !.at = "erase"])
    BY <1>1, <1>2 DEF soundTask, Task, Calls
  <2>3. nothing.at = "idle"
    BY DEF nothing
  <2> QED
    BY <1>1, <1>2, <2>1, <2>2, <2>3, GotoAdvances
<1>3. CASE task[h].op # "service"
  <2>1. end(h)
    BY <1>3 DEF afterRemove
  <2> QED
    BY <1>1, <1>3, <2>1, EndAdvances
<1> QED
  BY <1>2, <1>3

LEMMA FailAdvances ==
  ASSUME TInv, NEW h \in Handlers, fail(h)
  PROVE  /\ advances(h)
         /\ \/ task'[h] # nothing /\ task'[h].at = "erase" /\ task[h].op = "service"
            \/ task'[h] = nothing
<1>1. ~at(h, "idle")
  BY DEF fail, at, Calls
<1>2. CASE afterRemove(h)
  BY <1>1, <1>2, AfterRemove
<1>3. CASE end(h)
  BY <1>1, <1>3, Busy, EndAdvances
<1> QED
  BY <1>2, <1>3 DEF fail

LEMMA LookupAdvances ==
  ASSUME TInv, NEW h \in Handlers, lookup(h)
  PROVE  /\ advances(h) /\ at(h, "lookup") /\ task'[h] # nothing
         /\ task'[h].enabled = task[h].enabled /\ task'[h].cron = task[h].cron
         /\ \/ task'[h].at = "add" /\ none(task[h].job)
            \/ task'[h].at = "drop" /\ \E t \in timersOf(task[h].job) : task'[h].old = t.cron
<1> DEFINE t == task[h]  j == t.job
<1>1. /\ at(h, "lookup") /\ t \in Task /\ soundTask(t) /\ ~idle(h) /\ j \in Jobs
      /\ kind[j] \in Kinds
  <2>1. ~at(h, "idle") /\ at(h, "lookup")
    BY DEF lookup, at
  <2> QED
    BY <2>1, Busy
<1>2. nothing.at = "idle"
  BY DEF nothing
<1>3. CASE timersOf(j) = {} /\ goto(h, "add")
  <2>1. "add" \in Stages \ {"idle", "insert"}
    BY DEF Stages, Calls
  <2>2. soundTask([t EXCEPT !.at = "add"])
    BY <1>1 DEF soundTask, Task, Calls, at
  <2> QED
    BY <1>1, <1>2, <1>3, <2>1, <2>2, GotoAdvances DEF none
<1>4. ASSUME NEW x \in timersOf(j), continue(h, [t EXCEPT !.at = "drop", !.old = x.cron])
      PROVE  /\ advances(h) /\ task'[h] # nothing
             /\ task'[h].enabled = task[h].enabled /\ task'[h].cron = task[h].cron
             /\ task'[h].at = "drop" /\ task'[h].old = x.cron
  <2> DEFINE u == [t EXCEPT !.at = "drop", !.old = x.cron]
  <2>1. x.cron \in Crons
    BY DEF timersOf, TInv, TypeOK, Timer
  <2>2. /\ u \in Task /\ u.at = "drop" /\ u.old = x.cron /\ u.op = t.op /\ u.job = j
        /\ u.enabled = t.enabled /\ u.cron = t.cron
    BY <1>1, <2>1 DEF Task, Stages, Calls
  <2>3. continue(h, u)
    BY <1>4
  <2> HIDE DEF u
  <2>4. soundTask(u) /\ same(h, u)
    BY <1>1, <2>2 DEF soundTask, same, Calls, at
  <2> QED
    BY <1>1, <1>2, <2>2, <2>3, <2>4, Advance
<1> QED
  BY <1>1, <1>3, <1>4 DEF lookup

LEMMA DropAdvances ==
  ASSUME TInv, NEW h \in Handlers, drop(h)
  PROVE  /\ advances(h) /\ at(h, "drop") /\ task'[h] # nothing /\ task'[h].at = "add"
         /\ task'[h].enabled = task[h].enabled /\ task'[h].cron = task[h].cron
<1>1. /\ at(h, "drop") /\ task[h] \in Task /\ soundTask(task[h]) /\ ~idle(h)
      /\ task[h].job \in Jobs /\ kind[task[h].job] \in Kinds
  <2>1. ~at(h, "idle") /\ at(h, "drop")
    BY DEF drop, at
  <2> QED
    BY <2>1, Busy
<1>2. goto(h, "add") /\ "add" \in Stages \ {"idle", "insert"}
  BY DEF drop, Stages, Calls
<1>3. soundTask([task[h] EXCEPT !.at = "add"])
  BY <1>1 DEF soundTask, Task, Calls, at
<1>4. nothing.at = "idle"
  BY DEF nothing
<1> QED
  BY <1>1, <1>2, <1>3, <1>4, GotoAdvances

-----------------------------------------------------------------------------
(* What setting and removing timers does                                   *)

jobsTimers(ts, j) == {t \in ts : t.job = j}

LEMMA ArmedTimers ==
  ASSUME NEW ts \in SUBSET Timer, NEW j \in Jobs, NEW c \in Crons
  PROVE  /\ armed(ts, j, c) \subseteq Timer /\ timer(j, c) \in armed(ts, j, c)
         /\ \A k \in Jobs \ {j} : jobsTimers(armed(ts, j, c), k) = jobsTimers(ts, k)
         /\ jobsTimers(ts, j) = {} => jobsTimers(armed(ts, j, c), j) = {timer(j, c)}
<1> DEFINE old(t) == IF t.job = j /\ ~cloud THEN [t EXCEPT !.listed = FALSE] ELSE t
<1>1. \A t \in ts : old(t) \in Timer /\ old(t).job = t.job /\ (t.job # j => old(t) = t)
  BY DEF Timer
<1>2. timer(j, c) \in Timer /\ timer(j, c).job = j
  BY DEF timer, Timer
<1>3. armed(ts, j, c) = {old(t) : t \in ts} \cup {timer(j, c)}
  BY DEF armed
<1> HIDE DEF old
<1>4. ASSUME NEW k \in Jobs \ {j} PROVE jobsTimers(armed(ts, j, c), k) = jobsTimers(ts, k)
  <2>1. \A t \in armed(ts, j, c) : t.job = k => t \in ts
    BY <1>1, <1>2, <1>3
  <2>2. \A t \in ts : t.job = k => t \in armed(ts, j, c)
    BY <1>1, <1>3
  <2> QED
    BY <2>1, <2>2 DEF jobsTimers
<1>5. ASSUME jobsTimers(ts, j) = {} PROVE jobsTimers(armed(ts, j, c), j) = {timer(j, c)}
  BY <1>1, <1>2, <1>3, <1>5 DEF jobsTimers
<1> QED
  BY <1>1, <1>2, <1>3, <1>4, <1>5

LEMMA TimersOf == \A j : timersOf(j) = jobsTimers(timers, j) /\ timersOf(j)' = jobsTimers(timers', j)
BY DEF timersOf, jobsTimers

LEMMA Armed ==
  ASSUME timers \in SUBSET Timer, NEW j \in Jobs, NEW c \in Crons,
         timers' = armed(timers, j, c)
  PROVE  /\ timers' \subseteq Timer /\ timer(j, c) \in timers'
         /\ \A k \in Jobs \ {j} : timersOf(k)' = timersOf(k)
         /\ none(j) => timersOf(j)' = {timer(j, c)}
         /\ cloud => timersOf(j)' = timersOf(j) \cup {timer(j, c)}
<1>1. /\ timers' \subseteq Timer /\ timer(j, c) \in timers'
      /\ \A k \in Jobs \ {j} : jobsTimers(timers', k) = jobsTimers(timers, k)
      /\ jobsTimers(timers, j) = {} => jobsTimers(timers', j) = {timer(j, c)}
  BY ArmedTimers
<1>2. ASSUME cloud PROVE timersOf(j)' = timersOf(j) \cup {timer(j, c)}
  BY <1>2 DEF armed, timersOf, timer
<1> QED
  BY <1>1, <1>2, TimersOf DEF none

LEMMA Cancelled ==
  ASSUME timers \in SUBSET Timer, NEW j \in Jobs, timers' = cancelled(timers, j)
  PROVE  /\ timers' \subseteq timers
         /\ \A k \in Jobs \ {j} : timersOf(k)' = timersOf(k)
         /\ (\A t \in timersOf(j) : t.listed) => none(j)'
BY DEF cancelled, timersOf, none

LEMMA Removed ==
  ASSUME timers \in SUBSET Timer, NEW j \in Jobs, NEW c, timers' = removed(timers, j, c)
  PROVE  /\ timers' \subseteq timers
         /\ \A k \in Jobs \ {j} : timersOf(k)' = timersOf(k)
         /\ kind[j] # "schedule" /\ (\A t \in timersOf(j) : t.cron = c) => none(j)'
BY DEF removed, timersOf, none

LEMMA Replaced ==
  ASSUME timers \in SUBSET Timer, NEW j \in Jobs, NEW enabled \in BOOLEAN, NEW c \in Crons,
         timers' = replaced(j, enabled, c)
  PROVE  /\ timers' \subseteq Timer /\ (enabled => timer(j, c) \in timers')
         /\ \A k \in Jobs \ {j} : timersOf(k)' = timersOf(k)
         /\ (\A t \in timersOf(j) : t.listed) =>
              timersOf(j)' = IF enabled THEN {timer(j, c)} ELSE {}
<1> DEFINE ts == cancelled(timers, j)
<1>0. ts \in SUBSET Timer
  BY DEF cancelled
<1>1. /\ \A k \in Jobs \ {j} : jobsTimers(ts, k) = jobsTimers(timers, k)
      /\ (\A t \in jobsTimers(timers, j) : t.listed) => jobsTimers(ts, j) = {}
  BY DEF cancelled, jobsTimers
<1>2. timers' = IF enabled THEN armed(ts, j, c) ELSE ts
  BY DEF replaced
<1> HIDE DEF ts
<1>3. CASE enabled
  <2>1. timers' = armed(ts, j, c)
    BY <1>2, <1>3
  <2>2. /\ timers' \subseteq Timer /\ timer(j, c) \in timers'
        /\ \A k \in Jobs \ {j} : jobsTimers(timers', k) = jobsTimers(ts, k)
        /\ jobsTimers(ts, j) = {} => jobsTimers(timers', j) = {timer(j, c)}
    BY <1>0, <2>1, ArmedTimers
  <2> QED
    BY <1>1, <1>3, <2>2, TimersOf
<1>4. CASE ~enabled
  <2>1. timers' = ts
    BY <1>2, <1>4
  <2> QED
    BY <1>0, <1>1, <1>4, <2>1, TimersOf
<1> QED
  BY <1>3, <1>4

-----------------------------------------------------------------------------
(* The steps of a request under way                                        *)

Work(h) ==
  \/ insert(h) \/ find(h) \/ write(h) \/ reread(h) \/ erase(h)
  \/ armTimer(h) \/ replace(h) \/ disarm(h)
  \/ add(h) \/ remove(h) \/ lookup(h) \/ drop(h) \/ fail(h)

LEMMA WorkAdvances ==
  ASSUME TInv, NEW h \in Handlers, Work(h)
  PROVE  /\ advances(h) /\ UNCHANGED <<rigid, boot>>
         /\ events' \in 0..MaxEvents
         /\ task[h].job \in Jobs
<1>1. CASE fail(h)
  <2>1. ~at(h, "idle") /\ UNCHANGED <<rigid, boot>> /\ Event
    BY <1>1 DEF fail, at, Calls
  <2>2. events' \in 0..MaxEvents
    BY <2>1, BoundAssumption DEF Event, TInv, TypeOK
  <2> QED
    BY <1>1, <2>1, <2>2, FailAdvances, Busy
<1>2. CASE remove(h)
  <2>1. ~at(h, "idle") /\ afterRemove(h)
    BY <1>2 DEF remove, at
  <2> QED
    BY <1>2, <2>1, AfterRemove, Busy DEF remove, Quiet, TInv, TypeOK
<1>3. CASE write(h) /\ ~live(task[h].job)
  <2>1. ~at(h, "idle") /\ end(h)
    BY <1>3 DEF write, at
  <2> QED
    BY <1>3, <2>1, EndAdvances, Busy DEF write, Quiet, TInv, TypeOK
<1>4. ASSUME Work(h), ~fail(h), ~remove(h), ~(write(h) /\ ~live(task[h].job))
      PROVE  advances(h) /\ UNCHANGED <<rigid, boot, events>> /\ ~at(h, "idle")
  <2>1. advances(h)
    BY <1>4, InsertAdvances, FindAdvances, WriteAdvances, RereadAdvances, LastAdvances,
       DisarmAdvances, EraseAdvances, LookupAdvances, DropAdvances DEF Work
  <2>2. UNCHANGED <<rigid, boot, events>>
    BY <1>4 DEF Work, insert, find, write, reread, erase, armTimer, replace, disarm, add,
                lookup, drop, Quiet
  <2>3. ~at(h, "idle")
    BY <1>4 DEF Work, insert, find, write, reread, erase, armTimer, replace, disarm, add,
                lookup, drop, at
  <2> QED
    BY <2>1, <2>2, <2>3
<1> QED
  BY <1>1, <1>2, <1>3, <1>4, Busy DEF TInv, TypeOK

\* A step of a request changes the row and the timers of its job only.
LEMMA WorkEffects ==
  ASSUME TInv, NEW h \in Handlers, Work(h), NEW j \in Jobs, j = task[h].job
  PROVE  /\ row' \in [Jobs -> Row]
         /\ \A k \in Jobs \ {j} : row'[k] = row[k]
         /\ live(j)' => row'[j].cron \in Crons
         /\ row'[j].state = "new" <=> row[j].state = "new" /\ ~at(h, "insert")
         /\ timers' \subseteq Timer
         /\ \A k \in Jobs \ {j} : timersOf(k)' = timersOf(k)
         /\ disturbed' \in [Jobs -> SUBSET Reasons]
         /\ \A k \in Jobs \ {j} : disturbed'[k] = disturbed[k]
         /\ disturbed[j] \subseteq disturbed'[j]
         /\ timers' # timers => ~at(h, "insert")
<1>1. /\ task[h] \in Task /\ soundTask(task[h]) /\ j \in Jobs /\ kind[j] \in Kinds
      /\ row[j] \in Row /\ row \in [Jobs -> Row] /\ timers \subseteq Timer
      /\ disturbed \in [Jobs -> SUBSET Reasons] /\ ~idle(h)
      /\ (live(j) => row[j].cron \in Crons) /\ timers \in SUBSET Timer
  BY WorkAdvances DEF TInv, TypeOK, TasksOK, advances
<1>0. timers \in SUBSET Timer
  BY <1>1
<1>2. row[j].state = "new" <=> at(h, "insert")
  BY <1>1 DEF TInv, NewOK
<1>3. CASE insert(h)
  <2>1. PICK enabled \in BOOLEAN, cron \in Crons :
          row' = [row EXCEPT ![j] = [state |-> "live", enabled |-> enabled, cron |-> cron]]
    BY <1>3 DEF insert
  <2>2. UNCHANGED <<timers, disturbed>> /\ at(h, "insert")
    BY <1>3 DEF insert
  <2>3. [state |-> "live", enabled |-> enabled, cron |-> cron] \in Row
    BY DEF Row
  <2> QED
    BY <1>1, <2>1, <2>2, <2>3, TimersOf DEF live
<1>4. CASE find(h) \/ lookup(h)
  <2>1. UNCHANGED <<row, timers, disturbed>> /\ ~at(h, "insert")
    BY <1>4 DEF find, lookup, at
  <2> QED
    BY <1>1, <2>1, TimersOf DEF live
<1>12. CASE reread(h)
  <2>1. /\ UNCHANGED <<row, timers>> /\ ~at(h, "insert")
        /\ spoil(j, "skipped") \/ UNCHANGED disturbed
    BY <1>12 DEF reread, at
  <2>2. /\ disturbed' \in [Jobs -> SUBSET Reasons]
        /\ \A k \in Jobs \ {j} : disturbed'[k] = disturbed[k]
        /\ disturbed[j] \subseteq disturbed'[j]
    BY <1>1, <2>1 DEF spoil, Reasons
  <2> QED
    BY <1>1, <2>1, <2>2, TimersOf DEF live
<1>5. CASE write(h)
  <2>1. UNCHANGED timers /\ at(h, "write") /\ ~at(h, "insert")
    BY <1>5 DEF write, at
  <2>2. CASE ~live(j)
    BY <1>1, <1>5, <2>1, <2>2, TimersOf DEF write, live
  <2>3. CASE live(j)
    <3>1. PICK enabled \in BOOLEAN, cron \in Crons :
            /\ row' = [row EXCEPT ![j].enabled = enabled, ![j].cron = cron]
            /\ spoil(j, "left") \/ UNCHANGED disturbed
      BY <1>5, <2>3 DEF write
    <3>2. row' \in [Jobs -> Row] /\ row'[j].state = row[j].state /\ row'[j].cron \in Crons
          /\ \A k \in Jobs \ {j} : row'[k] = row[k]
      BY <1>1, <3>1 DEF Row
    <3>3. /\ disturbed' \in [Jobs -> SUBSET Reasons]
          /\ \A k \in Jobs \ {j} : disturbed'[k] = disturbed[k]
          /\ disturbed[j] \subseteq disturbed'[j]
      BY <1>1, <3>1 DEF spoil, Reasons
    <3> QED
      BY <1>1, <2>1, <3>2, <3>3, TimersOf DEF live
  <2> QED
    BY <2>2, <2>3
<1>6. CASE armTimer(h) \/ add(h)
  <2>1. timers' = armed(timers, j, task[h].cron) /\ UNCHANGED <<row, disturbed>>
        /\ task[h].at \in {"arm", "add"}
    BY <1>6 DEF armTimer, add, at
  <2>2. task[h].cron \in Crons
    BY <1>1, <2>1 DEF soundTask
  <2>3. timers' \subseteq Timer /\ \A k \in Jobs \ {j} : timersOf(k)' = timersOf(k)
    BY <1>0, <2>1, <2>2, Armed
  <2>4. ~at(h, "insert")
    BY <2>1 DEF at
  <2> QED
    BY <1>1, <2>1, <2>3, <2>4 DEF live
<1>7. CASE replace(h)
  <2>1. timers' = replaced(j, task[h].enabled, task[h].cron) /\ UNCHANGED <<row, disturbed>>
        /\ at(h, "replace")
    BY <1>7 DEF replace
  <2>2. task[h].cron \in Crons /\ task[h].enabled \in BOOLEAN /\ ~at(h, "insert")
    BY <1>1, <2>1 DEF soundTask, at, Task
  <2>3. timers' \subseteq Timer /\ \A k \in Jobs \ {j} : timersOf(k)' = timersOf(k)
    BY <1>0, <2>1, <2>2, Replaced
  <2> QED
    BY <1>1, <2>1, <2>2, <2>3 DEF live
<1>8. CASE disarm(h)
  <2>1. timers' = cancelled(timers, j) /\ UNCHANGED <<row, disturbed>> /\ ~at(h, "insert")
    BY <1>8 DEF disarm, at
  <2>2. timers' \subseteq timers /\ \A k \in Jobs \ {j} : timersOf(k)' = timersOf(k)
    BY <1>0, <2>1, Cancelled
  <2> QED
    BY <1>1, <2>1, <2>2 DEF live
<1>9. CASE remove(h) \/ drop(h)
  <2>1. PICK c : timers' = removed(timers, j, c)
    BY <1>9 DEF remove, drop
  <2>2. UNCHANGED <<row, disturbed>> /\ ~at(h, "insert")
    BY <1>9 DEF remove, drop, at
  <2>3. timers' \subseteq timers /\ \A k \in Jobs \ {j} : timersOf(k)' = timersOf(k)
    BY <1>0, <2>1, Removed
  <2> QED
    BY <1>1, <2>2, <2>3 DEF live
<1>10. CASE fail(h)
  <2>1. UNCHANGED <<row, timers>> /\ spoil(j, "lost") /\ ~at(h, "insert")
    BY <1>10 DEF fail, at, Calls
  <2>2. /\ disturbed' \in [Jobs -> SUBSET Reasons]
        /\ \A k \in Jobs \ {j} : disturbed'[k] = disturbed[k]
        /\ disturbed[j] \subseteq disturbed'[j]
    BY <1>1, <2>1 DEF spoil, Reasons
  <2> QED
    BY <1>1, <2>1, <2>2, TimersOf DEF live
<1>11. CASE erase(h)
  <2>1. row' = [row EXCEPT ![j] = [state |-> "gone", enabled |-> FALSE, cron |-> None]]
        /\ UNCHANGED timers /\ (spoil(j, "left") \/ UNCHANGED disturbed)
        /\ ~at(h, "insert")
    BY <1>11 DEF erase, at
  <2>2. [state |-> "gone", enabled |-> FALSE, cron |-> None] \in Row
    BY DEF Row
  <2>3. /\ disturbed' \in [Jobs -> SUBSET Reasons]
        /\ \A k \in Jobs \ {j} : disturbed'[k] = disturbed[k]
        /\ disturbed[j] \subseteq disturbed'[j]
    BY <1>1, <2>1 DEF spoil, Reasons
  <2> QED
    BY <1>1, <1>2, <2>1, <2>2, <2>3, TimersOf DEF live
<1> QED
  BY <1>3, <1>4, <1>5, <1>6, <1>7, <1>8, <1>9, <1>10, <1>11, <1>12
     DEF Work

LEMMA WorkKeepsTypes ==
  ASSUME TInv, NEW h \in Handlers, Work(h)
  PROVE  TInv'
<1>1. /\ advances(h) /\ UNCHANGED <<rigid, boot>> /\ events' \in 0..MaxEvents
      /\ task[h].job \in Jobs
  BY WorkAdvances
<1>2. PICK j \in Jobs : j = task[h].job
  BY <1>1
<1>3. j = task[h].job /\ ~idle(h)
  BY <1>1, <1>2 DEF advances
<1>14.
      /\ row' \in [Jobs -> Row]
      /\ \A k \in Jobs \ {j} : row'[k] = row[k]
      /\ live(j)' => row'[j].cron \in Crons
      /\ row'[j].state = "new" <=> row[j].state = "new" /\ ~at(h, "insert")
      /\ timers' \subseteq Timer
      /\ \A k \in Jobs \ {j} : timersOf(k)' = timersOf(k)
      /\ disturbed' \in [Jobs -> SUBSET Reasons]
  BY <1>3, WorkEffects
<1>4. TypeOK'
  <2>1. ASSUME NEW k \in Jobs, live(k)' PROVE row'[k].cron \in Crons
    <3>1. CASE k = j
      BY <1>14, <2>1, <3>1
    <3>2. CASE k # j
      BY <1>14, <2>1, <3>2 DEF live, TInv, TypeOK
    <3> QED
      BY <3>1, <3>2
  <2> QED
    BY <1>1, <1>14, <2>1 DEF TInv, TypeOK, advances, rigid
<1>5. TasksOK'
  <2>1. \A t : soundTask(t)' <=> soundTask(t)
    BY <1>1 DEF soundTask, rigid, cloud
  <2> QED
    BY <1>1, <2>1 DEF TInv, TasksOK, advances, soundTask, rigid, cloud
<1>6. row'[j].state # "new"
  BY <1>1, <1>14, <1>3 DEF TInv, NewOK
<1>7. \A k \in Jobs : row[k].state # "new" => row'[k].state # "new"
  BY <1>14, <1>6
<1>8. BootOK'
  <2>1. \A f \in boot.found : f.job \in Jobs
    BY DEF TInv, TypeOK, Boot, Found
  <2> QED
    BY <1>1, <1>7, <2>1 DEF TInv, BootOK, rigid, cloud
<1>9. \A t \in timers' : row'[t.job].state # "new"
  <2> SUFFICES ASSUME NEW t \in timers', t.job # j PROVE row'[t.job].state # "new"
    BY <1>6
  <2>1. t.job \in Jobs \ {j}
    BY <1>14 DEF Timer
  <2>2. t \in timers
    BY <1>14, <2>1 DEF timersOf
  <2> QED
    BY <1>7, <2>1, <2>2 DEF TInv, NewOK
<1>10. task' \in [Handlers -> Task] /\ (task'[h] = nothing \/
         (task'[h].job = j /\ task'[h].at \notin {"idle", "insert"}))
       /\ (idle(h)' <=> task'[h].op = "none")
  BY <1>1, <1>3 DEF advances, same, idle
<1>11. ASSUME NEW g \in Handlers \ {h}
       PROVE  task'[g] = task[g] /\ (idle(g)' <=> idle(g)) /\ (at(g, "insert")' <=> at(g, "insert"))
  BY <1>1 DEF advances, idle, at
<1>12. ASSUME NEW g \in Handlers, ~idle(g)'
       PROVE  row'[task'[g].job].state = "new" <=> at(g, "insert")'
  <2>1. CASE g = h
    BY <1>6, <1>10, <1>12, <2>1 DEF at, nothing
  <2>2. CASE g # h
    <3>1. task'[g] = task[g] /\ ~idle(g) /\ (at(g, "insert")' <=> at(g, "insert"))
      BY <1>11, <1>12, <2>2
    <3>2. task[g].job \in Jobs /\ (row[task[g].job].state = "new" <=> at(g, "insert"))
      BY <3>1 DEF TInv, NewOK, TasksOK, soundTask, idle
    <3>3. CASE task[g].job = j
      <4>1. ~at(g, "insert")
        BY <1>3, <2>2, <3>3 DEF TInv, NewOK
      <4> QED
        BY <1>6, <3>1, <3>3, <4>1
    <3>4. CASE task[g].job # j
      BY <1>14, <3>1, <3>2, <3>4
    <3> QED
      BY <3>3, <3>4
  <2> QED
    BY <2>1, <2>2
<1>13. ASSUME NEW g \in Handlers, NEW i \in Handlers, at(i, "insert")', g # i
       PROVE  task'[g].job # task'[i].job
  <2>1. i # h
    BY <1>10, <1>13 DEF at, nothing
  <2>2. task'[i] = task[i] /\ at(i, "insert") /\ task[i].job \in Jobs
    <3>1. task'[i] = task[i] /\ at(i, "insert")
      BY <1>11, <1>13, <2>1
    <3>2. task[i].op # "none"
      BY <3>1 DEF TInv, TasksOK, soundTask, at, nothing
    <3> QED
      BY <3>1, <3>2 DEF TInv, TasksOK, soundTask
  <2>3. task[g].job # task[i].job
    BY <1>13, <2>2 DEF TInv, NewOK
  <2>4. CASE g = h
    <3>1. nothing.job = None /\ None \notin Jobs
      BY CronsAssumption DEF nothing
    <3> QED
      BY <1>3, <1>10, <2>2, <2>3, <2>4, <3>1
  <2>5. CASE g # h
    BY <1>11, <2>2, <2>3, <2>5
  <2> QED
    BY <2>4, <2>5
<1> QED
  BY <1>4, <1>5, <1>8, <1>9, <1>12, <1>13 DEF TInv, NewOK

-----------------------------------------------------------------------------
(* The arrival of a request, restarts and starts                           *)

LEMMA RequestArrives ==
  ASSUME TInv, NEW h \in Handlers, request(h)
  PROVE  /\ idle(h) /\ UNCHANGED <<rigid, row, timers, boot>> /\ events' \in 0..MaxEvents
         /\ task' \in [Handlers -> Task] /\ \A g \in Handlers \ {h} : task'[g] = task[g]
         /\ soundTask(task'[h])
         /\ \E j \in Jobs :
              /\ task'[h].job = j /\ task'[h].op # "none"
              /\ \/ task'[h].at = "insert" /\ row[j].state = "new" /\ ~busy(j)
                 \/ task'[h].at = "erase" /\ task'[h].op = "cascade" /\ row[j].state # "new"
                 \/ task'[h].at = "find" /\ row[j].state # "new"
              /\ IF busy(j) \/ booting THEN spoil(j, "overlap") ELSE UNCHANGED disturbed
<1>1. /\ idle(h) /\ UNCHANGED <<rigid, row, timers, boot>> /\ Event
  BY DEF request
<1>2. PICK j \in Jobs, op \in Ops \ {"none"} :
       /\ op = "create" => row[j].state = "new" /\ ~busy(j)
       /\ op # "create" => row[j].state # "new"
       /\ op = "service" => kind[j] = "backup"
       /\ continue(h, [nothing EXCEPT !.op = op, !.job = j,
                         !.at = CASE op = "create"  -> "insert"
                                  [] op = "cascade" -> "erase"
                                  [] OTHER          -> "find"])
       /\ IF busy(j) \/ booting THEN spoil(j, "overlap") ELSE UNCHANGED disturbed
  BY DEF request
<1> DEFINE stage == CASE op = "create"  -> "insert"
                      [] op = "cascade" -> "erase"
                      [] OTHER          -> "find"
           t == [nothing EXCEPT !.op = op, !.job = j, !.at = stage]
<1>3. /\ stage \in Stages
      /\ \/ op = "create" /\ stage = "insert"
         \/ op = "cascade" /\ stage = "erase"
         \/ op \in {"update", "delete", "service"} /\ stage = "find"
  BY <1>2 DEF Ops, Stages
<1>4. continue(h, t)
  BY <1>2
<1> HIDE DEF stage
<1>5. t \in Task /\ t.at = stage /\ t.op = op /\ t.job = j
  BY <1>2, <1>3, NothingSound DEF Task, nothing
<1> HIDE DEF t
<1>6. soundTask(t)
  BY <1>2, <1>3, <1>5 DEF soundTask, Calls
<1>7. /\ task' \in [Handlers -> Task] /\ task'[h] = t
      /\ \A g \in Handlers \ {h} : task'[g] = task[g]
  BY <1>4, <1>5, Continues DEF TInv
<1>8. events' \in 0..MaxEvents
  BY <1>1, BoundAssumption DEF Event, TInv, TypeOK
<1>9. /\ task'[h].job = j /\ task'[h].op # "none"
      /\ \/ task'[h].at = "insert" /\ row[j].state = "new" /\ ~busy(j)
         \/ task'[h].at = "erase" /\ task'[h].op = "cascade" /\ row[j].state # "new"
         \/ task'[h].at = "find" /\ row[j].state # "new"
  BY <1>2, <1>3, <1>5, <1>7
<1> QED
  BY <1>1, <1>2, <1>6, <1>7, <1>8, <1>9

LEMMA RequestKeepsTypes ==
  ASSUME TInv, NEW h \in Handlers, request(h)
  PROVE  TInv'
<1>1. /\ idle(h) /\ UNCHANGED <<rigid, row, timers, boot>> /\ events' \in 0..MaxEvents
      /\ task' \in [Handlers -> Task] /\ \A g \in Handlers \ {h} : task'[g] = task[g]
      /\ soundTask(task'[h])
  BY RequestArrives
<1>2. PICK j \in Jobs :
        /\ task'[h].job = j /\ task'[h].op # "none"
        /\ \/ task'[h].at = "insert" /\ row[j].state = "new" /\ ~busy(j)
           \/ task'[h].at = "erase" /\ task'[h].op = "cascade" /\ row[j].state # "new"
           \/ task'[h].at = "find" /\ row[j].state # "new"
        /\ IF busy(j) \/ booting THEN spoil(j, "overlap") ELSE UNCHANGED disturbed
  BY RequestArrives
<1>3. TypeOK'
  <2>1. disturbed' \in [Jobs -> SUBSET Reasons]
    BY <1>2 DEF spoil, Reasons, TInv, TypeOK
  <2> QED
    BY <1>1, <2>1 DEF TInv, TypeOK, rigid, live
<1>4. TasksOK'
  BY <1>1 DEF TInv, TasksOK, soundTask, rigid, cloud
<1>5. BootOK'
  BY <1>1 DEF TInv, BootOK, rigid, cloud
<1>6. ASSUME NEW g \in Handlers, ~idle(g)'
      PROVE  row'[task'[g].job].state = "new" <=> at(g, "insert")'
  BY <1>1, <1>2, <1>6 DEF TInv, NewOK, idle, at
<1>7. ASSUME NEW g \in Handlers, NEW i \in Handlers, at(i, "insert")', g # i
      PROVE  task'[g].job # task'[i].job
  <2>1. CASE i = h
    <3>1. task'[g] = task[g] /\ ~busy(j) /\ task'[i].job = j
      BY <1>1, <1>2, <1>7, <2>1 DEF at
    <3>2. task[g] = nothing \/ ~idle(g)
      BY DEF TInv, TasksOK, soundTask, idle
    <3>3. nothing.job = None /\ None \notin Jobs
      BY CronsAssumption DEF nothing
    <3> QED
      BY <3>1, <3>2, <3>3 DEF busy
  <2>2. CASE i # h
    <3>1. task'[i] = task[i] /\ at(i, "insert")
      BY <1>1, <1>7, <2>2 DEF at
    <3>2. task[i].op # "none" /\ task[i].job \in Jobs
      BY <3>1 DEF TInv, TasksOK, soundTask, at, nothing
    <3>3. row[task[i].job].state = "new"
      BY <3>1, <3>2 DEF TInv, NewOK, idle
    <3>4. CASE g = h
      <4>1. CASE task'[h].at = "insert"
        BY <1>2, <3>1, <3>2, <3>4, <4>1 DEF busy, idle
      <4>2. CASE task'[h].at # "insert"
        BY <1>2, <3>1, <3>3, <3>4, <4>2
      <4> QED
        BY <4>1, <4>2
    <3>5. CASE g # h
      BY <1>1, <1>7, <3>1, <3>5 DEF TInv, NewOK
    <3> QED
      BY <3>4, <3>5
  <2> QED
    BY <2>1, <2>2
<1> QED
  BY <1>1, <1>3, <1>4, <1>5, <1>6, <1>7 DEF TInv, NewOK

LEMMA StartingBoot == \A clean \in BOOLEAN :
  /\ starting(clean) \in Boot /\ starting(clean).at = "read" /\ starting(clean).of = "backup"
  /\ starting(clean).found = {} /\ starting(clean).set = {} /\ starting(clean).clean = clean
BY DEF starting, Boot, Kinds

LEMMA Interrupted ==
  ASSUME NEW t \in Task, soundTask(t)
  PROVE  /\ interrupted(t) \in Task /\ soundTask(interrupted(t))
         /\ \/ interrupted(t) = t /\ t.at \notin Calls
            \/ interrupted(t) = nothing /\ t.at \in Calls
            \/ /\ t.at \in Calls /\ t.op = "service" /\ interrupted(t).at = "erase"
               /\ interrupted(t).job = t.job /\ interrupted(t).op = t.op
<1>1. CASE t.at \notin Calls
  BY <1>1 DEF interrupted
<1>2. CASE t.at \in Calls /\ t.op # "service"
  BY <1>2, NothingSound DEF interrupted
<1>3. CASE t.at \in Calls /\ t.op = "service"
  <2> DEFINE u == [t EXCEPT !.at = "erase"]
  <2>1. u \in Task /\ u.at = "erase" /\ u.job = t.job /\ u.op = t.op
    BY DEF Task, Stages
  <2>2. interrupted(t) = u
    BY <1>3 DEF interrupted
  <2> HIDE DEF u
  <2>3. soundTask(u)
    BY <1>3, <2>1 DEF soundTask, Calls
  <2> QED
    BY <1>3, <2>1, <2>2, <2>3
<1> QED
  BY <1>1, <1>2, <1>3

LEMMA RestartsKeepTypes ==
  ASSUME TInv, restartServer \/ restartCloudServer \/ restartJobs
  PROVE  TInv'
<1>1. events' \in 0..MaxEvents /\ UNCHANGED <<rigid, row>>
  <2>1. Event /\ UNCHANGED <<rigid, row>>
    BY DEF restartServer, restartCloudServer, restartJobs
  <2> QED
    BY <2>1, BoundAssumption DEF Event, TInv, TypeOK
<1>2. CASE restartServer
  <2>1. /\ timers' = {} /\ task' = [h \in Handlers |-> nothing] /\ boot' = starting(FALSE)
        /\ disturbed' = [j \in Jobs |-> {}]
    BY <1>2 DEF restartServer
  <2>2. boot' \in Boot /\ boot'.found = {} /\ ~boot'.clean
    BY <2>1, StartingBoot
  <2>3. \A h \in Handlers : task'[h] = nothing
    BY <2>1
  <2>4. TypeOK'
    BY <1>1, <2>1, <2>2, NothingSound DEF TInv, TypeOK, rigid, live
  <2>5. TasksOK'
    BY <1>1, <2>3, NothingSound DEF TasksOK, soundTask, rigid, cloud
  <2>6. BootOK'
    BY <2>2 DEF BootOK
  <2>7. NewOK'
    BY <2>1, <2>3 DEF NewOK, nothing, idle, at
  <2> QED
    BY <2>4, <2>5, <2>6, <2>7 DEF TInv
<1>3. CASE restartCloudServer
  <2>1. /\ task' = [h \in Handlers |-> nothing] /\ UNCHANGED <<timers, boot>>
        /\ disturbed' = [j \in Jobs |-> IF busy(j) THEN disturbed[j] \cup {"lost"}
                                        ELSE disturbed[j]]
    BY <1>3 DEF restartCloudServer
  <2>2. disturbed' \in [Jobs -> SUBSET Reasons]
    BY <2>1 DEF TInv, TypeOK, Reasons
  <2>3. \A h \in Handlers : task'[h] = nothing
    BY <2>1
  <2>4. TypeOK'
    BY <1>1, <2>1, <2>2, NothingSound DEF TInv, TypeOK, rigid, live
  <2>5. TasksOK'
    BY <1>1, <2>3, NothingSound DEF TasksOK, soundTask, rigid, cloud
  <2>6. BootOK'
    BY <1>1, <2>1 DEF TInv, BootOK, rigid, cloud
  <2>7. NewOK'
    BY <1>1, <2>1, <2>3 DEF TInv, NewOK, nothing, idle, at
  <2> QED
    BY <2>4, <2>5, <2>6, <2>7 DEF TInv
<1>4. CASE restartJobs
  <2>1. /\ task' = [h \in Handlers |-> interrupted(task[h])] /\ UNCHANGED timers
        /\ boot' = starting(TRUE) /\ cloud
        /\ disturbed' \in [Jobs -> SUBSET Reasons]
    BY <1>4 DEF restartJobs, Reasons
  <2>2. boot' \in Boot /\ boot'.found = {} /\ boot'.clean
    BY <2>1, StartingBoot
  <2>3. ASSUME NEW h \in Handlers
        PROVE  /\ task'[h] \in Task /\ soundTask(task'[h])
               /\ \/ task'[h] = task[h] /\ ~idle(h)
                  \/ task'[h] = nothing
                  \/ /\ task[h].op = "service" /\ task[h].at \in Calls
                     /\ task'[h].at = "erase" /\ task'[h].job = task[h].job
                     /\ task'[h].op = task[h].op
    BY <2>1, Interrupted DEF TInv, TypeOK, TasksOK, soundTask, idle
  <2>4. TypeOK'
    BY <1>1, <2>1, <2>2, <2>3 DEF TInv, TypeOK, rigid, live
  <2>5. TasksOK'
    BY <1>1, <2>3 DEF TasksOK, soundTask, rigid, cloud
  <2>6. BootOK'
    BY <1>1, <2>1, <2>2 DEF BootOK, rigid, cloud
  <2>7. ASSUME NEW h \in Handlers, ~idle(h)'
        PROVE  row'[task'[h].job].state = "new" <=> at(h, "insert")'
    BY <1>1, <2>3, <2>7 DEF TInv, NewOK, nothing, idle, at, Calls
  <2>8. ASSUME NEW g \in Handlers, NEW h \in Handlers, at(h, "insert")', g # h
        PROVE  task'[g].job # task'[h].job
    <3>1. task'[h] = task[h] /\ task[h].job \in Jobs /\ at(h, "insert")
      BY <2>3, <2>8 DEF TInv, TasksOK, soundTask, idle, at, nothing
    <3>2. task'[g] = nothing \/ task'[g].job = task[g].job
      BY <2>3
    <3>3. nothing.job = None /\ None \notin Jobs
      BY CronsAssumption DEF nothing
    <3> QED
      BY <2>8, <3>1, <3>2, <3>3 DEF TInv, NewOK
  <2>9. NewOK'
    BY <1>1, <2>1, <2>7, <2>8 DEF TInv, NewOK
  <2> QED
    BY <2>4, <2>5, <2>6, <2>9 DEF TInv
<1> QED
  BY <1>2, <1>3, <1>4

\* The timers of all that was found.
LEMMA ArmedAll ==
  ASSUME TInv, timers' = armedAll(timers, boot.found)
  PROVE  /\ timers' \subseteq Timer
         /\ \A j \in Jobs : (\A f \in boot.found : f.job # j) => timersOf(j)' = timersOf(j)
         /\ \A f \in boot.found : /\ timer(f.job, f.cron) \in timers'
                                  /\ none(f.job) => timersOf(f.job)' = {timer(f.job, f.cron)}
<1> DEFINE old(t) == IF \E f \in boot.found : f.job = t.job THEN [t EXCEPT !.listed = FALSE]
                                                            ELSE t
<1>1. \A t \in timers : /\ old(t) \in Timer /\ old(t).job = t.job
                        /\ (\A f \in boot.found : f.job # t.job) => old(t) = t
  BY DEF TInv, TypeOK, Timer
<1>2. \A f \in boot.found : /\ f.job \in Jobs /\ f.cron \in Crons
                            /\ timer(f.job, f.cron) \in Timer
                            /\ timer(f.job, f.cron).job = f.job
  BY DEF TInv, TypeOK, Boot, Found, timer, Timer
<1>3. timers' = {old(t) : t \in timers} \cup {timer(f.job, f.cron) : f \in boot.found}
  BY DEF armedAll
<1> HIDE DEF old
<1>4. timers' \subseteq Timer
  BY <1>1, <1>2, <1>3
<1>5. ASSUME NEW j \in Jobs, \A f \in boot.found : f.job # j
      PROVE  timersOf(j)' = timersOf(j)
  <2>1. \A t \in timers' : t.job = j => t \in timers
    BY <1>1, <1>2, <1>3, <1>5
  <2>2. \A t \in timers : t.job = j => t \in timers'
    BY <1>1, <1>3, <1>5
  <2> QED
    BY <2>1, <2>2 DEF timersOf
<1>6. ASSUME NEW f \in boot.found
      PROVE  /\ timer(f.job, f.cron) \in timers'
             /\ none(f.job) => timersOf(f.job)' = {timer(f.job, f.cron)}
  <2>1. timer(f.job, f.cron) \in timers' /\ timer(f.job, f.cron).job = f.job
    BY <1>2, <1>3
  <2>2. ASSUME none(f.job) PROVE \A t \in timers' : t.job = f.job => t = timer(f.job, f.cron)
    <3>1. \A t \in timers : t.job # f.job
      BY <2>2 DEF none, timersOf
    <3>2. \A g \in boot.found : g.job = f.job => g = f
      BY DEF TInv, BootOK
    <3> QED
      BY <1>1, <1>2, <1>3, <3>1, <3>2
  <2> QED
    BY <2>1, <2>2 DEF timersOf
<1> QED
  BY <1>4, <1>5, <1>6

\* What a step of a start reads or sets, in terms of the job it is about.
LEMMA BootReads ==
  ASSUME TInv, bootRead
  PROVE  /\ boot' \in Boot /\ boot'.at = "set" /\ boot'.of = boot.of /\ boot.at = "read"
         /\ boot'.set = boot.set /\ boot'.clean = boot.clean
         /\ \A f \in boot'.found : /\ f.job \in due(boot.of) \ skipped(boot.of)
                                   /\ f.cron = row[f.job].cron
         /\ \A j \in due(boot.of) \ skipped(boot.of) :
              \E f \in boot'.found : f.job = j /\ f.cron = row[j].cron
         /\ \A f, g \in boot'.found : f.job = g.job => f = g
         /\ disturbed' \in [Jobs -> SUBSET Reasons]
         /\ \A j \in Jobs : disturbed'[j] = disturbed[j] \cup
                              (IF j \in skipped(boot.of) THEN {"skipped"} ELSE {})
<1> DEFINE found == {[job |-> j, cron |-> row[j].cron, ready |-> selfSet(boot.of)] :
                       j \in due(boot.of) \ skipped(boot.of)}
<1>1. /\ boot' = [boot EXCEPT !.at = "set", !.found = found] /\ boot.at = "read"
      /\ disturbed' = [j \in Jobs |-> IF j \in skipped(boot.of)
                                      THEN disturbed[j] \cup {"skipped"} ELSE disturbed[j]]
  BY DEF bootRead
<1>2. \A j \in due(boot.of) : j \in Jobs /\ row[j].cron \in Crons
  BY DEF due, TInv, TypeOK
<1>3. selfSet(boot.of) \in BOOLEAN
  BY DEF selfSet
<1>4. found \in SUBSET Found
  BY <1>2, <1>3 DEF Found
<1>5. \A f \in found : f.job \in due(boot.of) \ skipped(boot.of) /\ f.cron = row[f.job].cron
  OBVIOUS
<1>8. ASSUME NEW j \in due(boot.of) \ skipped(boot.of)
      PROVE  \E f \in found : f.job = j /\ f.cron = row[j].cron
  <2> WITNESS [job |-> j, cron |-> row[j].cron, ready |-> selfSet(boot.of)] \in found
  <2> QED
    OBVIOUS
<1>9. \A f, g \in found : f.job = g.job => f = g
  OBVIOUS
<1> HIDE DEF found
<1>6. boot' \in Boot /\ boot'.at = "set" /\ boot'.of = boot.of /\ boot'.found = found
      /\ boot'.set = boot.set /\ boot'.clean = boot.clean
  BY <1>1, <1>4 DEF TInv, TypeOK, Boot
<1>7. /\ disturbed' \in [Jobs -> SUBSET Reasons]
      /\ \A j \in Jobs : disturbed'[j] = disturbed[j] \cup
                           (IF j \in skipped(boot.of) THEN {"skipped"} ELSE {})
  BY <1>1 DEF TInv, TypeOK, Reasons
<1> QED
  BY <1>1, <1>5, <1>6, <1>7, <1>8, <1>9

LEMMA BootSets ==
  ASSUME TInv, bootSet
  PROVE  /\ boot' \in Boot /\ boot'.at = boot.at /\ boot'.of = boot.of
         /\ boot'.clean = boot.clean
         /\ \E f \in boot.found :
              /\ f.job \in Jobs /\ f.cron \in Crons
              /\ boot'.found = boot.found \ {f} /\ boot'.set = boot.set \cup {f.job}
              /\ timers' \subseteq Timer /\ timer(f.job, f.cron) \in timers'
              /\ \A k \in Jobs \ {f.job} : timersOf(k)' = timersOf(k)
              /\ none(f.job) => timersOf(f.job)' = {timer(f.job, f.cron)}
              /\ cloud => timersOf(f.job)' = timersOf(f.job) \cup {timer(f.job, f.cron)}
<1>1. PICK f \in boot.found :
        /\ timers' = armed(timers, f.job, f.cron)
        /\ boot' = [boot EXCEPT !.found = @ \ {f}, !.set = @ \cup {f.job}]
  BY DEF bootSet
<1>2. f.job \in Jobs /\ f.cron \in Crons /\ boot \in Boot /\ timers \in SUBSET Timer
  BY DEF TInv, TypeOK, Boot, Found
<1>3. timers \in SUBSET Timer
  BY <1>2
<1>4. PICK j \in Jobs, c \in Crons : j = f.job /\ c = f.cron
  BY <1>2
<1>5. timers' = armed(timers, j, c)
  BY <1>1, <1>4
<1>6. /\ timers' \subseteq Timer /\ timer(j, c) \in timers'
      /\ \A k \in Jobs \ {j} : timersOf(k)' = timersOf(k)
      /\ none(j) => timersOf(j)' = {timer(j, c)}
      /\ cloud => timersOf(j)' = timersOf(j) \cup {timer(j, c)}
  BY <1>3, <1>5, Armed
<1>7. /\ boot' \in Boot /\ boot'.at = boot.at /\ boot'.of = boot.of
      /\ boot'.clean = boot.clean
      /\ boot'.found = boot.found \ {f} /\ boot'.set = boot.set \cup {f.job}
  BY <1>1, <1>2 DEF Boot
<1> QED
  BY <1>2, <1>4, <1>6, <1>7

LEMMA BootRereads ==
  ASSUME TInv, bootReread
  PROVE  /\ boot' \in Boot /\ boot'.at = boot.at /\ boot'.of = boot.of
         /\ boot'.clean = boot.clean /\ boot'.set = boot.set
         /\ \E f \in boot.found :
              /\ ~live(f.job) => boot'.found = boot.found \ {f}
              /\ live(f.job) => \E g \in Found :
                   /\ g.job = f.job /\ g.cron = row[f.job].cron
                   /\ boot'.found = (boot.found \ {f}) \cup {g}
<1>1. PICK f \in boot.found :
        boot' = [boot EXCEPT !.found = (@ \ {f}) \cup
                     {[f EXCEPT !.cron = row[j].cron, !.ready = TRUE] :
                        j \in {j \in {f.job} : live(j)}}]
  BY DEF bootReread
<1> DEFINE more == {[f EXCEPT !.cron = row[j].cron, !.ready = TRUE] :
                        j \in {j \in {f.job} : live(j)}}
           g == [f EXCEPT !.cron = row[f.job].cron, !.ready = TRUE]
<1>2. f \in Found /\ f.job \in Jobs /\ boot \in Boot
      /\ (live(f.job) => row[f.job].cron \in Crons)
  BY DEF TInv, TypeOK, Boot, Found
<1>3. IF live(f.job) THEN more = {g} ELSE more = {}
  OBVIOUS
<1>4. live(f.job) => g \in Found /\ g.job = f.job /\ g.cron = row[f.job].cron
  BY <1>2 DEF Found
<1>5. boot' = [boot EXCEPT !.found = (@ \ {f}) \cup more]
  BY <1>1
<1> HIDE DEF more, g
<1>6. more \subseteq Found
  BY <1>3, <1>4
<1>7. /\ boot' \in Boot /\ boot'.at = boot.at /\ boot'.of = boot.of
      /\ boot'.clean = boot.clean /\ boot'.set = boot.set
      /\ boot'.found = (boot.found \ {f}) \cup more
  BY <1>2, <1>5, <1>6 DEF Boot
<1> QED
  BY <1>3, <1>4, <1>7

LEMMA StartKeepsTypes ==
  ASSUME TInv, Start
  PROVE  TInv'
<1>1. UNCHANGED <<rigid, row, task>>
  BY DEF Start, bootRead, bootSetAll, bootSet, bootReread, bootFail, bootReadFail, bootNext,
         cleanQueue, cleanFail, cleaned
<1>2. events' \in 0..MaxEvents
  <2>1. Event \/ UNCHANGED events
    BY DEF Start, bootRead, bootSetAll, bootSet, bootReread, bootFail, bootReadFail, bootNext,
           cleanQueue, cleanFail, Quiet
  <2> QED
    BY <2>1, BoundAssumption DEF Event, TInv, TypeOK
<1>3. boot \in Boot /\ disturbed \in [Jobs -> SUBSET Reasons] /\ timers \subseteq Timer
      /\ \A f \in boot.found : f.job \in Jobs /\ f \in Found
  BY DEF TInv, TypeOK, Boot, Found
<1>4. /\ boot' \in Boot /\ timers' \subseteq Timer /\ disturbed' \in [Jobs -> SUBSET Reasons]
      /\ boot'.clean => boot.clean
      /\ boot'.found # {} => boot'.at = "set"
      /\ \A f, g \in boot'.found : f.job = g.job => f = g
      /\ \A f \in boot'.found : kind[f.job] = boot'.of /\ row[f.job].state # "new"
      /\ \A t \in timers' : row[t.job].state # "new"
  <2>1. CASE bootRead
    <3>1. timers' = timers
      BY <2>1 DEF bootRead
    <3>2. \A f \in boot'.found : kind[f.job] = boot.of /\ row[f.job].state # "new"
      BY <2>1, BootReads DEF due, live
    <3> QED
      BY <1>3, <2>1, <3>1, <3>2, BootReads DEF TInv, NewOK
  <2>2. CASE bootSetAll
    <3>1. timers' = armedAll(timers, boot.found) /\ disturbed' = disturbed
          /\ boot' = [boot EXCEPT !.found = {}]
      BY <2>2 DEF bootSetAll
    <3>2. boot' \in Boot /\ boot'.found = {} /\ boot'.clean = boot.clean
      BY <1>3, <3>1 DEF Boot
    <3>3. /\ timers' \subseteq Timer
          /\ \A j \in Jobs : (\A f \in boot.found : f.job # j) => timersOf(j)' = timersOf(j)
      BY <3>1, ArmedAll
    <3>4. ASSUME NEW t \in timers' PROVE row[t.job].state # "new"
      <4>1. CASE \E f \in boot.found : f.job = t.job
        BY <4>1 DEF TInv, BootOK
      <4>2. CASE \A f \in boot.found : f.job # t.job
        <5>1. t.job \in Jobs
          BY <3>3 DEF Timer
        <5>2. t \in timers
          BY <3>3, <4>2, <5>1 DEF timersOf
        <5> QED
          BY <5>2 DEF TInv, NewOK
      <4> QED
        BY <4>1, <4>2
    <3> QED
      BY <1>3, <3>1, <3>2, <3>3, <3>4
  <2>3. CASE bootSet
    <3>1. PICK f \in boot.found :
              /\ f.job \in Jobs /\ f.cron \in Crons
              /\ boot'.found = boot.found \ {f} /\ boot'.set = boot.set \cup {f.job}
              /\ timers' \subseteq Timer /\ timer(f.job, f.cron) \in timers'
              /\ \A k \in Jobs \ {f.job} : timersOf(k)' = timersOf(k)
              /\ none(f.job) => timersOf(f.job)' = {timer(f.job, f.cron)}
      BY <2>3, BootSets
    <3>2. ASSUME NEW t \in timers' PROVE row[t.job].state # "new"
      <4>1. t.job \in Jobs
        BY <3>1 DEF Timer
      <4>2. CASE t.job # f.job
        <5>1. t \in timers
          BY <3>1, <4>1, <4>2 DEF timersOf
        <5> QED
          BY <5>1 DEF TInv, NewOK
      <4>3. CASE t.job = f.job
        BY <4>3 DEF TInv, BootOK
      <4> QED
        BY <4>2, <4>3
    <3>3. disturbed' = disturbed
      BY <2>3 DEF bootSet
    <3>4. boot' \in Boot /\ boot'.at = boot.at /\ boot'.of = boot.of
          /\ boot'.clean = boot.clean
      BY <2>3, BootSets
    <3> QED
      BY <1>3, <3>1, <3>2, <3>3, <3>4 DEF TInv, BootOK
  <2>4. CASE bootReread
    <3>1. PICK f \in boot.found :
              /\ ~live(f.job) => boot'.found = boot.found \ {f}
              /\ live(f.job) => \E g \in Found :
                   /\ g.job = f.job /\ g.cron = row[f.job].cron
                   /\ boot'.found = (boot.found \ {f}) \cup {g}
      BY <2>4, BootRereads
    <3>2. boot' \in Boot /\ boot'.at = boot.at /\ boot'.of = boot.of
          /\ boot'.clean = boot.clean
      BY <2>4, BootRereads
    <3>3. UNCHANGED <<timers, disturbed>>
      BY <2>4 DEF bootReread
    <3>4. /\ \A g, i \in boot'.found : g.job = i.job => g = i
          /\ \A g \in boot'.found : \E i \in boot.found : i.job = g.job
      <4>1. \A g, i \in boot.found : g.job = i.job => g = i
        BY DEF TInv, BootOK
      <4> QED
        BY <3>1, <4>1
    <3> QED
      BY <1>3, <3>2, <3>3, <3>4 DEF TInv, BootOK, NewOK
  <2>5. CASE bootFail
    <3>1. PICK f \in boot.found :
            boot' = [boot EXCEPT !.found = @ \ {f}] /\ spoil(f.job, "lost")
      BY <2>5 DEF bootFail
    <3>2. /\ boot' \in Boot /\ boot'.found = boot.found \ {f} /\ boot'.at = boot.at
          /\ boot'.of = boot.of /\ boot'.clean = boot.clean
      BY <1>3, <3>1 DEF Boot
    <3>3. timers' = timers /\ disturbed' \in [Jobs -> SUBSET Reasons]
      BY <1>3, <2>5, <3>1 DEF bootFail, spoil, Reasons
    <3> QED
      BY <1>3, <3>2, <3>3 DEF TInv, BootOK, NewOK
  <2>6. CASE bootNext
    <3>1. /\ boot' = [boot EXCEPT !.at = IF lastKind(boot.of) THEN "up" ELSE "read",
                          !.of = IF @ = "backup" THEN "schedule" ELSE "volume"]
          /\ boot.found = {} /\ UNCHANGED <<timers, disturbed>>
      BY <2>6 DEF bootNext
    <3>2. boot' \in Boot /\ boot'.found = {} /\ boot'.clean = boot.clean
      BY <1>3, <3>1 DEF Boot, Kinds
    <3> QED
      BY <1>3, <3>1, <3>2 DEF TInv, NewOK
  <2>7. CASE cleanQueue
    <3>1. timers' = {} /\ boot' = [boot EXCEPT !.clean = FALSE]
          /\ disturbed' = [j \in Jobs |-> IF j \in boot.set THEN disturbed[j] \cup {"wiped"}
                                          ELSE disturbed[j]]
      BY <2>7 DEF cleanQueue, cleaned
    <3>2. /\ boot' \in Boot /\ boot'.found = boot.found /\ boot'.at = boot.at
          /\ boot'.of = boot.of /\ ~boot'.clean
      BY <1>3, <3>1 DEF Boot
    <3>3. disturbed' \in [Jobs -> SUBSET Reasons]
      BY <1>3, <3>1 DEF Reasons
    <3> QED
      BY <3>1, <3>2, <3>3 DEF TInv, BootOK
  <2>8. CASE cleanFail
    <3>1. timers' = timers /\ boot' = [boot EXCEPT !.clean = FALSE]
          /\ disturbed' = [j \in Jobs |->
               IF timersOf(j) # {} THEN disturbed[j] \cup {"kept"} ELSE disturbed[j]]
      BY <2>8 DEF cleanFail, cleaned
    <3>2. /\ boot' \in Boot /\ boot'.found = boot.found /\ boot'.at = boot.at
          /\ boot'.of = boot.of /\ ~boot'.clean
      BY <1>3, <3>1 DEF Boot
    <3>3. disturbed' \in [Jobs -> SUBSET Reasons]
      BY <1>3, <3>1 DEF Reasons
    <3> QED
      BY <1>3, <3>1, <3>2, <3>3 DEF TInv, BootOK, NewOK
  <2>9. CASE bootReadFail
    <3>1. timers' = timers /\ boot' = [boot EXCEPT !.at = IF givesUp THEN "up" ELSE "set"]
          /\ disturbed' = [j \in Jobs |->
               IF j \in missed THEN disturbed[j] \cup {"lost"} ELSE disturbed[j]]
          /\ boot.at = "read"
      BY <2>9 DEF bootReadFail
    <3>2. /\ boot' \in Boot /\ boot'.found = boot.found /\ boot'.of = boot.of
          /\ boot'.clean = boot.clean /\ boot.found = {}
      BY <1>3, <3>1 DEF Boot, TInv, BootOK
    <3>3. disturbed' \in [Jobs -> SUBSET Reasons]
      BY <1>3, <3>1 DEF Reasons
    <3> QED
      BY <1>3, <3>1, <3>2, <3>3 DEF TInv, BootOK, NewOK
  <2> QED
    BY <2>1, <2>2, <2>3, <2>4, <2>5, <2>6, <2>7, <2>8, <2>9 DEF Start
<1>5. TypeOK'
  BY <1>1, <1>2, <1>4 DEF TInv, TypeOK, rigid, live
<1>6. TasksOK'
  BY <1>1 DEF TInv, TasksOK, soundTask, rigid, cloud
<1>7. BootOK'
  BY <1>1, <1>4 DEF TInv, BootOK, rigid, cloud
<1>8. NewOK'
  BY <1>1, <1>4 DEF TInv, NewOK, idle, at
<1> QED
  BY <1>5, <1>6, <1>7, <1>8 DEF TInv

LEMMA InitTypes == Init => TInv
<1> SUFFICES ASSUME Init PROVE TInv
  OBVIOUS
<1>1. \A h \in Handlers : task[h] = nothing
  BY DEF Init
<1>2. boot = running /\ running \in Boot /\ running.found = {} /\ ~running.clean
  BY DEF Init, running, Boot, Kinds
<1>3. \A j \in Jobs : row[j] = [state |-> "new", enabled |-> FALSE, cron |-> None]
  BY DEF Init
<1>4. TypeOK
  BY <1>1, <1>2, <1>3, NothingSound, BoundAssumption DEF Init, TypeOK, Row, live, Reasons
<1>5. TasksOK
  BY <1>1, NothingSound DEF TasksOK
<1>6. BootOK
  BY <1>2 DEF BootOK
<1>7. NewOK
  BY <1>1 DEF Init, NewOK, nothing, idle, at
<1> QED
  BY <1>4, <1>5, <1>6, <1>7 DEF TInv

LEMMA NextTypes == TInv /\ [Next]_vars => TInv'
<1> SUFFICES ASSUME TInv, [Next]_vars PROVE TInv'
  OBVIOUS
<1>1. CASE \E h \in Handlers : Handle(h)
  <2>1. PICK h \in Handlers : request(h) \/ Work(h)
    BY <1>1 DEF Handle, Work
  <2> QED
    BY <2>1, RequestKeepsTypes, WorkKeepsTypes
<1>2. CASE restartServer \/ restartCloudServer \/ restartJobs
  BY <1>2, RestartsKeepTypes
<1>3. CASE Start
  BY <1>3, StartKeepsTypes
<1>4. CASE UNCHANGED vars
  <2>1. TypeOK'
    BY <1>4 DEF vars, rigid, TInv, TypeOK, live
  <2>2. TasksOK'
    BY <1>4 DEF vars, rigid, TInv, TasksOK, soundTask, cloud
  <2>3. BootOK' /\ NewOK'
    BY <1>4 DEF vars, rigid, TInv, BootOK, NewOK, cloud, idle, at
  <2> QED
    BY <2>1, <2>2, <2>3 DEF TInv
<1> QED
  BY <1>1, <1>2, <1>3, <1>4 DEF Next

\* Every variable stays within its type, in every instance: a request is at a stage
\* its operation, kind and edition have, and no timer is that of an unknown job.
THEOREM TypeCorrect == Spec => []TypeOK
<1>1. TInv => TypeOK
  BY DEF TInv
<1> QED
  BY <1>1, InitTypes, NextTypes, PTL DEF Spec

-----------------------------------------------------------------------------
(* What a step of a request does with the timers of its job                *)

EInv == TInv /\ OneRequest /\ Agrees /\ FoundOK /\ TimedOK /\ TimersOfRequests /\ TimersAtRest

LEMMA SameInvariant == EInv <=> IInv
BY DEF EInv, TInv, TasksOK, IInv

\* The part of the invariant that is about the request of h and its job j, after a
\* step that did not come with an overlap.
good(h, j) ==
  /\ task'[h] # nothing => agreed(task[h])'
  /\ task'[h] = nothing /\ live(j)' /\ row'[j].enabled /\ disturbed'[j] \subseteq {"left", "kept"}
       => timer(j, row'[j].cron) \in timers'
  /\ tidy(j)' => IF task'[h] = nothing THEN exact(j)' ELSE fits(task[h])'

LEMMA Working ==
  ASSUME EInv, NEW h \in Handlers, Work(h), NEW j \in Jobs, j = task[h].job,
         "overlap" \notin disturbed'[j]
  PROVE  /\ TInv /\ task[h] \in Task /\ soundTask(task[h]) /\ agreed(task[h])
         /\ (tidy(j)' => tidy(j)) /\ (tidy(j) => fits(task[h]))
         /\ kind' = kind /\ (cloud' <=> cloud) /\ kind[j] \in Kinds
         /\ timers \in SUBSET Timer /\ row[j] \in Row
<1>1. /\ advances(h) /\ UNCHANGED <<rigid, boot>> /\ TInv /\ ~idle(h)
      /\ disturbed[j] \subseteq disturbed'[j]
  BY WorkAdvances, WorkEffects DEF EInv, advances
<1>2. task[h] \in Task /\ soundTask(task[h]) /\ kind[j] \in Kinds
      /\ timers \in SUBSET Timer /\ row[j] \in Row
  BY <1>1 DEF TInv, TypeOK, TasksOK
<1>3. agreed(task[h])
  BY <1>1 DEF EInv, Agrees
<1>4. tidy(j)' => tidy(j)
  BY <1>1 DEF tidy, rigid, cloud
<1>5. tidy(j) => fits(task[h])
  BY <1>1 DEF EInv, TimersOfRequests
<1> QED
  BY <1>1, <1>2, <1>3, <1>4, <1>5 DEF rigid, cloud

LEMMA NothingAt == nothing.at = "idle" /\ nothing.op = "none"
BY DEF nothing

\* Nothing that a request may find goes wrong with no timers.
LEMMA NoneFits ==
  ASSUME NEW h, none(task[h].job)'
  PROVE  fits(task[h])'
BY DEF none, fits, exact

LEMMA NoneExact == \A j : none(j)' => exact(j)'
BY DEF none, exact

LEMMA InsertGood ==
  ASSUME EInv, NEW h \in Handlers, insert(h), NEW j \in Jobs, j = task[h].job,
         "overlap" \notin disturbed'[j]
  PROVE  good(h, j)
<1>1. Work(h) /\ TInv
  BY DEF Work, EInv
<1>2. /\ advances(h) /\ at(h, "insert")
      /\ \E enabled \in BOOLEAN, cron \in Crons :
              /\ row' = [row EXCEPT ![task[h].job] =
                           [state |-> "live", enabled |-> enabled, cron |-> cron]]
              /\ ~enabled \/ task'[h] # nothing
              /\ task'[h] # nothing =>
                   /\ task'[h].enabled = enabled /\ task'[h].cron = cron
                   /\ task'[h].op = "create"
                   /\ task'[h].at \in {"reread", "add", "arm"}
  BY <1>1, InsertAdvances
<1>3. PICK enabled \in BOOLEAN, cron \in Crons :
              /\ row' = [row EXCEPT ![j] =
                           [state |-> "live", enabled |-> enabled, cron |-> cron]]
              /\ ~enabled \/ task'[h] # nothing
              /\ task'[h] # nothing =>
                   /\ task'[h].enabled = enabled /\ task'[h].cron = cron
                   /\ task'[h].op = "create"
                   /\ task'[h].at \in {"reread", "add", "arm"}
  BY <1>2
<1>4. task'[h] # nothing => task'[h].job = j
  BY <1>2 DEF advances, same
<1>5. row'[j].state = "live" /\ row'[j].enabled = enabled /\ row'[j].cron = cron
  BY <1>3 DEF TInv, EInv, TypeOK
<1>6. timers' = timers /\ row[j].state = "new"
  BY <1>2 DEF insert, EInv, TInv, NewOK, advances
<1>7. none(j)'
  BY <1>6 DEF EInv, TInv, NewOK, none, timersOf
<1>8. task'[h] # nothing => agreed(task[h])'
  BY <1>3, <1>4, <1>5 DEF agreed, live
<1>9. task'[h] # nothing => fits(task[h])'
  BY <1>4, <1>7, NoneFits
<1> QED
  BY <1>3, <1>5, <1>7, <1>8, <1>9, NoneExact DEF good

LEMMA FindGood ==
  ASSUME EInv, NEW h \in Handlers, find(h), NEW j \in Jobs, j = task[h].job,
         "overlap" \notin disturbed'[j]
  PROVE  good(h, j)
<1>1. Work(h) /\ TInv
  BY DEF Work, EInv
<1>2. /\ advances(h) /\ task[h].at \in {"find", "refind"}
      /\ LET t == task[h]  u == task'[h] IN
              \/ u = nothing /\ ~live(j)
              \/ live(j) /\ t.op = "update" /\ u.at = "write"
              \/ live(j) /\ t.op = "delete" /\ u.at \in {"refind", "erase"}
              \/ live(j) /\ t.op = "service" /\ u.at = "erase" /\ ~row[j].enabled
              \/ live(j) /\ t.op = "service" /\ u.at = "remove" /\ cloud /\ u.cron = row[j].cron
              \/ live(j) /\ t.op = "service" /\ u.at = "disarm" /\ ~cloud
  BY <1>1, FindAdvances
<1>3. UNCHANGED <<row, timers, rigid>>
  BY DEF find
<1>4. task'[h] # nothing => task'[h].job = j /\ task'[h].op = task[h].op
  BY <1>2 DEF advances, same
<1>5. (tidy(j)' => tidy(j)) /\ (tidy(j) => exact(j))
  BY <1>1, <1>2, Working DEF fits
<1>6. task'[h] # nothing => agreed(task[h])'
  BY <1>2, <1>3, <1>4 DEF agreed, live
<1>7. /\ \A k : timersOf(k)' = timersOf(k)
      /\ live(j)' <=> live(j)
      /\ exact(j)' <=> exact(j)
      /\ cloud' <=> cloud
  BY <1>3 DEF timersOf, live, exact, rigid, cloud
<1>8. ASSUME tidy(j)', task'[h] # nothing PROVE fits(task[h])'
  <2>1. exact(j)
    BY <1>5, <1>8
  <2>2. \A t \in timersOf(j) : t.listed /\ t.cron = row[j].cron /\ row[j].enabled
    BY <2>1 DEF exact, timer
  <2>3. exact(j)' /\ (~row[j].enabled => none(j)')
    BY <1>7, <2>1, <2>2 DEF none
  <2> QED
    BY <1>2, <1>4, <1>7, <1>8, <2>2, <2>3, NothingAt DEF fits
<1> QED
  BY <1>2, <1>5, <1>6, <1>7, <1>8, NothingAt DEF good

LEMMA WriteGood ==
  ASSUME EInv, NEW h \in Handlers, write(h), NEW j \in Jobs, j = task[h].job,
         "overlap" \notin disturbed'[j]
  PROVE  good(h, j)
<1>1. Work(h) /\ TInv /\ at(h, "write")
  BY DEF Work, EInv, write
<1>2. UNCHANGED <<timers, rigid>>
  BY DEF write
<1>3. (tidy(j)' => tidy(j)) /\ (tidy(j) => exact(j)) /\ soundTask(task[h])
      /\ row[j] \in Row /\ row \in [Jobs -> Row]
  BY <1>1, Working DEF fits, at, TInv, TypeOK
<1>4. timersOf(j)' = timersOf(j) /\ (cloud' <=> cloud)
  BY <1>2 DEF timersOf, rigid, cloud
<1>5. CASE ~live(j)
  <2>1. end(h) /\ row' = row
    BY <1>5 DEF write
  <2>2. task'[h] = nothing
    BY <1>1, <2>1, EndAdvances, WorkAdvances DEF advances
  <2> QED
    BY <1>3, <1>4, <1>5, <2>1, <2>2 DEF good, live, exact
<1>6. CASE live(j)
  <2>0. live(task[h].job)
    BY <1>6
  <2>1. /\ advances(h) /\ task[h].op = "update"
        /\ \E enabled \in BOOLEAN, cron \in Crons :
              LET u == task'[h]  i == task[h].job IN
              /\ row' = [row EXCEPT ![i].enabled = enabled, ![i].cron = cron]
              /\ IF cloud /\ row[i].enabled /\ ~enabled /\ row[i].cron # cron
                 THEN spoil(i, "left") ELSE UNCHANGED disturbed
              /\ u # nothing /\ u.op = "update" /\ u.enabled = enabled /\ u.cron = cron
              /\ \/ u.at = "reread" /\ kind[i] = "backup"
                 \/ u.at = "remove" /\ cloud /\ ~enabled /\ kind[i] # "backup"
                 \/ u.at = "lookup" /\ cloud /\ kind[i] = "volume"
                 \/ u.at = "disarm" /\ ~cloud /\ kind[i] = "volume"
                 \/ u.at = "add" /\ cloud /\ kind[i] = "schedule"
                 \/ u.at = "replace" /\ ~cloud /\ kind[i] = "schedule"
    BY <1>1, <2>0, WriteAdvances
  <2>2. PICK enabled \in BOOLEAN, cron \in Crons :
              LET u == task'[h] IN
              /\ row' = [row EXCEPT ![j].enabled = enabled, ![j].cron = cron]
              /\ IF cloud /\ row[j].enabled /\ ~enabled /\ row[j].cron # cron
                 THEN spoil(j, "left") ELSE UNCHANGED disturbed
              /\ u # nothing /\ u.op = "update" /\ u.enabled = enabled /\ u.cron = cron
              /\ \/ u.at = "reread" /\ kind[j] = "backup"
                 \/ u.at = "remove" /\ cloud /\ ~enabled /\ kind[j] # "backup"
                 \/ u.at = "lookup" /\ cloud /\ kind[j] = "volume"
                 \/ u.at = "disarm" /\ ~cloud /\ kind[j] = "volume"
                 \/ u.at = "add" /\ cloud /\ kind[j] = "schedule"
                 \/ u.at = "replace" /\ ~cloud /\ kind[j] = "schedule"
    BY <2>1
  <2>3. /\ row'[j].state = "live" /\ row'[j].enabled = enabled /\ row'[j].cron = cron
    BY <1>3, <1>6, <2>2 DEF Row, live
  <2>4. task'[h].job = j
    BY <2>1, <2>2 DEF advances, same
  <2>5. agreed(task[h])'
    BY <2>2, <2>3, <2>4 DEF agreed, live
  <2>6. ASSUME tidy(j)' PROVE fits(task[h])'
    <3>1. \A t \in timersOf(j) : t.listed /\ t.cron = row[j].cron /\ row[j].enabled
      BY <1>3, <2>6 DEF exact, timer
    <3>2. ~(cloud /\ kind[j] = "schedule") /\ kind' = kind
      BY <1>2, <1>4, <2>6 DEF tidy, rigid
    <3>3. cloud /\ row[j].enabled /\ ~enabled => row[j].cron = cron
      <4>1. disturbed \in [Jobs -> SUBSET Reasons] /\ "left" \notin disturbed'[j]
        BY <1>1, <2>6 DEF tidy, TInv, TypeOK
      <4> QED
        BY <2>2, <4>1 DEF spoil
    <3> QED
      BY <1>4, <2>2, <2>4, <3>1, <3>2, <3>3 DEF fits
  <2> QED
    BY <2>2, <2>5, <2>6 DEF good
<1> QED
  BY <1>5, <1>6

LEMMA RereadGood ==
  ASSUME EInv, NEW h \in Handlers, reread(h), NEW j \in Jobs, j = task[h].job,
         "overlap" \notin disturbed'[j]
  PROVE  good(h, j)
<1> DEFINE enabled == IF kind[j] = "backup" THEN row[j].enabled ELSE task[h].enabled
<1>1. Work(h) /\ TInv
  BY DEF Work, EInv
<1>2. /\ advances(h) /\ at(h, "reread") /\ task[h].op \in {"create", "update"}
      /\ LET t == task[h]  u == task'[h] IN
              \/ u = nothing /\ ~live(j)
              \/ u = nothing /\ t.op = "create" /\ (~enabled \/ "skipped" \in disturbed'[j])
              \/ /\ live(j) /\ u # nothing /\ u.op = t.op
                 /\ u.cron = row[j].cron /\ u.enabled = enabled
                 /\ \/ u.at = "replace" /\ ~cloud /\ kind[j] = "backup" /\ t.op = "update"
                    \/ u.at = "lookup" /\ cloud /\ kind[j] = "backup" /\ t.op = "update"
                    \/ u.at = "remove" /\ cloud /\ ~enabled /\ t.op = "update"
                    \/ u.at = "add" /\ cloud /\ t.op = "create"
                    \/ u.at = "arm" /\ ~cloud /\ (t.op = "create" \/ kind[j] = "volume")
  BY <1>1, RereadAdvances
<1>3. UNCHANGED <<row, timers, rigid>>
  BY DEF reread
<1>4. /\ soundTask(task[h]) /\ (tidy(j)' => tidy(j)) /\ (tidy(j) => fits(task[h]))
      /\ live(j) /\ row[j].enabled = task[h].enabled /\ row[j].cron = task[h].cron
  BY <1>1, <1>2, Working DEF agreed, at
<1>5. enabled = row[j].enabled
  BY <1>4
<1> HIDE DEF enabled
<1>6. task'[h] # nothing => task'[h].job = j
  BY <1>2 DEF advances, same
<1>7. /\ timersOf(j)' = timersOf(j) /\ (live(j)' <=> live(j)) /\ (cloud' <=> cloud)
      /\ kind' = kind /\ (exact(j)' <=> exact(j)) /\ (none(j)' <=> none(j))
  BY <1>3 DEF timersOf, live, rigid, cloud, exact, none
<1>8. task'[h] # nothing => agreed(task[h])'
  BY <1>2, <1>3, <1>4, <1>5, <1>6, NothingAt DEF agreed, live
<1>9. ASSUME tidy(j)', task'[h] # nothing PROVE fits(task[h])'
  <2>1. fits(task[h])
    BY <1>4, <1>9
  <2>2. /\ task[h].op = "create" \/ kind[j] = "volume" => none(j)
        /\ ~cloud => \A u \in timersOf(j) : u.listed
        /\ cloud => \A u, v \in timersOf(j) : u.cron = v.cron
        /\ cloud /\ ~enabled => \A u \in timersOf(j) : u.cron = row[j].cron
    BY <1>2, <1>4, <1>5, <2>1 DEF fits, at
  <2> QED
    BY <1>2, <1>6, <1>7, <1>9, <2>2 DEF fits
<1>10. ASSUME tidy(j)', task'[h] = nothing PROVE exact(j)'
  <2>1. task[h].op = "create"
    BY <1>2, <1>4, <1>10
  <2>2. none(j)
    BY <1>2, <1>4, <1>10, <2>1 DEF fits, at
  <2> QED
    BY <1>7, <2>2, NoneExact
<1> QED
  BY <1>2, <1>3, <1>4, <1>5, <1>8, <1>9, <1>10 DEF good

LEMMA ArmGood ==
  ASSUME EInv, NEW h \in Handlers, armTimer(h) \/ add(h), NEW j \in Jobs, j = task[h].job,
         "overlap" \notin disturbed'[j]
  PROVE  good(h, j)
<1>1. Work(h) /\ TInv
  BY DEF Work, EInv
<1>2. /\ end(h) /\ UNCHANGED <<rigid, row>> /\ task[h].at \in {"arm", "add"}
      /\ timers' = armed(timers, j, task[h].cron)
  BY DEF armTimer, add, at
<1>3. task'[h] = nothing
  BY <1>1, <1>2, EndAdvances, WorkAdvances DEF advances
<1>4. /\ soundTask(task[h]) /\ (tidy(j)' => tidy(j)) /\ (tidy(j) => fits(task[h]))
      /\ live(j) /\ row[j].enabled = task[h].enabled /\ row[j].cron = task[h].cron
  BY <1>1, <1>2, Working DEF agreed
<1>5. row[j].enabled /\ row[j].cron \in Crons
  BY <1>2, <1>4 DEF soundTask
<1>6. timers \in SUBSET Timer
  BY <1>1, Working
<1>7. timer(j, row[j].cron) \in timers'
      /\ (none(j) => timersOf(j)' = {timer(j, row[j].cron)})
  <2>1. timers' = armed(timers, j, row[j].cron)
    BY <1>2, <1>4
  <2> QED
    BY <1>5, <1>6, <2>1, Armed
<1>8. tidy(j)' => none(j)
  BY <1>2, <1>4 DEF fits
<1> QED
  BY <1>2, <1>3, <1>4, <1>5, <1>7, <1>8 DEF good, exact, live

LEMMA ReplaceGood ==
  ASSUME EInv, NEW h \in Handlers, replace(h), NEW j \in Jobs, j = task[h].job,
         "overlap" \notin disturbed'[j]
  PROVE  good(h, j)
<1>1. Work(h) /\ TInv
  BY DEF Work, EInv
<1>2. /\ end(h) /\ UNCHANGED <<rigid, row>> /\ at(h, "replace")
      /\ timers' = replaced(j, task[h].enabled, task[h].cron)
  BY DEF replace
<1>3. task'[h] = nothing
  BY <1>1, <1>2, EndAdvances, WorkAdvances DEF advances
<1>4. /\ soundTask(task[h]) /\ (tidy(j)' => tidy(j)) /\ (tidy(j) => fits(task[h]))
      /\ live(j) /\ row[j].enabled = task[h].enabled /\ row[j].cron = task[h].cron
  BY <1>1, <1>2, Working DEF agreed, at
<1>5. row[j].enabled \in BOOLEAN /\ row[j].cron \in Crons
  BY <1>1, <1>4 DEF TInv, TypeOK, Row
<1>6. timers \in SUBSET Timer
  BY <1>1, Working
<1>7. /\ row[j].enabled => timer(j, row[j].cron) \in timers'
      /\ (\A t \in timersOf(j) : t.listed) =>
           timersOf(j)' = IF row[j].enabled THEN {timer(j, row[j].cron)} ELSE {}
  <2>1. timers' = replaced(j, row[j].enabled, row[j].cron)
    BY <1>2, <1>4
  <2> QED
    BY <1>5, <1>6, <2>1, Replaced
<1>8. tidy(j)' => \A t \in timersOf(j) : t.listed
  BY <1>2, <1>4 DEF fits, at
<1> QED
  BY <1>2, <1>3, <1>4, <1>5, <1>7, <1>8 DEF good, exact, live

LEMMA DisarmGood ==
  ASSUME EInv, NEW h \in Handlers, disarm(h), NEW j \in Jobs, j = task[h].job,
         "overlap" \notin disturbed'[j]
  PROVE  good(h, j)
<1>1. Work(h) /\ TInv
  BY DEF Work, EInv
<1>2. UNCHANGED <<rigid, row>> /\ at(h, "disarm") /\ timers' = cancelled(timers, j)
  BY DEF disarm
<1>3. /\ soundTask(task[h]) /\ (tidy(j)' => tidy(j)) /\ (tidy(j) => fits(task[h]))
      /\ agreed(task[h]) /\ timers \in SUBSET Timer
  BY <1>1, Working
<1>4. tidy(j)' => none(j)'
  <2>1. tidy(j)' => \A t \in timersOf(j) : t.listed
    BY <1>2, <1>3 DEF fits, at
  <2> QED
    BY <1>2, <1>3, <2>1, Cancelled
<1>5. /\ advances(h) /\ task[h].op \in {"update", "delete", "service"}
      /\ \/ task'[h] # nothing /\ task'[h].at = "erase" /\ task[h].op = "service"
         \/ /\ task'[h] # nothing /\ task'[h].at = "reread" /\ task[h].op = "update"
            /\ task[h].enabled /\ task'[h].enabled /\ task'[h].cron = task[h].cron
         \/ /\ task'[h] = nothing
            /\ (task[h].op = "update" /\ ~task[h].enabled) \/ task[h].op = "delete"
  BY <1>1, <1>2, <1>3, DisarmAdvances DEF soundTask, at
<1>6. task'[h] # nothing => task'[h].job = j /\ task'[h].op = task[h].op
  BY <1>5 DEF advances, same
<1>7. task'[h] # nothing => agreed(task[h])'
  BY <1>2, <1>3, <1>5, <1>6 DEF agreed, live, at
<1>8. ASSUME tidy(j)', task'[h] # nothing PROVE fits(task[h])'
  BY <1>4, <1>6, <1>8, NoneFits
<1>9. task'[h] = nothing => ~live(j) \/ ~row[j].enabled
  BY <1>2, <1>3, <1>5 DEF agreed, at
<1> QED
  BY <1>2, <1>4, <1>7, <1>8, <1>9, NoneExact DEF good, live

LEMMA EraseGood ==
  ASSUME EInv, NEW h \in Handlers, erase(h), NEW j \in Jobs, j = task[h].job,
         "overlap" \notin disturbed'[j]
  PROVE  good(h, j)
<1>1. Work(h) /\ TInv
  BY DEF Work, EInv
<1>2. /\ UNCHANGED <<rigid, timers>> /\ at(h, "erase")
      /\ row' = [row EXCEPT ![j] = [state |-> "gone", enabled |-> FALSE, cron |-> None]]
      /\ IF task[h].op = "cascade" \/ (task[h].op = "delete" /\ kind[j] = "volume")
         THEN disturbed' = [disturbed EXCEPT ![j] = @ \cup {"left"}]
         ELSE UNCHANGED disturbed
  BY DEF erase, spoil
<1>3. row'[j].state = "gone" /\ row \in [Jobs -> Row] /\ disturbed \in [Jobs -> SUBSET Reasons]
  BY <1>1, <1>2 DEF TInv, TypeOK
<1>4. /\ soundTask(task[h]) /\ (tidy(j)' => tidy(j)) /\ (tidy(j) => fits(task[h]))
      /\ agreed(task[h]) /\ kind[j] \in Kinds
  BY <1>1, Working
<1>5. /\ advances(h) /\ task[h].op \in {"delete", "service", "cascade"}
      /\ \/ /\ task'[h] = nothing
            /\ ~(task[h].op = "delete" /\ kind[j] # "volume"
                   /\ ~(cloud /\ kind[j] = "backup" /\ ~live(j)))
         \/ /\ task'[h] # nothing /\ task[h].op = "delete" /\ kind[j] # "volume"
            /\ task'[h].at = (IF cloud THEN "remove" ELSE "disarm")
            /\ kind[j] = "backup" /\ live(j) => task'[h].cron = row[j].cron
  BY <1>1, EraseAdvances
<1>6. task'[h] # nothing => task'[h].job = j /\ task'[h].op = task[h].op
  BY <1>5 DEF advances, same
<1>7. task'[h] # nothing => agreed(task[h])'
  BY <1>3, <1>5, <1>6 DEF agreed, live
<1>8. /\ timersOf(j)' = timersOf(j) /\ (none(j)' <=> none(j)) /\ (cloud' <=> cloud)
      /\ kind' = kind
  BY <1>2 DEF timersOf, none, rigid, cloud
<1>9. ASSUME tidy(j)', task'[h] # nothing PROVE fits(task[h])'
  <2>1. exact(j) /\ live(j) /\ ~(cloud /\ kind[j] = "schedule")
    BY <1>2, <1>4, <1>5, <1>9 DEF fits, agreed, at, tidy
  <2>2. \A t \in timersOf(j) : t.listed /\ t.cron = row[j].cron
    BY <2>1 DEF exact, timer
  <2>3. cloud => task'[h].cron = row[j].cron
    BY <1>4, <1>5, <1>9, <2>1 DEF Kinds
  <2> QED
    BY <1>5, <1>6, <1>8, <1>9, <2>2, <2>3 DEF fits
<1>10. ASSUME tidy(j)', task'[h] = nothing PROVE exact(j)'
  <2>1. "left" \notin disturbed'[j] /\ fits(task[h])
    BY <1>4, <1>10 DEF tidy
  <2>2. task[h].op = "service"
    BY <1>2, <1>3, <1>4, <1>5, <1>10, <2>1 DEF agreed, at
  <2>3. none(j)
    BY <1>2, <2>1, <2>2 DEF fits, at
  <2> QED
    BY <1>8, <2>3, NoneExact
<1> QED
  BY <1>3, <1>7, <1>9, <1>10 DEF good, live

LEMMA RemoveGood ==
  ASSUME EInv, NEW h \in Handlers, remove(h), NEW j \in Jobs, j = task[h].job,
         "overlap" \notin disturbed'[j]
  PROVE  good(h, j)
<1>1. Work(h) /\ TInv
  BY DEF Work, EInv
<1>2. /\ UNCHANGED <<rigid, row>> /\ at(h, "remove") /\ afterRemove(h) /\ ~at(h, "idle")
      /\ timers' = removed(timers, j, task[h].cron)
  BY DEF remove, at
<1>3. /\ soundTask(task[h]) /\ (tidy(j)' => tidy(j)) /\ (tidy(j) => fits(task[h]))
      /\ agreed(task[h]) /\ timers \in SUBSET Timer
  BY <1>1, Working
<1>4. tidy(j)' => none(j)'
  <2>1. tidy(j)' => kind[j] # "schedule" /\ \A t \in timersOf(j) : t.cron = task[h].cron
    BY <1>2, <1>3 DEF fits, at, tidy, soundTask, Calls
  <2> QED
    BY <1>2, <1>3, <2>1, Removed
<1>5. /\ advances(h)
      /\ \/ task'[h] # nothing /\ task'[h].at = "erase" /\ task[h].op = "service"
         \/ task'[h] = nothing /\ task[h].op # "service"
  BY <1>1, <1>2, AfterRemove
<1>6. task'[h] # nothing => task'[h].job = j /\ task'[h].op = task[h].op
  BY <1>5 DEF advances, same
<1>7. task'[h] # nothing => agreed(task[h])'
  BY <1>5, <1>6 DEF agreed
<1>8. ASSUME tidy(j)', task'[h] # nothing PROVE fits(task[h])'
  BY <1>4, <1>6, <1>8, NoneFits
<1>9. task'[h] = nothing => ~live(j) \/ ~row[j].enabled
  BY <1>2, <1>3, <1>5 DEF agreed, at, soundTask
<1> QED
  BY <1>2, <1>4, <1>7, <1>8, <1>9, NoneExact DEF good, live

LEMMA LookupGood ==
  ASSUME EInv, NEW h \in Handlers, lookup(h), NEW j \in Jobs, j = task[h].job,
         "overlap" \notin disturbed'[j]
  PROVE  good(h, j)
<1>1. Work(h) /\ TInv
  BY DEF Work, EInv
<1>2. UNCHANGED <<rigid, row, timers>> /\ at(h, "lookup")
  BY DEF lookup
<1>3. /\ soundTask(task[h]) /\ (tidy(j)' => tidy(j)) /\ (tidy(j) => fits(task[h]))
      /\ live(j) /\ row[j].enabled = task[h].enabled /\ row[j].cron = task[h].cron
  BY <1>1, <1>2, Working DEF agreed, at
<1>4. /\ advances(h) /\ task'[h] # nothing
      /\ task'[h].enabled = task[h].enabled /\ task'[h].cron = task[h].cron
      /\ \/ task'[h].at = "add" /\ none(j)
         \/ task'[h].at = "drop" /\ \E t \in timersOf(j) : task'[h].old = t.cron
  BY <1>1, LookupAdvances
<1>5. task'[h].job = j
  BY <1>4 DEF advances, same
<1>6. agreed(task[h])'
  BY <1>2, <1>3, <1>4, <1>5 DEF agreed, live
<1>7. timersOf(j)' = timersOf(j) /\ (none(j)' <=> none(j)) /\ (cloud' <=> cloud)
  BY <1>2 DEF timersOf, none, rigid, cloud
<1>8. ASSUME tidy(j)' PROVE fits(task[h])'
  <2>1. \A u, v \in timersOf(j) : u.cron = v.cron
    BY <1>2, <1>3, <1>8 DEF fits, at
  <2> QED
    BY <1>4, <1>5, <1>7, <2>1 DEF fits
<1> QED
  BY <1>4, <1>6, <1>8 DEF good

LEMMA DropGood ==
  ASSUME EInv, NEW h \in Handlers, drop(h), NEW j \in Jobs, j = task[h].job,
         "overlap" \notin disturbed'[j]
  PROVE  good(h, j)
<1>1. Work(h) /\ TInv
  BY DEF Work, EInv
<1>2. UNCHANGED <<rigid, row>> /\ at(h, "drop") /\ timers' = removed(timers, j, task[h].old)
  BY DEF drop
<1>3. /\ soundTask(task[h]) /\ (tidy(j)' => tidy(j)) /\ (tidy(j) => fits(task[h]))
      /\ live(j) /\ row[j].enabled = task[h].enabled /\ row[j].cron = task[h].cron
      /\ timers \in SUBSET Timer
  BY <1>1, <1>2, Working DEF agreed, at
<1>4. /\ advances(h) /\ task'[h] # nothing /\ task'[h].at = "add"
      /\ task'[h].enabled = task[h].enabled /\ task'[h].cron = task[h].cron
  BY <1>1, DropAdvances
<1>5. task'[h].job = j
  BY <1>4 DEF advances, same
<1>6. agreed(task[h])'
  BY <1>2, <1>3, <1>4, <1>5 DEF agreed, live
<1>7. tidy(j)' => none(j)'
  <2>1. tidy(j)' => kind[j] # "schedule" /\ \A t \in timersOf(j) : t.cron = task[h].old
    BY <1>2, <1>3 DEF fits, at, tidy, soundTask, Calls
  <2> QED
    BY <1>2, <1>3, <2>1, Removed
<1>8. ASSUME tidy(j)' PROVE fits(task[h])'
  BY <1>5, <1>7, <1>8, NoneFits
<1> QED
  BY <1>4, <1>6, <1>8 DEF good

LEMMA FailGood ==
  ASSUME EInv, NEW h \in Handlers, fail(h), NEW j \in Jobs, j = task[h].job,
         "overlap" \notin disturbed'[j]
  PROVE  good(h, j)
<1>1. Work(h) /\ TInv
  BY DEF Work, EInv
<1>2. disturbed' = [disturbed EXCEPT ![j] = @ \cup {"lost"}]
  BY DEF fail, spoil
<1>3. "lost" \in disturbed'[j]
  BY <1>1, <1>2 DEF TInv, TypeOK
<1>4. ~tidy(j)' /\ ~(disturbed'[j] \subseteq {"left", "kept"})
  BY <1>3 DEF tidy
<1>5. /\ advances(h)
      /\ \/ task'[h] # nothing /\ task'[h].at = "erase" /\ task[h].op = "service"
         \/ task'[h] = nothing
  BY <1>1, FailAdvances
<1>6. task'[h] # nothing => task'[h].op = task[h].op
  BY <1>5 DEF advances, same
<1>7. task'[h] # nothing => agreed(task[h])'
  BY <1>5, <1>6 DEF agreed
<1> QED
  BY <1>4, <1>7 DEF good

LEMMA WorkGood ==
  ASSUME EInv, NEW h \in Handlers, Work(h), NEW j \in Jobs, j = task[h].job,
         "overlap" \notin disturbed'[j]
  PROVE  good(h, j)
BY InsertGood, FindGood, WriteGood, RereadGood, EraseGood, ArmGood, ReplaceGood, DisarmGood,
   RemoveGood, LookupGood, DropGood, FailGood DEF Work

-----------------------------------------------------------------------------
(* The invariant under the steps of a request                              *)

\* What the invariant says of k is as it was.
alike(k) ==
  /\ row'[k] = row[k] /\ timersOf(k)' = timersOf(k) /\ disturbed'[k] = disturbed[k]
  /\ UNCHANGED <<rigid, boot>>

LEMMA Alike ==
  ASSUME NEW k, alike(k)
  PROVE  /\ (live(k)' <=> live(k)) /\ (unset(k)' <=> unset(k)) /\ (exact(k)' <=> exact(k))
         /\ (none(k)' <=> none(k)) /\ (tidy(k)' <=> tidy(k)) /\ (booting' <=> booting)
         /\ (cloud' <=> cloud) /\ kind' = kind /\ boot' = boot
<1>1. (live(k)' <=> live(k)) /\ (cloud' <=> cloud) /\ (booting' <=> booting)
  BY DEF alike, live, cloud, rigid, booting
<1>2. unset(k)' <=> unset(k)
  BY DEF alike, rigid, unset
<1>3. (exact(k)' <=> exact(k)) /\ (none(k)' <=> none(k))
  BY <1>1 DEF alike, exact, none
<1>4. tidy(k)' <=> tidy(k)
  BY <1>1 DEF alike, tidy, rigid
<1> QED
  BY <1>1, <1>2, <1>3, <1>4 DEF alike, rigid

\* So is what it says of a request for k that does not move.
LEMMA AlikeTasks ==
  ASSUME NEW k, alike(k), NEW g, task'[g] = task[g], task[g].job = k
  PROVE  /\ agreed(task[g]) => agreed(task[g])'
         /\ fits(task[g]) => fits(task[g])'
<1>1. /\ (live(k)' <=> live(k)) /\ (exact(k)' <=> exact(k)) /\ (none(k)' <=> none(k))
      /\ (cloud' <=> cloud) /\ kind' = kind
      /\ row'[k] = row[k] /\ timersOf(k)' = timersOf(k)
  BY Alike DEF alike
<1>2. agreed(task[g]) => agreed(task[g])'
  BY <1>1 DEF agreed
<1>3. fits(task[g]) => fits(task[g])'
  BY <1>1 DEF fits
<1> QED
  BY <1>2, <1>3

LEMMA WorkOthers ==
  ASSUME EInv, NEW h \in Handlers, Work(h), NEW j \in Jobs, j = task[h].job
  PROVE  /\ \A k \in Jobs \ {j} : alike(k) /\ (busy(k)' <=> busy(k))
         /\ \A g \in Handlers \ {h} : task'[g] = task[g]
         /\ task'[h] = nothing \/ (task'[h].job = j /\ task'[h] # nothing)
         /\ ~idle(h) /\ busy(j) /\ UNCHANGED boot /\ j # None
<1>1. /\ advances(h) /\ UNCHANGED <<rigid, boot>>
      /\ \A k \in Jobs \ {j} : row'[k] = row[k]
      /\ \A k \in Jobs \ {j} : timersOf(k)' = timersOf(k)
      /\ \A k \in Jobs \ {j} : disturbed'[k] = disturbed[k]
  BY WorkAdvances, WorkEffects DEF EInv
<1>2. j # None
  BY CronsAssumption
<1>3. /\ \A g \in Handlers \ {h} : task'[g] = task[g]
      /\ task'[h] = nothing \/ (task'[h].job = j /\ task'[h] # nothing)
      /\ ~idle(h)
  BY <1>1, <1>2 DEF advances, same, nothing
<1>4. ASSUME NEW k \in Jobs \ {j} PROVE busy(k)' <=> busy(k)
  BY <1>3, <1>4, CronsAssumption DEF busy, idle, nothing
<1> QED
  BY <1>1, <1>2, <1>3, <1>4 DEF alike, busy

LEMMA WorkKeeps ==
  ASSUME EInv, NEW h \in Handlers, Work(h)
  PROVE  EInv'
<1>1. TInv /\ TInv'
  BY WorkKeepsTypes DEF EInv
<1>2. PICK j \in Jobs : j = task[h].job
  BY <1>1, WorkAdvances
<1>3. /\ \A k \in Jobs \ {j} : alike(k) /\ (busy(k)' <=> busy(k))
      /\ \A g \in Handlers \ {h} : task'[g] = task[g]
      /\ task'[h] = nothing \/ (task'[h].job = j /\ task'[h] # nothing)
      /\ ~idle(h) /\ busy(j) /\ UNCHANGED boot /\ j # None
  BY <1>2, WorkOthers
<1>4. \A g \in Handlers : task[g] = nothing \/ (~idle(g) /\ task[g].job \in Jobs)
  BY <1>1 DEF TInv, TasksOK, soundTask, idle
<1>5. nothing.job = None /\ None \notin Jobs /\ nothing.op = "none"
  BY CronsAssumption DEF nothing
<1>6. disturbed[j] \subseteq disturbed'[j]
  BY <1>1, <1>2, WorkEffects
<1>7. "overlap" \notin disturbed'[j] =>
        /\ ~booting /\ ~booting' /\ boot.at = "up" /\ boot.found = {} /\ ~boot.clean
        /\ \A g \in Handlers \ {h} : task[g].job # j
        /\ good(h, j)
  <2>1. booting' <=> booting
    BY <1>3 DEF booting
  <2>2. ASSUME "overlap" \notin disturbed'[j]
        PROVE  ~booting /\ \A g \in Handlers \ {h} : task[g].job # j
    BY <1>2, <1>3, <1>6, <2>2 DEF EInv, OneRequest
  <2>3. ~booting => boot.at = "up" /\ boot.found = {} /\ ~boot.clean
    BY <1>1 DEF booting, TInv, BootOK
  <2> QED
    BY <1>2, <2>1, <2>2, <2>3, WorkGood
<1>8. OneRequest'
  <2> SUFFICES ASSUME NEW k \in Jobs, "overlap" \notin disturbed'[k]
               PROVE  /\ busy(k)' => ~booting'
                      /\ \A g, i \in Handlers : task'[g].job = k /\ task'[i].job = k => g = i
    BY DEF OneRequest
  <2>1. CASE k = j
    BY <1>3, <1>7, <2>1, <1>5
  <2>2. CASE k # j
    <3>1. alike(k) /\ (busy(k)' <=> busy(k)) /\ "overlap" \notin disturbed[k]
      BY <1>3, <2>2 DEF alike
    <3>2. /\ busy(k) => ~booting
          /\ \A g, i \in Handlers : task[g].job = k /\ task[i].job = k => g = i
      BY <3>1 DEF EInv, OneRequest
    <3>3. \A g \in Handlers : task'[g].job = k => g # h /\ task[g].job = k
      BY <1>3, <1>5, <2>2
    <3> QED
      BY <3>1, <3>2, <3>3, Alike
  <2> QED
    BY <2>1, <2>2
<1>9. ASSUME NEW g \in Handlers, ~idle(g)', g # h
      PROVE  /\ task'[g] = task[g] /\ ~idle(g) /\ task[g].job \in Jobs
             /\ "overlap" \notin disturbed'[task[g].job] =>
                  alike(task[g].job) /\ "overlap" \notin disturbed[task[g].job]
  <2>1. task'[g] = task[g] /\ ~idle(g) /\ task[g].job \in Jobs
    BY <1>3, <1>4, <1>5, <1>9 DEF idle
  <2>2. ASSUME "overlap" \notin disturbed'[task[g].job]
        PROVE  alike(task[g].job) /\ "overlap" \notin disturbed[task[g].job]
    <3>1. task[g].job # j
      BY <1>7, <1>9, <2>2
    <3> QED
      BY <1>3, <2>1, <2>2, <3>1 DEF alike
  <2> QED
    BY <2>1, <2>2
<1>10. ~idle(h)' => task'[h] # nothing /\ task'[h].job = j
  BY <1>3, <1>5 DEF idle
<1>16. task'[h] # nothing => busy(j)'
  <2>1. task'[h].op = "none" => task'[h] = nothing
    BY <1>1 DEF TInv, TasksOK, soundTask, nothing
  <2> QED
    BY <1>3, <2>1 DEF busy, idle
<1>11. Agrees'
  <2> SUFFICES ASSUME NEW g \in Handlers, ~idle(g)', "overlap" \notin disturbed'[task'[g].job]
               PROVE  agreed(task[g])'
    BY DEF Agrees
  <2>1. CASE g = h
    BY <1>7, <1>10, <2>1 DEF good
  <2>2. CASE g # h
    <3>1. task'[g] = task[g] /\ ~idle(g) /\ alike(task[g].job)
          /\ "overlap" \notin disturbed[task[g].job]
      BY <1>9, <2>2
    <3>2. agreed(task[g])
      BY <3>1 DEF EInv, Agrees
    <3> QED
      BY <3>1, <3>2, AlikeTasks
  <2> QED
    BY <2>1, <2>2
<1>12. FoundOK'
  <2> SUFFICES ASSUME NEW f \in boot.found, "overlap" \notin disturbed'[f.job]
               PROVE  live(f.job)' /\ row'[f.job].enabled /\ f.cron = row'[f.job].cron
    BY <1>3 DEF FoundOK, live
  <2>1. f.job \in Jobs /\ f.job # j
    BY <1>1, <1>7 DEF TInv, TypeOK, Boot, Found
  <2>2. alike(f.job)
    BY <1>3, <2>1
  <2> QED
    BY <2>2 DEF EInv, FoundOK, alike, live
<1>13. TimedOK'
  <2> SUFFICES ASSUME NEW k \in Jobs, ~busy(k)', live(k)', row'[k].enabled,
                      disturbed'[k] \subseteq {"left", "kept"}
               PROVE  \/ unset(k)'
                      \/ timer(k, row'[k].cron) \in timers' /\ (boot'.clean => k \in boot'.set)
    BY DEF TimedOK, timer
  <2>1. "overlap" \notin disturbed'[k]
    OBVIOUS
  <2>2. CASE k = j
    <3>1. task'[h] = nothing
      BY <1>16, <2>2
    <3> QED
      BY <1>3, <1>7, <2>1, <2>2, <3>1 DEF good
  <2>3. CASE k # j
    <3>1. alike(k) /\ ~busy(k)
      BY <1>3, <2>3
    <3>2. live(k) /\ row[k].enabled /\ disturbed[k] \subseteq {"left", "kept"}
          /\ row'[k] = row[k] /\ timersOf(k)' = timersOf(k) /\ boot' = boot
      BY <3>1, Alike DEF alike
    <3>3. unset(k) \/ (timer(k, row[k].cron) \in timers /\ (boot.clean => k \in boot.set))
      BY <3>1, <3>2 DEF EInv, TimedOK
    <3>4. timer(k, row[k].cron).job = k
      BY DEF timer
    <3>5. timer(k, row[k].cron) \in timers => timer(k, row[k].cron) \in timers'
      BY <3>2, <3>4 DEF timersOf
    <3> QED
      BY <3>1, <3>2, <3>3, <3>5, Alike
  <2> QED
    BY <2>2, <2>3
<1>14. TimersOfRequests'
  <2> SUFFICES ASSUME NEW g \in Handlers, ~idle(g)', tidy(task[g].job)'
               PROVE  fits(task[g])'
    BY DEF TimersOfRequests
  <2>1. "overlap" \notin disturbed'[task'[g].job]
    BY DEF tidy
  <2>2. CASE g = h
    <3>1. tidy(j)' /\ task'[h].job = j /\ task'[h] # nothing
      BY <1>10, <2>2 DEF tidy
    <3> QED
      BY <1>7, <2>1, <2>2, <3>1 DEF good
  <2>3. CASE g # h
    <3>1. /\ task'[g] = task[g] /\ ~idle(g)
          /\ "overlap" \notin disturbed'[task[g].job] => alike(task[g].job)
      BY <1>9, <2>3
    <3>2. alike(task[g].job) /\ task[g].job \in Jobs
      BY <2>1, <3>1, <1>9, <2>3
    <3>3. PICK k \in Jobs : k = task[g].job
      BY <3>2
    <3>4. alike(k) /\ tidy(k)'
      BY <3>1, <3>2, <3>3 DEF alike, tidy
    <3>5. tidy(task[g].job)
      BY <3>3, <3>4, Alike
    <3>6. fits(task[g])
      BY <3>1, <3>5 DEF EInv, TimersOfRequests
    <3> QED
      BY <3>1, <3>2, <3>6, AlikeTasks
  <2> QED
    BY <2>2, <2>3
<1>15. TimersAtRest'
  <2> SUFFICES ASSUME NEW k \in Jobs, ~busy(k)', tidy(k)'
               PROVE  (boot'.clean \/ exact(k)') /\ (~cloud' /\ unset(k)' => none(k)')
    BY DEF TimersAtRest
  <2>1. "overlap" \notin disturbed'[k]
    BY DEF tidy
  <2>2. CASE k = j
    <3>1. task'[h] = nothing
      BY <1>16, <2>2
    <3>2. ~unset(j)'
      BY <1>3, <1>7, <2>1, <2>2 DEF unset
    <3> QED
      BY <1>7, <2>1, <2>2, <3>1, <3>2 DEF good
  <2>3. CASE k # j
    <3>1. alike(k) /\ ~busy(k)
      BY <1>3, <2>3
    <3>2. tidy(k)
      BY <3>1, Alike
    <3>3. (boot.clean \/ exact(k)) /\ (~cloud /\ unset(k) => none(k))
      BY <3>1, <3>2 DEF EInv, TimersAtRest
    <3> QED
      BY <3>1, <3>3, Alike
  <2> QED
    BY <2>2, <2>3
<1> QED
  BY <1>1, <1>8, <1>11, <1>12, <1>13, <1>14, <1>15 DEF EInv

-----------------------------------------------------------------------------
(* The invariant under requests that arrive and restarts                   *)

\* More may have happened to k, and nothing else.
spoiled(k) ==
  /\ row'[k] = row[k] /\ timersOf(k)' = timersOf(k) /\ disturbed[k] \subseteq disturbed'[k]
  /\ UNCHANGED <<rigid, boot>>

LEMMA Spoiled ==
  ASSUME NEW k, spoiled(k)
  PROVE  /\ (live(k)' <=> live(k)) /\ (unset(k)' <=> unset(k)) /\ (exact(k)' <=> exact(k))
         /\ (none(k)' <=> none(k)) /\ (tidy(k)' => tidy(k)) /\ (booting' <=> booting)
         /\ (cloud' <=> cloud) /\ kind' = kind /\ boot' = boot
<1>1. (live(k)' <=> live(k)) /\ (cloud' <=> cloud) /\ (booting' <=> booting)
  BY DEF spoiled, live, cloud, rigid, booting
<1>2. unset(k)' <=> unset(k)
  BY DEF spoiled, rigid, unset
<1>3. (exact(k)' <=> exact(k)) /\ (none(k)' <=> none(k))
  BY <1>1 DEF spoiled, exact, none
<1>4. tidy(k)' => tidy(k)
  BY <1>1 DEF spoiled, tidy, rigid
<1> QED
  BY <1>1, <1>2, <1>3, <1>4 DEF spoiled, rigid

LEMMA SpoiledTasks ==
  ASSUME NEW k, spoiled(k), NEW g, task'[g] = task[g], task[g].job = k
  PROVE  /\ agreed(task[g]) => agreed(task[g])'
         /\ fits(task[g]) => fits(task[g])'
<1>1. /\ (live(k)' <=> live(k)) /\ (exact(k)' <=> exact(k)) /\ (none(k)' <=> none(k))
      /\ (cloud' <=> cloud) /\ kind' = kind
      /\ row'[k] = row[k] /\ timersOf(k)' = timersOf(k)
  BY Spoiled DEF spoiled
<1>2. agreed(task[g]) => agreed(task[g])'
  BY <1>1 DEF agreed
<1>3. fits(task[g]) => fits(task[g])'
  BY <1>1 DEF fits
<1> QED
  BY <1>2, <1>3

\* A job at rest that stays at rest keeps what the invariant says of it.
LEMMA SpoiledRests ==
  ASSUME EInv, NEW k \in Jobs, spoiled(k), ~busy(k)
  PROVE  /\ live(k)' /\ row'[k].enabled /\ disturbed'[k] \subseteq {"left", "kept"} =>
              \/ unset(k)'
              \/ timer(k, row'[k].cron) \in timers' /\ (boot'.clean => k \in boot'.set)
         /\ tidy(k)' => (boot'.clean \/ exact(k)') /\ (~cloud' /\ unset(k)' => none(k)')
<1>1. /\ (live(k)' <=> live(k)) /\ (unset(k)' <=> unset(k)) /\ (exact(k)' <=> exact(k))
      /\ (none(k)' <=> none(k)) /\ (tidy(k)' => tidy(k))
      /\ (cloud' <=> cloud) /\ boot' = boot
      /\ row'[k] = row[k] /\ timersOf(k)' = timersOf(k) /\ disturbed[k] \subseteq disturbed'[k]
  BY Spoiled DEF spoiled
<1>2. timer(k, row[k].cron) \in timers => timer(k, row[k].cron) \in timers'
  <2>1. timer(k, row[k].cron).job = k
    BY DEF timer
  <2> QED
    BY <1>1, <2>1 DEF timersOf
<1>3. ASSUME live(k)', row'[k].enabled, disturbed'[k] \subseteq {"left", "kept"}
      PROVE  \/ unset(k)'
             \/ timer(k, row'[k].cron) \in timers' /\ (boot'.clean => k \in boot'.set)
  <2>1. disturbed[k] \subseteq {"left", "kept"} /\ live(k) /\ row[k].enabled
    BY <1>1, <1>3
  <2>2. unset(k) \/ (timer(k, row[k].cron) \in timers /\ (boot.clean => k \in boot.set))
    BY <2>1 DEF EInv, TimedOK
  <2> QED
    BY <1>1, <1>2, <2>2
<1>4. ASSUME tidy(k)'
      PROVE  (boot'.clean \/ exact(k)') /\ (~cloud' /\ unset(k)' => none(k)')
  <2>1. tidy(k)
    BY <1>1, <1>4
  <2>2. (boot.clean \/ exact(k)) /\ (~cloud /\ unset(k) => none(k))
    BY <2>1 DEF EInv, TimersAtRest
  <2> QED
    BY <1>1, <2>2
<1> QED
  BY <1>3, <1>4

LEMMA SpoiledFound ==
  ASSUME EInv, \A k \in Jobs : spoiled(k), UNCHANGED boot
  PROVE  FoundOK'
<1> SUFFICES ASSUME NEW f \in boot.found, "overlap" \notin disturbed'[f.job]
             PROVE  live(f.job)' /\ row'[f.job].enabled /\ f.cron = row'[f.job].cron
  BY DEF FoundOK, live
<1>1. f.job \in Jobs
  BY DEF EInv, TInv, TypeOK, Boot, Found
<1>2. spoiled(f.job)
  BY <1>1
<1> QED
  BY <1>2 DEF EInv, FoundOK, spoiled, live

LEMMA RequestKeeps ==
  ASSUME EInv, NEW h \in Handlers, request(h)
  PROVE  EInv'
<1>1. TInv /\ TInv'
  BY RequestKeepsTypes DEF EInv
<1>2. /\ idle(h) /\ UNCHANGED <<rigid, row, timers, boot>>
      /\ \A g \in Handlers \ {h} : task'[g] = task[g]
  BY <1>1, RequestArrives
<1>3. PICK j \in Jobs :
        /\ task'[h].job = j /\ task'[h].op # "none"
        /\ \/ task'[h].at = "insert" /\ row[j].state = "new" /\ ~busy(j)
           \/ task'[h].at = "erase" /\ task'[h].op = "cascade" /\ row[j].state # "new"
           \/ task'[h].at = "find" /\ row[j].state # "new"
        /\ IF busy(j) \/ booting THEN spoil(j, "overlap") ELSE UNCHANGED disturbed
  BY <1>1, RequestArrives
<1>4. \A k \in Jobs : disturbed[k] \subseteq disturbed'[k]
  BY <1>1, <1>3 DEF spoil, TInv, TypeOK
<1>5. "overlap" \notin disturbed'[j] => ~busy(j) /\ ~booting /\ disturbed' = disturbed
  BY <1>1, <1>3 DEF spoil, TInv, TypeOK
<1>6. \A k \in Jobs : spoiled(k)
  BY <1>2, <1>4 DEF spoiled, timersOf
<1>7. \A k \in Jobs : ~busy(k)' => ~busy(k) /\ k # j
  BY <1>2, <1>3 DEF busy, idle
<1>8. \A g \in Handlers : task[g] = nothing \/ (~idle(g) /\ task[g].job \in Jobs)
  BY <1>1 DEF TInv, TasksOK, soundTask, idle
<1>9. nothing.job = None /\ None \notin Jobs /\ nothing.op = "none"
  BY CronsAssumption DEF nothing
<1>10. OneRequest'
  <2> SUFFICES ASSUME NEW k \in Jobs, "overlap" \notin disturbed'[k]
               PROVE  /\ busy(k)' => ~booting'
                      /\ \A g, i \in Handlers : task'[g].job = k /\ task'[i].job = k => g = i
    BY DEF OneRequest
  <2>1. booting' <=> booting
    BY <1>2 DEF booting
  <2>2. CASE k = j
    <3>1. \A g \in Handlers : task[g].job # j
      BY <1>5, <1>8, <1>9, <2>2 DEF busy
    <3> QED
      BY <1>2, <1>5, <2>1, <2>2, <3>1
  <2>3. CASE k # j
    <3>1. "overlap" \notin disturbed[k]
      BY <1>4
    <3>2. busy(k)' => busy(k)
      BY <1>2, <1>3, <2>3 DEF busy, idle
    <3>3. \A g \in Handlers : task'[g].job = k => task[g].job = k
      BY <1>2, <1>3, <2>3
    <3> QED
      BY <2>1, <3>1, <3>2, <3>3 DEF EInv, OneRequest
  <2> QED
    BY <2>2, <2>3
<1>11. ASSUME NEW g \in Handlers \ {h}, ~idle(g)'
       PROVE  task'[g] = task[g] /\ ~idle(g) /\ task[g].job \in Jobs /\ spoiled(task[g].job)
  BY <1>2, <1>6, <1>8, <1>9, <1>11 DEF idle
<1>12. Agrees'
  <2> SUFFICES ASSUME NEW g \in Handlers, ~idle(g)', "overlap" \notin disturbed'[task'[g].job]
               PROVE  agreed(task[g])'
    BY DEF Agrees
  <2>1. CASE g = h
    BY <1>3, <2>1 DEF agreed
  <2>2. CASE g # h
    <3>1. task'[g] = task[g] /\ ~idle(g) /\ spoiled(task[g].job) /\ task[g].job \in Jobs
      BY <1>11, <2>2
    <3>2. "overlap" \notin disturbed[task[g].job]
      BY <1>4, <3>1
    <3>3. agreed(task[g])
      BY <3>1, <3>2 DEF EInv, Agrees
    <3> QED
      BY <3>1, <3>3, SpoiledTasks
  <2> QED
    BY <2>1, <2>2
<1>13. FoundOK'
  BY <1>2, <1>6, SpoiledFound
<1>14. TimedOK' /\ TimersAtRest'
  <2>1. \A k \in Jobs : ~busy(k)' =>
         /\ live(k)' /\ row'[k].enabled /\ disturbed'[k] \subseteq {"left", "kept"} =>
              \/ unset(k)'
              \/ timer(k, row'[k].cron) \in timers' /\ (boot'.clean => k \in boot'.set)
         /\ tidy(k)' => (boot'.clean \/ exact(k)') /\ (~cloud' /\ unset(k)' => none(k)')
    BY <1>6, <1>7, SpoiledRests
  <2> QED
    BY <2>1 DEF TimedOK, TimersAtRest, timer
<1>15. TimersOfRequests'
  <2> SUFFICES ASSUME NEW g \in Handlers, ~idle(g)', tidy(task[g].job)'
               PROVE  fits(task[g])'
    BY DEF TimersOfRequests
  <2>1. CASE g = h
    <3>1. task'[g].job = j /\ tidy(j)'
      BY <1>3, <2>1 DEF tidy
    <3>2. "overlap" \notin disturbed'[j] /\ spoiled(j)
      BY <1>6, <3>1 DEF tidy
    <3>3. tidy(j) /\ ~busy(j) /\ ~boot.clean
      BY <1>5, <3>1, <3>2, Spoiled DEF booting
    <3>4. exact(j)
      BY <3>3 DEF EInv, TimersAtRest
    <3>5. exact(j)'
      BY <3>2, <3>4, Spoiled
    <3> QED
      BY <1>3, <2>1, <3>1, <3>5 DEF fits
  <2>2. CASE g # h
    <3>1. task'[g] = task[g] /\ ~idle(g) /\ spoiled(task[g].job) /\ task[g].job \in Jobs
      BY <1>11, <2>2
    <3>2. PICK k \in Jobs : k = task[g].job
      BY <3>1
    <3>3. spoiled(k) /\ tidy(k)'
      BY <1>6, <3>1, <3>2 DEF tidy
    <3>4. tidy(task[g].job)
      BY <3>2, <3>3, Spoiled
    <3>5. fits(task[g])
      BY <3>1, <3>4 DEF EInv, TimersOfRequests
    <3> QED
      BY <3>1, <3>5, SpoiledTasks
  <2> QED
    BY <2>1, <2>2
<1> QED
  BY <1>1, <1>10, <1>12, <1>13, <1>14, <1>15 DEF EInv

LEMMA RestartsKeep ==
  ASSUME EInv, restartServer \/ restartCloudServer \/ restartJobs
  PROVE  EInv'
<1>1. TInv /\ TInv' /\ UNCHANGED <<rigid, row>>
  BY RestartsKeepTypes DEF EInv, restartServer, restartCloudServer, restartJobs
<1>2. nothing.job = None /\ None \notin Jobs /\ nothing.op = "none"
  BY CronsAssumption DEF nothing
<1>3. CASE restartServer
  <2>1. /\ timers' = {} /\ boot' = starting(FALSE) /\ \A h \in Handlers : task'[h] = nothing
    BY <1>3 DEF restartServer
  <2>2. /\ boot'.found = {} /\ boot'.at = "read" /\ boot'.of = "backup" /\ ~boot'.clean
    BY <2>1, StartingBoot
  <2>3. \A k : ~busy(k)'
    BY <1>2, <2>1 DEF busy, idle
  <2>4. \A h \in Handlers : idle(h)' /\ task'[h].job = None
    BY <1>2, <2>1 DEF idle
  <2>5. OneRequest'
    BY <1>2, <2>3, <2>4 DEF OneRequest
  <2>6. Agrees' /\ FoundOK' /\ TimersOfRequests'
    BY <2>2, <2>4 DEF Agrees, FoundOK, TimersOfRequests
  <2>7. TimersAtRest'
    BY <2>1 DEF TimersAtRest, exact, none, timersOf
  <2>8. \A k \in Jobs : kind'[k] \in Kinds
    BY <1>1 DEF TInv, TypeOK
  <2>9. \A k \in Jobs : unset(k)'
    BY <2>2, <2>8 DEF unset, rank, Kinds
  <2> QED
    BY <1>1, <2>5, <2>6, <2>7, <2>9 DEF EInv, TimedOK
<1>4. CASE restartCloudServer
  <2>1. /\ UNCHANGED <<timers, boot>> /\ \A h \in Handlers : task'[h] = nothing
        /\ disturbed' = [j \in Jobs |-> IF busy(j) THEN disturbed[j] \cup {"lost"}
                                        ELSE disturbed[j]]
    BY <1>4 DEF restartCloudServer
  <2>2. \A k \in Jobs : spoiled(k)
    BY <1>1, <2>1 DEF spoiled, timersOf
  <2>3. \A h \in Handlers : idle(h)' /\ task'[h].job = None
    BY <1>2, <2>1 DEF idle
  <2>4. \A k : ~busy(k)'
    BY <1>2, <2>1 DEF busy, idle
  <2>5. OneRequest'
    BY <1>2, <2>4, <2>3 DEF OneRequest
  <2>6. Agrees' /\ TimersOfRequests'
    BY <2>3 DEF Agrees, TimersOfRequests
  <2>7. FoundOK'
    BY <2>1, <2>2, SpoiledFound
  <2>8. ASSUME NEW k \in Jobs
        PROVE  /\ live(k)' /\ row'[k].enabled /\ disturbed'[k] \subseteq {"left", "kept"} =>
                    \/ unset(k)'
                    \/ timer(k, row'[k].cron) \in timers' /\ (boot'.clean => k \in boot'.set)
               /\ tidy(k)' => (boot'.clean \/ exact(k)') /\ (~cloud' /\ unset(k)' => none(k)')
    <3>1. CASE busy(k)
      BY <2>1, <3>1 DEF tidy
    <3>2. CASE ~busy(k)
      BY <2>2, <3>2, SpoiledRests
    <3> QED
      BY <3>1, <3>2
  <2>9. TimedOK' /\ TimersAtRest'
    BY <2>8 DEF TimedOK, TimersAtRest, timer
  <2> QED
    BY <1>1, <2>5, <2>6, <2>7, <2>9 DEF EInv
<1>5. CASE restartJobs
  <2>1. /\ \A h \in Handlers : task'[h] = interrupted(task[h])
        /\ boot' = starting(TRUE) /\ cloud
        /\ disturbed' = [j \in Jobs |->
             IF \E h \in Handlers : interrupted(task[h]).job = j THEN {"overlap"} ELSE {}]
    BY <1>5 DEF restartJobs
  <2>2. /\ boot'.found = {} /\ boot'.at = "read" /\ boot'.of = "backup" /\ boot'.clean
    BY <2>1, StartingBoot
  <2>3. \A k \in Jobs : "overlap" \notin disturbed'[k] => \A h \in Handlers : task'[h].job # k
    BY <2>1
  <2>4. \A h \in Handlers : ~idle(h)' => task'[h].job \in Jobs
    BY <1>1 DEF TInv, TasksOK, soundTask, idle
  <2>5. OneRequest'
    BY <2>3 DEF OneRequest, busy
  <2>6. Agrees' /\ FoundOK' /\ TimersOfRequests'
    BY <2>2, <2>3, <2>4 DEF Agrees, FoundOK, TimersOfRequests, tidy
  <2>7. TimersAtRest'
    BY <1>1, <2>1, <2>2 DEF TimersAtRest, cloud, rigid
  <2>8. \A k \in Jobs : kind'[k] \in Kinds
    BY <1>1 DEF TInv, TypeOK
  <2>9. \A k \in Jobs : unset(k)'
    BY <2>2, <2>8 DEF unset, rank, Kinds
  <2> QED
    BY <1>1, <2>5, <2>6, <2>7, <2>9 DEF EInv, TimedOK
<1> QED
  BY <1>3, <1>4, <1>5

-----------------------------------------------------------------------------
(* The invariant under the start of a process                              *)

LEMMA Starts ==
  ASSUME EInv, Start
  PROVE  /\ TInv /\ TInv' /\ UNCHANGED <<rigid, row, task>> /\ booting
         /\ \A k \in Jobs : disturbed[k] \subseteq disturbed'[k]
<1>1. UNCHANGED <<rigid, row, task>>
  BY DEF Start, bootRead, bootSetAll, bootSet, bootReread, bootFail, bootReadFail, bootNext,
         cleanQueue, cleanFail, cleaned
<1>2. TInv /\ TInv'
  BY StartKeepsTypes DEF EInv
<1>3. booting
  <2>1. boot.at # "up" \/ boot.found # {} \/ boot.clean
    BY DEF Start, bootRead, bootSetAll, bootSet, bootReread, bootFail, bootReadFail, bootNext,
           cleanQueue, cleanFail, cleaned
  <2> QED
    BY <1>2, <2>1 DEF booting, TInv, BootOK
<1>4. ASSUME NEW k \in Jobs PROVE disturbed[k] \subseteq disturbed'[k]
  <2>1. CASE bootFail
    BY <1>2, <2>1 DEF bootFail, spoil, TInv, TypeOK
  <2>2. CASE ~bootFail
    BY <1>2, <2>2 DEF Start, bootRead, bootSetAll, bootSet, bootReread, bootReadFail,
                      bootNext, cleanQueue, cleanFail
  <2> QED
    BY <2>1, <2>2
<1> QED
  BY <1>1, <1>2, <1>3, <1>4

\* The requests of before a start are no concern of the invariant.
LEMMA StartKeepsTasks ==
  ASSUME EInv, Start
  PROVE  OneRequest' /\ Agrees' /\ TimersOfRequests'
<1>1. /\ TInv /\ UNCHANGED <<rigid, row, task>> /\ booting
      /\ \A k \in Jobs : disturbed[k] \subseteq disturbed'[k]
  BY Starts
<1>2. \A k \in Jobs : "overlap" \notin disturbed'[k] =>
        /\ ~busy(k)
        /\ \A g, h \in Handlers : task[g].job = k /\ task[h].job = k => g = h
  BY <1>1 DEF EInv, OneRequest
<1>3. ASSUME NEW h \in Handlers, ~idle(h)
      PROVE  task[h].job \in Jobs /\ "overlap" \in disturbed'[task[h].job]
  <2>1. task[h].job \in Jobs
    BY <1>1, <1>3 DEF TInv, TasksOK, soundTask, idle
  <2> QED
    BY <1>2, <1>3, <2>1 DEF busy
<1>4. \A h \in Handlers : idle(h)' <=> idle(h)
  BY <1>1 DEF idle
<1>5. \A k \in Jobs : busy(k)' <=> busy(k)
  BY <1>1 DEF busy, idle
<1>6. OneRequest'
  BY <1>1, <1>2, <1>5 DEF OneRequest
<1>7. Agrees' /\ TimersOfRequests'
  BY <1>1, <1>3, <1>4 DEF Agrees, TimersOfRequests, tidy
<1> QED
  BY <1>6, <1>7

\* What the invariant says of the timers of a job at rest.
rests(k) ==
  /\ live(k) /\ row[k].enabled /\ disturbed[k] \subseteq {"left", "kept"} =>
       unset(k) \/ (timer(k, row[k].cron) \in timers /\ (boot.clean => k \in boot.set))
  /\ tidy(k) => (boot.clean \/ exact(k)) /\ (~cloud /\ unset(k) => none(k))

LEMMA Rests ==
  /\ EInv => \A k \in Jobs : ~busy(k) => rests(k)
  /\ (\A k \in Jobs : ~busy(k)' => rests(k)') => TimedOK' /\ TimersAtRest'
BY DEF EInv, TimedOK, TimersAtRest, rests, timer

\* A step of a start that leaves k and its timers alone, but for its turn.
LEMMA Untouched ==
  ASSUME NEW k \in Jobs, rests(k), timersOf(k)' = timersOf(k), UNCHANGED <<rigid, row>>,
         disturbed[k] \subseteq disturbed'[k], boot'.clean = boot.clean,
         boot.set \subseteq boot'.set,
         unset(k)' => unset(k), unset(k) => unset(k)' \/ ~(disturbed'[k] \subseteq {"left", "kept"})
  PROVE  rests(k)'
<1>1. /\ (live(k)' <=> live(k)) /\ (cloud' <=> cloud) /\ (tidy(k)' => tidy(k))
      /\ (exact(k)' <=> exact(k)) /\ (none(k)' <=> none(k)) /\ row' = row
  BY DEF live, cloud, rigid, tidy, exact, none
<1>2. timer(k, row[k].cron) \in timers => timer(k, row[k].cron) \in timers'
  <2>1. timer(k, row[k].cron).job = k
    BY DEF timer
  <2> QED
    BY <2>1 DEF timersOf
<1>3. disturbed'[k] \subseteq {"left", "kept"} => disturbed[k] \subseteq {"left", "kept"}
  OBVIOUS
<1> QED
  BY <1>1, <1>2, <1>3 DEF rests, timer

\* A job whose timer is set.
LEMMA SetRests ==
  ASSUME TInv', FoundOK, NEW f \in boot.found, f.job \in Jobs, UNCHANGED <<rigid, row, disturbed>>,
         timersOf(f.job)' = {timer(f.job, f.cron)} \/ ~tidy(f.job) \/ boot'.clean,
         timer(f.job, f.cron) \in timers', boot'.clean => f.job \in boot'.set,
         boot'.clean => cloud, ~unset(f.job)'
  PROVE  rests(f.job)'
<1>1. PICK k \in Jobs : k = f.job
  OBVIOUS
<1>2. "overlap" \notin disturbed[k] => live(k) /\ row[k].enabled /\ f.cron = row[k].cron
  BY <1>1 DEF FoundOK
<1>3. (live(k)' <=> live(k)) /\ (tidy(k)' <=> tidy(k)) /\ (cloud' <=> cloud)
  BY DEF live, tidy, rigid, cloud
<1>4. ASSUME disturbed'[k] \subseteq {"left", "kept"}
      PROVE  timer(k, row'[k].cron) \in timers' /\ (boot'.clean => k \in boot'.set)
  <2>1. f.cron = row[k].cron
    BY <1>2, <1>4
  <2> QED
    BY <1>1, <2>1
<1>5. ASSUME tidy(k)' PROVE boot'.clean \/ exact(k)'
  <2>1. live(k) /\ row[k].enabled /\ f.cron = row[k].cron
    BY <1>2, <1>3, <1>5 DEF tidy
  <2>2. boot'.clean \/ timersOf(k)' = {timer(k, f.cron)}
    BY <1>1, <1>3, <1>5
  <2> QED
    BY <1>3, <2>1, <2>2 DEF exact, live
<1>6. ~unset(k)'
  BY <1>1 DEF unset
<1>7. rests(k)'
  BY <1>4, <1>5, <1>6 DEF rests, timer
<1> QED
  BY <1>1, <1>7 DEF rests, live, tidy, exact, unset, none, timersOf

LEMMA BootReadKeeps ==
  ASSUME EInv, bootRead
  PROVE  FoundOK' /\ TimedOK' /\ TimersAtRest'
<1>1. /\ TInv /\ TInv' /\ UNCHANGED <<rigid, row, task>>
      /\ \A k \in Jobs : disturbed[k] \subseteq disturbed'[k]
  BY Starts DEF Start
<1>2. /\ boot'.at = "set" /\ boot'.of = boot.of /\ boot.at = "read"
      /\ boot'.set = boot.set /\ boot'.clean = boot.clean
      /\ \A f \in boot'.found : /\ f.job \in due(boot.of) \ skipped(boot.of)
                                /\ f.cron = row[f.job].cron
      /\ \A j \in due(boot.of) \ skipped(boot.of) :
           \E f \in boot'.found : f.job = j /\ f.cron = row[j].cron
      /\ \A j \in Jobs : disturbed'[j] = disturbed[j] \cup
                           (IF j \in skipped(boot.of) THEN {"skipped"} ELSE {})
  BY <1>1, BootReads
<1>3. boot.found = {} /\ timers' = timers
  BY <1>1, <1>2 DEF TInv, BootOK, bootRead
<1>4. FoundOK'
  <2>1. \A f \in boot'.found : live(f.job) /\ row[f.job].enabled /\ f.cron = row[f.job].cron
    BY <1>2 DEF due
  <2> QED
    BY <1>1, <2>1 DEF FoundOK, live
<1>5. ASSUME NEW k \in Jobs, ~busy(k)' PROVE rests(k)'
  <2>1. rests(k)
    BY <1>1, <1>5, Rests DEF busy, idle
  <2>2. unset(k)' => unset(k)
    BY <1>1, <1>2 DEF unset, due, rigid
  <2>3. CASE unset(k) => unset(k)' \/ ~(disturbed'[k] \subseteq {"left", "kept"})
    <3>1. timersOf(k)' = timersOf(k)
      BY <1>3 DEF timersOf
    <3> QED
      BY <1>1, <1>2, <2>1, <2>2, <2>3, <3>1, Untouched
  <2>4. CASE ~(unset(k) => unset(k)' \/ ~(disturbed'[k] \subseteq {"left", "kept"}))
    <3>1. kind[k] = boot.of
      BY <1>1, <1>2, <1>3, <2>4 DEF unset, rigid
    <3>2. k \notin skipped(boot.of)
      BY <1>2, <2>4
    <3>3. k \notin due(boot.of)
      BY <1>2, <2>4, <3>2 DEF unset
    <3>4. ~live(k) \/ ~row[k].enabled
      BY <3>1, <3>3 DEF due
    <3>5. /\ (live(k)' <=> live(k)) /\ (cloud' <=> cloud) /\ (tidy(k)' => tidy(k))
          /\ (exact(k)' <=> exact(k)) /\ (none(k)' <=> none(k))
      BY <1>1, <1>3 DEF live, cloud, rigid, tidy, exact, none, timersOf
    <3> QED
      BY <1>1, <1>2, <2>1, <2>2, <3>4, <3>5 DEF rests
  <2> QED
    BY <2>3, <2>4
<1> QED
  BY <1>4, <1>5, Rests

LEMMA BootSetAllKeeps ==
  ASSUME EInv, bootSetAll
  PROVE  FoundOK' /\ TimedOK' /\ TimersAtRest'
<1>1. TInv /\ TInv' /\ UNCHANGED <<rigid, row, task>>
  BY Starts DEF Start
<1>2. /\ timers' = armedAll(timers, boot.found) /\ disturbed' = disturbed /\ ~cloud
      /\ boot' = [boot EXCEPT !.found = {}] /\ boot \in Boot
  BY <1>1 DEF bootSetAll, TInv, TypeOK
<1>3. /\ boot'.at = boot.at /\ boot'.of = boot.of /\ boot'.found = {}
      /\ boot'.set = boot.set /\ boot'.clean = boot.clean /\ ~boot.clean
  BY <1>1, <1>2 DEF Boot, TInv, BootOK
<1>4. FoundOK'
  BY <1>3 DEF FoundOK
<1>5. /\ \A j \in Jobs : (\A f \in boot.found : f.job # j) => timersOf(j)' = timersOf(j)
      /\ \A f \in boot.found : /\ timer(f.job, f.cron) \in timers'
                               /\ none(f.job) => timersOf(f.job)' = {timer(f.job, f.cron)}
  BY <1>1, <1>2, ArmedAll
<1>6. ASSUME NEW k \in Jobs, ~busy(k)' PROVE rests(k)'
  <2>1. rests(k)
    BY <1>1, <1>6, Rests DEF busy, idle
  <2>2. CASE \A f \in boot.found : f.job # k
    <3>1. timersOf(k)' = timersOf(k)
      BY <1>5, <2>2
    <3>2. unset(k)' <=> unset(k)
      BY <1>1, <1>3, <2>2 DEF unset, rigid
    <3> QED
      BY <1>1, <1>2, <1>3, <2>1, <3>1, <3>2, Untouched
  <2>3. ASSUME NEW f \in boot.found, f.job = k PROVE rests(k)'
    <3>1. unset(k) /\ kind[k] = boot.of /\ boot.at = "set"
      BY <1>1, <2>3 DEF unset, TInv, BootOK
    <3>2. ~unset(f.job)'
      BY <1>1, <1>3, <2>3, <3>1 DEF unset, rigid, rank, TInv, TypeOK, Kinds
    <3>3. tidy(k) => none(k)
      BY <1>2, <2>1, <3>1 DEF rests
    <3>4. timersOf(f.job)' = {timer(f.job, f.cron)} \/ ~tidy(f.job)
      <4>1. none(k) => timersOf(f.job)' = {timer(f.job, f.cron)}
        BY <1>5, <2>3 DEF none, timersOf
      <4> QED
        BY <2>3, <3>3, <4>1 DEF tidy
    <3>5. rests(f.job)'
      BY <1>1, <1>2, <1>3, <1>5, <2>3, <3>2, <3>4, SetRests DEF EInv
    <3>6. k = f.job
      BY <2>3
    <3> QED
      BY <3>5, <3>6 DEF rests, live, tidy, exact, unset, none, timersOf
  <2> QED
    BY <2>2, <2>3
<1> QED
  BY <1>4, <1>6, Rests

LEMMA BootSetKeeps ==
  ASSUME EInv, bootSet
  PROVE  FoundOK' /\ TimedOK' /\ TimersAtRest'
<1>1. TInv /\ TInv' /\ UNCHANGED <<rigid, row, task, disturbed>>
  BY Starts DEF Start, bootSet
<1>2. boot'.at = boot.at /\ boot'.of = boot.of /\ boot'.clean = boot.clean
  BY <1>1, BootSets
<1>3. PICK f \in boot.found :
        /\ f.job \in Jobs /\ f.cron \in Crons
        /\ boot'.found = boot.found \ {f} /\ boot'.set = boot.set \cup {f.job}
        /\ timers' \subseteq Timer /\ timer(f.job, f.cron) \in timers'
        /\ \A k \in Jobs \ {f.job} : timersOf(k)' = timersOf(k)
        /\ none(f.job) => timersOf(f.job)' = {timer(f.job, f.cron)}
        /\ cloud => timersOf(f.job)' = timersOf(f.job) \cup {timer(f.job, f.cron)}
  BY <1>1, BootSets
<1>4. FoundOK'
  BY <1>1, <1>3 DEF EInv, FoundOK, live
<1>5. ASSUME NEW k \in Jobs, ~busy(k)' PROVE rests(k)'
  <2>1. rests(k)
    BY <1>1, <1>5, Rests DEF busy, idle
  <2>2. CASE k # f.job
    <3>1. timersOf(k)' = timersOf(k)
      BY <1>3, <2>2
    <3>2. unset(k)' <=> unset(k)
      BY <1>1, <1>2, <1>3, <2>2 DEF unset, rigid
    <3> QED
      BY <1>1, <1>2, <1>3, <2>1, <3>1, <3>2, Untouched
  <2>3. CASE k = f.job
    <3>1. unset(k) /\ kind[k] = boot.of /\ boot.at = "set"
      BY <1>1, <2>3 DEF unset, TInv, BootOK
    <3>2. ~unset(f.job)'
      BY <1>1, <1>2, <1>3, <2>3, <3>1 DEF unset, rigid, rank, TInv, TypeOK, Kinds, BootOK
    <3>3. timersOf(f.job)' = {timer(f.job, f.cron)} \/ ~tidy(f.job) \/ boot'.clean
      <4> SUFFICES ASSUME tidy(f.job), ~boot.clean
                   PROVE  timersOf(f.job)' = {timer(f.job, f.cron)}
        BY <1>2
      <4>0. tidy(k)
        BY <2>3 DEF tidy
      <4>1. exact(k) /\ (~cloud => none(k))
        BY <2>1, <3>1, <4>0 DEF rests
      <4>2. f.cron = row[k].cron
        BY <2>3, <4>0 DEF EInv, FoundOK, tidy
      <4>3. timersOf(k) \subseteq {timer(f.job, f.cron)}
        BY <2>3, <4>1, <4>2 DEF exact
      <4>4. timersOf(k) = timersOf(f.job) /\ (none(k) <=> none(f.job))
        BY <2>3 DEF timersOf, none
      <4> QED
        BY <1>3, <4>1, <4>3, <4>4
    <3>4. rests(f.job)'
      BY <1>1, <1>2, <1>3, <3>2, <3>3, SetRests DEF EInv, TInv, BootOK
    <3> QED
      BY <2>3, <3>4 DEF rests, live, tidy, exact, unset, none, timersOf
  <2> QED
    BY <2>2, <2>3
<1> QED
  BY <1>4, <1>5, Rests

LEMMA BootRereadKeeps ==
  ASSUME EInv, bootReread
  PROVE  FoundOK' /\ TimedOK' /\ TimersAtRest'
<1>1. TInv /\ TInv' /\ UNCHANGED <<rigid, row, task, disturbed, timers>>
  BY Starts DEF Start, bootReread
<1>2. boot'.at = boot.at /\ boot'.of = boot.of /\ boot'.clean = boot.clean
      /\ boot'.set = boot.set
  BY <1>1, BootRereads
<1>3. PICK f \in boot.found :
        /\ ~live(f.job) => boot'.found = boot.found \ {f}
        /\ live(f.job) => \E g \in Found :
             /\ g.job = f.job /\ g.cron = row[f.job].cron
             /\ boot'.found = (boot.found \ {f}) \cup {g}
  BY <1>1, BootRereads
<1>4. "overlap" \notin disturbed[f.job] => live(f.job) /\ row[f.job].enabled
  BY DEF EInv, FoundOK
<1>5. FoundOK'
  <2>1. ASSUME NEW g \in boot'.found, "overlap" \notin disturbed[g.job]
        PROVE  live(g.job) /\ row[g.job].enabled /\ g.cron = row[g.job].cron
    <3>1. CASE g \in boot.found
      BY <2>1, <3>1 DEF EInv, FoundOK
    <3>2. CASE g \notin boot.found
      <4>1. g.job = f.job /\ g.cron = row[f.job].cron
        BY <1>3, <2>1, <3>2
      <4> QED
        BY <1>4, <2>1, <4>1 DEF live
    <3> QED
      BY <3>1, <3>2
  <2> QED
    BY <1>1, <2>1 DEF FoundOK, live
<1>6. ASSUME NEW k \in Jobs, ~busy(k)' PROVE rests(k)'
  <2>1. rests(k)
    BY <1>1, <1>6, Rests DEF busy, idle
  <2>2. timersOf(k)' = timersOf(k)
    BY <1>1 DEF timersOf
  <2>3. unset(k)' => unset(k)
    BY <1>1, <1>2, <1>3 DEF unset, rigid
  <2>4. unset(k) => unset(k)' \/ ~(disturbed'[k] \subseteq {"left", "kept"})
    <3>1. CASE disturbed'[k] \subseteq {"left", "kept"}
      <4>1. "overlap" \notin disturbed[k]
        BY <1>1, <3>1
      <4>2. \A g \in boot.found : g.job = k => \E i \in boot'.found : i.job = k
        BY <1>3, <1>4, <4>1
      <4> QED
        BY <1>1, <1>2, <4>2 DEF unset, rigid
    <3> QED
      BY <3>1
  <2> QED
    BY <1>1, <1>2, <2>1, <2>2, <2>3, <2>4, Untouched
<1> QED
  BY <1>5, <1>6, Rests

LEMMA BootFailKeeps ==
  ASSUME EInv, bootFail
  PROVE  FoundOK' /\ TimedOK' /\ TimersAtRest'
<1>1. /\ TInv /\ TInv' /\ UNCHANGED <<rigid, row, task, timers>>
      /\ \A k \in Jobs : disturbed[k] \subseteq disturbed'[k]
  BY Starts DEF Start, bootFail
<1>2. PICK f \in boot.found :
        boot' = [boot EXCEPT !.found = @ \ {f}] /\ spoil(f.job, "lost")
  BY DEF bootFail
<1>3. /\ boot'.at = boot.at /\ boot'.of = boot.of /\ boot'.clean = boot.clean
      /\ boot'.set = boot.set /\ boot'.found = boot.found \ {f}
  BY <1>1, <1>2 DEF TInv, TypeOK, Boot
<1>4. FoundOK'
  <2>1. \A g \in boot'.found : g \in boot.found /\ g.job \in Jobs
    BY <1>1, <1>3 DEF TInv, TypeOK, Boot, Found
  <2> QED
    BY <1>1, <2>1 DEF EInv, FoundOK, live
<1>5. ASSUME NEW k \in Jobs, ~busy(k)' PROVE rests(k)'
  <2>1. rests(k)
    BY <1>1, <1>5, Rests DEF busy, idle
  <2>2. timersOf(k)' = timersOf(k)
    BY <1>1 DEF timersOf
  <2>3. unset(k)' => unset(k)
    BY <1>1, <1>3 DEF unset, rigid
  <2>4. unset(k) => unset(k)' \/ ~(disturbed'[k] \subseteq {"left", "kept"})
    <3>1. CASE k = f.job
      <4>1. "lost" \in disturbed'[k]
        BY <1>1, <1>2, <3>1 DEF spoil, TInv, TypeOK
      <4> QED
        BY <4>1
    <3>2. CASE k # f.job
      BY <1>1, <1>3, <3>2 DEF unset, rigid
    <3> QED
      BY <3>1, <3>2
  <2> QED
    BY <1>1, <1>3, <2>1, <2>2, <2>3, <2>4, Untouched
<1> QED
  BY <1>4, <1>5, Rests

LEMMA BootNextKeeps ==
  ASSUME EInv, bootNext
  PROVE  FoundOK' /\ TimedOK' /\ TimersAtRest'
<1>1. TInv /\ TInv' /\ UNCHANGED <<rigid, row, task, timers, disturbed>>
  BY Starts DEF Start, bootNext
<1>2. /\ boot' = [boot EXCEPT !.at = IF lastKind(boot.of) THEN "up" ELSE "read",
                          !.of = IF @ = "backup" THEN "schedule" ELSE "volume"]
      /\ boot.at = "set" /\ boot.found = {} /\ boot \in Boot
  BY <1>1 DEF bootNext, TInv, TypeOK
<1>3. /\ boot'.found = {} /\ boot'.set = boot.set /\ boot'.clean = boot.clean
      /\ boot'.at = IF boot.of = "volume" THEN "up" ELSE "read"
      /\ boot'.of = IF boot.of = "backup" THEN "schedule" ELSE "volume"
      /\ boot.of \in Kinds
  BY <1>2 DEF Boot, lastKind
<1>4. FoundOK'
  BY <1>3 DEF FoundOK
<1>5. ASSUME NEW k \in Jobs, ~busy(k)' PROVE rests(k)'
  <2>1. rests(k)
    BY <1>1, <1>5, Rests DEF busy, idle
  <2>2. timersOf(k)' = timersOf(k) /\ kind[k] \in Kinds /\ kind' = kind
    BY <1>1 DEF timersOf, TInv, TypeOK, rigid
  <2>3. unset(k)' <=> unset(k)
    BY <1>2, <1>3, <2>2 DEF unset, rank, Kinds
  <2> QED
    BY <1>1, <1>3, <2>1, <2>2, <2>3, Untouched
<1> QED
  BY <1>4, <1>5, Rests

LEMMA CleanQueueKeeps ==
  ASSUME EInv, cleanQueue
  PROVE  FoundOK' /\ TimedOK' /\ TimersAtRest'
<1>1. /\ TInv /\ TInv' /\ UNCHANGED <<rigid, row, task>>
      /\ \A k \in Jobs : disturbed[k] \subseteq disturbed'[k]
  BY Starts DEF Start
<1>2. /\ timers' = {} /\ boot' = [boot EXCEPT !.clean = FALSE] /\ boot.clean
      /\ disturbed' = [j \in Jobs |-> IF j \in boot.set THEN disturbed[j] \cup {"wiped"}
                                      ELSE disturbed[j]]
  BY DEF cleanQueue, cleaned
<1>3. /\ boot'.at = boot.at /\ boot'.of = boot.of /\ ~boot'.clean
      /\ boot'.set = boot.set /\ boot'.found = boot.found /\ cloud
  BY <1>1, <1>2 DEF TInv, TypeOK, Boot, BootOK
<1>4. FoundOK'
  <2>1. \A f \in boot.found : f.job \in Jobs
    BY <1>1 DEF TInv, TypeOK, Boot, Found
  <2> QED
    BY <1>1, <1>3, <2>1 DEF EInv, FoundOK, live
<1>5. ASSUME NEW k \in Jobs, ~busy(k)' PROVE rests(k)'
  <2>1. rests(k)
    BY <1>1, <1>5, Rests DEF busy, idle
  <2>2. none(k)' /\ exact(k)'
    BY <1>2 DEF none, exact, timersOf
  <2>3. ASSUME live(k)', row'[k].enabled, disturbed'[k] \subseteq {"left", "kept"} PROVE unset(k)'
    <3>1. k \notin boot.set
      BY <1>2, <2>3
    <3>2. unset(k)
      BY <1>1, <1>2, <2>1, <2>3, <3>1 DEF rests, live
    <3> QED
      BY <1>1, <1>3, <3>2 DEF unset, rigid
  <2> QED
    BY <2>2, <2>3 DEF rests
<1> QED
  BY <1>4, <1>5, Rests

LEMMA CleanFailKeeps ==
  ASSUME EInv, cleanFail
  PROVE  FoundOK' /\ TimedOK' /\ TimersAtRest'
<1>1. /\ TInv /\ TInv' /\ UNCHANGED <<rigid, row, task>>
      /\ \A k \in Jobs : disturbed[k] \subseteq disturbed'[k]
  BY Starts DEF Start
<1>2. /\ timers' = timers /\ boot' = [boot EXCEPT !.clean = FALSE] /\ boot.clean
      /\ disturbed' = [j \in Jobs |-> IF timersOf(j) # {} THEN disturbed[j] \cup {"kept"}
                                      ELSE disturbed[j]]
  BY DEF cleanFail, cleaned
<1>3. /\ boot'.at = boot.at /\ boot'.of = boot.of /\ ~boot'.clean
      /\ boot'.set = boot.set /\ boot'.found = boot.found /\ cloud
  BY <1>1, <1>2 DEF TInv, TypeOK, Boot, BootOK
<1>4. FoundOK'
  <2>1. \A f \in boot.found : f.job \in Jobs
    BY <1>1 DEF TInv, TypeOK, Boot, Found
  <2> QED
    BY <1>1, <1>3, <2>1 DEF EInv, FoundOK, live
<1>5. ASSUME NEW k \in Jobs, ~busy(k)' PROVE rests(k)'
  <2>1. rests(k)
    BY <1>1, <1>5, Rests DEF busy, idle
  <2>2. (live(k)' <=> live(k)) /\ (unset(k)' <=> unset(k)) /\ (cloud' <=> cloud)
        /\ timersOf(k)' = timersOf(k)
    BY <1>1, <1>2, <1>3 DEF live, unset, cloud, rigid, timersOf
  <2>3. tidy(k)' => none(k)' /\ exact(k)'
    <3>1. tidy(k)' => timersOf(k) = {}
      BY <1>2 DEF tidy
    <3> QED
      BY <2>2, <3>1 DEF none, exact
  <2>4. ASSUME live(k)', row'[k].enabled, disturbed'[k] \subseteq {"left", "kept"}
        PROVE  unset(k)' \/ timer(k, row'[k].cron) \in timers'
    <3>1. disturbed[k] \subseteq {"left", "kept"}
      BY <1>1, <2>4
    <3> QED
      BY <1>1, <1>2, <2>1, <2>2, <2>4, <3>1 DEF rests
  <2> QED
    BY <1>3, <2>2, <2>3, <2>4 DEF rests, timer
<1> QED
  BY <1>4, <1>5, Rests

LEMMA BootReadFailKeeps ==
  ASSUME EInv, bootReadFail
  PROVE  FoundOK' /\ TimedOK' /\ TimersAtRest'
<1>1. /\ TInv /\ TInv' /\ UNCHANGED <<rigid, row, task, timers>>
      /\ \A k \in Jobs : disturbed[k] \subseteq disturbed'[k]
  BY Starts DEF Start, bootReadFail
<1>2. /\ boot' = [boot EXCEPT !.at = IF givesUp THEN "up" ELSE "set"] /\ boot.at = "read"
      /\ disturbed' = [j \in Jobs |-> IF j \in missed THEN disturbed[j] \cup {"lost"}
                                      ELSE disturbed[j]]
  BY DEF bootReadFail
<1>3. /\ boot'.at = (IF givesUp THEN "up" ELSE "set") /\ boot'.of = boot.of
      /\ boot'.clean = boot.clean /\ boot'.set = boot.set
      /\ boot'.found = {} /\ boot.found = {}
  BY <1>1, <1>2 DEF TInv, TypeOK, Boot, BootOK
<1>4. FoundOK'
  BY <1>3 DEF FoundOK
<1>5. ASSUME NEW k \in Jobs, ~busy(k)' PROVE rests(k)'
  <2>1. rests(k)
    BY <1>1, <1>5, Rests DEF busy, idle
  <2>2. timersOf(k)' = timersOf(k) /\ kind' = kind
    BY <1>1 DEF timersOf, rigid
  <2>3. unset(k)' => unset(k)
    BY <1>2, <1>3, <2>2 DEF unset
  <2>4. CASE unset(k) => unset(k)' \/ ~(disturbed'[k] \subseteq {"left", "kept"})
    BY <1>1, <1>3, <2>1, <2>2, <2>3, <2>4, Untouched
  <2>5. CASE ~(unset(k) => unset(k)' \/ ~(disturbed'[k] \subseteq {"left", "kept"}))
    <3>1. k \notin missed
      BY <1>2, <2>5
    <3>2. kind[k] = boot.of \/ (givesUp /\ rank(kind[k]) > rank(boot.of))
      BY <1>2, <1>3, <2>2, <2>5 DEF unset
    <3>3. ~live(k) \/ ~row[k].enabled
      BY <3>1, <3>2 DEF missed, due
    <3>4. /\ (live(k)' <=> live(k)) /\ (cloud' <=> cloud) /\ (tidy(k)' => tidy(k))
          /\ (exact(k)' <=> exact(k)) /\ (none(k)' <=> none(k)) /\ row' = row
      BY <1>1, <2>2 DEF live, cloud, rigid, tidy, exact, none
    <3> QED
      BY <1>3, <2>1, <2>3, <3>3, <3>4 DEF rests
  <2> QED
    BY <2>4, <2>5
<1> QED
  BY <1>4, <1>5, Rests

LEMMA StartKeeps ==
  ASSUME EInv, Start
  PROVE  EInv'
<1>1. TInv' /\ OneRequest' /\ Agrees' /\ TimersOfRequests'
  BY Starts, StartKeepsTasks
<1>2. FoundOK' /\ TimedOK' /\ TimersAtRest'
  BY BootReadKeeps, BootSetAllKeeps, BootSetKeeps, BootRereadKeeps, BootFailKeeps,
     BootReadFailKeeps, BootNextKeeps, CleanQueueKeeps, CleanFailKeeps DEF Start
<1> QED
  BY <1>1, <1>2 DEF EInv

-----------------------------------------------------------------------------
LEMMA InitInv == Init => EInv
<1> SUFFICES ASSUME Init PROVE EInv
  OBVIOUS
<1>1. TInv
  BY InitTypes
<1>2. \A h \in Handlers : task[h] = nothing
  BY DEF Init
<1>3. nothing.job = None /\ None \notin Jobs /\ nothing.op = "none"
  BY CronsAssumption DEF nothing
<1>4. boot.found = {} /\ boot.at = "up" /\ ~boot.clean
  BY DEF Init, running
<1>5. \A j \in Jobs : row[j].state = "new"
  BY DEF Init
<1>6. \A h \in Handlers : idle(h) /\ task[h].job = None
  BY <1>2, <1>3 DEF idle
<1>7. OneRequest /\ Agrees /\ TimersOfRequests
  BY <1>3, <1>6 DEF OneRequest, Agrees, TimersOfRequests, busy
<1>8. FoundOK /\ TimedOK
  BY <1>4, <1>5 DEF FoundOK, TimedOK, live
<1>9. TimersAtRest
  BY DEF Init, TimersAtRest, exact, none, timersOf
<1> QED
  BY <1>1, <1>7, <1>8, <1>9 DEF EInv

LEMMA NextInv == EInv /\ [Next]_vars => EInv'
<1> SUFFICES ASSUME EInv, [Next]_vars PROVE EInv'
  OBVIOUS
<1>1. CASE \E h \in Handlers : Handle(h)
  <2>1. PICK h \in Handlers : request(h) \/ Work(h)
    BY <1>1 DEF Handle, Work
  <2> QED
    BY <2>1, RequestKeeps, WorkKeeps
<1>2. CASE restartServer \/ restartCloudServer \/ restartJobs
  BY <1>2, RestartsKeep
<1>3. CASE Start
  BY <1>3, StartKeeps
<1>4. CASE UNCHANGED vars
  <2>1. TInv'
    BY <1>4, NextTypes DEF EInv
  <2>2. OneRequest' /\ Agrees' /\ FoundOK'
    BY <1>4 DEF vars, rigid, EInv, OneRequest, Agrees, FoundOK, busy, idle, booting, agreed,
                live
  <2>3. TimedOK' /\ TimersAtRest'
    BY <1>4 DEF vars, rigid, EInv, TimedOK, TimersAtRest, busy, idle, live, unset, tidy,
                exact, none, timersOf, cloud
  <2>4. TimersOfRequests'
    BY <1>4 DEF vars, rigid, EInv, TimersOfRequests, idle, tidy, fits, exact, none, timersOf,
                live, cloud
  <2> QED
    BY <2>1, <2>2, <2>3, <2>4 DEF EInv
<1> QED
  BY <1>1, <1>2, <1>3, <1>4 DEF Next

\* In both editions an enabled job that no request is busy with has its timer: it is
\* missed only after an overlap of requests, a call or a reading of rows that failed,
\* a clean-up of the queue that came late, or a creation or a start with its server
\* inactive.
THEOREM EnabledTimed == Spec => []EnabledIsTimed
<1>1. EInv => EnabledIsTimed
  <2> SUFFICES ASSUME EInv, NEW j \in Jobs, settled(j), live(j), row[j].enabled,
                      disturbed[j] \subseteq {"left", "kept"}
               PROVE  timer(j, row[j].cron) \in timers
    BY DEF EnabledIsTimed
  <2>1. boot.at = "up" /\ boot.found = {} /\ ~busy(j)
    BY DEF settled, booting, EInv, TInv, BootOK
  <2>2. ~unset(j)
    BY <2>1 DEF unset
  <2> QED
    BY <2>1, <2>2 DEF EInv, TimedOK
<1> QED
  BY <1>1, InitInv, NextInv, PTL DEF Spec

\* No job that no request is busy with has a timer but that of its row, and none when
\* it is disabled or gone, unless one of the named events came between.
THEOREM NoStray == Spec => []NoStrayTimer
<1>1. EInv => NoStrayTimer
  <2> SUFFICES ASSUME EInv, NEW j \in Jobs, settled(j),
                      disturbed[j] \subseteq {"skipped", "wiped"},
                      ~(cloud /\ kind[j] = "schedule")
               PROVE  exact(j)
    BY DEF NoStrayTimer, exact
  <2>1. tidy(j) /\ ~busy(j) /\ ~boot.clean
    BY DEF tidy, settled, booting
  <2> QED
    BY <2>1 DEF EInv, TimersAtRest
<1> QED
  BY <1>1, InitInv, NextInv, PTL DEF Spec
=============================================================================
