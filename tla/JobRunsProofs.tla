--------------------------- MODULE JobRunsProofs ---------------------------
(***************************************************************************)
(* Proofs about JobRuns, for any number of jobs, runs and replicas and any *)
(* interleaving of the runs: the types, the scale of the service, the      *)
(* reasons of failures, the rows and what the retention keeps.             *)
(***************************************************************************)
EXTENDS JobRuns, FiniteSetTheorems, TLAPS

-----------------------------------------------------------------------------
(* What the steps do to the record of a run                                *)

LEMMA Runners == nobody \in Jobs /\ \A j \in Jobs : nowhere(j) \in Run
<1>1. 0 \in 0..MaxRuns /\ 0 \in 0..MaxScale
  BY BoundsAssumption
<1> QED
  BY <1>1, JobsAssumption DEF nobody, nowhere, Run, Stages, Scale

LEMMA Goes ==
  ASSUME TypeOK, NEW r \in Runs, NEW x \in Run, continue(r, x)
  PROVE  /\ run' \in [Runs -> Run] /\ run'[r] = x
         /\ \A s \in Runs \ {r} : run'[s] = run[s]
BY DEF TypeOK, continue

LEMMA GoesTo ==
  ASSUME TypeOK, NEW r \in Runs, NEW stage \in Stages, goto(r, stage)
  PROVE  /\ run' \in [Runs -> Run]
         /\ run'[r].at = stage /\ run'[r].job = run[r].job
         /\ run'[r].stamp = run[r].stamp /\ run'[r].saved = run[r].saved
         /\ run'[r].ok = run[r].ok /\ run'[r].todo = run[r].todo
         /\ \A s \in Runs \ {r} : run'[s] = run[s]
<1>1. run[r] \in Run
  BY DEF TypeOK
<1> DEFINE x == [run[r] EXCEPT !.at = stage]
<1>2. /\ x \in Run /\ x.at = stage /\ x.job = run[r].job
      /\ x.stamp = run[r].stamp /\ x.saved = run[r].saved
      /\ x.ok = run[r].ok /\ x.todo = run[r].todo
  BY <1>1 DEF Run
<1>3. continue(r, x)
  BY DEF goto
<1> HIDE DEF x
<1> QED
  BY <1>2, <1>3, Goes

\* The number a run stamps its archive with is a number of runs.
LEMMA StampInBounds ==
  ASSUME TypeOK, StagesOK, NEW r \in Runs, at(r, "row")
  PROVE  1 + Cardinality({s \in Runs : run[s].stamp # 0}) \in 0..MaxRuns
<1> DEFINE S == {s \in Runs : run[s].stamp # 0}
<1>1. IsFiniteSet(Runs) /\ Cardinality(Runs) = MaxRuns
  BY BoundsAssumption, FS_Interval DEF Runs
<1>2. IsFiniteSet(Runs \ {r}) /\ Cardinality(Runs \ {r}) = MaxRuns - 1
  BY <1>1, FS_RemoveElement
<1>3. S \subseteq Runs \ {r}
  BY DEF StagesOK, at
<1>4. IsFiniteSet(S) /\ Cardinality(S) <= MaxRuns - 1
  BY <1>2, <1>3, FS_Subset
<1>5. Cardinality(S) \in Nat
  BY <1>4, FS_CardinalityType
<1> HIDE DEF S
<1>6. 1 + Cardinality(S) \in 0..MaxRuns
  BY <1>4, <1>5, BoundsAssumption
<1> QED
  BY <1>6 DEF S

-----------------------------------------------------------------------------
(* Types, stages and the lock                                              *)

TInv == TypeOK /\ StagesOK /\ LockOK

\* Run r goes on at the stage; whatever else it knew is as it was.
stays(r, stage) ==
  /\ run'[r].at = stage /\ run'[r].saved = run[r].saved
  /\ run'[r].ok = run[r].ok /\ run'[r].todo = run[r].todo

sameName(r) == run'[r].job = run[r].job /\ run'[r].stamp = run[r].stamp

others(r) == run' \in [Runs -> Run] /\ \A s \in Runs \ {r} : run'[s] = run[s]

LEMMA InsertRowMoves ==
  ASSUME TInv, NEW r \in Runs, insertRow(r)
  PROVE  /\ others(r) /\ stays(r, afterRow(r)) /\ run'[r].job = run[r].job
<1> DEFINE x == [run[r] EXCEPT !.at = afterRow(r),
                  !.stamp = 1 + Cardinality({s \in Runs : run[s].stamp # 0})]
<1>1. run[r] \in Run /\ afterRow(r) \in Stages
  BY DEF TInv, TypeOK, afterRow, Stages, Locked
<1>2. 1 + Cardinality({s \in Runs : run[s].stamp # 0}) \in 0..MaxRuns
  BY StampInBounds DEF TInv, insertRow
<1>3. /\ x \in Run /\ x.at = afterRow(r) /\ x.job = run[r].job
      /\ x.saved = run[r].saved /\ x.ok = run[r].ok /\ x.todo = run[r].todo
  BY <1>1, <1>2 DEF Run
<1>4. continue(r, x)
  BY DEF insertRow
<1> HIDE DEF x
<1> QED
  BY <1>3, <1>4, Goes DEF TInv, stays, others

LEMMA InspectMoves ==
  ASSUME TInv, NEW r \in Runs, inspect(r)
  PROVE  /\ others(r) /\ sameName(r)
         /\ run'[r].at = "stop" /\ run'[r].saved = replicas
         /\ run'[r].ok = run[r].ok /\ run'[r].todo = run[r].todo
<1> DEFINE x == [run[r] EXCEPT !.at = "stop", !.saved = replicas]
<1>1. run[r] \in Run /\ replicas \in Scale
  BY DEF TInv, TypeOK
<1>2. /\ x \in Run /\ x.at = "stop" /\ x.job = run[r].job /\ x.stamp = run[r].stamp
      /\ x.saved = replicas /\ x.ok = run[r].ok /\ x.todo = run[r].todo
  BY <1>1 DEF Run, Stages, Locked
<1>3. continue(r, x)
  BY DEF inspect
<1> HIDE DEF x
<1> QED
  BY <1>2, <1>3, Goes DEF TInv, sameName, others

LEMMA StartMoves ==
  ASSUME TInv, NEW r \in Runs, start(r)
  PROVE  /\ others(r) /\ sameName(r)
         /\ run'[r].at = IF run[r].ok THEN "upload" ELSE "clean"
         /\ run'[r].saved = 0 /\ run'[r].ok = TRUE /\ run'[r].todo = run[r].todo
<1> DEFINE stage == IF run[r].ok THEN "upload" ELSE "clean"
           x == [run[r] EXCEPT !.at = stage, !.saved = 0, !.ok = TRUE]
<1>1. run[r] \in Run /\ 0 \in Scale
  BY BoundsAssumption DEF TInv, TypeOK, Scale
<1>2. stage \in Stages
  BY DEF Stages, Locked
<1>3. continue(r, x)
  BY DEF start
<1> HIDE DEF stage
<1>4. /\ x \in Run /\ x.at = stage /\ x.job = run[r].job /\ x.stamp = run[r].stamp
      /\ x.saved = 0 /\ x.ok = TRUE /\ x.todo = run[r].todo
  BY <1>1, <1>2 DEF Run
<1> HIDE DEF x
<1>5. others(r) /\ run'[r] = x
  BY <1>3, <1>4, Goes DEF TInv, others
<1> QED
  BY <1>4, <1>5 DEF sameName, stage

LEMMA ListMoves ==
  ASSUME TInv, NEW r \in Runs, list(r)
  PROVE  /\ others(r) /\ sameName(r)
         /\ run'[r].at = "delete" /\ run'[r].saved = run[r].saved /\ run'[r].ok = run[r].ok
         /\ run'[r].todo = beyond(matched(jobOf(r)), Keep[jobOf(r)])
<1> DEFINE todo == beyond(matched(jobOf(r)), Keep[jobOf(r)])
           x == [run[r] EXCEPT !.at = "delete", !.todo = todo]
<1>1. run[r] \in Run
  BY DEF TInv, TypeOK
<1>2. todo \subseteq Runs
  BY DEF beyond, matched, TInv, TypeOK, begun
<1>3. continue(r, x)
  BY DEF list
<1> HIDE DEF todo
<1>4. /\ x \in Run /\ x.at = "delete" /\ x.job = run[r].job /\ x.stamp = run[r].stamp
      /\ x.saved = run[r].saved /\ x.ok = run[r].ok /\ x.todo = todo
  BY <1>1, <1>2 DEF Run, Stages, Locked
<1> HIDE DEF x
<1>5. others(r) /\ run'[r] = x
  BY <1>3, <1>4, Goes DEF TInv, others
<1> QED
  BY <1>4, <1>5 DEF sameName, todo

LEMMA DeleteMoves ==
  ASSUME TInv, NEW r \in Runs, delete(r)
  PROVE  /\ others(r) /\ sameName(r)
         /\ run'[r].at = afterRetention /\ run'[r].saved = run[r].saved
         /\ run'[r].ok = run[r].ok /\ run'[r].todo = {}
<1> DEFINE x == [run[r] EXCEPT !.at = afterRetention, !.todo = {}]
<1>1. run[r] \in Run /\ afterRetention \in Stages
  BY DEF TInv, TypeOK, afterRetention, Stages, Locked
<1>2. /\ x \in Run /\ x.at = afterRetention /\ x.job = run[r].job /\ x.stamp = run[r].stamp
      /\ x.saved = run[r].saved /\ x.ok = run[r].ok /\ x.todo = {}
  BY <1>1 DEF Run
<1>3. continue(r, x)
  BY DEF delete
<1> HIDE DEF x
<1> QED
  BY <1>2, <1>3, Goes DEF TInv, sameName, others

\* A command that fails: only a run that is archiving goes on to start the service.
LEMMA FailMoves ==
  ASSUME TInv, NEW r \in Runs, fail(r)
  PROVE  /\ others(r) /\ sameName(r) /\ run'[r].at \in onFailure(r)
         /\ run'[r].at = "start" =>
              /\ run'[r].saved = run[r].saved /\ run'[r].ok = FALSE
              /\ run'[r].todo = run[r].todo /\ lock' = lock
         /\ run'[r].at # "start" =>
              /\ run'[r].saved = 0 /\ run'[r].ok = TRUE /\ run'[r].todo = {}
              /\ lock' = released(r)
<1>1. run[r] \in Run /\ 0 \in Scale
  BY BoundsAssumption DEF TInv, TypeOK, Scale
<1>2. onFailure(r) \subseteq Stages
  BY DEF onFailure, afterRetention, Stages, Locked
<1>3. PICK stage \in onFailure(r) :
        /\ continue(r, IF stage = "start" THEN [run[r] EXCEPT !.at = "start", !.ok = FALSE]
                       ELSE left(r, stage))
        /\ lock' = IF stage = "start" THEN lock ELSE released(r)
  BY DEF fail
<1>4. CASE stage = "start"
  <2> DEFINE x == [run[r] EXCEPT !.at = "start", !.ok = FALSE]
  <2>1. /\ x \in Run /\ x.at = "start" /\ x.job = run[r].job /\ x.stamp = run[r].stamp
        /\ x.saved = run[r].saved /\ x.ok = FALSE /\ x.todo = run[r].todo
    BY <1>1 DEF Run, Stages, Locked
  <2>2. continue(r, x) /\ lock' = lock
    BY <1>3, <1>4
  <2> HIDE DEF x
  <2> QED
    BY <1>3, <1>4, <2>1, <2>2, Goes DEF TInv, sameName, others
<1>5. CASE stage # "start"
  <2> DEFINE x == left(r, stage)
  <2>1. /\ x \in Run /\ x.at = stage /\ x.job = run[r].job
        /\ x.stamp = run[r].stamp
        /\ x.saved = 0 /\ x.ok = TRUE /\ x.todo = {}
    BY <1>1, <1>2 DEF Run, left
  <2>2. continue(r, x) /\ lock' = released(r)
    BY <1>3, <1>5
  <2> HIDE DEF x
  <2> QED
    BY <1>3, <1>5, <2>1, <2>2, Goes DEF TInv, sameName, others
<1> QED
  BY <1>4, <1>5

LEMMA BeginMoves ==
  ASSUME TInv, begin
  PROVE  \E r \in Runs, j \in Jobs :
           /\ at(r, "none") /\ others(r)
           /\ run'[r].at = (IF scheduled THEN "supersede" ELSE "row")
           /\ run'[r].job = j /\ run'[r].stamp = 0 /\ run'[r].saved = 0
           /\ run'[r].ok = TRUE /\ run'[r].todo = {}
<1>1. PICK r \in Runs, j \in Jobs :
        /\ at(r, "none")
        /\ continue(r, [nowhere(j) EXCEPT !.at = IF scheduled THEN "supersede" ELSE "row"])
  BY DEF begin
<1> DEFINE stage == IF scheduled THEN "supersede" ELSE "row"
           x == [nowhere(j) EXCEPT !.at = stage]
<1>2. stage \in Stages
  BY DEF Stages
<1>3. continue(r, x)
  BY <1>1
<1> HIDE DEF stage
<1>4. /\ x \in Run /\ x.at = stage /\ x.job = j /\ x.stamp = 0
      /\ x.saved = 0 /\ x.ok = TRUE /\ x.todo = {}
  BY <1>2, Runners DEF Run, nowhere
<1> HIDE DEF x
<1>5. others(r) /\ run'[r] = x
  BY <1>3, <1>4, Goes DEF TInv, others
<1> QED
  BY <1>1, <1>4, <1>5 DEF stage

LEMMA RestartMoves ==
  ASSUME TInv, restart
  PROVE  /\ run' \in [Runs -> Run]
         /\ \A r \in Runs :
              /\ sameName(r)
              /\ over(r) => run'[r] = run[r]
              /\ ~over(r) => /\ run'[r].at = "dead" /\ run'[r].saved = 0
                             /\ run'[r].ok = TRUE /\ run'[r].todo = {}
<1>1. ASSUME NEW r \in Runs
      PROVE  LET x == left(r, "dead") IN
               /\ x \in Run /\ x.at = "dead" /\ x.job = run[r].job
               /\ x.stamp = run[r].stamp
               /\ x.saved = 0 /\ x.ok = TRUE /\ x.todo = {}
  <2>1. run[r] \in Run /\ 0 \in Scale
    BY BoundsAssumption DEF TInv, TypeOK, Scale
  <2> QED
    BY <2>1 DEF Run, left, Stages
<1>2. run' = [r \in Runs |-> IF over(r) THEN run[r] ELSE left(r, "dead")]
  BY DEF restart
<1>3. \A r \in Runs : run[r] \in Run
  BY DEF TInv, TypeOK
<1> QED
  BY <1>1, <1>2, <1>3 DEF sameName

\* What every action of a run makes of its record.
LEMMA Moves ==
  ASSUME TInv, NEW r \in Runs, Step(r) \/ fail(r)
  PROVE  /\ others(r)
         /\ run'[r].job = run[r].job
         /\ at(r, "row") \/ run'[r].stamp = run[r].stamp
         /\ supersede(r) => stays(r, "row")
         /\ insertRow(r) => stays(r, afterRow(r))
         /\ find(r) => stays(r, "upload")
         /\ unload(r) => stays(r, "notifyError")
         /\ takeLock(r) => stays(r, "inspect")
         /\ stop(r) => stays(r, "tar")
         /\ tar(r) => stays(r, IF offTurning(r) THEN "start" ELSE "upload")
         /\ upload(r) => stays(r, IF kind = "volume" THEN "remove" ELSE "notify")
         /\ remove(r) => stays(r, IF retains(r) THEN "list" ELSE "status")
         /\ missArchive(r) => stays(r, "clean")
         /\ proceed(r) => stays(r, "status")
         /\ status(r) => stays(r, IF kind = "backup" /\ retains(r) THEN "list" ELSE "end")
         /\ clean(r) \/ notifyError(r) => stays(r, "error")
         /\ error(r) => stays(r, "end")
<1>1. ASSUME NEW stage \in Stages, goto(r, stage)
      PROVE  others(r) /\ sameName(r) /\ stays(r, stage)
  BY <1>1, GoesTo DEF TInv, others, sameName, stays
<1>2. /\ "inspect" \in Stages /\ "tar" \in Stages /\ "start" \in Stages
      /\ "upload" \in Stages /\ "remove" \in Stages /\ "notify" \in Stages
      /\ "list" \in Stages /\ "status" \in Stages /\ "clean" \in Stages
      /\ "row" \in Stages /\ "end" \in Stages /\ "error" \in Stages
      /\ "notifyError" \in Stages
  BY DEF Stages, Locked
<1>3. /\ supersede(r) => others(r) /\ sameName(r) /\ stays(r, "row")
      /\ takeLock(r) => others(r) /\ sameName(r) /\ stays(r, "inspect")
      /\ stop(r) => others(r) /\ sameName(r) /\ stays(r, "tar")
  BY <1>1, <1>2 DEF supersede, takeLock, stop
<1>13. /\ find(r) => others(r) /\ sameName(r) /\ stays(r, "upload")
       /\ unload(r) => others(r) /\ sameName(r) /\ stays(r, "notifyError")
  BY <1>1, <1>2 DEF find, unload
<1>4. tar(r) => /\ others(r) /\ sameName(r)
                /\ stays(r, IF offTurning(r) THEN "start" ELSE "upload")
  BY <1>1, <1>2 DEF tar
<1>5. upload(r) => /\ others(r) /\ sameName(r)
                   /\ stays(r, IF kind = "volume" THEN "remove" ELSE "notify")
  BY <1>1, <1>2 DEF upload
<1>6. remove(r) => /\ others(r) /\ sameName(r)
                   /\ stays(r, IF retains(r) THEN "list" ELSE "status")
  BY <1>1, <1>2 DEF remove
<1>7. /\ missArchive(r) => others(r) /\ sameName(r) /\ stays(r, "clean")
      /\ proceed(r) => others(r) /\ sameName(r) /\ stays(r, "status")
      /\ clean(r) \/ notifyError(r) => others(r) /\ sameName(r) /\ stays(r, "error")
      /\ error(r) => others(r) /\ sameName(r) /\ stays(r, "end")
  BY <1>1, <1>2 DEF missArchive, proceed, clean, notifyError, error
<1>8. status(r) => /\ others(r) /\ sameName(r)
                   /\ stays(r, IF kind = "backup" /\ retains(r) THEN "list" ELSE "end")
  BY <1>1, <1>2 DEF status
<1>9. insertRow(r) => others(r) /\ stays(r, afterRow(r)) /\ run'[r].job = run[r].job
                      /\ at(r, "row")
  BY InsertRowMoves DEF insertRow
<1>10. inspect(r) \/ start(r) \/ list(r) \/ delete(r) \/ fail(r) => others(r) /\ sameName(r)
  BY InspectMoves, StartMoves, ListMoves, DeleteMoves, FailMoves
<1>11. /\ supersede(r) \/ insertRow(r) \/ find(r) \/ takeLock(r) \/ inspect(r) \/ stop(r)
          \/ tar(r) \/ start(r) \/ upload(r) \/ unload(r) \/ remove(r) \/ missArchive(r)
          \/ list(r) \/ delete(r)
          \/ proceed(r) \/ status(r) \/ clean(r) \/ notifyError(r) \/ error(r) \/ fail(r)
  BY DEF Step
<1>12. others(r) /\ run'[r].job = run[r].job
       /\ (at(r, "row") \/ run'[r].stamp = run[r].stamp)
  <2>1. sameName(r) => run'[r].job = run[r].job /\ run'[r].stamp = run[r].stamp
    BY DEF sameName
  <2> QED
    BY <1>3, <1>4, <1>5, <1>6, <1>7, <1>8, <1>9, <1>10, <1>11, <1>13, <2>1
<1> QED
  BY <1>3, <1>4, <1>5, <1>6, <1>7, <1>8, <1>9, <1>12, <1>13

-----------------------------------------------------------------------------
(* Types, stages and the lock are kept                                     *)

\* What a run's step does to what it shares with the others.
LEMMA Shares ==
  ASSUME TInv, NEW r \in Runs, Step(r) \/ fail(r)
  PROVE  /\ UNCHANGED <<rigid, boot, wanted>>
         /\ row' \in [Runs -> Statuses]
         /\ \A s \in Runs \ {r} : row'[s] = row[s] \/ (row[s] = "running" /\ row'[s] = "error")
         /\ replicas' \in Scale
         /\ local' \subseteq local \cup {r}
         /\ uploaded' \subseteq uploaded \cup {r} /\ uploaded \subseteq uploaded'
         /\ stored' \subseteq stored \cup {r} /\ stored \subseteq stored'
         /\ r \in stored' \ stored => at(r, "upload")
         /\ r \in uploaded' \ uploaded => upload(r)
         /\ r \in local' \ local => at(r, "tar")
         /\ bucket' \subseteq stored' /\ uploaded' \subseteq stored'
         /\ failed' \subseteq failed \cup {r} /\ robbed' \subseteq Runs
         /\ harmed' \in BOOLEAN /\ raced' \subseteq Jobs /\ events' \in 0..MaxEvents
<1> USE DEF rigid, host, ghost, Quiet
<1>0. run[r] \in Run /\ 0 \in Scale
  BY BoundsAssumption DEF TInv, TypeOK, Scale
<1>1. CASE supersede(r)
  <2>1. jobOf(r) \in Jobs
    BY <1>0 DEF Run, jobOf
  <2>2. raced' \subseteq Jobs
    BY <1>1, <2>1 DEF supersede, TInv, TypeOK
  <2>3. \A s \in Runs : s \in toSupersede(jobOf(r)) => row[s] = "running"
    BY DEF toSupersede
  <2>4. /\ row' \in [Runs -> Statuses]
        /\ \A s \in Runs \ {r} : row'[s] = row[s] \/ (row[s] = "running" /\ row'[s] = "error")
    BY <1>1, <2>3 DEF supersede, TInv, TypeOK, Statuses
  <2> QED
    BY <1>1, <2>2, <2>4 DEF supersede, TInv, TypeOK
<1>2. CASE insertRow(r)
  BY <1>2 DEF insertRow, TInv, TypeOK, Statuses
<1>3. CASE find(r) \/ takeLock(r) \/ inspect(r) \/ stop(r) \/ tar(r)
  BY <1>0, <1>3 DEF find, takeLock, inspect, stop, tar, TInv, TypeOK
<1>4. CASE start(r)
  BY <1>0, <1>4 DEF start, TInv, TypeOK, Run
<1>5. CASE upload(r) \/ unload(r) \/ remove(r) \/ missArchive(r) \/ list(r) \/ delete(r)
  BY <1>0, <1>5 DEF upload, unload, remove, missArchive, list, delete, TInv, TypeOK
<1>6. CASE proceed(r) \/ status(r) \/ notifyError(r) \/ error(r)
  BY <1>6 DEF proceed, status, notifyError, error, TInv, TypeOK, Statuses
<1>7. CASE clean(r)
  BY <1>7 DEF clean, ownArchives, TInv, TypeOK, begun
<1>8. CASE fail(r)
  <2>1. events' \in 0..MaxEvents
    BY <1>8, BoundsAssumption DEF fail, Event, TInv, TypeOK
  <2>2. row' \in [Runs -> Statuses] /\ \A s \in Runs \ {r} : row'[s] = row[s]
    BY <1>8 DEF fail, TInv, TypeOK, Statuses
  <2>3. /\ UNCHANGED <<rigid, boot, wanted, robbed, uploaded, raced>>
        /\ failed' = failed \cup {r}
    BY <1>8 DEF fail
  <2>4. replicas' \in Scale /\ harmed' \in BOOLEAN
    BY <1>0, <1>8 DEF fail, TInv, TypeOK
  <2>5. local' \subseteq local \cup {r} /\ (r \in local' \ local => at(r, "tar"))
    BY <1>8 DEF fail
  <2>6. \/ UNCHANGED <<bucket, stored>>
        \/ at(r, "upload") /\ bucket' = bucket \cup {r} /\ stored' = stored \cup {r}
    BY <1>8 DEF fail
  <2>7. /\ stored' \subseteq stored \cup {r} /\ stored \subseteq stored'
        /\ r \in stored' \ stored => at(r, "upload")
        /\ bucket' \subseteq stored' /\ uploaded' \subseteq stored'
    BY <2>3, <2>6 DEF TInv, TypeOK
  <2> QED
    BY <2>1, <2>2, <2>3, <2>4, <2>5, <2>7 DEF TInv, TypeOK
<1> QED
  BY <1>1, <1>2, <1>3, <1>4, <1>5, <1>6, <1>7, <1>8 DEF Step

\* A run is not disturbed by the step of another.
LEMMA OthersKeep ==
  ASSUME TInv, NEW r \in Runs, Step(r) \/ fail(r), NEW s \in Runs \ {r}
  PROVE  /\ run'[s] = run[s] /\ jobOf(s)' = jobOf(s) /\ over(s)' = over(s)
         /\ offTurning(s)' = offTurning(s) /\ retains(s)' = retains(s)
         /\ inWindow(s)' = inWindow(s)
         /\ s \in uploaded' <=> s \in uploaded
         /\ s \in stored' <=> s \in stored
BY Moves, Shares
   DEF others, rigid, jobOf, over, offTurning, retains, inWindow

\* A run that acts is not over, and is the same run afterwards.
LEMMA ActorKeeps ==
  ASSUME TInv, NEW r \in Runs, Step(r) \/ fail(r)
  PROVE  /\ jobOf(r)' = jobOf(r) /\ offTurning(r)' = offTurning(r)
         /\ retains(r)' = retains(r) /\ kind' = kind /\ scheduled' = scheduled
         /\ ~over(r) /\ run'[r].at # "none"
<1>1. run'[r].job = run[r].job /\ UNCHANGED rigid
  BY Moves, Shares
<1>2. ~over(r)
  BY DEF Step, fail, over, at, supersede, insertRow, find, takeLock, inspect, stop, tar,
         start, upload, unload, remove, missArchive, list, delete, proceed, status, clean,
         notifyError,
         error, Locked
<1>3. run'[r].at # "none"
  <2>1. Step(r) => run'[r].at # "none"
    BY Moves, InspectMoves, StartMoves, ListMoves, DeleteMoves
       DEF Step, stays, afterRow, afterRetention
  <2>3. "none" \notin onFailure(r)
    BY DEF onFailure, afterRetention
  <2>2. fail(r) => run'[r].at # "none"
    BY <2>3, FailMoves
  <2> QED
    BY <2>1, <2>2
<1> QED
  BY <1>1, <1>2, <1>3 DEF rigid, jobOf, offTurning, retains, scheduled

LEMMA LockMoves ==
  ASSUME TInv, NEW r \in Runs, Step(r) \/ fail(r)
  PROVE  \/ takeLock(r) /\ lock = 0 /\ lock' = r
         \/ lock = r /\ lock' = 0 /\ run'[r].at \notin Locked
         \/ lock' = lock /\ (lock = r => run'[r].at \in Locked)
<1> USE DEF rigid, host, ghost, Quiet
<1>0. 0 \notin Runs /\ (lock = r => offTurning(r) /\ run[r].at \in Locked \cup {"dead"})
  BY DEF Runs, TInv, TypeOK, LockOK
<1>1. CASE takeLock(r)
  BY <1>1 DEF takeLock, free
<1>2. CASE supersede(r) \/ insertRow(r) \/ list(r) \/ delete(r) \/ proceed(r) \/ status(r)
           \/ clean(r) \/ notifyError(r) \/ error(r) \/ find(r) \/ unload(r)
  BY <1>0, <1>2 DEF supersede, insertRow, list, delete, proceed, status, clean, notifyError,
                    error, find, unload, at, Locked
<1>3. CASE inspect(r) \/ stop(r) \/ tar(r)
  <2>1. run'[r].at \in Locked
    BY <1>3, Moves, InspectMoves DEF stays, Locked
  <2> QED
    BY <1>3, <2>1 DEF inspect, stop, tar
<1>4. CASE start(r)
  BY <1>4, StartMoves DEF start, released, Locked
<1>5. CASE upload(r)
  BY <1>0, <1>5, Moves DEF upload, stays, Locked, offTurning
<1>6. CASE remove(r) \/ missArchive(r)
  BY <1>6, Moves DEF remove, missArchive, released, stays, Locked
<1>7. CASE fail(r)
  <2>1. onFailure(r) \cap Locked \subseteq {"start"}
    BY DEF onFailure, afterRetention, Locked
  <2>2. run'[r].at = "start" \/ run'[r].at \notin Locked
    BY <1>7, <2>1, FailMoves
  <2> QED
    BY <1>7, <2>2, FailMoves DEF released, Locked
<1> QED
  BY <1>1, <1>2, <1>3, <1>4, <1>5, <1>6, <1>7 DEF Step

LEMMA LockStep == ASSUME TInv, NEW r \in Runs, Step(r) \/ fail(r) PROVE LockOK'
<1> SUFFICES ASSUME NEW s \in Runs
             PROVE  /\ lock' = s => offTurning(s)'
                    /\ offTurning(s)' /\ run'[s].at \in Locked => lock' = s
  BY DEF LockOK
<1>1. /\ lock = s => offTurning(s)
      /\ offTurning(s) /\ run[s].at \in Locked => lock = s
      /\ run[s].at \in {"lock", "inspect", "stop", "start"} => offTurning(s)
  BY DEF TInv, LockOK, StagesOK
<1>2. offTurning(s)' = offTurning(s)
  BY OthersKeep, ActorKeeps
<1>3. 0 \notin Runs
  BY DEF Runs
<1>4. CASE s # r
  BY <1>1, <1>2, <1>3, <1>4, LockMoves, OthersKeep DEF takeLock, free
<1>5. CASE s = r
  <2>1. takeLock(r) => offTurning(r)
    BY <1>1, <1>5 DEF takeLock, at
  <2>2. offTurning(r) /\ run'[r].at \in Locked => run[r].at \in Locked \/ takeLock(r)
    <3>4. find(r) => ~offTurning(r)
      BY DEF find, TInv, StagesOK, at, offTurning
    <3>1. Step(r) /\ offTurning(r) /\ run'[r].at \in Locked =>
            run[r].at \in Locked \/ takeLock(r)
      BY <3>4, Moves, InspectMoves, StartMoves, ListMoves, DeleteMoves
         DEF Step, stays, afterRow, afterRetention, Locked, offTurning, supersede, insertRow,
             find, takeLock, inspect, stop, tar, start, upload, unload, remove, missArchive,
             list, delete, proceed, status, clean, notifyError, error, at
    <3>2. fail(r) /\ run'[r].at \in Locked => run[r].at \in Locked
      <4>1. \A stage \in onFailure(r) : stage \in Locked => run[r].at \in Locked
        BY DEF onFailure, afterRetention, Locked, at
      <4> QED
        BY <4>1, FailMoves
    <3> QED
      BY <3>1, <3>2
  <2> QED
    BY <1>1, <1>2, <1>3, <1>5, <2>1, <2>2, LockMoves DEF takeLock
<1> QED
  BY <1>4, <1>5

\* Nothing of a run is in the bucket before it uploads, and no step leads back.
LEMMA EarlyStep ==
  ASSUME TInv, NEW r \in Runs, Step(r) \/ fail(r), run'[r].at \in early
  PROVE  r \notin stored'
<1>1. run[r].at \in early \ {"upload"}
  <2>1. CASE Step(r)
    BY <2>1, Moves, InspectMoves, StartMoves, ListMoves, DeleteMoves
       DEF Step, early, stays, afterRow, afterRetention, supersede, insertRow, find, takeLock,
           inspect, stop, tar, start, upload, unload, remove, missArchive, list, delete,
           proceed, status, clean, notifyError, error, at
  <2>2. CASE fail(r)
    <3>1. onFailure(r) \cap early \subseteq {"start"}
          /\ ("start" \in onFailure(r) => run[r].at = "tar")
      BY DEF onFailure, afterRetention, early, at
    <3> QED
      BY <2>2, <3>1, FailMoves DEF early
  <2> QED
    BY <2>1, <2>2
<1>2. r \notin stored
  BY <1>1 DEF TInv, StagesOK
<1> QED
  BY <1>1, <1>2, Shares DEF at

\* What is taken out of the bucket after a dump that failed is not whole.
LEMMA UnloadStep ==
  ASSUME TInv, NEW r \in Runs, Step(r) \/ fail(r), run'[r].at = "unload"
  PROVE  r \notin uploaded'
<1>1. fail(r)
  BY Moves, InspectMoves, StartMoves, ListMoves, DeleteMoves
     DEF Step, stays, afterRow, afterRetention
<1>2. at(r, "upload")
  <2>1. "unload" \in onFailure(r) => at(r, "upload")
    BY DEF onFailure, afterRetention
  <2> QED
    BY <1>1, <2>1, FailMoves
<1>3. r \notin stored /\ uploaded \subseteq stored /\ uploaded' = uploaded
  BY <1>1, <1>2 DEF fail, TInv, TypeOK, StagesOK, early, at
<1> QED
  BY <1>3

\* Where a step leads a run, and what is then true of its job and row.
LEMMA StagesStep == ASSUME TInv, NEW r \in Runs, Step(r) \/ fail(r) PROVE StagesOK'
<1> SUFFICES ASSUME NEW s \in Runs
      PROVE
        /\ run'[s].at \in {"none", "supersede", "row"} =>
             row'[s] = "none" /\ run'[s].stamp = 0
        /\ run'[s].at \in early => s \notin stored'
        /\ run'[s].at = "unload" => s \notin uploaded'
        /\ run'[s].at \in {"lock", "inspect", "stop", "start"} => offTurning(s)'
        /\ run'[s].at \in {"tar", "remove", "clean"} => kind' = "volume"
        /\ run'[s].at \in {"find", "unload", "notify", "notifyError"} => kind' = "backup"
        /\ run'[s].at \in {"supersede", "command"} => scheduled'
        /\ run'[s].at \in {"list", "delete"} => retains(s)'
        /\ run'[s].at \in {"upload", "list", "delete"} => ~scheduled'
  BY DEF StagesOK, at
<1>1. /\ run[s].at \in {"none", "supersede", "row"} =>
           row[s] = "none" /\ run[s].stamp = 0
      /\ run[s].at \in early => s \notin stored
      /\ run[s].at = "unload" => s \notin uploaded
      /\ run[s].at \in {"lock", "inspect", "stop", "start"} => offTurning(s)
      /\ run[s].at \in {"tar", "remove", "clean"} => kind = "volume"
      /\ run[s].at \in {"find", "unload", "notify", "notifyError"} => kind = "backup"
      /\ run[s].at \in {"supersede", "command"} => scheduled
      /\ run[s].at \in {"list", "delete"} => retains(s)
      /\ run[s].at \in {"upload", "list", "delete"} => ~scheduled
  BY DEF TInv, StagesOK, at
<1>2. /\ kind' = kind /\ scheduled' = scheduled /\ offTurning(s)' = offTurning(s)
      /\ retains(s)' = retains(s)
  BY OthersKeep, ActorKeeps
<1>3. CASE s # r
  BY <1>1, <1>2, <1>3, OthersKeep, Shares
<1>4. CASE s = r
  <2>1. kind \in Kinds
    BY HereAssumption DEF TInv, TypeOK
  <2>2. /\ run'[r].at \in early => r \notin stored'
        /\ run'[r].at = "unload" => r \notin uploaded'
    BY <1>1, <1>4, EarlyStep, UnloadStep, Shares DEF TInv, TypeOK
  <2> HIDE DEF at
  <2>3. CASE supersede(r)
    <3>1. run'[r].at = "row" /\ run'[r].stamp = 0
      BY <1>1, <1>4, <2>3, Moves DEF supersede, stays, at
    <3>2. row'[r] = "none"
      BY <1>1, <1>4, <2>3 DEF supersede, toSupersede, at, TInv, TypeOK
    <3> QED
      BY <1>4, <2>2, <3>1, <3>2
  <2>4. CASE insertRow(r)
    <3>1. run'[r].at = afterRow(r)
      BY <2>4, Moves DEF stays
    <3> QED
      BY <1>2, <1>4, <2>1, <2>2, <3>1 DEF afterRow, Kinds, scheduled, offTurning
  <2>12. CASE find(r) \/ unload(r)
    <3>1. kind = "backup"
      BY <1>1, <1>4, <2>12 DEF find, unload, at
    <3>2. run'[r].at \in {"upload", "notifyError"}
      BY <2>12, Moves DEF stays
    <3> QED
      BY <1>2, <1>4, <2>2, <3>1, <3>2 DEF scheduled
  <2>5. CASE takeLock(r) \/ inspect(r) \/ stop(r)
    BY <1>1, <1>2, <1>4, <2>2, <2>5, Moves, InspectMoves
       DEF takeLock, inspect, stop, stays, at, offTurning
  <2>6. CASE tar(r) \/ start(r)
    <3>1. kind = "volume"
      BY <1>1, <1>4, <2>6 DEF tar, start, at, offTurning
    <3> QED
      BY <1>2, <1>4, <2>2, <2>6, <3>1, Moves, StartMoves
       DEF tar, start, stays, at, offTurning, scheduled
  <2>7. CASE upload(r)
    BY <1>1, <1>2, <1>4, <2>1, <2>2, <2>7, Moves DEF upload, stays, at, Kinds, scheduled
  <2>8. CASE remove(r) \/ missArchive(r)
    BY <1>1, <1>2, <1>4, <2>2, <2>8, Moves
       DEF remove, missArchive, hasArchive, stays, at, scheduled
  <2>9. CASE list(r) \/ delete(r)
    BY <1>1, <1>2, <1>4, <2>2, <2>9, ListMoves, DeleteMoves DEF list, delete, at, afterRetention
  <2>10. CASE proceed(r) \/ status(r) \/ clean(r) \/ notifyError(r) \/ error(r)
    BY <1>1, <1>2, <1>4, <2>2, <2>10, Moves
       DEF proceed, status, clean, notifyError, error, stays, at, scheduled
  <2>11. CASE fail(r)
    <3>1. onFailure(r) \subseteq {"end", "status", "lost", "start", "unload", "notifyError",
                                 "error", "clean"}
      BY DEF onFailure, afterRetention
    <3>2. "start" \in onFailure(r) => offTurning(r)
      BY DEF onFailure, afterRetention
    <3>3. "notifyError" \in onFailure(r) => kind = "backup"
      BY DEF onFailure, afterRetention
    <3>4. "clean" \in onFailure(r) => kind = "volume"
      BY <2>1 DEF onFailure, afterRetention, scheduled, Kinds
    <3>5. "unload" \in onFailure(r) => kind = "backup"
      BY DEF onFailure, afterRetention
    <3>6. run'[r].at \in onFailure(r)
      BY <2>11, FailMoves
    <3> QED
      BY <1>2, <1>4, <2>2, <3>1, <3>2, <3>3, <3>4, <3>5, <3>6
  <2> QED
    BY <2>3, <2>4, <2>5, <2>6, <2>7, <2>8, <2>9, <2>10, <2>11, <2>12 DEF Step
<1> QED
  BY <1>3, <1>4

LEMMA TypeStep == ASSUME TInv, NEW r \in Runs, Step(r) \/ fail(r) PROVE TypeOK'
<1>1. run' \in [Runs -> Run] /\ \A s \in Runs \ {r} : run'[s] = run[s]
  BY Moves DEF others
<1>2. kind' \in Here /\ turnOff' \subseteq Jobs /\ flock' \in BOOLEAN
  BY Shares DEF rigid, TInv, TypeOK
<1>3. row' \in [Runs -> Statuses] /\ replicas' \in Scale /\ wanted' \in Scale
  BY Shares DEF TInv, TypeOK
<1>4. ASSUME NEW s \in Runs
      PROVE  over(s)' \/ at(s, "supersede")' \/ at(s, "row")' \/ row'[s] # "none"
  <2>1. over(s) \/ at(s, "supersede") \/ at(s, "row") \/ row[s] # "none"
    BY DEF TInv, TypeOK
  <2>2. CASE s # r
    BY <2>1, <2>2, OthersKeep, Shares DEF at
  <2>3. CASE s = r
    <3>1. ~over(r)
      BY ActorKeeps
    <3>2. CASE supersede(r)
      BY <2>3, <3>2, Moves DEF stays, at
    <3>3. CASE insertRow(r)
      BY <2>3, <3>3 DEF insertRow, TInv, TypeOK
    <3>4. CASE status(r) \/ error(r)
      BY <2>3, <3>4 DEF status, error, TInv, TypeOK
    <3>5. CASE fail(r)
      <4>1. CASE at(r, "row")
        BY <2>3, <3>5, <4>1 DEF fail, TInv, TypeOK
      <4>2. CASE ~at(r, "row")
        <5>1. row' = row /\ ~at(r, "supersede")
          BY <3>5, <4>2 DEF fail, at, Locked
        <5> QED
          BY <2>1, <2>3, <3>1, <4>2, <5>1
      <4> QED
        BY <4>1, <4>2
    <3>6. CASE ~(supersede(r) \/ insertRow(r) \/ status(r) \/ error(r) \/ fail(r))
      <4>1. row' = row /\ ~at(r, "supersede") /\ ~at(r, "row")
        BY <3>6 DEF Step, find, takeLock, inspect, stop, tar, start, upload, unload, remove,
                    missArchive, list, delete, proceed, clean, notifyError, at, host
      <4> QED
        BY <2>1, <2>3, <3>1, <4>1
    <3> QED
      BY <3>2, <3>3, <3>4, <3>5, <3>6
  <2> QED
    BY <2>2, <2>3
<1>5. lock' \in {0} \cup {s \in Runs : run'[s].at \in Locked \cup {"dead"}}
  <2>1. lock \in {0} \cup {s \in Runs : run[s].at \in Locked \cup {"dead"}}
    BY DEF TInv, TypeOK
  <2>2. takeLock(r) => run'[r].at \in Locked
    BY Moves DEF stays, Locked
  <2> QED
    BY <1>1, <2>1, <2>2, LockMoves
<1>6. /\ local' \subseteq begun' /\ bucket' \subseteq stored'
      /\ uploaded' \subseteq stored' /\ stored' \subseteq begun'
  <2>1. begun \subseteq begun' /\ r \in begun'
    BY <1>1, ActorKeeps DEF begun, at
  <2>2. local \subseteq begun /\ stored \subseteq begun
    BY DEF TInv, TypeOK
  <2> HIDE DEF begun
  <2> QED
    BY <2>1, <2>2, Shares
<1>7. /\ boot' \in [at : {"read", "write", "up", "unswept"}, found : SUBSET Runs]
      /\ failed' \subseteq Runs /\ robbed' \subseteq Runs
      /\ harmed' \in BOOLEAN /\ raced' \subseteq Jobs /\ events' \in 0..MaxEvents
  BY Shares DEF TInv, TypeOK
<1> QED
  BY <1>1, <1>2, <1>3, <1>4, <1>5, <1>6, <1>7 DEF TypeOK, over, at, begun

LEMMA RunStep == ASSUME TInv, NEW r \in Runs, Step(r) \/ fail(r) PROVE TInv'
BY TypeStep, StagesStep, LockStep DEF TInv

-----------------------------------------------------------------------------
(* The steps that are not a run's                                          *)

LEMMA BeginTyped == ASSUME TInv, begin PROVE TInv'
<1>1. PICK r \in Runs, j \in Jobs :
        /\ at(r, "none") /\ others(r)
        /\ run'[r].at = (IF scheduled THEN "supersede" ELSE "row")
        /\ run'[r].job = j /\ run'[r].stamp = 0
  BY BeginMoves
<1>2. UNCHANGED <<rigid, boot, row, host, ghost>> /\ Event
  BY DEF begin
<1>3. events' \in 0..MaxEvents
  BY <1>2, BoundsAssumption DEF Event, TInv, TypeOK
<1>4. begun \subseteq begun'
  BY <1>1 DEF begun, others, at
<1>5. /\ row[r] = "none" /\ r \notin stored /\ r \notin uploaded /\ lock # r
      /\ run'[r].at \in {"supersede", "row"}
  <2>1. row[r] = "none" /\ r \notin stored /\ r \notin uploaded
    BY <1>1 DEF TInv, TypeOK, StagesOK, at, early
  <2>2. lock # r
    BY <1>1 DEF TInv, TypeOK, at, Locked, Runs
  <2>3. run'[r].at \in {"supersede", "row"}
    BY <1>1
  <2> QED
    BY <2>1, <2>2, <2>3
<1>6. TypeOK'
  <2>1. \A s \in Runs : over(s)' \/ at(s, "supersede")' \/ at(s, "row")' \/ row'[s] # "none"
    BY <1>1, <1>2, <1>5 DEF TInv, TypeOK, over, at, others
  <2>2. lock' \in {0} \cup {s \in Runs : run'[s].at \in Locked \cup {"dead"}}
    BY <1>1, <1>2, <1>5 DEF TInv, TypeOK, others, host
  <2> QED
    BY <1>1, <1>2, <1>3, <1>4, <2>1, <2>2
       DEF TInv, TypeOK, others, rigid, host, ghost
<1>7. StagesOK'
  <2> SUFFICES ASSUME NEW s \in Runs
      PROVE
        /\ run'[s].at \in {"none", "supersede", "row"} =>
             row'[s] = "none" /\ run'[s].stamp = 0
        /\ run'[s].at \in early => s \notin stored'
        /\ run'[s].at = "unload" => s \notin uploaded'
        /\ run'[s].at \in {"lock", "inspect", "stop", "start"} => offTurning(s)'
        /\ run'[s].at \in {"tar", "remove", "clean"} => kind' = "volume"
        /\ run'[s].at \in {"find", "unload", "notify", "notifyError"} => kind' = "backup"
        /\ run'[s].at \in {"supersede", "command"} => scheduled'
        /\ run'[s].at \in {"list", "delete"} => retains(s)'
        /\ run'[s].at \in {"upload", "list", "delete"} => ~scheduled'
    BY DEF StagesOK, at
  <2>1. CASE s = r
    BY <1>1, <1>2, <1>5, <2>1 DEF scheduled, rigid, ghost
  <2>2. CASE s # r
    BY <1>1, <1>2, <2>2
       DEF TInv, StagesOK, at, others, rigid, ghost, offTurning, retains, jobOf, scheduled
  <2> QED
    BY <2>1, <2>2
<1>8. LockOK'
  BY <1>1, <1>2, <1>5 DEF TInv, LockOK, others, rigid, host, offTurning, jobOf, Locked
<1> QED
  BY <1>6, <1>7, <1>8 DEF TInv

LEMMA RestartTyped == ASSUME TInv, restart PROVE TInv'
<1>1. /\ run' \in [Runs -> Run]
      /\ \A r \in Runs : /\ run'[r].job = run[r].job /\ run'[r].stamp = run[r].stamp
                         /\ over(r) => run'[r] = run[r]
                         /\ ~over(r) => run'[r].at = "dead"
  BY RestartMoves DEF sameName
<1>2. /\ UNCHANGED <<rigid, row, replicas, wanted, local, failed, robbed, uploaded, raced>>
      /\ Event
  BY DEF restart
<1>3. /\ events' \in 0..MaxEvents /\ harmed' \in BOOLEAN
      /\ boot' \in [at : {"read", "write", "up", "unswept"}, found : SUBSET Runs]
  BY <1>2, BoundsAssumption DEF restart, Event, TInv, TypeOK
<1>10. /\ bucket' \subseteq stored' /\ stored \subseteq stored' /\ stored' \subseteq begun
       /\ \A r \in stored' \ stored : at(r, "upload")
  <2>1. PICK parts \in SUBSET {r \in Runs : at(r, "upload") /\ kind = "backup"} :
          bucket' = bucket \cup parts /\ stored' = stored \cup parts
    BY DEF restart
  <2>2. parts \subseteq begun
    BY <2>1 DEF begun, at
  <2>3. bucket \subseteq stored /\ stored \subseteq begun
    BY DEF TInv, TypeOK
  <2> QED
    BY <2>1, <2>2, <2>3
<1>4. begun \subseteq begun'
  BY <1>1 DEF begun, over, at
<1>5. \A r \in Runs : run'[r].at \in {"none", "end", "lost", "dead"}
  BY <1>1 DEF over
<1>6. lock' \in {0} \cup {s \in Runs : run'[s].at \in Locked \cup {"dead"}}
      /\ (lock' = 0 \/ lock' = lock)
  <2>1. lock \in {0} \cup {s \in Runs : run[s].at \in Locked \cup {"dead"}}
    BY DEF TInv, TypeOK
  <2>2. \A s \in Runs : run[s].at \in Locked \cup {"dead"} => run'[s].at = "dead"
    BY <1>1 DEF over, Locked
  <2> QED
    BY <2>1, <2>2 DEF restart
<1>7. TypeOK'
  <2>1. /\ local' \subseteq begun' /\ bucket' \subseteq stored'
        /\ uploaded' \subseteq stored' /\ stored' \subseteq begun'
    BY <1>2, <1>4, <1>10 DEF TInv, TypeOK
  <2> QED
    BY <1>1, <1>2, <1>3, <1>5, <1>6, <2>1 DEF TInv, TypeOK, rigid, over, at
<1>8. StagesOK'
  BY <1>1, <1>2, <1>5, <1>10 DEF TInv, StagesOK, over, at, early
<1>9. LockOK'
  <2>1. 0 \notin Runs
    BY DEF Runs
  <2> QED
    BY <1>1, <1>2, <1>5, <1>6, <2>1 DEF TInv, LockOK, rigid, offTurning, jobOf, Locked
<1> QED
  BY <1>7, <1>8, <1>9 DEF TInv

LEMMA DeployTyped == ASSUME TInv, deploy PROVE TInv'
<1>1. events' \in 0..MaxEvents
  BY BoundsAssumption DEF deploy, Event, TInv, TypeOK
<1>2. /\ UNCHANGED <<rigid, run, row, lock, local, bucket, boot, failed, robbed, stored,
                     uploaded, raced>>
      /\ replicas' \in Scale /\ wanted' \in Scale /\ harmed' \in BOOLEAN
  BY DEF deploy
<1>3. TypeOK'
  BY <1>1, <1>2 DEF TInv, TypeOK, rigid, over, at, begun
<1>4. StagesOK' /\ LockOK'
  BY <1>2 DEF TInv, StagesOK, LockOK, rigid, at, offTurning, jobOf, retains, scheduled
<1> QED
  BY <1>3, <1>4 DEF TInv

LEMMA BootTyped ==
  ASSUME TInv, RowsOK, selectRunning \/ cancelRunning \/ sweepFails
  PROVE  TInv'
<1>1. /\ UNCHANGED <<rigid, run, host, ghost>>
      /\ boot' \in [at : {"read", "write", "up", "unswept"}, found : SUBSET Runs]
  BY DEF selectRunning, cancelRunning, sweepFails, toCancel
<1>6. events' \in 0..MaxEvents
  BY BoundsAssumption DEF selectRunning, cancelRunning, sweepFails, Event, TInv, TypeOK
<1>2. /\ row' \in [Runs -> Statuses]
      /\ \A r \in Runs : row'[r] = row[r] \/ (r \in boot.found /\ row'[r] = "cancelled")
  BY DEF selectRunning, cancelRunning, sweepFails, TInv, TypeOK, Statuses
<1>3. \A r \in Runs : row[r] = "none" => row'[r] = "none"
  BY <1>2 DEF RowsOK
<1>4. TypeOK'
  BY <1>1, <1>2, <1>6 DEF TInv, TypeOK, rigid, host, ghost, over, at, begun
<1>5. StagesOK' /\ LockOK'
  BY <1>1, <1>3 DEF TInv, StagesOK, LockOK, rigid, host, ghost, at, offTurning, jobOf,
                    retains, scheduled
<1> QED
  BY <1>4, <1>5 DEF TInv

LEMMA StutterTyped == ASSUME TInv, UNCHANGED vars PROVE TInv'
BY DEF TInv, TypeOK, StagesOK, LockOK, vars, rigid, host, ghost, over, at, begun,
       offTurning, jobOf, retains, scheduled

-----------------------------------------------------------------------------
(* The service and its lock                                                *)

SInv == ScaleOK /\ ServiceRestored

\* The lock lets one run at a time near the scale.
LEMMA Alone ==
  ASSUME TInv, NEW r \in Runs, NEW s \in Runs, offTurning(r), offTurning(s),
         run[r].at \in Locked, run[s].at \in Locked
  PROVE  r = s
BY DEF TInv, LockOK

LEMMA WindowLocked ==
  ASSUME TInv, NEW r \in Runs, inWindow(r) \/ at(r, "inspect")
  PROVE  offTurning(r) /\ run[r].at \in Locked
BY DEF TInv, StagesOK, inWindow, at, Locked

\* A step that leaves the scale, the window and what was saved alone.
LEMMA ScaleKept ==
  ASSUME SInv, UNCHANGED <<replicas, wanted>>, harmed => harmed',
         \A s \in Runs : inWindow(s)' => inWindow(s) /\ run'[s].saved = run[s].saved,
         \A s \in Runs : inWindow(s) /\ ~at(s, "stop") => inWindow(s)' /\ ~at(s, "stop")'
  PROVE  SInv'
<1>1. ScaleOK'
  BY DEF SInv, ScaleOK
<1>2. ServiceRestored'
  BY DEF SInv, ServiceRestored
<1> QED
  BY <1>1, <1>2 DEF SInv

LEMMA ScaleStep == ASSUME TInv, SInv, NEW r \in Runs, Step(r) \/ fail(r) PROVE SInv'
<1> USE DEF Quiet, host, ghost
<1>1. ASSUME NEW s \in Runs \ {r}
      PROVE  inWindow(s)' = inWindow(s) /\ run'[s] = run[s] /\ at(s, "stop")' = at(s, "stop")
  BY OthersKeep DEF at
<1>2. offTurning(r)' = offTurning(r) /\ wanted' = wanted
  BY ActorKeeps, Shares
<1>3. ASSUME inWindow(r) \/ at(r, "inspect"), NEW s \in Runs, inWindow(s) PROVE s = r
  BY <1>3, Alone, WindowLocked
<1>4. CASE inspect(r)
  <2>1. run'[r].saved = replicas /\ run'[r].at = "stop" /\ at(r, "inspect")
        /\ UNCHANGED <<replicas, wanted, harmed>>
    BY <1>4, InspectMoves DEF inspect
  <2>2. \A s \in Runs : ~inWindow(s)
    BY <1>3, <2>1 DEF inWindow, at
  <2>3. ~harmed => replicas = wanted
    BY <2>2 DEF SInv, ServiceRestored
  <2> QED
    BY <1>1, <2>1, <2>2, <2>3 DEF SInv, ScaleOK, ServiceRestored
<1>5. CASE stop(r) \/ (tar(r) /\ offTurning(r))
  <2>1. inWindow(r) /\ inWindow(r)' /\ ~at(r, "stop")' /\ run'[r].saved = run[r].saved
        /\ UNCHANGED <<wanted, harmed>>
    <3>1. stays(r, "tar") \/ stays(r, "start")
      BY <1>5, Moves
    <3>2. offTurning(r) /\ run[r].at \in {"stop", "tar"} /\ UNCHANGED <<wanted, harmed>>
      BY <1>5 DEF stop, tar, TInv, StagesOK, at
    <3> QED
      BY <1>2, <3>1, <3>2 DEF stays, inWindow, at
  <2> QED
    BY <1>1, <2>1 DEF SInv, ScaleOK, ServiceRestored
<1>6. CASE start(r)
  <2>1. inWindow(r) /\ ~inWindow(r)' /\ replicas' = run[r].saved
        /\ UNCHANGED <<wanted, harmed>>
    <3>1. run'[r].at \in {"upload", "clean"}
      BY <1>6, StartMoves
    <3>2. offTurning(r) /\ run[r].at = "start"
      BY <1>6 DEF start, TInv, StagesOK, at
    <3> QED
      BY <1>6, <3>1, <3>2 DEF start, inWindow
  <2>2. \A s \in Runs : ~inWindow(s)'
    BY <1>1, <1>3, <2>1
  <2> QED
    BY <2>1, <2>2 DEF SInv, ScaleOK, ServiceRestored
<1>7. CASE fail(r) /\ inWindow(r)
  <2>1. \A s \in Runs : inWindow(s) => s = r
    BY <1>3, <1>7
  <2>2. CASE at(r, "stop")
    <3>5. onFailure(r) \cap {"stop", "tar", "start"} = {}
      BY <2>2 DEF onFailure, afterRetention, at
    <3>1. run'[r].at \notin {"stop", "tar", "start"}
      BY <1>7, <3>5, FailMoves
    <3>2. \A s \in Runs : ~inWindow(s)'
      BY <1>1, <2>1, <3>1 DEF inWindow
    <3>3. harmed' \/ UNCHANGED <<replicas, wanted, harmed>>
      BY <1>7, <2>2 DEF fail, at, TInv, TypeOK
    <3>4. ~harmed => replicas = wanted
      BY <2>1, <2>2 DEF SInv, ServiceRestored
    <3> QED
      BY <3>2, <3>3, <3>4 DEF SInv, ScaleOK, ServiceRestored
  <2>3. CASE at(r, "tar")
    <3>1. offTurning(r) /\ onFailure(r) = {"start"}
      BY <1>7, <2>3 DEF onFailure, at, inWindow
    <3>4. run'[r].at = "start" /\ run'[r].saved = run[r].saved
      BY <1>7, <3>1, FailMoves
    <3>2. inWindow(r)' /\ ~at(r, "stop")' /\ run'[r].saved = run[r].saved
      BY <1>2, <3>1, <3>4 DEF inWindow, at
    <3>3. harmed => harmed'
      BY <1>7, <2>3 DEF fail, at
    <3> QED
      BY <1>1, <1>2, <1>7, <3>2, <3>3 DEF SInv, ScaleOK, ServiceRestored
  <2>4. CASE at(r, "start")
    <3>1. harmed'
      BY <1>7, <2>4 DEF fail, at
    <3> QED
      BY <3>1 DEF SInv, ScaleOK, ServiceRestored
  <2> QED
    BY <1>7, <2>2, <2>3, <2>4 DEF inWindow, at
<1>8. CASE fail(r) /\ ~inWindow(r)
  <2>1. ~inWindow(r)'
    <3>1. onFailure(r) \cap {"stop", "tar", "start"} # {} => inWindow(r)
      BY DEF onFailure, afterRetention, inWindow, at
    <3> QED
      BY <1>2, <1>8, <3>1, FailMoves DEF inWindow
  <2>2. \/ UNCHANGED <<replicas, wanted>> /\ (harmed => harmed')
        \/ at(r, "stop")
    BY <1>2, <1>8 DEF fail
  <2>3. ~at(r, "stop")
    BY <1>8 DEF inWindow, at, TInv, StagesOK
  <2> QED
    BY <1>1, <1>8, <2>1, <2>2, <2>3, ScaleKept
<1>9. CASE /\ Step(r)
           /\ ~(inspect(r) \/ stop(r) \/ start(r) \/ (tar(r) /\ offTurning(r)))
  <2>1. UNCHANGED <<replicas, wanted, harmed>>
    BY <1>9 DEF Step, supersede, insertRow, find, takeLock, tar, upload, unload, remove,
       missArchive,
                list, delete, proceed, status, clean, notifyError, error
  <2>2. ~inWindow(r)
    BY <1>9 DEF Step, inWindow, at, offTurning, supersede, insertRow, find, takeLock, inspect,
                stop, tar, start, upload, unload, remove, missArchive, list, delete, proceed,
                status, clean, notifyError, error
  <2>3. ~inWindow(r)'
    <3>1. run'[r].at \notin {"stop", "tar", "start"} \/ ~offTurning(r)
      BY <1>9, Moves, ListMoves, DeleteMoves
         DEF Step, stays, afterRow, afterRetention, tar, at
    <3> QED
      BY <1>2, <3>1 DEF inWindow
  <2> QED
    BY <1>1, <2>1, <2>2, <2>3, ScaleKept
<1>10. CASE Step(r)
  BY <1>4, <1>5, <1>6, <1>9, <1>10
<1> QED
  BY <1>7, <1>8, <1>10

\* Neither the begin of a run nor the death of a server touches the scale.
LEMMA ScaleOtherwise ==
  ASSUME TInv, SInv, begin \/ deploy \/ restart \/ selectRunning \/ cancelRunning \/ sweepFails
  PROVE  SInv'
<1>1. CASE begin
  <2>1. PICK r \in Runs :
          /\ at(r, "none") /\ others(r) /\ run'[r].at \in {"supersede", "row"}
    <3>1. PICK r \in Runs, j \in Jobs :
            /\ at(r, "none") /\ others(r)
            /\ run'[r].at = (IF scheduled THEN "supersede" ELSE "row")
      BY <1>1, BeginMoves
    <3> QED
      BY <3>1
  <2>2. UNCHANGED <<replicas, wanted, harmed, rigid>>
    BY <1>1 DEF begin, host, ghost
  <2>3. ~inWindow(r) /\ ~inWindow(r)'
    BY <2>1 DEF inWindow, at
  <2>4. \A s \in Runs \ {r} : inWindow(s)' = inWindow(s) /\ run'[s] = run[s]
    BY <2>1, <2>2 DEF others, inWindow, offTurning, jobOf, rigid
  <2> QED
    BY <2>2, <2>3, <2>4, ScaleKept DEF at
<1>2. CASE deploy
  <2>1. \A s \in Runs : inWindow(s)' = inWindow(s)
    BY <1>2 DEF deploy, inWindow, offTurning, jobOf, rigid
  <2>2. replicas' = wanted' /\ (harmed' \/ \A s \in Runs : ~inWindow(s))
    BY <1>2 DEF deploy
  <2> QED
    BY <2>1, <2>2 DEF SInv, ScaleOK, ServiceRestored
<1>3. CASE restart
  <2>1. \A s \in Runs : ~inWindow(s)'
    BY <1>3, RestartMoves DEF inWindow, over
  <2>2. /\ UNCHANGED <<replicas, wanted>>
        /\ ~harmed' => ~harmed /\ \A s \in Runs : inWindow(s) => at(s, "stop")
    BY <1>3 DEF restart, TInv, TypeOK
  <2> QED
    BY <2>1, <2>2 DEF SInv, ScaleOK, ServiceRestored
<1>4. CASE selectRunning \/ cancelRunning \/ sweepFails
  <2>1. UNCHANGED <<replicas, wanted, harmed, rigid, run>>
    BY <1>4 DEF selectRunning, cancelRunning, sweepFails, host, ghost
  <2> QED
    BY <2>1, ScaleKept DEF inWindow, offTurning, jobOf, rigid, at
<1> QED
  BY <1>1, <1>2, <1>3, <1>4

-----------------------------------------------------------------------------
(* Why runs end as errors                                                  *)

EInv == ErrorsOK /\ FailuresExplained

\* What a step adds to the reasons is never taken away.
LEMMA ReasonsGrow ==
  ASSUME TInv, NEW r \in Runs, Step(r) \/ fail(r)
  PROVE  /\ failed \subseteq failed' /\ robbed \subseteq robbed'
         /\ \A s \in Runs \ {r} : s \in local => s \in local' \/ s \in robbed'
<1>1. CASE clean(r)
  <2>1. /\ robbed' = robbed \cup {s \in local \ {r} : jobOf(s) = jobOf(r)}
        /\ local' = local \ {s \in local : jobOf(s) = jobOf(r)} /\ failed' = failed
    BY <1>1 DEF clean, ownArchives
  <2> QED
    BY <2>1
<1>2. CASE remove(r)
  BY <1>2 DEF remove, ghost
<1>3. CASE fail(r)
  BY <1>3 DEF fail
<1>4. CASE Step(r) /\ ~(clean(r) \/ remove(r))
  <2>1. failed' = failed /\ robbed' = robbed /\ local \subseteq local'
    BY <1>4 DEF Step, supersede, insertRow, find, takeLock, inspect, stop, tar, start, upload,
       unload,
                missArchive, list, delete, proceed, status, notifyError, error, host, ghost
  <2> QED
    BY <2>1
<1> QED
  BY <1>1, <1>2, <1>3, <1>4

LEMMA ErrorsStep == ASSUME TInv, EInv, NEW r \in Runs, Step(r) \/ fail(r) PROVE EInv'
<1>1. kind' = kind /\ scheduled' = scheduled
  BY ActorKeeps
<1> SUFFICES ASSUME kind \in {"backup", "volume"}, NEW s \in Runs
      PROVE
        /\ run'[s].at \in {"clean", "unload", "notifyError", "error"} =>
             s \in failed' \cup robbed'
        /\ ~run'[s].ok => s \in failed'
        /\ run'[s].at \in {"start", "upload", "remove"} /\ kind = "volume"
             => s \in local' \cup robbed' \cup failed'
        /\ row'[s] = "error" => s \in failed' \cup robbed'
  BY <1>1 DEF EInv, ErrorsOK, FailuresExplained
<1>2. /\ run[s].at \in {"clean", "unload", "notifyError", "error"} =>
           s \in failed \cup robbed
      /\ ~run[s].ok => s \in failed
      /\ run[s].at \in {"start", "upload", "remove"} /\ kind = "volume"
           => s \in local \cup robbed \cup failed
      /\ row[s] = "error" => s \in failed \cup robbed
  BY DEF EInv, ErrorsOK, FailuresExplained
<1>3. /\ failed \subseteq failed' /\ robbed \subseteq robbed'
      /\ s # r /\ s \in local => s \in local' \/ s \in robbed'
  BY ReasonsGrow
<1>4. ~scheduled /\ ~supersede(r)
  BY DEF scheduled, supersede, TInv, StagesOK, at
<1>5. CASE s # r
  <2>1. run'[s] = run[s]
    BY <1>5, Moves DEF others
  <2>2. row'[s] = row[s]
    BY <1>4, <1>5
       DEF Step, insertRow, find, takeLock, inspect, stop, tar, start, upload, unload, remove,
       missArchive,
           list, delete, proceed, status, clean, notifyError, error, fail, host, TInv, TypeOK
  <2> QED
    BY <1>2, <1>3, <1>5, <2>1, <2>2
<1>6. CASE s = r
  <2>1. CASE fail(r)
    <3>1. r \in failed'
      BY <2>1 DEF fail
    <3> QED
      BY <1>6, <3>1
  <2>2. CASE insertRow(r)
    <3>1. stays(r, afterRow(r)) /\ row'[r] = "running"
      BY <2>2, Moves DEF insertRow, TInv, TypeOK
    <3>2. afterRow(r) \notin {"clean", "unload", "notifyError", "error", "start", "upload",
                             "remove"}
      BY DEF afterRow
    <3> QED
      BY <1>2, <1>3, <1>6, <3>1, <3>2 DEF stays
  <2>3. CASE start(r)
    <3>1. run'[r].at = (IF run[r].ok THEN "upload" ELSE "clean") /\ run'[r].ok = TRUE
      BY <2>3, StartMoves
    <3>2. at(r, "start") /\ UNCHANGED <<row, local, failed, robbed>>
      BY <2>3 DEF start, ghost
    <3> QED
      BY <1>2, <1>6, <3>1, <3>2 DEF at
  <2>4. CASE tar(r)
    <3>1. stays(r, "start") \/ stays(r, "upload")
      BY <2>4, Moves
    <3>2. r \in local' /\ UNCHANGED <<row, failed, robbed>>
      BY <2>4 DEF tar, ghost
    <3> QED
      BY <1>2, <1>6, <3>1, <3>2 DEF stays
  <2>5. CASE upload(r)
    <3>1. stays(r, "remove") \/ stays(r, "notify")
      BY <2>5, Moves
    <3>2. at(r, "upload") /\ UNCHANGED <<row, local, failed, robbed>>
      BY <2>5 DEF upload
    <3> QED
      BY <1>2, <1>6, <3>1, <3>2 DEF stays, at
  <2>6. CASE missArchive(r)
    <3>1. stays(r, "clean")
      BY <2>6, Moves
    <3>2. /\ run[r].at \in {"upload", "remove"} /\ kind = "volume" /\ r \notin local
          /\ UNCHANGED <<row, local, failed, robbed>>
      BY <2>6 DEF missArchive, hasArchive, ghost
    <3> QED
      BY <1>2, <1>6, <3>1, <3>2 DEF stays
  <2>7. CASE clean(r) \/ notifyError(r) \/ unload(r)
    <3>1. stays(r, "error") \/ stays(r, "notifyError")
      BY <2>7, Moves
    <3>2. run[r].at \in {"clean", "unload", "notifyError"} /\ row' = row
      BY <2>7 DEF clean, unload, notifyError, at
    <3> QED
      BY <1>2, <1>3, <1>6, <3>1, <3>2 DEF stays
  <2>11. CASE find(r)
    <3>1. stays(r, "upload") /\ kind # "volume" /\ row' = row
      BY <2>11, Moves DEF find, TInv, StagesOK, at
    <3> QED
      BY <1>2, <1>3, <1>6, <3>1 DEF stays
  <2>8. CASE error(r)
    <3>1. stays(r, "end") /\ at(r, "error")
      BY <2>8, Moves DEF error
    <3> QED
      BY <1>2, <1>3, <1>6, <3>1 DEF stays, at
  <2>9. CASE status(r)
    <3>1. (stays(r, "list") \/ stays(r, "end")) /\ row'[r] = "done"
      BY <2>9, Moves DEF status, TInv, TypeOK
    <3> QED
      BY <1>2, <1>3, <1>6, <3>1 DEF stays
  <2>10. CASE takeLock(r) \/ inspect(r) \/ stop(r) \/ remove(r) \/ list(r) \/ delete(r)
              \/ proceed(r)
    <3>1. /\ run'[r].at \in {"inspect", "stop", "tar", "list", "status", "delete", "end"}
          /\ run'[r].ok = run[r].ok
      BY <2>10, Moves, InspectMoves, ListMoves, DeleteMoves DEF stays, afterRetention
    <3>2. row' = row
      BY <2>10 DEF find, takeLock, inspect, stop, remove, list, delete, proceed
    <3> QED
      BY <1>2, <1>3, <1>6, <3>1, <3>2
  <2> QED
    BY <1>4, <2>1, <2>2, <2>3, <2>4, <2>5, <2>6, <2>7, <2>8, <2>9, <2>10, <2>11 DEF Step
<1> QED
  BY <1>5, <1>6

LEMMA ErrorsOtherwise ==
  ASSUME TInv, EInv, begin \/ deploy \/ restart \/ selectRunning \/ cancelRunning \/ sweepFails
  PROVE  EInv'
<1>1. CASE begin
  <2>1. PICK r \in Runs, j \in Jobs :
          /\ others(r) /\ run'[r].ok = TRUE
          /\ run'[r].at = (IF scheduled THEN "supersede" ELSE "row")
    BY <1>1, BeginMoves
  <2>2. UNCHANGED <<rigid, row, host, ghost>>
    BY <1>1 DEF begin
  <2> QED
    BY <2>1, <2>2 DEF EInv, ErrorsOK, FailuresExplained, others, rigid, host, ghost
<1>2. CASE restart
  <2>1. UNCHANGED <<rigid, row, local, failed, robbed>>
    BY <1>2 DEF restart
  <2> QED
    BY <1>2, <2>1, RestartMoves DEF EInv, ErrorsOK, FailuresExplained, rigid, over
<1>3. CASE deploy
  BY <1>3 DEF deploy, EInv, ErrorsOK, FailuresExplained, rigid
<1>4. CASE selectRunning \/ cancelRunning \/ sweepFails
  <2>1. /\ UNCHANGED <<rigid, run, host, ghost>>
        /\ \A r \in Runs : row'[r] = row[r] \/ row'[r] # "error"
    BY <1>4 DEF selectRunning, cancelRunning, sweepFails, TInv, TypeOK
  <2> QED
    BY <2>1 DEF EInv, ErrorsOK, FailuresExplained, rigid, host, ghost
<1> QED
  BY <1>1, <1>2, <1>3, <1>4

-----------------------------------------------------------------------------
(* The rows of runs that are over                                          *)

RInv == RowsOK /\ RunningRowsAreRuns

LEMMA RowsStep == ASSUME TInv, RInv, NEW r \in Runs, Step(r) \/ fail(r) PROVE RInv'
<1>1. kind' = kind /\ boot' = boot /\ ~over(r)
  BY ActorKeeps, Shares
<1>2. \A s \in Runs \ {r} :
        /\ run'[s] = run[s] /\ over(s)' = over(s)
        /\ row'[s] = row[s] \/ (row[s] = "running" /\ row'[s] = "error")
  BY OthersKeep, Shares
<1>3. over(r)' /\ row'[r] = "running" => at(r, "lost")'
  <2>1. CASE status(r) \/ error(r) \/ (fail(r) /\ at(r, "row"))
    BY <2>1 DEF status, error, fail, TInv, TypeOK
  <2>2. CASE delete(r)
    <3>1. run'[r].at \in {"status", "end"} /\ (run'[r].at = "end" => kind # "volume")
          /\ run[r].at = "delete" /\ row' = row
      BY <2>2, DeleteMoves DEF delete, afterRetention, at
    <3>2. ~scheduled /\ kind \in Kinds
      BY <3>1, HereAssumption DEF TInv, StagesOK, TypeOK
    <3> QED
      BY <3>1, <3>2 DEF RInv, RowsOK, over, Kinds, scheduled
  <2>3. CASE fail(r) /\ run[r].at \in {"list", "delete"}
    <3>3. \A stage \in onFailure(r) :
            stage \in {"status", "end", "clean"} /\ (stage = "end" => kind # "volume")
      BY <2>3 DEF onFailure, afterRetention, at
    <3>1. run'[r].at \in {"status", "end", "clean"} /\ (run'[r].at = "end" => kind # "volume")
          /\ row' = row
      BY <2>3, <3>3, FailMoves DEF fail, at
    <3>2. ~scheduled /\ kind \in Kinds
      BY <2>3, HereAssumption DEF TInv, StagesOK, TypeOK
    <3> QED
      BY <2>3, <3>1, <3>2 DEF RInv, RowsOK, over, Kinds, scheduled
  <2>4. CASE fail(r) /\ run[r].at \notin {"row", "list", "delete"}
    <3>2. onFailure(r) \subseteq {"lost", "start", "unload", "notifyError", "error", "clean"}
      BY <2>4 DEF onFailure, at
    <3>1. run'[r].at \in {"lost", "start", "unload", "notifyError", "error", "clean"}
      BY <2>4, <3>2, FailMoves
    <3> QED
      BY <3>1 DEF over, at
  <2>5. CASE Step(r) /\ ~(status(r) \/ error(r) \/ delete(r))
    <3>1. ~over(r)'
      BY <2>5, Moves, InspectMoves, StartMoves, ListMoves
         DEF Step, over, stays, afterRow
    <3> QED
      BY <3>1
  <2> QED
    BY <2>1, <2>2, <2>3, <2>4, <2>5 DEF at
<1>4. row[r] # "none" => row'[r] # "none"
  BY DEF Step, supersede, insertRow, find, takeLock, inspect, stop, tar, start, upload, unload,
  remove,
         missArchive, list, delete, proceed, status, clean, notifyError, error, fail, host,
         TInv, TypeOK
<1>5. kind = "backup" /\ run'[r].at \in {"list", "delete"} => row'[r] # "running"
  <2>1. CASE status(r)
    BY <2>1 DEF status, TInv, TypeOK
  <2>2. CASE list(r)
    BY <2>2 DEF list, at, RInv, RowsOK
  <2>3. CASE remove(r)
    BY <2>3 DEF remove, at, TInv, StagesOK
  <2>4. CASE ~(status(r) \/ list(r) \/ remove(r))
    <3>1. Step(r) => run'[r].at \notin {"list", "delete"}
      BY <2>4, Moves, InspectMoves, StartMoves, DeleteMoves
         DEF Step, stays, afterRow, afterRetention
    <3>3. onFailure(r) \cap {"list", "delete"} = {}
      BY DEF onFailure, afterRetention
    <3>2. fail(r) => run'[r].at \notin {"list", "delete"}
      BY <3>3, FailMoves
    <3> QED
      BY <3>1, <3>2
  <2> QED
    BY <2>1, <2>2, <2>3, <2>4
<1>6. RowsOK'
  <2>1. \A s \in Runs : row'[s] = "running" =>
          ~over(s)' \/ at(s, "lost")' \/ at(s, "dead")'
    BY <1>2, <1>3 DEF RInv, RowsOK, at
  <2>2. \A s \in Runs : row'[s] = "running" /\ at(s, "dead")' =>
          row[s] = "running" /\ at(s, "dead")
    BY <1>2, <1>3 DEF at, over
  <2>3. \A s \in boot.found : row'[s] # "none"
    BY <1>2, <1>4 DEF RInv, RowsOK, TInv, TypeOK
  <2>4. kind = "backup" =>
          \A s \in Runs : run'[s].at \in {"list", "delete"} => row'[s] # "running"
    BY <1>2, <1>5 DEF RInv, RowsOK
  <2> QED
    BY <1>1, <2>1, <2>2, <2>3, <2>4 DEF RInv, RowsOK
<1>7. RunningRowsAreRuns'
  BY <1>1, <1>2, <1>3 DEF RInv, RunningRowsAreRuns, at
<1> QED
  BY <1>6, <1>7 DEF RInv

LEMMA RowsOtherwise ==
  ASSUME TInv, RInv, begin \/ deploy \/ restart \/ selectRunning \/ cancelRunning \/ sweepFails
  PROVE  RInv'
<1>1. CASE begin
  <2>1. PICK r \in Runs, j \in Jobs :
          /\ at(r, "none") /\ others(r)
          /\ run'[r].at = (IF scheduled THEN "supersede" ELSE "row")
    BY <1>1, BeginMoves
  <2>2. UNCHANGED <<rigid, boot, row>> /\ row[r] = "none"
    BY <1>1, <2>1 DEF begin, TInv, StagesOK, at
  <2>3. run'[r].at \in {"supersede", "row"}
    BY <2>1
  <2> QED
    BY <2>1, <2>2, <2>3 DEF RInv, RowsOK, RunningRowsAreRuns, others, rigid, over, at
<1>2. CASE deploy
  BY <1>2 DEF deploy, RInv, RowsOK, RunningRowsAreRuns, rigid, over, at
<1>3. CASE restart
  <2>1. boot'.at \in {"read", "unswept"} /\ boot'.found = {}
    BY <1>3 DEF restart
  <2>2. /\ UNCHANGED <<kind, row>>
        /\ \A r \in Runs : run'[r].at \notin {"list", "delete"}
        /\ \A r \in Runs : run'[r].at = "dead" \/ (over(r) /\ run'[r] = run[r])
    BY <1>3, RestartMoves DEF restart, rigid, over
  <2>3. \A r \in Runs : row'[r] = "running" =>
          ~over(r)' \/ at(r, "lost")' \/ at(r, "dead")'
    BY <2>2 DEF RInv, RowsOK, over, at
  <2> QED
    BY <2>1, <2>2, <2>3 DEF RInv, RowsOK, RunningRowsAreRuns
<1>4. CASE selectRunning
  <2>1. UNCHANGED <<kind, run, row>> /\ boot'.at = "write" /\ boot'.found = toCancel
    BY <1>4 DEF selectRunning, rigid
  <2>2. \A r \in Runs : r \in toCancel <=> row[r] = "running" /\ kind # "schedule"
    BY DEF toCancel
  <2>3. \A r \in toCancel : row[r] # "none"
    BY DEF toCancel
  <2>4. \A r \in Runs : over(r)' = over(r) /\ at(r, "lost")' = at(r, "lost")
                        /\ at(r, "dead")' = at(r, "dead")
    BY <2>1 DEF over, at
  <2>5. RowsOK'
    BY <2>1, <2>2, <2>3, <2>4 DEF RInv, RowsOK
  <2> QED
    BY <2>1, <2>5 DEF RInv, RunningRowsAreRuns
<1>5. CASE cancelRunning
  <2>1. UNCHANGED <<rigid, run>> /\ boot.at = "write" /\ boot'.at = "up" /\ boot'.found = {}
    BY <1>5 DEF cancelRunning
  <2>2. \A r \in Runs : row'[r] = IF r \in boot.found THEN "cancelled" ELSE row[r]
    BY <1>5 DEF cancelRunning
  <2> QED
    BY <2>1, <2>2 DEF RInv, RowsOK, RunningRowsAreRuns, rigid, over, at
<1>6. CASE sweepFails
  <2>1. UNCHANGED <<rigid, run, row>> /\ boot'.at = "unswept" /\ boot'.found = {}
    BY <1>6 DEF sweepFails
  <2> QED
    BY <2>1 DEF RInv, RowsOK, RunningRowsAreRuns, rigid, over, at
<1> QED
  BY <1>1, <1>2, <1>3, <1>4, <1>5, <1>6

-----------------------------------------------------------------------------
(* One running row of a schedule                                           *)

\* A step after which no run is newly at its row and no row newly running.
LEMMA SingleKept ==
  ASSUME SingleOK, UNCHANGED kind, raced \subseteq raced',
         \A s \in Runs : at(s, "row")' => at(s, "row"),
         \A s \in Runs : row'[s] = "running" => row[s] = "running",
         \A s \in Runs : at(s, "row")' \/ row'[s] = "running" => jobOf(s)' = jobOf(s)
  PROVE  SingleOK'
BY DEF SingleOK, scheduled

LEMMA SingleStep == ASSUME TInv, SingleOK, NEW r \in Runs, Step(r) \/ fail(r) PROVE SingleOK'
<1>1. \A s \in Runs : jobOf(s)' = jobOf(s)
  BY OthersKeep, ActorKeeps
<1>2. \A s \in Runs \ {r} : /\ at(s, "row")' = at(s, "row")
                            /\ row'[s] = "running" => row[s] = "running"
  BY OthersKeep, Shares DEF at
<1>3. kind' = kind
  BY ActorKeeps
<1>4. CASE supersede(r)
  <2>1. \A s \in Runs : row'[s] = "running" => row[s] = "running" /\ jobOf(s) # jobOf(r)
    BY <1>4 DEF supersede, toSupersede, TInv, TypeOK
  <2>2. /\ raced \subseteq raced'
        /\ \A s \in Runs : at(s, "row") /\ jobOf(s) = jobOf(r) => jobOf(r) \in raced'
    BY <1>4 DEF supersede
  <2> QED
    BY <1>1, <1>2, <1>3, <2>1, <2>2 DEF SingleOK, scheduled
<1>5. CASE insertRow(r)
  <2>1. at(r, "row") /\ ~at(r, "row")' /\ raced' = raced
    <3>1. afterRow(r) # "row"
      BY DEF afterRow
    <3> QED
      BY <1>5, <3>1, Moves DEF insertRow, stays, at, ghost
  <2> QED
    BY <1>1, <1>2, <1>3, <2>1 DEF SingleOK, scheduled
<1>6. CASE ~(supersede(r) \/ insertRow(r))
  <2>1. ~at(r, "row")'
    <3>1. Step(r) => run'[r].at # "row"
      BY <1>6, Moves, InspectMoves, StartMoves, ListMoves, DeleteMoves
         DEF Step, stays, afterRetention
    <3>3. "row" \notin onFailure(r)
      BY DEF onFailure, afterRetention
    <3>2. fail(r) => run'[r].at # "row"
      BY <3>3, FailMoves
    <3> QED
      BY <3>1, <3>2 DEF at
  <2>2. row'[r] = "running" => row[r] = "running"
    BY <1>6 DEF Step, find, takeLock, inspect, stop, tar, start, upload, unload, remove,
       missArchive, list,
                delete, proceed, status, clean, notifyError, error, fail, host, TInv, TypeOK
  <2>3. raced' = raced
    BY <1>6 DEF Step, find, takeLock, inspect, stop, tar, start, upload, unload, remove,
       missArchive, list,
                delete, proceed, status, clean, notifyError, error, fail, ghost
  <2> QED
    BY <1>1, <1>2, <1>3, <2>1, <2>2, <2>3, SingleKept
<1> QED
  BY <1>4, <1>5, <1>6

LEMMA SingleOtherwise ==
  ASSUME TInv, SingleOK, begin \/ deploy \/ restart \/ selectRunning \/ cancelRunning \/ sweepFails
  PROVE  SingleOK'
<1>1. CASE begin
  <2>1. PICK r \in Runs, j \in Jobs :
          /\ at(r, "none") /\ others(r)
          /\ run'[r].at = (IF scheduled THEN "supersede" ELSE "row")
    BY <1>1, BeginMoves
  <2>2. UNCHANGED <<kind, row, raced>> /\ row[r] = "none"
    BY <1>1, <2>1 DEF begin, rigid, ghost, TInv, StagesOK, at
  <2>3. CASE ~scheduled
    BY <2>2, <2>3 DEF SingleOK, scheduled
  <2>4. CASE scheduled
    <3>1. ~at(r, "row")'
      BY <2>1, <2>4 DEF at
    <3> QED
      BY <2>1, <2>2, <3>1, SingleKept DEF others, at, jobOf
  <2> QED
    BY <2>3, <2>4
<1>2. CASE deploy
  BY <1>2, SingleKept DEF deploy, rigid, at, jobOf
<1>3. CASE restart
  <2>1. UNCHANGED <<kind, row, raced>>
    BY <1>3 DEF restart, rigid
  <2>2. \A s \in Runs : jobOf(s)' = jobOf(s) /\ ~at(s, "row")'
    BY <1>3, RestartMoves DEF sameName, jobOf, at, over
  <2> QED
    BY <2>1, <2>2, SingleKept
<1>4. CASE selectRunning \/ cancelRunning \/ sweepFails
  <2>1. UNCHANGED <<kind, run, raced>>
    BY <1>4 DEF selectRunning, cancelRunning, sweepFails, rigid, ghost
  <2>2. \A s \in Runs : row'[s] = "running" => row[s] = "running"
    BY <1>4 DEF selectRunning, cancelRunning, sweepFails
  <2> QED
    BY <2>1, <2>2, SingleKept DEF at, jobOf
<1> QED
  BY <1>1, <1>2, <1>3, <1>4

LEMMA PairsCount == SingleOK => OneRunningRow
<1> SUFFICES ASSUME SingleOK, scheduled, NEW j \in Jobs \ raced
      PROVE Cardinality({r \in Runs : jobOf(r) = j /\ row[r] = "running"}) <= 1
  BY DEF OneRunningRow
<1> DEFINE S == {r \in Runs : jobOf(r) = j /\ row[r] = "running"}
<1>1. \A r, s \in S : r = s
  BY DEF SingleOK
<1>2. CASE S = {}
  BY <1>2, FS_EmptySet
<1>3. CASE S # {}
  <2>1. PICK r \in S : S = {r}
    BY <1>1, <1>3
  <2> HIDE DEF S
  <2> QED
    BY <2>1, FS_Singleton DEF S
<1> QED
  BY <1>2, <1>3

-----------------------------------------------------------------------------
(* What the retention deletes                                              *)

KInv == TodoOK /\ AloneKeepsRecent

LEMMA RunsFinite == IsFiniteSet(Runs)
BY BoundsAssumption, FS_Interval DEF Runs

\* Runs that put an archive into the bucket are named for good, and an archive that
\* is not recent never becomes so again.
LEMMA RecentFades ==
  ASSUME TInv, stored \subseteq stored', stored' \subseteq Runs,
         \A s \in stored' : run'[s].job = run[s].job /\ run'[s].stamp = run[s].stamp,
         NEW j \in Jobs, NEW s \in recent(j, stored)', s \in uploaded
  PROVE  s \in recent(j, stored)
<1> DEFINE newer == {r \in stored : jobOf(r) = j /\ later(r, s)}
           newer2 == {r \in stored' : jobOf(r)' = j /\ later(r, s)'}
<1>1. jobOf(s)' = j /\ (Keep[j] = 0 \/ Cardinality(newer2) < Keep[j])
  BY DEF recent
<1>2. jobOf(s) = j /\ newer \subseteq newer2
  <2>1. s \in stored'
    BY DEF TInv, TypeOK
  <2> QED
    BY <1>1, <2>1 DEF later, jobOf
<1>3. IsFiniteSet(newer2)
  <2>1. newer2 \subseteq Runs
    OBVIOUS
  <2> HIDE DEF newer2
  <2> QED
    BY <2>1, RunsFinite, FS_Subset
<1>4. IsFiniteSet(newer) /\ Cardinality(newer) <= Cardinality(newer2)
  BY <1>2, <1>3, FS_Subset
<1>5. Cardinality(newer) \in Nat /\ Cardinality(newer2) \in Nat /\ Keep[j] \in Nat
  BY <1>3, <1>4, FS_CardinalityType, KeepAssumption
<1>6. Keep[j] = 0 \/ Cardinality(newer) < Keep[j]
  BY <1>1, <1>4, <1>5
<1> QED
  BY <1>2, <1>6 DEF recent

\* What a run is to delete is nothing a job that is alone keeps.
LEMMA BeyondNotRecent ==
  ASSUME TInv, NEW r \in Runs, retains(r), NEW j \in Jobs, alone(j), jobOf(r) \in Jobs,
         NEW s \in beyond(matched(jobOf(r)), Keep[jobOf(r)])
  PROVE  s \notin recent(j, stored)
<1> SUFFICES ASSUME s \in recent(j, stored) PROVE FALSE
  OBVIOUS
<1> DEFINE newer == {x \in stored : jobOf(x) = j /\ later(x, s)}
           seen == {x \in matched(jobOf(r)) : later(x, s)}
<1>1. jobOf(s) = j /\ (Keep[j] = 0 \/ Cardinality(newer) < Keep[j])
  BY DEF recent
<1>2. s \in matched(jobOf(r)) /\ Cardinality(seen) >= Keep[jobOf(r)]
  BY DEF beyond
<1>3. jobOf(r) = j
  BY <1>1, <1>2 DEF matched, alone
<1>4. seen \subseteq newer
  <2>1. \A x \in matched(j) : x \in stored /\ jobOf(x) \in Matches[j] /\ jobOf(x) \in Jobs
    BY DEF matched, TInv, TypeOK, Run, jobOf, begun
  <2>2. \A x \in matched(j) : jobOf(x) = j
    BY <2>1 DEF alone
  <2> QED
    BY <1>3, <2>1, <2>2
<1>5. IsFiniteSet(newer)
  <2>1. newer \subseteq Runs
    BY DEF TInv, TypeOK, begun
  <2> HIDE DEF newer
  <2> QED
    BY <2>1, RunsFinite, FS_Subset
<1>6. IsFiniteSet(seen) /\ Cardinality(seen) <= Cardinality(newer)
  BY <1>4, <1>5, FS_Subset
<1>7. Cardinality(seen) \in Nat /\ Cardinality(newer) \in Nat /\ Keep[j] \in Nat
  BY <1>5, <1>6, FS_CardinalityType, KeepAssumption
<1>8. Keep[j] # 0
  BY <1>3, <1>7 DEF retains
<1> QED
  BY <1>1, <1>2, <1>3, <1>6, <1>7, <1>8

\* A step that deletes no whole archive, plans to delete nothing and uploads at most
\* what goes into the bucket and was not in it before, in part.
LEMMA KeepKept ==
  ASSUME TInv, TInv', KInv, bucket \cap uploaded \subseteq bucket',
         stored \subseteq stored', uploaded' \ uploaded \subseteq bucket' \ stored,
         \A s \in stored' : run'[s].job = run[s].job /\ run'[s].stamp = run[s].stamp,
         \A s \in Runs : run'[s].todo \subseteq run[s].todo
  PROVE  KInv'
<1>1. stored' \subseteq Runs
  BY DEF TInv, TypeOK, begun
<1>2. \A j \in Jobs : alone(j)' = alone(j)
  BY DEF alone
<1>3. ASSUME NEW j \in Jobs, alone(j), NEW s \in recent(j, stored)' PROVE s \in bucket'
  <2>1. s \in uploaded'
    BY DEF recent
  <2>2. CASE s \in uploaded
    BY <1>1, <1>3, <2>2, RecentFades DEF KInv, AloneKeepsRecent
  <2> QED
    BY <2>1, <2>2
<1>4. ASSUME NEW r \in Runs, NEW j \in Jobs, alone(j), NEW s \in run'[r].todo
      PROVE  s \notin recent(j, stored)'
  <2>1. s \in run[r].todo /\ s \in stored
    BY <1>4 DEF KInv, TodoOK
  <2>2. s \notin recent(j, stored)
    BY <1>4, <2>1 DEF KInv, TodoOK
  <2>3. s \in recent(j, stored)' => s \in uploaded
    BY <2>1 DEF recent
  <2> QED
    BY <1>1, <2>2, <2>3, RecentFades
<1>5. AloneKeepsRecent'
  BY <1>2, <1>3 DEF AloneKeepsRecent
<1>6. TodoOK'
  <2>1. \A r \in Runs : run'[r].todo \subseteq stored'
    BY DEF KInv, TodoOK
  <2> QED
    BY <1>2, <1>4, <2>1 DEF TodoOK
<1> QED
  BY <1>5, <1>6 DEF KInv

LEMMA KeepStep == ASSUME TInv, KInv, NEW r \in Runs, Step(r) \/ fail(r) PROVE KInv'
<1>1. TInv'
  BY RunStep
<1>2. /\ stored \subseteq stored' /\ stored' \subseteq stored \cup {r}
      /\ (r \in stored' \ stored => at(r, "upload"))
  BY Shares
<1>3. \A s \in stored' : run'[s].job = run[s].job /\ run'[s].stamp = run[s].stamp
  <2>1. ~at(r, "row") \/ r \notin stored'
    BY <1>2 DEF TInv, StagesOK, at, early
  <2> QED
    BY <1>1, <2>1, Moves DEF others, TInv, TypeOK, begun
<1>4. stored' \subseteq Runs
  BY <1>1 DEF TInv, TypeOK, begun
<1>5. \A j \in Jobs : alone(j)' = alone(j)
  BY DEF alone
<1>6. CASE list(r)
  <2>1. /\ run'[r].todo = beyond(matched(jobOf(r)), Keep[jobOf(r)])
        /\ \A s \in Runs \ {r} : run'[s].todo = run[s].todo
    BY <1>6, ListMoves DEF others
  <2>2. UNCHANGED <<bucket, stored, uploaded>> /\ retains(r) /\ jobOf(r) \in Jobs
    BY <1>6 DEF list, host, ghost, TInv, StagesOK, TypeOK, Run, at, jobOf
  <2>3. ASSUME NEW j \in Jobs, alone(j) PROVE recent(j, stored)' \subseteq recent(j, stored)
    <3>1. recent(j, stored)' \subseteq uploaded
      BY <2>2 DEF recent
    <3> QED
      BY <1>2, <1>3, <1>4, <3>1, RecentFades
  <2>4. ASSUME NEW j \in Jobs, alone(j), NEW s \in Runs
        PROVE  run'[s].todo \cap recent(j, stored) = {}
    <3>1. CASE s = r
      BY <2>1, <2>2, <2>4, <3>1, BeyondNotRecent
    <3>2. CASE s # r
      BY <2>1, <2>4, <3>2 DEF KInv, TodoOK
    <3> QED
      BY <3>1, <3>2
  <2>5. \A s \in Runs : run'[s].todo \subseteq stored
    <3>1. beyond(matched(jobOf(r)), Keep[jobOf(r)]) \subseteq stored
      BY DEF beyond, matched, TInv, TypeOK
    <3> QED
      BY <2>1, <3>1 DEF KInv, TodoOK
  <2> QED
    BY <1>5, <2>2, <2>3, <2>4, <2>5 DEF KInv, TodoOK, AloneKeepsRecent
<1>7. CASE delete(r)
  <2>1. /\ run'[r].todo = {} /\ \A s \in Runs \ {r} : run'[s].todo = run[s].todo
        /\ bucket' = bucket \ run[r].todo /\ UNCHANGED <<stored, uploaded>>
    BY <1>7, DeleteMoves DEF others, delete, ghost
  <2>2. ASSUME NEW j \in Jobs, alone(j) PROVE recent(j, stored)' \subseteq recent(j, stored)
    <3>1. recent(j, stored)' \subseteq uploaded
      BY <2>1 DEF recent
    <3> QED
      BY <1>2, <1>3, <1>4, <3>1, RecentFades
  <2>3. AloneKeepsRecent'
    BY <1>5, <2>1, <2>2 DEF KInv, TodoOK, AloneKeepsRecent
  <2>4. TodoOK'
    BY <1>5, <2>1, <2>2 DEF KInv, TodoOK
  <2> QED
    BY <2>3, <2>4 DEF KInv
<1>8. CASE ~(list(r) \/ delete(r))
  <2>1. \A s \in Runs : run'[s].todo \subseteq run[s].todo
    <3>1. run'[r].todo = run[r].todo \/ run'[r].todo = {}
      BY <1>8, Moves, InspectMoves, StartMoves, FailMoves DEF Step, stays
    <3> QED
      BY <3>1, Moves DEF others
  <2>2. bucket \cap uploaded \subseteq bucket' /\ uploaded' \ uploaded \subseteq bucket' \ stored
    <3>1. CASE upload(r)
      <4>1. r \notin stored
        BY <3>1 DEF upload, TInv, StagesOK, at, early
      <4> QED
        BY <3>1, <4>1 DEF upload
    <3>2. CASE unload(r)
      <4>1. r \notin uploaded
        BY <3>2 DEF unload, TInv, StagesOK
      <4> QED
        BY <3>2, <4>1 DEF unload, ghost
    <3>3. CASE fail(r)
      BY <3>3 DEF fail
    <3>4. CASE Step(r) /\ ~(upload(r) \/ unload(r))
      BY <1>8, <3>4 DEF Step, supersede, insertRow, find, takeLock, inspect, stop, tar, start,
         remove, missArchive, proceed, status, clean, notifyError, error, host, ghost
    <3> QED
      BY <3>1, <3>2, <3>3, <3>4
  <2> QED
    BY <1>1, <1>2, <1>3, <2>1, <2>2, KeepKept
<1> QED
  BY <1>6, <1>7, <1>8

LEMMA KeepOtherwise ==
  ASSUME TInv, TInv', KInv, begin \/ deploy \/ restart \/ selectRunning \/ cancelRunning
                                  \/ sweepFails
  PROVE  KInv'
<1>2. CASE begin
  <2>1. PICK r \in Runs, j \in Jobs :
          at(r, "none") /\ others(r) /\ run'[r].todo = {}
    BY <1>2, BeginMoves
  <2>2. r \notin stored /\ UNCHANGED <<bucket, stored, uploaded>>
    BY <1>2, <2>1 DEF TInv, StagesOK, at, early, begin, host, ghost
  <2> QED
    BY <2>1, <2>2, KeepKept DEF others, TInv, TypeOK, begun
<1>3. CASE restart
  <2>1. \A s \in Runs :
          sameName(s) /\ (run'[s].todo = run[s].todo \/ run'[s].todo = {})
    BY <1>3, RestartMoves
  <2>2. bucket \subseteq bucket' /\ stored \subseteq stored' /\ uploaded' = uploaded
    BY <1>3 DEF restart
  <2>3. stored' \subseteq Runs
    BY DEF TInv, TypeOK, begun
  <2> QED
    BY <2>1, <2>2, <2>3, KeepKept DEF sameName
<1>4. CASE deploy \/ selectRunning \/ cancelRunning \/ sweepFails
  <2>1. UNCHANGED <<run, bucket, stored, uploaded>>
    BY <1>4 DEF deploy, selectRunning, cancelRunning, sweepFails, host, ghost
  <2> QED
    BY <2>1, KeepKept
<1> QED
  BY <1>2, <1>3, <1>4

-----------------------------------------------------------------------------
LEMMA Parts ==
  /\ IInv <=> TInv /\ SInv /\ EInv /\ RInv /\ SingleOK /\ KInv
  /\ IInv' <=> TInv' /\ SInv' /\ EInv' /\ RInv' /\ SingleOK' /\ KInv'
BY DEF IInv, TInv, SInv, EInv, RInv, KInv

LEMMA InitInvariant == Init => IInv
<1> SUFFICES ASSUME Init PROVE IInv
  OBVIOUS
<1>1. \A r \in Runs :
        /\ run[r].at = "none" /\ run[r].stamp = 0 /\ run[r].ok = TRUE /\ run[r].todo = {}
        /\ row[r] = "none"
  BY DEF Init, nowhere
<1>2. TInv
  <2>1. run \in [Runs -> Run] /\ row \in [Runs -> Statuses]
    BY Runners DEF Init, Statuses
  <2>2. MaxScale \in Scale /\ 0 \in 0..MaxEvents
    BY BoundsAssumption DEF Scale
  <2>3. TypeOK
    BY <1>1, <2>1, <2>2 DEF Init, TypeOK, over
  <2>4. 0 \notin Runs
    BY DEF Runs
  <2> QED
    BY <1>1, <2>3, <2>4 DEF Init, TInv, StagesOK, LockOK, at, Locked
<1>3. SInv
  BY DEF Init, SInv, ScaleOK, ServiceRestored, inWindow, nowhere
<1>4. EInv
  BY <1>1 DEF EInv, ErrorsOK, FailuresExplained
<1>5. RInv /\ SingleOK
  BY <1>1 DEF Init, RInv, RowsOK, RunningRowsAreRuns, SingleOK, at
<1>6. KInv
  BY <1>1 DEF Init, KInv, TodoOK, AloneKeepsRecent, recent
<1> QED
  BY <1>2, <1>3, <1>4, <1>5, <1>6, Parts

LEMMA StepInvariant == IInv /\ [Next]_vars => IInv'
<1> SUFFICES ASSUME IInv, [Next]_vars PROVE IInv'
  OBVIOUS
<1>1. TInv /\ SInv /\ EInv /\ RInv /\ SingleOK /\ KInv /\ RowsOK
  BY Parts DEF RInv
<1>2. ASSUME NEW r \in Runs, Step(r) \/ fail(r) PROVE IInv'
  BY <1>1, <1>2, RunStep, ScaleStep, ErrorsStep, RowsStep, SingleStep, KeepStep, Parts
<1>3. CASE begin \/ deploy \/ restart \/ selectRunning \/ cancelRunning \/ sweepFails
  <2>1. TInv'
    BY <1>1, <1>3, BeginTyped, DeployTyped, RestartTyped, BootTyped
  <2> QED
    BY <1>1, <1>3, <2>1, ScaleOtherwise, ErrorsOtherwise, RowsOtherwise, SingleOtherwise,
       KeepOtherwise, Parts
<1>4. CASE UNCHANGED vars
  <2>1. TInv'
    BY <1>1, <1>4, StutterTyped
  <2>2. UNCHANGED <<kind, turnOff, run, row, replicas, wanted, local, bucket, boot, failed,
                    robbed, stored, uploaded, harmed, raced>>
    BY <1>4 DEF vars, rigid, host, ghost
  <2>3. SInv' /\ EInv'
    BY <1>1, <2>2 DEF SInv, ScaleOK, ServiceRestored, EInv, ErrorsOK, FailuresExplained,
                      inWindow, offTurning, jobOf, at
  <2>4. RInv' /\ SingleOK'
    BY <1>1, <2>2 DEF RInv, RowsOK, RunningRowsAreRuns, SingleOK, scheduled, over, at, jobOf
  <2>5. KInv'
    BY <1>1, <2>1, <2>2, KeepKept
  <2> QED
    BY <2>1, <2>3, <2>4, <2>5, Parts
<1> QED
  BY <1>2, <1>3, <1>4 DEF Next

LEMMA Invariant == Spec => []IInv
BY InitInvariant, StepInvariant, PTL DEF Spec

\* Every variable keeps its type: a run that is going on has its row, and only a
\* run between taking and releasing the lock, or one that died with it, holds it.
THEOREM TypeCorrect == Spec => []TypeOK
<1>1. IInv => TypeOK
  BY DEF IInv
<1> QED
  BY <1>1, Invariant, PTL

\* However many backups of the volumes of a service run at once, the service is
\* back at the scale its last deployment gave it when none of them has it stopped.
THEOREM ScaleRestored == Spec => []ServiceRestored
<1>1. IInv => ServiceRestored
  BY DEF IInv
<1> QED
  BY <1>1, Invariant, PTL

\* No other job makes a backup fail, and another run of its own job only by removing
\* the archive the backup is about to upload.
THEOREM FailuresHaveReasons == Spec => []FailuresExplained
<1>1. IInv => FailuresExplained
  BY DEF IInv
<1> QED
  BY <1>1, Invariant, PTL

\* The retention keeps the newest archives of a job that shares no pattern, however
\* its runs interleave between listing the archives and deleting them and wherever
\* they fail, but for one archive for every part of one that was ever in the bucket.
THEOREM RetentionKeepsRecent == Spec => []AloneKeepsRecent
<1>1. IInv => AloneKeepsRecent
  BY DEF IInv
<1> QED
  BY <1>1, Invariant, PTL

\* Once a server has swept, a running row is the row of a run, but for failures that
\* were not handled and the schedules of a server that died.
THEOREM RowsEnd == Spec => []RunningRowsAreRuns
<1>1. IInv => RunningRowsAreRuns
  BY DEF IInv
<1> QED
  BY <1>1, Invariant, PTL

\* Two rows of a schedule run at once only if two runs overlapped in making them.
THEOREM RowsOfSchedulesSingle == Spec => []OneRunningRow
<1>1. IInv => OneRunningRow
  BY PairsCount DEF IInv
<1> QED
  BY <1>1, Invariant, PTL

-----------------------------------------------------------------------------
(* The stages of the runs implement the window of the service              *)

\* No run brings a scale to the lock, or keeps one beyond giving it back.
NothingKept == \A r \in Runs : ~inWindow(r) => run[r].saved = 0

LEMMA NothingKeptStep ==
  ASSUME TInv, NothingKept, NEW r \in Runs, Step(r) \/ fail(r)
  PROVE  NothingKept'
<1> SUFFICES ASSUME NEW s \in Runs, ~inWindow(s)' PROVE run'[s].saved = 0
  BY DEF NothingKept
<1>1. inWindow(s) \/ run[s].saved = 0
  BY DEF NothingKept
<1>2. CASE s # r
  BY <1>1, <1>2, OthersKeep
<1>3. CASE s = r
  <2>1. ~(offTurning(r) /\ run'[r].at \in {"stop", "tar", "start"})
    BY <1>3, ActorKeeps DEF inWindow
  <2>2. run[r].at \in {"lock", "inspect", "stop", "start"} => offTurning(r)
    BY DEF TInv, StagesOK
  <2>3. CASE start(r)
    BY <1>3, <2>3, StartMoves
  <2>4. CASE fail(r)
    <3>1. "start" \notin onFailure(r) \/ offTurning(r)
      BY DEF onFailure, afterRetention
    <3> QED
      BY <1>3, <2>1, <2>4, <3>1, FailMoves
  <2>5. CASE inspect(r)
    BY <2>1, <2>2, <2>5, InspectMoves DEF inspect, at
  <2>6. CASE stop(r) \/ tar(r)
    BY <1>1, <1>3, <2>1, <2>2, <2>6, Moves DEF stop, tar, stays, at, inWindow
  <2>7. CASE ~(start(r) \/ fail(r) \/ inspect(r) \/ stop(r) \/ tar(r))
    <3>1. run'[r].saved = run[r].saved
      BY <2>7, Moves, ListMoves, DeleteMoves DEF Step, stays
    <3>2. run[r].at \notin {"stop", "tar", "start"}
      BY <2>7 DEF Step, supersede, insertRow, find, takeLock, upload, unload, remove,
                  missArchive, list, delete, proceed, status, clean, notifyError, error, at
    <3> QED
      BY <1>1, <1>3, <3>1, <3>2 DEF inWindow
  <2> QED
    BY <2>3, <2>4, <2>5, <2>6, <2>7
<1> QED
  BY <1>2, <1>3

LEMMA NothingKeptOtherwise ==
  ASSUME TInv, NothingKept,
         begin \/ deploy \/ restart \/ selectRunning \/ cancelRunning \/ sweepFails
         \/ UNCHANGED vars
  PROVE  NothingKept'
<1>1. CASE begin
  <2>1. PICK r \in Runs : others(r) /\ run'[r].saved = 0
    BY <1>1, BeginMoves
  <2>2. UNCHANGED rigid
    BY <1>1 DEF begin
  <2> QED
    BY <2>1, <2>2 DEF NothingKept, others, inWindow, offTurning, jobOf, rigid
<1>2. CASE restart
  <2>1. \A r \in Runs : over(r) => ~inWindow(r)
    BY DEF over, inWindow
  <2> QED
    BY <1>2, <2>1, RestartMoves DEF NothingKept
<1>3. CASE deploy \/ selectRunning \/ cancelRunning \/ sweepFails \/ UNCHANGED vars
  BY <1>3 DEF deploy, selectRunning, cancelRunning, sweepFails, vars, rigid, NothingKept, inWindow,
              offTurning, jobOf
<1> QED
  BY <1>1, <1>2, <1>3

\* Whoever is in the window holds the lock, and only who has looked knows a scale.
WindowHeld ==
  /\ \A r \in Runs : r \in inWindows => lock = r
  /\ inWindows = {} \/ (lock \in Runs /\ inWindows = {lock})
  /\ inWindows = {} => scaleFound = 0
  /\ inWindows # {} => scaleFound = run[lock].saved

LEMMA InsideHoldsLock ==
  /\ TInv => WindowHeld
  /\ TInv' => WindowHeld'
<1>1. TInv => WindowHeld
  <2> SUFFICES ASSUME TInv PROVE WindowHeld
    OBVIOUS
  <2>1. \A r \in Runs : r \in inWindows => lock = r
    BY DEF TInv, LockOK, inWindows
  <2>2. inWindows \subseteq Runs
    BY DEF inWindows
  <2>3. inWindows = {} \/ (lock \in Runs /\ inWindows = {lock})
    BY <2>1, <2>2
  <2> QED
    BY <2>1, <2>3 DEF WindowHeld, scaleFound
<1> QED
  BY <1>1, PTL

\* The scale of the service is touched by the run in the window only.
LEMMA ScaleTouched ==
  ASSUME TInv, NEW r \in Runs, Step(r) \/ fail(r), lock # r
  PROVE  replicas' = replicas
<1>1. run[r].at \in {"stop", "start"} => offTurning(r)
  BY DEF TInv, StagesOK
<1>2. ~(at(r, "stop") \/ at(r, "start"))
  BY <1>1 DEF TInv, LockOK, at, Locked
<1> QED
  BY <1>2 DEF Step, fail, supersede, insertRow, find, takeLock, inspect, stop, tar, start, upload,
     unload,
          remove, missArchive, list, delete, proceed, status, clean, notifyError, error, host

\* A step of a run that does not hold the lock takes it, or is not seen.
LEMMA OutsideStep ==
  ASSUME TInv, NothingKept, NEW r \in Runs, Step(r) \/ fail(r), lock # r
  PROVE  [Window!Next]_(Window!vars)
<1>1. TInv' /\ NothingKept'
  BY RunStep, NothingKeptStep
<1>2. replicas' = replicas
  BY ScaleTouched
<1>3. r \notin inWindows
  BY InsideHoldsLock DEF WindowHeld
<1>4. CASE takeLock(r)
  <2>1. lock = 0 /\ lock' = r /\ offTurning(r) /\ 0 \notin Runs
    BY <1>4 DEF takeLock, free, TInv, StagesOK, at, Runs
  <2>2. inWindows = {} /\ scaleFound = 0
    BY <2>1, InsideHoldsLock DEF WindowHeld
  <2>3. run'[r].at = "inspect" /\ offTurning(r)'
    BY <1>4, <2>1, Moves, ActorKeeps DEF stays
  <2>4. r \in inWindows'
    BY <2>3 DEF inWindows, Locked
  <2>5. inWindows' = {r} /\ scaleFound' = run'[r].saved
    BY <1>1, <2>1, <2>4, InsideHoldsLock DEF WindowHeld
  <2>6. run'[r].saved = 0
    BY <1>1, <2>3 DEF NothingKept, inWindow
  <2>7. Window!Enter(r)
    BY <1>2, <2>2, <2>5, <2>6 DEF Window!Enter
  <2> QED
    BY <2>7 DEF Window!Next
<1>5. CASE ~takeLock(r)
  <2>1. lock' = lock
    BY <1>5, LockMoves
  <2>2. r \notin inWindows'
    BY <1>1, <2>1, InsideHoldsLock DEF WindowHeld
  <2>3. \A s \in Runs \ {r} : run'[s] = run[s] /\ offTurning(s)' = offTurning(s)
    BY OthersKeep
  <2>4. inWindows' = inWindows
    BY <1>3, <2>2, <2>3 DEF inWindows
  <2>5. scaleFound' = scaleFound
    BY <1>3, <2>1, <2>3, <2>4 DEF scaleFound, inWindows
  <2> QED
    BY <1>2, <2>4, <2>5 DEF Window!vars
<1> QED
  BY <1>4, <1>5

\* A step of the run that holds the lock is one of those of the window.
LEMMA InsideStep ==
  ASSUME TInv, NothingKept, NEW r \in Runs, Step(r) \/ fail(r), lock = r
  PROVE  [Window!Next]_(Window!vars)
<1>1. TInv' /\ NothingKept' /\ 0 \notin Runs
  BY RunStep, NothingKeptStep DEF Runs
<1>2. offTurning(r) /\ run[r].at \in Locked /\ offTurning(r)'
  <2>1. offTurning(r) /\ lock \in {0} \cup {s \in Runs : run[s].at \in Locked \cup {"dead"}}
    BY DEF TInv, LockOK, TypeOK
  <2> QED
    BY <1>1, <2>1, ActorKeeps DEF over
<1>3. r \in inWindows
  BY <1>2 DEF inWindows
<1>4. inWindows = {r} /\ scaleFound = run[r].saved
  BY <1>3, InsideHoldsLock DEF WindowHeld
<1>5. lock' = 0 => inWindows' = {} /\ scaleFound' = 0
  BY <1>1, InsideHoldsLock DEF WindowHeld
<1>6. lock' = r /\ run'[r].at \in Locked => inWindows' = {r} /\ scaleFound' = run'[r].saved
  <2>1. run'[r].at \in Locked => r \in inWindows'
    BY <1>2 DEF inWindows
  <2> QED
    BY <1>1, <2>1, InsideHoldsLock DEF WindowHeld
<1>7. lock' = 0 \/ (lock' = r /\ run'[r].at \in Locked)
  BY LockMoves DEF takeLock
<1>8. CASE inspect(r)
  <2>1. lock' = r /\ run'[r].saved = replicas /\ replicas' = replicas
    BY <1>8, InspectMoves DEF inspect, host
  <2>2. Window!Look
    BY <1>1, <1>4, <1>6, <1>7, <2>1 DEF Window!Look
  <2> QED
    BY <2>2 DEF Window!Next
<1>9. CASE stop(r)
  <2>1. lock' = r /\ run'[r].saved = run[r].saved /\ replicas' = 0
    BY <1>9, Moves DEF stop, stays
  <2>2. Window!Stop
    BY <1>1, <1>4, <1>6, <1>7, <2>1 DEF Window!Stop, Window!stay
  <2> QED
    BY <2>2 DEF Window!Next
<1>10. CASE start(r)
  <2>1. run'[r].saved = 0 /\ replicas' = run[r].saved
    BY <1>10, StartMoves DEF start
  <2>2. Window!GiveBack
    BY <1>4, <1>5, <1>6, <1>7, <2>1 DEF Window!GiveBack
  <2> QED
    BY <2>2 DEF Window!Next
<1>11. CASE tar(r) \/ upload(r)
  <2>1. lock' = r /\ run'[r].saved = run[r].saved /\ replicas' = replicas
    BY <1>11, Moves DEF tar, upload, stays
  <2> QED
    BY <1>1, <1>4, <1>6, <1>7, <2>1 DEF Window!vars
<1>12. CASE remove(r) \/ missArchive(r)
  <2>1. lock' = 0 /\ replicas' = replicas
    BY <1>12 DEF remove, missArchive, released
  <2>2. Window!Leave
    BY <1>4, <1>5, <2>1 DEF Window!Leave, Window!leave
  <2> QED
    BY <2>2 DEF Window!Next
<1>13. CASE fail(r)
  <2>1. CASE run'[r].at = "start"
    <3>1. at(r, "tar")
      <4>1. "start" \in onFailure(r) => at(r, "tar")
        BY DEF onFailure, afterRetention
      <4> QED
        BY <1>13, <2>1, <4>1, FailMoves
    <3>2. lock' = r /\ replicas' = replicas /\ run'[r].saved = run[r].saved
      BY <1>13, <2>1, <3>1, FailMoves DEF fail, at
    <3> QED
      BY <1>1, <1>4, <1>6, <1>7, <3>2 DEF Window!vars
  <2>2. CASE run'[r].at # "start"
    <3>1. lock' = 0 /\ (replicas' = replicas \/ replicas' = 0)
      BY <1>13, <2>2, FailMoves DEF fail, released
    <3>2. Window!Leave \/ Window!Stop
      BY <1>4, <1>5, <3>1 DEF Window!Leave, Window!Stop, Window!leave
    <3> QED
      BY <3>2 DEF Window!Next
  <2> QED
    BY <2>1, <2>2
<1> QED
  <2>1. ~(supersede(r) \/ insertRow(r) \/ find(r) \/ takeLock(r) \/ unload(r) \/ list(r)
          \/ delete(r) \/ proceed(r) \/ status(r) \/ clean(r) \/ notifyError(r) \/ error(r))
    BY <1>2 DEF supersede, insertRow, find, takeLock, unload, list, delete, proceed, status, clean,
                notifyError, error, at, Locked
  <2> QED
    BY <1>8, <1>9, <1>10, <1>11, <1>12, <1>13, <2>1 DEF Step

LEMMA WindowOtherwise ==
  ASSUME TInv,
         begin \/ deploy \/ restart \/ selectRunning \/ cancelRunning \/ sweepFails
         \/ UNCHANGED vars
  PROVE  [Window!Next]_(Window!vars)
<1>1. CASE begin
  <2>1. PICK r \in Runs :
          /\ at(r, "none") /\ others(r)
          /\ run'[r].at = (IF scheduled THEN "supersede" ELSE "row")
    BY <1>1, BeginMoves
  <2>2. UNCHANGED <<rigid, host>>
    BY <1>1 DEF begin
  <2>3. r \notin inWindows /\ r \notin inWindows'
    BY <2>1 DEF inWindows, at, Locked
  <2>4. inWindows' = inWindows
    BY <2>1, <2>2, <2>3 DEF inWindows, others, offTurning, jobOf, rigid
  <2>5. scaleFound' = scaleFound
    BY <2>1, <2>2, <2>3, <2>4 DEF scaleFound, inWindows, others, host
  <2> QED
    BY <2>2, <2>4, <2>5 DEF Window!vars, host
<1>2. CASE deploy
  <2>1. PICK n \in Scale : replicas' = n
    BY <1>2 DEF deploy
  <2>2. inWindows' = inWindows /\ scaleFound' = scaleFound
    BY <1>2 DEF deploy, rigid, inWindows, scaleFound, offTurning, jobOf
  <2>3. Window!Deploy(n)
    BY <2>1, <2>2 DEF Window!Deploy
  <2> QED
    BY <2>3 DEF Window!Next
<1>3. CASE restart
  <2>1. inWindows' = {}
    BY <1>3, RestartMoves DEF inWindows, over, Locked
  <2>2. scaleFound' = 0 /\ replicas' = replicas
    BY <1>3, <2>1 DEF scaleFound, restart
  <2>3. CASE inWindows = {}
    BY <2>1, <2>2, <2>3, InsideHoldsLock DEF WindowHeld, Window!vars
  <2>4. CASE inWindows # {}
    <3>1. Window!Leave
      BY <2>1, <2>2, <2>4 DEF Window!Leave, Window!leave
    <3> QED
      BY <3>1 DEF Window!Next
  <2> QED
    BY <2>3, <2>4
<1>4. CASE selectRunning \/ cancelRunning \/ sweepFails \/ UNCHANGED vars
  BY <1>4 DEF selectRunning, cancelRunning, sweepFails, vars, rigid, host, inWindows, scaleFound,
              offTurning, jobOf, Window!vars
<1> QED
  BY <1>1, <1>2, <1>3, <1>4

\* The backups of the volumes of a service, with all their failures, restarts of
\* the server and deployments in between, are those of ServiceWindow: the lock
\* lets one at a time look at the scale, stop the service and give the scale back.
THEOREM WindowRefinement == Spec => ImplementsServiceWindow
<1>1. Init => Window!Init
  <2> SUFFICES ASSUME Init PROVE Window!Init
    OBVIOUS
  <2>1. \A r \in Runs : run[r].at = "none"
    BY DEF Init, nowhere
  <2>2. inWindows = {}
    BY <2>1 DEF inWindows, Locked
  <2>3. MaxScale \in Scale
    BY BoundsAssumption DEF Scale
  <2> QED
    BY <2>2, <2>3 DEF Init, Window!Init, scaleFound
<1>2. Init => NothingKept
  BY DEF Init, NothingKept, nowhere
<1>3. IInv /\ NothingKept /\ [Next]_vars =>
        NothingKept' /\ [Window!Next]_(Window!vars)
  <2> SUFFICES ASSUME IInv, NothingKept, [Next]_vars
               PROVE  NothingKept' /\ [Window!Next]_(Window!vars)
    OBVIOUS
  <2>1. TInv
    BY Parts
  <2>2. ASSUME NEW r \in Runs, Step(r) \/ fail(r)
        PROVE  NothingKept' /\ [Window!Next]_(Window!vars)
    BY <2>1, <2>2, NothingKeptStep, InsideStep, OutsideStep
  <2>3. CASE begin \/ deploy \/ restart \/ selectRunning \/ cancelRunning \/ sweepFails
                   \/ UNCHANGED vars
    BY <2>1, <2>3, NothingKeptOtherwise, WindowOtherwise
  <2> QED
    BY <2>2, <2>3 DEF Next
<1> QED
  BY <1>1, <1>2, <1>3, Invariant, PTL DEF Spec, ImplementsServiceWindow, Window!Spec
=============================================================================
