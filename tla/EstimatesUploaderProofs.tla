---------------------- MODULE EstimatesUploaderProofs ----------------------
(***************************************************************************)
(* What EstimatesUploader promises for any uploaders, ids, months and any  *)
(* number of slots.                                                        *)
(***************************************************************************)
EXTENDS EstimatesUploader, FiniteSetTheorems, TLAPS

\* The producer: which ids have been handed to a task, and that only a loop at
\* work has tasks in flight.
LoopOK ==
  \A u \in Uploaders :
    /\ source[u] \subseteq Targets[u]
    /\ phase[u] = "idle" => source[u] = Targets[u]
    /\ phase[u] \in {"joining", "done"} => source[u] = {}
    /\ phase[u] = "reading" => held[u] # None
    /\ phase[u] \in {"idle", "fetching", "joining", "done"} => held[u] = None
    /\ held[u] # None => held[u] \in Targets[u] \ source[u]
    /\ \A s \in Subscriptions :
         /\ task[u][s] = "none" <=> s \notin Targets[u] \/ s \in source[u] \/ s = held[u]
         /\ task[u][s] \in InFlight => phase[u] \in Working
         /\ task[u][s] = "cancelled" => phase[u] = "raised"

\* What has been sent was not refused and is not a dry run's.
SentOK ==
  \A u \in Uploaders, s \in Subscriptions :
    /\ task[u][s] = "ok" => s \notin Mixed[u]
    /\ task[u][s] \in {"putting", "landed"} => s \notin Mixed[u] /\ ~dryRun[u]
    /\ s \in stray[u] =>
         task[u][s] \in {"failed", "cancelled"} /\ s \notin Mixed[u] /\ ~dryRun[u]

\* The report counts the tasks that have come to their end.
CountsOK ==
  \A u \in Uploaders :
    /\ ok[u] = Cardinality(Tasks(u, {"ok"}))
    /\ failed[u] = Cardinality(Tasks(u, {"failed"}))

NoOlder(new, old) == \A s \in Subscriptions, m \in Months : new[s][m] >= old[s][m]

\* Rows are only rewritten, and an estimate is made of the rows as they are.
ReadsOK ==
  \A u \in Uploaders : phase[u] # "idle" =>
    /\ NoOlder(stored, begun[u])
    /\ \A s \in Subscriptions, m \in Months :
         task[u][s] # "none" \/ (s = held[u] /\ m \notin toRead[u])
           => estimate[u][s][m] >= begun[u][s][m]

\* Unless it was overlapped, an uploader is alone, or has come to its end
\* before those at work began.
AloneOK ==
  \A u \in Uploaders : phase[u] # "idle" /\ ~overlapped[u] =>
    \A v \in Uploaders \ {u} : phase[v] \in Working =>
      phase[u] \notin Working /\ NoOlder(begun[v], begun[u])

\* Unless it was overlapped, what it has uploaded is shown.
ShownOK ==
  \A u \in Uploaders : phase[u] # "idle" /\ ~overlapped[u] =>
    \A s \in Subscriptions, m \in Months :
      task[u][s] = "landed" \/ (task[u][s] = "ok" /\ ~dryRun[u])
        => platform[s][m] >= begun[u][s][m]

FreshOK == ReadsOK /\ AloneOK /\ ShownOK

-----------------------------------------------------------------------------
\* How the number of tasks in some of the states changes with one task.
LEMMA TaskCounts ==
  ASSUME TypeOK, NEW u \in Uploaders, NEW s \in Subscriptions, NEW to \in TaskStates,
         task' = [task EXCEPT ![u][s] = to], NEW S
  PROVE  /\ Cardinality(Tasks(u, S)) \in Nat
         /\ (task[u][s] \in S <=> to \in S)
              => Cardinality(Tasks(u, S))' = Cardinality(Tasks(u, S))
         /\ task[u][s] \notin S /\ to \in S
              => Cardinality(Tasks(u, S))' = Cardinality(Tasks(u, S)) + 1
         /\ task[u][s] \in S /\ to \notin S
              => /\ Cardinality(Tasks(u, S))' = Cardinality(Tasks(u, S)) - 1
                 /\ Cardinality(Tasks(u, S)) > 0
<1>1. IsFiniteSet(Tasks(u, S)) /\ Cardinality(Tasks(u, S)) \in Nat
  BY FS_Subset, FS_CardinalityType, UploaderAssumption DEF UploaderAssumption, Tasks
<1>2. /\ task'[u][s] = to
      /\ \A x \in Subscriptions \ {s} : task'[u][x] = task[u][x]
  BY DEF TypeOK
<1>3. CASE task[u][s] \in S <=> to \in S
  <2>1. Tasks(u, S)' = Tasks(u, S)
    BY <1>2, <1>3 DEF Tasks
  <2>2. QED
    BY <1>1, <1>3, <2>1
<1>4. CASE task[u][s] \notin S /\ to \in S
  <2>1. Tasks(u, S)' = Tasks(u, S) \cup {s} /\ s \notin Tasks(u, S)
    BY <1>2, <1>4 DEF Tasks
  <2>2. QED
    BY <1>1, <1>4, <2>1, FS_AddElement
<1>5. CASE task[u][s] \in S /\ to \notin S
  <2>1. Tasks(u, S)' = Tasks(u, S) \ {s} /\ s \in Tasks(u, S)
    BY <1>2, <1>5 DEF Tasks
  <2>2. Cardinality(Tasks(u, S)) > 0
    BY <1>1, <2>1, FS_EmptySet
  <2>3. QED
    BY <1>1, <1>5, <2>1, <2>2, FS_RemoveElement
<1>6. QED
  BY <1>3, <1>4, <1>5

\* No other uploader's tasks are touched.
LEMMA OtherTasks ==
  ASSUME TypeOK, NEW u \in Uploaders, NEW v \in Uploaders \ {u}, NEW S, NEW to,
         task' = [task EXCEPT ![u] = to]
  PROVE  Tasks(v, S)' = Tasks(v, S)
BY DEF TypeOK, Tasks

\* What a task that comes to its end does to the slots and to the report.
LEMMA Ending ==
  ASSUME TypeOK, SlotsAccountedFor, LoopOK, CountsOK,
         NEW u \in Uploaders, NEW s \in Subscriptions, NEW outcome \in {"ok", "failed"},
         task[u][s] \in InFlight,
         Settle(u, s, outcome), Release(u, s),
         outcome = "ok" => CountOk(u), outcome = "failed" => CountFailed(u),
         UNCHANGED phase
  PROVE  /\ free' \in [Uploaders -> 0..MaxConcurrency]
         /\ task' \in [Uploaders -> [Subscriptions -> TaskStates]]
         /\ ok' \in [Uploaders -> Nat] /\ failed' \in [Uploaders -> Nat]
         /\ SlotsAccountedFor' /\ CountsOK'
<1>1. phase[u] \in Working /\ phase[u] # "raised"
  BY DEF LoopOK, Working
<1>2. task' = [task EXCEPT ![u][s] = outcome]
  BY DEF Settle
<1>3. outcome \in TaskStates /\ outcome \notin InFlight
  BY DEF TaskStates, InFlight
<1>4. task' \in [Uploaders -> [Subscriptions -> TaskStates]]
  BY <1>2, <1>3 DEF TypeOK
<1>5. /\ Cardinality(Tasks(u, InFlight)) \in Nat
      /\ Cardinality(Tasks(u, InFlight)) > 0
      /\ Cardinality(Tasks(u, InFlight))' = Cardinality(Tasks(u, InFlight)) - 1
  BY <1>2, <1>3, TaskCounts
<1>6. free[u] + Cardinality(Tasks(u, InFlight)) = MaxConcurrency
  BY <1>1 DEF SlotsAccountedFor
<1>7. free' = [free EXCEPT ![u] = free[u] + 1] /\ free[u] + 1 \in 0..MaxConcurrency
  BY <1>5, <1>6, UploaderAssumption DEF Release, TypeOK, UploaderAssumption
<1>8. free' \in [Uploaders -> 0..MaxConcurrency]
  BY <1>7 DEF TypeOK
<1>9. ok' \in [Uploaders -> Nat] /\ failed' \in [Uploaders -> Nat]
  <2>1. ok \in [Uploaders -> Nat] /\ failed \in [Uploaders -> Nat]
    BY DEF TypeOK
  <2>2. CASE outcome = "ok"
    BY <2>1, <2>2 DEF CountOk
  <2>3. CASE outcome = "failed"
    BY <2>1, <2>3 DEF CountFailed
  <2>4. QED
    BY <2>2, <2>3
<1>10. SlotsAccountedFor'
  <2> SUFFICES ASSUME NEW v \in Uploaders, phase'[v] # "raised"
               PROVE  free'[v] + Cardinality(Tasks(v, InFlight))' = MaxConcurrency
    BY DEF SlotsAccountedFor
  <2>1. CASE v = u
    BY <1>5, <1>6, <1>7, <2>1 DEF TypeOK
  <2>2. CASE v # u
    <3>1. Tasks(v, InFlight)' = Tasks(v, InFlight)
      BY <1>2, <2>2 DEF Tasks, TypeOK
    <3>2. QED
      BY <1>7, <2>2, <3>1 DEF SlotsAccountedFor, TypeOK
  <2>3. QED
    BY <2>1, <2>2
<1>11. CountsOK'
  <2> SUFFICES ASSUME NEW v \in Uploaders
               PROVE  /\ ok'[v] = Cardinality(Tasks(v, {"ok"}))'
                      /\ failed'[v] = Cardinality(Tasks(v, {"failed"}))'
    BY DEF CountsOK
  <2>1. CASE v = u
    <3>1. task[u][s] \notin {"ok"} /\ task[u][s] \notin {"failed"}
      BY DEF InFlight
    <3>2. CASE outcome = "ok"
      <4>1. outcome \in {"ok"} /\ outcome \notin {"failed"}
        BY <3>2
      <4>2. Cardinality(Tasks(u, {"ok"}))' = Cardinality(Tasks(u, {"ok"})) + 1
        BY <1>2, <1>3, <3>1, <4>1, TaskCounts
      <4>3. Cardinality(Tasks(u, {"failed"}))' = Cardinality(Tasks(u, {"failed"}))
        BY <1>2, <1>3, <3>1, <4>1, TaskCounts
      <4>4. QED
        BY <2>1, <3>2, <4>2, <4>3 DEF CountOk, CountsOK, TypeOK
    <3>3. CASE outcome = "failed"
      <4>1. outcome \in {"failed"} /\ outcome \notin {"ok"}
        BY <3>3
      <4>2. Cardinality(Tasks(u, {"failed"}))' = Cardinality(Tasks(u, {"failed"})) + 1
        BY <1>2, <1>3, <3>1, <4>1, TaskCounts
      <4>3. Cardinality(Tasks(u, {"ok"}))' = Cardinality(Tasks(u, {"ok"}))
        BY <1>2, <1>3, <3>1, <4>1, TaskCounts
      <4>4. QED
        BY <2>1, <3>3, <4>2, <4>3 DEF CountFailed, CountsOK, TypeOK
    <3>4. QED
      BY <3>2, <3>3
  <2>2. CASE v # u
    <3>1. /\ Tasks(v, {"ok"})' = Tasks(v, {"ok"})
          /\ Tasks(v, {"failed"})' = Tasks(v, {"failed"})
      BY <1>2, <2>2 DEF Tasks, TypeOK
    <3>2. ok'[v] = ok[v] /\ failed'[v] = failed[v]
      BY <2>2 DEF CountOk, CountFailed, TypeOK
    <3>3. QED
      BY <3>1, <3>2 DEF CountsOK
  <2>3. QED
    BY <2>1, <2>2
<1>12. QED
  BY <1>4, <1>8, <1>9, <1>10, <1>11

\* What an uploader's state is after a task of it moves on.
LEMMA Moving ==
  ASSUME TypeOK, LoopOK,
         NEW u \in Uploaders, NEW s \in Subscriptions,
         NEW to \in TaskStates \ {"none", "cancelled"},
         task[u][s] \in InFlight, Settle(u, s, to), UNCHANGED producer
  PROVE  LoopOK'
<1> SUFFICES ASSUME NEW v \in Uploaders, NEW x \in Subscriptions
             PROVE  /\ task'[v][x] = "none" <=> task[v][x] = "none"
                    /\ task'[v][x] \in InFlight => task[v][x] \in InFlight
                    /\ task'[v][x] = "cancelled" => task[v][x] = "cancelled"
  BY DEF LoopOK, producer
<1>1. task' = [task EXCEPT ![u][s] = to] /\ task[u][s] # "none"
  BY DEF Settle, InFlight
<1>2. task'[v][x] = IF v = u /\ x = s THEN to ELSE task[v][x]
  BY <1>1 DEF TypeOK
<1>3. QED
  BY <1>1, <1>2

\* The slots and the report, when a task moves on and stays in flight.
LEMMA StayingInFlight ==
  ASSUME TypeOK, SlotsAccountedFor, CountsOK,
         NEW u \in Uploaders, NEW s \in Subscriptions, NEW to \in InFlight,
         task[u][s] \in InFlight, Settle(u, s, to), UNCHANGED <<phase, free, report>>
  PROVE  SlotsAccountedFor' /\ CountsOK'
<1>1. task' = [task EXCEPT ![u][s] = to] /\ to \in TaskStates
  BY DEF Settle, TaskStates
<1>2. /\ task[u][s] \notin {"ok"} /\ task[u][s] \notin {"failed"}
      /\ to \notin {"ok"} /\ to \notin {"failed"}
  BY DEF InFlight
<1>3. /\ Cardinality(Tasks(u, InFlight))' = Cardinality(Tasks(u, InFlight))
      /\ Cardinality(Tasks(u, {"ok"}))' = Cardinality(Tasks(u, {"ok"}))
      /\ Cardinality(Tasks(u, {"failed"}))' = Cardinality(Tasks(u, {"failed"}))
  <2>1. Cardinality(Tasks(u, InFlight))' = Cardinality(Tasks(u, InFlight))
    BY <1>1, TaskCounts
  <2>2. Cardinality(Tasks(u, {"ok"}))' = Cardinality(Tasks(u, {"ok"}))
    BY <1>1, <1>2, TaskCounts
  <2>3. Cardinality(Tasks(u, {"failed"}))' = Cardinality(Tasks(u, {"failed"}))
    BY <1>1, <1>2, TaskCounts
  <2>4. QED
    BY <2>1, <2>2, <2>3
<1>4. \A v \in Uploaders \ {u} :
        /\ Tasks(v, InFlight)' = Tasks(v, InFlight)
        /\ Tasks(v, {"ok"})' = Tasks(v, {"ok"})
        /\ Tasks(v, {"failed"})' = Tasks(v, {"failed"})
  BY <1>1 DEF Tasks, TypeOK
<1>5. QED
  BY <1>3, <1>4 DEF SlotsAccountedFor, CountsOK, report

\* The slots and the report, when no task moves on.
LEMMA NoTaskMoves ==
  ASSUME SlotsAccountedFor, CountsOK, UNCHANGED <<task, free, report>>,
         \A v \in Uploaders : phase'[v] # "raised" => phase[v] # "raised"
  PROVE  SlotsAccountedFor' /\ CountsOK'
BY DEF SlotsAccountedFor, CountsOK, Tasks, report

-----------------------------------------------------------------------------
Core == TypeOK /\ SlotsAccountedFor /\ LoopOK /\ SentOK /\ CountsOK

LEMMA CoreInit == Init => Core
<1> SUFFICES ASSUME Init PROVE Core
  OBVIOUS
<1>1. TypeOK
  BY UploaderAssumption DEF Init, TypeOK, UploaderAssumption, Absent, Phases, TaskStates
<1>2. \A u \in Uploaders : \A S : "none" \notin S => Tasks(u, S) = {}
  BY DEF Init, Tasks
<1>3. /\ "none" \notin InFlight /\ "none" \notin {"ok"} /\ "none" \notin {"failed"}
  BY DEF InFlight
<1>4. SlotsAccountedFor /\ CountsOK
  <2> SUFFICES ASSUME NEW u \in Uploaders
               PROVE  /\ free[u] + Cardinality(Tasks(u, InFlight)) = MaxConcurrency
                      /\ ok[u] = Cardinality(Tasks(u, {"ok"}))
                      /\ failed[u] = Cardinality(Tasks(u, {"failed"}))
    BY DEF SlotsAccountedFor, CountsOK
  <2>1. /\ Cardinality(Tasks(u, InFlight)) = 0
        /\ Cardinality(Tasks(u, {"ok"})) = 0
        /\ Cardinality(Tasks(u, {"failed"})) = 0
    BY <1>2, <1>3, FS_EmptySet
  <2>2. free[u] = MaxConcurrency /\ ok[u] = 0 /\ failed[u] = 0
    BY DEF Init
  <2>3. QED
    BY <2>1, <2>2, UploaderAssumption DEF UploaderAssumption
<1>5. LoopOK /\ SentOK
  BY UploaderAssumption DEF Init, LoopOK, SentOK, UploaderAssumption, InFlight, Working
<1>6. QED
  BY <1>1, <1>4, <1>5 DEF Core

\* The producer's steps.
LEMMA CoreProduce ==
  ASSUME Core, NEW u \in Uploaders, Produce(u)
  PROVE  Core'
<1> USE DEF Core
<1>1. CASE Begin(u)
  <2>1. TypeOK'
    BY <1>1 DEF Begin, Goto, TypeOK, Phases, Working, producer, report
  <2>2. LoopOK' /\ SentOK'
    BY <1>1 DEF Begin, Goto, TypeOK, LoopOK, SentOK, Working, InFlight, producer, report
  <2>3. SlotsAccountedFor' /\ CountsOK'
    BY <1>1, NoTaskMoves DEF Begin, Goto, TypeOK
  <2>4. QED
    BY <2>1, <2>2, <2>3
<1>2. CASE NextId(u)
  <2>1. TypeOK'
    BY <1>2 DEF NextId, Goto, TypeOK, Phases, Working, ghosts, report
  <2>2. LoopOK' /\ SentOK'
    BY <1>2, UploaderAssumption DEF NextId, Goto, TypeOK, LoopOK, SentOK, Working, InFlight,
                                    ghosts, report, UploaderAssumption
  <2>3. SlotsAccountedFor' /\ CountsOK'
    BY <1>2, NoTaskMoves DEF NextId, Goto, TypeOK
  <2>4. QED
    BY <2>1, <2>2, <2>3
<1>3. CASE ReadMonth(u)
  <2>1. TypeOK'
    BY <1>3 DEF ReadMonth, TypeOK, LoopOK, ghosts, report
  <2>2. LoopOK' /\ SentOK'
    BY <1>3 DEF ReadMonth, LoopOK, SentOK
  <2>3. SlotsAccountedFor' /\ CountsOK'
    BY <1>3, NoTaskMoves DEF ReadMonth
  <2>4. QED
    BY <2>1, <2>2, <2>3
<1>4. CASE CreateTask(u)
  <2>1. held[u] \in Subscriptions /\ held[u] \in Targets[u] \ source[u] /\ task[u][held[u]] = "none"
    BY <1>4 DEF CreateTask, Goto, LoopOK, TypeOK
  <2>2. TypeOK'
    BY <1>4, <2>1, UploaderAssumption DEF CreateTask, Acquire, Goto, TypeOK, Phases, Working,
                                          TaskStates, InFlight, ghosts, report, UploaderAssumption
  <2>3. LoopOK' /\ SentOK'
    BY <1>4, <2>1, UploaderAssumption DEF CreateTask, Goto, TypeOK, LoopOK, SentOK, Working,
                                          InFlight, UploaderAssumption
  <2>4. task' = [task EXCEPT ![u][held[u]] = "created"] /\ "created" \in TaskStates
    BY <1>4 DEF CreateTask, TaskStates, InFlight
  <2>5. Cardinality(Tasks(u, InFlight))' = Cardinality(Tasks(u, InFlight)) + 1
    BY <2>1, <2>4, TaskCounts DEF InFlight
  <2>6. \A v \in Uploaders :
          Tasks(v, {"ok"})' = Tasks(v, {"ok"}) /\ Tasks(v, {"failed"})' = Tasks(v, {"failed"})
    BY <2>1, <2>4 DEF Tasks, TypeOK
  <2>7. CountsOK'
    BY <1>4, <2>6 DEF CreateTask, CountsOK, report
  <2>8. \A v \in Uploaders \ {u} : Tasks(v, InFlight)' = Tasks(v, InFlight)
    BY <2>4 DEF Tasks, TypeOK
  <2>9. Cardinality(Tasks(u, InFlight)) \in Nat
    BY <2>1, <2>4, TaskCounts
  <2>10. SlotsAccountedFor'
    <3> SUFFICES ASSUME NEW v \in Uploaders, phase'[v] # "raised"
                 PROVE  free'[v] + Cardinality(Tasks(v, InFlight))' = MaxConcurrency
      BY DEF SlotsAccountedFor
    <3>1. CASE v = u
      <4>1. free[u] \in Nat /\ free'[u] = free[u] - 1 /\ phase[u] # "raised"
        BY <1>4, UploaderAssumption DEF CreateTask, Goto, TypeOK, UploaderAssumption
      <4>2. free[u] + Cardinality(Tasks(u, InFlight)) = MaxConcurrency
        BY <4>1 DEF SlotsAccountedFor
      <4>3. QED
        BY <2>5, <2>9, <3>1, <4>1, <4>2
    <3>2. CASE v # u
      <4>1. free'[v] = free[v] /\ phase[v] # "raised"
        BY <1>4, <3>2 DEF CreateTask, Goto, TypeOK
      <4>2. QED
        BY <2>8, <3>2, <4>1 DEF SlotsAccountedFor
    <3>3. QED
      BY <3>1, <3>2
  <2>11. QED
    BY <2>2, <2>3, <2>7, <2>10
<1>5. CASE Exhausted(u)
  <2>1. TypeOK'
    BY <1>5 DEF Exhausted, Goto, TypeOK, Phases, Working, ghosts, report
  <2>2. LoopOK' /\ SentOK'
    BY <1>5 DEF Exhausted, Goto, TypeOK, LoopOK, SentOK, Working
  <2>3. SlotsAccountedFor' /\ CountsOK'
    BY <1>5, NoTaskMoves DEF Exhausted, Goto, TypeOK
  <2>4. QED
    BY <2>1, <2>2, <2>3
<1>6. CASE Join(u)
  <2>1. TypeOK'
    BY <1>6 DEF Join, Goto, TypeOK, Phases, Working, ghosts, report
  <2>2. LoopOK' /\ SentOK'
    BY <1>6 DEF Join, Finished, Goto, TypeOK, LoopOK, SentOK, Working
  <2>3. SlotsAccountedFor' /\ CountsOK'
    BY <1>6, NoTaskMoves DEF Join, Goto, TypeOK
  <2>4. QED
    BY <2>1, <2>2, <2>3
<1>7. QED
  BY <1>1, <1>2, <1>3, <1>4, <1>5, <1>6 DEF Produce

\* The loop is given up.
LEMMA CoreAbandon ==
  ASSUME Core, NEW u \in Uploaders, Abandon(u)
  PROVE  Core'
<1> USE DEF Core
<1>1. TypeOK'
  BY DEF Abandon, TypeOK, Phases, TaskStates, ghosts, report
<1>2. LoopOK' /\ SentOK'
  BY DEF Abandon, TypeOK, LoopOK, SentOK, Working, InFlight
<1>3. \A v \in Uploaders \ {u} : \A S : Tasks(v, S)' = Tasks(v, S)
  BY DEF Abandon, Tasks, TypeOK
<1>4. \A v \in Uploaders :
        Tasks(v, {"ok"})' = Tasks(v, {"ok"}) /\ Tasks(v, {"failed"})' = Tasks(v, {"failed"})
  BY DEF Abandon, Tasks, TypeOK, InFlight
<1>5. SlotsAccountedFor'
  BY <1>3 DEF Abandon, SlotsAccountedFor, TypeOK
<1>6. CountsOK'
  BY <1>4 DEF Abandon, CountsOK, report
<1>7. QED
  BY <1>1, <1>2, <1>5, <1>6

\* A task's steps.
LEMMA CoreUpload ==
  ASSUME Core, NEW u \in Uploaders, NEW s \in Subscriptions, Upload(u, s)
  PROVE  Core'
<1> USE DEF Core
<1>1. CASE Refuse(u, s)
  <2>1. task[u][s] \in InFlight /\ "failed" \in TaskStates \ {"none", "cancelled"}
    BY <1>1 DEF Refuse, InFlight, TaskStates
  <2>2. /\ free' \in [Uploaders -> 0..MaxConcurrency]
        /\ task' \in [Uploaders -> [Subscriptions -> TaskStates]]
        /\ ok' \in [Uploaders -> Nat] /\ failed' \in [Uploaders -> Nat]
        /\ SlotsAccountedFor' /\ CountsOK'
    BY <1>1, <2>1, Ending DEF Refuse, producer
  <2>3. TypeOK'
    BY <1>1, <2>2 DEF Refuse, TypeOK, producer, ghosts
  <2>4. LoopOK'
    BY <1>1, <2>1, Moving DEF Refuse
  <2>5. SentOK'
    BY <1>1 DEF Refuse, Settle, SentOK, TypeOK
  <2>6. QED
    BY <2>2, <2>3, <2>4, <2>5
<1>2. CASE SkipPut(u, s)
  <2>1. task[u][s] \in InFlight /\ "ok" \in TaskStates \ {"none", "cancelled"}
    BY <1>2 DEF SkipPut, InFlight, TaskStates
  <2>2. /\ free' \in [Uploaders -> 0..MaxConcurrency]
        /\ task' \in [Uploaders -> [Subscriptions -> TaskStates]]
        /\ ok' \in [Uploaders -> Nat] /\ failed' \in [Uploaders -> Nat]
        /\ SlotsAccountedFor' /\ CountsOK'
    BY <1>2, <2>1, Ending DEF SkipPut, producer
  <2>3. TypeOK'
    BY <1>2, <2>2 DEF SkipPut, TypeOK, producer, ghosts
  <2>4. LoopOK'
    BY <1>2, <2>1, Moving DEF SkipPut
  <2>5. SentOK'
    BY <1>2 DEF SkipPut, Settle, Refused, SentOK, TypeOK
  <2>6. QED
    BY <2>2, <2>3, <2>4, <2>5
<1>3. CASE SendPut(u, s)
  <2>1. /\ task[u][s] \in InFlight /\ "putting" \in InFlight
        /\ "putting" \in TaskStates \ {"none", "cancelled"}
    BY <1>3 DEF SendPut, InFlight, TaskStates
  <2>2. SlotsAccountedFor' /\ CountsOK'
    BY <1>3, <2>1, StayingInFlight DEF SendPut, producer
  <2>3. TypeOK'
    BY <1>3, <2>1 DEF SendPut, Settle, TypeOK, producer, ghosts, report
  <2>4. LoopOK'
    BY <1>3, <2>1, Moving DEF SendPut
  <2>5. SentOK'
    BY <1>3 DEF SendPut, Settle, Refused, SentOK, TypeOK
  <2>6. QED
    BY <2>2, <2>3, <2>4, <2>5
<1>4. CASE PutLands(u, s)
  <2>1. /\ task[u][s] \in InFlight /\ "landed" \in InFlight
        /\ "landed" \in TaskStates \ {"none", "cancelled"}
    BY <1>4 DEF PutLands, InFlight, TaskStates
  <2>2. SlotsAccountedFor' /\ CountsOK'
    BY <1>4, <2>1, StayingInFlight DEF PutLands, producer
  <2>3. TypeOK'
    BY <1>4, <2>1 DEF PutLands, Settle, TypeOK, producer, ghosts, report
  <2>4. LoopOK'
    BY <1>4, <2>1, Moving DEF PutLands
  <2>5. SentOK'
    BY <1>4 DEF PutLands, Settle, SentOK, TypeOK
  <2>6. QED
    BY <2>2, <2>3, <2>4, <2>5
<1>5. CASE PutAnswered(u, s)
  <2>1. task[u][s] \in InFlight /\ "ok" \in TaskStates \ {"none", "cancelled"}
    BY <1>5 DEF PutAnswered, OnceLanded, InFlight, TaskStates
  <2>2. /\ free' \in [Uploaders -> 0..MaxConcurrency]
        /\ task' \in [Uploaders -> [Subscriptions -> TaskStates]]
        /\ ok' \in [Uploaders -> Nat] /\ failed' \in [Uploaders -> Nat]
        /\ SlotsAccountedFor' /\ CountsOK'
    BY <1>5, <2>1, Ending DEF PutAnswered, producer
  <2>3. TypeOK'
    BY <1>5, <2>2 DEF PutAnswered, TypeOK, producer, ghosts
  <2>4. LoopOK'
    BY <1>5, <2>1, Moving DEF PutAnswered
  <2>5. SentOK'
    BY <1>5 DEF PutAnswered, OnceLanded, Settle, SentOK, TypeOK
  <2>6. QED
    BY <2>2, <2>3, <2>4, <2>5
<1>6. CASE PutFails(u, s)
  <2>1. task[u][s] \in InFlight /\ "failed" \in TaskStates \ {"none", "cancelled"}
    BY <1>6 DEF PutFails, InFlight, TaskStates
  <2>2. /\ free' \in [Uploaders -> 0..MaxConcurrency]
        /\ task' \in [Uploaders -> [Subscriptions -> TaskStates]]
        /\ ok' \in [Uploaders -> Nat] /\ failed' \in [Uploaders -> Nat]
        /\ SlotsAccountedFor' /\ CountsOK'
    BY <1>6, <2>1, Ending DEF PutFails, producer
  <2>3. TypeOK'
    BY <1>6, <2>2 DEF PutFails, TypeOK, producer, ghosts
  <2>4. LoopOK'
    BY <1>6, <2>1, Moving DEF PutFails
  <2>5. SentOK'
    BY <1>6 DEF PutFails, Settle, SentOK, TypeOK
  <2>6. QED
    BY <2>2, <2>3, <2>4, <2>5
<1>7. QED
  BY <1>1, <1>2, <1>3, <1>4, <1>5, <1>6 DEF Upload

\* The steps of the platform and of other commands.
LEMMA CoreOthers ==
  ASSUME Core, StrayLands \/ Rewrite
  PROVE  Core'
<1> USE DEF Core
<1>1. CASE StrayLands
  <2>1. TypeOK'
    BY <1>1 DEF StrayLands, TypeOK, producer, report
  <2>2. LoopOK' /\ SentOK'
    BY <1>1 DEF StrayLands, TypeOK, LoopOK, SentOK, producer
  <2>3. SlotsAccountedFor' /\ CountsOK'
    BY <1>1, NoTaskMoves DEF StrayLands, producer
  <2>4. QED
    BY <2>1, <2>2, <2>3
<1>2. CASE Rewrite
  <2>1. TypeOK'
    BY <1>2 DEF Rewrite, TypeOK, producer, ghosts, report
  <2>2. LoopOK' /\ SentOK'
    BY <1>2 DEF Rewrite, LoopOK, SentOK, producer
  <2>3. SlotsAccountedFor' /\ CountsOK'
    BY <1>2, NoTaskMoves DEF Rewrite, producer
  <2>4. QED
    BY <2>1, <2>2, <2>3
<1>3. QED
  BY <1>1, <1>2

LEMMA CoreNext == Core /\ [Next]_vars => Core'
<1> SUFFICES ASSUME Core, [Next]_vars PROVE Core'
  OBVIOUS
<1>1. CASE Next
  BY <1>1, CoreProduce, CoreAbandon, CoreUpload, CoreOthers DEF Next
<1>2. CASE UNCHANGED vars
  <2>1. TypeOK'
    BY <1>2 DEF Core, TypeOK, vars, producer, report, ghosts
  <2>2. SlotsAccountedFor' /\ CountsOK'
    BY <1>2, NoTaskMoves DEF Core, vars, producer
  <2>3. LoopOK' /\ SentOK'
    BY <1>2 DEF Core, LoopOK, SentOK, vars, producer
  <2>4. QED
    BY <2>1, <2>2, <2>3 DEF Core
<1>3. QED
  BY <1>1, <1>2

-----------------------------------------------------------------------------
LEMMA FreshInit == Init => FreshOK
BY DEF Init, FreshOK, ReadsOK, AloneOK, ShownOK

LEMMA FreshBegin ==
  ASSUME Core, FreshOK, NEW u \in Uploaders, Begin(u)
  PROVE  FreshOK'
<1> USE DEF Core, FreshOK
<1>1. phase[u] = "idle" /\ phase' = [phase EXCEPT ![u] = "fetching"]
  BY DEF Begin, Goto
<1>2. held[u] = None /\ \A s \in Subscriptions : task[u][s] = "none"
  BY <1>1 DEF LoopOK
<1>3. begun' = [begun EXCEPT ![u] = stored]
  BY DEF Begin
<1>4. UNCHANGED <<stored, platform, dryRun, held, toRead, estimate, task>>
  BY DEF Begin
<1>5. ReadsOK'
  <2> SUFFICES ASSUME NEW v \in Uploaders, phase'[v] # "idle",
                      NEW s \in Subscriptions, NEW m \in Months
               PROVE  /\ stored[s][m] >= begun'[v][s][m]
                      /\ task[v][s] # "none" \/ (s = held[v] /\ m \notin toRead[v])
                           => estimate[v][s][m] >= begun'[v][s][m]
    BY <1>4 DEF ReadsOK, NoOlder
  <2>1. CASE v = u
    <3>1. begun'[u] = stored /\ stored[s][m] \in {1, 2}
      <4>1. begun'[u] = stored
        BY <1>3 DEF TypeOK
      <4>2. stored[s][m] \in {1, 2}
        BY DEF TypeOK
      <4>3. QED
        BY <4>1, <4>2
    <3>2. task[u][s] = "none" /\ s # held[u]
      BY <1>2, UploaderAssumption DEF UploaderAssumption
    <3>3. QED
      BY <2>1, <3>1, <3>2
  <2>2. CASE v # u
    BY <1>1, <1>3, <2>2 DEF ReadsOK, NoOlder, TypeOK
  <2>3. QED
    BY <2>1, <2>2
<1>6. AloneOK'
  <2> SUFFICES ASSUME NEW v \in Uploaders, phase'[v] # "idle", ~overlapped'[v],
                      NEW w \in Uploaders \ {v}, phase'[w] \in Working
               PROVE  phase'[v] \notin Working /\ NoOlder(begun'[w], begun'[v])
    BY DEF AloneOK
  <2>1. v # u
    BY <1>1 DEF Begin, TypeOK
  <2>2. phase[v] \notin Working /\ ~overlapped[v] /\ phase'[v] = phase[v] /\ begun'[v] = begun[v]
    BY <1>1, <1>3, <2>1 DEF Begin, TypeOK
  <2>3. CASE w = u
    BY <1>3, <2>2, <2>3 DEF ReadsOK, TypeOK
  <2>4. CASE w # u
    BY <1>1, <1>3, <2>2, <2>4 DEF AloneOK, TypeOK
  <2>5. QED
    BY <2>3, <2>4
<1>7. ShownOK'
  <2> SUFFICES ASSUME NEW v \in Uploaders, phase'[v] # "idle", ~overlapped'[v],
                      NEW s \in Subscriptions, NEW m \in Months,
                      task[v][s] = "landed" \/ (task[v][s] = "ok" /\ ~dryRun[v])
               PROVE  platform[s][m] >= begun'[v][s][m]
    BY <1>4 DEF ShownOK
  <2>1. v # u
    BY <1>2
  <2>2. ~overlapped[v] /\ phase[v] # "idle" /\ begun'[v] = begun[v]
    BY <1>1, <1>3, <2>1 DEF Begin, TypeOK
  <2>3. QED
    BY <2>2 DEF ShownOK
<1>8. QED
  BY <1>5, <1>6, <1>7

\* The steps after which nothing new is shown.
LEMMA FreshProduce ==
  ASSUME Core, FreshOK, NEW u \in Uploaders,
         NextId(u) \/ ReadMonth(u) \/ CreateTask(u) \/ Exhausted(u) \/ Join(u) \/ Abandon(u)
  PROVE  FreshOK'
<1> USE DEF Core, FreshOK
<1>1. UNCHANGED <<stored, platform, dryRun, begun, overlapped>>
  BY DEF NextId, ReadMonth, CreateTask, Exhausted, Join, Abandon, ghosts
<1>2. \A v \in Uploaders : /\ phase'[v] = "idle" <=> phase[v] = "idle"
                           /\ phase'[v] \in Working => phase[v] \in Working
  BY DEF NextId, ReadMonth, CreateTask, Exhausted, Join, Abandon, Goto, Working, TypeOK
<1>3. \A v \in Uploaders, s \in Subscriptions :
        task'[v][s] \in {"landed", "ok"} => task'[v][s] = task[v][s]
  <2>1. CASE CreateTask(u)
    BY <2>1 DEF CreateTask, TypeOK
  <2>2. CASE Abandon(u)
    BY <2>2 DEF Abandon, TypeOK
  <2>3. CASE ~CreateTask(u) /\ ~Abandon(u)
    BY <2>3 DEF NextId, ReadMonth, Exhausted, Join
  <2>4. QED
    BY <2>1, <2>2, <2>3
<1>4. ReadsOK'
  <2> SUFFICES ASSUME NEW v \in Uploaders, phase'[v] # "idle",
                      NEW s \in Subscriptions, NEW m \in Months,
                      task'[v][s] # "none" \/ (s = held'[v] /\ m \notin toRead'[v])
               PROVE  estimate'[v][s][m] >= begun[v][s][m]
    BY <1>1, <1>2 DEF ReadsOK, NoOlder
  <2>1. CASE ReadMonth(u)
    <3>1. PICK n \in toRead[u] :
            /\ toRead' = [toRead EXCEPT ![u] = @ \ {n}]
            /\ estimate' = [estimate EXCEPT ![u][held[u]][n] = stored[held[u]][n]]
      BY <2>1 DEF ReadMonth
    <3>2. /\ UNCHANGED <<held, task>>
          /\ held[u] \in Subscriptions /\ n \in Months
      BY <2>1 DEF ReadMonth, LoopOK, TypeOK
    <3>3. CASE v = u /\ s = held[u] /\ m = n
      <4>1. estimate'[v][s][m] = stored[s][m]
        BY <3>1, <3>2, <3>3 DEF TypeOK
      <4>2. QED
        BY <1>2, <4>1 DEF ReadsOK, NoOlder
    <3>4. CASE ~(v = u /\ s = held[u] /\ m = n)
      <4>1. estimate'[v][s][m] = estimate[v][s][m]
        BY <3>1, <3>2, <3>4 DEF TypeOK
      <4>2. task[v][s] # "none" \/ (s = held[v] /\ m \notin toRead[v])
        BY <3>1, <3>2, <3>4 DEF TypeOK
      <4>3. QED
        BY <1>2, <4>1, <4>2 DEF ReadsOK
    <3>5. QED
      BY <3>3, <3>4
  <2>2. CASE ~ReadMonth(u)
    <3>1. estimate' = estimate
      BY <2>2 DEF NextId, CreateTask, Exhausted, Join, Abandon, producer
    <3>2. task[v][s] # "none" \/ (s = held[v] /\ m \notin toRead[v])
      <4>1. CASE NextId(u)
        BY <4>1 DEF NextId, TypeOK
      <4>2. CASE CreateTask(u)
        BY <4>2, UploaderAssumption DEF CreateTask, TypeOK, UploaderAssumption
      <4>3. CASE Abandon(u)
        BY <4>3 DEF Abandon, TypeOK, producer, InFlight
      <4>4. CASE Exhausted(u) \/ Join(u)
        BY <4>4 DEF Exhausted, Join
      <4>5. QED
        BY <2>2, <4>1, <4>2, <4>3, <4>4
    <3>3. QED
      BY <1>2, <3>1, <3>2 DEF ReadsOK
  <2>3. QED
    BY <2>1, <2>2
<1>5. AloneOK'
  BY <1>1, <1>2 DEF AloneOK
<1>6. ShownOK'
  BY <1>1, <1>2, <1>3 DEF ShownOK
<1>7. QED
  BY <1>4, <1>5, <1>6

LEMMA FreshUpload ==
  ASSUME Core, FreshOK, NEW u \in Uploaders, NEW s \in Subscriptions, Upload(u, s)
  PROVE  FreshOK'
<1> USE DEF Core, FreshOK
<1>1. UNCHANGED <<stored, dryRun, phase, held, toRead, estimate, begun, overlapped>>
  BY DEF Upload, Refuse, SkipPut, SendPut, PutLands, PutAnswered, PutFails, producer, ghosts
<1>2. task[u][s] \in InFlight
  BY DEF Upload, Refuse, SkipPut, SendPut, PutLands, PutAnswered, OnceLanded, PutFails, InFlight
<1>3. \A v \in Uploaders, x \in Subscriptions :
        v # u \/ x # s => task'[v][x] = task[v][x]
  BY DEF Upload, Refuse, SkipPut, SendPut, PutLands, PutAnswered, PutFails, Settle, TypeOK
<1>4. ReadsOK'
  BY <1>1, <1>2, <1>3 DEF ReadsOK, InFlight
<1>5. AloneOK'
  BY <1>1 DEF AloneOK
<1>6. ShownOK'
  <2> SUFFICES ASSUME NEW v \in Uploaders, phase[v] # "idle", ~overlapped[v],
                      NEW x \in Subscriptions, NEW m \in Months,
                      task'[v][x] = "landed" \/ (task'[v][x] = "ok" /\ ~dryRun[v])
               PROVE  platform'[x][m] >= begun[v][x][m]
    BY <1>1 DEF ShownOK
  <2>1. CASE PutLands(u, s)
    <3>1. platform' = [platform EXCEPT ![s] = estimate[u][s]]
      BY <2>1 DEF PutLands
    <3>2. CASE x # s
      BY <1>3, <3>1, <3>2 DEF ShownOK, TypeOK
    <3>3. CASE x = s
      <4>1. phase[u] \in Working /\ phase[u] # "idle"
        BY <1>2 DEF LoopOK, Working
      <4>2. platform'[s] = estimate[u][s] /\ estimate[u][s][m] >= begun[u][s][m]
        BY <1>2, <3>1, <4>1 DEF ReadsOK, InFlight, TypeOK
      <4>3. CASE v = u
        BY <3>3, <4>2, <4>3
      <4>4. CASE v # u
        <5>1. begun[u][s][m] >= begun[v][s][m]
          BY <4>1, <4>4 DEF AloneOK, NoOlder
        <5>2. begun[u][s][m] \in {1, 2} /\ begun[v][s][m] \in {1, 2}
          BY DEF TypeOK
        <5>3. estimate[u][s][m] \in 0..2
          BY DEF TypeOK
        <5>4. QED
          BY <3>3, <4>2, <5>1, <5>2, <5>3
      <4>5. QED
        BY <4>3, <4>4
    <3>4. QED
      BY <3>2, <3>3
  <2>2. CASE ~PutLands(u, s)
    <3>1. platform' = platform
      BY <2>2 DEF Upload, Refuse, SkipPut, SendPut, PutAnswered, PutFails
    <3>2. task[v][x] = "landed" \/ (task[v][x] = "ok" /\ ~dryRun[v])
      <4>1. CASE v = u /\ x = s
        <5>1. task'[u][s] \in {"landed", "ok"} /\ (task'[u][s] = "ok" => ~dryRun[u])
          BY <4>1
        <5>2. ~Refuse(u, s) /\ ~SkipPut(u, s) /\ ~SendPut(u, s) /\ ~PutFails(u, s)
          BY <5>1 DEF Refuse, SkipPut, SendPut, PutFails, Settle, TypeOK
        <5>3. PutAnswered(u, s)
          BY <2>2, <5>2 DEF Upload
        <5>4. QED
          BY <4>1, <5>3 DEF PutAnswered, OnceLanded
      <4>2. CASE ~(v = u /\ x = s)
        BY <1>3, <4>2
      <4>3. QED
        BY <4>1, <4>2
    <3>3. QED
      BY <3>1, <3>2 DEF ShownOK
  <2>3. QED
    BY <2>1, <2>2
<1>7. QED
  BY <1>4, <1>5, <1>6

LEMMA FreshOthers ==
  ASSUME Core, FreshOK, StrayLands \/ Rewrite
  PROVE  FreshOK'
<1> USE DEF Core, FreshOK
<1>1. UNCHANGED <<dryRun, phase, held, toRead, estimate, task, begun>>
  BY DEF StrayLands, Rewrite, producer, ghosts
<1>2. \A v \in Uploaders : ~overlapped'[v] => ~overlapped[v]
  BY DEF StrayLands, Rewrite, ghosts, TypeOK
<1>3. NoOlder(stored', stored)
  <2> SUFFICES ASSUME NEW s \in Subscriptions, NEW m \in Months
               PROVE  stored'[s][m] >= stored[s][m]
    BY DEF NoOlder
  <2>1. stored[s][m] \in {1, 2}
    BY DEF TypeOK
  <2>2. stored'[s][m] = stored[s][m] \/ stored'[s][m] = 2
    <3>1. CASE StrayLands
      BY <3>1 DEF StrayLands
    <3>2. CASE Rewrite
      <4>1. PICK x \in Subscriptions, n \in Months : stored' = [stored EXCEPT ![x][n] = 2]
        BY <3>2 DEF Rewrite
      <4>2. stored \in [Subscriptions -> [Months -> {1, 2}]]
        BY DEF TypeOK
      <4>3. QED
        BY <4>1, <4>2
    <3>3. QED
      BY <3>1, <3>2
  <2>3. QED
    BY <2>1, <2>2
<1>4. ReadsOK'
  <2> SUFFICES ASSUME NEW v \in Uploaders, phase[v] # "idle",
                      NEW s \in Subscriptions, NEW m \in Months
               PROVE  stored'[s][m] >= begun[v][s][m]
    BY <1>1 DEF ReadsOK, NoOlder
  <2>1. stored'[s][m] >= stored[s][m] /\ stored[s][m] >= begun[v][s][m]
    BY <1>3 DEF ReadsOK, NoOlder
  <2>2. TypeOK'
    BY CoreOthers
  <2>3. stored'[s][m] \in {1, 2} /\ stored[s][m] \in {1, 2} /\ begun[v][s][m] \in {1, 2}
    BY <2>2 DEF TypeOK
  <2>4. QED
    BY <2>1, <2>3
<1>5. AloneOK'
  BY <1>1, <1>2 DEF AloneOK
<1>6. ShownOK'
  <2> SUFFICES ASSUME NEW v \in Uploaders, phase[v] # "idle", ~overlapped'[v],
                      NEW s \in Subscriptions, NEW m \in Months,
                      task[v][s] = "landed" \/ (task[v][s] = "ok" /\ ~dryRun[v])
               PROVE  platform'[s][m] >= begun[v][s][m]
    BY <1>1 DEF ShownOK
  <2>1. platform[s][m] >= begun[v][s][m]
    BY <1>2 DEF ShownOK
  <2>2. platform'[s] = platform[s]
    <3>1. CASE StrayLands
      <4>1. PICK w \in Uploaders : \E x \in stray[w] :
              /\ platform' = [platform EXCEPT ![x] = estimate[w][x]]
              /\ overlapped' = [y \in Uploaders |-> y # w \/ overlapped[y]]
        BY <3>1 DEF StrayLands
      <4>2. v = w
        BY <4>1
      <4>3. PICK x \in stray[v] : platform' = [platform EXCEPT ![x] = estimate[v][x]]
        BY <4>1, <4>2
      <4>4. x \in Subscriptions /\ task[v][x] \in {"failed", "cancelled"}
        BY DEF SentOK, TypeOK
      <4>5. QED
        BY <4>3, <4>4 DEF TypeOK
    <3>2. CASE Rewrite
      BY <3>2 DEF Rewrite
    <3>3. QED
      BY <3>1, <3>2
  <2>3. QED
    BY <2>1, <2>2
<1>7. QED
  BY <1>4, <1>5, <1>6

LEMMA FreshNext == Core /\ FreshOK /\ [Next]_vars => FreshOK'
<1> SUFFICES ASSUME Core, FreshOK, [Next]_vars PROVE FreshOK'
  OBVIOUS
<1>1. CASE Next
  BY <1>1, FreshBegin, FreshProduce, FreshUpload, FreshOthers DEF Next, Produce
<1>2. CASE UNCHANGED vars
  BY <1>2 DEF FreshOK, ReadsOK, AloneOK, ShownOK, vars, producer, ghosts
<1>3. QED
  BY <1>1, <1>2

-----------------------------------------------------------------------------
LEMMA Invariants == Spec => [](Core /\ FreshOK)
<1>1. Init => Core /\ FreshOK
  BY CoreInit, FreshInit
<1>2. (Core /\ FreshOK) /\ [Next]_vars => (Core /\ FreshOK)'
  BY CoreNext, FreshNext
<1>3. QED
  BY <1>1, <1>2, PTL DEF Spec

(***************************************************************************)
(* Every state of every uploader is of its type.                           *)
(***************************************************************************)
THEOREM TypeCorrect == Spec => []TypeOK
<1>1. Core /\ FreshOK => TypeOK
  BY DEF Core
<1>2. QED
  BY <1>1, Invariants, PTL

(***************************************************************************)
(* No slot of a running uploader's semaphore leaks, nor is released twice, *)
(* whatever becomes of its uploads.                                        *)
(***************************************************************************)
THEOREM NoSlotIsLost == Spec => []SlotsAccountedFor
<1>1. Core /\ FreshOK => SlotsAccountedFor
  BY DEF Core
<1>2. QED
  BY <1>1, Invariants, PTL

(***************************************************************************)
(* The report of an update has one outcome for each id it was given.       *)
(***************************************************************************)
THEOREM EveryIdIsReported == Spec => []ReportIsComplete
<1>1. Core => ReportIsComplete
  <2> SUFFICES ASSUME Core, NEW u \in Uploaders, phase[u] = "done"
               PROVE  /\ ok[u] + failed[u] = Cardinality(Targets[u])
                      /\ failed[u] >= Cardinality(Targets[u] \cap Mixed[u])
    BY DEF ReportIsComplete
  <2> DEFINE Ok == Tasks(u, {"ok"})
             Failed == Tasks(u, {"failed"})
  <2>1. \A s \in Subscriptions :
          IF s \in Targets[u] THEN task[u][s] \in {"ok", "failed"} ELSE task[u][s] = "none"
    <3> TAKE s \in Subscriptions
    <3>1. source[u] = {} /\ held[u] = None /\ s # None
      BY UploaderAssumption DEF Core, LoopOK, UploaderAssumption
    <3>2. task[u][s] = "none" <=> s \notin Targets[u]
      BY <3>1 DEF Core, LoopOK
    <3>3. task[u][s] \notin InFlight /\ task[u][s] # "cancelled"
      BY DEF Core, LoopOK, Working
    <3>4. task[u][s] \in TaskStates
      BY DEF Core, TypeOK
    <3>5. QED
      BY <3>2, <3>3, <3>4 DEF TaskStates
  <2>2. IsFiniteSet(Ok) /\ IsFiniteSet(Failed) /\ Ok \cap Failed = {}
    BY FS_Subset, UploaderAssumption DEF UploaderAssumption, Tasks
  <2>3. Ok \cup Failed = Targets[u]
    BY <2>1, UploaderAssumption DEF Tasks, UploaderAssumption
  <2>4. Cardinality(Targets[u]) = Cardinality(Ok) + Cardinality(Failed)
    <3>1. Cardinality(Ok \cup Failed) = Cardinality(Ok) + Cardinality(Failed)
                                           - Cardinality(Ok \cap Failed)
      BY <2>2, FS_Union
    <3>2. Cardinality(Ok \cap Failed) = 0
      BY <2>2, FS_EmptySet
    <3>3. Cardinality(Ok) \in Nat /\ Cardinality(Failed) \in Nat
      BY <2>2, FS_CardinalityType
    <3>4. Cardinality(Targets[u]) = Cardinality(Ok) + Cardinality(Failed) - 0
      BY <2>3, <3>1, <3>2
    <3>5. QED
      BY <3>3, <3>4
  <2>5. Targets[u] \cap Mixed[u] \subseteq Failed
    BY <2>1, UploaderAssumption DEF Core, SentOK, Tasks, UploaderAssumption
  <2>6. Cardinality(Targets[u] \cap Mixed[u]) <= Cardinality(Failed)
    BY <2>2, <2>5, FS_Subset
  <2>7. /\ Cardinality(Failed) \in Nat
        /\ Cardinality(Targets[u] \cap Mixed[u]) \in Nat
    BY <2>2, <2>5, FS_Subset, FS_CardinalityType
  <2>8. ok[u] = Cardinality(Ok) /\ failed[u] = Cardinality(Failed)
    BY DEF Core, CountsOK
  <2>9. QED
    BY <2>4, <2>6, <2>7, <2>8
<1>2. QED
  BY <1>1, Invariants, PTL

(***************************************************************************)
(* What every uploader refuses, or only goes through in a dry run, the     *)
(* platform is never sent.                                                 *)
(***************************************************************************)
THEOREM RefusedStaysHidden == Spec => []RefusedIsNotShown
<1>1. Init => RefusedIsNotShown
  BY DEF Init, RefusedIsNotShown
<1>2. Core /\ RefusedIsNotShown /\ [Next]_vars => RefusedIsNotShown'
  <2> SUFFICES ASSUME Core, RefusedIsNotShown, [Next]_vars
               PROVE  RefusedIsNotShown'
    OBVIOUS
  <2>1. dryRun' = dryRun
    <3>1. ASSUME NEW u \in Uploaders, Produce(u) \/ Abandon(u)
          PROVE  dryRun' = dryRun
      BY <3>1 DEF Produce, Begin, NextId, ReadMonth, CreateTask, Exhausted, Join, Abandon
    <3>2. ASSUME NEW u \in Uploaders, NEW x \in Subscriptions, Upload(u, x)
          PROVE  dryRun' = dryRun
      BY <3>2 DEF Upload, Refuse, SkipPut, SendPut, PutLands, PutAnswered, PutFails
    <3>3. CASE StrayLands
      BY <3>3 DEF StrayLands
    <3>4. CASE Rewrite
      BY <3>4 DEF Rewrite
    <3>5. CASE UNCHANGED vars
      BY <3>5 DEF vars
    <3>6. QED
      BY <3>1, <3>2, <3>3, <3>4, <3>5 DEF Next
  <2> SUFFICES ASSUME NEW s \in Subscriptions,
                      \A u \in Uploaders : dryRun[u] \/ s \in Mixed[u]
               PROVE  platform'[s] = platform[s]
    BY <2>1 DEF RefusedIsNotShown
  <2>2. \A u \in Uploaders : task[u][s] # "putting" /\ s \notin stray[u]
    BY DEF Core, SentOK
  <2>3. CASE StrayLands
    BY <2>2, <2>3 DEF StrayLands, Core, TypeOK
  <2>4. ASSUME NEW u \in Uploaders, NEW x \in Subscriptions, PutLands(u, x)
        PROVE  platform'[s] = platform[s]
    BY <2>2, <2>4 DEF PutLands, Core, TypeOK
  <2>5. \/ platform' = platform
        \/ StrayLands
        \/ \E u \in Uploaders, x \in Subscriptions : PutLands(u, x)
    BY DEF Next, vars, Produce, Begin, NextId, ReadMonth, CreateTask, Exhausted, Join, Abandon,
           Upload, Refuse, SkipPut, SendPut, PutAnswered, PutFails, Rewrite
  <2>6. QED
    BY <2>3, <2>4, <2>5
<1>3. QED
  BY <1>1, <1>2, Invariants, PTL DEF Spec

(***************************************************************************)
(* A clean update that no other's PUTs overlapped leaves the platform with *)
(* estimates of rows no older than those stored when it began.             *)
(***************************************************************************)
THEOREM UploadsAreFresh == Spec => []UploadIsFresh
<1>1. Core /\ FreshOK => UploadIsFresh
  <2> SUFFICES ASSUME Core, FreshOK, NEW u \in Uploaders,
                      phase[u] = "done", failed[u] = 0, ~dryRun[u], ~overlapped[u],
                      NEW s \in Targets[u], NEW m \in Months
               PROVE  platform[s][m] >= begun[u][s][m]
    BY DEF UploadIsFresh
  <2>1. s \in Subscriptions
    BY UploaderAssumption DEF UploaderAssumption
  <2>2. task[u][s] # "failed"
    <3>1. IsFiniteSet(Tasks(u, {"failed"})) /\ Cardinality(Tasks(u, {"failed"})) = 0
      BY FS_Subset, UploaderAssumption DEF UploaderAssumption, Tasks, Core, CountsOK
    <3>2. Tasks(u, {"failed"}) = {}
      BY <3>1, FS_EmptySet
    <3>3. QED
      BY <2>1, <3>2 DEF Tasks
  <2>3. task[u][s] # "none"
    BY <2>1, UploaderAssumption DEF Core, LoopOK, UploaderAssumption
  <2>4. task[u][s] \notin InFlight /\ task[u][s] # "cancelled"
    BY <2>1 DEF Core, LoopOK, Working
  <2>5. task[u][s] = "ok"
    BY <2>1, <2>2, <2>3, <2>4 DEF Core, TypeOK, TaskStates
  <2>6. QED
    BY <2>1, <2>5 DEF FreshOK, ShownOK
<1>2. QED
  BY <1>1, Invariants, PTL
=============================================================================
