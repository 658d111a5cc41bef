--------------------------- MODULE DispatchProofs ---------------------------
(***************************************************************************)
(* The safety of the task dispatcher, for any collectors, qualities,       *)
(* channel capacities and number of rounds: DispatchInv is inductive.      *)
(***************************************************************************)
EXTENDS Dispatch, TLAPS

\* What a handler, a request and a task are made of.
LEMMA JobParts ==
    /\ \A j \in Job : /\ j.at \in Collectors
                      /\ j.task \in Task
    /\ \A c \in Collectors, r \in Request :
          /\ Handler(c, r) \in Job
          /\ Handler(c, r).at = c
          /\ Handler(c, r).task = r.task
          /\ r.task \in Task
  BY DEF Job, Handler, Request

\* A task is determined by its round and its kind.
LEMMA TaskParts ==
    \A t \in Task : /\ t.round \in Rounds
                    /\ t.kind \in {"quality", "proof", "signature"}
                    /\ t = [round |-> t.round, kind |-> t.kind]
  BY DEF Task

\* The requests the three senders make.
LEMMA RequestParts ==
    ASSUME NEW t \in Task
    PROVE  /\ t.kind = "quality" =>
                 \A v \in {"broadcast", "subscribe"} :
                    [task |-> t, via |-> v] \in Request
           /\ t.kind # "quality" => [task |-> t, via |-> "send"] \in Request
  BY DEF Request, Via

\* The tasks of the round solveBlock is in.
LEMMA TaskOfParts ==
    ASSUME round \in 0..MaxRounds, round > 0,
           NEW k \in {"quality", "proof", "signature"}
    PROVE  /\ TaskOf(k) \in Task
           /\ TaskOf(k).round = round
           /\ TaskOf(k).kind = k
           /\ TaskOf(k) # None
  BY DispatchAssumption, NilAssumption DEF TaskOf, Task, Rounds

-----------------------------------------------------------------------------
(* The type invariant.                                                     *)

\* What a handler submits is a CollectorMsg.
LEMMA MessageType ==
    ASSUME TypeOK, NEW j \in Job,
           j.task.kind = "quality" => slot[j] <= MaxSlot
    PROVE  Message(j) \in Report
  BY JobParts, DispatchAssumption DEF TypeOK, Message, Report, Slots

\* A request put into a requestCh keeps the channels' type.
LEMMA PutType ==
    ASSUME TypeOK, NEW c, NEW r \in Request, Put(c, r)
    PROVE  inbox' \in [Collectors -> Seq(Request)]
<1>1. inbox \in [Collectors -> Seq(Request)]
  BY DEF TypeOK
<1>2. CASE c \in Collectors
  <2>1. Append(inbox[c], r) \in Seq(Request)
    BY <1>1, <1>2
  <2> QED
    BY <1>1, <2>1 DEF Put
<1>3. CASE c \notin Collectors
  BY <1>1, <1>3 DEF Put
<1> QED
  BY <1>2, <1>3

\* RemoveTask keeps the types of what the superior holds.
LEMMA RemoveType ==
    ASSUME TypeOK, NEW t \in Task, RemoveTask(t)
    PROVE  /\ cached' \subseteq Task
           /\ closed' \subseteq Task
           /\ answers' \in [Task -> Seq(Report)]
           /\ latest' \in QualityTask \cup {None}
           /\ holder' = holder
           /\ panic' \in BOOLEAN
<1>1. <<>> \in Seq(Report)
  OBVIOUS
<1>2. panic' \in BOOLEAN
  <2>1. CASE t \in cached
    <3>1. panic' = (t \in closed)
      BY <2>1 DEF RemoveTask
    <3>2. (t \in closed) = TRUE \/ (t \in closed) = FALSE
      OBVIOUS
    <3> QED
      BY <3>1, <3>2
  <2>2. CASE t \notin cached
    BY <2>2 DEF RemoveTask, TypeOK
  <2> QED
    BY <2>1, <2>2
<1>3. answers' \in [Task -> Seq(Report)]
  BY <1>1 DEF RemoveTask, TypeOK
<1> QED
  BY <1>2, <1>3 DEF RemoveTask, TypeOK

\* The steps of solveBlock, a stale chain and OnStop keep the types.
LEMMA MinerType ==
    ASSUME TypeOK, LocalsSet, MinerStep \/ StaleCollect \/ OnStop
    PROVE  TypeOK'
<1> USE DEF AtMiner, OnlyMiner, minerVars, taskVars, collectorVars, jobVars
<1>0. mpc \notin {"idle", "stopped"} =>
          \A k \in {"quality", "proof", "signature"} :
              TaskOf(k) \in Task /\ TaskOf(k).kind = k
  BY TaskOfParts DEF LocalsSet, TypeOK
<1>1. CASE SolveBlock
  BY <1>1, DispatchAssumption DEF SolveBlock, TypeOK, MinerState
<1>2. CASE AddQuality \/ AddProof \/ AddSignature
  BY <1>0, <1>2
     DEF AddQuality, AddProof, AddSignature, AddTask, TypeOK, MinerState
<1>3. CASE SetLatest \/ Broadcast
  BY <1>0, <1>3 DEF SetLatest, Broadcast, TypeOK, MinerState, QualityTask
<1>4. CASE ReceiveQualities
  BY <1>0, <1>4 DEF ReceiveQualities, TypeOK
<1>5. CASE ReceiveProof
  BY <1>0, <1>5 DEF ReceiveProof, TypeOK, MinerState
<1>6. CASE ReceiveSignature
  BY <1>0, <1>6 DEF ReceiveSignature, TypeOK, MinerState
<1>7. CASE QuitCollect \/ StaleCollect \/ Finalize
  BY <1>7
     DEF QuitCollect, StaleCollect, Finalize, LeaveCollect, TypeOK, MinerState
<1>8. CASE EndQuality \/ DropProof \/ DropQuality \/ DropSignature
  <2>1. PICK k \in {"quality", "proof", "signature"}, p \in MinerState :
            Remove(k, p)
    BY <1>8 DEF EndQuality, DropProof, DropQuality, DropSignature, MinerState
  <2>2. RemoveTask(TaskOf(k)) /\ TaskOf(k) \in Task
    BY <1>0, <1>8, <2>1
       DEF EndQuality, DropProof, DropQuality, DropSignature, Remove
  <2>3. /\ cached' \subseteq Task
        /\ closed' \subseteq Task
        /\ answers' \in [Task -> Seq(Report)]
        /\ latest' \in QualityTask \cup {None}
        /\ holder' = holder
        /\ panic' \in BOOLEAN
    BY <2>2, RemoveType
  <2> QED
    BY <2>1, <2>3 DEF Remove, Goto, TypeOK
<1>9. CASE SendProof
  <2> DEFINE t == TaskOf("proof")
  <2>1. [task |-> t, via |-> "send"] \in Request
    BY <1>0, <1>9, RequestParts DEF SendProof
  <2> QED
    BY <1>9, <2>1, PutType DEF SendProof, SendTo, Send, TypeOK, MinerState
<1>10. CASE SendSignature
  <2> DEFINE t == TaskOf("signature")
  <2>1. [task |-> t, via |-> "send"] \in Request
    BY <1>0, <1>10, RequestParts DEF SendSignature
  <2> QED
    BY <1>10, <2>1, PutType DEF SendSignature, SendTo, Send, TypeOK, MinerState
<1>11. CASE ProofTimeout \/ SignatureTimeout
  BY <1>11 DEF ProofTimeout, SignatureTimeout, Timeout, TypeOK, MinerState
<1>12. CASE Assemble
  BY <1>12 DEF Assemble, Goto, TypeOK, MinerState
<1>13. CASE OnStop \/ GenerateBlocksEnds
  BY <1>13 DEF OnStop, GenerateBlocksEnds, TypeOK, MinerState
<1> QED
  BY <1>1, <1>2, <1>3, <1>4, <1>5, <1>6, <1>7, <1>8, <1>9, <1>10, <1>11,
     <1>12, <1>13 DEF MinerStep

\* The steps of requestProcessor, waitStop and the pool's sends keep the types.
LEMMA CollectorType ==
    ASSUME TypeOK, SubscribersMeet, NEW c \in Collectors,
           CollectorStep(c) \/ WaitStop(c) \/ \E t \in QualityTask : RunPost(t, c)
    PROVE  TypeOK'
<1> USE DEF At, OnlyCollector, minerVars, taskVars, jobVars
<1>1. CASE Register(c) \/ ReadLatest(c)
  BY <1>1 DEF Register, ReadLatest, TypeOK, CollectorState
<1>2. CASE SendOwn(c)
  <2>1. own[c] \in QualityTask
    BY <1>2 DEF SendOwn, SubscribersMeet, TypeOK
  <2>2. [task |-> own[c], via |-> "subscribe"] \in Request
    BY <2>1, RequestParts DEF QualityTask
  <2> QED
    BY <1>2, <2>2, PutType DEF SendOwn, TypeOK, CollectorState
<1>3. CASE SendOwnCancelled(c)
  BY <1>3 DEF SendOwnCancelled, TypeOK, CollectorState
<1>4. CASE Process(c)
  <2>1. Head(inbox[c]) \in Request
    BY <1>4 DEF Process, TypeOK
  <2>2. Handler(c, Head(inbox[c])) \in Job
    BY <2>1, JobParts
  <2> QED
    BY <1>4, <2>2 DEF Process, TypeOK, JobState
<1>5. CASE ProcessorEnds(c)
  BY <1>5 DEF ProcessorEnds, TypeOK, CollectorState
<1>6. CASE WaitStop(c)
  BY <1>6 DEF WaitStop, TypeOK
<1>7. ASSUME NEW t \in QualityTask, RunPost(t, c)
      PROVE  TypeOK'
  <2>1. [task |-> t, via |-> "broadcast"] \in Request
    BY RequestParts DEF QualityTask
  <2> QED
    BY <1>7, <2>1, PutType DEF RunPost, TypeOK
<1> QED
  BY <1>1, <1>2, <1>3, <1>4, <1>5, <1>6, <1>7 DEF CollectorStep

\* The steps of a request handler keep the types.
LEMMA JobType ==
    ASSUME TypeOK, HolderWaits, NEW j \in Job, JobStep(j)
    PROVE  TypeOK'
<1> USE DispatchAssumption
    DEF JobAt, OnlyJob, minerVars, taskVars, collectorVars
<1>1. CASE TrySlot(j) \/ TrySlotsEnds(j)
  <2>1. job' \in [Job -> JobState] /\ slot' \in [Job -> 1..MaxSlot + 1]
    <3>1. CASE TrySlotsEnds(j)
      BY <3>1 DEF TrySlotsEnds, TypeOK, JobState
    <3>2. CASE TrySlot(j)
      <4>1. slot[j] \in 1..MaxSlot + 1 /\ slot[j] + 1 \in 1..MaxSlot + 1
        BY <3>2 DEF TrySlot, TypeOK
      <4> QED
        BY <3>2, <4>1 DEF TrySlot, TypeOK, JobState
    <3> QED
      BY <1>1, <3>1, <3>2
  <2> QED
    BY <1>1, <2>1 DEF TrySlot, TrySlotsEnds, TypeOK
<1>2. ASSUME job[j] \in {"report", "hold"}, Reported(j)
      PROVE  job' \in [Job -> JobState] /\ slot' \in [Job -> 1..MaxSlot + 1]
  <2>1. CASE j.task.kind = "quality"
    <3>1. slot[j] + 1 \in 1..MaxSlot + 1
      BY <1>2, <2>1 DEF HolderWaits, TypeOK
    <3> QED
      BY <1>2, <2>1, <3>1 DEF Reported, TypeOK, JobState
  <2>2. CASE j.task.kind # "quality"
    BY <1>2, <2>2 DEF Reported, TypeOK, JobState
  <2> QED
    BY <2>1, <2>2
<1>3. CASE SubmitUnknown(j)
  BY <1>2, <1>3 DEF SubmitUnknown, TypeOK
<1>4. CASE SubmitBlocks(j)
  BY <1>4 DEF SubmitBlocks, TypeOK, JobState
<1>5. CASE Abandon(j)
  BY <1>2, <1>5 DEF Abandon, TypeOK
<1>6. CASE Submit(j) \/ SubmitResumes(j)
  <2>1. job[j] \in {"report", "hold"} /\ Answer(j)
    BY <1>6 DEF Submit, SubmitResumes
  <2>2. Message(j) \in Report
    BY <2>1, MessageType DEF HolderWaits
  <2>3. j.task \in Task
    BY JobParts
  <2>4. job' \in [Job -> JobState] /\ slot' \in [Job -> 1..MaxSlot + 1]
    BY <1>2, <2>1 DEF Answer
  <2> QED
    BY <2>1, <2>2, <2>3, <2>4 DEF Answer, TypeOK
<1> QED
  BY <1>1, <1>3, <1>4, <1>5, <1>6 DEF JobStep
-----------------------------------------------------------------------------
(* The task cache: which tasks it holds, which channels are closed, who is *)
(* inside taskCacheLock, and what solveBlock knows.                        *)

TasksInv == NoPanic /\ TasksInUse /\ ClosedPast /\ HolderWaits /\ LocalsSet

\* Where solveBlock may leave a task of each kind in taskCache.
LEMMA UseParts ==
    /\ UseOf("quality") = {"setLatest", "broadcast", "collect", "endQuality",
                           "dropQuality"}
    /\ UseOf("proof") = {"sendProof", "waitProof", "dropProof"}
    /\ UseOf("signature") = {"sendSignature", "waitSignature", "dropSignature"}
  BY DEF UseOf

\* Where solveBlock has not removed the task of each kind yet.
LEMMA FreshParts ==
    /\ FreshAt("quality") = {"addQuality", "setLatest", "broadcast", "collect",
                             "endQuality"}
    /\ FreshAt("proof") = {"addQuality", "setLatest", "broadcast", "collect",
                           "endQuality", "addProof", "sendProof", "waitProof",
                           "dropProof"}
    /\ FreshAt("signature") =
          {"addQuality", "setLatest", "broadcast", "collect", "endQuality",
           "addProof", "sendProof", "waitProof", "dropProof", "dropQuality",
           "assemble", "addSignature", "sendSignature", "waitSignature",
           "dropSignature"}
  BY DEF FreshAt

\* A cached task is the one of its kind of this round, where it is in use.
LEMMA CachedParts ==
    ASSUME TypeOK, TasksInUse, NEW t \in cached
    PROVE  /\ t = TaskOf(t.kind)
           /\ t.round = round
           /\ t.kind \in {"quality", "proof", "signature"}
           /\ t.kind = "quality" => mpc \in {"setLatest", "broadcast",
                  "collect", "endQuality", "dropQuality"}
           /\ t.kind = "proof" => mpc \in {"sendProof", "waitProof",
                  "dropProof"}
           /\ t.kind = "signature" => mpc \in {"sendSignature",
                  "waitSignature", "dropSignature"}
  BY TaskParts, UseParts DEF TypeOK, TasksInUse, TaskOf

\* What the removal of a task of this round does to the cache.
LEMMA RemoveEffect ==
    ASSUME TypeOK, TasksInv, NEW k \in {"quality", "proof", "signature"},
           NEW p, Remove(k, p), round > 0
    PROVE  /\ cached' = cached \ {TaskOf(k)}
           /\ closed' \subseteq closed \cup {TaskOf(k)}
           /\ cached' \cap closed' = {}
           /\ panic' = FALSE
           /\ holder = None /\ holder' = None
           /\ round' = round /\ mpc' = p
<1>1. TaskOf(k) \in cached => TaskOf(k) \notin closed
  BY DEF TasksInv, ClosedPast
<1>2. panic' = FALSE
  <2>1. CASE TaskOf(k) \in cached
    <3>1. panic' = (TaskOf(k) \in closed)
      BY <2>1 DEF Remove, RemoveTask
    <3>2. (TaskOf(k) \in closed) = FALSE
      BY <1>1, <2>1
    <3> QED
      BY <3>1, <3>2
  <2>2. CASE TaskOf(k) \notin cached
    <3>1. panic' = panic
      BY <2>2 DEF Remove, RemoveTask
    <3> QED
      BY <3>1 DEF TasksInv, NoPanic, TypeOK
  <2> QED
    BY <2>1, <2>2
<1> QED
  BY <1>2 DEF TasksInv, ClosedPast, Remove, RemoveTask, Goto

\* AddTask and RemoveTask as solveBlock calls them keep cache, closed channels
\* and local variables in step.
LEMMA MinerTasks ==
    ASSUME TypeOK, TasksInv, TypeOK', MinerStep \/ StaleCollect \/ OnStop
    PROVE  TasksInv'
<1> USE DEF AtMiner, OnlyMiner, minerVars, taskVars, collectorVars, jobVars
<1>0. \A k \in {"quality", "proof", "signature"} :
          TaskOf(k).round = round /\ TaskOf(k).kind = k
  BY DEF TaskOf
<1>1. CASE SolveBlock
  <2>1. cached = {}
    BY <1>1, CachedParts DEF SolveBlock, TasksInv
  <2>2. TasksInUse' /\ NoPanic' /\ HolderWaits'
    BY <1>1, <2>1 DEF SolveBlock, TasksInv, TasksInUse, NoPanic, HolderWaits
  <2>3. ClosedPast'
    <3>1. \A t \in closed : t.round <= round + 1 /\ t.round # round + 1
      BY TaskParts, DispatchAssumption DEF TasksInv, ClosedPast, TypeOK, Rounds
    <3> QED
      BY <1>1, <2>1, <3>1 DEF SolveBlock, ClosedPast
  <2>4. LocalsSet'
    BY <1>1 DEF SolveBlock, TasksInv, LocalsSet, Unsent, TypeOK
  <2> QED
    BY <2>2, <2>3, <2>4 DEF TasksInv
<1>2. CASE AddQuality \/ AddProof \/ AddSignature
  <2>1. PICK k \in {"quality", "proof", "signature"}, p \in MinerState :
            /\ AddTask(TaskOf(k), p)
            /\ mpc \in FreshAt(k) /\ p \in UseOf(k)
            /\ \A q \in {"quality", "proof", "signature"} :
                  p \in FreshAt(q) => mpc \in FreshAt(q)
            /\ round' = round /\ panic' = panic /\ cached = {}
    BY <1>2, FreshParts, UseParts, CachedParts
       DEF AddQuality, AddProof, AddSignature, MinerState, TasksInv
  <2>2. TaskOf(k) \notin closed
    BY <1>0, <2>1 DEF TasksInv, ClosedPast
  <2>3. TasksInUse'
    BY <1>0, <2>1 DEF AddTask, TasksInUse, TaskOf
  <2>4. ClosedPast'
    BY <2>1, <2>2, TaskParts DEF AddTask, TasksInv, ClosedPast, TypeOK
  <2>5. HolderWaits' /\ LocalsSet' /\ NoPanic'
    BY <1>2, <2>1 DEF AddTask, TasksInv, HolderWaits, LocalsSet, NoPanic,
       Unsent, AddQuality, AddProof, AddSignature
  <2> QED
    BY <2>3, <2>4, <2>5 DEF TasksInv
<1> DEFINE Moved(p) ==
        /\ mpc' = p
        /\ UNCHANGED <<round, cached, closed, holder, job, slot, panic>>
<1>3. ASSUME NEW p \in MinerState, Moved(p),
             \A k \in {"quality", "proof", "signature"} :
                 /\ mpc \in UseOf(k) => p \in UseOf(k)
                 /\ p \in FreshAt(k) => mpc \in FreshAt(k)
      PROVE  NoPanic' /\ TasksInUse' /\ ClosedPast' /\ HolderWaits'
  <2>1. TasksInUse'
    BY <1>3, TaskParts DEF TasksInv, TasksInUse, TypeOK
  <2>2. ClosedPast'
    BY <1>3, TaskParts DEF TasksInv, ClosedPast, TypeOK
  <2> QED
    BY <1>3, <2>1, <2>2 DEF TasksInv, NoPanic, HolderWaits
<1>4. CASE SetLatest \/ Broadcast
  BY <1>3, <1>4, UseParts, FreshParts
     DEF SetLatest, Broadcast, MinerState, TasksInv, LocalsSet, Unsent
<1>5. CASE ReceiveQualities
  <2>1. Moved("collect")
    BY <1>5 DEF ReceiveQualities
  <2>2. NoPanic' /\ TasksInUse' /\ ClosedPast' /\ HolderWaits'
    BY <1>3, <1>5, <2>1 DEF ReceiveQualities, MinerState
  <2> QED
    BY <1>5, <2>2 DEF ReceiveQualities, TasksInv, LocalsSet, Unsent
<1>6. CASE ReceiveProof \/ ReceiveSignature \/ ProofTimeout \/ SignatureTimeout
  BY <1>3, <1>6, UseParts, FreshParts
     DEF ReceiveProof, ReceiveSignature, ProofTimeout, SignatureTimeout,
         Timeout, MinerState, TasksInv, LocalsSet, Unsent
<1>7. CASE QuitCollect \/ StaleCollect \/ Finalize
  BY <1>3, <1>7, UseParts, FreshParts
     DEF QuitCollect, StaleCollect, Finalize, LeaveCollect, MinerState,
         TasksInv, LocalsSet, Unsent
<1>8. CASE EndQuality \/ DropProof \/ DropQuality \/ DropSignature
  <2>1. PICK k \in {"quality", "proof", "signature"}, p \in MinerState :
            /\ Remove(k, p) /\ mpc \in UseOf(k) /\ p \notin FreshAt(k)
            /\ \A q \in {"quality", "proof", "signature"} :
                  p \in FreshAt(q) => mpc \in FreshAt(q)
    BY <1>8, UseParts, FreshParts
       DEF EndQuality, DropProof, DropQuality, DropSignature, MinerState
  <2>2. round > 0
    BY <1>8 DEF EndQuality, DropProof, DropQuality, DropSignature, TasksInv,
       LocalsSet
  <2>3. /\ cached' = cached \ {TaskOf(k)}
        /\ closed' \subseteq closed \cup {TaskOf(k)}
        /\ cached' \cap closed' = {}
        /\ panic' = FALSE
        /\ holder = None /\ holder' = None
        /\ round' = round /\ mpc' = p
    BY <2>1, <2>2, RemoveEffect
  <2>4. cached' = {}
    BY <2>1, <2>3, CachedParts, UseParts DEF TasksInv
  <2>5. ClosedPast'
    BY <1>0, <2>1, <2>3, TaskParts DEF TasksInv, ClosedPast, TypeOK
  <2>6. HolderWaits'
    <3>1. \A j \in Job : job[j] # "hold"
      BY <2>3, NilAssumption DEF TasksInv, HolderWaits
    <3> QED
      BY <2>1, <3>1 DEF Remove, TasksInv, HolderWaits
  <2>7. LocalsSet'
    BY <1>8, <2>2 DEF EndQuality, DropProof, DropQuality, DropSignature, Remove,
       Goto, TasksInv, LocalsSet, Unsent
  <2> QED
    BY <2>3, <2>4, <2>5, <2>6, <2>7 DEF TasksInv, NoPanic, TasksInUse
<1>9. CASE SendProof \/ SendSignature
  BY <1>3, <1>9, UseParts, FreshParts
     DEF SendProof, SendSignature, SendTo, MinerState, TasksInv, LocalsSet,
         Unsent
<1>10. CASE Assemble
  BY <1>3, <1>10, UseParts, FreshParts
     DEF Assemble, Goto, MinerState, TasksInv, LocalsSet, Unsent
<1>11. CASE OnStop
  <2>1. Moved(mpc) /\ mpc \in MinerState
    BY <1>11 DEF OnStop, TypeOK
  <2>2. NoPanic' /\ TasksInUse' /\ ClosedPast' /\ HolderWaits'
    BY <1>3, <2>1
  <2> QED
    BY <1>11, <2>2 DEF OnStop, TasksInv, LocalsSet, Unsent
<1>12. CASE GenerateBlocksEnds
  BY <1>3, <1>12, UseParts, FreshParts
     DEF GenerateBlocksEnds, MinerState, TasksInv, LocalsSet, Unsent
<1> QED
  BY <1>1, <1>2, <1>4, <1>5, <1>6, <1>7, <1>8, <1>9, <1>10, <1>11, <1>12
     DEF MinerStep

\* Collectors and pool sends do not touch the tasks.
LEMMA CollectorTasks ==
    ASSUME TypeOK, TasksInv, NEW c \in Collectors,
           CollectorStep(c) \/ WaitStop(c) \/ \E t \in QualityTask : RunPost(t, c)
    PROVE  TasksInv'
<1> USE DEF At, OnlyCollector, minerVars, taskVars, jobVars
<1>1. CASE Process(c)
  <2> DEFINE h == Handler(c, Head(inbox[c]))
  <2>1. h \in Job /\ h.task = Head(inbox[c]).task
    BY <1>1, JobParts DEF Process, TypeOK
  <2>2. /\ job' \in {[job EXCEPT ![h] = p] : p \in {"try", "report", "done"}}
        /\ h.task.kind = "quality" => job'[h] # "report"
    BY <1>1, <2>1 DEF Process, TypeOK
  <2>3. HolderWaits'
    BY <1>1, <2>1, <2>2 DEF Process, TasksInv, HolderWaits, TypeOK
  <2> QED
    BY <1>1, <2>3 DEF Process, TasksInv, NoPanic, TasksInUse, ClosedPast,
       LocalsSet
<1>2. CASE ~ Process(c)
  <2>1. UNCHANGED <<minerVars, taskVars, jobVars, panic>>
    BY <1>2 DEF CollectorStep, Register, ReadLatest, SendOwn, SendOwnCancelled,
       ProcessorEnds, WaitStop, RunPost
  <2> QED
    BY <2>1 DEF TasksInv, NoPanic, TasksInUse, ClosedPast, HolderWaits,
       LocalsSet
<1> QED
  BY <1>1, <1>2

\* submitCollectorMsg sends only under the lock, to a task in the cache.
LEMMA JobTasks ==
    ASSUME TypeOK, TasksInv, NEW j \in Job, JobStep(j)
    PROVE  TasksInv'
<1> USE DEF JobAt, OnlyJob, minerVars, taskVars, collectorVars
<1>1. ASSUME UNCHANGED <<minerVars, cached, closed>>, panic' = FALSE,
             HolderWaits'
      PROVE  TasksInv'
  BY <1>1 DEF TasksInv, NoPanic, TasksInUse, ClosedPast, LocalsSet
<1>2. ASSUME job[j] \in {"report", "hold"}, Reported(j), holder' = None,
             holder = None \/ holder = j, cached' = cached
      PROVE  HolderWaits'
  <2>1. \A i \in Job \ {j} : job[i] # "hold"
    BY <1>2, NilAssumption DEF TasksInv, HolderWaits
  <2> QED
    BY <1>2, <2>1 DEF Reported, TasksInv, HolderWaits, TypeOK
<1>3. panic = FALSE
  BY DEF TasksInv, NoPanic, TypeOK
<1>4. CASE TrySlot(j) \/ TrySlotsEnds(j)
  <2>1. HolderWaits'
    BY <1>4 DEF TrySlot, TrySlotsEnds, TasksInv, HolderWaits, TypeOK
  <2> QED
    BY <1>1, <1>3, <1>4, <2>1 DEF TrySlot, TrySlotsEnds
<1>5. CASE SubmitUnknown(j)
  BY <1>1, <1>2, <1>3, <1>5 DEF SubmitUnknown
<1>6. CASE SubmitBlocks(j)
  <2>1. \A i \in Job : job[i] # "hold"
    BY <1>6, NilAssumption DEF SubmitBlocks, TasksInv, HolderWaits
  <2>2. HolderWaits'
    BY <1>6, <2>1 DEF SubmitBlocks, TasksInv, HolderWaits, TypeOK
  <2> QED
    BY <1>1, <1>3, <1>6, <2>2 DEF SubmitBlocks
<1>7. CASE Abandon(j)
  <2>1. holder = None \/ holder = j
    BY <1>7 DEF Abandon, TasksInv, HolderWaits
  <2> QED
    BY <1>1, <1>2, <1>3, <1>7, <2>1 DEF Abandon
<1>8. CASE Submit(j) \/ SubmitResumes(j)
  <2>1. /\ job[j] \in {"report", "hold"} /\ Answer(j)
        /\ j.task \in cached
        /\ holder = None \/ holder = j
    BY <1>8 DEF Submit, SubmitResumes, TasksInv, HolderWaits
  <2>2. panic' = FALSE
    <3>1. (j.task \in closed) = FALSE
      BY <2>1 DEF TasksInv, ClosedPast
    <3> QED
      BY <2>1, <3>1 DEF Answer
  <2> QED
    BY <1>1, <1>2, <2>1, <2>2 DEF Answer
<1> QED
  BY <1>4, <1>5, <1>6, <1>7, <1>8 DEF JobStep
-----------------------------------------------------------------------------
(* Requests and answers: where a task may be, and what the answer is of.   *)

\* A step of solveBlock that sends nothing new: the next round, or the same
\* one with best the same, dropped, or still being chosen.
Onward ==
    \/ round' = round + 1
    \/ /\ round' = round
       /\ mpc' \in Unsent => mpc \in Unsent
       /\ best' = best \/ best' = None \/ mpc \in Unsent

\* Directed after the step, of a collector and a task named before it.
DirectedNext(c, t) ==
    /\ t.round <= round'
    /\ t.kind # "quality" /\ t.round = round' =>
          /\ mpc' \notin Unsent
          /\ best' # None => c = best'.from

\* Where a task may be, it may be after a step onward.
LEMMA DirectedKept ==
    ASSUME TypeOK, Onward
    PROVE  \A c : \A t \in Task : Directed(c, t) => DirectedNext(c, t)
  BY TaskParts, DispatchAssumption
     DEF TypeOK, Onward, Directed, DirectedNext, Rounds

\* Each part of RequestsDirected is kept where its state is.
LEMMA InboxKept ==
    ASSUME TypeOK, Onward, InboxDirected, UNCHANGED inbox
    PROVE  InboxDirected'
<1>1. \A c \in Collectors : \A i \in 1..Len(inbox[c]) :
          inbox[c][i].task \in Task
  BY JobParts DEF TypeOK
<1> QED
  BY <1>1, DirectedKept DEF InboxDirected, Directed, DirectedNext

\* ... the handlers, when no new one is started,
LEMMA JobsKept ==
    ASSUME TypeOK, Onward, JobsDirected,
           \A j \in Job : job'[j] # "none" => job[j] # "none"
    PROVE  JobsDirected'
  BY JobParts, DirectedKept DEF JobsDirected, Directed, DirectedNext

\* ... and the answers.
LEMMA AnswersKept ==
    ASSUME TypeOK, Onward, AnswersDirected, UNCHANGED answers
    PROVE  AnswersDirected'
  BY DirectedKept DEF AnswersDirected, Directed, DirectedNext

\* A channel may lose its first message, or all of them.
LEMMA AnswersTaken ==
    ASSUME TypeOK, Onward, AnswersDirected, NEW u \in Task,
           \/ answers' = [answers EXCEPT ![u] = <<>>]
           \/ answers[u] # <<>> /\ answers' = [answers EXCEPT ![u] = Tail(@)]
    PROVE  AnswersDirected'
<1> SUFFICES ASSUME NEW t \in Task, NEW i \in 1..Len(answers'[t])
             PROVE  /\ answers'[t][i].task = t
                    /\ DirectedNext(answers'[t][i].from, t)
  BY DEF AnswersDirected, Directed, DirectedNext
<1>1. CASE t # u
  <2>1. answers'[t] = answers[t]
    BY <1>1 DEF TypeOK
  <2> QED
    BY <2>1, DirectedKept DEF AnswersDirected
<1>2. CASE t = u
  <2>1. answers[u] \in Seq(Report)
    BY DEF TypeOK
  <2>2. answers'[u] = Tail(answers[u]) /\ answers[u] # <<>>
    <3>1. answers'[u] # <<>>
      BY <1>2
    <3> QED
      BY <3>1 DEF TypeOK
  <2>3. i + 1 \in 1..Len(answers[u]) /\ answers'[u][i] = answers[u][i + 1]
    BY <1>2, <2>1, <2>2
  <2> QED
    BY <1>2, <2>3, DirectedKept DEF AnswersDirected
<1> QED
  BY <1>1, <1>2

\* A request put into a channel that its task may be in.
LEMMA InboxPut ==
    ASSUME TypeOK, Onward, InboxDirected, NEW d \in Collectors,
           NEW r \in Request, Put(d, r), DirectedNext(d, r.task)
    PROVE  InboxDirected'
<1> SUFFICES ASSUME NEW c \in Collectors, NEW i \in 1..Len(inbox'[c])
             PROVE  DirectedNext(c, inbox'[c][i].task)
  BY DEF InboxDirected, Directed, DirectedNext
<1>1. ASSUME i \in 1..Len(inbox[c]), inbox'[c][i] = inbox[c][i]
      PROVE  DirectedNext(c, inbox'[c][i].task)
  <2>1. inbox[c][i].task \in Task
    BY <1>1, JobParts DEF TypeOK
  <2> QED
    BY <1>1, <2>1, DirectedKept DEF InboxDirected
<1>2. CASE c # d \/ cpc[d] = "closed"
  <2>1. inbox'[c] = inbox[c]
    BY <1>2 DEF Put, TypeOK
  <2> QED
    BY <1>1, <2>1
<1>3. CASE c = d /\ cpc[d] # "closed"
  <2>1. inbox'[d] = Append(inbox[d], r) /\ inbox[d] \in Seq(Request)
    BY <1>3 DEF Put, TypeOK
  <2>2. CASE i = Len(inbox[d]) + 1
    <3>1. inbox'[c][i] = r
      BY <1>3, <2>1, <2>2
    <3> QED
      BY <1>3, <3>1
  <2>3. CASE i # Len(inbox[d]) + 1
    <3>1. i \in 1..Len(inbox[c]) /\ inbox'[c][i] = inbox[c][i]
      BY <1>3, <2>1, <2>3
    <3> QED
      BY <1>1, <3>1
  <2> QED
    BY <2>2, <2>3
<1> QED
  BY <1>2, <1>3
RoutesInv == RequestsDirected /\ AnswersMatch

\* What a step does that neither sends nor takes anything.
LEMMA RoutesKept ==
    ASSUME TypeOK, Onward, RequestsDirected,
           UNCHANGED <<inbox, answers, posts, own, latest>>,
           \A j \in Job : job'[j] # "none" => job[j] # "none"
    PROVE  RequestsDirected'
<1>1. round' >= round /\ round \in Nat
  BY DispatchAssumption DEF Onward, TypeOK
<1>2. TasksPast'
  <2>1. TasksPast
    BY DEF RequestsDirected
  <2>2. /\ \A x \in posts : x[1].round \in Nat
        /\ \A c \in Collectors : own[c] # None => own[c].round \in Nat
        /\ latest # None => latest.round \in Nat
    BY TaskParts, DispatchAssumption DEF TypeOK, QualityTask, Rounds
  <2>3. round' \in Nat
    BY DispatchAssumption DEF Onward, TypeOK
  <2> QED
    BY <1>1, <2>1, <2>2, <2>3 DEF TasksPast
<1> QED
  BY <1>2, InboxKept, JobsKept, AnswersKept DEF RequestsDirected

\* solveBlock sends a proof or signature request to the best collector alone.
LEMMA MinerRoutes ==
    ASSUME TypeOK, TasksInv, RoutesInv, TypeOK',
           MinerStep \/ StaleCollect \/ OnStop
    PROVE  RoutesInv'
<1> USE DEF AtMiner, OnlyMiner, minerVars, taskVars, collectorVars, jobVars
<1>0. /\ mpc \notin {"idle", "stopped"} =>
            \A k \in {"quality", "proof", "signature"} : TaskOf(k) \in Task
      /\ \A k : TaskOf(k).round = round /\ TaskOf(k).kind = k
  BY TaskOfParts DEF TasksInv, LocalsSet, TypeOK, TaskOf
<1>1. CASE SolveBlock
  <2>1. Onward
    BY <1>1 DEF SolveBlock, Onward
  <2>2. RequestsDirected'
    BY <1>1, <2>1, RoutesKept DEF SolveBlock, RoutesInv
  <2> QED
    BY <1>1, <2>2 DEF SolveBlock, RoutesInv, AnswersMatch, TasksInv, LocalsSet
<1>2. CASE AddQuality \/ AddProof \/ AddSignature
  <2>1. Onward
    BY <1>2 DEF AddQuality, AddProof, AddSignature, AddTask, Onward, Unsent
  <2>2. RequestsDirected'
    BY <1>2, <2>1, RoutesKept
       DEF AddQuality, AddProof, AddSignature, AddTask, RoutesInv
  <2> QED
    BY <1>2, <2>2 DEF AddQuality, AddProof, AddSignature, AddTask, RoutesInv,
       AnswersMatch, TaskOf
<1>3. CASE SetLatest
  <2>1. Onward
    BY <1>3 DEF SetLatest, Onward, Unsent
  <2>2. RequestsDirected'
    BY <1>0, <1>3, <2>1, InboxKept, JobsKept, AnswersKept
       DEF SetLatest, RoutesInv, RequestsDirected, TasksPast, TypeOK
  <2> QED
    BY <1>3, <2>2 DEF SetLatest, RoutesInv, AnswersMatch, TaskOf
<1>4. CASE Broadcast
  <2>1. Onward
    BY <1>4 DEF Broadcast, Onward, Unsent
  <2>2. RequestsDirected'
    BY <1>0, <1>4, <2>1, InboxKept, JobsKept, AnswersKept
       DEF Broadcast, RoutesInv, RequestsDirected, TasksPast, TypeOK
  <2> QED
    BY <1>4, <2>2 DEF Broadcast, RoutesInv, AnswersMatch, TaskOf
<1>5. ASSUME NEW u \in Task, Onward, round' = round,
             UNCHANGED <<inbox, posts, own, latest, job>>,
             answers[u] # <<>>, answers' = [answers EXCEPT ![u] = Tail(@)]
      PROVE  RequestsDirected'
  BY <1>5, InboxKept, JobsKept, AnswersTaken
     DEF RoutesInv, RequestsDirected, TasksPast
<1>6. CASE ReceiveQualities
  <2>1. Onward
    BY <1>6 DEF ReceiveQualities, Onward, Unsent
  <2>2. RequestsDirected'
    BY <1>0, <1>5, <1>6, <2>1 DEF ReceiveQualities
  <2>3. proof = None /\ sig = None
    BY <1>6 DEF ReceiveQualities, TasksInv, LocalsSet, Unsent
  <2> QED
    BY <1>6, <2>2, <2>3 DEF ReceiveQualities, RoutesInv, AnswersMatch
<1>7. CASE ReceiveProof
  <2> DEFINE u == TaskOf("proof")
  <2>1. Onward
    BY <1>7 DEF ReceiveProof, Onward, Unsent
  <2>2. RequestsDirected'
    BY <1>0, <1>5, <1>7, <2>1 DEF ReceiveProof
  <2>3. best # None /\ sig = None
    BY <1>7 DEF ReceiveProof, TasksInv, LocalsSet
  <2>4. proof' = answers[u][1] /\ 1 \in 1..Len(answers[u]) /\ u \in Task
    BY <1>0, <1>7 DEF ReceiveProof, TypeOK
  <2>5. proof'.task = u /\ proof'.from = best.from
    BY <1>0, <2>3, <2>4
       DEF RoutesInv, RequestsDirected, AnswersDirected, Directed
  <2> QED
    BY <1>7, <2>2, <2>3, <2>5 DEF ReceiveProof, RoutesInv, AnswersMatch, TaskOf
<1>8. CASE ReceiveSignature
  <2> DEFINE u == TaskOf("signature")
  <2>1. Onward
    BY <1>8 DEF ReceiveSignature, Onward, Unsent
  <2>2. RequestsDirected'
    BY <1>0, <1>5, <1>8, <2>1 DEF ReceiveSignature
  <2>3. proof # None /\ best # None
    BY <1>8 DEF ReceiveSignature, TasksInv, LocalsSet, RoutesInv, AnswersMatch
  <2>4. sig' = answers[u][1] /\ 1 \in 1..Len(answers[u]) /\ u \in Task
    BY <1>0, <1>8 DEF ReceiveSignature, TypeOK
  <2>5. sig'.task = u /\ sig'.from = best.from
    BY <1>0, <2>3, <2>4
       DEF RoutesInv, RequestsDirected, AnswersDirected, Directed
  <2> QED
    BY <1>8, <2>2, <2>3, <2>5
       DEF ReceiveSignature, RoutesInv, AnswersMatch, TaskOf
<1>9. CASE QuitCollect \/ StaleCollect \/ Finalize
  <2>1. Onward
    BY <1>9 DEF QuitCollect, StaleCollect, Finalize, LeaveCollect, Onward, Unsent
  <2>2. RequestsDirected'
    BY <1>9, <2>1, RoutesKept
       DEF QuitCollect, StaleCollect, Finalize, LeaveCollect, RoutesInv
  <2> QED
    BY <1>9, <2>2 DEF QuitCollect, StaleCollect, Finalize, LeaveCollect,
       RoutesInv, AnswersMatch, TaskOf
<1>10. CASE EndQuality \/ DropProof \/ DropQuality \/ DropSignature
  <2>1. PICK k \in {"quality", "proof", "signature"},
             p \in {"addProof", "dropQuality", "idle", "assemble"} :
            /\ Remove(k, p) /\ TaskOf(k) \in Task
            /\ p = "addProof" => mpc = "endQuality"
    BY <1>0, <1>10 DEF EndQuality, DropProof, DropQuality, DropSignature
  <2>2. Onward
    BY <2>1 DEF Remove, Goto, Onward, Unsent
  <2>3. RequestsDirected'
    <3>1. AnswersDirected'
      BY <2>1, <2>2, AnswersTaken, AnswersKept
         DEF Remove, RemoveTask, RoutesInv, RequestsDirected
    <3>2. TasksPast'
      BY <2>1 DEF Remove, RemoveTask, RoutesInv, RequestsDirected, TasksPast
    <3> QED
      BY <2>1, <2>2, <3>1, <3>2, InboxKept, JobsKept
         DEF Remove, RoutesInv, RequestsDirected
  <2> QED
    BY <2>1, <2>3 DEF Remove, Goto, RoutesInv, AnswersMatch, TaskOf
<1>11. CASE SendProof \/ SendSignature
  <2>1. PICK k \in {"proof", "signature"},
             p \in {"waitProof", "waitSignature"} :
            SendTo(k, p) /\ TaskOf(k) \in Task
    BY <1>0, <1>11 DEF SendProof, SendSignature
  <2>2. Onward
    BY <2>1 DEF SendTo, Onward, Unsent
  <2>3. InboxDirected'
    <3> DEFINE r == [task |-> TaskOf(k), via |-> "send"]
    <3>1. best # None /\ best.from \in Collectors
      BY <1>11 DEF SendProof, SendSignature, TasksInv, LocalsSet, RoutesInv,
         AnswersMatch, TypeOK, Report
    <3>2. CASE best.from \in subscribed
      <4>1. Put(best.from, r)
        BY <2>1, <3>2 DEF SendTo, Send
      <4>2. r \in Request /\ r.task = TaskOf(k)
        BY <1>0, <2>1, RequestParts
      <4>3. DirectedNext(best.from, TaskOf(k))
        BY <1>0, <2>1 DEF SendTo, DirectedNext, Unsent, TypeOK
      <4> HIDE DEF r
      <4> QED
        BY <2>2, <3>1, <4>1, <4>2, <4>3, InboxPut
           DEF RoutesInv, RequestsDirected
    <3>3. CASE best.from \notin subscribed
      BY <2>1, <2>2, <3>3, InboxKept
         DEF SendTo, Send, RoutesInv, RequestsDirected
    <3> QED
      BY <3>2, <3>3
  <2>4. RequestsDirected'
    BY <2>1, <2>2, <2>3, JobsKept, AnswersKept
       DEF SendTo, Send, RoutesInv, RequestsDirected, TasksPast
  <2> QED
    BY <2>1, <2>4 DEF SendTo, RoutesInv, AnswersMatch, TaskOf
<1>12. CASE ProofTimeout \/ SignatureTimeout \/ Assemble
  <2>1. Onward
    BY <1>12 DEF ProofTimeout, SignatureTimeout, Timeout, Assemble, Goto, Onward,
       Unsent
  <2>2. RequestsDirected'
    BY <1>12, <2>1, RoutesKept
       DEF ProofTimeout, SignatureTimeout, Timeout, Assemble, Goto, RoutesInv
  <2> QED
    BY <1>12, <2>2 DEF ProofTimeout, SignatureTimeout, Timeout, Assemble, Goto,
       RoutesInv, AnswersMatch, TaskOf
<1>13. CASE OnStop \/ GenerateBlocksEnds
  <2>1. Onward
    BY <1>13 DEF OnStop, GenerateBlocksEnds, Onward, Unsent
  <2>2. RequestsDirected'
    BY <1>13, <2>1, RoutesKept DEF OnStop, GenerateBlocksEnds, RoutesInv
  <2> QED
    BY <1>13, <2>2 DEF OnStop, GenerateBlocksEnds, RoutesInv, AnswersMatch,
       TaskOf
<1> QED
  BY <1>1, <1>2, <1>3, <1>4, <1>6, <1>7, <1>8, <1>9, <1>10, <1>11, <1>12,
     <1>13 DEF MinerStep

\* requestProcessor hands a request on to a handler of its own collector.
LEMMA CollectorRoutes ==
    ASSUME TypeOK, RoutesInv, SubscribersMeet, NEW c \in Collectors,
           CollectorStep(c) \/ WaitStop(c) \/ \E t \in QualityTask : RunPost(t, c)
    PROVE  RoutesInv'
<1> USE DEF At, OnlyCollector, minerVars, taskVars, jobVars
<1>1. /\ Onward /\ AnswersMatch'
      /\ UNCHANGED <<round, mpc, best, answers, latest>>
  <2>1. UNCHANGED <<minerVars, taskVars, panic>>
    BY DEF CollectorStep, Register, ReadLatest, SendOwn, SendOwnCancelled,
       Process, ProcessorEnds, WaitStop, RunPost
  <2> QED
    BY <2>1 DEF Onward, RoutesInv, AnswersMatch, TaskOf
<1>2. AnswersDirected'
  BY <1>1, AnswersKept DEF RoutesInv, RequestsDirected
<1>3. CASE Register(c) \/ ReadLatest(c) \/ SendOwnCancelled(c) \/ WaitStop(c)
  <2>1. InboxDirected' /\ JobsDirected'
    BY <1>1, <1>3, InboxKept, JobsKept
       DEF Register, ReadLatest, SendOwnCancelled, WaitStop, RoutesInv,
           RequestsDirected
  <2>2. TasksPast'
    BY <1>1, <1>3
       DEF Register, ReadLatest, SendOwnCancelled, WaitStop, RoutesInv,
           RequestsDirected, TasksPast, TypeOK
  <2> QED
    BY <1>1, <1>2, <2>1, <2>2 DEF RoutesInv, RequestsDirected
<1>4. CASE SendOwn(c)
  <2> DEFINE r == [task |-> own[c], via |-> "subscribe"]
  <2>1. own[c] \in QualityTask
    BY <1>4 DEF SendOwn, SubscribersMeet, TypeOK
  <2>2. r \in Request /\ r.task = own[c]
    BY <2>1, RequestParts DEF QualityTask
  <2>3. DirectedNext(c, own[c])
    BY <1>1, <2>1, NilAssumption DEF RoutesInv, RequestsDirected, TasksPast,
       DirectedNext, QualityTask
  <2>4. Put(c, r)
    BY <1>4 DEF SendOwn
  <2> HIDE DEF r
  <2>5. InboxDirected'
    BY <1>1, <2>2, <2>3, <2>4, InboxPut DEF RoutesInv, RequestsDirected
  <2>6. JobsDirected' /\ TasksPast'
    BY <1>1, <1>4, JobsKept
       DEF SendOwn, RoutesInv, RequestsDirected, TasksPast, TypeOK
  <2> QED
    BY <1>1, <1>2, <2>5, <2>6 DEF RoutesInv, RequestsDirected
<1>5. CASE Process(c)
  <2> DEFINE h == Handler(c, Head(inbox[c]))
  <2>1. /\ inbox[c] \in Seq(Request) /\ inbox[c] # <<>>
        /\ Head(inbox[c]) = inbox[c][1] /\ 1 \in 1..Len(inbox[c])
        /\ inbox' = [inbox EXCEPT ![c] = Tail(inbox[c])]
    BY <1>5 DEF Process, TypeOK
  <2>2. h \in Job /\ h.at = c /\ h.task = inbox[c][1].task /\ h.task \in Task
    BY <2>1, JobParts
  <2>3. DirectedNext(h.at, h.task)
    BY <1>1, <2>1, <2>2, DirectedKept
       DEF RoutesInv, RequestsDirected, InboxDirected
  <2>4. JobsDirected'
    <3> SUFFICES ASSUME NEW j \in Job, job'[j] # "none"
                 PROVE  DirectedNext(j.at, j.task)
      BY DEF JobsDirected, Directed, DirectedNext
    <3>1. CASE j = h
      BY <2>3, <3>1
    <3>2. CASE j # h
      <4>1. job[j] # "none"
        BY <1>5, <3>2 DEF Process, TypeOK
      <4> QED
        BY <1>1, <4>1, DirectedKept, JobParts
           DEF RoutesInv, RequestsDirected, JobsDirected
    <3> QED
      BY <3>1, <3>2
  <2>5. InboxDirected'
    <3> SUFFICES ASSUME NEW d \in Collectors, NEW i \in 1..Len(inbox'[d])
                 PROVE  DirectedNext(d, inbox'[d][i].task)
      BY DEF InboxDirected, Directed, DirectedNext
    <3>1. \E k \in 1..Len(inbox[d]) : inbox'[d][i] = inbox[d][k]
      <4>1. CASE d = c
        <5>1. inbox'[d] = Tail(inbox[c])
          BY <2>1, <4>1 DEF TypeOK
        <5>2. inbox[c] \in Seq(Request) /\ inbox[c] # <<>>
          BY <2>1
        <5>3. i \in 1..Len(Tail(inbox[c]))
          BY <5>1
        <5>4. /\ i + 1 \in 1..Len(inbox[c])
              /\ Tail(inbox[c])[i] = inbox[c][i + 1]
          BY <5>2, <5>3
        <5> QED
          BY <4>1, <5>1, <5>4
      <4>2. CASE d # c
        <5>1. inbox'[d] = inbox[d]
          BY <2>1, <4>2 DEF TypeOK
        <5> QED
          BY <5>1
      <4> QED
        BY <4>1, <4>2
    <3>2. PICK k \in 1..Len(inbox[d]) : inbox'[d][i] = inbox[d][k]
      BY <3>1
    <3>3. inbox[d][k].task \in Task
      BY JobParts DEF TypeOK
    <3> QED
      BY <1>1, <3>2, <3>3, DirectedKept
         DEF RoutesInv, RequestsDirected, InboxDirected
  <2>6. TasksPast'
    BY <1>1, <1>5 DEF Process, RoutesInv, RequestsDirected, TasksPast
  <2> QED
    BY <1>1, <1>2, <2>4, <2>5, <2>6 DEF RoutesInv, RequestsDirected
<1>6. CASE ProcessorEnds(c)
  <2>1. InboxDirected'
    <3> SUFFICES ASSUME NEW d \in Collectors, NEW i \in 1..Len(inbox'[d])
                 PROVE  DirectedNext(d, inbox'[d][i].task)
      BY DEF InboxDirected, Directed, DirectedNext
    <3>1. inbox'[d] = inbox[d]
      <4>1. CASE d = c
        BY <1>6, <4>1 DEF ProcessorEnds, TypeOK
      <4>2. CASE d # c
        BY <1>6, <4>2 DEF ProcessorEnds, TypeOK
      <4> QED
        BY <4>1, <4>2
    <3>2. inbox[d][i].task \in Task
      BY <3>1, JobParts DEF TypeOK
    <3> QED
      BY <1>1, <3>1, <3>2, DirectedKept
         DEF RoutesInv, RequestsDirected, InboxDirected
  <2>2. JobsDirected' /\ TasksPast'
    BY <1>1, <1>6, JobsKept
       DEF ProcessorEnds, RoutesInv, RequestsDirected, TasksPast
  <2> QED
    BY <1>1, <1>2, <2>1, <2>2 DEF RoutesInv, RequestsDirected
<1>7. ASSUME NEW t \in QualityTask, RunPost(t, c)
      PROVE  RoutesInv'
  <2> DEFINE r == [task |-> t, via |-> "broadcast"]
  <2>1. r \in Request /\ r.task = t
    BY RequestParts DEF QualityTask
  <2>2. t.round <= round
    <3>1. <<t, c>> \in posts
      BY <1>7 DEF RunPost
    <3>2. <<t, c>>[1].round <= round
      BY <3>1 DEF RoutesInv, RequestsDirected, TasksPast
    <3> QED
      BY <3>2
  <2>3. DirectedNext(c, t)
    BY <1>1, <2>2 DEF DirectedNext, QualityTask
  <2>4. Put(c, r)
    BY <1>7 DEF RunPost
  <2> HIDE DEF r
  <2>5. InboxDirected'
    BY <1>1, <2>1, <2>3, <2>4, InboxPut DEF RoutesInv, RequestsDirected
  <2>6. JobsDirected' /\ TasksPast'
    BY <1>1, <1>7, JobsKept
       DEF RunPost, RoutesInv, RequestsDirected, TasksPast
  <2> QED
    BY <1>1, <1>2, <2>5, <2>6 DEF RoutesInv, RequestsDirected
<1> QED
  BY <1>3, <1>4, <1>5, <1>6, <1>7 DEF CollectorStep

\* A handler answers the task it was started for, in its collector's name.
LEMMA JobRoutes ==
    ASSUME TypeOK, RoutesInv, NEW j \in Job, JobStep(j)
    PROVE  RoutesInv'
<1> USE DEF JobAt, OnlyJob, minerVars, taskVars, collectorVars
<1>1. /\ Onward /\ AnswersMatch'
      /\ UNCHANGED <<round, mpc, best, inbox, posts, own, latest>>
  <2>1. UNCHANGED <<minerVars, collectorVars, posts, latest>>
    BY DEF JobStep, TrySlot, TrySlotsEnds, SubmitUnknown, Submit, SubmitBlocks,
       SubmitResumes, Answer, Abandon
  <2> QED
    BY <2>1 DEF Onward, RoutesInv, AnswersMatch, TaskOf
<1>2. /\ job[j] # "none"
      /\ \A i \in Job : job'[i] # "none" => job[i] # "none"
  BY DEF JobStep, TrySlot, TrySlotsEnds, SubmitUnknown, Submit, SubmitBlocks,
     SubmitResumes, Answer, Abandon, Reported, TypeOK
<1>3. InboxDirected' /\ JobsDirected' /\ TasksPast'
  BY <1>1, <1>2, InboxKept, JobsKept DEF RoutesInv, RequestsDirected, TasksPast
<1>4. AnswersDirected'
  <2>1. CASE UNCHANGED answers
    BY <1>1, <2>1, AnswersKept DEF RoutesInv, RequestsDirected
  <2>2. CASE Answer(j)
    <3> SUFFICES ASSUME NEW t \in Task, NEW i \in 1..Len(answers'[t])
                 PROVE  /\ answers'[t][i].task = t
                        /\ DirectedNext(answers'[t][i].from, t)
      BY DEF AnswersDirected, Directed, DirectedNext
    <3>1. ASSUME i \in 1..Len(answers[t]), answers'[t][i] = answers[t][i]
          PROVE  /\ answers'[t][i].task = t
                 /\ DirectedNext(answers'[t][i].from, t)
      BY <1>1, <3>1, DirectedKept
         DEF RoutesInv, RequestsDirected, AnswersDirected
    <3>2. CASE t # j.task
      <4>1. answers'[t] = answers[t]
        BY <2>2, <3>2 DEF Answer, TypeOK
      <4> QED
        BY <3>1, <4>1
    <3>3. CASE t = j.task
      <4>1. /\ answers'[t] = Append(answers[t], Message(j))
            /\ answers[t] \in Seq(Report)
        BY <2>2, <3>3 DEF Answer, TypeOK
      <4>2. CASE i = Len(answers[t]) + 1
        <5>1. answers'[t][i] = Message(j)
          BY <4>1, <4>2
        <5>2. Message(j).task = j.task /\ Message(j).from = j.at
          BY DEF Message
        <5>3. DirectedNext(j.at, j.task)
          BY <1>1, <1>2, DirectedKept, JobParts
             DEF RoutesInv, RequestsDirected, JobsDirected
        <5> QED
          BY <3>3, <5>1, <5>2, <5>3
      <4>3. CASE i # Len(answers[t]) + 1
        <5>1. i \in 1..Len(answers[t]) /\ answers'[t][i] = answers[t][i]
          BY <4>1, <4>3
        <5> QED
          BY <3>1, <5>1
      <4> QED
        BY <4>2, <4>3
    <3> QED
      BY <3>2, <3>3
  <2> QED
    BY <2>1, <2>2 DEF JobStep, TrySlot, TrySlotsEnds, SubmitUnknown, Submit,
       SubmitBlocks, SubmitResumes, Abandon
<1> QED
  BY <1>1, <1>3, <1>4 DEF RoutesInv, RequestsDirected
-----------------------------------------------------------------------------
(* Subscriptions: everyone in its loop is asked.                           *)

AskInv == EveryoneAsked /\ SubscribersMeet

\* Asked after the step, of a collector and a task named before it.
AskedNext(c, t) ==
    \/ <<t, c>> \in posts'
    \/ \E v \in Via("quality") :
          LET r == [task |-> t, via |-> v] IN
          \/ \E i \in 1..Len(inbox'[c]) : inbox'[c][i] = r
          \/ job'[Handler(c, r)] # "none"

\* A request that is under way stays so while no one takes it.
LEMMA AskedKept ==
    ASSUME NEW c \in Collectors, NEW t \in QualityTask, Asked(c, t),
           posts \subseteq posts', inbox'[c] = inbox[c],
           \A j \in Job : job[j] # "none" => job'[j] # "none"
    PROVE  AskedNext(c, t)
<1>1. \A v \in Via("quality") : Handler(c, [task |-> t, via |-> v]) \in Job
  BY RequestParts, JobParts DEF QualityTask, Via
<1> QED
  BY <1>1 DEF Asked, AskedNext

\* A request that is put into a channel joins the ones that are there.
LEMMA AskedPut ==
    ASSUME TypeOK, NEW d \in Collectors, NEW u \in QualityTask,
           NEW v \in Via("quality"), cpc[d] # "closed",
           Put(d, [task |-> u, via |-> v]),
           NEW t \in QualityTask, NEW c \in Collectors,
           Asked(c, t) \/ (c = d /\ t = u),
           posts \ {<<u, d>>} \subseteq posts', UNCHANGED job
    PROVE  AskedNext(c, t)
<1> DEFINE r == [task |-> u, via |-> v]
<1>1. inbox[d] \in Seq(Request) /\ inbox \in [Collectors -> Seq(Request)]
  BY DEF TypeOK
<1>2. r \in Request
  BY RequestParts DEF QualityTask, Via
<1>3. inbox' = [inbox EXCEPT ![d] = Append(inbox[d], r)]
  BY DEF Put
<1>4. inbox'[d] = Append(inbox[d], r)
  BY <1>1, <1>3
<1>5. /\ Len(inbox[d]) + 1 \in 1..Len(inbox'[d])
      /\ inbox'[d][Len(inbox[d]) + 1] = r
      /\ \A i \in 1..Len(inbox[d]) :
            i \in 1..Len(inbox'[d]) /\ inbox'[d][i] = inbox[d][i]
  <2> HIDE DEF r
  <2> QED
    BY <1>1, <1>2, <1>4
<1>6. AskedNext(d, u)
  BY <1>5 DEF AskedNext
<1>7. CASE c = d
  <2>1. CASE t = u
    BY <1>6, <1>7, <2>1
  <2>2. CASE t # u
    <3>1. Asked(d, t)
      BY <1>7, <2>2
    <3>2. CASE <<t, d>> \in posts
      BY <1>7, <2>2, <3>2 DEF AskedNext
    <3>3. ASSUME NEW w \in Via("quality"), NEW i \in 1..Len(inbox[d]),
                 inbox[d][i] = [task |-> t, via |-> w]
          PROVE  AskedNext(d, t)
      BY <1>5, <3>3 DEF AskedNext
    <3>4. ASSUME NEW w \in Via("quality"),
                 job[Handler(d, [task |-> t, via |-> w])] # "none"
          PROVE  AskedNext(d, t)
      BY <3>4 DEF AskedNext
    <3> QED
      BY <1>7, <3>1, <3>2, <3>3, <3>4 DEF Asked
  <2> QED
    BY <2>1, <2>2
<1>8. CASE c # d
  <2>1. inbox'[c] = inbox[c]
    BY <1>1, <1>3, <1>8
  <2> QED
    BY <1>8, <2>1 DEF Asked, AskedNext
<1> QED
  BY <1>7, <1>8

\* What keeps AskInv where the miner collects: for every collector that is
\* not about to stop.
LEMMA AskInvFrom ==
    ASSUME TypeOK, SubscribersMeet,
           UNCHANGED <<round, mpc, latest>>,
           subscribed' = {c \in Collectors : cpc'[c] \notin {"new", "closed"}},
           \A c \in Collectors : cpc'[c] = "sending" => own'[c] # None,
           mpc = "collect" => \A c \in Collectors \ cancelled' :
               /\ cpc'[c] = "loop" => AskedNext(c, TaskOf("quality"))
               /\ cpc'[c] = "sending" => \/ own'[c] = TaskOf("quality")
                                         \/ AskedNext(c, TaskOf("quality"))
    PROVE  AskInv'
  BY DEF AskInv, EveryoneAsked, SubscribersMeet, Asked, AskedNext, TaskOf

\* The broadcast of solveBlock asks every subscriber.
LEMMA MinerAsks ==
    ASSUME TypeOK, TasksInv, AskInv, MinerStep \/ StaleCollect \/ OnStop
    PROVE  AskInv'
<1> USE DEF AtMiner, OnlyMiner, minerVars, taskVars, collectorVars, jobVars
<1>0. mpc \in {"setLatest", "broadcast", "collect"} =>
          TaskOf("quality") \in QualityTask
  BY TaskOfParts DEF TasksInv, LocalsSet, TypeOK, QualityTask
<1>1. UNCHANGED <<subscribed, cpc, own, cancelled>>
  BY DEF MinerStep, SolveBlock, AddQuality, SetLatest, Broadcast,
     ReceiveQualities, QuitCollect, StaleCollect, Finalize, LeaveCollect,
     EndQuality, DropProof, DropQuality, DropSignature, Remove, AddProof,
     AddSignature, SendProof, SendSignature, SendTo, Send, ReceiveProof,
     ReceiveSignature, ProofTimeout, SignatureTimeout, Timeout, Assemble,
     OnStop, GenerateBlocksEnds
<1>2. CASE SetLatest
  BY <1>1, <1>2 DEF SetLatest, AskInv, EveryoneAsked, SubscribersMeet, TaskOf
<1>3. CASE Broadcast
  <2>1. \A c \in subscribed : AskedNext(c, TaskOf("quality"))
    BY <1>3 DEF Broadcast, AskedNext
  <2>2. \A c \in Collectors : cpc[c] \in {"loop", "sending"} => c \in subscribed
    BY DEF AskInv, SubscribersMeet
  <2>3. EveryoneAsked'
    BY <1>1, <1>3, <2>1, <2>2
       DEF Broadcast, EveryoneAsked, Asked, AskedNext, TaskOf
  <2>4. SubscribersMeet'
    BY <1>1, <1>3, <2>1, <2>2
       DEF Broadcast, AskInv, SubscribersMeet, Asked, AskedNext, TaskOf
  <2> QED
    BY <2>3, <2>4 DEF AskInv
<1>4. CASE ReceiveQualities \/ OnStop
  <2>1. UNCHANGED <<round, mpc, latest, posts, inbox, job>>
    BY <1>4 DEF ReceiveQualities, OnStop
  <2> QED
    BY <1>1, <2>1
       DEF AskInv, EveryoneAsked, SubscribersMeet, Asked, TaskOf
<1>5. CASE ~(SetLatest \/ Broadcast \/ ReceiveQualities \/ OnStop)
  <2>1. mpc' \notin {"broadcast", "collect"}
    BY <1>5 DEF MinerStep, SolveBlock, AddQuality, QuitCollect, StaleCollect,
       Finalize, LeaveCollect, EndQuality, DropProof, DropQuality,
       DropSignature, Remove, Goto, AddProof, AddSignature, AddTask, SendProof,
       SendSignature, SendTo, ReceiveProof, ReceiveSignature, ProofTimeout,
       SignatureTimeout, Timeout, Assemble, GenerateBlocksEnds
  <2> QED
    BY <1>1, <2>1 DEF AskInv, EveryoneAsked, SubscribersMeet
<1> QED
  BY <1>2, <1>3, <1>4, <1>5

\* A handler that has been started stays started.
LEMMA JobAsks ==
    ASSUME TypeOK, TasksInv, AskInv, NEW j \in Job, JobStep(j)
    PROVE  AskInv'
<1> USE DEF JobAt, OnlyJob, minerVars, taskVars, collectorVars
<1>1. UNCHANGED <<minerVars, collectorVars, posts, latest>>
  BY DEF JobStep, TrySlot, TrySlotsEnds, SubmitUnknown, Submit, SubmitBlocks,
     SubmitResumes, Answer, Abandon
<1>2. \A i \in Job : job[i] # "none" => job'[i] # "none"
  BY DEF JobStep, TrySlot, TrySlotsEnds, SubmitUnknown, Submit, SubmitBlocks,
     SubmitResumes, Answer, Abandon, Reported, TypeOK
<1>3. mpc = "collect" => TaskOf("quality") \in QualityTask
  BY TaskOfParts DEF TasksInv, LocalsSet, TypeOK, QualityTask
<1>4. mpc = "collect" => \A c \in Collectors : Asked(c, TaskOf("quality")) =>
          AskedNext(c, TaskOf("quality"))
  BY <1>1, <1>2, <1>3, AskedKept
<1> QED
  BY <1>1, <1>4, AskInvFrom DEF AskInv, SubscribersMeet, EveryoneAsked

\* The handler of the request that is taken from the channel is started.
LEMMA AskedTaken ==
    ASSUME TypeOK, NEW d \in Collectors, Process(d),
           NEW t \in QualityTask, NEW c \in Collectors, Asked(c, t)
    PROVE  AskedNext(c, t)
<1> DEFINE h == Handler(d, Head(inbox[d]))
<1>1. inbox[d] \in Seq(Request) /\ inbox[d] # <<>>
  BY DEF Process, TypeOK
<1>2. h \in Job /\ Head(inbox[d]) = inbox[d][1]
  BY <1>1, JobParts
<1>3. /\ job'[h] # "none"
      /\ \A j \in Job : job[j] # "none" => job'[j] # "none"
  BY <1>2 DEF Process, TypeOK
<1>4. posts' = posts
  BY DEF Process
<1>5. CASE c # d
  <2>1. inbox'[c] = inbox[c]
    BY <1>5 DEF Process, TypeOK
  <2> QED
    BY <1>3, <1>4, <2>1, AskedKept
<1>6. CASE c = d
  <2>1. inbox'[d] = Tail(inbox[d])
    BY DEF Process, TypeOK
  <2>2. ASSUME NEW v \in Via("quality"), NEW i \in 1..Len(inbox[d]),
               inbox[d][i] = [task |-> t, via |-> v]
        PROVE  AskedNext(d, t)
    <3>1. CASE i = 1
      BY <1>2, <1>3, <2>2, <3>1 DEF AskedNext
    <3>2. CASE i # 1
      <4>1. i - 1 \in 1..Len(Tail(inbox[d])) /\ Tail(inbox[d])[i - 1] = inbox[d][i]
        BY <1>1, <3>2
      <4> QED
        BY <2>1, <2>2, <4>1 DEF AskedNext
    <3> QED
      BY <3>1, <3>2
  <2>3. ASSUME NEW v \in Via("quality"),
               job[Handler(d, [task |-> t, via |-> v])] # "none"
        PROVE  AskedNext(d, t)
    <3>1. Handler(d, [task |-> t, via |-> v]) \in Job
      BY RequestParts, JobParts DEF QualityTask, Via
    <3> QED
      BY <1>3, <2>3, <3>1 DEF AskedNext
  <2> QED
    BY <1>4, <1>6, <2>2, <2>3 DEF Asked, AskedNext
<1> QED
  BY <1>5, <1>6

\* Subscribe, however it meets the broadcast, leaves its collector asked.
LEMMA CollectorAsks ==
    ASSUME TypeOK, TasksInv, AskInv, NEW c \in Collectors,
           CollectorStep(c) \/ WaitStop(c) \/ \E t \in QualityTask : RunPost(t, c)
    PROVE  AskInv'
<1> USE DEF At, OnlyCollector, minerVars, taskVars, jobVars
<1> DEFINE q == TaskOf("quality")
<1>0. mpc = "collect" => q \in QualityTask /\ q # None /\ latest = q
  BY TaskOfParts DEF TasksInv, LocalsSet, TypeOK, QualityTask, AskInv,
     SubscribersMeet
<1>1. UNCHANGED <<round, mpc, latest>>
  BY DEF CollectorStep, Register, ReadLatest, SendOwn, SendOwnCancelled,
     Process, ProcessorEnds, WaitStop, RunPost
<1>2. ASSUME mpc = "collect", UNCHANGED <<posts, job>>,
             NEW d \in Collectors, Asked(d, q), inbox'[d] = inbox[d]
      PROVE  AskedNext(d, q)
  BY <1>0, <1>2, AskedKept
<1> HIDE DEF q
<1>3. CASE Register(c) \/ ReadLatest(c) \/ SendOwnCancelled(c) \/ WaitStop(c)
  <2>1. UNCHANGED <<posts, job, inbox>>
    BY <1>3 DEF Register, ReadLatest, SendOwnCancelled, WaitStop
  <2>2. subscribed' = {d \in Collectors : cpc'[d] \notin {"new", "closed"}}
    BY <1>3 DEF Register, ReadLatest, SendOwnCancelled, WaitStop, AskInv,
       SubscribersMeet, TypeOK
  <2>3. \A d \in Collectors : cpc'[d] = "sending" => own'[d] # None
    BY <1>3 DEF Register, ReadLatest, SendOwnCancelled, WaitStop, AskInv,
       SubscribersMeet, TypeOK
  <2>4. ASSUME mpc = "collect", NEW d \in Collectors \ cancelled'
        PROVE  /\ cpc'[d] = "loop" => AskedNext(d, q)
               /\ cpc'[d] = "sending" => own'[d] = q \/ AskedNext(d, q)
    <3>1. CASE d # c
      <4>1. /\ cpc'[d] = cpc[d] /\ own'[d] = own[d] /\ d \notin cancelled
        BY <1>3, <2>4, <3>1 DEF Register, ReadLatest, SendOwnCancelled, WaitStop,
           TypeOK
      <4> QED
        BY <1>2, <2>1, <2>4, <4>1
           DEF AskInv, EveryoneAsked, SubscribersMeet, q
    <3>2. CASE d = c
      BY <1>0, <1>2, <1>3, <2>1, <2>4, <3>2
         DEF Register, ReadLatest, SendOwnCancelled, WaitStop, TypeOK, AskInv,
             EveryoneAsked, SubscribersMeet, q
    <3> QED
      BY <3>1, <3>2
  <2> QED
    BY <1>1, <2>2, <2>3, <2>4, AskInvFrom DEF AskInv, q
<1>4. CASE SendOwn(c)
  <2>1. own[c] \in QualityTask /\ cpc[c] # "closed"
    BY <1>4 DEF SendOwn, AskInv, SubscribersMeet, TypeOK
  <2>2. /\ UNCHANGED <<posts, job, subscribed, cancelled>>
        /\ cpc' = [cpc EXCEPT ![c] = "loop"]
        /\ own' = [own EXCEPT ![c] = None]
        /\ Put(c, [task |-> own[c], via |-> "subscribe"])
    BY <1>4 DEF SendOwn
  <2>3. \A d \in Collectors : mpc = "collect" /\ (Asked(d, q) \/ (d = c /\ q = own[c]))
            => AskedNext(d, q)
    BY <1>0, <2>1, <2>2, AskedPut DEF Via
  <2>4. subscribed' = {d \in Collectors : cpc'[d] \notin {"new", "closed"}}
    BY <1>4, <2>2 DEF SendOwn, AskInv, SubscribersMeet, TypeOK
  <2>5. \A d \in Collectors : cpc'[d] = "sending" => own'[d] # None
    BY <2>2 DEF AskInv, SubscribersMeet, TypeOK
  <2>6. ASSUME mpc = "collect", NEW d \in Collectors \ cancelled'
        PROVE  /\ cpc'[d] = "loop" => AskedNext(d, q)
               /\ cpc'[d] = "sending" => own'[d] = q \/ AskedNext(d, q)
    <3>1. CASE d = c
      BY <1>4, <2>2, <2>3, <2>6, <3>1
         DEF SendOwn, AskInv, SubscribersMeet, q, TypeOK
    <3>2. CASE d # c
      <4>1. cpc'[d] = cpc[d] /\ own'[d] = own[d] /\ d \notin cancelled
        BY <2>2, <2>6, <3>2 DEF TypeOK
      <4> QED
        BY <2>3, <2>6, <4>1 DEF AskInv, EveryoneAsked, SubscribersMeet, q
    <3> QED
      BY <3>1, <3>2
  <2> QED
    BY <1>1, <2>4, <2>5, <2>6, AskInvFrom DEF AskInv, q
<1>5. CASE Process(c)
  <2>1. UNCHANGED <<subscribed, cpc, own, cancelled>>
    BY <1>5 DEF Process
  <2>2. \A d \in Collectors : mpc = "collect" /\ Asked(d, q) => AskedNext(d, q)
    BY <1>0, <1>5, AskedTaken
  <2> QED
    BY <1>1, <2>1, <2>2, AskInvFrom
       DEF AskInv, EveryoneAsked, SubscribersMeet, q
<1>6. CASE ProcessorEnds(c)
  <2>1. /\ UNCHANGED <<posts, job, own, cancelled>>
        /\ cpc' = [cpc EXCEPT ![c] = "closed"]
        /\ subscribed' = subscribed \ {c}
        /\ inbox' = [inbox EXCEPT ![c] = <<>>]
        /\ c \in cancelled
    BY <1>6 DEF ProcessorEnds
  <2>2. subscribed' = {d \in Collectors : cpc'[d] \notin {"new", "closed"}}
    BY <2>1 DEF AskInv, SubscribersMeet, TypeOK
  <2>3. \A d \in Collectors : cpc'[d] = "sending" => own'[d] # None
    BY <2>1 DEF AskInv, SubscribersMeet, TypeOK
  <2>4. ASSUME mpc = "collect", NEW d \in Collectors \ cancelled'
        PROVE  /\ cpc'[d] = "loop" => AskedNext(d, q)
               /\ cpc'[d] = "sending" => own'[d] = q \/ AskedNext(d, q)
    <3>1. cpc'[d] = cpc[d] /\ inbox'[d] = inbox[d] /\ d \notin cancelled
      BY <2>1, <2>4 DEF TypeOK
    <3> QED
      BY <1>2, <2>1, <2>4, <3>1
         DEF AskInv, EveryoneAsked, SubscribersMeet, q
  <2> QED
    BY <1>1, <2>2, <2>3, <2>4, AskInvFrom DEF AskInv, q
<1>7. ASSUME NEW t \in QualityTask, RunPost(t, c)
      PROVE  AskInv'
  <2>1. /\ UNCHANGED <<subscribed, cpc, own, cancelled, job>>
        /\ posts' = posts \ {<<t, c>>}
        /\ Put(c, [task |-> t, via |-> "broadcast"])
    BY <1>7 DEF RunPost
  <2>2. CASE cpc[c] # "closed"
    <3>1. \A d \in Collectors : mpc = "collect" /\ Asked(d, q) => AskedNext(d, q)
      BY <1>0, <2>1, <2>2, AskedPut DEF Via
    <3> QED
      BY <1>1, <2>1, <3>1, AskInvFrom
         DEF AskInv, EveryoneAsked, SubscribersMeet, q
  <2>3. CASE cpc[c] = "closed"
    <3>1. inbox' = inbox
      BY <2>1, <2>3 DEF Put
    <3>2. \A d \in Collectors \ {c} :
              mpc = "collect" /\ Asked(d, q) => AskedNext(d, q)
      BY <2>1, <3>1 DEF Asked, AskedNext
    <3> QED
      BY <1>1, <2>1, <2>3, <3>2, AskInvFrom
         DEF AskInv, EveryoneAsked, SubscribersMeet, q
  <2> QED
    BY <2>2, <2>3
<1> QED
  BY <1>3, <1>4, <1>5, <1>6, <1>7 DEF CollectorStep

-----------------------------------------------------------------------------
(* The theorems.                                                           *)

\* The invariant in the three parts the lemmas keep.
LEMMA DispatchSplit ==
    DispatchInv <=> TypeOK /\ TasksInv /\ RoutesInv /\ AskInv
  BY DEF DispatchInv, TasksInv, RoutesInv, AskInv

\* DispatchInv holds initially and every step keeps it: miner, collectors,
\* pool sends and handlers in any order.
THEOREM DispatchInvariant == Spec => []DispatchInv
<1>1. Init => DispatchInv
  <2> SUFFICES ASSUME Init PROVE DispatchInv
    OBVIOUS
  <2>1. TypeOK
    <3>1. /\ answers \in [Task -> Seq(Report)]
          /\ inbox \in [Collectors -> Seq(Request)]
      BY DEF Init
    <3>2. /\ cpc \in [Collectors -> CollectorState]
          /\ job \in [Job -> JobState]
          /\ slot \in [Job -> 1..MaxSlot + 1]
      BY DispatchAssumption DEF Init, CollectorState, JobState
    <3>3. /\ own \in [Collectors -> QualityTask \cup {None}]
          /\ current \in [Collectors -> Job \cup {None}]
          /\ subscribed \subseteq Collectors /\ posts \subseteq QualityTask \X Collectors
          /\ round \in 0..MaxRounds
      BY DispatchAssumption DEF Init
    <3> QED
      BY <3>1, <3>2, <3>3 DEF Init, TypeOK, MinerState
  <2>2. TasksInv
    BY DEF Init, TasksInv, NoPanic, TasksInUse, ClosedPast, HolderWaits,
       LocalsSet, Unsent
  <2>3. RoutesInv
    BY DEF Init, RoutesInv, RequestsDirected, InboxDirected, JobsDirected,
       AnswersDirected, TasksPast, AnswersMatch
  <2>4. AskInv
    BY DispatchAssumption DEF Init, AskInv, EveryoneAsked, SubscribersMeet
  <2> QED
    BY <2>1, <2>2, <2>3, <2>4, DispatchSplit
<1>2. DispatchInv /\ [Next]_vars => DispatchInv'
  <2> SUFFICES ASSUME DispatchInv, [Next]_vars PROVE DispatchInv'
    OBVIOUS
  <2> USE DEF TasksInv, RoutesInv, AskInv
  <2>0. TypeOK /\ TasksInv /\ RoutesInv /\ AskInv
    BY DispatchSplit
  <2>1. CASE MinerStep \/ StaleCollect \/ OnStop
    <3>1. TypeOK' /\ TasksInv' /\ RoutesInv' /\ AskInv'
      BY <2>0, <2>1, MinerType, MinerTasks, MinerRoutes, MinerAsks
    <3> QED
      BY <3>1 DEF DispatchInv
  <2>2. ASSUME NEW c \in Collectors,
               CollectorStep(c) \/ WaitStop(c)
                   \/ \E t \in QualityTask : RunPost(t, c)
        PROVE  DispatchInv'
    <3>1. TypeOK' /\ TasksInv' /\ RoutesInv' /\ AskInv'
      BY <2>0, <2>2, CollectorType, CollectorTasks, CollectorRoutes,
         CollectorAsks
    <3> QED
      BY <3>1 DEF DispatchInv
  <2>3. ASSUME NEW j \in Job, JobStep(j)
        PROVE  DispatchInv'
    <3>1. TypeOK' /\ TasksInv' /\ RoutesInv' /\ AskInv'
      BY <2>0, <2>3, JobType, JobTasks, JobRoutes, JobAsks
    <3> QED
      BY <3>1 DEF DispatchInv
  <2>4. CASE UNCHANGED vars
    <3> USE <2>4 DEF vars
    <3>1. TypeOK' /\ NoPanic' /\ TasksInUse' /\ ClosedPast' /\ LocalsSet'
      BY <2>0 DEF TypeOK, NoPanic, TasksInUse, ClosedPast, LocalsSet
    <3>2. HolderWaits' /\ AnswersMatch'
      BY <2>0 DEF HolderWaits, AnswersMatch, TaskOf
    <3>3. RequestsDirected'
      <4>1. Onward
        BY DEF Onward
      <4> QED
        BY <2>0, <4>1, RoutesKept
    <3>4. EveryoneAsked' /\ SubscribersMeet'
      <4>1. \A c \in Collectors : Asked(c, TaskOf("quality")) =>
                AskedNext(c, TaskOf("quality"))
        BY DEF Asked, AskedNext
      <4> QED
        BY <2>0, <4>1, AskInvFrom DEF EveryoneAsked, SubscribersMeet
    <3> QED
      BY <3>1, <3>2, <3>3, <3>4 DEF DispatchInv
  <2> QED
    BY <2>1, <2>2, <2>3, <2>4 DEF Next
<1> QED
  BY <1>1, <1>2, PTL DEF Spec

\* Every variable keeps its type.
THEOREM DispatchTyped == Spec => []TypeOK
<1>1. DispatchInv => TypeOK
  BY DEF DispatchInv
<1> QED
  BY <1>1, DispatchInvariant, PTL

\* RemoveTask never closes a channel twice and no handler sends on a closed
\* one, whatever the collectors, their handlers and the rounds do.
THEOREM ChannelsClosedOnce == Spec => []NoPanic
<1>1. DispatchInv => NoPanic
  BY DEF DispatchInv
<1> QED
  BY <1>1, DispatchInvariant, PTL

\* Every way out of a round removes its tasks from taskCache.
THEOREM TasksAreRemoved == Spec => []TasksInUse
<1>1. DispatchInv => TasksInUse
  BY DEF DispatchInv
<1> QED
  BY <1>1, DispatchInvariant, PTL

\* The proof and the signature of a block are of its round and from the
\* collector with the best quality.
THEOREM AnswersAreOfTheBest == Spec => []AnswersMatch
<1>1. DispatchInv => AnswersMatch
  BY DEF DispatchInv
<1> QED
  BY <1>1, DispatchInvariant, PTL

\* No collector that subscribes around a broadcast is left without the task.
THEOREM NobodyIsMissed == Spec => []EveryoneAsked
<1>1. DispatchInv => EveryoneAsked
  BY DEF DispatchInv
<1> QED
  BY <1>1, DispatchInvariant, PTL
=============================================================================
