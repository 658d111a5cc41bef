------------------------------ MODULE Dispatch ------------------------------
(***************************************************************************)
(* How the v2 miner has its work done (fractal/superior.go, LocalSuperior; *)
(* fractal/collector.go, LocalCollector; engine.v2 pocminer/miner,         *)
(* solveBlock and getBestProof).  In each round the miner broadcasts a     *)
(* quality task, takes the best of the collectors' reports, and asks the   *)
(* collector it came from for the proof and then for the signature.        *)
(* Collectors subscribe and stop at any time.                              *)
(*                                                                         *)
(* Steps are the sections between two points where goroutines meet:        *)
(* taskCacheLock, the superior's RWMutex, a channel operation.  Clocks are *)
(* left open: a ticker, a timeout, or a slot whose time has come, is a     *)
(* step that may be taken at any moment.                                   *)
(***************************************************************************)
EXTENDS Integers, Sequences, FiniteSets

CONSTANTS
    Collectors,  \* LocalCollector ids
    Early,       \* those that have subscribed before the miner starts
    None,        \* nil
    Score,       \* quality a collector finds for a slot, 0: below the target
    Bound,       \* collectors whose plots pass the template's PassBinding
    TaskCap,     \* capacity of a task's answer channel
    RequestCap,  \* capacity of a collector's requestCh
    MaxStops,    \* bound: collectors that are stopped
    MaxSlot,     \* bound: slots tried per quality task
    MaxRounds    \* bound: rounds of solveBlock

Rounds == 1..MaxRounds
Slots  == 1..MaxSlot

ASSUME DispatchAssumption ==
    /\ Early \subseteq Collectors
    /\ Score \in [Collectors -> [Slots -> Nat]]
    /\ Bound \subseteq Collectors
    /\ TaskCap \in Nat \ {0}
    /\ RequestCap \in Nat \ {0}
    /\ MaxStops \in Nat
    /\ MaxSlot \in Nat
    /\ MaxRounds \in Nat

VARIABLES
    round,       \* solveBlock calls so far
    mpc,         \* where solveBlock is
    best,        \* bestCollector, bestSlot and bestQuality
    proof,       \* protocolProof
    sig,         \* localSig
    quit,        \* the miner's quit channel is closed
    cached,      \* taskCache: the tasks it holds
    closed,      \* tasks whose channel is closed
    answers,     \* each task's answer channel
    latest,      \* latestTask
    holder,      \* the handler inside taskCacheLock with its send to do
    posts,       \* Broadcast's sends that the pool has not run yet
    subscribed,  \* baseSuperior.collectors
    cpc,         \* where each collector's requestProcessor is
    own,         \* latestTask as a Subscribe in progress has read it
    inbox,       \* each collector's requestCh
    current,     \* the quality handler that qualitiesCanceller cancels
    cancelled,   \* collectors whose ctx is cancelled
    job,         \* where each request handler is
    slot,        \* workSlot of each quality handler
    panic        \* a channel was closed twice, or sent on when closed

minerVars     == <<round, mpc, best, proof, sig, quit>>
taskVars      == <<cached, closed, answers, latest, holder>>
collectorVars == <<subscribed, cpc, own, inbox, current, cancelled>>
jobVars       == <<job, slot>>
vars == <<round, mpc, best, proof, sig, quit, cached, closed, answers, latest,
          holder, posts, subscribed, cpc, own, inbox, current, cancelled, job,
          slot, panic>>

-----------------------------------------------------------------------------
(* Tasks, requests, handlers and reports.                                  *)

\* TaskID is a fresh uuid: one for each kind of request of a round
Task == [round : Rounds, kind : {"quality", "proof", "signature"}]
QualityTask == {t \in Task : t.kind = "quality"}

\* the message in requestCh, and which of the three senders put it there
Via(kind) == IF kind = "quality" THEN {"broadcast", "subscribe"} ELSE {"send"}
Request == {r \in [task : Task, via : {"broadcast", "subscribe", "send"}] :
                r.via \in Via(r.task.kind)}

\* the goroutine that handles request r at collector c
Handler(c, r) == [at |-> c, task |-> r.task, via |-> r.via]
Job == {Handler(c, r) : c \in Collectors, r \in Request}

\* CollectorMsg: slot and score tell the qualities of a report apart
Report == [task : Task, from : Collectors, slot : 0..MaxSlot, score : Nat]

ASSUME NilAssumption == None \notin Task /\ None \notin Job

JobState == {"none", "try", "report", "hold", "done"}
CollectorState == {"new", "registered", "sending", "loop", "closed"}
MinerState ==
    {"idle", "addQuality", "setLatest", "broadcast", "collect", "endQuality",
     "addProof", "sendProof", "waitProof", "dropProof", "dropQuality",
     "assemble", "addSignature", "sendSignature", "waitSignature",
     "dropSignature", "stopped"}

TypeOK ==
    /\ round \in 0..MaxRounds
    /\ mpc \in MinerState
    /\ best \in Report \cup {None}
    /\ proof \in Report \cup {None}
    /\ sig \in Report \cup {None}
    /\ quit \in BOOLEAN
    /\ cached \subseteq Task
    /\ closed \subseteq Task
    /\ answers \in [Task -> Seq(Report)]
    /\ latest \in QualityTask \cup {None}
    /\ holder \in Job \cup {None}
    /\ posts \subseteq QualityTask \X Collectors
    /\ subscribed \subseteq Collectors
    /\ cpc \in [Collectors -> CollectorState]
    /\ own \in [Collectors -> QualityTask \cup {None}]
    /\ inbox \in [Collectors -> Seq(Request)]
    /\ current \in [Collectors -> Job \cup {None}]
    /\ cancelled \subseteq Collectors
    /\ job \in [Job -> JobState]
    /\ slot \in [Job -> 1..MaxSlot + 1]
    /\ panic \in BOOLEAN

Init ==
    /\ round = 0
    /\ mpc = "idle"
    /\ best = None
    /\ proof = None
    /\ sig = None
    /\ quit = FALSE
    /\ cached = {}
    /\ closed = {}
    /\ answers = [t \in Task |-> <<>>]
    /\ latest = None
    /\ holder = None
    /\ posts = {}
    /\ subscribed = Early
    /\ cpc = [c \in Collectors |-> IF c \in Early THEN "loop" ELSE "new"]
    /\ own = [c \in Collectors |-> None]
    /\ inbox = [c \in Collectors |-> <<>>]
    /\ current = [c \in Collectors |-> None]
    /\ cancelled = {}
    /\ job = [j \in Job |-> "none"]
    /\ slot = [j \in Job |-> 1]
    /\ panic = FALSE

-----------------------------------------------------------------------------
(* LocalSuperior.                                                          *)

\* whoever is in Send, blocked on a requestCh, holds the RWMutex for reading
Unread == /\ \A c \in Collectors : cpc[c] # "sending"
          /\ mpc \notin {"sendProof", "sendSignature"}

\* lc.requestCh <- req: closed panics, which safeSendChannel recovers from
Put(c, r) ==
    IF cpc[c] = "closed" THEN UNCHANGED inbox
    ELSE /\ Len(inbox[c]) < RequestCap
         /\ inbox' = [inbox EXCEPT ![c] = Append(@, r)]

\* AddTask, up to where it hands the request on
AddTask(t, next) ==
    /\ holder = None
    /\ cached' = cached \cup {t}
    /\ mpc' = next
    /\ UNCHANGED <<closed, answers, latest, holder>>

\* mutant: the request goes to every collector
SendToAll(c, t) ==
    /\ inbox' = [d \in Collectors |->
                    IF d \in subscribed /\ c \in subscribed
                    THEN Append(inbox[d], [task |-> t, via |-> "send"])
                    ELSE inbox[d]]
    /\ UNCHANGED <<subscribed, cpc, own, current, cancelled>>

\* AddTask for one collector: Send, under the read lock
Send(c, t) ==
    /\ IF c \in subscribed
       THEN Put(c, [task |-> t, via |-> "send"])
       ELSE UNCHANGED inbox
    /\ UNCHANGED <<subscribed, cpc, own, current, cancelled>>

\* RemoveTask; what a closed channel still holds is never read again
RemoveTask(t) ==
    /\ holder = None
    /\ IF t \in cached
       THEN /\ panic' = (t \in closed)
            /\ closed' = closed \cup {t}
            /\ cached' = cached \ {t}
            /\ answers' = [answers EXCEPT ![t] = <<>>]
            /\ latest' = IF latest = t THEN None ELSE latest
       ELSE UNCHANGED <<panic, closed, cached, answers, latest>>
    /\ UNCHANGED holder

-----------------------------------------------------------------------------
(* The miner: solveBlock, getBestProof.                                    *)

TaskOf(kind) == [round |-> round, kind |-> kind]

AtMiner(p) == mpc = p /\ ~panic
OnlyMiner == UNCHANGED <<posts, collectorVars, jobVars>>

\* solveBlock goes on, or returns and is done with its local variables
Goto(next) ==
    /\ mpc' = next
    /\ IF next = "idle"
       THEN best' = None /\ proof' = None /\ sig' = None
       ELSE UNCHANGED <<best, proof, sig>>

\* a template for a height not yet mined; without one solveBlock changes nothing
SolveBlock ==
    /\ AtMiner("idle") /\ ~quit /\ round < MaxRounds
    /\ round' = round + 1
    /\ mpc' = "addQuality"
    /\ OnlyMiner
    /\ UNCHANGED <<best, proof, sig, quit, taskVars, panic>>

\* mutant: latestTask is not recorded
AddQualityUnset ==
    /\ AtMiner("addQuality")
    /\ AddTask(TaskOf("quality"), "broadcast")
    /\ OnlyMiner
    /\ UNCHANGED <<round, best, proof, sig, quit, panic>>

\* AddTask(uuid.Nil, qualityReq): cache, latestTask, Broadcast
AddQuality ==
    /\ AtMiner("addQuality")
    /\ AddTask(TaskOf("quality"), "setLatest")
    /\ OnlyMiner
    /\ UNCHANGED <<round, best, proof, sig, quit, panic>>

SetLatest ==
    /\ AtMiner("setLatest")
    /\ latest' = TaskOf("quality")
    /\ mpc' = "broadcast"
    /\ OnlyMiner
    /\ UNCHANGED <<round, best, proof, sig, quit, cached, closed, answers,
                   holder, panic>>

Broadcast ==
    /\ AtMiner("broadcast")
    /\ posts' = posts \cup ({TaskOf("quality")} \X subscribed)
    /\ mpc' = "collect"
    /\ UNCHANGED <<round, best, proof, sig, quit, taskVars, collectorVars,
                   jobVars, panic>>

\* an earlier slot, or a better quality in the same one, if it may be used
Better(m) ==
    /\ m.from \in Bound
    /\ \/ best = None
       \/ m.slot < best.slot
       \/ m.slot = best.slot /\ m.score > best.score

ReceiveQualities ==
    LET t == TaskOf("quality") IN
    /\ AtMiner("collect")
    /\ answers[t] # <<>>
    /\ best' = IF Better(Head(answers[t])) THEN Head(answers[t]) ELSE best
    /\ answers' = [answers EXCEPT ![t] = Tail(@)]
    /\ OnlyMiner
    /\ UNCHANGED <<round, mpc, proof, sig, quit, cached, closed, latest,
                   holder, panic>>

LeaveCollect(next) ==
    /\ AtMiner("collect")
    /\ mpc' = next
    /\ OnlyMiner
    /\ UNCHANGED <<round, best, proof, sig, quit, taskVars, panic>>

\* mutant: quit is looked at only with a quality in hand
QuitCollectWithBest == quit /\ best # None /\ LeaveCollect("dropQuality")

QuitCollect  == quit /\ LeaveCollect("dropQuality")
StaleCollect == LeaveCollect("dropQuality")
Finalize     == best # None /\ LeaveCollect("endQuality")

\* RemoveTask as the miner calls it, explicitly or deferred
Remove(kind, next) ==
    /\ RemoveTask(TaskOf(kind))
    /\ Goto(next)
    /\ OnlyMiner
    /\ UNCHANGED <<round, quit>>

EndQuality == AtMiner("endQuality") /\ Remove("quality", "addProof")

\* on return from getBestProof the deferred calls remove both tasks
DropProof == AtMiner("dropProof") /\ Remove("proof", "dropQuality")
DropQuality ==
    /\ AtMiner("dropQuality")
    /\ Remove("quality", IF proof = None THEN "idle" ELSE "assemble")

\* getTemplate and assembleFullBlock, which may fail or be told to quit
Assemble ==
    /\ AtMiner("assemble")
    /\ Goto("addSignature") \/ Goto("idle")
    /\ OnlyMiner
    /\ UNCHANGED <<round, quit, taskVars, panic>>

AddProof ==
    /\ AtMiner("addProof")
    /\ AddTask(TaskOf("proof"), "sendProof")
    /\ OnlyMiner
    /\ UNCHANGED <<round, best, proof, sig, quit, panic>>

AddSignature ==
    /\ AtMiner("addSignature")
    /\ AddTask(TaskOf("signature"), "sendSignature")
    /\ OnlyMiner
    /\ UNCHANGED <<round, best, proof, sig, quit, panic>>

SendTo(kind, next) ==
    /\ Send(best.from, TaskOf(kind))
    /\ mpc' = next
    /\ UNCHANGED <<round, best, proof, sig, quit, taskVars, posts, jobVars,
                   panic>>

SendProof     == AtMiner("sendProof") /\ SendTo("proof", "waitProof")
SendSignature == AtMiner("sendSignature") /\ SendTo("signature", "waitSignature")

ReceiveProof ==
    LET t == TaskOf("proof") IN
    /\ AtMiner("waitProof")
    /\ answers[t] # <<>>
    /\ proof' = Head(answers[t])
    /\ answers' = [answers EXCEPT ![t] = Tail(@)]
    /\ mpc' = "dropProof"
    /\ OnlyMiner
    /\ UNCHANGED <<round, best, sig, quit, cached, closed, latest, holder,
                   panic>>

ReceiveSignature ==
    LET t == TaskOf("signature") IN
    /\ AtMiner("waitSignature")
    /\ answers[t] # <<>>
    /\ sig' = Head(answers[t])
    /\ answers' = [answers EXCEPT ![t] = Tail(@)]
    /\ mpc' = "dropSignature"
    /\ OnlyMiner
    /\ UNCHANGED <<round, best, proof, quit, cached, closed, latest, holder,
                   panic>>

Timeout(next) ==
    /\ mpc' = next
    /\ OnlyMiner
    /\ UNCHANGED <<round, best, proof, sig, quit, taskVars, panic>>

\* mutants: a timeout that leaves the task, one that never fires
ProofTimeoutKeeps == AtMiner("waitProof") /\ Timeout("dropQuality")
ProofTimeoutOnQuit == quit /\ AtMiner("waitProof") /\ Timeout("dropProof")

ProofTimeout     == AtMiner("waitProof") /\ Timeout("dropProof")
SignatureTimeout == AtMiner("waitSignature") /\ Timeout("dropSignature")

\* solveBlock returns; with a signature generateBlocks submits the block
DropSignature == AtMiner("dropSignature") /\ Remove("signature", "idle")

OnStop ==
    /\ ~quit /\ ~panic
    /\ quit' = TRUE
    /\ OnlyMiner
    /\ UNCHANGED <<round, mpc, best, proof, sig, taskVars, panic>>

GenerateBlocksEnds ==
    /\ AtMiner("idle") /\ quit
    /\ mpc' = "stopped"
    /\ OnlyMiner
    /\ UNCHANGED <<round, best, proof, sig, quit, taskVars, panic>>

-----------------------------------------------------------------------------
(* LocalCollector: requestProcessor, and the pool's broadcast sends.       *)

At(c, p) == cpc[c] = p /\ ~panic
OnlyCollector == UNCHANGED <<minerVars, taskVars, panic>>

\* a pool goroutine of Broadcast sends its request
RunPost(t, c) ==
    /\ <<t, c>> \in posts /\ ~panic
    /\ posts' = posts \ {<<t, c>>}
    /\ Put(c, [task |-> t, via |-> "broadcast"])
    /\ OnlyCollector
    /\ UNCHANGED <<subscribed, cpc, own, current, cancelled, jobVars>>

\* Subscribe: register, then read latestTask and send it to oneself
Register(c) ==
    /\ At(c, "new") /\ Unread
    /\ subscribed' = subscribed \cup {c}
    /\ cpc' = [cpc EXCEPT ![c] = "registered"]
    /\ OnlyCollector
    /\ UNCHANGED <<own, inbox, current, cancelled, posts, jobVars>>

ReadLatest(c) ==
    /\ At(c, "registered")
    /\ own' = [own EXCEPT ![c] = latest]
    /\ cpc' = [cpc EXCEPT ![c] = IF latest = None THEN "loop" ELSE "sending"]
    /\ OnlyCollector
    /\ UNCHANGED <<subscribed, inbox, current, cancelled, posts, jobVars>>

SendOwn(c) ==
    /\ At(c, "sending")
    /\ Put(c, [task |-> own[c], via |-> "subscribe"])
    /\ cpc' = [cpc EXCEPT ![c] = "loop"]
    /\ own' = [own EXCEPT ![c] = None]
    /\ OnlyCollector
    /\ UNCHANGED <<subscribed, current, cancelled, posts, jobVars>>

SendOwnCancelled(c) ==
    /\ At(c, "sending") /\ c \in cancelled
    /\ cpc' = [cpc EXCEPT ![c] = "loop"]
    /\ own' = [own EXCEPT ![c] = None]
    /\ OnlyCollector
    /\ UNCHANGED <<subscribed, inbox, current, cancelled, posts, jobVars>>

\* a request starts its handler; a quality request replaces the one before.
\* GetQualities, GetProof or SignHash may fail, which ends the handler.
Process(c) ==
    LET j == Handler(c, Head(inbox[c])) IN
    /\ At(c, "loop") /\ inbox[c] # <<>>
    /\ inbox' = [inbox EXCEPT ![c] = Tail(@)]
    /\ \E p \in {IF j.task.kind = "quality" THEN "try" ELSE "report", "done"} :
           job' = [job EXCEPT ![j] = p]
    /\ current' = [current EXCEPT ![c] =
                      IF j.task.kind = "quality" THEN j ELSE @]
    /\ OnlyCollector
    /\ UNCHANGED <<subscribed, cpc, own, cancelled, posts, slot>>

\* the loop ends: Unsubscribe, then close(requestCh)
ProcessorEnds(c) ==
    /\ At(c, "loop") /\ c \in cancelled /\ Unread
    /\ subscribed' = subscribed \ {c}
    /\ cpc' = [cpc EXCEPT ![c] = "closed"]
    /\ inbox' = [inbox EXCEPT ![c] = <<>>]
    /\ OnlyCollector
    /\ UNCHANGED <<own, current, cancelled, posts, jobVars>>

\* waitStop: cancels, and waits for requestProcessor alone
WaitStop(c) ==
    /\ c \notin cancelled /\ Cardinality(cancelled) < MaxStops /\ ~panic
    /\ cancelled' = cancelled \cup {c}
    /\ OnlyCollector
    /\ UNCHANGED <<subscribed, cpc, own, inbox, current, posts, jobVars>>

-----------------------------------------------------------------------------
(* LocalCollector: the handlers.                                           *)

\* the handler's ctx is done
Cancelled(j) ==
    \/ j.at \in cancelled
    \/ j.task.kind = "quality" /\ current[j.at] # j

JobAt(j, p) == job[j] = p /\ ~panic
OnlyJob == UNCHANGED <<minerVars, collectorVars, posts>>

\* trySlots: a slot without a quality over the target is passed over
TrySlot(j) ==
    /\ JobAt(j, "try") /\ ~Cancelled(j) /\ slot[j] <= MaxSlot
    /\ IF Score[j.at][slot[j]] > 0
       THEN job' = [job EXCEPT ![j] = "report"] /\ UNCHANGED slot
       ELSE slot' = [slot EXCEPT ![j] = @ + 1] /\ UNCHANGED job
    /\ OnlyJob
    /\ UNCHANGED <<taskVars, panic>>

TrySlotsEnds(j) ==
    /\ JobAt(j, "try") /\ Cancelled(j)
    /\ job' = [job EXCEPT ![j] = "done"]
    /\ slot' = [slot EXCEPT ![j] = 1]
    /\ OnlyJob
    /\ UNCHANGED <<taskVars, panic>>

\* after a report trySlots turns to the next slot; the others return
Reported(j) ==
    IF j.task.kind = "quality"
    THEN /\ job' = [job EXCEPT ![j] = "try"]
         /\ slot' = [slot EXCEPT ![j] = @ + 1]
    ELSE /\ job' = [job EXCEPT ![j] = "done"]
         /\ UNCHANGED slot

\* the CollectorMsg a handler submits
Message(j) ==
    [task |-> j.task, from |-> j.at,
     slot |-> IF j.task.kind = "quality" THEN slot[j] ELSE 0,
     score |-> IF j.task.kind = "quality" THEN Score[j.at][slot[j]] ELSE 0]

\* submitCollectorMsg: the answer to a task that is gone is dropped
SubmitUnknown(j) ==
    /\ JobAt(j, "report") /\ holder = None
    /\ j.task \notin cached
    /\ Reported(j)
    /\ OnlyJob
    /\ UNCHANGED <<taskVars, panic>>

\* mutant: the lock is released before the send
SubmitUnlocked(j) ==
    /\ JobAt(j, "report") /\ holder = None
    /\ j.task \in cached
    /\ job' = [job EXCEPT ![j] = "hold"]
    /\ OnlyJob
    /\ UNCHANGED <<slot, taskVars, panic>>

\* ch <- resp
Answer(j) ==
    /\ Len(answers[j.task]) < TaskCap
    /\ answers' = [answers EXCEPT ![j.task] = Append(@, Message(j))]
    /\ panic' = (j.task \in closed)
    /\ holder' = None
    /\ Reported(j)
    /\ OnlyJob
    /\ UNCHANGED <<cached, closed, latest>>

\* ... the answer to another is sent under taskCacheLock
Submit(j) ==
    /\ JobAt(j, "report") /\ holder = None
    /\ j.task \in cached
    /\ Answer(j)

\* ... which stays taken while the channel is full
SubmitBlocks(j) ==
    /\ JobAt(j, "report") /\ holder = None
    /\ j.task \in cached
    /\ Len(answers[j.task]) >= TaskCap
    /\ holder' = j
    /\ job' = [job EXCEPT ![j] = "hold"]
    /\ OnlyJob
    /\ UNCHANGED <<slot, cached, closed, answers, latest, panic>>

SubmitResumes(j) == JobAt(j, "hold") /\ Answer(j)

\* ctx.Done, which the select may prefer to a channel with room
Abandon(j) ==
    /\ \/ JobAt(j, "report") /\ holder = None /\ j.task \in cached
       \/ JobAt(j, "hold")
    /\ Cancelled(j)
    /\ holder' = None
    /\ Reported(j)
    /\ OnlyJob
    /\ UNCHANGED <<cached, closed, answers, latest, panic>>

-----------------------------------------------------------------------------
MinerStep ==
    \/ SolveBlock \/ AddQuality \/ SetLatest \/ Broadcast
    \/ ReceiveQualities \/ QuitCollect \/ Finalize \/ EndQuality
    \/ AddProof \/ SendProof \/ ReceiveProof \/ ProofTimeout
    \/ DropProof \/ DropQuality \/ Assemble
    \/ AddSignature \/ SendSignature \/ ReceiveSignature \/ SignatureTimeout
    \/ DropSignature \/ GenerateBlocksEnds

CollectorStep(c) ==
    \/ Register(c) \/ ReadLatest(c) \/ SendOwn(c) \/ SendOwnCancelled(c)
    \/ Process(c) \/ ProcessorEnds(c)

JobStep(j) ==
    \/ TrySlot(j) \/ TrySlotsEnds(j) \/ SubmitUnknown(j)
    \/ Submit(j) \/ SubmitBlocks(j) \/ SubmitResumes(j) \/ Abandon(j)

Next ==
    \/ MinerStep \/ StaleCollect \/ OnStop
    \/ \E c \in Collectors : CollectorStep(c) \/ WaitStop(c)
    \/ \E t \in QualityTask, c \in Collectors : RunPost(t, c)
    \/ \E j \in Job : JobStep(j)

Spec == Init /\ [][Next]_vars

\* The scheduler runs every goroutine, and tickers and timeouts fire: a
\* finalized slot's time comes.  Some handler with a step to do takes one, and
\* some pool worker: less than the scheduler gives each of them.  Nothing
\* forces a stale chain or a stop.
LiveSpec ==
    /\ Spec
    /\ WF_vars(MinerStep)
    /\ \A c \in Collectors : WF_vars(CollectorStep(c))
    /\ WF_vars(\E t \in QualityTask, c \in Collectors : RunPost(t, c))
    /\ WF_vars(\E j \in Job : JobStep(j))

-----------------------------------------------------------------------------
(* Properties.                                                             *)

\* A task's channel is closed once, and no handler sends on it afterwards:
\* getBestProof removes its quality task twice (explicitly and deferred),
\* while handlers of any collector may be submitting to it.
NoPanic == ~panic

\* where solveBlock may have left a task of this kind in taskCache
UseOf(kind) ==
    CASE kind = "quality"   -> {"setLatest", "broadcast", "collect",
                                "endQuality", "dropQuality"}
      [] kind = "proof"     -> {"sendProof", "waitProof", "dropProof"}
      [] kind = "signature" -> {"sendSignature", "waitSignature",
                                "dropSignature"}

\* Whatever way a round ends (answer, timeout, quit, stale chain), its tasks
\* leave taskCache, so that the 100 entries of the cache never evict a task
\* in use and no answer is delivered into a later round.
TasksInUse == \A t \in cached : t.round = round /\ mpc \in UseOf(t.kind)

\* The proof and the signature solveBlock builds its block from are of this
\* round and from the collector the best quality came from, although the
\* miner takes whatever arrives on the channel and looks at no CollectorID.
AnswersMatch ==
    /\ proof # None => /\ best # None
                       /\ proof.task = TaskOf("proof")
                       /\ proof.from = best.from
    /\ sig # None => /\ proof # None
                     /\ sig.task = TaskOf("signature")
                     /\ sig.from = best.from

\* the quality task of the round is on its way to c, or has reached it
Asked(c, t) ==
    \/ <<t, c>> \in posts
    \/ \E v \in Via("quality") :
          LET r == [task |-> t, via |-> v] IN
          \/ \E i \in 1..Len(inbox[c]) : inbox[c][i] = r
          \/ job[Handler(c, r)] # "none"

\* Once AddTask has returned, every collector in its loop is asked for
\* qualities, however its Subscribe was interleaved with the broadcast:
\* latestTask is written and read outside every lock.
EveryoneAsked ==
    mpc = "collect" => \A c \in Collectors \ cancelled :
        cpc[c] = "loop" => Asked(c, TaskOf("quality"))

\* the miner waits for taskCacheLock, which a handler keeps until the channel
\* that the miner reads no more has room
Jammed ==
    /\ holder # None
    /\ mpc \in {"endQuality", "addProof", "dropProof", "dropQuality",
               "addSignature", "dropSignature", "addQuality"}

\* With a quality in hand the miner comes to the end of its round, whatever
\* collectors answer, stop or stay silent, unless it waits for ever for the
\* lock of a handler that found the channel of its task full.
RoundEnds == best # None ~> (mpc = "idle" \/ []Jammed)

\* After OnStop generateBlocks ends, so that wg.Wait in OnStop returns, with
\* the same exception.
MinerStops == quit ~> (mpc = "stopped" \/ []Jammed)

\* A collector that is told to stop unsubscribes and closes its channel, so
\* that waitStop returns, whatever the miner and its handlers are doing.
CollectorStops == \A c \in Collectors : c \in cancelled ~> cpc[c] = "closed"

\* Whoever is told to stop does: the miner wherever its round is, unless it is
\* jammed for ever, and a collector whatever it was asked meanwhile, also with
\* the miner jammed.
BothStop == MinerStops /\ CollectorStops

-----------------------------------------------------------------------------
(* The inductive invariant behind the safety properties.                   *)

\* where solveBlock has not removed a task of this kind yet
FreshAt(kind) ==
    LET first  == {"addQuality", "setLatest", "broadcast", "collect",
                   "endQuality"}
        second == {"addProof", "sendProof", "waitProof", "dropProof"}
        third  == {"dropQuality", "assemble", "addSignature", "sendSignature",
                   "waitSignature", "dropSignature"}
    IN  CASE kind = "quality"   -> first
          [] kind = "proof"     -> first \cup second
          [] kind = "signature" -> first \cup second \cup third

\* a closed channel is of an earlier task, and its task is not in the cache
ClosedPast ==
    /\ cached \cap closed = {}
    /\ \A t \in closed : /\ t.round <= round
                         /\ t.round = round => mpc \notin FreshAt(t.kind)

\* a handler that waits for room holds the lock and its task is in the cache;
\* a quality handler with a report to make is at a slot it tries
HolderWaits == \A j \in Job :
    /\ job[j] = "hold" => holder = j /\ j.task \in cached
    /\ job[j] \in {"report", "hold"} /\ j.task.kind = "quality"
          => slot[j] <= MaxSlot

\* what solveBlock's local variables hold where it is
Unsent == {"addQuality", "setLatest", "broadcast", "collect", "endQuality",
           "addProof"}
LocalsSet ==
    /\ mpc \notin {"idle", "stopped"} => round > 0
    /\ mpc \in {"endQuality", "addProof", "sendProof", "waitProof"}
          => best # None
    /\ mpc \in Unsent \cup {"idle", "sendProof", "waitProof"} => proof = None
    /\ mpc \in {"assemble", "addSignature", "sendSignature", "waitSignature"}
          => proof # None
    /\ mpc # "dropSignature" => sig = None

\* task t may be at collector c: a proof or a signature of this round is
\* asked of the collector with the best quality alone, once it is chosen
Directed(c, t) ==
    /\ t.round <= round
    /\ t.kind # "quality" /\ t.round = round =>
          /\ mpc \notin Unsent
          /\ best # None => c = best.from

InboxDirected == \A c \in Collectors : \A i \in 1..Len(inbox[c]) :
                    Directed(c, inbox[c][i].task)
JobsDirected == \A j \in Job : job[j] # "none" => Directed(j.at, j.task)
AnswersDirected == \A t \in Task : \A i \in 1..Len(answers[t]) :
                      answers[t][i].task = t /\ Directed(answers[t][i].from, t)
TasksPast == /\ \A x \in posts : x[1].round <= round
             /\ \A c \in Collectors : own[c] # None => own[c].round <= round
             /\ latest # None => latest.round <= round
RequestsDirected ==
    InboxDirected /\ JobsDirected /\ AnswersDirected /\ TasksPast

\* how a Subscribe and a broadcast that overlap still meet
SubscribersMeet ==
    /\ subscribed = {c \in Collectors : cpc[c] \notin {"new", "closed"}}
    /\ \A c \in Collectors : cpc[c] = "sending" => own[c] # None
    /\ mpc \in {"broadcast", "collect"} => latest = TaskOf("quality")
    /\ mpc = "collect" => \A c \in Collectors \ cancelled :
          cpc[c] = "sending" => \/ own[c] = TaskOf("quality")
                                \/ Asked(c, TaskOf("quality"))

\* TypeOK, the properties and what makes them inductive.
DispatchInv ==
    /\ TypeOK /\ NoPanic /\ TasksInUse /\ AnswersMatch /\ EveryoneAsked
    /\ ClosedPast /\ HolderWaits /\ LocalsSet /\ RequestsDirected
    /\ SubscribersMeet
=============================================================================
