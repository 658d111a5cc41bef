----------------------------- MODULE ChiaKeeper -----------------------------
(***************************************************************************)
(* The v2 SpaceKeeper (poc/engine.v2/spacekeeper/skchia): the index built  *)
(* from the Chia plot files on disk, the calls that act on it, the plotter *)
(* goroutine that takes configured plots to mining, and the queries: sets  *)
(* of plots read by a bounded pool of workers, whose results a caller gets *)
(* at once or through a QualityRW or ProofRW (engine.go).                  *)
(*                                                                         *)
(* A Chia plot is complete when it is found: NewWorkSpace makes it Ready,  *)
(* so the branches for registered and plotting spaces, and with them       *)
(* poppedItem and what is sent to the intake channel, are unreachable and  *)
(* left out; what the monitors do (StopPlot) is empty.  The process starts and stops this     *)
(* keeper once (server/miner.go).                                          *)
(***************************************************************************)
EXTENDS Integers, FiniteSets, Sequences, SequencesExt

CONSTANTS
    Plots,      \* plots by space id
    Dirs,       \* miner.proof_dir, in order: the readable plot files of each
    Rank,       \* queuedWorkSpace.priority of a plot: highest first
    Generate,   \* miner.generate: configured plots are mined
    Execute,    \* miner.plot or miner.generate: configured plots are queued
    Found,      \* how many qualities a plot has for the challenge
    Workers,    \* maxPoolWorker
    Clients,    \* callers of ActOnWorkSpace(s)
    Queries,    \* callers of the queries, one query each
    Budgets     \* bounds: how many actions and queries are asked for

ASSUME ChiaAssumption ==
    /\ IsFiniteSet(Plots)
    /\ Dirs \in Seq(SUBSET Plots)
    /\ Rank \in [Plots -> Int]
    /\ Found \in [Plots -> Nat]
    /\ Generate \in BOOLEAN /\ Execute \in BOOLEAN
    /\ (Generate => Execute)
    /\ Workers \in Nat \ {0}
    /\ Budgets \subseteq [calls : Nat, queries : Nat]

VARIABLES
    svc,        \* BaseService: new, running, stopping (wg.Wait), stopped
    plotter,    \* spacePlotter: where the goroutine is, and its current plot
    index,      \* workSpaceIndex[state], as the set of its keys
    all,        \* workSpaceIndex[allState]
    state,      \* ws.state
    list,       \* workSpaceList
    using,      \* the plots whose ws.using is set
    paths,      \* workSpacePaths: the sorted plots of each directory
    queue,      \* plotterQueue: what its Empty() and PopItem() see
    held,       \* the call inside queue.Delete, with stateLock and the queue's own
    kept,       \* what that Delete puts back
    call,       \* what each client's ActOnWorkSpaces has still to do
    budget,     \* actions and queries that may still be asked for
    query       \* the queries

keeperVars == <<index, all, state, list, using, paths, queue, held, kept>>
vars == <<svc, plotter, keeperVars, call, budget, query>>

-----------------------------------------------------------------------------
(* Types.                                                                  *)

States  == {"Ready", "Mining"}
Actions == {"Plot", "Mine", "Stop", "Remove", "Delete"}

PlotterPC == {"none", "spawned", "check", "quit", "pop", "popped", "select",
              "exited", "panicked"}

Idle == [action |-> "none", todo |-> {}]

\* A query: the plots asked for, those not handed to the pool yet, those a
\* worker reads, the one whose result the gathering goroutine holds, those it
\* has stored, those that could not be read; then the writer's remaining
\* results, the channel of its QualityRW or ProofRW, whether the writer waits
\* for room with the mutex, and what the caller took.
NoQuery == [kind |-> "none", stream |-> FALSE, pc |-> "idle", items |-> {},
            todo |-> {}, run |-> {}, recv |-> {}, got |-> {}, bad |-> {},
            left |-> <<>>, size |-> 0, ch |-> <<>>, closed |-> FALSE,
            holds |-> FALSE, ctx |-> "live", taken |-> <<>>,
            reader |-> "none"]

TypeOK ==
    /\ svc \in {"new", "running", "stopping", "stopped"}
    /\ plotter \in [pc : PlotterPC, cur : SUBSET Plots]
    /\ index \in [States -> SUBSET Plots]
    /\ all \in SUBSET Plots
    /\ state \in [Plots -> States]
    /\ list \in SUBSET Plots /\ using \in SUBSET Plots
    /\ DOMAIN paths = DOMAIN Dirs
    /\ queue \in SUBSET Plots /\ kept \in SUBSET Plots
    /\ held \in SUBSET (Clients \X Plots)
    /\ call \in [Clients -> [action : Actions \cup {"none"},
                             todo : SUBSET Plots]]
    /\ budget \in [calls : Nat, queries : Nat]
    /\ DOMAIN query = Queries

-----------------------------------------------------------------------------
(* The index.                                                              *)

\* generateInitialIndex: a plot met again in a later directory is closed
NewIn(d) == Dirs[d] \ UNION {Dirs[e] : e \in 1 .. d - 1}

\* WorkSpacePath.Add: in front of the first plot of lower priority
AddPath(p, s) ==
    LET lower == {i \in DOMAIN p : Rank[s] > Rank[p[i]]}
        at == IF lower = {} THEN Len(p) + 1
              ELSE CHOOSE i \in lower : \A j \in lower : i <= j
    IN  InsertAt(p, at, s)

\* the files of a directory are added in the order of their names
PathOf(d) ==
    LET files == SetToSeq(NewIn(d))
        path[n \in 0 .. Len(files)] ==
            IF n = 0 THEN <<>> ELSE AddPath(path[n - 1], files[n])
    IN  path[Len(files)]

\* NewSpaceKeeperChiaPoS: index the files, then ConfigureByFlags(SFAll), which
\* uses every plot and queues them unless nothing is to be executed
Init ==
    /\ svc = "new"
    /\ plotter = [pc |-> "none", cur |-> {}]
    /\ all = UNION {Dirs[d] : d \in DOMAIN Dirs}
    /\ index = [st \in States |-> IF st = "Ready" THEN all ELSE {}]
    /\ state = [s \in Plots |-> "Ready"]
    /\ list = all /\ using = all
    /\ paths = [d \in DOMAIN Dirs |-> PathOf(d)]
    /\ queue = IF Execute THEN all ELSE {}
    /\ held = {} /\ kept = {}
    /\ call = [c \in Clients |-> Idle]
    /\ budget \in Budgets
    /\ query = [q \in Queries |-> NoQuery]

\* Bug: the plot is left in the map of its old state
ChangeStateKeepsOld(s, old, new) ==
    /\ index' = [index EXCEPT ![new] = @ \cup {s}]
    /\ state' = [state EXCEPT ![s] = new]

ChangeState(s, old, new) ==
    /\ index' = [index EXCEPT ![old] = @ \ {s}, ![new] = @ \cup {s}]
    /\ state' = [state EXCEPT ![s] = new]

\* useWorkSpace and disuseWorkSpace move the flag and the list together
Disuse(s) == using' = using \ {s} /\ list' = list \ {s}

\* getWsByFlags: the listed plots in one of the states
ByFlags(flags) == {s \in list : state[s] \in flags}

\* WorkSpaceInfosByDirs: each path holds what was found there for ever, so a
\* disused plot is left out by its flag
InUse(p, used) ==
    LET infos[n \in 0 .. Len(p)] ==
            IF n = 0 THEN <<>>
            ELSE IF p[n] \in used THEN Append(infos[n - 1], p[n]) ELSE infos[n - 1]
    IN  infos[Len(p)]

InfosByDirs == [d \in DOMAIN paths |-> InUse(paths[d], using)]

-----------------------------------------------------------------------------
(* Service and plotter.                                                    *)

OnStart ==
    /\ svc = "new"
    /\ svc' = "running"
    /\ plotter' = [plotter EXCEPT !.pc = "spawned"]
    /\ UNCHANGED <<keeperVars, call, budget, query>>

\* close(sk.quit)
OnStop ==
    /\ svc = "running"
    /\ svc' = "stopping"
    /\ UNCHANGED <<plotter, keeperVars, call, budget, query>>

Quit == svc \in {"stopping", "stopped"}

\* wg.Wait: the plotter counts from its own wg.Add(1) to its exit
OnStopReturns ==
    /\ svc = "stopping"
    /\ plotter.pc \in {"spawned", "exited"}
    /\ svc' = "stopped"
    /\ UNCHANGED <<plotter, keeperVars, call, budget, query>>

PlotterBegins ==
    /\ plotter.pc = "spawned"
    /\ plotter' = [plotter EXCEPT !.pc = "check"]
    /\ UNCHANGED <<svc, keeperVars, call, budget, query>>

Locked == held # {}

\* the loop head: Empty() takes no lock, and sees a queue that is being deleted from
LooksEmpty ==
    /\ plotter.pc = "check"
    /\ plotter' = [plotter EXCEPT !.pc = IF queue = {} THEN "select" ELSE "quit"]
    /\ UNCHANGED <<svc, keeperVars, call, budget, query>>

\* quit is looked at before every item
LooksQuit ==
    /\ plotter.pc = "quit" /\ ~Quit
    /\ plotter' = [plotter EXCEPT !.pc = "pop"]
    /\ UNCHANGED <<svc, keeperVars, call, budget, query>>

First(s) == \A t \in queue : Rank[t] <= Rank[s]

PopItem ==
    /\ plotter.pc = "pop" /\ ~Locked
    /\ \E s \in queue :
         /\ First(s)
         /\ queue' = queue \ {s}
         /\ plotter' = [pc |-> "popped", cur |-> {s}]
    /\ UNCHANGED <<svc, index, all, state, list, using, paths, held, kept, call,
                   budget, query>>

\* the last item was deleted since Empty(): the process ends with a panic
PopPanics ==
    /\ plotter.pc = "pop" /\ ~Locked /\ queue = {}
    /\ plotter' = [plotter EXCEPT !.pc = "panicked"]
    /\ UNCHANGED <<svc, keeperVars, call, budget, query>>

Alive == plotter.pc # "panicked"

\* plotSpace under stateLock: a plot that is ready, whatever happened since it
\* was popped, is mined if it was configured so
PlotSpace ==
    /\ plotter.pc = "popped" /\ ~Locked
    /\ plotter' = [pc |-> "check", cur |-> {}]
    /\ \E s \in plotter.cur :
         IF s \in index["Ready"] /\ Generate
         THEN ChangeState(s, "Ready", "Mining")
         ELSE UNCHANGED <<index, state>>
    /\ UNCHANGED <<svc, all, list, using, paths, queue, held, kept, call, budget,
                   query>>

\* with quit closed, in either select, the second of which has nothing else to wait for;
\* the queue is reset on the way out
PlotterExits ==
    /\ plotter.pc \in {"quit", "select"} /\ Quit /\ ~Locked
    /\ plotter' = [plotter EXCEPT !.pc = "exited"]
    /\ queue' = {}
    /\ UNCHANGED <<svc, index, all, state, list, using, paths, held, kept, call,
                   budget, query>>

-----------------------------------------------------------------------------
(* ActOnWorkSpace(s).  One of the plots a call named is acted on under     *)
(* stateLock; an ActOnWorkSpaces picks its plots, without the lock, before *)
(* it starts.                                                              *)

Act(c, action, plots) ==
    /\ call[c] = Idle /\ budget.calls > 0
    /\ budget' = [budget EXCEPT !.calls = @ - 1]
    /\ call' = [call EXCEPT ![c] = [action |-> action, todo |-> plots]]
    /\ UNCHANGED <<svc, plotter, keeperVars, query>>

ActOnWorkSpace(c) ==
    \E s \in Plots, action \in Actions : Act(c, action, {s})

ActOnWorkSpaces(c) ==
    \E flags \in SUBSET States, action \in Actions :
      /\ ByFlags(flags) # {}
      /\ Act(c, action, ByFlags(flags))

Exists(s) == s \in all /\ s \in using

\* the plot's turn in the call; none is left: the call returns
Turn(c, action, s) ==
    /\ call[c].action = action /\ s \in call[c].todo
    /\ call' = [call EXCEPT ![c] = IF call[c].todo = {s} THEN Idle
                                   ELSE [call[c] EXCEPT !.todo = @ \ {s}]]
    /\ UNCHANGED <<svc, plotter, paths, budget, query>>

\* stateLock is taken, nothing is done to the queue
Unqueued == ~Locked /\ UNCHANGED <<queue, held, kept>>

\* queue.Delete: the items of the old queue are taken out one by one, the others put into a
\* new one, and that is put in its place
DeleteBegins(c, s) ==
    /\ ~Locked /\ Exists(s)
    /\ call[c].action \in {"Stop", "Remove", "Delete"} /\ s \in call[c].todo
    /\ held' = {<<c, s>>}
    /\ UNCHANGED <<svc, plotter, index, all, state, list, using, paths, queue, kept,
                   call, budget, query>>

DeleteTakes(c, s) ==
    /\ <<c, s>> \in held
    /\ \E t \in queue :
         /\ First(t)
         /\ queue' = queue \ {t}
         /\ kept' = kept \cup ({t} \ {s})
    /\ UNCHANGED <<svc, plotter, index, all, state, list, using, paths, held, call,
                   budget, query>>

Deleted(c, s) ==
    /\ <<c, s>> \in held /\ queue = {}
    /\ queue' = kept /\ held' = {} /\ kept' = {}

\* ErrWorkSpaceDoesNotExist, recorded in the call's result
ActFails(c, s) ==
    /\ ~Exists(s) /\ Unqueued
    /\ Turn(c, call[c].action, s)
    /\ UNCHANGED <<index, all, state, list, using>>

\* PlotWS: a complete plot is left as it is
PlotWS(c, s) ==
    /\ Exists(s) /\ Unqueued
    /\ Turn(c, "Plot", s)
    /\ UNCHANGED <<index, all, state, list, using>>

MineWS(c, s) ==
    /\ Exists(s) /\ Unqueued
    /\ Turn(c, "Mine", s)
    /\ IF s \in index["Ready"] THEN ChangeState(s, "Ready", "Mining")
       ELSE UNCHANGED <<index, state>>
    /\ UNCHANGED <<all, list, using>>

StopWS(c, s) ==
    /\ Deleted(c, s)
    /\ Turn(c, "Stop", s)
    /\ IF s \in index["Mining"] THEN ChangeState(s, "Mining", "Ready")
       ELSE UNCHANGED <<index, state>>
    /\ UNCHANGED <<all, list, using>>

\* a mining plot is not still: it only leaves the queue
NotStill(c, s) ==
    /\ Deleted(c, s) /\ s \notin index["Ready"]
    /\ \E action \in {"Remove", "Delete"} : Turn(c, action, s)
    /\ UNCHANGED <<index, all, state, list, using>>

RemoveWS(c, s) ==
    /\ Deleted(c, s) /\ s \in index["Ready"]
    /\ Turn(c, "Remove", s)
    /\ Disuse(s)
    /\ UNCHANGED <<index, all, state>>

\* the file itself stays on disk: WorkSpace.Delete is empty
DeleteWS(c, s) ==
    /\ Deleted(c, s) /\ s \in index["Ready"]
    /\ Turn(c, "Delete", s)
    /\ index' = [index EXCEPT ![state[s]] = @ \ {s}]
    /\ all' = all \ {s}
    /\ Disuse(s)
    /\ UNCHANGED state

-----------------------------------------------------------------------------
(* Queries.                                                                *)

Ask(q, kind, stream, pc, items, size) ==
    /\ query[q] = NoQuery /\ budget.queries > 0
    /\ budget' = [budget EXCEPT !.queries = @ - 1]
    /\ svc = "running"
    /\ query' = [query EXCEPT ![q] =
                   [NoQuery EXCEPT !.kind = kind, !.stream = stream, !.pc = pc,
                    !.items = items, !.todo = items, !.size = size,
                    !.reader = IF stream THEN "reading" ELSE "waiting"]]
    /\ UNCHANGED <<svc, plotter, keeperVars, call>>

\* GetQuality(Reader) and GetProof(Reader): one plot, without the pool
AskOne(q) ==
    \E s \in Plots, kind \in {"quality", "proof"}, stream \in BOOLEAN :
      Exists(s) /\ Ask(q, kind, stream, "single", {s}, 1)

\* GetQualities(Reader), by state
AskQualities(q) ==
    \E flags \in SUBSET States, stream \in BOOLEAN :
      Ask(q, "quality", stream, "submit", ByFlags(flags),
          Cardinality(ByFlags(flags)))

\* GetProofs(Reader), by id; an id given twice is one map entry
AskProofs(q) ==
    \E sids \in SUBSET Plots, stream \in BOOLEAN :
      LET items == {s \in sids : Exists(s)}
      IN  Ask(q, "proof", stream, "submit", items, Cardinality(items))

Step(q, new) ==
    /\ query' = [query EXCEPT ![q] = new]
    /\ UNCHANGED <<svc, plotter, keeperVars, call, budget>>

\* the pool's workers, of all queries together
Busy == Cardinality({w \in Queries \X Plots : w[2] \in query[w[1]].run})

\* workerPool.Submit waits for a free worker
Submit(q, s) ==
    /\ query[q].pc = "submit" /\ s \in query[q].todo
    /\ Busy < Workers
    /\ Step(q, [query[q] EXCEPT !.todo = @ \ {s}, !.run = @ \cup {s}])

\* ... or refuses the task: the plot has no result
SubmitFails(q, s) ==
    /\ query[q].pc = "submit" /\ s \in query[q].todo
    /\ Step(q, [query[q] EXCEPT !.todo = @ \ {s}, !.bad = @ \cup {s}])

\* Bug: the results are gathered after wg.Wait, by the caller itself
DeliverLate(q, s) ==
    /\ s \in query[q].run /\ query[q].recv = {}
    /\ query[q].todo = {}
    /\ Step(q, [query[q] EXCEPT !.run = @ \ {s}, !.recv = {s}])

\* a worker has read its plot and the gathering goroutine takes the result
Deliver(q, s) ==
    /\ s \in query[q].run /\ query[q].recv = {}
    /\ Step(q, [query[q] EXCEPT !.run = @ \ {s}, !.recv = {s}])

\* result[SpaceID] = ...; a quality query drops a plot that fails to be read
\* or does not pass the plot filter, a proof query keeps the error
Store(q) ==
    /\ query[q].recv # {}
    /\ \/ Step(q, [query[q] EXCEPT !.got = @ \cup query[q].recv, !.recv = {}])
       \/ /\ query[q].kind = "quality"
          /\ Step(q, [query[q] EXCEPT !.bad = @ \cup query[q].recv,
                                      !.recv = {}])

\* the results of one plot, in the order of their index
Results(kind, s) ==
    [i \in 1 .. (IF kind = "proof" THEN 1 ELSE Found[s]) |-> <<s, i>>]

\* the results of the plots o, one plot after the other
InTurn(kind, o) ==
    LET out[n \in 0 .. Len(o)] ==
            IF n = 0 THEN <<>> ELSE out[n - 1] \o Results(kind, o[n])
    IN  out[Len(o)]

\* the result map is iterated in any order
Orders(kind, plots) == {InTurn(kind, o) : o \in SetToSeqs(plots)}

Return(q) ==
    \E out \in Orders(query[q].kind, query[q].got) :
      IF query[q].stream
      THEN Step(q, [query[q] EXCEPT !.pc = "write", !.left = out])
      ELSE Step(q, [query[q] EXCEPT !.pc = "done", !.taken = out,
                                    !.reader = "eof"])

\* Bug: waitCh is not waited for
GatheredEarly(q) ==
    /\ query[q].pc = "submit"
    /\ query[q].todo = {} /\ query[q].run = {}
    /\ Return(q)

\* wg.Wait, close(resultCh), <-waitCh
Gathered(q) ==
    /\ query[q].pc = "submit"
    /\ query[q].todo = {} /\ query[q].run = {} /\ query[q].recv = {}
    /\ Return(q)

ReadOne(q) ==
    /\ query[q].pc = "single"
    /\ IF query[q].todo # {}
       THEN \/ Step(q, [query[q] EXCEPT !.got = query[q].todo, !.todo = {}])
            \/ /\ query[q].kind = "quality"
               /\ Step(q, [query[q] EXCEPT !.bad = query[q].todo, !.todo = {}])
       ELSE Return(q)

(* QualityRW and ProofRW.                                                  *)

\* Write: after Close every write fails, so nothing more is written
Write(q) ==
    LET r == query[q] IN
    /\ r.pc = "write" /\ r.left # <<>> /\ ~r.holds
    /\ IF r.closed THEN Step(q, [r EXCEPT !.left = <<>>])
       ELSE IF Len(r.ch) < r.size
            THEN Step(q, [r EXCEPT !.ch = Append(@, Head(r.left)),
                                   !.left = Tail(@)])
            ELSE Step(q, [r EXCEPT !.holds = TRUE])

\* the send that waited for room inside Write, with the mutex
SendWaited(q) ==
    LET r == query[q] IN
    /\ r.holds /\ Len(r.ch) < r.size
    /\ Step(q, [r EXCEPT !.ch = Append(@, Head(r.left)), !.left = Tail(@),
                         !.holds = FALSE])

WriterCloses(q) ==
    /\ query[q].pc = "write" /\ query[q].left = <<>>
    /\ Step(q, [query[q] EXCEPT !.pc = "done", !.closed = TRUE])

Cancel(q) ==
    /\ query[q].reader = "reading" /\ query[q].ctx = "live"
    /\ Step(q, [query[q] EXCEPT !.ctx = "done"])

\* the goroutine of NewQualityRW: Close waits for a Write that waits for room
CloserCloses(q) ==
    /\ query[q].ctx = "done" /\ ~query[q].holds
    /\ Step(q, [query[q] EXCEPT !.ctx = "closed", !.closed = TRUE])

Read(q) ==
    LET r == query[q] IN
    /\ r.reader = "reading"
    /\ \/ /\ r.ch # <<>>
          /\ Step(q, [r EXCEPT !.ch = Tail(@),
                               !.taken = Append(@, Head(r.ch))])
       \/ /\ r.ch = <<>> /\ r.closed
          /\ Step(q, [r EXCEPT !.reader = "eof"])

\* the caller reads no more
Leave(q) ==
    /\ query[q].reader = "reading"
    /\ Step(q, [query[q] EXCEPT !.reader = "gone"])

-----------------------------------------------------------------------------
Plotter ==
    \/ PlotterBegins \/ LooksEmpty \/ LooksQuit \/ PopItem \/ PopPanics \/ PlotSpace
    \/ PlotterExits

ClientTurn(c) ==
    \E s \in Plots : \/ ActFails(c, s) \/ PlotWS(c, s) \/ MineWS(c, s)
                     \/ StopWS(c, s) \/ NotStill(c, s) \/ RemoveWS(c, s)
                     \/ DeleteWS(c, s) \/ DeleteBegins(c, s) \/ DeleteTakes(c, s)

Asked(q) == AskOne(q) \/ AskQualities(q) \/ AskProofs(q)

Worker(q) == \E s \in Plots : Submit(q, s) \/ SubmitFails(q, s) \/ Deliver(q, s)

Gatherer(q) == Store(q) \/ Gathered(q) \/ ReadOne(q)

Writer(q) == Write(q) \/ SendWaited(q) \/ WriterCloses(q)

Next ==
    /\ Alive
    /\ \/ OnStart \/ OnStop \/ OnStopReturns
       \/ Plotter
       \/ \E c \in Clients : ActOnWorkSpace(c) \/ ActOnWorkSpaces(c)
                             \/ ClientTurn(c)
       \/ \E q \in Queries : \/ Asked(q) \/ Worker(q) \/ Gatherer(q)
                             \/ Writer(q) \/ Cancel(q) \/ CloserCloses(q)
                             \/ Read(q) \/ Leave(q)

Spec == Init /\ [][Next]_vars

\* Goroutines are scheduled and plot files are read in finite time; nothing
\* makes a client call, cancel or leave.  SF for Submit: the pool hands a freed
\* worker to its waiters in turn (sync.Cond).
Fairness ==
    /\ WF_vars(Alive /\ OnStopReturns) /\ WF_vars(Alive /\ Plotter)
    /\ \A c \in Clients : WF_vars(Alive /\ ClientTurn(c))
    /\ \A q \in Queries :
         /\ \A s \in Plots : /\ SF_vars(Alive /\ Submit(q, s))
                              /\ WF_vars(Alive /\ Deliver(q, s))
         /\ WF_vars(Alive /\ Gatherer(q)) /\ WF_vars(Alive /\ Writer(q))
         /\ WF_vars(Alive /\ CloserCloses(q)) /\ WF_vars(Alive /\ Read(q))

FairSpec == Spec /\ Fairness

-----------------------------------------------------------------------------
(* Properties.                                                             *)

\* The three views of the keeper agree after any interleaving of calls and
\* plotter: the state maps partition the index and match ws.state, the list is
\* the plots in use, and the per-directory view that GetCapacitySpaces shows
\* lists each plot in use exactly once, by descending priority (which two plots
\* may share: it is a float32).
ViewsAgree ==
    /\ \A s \in Plots, st \in States :
         s \in index[st] <=> (s \in all /\ state[s] = st)
    /\ list = using /\ using \subseteq all
    /\ LET shown == InfosByDirs IN
       /\ UNION {ToSet(shown[d]) : d \in DOMAIN shown} = list
       /\ \A d, e \in DOMAIN shown :
            d # e => ToSet(shown[d]) \cap ToSet(shown[e]) = {}
       /\ \A d \in DOMAIN shown : \A i, j \in DOMAIN shown[d] :
            i < j => /\ shown[d][i] # shown[d][j]
                     /\ Rank[shown[d][i]] >= Rank[shown[d][j]]

\* What a query's caller is given, at once or by Read: every result of every
\* plot it asked for that could be read, once; unless the context was cancelled,
\* end of file means all of them.
Complete ==
    \A q \in Queries :
      LET r == query[q]
          due == UNION {ToSet(Results(r.kind, s)) : s \in r.items \ r.bad}
      IN  /\ ToSet(r.taken) \subseteq due
          /\ IsInjective(r.taken)
          /\ (r.reader = "eof" /\ r.ctx = "live") => ToSet(r.taken) = due

\* A query that is asked is answered, whatever the pool is busy with, and a
\* caller that reads on comes to end of file, whether or not it cancels.
Answered ==
    \A q \in Queries :
      query[q].pc # "idle" ~> (query[q].reader \in {"eof", "gone"} \/ ~Alive)

\* The writer goroutine ends: of a proof stream even when the caller has left,
\* because the channel has room for one proof of every plot; of a quality
\* stream when the caller reads on.
WriterEnds ==
    \A q \in Queries :
      query[q].pc = "write" ~> \/ query[q].pc = "done" \/ ~Alive
                               \/ /\ query[q].kind = "quality"
                                  /\ query[q].reader = "gone"

\* OnStop returns: the plotter sees quit wherever it is.
StopReturns == svc = "stopping" ~> (svc = "stopped" \/ ~Alive)

\* Empty() saw the queue while Delete had everything out of it: the plotter waits
\* for a channel nobody sends to, with plots in the queue.
Missed == plotter.pc = "select" /\ queue # {}

\* With generate set, every plot in the queue is mined in the end, unless a call
\* or a stop comes in between.  A call may be over and have had its effect: the plotter
\* missed what it put back.
QueuedMines ==
    \A s \in Plots :
      (Generate /\ svc = "running" /\ s \in queue)
        ~> (\/ s \in index["Mining"] \/ Quit \/ \E c \in Clients : call[c] # Idle
            \/ []Missed \/ ~Alive)

\* Everybody who waits for the keeper is served in the end: the caller of a
\* query, the writer of its stream, a queued plot, and OnStop; unless a Delete has taken
\* the last plot of the queue between the plotter's Empty() and its PopItem().
AllServed == Answered /\ WriterEnds /\ QueuedMines /\ StopReturns
=============================================================================
