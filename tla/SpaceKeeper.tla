----------------------------- MODULE SpaceKeeper -----------------------------
(***************************************************************************)
(* The v1 SpaceKeeper (poc/engine/spacekeeper/capacity): the index of work *)
(* spaces, the API calls that act on them, the plotter goroutine with its  *)
(* priority queue and its intake channel, the per-space quit monitors, and *)
(* the service's start and stop.                                           *)
(*                                                                         *)
(* A step is a section of code between two points where another goroutine  *)
(* can be observed: taking or releasing stateLock or the queue's mutex, a  *)
(* channel operation, a wait.  A call that blocks while it holds stateLock *)
(* (a send on the full channel, a wait for StopPlot) keeps the lock in its *)
(* program counter.                                                        *)
(***************************************************************************)
EXTENDS Integers, FiniteSets, Sequences

CONSTANTS
    Spaces,      \* space ids (sid)
    Clients,     \* gRPC handler goroutines that call ActOnWorkSpace(s)
    None,        \* nil
    Found,       \* spaces whose MassDB files exist when the process starts
    CutFound,    \* those of them whose HashMapA was left at an odd checkpoint
    Ordinal,     \* wallet ordinal of a space's key: the queue's priority
    ChanSize,    \* plotterMaxChanSize
    MaxStarts,   \* bound: how often the service is started
    MaxCalls     \* bound: API calls (actions and configurations) made

ASSUME ConstantsAssumption ==
    /\ None \notin Spaces
    /\ Found \subseteq Spaces /\ CutFound \subseteq Found
    /\ Ordinal \in [Spaces -> Nat]
    /\ ChanSize \in Nat \ {0}
    /\ MaxStarts \in Nat \ {0}
    /\ MaxCalls \in Nat

ASSUME SpacesAssumption == IsFiniteSet(Spaces)

VARIABLES
    svc,       \* BaseService: stopped, running, or inside OnStop's wg.Wait
    quit,      \* whether sk.quit is closed
    starts,    \* plotter goroutines spawned so far
    index,     \* workSpaceIndex[state], as the set of its keys
    all,       \* workSpaceIndex[allState]
    state,     \* ws.state
    list,      \* workSpaceList
    using,     \* the spaces whose ws.using flag is set
    created,   \* the spaces a WorkSpace object was ever made for
    queue,     \* plotterQueue.Prque: how many copies of each item it holds
    rest,      \* newQueue, local to a plotterQueue.Delete in progress
    popped,    \* poppedItem: the plotter whose latest item it is, 0 for nil
    chan,      \* newQueuedWorkSpaceCh
    pc,        \* program counter of each plotter goroutine
    cur,       \* the plotter's qws
    mon,       \* the plotters whose current monitor still selects
    lag,       \* spaces with a killed monitor that has not run yet
    closing,   \* spaces a monitor's StopPlot has not closed stopPlotCh of yet
    stopping,  \* spaces a monitor's StopPlot waits in wg.Wait for
    lost,      \* history: plotters whose monitor asked a plot to stop too early
    db,        \* MassDB.plotting and the goroutine behind it
    stopCh,    \* stopPlotCh: nil, open or closed
    done,      \* the spaces whose Progress is 100
    cut,       \* the spaces whose HashMapA is left at an odd checkpoint
    onDisk,    \* the spaces whose MassDB files exist
    calls,     \* API calls made so far
    call,      \* the request each client is executing
    panic      \* a goroutine panicked: the process is gone

svcVars   == <<svc, quit, starts>>
indexVars == <<index, all, state, list, using, created>>
queueVars == <<queue, rest, popped, chan>>
plotVars  == <<pc, cur>>
monVars   == <<mon, lag, closing, stopping, lost>>
dbVars    == <<db, stopCh, done, cut, onDisk>>
vars == <<svc, quit, starts, index, all, state, list, using, created, queue,
          rest, popped, chan, pc, cur, mon, lag, closing, stopping, lost, db,
          stopCh, done, cut, onDisk, calls, call, panic>>

-----------------------------------------------------------------------------
(* Types.                                                                  *)

WorkSpaceState == {"Registered", "Plotting", "Ready", "Mining"}

\* queuedWorkSpace: a space, and whether it is mined once it is plotted
Item == [ws : Spaces, wouldMining : BOOLEAN]

Plotters == 1 .. MaxStarts

\* in the order the goroutine runs through them
PlotterPC == {"none", "spawned", "check", "pop", "step1", "plot", "make",
              "wait", "select", "adding", "drain", "exited"}

\* idle: plotting = 0.  set: Plot has swapped it to 1 and not made stopPlotCh.
\* run: executePlot works.  tail: it has sent its result and has not yet stored
\* plotting = 0
DbPhase == {"idle", "set", "run", "tail"}

Actions == {"Plot", "Mine", "Stop", "Remove", "Delete"}

\* send: blocked on the channel.  deleting: inside plotterQueue.Delete.
\* stopClose, stopWait: waiting for StopPlot's result, before and after its close
Call == [pc : {"idle", "send", "deleting", "stopClose", "stopWait"},
         action : Actions \cup {"none"}, ws : Spaces \cup {None}]

NoCall == [pc |-> "idle", action |-> "none", ws |-> None]

EmptyQueue == [i \in Item |-> 0]

TypeOK ==
    /\ svc \in {"stopped", "running", "stopping"}
    /\ quit \in BOOLEAN
    /\ starts \in 0 .. MaxStarts
    /\ index \in [WorkSpaceState -> SUBSET Spaces]
    /\ all \in SUBSET Spaces
    /\ state \in [Spaces -> WorkSpaceState]
    /\ list \in SUBSET Spaces
    /\ using \in SUBSET Spaces
    /\ created \in SUBSET Spaces
    /\ queue \in [Item -> Nat]
    /\ rest \in [Item -> Nat]
    /\ popped \in 0 .. MaxStarts
    /\ chan \in Seq(Item)
    /\ pc \in [Plotters -> PlotterPC]
    /\ cur \in [Plotters -> [ws : Spaces \cup {None}, wouldMining : BOOLEAN]]
    /\ mon \in SUBSET Plotters
    /\ lag \in [Plotters -> SUBSET Spaces]
    /\ closing \in [Plotters -> SUBSET Spaces]
    /\ stopping \in [Plotters -> SUBSET Spaces]
    /\ lost \in SUBSET Plotters
    /\ db \in [Spaces -> DbPhase]
    /\ stopCh \in [Spaces -> {"nil", "open", "closed"}]
    /\ done \in SUBSET Spaces
    /\ cut \in SUBSET Spaces
    /\ onDisk \in SUBSET Spaces
    /\ calls \in 0 .. MaxCalls
    /\ call \in [Clients -> Call]
    /\ panic \in BOOLEAN

-----------------------------------------------------------------------------
(* Locks.  stateLock is a sync.RWMutex: PlotWS takes it shared, the other  *)
(* calls and the plotter exclusively.                                      *)

RLockFree == \A c \in Clients : \/ call[c].pc = "idle"
                                \/ call[c].pc = "send" /\ call[c].action = "Plot"

LockFree == \A c \in Clients : call[c].pc = "idle"

\* the mutex of plotterQueue, which PopItem, Delete, PoppedItem and Reset take
\* and the promoted Push and Empty do not
QueueFree == \A c \in Clients : call[c].pc # "deleting"

ApiCall == calls < MaxCalls /\ calls' = calls + 1

(* Index and queue operations.                                             *)

In(st, s) == s \in index[st]

\* Bug: the space is left in the map of its old state
ChangeStateKeepsOld(s, old, new) ==
    /\ index' = [index EXCEPT ![new] = @ \cup {s}]
    /\ state' = [state EXCEPT ![s] = new]

\* changeState, and the same three statements in MineWS and StopWS
ChangeState(s, old, new) ==
    /\ index' = [index EXCEPT ![old] = @ \ {s}, ![new] = @ \cup {s}]
    /\ state' = [state EXCEPT ![s] = new]

\* useWorkSpace and disuseWorkSpace keep the flag and the list together
DisuseWorkSpace(s) ==
    /\ using' = using \ {s}
    /\ list' = list \ {s}

NewQueuedWorkSpace(s, wouldMining) == [ws |-> s, wouldMining |-> wouldMining]

QueueEmpty == \A i \in Item : queue[i] = 0

\* prque pops the item of highest priority; items of one space tie
IsFirst(i) ==
    /\ queue[i] > 0
    /\ \A j \in Item : queue[j] > 0 => Ordinal[i.ws] <= Ordinal[j.ws]

Push(i) == queue' = [queue EXCEPT ![i] = @ + 1]

\* what plotterQueue.Delete keeps
Without(s) == [i \in Item |-> IF i.ws = s THEN 0 ELSE queue[i]]

ResetQueue == queue' = EmptyQueue /\ popped' = 0

-----------------------------------------------------------------------------
(* MassDB as the keeper sees it.                                           *)

\* the goroutine of StopPlot closes the stopPlotCh it finds: that of the plot
\* before, if Plot has not made the new one; nil or closed, it panics
CloseStopPlotCh(s) ==
    /\ panic' = (stopCh[s] # "open")
    /\ stopCh' = [stopCh EXCEPT ![s] = "closed"]

\* wg.Wait passes: executePlot has not been counted yet, or not any more
PlotUncounted(s) == db[s] \in {"idle", "set"}

\* executePlot ends: the space is plotted, or the plot was stopped or failed, in
\* HashMapA after one of its windows (whose checkpoint is odd) or elsewhere.
\* From an odd checkpoint even windows never reach the end: such a plot is not
\* completed any more.  The result is sent before plotting is cleared.
PlotEnd(s) ==
    /\ ~panic
    /\ db[s] = "run"
    /\ db' = [db EXCEPT ![s] = "tail"]
    /\ \/ s \notin cut /\ done' = done \cup {s} /\ UNCHANGED cut
       \/ cut' \in {cut, cut \cup {s}} /\ UNCHANGED done
    /\ UNCHANGED <<svcVars, indexVars, queueVars, plotVars, monVars, stopCh,
                   onDisk, calls, call, panic>>

PlotSettle(s) ==
    /\ ~panic
    /\ db[s] = "tail"
    /\ db' = [db EXCEPT ![s] = "idle"]
    /\ UNCHANGED <<svcVars, indexVars, queueVars, plotVars, monVars, stopCh,
                   done, cut, onDisk, calls, call, panic>>

-----------------------------------------------------------------------------
(* Start and stop of the service.                                          *)

\* BaseService lets a service start once it is stopped (mass-core)
OnStart ==
    /\ ~panic
    /\ svc = "stopped" /\ starts < MaxStarts
    /\ svc' = "running" /\ quit' = FALSE
    /\ starts' = starts + 1
    /\ pc' = [pc EXCEPT ![starts + 1] = "spawned"]
    /\ UNCHANGED <<indexVars, queueVars, cur, monVars, dbVars, calls, call,
                   panic>>

OnStop ==
    /\ ~panic
    /\ svc = "running"
    /\ svc' = "stopping" /\ quit' = TRUE
    /\ UNCHANGED <<starts, indexVars, queueVars, plotVars, monVars, dbVars,
                   calls, call, panic>>

\* a plotter counts in sk.wg from its own wg.Add(1) to its deferred wg.Done()
Counted(p) == pc[p] \notin {"none", "spawned", "exited"}

\* Bug: OnStop returns without wg.Wait
OnStopReturnsEarly ==
    /\ ~panic
    /\ svc = "stopping"
    /\ svc' = "stopped"
    /\ UNCHANGED <<quit, starts, indexVars, queueVars, plotVars, monVars,
                   dbVars, calls, call, panic>>

OnStopReturn ==
    /\ ~panic
    /\ svc = "stopping"
    /\ \A p \in Plotters : ~Counted(p)
    /\ svc' = "stopped"
    /\ UNCHANGED <<quit, starts, indexVars, queueVars, plotVars, monVars,
                   dbVars, calls, call, panic>>

(* Configuration, possible while the service is not started.               *)

\* generateNewWorkSpace and addWorkSpaceToIndex for the new spaces
AddWorkSpacesToIndex(new) ==
    /\ created' = created \cup new
    /\ all' = all \cup new
    /\ index' = [index EXCEPT !["Registered"] = @ \cup new]
    /\ state' = [s \in Spaces |-> IF s \in new THEN "Registered" ELSE state[s]]
    /\ onDisk' = onDisk \cup new

\* the queue applyConfiguredWorkSpaces leaves
ConfiguredQueue(sel, execPlot, execMine) ==
    [i \in Item |-> IF /\ i.ws \in sel
                       /\ i.wouldMining = execMine
                       /\ execPlot \/ execMine
                    THEN 1 ELSE 0]

\* a Configure... call that succeeds, ending in applyConfiguredWorkSpaces
Configure(new, sel, execPlot, execMine) ==
    /\ ~panic
    /\ svc = "stopped" /\ QueueFree /\ ApiCall
    /\ new \cap created = {}
    /\ sel # {} /\ sel \subseteq all \cup new
    /\ AddWorkSpacesToIndex(new)
    /\ using' = sel /\ list' = sel
    /\ queue' = ConfiguredQueue(sel, execPlot, execMine)
    /\ popped' = 0
    /\ UNCHANGED <<svcVars, rest, chan, plotVars, monVars, db, stopCh, done,
                   cut, call, panic>>

\* generation fails half way: the spaces made so far stay in the index
ConfigureFails(new) ==
    /\ ~panic
    /\ svc = "stopped" /\ ApiCall
    /\ new # {} /\ new \cap created = {}
    /\ AddWorkSpacesToIndex(new)
    /\ UNCHANGED <<svcVars, list, using, queueVars, plotVars, monVars, db,
                   stopCh, done, cut, call, panic>>

-----------------------------------------------------------------------------
(* Client calls (ActOnWorkSpace, or one turn of the loop of a ...MultiWS). *)
(* A call for a space that is not indexed or not in use, a Plot of a ready *)
(* or mining space and a Mine of a mining space return at once and change  *)
(* nothing; they are no steps.                                             *)

Exists(s) == s \in all /\ s \in using

\* registered: queue the space; the send below happens under the lock
Submit(c, s, action) ==
    /\ In("Registered", s)
    /\ call' = [call EXCEPT ![c] = [pc |-> "send", action |-> action, ws |-> s]]
    /\ UNCHANGED <<svcVars, indexVars, queueVars, plotVars, monVars, dbVars,
                   panic>>

\* plotting: redirect the popped item, found through poppedItem
Redirect(s, wouldMining) ==
    /\ In("Plotting", s)
    /\ \/ popped = 0 /\ panic' = TRUE /\ UNCHANGED <<cur>>
       \/ /\ popped # 0 /\ cur[popped].ws = s
          /\ cur' = [cur EXCEPT ![popped] = NewQueuedWorkSpace(s, wouldMining)]
          /\ UNCHANGED panic
    /\ UNCHANGED <<svcVars, indexVars, queueVars, pc, monVars, dbVars, call>>

PlotWS(c, s) ==
    /\ ~panic
    /\ call[c] = NoCall /\ RLockFree /\ Exists(s) /\ ApiCall
    /\ Submit(c, s, "Plot") \/ Redirect(s, FALSE)

MineWS(c, s) ==
    /\ ~panic
    /\ call[c] = NoCall /\ LockFree /\ Exists(s) /\ ApiCall
    /\ \/ Submit(c, s, "Mine")
       \/ Redirect(s, TRUE)
       \/ /\ In("Ready", s)
          /\ ChangeState(s, "Ready", "Mining")
          /\ UNCHANGED <<svcVars, all, list, using, created, queueVars,
                         plotVars, monVars, dbVars, call, panic>>

\* newQueuedWorkSpaceCh <- qws, then the deferred unlock
Send(c) ==
    /\ ~panic
    /\ call[c].pc = "send" /\ Len(chan) < ChanSize
    /\ chan' = Append(chan, NewQueuedWorkSpace(call[c].ws,
                                               call[c].action = "Mine"))
    /\ call' = [call EXCEPT ![c] = NoCall]
    /\ UNCHANGED <<svcVars, indexVars, queue, rest, popped, plotVars, monVars,
                   dbVars, calls, panic>>

\* Stop, Remove and Delete begin with plotterQueue.Delete, which pops all
\* items of the old queue before it installs the new one
QueueDelete(c, s, action) ==
    /\ ~panic
    /\ call[c] = NoCall /\ LockFree /\ Exists(s) /\ ApiCall
    /\ rest' = Without(s) /\ queue' = EmptyQueue
    /\ call' = [call EXCEPT ![c] = [pc |-> "deleting", action |-> action,
                                    ws |-> s]]
    /\ UNCHANGED <<svcVars, indexVars, popped, chan, plotVars, monVars, dbVars,
                   panic>>

\* the end of plotterQueue.Delete: what was pushed meanwhile is lost
Deleted(c, action) ==
    /\ ~panic
    /\ call[c].pc = "deleting" /\ call[c].action = action
    /\ queue' = rest /\ rest' = EmptyQueue

\* StopWS of a plotting space: waits for StopPlot under the lock, unless
\* StopPlot finds plotting = 0
StopPlotting(c, s) ==
    /\ In("Plotting", s)
    /\ IF popped = 0
       THEN /\ panic' = TRUE
            /\ UNCHANGED <<cur, call>>
       ELSE IF cur[popped].ws # s       \* ErrWorkSpaceIsNotPlotting
       THEN /\ call' = [call EXCEPT ![c] = NoCall]
            /\ UNCHANGED <<cur, panic>>
       ELSE /\ cur' = [cur EXCEPT ![popped] = NewQueuedWorkSpace(s, FALSE)]
            /\ call' = [call EXCEPT ![c] = IF db[s] = "idle" THEN NoCall
                                           ELSE [@ EXCEPT !.pc = "stopClose"]]
            /\ UNCHANGED panic
    /\ UNCHANGED indexVars

StopMining(c, s) ==
    /\ ~In("Plotting", s)
    /\ IF In("Mining", s) THEN ChangeState(s, "Mining", "Ready")
                          ELSE UNCHANGED <<index, state>>
    /\ call' = [call EXCEPT ![c] = NoCall]
    /\ UNCHANGED <<all, list, using, created, cur, panic>>

StopWS(c) ==
    /\ Deleted(c, "Stop")
    /\ StopPlotting(c, call[c].ws) \/ StopMining(c, call[c].ws)
    /\ UNCHANGED <<svcVars, popped, chan, pc, monVars, dbVars, calls>>

StopClose(c) ==
    /\ ~panic
    /\ call[c].pc = "stopClose"
    /\ CloseStopPlotCh(call[c].ws)
    /\ call' = [call EXCEPT ![c].pc = "stopWait"]
    /\ UNCHANGED <<svcVars, indexVars, queueVars, plotVars, monVars, db, done,
                   cut, onDisk, calls>>

\* Bug: StopWS waits, under the lock, until the space has left Plotting
StopWaitsForState(c) ==
    /\ ~panic
    /\ call[c].pc = "stopWait" /\ ~In("Plotting", call[c].ws)
    /\ call' = [call EXCEPT ![c] = NoCall]
    /\ UNCHANGED <<svcVars, indexVars, queueVars, plotVars, monVars, dbVars,
                   calls, panic>>

StopReturn(c) ==
    /\ ~panic
    /\ call[c].pc = "stopWait" /\ PlotUncounted(call[c].ws)
    /\ call' = [call EXCEPT ![c] = NoCall]
    /\ UNCHANGED <<svcVars, indexVars, queueVars, plotVars, monVars, dbVars,
                   calls, panic>>

\* Bug: only a mining space is refused
StillUnlessMining(s) == ~In("Mining", s)

\* ErrWorkSpaceIsNotStill otherwise
Still(s) == In("Registered", s) \/ In("Ready", s)

RemoveWS(c) ==
    /\ Deleted(c, "Remove")
    /\ LET s == call[c].ws IN
       IF Still(s)
       THEN DisuseWorkSpace(s)
       ELSE UNCHANGED <<using, list>>
    /\ call' = [call EXCEPT ![c] = NoCall]
    /\ UNCHANGED <<svcVars, index, all, state, created, popped, chan, plotVars,
                   monVars, dbVars, calls, panic>>

\* MassDB.Delete refuses with ErrAlreadyPlotting while plotting is set
DeleteWS(c) ==
    /\ Deleted(c, "Delete")
    /\ LET s == call[c].ws IN
       IF Still(s)
       THEN /\ index' = [index EXCEPT ![state[s]] = @ \ {s}]
            /\ all' = all \ {s}
            /\ DisuseWorkSpace(s)
            /\ onDisk' = IF db[s] = "idle" THEN onDisk \ {s} ELSE onDisk
       ELSE UNCHANGED <<index, all, using, list, onDisk>>
    /\ call' = [call EXCEPT ![c] = NoCall]
    /\ UNCHANGED <<svcVars, state, created, popped, chan, plotVars, monVars,
                   db, stopCh, done, cut, calls, panic>>

-----------------------------------------------------------------------------
(* The plotter goroutine.                                                  *)

\* wg.Add(1) runs inside the goroutine
PlotterBegin(p) ==
    /\ ~panic
    /\ pc[p] = "spawned"
    /\ pc' = [pc EXCEPT ![p] = "check"]
    /\ UNCHANGED <<svcVars, indexVars, queueVars, cur, monVars, dbVars, calls,
                   call, panic>>

\* for !sk.queue.Empty() { select { case <-sk.quit ... default } }
Check(p) ==
    /\ ~panic
    /\ pc[p] = "check"
    /\ pc' = [pc EXCEPT ![p] = IF QueueEmpty THEN "select"
                               ELSE IF quit THEN "drain" ELSE "pop"]
    /\ UNCHANGED <<svcVars, indexVars, queueVars, cur, monVars, dbVars, calls,
                   call, panic>>

\* Bug: the popped item is not recorded
PopItemUnrecorded(p) ==
    /\ ~panic
    /\ pc[p] = "pop" /\ QueueFree
    /\ \E i \in Item :
         /\ IsFirst(i)
         /\ queue' = [queue EXCEPT ![i] = @ - 1]
         /\ cur' = [cur EXCEPT ![p] = i]
    /\ mon' = mon \cup {p} /\ lost' = lost \ {p}
    /\ pc' = [pc EXCEPT ![p] = "step1"]
    /\ UNCHANGED <<svcVars, indexVars, popped, rest, chan, lag, closing,
                   stopping, dbVars, calls, call, panic>>

\* PopItem panics on an empty queue; then the space's monitor is started
PopItem(p) ==
    /\ ~panic
    /\ pc[p] = "pop" /\ QueueFree
    /\ \/ /\ QueueEmpty
          /\ panic' = TRUE
          /\ UNCHANGED <<queue, popped, pc, cur, mon, lost>>
       \/ \E i \in Item :
            /\ IsFirst(i)
            /\ queue' = [queue EXCEPT ![i] = @ - 1]
            /\ popped' = p
            /\ cur' = [cur EXCEPT ![p] = i]
            /\ mon' = mon \cup {p} /\ lost' = lost \ {p}
            /\ pc' = [pc EXCEPT ![p] = "step1"]
            /\ UNCHANGED panic
    /\ UNCHANGED <<svcVars, indexVars, rest, chan, lag, closing, stopping,
                   dbVars, calls, call>>

\* close(killMonitorCh): the monitor ends now, or lags behind
KillMonitor(p) ==
    /\ pc' = [pc EXCEPT ![p] = "check"]
    /\ mon' = mon \ {p}
    /\ \/ UNCHANGED lag
       \/ p \in mon /\ lag' = [lag EXCEPT ![p] = @ \cup {cur[p].ws}]

\* plotSpace, Step 1
PlotSpaceBegin(p) ==
    /\ ~panic
    /\ pc[p] = "step1" /\ LockFree
    /\ LET s == cur[p].ws IN
       \/ /\ In("Registered", s)
          /\ ChangeState(s, "Registered", "Plotting")
          /\ pc' = [pc EXCEPT ![p] = "plot"]
          /\ UNCHANGED <<mon, lag>>
       \/ /\ ~In("Registered", s)
          /\ IF In("Ready", s) /\ cur[p].wouldMining
             THEN ChangeState(s, "Ready", "Mining")
             ELSE UNCHANGED <<index, state>>
          /\ KillMonitor(p)
    /\ UNCHANGED <<svcVars, all, list, using, created, queueVars, cur,
                   closing, stopping, lost, dbVars, calls, call, panic>>

\* plotSpace, Step 2: MassDB.Plot swaps plotting, or returns ErrAlreadyPlotting
Plot(p) ==
    /\ ~panic
    /\ pc[p] = "plot"
    /\ LET s == cur[p].ws IN
       IF db[s] = "idle"
       THEN /\ db' = [db EXCEPT ![s] = "set"]
            /\ pc' = [pc EXCEPT ![p] = "make"]
       ELSE /\ pc' = [pc EXCEPT ![p] = "wait"]
            /\ UNCHANGED db
    /\ UNCHANGED <<svcVars, indexVars, queueVars, cur, monVars, stopCh, done,
                   cut, onDisk, calls, call, panic>>

\* the rest of Plot: stopPlotCh is made anew and executePlot begins
ExecutePlot(p) ==
    /\ ~panic
    /\ pc[p] = "make"
    /\ db' = [db EXCEPT ![cur[p].ws] = "run"]
    /\ stopCh' = [stopCh EXCEPT ![cur[p].ws] = "open"]
    /\ pc' = [pc EXCEPT ![p] = "wait"]
    /\ UNCHANGED <<svcVars, indexVars, queueVars, cur, monVars, done, cut,
                   onDisk, calls, call, panic>>

\* Bug: Step 3 does not look at the progress
NextStateUnchecked(p) == IF cur[p].wouldMining THEN "Mining" ELSE "Ready"

\* where plotSpace, Step 3 takes a space
NextState(p) == IF cur[p].ws \notin done THEN "Registered"
                ELSE IF cur[p].wouldMining THEN "Mining" ELSE "Ready"

\* Plot's result has arrived: plotSpace, Step 3
PlotSpaceEnd(p) ==
    /\ ~panic
    /\ pc[p] = "wait" /\ db[cur[p].ws] # "run" /\ LockFree
    /\ ChangeState(cur[p].ws, "Plotting", NextState(p))
    /\ KillMonitor(p)
    /\ UNCHANGED <<svcVars, all, list, using, created, queueVars, cur,
                   closing, stopping, lost, dbVars, calls, call, panic>>

\* a receive and the push that follows it
ReceiveSpace(p) ==
    /\ chan # <<>>
    /\ chan' = Tail(chan)
    /\ Push(Head(chan))
    /\ pc' = [pc EXCEPT ![p] = "adding"]

\* select { case <-sk.quit; case qws := <-newQueuedWorkSpaceCh }
Select(p) ==
    /\ ~panic
    /\ pc[p] = "select"
    /\ \/ ReceiveSpace(p)
       \/ quit /\ pc' = [pc EXCEPT ![p] = "drain"] /\ UNCHANGED <<queue, chan>>
    /\ UNCHANGED <<svcVars, indexVars, rest, popped, cur, monVars, dbVars,
                   calls, call, panic>>

\* addSpaces' loop, until the channel is empty
AddSpaces(p) ==
    /\ ~panic
    /\ pc[p] = "adding"
    /\ \/ ReceiveSpace(p)
       \/ /\ chan = <<>>
          /\ pc' = [pc EXCEPT ![p] = "check"]
          /\ UNCHANGED <<queue, chan>>
    /\ UNCHANGED <<svcVars, indexVars, rest, popped, cur, monVars, dbVars,
                   calls, call, panic>>

\* wg.Wait() for the monitors, then the deferred queue.Reset and wg.Done
PlotterExit(p) ==
    /\ ~panic
    /\ pc[p] = "drain" /\ QueueFree
    /\ p \notin mon /\ lag[p] = {} /\ closing[p] = {} /\ stopping[p] = {}
    /\ ResetQueue
    /\ pc' = [pc EXCEPT ![p] = "exited"]
    /\ UNCHANGED <<svcVars, indexVars, rest, chan, cur, monVars, dbVars, calls,
                   call, panic>>

-----------------------------------------------------------------------------
(* The monitors.  A plotter and its monitors live within one start of the  *)
(* service, so that `quit' is the channel they select on.                  *)

\* Bug: a monitor that is told to quit leaves the plot alone
MonitorOnlyEnds(p) ==
    /\ ~panic
    /\ p \in mon /\ quit
    /\ mon' = mon \ {p}
    /\ UNCHANGED <<svcVars, indexVars, queueVars, plotVars, lag, closing,
                   stopping, lost, dbVars, calls, call, panic>>

\* the plotter has taken an item and its plot has not begun
BeforePlot(p) == pc[p] \in {"step1", "plot", "make"}

\* StopPlot, which returns at once where plotting = 0: a plot about to begin
\* is not stopped
MonitorQuit(p) ==
    /\ ~panic
    /\ p \in mon /\ quit
    /\ mon' = mon \ {p}
    /\ LET s == cur[p].ws IN
       IF db[s] = "idle"
       THEN /\ lost' = IF BeforePlot(p) THEN lost \cup {p} ELSE lost
            /\ UNCHANGED closing
       ELSE closing' = [closing EXCEPT ![p] = @ \cup {s}] /\ UNCHANGED lost
    /\ UNCHANGED <<svcVars, indexVars, queueVars, plotVars, lag, stopping,
                   dbVars, calls, call, panic>>

\* both channels of a killed monitor may be ready: it takes either
LaggardQuit(p, s) ==
    /\ ~panic
    /\ s \in lag[p] /\ quit
    /\ lag' = [lag EXCEPT ![p] = @ \ {s}]
    /\ closing' = IF db[s] = "idle" THEN closing
                  ELSE [closing EXCEPT ![p] = @ \cup {s}]
    /\ UNCHANGED <<svcVars, indexVars, queueVars, plotVars, mon, stopping,
                   lost, dbVars, calls, call, panic>>

LaggardExit(p, s) ==
    /\ ~panic
    /\ s \in lag[p]
    /\ lag' = [lag EXCEPT ![p] = @ \ {s}]
    /\ UNCHANGED <<svcVars, indexVars, queueVars, plotVars, mon, closing,
                   stopping, lost, dbVars, calls, call, panic>>

\* the goroutine in StopPlot; the channel it closes may be the last plot's
MonitorClose(p, s) ==
    /\ ~panic
    /\ s \in closing[p]
    /\ CloseStopPlotCh(s)
    /\ closing' = [closing EXCEPT ![p] = @ \ {s}]
    /\ stopping' = [stopping EXCEPT ![p] = @ \cup {s}]
    /\ lost' = IF s = cur[p].ws /\ BeforePlot(p) THEN lost \cup {p} ELSE lost
    /\ UNCHANGED <<svcVars, indexVars, queueVars, plotVars, mon, lag, db, done,
                   cut, onDisk, calls, call>>

MonitorReturn(p, s) ==
    /\ ~panic
    /\ s \in stopping[p] /\ PlotUncounted(s)
    /\ stopping' = [stopping EXCEPT ![p] = @ \ {s}]
    /\ UNCHANGED <<svcVars, indexVars, queueVars, plotVars, mon, lag, closing,
                   lost, dbVars, calls, call, panic>>

-----------------------------------------------------------------------------
\* newSpaceKeeperV1: generateInitialIndex indexes the files on disk; given the
\* wallet's password, ConfigureByFlags(SFAll, plot, generate) takes them all
Init ==
    /\ svc = "stopped" /\ quit = FALSE /\ starts = 0
    /\ created = Found /\ all = Found /\ onDisk = Found
    /\ done \in SUBSET Found
    /\ state = [s \in Spaces |-> IF s \in done THEN "Ready" ELSE "Registered"]
    /\ index = [st \in WorkSpaceState |-> {s \in Found : state[s] = st}]
    /\ list \in {{}, Found} /\ using = list
    /\ \E plot, generate \in BOOLEAN :
         queue = ConfiguredQueue(list, plot, generate)
    /\ rest = EmptyQueue /\ popped = 0 /\ chan = <<>>
    /\ pc = [p \in Plotters |-> "none"]
    /\ cur = [p \in Plotters |-> [ws |-> None, wouldMining |-> FALSE]]
    /\ mon = {}
    /\ lag = [p \in Plotters |-> {}]
    /\ closing = [p \in Plotters |-> {}] /\ stopping = closing
    /\ lost = {}
    /\ db = [s \in Spaces |-> "idle"] /\ stopCh = [s \in Spaces |-> "nil"]
    /\ cut = CutFound \ done
    /\ calls = 0 /\ call = [c \in Clients |-> NoCall]
    /\ panic = FALSE

ServiceNext ==
    \/ OnStart
    \/ OnStop
    \/ OnStopReturn
    \/ \E new, sel \in SUBSET Spaces : \E execPlot, execMine \in BOOLEAN :
         Configure(new, sel, execPlot, execMine)
    \/ \E new \in SUBSET Spaces : ConfigureFails(new)

DbNext(s) == PlotEnd(s) \/ PlotSettle(s)

ClientCall(c) ==
    \/ \E s \in Spaces : PlotWS(c, s)
    \/ \E s \in Spaces : MineWS(c, s)
    \/ \E s \in Spaces, a \in {"Stop", "Remove", "Delete"} :
         QueueDelete(c, s, a)

ClientContinue(c) ==
    \/ Send(c)
    \/ StopWS(c)
    \/ StopClose(c)
    \/ StopReturn(c)
    \/ RemoveWS(c)
    \/ DeleteWS(c)

PlotterNext(p) ==
    \/ PlotterBegin(p)
    \/ Check(p)
    \/ PopItem(p)
    \/ PlotSpaceBegin(p)
    \/ Plot(p)
    \/ ExecutePlot(p)
    \/ PlotSpaceEnd(p)
    \/ Select(p)
    \/ AddSpaces(p)
    \/ PlotterExit(p)

MonitorNext(p) ==
    \/ MonitorQuit(p)
    \/ \E s \in Spaces : LaggardQuit(p, s)
    \/ \E s \in Spaces : LaggardExit(p, s)
    \/ \E s \in Spaces : MonitorClose(p, s)
    \/ \E s \in Spaces : MonitorReturn(p, s)

Next ==
    \/ ServiceNext
    \/ \E s \in Spaces : DbNext(s)
    \/ \E c \in Clients : ClientCall(c) \/ ClientContinue(c)
    \/ \E p \in Plotters : PlotterNext(p) \/ MonitorNext(p)

Spec == Init /\ [][Next]_vars

\* the work of executePlot is bounded, or it sees its stopPlotCh closed: every
\* waitQuitPlotInterval values, also in a loop without end
PlotMustEnd(s) == PlotEnd(s) /\ (s \notin cut \/ stopCh[s] = "closed")

\* Every goroutine that can run does run: the Go scheduler.  A plot resumed at
\* an odd checkpoint need not end by itself.  Nobody has to make an API call.
Fairness ==
    /\ WF_vars(OnStopReturn)
    /\ \A s \in Spaces : WF_vars(PlotMustEnd(s)) /\ WF_vars(PlotSettle(s))
    /\ \A c \in Clients : WF_vars(ClientContinue(c))
    /\ \A p \in Plotters : WF_vars(PlotterNext(p)) /\ WF_vars(MonitorNext(p))

FairSpec == Spec /\ Fairness

-----------------------------------------------------------------------------
(* Properties.                                                             *)

\* The state maps partition the indexed spaces and agree with ws.state: every
\* space is found in exactly one of workSpaceIndex[Registered .. Mining], after
\* any interleaving of calls, plotters and configurations.
IndexConsistent ==
    \A s \in Spaces, st \in WorkSpaceState :
      s \in index[st] <=> (s \in all /\ state[s] = st)

Working(p) == pc[p] \in {"plot", "make", "wait"}

\* A space is in state Plotting exactly while some plotter is between Step 1
\* and Step 3 of plotSpace for it, and never two of them: no call deletes a
\* space that is being plotted, and no space is left Plotting by nobody.
PlottingOwned ==
    /\ \A s \in Spaces :
         s \in index["Plotting"] <=> \E p \in Plotters : Working(p) /\ cur[p].ws = s
    /\ \A p, q \in Plotters :
         Working(p) /\ Working(q) /\ cur[p].ws = cur[q].ws => p = q

\* Once OnStop has returned (and until the next OnStart) no space is Plotting
\* and no plot runs, although a plotter spawned by OnStart may not even have
\* reached its wg.Add(1) when OnStop's wg.Wait returned.
StoppedIsQuiet ==
    svc = "stopped" => /\ index["Plotting"] = {}
                       /\ \A s \in Spaces : db[s] \notin {"set", "run"}

\* Proofs are only asked of complete plots: a Ready or Mining space has
\* Progress 100, and MassDB.Plot is never called on a plotted space, where it
\* would leave its plotting flag set for good.
OnlyPlottedServes ==
    /\ index["Ready"] \cup index["Mining"] \subseteq done
    /\ \A p \in Plotters : pc[p] = "plot" => cur[p].ws \notin done

\* workSpaceList holds the spaces whose using flag is set, and they are indexed:
\* a deleted space is never listed.
UsedIsIndexed == list = using /\ using \subseteq all

\* What PlotWS, MineWS and StopWS rely on when they follow poppedItem to the
\* item of a plotting space: it is there and it is that space's.  It holds of a
\* service that is started once.
PoppedIsPlotting ==
    \A s \in index["Plotting"] : popped # 0 /\ cur[popped].ws = s

\* a plot in a loop without end that has not been told to stop
Endless(s) == s \in cut /\ db[s] = "run" /\ stopCh[s] # "closed"

\* the only monitor of an endless plot came before Plot had made stopPlotCh
StopLost == \E p \in lost : pc[p] = "wait" /\ Endless(cur[p].ws)

\* a request waits for room in newQueuedWorkSpaceCh and keeps stateLock
ChanFull == \E c \in Clients : call[c].pc = "send" /\ Len(chan) = ChanSize

\* OnStop returns: the plotter leaves its queue, its channel and its plot,
\* endless ones included, and the monitors' StopPlot calls return.  It does not
\* if a goroutine panics, if the plotter waits for ever for the stateLock of a
\* request that waits for the plotter, or if the stop of an endless plot was
\* lost because it came before Plot's compare-and-swap.
StopReturns ==
    \/ svc = "stopping" ~> (svc = "stopped" \/ panic)
    \/ <>[]ChanFull
    \/ <>[]StopLost

\* A plotting space ends up registered, ready or mining, unless a goroutine
\* panics, the plotter waits for ever for stateLock, or the plot was resumed at
\* an odd checkpoint and nobody stops it.
PlottingEnds ==
    \A s \in Spaces :
      \/ s \in index["Plotting"] ~> (s \notin index["Plotting"] \/ panic)
      \/ <>[]ChanFull
      \/ <>[]Endless(s)

-----------------------------------------------------------------------------
(* The inductive invariant: the index and its owners, and what each relies *)
(* on.                                                                     *)

\* a running plot belongs to the plotter that waits for its result, one that
\* begins to the plotter inside MassDB.Plot
RunOwned ==
    \A s \in Spaces :
      /\ db[s] = "run" => \E p \in Plotters : pc[p] = "wait" /\ cur[p].ws = s
      /\ db[s] = "set" => \E p \in Plotters : pc[p] = "make" /\ cur[p].ws = s

\* A plotter passes the quit check only while quit is open, and quit opens only
\* in OnStart, after every counted plotter has exited.
QuitOrdered ==
    /\ svc = "stopping" => quit
    /\ svc = "stopped" =>
         \A p \in Plotters : /\ pc[p] \notin {"pop", "step1", "plot", "make",
                                           "wait"}
                             /\ quit \/ pc[p] = "none"
    /\ \A p \in Plotters : p > starts => pc[p] = "none"

\* progress and state move together; a new space was never plotted
ProgressOrdered ==
    /\ index["Ready"] \cup index["Mining"] \subseteq done
    /\ index["Registered"] \cap done = {}
    /\ \A p \in Plotters : pc[p] = "plot" => cur[p].ws \notin done
    /\ done \subseteq created
    /\ all \subseteq created

KeeperInv ==
    /\ IndexConsistent
    /\ PlottingOwned
    /\ RunOwned
    /\ QuitOrdered
    /\ ProgressOrdered
    /\ UsedIsIndexed

=============================================================================
