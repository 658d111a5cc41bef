------------------------------- MODULE Relay -------------------------------
(***************************************************************************)
(* A relay of the fractal cluster and the pool it reports to, across lost  *)
(* connections: PersistentRemoteSuperior and RemoteSuperior on the relay   *)
(* (fractal/superior.go), CollectorPool and RemoteCollector on the pool's  *)
(* side (fractal/pool.go, fractal/collector.go).                           *)
(*                                                                         *)
(* Tasks are numbered in the order the miner adds them.  A connection is a *)
(* slot that is used again once both sides have forgotten it; what goes on *)
(* inside one is the subject of Conn.                                      *)
(***************************************************************************)
EXTENDS Integers, Sequences, FiniteSets, SequencesExt

CONSTANTS
    NConns,        \* connection slots
    Locals,        \* local collectors of the relay
    MaxCollector,  \* collectorPoolOptions.maxCollector
    MaxTask,       \* bound: tasks of the miner
    MaxLosses      \* bound: connections the network loses

ASSUME RelayAssumption ==
    /\ NConns \in Nat \ {0} /\ IsFiniteSet(Locals)
    /\ MaxCollector \in Nat \ {0} /\ MaxTask \in Nat /\ MaxLosses \in Nat

Conns == 1..NConns
None == 0

VARIABLES
    link,      \* free, backlog (dialled), up, down
    toRelay,   \* tasks on their way over a connection
    \* the relay
    cur,       \* connection of rs.reader and rs.writer
    old,       \* connection prs.connCanceller closes, or None when its slot is used again
    proc,      \* requestProcessor is running
    stopping,  \* rs.stopping and rs.stopped
    stopped,
    waiter,    \* waitStop, in the goroutine of the processor and of the user
    rebirth,   \* where prs.reborn is
    halted,    \* prs.ctx is done
    task,      \* rs.latestTask
    lsub,      \* Subscribe of a local collector: not yet, has read, done
    lread,     \* latestTask as that Subscribe has read it
    lflight,   \* broadcasts the goroutine pool has not run yet
    work,      \* task a local collector works on
    \* the pool
    latest,    \* ls.latestTask
    listener,  \* connection listenRoutine is making a collector for
    coll,      \* none, new, read (Subscribe has read latestTask), run, ended
    cread,     \* the task it read
    subs,      \* base.collectors
    members,   \* pool.collectors
    flight,    \* broadcasts the goroutine pool has not run yet
    \* history
    stale,     \* a task was put after a newer one
    losses

relayVars == <<cur, old, proc, stopping, stopped, waiter, rebirth, halted>>
localVars == <<task, lsub, lread, lflight, work>>
poolVars  == <<latest, listener, coll, cread, subs, members, flight>>
clusterVars == <<link, toRelay, relayVars, localVars, poolVars, stale, losses>>

Tasks == 0..MaxTask    \* 0: no task yet
Waiters == {"own", "user"}

RelayTypeOK ==
    /\ link \in [Conns -> {"free", "backlog", "up", "down"}]
    /\ toRelay \in [Conns -> Seq(Tasks)]
    /\ cur \in Conns /\ old \in Conns \cup {None}
    /\ proc \in BOOLEAN /\ stopping \in BOOLEAN /\ stopped \in BOOLEAN
    /\ waiter \in [Waiters -> {"no", "start", "loaded", "wait"}]
    /\ rebirth \in {"no", "timer", "dialed", "spawned", "half"}
    /\ halted \in BOOLEAN
    /\ task \in Tasks
    /\ lsub \in [Locals -> {"no", "read", "done"}]
    /\ lread \in [Locals -> Tasks]
    /\ lflight \subseteq Locals \X Tasks
    /\ work \in [Locals -> Tasks]
    /\ latest \in Tasks
    /\ listener \in Conns \cup {None}
    /\ coll \in [Conns -> {"none", "new", "read", "run", "ended"}]
    /\ cread \in [Conns -> Tasks]
    /\ subs \subseteq Conns /\ members \subseteq Conns
    /\ flight \subseteq Conns \X Tasks
    /\ stale \in BOOLEAN
    /\ losses \in 0..MaxLosses

\* born has dialled; NewCollectorPool listens
RelayInit ==
    /\ cur = 1 /\ old = 1
    /\ link = [k \in Conns |-> IF k = cur THEN "backlog" ELSE "free"]
    /\ toRelay = [k \in Conns |-> <<>>]
    /\ proc = TRUE /\ stopping = FALSE /\ stopped = FALSE
    /\ waiter = [w \in Waiters |-> "no"]
    /\ rebirth = "no" /\ halted = FALSE
    /\ task = 0
    /\ lsub = [c \in Locals |-> "no"] /\ lread = [c \in Locals |-> 0]
    /\ lflight = {} /\ work = [c \in Locals |-> 0]
    /\ latest = 0 /\ listener = None
    /\ coll = [k \in Conns |-> "none"] /\ cread = [k \in Conns |-> 0]
    /\ subs = {} /\ members = {} /\ flight = {}
    /\ stale = FALSE /\ losses = 0

-----------------------------------------------------------------------------
(* The network.                                                            *)

\* at any time, also while its ends are being set up; what was on its way may
\* still be read, up to some message
Lose(k) ==
    /\ losses < MaxLosses /\ losses' = losses + 1
    /\ link[k] = "up"
    /\ link' = [link EXCEPT ![k] = "down"]
    /\ \E n \in 0..Len(toRelay[k]) :
          toRelay' = [toRelay EXCEPT ![k] = SubSeq(@, 1, n)]
    /\ UNCHANGED <<relayVars, localVars, poolVars, stale>>

-----------------------------------------------------------------------------
(* The relay: RemoteSuperior and its persistent wrapper.                   *)

\* requestProcessor reads a request: latestTask, then Broadcast
ReceiveTask ==
    /\ proc /\ toRelay[cur] # <<>>
    /\ task' = Head(toRelay[cur])
    /\ toRelay' = [toRelay EXCEPT ![cur] = Tail(@)]
    /\ lflight' = lflight \cup {<<c, task'>> : c \in {c \in Locals : lsub[c] # "no"}}
    /\ UNCHANGED <<link, relayVars, lsub, lread, work, poolVars, stale, losses>>

\* ... or an error: the connection has ended, or ctx is done
ProcessorEnds ==
    /\ proc
    /\ halted \/ (link[cur] = "down" /\ toRelay[cur] = <<>>)
    /\ proc' = FALSE
    /\ waiter' = [waiter EXCEPT !["own"] = "start"]
    /\ UNCHANGED <<link, toRelay, cur, old, stopping, stopped, rebirth, halted,
                   localVars, poolVars, stale, losses>>

\* waitStop looks at stopped
LoadStopped(w) ==
    /\ waiter[w] = "start"
    /\ waiter' = [waiter EXCEPT ![w] = IF stopped THEN "no" ELSE "loaded"]
    /\ UNCHANGED <<link, toRelay, cur, old, proc, stopping, stopped, rebirth, halted,
                   localVars, poolVars, stale, losses>>

\* mutant: CompareAndSwap of stopping replaced by a store
StoreStopping(w) ==
    /\ waiter[w] = "loaded"
    /\ waiter' = [waiter EXCEPT ![w] = "wait"]
    /\ stopping' = TRUE
    /\ UNCHANGED <<link, toRelay, cur, old, proc, stopped, rebirth, halted,
                   localVars, poolVars, stale, losses>>

\* ... and swaps stopping: who comes second waits for wg and returns
SwapStopping(w) ==
    /\ waiter[w] = "loaded"
    /\ waiter' = [waiter EXCEPT ![w] = IF stopping THEN "no" ELSE "wait"]
    /\ stopping' = TRUE
    /\ UNCHANGED <<link, toRelay, cur, old, proc, stopped, rebirth, halted,
                   localVars, poolVars, stale, losses>>

\* mutant: nobody is told
AfterStoppedForgotten(w) ==
    /\ waiter[w] = "wait" /\ ~proc
    /\ waiter' = [waiter EXCEPT ![w] = "no"]
    /\ stopped' = TRUE
    /\ UNCHANGED <<link, toRelay, cur, old, proc, stopping, rebirth, halted,
                   localVars, poolVars, stale, losses>>

\* ... and after it: go afterStopped, which is prs.reborn
AfterStopped(w) ==
    /\ waiter[w] = "wait" /\ ~proc
    /\ waiter' = [waiter EXCEPT ![w] = "no"]
    /\ stopped' = TRUE
    /\ rebirth' = "timer"
    /\ UNCHANGED <<link, toRelay, cur, old, proc, stopping, halted,
                   localVars, poolVars, stale, losses>>

Forgotten(k) == /\ link[k] = "down" /\ coll[k] = "none" /\ k \notin members
                /\ listener # k

\* the retry timer fires and Dial succeeds (a failed Dial sets the timer again)
Dial ==
    /\ rebirth = "timer" /\ ~halted
    /\ LET usable == {k \in Conns : link[k] = "free" \/ Forgotten(k)}
           k == Min(usable)
       IN  /\ usable # {}
           /\ link' = [link EXCEPT ![k] = "backlog"]
           /\ toRelay' = [toRelay EXCEPT ![k] = <<>>]
           /\ cur' = k
           /\ old' = IF k = old THEN None ELSE old
    /\ rebirth' = "dialed"
    /\ UNCHANGED <<proc, stopping, stopped, waiter, halted, localVars,
                   poolVars, stale, losses>>

DialGivesUp ==
    /\ rebirth = "timer" /\ halted
    /\ rebirth' = "no"
    /\ UNCHANGED <<link, toRelay, cur, old, proc, stopping, stopped, waiter,
                   halted, localVars, poolVars, stale, losses>>

\* Reborn with the new reader and writer; its own waitStop finds stopped set
Reborn ==
    /\ rebirth = "dialed" /\ stopped
    /\ proc' = TRUE
    /\ rebirth' = "spawned"
    /\ UNCHANGED <<link, toRelay, cur, old, stopping, stopped, waiter, halted,
                   localVars, poolVars, stale, losses>>

\* "reset atomically"
ResetStopping ==
    /\ rebirth = "spawned"
    /\ stopping' = FALSE
    /\ rebirth' = "half"
    /\ UNCHANGED <<link, toRelay, cur, old, proc, stopped, waiter, halted,
                   localVars, poolVars, stale, losses>>

ResetStopped ==
    /\ rebirth = "half"
    /\ stopped' = FALSE
    /\ rebirth' = "no"
    /\ old' = cur
    /\ UNCHANGED <<link, toRelay, cur, proc, stopping, waiter, halted,
                   localVars, poolVars, stale, losses>>

\* prs.waitStop: ctxCanceller, connCanceller, then rsCanceller
Halt ==
    /\ ~halted /\ halted' = TRUE
    /\ link' = [k \in Conns |-> IF k = old THEN "down" ELSE link[k]]
    /\ toRelay' = [k \in Conns |-> IF k = old THEN <<>> ELSE toRelay[k]]
    /\ waiter' = [waiter EXCEPT !["user"] = "start"]
    /\ UNCHANGED <<cur, old, proc, stopping, stopped, rebirth, localVars,
                   poolVars, stale, losses>>

\* a connection made under a context that is done closes at the next ping
HaltedDown ==
    /\ halted /\ link[cur] = "up"
    /\ link' = [link EXCEPT ![cur] = "down"]
    /\ UNCHANGED <<toRelay, relayVars, localVars, poolVars, stale, losses>>

\* LocalCollector subscribes: registers, reads latestTask, sends it to itself
Subscribe(c) ==
    /\ lsub[c] = "no"
    /\ lsub' = [lsub EXCEPT ![c] = "read"]
    /\ lread' = [lread EXCEPT ![c] = task]
    /\ UNCHANGED <<link, toRelay, relayVars, task, lflight, work, poolVars,
                   stale, losses>>

\* a request that comes cancels the one before
Work(c, t) ==
    /\ work' = [work EXCEPT ![c] = IF t = 0 THEN @ ELSE t]
    /\ stale' = (stale \/ (t # 0 /\ t < work[c]))

SubscribeSends(c) ==
    /\ lsub[c] = "read"
    /\ lsub' = [lsub EXCEPT ![c] = "done"]
    /\ Work(c, lread[c])
    /\ lread' = [lread EXCEPT ![c] = 0]
    /\ UNCHANGED <<link, toRelay, relayVars, task, lflight, poolVars, losses>>

\* a worker of the goroutine pool runs one send of a broadcast
RunBroadcast ==
    /\ \E f \in lflight : lflight' = lflight \ {f} /\ Work(f[1], f[2])
    /\ UNCHANGED <<link, toRelay, relayVars, task, lsub, lread, poolVars, losses>>

-----------------------------------------------------------------------------
(* The pool.                                                               *)

\* listenRoutine: Accept, Count, NewRemoteCollector, or cancel when full
Accept ==
    /\ listener = None
    /\ \E k \in Conns :
        /\ link[k] = "backlog"
        /\ IF Cardinality(members) >= MaxCollector
           THEN /\ link' = [link EXCEPT ![k] = "down"]
                /\ UNCHANGED <<coll, listener>>
           ELSE /\ link' = [link EXCEPT ![k] = "up"]
                /\ coll' = [coll EXCEPT ![k] = "new"]
                /\ listener' = k
    /\ UNCHANGED <<toRelay, relayVars, localVars, latest, cread, subs, members,
                   flight, stale, losses>>

\* addCollector: after the collector has been started
AddCollector ==
    /\ listener # None
    /\ members' = members \cup {listener}
    /\ listener' = None
    /\ UNCHANGED <<link, toRelay, relayVars, localVars, latest, coll, cread, subs,
                   flight, stale, losses>>

\* reportProcessor: Subscribe registers it and reads latestTask
CollectorSubscribes(k) ==
    /\ coll[k] = "new"
    /\ coll' = [coll EXCEPT ![k] = "read"]
    /\ cread' = [cread EXCEPT ![k] = latest]
    /\ subs' = subs \cup {k}
    /\ UNCHANGED <<link, toRelay, relayVars, localVars, latest, listener, members,
                   flight, stale, losses>>

Put(k, t) ==
    /\ toRelay' = [toRelay EXCEPT ![k] = IF t = 0 \/ link[k] # "up" THEN @
                                         ELSE Append(@, t)]
    /\ LET ahead == ToSet(toRelay[k]) \cup (IF k = cur THEN {task} ELSE {})
       IN  stale' = (stale \/ (t # 0 /\ link[k] = "up" /\ \E u \in ahead : t < u))

\* mutant: the latest task is not sent to a new collector
CollectorMute(k) ==
    /\ coll[k] = "read"
    /\ coll' = [coll EXCEPT ![k] = "run"]
    /\ UNCHANGED <<link, toRelay, relayVars, localVars, latest, listener, cread,
                   subs, members, flight, stale, losses>>

CollectorSends(k) ==
    /\ coll[k] = "read"
    /\ coll' = [coll EXCEPT ![k] = "run"]
    /\ Put(k, cread[k])
    /\ cread' = [cread EXCEPT ![k] = 0]
    /\ UNCHANGED <<link, relayVars, localVars, latest, listener, subs,
                   members, flight, losses>>

\* the reader has ended with the connection: Unsubscribe, go waitStop
CollectorEnds(k) ==
    /\ coll[k] = "run" /\ link[k] = "down"
    /\ coll' = [coll EXCEPT ![k] = "ended"]
    /\ subs' = subs \ {k}
    /\ UNCHANGED <<link, toRelay, relayVars, localVars, latest, listener, cread,
                   members, flight, stale, losses>>

\* waitStop, afterStopped, removeCollector: nothing when it is not there yet
RemoveCollector(k) ==
    /\ coll[k] = "ended"
    /\ coll' = [coll EXCEPT ![k] = "none"]
    /\ members' = members \ {k}
    /\ flight' = {f \in flight : f[1] # k}
    /\ UNCHANGED <<link, toRelay, relayVars, localVars, latest, listener, cread,
                   subs, stale, losses>>

\* the miner's AddTask: latestTask, Broadcast
AddTask ==
    /\ latest < MaxTask
    /\ latest' = latest + 1
    /\ flight' = flight \cup {<<k, latest'>> : k \in subs}
    /\ UNCHANGED <<link, toRelay, relayVars, localVars, listener, coll, cread,
                   subs, members, stale, losses>>

Carry ==
    /\ \E f \in flight : flight' = flight \ {f} /\ Put(f[1], f[2])
    /\ UNCHANGED <<link, relayVars, localVars, latest, listener, coll, cread,
                   subs, members, losses>>

-----------------------------------------------------------------------------
RelayStep ==
    \/ ReceiveTask \/ ProcessorEnds
    \/ \E w \in Waiters : LoadStopped(w) \/ SwapStopping(w) \/ AfterStopped(w)
    \/ Dial \/ DialGivesUp \/ Reborn \/ ResetStopping \/ ResetStopped
    \/ HaltedDown
    \/ \E c \in Locals : Subscribe(c) \/ SubscribeSends(c)
    \/ RunBroadcast

PoolStep ==
    \/ Accept \/ AddCollector \/ Carry
    \/ \E k \in Conns : \/ CollectorSubscribes(k) \/ CollectorSends(k)
                        \/ CollectorEnds(k) \/ RemoveCollector(k)

RelayNext ==
    \/ RelayStep \/ PoolStep
    \/ Halt \/ AddTask
    \/ \E k \in Conns : Lose(k)

RelaySpec == RelayInit /\ [][RelayNext]_clusterVars

\* Goroutines run, timers fire, dials succeed in the end.  Nobody has to stop
\* the relay, add a task or lose a connection.
RelayLiveSpec ==
    /\ RelaySpec
    /\ WF_clusterVars(ReceiveTask \/ ProcessorEnds)
    /\ \A w \in Waiters : WF_clusterVars(LoadStopped(w) \/ SwapStopping(w) \/ AfterStopped(w))
    /\ WF_clusterVars(Dial \/ DialGivesUp \/ Reborn \/ ResetStopping \/ ResetStopped)
    /\ \A c \in Locals : WF_clusterVars(Subscribe(c) \/ SubscribeSends(c))
    /\ WF_clusterVars(RunBroadcast) /\ WF_clusterVars(Carry)
    /\ WF_clusterVars(Accept \/ AddCollector)
    /\ \A k \in Conns : WF_clusterVars(\/ CollectorSubscribes(k) \/ CollectorSends(k)
                                \/ CollectorEnds(k) \/ RemoveCollector(k))

-----------------------------------------------------------------------------
(* Properties.                                                             *)

\* The pool never holds more collectors than maxCollector, and no more of them run, although
\* Count and addCollector are two critical sections, a collector runs before it is added, and
\* a dead one has its place until removeCollector has run.
PoolBound ==
    /\ Cardinality(members) <= MaxCollector
    /\ Cardinality({k \in Conns : coll[k] # "none"}) <= MaxCollector

\* reborn's stores came after the waitStop of the processor it had just started: the flags
\* say that the relay runs, and nobody is left who would start it again.
Undone == /\ ~proc /\ ~stopping /\ ~stopped
          /\ rebirth = "no" /\ waiter["own"] = "no"

\* A collector that stopped before addCollector put it into the pool has its place for good.
PlaceLost == \E k \in members : coll[k] = "none"

\* A relay whose connection was lost, or refused by a full pool, gets a new one
\* unless it is stopped: the processor that ended is followed by another.  Excepted is one
\* whose waitStop was undone: its connection ended before reborn had reset the flags.
Reconnects == []<>(proc \/ halted \/ Undone)

\* However connections were lost and collectors came late, a local collector
\* ends up working on the miner's latest task: a new connection subscribes and
\* is sent it again.  Excepted are relays that are stopped, a connection lost so early that
\* the relay does not come back or the pool has no place for it any more, and runs in which
\* two sends to the same collector overtook each other, which nothing in the
\* code prevents: Broadcast gives each send to a goroutine of its own, and
\* Subscribe sends what it read of latestTask before.
Converges == <>[](halted \/ stale \/ Undone \/ PlaceLost \/ \A c \in Locals : work[c] = latest)

\* A collector whose connection has ended leaves the pool, and makes room.  Excepted
\* is one that has stopped before addCollector puts it there: it runs from
\* NewRemoteCollector on, its removal finds nothing, and then it is added for good.
DeadRemoved == \A k \in Conns :
    []<>(k \in members /\ coll[k] # "none" => link[k] # "down")

\* A relay that was stopped comes to rest, also when the stop met a reconnect
\* half way: no processor, and nobody who would start one.
HaltRests == <>[](halted => ~proc /\ rebirth = "no")

\* A stopped processor is followed by one reborn and that by one processor: waitStop, which
\* the processor's goroutine and the user may both be in, runs afterStopped once for each
\* life, none waits for the WaitGroup that Reborn replaces, and the waitStop of a processor
\* has come to its end before the next one starts.  So the stores to stopping and stopped
\* of reborn, which come after the new processor has started, undo no waitStop but its own.
OneLife ==
    /\ rebirth \in {"timer", "dialed"} => ~proc
    /\ \A w \in Waiters : waiter[w] = "wait" => rebirth = "no"
    /\ ~(waiter["own"] = "wait" /\ waiter["user"] = "wait")
    /\ waiter["own"] # "no" => ~proc

\* The cluster keeps its bounds: collectors in a pool, lives of a relay.
BoundsKept == PoolBound /\ OneLife

\* A relay is connected again, or it is stopped and stays so; a place in the pool is not lost
\* to a dead collector; but for the two windows in which a connection is lost too early.
Recovers == Reconnects /\ HaltRests /\ DeadRemoved
=============================================================================
