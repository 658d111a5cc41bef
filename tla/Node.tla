-------------------------------- MODULE Node --------------------------------
(***************************************************************************)
(* A node: the process (mass.go, server/), the gRPC handlers that act on   *)
(* the services (api/), and the miner of module Miner.  The handlers run   *)
(* concurrently; a step is one call into a service, so that what a handler *)
(* read may have changed when it acts on it.  A mode gets a stand-in       *)
(* (mining/) for each service it does not have, and the handlers do not    *)
(* look at the mode: in m2 they have v2's miner, and stand-ins for v1's    *)
(* keeper and its wallet.                                                  *)
(*                                                                         *)
(* BaseService is external: Start runs OnStart if the service is stopped,  *)
(* Stop runs OnStop if it is running, Started is true in between.  The     *)
(* keeper's inside is module SpaceKeeper, the wallet's module Keystore.    *)
(***************************************************************************)
EXTENDS Miner

CONSTANTS
    Handlers,     \* goroutines of the gRPC server
    Configs,      \* mode, and configuration files: miner.plot, miner.generate, whether
                  \* there are miner.payout_addresses and miner.private_password
    MaxRequests,  \* bound: requests made
    Starts        \* bounds: how a process may begin, and how far the clock, the
                  \* best nodes and the requests are counted then

ASSUME NodeAssumption ==
    /\ Configs \subseteq [mode : {"core", "m1", "m2"}, plot : BOOLEAN, generate : BOOLEAN,
                          payout : BOOLEAN, password : BOOLEAN]
    /\ MaxRequests \in Nat
    /\ Starts \subseteq [cfg : Configs, now : 0 .. MaxSlot, tip : 0 .. MaxTips,
                         requests : 0 .. MaxRequests]

VARIABLES
    cfg,         \* the configuration file
    proc,        \* massMain: what it does next
    shutdown,    \* Server.shutdown: srv.Stop was called
    configured,  \* SpaceKeeper.configured
    queued,      \* the spaces the keeper's plotter is to take to mining
    payout,      \* whether the miner has payout addresses
    handler,     \* the request each handler works on, and where it is
    requests     \* requests made so far

apiVars == <<cfg, configured, queued, payout, handler, requests>>
vars == <<now, chain, miner, quit, round, stale, mined, newBlocks, sent, own,
          mode, sync, keeper, mining, locked, cfg, proc, shutdown, configured,
          queued, payout, handler, requests>>

Requests == {"Configure", "Plot", "Mine", "Stop", "StopOne", "Unlock", "Lock",
             "Quit"}

\* alone: no other handler has worked since this one began
Free == [req |-> "none", pc |-> "idle", alone |-> TRUE]

ProcPC == {"new", "keeper", "miner", "api", "running", "stopMiner",
           "waitMiner", "stopKeeper", "waitKeeper", "stopSync", "exited"}

TypeOK ==
    /\ MinerTypeOK
    /\ proc \in ProcPC
    /\ shutdown \in BOOLEAN /\ configured \in BOOLEAN /\ payout \in BOOLEAN
    /\ handler \in [Handlers ->
                      [req : Requests \cup {"none"},
                       pc : {"idle", "begin", "keeper", "stop", "wait",
                             "unlock", "configure", "act"},
                       alone : BOOLEAN]]
    /\ queued \in SUBSET Spaces
    /\ requests \in 0 .. MaxRequests

\* whether the handlers' keeper is the real one
V1 == mode = "m1"

\* CoreServer has a stand-in for every service, and its Start starts the API only
HasServices == mode # "core"

\* CheckConfig: who is to mine at once needs an address to be paid at
CheckConfig(c) == c.generate => c.payout

\* with the passphrase, the keeper's constructor has configured what it found
Init ==
    /\ \E b \in Starts : /\ CheckConfig(b.cfg)
                         /\ MinerInit(b.cfg.mode, b.now, b.tip, b.cfg.password)
                         /\ cfg = b.cfg /\ requests = b.requests
    /\ proc = "new"
    /\ shutdown = FALSE
    /\ configured = (V1 /\ cfg.password) /\ payout = cfg.payout
    /\ queued = IF V1 /\ cfg.password /\ cfg.generate THEN Spaces ELSE {}
    /\ handler = [h \in Handlers |-> Free]

-----------------------------------------------------------------------------
(* The services, as the process and the handlers use them.                 *)

MinerStarted  == miner.svc # "stopped"

\* SpaceKeeper.OnStop, up to wg.Wait
StopsKeeper == keeper' = IF keeper = "running" THEN "stopping" ELSE keeper

KeeperGone == keeper \notin {"stopping", "hung"}

\* ... which returns when the plotter has ended and emptied its queue, or never
\* (SpaceKeeper!StopReturns says when)
KeeperStops ==
    /\ keeper = "stopping"
    /\ \/ keeper' = "stopped" /\ queued' = {}
       \/ V1 /\ keeper' = "hung" /\ UNCHANGED queued
    /\ UNCHANGED <<chainVars, miner, quit, roundVars, outVars, mode, sync, mining,
                   locked, cfg, proc, shutdown, configured, payout, handler,
                   requests>>

\* a queued space is plotted and goes to mining
KeeperMines ==
    /\ keeper # "stopped"
    /\ \E s \in queued : mining' = mining \cup {s} /\ queued' = queued \ {s}
    /\ UNCHANGED <<chainVars, miner, quit, roundVars, outVars, mode, sync, keeper,
                   locked, cfg, proc, shutdown, configured, payout, handler,
                   requests>>

\* SpaceKeeper.OnStart, which fails in v1 when the wallet is locked
KeeperStarts ==
    IF keeper = "stopped" /\ (V1 => ~locked) THEN "running" ELSE keeper

\* PoCMiner.OnStart, which starts the keeper if need be; without an address or a
\* keeper it fails and the caller does not look
StartMiner ==
    IF miner.svc = "stopped" /\ HasServices /\ payout /\ KeeperStarts # "stopped"
    THEN /\ miner' = [svc |-> "running", pc |-> "spawned"]
         /\ quit' = FALSE
         /\ keeper' = KeeperStarts
    ELSE UNCHANGED <<miner, quit, keeper>>

\* PoCMiner.OnStop, up to wg.Wait
StopMiner ==
    IF miner.svc = "running"
    THEN /\ miner' = [miner EXCEPT !.svc = "stopping"]
         /\ quit' = TRUE
    ELSE UNCHANGED <<miner, quit>>

\* the goroutine counts in wg from its wg.Add(1) to its end; one that was only
\* spawned finds its own quit closed when it begins
MinerGone == miner.pc \in {"none", "spawned"}

StopReturned ==
    IF miner.svc = "stopping" THEN miner' = [miner EXCEPT !.svc = "stopped"]
    ELSE UNCHANGED miner

-----------------------------------------------------------------------------
(* massMain.                                                               *)

Main(from, to) == proc = from /\ proc' = to

SrvStart ==
    /\ Main("new", "keeper")
    /\ sync' = "running"
    /\ UNCHANGED <<chainVars, miner, quit, roundVars, outVars, mode, keeper, mining,
                   locked, shutdown, apiVars>>

\* MinerServerV1.Start, MinerServerV2.Start, CoreServer.Start; the API comes last
StartKeeper ==
    /\ Main("keeper", "miner")
    /\ keeper' = IF cfg.plot /\ HasServices THEN KeeperStarts ELSE keeper
    /\ UNCHANGED <<chainVars, miner, quit, roundVars, outVars, mode, sync, mining,
                   locked, shutdown, apiVars>>

StartMinerMain ==
    /\ Main("miner", "running")
    /\ IF cfg.generate THEN StartMiner ELSE UNCHANGED <<miner, quit, keeper>>
    /\ UNCHANGED <<chainVars, roundVars, outVars, mode, sync, mining, locked,
                   shutdown, apiVars>>

\* an interrupt: the API is stopped, which does not wait for its handlers
Interrupt ==
    /\ Main("running", "stopMiner")
    /\ UNCHANGED <<minerVars, shutdown, apiVars>>

ServerStopMiner ==
    /\ Main("stopMiner", "waitMiner")
    /\ StopMiner
    /\ UNCHANGED <<chainVars, roundVars, outVars, envVars, shutdown, apiVars>>

ServerWaitMiner ==
    /\ Main("waitMiner", "stopKeeper")
    /\ (miner.svc = "stopping" => MinerGone)
    /\ StopReturned
    /\ UNCHANGED <<chainVars, quit, roundVars, outVars, envVars, shutdown,
                   apiVars>>

ServerStopKeeper ==
    /\ Main("stopKeeper", "waitKeeper")
    /\ StopsKeeper
    /\ UNCHANGED <<chainVars, miner, quit, roundVars, outVars, mode, sync, mining,
                   locked, shutdown, apiVars>>

ServerWaitKeeper ==
    /\ Main("waitKeeper", "stopSync") /\ KeeperGone
    /\ UNCHANGED <<minerVars, shutdown, apiVars>>

\* Server.Stop, which runs once; then massMain returns
ServerStopSync ==
    /\ Main("stopSync", "exited")
    /\ sync' = "stopped" /\ shutdown' = TRUE
    /\ UNCHANGED <<chainVars, miner, quit, roundVars, outVars, mode, keeper, mining,
                   locked, apiVars>>

\* the goroutine QuitClient starts: only the sync manager is stopped
QuitStops ==
    /\ shutdown /\ sync = "running"
    /\ sync' = "stopped"
    /\ UNCHANGED <<chainVars, miner, quit, roundVars, outVars, mode, keeper, mining,
                   locked, proc, shutdown, apiVars>>

-----------------------------------------------------------------------------
(* Handlers.  While the process runs any request may come in; one that is  *)
(* under way when the process stops goes on until the process is gone.     *)

Others(h) == {g \in Handlers \ {h} : handler[g].pc # "idle"}

\* a request gets a goroutine of its own, no matter which
Request(h) ==
    /\ proc = "running" /\ requests < MaxRequests
    /\ handler[h] = Free /\ h = CHOOSE g \in Handlers : handler[g] = Free
    /\ requests' = requests + 1
    /\ \E req \in Requests :
         handler' = [g \in Handlers |->
                       IF g = h THEN [req |-> req, pc |-> "begin",
                                      alone |-> Others(h) = {}]
                       ELSE [handler[g] EXCEPT
                               !.alone = @ /\ g \notin Others(h)]]
    /\ UNCHANGED <<minerVars, proc, shutdown, cfg, configured, queued, payout>>

At(h, reqs, pc) ==
    /\ proc # "exited"
    /\ handler[h].req \in reqs /\ handler[h].pc = pc

To(h, pc) == handler' = [handler EXCEPT ![h].pc = pc]

Done(h) == handler' = [handler EXCEPT ![h] = Free]

\* ConfigureCapacity(ByDirs): refused while the keeper runs; the addresses are
\* set before the passphrase is looked at.  The stand-in for the keeper has no
\* room, and the one for the miner takes no addresses; a request without
\* directories asks for no room
ConfigureBegin(h) ==
    /\ At(h, {"Configure"}, "begin")
    /\ \/ /\ (V1 => keeper # "stopped")
          /\ Done(h) /\ UNCHANGED payout
       \/ /\ mode = "m2" \/ (V1 /\ keeper = "stopped")
          /\ To(h, "unlock") /\ payout' = TRUE
    /\ UNCHANGED <<minerVars, proc, shutdown, cfg, configured, queued,
                   requests>>

\* Unlock with the request's passphrase, of Configure and of UnlockWallet
Unlocks(h) ==
    /\ At(h, {"Configure"}, "unlock") \/ At(h, {"Unlock"}, "begin")
    /\ \/ Done(h) /\ UNCHANGED locked
       \/ /\ locked' = FALSE
          /\ IF handler[h].req = "Configure" THEN To(h, "configure")
             ELSE Done(h)
    /\ UNCHANGED <<chainVars, miner, quit, roundVars, outVars, mode, sync, keeper,
                   mining, proc, shutdown, cfg, configured, queued, payout,
                   requests>>

\* ConfigureBySize or ConfigureByPath, which look at Started and the lock again:
\* the spaces in use are chosen anew, any of the mining ones may be left out; one that
\* fails leaves the keeper without a configuration
Configures(h) ==
    /\ At(h, {"Configure"}, "configure")
    /\ IF ~V1 \/ keeper # "stopped" \/ locked THEN UNCHANGED <<configured, mining>>
       ELSE configured' \in BOOLEAN /\ mining' \in SUBSET mining
    /\ Done(h)
    /\ UNCHANGED <<chainVars, miner, quit, roundVars, outVars, mode, sync, keeper,
                   locked, proc, shutdown, cfg, queued, payout, requests>>

\* Plot- and MineCapacitySpace(s): start what is not started
StartFor(h) ==
    /\ At(h, {"Plot", "Mine"}, "begin")
    /\ IF ~configured THEN Done(h) /\ UNCHANGED <<miner, quit, keeper>>
       ELSE /\ To(h, "act")
            /\ IF handler[h].req = "Plot"
               THEN keeper' = KeeperStarts /\ UNCHANGED <<miner, quit>>
               ELSE IF MinerStarted THEN UNCHANGED <<miner, quit, keeper>>
                    ELSE StartMiner
    /\ UNCHANGED <<chainVars, roundVars, outVars, mode, sync, mining, locked, proc,
                   shutdown, cfg, configured, queued, payout, requests>>

\* actOnWorkSpace(s): a plotted space is mined at once, another one is queued
Acts(h) ==
    /\ At(h, {"Plot", "Mine"}, "act")
    /\ IF handler[h].req = "Plot" THEN UNCHANGED <<mining, queued>>
       ELSE \E new \in SUBSET Spaces :
              /\ mining' = mining \cup new
              /\ queued' = queued \cup (Spaces \ (mining \cup new))
    /\ Done(h)
    /\ UNCHANGED <<chainVars, miner, quit, roundVars, outVars, mode, sync, keeper,
                   locked, proc, shutdown, cfg, configured, payout, requests>>

\* StopCapacitySpaces: the keeper, then the miner, then the spaces
StopKeeper(h) ==
    /\ At(h, {"Stop"}, "begin")
    /\ IF V1 THEN StopsKeeper ELSE UNCHANGED keeper
    /\ To(h, "keeper")
    /\ UNCHANGED <<chainVars, miner, quit, roundVars, outVars, mode, sync, mining,
                   locked, proc, shutdown, cfg, configured, queued, payout, requests>>

KeeperStopped(h) ==
    /\ At(h, {"Stop"}, "keeper") /\ (V1 => KeeperGone)
    /\ To(h, "stop")
    /\ UNCHANGED <<minerVars, proc, shutdown, cfg, configured, queued, payout, requests>>

\* StopCapacitySpace: one space, then the miner if none is left
StopOne(h) ==
    /\ At(h, {"StopOne"}, "begin")
    /\ \E s \in Spaces :
         /\ mining' = mining \ {s} /\ queued' = queued \ {s}
         /\ IF V1 /\ mining \ {s} = {} THEN To(h, "stop") ELSE Done(h)
    /\ UNCHANGED <<chainVars, miner, quit, roundVars, outVars, mode, sync, keeper,
                   locked, proc, shutdown, cfg, configured, payout, requests>>

StopsMiner(h) ==
    /\ At(h, {"Stop", "StopOne"}, "stop")
    /\ StopMiner
    /\ To(h, "wait")
    /\ UNCHANGED <<chainVars, roundVars, outVars, envVars, proc, shutdown,
                   cfg, configured, queued, payout, requests>>

\* Bug: the spaces are left mining
StoppedKeepsMining(h) ==
    /\ At(h, {"Stop", "StopOne"}, "wait")
    /\ (miner.svc = "stopping" => MinerGone)
    /\ StopReturned
    /\ Done(h)
    /\ UNCHANGED <<chainVars, quit, roundVars, outVars, envVars, proc,
                   shutdown, cfg, configured, queued, payout, requests>>

\* the miner has stopped; StopCapacitySpaces then stops every space
Stopped(h) ==
    /\ At(h, {"Stop", "StopOne"}, "wait")
    /\ (miner.svc = "stopping" => MinerGone)
    /\ StopReturned
    /\ IF handler[h].req = "Stop" THEN mining' = {} /\ queued' = {}
       ELSE UNCHANGED <<mining, queued>>
    /\ Done(h)
    /\ UNCHANGED <<chainVars, quit, roundVars, outVars, mode, sync, keeper, locked,
                   proc, shutdown, cfg, configured, payout, requests>>

\* LockWallet: refused while the miner is started
LockBegin(h) ==
    /\ At(h, {"Lock"}, "begin")
    /\ IF locked \/ MinerStarted THEN Done(h) ELSE To(h, "act")
    /\ UNCHANGED <<minerVars, proc, shutdown, cfg, configured, queued, payout,
                   requests>>

Locks(h) ==
    /\ At(h, {"Lock"}, "act")
    /\ locked' = TRUE
    /\ Done(h)
    /\ UNCHANGED <<chainVars, miner, quit, roundVars, outVars, mode, sync, keeper,
                   mining, proc, shutdown, cfg, configured, queued, payout,
                   requests>>

QuitClient(h) ==
    /\ At(h, {"Quit"}, "begin")
    /\ shutdown' = TRUE
    /\ Done(h)
    /\ UNCHANGED <<minerVars, proc, cfg, configured, queued, payout, requests>>

HandlerStep(h) ==
    \/ ConfigureBegin(h) \/ Unlocks(h) \/ Configures(h)
    \/ StartFor(h) \/ Acts(h)
    \/ StopKeeper(h) \/ KeeperStopped(h) \/ StopOne(h) \/ StopsMiner(h) \/ Stopped(h)
    \/ LockBegin(h) \/ Locks(h) \/ QuitClient(h)

MainStep == \/ SrvStart \/ StartKeeper \/ StartMinerMain \/ ServerStopMiner
            \/ ServerWaitMiner \/ ServerStopKeeper \/ ServerWaitKeeper
            \/ ServerStopSync

\* nothing of the process moves once it has exited
Alive == proc # "exited"

NodeKeeps == UNCHANGED <<proc, shutdown, apiVars>>

Next ==
    \/ MainStep \/ Interrupt
    \/ Alive /\ (QuitStops \/ KeeperMines \/ KeeperStops)
    \/ \E h \in Handlers : Request(h) \/ HandlerStep(h)
    \/ /\ Alive
       /\ MinerStep \/ Reported \/ Monitor \/ Broadcast \/ BestChanges \/ Tick
       /\ NodeKeeps

Spec == Init /\ [][Next]_vars

Scheduled(A) == Alive /\ A /\ NodeKeeps

\* Goroutines are scheduled, the clock runs, the sync manager drains its
\* channel; nobody has to send a request, interrupt or find a block.
Fairness ==
    /\ WF_vars(MainStep) /\ WF_vars(Alive /\ QuitStops)
    /\ WF_vars(Alive /\ KeeperMines) /\ WF_vars(Alive /\ KeeperStops)
    /\ \A h \in Handlers : WF_vars(HandlerStep(h))
    /\ WF_vars(Scheduled(MinerStep)) /\ WF_vars(Scheduled(Monitor))
    /\ WF_vars(Scheduled(Broadcast)) /\ WF_vars(Scheduled(Tick))

FairSpec == Spec /\ Fairness

-----------------------------------------------------------------------------
(* Properties.                                                             *)

\* A round on a node that is no longer the best one is given up while it
\* searches, by way of the monitor: better blocks are not raced.  Excepted is a node that
\* came after the monitor's look at the best one and before it had its BlockWaiter.
StaleGivesUp ==
    []<>(miner.pc # "search" \/ round.tip = chain.tip \/ stale = "late" \/ ~Alive)

\* A StopCapacitySpaces that no other request overlapped leaves nothing at work:
\* when it returns, keeper and miner are stopped, no space is mining, and no
\* goroutine of the miner is left but one that is about to find its quit closed.
\* In mode m2 the same request stops v2's miner, and leaves v2's keeper.
StopAllStops ==
    [][\A h \in Handlers :
         (/\ handler[h].req = "Stop" /\ handler[h].alone
          /\ proc = "running"
          /\ handler'[h].pc = "idle")
         => /\ (V1 => keeper' = "stopped") /\ mining' = {}
            /\ miner'.svc = "stopped"
            /\ miner'.pc = "none" \/ (miner'.pc \in {"spawned", "loop"} /\ quit')
      ]_vars

Stopping == {"stopMiner", "waitMiner", "stopKeeper", "waitKeeper", "stopSync"}

\* Somebody is in a call of another component that never returns.
Hung == keeper = "hung" \/ miner.pc = "hung"

\* An interrupted process ends: Stop comes back from every service, wherever the
\* miner was, as long as QuitClient has not taken the sync manager away, v1's keeper comes
\* back from OnStop and v2's miner from RemoveTask.
Exits == []<>(proc \notin Stopping \/ shutdown \/ Hung)

\* Every handler comes to its end, under the same conditions or with the process.
Replies ==
    \A h \in Handlers : []<>(handler[h].pc = "idle" \/ shutdown \/ Hung \/ ~Alive)

\* What a node begins comes to its end: a round on a node that is not the best
\* one any more, the broadcast of an accepted block, a request, the process.
WorkEnds == StaleGivesUp /\ OwnBroadcast /\ Replies /\ Exits
=============================================================================
