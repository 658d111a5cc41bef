------------------------------- MODULE Miner -------------------------------
(***************************************************************************)
(* The PoC miners (poc/engine/pocminer/miner in mode m1, the same under    *)
(* poc/engine.v2 in mode m2): the goroutine that asks the chain for a      *)
(* template, looks for a proof above the target, has the block signed,     *)
(* waits for the block's time and submits it; its stale monitor; and the   *)
(* channel on which accepted blocks go to the sync manager.  Loop,         *)
(* monitor and submission are the same code twice; v1 takes the proofs of  *)
(* its keeper's mining spaces and searches slot by slot, v2 waits for what *)
(* the collectors report (how it gets there is module Dispatch).           *)
(*                                                                         *)
(* The chain, the sync manager and the clock are external.  Time is        *)
(* counted in slots of pocSlot seconds.  Module Node adds the services     *)
(* and handlers that start, stop and feed the miner.                       *)
(***************************************************************************)
EXTENDS Integers, FiniteSets, Sequences

CONSTANTS
    Spaces,       \* the v1 spaces; each has one proof for the challenge
    Invalid,      \* spaces whose proof has an Error
    Bound,        \* spaces whose key passes the binding check
    Quality,      \* VerifiedQuality of a space's proof at a slot
    Target,       \* pocTemplate.GetTarget at a slot
    AllowAhead,   \* allowAhead: slots v1, or a collector for v2, looks ahead
    Massip2,      \* the height from which v2 mines
    ChanSize,     \* MaxNewBlockChSize
    MaxSlot,      \* bound: slots of the clock
    MaxHeight,    \* bound: height of the chain
    MaxTips       \* bound: how often the best node changes

ASSUME MinerAssumption ==
    /\ Invalid \subseteq Spaces /\ Bound \subseteq Spaces
    /\ AllowAhead \in Nat /\ Massip2 \in Nat /\ ChanSize \in Nat \ {0}
    /\ MaxSlot \in Nat /\ MaxHeight \in Nat /\ MaxTips \in Nat
    /\ Quality \in [Spaces -> [0 .. MaxSlot + AllowAhead -> Nat]]
    /\ Target \in [0 .. MaxSlot + AllowAhead -> Nat]

VARIABLES
    mode,       \* of the process: core, m1 or m2
    now,        \* the clock's slot
    chain,      \* best node: its height, its slot, how many there were before
    miner,      \* PoCMiner: started or not, the goroutine's place
    quit,       \* whether the quit channel the goroutine was given is closed
    round,      \* its template, the slot it works on, the space it chose
    stale,      \* the round's stale monitor
    mined,      \* minedHeight
    newBlocks,  \* newBlockCh
    sent,       \* how many blocks the sync manager has taken from it
    own,        \* blocks of this miner the chain accepted, in order
    sync,       \* the sync manager: new, running, stopped
    keeper,     \* the keeper: stopped, running, stopping, or for ever in its OnStop
    mining,     \* the v1 spaces in state Mining
    locked      \* whether the wallet is locked

chainVars == <<now, chain>>
roundVars == <<round, stale>>
outVars   == <<mined, newBlocks, sent, own>>
envVars   == <<mode, sync, keeper, mining, locked>>
minerVars == <<now, chain, miner, quit, round, stale, mined, newBlocks, sent,
               own, mode, sync, keeper, mining, locked>>

NoRound == [height |-> 0, tip |-> 0, from |-> 0, slot |-> 0, proof |-> {},
            all |-> {}, got |-> {}]

MinerPC == {"none", "spawned", "loop", "template", "monitor", "search", "sign",
            "submit", "send", "hung"}

MinerTypeOK ==
    /\ mode \in {"core", "m1", "m2"}
    /\ now \in 0 .. MaxSlot
    /\ chain \in [height : Nat, tip : 0 .. MaxTips, slot : Nat]
    /\ miner \in [svc : {"stopped", "running", "stopping"}, pc : MinerPC]
    /\ quit \in BOOLEAN
    /\ DOMAIN round = DOMAIN NoRound
    /\ stale \in {"off", "watching", "late", "notified", "stale"}
    /\ mined \in SUBSET Nat
    /\ Len(newBlocks) <= ChanSize
    /\ sent \in Nat
    /\ sync \in {"new", "running", "stopped"}
    /\ keeper \in {"stopped", "running", "stopping", "hung"}
    /\ mining \in SUBSET Spaces
    /\ locked \in BOOLEAN

\* the clock and the count of best nodes stand anywhere when the process starts;
\* v1's keeper unlocks the wallet when it is made, if it is given the passphrase;
\* the other modes have a wallet that is no more than the flag
MinerInit(m, clock, tip, password) ==
    /\ mode = m
    /\ now = clock
    /\ chain = [height |-> 0, tip |-> tip, slot |-> 0]
    /\ miner = [svc |-> "stopped", pc |-> "none"]
    /\ quit = FALSE
    /\ round = NoRound /\ stale = "off"
    /\ mined = {} /\ newBlocks = <<>> /\ sent = 0 /\ own = <<>>
    /\ sync = "new" /\ keeper = "stopped"
    /\ mining = {} /\ locked = (m = "m1" /\ ~password)

-----------------------------------------------------------------------------
(* External: clock, network, sync manager.                                 *)

Tick ==
    /\ now < MaxSlot
    /\ now' = now + 1
    /\ UNCHANGED <<chain, miner, quit, roundVars, outVars, envVars>>

\* the chain tells the monitor's BlockWaiter that the best node changed
Notify == stale' = IF stale \in {"watching", "late"} THEN "notified" ELSE stale

\* a block of another node: on top, or a better one of the same height
BestChanges ==
    /\ sync = "running" /\ chain.tip < MaxTips
    /\ \/ /\ chain.height > 0
          /\ chain' = [chain EXCEPT !.tip = @ + 1]
       \/ /\ chain.height < MaxHeight /\ now > chain.slot
          /\ chain' = [height |-> chain.height + 1, tip |-> chain.tip + 1,
                       slot |-> now]
    /\ Notify
    /\ UNCHANGED <<now, miner, quit, round, outVars, envVars>>

\* the sync manager broadcasts an own block
Broadcast ==
    /\ sync = "running" /\ newBlocks # <<>>
    /\ newBlocks' = Tail(newBlocks) /\ sent' = sent + 1
    /\ UNCHANGED <<chainVars, miner, quit, roundVars, mined, own, envVars>>

-----------------------------------------------------------------------------
(* generateBlocks.                                                         *)

Go(pc) == miner' = [miner EXCEPT !.pc = pc]

\* solveBlock failed: the deferred cancelMonitor, then the loop again
GiveUp == Go("loop") /\ round' = NoRound /\ stale' = "off"

\* wg.Add(1), in the goroutine
Begin ==
    /\ miner.pc = "spawned"
    /\ Go("loop")
    /\ UNCHANGED <<chainVars, quit, roundVars, outVars, envVars>>

\* the loop's select
Exit ==
    /\ miner.pc = "loop" /\ quit
    /\ Go("none")
    /\ UNCHANGED <<chainVars, quit, roundVars, outVars, envVars>>

\* Steps 1 and 2: a template on the best node, from the slot after its own; the
\* wait for peers (or allowSolo) comes before it
Template ==
    /\ miner.pc = "loop" /\ ~quit
    /\ chain.height < MaxHeight
    /\ mode = "m2" => chain.height + 1 >= Massip2
    /\ round' = [NoRound EXCEPT !.height = chain.height + 1, !.tip = chain.tip,
                                !.from = chain.slot + 1,
                                !.slot = chain.slot + 1]
    /\ Go("template")
    /\ UNCHANGED <<chainVars, quit, stale, outVars, envVars>>

\* Step 3, and runStaleMonitor's look at the best node
MayMine == round.height \notin mined /\ round.tip = chain.tip

CheckTip ==
    /\ miner.pc = "template"
    /\ IF MayMine THEN Go("monitor") /\ UNCHANGED roundVars ELSE GiveUp
    /\ UNCHANGED <<chainVars, quit, outVars, envVars>>

\* runStaleMonitor asks for a BlockWaiter: from here on the monitor waits for another best
\* node.  What the chain says of one that came since the look is the chain's affair.
Watch == IF round.tip = chain.tip THEN stale' = "watching"
         ELSE stale' \in {"late", "notified"}

Usable(spaces) == (spaces \ Invalid) \cap Bound

\* Step 4: the monitor is started, the mining spaces are asked; or there is no BlockWaiter
Proofs ==
    /\ miner.pc = "monitor" /\ mode = "m1"
    /\ \/ /\ keeper # "stopped" /\ Usable(mining) # {}
          /\ Go("search")
          /\ round' = [round EXCEPT !.all = Usable(mining)]
          /\ Watch
       \/ GiveUp
    /\ UNCHANGED <<chainVars, quit, outVars, envVars>>

\* Bug: the monitor waits again instead of setting stale
MonitorWaitsAgain ==
    /\ stale = "notified"
    /\ stale' = "watching"
    /\ UNCHANGED <<chainVars, miner, quit, round, outVars, envVars>>

\* the new node is better (it became the best one): the flag is set
Monitor ==
    /\ stale = "notified"
    /\ stale' = "stale"
    /\ UNCHANGED <<chainVars, miner, quit, round, outVars, envVars>>

\* Bug: the best of the slots so far, not of the slot the block is made for
BestOfAll(s, slot) ==
    \A t \in round.all : \E i \in round.from .. slot :
      Quality[t][slot] <= Quality[s][i]

\* the best quality at a slot, by the first space that has it
BestAt(s, slot) == \A t \in round.all : Quality[t][slot] <= Quality[s][slot]

\* syncGetBestProof: one slot of the search, up to now + allowAhead (and to where
\* the clock gets); quit and stale are looked at before every slot
Search ==
    /\ miner.pc = "search" /\ mode = "m1" /\ ~quit /\ stale # "stale"
    /\ round.slot <= now + AllowAhead /\ round.slot < MaxSlot
    /\ \E s \in round.all :
         /\ BestAt(s, round.slot)
         /\ IF Quality[s][round.slot] > Target[round.slot]
            THEN /\ Go("sign")
                 /\ round' = [round EXCEPT !.proof = {s}]
                 /\ stale' = "off"
            ELSE /\ round' = [round EXCEPT !.slot = @ + 1]
                 /\ UNCHANGED <<miner, stale>>
    /\ UNCHANGED <<chainVars, quit, outVars, envVars>>

\* Step 4 of v2: the monitor is started, the collectors get a task
Task ==
    /\ miner.pc = "monitor" /\ mode = "m2"
    /\ \/ Go("search") /\ Watch /\ UNCHANGED round
       \/ GiveUp
    /\ UNCHANGED <<chainVars, quit, outVars, envVars>>

\* the earlier slot, then the higher quality
Better(r, b) ==
    \/ r.slot < b.slot
    \/ r.slot = b.slot /\ Quality[r.space][r.slot] > Quality[b.space][b.slot]

\* a collector has the quality of space s at slot i reported: kept if it is above
\* the target, bound and better than the best so far
Report(s, i) ==
    LET r == [space |-> s, slot |-> i]
    IN  /\ miner.pc = "search" /\ mode = "m2"
        /\ i \in round.from .. now + AllowAhead /\ i < MaxSlot
        /\ s \in Bound /\ Quality[s][i] > Target[i] /\ r \notin round.got
        /\ round' = IF \A b \in round.proof : Better(r, [space |-> b, slot |-> round.slot])
                    THEN [round EXCEPT !.got = @ \cup {r}, !.proof = {s}, !.slot = i]
                    ELSE [round EXCEPT !.got = @ \cup {r}]
        /\ UNCHANGED <<chainVars, miner, quit, stale, outVars, envVars>>

\* the ticker: the best report's slot has come (Add(allowAhead) adds nanoseconds)
BestCame == stale # "stale" /\ round.proof # {} /\ now >= round.slot

\* the collector is asked for the proof, and answers or is too late
ProofOfBest ==
    /\ miner.pc = "search" /\ mode = "m2" /\ BestCame
    /\ \/ Go("sign") /\ stale' = "off" /\ UNCHANGED round
       \/ GiveUp
    /\ UNCHANGED <<chainVars, quit, outVars, envVars>>

\* errQuitSolveBlock of the search
SearchEnds ==
    /\ miner.pc = "search" /\ (quit \/ stale = "stale")
    /\ GiveUp
    /\ UNCHANGED <<chainVars, quit, outVars, envVars>>

\* v2 leaves a task with RemoveTask, which may wait for ever for taskCacheLock: a report's
\* handler has it and waits for room in the task's channel (Dispatch!Jammed)
Hangs ==
    /\ mode = "m2"
    /\ \/ miner.pc = "search" /\ (quit \/ stale = "stale" \/ BestCame)
       \/ miner.pc = "sign"
    /\ Go("hung")
    /\ UNCHANGED <<chainVars, quit, roundVars, outVars, envVars>>

\* getTemplate gives up when it is told to quit before the template came
TemplateQuits ==
    /\ miner.pc \in {"template", "sign"} /\ quit
    /\ GiveUp
    /\ UNCHANGED <<chainVars, quit, outVars, envVars>>

\* Steps 5 to 7 of v1: the block is put together and signed, if the wallet can
Sign ==
    /\ miner.pc = "sign" /\ mode = "m1"
    /\ IF locked THEN GiveUp ELSE Go("submit") /\ UNCHANGED roundVars
    /\ UNCHANGED <<chainVars, quit, outVars, envVars>>

\* Steps 5 to 8 of v2: signed by the collector, if it answers in time, and with
\* the farmer's key, if the keystore has one for the plot's pool
CollectorSigns ==
    /\ miner.pc = "sign" /\ mode = "m2"
    /\ (Go("submit") /\ UNCHANGED roundVars) \/ GiveUp
    /\ UNCHANGED <<chainVars, quit, outVars, envVars>>

\* submitBlock waits until the block's timestamp has passed
TimeCame == now > round.slot

\* ProcessBlock: the chain rejects the block, or accepts it, as the best one
\* if it was built on the best one, else perhaps on a side chain
Process ==
    /\ miner.pc = "submit" /\ TimeCame
    /\ \/ GiveUp /\ UNCHANGED <<chain, own>>
       \/ /\ Go("send")
          /\ own' = Append(own, [height |-> round.height, slot |-> round.slot,
                                 at |-> now])
          /\ \/ /\ chain.tip < MaxTips
                /\ chain' = [height |-> round.height, tip |-> chain.tip + 1,
                             slot |-> round.slot]
             \/ round.tip # chain.tip /\ UNCHANGED chain
          /\ UNCHANGED roundVars
    /\ UNCHANGED <<now, quit, mined, newBlocks, sent, envVars>>

\* Bug: the height is not remembered
SendForgets ==
    /\ miner.pc = "send" /\ Len(newBlocks) < ChanSize
    /\ newBlocks' = Append(newBlocks, round.height)
    /\ GiveUp
    /\ UNCHANGED <<chainVars, quit, mined, sent, own, envVars>>

\* the send to newBlockCh, which quit does not interrupt, then minedHeight
Send ==
    /\ miner.pc = "send" /\ Len(newBlocks) < ChanSize
    /\ newBlocks' = Append(newBlocks, round.height)
    /\ mined' = mined \cup {round.height}
    /\ GiveUp
    /\ UNCHANGED <<chainVars, quit, sent, own, envVars>>

Reported == \E s \in Spaces, i \in 0 .. MaxSlot : Report(s, i)

MinerStep == \/ Begin \/ Exit \/ Template \/ CheckTip \/ Proofs \/ Search \/ SearchEnds
             \/ Task \/ ProofOfBest \/ Hangs \/ Sign \/ CollectorSigns \/ TemplateQuits
             \/ Process \/ Send

-----------------------------------------------------------------------------
(* Properties.                                                             *)

\* "prevent double-mining": whatever the chain switches to, and although the
\* height is noted only once the block has been handed to the sync manager, the
\* miner never has two blocks of one height accepted, in one life of the process.
OncePerHeight ==
    \A i, j \in DOMAIN own : own[i].height = own[j].height => i = j

\* The space v1 makes a block with is the best of all usable ones at the block's
\* slot and above its target, and at no earlier slot of the round was any space
\* above the target: the block is the earliest this miner could make.  For v2 the
\* same holds of what the collectors have reported, in whatever order.  No block
\* reaches the chain before its own time.
EarliestBest ==
    /\ mode = "m1" /\ round.proof # {} =>
         /\ \A s \in round.proof :
              /\ Quality[s][round.slot] > Target[round.slot]
              /\ \A t \in round.all :
                   Quality[t][round.slot] <= Quality[s][round.slot]
         /\ \A i \in round.from .. round.slot - 1, t \in round.all :
              Quality[t][i] <= Target[i]
    /\ \A r \in round.got, s \in round.proof :
         /\ round.slot <= r.slot
         /\ round.slot = r.slot => Quality[r.space][r.slot] <= Quality[s][r.slot]
    /\ \A i \in DOMAIN own : own[i].at > own[i].slot

\* Every own block the chain accepted is broadcast, unless the sync manager
\* was stopped.
OwnBroadcast == []<>(sent = Len(own) \/ sync = "stopped")
=============================================================================
