----------------------------- MODULE NodeProofs -----------------------------
(***************************************************************************)
(* The safety of the PoC miner in its node, for any spaces, qualities,     *)
(* targets, requests and configurations: NodeInv is inductive.  The clock, *)
(* the chain and the requests are bounded by constants of any size.        *)
(***************************************************************************)
EXTENDS Node, SequenceTheorems, TLAPS

-----------------------------------------------------------------------------
(* The inductive invariant.                                                *)

Block == [height : Nat, slot : Nat, at : Nat]

\* What TypeOK leaves open of a round and of the blocks.
RoundTyped ==
    /\ round \in [height : Nat, tip : Nat, from : Nat, slot : Nat,
                  proof : SUBSET Spaces, all : SUBSET Spaces,
                  got : SUBSET [space : Spaces, slot : 0 .. MaxSlot]]
    /\ own \in Seq(Block)
    /\ newBlocks \in Seq(Nat)

\* A stopped miner has no goroutine but one that will find its quit closed.
StoppedIsGone ==
    /\ miner.svc = "stopped" =>
         miner.pc = "none" \/ (miner.pc \in {"spawned", "loop"} /\ quit)
    /\ miner.svc = "stopping" => quit

Working == {"monitor", "search", "sign", "submit", "send", "hung"}

KeeperStates == {"stopped", "running", "stopping", "hung"}

StaleStates == {"off", "watching", "late", "notified", "stale"}

\* Between two rounds there is nothing of a round.
RoundOver ==
    /\ miner.pc \in {"none", "spawned", "loop"} => round = NoRound
    /\ miner.pc \in {"template", "monitor"} =>
         round.proof = {} /\ round.got = {} /\ round.from = round.slot

\* The height worked on was not mined; every accepted block's height is noted,
\* but for the last one while it waits for newBlockCh.
HeightsNoted ==
    /\ miner.pc \in Working => round.height \notin mined
    /\ \A i \in 1 .. Len(own) :
         \/ own[i].height \in mined
         \/ miner.pc = "send" /\ i = Len(own) /\ own[i].height = round.height

\* v1 has been through every slot before the one it is at, below the target.
SearchedBelow ==
    mode = "m1" =>
      /\ round.got = {}
      /\ miner.pc = "search" => round.proof = {}
      /\ \A i \in round.from .. round.slot - 1, t \in round.all :
           Quality[t][i] <= Target[i]

\* v2 has one best report, from the first report on.
ReportsKept ==
    /\ \A s, t \in round.proof : s = t
    /\ round.proof = {} => round.got = {}

\* A handler that is alone in the process: the others are free.
AloneIsAlone ==
    /\ proc \in {"new", "keeper", "miner"} => \A h \in Handlers : handler[h] = Free
    /\ \A h \in Handlers :
         /\ handler[h].pc = "idle" => handler[h] = Free
         /\ handler[h].alone /\ handler[h].pc # "idle" =>
              \A g \in Handlers \ {h} : handler[g] = Free

\* How far a StopCapacitySpaces that is alone has come.
StopProgress ==
    \A h \in Handlers :
      handler[h].req = "Stop" /\ handler[h].alone /\ proc = "running" =>
        /\ V1 /\ handler[h].pc = "keeper" => keeper # "running"
        /\ V1 /\ handler[h].pc \in {"stop", "wait"} => keeper = "stopped"
        /\ handler[h].pc = "wait" => miner.svc # "running"

\* The part that speaks of the miner, and the one of the handlers.
MinerPart ==
    /\ MinerTypeOK /\ RoundTyped
    /\ StoppedIsGone
    /\ RoundOver
    /\ HeightsNoted /\ OncePerHeight
    /\ SearchedBelow /\ ReportsKept /\ EarliestBest

HandlerPart ==
    /\ TypeOK
    /\ AloneIsAlone /\ StopProgress

NodeInv == MinerPart /\ HandlerPart

-----------------------------------------------------------------------------
(* The miner's steps.                                                      *)

\* The goroutine moves to another place, its service stays.
LEMMA GoParts ==
    ASSUME MinerTypeOK, NEW pc \in MinerPC, Go(pc)
    PROVE  /\ miner' \in [svc : {"stopped", "running", "stopping"}, pc : MinerPC]
           /\ miner'.pc = pc /\ miner'.svc = miner.svc
  BY DEF Go, MinerTypeOK, MinerPC

\* No round at all.
LEMMA NoRoundParts ==
    /\ NoRound \in [height : Nat, tip : Nat, from : Nat, slot : Nat,
                    proof : SUBSET Spaces, all : SUBSET Spaces,
                    got : SUBSET [space : Spaces, slot : 0 .. MaxSlot]]
    /\ NoRound.proof = {} /\ NoRound.all = {} /\ NoRound.got = {}
  BY DEF NoRound

\* A round has the fields NoRound has.
LEMMA RoundDomain ==
    ASSUME RoundTyped
    PROVE  DOMAIN round = DOMAIN NoRound
  BY DEF RoundTyped, NoRound

\* A step outside a round: the goroutine begins, ends, or stays where it is.
LEMMA OutsideKeeps ==
    ASSUME MinerPart, MinerTypeOK', StoppedIsGone', newBlocks' \in Seq(Nat),
           UNCHANGED <<round, mined, own, mode>>,
           \/ miner'.pc = miner.pc
           \/ miner.pc \in {"none", "spawned", "loop"}
              /\ miner'.pc \in {"none", "spawned", "loop"}
    PROVE  MinerPart'
<1> USE DEF MinerPart
<1>1. RoundTyped' /\ RoundOver'
  BY DEF RoundTyped, RoundOver
<1>2. HeightsNoted' /\ OncePerHeight'
  BY DEF HeightsNoted, OncePerHeight, Working
<1>3. SearchedBelow' /\ ReportsKept'
  BY DEF SearchedBelow, ReportsKept
<1>4. EarliestBest'
  BY DEF EarliestBest
<1> QED
  BY <1>1, <1>2, <1>3, <1>4

\* A round is given up.
LEMMA GiveUpKeeps ==
    ASSUME MinerPart, miner.pc \in {"template", "monitor", "search", "sign", "submit"}, GiveUp,
           UNCHANGED <<chainVars, quit, outVars, envVars>>
    PROVE  MinerPart'
<1>1. /\ miner' \in [svc : {"stopped", "running", "stopping"}, pc : MinerPC]
      /\ miner'.pc = "loop" /\ miner'.svc = miner.svc
  BY GoParts DEF MinerPart, GiveUp, MinerPC
<1>2. /\ round' = NoRound /\ stale' = "off" /\ quit' = quit
      /\ now' = now /\ chain' = chain
      /\ mined' = mined /\ newBlocks' = newBlocks /\ sent' = sent /\ own' = own
      /\ mode' = mode /\ sync' = sync /\ keeper' = keeper /\ mining' = mining
      /\ locked' = locked
  BY DEF GiveUp, chainVars, outVars, envVars
<1>3. MinerTypeOK'
  BY <1>1, <1>2 DEF MinerPart, MinerTypeOK
<1>4. RoundTyped'
  BY <1>2, NoRoundParts DEF MinerPart, RoundTyped
<1>5. StoppedIsGone' /\ RoundOver'
  BY <1>1, <1>2 DEF MinerPart, StoppedIsGone, RoundOver
<1>6. HeightsNoted' /\ OncePerHeight'
  BY <1>1, <1>2 DEF MinerPart, HeightsNoted, OncePerHeight, Working
<1>7. SearchedBelow' /\ ReportsKept' /\ EarliestBest'
  BY <1>1, <1>2, NoRoundParts DEF MinerPart, SearchedBelow, ReportsKept, EarliestBest
<1> QED
  BY <1>3, <1>4, <1>5, <1>6, <1>7 DEF MinerPart

\* A template is taken.
LEMMA TemplateKeeps ==
    ASSUME MinerPart, Template
    PROVE  MinerPart'
<1>1. /\ miner' \in [svc : {"stopped", "running", "stopping"}, pc : MinerPC]
      /\ miner'.pc = "template" /\ miner'.svc = miner.svc
  BY GoParts DEF MinerPart, Template, MinerPC
<1>2. /\ miner.pc = "loop" /\ quit = FALSE /\ quit' = quit /\ stale' = stale
      /\ now' = now /\ chain' = chain
      /\ mined' = mined /\ newBlocks' = newBlocks /\ sent' = sent /\ own' = own
      /\ mode' = mode /\ sync' = sync /\ keeper' = keeper /\ mining' = mining
      /\ locked' = locked
      /\ chain.height \in Nat /\ chain.tip \in Nat /\ chain.slot \in Nat
  BY DEF Template, chainVars, outVars, envVars, MinerPart, MinerTypeOK
<1>3. /\ round' \in [height : Nat, tip : Nat, from : Nat, slot : Nat,
                     proof : SUBSET Spaces, all : SUBSET Spaces,
                     got : SUBSET [space : Spaces, slot : 0 .. MaxSlot]]
      /\ round'.proof = {} /\ round'.all = {} /\ round'.got = {}
      /\ round'.from = round'.slot
  <2> DEFINE n == NoRound
  <2>1. round' = [n EXCEPT !.height = chain.height + 1, !.tip = chain.tip,
                           !.from = chain.slot + 1, !.slot = chain.slot + 1]
    BY DEF Template
  <2>2. /\ n \in [height : Nat, tip : Nat, from : Nat, slot : Nat,
                  proof : SUBSET Spaces, all : SUBSET Spaces,
                  got : SUBSET [space : Spaces, slot : 0 .. MaxSlot]]
        /\ n.proof = {} /\ n.all = {} /\ n.got = {}
    BY NoRoundParts
  <2> HIDE DEF n
  <2>3. chain.height + 1 \in Nat /\ chain.slot + 1 \in Nat
    BY <1>2
  <2> QED
    BY <1>2, <2>1, <2>2, <2>3
<1>4. RoundTyped'
  BY <1>2, <1>3 DEF MinerPart, RoundTyped
<1>5. MinerTypeOK'
  <2>1. DOMAIN round' = DOMAIN NoRound
    BY <1>3 DEF NoRound
  <2> QED
    BY <1>1, <1>2, <2>1 DEF MinerPart, MinerTypeOK
<1>6. StoppedIsGone' /\ RoundOver'
  BY <1>1, <1>2, <1>3 DEF MinerPart, StoppedIsGone, RoundOver
<1>7. HeightsNoted' /\ OncePerHeight'
  BY <1>1, <1>2 DEF MinerPart, HeightsNoted, OncePerHeight, Working
<1>8. SearchedBelow' /\ ReportsKept' /\ EarliestBest'
  BY <1>1, <1>2, <1>3 DEF MinerPart, SearchedBelow, ReportsKept, EarliestBest
<1> QED
  BY <1>4, <1>5, <1>6, <1>7, <1>8 DEF MinerPart

\* The search begins, in either version.
LEMMA SearchBegins ==
    ASSUME MinerPart, miner.pc = "monitor", Go("search"), Watch,
           NEW S \in SUBSET Spaces, round' = [round EXCEPT !.all = S],
           UNCHANGED <<chainVars, quit, outVars, envVars>>
    PROVE  MinerPart'
<1>1. /\ miner' \in [svc : {"stopped", "running", "stopping"}, pc : MinerPC]
      /\ miner'.pc = "search" /\ miner'.svc = miner.svc
  BY GoParts DEF MinerPart, MinerPC
<1>2. /\ quit' = quit /\ stale' \in StaleStates
      /\ now' = now /\ chain' = chain
      /\ mined' = mined /\ newBlocks' = newBlocks /\ sent' = sent /\ own' = own
      /\ mode' = mode /\ sync' = sync /\ keeper' = keeper /\ mining' = mining
      /\ locked' = locked /\ round.height \notin mined
  BY DEF chainVars, outVars, envVars, Watch, StaleStates, MinerPart, HeightsNoted, Working
<1>3. /\ round' \in [height : Nat, tip : Nat, from : Nat, slot : Nat,
                     proof : SUBSET Spaces, all : SUBSET Spaces,
                     got : SUBSET [space : Spaces, slot : 0 .. MaxSlot]]
      /\ round'.proof = {} /\ round'.got = {}
      /\ round'.from = round'.slot /\ round'.slot \in Nat /\ round'.height = round.height
  BY DEF MinerPart, RoundTyped, RoundOver
<1>4. RoundTyped'
  BY <1>2, <1>3 DEF MinerPart, RoundTyped
<1>5. MinerTypeOK'
  <2>1. DOMAIN round' = DOMAIN NoRound
    BY <1>3 DEF NoRound
  <2> QED
    BY <1>1, <1>2, <2>1 DEF MinerPart, MinerTypeOK, StaleStates
<1>6. StoppedIsGone' /\ RoundOver'
  BY <1>1, <1>2, <1>3 DEF MinerPart, StoppedIsGone, RoundOver
<1>7. HeightsNoted' /\ OncePerHeight'
  BY <1>1, <1>2, <1>3 DEF MinerPart, HeightsNoted, OncePerHeight, Working
<1>8. SearchedBelow'
  BY <1>1, <1>2, <1>3 DEF SearchedBelow
<1>9. ReportsKept' /\ EarliestBest'
  BY <1>1, <1>2, <1>3 DEF MinerPart, ReportsKept, EarliestBest
<1> QED
  BY <1>4, <1>5, <1>6, <1>7, <1>8, <1>9 DEF MinerPart

\* The height and the best node are looked at.
LEMMA CheckTipKeeps ==
    ASSUME MinerPart, CheckTip
    PROVE  MinerPart'
<1>1. miner.pc = "template" /\ UNCHANGED <<chainVars, quit, outVars, envVars>>
  BY DEF CheckTip
<1>2. CASE ~MayMine
  BY <1>1, <1>2, GiveUpKeeps DEF CheckTip
<1>3. CASE MayMine
  <2>1. /\ miner' \in [svc : {"stopped", "running", "stopping"}, pc : MinerPC]
        /\ miner'.pc = "monitor" /\ miner'.svc = miner.svc
    BY <1>3, GoParts DEF MinerPart, MinerPC, CheckTip
  <2>2. /\ quit' = quit /\ round' = round /\ stale' = stale
        /\ now' = now /\ chain' = chain
        /\ mined' = mined /\ newBlocks' = newBlocks /\ sent' = sent /\ own' = own
        /\ mode' = mode /\ sync' = sync /\ keeper' = keeper /\ mining' = mining
        /\ locked' = locked /\ round.height \notin mined
    BY <1>3 DEF CheckTip, MayMine, chainVars, roundVars, outVars, envVars
  <2>3. MinerTypeOK' /\ RoundTyped'
    BY <2>1, <2>2 DEF MinerPart, MinerTypeOK, RoundTyped
  <2>4. StoppedIsGone' /\ RoundOver'
    BY <1>1, <2>1, <2>2 DEF MinerPart, StoppedIsGone, RoundOver
  <2>5. HeightsNoted' /\ OncePerHeight'
    BY <1>1, <2>1, <2>2 DEF MinerPart, HeightsNoted, OncePerHeight, Working
  <2>6. SearchedBelow' /\ ReportsKept' /\ EarliestBest'
    BY <2>1, <2>2 DEF MinerPart, SearchedBelow, ReportsKept, EarliestBest
  <2> QED
    BY <2>3, <2>4, <2>5, <2>6 DEF MinerPart
<1> QED
  BY <1>2, <1>3

\* A place of the round is left for the next one with the round as it is.
LEMMA RoundGoesOn ==
    ASSUME MinerPart, miner.pc \in {"search", "sign"}, NEW pc \in {"sign", "submit", "hung"}, Go(pc),
           stale' \in StaleStates,
           UNCHANGED <<chainVars, quit, round, outVars, envVars>>
    PROVE  MinerPart'
<1>1. /\ miner' \in [svc : {"stopped", "running", "stopping"}, pc : MinerPC]
      /\ miner'.pc = pc /\ miner'.svc = miner.svc
  BY GoParts DEF MinerPart, MinerPC
<1>2. /\ quit' = quit /\ round' = round
      /\ now' = now /\ chain' = chain
      /\ mined' = mined /\ newBlocks' = newBlocks /\ sent' = sent /\ own' = own
      /\ mode' = mode /\ sync' = sync /\ keeper' = keeper /\ mining' = mining
      /\ locked' = locked
  BY DEF chainVars, outVars, envVars
<1>3. MinerTypeOK' /\ RoundTyped'
  BY <1>1, <1>2 DEF MinerPart, MinerTypeOK, RoundTyped, StaleStates
<1>4. StoppedIsGone' /\ RoundOver'
  BY <1>1, <1>2 DEF MinerPart, StoppedIsGone, RoundOver
<1>5. HeightsNoted' /\ OncePerHeight'
  BY <1>1, <1>2 DEF MinerPart, HeightsNoted, OncePerHeight, Working
<1>6. SearchedBelow' /\ ReportsKept' /\ EarliestBest'
  BY <1>1, <1>2 DEF MinerPart, SearchedBelow, ReportsKept, EarliestBest
<1> QED
  BY <1>3, <1>4, <1>5, <1>6 DEF MinerPart

\* The qualities and the target of a slot are numbers.
LEMMA QualityParts ==
    ASSUME NEW s \in Spaces, NEW i \in 0 .. MaxSlot
    PROVE  Quality[s][i] \in Nat /\ Target[i] \in Nat
  BY MinerAssumption

\* One slot of v1's search.
LEMMA SearchKeeps ==
    ASSUME MinerPart, Search
    PROVE  MinerPart'
<1>1. /\ quit' = quit
      /\ now' = now /\ chain' = chain
      /\ mined' = mined /\ newBlocks' = newBlocks /\ sent' = sent /\ own' = own
      /\ mode' = mode /\ sync' = sync /\ keeper' = keeper /\ mining' = mining
      /\ locked' = locked /\ miner.pc = "search" /\ mode = "m1"
      /\ round.slot < MaxSlot
  BY DEF Search, chainVars, outVars, envVars
<1>2. round \in [height : Nat, tip : Nat, from : Nat, slot : Nat,
                 proof : SUBSET Spaces, all : SUBSET Spaces,
                 got : SUBSET [space : Spaces, slot : 0 .. MaxSlot]]
  BY DEF MinerPart, RoundTyped
<1>3. round.slot \in 0 .. MaxSlot /\ round.slot \in Nat /\ round.from \in Nat
      /\ round.all \subseteq Spaces
  BY <1>1, <1>2, MinerAssumption
<1>4. /\ \A i \in round.from .. round.slot - 1, t \in round.all : Quality[t][i] <= Target[i]
      /\ round.got = {} /\ round.proof = {}
  BY <1>1 DEF MinerPart, SearchedBelow
<1>5. PICK s \in round.all :
         /\ BestAt(s, round.slot)
         /\ IF Quality[s][round.slot] > Target[round.slot]
            THEN /\ Go("sign")
                 /\ round' = [round EXCEPT !.proof = {s}]
                 /\ stale' = "off"
            ELSE /\ round' = [round EXCEPT !.slot = @ + 1]
                 /\ UNCHANGED <<miner, stale>>
  BY DEF Search
<1>6. \A t \in round.all : /\ Quality[t][round.slot] <= Quality[s][round.slot]
                           /\ Quality[t][round.slot] \in Nat
                           /\ Target[round.slot] \in Nat
  BY <1>3, <1>5, QualityParts DEF BestAt
<1>7. CASE Quality[s][round.slot] > Target[round.slot]
  <2>1. /\ miner' \in [svc : {"stopped", "running", "stopping"}, pc : MinerPC]
        /\ miner'.pc = "sign" /\ miner'.svc = miner.svc /\ stale' = "off"
    BY <1>5, <1>7, GoParts DEF MinerPart, MinerPC
  <2>2. /\ round' \in [height : Nat, tip : Nat, from : Nat, slot : Nat,
                       proof : SUBSET Spaces, all : SUBSET Spaces,
                       got : SUBSET [space : Spaces, slot : 0 .. MaxSlot]]
        /\ round'.proof = {s} /\ round'.got = {} /\ round'.height = round.height
        /\ round'.slot = round.slot /\ round'.from = round.from /\ round'.all = round.all
    BY <1>2, <1>3, <1>4, <1>5, <1>7
  <2>3. RoundTyped'
    BY <1>1, <2>2 DEF MinerPart, RoundTyped
  <2>4. MinerTypeOK'
    <3>1. DOMAIN round' = DOMAIN NoRound
      BY <2>2 DEF NoRound
    <3> QED
      BY <1>1, <2>1, <3>1 DEF MinerPart, MinerTypeOK
  <2>5. StoppedIsGone' /\ RoundOver'
    BY <1>1, <2>1 DEF MinerPart, StoppedIsGone, RoundOver
  <2>6. HeightsNoted' /\ OncePerHeight'
    BY <1>1, <2>1, <2>2 DEF MinerPart, HeightsNoted, OncePerHeight, Working
  <2>7. SearchedBelow' /\ ReportsKept'
    BY <1>1, <1>4, <2>1, <2>2 DEF SearchedBelow, ReportsKept
  <2>8. EarliestBest'
    BY <1>1, <1>4, <1>6, <1>7, <2>2 DEF MinerPart, EarliestBest
  <2> QED
    BY <2>3, <2>4, <2>5, <2>6, <2>7, <2>8 DEF MinerPart
<1>8. CASE ~(Quality[s][round.slot] > Target[round.slot])
  <2>1. miner' = miner /\ stale' = stale
    BY <1>5, <1>8
  <2>2. /\ round' \in [height : Nat, tip : Nat, from : Nat, slot : Nat,
                       proof : SUBSET Spaces, all : SUBSET Spaces,
                       got : SUBSET [space : Spaces, slot : 0 .. MaxSlot]]
        /\ round'.proof = {} /\ round'.got = {} /\ round'.height = round.height
        /\ round'.slot = round.slot + 1 /\ round'.from = round.from /\ round'.all = round.all
    BY <1>2, <1>3, <1>4, <1>5, <1>8
  <2>3. RoundTyped'
    BY <1>1, <2>2 DEF MinerPart, RoundTyped
  <2>4. MinerTypeOK'
    <3>1. DOMAIN round' = DOMAIN NoRound
      BY <2>2 DEF NoRound
    <3> QED
      BY <1>1, <2>1, <3>1 DEF MinerPart, MinerTypeOK
  <2>5. StoppedIsGone' /\ RoundOver'
    BY <1>1, <2>1 DEF MinerPart, StoppedIsGone, RoundOver
  <2>6. HeightsNoted' /\ OncePerHeight'
    BY <1>1, <2>1, <2>2 DEF MinerPart, HeightsNoted, OncePerHeight, Working
  <2>7. SearchedBelow' /\ ReportsKept'
    <3>1. \A t \in round.all : Quality[t][round.slot] <= Target[round.slot]
      BY <1>5, <1>6, <1>8
    <3>2. \A i \in round.from .. (round.slot + 1) - 1 : i \in round.from .. round.slot - 1 \/ i = round.slot
      BY <1>3
    <3>3. \A i \in round.from .. (round.slot + 1) - 1, t \in round.all : Quality[t][i] <= Target[i]
      BY <1>4, <3>1, <3>2
    <3>4. \A i \in round'.from .. round'.slot - 1, t \in round'.all : Quality[t][i] <= Target[i]
      <4>1. /\ round'.slot = round.slot + 1
            /\ round'.from = round.from /\ round'.all = round.all
        BY <2>2
      <4> QED
        BY <3>3, <4>1
    <3> QED
      BY <2>2, <3>4 DEF SearchedBelow, ReportsKept
  <2>8. EarliestBest'
    BY <1>1, <2>2 DEF MinerPart, EarliestBest
  <2> QED
    BY <2>3, <2>4, <2>5, <2>6, <2>7, <2>8 DEF MinerPart
<1> QED
  BY <1>7, <1>8

\* A collector's report, kept if it is better than the best so far.
LEMMA ReportKeeps ==
    ASSUME MinerPart, NEW s \in Spaces, NEW i \in 0 .. MaxSlot, Report(s, i)
    PROVE  MinerPart'
<1> DEFINE r == [space |-> s, slot |-> i]
           best == \A b \in round.proof : Better(r, [space |-> b, slot |-> round.slot])
<1>1. /\ quit' = quit /\ miner' = miner /\ stale' = stale
      /\ now' = now /\ chain' = chain
      /\ mined' = mined /\ newBlocks' = newBlocks /\ sent' = sent /\ own' = own
      /\ mode' = mode /\ sync' = sync /\ keeper' = keeper /\ mining' = mining
      /\ locked' = locked /\ miner.pc = "search" /\ mode = "m2"
  BY DEF Report, chainVars, outVars, envVars
<1>2. round \in [height : Nat, tip : Nat, from : Nat, slot : Nat,
                 proof : SUBSET Spaces, all : SUBSET Spaces,
                 got : SUBSET [space : Spaces, slot : 0 .. MaxSlot]]
  BY DEF MinerPart, RoundTyped
<1>3. r \in [space : Spaces, slot : 0 .. MaxSlot] /\ i \in Nat /\ r.space = s /\ r.slot = i
  BY MinerAssumption
<1>4. round' = IF best THEN [round EXCEPT !.got = @ \cup {r}, !.proof = {s}, !.slot = i]
               ELSE [round EXCEPT !.got = @ \cup {r}]
  BY DEF Report
<1>5. \A b \in Spaces : Better(r, [space |-> b, slot |-> round.slot]) <=>
         i < round.slot \/ (i = round.slot /\ Quality[s][i] > Quality[b][i])
  BY DEF Better
<1> HIDE DEF r
<1>6. /\ round' \in [height : Nat, tip : Nat, from : Nat, slot : Nat,
                     proof : SUBSET Spaces, all : SUBSET Spaces,
                     got : SUBSET [space : Spaces, slot : 0 .. MaxSlot]]
      /\ round'.height = round.height /\ round'.got = round.got \cup {r}
      /\ best => round'.proof = {s} /\ round'.slot = i
      /\ ~best => round'.proof = round.proof /\ round'.slot = round.slot
  <2> HIDE DEF best
  <2> QED
    BY <1>2, <1>3, <1>4
<1>7. RoundTyped'
  BY <1>1, <1>6 DEF MinerPart, RoundTyped
<1>8. MinerTypeOK'
  <2>1. DOMAIN round' = DOMAIN NoRound
    BY <1>6 DEF NoRound
  <2> QED
    BY <1>1, <2>1 DEF MinerPart, MinerTypeOK
<1>9. StoppedIsGone' /\ RoundOver'
  BY <1>1 DEF MinerPart, StoppedIsGone, RoundOver
<1>10. HeightsNoted' /\ OncePerHeight'
  BY <1>1, <1>6 DEF MinerPart, HeightsNoted, OncePerHeight, Working
<1>11. SearchedBelow'
  BY <1>1 DEF SearchedBelow
<1>12. ReportsKept'
  <2>1. ~best => round.proof # {}
    OBVIOUS
  <2> HIDE DEF best
  <2> QED
    BY <1>6, <2>1 DEF MinerPart, ReportsKept
<1>13. EarliestBest'
  <2>1. \A k \in DOMAIN own : own[k].at > own[k].slot
    BY DEF MinerPart, EarliestBest
  <2>2. ASSUME NEW x \in round.got \cup {r}, NEW b \in round'.proof
        PROVE  /\ round'.slot <= x.slot
               /\ round'.slot = x.slot => Quality[x.space][x.slot] <= Quality[b][x.slot]
    <3>1. x \in [space : Spaces, slot : 0 .. MaxSlot] /\ x.slot \in Nat
          /\ round.slot \in Nat /\ round.proof \subseteq Spaces
      BY <1>2, <1>3, MinerAssumption
    <3>2. x \in round.got => \A c \in round.proof :
             /\ round.slot <= x.slot
             /\ round.slot = x.slot => Quality[x.space][x.slot] <= Quality[c][x.slot]
      BY DEF MinerPart, EarliestBest
    <3>3. \A c \in Spaces : /\ Quality[c][i] \in Nat
                            /\ Quality[c][x.slot] \in Nat
                            /\ Quality[x.space][x.slot] \in Nat
      BY <3>1, QualityParts
    <3>4. CASE best
      <4>1. b = s /\ round'.slot = i
        BY <1>6, <3>4
      <4>2. CASE x = r
        BY <1>3, <3>3, <4>1, <4>2
      <4>3. CASE x \in round.got
        <5>1. PICK c \in round.proof : TRUE
          BY <4>3 DEF MinerPart, ReportsKept
        <5>2. i < round.slot \/ (i = round.slot /\ Quality[s][i] > Quality[c][i])
          BY <1>5, <3>1, <3>4, <5>1
        <5>3. round.slot <= x.slot
              /\ (round.slot = x.slot => Quality[x.space][x.slot] <= Quality[c][x.slot])
          BY <3>2, <4>3, <5>1
        <5>4. c \in Spaces
          BY <3>1, <5>1
        <5> QED
          BY <1>3, <3>1, <3>3, <4>1, <5>2, <5>3, <5>4
      <4> QED
        BY <4>2, <4>3
    <3>5. CASE ~best
      <4>1. round'.proof = round.proof /\ round'.slot = round.slot
        BY <1>6, <3>5
      <4>2. CASE x \in round.got
        BY <3>2, <4>1, <4>2
      <4>3. CASE x = r
        <5>1. PICK c \in round.proof : ~Better(r, [space |-> c, slot |-> round.slot])
          BY <3>5
        <5>2. c = b
          BY <4>1, <5>1 DEF MinerPart, ReportsKept
        <5>3. ~(i < round.slot \/ (i = round.slot /\ Quality[s][i] > Quality[c][i]))
          BY <1>5, <3>1, <5>1
        <5>4. c \in Spaces
          BY <3>1, <5>1
        <5> QED
          BY <1>3, <3>1, <3>3, <4>1, <4>3, <5>2, <5>3, <5>4
      <4> QED
        BY <4>2, <4>3
    <3> QED
      BY <3>4, <3>5
  <2> QED
    BY <1>1, <1>6, <2>1, <2>2 DEF EarliestBest
<1> QED
  BY <1>7, <1>8, <1>9, <1>10, <1>11, <1>12, <1>13 DEF MinerPart

\* ProcessBlock: the chain refuses the block, or takes one of a new height.
LEMMA ProcessKeeps ==
    ASSUME MinerPart, Process
    PROVE  MinerPart'
<1>1. /\ miner.pc = "submit" /\ now > round.slot
      /\ now' = now /\ quit' = quit /\ mined' = mined /\ newBlocks' = newBlocks
      /\ sent' = sent
      /\ mode' = mode /\ sync' = sync /\ keeper' = keeper /\ mining' = mining
      /\ locked' = locked
  BY DEF Process, TimeCame, envVars
<1>2. CASE GiveUp /\ UNCHANGED <<chain, own>>
  BY <1>1, <1>2, GiveUpKeeps DEF chainVars, outVars, envVars
<1>3. CASE /\ Go("send")
           /\ own' = Append(own, [height |-> round.height, slot |-> round.slot, at |-> now])
           /\ \/ /\ chain.tip < MaxTips
                 /\ chain' = [height |-> round.height, tip |-> chain.tip + 1,
                              slot |-> round.slot]
              \/ round.tip # chain.tip /\ UNCHANGED chain
           /\ UNCHANGED roundVars
  <2> DEFINE new == [height |-> round.height, slot |-> round.slot, at |-> now]
  <2>1. /\ miner' \in [svc : {"stopped", "running", "stopping"}, pc : MinerPC]
        /\ miner'.pc = "send" /\ miner'.svc = miner.svc
    BY <1>3, GoParts DEF MinerPart, MinerPC
  <2>2. round' = round /\ stale' = stale
    BY <1>3 DEF roundVars
  <2>3. round.height \in Nat /\ round.slot \in Nat /\ now \in Nat /\ own \in Seq(Block)
    BY MinerAssumption DEF MinerPart, RoundTyped, MinerTypeOK
  <2>4. new \in Block /\ new.height = round.height /\ new.slot = round.slot /\ new.at = now
    BY <2>3 DEF Block
  <2>5. own' = Append(own, new)
    BY <1>3
  <2> HIDE DEF new
  <2>6. /\ own' \in Seq(Block) /\ Len(own') = Len(own) + 1 /\ own'[Len(own) + 1] = new
        /\ \A i \in 1 .. Len(own) : own'[i] = own[i]
        /\ DOMAIN own' = 1 .. Len(own) + 1 /\ DOMAIN own = 1 .. Len(own) /\ Len(own) \in Nat
    BY <2>3, <2>4, <2>5
  <2>7. chain' \in [height : Nat, tip : 0 .. MaxTips, slot : Nat]
    <3>1. chain \in [height : Nat, tip : 0 .. MaxTips, slot : Nat]
      BY DEF MinerPart, MinerTypeOK
    <3>2. chain.tip < MaxTips => chain.tip + 1 \in 0 .. MaxTips
      BY <3>1, MinerAssumption
    <3> QED
      BY <1>3, <2>3, <3>1, <3>2
  <2>8. MinerTypeOK'
    BY <1>1, <2>1, <2>2, <2>7 DEF MinerPart, MinerTypeOK
  <2>9. RoundTyped'
    BY <1>1, <2>2, <2>6 DEF MinerPart, RoundTyped
  <2>10. StoppedIsGone' /\ RoundOver'
    BY <1>1, <2>1 DEF MinerPart, StoppedIsGone, RoundOver
  <2>11. round.height \notin mined /\ \A i \in 1 .. Len(own) : own[i].height \in mined
    BY <1>1 DEF MinerPart, HeightsNoted, Working
  <2>12. HeightsNoted'
    BY <1>1, <2>1, <2>2, <2>4, <2>6, <2>11 DEF HeightsNoted
  <2>13. OncePerHeight'
    BY <2>4, <2>6, <2>11 DEF MinerPart, OncePerHeight
  <2>14. SearchedBelow' /\ ReportsKept'
    BY <1>1, <2>1, <2>2 DEF MinerPart, SearchedBelow, ReportsKept
  <2>15. EarliestBest'
    <3>1. \A i \in DOMAIN own' : own'[i].at > own'[i].slot
      BY <1>1, <2>4, <2>6 DEF MinerPart, EarliestBest
    <3> QED
      BY <1>1, <2>2, <3>1 DEF MinerPart, EarliestBest
  <2> QED
    BY <2>8, <2>9, <2>10, <2>12, <2>13, <2>14, <2>15 DEF MinerPart
<1> QED
  BY <1>2, <1>3 DEF Process

\* The block is handed over and its height noted.
LEMMA SendKeeps ==
    ASSUME MinerPart, Send
    PROVE  MinerPart'
<1>1. /\ miner' \in [svc : {"stopped", "running", "stopping"}, pc : MinerPC]
      /\ miner'.pc = "loop" /\ miner'.svc = miner.svc
  BY GoParts DEF MinerPart, Send, GiveUp, MinerPC
<1>2. /\ round' = NoRound /\ stale' = "off" /\ quit' = quit
      /\ now' = now /\ chain' = chain /\ sent' = sent /\ own' = own
      /\ mode' = mode /\ sync' = sync /\ keeper' = keeper /\ mining' = mining
      /\ locked' = locked
      /\ mined' = mined \cup {round.height} /\ miner.pc = "send"
      /\ newBlocks' = Append(newBlocks, round.height) /\ Len(newBlocks) < ChanSize
  BY DEF Send, GiveUp, chainVars, envVars
<1>3. round.height \in Nat /\ newBlocks \in Seq(Nat)
  BY DEF MinerPart, RoundTyped
<1>4. newBlocks' \in Seq(Nat) /\ Len(newBlocks') <= ChanSize
  BY <1>2, <1>3, MinerAssumption
<1>5. MinerTypeOK'
  BY <1>1, <1>2, <1>3, <1>4 DEF MinerPart, MinerTypeOK
<1>6. RoundTyped'
  BY <1>2, <1>4, NoRoundParts DEF MinerPart, RoundTyped
<1>7. StoppedIsGone' /\ RoundOver'
  BY <1>1, <1>2 DEF MinerPart, StoppedIsGone, RoundOver
<1>8. HeightsNoted' /\ OncePerHeight'
  BY <1>1, <1>2 DEF MinerPart, HeightsNoted, OncePerHeight, Working
<1>9. SearchedBelow' /\ ReportsKept' /\ EarliestBest'
  BY <1>1, <1>2, NoRoundParts DEF MinerPart, SearchedBelow, ReportsKept, EarliestBest
<1> QED
  BY <1>5, <1>6, <1>7, <1>8, <1>9 DEF MinerPart

\* The clock, the network and the sync manager do not touch the round.
LEMMA OutsideStepKeeps ==
    ASSUME MinerPart, Monitor \/ Broadcast \/ BestChanges \/ Tick
    PROVE  MinerPart'
<1>1. /\ UNCHANGED <<round, mined, own, mode, miner, quit, sync, keeper, mining, locked>>
      /\ now' \in 0 .. MaxSlot /\ chain' \in [height : Nat, tip : 0 .. MaxTips, slot : Nat]
      /\ stale' \in StaleStates
      /\ newBlocks' \in Seq(Nat) /\ Len(newBlocks') <= ChanSize /\ sent' \in Nat
  <2>1. /\ now \in 0 .. MaxSlot /\ chain \in [height : Nat, tip : 0 .. MaxTips, slot : Nat]
        /\ stale \in StaleStates
        /\ newBlocks \in Seq(Nat) /\ Len(newBlocks) <= ChanSize /\ sent \in Nat
    BY DEF MinerPart, MinerTypeOK, RoundTyped, StaleStates
  <2>2. CASE Monitor
    BY <2>1, <2>2 DEF Monitor, StaleStates, chainVars, outVars, envVars
  <2>3. CASE Broadcast
    <3>1. newBlocks' = Tail(newBlocks) /\ newBlocks # <<>> /\ sent' = sent + 1
      BY <2>3 DEF Broadcast
    <3>2. newBlocks' \in Seq(Nat) /\ Len(newBlocks') <= ChanSize
      BY <2>1, <3>1, MinerAssumption
    <3> QED
      BY <2>1, <2>3, <3>1, <3>2 DEF Broadcast, chainVars, roundVars, envVars
  <2>4. CASE BestChanges
    <3>1. chain.tip < MaxTips => chain.tip + 1 \in 0 .. MaxTips
      BY <2>1, MinerAssumption
    <3>2. now \in Nat
      BY <2>1
    <3>3. chain.tip < MaxTips
      BY <2>4 DEF BestChanges
    <3>4. chain' \in [height : Nat, tip : 0 .. MaxTips, slot : Nat]
      <4>1. \/ chain' = [chain EXCEPT !.tip = @ + 1]
            \/ chain' = [height |-> chain.height + 1, tip |-> chain.tip + 1, slot |-> now]
        BY <2>4 DEF BestChanges
      <4>2. CASE chain' = [chain EXCEPT !.tip = @ + 1]
        BY <2>1, <3>1, <3>3, <4>2
      <4>3. CASE chain' = [height |-> chain.height + 1, tip |-> chain.tip + 1, slot |-> now]
        BY <2>1, <3>1, <3>2, <3>3, <4>3
      <4> QED
        BY <4>1, <4>2, <4>3
    <3>5. stale' \in StaleStates
      BY <2>1, <2>4 DEF BestChanges, Notify, StaleStates
    <3> QED
      BY <2>1, <2>4, <3>4, <3>5 DEF BestChanges, outVars, envVars
  <2>5. CASE Tick
    <3>1. now' \in 0 .. MaxSlot
      BY <2>1, <2>5, MinerAssumption DEF Tick
    <3> QED
      BY <2>1, <2>5, <3>1 DEF Tick, roundVars, outVars, envVars
  <2> QED
    BY <2>2, <2>3, <2>4, <2>5
<1>2. MinerTypeOK'
  BY <1>1 DEF MinerPart, MinerTypeOK, StaleStates
<1>3. StoppedIsGone'
  BY <1>1 DEF MinerPart, StoppedIsGone
<1> QED
  BY <1>1, <1>2, <1>3, OutsideKeeps

\* The goroutine's first and last step.
LEMMA BeginExitKeeps ==
    ASSUME MinerPart, Begin \/ Exit
    PROVE  MinerPart'
<1>1. /\ UNCHANGED <<chainVars, quit, roundVars, outVars, envVars>>
      /\ \/ miner.pc = "spawned" /\ Go("loop")
         \/ miner.pc = "loop" /\ Go("none")
  BY DEF Begin, Exit
<1>2. /\ miner' \in [svc : {"stopped", "running", "stopping"}, pc : MinerPC]
      /\ miner'.svc = miner.svc
      /\ \/ miner.pc = "spawned" /\ miner'.pc = "loop"
         \/ miner.pc = "loop" /\ miner'.pc = "none"
  BY <1>1, GoParts DEF MinerPart, MinerPC
<1>3. UNCHANGED <<now, chain, quit, round, stale, mined, newBlocks, sent, own, mode,
                  sync, keeper, mining, locked>>
  BY <1>1 DEF chainVars, roundVars, outVars, envVars
<1>4. MinerTypeOK' /\ StoppedIsGone' /\ newBlocks' \in Seq(Nat)
  BY <1>2, <1>3 DEF MinerPart, MinerTypeOK, StoppedIsGone, RoundTyped
<1> QED
  BY <1>2, <1>3, <1>4, OutsideKeeps

\* Every step of the miner and of what is around it.
LEMMA MinerStepKeeps ==
    ASSUME MinerPart, MinerStep \/ Reported \/ Monitor \/ Broadcast \/ BestChanges \/ Tick
    PROVE  MinerPart'
<1>1. CASE Monitor \/ Broadcast \/ BestChanges \/ Tick
  BY <1>1, OutsideStepKeeps
<1>2. CASE Begin \/ Exit
  BY <1>2, BeginExitKeeps
<1>3. CASE Template
  BY <1>3, TemplateKeeps
<1>4. CASE Proofs
  <2>1. miner.pc = "monitor" /\ UNCHANGED <<chainVars, quit, outVars, envVars>>
    BY <1>4 DEF Proofs
  <2>2. CASE GiveUp
    BY <2>1, <2>2, GiveUpKeeps
  <2>3. CASE ~GiveUp
    <3>1. Go("search") /\ round' = [round EXCEPT !.all = Usable(mining)] /\ Watch
      BY <1>4, <2>3 DEF Proofs
    <3>2. Usable(mining) \in SUBSET Spaces
      BY DEF Usable, MinerPart, MinerTypeOK
    <3> QED
      BY <2>1, <3>1, <3>2, SearchBegins
  <2> QED
    BY <2>2, <2>3
<1>5. CASE Search
  BY <1>5, SearchKeeps
<1>6. CASE SearchEnds
  BY <1>6, GiveUpKeeps DEF SearchEnds
<1>7. CASE Task
  <2>1. miner.pc = "monitor" /\ UNCHANGED <<chainVars, quit, outVars, envVars>>
    BY <1>7 DEF Task
  <2>2. CASE GiveUp
    BY <2>1, <2>2, GiveUpKeeps
  <2>3. CASE ~GiveUp
    <3>1. Go("search") /\ Watch /\ round' = round
      BY <1>7, <2>3 DEF Task
    <3>2. round' = [round EXCEPT !.all = round.all] /\ round.all \in SUBSET Spaces
      BY <3>1 DEF MinerPart, RoundTyped
    <3> QED
      BY <2>1, <3>1, <3>2, SearchBegins
  <2> QED
    BY <2>2, <2>3
<1>8. CASE ProofOfBest
  <2>1. miner.pc = "search" /\ UNCHANGED <<chainVars, quit, outVars, envVars>>
        /\ \/ Go("sign") /\ stale' = "off" /\ UNCHANGED round
           \/ GiveUp
    BY <1>8 DEF ProofOfBest
  <2>2. CASE GiveUp
    BY <2>1, <2>2, GiveUpKeeps
  <2>3. CASE Go("sign") /\ stale' = "off" /\ UNCHANGED round
    BY <2>1, <2>3, RoundGoesOn DEF StaleStates
  <2> QED
    BY <2>1, <2>2, <2>3
<1>9. CASE Sign \/ CollectorSigns
  <2>1. miner.pc = "sign" /\ UNCHANGED <<chainVars, quit, outVars, envVars>>
        /\ ((Go("submit") /\ UNCHANGED roundVars) \/ GiveUp)
    BY <1>9 DEF Sign, CollectorSigns
  <2>2. CASE GiveUp
    BY <2>1, <2>2, GiveUpKeeps
  <2>3. CASE Go("submit") /\ UNCHANGED roundVars
    <3>1. UNCHANGED round /\ stale' \in StaleStates
      BY <2>3 DEF roundVars, MinerPart, MinerTypeOK, StaleStates
    <3> QED
      BY <2>1, <2>3, <3>1, RoundGoesOn
  <2> QED
    BY <2>1, <2>2, <2>3
<1>10. CASE TemplateQuits
  BY <1>10, GiveUpKeeps DEF TemplateQuits
<1>11. CASE Process
  BY <1>11, ProcessKeeps
<1>12. CASE Send
  BY <1>12, SendKeeps
<1>13. CASE Reported
  BY <1>13, ReportKeeps DEF Reported
<1>14. CASE CheckTip
  BY <1>14, CheckTipKeeps
<1>15. CASE Hangs
  <2>1. /\ miner.pc \in {"search", "sign"} /\ Go("hung") /\ UNCHANGED roundVars
        /\ UNCHANGED <<chainVars, quit, outVars, envVars>>
    BY <1>15 DEF Hangs
  <2>2. UNCHANGED round /\ stale' \in StaleStates
    BY <2>1 DEF roundVars, MinerPart, MinerTypeOK, StaleStates
  <2> QED
    BY <2>1, <2>2, RoundGoesOn
<1> QED
  BY <1>1, <1>2, <1>3, <1>4, <1>5, <1>6, <1>7, <1>8, <1>9, <1>10, <1>11, <1>12, <1>13,
     <1>14, <1>15
  DEF MinerStep

\* None of them starts or stops a service.
LEMMA MinerStepServices ==
    ASSUME MinerTypeOK, MinerStep \/ Reported \/ Monitor \/ Broadcast \/ BestChanges \/ Tick
    PROVE  UNCHANGED <<mode, keeper, mining, quit>> /\ miner'.svc = miner.svc
<1>1. UNCHANGED <<mode, keeper, mining, quit>>
  BY DEF MinerStep, Reported, Monitor, Broadcast, BestChanges, Tick, Begin, Exit, Template,
         CheckTip, Proofs, Search, SearchEnds, Task, ProofOfBest, Hangs, Sign, CollectorSigns, TemplateQuits,
         Process, Send, Report, envVars
<1>2. miner' = miner \/ \E pc \in MinerPC : Go(pc)
  BY DEF MinerStep, Reported, Monitor, Broadcast, BestChanges, Tick, Begin, Exit, Template,
         CheckTip, Proofs, Search, SearchEnds, Task, ProofOfBest, Hangs, Sign, CollectorSigns, TemplateQuits,
         Process, Send, Report, GiveUp, MinerPC
<1> QED
  BY <1>1, <1>2, GoParts

-----------------------------------------------------------------------------
(* The services.                                                           *)

\* What a start or a stop leaves of the miner: a stopped one has no goroutine
\* to speak of, and no round is cut off.
ServiceStep ==
    /\ miner' \in [svc : {"stopped", "running", "stopping"}, pc : MinerPC]
    /\ quit' \in BOOLEAN /\ keeper' \in KeeperStates
    /\ StoppedIsGone'
    /\ \/ miner'.pc = miner.pc
       \/ miner.pc \in {"none", "spawned", "loop"} /\ miner'.pc = "spawned"

\* PoCMiner.OnStart.
LEMMA StartMinerStep ==
    ASSUME MinerPart, StartMiner
    PROVE  ServiceStep
<1>1. miner \in [svc : {"stopped", "running", "stopping"}, pc : MinerPC]
      /\ quit \in BOOLEAN /\ keeper \in KeeperStates /\ StoppedIsGone
  BY DEF MinerPart, MinerTypeOK, KeeperStates
<1>2. CASE UNCHANGED <<miner, quit, keeper>>
  BY <1>1, <1>2 DEF ServiceStep, StoppedIsGone
<1>3. CASE ~UNCHANGED <<miner, quit, keeper>>
  <2>1. /\ miner.svc = "stopped" /\ miner' = [svc |-> "running", pc |-> "spawned"]
        /\ quit' = FALSE /\ keeper' \in KeeperStates
    BY <1>1, <1>3 DEF StartMiner, KeeperStarts, KeeperStates
  <2>2. miner.pc \in {"none", "spawned", "loop"}
    BY <1>1, <2>1 DEF StoppedIsGone
  <2> QED
    BY <2>1, <2>2 DEF ServiceStep, StoppedIsGone, MinerPC
<1> QED
  BY <1>2, <1>3

\* PoCMiner.OnStop, up to the wait.
LEMMA StopMinerStep ==
    ASSUME MinerPart, StopMiner, UNCHANGED keeper
    PROVE  ServiceStep /\ miner'.svc # "running"
<1>1. miner \in [svc : {"stopped", "running", "stopping"}, pc : MinerPC]
      /\ quit \in BOOLEAN /\ keeper \in KeeperStates /\ StoppedIsGone
  BY DEF MinerPart, MinerTypeOK, KeeperStates
<1>2. CASE miner.svc = "running"
  <2>1. miner' = [miner EXCEPT !.svc = "stopping"] /\ quit' = TRUE
    BY <1>2 DEF StopMiner
  <2>2. miner' \in [svc : {"stopped", "running", "stopping"}, pc : MinerPC]
        /\ miner'.svc = "stopping" /\ miner'.pc = miner.pc
    BY <1>1, <2>1
  <2> QED
    BY <1>1, <2>1, <2>2 DEF ServiceStep, StoppedIsGone
<1>3. CASE miner.svc # "running"
  BY <1>1, <1>3 DEF StopMiner, ServiceStep, StoppedIsGone
<1> QED
  BY <1>2, <1>3

\* OnStop returns when the goroutine no longer counts.
LEMMA StopReturnedStep ==
    ASSUME MinerPart, StopReturned, miner.svc = "stopping" => MinerGone,
           UNCHANGED <<keeper, quit>>
    PROVE  /\ ServiceStep
           /\ miner.svc # "running" =>
                /\ miner'.svc = "stopped"
                /\ miner'.pc = "none" \/ (miner'.pc \in {"spawned", "loop"} /\ quit')
<1>1. miner \in [svc : {"stopped", "running", "stopping"}, pc : MinerPC]
      /\ quit \in BOOLEAN /\ keeper \in KeeperStates /\ StoppedIsGone
  BY DEF MinerPart, MinerTypeOK, KeeperStates
<1>2. CASE miner.svc = "stopping"
  <2>1. miner' = [miner EXCEPT !.svc = "stopped"] /\ miner.pc \in {"none", "spawned"}
    BY <1>2 DEF StopReturned, MinerGone
  <2>2. miner' \in [svc : {"stopped", "running", "stopping"}, pc : MinerPC]
        /\ miner'.svc = "stopped" /\ miner'.pc = miner.pc
    BY <1>1, <2>1
  <2> QED
    BY <1>1, <1>2, <2>1, <2>2 DEF ServiceStep, StoppedIsGone
<1>3. CASE miner.svc # "stopping"
  BY <1>1, <1>3 DEF StopReturned, ServiceStep, StoppedIsGone
<1> QED
  BY <1>2, <1>3

\* A step of the process or of a handler that starts and stops services.
LEMMA ServiceKeeps ==
    ASSUME MinerPart, ServiceStep,
           sync' \in {"new", "running", "stopped"}, mining' \in SUBSET Spaces,
           locked' \in BOOLEAN, UNCHANGED <<chainVars, roundVars, outVars, mode>>
    PROVE  MinerPart'
<1>1. UNCHANGED <<now, chain, round, stale, mined, newBlocks, sent, own, mode>>
  BY DEF chainVars, roundVars, outVars
<1>2. MinerTypeOK' /\ newBlocks' \in Seq(Nat)
  BY <1>1 DEF MinerPart, MinerTypeOK, ServiceStep, RoundTyped, KeeperStates
<1> QED
  BY <1>1, <1>2, OutsideKeeps DEF ServiceStep

\* Nothing is started or stopped.
LEMMA NoServiceStep ==
    ASSUME MinerPart, UNCHANGED <<miner, quit>>, keeper' \in KeeperStates
    PROVE  ServiceStep
  BY DEF MinerPart, MinerTypeOK, ServiceStep, StoppedIsGone

-----------------------------------------------------------------------------
(* The handlers.                                                           *)

HandlerState ==
    [req : Requests \cup {"none"},
     pc : {"idle", "begin", "keeper", "stop", "wait", "unlock", "configure", "act"},
     alone : BOOLEAN]

\* A handler at work goes on, or is done; the others stay where they are.
LEMMA HandlerMoves ==
    ASSUME HandlerPart, NEW h \in Handlers, handler[h].pc # "idle", proc' = proc,
           NEW pc \in {"begin", "keeper", "stop", "wait", "unlock", "configure", "act"},
           To(h, pc) \/ Done(h)
    PROVE  /\ handler' \in [Handlers -> HandlerState]
           /\ AloneIsAlone'
           /\ \A g \in Handlers \ {h} : handler'[g] = handler[g]
           /\ To(h, pc) => /\ handler'[h].pc = pc /\ handler'[h].req = handler[h].req
                           /\ handler'[h].alone = handler[h].alone
           /\ ~To(h, pc) => handler'[h] = Free
<1>1. handler \in [Handlers -> HandlerState] /\ AloneIsAlone
  BY DEF HandlerPart, TypeOK, HandlerState
<1>2. handler[h] # Free /\ handler[h] \in HandlerState
  BY <1>1 DEF Free
<1>3. CASE To(h, pc)
  <2> DEFINE n == [handler[h] EXCEPT !.pc = pc]
  <2>1. handler' = [handler EXCEPT ![h] = n]
    BY <1>1, <1>3 DEF To
  <2>2. n \in HandlerState /\ n.pc = pc /\ n.req = handler[h].req /\ n.alone = handler[h].alone
    BY <1>2 DEF HandlerState
  <2> HIDE DEF n
  <2>3. /\ handler' \in [Handlers -> HandlerState] /\ handler'[h] = n
        /\ \A g \in Handlers \ {h} : handler'[g] = handler[g]
    BY <1>1, <2>1, <2>2
  <2>4. AloneIsAlone'
    BY <1>1, <1>2, <2>2, <2>3 DEF AloneIsAlone
  <2> QED
    BY <1>3, <2>2, <2>3, <2>4
<1>4. CASE Done(h) /\ ~To(h, pc)
  <2>1. handler' = [handler EXCEPT ![h] = Free]
    BY <1>4 DEF Done
  <2>2. Free \in HandlerState /\ Free.pc = "idle"
    BY DEF Free, HandlerState
  <2>3. /\ handler' \in [Handlers -> HandlerState] /\ handler'[h] = Free
        /\ \A g \in Handlers \ {h} : handler'[g] = handler[g]
    BY <1>1, <2>1, <2>2
  <2>4. AloneIsAlone'
    BY <1>1, <1>2, <2>2, <2>3 DEF AloneIsAlone
  <2> QED
    BY <1>4, <2>3, <2>4
<1> QED
  BY <1>3, <1>4

\* Only the handler that works can be one that stops everything alone.
LEMMA OneHandlerWorks ==
    ASSUME HandlerPart, NEW h \in Handlers, handler[h].pc # "idle", proc' = proc,
           \A g \in Handlers \ {h} : handler'[g] = handler[g],
           handler'[h].req = "Stop" /\ handler'[h].alone /\ proc = "running" =>
             /\ V1' /\ handler'[h].pc = "keeper" => keeper' # "running"
             /\ V1' /\ handler'[h].pc \in {"stop", "wait"} => keeper' = "stopped"
             /\ handler'[h].pc = "wait" => miner'.svc # "running"
    PROVE  StopProgress'
<1>1. \A g \in Handlers \ {h} : handler[g].req = "Stop" => ~handler[g].alone
  <2> SUFFICES ASSUME NEW g \in Handlers \ {h}, handler[g].req = "Stop", handler[g].alone
               PROVE  FALSE
    OBVIOUS
  <2>1. handler[g].pc # "idle"
    BY DEF HandlerPart, AloneIsAlone, Free
  <2>2. handler[h] = Free
    BY <2>1 DEF HandlerPart, AloneIsAlone
  <2> QED
    BY <2>2 DEF Free
<1> QED
  BY <1>1 DEF StopProgress

\* A handler's step: what it does to the services, and where it goes next.
LEMMA HandlerCombines ==
    ASSUME NodeInv, NEW h \in Handlers, handler[h].pc # "idle",
           NEW pc \in {"begin", "keeper", "stop", "wait", "unlock", "configure", "act"},
           To(h, pc) \/ Done(h),
           ServiceStep, sync' \in {"new", "running", "stopped"}, mining' \in SUBSET Spaces,
           locked' \in BOOLEAN, UNCHANGED <<chainVars, roundVars, outVars, mode>>,
           proc' = proc, shutdown' \in BOOLEAN, configured' \in BOOLEAN, payout' \in BOOLEAN,
           queued' \in SUBSET Spaces, requests' = requests,
           To(h, pc) /\ handler[h].req = "Stop" /\ handler[h].alone /\ proc = "running" =>
             /\ V1 /\ pc = "keeper" => keeper' # "running"
             /\ V1 /\ pc \in {"stop", "wait"} => keeper' = "stopped"
             /\ pc = "wait" => miner'.svc # "running"
    PROVE  NodeInv'
<1>1. MinerPart'
  BY ServiceKeeps DEF NodeInv
<1>2. /\ handler' \in [Handlers -> HandlerState]
      /\ AloneIsAlone'
      /\ \A g \in Handlers \ {h} : handler'[g] = handler[g]
      /\ To(h, pc) => /\ handler'[h].pc = pc /\ handler'[h].req = handler[h].req
                      /\ handler'[h].alone = handler[h].alone
      /\ ~To(h, pc) => handler'[h] = Free
  BY HandlerMoves DEF NodeInv
<1>3. TypeOK'
  BY <1>1, <1>2 DEF MinerPart, NodeInv, HandlerPart, TypeOK, HandlerState
<1>4. StopProgress'
  <2>1. V1' = V1
    BY DEF V1
  <2>2. CASE To(h, pc)
    BY <1>2, <2>1, <2>2, OneHandlerWorks DEF NodeInv
  <2>3. CASE ~To(h, pc)
    <3>1. handler'[h].req # "Stop"
      BY <1>2, <2>3 DEF Free
    <3> QED
      BY <1>2, <3>1, OneHandlerWorks DEF NodeInv
  <2> QED
    BY <2>2, <2>3
<1> QED
  BY <1>1, <1>2, <1>3, <1>4 DEF NodeInv, HandlerPart

\* The shape of what the handlers share.
LEMMA Shared ==
    ASSUME NodeInv
    PROVE  /\ keeper \in KeeperStates /\ sync \in {"new", "running", "stopped"}
           /\ mining \in SUBSET Spaces /\ locked \in BOOLEAN
           /\ shutdown \in BOOLEAN /\ configured \in BOOLEAN /\ payout \in BOOLEAN
           /\ queued \in SUBSET Spaces
           /\ MinerPart
  BY DEF NodeInv, MinerPart, MinerTypeOK, HandlerPart, TypeOK, KeeperStates

\* Every step of a handler.
LEMMA HandlerStepKeeps ==
    ASSUME NodeInv, NEW h \in Handlers, HandlerStep(h)
    PROVE  NodeInv'
<1> USE Shared
<1>1. CASE ConfigureBegin(h)
  <2>1. /\ handler[h].req = "Configure" /\ handler[h].pc = "begin"
        /\ To(h, "unlock") \/ Done(h)
        /\ UNCHANGED <<chainVars, roundVars, outVars, mode, miner, quit, sync, keeper,
                       mining, locked, proc, shutdown, configured, queued, requests>>
        /\ payout' \in BOOLEAN
    BY <1>1 DEF ConfigureBegin, At, minerVars, chainVars, roundVars, outVars
  <2>2. ServiceStep
    BY <2>1, NoServiceStep
  <2> QED
    BY <2>1, <2>2, HandlerCombines
<1>2. CASE Unlocks(h)
  <2>1. /\ handler[h].req \in {"Configure", "Unlock"} /\ handler[h].pc \in {"unlock", "begin"}
        /\ To(h, "configure") \/ Done(h)
        /\ UNCHANGED <<chainVars, roundVars, outVars, mode, miner, quit, sync, keeper,
                       mining, proc, shutdown, configured, queued, payout, requests>>
        /\ locked' \in BOOLEAN
    BY <1>2 DEF Unlocks, At
  <2>2. ServiceStep
    BY <2>1, NoServiceStep
  <2> QED
    BY <2>1, <2>2, HandlerCombines
<1>3. CASE Configures(h)
  <2>1. /\ handler[h].pc = "configure" /\ handler[h].req = "Configure" /\ Done(h)
        /\ UNCHANGED <<chainVars, roundVars, outVars, mode, miner, quit, sync, keeper,
                       locked, proc, shutdown, queued, payout, requests>>
        /\ configured' \in BOOLEAN /\ mining' \in SUBSET Spaces
    BY <1>3 DEF Configures, At, minerVars, chainVars, roundVars, outVars
  <2>2. ServiceStep
    BY <2>1, NoServiceStep
  <2> QED
    BY <2>1, <2>2, HandlerCombines
<1>4. CASE StartFor(h)
  <2>1. /\ handler[h].pc = "begin" /\ handler[h].req \in {"Plot", "Mine"}
        /\ To(h, "act") \/ Done(h)
        /\ UNCHANGED <<chainVars, roundVars, outVars, mode, sync,
                       mining, locked, proc, shutdown, configured, queued, payout, requests>>
        /\ \/ UNCHANGED <<miner, quit>> /\ keeper' \in {keeper, KeeperStarts}
           \/ StartMiner
    BY <1>4 DEF StartFor, At
  <2>2. KeeperStarts \in KeeperStates
    BY DEF KeeperStarts, KeeperStates
  <2>3. ServiceStep
    BY <2>1, <2>2, NoServiceStep, StartMinerStep
  <2> QED
    BY <2>1, <2>3, HandlerCombines
<1>5. CASE Acts(h)
  <2>1. /\ handler[h].pc = "act" /\ handler[h].req \in {"Plot", "Mine"} /\ Done(h)
        /\ UNCHANGED <<chainVars, roundVars, outVars, mode, miner, quit, sync, keeper,
                       locked, proc, shutdown, configured, payout, requests>>
        /\ mining' \in SUBSET Spaces /\ queued' \in SUBSET Spaces
    BY <1>5 DEF Acts, At
  <2>2. ServiceStep
    BY <2>1, NoServiceStep
  <2> QED
    BY <2>1, <2>2, HandlerCombines
<1>6. CASE StopKeeper(h)
  <2>1. /\ handler[h].pc = "begin" /\ handler[h].req = "Stop" /\ To(h, "keeper")
        /\ UNCHANGED <<chainVars, roundVars, outVars, mode, miner, quit, sync, mining,
                       locked, proc, shutdown, configured, queued, payout, requests>>
        /\ keeper' \in KeeperStates
        /\ V1 => keeper' # "running"
    BY <1>6 DEF StopKeeper, At, StopsKeeper, KeeperStates
  <2>2. ServiceStep
    BY <2>1, NoServiceStep
  <2> QED
    BY <2>1, <2>2, HandlerCombines
<1>7. CASE StopOne(h)
  <2>1. /\ handler[h].pc = "begin" /\ handler[h].req = "StopOne"
        /\ To(h, "stop") \/ Done(h)
        /\ UNCHANGED <<chainVars, roundVars, outVars, mode, miner, quit, sync, keeper,
                       locked, proc, shutdown, configured, payout, requests>>
        /\ mining' \in SUBSET Spaces /\ queued' \in SUBSET Spaces
    BY <1>7 DEF StopOne, At
  <2>2. ServiceStep
    BY <2>1, NoServiceStep
  <2> QED
    BY <2>1, <2>2, HandlerCombines
<1>8. CASE StopsMiner(h)
  <2>1. /\ handler[h].pc = "stop" /\ To(h, "wait") /\ StopMiner
        /\ UNCHANGED <<chainVars, roundVars, outVars, mode, sync, keeper, mining,
                       locked, proc, shutdown, configured, payout, queued, requests>>
    BY <1>8 DEF StopsMiner, At, envVars
  <2>2. ServiceStep /\ miner'.svc # "running"
    BY <2>1, StopMinerStep
  <2>3. V1 /\ handler[h].req = "Stop" /\ handler[h].alone /\ proc = "running"
          => keeper' = "stopped"
    BY <2>1 DEF NodeInv, HandlerPart, StopProgress
  <2> QED
    BY <2>1, <2>2, <2>3, HandlerCombines
<1>9. CASE Stopped(h)
  <2>1. /\ handler[h].pc = "wait" /\ Done(h) /\ StopReturned
        /\ miner.svc = "stopping" => MinerGone
        /\ UNCHANGED <<chainVars, roundVars, outVars, mode, quit, sync, keeper,
                       locked, proc, shutdown, configured, payout, requests>>
        /\ mining' \in SUBSET Spaces /\ queued' \in SUBSET Spaces
    BY <1>9 DEF Stopped, At
  <2>2. ServiceStep
    BY <2>1, StopReturnedStep
  <2>3. ~To(h, "begin")
    <3>1. handler \in [Handlers -> HandlerState]
      BY DEF NodeInv, HandlerPart, TypeOK, HandlerState
    <3>2. handler'[h].pc = "idle"
      BY <2>1, <3>1 DEF Done, Free
    <3> QED
      BY <3>1, <3>2 DEF To, HandlerState
  <2> QED
    BY <2>1, <2>2, <2>3, HandlerCombines
<1>10. CASE LockBegin(h)
  <2>1. /\ handler[h].pc = "begin" /\ handler[h].req = "Lock"
        /\ To(h, "act") \/ Done(h)
        /\ UNCHANGED <<chainVars, roundVars, outVars, mode, miner, quit, sync, keeper,
                       mining, locked, proc, shutdown, configured, queued, payout, requests>>
    BY <1>10 DEF LockBegin, At, minerVars, chainVars, roundVars, outVars
  <2>2. ServiceStep
    BY <2>1, NoServiceStep
  <2> QED
    BY <2>1, <2>2, HandlerCombines
<1>11. CASE Locks(h)
  <2>1. /\ handler[h].pc = "act" /\ handler[h].req = "Lock" /\ Done(h)
        /\ UNCHANGED <<chainVars, roundVars, outVars, mode, miner, quit, sync, keeper,
                       mining, proc, shutdown, configured, queued, payout, requests>>
        /\ locked' = TRUE
    BY <1>11 DEF Locks, At
  <2>2. ServiceStep
    BY <2>1, NoServiceStep
  <2> QED
    BY <2>1, <2>2, HandlerCombines
<1>12. CASE QuitClient(h)
  <2>1. /\ handler[h].pc = "begin" /\ handler[h].req = "Quit" /\ Done(h)
        /\ UNCHANGED <<chainVars, roundVars, outVars, mode, miner, quit, sync, keeper,
                       mining, locked, proc, configured, queued, payout, requests>>
        /\ shutdown' = TRUE
    BY <1>12 DEF QuitClient, At, minerVars, chainVars, roundVars, outVars
  <2>2. ServiceStep
    BY <2>1, NoServiceStep
  <2> QED
    BY <2>1, <2>2, HandlerCombines
<1>13. CASE KeeperStopped(h)
  <2>1. /\ handler[h].pc = "keeper" /\ handler[h].req = "Stop" /\ To(h, "stop")
        /\ UNCHANGED <<chainVars, roundVars, outVars, mode, miner, quit, sync, keeper,
                       mining, locked, proc, shutdown, configured, queued, payout, requests>>
        /\ V1 => keeper \notin {"stopping", "hung"}
    BY <1>13 DEF KeeperStopped, KeeperGone, At, minerVars, chainVars, roundVars, outVars
  <2>2. ServiceStep
    BY <2>1, NoServiceStep
  <2>3. V1 /\ handler[h].alone /\ proc = "running" => keeper' = "stopped"
    BY <2>1 DEF NodeInv, HandlerPart, StopProgress, KeeperStates
  <2> QED
    BY <2>1, <2>2, <2>3, HandlerCombines
<1> QED
  BY <1>1, <1>2, <1>3, <1>4, <1>5, <1>6, <1>7, <1>8, <1>9, <1>10, <1>11, <1>12, <1>13
  DEF HandlerStep

\* A request comes in: who was alone no longer is.
LEMMA RequestKeeps ==
    ASSUME NodeInv, NEW h \in Handlers, Request(h)
    PROVE  NodeInv'
<1> USE Shared
<1>1. /\ UNCHANGED <<chainVars, roundVars, outVars, mode, miner, quit, sync, keeper,
                     mining, locked, proc, shutdown, configured, queued, payout>>
      /\ proc = "running" /\ handler[h] = Free
      /\ requests < MaxRequests /\ requests' = requests + 1
  BY DEF Request, minerVars, chainVars, roundVars, outVars
<1>2. PICK req \in Requests :
        handler' = [g \in Handlers |->
                      IF g = h THEN [req |-> req, pc |-> "begin", alone |-> Others(h) = {}]
                      ELSE [handler[g] EXCEPT !.alone = @ /\ g \notin Others(h)]]
  BY DEF Request
<1>3. handler \in [Handlers -> HandlerState] /\ AloneIsAlone /\ requests \in 0 .. MaxRequests
  BY DEF NodeInv, HandlerPart, TypeOK, HandlerState
<1>4. /\ handler'[h] \in HandlerState /\ handler'[h].pc = "begin" /\ handler'[h].req = req
      /\ handler'[h].alone = (Others(h) = {})
  BY <1>2 DEF HandlerState
<1>5. ASSUME NEW g \in Handlers \ {h}
      PROVE  /\ handler'[g] \in HandlerState
             /\ handler'[g].pc = handler[g].pc /\ handler'[g].req = handler[g].req
             /\ handler[g].pc # "idle" => ~handler'[g].alone
             /\ handler[g].pc = "idle" => handler'[g] = Free
  <2> DEFINE b == handler[g].alone /\ g \notin Others(h)
             n == [handler[g] EXCEPT !.alone = b]
  <2>1. handler'[g] = n
    BY <1>2
  <2>2. handler[g] \in HandlerState
    BY <1>3
  <2>3. b \in BOOLEAN
    OBVIOUS
  <2>4. g \in Others(h) <=> handler[g].pc # "idle"
    BY DEF Others
  <2>5. CASE handler[g].pc # "idle"
    <3>1. b = FALSE
      BY <2>3, <2>4, <2>5
    <3> HIDE DEF b
    <3>2. /\ n \in HandlerState /\ n.pc = handler[g].pc /\ n.req = handler[g].req
          /\ n.alone = FALSE
      BY <2>2, <3>1 DEF HandlerState
    <3> QED
      BY <2>1, <2>5, <3>2
  <2>6. CASE handler[g].pc = "idle"
    <3>1. handler[g] = Free
      BY <1>3, <2>6 DEF AloneIsAlone
    <3>2. b = TRUE
      BY <2>4, <2>6, <3>1 DEF Free
    <3> HIDE DEF b
    <3>3. n \in HandlerState /\ n.req = "none" /\ n.pc = "idle" /\ n.alone = TRUE
      <4>1. /\ n \in HandlerState /\ n.pc = handler[g].pc /\ n.req = handler[g].req
            /\ n.alone = TRUE
        BY <2>2, <3>2 DEF HandlerState
      <4> QED
        BY <3>1, <4>1 DEF Free
    <3> HIDE DEF n
    <3>4. \A x \in HandlerState : x = [req |-> x.req, pc |-> x.pc, alone |-> x.alone]
      BY DEF HandlerState
    <3>5. n = Free
      BY <3>3, <3>4 DEF Free
    <3> QED
      BY <2>1, <2>2, <2>6, <3>1, <3>5
  <2> QED
    BY <2>5, <2>6
<1>6. handler' \in [Handlers -> HandlerState]
  <2>1. \A g \in Handlers : handler'[g] \in HandlerState
    BY <1>4, <1>5
  <2> QED
    BY <1>2, <2>1
<1>7. AloneIsAlone'
  <2>1. handler'[h].alone => \A g \in Handlers \ {h} : handler'[g] = Free
    BY <1>4, <1>5 DEF Others
  <2>2. Free.pc = "idle"
    BY DEF Free
  <2> QED
    BY <1>1, <1>4, <1>5, <2>1, <2>2 DEF AloneIsAlone
<1>8. StopProgress'
  <2>1. \A g \in Handlers \ {h} : handler[g].req = "Stop" => handler[g].pc # "idle"
    BY <1>3 DEF AloneIsAlone, Free
  <2> QED
    BY <1>4, <1>5, <2>1 DEF StopProgress
<1>9. ServiceStep
  BY <1>1, NoServiceStep
<1>10. MinerPart'
  BY <1>1, <1>9, ServiceKeeps
<1>11. requests' \in 0 .. MaxRequests
  BY <1>1, <1>3, NodeAssumption
<1>12. TypeOK'
  BY <1>1, <1>6, <1>10, <1>11 DEF NodeInv, HandlerPart, TypeOK, MinerPart, HandlerState
<1> QED
  BY <1>7, <1>8, <1>10, <1>12 DEF NodeInv, HandlerPart

-----------------------------------------------------------------------------
(* The process.                                                            *)

\* A step of the process, or of a goroutine that is no handler.
LEMMA MainCombines ==
    ASSUME NodeInv, ServiceStep, sync' \in {"new", "running", "stopped"},
           mining' \in SUBSET Spaces, UNCHANGED <<chainVars, roundVars, outVars, mode, locked>>,
           proc' \in ProcPC, shutdown' \in BOOLEAN, queued' \in SUBSET Spaces,
           UNCHANGED <<configured, payout, handler, requests>>,
           proc' \in {"new", "keeper", "miner"} => proc \in {"new", "keeper", "miner"},
           proc' = "running" =>
             \/ /\ proc = "running" /\ miner'.svc = miner.svc
                /\ keeper' = keeper \/ (keeper = "stopping" /\ keeper' # "running")
             \/ proc = "miner"
    PROVE  NodeInv'
<1>1. MinerPart'
  BY Shared, ServiceKeeps
<1>2. TypeOK'
  BY <1>1 DEF MinerPart, NodeInv, HandlerPart, TypeOK
<1>3. AloneIsAlone'
  BY DEF NodeInv, HandlerPart, AloneIsAlone
<1>4. StopProgress'
  <2>1. proc = "miner" => \A h \in Handlers : handler[h].req # "Stop"
    BY DEF NodeInv, HandlerPart, AloneIsAlone, Free
  <2> QED
    BY <2>1 DEF NodeInv, HandlerPart, StopProgress, V1
<1> QED
  BY <1>1, <1>2, <1>3, <1>4 DEF NodeInv, HandlerPart

\* massMain, the interrupt, the goroutine of QuitClient and the plotter.
LEMMA MainStepKeeps ==
    ASSUME NodeInv, MainStep \/ Interrupt \/ QuitStops \/ KeeperMines \/ KeeperStops
    PROVE  NodeInv'
<1> USE Shared
<1>1. CASE SrvStart \/ Interrupt \/ QuitStops \/ KeeperMines \/ KeeperStops \/ StartKeeper
           \/ ServerStopKeeper \/ ServerWaitKeeper \/ ServerStopSync
  <2>1. KeeperStarts \in KeeperStates
    BY DEF KeeperStarts, KeeperStates
  <2>2. /\ UNCHANGED <<chainVars, roundVars, outVars, mode, locked, miner, quit,
                       configured, payout, handler, requests>>
        /\ keeper' \in KeeperStates
        /\ sync' \in {"new", "running", "stopped"} /\ mining' \in SUBSET Spaces
        /\ shutdown' \in BOOLEAN /\ queued' \in SUBSET Spaces
    BY <1>1, <2>1 DEF SrvStart, Interrupt, QuitStops, KeeperMines, StartKeeper,
       ServerStopKeeper, ServerWaitKeeper, ServerStopSync, KeeperStops, StopsKeeper,
       KeeperStates, minerVars, chainVars, roundVars, outVars, apiVars
  <2>3. /\ proc' \in ProcPC
        /\ proc' \in {"new", "keeper", "miner"} => proc \in {"new", "keeper", "miner"}
        /\ proc' = "running" =>
             /\ proc = "running" /\ miner'.svc = miner.svc
             /\ keeper' = keeper \/ (keeper = "stopping" /\ keeper' # "running")
    BY <1>1 DEF SrvStart, Interrupt, QuitStops, KeeperMines, KeeperStops, StartKeeper,
       ServerStopKeeper, ServerWaitKeeper, ServerStopSync, minerVars, Main, ProcPC, NodeInv, HandlerPart, TypeOK
  <2>4. ServiceStep
    BY <2>2, NoServiceStep
  <2> QED
    BY <2>2, <2>3, <2>4, MainCombines
<1>2. CASE StartMinerMain
  <2>1. /\ UNCHANGED <<chainVars, roundVars, outVars, mode, locked, sync, mining, shutdown,
                       queued, configured, payout, handler, requests>>
        /\ proc = "miner" /\ proc' = "running"
        /\ StartMiner \/ UNCHANGED <<miner, quit, keeper>>
    BY <1>2 DEF StartMinerMain, Main, apiVars
  <2>2. ServiceStep
    BY <2>1, StartMinerStep, NoServiceStep
  <2>3. proc' \in ProcPC
    BY <2>1 DEF ProcPC
  <2> QED
    BY <2>1, <2>2, <2>3, MainCombines
<1>3. CASE ServerStopMiner
  <2>1. /\ UNCHANGED <<chainVars, roundVars, outVars, mode, locked, sync, mining, keeper,
                       shutdown, queued, configured, payout, handler, requests>>
        /\ proc' = "waitMiner" /\ StopMiner
    BY <1>3 DEF ServerStopMiner, Main, apiVars, envVars
  <2>2. ServiceStep
    BY <2>1, StopMinerStep
  <2>3. proc' \in ProcPC
    BY <2>1 DEF ProcPC
  <2> QED
    BY <2>1, <2>2, <2>3, MainCombines
<1>4. CASE ServerWaitMiner
  <2>1. /\ UNCHANGED <<chainVars, roundVars, outVars, mode, locked, sync, mining, keeper,
                       quit, shutdown, queued, configured, payout, handler, requests>>
        /\ proc' = "stopKeeper" /\ StopReturned
        /\ miner.svc = "stopping" => MinerGone
    BY <1>4 DEF ServerWaitMiner, Main, apiVars, envVars
  <2>2. ServiceStep
    BY <2>1, StopReturnedStep
  <2>3. proc' \in ProcPC
    BY <2>1 DEF ProcPC
  <2> QED
    BY <2>1, <2>2, <2>3, MainCombines
<1> QED
  BY <1>1, <1>2, <1>3, <1>4 DEF MainStep

-----------------------------------------------------------------------------
(* The theorems.                                                           *)

\* A node begins stopped, with nothing mined and no request under way.
LEMMA InitKeeps ==
    ASSUME Init
    PROVE  NodeInv
<1>1. PICK b \in Starts : /\ MinerInit(b.cfg.mode, b.now, b.tip, b.cfg.password)
                          /\ cfg = b.cfg /\ requests = b.requests
  BY DEF Init
<1>2. /\ b.now \in 0 .. MaxSlot /\ b.tip \in 0 .. MaxTips /\ b.requests \in 0 .. MaxRequests
      /\ b.cfg \in Configs
  BY NodeAssumption
<1>3. b.cfg.mode \in {"core", "m1", "m2"} /\ b.cfg.password \in BOOLEAN /\ b.cfg.payout \in BOOLEAN
  BY <1>2, NodeAssumption
<1>4. /\ mode \in {"core", "m1", "m2"} /\ now \in 0 .. MaxSlot
      /\ chain = [height |-> 0, tip |-> b.tip, slot |-> 0]
      /\ miner = [svc |-> "stopped", pc |-> "none"]
      /\ quit = FALSE /\ round = NoRound /\ stale = "off"
      /\ mined = {} /\ newBlocks = <<>> /\ sent = 0 /\ own = <<>>
      /\ sync = "new" /\ keeper = "stopped" /\ mining = {} /\ locked \in BOOLEAN
  BY <1>1, <1>2, <1>3 DEF MinerInit
<1>5. MinerTypeOK /\ RoundTyped /\ StoppedIsGone
  <2>1. MinerTypeOK
    <3>1. chain \in [height : Nat, tip : 0 .. MaxTips, slot : Nat]
      BY <1>2, <1>4
    <3>2. miner \in [svc : {"stopped", "running", "stopping"}, pc : MinerPC]
      BY <1>4 DEF MinerPC
    <3>3. Len(newBlocks) <= ChanSize
      BY <1>4, MinerAssumption
    <3> QED
      BY <1>4, <3>1, <3>2, <3>3 DEF MinerTypeOK
  <2>2. own \in Seq(Block) /\ newBlocks \in Seq(Nat)
    BY <1>4
  <2>3. RoundTyped
    BY <1>4, <2>2, NoRoundParts DEF RoundTyped
  <2> QED
    BY <1>4, <2>1, <2>3 DEF StoppedIsGone
<1>6. RoundOver /\ HeightsNoted /\ OncePerHeight
  BY <1>4 DEF RoundOver, HeightsNoted, OncePerHeight, Working
<1>7. SearchedBelow /\ ReportsKept /\ EarliestBest
  BY <1>4, NoRoundParts DEF SearchedBelow, ReportsKept, EarliestBest
<1>8. /\ proc = "new" /\ shutdown = FALSE /\ configured \in BOOLEAN /\ payout \in BOOLEAN
      /\ queued \in SUBSET Spaces /\ handler = [h \in Handlers |-> Free]
      /\ requests \in 0 .. MaxRequests
  BY <1>1, <1>2, <1>3 DEF Init
<1>9. Free \in HandlerState
  BY DEF Free, HandlerState
<1>10. TypeOK
  BY <1>5, <1>8, <1>9 DEF TypeOK, ProcPC, HandlerState
<1>11. AloneIsAlone /\ StopProgress
  BY <1>8 DEF AloneIsAlone, StopProgress, Free
<1> QED
  BY <1>5, <1>6, <1>7, <1>10, <1>11 DEF NodeInv, MinerPart, HandlerPart

\* Every step of the node keeps the invariant.
LEMMA NextKeeps ==
    ASSUME NodeInv, [Next]_vars
    PROVE  NodeInv'
<1>1. CASE UNCHANGED vars
  <2>1. UNCHANGED <<chainVars, roundVars, outVars, mode, locked, miner, quit, sync, keeper,
                    mining, proc, shutdown, queued, configured, payout, handler, requests>>
    BY <1>1 DEF vars, chainVars, roundVars, outVars
  <2>2. ServiceStep
    BY <2>1, Shared, NoServiceStep
  <2>3. proc' \in ProcPC
    BY <2>1 DEF NodeInv, HandlerPart, TypeOK
  <2> QED
    BY <2>1, <2>2, <2>3, Shared, MainCombines
<1>2. CASE MainStep \/ Interrupt \/ QuitStops \/ KeeperMines \/ KeeperStops
  BY <1>2, MainStepKeeps
<1>3. ASSUME NEW h \in Handlers, Request(h) PROVE NodeInv'
  BY <1>3, RequestKeeps
<1>4. ASSUME NEW h \in Handlers, HandlerStep(h) PROVE NodeInv'
  BY <1>4, HandlerStepKeeps
<1>5. CASE /\ MinerStep \/ Reported \/ Monitor \/ Broadcast \/ BestChanges \/ Tick
           /\ NodeKeeps
  <2>1. MinerPart'
    BY <1>5, MinerStepKeeps DEF NodeInv
  <2>2. UNCHANGED <<mode, keeper>> /\ miner'.svc = miner.svc
    BY <1>5, MinerStepServices DEF NodeInv, MinerPart
  <2>3. UNCHANGED <<proc, shutdown, configured, queued, payout, handler, requests>>
    BY <1>5 DEF NodeKeeps, apiVars
  <2>4. TypeOK'
    BY <2>1, <2>3 DEF NodeInv, MinerPart, HandlerPart, TypeOK
  <2>5. AloneIsAlone' /\ StopProgress'
    BY <2>2, <2>3 DEF NodeInv, HandlerPart, AloneIsAlone, StopProgress, V1
  <2> QED
    BY <2>1, <2>4, <2>5 DEF NodeInv, HandlerPart
<1> QED
  BY <1>1, <1>2, <1>3, <1>4, <1>5 DEF Next

\* The invariant of the node holds of every behaviour.
THEOREM NodeInvariant == Spec => []NodeInv
<1>1. Init => NodeInv
  BY InitKeeps
<1>2. NodeInv /\ [Next]_vars => NodeInv'
  BY NextKeeps
<1> QED
  BY <1>1, <1>2, PTL DEF Spec

\* The node's state keeps its shape.
THEOREM NodeTyped == Spec => []TypeOK
<1>1. NodeInv => TypeOK
  BY DEF NodeInv, HandlerPart
<1> QED
  BY <1>1, NodeInvariant, PTL

\* The miner never has two blocks of one height accepted, although it notes a
\* height only after the block was handed to the sync manager.
THEOREM MinedOncePerHeight == Spec => []OncePerHeight
<1>1. NodeInv => OncePerHeight
  BY DEF NodeInv, MinerPart
<1> QED
  BY <1>1, NodeInvariant, PTL

\* The block is the earliest and best the search could make, and is not
\* submitted before its time.
THEOREM BlocksAreEarliest == Spec => []EarliestBest
<1>1. NodeInv => EarliestBest
  BY DEF NodeInv, MinerPart
<1> QED
  BY <1>1, NodeInvariant, PTL

\* A StopCapacitySpaces that no other request overlapped returns with keeper and
\* miner stopped, no space mining, and no goroutine of the miner but one that is
\* about to find its quit closed.
THEOREM StopAllStopsAll == Spec => StopAllStops
<1> DEFINE Quiet(h) ==
      (/\ handler[h].req = "Stop" /\ handler[h].alone
       /\ proc = "running"
       /\ handler'[h].pc = "idle")
      => /\ (V1 => keeper' = "stopped") /\ mining' = {}
         /\ miner'.svc = "stopped"
         /\ miner'.pc = "none" \/ (miner'.pc \in {"spawned", "loop"} /\ quit')
<1>1. ASSUME NodeInv, [Next]_vars, NEW h \in Handlers
      PROVE  Quiet(h)
  <2> SUFFICES ASSUME handler[h].req = "Stop", handler[h].alone, proc = "running",
                      handler'[h].pc = "idle"
               PROVE  /\ (V1 => keeper' = "stopped") /\ mining' = {}
                      /\ miner'.svc = "stopped"
                      /\ miner'.pc = "none" \/ (miner'.pc \in {"spawned", "loop"} /\ quit')
    OBVIOUS
  <2>1. /\ handler \in [Handlers -> HandlerState] /\ AloneIsAlone /\ StopProgress
        /\ handler[h] \in HandlerState
    BY <1>1 DEF NodeInv, HandlerPart, TypeOK, HandlerState
  <2>2. handler[h].pc # "idle"
    BY <2>1 DEF AloneIsAlone, Free
  <2>3. handler'[h] # handler[h]
    BY <2>2
  <2>4. \A g \in Handlers \ {h} : handler[g] = Free
    BY <2>1, <2>2 DEF AloneIsAlone
  <2>5. PICK g \in Handlers : Request(g) \/ HandlerStep(g)
    <3>1. ~UNCHANGED handler
      BY <2>3
    <3> QED
      BY <1>1, <3>1
      DEF Next, vars, MainStep, Interrupt, QuitStops, KeeperMines, KeeperStops, SrvStart,
          StartKeeper, StartMinerMain, ServerStopMiner, ServerWaitMiner, ServerStopKeeper,
          ServerWaitKeeper, ServerStopSync,
          NodeKeeps, apiVars
  <2>6. ~Request(g)
    <3> SUFFICES ASSUME Request(g) PROVE FALSE
      OBVIOUS
    <3>1. handler[g] = Free /\ g # h
      BY <2>2 DEF Request, Free
    <3>2. handler'[h] = [handler[h] EXCEPT !.alone = @ /\ h \notin Others(g)]
      BY <3>1 DEF Request
    <3> DEFINE b == handler[h].alone /\ h \notin Others(g)
    <3>3. b \in BOOLEAN /\ handler'[h] = [handler[h] EXCEPT !.alone = b]
      BY <3>2
    <3> HIDE DEF b
    <3>4. handler'[h].pc = handler[h].pc
      BY <2>1, <3>3 DEF HandlerState
    <3> QED
      BY <2>2, <3>4
  <2>7. HandlerStep(g) /\ g = h
    <3>1. HandlerStep(g)
      BY <2>5, <2>6
    <3>2. handler[g].pc # "idle"
      BY <3>1 DEF HandlerStep, ConfigureBegin, Unlocks, Configures, StartFor, Acts, StopKeeper,
         KeeperStopped, StopOne, StopsMiner, Stopped, LockBegin, Locks, QuitClient, At
    <3> QED
      BY <2>4, <3>1, <3>2 DEF Free
  <2>8. \A pc \in {"keeper", "stop", "wait"} : ~To(h, pc)
    <3> SUFFICES ASSUME NEW pc \in {"keeper", "stop", "wait"}, To(h, pc) PROVE FALSE
      OBVIOUS
    <3>1. handler' = [handler EXCEPT ![h] = [handler[h] EXCEPT !.pc = pc]]
      BY <2>1 DEF To
    <3>2. handler'[h].pc = pc
      BY <2>1, <3>1 DEF HandlerState
    <3> QED
      BY <3>2
  <2>9. Stopped(h)
    BY <2>7, <2>8 DEF HandlerStep, ConfigureBegin, Unlocks, Configures, StartFor, Acts,
       StopKeeper, KeeperStopped, StopOne, StopsMiner, LockBegin, Locks, QuitClient, At
  <2>10. /\ handler[h].pc = "wait" /\ StopReturned
         /\ miner.svc = "stopping" => MinerGone
         /\ UNCHANGED <<keeper, quit>> /\ mining' = {}
    BY <2>9 DEF Stopped, At
  <2>11. miner.svc # "running" /\ (V1 => keeper = "stopped")
    BY <2>1, <2>10 DEF StopProgress
  <2> QED
    BY <1>1, <2>10, <2>11, StopReturnedStep DEF NodeInv
<1>2. NodeInv /\ [Next]_vars => [\A h \in Handlers : Quiet(h)]_vars
  BY <1>1
<1> QED
  BY <1>2, NodeInvariant, PTL DEF Spec, StopAllStops
=============================================================================
