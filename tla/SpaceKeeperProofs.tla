-------------------------- MODULE SpaceKeeperProofs --------------------------
(***************************************************************************)
(* Machine-checked proofs about SpaceKeeper, for every set of spaces and   *)
(* clients, every channel size, every number of starts and of calls.       *)
(***************************************************************************)
EXTENDS SpaceKeeper, TLAPS

-----------------------------------------------------------------------------
(* Type correctness.  The types of a call's space and of a plotter's item  *)
(* depend on the program counters.                                         *)

CallTyped == \A c \in Clients : call[c].pc # "idle" => call[c].ws \in Spaces

CurTyped ==
    \A p \in Plotters :
      pc[p] \in {"step1", "plot", "make", "wait"} \/ p \in mon => cur[p] \in Item

TypeInv == TypeOK /\ CallTyped /\ CurTyped

USE DEF svcVars, indexVars, queueVars, plotVars, monVars, dbVars

\* The keeper NewSpaceKeeperV1 returns is well typed.
LEMMA InitTypeInv == Init => TypeInv
  <1> SUFFICES ASSUME Init PROVE TypeInv
    OBVIOUS
  <1> USE ConstantsAssumption
  <1>1. EmptyQueue \in [Item -> Nat]
    BY DEF EmptyQueue
  <1>2. queue \in [Item -> Nat] /\ rest \in [Item -> Nat]
    BY <1>1 DEF Init, ConfiguredQueue
  <1>3. call \in [Clients -> Call] /\ CallTyped
    BY DEF Init, Call, NoCall, CallTyped
  <1>4. cur \in [Plotters -> [ws : Spaces \cup {None}, wouldMining : BOOLEAN]]
    BY DEF Init
  <1>5. state \in [Spaces -> WorkSpaceState]
    BY DEF Init, WorkSpaceState
  <1>6. index \in [WorkSpaceState -> SUBSET Spaces]
    BY DEF Init
  <1>7. pc \in [Plotters -> PlotterPC] /\ CurTyped
    BY DEF Init, PlotterPC, CurTyped, Plotters
  <1>8. /\ db \in [Spaces -> DbPhase]
        /\ stopCh \in [Spaces -> {"nil", "open", "closed"}]
        /\ closing \in [Plotters -> SUBSET Spaces]
        /\ stopping \in [Plotters -> SUBSET Spaces]
        /\ cut \in SUBSET Spaces
    BY DEF Init, DbPhase
  <1>9. chan \in Seq(Item) /\ popped \in 0 .. MaxStarts /\ starts \in 0 .. MaxStarts
        /\ calls \in 0 .. MaxCalls
    BY DEF Init
  <1> QED
    BY <1>2, <1>3, <1>4, <1>5, <1>6, <1>7, <1>8, <1>9 DEF Init, TypeInv, TypeOK

\* changeState keeps the maps and the state field typed.
LEMMA ChangeStateTyped ==
  ASSUME TypeInv,
         NEW s \in Spaces, NEW old \in WorkSpaceState, NEW new \in WorkSpaceState,
         ChangeState(s, old, new)
  PROVE  /\ index' \in [WorkSpaceState -> SUBSET Spaces]
         /\ state' \in [Spaces -> WorkSpaceState]
  BY DEF TypeInv, TypeOK, ChangeState

\* Redirecting the popped item keeps the plotters' items typed and leaves the
\* space of every item alone.
LEMMA RedirectTyped ==
  ASSUME TypeInv, NEW s \in Spaces, NEW m \in BOOLEAN,
         popped # 0, cur[popped].ws = s,
         cur' = [cur EXCEPT ![popped] = NewQueuedWorkSpace(s, m)],
         UNCHANGED <<pc, mon>>
  PROVE  /\ cur' \in [Plotters -> [ws : Spaces \cup {None},
                                   wouldMining : BOOLEAN]]
         /\ CurTyped'
         /\ \A p \in Plotters : cur'[p].ws = cur[p].ws
  <1> USE DEF TypeInv, TypeOK, CurTyped
  <1>1. popped \in Plotters
    BY ConstantsAssumption DEF Plotters
  <1>2. NewQueuedWorkSpace(s, m) \in Item /\ NewQueuedWorkSpace(s, m).ws = s
    BY DEF NewQueuedWorkSpace, Item
  <1>3. Item \subseteq [ws : Spaces \cup {None}, wouldMining : BOOLEAN]
    BY DEF Item
  <1> QED
    BY <1>1, <1>2, <1>3

\* Every step keeps the types, action by action.
LEMMA NextTypeInv == TypeInv /\ [Next]_vars => TypeInv'
  <1> SUFFICES ASSUME TypeInv, [Next]_vars PROVE TypeInv'
    OBVIOUS
  <1> USE ConstantsAssumption
  <1> USE DEF TypeInv, TypeOK, CallTyped, CurTyped
  <1>1. CASE OnStart
    <2>1. starts + 1 \in Plotters /\ starts' \in 0 .. MaxStarts
      BY <1>1 DEF OnStart, Plotters
    <2>2. pc' \in [Plotters -> PlotterPC] /\ CurTyped'
      BY <1>1, <2>1 DEF OnStart, PlotterPC
    <2> QED
      BY <1>1, <2>1, <2>2 DEF OnStart
  <1>2. CASE OnStop
    BY <1>2 DEF OnStop
  <1>3. CASE OnStopReturn
    BY <1>3 DEF OnStopReturn
  <1>4. ASSUME NEW new \in SUBSET Spaces, NEW sel \in SUBSET Spaces,
               NEW execPlot \in BOOLEAN, NEW execMine \in BOOLEAN,
               Configure(new, sel, execPlot, execMine)
        PROVE  TypeInv'
    BY <1>4 DEF Configure, AddWorkSpacesToIndex, ConfiguredQueue, ApiCall,
                WorkSpaceState
  <1>5. ASSUME NEW new \in SUBSET Spaces, ConfigureFails(new)
        PROVE  TypeInv'
    BY <1>5 DEF ConfigureFails, AddWorkSpacesToIndex, ApiCall, WorkSpaceState
  <1>6. ASSUME NEW s \in Spaces, PlotEnd(s)
        PROVE  TypeInv'
    BY <1>6 DEF PlotEnd, DbPhase
  <1>7. ASSUME NEW s \in Spaces, PlotSettle(s)
        PROVE  TypeInv'
    BY <1>7 DEF PlotSettle, DbPhase
  <1>8. ASSUME NEW c \in Clients, NEW s \in Spaces, NEW a \in Actions,
               Submit(c, s, a), ApiCall
        PROVE  TypeInv'
    BY <1>8 DEF Submit, ApiCall, Call
  <1>9. ASSUME NEW s \in Spaces, NEW m \in BOOLEAN, Redirect(s, m), ApiCall
        PROVE  TypeInv'
    <2>1. CASE panic' = TRUE /\ UNCHANGED cur
      BY <1>9, <2>1 DEF Redirect, ApiCall
    <2>2. CASE /\ popped # 0 /\ cur[popped].ws = s
               /\ cur' = [cur EXCEPT ![popped] = NewQueuedWorkSpace(s, m)]
               /\ UNCHANGED panic
      <3>1. UNCHANGED <<pc, mon>>
        BY <1>9 DEF Redirect
      <3>2. cur' \in [Plotters -> [ws : Spaces \cup {None},
                                  wouldMining : BOOLEAN]] /\ CurTyped'
        BY <2>2, <3>1, RedirectTyped
      <3> QED
        BY <1>9, <2>2, <3>2 DEF Redirect, ApiCall
    <2> QED
      BY <1>9, <2>1, <2>2 DEF Redirect
  <1>10. ASSUME NEW c \in Clients, NEW s \in Spaces, PlotWS(c, s)
         PROVE  TypeInv'
    BY <1>8, <1>9, <1>10 DEF PlotWS, Actions
  <1>11. ASSUME NEW c \in Clients, NEW s \in Spaces, MineWS(c, s)
         PROVE  TypeInv'
    <2>1. CASE ChangeState(s, "Ready", "Mining") /\ ApiCall
               /\ UNCHANGED <<svcVars, all, list, using, created, queueVars,
                              plotVars, monVars, dbVars, call, panic>>
      <3>1. /\ index' \in [WorkSpaceState -> SUBSET Spaces]
            /\ state' \in [Spaces -> WorkSpaceState]
        BY <2>1, ChangeStateTyped DEF WorkSpaceState
      <3> QED
        BY <2>1, <3>1 DEF ApiCall
    <2> QED
      BY <1>8, <1>9, <1>11, <2>1 DEF MineWS, Actions
  <1>12. ASSUME NEW c \in Clients, Send(c)
         PROVE  TypeInv'
    <2>1. NewQueuedWorkSpace(call[c].ws, call[c].action = "Mine") \in Item
      BY <1>12 DEF Send, NewQueuedWorkSpace, Item
    <2>2. chan' \in Seq(Item)
      BY <1>12, <2>1 DEF Send
    <2>3. call' \in [Clients -> Call] /\ CallTyped'
      BY <1>12 DEF Send, Call, NoCall
    <2> QED
      BY <1>12, <2>2, <2>3 DEF Send
  <1>13. ASSUME NEW c \in Clients, NEW s \in Spaces, NEW a \in Actions,
                QueueDelete(c, s, a)
         PROVE  TypeInv'
    BY <1>13 DEF QueueDelete, ApiCall, Without, EmptyQueue, Call
  <1>14. ASSUME NEW c \in Clients, NEW a \in Actions, Deleted(c, a)
         PROVE  /\ queue' \in [Item -> Nat] /\ rest' \in [Item -> Nat]
                /\ call[c].ws \in Spaces
    BY <1>14 DEF Deleted, EmptyQueue
  <1>15. ASSUME NEW c \in Clients, StopWS(c)
         PROVE  TypeInv'
    <2> DEFINE s == call[c].ws
    <2>1. /\ queue' \in [Item -> Nat] /\ rest' \in [Item -> Nat]
          /\ s \in Spaces
      BY <1>14, <1>15 DEF StopWS, Actions
    <2>2. /\ index' \in [WorkSpaceState -> SUBSET Spaces]
          /\ state' \in [Spaces -> WorkSpaceState]
      <3>1. CASE ChangeState(s, "Mining", "Ready")
        BY <2>1, <3>1, ChangeStateTyped DEF WorkSpaceState
      <3>2. CASE UNCHANGED <<index, state>>
        BY <3>2
      <3> QED
        BY <1>15, <3>1, <3>2 DEF StopWS, StopPlotting, StopMining
    <2>3. call' \in [Clients -> Call] /\ CallTyped'
      <3>1. CASE call' = [call EXCEPT ![c] = NoCall]
        BY <3>1 DEF Call, NoCall
      <3>2. CASE call' = [call EXCEPT ![c] = [@ EXCEPT !.pc = "stopClose"]]
        <4>0. call[c] \in Call
          OBVIOUS
        <4>1. /\ [call[c] EXCEPT !.pc = "stopClose"] \in Call
              /\ [call[c] EXCEPT !.pc = "stopClose"].ws = s
          BY <4>0 DEF Call
        <4> QED
          BY <2>1, <3>2, <4>1
      <3>3. CASE UNCHANGED call
        BY <3>3
      <3> QED
        BY <1>15, <3>1, <3>2, <3>3 DEF StopWS, StopPlotting, StopMining
    <2>4. /\ cur' \in [Plotters -> [ws : Spaces \cup {None},
                                    wouldMining : BOOLEAN]]
          /\ CurTyped'
      <3>1. CASE /\ popped # 0 /\ cur[popped].ws = s
                 /\ cur' = [cur EXCEPT ![popped] = NewQueuedWorkSpace(s, FALSE)]
        <4>1. UNCHANGED <<pc, mon>>
          BY <1>15 DEF StopWS
        <4> QED
          BY <2>1, <3>1, <4>1, RedirectTyped
      <3>2. CASE UNCHANGED cur
        BY <1>15, <3>2 DEF StopWS
      <3> QED
        BY <1>15, <3>1, <3>2 DEF StopWS, StopPlotting, StopMining
    <2>5. panic' \in BOOLEAN
      BY <1>15 DEF StopWS, StopPlotting, StopMining
    <2> QED
      BY <1>15, <2>1, <2>2, <2>3, <2>4, <2>5
      DEF StopWS, StopPlotting, StopMining
  <1>16. ASSUME NEW c \in Clients, StopClose(c) \/ StopReturn(c)
         PROVE  TypeInv'
    <2>1. CASE StopReturn(c)
      BY <2>1 DEF StopReturn, Call, NoCall
    <2>2. CASE StopClose(c)
      <3>1. call[c].ws \in Spaces /\ call[c] \in Call
        BY <2>2 DEF StopClose
      <3>2. /\ [call[c] EXCEPT !.pc = "stopWait"] \in Call
            /\ [call[c] EXCEPT !.pc = "stopWait"].ws = call[c].ws
        BY <3>1 DEF Call
      <3>3. call' \in [Clients -> Call] /\ CallTyped'
        BY <2>2, <3>1, <3>2 DEF StopClose
      <3>4. /\ stopCh' \in [Spaces -> {"nil", "open", "closed"}]
            /\ panic' \in BOOLEAN
        BY <2>2, <3>1 DEF StopClose, CloseStopPlotCh
      <3> QED
        BY <2>2, <3>3, <3>4 DEF StopClose
    <2> QED
      BY <1>16, <2>1, <2>2
  <1>17. ASSUME NEW c \in Clients, RemoveWS(c)
         PROVE  TypeInv'
    BY <1>14, <1>17 DEF RemoveWS, DisuseWorkSpace, Call, NoCall, Actions
  <1>18. ASSUME NEW c \in Clients, DeleteWS(c)
         PROVE  TypeInv'
    <2> DEFINE s == call[c].ws
    <2>1. /\ queue' \in [Item -> Nat] /\ rest' \in [Item -> Nat]
          /\ s \in Spaces
      BY <1>14, <1>18 DEF DeleteWS, Actions
    <2>2. index' \in [WorkSpaceState -> SUBSET Spaces]
      <3>1. state[s] \in WorkSpaceState
        BY <2>1
      <3>2. CASE index' = [index EXCEPT ![state[s]] = @ \ {s}]
        BY <3>1, <3>2
      <3> QED
        BY <1>18, <3>2 DEF DeleteWS
    <2>3. call' \in [Clients -> Call] /\ CallTyped'
      BY <1>18 DEF DeleteWS, Call, NoCall
    <2> QED
      BY <1>18, <2>1, <2>2, <2>3 DEF DeleteWS, DisuseWorkSpace
  <1>19. ASSUME NEW p \in Plotters, PlotterBegin(p)
         PROVE  TypeInv'
    BY <1>19 DEF PlotterBegin, PlotterPC
  <1>20. ASSUME NEW p \in Plotters, Check(p)
         PROVE  TypeInv'
    BY <1>20 DEF Check, PlotterPC
  <1>21. ASSUME NEW p \in Plotters, PopItem(p)
         PROVE  TypeInv'
    <2>1. CASE panic' /\ UNCHANGED <<queue, popped, pc, cur, mon, lost>>
      BY <1>21, <2>1 DEF PopItem
    <2>2. ASSUME NEW i \in Item, IsFirst(i),
                 queue' = [queue EXCEPT ![i] = @ - 1], popped' = p,
                 cur' = [cur EXCEPT ![p] = i], mon' = mon \cup {p},
                 lost' = lost \ {p},
                 pc' = [pc EXCEPT ![p] = "step1"], UNCHANGED panic
          PROVE  TypeInv'
      <3>1. queue' \in [Item -> Nat]
        BY <2>2 DEF IsFirst
      <3>2. popped' \in 0 .. MaxStarts
        BY <2>2 DEF Plotters
      <3>3. cur' \in [Plotters -> [ws : Spaces \cup {None},
                                  wouldMining : BOOLEAN]]
        BY <2>2 DEF Item
      <3>4. pc' \in [Plotters -> PlotterPC] /\ CurTyped'
        BY <2>2 DEF PlotterPC
      <3> QED
        BY <1>21, <2>2, <3>1, <3>2, <3>3, <3>4 DEF PopItem
    <2> QED
      BY <1>21, <2>1, <2>2 DEF PopItem
  <1>22. ASSUME NEW p \in Plotters, KillMonitor(p), cur[p] \in Item,
                UNCHANGED cur
         PROVE  /\ pc' \in [Plotters -> PlotterPC]
                /\ mon' \in SUBSET Plotters
                /\ lag' \in [Plotters -> SUBSET Spaces]
                /\ CurTyped'
    <2>1. cur[p].ws \in Spaces
      BY <1>22 DEF Item
    <2>2. lag' \in [Plotters -> SUBSET Spaces]
      <3>1. CASE lag' = [lag EXCEPT ![p] = @ \cup {cur[p].ws}]
        BY <2>1, <3>1
      <3> QED
        BY <1>22, <3>1 DEF KillMonitor
    <2>3. pc' \in [Plotters -> PlotterPC]
      BY <1>22 DEF KillMonitor, PlotterPC
    <2> QED
      BY <1>22, <2>2, <2>3 DEF KillMonitor
  <1>24. ASSUME NEW p \in Plotters, PlotSpaceBegin(p)
         PROVE  TypeInv'
    <2>1. cur[p] \in Item /\ cur[p].ws \in Spaces /\ UNCHANGED cur
      BY <1>24 DEF PlotSpaceBegin, Item
    <2>2. /\ index' \in [WorkSpaceState -> SUBSET Spaces]
          /\ state' \in [Spaces -> WorkSpaceState]
      BY ChangeStateTyped, <1>24, <2>1 DEF PlotSpaceBegin, WorkSpaceState
    <2>3. /\ pc' \in [Plotters -> PlotterPC]
          /\ mon' \in SUBSET Plotters
          /\ lag' \in [Plotters -> SUBSET Spaces]
          /\ CurTyped'
      <3>1. CASE KillMonitor(p)
        BY <1>22, <2>1, <3>1
      <3>2. CASE pc' = [pc EXCEPT ![p] = "plot"] /\ UNCHANGED <<mon, lag>>
        BY <2>1, <3>2 DEF PlotterPC
      <3> QED
        BY <1>24, <3>1, <3>2 DEF PlotSpaceBegin
    <2> QED
      BY <1>24, <2>2, <2>3 DEF PlotSpaceBegin
  <1>25. ASSUME NEW p \in Plotters, Plot(p) \/ ExecutePlot(p)
         PROVE  TypeInv'
    <2>1. CASE Plot(p)
      BY <2>1 DEF Plot, PlotterPC, DbPhase
    <2>2. CASE ExecutePlot(p)
      BY <2>2 DEF ExecutePlot, PlotterPC, DbPhase
    <2> QED
      BY <1>25, <2>1, <2>2
  <1>26. ASSUME NEW p \in Plotters, PlotSpaceEnd(p)
         PROVE  TypeInv'
    <2>1. cur[p] \in Item /\ cur[p].ws \in Spaces /\ UNCHANGED cur
      BY <1>26 DEF PlotSpaceEnd, Item
    <2>2. /\ index' \in [WorkSpaceState -> SUBSET Spaces]
          /\ state' \in [Spaces -> WorkSpaceState]
      BY ChangeStateTyped, <1>26, <2>1 DEF PlotSpaceEnd, NextState, WorkSpaceState
    <2>3. /\ pc' \in [Plotters -> PlotterPC]
          /\ mon' \in SUBSET Plotters
          /\ lag' \in [Plotters -> SUBSET Spaces]
          /\ CurTyped'
      BY <1>22, <1>26, <2>1 DEF PlotSpaceEnd
    <2> QED
      BY <1>26, <2>2, <2>3 DEF PlotSpaceEnd
  <1>27. ASSUME NEW p \in Plotters, ReceiveSpace(p)
         PROVE  /\ chan' \in Seq(Item) /\ queue' \in [Item -> Nat]
                /\ pc' \in [Plotters -> PlotterPC]
    BY <1>27 DEF ReceiveSpace, Push, PlotterPC
  <1>28. ASSUME NEW p \in Plotters, Select(p)
         PROVE  TypeInv'
    BY <1>27, <1>28 DEF Select, PlotterPC, ReceiveSpace
  <1>29. ASSUME NEW p \in Plotters, AddSpaces(p)
         PROVE  TypeInv'
    BY <1>27, <1>29 DEF AddSpaces, PlotterPC, ReceiveSpace
  <1>30. ASSUME NEW p \in Plotters, PlotterExit(p)
         PROVE  TypeInv'
    BY <1>30 DEF PlotterExit, ResetQueue, EmptyQueue, PlotterPC
  <1>31. ASSUME NEW p \in Plotters, MonitorQuit(p)
         PROVE  TypeInv'
    <2>1. cur[p].ws \in Spaces
      BY <1>31 DEF MonitorQuit, Item
    <2>2. lost' \in SUBSET Plotters
      <3>1. lost' = lost \/ lost' = lost \cup {p}
        BY <1>31 DEF MonitorQuit
      <3> QED
        BY <3>1
    <2>3. closing' \in [Plotters -> SUBSET Spaces]
      <3>1. CASE db[cur[p].ws] = "idle"
        BY <1>31, <3>1 DEF MonitorQuit
      <3>2. CASE db[cur[p].ws] # "idle"
        <4>1. closing' = [closing EXCEPT ![p] = closing[p] \cup {cur[p].ws}]
          BY <1>31, <3>2 DEF MonitorQuit
        <4> QED
          BY <2>1, <4>1
      <3> QED
        BY <3>1, <3>2
    <2> QED
      BY <1>31, <2>2, <2>3 DEF MonitorQuit
  <1>32. ASSUME NEW p \in Plotters, NEW s \in Spaces, LaggardQuit(p, s)
         PROVE  TypeInv'
    BY <1>32 DEF LaggardQuit
  <1>33. ASSUME NEW p \in Plotters, NEW s \in Spaces, LaggardExit(p, s)
         PROVE  TypeInv'
    BY <1>33 DEF LaggardExit
  <1>34. ASSUME NEW p \in Plotters, NEW s \in Spaces, MonitorReturn(p, s)
         PROVE  TypeInv'
    BY <1>34 DEF MonitorReturn
  <1>35. ASSUME NEW p \in Plotters, NEW s \in Spaces, MonitorClose(p, s)
         PROVE  TypeInv'
    BY <1>35 DEF MonitorClose, CloseStopPlotCh
  <1>36. CASE UNCHANGED vars
    BY <1>36 DEF vars
  <1> QED
    <2> HIDE DEF TypeInv, TypeOK, CallTyped, CurTyped
    <2>1. ASSUME NEW c \in Clients, ClientCall(c) \/ ClientContinue(c)
          PROVE  TypeInv'
      BY <1>10, <1>11, <1>12, <1>13, <1>15, <1>16, <1>17, <1>18, <2>1
      DEF ClientCall, ClientContinue, Actions
    <2>2. ASSUME NEW p \in Plotters, PlotterNext(p) \/ MonitorNext(p)
          PROVE  TypeInv'
      BY <1>19, <1>20, <1>21, <1>24, <1>25, <1>26, <1>28, <1>29, <1>30, <1>31,
         <1>32, <1>33, <1>34, <1>35, <2>2 DEF PlotterNext, MonitorNext
    <2>3. CASE ServiceNext
      BY <1>1, <1>2, <1>3, <1>4, <1>5, <2>3 DEF ServiceNext
    <2> QED
      BY <1>6, <1>7, <1>36, <2>1, <2>2, <2>3 DEF Next, DbNext

\* Every reachable state of the keeper is well typed: no index is used with a
\* space that is not one, no queue count is negative, the popped item exists.
THEOREM TypeCorrect == Spec => []TypeOK
  <1>1. TypeInv => TypeOK
    BY DEF TypeInv
  <1> QED
    BY <1>1, InitTypeInv, NextTypeInv, PTL DEF Spec

-----------------------------------------------------------------------------
(* The index, its owners and the service's quiet state.                    *)

USE DEF Working

\* generateInitialIndex leaves the index consistent and nobody plotting.
LEMMA InitKeeperInv == Init => KeeperInv
  <1> SUFFICES ASSUME Init PROVE KeeperInv
    OBVIOUS
  <1> USE ConstantsAssumption
  <1>1. IndexConsistent
    BY DEF Init, IndexConsistent
  <1>2. index["Plotting"] = {} /\ index["Mining"] = {}
        /\ index["Ready"] = done /\ index["Registered"] = Found \ done
    BY DEF Init, WorkSpaceState
  <1>3. PlottingOwned /\ RunOwned /\ QuitOrdered
    BY <1>2 DEF Init, PlottingOwned, RunOwned, QuitOrdered
  <1>4. ProgressOrdered
    BY <1>2 DEF Init, ProgressOrdered
  <1> QED
    BY <1>1, <1>3, <1>4 DEF Init, KeeperInv, UsedIsIndexed

keeperVars == <<svc, quit, starts, index, all, state, list, using, created,
                pc, cur, db, done>>

\* Steps of clients, monitors and the channel that leave these variables alone.
LEMMA FrameKeeperInv == KeeperInv /\ UNCHANGED keeperVars => KeeperInv'
  BY DEF KeeperInv, keeperVars, IndexConsistent, PlottingOwned, RunOwned,
         QuitOrdered, ProgressOrdered, UsedIsIndexed

\* Ownership depends only on which plotters work on which space.
LEMMA OwnersKept ==
  ASSUME PlottingOwned, index'["Plotting"] = index["Plotting"],
         \A p \in Plotters : /\ Working(p)' <=> Working(p)
                             /\ Working(p) => cur'[p].ws = cur[p].ws
  PROVE  PlottingOwned'
  <1> HIDE DEF Working
  <1>1. ASSUME NEW s \in Spaces
        PROVE  s \in index'["Plotting"] <=>
                 \E p \in Plotters : Working(p)' /\ cur'[p].ws = s
    BY DEF PlottingOwned
  <1>2. ASSUME NEW p \in Plotters, NEW q \in Plotters,
               Working(p)', Working(q)', cur'[p].ws = cur'[q].ws
        PROVE  p = q
    BY <1>2 DEF PlottingOwned
  <1> QED
    BY <1>1, <1>2 DEF PlottingOwned

\* A running plot keeps its owner while the owner waits for it.
LEMMA RunKept ==
  ASSUME RunOwned,
         \A s \in Spaces : db'[s] \in {"set", "run"} => db[s] = db'[s],
         \A p \in Plotters : pc[p] = "wait" =>
           \/ pc'[p] = "wait" /\ cur'[p].ws = cur[p].ws
           \/ db'[cur[p].ws] # "run",
         \A p \in Plotters : pc[p] = "make" =>
           pc'[p] = "make" /\ cur'[p].ws = cur[p].ws
  PROVE  RunOwned'
  <1>1. ASSUME NEW s \in Spaces, db'[s] = "run"
        PROVE  \E p \in Plotters : pc'[p] = "wait" /\ cur'[p].ws = s
    <2>1. PICK p \in Plotters : pc[p] = "wait" /\ cur[p].ws = s
      BY <1>1 DEF RunOwned
    <2> QED
      BY <1>1, <2>1
  <1>2. ASSUME NEW s \in Spaces, db'[s] = "set"
        PROVE  \E p \in Plotters : pc'[p] = "make" /\ cur'[p].ws = s
    <2>1. PICK p \in Plotters : pc[p] = "make" /\ cur[p].ws = s
      BY <1>2 DEF RunOwned
    <2> QED
      BY <2>1
  <1> QED
    BY <1>1, <1>2 DEF RunOwned

\* A plotter that moves between points where it holds no space, or gets past
\* the quit check while the service is not stopped.
LEMMA PlotterMoves ==
  ASSUME TypeInv, KeeperInv, NEW p \in Plotters, NEW to \in PlotterPC,
         pc[p] \notin {"none", "plot", "make", "wait"},
         to \notin {"plot", "make", "wait"},
         to \in {"pop", "step1"} => svc # "stopped",
         pc' = [pc EXCEPT ![p] = to],
         \A q \in Plotters : q = p \/ cur'[q] = cur[q],
         UNCHANGED <<svc, quit, starts, index, all, state, list, using,
                     created, db, done>>
  PROVE  KeeperInv'
  <1> USE DEF TypeInv, TypeOK, KeeperInv
  <1>1. IndexConsistent' /\ UsedIsIndexed'
    BY DEF IndexConsistent, UsedIsIndexed
  <1>2. \A q \in Plotters : q # p => pc'[q] = pc[q] /\ cur'[q] = cur[q]
    OBVIOUS
  <1>3. pc'[p] = to
    OBVIOUS
  <1>4. PlottingOwned'
    <2>1. \A q \in Plotters : /\ Working(q)' <=> Working(q)
                             /\ Working(q) => cur'[q] = cur[q]
      BY <1>2, <1>3
    <2> QED
      BY <2>1, OwnersKept
  <1>5. RunOwned'
    BY <1>2, RunKept
  <1>6. QuitOrdered'
    BY <1>2, <1>3 DEF QuitOrdered
  <1>7. ProgressOrdered'
    BY <1>2, <1>3 DEF ProgressOrdered
  <1> QED
    BY <1>1, <1>4, <1>5, <1>6, <1>7

\* Moving a space between two states neither of which is Plotting.
LEMMA QuietChange ==
  ASSUME TypeInv, KeeperInv, NEW s \in Spaces,
         NEW old \in {"Ready", "Mining"}, NEW new \in {"Ready", "Mining"},
         s \in index[old], ChangeState(s, old, new),
         UNCHANGED <<svc, quit, starts, all, list, using, created, pc, db,
                     done>>,
         \A p \in Plotters : cur'[p].ws = cur[p].ws
  PROVE  KeeperInv'
  <1> USE DEF TypeInv, TypeOK, KeeperInv
  <1>1. \A st \in WorkSpaceState, r \in Spaces :
          r # s => (r \in index'[st] <=> r \in index[st])
    BY DEF ChangeState
  <1>2. /\ old \in WorkSpaceState /\ new \in WorkSpaceState
        /\ state'[s] = new /\ state[s] = old /\ s \in all
        /\ \A r \in Spaces : r # s => state'[r] = state[r]
    BY DEF ChangeState, IndexConsistent, WorkSpaceState
  <1>3. \A st \in WorkSpaceState : s \in index'[st] <=> st = new
    BY <1>2 DEF ChangeState, IndexConsistent
  <1>4. IndexConsistent'
    <2>1. all' = all
      OBVIOUS
    <2>2. ASSUME NEW r \in Spaces, NEW st \in WorkSpaceState
          PROVE  r \in index'[st] <=> (r \in all /\ state'[r] = st)
      <3>1. CASE r = s
        BY <1>2, <1>3, <3>1
      <3>2. CASE r # s
        BY <1>1, <1>2, <3>2 DEF IndexConsistent
      <3> QED
        BY <3>1, <3>2
    <2> QED
      BY <2>1, <2>2 DEF IndexConsistent
  <1>5. index'["Plotting"] = index["Plotting"]
        /\ index'["Registered"] = index["Registered"]
    BY DEF ChangeState, WorkSpaceState
  <1>6. index'["Ready"] \cup index'["Mining"] \subseteq done
    BY <1>1, <1>3 DEF ProgressOrdered, ChangeState, WorkSpaceState
  <1>7. PlottingOwned'
    BY <1>5, OwnersKept
  <1>8. RunOwned' /\ QuitOrdered'
    <2>1. RunOwned'
      BY RunKept
    <2>2. QuitOrdered'
      BY DEF QuitOrdered
    <2> QED
      BY <2>1, <2>2
  <1>9. ProgressOrdered'
    BY <1>5, <1>6 DEF ProgressOrdered
  <1> QED
    BY <1>4, <1>7, <1>8, <1>9 DEF UsedIsIndexed

\* Redirecting an item does not change whose item it is.
LEMMA RedirectKept ==
  ASSUME KeeperInv, \A p \in Plotters : cur'[p].ws = cur[p].ws,
         UNCHANGED <<svc, quit, starts, index, all, state, list, using,
                     created, pc, db, done>>
  PROVE  KeeperInv'
  <1> USE DEF KeeperInv
  <1>1. PlottingOwned'
    BY OwnersKept
  <1>2. RunOwned'
    BY RunKept
  <1>3. QuitOrdered' /\ IndexConsistent' /\ UsedIsIndexed'
    BY DEF QuitOrdered, IndexConsistent, UsedIsIndexed
  <1>4. ProgressOrdered'
    BY DEF ProgressOrdered
  <1> QED
    BY <1>1, <1>2, <1>3, <1>4

\* plotSpace moves a space it owns, or is about to own, into or out of Plotting.
LEMMA OwnerChange ==
  ASSUME TypeInv, KeeperInv, NEW s \in Spaces,
         NEW old \in WorkSpaceState, NEW new \in WorkSpaceState, old # new,
         s \in index[old], ChangeState(s, old, new), UNCHANGED all
  PROVE  /\ IndexConsistent'
         /\ s \in all /\ state[s] = old
         /\ index'[old] = index[old] \ {s}
         /\ index'[new] = index[new] \cup {s}
         /\ \A st \in WorkSpaceState \ {old, new} : index'[st] = index[st]
  <1> USE DEF TypeInv, TypeOK, KeeperInv
  <1>1. s \in all /\ state[s] = old
    BY DEF IndexConsistent
  <1>2. /\ index'[old] = index[old] \ {s}
        /\ index'[new] = index[new] \cup {s}
        /\ \A st \in WorkSpaceState \ {old, new} : index'[st] = index[st]
    BY DEF ChangeState
  <1>3. ASSUME NEW r \in Spaces, NEW st \in WorkSpaceState
        PROVE  r \in index'[st] <=> (r \in all /\ state'[r] = st)
    <2>1. r \in index[st] <=> (r \in all /\ state[r] = st)
      BY DEF IndexConsistent
    <2>2. s \in index[st] <=> st = old
      BY <1>1 DEF IndexConsistent
    <2>3. state'[s] = new /\ (r # s => state'[r] = state[r])
      BY DEF ChangeState
    <2>4. CASE st = old
      BY <1>1, <1>2, <2>1, <2>3, <2>4
    <2>5. CASE st = new
      BY <1>1, <1>2, <2>1, <2>3, <2>5
    <2>6. CASE st \notin {old, new}
      <3>1. index'[st] = index[st]
        BY <1>2, <2>6
      <3> QED
        BY <1>1, <2>1, <2>2, <2>3, <2>6, <3>1
    <2> QED
      BY <2>4, <2>5, <2>6
  <1> QED
    BY <1>1, <1>2, <1>3 DEF IndexConsistent

\* Every step of the keeper keeps the inductive invariant.
LEMMA NextKeeperInv == TypeInv /\ KeeperInv /\ [Next]_vars => KeeperInv'
  <1> SUFFICES ASSUME TypeInv, KeeperInv, [Next]_vars PROVE KeeperInv'
    OBVIOUS
  <1> USE ConstantsAssumption
  <1> USE DEF KeeperInv
  <1>1. CASE OnStart
    <2> USE DEF TypeInv, TypeOK
    <2>1. starts + 1 \in Plotters /\ pc[starts + 1] = "none"
      BY <1>1 DEF OnStart, Plotters, QuitOrdered
    <2>2. \A p \in Plotters : p # starts + 1 => pc'[p] = pc[p]
      BY <1>1, <2>1 DEF OnStart
    <2>3. pc'[starts + 1] = "spawned"
      BY <1>1, <2>1 DEF OnStart
    <2>4. PlottingOwned'
      <3>1. \A p \in Plotters : Working(p)' <=> Working(p)
        BY <2>1, <2>2, <2>3
      <3> QED
        BY <1>1, <3>1, OwnersKept DEF OnStart
    <2>5. RunOwned'
      BY <1>1, <2>1, <2>2, <2>3, RunKept DEF OnStart
    <2>6. QuitOrdered'
      BY <1>1, <2>2 DEF OnStart, QuitOrdered, Plotters
    <2>7. ProgressOrdered'
      BY <1>1, <2>2, <2>3 DEF OnStart, ProgressOrdered
    <2> QED
      BY <1>1, <2>4, <2>5, <2>6, <2>7 DEF OnStart, IndexConsistent, UsedIsIndexed
  <1>2. CASE OnStop
    <2>1. QuitOrdered'
      BY <1>2 DEF OnStop, QuitOrdered
    <2> QED
      BY <1>2, <2>1 DEF OnStop, IndexConsistent, PlottingOwned, RunOwned,
                        ProgressOrdered, UsedIsIndexed
  <1>3. CASE OnStopReturn
    <2>1. QuitOrdered'
      BY <1>3 DEF OnStopReturn, QuitOrdered, Counted
    <2> QED
      BY <1>3, <2>1 DEF OnStopReturn, IndexConsistent, PlottingOwned, RunOwned,
                        ProgressOrdered, UsedIsIndexed
  <1>4. ASSUME NEW new \in SUBSET Spaces, new \cap created = {},
               AddWorkSpacesToIndex(new), svc = "stopped",
               UNCHANGED <<svcVars, plotVars, db, done>>,
               list' = using', using' \subseteq all'
        PROVE  KeeperInv'
    <2> USE DEF TypeInv, TypeOK
    <2>1. IndexConsistent'
      <3>1. ASSUME NEW s \in Spaces, NEW st \in WorkSpaceState
            PROVE  s \in index'[st] <=> (s \in all' /\ state'[s] = st)
        <4>1. CASE s \in new
          BY <1>4, <4>1 DEF AddWorkSpacesToIndex, IndexConsistent,
                            ProgressOrdered, WorkSpaceState
        <4>2. CASE s \notin new
          BY <1>4, <4>2 DEF AddWorkSpacesToIndex, IndexConsistent, WorkSpaceState
        <4> QED
          BY <4>1, <4>2
      <3> QED
        BY <3>1 DEF IndexConsistent
    <2>2. /\ index'["Plotting"] = index["Plotting"]
          /\ index'["Ready"] = index["Ready"]
          /\ index'["Mining"] = index["Mining"]
          /\ index'["Registered"] = index["Registered"] \cup new
      BY <1>4 DEF AddWorkSpacesToIndex, WorkSpaceState
    <2>3. PlottingOwned'
      BY <1>4, <2>2, OwnersKept
    <2>4. RunOwned' /\ QuitOrdered'
      BY <1>4 DEF RunOwned, QuitOrdered
    <2>5. ProgressOrdered'
      BY <1>4, <2>2 DEF ProgressOrdered, AddWorkSpacesToIndex
    <2> QED
      BY <1>4, <2>1, <2>3, <2>4, <2>5 DEF UsedIsIndexed
  <1>5. ASSUME NEW new \in SUBSET Spaces, NEW sel \in SUBSET Spaces,
               NEW execPlot \in BOOLEAN, NEW execMine \in BOOLEAN,
               Configure(new, sel, execPlot, execMine)
        PROVE  KeeperInv'
    BY <1>4, <1>5 DEF Configure, AddWorkSpacesToIndex
  <1>6. ASSUME NEW new \in SUBSET Spaces, ConfigureFails(new)
        PROVE  KeeperInv'
    BY <1>4, <1>6 DEF ConfigureFails, AddWorkSpacesToIndex, UsedIsIndexed
  <1>7. ASSUME NEW s \in Spaces, PlotEnd(s)
        PROVE  KeeperInv'
    <2> USE DEF TypeInv, TypeOK
    <2>1. PICK p \in Plotters : pc[p] = "wait" /\ cur[p].ws = s
      BY <1>7 DEF PlotEnd, RunOwned
    <2>2. s \in index["Plotting"] /\ s \in all /\ state[s] = "Plotting"
      BY <2>1 DEF PlottingOwned, IndexConsistent, WorkSpaceState
    <2>3. s \notin index["Registered"]
      BY <2>2 DEF IndexConsistent, WorkSpaceState
    <2>4. \A q \in Plotters : pc[q] = "plot" => cur[q].ws # s
      BY <2>1 DEF PlottingOwned
    <2>5. ProgressOrdered'
      BY <1>7, <2>2, <2>3, <2>4 DEF PlotEnd, ProgressOrdered
    <2>6. RunOwned'
      BY <1>7, RunKept DEF PlotEnd
    <2> QED
      BY <1>7, <2>5, <2>6 DEF PlotEnd, IndexConsistent, PlottingOwned,
                              QuitOrdered, UsedIsIndexed
  <1>8. ASSUME NEW s \in Spaces, PlotSettle(s)
        PROVE  KeeperInv'
    <2>1. RunOwned'
      BY <1>8, RunKept DEF PlotSettle, TypeInv, TypeOK
    <2> QED
      BY <1>8, <2>1 DEF PlotSettle, IndexConsistent, PlottingOwned,
                        QuitOrdered, ProgressOrdered, UsedIsIndexed
  <1>9. ASSUME NEW c \in Clients, NEW s \in Spaces, NEW a \in Actions,
               Submit(c, s, a)
        PROVE  KeeperInv'
    BY <1>9, FrameKeeperInv DEF Submit, keeperVars
  <1>10. ASSUME NEW s \in Spaces, NEW m \in BOOLEAN, Redirect(s, m)
         PROVE  KeeperInv'
    <2>1. CASE UNCHANGED cur
      BY <1>10, <2>1, FrameKeeperInv DEF Redirect, keeperVars
    <2>2. CASE /\ popped # 0 /\ cur[popped].ws = s
               /\ cur' = [cur EXCEPT ![popped] = NewQueuedWorkSpace(s, m)]
      <3>1. \A p \in Plotters : cur'[p].ws = cur[p].ws
        BY <1>10, <2>2, RedirectTyped DEF Redirect
      <3> QED
        BY <1>10, <3>1, RedirectKept DEF Redirect
    <2> QED
      BY <1>10, <2>1, <2>2 DEF Redirect
  <1>11. ASSUME NEW c \in Clients, NEW s \in Spaces, PlotWS(c, s)
         PROVE  KeeperInv'
    BY <1>9, <1>10, <1>11 DEF PlotWS, Actions
  <1>12. ASSUME NEW c \in Clients, NEW s \in Spaces, MineWS(c, s)
         PROVE  KeeperInv'
    <2>1. CASE In("Ready", s) /\ ChangeState(s, "Ready", "Mining")
               /\ UNCHANGED <<svcVars, all, list, using, created, queueVars,
                              plotVars, monVars, dbVars, call, panic>>
      BY <2>1, QuietChange DEF In
    <2> QED
      BY <1>9, <1>10, <1>12, <2>1 DEF MineWS, Actions
  <1>13. ASSUME NEW c \in Clients, Send(c)
         PROVE  KeeperInv'
    BY <1>13, FrameKeeperInv DEF Send, keeperVars
  <1>14. ASSUME NEW c \in Clients, NEW s \in Spaces, NEW a \in Actions,
                QueueDelete(c, s, a)
         PROVE  KeeperInv'
    BY <1>14, FrameKeeperInv DEF QueueDelete, keeperVars
  <1>15. ASSUME NEW c \in Clients, NEW a \in Actions, Deleted(c, a)
         PROVE  call[c].ws \in Spaces
    BY <1>15 DEF Deleted, TypeInv, CallTyped
  <1>16. ASSUME NEW c \in Clients, StopWS(c)
         PROVE  KeeperInv'
    <2> DEFINE s == call[c].ws
    <2>1. s \in Spaces
      BY <1>15, <1>16 DEF StopWS, Actions
    <2>2. UNCHANGED <<svcVars, all, list, using, created, pc, mon, db, done>>
      BY <1>16 DEF StopWS, StopPlotting, StopMining
    <2>3. CASE UNCHANGED <<index, state, cur>>
      BY <2>2, <2>3, FrameKeeperInv DEF keeperVars
    <2>4. CASE /\ popped # 0 /\ cur[popped].ws = s
               /\ cur' = [cur EXCEPT ![popped] = NewQueuedWorkSpace(s, FALSE)]
               /\ UNCHANGED <<index, state>>
      <3>1. \A p \in Plotters : cur'[p].ws = cur[p].ws
        BY <2>1, <2>2, <2>4, RedirectTyped
      <3> QED
        BY <2>2, <2>4, <3>1, RedirectKept
    <2>5. CASE In("Mining", s) /\ ChangeState(s, "Mining", "Ready") /\ UNCHANGED cur
      BY <2>1, <2>2, <2>5, QuietChange DEF In
    <2> QED
      BY <1>16, <2>3, <2>4, <2>5 DEF StopWS, StopPlotting, StopMining
  <1>17. ASSUME NEW c \in Clients, StopClose(c) \/ StopReturn(c)
         PROVE  KeeperInv'
    BY <1>17, FrameKeeperInv DEF StopClose, StopReturn, keeperVars
  <1>18. ASSUME NEW c \in Clients, RemoveWS(c)
         PROVE  KeeperInv'
    <2>1. UNCHANGED <<svcVars, index, all, state, created, plotVars, db, done>>
      BY <1>18 DEF RemoveWS
    <2>2. UsedIsIndexed'
      BY <1>18, <2>1 DEF RemoveWS, DisuseWorkSpace, UsedIsIndexed
    <2> QED
      BY <2>1, <2>2 DEF IndexConsistent, PlottingOwned, RunOwned, QuitOrdered,
                        ProgressOrdered
  <1>19. ASSUME NEW c \in Clients, DeleteWS(c)
         PROVE  KeeperInv'
    <2> USE DEF TypeInv, TypeOK
    <2> DEFINE s == call[c].ws
    <2>1. s \in Spaces
      BY <1>15, <1>19 DEF DeleteWS, Actions
    <2>2. UNCHANGED <<svcVars, state, created, plotVars, db, done>>
      BY <1>19 DEF DeleteWS
    <2>3. CASE UNCHANGED <<index, all, using, list>>
      BY <2>2, <2>3, FrameKeeperInv DEF keeperVars
    <2>4. CASE /\ Still(s)
               /\ index' = [index EXCEPT ![state[s]] = @ \ {s}]
               /\ all' = all \ {s}
               /\ DisuseWorkSpace(s)
      <3>1. state[s] \in {"Registered", "Ready"}
        BY <2>1, <2>4 DEF Still, In, IndexConsistent, WorkSpaceState
      <3>2. \A st \in WorkSpaceState : index'[st] = index[st] \ {s}
        BY <2>1, <2>4, <3>1 DEF IndexConsistent, WorkSpaceState
      <3>3. index'["Plotting"] = index["Plotting"]
        BY <2>4, <3>1 DEF WorkSpaceState
      <3>4. IndexConsistent'
        BY <2>2, <2>4, <3>2 DEF IndexConsistent
      <3>5. PlottingOwned'
        BY <2>2, <3>3, OwnersKept
      <3>6. RunOwned' /\ QuitOrdered'
        BY <2>2 DEF RunOwned, QuitOrdered
      <3>7. ProgressOrdered'
        BY <2>2, <2>4, <3>2 DEF ProgressOrdered, WorkSpaceState
      <3>8. UsedIsIndexed'
        BY <2>4 DEF UsedIsIndexed, DisuseWorkSpace
      <3> QED
        BY <3>4, <3>5, <3>6, <3>7, <3>8
    <2> QED
      BY <1>19, <2>3, <2>4 DEF DeleteWS
  <1>20. ASSUME NEW p \in Plotters,
                PlotterBegin(p) \/ Select(p) \/ AddSpaces(p) \/ PlotterExit(p)
         PROVE  KeeperInv'
    <2>1. /\ UNCHANGED <<svc, quit, starts, index, all, state, list, using,
                         created, cur, db, done>>
          /\ pc[p] \in {"spawned", "select", "adding", "drain"}
          /\ \E to \in {"check", "adding", "drain", "exited"} :
               pc' = [pc EXCEPT ![p] = to]
      BY <1>20 DEF PlotterBegin, Select, AddSpaces, PlotterExit, ReceiveSpace
    <2> QED
      BY <2>1, PlotterMoves DEF PlotterPC
  <1>21. ASSUME NEW p \in Plotters, Check(p)
         PROVE  KeeperInv'
    <2> DEFINE to == IF QueueEmpty THEN "select"
                     ELSE IF quit THEN "drain" ELSE "pop"
    <2>1. to = "pop" => svc # "stopped"
      BY <1>21 DEF Check, QuitOrdered
    <2>2. pc' = [pc EXCEPT ![p] = to] /\ pc[p] = "check"
      BY <1>21 DEF Check
    <2>3. to \in {"select", "drain", "pop"}
      OBVIOUS
    <2>4. UNCHANGED <<svc, quit, starts, index, all, state, list, using,
                      created, cur, db, done>>
      BY <1>21 DEF Check
    <2> HIDE DEF to
    <2> QED
      BY <2>1, <2>2, <2>3, <2>4, PlotterMoves DEF PlotterPC
  <1>22. ASSUME NEW p \in Plotters, PopItem(p)
         PROVE  KeeperInv'
    <2>1. CASE UNCHANGED <<pc, cur>>
      BY <1>22, <2>1, FrameKeeperInv DEF PopItem, keeperVars
    <2>2. ASSUME NEW i \in Item, cur' = [cur EXCEPT ![p] = i],
                 pc' = [pc EXCEPT ![p] = "step1"]
          PROVE  KeeperInv'
      <3>1. pc[p] = "pop" /\ svc # "stopped"
        BY <1>22 DEF PopItem, QuitOrdered
      <3>2. \A q \in Plotters : q = p \/ cur'[q] = cur[q]
        BY <2>2 DEF TypeInv, TypeOK
      <3>3. UNCHANGED <<svc, quit, starts, index, all, state, list, using,
                        created, db, done>>
        BY <1>22 DEF PopItem
      <3> QED
        BY <2>2, <3>1, <3>2, <3>3, PlotterMoves DEF PlotterPC
    <2> QED
      BY <1>22, <2>1, <2>2 DEF PopItem
  <1>23. ASSUME NEW p \in Plotters, PlotSpaceBegin(p)
         PROVE  KeeperInv'
    <2> DEFINE s == cur[p].ws
    <2>1. s \in Spaces /\ pc[p] = "step1"
      BY <1>23 DEF PlotSpaceBegin, TypeInv, CurTyped, Item
    <2>2. UNCHANGED <<svc, quit, starts, all, list, using, created, cur, db,
                      done>>
      BY <1>23 DEF PlotSpaceBegin
    <2>3. CASE /\ In("Registered", s)
               /\ ChangeState(s, "Registered", "Plotting")
               /\ pc' = [pc EXCEPT ![p] = "plot"]
      <3>1. /\ IndexConsistent'
            /\ index'["Registered"] = index["Registered"] \ {s}
            /\ index'["Plotting"] = index["Plotting"] \cup {s}
            /\ index'["Ready"] = index["Ready"]
            /\ index'["Mining"] = index["Mining"]
            /\ state[s] = "Registered"
        BY <2>1, <2>2, <2>3, OwnerChange DEF WorkSpaceState, In
      <3>2. s \notin index["Plotting"]
        BY <2>1, <3>1 DEF IndexConsistent, WorkSpaceState
      <3>3. /\ pc'[p] = "plot"
            /\ \A q \in Plotters : q # p => pc'[q] = pc[q]
        BY <2>3 DEF TypeInv, TypeOK
      <3>4. PlottingOwned'
        <4>1. \A q \in Plotters : Working(q)' <=> (Working(q) \/ q = p)
          BY <3>3
        <4>2. \A q \in Plotters : Working(q) => cur[q].ws # s
          BY <2>1, <3>2 DEF PlottingOwned
        <4>3. ASSUME NEW r \in Spaces
              PROVE  r \in index'["Plotting"] <=>
                       \E q \in Plotters : Working(q)' /\ cur'[q].ws = r
          BY <2>2, <3>1, <4>1, <4>2 DEF PlottingOwned
        <4>4. ASSUME NEW q \in Plotters, NEW r \in Plotters, Working(q)',
                     Working(r)', cur'[q].ws = cur'[r].ws
              PROVE  q = r
          BY <2>2, <4>1, <4>2, <4>4 DEF PlottingOwned
        <4> QED
          BY <4>3, <4>4 DEF PlottingOwned
      <3>5. RunOwned'
        BY <2>1, <2>2, <3>3, RunKept
      <3>6. QuitOrdered'
        BY <2>1, <2>2, <3>3 DEF QuitOrdered
      <3>7. ProgressOrdered'
        BY <2>1, <2>2, <2>3, <3>1, <3>3 DEF ProgressOrdered, In
      <3> QED
        BY <2>2, <3>1, <3>4, <3>5, <3>6, <3>7 DEF UsedIsIndexed
    <2>4. CASE /\ pc' = [pc EXCEPT ![p] = "check"]
               /\ UNCHANGED <<index, state>>
      BY <2>1, <2>2, <2>4, PlotterMoves DEF PlotterPC
    <2>5. CASE /\ In("Ready", s) /\ ChangeState(s, "Ready", "Mining")
               /\ pc' = [pc EXCEPT ![p] = "check"]
      <3>1. /\ IndexConsistent'
            /\ index'["Registered"] = index["Registered"]
            /\ index'["Plotting"] = index["Plotting"]
            /\ index'["Ready"] = index["Ready"] \ {s}
            /\ index'["Mining"] = index["Mining"] \cup {s}
        BY <2>1, <2>2, <2>5, OwnerChange DEF WorkSpaceState, In
      <3>2. /\ pc'[p] = "check"
            /\ \A q \in Plotters : q # p => pc'[q] = pc[q]
        BY <2>5 DEF TypeInv, TypeOK
      <3>3. PlottingOwned'
        <4>1. \A q \in Plotters : Working(q)' <=> Working(q)
          BY <2>1, <3>2
        <4> QED
          BY <2>2, <3>1, <4>1, OwnersKept
      <3>4. RunOwned'
        BY <2>1, <2>2, <3>2, RunKept
      <3>5. QuitOrdered'
        BY <2>1, <2>2, <3>2 DEF QuitOrdered
      <3>6. ProgressOrdered'
        BY <2>1, <2>2, <2>5, <3>1, <3>2 DEF ProgressOrdered, In
      <3> QED
        BY <2>2, <3>1, <3>3, <3>4, <3>5, <3>6 DEF UsedIsIndexed
    <2> QED
      BY <1>23, <2>3, <2>4, <2>5 DEF PlotSpaceBegin, KillMonitor
  <1>24. ASSUME NEW p \in Plotters, Plot(p) \/ ExecutePlot(p)
         PROVE  KeeperInv'
    <2> DEFINE s == cur[p].ws
    <2>1. s \in Spaces /\ pc[p] \in {"plot", "make"}
      BY <1>24 DEF Plot, ExecutePlot, TypeInv, CurTyped, Item
    <2>2. UNCHANGED <<svc, quit, starts, index, all, state, list, using,
                      created, cur, done>>
      BY <1>24 DEF Plot, ExecutePlot
    <2>3. /\ pc'[p] \in {"make", "wait"}
          /\ \A q \in Plotters : q # p => pc'[q] = pc[q]
      BY <1>24 DEF Plot, ExecutePlot, TypeInv, TypeOK
    <2>4. PlottingOwned'
      <3>1. \A q \in Plotters : Working(q)' <=> Working(q)
        BY <2>1, <2>3
      <3> QED
        BY <2>2, <3>1, OwnersKept
    <2>5. RunOwned'
      <3>1. \A r \in Spaces : r # s => db'[r] = db[r]
        BY <1>24, <2>1 DEF Plot, ExecutePlot, TypeInv, TypeOK
      <3>2. /\ db'[s] = "set" => pc'[p] = "make"
            /\ db'[s] = "run" => pc'[p] = "wait"
        <4>1. CASE ExecutePlot(p)
          BY <2>1, <4>1 DEF ExecutePlot, TypeInv, TypeOK
        <4>2. CASE Plot(p) /\ db[s] = "idle"
          BY <2>1, <4>2 DEF Plot, TypeInv, TypeOK
        <4>3. CASE Plot(p) /\ db[s] # "idle"
          <5>1. db'[s] = db[s] /\ pc'[p] = "wait" /\ pc[p] = "plot"
            BY <4>3 DEF Plot, TypeInv, TypeOK
          <5>2. db[s] # "set"
            <6>1. ASSUME db[s] = "set" PROVE FALSE
              <7>1. PICK q \in Plotters : pc[q] = "make" /\ cur[q].ws = s
                BY <2>1, <6>1 DEF RunOwned
              <7>2. q = p
                BY <5>1, <7>1 DEF PlottingOwned
              <7> QED
                BY <5>1, <7>1, <7>2
            <6> QED
              BY <6>1
          <5> QED
            BY <5>1, <5>2
        <4> QED
          BY <1>24, <4>1, <4>2, <4>3
      <3>3. \A q \in Plotters : q # p => pc'[q] = pc[q] /\ cur'[q] = cur[q]
        BY <2>2, <2>3
      <3>4. ASSUME NEW r \in Spaces, db'[r] = "run"
            PROVE  \E q \in Plotters : pc'[q] = "wait" /\ cur'[q].ws = r
        <4>1. CASE r = s
          BY <2>2, <3>2, <3>4, <4>1
        <4>2. CASE r # s
          <5>1. PICK q \in Plotters : pc[q] = "wait" /\ cur[q].ws = r
            BY <3>1, <3>4, <4>2 DEF RunOwned
          <5> QED
            BY <2>1, <3>3, <5>1
        <4> QED
          BY <4>1, <4>2
      <3>5. ASSUME NEW r \in Spaces, db'[r] = "set"
            PROVE  \E q \in Plotters : pc'[q] = "make" /\ cur'[q].ws = r
        <4>1. CASE r = s
          BY <2>2, <3>2, <3>5, <4>1
        <4>2. CASE r # s
          <5>1. PICK q \in Plotters : pc[q] = "make" /\ cur[q].ws = r
            BY <3>1, <3>5, <4>2 DEF RunOwned
          <5>2. q # p
            BY <4>2, <5>1
          <5> QED
            BY <3>3, <5>1, <5>2
        <4> QED
          BY <4>1, <4>2
      <3> QED
        BY <3>4, <3>5 DEF RunOwned
    <2>6. QuitOrdered'
      BY <2>1, <2>2, <2>3 DEF QuitOrdered
    <2>7. ProgressOrdered'
      BY <2>2, <2>3 DEF ProgressOrdered
    <2> QED
      BY <2>2, <2>4, <2>5, <2>6, <2>7 DEF IndexConsistent, UsedIsIndexed
  <1>25. ASSUME NEW p \in Plotters, PlotSpaceEnd(p)
         PROVE  KeeperInv'
    <2> DEFINE s == cur[p].ws
               new == NextState(p)
    <2>1. s \in Spaces /\ pc[p] = "wait" /\ db[s] # "run"
      BY <1>25 DEF PlotSpaceEnd, TypeInv, CurTyped, Item
    <2>2. UNCHANGED <<svc, quit, starts, all, list, using, created, cur, db,
                      done>>
      BY <1>25 DEF PlotSpaceEnd
    <2>3. /\ pc'[p] = "check"
          /\ \A q \in Plotters : q # p => pc'[q] = pc[q]
      BY <1>25 DEF PlotSpaceEnd, KillMonitor, TypeInv, TypeOK
    <2>4. s \in index["Plotting"]
      BY <2>1 DEF PlottingOwned
    <2>5. /\ new \in {"Registered", "Ready", "Mining"}
          /\ new = "Registered" <=> s \notin done
      BY DEF NextState
    <2>6. ChangeState(s, "Plotting", new)
      BY <1>25 DEF PlotSpaceEnd
    <2> HIDE DEF new
    <2>7. /\ IndexConsistent'
          /\ index'["Plotting"] = index["Plotting"] \ {s}
          /\ index'[new] = index[new] \cup {s}
          /\ \A st \in WorkSpaceState \ {"Plotting", new} :
               index'[st] = index[st]
      <3>1. CASE new = "Registered"
        BY <2>1, <2>2, <2>4, <2>6, <3>1, OwnerChange DEF WorkSpaceState
      <3>2. CASE new = "Ready"
        BY <2>1, <2>2, <2>4, <2>6, <3>2, OwnerChange DEF WorkSpaceState
      <3>3. CASE new = "Mining"
        BY <2>1, <2>2, <2>4, <2>6, <3>3, OwnerChange DEF WorkSpaceState
      <3> QED
        BY <2>5, <3>1, <3>2, <3>3
    <2>8. PlottingOwned'
      <3>1. \A q \in Plotters : Working(q)' <=> (Working(q) /\ q # p)
        BY <2>1, <2>3
      <3>2. \A q \in Plotters : Working(q) /\ q # p => cur[q].ws # s
        BY <2>1 DEF PlottingOwned
      <3>3. index'["Plotting"] = index["Plotting"] \ {s}
        BY <2>7
      <3>4. ASSUME NEW r \in Spaces
            PROVE  r \in index'["Plotting"] <=>
                     \E q \in Plotters : Working(q)' /\ cur'[q].ws = r
        BY <2>2, <3>1, <3>2, <3>3 DEF PlottingOwned
      <3>5. ASSUME NEW q \in Plotters, NEW r \in Plotters, Working(q)',
                   Working(r)', cur'[q].ws = cur'[r].ws
            PROVE  q = r
        BY <2>2, <3>1, <3>5 DEF PlottingOwned
      <3> QED
        BY <3>4, <3>5 DEF PlottingOwned
    <2>9. RunOwned'
      BY <2>1, <2>2, <2>3, RunKept
    <2>10. QuitOrdered'
      BY <2>1, <2>2, <2>3 DEF QuitOrdered
    <2>11. ProgressOrdered'
      BY <2>1, <2>2, <2>3, <2>5, <2>7 DEF ProgressOrdered, WorkSpaceState
    <2> QED
      BY <2>2, <2>7, <2>8, <2>9, <2>10, <2>11 DEF UsedIsIndexed
  <1>26. ASSUME NEW p \in Plotters, MonitorNext(p)
         PROVE  KeeperInv'
    BY <1>26, FrameKeeperInv
    DEF MonitorNext, MonitorQuit, LaggardQuit, LaggardExit, MonitorClose,
        MonitorReturn, keeperVars
  <1>27. CASE UNCHANGED vars
    BY <1>27, FrameKeeperInv DEF vars, keeperVars
  <1> QED
    <2> HIDE DEF KeeperInv
    <2>1. ASSUME NEW c \in Clients, ClientCall(c) \/ ClientContinue(c)
          PROVE  KeeperInv'
      BY <1>11, <1>12, <1>13, <1>14, <1>16, <1>17, <1>18, <1>19, <2>1
      DEF ClientCall, ClientContinue, Actions
    <2>2. ASSUME NEW p \in Plotters, PlotterNext(p) \/ MonitorNext(p)
          PROVE  KeeperInv'
      BY <1>20, <1>21, <1>22, <1>23, <1>24, <1>25, <1>26, <2>2 DEF PlotterNext
    <2>3. CASE ServiceNext
      BY <1>1, <1>2, <1>3, <1>5, <1>6, <2>3 DEF ServiceNext
    <2> QED
      BY <1>7, <1>8, <1>27, <2>1, <2>2, <2>3 DEF Next, DbNext

\* The inductive invariant holds in every reachable state.
LEMMA KeeperInvariance == Spec => [](TypeInv /\ KeeperInv)
  BY InitTypeInv, NextTypeInv, InitKeeperInv, NextKeeperInv, PTL DEF Spec

\* The invariant the runs check on a small instance holds for any spaces,
\* clients, channel size and number of starts; among its parts, that the list
\* and the using flags name the same, indexed spaces, and who owns a plot.
THEOREM KeeperInvariant == Spec => []KeeperInv
  BY KeeperInvariance, PTL

\* The state maps of the index partition the indexed spaces and agree with
\* ws.state, whatever calls, plotters and configurations interleave.
THEOREM IndexIsConsistent == Spec => []IndexConsistent
  <1>1. TypeInv /\ KeeperInv => IndexConsistent
    BY DEF KeeperInv
  <1> QED
    BY <1>1, KeeperInvariance, PTL

\* A space is Plotting exactly while one plotter works on it, for any number of
\* restarts, also when an earlier start's plotter is still alive.
THEOREM PlottingHasOneOwner == Spec => []PlottingOwned
  <1>1. TypeInv /\ KeeperInv => PlottingOwned
    BY DEF KeeperInv
  <1> QED
    BY <1>1, KeeperInvariance, PTL

\* After OnStop has returned nothing is plotted until the next OnStart, even
\* though OnStop's wg.Wait may miss a plotter that has not run yet.
THEOREM StopIsQuiet == Spec => []StoppedIsQuiet
  <1>1. TypeInv /\ KeeperInv => StoppedIsQuiet
    <2> SUFFICES ASSUME TypeInv, KeeperInv, svc = "stopped"
                 PROVE  /\ index["Plotting"] = {}
                        /\ \A s \in Spaces : db[s] \notin {"set", "run"}
      BY DEF StoppedIsQuiet
    <2>1. \A p \in Plotters : ~Working(p)
      BY DEF KeeperInv, QuitOrdered
    <2>2. index["Plotting"] \subseteq Spaces
      BY DEF TypeInv, TypeOK, WorkSpaceState
    <2> QED
      BY <2>1, <2>2 DEF KeeperInv, PlottingOwned, RunOwned
  <1> QED
    BY <1>1, KeeperInvariance, PTL

\* Ready and Mining spaces are completely plotted, and MassDB.Plot is never
\* called on a plotted space.
THEOREM PlottedServes == Spec => []OnlyPlottedServes
  <1>1. TypeInv /\ KeeperInv => OnlyPlottedServes
    BY DEF KeeperInv, ProgressOrdered, OnlyPlottedServes
  <1> QED
    BY <1>1, KeeperInvariance, PTL

-----------------------------------------------------------------------------
(* A service that is started once has one plotter, and poppedItem is what  *)
(* that plotter works on.                                                  *)

PoppedFollows ==
    \A p \in Plotters : pc[p] \in {"step1", "plot", "make", "wait"} => popped = p

\* Of a service that is started once: poppedItem names the plotter that works,
\* since only PopItem and the plotter's own exit change it.
LEMMA NextPoppedFollows ==
  ASSUME MaxStarts = 1, TypeInv, KeeperInv, PoppedFollows, [Next]_vars
  PROVE  PoppedFollows'
  <1> USE DEF PoppedFollows, TypeInv, TypeOK
  <1>1. Plotters = {1}
    BY DEF Plotters
  <1>2. CASE pc' = pc /\ popped' = popped
    BY <1>2
  <1>3. CASE OnStart
    BY <1>1, <1>3 DEF OnStart
  <1>4. ASSUME NEW new \in SUBSET Spaces, NEW sel \in SUBSET Spaces,
               NEW execPlot \in BOOLEAN, NEW execMine \in BOOLEAN,
               Configure(new, sel, execPlot, execMine)
        PROVE  PoppedFollows'
    BY <1>4 DEF Configure, KeeperInv, QuitOrdered
  <1>5. ASSUME NEW p \in Plotters, PlotterNext(p)
        PROVE  PoppedFollows'
    <2>1. p = 1
      BY <1>1, <1>5
    <2>2. CASE PopItem(p)
      BY <1>1, <2>1, <2>2, <1>2 DEF PopItem
    <2>3. CASE PlotSpaceBegin(p)
      BY <1>1, <2>1, <2>3 DEF PlotSpaceBegin, KillMonitor
    <2>4. CASE Plot(p) \/ ExecutePlot(p) \/ PlotSpaceEnd(p)
      BY <1>1, <2>1, <2>4 DEF Plot, ExecutePlot, PlotSpaceEnd, KillMonitor
    <2>5. CASE PlotterBegin(p) \/ Check(p)
      BY <1>1, <2>1, <2>5 DEF PlotterBegin, Check
    <2>6. CASE Select(p) \/ AddSpaces(p) \/ PlotterExit(p)
      BY <1>1, <2>1, <2>6 DEF Select, AddSpaces, ReceiveSpace, PlotterExit
    <2> QED
      BY <1>5, <2>2, <2>3, <2>4, <2>5, <2>6 DEF PlotterNext
  <1>6. ASSUME NEW p \in Plotters, MonitorNext(p)
        PROVE  PoppedFollows'
    BY <1>2, <1>6 DEF MonitorNext, MonitorQuit, LaggardQuit, LaggardExit,
                      MonitorClose, MonitorReturn
  <1>7. ASSUME NEW c \in Clients, ClientCall(c) \/ ClientContinue(c)
        PROVE  pc' = pc /\ popped' = popped
    <2>1. CASE ClientCall(c)
      BY <2>1 DEF ClientCall, PlotWS, MineWS, QueueDelete, Submit, Redirect
    <2>2. CASE ClientContinue(c)
      BY <2>2 DEF ClientContinue, Send, StopWS, StopClose, StopReturn,
                   RemoveWS, DeleteWS
    <2> QED
      BY <1>7, <2>1, <2>2
  <1>8. CASE UNCHANGED vars
    BY <1>2, <1>8 DEF vars
  <1>9. CASE ServiceNext
    <2>1. CASE OnStop \/ OnStopReturn \/ \E new \in SUBSET Spaces : ConfigureFails(new)
      BY <1>2, <2>1 DEF OnStop, OnStopReturn, ConfigureFails
    <2> HIDE DEF PoppedFollows, TypeInv, TypeOK
    <2> QED
      BY <1>3, <1>4, <1>9, <2>1 DEF ServiceNext
  <1>10. ASSUME NEW s \in Spaces, DbNext(s)
         PROVE  PoppedFollows'
    BY <1>2, <1>10 DEF DbNext, PlotEnd, PlotSettle
  <1> QED
    <2> HIDE DEF PoppedFollows, TypeInv, TypeOK
    <2> QED
      BY <1>2, <1>5, <1>6, <1>7, <1>8, <1>9, <1>10 DEF Next

\* Of a service that is started once: when PlotWS, MineWS or StopWS follows
\* poppedItem for a plotting space, the item is there and is that space's.
THEOREM PoppedIsThePlotting ==
  ASSUME MaxStarts = 1 PROVE Spec => []PoppedIsPlotting
  <1>1. Init => PoppedFollows
    BY DEF Init, PoppedFollows
  <1>2. TypeInv /\ KeeperInv /\ PoppedFollows /\ [Next]_vars => PoppedFollows'
    BY NextPoppedFollows
  <1>3. TypeInv /\ KeeperInv /\ PoppedFollows => PoppedIsPlotting
    <2> SUFFICES ASSUME TypeInv, KeeperInv, PoppedFollows,
                        NEW s \in index["Plotting"]
                 PROVE  popped # 0 /\ cur[popped].ws = s
      BY DEF PoppedIsPlotting
    <2>1. s \in Spaces
      BY DEF TypeInv, TypeOK, WorkSpaceState
    <2>2. PICK p \in Plotters : Working(p) /\ cur[p].ws = s
      BY <2>1 DEF KeeperInv, PlottingOwned
    <2> QED
      BY <2>2 DEF PoppedFollows, Plotters
  <1> QED
    BY <1>1, <1>2, <1>3, KeeperInvariance, PTL DEF Spec

=============================================================================
