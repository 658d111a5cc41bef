----------------------------- MODULE Configure -----------------------------
(***************************************************************************)
(* How the native space keeper (poc/engine/spacekeeper/capacity) decides   *)
(* which work spaces it uses: the index it builds from the files of its    *)
(* directories, the three ways to configure it that are in use (a list of  *)
(* counts at start, a size, sizes by directory), the spaces a request      *)
(* generates one by one, and what a failure or a crash in between leaves.  *)
(* A call of Configure* keeps others out (`configuring`), so there is one  *)
(* at a time, and one that is turned away changes nothing.  What the       *)
(* plotter does is the subject of SpaceKeeper; here a listed space becomes *)
(* plotted, which takes room on its disk.                                  *)
(***************************************************************************)
EXTENDS Integers, Sequences, FiniteSets, SequencesExt, FiniteSetsExt

CONSTANTS
    Dirs,         \* directories
    CfgDirs,      \* miner.proof_dir of the configuration, a sequence
    Disk,         \* [Dirs -> Nat]: the room for plots
    Found,        \* the files on the disks when the program is first started
    OldKeys,      \* keys the wallet has then
    Wants,        \* miner.proof_list: functions from bit lengths to counts
    SizeRequests, \* sizes asked of ConfigureCapacity
    PathRequests, \* sequences of [dir, size] asked of ConfigureCapacityByDirs
    MaxKeys,      \* bound: keys of the wallet
    MaxCalls      \* bound: calls of Configure*

UsableBitLength == <<24, 26, 28>>

\* EnsureBitLength of mass-core: what the name of a file and proof_list may say
BitLengths == {24, 26, 28, 30, 32, 34, 36, 38, 40}

\* Directories, files, lists of counts and requests are what the code takes for such: a request
\* names a directory (ErrConfigInvalidPathSize), another wallet's key is 0
ASSUME ConfigureAssumption ==
    /\ IsFiniteSet(Dirs) /\ CfgDirs \in Seq(Dirs) /\ CfgDirs # <<>>
    /\ Disk \in [Dirs -> Nat]
    /\ OldKeys \in Nat /\ MaxKeys \in Nat /\ OldKeys <= MaxKeys /\ MaxCalls \in Nat
    /\ Found \subseteq [ord : 0..OldKeys, bl : BitLengths, dir : Dirs,
                        name : {"old", "new"}, whole : BOOLEAN]
    /\ \A want \in Wants : DOMAIN want \subseteq BitLengths /\ want \in [DOMAIN want -> Nat]
    /\ SizeRequests \subseteq Nat
    /\ PathRequests \subseteq Seq([dir : Dirs, size : Nat]) \ {<<>>}

VARIABLES
    svc,        \* "down", "idle" (made, not started) or "running"
    dirs,       \* sk.dbDirs
    index,      \* workSpaceIndex[allState]: spaces [ord, bl, dir]
    list,       \* workSpaceList
    configured, \* sk.configured
    call,       \* the latest call of Configure*
    keys,       \* the wallet has the keys 1 .. keys; 0 is another wallet's key
    files,      \* on disk: [ord, bl, dir, name, whole]
    plotted,    \* the spaces whose plot is complete
    met,        \* requests met so far, of a size only in this process
    calls,      \* calls made
    refused     \* of the requests met so far, the one that was turned away just now

keeperVars == <<svc, dirs, index, list, configured, call, keys, files, plotted, met, calls>>

configureVars == <<keeperVars, refused>>

\* PlotSize of mass-core in units of 32 MiB: 2^bl pairs of records of 3, 4 or 5 bytes
PlotSize(bl) == CASE bl = 24 -> 3 [] bl = 26 -> 16 [] bl = 28 -> 64
                  [] bl = 30 -> 256 [] bl = 32 -> 1024 [] bl = 34 -> 5120
                  [] bl = 36 -> 20480 [] bl = 38 -> 81920 [] bl = 40 -> 327680

Smallest == PlotSize(UsableBitLength[1])

\* SpaceID.String: the key and the bit length
ID(s) == <<s.ord, s.bl>>

Space(f) == [ord |-> f.ord, bl |-> f.bl, dir |-> f.dir]

Size(s) == PlotSize(s.bl)

Total(S) == MapThenSumSet(Size, S)

Free(d) == Disk[d] - Total({s \in plotted : s.dir = d})

-----------------------------------------------------------------------------
(* The index *)

\* generateInitialIndex: a name that parses, a key of the wallet, a file that opens
Usable(f) == f.name = "new" /\ f.ord \in 1..keys /\ f.whole

\* the first of ds that is d
Place(ds, d) == CHOOSE i \in DOMAIN ds : ds[i] = d /\ \A j \in 1..(i - 1) : ds[j] # d

\* generateInitialIndex over ds: a file is passed over when its space is known already,
\* from before or from a directory read earlier
Indexed(ix, fs, ds) ==
    LET known == {ID(s) : s \in ix}
        found == {f \in fs : Usable(f) /\ f.dir \in ToSet(ds) /\ ID(f) \notin known}
        first == {f \in found : \A g \in found :
                    ID(g) = ID(f) => Place(ds, f.dir) <= Place(ds, g.dir)}
    IN  ix \cup {Space(f) : f \in first}

\* upgradeMassDBFile: old names get the ordinal; a file of that name is replaced
Upgraded(fs, ds) ==
    LET old == {f \in fs : f.name = "old" /\ f.dir \in ToSet(ds) /\ f.ord \in 1..keys}
    IN  {f \in fs \ old : ~\E g \in old : Space(g) = Space(f)}
            \cup {[f EXCEPT !.name = "new"] : f \in old}

-----------------------------------------------------------------------------
(* Filling a list *)

\* getIndexedWorkSpaces: those of a bit length by ordinal
Lowest(S, n) == {s \in S : Cardinality({t \in S : t.ord < s.ord}) < n}

\* fillSpaceListBySize, fillSpaceListByPathSize: the larger bit lengths first, and of each as
\* many as fit
Fill(src, size) ==
    LET take(acc, bl) ==
            LET S == {s \in src : s.bl = bl}
            IN  acc \cup Lowest(S, (size - Total(acc)) \div PlotSize(bl))
    IN  FoldLeft(take, {}, Reverse(UsableBitLength))

\* mutant: a plot that fits exactly is not made
PlanStrict(rest) ==
    LET put(acc, bl) == LET n == (acc.rest - 1) \div PlotSize(bl)
                        IN  [rest |-> acc.rest - n * PlotSize(bl),
                             todo |-> acc.todo \o [i \in 1..n |-> bl]]
    IN  FoldLeft(put, [rest |-> rest, todo |-> <<>>], Reverse(UsableBitLength)).todo

\* generateFillSpaceListBySize, ...ByPathSize: the bit lengths to generate for the rest
Plan(rest) ==
    LET put(acc, bl) == [rest |-> acc.rest % PlotSize(bl),
                         todo |-> acc.todo \o [i \in 1..(acc.rest \div PlotSize(bl)) |-> bl]]
    IN  FoldLeft(put, [rest |-> rest, todo |-> <<>>], Reverse(UsableBitLength)).todo

\* fillSpaceListByBitLength
FillByBitLength(src, want) ==
    UNION {Lowest({s \in src : s.bl = bl}, want[bl]) : bl \in DOMAIN want}

\* generateFillSpaceListByBitLength: what is missing, in some order of the map
MissingInOrder(got, want, order) ==
    LET put(acc, bl) ==
            acc \o [i \in 1..(want[bl] - Cardinality({s \in got : s.bl = bl})) |-> bl]
    IN  FoldLeft(put, <<>>, order)

Orders(S) == {o \in [1..Cardinality(S) -> S] : ToSet(o) = S}

PlanSize(todo) == FoldLeft(LAMBDA n, bl : n + PlotSize(bl), 0, todo)

\* checkOSDiskSizeByPath
HasRoom(d, required) == required < Free(d)

-----------------------------------------------------------------------------
NoCall == [st |-> "none", kind |-> "none", asked |-> <<>>, parts |-> <<>>, todo |-> <<>>,
           want |-> <<>>, into |-> CfgDirs[1], key |-> 0, got |-> {}]

ConfigureInit ==
    /\ svc = "down" /\ dirs = <<>> /\ index = {} /\ list = {}
    /\ configured = FALSE /\ call = NoCall
    /\ keys = OldKeys /\ files = Found /\ plotted = {} /\ met = {} /\ calls = 0
    /\ refused = {}

\* what a process that ends forgets
Forget ==
    /\ svc' = "down" /\ dirs' = <<>> /\ index' = {} /\ list' = {}
    /\ configured' = FALSE /\ call' = NoCall
    /\ met' = {r \in met : r.kind # "size"}

\* applyConfiguredWorkSpaces: the spaces in use; whether they are queued for the plotter
\* (execPlot, execMine) is not told apart here
Use(got) == list' = got /\ configured' = TRUE

\* NewSpaceKeeperV1 with no password: upgrade and index, nothing configured
Boot ==
    /\ svc = "down"
    /\ svc' = "idle" /\ dirs' = CfgDirs
    /\ files' = Upgraded(files, CfgDirs)
    /\ index' = Indexed({}, files', CfgDirs)
    /\ UNCHANGED <<list, configured, call, keys, plotted, met, calls>>

\* NewSpaceKeeperV1 with a password and no proof_list: ConfigureByFlags(SFAll); having no
\* space is no error here
BootByFlags ==
    /\ svc = "down"
    /\ svc' = "idle" /\ dirs' = CfgDirs
    /\ files' = Upgraded(files, CfgDirs)
    /\ index' = Indexed({}, files', CfgDirs)
    /\ IF index' = {} THEN UNCHANGED <<list, configured>>
       ELSE Use(index')
    /\ call' = [NoCall EXCEPT !.kind = "flags", !.st = IF index' = {} THEN "failed" ELSE "ok"]
    /\ UNCHANGED <<keys, plotted, met, calls>>

\* NewSpaceKeeperV1 with a proof_list: ConfigureByBitLength, as far as the check of the disk;
\* without room for what is missing the program ends, its files upgraded
BootByBitLength(want) ==
    LET fs == Upgraded(files, CfgDirs)
        ix == Indexed({}, fs, CfgDirs)
        got == FillByBitLength(ix, want)
    IN  /\ svc = "down" /\ calls < MaxCalls
        /\ files' = fs /\ calls' = calls + 1
        /\ \E order \in Orders(DOMAIN want) :
             LET todo == MissingInOrder(got, want, order)
             IN  IF todo # <<>> /\ ~HasRoom(CfgDirs[1], PlanSize(todo))
                 THEN /\ refused' = met \cap {[kind |-> "list", asked |-> <<>>, want |-> want]}
                      /\ UNCHANGED <<svc, dirs, index, call>>
                 ELSE /\ svc' = "idle" /\ dirs' = CfgDirs /\ index' = ix /\ refused' = {}
                      /\ call' = [NoCall EXCEPT !.st = "run", !.kind = "list", !.want = want,
                                                !.todo = todo, !.got = got]
        /\ UNCHANGED <<list, configured, keys, plotted, met>>

\* ErrAPIMinerNotStopped, ErrSpaceKeeperIsConfiguring
Busy == svc = "running" \/ call.st = "run"

\* the API answers once NewSpaceKeeperV1 has returned
Served == svc # "down" /\ ~(call.st = "run" /\ call.kind = "list")

\* a handler returns an error before sk.configured is cleared
TurnAway(kind, parts) ==
    /\ refused' = met \cap {[kind |-> kind, asked |-> parts, want |-> <<>>]}
    /\ UNCHANGED keeperVars

\* Configure* by way of the API; `parts` says where spaces are taken from, how much of them is
\* wanted, where new ones go
Begin(kind, parts) ==
    /\ calls < MaxCalls
    /\ configured' = FALSE
    /\ call' = [NoCall EXCEPT !.st = "run", !.kind = kind, !.asked = parts, !.parts = parts]
    /\ calls' = calls + 1
    /\ refused' = {}
    /\ UNCHANGED <<svc, list, keys, files, plotted, met>>

\* checkMinerDiskSize: not below a plot, nor above the free room of the first directory
CheckMinerDiskSize(size) == size >= Smallest /\ size <= Free(dirs[1])

\* ConfigureCapacity, ConfigureBySize
ConfigureBySize(size) ==
    LET parts == << [from |-> Dirs, into |-> dirs[1], size |-> size] >>
    IN  /\ Served
        /\ IF CheckMinerDiskSize(size) /\ ~Busy
           THEN Begin("size", parts) /\ UNCHANGED <<dirs, index>>
           ELSE TurnAway("size", parts)

\* IsCapacityAvailable: the keeper's own spaces of a directory it knows, else all its files
PlottedIn(d) ==
    LET own == {s \in index : s.dir = d}
    IN  Total(plotted \cap (IF own # {} THEN own ELSE {Space(f) : f \in {g \in files : g.dir = d}}))

\* checkMinerPathCapacity
CheckMinerPathCapacity(d, size) == Free(d) + PlottedIn(d) >= size

\* ConfigureCapacityByDirs, ConfigureByPath: the directories are replaced, the index grows
ConfigureByPath(request) ==
    LET ds == [i \in DOMAIN request |-> request[i].dir]
        parts == [i \in DOMAIN request |->
                    [from |-> {ds[i]}, into |-> ds[i], size |-> request[i].size]]
    IN  /\ Served
        /\ IF (\A i \in DOMAIN request : CheckMinerPathCapacity(ds[i], request[i].size)) /\ ~Busy
           THEN Begin("path", parts) /\ dirs' = ds /\ index' = Indexed(index, files, ds)
           ELSE TurnAway("path", parts)

\* an error leaves the list and what was generated; in NewSpaceKeeperV1 it ends the program
Fails ==
    IF call.kind = "list" THEN Forget
    ELSE /\ call' = [call EXCEPT !.st = "failed", !.todo = <<>>, !.parts = <<>>, !.key = 0]
         /\ UNCHANGED <<svc, dirs, index, list, configured, met>>

\* one directory: spaces that exist, then a plan for the rest if the disk has room for it
FillPart ==
    /\ call.st = "run" /\ call.todo = <<>> /\ call.parts # <<>>
    /\ LET p == Head(call.parts)
           got == Fill({s \in index : s.dir \in p.from}, p.size)
           rest == p.size - Total(got)
       IN  IF rest >= Smallest /\ ~HasRoom(p.into, rest) THEN Fails
           ELSE /\ call' = [call EXCEPT !.got = @ \cup got, !.parts = Tail(@),
                                        !.into = p.into, !.todo = Plan(rest)]
                /\ UNCHANGED <<svc, dirs, index, list, configured, met>>
    /\ UNCHANGED <<keys, files, plotted, calls>>

\* generateNewWorkSpaceByPath: the wallet makes and stores a key
GenerateNewPublicKey ==
    /\ call.st = "run" /\ call.todo # <<>> /\ call.key = 0 /\ keys < MaxKeys
    /\ keys' = keys + 1
    /\ call' = [call EXCEPT !.key = keys + 1]
    /\ UNCHANGED <<svc, dirs, index, list, configured, files, plotted, met, calls>>

\* NewWorkSpace makes both files; addWorkSpaceToIndex
NewWorkSpace ==
    /\ call.st = "run" /\ call.key # 0
    /\ LET s == [ord |-> call.key, bl |-> Head(call.todo), dir |-> call.into]
       IN  /\ files' = files \cup {[ord |-> s.ord, bl |-> s.bl, dir |-> s.dir,
                                    name |-> "new", whole |-> TRUE]}
           /\ index' = index \cup {s}
           /\ call' = [call EXCEPT !.key = 0, !.todo = Tail(@), !.got = @ \cup {s}]
    /\ UNCHANGED <<svc, dirs, list, configured, keys, plotted, met, calls>>

\* the wallet or the file system refuses: createMapFile removes its file
GenerateFails ==
    /\ call.st = "run" /\ call.todo # <<>>
    /\ Fails
    /\ UNCHANGED <<keys, files, plotted, calls>>

\* what the call was asked for
Request == [kind |-> call.kind, asked |-> call.asked, want |-> call.want]

\* successfullyReturn
Apply ==
    /\ call.st = "run" /\ call.todo = <<>> /\ call.parts = <<>>
    /\ IF call.got = {} THEN Fails
       ELSE /\ Use(call.got)
            /\ call' = [call EXCEPT !.st = "ok"]
            /\ met' = met \cup {Request}
            /\ UNCHANGED <<svc, dirs, index>>
    /\ UNCHANGED <<keys, files, plotted, calls>>

\* Start: the handlers refuse before anything was configured
Start ==
    /\ svc = "idle" /\ configured /\ call.st # "run"
    /\ svc' = "running"
    /\ UNCHANGED <<dirs, index, list, configured, call, keys, files, plotted, met, calls>>

Stop ==
    /\ svc = "running"
    /\ svc' = "idle"
    /\ UNCHANGED <<dirs, index, list, configured, call, keys, files, plotted, met, calls>>

\* the plotter completes a listed space, if its disk has the room
Plot(s) ==
    /\ svc = "running" /\ s \in list \ plotted /\ Size(s) <= Free(s.dir)
    /\ plotted' = plotted \cup {s}
    /\ UNCHANGED <<svc, dirs, index, list, configured, call, keys, files, met, calls>>

\* the process dies; when it was making files, they are missing, incomplete or complete
Crash ==
    /\ svc # "down"
    /\ Forget
    /\ \E left \in IF call.key = 0 THEN {{}} ELSE {{}} \cup
            {{[ord |-> call.key, bl |-> Head(call.todo), dir |-> call.into,
               name |-> "new", whole |-> w]} : w \in BOOLEAN} :
          files' = files \cup left
    /\ UNCHANGED <<keys, plotted, calls>>

ConfigureNext ==
    \/ \E want \in Wants : BootByBitLength(want)
    \/ \E size \in SizeRequests : ConfigureBySize(size)
    \/ \E request \in PathRequests : ConfigureByPath(request)
    \/ /\ refused' = {}
       /\ \/ Boot
          \/ BootByFlags
          \/ FillPart
          \/ GenerateNewPublicKey
          \/ NewWorkSpace
          \/ GenerateFails
          \/ Apply
          \/ Start
          \/ Stop
          \/ \E s \in list : Plot(s)
          \/ Crash

ConfigureSpec == ConfigureInit /\ [][ConfigureNext]_configureVars

-----------------------------------------------------------------------------
(* What the keeper answers *)

\* workSpaceInfos2ProtoAllocation: a directory with its spaces in use and their size
Allocation(d) ==
    LET spaces == {s \in list : s.dir = d}
    IN  [dir |-> d, capacity |-> Total(spaces), spaces |-> spaces]

\* getCapacitySpacesByDirs, WorkSpaceInfosByDirs: of the directories of the latest call, in
\* their order and as often as it named them, those that hold a known space
ByDirs == [i \in {j \in DOMAIN dirs : \E s \in index : s.dir = dirs[j]} |-> Allocation(dirs[i])]

-----------------------------------------------------------------------------
ConfigureTypeOK ==
    /\ svc \in {"down", "idle", "running"}
    /\ dirs \in Seq(Dirs)
    /\ index \subseteq [ord : 1..MaxKeys, bl : BitLengths, dir : Dirs]
    /\ list \subseteq index /\ plotted \subseteq {Space(f) : f \in files}
    /\ configured \in BOOLEAN /\ keys \in OldKeys..MaxKeys /\ calls \in 0..MaxCalls

\* What a call that succeeds puts in use is what was asked for: of every directory (or of
\* all, for a size) no more than the request, and less than one smallest plot short of it,
\* whatever was indexed, generated by calls that failed half way, plotted or left by a
\* crash.  A directory named twice gets between the larger request and the sum.
SizeMet ==
    call.st = "ok" =>
        \A i \in DOMAIN call.asked :
            LET p == call.asked[i]
                used == Total({s \in list : s.dir \in p.from})
                all == MapThenSumSet(LAMBDA j : call.asked[j].size,
                           {j \in DOMAIN call.asked : call.asked[j].from = p.from})
            IN  used <= all /\ used + Smallest > p.size

\* outside the configured directories there is one copy of a space of the wallet
Settled(fs) ==
    \A f, g \in fs : /\ f.name = "new" /\ f.whole /\ g.name = "new" /\ g.whole
                     /\ f.ord # 0 /\ ID(f) = ID(g)
                     /\ f.dir \notin ToSet(CfgDirs) /\ g.dir \notin ToSet(CfgDirs)
                     => f.dir = g.dir

\* A request that was met once is met again from the spaces that exist: it is not turned away
\* from a keeper that is neither running nor being configured, generates nothing and does not
\* fail, although the index grows, larger spaces are taken first and plots fill the disks.
\* For lists and sizes by directory this holds over crashes and restarts too.  A size alone may
\* be turned away once its own plots have taken the room of the first directory.
\* It needs that a space lies only once outside the configured directories when the program
\* is first started; which copy is known depends on the order of the requests otherwise.
Repeatable ==
    Settled(Found) =>
        /\ Request \in met => call.todo = <<>> /\ call.st # "failed"
        /\ \A r \in refused : Busy \/ r.kind = "size"

\* Every space of the wallet on the keeper's disks is in its index: what a request
\* generated before it failed, or before the process died, is not lost.
IndexIsDisk ==
    svc # "down" => \A f \in files :
        Usable(f) /\ f.dir \in ToSet(dirs) => \E s \in index : ID(s) = ID(f)

\* While the keeper says it is configured, its answer by directories has every space in use,
\* in the directory its files are in, although a call that fails leaves the new directories
\* with the old spaces; and the sizes it tells add up to what is in use, unless a directory
\* was named twice, which is shown and counted twice.  Not after a size: that takes spaces of
\* every directory ever named, and those of one the keeper has left are in use and not shown.
DirsShowAll ==
    configured /\ call.kind # "size" =>
        /\ UNION {ByDirs[i].spaces : i \in DOMAIN ByDirs} = list
        /\ (\A i, j \in DOMAIN dirs : dirs[i] = dirs[j] => i = j)
             => MapThenSumSet(LAMBDA i : ByDirs[i].capacity, DOMAIN ByDirs) = Total(list)

\* Configuring capacity gives what was asked, over failures, crashes and repetition, and the
\* keeper's index, its disks and what it shows by directory agree.
CapacityKept == SizeMet /\ Repeatable /\ IndexIsDisk /\ DirsShowAll
=============================================================================
