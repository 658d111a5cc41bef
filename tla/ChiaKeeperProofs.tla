-------------------------- MODULE ChiaKeeperProofs --------------------------
(***************************************************************************)
(* ViewsAgree and Complete for any plots, directories, clients, queries    *)
(* and workers.                                                            *)
(***************************************************************************)
EXTENDS ChiaKeeper, FiniteSetTheorems, WellFoundedInduction, TLAPS

-----------------------------------------------------------------------------
(* Least numbers, and what a loop over a sequence computes.                *)

\* a set of numbers that is not empty has a least element
LEMMA Least ==
  ASSUME NEW T \in SUBSET Nat, T # {}
  PROVE  \E n \in T : \A k \in T : n <= k
  <1> DEFINE R == OpToRel(<, Nat)
  <1>1. PICK n \in T : \A k \in T : ~(<<k, n>> \in R)
    <2>1. IsWellFoundedOn(R, Nat)
      BY NatLessThanWellFounded
    <2> QED
      BY <2>1, WFMin
  <1>2. \A k \in T : ~(k < n)
    BY <1>1 DEF OpToRel
  <1> QED
    BY <1>2

\* f[n] is what a loop of m rounds has after its n-th: step[n] is what a round
\* makes of what the rounds before have made, a member of S
IsLoop(f, S, base, m, step) ==
    /\ f \in [0 .. m -> S]
    /\ f[0] = base
    /\ \A n \in 1 .. m : f[n] = step[n][f[n - 1]]

Closed(S, m, step) == \A n \in 1 .. m : \A s \in S : step[n][s] \in S

\* A loop's results exist: by the least round for which they would not.
LEMMA LoopExists ==
  ASSUME NEW S, NEW base \in S, NEW m \in Nat, NEW step, Closed(S, m, step)
  PROVE  \E f : IsLoop(f, S, base, m, step)
  <1> DEFINE Loop(f, k) == f[0] = base /\ \A n \in 1 .. k : f[n] = step[n][f[n - 1]]
             T == {k \in 0 .. m : ~ \E f \in [0 .. k -> S] : Loop(f, k)}
  <1>1. T = {}
    <2> SUFFICES ASSUME T # {} PROVE FALSE
      OBVIOUS
    <2>1. PICK k \in T : \A j \in T : k <= j
      <3>1. T \in SUBSET Nat
        OBVIOUS
      <3> QED
        BY <3>1, Least
    <2>2. k \in 0 .. m /\ ~ \E f \in [0 .. k -> S] : Loop(f, k)
      BY <2>1
    <2>3. CASE k = 0
      <3> DEFINE g == [n \in 0 .. 0 |-> base]
      <3>1. g \in [0 .. k -> S] /\ g[0] = base
        BY <2>3
      <3>2. \A n \in 1 .. k : FALSE
        BY <2>3
      <3>3. Loop(g, k)
        BY <3>1, <3>2
      <3> QED
        BY <2>2, <3>1, <3>3
    <2>4. CASE k # 0
      <3>1. k - 1 \in 0 .. m /\ k \in 1 .. m /\ k \in Nat /\ k - 1 < k
        BY <2>2, <2>4
      <3>2. k - 1 \notin T
        <4> HIDE DEF T
        <4> QED
          BY <2>1, <3>1
      <3>3. PICK g \in [0 .. k - 1 -> S] : Loop(g, k - 1)
        BY <3>1, <3>2
      <3> DEFINE h == [n \in 0 .. k |-> IF n = k THEN step[k][g[k - 1]] ELSE g[n]]
      <3>4. step[k][g[k - 1]] \in S
        <4>1. g[k - 1] \in S /\ k - 1 \in 0 .. k - 1
          BY <3>1, <3>3
        <4> QED
          BY <3>1, <4>1 DEF Closed
      <3>5. h \in [0 .. k -> S]
        BY <3>1, <3>3, <3>4
      <3>6. h[0] = base
        BY <3>1, <3>3
      <3>7. ASSUME NEW n \in 1 .. k PROVE h[n] = step[n][h[n - 1]]
        <4>1. h[n - 1] = g[n - 1]
          BY <3>1, <3>7
        <4>2. CASE n = k
          BY <3>1, <4>1, <4>2
        <4>3. CASE n # k
          <5>1. n \in 1 .. k - 1 /\ n \in 0 .. k
            BY <3>1, <3>7, <4>3
          <5>2. h[n] = g[n] /\ g[n] = step[n][g[n - 1]]
            BY <3>3, <4>3, <5>1
          <5> QED
            BY <4>1, <5>2
        <4> QED
          BY <4>2, <4>3
      <3>8. Loop(h, k)
        BY <3>6, <3>7
      <3> QED
        BY <2>2, <3>5, <3>8
    <2> QED
      BY <2>3, <2>4
  <1>2. m \in 0 .. m
    OBVIOUS
  <1>3. PICK f \in [0 .. m -> S] : Loop(f, m)
    BY <1>1, <1>2
  <1>4. IsLoop(f, S, base, m, step)
    BY <1>3 DEF IsLoop
  <1> QED
    BY <1>4

\* what InUse has after each round
LEMMA InUseRounds ==
  ASSUME NEW p \in Seq(Plots), NEW used
  PROVE  \E f : /\ f[0] = <<>> /\ InUse(p, used) = f[Len(p)]
                /\ \A n \in 1 .. Len(p) :
                     f[n] = IF p[n] \in used THEN Append(f[n - 1], p[n]) ELSE f[n - 1]
  <1> DEFINE m == Len(p)
             S == Seq(Plots)
             Round(n, s) == IF p[n] \in used THEN Append(s, p[n]) ELSE s
             step == [n \in 1 .. m |-> [s \in S |-> Round(n, s)]]
             Body(f) == [n \in 0 .. m |-> IF n = 0 THEN <<>> ELSE Round(n, f[n - 1])]
             infos == CHOOSE f : f = Body(f)
  <1>0. InUse(p, used) = infos[m]
    BY DEF InUse
  <1>1. m \in Nat /\ <<>> \in S /\ \A n \in 1 .. m, s \in S : Round(n, s) \in S
    OBVIOUS
  <1> HIDE DEF m, S, Round
  <1>2. Closed(S, m, step)
    BY <1>1 DEF Closed
  <1>3. PICK f : IsLoop(f, S, <<>>, m, step)
    <2> HIDE DEF step
    <2> QED
      BY <1>1, <1>2, LoopExists
  <1>4. \A n \in 1 .. m : f[n] = Round(n, f[n - 1])
    <2> SUFFICES ASSUME NEW n \in 1 .. m PROVE f[n] = Round(n, f[n - 1])
      OBVIOUS
    <2>1. n - 1 \in 0 .. m
      BY <1>1
    <2>2. f[n - 1] \in S
      BY <1>3, <2>1 DEF IsLoop
    <2>3. step[n][f[n - 1]] = Round(n, f[n - 1])
      BY <2>2
    <2> QED
      BY <1>3, <2>3 DEF IsLoop
  <1>5. f = Body(f)
    BY <1>1, <1>3, <1>4 DEF IsLoop
  <1>6. infos = Body(infos)
    BY <1>5
  <1> HIDE DEF infos
  <1>7. infos[0] = <<>> /\ \A n \in 1 .. m : infos[n] = Round(n, infos[n - 1])
    BY <1>1, <1>6
  <1> QED
    BY <1>0, <1>7 DEF m, Round

\* what PathOf has after each round
LEMMA PathOfRounds ==
  ASSUME NEW d, NEW files \in Seq(Plots), files = SetToSeq(NewIn(d)),
         \A s \in Plots, p \in Seq(Plots) : AddPath(p, s) \in Seq(Plots)
  PROVE  \E f : /\ f[0] = <<>> /\ PathOf(d) = f[Len(files)]
                /\ \A n \in 1 .. Len(files) : f[n] = AddPath(f[n - 1], files[n])
  <1> DEFINE m == Len(files)
             S == Seq(Plots)
             Round(n, s) == AddPath(s, files[n])
             step == [n \in 1 .. m |-> [s \in S |-> Round(n, s)]]
             Body(f) == [n \in 0 .. m |-> IF n = 0 THEN <<>> ELSE Round(n, f[n - 1])]
             path == CHOOSE f : f = Body(f)
  <1>0. PathOf(d) = path[m]
    BY DEF PathOf
  <1>1. m \in Nat /\ <<>> \in S /\ \A n \in 1 .. m, s \in S : Round(n, s) \in S
    OBVIOUS
  <1> HIDE DEF m, S, Round
  <1>2. Closed(S, m, step)
    BY <1>1 DEF Closed
  <1>3. PICK f : IsLoop(f, S, <<>>, m, step)
    <2> HIDE DEF step
    <2> QED
      BY <1>1, <1>2, LoopExists
  <1>4. \A n \in 1 .. m : f[n] = Round(n, f[n - 1])
    <2> SUFFICES ASSUME NEW n \in 1 .. m PROVE f[n] = Round(n, f[n - 1])
      OBVIOUS
    <2>1. n - 1 \in 0 .. m
      BY <1>1
    <2>2. f[n - 1] \in S
      BY <1>3, <2>1 DEF IsLoop
    <2>3. step[n][f[n - 1]] = Round(n, f[n - 1])
      BY <2>2
    <2> QED
      BY <1>3, <2>3 DEF IsLoop
  <1>5. f = Body(f)
    BY <1>1, <1>3, <1>4 DEF IsLoop
  <1>6. path = Body(path)
    BY <1>5
  <1> HIDE DEF path
  <1>7. path[0] = <<>> /\ \A n \in 1 .. m : path[n] = Round(n, path[n - 1])
    BY <1>1, <1>6
  <1> QED
    BY <1>0, <1>7 DEF m, Round

\* what InTurn has after each round
LEMMA InTurnRounds ==
  ASSUME NEW kind, NEW S, NEW o, Len(o) \in Nat,
         \A n \in 1 .. Len(o) : Results(kind, o[n]) \in Seq(S)
  PROVE  \E f : /\ f[0] = <<>> /\ InTurn(kind, o) = f[Len(o)]
                /\ \A n \in 1 .. Len(o) : f[n] = f[n - 1] \o Results(kind, o[n])
  <1> DEFINE m == Len(o)
             T == Seq(S)
             Round(n, s) == s \o Results(kind, o[n])
             step == [n \in 1 .. m |-> [s \in T |-> Round(n, s)]]
             Body(f) == [n \in 0 .. m |-> IF n = 0 THEN <<>> ELSE Round(n, f[n - 1])]
             out == CHOOSE f : f = Body(f)
  <1>0. InTurn(kind, o) = out[m]
    BY DEF InTurn
  <1>1. m \in Nat /\ <<>> \in T /\ \A n \in 1 .. m, s \in T : Round(n, s) \in T
    OBVIOUS
  <1> HIDE DEF m, T, Round
  <1>2. Closed(T, m, step)
    BY <1>1 DEF Closed
  <1>3. PICK f : IsLoop(f, T, <<>>, m, step)
    <2> HIDE DEF step
    <2> QED
      BY <1>1, <1>2, LoopExists
  <1>4. \A n \in 1 .. m : f[n] = Round(n, f[n - 1])
    <2> SUFFICES ASSUME NEW n \in 1 .. m PROVE f[n] = Round(n, f[n - 1])
      OBVIOUS
    <2>1. n - 1 \in 0 .. m
      BY <1>1
    <2>2. f[n - 1] \in T
      BY <1>3, <2>1 DEF IsLoop
    <2>3. step[n][f[n - 1]] = Round(n, f[n - 1])
      BY <2>2
    <2> QED
      BY <1>3, <2>3 DEF IsLoop
  <1>5. f = Body(f)
    BY <1>1, <1>3, <1>4 DEF IsLoop
  <1>6. out = Body(out)
    BY <1>5
  <1> HIDE DEF out
  <1>7. out[0] = <<>> /\ \A n \in 1 .. m : out[n] = Round(n, out[n - 1])
    BY <1>1, <1>6
  <1> QED
    BY <1>0, <1>7 DEF m, Round

\* what SetToSeq and SetToSeqs make of a finite set: a sequence that has each
\* of its elements once
LEMMA Enumerates ==
  ASSUME NEW S, IsFiniteSet(S)
  PROVE  /\ SetToSeq(S) \in SetToSeqs(S)
         /\ \A o \in SetToSeqs(S) : /\ o \in Seq(S) /\ Len(o) = Cardinality(S)
                                    /\ \A i, j \in 1 .. Len(o) : i # j => o[i] # o[j]
                                    /\ ToSet(o) = S
  <1> DEFINE n == Cardinality(S)
  <1>1. n \in Nat /\ ExistsBijection(1 .. n, S)
    BY FS_CardinalityType
  <1>2. \A o \in SetToSeqs(S) : o \in [1 .. n -> S] /\ \A i, j \in 1 .. n : i # j => o[i] # o[j]
    BY DEF SetToSeqs
  <1>3. SetToSeq(S) \in SetToSeqs(S)
    <2>1. PICK f \in [1 .. n -> S] : IsInjective(f)
      BY <1>1 DEF ExistsBijection, Bijection, Injection
    <2>2. SetToSeq(S) \in [1 .. n -> S] /\ IsInjective(SetToSeq(S))
      BY <2>1 DEF SetToSeq
    <2> QED
      BY <2>2 DEF SetToSeqs, IsInjective
  <1>4. ASSUME NEW o \in SetToSeqs(S) PROVE ToSet(o) = S
    <2>1. o \in Injection(1 .. n, S)
      BY <1>2 DEF Injection, IsInjective
    <2>2. IsFiniteSet(1 .. n) /\ Cardinality(1 .. n) = n
      BY <1>1, FS_Interval
    <2>3. o \in Surjection(1 .. n, S)
      BY <2>1, <2>2, FS_Injection
    <2> QED
      BY <1>2, <2>3 DEF Surjection, ToSet
  <1> HIDE DEF n
  <1>5. \A o \in SetToSeqs(S) : o \in Seq(S) /\ Len(o) = n
    BY <1>1, <1>2
  <1> QED
    BY <1>2, <1>3, <1>4, <1>5 DEF n

-----------------------------------------------------------------------------
(* The per-directory view.                                                 *)

\* each plot once, none behind one of lower priority
Sorted(p) ==
    \A i, j \in 1 .. Len(p) : i < j => p[i] # p[j] /\ Rank[p[i]] >= Rank[p[j]]

\* InsertAt, element by element
LEMMA Inserted ==
  ASSUME NEW p \in Seq(Plots), NEW at \in 1 .. Len(p) + 1, NEW s \in Plots
  PROVE  /\ InsertAt(p, at, s) \in Seq(Plots) /\ Len(InsertAt(p, at, s)) = Len(p) + 1
         /\ \A i \in 1 .. Len(p) + 1 :
              InsertAt(p, at, s)[i] = IF i < at THEN p[i] ELSE IF i = at THEN s ELSE p[i - 1]
  <1> DEFINE l == SubSeq(p, 1, at - 1)
             r == SubSeq(p, at, Len(p))
             n == Len(p)
  <1>1. n \in Nat /\ at \in Nat /\ at >= 1 /\ at <= n + 1
    OBVIOUS
  <1>2. /\ l \in Seq(Plots) /\ Len(l) = at - 1
        /\ \A i \in 1 .. at - 1 : l[i] = p[i]
    OBVIOUS
  <1>3. /\ r \in Seq(Plots) /\ Len(r) = (n + 1) - at
        /\ \A i \in 1 .. (n + 1) - at : r[i] = p[(at + i) - 1]
    OBVIOUS
  <1>4. InsertAt(p, at, s) = (l \o <<s>>) \o r
    BY DEF InsertAt
  <1> HIDE DEF l, r
  <1>5. /\ l \o <<s>> \in Seq(Plots) /\ Len(l \o <<s>>) = at
        /\ \A i \in 1 .. at : (l \o <<s>>)[i] = IF i < at THEN p[i] ELSE s
    BY <1>1, <1>2
  <1> DEFINE h == l \o <<s>>
  <1> HIDE DEF h
  <1>6. /\ h \in Seq(Plots) /\ Len(h) = at
        /\ \A i \in 1 .. at : h[i] = IF i < at THEN p[i] ELSE s
    BY <1>5 DEF h
  <1>7. /\ h \o r \in Seq(Plots) /\ Len(h \o r) = n + 1
        /\ \A i \in 1 .. n + 1 : (h \o r)[i] = IF i <= at THEN h[i] ELSE r[i - at]
    BY <1>1, <1>3, <1>6
  <1>8. \A i \in 1 .. n + 1 : i > at => r[i - at] = p[i - 1]
    <2> SUFFICES ASSUME NEW i \in 1 .. n + 1, i > at PROVE r[i - at] = p[i - 1]
      OBVIOUS
    <2>1. i - at \in 1 .. (n + 1) - at /\ (at + (i - at)) - 1 = i - 1
      BY <1>1
    <2> QED
      BY <1>3, <2>1
  <1>9. \A i \in 1 .. n + 1 :
           (h \o r)[i] = IF i < at THEN p[i] ELSE IF i = at THEN s ELSE p[i - 1]
    BY <1>1, <1>6, <1>7, <1>8
  <1> QED
    BY <1>4, <1>7, <1>9 DEF h

\* WorkSpacePath.Add keeps the path sorted
LEMMA AddPathSorts ==
  ASSUME NEW p \in Seq(Plots), NEW s \in Plots
  PROVE  /\ AddPath(p, s) \in Seq(Plots)
         /\ ToSet(AddPath(p, s)) = ToSet(p) \cup {s}
         /\ Sorted(p) /\ s \notin ToSet(p) => Sorted(AddPath(p, s))
  <1> DEFINE n == Len(p)
             lower == {i \in DOMAIN p : Rank[s] > Rank[p[i]]}
             at == IF lower = {} THEN Len(p) + 1
                   ELSE CHOOSE i \in lower : \A j \in lower : i <= j
             q == AddPath(p, s)
  <1>0. q = InsertAt(p, at, s)
    BY DEF AddPath
  <1>1. n \in Nat /\ DOMAIN p = 1 .. n /\ \A i \in 1 .. n : p[i] \in Plots
    OBVIOUS
  <1>2. /\ at \in 1 .. n + 1
        /\ \A i \in lower : at <= i
        /\ lower # {} => at \in lower
    <2>1. CASE lower = {}
      BY <1>1, <2>1
    <2>2. CASE lower # {}
      <3>1. lower \in SUBSET Nat
        BY <1>1
      <3>2. \E i \in lower : \A j \in lower : i <= j
        <4> HIDE DEF lower
        <4> QED
          BY <2>2, <3>1, Least
      <3>3. at \in lower /\ \A j \in lower : at <= j
        BY <2>2, <3>2
      <3> QED
        BY <1>1, <2>2, <3>3
    <2> QED
      BY <2>1, <2>2
  <1>3. /\ q \in Seq(Plots) /\ Len(q) = n + 1
        /\ \A i \in 1 .. n + 1 : q[i] = IF i < at THEN p[i] ELSE IF i = at THEN s ELSE p[i - 1]
    <2>1. at \in 1 .. Len(p) + 1
      BY <1>2
    <2> HIDE DEF at, q
    <2>2. /\ InsertAt(p, at, s) \in Seq(Plots) /\ Len(InsertAt(p, at, s)) = Len(p) + 1
          /\ \A i \in 1 .. Len(p) + 1 :
               InsertAt(p, at, s)[i] = IF i < at THEN p[i] ELSE IF i = at THEN s ELSE p[i - 1]
      BY <2>1, Inserted
    <2> QED
      BY <1>0, <2>2
  <1>r. Rank \in [Plots -> Int]
    BY ChiaAssumption
  <1>4. \A i \in 1 .. n : (i < at => Rank[s] <= Rank[p[i]]) /\ (at \in lower => p[at] \in Plots)
    <2> SUFFICES ASSUME NEW i \in 1 .. n, i < at PROVE Rank[s] <= Rank[p[i]]
      BY <1>1
    <2>1. i \notin lower
      <3> HIDE DEF lower, at
      <3> QED
        BY <1>1, <1>2
    <2>2. ~(Rank[s] > Rank[p[i]])
      BY <1>1, <2>1
    <2> QED
      BY <1>1, <1>r, <2>2
  <1>5. at \in 1 .. n => Rank[s] > Rank[p[at]]
    <2> SUFFICES ASSUME at \in 1 .. n PROVE Rank[s] > Rank[p[at]]
      OBVIOUS
    <2>1. lower # {}
      <3> SUFFICES ASSUME lower = {} PROVE FALSE
        OBVIOUS
      <3>1. at = n + 1
        OBVIOUS
      <3> HIDE DEF at
      <3> QED
        BY <1>1, <3>1
    <2>2. at \in lower
      BY <1>2, <2>1
    <2> QED
      BY <2>2
  <1> HIDE DEF at, lower, q
  <1>6. ToSet(q) = ToSet(p) \cup {s}
    <2>1. ToSet(q) = {q[i] : i \in 1 .. n + 1} /\ ToSet(p) = {p[i] : i \in 1 .. n}
      BY <1>1, <1>3 DEF ToSet
    <2>2. \A i \in 1 .. n + 1 : q[i] = s \/ \E j \in 1 .. n : q[i] = p[j]
      <3> SUFFICES ASSUME NEW i \in 1 .. n + 1, i # at PROVE \E j \in 1 .. n : q[i] = p[j]
        BY <1>3
      <3>1. CASE i < at
        BY <1>1, <1>2, <1>3, <3>1
      <3>2. CASE i > at
        <4>1. i - 1 \in 1 .. n /\ q[i] = p[i - 1]
          BY <1>1, <1>2, <1>3, <3>2
        <4> QED
          BY <4>1
      <3> QED
        BY <1>1, <1>2, <3>1, <3>2
    <2>3. \A j \in 1 .. n : \E i \in 1 .. n + 1 : q[i] = p[j]
      <3> SUFFICES ASSUME NEW j \in 1 .. n PROVE \E i \in 1 .. n + 1 : q[i] = p[j]
        OBVIOUS
      <3>1. CASE j < at
        BY <1>1, <1>2, <1>3, <3>1
      <3>2. CASE j >= at
        <4>1. j + 1 \in 1 .. n + 1 /\ (j + 1) - 1 = j /\ ~(j + 1 < at) /\ j + 1 # at
          BY <1>1, <1>2, <3>2
        <4>2. q[j + 1] = p[j]
          BY <1>3, <4>1
        <4> QED
          BY <4>1, <4>2
      <3> QED
        BY <1>1, <1>2, <3>1, <3>2
    <2>4. q[at] = s
      BY <1>1, <1>2, <1>3
    <2> QED
      BY <1>2, <2>1, <2>2, <2>3, <2>4
  <1>7. ASSUME Sorted(p), s \notin ToSet(p) PROVE Sorted(q)
    <2>1. \A i \in 1 .. n : p[i] # s
      BY <1>1, <1>7 DEF ToSet
    <2>2. \A i, j \in 1 .. n : i < j => p[i] # p[j] /\ Rank[p[i]] >= Rank[p[j]]
      BY <1>7 DEF Sorted
    <2>3. \A i \in 1 .. n : Rank[p[i]] \in Int
      BY <1>1, <1>r
    <2>4. Rank[s] \in Int
      BY <1>r
    <2>5. \A i \in 1 .. n : i >= at => Rank[s] >= Rank[p[i]]
      <3> SUFFICES ASSUME NEW i \in 1 .. n, i >= at PROVE Rank[s] >= Rank[p[i]]
        OBVIOUS
      <3>1. at \in 1 .. n
        BY <1>1, <1>2
      <3>2. i = at \/ Rank[p[at]] >= Rank[p[i]]
        BY <2>2, <3>1
      <3> QED
        BY <1>5, <2>3, <2>4, <3>1, <3>2
    <2> SUFFICES ASSUME NEW i \in 1 .. n + 1, NEW j \in 1 .. n + 1, i < j
                 PROVE  q[i] # q[j] /\ Rank[q[i]] >= Rank[q[j]]
      BY <1>3 DEF Sorted
    <2>6. CASE j < at
      <3>1. i \in 1 .. n /\ j \in 1 .. n /\ q[i] = p[i] /\ q[j] = p[j]
        BY <1>1, <1>2, <1>3, <2>6
      <3> QED
        BY <2>2, <3>1
    <2>7. CASE j = at
      <3>1. i \in 1 .. n /\ i < at /\ q[i] = p[i] /\ q[j] = s
        BY <1>1, <1>2, <1>3, <2>7
      <3> QED
        BY <1>4, <2>1, <2>3, <2>4, <3>1
    <2>8. CASE j > at /\ i = at
      <3>1. j - 1 \in 1 .. n /\ j - 1 >= at /\ q[i] = s /\ q[j] = p[j - 1]
        BY <1>1, <1>2, <1>3, <2>8
      <3> QED
        BY <2>1, <2>5, <3>1
    <2>9. CASE j > at /\ i < at
      <3>1. j - 1 \in 1 .. n /\ i \in 1 .. n /\ i < j - 1 /\ q[i] = p[i] /\ q[j] = p[j - 1]
        BY <1>1, <1>2, <1>3, <2>9
      <3> QED
        BY <2>2, <3>1
    <2>10. CASE j > at /\ i > at
      <3>1. j - 1 \in 1 .. n /\ i - 1 \in 1 .. n /\ i - 1 < j - 1
            /\ q[i] = p[i - 1] /\ q[j] = p[j - 1]
        BY <1>1, <1>2, <1>3, <2>10
      <3> QED
        BY <2>2, <3>1
    <2> QED
      BY <1>2, <2>6, <2>7, <2>8, <2>9, <2>10
  <1> QED
    BY <1>3, <1>6, <1>7 DEF q

\* a directory's path holds what is new in it, sorted
LEMMA PathIsSorted ==
  ASSUME NEW d \in DOMAIN Dirs
  PROVE  PathOf(d) \in Seq(Plots) /\ ToSet(PathOf(d)) = NewIn(d) /\ Sorted(PathOf(d))
  <1> DEFINE files == SetToSeq(NewIn(d))
             m == Len(files)
  <1>1. NewIn(d) \in SUBSET Plots /\ IsFiniteSet(NewIn(d))
    <2>1. NewIn(d) \in SUBSET Plots
      BY ChiaAssumption DEF NewIn
    <2> QED
      BY <2>1, ChiaAssumption, FS_Subset
  <1>2. /\ files \in Seq(NewIn(d)) /\ ToSet(files) = NewIn(d)
        /\ \A i, j \in 1 .. Len(files) : i # j => files[i] # files[j]
    BY <1>1, Enumerates
  <1>3. files \in Seq(Plots) /\ m \in Nat /\ \A n \in 1 .. m : files[n] \in Plots
    BY <1>1, <1>2
  <1>4. PICK f : /\ f[0] = <<>> /\ PathOf(d) = f[Len(files)]
                 /\ \A n \in 1 .. Len(files) : f[n] = AddPath(f[n - 1], files[n])
    <2>1. \A s \in Plots, p \in Seq(Plots) : AddPath(p, s) \in Seq(Plots)
      BY AddPathSorts
    <2> QED
      BY <1>3, <2>1, PathOfRounds
  <1> HIDE DEF files
  <1> DEFINE Good(n) == /\ f[n] \in Seq(Plots) /\ Sorted(f[n])
                        /\ ToSet(f[n]) = {files[i] : i \in 1 .. n}
             T == {n \in 0 .. m : ~Good(n)}
  <1>5. T = {}
    <2> SUFFICES ASSUME T # {} PROVE FALSE
      OBVIOUS
    <2>1. PICK n \in T : \A k \in T : n <= k
      <3>1. T \in SUBSET Nat
        OBVIOUS
      <3> HIDE DEF T
      <3> QED
        BY <3>1, Least
    <2>2. n \in 0 .. m /\ ~Good(n)
      BY <2>1
    <2>3. CASE n = 0
      <3>1. f[0] \in Seq(Plots) /\ Len(f[0]) = 0 /\ ToSet(f[0]) = {}
        BY <1>4 DEF ToSet
      <3>2. Sorted(f[0])
        BY <3>1 DEF Sorted
      <3>3. {files[i] : i \in 1 .. 0} = {}
        OBVIOUS
      <3> QED
        BY <2>2, <2>3, <3>1, <3>2, <3>3
    <2>4. CASE n # 0
      <3>1. n - 1 \in 0 .. m /\ n \in 1 .. m /\ n - 1 < n /\ n \in Nat
        BY <1>3, <2>2, <2>4
      <3>2. n - 1 \notin T
        <4> HIDE DEF T
        <4> QED
          BY <2>1, <3>1
      <3>3. Good(n - 1)
        BY <3>1, <3>2
      <3>4. f[n] = AddPath(f[n - 1], files[n]) /\ files[n] \in Plots
        BY <1>3, <1>4, <3>1
      <3>5. files[n] \notin ToSet(f[n - 1])
        <4> SUFFICES ASSUME NEW i \in 1 .. n - 1, files[n] = files[i] PROVE FALSE
          BY <3>3
        <4>1. i \in 1 .. m /\ i # n
          BY <1>3, <3>1
        <4> QED
          BY <1>2, <3>1, <4>1
      <3>6. f[n] \in Seq(Plots) /\ Sorted(f[n]) /\ ToSet(f[n]) = ToSet(f[n - 1]) \cup {files[n]}
        <4> DEFINE g == f[n - 1]
                   x == files[n]
        <4>1. g \in Seq(Plots) /\ Sorted(g) /\ x \in Plots /\ x \notin ToSet(g)
          BY <3>3, <3>4, <3>5
        <4> HIDE DEF g, x
        <4>2. /\ AddPath(g, x) \in Seq(Plots) /\ ToSet(AddPath(g, x)) = ToSet(g) \cup {x}
              /\ Sorted(AddPath(g, x))
          BY <4>1, AddPathSorts
        <4> QED
          BY <3>4, <4>2 DEF g, x
      <3>7. {files[i] : i \in 1 .. n} = {files[i] : i \in 1 .. n - 1} \cup {files[n]}
        <4>1. 1 .. n = (1 .. n - 1) \cup {n}
          BY <3>1
        <4> QED
          BY <4>1
      <3>8. Good(n)
        BY <3>3, <3>6, <3>7
      <3> QED
        BY <2>2, <3>8
    <2> QED
      BY <2>3, <2>4
  <1>6. Good(m)
    <2>1. m \in 0 .. m
      BY <1>3
    <2>2. m \notin T
      BY <1>5
    <2> QED
      BY <2>1, <2>2
  <1>7. ToSet(files) = {files[i] : i \in 1 .. m}
    BY <1>3 DEF ToSet
  <1> QED
    BY <1>2, <1>4, <1>6, <1>7

\* what InUse keeps of a sorted path: the used plots of it, sorted
LEMMA InUseSorted ==
  ASSUME NEW p \in Seq(Plots), Sorted(p), NEW used
  PROVE  /\ InUse(p, used) \in Seq(Plots) /\ Sorted(InUse(p, used))
         /\ ToSet(InUse(p, used)) = ToSet(p) \cap used
  <1> DEFINE m == Len(p)
  <1>1. m \in Nat /\ DOMAIN p = 1 .. m /\ \A n \in 1 .. m : p[n] \in Plots
    OBVIOUS
  <1>2. PICK f : /\ f[0] = <<>> /\ InUse(p, used) = f[Len(p)]
                 /\ \A n \in 1 .. Len(p) :
                      f[n] = IF p[n] \in used THEN Append(f[n - 1], p[n]) ELSE f[n - 1]
    BY InUseRounds
  <1> DEFINE Good(n) == /\ f[n] \in Seq(Plots) /\ Sorted(f[n])
                        /\ ToSet(f[n]) = {p[i] : i \in 1 .. n} \cap used
             T == {n \in 0 .. m : ~Good(n)}
  <1>3. T = {}
    <2> SUFFICES ASSUME T # {} PROVE FALSE
      OBVIOUS
    <2>1. PICK n \in T : \A k \in T : n <= k
      <3>1. T \in SUBSET Nat
        OBVIOUS
      <3> HIDE DEF T
      <3> QED
        BY <3>1, Least
    <2>2. n \in 0 .. m /\ ~Good(n)
      BY <2>1
    <2>3. CASE n = 0
      <3>1. f[0] \in Seq(Plots) /\ Len(f[0]) = 0 /\ ToSet(f[0]) = {}
        BY <1>2 DEF ToSet
      <3>2. Sorted(f[0])
        BY <3>1 DEF Sorted
      <3>3. {p[i] : i \in 1 .. 0} = {}
        OBVIOUS
      <3> QED
        BY <2>2, <2>3, <3>1, <3>2, <3>3
    <2>4. CASE n # 0
      <3>1. n - 1 \in 0 .. m /\ n \in 1 .. m /\ n - 1 < n /\ n \in Nat
        BY <1>1, <2>2, <2>4
      <3>2. n - 1 \notin T
        <4> HIDE DEF T
        <4> QED
          BY <2>1, <3>1
      <3>3. Good(n - 1)
        BY <3>1, <3>2
      <3>4. {p[i] : i \in 1 .. n} = {p[i] : i \in 1 .. n - 1} \cup {p[n]}
        <4>1. 1 .. n = (1 .. n - 1) \cup {n}
          BY <3>1
        <4> QED
          BY <4>1
      <3>5. CASE p[n] \notin used
        <4>1. f[n] = f[n - 1]
          BY <1>2, <3>1, <3>5
        <4>2. Good(n)
          BY <3>3, <3>4, <3>5, <4>1
        <4> QED
          BY <2>2, <4>2
      <3>6. CASE p[n] \in used
        <4> DEFINE g == f[n - 1]
                   k == Len(g)
                   h == Append(g, p[n])
        <4>1. f[n] = h
          BY <1>2, <3>1, <3>6
        <4>2. g \in Seq(Plots) /\ k \in Nat /\ p[n] \in Plots
          BY <1>1, <3>1, <3>3
        <4>3. /\ h \in Seq(Plots) /\ Len(h) = k + 1 /\ h[k + 1] = p[n]
              /\ \A i \in 1 .. k : h[i] = g[i]
          BY <4>2
        <4>4. ToSet(g) = {g[i] : i \in 1 .. k} /\ ToSet(h) = {h[i] : i \in 1 .. k + 1}
          BY <4>2, <4>3 DEF ToSet
        <4>5. Sorted(g) /\ ToSet(g) = {p[i] : i \in 1 .. n - 1} \cap used
          BY <3>3
        <4>6. \A i \in 1 .. k : g[i] # p[n] /\ Rank[g[i]] >= Rank[p[n]]
          <5> SUFFICES ASSUME NEW i \in 1 .. k PROVE g[i] # p[n] /\ Rank[g[i]] >= Rank[p[n]]
            OBVIOUS
          <5>1. g[i] \in ToSet(g)
            BY <4>4
          <5>2. PICK j \in 1 .. n - 1 : g[i] = p[j]
            BY <4>5, <5>1
          <5>3. j \in 1 .. m /\ j < n
            BY <1>1, <3>1
          <5> QED
            BY <3>1, <5>2, <5>3 DEF Sorted
        <4> HIDE DEF g, h, k
        <4>7. ToSet(h) = ToSet(g) \cup {p[n]}
          <5>1. 1 .. k + 1 = (1 .. k) \cup {k + 1}
            BY <4>2
          <5> QED
            BY <4>3, <4>4, <5>1
        <4>8. Sorted(h)
          <5> SUFFICES ASSUME NEW i \in 1 .. k + 1, NEW j \in 1 .. k + 1, i < j
                       PROVE  h[i] # h[j] /\ Rank[h[i]] >= Rank[h[j]]
            BY <4>3 DEF Sorted
          <5>1. i \in 1 .. k /\ h[i] = g[i]
            BY <4>2, <4>3
          <5>2. CASE j = k + 1
            BY <4>3, <4>6, <5>1, <5>2
          <5>3. CASE j # k + 1
            <6>1. j \in 1 .. k /\ h[j] = g[j]
              BY <4>2, <4>3, <5>3
            <6> QED
              BY <4>5, <5>1, <6>1 DEF Sorted, k
          <5> QED
            BY <5>2, <5>3
        <4>9. Good(n)
          BY <3>4, <3>6, <4>1, <4>3, <4>5, <4>7, <4>8
        <4> QED
          BY <2>2, <4>9
      <3> QED
        BY <3>5, <3>6
    <2> QED
      BY <2>3, <2>4
  <1>4. Good(m)
    <2>1. m \in 0 .. m /\ m \notin T
      BY <1>1, <1>3
    <2> QED
      BY <2>1
  <1>5. ToSet(p) = {p[i] : i \in 1 .. m}
    BY <1>1 DEF ToSet
  <1> QED
    BY <1>2, <1>4, <1>5

\* every plot that was found is new in one directory
LEMMA NewInPartition ==
  /\ UNION {NewIn(d) : d \in DOMAIN Dirs} = UNION {Dirs[d] : d \in DOMAIN Dirs}
  /\ \A d, e \in DOMAIN Dirs : d # e => NewIn(d) \cap NewIn(e) = {}
  <1>1. Dirs \in Seq(SUBSET Plots) /\ DOMAIN Dirs = 1 .. Len(Dirs) /\ Len(Dirs) \in Nat
    BY ChiaAssumption
  <1>2. ASSUME NEW d \in DOMAIN Dirs, NEW s \in Dirs[d]
        PROVE  \E e \in DOMAIN Dirs : s \in NewIn(e)
    <2> DEFINE T == {e \in DOMAIN Dirs : s \in Dirs[e]}
    <2>1. T \in SUBSET Nat /\ T # {}
      BY <1>1, <1>2
    <2>2. PICK e \in T : \A k \in T : e <= k
      <3> HIDE DEF T
      <3> QED
        BY <2>1, Least
    <2>3. \A k \in 1 .. e - 1 : s \notin Dirs[k]
      <3> SUFFICES ASSUME NEW k \in 1 .. e - 1, s \in Dirs[k] PROVE FALSE
        OBVIOUS
      <3>1. k \in DOMAIN Dirs /\ k < e /\ k \in Nat /\ e \in Nat
        BY <1>1, <2>2
      <3>2. k \in T
        BY <3>1
      <3> HIDE DEF T
      <3> QED
        BY <2>2, <3>1, <3>2
    <2>4. s \in NewIn(e) /\ e \in DOMAIN Dirs
      BY <2>2, <2>3 DEF NewIn
    <2> QED
      BY <2>4
  <1>3. \A d \in DOMAIN Dirs : NewIn(d) \subseteq Dirs[d]
    BY DEF NewIn
  <1>4. ASSUME NEW d \in DOMAIN Dirs, NEW e \in DOMAIN Dirs, d < e
        PROVE  NewIn(d) \cap NewIn(e) = {}
    <2>1. d \in 1 .. e - 1
      BY <1>1, <1>4
    <2> QED
      BY <2>1 DEF NewIn
  <1>5. \A d, e \in DOMAIN Dirs : d # e => d < e \/ e < d
    BY <1>1
  <1> QED
    BY <1>2, <1>3, <1>4, <1>5

-----------------------------------------------------------------------------
(* What the queries hand over.                                             *)

\* a plot and one of its results
Items == Plots \X Nat

\* The results of a plot are told apart, and are the plot's.
LEMMA ResultsOf ==
  ASSUME NEW kind, NEW s \in Plots
  PROVE  /\ Results(kind, s) \in Seq(Items) /\ IsInjective(Results(kind, s))
         /\ \A x \in ToSet(Results(kind, s)) : x[1] = s
  <1> DEFINE n == IF kind = "proof" THEN 1 ELSE Found[s]
             r == Results(kind, s)
  <1>1. n \in Nat
    BY ChiaAssumption
  <1>2. r = [i \in 1 .. n |-> <<s, i>>]
    BY DEF Results
  <1> HIDE DEF n, r
  <1>3. DOMAIN r = 1 .. n /\ \A i \in 1 .. n : r[i] = <<s, i>> /\ i \in Nat
    BY <1>1, <1>2
  <1>4. \A i \in 1 .. n : r[i] \in Items
    BY <1>3 DEF Items
  <1>5. r \in Seq(Items)
    BY <1>1, <1>2, <1>4
  <1>6. IsInjective(r)
    BY <1>3 DEF IsInjective
  <1>7. \A x \in ToSet(r) : x[1] = s
    BY <1>3 DEF ToSet
  <1> QED
    BY <1>5, <1>6, <1>7 DEF r

\* two sequences without repetition that share nothing, one after the other
LEMMA Concatenated ==
  ASSUME NEW S, NEW a \in Seq(S), NEW b \in Seq(S), IsInjective(a), IsInjective(b),
         ToSet(a) \cap ToSet(b) = {}
  PROVE  a \o b \in Seq(S) /\ IsInjective(a \o b) /\ ToSet(a \o b) = ToSet(a) \cup ToSet(b)
  <1> DEFINE m == Len(a)
             n == Len(b)
             c == a \o b
  <1>1. m \in Nat /\ n \in Nat /\ DOMAIN a = 1 .. m /\ DOMAIN b = 1 .. n
    OBVIOUS
  <1>2. /\ c \in Seq(S) /\ DOMAIN c = 1 .. m + n
        /\ \A i \in 1 .. m + n : c[i] = IF i <= m THEN a[i] ELSE b[i - m]
    OBVIOUS
  <1> HIDE DEF c, m, n
  <1>3. \A i \in 1 .. m + n : \/ i \in 1 .. m /\ c[i] = a[i]
                              \/ i - m \in 1 .. n /\ c[i] = b[i - m]
    BY <1>1, <1>2
  <1>4. \A i \in 1 .. m : i \in 1 .. m + n /\ c[i] = a[i]
    BY <1>1, <1>2
  <1>5. \A i \in 1 .. n : m + i \in 1 .. m + n /\ c[m + i] = b[i]
    BY <1>1, <1>2
  <1>6. ToSet(c) = ToSet(a) \cup ToSet(b)
    <2>1. /\ ToSet(a) = {a[i] : i \in 1 .. m} /\ ToSet(b) = {b[i] : i \in 1 .. n}
          /\ ToSet(c) = {c[i] : i \in 1 .. m + n}
      BY <1>1, <1>2 DEF ToSet
    <2>2. ASSUME NEW x \in ToSet(c) PROVE x \in ToSet(a) \cup ToSet(b)
      <3>1. PICK i \in 1 .. m + n : x = c[i]
        BY <2>1, <2>2
      <3> QED
        BY <1>3, <2>1, <3>1
    <2>3. ASSUME NEW x \in ToSet(a) PROVE x \in ToSet(c)
      BY <1>4, <2>1, <2>3
    <2>4. ASSUME NEW x \in ToSet(b) PROVE x \in ToSet(c)
      BY <1>5, <2>1, <2>4
    <2> QED
      BY <2>2, <2>3, <2>4
  <1>7. ASSUME NEW i \in 1 .. m + n, NEW j \in 1 .. m + n, c[i] = c[j] PROVE i = j
    <2>1. CASE i \in 1 .. m /\ j \in 1 .. m
      BY <1>1, <1>4, <1>7, <2>1 DEF IsInjective
    <2>2. CASE i - m \in 1 .. n /\ j - m \in 1 .. n /\ c[i] = b[i - m] /\ c[j] = b[j - m]
      <3>1. i - m = j - m
        BY <1>1, <1>7, <2>2 DEF IsInjective
      <3> QED
        BY <1>1, <3>1
    <2>3. ~(i \in 1 .. m /\ c[i] = a[i] /\ j - m \in 1 .. n /\ c[j] = b[j - m])
      BY <1>1, <1>7 DEF ToSet
    <2>4. ~(j \in 1 .. m /\ c[j] = a[j] /\ i - m \in 1 .. n /\ c[i] = b[i - m])
      BY <1>1, <1>7 DEF ToSet
    <2> QED
      BY <1>3, <2>1, <2>2, <2>3, <2>4
  <1>8. IsInjective(c)
    BY <1>2, <1>7 DEF IsInjective
  <1> QED
    BY <1>2, <1>6, <1>8 DEF c

\* however the result map is iterated, each result of each plot is given once
LEMMA InTurnGives ==
  ASSUME NEW kind, NEW plots \in SUBSET Plots, NEW out \in Orders(kind, plots)
  PROVE  /\ out \in Seq(Items) /\ IsInjective(out)
         /\ ToSet(out) = UNION {ToSet(Results(kind, s)) : s \in plots}
  <1>0. IsFiniteSet(plots)
    BY ChiaAssumption, FS_Subset
  <1>1. PICK o \in SetToSeqs(plots) : out = InTurn(kind, o)
    BY DEF Orders
  <1>2. /\ o \in Seq(plots) /\ ToSet(o) = plots
        /\ \A i, j \in 1 .. Len(o) : i # j => o[i] # o[j]
    BY <1>0, Enumerates
  <1> DEFINE m == Len(o)
             Of(i) == Results(kind, o[i])
  <1>3. m \in Nat /\ \A i \in 1 .. m : o[i] \in Plots
    BY <1>2
  <1>4. \A i \in 1 .. m : /\ Of(i) \in Seq(Items) /\ IsInjective(Of(i))
                          /\ \A x \in ToSet(Of(i)) : x[1] = o[i]
    BY <1>3, ResultsOf
  <1>5. PICK f : /\ f[0] = <<>> /\ InTurn(kind, o) = f[Len(o)]
                 /\ \A n \in 1 .. Len(o) : f[n] = f[n - 1] \o Results(kind, o[n])
    <2>1. Len(o) \in Nat /\ \A n \in 1 .. Len(o) : Results(kind, o[n]) \in Seq(Items)
      BY <1>3, <1>4
    <2> HIDE DEF Of
    <2> QED
      BY <2>1, InTurnRounds
  <1> HIDE DEF Of
  <1>6. \A n \in 1 .. m : f[n] = f[n - 1] \o Of(n)
    BY <1>5 DEF Of
  <1> DEFINE Good(n) == /\ f[n] \in Seq(Items) /\ IsInjective(f[n])
                        /\ ToSet(f[n]) = UNION {ToSet(Of(i)) : i \in 1 .. n}
             T == {n \in 0 .. m : ~Good(n)}
  <1>7. T = {}
    <2> SUFFICES ASSUME T # {} PROVE FALSE
      OBVIOUS
    <2>1. PICK n \in T : \A k \in T : n <= k
      <3>1. T \in SUBSET Nat
        OBVIOUS
      <3> HIDE DEF T
      <3> QED
        BY <3>1, Least
    <2>2. n \in 0 .. m /\ ~Good(n)
      BY <2>1
    <2>3. CASE n = 0
      <3>1. f[0] \in Seq(Items) /\ DOMAIN f[0] = {} /\ ToSet(f[0]) = {}
        BY <1>5 DEF ToSet
      <3>2. IsInjective(f[0])
        BY <3>1 DEF IsInjective
      <3>3. UNION {ToSet(Of(i)) : i \in 1 .. 0} = {}
        OBVIOUS
      <3> QED
        BY <2>2, <2>3, <3>1, <3>2, <3>3
    <2>4. CASE n # 0
      <3>1. n - 1 \in 0 .. m /\ n \in 1 .. m /\ n - 1 < n /\ n \in Nat
        BY <1>3, <2>2, <2>4
      <3>2. n - 1 \notin T
        <4> HIDE DEF T
        <4> QED
          BY <2>1, <3>1
      <3>3. Good(n - 1)
        BY <3>1, <3>2
      <3> DEFINE g == f[n - 1]
                 h == Of(n)
      <3>4. g \in Seq(Items) /\ IsInjective(g) /\ h \in Seq(Items) /\ IsInjective(h)
        BY <1>4, <3>1, <3>3
      <3>5. ToSet(g) \cap ToSet(h) = {}
        <4> SUFFICES ASSUME NEW x \in ToSet(g), x \in ToSet(h) PROVE FALSE
          OBVIOUS
        <4>1. PICK i \in 1 .. n - 1 : x \in ToSet(Of(i))
          BY <3>3
        <4>2. i \in 1 .. m /\ i # n
          BY <1>3, <3>1
        <4>3. x[1] = o[i] /\ x[1] = o[n]
          BY <1>4, <3>1, <4>1, <4>2
        <4> QED
          BY <1>2, <3>1, <4>2, <4>3
      <3>6. ToSet(g) = UNION {ToSet(Of(i)) : i \in 1 .. n - 1}
        BY <3>3
      <3>7. f[n] = g \o h
        BY <1>6, <3>1
      <3> HIDE DEF g, h
      <3>8. g \o h \in Seq(Items) /\ IsInjective(g \o h) /\ ToSet(g \o h) = ToSet(g) \cup ToSet(h)
        BY <3>4, <3>5, Concatenated
      <3>9. UNION {ToSet(Of(i)) : i \in 1 .. n} = ToSet(g) \cup ToSet(h)
        <4>1. 1 .. n = (1 .. n - 1) \cup {n}
          BY <3>1
        <4> QED
          BY <3>6, <4>1 DEF h
      <3>10. Good(n)
        BY <3>7, <3>8, <3>9
      <3> QED
        BY <2>2, <3>10
    <2> QED
      BY <2>3, <2>4
  <1>8. Good(m)
    <2>1. m \in 0 .. m
      BY <1>3
    <2>2. m \notin T
      BY <1>7
    <2> QED
      BY <2>1, <2>2
  <1>9. UNION {ToSet(Of(i)) : i \in 1 .. m} = UNION {ToSet(Results(kind, s)) : s \in plots}
    <2>1. plots = {o[i] : i \in 1 .. m}
      BY <1>2, <1>3 DEF ToSet
    <2> QED
      BY <2>1 DEF Of
  <1> QED
    BY <1>1, <1>5, <1>8, <1>9

-----------------------------------------------------------------------------
(* The inductive invariant.                                                *)

\* ws.state, the maps by state and the map of all are three books of one fact
StateMaps ==
    \A s \in Plots, st \in States : s \in index[st] <=> (s \in all /\ state[s] = st)

\* the files found at the start are the only ones there ever are
KeeperInv ==
    /\ TypeOK
    /\ StateMaps
    /\ all \subseteq UNION {Dirs[d] : d \in DOMAIN Dirs}
    /\ list = using /\ using \subseteq all
    /\ paths = [d \in DOMAIN Dirs |-> PathOf(d)]

QueryRecords ==
    [kind : {"none", "quality", "proof"}, stream : BOOLEAN,
     pc : {"idle", "single", "submit", "write", "done"},
     items : SUBSET Plots, todo : SUBSET Plots, run : SUBSET Plots,
     recv : SUBSET Plots, got : SUBSET Plots, bad : SUBSET Plots,
     left : Seq(Items), size : Nat, ch : Seq(Items), closed : BOOLEAN,
     holds : BOOLEAN, ctx : {"live", "done", "closed"}, taken : Seq(Items),
     reader : {"none", "reading", "waiting", "eof", "gone"}]

\* a plot that was asked for is in one place: to be read, being read, with the
\* gathering goroutine, stored or given up; the query returns with none under way
Gathering(r) ==
    /\ r.items = r.todo \cup r.run \cup r.recv \cup r.got \cup r.bad
    /\ r.todo \cap r.run = {} /\ r.todo \cap r.recv = {} /\ r.todo \cap r.got = {}
    /\ r.todo \cap r.bad = {} /\ r.run \cap r.recv = {} /\ r.run \cap r.got = {}
    /\ r.run \cap r.bad = {} /\ r.recv \cap r.got = {} /\ r.recv \cap r.bad = {}
    /\ r.got \cap r.bad = {}
    /\ r.pc \in {"write", "done"} => r.todo = {} /\ r.run = {} /\ r.recv = {}
    /\ r.pc = "single" => /\ r.run = {} /\ r.recv = {}
                          /\ r.todo # {} => r.got = {} /\ r.bad = {}

\* the results the caller is to be given
Due(r) == UNION {ToSet(Results(r.kind, s)) : s \in r.items \ r.bad}

\* what is taken, in the channel, and still to be written
Handled(r) == ToSet(r.taken) \cup ToSet(r.ch) \cup ToSet(r.left)

\* a result is in one place, once; none is lost unless the stream was cancelled
Passing(r) ==
    /\ IsInjective(r.taken) /\ IsInjective(r.ch) /\ IsInjective(r.left)
    /\ ToSet(r.taken) \cap ToSet(r.ch) = {} /\ ToSet(r.taken) \cap ToSet(r.left) = {}
    /\ ToSet(r.ch) \cap ToSet(r.left) = {}
    /\ r.pc \in {"idle", "single", "submit"} => r.taken = <<>> /\ r.ch = <<>> /\ r.left = <<>>
    /\ r.pc \in {"write", "done"} => /\ Handled(r) \subseteq Due(r)
                                     /\ r.ctx # "closed" => Handled(r) = Due(r)

\* who may still write: nobody once the writer is done, or once the stream is
\* closed, which waits for a write under way
Closing(r) ==
    /\ r.closed => r.pc = "done" \/ r.ctx = "closed"
    /\ r.pc = "done" => r.left = <<>>
    /\ r.holds => r.pc = "write" /\ r.left # <<>> /\ ~r.closed
    /\ r.reader = "eof" => r.ch = <<>> /\ (r.closed \/ r.pc = "done")

QueryInv(r) == r \in QueryRecords /\ Gathering(r) /\ Passing(r) /\ Closing(r)

Asks == [Queries -> QueryRecords]

ChiaInv == KeeperInv /\ query \in Asks /\ \A q \in Queries : QueryInv(query[q])

-----------------------------------------------------------------------------
(* Queries: sequences without repetition.                                  *)

\* The first element is taken off a sequence without repetition.
LEMMA TakenOff ==
  ASSUME NEW S, NEW a \in Seq(S), a # <<>>, IsInjective(a)
  PROVE  /\ Tail(a) \in Seq(S) /\ IsInjective(Tail(a)) /\ Head(a) \in S
         /\ ToSet(a) = {Head(a)} \cup ToSet(Tail(a)) /\ Head(a) \notin ToSet(Tail(a))
  <1> DEFINE m == Len(a)
             t == Tail(a)
  <1>1. m \in Nat /\ m >= 1 /\ DOMAIN a = 1 .. m /\ Head(a) = a[1] /\ a[1] \in S
    OBVIOUS
  <1>2. t \in Seq(S) /\ DOMAIN t = 1 .. m - 1 /\ \A i \in 1 .. m - 1 : t[i] = a[i + 1]
    OBVIOUS
  <1> HIDE DEF m, t
  <1>3. \A i \in 1 .. m - 1 : i + 1 \in 1 .. m /\ i + 1 # 1
    BY <1>1
  <1>4. \A i, j \in 1 .. m : a[i] = a[j] => i = j
    BY <1>1 DEF IsInjective
  <1>5. \A i, j \in 1 .. m - 1 : t[i] = t[j] => i = j
    <2> SUFFICES ASSUME NEW i \in 1 .. m - 1, NEW j \in 1 .. m - 1, t[i] = t[j] PROVE i = j
      OBVIOUS
    <2>1. i + 1 = j + 1
      BY <1>2, <1>3, <1>4
    <2> QED
      BY <1>1, <2>1
  <1>6. IsInjective(t)
    BY <1>2, <1>5 DEF IsInjective
  <1>7. ToSet(a) = {a[i] : i \in 1 .. m} /\ ToSet(t) = {t[i] : i \in 1 .. m - 1}
    BY <1>1, <1>2 DEF ToSet
  <1>8. a[1] \notin ToSet(t)
    <2> SUFFICES ASSUME NEW i \in 1 .. m - 1, a[1] = t[i] PROVE FALSE
      BY <1>7
    <2>1. 1 \in 1 .. m /\ a[1] = a[i + 1]
      BY <1>1, <1>2
    <2> QED
      BY <1>3, <1>4, <2>1
  <1>9. ToSet(a) = {a[1]} \cup ToSet(t)
    <2>1. ASSUME NEW x \in ToSet(a) PROVE x = a[1] \/ x \in ToSet(t)
      <3>1. PICK i \in 1 .. m : x = a[i]
        BY <1>7, <2>1
      <3>2. CASE i = 1
        BY <3>1, <3>2
      <3>3. CASE i # 1
        <4>1. i - 1 \in 1 .. m - 1 /\ (i - 1) + 1 = i
          BY <1>1, <3>3
        <4>2. t[i - 1] = a[i]
          BY <1>2, <4>1
        <4> QED
          BY <1>7, <3>1, <4>1, <4>2
      <3> QED
        BY <3>2, <3>3
    <2>2. ASSUME NEW x \in ToSet(t) PROVE x \in ToSet(a)
      BY <1>2, <1>3, <1>7, <2>2
    <2>3. a[1] \in ToSet(a)
      BY <1>1, <1>7
    <2> QED
      BY <2>1, <2>2, <2>3
  <1> QED
    BY <1>1, <1>2, <1>6, <1>8, <1>9 DEF t

\* A new element is put on a sequence without repetition.
LEMMA PutOn ==
  ASSUME NEW S, NEW a \in Seq(S), IsInjective(a), NEW x \in S, x \notin ToSet(a)
  PROVE  /\ Append(a, x) \in Seq(S) /\ IsInjective(Append(a, x))
         /\ ToSet(Append(a, x)) = ToSet(a) \cup {x}
  <1> DEFINE b == <<x>>
  <1>1. b \in Seq(S) /\ DOMAIN b = 1 .. 1 /\ b[1] = x /\ Append(a, x) = a \o b
    OBVIOUS
  <1> HIDE DEF b
  <1>2. IsInjective(b)
    BY <1>1 DEF IsInjective
  <1>3. ToSet(b) = {x}
    BY <1>1 DEF ToSet
  <1>4. ToSet(a) \cap ToSet(b) = {}
    BY <1>3
  <1>5. a \o b \in Seq(S) /\ IsInjective(a \o b) /\ ToSet(a \o b) = ToSet(a) \cup ToSet(b)
    BY <1>1, <1>2, <1>4, Concatenated
  <1> QED
    BY <1>1, <1>3, <1>5

\* The empty sequence is the only one without elements.
LEMMA NothingIn ==
  /\ <<>> \in Seq(Items) /\ IsInjective(<<>>) /\ ToSet(<<>>) = {}
  /\ \A a \in Seq(Items) : ToSet(a) = {} => a = <<>>
  <1>1. <<>> \in Seq(Items) /\ DOMAIN <<>> = {}
    OBVIOUS
  <1>2. IsInjective(<<>>) /\ ToSet(<<>>) = {}
    BY <1>1 DEF IsInjective, ToSet
  <1>3. ASSUME NEW a \in Seq(Items), ToSet(a) = {} PROVE a = <<>>
    <2>1. DOMAIN a = 1 .. Len(a) /\ Len(a) \in Nat
      OBVIOUS
    <2>2. ~(1 \in DOMAIN a)
      BY <1>3 DEF ToSet
    <2> QED
      BY <2>1, <2>2
  <1> QED
    BY <1>1, <1>2, <1>3

-----------------------------------------------------------------------------
(* Queries: what each step does to a record.                               *)

\* a plot is handed to the pool
LEMMA SubmitKeeps ==
  ASSUME NEW r, QueryInv(r),
         r.pc = "submit", NEW s, s \in r.todo
  PROVE  QueryInv([r EXCEPT !.todo = @ \ {s}, !.run = @ \cup {s}])
  <1> DEFINE n == [r EXCEPT !.todo = @ \ {s}, !.run = @ \cup {s}]
  <1>0. r \in QueryRecords /\ Gathering(r) /\ Passing(r) /\ Closing(r)
    BY DEF QueryInv
  <1>1. /\ n.todo = r.todo \ {s} /\ n.run = r.run \cup {s}
        /\ n.kind = r.kind /\ n.stream = r.stream /\ n.pc = r.pc
        /\ n.items = r.items /\ n.recv = r.recv /\ n.got = r.got
        /\ n.bad = r.bad /\ n.left = r.left /\ n.size = r.size
        /\ n.ch = r.ch /\ n.closed = r.closed /\ n.holds = r.holds
        /\ n.ctx = r.ctx /\ n.taken = r.taken /\ n.reader = r.reader
    BY <1>0 DEF QueryRecords
  <1>2. n \in QueryRecords
    BY <1>0 DEF QueryRecords
  <1> HIDE DEF n
  <1>3. Gathering(n)
    BY <1>0, <1>1 DEF Gathering, QueryRecords
  <1>4. Passing(n)
    <2>1. Due(n) = Due(r) /\ Handled(n) = Handled(r)
      BY <1>1 DEF Due, Handled
    <2> QED
      BY <1>0, <1>1, <2>1 DEF Passing
  <1>5. Closing(n)
    BY <1>0, <1>1 DEF Closing, QueryRecords
  <1> QED
    BY <1>2, <1>3, <1>4, <1>5 DEF QueryInv, n

\* or the pool refuses it
LEMMA RefusedKeeps ==
  ASSUME NEW r, QueryInv(r),
         r.pc = "submit", NEW s, s \in r.todo
  PROVE  QueryInv([r EXCEPT !.todo = @ \ {s}, !.bad = @ \cup {s}])
  <1> DEFINE n == [r EXCEPT !.todo = @ \ {s}, !.bad = @ \cup {s}]
  <1>0. r \in QueryRecords /\ Gathering(r) /\ Passing(r) /\ Closing(r)
    BY DEF QueryInv
  <1>1. /\ n.todo = r.todo \ {s} /\ n.bad = r.bad \cup {s}
        /\ n.kind = r.kind /\ n.stream = r.stream /\ n.pc = r.pc
        /\ n.items = r.items /\ n.recv = r.recv /\ n.got = r.got
        /\ n.run = r.run /\ n.left = r.left /\ n.size = r.size
        /\ n.ch = r.ch /\ n.closed = r.closed /\ n.holds = r.holds
        /\ n.ctx = r.ctx /\ n.taken = r.taken /\ n.reader = r.reader
    BY <1>0 DEF QueryRecords
  <1>2. n \in QueryRecords
    BY <1>0 DEF QueryRecords
  <1> HIDE DEF n
  <1>3. Gathering(n)
    BY <1>0, <1>1 DEF Gathering, QueryRecords
  <1>4. Passing(n)
    BY <1>0, <1>1, NothingIn DEF Passing, Gathering, QueryRecords
  <1>5. Closing(n)
    BY <1>0, <1>1 DEF Closing, QueryRecords
  <1> QED
    BY <1>2, <1>3, <1>4, <1>5 DEF QueryInv, n

\* the gathering goroutine takes a result
LEMMA DeliverKeeps ==
  ASSUME NEW r, QueryInv(r),
         NEW s, s \in r.run, r.recv = {}
  PROVE  QueryInv([r EXCEPT !.run = @ \ {s}, !.recv = {s}])
  <1> DEFINE n == [r EXCEPT !.run = @ \ {s}, !.recv = {s}]
  <1>0. r \in QueryRecords /\ Gathering(r) /\ Passing(r) /\ Closing(r)
    BY DEF QueryInv
  <1>1. /\ n.run = r.run \ {s} /\ n.recv = {s} /\ n.kind = r.kind
        /\ n.stream = r.stream /\ n.pc = r.pc /\ n.items = r.items
        /\ n.todo = r.todo /\ n.got = r.got /\ n.bad = r.bad
        /\ n.left = r.left /\ n.size = r.size /\ n.ch = r.ch
        /\ n.closed = r.closed /\ n.holds = r.holds /\ n.ctx = r.ctx
        /\ n.taken = r.taken /\ n.reader = r.reader
    BY <1>0 DEF QueryRecords
  <1>2. n \in QueryRecords
    BY <1>0 DEF QueryRecords
  <1> HIDE DEF n
  <1>3. Gathering(n)
    BY <1>0, <1>1 DEF Gathering, QueryRecords
  <1>4. Passing(n)
    <2>1. Due(n) = Due(r) /\ Handled(n) = Handled(r)
      BY <1>1 DEF Due, Handled
    <2> QED
      BY <1>0, <1>1, <2>1 DEF Passing
  <1>5. Closing(n)
    BY <1>0, <1>1 DEF Closing, QueryRecords
  <1> QED
    BY <1>2, <1>3, <1>4, <1>5 DEF QueryInv, n

\* it is stored
LEMMA StoreKeeps ==
  ASSUME NEW r, QueryInv(r),
         r.recv # {}
  PROVE  QueryInv([r EXCEPT !.got = @ \cup r.recv, !.recv = {}])
  <1> DEFINE n == [r EXCEPT !.got = @ \cup r.recv, !.recv = {}]
  <1>0. r \in QueryRecords /\ Gathering(r) /\ Passing(r) /\ Closing(r)
    BY DEF QueryInv
  <1>1. /\ n.got = r.got \cup r.recv /\ n.recv = {} /\ n.kind = r.kind
        /\ n.stream = r.stream /\ n.pc = r.pc /\ n.items = r.items
        /\ n.todo = r.todo /\ n.run = r.run /\ n.bad = r.bad
        /\ n.left = r.left /\ n.size = r.size /\ n.ch = r.ch
        /\ n.closed = r.closed /\ n.holds = r.holds /\ n.ctx = r.ctx
        /\ n.taken = r.taken /\ n.reader = r.reader
    BY <1>0 DEF QueryRecords
  <1>2. n \in QueryRecords
    BY <1>0 DEF QueryRecords
  <1> HIDE DEF n
  <1>3. Gathering(n)
    BY <1>0, <1>1 DEF Gathering, QueryRecords
  <1>4. Passing(n)
    <2>1. Due(n) = Due(r) /\ Handled(n) = Handled(r)
      BY <1>1 DEF Due, Handled
    <2> QED
      BY <1>0, <1>1, <2>1 DEF Passing
  <1>5. Closing(n)
    BY <1>0, <1>1 DEF Closing, QueryRecords
  <1> QED
    BY <1>2, <1>3, <1>4, <1>5 DEF QueryInv, n

\* or dropped
LEMMA DropKeeps ==
  ASSUME NEW r, QueryInv(r),
         r.recv # {}
  PROVE  QueryInv([r EXCEPT !.bad = @ \cup r.recv, !.recv = {}])
  <1> DEFINE n == [r EXCEPT !.bad = @ \cup r.recv, !.recv = {}]
  <1>0. r \in QueryRecords /\ Gathering(r) /\ Passing(r) /\ Closing(r)
    BY DEF QueryInv
  <1>1. /\ n.bad = r.bad \cup r.recv /\ n.recv = {} /\ n.kind = r.kind
        /\ n.stream = r.stream /\ n.pc = r.pc /\ n.items = r.items
        /\ n.todo = r.todo /\ n.run = r.run /\ n.got = r.got
        /\ n.left = r.left /\ n.size = r.size /\ n.ch = r.ch
        /\ n.closed = r.closed /\ n.holds = r.holds /\ n.ctx = r.ctx
        /\ n.taken = r.taken /\ n.reader = r.reader
    BY <1>0 DEF QueryRecords
  <1>2. n \in QueryRecords
    BY <1>0 DEF QueryRecords
  <1> HIDE DEF n
  <1>3. Gathering(n)
    BY <1>0, <1>1 DEF Gathering, QueryRecords
  <1>4. Passing(n)
    BY <1>0, <1>1, NothingIn DEF Passing, Gathering, QueryRecords
  <1>5. Closing(n)
    BY <1>0, <1>1 DEF Closing, QueryRecords
  <1> QED
    BY <1>2, <1>3, <1>4, <1>5 DEF QueryInv, n

\* the one plot of a query without the pool is read
LEMMA ReadOneKeeps ==
  ASSUME NEW r, QueryInv(r),
         r.pc = "single", r.todo # {}
  PROVE  QueryInv([r EXCEPT !.got = r.todo, !.todo = {}])
  <1> DEFINE n == [r EXCEPT !.got = r.todo, !.todo = {}]
  <1>0. r \in QueryRecords /\ Gathering(r) /\ Passing(r) /\ Closing(r)
    BY DEF QueryInv
  <1>1. /\ n.got = r.todo /\ n.todo = {} /\ n.kind = r.kind
        /\ n.stream = r.stream /\ n.pc = r.pc /\ n.items = r.items
        /\ n.run = r.run /\ n.recv = r.recv /\ n.bad = r.bad
        /\ n.left = r.left /\ n.size = r.size /\ n.ch = r.ch
        /\ n.closed = r.closed /\ n.holds = r.holds /\ n.ctx = r.ctx
        /\ n.taken = r.taken /\ n.reader = r.reader
    BY <1>0 DEF QueryRecords
  <1>2. n \in QueryRecords
    BY <1>0 DEF QueryRecords
  <1> HIDE DEF n
  <1>3. Gathering(n)
    BY <1>0, <1>1 DEF Gathering, QueryRecords
  <1>4. Passing(n)
    <2>1. Due(n) = Due(r) /\ Handled(n) = Handled(r)
      BY <1>1 DEF Due, Handled
    <2> QED
      BY <1>0, <1>1, <2>1 DEF Passing
  <1>5. Closing(n)
    BY <1>0, <1>1 DEF Closing, QueryRecords
  <1> QED
    BY <1>2, <1>3, <1>4, <1>5 DEF QueryInv, n

\* or cannot be read
LEMMA FailOneKeeps ==
  ASSUME NEW r, QueryInv(r),
         r.pc = "single", r.todo # {}
  PROVE  QueryInv([r EXCEPT !.bad = r.todo, !.todo = {}])
  <1> DEFINE n == [r EXCEPT !.bad = r.todo, !.todo = {}]
  <1>0. r \in QueryRecords /\ Gathering(r) /\ Passing(r) /\ Closing(r)
    BY DEF QueryInv
  <1>1. /\ n.bad = r.todo /\ n.todo = {} /\ n.kind = r.kind
        /\ n.stream = r.stream /\ n.pc = r.pc /\ n.items = r.items
        /\ n.run = r.run /\ n.recv = r.recv /\ n.got = r.got
        /\ n.left = r.left /\ n.size = r.size /\ n.ch = r.ch
        /\ n.closed = r.closed /\ n.holds = r.holds /\ n.ctx = r.ctx
        /\ n.taken = r.taken /\ n.reader = r.reader
    BY <1>0 DEF QueryRecords
  <1>2. n \in QueryRecords
    BY <1>0 DEF QueryRecords
  <1> HIDE DEF n
  <1>3. Gathering(n)
    BY <1>0, <1>1 DEF Gathering, QueryRecords
  <1>4. Passing(n)
    BY <1>0, <1>1 DEF Passing
  <1>5. Closing(n)
    BY <1>0, <1>1 DEF Closing, QueryRecords
  <1> QED
    BY <1>2, <1>3, <1>4, <1>5 DEF QueryInv, n

\* the results are all there and the writer starts
LEMMA StreamKeeps ==
  ASSUME NEW r, QueryInv(r),
         r.pc \in {"single", "submit"}, r.todo = {}, r.run = {}, r.recv = {},
         NEW out \in Orders(r.kind, r.got)
  PROVE  QueryInv([r EXCEPT !.pc = "write", !.left = out])
  <1> DEFINE n == [r EXCEPT !.pc = "write", !.left = out]
  <1>0. r \in QueryRecords /\ Gathering(r) /\ Passing(r) /\ Closing(r)
    BY DEF QueryInv
  <1>p. out \in Seq(Items) /\ IsInjective(out) /\ ToSet(out) = Due(r)
    <2>1. r.items \ r.bad = r.got /\ r.got \in SUBSET Plots
      BY <1>0 DEF Gathering, QueryRecords
    <2> QED
      BY <2>1, InTurnGives DEF Due
  <1>1. /\ n.pc = "write" /\ n.left = out /\ n.kind = r.kind
        /\ n.stream = r.stream /\ n.items = r.items /\ n.todo = r.todo
        /\ n.run = r.run /\ n.recv = r.recv /\ n.got = r.got
        /\ n.bad = r.bad /\ n.size = r.size /\ n.ch = r.ch
        /\ n.closed = r.closed /\ n.holds = r.holds /\ n.ctx = r.ctx
        /\ n.taken = r.taken /\ n.reader = r.reader
    BY <1>0 DEF QueryRecords
  <1>2. n \in QueryRecords
    BY <1>0, <1>p DEF QueryRecords
  <1> HIDE DEF n
  <1>3. Gathering(n)
    BY <1>0, <1>1 DEF Gathering, QueryRecords
  <1>4. Passing(n)
    <2>1. r.taken = <<>> /\ r.ch = <<>> /\ r.left = <<>>
      BY <1>0 DEF Passing
    <2>2. Due(n) = Due(r) /\ Handled(n) = ToSet(out)
      BY <1>1, <2>1, NothingIn DEF Due, Handled
    <2> QED
      BY <1>0, <1>p, <1>1, <2>1, <2>2, NothingIn DEF Passing
  <1>5. Closing(n)
    <2>1. r.ch = <<>> /\ ~r.holds
      BY <1>0 DEF Passing, Closing
    <2> QED
      BY <1>0, <1>1, <2>1 DEF Closing, QueryRecords
  <1> QED
    BY <1>2, <1>3, <1>4, <1>5 DEF QueryInv, n

\* or they are returned
LEMMA ReturnKeeps ==
  ASSUME NEW r, QueryInv(r),
         r.pc \in {"single", "submit"}, r.todo = {}, r.run = {}, r.recv = {},
         NEW out \in Orders(r.kind, r.got),
         ~r.stream
  PROVE  QueryInv([r EXCEPT !.pc = "done", !.taken = out, !.reader = "eof"])
  <1> DEFINE n == [r EXCEPT !.pc = "done", !.taken = out, !.reader = "eof"]
  <1>0. r \in QueryRecords /\ Gathering(r) /\ Passing(r) /\ Closing(r)
    BY DEF QueryInv
  <1>p. out \in Seq(Items) /\ IsInjective(out) /\ ToSet(out) = Due(r)
    <2>1. r.items \ r.bad = r.got /\ r.got \in SUBSET Plots
      BY <1>0 DEF Gathering, QueryRecords
    <2> QED
      BY <2>1, InTurnGives DEF Due
  <1>1. /\ n.pc = "done" /\ n.taken = out /\ n.reader = "eof"
        /\ n.kind = r.kind /\ n.stream = r.stream /\ n.items = r.items
        /\ n.todo = r.todo /\ n.run = r.run /\ n.recv = r.recv
        /\ n.got = r.got /\ n.bad = r.bad /\ n.left = r.left
        /\ n.size = r.size /\ n.ch = r.ch /\ n.closed = r.closed
        /\ n.holds = r.holds /\ n.ctx = r.ctx
    BY <1>0 DEF QueryRecords
  <1>2. n \in QueryRecords
    BY <1>0, <1>p DEF QueryRecords
  <1> HIDE DEF n
  <1>3. Gathering(n)
    BY <1>0, <1>1 DEF Gathering, QueryRecords
  <1>4. Passing(n)
    <2>1. r.taken = <<>> /\ r.ch = <<>> /\ r.left = <<>>
      BY <1>0 DEF Passing
    <2>2. Due(n) = Due(r) /\ Handled(n) = ToSet(out)
      BY <1>1, <2>1, NothingIn DEF Due, Handled
    <2> QED
      BY <1>0, <1>p, <1>1, <2>1, <2>2, NothingIn DEF Passing
  <1>5. Closing(n)
    <2>1. r.ch = <<>> /\ r.left = <<>> /\ ~r.holds
      BY <1>0 DEF Passing, Closing
    <2> QED
      BY <1>0, <1>1, <2>1 DEF Closing, QueryRecords
  <1> QED
    BY <1>2, <1>3, <1>4, <1>5 DEF QueryInv, n

\* a write after Close fails, so the writer gives up
LEMMA DiscardKeeps ==
  ASSUME NEW r, QueryInv(r),
         r.pc = "write", r.closed, ~r.holds
  PROVE  QueryInv([r EXCEPT !.left = <<>>])
  <1> DEFINE n == [r EXCEPT !.left = <<>>]
  <1>0. r \in QueryRecords /\ Gathering(r) /\ Passing(r) /\ Closing(r)
    BY DEF QueryInv
  <1>p. <<>> \in Seq(Items)
    BY NothingIn
  <1>1. /\ n.left = <<>> /\ n.kind = r.kind /\ n.stream = r.stream
        /\ n.pc = r.pc /\ n.items = r.items /\ n.todo = r.todo
        /\ n.run = r.run /\ n.recv = r.recv /\ n.got = r.got
        /\ n.bad = r.bad /\ n.size = r.size /\ n.ch = r.ch
        /\ n.closed = r.closed /\ n.holds = r.holds /\ n.ctx = r.ctx
        /\ n.taken = r.taken /\ n.reader = r.reader
    BY <1>0 DEF QueryRecords
  <1>2. n \in QueryRecords
    BY <1>0, <1>p DEF QueryRecords
  <1> HIDE DEF n
  <1>3. Gathering(n)
    BY <1>0, <1>1 DEF Gathering, QueryRecords
  <1>4. Passing(n)
    <2>1. Due(n) = Due(r) /\ Handled(n) \subseteq Handled(r)
      BY <1>1, NothingIn DEF Due, Handled
    <2>2. r.ctx = "closed"
      BY <1>0 DEF Closing
    <2> QED
      BY <1>0, <1>1, <2>1, <2>2, NothingIn DEF Passing
  <1>5. Closing(n)
    BY <1>0, <1>1 DEF Closing, QueryRecords
  <1> QED
    BY <1>2, <1>3, <1>4, <1>5 DEF QueryInv, n

\* a result goes into the channel
LEMMA WriteKeeps ==
  ASSUME NEW r, QueryInv(r),
         r.pc = "write", r.left # <<>>, ~r.closed, ~r.holds
  PROVE  QueryInv([r EXCEPT !.ch = Append(@, Head(r.left)), !.left = Tail(@)])
  <1> DEFINE n == [r EXCEPT !.ch = Append(@, Head(r.left)), !.left = Tail(@)]
  <1>0. r \in QueryRecords /\ Gathering(r) /\ Passing(r) /\ Closing(r)
    BY DEF QueryInv
  <1>p. /\ Head(r.left) \in Items /\ Tail(r.left) \in Seq(Items) /\ IsInjective(Tail(r.left))
        /\ ToSet(r.left) = {Head(r.left)} \cup ToSet(Tail(r.left))
        /\ Head(r.left) \notin ToSet(Tail(r.left))
        /\ Append(r.ch, Head(r.left)) \in Seq(Items)
        /\ IsInjective(Append(r.ch, Head(r.left)))
        /\ ToSet(Append(r.ch, Head(r.left))) = ToSet(r.ch) \cup {Head(r.left)}
    <2>1. r.left \in Seq(Items) /\ r.ch \in Seq(Items) /\ IsInjective(r.left) /\ IsInjective(r.ch)
      BY <1>0 DEF QueryRecords, Passing
    <2>2. /\ Head(r.left) \in Items /\ Tail(r.left) \in Seq(Items) /\ IsInjective(Tail(r.left))
          /\ ToSet(r.left) = {Head(r.left)} \cup ToSet(Tail(r.left))
          /\ Head(r.left) \notin ToSet(Tail(r.left))
      BY <2>1, TakenOff
    <2>3. Head(r.left) \notin ToSet(r.ch)
      BY <1>0, <2>2 DEF Passing
    <2> QED
      BY <2>1, <2>2, <2>3, PutOn
  <1>1. /\ n.ch = Append(r.ch, Head(r.left)) /\ n.left = Tail(r.left)
        /\ n.kind = r.kind /\ n.stream = r.stream /\ n.pc = r.pc
        /\ n.items = r.items /\ n.todo = r.todo /\ n.run = r.run
        /\ n.recv = r.recv /\ n.got = r.got /\ n.bad = r.bad
        /\ n.size = r.size /\ n.closed = r.closed /\ n.holds = r.holds
        /\ n.ctx = r.ctx /\ n.taken = r.taken /\ n.reader = r.reader
    BY <1>0 DEF QueryRecords
  <1>2. n \in QueryRecords
    BY <1>0, <1>p DEF QueryRecords
  <1> HIDE DEF n
  <1>3. Gathering(n)
    BY <1>0, <1>1 DEF Gathering, QueryRecords
  <1>4. Passing(n)
    <2>1. Due(n) = Due(r) /\ Handled(n) = Handled(r)
      BY <1>p, <1>1 DEF Due, Handled
    <2>2. ToSet(n.ch) \cap ToSet(n.left) = {} /\ ToSet(n.taken) \cap ToSet(n.ch) = {}
      BY <1>0, <1>p, <1>1 DEF Passing
    <2>3. ToSet(n.taken) \cap ToSet(n.left) = {}
      BY <1>0, <1>p, <1>1 DEF Passing
    <2> QED
      BY <1>0, <1>p, <1>1, <2>1, <2>2, <2>3 DEF Passing
  <1>5. Closing(n)
    BY <1>0, <1>1 DEF Closing, QueryRecords
  <1> QED
    BY <1>2, <1>3, <1>4, <1>5 DEF QueryInv, n

\* or waits for room, with the mutex
LEMMA WaitKeeps ==
  ASSUME NEW r, QueryInv(r),
         r.pc = "write", r.left # <<>>, ~r.closed
  PROVE  QueryInv([r EXCEPT !.holds = TRUE])
  <1> DEFINE n == [r EXCEPT !.holds = TRUE]
  <1>0. r \in QueryRecords /\ Gathering(r) /\ Passing(r) /\ Closing(r)
    BY DEF QueryInv
  <1>1. /\ n.holds = TRUE /\ n.kind = r.kind /\ n.stream = r.stream
        /\ n.pc = r.pc /\ n.items = r.items /\ n.todo = r.todo
        /\ n.run = r.run /\ n.recv = r.recv /\ n.got = r.got
        /\ n.bad = r.bad /\ n.left = r.left /\ n.size = r.size
        /\ n.ch = r.ch /\ n.closed = r.closed /\ n.ctx = r.ctx
        /\ n.taken = r.taken /\ n.reader = r.reader
    BY <1>0 DEF QueryRecords
  <1>2. n \in QueryRecords
    BY <1>0 DEF QueryRecords
  <1> HIDE DEF n
  <1>3. Gathering(n)
    BY <1>0, <1>1 DEF Gathering, QueryRecords
  <1>4. Passing(n)
    <2>1. Due(n) = Due(r) /\ Handled(n) = Handled(r)
      BY <1>1 DEF Due, Handled
    <2> QED
      BY <1>0, <1>1, <2>1 DEF Passing
  <1>5. Closing(n)
    BY <1>0, <1>1 DEF Closing, QueryRecords
  <1> QED
    BY <1>2, <1>3, <1>4, <1>5 DEF QueryInv, n

\* which there is at last
LEMMA SendWaitedKeeps ==
  ASSUME NEW r, QueryInv(r),
         r.holds, r.left # <<>>
  PROVE  QueryInv([r EXCEPT !.ch = Append(@, Head(r.left)), !.left = Tail(@), !.holds = FALSE])
  <1> DEFINE n == [r EXCEPT !.ch = Append(@, Head(r.left)), !.left = Tail(@), !.holds = FALSE]
  <1>0. r \in QueryRecords /\ Gathering(r) /\ Passing(r) /\ Closing(r)
    BY DEF QueryInv
  <1>p. /\ Head(r.left) \in Items /\ Tail(r.left) \in Seq(Items) /\ IsInjective(Tail(r.left))
        /\ ToSet(r.left) = {Head(r.left)} \cup ToSet(Tail(r.left))
        /\ Head(r.left) \notin ToSet(Tail(r.left))
        /\ Append(r.ch, Head(r.left)) \in Seq(Items)
        /\ IsInjective(Append(r.ch, Head(r.left)))
        /\ ToSet(Append(r.ch, Head(r.left))) = ToSet(r.ch) \cup {Head(r.left)}
    <2>1. r.left \in Seq(Items) /\ r.ch \in Seq(Items) /\ IsInjective(r.left) /\ IsInjective(r.ch)
      BY <1>0 DEF QueryRecords, Passing
    <2>2. /\ Head(r.left) \in Items /\ Tail(r.left) \in Seq(Items) /\ IsInjective(Tail(r.left))
          /\ ToSet(r.left) = {Head(r.left)} \cup ToSet(Tail(r.left))
          /\ Head(r.left) \notin ToSet(Tail(r.left))
      BY <2>1, TakenOff
    <2>3. Head(r.left) \notin ToSet(r.ch)
      BY <1>0, <2>2 DEF Passing
    <2> QED
      BY <2>1, <2>2, <2>3, PutOn
  <1>1. /\ n.ch = Append(r.ch, Head(r.left)) /\ n.left = Tail(r.left)
        /\ n.holds = FALSE /\ n.kind = r.kind /\ n.stream = r.stream
        /\ n.pc = r.pc /\ n.items = r.items /\ n.todo = r.todo
        /\ n.run = r.run /\ n.recv = r.recv /\ n.got = r.got
        /\ n.bad = r.bad /\ n.size = r.size /\ n.closed = r.closed
        /\ n.ctx = r.ctx /\ n.taken = r.taken /\ n.reader = r.reader
    BY <1>0 DEF QueryRecords
  <1>2. n \in QueryRecords
    BY <1>0, <1>p DEF QueryRecords
  <1> HIDE DEF n
  <1>3. Gathering(n)
    BY <1>0, <1>1 DEF Gathering, QueryRecords
  <1>4. Passing(n)
    <2>1. Due(n) = Due(r) /\ Handled(n) = Handled(r)
      BY <1>p, <1>1 DEF Due, Handled
    <2>2. ToSet(n.ch) \cap ToSet(n.left) = {} /\ ToSet(n.taken) \cap ToSet(n.ch) = {}
      BY <1>0, <1>p, <1>1 DEF Passing
    <2>3. ToSet(n.taken) \cap ToSet(n.left) = {}
      BY <1>0, <1>p, <1>1 DEF Passing
    <2> QED
      BY <1>0, <1>p, <1>1, <2>1, <2>2, <2>3 DEF Passing
  <1>5. Closing(n)
    BY <1>0, <1>1 DEF Closing, QueryRecords
  <1> QED
    BY <1>2, <1>3, <1>4, <1>5 DEF QueryInv, n

\* the writer has written everything
LEMMA WriterClosesKeeps ==
  ASSUME NEW r, QueryInv(r),
         r.pc = "write", r.left = <<>>
  PROVE  QueryInv([r EXCEPT !.pc = "done", !.closed = TRUE])
  <1> DEFINE n == [r EXCEPT !.pc = "done", !.closed = TRUE]
  <1>0. r \in QueryRecords /\ Gathering(r) /\ Passing(r) /\ Closing(r)
    BY DEF QueryInv
  <1>1. /\ n.pc = "done" /\ n.closed = TRUE /\ n.kind = r.kind
        /\ n.stream = r.stream /\ n.items = r.items /\ n.todo = r.todo
        /\ n.run = r.run /\ n.recv = r.recv /\ n.got = r.got
        /\ n.bad = r.bad /\ n.left = r.left /\ n.size = r.size
        /\ n.ch = r.ch /\ n.holds = r.holds /\ n.ctx = r.ctx
        /\ n.taken = r.taken /\ n.reader = r.reader
    BY <1>0 DEF QueryRecords
  <1>2. n \in QueryRecords
    BY <1>0 DEF QueryRecords
  <1> HIDE DEF n
  <1>3. Gathering(n)
    BY <1>0, <1>1 DEF Gathering, QueryRecords
  <1>4. Passing(n)
    <2>1. Due(n) = Due(r) /\ Handled(n) = Handled(r)
      BY <1>1 DEF Due, Handled
    <2> QED
      BY <1>0, <1>1, <2>1 DEF Passing
  <1>5. Closing(n)
    BY <1>0, <1>1 DEF Closing, QueryRecords
  <1> QED
    BY <1>2, <1>3, <1>4, <1>5 DEF QueryInv, n

\* the context is cancelled
LEMMA CancelKeeps ==
  ASSUME NEW r, QueryInv(r),
         r.ctx = "live"
  PROVE  QueryInv([r EXCEPT !.ctx = "done"])
  <1> DEFINE n == [r EXCEPT !.ctx = "done"]
  <1>0. r \in QueryRecords /\ Gathering(r) /\ Passing(r) /\ Closing(r)
    BY DEF QueryInv
  <1>1. /\ n.ctx = "done" /\ n.kind = r.kind /\ n.stream = r.stream
        /\ n.pc = r.pc /\ n.items = r.items /\ n.todo = r.todo
        /\ n.run = r.run /\ n.recv = r.recv /\ n.got = r.got
        /\ n.bad = r.bad /\ n.left = r.left /\ n.size = r.size
        /\ n.ch = r.ch /\ n.closed = r.closed /\ n.holds = r.holds
        /\ n.taken = r.taken /\ n.reader = r.reader
    BY <1>0 DEF QueryRecords
  <1>2. n \in QueryRecords
    BY <1>0 DEF QueryRecords
  <1> HIDE DEF n
  <1>3. Gathering(n)
    BY <1>0, <1>1 DEF Gathering, QueryRecords
  <1>4. Passing(n)
    <2>1. Due(n) = Due(r) /\ Handled(n) = Handled(r)
      BY <1>1 DEF Due, Handled
    <2> QED
      BY <1>0, <1>1, <2>1 DEF Passing
  <1>5. Closing(n)
    BY <1>0, <1>1 DEF Closing, QueryRecords
  <1> QED
    BY <1>2, <1>3, <1>4, <1>5 DEF QueryInv, n

\* and the stream closed for it
LEMMA CloserKeeps ==
  ASSUME NEW r, QueryInv(r),
         r.ctx = "done", ~r.holds
  PROVE  QueryInv([r EXCEPT !.ctx = "closed", !.closed = TRUE])
  <1> DEFINE n == [r EXCEPT !.ctx = "closed", !.closed = TRUE]
  <1>0. r \in QueryRecords /\ Gathering(r) /\ Passing(r) /\ Closing(r)
    BY DEF QueryInv
  <1>1. /\ n.ctx = "closed" /\ n.closed = TRUE /\ n.kind = r.kind
        /\ n.stream = r.stream /\ n.pc = r.pc /\ n.items = r.items
        /\ n.todo = r.todo /\ n.run = r.run /\ n.recv = r.recv
        /\ n.got = r.got /\ n.bad = r.bad /\ n.left = r.left
        /\ n.size = r.size /\ n.ch = r.ch /\ n.holds = r.holds
        /\ n.taken = r.taken /\ n.reader = r.reader
    BY <1>0 DEF QueryRecords
  <1>2. n \in QueryRecords
    BY <1>0 DEF QueryRecords
  <1> HIDE DEF n
  <1>3. Gathering(n)
    BY <1>0, <1>1 DEF Gathering, QueryRecords
  <1>4. Passing(n)
    <2>1. Due(n) = Due(r) /\ Handled(n) = Handled(r)
      BY <1>1 DEF Due, Handled
    <2> QED
      BY <1>0, <1>1, <2>1 DEF Passing
  <1>5. Closing(n)
    BY <1>0, <1>1 DEF Closing, QueryRecords
  <1> QED
    BY <1>2, <1>3, <1>4, <1>5 DEF QueryInv, n

\* the caller takes a result
LEMMA ReadKeeps ==
  ASSUME NEW r, QueryInv(r),
         r.reader = "reading", r.ch # <<>>
  PROVE  QueryInv([r EXCEPT !.ch = Tail(@), !.taken = Append(@, Head(r.ch))])
  <1> DEFINE n == [r EXCEPT !.ch = Tail(@), !.taken = Append(@, Head(r.ch))]
  <1>0. r \in QueryRecords /\ Gathering(r) /\ Passing(r) /\ Closing(r)
    BY DEF QueryInv
  <1>p. /\ Head(r.ch) \in Items /\ Tail(r.ch) \in Seq(Items) /\ IsInjective(Tail(r.ch))
        /\ ToSet(r.ch) = {Head(r.ch)} \cup ToSet(Tail(r.ch))
        /\ Head(r.ch) \notin ToSet(Tail(r.ch))
        /\ Append(r.taken, Head(r.ch)) \in Seq(Items)
        /\ IsInjective(Append(r.taken, Head(r.ch)))
        /\ ToSet(Append(r.taken, Head(r.ch))) = ToSet(r.taken) \cup {Head(r.ch)}
    <2>1. r.ch \in Seq(Items) /\ r.taken \in Seq(Items) /\ IsInjective(r.ch) /\ IsInjective(r.taken)
      BY <1>0 DEF QueryRecords, Passing
    <2>2. /\ Head(r.ch) \in Items /\ Tail(r.ch) \in Seq(Items) /\ IsInjective(Tail(r.ch))
          /\ ToSet(r.ch) = {Head(r.ch)} \cup ToSet(Tail(r.ch))
          /\ Head(r.ch) \notin ToSet(Tail(r.ch))
      BY <2>1, TakenOff
    <2>3. Head(r.ch) \notin ToSet(r.taken)
      BY <1>0, <2>2 DEF Passing
    <2> QED
      BY <2>1, <2>2, <2>3, PutOn
  <1>1. /\ n.ch = Tail(r.ch) /\ n.taken = Append(r.taken, Head(r.ch))
        /\ n.kind = r.kind /\ n.stream = r.stream /\ n.pc = r.pc
        /\ n.items = r.items /\ n.todo = r.todo /\ n.run = r.run
        /\ n.recv = r.recv /\ n.got = r.got /\ n.bad = r.bad
        /\ n.left = r.left /\ n.size = r.size /\ n.closed = r.closed
        /\ n.holds = r.holds /\ n.ctx = r.ctx /\ n.reader = r.reader
    BY <1>0 DEF QueryRecords
  <1>2. n \in QueryRecords
    BY <1>0, <1>p DEF QueryRecords
  <1> HIDE DEF n
  <1>3. Gathering(n)
    BY <1>0, <1>1 DEF Gathering, QueryRecords
  <1>4. Passing(n)
    <2>1. Due(n) = Due(r) /\ Handled(n) = Handled(r)
      BY <1>p, <1>1 DEF Due, Handled
    <2>2. ToSet(n.taken) \cap ToSet(n.ch) = {} /\ ToSet(n.ch) \cap ToSet(n.left) = {}
      BY <1>0, <1>p, <1>1 DEF Passing
    <2>3. ToSet(n.taken) \cap ToSet(n.left) = {}
      BY <1>0, <1>p, <1>1 DEF Passing
    <2>4. r.pc \in {"write", "done"}
      BY <1>0 DEF Passing, QueryRecords
    <2> QED
      BY <1>0, <1>p, <1>1, <2>1, <2>2, <2>3, <2>4 DEF Passing
  <1>5. Closing(n)
    BY <1>0, <1>1 DEF Closing, QueryRecords
  <1> QED
    BY <1>2, <1>3, <1>4, <1>5 DEF QueryInv, n

\* or comes to end of file
LEMMA EndKeeps ==
  ASSUME NEW r, QueryInv(r),
         r.ch = <<>>, r.closed
  PROVE  QueryInv([r EXCEPT !.reader = "eof"])
  <1> DEFINE n == [r EXCEPT !.reader = "eof"]
  <1>0. r \in QueryRecords /\ Gathering(r) /\ Passing(r) /\ Closing(r)
    BY DEF QueryInv
  <1>1. /\ n.reader = "eof" /\ n.kind = r.kind /\ n.stream = r.stream
        /\ n.pc = r.pc /\ n.items = r.items /\ n.todo = r.todo
        /\ n.run = r.run /\ n.recv = r.recv /\ n.got = r.got
        /\ n.bad = r.bad /\ n.left = r.left /\ n.size = r.size
        /\ n.ch = r.ch /\ n.closed = r.closed /\ n.holds = r.holds
        /\ n.ctx = r.ctx /\ n.taken = r.taken
    BY <1>0 DEF QueryRecords
  <1>2. n \in QueryRecords
    BY <1>0 DEF QueryRecords
  <1> HIDE DEF n
  <1>3. Gathering(n)
    BY <1>0, <1>1 DEF Gathering, QueryRecords
  <1>4. Passing(n)
    <2>1. Due(n) = Due(r) /\ Handled(n) = Handled(r)
      BY <1>1 DEF Due, Handled
    <2> QED
      BY <1>0, <1>1, <2>1 DEF Passing
  <1>5. Closing(n)
    BY <1>0, <1>1 DEF Closing, QueryRecords
  <1> QED
    BY <1>2, <1>3, <1>4, <1>5 DEF QueryInv, n

\* or leaves
LEMMA LeaveKeeps ==
  ASSUME NEW r, QueryInv(r),
         r.reader = "reading"
  PROVE  QueryInv([r EXCEPT !.reader = "gone"])
  <1> DEFINE n == [r EXCEPT !.reader = "gone"]
  <1>0. r \in QueryRecords /\ Gathering(r) /\ Passing(r) /\ Closing(r)
    BY DEF QueryInv
  <1>1. /\ n.reader = "gone" /\ n.kind = r.kind /\ n.stream = r.stream
        /\ n.pc = r.pc /\ n.items = r.items /\ n.todo = r.todo
        /\ n.run = r.run /\ n.recv = r.recv /\ n.got = r.got
        /\ n.bad = r.bad /\ n.left = r.left /\ n.size = r.size
        /\ n.ch = r.ch /\ n.closed = r.closed /\ n.holds = r.holds
        /\ n.ctx = r.ctx /\ n.taken = r.taken
    BY <1>0 DEF QueryRecords
  <1>2. n \in QueryRecords
    BY <1>0 DEF QueryRecords
  <1> HIDE DEF n
  <1>3. Gathering(n)
    BY <1>0, <1>1 DEF Gathering, QueryRecords
  <1>4. Passing(n)
    <2>1. Due(n) = Due(r) /\ Handled(n) = Handled(r)
      BY <1>1 DEF Due, Handled
    <2> QED
      BY <1>0, <1>1, <2>1 DEF Passing
  <1>5. Closing(n)
    BY <1>0, <1>1 DEF Closing, QueryRecords
  <1> QED
    BY <1>2, <1>3, <1>4, <1>5 DEF QueryInv, n

\* a query begins
LEMMA AskKeeps ==
  ASSUME NEW r, QueryInv(r),
         r.pc = "idle", r.run = {}, r.recv = {}, r.got = {}, r.bad = {}, r.items = {},
         r.ctx = "live", ~r.holds, ~r.closed,
         NEW kind \in {"quality", "proof"}, NEW stream \in BOOLEAN,
         NEW pc \in {"single", "submit"}, NEW items \in SUBSET Plots, NEW size \in Nat,
         NEW reader \in {"reading", "waiting"}
  PROVE  QueryInv([r EXCEPT !.kind = kind, !.stream = stream, !.pc = pc, !.items = items,
                            !.todo = items, !.size = size, !.reader = reader])
  <1> DEFINE n == [r EXCEPT !.kind = kind, !.stream = stream, !.pc = pc, !.items = items,
                            !.todo = items, !.size = size, !.reader = reader]
  <1>0. r \in QueryRecords /\ Gathering(r) /\ Passing(r) /\ Closing(r)
    BY DEF QueryInv
  <1>1. /\ n.kind = kind /\ n.stream = stream /\ n.pc = pc
        /\ n.items = items /\ n.todo = items /\ n.size = size
        /\ n.reader = reader /\ n.run = r.run /\ n.recv = r.recv
        /\ n.got = r.got /\ n.bad = r.bad /\ n.left = r.left /\ n.ch = r.ch
        /\ n.closed = r.closed /\ n.holds = r.holds /\ n.ctx = r.ctx
        /\ n.taken = r.taken
    BY <1>0 DEF QueryRecords
  <1>2. n \in QueryRecords
    BY <1>0 DEF QueryRecords
  <1> HIDE DEF n
  <1>3. Gathering(n)
    BY <1>0, <1>1 DEF Gathering, QueryRecords
  <1>4. Passing(n)
    BY <1>0, <1>1 DEF Passing
  <1>5. Closing(n)
    BY <1>0, <1>1 DEF Closing, QueryRecords
  <1> QED
    BY <1>2, <1>3, <1>4, <1>5 DEF QueryInv, n

\* before it is asked
LEMMA NoQueryInv ==
  /\ QueryInv(NoQuery)
  /\ NoQuery.pc = "idle" /\ NoQuery.run = {} /\ NoQuery.recv = {} /\ NoQuery.got = {}
  /\ NoQuery.bad = {} /\ NoQuery.items = {} /\ NoQuery.ctx = "live"
  /\ NoQuery.holds = FALSE /\ NoQuery.closed = FALSE
  <1> DEFINE n == NoQuery
  <1>1. /\ n.kind = "none" /\ n.stream = FALSE /\ n.pc = "idle" /\ n.items = {} /\ n.todo = {}
        /\ n.run = {} /\ n.recv = {} /\ n.got = {} /\ n.bad = {} /\ n.left = <<>>
        /\ n.size = 0 /\ n.ch = <<>> /\ n.closed = FALSE /\ n.holds = FALSE
        /\ n.ctx = "live" /\ n.taken = <<>> /\ n.reader = "none"
    BY DEF NoQuery
  <1>2. n \in QueryRecords
    BY NothingIn DEF NoQuery, QueryRecords
  <1> HIDE DEF n
  <1>3. Gathering(n) /\ Closing(n)
    BY <1>1 DEF Gathering, Closing
  <1>4. Passing(n)
    BY <1>1, NothingIn DEF Passing
  <1> QED
    BY <1>1, <1>2, <1>3, <1>4 DEF QueryInv, n

-----------------------------------------------------------------------------
(* Queries: every step of the keeper.                                      *)

\* whether gathered from the pool or read one by one, what a query returns with
LEMMA ReturnStep ==
  ASSUME NEW q \in Queries, query \in Asks, QueryInv(query[q]), Return(q),
         query[q].pc \in {"single", "submit"}, query[q].todo = {},
         query[q].run = {}, query[q].recv = {}
  PROVE  \E new : Step(q, new) /\ QueryInv(new)
  <1>1. PICK out \in Orders(query[q].kind, query[q].got) :
              IF query[q].stream
              THEN Step(q, [query[q] EXCEPT !.pc = "write", !.left = out])
              ELSE Step(q, [query[q] EXCEPT !.pc = "done", !.taken = out, !.reader = "eof"])
    BY DEF Return
  <1>2. CASE query[q].stream
    BY <1>1, <1>2, StreamKeeps
  <1>3. CASE ~query[q].stream
    BY <1>1, <1>3, ReturnKeeps
  <1> QED
    BY <1>2, <1>3

\* a step of a query changes that query only
QuerySteps(q) ==
    \/ Worker(q) \/ Gatherer(q) \/ Writer(q) \/ Cancel(q) \/ CloserCloses(q)
    \/ Read(q) \/ Leave(q)

\* Every step of a query keeps its invariant.
LEMMA QueryStepInv ==
  ASSUME NEW q \in Queries, query \in Asks, QueryInv(query[q]), QuerySteps(q)
  PROVE  \E new : Step(q, new) /\ QueryInv(new)
  <1> DEFINE r == query[q]
  <1>0. r \in QueryRecords /\ Gathering(r) /\ Closing(r)
    BY DEF QueryInv
  <1>1. ASSUME NEW s \in Plots, Submit(q, s) PROVE \E new : Step(q, new) /\ QueryInv(new)
    BY <1>1, SubmitKeeps DEF Submit
  <1>13. ASSUME NEW s \in Plots, SubmitFails(q, s) PROVE \E new : Step(q, new) /\ QueryInv(new)
    BY <1>13, RefusedKeeps DEF SubmitFails
  <1>2. ASSUME NEW s \in Plots, Deliver(q, s) PROVE \E new : Step(q, new) /\ QueryInv(new)
    BY <1>2, DeliverKeeps DEF Deliver
  <1>3. CASE Store(q)
    BY <1>3, StoreKeeps, DropKeeps DEF Store
  <1>4. CASE Gathered(q)
    BY <1>4, ReturnStep DEF Gathered
  <1>5. CASE ReadOne(q)
    <2>1. CASE r.todo # {}
      BY <1>5, <2>1, ReadOneKeeps, FailOneKeeps DEF ReadOne
    <2>2. CASE r.todo = {}
      <3>1. r.run = {} /\ r.recv = {} /\ r.pc = "single" /\ Return(q)
        BY <1>0, <1>5, <2>2 DEF ReadOne, Gathering
      <3> QED
        BY <2>2, <3>1, ReturnStep
    <2> QED
      BY <2>1, <2>2
  <1>6. CASE Write(q)
    <2>1. r.pc = "write" /\ r.left # <<>> /\ ~r.holds
      BY <1>6 DEF Write
    <2>2. CASE r.closed
      BY <1>6, <2>1, <2>2, DiscardKeeps DEF Write
    <2>3. CASE ~r.closed /\ Len(r.ch) < r.size
      BY <1>6, <2>1, <2>3, WriteKeeps DEF Write
    <2>4. CASE ~r.closed /\ ~(Len(r.ch) < r.size)
      BY <1>6, <2>1, <2>4, WaitKeeps DEF Write
    <2> QED
      BY <2>2, <2>3, <2>4
  <1>7. CASE SendWaited(q)
    <2>1. r.holds /\ r.left # <<>>
      BY <1>0, <1>7 DEF SendWaited, Closing
    <2> QED
      BY <1>7, <2>1, SendWaitedKeeps DEF SendWaited
  <1>8. CASE WriterCloses(q)
    BY <1>8, WriterClosesKeeps DEF WriterCloses
  <1>9. CASE Cancel(q)
    BY <1>9, CancelKeeps DEF Cancel
  <1>10. CASE CloserCloses(q)
    BY <1>10, CloserKeeps DEF CloserCloses
  <1>11. CASE Read(q)
    <2>1. CASE r.ch # <<>>
      BY <1>11, <2>1, ReadKeeps DEF Read
    <2>2. CASE r.ch = <<>>
      BY <1>11, <2>2, EndKeeps DEF Read
    <2> QED
      BY <2>1, <2>2
  <1>12. CASE Leave(q)
    BY <1>12, LeaveKeeps DEF Leave
  <1> QED
    BY <1>1, <1>2, <1>3, <1>4, <1>5, <1>6, <1>7, <1>8, <1>9, <1>10, <1>11, <1>12, <1>13
       DEF QuerySteps, Worker, Gatherer, Writer

\* a query that is asked for
LEMMA AskInv ==
  ASSUME NEW q \in Queries, KeeperInv, Asked(q)
  PROVE  /\ \E new : QueryInv(new) /\ query' = [query EXCEPT ![q] = new]
         /\ budget' \in [calls : Nat, queries : Nat]
         /\ UNCHANGED <<svc, plotter, keeperVars, call>>
  <1>1. \E kind \in {"quality", "proof"}, stream \in BOOLEAN, pc \in {"single", "submit"},
           items \in SUBSET Plots, size \in Nat : Ask(q, kind, stream, pc, items, size)
    <2>1. \A items \in SUBSET Plots : Cardinality(items) \in Nat
      BY ChiaAssumption, FS_Subset, FS_CardinalityType
    <2>2. CASE AskOne(q)
      BY <2>2 DEF AskOne
    <2>3. CASE AskQualities(q)
      <3>1. PICK flags \in SUBSET States, stream \in BOOLEAN :
                  Ask(q, "quality", stream, "submit", ByFlags(flags), Cardinality(ByFlags(flags)))
        BY <2>3 DEF AskQualities
      <3>2. ByFlags(flags) \in SUBSET Plots
        BY DEF ByFlags, KeeperInv, TypeOK
      <3> QED
        BY <2>1, <3>1, <3>2
    <2>4. CASE AskProofs(q)
      <3>1. PICK sids \in SUBSET Plots, stream \in BOOLEAN :
                  Ask(q, "proof", stream, "submit", {s \in sids : Exists(s)},
                      Cardinality({s \in sids : Exists(s)}))
        BY <2>4 DEF AskProofs
      <3>2. {s \in sids : Exists(s)} \in SUBSET Plots
        OBVIOUS
      <3> QED
        BY <2>1, <3>1, <3>2
    <2> QED
      BY <2>2, <2>3, <2>4 DEF Asked
  <1>2. PICK kind \in {"quality", "proof"}, stream \in BOOLEAN, pc \in {"single", "submit"},
           items \in SUBSET Plots, size \in Nat : Ask(q, kind, stream, pc, items, size)
    BY <1>1
  <1> DEFINE reader == IF stream THEN "reading" ELSE "waiting"
             new == [NoQuery EXCEPT !.kind = kind, !.stream = stream, !.pc = pc,
                     !.items = items, !.todo = items, !.size = size, !.reader = reader]
  <1>3. /\ budget.queries > 0 /\ budget' = [budget EXCEPT !.queries = @ - 1]
        /\ query' = [query EXCEPT ![q] = new] /\ UNCHANGED <<svc, plotter, keeperVars, call>>
    BY <1>2 DEF Ask
  <1>4. reader \in {"reading", "waiting"}
    OBVIOUS
  <1>5. QueryInv(new)
    <2> HIDE DEF reader
    <2> QED
      BY <1>4, NoQueryInv, AskKeeps
  <1>6. budget' \in [calls : Nat, queries : Nat]
    BY <1>3 DEF KeeperInv, TypeOK
  <1> QED
    BY <1>3, <1>5, <1>6

-----------------------------------------------------------------------------
(* The keeper: every step.                                                 *)

\* the books are moved together
LEMMA ChangeStateInv ==
  ASSUME KeeperInv, NEW s \in Plots, NEW old \in States, NEW new \in States, old # new,
         s \in index[old], ChangeState(s, old, new), all' = all
  PROVE  /\ StateMaps' /\ index' \in [States -> SUBSET Plots] /\ state' \in [Plots -> States]
  <1>1. /\ index \in [States -> SUBSET Plots] /\ state \in [Plots -> States]
        /\ StateMaps
    BY DEF KeeperInv, TypeOK
  <1>2. /\ index' = [index EXCEPT ![old] = @ \ {s}, ![new] = @ \cup {s}]
        /\ state' = [state EXCEPT ![s] = new]
    BY DEF ChangeState
  <1>3. index' \in [States -> SUBSET Plots] /\ state' \in [Plots -> States]
    BY <1>1, <1>2
  <1>4. \A st \in States : index'[st] = IF st = new THEN index[st] \cup {s}
                                        ELSE IF st = old THEN index[st] \ {s} ELSE index[st]
    BY <1>1, <1>2
  <1>5. \A t \in Plots : state'[t] = IF t = s THEN new ELSE state[t]
    BY <1>1, <1>2
  <1>6. s \in all /\ state[s] = old /\ States = {old, new}
    BY <1>1 DEF StateMaps, States
  <1>7. ASSUME NEW t \in Plots, NEW st \in States
        PROVE  t \in index'[st] <=> (t \in all /\ state'[t] = st)
    <2>1. t \in index[st] <=> (t \in all /\ state[t] = st)
      BY <1>1 DEF StateMaps
    <2> QED
      BY <1>4, <1>5, <1>6, <2>1
  <1> QED
    BY <1>3, <1>7 DEF StateMaps

KeeperSteps ==
    \/ OnStart \/ OnStop \/ OnStopReturns
    \/ Plotter
    \/ \E c \in Clients : ActOnWorkSpace(c) \/ ActOnWorkSpaces(c) \/ ClientTurn(c)

\* what is left of the invariant when its other variables are as they were
Books == /\ index \in [States -> SUBSET Plots] /\ all \in SUBSET Plots
         /\ state \in [Plots -> States] /\ list \in SUBSET Plots /\ using \in SUBSET Plots
         /\ StateMaps
         /\ all \subseteq UNION {Dirs[d] : d \in DOMAIN Dirs}
         /\ list = using /\ using \subseteq all
         /\ paths = [d \in DOMAIN Dirs |-> PathOf(d)]

Control == /\ svc \in {"new", "running", "stopping", "stopped"}
           /\ plotter \in [pc : PlotterPC, cur : SUBSET Plots]
           /\ queue \in SUBSET Plots /\ kept \in SUBSET Plots
           /\ held \in SUBSET (Clients \X Plots)
           /\ call \in [Clients -> [action : Actions \cup {"none"}, todo : SUBSET Plots]]
           /\ budget \in [calls : Nat, queries : Nat]
           /\ DOMAIN query = Queries

\* The keeper's invariant is about its books and about its control.
LEMMA KeeperParts ==
  /\ KeeperInv <=> (Books /\ Control)
  /\ KeeperInv' <=> (Books' /\ Control')
  <1>1. KeeperInv <=> (Books /\ Control)
    BY DEF KeeperInv, TypeOK, Books, Control
  <1>2. KeeperInv' <=> (Books' /\ Control')
    BY DEF KeeperInv, TypeOK, Books, Control
  <1> QED
    BY <1>1, <1>2

\* The books stay in order when nothing in them changes.
LEMMA BooksSame ==
  ASSUME Books, UNCHANGED <<index, all, state, list, using, paths>>
  PROVE  Books'
  BY DEF Books, StateMaps

\* what a call does to one plot
LEMMA TurnInv ==
  ASSUME KeeperInv, NEW c \in Clients, NEW s \in Plots, NEW action, Turn(c, action, s),
         queue' \in SUBSET Plots, kept' \in SUBSET Plots, held' \in SUBSET (Clients \X Plots)
  PROVE  Control' /\ UNCHANGED <<paths, query>>
  <1>1. /\ call' = [call EXCEPT ![c] = IF call[c].todo = {s} THEN Idle
                                       ELSE [call[c] EXCEPT !.todo = @ \ {s}]]
        /\ UNCHANGED <<svc, plotter, paths, budget, query>>
    BY DEF Turn
  <1>2. Control
    BY KeeperParts
  <1> DEFINE new == IF call[c].todo = {s} THEN Idle ELSE [call[c] EXCEPT !.todo = @ \ {s}]
             Calls == [action : Actions \cup {"none"}, todo : SUBSET Plots]
  <1>3. Idle \in Calls
    BY DEF Idle
  <1>4. [call[c] EXCEPT !.todo = @ \ {s}] \in Calls
    BY <1>2 DEF Control
  <1>5. new \in Calls
    BY <1>3, <1>4
  <1> HIDE DEF new
  <1>6. call' = [call EXCEPT ![c] = new]
    BY <1>1 DEF new
  <1>7. call' \in [Clients -> Calls]
    BY <1>2, <1>5, <1>6 DEF Control
  <1> QED
    BY <1>1, <1>2, <1>7 DEF Control

\* Every action of a call on one plot keeps the keeper's invariant.
LEMMA ClientTurnInv ==
  ASSUME KeeperInv, NEW c \in Clients, NEW s \in Plots,
         \/ ActFails(c, s) \/ PlotWS(c, s) \/ MineWS(c, s) \/ StopWS(c, s)
         \/ NotStill(c, s) \/ RemoveWS(c, s) \/ DeleteWS(c, s)
         \/ DeleteBegins(c, s) \/ DeleteTakes(c, s)
  PROVE  KeeperInv' /\ query' = query
  <1>0. /\ Books /\ Control /\ queue \in SUBSET Plots /\ kept \in SUBSET Plots
        /\ held \in SUBSET (Clients \X Plots)
    BY KeeperParts DEF Control
  <1>d. ASSUME Unqueued \/ Deleted(c, s)
        PROVE  queue' \in SUBSET Plots /\ kept' \in SUBSET Plots /\ held' \in SUBSET (Clients \X Plots)
    BY <1>0, <1>d DEF Unqueued, Deleted
  <1>1. CASE ActFails(c, s)
    <2>1. Control' /\ UNCHANGED <<paths, query>>
      BY <1>0, <1>1, <1>d, TurnInv DEF ActFails
    <2> QED
      BY <1>0, <1>1, <2>1, BooksSame, KeeperParts DEF ActFails
  <1>2. CASE PlotWS(c, s)
    <2>1. Control' /\ UNCHANGED <<paths, query>>
      BY <1>0, <1>2, <1>d, TurnInv DEF PlotWS
    <2> QED
      BY <1>0, <1>2, <2>1, BooksSame, KeeperParts DEF PlotWS
  <1>3. CASE MineWS(c, s)
    <2>1. Control' /\ UNCHANGED <<paths, query>>
      BY <1>0, <1>3, <1>d, TurnInv DEF MineWS
    <2>2. UNCHANGED <<all, list, using>>
      BY <1>3 DEF MineWS
    <2>3. CASE s \in index["Ready"]
      <3>1. ChangeState(s, "Ready", "Mining") /\ "Ready" \in States /\ "Mining" \in States
        BY <1>3, <2>3 DEF MineWS, States
      <3>2. /\ StateMaps' /\ index' \in [States -> SUBSET Plots]
            /\ state' \in [Plots -> States]
        BY <2>2, <2>3, <3>1, ChangeStateInv
      <3> QED
        BY <1>0, <2>1, <2>2, <3>2, KeeperParts DEF Books
    <2>4. CASE s \notin index["Ready"]
      BY <1>0, <1>3, <2>1, <2>2, <2>4, BooksSame, KeeperParts DEF MineWS
    <2> QED
      BY <2>1, <2>3, <2>4
  <1>4. CASE StopWS(c, s)
    <2>1. Control' /\ UNCHANGED <<paths, query>>
      BY <1>0, <1>4, <1>d, TurnInv DEF StopWS
    <2>2. UNCHANGED <<all, list, using>>
      BY <1>4 DEF StopWS
    <2>3. CASE s \in index["Mining"]
      <3>1. ChangeState(s, "Mining", "Ready") /\ "Ready" \in States /\ "Mining" \in States
        BY <1>4, <2>3 DEF StopWS, States
      <3>2. /\ StateMaps' /\ index' \in [States -> SUBSET Plots]
            /\ state' \in [Plots -> States]
        BY <2>2, <2>3, <3>1, ChangeStateInv
      <3> QED
        BY <1>0, <2>1, <2>2, <3>2, KeeperParts DEF Books
    <2>4. CASE s \notin index["Mining"]
      BY <1>0, <1>4, <2>1, <2>2, <2>4, BooksSame, KeeperParts DEF StopWS
    <2> QED
      BY <2>1, <2>3, <2>4
  <1>5. CASE NotStill(c, s)
    <2>1. Control' /\ UNCHANGED <<paths, query>>
      BY <1>0, <1>5, <1>d, TurnInv DEF NotStill
    <2> QED
      BY <1>0, <1>5, <2>1, BooksSame, KeeperParts DEF NotStill
  <1>6. CASE RemoveWS(c, s)
    <2>1. Control' /\ UNCHANGED <<paths, query>>
      BY <1>0, <1>6, <1>d, TurnInv DEF RemoveWS
    <2>2. UNCHANGED <<index, all, state>> /\ using' = using \ {s} /\ list' = list \ {s}
      BY <1>6 DEF RemoveWS, Disuse
    <2> QED
      BY <1>0, <2>1, <2>2, KeeperParts DEF Books, StateMaps
  <1>7. CASE DeleteWS(c, s)
    <2>1. Control' /\ UNCHANGED <<paths, query>>
      BY <1>0, <1>7, <1>d, TurnInv DEF DeleteWS
    <2>2. /\ index' = [index EXCEPT ![state[s]] = @ \ {s}] /\ state' = state
          /\ all' = all \ {s} /\ using' = using \ {s} /\ list' = list \ {s}
      BY <1>7 DEF DeleteWS, Disuse
    <2>3. state[s] \in States /\ index' \in [States -> SUBSET Plots]
      BY <1>0, <2>2 DEF Books
    <2>4. \A st \in States : index'[st] = IF st = state[s] THEN index[st] \ {s} ELSE index[st]
      BY <1>0, <2>2 DEF Books
    <2>5. StateMaps'
      <3> SUFFICES ASSUME NEW t \in Plots, NEW st \in States
                   PROVE  t \in index'[st] <=> (t \in all' /\ state'[t] = st)
        BY DEF StateMaps
      <3>1. t \in index[st] <=> (t \in all /\ state[t] = st)
        BY <1>0 DEF Books, StateMaps
      <3> QED
        BY <2>2, <2>4, <3>1
    <2> QED
      BY <1>0, <2>1, <2>2, <2>3, <2>5, KeeperParts DEF Books
  <1>8. CASE DeleteBegins(c, s)
    <2>1. /\ UNCHANGED <<svc, plotter, index, all, state, list, using, paths, queue, kept, call,
                         budget, query>>
          /\ held' = {<<c, s>>}
      BY <1>8 DEF DeleteBegins
    <2>2. Control'
      BY <1>0, <2>1 DEF Control
    <2> QED
      BY <1>0, <2>1, <2>2, BooksSame, KeeperParts
  <1>9. CASE DeleteTakes(c, s)
    <2>1. /\ UNCHANGED <<svc, plotter, index, all, state, list, using, paths, held, call, budget,
                         query>>
          /\ \E t \in queue : queue' = queue \ {t} /\ kept' = kept \cup ({t} \ {s})
      BY <1>9 DEF DeleteTakes
    <2>2. Control'
      BY <1>0, <2>1 DEF Control
    <2> QED
      BY <1>0, <2>1, <2>2, BooksSame, KeeperParts
  <1> QED
    BY <1>1, <1>2, <1>3, <1>4, <1>5, <1>6, <1>7, <1>8, <1>9

\* Every step of service, plotter and clients keeps the keeper's invariant.
LEMMA KeeperStepInv ==
  ASSUME KeeperInv, KeeperSteps
  PROVE  KeeperInv' /\ query' = query
  <1>0. Books /\ Control
    BY KeeperParts
  <1>1. CASE \/ OnStart \/ OnStop \/ OnStopReturns \/ PlotterBegins
             \/ LooksEmpty \/ LooksQuit \/ PopPanics
    <2>1. UNCHANGED <<keeperVars, call, budget, query>>
      BY <1>1 DEF OnStart, OnStop, OnStopReturns, PlotterBegins, LooksEmpty, LooksQuit, PopPanics
    <2>2. Books'
      BY <1>0, <2>1, BooksSame DEF keeperVars
    <2>3. Control'
      BY <1>0, <1>1, <2>1
         DEF Control, OnStart, OnStop, OnStopReturns, PlotterBegins, LooksEmpty, LooksQuit,
             PopPanics, keeperVars, PlotterPC
    <2> QED
      BY <2>1, <2>2, <2>3, KeeperParts
  <1>2. CASE PopItem
    <2>1. PICK s \in queue : queue' = queue \ {s} /\ plotter' = [pc |-> "popped", cur |-> {s}]
      BY <1>2 DEF PopItem
    <2>2. UNCHANGED <<svc, index, all, state, list, using, paths, held, kept, call, budget, query>>
      BY <1>2 DEF PopItem
    <2>3. Books'
      BY <1>0, <2>2, BooksSame
    <2>4. Control'
      BY <1>0, <2>1, <2>2 DEF Control, PlotterPC
    <2> QED
      BY <2>2, <2>3, <2>4, KeeperParts
  <1>3. CASE PlotSpace
    <2>1. /\ plotter' = [pc |-> "check", cur |-> {}]
          /\ UNCHANGED <<svc, all, list, using, paths, queue, held, kept, call, budget, query>>
      BY <1>3 DEF PlotSpace
    <2>2. Control'
      BY <1>0, <2>1 DEF Control, PlotterPC
    <2>3. PICK s \in plotter.cur : IF s \in index["Ready"] /\ Generate
                                   THEN ChangeState(s, "Ready", "Mining")
                                   ELSE UNCHANGED <<index, state>>
      BY <1>3 DEF PlotSpace
    <2>4. s \in Plots
      BY <1>0 DEF Control
    <2>5. CASE s \in index["Ready"] /\ Generate
      <3>1. ChangeState(s, "Ready", "Mining") /\ "Ready" \in States /\ "Mining" \in States
        BY <2>3, <2>5 DEF States
      <3>2. /\ StateMaps' /\ index' \in [States -> SUBSET Plots]
            /\ state' \in [Plots -> States]
        BY <2>1, <2>4, <2>5, <3>1, ChangeStateInv
      <3> QED
        BY <1>0, <2>1, <2>2, <3>2, KeeperParts DEF Books
    <2>6. CASE ~(s \in index["Ready"] /\ Generate)
      BY <1>0, <2>1, <2>2, <2>3, <2>6, BooksSame, KeeperParts
    <2> QED
      BY <2>5, <2>6
  <1>4. CASE PlotterExits
    <2>1. UNCHANGED <<svc, index, all, state, list, using, paths, held, kept, call, budget, query>>
      BY <1>4 DEF PlotterExits
    <2>2. Books'
      BY <1>0, <2>1, BooksSame
    <2>3. Control'
      BY <1>0, <1>4, <2>1 DEF Control, PlotterExits, PlotterPC
    <2> QED
      BY <2>1, <2>2, <2>3, KeeperParts
  <1>5. ASSUME NEW c \in Clients, ActOnWorkSpace(c) \/ ActOnWorkSpaces(c)
        PROVE  KeeperInv' /\ query' = query
    <2>1. \E plots \in SUBSET Plots, action \in Actions : Act(c, action, plots)
      <3>1. CASE ActOnWorkSpace(c)
        BY <3>1 DEF ActOnWorkSpace
      <3>2. CASE ActOnWorkSpaces(c)
        <4>1. PICK flags \in SUBSET States, action \in Actions : Act(c, action, ByFlags(flags))
          BY <3>2 DEF ActOnWorkSpaces
        <4>2. ByFlags(flags) \in SUBSET Plots
          BY <1>0 DEF Books, ByFlags
        <4> QED
          BY <4>1, <4>2
      <3> QED
        BY <1>5, <3>1, <3>2
    <2>2. PICK plots \in SUBSET Plots, action \in Actions : Act(c, action, plots)
      BY <2>1
    <2>3. /\ budget.calls > 0 /\ budget' = [budget EXCEPT !.calls = @ - 1]
          /\ call' = [call EXCEPT ![c] = [action |-> action, todo |-> plots]]
          /\ UNCHANGED <<svc, plotter, keeperVars, query>>
      BY <2>2 DEF Act
    <2>4. Books' /\ UNCHANGED <<svc, plotter, queue, held, kept, query>>
      BY <1>0, <2>3, BooksSame DEF keeperVars
    <2>5. budget' \in [calls : Nat, queries : Nat]
      BY <1>0, <2>3 DEF Control
    <2>6. call' \in [Clients -> [action : Actions \cup {"none"}, todo : SUBSET Plots]]
      BY <1>0, <2>3 DEF Control
    <2>7. Control'
      BY <1>0, <2>4, <2>5, <2>6 DEF Control
    <2> QED
      BY <2>4, <2>7, KeeperParts
  <1>6. ASSUME NEW c \in Clients, ClientTurn(c)
        PROVE  KeeperInv' /\ query' = query
    BY <1>6, ClientTurnInv DEF ClientTurn
  <1> QED
    BY <1>1, <1>2, <1>3, <1>4, <1>5, <1>6 DEF KeeperSteps, Plotter

-----------------------------------------------------------------------------
(* The theorems.                                                           *)

\* The keeper starts with its books in order and nothing asked.
LEMMA ChiaInit == Init => ChiaInv
  <1> SUFFICES ASSUME Init PROVE ChiaInv
    OBVIOUS
  <1>1. all \in SUBSET Plots
    BY ChiaAssumption DEF Init
  <1>2. TypeOK
    <2>1. Idle \in [action : Actions \cup {"none"}, todo : SUBSET Plots]
      BY DEF Idle
    <2> QED
      BY <1>1, <2>1, ChiaAssumption DEF Init, TypeOK, States, PlotterPC
  <1>3. StateMaps
    BY <1>1 DEF Init, StateMaps, States
  <1>4. KeeperInv
    BY <1>2, <1>3 DEF Init, KeeperInv
  <1>5. \A q \in Queries : QueryInv(query[q])
    BY NoQueryInv DEF Init
  <1>6. query \in Asks
    BY NoQueryInv DEF Init, Asks, QueryInv
  <1> QED
    BY <1>4, <1>5, <1>6 DEF ChiaInv

\* Every step keeps the invariant.
LEMMA ChiaStep == ChiaInv /\ [Next]_vars => ChiaInv'
  <1> SUFFICES ASSUME ChiaInv, [Next]_vars PROVE ChiaInv'
    OBVIOUS
  <1>0. KeeperInv /\ Books /\ Control /\ \A q \in Queries : QueryInv(query[q])
    BY KeeperParts DEF ChiaInv
  <1>1. query \in Asks
    BY DEF ChiaInv
  <1>2. CASE UNCHANGED vars
    <2>1. Books'
      BY <1>0, <1>2, BooksSame DEF vars, keeperVars
    <2>2. Control' /\ query' = query
      BY <1>0, <1>2 DEF vars, keeperVars, Control
    <2> QED
      BY <1>0, <1>1, <2>1, <2>2, KeeperParts DEF ChiaInv
  <1>3. CASE KeeperSteps
    <2>1. KeeperInv' /\ query' = query
      BY <1>0, <1>3, KeeperStepInv
    <2> QED
      BY <1>0, <1>1, <2>1 DEF ChiaInv
  <1>4. ASSUME NEW q \in Queries, Asked(q) \/ QuerySteps(q) PROVE ChiaInv'
    <2>1. PICK new : /\ QueryInv(new) /\ query' = [query EXCEPT ![q] = new]
                     /\ budget' \in [calls : Nat, queries : Nat]
                     /\ UNCHANGED <<svc, plotter, keeperVars, call>>
      <3>1. CASE Asked(q)
        BY <1>0, <3>1, AskInv
      <3>2. CASE QuerySteps(q)
        <4>1. PICK new : Step(q, new) /\ QueryInv(new)
          BY <1>0, <1>1, <3>2, QueryStepInv
        <4> QED
          BY <1>0, <4>1 DEF Step, Control
      <3> QED
        BY <1>4, <3>1, <3>2
    <2>2. \A p \in Queries : query'[p] = IF p = q THEN new ELSE query[p]
      BY <1>1, <2>1 DEF Asks
    <2>3. \A p \in Queries : QueryInv(query'[p])
      BY <1>0, <2>1, <2>2
    <2>4. Books'
      BY <1>0, <2>1, BooksSame DEF keeperVars
    <2>5. Control'
      BY <1>0, <2>1 DEF Control, keeperVars
    <2>6. query' \in Asks
      BY <1>1, <2>1 DEF Asks, QueryInv
    <2> QED
      BY <2>3, <2>4, <2>5, <2>6, KeeperParts DEF ChiaInv
  <1> QED
    BY <1>2, <1>3, <1>4 DEF Next, KeeperSteps, QuerySteps

\* The keeper's books and every query's record are as ChiaInv says in every
\* state, whatever the plots, directories, clients, queries and workers.
THEOREM ChiaInvariant == Spec => []ChiaInv
  BY ChiaInit, ChiaStep, PTL DEF Spec

\* The three views of the v2 keeper (skchia.go) agree after any interleaving of
\* calls, plotter and queries: the maps by state, the list, and what the
\* directories show.
THEOREM ViewsAlwaysAgree == Spec => []ViewsAgree
  <1>1. ChiaInv => ViewsAgree
    <2> SUFFICES ASSUME Books PROVE ViewsAgree
      BY KeeperParts DEF ChiaInv
    <2> DEFINE shown == InfosByDirs
               Files == UNION {Dirs[d] : d \in DOMAIN Dirs}
    <2>1. DOMAIN shown = DOMAIN Dirs /\ \A d \in DOMAIN Dirs : shown[d] = InUse(PathOf(d), using)
      BY DEF Books, InfosByDirs
    <2>2. \A d \in DOMAIN Dirs : /\ shown[d] \in Seq(Plots) /\ Sorted(shown[d])
                                 /\ ToSet(shown[d]) = NewIn(d) \cap using
      <3> SUFFICES ASSUME NEW d \in DOMAIN Dirs
                   PROVE  /\ shown[d] \in Seq(Plots) /\ Sorted(shown[d])
                          /\ ToSet(shown[d]) = NewIn(d) \cap using
        OBVIOUS
      <3>1. PathOf(d) \in Seq(Plots) /\ ToSet(PathOf(d)) = NewIn(d) /\ Sorted(PathOf(d))
        BY PathIsSorted
      <3>2. /\ InUse(PathOf(d), using) \in Seq(Plots) /\ Sorted(InUse(PathOf(d), using))
            /\ ToSet(InUse(PathOf(d), using)) = ToSet(PathOf(d)) \cap using
        BY <3>1, InUseSorted
      <3> QED
        BY <2>1, <3>1, <3>2
    <2>3. list = using /\ using \subseteq Files /\ using \subseteq all
      BY DEF Books
    <2> HIDE DEF shown
    <2>4. UNION {ToSet(shown[d]) : d \in DOMAIN shown} = list
      <3>1. UNION {NewIn(d) : d \in DOMAIN Dirs} = Files
        BY NewInPartition
      <3>2. ASSUME NEW s \in using PROVE \E d \in DOMAIN Dirs : s \in ToSet(shown[d])
        BY <2>2, <2>3, <3>1, <3>2
      <3>3. \A d \in DOMAIN Dirs : ToSet(shown[d]) \subseteq using
        BY <2>2
      <3> QED
        BY <2>1, <2>3, <3>2, <3>3
    <2>5. \A d, e \in DOMAIN shown : d # e => ToSet(shown[d]) \cap ToSet(shown[e]) = {}
      BY <2>1, <2>2, NewInPartition
    <2>6. ASSUME NEW d \in DOMAIN shown, NEW i \in DOMAIN shown[d], NEW j \in DOMAIN shown[d],
                 i < j
          PROVE  shown[d][i] # shown[d][j] /\ Rank[shown[d][i]] >= Rank[shown[d][j]]
      <3>1. shown[d] \in Seq(Plots) /\ Sorted(shown[d])
        BY <2>1, <2>2
      <3>2. i \in 1 .. Len(shown[d]) /\ j \in 1 .. Len(shown[d])
        BY <3>1
      <3> QED
        BY <2>6, <3>1, <3>2 DEF Sorted
    <2> QED
      BY <2>3, <2>4, <2>5, <2>6 DEF ViewsAgree, Books, StateMaps, shown
  <1> QED
    BY <1>1, ChiaInvariant, PTL

\* What a caller of the queries (engine.go) is given: no result twice, none that
\* was not asked for, and all of them when an uncancelled stream ends.
THEOREM QueriesAreComplete == Spec => []Complete
  <1>1. ChiaInv => Complete
    <2> SUFFICES ASSUME \A q \in Queries : QueryInv(query[q]), NEW q \in Queries
                 PROVE  /\ ToSet(query[q].taken) \subseteq Due(query[q])
                        /\ IsInjective(query[q].taken)
                        /\ (query[q].reader = "eof" /\ query[q].ctx = "live")
                             => ToSet(query[q].taken) = Due(query[q])
      BY DEF Complete, ChiaInv, Due
    <2> DEFINE r == query[q]
    <2>1. r \in QueryRecords /\ Passing(r) /\ Closing(r)
      BY DEF QueryInv
    <2> HIDE DEF r
    <2>2. ToSet(r.taken) \subseteq Due(r) /\ IsInjective(r.taken)
      BY <2>1, NothingIn DEF Passing, Handled, QueryRecords
    <2>3. ASSUME r.reader = "eof", r.ctx = "live" PROVE ToSet(r.taken) = Due(r)
      <3>1. r.pc = "done" /\ r.ch = <<>> /\ r.left = <<>>
        BY <2>1, <2>3 DEF Closing
      <3> QED
        BY <2>1, <2>3, <3>1, NothingIn DEF Passing, Handled
    <2> QED
      BY <2>2, <2>3 DEF r
  <1> QED
    BY <1>1, ChiaInvariant, PTL
=============================================================================
