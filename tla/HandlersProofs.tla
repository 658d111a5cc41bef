--------------------------- MODULE HandlersProofs ---------------------------
(***************************************************************************)
(* What the API's handlers answer, for every chain, pool, request and      *)
(* number of spaces: StreamSound of the proofs a question about them       *)
(* streams back, LedgerAnswers of what is put together from a ledger that  *)
(* moves, CapacityKept of the spaces that are put in use.  The sums over   *)
(* finite sets that the last needs come first.                             *)
(***************************************************************************)
EXTENDS ProofStream, Ledger, Configure, FiniteSetTheorems, NaturalsInduction,
        WellFoundedInduction, TLAPS

-----------------------------------------------------------------------------
(* Sums *)

\* A set of numbers that is not empty has a least element.
LEMMA Least ==
  ASSUME NEW T \in SUBSET Nat, T # {}
  PROVE  \E n \in T : \A k \in T : n <= k
  <1> DEFINE R == OpToRel(<, Nat)
  <1>1. PICK n \in T : \A k \in T : ~(<<k, n>> \in R)
    <2>1. IsWellFoundedOn(R, Nat)
      BY NatLessThanWellFounded
    <2> QED
      BY <2>1, WFMin
  <1>2. \A k \in T : ~(k < n)
    BY <1>1 DEF OpToRel
  <1> QED
    BY <1>2

Some(s) == CHOOSE x \in s : TRUE

\* g adds F up over every part of S, as MapThenSumSet does
Adds(F, S, g) ==
    g = [s \in SUBSET S |-> IF s = {} THEN 0 ELSE F[Some(s)] + g[s \ {Some(s)}]]

\* the same for the parts of at most n elements
AddsUpTo(F, S, g, n) ==
    g = [s \in SUBSET S |-> IF s = {} \/ Cardinality(s) > n THEN 0
                            ELSE F[Some(s)] + g[s \ {Some(s)}]]

\* A part without one of its elements is smaller.
LEMMA Smaller ==
  ASSUME NEW S, IsFiniteSet(S), NEW s \in SUBSET S, s # {}
  PROVE  /\ Some(s) \in s
         /\ s \ {Some(s)} \in SUBSET S
         /\ Cardinality(s) \in Nat /\ Cardinality(s \ {Some(s)}) \in Nat
         /\ Cardinality(s) = Cardinality(s \ {Some(s)}) + 1
  <1>1. Some(s) \in s
    BY DEF Some
  <1>2. IsFiniteSet(s) /\ IsFiniteSet(s \ {Some(s)})
    BY FS_Subset
  <1>3. Cardinality(s) \in Nat /\ Cardinality(s \ {Some(s)}) \in Nat
    BY <1>2, FS_CardinalityType
  <1>4. Cardinality(s \ {Some(s)}) = Cardinality(s) - 1
    BY <1>1, <1>2, FS_RemoveElement
  <1> QED
    BY <1>1, <1>3, <1>4

\* What adds up the parts of n elements can be continued to those of n + 1.
LEMMA AddsMore ==
  ASSUME NEW S, IsFiniteSet(S), NEW F, NEW n \in Nat, NEW g, AddsUpTo(F, S, g, n)
  PROVE  \E h : AddsUpTo(F, S, h, n + 1)
  <1> DEFINE h == [s \in SUBSET S |-> IF s = {} \/ Cardinality(s) > n + 1 THEN 0
                                      ELSE F[Some(s)] + g[s \ {Some(s)}]]
  <1>1. ASSUME NEW s \in SUBSET S, s # {}, ~(Cardinality(s) > n + 1)
        PROVE  h[s \ {Some(s)}] = g[s \ {Some(s)}]
    <2> DEFINE t == s \ {Some(s)}
    <2>1. t \in SUBSET S /\ Cardinality(t) \in Nat /\ ~(Cardinality(t) > n) /\ ~(Cardinality(t) > n + 1)
      BY <1>1, Smaller
    <2> HIDE DEF t
    <2>2. g[t] = IF t = {} THEN 0 ELSE F[Some(t)] + g[t \ {Some(t)}]
      BY <2>1 DEF AddsUpTo
    <2>3. h[t] = IF t = {} THEN 0 ELSE F[Some(t)] + g[t \ {Some(t)}]
      BY <2>1
    <2> QED
      BY <2>2, <2>3 DEF t
  <1>2. h = [s \in SUBSET S |-> IF s = {} \/ Cardinality(s) > n + 1 THEN 0
                                ELSE F[Some(s)] + h[s \ {Some(s)}]]
    BY <1>1
  <1> HIDE DEF h
  <1>3. AddsUpTo(F, S, h, n + 1)
    BY <1>2 DEF AddsUpTo
  <1> QED
    BY <1>3

\* Over a finite set there is a function that adds up, so that MapThenSumSet has one to choose.
LEMMA AddsExists ==
  ASSUME NEW S, IsFiniteSet(S), NEW F
  PROVE  \E g : Adds(F, S, g)
  <1> DEFINE T == {n \in Nat : ~\E g : AddsUpTo(F, S, g, n)}
  <1>1. T = {}
    <2> SUFFICES ASSUME T # {} PROVE FALSE
      OBVIOUS
    <2>1. PICK n \in T : \A k \in T : n <= k
      BY Least
    <2>2. n # 0
      <3> DEFINE z == [s \in SUBSET S |-> 0]
      <3>1. ASSUME NEW s \in SUBSET S, s # {} PROVE Cardinality(s) > 0
        <4>1. /\ Cardinality(s) \in Nat /\ Cardinality(s \ {Some(s)}) \in Nat
              /\ Cardinality(s) = Cardinality(s \ {Some(s)}) + 1
          BY <3>1, Smaller
        <4> QED
          BY <4>1
      <3>2. z = [s \in SUBSET S |-> IF s = {} \/ Cardinality(s) > 0 THEN 0
                                    ELSE F[Some(s)] + z[s \ {Some(s)}]]
        BY <3>1
      <3> HIDE DEF z
      <3>3. AddsUpTo(F, S, z, 0)
        BY <3>2 DEF AddsUpTo
      <3> QED
        BY <3>3
    <2>3. n - 1 \in Nat /\ n - 1 \notin T /\ (n - 1) + 1 = n
      BY <2>1, <2>2
    <2>4. PICK g : AddsUpTo(F, S, g, n - 1)
      BY <2>3
    <2>5. \E h : AddsUpTo(F, S, h, (n - 1) + 1)
      BY <2>3, <2>4, AddsMore
    <2> QED
      BY <2>1, <2>3, <2>5
  <1>2. Cardinality(S) \in Nat
    BY FS_CardinalityType
  <1>3. PICK g : AddsUpTo(F, S, g, Cardinality(S))
    BY <1>1, <1>2
  <1>4. ASSUME NEW s \in SUBSET S
        PROVE  ~(Cardinality(s) > Cardinality(S))
    <2>1. Cardinality(s) <= Cardinality(S) /\ Cardinality(s) \in Nat
      BY FS_Subset, FS_CardinalityType
    <2> QED
      BY <1>2, <2>1
  <1>5. g = [s \in SUBSET S |-> IF s = {} THEN 0 ELSE F[Some(s)] + g[s \ {Some(s)}]]
    BY <1>3, <1>4 DEF AddsUpTo
  <1> QED
    BY <1>5 DEF Adds

\* A sum of integers is one.
LEMMA AddsInt ==
  ASSUME NEW S, IsFiniteSet(S), NEW F, \A x \in S : F[x] \in Int, NEW g, Adds(F, S, g)
  PROVE  \A s \in SUBSET S : g[s] \in Int
  <1> DEFINE T == {n \in Nat : \E s \in SUBSET S : Cardinality(s) = n /\ g[s] \notin Int}
  <1>1. T = {}
    <2> SUFFICES ASSUME T # {} PROVE FALSE
      OBVIOUS
    <2>1. PICK n \in T : \A k \in T : n <= k
      BY Least
    <2>2. PICK s \in SUBSET S : Cardinality(s) = n /\ g[s] \notin Int
      BY <2>1
    <2>3. g[s] = IF s = {} THEN 0 ELSE F[Some(s)] + g[s \ {Some(s)}]
      BY DEF Adds
    <2>4. s # {}
      BY <2>2, <2>3
    <2> DEFINE t == s \ {Some(s)}
    <2>5. Some(s) \in S /\ t \in SUBSET S /\ Cardinality(t) \in Nat /\ Cardinality(t) < n
      BY <2>2, <2>4, Smaller
    <2>6. g[t] \in Int
      <3> HIDE DEF t
      <3> QED BY <2>1, <2>5
    <2>7. F[Some(s)] \in Int
      BY <2>5
    <2> QED
      BY <2>2, <2>3, <2>4, <2>6, <2>7
  <1>2. ASSUME NEW s \in SUBSET S PROVE Cardinality(s) \in Nat
    BY FS_Subset, FS_CardinalityType
  <1> QED
    BY <1>1, <1>2


\* What two such functions say of a part depends on its elements only.
LEMMA AddsSame ==
  ASSUME NEW S, IsFiniteSet(S), NEW F, NEW g, Adds(F, S, g),
         NEW R, IsFiniteSet(R), NEW G, NEW h, Adds(G, R, h)
  PROVE  \A s \in SUBSET S : s \in SUBSET R /\ (\A x \in s : F[x] = G[x]) => g[s] = h[s]
  <1> DEFINE Same(s) == s \in SUBSET R /\ (\A x \in s : F[x] = G[x])
             T == {n \in Nat : \E s \in SUBSET S : Cardinality(s) = n /\ Same(s) /\ g[s] # h[s]}
  <1>1. T = {}
    <2> SUFFICES ASSUME T # {} PROVE FALSE
      OBVIOUS
    <2>1. PICK n \in T : \A k \in T : n <= k
      BY Least
    <2>2. PICK s \in SUBSET S : Cardinality(s) = n /\ Same(s) /\ g[s] # h[s]
      BY <2>1
    <2>3. /\ g[s] = IF s = {} THEN 0 ELSE F[Some(s)] + g[s \ {Some(s)}]
          /\ h[s] = IF s = {} THEN 0 ELSE G[Some(s)] + h[s \ {Some(s)}]
      BY <2>2 DEF Adds
    <2>4. s # {}
      BY <2>2, <2>3
    <2> DEFINE t == s \ {Some(s)}
    <2>5. Some(s) \in s /\ t \in SUBSET S /\ Cardinality(t) \in Nat /\ Cardinality(t) < n
      BY <2>2, <2>4, Smaller
    <2>6. Same(t)
      BY <2>2
    <2>7. g[t] = h[t]
      <3> HIDE DEF t, Same
      <3> QED
        BY <2>1, <2>5, <2>6
    <2> QED
      BY <2>2, <2>3, <2>4, <2>5, <2>7
  <1>2. ASSUME NEW s \in SUBSET S PROVE Cardinality(s) \in Nat
    BY FS_Subset, FS_CardinalityType
  <1> QED
    BY <1>1, <1>2

\* Any element may be taken out of a sum.
LEMMA AddsAny ==
  ASSUME NEW S, IsFiniteSet(S), NEW F, \A x \in S : F[x] \in Int, NEW g, Adds(F, S, g)
  PROVE  \A s \in SUBSET S : \A x \in s : g[s] = F[x] + g[s \ {x}]
  <1> DEFINE AnyOf(s) == \A x \in s : g[s] = F[x] + g[s \ {x}]
             T == {n \in Nat : \E s \in SUBSET S : Cardinality(s) = n /\ ~AnyOf(s)}
  <1>0. \A s \in SUBSET S : g[s] \in Int
    BY AddsInt
  <1>1. T = {}
    <2> SUFFICES ASSUME T # {} PROVE FALSE
      OBVIOUS
    <2>1. PICK n \in T : \A k \in T : n <= k
      BY Least
    <2>2. PICK s \in SUBSET S : Cardinality(s) = n /\ ~AnyOf(s)
      BY <2>1
    <2>3. PICK x \in s : g[s] # F[x] + g[s \ {x}]
      BY <2>2
    <2>4. s # {} /\ g[s] = F[Some(s)] + g[s \ {Some(s)}]
      BY <2>3 DEF Adds
    <2> DEFINE y == Some(s)
    <2>5. y \in s /\ y # x
      BY <2>3, <2>4, Smaller
    <2>6. g[s] = F[y] + g[s \ {y}]
      BY <2>4
    <2> HIDE DEF y
    <2>7. ASSUME NEW z \in s PROVE AnyOf(s \ {z})
      <3> DEFINE t == s \ {z}
      <3>1. IsFiniteSet(s)
        BY FS_Subset
      <3>2. Cardinality(t) = n - 1 /\ Cardinality(s) \in Nat
        BY <2>2, <3>1, FS_RemoveElement, FS_CardinalityType
      <3>3. IsFiniteSet(t) /\ Cardinality(t) \in Nat
        BY <3>1, FS_Subset, FS_CardinalityType
      <3>4. t \in SUBSET S /\ Cardinality(t) < n
        BY <2>2, <3>2, <3>3
      <3> HIDE DEF t, AnyOf
      <3>5. AnyOf(t)
        BY <2>1, <3>3, <3>4
      <3> QED
        BY <3>5 DEF t
    <2>8. g[s \ {y}] = F[x] + g[(s \ {y}) \ {x}]
      BY <2>3, <2>5, <2>7
    <2>9. g[s \ {x}] = F[y] + g[(s \ {x}) \ {y}]
      BY <2>3, <2>5, <2>7
    <2>10. (s \ {x}) \ {y} = (s \ {y}) \ {x}
      OBVIOUS
    <2> DEFINE r == g[(s \ {y}) \ {x}]
    <2>11. r \in Int /\ F[x] \in Int /\ F[y] \in Int
      BY <1>0, <2>2, <2>3, <2>5
    <2>12. g[s] = F[y] + (F[x] + r) /\ g[s \ {x}] = F[y] + r
      BY <2>6, <2>8, <2>9, <2>10
    <2> HIDE DEF r
    <2>13. F[y] + (F[x] + r) = F[x] + (F[y] + r)
      BY <2>11
    <2> QED
      BY <2>3, <2>12, <2>13
  <1>2. ASSUME NEW s \in SUBSET S PROVE Cardinality(s) \in Nat
    BY FS_Subset, FS_CardinalityType
  <1> QED
    BY <1>1, <1>2

\* the sum of F over S
SumOver(F, S) == (CHOOSE g : Adds(F, S, g))[S]

\* Its terms decide a sum.
LEMMA SumSame ==
  ASSUME NEW S, IsFiniteSet(S), NEW F, NEW G, \A x \in S : F[x] = G[x]
  PROVE  SumOver(F, S) = SumOver(G, S)
  <1> DEFINE g == CHOOSE f : Adds(F, S, f)
             h == CHOOSE f : Adds(G, S, f)
  <1>1. Adds(F, S, g)
    BY AddsExists
  <1>2. Adds(G, S, h)
    BY AddsExists
  <1>3. SumOver(F, S) = g[S] /\ SumOver(G, S) = h[S]
    BY DEF SumOver
  <1> HIDE DEF g, h
  <1>4. g[S] = h[S]
    BY <1>1, <1>2, AddsSame
  <1> QED
    BY <1>3, <1>4

\* A sum of integers: none, and one more.
LEMMA SumStep ==
  ASSUME NEW S, IsFiniteSet(S), NEW F, \A x \in S : F[x] \in Int
  PROVE  /\ SumOver(F, S) \in Int
         /\ S = {} => SumOver(F, S) = 0
         /\ \A x \in S : SumOver(F, S) = F[x] + SumOver(F, S \ {x})
  <1> DEFINE g == CHOOSE f : Adds(F, S, f)
  <1>1. Adds(F, S, g)
    BY AddsExists
  <1>2. SumOver(F, S) = g[S]
    BY DEF SumOver
  <1> HIDE DEF g
  <1>3. g[S] \in Int
    BY <1>1, AddsInt
  <1>4. S = {} => g[S] = 0
    BY <1>1 DEF Adds
  <1>5. ASSUME NEW x \in S PROVE g[S] = F[x] + SumOver(F, S \ {x})
    <2> DEFINE t == S \ {x}
               h == CHOOSE f : Adds(F, t, f)
    <2>1. IsFiniteSet(t) /\ t \in SUBSET S
      BY FS_Subset
    <2>2. Adds(F, t, h)
      BY <2>1, AddsExists
    <2>3. SumOver(F, t) = h[t]
      BY DEF SumOver
    <2> HIDE DEF h
    <2>4. g[t] = h[t]
      <3> HIDE DEF t
      <3> QED
        BY <1>1, <2>1, <2>2, AddsSame
    <2>5. g[S] = F[x] + g[t]
      BY <1>1, AddsAny
    <2> QED
      BY <2>3, <2>4, <2>5
  <1> QED
    BY <1>2, <1>3, <1>4, <1>5

-----------------------------------------------------------------------------
(* The stream of proofs *)

Streams ==
    [items : SUBSET ProofSpaces, left : SUBSET ProofSpaces, refused : BOOLEAN,
     proofs : SUBSET ProofSpaces, pc : {"gather", "write", "close", "done"},
     lock : {"none", "writer"}, ch : Seq(ProofSpaces), closed : BOOLEAN,
     ctx : {"live", "done", "closed"}, read : SUBSET ProofSpaces, eof : BOOLEAN]

\* what the channel holds
Buffered == {stream.ch[i] : i \in 1 .. Len(stream.ch)}

\* what is still to be sent
Ahead == stream.left \cup stream.proofs

\* A space is somewhere between the worker pool and the reader, unless it was
\* refused; the gathering is over before the first Write.
NoneLost ==
    /\ Ahead \subseteq stream.items
    /\ stream.left \cap stream.proofs = {}
    /\ stream.pc # "gather" => stream.left = {}
    /\ stream.refused \/ stream.items = Ahead \cup Buffered \cup stream.read

\* What the channel holds and what is still to come fit into it together.
RoomForAll == Len(stream.ch) + Cardinality(Ahead) <= Cardinality(stream.items)

\* Who closes the stream, and what the writer has done by then.
ClosedRightly ==
    /\ stream.lock = "writer" => stream.pc = "write" /\ stream.proofs # {}
    /\ stream.closed => stream.pc = "done" \/ stream.ctx = "closed"
    /\ stream.pc \in {"close", "done"} /\ stream.ctx # "closed" => stream.proofs = {}
    /\ stream.eof => stream.closed /\ stream.ch = <<>>

StreamInv == stream \in Streams /\ NoneLost /\ RoomForAll /\ ClosedRightly

-----------------------------------------------------------------------------
\* A new stream has room for all its spaces.
LEMMA InitStreamInv == StreamInit(SUBSET ProofSpaces) => StreamInv
  <1> SUFFICES ASSUME NEW s \in SUBSET ProofSpaces,
                      stream = [NoStream EXCEPT !.items = s, !.left = s]
               PROVE  StreamInv
    BY DEF StreamInit
  <1>0. NoStream \in Streams
    BY DEF Streams, NoStream
  <1>1. stream \in Streams
    BY <1>0 DEF Streams
  <1>2. /\ stream.items = s /\ stream.left = s /\ stream.proofs = {} /\ stream.read = {}
        /\ stream.pc = "gather" /\ stream.lock = "none" /\ stream.ch = <<>>
        /\ stream.closed = FALSE /\ stream.eof = FALSE
    BY DEF NoStream
  <1>3. Cardinality(s) \in Nat
    BY ProofSpacesAssumption, FS_Subset, FS_CardinalityType
  <1>4. Ahead = s /\ Buffered = {} /\ Len(stream.ch) = 0
    BY <1>2 DEF Ahead, Buffered
  <1>5. NoneLost /\ ClosedRightly
    BY <1>2, <1>4 DEF NoneLost, ClosedRightly
  <1>6. RoomForAll
    BY <1>2, <1>3, <1>4 DEF RoomForAll
  <1> QED
    BY <1>1, <1>5, <1>6 DEF StreamInv

\* every set of spaces can be counted
LEMMA Counted ==
  ASSUME NEW S \in SUBSET ProofSpaces
  PROVE  /\ IsFiniteSet(S) /\ Cardinality(S) \in Nat
         /\ \A x \in S : Cardinality(S \ {x}) = Cardinality(S) - 1
         /\ \A T \in SUBSET S : Cardinality(T) <= Cardinality(S)
  <1>1. IsFiniteSet(S)
    BY ProofSpacesAssumption, FS_Subset
  <1> QED
    BY <1>1, FS_CardinalityType, FS_RemoveElement, FS_Subset

\* a step that moves nothing but the stream's status
LEMMA StatusStep ==
  ASSUME StreamInv, stream' \in Streams,
         stream'.items = stream.items, stream'.left = stream.left,
         stream'.refused = stream.refused, stream'.proofs = stream.proofs,
         stream'.ch = stream.ch, stream'.read = stream.read,
         stream'.pc # "gather" => stream.left = {}
  PROVE  NoneLost' /\ RoomForAll'
  BY DEF StreamInv, NoneLost, RoomForAll, Ahead, Buffered

\* Every step of workers, writer, context and reader keeps the invariant.
LEMMA NextStreamInv == StreamInv /\ [StreamNext]_stream => StreamInv'
  <1> SUFFICES ASSUME StreamInv, [StreamNext]_stream PROVE StreamInv'
    OBVIOUS
  <1>t. stream \in Streams
    BY DEF StreamInv
  <1>n. /\ Cardinality(stream.items) \in Nat /\ Cardinality(Ahead) \in Nat
        /\ Len(stream.ch) \in Nat
    <2>1. Ahead \in SUBSET ProofSpaces /\ stream.items \in SUBSET ProofSpaces
          /\ stream.ch \in Seq(ProofSpaces)
      BY <1>t DEF Streams, Ahead
    <2> QED
      BY <2>1, Counted
  <1>1. ASSUME NEW s \in ProofSpaces, Answer(s) PROVE StreamInv'
    <2>1. stream' \in Streams
      BY <1>t, <1>1 DEF Answer, Streams
    <2>2. /\ stream'.left = stream.left \ {s} /\ stream'.proofs = stream.proofs \cup {s}
          /\ stream'.items = stream.items /\ stream'.ch = stream.ch
          /\ stream'.read = stream.read /\ stream'.refused = stream.refused
          /\ stream'.pc = stream.pc /\ stream'.lock = stream.lock
          /\ stream'.closed = stream.closed /\ stream'.ctx = stream.ctx
          /\ stream'.eof = stream.eof
      BY <1>t, <1>1 DEF Answer, Streams
    <2>3. Ahead' = Ahead /\ Buffered' = Buffered
      BY <1>1, <2>2 DEF Ahead, Buffered, Answer
    <2>4. NoneLost' /\ RoomForAll'
      BY <1>1, <2>2, <2>3 DEF NoneLost, RoomForAll, StreamInv, Answer
    <2>5. ClosedRightly'
      BY <1>1, <2>2 DEF ClosedRightly, StreamInv, Answer
    <2> QED
      BY <2>1, <2>4, <2>5 DEF StreamInv
  <1>2. ASSUME NEW s \in ProofSpaces, Refuse(s) PROVE StreamInv'
    <2>1. stream' \in Streams
      BY <1>t, <1>2 DEF Refuse, Streams
    <2>2. /\ stream'.left = stream.left \ {s} /\ stream'.proofs = stream.proofs
          /\ stream'.items = stream.items /\ stream'.ch = stream.ch
          /\ stream'.read = stream.read /\ stream'.refused = TRUE
          /\ stream'.pc = stream.pc /\ stream'.lock = stream.lock
          /\ stream'.closed = stream.closed /\ stream'.ctx = stream.ctx
          /\ stream'.eof = stream.eof
      BY <1>t, <1>2 DEF Refuse, Streams
    <2>3. Ahead' = Ahead \ {s}
      BY <1>2, <2>2 DEF Ahead, Refuse, StreamInv, NoneLost
    <2>4. NoneLost'
      BY <1>2, <2>2, <2>3 DEF NoneLost, StreamInv, Refuse
    <2>5. RoomForAll'
      <3>1. Cardinality(Ahead') <= Cardinality(Ahead) /\ Cardinality(Ahead') \in Nat
        BY <1>t, <2>3, Counted DEF Streams, Ahead
      <3> QED
        BY <1>n, <2>2, <3>1 DEF RoomForAll, StreamInv
    <2>6. ClosedRightly'
      BY <2>2 DEF ClosedRightly, StreamInv
    <2> QED
      BY <2>1, <2>4, <2>5, <2>6 DEF StreamInv
  <1>3. CASE AllGathered
    <2>1. stream' \in Streams
      BY <1>t, <1>3 DEF AllGathered, Streams
    <2>2. NoneLost' /\ RoomForAll'
      BY <1>t, <1>3, <2>1, StatusStep DEF AllGathered, Streams
    <2>3. ClosedRightly'
      BY <1>t, <1>3 DEF AllGathered, Streams, ClosedRightly, StreamInv
    <2> QED
      BY <2>1, <2>2, <2>3 DEF StreamInv
  <1>4. CASE WriterLocks
    <2>1. stream' \in Streams
      BY <1>t, <1>4 DEF WriterLocks, Locks, Streams
    <2>2. NoneLost' /\ RoomForAll'
      BY <1>t, <1>4, <2>1, StatusStep DEF WriterLocks, Locks, Streams, StreamInv, NoneLost
    <2>3. ClosedRightly'
      BY <1>t, <1>4 DEF WriterLocks, Locks, Streams, ClosedRightly, StreamInv
    <2> QED
      BY <2>1, <2>2, <2>3 DEF StreamInv
  <1>5. CASE WriteProof
    <2>1. CASE stream.closed
      <3>1. stream' = [stream EXCEPT !.lock = "none", !.pc = "close"]
        BY <1>5, <2>1 DEF WriteProof
      <3>2. stream' \in Streams
        BY <1>t, <3>1 DEF Streams
      <3>3. stream.pc = "write" /\ stream.ctx = "closed"
        BY <1>5, <2>1 DEF WriteProof, StreamInv, ClosedRightly
      <3>4. NoneLost' /\ RoomForAll'
        BY <1>t, <3>1, <3>2, <3>3, StatusStep DEF Streams, StreamInv, NoneLost
      <3>5. ClosedRightly'
        BY <1>t, <3>1, <3>3 DEF Streams, ClosedRightly, StreamInv
      <3> QED
        BY <3>2, <3>4, <3>5 DEF StreamInv
    <2>2. CASE ~stream.closed
      <3>1. PICK s \in stream.proofs :
              stream' = [stream EXCEPT !.lock = "none", !.ch = Append(@, s),
                                       !.proofs = @ \ {s}]
        BY <1>5, <2>2 DEF WriteProof
      <3>s. s \in ProofSpaces
        BY <1>t, <3>1 DEF Streams
      <3>2. stream' \in Streams
        <4>1. Append(stream.ch, s) \in Seq(ProofSpaces)
          BY <1>t, <3>s DEF Streams
        <4> QED
          BY <1>t, <3>1, <4>1 DEF Streams
      <3>3. /\ stream'.left = stream.left /\ stream'.proofs = stream.proofs \ {s}
            /\ stream'.items = stream.items /\ stream'.ch = Append(stream.ch, s)
            /\ stream'.read = stream.read /\ stream'.refused = stream.refused
            /\ stream'.pc = stream.pc /\ stream'.lock = "none"
            /\ stream'.closed = stream.closed /\ stream'.ctx = stream.ctx
            /\ stream'.eof = stream.eof
        BY <1>t, <3>1 DEF Streams
      <3>4. Ahead' = Ahead \ {s} /\ s \in Ahead
        BY <3>1, <3>3 DEF Ahead, StreamInv, NoneLost
      <3>5. Buffered' = Buffered \cup {s}
        BY <1>t, <3>3, <3>s DEF Buffered, Streams
      <3>6. NoneLost'
        BY <3>3, <3>4, <3>5 DEF NoneLost, StreamInv
      <3>7. RoomForAll'
        <4>1. Cardinality(Ahead') = Cardinality(Ahead) - 1
          BY <1>t, <3>4, Counted DEF Streams, Ahead
        <4>2. Len(stream'.ch) = Len(stream.ch) + 1
          BY <1>t, <3>3, <3>s DEF Streams
        <4> QED
          BY <1>n, <3>3, <4>1, <4>2 DEF RoomForAll, StreamInv
      <3>8. ClosedRightly'
        BY <2>2, <3>3 DEF ClosedRightly, StreamInv
      <3> QED
        BY <3>2, <3>6, <3>7, <3>8 DEF StreamInv
    <2> QED
      BY <2>1, <2>2
  <1>6. CASE CloseStream
    <2>1. stream' \in Streams
      BY <1>t, <1>6 DEF CloseStream, Streams
    <2>2. NoneLost' /\ RoomForAll'
      BY <1>t, <1>6, <2>1, StatusStep DEF CloseStream, Streams, StreamInv, NoneLost
    <2>3. ClosedRightly'
      BY <1>t, <1>6 DEF CloseStream, Streams, ClosedRightly, StreamInv
    <2> QED
      BY <2>1, <2>2, <2>3 DEF StreamInv
  <1>7. CASE CancelStream
    <2>1. stream' \in Streams
      BY <1>t, <1>7 DEF CancelStream, Streams
    <2>2. NoneLost' /\ RoomForAll'
      BY <1>t, <1>7, <2>1, StatusStep DEF CancelStream, Streams, StreamInv, NoneLost
    <2>3. ClosedRightly'
      BY <1>t, <1>7 DEF CancelStream, Streams, ClosedRightly, StreamInv
    <2> QED
      BY <2>1, <2>2, <2>3 DEF StreamInv
  <1>8. CASE ReadProof
    <2>1. CASE stream.ch # <<>>
      <3>1. stream' = [stream EXCEPT !.read = @ \cup {Head(stream.ch)}, !.ch = Tail(@)]
        BY <1>8, <2>1 DEF ReadProof
      <3>c. stream.ch \in Seq(ProofSpaces)
        BY <1>t DEF Streams
      <3>2. stream' \in Streams
        <4>1. Tail(stream.ch) \in Seq(ProofSpaces) /\ Head(stream.ch) \in ProofSpaces
          BY <2>1, <3>c
        <4> QED
          BY <1>t, <3>1, <4>1 DEF Streams
      <3>3. /\ stream'.left = stream.left /\ stream'.proofs = stream.proofs
            /\ stream'.items = stream.items /\ stream'.ch = Tail(stream.ch)
            /\ stream'.read = stream.read \cup {Head(stream.ch)}
            /\ stream'.refused = stream.refused
            /\ stream'.pc = stream.pc /\ stream'.lock = stream.lock
            /\ stream'.closed = stream.closed /\ stream'.ctx = stream.ctx
            /\ stream'.eof = stream.eof
        BY <1>t, <3>1 DEF Streams
      <3>4. Ahead' = Ahead
        BY <3>3 DEF Ahead
      <3>5. Buffered = Buffered' \cup {Head(stream.ch)}
            /\ Len(stream'.ch) \in Nat /\ Len(stream'.ch) <= Len(stream.ch)
        <4> DEFINE c == stream.ch
                   n == Len(c)
        <4>1. /\ n \in Nat /\ n >= 1 /\ Len(Tail(c)) = n - 1 /\ Head(c) = c[1]
              /\ \A i \in 1 .. n - 1 : Tail(c)[i] = c[i + 1]
          BY <2>1, <3>c
        <4>2. \A i \in 1 .. n : i = 1 \/ (i - 1 \in 1 .. n - 1 /\ c[i] = Tail(c)[i - 1])
          BY <4>1
        <4>3. \A i \in 1 .. n - 1 : i + 1 \in 1 .. n /\ Tail(c)[i] = c[i + 1]
          BY <4>1
        <4>4. Buffered' = {Tail(c)[i] : i \in 1 .. n - 1}
          BY <3>3, <4>1 DEF Buffered
        <4>5. Buffered = {c[i] : i \in 1 .. n}
          BY DEF Buffered
        <4> HIDE DEF c, n
        <4>6. {c[i] : i \in 1 .. n} = {Tail(c)[i] : i \in 1 .. n - 1} \cup {Head(c)}
          <5> DEFINE A == {c[i] : i \in 1 .. n}
                     B == {Tail(c)[i] : i \in 1 .. n - 1}
          <5>1. ASSUME NEW i \in 1 .. n PROVE c[i] \in B \cup {Head(c)}
            <6>1. CASE i = 1
              BY <4>1, <6>1
            <6>2. CASE i # 1
              <7>1. i - 1 \in 1 .. n - 1 /\ c[i] = Tail(c)[i - 1]
                BY <4>2, <6>2
              <7> QED
                BY <7>1
            <6> QED
              BY <6>1, <6>2
          <5>2. ASSUME NEW i \in 1 .. n - 1 PROVE Tail(c)[i] \in A
            BY <4>3
          <5>3. 1 \in 1 .. n /\ Head(c) = c[1]
            BY <4>1
          <5>4. Head(c) \in A
            BY <5>3
          <5> QED
            BY <5>1, <5>2, <5>4
        <4>7. Buffered = Buffered' \cup {Head(c)}
          BY <4>4, <4>5, <4>6
        <4>8. n - 1 \in Nat /\ n - 1 <= n
          BY <4>1
        <4> QED
          BY <3>3, <4>1, <4>7, <4>8 DEF c, n
      <3>6. NoneLost'
        BY <3>3, <3>4, <3>5 DEF NoneLost, StreamInv
      <3>7. RoomForAll'
        BY <1>n, <3>3, <3>4, <3>5 DEF RoomForAll, StreamInv
      <3>8. ClosedRightly'
        BY <1>8, <3>3 DEF ReadProof, ClosedRightly, StreamInv
      <3> QED
        BY <3>2, <3>6, <3>7, <3>8 DEF StreamInv
    <2>2. CASE stream.ch = <<>>
      <3>1. stream.closed /\ stream' = [stream EXCEPT !.eof = TRUE]
        BY <1>8, <2>2 DEF ReadProof
      <3>2. stream' \in Streams
        BY <1>t, <3>1 DEF Streams
      <3>3. NoneLost' /\ RoomForAll'
        BY <1>t, <3>1, <3>2, StatusStep DEF Streams, StreamInv, NoneLost
      <3>4. ClosedRightly'
        BY <1>t, <2>2, <3>1 DEF Streams, ClosedRightly, StreamInv
      <3> QED
        BY <3>2, <3>3, <3>4 DEF StreamInv
    <2> QED
      BY <2>1, <2>2
  <1>9. CASE UNCHANGED stream
    BY <1>9 DEF StreamInv, NoneLost, RoomForAll, ClosedRightly, Ahead, Buffered
  <1> QED
    BY <1>1, <1>2, <1>3, <1>4, <1>5, <1>6, <1>7, <1>8, <1>9 DEF StreamNext

-----------------------------------------------------------------------------
\* StreamInv, the inductive invariant: no space is lost between the worker
\* pool and the reader, the channel has room for all that is still to be sent,
\* and the stream is closed only after the writer is done or by its context.
THEOREM StreamInvariant == StreamSpec => []StreamInv
  BY InitStreamInv, NextStreamInv, PTL DEF StreamSpec

\* For any set of spaces, whatever the interleaving of workers, writer, closer
\* and reader: a stream that ends without being cancelled is complete, and
\* ProofRW.Write never waits for a reader while it holds the mutex.
THEOREM StreamIsSound == StreamSpec => []StreamSound
  <1>1. StreamInv => StreamSound
    <2> SUFFICES ASSUME StreamInv PROVE StreamSound
      OBVIOUS
    <2>1. WholeStream
      <3> SUFFICES ASSUME stream.eof, stream.ctx = "live", ~stream.refused
                   PROVE  stream.read = stream.items
        BY DEF WholeStream
      <3>1. stream.pc = "done" /\ stream.proofs = {} /\ stream.ch = <<>>
        BY DEF StreamInv, ClosedRightly
      <3>2. stream.left = {} /\ Buffered = {}
        BY <3>1 DEF StreamInv, NoneLost, Buffered
      <3> QED
        BY <3>1, <3>2 DEF StreamInv, NoneLost, Ahead
    <2>2. WriteHasRoom
      <3> SUFFICES ASSUME stream.lock = "writer"
                   PROVE  Len(stream.ch) < Cardinality(stream.items)
        BY DEF WriteHasRoom, BufSize
      <3>1. PICK s \in stream.proofs : TRUE
        BY DEF StreamInv, ClosedRightly
      <3>2. Ahead \in SUBSET ProofSpaces /\ stream.items \in SUBSET ProofSpaces
            /\ stream.ch \in Seq(ProofSpaces) /\ s \in Ahead
        BY <3>1 DEF StreamInv, Streams, Ahead
      <3>3. Cardinality(Ahead) >= 1
        <4>1. Cardinality(Ahead \ {s}) = Cardinality(Ahead) - 1 /\ Cardinality(Ahead) \in Nat
          BY <3>2, Counted
        <4>2. Cardinality(Ahead \ {s}) \in Nat
          BY <3>2, Counted
        <4> QED
          BY <4>1, <4>2
      <3>4. Len(stream.ch) \in Nat /\ Cardinality(Ahead) \in Nat
            /\ Cardinality(stream.items) \in Nat
        BY <3>2, Counted
      <3> QED
        BY <3>3, <3>4 DEF StreamInv, RoomForAll
    <2> QED
      BY <2>1, <2>2 DEF StreamSound
  <1> QED
    BY <1>1, StreamInvariant, PTL

-----------------------------------------------------------------------------
(* The ledger *)

Blocks == [id : Nat, prev : Nat, txs : SUBSET AllTxs, binds : BOOLEAN]

Answers == [tx : AllTxs \cup {None}, status : Int]

\* the steps of a question about a block that look at its transactions
TxSteps == {"tx", "vin", "status", "height", "type"}

Questions ==
    [pc : {"best", "next", "coinbaseIn", "coinbaseOut", "done"} \cup TxSteps,
     kind : Kinds, blk : Blocks, idx : Nat, max : Nat, next : Nat \cup {None},
     todo : SUBSET AllTxs, tx : AllTxs \cup {None}, raw : SUBSET Answers, at : Nat, err : BOOLEAN]

PoolQuestions == [pc : {"orphans", "pooled"}, txs : SUBSET Txs, orphans : SUBSET Txs]

LedgerTypeOK ==
    /\ chain \in Seq(Blocks) /\ chain # <<>>
    /\ pool \in SUBSET Txs /\ orphans \in SUBSET Txs
    /\ made \in Nat /\ clean \in BOOLEAN
    /\ q \in {Idle} \cup Questions \cup PoolQuestions

\* The blocks hang together, a transaction is in one of them, and what a block spends or
\* binds is in it or below.
Linked ==
    /\ Len(chain) <= made /\ made <= MaxBlocks
    /\ chain[1].prev = 0 /\ 1 \in chain[1].txs
    /\ \A i \in 1..Len(chain) : chain[i].id \in 1..made /\ chain[i].txs \subseteq Txs \cup {chain[i].id}
    /\ \A i \in 2..Len(chain) : chain[i].prev = chain[i - 1].id

InOneBlock ==
    \A i, j \in 1..Len(chain) : i # j => chain[i].txs \cap chain[j].txs = {}

InputsBelow ==
    \A i \in 1..Len(chain) :
        /\ \A t \in chain[i].txs \cap Txs : \A o \in Ins[t] : \E j \in 1..i : o[1] \in chain[j].txs
        /\ chain[i].binds => \E j \in 1..i : Binding[1] \in chain[j].txs

\* The pool spends what it or the chain has; a transaction is in one place.
PoolClosed ==
    /\ pool \cap OnChain = {} /\ orphans \cap (pool \cup OnChain) = {}
    /\ \A t \in pool : Known(t, pool)

\* the transactions a verbose answer has so far
Told == {r.tx : r \in q.raw}

\* What a question about a block knows, as long as the chain has only grown since it began.
Upright ==
    /\ q.idx \in 1..Len(chain) /\ chain[q.idx] = q.blk
    /\ q.err <=> q.pc = "done" /\ q.kind = "coinbase" /\ q.idx = 1
    /\ q.pc # "best" => q.idx <= q.max /\ q.max <= Len(chain)
    /\ q.pc \in {"coinbaseIn", "coinbaseOut"} => q.kind = "coinbase"
    /\ q.pc = "next" => q.kind # "coinbase"
    /\ q.pc \in {"best", "next"} => q.raw = {}
    /\ q.pc \in TxSteps => q.kind = "verbose"

NextTold ==
    q.pc \in TxSteps \cup {"done"} /\ q.kind # "coinbase" =>
        /\ q.next # None <=> q.idx < q.max
        /\ q.next # None => q.next = chain[q.idx + 1].id

\* the status of a transaction of the block: not behind the confirmations, not ahead of the chain
InTime(t, status) ==
    /\ status \in {3, 4}
    /\ (q.max + 1) - q.idx >= Maturity(t) => status = 4
    /\ status = 4 => (Len(chain) + 1) - q.idx >= Maturity(t)

TxsTold ==
    /\ q.pc \in TxSteps => Told \cup q.todo \cup (IF q.pc \in {"vin", "status", "height"}
                                                THEN {q.tx} ELSE {}) = q.blk.txs
    /\ q.pc \in TxSteps \ {"tx"} => q.tx \in q.blk.txs
    /\ q.pc = "height" => q.at = q.idx
    /\ q.pc = "done" /\ q.kind = "verbose" => Told = q.blk.txs
    /\ \A r \in q.raw : InTime(r.tx, r.status)

\* What the list of the pool has is no orphan later.
PoolTold ==
    /\ q.pc = "orphans" => q.txs \subseteq pool \cup OnChain
    /\ q.pc = "pooled" => q.txs \cap q.orphans = {}

LedgerInv ==
    /\ LedgerTypeOK /\ Linked /\ InOneBlock /\ InputsBelow /\ PoolClosed /\ PoolTold
    /\ clean /\ q \in Questions => Upright /\ NextTold /\ TxsTold

-----------------------------------------------------------------------------
(* The chain and the pool *)

\* Of the assumptions, those about heights.
LEMMA Heights ==
  MaxBlocks \in Nat \ {0} /\ CoinbaseMaturity \in Nat /\ \A t : Maturity(t) \in Nat
  BY LedgerAssumption DEF Maturity

\* What a question is, by its step.
LEMMA QuestionKind ==
  ASSUME LedgerTypeOK
  PROVE  /\ q.pc = "idle" => q = Idle
         /\ q.pc \in {"orphans", "pooled"} => q \in PoolQuestions
         /\ q.pc \in {"best", "next", "coinbaseIn", "coinbaseOut", "done"} \cup TxSteps
              <=> q \in Questions
  <1>1. Idle.pc = "idle"
    BY DEF Idle
  <1>2. \A r \in Questions : r.pc \in {"best", "next", "coinbaseIn", "coinbaseOut", "done"} \cup TxSteps
    BY DEF Questions
  <1>3. \A r \in PoolQuestions : r.pc \in {"orphans", "pooled"}
    BY DEF PoolQuestions
  <1>4. q \in {Idle} \cup Questions \cup PoolQuestions
    BY DEF LedgerTypeOK
  <1> QED
    BY <1>1, <1>2, <1>3, <1>4 DEF TxSteps

\* The first block alone satisfies the invariant.
LEMMA InitLedgerInv == LedgerInit => LedgerInv
  <1> SUFFICES ASSUME LedgerInit PROVE LedgerInv
    OBVIOUS
  <1> DEFINE b == [id |-> 1, prev |-> 0, txs |-> {1}, binds |-> FALSE]
  <1>1. chain = <<b>> /\ pool = {} /\ orphans = {} /\ made = 1 /\ q = Idle /\ clean = TRUE
    BY DEF LedgerInit
  <1>2. b \in Blocks
    <2>1. 1 \in AllTxs
      BY LedgerAssumption DEF AllTxs, Coinbases
    <2> QED
      BY <2>1 DEF Blocks
  <1>3. b.id = 1 /\ b.prev = 0 /\ b.txs = {1} /\ b.binds = FALSE
    OBVIOUS
  <1> HIDE DEF b
  <1>4. Len(chain) = 1 /\ chain[1] = b /\ chain \in Seq(Blocks) /\ chain # <<>>
    BY <1>1, <1>2
  <1>5. LedgerTypeOK
    BY <1>1, <1>4 DEF LedgerTypeOK
  <1>6. Linked
    BY <1>1, <1>3, <1>4, LedgerAssumption DEF Linked
  <1>7. InOneBlock /\ InputsBelow
    <2>1. 1 \notin Txs
      BY LedgerAssumption DEF Coinbases
    <2> QED
      BY <1>3, <1>4, <2>1 DEF InOneBlock, InputsBelow
  <1>8. PoolClosed
    BY <1>1 DEF PoolClosed
  <1>9. q.pc = "idle"
    BY <1>1 DEF Idle
  <1>10. PoolTold /\ q \notin Questions
    <2>1. q \notin Questions
      BY <1>5, <1>9, QuestionKind DEF TxSteps
    <2> QED
      BY <1>9, <2>1 DEF PoolTold
  <1> QED
    BY <1>5, <1>6, <1>7, <1>8, <1>10 DEF LedgerInv

\* Known by way of more is known.
LEMMA KnownMore ==
  ASSUME NEW t, NEW P, NEW R, P \subseteq R, Known(t, P)
  PROVE  Known(t, R)
  BY DEF Known

Closed(P) == \A t \in P : Known(t, P)

\* Admit leaves the pool the largest part of what there is that spends nothing unknown.
LEMMA AdmitLargest ==
  ASSUME NEW S, Admit(S)
  PROVE  /\ pool' \cup orphans' = S \cup orphans \cup pool /\ pool' \cap orphans' = {}
         /\ Closed(pool')
         /\ Closed(pool) => pool \subseteq pool'
  <1> DEFINE all == S \cup orphans \cup pool
             Largest(P) == /\ \A t \in P : Known(t, P)
                           /\ \A R \in SUBSET all : (\A t \in R : Known(t, R)) => R \subseteq P
             good == CHOOSE P \in SUBSET all : Largest(P)
             U == UNION {R \in SUBSET all : Closed(R)}
  <1>1. pool' = good /\ orphans' = all \ good
    BY DEF Admit
  <1>2. U \in SUBSET all
    OBVIOUS
  <1>3. \A t \in U : Known(t, U)
    <2> SUFFICES ASSUME NEW t \in U PROVE Known(t, U)
      OBVIOUS
    <2>1. PICK R \in SUBSET all : Closed(R) /\ t \in R
      OBVIOUS
    <2>2. R \subseteq U
      BY <2>1
    <2> HIDE DEF U
    <2> QED
      BY <2>1, <2>2, KnownMore DEF Closed
  <1>4. \A R \in SUBSET all : (\A t \in R : Known(t, R)) => R \subseteq U
    BY DEF Closed
  <1>5. \E P \in SUBSET all : Largest(P)
    <2> HIDE DEF U, all
    <2> QED BY <1>2, <1>3, <1>4
  <1>6. good \in SUBSET all /\ Largest(good)
    <2> HIDE DEF Largest, all
    <2> QED BY <1>5
  <1>7. pool \in SUBSET all
    OBVIOUS
  <1>8. Closed(good)
    <2> HIDE DEF good, all
    <2> QED BY <1>6 DEF Closed
  <1>9. Closed(pool) => pool \subseteq good
    <2> HIDE DEF good, all
    <2> QED BY <1>6, <1>7 DEF Closed
  <1>10. Closed(good) => Closed(pool')
    BY <1>1
  <1> HIDE DEF good
  <1> QED
    BY <1>1, <1>6, <1>8, <1>9, <1>10

\* The chain keeps its first L blocks and gets b on top.
GrownBy(L, b) ==
    /\ chain' \in Seq(Blocks) /\ Len(chain') = L + 1
    /\ \A i \in 1..L : chain'[i] = chain[i]
    /\ chain'[L + 1] = b
    /\ made' = made + 1 /\ made < MaxBlocks

\* the transactions of the first L blocks
Below(L) == UNION {chain[i].txs : i \in 1..L}

\* A block on top of a part of the chain, of a coinbase and transactions that are not below it
\* and spend what is there, leaves the chain in order.
LEMMA BlockOnTop ==
  ASSUME LedgerTypeOK, Linked, InOneBlock, InputsBelow,
         NEW L \in 1..Len(chain), NEW b \in Blocks, GrownBy(L, b),
         b.id = made + 1, b.prev = chain[L].id, b.txs \cap Txs \cap Below(L) = {},
         b.txs = (b.txs \cap Txs) \cup {made + 1},
         \A t \in b.txs \cap Txs : \A o \in Ins[t] : o[1] \in b.txs \cup Below(L),
         b.binds => Binding[1] \in Below(L)
  PROVE  Linked' /\ InOneBlock' /\ InputsBelow' /\ OnChain' = b.txs \cup Below(L)
  <1>1. /\ chain' \in Seq(Blocks) /\ Len(chain') = L + 1 /\ chain'[L + 1] = b
        /\ \A i \in 1..L : chain'[i] = chain[i]
    BY DEF GrownBy
  <1>2. chain \in Seq(Blocks) /\ Len(chain) \in Nat /\ L \in Nat /\ L >= 1 /\ L <= Len(chain)
    BY DEF LedgerTypeOK
  <1>3. Len(chain') <= made' /\ made' <= MaxBlocks
    <2>1. Len(chain) <= made /\ made \in Nat /\ made' = made + 1 /\ made < MaxBlocks
      BY DEF Linked, LedgerTypeOK, GrownBy
    <2> QED
      BY <1>1, <1>2, <2>1, Heights
  <1>m. made \in Nat /\ made' = made + 1 /\ made + 1 \in Coinbases
    <2>1. made \in Nat /\ made' = made + 1 /\ made < MaxBlocks
      BY DEF LedgerTypeOK, GrownBy
    <2> QED
      BY <2>1, Heights DEF Coinbases
  <1>n. \A k \in 1..L : made + 1 \notin chain[k].txs
    <2> SUFFICES ASSUME NEW k \in 1..L PROVE made + 1 \notin chain[k].txs
      OBVIOUS
    <2>1. chain[k].id \in 1..made /\ chain[k].txs \subseteq Txs \cup {chain[k].id}
      BY <1>2 DEF Linked
    <2>2. made + 1 # chain[k].id
      BY <1>m, <2>1
    <2>3. made + 1 \notin Txs
      BY <1>m, LedgerAssumption
    <2> QED
      BY <2>1, <2>2, <2>3
  <1>4. Linked'
    <2>1. chain'[1] = chain[1]
      BY <1>1, <1>2
    <2>2. ASSUME NEW i \in 1..(L + 1)
          PROVE  chain'[i].id \in 1..made' /\ chain'[i].txs \subseteq Txs \cup {chain'[i].id}
      <3>1. CASE i = L + 1
        <4>1. chain'[i] = b
          BY <1>1, <3>1
        <4>2. b.id \in 1..made'
          BY <1>m
        <4> QED
          BY <4>1, <4>2
      <3>2. CASE i # L + 1
        <4>1. i \in 1..L /\ i \in 1..Len(chain)
          BY <1>2, <3>2
        <4>2. chain[i].id \in 1..made /\ chain[i].txs \subseteq Txs \cup {chain[i].id}
          BY <4>1 DEF Linked
        <4>3. chain[i].id \in 1..made'
          BY <1>m, <4>2
        <4> QED
          BY <1>1, <4>1, <4>2, <4>3
      <3> QED
        BY <3>1, <3>2
    <2>3. ASSUME NEW i \in 2..(L + 1)
          PROVE  chain'[i].prev = chain'[i - 1].id
      <3>1. CASE i = L + 1
        <4>1. i - 1 = L /\ chain'[i - 1] = chain[L]
          BY <1>1, <1>2, <3>1
        <4> QED
          BY <1>1, <3>1, <4>1
      <3>2. CASE i # L + 1
        <4>1. i \in 1..L /\ i - 1 \in 1..L /\ i \in 2..Len(chain)
          BY <1>2, <3>2
        <4>2. chain'[i] = chain[i] /\ chain'[i - 1] = chain[i - 1]
          BY <1>1, <4>1
        <4> QED
          BY <4>1, <4>2 DEF Linked
      <3> QED
        BY <3>1, <3>2
    <2>4. chain'[1].prev = 0 /\ 1 \in chain'[1].txs
      BY <2>1 DEF Linked
    <2> QED
      BY <1>1, <1>3, <2>2, <2>3, <2>4 DEF Linked
  <1>5. InOneBlock'
    <2> SUFFICES ASSUME NEW i \in 1..(L + 1), NEW j \in 1..(L + 1), i # j
                 PROVE  chain'[i].txs \cap chain'[j].txs = {}
      BY <1>1 DEF InOneBlock
    <2>1. \A k \in 1..L : b.txs \cap chain[k].txs = {}
      <3>1. \A k \in 1..L : (b.txs \cap Txs) \cap chain[k].txs = {}
        BY DEF Below
      <3> QED
        BY <1>n, <3>1
    <2>2. CASE i = L + 1
      BY <1>1, <1>2, <2>1, <2>2
    <2>3. CASE j = L + 1
      BY <1>1, <1>2, <2>1, <2>3
    <2>4. CASE i # L + 1 /\ j # L + 1
      <3>1. i \in 1..L /\ j \in 1..L /\ i \in 1..Len(chain) /\ j \in 1..Len(chain)
        BY <1>2, <2>4
      <3> QED
        BY <1>1, <3>1 DEF InOneBlock
    <2> QED
      BY <2>2, <2>3, <2>4
  <1>6. InputsBelow'
    <2>1. ASSUME NEW i \in 1..L
          PROVE  /\ \A t \in chain'[i].txs \cap Txs : \A o \in Ins[t] : \E j \in 1..i : o[1] \in chain'[j].txs
                 /\ chain'[i].binds => \E j \in 1..i : Binding[1] \in chain'[j].txs
      <3>1. i \in 1..Len(chain) /\ chain'[i] = chain[i] /\ \A j \in 1..i : chain'[j] = chain[j]
        BY <1>1, <1>2
      <3> QED
        BY <3>1 DEF InputsBelow
    <2>2. \A o \in AllTxs : o \in b.txs \cup Below(L) => \E j \in 1..(L + 1) : o \in chain'[j].txs
      <3> SUFFICES ASSUME NEW o \in b.txs \cup Below(L) PROVE \E j \in 1..(L + 1) : o \in chain'[j].txs
        OBVIOUS
      <3>1. CASE o \in b.txs
        BY <1>1, <1>2, <3>1
      <3>2. CASE o \in Below(L)
        <4>1. PICK j \in 1..L : o \in chain[j].txs
          BY <3>2 DEF Below
        <4> QED
          BY <1>1, <1>2, <4>1
      <3> QED
        BY <3>1, <3>2
    <2>3. ASSUME NEW t \in b.txs \cap Txs, NEW o \in Ins[t] PROVE o[1] \in AllTxs
      <3>1. Ins[t] \in SUBSET ((Txs \cup {1}) \X Nat)
        BY LedgerAssumption
      <3>2. 1 \in AllTxs
        BY Heights DEF AllTxs, Coinbases
      <3> QED
        BY <3>1, <3>2 DEF AllTxs
    <2>4. Binding[1] \in AllTxs
      BY LedgerAssumption DEF AllTxs
    <2>5. \A t \in chain'[L + 1].txs \cap Txs : \A o \in Ins[t] : \E j \in 1..(L + 1) : o[1] \in chain'[j].txs
      BY <1>1, <2>2, <2>3
    <2>6. chain'[L + 1].binds => \E j \in 1..(L + 1) : Binding[1] \in chain'[j].txs
      BY <1>1, <2>2, <2>4
    <2>7. ASSUME NEW i \in 1..(L + 1), i \notin 1..L PROVE i = L + 1
      BY <1>2, <2>7
    <2> QED
      BY <1>1, <2>1, <2>5, <2>6, <2>7 DEF InputsBelow
  <1>7. OnChain' = b.txs \cup Below(L)
    <2>1. DOMAIN chain' = 1..(L + 1)
      BY <1>1
    <2>2. ASSUME NEW t \in OnChain' PROVE t \in b.txs \cup Below(L)
      <3>1. PICK i \in 1..(L + 1) : t \in chain'[i].txs
        BY <2>1, <2>2 DEF OnChain
      <3>2. CASE i = L + 1
        BY <1>1, <3>1, <3>2
      <3>3. CASE i # L + 1
        <4>1. i \in 1..L
          BY <1>2, <3>3
        <4> QED
          BY <1>1, <3>1, <4>1 DEF Below
      <3> QED
        BY <3>2, <3>3
    <2>3. ASSUME NEW t \in b.txs \cup Below(L) PROVE t \in OnChain'
      <3>1. CASE t \in b.txs
        <4>1. L + 1 \in 1..(L + 1)
          BY <1>2
        <4> QED
          BY <1>1, <2>1, <3>1, <4>1 DEF OnChain
      <3>2. CASE t \in Below(L)
        <4>1. PICK i \in 1..L : t \in chain[i].txs
          BY <3>2 DEF Below
        <4>2. i \in 1..(L + 1) /\ chain'[i] = chain[i]
          BY <1>1, <1>2, <4>1
        <4> QED
          BY <2>1, <4>1, <4>2 DEF OnChain
      <3> QED
        BY <3>1, <3>2, <2>3
    <2> QED
      BY <2>2, <2>3
  <1> QED
    BY <1>4, <1>5, <1>6, <1>7

\* While a question waits, the ledger takes a step: what it was told stays true as long as the
\* chain only grows, and no transaction of the pool or the chain leaves both.
LEMMA QuestionWaits ==
  ASSUME LedgerInv, q' = q, (pool \cup OnChain) \cap Txs \subseteq pool' \cup OnChain',
         clean' => /\ clean /\ Len(chain') \in Nat /\ Len(chain') >= Len(chain)
                   /\ \A i \in 1..Len(chain) : chain'[i] = chain[i]
  PROVE  PoolTold' /\ (clean /\ q \in Questions => Upright /\ NextTold /\ TxsTold)'
  <1>1. PoolTold'
    <2>1. q.pc = "orphans" => q.txs \subseteq Txs
      BY QuestionKind DEF LedgerInv, PoolQuestions
    <2> QED
      BY <2>1 DEF LedgerInv, PoolTold
  <1>2. ASSUME clean', q \in Questions PROVE Upright' /\ NextTold' /\ TxsTold'
    <2>1. Upright /\ NextTold /\ TxsTold
      BY <1>2 DEF LedgerInv
    <2>2. /\ Len(chain) \in Nat /\ Len(chain') \in Nat /\ Len(chain') >= Len(chain)
          /\ \A i \in 1..Len(chain) : chain'[i] = chain[i]
      BY <1>2 DEF LedgerInv, LedgerTypeOK
    <2>3. q.idx \in Nat /\ q.max \in Nat
      BY <1>2 DEF Questions
    <2>4. Upright'
      BY <2>1, <2>2, <2>3 DEF Upright
    <2>5. NextTold'
      <3> SUFFICES ASSUME q.pc \in TxSteps \cup {"done"}, q.kind # "coinbase"
                   PROVE  /\ q.next # None <=> q.idx < q.max
                          /\ q.next # None => q.next = chain'[q.idx + 1].id
        BY DEF NextTold
      <3>1. /\ q.next # None <=> q.idx < q.max
            /\ q.next # None => q.next = chain[q.idx + 1].id
        BY <2>1 DEF NextTold
      <3>2. q.max <= Len(chain) /\ q.idx >= 1
        BY <2>1 DEF Upright, TxSteps
      <3>3. q.idx < q.max => q.idx + 1 \in 1..Len(chain)
        BY <2>2, <2>3, <3>2
      <3> QED
        BY <2>2, <3>1, <3>3
    <2>6. \A r \in q.raw : InTime(r.tx, r.status)'
      <3> SUFFICES ASSUME NEW r \in q.raw PROVE InTime(r.tx, r.status)'
        OBVIOUS
      <3>1. InTime(r.tx, r.status) /\ Maturity(r.tx) \in Nat
        BY <2>1, Heights DEF TxsTold
      <3>2. r.status = 4 => (Len(chain') + 1) - q.idx >= Maturity(r.tx)
        BY <2>2, <2>3, <3>1 DEF InTime
      <3> QED
        BY <3>1, <3>2 DEF InTime
    <2>7. TxsTold'
      BY <2>1, <2>6 DEF TxsTold, Told
    <2> QED
      BY <2>4, <2>5, <2>7
  <1> QED
    BY <1>1, <1>2

\* Arrive: the transaction, and what waited for it, goes into the pool.
LEMMA ArriveInv ==
  ASSUME LedgerInv, NEW t \in Txs, Arrive(t)
  PROVE  LedgerInv'
  <1>1. /\ chain' = chain /\ made' = made /\ q' = q /\ clean' = clean
        /\ t \notin OnChain /\ Admit({t})
    BY DEF Arrive
  <1>2. OnChain' = OnChain
    BY <1>1 DEF OnChain
  <1>3. LedgerTypeOK /\ Linked /\ InOneBlock /\ InputsBelow /\ PoolClosed
    BY DEF LedgerInv
  <1>4. Closed(pool)
    BY <1>3 DEF PoolClosed, Closed
  <1>5. /\ pool' \cup orphans' = {t} \cup orphans \cup pool /\ pool' \cap orphans' = {}
        /\ Closed(pool') /\ pool \subseteq pool'
    BY <1>1, <1>4, AdmitLargest
  <1>6. pool' \in SUBSET Txs /\ orphans' \in SUBSET Txs
    BY <1>3, <1>5 DEF LedgerTypeOK
  <1>7. LedgerTypeOK'
    BY <1>1, <1>3, <1>6 DEF LedgerTypeOK
  <1>8. Linked' /\ InOneBlock' /\ InputsBelow'
    BY <1>1, <1>3 DEF Linked, InOneBlock, InputsBelow
  <1>9. PoolClosed'
    <2>1. \A u \in pool' : Known(u, pool)'
      BY <1>2, <1>5 DEF Closed, Known
    <2>2. pool' \cap OnChain' = {} /\ orphans' \cap OnChain' = {}
      BY <1>1, <1>2, <1>3, <1>5 DEF PoolClosed
    <2> QED
      BY <1>5, <2>1, <2>2 DEF PoolClosed
  <1>10. clean' => /\ clean /\ Len(chain') \in Nat /\ Len(chain') >= Len(chain)
                   /\ \A i \in 1..Len(chain) : chain'[i] = chain[i]
    BY <1>1, <1>3 DEF LedgerTypeOK
  <1>11. (pool \cup OnChain) \cap Txs \subseteq pool' \cup OnChain'
    BY <1>2, <1>5
  <1>12. PoolTold' /\ (clean /\ q \in Questions => Upright /\ NextTold /\ TxsTold)'
    BY <1>1, <1>10, <1>11, QuestionWaits
  <1> QED
    BY <1>7, <1>8, <1>9, <1>12 DEF LedgerInv

\* all the blocks
LEMMA AllBelow ==
  ASSUME LedgerTypeOK
  PROVE  OnChain = Below(Len(chain)) /\ Len(chain) \in Nat /\ Len(chain) >= 1
  <1>1. DOMAIN chain = 1..Len(chain) /\ Len(chain) \in Nat /\ chain # <<>> /\ chain \in Seq(Blocks)
    BY DEF LedgerTypeOK
  <1>2. Len(chain) # 0
    BY <1>1
  <1> QED
    BY <1>1, <1>2 DEF OnChain, Below

\* Extend: the next block is of transactions of the pool whose inputs are there.
LEMMA ExtendInv ==
  ASSUME LedgerInv, NEW S \in SUBSET pool, NEW binds \in BOOLEAN, Extend(S, binds)
  PROVE  LedgerInv'
  <1> DEFINE L == Len(chain)
             b == Block(chain[Len(chain)].id, S, binds)
  <1>1. /\ made < MaxBlocks /\ chain' = Append(chain, b) /\ pool' = pool \ S
        /\ \A t \in S : Known(t, S)
        /\ binds => Binding[1] \in OnChain
        /\ made' = made + 1 /\ orphans' = orphans /\ q' = q /\ clean' = clean
    BY DEF Extend
  <1>2. LedgerTypeOK /\ Linked /\ InOneBlock /\ InputsBelow /\ PoolClosed
    BY DEF LedgerInv
  <1>3. chain \in Seq(Blocks) /\ L \in Nat /\ L \in 1..Len(chain) /\ OnChain = Below(L) /\ made \in Nat
    BY <1>2, AllBelow DEF LedgerTypeOK
  <1>4. S \subseteq Txs /\ S \subseteq AllTxs
    BY <1>2 DEF LedgerTypeOK, AllTxs
  <1>5. b.id = made + 1 /\ b.prev = chain[L].id /\ b.txs = S \cup {made + 1} /\ b.binds = binds
    BY DEF Block
  <1>c. made + 1 \in Coinbases /\ made + 1 \in AllTxs /\ made + 1 \notin Txs
    <2>1. made + 1 \in Coinbases
      BY <1>1, <1>3, Heights DEF Coinbases
    <2> QED
      BY <2>1, LedgerAssumption DEF AllTxs
  <1>6. b \in Blocks
    <2>1. chain[L].id \in Nat
      <3>1. chain[L] \in Blocks
        BY <1>3
      <3> QED
        BY <3>1 DEF Blocks
    <2>2. made + 1 \in Nat
      BY <1>3
    <2>3. S \cup {made + 1} \in SUBSET AllTxs
      BY <1>4, <1>c
    <2> QED
      BY <2>1, <2>2, <2>3 DEF Blocks, Block
  <1> HIDE DEF b
  <1>7. GrownBy(L, b)
    BY <1>1, <1>3, <1>6 DEF GrownBy
  <1>8. b.txs \cap Txs = S /\ b.txs = (b.txs \cap Txs) \cup {made + 1}
    BY <1>4, <1>5, <1>c
  <1>9. b.txs \cap Txs \cap Below(L) = {}
    BY <1>2, <1>3, <1>8 DEF PoolClosed
  <1>10. \A t \in b.txs \cap Txs : \A o \in Ins[t] : o[1] \in b.txs \cup Below(L)
    BY <1>1, <1>3, <1>5, <1>8 DEF Known
  <1> HIDE DEF L
  <1>11. b.binds => Binding[1] \in Below(L)
    BY <1>1, <1>3, <1>5
  <1>12. Linked' /\ InOneBlock' /\ InputsBelow' /\ OnChain' = b.txs \cup Below(L)
    BY <1>2, <1>3, <1>5, <1>6, <1>7, <1>8, <1>9, <1>10, <1>11, BlockOnTop
  <1>13. OnChain' = OnChain \cup S \cup {made + 1}
    BY <1>3, <1>5, <1>12
  <1>14. PoolClosed'
    <2>1. \A u \in pool' : Known(u, pool)'
      BY <1>1, <1>2, <1>13 DEF PoolClosed, Known
    <2>2. pool' \cap OnChain' = {} /\ orphans' \cap (pool' \cup OnChain') = {}
      BY <1>1, <1>2, <1>13, <1>c DEF PoolClosed, LedgerTypeOK
    <2> QED
      BY <2>1, <2>2 DEF PoolClosed
  <1>15. LedgerTypeOK'
    <2>1. chain' \in Seq(Blocks) /\ Len(chain') = L + 1 /\ made' \in Nat /\ pool' \in SUBSET Txs
      BY <1>1, <1>2, <1>3, <1>7 DEF GrownBy, LedgerTypeOK
    <2>2. chain' # <<>>
      BY <1>3, <2>1
    <2> QED
      BY <1>1, <1>2, <2>1, <2>2 DEF LedgerTypeOK
  <1>16. clean' => /\ clean /\ Len(chain') \in Nat /\ Len(chain') >= Len(chain)
                   /\ \A i \in 1..Len(chain) : chain'[i] = chain[i]
    BY <1>1, <1>3, <1>7 DEF GrownBy, L
  <1>17. (pool \cup OnChain) \cap Txs \subseteq pool' \cup OnChain'
    BY <1>1, <1>13
  <1>18. PoolTold' /\ (clean /\ q \in Questions => Upright /\ NextTold /\ TxsTold)'
    BY <1>1, <1>16, <1>17, QuestionWaits
  <1> QED
    BY <1>12, <1>14, <1>15, <1>18 DEF LedgerInv

\* Reorganise: the transactions of the blocks that go are in the pool again.
LEMMA ReorganiseInv ==
  ASSUME LedgerInv, NEW n \in 1..2, Reorganise(n)
  PROVE  LedgerInv'
  <1> DEFINE L == Len(chain) - n
             b == Block(chain[Len(chain) - n].id, {}, FALSE)
             gone == UNION {chain[i].txs \cap Txs : i \in (L + 1)..Len(chain)}
  <1>1. /\ made < MaxBlocks /\ n < Len(chain)
        /\ chain' = Append(SubSeq(chain, 1, L), b) /\ pool' = pool \cup gone
        /\ made' = made + 1 /\ clean' = FALSE /\ orphans' = orphans /\ q' = q
    BY DEF Reorganise
  <1>2. LedgerTypeOK /\ Linked /\ InOneBlock /\ InputsBelow /\ PoolClosed
    BY DEF LedgerInv
  <1>3. /\ chain \in Seq(Blocks) /\ Len(chain) \in Nat /\ OnChain = Below(Len(chain))
        /\ made \in Nat /\ L \in Nat /\ L \in 1..Len(chain) /\ L <= Len(chain)
    <2>1. chain \in Seq(Blocks) /\ Len(chain) \in Nat /\ OnChain = Below(Len(chain)) /\ made \in Nat
      BY <1>2, AllBelow DEF LedgerTypeOK
    <2> QED
      BY <1>1, <2>1
  <1>4. b.id = made + 1 /\ b.prev = chain[L].id /\ b.txs = {made + 1} /\ b.binds = FALSE
    BY DEF Block
  <1>c. made + 1 \in Coinbases /\ made + 1 \in AllTxs /\ made + 1 \notin Txs
    <2>1. made + 1 \in Coinbases
      BY <1>1, <1>3, Heights DEF Coinbases
    <2> QED
      BY <2>1, LedgerAssumption DEF AllTxs
  <1>5. b \in Blocks
    <2>1. chain[L].id \in Nat
      <3>1. chain[L] \in Blocks
        BY <1>3
      <3> QED
        BY <3>1 DEF Blocks
    <2>2. made + 1 \in Nat
      BY <1>3
    <2>3. {} \cup {made + 1} \in SUBSET AllTxs
      BY <1>c
    <2> QED
      BY <2>1, <2>2, <2>3 DEF Blocks, Block
  <1> HIDE DEF b, L
  <1>6. GrownBy(L, b)
    <2>1. SubSeq(chain, 1, L) \in Seq(Blocks) /\ Len(SubSeq(chain, 1, L)) = L
          /\ \A i \in 1..L : SubSeq(chain, 1, L)[i] = chain[i]
      BY <1>3
    <2> QED
      BY <1>1, <1>3, <1>5, <2>1 DEF GrownBy
  <1>7. b.txs \cap Txs = {} /\ b.txs = (b.txs \cap Txs) \cup {made + 1}
    BY <1>4, <1>c
  <1>8. Linked' /\ InOneBlock' /\ InputsBelow' /\ OnChain' = b.txs \cup Below(L)
    BY <1>2, <1>3, <1>4, <1>5, <1>6, <1>7, BlockOnTop
  <1>9. OnChain' = Below(L) \cup {made + 1}
    BY <1>4, <1>8
  <1>10. /\ Below(L) \subseteq OnChain /\ gone \subseteq OnChain
         /\ \A t \in OnChain : t \in Txs => t \in Below(L) \cup gone
    <2>1. \A i \in 1..Len(chain) : i \in 1..L \/ i \in (L + 1)..Len(chain)
      BY <1>3
    <2>2. \A i \in 1..L : i \in 1..Len(chain)
      BY <1>3
    <2>3. \A i \in (L + 1)..Len(chain) : i \in 1..Len(chain)
      BY <1>3
    <2> QED
      BY <1>3, <2>1, <2>2, <2>3 DEF Below
  <1>11. gone \cap Below(L) = {}
    <2> SUFFICES ASSUME NEW i \in 1..L, NEW j \in (L + 1)..Len(chain)
                 PROVE  chain[i].txs \cap chain[j].txs = {}
      BY DEF Below
    <2>1. i \in 1..Len(chain) /\ j \in 1..Len(chain) /\ i # j
      BY <1>3
    <2> QED
      BY <1>2, <2>1 DEF InOneBlock
  <1>12. gone \in SUBSET Txs
    OBVIOUS
  <1>f. 1 \in Below(L)
    <2>1. 1 \in 1..L /\ 1 \in chain[1].txs
      BY <1>2, <1>3 DEF Linked
    <2> QED
      BY <2>1 DEF Below
  <1>13. \A t \in gone \cup pool : \A o \in Ins[t] : o[1] \in OnChain \cup pool /\ o[1] \in Txs \cup {1}
    <2>1. ASSUME NEW t \in Txs, NEW o \in Ins[t] PROVE o[1] \in Txs \cup {1}
      <3>1. Ins[t] \in SUBSET ((Txs \cup {1}) \X Nat)
        BY LedgerAssumption
      <3> QED
        BY <3>1
    <2>2. ASSUME NEW j \in (L + 1)..Len(chain), NEW t \in chain[j].txs \cap Txs, NEW o \in Ins[t]
          PROVE  o[1] \in OnChain
      <3>1. j \in 1..Len(chain)
        BY <1>3
      <3>2. PICK k \in 1..j : o[1] \in chain[k].txs
        BY <1>2, <3>1 DEF InputsBelow
      <3>3. k \in 1..Len(chain)
        BY <1>3, <3>1, <3>2
      <3> QED
        BY <1>3, <3>2, <3>3 DEF Below
    <2>3. ASSUME NEW t \in gone, NEW o \in Ins[t] PROVE o[1] \in OnChain
      <3>1. PICK j \in (L + 1)..Len(chain) : t \in chain[j].txs \cap Txs
        OBVIOUS
      <3> QED
        BY <2>2, <3>1
    <2>4. ASSUME NEW t \in pool, NEW o \in Ins[t] PROVE o[1] \in OnChain \cup pool
      BY <1>2 DEF PoolClosed, Known
    <2>5. pool \subseteq Txs
      BY <1>2 DEF LedgerTypeOK
    <2> HIDE DEF gone
    <2> QED
      BY <1>12, <2>1, <2>3, <2>4, <2>5
  <1> HIDE DEF gone
  <1>14. PoolClosed'
    <2>1. \A u \in pool' : Known(u, pool)'
      <3> SUFFICES ASSUME NEW u \in pool', NEW o \in Ins[u] PROVE o[1] \in OnChain' \cup pool'
        BY DEF Known
      <3>1. o[1] \in OnChain \cup pool /\ o[1] \in Txs \cup {1}
        BY <1>1, <1>13
      <3> QED
        BY <1>1, <1>9, <1>10, <1>f, <3>1
    <2>2. pool' \cap OnChain' = {} /\ orphans' \cap (pool' \cup OnChain') = {}
      <3>1. pool \subseteq Txs /\ orphans \subseteq Txs
        BY <1>2 DEF LedgerTypeOK
      <3> QED
        BY <1>1, <1>2, <1>9, <1>10, <1>11, <1>12, <1>c, <3>1 DEF PoolClosed
    <2> QED
      BY <2>1, <2>2 DEF PoolClosed
  <1>15. LedgerTypeOK'
    <2>1. chain' \in Seq(Blocks) /\ Len(chain') = L + 1 /\ made' \in Nat /\ pool' \in SUBSET Txs
      BY <1>1, <1>2, <1>3, <1>6, <1>12 DEF GrownBy, LedgerTypeOK
    <2>2. chain' # <<>>
      BY <1>3, <2>1
    <2> QED
      BY <1>1, <1>2, <2>1, <2>2 DEF LedgerTypeOK
  <1>16. (pool \cup OnChain) \cap Txs \subseteq pool' \cup OnChain'
    BY <1>1, <1>9, <1>10
  <1>17. PoolTold' /\ (clean /\ q \in Questions => Upright /\ NextTold /\ TxsTold)'
    BY <1>1, <1>16, QuestionWaits
  <1> QED
    BY <1>8, <1>14, <1>15, <1>17 DEF LedgerInv

-----------------------------------------------------------------------------
(* The questions *)

Resting == chain' = chain /\ pool' = pool /\ orphans' = orphans /\ made' = made

\* A step of the handler leaves the ledger as it is.
LEMMA LedgerRests ==
  ASSUME LedgerInv, Resting, clean' \in BOOLEAN,
         q' \in {Idle} \cup Questions \cup PoolQuestions, PoolTold',
         (clean /\ q \in Questions => Upright /\ NextTold /\ TxsTold)'
  PROVE  LedgerInv'
  <1>1. OnChain' = OnChain
    BY DEF Resting, OnChain
  <1>2. LedgerTypeOK'
    BY DEF LedgerInv, LedgerTypeOK, Resting
  <1>3. Linked' /\ InOneBlock' /\ InputsBelow'
    <2>1. Linked'
      BY DEF LedgerInv, Resting, Linked
    <2>2. InOneBlock'
      BY DEF LedgerInv, Resting, InOneBlock
    <2>3. InputsBelow'
      BY DEF LedgerInv, Resting, InputsBelow
    <2> QED
      BY <2>1, <2>2, <2>3
  <1>4. PoolClosed'
    BY <1>1 DEF LedgerInv, Resting, PoolClosed, Known
  <1> QED
    BY <1>2, <1>3, <1>4 DEF LedgerInv

\* A step of a question about a block, which either told nothing wrong so far or is stale.
LEMMA QuestionStep ==
  ASSUME LedgerInv, Resting, clean' \in BOOLEAN, q' \in Questions,
         clean' => Upright' /\ NextTold' /\ TxsTold'
  PROVE  LedgerInv'
  <1>1. q'.pc \in {"best", "next", "coinbaseIn", "coinbaseOut", "done"} \cup TxSteps
    BY DEF Questions
  <1>2. PoolTold'
    BY <1>1 DEF PoolTold, TxSteps
  <1> QED
    BY <1>2, LedgerRests

\* What a question knows before it takes a step.
LEMMA Asking ==
  ASSUME LedgerInv, q.pc \in {"best", "next", "coinbaseIn", "coinbaseOut", "done"} \cup TxSteps
  PROVE  /\ q \in Questions /\ clean \in BOOLEAN
         /\ (clean => Upright /\ NextTold /\ TxsTold)
         /\ DOMAIN chain = 1..Len(chain) /\ Len(chain) \in Nat /\ chain \in Seq(Blocks)
  <1>1. LedgerTypeOK
    BY DEF LedgerInv
  <1>2. q \in Questions
    BY <1>1, QuestionKind
  <1> QED
    BY <1>1, <1>2 DEF LedgerInv, LedgerTypeOK

\* Goto moves on, and nothing else.
LEMMA Moves ==
  ASSUME NEW pc \in {"best", "next", "coinbaseIn", "coinbaseOut", "done"} \cup TxSteps,
         q \in Questions, Goto(pc)
  PROVE  /\ Resting /\ clean' = clean /\ q' \in Questions /\ q'.pc = pc
         /\ q'.kind = q.kind /\ q'.blk = q.blk /\ q'.idx = q.idx /\ q'.max = q.max
         /\ q'.next = q.next /\ q'.todo = q.todo /\ q'.tx = q.tx /\ q'.raw = q.raw
         /\ q'.at = q.at /\ q'.err = q.err
  BY DEF Goto, Resting, Questions

\* Fail answers with an error.
LEMMA FailStays ==
  ASSUME q \in Questions, Fail
  PROVE  Resting /\ clean' = clean /\ q' \in Questions
  BY DEF Fail, Resting, Questions

\* Get: the block is on the chain of this moment.
LEMMA GetInv ==
  ASSUME LedgerInv, NEW kind \in Kinds, NEW h \in 1..MaxBlocks, Get(kind, h)
  PROVE  LedgerInv'
  <1>1. /\ h \in DOMAIN chain /\ clean' = TRUE /\ Resting
        /\ q' = [pc |-> "best", kind |-> kind, blk |-> chain[h], idx |-> h, max |-> 0,
                 next |-> None, todo |-> {}, tx |-> None, raw |-> {}, at |-> 0, err |-> FALSE]
    BY DEF Get, Resting
  <1>2. DOMAIN chain = 1..Len(chain) /\ chain \in Seq(Blocks)
    BY DEF LedgerInv, LedgerTypeOK
  <1>3. chain[h] \in Blocks /\ h \in Nat
    BY <1>1, <1>2
  <1>4. q' \in Questions
    BY <1>1, <1>3 DEF Questions
  <1>5. Upright' /\ NextTold' /\ TxsTold'
    <2>1. /\ q'.pc = "best" /\ q'.blk = chain'[h] /\ q'.idx = h /\ ~q'.err /\ q'.raw = {}
          /\ h \in 1..Len(chain')
      BY <1>1, <1>2 DEF Resting
    <2> QED
      BY <2>1 DEF Upright, NextTold, TxsTold, TxSteps
  <1> QED
    BY <1>1, <1>4, <1>5, QuestionStep

\* BestBlockHeight: not below the block, unless there was a reorganisation.
LEMMA BestBlockHeightInv ==
  ASSUME LedgerInv, BestBlockHeight
  PROVE  LedgerInv'
  <1>1. q.pc = "best" /\ Resting /\ clean' = clean
    BY DEF BestBlockHeight, Resting
  <1>2. /\ q \in Questions /\ clean \in BOOLEAN /\ (clean => Upright /\ NextTold /\ TxsTold)
        /\ Len(chain) \in Nat
    BY <1>1, Asking
  <1> DEFINE p == IF q.kind = "coinbase" THEN "coinbaseIn" ELSE "next"
  <1>3. p \in {"coinbaseIn", "next"} /\ q' = [q EXCEPT !.max = Len(chain), !.pc = p]
        /\ (p = "coinbaseIn" <=> q.kind = "coinbase")
    BY DEF BestBlockHeight
  <1> HIDE DEF p
  <1>4. /\ q' \in Questions /\ q'.pc = p /\ q'.max = Len(chain)
        /\ q'.kind = q.kind /\ q'.blk = q.blk /\ q'.idx = q.idx /\ q'.raw = q.raw /\ q'.err = q.err
    BY <1>2, <1>3 DEF Questions
  <1>5. ASSUME clean' PROVE Upright' /\ NextTold' /\ TxsTold'
    <2>1. /\ q.idx \in 1..Len(chain) /\ chain[q.idx] = q.blk /\ ~q.err /\ q.raw = {}
      BY <1>1, <1>2, <1>5 DEF Upright
    <2>2. q'.idx \in 1..Len(chain') /\ chain'[q'.idx] = q'.blk /\ ~q'.err /\ q'.raw = {}
          /\ q'.idx <= q'.max /\ q'.max <= Len(chain')
      BY <1>1, <1>2, <1>4, <2>1 DEF Resting
    <2>3. Upright'
      BY <1>3, <1>4, <2>2 DEF Upright, TxSteps
    <2> QED
      BY <1>3, <1>4, <2>2, <2>3 DEF NextTold, TxsTold, TxSteps
  <1> QED
    BY <1>1, <1>2, <1>4, <1>5, QuestionStep

\* NextHash: the block above is there if the height read before says so.
LEMMA NextHashInv ==
  ASSUME LedgerInv, NextHash
  PROVE  LedgerInv'
  <1>1. q.pc = "next"
    BY DEF NextHash
  <1>2. /\ q \in Questions /\ clean \in BOOLEAN /\ (clean => Upright /\ NextTold /\ TxsTold)
        /\ Len(chain) \in Nat /\ chain \in Seq(Blocks)
    BY <1>1, Asking
  <1>3. q.idx \in Nat /\ q.max \in Nat /\ q.blk \in Blocks /\ q.blk.txs \in SUBSET AllTxs
    BY <1>2 DEF Questions, Blocks
  <1>4. CASE q.idx < q.max /\ q.idx + 1 > Len(chain)
    <2>1. Fail
      BY <1>4 DEF NextHash
    <2>2. ~clean
      BY <1>1, <1>2, <1>3, <1>4 DEF Upright
    <2>3. Resting /\ clean' = clean /\ q' \in Questions
      BY <1>2, <2>1, FailStays
    <2> QED
      BY <1>2, <2>2, <2>3, QuestionStep
  <1>5. CASE ~(q.idx < q.max /\ q.idx + 1 > Len(chain))
    <2> DEFINE nx == IF q.idx < q.max THEN chain[q.idx + 1].id ELSE None
               p == IF q.kind = "verbose" THEN "tx" ELSE "done"
    <2>1. /\ Resting /\ clean' = clean
          /\ q' = [q EXCEPT !.next = nx, !.todo = q.blk.txs, !.pc = p]
      BY <1>5 DEF NextHash, Resting
    <2>2. nx \in Nat \cup {None} /\ (nx # None <=> q.idx < q.max)
          /\ (nx # None => nx = chain[q.idx + 1].id)
      <3>1. CASE q.idx < q.max
        <4>1. q.idx + 1 \in 1..Len(chain)
          BY <1>2, <1>3, <1>5, <3>1
        <4>2. chain[q.idx + 1] \in Blocks
          BY <1>2, <4>1
        <4>3. chain[q.idx + 1].id \in Nat
          BY <4>2 DEF Blocks
        <4> QED
          BY <3>1, <4>3, LedgerAssumption
      <3>2. CASE ~(q.idx < q.max)
        BY <3>2
      <3> QED
        BY <3>1, <3>2
    <2>3. p \in {"tx", "done"} /\ (p = "tx" <=> q.kind = "verbose")
      OBVIOUS
    <2> HIDE DEF nx, p
    <2>4. /\ q' \in Questions /\ q'.next = nx /\ q'.todo = q.blk.txs /\ q'.pc = p
          /\ q'.kind = q.kind /\ q'.blk = q.blk /\ q'.idx = q.idx /\ q'.max = q.max
          /\ q'.raw = q.raw /\ q'.err = q.err
      BY <1>2, <1>3, <2>1, <2>2, <2>3 DEF Questions, TxSteps
    <2>5. ASSUME clean' PROVE Upright' /\ NextTold' /\ TxsTold'
      <3>1. Upright
        BY <1>2, <2>1, <2>5
      <3>2. Upright'
        BY <1>1, <2>1, <2>3, <2>4, <3>1 DEF Upright, Resting, TxSteps
      <3>3. NextTold'
        BY <2>1, <2>2, <2>4 DEF NextTold, Resting
      <3>4. q.raw = {}
        BY <1>1, <3>1 DEF Upright
      <3>5. Told' = {} /\ q'.raw = {}
        BY <2>4, <3>4 DEF Told
      <3>6. TxsTold'
        BY <2>3, <2>4, <3>5 DEF TxsTold, TxSteps
      <3> QED
        BY <3>2, <3>3, <3>6
    <2> QED
      BY <1>2, <2>1, <2>4, <2>5, QuestionStep
  <1> QED
    BY <1>4, <1>5

\* A transaction of a block of the chain is found at the block's height, and what it spends
\* is on the chain.
LEMMA TxOfBlock ==
  ASSUME LedgerInv, NEW i \in 1..Len(chain), NEW t \in chain[i].txs
  PROVE  /\ t \in OnChain /\ HeightOf(t) = i
         /\ \A o \in InputsOf(t) : o[1] \in OnChain
         /\ chain[i].binds => Binding[1] \in OnChain
  <1>1. DOMAIN chain = 1..Len(chain) /\ Len(chain) \in Nat
    BY DEF LedgerInv, LedgerTypeOK
  <1>2. t \in OnChain
    BY <1>1 DEF OnChain
  <1>3. \A j \in DOMAIN chain : t \in chain[j].txs => j = i
    BY <1>1 DEF LedgerInv, InOneBlock
  <1>4. HeightOf(t) = i
    <2>1. \E j \in DOMAIN chain : t \in chain[j].txs
      BY <1>1
    <2>2. HeightOf(t) \in DOMAIN chain /\ t \in chain[HeightOf(t)].txs
      BY <2>1 DEF HeightOf
    <2> QED
      BY <1>3, <2>2
  <1>5. \A k \in 1..i : chain[k].txs \subseteq OnChain
    <2>1. \A k \in 1..i : k \in DOMAIN chain
      BY <1>1
    <2> QED
      BY <2>1 DEF OnChain
  <1>6. ASSUME NEW o \in InputsOf(t) PROVE o[1] \in OnChain
    <2>1. t \in Txs /\ o \in Ins[t]
      <3>1. t \in AllTxs
        <4>1. chain[i] \in Blocks
          BY DEF LedgerInv, LedgerTypeOK
        <4> QED
          BY <4>1 DEF Blocks
      <3> QED
        BY <1>6, <3>1 DEF InputsOf, IsCoinBaseTx, AllTxs
    <2>2. PICK k \in 1..i : o[1] \in chain[k].txs
      BY <2>1 DEF LedgerInv, InputsBelow
    <2> QED
      BY <1>5, <2>2
  <1>7. ASSUME chain[i].binds PROVE Binding[1] \in OnChain
    <2>1. PICK k \in 1..i : Binding[1] \in chain[k].txs
      BY <1>7 DEF LedgerInv, InputsBelow
    <2> QED
      BY <1>5, <2>1
  <1> QED
    BY <1>2, <1>4, <1>6, <1>7

\* PickTx: the next transaction of the block.
LEMMA PickTxInv ==
  ASSUME LedgerInv, NEW t \in AllTxs, PickTx(t)
  PROVE  LedgerInv'
  <1>1. /\ q.pc = "tx" /\ t \in q.todo /\ Resting /\ clean' = clean
        /\ q' = [q EXCEPT !.pc = "vin", !.tx = t, !.todo = @ \ {t}]
    BY DEF PickTx, Resting
  <1>2. q \in Questions /\ clean \in BOOLEAN /\ (clean => Upright /\ NextTold /\ TxsTold)
    BY <1>1, Asking DEF TxSteps
  <1>3. q.todo \ {t} \in SUBSET AllTxs
    BY <1>2 DEF Questions
  <1>4. /\ q' \in Questions /\ q'.pc = "vin" /\ q'.tx = t /\ q'.todo = q.todo \ {t}
        /\ q'.kind = q.kind /\ q'.blk = q.blk /\ q'.idx = q.idx /\ q'.max = q.max
        /\ q'.next = q.next /\ q'.raw = q.raw /\ q'.err = q.err
    BY <1>1, <1>2, <1>3 DEF Questions, TxSteps
  <1>5. ASSUME clean' PROVE Upright' /\ NextTold' /\ TxsTold'
    <2>1. Upright /\ NextTold /\ TxsTold
      BY <1>1, <1>2, <1>5
    <2>2. Upright' /\ NextTold'
      BY <1>1, <1>4, <2>1 DEF Upright, NextTold, Resting, TxSteps
    <2>3. Told' = Told
      BY <1>4 DEF Told
    <2>4. Told \cup q.todo = q.blk.txs
      BY <1>1, <2>1 DEF TxsTold, TxSteps
    <2>5. Told' \cup q'.todo \cup {q'.tx} = q'.blk.txs /\ q'.tx \in q'.blk.txs
      BY <1>1, <1>4, <2>3, <2>4
    <2>6. \A r \in q'.raw : InTime(r.tx, r.status)'
      BY <1>1, <1>4, <2>1 DEF TxsTold, InTime, Resting
    <2>7. TxsTold'
      BY <1>4, <2>5, <2>6 DEF TxsTold, TxSteps
    <2> QED
      BY <2>2, <2>7
  <1> QED
    BY <1>1, <1>2, <1>4, <1>5, QuestionStep

\* TxsDone: all are told.
LEMMA TxsDoneInv ==
  ASSUME LedgerInv, TxsDone
  PROVE  LedgerInv'
  <1>1. q.pc = "tx" /\ q.todo = {} /\ Goto("done")
    BY DEF TxsDone
  <1>2. q \in Questions /\ clean \in BOOLEAN /\ (clean => Upright /\ NextTold /\ TxsTold)
    BY <1>1, Asking DEF TxSteps
  <1>3. /\ Resting /\ clean' = clean /\ q' \in Questions /\ q'.pc = "done"
        /\ q'.kind = q.kind /\ q'.blk = q.blk /\ q'.idx = q.idx /\ q'.max = q.max
        /\ q'.next = q.next /\ q'.raw = q.raw /\ q'.err = q.err
    BY <1>1, <1>2, Moves
  <1>4. ASSUME clean' PROVE Upright' /\ NextTold' /\ TxsTold'
    <2>1. Upright /\ NextTold /\ TxsTold
      BY <1>2, <1>3, <1>4
    <2>2. Upright' /\ NextTold'
      BY <1>1, <1>3, <2>1 DEF Upright, NextTold, Resting, TxSteps
    <2>3. Told' = Told
      BY <1>3 DEF Told
    <2>4. Told = q.blk.txs
      BY <1>1, <2>1 DEF TxsTold, TxSteps
    <2>5. \A r \in q'.raw : InTime(r.tx, r.status)'
      BY <1>3, <2>1 DEF TxsTold, InTime, Resting
    <2>6. TxsTold'
      BY <1>3, <2>3, <2>4, <2>5 DEF TxsTold, TxSteps
    <2> QED
      BY <2>2, <2>6
  <1> QED
    BY <1>2, <1>3, <1>4, QuestionStep

\* A step that only moves on inside a transaction: from its inputs to its status, or from its
\* type to the next one.
LEMMA MovesInTx ==
  ASSUME LedgerInv, NEW pc,
         \/ q.pc = "vin" /\ pc = "status"
         \/ q.pc = "type" /\ pc = "tx",
         Goto(pc)
  PROVE  LedgerInv'
  <1>1. /\ q.pc \in TxSteps /\ pc \in TxSteps
        /\ pc \in {"best", "next", "coinbaseIn", "coinbaseOut", "done"} \cup TxSteps
    BY DEF TxSteps
  <1>2. q \in Questions /\ clean \in BOOLEAN /\ (clean => Upright /\ NextTold /\ TxsTold)
    BY <1>1, Asking
  <1>3. /\ Resting /\ clean' = clean /\ q' \in Questions /\ q'.pc = pc
        /\ q'.kind = q.kind /\ q'.blk = q.blk /\ q'.idx = q.idx /\ q'.max = q.max
        /\ q'.next = q.next /\ q'.todo = q.todo /\ q'.tx = q.tx /\ q'.raw = q.raw /\ q'.err = q.err
    BY <1>1, <1>2, Moves
  <1>4. ASSUME clean' PROVE Upright' /\ NextTold' /\ TxsTold'
    <2>1. Upright /\ NextTold /\ TxsTold
      BY <1>2, <1>3, <1>4
    <2>2. Upright'
      BY <1>1, <1>3, <2>1 DEF Upright, Resting, TxSteps
    <2>3. NextTold'
      BY <1>1, <1>3, <2>1 DEF NextTold, Resting
    <2>4. Told' = Told
      BY <1>3 DEF Told
    <2>5. \A r \in q'.raw : InTime(r.tx, r.status)'
      BY <1>3, <2>1 DEF TxsTold, InTime, Resting
    <2>6. Told' \cup q'.todo \cup (IF q'.pc \in {"vin", "status", "height"}
                                 THEN {q'.tx} ELSE {}) = q'.blk.txs
      BY <1>3, <2>1, <2>4 DEF TxsTold, TxSteps
    <2>7. q'.pc \in TxSteps \ {"tx"} => q'.tx \in q'.blk.txs
      BY <1>3, <2>1 DEF TxsTold, TxSteps
    <2>8. TxsTold'
      BY <1>3, <2>5, <2>6, <2>7 DEF TxsTold, TxSteps
    <2> QED
      BY <2>2, <2>3, <2>8
  <1> QED
    BY <1>2, <1>3, <1>4, QuestionStep

\* An error is the answer only to a question that is stale.
LEMMA FailInv ==
  ASSUME LedgerInv, q \in Questions, Fail, ~clean
  PROVE  LedgerInv'
  <1>1. Resting /\ clean' = clean /\ q' \in Questions
    BY FailStays
  <1>2. clean \in BOOLEAN
    BY DEF LedgerInv, LedgerTypeOK
  <1> QED
    BY <1>1, <1>2, QuestionStep

\* CreateVinList: the inputs are found as long as the block is on the chain.
LEMMA CreateVinListInv ==
  ASSUME LedgerInv, CreateVinList
  PROVE  LedgerInv'
  <1>1. q.pc = "vin"
    BY DEF CreateVinList
  <1>2. q \in Questions /\ (clean => Upright /\ TxsTold)
    BY <1>1, Asking DEF TxSteps
  <1>3. CASE \A o \in InputsOf(q.tx) : o[1] \in pool \cup OnChain
    <2>1. Goto("status")
      BY <1>3 DEF CreateVinList
    <2> QED
      BY <1>1, <2>1, MovesInTx
  <1>4. CASE ~\A o \in InputsOf(q.tx) : o[1] \in pool \cup OnChain
    <2>1. Fail
      BY <1>4 DEF CreateVinList
    <2>2. ~clean
      <3> SUFFICES ASSUME clean PROVE FALSE
        OBVIOUS
      <3>1. q.idx \in 1..Len(chain) /\ q.tx \in chain[q.idx].txs
        BY <1>1, <1>2 DEF Upright, TxsTold, TxSteps
      <3>2. \A o \in InputsOf(q.tx) : o[1] \in OnChain
        BY <3>1, TxOfBlock
      <3> QED
        BY <1>4, <3>2
    <2> QED
      BY <1>2, <2>1, <2>2, FailInv
  <1> QED
    BY <1>3, <1>4

\* GetTxType: what the transaction spends is on the chain as long as its block is.
LEMMA GetTxTypeInv ==
  ASSUME LedgerInv, GetTxType
  PROVE  LedgerInv'
  <1>1. q.pc = "type"
    BY DEF GetTxType
  <1>2. q \in Questions /\ (clean => Upright /\ TxsTold)
    BY <1>1, Asking DEF TxSteps
  <1>3. CASE Goto("tx")
    BY <1>1, <1>3, MovesInTx
  <1>4. CASE Fail /\ \E o \in InputsOf(q.tx) : o[1] \notin OnChain
    <2>1. ~clean
      <3> SUFFICES ASSUME clean PROVE FALSE
        OBVIOUS
      <3>1. q.idx \in 1..Len(chain) /\ q.tx \in chain[q.idx].txs
        BY <1>1, <1>2 DEF Upright, TxsTold, TxSteps
      <3>2. \A o \in InputsOf(q.tx) : o[1] \in OnChain
        BY <3>1, TxOfBlock
      <3> QED
        BY <1>4, <3>2
    <2> QED
      BY <1>2, <1>4, <2>1, FailInv
  <1>5. Goto("tx") \/ (Fail /\ \E o \in InputsOf(q.tx) : o[1] \notin OnChain)
    BY DEF GetTxType
  <1> QED
    BY <1>3, <1>4, <1>5

\* a transaction is told with its status
Tells(status) ==
    /\ q' = [q EXCEPT !.pc = "type", !.raw = @ \cup {[tx |-> q.tx, status |-> status]}]
    /\ Resting /\ clean' = clean

\* What is told of a transaction of a block of the chain is its status there.
LEMMA TellsInv ==
  ASSUME LedgerInv, q.pc \in {"status", "height"}, NEW status \in Int, Tells(status),
         clean => InTime(q.tx, status)
  PROVE  LedgerInv'
  <1>1. q \in Questions /\ clean \in BOOLEAN /\ (clean => Upright /\ NextTold /\ TxsTold)
    BY Asking DEF TxSteps
  <1> DEFINE a == [tx |-> q.tx, status |-> status]
  <1>2. a \in Answers /\ a.tx = q.tx /\ a.status = status
    BY <1>1 DEF Answers, Questions
  <1>3. Resting /\ clean' = clean /\ q' = [q EXCEPT !.pc = "type", !.raw = @ \cup {a}]
    BY DEF Tells
  <1> HIDE DEF a
  <1>4. q.raw \cup {a} \in SUBSET Answers
    BY <1>1, <1>2 DEF Questions
  <1>5. /\ q' \in Questions /\ q'.pc = "type" /\ q'.raw = q.raw \cup {a}
        /\ q'.kind = q.kind /\ q'.blk = q.blk /\ q'.idx = q.idx /\ q'.max = q.max
        /\ q'.next = q.next /\ q'.todo = q.todo /\ q'.tx = q.tx /\ q'.err = q.err
    BY <1>1, <1>3, <1>4 DEF Questions, TxSteps
  <1>6. ASSUME clean' PROVE Upright' /\ NextTold' /\ TxsTold'
    <2>1. Upright /\ NextTold /\ TxsTold /\ clean
      BY <1>1, <1>3, <1>6
    <2>2. Upright'
      BY <1>3, <1>5, <2>1 DEF Upright, Resting, TxSteps
    <2>3. NextTold'
      BY <1>3, <1>5, <2>1 DEF NextTold, Resting, TxSteps
    <2>4. Told' = Told \cup {q.tx}
      BY <1>2, <1>5 DEF Told
    <2>5. \A r \in q'.raw : InTime(r.tx, r.status)'
      BY <1>2, <1>3, <1>5, <2>1 DEF TxsTold, InTime, Resting
    <2>6. Told' \cup q'.todo = q'.blk.txs /\ q'.tx \in q'.blk.txs
      BY <1>5, <2>1, <2>4 DEF TxsTold, TxSteps
    <2>7. TxsTold'
      BY <1>5, <2>5, <2>6 DEF TxsTold, TxSteps
    <2> QED
      BY <2>2, <2>3, <2>7
  <1> QED
    BY <1>1, <1>3, <1>5, <1>6, QuestionStep

\* TxInDB: a transaction of a block of the chain is in the database.
LEMMA TxInDBInv ==
  ASSUME LedgerInv, TxInDB
  PROVE  LedgerInv'
  <1>1. q.pc = "status" /\ Resting /\ clean' = clean
    BY DEF TxInDB, Resting
  <1>2. /\ q \in Questions /\ clean \in BOOLEAN /\ (clean => Upright /\ NextTold /\ TxsTold)
        /\ DOMAIN chain = 1..Len(chain)
    BY <1>1, Asking DEF TxSteps
  <1>3. clean => /\ q.idx \in 1..Len(chain) /\ q.tx \in chain[q.idx].txs
    BY <1>1, <1>2 DEF Upright, TxsTold, TxSteps
  <1>4. clean => q.tx \in OnChain /\ HeightOf(q.tx) = q.idx
    BY <1>3, TxOfBlock
  <1>5. CASE q.tx \notin OnChain
    <2> DEFINE status == IF q.tx \in pool THEN 2 ELSE -1
    <2>1. status \in Int /\ Tells(status)
      BY <1>1, <1>5 DEF TxInDB, Tells
    <2> HIDE DEF status
    <2> QED
      BY <1>1, <1>4, <1>5, <2>1, TellsInv
  <1>6. CASE q.tx \in OnChain
    <2> DEFINE h == HeightOf(q.tx)
    <2>1. q' = [q EXCEPT !.pc = "height", !.at = h]
      BY <1>6 DEF TxInDB
    <2>2. h \in Nat
      <3>1. \E i \in DOMAIN chain : q.tx \in chain[i].txs
        BY <1>6 DEF OnChain
      <3>2. h \in DOMAIN chain
        BY <3>1 DEF HeightOf
      <3> QED
        BY <1>2, <3>2
    <2> HIDE DEF h
    <2>3. /\ q' \in Questions /\ q'.pc = "height" /\ q'.at = h
          /\ q'.kind = q.kind /\ q'.blk = q.blk /\ q'.idx = q.idx /\ q'.max = q.max /\ q'.raw = q.raw
          /\ q'.next = q.next /\ q'.todo = q.todo /\ q'.tx = q.tx /\ q'.err = q.err
      BY <1>2, <2>1, <2>2 DEF Questions, TxSteps
    <2>4. ASSUME clean' PROVE Upright' /\ NextTold' /\ TxsTold'
      <3>1. Upright /\ NextTold /\ TxsTold /\ h = q.idx
        BY <1>1, <1>2, <1>4, <2>4 DEF h
      <3>2. Upright'
        BY <1>1, <2>3, <3>1 DEF Upright, Resting, TxSteps
      <3>3. NextTold'
        BY <1>1, <2>3, <3>1 DEF NextTold, Resting, TxSteps
      <3>4. Told' = Told
        BY <2>3 DEF Told
      <3>5. \A r \in q'.raw : InTime(r.tx, r.status)'
        BY <1>1, <2>3, <3>1 DEF TxsTold, InTime, Resting
      <3>6. Told' \cup q'.todo \cup {q'.tx} = q'.blk.txs /\ q'.tx \in q'.blk.txs
        BY <1>1, <2>3, <3>1, <3>4 DEF TxsTold, TxSteps
      <3>7. TxsTold'
        BY <2>3, <3>1, <3>5, <3>6 DEF TxsTold, TxSteps
      <3> QED
        BY <3>2, <3>3, <3>7
    <2> QED
      BY <1>1, <1>2, <2>3, <2>4, QuestionStep
  <1> QED
    BY <1>5, <1>6

\* Heights do not wrap.
LEMMA MinusIsLess ==
  ASSUME NEW a \in Nat, NEW b \in Nat, b <= a, a - b <= MaxBlocks
  PROVE  Minus(a, b) = a - b
  <1> DEFINE m == 2^Width
  <1>1. m \in Nat /\ MaxBlocks \in Nat /\ MaxBlocks < m
    BY LedgerAssumption
  <1>2. Minus(a, b) = (a - b) % m
    BY DEF Minus
  <1> HIDE DEF m
  <1>3. a - b \in Nat /\ a - b < m
    BY <1>1
  <1> QED
    BY <1>1, <1>2, <1>3

\* TxStatus: the height of now is not below the one the confirmations were counted from.
LEMMA TxStatusInv ==
  ASSUME LedgerInv, TxStatus
  PROVE  LedgerInv'
  <1> DEFINE status == Status(Minus(1 + Len(chain), q.at), Maturity(q.tx))
  <1>1. q.pc = "height" /\ Tells(status)
    BY DEF TxStatus, Tells, Resting
  <1>2. /\ q \in Questions /\ (clean => Upright /\ NextTold /\ TxsTold)
        /\ Len(chain) \in Nat
    BY <1>1, Asking DEF TxSteps
  <1>3. status \in {3, 4} /\ Maturity(q.tx) \in Nat
    BY Heights DEF Status
  <1>4. ASSUME clean PROVE InTime(q.tx, status)
    <2>1. q.at = q.idx /\ q.idx \in 1..Len(chain) /\ q.max <= Len(chain) /\ q.max \in Nat
      BY <1>1, <1>2, <1>4 DEF Upright, TxsTold, Questions
    <2>2. Len(chain) <= MaxBlocks
      <3>1. Len(chain) <= made /\ made <= MaxBlocks /\ made \in Nat
        BY DEF LedgerInv, Linked, LedgerTypeOK
      <3> QED
        BY <1>2, <3>1, Heights
    <2>3. Minus(1 + Len(chain), q.idx) = (1 + Len(chain)) - q.idx
      <3>1. 1 + Len(chain) \in Nat /\ q.idx \in Nat /\ q.idx <= 1 + Len(chain)
            /\ (1 + Len(chain)) - q.idx <= MaxBlocks
        BY <1>2, <2>1, <2>2, Heights
      <3> QED
        BY <3>1, MinusIsLess
    <2>4. status = 4 <=> (1 + Len(chain)) - q.idx >= Maturity(q.tx)
      BY <2>1, <2>3 DEF Status
    <2> HIDE DEF status
    <2>5. (q.max + 1) - q.idx >= Maturity(q.tx) => status = 4
      BY <1>2, <1>3, <2>1, <2>4
    <2>6. status = 4 => (Len(chain) + 1) - q.idx >= Maturity(q.tx)
      BY <1>2, <1>3, <2>1, <2>4
    <2> QED
      BY <1>3, <2>5, <2>6 DEF InTime
  <1> HIDE DEF status
  <1>5. status \in Int
    BY <1>3
  <1> QED
    BY <1>1, <1>4, <1>5, TellsInv

\* The steps of GetCoinbase, which ends without an error but for the first block.
LEMMA MovesInCoinbase ==
  ASSUME LedgerInv, NEW pc,
         \/ q.pc = "coinbaseIn" /\ pc = "coinbaseOut"
         \/ q.pc = "coinbaseOut" /\ pc = "done" /\ (clean => q.idx # 1),
         Goto(pc)
  PROVE  LedgerInv'
  <1>1. pc \in {"best", "next", "coinbaseIn", "coinbaseOut", "done"} \cup TxSteps
    OBVIOUS
  <1>2. q \in Questions /\ clean \in BOOLEAN /\ (clean => Upright /\ NextTold /\ TxsTold)
    BY Asking
  <1>3. /\ Resting /\ clean' = clean /\ q' \in Questions /\ q'.pc = pc
        /\ q'.kind = q.kind /\ q'.blk = q.blk /\ q'.idx = q.idx /\ q'.max = q.max
        /\ q'.next = q.next /\ q'.raw = q.raw /\ q'.err = q.err
    BY <1>1, <1>2, Moves
  <1>4. ASSUME clean' PROVE Upright' /\ NextTold' /\ TxsTold'
    <2>1. Upright /\ NextTold /\ TxsTold /\ q.kind = "coinbase"
      BY <1>2, <1>3, <1>4 DEF Upright
    <2>0. ~q'.err /\ ~(q'.pc = "done" /\ q'.kind = "coinbase" /\ q'.idx = 1)
      BY <1>3, <1>4, <2>1 DEF Upright
    <2>2. Upright'
      BY <1>3, <2>0, <2>1 DEF Upright, Resting, TxSteps
    <2>3. NextTold'
      BY <1>3, <2>1 DEF NextTold
    <2>4. \A r \in q'.raw : InTime(r.tx, r.status)'
      BY <1>3, <2>1 DEF TxsTold, InTime, Resting
    <2>5. TxsTold'
      BY <1>3, <2>1, <2>4 DEF TxsTold, TxSteps
    <2> QED
      BY <2>2, <2>3, <2>5
  <1> QED
    BY <1>2, <1>3, <1>4, QuestionStep

\* ShowCoinbaseInput: the binding output is on the chain below the block.
LEMMA ShowCoinbaseInputInv ==
  ASSUME LedgerInv, ShowCoinbaseInput
  PROVE  LedgerInv'
  <1>1. q.pc = "coinbaseIn"
    BY DEF ShowCoinbaseInput
  <1>2. q \in Questions /\ (clean => Upright)
    BY <1>1, Asking
  <1>3. CASE Goto("coinbaseOut")
    BY <1>1, <1>3, MovesInCoinbase
  <1>4. CASE Fail /\ q.blk.binds /\ Binding[1] \notin OnChain
    <2>1. ~clean
      <3> SUFFICES ASSUME clean PROVE FALSE
        OBVIOUS
      <3>1. q.idx \in 1..Len(chain) /\ chain[q.idx].binds
        BY <1>2, <1>4 DEF Upright
      <3>2. PICK j \in 1..q.idx : Binding[1] \in chain[j].txs
        BY <3>1 DEF LedgerInv, InputsBelow
      <3>3. j \in DOMAIN chain
        <4>1. DOMAIN chain = 1..Len(chain) /\ Len(chain) \in Nat
          BY DEF LedgerInv, LedgerTypeOK
        <4> QED
          BY <3>1, <3>2, <4>1
      <3> QED
        BY <1>4, <3>2, <3>3 DEF OnChain
    <2> QED
      BY <1>2, <1>4, <2>1, FailInv
  <1> QED
    BY <1>3, <1>4 DEF ShowCoinbaseInput

\* ShowCoinbaseOutput: the previous block is on the chain below the block; the first has none.
LEMMA ShowCoinbaseOutputInv ==
  ASSUME LedgerInv, ShowCoinbaseOutput
  PROVE  LedgerInv'
  <1>1. q.pc = "coinbaseOut"
    BY DEF ShowCoinbaseOutput
  <1>2. /\ q \in Questions /\ clean \in BOOLEAN /\ (clean => Upright /\ NextTold /\ TxsTold)
        /\ DOMAIN chain = 1..Len(chain) /\ Len(chain) \in Nat
    BY <1>1, Asking
  <1>3. ASSUME clean
        PROVE  (\E i \in DOMAIN chain : chain[i].id = q.blk.prev) <=> q.idx # 1
    <2>1. q.idx \in 1..Len(chain) /\ chain[q.idx] = q.blk
      BY <1>2, <1>3 DEF Upright
    <2>2. chain[1].prev = 0 /\ \A i \in 1..Len(chain) : chain[i].id # 0
      BY DEF LedgerInv, Linked
    <2>3. CASE q.idx = 1
      BY <1>2, <2>1, <2>2, <2>3
    <2>4. CASE q.idx # 1
      <3>1. q.idx \in 2..Len(chain) /\ q.idx - 1 \in DOMAIN chain
        BY <1>2, <2>1, <2>4
      <3>2. chain[q.idx].prev = chain[q.idx - 1].id
        BY <3>1 DEF LedgerInv, Linked
      <3> QED
        BY <2>1, <2>4, <3>1, <3>2
    <2> QED
      BY <2>3, <2>4
  <1>4. CASE Goto("done") /\ \E i \in DOMAIN chain : chain[i].id = q.blk.prev
    BY <1>1, <1>3, <1>4, MovesInCoinbase
  <1>5. CASE Fail /\ ~\E i \in DOMAIN chain : chain[i].id = q.blk.prev
    <2>1. Resting /\ clean' = clean /\ q' \in Questions
      BY <1>2, <1>5, FailStays
    <2>2. /\ q'.pc = "done" /\ q'.err = TRUE /\ q'.kind = q.kind /\ q'.blk = q.blk /\ q'.idx = q.idx
          /\ q'.max = q.max /\ q'.raw = q.raw
      BY <1>2, <1>5 DEF Fail, Questions
    <2>3. ASSUME clean' PROVE Upright' /\ NextTold' /\ TxsTold'
      <3>1. Upright /\ TxsTold /\ q.kind = "coinbase" /\ q.idx = 1
        BY <1>1, <1>2, <1>3, <1>5, <2>1, <2>3 DEF Upright
      <3>2. Upright'
        BY <1>1, <2>1, <2>2, <3>1 DEF Upright, Resting, TxSteps
      <3>3. NextTold'
        BY <2>2, <3>1 DEF NextTold
      <3>4. \A r \in q'.raw : InTime(r.tx, r.status)'
        BY <2>1, <2>2, <3>1 DEF TxsTold, InTime, Resting
      <3>5. TxsTold'
        BY <2>2, <3>1, <3>4 DEF TxsTold, TxSteps
      <3> QED
        BY <3>2, <3>3, <3>5
    <2> QED
      BY <1>2, <2>1, <2>3, QuestionStep
  <1> QED
    BY <1>4, <1>5 DEF ShowCoinbaseOutput

\* PoolTxs: the transactions of the pool of this moment.
LEMMA PoolTxsInv ==
  ASSUME LedgerInv, PoolTxs
  PROVE  LedgerInv'
  <1>1. Resting /\ clean' = TRUE /\ q' = [pc |-> "orphans", txs |-> pool, orphans |-> {}]
    BY DEF PoolTxs, Resting, PoolOrder, PoolList
  <1>2. q' \in PoolQuestions
    BY <1>1 DEF PoolQuestions, LedgerInv, LedgerTypeOK
  <1>3. q'.pc = "orphans" /\ q'.txs = pool
    BY <1>1
  <1>4. PoolTold'
    BY <1>1, <1>3 DEF PoolTold, Resting
  <1>5. \A r \in Questions : r.pc # "orphans"
    BY DEF Questions, TxSteps
  <1> QED
    BY <1>1, <1>2, <1>3, <1>4, <1>5, LedgerRests

\* PoolOrphans: none of them was in the pool when that was read.
LEMMA PoolOrphansInv ==
  ASSUME LedgerInv, PoolOrphans
  PROVE  LedgerInv'
  <1>1. q.pc = "orphans" /\ LedgerTypeOK
    BY DEF PoolOrphans, LedgerInv
  <1>2. q \in PoolQuestions
    BY <1>1, QuestionKind
  <1>3. Resting /\ clean' = clean /\ q' = [q EXCEPT !.pc = "pooled", !["orphans"] = orphans]
    BY DEF PoolOrphans, Resting, PoolOrder, PoolList
  <1>4. q' \in PoolQuestions /\ q'.pc = "pooled" /\ q'.txs = q.txs /\ q'.orphans = orphans
    BY <1>1, <1>2, <1>3 DEF PoolQuestions, LedgerTypeOK
  <1>5. q.txs \cap orphans = {}
    BY <1>1 DEF LedgerInv, PoolTold, PoolClosed
  <1>6. PoolTold'
    BY <1>4, <1>5 DEF PoolTold
  <1>7. \A r \in Questions : r.pc # "pooled"
    BY DEF Questions, TxSteps
  <1> QED
    BY <1>1, <1>3, <1>4, <1>6, <1>7, LedgerRests DEF LedgerTypeOK

\* Return: the handler is free.
LEMMA ReturnInv ==
  ASSUME LedgerInv, Return
  PROVE  LedgerInv'
  <1>1. Resting /\ clean' = clean /\ q' = Idle
    BY DEF Return, Resting
  <1>2. q'.pc = "idle"
    BY <1>1 DEF Idle
  <1>3. PoolTold'
    BY <1>2 DEF PoolTold
  <1>4. \A r \in Questions : r.pc # "idle"
    BY DEF Questions, TxSteps
  <1> QED
    BY <1>1, <1>2, <1>3, <1>4, LedgerRests DEF LedgerInv, LedgerTypeOK

\* Every step keeps the invariant.
LEMMA NextLedgerInv == LedgerInv /\ [LedgerNext]_ledgerVars => LedgerInv'
  <1> SUFFICES ASSUME LedgerInv, [LedgerNext]_ledgerVars PROVE LedgerInv'
    OBVIOUS
  <1>1. ASSUME NEW t \in Txs, Arrive(t) PROVE LedgerInv'
    BY <1>1, ArriveInv
  <1>2. ASSUME NEW S \in SUBSET pool, NEW binds \in BOOLEAN, Extend(S, binds) PROVE LedgerInv'
    BY <1>2, ExtendInv
  <1>3. ASSUME NEW n \in 1..2, Reorganise(n) PROVE LedgerInv'
    BY <1>3, ReorganiseInv
  <1>4. ASSUME NEW kind \in Kinds, NEW h \in 1..MaxBlocks, Get(kind, h) PROVE LedgerInv'
    BY <1>4, GetInv
  <1>5. ASSUME NEW t \in AllTxs, PickTx(t) PROVE LedgerInv'
    BY <1>5, PickTxInv
  <1>6. CASE BestBlockHeight \/ NextHash \/ TxsDone \/ CreateVinList \/ TxInDB \/ TxStatus
    BY <1>6, BestBlockHeightInv, NextHashInv, TxsDoneInv, CreateVinListInv, TxInDBInv, TxStatusInv
  <1>7. CASE GetTxType \/ ShowCoinbaseInput \/ ShowCoinbaseOutput \/ PoolTxs \/ PoolOrphans \/ Return
    BY <1>7, GetTxTypeInv, ShowCoinbaseInputInv, ShowCoinbaseOutputInv, PoolTxsInv, PoolOrphansInv,
       ReturnInv
  <1>8. CASE UNCHANGED ledgerVars
    <2>1. Resting /\ clean' = clean /\ q' = q
      BY <1>8 DEF ledgerVars, Resting
    <2>2. OnChain' = OnChain
      BY <2>1 DEF OnChain, Resting
    <2>3. PoolTold'
      BY <2>1, <2>2 DEF LedgerInv, PoolTold, Resting
    <2>4. (clean /\ q \in Questions => Upright /\ NextTold /\ TxsTold)'
      BY <2>1 DEF LedgerInv, Upright, NextTold, TxsTold, Told, InTime, Resting
    <2> QED
      BY <2>1, <2>3, <2>4, LedgerRests DEF LedgerInv, LedgerTypeOK
  <1> QED
    BY <1>1, <1>2, <1>3, <1>4, <1>5, <1>6, <1>7, <1>8 DEF LedgerNext

\* The invariant holds for any transactions, blocks and questions.
THEOREM LedgerInvariant == LedgerSpec => []LedgerInv
  BY InitLedgerInv, NextLedgerInv, PTL DEF LedgerSpec

-----------------------------------------------------------------------------
\* For any transactions, any chain that grows and is reorganised meanwhile, and as long as
\* heights do not wrap: GetBlock and the others answer no error while the chain only grows, but for
\* GetCoinbase of the first block; with the child's hash exactly when there is one, every
\* transaction of the block, its coinbase too, and no status behind the confirmations or ahead of
\* the chain; and GetTxPool lists no transaction twice.
THEOREM LedgerAnswersHold == LedgerSpec => []LedgerAnswers
  <1>1. LedgerInv => LedgerAnswers
    <2> SUFFICES ASSUME LedgerInv PROVE LedgerAnswers
      OBVIOUS
    <2>1. LedgerTypeOK
      BY DEF LedgerInv
    <2>2. PoolOnce
      BY DEF LedgerInv, PoolTold, PoolOnce
    <2>4. ASSUME q.pc = "done", clean
          PROVE  /\ q \in Questions /\ Upright /\ NextTold /\ TxsTold
                 /\ Confirmations = (q.max + 1) - q.idx
                 /\ q.idx \in 1..Len(chain) /\ q.max \in Nat /\ q.idx <= q.max /\ q.max <= Len(chain)
                 /\ Len(chain) \in Nat
      <3>1. q \in Questions /\ Upright /\ NextTold /\ TxsTold
        BY <2>1, <2>4, QuestionKind DEF LedgerInv
      <3>2. q.idx \in 1..Len(chain) /\ q.max \in Nat /\ q.idx <= q.max /\ q.max <= Len(chain)
        BY <2>4, <3>1 DEF Upright, Questions
      <3>3. Len(chain) \in Nat /\ Len(chain) <= MaxBlocks
        <4>1. Len(chain) <= made /\ made <= MaxBlocks /\ made \in Nat /\ Len(chain) \in Nat
          BY DEF LedgerInv, Linked, LedgerTypeOK
        <4> QED
          BY <4>1, Heights
      <3>4. q.max + 1 \in Nat /\ q.idx \in Nat /\ q.idx <= q.max + 1 /\ (q.max + 1) - q.idx <= MaxBlocks
        BY <3>2, <3>3, Heights
      <3>5. Confirmations = (q.max + 1) - q.idx
        BY <3>4, MinusIsLess DEF Confirmations
      <3> QED
        BY <3>1, <3>2, <3>3, <3>5
    <2>5. WholeAnswer
      <3> SUFFICES ASSUME q.pc = "done", clean
                   PROVE  /\ q.err <=> q.kind = "coinbase" /\ q.idx = 1
                          /\ q.kind # "coinbase" =>
                               /\ q.next # None <=> Confirmations > 1
                               /\ q.next # None => \E i \in DOMAIN chain :
                                      chain[i].id = q.next /\ chain[i].prev = q.blk.id
                          /\ q.kind = "verbose" =>
                               /\ {r.tx : r \in q.raw} = q.blk.txs
                               /\ \A r \in q.raw : r.status \in {3, 4}
        BY DEF WholeAnswer, Done
      <3>1. /\ q \in Questions /\ Upright /\ NextTold /\ TxsTold
            /\ Confirmations = (q.max + 1) - q.idx
            /\ q.idx \in 1..Len(chain) /\ q.max \in Nat /\ q.idx <= q.max /\ q.max <= Len(chain)
            /\ Len(chain) \in Nat
        BY <2>4
      <3>2. (q.err <=> q.kind = "coinbase" /\ q.idx = 1) /\ chain[q.idx] = q.blk
        BY <3>1 DEF Upright
      <3>3. ASSUME q.kind # "coinbase"
            PROVE  /\ q.next # None <=> Confirmations > 1
                   /\ q.next # None => \E i \in DOMAIN chain :
                          chain[i].id = q.next /\ chain[i].prev = q.blk.id
        <4>1. /\ q.next # None <=> q.idx < q.max
              /\ q.next # None => q.next = chain[q.idx + 1].id
          BY <3>1, <3>3 DEF NextTold
        <4>2. q.idx < q.max <=> Confirmations > 1
          BY <3>1
        <4>3. ASSUME q.idx < q.max
              PROVE  q.idx + 1 \in DOMAIN chain /\ chain[q.idx + 1].prev = q.blk.id
          <5>1. q.idx + 1 \in 2..Len(chain) /\ (q.idx + 1) - 1 = q.idx
            BY <3>1, <4>3
          <5>2. DOMAIN chain = 1..Len(chain)
            BY <2>1 DEF LedgerTypeOK
          <5>3. \A i \in 2..Len(chain) : chain[i].prev = chain[i - 1].id
            BY DEF LedgerInv, Linked
          <5>4. chain[q.idx + 1].prev = chain[(q.idx + 1) - 1].id
            BY <5>1, <5>3
          <5> QED
            BY <3>1, <3>2, <5>1, <5>2, <5>4
        <4> QED
          BY <4>1, <4>2, <4>3
      <3>4. ASSUME q.kind = "verbose"
            PROVE  {r.tx : r \in q.raw} = q.blk.txs /\ \A r \in q.raw : r.status \in {3, 4}
        BY <3>1, <3>4 DEF TxsTold, Told, InTime
      <3> QED
        BY <3>2, <3>3, <3>4
    <2>6. StatusInTime
      <3> DEFINE blocks == Len(chain) - q.idx + 1
      <3> SUFFICES ASSUME q.pc = "done", clean
                   PROVE  /\ \A r \in q.raw : /\ Confirmations >= Maturity(r.tx) => r.status = 4
                                              /\ r.status = 4 => blocks >= Maturity(r.tx)
                          /\ CoinbaseStatus = 4 => blocks > CoinbaseMaturity
        BY DEF StatusInTime, Done
      <3>1. /\ TxsTold /\ Confirmations = (q.max + 1) - q.idx
            /\ q.idx \in 1..Len(chain) /\ q.max \in Nat /\ q.idx <= q.max /\ q.max <= Len(chain)
            /\ Len(chain) \in Nat
        BY <2>4
      <3>2. blocks = (Len(chain) + 1) - q.idx /\ blocks \in Nat
        BY <3>1
      <3> HIDE DEF blocks
      <3>3. ASSUME NEW r \in q.raw
            PROVE  /\ Confirmations >= Maturity(r.tx) => r.status = 4
                   /\ r.status = 4 => blocks >= Maturity(r.tx)
        BY <3>1, <3>2 DEF TxsTold, InTime
      <3>4. ASSUME CoinbaseStatus = 4 PROVE blocks > CoinbaseMaturity
        <4>1. Len(chain) <= made /\ made <= MaxBlocks /\ made \in Nat
          BY DEF LedgerInv, Linked, LedgerTypeOK
        <4>2. q.idx \in Nat /\ q.max - q.idx <= MaxBlocks
          BY <3>1, <4>1, Heights
        <4>3. Minus(q.max, q.idx) = q.max - q.idx
          BY <3>1, <4>2, MinusIsLess
        <4>4. q.max - q.idx >= CoinbaseMaturity
          BY <3>4, <4>3 DEF CoinbaseStatus, Status
        <4> QED
          BY <3>1, <3>2, <4>4, Heights
      <3> QED
        BY <3>3, <3>4
    <2> QED
      BY <2>2, <2>5, <2>6 DEF LedgerAnswers
  <1> QED
    BY <1>1, LedgerInvariant, PTL

-----------------------------------------------------------------------------
(* The spaces in use *)

WorkSpaces == [ord : 1..MaxKeys, bl : BitLengths, dir : Dirs]

\* how many of the spaces S have a bit length
CountOf(S, bl) == Cardinality({s \in S : s.bl = bl})

\* the same for spaces to be made, a sequence of bit lengths
CountIn(todo, bl) == Cardinality({i \in 1..Len(todo) : todo[i] = bl})

Worth(S) == 64 * CountOf(S, 28) + 16 * CountOf(S, 26) + 3 * CountOf(S, 24)

WorthOf(todo) == 64 * CountIn(todo, 28) + 16 * CountIn(todo, 26) + 3 * CountIn(todo, 24)

OneID(S) == \A s, t \in S : ID(s) = ID(t) => s = t

\* of the bit lengths new spaces are made of, which a size counts
Usual(S) == \A s \in S : s.bl \in {24, 26, 28}

UsualPlan(todo) == \A i \in 1..Len(todo) : todo[i] \in {24, 26, 28}

\* These are bit lengths.
LEMMA ThreeLengths == {24, 26, 28} \subseteq BitLengths
  BY DEF BitLengths

\* There are finitely many.
LEMMA LengthsFinite == IsFiniteSet(BitLengths)
  <1>1. BitLengths \in SUBSET (1..40)
    BY DEF BitLengths
  <1>2. IsFiniteSet(1..40)
    <2>1. 1 \in Int /\ 40 \in Int
      OBVIOUS
    <2> QED
      BY <2>1, FS_Interval
  <1> QED
    BY <1>1, <1>2, FS_Subset

\* Nothing is of these bit lengths.
LEMMA UsualNone == Usual({}) /\ UsualPlan(<<>>)
  BY DEF Usual, UsualPlan

\* There are finitely many spaces.
LEMMA SpacesFinite == IsFiniteSet(WorkSpaces)
  <1> DEFINE P == ((1..MaxKeys) \X BitLengths) \X Dirs
             f == [p \in P |-> [ord |-> p[1][1], bl |-> p[1][2], dir |-> p[2]]]
  <1>1. IsFiniteSet(1..MaxKeys)
    <2>1. 1 \in Int /\ MaxKeys \in Int
      BY ConfigureAssumption
    <2> QED
      BY <2>1, FS_Interval
  <1>2. IsFiniteSet(BitLengths)
    BY LengthsFinite
  <1>3. IsFiniteSet(Dirs)
    BY ConfigureAssumption
  <1>4. IsFiniteSet(P)
    BY <1>1, <1>2, <1>3, FS_Product
  <1>5. f \in Surjection(P, WorkSpaces)
    <2>1. \A p \in P : f[p] \in WorkSpaces
      BY DEF WorkSpaces
    <2>2. ASSUME NEW s \in WorkSpaces PROVE \E p \in P : f[p] = s
      <3> DEFINE p == << <<s.ord, s.bl>>, s.dir >>
      <3>1. p \in P
        BY DEF WorkSpaces
      <3>2. f[p] = s
        BY <3>1 DEF WorkSpaces
      <3> QED
        BY <3>1, <3>2
    <2> QED
      BY <2>1, <2>2 DEF Surjection
  <1> HIDE DEF P, f
  <1> QED
    BY <1>4, <1>5, FS_Surjection

\* Parts of them too.
LEMMA PartFinite ==
  ASSUME NEW S \in SUBSET WorkSpaces
  PROVE  /\ IsFiniteSet(S) /\ Cardinality(S) \in Nat
         /\ \A bl : IsFiniteSet({s \in S : s.bl = bl}) /\ CountOf(S, bl) \in Nat
  <1>1. IsFiniteSet(S)
    BY SpacesFinite, FS_Subset
  <1>2. ASSUME NEW bl PROVE IsFiniteSet({s \in S : s.bl = bl}) /\ CountOf(S, bl) \in Nat
    <2>1. IsFiniteSet({s \in S : s.bl = bl})
      BY <1>1, FS_Subset
    <2> QED
      BY <2>1, FS_CardinalityType DEF CountOf
  <1> QED
    BY <1>1, <1>2, FS_CardinalityType

\* One space more.
LEMMA CountAdd ==
  ASSUME NEW S \in SUBSET WorkSpaces, NEW x \in WorkSpaces, x \notin S, NEW bl
  PROVE  CountOf(S \cup {x}, bl) = CountOf(S, bl) + (IF x.bl = bl THEN 1 ELSE 0)
  <1> DEFINE A == {s \in S : s.bl = bl}
  <1>1. IsFiniteSet(A) /\ Cardinality(A) \in Nat
    BY PartFinite DEF CountOf
  <1>2. CASE x.bl = bl
    <2>1. {s \in S \cup {x} : s.bl = bl} = A \cup {x} /\ x \notin A
      BY <1>2
    <2> QED
      BY <1>1, <1>2, <2>1, FS_AddElement DEF CountOf
  <1>3. CASE x.bl # bl
    <2>1. {s \in S \cup {x} : s.bl = bl} = A
      BY <1>3
    <2> QED
      BY <1>1, <1>3, <2>1 DEF CountOf
  <1> QED
    BY <1>2, <1>3

\* Parts of a set, and two sets taken together.
LEMMA CountPart ==
  ASSUME NEW S \in SUBSET WorkSpaces, NEW R \in SUBSET WorkSpaces, NEW bl
  PROVE  /\ R \subseteq S => CountOf(R, bl) <= CountOf(S, bl)
         /\ CountOf(S \cup R, bl) <= CountOf(S, bl) + CountOf(R, bl)
         /\ S \cap R = {} => CountOf(S \cup R, bl) = CountOf(S, bl) + CountOf(R, bl)
  <1> DEFINE A == {s \in S : s.bl = bl}
             B == {s \in R : s.bl = bl}
  <1>1. /\ IsFiniteSet(A) /\ CountOf(S, bl) = Cardinality(A) /\ Cardinality(A) \in Nat
        /\ IsFiniteSet(B) /\ CountOf(R, bl) = Cardinality(B) /\ Cardinality(B) \in Nat
    BY PartFinite DEF CountOf
  <1>2. CountOf(S \cup R, bl) = Cardinality(A \cup B)
    <2>1. {s \in S \cup R : s.bl = bl} = A \cup B
      OBVIOUS
    <2> QED
      BY <2>1 DEF CountOf
  <1>3. R \subseteq S => B \in SUBSET A
    OBVIOUS
  <1>4. S \cap R = {} => A \cap B = {}
    OBVIOUS
  <1> HIDE DEF A, B
  <1>5. IsFiniteSet(A \cap B) /\ Cardinality(A \cap B) \in Nat
    BY <1>1, FS_Intersection, FS_CardinalityType
  <1>6. Cardinality(A \cup B) = Cardinality(A) + Cardinality(B) - Cardinality(A \cap B)
    BY <1>1, FS_Union
  <1>7. R \subseteq S => Cardinality(B) <= Cardinality(A)
    BY <1>1, <1>3, FS_Subset
  <1> QED
    BY <1>1, <1>2, <1>4, <1>5, <1>6, <1>7, FS_EmptySet

\* the sizes of the spaces S
Sizes(S) == [s \in S |-> Size(s)]

\* A plot's size is a number.
LEMMA SizeIs ==
  ASSUME NEW s \in WorkSpaces
  PROVE  /\ Size(s) \in Nat
         /\ s.bl \in {24, 26, 28} => Size(s) = IF s.bl = 28 THEN 64 ELSE IF s.bl = 26 THEN 16 ELSE 3
  <1>1. s.bl \in BitLengths
    BY DEF WorkSpaces
  <1> QED
    BY <1>1 DEF BitLengths, Size, PlotSize

\* Total is a sum.
LEMMA TotalIsSum ==
  ASSUME NEW S \in SUBSET WorkSpaces
  PROVE  Total(S) = SumOver(Sizes(S), S)
  <1> DEFINE F == Sizes(S)
             Ok(g) == g = [s \in SUBSET S |-> IF s = {} THEN 0
                                             ELSE LET x == CHOOSE y \in s : TRUE
                                                  IN  Size(x) + g[s \ {x}]]
             it == CHOOSE g : Ok(g)
             su == CHOOSE g : Adds(F, S, g)
  <1>1. IsFiniteSet(S)
    BY PartFinite
  <1>2. Total(S) = it[S]
    BY DEF Total, MapThenSumSet, MapThenFoldSet
  <1>3. SumOver(F, S) = su[S]
    BY DEF SumOver
  <1>4. \A s \in SUBSET S : s # {} => F[Some(s)] = Size(Some(s))
    <2>1. \A s \in SUBSET S : s # {} => Some(s) \in S
      BY DEF Some
    <2> QED
      BY <2>1 DEF Sizes
  <1>5. ASSUME NEW g PROVE Ok(g) <=> Adds(F, S, g)
    <2>1. [s \in SUBSET S |-> IF s = {} THEN 0
                              ELSE LET x == CHOOSE y \in s : TRUE IN Size(x) + g[s \ {x}]]
          = [s \in SUBSET S |-> IF s = {} THEN 0 ELSE F[Some(s)] + g[s \ {Some(s)}]]
      BY <1>4 DEF Some
    <2> QED
      BY <2>1 DEF Adds
  <1>6. Adds(F, S, su)
    BY <1>1, AddsExists
  <1> HIDE DEF F, su, Ok
  <1>7. Ok(it)
    BY <1>5, <1>6
  <1>8. Adds(F, S, it)
    BY <1>5, <1>7
  <1> HIDE DEF it
  <1>9. it[S] = su[S]
    BY <1>1, <1>6, <1>8, AddsSame
  <1> QED
    BY <1>2, <1>3, <1>9 DEF F

\* A total is taken apart space by space.
LEMMA TotalStep ==
  ASSUME NEW S \in SUBSET WorkSpaces
  PROVE  /\ S = {} => Total(S) = 0
         /\ \A x \in S : Total(S) = Size(x) + Total(S \ {x})
  <1>1. IsFiniteSet(S) /\ \A x \in S : Sizes(S)[x] \in Int /\ Sizes(S)[x] = Size(x)
    BY PartFinite, SizeIs DEF Sizes
  <1>2. /\ S = {} => SumOver(Sizes(S), S) = 0
        /\ \A x \in S : SumOver(Sizes(S), S) = Sizes(S)[x] + SumOver(Sizes(S), S \ {x})
    BY <1>1, SumStep
  <1>3. ASSUME NEW x \in S PROVE SumOver(Sizes(S), S \ {x}) = Total(S \ {x})
    <2>1. IsFiniteSet(S \ {x})
      BY <1>1, FS_Subset
    <2>2. \A y \in S \ {x} : Sizes(S)[y] = Sizes(S \ {x})[y]
      BY DEF Sizes
    <2>3. SumOver(Sizes(S), S \ {x}) = SumOver(Sizes(S \ {x}), S \ {x})
      BY <2>1, <2>2, SumSame
    <2> QED
      BY <2>3, TotalIsSum
  <1> QED
    BY <1>1, <1>2, <1>3, TotalIsSum

\* A total is a number, and that of two sets that have nothing in common is the sum.
LEMMA TotalJoin ==
  ASSUME NEW S \in SUBSET WorkSpaces, NEW P \in SUBSET WorkSpaces, P \cap S = {}
  PROVE  Total(S) \in Nat /\ Total(P) \in Nat /\ Total(P \cup S) = Total(P) + Total(S)
  <1> DEFINE Bad(W, R) == ~(Total(R) \in Nat /\ (W \cap R = {} => Total(W \cup R) = Total(W) + Total(R)))
  <1>1. ASSUME NEW W \in SUBSET WorkSpaces, Total(W) \in Nat, NEW V \in SUBSET WorkSpaces
        PROVE  ~Bad(W, V)
    <2> DEFINE T == {n \in Nat : \E R \in SUBSET WorkSpaces : Cardinality(R) = n /\ Bad(W, R)}
    <2>1. T = {}
      <3> SUFFICES ASSUME T # {} PROVE FALSE
        OBVIOUS
      <3>1. PICK n \in T : \A k \in T : n <= k
        BY Least
      <3>2. PICK R \in SUBSET WorkSpaces : Cardinality(R) = n /\ Bad(W, R)
        BY <3>1
      <3>3. R # {}
        <4> SUFFICES ASSUME R = {} PROVE FALSE
          OBVIOUS
        <4>1. Total(R) = 0 /\ W \cup R = W
          BY TotalStep
        <4>2. Total(W \cup R) = Total(W) + Total(R)
          BY <1>1, <4>1
        <4> QED
          BY <3>2, <4>1, <4>2
      <3>4. PICK x \in R : TRUE
        BY <3>3
      <3> DEFINE Q == R \ {x}
      <3>5. Q \in SUBSET WorkSpaces /\ x \notin Q /\ R = Q \cup {x} /\ x \in WorkSpaces
        BY <3>4
      <3>6. IsFiniteSet(Q) /\ Cardinality(Q) \in Nat
        BY <3>5, PartFinite
      <3>7. Cardinality(R) = Cardinality(Q) + 1
        BY <3>5, <3>6, FS_AddElement
      <3>8. Total(R) = Size(x) + Total(Q)
        BY <3>4, TotalStep
      <3>9. ASSUME W \cap R = {} PROVE Total(W \cup R) = Size(x) + Total(W \cup Q)
        <4>1. W \cup R \in SUBSET WorkSpaces /\ x \in W \cup R /\ (W \cup R) \ {x} = W \cup Q
          BY <3>4, <3>9
        <4> DEFINE V2 == W \cup R
        <4>2. V2 \in SUBSET WorkSpaces /\ x \in V2
          BY <4>1
        <4>3. Total(V2) = Size(x) + Total(V2 \ {x})
          <5> HIDE DEF V2
          <5> QED
            BY <4>2, TotalStep
        <4> QED
          BY <4>1, <4>3
      <3>10. W \cap R = {} => W \cap Q = {}
        OBVIOUS
      <3> HIDE DEF Q
      <3>11. ~Bad(W, Q)
        <4> HIDE DEF Bad
        <4> QED
          BY <3>1, <3>2, <3>5, <3>6, <3>7
      <3>12. Size(x) \in Nat
        BY <3>5, SizeIs
      <3>13. Total(Q) \in Nat /\ Total(R) \in Nat
        BY <3>8, <3>11, <3>12
      <3>14. W \cap R = {} => Total(W \cup R) = Total(W) + Total(R)
        BY <1>1, <3>8, <3>9, <3>10, <3>11, <3>12, <3>13
      <3> QED
        BY <3>2, <3>13, <3>14
    <2>2. Cardinality(V) \in Nat
      BY PartFinite
    <2> HIDE DEF Bad
    <2> QED
      BY <2>1, <2>2
  <1>2. Total({}) \in Nat /\ {} \in SUBSET WorkSpaces
    BY TotalStep
  <1>3. \A V \in SUBSET WorkSpaces : Total(V) \in Nat
    BY <1>1, <1>2
  <1>4. ~Bad(P, S)
    <2> HIDE DEF Bad
    <2> QED
      BY <1>1, <1>3
  <1> QED
    BY <1>3, <1>4

\* A total is a number.
LEMMA TotalNat ==
  ASSUME NEW S \in SUBSET WorkSpaces
  PROVE  Total(S) \in Nat
  <1> DEFINE e == S \ S
  <1>1. e \in SUBSET WorkSpaces /\ e \cap S = {}
    OBVIOUS
  <1> HIDE DEF e
  <1> QED
    BY <1>1, TotalJoin

\* What spaces are worth is decided by how many there are of each bit length.
LEMMA TotalWorth ==
  ASSUME NEW S \in SUBSET WorkSpaces, Usual(S)
  PROVE  Total(S) = Worth(S)
  <1> DEFINE T == {n \in Nat : \E R \in SUBSET WorkSpaces :
                              Cardinality(R) = n /\ Usual(R) /\ Total(R) # Worth(R)}
  <1>1. T = {}
    <2> SUFFICES ASSUME T # {} PROVE FALSE
      OBVIOUS
    <2>1. PICK n \in T : \A k \in T : n <= k
      BY Least
    <2>2. PICK R \in SUBSET WorkSpaces : Cardinality(R) = n /\ Usual(R) /\ Total(R) # Worth(R)
      BY <2>1
    <2>3. CASE R = {}
      <3>1. \A bl : CountOf(R, bl) = 0
        <4>1. \A bl : {s \in R : s.bl = bl} = {}
          BY <2>3
        <4> QED
          BY <4>1, FS_EmptySet DEF CountOf
      <3>2. Worth(R) = 0
        BY <3>1 DEF Worth
      <3> QED
        BY <2>2, <2>3, <3>2, TotalStep
    <2>4. CASE R # {}
      <3>1. PICK x \in R : TRUE
        BY <2>4
      <3> DEFINE Q == R \ {x}
      <3>2. Q \in SUBSET WorkSpaces /\ x \notin Q /\ R = Q \cup {x} /\ x \in WorkSpaces
        BY <3>1
      <3>3. IsFiniteSet(Q) /\ Cardinality(Q) \in Nat
        BY <3>2, PartFinite
      <3>4. Cardinality(R) = Cardinality(Q) + 1
        BY <3>2, <3>3, FS_AddElement
      <3>u. Usual(Q) /\ x.bl \in {24, 26, 28}
        BY <2>2, <3>1 DEF Usual
      <3> HIDE DEF Q
      <3>5. Total(Q) = Worth(Q)
        BY <2>1, <2>2, <3>u, <3>2, <3>3, <3>4
      <3>6. Total(R) = Size(x) + Total(Q)
        BY <3>1, TotalStep DEF Q
      <3>7. /\ CountOf(Q, 28) \in Nat /\ CountOf(Q, 26) \in Nat /\ CountOf(Q, 24) \in Nat
            /\ CountOf(R, 28) = CountOf(Q, 28) + (IF x.bl = 28 THEN 1 ELSE 0)
            /\ CountOf(R, 26) = CountOf(Q, 26) + (IF x.bl = 26 THEN 1 ELSE 0)
            /\ CountOf(R, 24) = CountOf(Q, 24) + (IF x.bl = 24 THEN 1 ELSE 0)
        <4>1. \A bl : CountOf(Q, bl) \in Nat
          BY <3>2, PartFinite
        <4>2. \A bl : CountOf(Q \cup {x}, bl) = CountOf(Q, bl) + (IF x.bl = bl THEN 1 ELSE 0)
          BY <3>2, CountAdd
        <4> QED
          BY <3>2, <4>1, <4>2
      <3>8. Worth(R) = Size(x) + Worth(Q)
        BY <3>u, <3>2, <3>7, SizeIs DEF Worth
      <3> QED
        BY <2>2, <3>5, <3>6, <3>8
    <2> QED
      BY <2>3, <2>4
  <1>2. Cardinality(S) \in Nat
    BY PartFinite
  <1> QED
    BY <1>1, <1>2

\* of two numbers
Less(a, b) == IF a <= b THEN a ELSE b

\* Spaces with different ordinals: Lowest takes as many as it is told, if there are as many.
LEMMA LowestCount ==
  ASSUME NEW n \in Nat, NEW S \in SUBSET WorkSpaces, \A s, t \in S : s.ord = t.ord => s = t
  PROVE  Cardinality(Lowest(S, n)) = Less(n, Cardinality(S))
  <1> DEFINE Apart(R) == \A s, t \in R : s.ord = t.ord => s = t
             T == {k \in Nat : \E R \in SUBSET WorkSpaces :
                     Cardinality(R) = k /\ Apart(R) /\ Cardinality(Lowest(R, n)) # Less(n, k)}
  <1>1. T = {}
    <2> SUFFICES ASSUME T # {} PROVE FALSE
      OBVIOUS
    <2>1. PICK k \in T : \A j \in T : k <= j
      BY Least
    <2>2. PICK R \in SUBSET WorkSpaces :
            Cardinality(R) = k /\ Apart(R) /\ Cardinality(Lowest(R, n)) # Less(n, k)
      BY <2>1
    <2>3. R # {}
      <3> SUFFICES ASSUME R = {} PROVE FALSE
        OBVIOUS
      <3>1. Lowest(R, n) = {}
        BY DEF Lowest
      <3> QED
        BY <2>2, <3>1, FS_EmptySet DEF Less
    <2>4. PICK x \in R : \A s \in R : s.ord <= x.ord
      <3> DEFINE U == {m \in Nat : \A s \in R : s.ord <= m}
      <3>0. \A s \in R : s.ord \in Nat /\ s.ord <= MaxKeys
        BY ConfigureAssumption DEF WorkSpaces
      <3>1. MaxKeys \in U
        BY <3>0, ConfigureAssumption
      <3>2. PICK m \in U : \A j \in U : m <= j
        BY <3>1, Least
      <3>3. \E s \in R : s.ord = m
        <4> SUFFICES ASSUME \A s \in R : s.ord # m PROVE FALSE
          OBVIOUS
        <4>1. \A s \in R : s.ord <= m - 1
          BY <3>0
        <4>2. m - 1 \in Nat
          BY <2>3, <3>0, <4>1
        <4>3. m - 1 \in U
          BY <4>1, <4>2
        <4> QED
          BY <3>2, <4>3
      <3> QED
        BY <3>2, <3>3
    <2> DEFINE Q == R \ {x}
    <2>5. Q \in SUBSET WorkSpaces /\ IsFiniteSet(Q) /\ Cardinality(Q) \in Nat /\ Apart(Q)
          /\ x \notin Q /\ R = Q \cup {x}
      <3>1. Q \in SUBSET WorkSpaces
        OBVIOUS
      <3> QED
        BY <2>2, <3>1, PartFinite
    <2>6. k = Cardinality(Q) + 1
      BY <2>2, <2>5, FS_AddElement
    <2>7. Cardinality(Lowest(Q, n)) = Less(n, Cardinality(Q))
      <3> HIDE DEF Q, Apart
      <3> QED
        BY <2>1, <2>5, <2>6
    <2>8. {t \in R : t.ord < x.ord} = Q
      <3>1. ASSUME NEW t \in Q PROVE t.ord < x.ord
        BY <2>2, <2>4 DEF WorkSpaces
      <3>2. ~(x.ord < x.ord)
        BY DEF WorkSpaces
      <3> QED
        BY <3>1, <3>2
    <2>9. \A s \in Q : {t \in R : t.ord < s.ord} = {t \in Q : t.ord < s.ord}
      <3>1. ASSUME NEW s \in Q PROVE ~(x.ord < s.ord)
        BY <2>4 DEF WorkSpaces
      <3> QED
        BY <3>1
    <2>10. Lowest(R, n) = Lowest(Q, n) \cup (IF Cardinality(Q) < n THEN {x} ELSE {})
      <3>1. ASSUME NEW s \in R
            PROVE  s \in Lowest(R, n) <=> s \in Lowest(Q, n) \cup (IF Cardinality(Q) < n THEN {x} ELSE {})
        <4>1. CASE s = x
          <5>1. s \in Lowest(R, n) <=> Cardinality(Q) < n
            BY <2>8, <4>1 DEF Lowest
          <5>2. s \notin Lowest(Q, n)
            BY <2>5, <4>1 DEF Lowest
          <5> QED
            BY <4>1, <5>1, <5>2
        <4>2. CASE s # x
          <5>1. s \in Q /\ {t \in R : t.ord < s.ord} = {t \in Q : t.ord < s.ord}
            BY <2>9, <4>2
          <5>2. s \in Lowest(R, n) <=> s \in Lowest(Q, n)
            BY <5>1 DEF Lowest
          <5> QED
            BY <4>2, <5>2
        <4> QED
          BY <4>1, <4>2
      <3>2. Lowest(R, n) \subseteq R /\ Lowest(Q, n) \subseteq R
        BY DEF Lowest
      <3> QED
        BY <3>1, <3>2
    <2>11. Lowest(Q, n) \in SUBSET Q
      BY DEF Lowest
    <2> HIDE DEF Q
    <2>12. x \notin Lowest(Q, n) /\ IsFiniteSet(Lowest(Q, n))
      BY <2>5, <2>11, FS_Subset
    <2>13. Cardinality(Lowest(R, n)) = Less(n, Cardinality(Q)) + (IF Cardinality(Q) < n THEN 1 ELSE 0)
      <3>1. CASE Cardinality(Q) < n
        <4>1. Lowest(R, n) = Lowest(Q, n) \cup {x}
          BY <2>10, <3>1
        <4>2. Cardinality(Lowest(R, n)) = Cardinality(Lowest(Q, n)) + 1
          BY <2>12, <4>1, FS_AddElement
        <4> QED
          BY <2>7, <3>1, <4>2
      <3>2. CASE ~(Cardinality(Q) < n)
        <4>1. Lowest(R, n) = Lowest(Q, n)
          BY <2>10, <3>2
        <4> QED
          BY <2>5, <2>7, <3>2, <4>1 DEF Less
      <3> QED
        BY <3>1, <3>2
    <2> QED
      BY <2>2, <2>5, <2>6, <2>13 DEF Less
  <1>2. Cardinality(S) \in Nat
    BY PartFinite
  <1> QED
    BY <1>1, <1>2

-----------------------------------------------------------------------------
(* Folds *)

\* Some numbers up to N have a greatest.
LEMMA MaxIn ==
  ASSUME NEW N \in Nat, NEW s \in SUBSET (1..N), s # {}
  PROVE  Max(s) \in s /\ \A y \in s : y <= Max(s)
  <1> DEFINE U == {m \in Nat : \A y \in s : y <= m}
  <1>1. N \in U
    OBVIOUS
  <1>2. PICK m \in U : \A j \in U : m <= j
    BY <1>1, Least
  <1>3. m \in s
    <2> SUFFICES ASSUME m \notin s PROVE FALSE
      OBVIOUS
    <2>1. \A y \in s : y <= m - 1
      OBVIOUS
    <2>2. PICK y \in s : TRUE
      OBVIOUS
    <2>4. m - 1 \in Nat
      <3>1. y \in 1..N /\ y <= m - 1 /\ m \in Nat
        BY <2>1
      <3> QED
        BY <3>1
    <2>3. m - 1 \in U
      BY <2>1, <2>4
    <2> QED
      BY <1>2, <2>3
  <1>4. \E x \in s : \A y \in s : x >= y
    BY <1>2, <1>3
  <1>5. Max(s) \in s /\ \A y \in s : Max(s) >= y
    BY <1>4 DEF Max
  <1>6. \A y \in s : y \in Int
    OBVIOUS
  <1>7. Max(s) \in Int
    BY <1>5, <1>6
  <1> QED
    BY <1>5, <1>6, <1>7

\* From the first to the k-th.
LEMMA MaxUpTo ==
  ASSUME NEW k \in Nat, k # 0
  PROVE  Max(1..k) = k /\ (1..k) \ {k} = 1..(k - 1) /\ (1..k) # {}
  <1>1. k \in 1..k
    OBVIOUS
  <1>2. Max(1..k) \in 1..k /\ k <= Max(1..k)
    BY <1>1, MaxIn
  <1> QED
    BY <1>1, <1>2

\* g folds st from the left over the parts of 1..N that have at most n elements
FoldsUpTo(st, base, N, B, g, n) ==
    /\ g \in [SUBSET (1..N) -> B]
    /\ \A s \in SUBSET (1..N) : Cardinality(s) <= n =>
         g[s] = IF s = {} THEN base ELSE st[Max(s)][g[s \ {Max(s)}]]

\* the same for every part
FoldsAll(st, base, N, B, g) ==
    /\ g \in [SUBSET (1..N) -> B]
    /\ \A s \in SUBSET (1..N) :
         g[s] = IF s = {} THEN base ELSE st[Max(s)][g[s \ {Max(s)}]]

\* A part without its greatest element is smaller.
LEMMA WithoutMax ==
  ASSUME NEW N \in Nat, NEW s \in SUBSET (1..N), s # {}
  PROVE  /\ s \ {Max(s)} \in SUBSET (1..N) /\ Max(s) \in 1..N
         /\ Cardinality(s) \in Nat /\ Cardinality(s \ {Max(s)}) = Cardinality(s) - 1
         /\ Cardinality(s \ {Max(s)}) \in Nat
  <1>1. Max(s) \in s
    BY MaxIn
  <1>2. IsFiniteSet(1..N)
    BY FS_Interval
  <1>3. IsFiniteSet(s) /\ IsFiniteSet(s \ {Max(s)})
    BY <1>2, FS_Subset
  <1> QED
    BY <1>1, <1>3, FS_CardinalityType, FS_RemoveElement

\* Steps from B to B can be folded over any sequence.
LEMMA FoldExists ==
  ASSUME NEW N \in Nat, NEW B, NEW base \in B, NEW st \in [1..N -> [B -> B]]
  PROVE  \E g : FoldsAll(st, base, N, B, g)
  <1> DEFINE D == SUBSET (1..N)
             T == {n \in Nat : ~\E g : FoldsUpTo(st, base, N, B, g, n)}
  <1>1. T = {}
    <2> SUFFICES ASSUME T # {} PROVE FALSE
      OBVIOUS
    <2>1. PICK n \in T : \A k \in T : n <= k
      BY Least
    <2>2. n # 0
      <3> DEFINE z == [s \in D |-> base]
      <3>1. ASSUME NEW s \in D, Cardinality(s) <= 0 PROVE s = {}
        <4> SUFFICES ASSUME s # {} PROVE FALSE
          OBVIOUS
        <4>1. Cardinality(s) \in Nat /\ Cardinality(s) - 1 \in Nat
          BY WithoutMax
        <4> QED
          BY <3>1, <4>1
      <3>2. FoldsUpTo(st, base, N, B, z, 0)
        BY <3>1 DEF FoldsUpTo
      <3> QED
        BY <3>2
    <2>3. n - 1 \in Nat /\ n - 1 \notin T
      BY <2>1, <2>2
    <2>4. PICK g : FoldsUpTo(st, base, N, B, g, n - 1)
      BY <2>3
    <2> DEFINE h == [s \in D |-> IF s = {} THEN base ELSE st[Max(s)][g[s \ {Max(s)}]]]
    <2>5. h \in [D -> B]
      <3>1. ASSUME NEW s \in D, s # {} PROVE st[Max(s)][g[s \ {Max(s)}]] \in B
        <4>1. Max(s) \in 1..N /\ s \ {Max(s)} \in D
          BY <3>1, WithoutMax
        <4>2. g[s \ {Max(s)}] \in B
          BY <2>4, <4>1 DEF FoldsUpTo
        <4>3. st[Max(s)] \in [B -> B]
          BY <4>1
        <4> QED
          BY <4>2, <4>3
      <3> QED
        BY <3>1
    <2>6. ASSUME NEW s \in D, s # {}, Cardinality(s) <= n
          PROVE  h[s \ {Max(s)}] = g[s \ {Max(s)}]
      <3> DEFINE t == s \ {Max(s)}
      <3>0. t \in D /\ Cardinality(s) \in Nat /\ Cardinality(t) = Cardinality(s) - 1
        BY <2>6, WithoutMax
      <3>1. t \in D /\ Cardinality(t) <= n - 1
        BY <2>3, <2>6, <3>0
      <3> HIDE DEF t
      <3>2. g[t] = IF t = {} THEN base ELSE st[Max(t)][g[t \ {Max(t)}]]
        BY <2>4, <3>1 DEF FoldsUpTo
      <3>3. h[t] = IF t = {} THEN base ELSE st[Max(t)][g[t \ {Max(t)}]]
        BY <3>1
      <3> QED
        BY <3>2, <3>3 DEF t
    <2>7. \A s \in D : Cardinality(s) <= n =>
            h[s] = IF s = {} THEN base ELSE st[Max(s)][h[s \ {Max(s)}]]
      BY <2>6
    <2> HIDE DEF h
    <2>8. FoldsUpTo(st, base, N, B, h, n)
      BY <2>5, <2>7 DEF FoldsUpTo
    <2> QED
      BY <2>1, <2>8
  <1>2. PICK g : FoldsUpTo(st, base, N, B, g, N)
    BY <1>1
  <1>3. ASSUME NEW s \in D PROVE Cardinality(s) <= N
    <2>1. IsFiniteSet(1..N) /\ Cardinality(1..N) = N
      BY FS_Interval
    <2>2. Cardinality(s) <= Cardinality(1..N)
      BY <2>1, FS_Subset
    <2> QED
      BY <2>1, <2>2
  <1> QED
    BY <1>2, <1>3 DEF FoldsUpTo, FoldsAll

-----------------------------------------------------------------------------
(* Filling a list *)

\* The larger bit lengths first.
LEMMA LargestFirst ==
  LET sq == Reverse(UsableBitLength)
  IN  /\ sq \in Seq(BitLengths) /\ DOMAIN sq = 1..3 /\ sq[1] = 28 /\ sq[2] = 26 /\ sq[3] = 24
  BY ThreeLengths DEF Reverse, UsableBitLength

\* one bit length of Fill
Take(src, size, acc, bl) ==
    acc \cup Lowest({s \in src : s.bl = bl}, (size - Total(acc)) \div PlotSize(bl))

\* Fill takes them one after the other.
LEMMA FillSteps ==
  ASSUME NEW src \in SUBSET WorkSpaces, NEW size
  PROVE  Fill(src, size) = Take(src, size, Take(src, size, Take(src, size, {}, 28), 26), 24)
  <1> DEFINE sq == Reverse(UsableBitLength)
             B == SUBSET WorkSpaces
             st == [i \in 1..3 |-> [acc \in B |-> Take(src, size, acc, sq[i])]]
             Ok(g) == g = [s \in SUBSET (1..3) |->
                             IF s = {} THEN {}
                             ELSE LET x == Max(s) IN Take(src, size, g[s \ {x}], sq[x])]
             it == CHOOSE g : Ok(g)
  <1>sq. DOMAIN sq = 1..3 /\ sq[1] = 28 /\ sq[2] = 26 /\ sq[3] = 24
    BY LargestFirst
  <1>1. Fill(src, size) = it[1..3]
    BY <1>sq DEF Fill, FoldLeft, MapThenFoldSet, Take
  <1>2. \A acc \in B : \A bl : Take(src, size, acc, bl) \in B
    BY DEF Take, Lowest
  <1>3. st \in [1..3 -> [B -> B]]
    BY <1>2
  <1>4. \E g : FoldsAll(st, {}, 3, B, g)
    <2> HIDE DEF st, B
    <2>1. 3 \in Nat /\ {} \in B
      BY DEF B
    <2> QED
      BY <1>3, <2>1, FoldExists
  <1>5. PICK g \in [SUBSET (1..3) -> B] : \A s \in SUBSET (1..3) :
            g[s] = IF s = {} THEN {} ELSE st[Max(s)][g[s \ {Max(s)}]]
    BY <1>4 DEF FoldsAll
  <1>6. ASSUME NEW s \in SUBSET (1..3), s # {}
        PROVE  g[s] = Take(src, size, g[s \ {Max(s)}], sq[Max(s)])
    <2>1. Max(s) \in 1..3 /\ s \ {Max(s)} \in SUBSET (1..3)
      BY <1>6, WithoutMax
    <2>2. g[s \ {Max(s)}] \in B
      BY <2>1
    <2>3. g[s] = st[Max(s)][g[s \ {Max(s)}]]
      BY <1>5, <1>6
    <2> QED
      BY <2>1, <2>2, <2>3
  <1>7. g[{}] = {}
    BY <1>5
  <1>8. Ok(g)
    BY <1>6, <1>7
  <1> HIDE DEF Ok
  <1>9. Ok(it)
    BY <1>8
  <1> HIDE DEF it
  <1>10. ASSUME NEW k \in 1..3 PROVE it[1..k] = Take(src, size, it[1..(k - 1)], sq[k])
    <2>1. Max(1..k) = k /\ (1..k) \ {k} = 1..(k - 1) /\ (1..k) # {} /\ (1..k) \in SUBSET (1..3)
      BY MaxUpTo
    <2>2. it[1..k] = Take(src, size, it[(1..k) \ {Max(1..k)}], sq[Max(1..k)])
      BY <1>9, <2>1 DEF Ok
    <2> QED
      BY <2>1, <2>2
  <1>11. it[1..0] = {}
    <2>1. 1..0 = {}
      OBVIOUS
    <2> QED
      BY <1>9, <2>1 DEF Ok
  <1> HIDE DEF sq
  <1>12. it[1..1] = Take(src, size, {}, 28)
    <2>1. it[1..1] = Take(src, size, it[1..(1 - 1)], sq[1])
      BY <1>10
    <2>2. 1 - 1 = 0
      OBVIOUS
    <2> QED
      BY <1>sq, <1>11, <2>1, <2>2
  <1>13. it[1..2] = Take(src, size, it[1..1], 26)
    <2>1. it[1..2] = Take(src, size, it[1..(2 - 1)], sq[2])
      BY <1>10
    <2>2. 2 - 1 = 1
      OBVIOUS
    <2> QED
      BY <1>sq, <2>1, <2>2
  <1>14. it[1..3] = Take(src, size, it[1..2], 24)
    <2>1. it[1..3] = Take(src, size, it[1..(3 - 1)], sq[3])
      BY <1>10
    <2>2. 3 - 1 = 2
      OBVIOUS
    <2> QED
      BY <1>sq, <2>1, <2>2
  <1> QED
    BY <1>1, <1>12, <1>13, <1>14

\* Of each bit length Fill has as many as fit, or all there are; they are worth no more than
\* the size.
LEMMA FillCounts ==
  ASSUME NEW src \in SUBSET WorkSpaces, OneID(src), NEW size \in Nat
  PROVE  /\ Fill(src, size) \in SUBSET src /\ Usual(Fill(src, size))
         /\ CountOf(Fill(src, size), 28) = Less(size \div 64, CountOf(src, 28))
         /\ CountOf(Fill(src, size), 26)
              = Less((size - 64 * CountOf(Fill(src, size), 28)) \div 16, CountOf(src, 26))
         /\ CountOf(Fill(src, size), 24)
              = Less((size - 64 * CountOf(Fill(src, size), 28)
                           - 16 * CountOf(Fill(src, size), 26)) \div 3, CountOf(src, 24))
  <1> DEFINE N(bl) == CountOf(src, bl)
             L(bl, n) == Lowest({s \in src : s.bl = bl}, n)
  <1>1. ASSUME NEW bl \in {24, 26, 28}, NEW n \in Nat
        PROVE  /\ L(bl, n) \in SUBSET src /\ L(bl, n) \in SUBSET WorkSpaces
               /\ CountOf(L(bl, n), bl) = Less(n, N(bl))
               /\ \A b : b # bl => CountOf(L(bl, n), b) = 0
    <2> DEFINE S == {s \in src : s.bl = bl}
    <2>1. \A s, t \in S : s.ord = t.ord => s = t
      BY DEF OneID, ID
    <2>2. L(bl, n) \in SUBSET S /\ S \in SUBSET WorkSpaces
      BY DEF Lowest
    <2>3. Cardinality(L(bl, n)) = Less(n, Cardinality(S))
      <3> HIDE DEF S
      <3>1. Cardinality(Lowest(S, n)) = Less(n, Cardinality(S))
        BY <2>1, <2>2, LowestCount
      <3> QED
        BY <3>1 DEF S
    <2>4. {s \in L(bl, n) : s.bl = bl} = L(bl, n)
      BY <2>2
    <2>5. \A b : b # bl => {s \in L(bl, n) : s.bl = b} = {}
      BY <2>2
    <2>6. L(bl, n) \in SUBSET src
      BY <2>2
    <2>7. \A b : b # bl => CountOf(L(bl, n), b) = 0
      BY <2>5, FS_EmptySet DEF CountOf
    <2>8. CountOf(L(bl, n), bl) = Less(n, N(bl))
      BY <2>3, <2>4 DEF CountOf
    <2> QED
      BY <2>6, <2>7, <2>8
  <1>2. N(28) \in Nat /\ N(26) \in Nat /\ N(24) \in Nat
    BY PartFinite
  <1>p. PlotSize(28) = 64 /\ PlotSize(26) = 16 /\ PlotSize(24) = 3
    BY DEF PlotSize
  <1> DEFINE n1 == size \div 64
             A == L(28, n1)
             a == CountOf(A, 28)
  <1>3. n1 \in Nat /\ size >= 64 * n1
    OBVIOUS
  <1>4. A \in SUBSET src /\ A \in SUBSET WorkSpaces /\ a = Less(n1, N(28))
        /\ CountOf(A, 26) = 0 /\ CountOf(A, 24) = 0
    <2> HIDE DEF n1, L, N
    <2> QED
      BY <1>1, <1>3
  <1>5. Take(src, size, {}, 28) = A
    <2>1. Total({}) = 0
      BY TotalStep
    <2>2. (size - Total({})) \div 64 = n1
      BY <2>1
    <2> QED
      BY <1>p, <2>2 DEF Take
  <1>6. a \in Nat /\ 64 * a <= size
    <2> HIDE DEF n1, a, A, N
    <2> QED
      BY <1>2, <1>3, <1>4 DEF Less
  <1>u. Usual(A)
    BY DEF Usual, Lowest
  <1>7. Total(A) = 64 * a
    <2> HIDE DEF A
    <2>1. Total(A) = Worth(A)
      BY <1>4, <1>u, TotalWorth
    <2> QED
      BY <1>4, <1>6, <2>1 DEF Worth
  <1> DEFINE r1 == size - 64 * a
             n2 == r1 \div 16
             B == L(26, n2)
             b == CountOf(B, 26)
  <1>8. r1 \in Nat /\ n2 \in Nat /\ r1 >= 16 * n2
    <2> HIDE DEF a
    <2>1. r1 \in Nat
      BY <1>6
    <2> HIDE DEF r1
    <2> QED
      BY <2>1
  <1>9. B \in SUBSET src /\ B \in SUBSET WorkSpaces /\ b = Less(n2, N(26))
        /\ CountOf(B, 28) = 0 /\ CountOf(B, 24) = 0
    <2> HIDE DEF n2, L, N
    <2> QED
      BY <1>1, <1>8
  <1>10. Take(src, size, A, 26) = A \cup B
    <2>1. (size - Total(A)) \div 16 = n2
      BY <1>7
    <2> HIDE DEF A, n2
    <2> QED
      BY <1>p, <2>1 DEF Take
  <1>11. b \in Nat /\ 16 * b <= r1
    <2> HIDE DEF n2, b, B, N, r1
    <2> QED
      BY <1>2, <1>8, <1>9 DEF Less
  <1>12. A \cap B = {}
    <2>1. \A s \in A : s.bl = 28
      BY DEF Lowest
    <2>2. \A s \in B : s.bl = 26
      BY DEF Lowest
    <2> HIDE DEF A, B
    <2> QED
      BY <2>1, <2>2
  <1>13. /\ CountOf(A \cup B, 28) = a /\ CountOf(A \cup B, 26) = b /\ CountOf(A \cup B, 24) = 0
         /\ A \cup B \in SUBSET WorkSpaces
    <2> HIDE DEF A, B
    <2>1. \A bl : CountOf(A \cup B, bl) = CountOf(A, bl) + CountOf(B, bl)
      BY <1>4, <1>9, <1>12, CountPart
    <2>2. A \cup B \in SUBSET WorkSpaces
      BY <1>4, <1>9
    <2>3. CountOf(A, 28) = a /\ CountOf(B, 26) = b
      OBVIOUS
    <2> HIDE DEF a, b
    <2>4. CountOf(A \cup B, 28) = a + 0
      BY <1>9, <2>1, <2>3
    <2>5. CountOf(A \cup B, 26) = 0 + b
      BY <1>4, <2>1, <2>3
    <2>6. CountOf(A \cup B, 24) = 0 + 0
      BY <1>4, <1>9, <2>1
    <2> QED
      BY <1>6, <1>11, <2>2, <2>4, <2>5, <2>6
  <1>v. Usual(A \cup B)
    <2>1. \A s \in B : s.bl = 26
      BY DEF Lowest
    <2> HIDE DEF A, B
    <2> QED
      BY <1>u, <2>1 DEF Usual
  <1>14. Total(A \cup B) = 64 * a + 16 * b
    <2> HIDE DEF A, B, a, b
    <2>1. Total(A \cup B) = Worth(A \cup B)
      BY <1>v, <1>13, TotalWorth
    <2> QED
      BY <1>6, <1>11, <1>13, <2>1 DEF Worth
  <1> DEFINE r2 == size - 64 * a - 16 * b
             n3 == r2 \div 3
             C == L(24, n3)
             c == CountOf(C, 24)
  <1>15. r2 \in Nat /\ n3 \in Nat /\ size - (64 * a + 16 * b) = r2
    <2> HIDE DEF a, b
    <2>1. r2 \in Nat /\ size - (64 * a + 16 * b) = r2
      BY <1>6, <1>8, <1>11
    <2> HIDE DEF r2
    <2> QED
      BY <2>1
  <1>16. C \in SUBSET src /\ C \in SUBSET WorkSpaces /\ c = Less(n3, N(24))
         /\ CountOf(C, 28) = 0 /\ CountOf(C, 26) = 0
    <2> HIDE DEF n3, L, N
    <2> QED
      BY <1>1, <1>15
  <1>17. Take(src, size, A \cup B, 24) = (A \cup B) \cup C
    <2> HIDE DEF A, B, a, b, r2
    <2>1. (size - Total(A \cup B)) \div 3 = n3
      BY <1>14, <1>15
    <2> HIDE DEF n3
    <2> QED
      BY <1>p, <2>1 DEF Take
  <1>18. c \in Nat
    <2> HIDE DEF n3, c, C, N, r2
    <2> QED
      BY <1>2, <1>15, <1>16 DEF Less
  <1>19. (A \cup B) \cap C = {}
    <2>1. \A s \in A : s.bl = 28
      BY DEF Lowest
    <2>2. \A s \in B : s.bl = 26
      BY DEF Lowest
    <2>3. \A s \in C : s.bl = 24
      BY DEF Lowest
    <2> HIDE DEF A, B, C
    <2> QED
      BY <2>1, <2>2, <2>3
  <1>w. Usual((A \cup B) \cup C)
    <2>1. \A s \in C : s.bl = 24
      BY DEF Lowest
    <2> HIDE DEF A, B, C
    <2> QED
      BY <1>v, <2>1 DEF Usual
  <1> HIDE DEF A, B, C, a, b, c, r1, r2, n1, n2, n3, N, L
  <1>20. Fill(src, size) = (A \cup B) \cup C
    BY <1>5, <1>10, <1>17, FillSteps
  <1>21. \A bl : CountOf(Fill(src, size), bl) = CountOf(A \cup B, bl) + CountOf(C, bl)
    BY <1>13, <1>16, <1>19, <1>20, CountPart
  <1>22. /\ CountOf(Fill(src, size), 28) = a /\ CountOf(Fill(src, size), 26) = b
         /\ CountOf(Fill(src, size), 24) = c
    <2>1. /\ CountOf(Fill(src, size), 28) = a + 0 /\ CountOf(Fill(src, size), 26) = b + 0
          /\ CountOf(Fill(src, size), 24) = 0 + c
      BY <1>13, <1>16, <1>21 DEF c
    <2> QED
      BY <1>6, <1>11, <1>18, <2>1
  <1>23. Fill(src, size) \in SUBSET src
    BY <1>4, <1>9, <1>16, <1>20
  <1> QED
    BY <1>w, <1>20, <1>4, <1>9, <1>16, <1>22, <1>23 DEF N, n1, n2, n3, r1, r2

\* A count of a sequence is a number.
LEMMA CountInNat ==
  ASSUME NEW sq \in Seq(BitLengths), NEW bl
  PROVE  IsFiniteSet({i \in 1..Len(sq) : sq[i] = bl}) /\ CountIn(sq, bl) \in Nat
  <1>1. Len(sq) \in Nat
    OBVIOUS
  <1>2. IsFiniteSet(1..Len(sq))
    BY <1>1, FS_Interval
  <1>3. IsFiniteSet({i \in 1..Len(sq) : sq[i] = bl})
    BY <1>2, FS_Subset
  <1> QED
    BY <1>3, FS_CardinalityType DEF CountIn

Repeated(n, x) == [i \in 1..n |-> x]

\* n times the same bit length.
LEMMA CountSame ==
  ASSUME NEW n \in Nat, NEW x \in BitLengths
  PROVE  /\ Repeated(n, x) \in Seq(BitLengths) /\ Len(Repeated(n, x)) = n
         /\ \A bl : CountIn(Repeated(n, x), bl) = IF bl = x THEN n ELSE 0
  <1> DEFINE sq == Repeated(n, x)
  <1>1. sq \in Seq(BitLengths) /\ Len(sq) = n /\ \A i \in 1..n : sq[i] = x
    BY DEF Repeated
  <1> HIDE DEF sq
  <1>2. ASSUME NEW bl PROVE CountIn(sq, bl) = IF bl = x THEN n ELSE 0
    <2>1. CASE bl = x
      <3>1. {i \in 1..Len(sq) : sq[i] = bl} = 1..n
        BY <1>1, <2>1
      <3>2. Cardinality(1..n) = n
        BY FS_Interval
      <3> QED
        BY <2>1, <3>1, <3>2 DEF CountIn
    <2>2. CASE bl # x
      <3>1. {i \in 1..Len(sq) : sq[i] = bl} = {}
        BY <1>1, <2>2
      <3> QED
        BY <2>2, <3>1, FS_EmptySet DEF CountIn
    <2> QED
      BY <2>1, <2>2
  <1> QED
    BY <1>1, <1>2 DEF sq

\* Two sequences put together.
LEMMA CountCat ==
  ASSUME NEW p \in Seq(BitLengths), NEW sq \in Seq(BitLengths), NEW bl
  PROVE  CountIn(p \o sq, bl) = CountIn(p, bl) + CountIn(sq, bl)
  <1> DEFINE m == Len(p)
             n == Len(sq)
             A == {i \in 1..m : p[i] = bl}
             B == {i \in 1..n : sq[i] = bl}
             C == {i \in (m + 1)..(m + n) : sq[i - m] = bl}
             f == [i \in B |-> i + m]
  <1>1. /\ m \in Nat /\ n \in Nat /\ Len(p \o sq) = m + n
        /\ \A i \in 1..m : (p \o sq)[i] = p[i]
        /\ \A i \in (m + 1)..(m + n) : (p \o sq)[i] = sq[i - m]
    OBVIOUS
  <1>2. IsFiniteSet(A) /\ IsFiniteSet(B) /\ CountIn(p, bl) = Cardinality(A) /\ CountIn(sq, bl) = Cardinality(B)
    BY CountInNat DEF CountIn
  <1>3. {i \in 1..Len(p \o sq) : (p \o sq)[i] = bl} = A \cup C
    <2> HIDE DEF m, n
    <2>1. ASSUME NEW i \in 1..(m + n), (p \o sq)[i] = bl PROVE i \in A \cup C
      <3>1. CASE i <= m
        <4>1. i \in 1..m
          BY <1>1, <3>1
        <4> QED
          BY <1>1, <2>1, <4>1
      <3>2. CASE ~(i <= m)
        <4>1. i \in (m + 1)..(m + n)
          BY <1>1, <3>2
        <4> QED
          BY <1>1, <2>1, <4>1
      <3> QED
        BY <3>1, <3>2
    <2>2. ASSUME NEW i \in A PROVE i \in 1..(m + n) /\ (p \o sq)[i] = bl
      BY <1>1
    <2>3. ASSUME NEW i \in C PROVE i \in 1..(m + n) /\ (p \o sq)[i] = bl
      BY <1>1
    <2> QED
      BY <1>1, <2>1, <2>2, <2>3
  <1>4. A \cap C = {}
    <2> HIDE DEF m, n
    <2> QED
      BY <1>1
  <1>5. f \in Bijection(B, C)
    <2> HIDE DEF m, n
    <2>1. ASSUME NEW i \in B PROVE i + m \in C
      <3>1. i + m \in (m + 1)..(m + n) /\ (i + m) - m = i
        BY <1>1
      <3> QED
        BY <3>1
    <2>2. ASSUME NEW i \in B, NEW j \in B, i + m = j + m PROVE i = j
      BY <1>1, <2>2
    <2>3. ASSUME NEW j \in C PROVE \E i \in B : i + m = j
      <3>1. j - m \in 1..n /\ (j - m) + m = j
        BY <1>1
      <3>2. j - m \in B
        BY <3>1
      <3> QED
        BY <3>1, <3>2
    <2>4. f \in [B -> C] /\ \A i \in B : f[i] = i + m
      BY <2>1
    <2> HIDE DEF f
    <2>5. f \in Injection(B, C)
      BY <2>2, <2>4 DEF Injection, IsInjective
    <2>6. f \in Surjection(B, C)
      BY <2>3, <2>4 DEF Surjection
    <2> QED
      BY <2>5, <2>6 DEF Bijection
  <1> HIDE DEF A, B, C, f, m, n
  <1>6. IsFiniteSet(C) /\ Cardinality(C) = Cardinality(B)
    <2>1. ExistsBijection(B, C)
      BY <1>5 DEF ExistsBijection
    <2> QED
      BY <1>2, <2>1, FS_Bijection
  <1>7. Cardinality(A) \in Nat /\ Cardinality(C) \in Nat
    BY <1>2, <1>6, FS_CardinalityType
  <1>8. Cardinality(A \cup C) = Cardinality(A) + Cardinality(C)
    <2>1. Cardinality(A \cup C) = Cardinality(A) + Cardinality(C) - Cardinality(A \cap C)
      BY <1>2, <1>6, FS_Union
    <2>2. Cardinality(A \cap C) = 0
      BY <1>4, FS_EmptySet
    <2> QED
      BY <1>7, <2>1, <2>2
  <1> QED
    BY <1>2, <1>3, <1>6, <1>8 DEF CountIn

\* The first of a sequence and the rest.
LEMMA CountTail ==
  ASSUME NEW sq \in Seq(BitLengths), sq # <<>>, NEW bl
  PROVE  CountIn(sq, bl) = CountIn(Tail(sq), bl) + (IF Head(sq) = bl THEN 1 ELSE 0)
  <1> DEFINE h == Repeated(1, Head(sq))
  <1>1. Head(sq) \in BitLengths /\ Tail(sq) \in Seq(BitLengths)
    OBVIOUS
  <1>2. h \in Seq(BitLengths) /\ CountIn(h, bl) = IF bl = Head(sq) THEN 1 ELSE 0
    BY <1>1, CountSame
  <1>3. sq = h \o Tail(sq)
    BY DEF Repeated
  <1> HIDE DEF h
  <1>4. CountIn(sq, bl) = CountIn(h, bl) + CountIn(Tail(sq), bl)
    BY <1>1, <1>2, <1>3, CountCat
  <1>5. CountIn(Tail(sq), bl) \in Nat
    BY <1>1, CountInNat
  <1>6. CountIn(h, bl) = IF Head(sq) = bl THEN 1 ELSE 0
    BY <1>2
  <1> QED
    BY <1>4, <1>5, <1>6

\* Nothing to make.
LEMMA CountNone == \A bl : CountIn(<<>>, bl) = 0
  <1>1. \A bl : {i \in 1..Len(<<>>) : <<>>[i] = bl} = {}
    OBVIOUS
  <1> QED
    BY <1>1, FS_EmptySet DEF CountIn

\* one bit length of Plan
Put(acc, bl) == [rest |-> acc.rest % PlotSize(bl),
                 todo |-> acc.todo \o [i \in 1..(acc.rest \div PlotSize(bl)) |-> bl]]

\* Plan takes the bit lengths one after the other.
LEMMA PlanSteps ==
  ASSUME NEW rest \in Nat
  PROVE  Plan(rest) = Put(Put(Put([rest |-> rest, todo |-> <<>>], 28), 26), 24).todo
  <1> DEFINE sq == Reverse(UsableBitLength)
             B == [rest : Nat, todo : Seq(BitLengths)]
             base == [rest |-> rest, todo |-> <<>>]
             st == [i \in 1..3 |-> [acc \in B |-> Put(acc, sq[i])]]
             Ok(g) == g = [s \in SUBSET (1..3) |->
                             IF s = {} THEN base ELSE LET x == Max(s) IN Put(g[s \ {x}], sq[x])]
             it == CHOOSE g : Ok(g)
  <1>sq. DOMAIN sq = 1..3 /\ sq[1] = 28 /\ sq[2] = 26 /\ sq[3] = 24
    BY LargestFirst
  <1>1. Plan(rest) = it[1..3].todo
    BY <1>sq DEF Plan, FoldLeft, MapThenFoldSet, Put
  <1>2. ASSUME NEW acc \in B, NEW bl \in {28, 26, 24} PROVE Put(acc, bl) \in B
    <2> DEFINE n == acc.rest \div PlotSize(bl)
    <2>1. acc.rest \in Nat /\ acc.todo \in Seq(BitLengths) /\ PlotSize(bl) \in {64, 16, 3}
      BY DEF PlotSize
    <2>2. n \in Nat /\ acc.rest % PlotSize(bl) \in Nat
      BY <2>1
    <2> HIDE DEF n
    <2>3. [i \in 1..n |-> bl] \in Seq(BitLengths)
      BY <2>2, ThreeLengths, CountSame DEF Repeated
    <2>4. acc.todo \o [i \in 1..n |-> bl] \in Seq(BitLengths)
      BY <2>1, <2>3
    <2> QED
      BY <2>2, <2>4 DEF Put, n
  <1>3. st \in [1..3 -> [B -> B]]
    <2>1. \A i \in 1..3 : sq[i] \in {28, 26, 24}
      <3> HIDE DEF sq
      <3> QED
        BY <1>sq
    <2> HIDE DEF B, sq
    <2> QED
      BY <1>2, <2>1
  <1>4. \E g : FoldsAll(st, base, 3, B, g)
    <2>1. 3 \in Nat /\ base \in B
      OBVIOUS
    <2> HIDE DEF st, B, base
    <2> QED
      BY <1>3, <2>1, FoldExists
  <1>5. PICK g \in [SUBSET (1..3) -> B] : \A s \in SUBSET (1..3) :
            g[s] = IF s = {} THEN base ELSE st[Max(s)][g[s \ {Max(s)}]]
    BY <1>4 DEF FoldsAll
  <1> HIDE DEF base
  <1>6. ASSUME NEW s \in SUBSET (1..3), s # {}
        PROVE  g[s] = Put(g[s \ {Max(s)}], sq[Max(s)])
    <2>1. Max(s) \in 1..3 /\ s \ {Max(s)} \in SUBSET (1..3)
      BY <1>6, WithoutMax
    <2>2. g[s \ {Max(s)}] \in B
      BY <2>1
    <2>3. g[s] = st[Max(s)][g[s \ {Max(s)}]]
      BY <1>5, <1>6
    <2> HIDE DEF B
    <2> QED
      BY <2>1, <2>2, <2>3
  <1>7. g[{}] = base
    BY <1>5
  <1>8. Ok(g)
    <2> HIDE DEF B
    <2> QED
      BY <1>6, <1>7
  <1> HIDE DEF Ok
  <1>9. Ok(it)
    BY <1>8
  <1> HIDE DEF it
  <1>10. ASSUME NEW k \in 1..3 PROVE it[1..k] = Put(it[1..(k - 1)], sq[k])
    <2>1. Max(1..k) = k /\ (1..k) \ {k} = 1..(k - 1) /\ (1..k) # {} /\ (1..k) \in SUBSET (1..3)
      BY MaxUpTo
    <2>2. it[1..k] = Put(it[(1..k) \ {Max(1..k)}], sq[Max(1..k)])
      BY <1>9, <2>1 DEF Ok
    <2> QED
      BY <2>1, <2>2
  <1>11. it[1..0] = base
    <2>1. 1..0 = {}
      OBVIOUS
    <2> QED
      BY <1>9, <2>1 DEF Ok
  <1> HIDE DEF sq
  <1>12. it[1..1] = Put(base, 28)
    <2>1. it[1..1] = Put(it[1..(1 - 1)], sq[1])
      BY <1>10
    <2>2. 1 - 1 = 0
      OBVIOUS
    <2> QED
      BY <1>sq, <1>11, <2>1, <2>2
  <1>13. it[1..2] = Put(it[1..1], 26)
    <2>1. it[1..2] = Put(it[1..(2 - 1)], sq[2])
      BY <1>10
    <2>2. 2 - 1 = 1
      OBVIOUS
    <2> QED
      BY <1>sq, <2>1, <2>2
  <1>14. it[1..3] = Put(it[1..2], 24)
    <2>1. it[1..3] = Put(it[1..(3 - 1)], sq[3])
      BY <1>10
    <2>2. 3 - 1 = 2
      OBVIOUS
    <2> QED
      BY <1>sq, <2>1, <2>2
  <1> QED
    BY <1>1, <1>12, <1>13, <1>14 DEF base

\* So many spaces of each bit length leave less than a smallest plot of a size, the larger ones
\* being taken first.
Enough(large, mid, small, size) ==
    /\ size - 64 * large - 16 * mid - 3 * small < 3
    /\ (size % 64) - 16 * mid - 3 * small < 3
    /\ (size % 16) - 3 * small < 3

\* What a plan is worth.
LEMMA PlanFits ==
  ASSUME NEW rest \in Nat
  PROVE  LET p == rest \div 64
             sq == (rest % 64) \div 16
             r == ((rest % 64) % 16) \div 3
         IN  /\ p \in Nat /\ sq \in Nat /\ r \in Nat
             /\ 64 * p + 16 * sq + 3 * r <= rest
             /\ rest < 64 * p + 16 * sq + 3 * r + 3
  OBVIOUS

\* of so many spaces of each bit length, a, b and c are taken for a size and rest is left
Takes(size, large, mid, small, a, b, c, rest) ==
    /\ a = Less(size \div 64, large)
    /\ b = Less((size - 64 * a) \div 16, mid)
    /\ c = Less((size - 64 * a - 16 * b) \div 3, small)
    /\ rest = size - (64 * a + 16 * b + 3 * c)

\* What is left of a size, when there are so many spaces to take: less than a smallest plot if
\* they are enough, and so will they be with those of the plan for what is left.
LEMMA FillFits ==
  ASSUME NEW size \in Nat, NEW large \in Nat, NEW mid \in Nat, NEW small \in Nat,
         NEW a, NEW b, NEW c, NEW rest, Takes(size, large, mid, small, a, b, c, rest)
  PROVE  /\ a \in Nat /\ b \in Nat /\ c \in Nat /\ rest \in Nat
         /\ Enough(large, mid, small, size) => rest < 3
         /\ Enough(large + rest \div 64, mid + (rest % 64) \div 16,
                   small + ((rest % 64) % 16) \div 3, size)
  <1>t. /\ a = Less(size \div 64, large)
        /\ b = Less((size - 64 * a) \div 16, mid)
        /\ c = Less((size - 64 * a - 16 * b) \div 3, small)
        /\ rest = size - (64 * a + 16 * b + 3 * c)
    BY DEF Takes
  <1>1. a \in Nat /\ 64 * a <= size /\ a <= large /\ (a = large \/ size - 64 * a = size % 64)
    BY <1>t DEF Less
  <1> DEFINE r1 == size - 64 * a
  <1>2. r1 \in Nat /\ r1 % 16 = size % 16
    BY <1>1
  <1>3. b \in Nat /\ 16 * b <= r1 /\ b <= mid /\ (b = mid \/ r1 - 16 * b = r1 % 16)
    <2>1. b = Less(r1 \div 16, mid)
      BY <1>t
    <2> HIDE DEF r1
    <2> QED
      BY <1>2, <2>1 DEF Less
  <1> DEFINE r2 == size - 64 * a - 16 * b
  <1>4. r2 \in Nat /\ r2 = r1 - 16 * b
    BY <1>1, <1>3
  <1>5. c \in Nat /\ 3 * c <= r2 /\ c <= small /\ (c = small \/ r2 - 3 * c < 3)
    <2>1. c = Less(r2 \div 3, small)
      BY <1>t
    <2> HIDE DEF r2
    <2> QED
      BY <1>4, <2>1 DEF Less
  <1>6. rest \in Nat /\ rest = r2 - 3 * c
    BY <1>t, <1>1, <1>3, <1>4, <1>5
  <1>7. ASSUME Enough(large, mid, small, size) PROVE rest < 3
    <2>1. CASE c # small
      BY <1>5, <1>6, <2>1
    <2>2. CASE c = small /\ b # mid
      <3>1. r2 = size % 16
        BY <1>2, <1>3, <1>4, <2>2
      <3> HIDE DEF r1, r2
      <3> QED
        BY <1>4, <1>5, <1>6, <1>7, <2>2, <3>1 DEF Enough
    <2>3. CASE c = small /\ b = mid /\ a # large
      <3>1. r1 = size % 64
        BY <1>1, <2>3
      <3> HIDE DEF r1, r2
      <3> QED
        BY <1>2, <1>3, <1>4, <1>5, <1>6, <1>7, <2>3, <3>1 DEF Enough
    <2>4. CASE c = small /\ b = mid /\ a = large
      BY <1>1, <1>3, <1>5, <1>6, <1>7, <2>4 DEF Enough
    <2> QED
      BY <2>1, <2>2, <2>3, <2>4
  <1> DEFINE p == rest \div 64
             sq == (rest % 64) \div 16
             r == ((rest % 64) % 16) \div 3
  <1>8. /\ p \in Nat /\ sq \in Nat /\ r \in Nat
        /\ rest < 64 * p + 16 * sq + 3 * r + 3
        /\ rest % 64 < 16 * sq + 3 * r + 3
        /\ rest % 16 < 3 * r + 3
    BY <1>6
  <1>9. size - 64 * (large + p) - 16 * (mid + sq) - 3 * (small + r) < 3
    <2> HIDE DEF p, sq, r, r1, r2
    <2>1. rest = size - 64 * a - 16 * b - 3 * c
      BY <1>t, <1>1, <1>3, <1>5
    <2> QED
      BY <1>1, <1>3, <1>5, <1>6, <1>8, <2>1
  <1>10. (size % 64) - 16 * (mid + sq) - 3 * (small + r) < 3
    <2>1. CASE (size % 64) - 16 * b - 3 * c < 0
      <3> HIDE DEF p, sq, r, r1, r2
      <3> QED
        BY <1>3, <1>5, <1>8, <2>1
    <2>2. CASE (size % 64) - 16 * b - 3 * c >= 0
      <3> DEFINE v == size % 64
                 u == size \div 64
      <3>1. v \in 0..63 /\ u \in Nat /\ size = 64 * u + v
        OBVIOUS
      <3> HIDE DEF u, v, p, sq, r, r1, r2
      <3>2. rest = 64 * (u - a) + (v - 16 * b - 3 * c)
        BY <1>t, <1>1, <1>3, <1>5, <3>1
      <3>3. v - 16 * b - 3 * c \in 0..63
        <4>1. v - 16 * b - 3 * c >= 0
          BY <2>2 DEF v
        <4>2. b \in Nat /\ c \in Nat /\ v \in Int /\ v <= 63
          BY <1>3, <1>5, <3>1
        <4>3. v - 16 * b - 3 * c \in Int /\ v - 16 * b - 3 * c <= 63
          BY <4>2
        <4> QED
          BY <4>1, <4>3
      <3>4. rest % 64 = v - 16 * b - 3 * c
        <4> DEFINE w == v - 16 * b - 3 * c
                   k == u - a
        <4>1. w \in 0..63 /\ k \in Int /\ rest = 64 * k + w
          BY <1>1, <3>1, <3>2, <3>3
        <4> HIDE DEF w, k
        <4>2. rest % 64 = w
          BY <1>6, <4>1
        <4> QED
          BY <4>2 DEF w
      <3> QED
        BY <1>3, <1>5, <1>8, <3>1, <3>4 DEF v
    <2>3. (size % 64) - 16 * b - 3 * c \in Int
      BY <1>3, <1>5
    <2> QED
      BY <2>1, <2>2, <2>3
  <1>11. (size % 16) - 3 * (small + r) < 3
    <2>1. CASE (size % 16) - 3 * c < 0
      <3> HIDE DEF p, sq, r, r1, r2
      <3> QED
        BY <1>5, <1>8, <2>1
    <2>2. CASE (size % 16) - 3 * c >= 0
      <3> DEFINE v == size % 16
                 u == size \div 16
      <3>1. v \in 0..15 /\ u \in Nat /\ size = 16 * u + v
        OBVIOUS
      <3> HIDE DEF u, v, p, sq, r, r1, r2
      <3>2. rest = 16 * (u - 4 * a - b) + (v - 3 * c)
        BY <1>t, <1>1, <1>3, <1>5, <3>1
      <3>3. v - 3 * c \in 0..15
        BY <1>5, <2>2, <3>1 DEF v
      <3>4. rest % 16 = v - 3 * c
        <4> DEFINE w == v - 3 * c
                   k == u - 4 * a - b
        <4>1. w \in 0..15 /\ k \in Int /\ rest = 16 * k + w
          BY <1>1, <1>3, <3>1, <3>2, <3>3
        <4> HIDE DEF w, k
        <4>2. rest % 16 = w
          BY <1>6, <4>1
        <4> QED
          BY <4>2 DEF w
      <3> QED
        BY <1>5, <1>8, <3>1, <3>4 DEF v
    <2>3. (size % 16) - 3 * c \in Int
      BY <1>5
    <2> QED
      BY <2>1, <2>2, <2>3
  <1> QED
    BY <1>1, <1>3, <1>5, <1>6, <1>7, <1>9, <1>10, <1>11 DEF Enough

\* More spaces are enough too.
LEMMA EnoughMore ==
  ASSUME NEW size \in Nat, NEW l \in Nat, NEW m \in Nat, NEW s \in Nat,
         NEW l2 \in Nat, NEW m2 \in Nat, NEW s2 \in Nat, l <= l2, m <= m2, s <= s2,
         Enough(l, m, s, size)
  PROVE  Enough(l2, m2, s2, size)
  <1>1. size % 64 \in Nat /\ size % 16 \in Nat
    OBVIOUS
  <1> QED
    BY <1>1 DEF Enough

\* The plan in numbers.
LEMMA PlanCounts ==
  ASSUME NEW rest \in Nat
  PROVE  /\ Plan(rest) \in Seq(BitLengths) /\ UsualPlan(Plan(rest))
         /\ CountIn(Plan(rest), 28) = rest \div 64
         /\ CountIn(Plan(rest), 26) = (rest % 64) \div 16
         /\ CountIn(Plan(rest), 24) = ((rest % 64) % 16) \div 3
         /\ rest < 3 => Plan(rest) = <<>>
  <1> DEFINE p == rest \div 64
             sq == (rest % 64) \div 16
             r == ((rest % 64) % 16) \div 3
             P == Repeated(p, 28)
             Q == Repeated(sq, 26)
             R == Repeated(r, 24)
  <1>1. p \in Nat /\ sq \in Nat /\ r \in Nat /\ 28 \in BitLengths /\ 26 \in BitLengths /\ 24 \in BitLengths
    BY ThreeLengths
  <1>2. Plan(rest) = ((<<>> \o P) \o Q) \o R
    <2> DEFINE e == [rest |-> rest, todo |-> <<>>]
               x == Put(e, 28)
               y == Put(x, 26)
    <2>p. PlotSize(28) = 64 /\ PlotSize(26) = 16 /\ PlotSize(24) = 3
      BY DEF PlotSize
    <2>1. x.rest = rest % 64 /\ x.todo = <<>> \o P
      BY <2>p DEF Put, Repeated
    <2> HIDE DEF x
    <2>2. y.rest = (rest % 64) % 16 /\ y.todo = (<<>> \o P) \o Q
      BY <2>p, <2>1 DEF Put, Repeated
    <2> HIDE DEF y
    <2>3. Put(y, 24).todo = ((<<>> \o P) \o Q) \o R
      BY <2>p, <2>2 DEF Put, Repeated
    <2> QED
      BY <2>3, PlanSteps DEF x, y
  <1> HIDE DEF p, sq, r
  <1>3. /\ P \in Seq(BitLengths) /\ Len(P) = p /\ \A bl : CountIn(P, bl) = IF bl = 28 THEN p ELSE 0
        /\ Q \in Seq(BitLengths) /\ Len(Q) = sq /\ \A bl : CountIn(Q, bl) = IF bl = 26 THEN sq ELSE 0
        /\ R \in Seq(BitLengths) /\ Len(R) = r /\ \A bl : CountIn(R, bl) = IF bl = 24 THEN r ELSE 0
    BY <1>1, CountSame
  <1>u. /\ \A i \in 1..Len(P) : P[i] = 28
        /\ \A i \in 1..Len(Q) : Q[i] = 26
        /\ \A i \in 1..Len(R) : R[i] = 24
    BY <1>3 DEF Repeated
  <1> HIDE DEF P, Q, R
  <1>4. <<>> \o P = P
    BY <1>3
  <1>5. P \o Q \in Seq(BitLengths) /\ (P \o Q) \o R \in Seq(BitLengths)
    BY <1>3
  <1>v. UsualPlan(P \o Q)
    BY <1>u, <1>3 DEF UsualPlan
  <1>w. UsualPlan((P \o Q) \o R)
    <2> DEFINE O == P \o Q
    <2>1. O \in Seq(BitLengths) /\ \A i \in 1..Len(O) : O[i] \in {24, 26, 28}
      BY <1>5, <1>v DEF UsualPlan
    <2> HIDE DEF O
    <2>2. UsualPlan(O \o R)
      BY <1>u, <1>3, <2>1 DEF UsualPlan
    <2> QED
      BY <2>2 DEF O
  <1>6. \A bl : CountIn((P \o Q) \o R, bl) = (CountIn(P, bl) + CountIn(Q, bl)) + CountIn(R, bl)
    <2> TAKE bl
    <2>1. CountIn(P \o Q, bl) = CountIn(P, bl) + CountIn(Q, bl)
      BY <1>3, CountCat
    <2>2. CountIn((P \o Q) \o R, bl) = CountIn(P \o Q, bl) + CountIn(R, bl)
      BY <1>3, <1>5, CountCat
    <2> QED
      BY <2>1, <2>2
  <1>7. /\ CountIn((P \o Q) \o R, 28) = p /\ CountIn((P \o Q) \o R, 26) = sq
        /\ CountIn((P \o Q) \o R, 24) = r
    BY <1>1, <1>3, <1>6
  <1>8. ASSUME rest < 3 PROVE (P \o Q) \o R = <<>>
    <2>1. p = 0 /\ sq = 0 /\ r = 0
      BY <1>8 DEF p, sq, r
    <2> QED
      BY <1>3, <2>1
  <1> QED
    BY <1>w, <1>2, <1>4, <1>5, <1>7, <1>8 DEF p, sq, r

\* A list of counts takes as many of each bit length as it says, if there are as many.
LEMMA ListCounts ==
  ASSUME NEW src \in SUBSET WorkSpaces, OneID(src), NEW want, want \in [DOMAIN want -> Nat]
  PROVE  /\ FillByBitLength(src, want) \in SUBSET src
         /\ \A bl \in DOMAIN want :
              CountOf(FillByBitLength(src, want), bl) = Less(want[bl], CountOf(src, bl))
  <1> DEFINE F == FillByBitLength(src, want)
             S(bl) == {s \in src : s.bl = bl}
  <1>1. F \in SUBSET src
    BY DEF FillByBitLength, Lowest
  <1>2. ASSUME NEW bl \in DOMAIN want
        PROVE  CountOf(F, bl) = Less(want[bl], CountOf(src, bl))
    <2>1. {s \in F : s.bl = bl} = Lowest(S(bl), want[bl])
      <3>1. \A b \in DOMAIN want : Lowest(S(b), want[b]) \subseteq S(b)
        BY DEF Lowest
      <3>2. \A s : s \in F <=> \E b \in DOMAIN want : s \in Lowest(S(b), want[b])
        BY DEF FillByBitLength
      <3>3. \A b : \A s \in S(b) : s.bl = b
        OBVIOUS
      <3> HIDE DEF F, S
      <3> QED
        BY <3>1, <3>2, <3>3
    <2>2. \A s, t \in S(bl) : s.ord = t.ord => s = t
      BY DEF OneID, ID
    <2>3. S(bl) \in SUBSET WorkSpaces /\ want[bl] \in Nat
      OBVIOUS
    <2>4. CountOf(src, bl) = Cardinality(S(bl))
      BY DEF CountOf
    <2> HIDE DEF F, S
    <2>5. Cardinality(Lowest(S(bl), want[bl])) = Less(want[bl], Cardinality(S(bl)))
      BY <2>2, <2>3, LowestCount
    <2> QED
      BY <2>1, <2>4, <2>5 DEF CountOf
  <1> QED
    BY <1>1, <1>2

\* one bit length of MissingInOrder
Miss(got, want, acc, bl) == acc \o [i \in 1..(want[bl] - CountOf(got, bl)) |-> bl]

\* What is missing is put on the list once, whatever the order; if nothing is missing, nothing.
LEMMA MissingCounts ==
  ASSUME NEW got \in SUBSET WorkSpaces, NEW want, want \in [DOMAIN want -> Nat],
         DOMAIN want \subseteq BitLengths, NEW order \in Orders(DOMAIN want)
  PROVE  /\ MissingInOrder(got, want, order) \in Seq(BitLengths)
         /\ \A bl \in DOMAIN want :
              CountIn(MissingInOrder(got, want, order), bl) + CountOf(got, bl) >= want[bl]
         /\ (\A bl \in DOMAIN want : CountOf(got, bl) >= want[bl])
              => MissingInOrder(got, want, order) = <<>>
  <1> DEFINE N == Cardinality(DOMAIN want)
             B == Seq(BitLengths)
             st == [i \in 1..N |-> [acc \in B |-> Miss(got, want, acc, order[i])]]
             Ok(g) == g = [s \in SUBSET (1..N) |->
                             IF s = {} THEN <<>>
                             ELSE LET x == Max(s) IN Miss(got, want, g[s \ {x}], order[x])]
             it == CHOOSE g : Ok(g)
  <1>n. N \in Nat
    <2>1. IsFiniteSet(BitLengths)
      BY LengthsFinite
    <2>2. IsFiniteSet(DOMAIN want)
      BY <2>1, FS_Subset
    <2> QED
      BY <2>2, FS_CardinalityType
  <1>o. /\ order \in [1..N -> DOMAIN want] /\ DOMAIN order = 1..N
        /\ \A bl \in DOMAIN want : \E i \in 1..N : order[i] = bl
    BY DEF Orders, ToSet
  <1>c. \A bl : CountOf(got, bl) \in Nat
    BY PartFinite
  <1>1. MissingInOrder(got, want, order) = it[1..N]
    BY <1>o DEF MissingInOrder, FoldLeft, MapThenFoldSet, Miss, CountOf
  <1> HIDE DEF N
  \* one bit length more
  <1>2. ASSUME NEW acc \in B, NEW bl \in DOMAIN want
        PROVE  /\ Miss(got, want, acc, bl) \in B
               /\ CountIn(Miss(got, want, acc, bl), bl) + CountOf(got, bl) >= want[bl]
               /\ \A b : CountIn(Miss(got, want, acc, bl), b) >= CountIn(acc, b)
               /\ CountOf(got, bl) >= want[bl] => Miss(got, want, acc, bl) = acc
    <2> DEFINE n == want[bl] - CountOf(got, bl)
               k == IF n >= 0 THEN n ELSE 0
    <2>1. n \in Int /\ k \in Nat /\ k >= n /\ bl \in BitLengths
      BY <1>c
    <2>2. [i \in 1..n |-> bl] = Repeated(k, bl)
      <3> HIDE DEF n
      <3>1. 1..n = 1..k
        BY <2>1
      <3> QED
        BY <3>1 DEF Repeated
    <2>3. Miss(got, want, acc, bl) = acc \o Repeated(k, bl)
      BY <2>2 DEF Miss
    <2> HIDE DEF n, k
    <2>4. /\ Repeated(k, bl) \in B /\ Len(Repeated(k, bl)) = k
          /\ \A b : CountIn(Repeated(k, bl), b) = IF b = bl THEN k ELSE 0
      BY <2>1, CountSame
    <2>5. \A b : CountIn(acc \o Repeated(k, bl), b) = CountIn(acc, b) + CountIn(Repeated(k, bl), b)
      BY <2>4, CountCat
    <2>6. \A b : CountIn(acc, b) \in Nat
      BY CountInNat
    <2>7. acc \o Repeated(k, bl) \in B
      BY <2>4
    <2>8. CountIn(acc \o Repeated(k, bl), bl) + CountOf(got, bl) >= want[bl]
      <3>1. CountIn(acc \o Repeated(k, bl), bl) = CountIn(acc, bl) + k
        BY <2>4, <2>5
      <3>2. want[bl] \in Nat /\ k >= want[bl] - CountOf(got, bl)
        BY <2>1 DEF n
      <3> QED
        BY <1>c, <2>1, <2>6, <3>1, <3>2
    <2>9. \A b : CountIn(acc \o Repeated(k, bl), b) >= CountIn(acc, b)
      BY <2>1, <2>4, <2>5, <2>6
    <2>10. ASSUME CountOf(got, bl) >= want[bl] PROVE acc \o Repeated(k, bl) = acc
      <3>1. k = 0
        BY <1>c, <2>10 DEF n, k
      <3> QED
        BY <2>4, <3>1
    <2> QED
      BY <2>3, <2>7, <2>8, <2>9, <2>10
  <1>3. st \in [1..N -> [B -> B]]
    BY <1>2, <1>o
  <1>4. \E g : FoldsAll(st, <<>>, N, B, g)
    <2>1. <<>> \in B
      OBVIOUS
    <2> HIDE DEF st, B
    <2> QED
      BY <1>n, <1>3, <2>1, FoldExists
  <1>5. PICK g \in [SUBSET (1..N) -> B] : \A s \in SUBSET (1..N) :
            g[s] = IF s = {} THEN <<>> ELSE st[Max(s)][g[s \ {Max(s)}]]
    BY <1>4 DEF FoldsAll
  <1>6. ASSUME NEW s \in SUBSET (1..N), s # {}
        PROVE  g[s] = Miss(got, want, g[s \ {Max(s)}], order[Max(s)])
    <2>1. Max(s) \in 1..N /\ s \ {Max(s)} \in SUBSET (1..N)
      BY <1>n, <1>6, WithoutMax
    <2>2. g[s \ {Max(s)}] \in B
      BY <2>1
    <2>3. g[s] = st[Max(s)][g[s \ {Max(s)}]]
      BY <1>5, <1>6
    <2> HIDE DEF B
    <2> QED
      BY <2>1, <2>2, <2>3
  <1>7. g[{}] = <<>>
    BY <1>5
  <1>8. Ok(g)
    <2> HIDE DEF B
    <2> QED
      BY <1>6, <1>7
  <1> HIDE DEF Ok
  <1>9. Ok(it)
    BY <1>8
  <1> HIDE DEF it
  <1>10. ASSUME NEW k \in 1..N PROVE it[1..k] = Miss(got, want, it[1..(k - 1)], order[k])
    <2>1. Max(1..k) = k /\ (1..k) \ {k} = 1..(k - 1) /\ (1..k) # {} /\ (1..k) \in SUBSET (1..N)
      BY <1>n, MaxUpTo
    <2>2. it[1..k] = Miss(got, want, it[(1..k) \ {Max(1..k)}], order[Max(1..k)])
      BY <1>9, <2>1 DEF Ok
    <2> QED
      BY <2>1, <2>2
  <1>11. it[1..0] = <<>>
    <2>1. 1..0 = {}
      OBVIOUS
    <2> QED
      BY <1>9, <2>1 DEF Ok
  <1> DEFINE AllThere == \A bl \in DOMAIN want : CountOf(got, bl) >= want[bl]
             Right(k) == /\ it[1..k] \in B
                         /\ \A i \in 1..k : CountIn(it[1..k], order[i]) + CountOf(got, order[i]) >= want[order[i]]
                         /\ AllThere => it[1..k] = <<>>
             T == {k \in 0..N : ~Right(k)}
  <1>12. T = {}
    <2> SUFFICES ASSUME T # {} PROVE FALSE
      OBVIOUS
    <2>0. T \in SUBSET Nat
      BY <1>n
    <2>1. PICK k \in T : \A j \in T : k <= j
      <3> HIDE DEF T
      <3> QED
        BY <2>0, Least
    <2>2. k \in Nat /\ k <= N /\ ~Right(k)
      BY <1>n, <2>1
    <2>3. k # 0
      <3>1. Right(0)
        BY <1>11
      <3> QED
        BY <2>2, <3>1
    <2>4. k - 1 \in 0..N /\ k \in 1..N
      BY <1>n, <2>2, <2>3
    <2>5. Right(k - 1)
      <3> HIDE DEF Right
      <3> QED
        BY <2>1, <2>2, <2>4
    <2> DEFINE acc == it[1..(k - 1)]
               bl == order[k]
    <2>6. acc \in B /\ bl \in DOMAIN want /\ it[1..k] = Miss(got, want, acc, bl)
      BY <1>o, <1>10, <2>4, <2>5
    <2>7. /\ it[1..k] \in B
          /\ CountIn(it[1..k], bl) + CountOf(got, bl) >= want[bl]
          /\ \A b : CountIn(it[1..k], b) >= CountIn(acc, b)
          /\ CountOf(got, bl) >= want[bl] => it[1..k] = acc
      <3> HIDE DEF acc, bl, B
      <3> QED
        BY <1>2, <2>6
    <2>8. ASSUME NEW i \in 1..k
          PROVE  CountIn(it[1..k], order[i]) + CountOf(got, order[i]) >= want[order[i]]
      <3>1. CASE i = k
        BY <2>7, <3>1
      <3>2. CASE i # k
        <4>1. i \in 1..(k - 1) /\ i \in 1..N
          BY <1>n, <2>2, <3>2
        <4>2. CountIn(acc, order[i]) + CountOf(got, order[i]) >= want[order[i]]
          BY <2>5, <4>1
        <4>3. CountIn(it[1..k], order[i]) >= CountIn(acc, order[i])
          BY <2>7
        <4>4. CountIn(it[1..k], order[i]) \in Nat /\ CountIn(acc, order[i]) \in Nat
          <5> HIDE DEF acc
          <5> QED
            BY <2>6, <2>7, CountInNat
        <4>5. want[order[i]] \in Nat /\ CountOf(got, order[i]) \in Nat
          BY <1>c, <1>o, <4>1
        <4> HIDE DEF acc
        <4> QED
          BY <4>2, <4>3, <4>4, <4>5
      <3> QED
        BY <3>1, <3>2
    <2>9. AllThere => it[1..k] = <<>>
      BY <2>5, <2>6, <2>7
    <2> QED
      BY <2>2, <2>7, <2>8, <2>9
  <1>13. Right(N)
    <2> HIDE DEF Right
    <2>1. N \in 0..N
      BY <1>n
    <2> QED
      BY <1>12, <2>1
  <1> QED
    BY <1>1, <1>o, <1>13

-----------------------------------------------------------------------------
(* The index *)

SpaceFiles ==
    [ord : 0..MaxKeys, bl : BitLengths, dir : Dirs, name : {"old", "new"}, whole : BOOLEAN]

\* d has a place among ds, and it alone has that place.
LEMMA PlaceIn ==
  ASSUME NEW ds \in Seq(Dirs), NEW d \in ToSet(ds)
  PROVE  Place(ds, d) \in Nat /\ Place(ds, d) \in DOMAIN ds /\ ds[Place(ds, d)] = d
  <1> DEFINE T == {i \in Nat : i \in DOMAIN ds /\ ds[i] = d}
  <1>1. DOMAIN ds = 1..Len(ds) /\ Len(ds) \in Nat
    OBVIOUS
  <1>2. T # {}
    BY <1>1 DEF ToSet
  <1>3. PICK i \in T : \A k \in T : i <= k
    BY <1>2, Least
  <1>4. ASSUME NEW j \in 1..(i - 1) PROVE ds[j] # d
    <2>1. i \in 1..Len(ds)
      BY <1>1
    <2>2. j \in Nat /\ j \in DOMAIN ds /\ ~(i <= j)
      BY <1>1, <2>1
    <2> QED
      BY <1>3, <2>2
  <1>5. i \in DOMAIN ds /\ ds[i] = d /\ \A j \in 1..(i - 1) : ds[j] # d
    BY <1>4
  <1>6. Place(ds, d) \in DOMAIN ds /\ ds[Place(ds, d)] = d
    BY <1>5 DEF Place
  <1> QED
    BY <1>1, <1>6

\* f is the first of the files fs that show its space in the directories ds
FirstOf(fs, ds, f) ==
    /\ f \in fs /\ Usable(f) /\ f.dir \in ToSet(ds)
    /\ \A g \in fs : Usable(g) /\ g.dir \in ToSet(ds) /\ ID(g) = ID(f) =>
         Place(ds, f.dir) <= Place(ds, g.dir)

\* no space of ix is f's
Unknown(ix, f) == \A s \in ix : ID(s) # ID(f)

\* What is indexed: what was, and the first files of the spaces that were unknown.
LEMMA IndexedIs ==
  ASSUME NEW ix, NEW fs, NEW ds, NEW s
  PROVE  s \in Indexed(ix, fs, ds) <=>
           s \in ix \/ \E f \in fs : FirstOf(fs, ds, f) /\ Unknown(ix, f) /\ s = Space(f)
  <1> DEFINE known == {ID(t) : t \in ix}
             found == {f \in fs : Usable(f) /\ f.dir \in ToSet(ds) /\ ID(f) \notin known}
             first == {f \in found : \A g \in found :
                         ID(g) = ID(f) => Place(ds, f.dir) <= Place(ds, g.dir)}
  <1>1. Indexed(ix, fs, ds) = ix \cup {Space(f) : f \in first}
    BY DEF Indexed
  <1>2. \A f : ID(f) \notin known <=> Unknown(ix, f)
    BY DEF Unknown
  <1>3. \A f \in fs : f \in first <=> FirstOf(fs, ds, f) /\ Unknown(ix, f)
    <2> HIDE DEF known
    <2> QED
      BY <1>2 DEF FirstOf, Unknown
  <1>4. first \subseteq fs
    OBVIOUS
  <1> HIDE DEF known, found, first
  <1> QED
    BY <1>1, <1>3, <1>4

\* The index holds every space its directories show, once.
LEMMA IndexedHas ==
  ASSUME NEW ix \in SUBSET WorkSpaces, NEW fs \in SUBSET SpaceFiles, NEW ds \in Seq(Dirs),
         keys \in Nat
  PROVE  /\ ix \subseteq Indexed(ix, fs, ds)
         /\ Indexed(ix, fs, ds) \in SUBSET WorkSpaces
         /\ Indexed(ix, fs, ds) \subseteq ix \cup {Space(f) : f \in fs}
         /\ \A s \in Indexed(ix, fs, ds) : s \in ix \/ (s.dir \in ToSet(ds) /\ s.ord <= keys)
         /\ OneID(ix) => OneID(Indexed(ix, fs, ds))
         /\ \A f \in fs : Usable(f) /\ f.dir \in ToSet(ds) =>
              \E s \in Indexed(ix, fs, ds) : ID(s) = ID(f)
  <1> DEFINE nx == Indexed(ix, fs, ds)
  <1>1. \A s : s \in nx <=> s \in ix \/ \E f \in fs : FirstOf(fs, ds, f) /\ Unknown(ix, f) /\ s = Space(f)
    BY IndexedIs
  <1> HIDE DEF nx
  <1>2. ASSUME NEW f \in fs, Usable(f)
        PROVE  /\ Space(f) \in WorkSpaces /\ Space(f).dir = f.dir /\ ID(Space(f)) = ID(f)
               /\ Space(f).ord <= keys
    <2>1. f \in SpaceFiles
      OBVIOUS
    <2>2. f.ord \in 1..MaxKeys /\ f.bl \in BitLengths /\ f.dir \in Dirs /\ f.ord <= keys
      BY <1>2, <2>1, ConfigureAssumption DEF SpaceFiles, Usable
    <2> QED
      BY <2>2 DEF Space, WorkSpaces, ID
  <1>3. ASSUME NEW f, NEW g, FirstOf(fs, ds, f), FirstOf(fs, ds, g), ID(f) = ID(g)
        PROVE  Space(f) = Space(g)
    <2>1. Place(ds, f.dir) <= Place(ds, g.dir) /\ Place(ds, g.dir) <= Place(ds, f.dir)
      BY <1>3 DEF FirstOf
    <2>2. /\ Place(ds, f.dir) \in Nat /\ ds[Place(ds, f.dir)] = f.dir
          /\ Place(ds, g.dir) \in Nat /\ ds[Place(ds, g.dir)] = g.dir
      BY <1>3, PlaceIn DEF FirstOf
    <2>3. Place(ds, f.dir) = Place(ds, g.dir)
      BY <2>1, <2>2
    <2>4. f.dir = g.dir /\ f.ord = g.ord /\ f.bl = g.bl
      BY <1>3, <2>2, <2>3 DEF ID
    <2> QED
      BY <2>4 DEF Space
  <1>4. ASSUME OneID(ix) PROVE OneID(nx)
    <2> SUFFICES ASSUME NEW s \in nx, NEW t \in nx, ID(s) = ID(t) PROVE s = t
      BY DEF OneID
    <2>1. CASE s \in ix /\ t \in ix
      BY <1>4, <2>1 DEF OneID
    <2>2. CASE s \in ix /\ t \notin ix
      <3>1. PICK g \in fs : FirstOf(fs, ds, g) /\ Unknown(ix, g) /\ t = Space(g)
        BY <1>1, <2>2
      <3> QED
        BY <1>2, <2>2, <3>1 DEF Unknown, FirstOf
    <2>3. CASE s \notin ix /\ t \in ix
      <3>1. PICK g \in fs : FirstOf(fs, ds, g) /\ Unknown(ix, g) /\ s = Space(g)
        BY <1>1, <2>3
      <3> QED
        BY <1>2, <2>3, <3>1 DEF Unknown, FirstOf
    <2>4. CASE s \notin ix /\ t \notin ix
      <3>1. PICK f \in fs : FirstOf(fs, ds, f) /\ s = Space(f)
        BY <1>1, <2>4
      <3>2. PICK g \in fs : FirstOf(fs, ds, g) /\ t = Space(g)
        BY <1>1, <2>4
      <3>3. ID(f) = ID(g)
        BY <1>2, <3>1, <3>2 DEF FirstOf
      <3> QED
        BY <1>3, <3>1, <3>2, <3>3
    <2> QED
      BY <2>1, <2>2, <2>3, <2>4
  <1>5. ASSUME NEW f \in fs, Usable(f), f.dir \in ToSet(ds)
        PROVE  \E s \in nx : ID(s) = ID(f)
    <2>1. CASE ~Unknown(ix, f)
      BY <1>1, <2>1 DEF Unknown
    <2>2. CASE Unknown(ix, f)
      <3> DEFINE Shows(g) == g \in fs /\ Usable(g) /\ g.dir \in ToSet(ds) /\ ID(g) = ID(f)
                 T == {n \in Nat : \E g \in fs : Shows(g) /\ Place(ds, g.dir) = n}
      <3>1. \A g \in fs : Shows(g) => Place(ds, g.dir) \in Nat
        BY PlaceIn
      <3>2. T # {}
        BY <1>5, <3>1
      <3>3. PICK n \in T : \A k \in T : n <= k
        BY <3>2, Least
      <3>4. PICK g \in fs : Shows(g) /\ Place(ds, g.dir) = n
        BY <3>3
      <3>5. \A h \in fs : Shows(h) => Place(ds, g.dir) <= Place(ds, h.dir)
        BY <3>1, <3>3, <3>4
      <3>6. FirstOf(fs, ds, g)
        BY <3>4, <3>5 DEF FirstOf
      <3>7. Unknown(ix, g)
        BY <2>2, <3>4 DEF Unknown
      <3>8. Space(g) \in nx
        BY <1>1, <3>6, <3>7
      <3> QED
        BY <1>2, <3>4, <3>8
    <2> QED
      BY <2>1, <2>2
  <1>6. nx \in SUBSET WorkSpaces
    BY <1>1, <1>2 DEF FirstOf
  <1>7. nx \subseteq ix \cup {Space(f) : f \in fs}
    BY <1>1
  <1>8. \A s \in nx : s \in ix \/ (s.dir \in ToSet(ds) /\ s.ord <= keys)
    BY <1>1, <1>2 DEF FirstOf
  <1> QED
    BY <1>1, <1>4, <1>5, <1>6, <1>7, <1>8 DEF nx

\* Upgrading renames: the spaces that have files stay the same.
LEMMA UpgradedIs ==
  ASSUME NEW fs \in SUBSET SpaceFiles, NEW ds
  PROVE  /\ Upgraded(fs, ds) \in SUBSET SpaceFiles
         /\ {Space(f) : f \in Upgraded(fs, ds)} = {Space(f) : f \in fs}
         /\ \A f \in Upgraded(fs, ds) : f \in fs \/
              \E g \in fs : /\ g.name = "old" /\ g.dir \in ToSet(ds) /\ g.ord \in 1..keys
                            /\ f = [g EXCEPT !.name = "new"]
         /\ \A f \in Upgraded(fs, ds) : ~(f.name = "old" /\ f.dir \in ToSet(ds) /\ f.ord \in 1..keys)
         /\ (\A f \in fs : ~(f.name = "old" /\ f.dir \in ToSet(ds) /\ f.ord \in 1..keys))
              => Upgraded(fs, ds) = fs
  <1> DEFINE old == {f \in fs : f.name = "old" /\ f.dir \in ToSet(ds) /\ f.ord \in 1..keys}
             kept == {f \in fs \ old : ~\E g \in old : Space(g) = Space(f)}
             named == {[f EXCEPT !.name = "new"] : f \in old}
  <1>1. Upgraded(fs, ds) = kept \cup named
    BY DEF Upgraded
  <1>2. ASSUME NEW f \in SpaceFiles
        PROVE  /\ [f EXCEPT !.name = "new"] \in SpaceFiles
               /\ Space([f EXCEPT !.name = "new"]) = Space(f)
               /\ [f EXCEPT !.name = "new"].name = "new"
    BY DEF SpaceFiles, Space
  <1>3. kept \subseteq fs /\ old \subseteq fs /\ kept \cap old = {}
    OBVIOUS
  <1>4. \A f \in fs : f \in kept \/ \E g \in old : Space(g) = Space(f)
    OBVIOUS
  <1>5. \A f : f \in old <=> f \in fs /\ f.name = "old" /\ f.dir \in ToSet(ds) /\ f.ord \in 1..keys
    OBVIOUS
  <1>6. \A f : f \in named <=> \E g \in old : f = [g EXCEPT !.name = "new"]
    OBVIOUS
  <1>7. old = {} => kept = fs /\ named = {}
    OBVIOUS
  <1> HIDE DEF old, kept, named
  <1>8. kept \cup named \in SUBSET SpaceFiles
    BY <1>2, <1>3, <1>6
  <1>9. {Space(f) : f \in kept \cup named} = {Space(f) : f \in fs}
    <2>1. ASSUME NEW f \in kept \cup named PROVE \E g \in fs : Space(f) = Space(g)
      BY <1>2, <1>3, <1>6
    <2>2. ASSUME NEW g \in fs PROVE \E f \in kept \cup named : Space(f) = Space(g)
      <3>1. CASE g \in kept
        BY <3>1
      <3>2. CASE g \notin kept
        <4>1. PICK h \in old : Space(h) = Space(g)
          BY <1>4, <3>2
        <4>2. [h EXCEPT !.name = "new"] \in named /\ Space([h EXCEPT !.name = "new"]) = Space(h)
          BY <1>2, <1>3, <1>6, <4>1
        <4> QED
          BY <4>1, <4>2
      <3> QED
        BY <3>1, <3>2
    <2> QED
      BY <2>1, <2>2
  <1>10. \A f \in kept \cup named : f \in fs \/
              \E g \in fs : /\ g.name = "old" /\ g.dir \in ToSet(ds) /\ g.ord \in 1..keys
                            /\ f = [g EXCEPT !.name = "new"]
    BY <1>3, <1>5, <1>6
  <1>11. \A f \in kept \cup named : ~(f.name = "old" /\ f.dir \in ToSet(ds) /\ f.ord \in 1..keys)
    BY <1>2, <1>3, <1>5, <1>6
  <1>12. (\A f \in fs : ~(f.name = "old" /\ f.dir \in ToSet(ds) /\ f.ord \in 1..keys))
              => kept \cup named = fs
    BY <1>5, <1>7
  <1> QED
    BY <1>1, <1>8, <1>9, <1>10, <1>11, <1>12

-----------------------------------------------------------------------------
(* The inductive invariant *)

Parts == [from : SUBSET Dirs, into : Dirs, size : Nat]

Calls == [st : {"none", "run", "ok", "failed"}, kind : {"none", "flags", "list", "size", "path"},
          asked : Seq(Parts), parts : Seq(Parts), todo : Seq(BitLengths), want : Wants \cup {<<>>},
          into : Dirs, key : 0..MaxKeys, got : SUBSET WorkSpaces]

Shown == {Space(f) : f \in files}

\* The types, with what is in use, indexed and plotted being part of what has files.
StateTypes ==
    /\ svc \in {"down", "idle", "running"} /\ dirs \in Seq(Dirs)
    /\ index \in SUBSET WorkSpaces /\ list \in SUBSET index
    /\ configured \in BOOLEAN /\ call \in Calls
    /\ keys \in OldKeys..MaxKeys /\ calls \in 0..MaxCalls
    /\ files \in SUBSET SpaceFiles /\ index \subseteq Shown /\ plotted \subseteq Shown

\* A key is of the wallet before a file of it is made; the key of a space that is being made
\* has no file yet.
KeysFirst ==
    /\ \A f \in files : f.ord <= keys
    /\ call.key <= keys
    /\ call.key # 0 => call.st = "run" /\ call.todo # <<>> /\ \A f \in files : f.ord # call.key

\* every usable file of the directories ds has its space in the index
Listed(ds) == \A f \in files : Usable(f) /\ f.dir \in ToSet(ds) => \E s \in index : ID(s) = ID(f)

\* A process that is down has nothing; else its index has the spaces of the directories it was
\* started with and of those it has now.
ProcessState ==
    /\ svc = "down" => index = {} /\ list = {} /\ ~configured /\ call = NoCall
    /\ svc # "down" => OneID(index) /\ Listed(CfgDirs) /\ Listed(dirs) /\ dirs # <<>>
    /\ call.got \subseteq index
    /\ call.st = "run" => svc = "idle" /\ ~configured
    /\ configured => call.st = "ok"
    /\ call.st = "ok" /\ call.kind # "flags" => list = call.got

\* Everything got or in use is in a directory the keeper shows, but for a size.
InDirs ==
    /\ call.kind = "list" => dirs = CfgDirs
    /\ call.kind = "path" => \A i \in DOMAIN call.asked : call.asked[i].into \in ToSet(dirs)
    /\ call.kind # "size" => \A s \in call.got : s.dir \in ToSet(dirs)
    /\ configured /\ call.kind # "size" => \A s \in list : s.dir \in ToSet(dirs)

\* the parts of a request that are filled
Filled(c) == Len(c.asked) - Len(c.parts)

\* What a call is like by its kind.
CallShape(c) ==
    /\ c.st = "run" => c.kind \in {"list", "size", "path"}
    /\ c.st \in {"ok", "failed"} => c.todo = <<>> /\ c.parts = <<>>
    /\ c.kind \in {"none", "flags"} => c.todo = <<>> /\ c.got = {}
    /\ c.kind \in {"none", "flags", "list"} => c.asked = <<>> /\ c.parts = <<>>
    /\ c.kind = "list" => c.into = CfgDirs[1] /\ c.want \in Wants
    /\ c.kind # "list" => c.want = <<>> /\ Usual(c.got) /\ UsualPlan(c.todo)
    /\ c.kind = "size" => Len(c.asked) = 1 /\ \A i \in DOMAIN c.asked : c.asked[i].from = Dirs
    /\ c.kind = "path" => \A i \in DOMAIN c.asked : c.asked[i].from = {c.asked[i].into}

\* How far a call is.
Progress(c) ==
    c.st = "run" /\ c.kind # "list" =>
        /\ Len(c.parts) <= Len(c.asked)
        /\ \A i \in DOMAIN c.parts : c.parts[i] = c.asked[Filled(c) + i]
        /\ Filled(c) = 0 => c.todo = <<>> /\ c.got = {}
        /\ Filled(c) > 0 => c.into = c.asked[Filled(c)].into

Within(S, D) == {s \in S : s.dir \in D}

\* what is still to be made in the directories D
MakeIn(c, D) == IF c.into \in D THEN c.todo ELSE <<>>

AskedSizes(asked) == [j \in DOMAIN asked |-> asked[j].size]

\* what the first k parts ask of the directories D
AskedOf(asked, D, k) == SumOver(AskedSizes(asked), {j \in DOMAIN asked : asked[j].from = D /\ j <= k})

\* What is got and what will be made is not more than what was asked of the directories so
\* far, and less than a smallest plot short of each part.
Amounts(c) ==
    c.st \in {"run", "ok"} => \A i \in DOMAIN c.asked :
        LET D == c.asked[i].from
            sum == Worth(Within(c.got, D)) + WorthOf(MakeIn(c, D))
        IN  /\ sum <= AskedOf(c.asked, D, Filled(c))
            /\ i <= Filled(c) => c.asked[i].size < sum + 3

\* the spaces S, and those to be made, are enough for a size
EnoughIn(S, todo, size) ==
    Enough(CountOf(S, 28) + CountIn(todo, 28), CountOf(S, 26) + CountIn(todo, 26),
           CountOf(S, 24) + CountIn(todo, 24), size)

\* The parts that are filled can be filled again, from the index and what will be made, and
\* something was asked for if there is anything.
Refillable(c, ix) ==
    c.st \in {"run", "ok"} =>
        /\ \A i \in DOMAIN c.asked : i <= Filled(c) =>
             EnoughIn(Within(ix, c.asked[i].from), MakeIn(c, c.asked[i].from), c.asked[i].size)
        /\ (c.got # {} \/ c.todo # <<>>) /\ c.kind # "list" =>
             \E i \in DOMAIN c.asked : i <= Filled(c) /\ c.asked[i].size >= 3
        /\ c.kind = "list" => \A bl \in DOMAIN c.want :
             CountOf(Within(ix, ToSet(CfgDirs)), bl) + CountIn(c.todo, bl) >= c.want[bl]

ConfigureInv ==
    /\ StateTypes /\ KeysFirst /\ ProcessState /\ InDirs
    /\ CallShape(call) /\ Progress(call) /\ Amounts(call) /\ Refillable(call, index)

\* A size asked for is a number; the smallest plot's is 3.
LEMMA SmallestIs == Smallest = 3
  BY DEF Smallest, UsableBitLength, PlotSize

\* What spaces are worth is a number.
LEMMA WorthNat ==
  ASSUME NEW S \in SUBSET WorkSpaces
  PROVE  Worth(S) \in Nat /\ (S # {} /\ Usual(S) => Worth(S) >= 3)
  <1>1. CountOf(S, 28) \in Nat /\ CountOf(S, 26) \in Nat /\ CountOf(S, 24) \in Nat
    BY PartFinite
  <1>2. ASSUME S # {}, Usual(S) PROVE CountOf(S, 28) > 0 \/ CountOf(S, 26) > 0 \/ CountOf(S, 24) > 0
    <2>1. PICK x \in S : TRUE
      BY <1>2
    <2> DEFINE R == S \ {x}
    <2>2. R \in SUBSET WorkSpaces /\ x \in WorkSpaces /\ x \notin R /\ S = R \cup {x}
      OBVIOUS
    <2> HIDE DEF R
    <2>3. CountOf(S, x.bl) = CountOf(R, x.bl) + 1 /\ CountOf(R, x.bl) \in Nat
      BY <2>2, CountAdd, PartFinite
    <2>4. x.bl \in {24, 26, 28}
      BY <1>2 DEF Usual
    <2> QED
      BY <2>3, <2>4
  <1> QED
    BY <1>1, <1>2 DEF Worth

\* The directories taken apart: what is in use in each, together, is everything; and their
\* sizes add up if none is named twice.
LEMMA ShownAll ==
  ASSUME StateTypes, \A s \in list : s.dir \in ToSet(dirs)
  PROVE  /\ UNION {ByDirs[i].spaces : i \in DOMAIN ByDirs} = list
         /\ (\A i, j \in DOMAIN dirs : dirs[i] = dirs[j] => i = j)
              => MapThenSumSet(LAMBDA i : ByDirs[i].capacity, DOMAIN ByDirs) = Total(list)
  <1> DEFINE D == DOMAIN ByDirs
             Of(d) == {s \in list : s.dir = d}
             Sp(i) == Of(dirs[i])
  <1>t. list \in SUBSET WorkSpaces /\ list \subseteq index /\ dirs \in Seq(Dirs)
    BY DEF StateTypes
  <1>1. \A d : Allocation(d).dir = d /\ Allocation(d).spaces = Of(d) /\ Allocation(d).capacity = Total(Of(d))
    BY DEF Allocation
  <1>2. D \subseteq DOMAIN dirs /\ \A i \in D : ByDirs[i].spaces = Sp(i) /\ ByDirs[i].capacity = Total(Sp(i))
    BY <1>1 DEF ByDirs
  <1>3. \A s \in list : \E i \in D : s.dir = dirs[i]
    BY <1>t DEF ByDirs, ToSet
  <1>4. UNION {ByDirs[i].spaces : i \in D} = list
    <2>1. ASSUME NEW s \in list PROVE \E i \in D : s \in ByDirs[i].spaces
      BY <1>2, <1>3
    <2>2. ASSUME NEW i \in D PROVE ByDirs[i].spaces \subseteq list
      BY <1>2
    <2> HIDE DEF D
    <2> QED
      BY <2>1, <2>2
  <1>5. IsFiniteSet(D)
    <2>1. IsFiniteSet(DOMAIN dirs)
      <3>1. DOMAIN dirs = 1..Len(dirs) /\ Len(dirs) \in Nat
        BY <1>t
      <3> QED
        BY <3>1, FS_Interval
    <2> HIDE DEF D
    <2> QED
      BY <1>2, <2>1, FS_Subset
  <1> SUFFICES ASSUME \A i, j \in DOMAIN dirs : dirs[i] = dirs[j] => i = j
               PROVE  MapThenSumSet(LAMBDA i : ByDirs[i].capacity, DOMAIN ByDirs) = Total(list)
    BY <1>4
  <1> DEFINE F == [i \in D |-> ByDirs[i].capacity]
             U(A) == UNION {Sp(i) : i \in A}
  <1>6. \A i \in D : F[i] = Total(Sp(i)) /\ Sp(i) \in SUBSET WorkSpaces
    <2>1. ASSUME NEW i \in D PROVE F[i] = ByDirs[i].capacity
      OBVIOUS
    <2> HIDE DEF F
    <2> QED
      BY <1>t, <1>2, <2>1
  <1>7. \A i, j \in D : i # j => Sp(i) \cap Sp(j) = {}
    <2>1. \A i, j \in D : dirs[i] = dirs[j] => i = j
      BY <1>2
    <2> HIDE DEF F, D
    <2> QED
      BY <2>1
  <1>8. ASSUME NEW S \in SUBSET WorkSpaces, NEW R \in SUBSET WorkSpaces, S \cap R = {}
        PROVE  Total(S \cup R) = Total(S) + Total(R) /\ Total(S) \in Int
    <2> HIDE DEF D, F
    <2>1. R \cap S = {} /\ S \cup R = R \cup S
      BY <1>8
    <2>2. Total(S) \in Nat /\ Total(R) \in Nat /\ Total(R \cup S) = Total(R) + Total(S)
      BY <2>1, TotalJoin
    <2>3. Total(S \cup R) = Total(R \cup S)
      BY <2>1
    <2>4. \A m, n \in Nat : m + n = n + m /\ n \in Int
      OBVIOUS
    <2>5. Total(R) + Total(S) = Total(S) + Total(R) /\ Total(S) \in Int
      BY <2>2, <2>4
    <2> QED
      BY <2>2, <2>3, <2>5
  <1>9. \A A \in SUBSET D : SumOver(F, A) = Total(U(A))
    <2> DEFINE T == {n \in Nat : \E A \in SUBSET D : Cardinality(A) = n /\ SumOver(F, A) # Total(U(A))}
    <2>1. T = {}
      <3> SUFFICES ASSUME T # {} PROVE FALSE
        OBVIOUS
      <3>1. PICK n \in T : \A k \in T : n <= k
        BY Least
      <3>2. PICK A \in SUBSET D : Cardinality(A) = n /\ SumOver(F, A) # Total(U(A))
        BY <3>1
      <3>3. IsFiniteSet(A) /\ \A a \in A : F[a] \in Int /\ F[a] = Total(Sp(a))
        <4> HIDE DEF F
        <4>1. \A a \in A : Total(Sp(a)) \in Int
          <5>1. \A a \in A : Sp(a) \in SUBSET WorkSpaces
            BY <1>6
          <5> QED
            BY <5>1, TotalNat
        <4> QED
          BY <1>5, <1>6, <4>1, FS_Subset
      <3> HIDE DEF F
      <3>4. A # {}
        <4> SUFFICES ASSUME A = {} PROVE FALSE
          OBVIOUS
        <4>1. U(A) = {}
          OBVIOUS
        <4>2. SumOver(F, A) = 0
          BY <3>3, SumStep
        <4>3. Total({}) = 0
          BY TotalStep
        <4> QED
          BY <3>2, <4>1, <4>2, <4>3
      <3>5. PICK x \in A : TRUE
        BY <3>4
      <3> DEFINE B == A \ {x}
      <3>6. B \in SUBSET D /\ IsFiniteSet(B) /\ Cardinality(B) \in Nat /\ Cardinality(B) < n
        <4>1. IsFiniteSet(B) /\ Cardinality(B) = Cardinality(A) - 1
          BY <3>3, <3>5, FS_RemoveElement
        <4>2. Cardinality(A) \in Nat /\ Cardinality(B) \in Nat
          BY <3>3, <4>1, FS_CardinalityType
        <4> QED
          BY <3>2, <4>1, <4>2
      <3>7. SumOver(F, B) = Total(U(B))
        <4> HIDE DEF B, U
        <4> QED
          BY <3>1, <3>6
      <3>8. SumOver(F, A) = Total(Sp(x)) + SumOver(F, B)
        BY <3>3, <3>5, SumStep
      <3>9. U(A) = Sp(x) \cup U(B)
        BY <3>5
      <3>10. Sp(x) \cap U(B) = {} /\ U(B) \in SUBSET WorkSpaces /\ Sp(x) \in SUBSET WorkSpaces
        <4>1. x \in D /\ \A b \in B : b \in D /\ b # x
          BY <3>5
        <4> HIDE DEF D, F, B, Sp
        <4>2. Sp(x) \in SUBSET WorkSpaces /\ \A b \in B : Sp(b) \in SUBSET WorkSpaces
          BY <1>6, <4>1
        <4>3. \A b \in B : Sp(x) \cap Sp(b) = {}
          BY <1>7, <4>1
        <4>4. ASSUME NEW y \in U(B) PROVE y \in WorkSpaces /\ y \notin Sp(x)
          <5>1. PICK b \in B : y \in Sp(b)
            OBVIOUS
          <5> QED
            BY <4>2, <4>3, <5>1
        <4> HIDE DEF U
        <4> QED
          BY <4>2, <4>4
      <3> HIDE DEF U, B
      <3>11. Total(Sp(x) \cup U(B)) = Total(Sp(x)) + Total(U(B))
        BY <1>8, <3>10
      <3> QED
        BY <3>2, <3>7, <3>8, <3>9, <3>11
    <2>2. \A A \in SUBSET D : Cardinality(A) \in Nat
      BY <1>5, FS_Subset, FS_CardinalityType
    <2> HIDE DEF F, U
    <2> QED
      BY <2>1, <2>2
  <1>10. MapThenSumSet(LAMBDA i : ByDirs[i].capacity, D) = SumOver(F, D)
    <2> DEFINE S == D
               Ok(g) == g = [s \in SUBSET S |-> IF s = {} THEN 0
                                                ELSE LET x == CHOOSE y \in s : TRUE
                                                     IN  ByDirs[x].capacity + g[s \ {x}]]
               it == CHOOSE g : Ok(g)
               su == CHOOSE g : Adds(F, S, g)
    <2>1. MapThenSumSet(LAMBDA i : ByDirs[i].capacity, S) = it[S]
      BY DEF MapThenSumSet, MapThenFoldSet
    <2>2. SumOver(F, S) = su[S]
      BY DEF SumOver
    <2>3. \A s \in SUBSET S : s # {} => F[Some(s)] = ByDirs[Some(s)].capacity
      <3>1. \A s \in SUBSET S : s # {} => Some(s) \in S
        BY DEF Some
      <3> QED
        BY <3>1
    <2>4. ASSUME NEW g PROVE Ok(g) <=> Adds(F, S, g)
      <3> HIDE DEF F
      <3>1. [s \in SUBSET S |-> IF s = {} THEN 0
                                ELSE LET x == CHOOSE y \in s : TRUE IN ByDirs[x].capacity + g[s \ {x}]]
            = [s \in SUBSET S |-> IF s = {} THEN 0 ELSE F[Some(s)] + g[s \ {Some(s)}]]
        BY <2>3 DEF Some
      <3> QED
        BY <3>1 DEF Adds
    <2> HIDE DEF F
    <2>5. Adds(F, S, su)
      BY <1>5, AddsExists
    <2> HIDE DEF su, Ok
    <2>6. Adds(F, S, it)
      BY <2>4, <2>5
    <2> HIDE DEF it
    <2>7. it[S] = su[S]
      BY <1>5, <2>5, <2>6, AddsSame
    <2> QED
      BY <2>1, <2>2, <2>7
  <1>11. SumOver(F, D) = Total(U(D))
    <2> HIDE DEF F, U
    <2> QED
      BY <1>9
  <1>12. U(D) = list
    <2> HIDE DEF D, F, Sp
    <2>1. \A i \in D : ByDirs[i].spaces = Sp(i)
      BY <1>2
    <2>2. ASSUME NEW y PROVE y \in UNION {Sp(i) : i \in D} <=> y \in UNION {ByDirs[i].spaces : i \in D}
      <3>1. y \in UNION {Sp(i) : i \in D} <=> \E i \in D : y \in Sp(i)
        OBVIOUS
      <3>2. y \in UNION {ByDirs[i].spaces : i \in D} <=> \E i \in D : y \in ByDirs[i].spaces
        OBVIOUS
      <3> QED
        BY <2>1, <3>1, <3>2
    <2>3. UNION {Sp(i) : i \in D} = UNION {ByDirs[i].spaces : i \in D}
      BY <2>2
    <2> QED
      BY <1>4, <2>3
  <1> QED
    <2> HIDE DEF F, U
    <2> QED
      BY <1>10, <1>11, <1>12

\* What the parts J of a request ask for.
LEMMA AllAsked ==
  ASSUME NEW J \in SUBSET DOMAIN call.asked, IsFiniteSet(DOMAIN call.asked)
  PROVE  MapThenSumSet(LAMBDA j : call.asked[j].size, J) = SumOver(AskedSizes(call.asked), J)
  <1> DEFINE F == AskedSizes(call.asked)
             Ok(g) == g = [s \in SUBSET J |-> IF s = {} THEN 0
                                              ELSE LET x == CHOOSE y \in s : TRUE
                                                   IN  call.asked[x].size + g[s \ {x}]]
             it == CHOOSE g : Ok(g)
             su == CHOOSE g : Adds(F, J, g)
  <1>0. IsFiniteSet(J)
    BY FS_Subset
  <1>1. MapThenSumSet(LAMBDA j : call.asked[j].size, J) = it[J]
    BY DEF MapThenSumSet, MapThenFoldSet
  <1>2. SumOver(F, J) = su[J]
    BY DEF SumOver
  <1>3. \A s \in SUBSET J : s # {} => F[Some(s)] = call.asked[Some(s)].size
    <2>1. \A s \in SUBSET J : s # {} => Some(s) \in DOMAIN call.asked
      BY DEF Some
    <2> QED
      BY <2>1 DEF AskedSizes
  <1>4. ASSUME NEW g PROVE Ok(g) <=> Adds(F, J, g)
    <2> HIDE DEF F
    <2>1. [s \in SUBSET J |-> IF s = {} THEN 0
                              ELSE LET x == CHOOSE y \in s : TRUE IN call.asked[x].size + g[s \ {x}]]
          = [s \in SUBSET J |-> IF s = {} THEN 0 ELSE F[Some(s)] + g[s \ {Some(s)}]]
      BY <1>3 DEF Some
    <2> QED
      BY <2>1 DEF Adds
  <1> HIDE DEF F
  <1>5. Adds(F, J, su)
    BY <1>0, AddsExists
  <1> HIDE DEF su, Ok
  <1>6. Adds(F, J, it)
    BY <1>4, <1>5
  <1> HIDE DEF it
  <1>7. it[J] = su[J]
    BY <1>0, <1>5, <1>6, AddsSame
  <1> QED
    BY <1>1, <1>2, <1>7 DEF F

\* The fields of a call have their types.
LEMMA CallFields ==
  ASSUME NEW c \in Calls
  PROVE  /\ c.asked \in Seq(Parts) /\ c.parts \in Seq(Parts) /\ c.todo \in Seq(BitLengths)
         /\ c.got \in SUBSET WorkSpaces /\ c.into \in Dirs /\ c.key \in Nat /\ c.key <= MaxKeys
         /\ DOMAIN c.asked = 1..Len(c.asked) /\ Len(c.asked) \in Nat
         /\ DOMAIN c.parts = 1..Len(c.parts) /\ Len(c.parts) \in Nat
         /\ IsFiniteSet(DOMAIN c.asked)
         /\ \A i \in DOMAIN c.asked : /\ c.asked[i] \in Parts /\ c.asked[i].from \in SUBSET Dirs
                                      /\ c.asked[i].into \in Dirs /\ c.asked[i].size \in Nat
         /\ Filled(c) \in Int
  <1>1. /\ c.asked \in Seq(Parts) /\ c.parts \in Seq(Parts) /\ c.todo \in Seq(BitLengths)
        /\ c.got \in SUBSET WorkSpaces /\ c.into \in Dirs /\ c.key \in 0..MaxKeys
    BY DEF Calls
  <1>2. c.key \in Nat /\ c.key <= MaxKeys
    BY <1>1, ConfigureAssumption
  <1>3. /\ DOMAIN c.asked = 1..Len(c.asked) /\ Len(c.asked) \in Nat
        /\ DOMAIN c.parts = 1..Len(c.parts) /\ Len(c.parts) \in Nat
    BY <1>1
  <1>4. IsFiniteSet(DOMAIN c.asked)
    BY <1>3, FS_Interval
  <1>5. \A i \in DOMAIN c.asked : c.asked[i] \in Parts
    <2> HIDE DEF Parts
    <2> QED
      BY <1>1, <1>3
  <1>6. \A p \in Parts : p.from \in SUBSET Dirs /\ p.into \in Dirs /\ p.size \in Nat
    BY DEF Parts
  <1>7. Filled(c) \in Int
    BY <1>3 DEF Filled
  <1> QED
    BY <1>1, <1>2, <1>3, <1>4, <1>5, <1>6, <1>7

\* The invariant says that a call that succeeded put in use what was asked for.
LEMMA InvSizeMet == ConfigureInv => SizeMet
  <1> SUFFICES ASSUME ConfigureInv, call.st = "ok", NEW i \in DOMAIN call.asked
               PROVE  LET p == call.asked[i]
                          used == Total({s \in list : s.dir \in p.from})
                          all == MapThenSumSet(LAMBDA j : call.asked[j].size,
                                     {j \in DOMAIN call.asked : call.asked[j].from = p.from})
                      IN  used <= all /\ used + Smallest > p.size
    BY DEF SizeMet
  <1> DEFINE D == call.asked[i].from
             size == call.asked[i].size
             J == {j \in DOMAIN call.asked : call.asked[j].from = D}
             K == {j \in DOMAIN call.asked : call.asked[j].from = D /\ j <= Filled(call)}
             S == {s \in list : s.dir \in D}
             W == Worth(Within(call.got, D))
  <1>1. /\ call \in Calls /\ list \in SUBSET WorkSpaces /\ ProcessState
        /\ CallShape(call) /\ Amounts(call)
    BY DEF ConfigureInv, StateTypes
  <1>2. /\ DOMAIN call.asked = 1..Len(call.asked) /\ Len(call.asked) \in Nat
        /\ IsFiniteSet(DOMAIN call.asked) /\ size \in Nat /\ call.got \in SUBSET WorkSpaces
    BY <1>1, CallFields
  <1>3. call.kind # "flags" /\ call.todo = <<>> /\ call.parts = <<>>
    <2>1. call.asked # <<>>
      BY <1>2
    <2> QED
      BY <1>1, <2>1 DEF CallShape
  <1>4. list = call.got
    BY <1>1, <1>3 DEF ProcessState
  <1>5. Filled(call) = Len(call.asked)
    BY <1>2, <1>3 DEF Filled
  <1>6. K = J /\ i <= Filled(call)
    BY <1>2, <1>5
  <1>7. MakeIn(call, D) = <<>>
    BY <1>3 DEF MakeIn
  <1>8. WorthOf(<<>>) = 0
    BY CountNone DEF WorthOf
  <1>9. S = Within(call.got, D) /\ Within(call.got, D) \in SUBSET WorkSpaces
    BY <1>2, <1>4 DEF Within
  <1>10. /\ W + WorthOf(MakeIn(call, D)) <= AskedOf(call.asked, D, Filled(call))
         /\ size < W + WorthOf(MakeIn(call, D)) + 3
    BY <1>1, <1>6 DEF Amounts
  <1>u. Usual(Within(call.got, D))
    <2>1. call.kind # "list"
      BY <1>1, <1>2 DEF CallShape
    <2> QED
      BY <1>1, <2>1 DEF CallShape, Usual, Within
  <1>11. W \in Nat /\ Total(S) = W
    BY <1>u, <1>9, WorthNat, TotalWorth
  <1>12. MapThenSumSet(LAMBDA j : call.asked[j].size, J) = AskedOf(call.asked, D, Filled(call))
    <2>1. MapThenSumSet(LAMBDA j : call.asked[j].size, J) = SumOver(AskedSizes(call.asked), J)
      BY <1>2, AllAsked
    <2> QED
      BY <1>6, <2>1 DEF AskedOf
  <1> HIDE DEF W, S, size
  <1>13. Total(S) <= AskedOf(call.asked, D, Filled(call)) /\ size < Total(S) + 3
    BY <1>7, <1>8, <1>10, <1>11
  <1>14. Total(S) + Smallest > size
    BY <1>2, <1>11, <1>13, SmallestIs
  <1> QED
    BY <1>12, <1>13, <1>14 DEF S, size

\* It says that no space of the keeper's directories is lost.
LEMMA InvIndexIsDisk == ConfigureInv => IndexIsDisk
  BY DEF ConfigureInv, ProcessState, Listed, IndexIsDisk

\* It says that the answer by directories is complete.
LEMMA InvDirsShowAll == ConfigureInv => DirsShowAll
  <1> SUFFICES ASSUME ConfigureInv, configured, call.kind # "size"
               PROVE  /\ UNION {ByDirs[i].spaces : i \in DOMAIN ByDirs} = list
                      /\ (\A i, j \in DOMAIN dirs : dirs[i] = dirs[j] => i = j)
                           => MapThenSumSet(LAMBDA i : ByDirs[i].capacity, DOMAIN ByDirs) = Total(list)
    BY DEF DirsShowAll
  <1>1. StateTypes /\ \A s \in list : s.dir \in ToSet(dirs)
    BY DEF ConfigureInv, InDirs
  <1> QED
    BY <1>1, ShownAll

\* It has the types.
LEMMA InvTypes == ConfigureInv => ConfigureTypeOK
  BY DEF ConfigureInv, StateTypes, ConfigureTypeOK, WorkSpaces, Shown

-----------------------------------------------------------------------------
(* Its steps *)

\* No call satisfies what is said of calls.
LEMMA NoCallIs ==
  /\ NoCall \in Calls /\ NoCall.st = "none" /\ NoCall.kind = "none" /\ NoCall.key = 0
  /\ NoCall.got = {} /\ NoCall.todo = <<>> /\ NoCall.asked = <<>>
  /\ CallShape(NoCall) /\ Progress(NoCall) /\ Amounts(NoCall) /\ \A ix : Refillable(NoCall, ix)
  <1>1. CfgDirs[1] \in Dirs
    BY ConfigureAssumption
  <1>2. <<>> \in Seq(Parts) /\ <<>> \in Seq(BitLengths) /\ 0 \in 0..MaxKeys
    BY ConfigureAssumption
  <1>3. NoCall \in Calls
    BY <1>1, <1>2 DEF NoCall, Calls
  <1> QED
    BY <1>3, UsualNone DEF NoCall, CallShape, Progress, Amounts, Refillable

\* At the start there is no process.
LEMMA InitConfigureInv == ConfigureInit => ConfigureInv
  <1> SUFFICES ASSUME ConfigureInit PROVE ConfigureInv
    OBVIOUS
  <1> USE DEF ConfigureInit
  <1>1. files \in SUBSET SpaceFiles /\ \A f \in files : f.ord <= keys
    <2>1. \A f \in Found : f \in SpaceFiles /\ f.ord <= OldKeys
      BY ConfigureAssumption DEF SpaceFiles
    <2> QED
      BY <2>1
  <1>2. StateTypes
    <2>1. call \in Calls
      BY NoCallIs
    <2>2. dirs \in Seq(Dirs) /\ keys \in OldKeys..MaxKeys /\ calls \in 0..MaxCalls
      BY ConfigureAssumption
    <2> QED
      BY <1>1, <2>1, <2>2 DEF StateTypes
  <1>3. KeysFirst
    BY <1>1, NoCallIs, ConfigureAssumption DEF KeysFirst
  <1>4. ProcessState /\ InDirs
    BY NoCallIs DEF ProcessState, InDirs
  <1> QED
    BY <1>2, <1>3, <1>4, NoCallIs DEF ConfigureInv

\* A process that ends leaves its files.
LEMMA ForgetInv ==
  ASSUME ConfigureInv, Forget, keys' = keys, calls' = calls, plotted' = plotted,
         files \subseteq files', files' \in SUBSET SpaceFiles, \A f \in files' : f.ord <= keys
  PROVE  ConfigureInv'
  <1>1. svc' = "down" /\ dirs' = <<>> /\ index' = {} /\ list' = {}
        /\ configured' = FALSE /\ call' = NoCall
    BY DEF Forget
  <1>2. StateTypes'
    <2>1. keys' \in OldKeys..MaxKeys /\ calls' \in 0..MaxCalls /\ call' \in Calls
      BY <1>1, NoCallIs DEF ConfigureInv, StateTypes
    <2>2. plotted' \subseteq Shown'
      BY DEF ConfigureInv, StateTypes, Shown
    <2>3. dirs' \in Seq(Dirs) /\ index' \in SUBSET WorkSpaces /\ index' \subseteq Shown'
      BY <1>1
    <2> QED
      BY <1>1, <2>1, <2>2, <2>3 DEF StateTypes
  <1>3. KeysFirst'
    <2>1. keys \in Nat
      BY ConfigureAssumption DEF ConfigureInv, StateTypes
    <2> QED
      BY <1>1, <2>1, NoCallIs DEF KeysFirst
  <1>4. ProcessState' /\ InDirs'
    BY <1>1, NoCallIs DEF ProcessState, InDirs
  <1> QED
    BY <1>1, <1>2, <1>3, <1>4, NoCallIs DEF ConfigureInv

\* A call that fails leaves the state, or ends the program.
LEMMA FailsInv ==
  ASSUME ConfigureInv, call.st = "run", Fails, UNCHANGED <<keys, files, plotted, calls>>
  PROVE  ConfigureInv'
  <1>1. CASE call.kind = "list"
    <2>1. Forget /\ files' \in SUBSET SpaceFiles /\ \A f \in files' : f.ord <= keys
      BY <1>1 DEF Fails, ConfigureInv, StateTypes, KeysFirst
    <2> QED
      BY <2>1, ForgetInv
  <1>2. CASE call.kind # "list"
    <2>1. /\ call' = [call EXCEPT !.st = "failed", !.todo = <<>>, !.parts = <<>>, !.key = 0]
          /\ UNCHANGED <<svc, dirs, index, list, configured, met>>
      BY <1>2 DEF Fails
    <2>2. call \in Calls /\ ~configured /\ call.kind \in {"size", "path"}
      BY <1>2 DEF ConfigureInv, StateTypes, ProcessState, CallShape
    <2>3. /\ call' \in Calls /\ call'.st = "failed" /\ call'.todo = <<>> /\ call'.parts = <<>>
          /\ call'.key = 0 /\ call'.asked = call.asked /\ call'.kind = call.kind
          /\ call'.got = call.got /\ call'.want = call.want
      <3>1. <<>> \in Seq(Parts) /\ <<>> \in Seq(BitLengths) /\ 0 \in 0..MaxKeys
        BY ConfigureAssumption
      <3>2. call' \in Calls
        BY <2>1, <2>2, <3>1 DEF Calls
      <3> QED
        BY <2>1, <2>2, <3>2 DEF Calls
    <2>4. StateTypes'
      BY <2>1, <2>3 DEF ConfigureInv, StateTypes, Shown
    <2>5. KeysFirst'
      BY <2>1, <2>3, ConfigureAssumption DEF ConfigureInv, StateTypes, KeysFirst
    <2>6. ProcessState'
      <3>1. ProcessState /\ svc = "idle"
        BY DEF ConfigureInv, ProcessState
      <3>2. Listed(CfgDirs)' /\ Listed(dirs)'
        BY <2>1, <3>1 DEF ProcessState, Listed, Usable
      <3> QED
        BY <2>1, <2>2, <2>3, <3>1, <3>2 DEF ProcessState
    <2>7. InDirs'
      BY <2>1, <2>2, <2>3 DEF ConfigureInv, InDirs
    <2>8. CallShape(call')
      BY <2>2, <2>3, UsualNone DEF ConfigureInv, CallShape
    <2>9. Progress(call') /\ Amounts(call') /\ Refillable(call', index')
      BY <2>3 DEF Progress, Amounts, Refillable
    <2> QED
      BY <2>4, <2>5, <2>6, <2>7, <2>8, <2>9 DEF ConfigureInv
  <1> QED
    BY <1>1, <1>2

\* what a start has read
Started ==
    /\ svc' = "idle" /\ dirs' = CfgDirs /\ keys' = keys
    /\ files' = Upgraded(files, CfgDirs)
    /\ index' = Indexed({}, files', CfgDirs)

\* The index of a process that starts.
LEMMA StartedIndex ==
  ASSUME ConfigureInv, svc = "down", Started
  PROVE  /\ files' \in SUBSET SpaceFiles /\ Shown' = Shown /\ \A f \in files' : f.ord <= keys
         /\ index' \in SUBSET WorkSpaces /\ index' \subseteq Shown' /\ OneID(index')
         /\ Listed(CfgDirs)' /\ \A s \in index' : s.dir \in ToSet(CfgDirs)
         /\ dirs' \in Seq(Dirs) /\ dirs' # <<>>
  <1> DEFINE fs == Upgraded(files, CfgDirs)
  <1>1. files \in SUBSET SpaceFiles /\ keys \in Nat /\ \A f \in files : f.ord <= keys
    BY ConfigureAssumption DEF ConfigureInv, StateTypes, KeysFirst
  <1>2. CfgDirs \in Seq(Dirs) /\ CfgDirs # <<>>
    BY ConfigureAssumption
  <1>3. fs \in SUBSET SpaceFiles /\ {Space(f) : f \in fs} = {Space(f) : f \in files}
    BY <1>1, UpgradedIs
  <1>4. \A f \in fs : f.ord <= keys
    <2>1. \A f \in fs : f \in files \/ \E g \in files : f = [g EXCEPT !.name = "new"]
      BY <1>1, UpgradedIs
    <2>2. \A g \in files : [g EXCEPT !.name = "new"].ord = g.ord
      BY <1>1 DEF SpaceFiles
    <2> HIDE DEF fs
    <2> QED
      BY <1>1, <2>1, <2>2
  <1>5. files' = fs /\ index' = Indexed({}, fs, CfgDirs) /\ keys' = keys
    BY DEF Started
  <1> HIDE DEF fs
  <1>6. /\ index' \in SUBSET WorkSpaces
        /\ index' \subseteq {} \cup {Space(f) : f \in fs}
        /\ \A s \in index' : s \in {} \/ (s.dir \in ToSet(CfgDirs) /\ s.ord <= keys)
        /\ OneID({}) => OneID(index')
        /\ \A f \in fs : Usable(f) /\ f.dir \in ToSet(CfgDirs) => \E s \in index' : ID(s) = ID(f)
    <2> DEFINE e == {}
    <2>1. e \in SUBSET WorkSpaces
      OBVIOUS
    <2>2. index' = Indexed(e, fs, CfgDirs)
      BY <1>5
    <2> HIDE DEF e
    <2>3. /\ index' \in SUBSET WorkSpaces
          /\ index' \subseteq e \cup {Space(f) : f \in fs}
          /\ \A s \in index' : s \in e \/ (s.dir \in ToSet(CfgDirs) /\ s.ord <= keys)
          /\ OneID(e) => OneID(index')
          /\ \A f \in fs : Usable(f) /\ f.dir \in ToSet(CfgDirs) => \E s \in index' : ID(s) = ID(f)
      BY <1>1, <1>2, <1>3, <2>1, <2>2, IndexedHas
    <2> QED
      BY <2>3 DEF e
  <1>7. OneID({})
    BY DEF OneID
  <1>8. Listed(CfgDirs)'
    BY <1>5, <1>6 DEF Listed, Usable
  <1>9. Shown' = {Space(f) : f \in fs}
    BY <1>5 DEF Shown
  <1>10. Shown' = Shown /\ index' \subseteq Shown'
    BY <1>3, <1>6, <1>9 DEF Shown
  <1> QED
    BY <1>2, <1>3, <1>4, <1>5, <1>6, <1>7, <1>8, <1>10 DEF Started

\* A start that configures nothing.
LEMMA BootInv == ConfigureInv /\ Boot => ConfigureInv'
  <1> SUFFICES ASSUME ConfigureInv, Boot PROVE ConfigureInv'
    OBVIOUS
  <1>1. /\ svc = "down" /\ Started
        /\ UNCHANGED <<list, configured, call, keys, plotted, met, calls>>
    BY DEF Boot, Started
  <1>2. /\ files' \in SUBSET SpaceFiles /\ Shown' = Shown /\ \A f \in files' : f.ord <= keys
        /\ index' \in SUBSET WorkSpaces /\ index' \subseteq Shown' /\ OneID(index')
        /\ Listed(CfgDirs)' /\ dirs' \in Seq(Dirs) /\ dirs' # <<>>
    BY <1>1, StartedIndex
  <1>3. call = NoCall /\ list = {} /\ ~configured
    BY <1>1 DEF ConfigureInv, ProcessState, StateTypes
  <1>4. StateTypes'
    BY <1>1, <1>2, <1>3 DEF ConfigureInv, StateTypes, Started
  <1>5. KeysFirst'
    BY <1>1, <1>2, <1>3, NoCallIs, ConfigureAssumption DEF ConfigureInv, StateTypes, KeysFirst
  <1>6. ProcessState'
    <2>1. svc' = "idle" /\ dirs' = CfgDirs
      BY <1>1 DEF Started
    <2>2. Listed(dirs)'
      BY <1>2, <2>1 DEF Listed
    <2> QED
      BY <1>1, <1>2, <1>3, <2>1, <2>2, NoCallIs DEF ProcessState
  <1>7. InDirs'
    BY <1>1, <1>3, NoCallIs DEF InDirs
  <1> QED
    BY <1>1, <1>3, <1>4, <1>5, <1>6, <1>7, NoCallIs DEF ConfigureInv

\* A start that takes every space there is.
LEMMA BootByFlagsInv == ConfigureInv /\ BootByFlags => ConfigureInv'
  <1> SUFFICES ASSUME ConfigureInv, BootByFlags PROVE ConfigureInv'
    OBVIOUS
  <1>1. /\ svc = "down" /\ Started /\ UNCHANGED <<keys, plotted, met, calls>>
        /\ IF index' = {} THEN UNCHANGED <<list, configured>>
           ELSE Use(index')
        /\ call' = [NoCall EXCEPT !.kind = "flags", !.st = IF index' = {} THEN "failed" ELSE "ok"]
    BY DEF BootByFlags, Started
  <1>2. /\ files' \in SUBSET SpaceFiles /\ Shown' = Shown /\ \A f \in files' : f.ord <= keys
        /\ index' \in SUBSET WorkSpaces /\ index' \subseteq Shown' /\ OneID(index')
        /\ Listed(CfgDirs)' /\ dirs' \in Seq(Dirs) /\ dirs' # <<>>
        /\ \A s \in index' : s.dir \in ToSet(CfgDirs)
    BY <1>1, StartedIndex
  <1>3. list = {} /\ ~configured
    BY <1>1 DEF ConfigureInv, ProcessState, StateTypes
  <1>4. /\ call' \in Calls /\ call'.kind = "flags" /\ call'.key = 0 /\ call'.got = {}
        /\ call'.todo = <<>> /\ call'.asked = <<>> /\ call'.parts = <<>> /\ call'.want = <<>>
        /\ call'.st = IF index' = {} THEN "failed" ELSE "ok"
    <2>1. NoCall \in Calls
      BY NoCallIs
    <2>2. call' \in Calls
      BY <1>1, <2>1 DEF Calls
    <2> QED
      BY <1>1, <2>2 DEF NoCall
  <1>5. \/ index' = {} /\ list' = {} /\ configured' = FALSE
        \/ index' # {} /\ list' = index' /\ configured' = TRUE
    BY <1>1, <1>3, ConfigureAssumption DEF Use, ConfigureInv, StateTypes
  <1>6. StateTypes'
    <2>1. list' \in SUBSET index' /\ configured' \in BOOLEAN
      BY <1>5
    <2> QED
      BY <1>1, <1>2, <1>4, <2>1 DEF ConfigureInv, StateTypes, Started
  <1>7. KeysFirst'
    BY <1>1, <1>2, <1>4, ConfigureAssumption DEF ConfigureInv, StateTypes, KeysFirst
  <1>8. svc' = "idle" /\ dirs' = CfgDirs
    BY <1>1 DEF Started
  <1>9. ProcessState'
    <2>1. Listed(dirs)'
      BY <1>2, <1>8 DEF Listed
    <2> QED
      BY <1>2, <1>4, <1>5, <1>8, <2>1 DEF ProcessState
  <1>10. InDirs'
    BY <1>2, <1>4, <1>5, <1>8 DEF InDirs
  <1>11. CallShape(call') /\ Progress(call') /\ Amounts(call') /\ Refillable(call', index')
    BY <1>4, UsualNone DEF CallShape, Progress, Amounts, Refillable
  <1> QED
    BY <1>6, <1>7, <1>9, <1>10, <1>11 DEF ConfigureInv

\* A start that ends at once has upgraded the names.
LEMMA UpgradedInv ==
  ASSUME ConfigureInv, svc = "down", files' = Upgraded(files, CfgDirs), calls < MaxCalls,
         calls' = calls + 1, UNCHANGED <<svc, dirs, index, call, list, configured, keys, plotted>>
  PROVE  ConfigureInv'
  <1>1. files \in SUBSET SpaceFiles /\ keys \in Nat /\ \A f \in files : f.ord <= keys
    BY ConfigureAssumption DEF ConfigureInv, StateTypes, KeysFirst
  <1>2. files' \in SUBSET SpaceFiles /\ Shown' = Shown
    BY <1>1, UpgradedIs DEF Shown
  <1>3. \A f \in files' : f.ord <= keys
    <2>1. \A f \in files' : f \in files \/ \E g \in files : f = [g EXCEPT !.name = "new"]
      BY <1>1, UpgradedIs
    <2>2. \A g \in files : [g EXCEPT !.name = "new"].ord = g.ord
      BY <1>1 DEF SpaceFiles
    <2> QED
      BY <1>1, <2>1, <2>2
  <1>4. StateTypes'
    <2>1. calls' \in 0..MaxCalls
      BY ConfigureAssumption DEF ConfigureInv, StateTypes
    <2> QED
      BY <1>2, <2>1 DEF ConfigureInv, StateTypes
  <1>5. call = NoCall
    BY DEF ConfigureInv, ProcessState
  <1>6. KeysFirst'
    BY <1>1, <1>3, <1>5, NoCallIs DEF KeysFirst
  <1>7. ProcessState' /\ InDirs'
    BY <1>5, NoCallIs DEF ConfigureInv, ProcessState, InDirs
  <1> QED
    BY <1>4, <1>5, <1>6, <1>7, NoCallIs DEF ConfigureInv

\* what a start finds for a list of counts
Found1 == Indexed({}, Upgraded(files, CfgDirs), CfgDirs)
Got1(want) == FillByBitLength(Found1, want)

\* a start with a list that goes on, and one that ends for want of room
Begun(want, order) ==
    /\ svc' = "idle" /\ dirs' = CfgDirs /\ index' = Found1 /\ refused' = {}
    /\ call' = [NoCall EXCEPT !.st = "run", !.kind = "list", !.want = want,
                              !.todo = MissingInOrder(Got1(want), want, order), !.got = Got1(want)]
Ended(want, order) ==
    /\ MissingInOrder(Got1(want), want, order) # <<>>
    /\ refused' = met \cap {[kind |-> "list", asked |-> <<>>, want |-> want]}
    /\ UNCHANGED <<svc, dirs, index, call>>

\* A start with a list does one or the other.
LEMMA StartsByList ==
  ASSUME NEW want, BootByBitLength(want)
  PROVE  /\ svc = "down" /\ calls < MaxCalls /\ files' = Upgraded(files, CfgDirs) /\ calls' = calls + 1
         /\ UNCHANGED <<list, configured, keys, plotted, met>>
         /\ \E order \in Orders(DOMAIN want) : Begun(want, order) \/ Ended(want, order)
  <1>1. /\ svc = "down" /\ calls < MaxCalls /\ files' = Upgraded(files, CfgDirs) /\ calls' = calls + 1
        /\ UNCHANGED <<list, configured, keys, plotted, met>>
    BY DEF BootByBitLength
  <1>2. PICK order \in Orders(DOMAIN want) :
          LET todo == MissingInOrder(Got1(want), want, order)
          IN  IF todo # <<>> /\ ~HasRoom(CfgDirs[1], PlanSize(todo))
              THEN /\ refused' = met \cap {[kind |-> "list", asked |-> <<>>, want |-> want]}
                   /\ UNCHANGED <<svc, dirs, index, call>>
              ELSE /\ svc' = "idle" /\ dirs' = CfgDirs /\ index' = Found1 /\ refused' = {}
                   /\ call' = [NoCall EXCEPT !.st = "run", !.kind = "list", !.want = want,
                                             !.todo = todo, !.got = Got1(want)]
    BY DEF BootByBitLength, Got1, Found1
  <1> DEFINE todo == MissingInOrder(Got1(want), want, order)
  <1>3. CASE todo # <<>> /\ ~HasRoom(CfgDirs[1], PlanSize(todo))
    BY <1>1, <1>2, <1>3 DEF Ended
  <1>4. CASE ~(todo # <<>> /\ ~HasRoom(CfgDirs[1], PlanSize(todo)))
    BY <1>1, <1>2, <1>4 DEF Begun
  <1> QED
    BY <1>3, <1>4

\* A start with a list of counts.
LEMMA BegunInv ==
  ASSUME ConfigureInv, NEW want \in Wants, NEW order \in Orders(DOMAIN want), Begun(want, order),
         svc = "down", calls < MaxCalls, files' = Upgraded(files, CfgDirs), calls' = calls + 1,
         UNCHANGED <<list, configured, keys, plotted, met>>
  PROVE  ConfigureInv'
  <1> DEFINE fs == Upgraded(files, CfgDirs)
             ix == Indexed({}, fs, CfgDirs)
             got == FillByBitLength(ix, want)
  <1>1. /\ svc = "down" /\ calls < MaxCalls /\ svc' = "idle" /\ dirs' = CfgDirs
        /\ files' = fs /\ index' = ix /\ calls' = calls + 1
        /\ UNCHANGED <<list, configured, keys, plotted, met>>
    BY DEF Begun, Found1
  <1>2. call' = [NoCall EXCEPT !.st = "run", !.kind = "list", !.want = want,
                               !.todo = MissingInOrder(got, want, order), !.got = got]
    BY DEF Begun, Got1, Found1
  <1>3. Started
    BY <1>1 DEF Started
  <1>4. /\ files' \in SUBSET SpaceFiles /\ Shown' = Shown /\ \A f \in files' : f.ord <= keys
        /\ index' \in SUBSET WorkSpaces /\ index' \subseteq Shown' /\ OneID(index')
        /\ Listed(CfgDirs)' /\ dirs' \in Seq(Dirs) /\ dirs' # <<>>
        /\ \A s \in index' : s.dir \in ToSet(CfgDirs)
    BY <1>1, <1>3, StartedIndex
  <1>5. DOMAIN want \subseteq BitLengths /\ want \in [DOMAIN want -> Nat]
    BY ConfigureAssumption
  <1> DEFINE todo == MissingInOrder(got, want, order)
  <1>6. /\ got \in SUBSET index'
        /\ \A bl \in DOMAIN want : CountOf(got, bl) = Less(want[bl], CountOf(index', bl))
    <2>1. ix \in SUBSET WorkSpaces /\ OneID(ix) /\ index' = ix
      BY <1>1, <1>4
    <2> HIDE DEF ix
    <2> QED
      BY <1>5, <2>1, ListCounts
  <1> HIDE DEF got
  <1>7. got \in SUBSET WorkSpaces
    BY <1>4, <1>6
  <1>8. /\ todo \in Seq(BitLengths)
        /\ \A bl \in DOMAIN want : CountIn(todo, bl) + CountOf(got, bl) >= want[bl]
    BY <1>5, <1>7, MissingCounts
  <1> HIDE DEF todo, fs, ix
  <1>9. /\ call' \in Calls /\ call'.st = "run" /\ call'.kind = "list" /\ call'.want = want
        /\ call'.todo = todo /\ call'.got = got /\ call'.asked = <<>> /\ call'.parts = <<>>
        /\ call'.key = 0 /\ call'.into = CfgDirs[1]
    <2>0. NoCall \in Calls
      BY NoCallIs
    <2>1. call' = [NoCall EXCEPT !.st = "run", !.kind = "list", !.want = want,
                                 !.todo = todo, !.got = got]
      BY <1>2 DEF todo
    <2>2. call' \in Calls
      BY <1>7, <1>8, <2>0, <2>1 DEF Calls
    <2> QED
      BY <2>1, <2>2 DEF NoCall
  <1>10. list = {} /\ ~configured
    BY <1>1 DEF ConfigureInv, ProcessState, StateTypes
  <1>11. StateTypes'
    <2>1. calls' \in 0..MaxCalls
      BY <1>1, ConfigureAssumption DEF ConfigureInv, StateTypes
    <2> QED
      BY <1>1, <1>4, <1>9, <1>10, <2>1 DEF ConfigureInv, StateTypes
  <1>12. KeysFirst'
    BY <1>1, <1>4, <1>9, ConfigureAssumption DEF ConfigureInv, StateTypes, KeysFirst
  <1>13. ProcessState'
    <2>1. Listed(dirs)'
      BY <1>1, <1>4 DEF Listed
    <2> QED
      BY <1>1, <1>4, <1>6, <1>9, <1>10, <2>1 DEF ProcessState
  <1>14. InDirs'
    BY <1>1, <1>4, <1>6, <1>9, <1>10 DEF InDirs
  <1>15. CallShape(call') /\ Progress(call') /\ Amounts(call')
    BY <1>9 DEF CallShape, Progress, Amounts
  <1>16. Refillable(call', index')
    <2>1. Within(index', ToSet(CfgDirs)) = index'
      BY <1>4 DEF Within
    <2>2. ASSUME NEW bl \in DOMAIN want
          PROVE  CountOf(index', bl) + CountIn(todo, bl) >= want[bl]
      <3>1. CountOf(got, bl) <= CountOf(index', bl)
        BY <1>4, <1>6, <1>7, CountPart
      <3>2. CountIn(todo, bl) + CountOf(got, bl) >= want[bl]
        BY <1>8
      <3>3. CountOf(got, bl) \in Nat /\ CountOf(index', bl) \in Nat /\ CountIn(todo, bl) \in Nat
            /\ want[bl] \in Nat
        BY <1>4, <1>5, <1>7, <1>8, PartFinite, CountInNat
      <3> QED
        BY <3>1, <3>2, <3>3
    <2> QED
      BY <1>9, <2>1, <2>2 DEF Refillable
  <1> QED
    BY <1>11, <1>12, <1>13, <1>14, <1>15, <1>16 DEF ConfigureInv

\* Either way.
LEMMA BootByBitLengthInv ==
  ASSUME ConfigureInv, NEW want \in Wants, BootByBitLength(want)
  PROVE  ConfigureInv'
  <1>1. /\ svc = "down" /\ calls < MaxCalls /\ files' = Upgraded(files, CfgDirs) /\ calls' = calls + 1
        /\ UNCHANGED <<list, configured, keys, plotted, met>>
        /\ \E order \in Orders(DOMAIN want) : Begun(want, order) \/ Ended(want, order)
    BY StartsByList
  <1>2. CASE \E order \in Orders(DOMAIN want) : Begun(want, order)
    BY <1>1, <1>2, BegunInv
  <1>3. CASE \E order \in Orders(DOMAIN want) : Ended(want, order)
    <2>1. UNCHANGED <<svc, dirs, index, call>>
      BY <1>3 DEF Ended
    <2> QED
      BY <1>1, <2>1, UpgradedInv
  <1> QED
    BY <1>1, <1>2, <1>3

\* Nothing is asked of no parts; one part more.
LEMMA AskedStep ==
  ASSUME NEW asked \in Seq(Parts), NEW D, NEW k \in Nat
  PROVE  /\ AskedOf(asked, D, k) \in Int
         /\ k = 0 => AskedOf(asked, D, k) = 0
         /\ k < Len(asked) => AskedOf(asked, D, k + 1)
              = AskedOf(asked, D, k) + (IF asked[k + 1].from = D THEN asked[k + 1].size ELSE 0)
  <1> DEFINE F == AskedSizes(asked)
             J(n) == {j \in DOMAIN asked : asked[j].from = D /\ j <= n}
  <1>1. DOMAIN asked = 1..Len(asked) /\ Len(asked) \in Nat
    OBVIOUS
  <1>2. IsFiniteSet(DOMAIN asked)
    BY <1>1, FS_Interval
  <1>3. \A j \in DOMAIN asked : F[j] = asked[j].size /\ F[j] \in Int
    <2>1. \A j \in DOMAIN asked : asked[j] \in Parts
      <3> HIDE DEF Parts
      <3> QED
        BY <1>1
    <2>2. \A p \in Parts : p.size \in Int
      BY DEF Parts
    <2> QED
      BY <2>1, <2>2 DEF AskedSizes
  <1> HIDE DEF F
  <1>4. \A n : IsFiniteSet(J(n)) /\ \A j \in J(n) : F[j] \in Int
    BY <1>2, <1>3, FS_Subset
  <1>5. \A n : AskedOf(asked, D, n) = SumOver(F, J(n))
    BY DEF AskedOf, F
  <1>6. AskedOf(asked, D, k) \in Int
    <2> HIDE DEF J
    <2> QED
      BY <1>4, <1>5, SumStep
  <1>7. ASSUME k = 0 PROVE AskedOf(asked, D, k) = 0
    <2>1. J(k) = {}
      BY <1>1, <1>7
    <2> HIDE DEF J
    <2> QED
      BY <1>4, <1>5, <2>1, SumStep
  <1>8. ASSUME k < Len(asked)
        PROVE  AskedOf(asked, D, k + 1)
                 = AskedOf(asked, D, k) + (IF asked[k + 1].from = D THEN asked[k + 1].size ELSE 0)
    <2>0. k + 1 \in DOMAIN asked
      BY <1>1, <1>8
    <2>1. CASE asked[k + 1].from = D
      <3>1. k + 1 \in J(k + 1) /\ J(k + 1) \ {k + 1} = J(k)
        BY <1>1, <2>0, <2>1
      <3> HIDE DEF J
      <3>2. SumOver(F, J(k + 1)) = F[k + 1] + SumOver(F, J(k + 1) \ {k + 1})
        BY <1>4, <3>1, SumStep
      <3>3. AskedOf(asked, D, k + 1) = F[k + 1] + AskedOf(asked, D, k)
        BY <1>5, <3>1, <3>2
      <3>4. F[k + 1] = asked[k + 1].size /\ F[k + 1] \in Int
        BY <1>3, <2>0
      <3> QED
        BY <1>6, <2>1, <3>3, <3>4
    <2>2. CASE asked[k + 1].from # D
      <3>1. J(k + 1) = J(k)
        BY <1>1, <2>0, <2>2
      <3> HIDE DEF J
      <3> QED
        BY <1>5, <1>6, <2>2, <3>1
    <2> QED
      BY <2>1, <2>2
  <1> QED
    BY <1>6, <1>7, <1>8

\* Nothing got is worth nothing.
LEMMA WorthNone == Worth({}) = 0 /\ WorthOf(<<>>) = 0
  <1>1. \A bl : {s \in {} : s.bl = bl} = {}
    OBVIOUS
  <1>2. \A bl : CountOf({}, bl) = 0
    BY <1>1, FS_EmptySet DEF CountOf
  <1> QED
    BY <1>2, CountNone DEF Worth, WorthOf

\* A call that begins has nothing yet.
LEMMA BeginInv ==
  ASSUME ConfigureInv, NEW kind \in {"size", "path"}, NEW parts \in Seq(Parts), Begin(kind, parts),
         kind = "size" => Len(parts) = 1 /\ \A i \in DOMAIN parts : parts[i].from = Dirs,
         kind = "path" => \A i \in DOMAIN parts :
                             parts[i].from = {parts[i].into} /\ parts[i].into \in ToSet(dirs'),
         dirs' \in Seq(Dirs), dirs' # <<>>, index' \in SUBSET WorkSpaces, index \subseteq index',
         index' \subseteq Shown, OneID(index'), Listed(CfgDirs)', Listed(dirs)', svc = "idle"
  PROVE  ConfigureInv'
  <1>1. /\ calls < MaxCalls /\ configured' = FALSE
        /\ call' = [NoCall EXCEPT !.st = "run", !.kind = kind, !.asked = parts, !.parts = parts]
        /\ calls' = calls + 1
        /\ UNCHANGED <<svc, list, keys, files, plotted, met>>
    BY DEF Begin
  <1>2. /\ call' \in Calls /\ call'.st = "run" /\ call'.kind = kind /\ call'.asked = parts
        /\ call'.parts = parts /\ call'.todo = <<>> /\ call'.got = {} /\ call'.key = 0
        /\ call'.want = <<>>
    <2>1. NoCall \in Calls
      BY NoCallIs
    <2>2. call' \in Calls
      BY <1>1, <2>1 DEF Calls
    <2> QED
      BY <1>1, <2>2 DEF NoCall
  <1>3. StateTypes'
    <2>1. calls' \in 0..MaxCalls
      BY <1>1, ConfigureAssumption DEF ConfigureInv, StateTypes
    <2>2. list' \in SUBSET index' /\ Shown' = Shown
      BY <1>1 DEF ConfigureInv, StateTypes, Shown
    <2> QED
      BY <1>1, <1>2, <2>1, <2>2 DEF ConfigureInv, StateTypes
  <1>4. KeysFirst'
    BY <1>1, <1>2, ConfigureAssumption DEF ConfigureInv, StateTypes, KeysFirst
  <1>5. ProcessState' /\ InDirs'
    BY <1>1, <1>2 DEF ProcessState, InDirs
  <1>6. CallShape(call')
    BY <1>2, UsualNone DEF CallShape
  <1>7. Len(parts) \in Nat /\ DOMAIN parts = 1..Len(parts)
    OBVIOUS
  <1>8. Filled(call') = 0
    BY <1>2, <1>7 DEF Filled
  <1>9. Progress(call')
    <2>1. \A i \in DOMAIN parts : 0 + i = i
      BY <1>7
    <2> QED
      BY <1>2, <1>7, <1>8, <2>1 DEF Progress
  <1>10. \A i \in DOMAIN parts : ~(i <= 0)
    BY <1>7
  <1>11. Amounts(call')
    <2>1. \A D : MakeIn(call', D) = <<>> /\ Within(call'.got, D) = {}
      BY <1>2 DEF MakeIn, Within
    <2>2. \A D : AskedOf(parts, D, 0) = 0
      BY AskedStep
    <2>3. \A D : Worth(Within(call'.got, D)) + WorthOf(MakeIn(call', D)) = 0
      <3>1. Worth({}) + WorthOf(<<>>) = 0
        BY WorthNone
      <3> QED
        BY <2>1, <3>1
    <2> QED
      BY <1>2, <1>8, <1>10, <2>2, <2>3 DEF Amounts
  <1>12. Refillable(call', index')
    BY <1>2, <1>8, <1>10 DEF Refillable
  <1> QED
    BY <1>3, <1>4, <1>5, <1>6, <1>9, <1>11, <1>12 DEF ConfigureInv

\* A handler that goes on calls a keeper that is there and at rest.
LEMMA AtRest ==
  ASSUME ConfigureInv, Served, ~Busy
  PROVE  svc = "idle" /\ call.st # "run"
  BY DEF ConfigureInv, StateTypes, Served, Busy

\* A size is asked for.
LEMMA BySizeInv ==
  ASSUME ConfigureInv, NEW size \in SizeRequests, svc = "idle", UNCHANGED <<dirs, index>>,
         Begin("size", << [from |-> Dirs, into |-> dirs[1], size |-> size] >>)
  PROVE  ConfigureInv'
  <1> DEFINE p == [from |-> Dirs, into |-> dirs[1], size |-> size]
             parts == <<p>>
  <1>1. svc = "idle" /\ Begin("size", parts) /\ UNCHANGED <<dirs, index>>
    OBVIOUS
  <1>2. /\ dirs \in Seq(Dirs) /\ dirs # <<>> /\ index \in SUBSET WorkSpaces /\ index \subseteq Shown
        /\ OneID(index) /\ Listed(CfgDirs) /\ Listed(dirs)
    BY <1>1 DEF ConfigureInv, StateTypes, ProcessState
  <1>3. p \in Parts
    BY <1>2, ConfigureAssumption DEF Parts
  <1>4. p.from = Dirs
    OBVIOUS
  <1> HIDE DEF p
  <1>5. parts \in Seq(Parts) /\ Len(parts) = 1 /\ \A i \in DOMAIN parts : parts[i].from = Dirs
    BY <1>3, <1>4
  <1>6. Listed(CfgDirs)' /\ Listed(dirs)'
    <2>1. files' = files /\ keys' = keys
      BY <1>1 DEF Begin
    <2> QED
      BY <1>1, <1>2, <2>1 DEF Listed, Usable
  <1> HIDE DEF parts
  <1> QED
    BY <1>1, <1>2, <1>5, <1>6, BeginInv

\* the directories of a request, and its parts
DirsOf(request) == [i \in DOMAIN request |-> request[i].dir]
PartsOf(request) == [i \in DOMAIN request |->
    [from |-> {request[i].dir}, into |-> request[i].dir, size |-> request[i].size]]

\* The handlers either begin a call or turn the request away.
LEMMA HandlersAre ==
  /\ \A size : ConfigureBySize(size) =>
       LET parts == << [from |-> Dirs, into |-> dirs[1], size |-> size] >>
       IN  /\ Served
           /\ \/ ~Busy /\ Begin("size", parts) /\ UNCHANGED <<dirs, index>>
              \/ TurnAway("size", parts)
  /\ \A request : ConfigureByPath(request) =>
       /\ Served
       /\ \/ /\ ~Busy /\ Begin("path", PartsOf(request)) /\ dirs' = DirsOf(request)
             /\ index' = Indexed(index, files, DirsOf(request))
             /\ \A i \in DOMAIN request : CheckMinerPathCapacity(request[i].dir, request[i].size)
          \/ /\ TurnAway("path", PartsOf(request))
             /\ ~Busy => \E i \in DOMAIN request :
                            ~CheckMinerPathCapacity(request[i].dir, request[i].size)
  <1>1. ASSUME NEW size, ConfigureBySize(size)
        PROVE  LET parts == << [from |-> Dirs, into |-> dirs[1], size |-> size] >>
               IN  /\ Served
                   /\ \/ ~Busy /\ Begin("size", parts) /\ UNCHANGED <<dirs, index>>
                      \/ TurnAway("size", parts)
    BY <1>1 DEF ConfigureBySize
  <1>2. ASSUME NEW request, ConfigureByPath(request)
        PROVE  /\ Served
               /\ \/ /\ ~Busy /\ Begin("path", PartsOf(request)) /\ dirs' = DirsOf(request)
                     /\ index' = Indexed(index, files, DirsOf(request))
                     /\ \A i \in DOMAIN request : CheckMinerPathCapacity(request[i].dir, request[i].size)
                  \/ /\ TurnAway("path", PartsOf(request))
                     /\ ~Busy => \E i \in DOMAIN request :
                                    ~CheckMinerPathCapacity(request[i].dir, request[i].size)
    <2> DEFINE ds == DirsOf(request)
               parts == [i \in DOMAIN request |-> [from |-> {ds[i]}, into |-> ds[i], size |-> request[i].size]]
    <2>1. /\ Served
          /\ IF (\A i \in DOMAIN request : CheckMinerPathCapacity(ds[i], request[i].size)) /\ ~Busy
             THEN Begin("path", parts) /\ dirs' = ds /\ index' = Indexed(index, files, ds)
             ELSE TurnAway("path", parts)
      BY <1>2 DEF ConfigureByPath, DirsOf
    <2>2. \A i \in DOMAIN request : ds[i] = request[i].dir
      BY DEF DirsOf
    <2> HIDE DEF ds
    <2>3. parts = PartsOf(request)
      BY <2>2 DEF PartsOf
    <2>4. (\A i \in DOMAIN request : CheckMinerPathCapacity(ds[i], request[i].size))
            <=> (\A i \in DOMAIN request : CheckMinerPathCapacity(request[i].dir, request[i].size))
      BY <2>2
    <2> HIDE DEF parts
    <2>5. CASE (\A i \in DOMAIN request : CheckMinerPathCapacity(ds[i], request[i].size)) /\ ~Busy
      BY <2>1, <2>3, <2>4, <2>5 DEF ds
    <2>6. CASE ~((\A i \in DOMAIN request : CheckMinerPathCapacity(ds[i], request[i].size)) /\ ~Busy)
      BY <2>1, <2>3, <2>4, <2>6
    <2> QED
      BY <2>5, <2>6
  <1> QED
    BY <1>1, <1>2

\* Sizes are asked for by directory.
LEMMA ByPathInv ==
  ASSUME ConfigureInv, NEW request \in PathRequests, svc = "idle",
         Begin("path", PartsOf(request)), dirs' = DirsOf(request),
         index' = Indexed(index, files, DirsOf(request))
  PROVE  ConfigureInv'
  <1> DEFINE ds == [i \in DOMAIN request |-> request[i].dir]
             part(i) == [from |-> {request[i].dir}, into |-> request[i].dir, size |-> request[i].size]
             parts == [i \in DOMAIN request |-> part(i)]
             R == [dir : Dirs, size : Nat]
  <1>1. Begin("path", parts) /\ dirs' = ds /\ index' = Indexed(index, files, ds)
    BY DEF PartsOf, DirsOf
  <1>2. request \in Seq(R) /\ request # <<>>
    BY ConfigureAssumption
  <1>3. /\ DOMAIN request = 1..Len(request) /\ Len(request) \in Nat /\ Len(request) # 0
        /\ \A i \in DOMAIN request : request[i] \in R
    <2> HIDE DEF R
    <2> QED
      BY <1>2
  <1>4. \A i \in DOMAIN request : request[i].dir \in Dirs /\ request[i].size \in Nat
    BY <1>3
  <1>5. ds \in Seq(Dirs) /\ ds # <<>>
    <2>1. ds \in [1..Len(request) -> Dirs]
      BY <1>3, <1>4
    <2>2. ds \in Seq(Dirs)
      BY <1>3, <2>1
    <2>3. DOMAIN ds = 1..Len(request) /\ 1 \in 1..Len(request)
      BY <1>3
    <2> QED
      BY <2>2, <2>3
  <1>6. \A i \in DOMAIN request : part(i) \in Parts
    BY <1>4 DEF Parts
  <1>7. /\ parts \in Seq(Parts) /\ DOMAIN parts = DOMAIN request
        /\ \A i \in DOMAIN parts : parts[i] = part(i)
    <2> HIDE DEF part
    <2>1. parts \in [1..Len(request) -> Parts]
      BY <1>3, <1>6
    <2> QED
      BY <1>3, <2>1
  <1>8. \A i \in DOMAIN parts : parts[i].from = {parts[i].into} /\ parts[i].into \in ToSet(ds)
    <2>1. \A i \in DOMAIN request : part(i).from = {request[i].dir} /\ part(i).into = request[i].dir
      OBVIOUS
    <2>2. \A i \in DOMAIN request : request[i].dir \in ToSet(ds)
      BY DEF ToSet
    <2> HIDE DEF part, parts, ds
    <2> QED
      BY <1>7, <2>1, <2>2
  <1>9. svc = "idle" /\ files' = files /\ keys' = keys
    BY <1>1 DEF Begin
  <1>10. /\ index \in SUBSET WorkSpaces /\ index \subseteq Shown /\ files \in SUBSET SpaceFiles
         /\ keys \in Nat /\ OneID(index) /\ Listed(CfgDirs)
    BY <1>9, ConfigureAssumption DEF ConfigureInv, StateTypes, ProcessState
  <1> HIDE DEF ds, parts, part
  <1>11. /\ index \subseteq index' /\ index' \in SUBSET WorkSpaces
         /\ index' \subseteq index \cup {Space(f) : f \in files} /\ OneID(index')
         /\ \A f \in files : Usable(f) /\ f.dir \in ToSet(ds) => \E s \in index' : ID(s) = ID(f)
    BY <1>1, <1>5, <1>10, IndexedHas
  <1>12. index' \subseteq Shown
    BY <1>10, <1>11 DEF Shown
  <1>13. Listed(dirs)' /\ Listed(CfgDirs)'
    BY <1>1, <1>9, <1>10, <1>11 DEF Listed, Usable
  <1> QED
    BY <1>1, <1>5, <1>7, <1>8, <1>11, <1>12, <1>13, BeginInv

\* A part is filled from the index, and a plan made for the rest.
LEMMA FillPartInv == ConfigureInv /\ FillPart => ConfigureInv'
  <1> SUFFICES ASSUME ConfigureInv, FillPart PROVE ConfigureInv'
    OBVIOUS
  <1> DEFINE p == Head(call.parts)
             D == p.from
             src == {s \in index : s.dir \in D}
             fill == Fill(src, p.size)
             rest == p.size - Total(fill)
             k == Filled(call)
  <1>1. /\ call.st = "run" /\ call.todo = <<>> /\ call.parts # <<>>
        /\ UNCHANGED <<keys, files, plotted, calls>>
        /\ \/ Fails
           \/ /\ call' = [call EXCEPT !.got = @ \cup fill, !.parts = Tail(@),
                                      !.into = p.into, !.todo = Plan(rest)]
              /\ UNCHANGED <<svc, dirs, index, list, configured, met>>
    BY DEF FillPart
  <1>2. CASE Fails
    BY <1>1, <1>2, FailsInv
  <1>3. CASE /\ call' = [call EXCEPT !.got = @ \cup fill, !.parts = Tail(@),
                                     !.into = p.into, !.todo = Plan(rest)]
             /\ UNCHANGED <<svc, dirs, index, list, configured, met>>
    <2>1. /\ call \in Calls /\ index \in SUBSET WorkSpaces /\ OneID(index) /\ svc = "idle" /\ ~configured
          /\ call.got \subseteq index
          /\ CallShape(call) /\ Progress(call) /\ Amounts(call) /\ Refillable(call, index)
      BY <1>1 DEF ConfigureInv, StateTypes, ProcessState
    <2>2. /\ call.asked \in Seq(Parts) /\ call.parts \in Seq(Parts)
          /\ call.got \in SUBSET WorkSpaces
          /\ DOMAIN call.asked = 1..Len(call.asked) /\ Len(call.asked) \in Nat
          /\ DOMAIN call.parts = 1..Len(call.parts) /\ Len(call.parts) \in Nat
          /\ \A i \in DOMAIN call.asked : /\ call.asked[i].from \in SUBSET Dirs
                                          /\ call.asked[i].into \in Dirs /\ call.asked[i].size \in Nat
      BY <2>1, CallFields
    <2>3. call.kind \in {"size", "path"}
      BY <1>1, <2>1 DEF CallShape
    <2>4. /\ Len(call.parts) >= 1 /\ Len(call.parts) <= Len(call.asked) /\ k \in Nat
          /\ k < Len(call.asked) /\ k + 1 \in DOMAIN call.asked /\ p = call.asked[k + 1]
      <3>1. Len(call.parts) >= 1 /\ p = call.parts[1] /\ 1 \in DOMAIN call.parts
        BY <1>1, <2>2
      <3>2. Len(call.parts) <= Len(call.asked) /\ call.parts[1] = call.asked[k + 1]
        BY <1>1, <2>1, <2>3, <3>1 DEF Progress
      <3>3. k = Len(call.asked) - Len(call.parts)
        BY DEF Filled
      <3> DEFINE la == Len(call.asked)
                 lp == Len(call.parts)
      <3>4. la \in Nat /\ lp \in Nat /\ lp >= 1 /\ lp <= la /\ k = la - lp
        BY <2>2, <3>1, <3>2, <3>3
      <3>5. k \in Nat /\ k < la /\ k + 1 \in 1..la
        <4> HIDE DEF la, lp, k
        <4> QED
          BY <3>4
      <3> QED
        BY <2>2, <3>1, <3>2, <3>5
    <2>5. D \in SUBSET Dirs /\ p.into \in Dirs /\ p.size \in Nat
      BY <2>2, <2>4
    <2>6. p.into \in D /\ \A i \in DOMAIN call.asked :
             call.asked[i].from = D \/ (p.into \notin call.asked[i].from /\ D \cap call.asked[i].from = {})
      <3>1. CASE call.kind = "size"
        <4>1. \A i \in DOMAIN call.asked : call.asked[i].from = Dirs
          BY <2>1, <3>1 DEF CallShape
        <4> QED
          BY <2>4, <2>5, <4>1
      <3>2. CASE call.kind = "path"
        <4>1. \A i \in DOMAIN call.asked : call.asked[i].from = {call.asked[i].into}
          BY <2>1, <3>2 DEF CallShape
        <4>2. D = {p.into}
          BY <2>4, <4>1
        <4> HIDE DEF D, p
        <4> QED
          BY <4>1, <4>2
      <3> QED
        BY <2>3, <3>1, <3>2
    <2>7. src \in SUBSET WorkSpaces /\ OneID(src) /\ src = Within(index, D)
      BY <2>1 DEF OneID, Within
    <2> DEFINE size == p.size
               large == CountOf(src, 28)
               mid == CountOf(src, 26)
               small == CountOf(src, 24)
               a == CountOf(fill, 28)
               b == CountOf(fill, 26)
               c == CountOf(fill, 24)
    <2>8. large \in Nat /\ mid \in Nat /\ small \in Nat
      BY <2>7, PartFinite
    <2>9. /\ fill \in SUBSET src /\ Usual(fill) /\ a = Less(size \div 64, large)
          /\ b = Less((size - 64 * a) \div 16, mid)
          /\ c = Less((size - 64 * a - 16 * b) \div 3, small)
      <3> HIDE DEF src
      <3> QED
        BY <2>5, <2>7, FillCounts
    <2>10. fill \in SUBSET WorkSpaces /\ fill \subseteq index /\ \A s \in fill : s.dir \in D
      BY <2>1, <2>9
    <2> HIDE DEF fill, src
    <2>11. rest = size - (64 * a + 16 * b + 3 * c) /\ Total(fill) = 64 * a + 16 * b + 3 * c
      BY <2>9, <2>10, TotalWorth DEF Worth
    <2> HIDE DEF rest
    <2>12. /\ a \in Nat /\ b \in Nat /\ c \in Nat /\ rest \in Nat
           /\ Enough(large + rest \div 64, mid + (rest % 64) \div 16,
                     small + ((rest % 64) % 16) \div 3, size)
      <3> HIDE DEF a, b, c, large, mid, small, size
      <3>1. size \in Nat
        BY <2>5 DEF size
      <3>2. rest = size - (64 * a + 16 * b + 3 * c)
        BY <2>11 DEF size, a, b, c
      <3>3. Takes(size, large, mid, small, a, b, c, rest)
        BY <2>9, <3>2 DEF Takes
      <3> HIDE DEF p
      <3> QED
        BY <2>8, <3>1, <3>3, FillFits
    <2> DEFINE plan == Plan(rest)
               pl == rest \div 64
               pm == (rest % 64) \div 16
               ps == ((rest % 64) % 16) \div 3
    <2>13. /\ plan \in Seq(BitLengths) /\ CountIn(plan, 28) = pl /\ CountIn(plan, 26) = pm
           /\ CountIn(plan, 24) = ps /\ (rest < 3 => plan = <<>>) /\ UsualPlan(plan)
      BY <2>12, PlanCounts
    <2>14. /\ pl \in Nat /\ pm \in Nat /\ ps \in Nat
           /\ 64 * pl + 16 * pm + 3 * ps <= rest /\ rest < 64 * pl + 16 * pm + 3 * ps + 3
      BY <2>12, PlanFits
    <2> HIDE DEF plan, pl, pm, ps
    \* what the part gets
    <2>15. /\ Worth(fill) \in Nat /\ WorthOf(plan) \in Nat
           /\ Worth(fill) + WorthOf(plan) <= size /\ size < Worth(fill) + WorthOf(plan) + 3
           /\ Worth(fill) <= size /\ rest <= size
      <3>1. Worth(fill) = 64 * a + 16 * b + 3 * c /\ WorthOf(plan) = 64 * pl + 16 * pm + 3 * ps
        BY <2>13 DEF Worth, WorthOf
      <3>2. size \in Nat
        BY <2>5
      <3> HIDE DEF a, b, c, size
      <3> QED
        BY <2>11, <2>12, <2>14, <3>1, <3>2
    <2>16. EnoughIn(src, plan, size)
      BY <2>12, <2>13 DEF EnoughIn, pl, pm, ps
    <2>17. /\ call' \in Calls /\ call'.st = "run" /\ call'.kind = call.kind /\ call'.asked = call.asked
           /\ call'.parts = Tail(call.parts) /\ call'.todo = plan /\ call'.want = call.want
           /\ call'.got = call.got \cup fill /\ call'.into = p.into /\ call'.key = call.key
      <3>1. Tail(call.parts) \in Seq(Parts)
        BY <1>1, <2>2
      <3>2. call.got \cup fill \in SUBSET WorkSpaces
        BY <2>2, <2>10
      <3>3. call' = [call EXCEPT !.got = call.got \cup fill, !.parts = Tail(call.parts),
                                 !.into = p.into, !.todo = plan]
        BY <1>3 DEF plan
      <3> HIDE DEF p
      <3>4. call' \in Calls
        BY <2>1, <2>5, <2>13, <3>1, <3>2, <3>3 DEF Calls
      <3> QED
        BY <1>1, <2>1, <3>3, <3>4 DEF Calls
    <2>18. /\ Len(Tail(call.parts)) = Len(call.parts) - 1 /\ Filled(call') = k + 1
           /\ DOMAIN Tail(call.parts) = 1..(Len(call.parts) - 1)
           /\ \A i \in 1..(Len(call.parts) - 1) : Tail(call.parts)[i] = call.parts[i + 1]
      <3>1. Len(Tail(call.parts)) = Len(call.parts) - 1
            /\ DOMAIN Tail(call.parts) = 1..(Len(call.parts) - 1)
            /\ \A i \in 1..(Len(call.parts) - 1) : Tail(call.parts)[i] = call.parts[i + 1]
        BY <1>1, <2>2
      <3>2. Filled(call') = Len(call.asked) - (Len(call.parts) - 1)
        BY <2>17, <3>1 DEF Filled
      <3>3. k = Len(call.asked) - Len(call.parts)
        BY DEF Filled
      <3> DEFINE la == Len(call.asked)
                 lp == Len(call.parts)
      <3>4. la - (lp - 1) = (la - lp) + 1
        <4>1. la \in Nat /\ lp \in Nat
          BY <2>2
        <4> HIDE DEF la, lp
        <4> QED
          BY <4>1
      <3> QED
        BY <3>1, <3>2, <3>3, <3>4
    <2>19. call.key = 0
      BY <1>1 DEF ConfigureInv, KeysFirst
    <2>20. StateTypes'
      BY <1>1, <1>3, <2>17 DEF ConfigureInv, StateTypes, Shown
    <2>21. KeysFirst'
      BY <1>1, <1>3, <2>17, <2>19 DEF ConfigureInv, KeysFirst
    <2>22. ProcessState'
      <3>1. ProcessState
        BY DEF ConfigureInv
      <3>2. Listed(CfgDirs)' /\ Listed(dirs)'
        BY <1>1, <1>3, <2>1, <3>1 DEF ProcessState, Listed, Usable
      <3> QED
        BY <1>3, <2>1, <2>10, <2>17, <3>1, <3>2 DEF ProcessState
    <2>23. InDirs'
      <3>1. InDirs
        BY DEF ConfigureInv
      <3>2. CASE call.kind = "size"
        BY <1>3, <2>1, <2>17, <3>2 DEF InDirs
      <3>3. CASE call.kind = "path"
        <4>1. D = {p.into} /\ p.into \in ToSet(dirs)
          BY <2>1, <2>4, <3>1, <3>3 DEF CallShape, InDirs
        <4>2. \A s \in fill : s.dir \in ToSet(dirs)
          BY <2>10, <4>1
        <4> HIDE DEF D, p
        <4> QED
          BY <1>3, <2>1, <2>17, <3>1, <3>3, <4>2 DEF InDirs
      <3> QED
        BY <2>3, <3>2, <3>3
    <2>24. CallShape(call')
      <3>1. Usual(call.got \cup fill)
        BY <2>1, <2>3, <2>9 DEF CallShape, Usual
      <3> QED
        BY <2>1, <2>3, <2>13, <2>17, <3>1 DEF CallShape
    <2>25. Progress(call')
      <3>1. Len(call'.parts) <= Len(call'.asked)
        BY <2>2, <2>4, <2>17, <2>18
      <3>2. ASSUME NEW i \in DOMAIN call'.parts
            PROVE  call'.parts[i] = call'.asked[Filled(call') + i]
        <4>1. i \in 1..(Len(call.parts) - 1)
          BY <2>17, <2>18
        <4>2. i + 1 \in DOMAIN call.parts /\ (k + 1) + i = k + (i + 1)
          BY <2>2, <2>4, <4>1
        <4>3. call.parts[i + 1] = call.asked[k + (i + 1)]
          BY <1>1, <2>1, <2>3, <4>2 DEF Progress
        <4> QED
          BY <2>17, <2>18, <4>1, <4>2, <4>3
      <3>3. Filled(call') > 0 /\ Filled(call') # 0
        BY <2>4, <2>18
      <3>4. call'.into = call'.asked[Filled(call')].into
        BY <2>4, <2>17, <2>18
      <3> QED
        BY <3>1, <3>2, <3>3, <3>4 DEF Progress
    <2>26. Amounts(call')
      <3> SUFFICES ASSUME NEW i \in DOMAIN call.asked
                   PROVE  LET E == call.asked[i].from
                              sum == Worth(Within(call'.got, E)) + WorthOf(MakeIn(call', E))
                          IN  /\ sum <= AskedOf(call.asked, E, k + 1)
                              /\ i <= k + 1 => call.asked[i].size < sum + 3
        BY <2>17, <2>18 DEF Amounts
      <3> DEFINE E == call.asked[i].from
                 G == Within(call.got, E)
                 H == Within(call'.got, E)
      <3>1. /\ Worth(G) + WorthOf(MakeIn(call, E)) <= AskedOf(call.asked, E, k)
            /\ i <= k => call.asked[i].size < Worth(G) + WorthOf(MakeIn(call, E)) + 3
        BY <1>1, <2>1 DEF Amounts
      <3>2. WorthOf(MakeIn(call, E)) = 0
        BY <1>1, WorthNone DEF MakeIn
      <3>3. G \in SUBSET WorkSpaces /\ H \in SUBSET WorkSpaces
        BY <2>2, <2>10, <2>17 DEF Within
      <3>4. Worth(G) \in Nat
        BY <3>3, WorthNat
      <3>5. /\ AskedOf(call.asked, E, k) \in Int
            /\ AskedOf(call.asked, E, k + 1)
                 = AskedOf(call.asked, E, k) + (IF p.from = E THEN size ELSE 0)
        BY <2>2, <2>4, AskedStep
      <3>6. i \in Nat /\ call.asked[i].size \in Nat
        BY <2>2
      <3> HIDE DEF G, H
      <3>7. CASE E = D
        <4>1. MakeIn(call', E) = plan
          BY <2>6, <2>17, <3>7 DEF MakeIn
        <4>2. H = G \cup fill
          BY <2>10, <2>17, <3>7 DEF G, H, Within
        <4>3. Worth(H) <= Worth(G) + Worth(fill) /\ Worth(G) <= Worth(H) /\ Worth(fill) <= Worth(H)
              /\ Worth(H) \in Nat
          <5>1. \A bl : /\ CountOf(H, bl) <= CountOf(G, bl) + CountOf(fill, bl)
                        /\ CountOf(G, bl) <= CountOf(H, bl) /\ CountOf(fill, bl) <= CountOf(H, bl)
            BY <2>10, <3>3, <4>2, CountPart
          <5>2. \A bl : CountOf(H, bl) \in Nat /\ CountOf(G, bl) \in Nat /\ CountOf(fill, bl) \in Nat
            BY <2>10, <3>3, PartFinite
          <5>3. /\ CountOf(H, 28) <= CountOf(G, 28) + CountOf(fill, 28)
                /\ CountOf(G, 28) <= CountOf(H, 28) /\ CountOf(fill, 28) <= CountOf(H, 28)
                /\ CountOf(H, 26) <= CountOf(G, 26) + CountOf(fill, 26)
                /\ CountOf(G, 26) <= CountOf(H, 26) /\ CountOf(fill, 26) <= CountOf(H, 26)
                /\ CountOf(H, 24) <= CountOf(G, 24) + CountOf(fill, 24)
                /\ CountOf(G, 24) <= CountOf(H, 24) /\ CountOf(fill, 24) <= CountOf(H, 24)
            BY <5>1
          <5>4. /\ CountOf(H, 28) \in Nat /\ CountOf(G, 28) \in Nat /\ CountOf(fill, 28) \in Nat
                /\ CountOf(H, 26) \in Nat /\ CountOf(G, 26) \in Nat /\ CountOf(fill, 26) \in Nat
                /\ CountOf(H, 24) \in Nat /\ CountOf(G, 24) \in Nat /\ CountOf(fill, 24) \in Nat
            BY <5>2
          <5> QED
            BY <5>3, <5>4 DEF Worth
        <4>4. size \in Nat
          BY <2>5
        <4>5. AskedOf(call.asked, E, k + 1) = AskedOf(call.asked, E, k) + size
          BY <3>5, <3>7
        <4> DEFINE sum == Worth(H) + WorthOf(plan)
        <4> HIDE DEF size
        <4>6. sum <= AskedOf(call.asked, E, k + 1)
          BY <2>15, <3>1, <3>2, <3>4, <3>5, <4>3, <4>4, <4>5
        <4>7. ASSUME i <= k + 1 PROVE call.asked[i].size < sum + 3
          <5>1. CASE i <= k
            BY <2>15, <3>1, <3>2, <3>4, <3>6, <4>3, <5>1
          <5>2. CASE i = k + 1
            <6>1. call.asked[i].size = size
              BY <2>4, <5>2 DEF size
            <6> QED
              BY <2>15, <4>3, <4>4, <6>1
          <5> QED
            BY <2>4, <3>6, <4>7, <5>1, <5>2
        <4> QED
          BY <4>1, <4>6, <4>7 DEF H
      <3>8. CASE E # D
        <4>1. p.into \notin E /\ D \cap E = {}
          BY <2>6, <3>8
        <4>2. MakeIn(call', E) = <<>> /\ WorthOf(<<>>) = 0
          BY <2>17, <4>1, WorthNone DEF MakeIn
        <4>3. H = G
          BY <2>10, <2>17, <4>1 DEF G, H, Within
        <4>4. AskedOf(call.asked, E, k + 1) = AskedOf(call.asked, E, k)
          BY <3>5, <3>8
        <4>5. i # k + 1
          BY <2>4, <3>8
        <4>6. i <= k + 1 => i <= k
          BY <2>4, <3>6, <4>5
        <4>7. Worth(H) + WorthOf(MakeIn(call', E)) = Worth(G) + WorthOf(MakeIn(call, E))
          BY <3>2, <4>2, <4>3
        <4> QED
          BY <3>1, <4>4, <4>6, <4>7 DEF H
      <3> QED
        BY <3>7, <3>8
    <2>27. Refillable(call', index')
      <3>1. ASSUME NEW i \in DOMAIN call.asked, i <= k + 1
            PROVE  EnoughIn(Within(index, call.asked[i].from), MakeIn(call', call.asked[i].from),
                            call.asked[i].size)
        <4> DEFINE E == call.asked[i].from
                   S == Within(index, E)
                   M == MakeIn(call', E)
        <4>1. CASE i = k + 1
          <5>1. E = D /\ call.asked[i].size = size
            BY <2>4, <4>1
          <5>2. M = plan /\ S = src
            BY <2>6, <2>7, <2>17, <5>1 DEF MakeIn
          <5> QED
            BY <2>16, <5>1, <5>2
        <4>2. CASE i # k + 1
          <5>1. i <= k
            BY <2>2, <2>4, <3>1, <4>2
          <5>2. EnoughIn(S, MakeIn(call, E), call.asked[i].size)
            BY <1>1, <2>1, <5>1 DEF Refillable
          <5>3. MakeIn(call, E) = <<>>
            BY <1>1 DEF MakeIn
          <5>4. S \in SUBSET WorkSpaces /\ M \in Seq(BitLengths) /\ <<>> \in Seq(BitLengths)
            BY <2>1, <2>13, <2>17 DEF Within, MakeIn
          <5>5. call.asked[i].size \in Nat
            BY <2>2
          <5> HIDE DEF S, M
          <5>6. \A bl : CountOf(S, bl) \in Nat /\ CountIn(M, bl) \in Nat /\ CountIn(<<>>, bl) = 0
            BY <5>4, PartFinite, CountInNat, CountNone
          <5>7. /\ CountOf(S, 28) \in Nat /\ CountIn(M, 28) \in Nat /\ CountIn(<<>>, 28) = 0
                /\ CountOf(S, 26) \in Nat /\ CountIn(M, 26) \in Nat /\ CountIn(<<>>, 26) = 0
                /\ CountOf(S, 24) \in Nat /\ CountIn(M, 24) \in Nat /\ CountIn(<<>>, 24) = 0
            BY <5>6
          <5>8. Enough(CountOf(S, 28), CountOf(S, 26), CountOf(S, 24), call.asked[i].size)
            BY <5>2, <5>3, <5>7 DEF EnoughIn
          <5>9. Enough(CountOf(S, 28) + CountIn(M, 28), CountOf(S, 26) + CountIn(M, 26),
                       CountOf(S, 24) + CountIn(M, 24), call.asked[i].size)
            <6> DEFINE l == CountOf(S, 28)
                       m == CountOf(S, 26)
                       n == CountOf(S, 24)
                       l2 == l + CountIn(M, 28)
                       m2 == m + CountIn(M, 26)
                       n2 == n + CountIn(M, 24)
                       z == call.asked[i].size
            <6>1. l \in Nat /\ m \in Nat /\ n \in Nat /\ z \in Nat /\ Enough(l, m, n, z)
              BY <5>5, <5>7, <5>8
            <6>2. /\ l2 \in Nat /\ m2 \in Nat /\ n2 \in Nat /\ l2 >= l /\ m2 >= m /\ n2 >= n
                  /\ l <= l2 /\ m <= m2 /\ n <= n2
              BY <5>7
            <6>3. Enough(l2, m2, n2, z)
              <7> HIDE DEF l, m, n, l2, m2, n2, z
              <7> QED
                BY <6>1, <6>2, EnoughMore
            <6> QED
              BY <6>3
          <5> QED
            BY <5>9 DEF EnoughIn, S, M
        <4> QED
          BY <4>1, <4>2
      <3>2. ASSUME call'.got # {} \/ call'.todo # <<>>
            PROVE  \E i \in DOMAIN call.asked : i <= k + 1 /\ call.asked[i].size >= 3
        <4>1. CASE call.got # {}
          <5>1. PICK i \in DOMAIN call.asked : i <= k /\ call.asked[i].size >= 3
            BY <1>1, <2>1, <2>3, <4>1 DEF Refillable
          <5>2. i <= k + 1
            BY <2>2, <2>4, <5>1
          <5> QED
            BY <5>1, <5>2
        <4>2. CASE call.got = {}
          <5>1. size \in Nat /\ k + 1 \in DOMAIN call.asked /\ call.asked[k + 1].size = size
            BY <2>4, <2>5
          <5>2. CASE fill # {}
            <6>1. Worth(fill) >= 3
              BY <2>9, <2>10, <5>2, WorthNat
            <6>2. size >= 3
              BY <2>15, <5>1, <6>1
            <6> QED
              BY <2>4, <5>1, <6>2
          <5>3. CASE plan # <<>>
            <6>1. size >= 3
              <7> HIDE DEF size
              <7> QED
                BY <2>12, <2>13, <2>15, <5>1, <5>3
            <6> QED
              BY <2>4, <5>1, <6>1
          <5> QED
            BY <2>17, <3>2, <4>2, <5>2, <5>3
        <4> QED
          BY <4>1, <4>2
      <3> QED
        BY <1>3, <2>3, <2>17, <2>18, <3>1, <3>2 DEF Refillable
    <2> QED
      BY <2>20, <2>21, <2>22, <2>23, <2>24, <2>25, <2>26, <2>27 DEF ConfigureInv
  <1> QED
    BY <1>1, <1>2, <1>3

\* A step that leaves the files, the index, the list and the call.
LEMMA SameInv ==
  ASSUME ConfigureInv, UNCHANGED <<dirs, index, list, configured, call, keys, files, calls>>,
         svc' \in {"down", "idle", "running"}, svc' = "down" <=> svc = "down",
         call.st = "run" => svc' = "idle", plotted' \subseteq Shown
  PROVE  ConfigureInv'
  <1>1. Shown' = Shown
    BY DEF Shown
  <1>2. StateTypes' /\ KeysFirst'
    BY <1>1 DEF ConfigureInv, StateTypes, KeysFirst
  <1>3. ProcessState'
    <2>1. ProcessState
      BY DEF ConfigureInv
    <2>2. svc # "down" => Listed(CfgDirs)' /\ Listed(dirs)'
      BY <2>1 DEF ProcessState, Listed, Usable
    <2> QED
      BY <2>1, <2>2 DEF ProcessState
  <1>4. InDirs'
    BY DEF ConfigureInv, InDirs
  <1> QED
    BY <1>2, <1>3, <1>4 DEF ConfigureInv

\* The service starts and stops, and the plotter plots what is in use.
LEMMA ServiceInv ==
  ASSUME ConfigureInv,
         Start \/ Stop \/ (\E s \in list : Plot(s)) \/ UNCHANGED keeperVars
  PROVE  ConfigureInv'
  <1>1. plotted \subseteq Shown /\ list \subseteq Shown /\ svc \in {"down", "idle", "running"}
        /\ (call.st = "run" => svc = "idle")
    BY DEF ConfigureInv, StateTypes, ProcessState
  <1>2. CASE Start
    <2>1. /\ svc = "idle" /\ svc' = "running" /\ call.st # "run" /\ plotted' = plotted
          /\ UNCHANGED <<dirs, index, list, configured, call, keys, files, calls>>
      BY <1>2 DEF Start
    <2> QED
      BY <1>1, <2>1, SameInv
  <1>3. CASE Stop
    <2>1. /\ svc = "running" /\ svc' = "idle" /\ plotted' = plotted
          /\ UNCHANGED <<dirs, index, list, configured, call, keys, files, calls>>
      BY <1>3 DEF Stop
    <2> QED
      BY <1>1, <2>1, SameInv
  <1>4. CASE \E s \in list : Plot(s)
    <2>1. PICK s \in list : Plot(s)
      BY <1>4
    <2>2. /\ svc' = svc /\ plotted' = plotted \cup {s}
          /\ UNCHANGED <<dirs, index, list, configured, call, keys, files, calls>>
      BY <2>1 DEF Plot
    <2>3. plotted' \subseteq Shown
      BY <1>1, <2>2
    <2> QED
      BY <1>1, <2>2, <2>3, SameInv
  <1>5. CASE UNCHANGED keeperVars
    <2>1. /\ svc' = svc /\ plotted' = plotted
          /\ UNCHANGED <<dirs, index, list, configured, call, keys, files, calls>>
      BY <1>5 DEF keeperVars
    <2> QED
      BY <1>1, <2>1, SameInv
  <1> QED
    BY <1>2, <1>3, <1>4, <1>5

\* The process dies: what it was making has a key of the wallet.
LEMMA CrashInv == ConfigureInv /\ Crash => ConfigureInv'
  <1> SUFFICES ASSUME ConfigureInv, Crash PROVE ConfigureInv'
    OBVIOUS
  <1>1. Forget /\ keys' = keys /\ plotted' = plotted /\ calls' = calls
    BY DEF Crash
  <1>2. PICK left : /\ files' = files \cup left
                    /\ left \in IF call.key = 0 THEN {{}} ELSE {{}} \cup
                         {{[ord |-> call.key, bl |-> Head(call.todo), dir |-> call.into,
                            name |-> "new", whole |-> w]} : w \in BOOLEAN}
    BY DEF Crash
  <1>3. /\ call \in Calls /\ files \in SUBSET SpaceFiles /\ \A f \in files : f.ord <= keys
        /\ call.key <= keys /\ (call.key # 0 => call.todo # <<>>)
    BY DEF ConfigureInv, StateTypes, KeysFirst
  <1>4. \A f \in left : f \in SpaceFiles /\ f.ord <= keys
    <2>1. CASE call.key = 0
      BY <1>2, <2>1
    <2>2. CASE call.key # 0
      <3>1. call.todo \in Seq(BitLengths) /\ call.into \in Dirs /\ call.key \in 0..MaxKeys
        BY <1>3 DEF Calls
      <3>2. Head(call.todo) \in BitLengths
        BY <1>3, <2>2, <3>1
      <3>3. ASSUME NEW w \in BOOLEAN
            PROVE  LET f == [ord |-> call.key, bl |-> Head(call.todo), dir |-> call.into,
                             name |-> "new", whole |-> w]
                   IN  f \in SpaceFiles /\ f.ord <= keys
        BY <1>3, <3>1, <3>2 DEF SpaceFiles
      <3>4. ASSUME NEW f \in left PROVE f \in SpaceFiles /\ f.ord <= keys
        <4>1. PICK w \in BOOLEAN : f = [ord |-> call.key, bl |-> Head(call.todo), dir |-> call.into,
                                        name |-> "new", whole |-> w]
          BY <1>2, <2>2, <3>4
        <4> QED
          BY <3>3, <4>1
      <3> QED
        BY <3>4
    <2> QED
      BY <2>1, <2>2
  <1>5. files \subseteq files' /\ files' \in SUBSET SpaceFiles /\ \A f \in files' : f.ord <= keys
    BY <1>2, <1>3, <1>4
  <1> QED
    BY <1>1, <1>5, ForgetInv

\* What is said of a call does not depend on its key, and holds when it is done.
LEMMA CallKept ==
  ASSUME NEW c, NEW c2, NEW ix, c2.kind = c.kind, c2.asked = c.asked, c2.parts = c.parts,
         c2.todo = c.todo, c2.want = c.want, c2.into = c.into, c2.got = c.got, c.st = "run",
         c2.st = "run" \/ (c2.st = "ok" /\ c.todo = <<>> /\ c.parts = <<>>),
         CallShape(c), Progress(c), Amounts(c), Refillable(c, ix)
  PROVE  CallShape(c2) /\ Progress(c2) /\ Amounts(c2) /\ Refillable(c2, ix)
  <1>1. Filled(c2) = Filled(c)
    BY DEF Filled
  <1>2. \A D : MakeIn(c2, D) = MakeIn(c, D)
    BY DEF MakeIn
  <1>3. CallShape(c2)
    BY DEF CallShape
  <1>4. Progress(c2)
    BY <1>1 DEF Progress
  <1>5. Amounts(c2)
    BY <1>1, <1>2 DEF Amounts
  <1>6. Refillable(c2, ix)
    BY <1>1, <1>2 DEF Refillable
  <1> QED
    BY <1>3, <1>4, <1>5, <1>6

\* A key that is new has no file, so no file becomes usable by it.
LEMMA KeyInv == ConfigureInv /\ GenerateNewPublicKey => ConfigureInv'
  <1> SUFFICES ASSUME ConfigureInv, GenerateNewPublicKey PROVE ConfigureInv'
    OBVIOUS
  <1>1. /\ call.st = "run" /\ call.todo # <<>> /\ call.key = 0 /\ keys < MaxKeys
        /\ keys' = keys + 1 /\ call' = [call EXCEPT !.key = keys + 1]
        /\ UNCHANGED <<svc, dirs, index, list, configured, files, plotted, met, calls>>
    BY DEF GenerateNewPublicKey
  <1>2. /\ call \in Calls /\ files \in SUBSET SpaceFiles /\ keys \in OldKeys..MaxKeys
        /\ \A f \in files : f.ord <= keys
    BY DEF ConfigureInv, StateTypes, KeysFirst
  <1>3. keys \in Nat /\ keys + 1 \in 0..MaxKeys /\ keys + 1 \in OldKeys..MaxKeys
    BY <1>1, <1>2, ConfigureAssumption
  <1>4. \A f \in files : f.ord \in Nat
    BY <1>2 DEF SpaceFiles
  <1>5. call' \in Calls
    BY <1>1, <1>2, <1>3 DEF Calls
  <1>6. /\ call'.key = keys + 1 /\ call'.st = call.st /\ call'.kind = call.kind
        /\ call'.asked = call.asked /\ call'.parts = call.parts /\ call'.todo = call.todo
        /\ call'.want = call.want /\ call'.into = call.into /\ call'.got = call.got
    BY <1>1, <1>2 DEF Calls
  <1>7. StateTypes'
    BY <1>1, <1>3, <1>5 DEF ConfigureInv, StateTypes, Shown
  <1>8. KeysFirst'
    <2>1. \A f \in files : f.ord <= keys + 1 /\ f.ord # keys + 1
      BY <1>2, <1>3, <1>4
    <2> QED
      BY <1>1, <1>3, <1>6, <2>1 DEF KeysFirst
  <1>9. \A f \in files : Usable(f)' => Usable(f)
    BY <1>1, <1>2, <1>3, <1>4 DEF Usable
  <1>10. ProcessState'
    <2>1. ProcessState
      BY DEF ConfigureInv
    <2>2. svc = "idle"
      BY <1>1, <2>1 DEF ProcessState
    <2>3. Listed(CfgDirs)' /\ Listed(dirs)'
      <3>1. Listed(CfgDirs) /\ Listed(dirs)
        BY <2>1, <2>2 DEF ProcessState
      <3> QED
        BY <1>1, <1>9, <3>1 DEF Listed
    <2> QED
      BY <1>1, <1>6, <2>1, <2>2, <2>3 DEF ProcessState
  <1>11. InDirs'
    BY <1>1, <1>6 DEF ConfigureInv, InDirs
  <1>12. CallShape(call') /\ Progress(call') /\ Amounts(call') /\ Refillable(call', index')
    <2>1. CallShape(call) /\ Progress(call) /\ Amounts(call) /\ Refillable(call, index)
      BY DEF ConfigureInv
    <2>2. CallShape(call') /\ Progress(call') /\ Amounts(call') /\ Refillable(call', index)
      BY <1>1, <1>6, <2>1, CallKept
    <2> QED
      BY <1>1, <2>2
  <1> QED
    BY <1>7, <1>8, <1>10, <1>11, <1>12 DEF ConfigureInv

\* What was got is put in use.
LEMMA ApplyInv == ConfigureInv /\ Apply => ConfigureInv'
  <1> SUFFICES ASSUME ConfigureInv, Apply PROVE ConfigureInv'
    OBVIOUS
  <1>1. /\ call.st = "run" /\ call.todo = <<>> /\ call.parts = <<>>
        /\ UNCHANGED <<keys, files, plotted, calls>>
        /\ \/ Fails
           \/ /\ list' = call.got /\ configured' = TRUE
              /\ call' = [call EXCEPT !.st = "ok"] /\ UNCHANGED <<svc, dirs, index>>
    BY DEF Apply, Use
  <1>2. CASE Fails
    BY <1>1, <1>2, FailsInv
  <1>3. CASE /\ list' = call.got /\ configured' = TRUE
             /\ call' = [call EXCEPT !.st = "ok"] /\ UNCHANGED <<svc, dirs, index>>
    <2>1. /\ call \in Calls /\ ProcessState /\ InDirs /\ svc = "idle" /\ call.got \subseteq index
          /\ CallShape(call) /\ Progress(call) /\ Amounts(call) /\ Refillable(call, index)
      BY <1>1 DEF ConfigureInv, StateTypes, ProcessState
    <2>2. call' \in Calls
      BY <1>3, <2>1 DEF Calls
    <2>3. /\ call'.key = call.key /\ call'.st = "ok" /\ call'.kind = call.kind
          /\ call'.asked = call.asked /\ call'.parts = call.parts /\ call'.todo = call.todo
          /\ call'.want = call.want /\ call'.into = call.into /\ call'.got = call.got
      BY <1>3, <2>1 DEF Calls
    <2>4. StateTypes'
      <3>1. list' \in SUBSET index'
        BY <1>3, <2>1
      <3> QED
        BY <1>1, <1>3, <2>2, <3>1 DEF ConfigureInv, StateTypes, Shown
    <2>5. KeysFirst'
      BY <1>1, <2>3 DEF ConfigureInv, KeysFirst
    <2>6. ProcessState'
      <3>1. Listed(CfgDirs)' /\ Listed(dirs)'
        BY <1>1, <1>3, <2>1 DEF ProcessState, Listed, Usable
      <3> QED
        BY <1>3, <2>1, <2>3, <3>1 DEF ProcessState
    <2>7. InDirs'
      BY <1>3, <2>1, <2>3 DEF InDirs
    <2>8. CallShape(call') /\ Progress(call') /\ Amounts(call') /\ Refillable(call', index')
      <3>1. CallShape(call') /\ Progress(call') /\ Amounts(call') /\ Refillable(call', index)
        BY <1>1, <2>1, <2>3, CallKept
      <3> QED
        BY <1>3, <3>1
    <2> QED
      BY <2>4, <2>5, <2>6, <2>7, <2>8 DEF ConfigureInv
  <1> QED
    BY <1>1, <1>2, <1>3

\* spaces of each bit length in D, there already or to be made
Both(c, S, D, bl) == CountOf(Within(S, D), bl) + CountIn(MakeIn(c, D), bl)

\* A space that was to be made is made: it moves from the plan to the spaces.
LEMMA OneMade ==
  ASSUME NEW c, NEW c2, NEW S \in SUBSET WorkSpaces, NEW s \in WorkSpaces, s \notin S,
         c.todo \in Seq(BitLengths), c.todo # <<>>, s.bl = Head(c.todo), s.dir = c.into,
         c2.into = c.into, c2.todo = Tail(c.todo), NEW D, NEW bl
  PROVE  /\ Both(c2, S \cup {s}, D, bl) = Both(c, S, D, bl)
         /\ CountOf(Within(S \cup {s}, D), bl) \in Nat /\ CountOf(Within(S, D), bl) \in Nat
         /\ CountIn(MakeIn(c2, D), bl) \in Nat /\ CountIn(MakeIn(c, D), bl) \in Nat
  <1> DEFINE W == Within(S, D)
             V == Within(S \cup {s}, D)
  <1>1. W \in SUBSET WorkSpaces /\ V \in SUBSET WorkSpaces /\ s \notin W
    BY DEF Within
  <1>2. MakeIn(c, D) \in Seq(BitLengths) /\ MakeIn(c2, D) \in Seq(BitLengths)
    <2>1. <<>> \in Seq(BitLengths) /\ Tail(c.todo) \in Seq(BitLengths)
      OBVIOUS
    <2> QED
      BY <2>1 DEF MakeIn
  <1>3. CASE c.into \in D
    <2>1. V = W \cup {s}
      BY <1>3 DEF Within
    <2>2. MakeIn(c, D) = c.todo /\ MakeIn(c2, D) = Tail(c.todo)
      BY <1>3 DEF MakeIn
    <2> HIDE DEF W, V
    <2> DEFINE one == IF s.bl = bl THEN 1 ELSE 0
    <2>3. CountOf(V, bl) = CountOf(W, bl) + one
      BY <1>1, <2>1, CountAdd
    <2>4. CountIn(c.todo, bl) = CountIn(Tail(c.todo), bl) + one
      BY CountTail
    <2>5. CountOf(V, bl) \in Nat /\ CountOf(W, bl) \in Nat
      BY <1>1, PartFinite
    <2>6. CountIn(c.todo, bl) \in Nat /\ CountIn(Tail(c.todo), bl) \in Nat
      BY <1>2, <2>2, CountInNat
    <2>7. one \in Nat
      OBVIOUS
    <2> HIDE DEF one
    <2>8. CountOf(V, bl) + CountIn(Tail(c.todo), bl) = CountOf(W, bl) + CountIn(c.todo, bl)
      BY <2>3, <2>4, <2>5, <2>6, <2>7
    <2> QED
      BY <2>2, <2>5, <2>6, <2>8 DEF Both, V, W
  <1>4. CASE c.into \notin D
    <2>1. V = W
      BY <1>4 DEF Within
    <2>2. MakeIn(c, D) = <<>> /\ MakeIn(c2, D) = <<>>
      BY <1>4 DEF MakeIn
    <2> HIDE DEF W, V
    <2>3. CountOf(V, bl) \in Nat /\ CountOf(W, bl) \in Nat
      BY <1>1, PartFinite
    <2>4. CountIn(MakeIn(c, D), bl) \in Nat /\ CountIn(MakeIn(c2, D), bl) \in Nat
      BY <1>2, CountInNat
    <2> QED
      BY <2>1, <2>2, <2>3, <2>4 DEF Both, V, W
  <1> QED
    BY <1>3, <1>4

\* What a call gets and makes, and what it can be filled from, are sums of those counts.
LEMMA BySums ==
  ASSUME NEW c, NEW S \in SUBSET WorkSpaces, c.todo \in Seq(BitLengths), NEW D
  PROVE  /\ Worth(Within(S, D)) + WorthOf(MakeIn(c, D))
              = 64 * Both(c, S, D, 28) + 16 * Both(c, S, D, 26) + 3 * Both(c, S, D, 24)
         /\ \A size : EnoughIn(Within(S, D), MakeIn(c, D), size)
              <=> Enough(Both(c, S, D, 28), Both(c, S, D, 26), Both(c, S, D, 24), size)
  <1> DEFINE W == Within(S, D)
             M == MakeIn(c, D)
  <1>1. W \in SUBSET WorkSpaces /\ M \in Seq(BitLengths)
    <2>1. <<>> \in Seq(BitLengths)
      OBVIOUS
    <2> QED
      BY <2>1 DEF Within, MakeIn
  <1> HIDE DEF W, M
  <1>2. /\ CountOf(W, 28) \in Nat /\ CountOf(W, 26) \in Nat /\ CountOf(W, 24) \in Nat
        /\ CountIn(M, 28) \in Nat /\ CountIn(M, 26) \in Nat /\ CountIn(M, 24) \in Nat
    BY <1>1, PartFinite, CountInNat
  <1>3. Worth(W) + WorthOf(M)
          = 64 * (CountOf(W, 28) + CountIn(M, 28)) + 16 * (CountOf(W, 26) + CountIn(M, 26))
              + 3 * (CountOf(W, 24) + CountIn(M, 24))
    <2> DEFINE a == CountOf(W, 28)
               b == CountOf(W, 26)
               d == CountOf(W, 24)
               x == CountIn(M, 28)
               y == CountIn(M, 26)
               z == CountIn(M, 24)
    <2>1. Worth(W) = 64 * a + 16 * b + 3 * d /\ WorthOf(M) = 64 * x + 16 * y + 3 * z
      BY DEF Worth, WorthOf
    <2>2. (64 * a + 16 * b + 3 * d) + (64 * x + 16 * y + 3 * z)
            = 64 * (a + x) + 16 * (b + y) + 3 * (d + z)
      <3> HIDE DEF a, b, d, x, y, z
      <3>1. a \in Nat /\ b \in Nat /\ d \in Nat /\ x \in Nat /\ y \in Nat /\ z \in Nat
        BY <1>2 DEF a, b, d, x, y, z
      <3> QED
        BY <3>1
    <2> QED
      BY <2>1, <2>2
  <1>4. \A bl : Both(c, S, D, bl) = CountOf(W, bl) + CountIn(M, bl)
    BY DEF Both, W, M
  <1> QED
    BY <1>3, <1>4 DEF EnoughIn, W, M

\* A space is made, in the directory it was planned for.
LEMMA NewWorkSpaceInv == ConfigureInv /\ NewWorkSpace => ConfigureInv'
  <1> SUFFICES ASSUME ConfigureInv, NewWorkSpace PROVE ConfigureInv'
    OBVIOUS
  <1> DEFINE s == [ord |-> call.key, bl |-> Head(call.todo), dir |-> call.into]
             f == [ord |-> call.key, bl |-> Head(call.todo), dir |-> call.into,
                   name |-> "new", whole |-> TRUE]
  <1>1. /\ call.st = "run" /\ call.key # 0 /\ files' = files \cup {f} /\ index' = index \cup {s}
        /\ call' = [call EXCEPT !.key = 0, !.todo = Tail(call.todo), !.got = call.got \cup {s}]
        /\ UNCHANGED <<svc, dirs, list, configured, keys, plotted, met, calls>>
    BY DEF NewWorkSpace
  <1>2. /\ call \in Calls /\ ProcessState /\ InDirs /\ svc = "idle" /\ call.got \subseteq index
        /\ CallShape(call) /\ Progress(call) /\ Amounts(call) /\ Refillable(call, index)
        /\ index \in SUBSET WorkSpaces /\ index \subseteq Shown /\ files \in SUBSET SpaceFiles
        /\ OneID(index) /\ Listed(CfgDirs) /\ Listed(dirs) /\ ~configured
        /\ call.key <= keys /\ call.todo # <<>> /\ \A g \in files : g.ord # call.key
    BY <1>1 DEF ConfigureInv, StateTypes, ProcessState, KeysFirst
  <1>3. /\ call.todo \in Seq(BitLengths) /\ call.into \in Dirs /\ call.key \in 0..MaxKeys
        /\ call.got \in SUBSET WorkSpaces /\ keys \in OldKeys..MaxKeys
    BY <1>2 DEF Calls, ConfigureInv, StateTypes
  <1>4. Head(call.todo) \in BitLengths /\ Tail(call.todo) \in Seq(BitLengths)
    BY <1>2, <1>3
  <1>5. call.key \in 1..MaxKeys /\ keys \in Nat /\ 0 \in 0..MaxKeys /\ 0 <= keys
    BY <1>1, <1>3, ConfigureAssumption
  <1>6. /\ s \in WorkSpaces /\ f \in SpaceFiles /\ Space(f) = s /\ f.ord = call.key
        /\ s.ord = call.key /\ s.bl = Head(call.todo) /\ s.dir = call.into /\ ID(s) = ID(f)
    BY <1>3, <1>4, <1>5 DEF WorkSpaces, SpaceFiles, Space, ID
  <1>7. \A t \in index : t.ord # call.key
    BY <1>2 DEF Shown, Space
  <1>8. s \notin index /\ s \notin call.got
    BY <1>2, <1>6, <1>7
  <1> HIDE DEF s, f
  <1>9. call' \in Calls
    <2>1. call.got \cup {s} \in SUBSET WorkSpaces
      BY <1>3, <1>6
    <2> QED
      BY <1>1, <1>2, <1>4, <1>5, <2>1 DEF Calls
  <1>10. /\ call'.key = 0 /\ call'.st = "run" /\ call'.kind = call.kind
         /\ call'.asked = call.asked /\ call'.parts = call.parts /\ call'.todo = Tail(call.todo)
         /\ call'.want = call.want /\ call'.into = call.into /\ call'.got = call.got \cup {s}
    BY <1>1, <1>2 DEF Calls
  <1>11. call.kind \in {"list", "size", "path"}
    BY <1>1, <1>2 DEF CallShape
  <1>12. StateTypes'
    <2>1. files' \in SUBSET SpaceFiles /\ index' \in SUBSET WorkSpaces /\ list \in SUBSET index'
      BY <1>1, <1>2, <1>6 DEF ConfigureInv, StateTypes
    <2>2. index' \subseteq Shown' /\ plotted \subseteq Shown'
      BY <1>1, <1>2, <1>6 DEF ConfigureInv, StateTypes, Shown
    <2> QED
      BY <1>1, <1>9, <2>1, <2>2 DEF ConfigureInv, StateTypes
  <1>13. KeysFirst'
    BY <1>1, <1>2, <1>5, <1>6, <1>10 DEF ConfigureInv, KeysFirst
  <1>14. ProcessState'
    <2>1. OneID(index')
      BY <1>1, <1>2, <1>6, <1>7 DEF OneID, ID
    <2>2. \A g : Usable(g)' <=> Usable(g)
      BY <1>1 DEF Usable
    <2>3. ASSUME NEW ds, \A g \in files : Usable(g) /\ g.dir \in ToSet(ds) => \E t \in index : ID(t) = ID(g)
          PROVE  \A g \in files' : Usable(g) /\ g.dir \in ToSet(ds) => \E t \in index' : ID(t) = ID(g)
      BY <1>1, <1>6, <2>3
    <2>4. Listed(CfgDirs)' /\ Listed(dirs)'
      BY <1>1, <1>2, <2>2, <2>3 DEF Listed
    <2> QED
      BY <1>1, <1>2, <1>10, <2>1, <2>4 DEF ProcessState
  <1>15. InDirs'
    <2>1. CASE call.kind = "size"
      BY <1>1, <1>2, <1>10, <2>1 DEF InDirs
    <2>2. CASE call.kind = "list"
      <3>1. call.into \in ToSet(CfgDirs) /\ dirs = CfgDirs
        BY <1>2, <2>2, ConfigureAssumption DEF CallShape, InDirs, ToSet
      <3> QED
        BY <1>1, <1>2, <1>6, <1>10, <2>2, <3>1 DEF InDirs
    <2>3. CASE call.kind = "path"
      <3>1. Filled(call) > 0 /\ Filled(call) \in DOMAIN call.asked
        <4> DEFINE la == Len(call.asked)
                   lp == Len(call.parts)
                   k == Filled(call)
        <4>1. lp <= la /\ (k = 0 => call.todo = <<>>)
          BY <1>1, <1>2, <2>3 DEF Progress
        <4>2. lp \in Nat /\ la \in Nat /\ DOMAIN call.asked = 1..la
          BY <1>2, CallFields
        <4>3. k = la - lp /\ k # 0
          BY <1>2, <4>1 DEF Filled
        <4>4. k > 0 /\ k \in 1..la
          <5> HIDE DEF la, lp, k
          <5> QED
            BY <4>1, <4>2, <4>3
        <4> QED
          BY <4>2, <4>4
      <3>3. call.into = call.asked[Filled(call)].into
        BY <1>1, <1>2, <2>3, <3>1 DEF Progress
      <3>4. call.into \in ToSet(dirs)
        BY <1>2, <2>3, <3>1, <3>3 DEF InDirs
      <3> QED
        BY <1>1, <1>2, <1>6, <1>10, <2>3, <3>4 DEF InDirs
    <2> QED
      BY <1>11, <2>1, <2>2, <2>3
  <1>16. Filled(call') = Filled(call)
    BY <1>10 DEF Filled
  <1>17. CallShape(call')
    <2>1. ASSUME call.kind # "list" PROVE Usual(call.got \cup {s}) /\ UsualPlan(Tail(call.todo))
      <3>1. Usual(call.got) /\ \A i \in 1..Len(call.todo) : call.todo[i] \in {24, 26, 28}
        BY <1>2, <2>1 DEF CallShape, UsualPlan
      <3>2. s.bl \in {24, 26, 28}
        BY <1>2, <1>3, <1>6, <3>1
      <3>3. UsualPlan(Tail(call.todo))
        BY <1>2, <1>3, <3>1 DEF UsualPlan
      <3> QED
        BY <3>1, <3>2, <3>3 DEF Usual
    <2> QED
      BY <1>2, <1>10, <1>11, <2>1 DEF CallShape
  <1>18. Progress(call')
    BY <1>1, <1>2, <1>10, <1>16 DEF Progress
  <1>19. ASSUME NEW S \in SUBSET WorkSpaces, s \notin S, NEW D
         PROVE  \A bl : Both(call', S \cup {s}, D, bl) = Both(call, S, D, bl)
    BY <1>2, <1>3, <1>6, <1>10, <1>19, OneMade
  <1>20. Amounts(call')
    <2> SUFFICES ASSUME NEW i \in DOMAIN call.asked
                 PROVE  LET E == call.asked[i].from
                            sum == Worth(Within(call'.got, E)) + WorthOf(MakeIn(call', E))
                        IN  /\ sum <= AskedOf(call.asked, E, Filled(call))
                            /\ i <= Filled(call) => call.asked[i].size < sum + 3
      BY <1>10, <1>16 DEF Amounts
    <2> DEFINE E == call.asked[i].from
               sum == Worth(Within(call.got, E)) + WorthOf(MakeIn(call, E))
    <2>1. /\ sum <= AskedOf(call.asked, E, Filled(call))
          /\ i <= Filled(call) => call.asked[i].size < sum + 3
      BY <1>1, <1>2 DEF Amounts
    <2>2. call'.got \in SUBSET WorkSpaces /\ call'.todo \in Seq(BitLengths)
      BY <1>3, <1>4, <1>6, <1>10
    <2> HIDE DEF E
    <2>3. Worth(Within(call'.got, E)) + WorthOf(MakeIn(call', E))
            = 64 * Both(call', call'.got, E, 28) + 16 * Both(call', call'.got, E, 26)
                + 3 * Both(call', call'.got, E, 24)
      BY <2>2, BySums
    <2>4. sum = 64 * Both(call, call.got, E, 28) + 16 * Both(call, call.got, E, 26)
                + 3 * Both(call, call.got, E, 24)
      BY <1>3, BySums
    <2>5. \A bl : Both(call', call'.got, E, bl) = Both(call, call.got, E, bl)
      BY <1>3, <1>8, <1>10, <1>19
    <2>6. Worth(Within(call'.got, E)) + WorthOf(MakeIn(call', E)) = sum
      <3> HIDE DEF sum
      <3> QED
        BY <2>3, <2>4, <2>5
    <2> QED
      BY <2>1, <2>6 DEF E
  <1>21. Refillable(call', index')
    <2>1. index' \in SUBSET WorkSpaces /\ call'.todo \in Seq(BitLengths)
      BY <1>1, <1>2, <1>4, <1>6, <1>10
    <2>2. \A D, bl : Both(call', index', D, bl) = Both(call, index, D, bl)
      BY <1>1, <1>2, <1>8, <1>19
    <2>3. ASSUME NEW i \in DOMAIN call.asked, i <= Filled(call)
          PROVE  EnoughIn(Within(index', call.asked[i].from), MakeIn(call', call.asked[i].from),
                          call.asked[i].size)
      <3> DEFINE E == call.asked[i].from
                 z == call.asked[i].size
      <3>1. EnoughIn(Within(index, E), MakeIn(call, E), z)
        BY <1>1, <1>2, <2>3 DEF Refillable
      <3> HIDE DEF E, z
      <3>2. Enough(Both(call, index, E, 28), Both(call, index, E, 26), Both(call, index, E, 24), z)
        BY <1>2, <1>3, <3>1, BySums
      <3>3. Enough(Both(call', index', E, 28), Both(call', index', E, 26), Both(call', index', E, 24), z)
        BY <2>2, <3>2
      <3>4. EnoughIn(Within(index', E), MakeIn(call', E), z)
        BY <2>1, <3>3, BySums
      <3> QED
        BY <3>4 DEF E, z
    <2>4. call.kind # "list" => \E i \in DOMAIN call.asked : i <= Filled(call) /\ call.asked[i].size >= 3
      BY <1>1, <1>2 DEF Refillable
    <2>5. ASSUME call.kind = "list", NEW bl \in DOMAIN call.want
          PROVE  CountOf(Within(index', ToSet(CfgDirs)), bl) + CountIn(call'.todo, bl) >= call.want[bl]
      <3> DEFINE E == ToSet(CfgDirs)
      <3>1. call.into \in E
        BY <1>2, <2>5, ConfigureAssumption DEF CallShape, ToSet
      <3>2. MakeIn(call, E) = call.todo /\ MakeIn(call', E) = call'.todo
        BY <1>10, <3>1 DEF MakeIn
      <3>3. CountOf(Within(index, E), bl) + CountIn(call.todo, bl) >= call.want[bl]
        BY <1>1, <1>2, <2>5 DEF Refillable
      <3> HIDE DEF E
      <3>4. Both(call', index', E, bl) >= call.want[bl]
        BY <2>2, <3>2, <3>3 DEF Both
      <3> QED
        BY <3>2, <3>4 DEF Both, E
    <2> QED
      BY <1>10, <1>16, <2>3, <2>4, <2>5 DEF Refillable
  <1> QED
    BY <1>12, <1>13, <1>14, <1>15, <1>17, <1>18, <1>20, <1>21 DEF ConfigureInv

\* Every step keeps the invariant.
LEMMA NextConfigureInv == ConfigureInv /\ [ConfigureNext]_configureVars => ConfigureInv'
  <1> SUFFICES ASSUME ConfigureInv, [ConfigureNext]_configureVars PROVE ConfigureInv'
    OBVIOUS
  <1>1. CASE Boot
    BY <1>1, BootInv
  <1>2. CASE BootByFlags
    BY <1>2, BootByFlagsInv
  <1>3. CASE \E want \in Wants : BootByBitLength(want)
    BY <1>3, BootByBitLengthInv
  <1>4. CASE \E size \in SizeRequests : ConfigureBySize(size)
    <2>1. PICK size \in SizeRequests : ConfigureBySize(size)
      BY <1>4
    <2> DEFINE parts == << [from |-> Dirs, into |-> dirs[1], size |-> size] >>
    <2>2. /\ Served
          /\ \/ ~Busy /\ Begin("size", parts) /\ UNCHANGED <<dirs, index>>
             \/ TurnAway("size", parts)
      BY <2>1, HandlersAre
    <2>3. CASE ~Busy /\ Begin("size", parts) /\ UNCHANGED <<dirs, index>>
      BY <2>2, <2>3, AtRest, BySizeInv
    <2>4. CASE TurnAway("size", parts)
      BY <2>4, ServiceInv DEF TurnAway
    <2> QED
      BY <2>2, <2>3, <2>4
  <1>5. CASE \E request \in PathRequests : ConfigureByPath(request)
    <2>1. PICK request \in PathRequests : ConfigureByPath(request)
      BY <1>5
    <2>2. /\ Served
          /\ \/ /\ ~Busy /\ Begin("path", PartsOf(request)) /\ dirs' = DirsOf(request)
                /\ index' = Indexed(index, files, DirsOf(request))
             \/ TurnAway("path", PartsOf(request))
      BY <2>1, HandlersAre
    <2>3. CASE /\ ~Busy /\ Begin("path", PartsOf(request)) /\ dirs' = DirsOf(request)
               /\ index' = Indexed(index, files, DirsOf(request))
      BY <2>2, <2>3, AtRest, ByPathInv
    <2>4. CASE TurnAway("path", PartsOf(request))
      BY <2>4, ServiceInv DEF TurnAway
    <2> QED
      BY <2>2, <2>3, <2>4
  <1>6. CASE FillPart
    BY <1>6, FillPartInv
  <1>7. CASE GenerateNewPublicKey
    BY <1>7, KeyInv
  <1>8. CASE NewWorkSpace
    BY <1>8, NewWorkSpaceInv
  <1>9. CASE GenerateFails
    <2>1. call.st = "run" /\ Fails /\ UNCHANGED <<keys, files, plotted, calls>>
      BY <1>9 DEF GenerateFails
    <2> QED
      BY <2>1, FailsInv
  <1>10. CASE Apply
    BY <1>10, ApplyInv
  <1>11. CASE Start \/ Stop \/ (\E s \in list : Plot(s)) \/ UNCHANGED keeperVars
    BY <1>11, ServiceInv
  <1>12. CASE Crash
    BY <1>12, CrashInv
  <1> QED
    BY <1>1, <1>2, <1>3, <1>4, <1>5, <1>6, <1>7, <1>8, <1>9, <1>10, <1>11, <1>12 DEF ConfigureNext, configureVars

\* However the keeper is started, configured, stopped by errors and killed, the index is what
\* the disks have, one space of each key and bit length, a call has got and planned what was asked
\* so far, and what is in use has its files.
THEOREM ConfigureInvariant == ConfigureSpec => []ConfigureInv
  BY InitConfigureInv, NextConfigureInv, PTL DEF ConfigureSpec

-----------------------------------------------------------------------------
(* Requests that were met *)

\* Where a space is found whenever the keeper is started: in the first of the configured
\* directories that has it, else where it is.
AtHome(f) ==
    /\ f \in files /\ Usable(f)
    /\ \A g \in files : Usable(g) /\ ID(g) = ID(f) /\ g.dir \in ToSet(CfgDirs) =>
         f.dir \in ToSet(CfgDirs) /\ Place(CfgDirs, f.dir) <= Place(CfgDirs, g.dir)

Homes == {Space(f) : f \in {g \in files : AtHome(g)}}

\* The index has spaces where they are at home, and all of them that are so in the directories
\* the keeper has, or was started with.
IndexAtHome ==
    svc # "down" =>
        /\ index \subseteq Homes
        /\ \A s \in Homes : s.dir \in ToSet(dirs) \/ s.dir \in ToSet(CfgDirs) => s \in index

\* no name is left to upgrade
AllUpgraded == \A f \in files : f.name = "old" /\ f.dir \in ToSet(CfgDirs) => f.ord = 0

Source(kind) == IF kind = "size" THEN index ELSE Homes

\* the spaces there are meet the request r
MetBy(r) ==
    /\ r.kind \in {"list", "size", "path"}
    /\ r.kind = "list" => /\ r.want \in Wants
                          /\ \A bl \in DOMAIN r.want :
                               CountOf(Within(Homes, ToSet(CfgDirs)), bl) >= r.want[bl]
    /\ r.kind # "list" => /\ \E i \in DOMAIN r.asked : r.asked[i].size >= 3
                          /\ \A i \in DOMAIN r.asked : /\ r.asked[i].size \in Nat
                               /\ EnoughIn(Within(Source(r.kind), r.asked[i].from), <<>>, r.asked[i].size)

\* A request that was met can be met again, one of a size as long as the process lives.
MetAgain ==
    /\ svc # "down" \/ met # {} => AllUpgraded
    /\ \A r \in met : MetBy(r) /\ (svc = "down" => r.kind # "size")

\* a call whose request was met has nothing to make and does not fail
Again == Request \in met => call.todo = <<>> /\ call.st # "failed"

RepeatInv == Settled(files) /\ IndexAtHome /\ MetAgain /\ Again

\* A step may add files of keys that have none.
LEMMA HomesGrow ==
  ASSUME NEW L, files' = files \cup L, \A f \in L : \A g \in files : f.ord # g.ord,
         \A f \in files : Usable(f)' <=> Usable(f)
  PROVE  /\ \A f \in files : AtHome(f)' <=> AtHome(f)
         /\ \A f \in L : AtHome(f)' => f \in L /\ Usable(f)'
         /\ Homes \subseteq Homes'
         /\ \A s \in Homes' : s \in Homes \/ \E f \in L : s = Space(f)
  <1>1. \A f \in L : \A g \in files : ID(f) # ID(g)
    BY DEF ID
  <1>2. ASSUME NEW f \in files PROVE AtHome(f)' <=> AtHome(f)
    <2>1. ASSUME AtHome(f)' PROVE AtHome(f)
      BY <2>1 DEF AtHome
    <2>2. ASSUME AtHome(f) PROVE AtHome(f)'
      BY <1>1, <2>2 DEF AtHome
    <2> QED
      BY <2>1, <2>2
  <1>3. \A f \in L : AtHome(f)' => f \in L /\ Usable(f)'
    BY DEF AtHome
  <1>4. Homes \subseteq Homes'
    BY <1>2 DEF Homes
  <1>5. \A s \in Homes' : s \in Homes \/ \E f \in L : s = Space(f)
    BY <1>2 DEF Homes
  <1> QED
    BY <1>2, <1>3, <1>4, <1>5

\* Nothing is added.
LEMMA HomesSame ==
  ASSUME files' = files, \A f \in files : Usable(f)' <=> Usable(f)
  PROVE  Homes' = Homes
  <1>1. files' = files \cup {}
    OBVIOUS
  <1> DEFINE e == {}
  <1>2. files' = files \cup e /\ \A f \in e : \A g \in files : f.ord # g.ord
    BY <1>1
  <1>3. \A f : f \notin e
    OBVIOUS
  <1> HIDE DEF e
  <1> QED
    BY <1>2, <1>3, HomesGrow

\* The homes are spaces of the wallet, one of each key and bit length.
LEMMA HomesAre ==
  ASSUME StateTypes, Settled(files)
  PROVE  Homes \in SUBSET WorkSpaces /\ OneID(Homes)
  <1>1. files \in SUBSET SpaceFiles /\ keys \in OldKeys..MaxKeys /\ CfgDirs \in Seq(Dirs)
    BY ConfigureAssumption DEF StateTypes
  <1>2. Homes \in SUBSET WorkSpaces
    <2> SUFFICES ASSUME NEW f \in files, AtHome(f) PROVE Space(f) \in WorkSpaces
      BY DEF Homes
    <2>1. f \in SpaceFiles /\ f.ord \in 1..keys
      BY <1>1 DEF AtHome, Usable
    <2>2. f.ord \in 1..MaxKeys
      BY <1>1, <2>1, ConfigureAssumption
    <2> QED
      BY <2>1, <2>2 DEF SpaceFiles, WorkSpaces, Space
  <1>3. ASSUME NEW f \in files, NEW g \in files, AtHome(f), AtHome(g), ID(f) = ID(g)
        PROVE  f.dir = g.dir
    <2>1. Usable(f) /\ Usable(g)
      BY <1>3 DEF AtHome
    <2>2. CASE f.dir \in ToSet(CfgDirs) \/ g.dir \in ToSet(CfgDirs)
      <3>1. f.dir \in ToSet(CfgDirs) /\ g.dir \in ToSet(CfgDirs)
        BY <1>3, <2>1, <2>2 DEF AtHome
      <3>2. Place(CfgDirs, f.dir) <= Place(CfgDirs, g.dir) /\ Place(CfgDirs, g.dir) <= Place(CfgDirs, f.dir)
        BY <1>3, <2>1, <3>1 DEF AtHome
      <3>3. /\ Place(CfgDirs, f.dir) \in Nat /\ CfgDirs[Place(CfgDirs, f.dir)] = f.dir
            /\ Place(CfgDirs, g.dir) \in Nat /\ CfgDirs[Place(CfgDirs, g.dir)] = g.dir
        BY <1>1, <3>1, PlaceIn
      <3>4. Place(CfgDirs, f.dir) = Place(CfgDirs, g.dir)
        BY <3>2, <3>3
      <3> QED
        BY <3>3, <3>4
    <2>3. CASE f.dir \notin ToSet(CfgDirs) /\ g.dir \notin ToSet(CfgDirs)
      <3>1. f.name = "new" /\ f.whole /\ g.name = "new" /\ g.whole /\ f.ord # 0
        BY <1>1, <2>1 DEF Usable
      <3> QED
        BY <1>3, <2>3, <3>1 DEF Settled
    <2> QED
      BY <2>2, <2>3
  <1>4. OneID(Homes)
    <2> SUFFICES ASSUME NEW s \in Homes, NEW t \in Homes, ID(s) = ID(t) PROVE s = t
      BY DEF OneID
    <2>1. PICK f \in files : AtHome(f) /\ s = Space(f)
      BY DEF Homes
    <2>2. PICK g \in files : AtHome(g) /\ t = Space(g)
      BY DEF Homes
    <2>3. ID(f) = ID(g)
      BY <2>1, <2>2 DEF ID, Space
    <2>4. f.ord = g.ord /\ f.bl = g.bl
      BY <2>3 DEF ID
    <2> QED
      BY <1>3, <2>1, <2>2, <2>3, <2>4 DEF Space
  <1> QED
    BY <1>2, <1>4

\* More spaces are enough too.
LEMMA EnoughWithin ==
  ASSUME NEW S \in SUBSET WorkSpaces, NEW R \in SUBSET WorkSpaces, R \subseteq S, NEW size \in Nat,
         EnoughIn(R, <<>>, size)
  PROVE  EnoughIn(S, <<>>, size)
  <1>1. \A bl : CountOf(R, bl) <= CountOf(S, bl) /\ CountOf(R, bl) \in Nat /\ CountOf(S, bl) \in Nat
    BY CountPart, PartFinite
  <1>2. CountIn(<<>>, 28) = 0 /\ CountIn(<<>>, 26) = 0 /\ CountIn(<<>>, 24) = 0
    BY CountNone
  <1> DEFINE l == CountOf(R, 28)
             m == CountOf(R, 26)
             n == CountOf(R, 24)
             l2 == CountOf(S, 28)
             m2 == CountOf(S, 26)
             n2 == CountOf(S, 24)
  <1>3. /\ l \in Nat /\ m \in Nat /\ n \in Nat /\ l2 \in Nat /\ m2 \in Nat /\ n2 \in Nat
        /\ l <= l2 /\ m <= m2 /\ n <= n2
    BY <1>1
  <1>4. Enough(l + 0, m + 0, n + 0, size)
    BY <1>2 DEF EnoughIn
  <1> HIDE DEF l, m, n, l2, m2, n2
  <1>5. l + 0 = l /\ m + 0 = m /\ n + 0 = n /\ l2 + 0 = l2 /\ m2 + 0 = m2 /\ n2 + 0 = n2
    BY <1>3
  <1>6. Enough(l2 + 0, m2 + 0, n2 + 0, size)
    <2>1. Enough(l, m, n, size)
      BY <1>4, <1>5
    <2>2. Enough(l2, m2, n2, size)
      BY <1>3, <2>1, EnoughMore
    <2> QED
      BY <1>5, <2>2
  <1> QED
    BY <1>2, <1>6 DEF EnoughIn, l2, m2, n2

\* A request stays met while spaces are added.
LEMMA StaysMet ==
  ASSUME NEW r, MetBy(r), Homes \subseteq Homes', Homes' \in SUBSET WorkSpaces,
         r.kind = "size" => index \subseteq index' /\ index' \in SUBSET WorkSpaces
  PROVE  MetBy(r)'
  <1>1. ASSUME r.kind = "list", NEW bl \in DOMAIN r.want
        PROVE  CountOf(Within(Homes', ToSet(CfgDirs)), bl) >= r.want[bl]
    <2> DEFINE S == Within(Homes, ToSet(CfgDirs))
               R == Within(Homes', ToSet(CfgDirs))
    <2>1. S \in SUBSET WorkSpaces /\ R \in SUBSET WorkSpaces /\ S \subseteq R
      BY DEF Within
    <2>2. CountOf(S, bl) >= r.want[bl] /\ r.want[bl] \in Nat
      BY <1>1, ConfigureAssumption DEF MetBy
    <2> HIDE DEF S, R
    <2>3. CountOf(S, bl) <= CountOf(R, bl) /\ CountOf(S, bl) \in Nat /\ CountOf(R, bl) \in Nat
      BY <2>1, CountPart, PartFinite
    <2>4. CountOf(R, bl) >= r.want[bl]
      BY <2>2, <2>3
    <2> QED
      BY <2>4 DEF R
  <1>2. ASSUME r.kind # "list", NEW i \in DOMAIN r.asked
        PROVE  EnoughIn(Within(Source(r.kind)', r.asked[i].from), <<>>, r.asked[i].size)
    <2> DEFINE S == Within(Source(r.kind), r.asked[i].from)
               R == Within(Source(r.kind)', r.asked[i].from)
               z == r.asked[i].size
    <2>1. Source(r.kind) \subseteq Source(r.kind)' /\ Source(r.kind)' \in SUBSET WorkSpaces
      BY DEF Source
    <2>2. S \in SUBSET WorkSpaces /\ R \in SUBSET WorkSpaces /\ S \subseteq R
      BY <2>1 DEF Within
    <2>3. EnoughIn(S, <<>>, z) /\ z \in Nat
      BY <1>2 DEF MetBy
    <2> HIDE DEF S, R, z
    <2>4. EnoughIn(R, <<>>, z)
      BY <2>2, <2>3, EnoughWithin
    <2> QED
      BY <2>4 DEF R, z
  <1> QED
    BY <1>1, <1>2 DEF MetBy

\* When the spaces are enough, filling from them leaves less than a plot, and nothing to make.
LEMMA FillsAll ==
  ASSUME NEW src \in SUBSET WorkSpaces, OneID(src), NEW size \in Nat, EnoughIn(src, <<>>, size)
  PROVE  /\ size - Total(Fill(src, size)) \in Nat /\ size - Total(Fill(src, size)) < 3
         /\ Plan(size - Total(Fill(src, size))) = <<>>
  <1> DEFINE fill == Fill(src, size)
             large == CountOf(src, 28)
             mid == CountOf(src, 26)
             small == CountOf(src, 24)
             a == CountOf(fill, 28)
             b == CountOf(fill, 26)
             c == CountOf(fill, 24)
             rest == size - Total(fill)
  <1>1. large \in Nat /\ mid \in Nat /\ small \in Nat
    BY PartFinite
  <1>2. /\ fill \in SUBSET src /\ Usual(fill) /\ a = Less(size \div 64, large)
        /\ b = Less((size - 64 * a) \div 16, mid)
        /\ c = Less((size - 64 * a - 16 * b) \div 3, small)
    BY FillCounts
  <1>3. fill \in SUBSET WorkSpaces
    BY <1>2
  <1> HIDE DEF fill
  <1>4. rest = size - (64 * a + 16 * b + 3 * c)
    BY <1>2, <1>3, TotalWorth DEF Worth
  <1> HIDE DEF rest
  <1>5. Takes(size, large, mid, small, a, b, c, rest)
    <2> HIDE DEF a, b, c, large, mid, small
    <2> QED
      BY <1>2, <1>4 DEF Takes
  <1>6. Enough(large, mid, small, size)
    <2>1. CountIn(<<>>, 28) = 0 /\ CountIn(<<>>, 26) = 0 /\ CountIn(<<>>, 24) = 0
      BY CountNone
    <2>2. Enough(large + 0, mid + 0, small + 0, size)
      BY <2>1 DEF EnoughIn
    <2> HIDE DEF large, mid, small
    <2>3. large + 0 = large /\ mid + 0 = mid /\ small + 0 = small
      BY <1>1
    <2> QED
      BY <2>2, <2>3
  <1>7. rest \in Nat /\ rest < 3
    <2> HIDE DEF a, b, c, large, mid, small
    <2> QED
      BY <1>1, <1>5, <1>6, FillFits
  <1>8. Plan(rest) = <<>>
    BY <1>7, PlanCounts
  <1> QED
    BY <1>7, <1>8 DEF rest, fill

HomesProper == Homes \in SUBSET WorkSpaces /\ OneID(Homes)

HomesTypes == StateTypes /\ Settled(files)

\* The same, as it is used after a step.
LEMMA HomesHold == HomesTypes => HomesProper
  BY HomesAre DEF HomesTypes, HomesProper

\* After a step.
LEMMA HomesHoldNext ==
  ASSUME StateTypes', Settled(files)'
  PROVE  Homes' \in SUBSET WorkSpaces /\ OneID(Homes')
  <1>1. HomesTypes' => HomesProper'
    BY HomesHold, PTL
  <1> QED
    BY <1>1 DEF HomesTypes, HomesProper

\* A step that leaves the files, the directories and the index.
LEMMA HomesKept ==
  ASSUME RepeatInv, files' = files, index' = index, dirs' = dirs, svc' = "down" <=> svc = "down",
         \A f \in files : Usable(f)' <=> Usable(f)
  PROVE  /\ Settled(files)' /\ IndexAtHome' /\ (AllUpgraded' <=> AllUpgraded)
         /\ \A r : MetBy(r)' <=> MetBy(r)
  <1>1. Homes' = Homes
    BY HomesSame
  <1>2. Settled(files)' /\ IndexAtHome'
    BY <1>1 DEF RepeatInv, Settled, IndexAtHome
  <1>3. AllUpgraded' <=> AllUpgraded
    BY DEF AllUpgraded
  <1>4. \A r : MetBy(r)' <=> MetBy(r)
    BY <1>1 DEF MetBy, Source
  <1> QED
    BY <1>2, <1>3, <1>4

\* The requests that were met stay so.
LEMMA MetKept ==
  ASSUME RepeatInv, files' = files, index' = index, dirs' = dirs, svc' = "down" <=> svc = "down",
         \A f \in files : Usable(f)' <=> Usable(f), met' = met, Again'
  PROVE  RepeatInv'
  <1>1. /\ Settled(files)' /\ IndexAtHome' /\ (AllUpgraded' <=> AllUpgraded)
        /\ \A r : MetBy(r)' <=> MetBy(r)
    BY HomesKept
  <1>2. MetAgain'
    BY <1>1 DEF RepeatInv, MetAgain
  <1> QED
    BY <1>1, <1>2 DEF RepeatInv

\* Files of a key that had none, in one directory, leave one copy of what there was.
LEMMA SettledMore ==
  ASSUME Settled(files), NEW L, files' = files \cup L, \A f \in L : \A g \in files : f.ord # g.ord,
         \A f, g \in L : f.dir = g.dir
  PROVE  Settled(files)'
  <1> SUFFICES ASSUME NEW f \in files', NEW g \in files',
                      f.name = "new" /\ f.whole /\ g.name = "new" /\ g.whole /\ f.ord # 0,
                      ID(f) = ID(g), f.dir \notin ToSet(CfgDirs), g.dir \notin ToSet(CfgDirs)
               PROVE  f.dir = g.dir
    BY DEF Settled
  <1>1. f.ord = g.ord
    BY DEF ID
  <1>2. CASE f \in files /\ g \in files
    BY <1>2 DEF Settled
  <1>3. CASE f \in L /\ g \in L
    BY <1>3
  <1> QED
    BY <1>1, <1>2, <1>3

\* A process that ends: a size is no longer remembered.
LEMMA RepeatForget ==
  ASSUME ConfigureInv', RepeatInv, Forget, NEW L, files' = files \cup L, keys' = keys,
         \A f \in L : \A g \in files : f.ord # g.ord, \A f, g \in L : f.dir = g.dir,
         \A f \in L : f.name = "new"
  PROVE  RepeatInv'
  <1>1. svc' = "down" /\ call' = NoCall /\ met' = {r \in met : r.kind # "size"}
    BY DEF Forget
  <1>2. Settled(files)'
    BY SettledMore DEF RepeatInv
  <1>3. Homes' \in SUBSET WorkSpaces
    <2>1. StateTypes'
      BY DEF ConfigureInv
    <2> QED
      BY <1>2, <2>1, HomesHoldNext
  <1>4. Homes \subseteq Homes'
    <2>1. \A f \in files : Usable(f)' <=> Usable(f)
      BY DEF Usable
    <2> QED
      BY <2>1, HomesGrow
  <1>5. MetAgain'
    <2>1. MetAgain
      BY DEF RepeatInv
    <2>2. met' # {} => AllUpgraded'
      <3>1. met' # {} => AllUpgraded
        BY <1>1, <2>1 DEF MetAgain
      <3> QED
        BY <3>1 DEF AllUpgraded
    <2>3. ASSUME NEW r \in met' PROVE MetBy(r)' /\ r.kind # "size"
      <3>1. MetBy(r) /\ r.kind # "size"
        BY <1>1, <2>1, <2>3 DEF MetAgain
      <3> QED
        BY <1>3, <1>4, <3>1, StaysMet
    <2> QED
      BY <1>1, <2>2, <2>3 DEF MetAgain
  <1>6. Again'
    <2>1. call'.todo = <<>> /\ call'.st # "failed"
      BY <1>1, NoCallIs
    <2> QED
      BY <2>1 DEF Again
  <1>7. IndexAtHome'
    BY <1>1 DEF IndexAtHome
  <1> QED
    BY <1>2, <1>5, <1>6, <1>7 DEF RepeatInv

\* A call that fails was not of a request that had been met.
LEMMA RepeatFails ==
  ASSUME ConfigureInv, ConfigureInv', RepeatInv, call.st = "run", Fails, UNCHANGED <<keys, files>>,
         call.kind = "list" \/ Request \notin met
  PROVE  RepeatInv'
  <1>1. CASE call.kind = "list"
    <2> DEFINE e == {}
    <2>1. Forget /\ files' = files \cup e /\ \A f : f \notin e
      BY <1>1 DEF Fails
    <2> HIDE DEF e
    <2> QED
      BY <2>1, RepeatForget
  <1>2. CASE call.kind # "list"
    <2>1. /\ call' = [call EXCEPT !.st = "failed", !.todo = <<>>, !.parts = <<>>, !.key = 0]
          /\ UNCHANGED <<svc, dirs, index, list, configured, met>>
      BY <1>2 DEF Fails
    <2>2. call \in Calls
      BY DEF ConfigureInv, StateTypes
    <2>3. call'.kind = call.kind /\ call'.asked = call.asked /\ call'.want = call.want
      BY <2>1, <2>2 DEF Calls
    <2>4. Again'
      BY <1>2, <2>1, <2>3 DEF Again, Request
    <2>5. \A f \in files : Usable(f)' <=> Usable(f)
      BY DEF Usable
    <2> QED
      BY <2>1, <2>4, <2>5, MetKept
  <1> QED
    BY <1>1, <1>2

\* What a start indexes: the spaces at home in the configured directories.
LEMMA StartedHomes ==
  ASSUME ConfigureInv, RepeatInv, svc = "down", Started, UNCHANGED met, StateTypes'
  PROVE  /\ Settled(files)' /\ IndexAtHome' /\ AllUpgraded'
         /\ \A s : s \in index' <=> s \in Homes' /\ s.dir \in ToSet(CfgDirs)
         /\ \A r \in met' : MetBy(r)' /\ MetBy(r) /\ r.kind # "size"
         /\ met # {} => Homes' = Homes
  <1> DEFINE fs == Upgraded(files, CfgDirs)
  <1>1. /\ files \in SUBSET SpaceFiles /\ keys \in Nat /\ \A f \in files : f.ord <= keys
        /\ Settled(files) /\ MetAgain
    BY ConfigureAssumption DEF ConfigureInv, StateTypes, KeysFirst, RepeatInv
  <1>2. /\ svc' = "idle" /\ dirs' = CfgDirs /\ keys' = keys /\ files' = fs
        /\ index' = Indexed({}, files', CfgDirs)
    BY DEF Started
  <1>3. \A f \in fs : f \in files \/ f.dir \in ToSet(CfgDirs)
    <2>1. \A f \in fs : f \in files \/ \E g \in files : g.dir \in ToSet(CfgDirs) /\ f = [g EXCEPT !.name = "new"]
      BY <1>1, UpgradedIs
    <2>2. \A g \in files : [g EXCEPT !.name = "new"].dir = g.dir
      BY <1>1 DEF SpaceFiles
    <2> HIDE DEF fs
    <2> QED
      BY <2>1, <2>2
  <1>4. fs \in SUBSET SpaceFiles
        /\ \A f \in fs : ~(f.name = "old" /\ f.dir \in ToSet(CfgDirs) /\ f.ord \in 1..keys)
    BY <1>1, UpgradedIs
  <1>5. AllUpgraded => fs = files
    <2>1. AllUpgraded => \A f \in files : ~(f.name = "old" /\ f.dir \in ToSet(CfgDirs) /\ f.ord \in 1..keys)
      BY DEF AllUpgraded
    <2>2. (\A f \in files : ~(f.name = "old" /\ f.dir \in ToSet(CfgDirs) /\ f.ord \in 1..keys)) => fs = files
      BY <1>1, UpgradedIs
    <2> QED
      BY <2>1, <2>2
  <1> HIDE DEF fs
  <1>6. Settled(files)'
    BY <1>1, <1>2, <1>3 DEF Settled
  <1>7. AllUpgraded'
    <2>1. \A f \in files' : f.ord \in Nat /\ f.ord <= keys
      <3>1. \A f \in files' : f.ord \in Nat
        BY <1>2, <1>4 DEF SpaceFiles
      <3>2. \A f \in files' : f.ord <= keys
        BY StartedIndex
      <3> QED
        BY <3>1, <3>2
    <2> QED
      BY <1>1, <1>2, <1>4, <2>1 DEF AllUpgraded
  <1>8. \A f : FirstOf(files', CfgDirs, f) <=> AtHome(f)' /\ f.dir \in ToSet(CfgDirs)
    <2>1. \A f : Usable(f)' <=> Usable(f)
      BY <1>2 DEF Usable
    <2> QED
      BY <2>1 DEF FirstOf, AtHome
  <1>9. ASSUME NEW s PROVE s \in index' <=> s \in Homes' /\ s.dir \in ToSet(CfgDirs)
    <2>1. s \in index' <=> \E f \in files' : FirstOf(files', CfgDirs, f) /\ s = Space(f)
      <3> DEFINE e == {}
      <3>1. s \in Indexed(e, files', CfgDirs) <=>
              s \in e \/ \E f \in files' : FirstOf(files', CfgDirs, f) /\ Unknown(e, f) /\ s = Space(f)
        <4> HIDE DEF e
        <4> QED
          BY IndexedIs
      <3>2. \A f : Unknown(e, f)
        BY DEF Unknown
      <3> QED
        BY <1>2, <3>1, <3>2
    <2>3. \A f : Space(f).dir = f.dir
      BY DEF Space
    <2>4. \A f : AtHome(f)' => f \in files'
      BY DEF AtHome
    <2>5. s \in Homes' <=> \E f \in files' : AtHome(f)' /\ s = Space(f)
      BY DEF Homes
    <2> QED
      BY <1>8, <2>1, <2>3, <2>4, <2>5
  <1>10. IndexAtHome'
    BY <1>2, <1>9 DEF IndexAtHome
  <1>11. met # {} => Homes' = Homes
    <2>1. met # {} => files' = files
      BY <1>1, <1>2, <1>5 DEF MetAgain
    <2>2. \A f \in files : Usable(f)' <=> Usable(f)
      BY <1>2 DEF Usable
    <2> QED
      BY <2>1, <2>2, HomesSame
  <1>12. ASSUME NEW r \in met' PROVE MetBy(r)' /\ MetBy(r) /\ r.kind # "size"
    <2>1. MetBy(r) /\ r.kind # "size" /\ met # {}
      BY <1>1, <1>12 DEF MetAgain
    <2>2. Homes' \in SUBSET WorkSpaces
      BY <1>6, HomesHoldNext
    <2> QED
      BY <1>11, <2>1, <2>2, StaysMet
  <1> QED
    BY <1>6, <1>7, <1>9, <1>10, <1>11, <1>12

\* A start leaves what was met, if the call it makes is not one that fails again.
LEMMA RepeatStarted ==
  ASSUME ConfigureInv, RepeatInv, svc = "down", Started, UNCHANGED met, StateTypes', Again'
  PROVE  RepeatInv'
  <1>1. /\ Settled(files)' /\ IndexAtHome' /\ AllUpgraded'
        /\ \A r \in met' : MetBy(r)' /\ r.kind # "size"
    BY StartedHomes
  <1>2. MetAgain'
    BY <1>1 DEF MetAgain
  <1> QED
    BY <1>1, <1>2 DEF RepeatInv

\* Starts.
LEMMA RepeatBoot ==
  ASSUME ConfigureInv, ConfigureInv', RepeatInv, Boot \/ BootByFlags
  PROVE  RepeatInv'
  <1>1. svc = "down" /\ Started /\ UNCHANGED met
    BY DEF Boot, BootByFlags, Started
  <1>2. StateTypes'
    BY DEF ConfigureInv
  <1>3. CASE Boot
    <2>1. call' = NoCall
      BY <1>1, <1>3 DEF Boot, ConfigureInv, ProcessState
    <2>2. Again'
      BY <2>1, NoCallIs DEF Again
    <2> QED
      BY <1>1, <1>2, <2>2, RepeatStarted
  <1>4. CASE BootByFlags
    <2>1. call'.kind = "flags"
      <3>1. PICK v : call' = [NoCall EXCEPT !.kind = "flags", !.st = v]
        BY <1>4 DEF BootByFlags
      <3> QED
        BY <3>1 DEF NoCall
    <2>2. \A r \in met' : r.kind # "flags"
      BY <1>1 DEF RepeatInv, MetAgain, MetBy
    <2>3. Again'
      BY <2>1, <2>2 DEF Again, Request
    <2> QED
      BY <1>1, <1>2, <2>3, RepeatStarted
  <1> QED
    BY <1>3, <1>4

\* A start finds all of a list that was met before.
LEMMA ListFound ==
  ASSUME ConfigureInv, RepeatInv, svc = "down", NEW want \in Wants, NEW order \in Orders(DOMAIN want),
         NEW r \in met, r.kind = "list", r.want = want
  PROVE  MissingInOrder(Got1(want), want, order) = <<>>
  <1>1. /\ files \in SUBSET SpaceFiles /\ keys \in Nat /\ Settled(files) /\ StateTypes
        /\ AllUpgraded /\ MetBy(r)
    BY ConfigureAssumption DEF ConfigureInv, StateTypes, RepeatInv, MetAgain
  <1>2. Upgraded(files, CfgDirs) = files
    <2>1. \A f \in files : ~(f.name = "old" /\ f.dir \in ToSet(CfgDirs) /\ f.ord \in 1..keys)
      BY <1>1 DEF AllUpgraded
    <2> QED
      BY <1>1, <2>1, UpgradedIs
  <1>3. \A f : FirstOf(files, CfgDirs, f) <=> AtHome(f) /\ f.dir \in ToSet(CfgDirs)
    BY DEF FirstOf, AtHome
  <1>4. ASSUME NEW s PROVE s \in Found1 <=> s \in Within(Homes, ToSet(CfgDirs))
    <2>1. s \in Found1 <=> \E f \in files : FirstOf(files, CfgDirs, f) /\ s = Space(f)
      <3> DEFINE e == {}
      <3>1. s \in Indexed(e, files, CfgDirs) <=>
              s \in e \/ \E f \in files : FirstOf(files, CfgDirs, f) /\ Unknown(e, f) /\ s = Space(f)
        <4> HIDE DEF e
        <4> QED
          BY IndexedIs
      <3>2. \A f : Unknown(e, f)
        BY DEF Unknown
      <3> QED
        BY <1>2, <3>1, <3>2 DEF Found1
    <2>2. \A f : Space(f).dir = f.dir
      BY DEF Space
    <2>3. \A f : AtHome(f) => f \in files
      BY DEF AtHome
    <2>4. s \in Homes <=> \E f \in files : AtHome(f) /\ s = Space(f)
      BY DEF Homes
    <2> QED
      BY <1>3, <2>1, <2>2, <2>3, <2>4 DEF Within
  <1>5. Found1 = Within(Homes, ToSet(CfgDirs))
    BY <1>4
  <1>6. Found1 \in SUBSET WorkSpaces /\ OneID(Found1)
    <2>1. Homes \in SUBSET WorkSpaces /\ OneID(Homes)
      BY <1>1, HomesAre
    <2> QED
      BY <1>5, <2>1 DEF Within, OneID
  <1>7. DOMAIN want \subseteq BitLengths /\ want \in [DOMAIN want -> Nat]
    BY ConfigureAssumption
  <1>8. /\ Got1(want) \in SUBSET Found1
        /\ \A bl \in DOMAIN want : CountOf(Got1(want), bl) = Less(want[bl], CountOf(Found1, bl))
    BY <1>6, <1>7, ListCounts DEF Got1
  <1>9. \A bl \in DOMAIN want : CountOf(Got1(want), bl) >= want[bl]
    <2> SUFFICES ASSUME NEW bl \in DOMAIN want PROVE CountOf(Got1(want), bl) >= want[bl]
      OBVIOUS
    <2>1. CountOf(Found1, bl) >= want[bl] /\ want[bl] \in Nat /\ CountOf(Found1, bl) \in Nat
      <3>1. CountOf(Within(Homes, ToSet(CfgDirs)), bl) >= want[bl]
        BY <1>1 DEF MetBy
      <3> QED
        BY <1>5, <1>6, <1>7, <3>1, PartFinite
    <2>2. CountOf(Got1(want), bl) = Less(want[bl], CountOf(Found1, bl))
      BY <1>8
    <2> QED
      BY <2>1, <2>2 DEF Less
  <1>10. Got1(want) \in SUBSET WorkSpaces
    BY <1>6, <1>8
  <1> QED
    BY <1>7, <1>9, <1>10, MissingCounts

\* A start that ends at once leaves what there was.
LEMMA RepeatUpgraded ==
  ASSUME ConfigureInv, RepeatInv, svc = "down", files' = Upgraded(files, CfgDirs),
         UNCHANGED <<svc, dirs, index, call, keys, met>>
  PROVE  RepeatInv'
  <1>1. files \in SUBSET SpaceFiles /\ keys \in Nat /\ Settled(files) /\ MetAgain /\ Again
    BY ConfigureAssumption DEF ConfigureInv, StateTypes, RepeatInv
  <1>2. Again'
    BY <1>1 DEF Again, Request
  <1>3. CASE AllUpgraded
    <2>1. \A f \in files : ~(f.name = "old" /\ f.dir \in ToSet(CfgDirs) /\ f.ord \in 1..keys)
      BY <1>3 DEF AllUpgraded
    <2>2. files' = files
      BY <1>1, <2>1, UpgradedIs
    <2>3. \A f \in files : Usable(f)' <=> Usable(f)
      BY DEF Usable
    <2> QED
      BY <1>2, <2>2, <2>3, MetKept
  <1>4. CASE ~AllUpgraded
    <2>1. met' = {} /\ svc' = "down"
      BY <1>1, <1>4 DEF MetAgain
    <2>2. Settled(files)'
      <3>1. \A f \in files' : f \in files \/ f.dir \in ToSet(CfgDirs)
        <4>1. \A f \in files' : f \in files \/ \E g \in files : g.dir \in ToSet(CfgDirs) /\ f = [g EXCEPT !.name = "new"]
          BY <1>1, UpgradedIs
        <4>2. \A g \in files : [g EXCEPT !.name = "new"].dir = g.dir
          BY <1>1 DEF SpaceFiles
        <4> QED
          BY <4>1, <4>2
      <3> QED
        BY <1>1, <3>1 DEF Settled
    <2> QED
      BY <1>2, <2>1, <2>2 DEF RepeatInv, IndexAtHome, MetAgain
  <1> QED
    BY <1>3, <1>4

\* A start with a list.
LEMMA RepeatBootByBitLength ==
  ASSUME ConfigureInv, ConfigureInv', RepeatInv, NEW want \in Wants, BootByBitLength(want)
  PROVE  RepeatInv'
  <1>1. /\ svc = "down" /\ files' = Upgraded(files, CfgDirs) /\ UNCHANGED <<keys, met>>
        /\ \E order \in Orders(DOMAIN want) : Begun(want, order) \/ Ended(want, order)
    BY StartsByList
  <1>2. CASE \E order \in Orders(DOMAIN want) : Ended(want, order)
    <2>1. UNCHANGED <<svc, dirs, index, call>>
      BY <1>2 DEF Ended
    <2> QED
      BY <1>1, <2>1, RepeatUpgraded
  <1>3. CASE \E order \in Orders(DOMAIN want) : Begun(want, order)
    <2>1. PICK order \in Orders(DOMAIN want) : Begun(want, order)
      BY <1>3
    <2>2. Started
      BY <1>1, <2>1 DEF Begun, Started, Found1
    <2>3. /\ call'.todo = MissingInOrder(Got1(want), want, order) /\ call'.st = "run"
          /\ call'.kind = "list" /\ call'.want = want
      BY <2>1 DEF Begun, NoCall
    <2>4. ASSUME Request' \in met' PROVE call'.todo = <<>>
      <3>1. Request'.kind = "list" /\ Request'.want = want
        BY <2>3 DEF Request
      <3>2. PICK r \in met : r.kind = "list" /\ r.want = want
        BY <1>1, <2>4, <3>1
      <3> QED
        BY <1>1, <2>3, <3>2, ListFound
    <2>5. Again'
      BY <2>3, <2>4 DEF Again
    <2>6. StateTypes'
      BY DEF ConfigureInv
    <2> QED
      BY <1>1, <2>2, <2>5, <2>6, RepeatStarted
  <1> QED
    BY <1>1, <1>2, <1>3

\* A call by a size begins with nothing to make.
LEMMA RepeatBySize ==
  ASSUME ConfigureInv, RepeatInv, NEW parts, Begin("size", parts), UNCHANGED <<dirs, index>>
  PROVE  RepeatInv'
  <1>1. call' = [NoCall EXCEPT !.st = "run", !.kind = "size", !.asked = parts, !.parts = parts]
    BY DEF Begin
  <1>2. UNCHANGED <<svc, dirs, index, files, keys, met>>
    BY DEF Begin
  <1>3. Again'
    BY <1>1 DEF Again, NoCall
  <1>4. \A f \in files : Usable(f)' <=> Usable(f)
    BY <1>2 DEF Usable
  <1> QED
    BY <1>2, <1>3, <1>4, MetKept

\* So does one by directories, and the index grows by spaces that are at home in them.
LEMMA RepeatByPath ==
  ASSUME ConfigureInv, ConfigureInv', RepeatInv, NEW request \in PathRequests, svc = "idle",
         Begin("path", PartsOf(request)), dirs' = DirsOf(request),
         index' = Indexed(index, files, DirsOf(request))
  PROVE  RepeatInv'
  <1> DEFINE ds == [i \in DOMAIN request |-> request[i].dir]
  <1>1. PICK parts : call' = [NoCall EXCEPT !.st = "run", !.kind = "path", !.asked = parts, !.parts = parts]
    BY DEF Begin
  <1>2. /\ UNCHANGED <<svc, files, keys, met>> /\ dirs' = ds /\ index' = Indexed(index, files, ds)
        /\ svc = "idle"
    BY DEF Begin, DirsOf
  <1> HIDE DEF ds
  <1>3. ds \in Seq(Dirs)
    BY <1>2 DEF ConfigureInv, StateTypes
  <1>4. Again'
    BY <1>1 DEF Again, NoCall
  <1>5. /\ index \in SUBSET WorkSpaces /\ files \in SUBSET SpaceFiles /\ keys \in Nat
        /\ Settled(files) /\ StateTypes /\ StateTypes' /\ MetAgain /\ Listed(CfgDirs)
        /\ index \subseteq Homes
        /\ \A s \in Homes : s.dir \in ToSet(CfgDirs) => s \in index
    <2>0. StateTypes /\ StateTypes' /\ ProcessState
      BY DEF ConfigureInv
    <2>1. StateTypes /\ StateTypes' /\ Listed(CfgDirs)
      BY <1>2, <2>0 DEF ProcessState
    <2>2. index \in SUBSET WorkSpaces /\ files \in SUBSET SpaceFiles /\ keys \in Nat
      BY <2>1, ConfigureAssumption DEF StateTypes
    <2>3. Settled(files) /\ MetAgain /\ IndexAtHome
      BY DEF RepeatInv
    <2>4. svc # "down"
      BY <1>2
    <2>5. index \subseteq Homes /\ \A s \in Homes : s.dir \in ToSet(CfgDirs) => s \in index
      BY <2>3, <2>4 DEF IndexAtHome
    <2> QED
      BY <2>1, <2>2, <2>3, <2>5
  <1>6. Homes' = Homes
    <2>1. \A f \in files : Usable(f)' <=> Usable(f)
      BY <1>2 DEF Usable
    <2> QED
      BY <1>2, <2>1, HomesSame
  <1>7. index' \subseteq Homes
    <2> SUFFICES ASSUME NEW s \in index', s \notin index PROVE s \in Homes
      BY <1>5
    <2>1. PICK f \in files : FirstOf(files, ds, f) /\ Unknown(index, f) /\ s = Space(f)
      BY <1>2, IndexedIs
    <2>2. Usable(f)
      BY <2>1 DEF FirstOf
    <2>3. \A g \in files : Usable(g) /\ g.dir \in ToSet(CfgDirs) => ID(g) # ID(f)
      BY <1>5, <2>1 DEF Listed, Unknown
    <2>4. AtHome(f)
      BY <2>2, <2>3 DEF AtHome
    <2> QED
      BY <2>1, <2>4 DEF Homes
  <1>8. OneID(Homes)
    BY <1>5, HomesAre
  <1>9. /\ index \subseteq index'
        /\ \A f \in files : Usable(f) /\ f.dir \in ToSet(ds) => \E t \in index' : ID(t) = ID(f)
    BY <1>2, <1>3, <1>5, IndexedHas
  <1>10. ASSUME NEW s \in Homes, s.dir \in ToSet(ds) PROVE s \in index'
    <2>1. PICK f \in files : AtHome(f) /\ s = Space(f)
      BY DEF Homes
    <2>2. Usable(f) /\ f.dir \in ToSet(ds) /\ ID(s) = ID(f)
      BY <1>10, <2>1 DEF AtHome, Space, ID
    <2>3. PICK t \in index' : ID(t) = ID(f)
      BY <1>9, <2>2
    <2>4. t = s
      BY <1>7, <1>8, <2>2, <2>3 DEF OneID
    <2> QED
      BY <2>3, <2>4
  <1>11. IndexAtHome'
    BY <1>2, <1>5, <1>6, <1>7, <1>9, <1>10 DEF IndexAtHome
  <1>12. Settled(files)'
    BY <1>2, <1>5 DEF Settled
  <1>13. MetAgain'
    <2>1. AllUpgraded'
      BY <1>2, <1>5 DEF MetAgain, AllUpgraded
    <2>2. ASSUME NEW r \in met' PROVE MetBy(r)'
      <3>1. MetBy(r)
        BY <1>2, <1>5, <2>2 DEF MetAgain
      <3>2. Homes \subseteq Homes' /\ Homes' \in SUBSET WorkSpaces
        BY <1>5, <1>6, HomesAre
      <3>3. index \subseteq index' /\ index' \in SUBSET WorkSpaces
        BY <1>5, <1>9 DEF StateTypes
      <3> QED
        BY <3>1, <3>2, <3>3, StaysMet
    <2> QED
      BY <1>2, <2>1, <2>2 DEF MetAgain
  <1> QED
    BY <1>4, <1>11, <1>12, <1>13 DEF RepeatInv

\* A part of a request that was met is filled from the index, and nothing is to be made.
LEMMA RepeatFillPart ==
  ASSUME ConfigureInv, ConfigureInv', RepeatInv, FillPart
  PROVE  RepeatInv'
  <1> DEFINE p == Head(call.parts)
             src == {s \in index : s.dir \in p.from}
             rest == p.size - Total(Fill(src, p.size))
  <1>1. /\ call.st = "run" /\ call.todo = <<>> /\ call.parts # <<>> /\ UNCHANGED <<keys, files>>
        /\ \/ rest >= Smallest /\ Fails
           \/ /\ call' = [call EXCEPT !.got = @ \cup Fill(src, p.size), !.parts = Tail(@),
                                      !.into = p.into, !.todo = Plan(rest)]
              /\ UNCHANGED <<svc, dirs, index, met>>
    BY DEF FillPart
  <1>2. /\ call \in Calls /\ CallShape(call) /\ Progress(call) /\ InDirs /\ svc = "idle"
        /\ index \in SUBSET WorkSpaces /\ OneID(index) /\ MetAgain /\ IndexAtHome
        /\ StateTypes /\ Settled(files)
    BY <1>1 DEF ConfigureInv, StateTypes, ProcessState, RepeatInv
  <1>3. call.kind \in {"size", "path"}
    BY <1>1, <1>2 DEF CallShape
  <1>4. ASSUME Request \in met PROVE rest \in Nat /\ rest < 3 /\ Plan(rest) = <<>>
    <2> DEFINE k == Filled(call)
    <2>1. /\ DOMAIN call.asked = 1..Len(call.asked) /\ Len(call.asked) \in Nat
          /\ DOMAIN call.parts = 1..Len(call.parts) /\ Len(call.parts) \in Nat
          /\ call.parts \in Seq(Parts)
      BY <1>2, CallFields
    <2>2. p = call.parts[1] /\ 1 \in DOMAIN call.parts /\ Len(call.parts) >= 1
      BY <1>1, <2>1
    <2>3. Len(call.parts) <= Len(call.asked) /\ p = call.asked[k + 1]
      BY <1>1, <1>2, <1>3, <2>2 DEF Progress
    <2>4. k + 1 \in DOMAIN call.asked
      <3> DEFINE la == Len(call.asked)
                 lp == Len(call.parts)
      <3>1. k = la - lp
        BY DEF Filled
      <3>2. la \in Nat /\ lp \in Nat /\ lp >= 1 /\ lp <= la
        BY <2>1, <2>2, <2>3
      <3>3. k + 1 \in 1..la
        <4> HIDE DEF la, lp, k
        <4> QED
          BY <3>1, <3>2
      <3> QED
        BY <2>1, <3>3
    <2>5. /\ p.size \in Nat
          /\ EnoughIn(Within(Source(call.kind), p.from), <<>>, p.size)
      <3>1. MetBy(Request) /\ Request.kind = call.kind /\ Request.asked = call.asked
        BY <1>2, <1>4 DEF MetAgain, Request
      <3> QED
        BY <1>3, <2>3, <2>4, <3>1 DEF MetBy
    <2>6. Within(Source(call.kind), p.from) \subseteq src
      <3>1. CASE call.kind = "size"
        BY <3>1 DEF Source, Within
      <3>2. CASE call.kind = "path"
        <4>1. p.from = {p.into} /\ p.into \in ToSet(dirs)
          BY <1>2, <2>3, <2>4, <3>2 DEF CallShape, InDirs
        <4>2. \A s \in Homes : s.dir \in ToSet(dirs) => s \in index
          BY <1>2 DEF IndexAtHome
        <4> HIDE DEF p
        <4> QED
          BY <3>2, <4>1, <4>2 DEF Source, Within, src
      <3> QED
        BY <1>3, <3>1, <3>2
    <2>7. src \in SUBSET WorkSpaces /\ OneID(src)
      BY <1>2 DEF OneID
    <2> DEFINE R == Within(Source(call.kind), p.from)
               z == p.size
    <2>8. R \in SUBSET WorkSpaces
      BY <2>6, <2>7
    <2> HIDE DEF R, src, z
    <2>9. EnoughIn(src, <<>>, z)
      BY <2>5, <2>6, <2>7, <2>8, EnoughWithin DEF R, z
    <2>10. z \in Nat /\ z = p.size
      BY <2>5 DEF z
    <2>11. z - Total(Fill(src, z)) \in Nat /\ z - Total(Fill(src, z)) < 3 /\ Plan(z - Total(Fill(src, z))) = <<>>
      BY <2>7, <2>9, <2>10, FillsAll
    <2>12. rest = z - Total(Fill(src, z))
      BY <2>10
    <2> QED
      BY <2>11, <2>12
  <1>5. CASE rest >= Smallest /\ Fails
    <2>1. Request \notin met
      <3> SUFFICES ASSUME Request \in met PROVE FALSE
        OBVIOUS
      <3>1. rest \in Nat /\ rest < 3 /\ rest >= 3
        BY <1>4, <1>5, SmallestIs
      <3> HIDE DEF rest
      <3> QED
        BY <3>1
    <2> QED
      BY <1>1, <1>5, <2>1, RepeatFails
  <1>6. CASE /\ call' = [call EXCEPT !.got = @ \cup Fill(src, p.size), !.parts = Tail(@),
                                     !.into = p.into, !.todo = Plan(rest)]
             /\ UNCHANGED <<svc, dirs, index, met>>
    <2> HIDE DEF p, src, rest
    <2>1. /\ call'.kind = call.kind /\ call'.asked = call.asked /\ call'.want = call.want
          /\ call'.st = "run" /\ call'.todo = Plan(rest)
      BY <1>1, <1>2, <1>6 DEF Calls
    <2>2. Again'
      BY <1>4, <1>6, <2>1 DEF Again, Request
    <2>3. \A f \in files : Usable(f)' <=> Usable(f)
      BY <1>1 DEF Usable
    <2> QED
      BY <1>1, <1>6, <2>2, <2>3, MetKept
  <1> QED
    BY <1>1, <1>5, <1>6

\* A request that was met makes no key, and the key has no file.
LEMMA RepeatKey ==
  ASSUME ConfigureInv, RepeatInv, GenerateNewPublicKey
  PROVE  RepeatInv'
  <1>1. /\ keys' = keys + 1 /\ call' = [call EXCEPT !.key = keys + 1]
        /\ UNCHANGED <<svc, dirs, index, files, met>>
    BY DEF GenerateNewPublicKey
  <1>2. /\ call \in Calls /\ files \in SUBSET SpaceFiles /\ keys \in Nat
        /\ \A f \in files : f.ord <= keys
    BY ConfigureAssumption DEF ConfigureInv, StateTypes, KeysFirst
  <1>3. \A f \in files : f.ord \in Nat
    BY <1>2 DEF SpaceFiles
  <1>4. \A f \in files : Usable(f)' <=> Usable(f)
    <2>1. \A f \in files : f.ord \in 1..keys <=> f.ord \in 1..keys'
      BY <1>1, <1>2, <1>3
    <2> QED
      BY <2>1 DEF Usable
  <1>5. /\ call'.kind = call.kind /\ call'.asked = call.asked /\ call'.want = call.want
        /\ call'.st = call.st /\ call'.todo = call.todo
    BY <1>1, <1>2 DEF Calls
  <1>6. Again'
    BY <1>1, <1>5 DEF RepeatInv, Again, Request
  <1> QED
    BY <1>1, <1>4, <1>6, MetKept

\* A space that is made is at home where it is made.
LEMMA RepeatNewWorkSpace ==
  ASSUME ConfigureInv, ConfigureInv', RepeatInv, NewWorkSpace
  PROVE  RepeatInv'
  <1>s. PICK s : s = [ord |-> call.key, bl |-> Head(call.todo), dir |-> call.into]
    OBVIOUS
  <1>f. PICK f : f = [ord |-> call.key, bl |-> Head(call.todo), dir |-> call.into,
                      name |-> "new", whole |-> TRUE]
    OBVIOUS
  <1> DEFINE L == {f}
  <1>1. /\ call.st = "run" /\ call.key # 0 /\ files' = files \cup L /\ index' = index \cup {s}
        /\ call' = [call EXCEPT !.key = 0, !.todo = Tail(call.todo), !.got = call.got \cup {s}]
        /\ UNCHANGED <<svc, dirs, met, keys>>
    BY <1>s, <1>f DEF NewWorkSpace
  <1>2. /\ call \in Calls /\ svc = "idle" /\ call.key <= keys /\ call.todo # <<>>
        /\ StateTypes' /\ IndexAtHome /\ MetAgain /\ Settled(files) /\ Again /\ keys \in Nat
        /\ \A g \in files : g.ord # call.key
    BY <1>1, ConfigureAssumption DEF ConfigureInv, StateTypes, ProcessState, KeysFirst, RepeatInv
  <1>3. call.key \in Nat
    BY <1>2, CallFields
  <1>4. /\ Space(f) = s /\ f.ord = call.key /\ f.name = "new" /\ f.whole = TRUE
        /\ ID(s) = ID(f)
    BY <1>s, <1>f DEF Space, ID
  <1>5. call'.kind = call.kind /\ call'.asked = call.asked /\ call'.want = call.want
    BY <1>1, <1>2 DEF Calls
  <1>6. (\A g \in L : \A h \in files : g.ord # h.ord) /\ (\A g, h \in L : g.dir = h.dir)
    BY <1>2, <1>4
  <1>7. \A g : Usable(g)' <=> Usable(g)
    BY <1>1 DEF Usable
  <1>8. Usable(f)
    BY <1>1, <1>2, <1>3, <1>4 DEF Usable
  <1> HIDE DEF L
  <1>9. /\ Homes \subseteq Homes' /\ \A t \in Homes' : t \in Homes \/ \E g \in L : t = Space(g)
    BY <1>1, <1>6, <1>7, HomesGrow
  <1>10. Settled(files)'
    BY <1>1, <1>2, <1>6, SettledMore
  <1>11. s \in Homes'
    <2>1. f \in files' /\ \A g \in files' : ID(g) = ID(f) => g = f
      BY <1>1, <1>6 DEF L, ID
    <2>2. AtHome(f)'
      <3>1. Usable(f)'
        BY <1>7, <1>8
      <3>2. f.dir \in ToSet(CfgDirs) => Place(CfgDirs, f.dir) <= Place(CfgDirs, f.dir)
        <4>1. CfgDirs \in Seq(Dirs)
          BY ConfigureAssumption
        <4>2. f.dir \in ToSet(CfgDirs) => Place(CfgDirs, f.dir) \in Nat
          BY <4>1, PlaceIn
        <4> QED
          BY <4>2
      <3> QED
        BY <2>1, <3>1, <3>2 DEF AtHome
    <2> QED
      BY <1>4, <2>1, <2>2 DEF Homes
  <1>12. IndexAtHome'
    <2>1. index' \subseteq Homes'
      BY <1>1, <1>2, <1>9, <1>11 DEF IndexAtHome
    <2>2. \A t \in Homes' : t \in Homes \/ t = s
      BY <1>4, <1>9 DEF L
    <2> QED
      BY <1>1, <1>2, <2>1, <2>2 DEF IndexAtHome
  <1>13. Request \notin met /\ Request' = Request
    BY <1>2, <1>5 DEF Again, Request
  <1>14. Again'
    BY <1>1, <1>13 DEF Again
  <1>15. MetAgain'
    <2>1. AllUpgraded'
      BY <1>1, <1>2, <1>4 DEF MetAgain, AllUpgraded, L
    <2>2. Homes' \in SUBSET WorkSpaces /\ index' \in SUBSET WorkSpaces /\ index \subseteq index'
      BY <1>1, <1>2, <1>10, HomesHoldNext DEF StateTypes
    <2>3. ASSUME NEW r \in met' PROVE MetBy(r)'
      <3>1. MetBy(r)
        BY <1>1, <1>2, <2>3 DEF MetAgain
      <3> QED
        BY <1>9, <2>2, <3>1, StaysMet
    <2> QED
      BY <1>1, <1>2, <2>1, <2>3 DEF MetAgain
  <1> QED
    BY <1>10, <1>12, <1>14, <1>15 DEF RepeatInv

\* A request that is met: there is something to use, also when it was met before.
LEMMA RepeatApply ==
  ASSUME ConfigureInv, ConfigureInv', RepeatInv, Apply
  PROVE  RepeatInv'
  <1>1. /\ call.st = "run" /\ call.todo = <<>> /\ call.parts = <<>> /\ UNCHANGED <<keys, files>>
        /\ \/ call.got = {} /\ Fails
           \/ /\ call.got # {} /\ call' = [call EXCEPT !.st = "ok"] /\ met' = met \cup {Request}
              /\ UNCHANGED <<svc, dirs, index>>
    BY DEF Apply
  <1>2. /\ call \in Calls /\ CallShape(call) /\ Progress(call) /\ Amounts(call) /\ Refillable(call, index)
        /\ svc = "idle" /\ MetAgain /\ IndexAtHome /\ index \in SUBSET WorkSpaces
        /\ StateTypes /\ Settled(files)
    BY <1>1 DEF ConfigureInv, StateTypes, ProcessState, RepeatInv
  <1>3. Request.kind = call.kind /\ Request.asked = call.asked /\ Request.want = call.want
    BY DEF Request
  <1>4. call.kind \in {"list", "size", "path"}
    BY <1>1, <1>2 DEF CallShape
  <1>5. /\ DOMAIN call.asked = 1..Len(call.asked) /\ Len(call.asked) \in Nat
        /\ \A i \in DOMAIN call.asked : call.asked[i].size \in Nat
    BY <1>2, CallFields
  <1>6. \A i \in DOMAIN call.asked : i <= Filled(call)
    <2>1. Filled(call) = Len(call.asked) - 0
      BY <1>1 DEF Filled
    <2> QED
      BY <1>5, <2>1
  <1>7. \A D : MakeIn(call, D) = <<>>
    BY <1>1 DEF MakeIn
  <1>8. CASE call.got = {} /\ Fails
    <2>1. call.kind = "list" \/ Request \notin met
      <3> SUFFICES ASSUME call.kind # "list", Request \in met PROVE FALSE
        OBVIOUS
      <3>1. MetBy(Request)
        BY <1>2 DEF MetAgain
      <3>2. PICK i \in DOMAIN call.asked : call.asked[i].size >= 3
        BY <1>3, <3>1 DEF MetBy
      <3> DEFINE E == call.asked[i].from
                 z == call.asked[i].size
      <3>3. z < Worth(Within(call.got, E)) + WorthOf(MakeIn(call, E)) + 3
        BY <1>1, <1>2, <1>6 DEF Amounts
      <3>4. WorthOf(MakeIn(call, E)) = 0
        BY <1>7, WorthNone
      <3>5. Worth(Within(call.got, E)) = 0
        <4>1. Within(call.got, E) = {}
          BY <1>8 DEF Within
        <4>2. \A bl : CountOf({}, bl) = 0
          <5>1. \A bl : {t \in {} : t.bl = bl} = {}
            OBVIOUS
          <5> QED
            BY <5>1, FS_EmptySet DEF CountOf
        <4>3. CountOf({}, 28) = 0 /\ CountOf({}, 26) = 0 /\ CountOf({}, 24) = 0
          BY <4>2
        <4>4. Worth({}) = 0
          BY <4>3 DEF Worth
        <4> QED
          BY <4>1, <4>4
      <3>6. z \in Nat /\ z >= 3
        BY <1>5, <3>2
      <3> HIDE DEF E, z
      <3> QED
        BY <3>3, <3>4, <3>5, <3>6
    <2> QED
      BY <1>1, <1>8, <2>1, RepeatFails
  <1>9. CASE /\ call.got # {} /\ call' = [call EXCEPT !.st = "ok"] /\ met' = met \cup {Request}
             /\ UNCHANGED <<svc, dirs, index>>
    <2>1. \A f \in files : Usable(f)' <=> Usable(f)
      BY <1>1 DEF Usable
    <2>2. /\ Settled(files)' /\ IndexAtHome' /\ (AllUpgraded' <=> AllUpgraded)
          /\ \A r : MetBy(r)' <=> MetBy(r)
      BY <1>1, <1>9, <2>1, HomesKept
    <2>3. call'.todo = <<>> /\ call'.st = "ok"
      BY <1>1, <1>2, <1>9 DEF Calls
    <2>4. Again'
      BY <2>3 DEF Again
    <2>5. Homes \in SUBSET WorkSpaces /\ index \subseteq Homes
      BY <1>2, HomesAre DEF IndexAtHome
    <2>6. ASSUME call.kind = "list"
          PROVE  /\ call.want \in Wants
                 /\ \A bl \in DOMAIN call.want :
                      CountOf(Within(Homes, ToSet(CfgDirs)), bl) >= call.want[bl]
      <3>1. call.want \in Wants
        BY <1>2, <2>6 DEF CallShape
      <3> SUFFICES ASSUME NEW bl \in DOMAIN call.want
                   PROVE  CountOf(Within(Homes, ToSet(CfgDirs)), bl) >= call.want[bl]
        BY <3>1
      <3> DEFINE S == Within(index, ToSet(CfgDirs))
                 R == Within(Homes, ToSet(CfgDirs))
                 w == call.want[bl]
      <3>2. CountOf(S, bl) + CountIn(<<>>, bl) >= w
        BY <1>1, <1>2, <2>6 DEF Refillable
      <3>3. w \in Nat
        BY <3>1, ConfigureAssumption
      <3>4. S \in SUBSET WorkSpaces /\ R \in SUBSET WorkSpaces /\ S \subseteq R
        BY <1>2, <2>5 DEF Within
      <3> HIDE DEF S, R, w
      <3>5. CountOf(S, bl) <= CountOf(R, bl) /\ CountOf(S, bl) \in Nat /\ CountOf(R, bl) \in Nat
        BY <3>4, CountPart, PartFinite
      <3>6. CountIn(<<>>, bl) = 0
        BY CountNone
      <3>7. CountOf(R, bl) >= w
        BY <3>2, <3>3, <3>5, <3>6
      <3> QED
        BY <3>7 DEF R, w
    <2>7. ASSUME call.kind # "list"
          PROVE  /\ \E i \in DOMAIN call.asked : call.asked[i].size >= 3
                 /\ \A i \in DOMAIN call.asked : /\ call.asked[i].size \in Nat
                      /\ EnoughIn(Within(Source(call.kind), call.asked[i].from), <<>>, call.asked[i].size)
      <3>1. \E i \in DOMAIN call.asked : call.asked[i].size >= 3
        BY <1>1, <1>2, <1>9, <2>7 DEF Refillable
      <3>2. ASSUME NEW i \in DOMAIN call.asked
            PROVE  EnoughIn(Within(Source(call.kind), call.asked[i].from), <<>>, call.asked[i].size)
        <4> DEFINE S == Within(index, call.asked[i].from)
                   R == Within(Source(call.kind), call.asked[i].from)
                   z == call.asked[i].size
        <4>1. EnoughIn(S, MakeIn(call, call.asked[i].from), z)
          BY <1>1, <1>2, <1>6 DEF Refillable
        <4>2. EnoughIn(S, <<>>, z) /\ z \in Nat
          BY <1>5, <1>7, <4>1
        <4>3. S \in SUBSET WorkSpaces /\ R \in SUBSET WorkSpaces /\ S \subseteq R
          BY <1>2, <2>5 DEF Within, Source
        <4> HIDE DEF S, R, z
        <4>4. EnoughIn(R, <<>>, z)
          BY <4>2, <4>3, EnoughWithin
        <4> QED
          BY <4>4 DEF R, z
      <3> QED
        BY <1>5, <3>1, <3>2
    <2>8. MetBy(Request)
      BY <1>3, <1>4, <2>6, <2>7 DEF MetBy
    <2>9. MetAgain'
      BY <1>2, <1>9, <2>2, <2>8 DEF MetAgain
    <2> QED
      BY <2>2, <2>4, <2>9 DEF RepeatInv
  <1> QED
    BY <1>1, <1>8, <1>9

\* The rest of the steps.
LEMMA RepeatRest ==
  ASSUME ConfigureInv, ConfigureInv', RepeatInv,
         GenerateFails \/ Crash \/ Start \/ Stop \/ (\E s \in list : Plot(s)) \/ UNCHANGED keeperVars
  PROVE  RepeatInv'
  <1>1. CASE GenerateFails
    <2>1. call.st = "run" /\ call.todo # <<>> /\ Fails /\ UNCHANGED <<keys, files>>
      BY <1>1 DEF GenerateFails
    <2>2. Request \notin met
      BY <2>1 DEF RepeatInv, Again
    <2> QED
      BY <2>1, <2>2, RepeatFails
  <1>2. CASE Crash
    <2>1. Forget /\ keys' = keys
      BY <1>2 DEF Crash
    <2>2. PICK left : /\ files' = files \cup left
                      /\ left \in IF call.key = 0 THEN {{}} ELSE {{}} \cup
                           {{[ord |-> call.key, bl |-> Head(call.todo), dir |-> call.into,
                              name |-> "new", whole |-> w]} : w \in BOOLEAN}
      BY <1>2 DEF Crash
    <2>3. \A f \in left : f.ord = call.key /\ call.key # 0 /\ f.dir = call.into /\ f.name = "new"
      <3>1. CASE call.key = 0
        BY <2>2, <3>1
      <3>2. CASE call.key # 0
        BY <2>2, <3>2
      <3> QED
        BY <3>1, <3>2
    <2>4. call.key # 0 => \A f \in files : f.ord # call.key
      BY DEF ConfigureInv, KeysFirst
    <2> QED
      BY <2>1, <2>2, <2>3, <2>4, RepeatForget
  <1>3. CASE Start \/ Stop \/ (\E s \in list : Plot(s)) \/ UNCHANGED keeperVars
    <2>1. UNCHANGED <<dirs, index, call, keys, files, met>> /\ (svc' = "down" <=> svc = "down")
      BY <1>3 DEF Start, Stop, Plot, keeperVars
    <2>2. Again'
      BY <2>1 DEF RepeatInv, Again, Request
    <2>3. \A f \in files : Usable(f)' <=> Usable(f)
      BY <2>1 DEF Usable
    <2> QED
      BY <2>1, <2>2, <2>3, MetKept
  <1> QED
    BY <1>1, <1>2, <1>3

\* Every step keeps what is said of requests that were met.
LEMMA NextRepeatInv ==
  ConfigureInv /\ ConfigureInv' /\ RepeatInv /\ [ConfigureNext]_configureVars => RepeatInv'
  <1> SUFFICES ASSUME ConfigureInv, ConfigureInv', RepeatInv, [ConfigureNext]_configureVars
               PROVE  RepeatInv'
    OBVIOUS
  <1>1. CASE Boot \/ BootByFlags
    BY <1>1, RepeatBoot
  <1>2. CASE \E want \in Wants : BootByBitLength(want)
    BY <1>2, RepeatBootByBitLength
  <1>3. CASE \E size \in SizeRequests : ConfigureBySize(size)
    <2>1. PICK size \in SizeRequests : ConfigureBySize(size)
      BY <1>3
    <2> DEFINE parts == << [from |-> Dirs, into |-> dirs[1], size |-> size] >>
    <2>2. \/ Begin("size", parts) /\ UNCHANGED <<dirs, index>>
          \/ TurnAway("size", parts)
      BY <2>1, HandlersAre
    <2> HIDE DEF parts
    <2>3. CASE Begin("size", parts) /\ UNCHANGED <<dirs, index>>
      BY <2>3, RepeatBySize
    <2>4. CASE TurnAway("size", parts)
      BY <2>4, RepeatRest DEF TurnAway
    <2> QED
      BY <2>2, <2>3, <2>4
  <1>4. CASE \E request \in PathRequests : ConfigureByPath(request)
    <2>1. PICK request \in PathRequests : ConfigureByPath(request)
      BY <1>4
    <2>2. /\ Served
          /\ \/ /\ ~Busy /\ Begin("path", PartsOf(request)) /\ dirs' = DirsOf(request)
                /\ index' = Indexed(index, files, DirsOf(request))
             \/ TurnAway("path", PartsOf(request))
      BY <2>1, HandlersAre
    <2>3. CASE /\ ~Busy /\ Begin("path", PartsOf(request)) /\ dirs' = DirsOf(request)
               /\ index' = Indexed(index, files, DirsOf(request))
      BY <2>2, <2>3, AtRest, RepeatByPath
    <2>4. CASE TurnAway("path", PartsOf(request))
      BY <2>4, RepeatRest DEF TurnAway
    <2> QED
      BY <2>2, <2>3, <2>4
  <1>5. CASE FillPart
    BY <1>5, RepeatFillPart
  <1>6. CASE GenerateNewPublicKey
    BY <1>6, RepeatKey
  <1>7. CASE NewWorkSpace
    BY <1>7, RepeatNewWorkSpace
  <1>8. CASE Apply
    BY <1>8, RepeatApply
  <1>9. CASE GenerateFails \/ Crash \/ Start \/ Stop \/ (\E s \in list : Plot(s)) \/ UNCHANGED keeperVars
    BY <1>9, RepeatRest
  <1> QED
    BY <1>1, <1>2, <1>3, <1>4, <1>5, <1>6, <1>7, <1>8, <1>9 DEF ConfigureNext, configureVars

-----------------------------------------------------------------------------
(* Requests that are turned away *)

Fits(asked) == \A i \in DOMAIN asked : asked[i].size <= Disk[asked[i].into]

\* what is plotted is at home
PlottedHome == plotted \subseteq Homes /\ (plotted # {} => AllUpgraded)

\* of a directory the index knows, it knows all that is at home there
IndexWhole == svc # "down" => \A s \in Homes, t \in index : s.dir = t.dir => s \in index

\* what was asked by directory was no more than the disk
CallFits == call.kind = "path" => Fits(call.asked)
MetFits == \A r \in met : r.kind = "path" => Fits(r.asked)

\* new spaces of a size go to a directory the keeper has
SizeInto == call.st = "run" /\ call.kind = "size" =>
                \A i \in DOMAIN call.asked : call.asked[i].into \in ToSet(dirs)

RoomInv == PlottedHome /\ IndexWhole /\ CallFits /\ MetFits /\ SizeInto

\* a request that was met is turned away only from a keeper at work, or for its size
Turned == \A r \in refused : Busy \/ r.kind = "size"

\* The room that IsCapacityAvailable counts is the whole disk: what is plotted there is known.
LEMMA RoomOf ==
  ASSUME ConfigureInv, RepeatInv, RoomInv, svc # "down", NEW d \in Dirs
  PROVE  Free(d) + PlottedIn(d) = Disk[d] /\ Disk[d] \in Nat
  <1> DEFINE P == {s \in plotted : s.dir = d}
             own == {s \in index : s.dir = d}
             there == {Space(f) : f \in {g \in files : g.dir = d}}
             X == IF own # {} THEN own ELSE there
  <1>1. StateTypes /\ Settled(files) /\ plotted \subseteq Homes
    BY DEF ConfigureInv, RepeatInv, RoomInv, PlottedHome
  <1>2. Homes \in SUBSET WorkSpaces
    BY <1>1, HomesAre
  <1>3. P \in SUBSET WorkSpaces
    BY <1>1, <1>2
  <1>4. ASSUME own # {} PROVE plotted \cap X = P
    <2>1. PICK t \in index : t.dir = d
      BY <1>4
    <2>2. \A s \in P : s \in Homes /\ s.dir = t.dir
      BY <1>1, <2>1
    <2>3. \A s \in P : s \in index
      BY <2>1, <2>2 DEF RoomInv, IndexWhole
    <2>4. plotted \cap own = P
      BY <2>3
    <2>5. X = own
      BY <1>4
    <2> HIDE DEF X, P, own
    <2> QED
      BY <2>4, <2>5
  <1>5. ASSUME own = {} PROVE plotted \cap X = P
    <2>1. \A s \in P : s \in there
      <3> SUFFICES ASSUME NEW s \in P PROVE s \in there
        OBVIOUS
      <3>1. PICK f \in files : s = Space(f)
        BY <1>1 DEF Homes
      <3>2. s.dir = f.dir /\ s.dir = d
        BY <3>1 DEF Space
      <3> QED
        BY <3>1, <3>2
    <2>2. \A s \in there : s.dir = d
      BY DEF Space
    <2>3. plotted \cap there = P
      <3> HIDE DEF there
      <3> QED
        BY <2>1, <2>2
    <2>4. X = there
      BY <1>5
    <2> HIDE DEF X, P, there
    <2> QED
      BY <2>3, <2>4
  <1>6. plotted \cap X = P
    <2> HIDE DEF X, P, own
    <2> QED
      BY <1>4, <1>5
  <1>7. PlottedIn(d) = Total(plotted \cap X)
    BY DEF PlottedIn
  <1>8. Free(d) = Disk[d] - Total(P)
    BY DEF Free
  <1>9. Disk[d] \in Nat
    BY ConfigureAssumption
  <1> HIDE DEF P, X
  <1>10. Total(P) \in Nat
    BY <1>3, TotalNat
  <1>11. PlottedIn(d) = Total(P)
    BY <1>6, <1>7
  <1>12. \A m, n \in Nat : (m - n) + n = m
    OBVIOUS
  <1>13. (Disk[d] - Total(P)) + Total(P) = Disk[d]
    BY <1>9, <1>10, <1>12
  <1> QED
    BY <1>8, <1>9, <1>11, <1>13

\* So the check by directory is the one of the disk.
LEMMA CheckIsDisk ==
  ASSUME ConfigureInv, RepeatInv, RoomInv, svc # "down", NEW request \in PathRequests,
         NEW i \in DOMAIN request
  PROVE  CheckMinerPathCapacity(request[i].dir, request[i].size)
           <=> request[i].size <= Disk[request[i].dir]
  <1>1. request[i].dir \in Dirs /\ request[i].size \in Nat
    <2>1. request \in Seq([dir : Dirs, size : Nat])
      BY ConfigureAssumption
    <2>2. request[i] \in [dir : Dirs, size : Nat]
      <3> DEFINE R == [dir : Dirs, size : Nat]
      <3> HIDE DEF R
      <3>1. request \in Seq(R)
        BY <2>1 DEF R
      <3>2. request[i] \in R
        BY <3>1
      <3> QED
        BY <3>2 DEF R
    <2> QED
      BY <2>2
  <1> DEFINE d == request[i].dir
  <1>2. Free(d) + PlottedIn(d) = Disk[d] /\ Disk[d] \in Nat
    BY <1>1, RoomOf
  <1> HIDE DEF d
  <1>3. CheckMinerPathCapacity(d, request[i].size) <=> Disk[d] >= request[i].size
    BY <1>2 DEF CheckMinerPathCapacity
  <1> QED
    BY <1>1, <1>2, <1>3 DEF d

\* The parts of a request fit as the request does.
LEMMA PartsFit ==
  ASSUME NEW request
  PROVE  Fits(PartsOf(request)) <=> \A i \in DOMAIN request : request[i].size <= Disk[request[i].dir]
  BY DEF Fits, PartsOf

\* A step that leaves the files and the index.
LEMMA RoomKept ==
  ASSUME RepeatInv, RoomInv, files' = files, index' = index, svc' = "down" <=> svc = "down",
         \A f \in files : Usable(f)' <=> Usable(f),
         plotted' \subseteq plotted \cup index, svc = "down" => plotted' = plotted,
         CallFits', MetFits', SizeInto'
  PROVE  RoomInv'
  <1>1. Homes' = Homes
    BY HomesSame
  <1>2. AllUpgraded' <=> AllUpgraded
    BY DEF AllUpgraded
  <1>3. IndexAtHome /\ MetAgain /\ PlottedHome /\ IndexWhole
    BY DEF RepeatInv, RoomInv
  <1>4. PlottedHome'
    <2>1. CASE svc = "down"
      BY <1>1, <1>2, <1>3, <2>1 DEF PlottedHome
    <2>2. CASE svc # "down"
      BY <1>1, <1>2, <1>3, <2>2 DEF PlottedHome, IndexAtHome, MetAgain
    <2> QED
      BY <2>1, <2>2
  <1>5. IndexWhole'
    BY <1>1, <1>3 DEF IndexWhole
  <1> QED
    BY <1>4, <1>5 DEF RoomInv

\* A process that ends.
LEMMA RoomForget ==
  ASSUME RoomInv, Forget, NEW L, files' = files \cup L, keys' = keys, plotted' = plotted,
         \A f \in L : \A g \in files : f.ord # g.ord, \A f \in L : f.name = "new"
  PROVE  RoomInv'
  <1>1. svc' = "down" /\ call' = NoCall /\ met' \subseteq met
    BY DEF Forget
  <1>2. Homes \subseteq Homes'
    <2>1. \A f \in files : Usable(f)' <=> Usable(f)
      BY DEF Usable
    <2> QED
      BY <2>1, HomesGrow
  <1>3. PlottedHome'
    <2>1. AllUpgraded => AllUpgraded'
      BY DEF AllUpgraded
    <2> QED
      BY <1>2, <2>1 DEF RoomInv, PlottedHome
  <1>4. IndexWhole'
    BY <1>1 DEF IndexWhole
  <1>5. MetFits'
    BY <1>1 DEF RoomInv, MetFits
  <1>6. CallFits' /\ SizeInto'
    BY <1>1, NoCallIs DEF CallFits, SizeInto
  <1> QED
    BY <1>3, <1>4, <1>5, <1>6 DEF RoomInv

\* A call that fails.
LEMMA RoomFails ==
  ASSUME ConfigureInv, RepeatInv, RoomInv, Fails, UNCHANGED <<keys, files, plotted>>
  PROVE  RoomInv'
  <1>1. CASE call.kind = "list"
    <2> DEFINE e == {}
    <2>1. Forget /\ files' = files \cup e /\ \A f : f \notin e
      BY <1>1 DEF Fails
    <2> HIDE DEF e
    <2> QED
      BY <2>1, RoomForget
  <1>2. CASE call.kind # "list"
    <2>1. /\ call' = [call EXCEPT !.st = "failed", !.todo = <<>>, !.parts = <<>>, !.key = 0]
          /\ UNCHANGED <<svc, dirs, index, met>>
      BY <1>2 DEF Fails
    <2>2. call \in Calls
      BY DEF ConfigureInv, StateTypes
    <2>3. call'.kind = call.kind /\ call'.asked = call.asked /\ call'.st = "failed"
      BY <2>1, <2>2 DEF Calls
    <2>4. CallFits' /\ MetFits' /\ SizeInto'
      BY <2>1, <2>3 DEF RoomInv, CallFits, MetFits, SizeInto, Fits
    <2>5. \A f \in files : Usable(f)' <=> Usable(f)
      BY DEF Usable
    <2> QED
      BY <2>1, <2>4, <2>5, RoomKept
  <1> QED
    BY <1>1, <1>2

\* Starts.
LEMMA RoomStarted ==
  ASSUME ConfigureInv, ConfigureInv', RepeatInv, RoomInv, svc = "down", Started, UNCHANGED <<met, plotted>>,
         call'.kind \notin {"path", "size"}
  PROVE  RoomInv'
  <1>1. StateTypes'
    BY DEF ConfigureInv
  <1>2. AllUpgraded' /\ \A s : s \in index' <=> s \in Homes' /\ s.dir \in ToSet(CfgDirs)
    BY <1>1, StartedHomes
  <1>3. plotted # {} => Homes' = Homes
    <2> SUFFICES ASSUME plotted # {} PROVE Homes' = Homes
      OBVIOUS
    <2>1. files \in SUBSET SpaceFiles /\ AllUpgraded
      BY DEF ConfigureInv, StateTypes, RoomInv, PlottedHome
    <2>2. \A f \in files : ~(f.name = "old" /\ f.dir \in ToSet(CfgDirs) /\ f.ord \in 1..keys)
      BY <2>1 DEF AllUpgraded
    <2>3. keys \in Nat
      BY ConfigureAssumption DEF ConfigureInv, StateTypes
    <2>4. Upgraded(files, CfgDirs) = files
      BY <2>1, <2>2, <2>3, UpgradedIs
    <2>5. files' = files /\ keys' = keys
      BY <2>4 DEF Started
    <2>6. \A f \in files : Usable(f)' <=> Usable(f)
      BY <2>5 DEF Usable
    <2> QED
      BY <2>5, <2>6, HomesSame
  <1>4. PlottedHome'
    BY <1>2, <1>3 DEF RoomInv, PlottedHome
  <1>5. IndexWhole'
    BY <1>2 DEF IndexWhole
  <1>6. MetFits' /\ CallFits' /\ SizeInto'
    BY DEF RoomInv, MetFits, CallFits, SizeInto
  <1> QED
    BY <1>4, <1>5, <1>6 DEF RoomInv

\* A start that ends at once.
LEMMA RoomEnded ==
  ASSUME ConfigureInv, RoomInv, svc = "down", files' = Upgraded(files, CfgDirs),
         UNCHANGED <<svc, dirs, index, call, keys, met, plotted>>
  PROVE  RoomInv'
  <1>1. MetFits' /\ CallFits' /\ SizeInto' /\ IndexWhole'
    BY DEF RoomInv, MetFits, CallFits, SizeInto, IndexWhole
  <1>2. PlottedHome'
    <2>1. CASE plotted = {}
      BY <2>1 DEF PlottedHome
    <2>2. CASE plotted # {}
      <3>1. files \in SUBSET SpaceFiles /\ AllUpgraded /\ keys \in Nat /\ plotted \subseteq Homes
        BY <2>2, ConfigureAssumption DEF ConfigureInv, StateTypes, RoomInv, PlottedHome
      <3>2. \A f \in files : ~(f.name = "old" /\ f.dir \in ToSet(CfgDirs) /\ f.ord \in 1..keys)
        BY <3>1 DEF AllUpgraded
      <3>3. files' = files
        BY <3>1, <3>2, UpgradedIs
      <3>4. \A f \in files : Usable(f)' <=> Usable(f)
        BY DEF Usable
      <3>5. Homes' = Homes
        BY <3>3, <3>4, HomesSame
      <3> QED
        BY <3>1, <3>3, <3>5 DEF PlottedHome, AllUpgraded
    <2> QED
      BY <2>1, <2>2
  <1> QED
    BY <1>1, <1>2 DEF RoomInv

\* A call by a size begins.
LEMMA RoomBySize ==
  ASSUME ConfigureInv, RepeatInv, RoomInv, NEW size, svc = "idle", UNCHANGED <<dirs, index>>,
         Begin("size", << [from |-> Dirs, into |-> dirs[1], size |-> size] >>)
  PROVE  RoomInv'
  <1> DEFINE p == [from |-> Dirs, into |-> dirs[1], size |-> size]
             parts == <<p>>
  <1>1. /\ call' = [NoCall EXCEPT !.st = "run", !.kind = "size", !.asked = parts, !.parts = parts]
        /\ UNCHANGED <<svc, files, keys, plotted, met>>
    BY DEF Begin
  <1>2. dirs \in Seq(Dirs) /\ dirs # <<>>
    BY DEF ConfigureInv, StateTypes, ProcessState
  <1>3. dirs[1] \in ToSet(dirs)
    BY <1>2 DEF ToSet
  <1>4. p.into = dirs[1]
    OBVIOUS
  <1> HIDE DEF p
  <1>5. \A i \in DOMAIN parts : parts[i].into \in ToSet(dirs)
    BY <1>3, <1>4
  <1> HIDE DEF parts
  <1>6. call'.asked = parts /\ call'.kind = "size"
    BY <1>1 DEF NoCall
  <1>7. SizeInto' /\ CallFits'
    BY <1>5, <1>6 DEF SizeInto, CallFits
  <1>8. MetFits'
    BY <1>1 DEF RoomInv, MetFits
  <1>9. \A f \in files : Usable(f)' <=> Usable(f)
    BY <1>1 DEF Usable
  <1> QED
    BY <1>1, <1>7, <1>8, <1>9, RoomKept

\* A call by directories begins: they fit, and what is new in the index is of these directories,
\* of which all is known.
LEMMA RoomByPath ==
  ASSUME ConfigureInv, RepeatInv, RepeatInv', RoomInv, NEW request \in PathRequests, svc = "idle",
         Begin("path", PartsOf(request)), dirs' = DirsOf(request),
         index' = Indexed(index, files, DirsOf(request)),
         \A i \in DOMAIN request : CheckMinerPathCapacity(request[i].dir, request[i].size)
  PROVE  RoomInv'
  <1>1. /\ call' = [NoCall EXCEPT !.st = "run", !.kind = "path", !.asked = PartsOf(request),
                                  !.parts = PartsOf(request)]
        /\ UNCHANGED <<svc, files, keys, plotted, met>>
    BY DEF Begin
  <1>2. call'.asked = PartsOf(request) /\ call'.kind = "path"
    BY <1>1 DEF NoCall
  <1>3. \A i \in DOMAIN request : request[i].size <= Disk[request[i].dir]
    BY CheckIsDisk
  <1>4. CallFits' /\ SizeInto'
    BY <1>2, <1>3, PartsFit DEF CallFits, SizeInto, Fits
  <1>5. MetFits'
    BY <1>1 DEF RoomInv, MetFits
  <1>6. Homes' = Homes
    <2>1. \A f \in files : Usable(f)' <=> Usable(f)
      BY <1>1 DEF Usable
    <2> QED
      BY <1>1, <2>1, HomesSame
  <1>7. PlottedHome'
    BY <1>1, <1>6 DEF RoomInv, PlottedHome, AllUpgraded
  <1>8. IndexWhole'
    <2> SUFFICES ASSUME NEW s \in Homes', NEW t \in index', s.dir = t.dir PROVE s \in index'
      BY DEF IndexWhole
    <2>1. \A u \in index : u \in index'
      BY IndexedIs
    <2>2. CASE t \in index
      BY <1>6, <2>1, <2>2 DEF RoomInv, IndexWhole
    <2>3. CASE t \notin index
      <3>1. PICK f \in files : FirstOf(files, DirsOf(request), f) /\ t = Space(f)
        BY <2>3, IndexedIs
      <3>2. t.dir \in ToSet(dirs')
        BY <3>1 DEF FirstOf, Space
      <3> QED
        BY <1>1, <3>2 DEF RepeatInv, IndexAtHome
    <2> QED
      BY <2>2, <2>3
  <1> QED
    BY <1>4, <1>5, <1>7, <1>8 DEF RoomInv

\* A part is filled.
LEMMA RoomFillPart ==
  ASSUME ConfigureInv, RepeatInv, RoomInv, FillPart
  PROVE  RoomInv'
  <1>1. UNCHANGED <<keys, files, plotted>>
    BY DEF FillPart
  <1>2. CASE Fails
    BY <1>1, <1>2, RoomFails
  <1>3. CASE ~Fails
    <2>1. /\ call'.kind = call.kind /\ call'.asked = call.asked /\ call'.st = call.st
          /\ UNCHANGED <<svc, dirs, index, met>>
      <3> DEFINE p == Head(call.parts)
                 got == Fill({s \in index : s.dir \in p.from}, p.size)
                 rest == p.size - Total(got)
      <3>1. IF rest >= Smallest /\ ~HasRoom(p.into, rest) THEN Fails
            ELSE /\ call' = [call EXCEPT !.got = call.got \cup got, !.parts = Tail(call.parts),
                                         !.into = p.into, !.todo = Plan(rest)]
                 /\ UNCHANGED <<svc, dirs, index, list, configured, met>>
        BY DEF FillPart
      <3> HIDE DEF p, got, rest
      <3>2. ~(rest >= Smallest /\ ~HasRoom(p.into, rest))
        BY <1>3, <3>1
      <3>3. /\ call' = [call EXCEPT !.got = call.got \cup got, !.parts = Tail(call.parts),
                                    !.into = p.into, !.todo = Plan(rest)]
            /\ UNCHANGED <<svc, dirs, index, list, configured, met>>
        BY <3>1, <3>2
      <3>5. PICK g : g = call.got \cup got
        OBVIOUS
      <3>6. PICK o : o = Plan(rest)
        OBVIOUS
      <3>7. call' = [call EXCEPT !.got = g, !.parts = Tail(call.parts), !.into = p.into, !.todo = o]
        BY <3>3, <3>5, <3>6
      <3>8. call \in Calls
        BY DEF ConfigureInv, StateTypes
      <3>9. call'.kind = call.kind /\ call'.asked = call.asked /\ call'.st = call.st
        BY <3>7, <3>8 DEF Calls
      <3> QED
        BY <3>3, <3>9
    <2>4. CallFits' /\ MetFits' /\ SizeInto'
      BY <2>1 DEF RoomInv, CallFits, MetFits, SizeInto, Fits
    <2>5. \A f \in files : Usable(f)' <=> Usable(f)
      BY <1>1 DEF Usable
    <2> QED
      BY <1>1, <2>1, <2>4, <2>5, RoomKept
  <1> QED
    BY <1>2, <1>3

\* A key is made.
LEMMA RoomKey ==
  ASSUME ConfigureInv, RepeatInv, RoomInv, GenerateNewPublicKey
  PROVE  RoomInv'
  <1>1. /\ keys' = keys + 1 /\ call' = [call EXCEPT !.key = keys + 1]
        /\ UNCHANGED <<svc, dirs, index, files, met, plotted>>
    BY DEF GenerateNewPublicKey
  <1>2. /\ call \in Calls /\ files \in SUBSET SpaceFiles /\ keys \in Nat
        /\ \A f \in files : f.ord <= keys
    BY ConfigureAssumption DEF ConfigureInv, StateTypes, KeysFirst
  <1>3. \A f \in files : f.ord \in Nat
    BY <1>2 DEF SpaceFiles
  <1>4. \A f \in files : Usable(f)' <=> Usable(f)
    <2>1. \A f \in files : f.ord \in 1..keys <=> f.ord \in 1..keys'
      BY <1>1, <1>2, <1>3
    <2> QED
      BY <2>1 DEF Usable
  <1>5. call'.kind = call.kind /\ call'.asked = call.asked /\ call'.st = call.st
    BY <1>1, <1>2 DEF Calls
  <1>6. CallFits' /\ MetFits' /\ SizeInto'
    BY <1>1, <1>5 DEF RoomInv, CallFits, MetFits, SizeInto, Fits
  <1> QED
    BY <1>1, <1>4, <1>6, RoomKept

\* New spaces go to a directory of which all is known.
LEMMA IntoKnown ==
  ASSUME ConfigureInv, RoomInv, call.st = "run", call.todo # <<>>
  PROVE  call.into \in ToSet(dirs)
  <1>1. /\ call \in Calls /\ CallShape(call) /\ Progress(call) /\ InDirs
    BY DEF ConfigureInv, StateTypes
  <1>2. CASE call.kind = "list"
    <2>1. call.into = CfgDirs[1] /\ dirs = CfgDirs
      BY <1>1, <1>2 DEF CallShape, InDirs
    <2>2. CfgDirs \in Seq(Dirs) /\ CfgDirs # <<>>
      BY ConfigureAssumption
    <2> QED
      BY <2>1, <2>2 DEF ToSet
  <1>3. CASE call.kind # "list"
    <2>1. call.kind \in {"size", "path"}
      BY <1>1, <1>3 DEF CallShape
    <2>2. /\ Len(call.parts) \in Nat /\ Len(call.asked) \in Nat /\ DOMAIN call.asked = 1..Len(call.asked)
      BY <1>1, CallFields
    <2>3. Len(call.parts) <= Len(call.asked) /\ Filled(call) # 0
      BY <1>1, <1>3 DEF Progress
    <2>4. Filled(call) \in DOMAIN call.asked /\ Filled(call) > 0
      <3>1. PICK m, n \in Nat : m = Len(call.asked) /\ n = Len(call.parts)
        BY <2>2
      <3>2. Filled(call) = m - n
        BY <3>1 DEF Filled
      <3>3. n <= m /\ m - n # 0
        BY <2>3, <3>1, <3>2
      <3>4. m - n \in 1..m /\ m - n > 0
        BY <3>3
      <3> QED
        BY <2>2, <3>1, <3>2, <3>4
    <2>5. call.into = call.asked[Filled(call)].into
      BY <1>1, <1>3, <2>4 DEF Progress
    <2> QED
      BY <1>1, <2>1, <2>4, <2>5 DEF InDirs, RoomInv, SizeInto
  <1> QED
    BY <1>2, <1>3

\* A space is made.
LEMMA RoomNewWorkSpace ==
  ASSUME ConfigureInv, RepeatInv, RoomInv, NewWorkSpace
  PROVE  RoomInv'
  <1>s. PICK s : s = [ord |-> call.key, bl |-> Head(call.todo), dir |-> call.into]
    OBVIOUS
  <1>f. PICK f : f = [ord |-> call.key, bl |-> Head(call.todo), dir |-> call.into,
                      name |-> "new", whole |-> TRUE]
    OBVIOUS
  <1> DEFINE L == {f}
  <1>1. /\ call.st = "run" /\ call.key # 0 /\ files' = files \cup L /\ index' = index \cup {s}
        /\ call' = [call EXCEPT !.key = 0, !.todo = Tail(call.todo), !.got = call.got \cup {s}]
        /\ UNCHANGED <<svc, dirs, met, keys, plotted>>
    BY <1>s, <1>f DEF NewWorkSpace
  <1>2. /\ call \in Calls /\ svc = "idle" /\ call.todo # <<>> /\ IndexAtHome
        /\ \A g \in files : g.ord # call.key
    BY <1>1 DEF ConfigureInv, StateTypes, ProcessState, KeysFirst, RepeatInv
  <1>3. Space(f) = s /\ f.ord = call.key /\ f.name = "new" /\ s.dir = call.into
    BY <1>s, <1>f DEF Space
  <1>4. call'.kind = call.kind /\ call'.asked = call.asked /\ call'.st = call.st
    BY <1>1, <1>2 DEF Calls
  <1>5. \A g \in L : \A h \in files : g.ord # h.ord
    BY <1>2, <1>3
  <1>6. \A g : Usable(g)' <=> Usable(g)
    BY <1>1 DEF Usable
  <1>7. Homes \subseteq Homes' /\ \A t \in Homes' : t \in Homes \/ t = s
    <2> HIDE DEF L
    <2>1. Homes \subseteq Homes' /\ \A t \in Homes' : t \in Homes \/ \E g \in L : t = Space(g)
      BY <1>1, <1>5, <1>6, HomesGrow
    <2> QED
      BY <1>3, <2>1 DEF L
  <1>8. PlottedHome'
    <2>1. AllUpgraded => AllUpgraded'
      BY <1>1, <1>3 DEF AllUpgraded
    <2> QED
      BY <1>1, <1>7, <2>1 DEF RoomInv, PlottedHome
  <1>9. IndexWhole'
    <2> SUFFICES ASSUME NEW u \in Homes', NEW t \in index', u.dir = t.dir PROVE u \in index'
      BY DEF IndexWhole
    <2>1. CASE u = s
      BY <1>1, <2>1
    <2>2. CASE u \in Homes /\ t \in index
      BY <1>1, <1>2, <2>2 DEF RoomInv, IndexWhole
    <2>3. CASE u \in Homes /\ t = s
      <3>1. u.dir \in ToSet(dirs)
        BY <1>1, <1>2, <1>3, <2>3, IntoKnown
      <3> QED
        BY <1>1, <1>2, <2>3, <3>1 DEF IndexAtHome
    <2> QED
      BY <1>1, <1>7, <2>1, <2>2, <2>3
  <1>10. CallFits' /\ MetFits' /\ SizeInto'
    BY <1>1, <1>4 DEF RoomInv, CallFits, MetFits, SizeInto, Fits
  <1> QED
    BY <1>8, <1>9, <1>10 DEF RoomInv

\* A request is met.
LEMMA RoomApply ==
  ASSUME ConfigureInv, RepeatInv, RoomInv, Apply
  PROVE  RoomInv'
  <1>1. /\ call.st = "run" /\ UNCHANGED <<keys, files, plotted>>
        /\ \/ Fails
           \/ /\ call' = [call EXCEPT !.st = "ok"] /\ met' = met \cup {Request}
              /\ UNCHANGED <<svc, dirs, index>>
    BY DEF Apply
  <1>2. CASE Fails
    BY <1>1, <1>2, RoomFails
  <1>3. CASE /\ call' = [call EXCEPT !.st = "ok"] /\ met' = met \cup {Request}
             /\ UNCHANGED <<svc, dirs, index>>
    <2>1. call \in Calls
      BY DEF ConfigureInv, StateTypes
    <2>2. call'.kind = call.kind /\ call'.asked = call.asked /\ call'.st = "ok"
      BY <1>3, <2>1 DEF Calls
    <2>3. CallFits' /\ SizeInto'
      BY <2>2 DEF RoomInv, CallFits, SizeInto, Fits
    <2>4. MetFits'
      <3>1. Request.kind = call.kind /\ Request.asked = call.asked
        BY DEF Request
      <3>2. MetFits /\ CallFits
        BY DEF RoomInv
      <3> QED
        BY <1>3, <3>1, <3>2 DEF MetFits, CallFits
    <2>5. \A f \in files : Usable(f)' <=> Usable(f)
      BY <1>1 DEF Usable
    <2> QED
      BY <1>1, <1>3, <2>3, <2>4, <2>5, RoomKept
  <1> QED
    BY <1>1, <1>2, <1>3

\* The rest of the steps.
LEMMA RoomRest ==
  ASSUME ConfigureInv, RepeatInv, RoomInv,
         GenerateFails \/ Crash \/ Start \/ Stop \/ (\E s \in list : Plot(s)) \/ UNCHANGED keeperVars
  PROVE  RoomInv'
  <1>1. CASE GenerateFails
    BY <1>1, RoomFails DEF GenerateFails
  <1>2. CASE Crash
    <2>1. Forget /\ keys' = keys /\ plotted' = plotted
      BY <1>2 DEF Crash
    <2>2. PICK left : /\ files' = files \cup left
                      /\ left \in IF call.key = 0 THEN {{}} ELSE {{}} \cup
                           {{[ord |-> call.key, bl |-> Head(call.todo), dir |-> call.into,
                              name |-> "new", whole |-> w]} : w \in BOOLEAN}
      BY <1>2 DEF Crash
    <2>3. \A f \in left : f.ord = call.key /\ call.key # 0 /\ f.name = "new"
      <3>1. CASE call.key = 0
        BY <2>2, <3>1
      <3>2. CASE call.key # 0
        BY <2>2, <3>2
      <3> QED
        BY <3>1, <3>2
    <2>4. call.key # 0 => \A f \in files : f.ord # call.key
      BY DEF ConfigureInv, KeysFirst
    <2> QED
      BY <2>1, <2>2, <2>3, <2>4, RoomForget
  <1>3. CASE Start \/ Stop \/ (\E s \in list : Plot(s)) \/ UNCHANGED keeperVars
    <2>1. UNCHANGED <<dirs, index, call, keys, files, met>> /\ (svc' = "down" <=> svc = "down")
      BY <1>3 DEF Start, Stop, Plot, keeperVars
    <2>2. CallFits' /\ MetFits' /\ SizeInto'
      BY <2>1 DEF RoomInv, CallFits, MetFits, SizeInto
    <2>3. \A f \in files : Usable(f)' <=> Usable(f)
      BY <2>1 DEF Usable
    <2>4. list \subseteq index
      BY DEF ConfigureInv, StateTypes
    <2>5. plotted' \subseteq plotted \cup index /\ (svc = "down" => plotted' = plotted)
      BY <1>3, <2>4 DEF Start, Stop, Plot, keeperVars
    <2> QED
      BY <2>1, <2>2, <2>3, <2>5, RoomKept
  <1> QED
    BY <1>1, <1>2, <1>3

\* Nothing is turned away by a start that met the list before.
LEMMA NextTurned ==
  ConfigureInv /\ RepeatInv /\ RoomInv /\ Turned /\ [ConfigureNext]_configureVars => Turned'
  <1> SUFFICES ASSUME ConfigureInv, RepeatInv, RoomInv, Turned, [ConfigureNext]_configureVars
               PROVE  Turned'
    OBVIOUS
  <1>1. CASE refused' = {}
    BY <1>1 DEF Turned
  <1>2. CASE UNCHANGED configureVars
    BY <1>2 DEF Turned, Busy, configureVars, keeperVars
  <1>3. CASE \E want \in Wants : BootByBitLength(want)
    <2>1. PICK want \in Wants : BootByBitLength(want)
      BY <1>3
    <2>2. svc = "down" /\ \E order \in Orders(DOMAIN want) : Begun(want, order) \/ Ended(want, order)
      BY <2>1, StartsByList
    <2>3. PICK order \in Orders(DOMAIN want) : Begun(want, order) \/ Ended(want, order)
      BY <2>2
    <2>4. CASE Begun(want, order)
      BY <1>1, <2>4 DEF Begun
    <2>5. CASE Ended(want, order)
      <3> SUFFICES ASSUME NEW r \in refused' PROVE FALSE
        BY DEF Turned
      <3>1. r \in met /\ r.kind = "list" /\ r.want = want
        BY <2>5 DEF Ended
      <3> QED
        BY <2>2, <2>5, <3>1, ListFound DEF Ended
    <2> QED
      BY <2>3, <2>4, <2>5
  <1>4. CASE \E size \in SizeRequests : ConfigureBySize(size)
    <2>1. PICK size \in SizeRequests : ConfigureBySize(size)
      BY <1>4
    <2> DEFINE parts == << [from |-> Dirs, into |-> dirs[1], size |-> size] >>
    <2>2. Begin("size", parts) \/ TurnAway("size", parts)
      BY <2>1, HandlersAre
    <2>3. CASE Begin("size", parts)
      BY <1>1, <2>3 DEF Begin
    <2>4. CASE TurnAway("size", parts)
      BY <2>4 DEF TurnAway, Turned
    <2> QED
      BY <2>2, <2>3, <2>4
  <1>5. CASE \E request \in PathRequests : ConfigureByPath(request)
    <2>1. PICK request \in PathRequests : ConfigureByPath(request)
      BY <1>5
    <2>2. /\ Served
          /\ \/ Begin("path", PartsOf(request))
             \/ /\ TurnAway("path", PartsOf(request))
                /\ ~Busy => \E i \in DOMAIN request :
                               ~CheckMinerPathCapacity(request[i].dir, request[i].size)
      BY <2>1, HandlersAre
    <2>3. CASE Begin("path", PartsOf(request))
      BY <1>1, <2>3 DEF Begin
    <2>4. CASE /\ TurnAway("path", PartsOf(request))
               /\ ~Busy => \E i \in DOMAIN request :
                              ~CheckMinerPathCapacity(request[i].dir, request[i].size)
      <3> SUFFICES ASSUME NEW r \in refused' PROVE Busy'
        BY DEF Turned
      <3>1. r \in met /\ r.kind = "path" /\ r.asked = PartsOf(request) /\ (Busy' <=> Busy)
        BY <2>4 DEF TurnAway, Busy, keeperVars
      <3>2. Fits(PartsOf(request))
        BY <3>1 DEF RoomInv, MetFits
      <3>3. \A i \in DOMAIN request : request[i].size <= Disk[request[i].dir]
        BY <3>2, PartsFit
      <3>4. svc # "down"
        BY <2>2 DEF Served
      <3>5. \A i \in DOMAIN request : CheckMinerPathCapacity(request[i].dir, request[i].size)
        BY <3>3, <3>4, CheckIsDisk
      <3> QED
        BY <2>4, <3>1, <3>5
    <2> QED
      BY <2>2, <2>3, <2>4
  <1> QED
    BY <1>1, <1>2, <1>3, <1>4, <1>5 DEF ConfigureNext

\* Every step keeps what is said of the room on the disks.
LEMMA NextRoomInv ==
  ConfigureInv /\ ConfigureInv' /\ RepeatInv /\ RepeatInv' /\ RoomInv /\ [ConfigureNext]_configureVars
    => RoomInv'
  <1> SUFFICES ASSUME ConfigureInv, ConfigureInv', RepeatInv, RepeatInv', RoomInv,
                      [ConfigureNext]_configureVars
               PROVE  RoomInv'
    OBVIOUS
  <1>1. CASE Boot \/ BootByFlags
    <2>1. svc = "down" /\ Started /\ UNCHANGED <<met, plotted>>
      BY <1>1 DEF Boot, BootByFlags, Started
    <2>2. call'.kind \notin {"path", "size"}
      <3>1. CASE Boot
        BY <2>1, <3>1, NoCallIs DEF Boot, ConfigureInv, ProcessState
      <3>2. CASE BootByFlags
        <4>1. PICK v : call' = [NoCall EXCEPT !.kind = "flags", !.st = v]
          BY <3>2 DEF BootByFlags
        <4> QED
          BY <4>1 DEF NoCall
      <3> QED
        BY <1>1, <3>1, <3>2
    <2> QED
      BY <2>1, <2>2, RoomStarted
  <1>2. CASE \E want \in Wants : BootByBitLength(want)
    <2>1. PICK want \in Wants : BootByBitLength(want)
      BY <1>2
    <2>2. /\ svc = "down" /\ files' = Upgraded(files, CfgDirs) /\ UNCHANGED <<keys, met, plotted>>
          /\ \E order \in Orders(DOMAIN want) : Begun(want, order) \/ Ended(want, order)
      BY <2>1, StartsByList
    <2>3. PICK order \in Orders(DOMAIN want) : Begun(want, order) \/ Ended(want, order)
      BY <2>2
    <2>4. CASE Begun(want, order)
      <3>1. Started
        BY <2>2, <2>4 DEF Begun, Started, Found1
      <3>2. call'.kind = "list"
        BY <2>4 DEF Begun, NoCall
      <3> QED
        BY <2>2, <3>1, <3>2, RoomStarted
    <2>5. CASE Ended(want, order)
      BY <2>2, <2>5, RoomEnded DEF Ended
    <2> QED
      BY <2>3, <2>4, <2>5
  <1>3. CASE \E size \in SizeRequests : ConfigureBySize(size)
    <2>1. PICK size \in SizeRequests : ConfigureBySize(size)
      BY <1>3
    <2> DEFINE parts == << [from |-> Dirs, into |-> dirs[1], size |-> size] >>
    <2>2. /\ Served
          /\ \/ ~Busy /\ Begin("size", parts) /\ UNCHANGED <<dirs, index>>
             \/ TurnAway("size", parts)
      BY <2>1, HandlersAre
    <2>3. CASE ~Busy /\ Begin("size", parts) /\ UNCHANGED <<dirs, index>>
      BY <2>2, <2>3, AtRest, RoomBySize
    <2>4. CASE TurnAway("size", parts)
      BY <2>4, RoomRest DEF TurnAway
    <2> QED
      BY <2>2, <2>3, <2>4
  <1>4. CASE \E request \in PathRequests : ConfigureByPath(request)
    <2>1. PICK request \in PathRequests : ConfigureByPath(request)
      BY <1>4
    <2>2. /\ Served
          /\ \/ /\ ~Busy /\ Begin("path", PartsOf(request)) /\ dirs' = DirsOf(request)
                /\ index' = Indexed(index, files, DirsOf(request))
                /\ \A i \in DOMAIN request : CheckMinerPathCapacity(request[i].dir, request[i].size)
             \/ TurnAway("path", PartsOf(request))
      BY <2>1, HandlersAre
    <2>3. CASE /\ ~Busy /\ Begin("path", PartsOf(request)) /\ dirs' = DirsOf(request)
               /\ index' = Indexed(index, files, DirsOf(request))
               /\ \A i \in DOMAIN request : CheckMinerPathCapacity(request[i].dir, request[i].size)
      BY <2>2, <2>3, AtRest, RoomByPath
    <2>4. CASE TurnAway("path", PartsOf(request))
      BY <2>4, RoomRest DEF TurnAway
    <2> QED
      BY <2>2, <2>3, <2>4
  <1>5. CASE FillPart
    BY <1>5, RoomFillPart
  <1>6. CASE GenerateNewPublicKey
    BY <1>6, RoomKey
  <1>7. CASE NewWorkSpace
    BY <1>7, RoomNewWorkSpace
  <1>8. CASE Apply
    BY <1>8, RoomApply
  <1>9. CASE GenerateFails \/ Crash \/ Start \/ Stop \/ (\E s \in list : Plot(s)) \/ UNCHANGED keeperVars
    BY <1>9, RoomRest
  <1> QED
    BY <1>1, <1>2, <1>3, <1>4, <1>5, <1>6, <1>7, <1>8, <1>9 DEF ConfigureNext, configureVars

-----------------------------------------------------------------------------
\* ConfigureTypeOK of every number of directories, files, keys and requests.
THEOREM ConfigureTypes == ConfigureSpec => []ConfigureTypeOK
  BY ConfigureInvariant, InvTypes, PTL

\* What a call of ConfigureByBitLength, ConfigureBySize or ConfigureByPath that returns no error
\* puts in use is what was asked, every space of the wallet on the keeper's disks is indexed, and
\* the answer by directories, one for every time the latest request named it, shows all that is
\* in use and, if none was named twice, its size: whatever files are found at the start, after
\* whatever failures, refusals, crashes and restarts.
THEOREM ConfigureIsSound == ConfigureSpec => [](SizeMet /\ IndexIsDisk /\ DirsShowAll)
  BY ConfigureInvariant, InvSizeMet, InvIndexIsDisk, InvDirsShowAll, PTL

\* A request that was met once is met again without making a space, and not turned away by a
\* keeper at rest unless it is of a size alone; with that, CapacityKept holds as a whole.
THEOREM CapacityIsKept == ConfigureSpec => []CapacityKept
  <1>1. CASE Settled(Found)
    <2>1. ConfigureInit => RepeatInv /\ RoomInv /\ Turned
      <3> SUFFICES ASSUME ConfigureInit PROVE RepeatInv /\ RoomInv /\ Turned
        OBVIOUS
      <3>1. Settled(files)
        BY <1>1 DEF ConfigureInit
      <3>2. svc = "down" /\ met = {} /\ plotted = {} /\ refused = {} /\ call = NoCall
        BY DEF ConfigureInit
      <3>3. RepeatInv
        BY <3>1, <3>2 DEF RepeatInv, IndexAtHome, MetAgain, Again
      <3>4. RoomInv
        BY <3>2, NoCallIs DEF RoomInv, PlottedHome, IndexWhole, CallFits, MetFits, SizeInto
      <3> QED
        BY <3>2, <3>3, <3>4 DEF Turned
    <2>2. RepeatInv /\ Turned => Repeatable
      BY DEF RepeatInv, Again, Turned, Repeatable
    <2>3. ConfigureInv /\ Repeatable => CapacityKept
      BY InvSizeMet, InvIndexIsDisk, InvDirsShowAll DEF CapacityKept
    <2> QED
      BY <2>1, <2>2, <2>3, ConfigureInvariant, NextRepeatInv, NextRoomInv, NextTurned, PTL DEF ConfigureSpec
  <1>2. CASE ~Settled(Found)
    <2>1. ConfigureInv => CapacityKept
      BY <1>2, InvSizeMet, InvIndexIsDisk, InvDirsShowAll DEF CapacityKept, Repeatable
    <2> QED
      BY <2>1, ConfigureInvariant, PTL
  <1> QED
    BY <1>1, <1>2
=============================================================================
