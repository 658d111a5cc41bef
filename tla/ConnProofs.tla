----------------------------- MODULE ConnProofs -----------------------------
(***************************************************************************)
(* Ordered for any scripts, capacities, pings and faults of a connection;  *)
(* BoundsKept for a relay and its pool on top of such connections.         *)
(***************************************************************************)
EXTENDS Conn, Relay, FiniteSetTheorems, NaturalsInduction, WellFoundedInduction, TLAPS

-----------------------------------------------------------------------------
(* A direction of the connection as a line of seven places, each a         *)
(* sequence, from the user who reads to the user who sends.                *)

Places == 1 .. 7

Lines == [Places -> Seq(Frames)]

\* the messages at the places P
Held(L, P) == {x \in Messages : \E a \in P : \E b \in 1 .. Len(L[a]) : x = L[a][b]}

Same(x, y) == x.class = y.class /\ x.class # "ping"

Later(x, h) == x.class = Low /\ h.class = High /\ x.id > h.id

\* each message is one of the script s, of those with the numbers N
Genuine(L, s, N) == \A x \in Held(L, Places) : x.id \in N /\ x = s[x.id]

\* each priority is in the order of its numbers
Rising(L) ==
    \A k \in Places : \A i \in 1 .. Len(L[k]) : \A a \in Places : \A b \in 1 .. Len(L[a]) :
      (a < k \/ (a = k /\ b < i)) /\ Same(L[a][b], L[k][i]) => L[a][b].id < L[k][i].id

\* a priority message has at most one later ordinary message before it
Once(L) ==
    \A k \in Places : \A i \in 1 .. Len(L[k]) :
      \A a \in Places : \A b \in 1 .. Len(L[a]) : \A c \in Places : \A d \in 1 .. Len(L[c]) :
        /\ a < k \/ (a = k /\ b < i)
        /\ c < k \/ (c = k /\ d < i)
        /\ Later(L[a][b], L[k][i]) /\ Later(L[c][d], L[k][i])
        => L[a][b] = L[c][d]

\* the last two places are the channels of the two priorities
Sides(L) ==
    /\ \A i \in 1 .. Len(L[6]) : L[6][i].class # Low
    /\ \A i \in 1 .. Len(L[7]) : L[7][i].class = Low

\* no priority message waits behind a later ordinary one
Clear(L) ==
    \A h \in Held(L, {6}) : \A x \in Held(L, 1 .. 5) : ~Later(x, h)

\* a set of messages with every message of the same priority that was sent before
Gapless(s, H) ==
    \A x \in H : \A n \in 1 .. x.id : s[n].class = x.class => s[n] \in H

\* What stands on a line are frames.
LEMMA LineTyped ==
  ASSUME NEW L \in Lines, NEW a \in Places
  PROVE  /\ L[a] \in Seq(Frames) /\ Len(L[a]) \in Nat /\ a \in Nat
         /\ \A b \in 1 .. Len(L[a]) : L[a][b] \in Frames /\ b \in Nat /\ b >= 1 /\ b <= Len(L[a])
  BY DEF Lines, Places

\* A frame that is not a ping is a message, and has its priority.
LEMMA FrameTyped ==
  ASSUME NEW x \in Frames
  PROVE  /\ x.id \in Nat
         /\ x.class # "ping" => x \in Messages
         /\ x \in Messages => x.class \in {Low, High} /\ x.class # "ping"
  BY DEF Frames, Messages, Ping, Low, High

-----------------------------------------------------------------------------
(* What is kept when messages only move forward or leave.                  *)

\* what stands in K stood in L, in the same order
Embeds(L, K, g, h) ==
    /\ \A k \in Places : \A i \in 1 .. Len(K[k]) :
         /\ g[k][i] \in Places /\ h[k][i] \in 1 .. Len(L[g[k][i]])
         /\ K[k][i] = L[g[k][i]][h[k][i]]
    /\ \A k \in Places : \A i \in 1 .. Len(K[k]) :
       \A a \in Places : \A b \in 1 .. Len(K[a]) :
         a < k \/ (a = k /\ b < i) =>
           g[a][b] < g[k][i] \/ (g[a][b] = g[k][i] /\ h[a][b] < h[k][i])

Follows(L, K) == \E g, h : Embeds(L, K, g, h)

\* Order and the limit on overtaking survive when messages only move forward or
\* leave.
LEMMA FollowsKeeps ==
  ASSUME NEW L \in Lines, NEW K \in Lines, Follows(L, K)
  PROVE  /\ Rising(L) => Rising(K)
         /\ Once(L) => Once(K)
         /\ Held(K, Places) \subseteq Held(L, Places)
  <1>0. PICK g, h : Embeds(L, K, g, h)
    BY DEF Follows
  <1>1. /\ \A k \in Places : \A i \in 1 .. Len(K[k]) :
             /\ g[k][i] \in Places /\ h[k][i] \in 1 .. Len(L[g[k][i]])
             /\ K[k][i] = L[g[k][i]][h[k][i]]
        /\ \A k \in Places : \A i \in 1 .. Len(K[k]) :
           \A a \in Places : \A b \in 1 .. Len(K[a]) :
             a < k \/ (a = k /\ b < i) =>
               g[a][b] < g[k][i] \/ (g[a][b] = g[k][i] /\ h[a][b] < h[k][i])
    BY <1>0 DEF Embeds
  <1>2. ASSUME Rising(L) PROVE Rising(K)
    <2> SUFFICES ASSUME NEW k \in Places, NEW i \in 1 .. Len(K[k]),
                        NEW a \in Places, NEW b \in 1 .. Len(K[a]),
                        a < k \/ (a = k /\ b < i), Same(K[a][b], K[k][i])
                 PROVE  K[a][b].id < K[k][i].id
      BY DEF Rising
    <2> DEFINE k1 == g[k][i]
               i1 == h[k][i]
               a1 == g[a][b]
               b1 == h[a][b]
    <2>1. /\ k1 \in Places /\ i1 \in 1 .. Len(L[k1]) /\ K[k][i] = L[k1][i1]
          /\ a1 \in Places /\ b1 \in 1 .. Len(L[a1]) /\ K[a][b] = L[a1][b1]
      BY <1>1
    <2>2. a1 < k1 \/ (a1 = k1 /\ b1 < i1)
      BY <1>1
    <2> HIDE DEF k1, i1, a1, b1
    <2> QED
      BY <1>2, <2>1, <2>2 DEF Rising
  <1>3. ASSUME Once(L) PROVE Once(K)
    <2> SUFFICES ASSUME NEW k \in Places, NEW i \in 1 .. Len(K[k])
                 PROVE  \A a \in Places : \A b \in 1 .. Len(K[a]) :
                        \A c \in Places : \A d \in 1 .. Len(K[c]) :
                          /\ a < k \/ (a = k /\ b < i)
                          /\ c < k \/ (c = k /\ d < i)
                          /\ Later(K[a][b], K[k][i]) /\ Later(K[c][d], K[k][i])
                          => K[a][b] = K[c][d]
      BY DEF Once
    <2> SUFFICES ASSUME NEW a \in Places, NEW b \in 1 .. Len(K[a]),
                        NEW c \in Places, NEW d \in 1 .. Len(K[c]),
                        a < k \/ (a = k /\ b < i), c < k \/ (c = k /\ d < i),
                        Later(K[a][b], K[k][i]), Later(K[c][d], K[k][i])
                 PROVE  K[a][b] = K[c][d]
      OBVIOUS
    <2> DEFINE k1 == g[k][i]
               i1 == h[k][i]
               a1 == g[a][b]
               b1 == h[a][b]
               c1 == g[c][d]
               d1 == h[c][d]
    <2>1. /\ k1 \in Places /\ i1 \in 1 .. Len(L[k1]) /\ K[k][i] = L[k1][i1]
          /\ a1 \in Places /\ b1 \in 1 .. Len(L[a1]) /\ K[a][b] = L[a1][b1]
          /\ c1 \in Places /\ d1 \in 1 .. Len(L[c1]) /\ K[c][d] = L[c1][d1]
      BY <1>1
    <2>2. (a1 < k1 \/ (a1 = k1 /\ b1 < i1)) /\ (c1 < k1 \/ (c1 = k1 /\ d1 < i1))
      BY <1>1
    <2> HIDE DEF k1, i1, a1, b1, c1, d1
    <2> QED
      BY <1>3, <2>1, <2>2 DEF Once
  <1>4. ASSUME NEW x \in Held(K, Places) PROVE x \in Held(L, Places)
    <2>1. PICK a \in Places : \E b \in 1 .. Len(K[a]) : x = K[a][b]
      BY <1>4 DEF Held
    <2>2. PICK b \in 1 .. Len(K[a]) : x = K[a][b]
      BY <2>1
    <2> DEFINE c == g[a][b]
               d == h[a][b]
    <2>3. c \in Places /\ d \in 1 .. Len(L[c]) /\ x = L[c][d]
      BY <1>1, <2>2
    <2> HIDE DEF c, d
    <2>4. x \in Messages
      BY <1>4 DEF Held
    <2> QED
      BY <2>3, <2>4 DEF Held
  <1> QED
    BY <1>2, <1>3, <1>4

\* the first of place l goes to the end of place k, nearer to the reader
Moved(L, K, k, l, m, n) ==
    /\ Len(L[k]) = m /\ Len(K[k]) = m + 1
    /\ Len(L[l]) = n + 1 /\ Len(K[l]) = n
    /\ \A b \in 1 .. m : K[k][b] = L[k][b]
    /\ K[k][m + 1] = L[l][1]
    /\ \A b \in 1 .. n : K[l][b] = L[l][b + 1]
    /\ \A a \in Places : a # k /\ a # l => K[a] = L[a]

\* which takes nothing from places that hold both ends of the move, or neither
LEMMA MovedHeld ==
  ASSUME NEW L \in Lines, NEW K \in Lines, NEW k \in Places, NEW l \in Places, k < l,
         NEW m \in Nat, NEW n \in Nat, Moved(L, K, k, l, m, n),
         NEW P \in SUBSET Places, k \in P <=> l \in P
  PROVE  Held(K, P) = Held(L, P)
  <1>0. \A a \in Places : Len(K[a]) \in Nat /\ Len(L[a]) \in Nat /\ a \in Nat
    BY LineTyped
  <1>1. /\ Len(L[k]) = m /\ Len(K[k]) = m + 1 /\ K[k][m + 1] = L[l][1]
        /\ \A b \in 1 .. m : K[k][b] = L[k][b]
    BY DEF Moved
  <1>2. /\ Len(K[l]) = n /\ Len(L[l]) = n + 1
        /\ \A b \in 1 .. n : K[l][b] = L[l][b + 1]
        /\ \A a \in Places : a # k /\ a # l => K[a] = L[a]
    BY DEF Moved
  <1>3. ASSUME NEW x \in Held(K, P) PROVE x \in Held(L, P)
    <2>1. PICK a \in P : \E b \in 1 .. Len(K[a]) : x = K[a][b]
      BY <1>3 DEF Held
    <2>2. PICK b \in 1 .. Len(K[a]) : x = K[a][b]
      BY <2>1
    <2>3. \E c \in P : \E d \in 1 .. Len(L[c]) : x = L[c][d]
      <3>1. CASE a = k /\ b = m + 1
        <4>1. l \in P /\ 1 \in 1 .. Len(L[l]) /\ x = L[l][1]
          BY <1>1, <1>2, <2>2, <3>1
        <4> QED
          BY <4>1
      <3>2. CASE a = k /\ b # m + 1
        <4>1. b \in 1 .. m /\ x = L[k][b]
          BY <1>1, <2>2, <3>2
        <4> QED
          BY <1>1, <3>2, <4>1
      <3>3. CASE a = l
        <4>1. b + 1 \in 1 .. n + 1 /\ x = L[l][b + 1]
          BY <1>2, <2>2, <3>3
        <4> QED
          BY <1>2, <3>3, <4>1
      <3>4. CASE a # k /\ a # l
        BY <1>2, <2>2, <3>4
      <3> QED
        BY <3>1, <3>2, <3>3, <3>4
    <2>4. x \in Messages
      BY <1>3 DEF Held
    <2> QED
      BY <2>3, <2>4 DEF Held
  <1>4. ASSUME NEW x \in Held(L, P) PROVE x \in Held(K, P)
    <2>1. PICK a \in P : \E b \in 1 .. Len(L[a]) : x = L[a][b]
      BY <1>4 DEF Held
    <2>2. PICK b \in 1 .. Len(L[a]) : x = L[a][b]
      BY <2>1
    <2>3. \E c \in P : \E d \in 1 .. Len(K[c]) : x = K[c][d]
      <3>1. CASE a = l /\ b = 1
        <4>1. k \in P /\ m + 1 \in 1 .. Len(K[k]) /\ x = K[k][m + 1]
          BY <1>0, <1>1, <2>2, <3>1
        <4> QED
          BY <4>1
      <3>2. CASE a = l /\ b # 1
        <4>1. b - 1 \in 1 .. n /\ (b - 1) + 1 = b
          BY <1>0, <1>2, <3>2
        <4>2. x = K[l][b - 1] /\ b - 1 \in 1 .. Len(K[l])
          BY <1>2, <2>2, <3>2, <4>1
        <4> QED
          BY <3>2, <4>2
      <3>3. CASE a = k
        <4>1. b \in 1 .. Len(K[k]) /\ x = K[k][b]
          BY <1>0, <1>1, <2>2, <3>3
        <4> QED
          BY <3>3, <4>1
      <3>4. CASE a # k /\ a # l
        BY <1>2, <2>2, <3>4
      <3> QED
        BY <3>1, <3>2, <3>3, <3>4
    <2>4. x \in Messages
      BY <1>4 DEF Held
    <2> QED
      BY <2>3, <2>4 DEF Held
  <1> QED
    BY <1>3, <1>4

\* and keeps the order when nothing stands in between
LEMMA MovedFollows ==
  ASSUME NEW L \in Lines, NEW K \in Lines, NEW k \in Places, NEW l \in Places, k < l,
         NEW m \in Nat, NEW n \in Nat, Moved(L, K, k, l, m, n),
         \A a \in Places : k < a /\ a < l => Len(L[a]) = 0
  PROVE  Follows(L, K)
  <1> DEFINE G(a, b) == IF a = k /\ b = m + 1 THEN l ELSE a
             H(a, b) == IF a = k /\ b = m + 1 THEN 1 ELSE IF a = l THEN b + 1 ELSE b
             g == [a \in Places |-> [b \in 1 .. Len(K[a]) |-> G(a, b)]]
             h == [a \in Places |-> [b \in 1 .. Len(K[a]) |-> H(a, b)]]
  <1>0. \A a \in Places : Len(K[a]) \in Nat /\ Len(L[a]) \in Nat /\ a \in Nat
    BY LineTyped
  <1>1. /\ Len(L[k]) = m /\ Len(K[k]) = m + 1 /\ K[k][m + 1] = L[l][1]
        /\ \A b \in 1 .. m : K[k][b] = L[k][b]
    BY DEF Moved
  <1>2. /\ Len(K[l]) = n /\ Len(L[l]) = n + 1
        /\ \A b \in 1 .. n : K[l][b] = L[l][b + 1]
        /\ \A a \in Places : a # k /\ a # l => K[a] = L[a]
    BY DEF Moved
  <1>3. ASSUME NEW a \in Places, NEW b \in 1 .. Len(K[a])
        PROVE  /\ G(a, b) \in Places /\ H(a, b) \in 1 .. Len(L[G(a, b)])
               /\ K[a][b] = L[G(a, b)][H(a, b)]
    <2>1. CASE a = k /\ b = m + 1
      BY <1>0, <1>1, <1>2, <2>1
    <2>2. CASE a = k /\ b # m + 1
      <3>1. b \in 1 .. m
        BY <1>0, <1>1, <2>2
      <3> QED
        BY <1>0, <1>1, <2>2, <3>1
    <2>3. CASE a = l
      <3>1. b \in 1 .. n /\ b + 1 \in 1 .. n + 1
        BY <1>0, <1>2, <2>3
      <3> QED
        BY <1>0, <1>2, <2>3, <3>1
    <2>4. CASE a # k /\ a # l
      BY <1>0, <1>2, <2>4
    <2> QED
      BY <2>1, <2>2, <2>3, <2>4
  <1>4. ASSUME NEW c \in Places, NEW d \in 1 .. Len(K[c]),
               NEW a \in Places, NEW b \in 1 .. Len(K[a]), a < c \/ (a = c /\ b < d)
        PROVE  G(a, b) < G(c, d) \/ (G(a, b) = G(c, d) /\ H(a, b) < H(c, d))
    <2>1. ~(k < a /\ a < l) /\ ~(k < c /\ c < l)
      BY <1>0, <1>2
    <2>2. a \in Nat /\ b \in Nat /\ c \in Nat /\ d \in Nat /\ b >= 1 /\ d >= 1 /\ k \in Nat /\ l \in Nat
      BY <1>0
    <2>3. (a = k => b <= m + 1) /\ (c = k => d <= m + 1)
      BY <1>0, <1>1
    <2> QED
      BY <1>0, <1>4, <2>1, <2>2, <2>3
  <1> HIDE DEF G, H
  <1>5. Follows(L, K)
    <2>1. \A a \in Places : \A b \in 1 .. Len(K[a]) : g[a][b] = G(a, b) /\ h[a][b] = H(a, b)
      OBVIOUS
    <2> HIDE DEF g, h
    <2>2. \A a \in Places : \A b \in 1 .. Len(K[a]) :
            /\ g[a][b] \in Places /\ h[a][b] \in 1 .. Len(L[g[a][b]])
            /\ K[a][b] = L[g[a][b]][h[a][b]]
      BY <1>3, <2>1
    <2>3. \A c \in Places : \A d \in 1 .. Len(K[c]) : \A a \in Places : \A b \in 1 .. Len(K[a]) :
            a < c \/ (a = c /\ b < d) =>
              g[a][b] < g[c][d] \/ (g[a][b] = g[c][d] /\ h[a][b] < h[c][d])
      BY <1>4, <2>1
    <2>4. Embeds(L, K, g, h)
      BY <2>2, <2>3 DEF Embeds
    <2> QED
      BY <2>4 DEF Follows
  <1> QED
    BY <1>5

\* the first of place l is dropped
Dropped(L, K, l, n) ==
    /\ Len(L[l]) = n + 1 /\ Len(K[l]) = n
    /\ \A b \in 1 .. n : K[l][b] = L[l][b + 1]
    /\ \A a \in Places : a # l => K[a] = L[a]

\* The first frame of a place is dropped.
LEMMA DroppedFollows ==
  ASSUME NEW L \in Lines, NEW K \in Lines, NEW l \in Places, NEW n \in Nat, Dropped(L, K, l, n)
  PROVE  /\ Follows(L, K)
         /\ \A P \in SUBSET Places : Held(K, P) \subseteq Held(L, P)
         /\ \A P \in SUBSET Places : l \notin P \/ L[l][1] \notin Messages
                                       => Held(K, P) = Held(L, P)
  <1> DEFINE H(a, b) == IF a = l THEN b + 1 ELSE b
             g == [a \in Places |-> [b \in 1 .. Len(K[a]) |-> a]]
             h == [a \in Places |-> [b \in 1 .. Len(K[a]) |-> H(a, b)]]
  <1>0. \A a \in Places : Len(K[a]) \in Nat /\ Len(L[a]) \in Nat /\ a \in Nat
    BY LineTyped
  <1>1. /\ Len(L[l]) = n + 1 /\ Len(K[l]) = n
        /\ \A b \in 1 .. n : K[l][b] = L[l][b + 1]
        /\ \A a \in Places : a # l => K[a] = L[a]
    BY DEF Dropped
  <1>2. ASSUME NEW a \in Places, NEW b \in 1 .. Len(K[a])
        PROVE  H(a, b) \in 1 .. Len(L[a]) /\ K[a][b] = L[a][H(a, b)]
    <2>1. CASE a = l
      <3>1. b \in 1 .. n /\ b + 1 \in 1 .. n + 1
        BY <1>0, <1>1, <2>1
      <3> QED
        BY <1>1, <2>1, <3>1
    <2>2. CASE a # l
      BY <1>1, <2>2
    <2> QED
      BY <2>1, <2>2
  <1>3. ASSUME NEW c \in Places, NEW d \in 1 .. Len(K[c]),
               NEW a \in Places, NEW b \in 1 .. Len(K[a]), a < c \/ (a = c /\ b < d)
        PROVE  a < c \/ (a = c /\ H(a, b) < H(c, d))
    <2>1. b \in Nat /\ d \in Nat
      BY <1>0
    <2> QED
      BY <1>3, <2>1
  <1> HIDE DEF H
  <1>4. Follows(L, K)
    <2>1. \A a \in Places : \A b \in 1 .. Len(K[a]) : g[a][b] = a /\ h[a][b] = H(a, b)
      OBVIOUS
    <2> HIDE DEF g, h
    <2>2. \A a \in Places : \A b \in 1 .. Len(K[a]) :
            /\ g[a][b] \in Places /\ h[a][b] \in 1 .. Len(L[g[a][b]])
            /\ K[a][b] = L[g[a][b]][h[a][b]]
      BY <1>2, <2>1
    <2>3. \A c \in Places : \A d \in 1 .. Len(K[c]) : \A a \in Places : \A b \in 1 .. Len(K[a]) :
            a < c \/ (a = c /\ b < d) =>
              g[a][b] < g[c][d] \/ (g[a][b] = g[c][d] /\ h[a][b] < h[c][d])
      BY <1>3, <2>1
    <2>4. Embeds(L, K, g, h)
      BY <2>2, <2>3 DEF Embeds
    <2> QED
      BY <2>4 DEF Follows
  <1>5. ASSUME NEW P \in SUBSET Places PROVE Held(K, P) \subseteq Held(L, P)
    <2>1. ASSUME NEW x \in Held(K, P) PROVE x \in Held(L, P)
      <3>1. PICK a \in P : \E b \in 1 .. Len(K[a]) : x = K[a][b]
        BY <2>1 DEF Held
      <3>2. PICK b \in 1 .. Len(K[a]) : x = K[a][b]
        BY <3>1
      <3>3. a \in Places
        OBVIOUS
      <3>4. H(a, b) \in 1 .. Len(L[a]) /\ x = L[a][H(a, b)]
        BY <1>2, <3>2, <3>3
      <3>5. x \in Messages
        BY <2>1 DEF Held
      <3> QED
        BY <3>4, <3>5 DEF Held
    <2> QED
      BY <2>1
  <1>6. ASSUME NEW P \in SUBSET Places, l \notin P \/ L[l][1] \notin Messages
        PROVE  Held(K, P) = Held(L, P)
    <2>2. ASSUME NEW x \in Held(L, P) PROVE x \in Held(K, P)
      <3>1. PICK a \in P : \E b \in 1 .. Len(L[a]) : x = L[a][b]
        BY <2>2 DEF Held
      <3>2. PICK b \in 1 .. Len(L[a]) : x = L[a][b]
        BY <3>1
      <3>3. x \in Messages
        BY <2>2 DEF Held
      <3>4. \E d \in 1 .. Len(K[a]) : x = K[a][d]
        <4>1. CASE a # l
          BY <1>1, <3>2, <4>1
        <4>2. CASE a = l
          <5>1. b # 1
            BY <1>6, <3>2, <3>3, <4>2
          <5>2. b - 1 \in 1 .. n /\ (b - 1) + 1 = b
            BY <1>0, <1>1, <4>2, <5>1
          <5>3. x = K[l][b - 1] /\ b - 1 \in 1 .. Len(K[l])
            BY <1>1, <3>2, <4>2, <5>2
          <5> QED
            BY <4>2, <5>3
        <4> QED
          BY <4>1, <4>2
      <3> QED
        BY <3>3, <3>4 DEF Held
    <2> QED
      BY <1>5, <2>2
  <1> QED
    BY <1>4, <1>5, <1>6

\* the places C are emptied
Cleared(L, K, C) == (\A a \in C : Len(K[a]) = 0) /\ (\A a \in Places \ C : K[a] = L[a])

\* Some places are emptied.
LEMMA ClearedFollows ==
  ASSUME NEW L \in Lines, NEW K \in Lines, NEW C \in SUBSET Places, Cleared(L, K, C)
  PROVE  Follows(L, K) /\ \A P \in SUBSET Places : Held(K, P) = Held(L, P \ C)
  <1> DEFINE g == [a \in Places |-> [b \in 1 .. Len(K[a]) |-> a]]
             h == [a \in Places |-> [b \in 1 .. Len(K[a]) |-> b]]
  <1>0. \A a \in Places : Len(K[a]) \in Nat /\ a \in Nat
    BY LineTyped
  <1>1. \A a \in Places : \A b \in 1 .. Len(K[a]) : a \notin C /\ K[a] = L[a]
    BY <1>0 DEF Cleared
  <1>2. Follows(L, K)
    <2>1. \A a \in Places : \A b \in 1 .. Len(K[a]) : g[a][b] = a /\ h[a][b] = b
      OBVIOUS
    <2> HIDE DEF g, h
    <2>2. \A a \in Places : \A b \in 1 .. Len(K[a]) :
            /\ g[a][b] \in Places /\ h[a][b] \in 1 .. Len(L[g[a][b]])
            /\ K[a][b] = L[g[a][b]][h[a][b]]
      BY <1>1, <2>1
    <2>3. \A c \in Places : \A d \in 1 .. Len(K[c]) : \A a \in Places : \A b \in 1 .. Len(K[a]) :
            a < c \/ (a = c /\ b < d) =>
              g[a][b] < g[c][d] \/ (g[a][b] = g[c][d] /\ h[a][b] < h[c][d])
      BY <2>1
    <2>4. Embeds(L, K, g, h)
      BY <2>2, <2>3 DEF Embeds
    <2> QED
      BY <2>4 DEF Follows
  <1>3. ASSUME NEW P \in SUBSET Places PROVE Held(K, P) = Held(L, P \ C)
    <2>1. \A a \in P : \A b \in 1 .. Len(K[a]) : a \in P \ C /\ K[a] = L[a]
      BY <1>1
    <2>2. \A a \in P \ C : K[a] = L[a]
      BY DEF Cleared
    <2> QED
      BY <2>1, <2>2 DEF Held
  <1> QED
    BY <1>2, <1>3

\* Once, for four given positions.
LEMMA OnceAt ==
  ASSUME NEW L \in Lines, Once(L), NEW k \in Places, NEW i \in 1 .. Len(L[k]),
         NEW a \in Places, NEW b \in 1 .. Len(L[a]), NEW c \in Places, NEW d \in 1 .. Len(L[c]),
         a < k \/ (a = k /\ b < i), c < k \/ (c = k /\ d < i),
         Later(L[a][b], L[k][i]), Later(L[c][d], L[k][i])
  PROVE  L[a][b] = L[c][d]
  <1>1. \A a1 \in Places : \A b1 \in 1 .. Len(L[a1]) :
        \A c1 \in Places : \A d1 \in 1 .. Len(L[c1]) :
          /\ a1 < k \/ (a1 = k /\ b1 < i)
          /\ c1 < k \/ (c1 = k /\ d1 < i)
          /\ Later(L[a1][b1], L[k][i]) /\ Later(L[c1][d1], L[k][i])
          => L[a1][b1] = L[c1][d1]
    BY DEF Once
  <1>2. \A c1 \in Places : \A d1 \in 1 .. Len(L[c1]) :
          /\ c1 < k \/ (c1 = k /\ d1 < i)
          /\ Later(L[c1][d1], L[k][i])
          => L[a][b] = L[c1][d1]
    BY <1>1
  <1> QED
    BY <1>2

\* a frame x comes to the end of a channel
Added(L, K, c, m, x) ==
    /\ Len(L[c]) = m /\ Len(K[c]) = m + 1 /\ K[c][m + 1] = x
    /\ \A b \in 1 .. m : K[c][b] = L[c][b]
    /\ \A a \in Places : a # c => K[a] = L[a]

\* A frame comes to the end of its priority's channel with the highest number
\* so far.
LEMMA AddedKeeps ==
  ASSUME NEW L \in Lines, NEW K \in Lines, NEW c \in {6, 7}, NEW m \in Nat, NEW x \in Frames,
         Added(L, K, c, m, x), Sides(L), c = 6 <=> x.class # Low,
         \A y \in Held(L, Places) : x \in Messages => y.id < x.id
  PROVE  /\ Rising(L) => Rising(K)
         /\ Once(L) => Once(K)
         /\ Sides(K)
         /\ \A P \in SUBSET Places :
              Held(K, P) = Held(L, P) \cup (IF c \in P THEN {x} \cap Messages ELSE {})
  <1>0. \A a \in Places : Len(K[a]) \in Nat /\ Len(L[a]) \in Nat /\ a \in Nat /\ a <= 7
    BY LineTyped DEF Places
  <1>1. /\ Len(L[c]) = m /\ Len(K[c]) = m + 1 /\ K[c][m + 1] = x
        /\ \A b \in 1 .. m : K[c][b] = L[c][b]
        /\ \A a \in Places : a # c => K[a] = L[a]
    BY DEF Added
  <1>2. c \in Places /\ 6 \in Places /\ 7 \in Places /\ c \in Nat
    BY DEF Places
  <1>3. \A a \in Places : \A b \in 1 .. Len(K[a]) :
          \/ a = c /\ b = m + 1 /\ K[a][b] = x
          \/ b \in 1 .. Len(L[a]) /\ K[a][b] = L[a][b]
    BY <1>0, <1>1
  <1>4. \A a \in Places : \A b \in 1 .. Len(L[a]) : L[a][b] \in Frames /\ b \in Nat
    BY LineTyped
  \* what was there before comes before x in number
  <1>5. \A a \in Places : \A b \in 1 .. Len(L[a]) :
          x \in Messages /\ L[a][b] \in Messages => L[a][b].id < x.id
    BY <1>4 DEF Held
  <1>6. x.class # "ping" => x \in Messages
    BY FrameTyped
  <1>7. \A a \in Places : \A b \in 1 .. Len(L[a]) : L[a][b].class # "ping" => L[a][b] \in Messages
    BY <1>4, FrameTyped
  \* and only ordinary messages may stand behind x
  <1>8. \A k \in Places : \A i \in 1 .. Len(K[k]) :
          c < k \/ (c = k /\ m + 1 < i) => c = 6 /\ K[k][i].class = Low
    <2> SUFFICES ASSUME NEW k \in Places, NEW i \in 1 .. Len(K[k]),
                        c < k \/ (c = k /\ m + 1 < i)
                 PROVE  c = 6 /\ K[k][i].class = Low
      OBVIOUS
    <2>1. ~(c = k)
      BY <1>0, <1>1
    <2>2. k = 7 /\ c = 6
      BY <1>0, <1>2, <2>1
    <2>3. K[7] = L[7]
      BY <1>1, <1>2, <2>2
    <2> QED
      BY <2>2, <2>3 DEF Sides
  <1>9. Low # High /\ Low # "ping" /\ High # "ping"
    BY DEF Low, High
  <1>10. ASSUME Rising(L) PROVE Rising(K)
    <2> SUFFICES ASSUME NEW k \in Places, NEW i \in 1 .. Len(K[k]),
                        NEW a \in Places, NEW b \in 1 .. Len(K[a]),
                        a < k \/ (a = k /\ b < i), Same(K[a][b], K[k][i])
                 PROVE  K[a][b].id < K[k][i].id
      BY DEF Rising
    <2>1. CASE a = c /\ b = m + 1 /\ K[a][b] = x
      BY <1>8, <2>1 DEF Same
    <2>2. CASE b \in 1 .. Len(L[a]) /\ K[a][b] = L[a][b] /\ k = c /\ i = m + 1 /\ K[k][i] = x
      BY <1>5, <1>6, <1>7, <2>2 DEF Same
    <2>3. CASE /\ b \in 1 .. Len(L[a]) /\ K[a][b] = L[a][b]
               /\ i \in 1 .. Len(L[k]) /\ K[k][i] = L[k][i]
      BY <1>10, <2>3 DEF Rising
    <2> QED
      BY <1>3, <2>1, <2>2, <2>3
  <1>11. ASSUME Once(L) PROVE Once(K)
    <2> SUFFICES ASSUME NEW k \in Places, NEW i \in 1 .. Len(K[k]),
                        NEW a \in Places, NEW b \in 1 .. Len(K[a]),
                        NEW e \in Places, NEW d \in 1 .. Len(K[e]),
                        a < k \/ (a = k /\ b < i), e < k \/ (e = k /\ d < i),
                        Later(K[a][b], K[k][i]), Later(K[e][d], K[k][i])
                 PROVE  K[a][b] = K[e][d]
      BY DEF Once
    <2>1. K[k][i].class = High /\ K[a][b].class = Low
      BY DEF Later
    <2>2. ~(a = c /\ b = m + 1 /\ K[a][b] = x) /\ ~(e = c /\ d = m + 1 /\ K[e][d] = x)
      BY <1>8, <1>9, <2>1
    <2>3. /\ b \in 1 .. Len(L[a]) /\ K[a][b] = L[a][b]
          /\ d \in 1 .. Len(L[e]) /\ K[e][d] = L[e][d]
      BY <1>3, <2>2
    <2>4. ~(k = c /\ i = m + 1 /\ K[k][i] = x)
      <3> SUFFICES ASSUME K[k][i] = x PROVE FALSE
        OBVIOUS
      <3>1. x \in Messages /\ L[a][b] \in Messages
        BY <1>6, <1>7, <1>9, <2>1, <2>3
      <3>2. L[a][b].id < x.id
        BY <1>5, <2>3, <3>1
      <3>3. L[a][b].id > x.id /\ L[a][b].id \in Nat /\ x.id \in Nat
        BY <1>4, <2>3, FrameTyped DEF Later
      <3> QED
        BY <3>2, <3>3
    <2>5. i \in 1 .. Len(L[k]) /\ K[k][i] = L[k][i]
      BY <1>3, <2>4
    <2> QED
      <3>1. Later(L[a][b], L[k][i]) /\ Later(L[e][d], L[k][i])
        BY <2>3, <2>5
      <3>2. L[a][b] = L[e][d]
        BY <1>11, <2>3, <2>5, <3>1, OnceAt
      <3> QED
        BY <2>3, <3>2
  <1>12. Sides(K)
    <2>1. ASSUME NEW i \in 1 .. Len(K[6]) PROVE K[6][i].class # Low
      BY <1>2, <1>3, <2>1 DEF Sides
    <2>2. ASSUME NEW i \in 1 .. Len(K[7]) PROVE K[7][i].class = Low
      BY <1>2, <1>3, <2>2 DEF Sides
    <2> QED
      BY <2>1, <2>2 DEF Sides
  <1>13. ASSUME NEW P \in SUBSET Places
         PROVE  Held(K, P) = Held(L, P) \cup (IF c \in P THEN {x} \cap Messages ELSE {})
    <2>1. ASSUME NEW y \in Held(K, P)
          PROVE  y \in Held(L, P) \/ (c \in P /\ y = x /\ x \in Messages)
      <3>1. PICK a \in P : \E b \in 1 .. Len(K[a]) : y = K[a][b]
        BY <2>1 DEF Held
      <3>2. PICK b \in 1 .. Len(K[a]) : y = K[a][b]
        BY <3>1
      <3>3. y \in Messages /\ a \in Places
        BY <2>1 DEF Held
      <3>4. CASE a = c /\ y = x
        BY <3>3, <3>4
      <3>5. CASE b \in 1 .. Len(L[a]) /\ y = L[a][b]
        BY <3>3, <3>5 DEF Held
      <3> QED
        BY <1>3, <3>2, <3>3, <3>4, <3>5
    <2>2. ASSUME NEW y \in Held(L, P) PROVE y \in Held(K, P)
      <3>1. PICK a \in P : \E b \in 1 .. Len(L[a]) : y = L[a][b]
        BY <2>2 DEF Held
      <3>2. PICK b \in 1 .. Len(L[a]) : y = L[a][b]
        BY <3>1
      <3>3. y \in Messages /\ a \in Places
        BY <2>2 DEF Held
      <3>4. b \in 1 .. Len(K[a]) /\ y = K[a][b]
        BY <1>0, <1>1, <3>2, <3>3
      <3> QED
        BY <3>3, <3>4 DEF Held
    <2>3. ASSUME c \in P, x \in Messages PROVE x \in Held(K, P)
      <3>1. m + 1 \in 1 .. Len(K[c]) /\ x = K[c][m + 1]
        BY <1>1
      <3> QED
        BY <2>3, <3>1 DEF Held
    <2> QED
      BY <2>1, <2>2, <2>3
  <1> QED
    BY <1>10, <1>11, <1>12, <1>13

\* an ordinary message passes the priority channel
Passed(L, K) == \E n \in Nat :
    /\ Len(L[5]) = 0 /\ Len(K[5]) = 1 /\ K[5][1] = L[7][1]
    /\ Len(K[7]) = n /\ Len(L[7]) = n + 1
    /\ \A b \in 1 .. n : K[7][b] = L[7][b + 1]
    /\ \A a \in Places : a # 5 /\ a # 7 => K[a] = L[a]

\* Send takes an ordinary message past the priority channel, where no priority
\* message waits that a later ordinary one has already gone before.
LEMMA PassedKeeps ==
  ASSUME NEW L \in Lines, NEW K \in Lines, Passed(L, K), Sides(L), Clear(L)
  PROVE  /\ Rising(L) => Rising(K)
         /\ Once(L) => Once(K)
         /\ Sides(K)
  <1>0. \A a \in Places : Len(K[a]) \in Nat /\ Len(L[a]) \in Nat /\ a \in Nat /\ a <= 7
    BY LineTyped DEF Places
  <1>1. PICK n \in Nat :
          /\ Len(L[5]) = 0 /\ Len(K[5]) = 1 /\ K[5][1] = L[7][1]
          /\ Len(K[7]) = n /\ Len(L[7]) = n + 1
          /\ \A b \in 1 .. n : K[7][b] = L[7][b + 1]
          /\ \A a \in Places : a # 5 /\ a # 7 => K[a] = L[a]
    BY DEF Passed
  <1>2. 5 \in Places /\ 6 \in Places /\ 7 \in Places
    BY DEF Places
  <1>3. L[7][1].class = Low /\ L[7][1] \in Frames /\ K[6] = L[6] /\ 1 \in 1 .. Len(L[7])
    <2>1. 1 \in 1 .. Len(L[7])
      BY <1>1
    <2>2. L[7][1] \in Frames
      BY <1>2, <2>1, LineTyped
    <2>3. L[7][1].class = Low
      BY <2>1 DEF Sides
    <2>4. K[6] = L[6]
      BY <1>1, <1>2
    <2> QED
      BY <2>1, <2>2, <2>3, <2>4
  \* where what stands in K stood
  <1>4. ASSUME NEW a \in Places, NEW b \in 1 .. Len(K[a])
        PROVE  \/ a = 5 /\ b = 1
               \/ a = 7 /\ b + 1 \in 1 .. Len(L[7]) /\ K[a][b] = L[7][b + 1] /\ b \in Nat
               \/ a # 5 /\ a # 7 /\ b \in 1 .. Len(L[a]) /\ K[a][b] = L[a][b]
    <2>1. CASE a = 5
      <3>1. Len(K[a]) = 1
        BY <1>1, <2>1
      <3>2. b \in 1 .. 1
        BY <3>1
      <3>3. b = 1
        BY <3>2
      <3> QED
        BY <2>1, <3>3
    <2>2. CASE a = 7
      <3>1. b \in 1 .. n /\ b + 1 \in 1 .. n + 1
        BY <1>1, <2>2
      <3> QED
        BY <1>1, <2>2, <3>1
    <2>3. CASE a # 5 /\ a # 7
      BY <1>1, <2>3
    <2> QED
      BY <2>1, <2>2, <2>3
  <1>5. ASSUME Rising(L) PROVE Rising(K)
    <2> SUFFICES ASSUME NEW k \in Places, NEW i \in 1 .. Len(K[k]),
                        NEW a \in Places, NEW b \in 1 .. Len(K[a]),
                        a < k \/ (a = k /\ b < i), Same(K[a][b], K[k][i])
                 PROVE  K[a][b].id < K[k][i].id
      BY DEF Rising
    <2>0. a \in Nat /\ k \in Nat /\ b \in Nat /\ i \in Nat /\ a <= 7 /\ k <= 7
      BY <1>0
    <2>1. CASE a = 5 /\ b = 1
      <3>1. k = 6 \/ k = 7
        BY <1>0, <1>1, <2>0, <2>1
      <3>2. k # 6
        BY <1>1, <1>3, <2>1 DEF Same, Sides
      <3>3. k = 7 /\ i + 1 \in 1 .. Len(L[7]) /\ K[k][i] = L[7][i + 1] /\ 1 < i + 1
        BY <1>4, <2>0, <3>1, <3>2
      <3> QED
        BY <1>1, <1>2, <1>3, <1>5, <2>1, <3>3 DEF Rising
    <2>2. CASE k = 5 /\ i = 1
      <3>1. a < 5
        BY <1>0, <2>0, <2>2
      <3>2. b \in 1 .. Len(L[a]) /\ K[a][b] = L[a][b] /\ a < 7
        BY <1>4, <2>0, <3>1
      <3> QED
        BY <1>1, <1>2, <1>3, <1>5, <2>2, <3>2 DEF Rising
    <2>3. CASE ~(a = 5 /\ b = 1) /\ ~(k = 5 /\ i = 1)
      <3> DEFINE b1 == IF a = 7 THEN b + 1 ELSE b
                 i1 == IF k = 7 THEN i + 1 ELSE i
      <3>1. /\ b1 \in 1 .. Len(L[a]) /\ K[a][b] = L[a][b1]
            /\ i1 \in 1 .. Len(L[k]) /\ K[k][i] = L[k][i1]
        BY <1>4, <2>3
      <3>2. a < k \/ (a = k /\ b1 < i1)
        BY <2>0
      <3> HIDE DEF b1, i1
      <3> QED
        BY <1>5, <3>1, <3>2 DEF Rising
    <2> QED
      BY <2>1, <2>2, <2>3
  <1>6. ASSUME Once(L) PROVE Once(K)
    <2> SUFFICES ASSUME NEW k \in Places, NEW i \in 1 .. Len(K[k]),
                        NEW a \in Places, NEW b \in 1 .. Len(K[a]),
                        NEW c \in Places, NEW d \in 1 .. Len(K[c]),
                        a < k \/ (a = k /\ b < i), c < k \/ (c = k /\ d < i),
                        Later(K[a][b], K[k][i]), Later(K[c][d], K[k][i])
                 PROVE  K[a][b] = K[c][d]
      BY DEF Once
    <2>0. /\ a \in Nat /\ k \in Nat /\ b \in Nat /\ i \in Nat /\ a <= 7 /\ k <= 7
          /\ c \in Nat /\ c <= 7 /\ d \in Nat
      BY <1>0
    <2>1. K[k][i].class = High /\ K[a][b].class = Low /\ K[c][d].class = Low /\ Low # High
      BY DEF Later, Low, High
    <2>2. k # 7
      <3> SUFFICES ASSUME k = 7 PROVE FALSE
        OBVIOUS
      <3>1. i \in 1 .. n /\ i + 1 \in 1 .. n + 1
        BY <1>1
      <3>2. K[7][i].class = Low
        <4>1. K[7][i] = L[7][i + 1]
          BY <1>1, <3>1
        <4>2. i + 1 \in 1 .. Len(L[7])
          BY <1>1, <3>1
        <4>3. L[7][i + 1].class = Low
          BY <4>2 DEF Sides
        <4> QED
          BY <4>1, <4>3
      <3> QED
        BY <2>1, <3>2
    <2>3. ~(k = 5 /\ i = 1)
      BY <1>1, <1>3, <2>1
    <2>4. i \in 1 .. Len(L[k]) /\ K[k][i] = L[k][i] /\ k # 5
      BY <1>4, <2>2, <2>3
    <2>5. CASE k = 6
      <3>1. K[k][i] \in Held(L, {6})
        <4>1. K[k][i] \in Messages
          BY <1>2, <2>1, <2>4, LineTyped, FrameTyped DEF Low, High
        <4> QED
          BY <2>4, <2>5, <4>1 DEF Held
      <3>2. ASSUME NEW u \in Places, NEW v \in 1 .. Len(K[u]), u < k \/ (u = k /\ v < i),
                   Later(K[u][v], K[k][i])
            PROVE  K[u][v] = K[5][1]
        <4>1. K[u][v].class = Low
          BY <3>2 DEF Later
        <4>2. u # 6
          BY <1>3, <4>1 DEF Sides
        <4>3. u \in Nat /\ u < 6
          BY <1>0, <2>0, <2>5, <3>2, <4>2
        <4>4. CASE u = 5
          BY <1>1, <4>4
        <4>5. CASE u # 5
          <5>1. v \in 1 .. Len(L[u]) /\ K[u][v] = L[u][v]
            <6>1. u # 7
              BY <4>3
            <6>2. K[u] = L[u]
              BY <1>1, <4>5, <6>1
            <6> QED
              BY <6>2
          <5>0. u \in 1 .. 5
            BY <4>3 DEF Places
          <5>2. K[u][v] \in Messages
            BY <4>1, <5>1, LineTyped, FrameTyped DEF Low
          <5>3. K[u][v] \in Held(L, 1 .. 5)
            BY <5>0, <5>1, <5>2 DEF Held
          <5> QED
            BY <3>1, <3>2, <5>3 DEF Clear
        <4> QED
          BY <4>4, <4>5
      <3> QED
        BY <3>2
    <2>6. CASE k # 6
      <3>1. k < 5
        BY <2>0, <2>2, <2>4, <2>6
      <3>2. a < 5 /\ c < 5
        BY <2>0, <3>1
      <3>3. /\ b \in 1 .. Len(L[a]) /\ K[a][b] = L[a][b]
            /\ d \in 1 .. Len(L[c]) /\ K[c][d] = L[c][d]
        BY <1>4, <2>0, <3>2
      <3> QED
        BY <1>6, <2>4, <3>3 DEF Once
    <2> QED
      BY <2>5, <2>6
  <1>7. Sides(K)
    <2>1. ASSUME NEW i \in 1 .. Len(K[7]) PROVE K[7][i].class = Low
      <3>1. i \in 1 .. n /\ i + 1 \in 1 .. n + 1
        BY <1>1
      <3>2. K[7][i] = L[7][i + 1] /\ i + 1 \in 1 .. Len(L[7])
        BY <1>1, <3>1
      <3>3. L[7][i + 1].class = Low
        BY <3>2 DEF Sides
      <3> QED
        BY <3>2, <3>3
    <2> QED
      BY <1>3, <2>1 DEF Sides
  <1> QED
    BY <1>5, <1>6, <1>7

\* each priority rises, so what has come first has no gap either
LEMMA GapPrefix ==
  ASSUME NEW L \in Lines, NEW s \in Seq(Messages), \A i \in DOMAIN s : s[i].id = i,
         NEW n \in Nat, n <= Len(s), Genuine(L, s, 1 .. n), Rising(L),
         NEW P \in SUBSET Places, NEW R \in SUBSET Places, P \subseteq R,
         \A a \in P, c \in R \ P : a < c,
         Gapless(s, Held(L, R))
  PROVE  Gapless(s, Held(L, P))
  <1> SUFFICES ASSUME NEW x \in Held(L, P), NEW i \in 1 .. x.id, s[i].class = x.class
               PROVE  s[i] \in Held(L, P)
    BY DEF Gapless
  <1>1. PICK a \in P : \E b \in 1 .. Len(L[a]) : x = L[a][b]
    BY DEF Held
  <1>2. PICK b \in 1 .. Len(L[a]) : x = L[a][b]
    BY <1>1
  <1>3. x \in Held(L, R) /\ x \in Held(L, Places) /\ x \in Messages
    BY DEF Held
  <1>4. x.id \in 1 .. n /\ x.id \in Nat
    BY <1>3 DEF Genuine
  <1> DEFINE y == s[i]
  <1>5. i \in DOMAIN s /\ y.id = i /\ y \in Messages /\ i \in Nat /\ i <= x.id
    BY <1>4
  <1>6. y \in Held(L, R)
    BY <1>3 DEF Gapless
  <1>7. PICK c \in R : \E d \in 1 .. Len(L[c]) : y = L[c][d]
    BY <1>6 DEF Held
  <1>8. PICK d \in 1 .. Len(L[c]) : y = L[c][d]
    BY <1>7
  <1>9. c \in P
    <2> SUFFICES ASSUME c \notin P PROVE FALSE
      OBVIOUS
    <2>1. a < c /\ a \in Places /\ c \in Places
      OBVIOUS
    <2>2. Same(x, y)
      BY <1>3, FrameTyped DEF Same, Frames
    <2>3. x.id < y.id
      BY <1>2, <1>8, <2>1, <2>2 DEF Rising
    <2> QED
      BY <1>4, <1>5, <2>3
  <1> QED
    BY <1>5, <1>8, <1>9 DEF Held

-----------------------------------------------------------------------------
(* The inductive invariant.                                                *)

One(x) == IF x = Nothing THEN <<>> ELSE <<x>>

\* what e's user has sent and no one has lost, from the one who reads it back
Line(e) == <<got[Peer[e]], recvCh[Peer[e]], One(hand[Peer[e]]), wire[Peer[e]],
             One(out[e]), prioCh[e], sendCh[e]>>

\* of a line with n messages of the script s sent
Sound(L, s, n) ==
    /\ n <= Len(s) /\ Genuine(L, s, 1 .. n)
    /\ Rising(L) /\ Once(L) /\ Sides(L)

Whole(L, s, n) == \A i \in 1 .. n : s[i] \in Held(L, Places)

\* nothing is lost between the two users as long as this holds
Up(e) == reader[Peer[e]] /\ ~cut /\ sock[Peer[e]] /\ send[e] # "ended"

DirInv(e) ==
    /\ Sound(Line(e), Script[e], sent[e])
    /\ send[e] = "select" => Clear(Line(e))
    /\ ~parent[e] => Gapless(Script[e], Held(Line(e), 1 .. 1))
    /\ ~parent[e] /\ reader[Peer[e]] => Gapless(Script[e], Held(Line(e), 1 .. 4))
    /\ ~parent[e] /\ Up(e) => Whole(Line(e), Script[e], sent[e])

\* sendRoutine and receiveRoutine hold data exactly where they hand it on
Handing == \A e \in Ends :
    /\ send[e] = "write" <=> out[e] # Nothing
    /\ recv[e] = "deliver" <=> hand[e] # Nothing

ConnInv == TypeOK /\ Handing /\ \A e \in Ends : DirInv(e)

-----------------------------------------------------------------------------
(* What the steps of a line keep.                                          *)

\* What is sound stays so when messages only move forward or leave.
LEMMA SoundFollows ==
  ASSUME NEW L \in Lines, NEW K \in Lines, NEW s, NEW n, Follows(L, K), Sound(L, s, n), Sides(K)
  PROVE  Sound(K, s, n)
  <1>1. Rising(K) /\ Once(K) /\ Held(K, Places) \subseteq Held(L, Places)
    BY FollowsKeeps DEF Sound
  <1>2. Genuine(K, s, 1 .. n)
    BY <1>1 DEF Sound, Genuine
  <1> QED
    BY <1>1, <1>2 DEF Sound

\* A line that holds all that was sent has no gap.
LEMMA WholeGapless ==
  ASSUME NEW L \in Lines, NEW s \in Seq(Messages), NEW n \in Nat, Sound(L, s, n), Whole(L, s, n)
  PROVE  Gapless(s, Held(L, Places))
  <1> SUFFICES ASSUME NEW x \in Held(L, Places), NEW i \in 1 .. x.id
               PROVE  s[i] \in Held(L, Places)
    BY DEF Gapless
  <1>1. x.id \in 1 .. n
    BY DEF Sound, Genuine
  <1>2. i \in 1 .. n
    BY <1>1
  <1> QED
    BY <1>2 DEF Whole

\* A message that moves on to the next place leaves the channels to their
\* priorities.
LEMMA MovedSides ==
  ASSUME NEW L \in Lines, NEW K \in Lines, NEW k \in 1 .. 5, NEW m \in Nat, NEW n \in Nat,
         Moved(L, K, k, k + 1, m, n), Sides(L)
  PROVE  Sides(K)
  <1>1. 6 \in Places /\ 7 \in Places /\ k # 7 /\ k + 1 # 7 /\ k # 6
    BY DEF Places
  <1>2. K[7] = L[7]
    BY <1>1 DEF Moved
  <1>3. ASSUME NEW i \in 1 .. Len(K[6]) PROVE K[6][i].class # Low
    <2>1. CASE k = 5
      <3>1. i \in 1 .. n /\ K[6][i] = L[6][i + 1] /\ Len(L[6]) = n + 1
        BY <2>1 DEF Moved
      <3>2. i + 1 \in 1 .. Len(L[6])
        BY <3>1
      <3> QED
        BY <3>1, <3>2 DEF Sides
    <2>2. CASE k # 5
      <3>1. k + 1 # 6
        BY <2>2
      <3>2. K[6] = L[6]
        BY <1>1, <3>1 DEF Moved
      <3> QED
        BY <3>2 DEF Sides
    <2> QED
      BY <2>1, <2>2
  <1> QED
    BY <1>2, <1>3 DEF Sides

\* A message that moves on to the next place: all is sound and nothing is lost.
LEMMA MovedSound ==
  ASSUME NEW L \in Lines, NEW K \in Lines, NEW k \in 1 .. 5, NEW m \in Nat, NEW n \in Nat,
         Moved(L, K, k, k + 1, m, n), NEW s, NEW N, Sound(L, s, N)
  PROVE  /\ Sound(K, s, N)
         /\ \A P \in SUBSET Places : (k \in P <=> k + 1 \in P) => Held(K, P) = Held(L, P)
  <1> DEFINE l == k + 1
  <1>1. k \in Places /\ l \in Places /\ k < l /\ \A a \in Places : ~(k < a /\ a < l)
    BY DEF Places
  <1>2. Moved(L, K, k, l, m, n)
    OBVIOUS
  <1>3. Sides(K)
    BY MovedSides DEF Sound
  <1> HIDE DEF l
  <1>4. Follows(L, K)
    BY <1>1, <1>2, MovedFollows
  <1>5. Sound(K, s, N)
    BY <1>3, <1>4, SoundFollows
  <1>6. ASSUME NEW P \in SUBSET Places, k \in P <=> l \in P PROVE Held(K, P) = Held(L, P)
    BY <1>1, <1>2, <1>6, MovedHeld
  <1> QED
    BY <1>5, <1>6 DEF l

-----------------------------------------------------------------------------
(* A direction of the connection as such a line.                           *)

\* Seven sequences make a line.
LEMMA TupleLine ==
  ASSUME NEW a \in Seq(Frames), NEW b \in Seq(Frames), NEW c \in Seq(Frames), NEW d \in Seq(Frames),
         NEW e \in Seq(Frames), NEW f \in Seq(Frames), NEW g \in Seq(Frames)
  PROVE  /\ <<a, b, c, d, e, f, g>> \in Lines
         /\ \A L : L = <<a, b, c, d, e, f, g>> =>
              L[1] = a /\ L[2] = b /\ L[3] = c /\ L[4] = d /\ L[5] = e /\ L[6] = f /\ L[7] = g
  BY DEF Lines, Places

\* Messages are frames, nothing and a ping are no messages.
LEMMA FramesSeq ==
  /\ \A s \in Seq(Messages) : s \in Seq(Frames)
  /\ \A x \in Frames \cup {Nothing} : One(x) \in Seq(Frames)
  /\ Nothing \notin Frames /\ Ping \notin Messages
  <1>1. \A s \in Seq(Messages) : s \in Seq(Frames)
    BY DEF Frames
  <1>2. \A x \in Frames \cup {Nothing} : One(x) \in Seq(Frames)
    BY DEF One
  <1>3. Nothing \notin Frames /\ Ping \notin Messages
    BY DEF Nothing, Frames, Messages, Ping, Low, High
  <1> QED
    BY <1>1, <1>2, <1>3

\* Where the places of a direction are in the state.
LEMMA LineIs ==
  ASSUME TypeOK, NEW e \in Ends
  PROVE  /\ Line(e) \in Lines
         /\ Line(e)[1] = got[Peer[e]] /\ Line(e)[2] = recvCh[Peer[e]]
         /\ Line(e)[3] = One(hand[Peer[e]]) /\ Line(e)[4] = wire[Peer[e]]
         /\ Line(e)[5] = One(out[e]) /\ Line(e)[6] = prioCh[e] /\ Line(e)[7] = sendCh[e]
  <1>1. Peer[e] \in Ends
    BY ConnAssumption
  <1>2. /\ got[Peer[e]] \in Seq(Messages) /\ recvCh[Peer[e]] \in Seq(Messages)
        /\ hand[Peer[e]] \in Frames \cup {Nothing} /\ wire[Peer[e]] \in Seq(Frames)
        /\ out[e] \in Frames \cup {Nothing} /\ prioCh[e] \in Seq(Frames) /\ sendCh[e] \in Seq(Messages)
    BY <1>1 DEF TypeOK, Frames
  <1>3. /\ got[Peer[e]] \in Seq(Frames) /\ recvCh[Peer[e]] \in Seq(Frames)
        /\ One(hand[Peer[e]]) \in Seq(Frames) /\ wire[Peer[e]] \in Seq(Frames)
        /\ One(out[e]) \in Seq(Frames) /\ prioCh[e] \in Seq(Frames) /\ sendCh[e] \in Seq(Frames)
    BY <1>2, FramesSeq
  <1> DEFINE g == got[Peer[e]]
             r == recvCh[Peer[e]]
             h == One(hand[Peer[e]])
             w == wire[Peer[e]]
             o == One(out[e])
             p == prioCh[e]
             q == sendCh[e]
             L == Line(e)
  <1>4. /\ g \in Seq(Frames) /\ r \in Seq(Frames) /\ h \in Seq(Frames) /\ w \in Seq(Frames)
        /\ o \in Seq(Frames) /\ p \in Seq(Frames) /\ q \in Seq(Frames)
    BY <1>3
  <1>5. L = <<g, r, h, w, o, p, q>>
    BY DEF Line
  <1>6. SUFFICES /\ L \in Lines /\ L[1] = g /\ L[2] = r /\ L[3] = h /\ L[4] = w
                 /\ L[5] = o /\ L[6] = p /\ L[7] = q
    OBVIOUS
  <1> HIDE DEF g, r, h, w, o, p, q, L
  <1> QED
    BY <1>4, <1>5, TupleLine

\* the same after the step
LEMMA LineBecomes ==
  ASSUME TypeOK', NEW e \in Ends
  PROVE  /\ Line(e)' \in Lines
         /\ Line(e)'[1] = got'[Peer[e]] /\ Line(e)'[2] = recvCh'[Peer[e]]
         /\ Line(e)'[3] = One(hand'[Peer[e]]) /\ Line(e)'[4] = wire'[Peer[e]]
         /\ Line(e)'[5] = One(out'[e]) /\ Line(e)'[6] = prioCh'[e] /\ Line(e)'[7] = sendCh'[e]
  <1>1. Peer[e] \in Ends
    BY ConnAssumption
  <1>2. /\ got'[Peer[e]] \in Seq(Messages) /\ recvCh'[Peer[e]] \in Seq(Messages)
        /\ hand'[Peer[e]] \in Frames \cup {Nothing} /\ wire'[Peer[e]] \in Seq(Frames)
        /\ out'[e] \in Frames \cup {Nothing} /\ prioCh'[e] \in Seq(Frames)
        /\ sendCh'[e] \in Seq(Messages)
    BY <1>1 DEF TypeOK, Frames
  <1>3. /\ got'[Peer[e]] \in Seq(Frames) /\ recvCh'[Peer[e]] \in Seq(Frames)
        /\ One(hand'[Peer[e]]) \in Seq(Frames) /\ wire'[Peer[e]] \in Seq(Frames)
        /\ One(out'[e]) \in Seq(Frames) /\ prioCh'[e] \in Seq(Frames) /\ sendCh'[e] \in Seq(Frames)
    BY <1>2, FramesSeq
  <1> DEFINE g == got'[Peer[e]]
             r == recvCh'[Peer[e]]
             h == One(hand'[Peer[e]])
             w == wire'[Peer[e]]
             o == One(out'[e])
             p == prioCh'[e]
             q == sendCh'[e]
             L == Line(e)'
  <1>4. /\ g \in Seq(Frames) /\ r \in Seq(Frames) /\ h \in Seq(Frames) /\ w \in Seq(Frames)
        /\ o \in Seq(Frames) /\ p \in Seq(Frames) /\ q \in Seq(Frames)
    BY <1>3
  <1>5. L = <<g, r, h, w, o, p, q>>
    BY DEF Line
  <1>6. SUFFICES /\ L \in Lines /\ L[1] = g /\ L[2] = r /\ L[3] = h /\ L[4] = w
                 /\ L[5] = o /\ L[6] = p /\ L[7] = q
    OBVIOUS
  <1> HIDE DEF g, r, h, w, o, p, q, L
  <1> QED
    BY <1>4, <1>5, TupleLine

\* What has no gap up to a place has none up to an earlier one.
LEMMA GapFront ==
  ASSUME NEW L \in Lines, NEW s \in Seq(Messages), \A i \in DOMAIN s : s[i].id = i,
         NEW n \in Nat, Sound(L, s, n), NEW i \in Places, NEW j \in Places, i <= j,
         Gapless(s, Held(L, 1 .. j))
  PROVE  Gapless(s, Held(L, 1 .. i))
  <1> DEFINE P == 1 .. i
             R == 1 .. j
  <1>1. P \in SUBSET Places /\ R \in SUBSET Places /\ P \subseteq R /\ \A a \in P, c \in R \ P : a < c
    BY DEF Places
  <1>2. Gapless(s, Held(L, R)) /\ n <= Len(s) /\ Genuine(L, s, 1 .. n) /\ Rising(L)
    BY DEF Sound
  <1>3. SUFFICES Gapless(s, Held(L, P))
    OBVIOUS
  <1> HIDE DEF P, R
  <1> QED
    BY <1>1, <1>2, GapPrefix

\* A step that moves nothing back: contexts stay done, readers and senders ended.
Steady(d) ==
    /\ parent[d] => parent'[d]
    /\ reader'[Peer[d]] => reader[Peer[d]]
    /\ Up(d)' => Up(d)

\* What every case of a step knows of a direction d, its lines and its script.
LEMMA DirTyped ==
  ASSUME TypeOK, TypeOK', NEW d \in Ends
  PROVE  /\ Line(d) \in Lines /\ Line(d)' \in Lines
         /\ Script[d] \in Seq(Messages) /\ \A i \in DOMAIN Script[d] : Script[d][i].id = i
         /\ sent[d] \in Nat /\ Peer[d] \in Ends
  <1>1. sent[d] \in Nat
    BY DEF TypeOK
  <1>2. Script[d] \in Seq(Messages) /\ (\A i \in DOMAIN Script[d] : Script[d][i].id = i) /\ Peer[d] \in Ends
    BY ConnAssumption
  <1> QED
    BY <1>1, <1>2, LineIs, LineBecomes

\* How the conjuncts of DirInv(d)' are put together.
LEMMA DirNext ==
  ASSUME NEW d \in Ends, NEW L, NEW K, NEW s, Line(d) = L, Line(d)' = K, Script[d] = s,
         DirInv(d), Steady(d), sent'[d] = sent[d],
         Sound(K, s, sent[d]),
         send'[d] = "select" => Clear(K),
         ~parent[d] /\ Gapless(s, Held(L, 1 .. 1)) => Gapless(s, Held(K, 1 .. 1)),
         ~parent[d] /\ reader'[Peer[d]] /\ Gapless(s, Held(L, 1 .. 4)) => Gapless(s, Held(K, 1 .. 4)),
         Up(d)' /\ Whole(L, s, sent[d]) => Whole(K, s, sent[d])
  PROVE  DirInv(d)'
  BY DEF DirInv, Steady

\* A step that leaves the direction's messages where they are.
LEMMA DirKept ==
  ASSUME NEW d \in Ends, DirInv(d), Steady(d), Line(d)' = Line(d), sent'[d] = sent[d],
         send'[d] = "select" => send[d] = "select" \/ Clear(Line(d))
  PROVE  DirInv(d)'
  BY DirNext DEF DirInv

\* A step that moves one message to the next place.
LEMMA DirMoved ==
  ASSUME TypeOK, TypeOK', NEW d \in Ends, DirInv(d), Steady(d), sent'[d] = sent[d],
         NEW k \in 1 .. 5, NEW m \in Nat, NEW n \in Nat, Moved(Line(d), Line(d)', k, k + 1, m, n),
         send'[d] = "select" => send[d] = "select" /\ k < 4,
         k = 1 => reader[Peer[d]],
         k = 4 /\ reader[Peer[d]] => Up(d)
  PROVE  DirInv(d)'
  <1> DEFINE L == Line(d)
             K == Line(d)'
             s == Script[d]
             N == sent[d]
  <1>0. L \in Lines /\ K \in Lines /\ s \in Seq(Messages) /\ (\A i \in DOMAIN s : s[i].id = i) /\ N \in Nat
    BY DirTyped
  <1>1. /\ Sound(L, s, N)
        /\ send[d] = "select" => Clear(L)
        /\ ~parent[d] /\ reader[Peer[d]] => Gapless(s, Held(L, 1 .. 4))
        /\ ~parent[d] /\ Up(d) => Whole(L, s, N)
    BY DEF DirInv
  <1>2. Moved(L, K, k, k + 1, m, n) /\ Line(d) = L /\ Line(d)' = K /\ Script[d] = s /\ sent[d] = N
    OBVIOUS
  <1> HIDE DEF L, K, s, N
  <1>3. /\ Sound(K, s, N)
        /\ \A P \in SUBSET Places : (k \in P <=> k + 1 \in P) => Held(K, P) = Held(L, P)
    BY <1>0, <1>1, <1>2, MovedSound
  <1>4. Held(K, Places) = Held(L, Places)
    <2>1. k \in Places <=> k + 1 \in Places
      BY DEF Places
    <2> QED
      BY <1>3, <2>1
  <1>5. k # 4 => Held(K, 1 .. 4) = Held(L, 1 .. 4)
    <2>1. k # 4 => (k \in 1 .. 4 <=> k + 1 \in 1 .. 4)
      OBVIOUS
    <2>2. 1 .. 4 \in SUBSET Places
      BY DEF Places
    <2> QED
      BY <1>3, <2>1, <2>2
  <1>6. send'[d] = "select" => Clear(K)
    <2> SUFFICES ASSUME send'[d] = "select" PROVE Clear(K)
      OBVIOUS
    <2>1. k < 4 /\ Clear(L)
      BY <1>1
    <2>2. (k \in 1 .. 5 <=> k + 1 \in 1 .. 5) /\ (k \in {6} <=> k + 1 \in {6})
      BY <2>1
    <2>3. 1 .. 5 \in SUBSET Places /\ {6} \in SUBSET Places
      BY DEF Places
    <2>4. Held(K, 1 .. 5) = Held(L, 1 .. 5) /\ Held(K, {6}) = Held(L, {6})
      BY <1>3, <2>2, <2>3
    <2> QED
      BY <2>1, <2>4 DEF Clear
  <1>7. ASSUME ~parent[d], Gapless(s, Held(L, 1 .. 1)) PROVE Gapless(s, Held(K, 1 .. 1))
    <2>1. CASE k = 1
      <3>1. Gapless(s, Held(K, 1 .. 4))
        BY <1>1, <1>5, <1>7, <2>1
      <3>2. 1 \in Places /\ 4 \in Places /\ 1 <= 4
        BY DEF Places
      <3> QED
        BY <1>0, <1>3, <3>1, <3>2, GapFront
    <2>2. CASE k # 1
      <3>1. k \in 1 .. 1 <=> k + 1 \in 1 .. 1
        BY <2>2
      <3>2. 1 .. 1 \in SUBSET Places
        BY DEF Places
      <3> QED
        BY <1>3, <1>7, <3>1, <3>2
    <2> QED
      BY <2>1, <2>2
  <1>8. ASSUME ~parent[d], reader'[Peer[d]], Gapless(s, Held(L, 1 .. 4)) PROVE Gapless(s, Held(K, 1 .. 4))
    <2>1. CASE k = 4
      <3>1. Whole(L, s, N)
        BY <1>1, <1>8, <2>1 DEF Steady
      <3>2. Gapless(s, Held(L, Places))
        BY <1>0, <1>1, <3>1, WholeGapless
      <3>3. Gapless(s, Held(K, 1 .. 7))
        BY <1>4, <3>2 DEF Places
      <3>4. 4 \in Places /\ 7 \in Places /\ 4 <= 7
        BY DEF Places
      <3> QED
        BY <1>0, <1>3, <3>3, <3>4, GapFront
    <2>2. CASE k # 4
      BY <1>5, <1>8, <2>2
    <2> QED
      BY <2>1, <2>2
  <1>9. Whole(L, s, N) => Whole(K, s, N)
    BY <1>4 DEF Whole
  <1> QED
    BY <1>2, <1>3, <1>6, <1>7, <1>8, <1>9, DirNext

\* A step that drops a message: the reader who ends, a ping that is answered, a
\* write to a closed socket.
LEMMA DirDropped ==
  ASSUME TypeOK, TypeOK', NEW d \in Ends, DirInv(d), Steady(d), sent'[d] = sent[d],
         NEW l \in {2, 4, 5}, NEW n \in Nat, Dropped(Line(d), Line(d)', l, n),
         send'[d] = "select" => send[d] = "select" /\ l # 5,
         l = 2 => ~reader'[Peer[d]],
         l = 4 => Line(d)[4][1] \notin Messages,
         l = 5 => ~Up(d)'
  PROVE  DirInv(d)'
  <1> DEFINE L == Line(d)
             K == Line(d)'
             s == Script[d]
             N == sent[d]
  <1>0. L \in Lines /\ K \in Lines
    BY DirTyped
  <1>1. Sound(L, s, N) /\ (send[d] = "select" => Clear(L))
    BY DEF DirInv
  <1>2. /\ Dropped(L, K, l, n) /\ Line(d) = L /\ Line(d)' = K /\ Script[d] = s /\ sent[d] = N
        /\ l = 4 => L[4][1] \notin Messages
    OBVIOUS
  <1> HIDE DEF L, K, s, N
  <1>3. l \in Places /\ 6 \in Places /\ 7 \in Places
    BY DEF Places
  <1>4. /\ Follows(L, K)
        /\ \A P \in SUBSET Places : Held(K, P) \subseteq Held(L, P)
        /\ \A P \in SUBSET Places : l \notin P \/ L[l][1] \notin Messages => Held(K, P) = Held(L, P)
    BY <1>0, <1>2, <1>3, DroppedFollows
  <1>5. Sides(K)
    <2>1. K[6] = L[6] /\ K[7] = L[7]
      BY <1>2, <1>3 DEF Dropped
    <2> QED
      BY <1>1, <2>1 DEF Sound, Sides
  <1>6. Sound(K, s, N)
    BY <1>0, <1>1, <1>4, <1>5, SoundFollows
  <1>7. 1 .. 1 \in SUBSET Places /\ 1 .. 4 \in SUBSET Places /\ 1 .. 5 \in SUBSET Places
        /\ {6} \in SUBSET Places /\ l \notin {6} /\ l \notin 1 .. 1
    BY DEF Places
  <1>8. send'[d] = "select" => Clear(K)
    <2>1. Held(K, 1 .. 5) \subseteq Held(L, 1 .. 5) /\ Held(K, {6}) \subseteq Held(L, {6})
      BY <1>4, <1>7
    <2>2. Clear(L) => Clear(K)
      BY <2>1 DEF Clear
    <2> QED
      BY <1>1, <2>2
  <1>9. Held(K, 1 .. 1) = Held(L, 1 .. 1)
    BY <1>4, <1>7
  <1>10. reader'[Peer[d]] => Held(K, 1 .. 4) = Held(L, 1 .. 4)
    <2>1. CASE l = 5
      <3>1. l \notin 1 .. 4
        BY <2>1
      <3> QED
        BY <1>4, <1>7, <3>1
    <2>2. CASE l = 4
      BY <1>2, <1>4, <1>7, <2>2
    <2> QED
      BY <2>1, <2>2
  <1>11. Up(d)' /\ Whole(L, s, N) => Whole(K, s, N)
    <2>1. CASE l = 4
      <3>1. Held(K, Places) = Held(L, Places)
        BY <1>2, <1>4, <2>1
      <3> QED
        BY <3>1 DEF Whole
    <2>2. CASE l # 4
      BY <2>2 DEF Up
    <2> QED
      BY <2>1, <2>2
  <1> QED
    BY <1>2, <1>6, <1>8, <1>9, <1>10, <1>11, DirNext

\* A step that empties the wire, or the sender's places when its routine ends.
LEMMA DirCleared ==
  ASSUME TypeOK, TypeOK', NEW d \in Ends, DirInv(d), Steady(d), sent'[d] = sent[d],
         NEW C \in {{4}, {5, 6, 7}},
         Cleared(Line(d), Line(d)', C),
         send'[d] = "select" => send[d] = "select" /\ C = {4}, ~Up(d)'
  PROVE  DirInv(d)'
  <1> DEFINE L == Line(d)
             K == Line(d)'
             s == Script[d]
             N == sent[d]
  <1>0. L \in Lines /\ K \in Lines /\ s \in Seq(Messages) /\ (\A i \in DOMAIN s : s[i].id = i) /\ N \in Nat
    BY DirTyped
  <1>1. Sound(L, s, N) /\ (send[d] = "select" => Clear(L))
    BY DEF DirInv
  <1>2. /\ Line(d) = L /\ Line(d)' = K /\ Script[d] = s /\ sent[d] = N
        /\ Cleared(L, K, C)
    OBVIOUS
  <1> HIDE DEF L, K, s, N
  <1>3. C \in SUBSET Places /\ 6 \in Places /\ 7 \in Places /\ Places \in SUBSET Places
        /\ 1 .. 1 \in SUBSET Places /\ 1 .. 4 \in SUBSET Places /\ 1 .. 5 \in SUBSET Places
        /\ {6} \in SUBSET Places
    BY DEF Places
  <1>4. Follows(L, K) /\ \A P \in SUBSET Places : Held(K, P) = Held(L, P \ C)
    BY <1>0, <1>2, <1>3, ClearedFollows
  <1>5. Sides(K)
    <2>1. ASSUME NEW a \in {6, 7} PROVE Len(K[a]) = 0 \/ K[a] = L[a]
      BY <1>2, <1>3 DEF Cleared
    <2>2. (Len(K[6]) = 0 \/ K[6] = L[6]) /\ (Len(K[7]) = 0 \/ K[7] = L[7])
      BY <2>1
    <2> QED
      BY <1>1, <2>2 DEF Sound, Sides
  <1>6. Sound(K, s, N)
    BY <1>0, <1>1, <1>4, <1>5, SoundFollows
  <1>7. send'[d] = "select" => Clear(K)
    <2>1. \A P \in SUBSET Places : Held(K, P) \subseteq Held(L, P)
      <3>1. ASSUME NEW P \in SUBSET Places PROVE Held(L, P \ C) \subseteq Held(L, P)
        BY DEF Held
      <3> QED
        BY <1>4, <3>1
    <2>2. Clear(L) => Clear(K)
      BY <1>3, <2>1 DEF Clear
    <2> QED
      BY <1>1, <2>2
  <1>8. Held(K, 1 .. 1) = Held(L, 1 .. 1)
    <2>1. (1 .. 1) \ C = 1 .. 1
      OBVIOUS
    <2> QED
      BY <1>3, <1>4, <2>1
  <1>9. Gapless(s, Held(L, 1 .. 4)) => Gapless(s, Held(K, 1 .. 4))
    <2>1. CASE C = {4}
      <3>1. (1 .. 4) \ C = 1 .. 3
        BY <2>1
      <3>2. Held(K, 1 .. 4) = Held(L, 1 .. 3)
        BY <1>3, <1>4, <3>1
      <3>3. 3 \in Places /\ 4 \in Places /\ 3 <= 4
        BY DEF Places
      <3>4. Gapless(s, Held(L, 1 .. 4)) => Gapless(s, Held(L, 1 .. 3))
        BY <1>0, <1>1, <3>3, GapFront
      <3> QED
        BY <3>2, <3>4
    <2>2. CASE C = {5, 6, 7}
      <3>1. (1 .. 4) \ C = 1 .. 4
        BY <2>2
      <3> QED
        BY <1>3, <1>4, <3>1
    <2> QED
      BY <2>1, <2>2
  <1> QED
    BY <1>2, <1>6, <1>7, <1>8, <1>9, DirNext

\* The step of the inner select that takes an ordinary message.
LEMMA DirPassed ==
  ASSUME TypeOK, TypeOK', NEW d \in Ends, DirInv(d), Steady(d), sent'[d] = sent[d],
         Passed(Line(d), Line(d)'), send[d] = "select", send'[d] = "write"
  PROVE  DirInv(d)'
  <1> DEFINE L == Line(d)
             K == Line(d)'
             s == Script[d]
             N == sent[d]
  <1>0. L \in Lines /\ K \in Lines
    BY DirTyped
  <1>1. Sound(L, s, N) /\ Clear(L)
    BY DEF DirInv
  <1>2. Passed(L, K) /\ Line(d) = L /\ Line(d)' = K /\ Script[d] = s /\ sent[d] = N
    OBVIOUS
  <1> HIDE DEF L, K, s, N
  <1>3. Rising(K) /\ Once(K) /\ Sides(K)
    BY <1>0, <1>1, <1>2, PassedKeeps DEF Sound
  <1>4. PICK n \in Nat : Moved(L, K, 5, 7, 0, n)
    <2>1. 0 + 1 = 1 /\ 1 .. 0 = {}
      OBVIOUS
    <2> QED
      BY <1>2, <2>1 DEF Passed, Moved
  <1>5. ASSUME NEW P \in SUBSET Places, 5 \in P <=> 7 \in P PROVE Held(K, P) = Held(L, P)
    <2>1. 5 \in Places /\ 7 \in Places /\ 5 < 7 /\ 0 \in Nat
      BY DEF Places
    <2> QED
      BY <1>0, <1>4, <1>5, <2>1, MovedHeld
  <1>6. Held(K, Places) = Held(L, Places) /\ Held(K, 1 .. 1) = Held(L, 1 .. 1)
        /\ Held(K, 1 .. 4) = Held(L, 1 .. 4)
    <2>1. 1 .. 1 \in SUBSET Places /\ 1 .. 4 \in SUBSET Places /\ 5 \in Places /\ 7 \in Places
          /\ 5 \notin 1 .. 1 /\ 7 \notin 1 .. 1 /\ 5 \notin 1 .. 4 /\ 7 \notin 1 .. 4
      BY DEF Places
    <2> QED
      BY <1>5, <2>1
  <1>7. Sound(K, s, N)
    BY <1>1, <1>3, <1>6 DEF Sound, Genuine
  <1>8. Whole(L, s, N) => Whole(K, s, N)
    BY <1>6 DEF Whole
  <1> QED
    BY <1>2, <1>6, <1>7, <1>8, DirNext

\* A ping comes into the priority channel.
LEMMA DirPinged ==
  ASSUME TypeOK, TypeOK', NEW d \in Ends, DirInv(d), Steady(d), sent'[d] = sent[d],
         NEW m \in Nat, Added(Line(d), Line(d)', 6, m, Ping), send'[d] = send[d]
  PROVE  DirInv(d)'
  <1> DEFINE L == Line(d)
             K == Line(d)'
             s == Script[d]
             N == sent[d]
  <1>0. L \in Lines /\ K \in Lines
    BY DirTyped
  <1>1. Sound(L, s, N) /\ (send[d] = "select" => Clear(L))
    BY DEF DirInv
  <1>2. Added(L, K, 6, m, Ping) /\ Line(d) = L /\ Line(d)' = K /\ Script[d] = s /\ sent[d] = N
    OBVIOUS
  <1> HIDE DEF L, K, s, N
  <1>3. Ping \in Frames /\ Ping.class # Low /\ Ping \notin Messages /\ 6 \in {6, 7}
    BY FramesSeq DEF Frames, Ping, Low
  <1>4. /\ Rising(K) /\ Once(K) /\ Sides(K)
        /\ \A P \in SUBSET Places :
              Held(K, P) = Held(L, P) \cup (IF 6 \in P THEN {Ping} \cap Messages ELSE {})
    BY <1>0, <1>1, <1>2, <1>3, AddedKeeps DEF Sound
  <1>5. \A P \in SUBSET Places : Held(K, P) = Held(L, P)
    BY <1>3, <1>4
  <1>6. 1 .. 1 \in SUBSET Places /\ 1 .. 4 \in SUBSET Places /\ 1 .. 5 \in SUBSET Places
        /\ {6} \in SUBSET Places
    BY DEF Places
  <1>7. /\ Held(K, Places) = Held(L, Places) /\ Held(K, 1 .. 1) = Held(L, 1 .. 1)
        /\ Held(K, 1 .. 4) = Held(L, 1 .. 4) /\ Held(K, 1 .. 5) = Held(L, 1 .. 5)
        /\ Held(K, {6}) = Held(L, {6})
    BY <1>5, <1>6
  <1>8. Sound(K, s, N)
    BY <1>1, <1>4, <1>7 DEF Sound, Genuine
  <1>9. (Clear(L) => Clear(K)) /\ (Whole(L, s, N) => Whole(K, s, N))
    BY <1>7 DEF Whole, Clear
  <1> QED
    BY <1>1, <1>2, <1>7, <1>8, <1>9, DirNext

\* The user's next message comes into its channel.
LEMMA DirAdded ==
  ASSUME TypeOK, TypeOK', NEW d \in Ends, DirInv(d), Steady(d), sent'[d] = sent[d] + 1,
         sent[d] < Len(Script[d]),
         NEW c \in {6, 7}, NEW m \in Nat, Added(Line(d), Line(d)', c, m, Script[d][sent[d] + 1]),
         c = 6 <=> Script[d][sent[d] + 1].class # Low, send'[d] = send[d]
  PROVE  DirInv(d)'
  <1> DEFINE L == Line(d)
             K == Line(d)'
             s == Script[d]
             N == sent[d]
             x == s[N + 1]
  <1>0. L \in Lines /\ K \in Lines /\ s \in Seq(Messages) /\ (\A i \in DOMAIN s : s[i].id = i) /\ N \in Nat
    BY DirTyped
  <1>1. /\ Sound(L, s, N) /\ (send[d] = "select" => Clear(L))
        /\ ~parent[d] => Gapless(s, Held(L, 1 .. 1))
        /\ ~parent[d] /\ reader[Peer[d]] => Gapless(s, Held(L, 1 .. 4))
        /\ ~parent[d] /\ Up(d) => Whole(L, s, N)
    BY DEF DirInv
  <1>2. /\ Added(L, K, c, m, x) /\ Line(d) = L /\ Line(d)' = K /\ Script[d] = s /\ sent'[d] = N + 1
        /\ N < Len(s) /\ (c = 6 <=> x.class # Low) /\ x = s[N + 1]
    OBVIOUS
  <1>3. x \in Messages /\ x.id = N + 1 /\ x \in Frames
    BY <1>0, <1>2 DEF Frames
  <1> HIDE DEF L, K, s, N, x
  <1>4. ASSUME NEW y \in Held(L, Places) PROVE y.id < x.id /\ y.id \in 1 .. N /\ y = s[y.id]
    <2>1. y.id \in 1 .. N /\ y = s[y.id]
      BY <1>1 DEF Sound, Genuine
    <2> QED
      BY <1>0, <1>3, <2>1
  <1>5. Sides(L) /\ Rising(L) /\ Once(L)
    BY <1>1 DEF Sound
  <1>6. /\ Rising(K) /\ Once(K) /\ Sides(K)
        /\ \A P \in SUBSET Places :
              Held(K, P) = Held(L, P) \cup (IF c \in P THEN {x} \cap Messages ELSE {})
    BY <1>0, <1>2, <1>3, <1>4, <1>5, AddedKeeps
  <1>7. c \in Places /\ c \notin 1 .. 1 /\ c \notin 1 .. 4 /\ c \notin 1 .. 5 /\ 6 \in Places
        /\ 1 .. 1 \in SUBSET Places /\ 1 .. 4 \in SUBSET Places /\ 1 .. 5 \in SUBSET Places
        /\ {6} \in SUBSET Places
    BY DEF Places
  <1>8. /\ Held(K, Places) = Held(L, Places) \cup {x} /\ Held(K, 1 .. 1) = Held(L, 1 .. 1)
        /\ Held(K, 1 .. 4) = Held(L, 1 .. 4) /\ Held(K, 1 .. 5) = Held(L, 1 .. 5)
        /\ Held(K, {6}) \subseteq Held(L, {6}) \cup {x}
    BY <1>3, <1>6, <1>7
  <1>9. Sound(K, s, N + 1)
    <2>1. ASSUME NEW y \in Held(K, Places) PROVE y.id \in 1 .. N + 1 /\ y = s[y.id]
      <3>1. CASE y = x
        BY <1>0, <1>2, <1>3, <3>1
      <3>2. CASE y \in Held(L, Places)
        BY <1>0, <1>4, <3>2
      <3> QED
        BY <1>8, <3>1, <3>2
    <2>2. N + 1 <= Len(s)
      BY <1>0, <1>2
    <2> QED
      BY <1>6, <2>1, <2>2 DEF Sound, Genuine
  <1>10. Clear(L) => Clear(K)
    <2> SUFFICES ASSUME Clear(L), NEW h \in Held(K, {6}), NEW y \in Held(K, 1 .. 5)
                 PROVE  ~Later(y, h)
      BY DEF Clear
    <2>1. y \in Held(L, 1 .. 5) /\ y \in Held(L, Places) /\ y \in Messages
      BY <1>7, <1>8 DEF Held
    <2>2. CASE h = x
      <3>1. y.id < x.id /\ y.id \in Nat /\ x.id \in Nat
        BY <1>0, <1>3, <1>4, <2>1
      <3> QED
        BY <2>2, <3>1 DEF Later
    <2>3. CASE h \in Held(L, {6})
      BY <2>1, <2>3 DEF Clear
    <2> QED
      BY <1>8, <2>2, <2>3
  <1>11. Whole(L, s, N) => Whole(K, s, N + 1)
    <2> SUFFICES ASSUME Whole(L, s, N), NEW i \in 1 .. N + 1 PROVE s[i] \in Held(K, Places)
      BY DEF Whole
    <2>1. i = N + 1 \/ i \in 1 .. N
      BY <1>0
    <2> QED
      BY <1>2, <1>8, <2>1 DEF Whole
  <1>12. /\ ~parent'[d] => ~parent[d]
         /\ reader'[Peer[d]] => reader[Peer[d]]
         /\ Up(d)' => Up(d)
    BY DEF Steady
  <1> QED
    BY <1>1, <1>2, <1>8, <1>9, <1>10, <1>11, <1>12 DEF DirInv

\* The user's next message goes nowhere, since the connection is ending.
LEMMA DirLost ==
  ASSUME TypeOK, TypeOK', NEW d \in Ends, DirInv(d), Steady(d), sent'[d] = sent[d] + 1,
         sent[d] < Len(Script[d]), Line(d)' = Line(d), send'[d] = send[d], ~Up(d)' \/ parent'[d]
  PROVE  DirInv(d)'
  <1> DEFINE L == Line(d)
             s == Script[d]
             N == sent[d]
  <1>0. N \in Nat /\ s \in Seq(Messages)
    BY DirTyped
  <1>1. Sound(L, s, N)
    BY DEF DirInv
  <1>2. N < Len(s)
    OBVIOUS
  <1>3. Sound(L, s, N + 1)
    <2> HIDE DEF L, s, N
    <2>1. N + 1 <= Len(s) /\ \A i \in 1 .. N : i \in 1 .. N + 1
      BY <1>0, <1>2
    <2> QED
      BY <1>1, <2>1 DEF Sound, Genuine
  <1>4. /\ ~parent'[d] => ~parent[d]
        /\ reader'[Peer[d]] => reader[Peer[d]]
    BY DEF Steady
  <1>5. Line(d)' = L /\ Line(d) = L /\ Script[d] = s /\ sent'[d] = N + 1
    OBVIOUS
  <1> HIDE DEF L, s, N
  <1> QED
    BY <1>3, <1>4, <1>5 DEF DirInv

-----------------------------------------------------------------------------
(* The channels' operations as steps of a line.                            *)

\* The elements of a sequence with one more at its end.
LEMMA AppendIs ==
  ASSUME NEW S, NEW s \in Seq(S), NEW x \in S
  PROVE  /\ Append(s, x) \in Seq(S) /\ Len(Append(s, x)) = Len(s) + 1 /\ Len(s) \in Nat
         /\ Append(s, x)[Len(s) + 1] = x
         /\ \A i \in 1 .. Len(s) : Append(s, x)[i] = s[i]
  OBVIOUS

\* The elements of a sequence without its first.
LEMMA TailIs ==
  ASSUME NEW S, NEW s \in Seq(S), s # <<>>
  PROVE  /\ Tail(s) \in Seq(S) /\ Len(Tail(s)) \in Nat /\ Len(s) = Len(Tail(s)) + 1
         /\ Head(s) = s[1] /\ Head(s) \in S
         /\ \A i \in 1 .. Len(Tail(s)) : Tail(s)[i] = s[i + 1]
  OBVIOUS

\* A hand as a sequence of at most one frame.
LEMMA OneIs ==
  /\ One(Nothing) = <<>>
  /\ \A x \in Frames : /\ One(x) # <<>> /\ Head(One(x)) = x
                       /\ One(x) = Append(<<>>, x) /\ Tail(One(x)) = <<>>
  BY FramesSeq DEF One

\* Append to a channel is an addition.
LEMMA AddedBy ==
  ASSUME NEW L \in Lines, NEW K \in Lines, NEW c \in Places, NEW x \in Frames,
         K[c] = Append(L[c], x), \A a \in Places : a # c => K[a] = L[a]
  PROVE  \E m \in Nat : Added(L, K, c, m, x)
  <1> DEFINE s == L[c]
             t == K[c]
             m == Len(s)
  <1>1. s \in Seq(Frames) /\ t = Append(s, x)
    BY DEF Lines
  <1>2. m \in Nat /\ Len(t) = m + 1 /\ t[m + 1] = x /\ \A b \in 1 .. m : t[b] = s[b]
    <2> HIDE DEF s, t
    <2> QED
      BY <1>1, AppendIs
  <1>3. Added(L, K, c, m, x)
    BY <1>2 DEF Added
  <1> QED
    BY <1>2, <1>3

\* Head and Tail of one place with Append to another is a move.
LEMMA MovedBy ==
  ASSUME NEW L \in Lines, NEW K \in Lines, NEW k \in Places, NEW l \in Places,
         L[l] # <<>>, K[k] = Append(L[k], Head(L[l])), K[l] = Tail(L[l]),
         \A a \in Places : a # k /\ a # l => K[a] = L[a]
  PROVE  \E m, n \in Nat : Moved(L, K, k, l, m, n)
  <1> DEFINE s == L[k]
             t == K[k]
             u == L[l]
             v == K[l]
             x == Head(u)
             m == Len(s)
             n == Len(v)
  <1>1. s \in Seq(Frames) /\ t = Append(s, x) /\ u \in Seq(Frames) /\ u # <<>> /\ v = Tail(u)
    BY DEF Lines
  <1>2. n \in Nat /\ Len(u) = n + 1 /\ x = u[1] /\ x \in Frames /\ \A b \in 1 .. n : v[b] = u[b + 1]
    <2> HIDE DEF s, t, u, v
    <2> QED
      BY <1>1, TailIs
  <1>3. m \in Nat /\ Len(t) = m + 1 /\ t[m + 1] = x /\ \A b \in 1 .. m : t[b] = s[b]
    <2>1. x \in Frames
      BY <1>2
    <2> HIDE DEF s, t, u, v, x
    <2> QED
      BY <1>1, <2>1, AppendIs
  <1>4. Moved(L, K, k, l, m, n)
    BY <1>2, <1>3 DEF Moved
  <1> QED
    BY <1>2, <1>3, <1>4

\* Tail of one place is a drop.
LEMMA DroppedBy ==
  ASSUME NEW L \in Lines, NEW K \in Lines, NEW l \in Places,
         L[l] # <<>>, K[l] = Tail(L[l]), \A a \in Places : a # l => K[a] = L[a]
  PROVE  \E n \in Nat : Dropped(L, K, l, n)
  <1> DEFINE u == L[l]
             v == K[l]
             n == Len(v)
  <1>1. u \in Seq(Frames) /\ u # <<>> /\ v = Tail(u)
    BY DEF Lines
  <1>2. n \in Nat /\ Len(u) = n + 1 /\ \A b \in 1 .. n : v[b] = u[b + 1]
    <2> HIDE DEF u, v
    <2> QED
      BY <1>1, TailIs
  <1>3. Dropped(L, K, l, n)
    BY <1>2 DEF Dropped
  <1> QED
    BY <1>2, <1>3

-----------------------------------------------------------------------------
(* Types, and where the two routines hold data.                            *)

\* Types, and where the routines hold a message, are kept by every step.
LEMMA TypeStep ==
  ASSUME TypeOK, Handing, [Next]_vars
  PROVE  TypeOK' /\ Handing'
  <1> USE DEF TypeOK, Handing
  <1>0. Nothing \notin Frames /\ Messages \subseteq Frames /\ Ping \in Frames /\ Nothing \notin Messages
    BY FramesSeq DEF Frames
  <1>1. ASSUME NEW e \in Ends, WaitStop(e) PROVE TypeOK' /\ Handing'
    BY <1>1 DEF WaitStop, userVars, sendVars, netVars, recvVars
  <1>2. ASSUME NEW e \in Ends, Stopped(e) PROVE TypeOK' /\ Handing'
    BY <1>2 DEF Stopped, userVars, sendVars, netVars, recvVars
  <1>3. ASSUME NEW e \in Ends, Forward(e) PROVE TypeOK' /\ Handing'
    <2>1. Script[e][sent[e] + 1] \in Messages
      <3>1. Script[e] \in Seq(Messages) /\ sent[e] \in Nat /\ sent[e] < Len(Script[e])
        BY <1>3, ConnAssumption DEF Forward
      <3> QED
        BY <3>1
    <2>2. Append(sendCh[e], Script[e][sent[e] + 1]) \in Seq(Messages)
      BY <2>1
    <2>3. Append(prioCh[e], Script[e][sent[e] + 1]) \in Seq(Frames)
      BY <1>0, <2>1
    <2> QED
      <3>1. sendCh' \in [Ends -> Seq(Messages)]
        BY <1>3, <2>2 DEF Forward
      <3>2. prioCh' \in [Ends -> Seq(Frames)]
        BY <1>3, <2>3 DEF Forward
      <3>3. sent' \in [Ends -> Nat]
        BY <1>3 DEF Forward
      <3> QED
        BY <1>3, <3>1, <3>2, <3>3 DEF Forward, netVars, recvVars, stopVars
  <1>4. ASSUME NEW e \in Ends, TakePriority(e), OnlySend PROVE TypeOK' /\ Handing'
    <2>1. Head(prioCh[e]) \in Frames /\ Tail(prioCh[e]) \in Seq(Frames)
      BY <1>4, TailIs DEF TakePriority
    <2> QED
      BY <1>0, <1>4, <2>1 DEF TakePriority, Take, OnlySend, userVars, netVars, recvVars, stopVars
  <1>5. ASSUME NEW e \in Ends, SendEnds(e), OnlySend PROVE TypeOK' /\ Handing'
    BY <1>5 DEF SendEnds, OnlySend, userVars, netVars, recvVars, stopVars
  <1>6. ASSUME NEW e \in Ends, Poll(e) PROVE TypeOK' /\ Handing'
    <2>1. CASE prioCh[e] = <<>> /\ send' = [send EXCEPT ![e] = "select"] /\ UNCHANGED <<sendCh, prioCh, out>>
      BY <1>6, <2>1 DEF Poll, OnlySend, userVars, netVars, recvVars, stopVars
    <2> QED
      BY <1>4, <1>5, <1>6, <2>1 DEF Poll
  <1>7. ASSUME NEW e \in Ends, Select(e) PROVE TypeOK' /\ Handing'
    <2>1. CASE /\ sendCh[e] # <<>> /\ Take(e, sendCh[e], "write")
               /\ sendCh' = [sendCh EXCEPT ![e] = Tail(@)] /\ UNCHANGED prioCh
      <3>1. Head(sendCh[e]) \in Messages /\ Tail(sendCh[e]) \in Seq(Messages)
        BY <2>1, TailIs
      <3> QED
        BY <1>0, <1>7, <2>1, <3>1 DEF Select, Take, OnlySend, userVars, netVars, recvVars, stopVars
    <2> QED
      BY <1>4, <1>5, <1>7, <2>1 DEF Select
  <1>8. ASSUME NEW e \in Ends, Write(e) PROVE TypeOK' /\ Handing'
    <2>0. send[e] = "write"
      BY <1>8 DEF Write
    <2>1. out[e] \in Frames /\ Peer[e] \in Ends
      <3>1. Peer[e] \in Ends
        BY ConnAssumption
      <3> QED
        BY <2>0, <3>1
    <2>2. Append(wire[Peer[e]], out[e]) \in Seq(Frames)
      BY <2>1
    <2> QED
      BY <1>8, <2>1, <2>2 DEF Write, userVars, recvVars, stopVars
  <1>9. ASSUME NEW e \in Ends, WriteFails(e) PROVE TypeOK' /\ Handing'
    BY <1>9 DEF WriteFails, SendEnds, CallStop, userVars, netVars, recvVars
  <1>10. ASSUME NEW e \in Ends, PutPing(e)
         PROVE  prioCh' \in [Ends -> Seq(Frames)]
                /\ stop' \in [Ends -> {"no", "called", "stopping", "stopped"}]
    <2>1. Append(prioCh[e], Ping) \in Seq(Frames)
      BY <1>0
    <2> QED
      BY <1>10, <2>1 DEF PutPing, CallStop
  <1>11. ASSUME NEW e \in Ends, Tick(e) PROVE TypeOK' /\ Handing'
    <2>1. pings' \in [Ends -> 0 .. MaxPings]
      BY <1>11, ConnAssumption DEF Tick
    <2>2. PutPing(e)
      BY <1>11 DEF Tick
    <2> QED
      BY <1>10, <1>11, <2>1, <2>2 DEF Tick, netVars, recvVars
  <1>12. ASSUME NEW e \in Ends, Read(e) PROVE TypeOK' /\ Handing'
    <2>1. Head(wire[e]) \in Frames /\ Tail(wire[e]) \in Seq(Frames)
      BY <1>12, TailIs DEF Read
    <2>2. Head(wire[e]) # Ping => Head(wire[e]) \in Messages /\ Head(wire[e]) # Nothing
      BY <1>0, <2>1 DEF Frames
    <2> QED
      BY <1>12, <2>1, <2>2 DEF Read, userVars, sendVars, stopVars
  <1>13. ASSUME NEW e \in Ends, ReadFails(e) PROVE TypeOK' /\ Handing'
    BY <1>13 DEF ReadFails, CallStop, userVars, sendVars, netVars
  <1>14. ASSUME NEW e \in Ends, Ctrl(e) PROVE TypeOK' /\ Handing'
    <2>1. e \in Pinger \/ PutPing(e)
      BY <1>14 DEF Ctrl
    <2> QED
      BY <1>10, <1>14, <2>1 DEF Ctrl, userVars, netVars
  <1>15. ASSUME NEW e \in Ends, Deliver(e) PROVE TypeOK' /\ Handing'
    <2>1. Append(recvCh[e], hand[e]) \in Seq(Messages)
      BY <1>15 DEF Deliver
    <2> QED
      BY <1>15, <2>1 DEF Deliver, userVars, sendVars, netVars, stopVars
  <1>16. ASSUME NEW e \in Ends, Receive(e) PROVE TypeOK' /\ Handing'
    <2>1. Head(recvCh[e]) \in Messages /\ Tail(recvCh[e]) \in Seq(Messages)
      BY <1>16, TailIs DEF Receive
    <2>2. Head(recvCh[e]).good \in BOOLEAN /\ Append(got[e], Head(recvCh[e])) \in Seq(Messages)
      BY <2>1 DEF Messages
    <2> QED
      BY <1>16, <2>1, <2>2 DEF Receive, sendVars, netVars, stopVars
  <1>17. ASSUME NEW e \in Ends, ReaderEnds(e) PROVE TypeOK' /\ Handing'
    BY <1>17 DEF ReaderEnds, sendVars, netVars, recvVars, stopVars
  <1>18. ASSUME NEW e \in Ends, TimeoutWhenCut(e) PROVE TypeOK' /\ Handing'
    BY <1>18 DEF TimeoutWhenCut, Timeout, CallStop, userVars, sendVars, netVars, recvVars
  <1>19. ASSUME Fault PROVE faults' \in 0 .. MaxFaults
    BY <1>19, ConnAssumption DEF Fault
  <1>20. ASSUME NEW e \in Ends, Cancel(e) PROVE TypeOK' /\ Handing'
    BY <1>19, <1>20 DEF Cancel, CallStop, userVars, sendVars, netVars, recvVars
  <1>21. ASSUME NEW e \in Ends, ParentDone(e) PROVE TypeOK' /\ Handing'
    BY <1>19, <1>21 DEF ParentDone, userVars, sendVars, netVars, recvVars
  <1>22. ASSUME NEW e \in Ends, SpuriousTimeout(e) PROVE TypeOK' /\ Handing'
    BY <1>19, <1>22 DEF SpuriousTimeout, Timeout, CallStop, userVars, sendVars, netVars, recvVars
  <1>23. ASSUME NEW e \in Ends, TooLarge(e) PROVE TypeOK' /\ Handing'
    BY <1>19, <1>23 DEF TooLarge, CallStop, userVars, sendVars, netVars
  <1>24. ASSUME Cut PROVE TypeOK' /\ Handing'
    BY <1>19, <1>24 DEF Cut, All, userVars, sendVars, recvVars, stopVars
  <1>25. CASE UNCHANGED vars
    BY <1>25 DEF vars
  <1> QED
    BY <1>1, <1>2, <1>3, <1>6, <1>7, <1>8, <1>9, <1>11, <1>12, <1>13, <1>14, <1>15, <1>16,
       <1>17, <1>18, <1>20, <1>21, <1>22, <1>23, <1>24, <1>25 DEF Next, Routine

-----------------------------------------------------------------------------
(* The steps of the connection.                                            *)

\* Contexts stay done, sockets closed, routines ended, and the path cut.
LEMMA NextSteady ==
  ASSUME TypeOK, [Next]_vars
  PROVE  \A d \in Ends : Steady(d)
  <1> DEFINE Firm == \A d \in Ends : /\ parent[d] => parent'[d]
                                     /\ reader'[d] => reader[d]
                                     /\ cut => cut'
                                     /\ sock'[d] => sock[d]
                                     /\ send[d] = "ended" => send'[d] = "ended"
  <1>0. /\ parent \in [Ends -> BOOLEAN] /\ reader \in [Ends -> BOOLEAN] /\ sock \in [Ends -> BOOLEAN]
        /\ send \in [Ends -> {"poll", "select", "write", "ended"}]
    BY DEF TypeOK
  <1>1. ASSUME NEW e \in Ends, WaitStop(e) PROVE Firm
    BY <1>0, <1>1 DEF WaitStop, userVars, sendVars, netVars, recvVars
  <1>2. ASSUME NEW e \in Ends, Stopped(e) PROVE Firm
    BY <1>0, <1>2 DEF Stopped, userVars, sendVars, netVars, recvVars
  <1>3. ASSUME NEW e \in Ends, Forward(e) PROVE Firm
    BY <1>0, <1>3 DEF Forward, netVars, recvVars, stopVars
  <1>4. ASSUME NEW e \in Ends, Poll(e) \/ Select(e) PROVE Firm
    <2>1. send' \in {[send EXCEPT ![e] = x] : x \in {"select", "write", "ended"}} /\ send[e] # "ended"
      BY <1>4 DEF Poll, Select, TakePriority, Take, SendEnds
    <2> QED
      BY <1>0, <1>4, <2>1 DEF Poll, Select, OnlySend, userVars, netVars, recvVars, stopVars
  <1>5. ASSUME NEW e \in Ends, Write(e) PROVE Firm
    <2>1. send[e] = "write" /\ send' = [send EXCEPT ![e] = "poll"]
      BY <1>5 DEF Write
    <2>2. UNCHANGED <<parent, reader, cut, sock>>
      BY <1>5 DEF Write, userVars, recvVars, stopVars
    <2> QED
      BY <1>0, <2>1, <2>2
  <1>6. ASSUME NEW e \in Ends, WriteFails(e) PROVE Firm
    BY <1>0, <1>6 DEF WriteFails, SendEnds, CallStop, userVars, netVars, recvVars
  <1>7. ASSUME NEW e \in Ends, Tick(e) \/ Ctrl(e) PROVE Firm
    BY <1>0, <1>7 DEF Tick, Ctrl, userVars, netVars, recvVars
  <1>8. ASSUME NEW e \in Ends, Read(e) \/ Deliver(e) PROVE Firm
    BY <1>0, <1>8 DEF Read, Deliver, userVars, sendVars, netVars, stopVars
  <1>9. ASSUME NEW e \in Ends, ReadFails(e) \/ TooLarge(e) PROVE Firm
    BY <1>0, <1>9 DEF ReadFails, TooLarge, userVars, sendVars, netVars
  <1>10. ASSUME NEW e \in Ends, Receive(e) \/ ReaderEnds(e) PROVE Firm
    <2>1. reader[e] /\ UNCHANGED <<parent, cut, sock, send>>
      BY <1>10 DEF Receive, ReaderEnds, sendVars, netVars, recvVars, stopVars
    <2>2. \A d \in Ends : d # e => reader'[d] = reader[d]
      BY <1>0, <1>10 DEF Receive, ReaderEnds
    <2> QED
      BY <2>1, <2>2
  <1>11. ASSUME NEW e \in Ends, Cancel(e) \/ SpuriousTimeout(e) \/ TimeoutWhenCut(e) PROVE Firm
    BY <1>0, <1>11 DEF Cancel, SpuriousTimeout, TimeoutWhenCut, Timeout, userVars, sendVars, netVars, recvVars
  <1>12. ASSUME NEW e \in Ends, ParentDone(e) PROVE Firm
    BY <1>0, <1>12 DEF ParentDone, userVars, sendVars, netVars, recvVars
  <1>13. ASSUME Cut PROVE Firm
    BY <1>0, <1>13 DEF Cut, userVars, sendVars, recvVars, stopVars
  <1>14. ASSUME UNCHANGED vars PROVE Firm
    BY <1>14 DEF vars
  <1> HIDE DEF Firm
  <1>15. Firm
    BY <1>1, <1>2, <1>3, <1>4, <1>5, <1>6, <1>7, <1>8, <1>9, <1>10, <1>11, <1>12, <1>13, <1>14
       DEF Next, Routine
  <1>16. \A d \in Ends : Peer[d] \in Ends
    BY ConnAssumption
  <1> QED
    BY <1>15, <1>16 DEF Firm, Steady, Up

\* a direction of which nothing moves
LEMMA Elsewhere ==
  ASSUME NEW d \in Ends, DirInv(d), Steady(d), sent'[d] = sent[d],
         send'[d] = "select" => send[d] = "select" \/ prioCh[d] = <<>>,
         TypeOK,
         got'[Peer[d]] = got[Peer[d]], recvCh'[Peer[d]] = recvCh[Peer[d]],
         hand'[Peer[d]] = hand[Peer[d]], wire'[Peer[d]] = wire[Peer[d]],
         out'[d] = out[d], prioCh'[d] = prioCh[d], sendCh'[d] = sendCh[d]
  PROVE  DirInv(d)'
  <1>1. Line(d)' = Line(d)
    BY DEF Line
  <1>2. prioCh[d] = <<>> => Clear(Line(d))
    <2> SUFFICES ASSUME prioCh[d] = <<>> PROVE Held(Line(d), {6}) = {}
      BY DEF Clear
    <2>1. Len(Line(d)[6]) = 0
      BY LineIs
    <2> QED
      BY <2>1 DEF Held
  <1> QED
    BY <1>1, <1>2, DirKept

\* A step that changes timers, contexts and sockets but no message.
LEMMA Flags ==
  ASSUME ConnInv, [Next]_vars,
         UNCHANGED <<sent, got, recvCh, hand, wire, out, prioCh, sendCh, send>>
  PROVE  \A d \in Ends : DirInv(d)'
  <1>1. \A d \in Ends : Steady(d)
    BY NextSteady DEF ConnInv
  <1> QED
    BY <1>1, Elsewhere DEF ConnInv

\* The seven places.
LEMMA PlacesAre == \A a \in Places : a = 1 \/ a = 2 \/ a = 3 \/ a = 4 \/ a = 5 \/ a = 6 \/ a = 7
  BY DEF Places

\* The MessageSender forwards a message of its user.
LEMMA ForwardDirs ==
  ASSUME ConnInv, TypeOK', [Next]_vars, NEW e \in Ends, Forward(e)
  PROVE  \A d \in Ends : DirInv(d)'
  <1> DEFINE m == Script[e][sent[e] + 1]
  <1>0. TypeOK /\ (\A d \in Ends : DirInv(d)) /\ \A d \in Ends : Steady(d)
    BY NextSteady DEF ConnInv
  <1>1. /\ sent' = [sent EXCEPT ![e] = @ + 1] /\ sent[e] < Len(Script[e])
        /\ UNCHANGED <<got, recvCh, hand, wire, out, send, parent>>
    BY DEF Forward, netVars, recvVars, stopVars
  <1>2. \/ /\ m.class = High /\ prioCh' = [prioCh EXCEPT ![e] = Append(@, m)] /\ UNCHANGED sendCh
        \/ /\ m.class = Low /\ sendCh' = [sendCh EXCEPT ![e] = Append(@, m)] /\ UNCHANGED prioCh
        \/ (send[e] = "ended" \/ parent[e]) /\ UNCHANGED <<sendCh, prioCh>>
    BY DEF Forward
  <1>3. /\ sent \in [Ends -> Nat] /\ prioCh \in [Ends -> Seq(Frames)] /\ sendCh \in [Ends -> Seq(Messages)]
    BY <1>0 DEF TypeOK
  <1>4. ASSUME NEW d \in Ends, d # e PROVE DirInv(d)'
    <2>1. sent'[d] = sent[d] /\ prioCh'[d] = prioCh[d] /\ sendCh'[d] = sendCh[d]
      BY <1>1, <1>2, <1>3, <1>4
    <2> QED
      BY <1>0, <1>1, <2>1, Elsewhere
  <1>5. DirInv(e)'
    <2>1. sent'[e] = sent[e] + 1 /\ send'[e] = send[e]
      BY <1>1, <1>3
    <2> DEFINE L == Line(e)
               K == Line(e)'
    <2>2. /\ L \in Lines /\ K \in Lines
          /\ K[1] = L[1] /\ K[2] = L[2] /\ K[3] = L[3] /\ K[4] = L[4] /\ K[5] = L[5]
          /\ L[6] = prioCh[e] /\ K[6] = prioCh'[e] /\ L[7] = sendCh[e] /\ K[7] = sendCh'[e]
      BY <1>0, <1>1, LineIs, LineBecomes
    <2>3. m \in Messages /\ m \in Frames /\ Low # High /\ 6 \in Places /\ 7 \in Places
      <3>1. Script[e] \in Seq(Messages) /\ sent[e] \in Nat
        BY <1>3, ConnAssumption
      <3> QED
        BY <1>1, <3>1 DEF Frames, Low, High, Places
    <2>4. CASE m.class = High /\ prioCh' = [prioCh EXCEPT ![e] = Append(@, m)] /\ UNCHANGED sendCh
      <3>1. K[6] = Append(L[6], m) /\ K[7] = L[7]
        BY <1>3, <2>2, <2>4
      <3> HIDE DEF L, K, m
      <3>2. \A a \in Places : a # 6 => K[a] = L[a]
        BY <2>2, <3>1, PlacesAre
      <3>3. PICK n \in Nat : Added(L, K, 6, n, m)
        BY <2>2, <2>3, <3>1, <3>2, AddedBy
      <3>4. 6 \in {6, 7} /\ m.class # Low
        BY <2>3, <2>4
      <3> QED
        BY <1>0, <1>1, <2>1, <3>3, <3>4, DirAdded DEF L, K, m
    <2>5. CASE m.class = Low /\ sendCh' = [sendCh EXCEPT ![e] = Append(@, m)] /\ UNCHANGED prioCh
      <3>1. K[7] = Append(L[7], m) /\ K[6] = L[6]
        BY <1>3, <2>2, <2>5
      <3> HIDE DEF L, K, m
      <3>2. \A a \in Places : a # 7 => K[a] = L[a]
        BY <2>2, <3>1, PlacesAre
      <3>3. PICK n \in Nat : Added(L, K, 7, n, m)
        BY <2>2, <2>3, <3>1, <3>2, AddedBy
      <3>4. 7 \in {6, 7} /\ 7 # 6 /\ m.class = Low
        BY <2>5
      <3> QED
        BY <1>0, <1>1, <2>1, <3>3, <3>4, DirAdded DEF L, K, m
    <2>6. CASE (send[e] = "ended" \/ parent[e]) /\ UNCHANGED <<sendCh, prioCh>>
      <3>1. Line(e)' = Line(e)
        BY <1>1, <2>6 DEF Line
      <3>2. ~Up(e)' \/ parent'[e]
        BY <1>1, <2>6 DEF Up
      <3> QED
        BY <1>0, <1>1, <2>1, <3>1, <3>2, DirLost
    <2> QED
      BY <1>2, <2>4, <2>5, <2>6
  <1> QED
    BY <1>4, <1>5

\* Send takes a message from the priority channel.
LEMMA TakeDirs ==
  ASSUME ConnInv, TypeOK', [Next]_vars, NEW e \in Ends, TakePriority(e), OnlySend, send[e] # "write"
  PROVE  \A d \in Ends : DirInv(d)'
  <1>0. TypeOK /\ (\A d \in Ends : DirInv(d)) /\ (\A d \in Ends : Steady(d)) /\ out[e] = Nothing
    BY NextSteady DEF ConnInv, Handing
  <1>1. /\ prioCh[e] # <<>> /\ prioCh' = [prioCh EXCEPT ![e] = Tail(@)]
        /\ out' = [out EXCEPT ![e] = Head(prioCh[e])] /\ send' = [send EXCEPT ![e] = "write"]
        /\ UNCHANGED <<sent, got, recvCh, hand, wire, sendCh>>
    BY DEF TakePriority, Take, OnlySend, userVars, netVars, recvVars
  <1>2. /\ prioCh \in [Ends -> Seq(Frames)] /\ out \in [Ends -> Frames \cup {Nothing}]
        /\ send \in [Ends -> {"poll", "select", "write", "ended"}]
    BY <1>0 DEF TypeOK
  <1>3. ASSUME NEW d \in Ends, d # e PROVE DirInv(d)'
    <2>1. prioCh'[d] = prioCh[d] /\ out'[d] = out[d] /\ send'[d] = send[d]
      BY <1>1, <1>2, <1>3
    <2> QED
      BY <1>0, <1>1, <2>1, Elsewhere
  <1>4. DirInv(e)'
    <2> DEFINE L == Line(e)
               K == Line(e)'
               x == Head(prioCh[e])
    <2>1. /\ prioCh'[e] = Tail(prioCh[e]) /\ out'[e] = x /\ send'[e] = "write"
      BY <1>1, <1>2
    <2>2. x \in Frames
      BY <1>1, <1>2, TailIs
    <2>3. One(out[e]) = <<>> /\ One(out'[e]) = Append(<<>>, x)
      BY <1>0, <2>1, <2>2, OneIs
    <2>4. /\ L \in Lines /\ K \in Lines
          /\ K[1] = L[1] /\ K[2] = L[2] /\ K[3] = L[3] /\ K[4] = L[4] /\ K[7] = L[7]
          /\ L[5] = One(out[e]) /\ K[5] = One(out'[e]) /\ L[6] = prioCh[e] /\ K[6] = prioCh'[e]
      BY <1>0, <1>1, LineIs, LineBecomes
    <2>5. L[6] # <<>> /\ K[5] = Append(L[5], Head(L[6])) /\ K[6] = Tail(L[6])
      BY <1>1, <2>1, <2>3, <2>4
    <2>6. 5 \in Places /\ 6 \in Places /\ 5 \in 1 .. 5 /\ 5 + 1 = 6
      BY DEF Places
    <2> HIDE DEF L, K, x
    <2>7. \A a \in Places : a # 5 /\ a # 6 => K[a] = L[a]
      BY <2>4, PlacesAre
    <2>8. \E m, n \in Nat : Moved(L, K, 5, 6, m, n)
      BY <2>4, <2>5, <2>6, <2>7, MovedBy
    <2>9. PICK m \in Nat, n \in Nat : Moved(L, K, 5, 5 + 1, m, n)
      BY <2>6, <2>8
    <2> QED
      BY <1>0, <1>1, <2>1, <2>6, <2>9, DirMoved DEF L, K
  <1> QED
    BY <1>3, <1>4

\* Send ends and what its channels hold is lost.
LEMMA EndsDirs ==
  ASSUME ConnInv, TypeOK', [Next]_vars, NEW e \in Ends, SendEnds(e),
         UNCHANGED <<sent, got, recvCh, hand, wire>>
  PROVE  \A d \in Ends : DirInv(d)'
  <1>0. TypeOK /\ (\A d \in Ends : DirInv(d)) /\ \A d \in Ends : Steady(d)
    BY NextSteady DEF ConnInv
  <1>1. /\ prioCh' = [prioCh EXCEPT ![e] = <<>>] /\ sendCh' = [sendCh EXCEPT ![e] = <<>>]
        /\ out' = [out EXCEPT ![e] = Nothing] /\ send' = [send EXCEPT ![e] = "ended"]
    BY DEF SendEnds
  <1>2. /\ prioCh \in [Ends -> Seq(Frames)] /\ out \in [Ends -> Frames \cup {Nothing}]
        /\ send \in [Ends -> {"poll", "select", "write", "ended"}] /\ sendCh \in [Ends -> Seq(Messages)]
    BY <1>0 DEF TypeOK
  <1>3. ASSUME NEW d \in Ends, d # e PROVE DirInv(d)'
    <2>1. prioCh'[d] = prioCh[d] /\ out'[d] = out[d] /\ send'[d] = send[d] /\ sendCh'[d] = sendCh[d]
      BY <1>1, <1>2, <1>3
    <2> QED
      BY <1>0, <1>1, <2>1, Elsewhere
  <1>4. DirInv(e)'
    <2> DEFINE L == Line(e)
               K == Line(e)'
               C == {5, 6, 7}
    <2>1. prioCh'[e] = <<>> /\ sendCh'[e] = <<>> /\ One(out'[e]) = <<>> /\ send'[e] = "ended"
      BY <1>1, <1>2, OneIs
    <2>2. /\ L \in Lines /\ K \in Lines
          /\ K[1] = L[1] /\ K[2] = L[2] /\ K[3] = L[3] /\ K[4] = L[4]
          /\ Len(K[5]) = 0 /\ Len(K[6]) = 0 /\ Len(K[7]) = 0
      BY <1>0, <2>1, LineIs, LineBecomes
    <2>3. Cleared(L, K, C)
      <3> HIDE DEF L, K
      <3> QED
        BY <2>2, PlacesAre DEF Cleared
    <2>4. ~Up(e)' /\ C \in {{4}, {5, 6, 7}}
      BY <2>1 DEF Up
    <2> HIDE DEF C
    <2> QED
      BY <1>0, <2>1, <2>3, <2>4, DirCleared DEF L, K
  <1> QED
    BY <1>3, <1>4

\* Send looks at the priority channel first.
LEMMA PollDirs ==
  ASSUME ConnInv, TypeOK', [Next]_vars, NEW e \in Ends, Poll(e)
  PROVE  \A d \in Ends : DirInv(d)'
  <1>0. TypeOK /\ (\A d \in Ends : DirInv(d)) /\ \A d \in Ends : Steady(d)
    BY NextSteady DEF ConnInv
  <1>1. send[e] = "poll" /\ OnlySend /\ UNCHANGED <<sent, got, recvCh, hand, wire>>
    BY DEF Poll, OnlySend, userVars, netVars, recvVars
  <1>2. CASE TakePriority(e)
    BY <1>1, <1>2, TakeDirs
  <1>3. CASE SendEnds(e)
    BY <1>1, <1>3, EndsDirs
  <1>4. CASE prioCh[e] = <<>> /\ send' = [send EXCEPT ![e] = "select"] /\ UNCHANGED <<sendCh, prioCh, out>>
    <2>1. ASSUME NEW d \in Ends, send'[d] = "select" PROVE send[d] = "select" \/ prioCh[d] = <<>>
      BY <1>0, <1>4, <2>1 DEF TypeOK
    <2> QED
      BY <1>0, <1>1, <1>4, <2>1, Elsewhere
  <1> QED
    BY <1>2, <1>3, <1>4 DEF Poll

\* Send waits for either channel.
LEMMA SelectDirs ==
  ASSUME ConnInv, TypeOK', [Next]_vars, NEW e \in Ends, Select(e)
  PROVE  \A d \in Ends : DirInv(d)'
  <1>0. TypeOK /\ (\A d \in Ends : DirInv(d)) /\ \A d \in Ends : Steady(d)
    BY NextSteady DEF ConnInv
  <1>1. send[e] = "select" /\ OnlySend /\ UNCHANGED <<sent, got, recvCh, hand, wire>>
    BY DEF Select, OnlySend, userVars, netVars, recvVars
  <1>2. CASE TakePriority(e)
    BY <1>1, <1>2, TakeDirs
  <1>3. CASE SendEnds(e)
    BY <1>1, <1>3, EndsDirs
  <1>4. CASE /\ sendCh[e] # <<>> /\ Take(e, sendCh[e], "write")
             /\ sendCh' = [sendCh EXCEPT ![e] = Tail(@)] /\ UNCHANGED prioCh
    <2>0. /\ sendCh[e] # <<>> /\ sendCh' = [sendCh EXCEPT ![e] = Tail(@)]
          /\ out' = [out EXCEPT ![e] = Head(sendCh[e])] /\ send' = [send EXCEPT ![e] = "write"]
          /\ UNCHANGED <<sent, got, recvCh, hand, wire, prioCh>>
      BY <1>1, <1>4 DEF Take
    <2>1. /\ sendCh \in [Ends -> Seq(Messages)] /\ out \in [Ends -> Frames \cup {Nothing}]
          /\ send \in [Ends -> {"poll", "select", "write", "ended"}]
      BY <1>0 DEF TypeOK
    <2>2. ASSUME NEW d \in Ends, d # e PROVE DirInv(d)'
      <3>1. sendCh'[d] = sendCh[d] /\ out'[d] = out[d] /\ send'[d] = send[d]
        BY <2>0, <2>1, <2>2
      <3> QED
        BY <1>0, <2>0, <3>1, Elsewhere
    <2>3. DirInv(e)'
      <3> DEFINE L == Line(e)
                 K == Line(e)'
                 x == Head(sendCh[e])
                 n == Len(Tail(sendCh[e]))
      <3>1. sendCh'[e] = Tail(sendCh[e]) /\ out'[e] = x /\ send'[e] = "write"
        BY <2>0, <2>1
      <3>2. /\ x \in Messages /\ x = sendCh[e][1] /\ n \in Nat /\ Len(sendCh[e]) = n + 1
            /\ \A b \in 1 .. n : Tail(sendCh[e])[b] = sendCh[e][b + 1]
        BY <2>0, <2>1, TailIs
      <3>3. out[e] = Nothing /\ x \in Frames /\ x # Nothing
        BY <1>1, <3>2, FramesSeq DEF ConnInv, Handing, Frames
      <3>4. Len(One(out[e])) = 0 /\ Len(One(out'[e])) = 1 /\ One(out'[e])[1] = x
        BY <3>1, <3>3 DEF One
      <3>5. /\ L \in Lines /\ K \in Lines
            /\ K[1] = L[1] /\ K[2] = L[2] /\ K[3] = L[3] /\ K[4] = L[4] /\ K[6] = L[6]
            /\ L[5] = One(out[e]) /\ K[5] = One(out'[e]) /\ L[7] = sendCh[e] /\ K[7] = Tail(sendCh[e])
        BY <1>0, <2>0, <3>1, LineIs, LineBecomes
      <3>6. /\ Len(L[5]) = 0 /\ Len(K[5]) = 1 /\ K[5][1] = L[7][1]
            /\ Len(K[7]) = n /\ Len(L[7]) = n + 1
            /\ \A b \in 1 .. n : K[7][b] = L[7][b + 1]
        BY <3>2, <3>4, <3>5
      <3>7. n \in Nat
        BY <3>2
      <3> HIDE DEF L, K, x, n
      <3>8. \A a \in Places : a # 5 /\ a # 7 => K[a] = L[a]
        BY <3>5, PlacesAre
      <3>9. Passed(L, K)
        BY <3>6, <3>7, <3>8 DEF Passed
      <3> QED
        BY <1>0, <1>1, <2>0, <3>1, <3>9, DirPassed DEF L, K
    <2> QED
      BY <2>2, <2>3
  <1> QED
    BY <1>2, <1>3, <1>4 DEF Select

\* the directions that an end does not write to, and the one it reads
LEMMA PeerIs ==
  ASSUME NEW e \in Ends
  PROVE  /\ Peer[e] \in Ends /\ Peer[Peer[e]] = e
         /\ \A d \in Ends : Peer[d] \in Ends /\ (d # e => Peer[d] # Peer[e]) /\ (d # Peer[e] => Peer[d] # e)
  BY ConnAssumption

\* Send writes the frame to the socket.
LEMMA WriteDirs ==
  ASSUME ConnInv, TypeOK', [Next]_vars, NEW e \in Ends, Write(e)
  PROVE  \A d \in Ends : DirInv(d)'
  <1>0. TypeOK /\ (\A d \in Ends : DirInv(d)) /\ \A d \in Ends : Steady(d)
    BY NextSteady DEF ConnInv
  <1>1. /\ send[e] = "write" /\ send' = [send EXCEPT ![e] = "poll"] /\ out' = [out EXCEPT ![e] = Nothing]
        /\ UNCHANGED <<sent, got, recvCh, hand, prioCh, sendCh, cut, sock>>
    BY DEF Write, userVars, recvVars, stopVars
  <1>2. \/ (cut \/ ~sock[Peer[e]]) /\ UNCHANGED wire
        \/ ~cut /\ sock[Peer[e]] /\ wire' = [wire EXCEPT ![Peer[e]] = Append(@, out[e])]
    BY DEF Write
  <1>3. /\ wire \in [Ends -> Seq(Frames)] /\ out \in [Ends -> Frames \cup {Nothing}]
        /\ send \in [Ends -> {"poll", "select", "write", "ended"}]
    BY <1>0 DEF TypeOK
  <1>4. ASSUME NEW d \in Ends, d # e PROVE DirInv(d)'
    <2>1. wire'[Peer[d]] = wire[Peer[d]] /\ out'[d] = out[d] /\ send'[d] = send[d]
      BY <1>1, <1>2, <1>3, <1>4, PeerIs
    <2> QED
      BY <1>0, <1>1, <2>1, Elsewhere
  <1>5. DirInv(e)'
    <2> DEFINE L == Line(e)
               K == Line(e)'
               x == out[e]
    <2>1. x \in Frames /\ out'[e] = Nothing /\ send'[e] = "poll" /\ Peer[e] \in Ends
      BY <1>1, <1>3, PeerIs DEF ConnInv, Handing
    <2>2. One(x) # <<>> /\ Head(One(x)) = x /\ Tail(One(x)) = <<>> /\ One(out'[e]) = <<>>
      BY <2>1, OneIs
    <2>3. /\ L \in Lines /\ K \in Lines
          /\ K[1] = L[1] /\ K[2] = L[2] /\ K[3] = L[3] /\ K[6] = L[6] /\ K[7] = L[7]
          /\ L[5] = One(x) /\ K[5] = One(out'[e]) /\ L[4] = wire[Peer[e]] /\ K[4] = wire'[Peer[e]]
      BY <1>0, <1>1, LineIs, LineBecomes
    <2>4. L[5] # <<>> /\ Head(L[5]) = x /\ K[5] = Tail(L[5])
      BY <2>2, <2>3
    <2>5. 4 \in Places /\ 5 \in Places /\ 4 + 1 = 5 /\ 4 \in 1 .. 5
      BY DEF Places
    <2>6. CASE (cut \/ ~sock[Peer[e]]) /\ UNCHANGED wire
      <3>1. K[4] = L[4]
        BY <2>3, <2>6
      <3>2. ~Up(e)'
        BY <1>1, <2>6 DEF Up
      <3> HIDE DEF L, K, x
      <3>3. \A a \in Places : a # 5 => K[a] = L[a]
        BY <2>3, <3>1, PlacesAre
      <3>4. PICK n \in Nat : Dropped(L, K, 5, n)
        BY <2>3, <2>4, <2>5, <3>3, DroppedBy
      <3>5. 5 \in {2, 4, 5} /\ 5 # 2 /\ 5 # 4
        OBVIOUS
      <3> QED
        BY <1>0, <1>1, <2>1, <3>2, <3>4, <3>5, DirDropped DEF L, K
    <2>7. CASE ~cut /\ sock[Peer[e]] /\ wire' = [wire EXCEPT ![Peer[e]] = Append(@, x)]
      <3>1. K[4] = Append(L[4], Head(L[5]))
        BY <1>3, <2>1, <2>3, <2>4, <2>7
      <3>2. reader[Peer[e]] => Up(e)
        BY <1>1, <2>7 DEF Up
      <3> HIDE DEF L, K, x
      <3>3. \A a \in Places : a # 4 /\ a # 5 => K[a] = L[a]
        BY <2>3, PlacesAre
      <3>4. \E m, n \in Nat : Moved(L, K, 4, 5, m, n)
        BY <2>3, <2>4, <2>5, <3>1, <3>3, MovedBy
      <3>5. PICK m \in Nat, n \in Nat : Moved(L, K, 4, 4 + 1, m, n)
        BY <2>5, <3>4
      <3> QED
        BY <1>0, <1>1, <2>1, <2>5, <3>2, <3>5, DirMoved DEF L, K
    <2> QED
      BY <1>2, <2>6, <2>7
  <1> QED
    BY <1>4, <1>5

\* Keepalive puts a ping, or finds the channel full.
LEMMA PingDirs ==
  ASSUME ConnInv, TypeOK', [Next]_vars, NEW e \in Ends, PutPing(e) \/ UNCHANGED prioCh,
         UNCHANGED <<sent, got, recvCh, hand, wire, out, sendCh, send>>
  PROVE  \A d \in Ends : DirInv(d)'
  <1>0. TypeOK /\ (\A d \in Ends : DirInv(d)) /\ \A d \in Ends : Steady(d)
    BY NextSteady DEF ConnInv
  <1>1. CASE UNCHANGED prioCh
    BY <1>1, Flags
  <1>2. CASE prioCh' = [prioCh EXCEPT ![e] = Append(@, Ping)]
    <2>1. prioCh \in [Ends -> Seq(Frames)]
      BY <1>0 DEF TypeOK
    <2>2. ASSUME NEW d \in Ends, d # e PROVE DirInv(d)'
      <3>1. prioCh'[d] = prioCh[d]
        BY <1>2, <2>1, <2>2
      <3> QED
        BY <1>0, <3>1, Elsewhere
    <2>3. DirInv(e)'
      <3> DEFINE L == Line(e)
                 K == Line(e)'
      <3>1. /\ L \in Lines /\ K \in Lines
            /\ K[1] = L[1] /\ K[2] = L[2] /\ K[3] = L[3] /\ K[4] = L[4] /\ K[5] = L[5] /\ K[7] = L[7]
            /\ L[6] = prioCh[e] /\ K[6] = prioCh'[e]
        BY <1>0, LineIs, LineBecomes
      <3>2. K[6] = Append(L[6], Ping)
        BY <1>2, <2>1, <3>1
      <3>3. 6 \in Places /\ Ping \in Frames
        BY DEF Places, Frames
      <3> HIDE DEF L, K
      <3>4. \A a \in Places : a # 6 => K[a] = L[a]
        BY <3>1, PlacesAre
      <3>5. PICK m \in Nat : Added(L, K, 6, m, Ping)
        BY <3>1, <3>2, <3>3, <3>4, AddedBy
      <3> QED
        BY <1>0, <3>5, DirPinged DEF L, K
    <2> QED
      BY <2>2, <2>3
  <1> QED
    BY <1>1, <1>2 DEF PutPing

\* Receive reads a frame from the socket.
LEMMA ReadDirs ==
  ASSUME ConnInv, TypeOK', [Next]_vars, NEW e \in Ends, Read(e)
  PROVE  \A d \in Ends : DirInv(d)'
  <1> DEFINE f == Head(wire[e])
             p == Peer[e]
  <1>0. /\ TypeOK /\ (\A d \in Ends : DirInv(d)) /\ (\A d \in Ends : Steady(d))
        /\ p \in Ends /\ Peer[p] = e
    BY NextSteady, PeerIs DEF ConnInv
  <1>1. /\ recv[e] = "read" /\ wire[e] # <<>> /\ wire' = [wire EXCEPT ![e] = Tail(@)]
        /\ hand' = [hand EXCEPT ![e] = IF f = Ping THEN Nothing ELSE f]
        /\ UNCHANGED <<sent, got, recvCh, out, prioCh, sendCh, send, reader>>
    BY DEF Read, userVars, sendVars
  <1>2. wire \in [Ends -> Seq(Frames)] /\ hand \in [Ends -> Messages \cup {Nothing}]
    BY <1>0 DEF TypeOK
  <1>3. ASSUME NEW d \in Ends, d # p PROVE DirInv(d)'
    <2>1. wire'[Peer[d]] = wire[Peer[d]] /\ hand'[Peer[d]] = hand[Peer[d]]
      BY <1>1, <1>2, <1>3, PeerIs
    <2> QED
      BY <1>0, <1>1, <2>1, Elsewhere
  <1>4. DirInv(p)'
    <2> DEFINE L == Line(p)
               K == Line(p)'
    <2>1. f \in Frames /\ f = wire[e][1] /\ wire'[e] = Tail(wire[e])
      BY <1>1, <1>2, TailIs
    <2>2. hand[e] = Nothing /\ hand'[e] = IF f = Ping THEN Nothing ELSE f
      BY <1>1, <1>2 DEF ConnInv, Handing
    <2>3. /\ L \in Lines /\ K \in Lines
          /\ K[1] = L[1] /\ K[2] = L[2] /\ K[5] = L[5] /\ K[6] = L[6] /\ K[7] = L[7]
          /\ L[3] = One(hand[e]) /\ K[3] = One(hand'[e]) /\ L[4] = wire[e] /\ K[4] = wire'[e]
      BY <1>0, <1>1, LineIs, LineBecomes
    <2>4. L[4] # <<>> /\ K[4] = Tail(L[4]) /\ f = Head(L[4]) /\ f = L[4][1]
      BY <1>1, <2>1, <2>3
    <2>5. 3 \in Places /\ 4 \in Places /\ 3 + 1 = 4 /\ 3 \in 1 .. 5
      BY DEF Places
    <2>6. CASE f = Ping
      <3>1. K[3] = L[3]
        BY <2>2, <2>3, <2>6
      <3>2. L[4][1] \notin Messages
        BY <2>4, <2>6, FramesSeq
      <3> HIDE DEF L, K, f, p
      <3>3. \A a \in Places : a # 4 => K[a] = L[a]
        BY <2>3, <3>1, PlacesAre
      <3>4. PICK n \in Nat : Dropped(L, K, 4, n)
        BY <2>3, <2>4, <2>5, <3>3, DroppedBy
      <3>5. 4 \in {2, 4, 5} /\ 4 # 2 /\ 4 # 5
        OBVIOUS
      <3> QED
        BY <1>0, <1>1, <3>2, <3>4, <3>5, DirDropped DEF L, K
    <2>7. CASE f # Ping
      <3>1. K[3] = Append(L[3], Head(L[4]))
        <4>1. L[3] = <<>> /\ K[3] = Append(<<>>, f)
          BY <2>1, <2>2, <2>3, <2>7, OneIs
        <4> QED
          BY <2>4, <4>1
      <3> HIDE DEF L, K, f, p
      <3>2. \A a \in Places : a # 3 /\ a # 4 => K[a] = L[a]
        BY <2>3, PlacesAre
      <3>3. \E m, n \in Nat : Moved(L, K, 3, 4, m, n)
        BY <2>3, <2>4, <2>5, <3>1, <3>2, MovedBy
      <3>4. PICK m \in Nat, n \in Nat : Moved(L, K, 3, 3 + 1, m, n)
        BY <2>5, <3>3
      <3> QED
        BY <1>0, <1>1, <2>5, <3>4, DirMoved DEF L, K
    <2> QED
      BY <2>6, <2>7
  <1> QED
    BY <1>3, <1>4

\* Receive hands the message to recvCh.
LEMMA DeliverDirs ==
  ASSUME ConnInv, TypeOK', [Next]_vars, NEW e \in Ends, Deliver(e)
  PROVE  \A d \in Ends : DirInv(d)'
  <1> DEFINE p == Peer[e]
  <1>0. /\ TypeOK /\ (\A d \in Ends : DirInv(d)) /\ (\A d \in Ends : Steady(d))
        /\ p \in Ends /\ Peer[p] = e
    BY NextSteady, PeerIs DEF ConnInv
  <1>1. /\ recv[e] = "deliver" /\ recvCh' = [recvCh EXCEPT ![e] = Append(@, hand[e])]
        /\ hand' = [hand EXCEPT ![e] = Nothing]
        /\ UNCHANGED <<sent, got, wire, out, prioCh, sendCh, send, reader>>
    BY DEF Deliver, userVars, sendVars, netVars
  <1>2. recvCh \in [Ends -> Seq(Messages)] /\ hand \in [Ends -> Messages \cup {Nothing}]
    BY <1>0 DEF TypeOK
  <1>3. ASSUME NEW d \in Ends, d # p PROVE DirInv(d)'
    <2>1. recvCh'[Peer[d]] = recvCh[Peer[d]] /\ hand'[Peer[d]] = hand[Peer[d]]
      BY <1>1, <1>2, <1>3, PeerIs
    <2> QED
      BY <1>0, <1>1, <2>1, Elsewhere
  <1>4. DirInv(p)'
    <2> DEFINE L == Line(p)
               K == Line(p)'
               x == hand[e]
    <2>1. x \in Frames /\ hand'[e] = Nothing /\ recvCh'[e] = Append(recvCh[e], x)
      BY <1>1, <1>2 DEF ConnInv, Handing, Frames
    <2>2. One(x) # <<>> /\ Head(One(x)) = x /\ Tail(One(x)) = <<>> /\ One(hand'[e]) = <<>>
      BY <2>1, OneIs
    <2>3. /\ L \in Lines /\ K \in Lines
          /\ K[1] = L[1] /\ K[4] = L[4] /\ K[5] = L[5] /\ K[6] = L[6] /\ K[7] = L[7]
          /\ L[3] = One(x) /\ K[3] = One(hand'[e]) /\ L[2] = recvCh[e] /\ K[2] = recvCh'[e]
      BY <1>0, <1>1, LineIs, LineBecomes
    <2>4. L[3] # <<>> /\ K[2] = Append(L[2], Head(L[3])) /\ K[3] = Tail(L[3])
      BY <2>1, <2>2, <2>3
    <2>5. 2 \in Places /\ 3 \in Places /\ 2 + 1 = 3 /\ 2 \in 1 .. 5
      BY DEF Places
    <2> HIDE DEF L, K, x, p
    <2>6. \A a \in Places : a # 2 /\ a # 3 => K[a] = L[a]
      BY <2>3, PlacesAre
    <2>7. \E m, n \in Nat : Moved(L, K, 2, 3, m, n)
      BY <2>3, <2>4, <2>5, <2>6, MovedBy
    <2>8. PICK m \in Nat, n \in Nat : Moved(L, K, 2, 2 + 1, m, n)
      BY <2>5, <2>7
    <2> QED
      BY <1>0, <1>1, <2>5, <2>8, DirMoved DEF L, K
  <1> QED
    BY <1>3, <1>4

\* The MessageReceiver hands the message to its user.
LEMMA ReceiveDirs ==
  ASSUME ConnInv, TypeOK', [Next]_vars, NEW e \in Ends, Receive(e)
  PROVE  \A d \in Ends : DirInv(d)'
  <1> DEFINE f == Head(recvCh[e])
             p == Peer[e]
  <1>0. /\ TypeOK /\ (\A d \in Ends : DirInv(d)) /\ (\A d \in Ends : Steady(d))
        /\ p \in Ends /\ Peer[p] = e
    BY NextSteady, PeerIs DEF ConnInv
  <1>1. /\ reader[e] /\ recvCh[e] # <<>> /\ recvCh' = [recvCh EXCEPT ![e] = Tail(@)]
        /\ got' = [got EXCEPT ![e] = IF f.good THEN Append(@, f) ELSE @]
        /\ reader' = [reader EXCEPT ![e] = f.good]
        /\ UNCHANGED <<sent, hand, wire, out, prioCh, sendCh, send>>
    BY DEF Receive, sendVars, netVars
  <1>2. /\ recvCh \in [Ends -> Seq(Messages)] /\ got \in [Ends -> Seq(Messages)]
        /\ reader \in [Ends -> BOOLEAN]
    BY <1>0 DEF TypeOK
  <1>3. ASSUME NEW d \in Ends, d # p PROVE DirInv(d)'
    <2>1. recvCh'[Peer[d]] = recvCh[Peer[d]] /\ got'[Peer[d]] = got[Peer[d]]
      BY <1>1, <1>2, <1>3, PeerIs
    <2> QED
      BY <1>0, <1>1, <2>1, Elsewhere
  <1>4. DirInv(p)'
    <2> DEFINE L == Line(p)
               K == Line(p)'
    <2>1. recvCh'[e] = Tail(recvCh[e]) /\ reader'[e] = f.good
      BY <1>1, <1>2
    <2>2. got'[e] = IF f.good THEN Append(got[e], f) ELSE got[e]
      BY <1>1, <1>2
    <2>3. /\ L \in Lines /\ K \in Lines
          /\ K[3] = L[3] /\ K[4] = L[4] /\ K[5] = L[5] /\ K[6] = L[6] /\ K[7] = L[7]
          /\ L[1] = got[e] /\ K[1] = got'[e] /\ L[2] = recvCh[e] /\ K[2] = recvCh'[e]
      BY <1>0, <1>1, LineIs, LineBecomes
    <2>4. L[2] # <<>> /\ K[2] = Tail(L[2]) /\ f = Head(L[2])
      BY <1>1, <2>1, <2>3
    <2>5. 1 \in Places /\ 2 \in Places /\ 1 + 1 = 2 /\ 1 \in 1 .. 5
      BY DEF Places
    <2>6. CASE ~f.good
      <3>1. K[1] = L[1] /\ ~reader'[Peer[p]]
        BY <1>0, <2>1, <2>2, <2>3, <2>6
      <3> HIDE DEF L, K, f, p
      <3>2. \A a \in Places : a # 2 => K[a] = L[a]
        BY <2>3, <3>1, PlacesAre
      <3>3. PICK n \in Nat : Dropped(L, K, 2, n)
        BY <2>3, <2>4, <2>5, <3>2, DroppedBy
      <3>4. 2 \in {2, 4, 5} /\ 2 # 4 /\ 2 # 5
        OBVIOUS
      <3> QED
        BY <1>0, <1>1, <3>1, <3>3, <3>4, DirDropped DEF L, K
    <2>7. CASE f.good
      <3>1. K[1] = Append(L[1], Head(L[2]))
        BY <2>2, <2>3, <2>4, <2>7
      <3>2. reader[Peer[p]]
        BY <1>0, <1>1
      <3> HIDE DEF L, K, f, p
      <3>3. \A a \in Places : a # 1 /\ a # 2 => K[a] = L[a]
        BY <2>3, PlacesAre
      <3>4. \E m, n \in Nat : Moved(L, K, 1, 2, m, n)
        BY <2>3, <2>4, <2>5, <3>1, <3>3, MovedBy
      <3>5. PICK m \in Nat, n \in Nat : Moved(L, K, 1, 1 + 1, m, n)
        BY <2>5, <3>4
      <3> QED
        BY <1>0, <1>1, <2>5, <3>2, <3>5, DirMoved DEF L, K
    <2> QED
      BY <2>6, <2>7
  <1> QED
    BY <1>3, <1>4

\* The path is cut and what is on the wire is lost.
LEMMA CutDirs ==
  ASSUME ConnInv, TypeOK', [Next]_vars, Cut
  PROVE  \A d \in Ends : DirInv(d)'
  <1> SUFFICES ASSUME NEW d \in Ends PROVE DirInv(d)'
    OBVIOUS
  <1>0. TypeOK /\ DirInv(d) /\ Steady(d) /\ Peer[d] \in Ends
    BY NextSteady, PeerIs DEF ConnInv
  <1>1. /\ cut' = TRUE /\ wire'[Peer[d]] = <<>>
        /\ UNCHANGED <<sent, got, recvCh, hand, out, prioCh, sendCh, send>>
    BY <1>0 DEF Cut, All, userVars, sendVars, recvVars
  <1> DEFINE L == Line(d)
             K == Line(d)'
             C == {4}
  <1>2. /\ Len(K[4]) = 0 /\ K[1] = L[1] /\ K[2] = L[2] /\ K[3] = L[3]
        /\ K[5] = L[5] /\ K[6] = L[6] /\ K[7] = L[7]
    BY <1>0, <1>1, LineIs, LineBecomes
  <1>3. Cleared(L, K, C)
    <2> HIDE DEF L, K
    <2> QED
      BY <1>2, PlacesAre DEF Cleared
  <1>4. ~Up(d)' /\ C \in {{4}, {5, 6, 7}} /\ C = {4}
    BY <1>1 DEF Up
  <1> HIDE DEF C
  <1> QED
    BY <1>0, <1>1, <1>3, <1>4, DirCleared DEF L, K

-----------------------------------------------------------------------------
(* The results.                                                            *)

\* A new connection has nothing on its way.
LEMMA ConnStarts == Init => ConnInv
  <1> SUFFICES ASSUME Init PROVE ConnInv
    OBVIOUS
  <1>1. TypeOK
    <2>1. /\ <<>> \in Seq(Messages) /\ <<>> \in Seq(Frames)
          /\ 0 \in 0 .. MaxPings /\ 0 \in 0 .. MaxFaults
      BY ConnAssumption
    <2> QED
      BY <2>1 DEF Init, TypeOK, All
  <1>2. Handing
    BY DEF Init, Handing, All
  <1>3. ASSUME NEW e \in Ends PROVE DirInv(e)
    <2> DEFINE L == Line(e)
               s == Script[e]
    <2>1. One(Nothing) = <<>> /\ Peer[e] \in Ends
      BY OneIs, PeerIs
    <2>2. /\ got[Peer[e]] = <<>> /\ recvCh[Peer[e]] = <<>> /\ One(hand[Peer[e]]) = <<>>
          /\ wire[Peer[e]] = <<>> /\ One(out[e]) = <<>> /\ prioCh[e] = <<>> /\ sendCh[e] = <<>>
          /\ sent[e] = 0 /\ send[e] = "poll"
      BY <2>1 DEF Init, All
    <2>3. /\ Len(L[1]) = 0 /\ Len(L[2]) = 0 /\ Len(L[3]) = 0 /\ Len(L[4]) = 0
          /\ Len(L[5]) = 0 /\ Len(L[6]) = 0 /\ Len(L[7]) = 0
      BY <1>1, <2>2, LineIs
    <2>4. s \in Seq(Messages)
      BY ConnAssumption
    <2>5. 0 <= Len(s)
      BY <2>4
    <2>6. Line(e) = L /\ Script[e] = s
      OBVIOUS
    <2> HIDE DEF L, s
    <2>7. \A a \in Places : 1 .. Len(L[a]) = {}
      BY <2>3, PlacesAre
    <2>8. \A P \in SUBSET Places : Held(L, P) = {}
      BY <2>7 DEF Held
    <2>9. 1 .. 1 \in SUBSET Places /\ 1 .. 4 \in SUBSET Places /\ 6 \in Places /\ 7 \in Places
      BY DEF Places
    <2>10. Held(L, Places) = {} /\ Held(L, 1 .. 1) = {} /\ Held(L, 1 .. 4) = {}
      BY <2>8, <2>9
    <2>11. Rising(L) /\ Once(L)
      BY <2>7 DEF Rising, Once
    <2>12. Sides(L)
      BY <2>7, <2>9 DEF Sides
    <2>13. Sound(L, s, 0)
      BY <2>5, <2>10, <2>11, <2>12 DEF Sound, Genuine
    <2>14. Gapless(s, Held(L, 1 .. 1)) /\ Gapless(s, Held(L, 1 .. 4))
      BY <2>10 DEF Gapless
    <2>15. Whole(L, s, 0)
      <3>1. 1 .. 0 = {}
        OBVIOUS
      <3> QED
        BY <3>1 DEF Whole
    <2> QED
      BY <2>2, <2>6, <2>13, <2>14, <2>15 DEF DirInv
  <1> QED
    BY <1>1, <1>2, <1>3 DEF ConnInv

\* Every step keeps the invariant, action by action.
LEMMA ConnSteps == ConnInv /\ [Next]_vars => ConnInv'
  <1> SUFFICES ASSUME ConnInv, [Next]_vars PROVE ConnInv'
    OBVIOUS
  <1>1. TypeOK' /\ Handing'
    BY TypeStep DEF ConnInv
  <1> DEFINE Kept == \A d \in Ends : DirInv(d)'
  <1>2. ASSUME NEW e \in Ends,
               \/ WaitStop(e) \/ Stopped(e) \/ Cancel(e) \/ ParentDone(e)
               \/ SpuriousTimeout(e) \/ TimeoutWhenCut(e)
        PROVE  Kept
    <2>1. UNCHANGED <<sent, got, recvCh, hand, wire, out, prioCh, sendCh, send>>
      BY <1>2 DEF WaitStop, Stopped, Cancel, ParentDone, SpuriousTimeout, TimeoutWhenCut, Timeout,
                  userVars, sendVars, netVars, recvVars
    <2> QED
      BY <2>1, Flags
  <1>3. ASSUME NEW e \in Ends, Forward(e) PROVE Kept
    BY <1>1, <1>3, ForwardDirs
  <1>4. ASSUME NEW e \in Ends, Poll(e) PROVE Kept
    BY <1>1, <1>4, PollDirs
  <1>5. ASSUME NEW e \in Ends, Select(e) PROVE Kept
    BY <1>1, <1>5, SelectDirs
  <1>6. ASSUME NEW e \in Ends, Write(e) PROVE Kept
    BY <1>1, <1>6, WriteDirs
  <1>7. ASSUME NEW e \in Ends, WriteFails(e) PROVE Kept
    <2>1. SendEnds(e) /\ UNCHANGED <<sent, got, recvCh, hand, wire>>
      BY <1>7 DEF WriteFails, userVars, netVars, recvVars
    <2> QED
      BY <1>1, <2>1, EndsDirs
  <1>8. ASSUME NEW e \in Ends, Tick(e) \/ Ctrl(e) PROVE Kept
    <2>1. /\ PutPing(e) \/ UNCHANGED prioCh
          /\ UNCHANGED <<sent, got, recvCh, hand, wire, out, sendCh, send>>
      BY <1>8 DEF Tick, Ctrl, userVars, netVars, recvVars
    <2> QED
      BY <1>1, <2>1, PingDirs
  <1>9. ASSUME NEW e \in Ends, Read(e) PROVE Kept
    BY <1>1, <1>9, ReadDirs
  <1>10. ASSUME NEW e \in Ends, ReadFails(e) \/ TooLarge(e) \/ ReaderEnds(e) PROVE Kept
    <2>1. UNCHANGED <<sent, got, recvCh, hand, wire, out, prioCh, sendCh, send>>
      BY <1>10 DEF ReadFails, TooLarge, ReaderEnds, userVars, sendVars, netVars, recvVars
    <2> QED
      BY <2>1, Flags
  <1>11. ASSUME NEW e \in Ends, Deliver(e) PROVE Kept
    BY <1>1, <1>11, DeliverDirs
  <1>12. ASSUME NEW e \in Ends, Receive(e) PROVE Kept
    BY <1>1, <1>12, ReceiveDirs
  <1>13. ASSUME Cut PROVE Kept
    BY <1>1, <1>13, CutDirs
  <1>14. ASSUME UNCHANGED vars PROVE Kept
    BY <1>14, Flags DEF vars
  <1> HIDE DEF Kept
  <1>15. Kept
    BY <1>2, <1>3, <1>4, <1>5, <1>6, <1>7, <1>8, <1>9, <1>10, <1>11, <1>12, <1>13, <1>14
       DEF Next, Routine
  <1> QED
    BY <1>1, <1>15 DEF ConnInv, Kept

\* The inductive invariant of a connection: what each direction still holds is
\* genuine, rises in each priority, and lets a priority message be passed once;
\* what has come to the reader's side has no gap while its sender's context
\* lives, and nothing at all is missing while the direction is up.
THEOREM ConnInvariant == Spec => []ConnInv
  BY ConnStarts, ConnSteps, PTL DEF Spec

\* Sound lines without a gap are read in order.
LEMMA InOrderHolds == ConnInv => InOrder
  <1> SUFFICES ASSUME ConnInv, NEW e \in Ends, NEW i \in DOMAIN got[Peer[e]]
               PROVE  /\ got[Peer[e]][i].id \in 1 .. sent[e]
                      /\ got[Peer[e]][i] = Script[e][got[Peer[e]][i].id]
                      /\ \A k \in 1 .. i - 1 : got[Peer[e]][k].class = got[Peer[e]][i].class =>
                            got[Peer[e]][k].id < got[Peer[e]][i].id
                      /\ ~parent[e] => \A n \in 1 .. got[Peer[e]][i].id :
                            Script[e][n].class = got[Peer[e]][i].class =>
                              \E k \in 1 .. i : got[Peer[e]][k] = Script[e][n]
    BY DEF InOrder
  <1> DEFINE L == Line(e)
             s == Script[e]
             here == L[1]
             m == here[i]
  <1>1. L \in Lines /\ here = got[Peer[e]] /\ here \in Seq(Messages) /\ Peer[e] \in Ends
    <2>1. TypeOK /\ Peer[e] \in Ends
      BY PeerIs DEF ConnInv
    <2>2. got[Peer[e]] \in Seq(Messages)
      BY <2>1 DEF TypeOK
    <2>3. L \in Lines /\ here = got[Peer[e]]
      BY <2>1, LineIs
    <2> QED
      BY <2>1, <2>2, <2>3
  <1>2. /\ s \in Seq(Messages) /\ (\A j \in DOMAIN s : s[j].id = j) /\ sent[e] \in Nat
    BY ConnAssumption DEF ConnInv, TypeOK
  <1>3. /\ Sound(L, s, sent[e])
        /\ ~parent[e] => Gapless(s, Held(L, 1 .. 1))
    BY DEF ConnInv, DirInv
  <1>4. i \in 1 .. Len(here) /\ Len(here) \in Nat
    BY <1>1
  <1>5. SUFFICES /\ m.id \in 1 .. sent[e] /\ m = s[m.id]
                 /\ \A k \in 1 .. i - 1 : here[k].class = m.class => here[k].id < m.id
                 /\ ~parent[e] => \A n \in 1 .. m.id :
                      s[n].class = m.class => \E k \in 1 .. i : here[k] = s[n]
    BY <1>1
  <1> DEFINE N == sent[e]
  <1>6. Sound(L, s, N) /\ N \in Nat
    BY <1>2, <1>3
  <1> HIDE DEF L, s, N
  <1>7. ASSUME NEW k \in 1 .. Len(here) PROVE here[k] \in Messages /\ here[k].class # "ping"
    BY <1>1, <1>7, FrameTyped DEF Frames
  <1>8. 1 \in Places /\ 1 \in 1 .. 1
    BY DEF Places
  <1>9. m \in Held(L, Places) /\ m \in Held(L, 1 .. 1)
    BY <1>4, <1>7, <1>8 DEF Held
  <1>10. m.id \in 1 .. N /\ m = s[m.id] /\ N <= Len(s)
    BY <1>6, <1>9 DEF Sound, Genuine
  <1>11. ASSUME NEW j \in 1 .. Len(here), NEW k \in 1 .. Len(here), k < j, here[k].class = here[j].class
         PROVE  here[k].id < here[j].id
    <2>1. Same(here[k], here[j])
      BY <1>7, <1>11 DEF Same
    <2> QED
      BY <1>6, <1>8, <1>11, <2>1 DEF Sound, Rising
  <1>12. ASSUME NEW k \in 1 .. i - 1, here[k].class = m.class PROVE here[k].id < m.id
    <2>1. k \in 1 .. Len(here) /\ k < i
      BY <1>4
    <2> QED
      BY <1>4, <1>11, <1>12, <2>1
  <1>13. ASSUME ~parent[e], NEW n \in 1 .. m.id, s[n].class = m.class
         PROVE  \E k \in 1 .. i : here[k] = s[n]
    <2>1. s[n] \in Held(L, 1 .. 1)
      BY <1>3, <1>9, <1>13 DEF Gapless
    <2>2. PICK k \in 1 .. Len(here) : s[n] = here[k]
      BY <2>1 DEF Held
    <2>3. s[n].id = n /\ n \in Nat /\ m.id \in Nat /\ n <= m.id
      BY <1>2, <1>6, <1>10
    <2>4. ~(i < k)
      <3> SUFFICES ASSUME i < k PROVE FALSE
        OBVIOUS
      <3>1. m.id < here[k].id
        BY <1>4, <1>11, <1>13, <2>2
      <3> QED
        BY <2>2, <2>3, <3>1
    <2>5. k \in 1 .. i
      BY <1>4, <2>4
    <2> QED
      BY <2>2, <2>5
  <1> QED
    BY <1>10, <1>12, <1>13 DEF N

\* On a sound line a priority message is overtaken at most once.
LEMMA OvertakenOnceHolds == ConnInv => OvertakenOnce
  <1> SUFFICES ASSUME ConnInv, NEW e \in Ends, NEW i \in 1 .. Len(got[e]), got[e][i].class = High
               PROVE  Cardinality({k \in 1 .. i - 1 : /\ got[e][k].class = Low
                                                       /\ got[e][k].id > got[e][i].id}) <= 1
    BY DEF OvertakenOnce
  <1> DEFINE p == Peer[e]
             L == Line(p)
             here == L[1]
             T == {k \in 1 .. i - 1 : here[k].class = Low /\ here[k].id > here[i].id}
  <1>1. p \in Ends /\ Peer[p] = e
    BY PeerIs
  <1>2. L \in Lines /\ here = got[e] /\ here \in Seq(Messages)
    <2>1. TypeOK /\ got[e] \in Seq(Messages)
      BY DEF ConnInv, TypeOK
    <2>2. L \in Lines /\ here = got[Peer[p]]
      <3> HIDE DEF p
      <3> QED
        BY <1>1, <2>1, LineIs
    <2> QED
      BY <1>1, <2>1, <2>2
  <1>3. Rising(L) /\ Once(L)
    BY <1>1 DEF ConnInv, DirInv, Sound
  <1>4. i \in 1 .. Len(here) /\ Len(here) \in Nat /\ here[i].class = High
    BY <1>2
  <1>5. SUFFICES Cardinality(T) <= 1
    BY <1>2
  <1> HIDE DEF L
  <1>6. 1 \in Places
    BY DEF Places
  <1>7. ASSUME NEW k \in T
        PROVE  k \in 1 .. Len(here) /\ k < i /\ Later(here[k], here[i]) /\ here[k] \in Messages
    <2>1. k \in 1 .. Len(here) /\ k < i
      BY <1>4
    <2>2. here[k] \in Messages
      BY <1>2, <2>1
    <2> QED
      BY <1>4, <2>1, <2>2 DEF Later
  <1> HIDE DEF T
  <1>8. ASSUME NEW k \in T, NEW l \in T PROVE here[k] = here[l]
    BY <1>3, <1>4, <1>6, <1>7 DEF Once
  <1>9. ASSUME NEW k \in T, NEW l \in T PROVE ~(k < l)
    <2> SUFFICES ASSUME k < l PROVE FALSE
      OBVIOUS
    <2>1. here[k] = here[l] /\ k \in 1 .. Len(here) /\ l \in 1 .. Len(here) /\ here[k] \in Messages
      BY <1>7, <1>8
    <2>2. Same(here[k], here[l]) /\ here[k].id \in Nat
      BY <2>1, FrameTyped DEF Same, Frames
    <2>3. here[k].id < here[l].id
      BY <1>3, <1>6, <2>1, <2>2 DEF Rising
    <2> QED
      BY <2>1, <2>2, <2>3
  <1>10. \A k \in T : k \in Int
    BY <1>7
  <1>11. T = {} \/ \E k \in T : T = {k}
    BY <1>9, <1>10
  <1>12. Cardinality(T) = 0 \/ Cardinality(T) = 1
    BY <1>11, FS_EmptySet, FS_Singleton, Zenon
  <1> QED
    BY <1>12

\* For any scripts, capacities, pings and faults: what a user reads of each
\* priority is what its peer sent, in order, nothing twice, with no gap while the
\* sender's context lives, and a priority message is overtaken by one later
\* ordinary message at most (sendRoutine's two selects).
THEOREM MessagesInOrder == Spec => []Ordered
  <1>1. ConnInv => Ordered
    BY InOrderHolds, OvertakenOnceHolds DEF Ordered
  <1> QED
    BY <1>1, ConnInvariant, PTL

-----------------------------------------------------------------------------
(* The relay and the pool *)

\* listenRoutine has found a place for the collector it is making: it alone adds.
PlaceFree == listener # None => Cardinality(members) < MaxCollector

\* A collector that runs is in the pool or is the one being added.
Counted == \A k \in Conns : coll[k] # "none" => k \in members \/ k = listener

\* What stopping and stopped say of reborn.
StopFlags ==
    /\ rebirth \in {"timer", "dialed", "spawned"} => stopping /\ stopped
    /\ rebirth = "half" => ~stopping /\ stopped
    /\ rebirth = "no" /\ stopped => stopping

\* Where a waitStop can be.  The user's comes after the context is done, so reborn gives up if
\* it meets one that has seen stopped unset; the processor's own is over when reborn dials.
Waiting ==
    /\ waiter["user"] # "no" => halted
    /\ \A w \in Waiters : waiter[w] = "wait" => stopping /\ ~stopped
    /\ rebirth \in {"dialed", "spawned", "half"} => \A w \in Waiters : waiter[w] # "loaded"
    /\ rebirth = "dialed" \/ (rebirth = "timer" /\ ~halted) => waiter["own"] = "no"

RelayInv ==
    /\ RelayTypeOK /\ Cardinality(members) <= MaxCollector /\ PlaceFree /\ Counted
    /\ StopFlags /\ Waiting /\ OneLife

\* No connection is none.
LEMMA NoneIsNoConn == None \notin Conns
  BY RelayAssumption DEF None, Conns

\* Sets of connections are finite.
LEMMA ConnsFinite ==
  ASSUME NEW S \in SUBSET Conns
  PROVE  IsFiniteSet(S) /\ Cardinality(S) \in Nat
  <1>1. IsFiniteSet(Conns)
    BY RelayAssumption, FS_Interval DEF Conns
  <1> QED
    BY <1>1, FS_Subset, FS_CardinalityType

\* With one connection more there is at most one more.
LEMMA OneMore ==
  ASSUME NEW S \in SUBSET Conns, NEW k \in Conns
  PROVE  Cardinality(S \cup {k}) <= Cardinality(S) + 1
  <1>1. Cardinality(S \cup {k}) = IF k \in S THEN Cardinality(S) ELSE Cardinality(S) + 1
    BY ConnsFinite, FS_AddElement
  <1> QED
    BY <1>1, ConnsFinite

\* Without one there are not more.
LEMMA OneLess ==
  ASSUME NEW S \in SUBSET Conns, NEW k
  PROVE  Cardinality(S \ {k}) <= Cardinality(S)
  <1>1. S \ {k} \in SUBSET S
    OBVIOUS
  <1> QED
    BY <1>1, ConnsFinite, FS_Subset

\* A set of connections that is not empty has a first one.
LEMMA FirstConn ==
  ASSUME NEW S \in SUBSET Conns, S # {}
  PROVE  Min(S) \in S
  <1> DEFINE R == OpToRel(<, Nat)
  <1>1. S \in SUBSET Nat
    BY RelayAssumption DEF Conns
  <1>2. PICK n \in S : \A k \in S : ~(<<k, n>> \in R)
    <2>1. IsWellFoundedOn(R, Nat)
      BY NatLessThanWellFounded
    <2> QED
      BY <1>1, <2>1, WFMin
  <1>3. \A k \in S : ~(k < n)
    BY <1>1, <1>2 DEF OpToRel
  <1>4. \A k \in S : n <= k
    BY <1>1, <1>3
  <1> QED
    BY <1>4 DEF Min

RelayRests == UNCHANGED relayVars

\* A step that leaves the relay alone keeps its part of the invariant ...
LEMMA RelayPartRests ==
  ASSUME StopFlags, Waiting, OneLife, RelayRests
  PROVE  StopFlags' /\ Waiting' /\ OneLife'
  BY DEF StopFlags, Waiting, OneLife, RelayRests, relayVars

PoolRests == listener' = listener /\ members' = members /\ coll' = coll

\* ... and one that leaves the pool alone keeps the pool's.
LEMMA PoolPartRests ==
  ASSUME Cardinality(members) <= MaxCollector, PlaceFree, Counted, PoolRests
  PROVE  (Cardinality(members) <= MaxCollector /\ PlaceFree /\ Counted)'
  BY DEF PlaceFree, Counted, PoolRests

\* The relay has dialled, the pool is empty.
LEMMA InitRelayInv == RelayInit => RelayInv
  <1> SUFFICES ASSUME RelayInit PROVE RelayInv
    OBVIOUS
  <1>1. RelayTypeOK
    <2>1. 1 \in Conns /\ 0 \in Tasks /\ 0 \in 0..MaxLosses
      BY RelayAssumption DEF Conns, Tasks
    <2>2. <<>> \in Seq(Tasks)
      OBVIOUS
    <2>3. link \in [Conns -> {"free", "backlog", "up", "down"}] /\ toRelay \in [Conns -> Seq(Tasks)]
      BY <2>2 DEF RelayInit
    <2> QED
      BY <2>1, <2>3 DEF RelayInit, RelayTypeOK
  <1>2. Cardinality(members) <= MaxCollector
    BY FS_EmptySet, RelayAssumption DEF RelayInit
  <1> QED
    BY <1>1, <1>2 DEF RelayInit, RelayInv, PlaceFree, Counted, StopFlags, Waiting, OneLife, Waiters, None

\* Types are kept by what the relay does.
LEMMA TypesByRelay ==
  ASSUME RelayTypeOK, RelayStep
  PROVE  RelayTypeOK'
  <1>1. CASE ReceiveTask
    <2>1. toRelay[cur] \in Seq(Tasks) /\ toRelay[cur] # <<>>
      BY <1>1 DEF ReceiveTask, RelayTypeOK
    <2>2. Head(toRelay[cur]) \in Tasks /\ Tail(toRelay[cur]) \in Seq(Tasks)
      BY <2>1
    <2> QED
      BY <1>1, <2>2 DEF ReceiveTask, RelayTypeOK, relayVars, poolVars
  <1>2. CASE ProcessorEnds
    BY <1>2 DEF ProcessorEnds, RelayTypeOK, localVars, poolVars, Waiters
  <1>3. ASSUME NEW w \in Waiters, LoadStopped(w) \/ SwapStopping(w) \/ AfterStopped(w)
        PROVE RelayTypeOK'
    BY <1>3 DEF LoadStopped, SwapStopping, AfterStopped, RelayTypeOK, localVars, poolVars
  <1>4. CASE Dial
    <2> DEFINE usable == {k \in Conns : link[k] = "free" \/ Forgotten(k)}
    <2>1. Min(usable) \in Conns
      BY <1>4, FirstConn DEF Dial
    <2>2. <<>> \in Seq(Tasks)
      OBVIOUS
    <2> HIDE DEF usable
    <2>3. /\ link' = [link EXCEPT ![Min(usable)] = "backlog"]
          /\ toRelay' = [toRelay EXCEPT ![Min(usable)] = <<>>]
          /\ cur' = Min(usable) /\ rebirth' = "dialed"
          /\ old' = None \/ old' = old
      BY <1>4 DEF Dial, usable
    <2>4. UNCHANGED <<proc, stopping, stopped, waiter, halted, localVars, poolVars, stale, losses>>
      BY <1>4 DEF Dial
    <2> QED
      BY <2>1, <2>2, <2>3, <2>4 DEF RelayTypeOK, localVars, poolVars
  <1>5. CASE DialGivesUp \/ Reborn \/ ResetStopping \/ ResetStopped
    BY <1>5 DEF DialGivesUp, Reborn, ResetStopping, ResetStopped, RelayTypeOK, localVars, poolVars
  <1>6. CASE HaltedDown
    BY <1>6 DEF HaltedDown, RelayTypeOK, relayVars, localVars, poolVars
  <1>7. ASSUME NEW c \in Locals, Subscribe(c) \/ SubscribeSends(c)
        PROVE RelayTypeOK'
    <2>1. 0 \in Tasks
      BY RelayAssumption DEF Tasks
    <2>2. CASE Subscribe(c)
      BY <2>2 DEF Subscribe, RelayTypeOK, relayVars, poolVars
    <2>3. CASE SubscribeSends(c)
      <3>1. lread[c] \in Tasks
        BY DEF RelayTypeOK
      <3>2. work' \in [Locals -> Tasks] /\ stale' \in BOOLEAN
        BY <2>3, <3>1 DEF SubscribeSends, Work, RelayTypeOK
      <3> QED
        BY <2>1, <2>3, <3>2 DEF SubscribeSends, RelayTypeOK, relayVars, poolVars
    <2> QED
      BY <1>7, <2>2, <2>3
  <1>8. CASE RunBroadcast
    BY <1>8 DEF RunBroadcast, Work, RelayTypeOK, relayVars, poolVars
  <1> QED
    BY <1>1, <1>2, <1>3, <1>4, <1>5, <1>6, <1>7, <1>8 DEF RelayStep

\* What a collector sends over a connection is a task.
LEMMA PutTypes ==
  ASSUME RelayTypeOK, NEW k \in Conns, NEW t \in Tasks, Put(k, t)
  PROVE  toRelay' \in [Conns -> Seq(Tasks)] /\ stale' \in BOOLEAN
  <1>1. toRelay[k] \in Seq(Tasks) /\ Append(toRelay[k], t) \in Seq(Tasks)
    BY DEF RelayTypeOK
  <1> QED
    BY <1>1 DEF Put, RelayTypeOK

\* Types are kept by what the pool does, and the miner, the user and the network.
LEMMA TypesByPool ==
  ASSUME RelayTypeOK, PoolStep \/ Halt \/ AddTask \/ \E k \in Conns : Lose(k)
  PROVE  RelayTypeOK'
  <1>1. CASE Accept
    BY <1>1 DEF Accept, RelayTypeOK, relayVars, localVars
  <1>2. CASE AddCollector
    BY <1>2 DEF AddCollector, RelayTypeOK, relayVars, localVars, None
  <1>3. CASE Carry
    <2>1. PICK f \in Conns \X Tasks : flight' = flight \ {f} /\ Put(f[1], f[2])
      BY <1>3 DEF Carry, RelayTypeOK
    <2> QED
      BY <1>3, <2>1, PutTypes DEF Carry, RelayTypeOK, relayVars, localVars
  <1>4. ASSUME NEW k \in Conns, CollectorSubscribes(k) \/ CollectorEnds(k) \/ RemoveCollector(k)
        PROVE RelayTypeOK'
    BY <1>4 DEF CollectorSubscribes, CollectorEnds, RemoveCollector, RelayTypeOK, relayVars, localVars
  <1>5. ASSUME NEW k \in Conns, CollectorSends(k) PROVE RelayTypeOK'
    <2>1. 0 \in Tasks /\ cread[k] \in Tasks
      BY RelayAssumption DEF Tasks, RelayTypeOK
    <2> QED
      BY <1>5, <2>1, PutTypes DEF CollectorSends, RelayTypeOK, relayVars, localVars
  <1>6. CASE Halt
    BY <1>6 DEF Halt, RelayTypeOK, localVars, poolVars, Waiters
  <1>7. CASE AddTask
    <2>1. latest + 1 \in Tasks
      BY <1>7, RelayAssumption DEF AddTask, RelayTypeOK, Tasks
    <2> QED
      BY <1>7, <2>1 DEF AddTask, RelayTypeOK, relayVars, localVars
  <1>8. ASSUME NEW k \in Conns, Lose(k) PROVE RelayTypeOK'
    <2>1. PICK n \in 0..Len(toRelay[k]) : toRelay' = [toRelay EXCEPT ![k] = SubSeq(@, 1, n)]
      BY <1>8 DEF Lose
    <2>2. SubSeq(toRelay[k], 1, n) \in Seq(Tasks)
      BY DEF RelayTypeOK
    <2>3. losses + 1 \in 0..MaxLosses
      BY <1>8, RelayAssumption DEF Lose, RelayTypeOK
    <2> QED
      BY <1>8, <2>1, <2>2, <2>3 DEF Lose, RelayTypeOK, relayVars, localVars, poolVars
  <1> QED
    BY <1>1, <1>2, <1>3, <1>4, <1>5, <1>6, <1>7, <1>8 DEF PoolStep

\* The relay's part, where the relay or its user takes a step.
LEMMA LivesByRelay ==
  ASSUME RelayTypeOK, StopFlags, Waiting, OneLife, RelayStep \/ Halt
  PROVE  StopFlags' /\ Waiting' /\ OneLife'
  <1> USE DEF RelayTypeOK, StopFlags, Waiting, OneLife, Waiters
  <1>1. CASE ReceiveTask \/ HaltedDown \/ RunBroadcast \/ \E c \in Locals : Subscribe(c) \/ SubscribeSends(c)
    BY <1>1, RelayPartRests DEF ReceiveTask, HaltedDown, RunBroadcast, Subscribe, SubscribeSends, RelayRests
  <1>2. CASE ProcessorEnds
    BY <1>2 DEF ProcessorEnds
  <1>3. ASSUME NEW w \in Waiters, LoadStopped(w) PROVE StopFlags' /\ Waiting' /\ OneLife'
    BY <1>3 DEF LoadStopped
  <1>4. ASSUME NEW w \in Waiters, SwapStopping(w) PROVE StopFlags' /\ Waiting' /\ OneLife'
    BY <1>4 DEF SwapStopping
  <1>5. ASSUME NEW w \in Waiters, AfterStopped(w) PROVE StopFlags' /\ Waiting' /\ OneLife'
    BY <1>5 DEF AfterStopped
  <1>6. CASE Dial
    BY <1>6 DEF Dial
  <1>7. CASE DialGivesUp
    BY <1>7 DEF DialGivesUp
  <1>8. CASE Reborn
    BY <1>8 DEF Reborn
  <1>9. CASE ResetStopping
    BY <1>9 DEF ResetStopping
  <1>10. CASE ResetStopped
    BY <1>10 DEF ResetStopped
  <1>11. CASE Halt
    BY <1>11 DEF Halt
  <1> QED
    BY <1>1, <1>2, <1>3, <1>4, <1>5, <1>6, <1>7, <1>8, <1>9, <1>10, <1>11 DEF RelayStep

\* The pool's part, where the pool takes a step.
LEMMA PlacesByPool ==
  ASSUME RelayTypeOK, Cardinality(members) <= MaxCollector, PlaceFree, Counted, PoolStep
  PROVE  (Cardinality(members) <= MaxCollector /\ PlaceFree /\ Counted)'
  <1>0. members \in SUBSET Conns /\ Cardinality(members) \in Nat /\ MaxCollector \in Nat
    BY ConnsFinite, RelayAssumption DEF RelayTypeOK
  <1>1. CASE Accept
    <2>1. PICK k \in Conns : \/ UNCHANGED <<coll, listener>>
                             \/ /\ Cardinality(members) < MaxCollector
                                /\ coll' = [coll EXCEPT ![k] = "new"] /\ listener' = k
      BY <1>0, <1>1 DEF Accept
    <2> QED
      BY <1>0, <1>1, <2>1, NoneIsNoConn DEF Accept, PlaceFree, Counted, RelayTypeOK
  <1>2. CASE AddCollector
    <2>1. listener \in Conns
      BY <1>2 DEF AddCollector, RelayTypeOK, None
    <2>2. Cardinality(members') <= MaxCollector
      <3>1. Cardinality(members \cup {listener}) <= Cardinality(members) + 1
        BY <1>0, <2>1, OneMore
      <3>2. members \cup {listener} \in SUBSET Conns
        BY <1>0, <2>1
      <3>3. Cardinality(members \cup {listener}) \in Nat
        BY <3>2, ConnsFinite
      <3>4. members' = members \cup {listener} /\ listener # None
        BY <1>2 DEF AddCollector
      <3> QED
        BY <1>0, <3>1, <3>3, <3>4 DEF PlaceFree
    <2> QED
      BY <1>2, <2>2 DEF AddCollector, PlaceFree, Counted, None
  <1>3. CASE Carry
    BY <1>3, PoolPartRests DEF Carry, PoolRests
  <1>4. ASSUME NEW k \in Conns, CollectorSubscribes(k) \/ CollectorSends(k) \/ CollectorEnds(k)
        PROVE  (Cardinality(members) <= MaxCollector /\ PlaceFree /\ Counted)'
    <2>1. coll[k] # "none" /\ UNCHANGED <<members, listener>> /\ \A j \in Conns : coll'[j] # "none" => coll[j] # "none"
      BY <1>4 DEF CollectorSubscribes, CollectorSends, CollectorEnds, RelayTypeOK
    <2> QED
      BY <2>1 DEF PlaceFree, Counted
  <1>5. ASSUME NEW k \in Conns, RemoveCollector(k)
        PROVE  (Cardinality(members) <= MaxCollector /\ PlaceFree /\ Counted)'
    <2>1. Cardinality(members \ {k}) <= Cardinality(members) /\ Cardinality(members \ {k}) \in Nat
      BY <1>0, OneLess, ConnsFinite
    <2>2. members' = members \ {k} /\ listener' = listener /\ coll' = [coll EXCEPT ![k] = "none"]
      BY <1>5 DEF RemoveCollector
    <2>3. Counted'
      BY <2>2 DEF Counted, RelayTypeOK
    <2> QED
      BY <1>0, <2>1, <2>2, <2>3 DEF PlaceFree
  <1> QED
    BY <1>1, <1>2, <1>3, <1>4, <1>5 DEF PoolStep

\* Every step keeps the invariant: one of the relay its part, one of the pool the pool's.
LEMMA NextRelayInv == RelayInv /\ [RelayNext]_clusterVars => RelayInv'
  <1> SUFFICES ASSUME RelayInv, [RelayNext]_clusterVars PROVE RelayInv'
    OBVIOUS
  <1>0. /\ RelayTypeOK /\ Cardinality(members) <= MaxCollector /\ PlaceFree /\ Counted
        /\ StopFlags /\ Waiting /\ OneLife
    BY DEF RelayInv
  <1>1. CASE RelayStep \/ Halt
    <2>1. PoolRests
      BY <1>1 DEF RelayStep, Halt, PoolRests, poolVars, ReceiveTask, ProcessorEnds, LoadStopped,
                  SwapStopping, AfterStopped, Dial, DialGivesUp, Reborn, ResetStopping,
                  ResetStopped, HaltedDown, Subscribe, SubscribeSends, RunBroadcast
    <2>2. RelayTypeOK'
      BY <1>0, <1>1, TypesByRelay, TypesByPool
    <2> QED
      BY <1>0, <1>1, <2>1, <2>2, LivesByRelay, PoolPartRests DEF RelayInv
  <1>2. CASE PoolStep
    <2>1. RelayRests
      BY <1>2 DEF PoolStep, RelayRests, Accept, AddCollector, Carry, CollectorSubscribes,
                  CollectorSends, CollectorEnds, RemoveCollector
    <2> QED
      BY <1>0, <1>2, <2>1, TypesByPool, PlacesByPool, RelayPartRests DEF RelayInv
  <1>3. CASE AddTask \/ \E k \in Conns : Lose(k)
    <2>1. RelayRests /\ PoolRests
      BY <1>3 DEF RelayRests, PoolRests, AddTask, Lose, poolVars
    <2> QED
      BY <1>0, <1>3, <2>1, TypesByPool, PoolPartRests, RelayPartRests DEF RelayInv
  <1>4. CASE UNCHANGED clusterVars
    <2>1. RelayRests /\ PoolRests
      BY <1>4 DEF RelayRests, PoolRests, clusterVars, poolVars
    <2>2. RelayTypeOK'
      BY <1>0, <1>4 DEF RelayTypeOK, clusterVars, relayVars, localVars, poolVars
    <2> QED
      BY <1>0, <2>1, <2>2, PoolPartRests, RelayPartRests DEF RelayInv
  <1> QED
    BY <1>1, <1>2, <1>3, <1>4 DEF RelayNext

\* Types, places and lives of a relay and its pool, for any number of connections, local
\* collectors, tasks and losses, those of connections that are being set up included.
THEOREM RelayInvariant == RelaySpec => []RelayInv
  BY InitRelayInv, NextRelayInv, PTL DEF RelaySpec

\* For any bound, and whenever connections are lost and relays stopped: the pool never has more
\* than maxCollector collectors, nor do more run, and a relay never has two processors, two
\* reborns or a waitStop left over from an earlier processor.
THEOREM BoundsAreKept == RelaySpec => []BoundsKept
  <1>1. RelayInv => BoundsKept
    <2> SUFFICES ASSUME RelayInv PROVE BoundsKept
      OBVIOUS
    <2> DEFINE live == {k \in Conns : coll[k] # "none"}
               all == IF listener = None THEN members ELSE members \cup {listener}
    <2>1. members \in SUBSET Conns /\ (listener # None => listener \in Conns)
      BY DEF RelayInv, RelayTypeOK
    <2>2. live \in SUBSET all /\ all \in SUBSET Conns
      BY <2>1, NoneIsNoConn DEF RelayInv, Counted
    <2>3. Cardinality(all) <= MaxCollector
      <3>1. Cardinality(members) \in Nat /\ MaxCollector \in Nat /\ Cardinality(all) \in Nat
        BY <2>1, <2>2, ConnsFinite, RelayAssumption
      <3>2. listener # None => Cardinality(members \cup {listener}) <= Cardinality(members) + 1
        BY <2>1, OneMore
      <3> QED
        BY <3>1, <3>2 DEF RelayInv, PlaceFree
    <2> HIDE DEF all, live
    <2>4. Cardinality(live) <= Cardinality(all) /\ Cardinality(live) \in Nat /\ Cardinality(all) \in Nat
      BY <2>2, ConnsFinite, FS_Subset
    <2>5. Cardinality(live) <= MaxCollector
      BY <2>3, <2>4, RelayAssumption
    <2> QED
      BY <2>5 DEF RelayInv, BoundsKept, PoolBound, live
  <1> QED
    BY <1>1, RelayInvariant, PTL
=============================================================================
