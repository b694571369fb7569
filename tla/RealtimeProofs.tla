--------------------------- MODULE RealtimeProofs ---------------------------
(***************************************************************************)
(* Proofs about the broker, for any connections, topics, users, sizes of   *)
(* its queues and numbers of joins, entries and changes.                   *)
(***************************************************************************)
EXTENDS Realtime, SequenceTheorems, WellFoundedInduction, TLAPS

-----------------------------------------------------------------------------
(* Induction, about a set of naturals.                                     *)

LEMMA LeastOf ==
  ASSUME NEW T, T \subseteq Nat, T # {}
  PROVE  \E m \in T : \A n \in T : m <= n
<1> DEFINE R == {ss \in Nat \X Nat : ss[1] < ss[2]}
<1>1. IsWellFoundedOn(R, Nat)
  BY NatLessThanWellFounded DEF OpToRel
<1>2. PICK m \in T : \A n \in T : ~(<<n, m>> \in R)
  BY <1>1, WFMin, Zenon
<1>3. ASSUME NEW n \in T PROVE m <= n
  <2>1. ~(<<n, m>> \in R) /\ n \in Nat /\ m \in Nat
    BY <1>2
  <2>2. <<n, m>> \in Nat \X Nat /\ <<n, m>>[1] = n /\ <<n, m>>[2] = m
    BY <2>1
  <2>3. ~(n < m)
    BY <2>1, <2>2, Zenon
  <2>. QED
    BY <2>1, <2>3
<1>. QED
  BY <1>3

LEMMA Induction ==
  ASSUME NEW T, 0 \in T, \A n \in Nat : n \in T => n + 1 \in T
  PROVE  \A n \in Nat : n \in T
<1> SUFFICES ASSUME NEW n \in Nat, n \notin T PROVE FALSE
  OBVIOUS
<1>1. PICK m \in Nat \ T : \A k \in Nat \ T : m <= k
  BY LeastOf
<1>2. m # 0
  BY <1>1
<1>3. m - 1 \in Nat /\ m - 1 \in T
  BY <1>1, <1>2
<1>. QED
  BY <1>1, <1>3

\* n steps from base are a function
Iterates(V, base, n, step) ==
  \E F \in [0 .. n -> V] : F[0] = base /\ \A i \in 1 .. n : F[i] = step[<<i, F[i - 1]>>]

LEMMA Recursion ==
  ASSUME NEW V, NEW base \in V, NEW n \in Nat, NEW step \in [(1 .. n) \X V -> V]
  PROVE  Iterates(V, base, n, step)
<1> DEFINE Runs(F, k) == F[0] = base /\ \A i \in 1 .. k : F[i] = step[<<i, F[i - 1]>>]
           Good == {k \in Nat : k <= n => \E F \in [0 .. k -> V] : Runs(F, k)}
<1>1. 0 \in Good
  <2>1. [i \in 0 .. 0 |-> base] \in [0 .. 0 -> V] /\ Runs([i \in 0 .. 0 |-> base], 0)
    OBVIOUS
  <2>. QED
    BY <2>1
<1>2. ASSUME NEW k \in Nat, k \in Good PROVE k + 1 \in Good
  <2> SUFFICES ASSUME k + 1 <= n
               PROVE  \E F \in [0 .. k + 1 -> V] : Runs(F, k + 1)
    OBVIOUS
  <2>1. PICK F \in [0 .. k -> V] : Runs(F, k)
    BY <1>2
  <2>2. k + 1 \in 1 .. n /\ F[k] \in V
    OBVIOUS
  <2>3. step[<<k + 1, F[k]>>] \in V
    BY <2>2
  <2> DEFINE G == [i \in 0 .. k + 1 |-> IF i = k + 1 THEN step[<<k + 1, F[k]>>] ELSE F[i]]
  <2>4. G \in [0 .. k + 1 -> V]
    BY <2>3
  <2>5. G[k + 1] = step[<<k + 1, F[k]>>] /\ \A i \in 0 .. k : G[i] = F[i]
    OBVIOUS
  <2>6. Runs(G, k + 1)
    <3> HIDE DEF G
    <3>1. G[0] = base
      BY <2>1, <2>5
    <3>2. ASSUME NEW i \in 1 .. k + 1 PROVE G[i] = step[<<i, G[i - 1]>>]
      <4>1. CASE i = k + 1
        <5>1. i - 1 = k
          BY <4>1
        <5>. QED
          BY <4>1, <5>1, <2>5
      <4>2. CASE i \in 1 .. k
        <5>1. i - 1 \in 0 .. k
          BY <4>2
        <5>. QED
          BY <4>2, <5>1, <2>1, <2>5
      <4>. QED
        BY <4>1, <4>2
    <3>. QED
      BY <3>1, <3>2
  <2>. QED
    BY <2>4, <2>6
<1>3. n \in Good
  <2> HIDE DEF Good
  <2>. QED
    BY <1>1, <1>2, Induction
<1>. QED
  BY <1>3 DEF Iterates

-----------------------------------------------------------------------------
(* Sequences.                                                              *)

LEMMA SeqOfAppend ==
  ASSUME NEW s, IsSeq(s), NEW x
  PROVE  /\ IsSeq(Append(s, x)) /\ Len(Append(s, x)) = Len(s) + 1
         /\ Append(s, x)[Len(s) + 1] = x /\ DOMAIN s = 1 .. Len(s)
         /\ \A i \in DOMAIN s : i \in DOMAIN Append(s, x) /\ Append(s, x)[i] = s[i]
         /\ \A i \in DOMAIN Append(s, x) : i \in DOMAIN s \/ i = Len(s) + 1
<1> DEFINE X == {s[i] : i \in DOMAIN s}
           T == X \cup {x}
<1>1. s \in Seq(X)
  BY DEF IsSeq
<1> HIDE DEF X
<1>2. /\ DOMAIN s = 1 .. Len(s) /\ Len(s) \in Nat
      /\ s \in [1 .. Len(s) -> X]
  BY <1>1
<1>3. \A i \in 1 .. Len(s) : s[i] \in T
  BY <1>2
<1> HIDE DEF T
<1>4. s \in Seq(T)
  <2>1. s \in [1 .. Len(s) -> T]
    BY <1>2, <1>3, Zenon
  <2>. QED
    BY <1>2, <2>1
<1>5. x \in T
  BY DEF T
<1>6. /\ Append(s, x) \in Seq(T) /\ Len(Append(s, x)) = Len(s) + 1
      /\ Append(s, x)[Len(s) + 1] = x
      /\ \A i \in 1 .. Len(s) : Append(s, x)[i] = s[i]
  BY <1>4, <1>5
<1> DEFINE r == Append(s, x)
<1>7. DOMAIN r = 1 .. Len(r) /\ Len(r) \in Nat /\ r = [i \in 1 .. Len(r) |-> r[i]]
  <2>1. r \in Seq(T)
    BY <1>6
  <2> HIDE DEF r
  <2>2. DOMAIN r = 1 .. Len(r) /\ Len(r) \in Nat /\ r \in [1 .. Len(r) -> T]
    BY <2>1
  <2>. QED
    BY <2>2, Zenon
<1>8. r \in Seq({r[i] : i \in DOMAIN r})
  <2> HIDE DEF r
  <2>. QED
    BY <1>7
<1>. QED
  BY <1>2, <1>6, <1>7, <1>8 DEF IsSeq

LEMMA SeqOfChange ==
  ASSUME NEW s, IsSeq(s), NEW r, DOMAIN r = DOMAIN s, r = [i \in DOMAIN r |-> r[i]]
  PROVE  IsSeq(r) /\ Len(r) = Len(s)
<1>1. s \in Seq({s[i] : i \in DOMAIN s})
  BY DEF IsSeq
<1>2. DOMAIN s = 1 .. Len(s) /\ Len(s) \in Nat
  BY <1>1
<1>3. \A i \in 1 .. Len(s) : r[i] \in {r[j] : j \in DOMAIN r}
  BY <1>2
<1>4. r \in Seq({r[j] : j \in DOMAIN r})
  BY <1>2, <1>3
<1>. QED
  BY <1>2, <1>4 DEF IsSeq

\* a sequence that is there, and its parts
LEMMA SeqIs ==
  ASSUME NEW s, IsSeq(s)
  PROVE  /\ Len(s) \in Nat /\ DOMAIN s = 1 .. Len(s)
         /\ \E T : s \in Seq(T) /\ \A x \in T : \E i \in DOMAIN s : x = s[i]
BY DEF IsSeq

LEMMA SeqIn ==
  ASSUME NEW T, NEW s \in Seq(T)
  PROVE  IsSeq(s)
<1>1. DOMAIN s = 1 .. Len(s) /\ Len(s) \in Nat /\ s = [i \in 1 .. Len(s) |-> s[i]]
  <2>1. DOMAIN s = 1 .. Len(s) /\ Len(s) \in Nat /\ s \in [1 .. Len(s) -> T]
    OBVIOUS
  <2>. QED
    BY <2>1, Zenon
<1>. QED
  BY <1>1 DEF IsSeq

LEMMA SeqOfConcat ==
  ASSUME NEW a, IsSeq(a), NEW b, IsSeq(b)
  PROVE  /\ IsSeq(a \o b) /\ Len(a \o b) = Len(a) + Len(b)
         /\ \A i \in 1 .. Len(a) : (a \o b)[i] = a[i]
         /\ \A i \in 1 .. Len(b) : (a \o b)[Len(a) + i] = b[i]
<1>1. PICK S : a \in Seq(S)
  BY SeqIs
<1>2. PICK T : b \in Seq(T)
  BY SeqIs
<1> DEFINE U == S \cup T
<1>3. a \in Seq(U) /\ b \in Seq(U)
  <2>1. S \subseteq U /\ T \subseteq U
    OBVIOUS
  <2> HIDE DEF U
  <2>. QED
    BY <1>1, <1>2, <2>1
<1> HIDE DEF U
<1>4. a \o b \in Seq(U)
  BY <1>3
<1>5. IsSeq(a \o b)
  BY <1>4, SeqIn
<1>. QED
  BY <1>3, <1>5

LEMMA SeqOfPart ==
  ASSUME NEW s, IsSeq(s), NEW m \in 0 .. Len(s)
  PROVE  /\ IsSeq(SubSeq(s, 1, m)) /\ IsSeq(SubSeq(s, m + 1, Len(s)))
         /\ Len(SubSeq(s, 1, m)) = m /\ Len(SubSeq(s, m + 1, Len(s))) = Len(s) - m
         /\ SubSeq(s, 1, m) \o SubSeq(s, m + 1, Len(s)) = s
         /\ \A i \in 1 .. m : SubSeq(s, 1, m)[i] = s[i]
         /\ \A i \in 1 .. Len(s) - m : SubSeq(s, m + 1, Len(s))[i] = s[m + i]
<1>1. PICK T : s \in Seq(T)
  BY SeqIs
<1> DEFINE a == SubSeq(s, 1, m)
           b == SubSeq(s, m + 1, Len(s))
<1>2. a \in Seq(T) /\ Len(a) = m /\ \A i \in 1 .. m : a[i] = s[i]
  BY <1>1
<1>3. b \in Seq(T) /\ Len(b) = Len(s) - m /\ \A i \in 1 .. Len(s) - m : b[i] = s[m + i]
  BY <1>1
<1>4. IsSeq(a) /\ IsSeq(b)
  BY <1>2, <1>3, SeqIn
<1> HIDE DEF a, b
<1>5. a \o b = s
  <2>0. Len(s) \in Nat /\ m \in Nat /\ m <= Len(s)
    BY <1>1
  <2>1. /\ IsSeq(a \o b) /\ Len(a \o b) = m + (Len(s) - m)
        /\ \A i \in 1 .. m : (a \o b)[i] = a[i]
        /\ \A i \in 1 .. Len(s) - m : (a \o b)[m + i] = b[i]
    BY <1>2, <1>3, <1>4, SeqOfConcat
  <2>2. ASSUME NEW i \in 1 .. Len(s) PROVE (a \o b)[i] = s[i]
    <3>0. i \in 1 .. m \/ (i - m \in 1 .. Len(s) - m /\ m + (i - m) = i)
      BY <2>0
    <3>1. CASE i \in 1 .. m
      BY <1>2, <2>1, <3>1
    <3>2. CASE i - m \in 1 .. Len(s) - m /\ m + (i - m) = i
      <4> DEFINE j == i - m
      <4>1. j \in 1 .. Len(s) - m /\ m + j = i
        BY <3>2
      <4> HIDE DEF j
      <4>2. b[j] = s[m + j] /\ (a \o b)[m + j] = b[j]
        BY <1>3, <2>1, <4>1, Zenon
      <4>. QED
        BY <4>1, <4>2, Zenon
    <3>. QED
      BY <3>0, <3>1, <3>2
  <2> DEFINE r == a \o b
  <2>3. Len(r) = Len(s)
    BY <2>0, <2>1
  <2> HIDE DEF r
  <2>4. PICK R : r \in Seq(R)
    BY <2>1, SeqIs DEF r
  <2> DEFINE U == T \cup R
  <2>5. r \in Seq(U) /\ s \in Seq(U)
    <3>1. R \subseteq U /\ T \subseteq U
      OBVIOUS
    <3> HIDE DEF U
    <3>. QED
      BY <1>1, <2>4, <3>1
  <2> HIDE DEF U
  <2>. QED
    BY <2>2, <2>3, <2>5, SeqEqual DEF r
<1>. QED
  BY <1>2, <1>3, <1>4, <1>5 DEF a, b

-----------------------------------------------------------------------------
(* What frames tell of the presence on a topic.                            *)

LEMMA HeardIs ==
  ASSUME NEW seen \in Views, NEW q, Frames(q), NEW i \in 1 .. Len(q), NEW t
  PROVE  Heard(seen, q[i], t) \in Views
<1>1. i \in DOMAIN q
  BY SeqIs DEF Frames
<1>2. q[i].kind \in {"state", "diff"} => q[i].joins \in SUBSET Entries
  BY <1>1 DEF Frames
<1>. QED
  BY <1>2 DEF Heard, Tells, Views

\* F[i] is what the first i frames tell
Hears(F, seen, q, t) ==
  F[0] = seen /\ \A i \in 1 .. Len(q) : F[i] = Heard(F[i - 1], q[i], t)

LEMMA ToldRun ==
  ASSUME NEW seen \in Views, NEW q, Frames(q), NEW t
  PROVE  \E F : Hears(F, seen, q, t) /\ Told(seen, q, t) = F[Len(q)]
<1> DEFINE Eq(F) == F = [i \in 0 .. Len(q) |-> IF i = 0 THEN seen ELSE Heard(F[i - 1], q[i], t)]
           step == [p \in (1 .. Len(q)) \X Views |-> Heard(p[2], q[p[1]], t)]
<1>0. Len(q) \in Nat
  BY SeqIs DEF Frames
<1>1. step \in [(1 .. Len(q)) \X Views -> Views]
  BY HeardIs
<1>2. PICK F \in [0 .. Len(q) -> Views] :
              F[0] = seen /\ \A i \in 1 .. Len(q) : F[i] = step[<<i, F[i - 1]>>]
  <2> DEFINE n == Len(q)
  <2>1. step \in [(1 .. n) \X Views -> Views] /\ n \in Nat
    BY <1>0, <1>1
  <2> HIDE DEF step, n
  <2>2. Iterates(Views, seen, n, step)
    BY <2>1, Recursion
  <2>. QED
    BY <2>2 DEF n, Iterates
<1>3. \A i \in 1 .. Len(q) : F[i] = Heard(F[i - 1], q[i], t)
  <2> TAKE i \in 1 .. Len(q)
  <2>1. <<i, F[i - 1]>> \in (1 .. Len(q)) \X Views
    BY <1>0
  <2>. QED
    BY <1>2, <2>1
<1>4. Eq(F)
  <2> DEFINE H == [i \in 0 .. Len(q) |-> IF i = 0 THEN seen ELSE Heard(F[i - 1], q[i], t)]
  <2>1. \A i \in 0 .. Len(q) : F[i] = H[i]
    BY <1>0, <1>2, <1>3
  <2>2. F = [i \in 0 .. Len(q) |-> F[i]] /\ H = [i \in 0 .. Len(q) |-> H[i]]
    OBVIOUS
  <2>3. F = H
    <3> HIDE DEF H
    <3>. QED
      BY <2>1, <2>2
  <2>. QED
    BY <2>3
<1>5. PICK G : Eq(G) /\ Told(seen, q, t) = G[Len(q)]
  BY <1>4 DEF Told
<1>6. Hears(G, seen, q, t)
  <2>1. 0 \in 0 .. Len(q) /\ \A i \in 1 .. Len(q) : i \in 0 .. Len(q) /\ i # 0
    BY <1>0
  <2>2. \A i \in 0 .. Len(q) : G[i] = IF i = 0 THEN seen ELSE Heard(G[i - 1], q[i], t)
    BY <1>5, Zenon
  <2>. QED
    BY <2>1, <2>2 DEF Hears
<1>. QED
  BY <1>5, <1>6

\* there is only one
LEMMA ToldIs ==
  ASSUME NEW seen \in Views, NEW q, Frames(q), NEW t, NEW F, Hears(F, seen, q, t)
  PROVE  Told(seen, q, t) = F[Len(q)]
<1>1. PICK G : Hears(G, seen, q, t) /\ Told(seen, q, t) = G[Len(q)]
  BY ToldRun
<1>2. Len(q) \in Nat
  BY SeqIs DEF Frames
<1> DEFINE T == {n \in Nat : n <= Len(q) => F[n] = G[n]}
<1>3. 0 \in T
  BY <1>1 DEF Hears
<1>4. ASSUME NEW n \in Nat, n \in T PROVE n + 1 \in T
  <2> SUFFICES ASSUME n + 1 <= Len(q) PROVE F[n + 1] = G[n + 1]
    OBVIOUS
  <2>1. n + 1 \in 1 .. Len(q) /\ n <= Len(q) /\ (n + 1) - 1 = n
    BY <1>2
  <2>2. F[n] = G[n]
    BY <1>4, <2>1
  <2>. QED
    BY <1>1, <2>1, <2>2 DEF Hears
<1>5. Len(q) \in T
  <2> HIDE DEF T
  <2>. QED
    BY <1>2, <1>3, <1>4, Induction
<1>. QED
  BY <1>1, <1>2, <1>5

LEMMA ToldType ==
  ASSUME NEW seen \in Views, NEW q, Frames(q), NEW t
  PROVE  Told(seen, q, t) \in Views
<1>1. PICK F : Hears(F, seen, q, t) /\ Told(seen, q, t) = F[Len(q)]
  BY ToldRun
<1>2. Len(q) \in Nat
  BY SeqIs DEF Frames
<1> DEFINE T == {n \in Nat : n <= Len(q) => F[n] \in Views}
<1>3. 0 \in T
  BY <1>1 DEF Hears
<1>4. ASSUME NEW n \in Nat, n \in T PROVE n + 1 \in T
  <2> SUFFICES ASSUME n + 1 <= Len(q) PROVE F[n + 1] \in Views
    OBVIOUS
  <2>1. n + 1 \in 1 .. Len(q) /\ n <= Len(q) /\ (n + 1) - 1 = n
    BY <1>2
  <2>2. F[n] \in Views
    BY <1>4, <2>1
  <2>3. F[n + 1] = Heard(F[n], q[n + 1], t)
    BY <1>1, <2>1 DEF Hears
  <2>. QED
    BY <2>1, <2>2, <2>3, HeardIs
<1>5. Len(q) \in T
  <2> HIDE DEF T
  <2>. QED
    BY <1>2, <1>3, <1>4, Induction
<1>. QED
  BY <1>1, <1>2, <1>5

LEMMA FramesConcat ==
  ASSUME NEW a, Frames(a), NEW b, Frames(b)
  PROVE  Frames(a \o b)
<1> DEFINE s == a \o b
<1>1. /\ IsSeq(s) /\ Len(s) = Len(a) + Len(b)
      /\ \A i \in 1 .. Len(a) : s[i] = a[i]
      /\ \A i \in 1 .. Len(b) : s[Len(a) + i] = b[i]
  BY SeqOfConcat DEF Frames
<1> HIDE DEF s
<1>2. /\ DOMAIN s = 1 .. Len(s) /\ DOMAIN a = 1 .. Len(a) /\ DOMAIN b = 1 .. Len(b)
      /\ Len(a) \in Nat /\ Len(b) \in Nat
  BY <1>1, SeqIs DEF Frames
<1>3. ASSUME NEW i \in DOMAIN s
      PROVE  (\E j \in DOMAIN a : s[i] = a[j]) \/ (\E j \in DOMAIN b : s[i] = b[j])
  <2>1. CASE i <= Len(a)
    BY <1>1, <1>2, <2>1
  <2>2. CASE i > Len(a)
    <3>1. i - Len(a) \in 1 .. Len(b) /\ Len(a) + (i - Len(a)) = i
      BY <1>1, <1>2, <2>2
    <3>. QED
      BY <1>1, <1>2, <3>1
  <2>. QED
    BY <1>2, <2>1, <2>2
<1>4. Frames(s)
  BY <1>1, <1>3 DEF Frames
<1>. QED
  BY <1>4 DEF s

LEMMA ToldConcat ==
  ASSUME NEW seen \in Views, NEW a, Frames(a), NEW b, Frames(b), NEW t
  PROVE  Told(seen, a \o b, t) = Told(Told(seen, a, t), b, t)
<1> DEFINE s == a \o b
<1>1. /\ Frames(s) /\ Len(s) = Len(a) + Len(b)
      /\ \A i \in 1 .. Len(a) : s[i] = a[i]
      /\ \A i \in 1 .. Len(b) : s[Len(a) + i] = b[i]
  BY FramesConcat, SeqOfConcat DEF Frames
<1>2. Len(a) \in Nat /\ Len(b) \in Nat
  BY SeqIs DEF Frames
<1> HIDE DEF s
<1>3. PICK F : Hears(F, seen, s, t) /\ Told(seen, s, t) = F[Len(s)]
  BY <1>1, ToldRun
<1>4. Hears(F, seen, a, t)
  BY <1>1, <1>2, <1>3 DEF Hears
<1>5. Told(seen, a, t) = F[Len(a)] /\ F[Len(a)] \in Views
  BY <1>4, ToldIs, ToldType
<1> DEFINE G == [i \in 0 .. Len(b) |-> F[Len(a) + i]]
<1>6. Hears(G, F[Len(a)], b, t)
  <2>1. G[0] = F[Len(a)]
    BY <1>2
  <2>2. ASSUME NEW i \in 1 .. Len(b) PROVE G[i] = Heard(G[i - 1], b[i], t)
    <3>1. /\ i \in 0 .. Len(b) /\ i - 1 \in 0 .. Len(b)
          /\ Len(a) + i \in 1 .. Len(s) /\ (Len(a) + i) - 1 = Len(a) + (i - 1)
      BY <1>1, <1>2
    <3>2. G[i] = F[Len(a) + i] /\ G[i - 1] = F[Len(a) + (i - 1)]
      BY <3>1
    <3>3. F[Len(a) + i] = Heard(F[(Len(a) + i) - 1], s[Len(a) + i], t)
      BY <1>3, <3>1 DEF Hears
    <3>. QED
      BY <1>1, <3>1, <3>2, <3>3
  <2>. QED
    BY <2>1, <2>2 DEF Hears
<1>7. G[Len(b)] = F[Len(s)]
  BY <1>1, <1>2
<1> HIDE DEF G
<1>8. Told(F[Len(a)], b, t) = F[Len(s)]
  BY <1>5, <1>6, <1>7, ToldIs
<1>. QED
  BY <1>3, <1>5, <1>8 DEF s

LEMMA ToldNone ==
  ASSUME NEW seen \in Views, NEW t
  PROVE  Frames(<<>>) /\ Told(seen, <<>>, t) = seen
<1>1. Frames(<<>>)
  BY DEF Frames, IsSeq
<1>2. Hears([i \in {0} |-> seen], seen, <<>>, t)
  BY DEF Hears
<1>. QED
  BY <1>1, <1>2, ToldIs

LEMMA ToldOne ==
  ASSUME NEW seen \in Views, NEW f, f.kind \in {"state", "diff"} => f.joins \in SUBSET Entries,
         NEW t
  PROVE  Frames(<<f>>) /\ Told(seen, <<f>>, t) = Heard(seen, f, t)
<1> DEFINE q == <<f>>
           F == [i \in 0 .. 1 |-> IF i = 0 THEN seen ELSE Heard(seen, f, t)]
<1>1. IsSeq(q)
  <2>1. q \in Seq({f})
    OBVIOUS
  <2> HIDE DEF q
  <2>. QED
    BY <2>1, SeqIn
<1>2. Len(q) = 1 /\ DOMAIN q = {1} /\ q[1] = f
  OBVIOUS
<1> HIDE DEF q
<1>3. Frames(q)
  BY <1>1, <1>2 DEF Frames
<1>4. F[0] = seen /\ F[1] = Heard(seen, f, t)
  OBVIOUS
<1> HIDE DEF F
<1>5. Hears(F, seen, q, t)
  <2>1. ASSUME NEW i \in 1 .. Len(q) PROVE F[i] = Heard(F[i - 1], q[i], t)
    <3>1. i = 1 /\ i - 1 = 0
      BY <1>2
    <3>. QED
      BY <1>2, <1>4, <3>1, Zenon
  <2>. QED
    BY <1>4, <2>1 DEF Hears
<1>6. Told(seen, q, t) = F[Len(q)]
  BY <1>3, <1>5, ToldIs
<1>. QED
  BY <1>2, <1>3, <1>4, <1>6 DEF q

\* frames that say nothing of t
LEMMA ToldQuiet ==
  ASSUME NEW seen \in Views, NEW q, Frames(q), NEW t, ~Of(q, {"state", "diff"}, t)
  PROVE  Told(seen, q, t) = seen
<1> DEFINE F == [i \in 0 .. Len(q) |-> seen]
<1>1. Len(q) \in Nat /\ DOMAIN q = 1 .. Len(q)
  BY SeqIs DEF Frames
<1>2. ASSUME NEW i \in 1 .. Len(q) PROVE Heard(seen, q[i], t) = seen
  BY <1>1 DEF Of, Tells, Heard
<1>3. F[0] = seen /\ \A i \in 1 .. Len(q) : F[i] = seen /\ F[i - 1] = seen
  BY <1>1
<1>4. F[Len(q)] = seen
  BY <1>1
<1> HIDE DEF F
<1>5. Hears(F, seen, q, t)
  BY <1>2, <1>3 DEF Hears
<1>. QED
  BY <1>4, <1>5, ToldIs

\* a state makes what was seen before it forgotten
LEMMA ToldState ==
  ASSUME NEW x \in Views, NEW y \in Views, NEW q, Frames(q), NEW t, Of(q, {"state"}, t)
  PROVE  Told(x, q, t) = Told(y, q, t)
<1>1. PICK F : Hears(F, x, q, t) /\ Told(x, q, t) = F[Len(q)]
  BY ToldRun
<1>2. PICK G : Hears(G, y, q, t) /\ Told(y, q, t) = G[Len(q)]
  BY ToldRun
<1>3. Len(q) \in Nat /\ DOMAIN q = 1 .. Len(q)
  BY SeqIs DEF Frames
<1>4. PICK m \in 1 .. Len(q) : Tells(q[m], {"state"}, t)
  BY <1>3 DEF Of
<1>5. F[m] = G[m]
  BY <1>1, <1>2, <1>4 DEF Hears, Heard
<1> DEFINE T == {n \in Nat : m + n <= Len(q) => F[m + n] = G[m + n]}
<1>6. 0 \in T
  <2>1. m + 0 = m
    OBVIOUS
  <2>. QED
    BY <1>5, <2>1
<1>7. ASSUME NEW n \in Nat, n \in T PROVE n + 1 \in T
  <2> SUFFICES ASSUME m + (n + 1) <= Len(q) PROVE F[m + (n + 1)] = G[m + (n + 1)]
    OBVIOUS
  <2>1. m + (n + 1) \in 1 .. Len(q) /\ m + n <= Len(q) /\ (m + (n + 1)) - 1 = m + n
    BY <1>3
  <2>2. F[m + n] = G[m + n]
    BY <1>7, <2>1
  <2>. QED
    BY <1>1, <1>2, <2>1, <2>2 DEF Hears
<1>8. Len(q) - m \in Nat /\ m + (Len(q) - m) = Len(q)
  BY <1>3
<1>9. Len(q) - m \in T
  <2> HIDE DEF T
  <2>. QED
    BY <1>6, <1>7, <1>8, Induction
<1>10. F[Len(q)] = G[Len(q)]
  <2>1. m + (Len(q) - m) <= Len(q) => F[m + (Len(q) - m)] = G[m + (Len(q) - m)]
    BY <1>9
  <2>. QED
    BY <1>3, <1>8, <2>1
<1>. QED
  BY <1>1, <1>2, <1>10

\* frames that say of t, once or again, that the same entries are gone
LEMMA ToldLeaves ==
  ASSUME NEW seen \in Views, NoOne \notin seen, NEW q, Frames(q), NEW t, NEW M,
         \A i \in DOMAIN q : Tells(q[i], {"state", "diff"}, t) => q[i] = Diff(t, {}, M),
         Of(q, {"state", "diff"}, t)
  PROVE  Told(seen, q, t) = seen \ M
<1>1. PICK F : Hears(F, seen, q, t) /\ Told(seen, q, t) = F[Len(q)]
  BY ToldRun
<1>2. Len(q) \in Nat /\ DOMAIN q = 1 .. Len(q)
  BY SeqIs DEF Frames
<1> DEFINE Said(n) == \E i \in 1 .. n : Tells(q[i], {"state", "diff"}, t)
           T == {n \in Nat : n <= Len(q) => F[n] = IF Said(n) THEN seen \ M ELSE seen}
<1>3. 0 \in T
  BY <1>1 DEF Hears
<1>4. ASSUME NEW n \in Nat, n \in T PROVE n + 1 \in T
  <2> SUFFICES ASSUME n + 1 <= Len(q) PROVE F[n + 1] = IF Said(n + 1) THEN seen \ M ELSE seen
    OBVIOUS
  <2>1. n + 1 \in 1 .. Len(q) /\ n <= Len(q) /\ (n + 1) - 1 = n
    BY <1>2
  <2>2. F[n] = IF Said(n) THEN seen \ M ELSE seen
    BY <1>4, <2>1
  <2>3. F[n + 1] = Heard(F[n], q[n + 1], t)
    BY <1>1, <2>1 DEF Hears
  <2>4. F[n] # NoView
    BY <2>2 DEF NoView
  <2>5. CASE Tells(q[n + 1], {"state", "diff"}, t)
    <3>1. q[n + 1] = Diff(t, {}, M)
      BY <1>2, <2>1, <2>5
    <3>2. Heard(F[n], q[n + 1], t) = F[n] \ M
      BY <2>4, <3>1 DEF Heard, Tells, Diff
    <3>3. Said(n + 1)
      BY <2>5
    <3>. QED
      BY <2>2, <2>3, <3>2, <3>3
  <2>6. CASE ~Tells(q[n + 1], {"state", "diff"}, t)
    <3>1. Heard(F[n], q[n + 1], t) = F[n]
      BY <2>6 DEF Heard, Tells
    <3>2. Said(n + 1) <=> Said(n)
      BY <2>6
    <3>. QED
      BY <2>2, <2>3, <3>1, <3>2
  <2>. QED
    BY <2>5, <2>6
<1>5. Len(q) \in T
  <2> HIDE DEF T
  <2>. QED
    BY <1>2, <1>3, <1>4, Induction
<1>6. Said(Len(q))
  BY <1>2 DEF Of
<1>. QED
  BY <1>1, <1>2, <1>5, <1>6

-----------------------------------------------------------------------------
(* A queue and what is put behind it.                                      *)

LEMMA FramesPart ==
  ASSUME NEW s, Frames(s), NEW m \in 0 .. Len(s)
  PROVE  Frames(SubSeq(s, 1, m)) /\ Frames(SubSeq(s, m + 1, Len(s)))
<1> DEFINE a == SubSeq(s, 1, m)
           b == SubSeq(s, m + 1, Len(s))
<1>1. /\ IsSeq(a) /\ IsSeq(b) /\ Len(a) = m /\ Len(b) = Len(s) - m
      /\ \A i \in 1 .. m : a[i] = s[i]
      /\ \A i \in 1 .. Len(s) - m : b[i] = s[m + i]
  BY SeqOfPart DEF Frames
<1>2. /\ Len(s) \in Nat /\ DOMAIN s = 1 .. Len(s) /\ DOMAIN a = 1 .. m
      /\ DOMAIN b = 1 .. Len(s) - m
  BY <1>1, SeqIs DEF Frames
<1> HIDE DEF a, b
<1>3. /\ \A i \in DOMAIN a : i \in DOMAIN s /\ a[i] = s[i]
      /\ \A i \in DOMAIN b : m + i \in DOMAIN s /\ b[i] = s[m + i]
  BY <1>1, <1>2
<1>4. Frames(a) /\ Frames(b)
  BY <1>1, <1>3 DEF Frames
<1>. QED
  BY <1>4 DEF a, b

\* what tells of t in a concatenation is in one of its parts
LEMMA OfConcat ==
  ASSUME NEW a, IsSeq(a), NEW b, IsSeq(b), NEW kinds, NEW t
  PROVE  Of(a \o b, kinds, t) <=> Of(a, kinds, t) \/ Of(b, kinds, t)
<1> DEFINE s == a \o b
<1>1. /\ IsSeq(s) /\ Len(s) = Len(a) + Len(b)
      /\ \A i \in 1 .. Len(a) : s[i] = a[i]
      /\ \A i \in 1 .. Len(b) : s[Len(a) + i] = b[i]
  BY SeqOfConcat
<1> HIDE DEF s
<1>2. /\ DOMAIN s = 1 .. Len(s) /\ DOMAIN a = 1 .. Len(a) /\ DOMAIN b = 1 .. Len(b)
      /\ Len(a) \in Nat /\ Len(b) \in Nat
  BY <1>1, SeqIs
<1>3. ASSUME NEW i \in DOMAIN s
      PROVE  (\E j \in DOMAIN a : s[i] = a[j]) \/ (\E j \in DOMAIN b : s[i] = b[j])
  <2>1. CASE i <= Len(a)
    BY <1>1, <1>2, <2>1
  <2>2. CASE i > Len(a)
    <3>1. i - Len(a) \in 1 .. Len(b) /\ Len(a) + (i - Len(a)) = i
      BY <1>1, <1>2, <2>2
    <3>. QED
      BY <1>1, <1>2, <3>1
  <2>. QED
    BY <1>2, <2>1, <2>2
<1>4. /\ \A j \in DOMAIN a : j \in DOMAIN s /\ s[j] = a[j]
      /\ \A j \in DOMAIN b : Len(a) + j \in DOMAIN s /\ s[Len(a) + j] = b[j]
  BY <1>1, <1>2
<1>5. Of(s, kinds, t) <=> Of(a, kinds, t) \/ Of(b, kinds, t)
  BY <1>3, <1>4 DEF Of
<1>. QED
  BY <1>5 DEF s

\* what a queue tells that keeps its latest frames
Tidings(q, new, kept, seen, t) ==
  Told(seen, kept, t) = Told(Told(seen, q, t), new, t)

Lost(all) == SubSeq(all, 1, Len(all) - QueueSize)

Behind(q, new, all) ==
  /\ Frames(Latest(all))
  /\ \A t : /\ Of(Latest(all), {"state"}, t) => Of(q, {"state"}, t) \/ Of(new, {"state"}, t)
            /\ Of(Latest(all), {"state"}, t) \/ ~Of(Lost(all), {"state", "diff"}, t) =>
                  \A seen \in Views : Tidings(q, new, Latest(all), seen, t)

LEMMA QueueBehind ==
  ASSUME QueueSize \in Nat \ {0}, NEW q, Frames(q), NEW new, Frames(new)
  PROVE  Behind(q, new, q \o new)
<1> DEFINE all == q \o new
           kept == Latest(all)
           lost == Lost(all)
<1>1. Frames(all) /\ IsSeq(all) /\ Len(all) \in Nat /\ IsSeq(q) /\ IsSeq(new)
  BY FramesConcat, SeqIs DEF Frames
<1>2. \A seen \in Views : \A t : Told(seen, all, t) = Told(Told(seen, q, t), new, t)
  BY ToldConcat
<1>3. \A t : Of(all, {"state"}, t) => Of(q, {"state"}, t) \/ Of(new, {"state"}, t)
  BY <1>1, OfConcat
<1> HIDE DEF all
<1>4. CASE Len(all) <= QueueSize
  <2>1. kept = all
    BY <1>4 DEF Latest
  <2>. QED
    BY <1>1, <1>2, <1>3, <2>1 DEF Tidings, Behind, all, kept
<1>5. CASE Len(all) > QueueSize
  <2> DEFINE m == Len(all) - QueueSize
  <2>1. m \in 0 .. Len(all) /\ ~(Len(all) <= QueueSize)
    BY <1>1, <1>5
  <2>2. kept = SubSeq(all, m + 1, Len(all))
    BY <2>1 DEF Latest
  <2>3. lost = SubSeq(all, 1, m)
    BY DEF Lost
  <2> HIDE DEF m, kept, lost
  <2>4. Frames(lost) /\ Frames(kept) /\ lost \o kept = all
    <3>1. Frames(SubSeq(all, 1, m)) /\ Frames(SubSeq(all, m + 1, Len(all)))
      BY <1>1, <2>1, FramesPart, Zenon
    <3>2. SubSeq(all, 1, m) \o SubSeq(all, m + 1, Len(all)) = all
      BY <1>1, <2>1, SeqOfPart, Zenon
    <3>. QED
      BY <2>2, <2>3, <3>1, <3>2, Zenon
  <2>5. \A t : Of(kept, {"state"}, t) => Of(all, {"state"}, t)
    <3>1. IsSeq(lost) /\ IsSeq(kept)
      BY <2>4 DEF Frames
    <3>2. \A t : Of(kept, {"state"}, t) => Of(lost \o kept, {"state"}, t)
      BY <3>1, OfConcat, Zenon
    <3>. QED
      BY <2>4, <3>2, Zenon
  <2>6. ASSUME NEW t, NEW seen \in Views,
               Of(kept, {"state"}, t) \/ ~Of(lost, {"state", "diff"}, t)
        PROVE  Told(seen, kept, t) = Told(seen, all, t)
    <3>1. Told(seen, all, t) = Told(Told(seen, lost, t), kept, t) /\ Told(seen, lost, t) \in Views
      <4>1. Frames(lost) /\ Frames(kept)
        BY <2>4
      <4>2. Told(seen, lost \o kept, t) = Told(Told(seen, lost, t), kept, t)
        BY <4>1, ToldConcat
      <4>3. Told(seen, lost, t) \in Views
        BY <4>1, ToldType
      <4>. QED
        BY <2>4, <4>2, <4>3
    <3>2. CASE Of(kept, {"state"}, t)
      BY <2>4, <3>1, <3>2, ToldState
    <3>3. CASE ~Of(lost, {"state", "diff"}, t)
      BY <2>4, <3>1, <3>3, ToldQuiet
    <3>. QED
      BY <2>6, <3>2, <3>3
  <2>7. Frames(kept)
    BY <2>4
  <2>. QED
    BY <1>2, <1>3, <2>5, <2>6, <2>7 DEF kept, lost, all, Tidings, Behind
<1>. QED
  BY <1>1, <1>4, <1>5

\* what c can know when it is sent news
Reaches(c, queued, news) ==
  /\ Frames(outbound'[c])
  /\ \A t \in lossy'[c] : ~Of(outbound'[c], {"state"}, t)
  /\ \A t \in Topics : t \notin lossy'[c] =>
        /\ t \notin lossy[c] \/ Of(news[c], {"state"}, t)
        /\ \A seen \in Views : Tidings(queued[c], news[c], outbound'[c], seen, t)

LEMMA SendReaches ==
  ASSUME RealtimeAssumption, PresenceInv, NEW queued, NEW news, SendBehind(queued, news),
         NEW c \in Conns, queued[c] \in {outbound[c], <<>>}, Frames(news[c])
  PROVE  Reaches(c, queued, news)
<1> DEFINE all == queued[c] \o news[c]
<1>1. /\ outbound'[c] = Latest(all)
      /\ lossy'[c] = {t \in Topics : /\ ~Of(outbound'[c], {"state"}, t)
                                     /\ t \in lossy[c] \/ Of(Lost(all), {"state", "diff"}, t)}
  BY DEF SendBehind, Lost
<1>2. Frames(queued[c]) /\ QueueSize \in Nat \ {0} /\ Frames(news[c])
  <2>1. Frames(<<>>)
    BY DEF Frames, IsSeq
  <2>. QED
    BY <2>1 DEF PresenceInv, RealtimeAssumption
<1>3. \A t \in lossy[c] : ~Of(queued[c], {"state"}, t)
  BY DEF PresenceInv, Of
<1>4. Behind(queued[c], news[c], all)
  BY <1>2, QueueBehind
<1> HIDE DEF all
<1>5. ASSUME NEW t \in Topics, t \notin lossy'[c]
      PROVE  /\ t \notin lossy[c] \/ Of(news[c], {"state"}, t)
             /\ Of(Latest(all), {"state"}, t) \/ ~Of(Lost(all), {"state", "diff"}, t)
  BY <1>1, <1>3, <1>4, <1>5 DEF Behind
<1>. QED
  BY <1>1, <1>4, <1>5 DEF Reaches, Behind

-----------------------------------------------------------------------------
(* Channels.                                                               *)

LEMMA SubsInit == Init => SubsInv
BY DEF Init, SubsInv

\* a channel joined now has a number that none had
LEMMA SubsSubscribe ==
  ASSUME RealtimeAssumption, SubsInv, NEW c \in Conns, NEW t \in Topics, NEW wants,
         Subscribe(c, t, wants), conn' = conn, conn[c] = "open",
         NEW b \in Topics \cup {NoTopic}, busy' = [busy EXCEPT ![c] = b]
  PROVE  SubsInv'
<1> DEFINE r == [topic |-> t, id |-> joins + 1, wants |-> wants]
           S == Others(c, t) \cup {r}
<1>1. joins' = joins + 1 /\ subs' = [subs EXCEPT ![c] = S]
  BY Zenon DEF Subscribe
<1>2. joins \in Nat /\ joins' \in Nat /\ joins' = joins + 1 /\ 1 .. joins \subseteq 1 .. joins'
  BY <1>1 DEF SubsInv
<1>3. r.id = joins' /\ r.topic = t /\ joins' \notin 1 .. joins /\ joins' \in 1 .. joins'
  BY <1>2
<1>4. \A s \in Others(c, t) : s \in subs[c]
  BY DEF Others
<1> HIDE DEF r
<1>5. \A s \in S : s.id \in 1 .. joins' /\ s.topic \in Topics
  BY <1>2, <1>3, <1>4 DEF SubsInv
<1>6. \A q, s \in S : q.id = s.id => q = s
  BY <1>3, <1>4 DEF SubsInv
<1> HIDE DEF S
<1>7. /\ DOMAIN conn' = Conns /\ DOMAIN subs' = Conns /\ DOMAIN busy' = Conns
      /\ subs'[c] = S /\ busy'[c] = b
      /\ \A d \in Conns : d # c => subs'[d] = subs[d] /\ busy'[d] = busy[d]
  BY <1>1 DEF SubsInv
<1>8. b # AtTables /\ conn[c] # "new"
  BY DEF RealtimeAssumption, NoTopic, AtTables
<1>9. ASSUME NEW d \in Conns
      PROVE  /\ conn'[d] = "new" \/ busy'[d] = AtTables => subs'[d] = {}
             /\ busy'[d] # NoTopic => conn'[d] = "open"
             /\ \A s \in subs'[d] : s.id \in 1 .. joins' /\ s.topic \in Topics
             /\ \A q, s \in subs'[d] : q.id = s.id => q = s
  <2>1. CASE d = c
    BY <1>5, <1>6, <1>7, <1>8, <2>1
  <2>2. CASE d # c
    BY <1>2, <1>7, <1>9, <2>2 DEF SubsInv
  <2>. QED
    BY <2>1, <2>2
<1>. QED
  BY <1>2, <1>7, <1>9 DEF SubsInv

\* channels are left
LEMMA SubsLeft ==
  ASSUME SubsInv, NEW c \in Conns, joins' = joins, DOMAIN conn' = Conns, DOMAIN busy' = Conns,
         DOMAIN subs' = Conns, subs'[c] \subseteq subs[c],
         conn'[c] = "new" \/ busy'[c] = AtTables => subs'[c] = {},
         busy'[c] # NoTopic => conn'[c] = "open",
         \A d \in Conns \ {c} : conn'[d] = conn[d] /\ busy'[d] = busy[d] /\ subs'[d] = subs[d]
  PROVE  SubsInv'
<1>1. ASSUME NEW d \in Conns
      PROVE  /\ conn'[d] = "new" \/ busy'[d] = AtTables => subs'[d] = {}
             /\ busy'[d] # NoTopic => conn'[d] = "open"
             /\ \A s \in subs'[d] : s.id \in 1 .. joins' /\ s.topic \in Topics
             /\ \A q, s \in subs'[d] : q.id = s.id => q = s
  <2>1. CASE d = c
    BY <2>1 DEF SubsInv
  <2>2. CASE d # c
    BY <1>1, <2>2 DEF SubsInv
  <2>. QED
    BY <2>1, <2>2
<1>. QED
  BY <1>1 DEF SubsInv

LEMMA SubsKept ==
  ASSUME SubsInv, joins' = joins, conn' = conn, busy' = busy, subs' = subs
  PROVE  SubsInv'
BY DEF SubsInv

LEMMA SubsConns ==
  ASSUME SubsInv, NEW c \in Conns,
         \/ \E i : Register(c, i)
         \/ Unregister(c) \/ Cut(c) \/ Reply(c) \/ \E t : Leave(c, t)
  PROVE  SubsInv'
<1>1. DOMAIN conn = Conns /\ DOMAIN subs = Conns /\ DOMAIN busy = Conns
  BY DEF SubsInv
<1>2. ASSUME NEW i, Register(c, i) PROVE SubsInv'
  <2>1. /\ conn' = [conn EXCEPT ![c] = "open"] /\ subs' = subs /\ joins' = joins
        /\ \E b : busy' = [busy EXCEPT ![c] = b]
        /\ conn[c] = "new"
    BY <1>2, Zenon DEF Register, dataVars
  <2>2. subs[c] = {}
    BY <2>1 DEF SubsInv
  <2>. QED
    BY <1>1, <2>1, <2>2, SubsLeft
<1>3. ASSUME Unregister(c) PROVE SubsInv'
  <2>1. /\ conn' = [conn EXCEPT ![c] = "gone"] /\ subs' = [subs EXCEPT ![c] = {}]
        /\ busy' = [busy EXCEPT ![c] = NoTopic] /\ joins' = joins
    BY <1>3, Zenon DEF Unregister
  <2>. QED
    BY <1>1, <2>1, SubsLeft
<1>4. ASSUME Cut(c) PROVE SubsInv'
  <2>1. /\ conn' = [conn EXCEPT ![c] = "leaked"] /\ subs' = subs
        /\ busy' = [busy EXCEPT ![c] = NoTopic] /\ joins' = joins /\ busy[c] = AtTables
    BY <1>4, Zenon DEF Cut, dataVars
  <2>2. subs[c] = {}
    BY <2>1 DEF SubsInv
  <2>. QED
    BY <1>1, <2>1, <2>2, SubsLeft
<1>5. ASSUME Reply(c) PROVE SubsInv'
  <2>1. /\ conn' = conn /\ subs' = subs
        /\ busy' = [busy EXCEPT ![c] = NoTopic] /\ joins' = joins
    BY <1>5, Zenon DEF Reply
  <2>2. conn[c] = "new" => subs[c] = {}
    BY DEF SubsInv
  <2>3. NoTopic # AtTables
    BY DEF NoTopic, AtTables
  <2>. QED
    BY <1>1, <2>1, <2>2, <2>3, SubsLeft
<1>6. ASSUME NEW t, Leave(c, t) PROVE SubsInv'
  <2>1. /\ conn' = conn /\ busy' = busy /\ joins' = joins
        /\ subs' = [subs EXCEPT ![c] = Others(c, t)] /\ Free(c)
    BY <1>6, Zenon DEF Leave
  <2>2. Others(c, t) \subseteq subs[c]
    BY DEF Others
  <2>3. conn[c] = "open" /\ busy[c] = NoTopic /\ NoTopic # AtTables
    BY <2>1 DEF Free, NoTopic, AtTables
  <2>. QED
    BY <1>1, <2>1, <2>2, <2>3, SubsLeft
<1>. QED
  BY <1>2, <1>3, <1>4, <1>5, <1>6

LEMMA SubsJoined ==
  ASSUME RealtimeAssumption, SubsInv, NEW c \in Conns, NEW t \in Topics,
         TapSubscribe(c, t) \/ \E wants, i : Join(c, t, wants, i)
  PROVE  SubsInv'
<1>1. ASSUME TapSubscribe(c, t) PROVE SubsInv'
  <2>1. /\ conn' = conn /\ busy[c] = AtTables /\ Subscribe(c, t, Kinds)
        /\ busy' = [busy EXCEPT ![c] = NoTopic]
    BY <1>1, Zenon DEF TapSubscribe
  <2>2. conn[c] = "open"
    BY <2>1 DEF SubsInv, NoTopic, AtTables
  <2>. QED
    BY <2>1, <2>2, SubsSubscribe
<1>2. ASSUME NEW wants, NEW i, Join(c, t, wants, i) PROVE SubsInv'
  <2>1. conn' = conn /\ conn[c] = "open"
    BY <1>2, Zenon DEF Join, Free
  <2>2. \/ Subscribe(c, t, wants) /\ busy' = [busy EXCEPT ![c] = t]
        \/ joins' = joins /\ subs' = subs /\ busy' = busy
    BY <1>2, Zenon DEF Join
  <2>. QED
    BY <2>1, <2>2, SubsSubscribe, SubsKept
<1>. QED
  BY <1>1, <1>2

\* nobody joins or leaves
Stays == conn' = conn /\ busy' = busy /\ subs' = subs /\ joins' = joins

LEMMA OthersStay ==
  ASSUME [Next]_rtVars
  PROVE  \/ Stays
         \/ \E c \in Conns :
               \/ \E i : Register(c, i)
               \/ Unregister(c) \/ Cut(c) \/ Reply(c)
               \/ \E t \in Topics : Leave(c, t) \/ TapSubscribe(c, t)
               \/ \E t \in Topics : \E wants, i : Join(c, t, wants, i)
<1>1. CASE UNCHANGED rtVars
  BY <1>1 DEF rtVars, sessionVars, Stays
<1>2. ASSUME \/ \E kind \in Kinds, u \in Users : Notify(kind, u)
             \/ \E n \in DOMAIN tasks :
                   \/ Lookup(n)
                   \/ \E e \in tasks[n].rest : Authorize(n, e)
                   \/ \E yes \in BOOLEAN : Probed(n, yes)
      PROVE  Stays
  BY <1>2, Zenon DEF Notify, Lookup, Authorize, Probed, sessionVars, Stays
<1>3. ASSUME NEW c, Expire(c) \/ Drain(c) \/ \E i : AccessToken(c, i)
      PROVE  Stays
  BY <1>3, Zenon DEF Expire, Drain, AccessToken, sessionVars, Stays
<1>4. ASSUME NEW t, \/ \E c : Track(c, t) \/ Untrack(c, t)
                    \/ \E others : Broadcast(t, others)
      PROVE  Stays
  BY <1>4, Zenon DEF Track, Untrack, Broadcast, sessionVars, Stays
<1>5. Sockets \subseteq Conns /\ Taps \subseteq Conns
  BY DEF Conns
<1>. QED
  BY <1>1, <1>2, <1>3, <1>4, <1>5, Zenon DEF Next

LEMMA SubsNext ==
  ASSUME RealtimeAssumption, SubsInv, [Next]_rtVars
  PROVE  SubsInv'
<1>1. CASE Stays
  BY <1>1, SubsKept DEF Stays
<1>. QED
  BY <1>1, OthersStay, SubsConns, SubsJoined, Zenon

-----------------------------------------------------------------------------
(* Presence.                                                               *)

LEMMA PresenceInit == Init => PresenceInv
<1> SUFFICES ASSUME Init PROVE PresenceInv
  OBVIOUS
<1>1. /\ tracks = 0 /\ presence = [t \in Topics |-> {}]
      /\ view = [c \in Sockets |-> [t \in Topics |-> NoView]]
      /\ outbound = [c \in Conns |-> <<>>] /\ lossy = [c \in Conns |-> {}]
      /\ subs = [c \in Conns |-> {}] /\ Sockets \subseteq Conns
  BY DEF Init, Conns
<1>2. view \in [Sockets -> [Topics -> Views]]
  <2>1. NoView \in Views
    BY DEF NoView, Views
  <2> HIDE DEF NoView, Views
  <2>. QED
    BY <1>1, <2>1
<1>3. Frames(<<>>)
  BY DEF Frames, IsSeq
<1>4. PresenceIsTold /\ NobodyIsLeft
  BY <1>1 DEF PresenceIsTold, NobodyIsLeft, Joined
<1>. QED
  BY <1>1, <1>2, <1>3, <1>4 DEF PresenceInv

\* who has joined t, and has been told
Attends(c, t) == conn[c] = "open" /\ Joined(c, t) /\ busy[c] # t

\* what c is sent of t brings it up to what there is now
BroughtUp(c, t, queued, news) ==
  /\ queued[c] = outbound[c] /\ view'[c][t] = view[c][t]
  /\ \/ /\ Attends(c, t) /\ ~Of(news[c], {"state"}, t)
        /\ Told(presence[t], news[c], t) = presence'[t]
     \/ \A x \in Views : Told(x, news[c], t) = presence'[t]

LEMMA PresenceSent ==
  ASSUME RealtimeAssumption, PresenceInv, NEW queued, NEW news, SendBehind(queued, news),
         \A c \in Conns : queued[c] \in {outbound[c], <<>>} /\ Frames(news[c]),
         tracks' \in Nat, presence' \in [Topics -> SUBSET Entries],
         view' \in [Sockets -> [Topics -> Views]], NobodyIsLeft',
         \A c \in Sockets, t \in Topics : Attends(c, t)' => BroughtUp(c, t, queued, news)
  PROVE  PresenceInv'
<1>1. \A c \in Conns : Reaches(c, queued, news)
  BY SendReaches
<1>2. DOMAIN outbound' = Conns /\ DOMAIN lossy' = Conns
  BY DEF SendBehind
<1>3. ASSUME NEW c \in Sockets, NEW t \in Topics, Attends(c, t)', t \notin lossy'[c]
      PROVE  Told(view'[c][t], outbound'[c], t) = presence'[t]
  <2>1. BroughtUp(c, t, queued, news) /\ c \in Conns
    BY <1>3 DEF Conns
  <2>2. view[c][t] \in Views /\ Frames(outbound[c])
    BY <2>1 DEF PresenceInv
  <2> DEFINE told == Told(view[c][t], outbound[c], t)
  <2>3. told \in Views
    BY <2>2, ToldType
  <2>4. /\ t \notin lossy[c] \/ Of(news[c], {"state"}, t)
        /\ Told(view'[c][t], outbound'[c], t) = Told(told, news[c], t)
    BY <1>1, <1>3, <2>1, <2>2 DEF Reaches, Tidings, BroughtUp
  <2>5. CASE \A x \in Views : Told(x, news[c], t) = presence'[t]
    BY <2>3, <2>4, <2>5
  <2>6. CASE /\ Attends(c, t) /\ ~Of(news[c], {"state"}, t)
             /\ Told(presence[t], news[c], t) = presence'[t]
    <3>1. told = presence[t]
      BY <2>4, <2>6 DEF PresenceInv, PresenceIsTold, Attends
    <3>. QED
      BY <2>4, <2>6, <3>1
  <2>. QED
    BY <2>1, <2>5, <2>6 DEF BroughtUp
<1>4. PresenceIsTold'
  BY <1>3 DEF PresenceIsTold, Attends
<1>. QED
  BY <1>1, <1>2, <1>4 DEF PresenceInv, Reaches

\* nothing is sent
LEMMA PresenceKept ==
  ASSUME PresenceInv, UNCHANGED <<presence, outbound, lossy, view, tracks>>, NobodyIsLeft',
         \A c \in Sockets, t \in Topics : Attends(c, t)' => Attends(c, t)
  PROVE  PresenceInv'
<1>1. PresenceIsTold'
  BY DEF PresenceInv, PresenceIsTold, Attends
<1>. QED
  BY <1>1 DEF PresenceInv

\* nobody is told of a topic that is not in T, and who is on one of T, but c,
\* is told that c's entries are gone
Parting(c, T, news) ==
  \A d \in Conns :
     /\ Frames(news[d])
     /\ \A t \in Topics :
           /\ \A i \in DOMAIN news[d] :
                 Tells(news[d][i], {"state", "diff"}, t) =>
                     news[d][i] = Diff(t, {}, Mine(c, t)) /\ t \in T
           /\ t \in T /\ d # c /\ Joined(d, t) /\ Mine(c, t) # {} =>
                 Of(news[d], {"state", "diff"}, t)

LEMMA PartingTells ==
  ASSUME PresenceInv, NEW c \in Conns, NEW T, NEW news, Parting(c, T, news),
         NEW d \in Conns, NEW t \in Topics, Joined(d, t), d # c \/ t \notin T
  PROVE  /\ ~Of(news[d], {"state"}, t)
         /\ Told(presence[t], news[d], t) = WithoutMine(c, T)[t]
<1>1. /\ Frames(news[d])
      /\ \A i \in DOMAIN news[d] :
            Tells(news[d][i], {"state", "diff"}, t) =>
                news[d][i] = Diff(t, {}, Mine(c, t)) /\ t \in T
      /\ t \in T /\ Mine(c, t) # {} => Of(news[d], {"state", "diff"}, t)
  BY DEF Parting
<1>2. ~Of(news[d], {"state"}, t)
  BY <1>1 DEF Of, Tells, Diff
<1>3. presence[t] \in Views /\ NoOne \notin presence[t]
  <2>1. \A e \in Entries : "n" \in DOMAIN e
    BY DEF Entries
  <2>2. "n" \notin DOMAIN NoOne
    BY DEF NoOne
  <2>3. presence[t] \in SUBSET Entries
    BY DEF PresenceInv
  <2>. QED
    BY <2>1, <2>2, <2>3 DEF Views
<1>4. CASE Of(news[d], {"state", "diff"}, t)
  <2>1. t \in T
    BY <1>1, <1>4 DEF Of
  <2>2. Told(presence[t], news[d], t) = presence[t] \ Mine(c, t)
    BY <1>1, <1>3, <1>4, ToldLeaves
  <2>. QED
    BY <1>2, <2>1, <2>2 DEF WithoutMine
<1>5. CASE ~Of(news[d], {"state", "diff"}, t)
  <2>1. Told(presence[t], news[d], t) = presence[t]
    BY <1>1, <1>3, <1>5, ToldQuiet
  <2>2. t \notin T \/ Mine(c, t) = {}
    BY <1>1, <1>5
  <2>. QED
    BY <1>2, <2>1, <2>2 DEF WithoutMine
<1>. QED
  BY <1>4, <1>5

LEMMA WithoutTyped ==
  ASSUME PresenceInv, NEW c, NEW T
  PROVE  /\ WithoutMine(c, T) \in [Topics -> SUBSET Entries]
         /\ \A t \in Topics : /\ WithoutMine(c, T)[t] \subseteq presence[t]
                              /\ t \in T => \A e \in WithoutMine(c, T)[t] : e.conn # c
BY DEF PresenceInv, WithoutMine, Mine

\* c parts from one topic
LEMMA LeavesPart ==
  ASSUME PresenceInv, NEW c \in Conns, NEW t \in Topics
  PROVE  Parting(c, {t}, LeavesOf(c, t))
<1> DEFINE f == Diff(t, {}, Mine(c, t))
           news == LeavesOf(c, t)
<1>1. f.kind = "diff" /\ f.topic = t /\ f.joins = {}
  BY DEF Diff
<1>2. ASSUME NEW d \in Conns
      PROVE  news[d] = IF d \in Peers(t) \ {c} /\ Mine(c, t) # {} THEN <<f>> ELSE <<>>
  BY <1>2 DEF LeavesOf
<1> HIDE DEF news
<1>3. Frames(<<>>)
  BY DEF Frames, IsSeq
<1>4. Frames(<<f>>)
  <2>1. {} \in Views /\ f.joins \in SUBSET Entries
    BY <1>1 DEF Views
  <2> HIDE DEF f
  <2>. QED
    BY <2>1, ToldOne
<1>5. ASSUME NEW d \in Conns, NEW r \in Topics
      PROVE  /\ Frames(news[d])
             /\ \A i \in DOMAIN news[d] :
                   Tells(news[d][i], {"state", "diff"}, r) =>
                       news[d][i] = Diff(r, {}, Mine(c, r)) /\ r \in {t}
             /\ r \in {t} /\ d # c /\ Joined(d, r) /\ Mine(c, r) # {} =>
                   Of(news[d], {"state", "diff"}, r)
  <2>1. CASE d \in Peers(t) \ {c} /\ Mine(c, t) # {}
    <3>1. news[d] = <<f>>
      BY <1>2, <2>1
    <3>2. DOMAIN <<f>> = {1} /\ <<f>>[1] = f
      OBVIOUS
    <3>3. \A i \in DOMAIN news[d] : news[d][i] = f
      BY <3>1, <3>2
    <3>4. Of(news[d], {"state", "diff"}, t)
      BY <1>1, <3>1, <3>2 DEF Of, Tells
    <3>5. ASSUME Tells(f, {"state", "diff"}, r) PROVE r = t
      BY <1>1, <3>5 DEF Tells
    <3>. QED
      BY <1>4, <3>1, <3>3, <3>4, <3>5
  <2>2. CASE ~(d \in Peers(t) \ {c} /\ Mine(c, t) # {})
    <3>1. news[d] = <<>> /\ DOMAIN news[d] = {}
      BY <1>2, <2>2
    <3>2. ~(d # c /\ Joined(d, t) /\ Mine(c, t) # {})
      BY <2>2 DEF Peers
    <3>. QED
      BY <1>3, <3>1, <3>2
  <2>. QED
    BY <2>1, <2>2
<1>6. Parting(c, {t}, news)
  BY <1>5 DEF Parting
<1>. QED
  BY <1>6 DEF news

\* what can be said of c's entries when it leaves
Byes(c) == Seq({Diff(t, {}, Mine(c, t)) : t \in Topics})

LEMMA LeavesAreByes ==
  ASSUME NEW c \in Conns, NEW d \in Conns, NEW t \in Topics
  PROVE  /\ LeavesOf(c, t)[d] \in Byes(c)
         /\ d \in Peers(t) \ {c} /\ Mine(c, t) # {} =>
               LeavesOf(c, t)[d] = <<Diff(t, {}, Mine(c, t))>>
<1> DEFINE D == {Diff(r, {}, Mine(c, r)) : r \in Topics}
           f == Diff(t, {}, Mine(c, t))
<1>1. f \in D
  OBVIOUS
<1>2. LeavesOf(c, t)[d] = IF d \in Peers(t) \ {c} /\ Mine(c, t) # {} THEN <<f>> ELSE <<>>
  BY DEF LeavesOf
<1> HIDE DEF D, f
<1>3. LeavesOf(c, t)[d] \in Seq(D)
  BY <1>1, <1>2
<1>. QED
  BY <1>2, <1>3 DEF Byes, D, f

\* the channel whose join was the i-th
Nth(c, i) == CHOOSE s \in subs[c] : s.id = i

\* F[i] is what d hears of c leaving the channels that its first i joins made
Leaves(F, c, d) ==
  /\ F[0] = <<>>
  /\ \A i \in 1 .. joins :
        F[i] = IF \E s \in subs[c] : s.id = i
               THEN F[i - 1] \o LeavesOf(c, Nth(c, i).topic)[d]
               ELSE F[i - 1]

LEMMA NthIs ==
  ASSUME SubsInv, NEW c \in Conns, NEW s \in subs[c]
  PROVE  Nth(c, s.id) = s /\ s.id \in 1 .. joins /\ s.topic \in Topics /\ joins \in Nat
BY DEF SubsInv, Nth

LEMMA FarewellsRun ==
  ASSUME SubsInv, NEW c \in Conns, NEW d \in Conns
  PROVE  \E F : Leaves(F, c, d) /\ Farewells(c, d) = F[joins]
<1> DEFINE Eq(F) == F = [i \in 0 .. joins |->
                           IF i = 0 THEN <<>>
                           ELSE IF \E s \in subs[c] : s.id = i
                                THEN F[i - 1] \o
                                       LeavesOf(c, (CHOOSE s \in subs[c] : s.id = i).topic)[d]
                                ELSE F[i - 1]]
           bye(i) == LeavesOf(c, Nth(c, i).topic)[d]
           step == [p \in (1 .. joins) \X Byes(c) |->
                      IF \E s \in subs[c] : s.id = p[1] THEN p[2] \o bye(p[1]) ELSE p[2]]
<1>0. joins \in Nat
  BY DEF SubsInv
<1>1. ASSUME NEW i, \E s \in subs[c] : s.id = i PROVE bye(i) \in Byes(c)
  BY <1>1, NthIs, LeavesAreByes
<1>2. step \in [(1 .. joins) \X Byes(c) -> Byes(c)]
  <2> SUFFICES ASSUME NEW p \in (1 .. joins) \X Byes(c)
               PROVE  (IF \E s \in subs[c] : s.id = p[1] THEN p[2] \o bye(p[1]) ELSE p[2])
                        \in Byes(c)
    OBVIOUS
  <2> HIDE DEF bye
  <2>. QED
    BY <1>1 DEF Byes
<1>3. <<>> \in Byes(c)
  BY DEF Byes
<1>4. PICK F \in [0 .. joins -> Byes(c)] :
              F[0] = <<>> /\ \A i \in 1 .. joins : F[i] = step[<<i, F[i - 1]>>]
  <2> HIDE DEF step
  <2>1. Iterates(Byes(c), <<>>, joins, step)
    BY <1>0, <1>2, <1>3, Recursion
  <2>. QED
    BY <2>1 DEF Iterates
<1>5. \A i \in 1 .. joins :
         F[i] = IF \E s \in subs[c] : s.id = i THEN F[i - 1] \o bye(i) ELSE F[i - 1]
  <2> TAKE i \in 1 .. joins
  <2> DEFINE x == F[i - 1]
  <2>1. x \in Byes(c) /\ F[i] = step[<<i, x>>]
    <3>1. i - 1 \in 0 .. joins
      BY <1>0
    <3> HIDE DEF step
    <3>. QED
      BY <1>4, <3>1
  <2> HIDE DEF x
  <2>2. <<i, x>> \in (1 .. joins) \X Byes(c) /\ <<i, x>>[1] = i /\ <<i, x>>[2] = x
    BY <2>1
  <2>3. F[i] = IF \E s \in subs[c] : s.id = i THEN x \o bye(i) ELSE x
    <3> HIDE DEF bye
    <3>. QED
      BY <2>1, <2>2, Zenon
  <2>. QED
    BY <2>3 DEF x
<1>6. Eq(F)
  <2> DEFINE H == [i \in 0 .. joins |->
                     IF i = 0 THEN <<>>
                     ELSE IF \E s \in subs[c] : s.id = i THEN F[i - 1] \o bye(i) ELSE F[i - 1]]
  <2>1. ASSUME NEW i \in 0 .. joins PROVE F[i] = H[i]
    <3>1. i = 0 \/ i \in 1 .. joins
      BY <1>0
    <3>2. i \in 1 .. joins => i # 0
      OBVIOUS
    <3> HIDE DEF bye
    <3>. QED
      BY <1>4, <1>5, <3>1, <3>2, Zenon
  <2>2. F = [i \in 0 .. joins |-> F[i]] /\ H = [i \in 0 .. joins |-> H[i]]
    OBVIOUS
  <2>3. F = H
    <3> HIDE DEF H
    <3>. QED
      BY <2>1, <2>2
  <2>. QED
    BY <2>3 DEF Nth
<1>7. PICK G : Eq(G) /\ Farewells(c, d) = G[joins]
  BY <1>6 DEF Farewells
<1>8. Leaves(G, c, d)
  <2>1. 0 \in 0 .. joins /\ \A i \in 1 .. joins : i \in 0 .. joins /\ i # 0
    BY <1>0
  <2>2. \A i \in 0 .. joins :
           G[i] = IF i = 0 THEN <<>>
                  ELSE IF \E s \in subs[c] : s.id = i THEN G[i - 1] \o bye(i) ELSE G[i - 1]
    BY <1>7, Zenon DEF Nth
  <2>. QED
    BY <2>1, <2>2 DEF Leaves
<1>. QED
  BY <1>7, <1>8

\* c parts from all its topics
LEMMA FarewellsPart ==
  ASSUME SubsInv, PresenceInv, NEW c \in Conns
  PROVE  Parting(c, Topics, [d \in Conns |-> Farewells(c, d)])
<1>1. ASSUME NEW d \in Conns
      PROVE  /\ Farewells(c, d) \in Byes(c)
             /\ \A s \in subs[c] : d \in Peers(s.topic) \ {c} /\ Mine(c, s.topic) # {} =>
                   Of(Farewells(c, d), {"state", "diff"}, s.topic)
  <2>1. PICK F : Leaves(F, c, d) /\ Farewells(c, d) = F[joins]
    BY FarewellsRun
  <2> DEFINE P(t) == d \in Peers(t) \ {c} /\ Mine(c, t) # {}
             T == {n \in Nat : n <= joins =>
                     /\ F[n] \in Byes(c)
                     /\ \A s \in subs[c] : s.id <= n /\ P(s.topic) =>
                           Of(F[n], {"state", "diff"}, s.topic)}
  <2>2. \A s \in subs[c] : s.id \in 1 .. joins /\ s.topic \in Topics /\ joins \in Nat
    BY NthIs
  <2>3. 0 \in T
    <3>1. F[0] = <<>> /\ \A s \in subs[c] : ~(s.id <= 0)
      BY <2>1, <2>2 DEF Leaves
    <3>2. <<>> \in Byes(c)
      BY DEF Byes
    <3>. QED
      BY <3>1, <3>2
  <2>4. ASSUME NEW n \in Nat, n \in T PROVE n + 1 \in T
    <3> SUFFICES ASSUME n + 1 <= joins
                 PROVE  /\ F[n + 1] \in Byes(c)
                        /\ \A s \in subs[c] : s.id <= n + 1 /\ P(s.topic) =>
                              Of(F[n + 1], {"state", "diff"}, s.topic)
      OBVIOUS
    <3>1. joins \in Nat
      BY DEF SubsInv
    <3>2. /\ F[n] \in Byes(c)
          /\ \A s \in subs[c] : s.id <= n /\ P(s.topic) => Of(F[n], {"state", "diff"}, s.topic)
      BY <2>4, <3>1
    <3>3. n + 1 \in 1 .. joins /\ (n + 1) - 1 = n
      BY <3>1
    <3> DEFINE m == n + 1
    <3>4. /\ (\E s \in subs[c] : s.id = m) => F[m] = F[n] \o LeavesOf(c, Nth(c, m).topic)[d]
          /\ ~(\E s \in subs[c] : s.id = m) => F[m] = F[n]
      BY <2>1, <3>3 DEF Leaves
    <3>5. \A s \in subs[c] : s.id <= m => s.id <= n \/ s.id = m
      BY <2>2
    <3> HIDE DEF m, T
    <3>6. CASE ~(\E s \in subs[c] : s.id = m)
      BY <3>2, <3>4, <3>5, <3>6 DEF m
    <3>7. ASSUME NEW r \in subs[c], r.id = m
          PROVE  /\ F[m] \in Byes(c)
                 /\ \A s \in subs[c] : s.id <= m /\ P(s.topic) =>
                       Of(F[m], {"state", "diff"}, s.topic)
      <4> DEFINE b == LeavesOf(c, r.topic)[d]
                 f == Diff(r.topic, {}, Mine(c, r.topic))
      <4>1. F[m] = F[n] \o b /\ Nth(c, m) = r
        BY <3>4, <3>7, NthIs
      <4>2. b \in Byes(c) /\ (P(r.topic) => b = <<f>>)
        BY <2>2, LeavesAreByes
      <4>3. IsSeq(F[n]) /\ IsSeq(b)
        BY <3>2, <4>2, SeqIn DEF Byes
      <4>4. P(r.topic) => Of(b, {"state", "diff"}, r.topic)
        <5>1. f.kind = "diff" /\ f.topic = r.topic
          BY DEF Diff
        <5> HIDE DEF f, b
        <5>2. b = <<f>> => 1 \in DOMAIN b /\ b[1] = f
          OBVIOUS
        <5>. QED
          BY <4>2, <5>1, <5>2 DEF Of, Tells
      <4> HIDE DEF b, P
      <4>5. F[n] \o b \in Byes(c)
        BY <3>2, <4>2 DEF Byes
      <4>6. ASSUME NEW s \in subs[c], s.id <= m, P(s.topic)
            PROVE  Of(F[n], {"state", "diff"}, s.topic) \/ Of(b, {"state", "diff"}, s.topic)
        <5>1. CASE s.id <= n
          BY <3>2, <4>6, <5>1
        <5>2. CASE s.id = m
          <6>1. s = r
            BY <3>7, <5>2, NthIs
          <6>. QED
            BY <4>4, <4>6, <6>1
        <5>. QED
          BY <3>5, <4>6, <5>1, <5>2
      <4>7. ASSUME NEW s \in subs[c], s.id <= m, P(s.topic)
            PROVE  Of(F[n] \o b, {"state", "diff"}, s.topic)
        BY <4>3, <4>6, <4>7, OfConcat
      <4>. QED
        BY <4>1, <4>5, <4>7
    <3>. QED
      BY <3>6, <3>7 DEF m
  <2>5. joins \in T /\ joins \in Nat
    <3>1. joins \in Nat
      BY DEF SubsInv
    <3> HIDE DEF T
    <3>. QED
      BY <2>3, <2>4, <3>1, Induction
  <2>. QED
    BY <2>1, <2>2, <2>5
<1> DEFINE news == [d \in Conns |-> Farewells(c, d)]
<1>2. ASSUME NEW d \in Conns
      PROVE  /\ IsSeq(news[d])
             /\ \A i \in DOMAIN news[d] :
                   \E t \in Topics : news[d][i] = Diff(t, {}, Mine(c, t))
  <2> DEFINE q == news[d]
  <2>1. q \in Byes(c)
    BY <1>1
  <2> HIDE DEF q
  <2>2. IsSeq(q)
    BY <2>1, SeqIn DEF Byes
  <2>3. \A i \in DOMAIN q : q[i] \in {Diff(t, {}, Mine(c, t)) : t \in Topics}
    BY <2>1 DEF Byes
  <2>4. \A i \in DOMAIN q : \E t \in Topics : q[i] = Diff(t, {}, Mine(c, t))
    BY <2>3
  <2>. QED
    BY <2>2, <2>4 DEF q
<1>3. ASSUME NEW d \in Conns, NEW t \in Topics, d # c, Joined(d, t), Mine(c, t) # {}
      PROVE  Of(news[d], {"state", "diff"}, t)
  <2>1. Joined(c, t)
    BY <1>3 DEF PresenceInv, NobodyIsLeft, Mine
  <2>2. PICK s \in subs[c] : s.topic = t
    BY <2>1 DEF Joined
  <2>. QED
    BY <1>1, <1>3, <2>2 DEF Peers
<1> HIDE DEF news
<1>4. \A t : Diff(t, {}, Mine(c, t)).kind = "diff" /\ Diff(t, {}, Mine(c, t)).topic = t
             /\ Diff(t, {}, Mine(c, t)).joins = {}
  BY DEF Diff
<1>5. ASSUME NEW d \in Conns PROVE Frames(news[d])
  <2>1. \A i \in DOMAIN news[d] : news[d][i].joins = {}
    BY <1>2, <1>4
  <2>. QED
    BY <1>2, <2>1 DEF Frames
<1>6. ASSUME NEW d \in Conns, NEW t \in Topics, NEW i \in DOMAIN news[d],
             Tells(news[d][i], {"state", "diff"}, t)
      PROVE  news[d][i] = Diff(t, {}, Mine(c, t))
  <2>1. PICK r \in Topics : news[d][i] = Diff(r, {}, Mine(c, r))
    BY <1>2
  <2>2. r = t
    BY <1>4, <1>6, <2>1 DEF Tells
  <2>. QED
    BY <2>1, <2>2
<1>7. Parting(c, Topics, news)
  BY <1>3, <1>5, <1>6 DEF Parting
<1>. QED
  BY <1>7 DEF news

\* c parts from the topics in T, and nobody else does
Parts(c, T, queued, news) ==
  /\ Parting(c, T, news) /\ SendBehind(queued, news)
  /\ presence' = WithoutMine(c, T) /\ tracks' = tracks
  /\ \A d \in Conns : queued[d] \in {outbound[d], <<>>}
  /\ \A d \in Conns, t \in Topics : d # c \/ t \notin T =>
        (conn[d] = "open" /\ Joined(d, t) => conn'[d] = "open" /\ Joined(d, t)')
  /\ \A d \in Sockets, t \in Topics : Attends(d, t)' =>
        /\ Attends(d, t) /\ queued[d] = outbound[d] /\ view'[d][t] = view[d][t]
        /\ d # c \/ t \notin T

LEMMA PresenceParted ==
  ASSUME RealtimeAssumption, PresenceInv, NEW c \in Conns, NEW T, NEW queued, NEW news,
         Parts(c, T, queued, news), view' \in [Sockets -> [Topics -> Views]]
  PROVE  PresenceInv'
<1>0. /\ Parting(c, T, news) /\ SendBehind(queued, news)
      /\ presence' = WithoutMine(c, T) /\ tracks' = tracks
      /\ \A d \in Conns : queued[d] \in {outbound[d], <<>>}
      /\ \A d \in Conns, t \in Topics : d # c \/ t \notin T =>
            (conn[d] = "open" /\ Joined(d, t) => conn'[d] = "open" /\ Joined(d, t)')
      /\ \A d \in Sockets, t \in Topics : Attends(d, t)' =>
            /\ Attends(d, t) /\ queued[d] = outbound[d] /\ view'[d][t] = view[d][t]
            /\ d # c \/ t \notin T
  BY DEF Parts
<1>1. /\ presence' \in [Topics -> SUBSET Entries]
      /\ \A t \in Topics : /\ presence'[t] \subseteq presence[t]
                           /\ t \in T => \A e \in presence'[t] : e.conn # c
  BY <1>0, WithoutTyped
<1>2. NobodyIsLeft'
  <2> SUFFICES ASSUME NEW t \in Topics, NEW e \in presence'[t]
               PROVE  conn'[e.conn] = "open" /\ Joined(e.conn, t)'
    BY DEF NobodyIsLeft
  <2>1. e \in presence[t] /\ (e.conn # c \/ t \notin T)
    BY <1>1
  <2>2. conn[e.conn] = "open" /\ Joined(e.conn, t) /\ e.conn \in Conns
    BY <2>1 DEF PresenceInv, NobodyIsLeft, Entries
  <2>. QED
    BY <1>0, <2>1, <2>2
<1>3. ASSUME NEW d \in Sockets, NEW t \in Topics, Attends(d, t)'
      PROVE  BroughtUp(d, t, queued, news)
  <2>1. /\ Attends(d, t) /\ queued[d] = outbound[d] /\ view'[d][t] = view[d][t]
        /\ d # c \/ t \notin T
    BY <1>0, <1>3
  <2>2. Joined(d, t) /\ d \in Conns
    BY <2>1 DEF Attends, Conns
  <2>3. ~Of(news[d], {"state"}, t) /\ Told(presence[t], news[d], t) = WithoutMine(c, T)[t]
    BY <1>0, <2>1, <2>2, PartingTells
  <2>. QED
    BY <1>0, <2>1, <2>3 DEF BroughtUp
<1>4. tracks' \in Nat
  BY <1>0 DEF PresenceInv
<1>5. \A d \in Conns : queued[d] \in {outbound[d], <<>>} /\ Frames(news[d])
  BY <1>0 DEF Parting
<1>. QED
  BY <1>0, <1>1, <1>2, <1>3, <1>4, <1>5, PresenceSent

LEMMA PresenceUnregister ==
  ASSUME RealtimeAssumption, SubsInv, PresenceInv, NEW c \in Conns, Unregister(c)
  PROVE  PresenceInv'
<1> DEFINE queued == [outbound EXCEPT ![c] = <<>>]
           news == [d \in Conns |-> Farewells(c, d)]
<1>1. /\ conn' = [conn EXCEPT ![c] = "gone"] /\ subs' = [subs EXCEPT ![c] = {}]
      /\ busy' = [busy EXCEPT ![c] = NoTopic] /\ presence' = WithoutMine(c, Topics)
      /\ SendBehind(queued, news) /\ tracks' = tracks
      /\ view' = [d \in Sockets |-> IF d = c THEN [t \in Topics |-> NoView] ELSE view[d]]
  BY Zenon DEF Unregister
<1>2. Parting(c, Topics, news)
  BY FarewellsPart
<1>3. \A d \in Conns : queued[d] \in {outbound[d], <<>>} /\ (d # c => queued[d] = outbound[d])
  BY DEF PresenceInv
<1>4. view' \in [Sockets -> [Topics -> Views]] /\ \A d \in Sockets \ {c} : view'[d] = view[d]
  <2>1. NoView \in Views /\ view \in [Sockets -> [Topics -> Views]]
    BY DEF NoView, Views, PresenceInv
  <2> HIDE DEF NoView, Views
  <2>. QED
    BY <1>1, <2>1
<1> HIDE DEF queued, news
<1>5. /\ conn'[c] = "gone"
      /\ \A d \in Conns \ {c} : conn'[d] = conn[d] /\ subs'[d] = subs[d] /\ busy'[d] = busy[d]
  BY <1>1 DEF SubsInv
<1>6. ASSUME NEW d \in Conns, NEW t \in Topics, d # c
      PROVE  /\ conn[d] = "open" /\ Joined(d, t) => conn'[d] = "open" /\ Joined(d, t)'
             /\ Attends(d, t)' => Attends(d, t)
  BY <1>5, <1>6 DEF Joined, Attends
<1>7. ASSUME NEW d \in Sockets, NEW t \in Topics, Attends(d, t)'
      PROVE  /\ Attends(d, t) /\ queued[d] = outbound[d] /\ view'[d][t] = view[d][t]
             /\ d # c \/ t \notin Topics
  <2>1. d # c /\ d \in Conns
    BY <1>5, <1>7 DEF Attends, Conns
  <2>. QED
    BY <1>3, <1>4, <1>6, <1>7, <2>1
<1>8. Parts(c, Topics, queued, news)
  BY <1>1, <1>2, <1>3, <1>6, <1>7 DEF Parts
<1>. QED
  BY <1>4, <1>8, PresenceParted

\* a channel is left, or joined, or joined again: c hears of its topic no more,
\* or not yet
Moves(c, t, b, S) ==
  /\ Send(LeavesOf(c, t)) /\ presence' = WithoutMine(c, {t}) /\ tracks' = tracks
  /\ busy'[c] = b /\ (\A d \in Conns \ {c} : busy'[d] = busy[d]) /\ conn' = conn
  /\ subs' = [subs EXCEPT ![c] = Others(c, t) \cup S] /\ \A s \in S : s.topic = t
  /\ \A d \in Sockets, r \in Topics : d # c \/ r # t => view'[d][r] = view[d][r]
  /\ c \in Sockets => busy[c] \notin Topics /\ (S = {} \/ b = t)

LEMMA PresenceLeft ==
  ASSUME RealtimeAssumption, SubsInv, PresenceInv, NEW c \in Conns, NEW t \in Topics,
         NEW b, NEW S, Moves(c, t, b, S), view' \in [Sockets -> [Topics -> Views]]
  PROVE  PresenceInv'
<1>0. /\ Send(LeavesOf(c, t)) /\ presence' = WithoutMine(c, {t}) /\ tracks' = tracks
      /\ busy'[c] = b /\ (\A d \in Conns \ {c} : busy'[d] = busy[d]) /\ conn' = conn
      /\ subs' = [subs EXCEPT ![c] = Others(c, t) \cup S] /\ \A s \in S : s.topic = t
      /\ \A d \in Sockets, r \in Topics : d # c \/ r # t => view'[d][r] = view[d][r]
      /\ c \in Sockets => busy[c] \notin Topics /\ (S = {} \/ b = t)
  BY DEF Moves
<1>1. Parting(c, {t}, LeavesOf(c, t)) /\ SendBehind(outbound, LeavesOf(c, t))
  BY <1>0, LeavesPart DEF Send
<1>2. /\ subs'[c] = Others(c, t) \cup S /\ busy'[c] = b
      /\ \A d \in Conns \ {c} : subs'[d] = subs[d] /\ busy'[d] = busy[d]
  BY <1>0 DEF SubsInv
<1>3. ASSUME NEW d \in Conns, NEW r \in Topics, d # c \/ r # t
      PROVE  Joined(d, r) <=> Joined(d, r)'
  <2>1. CASE d # c
    BY <1>2, <2>1 DEF Joined
  <2>2. CASE d = c
    BY <1>0, <1>2, <1>3, <2>2 DEF Joined, Others
  <2>. QED
    BY <2>1, <2>2
<1>4. ASSUME NEW d \in Sockets, NEW r \in Topics, Attends(d, r)'
      PROVE  Attends(d, r) /\ (d # c \/ r # t)
  <2>0. d \in Conns
    BY DEF Conns
  <2>1. CASE d # c
    BY <1>0, <1>2, <1>3, <1>4, <2>0, <2>1 DEF Attends
  <2>2. CASE d = c
    <3>1. r # t
      BY <1>0, <1>2, <1>4, <2>2 DEF Attends, Joined, Others
    <3>. QED
      BY <1>0, <1>2, <1>3, <1>4, <2>2, <3>1 DEF Attends
  <2>. QED
    BY <2>1, <2>2
<1>5. \A d \in Conns, r \in Topics : d # c \/ r \notin {t} =>
         (conn[d] = "open" /\ Joined(d, r) => conn'[d] = "open" /\ Joined(d, r)')
  BY <1>0, <1>3
<1>6. \A d \in Sockets, r \in Topics : Attends(d, r)' =>
         /\ Attends(d, r) /\ outbound[d] = outbound[d] /\ view'[d][r] = view[d][r]
         /\ d # c \/ r \notin {t}
  BY <1>0, <1>4
<1>7. \A d \in Conns : outbound[d] \in {outbound[d], <<>>}
  OBVIOUS
<1>8. Parts(c, {t}, outbound, LeavesOf(c, t))
  BY <1>0, <1>1, <1>5, <1>6, <1>7 DEF Parts
<1>. QED
  BY <1>8, PresenceParted

LEMMA PresenceChannels ==
  ASSUME RealtimeAssumption, SubsInv, PresenceInv, NEW c \in Conns, NEW t \in Topics,
         \/ TapSubscribe(c, t) /\ c \in Taps
         \/ Leave(c, t) /\ c \in Sockets
         \/ (\E wants, i : Join(c, t, wants, i)) /\ c \in Sockets
  PROVE  PresenceInv'
<1>1. view \in [Sockets -> [Topics -> Views]]
  BY DEF PresenceInv
<1>2. NoTopic \notin Topics /\ Sockets \cap Taps = {}
  BY DEF RealtimeAssumption
<1>3. CASE TapSubscribe(c, t) /\ c \in Taps
  <2> DEFINE S == {[topic |-> t, id |-> joins + 1, wants |-> Kinds]}
  <2>1. /\ Send(LeavesOf(c, t)) /\ presence' = WithoutMine(c, {t}) /\ tracks' = tracks
        /\ busy' = [busy EXCEPT ![c] = NoTopic] /\ conn' = conn /\ view' = view
        /\ subs' = [subs EXCEPT ![c] = Others(c, t) \cup S]
    BY <1>3, Zenon DEF TapSubscribe, Subscribe
  <2>2. c \notin Sockets /\ \A s \in S : s.topic = t
    BY <1>2, <1>3
  <2>3. busy'[c] = NoTopic /\ \A d \in Conns \ {c} : busy'[d] = busy[d]
    BY <2>1 DEF SubsInv
  <2>4. Moves(c, t, NoTopic, S)
    BY <2>1, <2>2, <2>3 DEF Moves
  <2>. QED
    BY <1>1, <2>1, <2>4, PresenceLeft
<1>4. CASE Leave(c, t) /\ c \in Sockets
  <2>1. /\ Send(LeavesOf(c, t)) /\ presence' = WithoutMine(c, {t}) /\ tracks' = tracks
        /\ busy' = busy /\ conn' = conn /\ view' = [view EXCEPT ![c][t] = NoView]
        /\ subs' = [subs EXCEPT ![c] = Others(c, t)] /\ busy[c] = NoTopic
    BY <1>4, Zenon DEF Leave, Free
  <2>2. view' \in [Sockets -> [Topics -> Views]]
        /\ \A d \in Sockets, r \in Topics : d # c \/ r # t => view'[d][r] = view[d][r]
    <3>1. NoView \in Views
      BY DEF NoView, Views
    <3> HIDE DEF NoView, Views
    <3>. QED
      BY <1>1, <1>4, <2>1, <3>1
  <2>3. busy'[c] = NoTopic /\ \A d \in Conns \ {c} : busy'[d] = busy[d]
    BY <2>1
  <2>4. Moves(c, t, NoTopic, {})
    BY <1>2, <2>1, <2>2, <2>3 DEF Moves
  <2>. QED
    BY <2>2, <2>4, PresenceLeft
<1>5. ASSUME NEW wants, NEW i, Join(c, t, wants, i), c \in Sockets PROVE PresenceInv'
  <2> DEFINE S == {[topic |-> t, id |-> joins + 1, wants |-> wants]}
  <2>1. conn' = conn /\ tracks' = tracks /\ view' = view /\ busy[c] = NoTopic
    BY <1>5, Zenon DEF Join, Free
  <2>2. \/ /\ Send(LeavesOf(c, t)) /\ presence' = WithoutMine(c, {t})
           /\ subs' = [subs EXCEPT ![c] = Others(c, t) \cup S]
           /\ busy' = [busy EXCEPT ![c] = t]
        \/ UNCHANGED <<subs, presence, outbound, lossy, busy>>
    BY <1>5, Zenon DEF Join, Subscribe
  <2>3. \A s \in S : s.topic = t
    OBVIOUS
  <2> HIDE DEF S
  <2>4. CASE UNCHANGED <<subs, presence, outbound, lossy, busy>>
    <3>1. NobodyIsLeft'
      BY <2>1, <2>4 DEF PresenceInv, NobodyIsLeft, Joined
    <3>2. \A d \in Sockets, r \in Topics : Attends(d, r)' => Attends(d, r)
      BY <2>1, <2>4 DEF Attends, Joined
    <3>. QED
      BY <2>1, <2>4, <3>1, <3>2, PresenceKept
  <2>5. CASE /\ Send(LeavesOf(c, t)) /\ presence' = WithoutMine(c, {t})
             /\ subs' = [subs EXCEPT ![c] = Others(c, t) \cup S]
             /\ busy' = [busy EXCEPT ![c] = t]
    <3>1. busy'[c] = t /\ \A d \in Conns \ {c} : busy'[d] = busy[d]
      BY <2>5 DEF SubsInv
    <3>2. Moves(c, t, t, S)
      BY <1>2, <2>1, <2>3, <2>5, <3>1 DEF Moves
    <3>. QED
      BY <1>1, <2>1, <3>2, PresenceLeft
  <2>. QED
    BY <2>2, <2>4, <2>5
<1>. QED
  BY <1>3, <1>4, <1>5

\* nothing is sent that tells of who is there
LEMMA PresenceAside ==
  ASSUME RealtimeAssumption, PresenceInv, NEW news, Send(news),
         UNCHANGED <<conn, subs, busy, presence, view, tracks>>,
         \A d \in Conns : \/ news[d] = <<>>
                          \/ \E f : news[d] = <<f>> /\ f.kind \notin {"state", "diff"}
  PROVE  PresenceInv'
<1>1. ASSUME NEW d \in Conns
      PROVE  Frames(news[d]) /\ \A t : ~Of(news[d], {"state", "diff"}, t)
  <2>1. CASE news[d] = <<>>
    BY <2>1 DEF Frames, IsSeq, Of
  <2>2. ASSUME NEW f, news[d] = <<f>>, f.kind \notin {"state", "diff"}
        PROVE  Frames(news[d]) /\ \A t : ~Of(news[d], {"state", "diff"}, t)
    <3>1. {} \in Views
      BY DEF Views
    <3>2. Frames(<<f>>)
      BY <2>2, <3>1, ToldOne
    <3>3. \A i \in DOMAIN <<f>> : <<f>>[i] = f
      OBVIOUS
    <3>. QED
      BY <2>2, <3>2, <3>3 DEF Of, Tells
  <2>. QED
    BY <2>1, <2>2
<1>2. ASSUME NEW d \in Sockets, NEW t \in Topics, Attends(d, t)'
      PROVE  BroughtUp(d, t, outbound, news)
  <2>1. presence[t] \in Views /\ d \in Conns
    BY DEF PresenceInv, Views, Conns
  <2>2. Told(presence[t], news[d], t) = presence[t] /\ ~Of(news[d], {"state"}, t)
    <3>1. ~Of(news[d], {"state"}, t)
      BY <1>1, <2>1 DEF Of, Tells
    <3>. QED
      BY <1>1, <2>1, <3>1, ToldQuiet
  <2>3. Attends(d, t)
    BY <1>2 DEF Attends, Joined
  <2>. QED
    BY <2>2, <2>3 DEF BroughtUp
<1>3. SendBehind(outbound, news)
  BY DEF Send
<1>4. /\ \A d \in Conns : outbound[d] \in {outbound[d], <<>>} /\ Frames(news[d])
      /\ NobodyIsLeft' /\ tracks' \in Nat /\ presence' \in [Topics -> SUBSET Entries]
      /\ view' \in [Sockets -> [Topics -> Views]]
  BY <1>1 DEF PresenceInv, NobodyIsLeft, Joined
<1>. QED
  BY <1>2, <1>3, <1>4, PresenceSent

\* everybody on t is told what is new on it, and what is no more
LEMMA PresenceChanged ==
  ASSUME RealtimeAssumption, PresenceInv, NEW t \in Topics,
         NEW new \in SUBSET Entries, NEW old, NEW f, f = Diff(t, new, old),
         Send([d \in Conns |-> IF d \in Peers(t) THEN <<f>> ELSE <<>>]),
         presence' = [presence EXCEPT ![t] = (@ \ old) \cup new],
         NobodyIsLeft', tracks' \in Nat, UNCHANGED <<conn, subs, busy, view>>
  PROVE  PresenceInv'
<1> DEFINE news == [d \in Conns |-> IF d \in Peers(t) THEN <<f>> ELSE <<>>]
<1>1. f.kind = "diff" /\ f.topic = t /\ f.joins = new /\ f.leaves = old
  BY DEF Diff
<1>2. /\ SendBehind(outbound, news)
      /\ \A d \in Conns : news[d] = IF d \in Peers(t) THEN <<f>> ELSE <<>>
  BY DEF Send
<1> HIDE DEF news
<1>3. \A x \in Views : Frames(<<f>>) /\ Frames(<<>>)
                       /\ \A r : Told(x, <<f>>, r) = Heard(x, f, r) /\ Told(x, <<>>, r) = x
  BY <1>1, ToldOne, ToldNone
<1>4. \A d \in Conns : Frames(news[d])
  <2>1. {} \in Views
    BY DEF Views
  <2>. QED
    BY <1>2, <1>3, <2>1
<1>5. ASSUME NEW r \in Topics PROVE presence[r] \in Views /\ presence[r] # NoView
  <2>1. \A e \in Entries : "n" \in DOMAIN e
    BY DEF Entries
  <2>2. "n" \notin DOMAIN NoOne
    BY DEF NoOne
  <2>3. presence[r] \in SUBSET Entries
    BY DEF PresenceInv
  <2>. QED
    BY <2>1, <2>2, <2>3 DEF Views, NoView
<1>6. presence' \in [Topics -> SUBSET Entries]
      /\ \A r \in Topics : presence'[r] = IF r = t THEN (presence[t] \ old) \cup new ELSE presence[r]
  BY DEF PresenceInv
<1>7. ASSUME NEW d \in Sockets, NEW r \in Topics, Attends(d, r)'
      PROVE  BroughtUp(d, r, outbound, news)
  <2>1. Attends(d, r) /\ d \in Conns
    BY <1>7 DEF Attends, Joined, Conns
  <2>2. ~Of(news[d], {"state"}, r)
    <3>1. \A i \in DOMAIN <<f>> : <<f>>[i] = f
      OBVIOUS
    <3>. QED
      BY <1>1, <1>2, <2>1, <3>1 DEF Of, Tells
  <2>3. Heard(presence[r], f, r) = presence'[r]
    BY <1>1, <1>5, <1>6 DEF Heard, Tells
  <2>4. Told(presence[r], news[d], r) = presence'[r]
    <3>1. r = t => d \in Peers(t)
      BY <2>1 DEF Attends, Peers
    <3>2. r # t => presence'[r] = presence[r]
      BY <1>6
    <3>. QED
      BY <1>2, <1>3, <1>5, <2>1, <2>3, <3>1, <3>2
  <2>. QED
    BY <2>1, <2>2, <2>4 DEF BroughtUp
<1>8. view' \in [Sockets -> [Topics -> Views]]
      /\ \A d \in Conns : outbound[d] \in {outbound[d], <<>>}
  BY DEF PresenceInv
<1>. QED
  BY <1>2, <1>4, <1>6, <1>7, <1>8, PresenceSent

LEMMA PresenceTracked ==
  ASSUME RealtimeAssumption, SubsInv, PresenceInv, NEW c \in Conns, NEW t \in Topics,
         Track(c, t) \/ Untrack(c, t)
  PROVE  PresenceInv'
<1>1. CASE Track(c, t)
  <2> DEFINE e == [conn |-> c, n |-> tracks + 1]
  <2>1. /\ tracks' = tracks + 1 /\ presence' = [presence EXCEPT ![t] = @ \cup {e}]
        /\ Send([d \in Conns |-> IF d \in Peers(t) THEN <<Diff(t, {e}, {})>> ELSE <<>>])
        /\ UNCHANGED <<conn, subs, busy, view>> /\ conn[c] = "open" /\ Joined(c, t)
    BY <1>1, Zenon DEF Track, sessionVars, MaySpeak, Free
  <2>2. e \in Entries /\ tracks' \in Nat /\ e.conn = c
    BY <2>1 DEF Entries, PresenceInv
  <2> HIDE DEF e
  <2>3. presence' = [presence EXCEPT ![t] = (@ \ {}) \cup {e}]
    BY <2>1
  <2>4. NobodyIsLeft'
    BY <2>1, <2>2 DEF PresenceInv, NobodyIsLeft, Joined
  <2> DEFINE new == {e}
             f == Diff(t, new, {})
  <2>5. /\ new \in SUBSET Entries /\ presence' = [presence EXCEPT ![t] = (@ \ {}) \cup new]
        /\ Send([d \in Conns |-> IF d \in Peers(t) THEN <<f>> ELSE <<>>])
    BY <2>1, <2>2, <2>3
  <2> HIDE DEF new
  <2>. QED
    BY <2>1, <2>2, <2>4, <2>5, PresenceChanged
<1>2. CASE Untrack(c, t)
  <2> DEFINE old == Mine(c, t)
             new == {}
             f == Diff(t, new, old)
  <2>1. /\ tracks' = tracks /\ presence' = WithoutMine(c, {t})
        /\ Send([d \in Conns |-> IF d \in Peers(t) THEN <<f>> ELSE <<>>])
        /\ UNCHANGED <<conn, subs, busy, view>>
    BY <1>2, Zenon DEF Untrack, sessionVars
  <2>2. presence' = [presence EXCEPT ![t] = (@ \ old) \cup new]
    BY <2>1 DEF WithoutMine, PresenceInv
  <2>3. NobodyIsLeft' /\ tracks' \in Nat /\ new \in SUBSET Entries
    BY <2>1 DEF PresenceInv, NobodyIsLeft, Joined, WithoutMine
  <2> HIDE DEF old, new
  <2>. QED
    BY <2>1, <2>2, <2>3, PresenceChanged
<1>. QED
  BY <1>1, <1>2

LEMMA PresenceReply ==
  ASSUME RealtimeAssumption, SubsInv, PresenceInv, NEW c \in Conns, Reply(c)
  PROVE  PresenceInv'
<1> DEFINE t == busy[c]
           f == State(t, presence[t])
           news == [Nothing EXCEPT ![c] = <<f>>]
<1>1. /\ t \in Topics /\ SendBehind(outbound, news) /\ busy' = [busy EXCEPT ![c] = NoTopic]
      /\ UNCHANGED <<conn, subs, presence, view, tracks>>
  BY Zenon DEF Reply, Send
<1>2. \A d \in Conns : news[d] = IF d = c THEN <<f>> ELSE <<>>
  BY DEF Nothing
<1>3. f.kind = "state" /\ f.topic = t /\ f.joins = presence[t] /\ presence[t] \in SUBSET Entries
  BY <1>1 DEF State, PresenceInv
<1> HIDE DEF news, f
<1>4. \A x \in Views : Frames(<<f>>) /\ Frames(<<>>)
                       /\ \A r : Told(x, <<f>>, r) = Heard(x, f, r) /\ Told(x, <<>>, r) = x
  BY <1>3, ToldOne, ToldNone
<1>5. \A d \in Conns : Frames(news[d])
  <2>1. {} \in Views
    BY DEF Views
  <2>. QED
    BY <1>2, <1>4, <2>1
<1>6. ASSUME NEW d \in Sockets, NEW r \in Topics, Attends(d, r)'
      PROVE  BroughtUp(d, r, outbound, news)
  <2>0. d \in Conns /\ presence[r] \in Views /\ presence'[r] = presence[r] /\ view'[d][r] = view[d][r]
    BY <1>1 DEF Conns, PresenceInv, Views
  <2>1. CASE d = c /\ r = t
    <3>1. \A x \in Views : Heard(x, f, t) = presence[t]
      BY <1>3 DEF Heard, Tells
    <3>2. \A x \in Views : Told(x, news[d], r) = presence'[r]
      BY <1>2, <1>4, <2>0, <2>1, <3>1
    <3>. QED
      BY <2>0, <3>2 DEF BroughtUp
  <2>2. CASE ~(d = c /\ r = t)
    <3>1. Attends(d, r)
      BY <1>1, <1>6, <2>0, <2>2 DEF Attends, Joined, SubsInv
    <3>2. \A i \in DOMAIN <<f>> : <<f>>[i] = f
      OBVIOUS
    <3>3. ~Of(news[d], {"state"}, r)
      BY <1>2, <1>3, <2>0, <2>2, <3>2 DEF Of, Tells
    <3>4. Told(presence[r], news[d], r) = presence[r]
      <4>1. CASE d # c
        BY <1>2, <1>4, <2>0, <4>1
      <4>2. CASE r # t
        <5>1. Heard(presence[r], f, r) = presence[r]
          BY <1>3, <4>2 DEF Heard, Tells
        <5>. QED
          BY <1>2, <1>4, <2>0, <5>1
      <4>. QED
        BY <2>2, <4>1, <4>2
    <3>. QED
      BY <2>0, <3>1, <3>3, <3>4 DEF BroughtUp
  <2>. QED
    BY <2>1, <2>2
<1>7. /\ NobodyIsLeft' /\ tracks' \in Nat /\ presence' \in [Topics -> SUBSET Entries]
      /\ view' \in [Sockets -> [Topics -> Views]]
      /\ \A d \in Conns : outbound[d] \in {outbound[d], <<>>}
  BY <1>1 DEF PresenceInv, NobodyIsLeft, Joined
<1>. QED
  BY <1>1, <1>5, <1>6, <1>7, PresenceSent

LEMMA HeadAndTail ==
  ASSUME NEW q, IsSeq(q), q # <<>>
  PROVE  /\ Len(q) \in Nat \ {0} /\ q[1] = Head(q)
         /\ SubSeq(q, 1, 1) = <<Head(q)>> /\ SubSeq(q, 2, Len(q)) = Tail(q)
<1>1. PICK T : q \in Seq(T)
  BY SeqIs
<1>2. Len(q) \in Nat \ {0} /\ q[1] = Head(q) /\ q[1] \in T
  BY <1>1
<1>3. SubSeq(q, 2, Len(q)) = Tail(q)
  <2>1. Tail(q) = SubSeq(q, 2, Len(q))
    BY <1>1, <1>2
  <2>. QED
    BY <2>1
<1>4. SubSeq(q, 1, 1) = <<Head(q)>>
  <2>1. 1 \in 0 .. Len(q) /\ 1 \in 1 .. 1
    BY <1>2
  <2>2. IsSeq(SubSeq(q, 1, 1)) /\ Len(SubSeq(q, 1, 1)) = 1 /\ SubSeq(q, 1, 1)[1] = q[1]
    BY <2>1, SeqOfPart
  <2> DEFINE a == SubSeq(q, 1, 1)
             b == <<q[1]>>
  <2> HIDE DEF a
  <2>3. PICK A : a \in Seq(A)
    BY <2>2, SeqIs DEF a
  <2>4. a \in Seq(A \cup {q[1]}) /\ b \in Seq(A \cup {q[1]})
    BY <2>3
  <2>5. Len(a) = Len(b) /\ \A i \in 1 .. Len(a) : a[i] = b[i]
    BY <2>2 DEF a
  <2>6. a = b
    BY <2>4, <2>5, SeqEqual
  <2>. QED
    BY <1>2, <2>6 DEF a
<1>. QED
  BY <1>2, <1>3, <1>4

LEMMA PresenceDrain ==
  ASSUME RealtimeAssumption, SubsInv, PresenceInv, NEW c \in Conns, Drain(c)
  PROVE  PresenceInv'
<1> DEFINE q == outbound[c]
           h == Head(q)
           r == Tail(q)
<1>1. /\ q # <<>> /\ outbound' = [outbound EXCEPT ![c] = r]
      /\ view' = [d \in Sockets |-> [t \in Topics |->
                     IF d = c THEN Heard(view[d][t], h, t) ELSE view[d][t]]]
      /\ UNCHANGED <<conn, subs, busy, presence, lossy, tracks>>
  BY Zenon DEF Drain, sessionVars
<1>2. Frames(q) /\ \A t \in lossy[c] : ~Of(q, {"state"}, t)
  BY DEF PresenceInv
<1>3. /\ outbound'[c] = r /\ DOMAIN outbound' = Conns
      /\ \A d \in Conns \ {c} : outbound'[d] = outbound[d]
  BY <1>1 DEF PresenceInv
<1> HIDE DEF q, h, r
<1>4. /\ Len(q) \in Nat \ {0} /\ q[1] = h /\ SubSeq(q, 1, 1) = <<h>> /\ SubSeq(q, 2, Len(q)) = r
  BY <1>1, <1>2, HeadAndTail DEF Frames, h, r
<1>5. q = <<h>> \o r /\ Frames(<<h>>) /\ Frames(r)
  <2>1. 1 \in 0 .. Len(q) /\ 1 + 1 = 2
    BY <1>4
  <2>2. SubSeq(q, 1, 1) \o SubSeq(q, 2, Len(q)) = q
    BY <1>2, <2>1, SeqOfPart DEF Frames
  <2>3. Frames(SubSeq(q, 1, 1)) /\ Frames(SubSeq(q, 2, Len(q)))
    BY <1>2, <2>1, FramesPart
  <2>. QED
    BY <1>4, <2>2, <2>3
<1>6. \A t : Of(r, {"state"}, t) => Of(q, {"state"}, t)
  BY <1>5, OfConcat DEF Frames
<1>7. ASSUME NEW x \in Views, NEW t
      PROVE  Heard(x, h, t) \in Views /\ Told(Heard(x, h, t), r, t) = Told(x, q, t)
  <2>1. Heard(x, h, t) \in Views
    <3>1. 1 \in 1 .. Len(q)
      BY <1>4
    <3>. QED
      BY <1>2, <1>4, <3>1, HeardIs
  <2>2. h.kind \in {"state", "diff"} => h.joins \in SUBSET Entries
    <3>1. 1 \in DOMAIN q
      BY <1>2, <1>4, SeqIs DEF Frames
    <3>. QED
      BY <1>2, <1>4, <3>1 DEF Frames
  <2>3. Told(x, <<h>>, t) = Heard(x, h, t)
    BY <2>2, ToldOne
  <2>4. Told(x, <<h>> \o r, t) = Told(Told(x, <<h>>, t), r, t)
    BY <1>5, ToldConcat
  <2>. QED
    BY <1>5, <2>1, <2>3, <2>4
<1>8. view \in [Sockets -> [Topics -> Views]]
  BY DEF PresenceInv
<1>9. view' \in [Sockets -> [Topics -> Views]]
  <2>1. \A d \in Sockets, t \in Topics : view[d][t] \in Views /\ Heard(view[d][t], h, t) \in Views
    BY <1>7, <1>8
  <2> HIDE DEF Views
  <2>. QED
    BY <1>1, <2>1
<1>10. ASSUME NEW d \in Sockets, NEW t \in Topics, Attends(d, t)', t \notin lossy'[d]
       PROVE  Told(view'[d][t], outbound'[d], t) = presence'[t]
  <2>1. d \in Conns /\ Attends(d, t) /\ t \notin lossy[d] /\ presence'[t] = presence[t]
    BY <1>1, <1>10 DEF Attends, Joined, Conns
  <2>2. Told(view[d][t], outbound[d], t) = presence[t] /\ view[d][t] \in Views
    BY <1>8, <2>1 DEF PresenceInv, PresenceIsTold, Attends
  <2>3. CASE d = c
    <3>1. view'[d][t] = Heard(view[d][t], h, t) /\ outbound'[d] = r /\ outbound[d] = q
      BY <1>1, <1>3, <2>3 DEF q
    <3>. QED
      BY <1>7, <2>1, <2>2, <3>1
  <2>4. CASE d # c
    <3>1. view'[d][t] = view[d][t] /\ outbound'[d] = outbound[d]
      BY <1>1, <1>3, <2>1, <2>4
    <3>. QED
      BY <2>1, <2>2, <3>1
  <2>. QED
    BY <2>3, <2>4
<1>11. PresenceIsTold'
  BY <1>10 DEF PresenceIsTold, Attends
<1>12. NobodyIsLeft' /\ tracks' \in Nat /\ presence' \in [Topics -> SUBSET Entries]
       /\ DOMAIN lossy' = Conns
  BY <1>1 DEF PresenceInv, NobodyIsLeft, Joined
<1>13. ASSUME NEW d \in Conns
       PROVE  Frames(outbound'[d]) /\ \A t \in lossy'[d] : ~Of(outbound'[d], {"state"}, t)
  <2>1. CASE d = c
    BY <1>1, <1>2, <1>3, <1>5, <1>6, <2>1
  <2>2. CASE d # c
    BY <1>1, <1>3, <2>2 DEF PresenceInv
  <2>. QED
    BY <2>1, <2>2
<1>. QED
  BY <1>3, <1>9, <1>11, <1>12, <1>13 DEF PresenceInv

\* who has joined, and been told, stays who had
PresenceStays == UNCHANGED <<conn, subs, busy, presence, view, tracks>>

LEMMA PresenceQuiet ==
  ASSUME PresenceInv, PresenceStays, UNCHANGED <<outbound, lossy>>
  PROVE  PresenceInv'
<1>1. NobodyIsLeft'
  BY DEF PresenceStays, PresenceInv, NobodyIsLeft, Joined
<1>2. \A d \in Sockets, t \in Topics : Attends(d, t)' => Attends(d, t)
  BY DEF PresenceStays, Attends, Joined
<1>. QED
  BY <1>1, <1>2, PresenceKept DEF PresenceStays

LEMMA PresenceTasks ==
  ASSUME RealtimeAssumption, PresenceInv,
         \/ \E kind \in Kinds, u \in Users : Notify(kind, u)
         \/ \E n \in DOMAIN tasks :
               \/ Lookup(n)
               \/ \E e \in tasks[n].rest : Authorize(n, e)
               \/ \E yes \in BOOLEAN : Probed(n, yes)
  PROVE  PresenceInv'
<1>1. PresenceStays
  BY Zenon DEF Notify, Lookup, Authorize, Probed, sessionVars, PresenceStays
<1>2. \/ UNCHANGED <<outbound, lossy>>
      \/ \E n \in DOMAIN tasks : \E e : Push(n, e)
  BY Zenon DEF Notify, Lookup, Authorize, Probed, Skip
<1>3. CASE UNCHANGED <<outbound, lossy>>
  BY <1>1, <1>3, PresenceQuiet
<1>4. ASSUME NEW n \in DOMAIN tasks, NEW e, Push(n, e),
             ~UNCHANGED <<outbound, lossy>>
      PROVE  PresenceInv'
  <2> DEFINE f == Change(n, TopicFor(e.conn, tasks[n]), e.id)
             news == [Nothing EXCEPT ![e.conn] = <<f>>]
  <2>1. Send(news)
    BY <1>4, Zenon DEF Push
  <2>2. f.kind \notin {"state", "diff"}
    BY DEF Change
  <2>3. \A d \in Conns : news[d] = <<>> \/ news[d] = <<f>>
    BY DEF Nothing
  <2> HIDE DEF f, news
  <2>. QED
    BY <1>1, <2>1, <2>2, <2>3, PresenceAside DEF PresenceStays
<1>. QED
  BY <1>2, <1>3, <1>4

LEMMA PresenceConns ==
  ASSUME RealtimeAssumption, SubsInv, PresenceInv, NEW c \in Conns,
         \/ \E i : Register(c, i)
         \/ Cut(c) \/ Expire(c)
         \/ \E i : AccessToken(c, i)
  PROVE  PresenceInv'
<1>1. CASE Expire(c) \/ \E i : AccessToken(c, i)
  <2>1. PresenceStays /\ UNCHANGED <<outbound, lossy>>
    BY <1>1, Zenon DEF Expire, AccessToken, PresenceStays
  <2>. QED
    BY <2>1, PresenceQuiet
<1>2. CASE Cut(c) \/ \E i : Register(c, i)
  <2>1. /\ UNCHANGED <<subs, presence, outbound, lossy, view, tracks>>
        /\ \E s, b : conn' = [conn EXCEPT ![c] = s] /\ busy' = [busy EXCEPT ![c] = b]
        /\ conn[c] = "new" \/ busy[c] = AtTables
    BY <1>2, Zenon DEF Cut, Register, dataVars
  <2>2. subs[c] = {} /\ \A d \in Conns \ {c} : conn'[d] = conn[d] /\ busy'[d] = busy[d]
    BY <2>1 DEF SubsInv
  <2>3. NobodyIsLeft'
    <3> SUFFICES ASSUME NEW t \in Topics, NEW e \in presence'[t]
                 PROVE  conn'[e.conn] = "open" /\ Joined(e.conn, t)'
      BY DEF NobodyIsLeft
    <3>1. conn[e.conn] = "open" /\ Joined(e.conn, t) /\ e.conn \in Conns
      BY <2>1 DEF PresenceInv, NobodyIsLeft, Entries
    <3>. QED
      BY <2>1, <2>2, <3>1 DEF Joined
  <2>4. ASSUME NEW d \in Sockets, NEW t \in Topics, Attends(d, t)' PROVE Attends(d, t)
    BY <2>1, <2>2, <2>4 DEF Attends, Joined, Conns
  <2>. QED
    BY <2>1, <2>3, <2>4, PresenceKept
<1>. QED
  BY <1>1, <1>2

LEMMA PresenceBroadcast ==
  ASSUME RealtimeAssumption, PresenceInv, NEW t, NEW others, Broadcast(t, others)
  PROVE  PresenceInv'
<1> DEFINE f == Cast(t)
           news == [d \in Conns |-> IF d \in others THEN <<f>> ELSE <<>>]
<1>1. PresenceStays /\ Send(news)
  BY Zenon DEF Broadcast, sessionVars, PresenceStays
<1>2. f.kind \notin {"state", "diff"}
  BY DEF Cast
<1>3. \A d \in Conns : news[d] = <<>> \/ news[d] = <<f>>
  OBVIOUS
<1> HIDE DEF f, news
<1>. QED
  BY <1>1, <1>2, <1>3, PresenceAside DEF PresenceStays

LEMMA PresenceNext ==
  ASSUME RealtimeAssumption, SubsInv, PresenceInv, [Next]_rtVars
  PROVE  PresenceInv'
<1>1. CASE UNCHANGED rtVars
  BY <1>1, PresenceQuiet DEF rtVars, sessionVars, dataVars, PresenceStays
<1>2. CASE \/ \E kind \in Kinds, u \in Users : Notify(kind, u)
           \/ \E n \in DOMAIN tasks :
                 \/ Lookup(n)
                 \/ \E e \in tasks[n].rest : Authorize(n, e)
                 \/ \E yes \in BOOLEAN : Probed(n, yes)
  BY <1>2, PresenceTasks
<1>3. ASSUME NEW c \in Conns,
             \/ \E i : Register(c, i)
             \/ Unregister(c) \/ Cut(c) \/ Reply(c) \/ Expire(c) \/ Drain(c)
             \/ \E i : AccessToken(c, i)
      PROVE  PresenceInv'
  BY <1>3, PresenceConns, PresenceUnregister, PresenceReply, PresenceDrain
<1>4. ASSUME NEW c \in Conns, NEW t \in Topics,
             \/ TapSubscribe(c, t) /\ c \in Taps
             \/ Leave(c, t) /\ c \in Sockets
             \/ (\E wants, i : Join(c, t, wants, i)) /\ c \in Sockets
             \/ Track(c, t) \/ Untrack(c, t)
      PROVE  PresenceInv'
  BY <1>4, PresenceChannels, PresenceTracked, Zenon
<1>5. ASSUME NEW t, NEW others, Broadcast(t, others) PROVE PresenceInv'
  BY <1>5, PresenceBroadcast
<1>6. Sockets \subseteq Conns /\ Taps \subseteq Conns
  BY DEF Conns
<1>. QED
  BY <1>1, <1>2, <1>3, <1>4, <1>5, <1>6, Zenon DEF Next

-----------------------------------------------------------------------------
(* The changes of rows.                                                    *)

LEMMA ChangesInit == Init => TasksInv
<1> SUFFICES ASSUME Init
             PROVE  TasksInv
  OBVIOUS
<1>1. /\ tasks = <<>> /\ sent = <<>>
      /\ DOMAIN conn = Conns /\ DOMAIN ident = Conns /\ DOMAIN expired = Conns
  BY DEF Init
<1>2. IsSeq(<<>>)
  BY DEF IsSeq
<1>. QED
  BY <1>1, <1>2 DEF TasksInv

\* tasks under way keep what they know
LEMMA ChangesKept ==
  ASSUME TasksInv, sent' = sent, DOMAIN tasks' = DOMAIN tasks, IsSeq(tasks'),
         Len(tasks') = Len(tasks),
         DOMAIN conn' = Conns, DOMAIN ident' = Conns, DOMAIN expired' = Conns,
         \A n \in DOMAIN tasks : TaskInv(tasks[n]) => TaskInv(tasks[n])'
  PROVE  TasksInv' /\ PushIsAllowed
BY DEF TasksInv, PushIsAllowed

\* nobody is new again, and whoever becomes another was new
LEMMA ChangesOfConns ==
  ASSUME TasksInv, sent' = sent, tasks' = tasks,
         DOMAIN conn' = Conns, DOMAIN ident' = Conns, DOMAIN expired' = Conns,
         \A d \in Conns : conn[d] # "new" =>
             conn'[d] # "new" /\ ident'[d] = ident[d] /\ expired'[d] = expired[d]
  PROVE  TasksInv' /\ PushIsAllowed
<1>1. \A n \in DOMAIN tasks : TaskInv(tasks[n]) => TaskInv(tasks[n])'
  BY DEF TaskInv
<1>. QED
  BY <1>1, ChangesKept DEF TasksInv

\* what becomes of a task whose connection is disturbed
LEMMA DisturbedTask ==
  ASSUME NEW k, NEW o, NEW t,
         DOMAIN k = {"pc", "kind", "owner", "rest", "at", "as", "turned", "owed"},
         NEW r, r = [k EXCEPT !.owed = o, !.turned = t]
  PROVE  /\ DOMAIN r = DOMAIN k /\ r.pc = k.pc /\ r.rest = k.rest /\ r.at = k.at
         /\ r.as = k.as /\ r.turned = t /\ r.owed = o /\ r.kind = k.kind /\ r.owner = k.owner
<1>1. DOMAIN r = DOMAIN k
  BY Zenon
<1>2. r.pc = k.pc /\ r.rest = k.rest
  OBVIOUS
<1>3. r.at = k.at /\ r.as = k.as
  OBVIOUS
<1>4. r.turned = t /\ r.owed = o
  OBVIOUS
<1>5. r.kind = k.kind /\ r.owner = k.owner
  OBVIOUS
<1>. QED
  BY <1>1, <1>2, <1>3, <1>4, <1>5

\* what the n-th task owes when c is disturbed
StillOwes(n, c) ==
  IF tasks[n].pc = "done" THEN tasks[n].owed ELSE Without(tasks[n].owed, c)

LEMMA DisturbIs ==
  ASSUME TasksInv, NEW c, NEW token \in BOOLEAN, Disturb(c, token)
  PROVE  /\ IsSeq(tasks') /\ Len(tasks') = Len(tasks) /\ DOMAIN tasks' = DOMAIN tasks
         /\ \A n \in DOMAIN tasks :
               /\ DOMAIN tasks'[n] = DOMAIN tasks[n] /\ tasks'[n].pc = tasks[n].pc
               /\ tasks'[n].rest = tasks[n].rest /\ tasks'[n].at = tasks[n].at
               /\ tasks'[n].as = tasks[n].as
               /\ tasks'[n].turned = (tasks[n].turned \/ (token /\ tasks[n].at.conn = c))
               /\ tasks'[n].owed = StillOwes(n, c)
               /\ tasks'[n].kind = tasks[n].kind /\ tasks'[n].owner = tasks[n].owner
<1> DEFINE o(n) == StillOwes(n, c)
           t(n) == tasks[n].turned \/ (token /\ tasks[n].at.conn = c)
           r(n) == [tasks[n] EXCEPT !.owed = o(n), !.turned = t(n)]
<1>1. tasks' = [n \in DOMAIN tasks |-> r(n)]
  BY Zenon DEF Disturb, StillOwes
<1>2. ASSUME NEW n \in DOMAIN tasks
      PROVE  /\ tasks'[n] = r(n)
             /\ DOMAIN tasks'[n] = DOMAIN tasks[n] /\ tasks'[n].pc = tasks[n].pc
             /\ tasks'[n].rest = tasks[n].rest /\ tasks'[n].at = tasks[n].at
             /\ tasks'[n].as = tasks[n].as /\ tasks'[n].turned = t(n) /\ tasks'[n].owed = o(n)
             /\ tasks'[n].kind = tasks[n].kind /\ tasks'[n].owner = tasks[n].owner
  <2>1. DOMAIN tasks[n] = {"pc", "kind", "owner", "rest", "at", "as", "turned", "owed"}
    BY <1>2 DEF TasksInv, TaskInv
  <2>2. tasks'[n] = r(n)
    <3> HIDE DEF r
    <3>. QED
      BY <1>1, <1>2, Zenon
  <2> HIDE DEF o, t
  <2>. QED
    BY <2>1, <2>2, DisturbedTask, Zenon
<1>3. DOMAIN tasks' = DOMAIN tasks /\ tasks' = [n \in DOMAIN tasks' |-> tasks'[n]]
  <2> HIDE DEF r
  <2>. QED
    BY <1>1, Zenon
<1>4. IsSeq(tasks') /\ Len(tasks') = Len(tasks)
  <2> HIDE DEF r
  <2>1. IsSeq(tasks)
    BY DEF TasksInv
  <2> DEFINE w == tasks'
  <2>2. DOMAIN w = DOMAIN tasks /\ w = [n \in DOMAIN w |-> w[n]]
    BY <1>3, Zenon
  <2> HIDE DEF w
  <2>3. IsSeq(w) /\ Len(w) = Len(tasks)
    BY <2>1, <2>2, SeqOfChange
  <2>. QED
    BY <2>3 DEF w
<1>. QED
  BY <1>2, <1>3, <1>4, Zenon

LEMMA ChangesDisturbed ==
  ASSUME TasksInv, NEW c \in Conns, NEW token \in BOOLEAN,
         Disturb(c, token), sent' = sent,
         DOMAIN conn' = Conns, DOMAIN ident' = Conns, DOMAIN expired' = Conns,
         \A d \in Conns :
             /\ conn[d] # "new" => conn'[d] # "new"
             /\ d # c \/ ~token => ident'[d] = ident[d] /\ expired'[d] = expired[d]
  PROVE  TasksInv' /\ PushIsAllowed
<1>1. /\ IsSeq(tasks') /\ Len(tasks') = Len(tasks) /\ DOMAIN tasks' = DOMAIN tasks
      /\ \A n \in DOMAIN tasks :
            /\ DOMAIN tasks'[n] = DOMAIN tasks[n] /\ tasks'[n].pc = tasks[n].pc
            /\ tasks'[n].rest = tasks[n].rest /\ tasks'[n].at = tasks[n].at
            /\ tasks'[n].as = tasks[n].as
            /\ tasks'[n].turned = (tasks[n].turned \/ (token /\ tasks[n].at.conn = c))
  BY DisturbIs
<1>2. ASSUME NEW n \in DOMAIN tasks, TaskInv(tasks[n])
      PROVE  TaskInv(tasks[n])'
  <2> DEFINE k == tasks[n]
             m == tasks'[n]
  <2>1. /\ DOMAIN m = DOMAIN k /\ m.pc = k.pc /\ m.rest = k.rest /\ m.at = k.at
        /\ m.as = k.as /\ m.turned = (k.turned \/ (token /\ k.at.conn = c))
    BY <1>1, <1>2, Zenon
  <2>2. TaskInv(k)
    BY <1>2
  <2> HIDE DEF k, m
  <2>3. /\ DOMAIN m = {"pc", "kind", "owner", "rest", "at", "as", "turned", "owed"}
        /\ \A e \in m.rest : e.conn \in Conns /\ conn'[e.conn] # "new"
    BY <2>1, <2>2 DEF TaskInv
  <2>4. ASSUME m.pc = "probe"
        PROVE  /\ m.at.conn \in Conns /\ conn'[m.at.conn] # "new"
               /\ m.turned \/ (ident'[m.at.conn] = m.as /\ ~expired'[m.at.conn])
    BY <2>1, <2>2, <2>4 DEF TaskInv
  <2>. QED
    BY <2>3, <2>4 DEF TaskInv, m
<1>. QED
  BY <1>1, <1>2, ChangesKept

\* connections come, end, speak, rotate their tokens
LEMMA ChangesRegister ==
  ASSUME TasksInv, NEW c \in Conns, NEW i, Register(c, i)
  PROVE  TasksInv' /\ PushIsAllowed
<1>1. /\ conn[c] = "new" /\ conn' = [conn EXCEPT ![c] = "open"] /\ ident' = [ident EXCEPT ![c] = i]
      /\ expired' = expired /\ tasks' = tasks /\ sent' = sent
  BY Zenon DEF Register, dataVars
<1>2. DOMAIN conn = Conns /\ DOMAIN ident = Conns /\ DOMAIN expired = Conns
  BY DEF TasksInv
<1>3. DOMAIN conn' = Conns /\ DOMAIN ident' = Conns /\ DOMAIN expired' = Conns
  BY <1>1, <1>2
<1>4. \A d \in Conns : conn[d] # "new" =>
         conn'[d] # "new" /\ ident'[d] = ident[d] /\ expired'[d] = expired[d]
  BY <1>1, <1>2
<1>. QED
  BY <1>1, <1>3, <1>4, ChangesOfConns

LEMMA ChangesCut ==
  ASSUME TasksInv, NEW c \in Conns, Cut(c)
  PROVE  TasksInv' /\ PushIsAllowed
<1>1. /\ conn' = [conn EXCEPT ![c] = "leaked"]
      /\ ident' = ident /\ expired' = expired /\ tasks' = tasks /\ sent' = sent
  BY Zenon DEF Cut, dataVars
<1>2. DOMAIN conn = Conns /\ DOMAIN ident = Conns /\ DOMAIN expired = Conns
  BY DEF TasksInv
<1>3. DOMAIN conn' = Conns /\ DOMAIN ident' = Conns /\ DOMAIN expired' = Conns
  BY <1>1, <1>2
<1>4. \A d \in Conns : conn[d] # "new" =>
         conn'[d] # "new" /\ ident'[d] = ident[d] /\ expired'[d] = expired[d]
  BY <1>1, <1>2
<1>. QED
  BY <1>1, <1>3, <1>4, ChangesOfConns

\* what concerns no task, nor who is connected
LEMMA ChangesQuiet ==
  ASSUME TasksInv, conn' = conn, ident' = ident, expired' = expired, tasks' = tasks, sent' = sent
  PROVE  TasksInv' /\ PushIsAllowed
<1>2. DOMAIN conn = Conns /\ DOMAIN ident = Conns /\ DOMAIN expired = Conns
  BY DEF TasksInv
<1>3. DOMAIN conn' = Conns /\ DOMAIN ident' = Conns /\ DOMAIN expired' = Conns
  BY <1>2
<1>4. \A d \in Conns : conn[d] # "new" =>
         conn'[d] # "new" /\ ident'[d] = ident[d] /\ expired'[d] = expired[d]
  OBVIOUS
<1>. QED
  BY <1>3, <1>4, ChangesOfConns

LEMMA ChangesUnregister ==
  ASSUME TasksInv, NEW c \in Conns, Unregister(c)
  PROVE  TasksInv' /\ PushIsAllowed
<1>1. /\ conn' = [conn EXCEPT ![c] = "gone"] /\ ident' = ident /\ expired' = expired /\ sent' = sent
      /\ Disturb(c, FALSE)
  BY Zenon DEF Unregister
<1>2. DOMAIN conn = Conns /\ DOMAIN ident = Conns /\ DOMAIN expired = Conns
  BY DEF TasksInv
<1>3. DOMAIN conn' = Conns /\ DOMAIN ident' = Conns /\ DOMAIN expired' = Conns
  BY <1>1, <1>2
<1>4. \A d \in Conns : conn[d] # "new" => conn'[d] # "new"
  BY <1>1, <1>2
<1>. QED
  BY <1>1, <1>3, <1>4, FALSE \in BOOLEAN, ChangesDisturbed

LEMMA ChangesTapSubscribe ==
  ASSUME TasksInv, NEW c \in Conns, NEW t, TapSubscribe(c, t)
  PROVE  TasksInv' /\ PushIsAllowed
<1>1. conn' = conn /\ ident' = ident /\ expired' = expired /\ sent' = sent /\ Disturb(c, FALSE)
  BY Zenon DEF TapSubscribe
<1>2. DOMAIN conn' = Conns /\ DOMAIN ident' = Conns /\ DOMAIN expired' = Conns
  BY <1>1 DEF TasksInv
<1>. QED
  BY <1>1, <1>2, FALSE \in BOOLEAN, ChangesDisturbed

LEMMA ChangesLeave ==
  ASSUME TasksInv, NEW c \in Conns, NEW t, Leave(c, t)
  PROVE  TasksInv' /\ PushIsAllowed
<1>1. conn' = conn /\ ident' = ident /\ expired' = expired /\ sent' = sent /\ Disturb(c, FALSE)
  BY Zenon DEF Leave
<1>2. DOMAIN conn' = Conns /\ DOMAIN ident' = Conns /\ DOMAIN expired' = Conns
  BY <1>1 DEF TasksInv
<1>. QED
  BY <1>1, <1>2, FALSE \in BOOLEAN, ChangesDisturbed

LEMMA ChangesRotate ==
  ASSUME TasksInv, NEW c \in Conns, NEW i, Rotate(c, i),
         conn' = conn, sent' = sent, Disturb(c, TRUE)
  PROVE  TasksInv' /\ PushIsAllowed
<1>1. ident' = [ident EXCEPT ![c] = i] /\ expired' = [expired EXCEPT ![c] = FALSE]
  BY Zenon DEF Rotate
<1>2. DOMAIN conn = Conns /\ DOMAIN ident = Conns /\ DOMAIN expired = Conns
  BY DEF TasksInv
<1>3. DOMAIN conn' = Conns /\ DOMAIN ident' = Conns /\ DOMAIN expired' = Conns
  BY <1>1, <1>2
<1>4. \A d \in Conns :
         /\ conn[d] # "new" => conn'[d] # "new"
         /\ d # c \/ ~TRUE => ident'[d] = ident[d] /\ expired'[d] = expired[d]
  BY <1>1, <1>2
<1>. QED
  BY <1>3, <1>4, TRUE \in BOOLEAN, ChangesDisturbed

LEMMA ChangesJoin ==
  ASSUME TasksInv, NEW c \in Conns, NEW t, NEW wants, NEW i,
         Join(c, t, wants, i)
  PROVE  TasksInv' /\ PushIsAllowed
<1> DEFINE b == i # NoToken
<1>1. conn' = conn /\ sent' = sent /\ Disturb(c, b)
  BY Zenon DEF Join
<1>2. \/ i = NoToken /\ ident' = ident /\ expired' = expired
      \/ i # NoToken /\ Rotate(c, i)
  BY Zenon DEF Join
<1>3. b \in BOOLEAN /\ (b => Rotate(c, i)) /\ (~b => ident' = ident /\ expired' = expired)
  BY <1>2
<1> HIDE DEF b
<1>4. DOMAIN conn = Conns /\ DOMAIN ident = Conns /\ DOMAIN expired = Conns
  BY DEF TasksInv
<1>5. /\ DOMAIN ident' = Conns /\ DOMAIN expired' = Conns
      /\ \A d \in Conns : d # c \/ ~b => ident'[d] = ident[d] /\ expired'[d] = expired[d]
  BY <1>3, <1>4 DEF Rotate
<1>. QED
  BY <1>1, <1>3, <1>4, <1>5, ChangesDisturbed

LEMMA ChangesAccessToken ==
  ASSUME TasksInv, NEW c \in Conns, NEW i, AccessToken(c, i)
  PROVE  TasksInv' /\ PushIsAllowed
<1>1. conn' = conn /\ sent' = sent /\ Disturb(c, TRUE) /\ Rotate(c, i)
  BY Zenon DEF AccessToken
<1>. QED
  BY <1>1, ChangesRotate

LEMMA ChangesExpire ==
  ASSUME TasksInv, NEW c \in Conns, Expire(c)
  PROVE  TasksInv' /\ PushIsAllowed
<1>1. /\ conn' = conn /\ ident' = ident /\ expired' = [expired EXCEPT ![c] = TRUE] /\ sent' = sent
      /\ Disturb(c, TRUE)
  BY Zenon DEF Expire
<1>2. DOMAIN conn = Conns /\ DOMAIN ident = Conns /\ DOMAIN expired = Conns
  BY DEF TasksInv
<1>3. DOMAIN conn' = Conns /\ DOMAIN ident' = Conns /\ DOMAIN expired' = Conns
  BY <1>1, <1>2
<1>4. \A d \in Conns :
         /\ conn[d] # "new" => conn'[d] # "new"
         /\ d # c \/ ~TRUE => ident'[d] = ident[d] /\ expired'[d] = expired[d]
  BY <1>1, <1>2
<1>. QED
  BY <1>1, <1>3, <1>4, TRUE \in BOOLEAN, ChangesDisturbed

\* tasks and what they send.  A task begins at the collection or before it.
LEMMA CollectedTask ==
  ASSUME NEW k, DOMAIN k = {"pc", "kind", "owner", "rest", "at", "as", "turned", "owed"}
  PROVE  TaskInv(Collected(k))
<1> DEFINE all == UNION {{[conn |-> c, id |-> s.id] : s \in Matching(c, k)} : c \in Open}
           pc == IF all = {} THEN "done" ELSE "next"
           owed == Owed(k)
<1>1. Collected(k) = [k EXCEPT !.pc = pc, !.rest = all, !.owed = owed]
  BY Zenon DEF Collected
<1>2. pc # "probe"
  OBVIOUS
<1>3. \A e \in all : e.conn \in Conns /\ conn[e.conn] # "new"
  BY DEF Open
<1> HIDE DEF all, pc, owed
<1> DEFINE m == [k EXCEPT !.pc = pc, !.rest = all, !.owed = owed]
<1>4. DOMAIN m = DOMAIN k
  BY Zenon
<1>5. m.pc = pc /\ m.rest = all
  OBVIOUS
<1> HIDE DEF m
<1>6. TaskInv(m)
  BY <1>2, <1>3, <1>4, <1>5 DEF TaskInv
<1>. QED
  BY <1>1, <1>6 DEF m

LEMMA OnwardTask ==
  ASSUME NEW k, NEW e, TaskInv(k)
  PROVE  TaskInv(Onward(k, e))
<1> DEFINE pc == IF k.rest = {e} THEN "done" ELSE "next"
           rest == k.rest \ {e}
<1>1. Onward(k, e) =
         [k EXCEPT !.rest = rest, !.pc = pc, !.at = NoOne, !.as = Anon,
                   !.turned = FALSE]
  BY Zenon DEF Onward
<1>2. pc # "probe" /\ (\A x \in rest : x \in k.rest)
  OBVIOUS
<1> HIDE DEF pc, rest
<1> DEFINE m == [k EXCEPT !.rest = rest, !.pc = pc, !.at = NoOne, !.as = Anon,
                          !.turned = FALSE]
<1>3. DOMAIN m = DOMAIN k
  BY Zenon
<1>4. DOMAIN k = {"pc", "kind", "owner", "rest", "at", "as", "turned", "owed"}
  BY DEF TaskInv
<1>5. m.pc = pc /\ m.rest = rest
  BY <1>4
<1> HIDE DEF m
<1>6. TaskInv(m)
  BY <1>2, <1>3, <1>5 DEF TaskInv
<1>. QED
  BY <1>1, <1>6 DEF m

\* one task goes on, and may send one frame
LEMMA ChangesOneTask ==
  ASSUME TasksInv, NEW n \in DOMAIN tasks, NEW m,
         tasks' = [tasks EXCEPT ![n] = m], TaskInv(m),
         conn' = conn, ident' = ident, expired' = expired,
         \/ sent' = sent
         \/ \E x : /\ sent' = [sent EXCEPT ![n] = Append(@, x)]
                   /\ Entitled(x[1], tasks[n]) \/ tasks[n].turned
  PROVE  TasksInv' /\ PushIsAllowed
<1>1. /\ DOMAIN conn' = Conns /\ DOMAIN ident' = Conns
      /\ DOMAIN expired' = Conns
      /\ IsSeq(tasks) /\ IsSeq(sent) /\ Len(sent) = Len(tasks)
      /\ \A j \in DOMAIN sent : IsSeq(sent[j])
      /\ \A j \in DOMAIN tasks : TaskInv(tasks[j])
  BY DEF TasksInv
<1>2. IsSeq(tasks') /\ Len(tasks') = Len(tasks) /\ DOMAIN tasks' = DOMAIN tasks
  <2> DEFINE w == [tasks EXCEPT ![n] = m]
  <2>1. DOMAIN w = DOMAIN tasks /\ w = [j \in DOMAIN w |-> w[j]]
    BY Zenon
  <2> HIDE DEF w
  <2>2. IsSeq(w) /\ Len(w) = Len(tasks)
    BY <1>1, <2>1, SeqOfChange
  <2>. QED
    BY <2>1, <2>2 DEF w
<1>3. ASSUME NEW j \in DOMAIN tasks
      PROVE  TaskInv(tasks[j])'
  <2>1. TaskInv(tasks'[j])
    BY <1>1, <1>3
  <2>. QED
    BY <2>1 DEF TaskInv
<1>4. CASE sent' = sent
  BY <1>1, <1>2, <1>3, <1>4 DEF TasksInv, PushIsAllowed
<1>5. CASE sent' # sent
  <2>1. PICK x : /\ sent' = [sent EXCEPT ![n] = Append(sent[n], x)]
                 /\ Entitled(x[1], tasks[n]) \/ tasks[n].turned
    BY <1>5
  <2>2. DOMAIN tasks = DOMAIN sent
    BY <1>1 DEF IsSeq
  <2>3. n \in DOMAIN sent
    BY <2>2
  <2> DEFINE a == Append(sent[n], x)
             w == [sent EXCEPT ![n] = a]
  <2>4. IsSeq(a) /\ a[Len(a)] = x
    BY <1>1, <2>3, SeqOfAppend
  <2> HIDE DEF a
  <2>5. /\ DOMAIN w = DOMAIN sent /\ w = [j \in DOMAIN w |-> w[j]]
        /\ w[n] = a /\ \A j \in DOMAIN sent : j # n => w[j] = sent[j]
    BY <2>3, Zenon
  <2>6. sent' = w
    BY <2>1 DEF a
  <2> HIDE DEF w
  <2>7. IsSeq(w) /\ Len(w) = Len(sent)
    BY <1>1, <2>5, SeqOfChange
  <2>8. TasksInv'
    BY <1>1, <1>2, <1>3, <2>4, <2>5, <2>6, <2>7 DEF TasksInv
  <2>9. PushIsAllowed
    BY <2>1, <2>4, <2>5, <2>6, <2>2 DEF PushIsAllowed
  <2>. QED
    BY <2>8, <2>9
<1>. QED
  BY <1>4, <1>5

LEMMA ChangesNotify ==
  ASSUME TasksInv, NEW kind, NEW owner, Notify(kind, owner)
  PROVE  TasksInv' /\ PushIsAllowed
<1> DEFINE k == [pc |-> "lookup", kind |-> kind, owner |-> owner, rest |-> {},
                 at |-> NoOne, as |-> Anon, turned |-> FALSE, owed |-> {}]
           m == IF cached THEN Collected(k) ELSE k
<1>1. /\ tasks' = Append(tasks, m) /\ sent' = Append(sent, <<>>)
      /\ conn' = conn /\ ident' = ident /\ expired' = expired
  BY Zenon DEF Notify, sessionVars
<1>2. TaskInv(k)
  BY DEF TaskInv
<1>3. TaskInv(Collected(k))
  <2>1. DOMAIN k = {"pc", "kind", "owner", "rest", "at", "as", "turned", "owed"}
    OBVIOUS
  <2> HIDE DEF k
  <2>. QED
    BY <2>1, CollectedTask
<1> HIDE DEF k
<1>4. TaskInv(m)
  BY <1>2, <1>3
<1> HIDE DEF m
<1>5. /\ DOMAIN conn' = Conns /\ DOMAIN ident' = Conns
      /\ DOMAIN expired' = Conns
      /\ IsSeq(tasks) /\ IsSeq(sent) /\ Len(sent) = Len(tasks)
      /\ \A j \in DOMAIN sent : IsSeq(sent[j])
      /\ \A j \in DOMAIN tasks : TaskInv(tasks[j])
  BY <1>1 DEF TasksInv
<1> DEFINE w == Append(tasks, m)
           z == Append(sent, <<>>)
<1>6. /\ IsSeq(w) /\ Len(w) = Len(tasks) + 1
      /\ \A j \in DOMAIN w : TaskInv(w[j])
  BY <1>4, <1>5, SeqOfAppend
<1>7. IsSeq(<<>>)
  BY DEF IsSeq
<1>8. /\ IsSeq(z) /\ Len(z) = Len(sent) + 1
      /\ \A j \in DOMAIN z : IsSeq(z[j])
      /\ \A j \in DOMAIN sent : z[j] = sent[j]
      /\ DOMAIN sent = DOMAIN tasks
  BY <1>5, <1>7, SeqOfAppend
<1>9. tasks' = w /\ sent' = z
  BY <1>1
<1> HIDE DEF w, z
<1>10. \A j \in DOMAIN tasks' : TaskInv(tasks[j])'
  BY <1>1, <1>6, <1>9 DEF TaskInv
<1>11. TasksInv'
  BY <1>5, <1>6, <1>8, <1>9, <1>10 DEF TasksInv
<1>12. PushIsAllowed
  BY <1>8, <1>9 DEF PushIsAllowed
<1>. QED
  BY <1>11, <1>12

LEMMA ChangesLookup ==
  ASSUME TasksInv, NEW n \in DOMAIN tasks, Lookup(n)
  PROVE  TasksInv' /\ PushIsAllowed
<1>1. /\ tasks' = [tasks EXCEPT ![n] = Collected(tasks[n])] /\ sent' = sent
      /\ conn' = conn /\ ident' = ident /\ expired' = expired
  BY Zenon DEF Lookup, sessionVars
<1>2. DOMAIN tasks[n] = {"pc", "kind", "owner", "rest", "at", "as", "turned", "owed"}
  BY DEF TasksInv, TaskInv
<1>3. TaskInv(Collected(tasks[n]))
  BY <1>2, CollectedTask
<1>. QED
  BY <1>1, <1>3, ChangesOneTask

\* a frame is pushed to whom its change may be told
LEMMA ChangesPush ==
  ASSUME TasksInv, NEW n \in DOMAIN tasks, NEW e, Push(n, e),
         conn' = conn, ident' = ident, expired' = expired,
         Entitled(e.conn, tasks[n]) \/ tasks[n].turned
  PROVE  TasksInv' /\ PushIsAllowed
<1> DEFINE x == <<e.conn, TopicFor(e.conn, tasks[n]), e.id>>
<1>1. tasks' = [tasks EXCEPT ![n] = Onward(tasks[n], e)]
  BY Zenon DEF Push
<1>2. sent' = sent \/ sent' = [sent EXCEPT ![n] = Append(sent[n], x)]
  BY Zenon DEF Push
<1>3. x[1] = e.conn
  OBVIOUS
<1>4. TaskInv(Onward(tasks[n], e))
  <2>1. TaskInv(tasks[n])
    BY DEF TasksInv
  <2>. QED
    BY <2>1, OnwardTask
<1> HIDE DEF x
<1>5. Entitled(x[1], tasks[n]) \/ tasks[n].turned
  BY <1>3
<1>. QED
  BY <1>1, <1>2, <1>4, <1>5, ChangesOneTask

LEMMA ChangesAuthorize ==
  ASSUME TasksInv, NEW n \in DOMAIN tasks, NEW e \in tasks[n].rest,
         Authorize(n, e)
  PROVE  TasksInv' /\ PushIsAllowed
<1>1. conn' = conn /\ ident' = ident /\ expired' = expired
  BY Zenon DEF Authorize, sessionVars
<1>2. TaskInv(tasks[n])
  BY DEF TasksInv
<1>3. CASE NeedsProbe(e.conn, tasks[n])
  <2> DEFINE m == [tasks[n] EXCEPT !.pc = "probe", !.at = e, !.as = ident[e.conn]]
  <2>1. tasks' = [tasks EXCEPT ![n].pc = "probe", ![n].at = e, ![n].as = ident[e.conn]] /\ sent' = sent
    BY <1>3, Zenon DEF Authorize
  <2>2. tasks' = [tasks EXCEPT ![n] = m]
    BY <2>1
  <2>3. DOMAIN m = DOMAIN tasks[n]
    BY Zenon
  <2>4. m.rest = tasks[n].rest /\ m.at = e /\ m.as = ident[e.conn] /\ m.turned = tasks[n].turned
    BY <1>2 DEF TaskInv
  <2>5. e.conn \in Conns /\ conn[e.conn] # "new" /\ ~expired[e.conn]
    BY <1>2, <1>3 DEF TaskInv, NeedsProbe
  <2> HIDE DEF m
  <2>6. TaskInv(m)
    BY <1>2, <2>3, <2>4, <2>5 DEF TaskInv
  <2>. QED
    BY <1>1, <2>1, <2>2, <2>6, ChangesOneTask
<1>4. CASE ~NeedsProbe(e.conn, tasks[n]) /\ Allowed(e.conn, tasks[n])
  <2>1. Push(n, e)
    BY <1>4, Zenon DEF Authorize
  <2>2. Entitled(e.conn, tasks[n])
    BY <1>4 DEF Allowed, Entitled
  <2>. QED
    BY <1>1, <2>1, <2>2, ChangesPush
<1>5. CASE ~NeedsProbe(e.conn, tasks[n]) /\ ~Allowed(e.conn, tasks[n])
  <2>1. tasks' = [tasks EXCEPT ![n] = Onward(tasks[n], e)] /\ sent' = sent
    BY <1>5, Zenon DEF Authorize, Skip
  <2>2. TaskInv(Onward(tasks[n], e))
    BY <1>2, OnwardTask
  <2>. QED
    BY <1>1, <2>1, <2>2, ChangesOneTask
<1>. QED
  BY <1>3, <1>4, <1>5

\* the database says yes of the token it was asked with
LEMMA ChangesProbed ==
  ASSUME TasksInv, NEW n \in DOMAIN tasks, NEW yes \in BOOLEAN,
         Probed(n, yes)
  PROVE  TasksInv' /\ PushIsAllowed
<1> DEFINE e == tasks[n].at
<1>1. conn' = conn /\ ident' = ident /\ expired' = expired /\ tasks[n].pc = "probe"
  BY Zenon DEF Probed, sessionVars
<1>2. TaskInv(tasks[n])
  BY DEF TasksInv
<1>3. CASE yes
  <2>1. Push(n, e) /\ tasks[n].as = tasks[n].owner
    BY <1>3, Zenon DEF Probed
  <2>2. tasks[n].turned \/ (ident[e.conn] = tasks[n].as /\ ~expired[e.conn])
    BY <1>1, <1>2 DEF TaskInv
  <2>3. Entitled(e.conn, tasks[n]) \/ tasks[n].turned
    BY <2>1, <2>2 DEF Entitled
  <2> HIDE DEF e
  <2>. QED
    BY <1>1, <2>1, <2>3, ChangesPush
<1>4. CASE ~yes
  <2> DEFINE k == Onward(tasks[n], e)
             o == Without(k.owed, e.conn)
             m == [k EXCEPT !.owed = o]
  <2>1. tasks' = [tasks EXCEPT ![n] = m] /\ sent' = sent
    BY <1>4, Zenon DEF Probed
  <2>2. TaskInv(k)
    BY <1>2, OnwardTask
  <2>3. k.pc # "probe"
    <3>1. DOMAIN tasks[n] = {"pc", "kind", "owner", "rest", "at", "as", "turned", "owed"}
      BY <1>2 DEF TaskInv
    <3>. QED
      BY <3>1 DEF Onward
  <2> HIDE DEF k, o
  <2>4. DOMAIN m = DOMAIN k
    BY Zenon
  <2>5. m.pc = k.pc /\ m.rest = k.rest
    BY <2>2 DEF TaskInv
  <2> HIDE DEF m
  <2>6. TaskInv(m)
    BY <2>2, <2>3, <2>4, <2>5 DEF TaskInv
  <2>. QED
    BY <1>1, <2>1, <2>6, ChangesOneTask
<1>. QED
  BY <1>3, <1>4

\* no other step concerns a task
LEMMA ChangesNext ==
  ASSUME TasksInv, [Next]_rtVars
  PROVE  TasksInv' /\ PushIsAllowed
<1>1. ASSUME NEW kind \in Kinds, NEW u \in Users, Notify(kind, u)
      PROVE  TasksInv' /\ PushIsAllowed
  BY <1>1, ChangesNotify
<1>2. ASSUME NEW n \in DOMAIN tasks,
             \/ Lookup(n)
             \/ \E e \in tasks[n].rest : Authorize(n, e)
             \/ \E yes \in BOOLEAN : Probed(n, yes)
      PROVE  TasksInv' /\ PushIsAllowed
  BY <1>2, ChangesLookup, ChangesAuthorize, ChangesProbed
<1>3. ASSUME NEW c \in Conns,
             \/ \E i \in IF c \in Taps THEN {Service} ELSE Idents :
                   Register(c, i)
             \/ Unregister(c) \/ Cut(c) \/ Expire(c)
             \/ \E i \in Idents : AccessToken(c, i)
      PROVE  TasksInv' /\ PushIsAllowed
  BY <1>3, ChangesRegister, ChangesUnregister, ChangesCut, ChangesExpire, ChangesAccessToken
<1>4. ASSUME NEW c \in Conns, NEW t \in Topics,
             \/ TapSubscribe(c, t) \/ Leave(c, t)
             \/ \E wants \in Filters, i \in Idents \cup {NoToken} :
                   Join(c, t, wants, i)
      PROVE  TasksInv' /\ PushIsAllowed
  BY <1>4, ChangesTapSubscribe, ChangesLeave, ChangesJoin
<1>5. ASSUME \/ \E c \in Conns : Reply(c) \/ Drain(c)
             \/ \E c \in Sockets, t \in Topics :
                   Track(c, t) \/ Untrack(c, t)
             \/ \E t, others : Broadcast(t, others)
             \/ UNCHANGED rtVars
      PROVE  TasksInv' /\ PushIsAllowed
  <2>1. CASE UNCHANGED rtVars
    <3>1. conn' = conn /\ ident' = ident /\ expired' = expired /\ tasks' = tasks /\ sent' = sent
      BY <2>1, Zenon DEF rtVars, sessionVars, dataVars
    <3>. QED
      BY <3>1, ChangesQuiet
  <2>2. ASSUME NEW c, Reply(c) \/ Drain(c)
        PROVE  conn' = conn /\ ident' = ident /\ expired' = expired /\ tasks' = tasks /\ sent' = sent
    BY <2>2, Zenon DEF Reply, Drain, sessionVars
  <2>3. ASSUME NEW c, NEW t, Track(c, t) \/ Untrack(c, t)
        PROVE  conn' = conn /\ ident' = ident /\ expired' = expired /\ tasks' = tasks /\ sent' = sent
    BY <2>3, Zenon DEF Track, Untrack, sessionVars
  <2>4. ASSUME NEW t, NEW others, Broadcast(t, others)
        PROVE  conn' = conn /\ ident' = ident /\ expired' = expired /\ tasks' = tasks /\ sent' = sent
    BY <2>4, Zenon DEF Broadcast, sessionVars
  <2>. QED
    BY <1>5, <2>1, <2>2, <2>3, <2>4, ChangesQuiet
<1>6. Sockets \subseteq Conns /\ Taps \subseteq Conns
  BY DEF Conns
<1>. QED
  BY <1>1, <1>2, <1>3, <1>4, <1>5, <1>6, Zenon DEF Next

-----------------------------------------------------------------------------
(* Who is owed a change.                                                   *)

Unmoved(c) ==
  conn'[c] = conn[c] /\ ident'[c] = ident[c] /\ expired'[c] = expired[c] /\ subs'[c] = subs[c]

SameChange(n) == tasks'[n].kind = tasks[n].kind /\ tasks'[n].owner = tasks[n].owner

LEMMA StillOwedKept ==
  ASSUME NEW n, NEW p, SameChange(n), Unmoved(p[1]), StillOwed(tasks[n], p)
  PROVE  StillOwed(tasks[n], p)'
BY DEF SameChange, Unmoved, StillOwed, Entitled, Matching, Wants

\* a task keeps its recipients, and sends nothing
Waits(n) ==
  /\ SameChange(n) /\ tasks'[n].rest = tasks[n].rest /\ tasks'[n].owed \subseteq tasks[n].owed
  /\ sent'[n] = sent[n]
  /\ \/ tasks'[n].pc = tasks[n].pc /\ tasks'[n].at = tasks[n].at
     \/ tasks[n].pc = "next" /\ tasks'[n].pc = "probe" /\ tasks'[n].at \in tasks[n].rest
  /\ tasks[n].pc # "done" => \A p \in tasks'[n].owed : Unmoved(p[1])

LEMMA OwedWaits ==
  ASSUME NEW n, OwedTo(n), Waits(n)
  PROVE  OwedTo(n)'
<1>1. /\ tasks'[n].pc = "lookup" => tasks'[n].owed = {} /\ sent'[n] = <<>>
      /\ tasks'[n].pc = "done" => tasks'[n].rest = {}
      /\ tasks'[n].pc = "probe" => tasks'[n].at \in tasks'[n].rest
      /\ tasks'[n].pc # "done" => tasks[n].pc # "done"
  BY DEF OwedTo, Waits
<1>2. ASSUME NEW p \in tasks'[n].owed
      PROVE  /\ p[1] \in Conns /\ Delivered(n, p)'
             /\ tasks'[n].pc # "done" => StillOwed(tasks[n], p)'
  <2>1. /\ p[1] \in Conns /\ Delivered(n, p)
        /\ tasks[n].pc # "done" => StillOwed(tasks[n], p) /\ Unmoved(p[1])
    BY <1>2 DEF OwedTo, Waits
  <2>2. RestOf(tasks[n], p[1])' = RestOf(tasks[n], p[1]) /\ SentTo(n, p[1])' = SentTo(n, p[1])
    BY DEF Waits, RestOf, SentTo
  <2>3. Delivered(n, p)'
    BY <2>1, <2>2 DEF Delivered, Waits
  <2>. QED
    BY <1>1, <2>1, <2>3, StillOwedKept DEF Waits
<1>. QED
  BY <1>1, <1>2 DEF OwedTo

\* a task is done with one recipient
Goes(n, e) ==
  /\ SameChange(n) /\ tasks'[n].rest = tasks[n].rest \ {e} /\ tasks'[n].owed \subseteq tasks[n].owed
  /\ tasks[n].pc # "done" /\ tasks'[n].pc = IF tasks[n].rest = {e} THEN "done" ELSE "next"
  /\ \A c \in Conns : Unmoved(c)

LEMMA OwedGoes ==
  ASSUME NEW n, NEW e \in tasks[n].rest, OwedTo(n), Goes(n, e),
         \A p \in tasks'[n].owed :
            Delivered(n, p) /\ StillOwed(tasks[n], p) => Delivered(n, p)'
  PROVE  OwedTo(n)'
<1>1. /\ tasks'[n].pc # "lookup" /\ tasks'[n].pc # "probe"
      /\ tasks'[n].pc = "done" => tasks'[n].rest = {}
  BY DEF Goes
<1>2. ASSUME NEW p \in tasks'[n].owed
      PROVE  p[1] \in Conns /\ Delivered(n, p)' /\ StillOwed(tasks[n], p)'
  <2>1. p[1] \in Conns /\ Delivered(n, p) /\ StillOwed(tasks[n], p) /\ Unmoved(p[1])
    BY <1>2 DEF OwedTo, Goes
  <2>. QED
    BY <1>2, <2>1, StillOwedKept DEF Goes
<1>. QED
  BY <1>1, <1>2 DEF OwedTo

\* who is not the recipient
LEMMA OthersDelivered ==
  ASSUME NEW n, NEW e, NEW p, p[1] # e.conn, tasks'[n].rest = tasks[n].rest \ {e},
         Delivered(n, p), IsSeq(sent[n]),
         sent'[n] = sent[n] \/ \E x : sent'[n] = Append(sent[n], x) /\ x[1] = e.conn
  PROVE  Delivered(n, p)'
<1>1. RestOf(tasks[n], p[1])' = RestOf(tasks[n], p[1])
  BY DEF RestOf
<1>2. SentTo(n, p[1])' = SentTo(n, p[1]) /\ \A i \in SentTo(n, p[1]) : sent'[n][i] = sent[n][i]
  <2>1. CASE sent'[n] = sent[n]
    BY <2>1 DEF SentTo
  <2>2. ASSUME NEW x, sent'[n] = Append(sent[n], x), x[1] = e.conn
        PROVE  SentTo(n, p[1])' = SentTo(n, p[1]) /\ \A i \in SentTo(n, p[1]) : sent'[n][i] = sent[n][i]
    <3> DEFINE s == sent[n]
               r == sent'[n]
    <3>1. /\ r[Len(s) + 1] = x
          /\ \A i \in DOMAIN s : i \in DOMAIN r /\ r[i] = s[i]
          /\ \A i \in DOMAIN r : i \in DOMAIN s \/ i = Len(s) + 1
      BY <2>2, SeqOfAppend
    <3>2. {i \in DOMAIN r : r[i][1] = p[1]} = {i \in DOMAIN s : s[i][1] = p[1]}
      <4> HIDE DEF r, s
      <4>. QED
        BY <2>2, <3>1
    <3>. QED
      BY <3>1, <3>2 DEF SentTo
  <2>. QED
    BY <2>1, <2>2
<1>. QED
  BY <1>1, <1>2 DEF Delivered

\* the recipient, which is sent what it is owed
LEMMA RecipientDelivered ==
  ASSUME SubsInv, NEW n, NEW e \in tasks[n].rest, NEW p, p[1] = e.conn, p[1] \in Conns,
         tasks'[n].rest = tasks[n].rest \ {e},
         Delivered(n, p), StillOwed(tasks[n], p), IsSeq(sent[n]),
         sent'[n] = Append(sent[n], <<e.conn, TopicFor(e.conn, tasks[n]), e.id>>)
  PROVE  Delivered(n, p)'
<1> DEFINE c == e.conn
           x == <<c, TopicFor(c, tasks[n]), e.id>>
           s == sent[n]
           r == sent'[n]
<1>1. e \in RestOf(tasks[n], c)
  BY DEF RestOf
<1>2. RestOf(tasks[n], c) = {[conn |-> c, id |-> p[3]]} /\ SentTo(n, c) = {}
  BY <1>1 DEF Delivered
<1>3. e = [conn |-> c, id |-> p[3]] /\ RestOf(tasks[n], c)' = {}
  <2>1. RestOf(tasks[n], c) = {e}
    BY <1>1, <1>2
  <2>2. {f \in tasks'[n].rest : f.conn = c} = {}
    BY <2>1 DEF RestOf
  <2>. QED
    BY <1>2, <2>1, <2>2 DEF RestOf
<1>4. e.id = p[3]
  BY <1>3
<1>5. PICK q \in subs[c] : Matching(c, tasks[n]) = {q} /\ p = <<c, q.topic, q.id>>
  BY DEF StillOwed
<1>6. First({q}) = q
  <2>1. q.id \in Nat
    BY <1>5 DEF SubsInv
  <2>2. q.id <= q.id
    BY <2>1
  <2>. QED
    BY <2>2 DEF First
<1>7. x = p
  <2>1. TopicFor(c, tasks[n]) = q.topic
    BY <1>5, <1>6 DEF TopicFor
  <2>2. p[3] = q.id
    BY <1>5
  <2>. QED
    BY <1>4, <1>5, <2>1, <2>2
<1> HIDE DEF x
<1>8. /\ r[Len(s) + 1] = x /\ Len(s) + 1 \in DOMAIN r
      /\ \A i \in DOMAIN s : r[i] = s[i]
      /\ \A i \in DOMAIN r : i \in DOMAIN s \/ i = Len(s) + 1
  <2> DEFINE z == Append(s, x)
  <2>1. /\ z[Len(s) + 1] = x /\ Len(z) = Len(s) + 1 /\ IsSeq(z)
        /\ \A i \in DOMAIN s : z[i] = s[i]
        /\ \A i \in DOMAIN z : i \in DOMAIN s \/ i = Len(s) + 1
    BY SeqOfAppend
  <2>2. r = z
    BY DEF x
  <2> HIDE DEF z, s
  <2>3. Len(s) + 1 \in DOMAIN z
    <3>1. Len(z) \in Nat /\ DOMAIN z = 1 .. Len(z)
      BY <2>1, SeqIs
    <3>2. Len(s) \in Nat
      BY SeqIs DEF s
    <3>. QED
      BY <2>1, <3>1, <3>2
  <2>. QED
    BY <2>1, <2>2, <2>3
<1>9. \A i \in DOMAIN s : s[i][1] # c
  BY <1>2 DEF SentTo
<1>10. SentTo(n, c)' = {Len(s) + 1}
  <2>1. x[1] = c
    BY DEF x
  <2>2. {i \in DOMAIN r : r[i][1] = c} = {Len(s) + 1}
    <3> HIDE DEF r, s
    <3>. QED
      BY <1>8, <1>9, <2>1
  <2>. QED
    BY <2>2 DEF SentTo
<1>. QED
  BY <1>3, <1>7, <1>8, <1>10 DEF Delivered

LEMMA OnwardIs ==
  ASSUME NEW k, NEW e, TaskInv(k), NEW m, m = Onward(k, e)
  PROVE  /\ m.rest = k.rest \ {e} /\ m.pc = IF k.rest = {e} THEN "done" ELSE "next"
         /\ m.kind = k.kind /\ m.owner = k.owner /\ m.owed = k.owed
<1>1. DOMAIN k = {"pc", "kind", "owner", "rest", "at", "as", "turned", "owed"}
  BY DEF TaskInv
<1> DEFINE pc == IF k.rest = {e} THEN "done" ELSE "next"
           rest == k.rest \ {e}
<1>2. m = [k EXCEPT !.rest = rest, !.pc = pc, !.at = NoOne, !.as = Anon, !.turned = FALSE]
  BY Zenon DEF Onward
<1> HIDE DEF pc, rest
<1>3. m.rest = rest /\ m.pc = pc
  BY <1>1, <1>2
<1>4. m.kind = k.kind /\ m.owner = k.owner /\ m.owed = k.owed
  BY <1>1, <1>2
<1>. QED
  BY <1>3, <1>4 DEF pc, rest

\* n goes on: the others wait
LEMMA OwedOne ==
  ASSUME TasksInv, \A j \in DOMAIN tasks : OwedTo(j), NEW n \in DOMAIN tasks,
         NEW m, tasks' = [tasks EXCEPT ![n] = m], \A c : Unmoved(c),
         sent' = sent \/ \E s : sent' = [sent EXCEPT ![n] = s],
         OwedTo(n)'
  PROVE  \A j \in DOMAIN tasks' : OwedTo(j)'
<1>1. DOMAIN tasks' = DOMAIN tasks /\ \A j \in DOMAIN tasks : j # n => tasks'[j] = tasks[j]
  OBVIOUS
<1>2. DOMAIN sent = DOMAIN tasks
  BY SeqIs DEF TasksInv
<1>3. \A j \in DOMAIN tasks : j # n => sent'[j] = sent[j]
  BY <1>2
<1>4. \A j \in DOMAIN tasks : j # n => Waits(j)
  BY <1>1, <1>3 DEF Waits, SameChange
<1>. QED
  BY <1>1, <1>4, OwedWaits

LEMMA OwedPush ==
  ASSUME SubsInv, TasksInv, \A j \in DOMAIN tasks : OwedTo(j),
         NEW n \in DOMAIN tasks, NEW e \in tasks[n].rest, Push(n, e), tasks[n].pc # "done",
         \A c : Unmoved(c)
  PROVE  \A j \in DOMAIN tasks' : OwedTo(j)'
<1> DEFINE m == Onward(tasks[n], e)
           x == <<e.conn, TopicFor(e.conn, tasks[n]), e.id>>
           s == Append(sent[n], x)
<1>1. /\ tasks' = [tasks EXCEPT ![n] = m]
      /\ conn[e.conn] = "open" => sent' = [sent EXCEPT ![n] = s]
      /\ conn[e.conn] # "open" => sent' = sent
  BY Zenon DEF Push
<1>2. TaskInv(tasks[n]) /\ IsSeq(sent[n]) /\ n \in DOMAIN sent
  <2>1. DOMAIN sent = DOMAIN tasks
    BY SeqIs DEF TasksInv
  <2>. QED
    BY <2>1 DEF TasksInv
<1>3. /\ m.rest = tasks[n].rest \ {e} /\ m.pc = IF tasks[n].rest = {e} THEN "done" ELSE "next"
      /\ m.kind = tasks[n].kind /\ m.owner = tasks[n].owner /\ m.owed = tasks[n].owed
  BY <1>2, OnwardIs
<1> HIDE DEF m
<1>4. tasks'[n] = m /\ (sent' = sent => sent'[n] = sent[n])
      /\ (sent' = [sent EXCEPT ![n] = s] => sent'[n] = s)
  BY <1>1, <1>2
<1>5. Goes(n, e)
  BY <1>3, <1>4 DEF Goes, SameChange
<1>6. ASSUME NEW p \in tasks'[n].owed, Delivered(n, p), StillOwed(tasks[n], p)
      PROVE  Delivered(n, p)'
  <2>0. p[1] \in Conns /\ conn[p[1]] = "open" /\ tasks'[n].rest = tasks[n].rest \ {e}
    BY <1>3, <1>4, <1>6 DEF OwedTo, StillOwed
  <2>1. CASE p[1] = e.conn
    <3>1. sent'[n] = s
      BY <1>1, <1>4, <2>0, <2>1
    <3>. QED
      BY <1>2, <1>6, <2>0, <2>1, <3>1, RecipientDelivered
  <2>2. CASE p[1] # e.conn
    <3>1. x[1] = e.conn
      OBVIOUS
    <3> HIDE DEF x
    <3>2. sent'[n] = sent[n] \/ sent'[n] = Append(sent[n], x)
      BY <1>1, <1>4
    <3>. QED
      BY <1>2, <1>6, <2>0, <2>2, <3>1, <3>2, OthersDelivered
  <2>. QED
    BY <2>1, <2>2
<1>7. OwedTo(n)'
  BY <1>5, <1>6, OwedGoes
<1> HIDE DEF s
<1>. QED
  BY <1>1, <1>7, OwedOne

\* the recipient gets nothing, and is owed nothing
LEMMA OwedSkip ==
  ASSUME TasksInv, \A j \in DOMAIN tasks : OwedTo(j),
         NEW n \in DOMAIN tasks, NEW e \in tasks[n].rest, tasks[n].pc # "done",
         NEW m, tasks' = [tasks EXCEPT ![n] = m], sent' = sent, \A c : Unmoved(c),
         NEW k, k = Onward(tasks[n], e), m = k \/ m = [k EXCEPT !.owed = Without(k.owed, e.conn)],
         \A p \in m.owed : StillOwed(tasks[n], p) => p[1] # e.conn
  PROVE  \A j \in DOMAIN tasks' : OwedTo(j)'
<1>1. TaskInv(tasks[n]) /\ IsSeq(sent[n])
  <2>1. DOMAIN sent = DOMAIN tasks
    BY SeqIs DEF TasksInv
  <2>. QED
    BY <2>1 DEF TasksInv
<1>2. /\ k.rest = tasks[n].rest \ {e} /\ k.pc = IF tasks[n].rest = {e} THEN "done" ELSE "next"
      /\ k.kind = tasks[n].kind /\ k.owner = tasks[n].owner /\ k.owed = tasks[n].owed
  BY <1>1, OnwardIs
<1>3. TaskInv(k)
  BY <1>1, OnwardTask
<1>4. /\ m.rest = k.rest /\ m.pc = k.pc /\ m.kind = k.kind /\ m.owner = k.owner
      /\ m.owed \subseteq k.owed
  <2>1. DOMAIN k = {"pc", "kind", "owner", "rest", "at", "as", "turned", "owed"}
    BY <1>3 DEF TaskInv
  <2>2. Without(k.owed, e.conn) \subseteq k.owed
    BY DEF Without
  <2> DEFINE o == Without(k.owed, e.conn)
  <2> HIDE DEF o
  <2>3. m = k \/ m = [k EXCEPT !.owed = o]
    BY DEF o
  <2>. QED
    BY <2>1, <2>2, <2>3 DEF o
<1>5. tasks'[n] = m
  OBVIOUS
<1>6. Goes(n, e)
  BY <1>2, <1>4, <1>5 DEF Goes, SameChange
<1>7. \A p \in tasks'[n].owed : Delivered(n, p) /\ StillOwed(tasks[n], p) => Delivered(n, p)'
  BY <1>1, <1>5, <1>6, OthersDelivered DEF Goes
<1>8. OwedTo(n)'
  BY <1>6, <1>7, OwedGoes
<1>. QED
  BY <1>8, OwedOne

\* what a task owes when it has collected its recipients
LEMMA CollectedOwed ==
  ASSUME NEW k, DOMAIN k = {"pc", "kind", "owner", "rest", "at", "as", "turned", "owed"},
         NEW m, m = Collected(k)
  PROVE  /\ m.pc \in {"next", "done"} /\ (m.pc = "done" => m.rest = {})
         /\ m.kind = k.kind /\ m.owner = k.owner
         /\ \A p \in m.owed : /\ p[1] \in Conns /\ StillOwed(k, p)
                              /\ RestOf(m, p[1]) = {[conn |-> p[1], id |-> p[3]]}
<1> DEFINE all == UNION {{[conn |-> c, id |-> s.id] : s \in Matching(c, k)} : c \in Open}
           pc == IF all = {} THEN "done" ELSE "next"
           owed == Owed(k)
<1>1. m = [k EXCEPT !.pc = pc, !.rest = all, !.owed = owed]
  BY Zenon DEF Collected
<1>2. ASSUME NEW p \in owed
      PROVE  /\ p[1] \in Conns /\ StillOwed(k, p)
             /\ {e \in all : e.conn = p[1]} = {[conn |-> p[1], id |-> p[3]]}
  <2>1. PICK c \in Open : /\ Entitled(c, k)
                          /\ \E s \in subs[c] : Matching(c, k) = {s} /\ p = <<c, s.topic, s.id>>
    BY <1>2 DEF Owed
  <2>2. PICK s \in subs[c] : Matching(c, k) = {s} /\ p = <<c, s.topic, s.id>>
    BY <2>1
  <2>3. p[1] = c /\ p[3] = s.id /\ c \in Conns /\ conn[c] = "open"
    BY <2>2 DEF Open
  <2>4. StillOwed(k, p)
    BY <2>1, <2>2, <2>3 DEF StillOwed
  <2>5. {e \in all : e.conn = c} = {[conn |-> c, id |-> s.id]}
    <3>1. [conn |-> c, id |-> s.id] \in all
      BY <2>2
    <3>2. ASSUME NEW e \in all, e.conn = c PROVE e = [conn |-> c, id |-> s.id]
      <4>1. PICK d \in Open : \E r \in Matching(d, k) : e = [conn |-> d, id |-> r.id]
        OBVIOUS
      <4>2. d = c
        BY <3>2, <4>1
      <4>. QED
        BY <2>2, <4>1, <4>2
    <3> HIDE DEF all
    <3>. QED
      BY <3>1, <3>2
  <2>. QED
    BY <2>3, <2>4, <2>5
<1>3. pc \in {"next", "done"} /\ (pc = "done" => all = {})
  OBVIOUS
<1> HIDE DEF all, pc, owed
<1>4. m.pc = pc /\ m.rest = all /\ m.owed = owed /\ m.kind = k.kind /\ m.owner = k.owner
  BY <1>1
<1>. QED
  BY <1>2, <1>3, <1>4 DEF RestOf

\* a task whose recipients are collected now
LEMMA OwedCollected ==
  ASSUME NEW n, NEW k, DOMAIN k = {"pc", "kind", "owner", "rest", "at", "as", "turned", "owed"},
         NEW m, m = Collected(k), tasks'[n] = m, sent'[n] = <<>>, \A c : Unmoved(c)
  PROVE  OwedTo(n)'
<1>1. /\ m.pc \in {"next", "done"} /\ (m.pc = "done" => m.rest = {})
      /\ m.kind = k.kind /\ m.owner = k.owner
      /\ \A p \in m.owed : /\ p[1] \in Conns /\ StillOwed(k, p)
                           /\ RestOf(m, p[1]) = {[conn |-> p[1], id |-> p[3]]}
  BY CollectedOwed
<1>2. ASSUME NEW p \in tasks'[n].owed
      PROVE  p[1] \in Conns /\ Delivered(n, p)' /\ StillOwed(tasks[n], p)'
  <2>1. /\ p[1] \in Conns /\ StillOwed(k, p)
        /\ RestOf(m, p[1]) = {[conn |-> p[1], id |-> p[3]]}
    BY <1>1, <1>2
  <2>2. SentTo(n, p[1])' = {}
    BY DEF SentTo
  <2>3. RestOf(tasks[n], p[1])' = RestOf(m, p[1])
    BY DEF RestOf
  <2>4. Delivered(n, p)'
    BY <2>1, <2>2, <2>3 DEF Delivered
  <2>5. StillOwed(tasks[n], p)'
    BY <1>1, <2>1 DEF Unmoved, StillOwed, Entitled, Matching, Wants
  <2>. QED
    BY <2>1, <2>4, <2>5
<1>. QED
  BY <1>1, <1>2 DEF OwedTo

\* the task of a change begins
LEMMA OwedNotify ==
  ASSUME TasksInv, \A j \in DOMAIN tasks : OwedTo(j), NEW kind, NEW owner, Notify(kind, owner)
  PROVE  \A j \in DOMAIN tasks' : OwedTo(j)'
<1> DEFINE k == [pc |-> "lookup", kind |-> kind, owner |-> owner, rest |-> {},
                 at |-> NoOne, as |-> Anon, turned |-> FALSE, owed |-> {}]
           m == IF cached THEN Collected(k) ELSE k
           w == Append(tasks, m)
           z == Append(sent, <<>>)
<1>0. PICK n : n = Len(tasks) + 1
  OBVIOUS
<1>1. tasks' = w /\ sent' = z /\ \A c : Unmoved(c)
  BY Zenon DEF Notify, sessionVars, Unmoved
<1>2. /\ DOMAIN k = {"pc", "kind", "owner", "rest", "at", "as", "turned", "owed"}
      /\ k.pc = "lookup" /\ k.owed = {}
  OBVIOUS
<1>3. IsSeq(tasks) /\ IsSeq(sent) /\ Len(sent) = Len(tasks) /\ DOMAIN sent = DOMAIN tasks
  BY SeqIs DEF TasksInv
<1> HIDE DEF k
<1>4. m = Collected(k) \/ m = k
  OBVIOUS
<1> HIDE DEF m
<1>5. /\ w[n] = m /\ (\A j \in DOMAIN tasks : w[j] = tasks[j])
      /\ \A j \in DOMAIN w : j \in DOMAIN tasks \/ j = n
  BY <1>0, <1>3, SeqOfAppend
<1>6. z[Len(sent) + 1] = <<>> /\ \A j \in DOMAIN sent : z[j] = sent[j]
  BY <1>3, SeqOfAppend
<1>7. z[n] = <<>> /\ \A j \in DOMAIN tasks : z[j] = sent[j]
  BY <1>0, <1>3, <1>6
<1> HIDE DEF w, z
<1>8. ASSUME NEW j \in DOMAIN tasks PROVE OwedTo(j)'
  <2>1. Waits(j)
    BY <1>1, <1>5, <1>7 DEF Waits, SameChange
  <2>. QED
    BY <2>1, OwedWaits
<1>9. OwedTo(n)'
  <2>1. tasks'[n] = m /\ sent'[n] = <<>>
    BY <1>1, <1>5, <1>7
  <2>2. CASE m = Collected(k)
    BY <1>1, <1>2, <2>1, <2>2, OwedCollected
  <2>3. CASE m = k
    BY <1>2, <2>1, <2>3 DEF OwedTo
  <2>. QED
    BY <1>4, <2>2, <2>3
<1>. QED
  BY <1>1, <1>5, <1>8, <1>9

LEMMA OwedTasks ==
  ASSUME SubsInv, TasksInv, \A j \in DOMAIN tasks : OwedTo(j), NEW n \in DOMAIN tasks,
         \/ Lookup(n)
         \/ \E e \in tasks[n].rest : Authorize(n, e)
         \/ \E yes \in BOOLEAN : Probed(n, yes)
  PROVE  \A j \in DOMAIN tasks' : OwedTo(j)'
<1>0. OwedTo(n) /\ TaskInv(tasks[n])
  BY DEF TasksInv
<1>1. \A c : Unmoved(c)
  BY Zenon DEF Lookup, Authorize, Probed, sessionVars, Unmoved
<1>2. CASE Lookup(n)
  <2> DEFINE m == Collected(tasks[n])
  <2>1. tasks[n].pc = "lookup" /\ tasks' = [tasks EXCEPT ![n] = m] /\ sent' = sent
    BY <1>2, Zenon DEF Lookup
  <2>2. sent'[n] = <<>> /\ tasks'[n] = m
    BY <1>0, <2>1 DEF OwedTo
  <2>3. DOMAIN tasks[n] = {"pc", "kind", "owner", "rest", "at", "as", "turned", "owed"}
    BY <1>0 DEF TaskInv
  <2> HIDE DEF m
  <2>4. OwedTo(n)'
    BY <1>1, <2>2, <2>3, OwedCollected DEF m
  <2>. QED
    BY <1>1, <2>1, <2>4, OwedOne
<1>3. ASSUME NEW e \in tasks[n].rest, Authorize(n, e)
      PROVE  \A j \in DOMAIN tasks' : OwedTo(j)'
  <2>0. tasks[n].pc = "next"
    BY <1>3, Zenon DEF Authorize
  <2>1. CASE NeedsProbe(e.conn, tasks[n])
    <3> DEFINE m == [tasks[n] EXCEPT !.pc = "probe", !.at = e, !.as = ident[e.conn]]
    <3>1. tasks' = [tasks EXCEPT ![n].pc = "probe", ![n].at = e, ![n].as = ident[e.conn]]
          /\ sent' = sent
      BY <1>3, <2>1, Zenon DEF Authorize
    <3>2. tasks' = [tasks EXCEPT ![n] = m]
      BY <3>1
    <3>3. /\ m.rest = tasks[n].rest /\ m.at = e /\ m.pc = "probe" /\ m.owed = tasks[n].owed
          /\ m.kind = tasks[n].kind /\ m.owner = tasks[n].owner
      BY <1>0 DEF TaskInv
    <3> HIDE DEF m
    <3>4. tasks'[n] = m /\ sent'[n] = sent[n]
      BY <3>1, <3>2
    <3>5. Waits(n)
      BY <1>1, <2>0, <3>3, <3>4 DEF Waits, SameChange
    <3>6. OwedTo(n)'
      BY <1>0, <3>5, OwedWaits
    <3>. QED
      BY <1>1, <3>1, <3>2, <3>6, OwedOne
  <2>2. CASE ~NeedsProbe(e.conn, tasks[n]) /\ Allowed(e.conn, tasks[n])
    <3>1. Push(n, e)
      BY <1>3, <2>2, Zenon DEF Authorize
    <3>. QED
      BY <1>1, <2>0, <3>1, OwedPush
  <2>3. CASE ~NeedsProbe(e.conn, tasks[n]) /\ ~Allowed(e.conn, tasks[n])
    <3> DEFINE m == Onward(tasks[n], e)
    <3>1. tasks' = [tasks EXCEPT ![n] = m] /\ sent' = sent
      BY <1>3, <2>3, Zenon DEF Authorize, Skip
    <3>2. \A p : StillOwed(tasks[n], p) => p[1] # e.conn
      BY <2>3 DEF StillOwed, Entitled, Allowed
    <3> HIDE DEF m
    <3>. QED
      BY <1>1, <2>0, <3>1, <3>2, OwedSkip DEF m
  <2>. QED
    BY <2>1, <2>2, <2>3
<1>4. ASSUME NEW yes \in BOOLEAN, Probed(n, yes)
      PROVE  \A j \in DOMAIN tasks' : OwedTo(j)'
  <2> DEFINE e == tasks[n].at
  <2>1. tasks[n].pc = "probe" /\ e \in tasks[n].rest
    BY <1>0, <1>4, Zenon DEF Probed, OwedTo
  <2>2. CASE yes
    <3>1. Push(n, e)
      BY <1>4, <2>2, Zenon DEF Probed
    <3> HIDE DEF e
    <3>. QED
      BY <1>1, <2>1, <3>1, OwedPush
  <2>3. CASE ~yes
    <3> DEFINE k == Onward(tasks[n], e)
               m == [k EXCEPT !.owed = Without(k.owed, e.conn)]
    <3>1. tasks' = [tasks EXCEPT ![n] = m] /\ sent' = sent
      BY <1>4, <2>3, Zenon DEF Probed
    <3>2. \A p \in m.owed : p[1] # e.conn
      <4>1. TaskInv(k)
        BY <1>0, OnwardTask
      <4> HIDE DEF k
      <4>2. m.owed = Without(k.owed, e.conn)
        BY <4>1 DEF TaskInv
      <4>. QED
        BY <4>2 DEF Without
    <3>3. k = Onward(tasks[n], e) /\ m = [k EXCEPT !.owed = Without(k.owed, e.conn)]
      OBVIOUS
    <3> HIDE DEF k, m, e
    <3>. QED
      BY <1>1, <2>1, <3>1, <3>2, <3>3, OwedSkip
  <2>. QED
    BY <2>2, <2>3
<1>. QED
  BY <1>2, <1>3, <1>4

\* a connection is disturbed: the others are owed what they were
LEMMA OwedDisturbed ==
  ASSUME TasksInv, \A j \in DOMAIN tasks : OwedTo(j), NEW c, NEW token \in BOOLEAN,
         Disturb(c, token), sent' = sent, \A d \in Conns : d # c => Unmoved(d)
  PROVE  \A j \in DOMAIN tasks' : OwedTo(j)'
<1>1. DOMAIN tasks' = DOMAIN tasks
  BY DisturbIs
<1>2. ASSUME NEW n \in DOMAIN tasks PROVE OwedTo(n)'
  <2>1. /\ tasks'[n].pc = tasks[n].pc /\ tasks'[n].rest = tasks[n].rest
        /\ tasks'[n].at = tasks[n].at /\ tasks'[n].owed = StillOwes(n, c)
        /\ tasks'[n].kind = tasks[n].kind /\ tasks'[n].owner = tasks[n].owner
    BY <1>2, DisturbIs
  <2>2. OwedTo(n) /\ sent'[n] = sent[n]
    OBVIOUS
  <2>3. StillOwes(n, c) \subseteq tasks[n].owed
    BY DEF StillOwes, Without
  <2>4. ASSUME tasks[n].pc # "done", NEW p \in StillOwes(n, c) PROVE Unmoved(p[1])
    BY <2>2, <2>3, <2>4 DEF StillOwes, Without, OwedTo
  <2>5. Waits(n)
    BY <2>1, <2>2, <2>3, <2>4 DEF Waits, SameChange
  <2>. QED
    BY <2>2, <2>5, OwedWaits
<1>. QED
  BY <1>1, <1>2

\* whoever is owed something stays who it was
LEMMA OwedKept ==
  ASSUME \A j \in DOMAIN tasks : OwedTo(j), tasks' = tasks, sent' = sent,
         \A d \in Conns : conn[d] = "open" /\ subs[d] # {} => Unmoved(d)
  PROVE  \A j \in DOMAIN tasks' : OwedTo(j)'
<1>1. ASSUME NEW n \in DOMAIN tasks PROVE Waits(n)
  <2>1. ASSUME tasks[n].pc # "done", NEW p \in tasks[n].owed PROVE Unmoved(p[1])
    BY <2>1 DEF OwedTo, StillOwed
  <2>. QED
    BY <2>1 DEF Waits, SameChange
<1>. QED
  BY <1>1, OwedWaits

LEMMA OwedConns ==
  ASSUME RealtimeAssumption, SubsInv, TasksInv, \A j \in DOMAIN tasks : OwedTo(j), NEW c \in Conns,
         \/ \E i : Register(c, i)
         \/ Unregister(c) \/ Cut(c) \/ Expire(c) \/ \E i : AccessToken(c, i)
         \/ \E t : Leave(c, t) \/ TapSubscribe(c, t)
         \/ \E t, wants, i : Join(c, t, wants, i)
  PROVE  \A j \in DOMAIN tasks' : OwedTo(j)'
<1>0. DOMAIN conn = Conns /\ DOMAIN ident = Conns /\ DOMAIN expired = Conns /\ DOMAIN subs = Conns
  BY DEF SubsInv, TasksInv
<1>1. CASE Cut(c) \/ \E i : Register(c, i)
  <2>1. /\ tasks' = tasks /\ sent' = sent /\ subs' = subs
        /\ \E s, i : conn' = [conn EXCEPT ![c] = s]
                     /\ (ident' = ident \/ ident' = [ident EXCEPT ![c] = i])
        /\ expired' = expired /\ (conn[c] = "new" \/ busy[c] = AtTables)
    BY <1>1, Zenon DEF Cut, Register, dataVars
  <2>2. subs[c] = {}
    BY <2>1 DEF SubsInv
  <2>3. \A d \in Conns : subs[d] # {} => Unmoved(d)
    BY <1>0, <2>1, <2>2 DEF Unmoved
  <2>. QED
    BY <2>1, <2>3, OwedKept
<1>2. CASE Unregister(c)
  <2>1. /\ Disturb(c, FALSE) /\ sent' = sent /\ conn' = [conn EXCEPT ![c] = "gone"]
        /\ subs' = [subs EXCEPT ![c] = {}] /\ ident' = ident /\ expired' = expired
    BY <1>2, Zenon DEF Unregister
  <2>2. \A d \in Conns : d # c => Unmoved(d)
    BY <1>0, <2>1 DEF Unmoved
  <2>. QED
    BY <2>1, <2>2, FALSE \in BOOLEAN, OwedDisturbed
<1>3. CASE Expire(c) \/ \E i : AccessToken(c, i)
  <2>1. /\ Disturb(c, TRUE) /\ sent' = sent /\ conn' = conn /\ subs' = subs
        /\ \E i, x : /\ ident' = ident \/ ident' = [ident EXCEPT ![c] = i]
                     /\ expired' = [expired EXCEPT ![c] = x]
    BY <1>3, Zenon DEF Expire, AccessToken, Rotate
  <2>2. \A d \in Conns : d # c => Unmoved(d)
    BY <1>0, <2>1 DEF Unmoved
  <2>. QED
    BY <2>1, <2>2, TRUE \in BOOLEAN, OwedDisturbed
<1>4. CASE \E t : Leave(c, t) \/ TapSubscribe(c, t)
  <2>1. /\ Disturb(c, FALSE) /\ sent' = sent /\ conn' = conn /\ ident' = ident /\ expired' = expired
        /\ \E s : subs' = [subs EXCEPT ![c] = s]
    BY <1>4, Zenon DEF Leave, TapSubscribe, Subscribe
  <2>2. \A d \in Conns : d # c => Unmoved(d)
    BY <1>0, <2>1 DEF Unmoved
  <2>. QED
    BY <2>1, <2>2, FALSE \in BOOLEAN, OwedDisturbed
<1>5. ASSUME NEW t, NEW wants, NEW i, Join(c, t, wants, i)
      PROVE  \A j \in DOMAIN tasks' : OwedTo(j)'
  <2> DEFINE token == i # NoToken
  <2>1. /\ Disturb(c, token) /\ sent' = sent /\ conn' = conn
        /\ subs' = subs \/ \E s : subs' = [subs EXCEPT ![c] = s]
        /\ \/ ident' = ident /\ expired' = expired
           \/ \E x, y : ident' = [ident EXCEPT ![c] = x] /\ expired' = [expired EXCEPT ![c] = y]
    BY <1>5, Zenon DEF Join, Subscribe, Rotate
  <2>2. \A d \in Conns : d # c => Unmoved(d)
    BY <1>0, <2>1 DEF Unmoved
  <2>3. token \in BOOLEAN
    OBVIOUS
  <2> HIDE DEF token
  <2>. QED
    BY <2>1, <2>2, <2>3, OwedDisturbed
<1>. QED
  BY <1>1, <1>2, <1>3, <1>4, <1>5

LEMMA OwedNext ==
  ASSUME RealtimeAssumption, SubsInv, TasksInv, \A n \in DOMAIN tasks : OwedTo(n), [Next]_rtVars
  PROVE  \A n \in DOMAIN tasks' : OwedTo(n)'
<1>1. ASSUME NEW kind \in Kinds, NEW u \in Users, Notify(kind, u)
      PROVE  \A n \in DOMAIN tasks' : OwedTo(n)'
  BY <1>1, OwedNotify
<1>2. ASSUME NEW n \in DOMAIN tasks,
             \/ Lookup(n)
             \/ \E e \in tasks[n].rest : Authorize(n, e)
             \/ \E yes \in BOOLEAN : Probed(n, yes)
      PROVE  \A j \in DOMAIN tasks' : OwedTo(j)'
  BY <1>2, OwedTasks
<1>3. ASSUME NEW c \in Conns,
             \/ \E i : Register(c, i)
             \/ Unregister(c) \/ Cut(c) \/ Expire(c) \/ \E i : AccessToken(c, i)
             \/ \E t : Leave(c, t) \/ TapSubscribe(c, t)
             \/ \E t, wants, i : Join(c, t, wants, i)
      PROVE  \A n \in DOMAIN tasks' : OwedTo(n)'
  BY <1>3, OwedConns
<1>4. ASSUME \/ \E c : Reply(c) \/ Drain(c)
             \/ \E c, t : Track(c, t) \/ Untrack(c, t)
             \/ \E t, others : Broadcast(t, others)
             \/ UNCHANGED rtVars
      PROVE  \A n \in DOMAIN tasks' : OwedTo(n)'
  <2>1. tasks' = tasks /\ sent' = sent /\ \A d : Unmoved(d)
    BY <1>4, Zenon DEF Reply, Drain, Track, Untrack, Broadcast, rtVars, sessionVars, dataVars, Unmoved
  <2>. QED
    BY <2>1, OwedKept
<1>5. Sockets \subseteq Conns /\ Taps \subseteq Conns
  BY DEF Conns
<1>. QED
  BY <1>1, <1>2, <1>3, <1>4, <1>5, Zenon DEF Next

-----------------------------------------------------------------------------
(* The broker.                                                             *)

LEMMA BrokerInit == Init => BrokerInv
<1>1. Init => \A n \in DOMAIN tasks : OwedTo(n)
  BY DEF Init
<1>. QED
  BY <1>1, SubsInit, PresenceInit, ChangesInit DEF BrokerInv

LEMMA BrokerNext ==
  ASSUME RealtimeAssumption, BrokerInv, [Next]_rtVars
  PROVE  BrokerInv' /\ PushIsAllowed
<1>1. SubsInv /\ PresenceInv /\ TasksInv /\ \A n \in DOMAIN tasks : OwedTo(n)
  BY DEF BrokerInv
<1>2. \A n \in DOMAIN tasks' : OwedTo(n)'
  BY <1>1, OwedNext
<1>. QED
  BY <1>1, <1>2, SubsNext, PresenceNext, ChangesNext DEF BrokerInv

LEMMA BrokerHolds ==
  ASSUME BrokerInv
  PROVE  PresenceIsTold /\ NobodyIsLeft /\ ChangesArrive
<1>1. PresenceIsTold /\ NobodyIsLeft
  BY DEF BrokerInv, PresenceInv
<1>2. ASSUME NEW n \in DOMAIN tasks, NEW p \in tasks[n].owed
      PROVE  \/ SentTo(n, p[1]) = {} /\ tasks[n].pc # "done"
             \/ \E i \in SentTo(n, p[1]) : SentTo(n, p[1]) = {i} /\ sent[n][i] = p
  <2>1. Delivered(n, p) /\ (tasks[n].pc = "done" => tasks[n].rest = {})
    BY <1>2 DEF BrokerInv, OwedTo
  <2>2. RestOf(tasks[n], p[1]) # {} => tasks[n].pc # "done"
    BY <2>1 DEF RestOf
  <2>. QED
    BY <2>1, <2>2 DEF Delivered
<1>. QED
  BY <1>1, <1>2 DEF ChangesArrive

(***************************************************************************)
(* At any time: what a client makes of the presence frames of a topic it   *)
(* has joined, read and queued, is what the broker has, unless a full      *)
(* queue dropped one and no newer state came; only those that joined a     *)
(* topic are present on it; and the change of a row is pushed once, under  *)
(* their one channel for it, to all who stay entitled to it, before its    *)
(* task ends.                                                              *)
(***************************************************************************)
THEOREM BrokerCorrect ==
  RealtimeAssumption => (Spec => [](PresenceIsTold /\ NobodyIsLeft /\ ChangesArrive))
<1> SUFFICES ASSUME RealtimeAssumption
             PROVE  Spec => [](PresenceIsTold /\ NobodyIsLeft /\ ChangesArrive)
  OBVIOUS
<1>1. BrokerInv /\ [Next]_rtVars => BrokerInv'
  BY BrokerNext
<1>. QED
  BY <1>1, BrokerInit, BrokerHolds, PTL DEF Spec

(***************************************************************************)
(* Nobody is pushed a row it may not read now, unless its token was        *)
(* rotated, or expired, while the database was asked.                      *)
(***************************************************************************)
THEOREM BrokerPushes == RealtimeAssumption => (Spec => PushesAreAllowed)
<1> SUFFICES ASSUME RealtimeAssumption PROVE Spec => PushesAreAllowed
  OBVIOUS
<1>1. BrokerInv /\ [Next]_rtVars => BrokerInv' /\ PushIsAllowed
  BY BrokerNext
<1>. QED
  BY <1>1, BrokerInit, PTL DEF Spec, PushesAreAllowed

=============================================================================
