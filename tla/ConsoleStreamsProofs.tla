------------------------ MODULE ConsoleStreamsProofs ------------------------
(***************************************************************************)
(* Proofs about what reaches the console live: the log, the events of a    *)
(* channel and, from the broker's own theorems, what subscribers are told; *)
(* and about the causes of what cannot be taken back.  For any size of a   *)
(* buffer or a queue and any number of entries, events, connections,       *)
(* topics and changes.                                                     *)
(***************************************************************************)
EXTENDS ConsolePagesProofs, SequenceTheorems

-----------------------------------------------------------------------------
(* Induction, about a set of naturals, as it is proved for the broker.     *)

LEMMA Induction ==
  ASSUME NEW T, 0 \in T, \A n \in Nat : n \in T => n + 1 \in T
  PROVE  \A n \in Nat : n \in T
BY Changes!Induction, Zenon

\* n steps from base are a function
Iterates(V, base, n, step) ==
  \E F \in [0 .. n -> V] : F[0] = base /\ \A i \in 1 .. n : F[i] = step[<<i, F[i - 1]>>]

LEMMA Recursion ==
  ASSUME NEW V, NEW base \in V, NEW n \in Nat, NEW step \in [(1 .. n) \X V -> V]
  PROVE  Iterates(V, base, n, step)
<1>1. Changes!Iterates(V, base, n, step)
  BY Changes!Recursion
<1>. QED
  BY <1>1 DEF Iterates, Changes!Iterates

-----------------------------------------------------------------------------
(* The members of a set in a sequence.                                     *)

LEMMA SelectSteps ==
  ASSUME NEW E, NEW s \in Seq(E), NEW T
  PROVE  \E F : /\ F[0] = <<>>
                /\ \A i \in 1 .. Len(s) :
                      F[i] = IF s[i] \in T THEN Append(F[i - 1], s[i]) ELSE F[i - 1]
                /\ Select(s, T) = F[Len(s)]
<1> DEFINE Step(q, i) == IF s[i] \in T THEN Append(q, s[i]) ELSE q
           Eq(F) == F = [i \in 0 .. Len(s) |-> IF i = 0 THEN <<>> ELSE Step(F[i - 1], i)]
           step == [p \in (1 .. Len(s)) \X Seq(E) |-> Step(p[2], p[1])]
<1>1. step \in [(1 .. Len(s)) \X Seq(E) -> Seq(E)]
  OBVIOUS
<1>2. PICK F \in [0 .. Len(s) -> Seq(E)] :
              F[0] = <<>> /\ \A i \in 1 .. Len(s) : F[i] = step[<<i, F[i - 1]>>]
  <2> DEFINE V == Seq(E)
             base == <<>>
             n == Len(s)
  <2>1. base \in V /\ n \in Nat
    OBVIOUS
  <2>2. step \in [(1 .. n) \X V -> V]
    BY <1>1
  <2> HIDE DEF step, V, base, n
  <2>3. Iterates(V, base, n, step)
    BY <2>1, <2>2, Recursion
  <2>. QED
    BY <2>3 DEF V, base, n, Iterates
<1>3. \A i \in 1 .. Len(s) : F[i] = Step(F[i - 1], i)
  <2> TAKE i \in 1 .. Len(s)
  <2>1. <<i, F[i - 1]>> \in (1 .. Len(s)) \X Seq(E)
    OBVIOUS
  <2> HIDE DEF Step
  <2>. QED
    BY <1>2, <2>1
<1>4. Eq(F)
  <2> HIDE DEF Step
  <2> DEFINE H == [i \in 0 .. Len(s) |-> IF i = 0 THEN <<>> ELSE Step(F[i - 1], i)]
  <2>1. \A i \in 0 .. Len(s) : F[i] = H[i]
    BY <1>2, <1>3
  <2>2. F = [i \in 0 .. Len(s) |-> F[i]] /\ H = [i \in 0 .. Len(s) |-> H[i]]
    OBVIOUS
  <2>3. F = H
    <3> HIDE DEF H
    <3>. QED
      BY <2>1, <2>2
  <2>. QED
    BY <2>3
<1>5. PICK G : Eq(G) /\ Select(s, T) = G[Len(s)]
  BY <1>4 DEF Select
<1>6. G[0] = <<>> /\ \A i \in 1 .. Len(s) : G[i] = Step(G[i - 1], i)
  <2> HIDE DEF Step
  <2>1. 0 \in 0 .. Len(s) /\ \A i \in 1 .. Len(s) : i \in 0 .. Len(s) /\ i # 0
    OBVIOUS
  <2>2. \A i \in 0 .. Len(s) : G[i] = IF i = 0 THEN <<>> ELSE Step(G[i - 1], i)
    BY <1>5, Zenon
  <2>. QED
    BY <2>1, <2>2
<1>. QED
  BY <1>5, <1>6

\* what is kept of s: its members in T, in the order they had
Kept(r, s, T, n) ==
  /\ r \in Seq(T) /\ Len(r) <= n
  /\ \A i \in 1 .. Len(r) : \E k \in 1 .. n : r[i] = s[k]
  /\ \A k \in 1 .. n : s[k] \in T => Holds(r, s[k])
  /\ (\A j, k \in 1 .. n : j < k => s[j].id < s[k].id) => Ascending(r)

LEMMA Selected ==
  ASSUME NEW E, NEW s \in Seq(E), NEW T
  PROVE  Kept(Select(s, T), s, T, Len(s))
<1>1. PICK F : /\ F[0] = <<>>
               /\ \A i \in 1 .. Len(s) :
                     F[i] = IF s[i] \in T THEN Append(F[i - 1], s[i]) ELSE F[i - 1]
               /\ Select(s, T) = F[Len(s)]
  BY SelectSteps
<1> DEFINE Good == {n \in Nat : n <= Len(s) => Kept(F[n], s, T, n)}
<1>2. 0 \in Good
  <2>1. Kept(<<>>, s, T, 0)
    BY DEF Kept, Ascending
  <2>. QED
    BY <2>1, <1>1
<1>3. ASSUME NEW n \in Nat, n \in Good PROVE n + 1 \in Good
  <2> SUFFICES ASSUME n + 1 <= Len(s) PROVE Kept(F[n + 1], s, T, n + 1)
    OBVIOUS
  <2> DEFINE r == F[n]
             e == s[n + 1]
  <2>1. Kept(r, s, T, n) /\ Len(s) \in Nat
    BY <1>3
  <2>2. F[n + 1] = IF e \in T THEN Append(r, e) ELSE r
    BY <1>1
  <2> HIDE DEF r, e
  <2>3. CASE e \in T
    <3> DEFINE q == Append(r, e)
    <3>1. /\ q \in Seq(T) /\ Len(q) = Len(r) + 1 /\ q[Len(r) + 1] = e /\ Len(r) \in Nat
          /\ \A i \in 1 .. Len(r) : q[i] = r[i]
          /\ DOMAIN q = 1 .. Len(r) + 1 /\ DOMAIN r = 1 .. Len(r)
      BY <2>1, <2>3 DEF Kept
    <3> HIDE DEF q
    <3>2. \A i \in 1 .. Len(q) : \E k \in 1 .. n + 1 : q[i] = s[k]
      <4> TAKE i \in 1 .. Len(q)
      <4>1. CASE i = Len(r) + 1
        BY <4>1, <3>1 DEF e
      <4>2. CASE i \in 1 .. Len(r)
        BY <4>2, <3>1, <2>1 DEF Kept
      <4>. QED
        BY <4>1, <4>2, <3>1
    <3>3. \A k \in 1 .. n + 1 : s[k] \in T => Holds(q, s[k])
      <4> TAKE k \in 1 .. n + 1
      <4>1. CASE k = n + 1
        BY <4>1, <3>1 DEF Holds, e
      <4>2. CASE k \in 1 .. n
        BY <4>2, <3>1, <2>1 DEF Kept, Holds
      <4>. QED
        BY <4>1, <4>2
    <3>4. ASSUME \A j, k \in 1 .. n + 1 : j < k => s[j].id < s[k].id
          PROVE  Ascending(q)
      <4>1. Ascending(r)
        BY <3>4, <2>1 DEF Kept
      <4>2. \A i \in 1 .. Len(r) : q[i].id < e.id
        <5> TAKE i \in 1 .. Len(r)
        <5>1. PICK k \in 1 .. n : r[i] = s[k]
          BY <2>1 DEF Kept
        <5>2. s[k].id < s[n + 1].id
          BY <3>4
        <5>. QED
          BY <5>1, <5>2, <3>1 DEF e
      <4> SUFFICES ASSUME NEW i \in 1 .. Len(r) + 1, NEW j \in 1 .. Len(r) + 1, i < j
                   PROVE  q[i].id < q[j].id
        BY <3>1 DEF Ascending
      <4>3. CASE j = Len(r) + 1
        BY <4>3, <4>2, <3>1
      <4>4. CASE j \in 1 .. Len(r)
        <5>1. i \in 1 .. Len(r)
          BY <4>4, <3>1
        <5>. QED
          BY <4>4, <5>1, <4>1, <3>1 DEF Ascending
      <4>. QED
        BY <4>3, <4>4
    <3>. QED
      BY <3>1, <3>2, <3>3, <3>4, <2>1, <2>2, <2>3 DEF Kept, q
  <2>4. CASE e \notin T
    <3>1. /\ r \in Seq(T) /\ Len(r) <= n + 1
      BY <2>1 DEF Kept
    <3>2. \A i \in 1 .. Len(r) : \E k \in 1 .. n + 1 : r[i] = s[k]
      BY <2>1 DEF Kept
    <3>3. \A k \in 1 .. n + 1 : s[k] \in T => Holds(r, s[k])
      <4> TAKE k \in 1 .. n + 1
      <4>1. CASE k = n + 1
        BY <4>1, <2>4 DEF e
      <4>2. CASE k \in 1 .. n
        BY <4>2, <2>1 DEF Kept
      <4>. QED
        BY <4>1, <4>2
    <3>4. (\A j, k \in 1 .. n + 1 : j < k => s[j].id < s[k].id) => Ascending(r)
      BY <2>1 DEF Kept
    <3>. QED
      BY <3>1, <3>2, <3>3, <3>4, <2>2, <2>4 DEF Kept
  <2>. QED
    BY <2>3, <2>4
<1>4. Len(s) \in Good
  <2> HIDE DEF Good
  <2>. QED
    BY <1>2, <1>3, Induction
<1>. QED
  BY <1>1, <1>4

-----------------------------------------------------------------------------
(* The newest of a sequence.                                               *)

\* how many go
Over(n) == IF n > MaxRows THEN n - MaxRows ELSE 0

LEMMA EntryOf ==
  ASSUME NEW e \in Entries
  PROVE  e.id \in Nat /\ e.ts \in Nat \ {0} /\ e.kind \in Kinds /\ e.tie \in BOOLEAN
BY RowsAssumption DEF Entries

LEMMA NewestOf ==
  ASSUME NEW E, NEW s \in Seq(E)
  PROVE  /\ Newest(s) \in Seq(E)
         /\ Len(Newest(s)) = Len(s) - Over(Len(s)) /\ Over(Len(s)) \in Nat
         /\ Len(Newest(s)) <= MaxRows /\ Len(Newest(s)) \in Nat
         /\ \A i \in 1 .. Len(Newest(s)) : Newest(s)[i] = s[i + Over(Len(s))]
<1> DEFINE n == Len(s)
<1>1. n \in Nat /\ Over(n) \in Nat /\ Over(n) <= n
  BY RowsAssumption DEF Over
<1>2. CASE n > MaxRows
  <2> DEFINE q == SubSeq(s, n - MaxRows + 1, n)
  <2>1. \A i \in n - MaxRows + 1 .. n : s[i] \in E
    <3>1. \A i \in n - MaxRows + 1 .. n : i \in 1 .. n
      BY <1>1, <1>2, RowsAssumption
    <3>. QED
      BY <3>1
  <2>2. /\ q \in Seq(E) /\ Len(q) = MaxRows
        /\ \A i \in 1 .. MaxRows : q[i] = s[n - MaxRows + 1 + i - 1]
    BY <2>1, <1>1, <1>2, RowsAssumption, SubSeqProperties
  <2>. QED
    BY <2>2, <1>1, <1>2, RowsAssumption DEF Newest, Suffix, Over
<1>3. CASE ~(n > MaxRows)
  BY <1>1, <1>3, RowsAssumption DEF Newest, Over
<1>. QED
  BY <1>2, <1>3

\* who comes after an entry has a greater number
LEMMA Numbered ==
  ASSUME NEW s \in Seq(Entries), Ascending(s), NEW i \in 1 .. Len(s)
  PROVE  s[i].id + (Len(s) - i) <= s[Len(s)].id
<1> DEFINE Good == {k \in Nat : i + k <= Len(s) => s[i].id + k <= s[i + k].id}
<1>1. Len(s) \in Nat /\ i \in Nat /\ i <= Len(s) /\ \A k \in 1 .. Len(s) : s[k].id \in Nat
  BY EntryOf
<1>2. 0 \in Good
  BY <1>1
<1>3. ASSUME NEW k \in Nat, k \in Good PROVE k + 1 \in Good
  <2> SUFFICES ASSUME i + (k + 1) <= Len(s) PROVE s[i].id + (k + 1) <= s[i + (k + 1)].id
    OBVIOUS
  <2>1. s[i].id + k <= s[i + k].id
    BY <1>1, <1>3
  <2>2. i + k \in 1 .. Len(s) /\ i + (k + 1) \in 1 .. Len(s) /\ i + k < i + (k + 1)
    BY <1>1
  <2>3. s[i + k].id < s[i + (k + 1)].id
    BY <2>2 DEF Ascending
  <2>. QED
    BY <2>1, <2>2, <2>3, <1>1
<1>4. Len(s) - i \in Nat /\ i + (Len(s) - i) = Len(s)
  BY <1>1
<1>5. Len(s) - i \in Good
  <2> HIDE DEF Good
  <2>. QED
    BY <1>2, <1>3, <1>4, Induction
<1>. QED
  BY <1>4, <1>5

\* t is s but for entries that the ring has dropped as well
Trimmed(t, s) ==
  /\ t \in Seq(Entries) /\ Ascending(t)
  /\ \A i \in 1 .. Len(t) : Holds(s, t[i])
  /\ \A i \in 1 .. Len(s) : s[i].id > logged - MaxRows => Holds(t, s[i])

LEMMA TrimmedNewest ==
  ASSUME NEW s \in Seq(Entries), Ascending(s), Reached(s, logged + 1),
         logged \in Nat
  PROVE  Trimmed(Newest(s), s)
<1> DEFINE t == Newest(s)
           o == Over(Len(s))
<1>1. /\ t \in Seq(Entries) /\ Len(t) = Len(s) - o /\ o \in Nat /\ Len(t) \in Nat
      /\ \A i \in 1 .. Len(t) : t[i] = s[i + o]
      /\ Len(s) \in Nat /\ DOMAIN s = 1 .. Len(s) /\ DOMAIN t = 1 .. Len(t)
  BY NewestOf
<1>2. \A i \in 1 .. Len(s) : s[i].id \in Nat
  BY EntryOf
<1>3. o = IF Len(s) > MaxRows THEN Len(s) - MaxRows ELSE 0
  BY DEF Over
<1> HIDE DEF t, o
<1>4. \A i \in 1 .. Len(t) : i + o \in 1 .. Len(s)
  BY <1>1
<1>5. Ascending(t)
  <2> SUFFICES ASSUME NEW i \in 1 .. Len(t), NEW j \in 1 .. Len(t), i < j
               PROVE  t[i].id < t[j].id
    BY <1>1 DEF Ascending
  <2>1. i + o \in DOMAIN s /\ j + o \in DOMAIN s /\ i + o < j + o
    BY <1>1, <1>4
  <2>2. s[i + o].id < s[j + o].id
    BY <2>1 DEF Ascending
  <2>. QED
    BY <2>2, <1>1
<1>6. \A i \in 1 .. Len(t) : Holds(s, t[i])
  BY <1>1, <1>4 DEF Holds
<1>7. ASSUME NEW i \in 1 .. Len(s), s[i].id > logged - MaxRows PROVE Holds(t, s[i])
  <2>1. s[i].id + (Len(s) - i) <= s[Len(s)].id
    BY Numbered
  <2>2. Len(s) \in 1 .. Len(s)
    BY <1>1
  <2>3. s[Len(s)].id < logged + 1
    BY <1>1, <2>2 DEF Reached
  <2>4. i - o \in 1 .. Len(t)
    <3> DEFINE m == s[i].id
               n == s[Len(s)].id
    <3>1. m \in Nat /\ n \in Nat
      BY <2>2, <1>2
    <3>2. m + (Len(s) - i) <= n /\ n < logged + 1 /\ m > logged - MaxRows
      BY <2>1, <2>3, <1>7
    <3> DEFINE l == Len(s)
               k == Len(t)
    <3>3. l \in Nat /\ k = l - o /\ o \in Nat /\ k \in Nat /\ i \in 1 .. l
      BY <1>1
    <3>4. o = IF l > MaxRows THEN l - MaxRows ELSE 0
      BY <1>3
    <3> HIDE DEF m, n, l, k
    <3>5. m + (l - i) <= n
      BY <3>2 DEF l
    <3>6. i - o \in 1 .. k
      BY <3>1, <3>2, <3>3, <3>4, <3>5, RowsAssumption
    <3>. QED
      BY <3>6 DEF k
  <2>5. t[i - o] = s[i]
    BY <2>4, <1>1
  <2>. QED
    BY <2>4, <2>5, <1>1 DEF Holds
<1>. QED
  BY <1>1, <1>5, <1>6, <1>7 DEF Trimmed, t

LEMMA AscendingParts ==
  ASSUME NEW a \in Seq(Entries), NEW b \in Seq(Entries)
  PROVE  /\ Ascending(a \o b) <=>
              /\ Ascending(a) /\ Ascending(b)
              /\ \A i \in 1 .. Len(a), j \in 1 .. Len(b) : a[i].id < b[j].id
         /\ \A n : Reached(a \o b, n) <=> Reached(a, n) /\ Reached(b, n)
         /\ \A e : Holds(a \o b, e) <=> Holds(a, e) \/ Holds(b, e)
<1> DEFINE c == a \o b
<1>1. /\ c \in Seq(Entries) /\ Len(c) = Len(a) + Len(b) /\ Len(a) \in Nat /\ Len(b) \in Nat
      /\ DOMAIN a = 1 .. Len(a) /\ DOMAIN b = 1 .. Len(b) /\ DOMAIN c = 1 .. Len(c)
      /\ \A i \in 1 .. Len(c) : c[i] = IF i <= Len(a) THEN a[i] ELSE b[i - Len(a)]
  BY ConcatProperties
<1> HIDE DEF c
<1>2. /\ \A i \in 1 .. Len(a) : i \in 1 .. Len(c) /\ c[i] = a[i]
      /\ \A i \in 1 .. Len(b) : i + Len(a) \in 1 .. Len(c) /\ c[i + Len(a)] = b[i]
      /\ \A i \in 1 .. Len(c) :
            i \in 1 .. Len(a) \/ (i - Len(a) \in 1 .. Len(b) /\ c[i] = b[i - Len(a)])
  <2>1. \A i \in 1 .. Len(a) : i \in 1 .. Len(c) /\ c[i] = a[i]
    BY <1>1
  <2>2. ASSUME NEW i \in 1 .. Len(b) PROVE i + Len(a) \in 1 .. Len(c) /\ c[i + Len(a)] = b[i]
    <3>1. i + Len(a) \in 1 .. Len(c) /\ ~(i + Len(a) <= Len(a)) /\ (i + Len(a)) - Len(a) = i
      <4> DEFINE la == Len(a)
                 lb == Len(b)
                 lc == Len(c)
      <4>1. la \in Nat /\ lb \in Nat /\ lc = la + lb
        BY <1>1
      <4> HIDE DEF la, lb, lc
      <4>2. i + la \in 1 .. lc /\ ~(i + la <= la) /\ (i + la) - la = i
        <5>1. i \in 1 .. lb
          BY DEF lb
        <5>. QED
          BY <4>1, <5>1
      <4>. QED
        BY <4>2 DEF la, lc
    <3>. QED
      BY <3>1, <1>1
  <2>3. ASSUME NEW i \in 1 .. Len(c), i \notin 1 .. Len(a)
        PROVE  i - Len(a) \in 1 .. Len(b) /\ c[i] = b[i - Len(a)]
    BY <2>3, <1>1
  <2>. QED
    BY <2>1, <2>2, <2>3
<1>3. ASSUME Ascending(c)
      PROVE  /\ Ascending(a) /\ Ascending(b)
             /\ \A i \in 1 .. Len(a), j \in 1 .. Len(b) : a[i].id < b[j].id
  <2>1. \A i, j \in 1 .. Len(c) : i < j => c[i].id < c[j].id
    BY <1>1, <1>3 DEF Ascending
  <2>2. Ascending(a)
    BY <2>1, <1>1, <1>2 DEF Ascending
  <2>3. Ascending(b)
    <3> SUFFICES ASSUME NEW i \in 1 .. Len(b), NEW j \in 1 .. Len(b), i < j
                 PROVE  b[i].id < b[j].id
      BY <1>1 DEF Ascending
    <3>1. i + Len(a) < j + Len(a)
      BY <1>1
    <3>. QED
      BY <3>1, <2>1, <1>2
  <2>4. \A i \in 1 .. Len(a), j \in 1 .. Len(b) : a[i].id < b[j].id
    <3> TAKE i \in 1 .. Len(a), j \in 1 .. Len(b)
    <3>1. i < j + Len(a)
      BY <1>1
    <3>. QED
      BY <3>1, <2>1, <1>2
  <2>. QED
    BY <2>2, <2>3, <2>4
<1>4. ASSUME Ascending(a), Ascending(b),
             \A i \in 1 .. Len(a), j \in 1 .. Len(b) : a[i].id < b[j].id
      PROVE  Ascending(c)
  <2> SUFFICES ASSUME NEW i \in 1 .. Len(c), NEW j \in 1 .. Len(c), i < j
               PROVE  c[i].id < c[j].id
    BY <1>1 DEF Ascending
  <2>1. CASE i \in 1 .. Len(a) /\ j \in 1 .. Len(a)
    BY <2>1, <1>1, <1>2, <1>4 DEF Ascending
  <2>2. CASE i \in 1 .. Len(a) /\ j \notin 1 .. Len(a)
    BY <2>2, <1>1, <1>2, <1>4
  <2>3. CASE i \notin 1 .. Len(a)
    <3>1. /\ i - Len(a) \in 1 .. Len(b) /\ j - Len(a) \in 1 .. Len(b)
          /\ c[i] = b[i - Len(a)] /\ c[j] = b[j - Len(a)] /\ i - Len(a) < j - Len(a)
      BY <2>3, <1>1, <1>2
    <3>. QED
      BY <3>1, <1>1, <1>4 DEF Ascending
  <2>. QED
    BY <2>1, <2>2, <2>3
<1>5. ASSUME NEW n PROVE Reached(c, n) <=> Reached(a, n) /\ Reached(b, n)
  <2>1. Reached(c, n) => Reached(a, n) /\ Reached(b, n)
    <3> SUFFICES ASSUME Reached(c, n) PROVE Reached(a, n) /\ Reached(b, n)
      OBVIOUS
    <3>1. \A i \in 1 .. Len(c) : c[i].id < n
      BY <1>1 DEF Reached
    <3>. QED
      BY <3>1, <1>1, <1>2 DEF Reached
  <2>2. Reached(a, n) /\ Reached(b, n) => Reached(c, n)
    BY <1>1, <1>2 DEF Reached
  <2>. QED
    BY <2>1, <2>2
<1>6. ASSUME NEW e PROVE Holds(c, e) <=> Holds(a, e) \/ Holds(b, e)
  <2>1. ASSUME Holds(c, e) PROVE Holds(a, e) \/ Holds(b, e)
    <3>1. PICK i \in 1 .. Len(c) : c[i] = e
      BY <2>1, <1>1 DEF Holds
    <3>2. CASE i \in 1 .. Len(a)
      BY <3>1, <3>2, <1>1, <1>2 DEF Holds
    <3>3. CASE i - Len(a) \in 1 .. Len(b) /\ c[i] = b[i - Len(a)]
      BY <3>1, <3>3, <1>1 DEF Holds
    <3>. QED
      BY <3>2, <3>3, <1>2
  <2>2. Holds(a, e) => Holds(c, e)
    BY <1>1, <1>2 DEF Holds
  <2>3. Holds(b, e) => Holds(c, e)
    BY <1>1, <1>2 DEF Holds
  <2>. QED
    BY <2>1, <2>2, <2>3
<1>. QED
  BY <1>3, <1>4, <1>5, <1>6 DEF c

LEMMA TrimmedTail ==
  ASSUME NEW a \in Seq(Entries), NEW b \in Seq(Entries),
         Ascending(a \o b), Reached(a \o b, logged + 1),
         logged \in Nat
  PROVE  Trimmed(a \o Newest(b), a \o b)
<1> DEFINE t == Newest(b)
<1>1. /\ Ascending(a) /\ Ascending(b) /\ Reached(b, logged + 1)
      /\ \A i \in 1 .. Len(a), j \in 1 .. Len(b) : a[i].id < b[j].id
  BY AscendingParts
<1>2. Trimmed(t, b)
  BY <1>1, TrimmedNewest
<1> HIDE DEF t
<1>3. t \in Seq(Entries) /\ Ascending(t) /\ \A i \in 1 .. Len(t) : Holds(b, t[i])
  BY <1>2 DEF Trimmed
<1>4. \A i \in 1 .. Len(a), j \in 1 .. Len(t) : a[i].id < t[j].id
  BY <1>1, <1>3 DEF Holds
<1>5. /\ \A i \in 1 .. Len(a \o t) : Holds(a, (a \o t)[i]) \/ Holds(t, (a \o t)[i])
      /\ \A i \in 1 .. Len(a \o b) : Holds(a, (a \o b)[i]) \/ Holds(b, (a \o b)[i])
      /\ a \o t \in Seq(Entries)
  <2>1. a \o t \in Seq(Entries) /\ a \o b \in Seq(Entries)
    BY <1>3, ConcatProperties
  <2>2. \A s \in Seq(Entries) : \A i \in 1 .. Len(s) : Holds(s, s[i])
    BY DEF Holds
  <2>. QED
    BY <2>1, <2>2, <1>3, AscendingParts
<1>6. Ascending(a \o t)
  BY <1>1, <1>3, <1>4, AscendingParts
<1>7. \A i \in 1 .. Len(a \o t) : Holds(a \o b, (a \o t)[i])
  <2> TAKE i \in 1 .. Len(a \o t)
  <2>1. CASE Holds(a, (a \o t)[i])
    BY <2>1, AscendingParts
  <2>2. CASE Holds(t, (a \o t)[i])
    <3>1. Holds(b, (a \o t)[i])
      BY <2>2, <1>3 DEF Holds
    <3>. QED
      BY <3>1, AscendingParts
  <2>. QED
    BY <2>1, <2>2, <1>5
<1>8. ASSUME NEW i \in 1 .. Len(a \o b), (a \o b)[i].id > logged - MaxRows
      PROVE  Holds(a \o t, (a \o b)[i])
  <2>1. CASE Holds(a, (a \o b)[i])
    BY <2>1, <1>3, AscendingParts
  <2>2. CASE Holds(b, (a \o b)[i])
    <3>1. Holds(t, (a \o b)[i])
      BY <2>2, <1>2, <1>8 DEF Trimmed, Holds
    <3>. QED
      BY <3>1, <1>3, AscendingParts
  <2>. QED
    BY <2>1, <2>2, <1>5
<1>. QED
  BY <1>5, <1>6, <1>7, <1>8 DEF Trimmed, t

-----------------------------------------------------------------------------
(* The log page.                                                           *)

LEMMA LogTypes ==
  ASSUME LogInv
  PROVE  /\ ring \in Seq(Entries) /\ rows \in Seq(Entries) /\ pending \in Seq(Entries)
         /\ Len(ring) \in Nat /\ Len(rows) \in Nat /\ Len(pending) \in Nat
         /\ Len(ring) <= MaxRows /\ Len(rows) <= MaxRows /\ Len(pending) <= MaxRows
         /\ logged \in Nat /\ logged <= MaxEntries
         /\ NewestTime(ring) \in Nat /\ NewestTime(ring) <= logged
         /\ source.from \in Nat /\ source.f \in Levels
         /\ ring # <<>> => Len(ring) \in 1 .. Len(ring)
         /\ \A i \in 1 .. Len(ring) :
               /\ ring[i].ts \in Nat \ {0} /\ ring[i].ts <= NewestTime(ring)
               /\ ring[i].id \in Nat /\ ring[i].id > logged - MaxRows /\ ring[i].id < logged + 1
<1>1. /\ ring \in Seq(Entries) /\ rows \in Seq(Entries) /\ pending \in Seq(Entries)
      /\ Len(ring) <= MaxRows /\ Len(rows) <= MaxRows /\ Len(pending) <= MaxRows
      /\ logged \in 0 .. MaxEntries /\ NewestTime(ring) <= logged
      /\ source.from \in 0 .. MaxEntries /\ source.f \in Levels
  BY DEF LogInv, TypeOK
<1>2. /\ Len(ring) \in Nat /\ Len(rows) \in Nat /\ Len(pending) \in Nat
      /\ logged \in Nat /\ logged <= MaxEntries /\ source.from \in Nat
      /\ ring # <<>> => Len(ring) \in 1 .. Len(ring)
  BY <1>1, RowsAssumption
<1>3. NewestTime(ring) \in Nat
  <2>1. CASE ring = <<>>
    BY <2>1 DEF NewestTime
  <2>2. CASE ring # <<>>
    BY <2>2, <1>1, <1>2, EntryOf DEF NewestTime
  <2>. QED
    BY <2>1, <2>2
<1>4. ASSUME NEW i \in 1 .. Len(ring)
      PROVE  /\ ring[i].ts \in Nat \ {0} /\ ring[i].ts <= NewestTime(ring)
             /\ ring[i].id \in Nat /\ ring[i].id > logged - MaxRows
             /\ ring[i].id < logged + 1
  <2>1. ring[i].ts \in Nat \ {0} /\ ring[i].id \in Nat
    BY <1>1, EntryOf
  <2>2. ring[i].id = logged - Len(ring) + i /\ Len(ring) <= logged
    BY <1>1 DEF LogInv, RingInv
  <2>3. ring[i].ts <= NewestTime(ring)
    <3>1. ring # <<>> /\ i \in DOMAIN ring /\ Len(ring) \in DOMAIN ring /\ i <= Len(ring)
      BY <1>1, <1>2
    <3>. QED
      BY <3>1 DEF LogInv, RingInv, NewestTime
  <2> DEFINE n == ring[i].id
             l == Len(ring)
  <2>4. n \in Nat /\ n = logged - l + i /\ l \in Nat /\ l <= MaxRows /\ logged \in Nat /\ i \in 1 .. l
    BY <2>1, <2>2, <1>1, <1>2
  <2>5. n > logged - MaxRows /\ n < logged + 1
    <3> HIDE DEF n, l
    <3>. QED
      BY <2>4, RowsAssumption
  <2>. QED
    BY <2>1, <2>3, <2>5
<1>. QED
  BY <1>1, <1>2, <1>3, <1>4

\* what the stream sends
LEMMA SentOf ==
  ASSUME LogInv, NEW s \in {ring, Fresh}
  PROVE  LET r == Matching(s, source.f)
         IN  /\ r \in Seq(Entries) /\ Len(r) \in Nat /\ Len(r) <= MaxRows /\ Ascending(r)
             /\ \A i \in 1 .. Len(r) :
                   /\ Matches(r[i], source.f) /\ Holds(ring, r[i])
                   /\ s = Fresh => r[i].ts > source.from
             /\ \A i \in 1 .. Len(ring) :
                   /\ Matches(ring[i], source.f)
                   /\ s = Fresh => ring[i].ts > source.from
                   => Holds(r, ring[i])
<1> DEFINE T == {e \in Entries : Matches(e, source.f)}
           N == {e \in Entries : e.ts > source.from}
           r == Matching(s, source.f)
<1>1. \A j, k \in 1 .. Len(ring) : j < k => ring[j].id < ring[k].id
  <2> TAKE j \in 1 .. Len(ring), k \in 1 .. Len(ring)
  <2>1. ring[j].id = logged - Len(ring) + j /\ ring[k].id = logged - Len(ring) + k
    BY LogTypes DEF LogInv, RingInv
  <2> DEFINE m == ring[j].id
             n == ring[k].id
             l == Len(ring)
  <2>2. m = logged - l + j /\ n = logged - l + k /\ j \in 1 .. l /\ k \in 1 .. l /\ l \in Nat /\ logged \in Nat
    BY <2>1, LogTypes
  <2>3. j < k => m < n
    <3> HIDE DEF m, n, l
    <3>. QED
      BY <2>2
  <2>. QED
    BY <2>3
<1>2. ring \in Seq(Entries) /\ Len(ring) \in Nat /\ Len(ring) <= MaxRows
  BY LogTypes
<1>3. /\ s \in Seq(Entries) /\ Len(s) \in Nat /\ Len(s) <= Len(ring)
      /\ \A j, k \in 1 .. Len(s) : j < k => s[j].id < s[k].id
      /\ \A i \in 1 .. Len(s) : Holds(ring, s[i]) /\ (s = Fresh => s[i].ts > source.from)
      /\ \A i \in 1 .. Len(ring) :
            (s = Fresh => ring[i].ts > source.from) => \E k \in 1 .. Len(s) : s[k] = ring[i]
  <2>1. CASE s # Fresh
    <3>1. s = ring
      BY <2>1
    <3>. QED
      BY <2>1, <3>1, <1>1, <1>2 DEF Holds
  <2>2. CASE s = Fresh
    <3>1. Kept(s, ring, N, Len(ring))
      BY <2>2, <1>2, Selected DEF Fresh
    <3>2. /\ s \in Seq(N) /\ Len(s) <= Len(ring) /\ Ascending(s)
          /\ \A i \in 1 .. Len(s) : \E k \in 1 .. Len(ring) : s[i] = ring[k]
          /\ \A k \in 1 .. Len(ring) : ring[k] \in N => Holds(s, ring[k])
      BY <3>1, <1>1 DEF Kept
    <3>3. /\ s \in Seq(Entries) /\ \A i \in 1 .. Len(s) : s[i] \in N
          /\ DOMAIN s = 1 .. Len(s) /\ Len(s) \in Nat
      BY <3>2
    <3>4. \A i \in 1 .. Len(s) : Holds(ring, s[i])
      <4>1. DOMAIN ring = 1 .. Len(ring)
        BY <1>2
      <4>. QED
        BY <4>1, <3>2 DEF Holds
    <3>5. \A j, k \in 1 .. Len(s) : j < k => s[j].id < s[k].id
      BY <3>2, <3>3 DEF Ascending
    <3>6. \A i \in 1 .. Len(ring) : ring[i].ts > source.from => ring[i] \in N
      <4>1. \A i \in 1 .. Len(ring) : ring[i] \in Entries
        BY <1>2
      <4>. QED
        BY <4>1
    <3>7. \A i \in 1 .. Len(ring) :
             ring[i].ts > source.from => \E k \in 1 .. Len(s) : s[k] = ring[i]
      BY <3>2, <3>3, <3>6 DEF Holds
    <3>. QED
      BY <2>2, <3>2, <3>3, <3>4, <3>5, <3>7
  <2>. QED
    BY <2>1, <2>2
<1>4. Kept(r, s, T, Len(s))
  BY <1>3, Selected DEF Matching
<1> HIDE DEF r
<1>5. /\ r \in Seq(T) /\ Len(r) <= Len(s) /\ Ascending(r)
      /\ \A i \in 1 .. Len(r) : \E k \in 1 .. Len(s) : r[i] = s[k]
      /\ \A k \in 1 .. Len(s) : s[k] \in T => Holds(r, s[k])
  BY <1>4, <1>3 DEF Kept
<1>6. r \in Seq(Entries) /\ Len(r) \in Nat /\ \A i \in 1 .. Len(r) : r[i] \in T
  BY <1>5
<1>7. Len(r) <= MaxRows
  BY <1>2, <1>3, <1>5, <1>6, RowsAssumption
<1>8. \A i \in 1 .. Len(r) :
         /\ Matches(r[i], source.f) /\ Holds(ring, r[i])
         /\ s = Fresh => r[i].ts > source.from
  BY <1>3, <1>5, <1>6
<1>9. \A i \in 1 .. Len(ring) : Matches(ring[i], source.f) => ring[i] \in T
  BY <1>2
<1>10. \A i \in 1 .. Len(ring) :
          /\ Matches(ring[i], source.f)
          /\ s = Fresh => ring[i].ts > source.from
          => Holds(r, ring[i])
  BY <1>3, <1>5, <1>9
<1>. QED
  BY <1>5, <1>6, <1>7, <1>8, <1>10 DEF r

\* of what a full buffer keeps
LEMMA NewestHolds ==
  ASSUME NEW a \in Seq(Entries), NEW b \in Seq(Entries)
  PROVE  LET t == Newest(a \o b)
         IN  /\ t \in Seq(Entries) /\ Len(t) <= MaxRows
             /\ \A i \in 1 .. Len(t) : Holds(a, t[i]) \/ Holds(b, t[i])
<1> DEFINE c == a \o b
           t == Newest(c)
<1>1. c \in Seq(Entries)
  BY ConcatProperties
<1>2. \A i \in 1 .. Len(c) : Holds(c, c[i])
  BY <1>1 DEF Holds
<1> HIDE DEF c
<1>3. /\ t \in Seq(Entries) /\ Len(t) <= MaxRows /\ Len(t) \in Nat
      /\ Len(t) = Len(c) - Over(Len(c)) /\ Over(Len(c)) \in Nat
      /\ \A i \in 1 .. Len(t) : t[i] = c[i + Over(Len(c))]
  BY <1>1, NewestOf
<1> HIDE DEF t
<1>4. ASSUME NEW i \in 1 .. Len(t) PROVE Holds(a, t[i]) \/ Holds(b, t[i])
  <2>1. i + Over(Len(c)) \in 1 .. Len(c)
    <3> DEFINE o == Over(Len(c))
               l == Len(c)
               k == Len(t)
    <3>1. l \in Nat /\ k \in Nat /\ o \in Nat /\ k = l - o /\ i \in 1 .. k
      BY <1>1, <1>3
    <3>2. i + o \in 1 .. l
      <4> HIDE DEF o, l, k
      <4>. QED
        BY <3>1
    <3>. QED
      BY <3>2
  <2>2. Holds(c, t[i])
    BY <2>1, <1>2, <1>3
  <2>. QED
    BY <2>2, AscendingParts DEF c
<1>. QED
  BY <1>3, <1>4 DEF t, c

LEMMA SeenAfter ==
  ASSUME LogInv, UNCHANGED <<ring, logged, cleared>>,
         NEW all \in Seq(Entries), Reached(all, logged + 1),
         Trimmed(rows' \o pending', all),
         source'.st = "open" /\ source'.from # 0 =>
            \A i \in 1 .. Len(ring) :
               IF ring[i].ts > source'.from THEN Reached(all, ring[i].id)
               ELSE Matches(ring[i], source'.f) /\ ring[i].id > cleared /\ ~ring[i].tie =>
                       Holds(all, ring[i])
  PROVE  SeenInv'
<1> DEFINE t == rows' \o pending'
<1>1. /\ t \in Seq(Entries) /\ Ascending(t) /\ DOMAIN t = 1 .. Len(t) /\ DOMAIN all = 1 .. Len(all)
      /\ \A i \in 1 .. Len(t) : Holds(all, t[i])
      /\ \A i \in 1 .. Len(all) : all[i].id > logged - MaxRows => Holds(t, all[i])
  BY DEF Trimmed
<1>2. ASSUME NEW n, Reached(all, n) PROVE Reached(t, n)
  <2> HIDE DEF t
  <2>. QED
    BY <1>1, <1>2 DEF Reached, Holds
<1>3. \A i \in 1 .. Len(ring) : Holds(all, ring[i]) => Holds(t, ring[i])
  <2> HIDE DEF t
  <2>. QED
    BY <1>1, LogTypes DEF Holds
<1>4. DOMAIN ring = 1 .. Len(ring)
  BY LogTypes
<1>5. source'.st = "open" /\ source'.from # 0 =>
         \A i \in 1 .. Len(ring) :
            IF ring[i].ts > source'.from THEN Reached(t, ring[i].id)
            ELSE Matches(ring[i], source'.f) /\ ring[i].id > cleared /\ ~ring[i].tie =>
                    Holds(t, ring[i])
  <2> HIDE DEF t
  <2>. QED
    BY <1>2, <1>3
<1>6. Ascending(t) /\ Reached(t, logged + 1)
  BY <1>1, <1>2
<1> HIDE DEF t
<1>7. rows' \o pending' = t
  BY DEF t
<1>. QED
  BY <1>4, <1>5, <1>6, <1>7 DEF SeenInv, Ascending, Reached, Holds, Matches

\* what is seen stays seen: another stream has sent nothing yet
LEMMA SeenQuiet ==
  ASSUME LogInv, UNCHANGED <<ring, logged, rows, pending, cleared, mixed>>,
         source' = source \/ source'.st # "open" \/ source'.from = 0
  PROVE  SeenInv'
BY DEF LogInv, SeenInv, Ascending, Reached, Holds, Matches

LEMMA LogInit == Init => LogInv
<1> SUFFICES ASSUME Init PROVE LogInv
  OBVIOUS
<1>1. /\ ring = <<>> /\ rows = <<>> /\ pending = <<>> /\ logged = 0
      /\ source = [f |-> "all", st |-> "connecting", from |-> 0]
      /\ level = "all" /\ timer = FALSE /\ mounted = TRUE /\ paused = FALSE
      /\ mixed = FALSE
  BY DEF Init, Opening
<1>2. TypeOK
  <2>1. source \in [f : Levels, st : {"none", "connecting", "open", "closed"}, from : 0 .. MaxEntries]
    BY <1>1, RowsAssumption DEF Levels
  <2>2. <<>> \in Seq(Entries) /\ Len(<<>>) = 0 /\ 0 \in 0 .. MaxEntries /\ 0 <= MaxRows
    BY RowsAssumption
  <2>3. level \in Levels /\ NewestTime(ring) = 0
    BY <1>1 DEF Levels, NewestTime
  <2>4. /\ ring \in Seq(Entries) /\ rows \in Seq(Entries) /\ pending \in Seq(Entries)
        /\ Len(ring) <= MaxRows /\ Len(rows) <= MaxRows /\ Len(pending) <= MaxRows
    BY <1>1, <2>2, Zenon
  <2>5. logged \in 0 .. MaxEntries /\ NewestTime(ring) <= logged
    BY <1>1, <2>2, <2>3
  <2>6. /\ paused \in BOOLEAN /\ mounted \in BOOLEAN /\ timer \in BOOLEAN
        /\ (~paused => pending = <<>>)
    BY <1>1, Zenon
  <2>. QED
    BY <2>1, <2>3, <2>4, <2>5, <2>6, Zenon DEF TypeOK
<1>3. RowsMatchFilter
  BY <1>1 DEF RowsMatchFilter
<1>4. RingInv
  BY <1>1 DEF RingInv, NewestTime
<1>5. SeenInv
  <2>1. rows \o pending = <<>>
    BY <1>1
  <2>. QED
    BY <1>1, <2>1 DEF SeenInv, Ascending, Reached
<1>. QED
  BY <1>1, <1>2, <1>3, <1>4, <1>5 DEF LogInv

LEMMA LogSnapshot ==
  ASSUME LogInv, Snapshot
  PROVE  LogInv'
<1> DEFINE r == Matching(ring, source.f)
<1>1. /\ source.st = "open" /\ source.from = 0
      /\ rows' = r /\ source' = [source EXCEPT !.from = NewestTime(ring)]
      /\ mixed' = (pending # <<>>)
      /\ UNCHANGED <<ring, logged, level, timer, mounted, paused, opened, late, pending, cleared>>
  BY DEF Snapshot, serverVars, pageVars
<1>2. /\ r \in Seq(Entries) /\ Len(r) \in Nat /\ Len(r) <= MaxRows /\ Ascending(r)
      /\ \A i \in 1 .. Len(r) : Matches(r[i], source.f) /\ Holds(ring, r[i])
      /\ ring # Fresh => \A i \in 1 .. Len(ring) : Matches(ring[i], source.f) => Holds(r, ring[i])
  BY SentOf
<1>3. \A i \in 1 .. Len(ring) : Matches(ring[i], source.f) => Holds(r, ring[i])
  <2>1. \A i \in 1 .. Len(ring) : ring[i].ts > source.from
    BY <1>1, LogTypes
  <2>. QED
    BY <2>1, SentOf
<1> HIDE DEF r
<1>4. /\ source'.st = "open" /\ source'.f = source.f /\ source'.from = NewestTime(ring)
      /\ source' \in [f : Levels, st : {"none", "connecting", "open", "closed"}, from : 0 .. MaxEntries]
  <2>1. source \in [f : Levels, st : {"none", "connecting", "open", "closed"}, from : 0 .. MaxEntries]
    BY DEF LogInv, TypeOK
  <2>2. NewestTime(ring) \in 0 .. MaxEntries
    BY LogTypes, RowsAssumption
  <2>. QED
    BY <1>1, <2>1, <2>2
<1>5. TypeOK'
  BY <1>1, <1>2, <1>4 DEF LogInv, TypeOK, NewestTime
<1>6. RowsMatchFilter'
  BY <1>1, <1>2, <1>4 DEF LogInv, RowsMatchFilter, Matches
<1>7. RingInv'
  BY <1>1, <1>4, LogTypes DEF LogInv, RingInv, NewestTime
<1>8. SeenInv'
  <2>1. CASE pending # <<>>
    BY <1>1, <2>1 DEF SeenInv
  <2>2. CASE pending = <<>>
    <3>1. r \o pending' = r
      BY <1>1, <1>2, <2>2, ConcatEmptySeq
    <3>2. \A i \in 1 .. Len(r) : Holds(r, r[i])
      BY <1>2 DEF Holds
    <3>3. Trimmed(rows' \o pending', r)
      BY <1>1, <1>2, <3>1, <3>2 DEF Trimmed
    <3>4. Reached(r, logged + 1)
      <4>1. DOMAIN ring = 1 .. Len(ring)
        BY LogTypes
      <4>2. \A i \in 1 .. Len(r) : r[i].id < logged + 1
        BY <4>1, <1>2, LogTypes DEF Holds
      <4>. QED
        BY <4>2, <1>2 DEF Reached
    <3>5. \A i \in 1 .. Len(ring) : ~(ring[i].ts > source'.from)
      BY <1>4, LogTypes
    <3>. QED
      BY <1>1, <1>2, <1>3, <1>4, <3>3, <3>4, <3>5, SeenAfter
  <2>. QED
    BY <2>1, <2>2
<1>. QED
  BY <1>1, <1>4, <1>5, <1>6, <1>7, <1>8 DEF LogInv

LEMMA LogPoll ==
  ASSUME LogInv, Poll
  PROVE  LogInv'
<1> DEFINE r == Matching(Fresh, source.f)
           seen == rows \o pending
           all == seen \o r
<1>1. /\ source.st = "open" /\ source.from # 0
      /\ IF paused THEN pending' = Newest(pending \o r) /\ rows' = rows
                   ELSE rows' = Newest(rows \o r) /\ pending' = pending
      /\ source' = [source EXCEPT !.from = NewestTime(ring)]
      /\ UNCHANGED <<ring, logged, level, timer, mounted, paused, opened, late, cleared, mixed>>
  BY DEF Poll, serverVars, pageVars, Held
<1>2. /\ r \in Seq(Entries) /\ Len(r) \in Nat /\ Len(r) <= MaxRows /\ Ascending(r)
      /\ \A i \in 1 .. Len(r) :
            Matches(r[i], source.f) /\ Holds(ring, r[i]) /\ r[i].ts > source.from
      /\ \A i \in 1 .. Len(ring) :
            Matches(ring[i], source.f) /\ ring[i].ts > source.from => Holds(r, ring[i])
  BY SentOf
<1> HIDE DEF r
<1>3. /\ rows \in Seq(Entries) /\ pending \in Seq(Entries) /\ (~paused => pending = <<>>)
      /\ seen \in Seq(Entries) /\ all \in Seq(Entries)
  <2>1. rows \in Seq(Entries) /\ pending \in Seq(Entries) /\ (~paused => pending = <<>>)
    BY DEF LogInv, TypeOK
  <2>2. seen \in Seq(Entries)
    BY <2>1, ConcatProperties
  <2>3. all \in Seq(Entries)
    <3> HIDE DEF seen
    <3>. QED
      BY <2>2, <1>2, ConcatProperties
  <2>. QED
    BY <2>1, <2>2, <2>3
<1>4. /\ source'.st = "open" /\ source'.f = source.f /\ source'.from = NewestTime(ring)
      /\ source' \in [f : Levels, st : {"none", "connecting", "open", "closed"}, from : 0 .. MaxEntries]
  <2>1. source \in [f : Levels, st : {"none", "connecting", "open", "closed"}, from : 0 .. MaxEntries]
    BY DEF LogInv, TypeOK
  <2>2. NewestTime(ring) \in 0 .. MaxEntries
    BY LogTypes, RowsAssumption
  <2>. QED
    BY <1>1, <2>1, <2>2
<1>5. /\ rows' \in Seq(Entries) /\ Len(rows') <= MaxRows
      /\ pending' \in Seq(Entries) /\ Len(pending') <= MaxRows
      /\ \A i \in 1 .. Len(rows') : Holds(rows, rows'[i]) \/ Holds(r, rows'[i])
      /\ \A i \in 1 .. Len(pending') : Holds(pending, pending'[i]) \/ Holds(r, pending'[i])
  <2>1. \A q \in Seq(Entries) : \A i \in 1 .. Len(q) : Holds(q, q[i])
    BY DEF Holds
  <2>2. CASE paused
    BY <2>1, <2>2, <1>1, <1>2, <1>3, LogTypes, NewestHolds
  <2>3. CASE ~paused
    BY <2>1, <2>3, <1>1, <1>2, <1>3, LogTypes, NewestHolds
  <2>. QED
    BY <2>2, <2>3
<1>6. TypeOK'
  BY <1>1, <1>3, <1>4, <1>5 DEF LogInv, TypeOK, NewestTime
<1>7. RowsMatchFilter'
  <2> SUFFICES ASSUME mounted PROVE RowsMatchFilter'
    BY <1>1 DEF RowsMatchFilter
  <2>1. /\ \A i \in DOMAIN rows : Matches(rows[i], source.f)
        /\ \A i \in DOMAIN pending : Matches(pending[i], source.f)
        /\ source.f = level \/ timer
    BY DEF LogInv, RowsMatchFilter
  <2>2. \A e : Holds(rows, e) \/ Holds(pending, e) \/ Holds(r, e) => Matches(e, source.f)
    BY <2>1, <1>2 DEF Holds
  <2>3. \A i \in 1 .. Len(rows') : Matches(rows'[i], source.f)
    BY <2>2, <1>5
  <2>4. \A i \in 1 .. Len(pending') : Matches(pending'[i], source.f)
    BY <2>2, <1>5
  <2>5. DOMAIN rows' = 1 .. Len(rows') /\ DOMAIN pending' = 1 .. Len(pending')
    BY <1>5
  <2>. QED
    BY <2>1, <2>3, <2>4, <2>5, <1>1, <1>4 DEF RowsMatchFilter, Matches
<1>8. RingInv'
  BY <1>1, <1>4, LogTypes DEF LogInv, RingInv, NewestTime
<1>9. SeenInv'
  <2> SUFFICES ASSUME ~mixed PROVE SeenInv'
    BY <1>1 DEF SeenInv
  <2>1. /\ Ascending(seen) /\ Reached(seen, logged + 1)
        /\ \A i \in 1 .. Len(ring) :
              IF ring[i].ts > source.from THEN Reached(seen, ring[i].id)
              ELSE Matches(ring[i], source.f) /\ ring[i].id > cleared /\ ~ring[i].tie =>
                      Holds(seen, ring[i])
    <3>1. DOMAIN ring = 1 .. Len(ring)
      BY LogTypes
    <3>. QED
      BY <3>1, <1>1 DEF LogInv, SeenInv
  <2>2. \A i \in 1 .. Len(seen), j \in 1 .. Len(r) : seen[i].id < r[j].id
    <3> HIDE DEF seen
    <3> TAKE i \in 1 .. Len(seen), j \in 1 .. Len(r)
    <3>1. PICK k \in 1 .. Len(ring) : r[j] = ring[k]
      <4>1. DOMAIN ring = 1 .. Len(ring)
        BY LogTypes
      <4>. QED
        BY <4>1, <1>2 DEF Holds
    <3>2. Reached(seen, ring[k].id)
      BY <3>1, <1>2, <2>1
    <3>. QED
      BY <3>1, <3>2, <1>3 DEF Reached
  <2>3. Reached(r, logged + 1)
    <3>1. DOMAIN ring = 1 .. Len(ring) /\ DOMAIN r = 1 .. Len(r)
      BY <1>2, LogTypes
    <3>2. \A i \in 1 .. Len(r) : r[i].id < logged + 1
      BY <3>1, <1>2, LogTypes DEF Holds
    <3>. QED
      BY <3>1, <3>2 DEF Reached
  <2> HIDE DEF seen
  <2>4. /\ Ascending(all) /\ Reached(all, logged + 1)
        /\ \A e : Holds(all, e) <=> Holds(seen, e) \/ Holds(r, e)
    BY <2>1, <2>2, <2>3, <1>2, <1>3, AscendingParts
  <2>5. Trimmed(rows' \o pending', all)
    <3>1. CASE paused
      <4>1. pending \o r \in Seq(Entries)
        BY <1>2, <1>3, ConcatProperties
      <4>2. all = rows \o (pending \o r)
        BY <1>2, <1>3, ConcatAssociative DEF seen
      <4>. QED
        BY <3>1, <4>1, <4>2, <2>4, <1>1, <1>3, LogTypes, TrimmedTail
    <3>2. CASE ~paused
      <4>1. seen = rows
        BY <3>2, <1>3, ConcatEmptySeq DEF seen
      <4>2. Trimmed(Newest(all), all)
        BY <2>4, <1>3, LogTypes, TrimmedNewest
      <4>3. rows' \o pending' = rows'
        BY <3>2, <1>1, <1>3, <1>5, ConcatEmptySeq
      <4>. QED
        BY <3>2, <4>1, <4>2, <4>3, <1>1
    <3>. QED
      BY <3>1, <3>2
  <2>6. \A i \in 1 .. Len(ring) :
           /\ ~(ring[i].ts > source'.from)
           /\ Matches(ring[i], source'.f) /\ ring[i].id > cleared /\ ~ring[i].tie =>
                 Holds(all, ring[i])
    <3> TAKE i \in 1 .. Len(ring)
    <3>1. ~(ring[i].ts > source'.from)
      BY <1>4, LogTypes
    <3>2. CASE ring[i].ts > source.from
      BY <3>1, <3>2, <2>4, <1>2, <1>4
    <3>3. CASE ~(ring[i].ts > source.from)
      BY <3>1, <3>3, <2>1, <2>4, <1>4
    <3>. QED
      BY <3>2, <3>3
  <2> HIDE DEF all
  <2>. QED
    BY <2>4, <2>5, <2>6, <1>1, <1>3, SeenAfter
<1>. QED
  BY <1>1, <1>4, <1>6, <1>7, <1>8, <1>9 DEF LogInv

LEMMA LogLogs ==
  ASSUME LogInv, NEW k \in Kinds, NEW tie \in BOOLEAN, Log(k, tie)
  PROVE  LogInv'
<1> DEFINE e == [id |-> logged + 1, kind |-> k, tie |-> tie,
                 ts |-> NewestTime(ring) + (IF tie THEN 0 ELSE 1)]
           c == Append(ring, e)
           o == Over(Len(c))
<1>1. /\ logged < MaxEntries /\ (tie => ring # <<>>) /\ logged' = logged + 1
      /\ ring' = Newest(c)
      /\ UNCHANGED <<level, timer, mounted, paused, opened, late, source, rows, pending,
                     cleared, mixed>>
  BY DEF Log, pageVars
<1>2. /\ ring \in Seq(Entries) /\ Len(ring) \in Nat /\ Len(ring) <= MaxRows
      /\ logged \in Nat /\ NewestTime(ring) \in Nat /\ NewestTime(ring) <= logged
      /\ source.from \in Nat /\ DOMAIN ring = 1 .. Len(ring)
  BY LogTypes
<1>3. /\ Len(ring) <= logged /\ source.from <= NewestTime(ring)
      /\ \A i \in 1 .. Len(ring) : ring[i].id = logged - Len(ring) + i
      /\ \A i, j \in 1 .. Len(ring) : i <= j => ring[i].ts <= ring[j].ts
  BY <1>2 DEF LogInv, RingInv
<1>4. /\ e.id = logged + 1 /\ e.tie = tie /\ e.kind = k
      /\ e.ts = NewestTime(ring) + (IF tie THEN 0 ELSE 1)
      /\ e.ts \in Nat \ {0} /\ NewestTime(ring) <= e.ts /\ e.ts <= logged + 1
      /\ e \in Entries
  <2>1. tie => NewestTime(ring) # 0
    <3>1. ring # <<>> => ring[Len(ring)].ts \in Nat \ {0}
      BY LogTypes
    <3>. QED
      BY <1>1, <3>1 DEF NewestTime
  <2>2. /\ NewestTime(ring) + (IF tie THEN 0 ELSE 1) \in 1 .. MaxEntries
        /\ logged + 1 \in 1 .. MaxEntries
    BY <2>1, <1>1, <1>2, RowsAssumption
  <2>3. e \in Entries
    BY <2>2 DEF Entries
  <2>. QED
    BY <2>1, <2>2, <2>3, <1>2
<1> HIDE DEF e
<1>5. /\ c \in Seq(Entries) /\ Len(c) = Len(ring) + 1 /\ c[Len(ring) + 1] = e
      /\ \A i \in 1 .. Len(ring) : c[i] = ring[i]
  BY <1>2, <1>4
<1>6. \A i \in 1 .. Len(c) :
         /\ c[i].id = logged + 1 - Len(c) + i
         /\ i = Len(c) => c[i] = e
         /\ i # Len(c) => i \in 1 .. Len(ring) /\ c[i] = ring[i]
  <2> TAKE i \in 1 .. Len(c)
  <2>1. CASE i = Len(ring) + 1
    <3>1. logged + 1 - Len(c) + i = logged + 1
      BY <2>1, <1>2, <1>5
    <3>. QED
      BY <3>1, <2>1, <1>4, <1>5
  <2>2. CASE i \in 1 .. Len(ring)
    <3>1. logged + 1 - Len(c) + i = logged - Len(ring) + i /\ i # Len(c)
      BY <2>2, <1>2, <1>5
    <3>. QED
      BY <3>1, <2>2, <1>3, <1>5
  <2>. QED
    BY <2>1, <2>2, <1>2, <1>5
<1> HIDE DEF c
<1>7. /\ ring' \in Seq(Entries) /\ Len(ring') = Len(c) - o /\ o \in Nat
      /\ Len(ring') <= MaxRows /\ Len(ring') \in Nat /\ DOMAIN ring' = 1 .. Len(ring')
      /\ \A i \in 1 .. Len(ring') : ring'[i] = c[i + o]
  <2> DEFINE q == Newest(c)
  <2>1. /\ q \in Seq(Entries) /\ Len(q) = Len(c) - o /\ o \in Nat
        /\ Len(q) <= MaxRows /\ Len(q) \in Nat
        /\ \A i \in 1 .. Len(q) : q[i] = c[i + o]
    BY <1>5, NewestOf
  <2>2. ring' = q
    BY <1>1
  <2> HIDE DEF q, o
  <2>3. DOMAIN q = 1 .. Len(q)
    BY <2>1
  <2>. QED
    BY <2>1, <2>2, <2>3
<1> HIDE DEF o
<1>8. \A i \in 1 .. Len(ring') : i + o \in 1 .. Len(c) /\ (i + o = Len(c) <=> i = Len(ring'))
  <2> DEFINE l == Len(ring')
             n == Len(c)
  <2>1. l = n - o /\ n \in Nat /\ o \in Nat /\ l \in Nat
    BY <1>2, <1>5, <1>7
  <2>2. \A i \in 1 .. l : i + o \in 1 .. n /\ (i + o = n <=> i = l)
    <3> HIDE DEF l, n
    <3>. QED
      BY <2>1
  <2>. QED
    BY <2>2
<1>9. Len(ring') # 0
  <2>1. Len(c) # 0 /\ Len(c) \in Nat /\ o = IF Len(c) > MaxRows THEN Len(c) - MaxRows ELSE 0
    BY <1>2, <1>5 DEF o, Over
  <2>. QED
    BY <2>1, <1>7, RowsAssumption
<1>10. NewestTime(ring') = e.ts
  <2>1. Len(ring') \in 1 .. Len(ring') /\ ring' # <<>>
    BY <1>7, <1>9
  <2>2. ring'[Len(ring')] = e
    BY <2>1, <1>6, <1>7, <1>8
  <2>. QED
    BY <2>1, <2>2 DEF NewestTime
<1>11. TypeOK'
  <2>1. logged' \in 0 .. MaxEntries /\ NewestTime(ring') <= logged'
    BY <1>1, <1>2, <1>4, <1>10, RowsAssumption
  <2>. QED
    BY <2>1, <1>1, <1>7 DEF LogInv, TypeOK, NewestTime
<1>12. RowsMatchFilter'
  BY <1>1 DEF LogInv, RowsMatchFilter, Matches
<1>13. RingInv'
  <2>1. Len(ring') <= logged'
    BY <1>1, <1>2, <1>3, <1>5, <1>7
  <2>2. source'.from <= NewestTime(ring')
    BY <1>1, <1>2, <1>3, <1>4, <1>10
  <2>3. ASSUME NEW i \in 1 .. Len(ring') PROVE ring'[i].id = logged' - Len(ring') + i
    <3>1. ring'[i].id = logged + 1 - Len(c) + (i + o)
      BY <1>6, <1>7, <1>8
    <3> DEFINE l == Len(ring')
               n == Len(c)
    <3>2. l = n - o /\ n \in Nat /\ o \in Nat /\ l \in Nat /\ logged \in Nat /\ i \in 1 .. l
      BY <1>2, <1>5, <1>7
    <3>3. logged + 1 - n + (i + o) = logged + 1 - l + i
      <4> HIDE DEF l, n
      <4>. QED
        BY <3>2
    <3>. QED
      <4> DEFINE x == ring'[i].id
                 y == logged'
      <4>1. x = logged + 1 - n + (i + o) /\ y = logged + 1
        BY <3>1, <1>1
      <4>2. x = y - l + i
        <5> HIDE DEF x, y, l, n
        <5>. QED
          BY <4>1, <3>2
      <4>. QED
        BY <4>2
  <2>4. ASSUME NEW i \in 1 .. Len(ring'), NEW j \in 1 .. Len(ring'), i <= j
        PROVE  ring'[i].ts <= ring'[j].ts
    <3>1. ring'[i] = c[i + o] /\ ring'[j] = c[j + o] /\ i + o <= j + o
      BY <2>4, <1>7
    <3>2. \A n \in 1 .. Len(ring) : ring[n].ts <= NewestTime(ring) /\ ring[n].ts \in Nat
      BY LogTypes
    <3>3. CASE j + o = Len(c)
      <4>1. c[j + o] = e
        BY <3>3, <1>6, <1>8
      <4>2. CASE i + o = Len(c)
        BY <4>1, <4>2, <3>1, <3>3, <1>4
      <4>3. CASE i + o # Len(c)
        <5>1. i + o \in 1 .. Len(ring) /\ c[i + o] = ring[i + o]
          BY <4>3, <1>6, <1>8
        <5>2. ring[i + o].ts <= e.ts
          <6> DEFINE x == ring[i + o].ts
                     y == e.ts
                     z == NewestTime(ring)
          <6>1. x \in Nat /\ y \in Nat /\ z \in Nat /\ x <= z /\ z <= y
            BY <5>1, <3>2, <1>2, <1>4
          <6> HIDE DEF x, y, z
          <6>2. x <= y
            BY <6>1
          <6>. QED
            BY <6>2 DEF x, y
        <5>. QED
          BY <5>1, <5>2, <4>1, <3>1
      <4>. QED
        BY <4>2, <4>3
    <3>4. CASE j + o # Len(c)
      <4>1. /\ j + o \in 1 .. Len(ring) /\ c[j + o] = ring[j + o]
            /\ i + o \in 1 .. Len(c) /\ i + o <= j + o
        BY <3>1, <3>4, <1>6, <1>8
      <4>2. i + o # Len(c)
        BY <4>1, <1>2, <1>5, <1>7
      <4>3. i + o \in 1 .. Len(ring) /\ c[i + o] = ring[i + o]
        BY <4>1, <4>2, <1>6
      <4>. QED
        BY <4>1, <4>3, <3>1, <1>3
    <3>. QED
      BY <3>3, <3>4
  <2>. QED
    BY <2>1, <2>2, <2>3, <2>4, <1>7 DEF RingInv
<1>14. SeenInv'
  <2> SUFFICES ASSUME ~mixed PROVE SeenInv'
    BY <1>1 DEF SeenInv
  <2> DEFINE seen == rows \o pending
             sent == source.st = "open" /\ source.from # 0
  <2>1. /\ Ascending(seen) /\ Reached(seen, logged + 1) /\ seen \in Seq(Entries)
        /\ sent => \A i \in 1 .. Len(ring) :
              IF ring[i].ts > source.from THEN Reached(seen, ring[i].id)
              ELSE Matches(ring[i], source.f) /\ ring[i].id > cleared /\ ~ring[i].tie =>
                      Holds(seen, ring[i])
    BY <1>2, LogTypes, ConcatProperties DEF LogInv, SeenInv
  <2> HIDE DEF seen
  <2>2. Reached(seen, logged + 1 + 1)
    <3>1. \A i \in 1 .. Len(seen) : seen[i].id \in Nat /\ seen[i].id < logged + 1
      BY <2>1, EntryOf DEF Reached
    <3>2. DOMAIN seen = 1 .. Len(seen)
      BY <2>1
    <3>3. \A n \in Nat : n < logged + 1 => n < logged + 1 + 1
      BY <1>2
    <3>. QED
      BY <3>1, <3>2, <3>3 DEF Reached
  <2>3. ASSUME sent, NEW i \in 1 .. Len(ring')
        PROVE  IF ring'[i].ts > source.from THEN Reached(seen, ring'[i].id)
               ELSE Matches(ring'[i], source.f) /\ ring'[i].id > cleared /\ ~ring'[i].tie =>
                       Holds(seen, ring'[i])
    <3>1. CASE i + o = Len(c)
      <4>1. ring'[i] = e
        BY <3>1, <1>6, <1>7, <1>8
      <4>2. tie \/ e.ts > source.from
        BY <1>2, <1>3, <1>4
      <4>. QED
        BY <4>1, <4>2, <2>1, <1>4
    <3>2. CASE i + o # Len(c)
      <4>1. i + o \in 1 .. Len(ring) /\ ring'[i] = ring[i + o]
        BY <3>2, <1>6, <1>7, <1>8
      <4>. QED
        BY <4>1, <2>1, <2>3
    <3>. QED
      BY <3>1, <3>2
  <2>4. rows' \o pending' = seen
    BY <1>1 DEF seen
  <2>5. sent => \A i \in DOMAIN ring' :
                   IF ring'[i].ts > source.from THEN Reached(seen, ring'[i].id)
                   ELSE Matches(ring'[i], source.f) /\ ring'[i].id > cleared /\ ~ring'[i].tie =>
                           Holds(seen, ring'[i])
    BY <2>3, <1>7
  <2>. QED
    BY <2>5, <2>2, <2>1, <2>4, <1>1 DEF SeenInv, Ascending, Reached, Holds, Matches
<1>. QED
  BY <1>1, <1>11, <1>12, <1>13, <1>14 DEF LogInv

\* a page whose buffers are emptied has nothing to answer for
LEMMA LogEmptied ==
  ASSUME LogInv, rows' = <<>>, pending' = <<>>, UNCHANGED <<ring, logged>>,
         source' \in [f : Levels, st : {"none", "connecting", "open", "closed"}, from : 0 .. MaxEntries],
         source'.from <= NewestTime(ring),
         source'.st = "open" /\ source'.from # 0 => cleared' = logged,
         level' \in Levels, paused' \in BOOLEAN, mounted' \in BOOLEAN, timer' \in BOOLEAN,
         mounted' => source'.f = level' \/ timer',
         ~mounted' /\ (timer' \/ source'.st # "none") => late'
  PROVE  LogInv'
<1>1. TypeOK'
  <2>1. <<>> \in Seq(Entries) /\ Len(<<>>) = 0 /\ 0 <= MaxRows
    BY RowsAssumption
  <2>. QED
    BY <2>1 DEF LogInv, TypeOK, NewestTime
<1>2. RowsMatchFilter'
  BY DEF RowsMatchFilter, Matches
<1>3. RingInv'
  BY DEF LogInv, RingInv, NewestTime
<1>4. SeenInv'
  <2>1. rows' \o pending' = <<>> /\ DOMAIN <<>> = {}
    OBVIOUS
  <2>2. Ascending(<<>>) /\ \A n : Reached(<<>>, n)
    BY <2>1 DEF Ascending, Reached
  <2>3. \A i \in 1 .. Len(ring) : ~(ring[i].id > logged)
    <3>1. \A i \in 1 .. Len(ring) : ring[i].id \in Nat /\ ring[i].id < logged + 1 /\ logged \in Nat
      BY LogTypes
    <3>2. \A n \in Nat : n < logged + 1 /\ logged \in Nat => ~(n > logged)
      OBVIOUS
    <3>. QED
      BY <3>1, <3>2
  <2>4. DOMAIN ring = 1 .. Len(ring)
    BY LogTypes
  <2>5. ASSUME source'.st = "open" /\ source'.from # 0, NEW i \in 1 .. Len(ring)
        PROVE  ~(ring[i].id > cleared')
    BY <2>3, <2>5
  <2>. QED
    BY <2>1, <2>2, <2>4, <2>5 DEF SeenInv, Ascending, Reached, Holds, Matches
<1>. QED
  BY <1>1, <1>2, <1>3, <1>4 DEF LogInv

LEMMA LogReset ==
  ASSUME LogInv, reconnect \/ handleClear \/ Leave
  PROVE  LogInv'
<1>1. /\ source \in [f : Levels, st : {"none", "connecting", "open", "closed"}, from : 0 .. MaxEntries]
      /\ level \in Levels /\ paused \in BOOLEAN /\ mounted \in BOOLEAN /\ timer \in BOOLEAN
      /\ mounted => source.f = level \/ timer
      /\ ~mounted /\ (timer \/ source.st # "none") => late
      /\ source.from <= NewestTime(ring) /\ 0 <= NewestTime(ring)
      /\ source.st \in {"none", "connecting", "open", "closed"}
  BY LogTypes DEF LogInv, TypeOK, RowsMatchFilter, RingInv
<1>2. \A f \in Levels : /\ Opening(f) \in [f : Levels, st : {"none", "connecting", "open", "closed"}, from : 0 .. MaxEntries]
                        /\ Opening(f).from = 0 /\ Opening(f).f = f /\ Opening(f).st = "connecting"
  BY RowsAssumption DEF Opening
<1>3. /\ NoSource \in [f : Levels, st : {"none", "connecting", "open", "closed"}, from : 0 .. MaxEntries]
      /\ NoSource.from = 0 /\ NoSource.st = "none"
  BY RowsAssumption DEF NoSource, Levels
<1>4. CASE reconnect
  <2>1. /\ timer /\ timer' = FALSE /\ source' = Opening(level) /\ rows' = <<>> /\ pending' = <<>>
        /\ UNCHANGED <<ring, logged, level, mounted, paused, late>>
    BY <1>4 DEF reconnect, Emptied, serverVars
  <2>. QED
    BY <2>1, <1>1, <1>2, LogEmptied
<1>5. CASE handleClear
  <2>1. /\ rows' = <<>> /\ pending' = <<>> /\ cleared' = logged
        /\ UNCHANGED <<ring, logged, level, timer, mounted, paused, opened, late, source>>
    BY <1>5 DEF handleClear, serverVars, pageVars
  <2>. QED
    BY <2>1, <1>1, LogEmptied
<1>6. CASE Leave
  <2>1. /\ mounted' = FALSE /\ late' = timer /\ source' = NoSource
        /\ rows' = <<>> /\ pending' = <<>>
        /\ UNCHANGED <<ring, logged, level, timer, paused>>
    BY <1>6 DEF Leave, Unmounted, serverVars
  <2>. QED
    BY <2>1, <1>1, <1>3, LogEmptied
<1>. QED
  BY <1>4, <1>5, <1>6

LEMMA LogSourced ==
  ASSUME LogInv, Connected \/ Lost \/ Refused \/ \E f \in Levels : SetLevel(f)
  PROVE  LogInv'
<1>1. /\ UNCHANGED <<ring, logged, mounted, paused, rows, pending, cleared, mixed, late>>
      /\ \/ source' = source /\ mounted /\ level' \in Levels /\ timer' = TRUE
         \/ /\ source.st # "none" /\ UNCHANGED <<level, timer>>
            /\ \/ source' = [source EXCEPT !.st = "open", !.from = 0]
               \/ source' = [source EXCEPT !.st = "connecting"]
               \/ source' = [source EXCEPT !.st = "closed"]
  BY DEF Connected, Lost, Refused, SetLevel, serverVars, pageVars
<1>2. source \in [f : Levels, st : {"none", "connecting", "open", "closed"}, from : 0 .. MaxEntries]
  BY DEF LogInv, TypeOK
<1>3. /\ source' \in [f : Levels, st : {"none", "connecting", "open", "closed"}, from : 0 .. MaxEntries]
      /\ source'.f = source.f /\ (source'.from = source.from \/ source'.from = 0)
      /\ source' = source \/ source'.st # "open" \/ source'.from = 0
      /\ source'.st # "none" => source.st # "none"
  <2>1. CASE source' = source
    BY <2>1, <1>2
  <2>2. CASE source' = [source EXCEPT !.st = "open", !.from = 0] /\ source.st # "none"
    <3> DEFINE R == [f : Levels, st : {"none", "connecting", "open", "closed"}, from : 0 .. MaxEntries]
               q == [source EXCEPT !.st = "open"]
    <3>1. q \in R /\ q.f = source.f /\ q.st = "open"
      BY <1>2
    <3>2. source' = [q EXCEPT !.from = 0] /\ 0 \in 0 .. MaxEntries
      BY <2>2, RowsAssumption
    <3> HIDE DEF q
    <3>3. source' \in R /\ source'.f = source.f /\ source'.from = 0 /\ source'.st = "open"
      BY <3>1, <3>2
    <3>. QED
      BY <3>3, <2>2
  <2>3. CASE source' = [source EXCEPT !.st = "connecting"] /\ source.st # "none"
    BY <2>3, <1>2
  <2>4. CASE source' = [source EXCEPT !.st = "closed"] /\ source.st # "none"
    BY <2>4, <1>2
  <2>. QED
    BY <2>1, <2>2, <2>3, <2>4, <1>1
<1>4. TypeOK'
  BY <1>1, <1>3 DEF LogInv, TypeOK, NewestTime
<1>5. RowsMatchFilter'
  BY <1>1, <1>3 DEF LogInv, RowsMatchFilter, Matches
<1>6. RingInv'
  BY <1>1, <1>3, LogTypes DEF LogInv, RingInv, NewestTime
<1>7. SeenInv'
  BY <1>1, <1>3, SeenQuiet
<1>. QED
  BY <1>1, <1>3, <1>4, <1>5, <1>6, <1>7 DEF LogInv

LEMMA LogPaused ==
  ASSUME LogInv, togglePause
  PROVE  LogInv'
<1>1. /\ paused' = ~paused /\ mounted
      /\ IF paused THEN rows' = Newest(rows \o pending) /\ pending' = <<>>
                   ELSE UNCHANGED <<rows, pending>>
      /\ UNCHANGED <<ring, logged, level, timer, mounted, source, opened, cleared, mixed, late>>
  BY DEF togglePause, Resumed, serverVars
<1>2. /\ rows \in Seq(Entries) /\ pending \in Seq(Entries) /\ paused \in BOOLEAN
      /\ rows \o pending \in Seq(Entries) /\ <<>> \in Seq(Entries) /\ Len(<<>>) = 0
      /\ Len(rows) <= MaxRows /\ Len(pending) <= MaxRows /\ 0 <= MaxRows
      /\ (~paused => pending = <<>>)
  BY ConcatProperties, RowsAssumption DEF LogInv, TypeOK
<1>3. /\ rows' \in Seq(Entries) /\ Len(rows') <= MaxRows
      /\ pending' \in Seq(Entries) /\ Len(pending') <= MaxRows
      /\ ~paused' => pending' = <<>>
      /\ \A i \in 1 .. Len(rows') : Holds(rows, rows'[i]) \/ Holds(pending, rows'[i])
      /\ \A i \in 1 .. Len(pending') : Holds(pending, pending'[i])
  <2>1. \A q \in Seq(Entries) : \A i \in 1 .. Len(q) : Holds(q, q[i])
    BY DEF Holds
  <2>2. CASE paused
    BY <2>2, <1>1, <1>2, NewestHolds
  <2>3. CASE ~paused
    BY <2>1, <2>3, <1>1, <1>2
  <2>. QED
    BY <2>2, <2>3
<1>4. TypeOK'
  BY <1>1, <1>2, <1>3 DEF LogInv, TypeOK, NewestTime
<1>5. RowsMatchFilter'
  <2>1. /\ \A i \in DOMAIN rows : Matches(rows[i], source.f)
        /\ \A i \in DOMAIN pending : Matches(pending[i], source.f)
        /\ source.f = level \/ timer
    BY <1>1 DEF LogInv, RowsMatchFilter
  <2>2. \A e : Holds(rows, e) \/ Holds(pending, e) => Matches(e, source.f)
    BY <2>1 DEF Holds
  <2>3. \A i \in 1 .. Len(rows') : Matches(rows'[i], source.f)
    BY <2>2, <1>3
  <2>4. \A i \in 1 .. Len(pending') : Matches(pending'[i], source.f)
    BY <2>2, <1>3
  <2>5. DOMAIN rows' = 1 .. Len(rows') /\ DOMAIN pending' = 1 .. Len(pending')
    BY <1>3
  <2>. QED
    BY <2>1, <2>3, <2>4, <2>5, <1>1 DEF RowsMatchFilter, Matches
<1>6. RingInv'
  BY <1>1 DEF LogInv, RingInv, NewestTime
<1>7. SeenInv'
  <2>1. CASE ~paused
    BY <2>1, <1>1, SeenQuiet
  <2>2. CASE mixed
    BY <2>2, <1>1 DEF SeenInv
  <2>3. CASE paused /\ ~mixed
    <3> DEFINE seen == rows \o pending
    <3>1. DOMAIN ring = 1 .. Len(ring)
      BY LogTypes
    <3>2. /\ Ascending(seen) /\ Reached(seen, logged + 1)
          /\ source.st = "open" /\ source.from # 0 => \A i \in 1 .. Len(ring) :
                IF ring[i].ts > source.from THEN Reached(seen, ring[i].id)
                ELSE Matches(ring[i], source.f) /\ ring[i].id > cleared /\ ~ring[i].tie =>
                        Holds(seen, ring[i])
      BY <2>3, <3>1 DEF LogInv, SeenInv
    <3>3. Trimmed(Newest(seen), seen)
      BY <3>2, <1>2, LogTypes, TrimmedNewest
    <3>4. rows' \o pending' = Newest(seen)
      BY <2>3, <1>1, <1>3, ConcatEmptySeq
    <3>5. seen \in Seq(Entries)
      BY <1>2
    <3> HIDE DEF seen
    <3>. QED
      BY <3>2, <3>3, <3>4, <3>5, <1>1, SeenAfter
  <2>. QED
    BY <2>1, <2>2, <2>3
<1>. QED
  BY <1>1, <1>4, <1>5, <1>6, <1>7 DEF LogInv

LEMMA LogNext ==
  ASSUME LogInv, [Next]_logVars
  PROVE  LogInv'
<1>1. CASE UNCHANGED logVars
  BY <1>1 DEF logVars, LogInv, TypeOK, RowsMatchFilter, RingInv, SeenInv, NewestTime, Matches,
              Ascending, Reached, Holds
<1>2. CASE Next
  BY <1>2, LogLogs, LogSnapshot, LogPoll, LogReset, LogSourced, LogPaused DEF Next
<1>. QED
  BY <1>1, <1>2

LEMMA LogHolds == LogInv => TypeOK /\ RowsMatchFilter /\ CaughtUpIsComplete /\ NoStreamIsLeft
<1> SUFFICES ASSUME LogInv PROVE CaughtUpIsComplete /\ NoStreamIsLeft
  BY DEF LogInv
<1>1. NoStreamIsLeft
  BY DEF LogInv, NoStreamIsLeft
<1>2. CaughtUpIsComplete
  <2> SUFFICES ASSUME ~paused, ~mixed, source.st = "open", source.from # 0,
                      source.from = NewestTime(ring), NEW i \in DOMAIN ring,
                      Matches(ring[i], source.f), ring[i].id > cleared, ~ring[i].tie
               PROVE  \E j \in DOMAIN rows : rows[j].id = ring[i].id
    BY DEF CaughtUpIsComplete
  <2>1. ~(ring[i].ts > source.from)
    BY LogTypes
  <2>2. Holds(rows \o pending, ring[i])
    BY <2>1 DEF LogInv, SeenInv
  <2>3. rows \o pending = rows
    BY LogTypes, ConcatEmptySeq DEF LogInv, TypeOK
  <2>. QED
    BY <2>2, <2>3 DEF Holds
<1>. QED
  BY <1>1, <1>2

-----------------------------------------------------------------------------
(* The page is a tail: TailView.                                           *)

\* t is the last m entries of s, of which there are n
Ends(t, s, m, n) ==
    /\ t \in Seq(Entries) /\ Len(t) = m
    /\ \A i \in 1 .. m, j \in 1 .. n : j = n - m + i => t[i] = s[j]

\* y is a and then b
Joins(y, a, b, la, lb) ==
    /\ y \in Seq(Entries) /\ Len(y) = la + lb
    /\ \A i \in 1 .. la : y[i] = a[i]
    /\ \A i \in 1 .. lb, j \in 1 .. la + lb : j = la + i => y[j] = b[i]

\* the end of a sequence, the whole of a join and a full buffer, entry by entry
LEMMA SuffixAt ==
  ASSUME NEW s \in Seq(Entries), NEW n \in Nat, n = Len(s), NEW m \in 0 .. n
  PROVE  Ends(Suffix(s, m), s, m, n)
<1> DEFINE z == SubSeq(s, n - m + 1, n)
<1>1. Suffix(s, m) = z
  BY DEF Suffix
<1>2. \A i \in n - m + 1 .. n : s[i] \in Entries
  <2>1. \A i \in n - m + 1 .. n : i \in 1 .. n
    OBVIOUS
  <2>. QED
    BY <2>1
<1>3. n - m + 1 \in Int /\ n \in Int
  OBVIOUS
<1>4. /\ z \in Seq(Entries) /\ Len(z) = IF n - m + 1 <= n THEN n - (n - m + 1) + 1 ELSE 0
      /\ \A i \in 1 .. n - (n - m + 1) + 1 : z[i] = s[n - m + 1 + i - 1]
  BY <1>2, <1>3, SubSeqProperties
<1> HIDE DEF z
<1>5. n - (n - m + 1) + 1 = m /\ (n - m + 1 <= n <=> m # 0)
  OBVIOUS
<1>6. Len(z) = m
  BY <1>4, <1>5
<1>7. ASSUME NEW i \in 1 .. m, NEW j \in 1 .. n, j = n - m + i
      PROVE  z[i] = s[j]
  <2>1. z[i] = s[n - m + 1 + i - 1]
    BY <1>4, <1>5
  <2>2. n - m + 1 + i - 1 = j
    BY <1>7
  <2>. QED
    BY <2>1, <2>2
<1>. QED
  BY <1>1, <1>4, <1>6, <1>7 DEF Ends

LEMMA JoinAt ==
  ASSUME NEW a \in Seq(Entries), NEW b \in Seq(Entries),
         NEW la \in Nat, la = Len(a), NEW lb \in Nat, lb = Len(b)
  PROVE  Joins(a \o b, a, b, la, lb)
<1> DEFINE y == a \o b
<1>1. /\ y \in Seq(Entries) /\ Len(y) = la + lb
      /\ \A i \in 1 .. la + lb : y[i] = IF i <= la THEN a[i] ELSE b[i - la]
  BY ConcatProperties
<1> HIDE DEF y
<1>2. ASSUME NEW i \in 1 .. la PROVE y[i] = a[i]
  <2>1. i \in 1 .. la + lb /\ i <= la
    OBVIOUS
  <2>. QED
    BY <2>1, <1>1
<1>3. ASSUME NEW i \in 1 .. lb, NEW j \in 1 .. la + lb, j = la + i
      PROVE  y[j] = b[i]
  <2>1. ~(j <= la) /\ j - la = i
    BY <1>3
  <2>2. y[j] = b[j - la]
    BY <2>1, <1>1
  <2>. QED
    BY <2>1, <2>2
<1>. QED
  BY <1>1, <1>2, <1>3 DEF y, Joins

LEMMA NewestAt ==
  ASSUME NEW s \in Seq(Entries), NEW n \in Nat, n = Len(s)
  PROVE  /\ n <= MaxRows => Newest(s) = s
         /\ n >= MaxRows => Ends(Newest(s), s, MaxRows, n)
<1>1. CASE n > MaxRows
  <2>1. MaxRows \in 0 .. n /\ ~(n <= MaxRows)
    BY <1>1, RowsAssumption
  <2>2. Newest(s) = Suffix(s, MaxRows)
    BY <1>1 DEF Newest
  <2>3. Ends(Suffix(s, MaxRows), s, MaxRows, n)
    BY <2>1, SuffixAt
  <2>. QED
    BY <2>1, <2>2, <2>3
<1>2. CASE n <= MaxRows
  <2>1. Newest(s) = s
    <3>1. ~(Len(s) > MaxRows)
      BY <1>2, RowsAssumption
    <3>. QED
      BY <3>1 DEF Newest
  <2>2. ASSUME n >= MaxRows PROVE Ends(s, s, MaxRows, n)
    <3>1. n = MaxRows
      BY <1>2, <2>2, RowsAssumption
    <3>2. \A i \in 1 .. MaxRows, j \in 1 .. n : j = n - MaxRows + i => i = j
      BY <3>1, RowsAssumption
    <3>3. \A i \in 1 .. MaxRows, j \in 1 .. n : j = n - MaxRows + i => s[i] = s[j]
      BY <3>2
    <3>. QED
      BY <3>1, <3>3 DEF Ends
  <2>. QED
    BY <2>1, <2>2
<1>. QED
  BY <1>1, <1>2, RowsAssumption

\* the buffers are bounded first or last, it makes no difference
LEMMA NewestOfFirst ==
  ASSUME NEW a \in Seq(Entries), NEW b \in Seq(Entries)
  PROVE  Newest(Newest(a) \o b) = Newest(a \o b)
<1> SUFFICES ASSUME NEW la \in Nat, la = Len(a), NEW lb \in Nat, lb = Len(b)
             PROVE  Newest(Newest(a) \o b) = Newest(a \o b)
  OBVIOUS
<1>1. CASE la <= MaxRows
  BY <1>1, NewestAt
<1>2. CASE la > MaxRows
  <2> DEFINE h == Newest(a)
             x == h \o b
             y == a \o b
  <2>1. Ends(h, a, MaxRows, la)
    <3>1. la >= MaxRows
      BY <1>2, RowsAssumption
    <3>. QED
      BY <3>1, NewestAt
  <2> HIDE DEF h
  <2>2. Joins(x, h, b, MaxRows, lb)
    <3>1. h \in Seq(Entries) /\ Len(h) = MaxRows /\ MaxRows \in Nat
      BY <2>1, RowsAssumption DEF Ends
    <3>. QED
      BY <3>1, JoinAt
  <2>3. Joins(y, a, b, la, lb)
    BY JoinAt
  <2> HIDE DEF x, y
  <2>4. Ends(Newest(x), x, MaxRows, MaxRows + lb)
    <3>1. MaxRows + lb \in Nat /\ MaxRows + lb >= MaxRows
      BY RowsAssumption
    <3>2. x \in Seq(Entries) /\ MaxRows + lb = Len(x)
      BY <2>2 DEF Joins
    <3>. QED
      BY <3>1, <3>2, NewestAt
  <2>5. Ends(Newest(y), y, MaxRows, la + lb)
    <3>1. la + lb \in Nat /\ la + lb >= MaxRows
      BY <1>2, RowsAssumption
    <3>2. y \in Seq(Entries) /\ la + lb = Len(y)
      BY <2>3 DEF Joins
    <3>. QED
      BY <3>1, <3>2, NewestAt
  <2>6. ASSUME NEW i \in 1 .. MaxRows PROVE Newest(x)[i] = Newest(y)[i]
    <3> DEFINE j == lb + i
               q == la + lb - MaxRows + i
    <3>1. /\ j \in 1 .. MaxRows + lb /\ j = (MaxRows + lb) - MaxRows + i
          /\ q \in 1 .. la + lb /\ q = (la + lb) - MaxRows + i
      BY <1>2, RowsAssumption
    <3>2. CASE j <= MaxRows
      <4>1. /\ j \in 1 .. MaxRows /\ q \in 1 .. la /\ q = la - MaxRows + j
        BY <1>2, <3>2, RowsAssumption
      <4> HIDE DEF j, q
      <4>2. Newest(x)[i] = x[j] /\ Newest(y)[i] = y[q]
        BY <2>4, <2>5, <3>1 DEF Ends
      <4>3. x[j] = h[j] /\ y[q] = a[q] /\ h[j] = a[q]
        BY <2>1, <2>2, <2>3, <4>1 DEF Ends, Joins
      <4>. QED
        BY <4>2, <4>3
    <3>3. CASE ~(j <= MaxRows)
      <4> DEFINE r == j - MaxRows
      <4>1. /\ r \in 1 .. lb /\ j = MaxRows + r /\ q = la + r
        BY <1>2, <3>3, RowsAssumption
      <4> HIDE DEF j, q, r
      <4>2. Newest(x)[i] = x[j] /\ Newest(y)[i] = y[q]
        BY <2>4, <2>5, <3>1 DEF Ends
      <4>3. x[j] = b[r] /\ y[q] = b[r]
        BY <2>2, <2>3, <3>1, <4>1 DEF Joins
      <4>. QED
        BY <4>2, <4>3
    <3>. QED
      BY <3>2, <3>3
  <2>7. Newest(x) = Newest(y)
    BY <2>4, <2>5, <2>6, SeqEqual DEF Ends
  <2>. QED
    BY <2>7 DEF x, y, h
<1>. QED
  BY <1>1, <1>2, RowsAssumption

LEMMA NewestOfLast ==
  ASSUME NEW a \in Seq(Entries), NEW b \in Seq(Entries)
  PROVE  Newest(a \o Newest(b)) = Newest(a \o b)
<1> SUFFICES ASSUME NEW la \in Nat, la = Len(a), NEW lb \in Nat, lb = Len(b)
             PROVE  Newest(a \o Newest(b)) = Newest(a \o b)
  OBVIOUS
<1>1. CASE lb <= MaxRows
  BY <1>1, NewestAt
<1>2. CASE lb > MaxRows
  <2> DEFINE h == Newest(b)
             x == a \o h
             y == a \o b
  <2>1. Ends(h, b, MaxRows, lb)
    <3>1. lb >= MaxRows
      BY <1>2, RowsAssumption
    <3>. QED
      BY <3>1, NewestAt
  <2> HIDE DEF h
  <2>2. Joins(x, a, h, la, MaxRows)
    <3>1. h \in Seq(Entries) /\ Len(h) = MaxRows /\ MaxRows \in Nat
      BY <2>1, RowsAssumption DEF Ends
    <3>. QED
      BY <3>1, JoinAt
  <2>3. Joins(y, a, b, la, lb)
    BY JoinAt
  <2> HIDE DEF x, y
  <2>4. Ends(Newest(x), x, MaxRows, la + MaxRows)
    <3>1. la + MaxRows \in Nat /\ la + MaxRows >= MaxRows
      BY RowsAssumption
    <3>2. x \in Seq(Entries) /\ la + MaxRows = Len(x)
      BY <2>2 DEF Joins
    <3>. QED
      BY <3>1, <3>2, NewestAt
  <2>5. Ends(Newest(y), y, MaxRows, la + lb)
    <3>1. la + lb \in Nat /\ la + lb >= MaxRows
      BY <1>2, RowsAssumption
    <3>2. y \in Seq(Entries) /\ la + lb = Len(y)
      BY <2>3 DEF Joins
    <3>. QED
      BY <3>1, <3>2, NewestAt
  <2>6. ASSUME NEW i \in 1 .. MaxRows PROVE Newest(x)[i] = Newest(y)[i]
    <3> DEFINE j == la + i
               p == lb - MaxRows + i
               q == la + p
    <3>1. /\ j \in 1 .. la + MaxRows /\ j = (la + MaxRows) - MaxRows + i
          /\ p \in 1 .. lb /\ q \in 1 .. la + lb /\ q = (la + lb) - MaxRows + i
      BY <1>2, RowsAssumption
    <3>2. j = la + i /\ p = lb - MaxRows + i /\ q = la + p
      OBVIOUS
    <3> HIDE DEF j, p, q
    <3>3. Newest(x)[i] = x[j] /\ Newest(y)[i] = y[q]
      BY <2>4, <2>5, <3>1 DEF Ends
    <3>4. x[j] = h[i] /\ h[i] = b[p] /\ y[q] = b[p]
      BY <2>1, <2>2, <2>3, <3>1, <3>2 DEF Ends, Joins
    <3>. QED
      BY <3>3, <3>4
  <2>7. Newest(x) = Newest(y)
    BY <2>4, <2>5, <2>6, SeqEqual DEF Ends
  <2>. QED
    BY <2>7 DEF x, y, h
<1>. QED
  BY <1>1, <1>2, RowsAssumption

\* what came last is still there
LEMMA NewestEnds ==
  ASSUME NEW a \in Seq(Entries), NEW b \in Seq(Entries), NEW lb \in 0 .. MaxRows, lb = Len(b)
  PROVE  /\ Newest(a \o b) \in Seq(Entries)
         /\ Suffix(Newest(a \o b), lb) = b
         /\ lb <= Len(Newest(a \o b))
<1> SUFFICES ASSUME NEW la \in Nat, la = Len(a), lb \in Nat
             PROVE  /\ Newest(a \o b) \in Seq(Entries)
                    /\ Suffix(Newest(a \o b), lb) = b
                    /\ lb <= Len(Newest(a \o b))
  BY RowsAssumption
<1> DEFINE y == a \o b
           t == Newest(y)
<1>1. Joins(y, a, b, la, lb)
  BY JoinAt
<1> HIDE DEF y
<1>0. y \in Seq(Entries) /\ la + lb = Len(y) /\ la + lb \in Nat
  BY <1>1 DEF Joins
<1>2. CASE la + lb <= MaxRows
  <2>1. t = y
    BY <1>0, <1>2, NewestAt
  <2>2. lb \in 0 .. la + lb
    OBVIOUS
  <2>3. Ends(Suffix(y, lb), y, lb, la + lb)
    BY <1>0, <2>2, SuffixAt
  <2>4. ASSUME NEW i \in 1 .. lb PROVE Suffix(y, lb)[i] = b[i]
    <3> DEFINE j == la + i
    <3>1. j \in 1 .. la + lb /\ j = la + lb - lb + i /\ j = la + i
      OBVIOUS
    <3> HIDE DEF j
    <3>2. Suffix(y, lb)[i] = y[j]
      <4> DEFINE n == la + lb
      <4>1. j \in 1 .. n /\ j = n - lb + i /\ Ends(Suffix(y, lb), y, lb, n)
        BY <3>1, <2>3
      <4> HIDE DEF n
      <4>. QED
        BY <4>1 DEF Ends
    <3>3. y[j] = b[i]
      BY <3>1, <1>1 DEF Joins
    <3>. QED
      BY <3>2, <3>3
  <2>5. Suffix(y, lb) = b
    BY <2>3, <2>4, SeqEqual DEF Ends
  <2>. QED
    BY <1>0, <2>1, <2>2, <2>5 DEF y
<1>3. CASE la + lb > MaxRows
  <2>1. la + lb >= MaxRows
    BY <1>3, RowsAssumption
  <2>2. Ends(t, y, MaxRows, la + lb)
    BY <1>0, <2>1, NewestAt
  <2> HIDE DEF t
  <2>6. t \in Seq(Entries) /\ MaxRows = Len(t) /\ MaxRows \in Nat
    BY <2>2, RowsAssumption DEF Ends
  <2>3. Ends(Suffix(t, lb), t, lb, MaxRows)
    BY <2>6, SuffixAt
  <2>4. ASSUME NEW i \in 1 .. lb PROVE Suffix(t, lb)[i] = b[i]
    <3> DEFINE j == MaxRows - lb + i
               q == la + i
    <3>1. /\ j \in 1 .. MaxRows /\ j = MaxRows - lb + i
          /\ q \in 1 .. la + lb /\ q = (la + lb) - MaxRows + j /\ q = la + i
      BY <1>3, RowsAssumption
    <3> HIDE DEF j, q
    <3>2. Suffix(t, lb)[i] = t[j]
      BY <3>1, <2>3 DEF Ends
    <3>3. t[j] = y[q]
      <4> DEFINE n == la + lb
      <4>1. j \in 1 .. MaxRows /\ q \in 1 .. n /\ q = n - MaxRows + j
        BY <3>1
      <4>2. Ends(t, y, MaxRows, n)
        BY <2>2
      <4> HIDE DEF n
      <4>. QED
        BY <4>1, <4>2 DEF Ends
    <3>4. y[q] = b[i]
      BY <3>1, <1>1 DEF Joins
    <3>. QED
      BY <3>2, <3>3, <3>4
  <2>5. Suffix(t, lb) = b
    BY <2>3, <2>4, SeqEqual DEF Ends
  <2>. QED
    BY <2>6, <2>5, RowsAssumption DEF t, y
<1>. QED
  BY <1>2, <1>3, RowsAssumption

LEMMA NewestBounds ==
  ASSUME NEW s \in Seq(Entries)
  PROVE  /\ Newest(s) \in Seq(Entries) /\ Len(s) \in Nat
         /\ Len(Newest(s)) = IF Len(s) > MaxRows THEN MaxRows ELSE Len(s)
         /\ Len(s) <= MaxRows => Newest(s) = s
         /\ Newest(Newest(s)) = Newest(s)
<1> SUFFICES ASSUME NEW n \in Nat, n = Len(s)
             PROVE  /\ Newest(s) \in Seq(Entries)
                    /\ Len(Newest(s)) = IF n > MaxRows THEN MaxRows ELSE n
                    /\ n <= MaxRows => Newest(s) = s
                    /\ Newest(Newest(s)) = Newest(s)
  OBVIOUS
<1>1. n <= MaxRows => Newest(s) = s
  BY NewestAt
<1>2. CASE n <= MaxRows
  <2>1. ~(n > MaxRows) /\ Newest(s) = s
    BY <1>1, <1>2, RowsAssumption
  <2>. QED
    BY <2>1, <1>2
<1>3. CASE n > MaxRows
  <2>1. n >= MaxRows /\ ~(n <= MaxRows)
    BY <1>3, RowsAssumption
  <2>2. Newest(s) \in Seq(Entries) /\ Len(Newest(s)) = MaxRows
    <3>1. Ends(Newest(s), s, MaxRows, n)
      BY <2>1, NewestAt
    <3>. QED
      BY <3>1 DEF Ends
  <2>3. Newest(Newest(s)) = Newest(s)
    <3>1. MaxRows \in Nat /\ MaxRows <= MaxRows
      BY RowsAssumption
    <3>. QED
      BY <2>2, <3>1, NewestAt
  <2>. QED
    BY <1>3, <2>1, <2>2, <2>3
<1>. QED
  BY <1>2, <1>3, RowsAssumption

LEMMA ViewDefs ==
  /\ \A s, n : View!Suffix(s, n) = Suffix(s, n)
  /\ \A s : View!Newest(s) = Newest(s)
  BY DEF View!Suffix, Suffix, View!Newest, Newest

LEMMA ViewInit == Init => View!Init
<1> SUFFICES ASSUME Init PROVE View!Init
  OBVIOUS
<1>1. rows = <<>> /\ pending = <<>> /\ paused = FALSE
  BY DEF Init
<1>2. Newest(<<>> \o <<>>) = <<>> /\ Len(<<>>) = 0
  <2>1. <<>> \o <<>> = <<>> /\ Len(<<>>) = 0 /\ <<>> \in Seq(Entries)
    BY ConcatEmptySeq, EmptySeq
  <2>2. Len(<<>>) <= MaxRows
    BY <2>1, RowsAssumption
  <2>. QED
    BY <2>1, <2>2, NewestBounds
<1>. QED
  BY <1>1, <1>2 DEF View!Init

\* what the page does not see
LEMMA ViewStutters ==
  ASSUME UNCHANGED <<rows, pending, paused>>
  PROVE  UNCHANGED View!viewVars
  BY DEF View!viewVars

\* the stream that the page shows, and what is held of it
LEMMA Streamed ==
  ASSUME LogInv
  PROVE  LET stream == Newest(rows \o pending)
         IN  /\ stream \in Seq(Entries) /\ Len(pending) \in 0 .. MaxRows
             /\ Suffix(stream, Len(pending)) = pending
             /\ pending = <<>> => stream = rows /\ Len(pending) = 0
<1>1. /\ rows \in Seq(Entries) /\ pending \in Seq(Entries)
      /\ Len(rows) <= MaxRows /\ Len(pending) \in 0 .. MaxRows
  BY LogTypes, RowsAssumption
<1>2. Newest(rows \o pending) \in Seq(Entries) /\ Suffix(Newest(rows \o pending), Len(pending)) = pending
  BY <1>1, NewestEnds
<1>3. Newest(rows) = rows /\ rows \o <<>> = rows /\ Len(<<>>) = 0
  BY <1>1, NewestBounds, ConcatEmptySeq, EmptySeq
<1>. QED
  BY <1>1, <1>2, <1>3

LEMMA Regrouped ==
  ASSUME NEW a \in Seq(Entries), NEW b \in Seq(Entries), NEW c \in Seq(Entries)
  PROVE  a \o (b \o c) = (a \o b) \o c
BY ConcatAssociative

LEMMA ViewPoll ==
  ASSUME LogInv, Poll
  PROVE  View!Next
<1> DEFINE r == Matching(Fresh, source.f)
           stream == Newest(rows \o pending)
           after == Newest(stream \o r)
           n == Len(r)
<1>1. /\ IF paused THEN pending' = Newest(pending \o r) /\ rows' = rows
                   ELSE rows' = Newest(rows \o r) /\ pending' = pending
      /\ paused' = paused
  BY DEF Poll, pageVars, Held
<1>2. r \in Seq(Entries) /\ n \in 0 .. MaxRows
  BY SentOf, RowsAssumption
<1> HIDE DEF r
<1>3. /\ rows \in Seq(Entries) /\ pending \in Seq(Entries) /\ stream \in Seq(Entries)
      /\ ~paused => pending = <<>> /\ stream = rows /\ Len(pending) = 0
  BY Streamed DEF LogInv, TypeOK
<1>4. after \in Seq(Entries) /\ Suffix(after, n) = r /\ n <= Len(after)
  <2> HIDE DEF stream
  <2>. QED
    BY <1>2, <1>3, NewestEnds
<1>5. CASE paused
  <2>1. Newest(rows \o Newest(pending \o r)) = after
    <3> DEFINE q == pending \o r
               p == rows \o pending
    <3>1. q \in Seq(Entries) /\ p \in Seq(Entries) /\ rows \o q = p \o r
      <4>1. q \in Seq(Entries) /\ p \in Seq(Entries)
        BY <1>2, <1>3, ConcatProperties
      <4>2. rows \o q = p \o r
        <5>1. r \in Seq(Entries) /\ rows \in Seq(Entries) /\ pending \in Seq(Entries)
          BY <1>2, <1>3
        <5>. QED
          BY <5>1, Regrouped
      <4>. QED
        BY <4>1, <4>2
    <3> HIDE DEF q
    <3>2. Newest(rows \o Newest(q)) = Newest(rows \o q)
      BY <1>3, <3>1, NewestOfLast
    <3> HIDE DEF p
    <3>3. Newest(Newest(p) \o r) = Newest(p \o r)
      BY <1>2, <3>1, NewestOfFirst
    <3>. QED
      BY <3>1, <3>2, <3>3 DEF p, q
  <2>2. Len(Newest(pending \o r)) = IF Len(pending) + n > MaxRows THEN MaxRows ELSE Len(pending) + n
    <3>1. pending \o r \in Seq(Entries) /\ Len(pending \o r) = Len(pending) + n
      BY <1>2, <1>3, ConcatProperties
    <3>. QED
      BY <3>1, NewestBounds
  <2> DEFINE b == IF Len(pending) + n > MaxRows THEN MaxRows ELSE Len(pending) + n
  <2>3. /\ Newest(rows \o pending)' = after /\ Len(pending)' = b /\ rows' = rows /\ paused' = paused
    BY <1>1, <1>5, <2>1, <2>2
  <2>4. View!Receive(n)
    <3> HIDE DEF after, n
    <3>1. View!Newest(stream \o View!Suffix(after, n)) = after
      BY <1>4, ViewDefs DEF after
    <3>. QED
      BY <1>4, <1>5, <2>3, <3>1 DEF View!Receive
  <2>. QED
    BY <1>2, <2>4 DEF View!Next
<1>6. CASE ~paused
  <2>1. stream = rows /\ pending = <<>> /\ pending' = pending /\ rows' = after
    BY <1>1, <1>3, <1>6
  <2>2. Newest(after \o <<>>) = after
    <3>1. after \o <<>> = after
      BY <1>4, ConcatEmptySeq
    <3>2. stream \o r \in Seq(Entries)
      <4> HIDE DEF stream
      <4>. QED
        BY <1>2, <1>3, ConcatProperties
    <3>3. Newest(after) = after
      BY <3>2, NewestBounds
    <3>. QED
      BY <3>1, <3>3
  <2>3. Newest(rows \o pending)' = after /\ Len(pending)' = 0 /\ rows' = after /\ paused' = paused
    BY <1>1, <1>3, <1>6, <2>1, <2>2
  <2>4. View!Receive(n)
    <3> HIDE DEF after, n
    <3>1. View!Newest(stream \o View!Suffix(after, n)) = after
      BY <1>4, ViewDefs DEF after
    <3>. QED
      BY <1>4, <1>6, <2>3, <3>1 DEF View!Receive
  <2>. QED
    BY <1>2, <2>4 DEF View!Next
<1>. QED
  BY <1>5, <1>6

LEMMA ViewSnapshot ==
  ASSUME LogInv, Snapshot
  PROVE  View!Next
<1> DEFINE r == Matching(ring, source.f)
           stream == Newest(rows \o pending)
<1>1. rows' = r /\ pending' = pending /\ paused' = paused
  BY DEF Snapshot, pageVars
<1>2. r \in Seq(Entries) /\ Len(r) <= MaxRows
  BY SentOf
<1> HIDE DEF r
<1>3. Suffix(stream, Len(pending)) = pending
  BY Streamed
<1>4. View!Newest(r \o View!Suffix(stream, Len(pending))) = Newest(r \o pending)
  <2> HIDE DEF stream
  <2>. QED
    BY <1>3, ViewDefs
<1>5. View!Restart
  BY <1>1, <1>2, <1>4 DEF View!Restart
<1>. QED
  BY <1>5 DEF View!Next

\* the page without a row
LEMMA ViewEmpty ==
  ASSUME rows' = <<>>, pending' = <<>>, UNCHANGED paused
  PROVE  View!Next
<1>1. Newest(<<>> \o <<>>) = <<>> /\ Len(<<>>) = 0
  <2>1. <<>> \o <<>> = <<>> /\ Len(<<>>) = 0 /\ <<>> \in Seq(Entries)
    BY ConcatEmptySeq, EmptySeq
  <2>2. Len(<<>>) <= MaxRows
    BY <2>1, RowsAssumption
  <2>3. Newest(<<>>) = <<>>
    BY <2>1, <2>2, NewestBounds
  <2>. QED
    BY <2>1, <2>3
<1>2. View!Empty
  BY <1>1 DEF View!Empty
<1>. QED
  BY <1>2 DEF View!Next

LEMMA ViewPause ==
  ASSUME LogInv, togglePause
  PROVE  View!Next
<1> DEFINE stream == Newest(rows \o pending)
<1>1. CASE paused
  <2>1. rows' = stream /\ pending' = <<>> /\ paused' = FALSE
    BY <1>1 DEF togglePause, Resumed
  <2>2. Newest(stream \o <<>>) = stream /\ Len(<<>>) = 0
    <3>1. rows \o pending \in Seq(Entries) /\ stream \in Seq(Entries)
      BY Streamed, ConcatProperties DEF LogInv, TypeOK
    <3>2. stream \o <<>> = stream /\ Len(<<>>) = 0
      BY <3>1, ConcatEmptySeq, EmptySeq
    <3>3. Newest(stream) = stream
      BY <3>1, NewestBounds
    <3>. QED
      BY <3>2, <3>3
  <2>3. Newest(rows \o pending)' = stream /\ Len(pending)' = 0
    BY <2>1, <2>2
  <2>4. View!Resume
    BY <1>1, <2>1, <2>3 DEF View!Resume
  <2>. QED
    BY <2>4 DEF View!Next
<1>2. CASE ~paused
  <2>1. rows' = rows /\ pending' = pending /\ paused' = TRUE
    <3>1. paused \in BOOLEAN
      BY DEF LogInv, TypeOK
    <3>. QED
      BY <1>2, <3>1 DEF togglePause
  <2>2. View!Hold
    BY <1>2, <2>1 DEF View!Hold
  <2>. QED
    BY <2>2 DEF View!Next
<1>. QED
  BY <1>1, <1>2

LEMMA ViewNext ==
  ASSUME LogInv, [Next]_logVars
  PROVE  [View!Next]_View!viewVars
<1>1. CASE UNCHANGED logVars
  BY <1>1, ViewStutters DEF logVars
<1>2. CASE \/ \E k \in Kinds, tie \in BOOLEAN : Log(k, tie)
           \/ Connected \/ Lost \/ Refused
           \/ \E f \in Levels : SetLevel(f)
  <2>1. UNCHANGED <<rows, pending, paused>>
    BY <1>2 DEF Log, Connected, Lost, Refused, SetLevel, pageVars
  <2>. QED
    BY <2>1, ViewStutters
<1>3. CASE reconnect \/ handleClear \/ Leave
  <2>1. rows' = <<>> /\ pending' = <<>> /\ UNCHANGED paused
    BY <1>3 DEF reconnect, Emptied, handleClear, Leave, pageVars
  <2>. QED
    BY <2>1, ViewEmpty
<1>. QED
  BY <1>1, <1>2, <1>3, ViewPoll, ViewSnapshot, ViewPause DEF Next

-----------------------------------------------------------------------------
(* The channels.  Here v1 visit; v2 streams; v3 tail; v4 connected; v5     *)
(* paused; v6 events; v7 opened; v8 arrived; v9 last.                      *)

LEMMA ChannelInit == Channel!Init => Channel!TailInv
<1> SUFFICES ASSUME Channel!Init PROVE Channel!TailInv
  OBVIOUS
<1>1. /\ v1 = [n |-> 1, here |-> TRUE] /\ v2 = {} /\ v3 = Channel!NoTail
      /\ v6 = <<>> /\ v8 = 0 /\ v9 = 0
  BY DEF Channel!Init
<1>2. MaxShown \in Nat /\ Len(<<>>) = 0 /\ <<>> \in Seq(1 .. 0)
  BY ConsoleAssumption, EmptySeq DEF Channel!TailAssumption
<1>3. Channel!StreamsAreTheTail
  BY <1>1 DEF Channel!StreamsAreTheTail
<1>4. Channel!EventsAreTheLatest
  BY <1>1, <1>2 DEF Channel!EventsAreTheLatest
<1>. QED
  BY <1>1, <1>2, <1>3, <1>4 DEF Channel!TailInv

\* an empty list is the list of no event
LEMMA ChannelEmptied ==
  ASSUME v6' = <<>>, v9' = 0, v8' \in Nat
  PROVE  v6' \in Seq(1 .. v8') /\ Len(v6') <= MaxShown /\ Channel!EventsAreTheLatest'
<1>1. MaxShown \in Nat /\ Len(<<>>) = 0 /\ <<>> \in Seq(1 .. v8')
  BY ConsoleAssumption, EmptySeq DEF Channel!TailAssumption
<1>. QED
  BY <1>1 DEF Channel!EventsAreTheLatest

LEMMA ChannelConnect ==
  ASSUME Channel!TailInv, NEW t \in TailTopics, Channel!connect(t)
  PROVE  Channel!TailInv'
<1> DEFINE c == [id |-> v7 + 1, topic |-> t, visit |-> v1.n]
<1>1. /\ v1.here /\ v3 = Channel!NoTail /\ v3' = c /\ v2' = v2 \cup {c}
      /\ v6' = <<>> /\ v9' = 0 /\ v1' = v1 /\ v8' = v8
  BY DEF Channel!connect
<1>2. /\ v1 \in [n : Nat, here : BOOLEAN] /\ v8 \in Nat /\ c.visit = v1.n
      /\ \A s \in v2 : s.visit \in Nat /\ s.visit <= v1.n
      /\ Channel!StreamsAreTheTail
  BY DEF Channel!TailInv
<1>3. c # Channel!NoTail
  BY ConsoleAssumption DEF Channel!TailAssumption, Channel!NoTail
<1> HIDE DEF c
<1>4. Channel!StreamsAreTheTail'
  <2>1. {s \in v2 : s.visit = v1.n} = {}
    BY <1>1, <1>2 DEF Channel!StreamsAreTheTail
  <2>2. {s \in v2 \cup {c} : s.visit = v1.n} = {c} \ {Channel!NoTail}
    BY <2>1, <1>2, <1>3
  <2>. QED
    BY <2>2, <1>1 DEF Channel!StreamsAreTheTail, Channel!NoTail
<1>5. v6' \in Seq(1 .. v8') /\ Len(v6') <= MaxShown /\ Channel!EventsAreTheLatest'
  BY <1>1, <1>2, ChannelEmptied
<1>6. \A s \in v2' : s.visit \in Nat /\ s.visit <= v1'.n
  BY <1>1, <1>2
<1>. QED
  BY <1>1, <1>2, <1>4, <1>5, <1>6 DEF Channel!TailInv

LEMMA ChannelLeft ==
  ASSUME Channel!TailInv, Channel!disconnect \/ Channel!LeavePage \/ Channel!ComeBack
  PROVE  Channel!TailInv'
<1>0. /\ v1 \in [n : Nat, here : BOOLEAN] /\ v8 \in Nat
      /\ \A s \in v2 : s.visit \in Nat /\ s.visit <= v1.n
      /\ v3 # Channel!NoTail => v1.here
      /\ v6 \in Seq(1 .. v8) /\ Len(v6) <= MaxShown
      /\ Channel!StreamsAreTheTail /\ Channel!EventsAreTheLatest
  BY DEF Channel!TailInv
<1>1. CASE Channel!disconnect
  <2>1. /\ v1.here /\ v1' = v1 /\ v2' = v2 \ {v3} /\ v3' = Channel!NoTail
        /\ v6' = <<>> /\ v9' = 0 /\ v8' = v8
    BY <1>1 DEF Channel!disconnect, Channel!Closed
  <2>2. Channel!StreamsAreTheTail'
    BY <2>1, <1>0 DEF Channel!StreamsAreTheTail
  <2>3. v6' \in Seq(1 .. v8') /\ Len(v6') <= MaxShown /\ Channel!EventsAreTheLatest'
    BY <2>1, <1>0, ChannelEmptied
  <2>. QED
    BY <2>1, <2>2, <2>3, <1>0 DEF Channel!TailInv
<1>2. CASE Channel!LeavePage
  <2>1. /\ v1' = [v1 EXCEPT !.here = FALSE] /\ v2' = v2 /\ v3' = Channel!NoTail
        /\ v6' = <<>> /\ v9' = 0 /\ v8' = v8
    BY <1>2 DEF Channel!LeavePage
  <2>2. Channel!StreamsAreTheTail'
    BY <2>1, <1>0 DEF Channel!StreamsAreTheTail
  <2>3. v6' \in Seq(1 .. v8') /\ Len(v6') <= MaxShown /\ Channel!EventsAreTheLatest'
    BY <2>1, <1>0, ChannelEmptied
  <2>. QED
    BY <2>1, <2>2, <2>3, <1>0 DEF Channel!TailInv
<1>3. CASE Channel!ComeBack
  <2>1. /\ ~v1.here /\ v1' = [n |-> v1.n + 1, here |-> TRUE]
        /\ v2' = v2 /\ v3' = v3 /\ v6' = v6 /\ v8' = v8 /\ v9' = v9
    BY <1>3 DEF Channel!ComeBack
  <2>2. v3 = Channel!NoTail
    BY <2>1, <1>0
  <2>3. /\ v1'.n = v1.n + 1 /\ v1'.here /\ v1' \in [n : Nat, here : BOOLEAN]
        /\ \A s \in v2 : s.visit <= v1.n + 1 /\ s.visit # v1.n + 1
    <3>1. v1.n \in Nat
      BY <1>0
    <3>. QED
      BY <2>1, <1>0, <3>1
  <2>4. Channel!StreamsAreTheTail'
    BY <2>1, <2>2, <2>3 DEF Channel!StreamsAreTheTail
  <2>5. Channel!EventsAreTheLatest'
    BY <2>1, <1>0 DEF Channel!EventsAreTheLatest
  <2>. QED
    BY <2>1, <2>2, <2>3, <2>4, <2>5, <1>0 DEF Channel!TailInv
<1>. QED
  BY <1>1, <1>2, <1>3

\* the list's end when it is cut to its bound
LEMMA ChannelKept ==
  ASSUME NEW E, NEW list \in Seq(E), NEW n \in Nat, Len(list) = n, n > MaxShown
  PROVE  LET t == Channel!Kept(list)
         IN  /\ t \in Seq(E) /\ Len(t) = MaxShown
             /\ \A i \in 1 .. MaxShown : n - MaxShown + i \in 1 .. n /\ t[i] = list[n - MaxShown + i]
<1> DEFINE t == SubSeq(list, n - MaxShown + 1, n)
           m == MaxShown
<1>1. Channel!Kept(list) = t
  BY DEF Channel!Kept
<1>2. m \in Nat \ {0}
  BY ConsoleAssumption DEF Channel!TailAssumption
<1> HIDE DEF m
<1>3. n > m
  BY DEF m
<1>4. \A i \in n - m + 1 .. n : list[i] \in E
  <2>1. \A i \in n - m + 1 .. n : i \in 1 .. n
    BY <1>2, <1>3
  <2>. QED
    BY <2>1
<1>5. n - m + 1 \in Int /\ n \in Int
  BY <1>2
<1>6. /\ t \in Seq(E) /\ Len(t) = IF n - m + 1 <= n THEN n - (n - m + 1) + 1 ELSE 0
      /\ \A i \in 1 .. n - (n - m + 1) + 1 : t[i] = list[n - m + 1 + i - 1]
  BY <1>4, <1>5, SubSeqProperties DEF m
<1> HIDE DEF t
<1>7. n - (n - m + 1) + 1 = m /\ n - m + 1 <= n
  BY <1>2, <1>3
<1>8. ASSUME NEW i \in 1 .. m PROVE n - m + i \in 1 .. n /\ t[i] = list[n - m + i]
  <2>1. t[i] = list[n - m + 1 + i - 1]
    BY <1>6, <1>7
  <2>2. n - m + 1 + i - 1 = n - m + i /\ n - m + i \in 1 .. n
    BY <1>2, <1>3
  <2>. QED
    BY <2>1, <2>2
<1>. QED
  BY <1>1, <1>6, <1>7, <1>8 DEF m

LEMMA ChannelEvent ==
  ASSUME Channel!TailInv, Channel!Event
  PROVE  Channel!TailInv'
<1>0. /\ v1 \in [n : Nat, here : BOOLEAN] /\ v8 \in Nat
      /\ \A s \in v2 : s.visit \in Nat /\ s.visit <= v1.n
      /\ v3 # Channel!NoTail => v1.here
      /\ v6 \in Seq(1 .. v8) /\ Len(v6) <= MaxShown
      /\ Channel!StreamsAreTheTail /\ Channel!EventsAreTheLatest
  BY DEF Channel!TailInv
<1> DEFINE list == Append(v6, v8 + 1)
           n == Len(v6)
<1>1. /\ v8' = v8 + 1 /\ v1' = v1 /\ v2' = v2 /\ v3' = v3
      /\ IF v5 THEN v6' = v6 /\ v9' = v9
               ELSE /\ v6' = IF Len(list) > MaxShown THEN Channel!Kept(list) ELSE list
                    /\ v9' = v8 + 1
  BY DEF Channel!Event
<1>2. Channel!StreamsAreTheTail'
  BY <1>0, <1>1 DEF Channel!StreamsAreTheTail
<1>3. v6 \in Seq(1 .. v8 + 1)
  BY <1>0
<1>4. v6' \in Seq(1 .. v8 + 1) /\ Len(v6') <= MaxShown /\ Channel!EventsAreTheLatest'
  <2>1. CASE v5
    BY <2>1, <1>0, <1>1, <1>3 DEF Channel!EventsAreTheLatest
  <2>2. CASE ~v5
    <3>1. /\ list \in Seq(1 .. v8 + 1) /\ Len(list) = n + 1 /\ n \in Nat
          /\ list[n + 1] = v8 + 1
          /\ \A i \in 1 .. n : list[i] = v6[i] /\ v6[i] \in 1 .. v8
      BY <1>0, <1>3
    <3>2. \A i \in 1 .. n : list[i] < list[i + 1]
      <4> SUFFICES ASSUME NEW i \in 1 .. n PROVE list[i] < list[i + 1]
        OBVIOUS
      <4>1. CASE i = n
        BY <4>1, <3>1, <1>0
      <4>2. CASE i # n
        <5>1. i \in 1 .. n - 1 /\ i + 1 \in 1 .. n
          BY <4>2, <3>1
        <5>2. v6[i] < v6[i + 1]
          BY <5>1, <1>0 DEF Channel!EventsAreTheLatest
        <5>. QED
          BY <5>1, <5>2, <3>1
      <4>. QED
        BY <4>1, <4>2
    <3> HIDE DEF list, n
    <3>3. MaxShown \in Nat \ {0} /\ v8 + 1 # 0
      BY <1>0, ConsoleAssumption DEF Channel!TailAssumption
    <3>4. CASE n + 1 > MaxShown
      <4> DEFINE t == Channel!Kept(list)
                 o == n + 1 - MaxShown
      <4>1. v6' = t /\ v9' = v8 + 1
        BY <1>1, <2>2, <3>1, <3>4
      <4>2. /\ t \in Seq(1 .. v8 + 1) /\ Len(t) = MaxShown
            /\ \A i \in 1 .. MaxShown : o + i \in 1 .. n + 1 /\ t[i] = list[o + i]
        <5>1. n + 1 \in Nat
          BY <3>1
        <5>. QED
          BY <3>1, <3>4, <5>1, ChannelKept
      <4> HIDE DEF t
      <4>3. t[MaxShown] = v8 + 1 /\ t # <<>>
        <5>1. MaxShown \in 1 .. MaxShown /\ o + MaxShown = n + 1
          BY <3>1, <3>3
        <5>. QED
          BY <5>1, <4>2, <3>1, <3>3
      <4>4. ASSUME NEW i \in 1 .. MaxShown - 1 PROVE t[i] < t[i + 1]
        <5>1. /\ i \in 1 .. MaxShown /\ i + 1 \in 1 .. MaxShown
              /\ o + i \in 1 .. n /\ o + (i + 1) = (o + i) + 1
          BY <3>1, <3>3, <3>4
        <5> HIDE DEF o
        <5>2. t[i] = list[o + i] /\ t[i + 1] = list[(o + i) + 1]
          BY <5>1, <4>2
        <5>. QED
          BY <5>1, <5>2, <3>2
      <4>. QED
        BY <4>1, <4>2, <4>3, <4>4, <3>3 DEF Channel!EventsAreTheLatest
    <3>5. CASE ~(n + 1 > MaxShown)
      <4>1. v6' = list /\ v9' = v8 + 1
        BY <1>1, <2>2, <3>1, <3>5
      <4>2. list # <<>> /\ n + 1 <= MaxShown /\ n + 1 - 1 = n
        BY <3>1, <3>3, <3>5
      <4>. QED
        BY <4>1, <4>2, <3>1, <3>2, <3>3 DEF Channel!EventsAreTheLatest
    <3>. QED
      BY <3>4, <3>5
  <2>. QED
    BY <2>1, <2>2
<1>. QED
  BY <1>0, <1>1, <1>2, <1>4 DEF Channel!TailInv

LEMMA ChannelQuiet ==
  ASSUME Channel!TailInv, v1' = v1, v2' = v2, v3' = v3, v8' = v8,
         (v6' = v6 /\ v9' = v9) \/ (v6' = <<>> /\ v9' = 0)
  PROVE  Channel!TailInv'
<1>1. Channel!StreamsAreTheTail'
  BY DEF Channel!TailInv, Channel!StreamsAreTheTail
<1>2. v6' \in Seq(1 .. v8') /\ Len(v6') <= MaxShown /\ Channel!EventsAreTheLatest'
  <2>1. CASE v6' = v6 /\ v9' = v9
    BY <2>1 DEF Channel!TailInv, Channel!EventsAreTheLatest
  <2>2. CASE v6' = <<>> /\ v9' = 0
    BY <2>2, ChannelEmptied DEF Channel!TailInv
  <2>. QED
    BY <2>1, <2>2
<1>. QED
  BY <1>1, <1>2 DEF Channel!TailInv

LEMMA ChannelNext ==
  ASSUME Channel!TailInv, Channel!Next
  PROVE  Channel!TailInv'
<1>1. CASE \E t \in TailTopics : Channel!connect(t)
  BY <1>1, ChannelConnect
<1>2. CASE Channel!disconnect \/ Channel!LeavePage \/ Channel!ComeBack
  BY <1>2, ChannelLeft
<1>3. CASE Channel!Event
  BY <1>3, ChannelEvent
<1>4. CASE Channel!Clear \/ \E b \in BOOLEAN : Channel!Connection(b) \/ Channel!Pause(b)
  <2>1. /\ v1' = v1 /\ v2' = v2 /\ v3' = v3 /\ v8' = v8
        /\ (v6' = v6 /\ v9' = v9) \/ (v6' = <<>> /\ v9' = 0)
    BY <1>4 DEF Channel!Clear, Channel!Connection, Channel!Pause
  <2>. QED
    BY <2>1, ChannelQuiet
<1>. QED
  BY <1>1, <1>2, <1>3, <1>4 DEF Channel!Next

-----------------------------------------------------------------------------
(* The console.                                                            *)

\* each part keeps its own; the log is there in all of them
StreamsInv ==
    /\ RunsInv /\ LogInv
    /\ part = "channels" => Channel!TailInv
    /\ part = "presence" => Presence!BrokerInv
    /\ part = "changes" => Changes!BrokerInv

LEMMA StreamsInvInit == ConsoleInit => StreamsInv
<1> SUFFICES ASSUME ConsoleInit
             PROVE  StreamsInv
  OBVIOUS
<1>1. LogInv
  BY LogInit DEF ConsoleInit
<1>2. part = "channels" => Channel!TailInv
  <2>1. part = "channels" => Channel!Init
    BY DEF ConsoleInit
  <2>. QED
    BY <2>1, ChannelInit
<1>3. part = "presence" => Presence!BrokerInv
  <2>1. part = "presence" => Presence!Init
    BY DEF ConsoleInit
  <2>. QED
    BY <2>1, Presence!BrokerInit
<1>4. part = "changes" => Changes!BrokerInv
  <2>1. part = "changes" => Changes!Init
    BY DEF ConsoleInit
  <2>. QED
    BY <2>1, Changes!BrokerInit
<1>. QED
  BY <1>1, <1>2, <1>3, <1>4, RunsInvInit DEF StreamsInv

LEMMA StreamsInvNext ==
  ASSUME StreamsInv, [ConsoleNext]_consoleVars
  PROVE  /\ StreamsInv'
         /\ [View!Next]_View!viewVars
         /\ part = "session" /\ Session!TurnedAway => Session!HasCause
         /\ part = "sql" => ~Sql!WriteWithoutConsent
         /\ part = "changes" => Changes!PushIsAllowed
<1>1. part' = part /\ RunsInv'
  BY RunsInvNext DEF ConsoleNext, consoleVars, StreamsInv
<1>2. [Next]_logVars
  BY DEF ConsoleNext, consoleVars
<1>3. LogInv' /\ [View!Next]_View!viewVars
  BY <1>2, LogNext, ViewNext DEF StreamsInv
<1>4. ASSUME part = "session" PROVE Session!TurnedAway => Session!HasCause
  <2>1. [Session!Next]_(Session!sessionVars)
    BY <1>4 DEF ConsoleNext, consoleVars, Session!sessionVars
  <2>. QED
    BY <1>4, <2>1, SessionNext DEF StreamsInv, RunsInv
<1>5. ASSUME part = "sql" PROVE ~Sql!WriteWithoutConsent
  <2>1. [Sql!Next]_(Sql!sqlVars)
    BY <1>5 DEF ConsoleNext, consoleVars, Sql!sqlVars
  <2>. QED
    BY <1>5, <2>1, SqlWrites DEF StreamsInv, RunsInv
<1>6. ASSUME part = "channels" PROVE Channel!TailInv'
  <2>1. [Channel!Next]_(Channel!tailVars)
    BY <1>6 DEF ConsoleNext, consoleVars, Channel!tailVars
  <2>2. Channel!TailInv
    BY <1>6 DEF StreamsInv
  <2>3. CASE UNCHANGED Channel!tailVars
    BY <2>2, <2>3, ChannelQuiet DEF Channel!tailVars
  <2>. QED
    BY <2>1, <2>2, <2>3, ChannelNext
<1>7. ASSUME part = "presence" PROVE Presence!BrokerInv'
  <2>1. [Presence!Next]_(Presence!rtVars)
    BY <1>7 DEF ConsoleNext, consoleVars, Presence!rtVars, Presence!sessionVars, Presence!dataVars
  <2>2. Presence!BrokerInv
    BY <1>7 DEF StreamsInv
  <2>3. Presence!RealtimeAssumption
    BY ConsoleAssumption
  <2>. QED
    BY <2>1, <2>2, <2>3, Presence!BrokerNext
<1>8. ASSUME part = "changes" PROVE Changes!BrokerInv' /\ Changes!PushIsAllowed
  <2>1. [Changes!Next]_(Changes!rtVars)
    BY <1>8 DEF ConsoleNext, consoleVars, Changes!rtVars, Changes!sessionVars, Changes!dataVars
  <2>2. Changes!BrokerInv
    BY <1>8 DEF StreamsInv
  <2>3. Changes!RealtimeAssumption
    BY ConsoleAssumption
  <2>. QED
    BY <2>1, <2>2, <2>3, Changes!BrokerNext
<1>9. StreamsInv'
  BY <1>1, <1>3, <1>6, <1>7, <1>8 DEF StreamsInv
<1>. QED
  BY <1>3, <1>4, <1>5, <1>8, <1>9

(* The live pages: of the streams opened in a visit of the channel page    *)
(* only the one shown is open, and its list ends with the event taken      *)
(* last; a log that has caught up shows all of the ring that it must, in   *)
(* the ring's order, and no stream outlives the page but by its timer.     *)
THEOREM StreamsCorrect == ConsoleSpec => []StreamsAreTails
<1>1. ConsoleInit => StreamsInv
  BY StreamsInvInit
<1>2. StreamsInv /\ [ConsoleNext]_consoleVars => StreamsInv'
  BY StreamsInvNext
<1>3. StreamsInv => StreamsAreTails
  BY LogHolds DEF StreamsInv, Channel!TailInv, StreamsAreTails
<1>. QED
  BY <1>1, <1>2, <1>3, PTL DEF ConsoleSpec

(* The broker: who reads its queue to the end knows who is on the topic,   *)
(* unless a full queue dropped the news; nobody is there who is not joined *)
(* and connected; and a subscriber that stays entitled to a change gets it *)
(* once, under its one channel for it.                                     *)
THEOREM SubscribersCorrect == ConsoleSpec => []SubscribersAreTold
<1>1. ConsoleInit => StreamsInv
  BY StreamsInvInit
<1>2. StreamsInv /\ [ConsoleNext]_consoleVars => StreamsInv'
  BY StreamsInvNext
<1>3. StreamsInv => SubscribersAreTold
  <2> SUFFICES ASSUME StreamsInv
               PROVE  SubscribersAreTold
    OBVIOUS
  <2>1. part = "presence" => Presence!PresenceIsTold /\ Presence!NobodyIsLeft
    BY Presence!BrokerHolds DEF StreamsInv
  <2>2. part = "changes" => Changes!ChangesArrive
    BY Changes!BrokerHolds DEF StreamsInv
  <2>. QED
    BY <2>1, <2>2 DEF SubscribersAreTold
<1>. QED
  BY <1>1, <1>2, <1>3, PTL DEF ConsoleSpec

(* The log page implements the tail that can be held still: what was held  *)
(* is neither lost nor reordered, and the page that is released shows what *)
(* it would have shown had it never been held.                             *)
THEOREM TailCorrect == ConsoleSpec => TailImplemented
<1>1. ConsoleInit => StreamsInv /\ View!Init
  BY StreamsInvInit, ViewInit DEF ConsoleInit
<1>2. StreamsInv /\ [ConsoleNext]_consoleVars => StreamsInv'
  BY StreamsInvNext
<1>3. StreamsInv /\ [ConsoleNext]_consoleVars => [View!Next]_View!viewVars
  BY StreamsInvNext
<1>. QED
  BY <1>1, <1>2, <1>3, PTL DEF ConsoleSpec, TailImplemented, View!Spec

(* Nobody is turned away from the console without a cause, no statement    *)
(* that may write runs without a consent, and no change is pushed to whom  *)
(* row-level security hides it, but for a token that changed meanwhile.    *)
THEOREM CausesCorrect == ConsoleSpec => StepsHaveCause
<1> DEFINE A == /\ part = "session" /\ Session!TurnedAway => Session!HasCause
                /\ part = "sql" => ~Sql!WriteWithoutConsent
                /\ part = "changes" => Changes!PushIsAllowed
<1>1. ConsoleInit => StreamsInv
  BY StreamsInvInit
<1>2. StreamsInv /\ [ConsoleNext]_consoleVars => StreamsInv'
  BY StreamsInvNext
<1>3. StreamsInv /\ [ConsoleNext]_consoleVars => [A]_consoleVars
  BY StreamsInvNext
<1>. QED
  BY <1>1, <1>2, <1>3, PTL DEF ConsoleSpec, StepsHaveCause

=============================================================================
