-------------------------- MODULE FeedClockProofs --------------------------
(***************************************************************************)
(* Proofs about FeedClock, for every installation: any number of assets,   *)
(* timeframes and calls, and a clock without bound.                        *)
(***************************************************************************)
EXTENDS FeedClock, FoldTheorems, SequenceTheorems

(* Sequences. *)

LEMMA Elements ==
  ASSUME NEW S, NEW s \in Seq(S)
  PROVE  /\ Len(s) \in Nat /\ DOMAIN s = 1 .. Len(s)
         /\ s = <<>> <=> Len(s) = 0
         /\ \A i \in DOMAIN s : s[i] \in S
         /\ \A x : Contains(s, x) <=> x \in ToSet(s)
         /\ \A x : Contains(s, x) => x \in S
         /\ ToSet(s) \subseteq S
<1>1. Len(s) \in Nat /\ DOMAIN s = 1 .. Len(s) /\ \A i \in DOMAIN s : s[i] \in S
  BY LenProperties, ElementOfSeq
<1>2. s = <<>> <=> Len(s) = 0
  BY EmptySeq
<1> QED
  BY <1>1, <1>2 DEF Contains, ToSet

LEMMA Appended ==
  ASSUME NEW S, NEW s \in Seq(S), NEW e \in S
  PROVE  /\ Append(s, e) \in Seq(S) /\ Append(s, e) # <<>>
         /\ Len(Append(s, e)) = Len(s) + 1
         /\ DOMAIN Append(s, e) = 1 .. Len(s) + 1
         /\ \A i \in DOMAIN s : Append(s, e)[i] = s[i]
         /\ Append(s, e)[Len(s) + 1] = e
         /\ \A x : Contains(Append(s, e), x) <=> Contains(s, x) \/ x = e
<1>1. /\ Append(s, e) \in Seq(S) /\ Append(s, e) # <<>>
      /\ Len(Append(s, e)) = Len(s) + 1
      /\ \A i \in 1 .. Len(s) : Append(s, e)[i] = s[i]
      /\ Append(s, e)[Len(s) + 1] = e
  BY AppendProperties
<1>2. DOMAIN s = 1 .. Len(s) /\ Len(s) \in Nat
  BY Elements
<1>3. DOMAIN Append(s, e) = 1 .. Len(s) + 1
  BY <1>1, Elements
<1> DEFINE t == Append(s, e)
<1> HIDE DEF t
<1>4. \A x : Contains(t, x) <=> Contains(s, x) \/ x = e
  <2> SUFFICES ASSUME NEW x PROVE Contains(t, x) <=> Contains(s, x) \/ x = e
    OBVIOUS
  <2>1. Len(t) = Len(s) + 1 /\ (\A i \in 1 .. Len(s) : t[i] = s[i]) /\ t[Len(s) + 1] = e
    BY <1>1 DEF t
  <2>2. \A i \in 1 .. Len(t) : i \in 1 .. Len(s) \/ i = Len(s) + 1
    BY <1>2, <2>1
  <2>3. \A i \in 1 .. Len(s) : i \in 1 .. Len(t)
    BY <1>2, <2>1
  <2>4. Len(s) + 1 \in 1 .. Len(t)
    BY <1>2, <2>1
  <2> QED
    BY <2>1, <2>2, <2>3, <2>4 DEF Contains
<1> QED
  BY <1>1, <1>2, <1>3, <1>4 DEF t

LEMMA Dropped ==
  ASSUME NEW S, NEW s \in Seq(S), s # <<>>
  PROVE  /\ Tail(s) \in Seq(S) /\ Head(s) \in S
         /\ Head(s) = s[1] /\ 1 \in DOMAIN s
         /\ Len(Tail(s)) = Len(s) - 1
         /\ \A i \in DOMAIN Tail(s) : i + 1 \in DOMAIN s /\ Tail(s)[i] = s[i + 1]
         /\ \A x : Contains(s, x) <=> x = Head(s) \/ Contains(Tail(s), x)
<1>1. /\ Head(s) \in S /\ Tail(s) \in Seq(S) /\ Len(Tail(s)) = Len(s) - 1
      /\ \A i \in 1 .. Len(Tail(s)) : Tail(s)[i] = s[i + 1]
  BY HeadTailProperties
<1>2. DOMAIN s = 1 .. Len(s) /\ Len(s) \in Nat /\ Len(s) # 0
  BY Elements
<1>3. DOMAIN Tail(s) = 1 .. Len(Tail(s))
  BY <1>1, Elements
<1>4. Head(s) = s[1]
  OBVIOUS
<1> DEFINE t == Tail(s)
<1> HIDE DEF t
<1>5. \A x : Contains(s, x) <=> x = Head(s) \/ Contains(t, x)
  <2> SUFFICES ASSUME NEW x PROVE Contains(s, x) <=> x = s[1] \/ Contains(t, x)
    BY <1>4
  <2>1. \A i \in 1 .. Len(s) : i = 1 \/ (i - 1 \in 1 .. Len(t) /\ t[i - 1] = s[i])
    BY <1>1, <1>2 DEF t
  <2>2. \A i \in 1 .. Len(t) : i + 1 \in 1 .. Len(s) /\ s[i + 1] = t[i]
    BY <1>1, <1>2 DEF t
  <2>3. 1 \in 1 .. Len(s)
    BY <1>2
  <2> QED
    BY <2>1, <2>2, <2>3 DEF Contains
<1> QED
  BY <1>1, <1>2, <1>3, <1>4, <1>5 DEF t

LEMMA Joined ==
  ASSUME NEW S, NEW s \in Seq(S), NEW t \in Seq(S)
  PROVE  /\ s \o t \in Seq(S)
         /\ ToSet(s \o t) = ToSet(s) \cup ToSet(t)
<1>1. /\ s \o t \in Seq(S) /\ Len(s \o t) = Len(s) + Len(t)
      /\ \A i \in 1 .. Len(s) + Len(t) : (s \o t)[i] = IF i <= Len(s) THEN s[i] ELSE t[i - Len(s)]
  BY ConcatProperties
<1> DEFINE u == s \o t
<1> HIDE DEF u
<1>2. /\ DOMAIN s = 1 .. Len(s) /\ Len(s) \in Nat
      /\ DOMAIN t = 1 .. Len(t) /\ Len(t) \in Nat
      /\ DOMAIN u = 1 .. Len(u)
  <2>1. u \in Seq(S)
    BY <1>1 DEF u
  <2> QED
    BY <2>1, Elements
<1>3. /\ Len(u) = Len(s) + Len(t)
      /\ \A i \in 1 .. Len(s) + Len(t) : u[i] = IF i <= Len(s) THEN s[i] ELSE t[i - Len(s)]
  BY <1>1 DEF u
<1>4. \A i \in DOMAIN u : \/ i \in DOMAIN s /\ u[i] = s[i]
                          \/ i - Len(s) \in DOMAIN t /\ u[i] = t[i - Len(s)]
  BY <1>2, <1>3
<1>5. \A i \in DOMAIN s : i \in DOMAIN u /\ u[i] = s[i]
  BY <1>2, <1>3
<1>6. \A i \in DOMAIN t : i + Len(s) \in DOMAIN u /\ u[i + Len(s)] = t[i]
  BY <1>2, <1>3
<1>7. ToSet(u) = ToSet(s) \cup ToSet(t)
  BY <1>4, <1>5, <1>6 DEF ToSet
<1> QED
  BY <1>1, <1>7 DEF u

-----------------------------------------------------------------------------
(* What is kept of a sequence. *)

KeepSteps(S, s, M) ==
  [i \in 1 .. Len(s) |-> [v \in Seq(S) |-> IF s[i] \in M THEN Append(v, s[i]) ELSE v]]

LEMMA AmongRun ==
  ASSUME NEW S, NEW s \in Seq(S), NEW M
  PROVE  /\ Among(s, M) = Run(KeepSteps(S, s, M), <<>>, Len(s))
         /\ Steps(KeepSteps(S, s, M), Seq(S), Len(s))
<1> DEFINE D == KeepSteps(S, s, M)
           m == Len(s)
           V == Seq(S)
           none == <<>>
           Eq(h) == h = [s0 \in SUBSET DOMAIN s |->
                           IF s0 = {} THEN <<>>
                           ELSE IF s[Max(s0)] \in M THEN Append(h[s0 \ {Max(s0)}], s[Max(s0)])
                                ELSE h[s0 \ {Max(s0)}]]
           h == CHOOSE h : Eq(h)
<1>1. m \in Nat /\ DOMAIN s = 1 .. m /\ \A i \in 1 .. m : s[i] \in S
  BY Elements
<1>2. \A i \in 1 .. m : \A v \in V : D[i][v] = IF s[i] \in M THEN Append(v, s[i]) ELSE v
  BY DEF KeepSteps
<1>3. none \in V
  OBVIOUS
<1>4. Steps(D, V, m)
  <2> HIDE DEF D
  <2> SUFFICES ASSUME NEW i \in 1 .. m, NEW v \in V PROVE D[i][v] \in V
    BY DEF Steps
  <2>1. s[i] \in S
    BY <1>1
  <2>2. Append(v, s[i]) \in Seq(S)
    BY <2>1, Appended
  <2> QED
    BY <1>2, <2>2
<1>5. Among(s, M) = h[DOMAIN s]
  BY DEF Among, FoldLeft, MapThenFoldSet
<1> HIDE DEF D, m, V, none
<1>6. PICK g : RunsThrough(g, D, V, none, m)
  BY <1>1, <1>3, <1>4, RunFold
<1>7. /\ g = [s0 \in SUBSET (1 .. m) |-> g[s0]]
      /\ \A s0 \in SUBSET (1 .. m) :
           /\ g[s0] \in V
           /\ s0 = {} => g[s0] = none
           /\ s0 # {} => /\ Max(s0) \in 1 .. m /\ Max(s0) \in s0
                         /\ g[s0] = D[Max(s0)][g[s0 \ {Max(s0)}]]
  BY <1>6 DEF RunsThrough
<1>8. Eq(g)
  <2>1. ASSUME NEW s0 \in SUBSET (1 .. m), s0 # {}
        PROVE  g[s0] = IF s[Max(s0)] \in M THEN Append(g[s0 \ {Max(s0)}], s[Max(s0)])
                       ELSE g[s0 \ {Max(s0)}]
    <3>1. s0 \ {Max(s0)} \in SUBSET (1 .. m)
      OBVIOUS
    <3>2. g[s0 \ {Max(s0)}] \in V
      BY <1>7, <3>1
    <3>3. Max(s0) \in 1 .. m /\ g[s0] = D[Max(s0)][g[s0 \ {Max(s0)}]]
      BY <1>7, <2>1
    <3> QED
      BY <1>2, <3>2, <3>3
  <2>2. \A s0 \in SUBSET (1 .. m) : s0 = {} => g[s0] = <<>>
    BY <1>7 DEF none
  <2> QED
    BY <1>1, <1>7, <2>1, <2>2
<1>9. Eq(h)
  BY <1>8
<1> HIDE DEF h
<1>10. h[{}] = none
  BY <1>1, <1>9 DEF none
<1>11. ASSUME NEW s0 \in SUBSET (1 .. m), s0 # {}, h[s0 \ {Max(s0)}] \in V
       PROVE  h[s0] = D[Max(s0)][h[s0 \ {Max(s0)}]]
  <2>1. h[s0] = IF s[Max(s0)] \in M THEN Append(h[s0 \ {Max(s0)}], s[Max(s0)])
                ELSE h[s0 \ {Max(s0)}]
    BY <1>1, <1>9, <1>11
  <2>2. Max(s0) \in 1 .. m
    BY <1>7, <1>11
  <2> QED
    BY <1>2, <1>11, <2>1, <2>2
<1>12. h[1 .. m] = Run(D, none, m)
  BY <1>1, <1>3, <1>4, <1>10, <1>11, RunFrom
<1> QED
  BY <1>1, <1>4, <1>5, <1>12 DEF D, m, V, none

LEMMA AmongNone ==
  ASSUME NEW M
  PROVE  Among(<<>>, M) = <<>>
<1>1. <<>> \in Seq({}) /\ Len(<<>>) = 0
  OBVIOUS
<1>2. Among(<<>>, M) = Run(KeepSteps({}, <<>>, M), <<>>, 0)
  BY <1>1, AmongRun
<1> QED
  BY <1>2, RunNone

LEMMA AmongAppend ==
  ASSUME NEW S, NEW s \in Seq(S), NEW e \in S, NEW M
  PROVE  Among(Append(s, e), M) = IF e \in M THEN Append(Among(s, M), e) ELSE Among(s, M)
<1> DEFINE t == Append(s, e)
           D == KeepSteps(S, s, M)
           E == KeepSteps(S, t, M)
           n == Len(s)
           none == <<>>
           v == Run(D, none, n)
<1>1. /\ t \in Seq(S) /\ Len(t) = n + 1 /\ DOMAIN t = 1 .. n + 1
      /\ (\A i \in DOMAIN s : t[i] = s[i]) /\ t[n + 1] = e
  BY Appended
<1>2. n \in Nat /\ DOMAIN s = 1 .. n
  BY Elements
<1> HIDE DEF t
<1>3. ASSUME NEW i \in 1 .. n
      PROVE  D[i] = E[i]
  <2>1. i \in 1 .. Len(t) /\ t[i] = s[i]
    BY <1>1, <1>2
  <2>2. D[i] = [w \in Seq(S) |-> IF s[i] \in M THEN Append(w, s[i]) ELSE w]
    BY DEF KeepSteps
  <2>3. E[i] = [w \in Seq(S) |-> IF t[i] \in M THEN Append(w, t[i]) ELSE w]
    BY <2>1 DEF KeepSteps
  <2> QED
    BY <2>1, <2>2, <2>3
<1>4. E[n + 1] = [w \in Seq(S) |-> IF e \in M THEN Append(w, e) ELSE w]
  <2>1. n + 1 \in 1 .. Len(t) /\ t[n + 1] = e
    BY <1>1, <1>2
  <2>2. E[n + 1] = [w \in Seq(S) |-> IF t[n + 1] \in M THEN Append(w, t[n + 1]) ELSE w]
    BY <2>1 DEF KeepSteps
  <2> QED
    BY <2>1, <2>2
<1>5. Among(s, M) = v /\ Steps(D, Seq(S), n)
  BY AmongRun
<1>6. Among(t, M) = Run(E, none, n + 1)
  BY <1>1, AmongRun
<1> DEFINE V == Seq(S)
<1>7. none \in V
  OBVIOUS
<1> HIDE DEF D, E, n, none, V
<1>8. v \in V
  BY <1>2, <1>5, <1>7, RunIn DEF V
<1>9. Run(E, none, n + 1) = E[n + 1][v]
  BY <1>2, <1>3, RunStep
<1> HIDE DEF v
<1>10. Among(t, M) = IF e \in M THEN Append(v, e) ELSE v
  BY <1>4, <1>6, <1>8, <1>9 DEF V
<1> QED
  BY <1>5, <1>10 DEF t

(* A sequence is kept in its order: every two that are kept come from two  *)
(* of the sequence, and none that is to be kept is lost.                   *)
Keeps(s, M, kept) ==
  /\ kept \in Seq(ToSet(s) \cap M)
  /\ \A x \in ToSet(s) \cap M : Contains(kept, x)
  /\ \A i, j \in DOMAIN kept :
       i < j => \E k, l \in DOMAIN s : k < l /\ kept[i] = s[k] /\ kept[j] = s[l]

LEMMA AmongKeeps ==
  ASSUME NEW S, NEW s \in Seq(S), NEW M
  PROVE  Keeps(s, M, Among(s, M))
<1> DEFINE Fails(n) == \E t \in Seq(S) : Len(t) = n /\ ~Keeps(t, M, Among(t, M))
           C == {n \in Nat : Fails(n)}
<1> SUFFICES ASSUME C # {} PROVE FALSE
  <2>1. Len(s) \in Nat
    BY Elements
  <2> QED
    BY <2>1
<1>1. PICK n \in C : \A m \in C : n <= m
  <2>1. C \in SUBSET Nat
    OBVIOUS
  <2> HIDE DEF C
  <2> QED
    BY <2>1, SmallestNat
<1>2. PICK t \in Seq(S) : Len(t) = n /\ ~Keeps(t, M, Among(t, M))
  BY <1>1
<1>3. t # <<>>
  <2>1. ASSUME t = <<>> PROVE FALSE
    <3>1. Among(t, M) = <<>>
      BY <2>1, AmongNone
    <3>2. Keeps(<<>>, M, <<>>)
      BY DEF Keeps, ToSet
    <3> QED
      BY <1>2, <2>1, <3>1, <3>2
  <2> QED
    BY <2>1
<1>4. PICK u \in Seq(S), e \in S : t = Append(u, e)
  BY <1>3, SequenceEmptyOrAppend
<1>5. /\ Len(t) = Len(u) + 1 /\ DOMAIN t = 1 .. Len(u) + 1 /\ Len(u) \in Nat
      /\ DOMAIN u = 1 .. Len(u)
      /\ (\A i \in DOMAIN u : t[i] = u[i]) /\ t[Len(u) + 1] = e
  BY <1>4, Appended, Elements
<1>6. Keeps(u, M, Among(u, M))
  <2>1. Len(u) \in Nat /\ ~(n <= Len(u))
    BY <1>1, <1>2, <1>5
  <2>2. Len(u) \notin C
    BY <1>1, <2>1
  <2> QED
    BY <2>1, <2>2
<1> DEFINE k == Among(u, M)
<1>7. Among(t, M) = IF e \in M THEN Append(k, e) ELSE k
  BY <1>4, AmongAppend
<1> HIDE DEF k, C
<1>8. ToSet(t) = ToSet(u) \cup {e}
  <2>1. \A i \in DOMAIN t : i \in DOMAIN u \/ i = Len(u) + 1
    BY <1>5
  <2>2. \A i \in DOMAIN u : i \in DOMAIN t
    BY <1>5
  <2>3. Len(u) + 1 \in DOMAIN t
    BY <1>5
  <2> QED
    BY <1>5, <2>1, <2>2, <2>3 DEF ToSet
<1>9. /\ k \in Seq(ToSet(u) \cap M)
      /\ \A x \in ToSet(u) \cap M : Contains(k, x)
      /\ \A i, j \in DOMAIN k :
           i < j => \E a, b \in DOMAIN u : a < b /\ k[i] = u[a] /\ k[j] = u[b]
  BY <1>6 DEF Keeps, k
<1> DEFINE T == ToSet(t) \cap M
<1>10. k \in Seq(T)
  BY <1>8, <1>9, SeqMonotonic
<1>11. \A a, b \in DOMAIN u : a \in DOMAIN t /\ b \in DOMAIN t /\ t[a] = u[a] /\ t[b] = u[b]
  BY <1>5
<1>12. CASE e \notin M
  <2>1. T = ToSet(u) \cap M /\ Among(t, M) = k
    BY <1>7, <1>8, <1>12
  <2>2. \A i, j \in DOMAIN k :
          i < j => \E a, b \in DOMAIN t : a < b /\ k[i] = t[a] /\ k[j] = t[b]
    BY <1>9, <1>11
  <2> QED
    BY <1>2, <1>9, <2>1, <2>2 DEF Keeps
<1>13. CASE e \in M
  <2> DEFINE w == Append(k, e)
  <2>1. e \in T
    BY <1>8, <1>13
  <2> HIDE DEF T
  <2>2. /\ w \in Seq(T) /\ DOMAIN w = 1 .. Len(k) + 1
        /\ (\A i \in DOMAIN k : w[i] = k[i]) /\ w[Len(k) + 1] = e
        /\ \A x : Contains(w, x) <=> Contains(k, x) \/ x = e
    BY <1>10, <2>1, Appended
  <2>3. Len(k) \in Nat /\ DOMAIN k = 1 .. Len(k) /\ \A i \in DOMAIN k : k[i] \in ToSet(u) \cap M
    BY <1>9, Elements
  <2> HIDE DEF w
  <2>4. \A x \in T : Contains(w, x)
    BY <1>8, <1>9, <2>2 DEF T
  <2>5. ASSUME NEW i \in DOMAIN w, NEW j \in DOMAIN w, i < j
        PROVE  \E a, b \in DOMAIN t : a < b /\ w[i] = t[a] /\ w[j] = t[b]
    <3>1. i \in DOMAIN k
      BY <2>2, <2>3, <2>5
    <3>2. CASE j \in DOMAIN k
      BY <1>9, <1>11, <2>2, <2>5, <3>1, <3>2
    <3>3. CASE j \notin DOMAIN k
      <4>1. w[j] = e
        BY <2>2, <2>3, <3>3
      <4>2. PICK a \in DOMAIN u : k[i] = u[a]
        BY <2>3, <3>1 DEF ToSet
      <4>3. a < Len(u) + 1 /\ a \in DOMAIN t /\ Len(u) + 1 \in DOMAIN t /\ t[a] = u[a]
        BY <1>5
      <4> QED
        BY <1>5, <2>2, <3>1, <4>1, <4>2, <4>3
    <3> QED
      BY <3>2, <3>3
  <2> QED
    BY <1>2, <1>7, <1>13, <2>2, <2>4, <2>5 DEF Keeps, T, w
<1> QED
  BY <1>12, <1>13

-----------------------------------------------------------------------------
(* Time and bars. *)

Spans == Nat \ {0}

LEMMA Boundary ==
  ASSUME NEW x \in Int, NEW tf \in Spans
  PROVE  /\ (x \div tf) \in Int /\ (x \div tf) * tf \in Int /\ (x \div tf) * tf <= x
         /\ x >= 0 => (x \div tf) * tf >= 0
         /\ \A y \in Int : x <= y => (x \div tf) * tf <= (y \div tf) * tf
<1>1. (x \div tf) \in Int /\ (x \div tf) * tf \in Int /\ (x \div tf) * tf <= x
  BY DEF Spans
<1>2. x >= 0 => (x \div tf) * tf >= 0
  BY DEF Spans
<1>3. ASSUME NEW y \in Int, x <= y
      PROVE  (x \div tf) * tf <= (y \div tf) * tf
  <2>1. (x \div tf) <= (y \div tf)
    BY <1>3 DEF Spans
  <2> DEFINE a == x \div tf
             b == y \div tf
  <2>2. a \in Int /\ b \in Int /\ a <= b /\ tf \in Nat
    BY <2>1 DEF Spans
  <2> HIDE DEF a, b
  <2>3. a * tf <= b * tf
    BY <2>2
  <2> QED
    BY <2>3 DEF a, b
<1> QED
  BY <1>1, <1>2, <1>3

LEMMA Ended ==
  ASSUME now \in Nat, NEW tf \in Spans
  PROVE  LatestEnd(tf) \in Int /\ LatestEnd(tf) <= now
<1>1. now \in Int
  OBVIOUS
<1> QED
  BY <1>1, Boundary DEF LatestEnd

LEMMA Multiples ==
  ASSUME NEW m \in Int, NEW tf \in Spans, NEW c \in Int
  PROVE  /\ m * tf \in Int /\ c + m * tf \in Int
         /\ c + (m + 1) * tf = c + m * tf + tf
         /\ \A n \in Int : m <= n => c + m * tf <= c + n * tf
<1>1. m * tf \in Int /\ (m + 1) * tf = m * tf + tf
  BY DEF Spans
<1>2. \A n \in Int : m <= n => m * tf <= n * tf
  BY DEF Spans
<1> DEFINE p == m * tf
<1>3. ASSUME NEW n \in Int, m <= n PROVE c + m * tf <= c + n * tf
  <2> DEFINE q == n * tf
  <2>1. p \in Int /\ q \in Int /\ p <= q
    BY <1>1, <1>2, <1>3 DEF Spans
  <2> HIDE DEF p, q
  <2>2. c + p <= c + q
    BY <2>1
  <2> QED
    BY <2>2 DEF p, q
<1>4. c + (m + 1) * tf = c + m * tf + tf
  <2>1. (m + 1) * tf = p + tf /\ p \in Int /\ tf \in Int
    BY <1>1 DEF Spans
  <2> HIDE DEF p
  <2>2. c + (m + 1) * tf = c + p + tf
    BY <2>1
  <2> QED
    BY <2>2 DEF p
<1> QED
  BY <1>1, <1>3, <1>4

(* What a row of bars is: live or not, from a cursor up to a boundary, one *)
(* bar beginning where the bar before it ended.                            *)
Contiguous(row, live, from, to) ==
  /\ \A i \in DOMAIN row : /\ row[i].live = live
                           /\ row[i].from \in Int /\ row[i].to \in Int
                           /\ from <= row[i].from /\ row[i].from < row[i].to /\ row[i].to <= to
  /\ \A i \in DOMAIN row : i + 1 \in DOMAIN row => row[i].to = row[i + 1].from
  /\ \A i, j \in DOMAIN row : i < j => row[i].to <= row[j].from
  /\ row # <<>> => row[1].from = from /\ row[Len(row)].to = to

(* A row of n bars of one timeframe. *)
RowOf(n, from, tf, live) ==
  [i \in 1 .. n |-> [from |-> from + (i - 1) * tf, to |-> from + i * tf, live |-> live, open |-> NULL]]

LEMMA RowIs ==
  ASSUME NEW n \in Nat, NEW from \in Int, NEW tf \in Spans, NEW live \in BOOLEAN
  PROVE  /\ RowOf(n, from, tf, live) \in Seq(Bars(setting))
         /\ Len(RowOf(n, from, tf, live)) = n
         /\ Contiguous(RowOf(n, from, tf, live), live, from, from + n * tf)
<1> DEFINE row == RowOf(n, from, tf, live)
<1>1. /\ DOMAIN row = 1 .. n
      /\ \A i \in 1 .. n : row[i] = [from |-> from + (i - 1) * tf, to |-> from + i * tf,
                                     live |-> live, open |-> NULL]
  BY DEF RowOf
<1>2. row = [i \in 1 .. n |-> row[i]]
  BY DEF RowOf
<1> HIDE DEF row
<1>3. ASSUME NEW i \in 1 .. n
      PROVE  /\ row[i].live = live /\ row[i].open = NULL
             /\ row[i].from = from + (i - 1) * tf /\ row[i].to = from + i * tf
             /\ row[i].from \in Int /\ row[i].to \in Int
             /\ from <= row[i].from /\ row[i].from < row[i].to /\ row[i].to <= from + n * tf
             /\ row[i] \in Bars(setting)
  <2>1. i \in Int /\ i - 1 \in Int /\ 0 <= i - 1 /\ i <= n /\ (i - 1) + 1 = i
    OBVIOUS
  <2>2. from + i * tf \in Int /\ from + i * tf <= from + n * tf
    BY <2>1, Multiples
  <2> DEFINE k == i - 1
  <2> HIDE DEF k
  <2>3. /\ k \in Int /\ 0 <= k /\ k + 1 = i
        /\ from + k * tf \in Int /\ from + (k + 1) * tf = from + k * tf + tf
        /\ from + 0 * tf <= from + k * tf /\ 0 * tf = 0
    <3>1. k \in Int /\ 0 <= k /\ k + 1 = i /\ 0 \in Int
      BY <2>1 DEF k
    <3>2. 0 * tf = 0
      BY DEF Spans
    <3> QED
      BY <3>1, <3>2, Multiples
  <2>4. row[i] = [from |-> from + k * tf, to |-> from + i * tf, live |-> live, open |-> NULL]
    BY <1>1 DEF k
  <2> DEFINE p == from + k * tf
             q == from + i * tf
             z == 0 * tf
  <2>5. q = p + tf /\ p \in Int /\ q \in Int /\ from + z <= p /\ z = 0 /\ tf > 0 /\ tf \in Int
    BY <2>2, <2>3 DEF Spans
  <2> HIDE DEF p, q, z
  <2>6. from <= p /\ p < q
    BY <2>5
  <2>7. row[i].from = p /\ row[i].to = q /\ row[i].live = live /\ row[i].open = NULL
    BY <2>4 DEF p, q
  <2>8. row[i] \in Bars(setting)
    BY <2>4, <2>5 DEF Bars, p, q
  <2> QED
    BY <2>2, <2>5, <2>6, <2>7, <2>8 DEF p, q, k
<1>4. row \in Seq(Bars(setting)) /\ Len(row) = n
  <2>1. row \in [1 .. n -> Bars(setting)]
    BY <1>2, <1>3
  <2> QED
    BY <2>1
<1>5. ASSUME NEW i \in 1 .. n, NEW j \in 1 .. n, i < j
      PROVE  row[i].to <= row[j].from
  <2>1. i \in Int /\ j - 1 \in Int /\ i <= j - 1
    BY <1>5
  <2>2. from + i * tf <= from + (j - 1) * tf
    BY <2>1, Multiples
  <2> QED
    BY <1>3, <2>2
<1>6. ASSUME NEW i \in 1 .. n, i + 1 \in 1 .. n
      PROVE  row[i].to = row[i + 1].from
  <2>1. row[i + 1].from = from + ((i + 1) - 1) * tf /\ (i + 1) - 1 = i
    BY <1>3, <1>6
  <2> QED
    BY <1>3, <2>1
<1>7. row # <<>> => row[1].from = from /\ row[Len(row)].to = from + n * tf
  <2> SUFFICES ASSUME n # 0 PROVE row[1].from = from /\ row[n].to = from + n * tf
    BY <1>4
  <2>1. 1 \in 1 .. n /\ n \in 1 .. n
    OBVIOUS
  <2>2. row[1].from = from + (1 - 1) * tf /\ (1 - 1) * tf = 0
    BY <1>3, <2>1 DEF Spans
  <2>3. row[n].to = from + n * tf
    BY <1>3, <2>1
  <2> QED
    BY <2>2, <2>3
<1> QED
  BY <1>1, <1>3, <1>4, <1>5, <1>6, <1>7 DEF Contiguous, row

-----------------------------------------------------------------------------
(* Types, part by part. *)

Ops == {"idle", "down", "start", "modelstart", "status", "step", "warmup", "batch", "batchwarmup",
        "save", "write"}

FileNames == {"market_events", "assets", "agent_decisions", "market_model", "feed_status", "feed_configs"}

ClockTyped == now \in Nat /\ admin \in 0 .. setting.maxCalls

StatusTyped == status \in [Assets -> Statuses]

FeedsTyped ==
  /\ feeds \in [Assets -> FeedRows(setting) \cup {NULL}]
  /\ keys \in Seq(Assets) /\ IsInjective(keys)
  /\ \A a \in Assets : feeds[a] # NULL <=> Contains(keys, a)
  /\ last \in [cursor : Cursors, price : Assets \cup {NULL}]

ModelTyped == model \in [active : BOOLEAN, cursor : Cursors]

LogsTyped == bars \in [Assets -> Seq(Bars(setting))] /\ decided \in [Assets -> Seq(Int)]

(* What exchange$feed tells. *)
Lasts == [cursor : Cursors, price : Assets \cup {NULL}]

CallTyped ==
  call \in [op : Ops, todo : Seq(Assets), max : Nat, feed : FeedRows(setting) \cup {NULL},
            bars : Seq(Bars(setting)), cursor : Cursors, last : Lasts]

DiskTyped ==
  /\ DOMAIN disk = FileNames /\ disk = [f \in FileNames |-> disk[f]]
  /\ \A f \in FileNames : disk[f] = NULL \/ disk[f] \in Tables(setting)[f]

WritingTyped == writing \in {SubSeq(Files, k, 6) : k \in 1 .. 7}

WellTyped ==
  /\ ClockTyped /\ StatusTyped /\ FeedsTyped /\ ModelTyped /\ LogsTyped /\ CallTyped
  /\ DiskTyped /\ WritingTyped

(* What a call knows.  A feed that has been fetched is the one that is     *)
(* walked and has been stored; when batches are planned, every feed they   *)
(* are made of has been stored; a call of an idle, dead or writing program *)
(* has nothing to do.                                                      *)
Fetched == call.feed # NULL

Batching == call.cursor # NULL

Warming == call.op \in {"warmup", "batchwarmup"}

Requested == {a \in Assets : Contains(keys, a) \/ status[a] = "active"}

FetchShape ==
  Fetched => /\ call.op \in {"step", "warmup"} /\ call.todo # <<>> /\ ~Batching
             /\ Contains(keys, Key)

BatchShape ==
  Batching => /\ call.op \in {"batch", "batchwarmup"} /\ call.todo = <<>> /\ ~Fetched
              /\ Requested # {} /\ \A a \in Requested : Contains(keys, a)

BatchAsked ==
  call.op \in {"batch", "batchwarmup", "modelstart"} =>
    \/ \A a \in Requested : Contains(keys, a) \/ Contains(call.todo, a)
    \/ call.todo = <<>> /\ Len(RequestKeys) < 2

CallShape ==
  /\ ~Fetched /\ ~Batching => call.bars = <<>>
  /\ Warming => \A i \in DOMAIN call.bars : ~call.bars[i].live
  /\ call.op \in {"idle", "down", "write"} => ~Fetched /\ ~Batching /\ call.todo = <<>>

(* While a save is written, the files that are not left to write are the   *)
(* state; the last file is there only with all others.  After a crash      *)
(* there is no state but the disk.                                         *)
Saved(f) == disk[f] # NULL

Complete == \A f \in FileNames : Saved(f)

AsNew ==
  /\ status = New.status /\ feeds = New.feeds /\ keys = <<>> /\ last = New.last
  /\ model = New.model /\ bars = New.log /\ decided = New.log

SaveShape ==
  /\ call.op = "write" <=> writing # <<>>
  /\ call.op = "write" => \A f \in FileNames : Contains(writing, f) \/ disk[f] = Content[f]
  /\ Saved("feed_configs") => Complete
  /\ call.op = "down" => AsNew

Shape == setting \in Settings /\ FetchShape /\ BatchShape /\ BatchAsked /\ CallShape /\ SaveShape

(* The types with what calls and files know: what every proof starts from. *)
TypeInv == WellTyped /\ Shape

(* Until a save is torn too early, all files are there or none, unless one *)
(* is being written.                                                       *)
TornInv ==
  /\ torn \in BOOLEAN /\ (torn => MayTear)
  /\ ~torn => /\ call.op # "write" /\ ~Saved("feed_configs") => \A f \in FileNames : ~Saved(f)
              /\ call.op = "down" => Complete

-----------------------------------------------------------------------------
LEMMA FilesAre ==
  /\ ToSet(Files) = FileNames /\ Len(Files) = 6
  /\ \A k \in 1 .. 6 : Files[k] \in FileNames
  /\ \A f \in FileNames : \E k \in 1 .. 6 : Files[k] = f
  /\ Files[1] = "market_events" /\ Files[4] = "market_model" /\ Files[5] = "feed_status"
  /\ Files[6] = "feed_configs"
  /\ \A j, k \in 1 .. 6 : Files[j] = Files[k] => j = k
<1>1. Len(Files) = 6 /\ DOMAIN Files = 1 .. 6
  BY DEF Files
<1>2. /\ Files[1] = "market_events" /\ Files[2] = "assets" /\ Files[3] = "agent_decisions"
      /\ Files[4] = "market_model" /\ Files[5] = "feed_status" /\ Files[6] = "feed_configs"
  BY DEF Files
<1>3. \A k \in 1 .. 6 : k = 1 \/ k = 2 \/ k = 3 \/ k = 4 \/ k = 5 \/ k = 6
  OBVIOUS
<1>4. \A k \in 1 .. 6 : Files[k] \in FileNames
  BY <1>2, <1>3 DEF FileNames
<1>5. \A f \in FileNames : \E k \in 1 .. 6 : Files[k] = f
  BY <1>2 DEF FileNames
<1>6. \A j, k \in 1 .. 6 : Files[j] = Files[k] => j = k
  BY <1>2, <1>3
<1>7. ToSet(Files) = FileNames
  BY <1>1, <1>4, <1>5 DEF ToSet
<1> QED
  BY <1>1, <1>2, <1>4, <1>5, <1>6, <1>7

LEMMA TablesAre ==
  ASSUME NEW s
  PROVE  /\ DOMAIN Tables(s) = FileNames
         /\ Tables(s)["market_events"] = [ToSet(s.registry) -> Seq(Bars(s))]
         /\ Tables(s)["assets"] = [ToSet(s.registry) -> Statuses]
         /\ Tables(s)["agent_decisions"] = [ToSet(s.registry) -> Seq(Int)]
         /\ Tables(s)["market_model"] = [active : BOOLEAN, cursor : Cursors]
         /\ Tables(s)["feed_status"] = [cursor : Cursors, price : ToSet(s.registry) \cup {NULL}]
         /\ Tables(s)["feed_configs"] = Configs(s)
BY DEF Tables, FileNames

LEMMA NullIsNone ==
  ASSUME setting \in Settings
  PROVE  /\ NULL \notin Int /\ NULL \notin Assets /\ NULL \notin FeedRows(setting)
         /\ \A f \in FileNames : NULL \notin Tables(setting)[f]
         /\ setting.timeframes \subseteq Spans /\ DefaultTimeframe \in setting.timeframes
         /\ setting.warmup \in Spans /\ setting.model \in BOOLEAN /\ setting.late \in BOOLEAN
         /\ setting.maxCalls \in Nat
BY FeedClockAssumption, TablesAre DEF Assets, Spans

LEMMA TypedIs ==
  WellTyped /\ torn \in BOOLEAN => TypeOK
<1> SUFFICES ASSUME WellTyped, torn \in BOOLEAN PROVE TypeOK
  OBVIOUS
<1>1. /\ Tables(setting).assets = [Assets -> Statuses]
      /\ Tables(setting).feed_configs = Configs(setting)
      /\ Tables(setting).feed_status = [cursor : Cursors, price : Assets \cup {NULL}]
      /\ Tables(setting).market_model = [active : BOOLEAN, cursor : Cursors]
      /\ Tables(setting).market_events = [Assets -> Seq(Bars(setting))]
      /\ Tables(setting).agent_decisions = [Assets -> Seq(Int)]
  BY TablesAre DEF Assets
<1>2. [order |-> keys, rows |-> feeds] \in Configs(setting)
  BY DEF WellTyped, FeedsTyped, Configs, Assets
<1>3. Len(Files) + 1 = 7 /\ Len(Files) = 6 /\ ToSet(Files) = FileNames
  BY FilesAre
<1>4. writing \in {SubSeq(Files, k, Len(Files)) : k \in 1 .. Len(Files) + 1}
  BY <1>3 DEF WellTyped, WritingTyped
<1>5. DOMAIN disk = ToSet(Files) /\ \A f \in ToSet(Files) : disk[f] = NULL \/ disk[f] \in Tables(setting)[f]
  BY <1>3 DEF WellTyped, DiskTyped
<1>6. /\ now \in Nat /\ status \in [Assets -> Statuses]
      /\ last \in [cursor : Cursors, price : Assets \cup {NULL}]
      /\ model \in [active : BOOLEAN, cursor : Cursors]
      /\ bars \in [Assets -> Seq(Bars(setting))] /\ decided \in [Assets -> Seq(Int)]
      /\ call \in [op : Ops, todo : Seq(Assets), max : Nat, feed : FeedRows(setting) \cup {NULL},
                   bars : Seq(Bars(setting)), cursor : Cursors,
                   last : [cursor : Cursors, price : Assets \cup {NULL}]]
      /\ admin \in 0 .. setting.maxCalls
  BY DEF WellTyped, ClockTyped, StatusTyped, FeedsTyped, ModelTyped, LogsTyped, CallTyped, Lasts
<1> QED
  BY <1>1, <1>2, <1>4, <1>5, <1>6 DEF TypeOK, Ops

-----------------------------------------------------------------------------
(* What leaves a part alone. *)

LEMMA AssetsStay ==
  ASSUME setting' = setting
  PROVE  Assets' = Assets
BY DEF Assets

LEMMA LastsStay ==
  ASSUME setting' = setting
  PROVE  Lasts' = Lasts
BY AssetsStay DEF Lasts

LEMMA NoFeedIs ==
  NoFeed \in Lasts
BY DEF NoFeed, Lasts, Cursors

LEMMA FeedsStay ==
  ASSUME FeedsTyped, UNCHANGED <<setting, feeds, keys, last>>
  PROVE  FeedsTyped'
<1>1. Assets' = Assets
  BY AssetsStay
<1> QED
  BY <1>1 DEF FeedsTyped

LEMMA StatusStays ==
  ASSUME StatusTyped, UNCHANGED <<setting, status>>
  PROVE  StatusTyped'
BY AssetsStay DEF StatusTyped

LEMMA LogsStay ==
  ASSUME LogsTyped, UNCHANGED <<setting, bars, decided>>
  PROVE  LogsTyped'
BY AssetsStay DEF LogsTyped

LEMMA DiskStays ==
  ASSUME DiskTyped, UNCHANGED <<setting, disk>>
  PROVE  DiskTyped'
BY DEF DiskTyped

LEMMA WritingStays ==
  ASSUME WritingTyped, UNCHANGED writing
  PROVE  WritingTyped'
BY DEF WritingTyped

LEMMA ClockStays ==
  ASSUME ClockTyped, UNCHANGED <<setting, now, admin>>
  PROVE  ClockTyped'
BY DEF ClockTyped

LEMMA ModelStays ==
  ASSUME ModelTyped, UNCHANGED model
  PROVE  ModelTyped'
BY DEF ModelTyped

(* A counted call. *)
LEMMA Counted ==
  ASSUME ClockTyped, setting \in Settings, UNCHANGED <<setting, now>>, NEW c, Administrative(c)
  PROVE  ClockTyped'
<1>1. setting.maxCalls \in Nat
  BY NullIsNone
<1> QED
  BY <1>1 DEF ClockTyped, Administrative

(* A call that touches no file. *)
LEMMA SaveStays ==
  ASSUME SaveShape, UNCHANGED <<disk, writing>>,
         call.op \notin {"write", "down"}, call'.op \notin {"write", "down"}
  PROVE  SaveShape'
BY DEF SaveShape, Saved, Complete

(* Nothing runs. *)
LEMMA IdleShape ==
  ASSUME call' = Idle, setting' = setting, setting \in Settings
  PROVE  CallTyped' /\ FetchShape' /\ BatchShape' /\ BatchAsked' /\ CallShape'
<1>1. /\ call'.op = "idle" /\ call'.todo = <<>> /\ call'.max = 0 /\ call'.feed = NULL
      /\ call'.bars = <<>> /\ call'.cursor = NULL
  BY DEF Idle
<1>2. CallTyped'
  <2>1. <<>> \in Seq(Assets') /\ <<>> \in Seq(Bars(setting')) /\ NoFeed \in Lasts'
    BY LastsStay, NoFeedIs
  <2> QED
    BY <2>1 DEF CallTyped, Idle, Ops, Cursors
<1> QED
  BY <1>1, <1>2 DEF FetchShape, BatchShape, BatchAsked, CallShape, Fetched, Batching, Warming

-----------------------------------------------------------------------------
(* The feeds. *)

LEMMA SelectedIs ==
  ASSUME setting \in Settings, FeedsTyped, NEW a \in Assets
  PROVE  /\ Selected(a) \in FeedRows(setting) /\ Selected(a) # NULL
         /\ Selected(a).tf \in Spans /\ Selected(a).tf \in setting.timeframes
         /\ Contains(keys, a) => Selected(a) = feeds[a] /\ feeds[a] # NULL
         /\ ~Contains(keys, a) => Selected(a) = DefaultFeed(a) /\ feeds[a] = NULL
<1>1. Contains(keys, a) => feeds[a] \in FeedRows(setting)
  BY DEF FeedsTyped
<1>2. DefaultFeed(a) \in FeedRows(setting)
  BY NullIsNone DEF DefaultFeed, FeedRows, Cursors, Assets
<1>3. Selected(a) \in FeedRows(setting)
  BY <1>1, <1>2 DEF Selected
<1>4. Selected(a).tf \in setting.timeframes
  BY <1>3 DEF FeedRows
<1> QED
  BY <1>3, <1>4, NullIsNone DEF Selected, FeedsTyped

LEMMA StoredFeed ==
  ASSUME setting \in Settings, setting' = setting, FeedsTyped, NEW a \in Assets,
         NEW f \in FeedRows(setting), StoreFeed(a, f)
  PROVE  /\ FeedsTyped'
         /\ feeds'[a] = f /\ \A b \in Assets : b # a => feeds'[b] = feeds[b]
         /\ \A b : Contains(keys', b) <=> Contains(keys, b) \/ b = a
         /\ last' = [cursor |-> f.cursor, price |-> f.price]
<1>1. Assets' = Assets
  BY AssetsStay
<1>2. /\ feeds' = [feeds EXCEPT ![a] = f]
      /\ keys' = IF Contains(keys, a) THEN keys ELSE Append(keys, a)
      /\ last' = [cursor |-> f.cursor, price |-> f.price]
  BY DEF StoreFeed
<1>3. /\ feeds' \in [Assets -> FeedRows(setting) \cup {NULL}]
      /\ feeds'[a] = f /\ \A b \in Assets : b # a => feeds'[b] = feeds[b]
  BY <1>2 DEF FeedsTyped
<1>4. f.cursor \in Cursors /\ f.price \in Assets /\ f # NULL
  BY NullIsNone DEF FeedRows, Assets
<1>5. keys \in Seq(Assets) /\ IsInjective(keys) /\ DOMAIN keys = 1 .. Len(keys) /\ Len(keys) \in Nat
  BY Elements DEF FeedsTyped
<1>6. keys' \in Seq(Assets) /\ \A b : Contains(keys', b) <=> Contains(keys, b) \/ b = a
  BY <1>2, <1>5, Appended
<1>7. IsInjective(keys')
  <2>1. CASE Contains(keys, a)
    BY <1>2, <1>5, <2>1
  <2>2. CASE ~Contains(keys, a)
    <3> DEFINE t == Append(keys, a)
    <3>1. /\ DOMAIN t = 1 .. Len(keys) + 1 /\ (\A i \in DOMAIN keys : t[i] = keys[i])
          /\ t[Len(keys) + 1] = a
      BY <1>5, Appended
    <3> HIDE DEF t
    <3>2. \A i \in DOMAIN t : i \in DOMAIN keys \/ i = Len(keys) + 1
      BY <1>5, <3>1
    <3>3. \A i \in DOMAIN keys : t[i] # a
      BY <1>5, <2>2, <3>1 DEF Contains
    <3>4. IsInjective(t)
      BY <1>5, <3>1, <3>2, <3>3 DEF IsInjective
    <3> QED
      BY <1>2, <2>2, <3>4 DEF t
  <2> QED
    BY <2>1, <2>2
<1>8. \A b \in Assets : feeds'[b] # NULL <=> Contains(keys', b)
  BY <1>3, <1>4, <1>6 DEF FeedsTyped
<1>9. last' \in [cursor : Cursors, price : Assets \cup {NULL}]
  BY <1>2, <1>4
<1> QED
  BY <1>1, <1>2, <1>3, <1>6, <1>7, <1>8, <1>9 DEF FeedsTyped

(* A feed that is configured takes over a cursor and a price. *)
LEMMA InheritedIs ==
  ASSUME setting \in Settings, FeedsTyped, NEW a \in Assets
  PROVE  /\ Inherited(a).cursor \in Cursors /\ Inherited(a).price \in Assets \cup {NULL}
         /\ Contains(keys, a) => Inherited(a).cursor = feeds[a].cursor /\ feeds[a] # NULL
         /\ ~Contains(keys, a) => Inherited(a).cursor = last.cursor /\ feeds[a] = NULL
<1>1. Contains(keys, a) => feeds[a] \in FeedRows(setting) /\ feeds[a] # NULL
  BY DEF FeedsTyped
<1>2. Contains(keys, a) => feeds[a].cursor \in Cursors /\ feeds[a].price \in Assets
  BY <1>1 DEF FeedRows, Assets
<1>3. last.cursor \in Cursors /\ last.price \in Assets \cup {NULL}
  BY DEF FeedsTyped
<1> QED
  BY <1>1, <1>2, <1>3 DEF Inherited, FeedsTyped

LEMMA CursorIs ==
  ASSUME setting \in Settings, ClockTyped, NEW cursor \in Cursors, NEW start \in Cursors,
         NEW tf \in Spans
  PROVE  /\ CursorOf(cursor, start, tf) \in Int /\ CursorOf(cursor, start, tf) # NULL
         /\ cursor # NULL => CursorOf(cursor, start, tf) = cursor
         /\ cursor = NULL /\ start = NULL => CursorOf(cursor, start, tf) = LatestEnd(tf)
<1>1. NULL \notin Int /\ LatestEnd(tf) \in Int
  BY NullIsNone, Ended DEF ClockTyped
<1> QED
  BY <1>1 DEF CursorOf, Cursors

(* The feeds a call without an asset walks. *)
LEMMA KeysAre ==
  ASSUME setting \in Settings, FeedsTyped, NEW statuses
  PROVE  /\ KeysWith(statuses) \in Seq(Assets)
         /\ ToSet(KeysWith(statuses)) = {a \in Assets : Contains(keys, a) \/ status[a] \in statuses}
<1> DEFINE M == {a \in Assets : status[a] \in statuses} \ ToSet(keys)
           k == Among(setting.registry, M)
<1>1. setting.registry \in Seq(Assets) /\ ToSet(setting.registry) = Assets
  BY FeedClockAssumption DEF Assets
<1>2. Keeps(setting.registry, M, k)
  BY <1>1, AmongKeeps
<1> HIDE DEF k
<1>3. k \in Seq(M) /\ \A x \in M : Contains(k, x)
  <2>1. ToSet(setting.registry) \cap M = M
    BY <1>1
  <2> QED
    BY <1>2, <2>1 DEF Keeps
<1>4. keys \in Seq(Assets) /\ \A x : Contains(keys, x) <=> x \in ToSet(keys)
  BY Elements DEF FeedsTyped
<1>5. k \in Seq(Assets)
  BY <1>3, SeqMonotonic
<1>6. ToSet(k) = M
  <2>1. ToSet(k) \subseteq M /\ \A x : Contains(k, x) <=> x \in ToSet(k)
    BY <1>3, Elements
  <2> QED
    BY <1>3, <2>1
<1>7. keys \o k \in Seq(Assets) /\ ToSet(keys \o k) = ToSet(keys) \cup M
  BY <1>4, <1>5, <1>6, Joined
<1>8. ToSet(keys) \subseteq Assets
  BY <1>4, Elements
<1>9. KeysWith(statuses) = keys \o k
  BY DEF KeysWith, k
<1> HIDE DEF M
<1>10. ToSet(keys) \cup M = {a \in Assets : Contains(keys, a) \/ status[a] \in statuses}
  BY <1>4, <1>8 DEF M
<1> QED
  BY <1>7, <1>9, <1>10

LEMMA RequestKeysAre ==
  ASSUME setting \in Settings, FeedsTyped
  PROVE  /\ RequestKeys \in Seq(Assets) /\ ToSet(RequestKeys) = Requested
         /\ StatusKeys \in Seq(Assets)
         /\ \A a \in Requested : Contains(RequestKeys, a)
         /\ Len(RequestKeys) >= 2 => Requested # {} /\ RequestKeys[1] \in Assets
<1>1. /\ RequestKeys \in Seq(Assets) /\ StatusKeys \in Seq(Assets)
      /\ ToSet(RequestKeys) = {a \in Assets : Contains(keys, a) \/ status[a] \in {"active"}}
  BY KeysAre DEF RequestKeys, StatusKeys
<1>2. ToSet(RequestKeys) = Requested
  BY <1>1 DEF Requested
<1>3. /\ Len(RequestKeys) \in Nat /\ DOMAIN RequestKeys = 1 .. Len(RequestKeys)
      /\ \A i \in DOMAIN RequestKeys : RequestKeys[i] \in Assets
      /\ \A x : Contains(RequestKeys, x) <=> x \in ToSet(RequestKeys)
  BY <1>1, Elements
<1>4. ASSUME Len(RequestKeys) >= 2 PROVE Requested # {} /\ RequestKeys[1] \in Assets
  <2>1. 1 \in DOMAIN RequestKeys
    BY <1>3, <1>4
  <2> QED
    BY <1>2, <1>3, <2>1 DEF ToSet
<1> QED
  BY <1>1, <1>2, <1>3, <1>4

LEMMA MemoryStays ==
  ASSUME WellTyped, UNCHANGED <<setting, memory>>
  PROVE  StatusTyped' /\ FeedsTyped' /\ ModelTyped' /\ LogsTyped'
BY StatusStays, FeedsStay, ModelStays, LogsStay DEF WellTyped, memory

LEMMA FilesStay ==
  ASSUME WellTyped, SaveShape, UNCHANGED <<setting, disk, writing>>,
         call.op \notin {"write", "down"}, call'.op \notin {"write", "down"}
  PROVE  DiskTyped' /\ WritingTyped' /\ SaveShape'
BY DiskStays, WritingStays, SaveStays DEF WellTyped

(* A call of a list of feeds begins, or follows on another. *)
Opened(op, todo, max, was) ==
  [op |-> op, todo |-> todo, max |-> max, feed |-> NULL, bars |-> <<>>, cursor |-> NULL, last |-> was]

LEMMA Begun ==
  ASSUME setting \in Settings, setting' = setting, NEW op \in Ops \ {"write", "down"},
         NEW todo \in Seq(Assets), NEW max \in Nat, NEW was \in Lasts, WellTyped, SaveShape,
         call.op \notin {"write", "down"}, UNCHANGED <<now, memory, writing, disk>>,
         call' = Opened(op, todo, max, was),
         op \in {"batch", "batchwarmup", "modelstart"} =>
           \/ \A a \in Requested : Contains(keys, a) \/ Contains(todo, a)
           \/ todo = <<>> /\ Len(RequestKeys) < 2,
         op # "idle"
  PROVE  /\ StatusTyped' /\ FeedsTyped' /\ ModelTyped' /\ LogsTyped' /\ CallTyped'
         /\ DiskTyped' /\ WritingTyped' /\ Shape'
<1>1. UNCHANGED <<now, memory, writing, disk>>
  OBVIOUS
<1>2. /\ call'.op = op /\ call'.todo = todo /\ call'.max = max /\ call'.feed = NULL
      /\ call'.bars = <<>> /\ call'.cursor = NULL /\ call.op \notin {"write", "down"}
      /\ call' = [op |-> op, todo |-> todo, max |-> max, feed |-> NULL, bars |-> <<>>, cursor |-> NULL,
                  last |-> was]
  BY DEF Opened
<1>3. StatusTyped' /\ FeedsTyped' /\ ModelTyped' /\ LogsTyped'
  BY <1>1, MemoryStays
<1>4. DiskTyped' /\ WritingTyped' /\ SaveShape'
  BY <1>1, <1>2, FilesStay
<1>5. Assets' = Assets
  BY AssetsStay
<1>6. CallTyped'
  <2>1. <<>> \in Seq(Bars(setting')) /\ Lasts' = Lasts
    BY LastsStay
  <2> QED
    BY <1>2, <1>5, <2>1 DEF CallTyped, Cursors
<1>7. FetchShape' /\ BatchShape' /\ CallShape'
  BY <1>2 DEF FetchShape, BatchShape, CallShape, Fetched, Batching, Warming
<1>8. Requested' = Requested /\ RequestKeys' = RequestKeys
  BY <1>1, <1>5 DEF memory, Requested, RequestKeys, KeysWith
<1>9. BatchAsked'
  BY <1>1, <1>2, <1>8 DEF BatchAsked, memory
<1> QED
  BY <1>3, <1>4, <1>6, <1>7, <1>9 DEF Shape

LEMMA BegunCall ==
  ASSUME setting \in Settings, setting' = setting, NEW op \in Ops \ {"write", "down"},
         NEW todo \in Seq(Assets), NEW max \in Nat, Begin(op, todo, max), WellTyped, SaveShape,
         op \in {"batch", "batchwarmup", "modelstart"} =>
           \/ \A a \in Requested : Contains(keys, a) \/ Contains(todo, a)
           \/ todo = <<>> /\ Len(RequestKeys) < 2,
         op # "idle"
  PROVE  /\ StatusTyped' /\ FeedsTyped' /\ ModelTyped' /\ LogsTyped' /\ CallTyped'
         /\ DiskTyped' /\ WritingTyped' /\ Shape'
<1>1. /\ call.op \notin {"write", "down"} /\ UNCHANGED <<now, memory, writing, disk>>
      /\ call' = Opened(op, todo, max, NoFeed)
  BY DEF Begin, Idle, Opened
<1> QED
  BY <1>1, NoFeedIs, Begun

LEMMA BegunAll ==
  ASSUME setting \in Settings, setting' = setting, NEW op \in {"step", "start", "warmup"},
         NEW modelOp \in {"batch", "batchwarmup", "modelstart"}, NEW max \in Nat,
         BeginAll(op, modelOp, max), WellTyped, SaveShape
  PROVE  /\ StatusTyped' /\ FeedsTyped' /\ ModelTyped' /\ LogsTyped' /\ CallTyped'
         /\ DiskTyped' /\ WritingTyped' /\ Shape' /\ now' = now
<1>1. /\ RequestKeys \in Seq(Assets) /\ <<>> \in Seq(Assets)
      /\ \A a \in Requested : Contains(RequestKeys, a)
  BY RequestKeysAre DEF WellTyped
<1>2. CASE model.active
  <2> DEFINE todo == IF Len(RequestKeys) < 2 THEN <<>> ELSE RequestKeys
  <2>1. todo \in Seq(Assets)
    BY <1>1
  <2>2. \/ \A a \in Requested : Contains(keys, a) \/ Contains(todo, a)
        \/ todo = <<>> /\ Len(RequestKeys) < 2
    BY <1>1
  <2>3. Begin(modelOp, todo, max)
    BY <1>2 DEF BeginAll
  <2>4. modelOp \in Ops \ {"write", "down"} /\ modelOp # "idle" /\ now' = now
    BY <2>3 DEF Ops, Begin
  <2> HIDE DEF todo
  <2> QED
    BY <2>1, <2>2, <2>3, <2>4, BegunCall
<1>3. CASE ~model.active
  <2>1. Begin(op, RequestKeys, max) /\ now' = now
    BY <1>3 DEF BeginAll, Begin
  <2>2. op \in Ops \ {"write", "down"} /\ op # "idle" /\ op \notin {"batch", "batchwarmup", "modelstart"}
    BY DEF Ops
  <2> QED
    BY <1>1, <2>1, <2>2, BegunCall
<1> QED
  BY <1>2, <1>3

(* A running call ends. *)
LEMMA CallEnds ==
  ASSUME TypeInv, setting' = setting, call' = Idle, UNCHANGED <<now, memory, writing, disk, admin>>,
         call.op \notin {"write", "down"}
  PROVE  TypeInv'
<1>1. StatusTyped' /\ FeedsTyped' /\ ModelTyped' /\ LogsTyped' /\ ClockTyped'
  BY MemoryStays, ClockStays DEF TypeInv, WellTyped
<1>2. CallTyped' /\ FetchShape' /\ BatchShape' /\ BatchAsked' /\ CallShape'
  BY IdleShape DEF TypeInv, Shape
<1>3. call'.op = "idle"
  BY DEF Idle
<1>4. DiskTyped' /\ WritingTyped' /\ SaveShape'
  BY <1>3, FilesStay DEF TypeInv, Shape
<1> QED
  BY <1>1, <1>2, <1>4 DEF TypeInv, WellTyped, Shape

-----------------------------------------------------------------------------
(* Every step keeps the types. *)

LEMMA TypedTick ==
  ASSUME TypeInv, setting' = setting, Tick
  PROVE  TypeInv'
<1>1. /\ call = Idle /\ call' = Idle /\ now' = now + 1
      /\ UNCHANGED <<memory, writing, disk, admin>>
  BY DEF Tick
<1>2. ClockTyped'
  BY <1>1 DEF TypeInv, WellTyped, ClockTyped
<1>3. StatusTyped' /\ FeedsTyped' /\ ModelTyped' /\ LogsTyped'
  BY <1>1, MemoryStays DEF TypeInv
<1>4. CallTyped' /\ FetchShape' /\ BatchShape' /\ BatchAsked' /\ CallShape'
  BY <1>1, IdleShape DEF TypeInv, Shape
<1>5. call.op = "idle" /\ call'.op = "idle"
  BY <1>1 DEF Idle
<1>6. DiskTyped' /\ WritingTyped' /\ SaveShape'
  BY <1>1, <1>5, FilesStay DEF TypeInv, Shape
<1> QED
  BY <1>2, <1>3, <1>4, <1>6 DEF TypeInv, WellTyped, Shape

LEMMA TypedRegistry ==
  ASSUME TypeInv, setting' = setting, NEW a \in Assets,
         (\E st \in {"active", "paused"} : AddAsset(a, st)) \/ RemoveAsset(a)
  PROVE  TypeInv'
<1>1. PICK st \in Statuses :
        /\ call = Idle /\ status' = [status EXCEPT ![a] = st]
        /\ UNCHANGED <<now, feeds, keys, last, model, bars, decided, call, writing, disk>>
        /\ \E c \in AllCalls : Administrative(c)
  BY DEF AddAsset, RemoveAsset, Statuses, AllCalls
<1>2. ClockTyped'
  BY <1>1, Counted DEF TypeInv, WellTyped, Shape
<1>3. StatusTyped'
  BY <1>1, AssetsStay DEF TypeInv, WellTyped, StatusTyped
<1>4. FeedsTyped' /\ ModelTyped' /\ LogsTyped'
  BY <1>1, FeedsStay, ModelStays, LogsStay DEF TypeInv, WellTyped
<1>5. CallTyped' /\ FetchShape' /\ BatchShape' /\ BatchAsked' /\ CallShape'
  BY <1>1, IdleShape DEF TypeInv, Shape
<1>6. call.op = "idle" /\ call'.op = "idle"
  BY <1>1 DEF Idle
<1>7. DiskTyped' /\ WritingTyped' /\ SaveShape'
  BY <1>1, <1>6, FilesStay DEF TypeInv, Shape
<1> QED
  BY <1>2, <1>3, <1>4, <1>5, <1>7 DEF TypeInv, WellTyped, Shape

LEMMA TypedModelSwitch ==
  ASSUME TypeInv, setting' = setting, NEW on \in BOOLEAN, NEW whole \in BOOLEAN,
         ConfigureModel(on, whole)
  PROVE  TypeInv'
<1>1. /\ call = Idle /\ model' = [active |-> on, cursor |-> IF whole THEN NULL ELSE model.cursor]
      /\ UNCHANGED <<now, status, feeds, keys, last, bars, decided, call, writing, disk>>
      /\ Administrative("model")
  BY DEF ConfigureModel
<1>2. ClockTyped'
  BY <1>1, Counted DEF TypeInv, WellTyped, Shape
<1>3. ModelTyped'
  BY <1>1 DEF TypeInv, WellTyped, ModelTyped, Cursors
<1>4. StatusTyped' /\ FeedsTyped' /\ LogsTyped'
  BY <1>1, StatusStays, FeedsStay, LogsStay DEF TypeInv, WellTyped
<1>5. CallTyped' /\ FetchShape' /\ BatchShape' /\ BatchAsked' /\ CallShape'
  BY <1>1, IdleShape DEF TypeInv, Shape
<1>6. call.op = "idle" /\ call'.op = "idle"
  BY <1>1 DEF Idle
<1>7. DiskTyped' /\ WritingTyped' /\ SaveShape'
  BY <1>1, <1>6, FilesStay DEF TypeInv, Shape
<1> QED
  BY <1>2, <1>3, <1>4, <1>5, <1>7 DEF TypeInv, WellTyped, Shape

(* sim_feed_configure, with a list or with a whole configuration. *)
LEMMA Configured ==
  ASSUME TypeInv, setting' = setting, NEW a \in Assets, NEW tf \in setting.timeframes,
         NEW mode \in setting.modes, NEW c, Administrative(c), call = Idle,
         NEW start \in Cursors, NEW cursor \in Cursors, NEW price \in Assets,
         StoreFeed(a, [tf |-> tf, mode |-> mode, start |-> start, cursor |-> cursor, price |-> price]),
         UNCHANGED <<now, status, model, bars, decided, call, writing, disk>>
  PROVE  TypeInv'
<1> DEFINE f == [tf |-> tf, mode |-> mode, start |-> start, cursor |-> cursor, price |-> price]
<1>1. f \in FeedRows(setting)
  BY DEF FeedRows, Assets
<1> HIDE DEF f
<1>2. FeedsTyped'
  BY <1>1, StoredFeed DEF TypeInv, WellTyped, Shape, f
<1>3. ClockTyped'
  BY Counted DEF TypeInv, WellTyped, Shape
<1>4. StatusTyped' /\ ModelTyped' /\ LogsTyped'
  BY StatusStays, ModelStays, LogsStay DEF TypeInv, WellTyped
<1>5. CallTyped' /\ FetchShape' /\ BatchShape' /\ BatchAsked' /\ CallShape'
  BY IdleShape DEF TypeInv, Shape
<1>6. call.op = "idle" /\ call'.op = "idle"
  BY DEF Idle
<1>7. DiskTyped' /\ WritingTyped' /\ SaveShape'
  BY <1>6, FilesStay DEF TypeInv, Shape
<1> QED
  BY <1>2, <1>3, <1>4, <1>5, <1>7 DEF TypeInv, WellTyped, Shape

LEMMA TypedConfigure ==
  ASSUME TypeInv, setting' = setting, NEW a \in Assets, NEW tf \in setting.timeframes,
         NEW mode \in setting.modes, Configure(a, tf, mode)
  PROVE  TypeInv'
<1> DEFINE cursor == Inherited(a).cursor
           price == IF Inherited(a).price = NULL THEN a ELSE Inherited(a).price
           start == NULL
<1>1. cursor \in Cursors /\ price \in Assets
  BY InheritedIs DEF TypeInv, WellTyped, Shape
<1>2. start \in Cursors
  BY DEF Cursors
<1>3. /\ StoreFeed(a, [tf |-> tf, mode |-> mode, start |-> start, cursor |-> cursor, price |-> price])
      /\ UNCHANGED <<now, status, model, bars, decided, call, writing, disk>>
      /\ call = Idle /\ Administrative("configure")
  BY DEF Configure
<1> HIDE DEF cursor, price, start
<1> QED
  BY <1>1, <1>2, <1>3, Configured

LEMMA TypedReset ==
  ASSUME TypeInv, setting' = setting, NEW a \in Assets, NEW tf \in setting.timeframes,
         NEW mode \in setting.modes, NEW start \in {NULL, 0, 1}, Reset(a, tf, mode, start)
  PROVE  TypeInv'
<1> DEFINE cursor == NULL
<1>1. start \in Cursors /\ cursor \in Cursors
  BY DEF Cursors
<1>2. /\ StoreFeed(a, [tf |-> tf, mode |-> mode, start |-> start, cursor |-> cursor, price |-> a])
      /\ UNCHANGED <<now, status, model, bars, decided, call, writing, disk>>
      /\ call = Idle /\ Administrative("reset")
  BY DEF Reset
<1> HIDE DEF cursor
<1> QED
  BY <1>1, <1>2, Configured

LEMMA TypedBegin ==
  ASSUME TypeInv, setting' = setting,
         \/ \E max \in PollSizes : Poll(max) \/ \E a \in Assets : StepOne(a, max)
         \/ Start \/ Warmup \/ Status \/ Save
  PROVE  TypeInv'
<1>1. WellTyped /\ setting \in Settings /\ SaveShape /\ StatusKeys \in Seq(Assets)
  BY RequestKeysAre DEF TypeInv, Shape, WellTyped
<1> DEFINE Rest == /\ StatusTyped' /\ FeedsTyped' /\ ModelTyped' /\ LogsTyped' /\ CallTyped'
                   /\ DiskTyped' /\ WritingTyped' /\ Shape'
<1>2. PollSizes \subseteq Nat
  BY FeedClockAssumption DEF PollSizes
<1>3. ASSUME NEW max \in PollSizes, Poll(max) PROVE Rest /\ ClockTyped'
  <2>1. BeginAll("step", "batch", max) /\ admin' = admin /\ max \in Nat
    BY <1>2, <1>3 DEF Poll
  <2>2. Rest /\ now' = now
    BY <1>1, <2>1, BegunAll
  <2> QED
    BY <1>1, <2>1, <2>2, ClockStays DEF WellTyped
<1>4. ASSUME NEW max \in PollSizes, NEW a \in Assets, StepOne(a, max) PROVE Rest /\ ClockTyped'
  <2> DEFINE todo == <<a>>
  <2>1. Begin("step", todo, max) /\ Administrative("one") /\ max \in Nat /\ todo \in Seq(Assets)
    BY <1>2, <1>4 DEF StepOne
  <2>2. "step" \in Ops \ {"write", "down"} /\ now' = now
    BY <2>1 DEF Ops, Begin
  <2> HIDE DEF todo
  <2>3. Rest
    BY <1>1, <2>1, <2>2, BegunCall
  <2> QED
    BY <1>1, <2>1, <2>2, <2>3, Counted DEF WellTyped
<1>5. ASSUME Start PROVE Rest /\ ClockTyped'
  <2>1. BeginAll("start", "modelstart", 0) /\ Administrative("start")
    BY <1>5 DEF Start
  <2>2. Rest /\ now' = now
    BY <1>1, <2>1, BegunAll
  <2> QED
    BY <1>1, <2>1, <2>2, Counted DEF WellTyped
<1>6. ASSUME Warmup PROVE Rest /\ ClockTyped'
  <2>1. BeginAll("warmup", "batchwarmup", 0) /\ Administrative("warmup")
    BY <1>6 DEF Warmup
  <2>2. Rest /\ now' = now
    BY <1>1, <2>1, BegunAll
  <2> QED
    BY <1>1, <2>1, <2>2, Counted DEF WellTyped
<1>7. ASSUME Status \/ Save PROVE Rest /\ ClockTyped'
  <2>1. /\ UNCHANGED <<now, memory, writing, disk>> /\ call = Idle
        /\ \E op \in {"status", "save"}, was \in {NoFeed, last} :
             call' = Opened(op, StatusKeys, 0, was)
        /\ Administrative("status") \/ Administrative("save")
    <3>1. CASE Status
      BY <3>1 DEF Status, Begin, Idle, Opened
    <3>2. CASE Save
      BY <3>2 DEF Save, Idle, Opened
    <3> QED
      BY <1>7, <3>1, <3>2
  <2>2. PICK op \in {"status", "save"}, was \in {NoFeed, last} :
          call' = Opened(op, StatusKeys, 0, was)
    BY <2>1
  <2>3. /\ op \in Ops \ {"write", "down"} /\ call.op \notin {"write", "down"}
        /\ op \notin {"batch", "batchwarmup", "modelstart", "idle"}
    BY <2>1 DEF Ops, Idle
  <2>4. was \in Lasts
    BY <1>1, <2>2, NoFeedIs DEF WellTyped, FeedsTyped, Lasts
  <2>5. Rest
    BY <1>1, <2>1, <2>2, <2>3, <2>4, Begun
  <2> QED
    BY <1>1, <2>1, <2>5, Counted DEF WellTyped
<1>8. Rest /\ ClockTyped'
  BY <1>3, <1>4, <1>5, <1>6, <1>7
<1> QED
  BY <1>8 DEF TypeInv, WellTyped

LEMMA TypedFail ==
  ASSUME TypeInv, setting' = setting, Fail \/ Return \/ ModelFails
  PROVE  TypeInv'
<1>1. /\ call' = Idle /\ UNCHANGED <<now, memory, writing, disk, admin>>
  BY DEF Fail, Return, ModelFails
<1>2. call.op \notin {"write", "down"}
  BY DEF TypeInv, Shape, CallShape, Fail, Return, ModelFails
<1> QED
  BY <1>1, <1>2, CallEnds

LEMMA TypedList ==
  ASSUME TypeInv, setting' = setting, ListStarted
  PROVE  TypeInv'
<1>1. /\ setting \in Settings /\ WellTyped /\ SaveShape /\ ClockTyped /\ StatusKeys \in Seq(Assets)
  BY RequestKeysAre DEF TypeInv, Shape, WellTyped
<1>2. /\ call.op = "start" /\ UNCHANGED <<now, memory, writing, disk, admin>>
      /\ call' = Opened("status", StatusKeys, 0, NoFeed)
  BY DEF ListStarted, Idle, Opened
<1>3. "status" \in Ops \ {"write", "down"}
  BY DEF Ops
<1>4. /\ StatusTyped' /\ FeedsTyped' /\ ModelTyped' /\ LogsTyped' /\ CallTyped'
      /\ DiskTyped' /\ WritingTyped' /\ Shape'
  BY <1>1, <1>2, <1>3, NoFeedIs, Begun
<1> QED
  BY <1>1, <1>2, <1>4, ClockStays DEF TypeInv, WellTyped

-----------------------------------------------------------------------------
(* What is fetched. *)

LEMMA CompletedIs ==
  ASSUME ClockTyped, NEW cursor \in Int, NEW tf \in Spans, NEW max \in Nat
  PROVE  \E n \in Nat : /\ CompletedBars(cursor, tf, max) = RowOf(n, cursor, tf, TRUE)
                        /\ n # 0 => cursor + n * tf <= LatestEnd(tf)
                        /\ cursor = LatestEnd(tf) => n = 0
<1> DEFINE gap == LatestEnd(tf) - cursor
           due == gap \div tf
           n == IF due < 0 THEN 0 ELSE IF due > max THEN max ELSE due
<1>1. LatestEnd(tf) \in Int /\ gap \in Int
  BY Ended DEF ClockTyped
<1>2. due \in Int /\ due * tf \in Int /\ due * tf <= gap
  <2> HIDE DEF gap
  <2> QED
    BY <1>1, Boundary
<1>3. gap = 0 => due = 0
  <2> HIDE DEF gap
  <2> QED
    BY <1>1 DEF Spans
<1> HIDE DEF gap, due
<1>4. n \in Nat /\ (n # 0 => n <= due) /\ (due = 0 => n = 0)
  BY <1>2
<1> HIDE DEF n
<1>5. ASSUME n # 0 PROVE cursor + n * tf <= LatestEnd(tf)
  <2>1. n \in Int /\ n <= due
    BY <1>4, <1>5
  <2>2. cursor + n * tf <= cursor + due * tf /\ cursor + n * tf \in Int
    BY <1>2, <2>1, Multiples
  <2> DEFINE p == due * tf
             q == n * tf
  <2>3. p \in Int /\ p <= gap /\ cursor + q <= cursor + p /\ cursor + q \in Int
    BY <1>2, <2>2
  <2> HIDE DEF p, q
  <2>4. cursor + p <= LatestEnd(tf)
    BY <1>1, <2>3 DEF gap
  <2>5. cursor + q <= LatestEnd(tf)
    BY <1>1, <2>3, <2>4
  <2> QED
    BY <2>5 DEF q
<1>6. cursor = LatestEnd(tf) => n = 0
  BY <1>1, <1>3, <1>4 DEF gap
<1>7. CompletedBars(cursor, tf, max) = RowOf(n, cursor, tf, TRUE)
  BY DEF CompletedBars, RowOf, n, due, gap
<1> QED
  BY <1>4, <1>5, <1>6, <1>7

LEMMA HistoryIs ==
  ASSUME setting \in Settings, ClockTyped, NEW tf \in Spans
  PROVE  \E from \in Int :
           /\ HistoryBars(tf) = RowOf(setting.warmup, from, tf, FALSE)
           /\ from + setting.warmup * tf = LatestEnd(tf)
<1> DEFINE w == setting.warmup
           l == LatestEnd(tf)
           from == l - w * tf
<1>1. w \in Int /\ l \in Int /\ w * tf \in Int
  BY NullIsNone, Ended DEF ClockTyped, Spans
<1>2. ASSUME NEW i \in 1 .. w
      PROVE  /\ l - (w - i + 1) * tf = from + (i - 1) * tf
             /\ l - (w - i) * tf = from + i * tf
  <2> HIDE DEF w, l
  <2>1. i \in Int /\ tf \in Int
    BY <1>1 DEF Spans
  <2>2. /\ (w - i + 1) * tf = w * tf - (i - 1) * tf
        /\ (w - i) * tf = w * tf - i * tf
        /\ (i - 1) * tf \in Int /\ i * tf \in Int
    BY <1>1, <2>1
  <2> DEFINE a == w * tf
             b == (i - 1) * tf
             c == i * tf
  <2>3. a \in Int /\ b \in Int /\ c \in Int
    BY <1>1, <2>2
  <2>4. l - (w - i + 1) * tf = l - (a - b) /\ l - (w - i) * tf = l - (a - c)
    BY <2>2
  <2> HIDE DEF a, b, c
  <2>5. l - (a - b) = l - a + b /\ l - (a - c) = l - a + c
    BY <1>1, <2>3
  <2> QED
    BY <2>4, <2>5 DEF a, b, c
<1>3. HistoryBars(tf) = RowOf(w, from, tf, FALSE)
  BY <1>2 DEF HistoryBars, RowOf
<1>4. from \in Int /\ from + w * tf = l
  <2> DEFINE a == w * tf
  <2>1. a \in Int /\ l \in Int
    BY <1>1
  <2> HIDE DEF a, l
  <2>2. l - a \in Int /\ l - a + a = l
    BY <2>1
  <2> QED
    BY <2>2 DEF a
<1> QED
  BY <1>3, <1>4

(* A row with gaps. *)
Ordered(row, live, from, to) ==
  /\ \A i \in DOMAIN row : /\ row[i].live = live
                           /\ row[i].from \in Int /\ row[i].to \in Int
                           /\ from <= row[i].from /\ row[i].from < row[i].to /\ row[i].to <= to
  /\ \A i, j \in DOMAIN row : i < j => row[i].to <= row[j].from

(* Prices change nothing of the times. *)
LEMMA Priced ==
  ASSUME NEW row \in Seq(Bars(setting)), NEW price \in Assets
  PROVE  LET priced == [i \in DOMAIN row |-> [row[i] EXCEPT !.open = price]]
         IN /\ priced \in Seq(Bars(setting)) /\ DOMAIN priced = DOMAIN row /\ Len(priced) = Len(row)
            /\ priced = <<>> <=> row = <<>>
            /\ \A i \in DOMAIN row : /\ priced[i].from = row[i].from /\ priced[i].to = row[i].to
                                     /\ priced[i].live = row[i].live
<1> DEFINE priced == [i \in DOMAIN row |-> [row[i] EXCEPT !.open = price]]
<1>1. /\ Len(row) \in Nat /\ DOMAIN row = 1 .. Len(row) /\ \A i \in DOMAIN row : row[i] \in Bars(setting)
      /\ row = <<>> <=> Len(row) = 0
  BY Elements
<1>2. \A i \in DOMAIN row : /\ priced[i] \in Bars(setting)
                            /\ priced[i].from = row[i].from /\ priced[i].to = row[i].to
                            /\ priced[i].live = row[i].live
  BY <1>1 DEF Bars, Assets
<1>3. priced \in [1 .. Len(row) -> Bars(setting)]
  BY <1>1, <1>2
<1>4. priced = [i \in 1 .. Len(row) |-> priced[i]]
  BY <1>1
<1>5. DOMAIN priced = 1 .. Len(row)
  BY <1>1
<1> HIDE DEF priced
<1>6. priced \in Seq(Bars(setting)) /\ Len(priced) = Len(row)
  BY <1>1, <1>3
<1>7. priced = <<>> <=> row = <<>>
  BY <1>1, <1>6, Elements
<1> QED
  BY <1>1, <1>2, <1>5, <1>6, <1>7 DEF priced

(* What a feed answers with. *)
LEMMA AnswerIs ==
  ASSUME NEW f, NEW asked \in Seq(Bars(setting)), NEW answer \in Answers(f, asked),
         NEW from, NEW to, Ordered(asked, TRUE, from, to)
  PROVE  /\ answer \in Seq(Bars(setting)) /\ Ordered(answer, TRUE, from, to)
         /\ ~setting.late => answer = asked
         /\ asked = <<>> => answer = <<>>
<1>1. CASE answer = asked
  BY <1>1
<1>2. CASE setting.late /\ \E have \in SUBSET ToSet(asked) : answer = Among(asked, have)
  <2>1. PICK have \in SUBSET ToSet(asked) : answer = Among(asked, have)
    BY <1>2
  <2>2. Keeps(asked, have, answer)
    BY <2>1, AmongKeeps
  <2>3. /\ answer \in Seq(ToSet(asked) \cap have)
        /\ \A i, j \in DOMAIN answer :
             i < j => \E k, l \in DOMAIN asked : k < l /\ answer[i] = asked[k] /\ answer[j] = asked[l]
    BY <2>2 DEF Keeps
  <2>4. \A i \in DOMAIN answer : \E k \in DOMAIN asked : answer[i] = asked[k]
    <3>1. \A i \in DOMAIN answer : answer[i] \in ToSet(asked)
      BY <2>3, Elements
    <3> QED
      BY <3>1 DEF ToSet
  <2>5. answer \in Seq(Bars(setting))
    <3>1. ToSet(asked) \cap have \subseteq Bars(setting)
      BY Elements
    <3> QED
      BY <2>3, <3>1, SeqMonotonic
  <2>6. Ordered(answer, TRUE, from, to)
    BY <2>3, <2>4 DEF Ordered
  <2>7. asked = <<>> => answer = <<>>
    <3>1. asked = <<>> => DOMAIN asked = {}
      OBVIOUS
    <3>2. answer # <<>> => 1 \in DOMAIN answer
      BY <2>5, Elements
    <3> QED
      BY <2>4, <3>1, <3>2
  <2> QED
    BY <1>2, <2>5, <2>6, <2>7
<1>3. answer = asked \/ (setting.late /\ \E have \in SUBSET ToSet(asked) : answer = Among(asked, have))
  BY DEF Answers
<1> QED
  BY <1>1, <1>2, <1>3

LEMMA WalkedKey ==
  ASSUME setting \in Settings, CallTyped, call.todo # <<>>
  PROVE  /\ Key \in Assets /\ Tail(call.todo) \in Seq(Assets)
         /\ \A x : Contains(call.todo, x) <=> x = Key \/ Contains(Tail(call.todo), x)
<1>1. call.todo \in Seq(Assets)
  BY DEF CallTyped
<1> QED
  BY <1>1, Dropped DEF Key

(* The fields of a call that changes. *)
LEMMA CallIs ==
  ASSUME CallTyped
  PROVE  /\ call.op \in Ops /\ call.todo \in Seq(Assets) /\ call.max \in Nat
         /\ call.feed \in FeedRows(setting) \cup {NULL} /\ call.bars \in Seq(Bars(setting))
         /\ call.cursor \in Cursors /\ call.last \in Lasts
BY DEF CallTyped

(* A call that goes on keeps what exchange$feed was when it began. *)
LEMMA LastKept ==
  ASSUME CallTyped, setting' = setting,
         FetchFeed \/ FetchHistory \/ ProcessBar \/ StartModel \/ PlanBatches \/ ProcessBatch
  PROVE  call'.last \in {NoFeed, call.last} /\ call'.last \in Lasts'
<1> SUFFICES call'.last \in {NoFeed, call.last}
  BY CallIs, LastsStay, NoFeedIs
<1>1. Idle.last = NoFeed
  BY DEF Idle
<1>2. CASE FetchFeed
  BY <1>2 DEF FetchFeed, CallTyped
<1>3. CASE FetchHistory
  BY <1>3 DEF FetchHistory, CallTyped
<1>4. CASE ProcessBar
  BY <1>1, <1>4 DEF ProcessBar, CallTyped
<1>5. CASE StartModel
  BY <1>5 DEF StartModel, CallTyped
<1>6. CASE PlanBatches
  BY <1>6 DEF PlanBatches, CallTyped
<1>7. CASE ProcessBatch
  BY <1>1, <1>7 DEF ProcessBatch, CallTyped
<1> QED
  BY <1>2, <1>3, <1>4, <1>5, <1>6, <1>7

(* What fetching a feed amounts to: c is where it stands. *)
FetchedFrom(c, live, f) ==
  /\ c \in Int /\ call'.feed.cursor \in Int /\ c <= call'.feed.cursor
  /\ call'.feed \in FeedRows(setting) /\ call'.feed.start = f.start
  /\ call'.bars \in Seq(Bars(setting)) /\ Ordered(call'.bars, live, c, call'.feed.cursor)
  /\ call'.op = call.op /\ call'.todo = call.todo /\ call'.max = call.max /\ call'.cursor = call.cursor
  /\ call' = [op |-> call'.op, todo |-> call'.todo, max |-> call'.max, feed |-> call'.feed,
              bars |-> call'.bars, cursor |-> call'.cursor, last |-> call'.last]
  /\ ~setting.late \/ ~live =>
       Contiguous(call'.bars, live, c, call'.feed.cursor) /\ (call'.bars = <<>> => call'.feed.cursor = c)
  /\ call'.feed.cursor # c => call'.feed.cursor <= LatestEnd(f.tf)

LEMMA FetchIs ==
  ASSUME TypeInv, FetchFeed
  PROVE  LET f == Selected(Key)
             c == CursorOf(f.cursor, f.start, f.tf)
         IN /\ FetchedFrom(c, TRUE, f) /\ StoreFeed(Key, f)
            /\ c = LatestEnd(f.tf) => call'.bars = <<>> /\ call'.feed.cursor = c
<1>0. Walking({"step"})
  BY DEF FetchFeed
<1>1. /\ setting \in Settings /\ ClockTyped /\ FeedsTyped /\ CallTyped /\ Key \in Assets
  BY <1>0, WalkedKey DEF TypeInv, Shape, WellTyped, Walking
<1> DEFINE f == Selected(Key)
           c == CursorOf(f.cursor, f.start, f.tf)
           asked == CompletedBars(c, f.tf, call.max)
           upto == IF asked = <<>> THEN c ELSE asked[Len(asked)].to
           price == IF f.mode = "external" THEN Key ELSE f.price
<1>2. /\ f \in FeedRows(setting) /\ f.cursor \in Cursors /\ f.start \in Cursors /\ f.tf \in Spans
      /\ f.price \in Assets
  <2>1. f \in FeedRows(setting) /\ f.tf \in Spans
    BY <1>1, SelectedIs
  <2> QED
    BY <2>1 DEF FeedRows, Assets
<1>3. c \in Int
  BY <1>1, <1>2, CursorIs
<1>4. PICK answer \in Answers(f, asked) :
        /\ StoreFeed(Key, f)
        /\ call' = [call EXCEPT !.feed = [f EXCEPT !.cursor = upto,
                                                   !.price = IF answer = <<>> THEN f.price ELSE price],
                                !.bars = [i \in DOMAIN answer |-> [answer[i] EXCEPT !.open = price]]]
  BY DEF FetchFeed
<1> HIDE DEF f, c
<1>5. PICK n \in Nat : /\ asked = RowOf(n, c, f.tf, TRUE)
                       /\ n # 0 => c + n * f.tf <= LatestEnd(f.tf)
                       /\ c = LatestEnd(f.tf) => n = 0
  BY <1>1, <1>2, <1>3, CompletedIs, CallIs
<1>6. /\ asked \in Seq(Bars(setting)) /\ Len(asked) = n
      /\ Contiguous(asked, TRUE, c, c + n * f.tf)
  BY <1>2, <1>3, <1>5, RowIs
<1> HIDE DEF asked
<1>7. /\ upto \in Int /\ c <= upto /\ Contiguous(asked, TRUE, c, upto)
      /\ asked = <<>> => upto = c
      /\ upto # c => upto <= LatestEnd(f.tf)
      /\ c = LatestEnd(f.tf) => asked = <<>>
  <2>1. asked = <<>> <=> n = 0
    BY <1>6, Elements
  <2>2. n = 0 => c + n * f.tf = c
    BY <1>2, <1>3 DEF Spans
  <2>3. CASE n = 0
    <3>1. asked = <<>> /\ upto = c
      BY <2>1, <2>3
    <3>2. Contiguous(asked, TRUE, c, upto)
      <4> DEFINE e == c + n * f.tf
      <4>1. e = upto /\ Contiguous(asked, TRUE, c, e)
        BY <1>6, <2>2, <2>3, <3>1
      <4> HIDE DEF e, upto
      <4> QED
        BY <4>1
    <3>3. c <= c
      BY <1>3
    <3> HIDE DEF upto
    <3> QED
      BY <1>3, <3>1, <3>2, <3>3, Zenon
  <2>4. CASE n # 0
    <3>1. upto = c + n * f.tf /\ 1 \in DOMAIN asked
      <4>1. DOMAIN asked = 1 .. n
        BY <1>6, Elements
      <4> QED
        BY <1>6, <2>1, <2>4, <4>1 DEF Contiguous
    <3>2. upto \in Int /\ c <= upto
      <4>1. asked[1].from \in Int /\ asked[1].to \in Int /\ c <= asked[1].from
            /\ asked[1].from < asked[1].to /\ asked[1].to <= upto
        BY <1>6, <3>1 DEF Contiguous
      <4>2. upto \in Int
        <5>1. n \in Int
          OBVIOUS
        <5>2. c + n * f.tf \in Int
          BY <1>2, <1>3, <5>1, Multiples
        <5> QED
          BY <3>1, <5>2
      <4> QED
        BY <1>3, <4>1, <4>2
    <3> QED
      BY <1>5, <1>6, <2>1, <2>4, <3>1, <3>2
  <2> QED
    BY <2>3, <2>4
<1> HIDE DEF upto
<1>8. Ordered(asked, TRUE, c, upto)
  BY <1>7 DEF Contiguous, Ordered
<1>9. /\ answer \in Seq(Bars(setting)) /\ Ordered(answer, TRUE, c, upto)
      /\ ~setting.late => answer = asked
      /\ asked = <<>> => answer = <<>>
  BY <1>4, <1>6, <1>8, AnswerIs
<1> DEFINE priced == [i \in DOMAIN answer |-> [answer[i] EXCEPT !.open = price]]
           g == [f EXCEPT !.cursor = upto, !.price = IF answer = <<>> THEN f.price ELSE price]
<1>10. price \in Assets
  BY <1>1, <1>2
<1> HIDE DEF price
<1>11. g \in FeedRows(setting) /\ g.cursor = upto /\ g.start = f.start
  BY <1>2, <1>7, <1>10 DEF FeedRows, Assets, Cursors
<1>12. /\ priced \in Seq(Bars(setting)) /\ DOMAIN priced = DOMAIN answer /\ Len(priced) = Len(answer)
       /\ priced = <<>> <=> answer = <<>>
       /\ \A i \in DOMAIN answer : /\ priced[i].from = answer[i].from /\ priced[i].to = answer[i].to
                                   /\ priced[i].live = answer[i].live
  BY <1>9, <1>10, Priced
<1>13. /\ call'.feed = g /\ call'.bars = priced
       /\ call'.op = call.op /\ call'.todo = call.todo /\ call'.max = call.max /\ call'.cursor = call.cursor
       /\ call' = [op |-> call'.op, todo |-> call'.todo, max |-> call'.max, feed |-> call'.feed,
                   bars |-> call'.bars, cursor |-> call'.cursor, last |-> call'.last]
  BY <1>1, <1>4 DEF CallTyped
<1> HIDE DEF priced, g
<1>14. Ordered(priced, TRUE, c, upto)
  BY <1>9, <1>12 DEF Ordered
<1>15. ASSUME ~setting.late
       PROVE  Contiguous(priced, TRUE, c, upto) /\ (priced = <<>> => upto = c)
  <2>1. answer = asked
    BY <1>9, <1>15
  <2>2. Contiguous(answer, TRUE, c, upto)
    BY <1>7, <2>1
  <2>3. priced # <<>> => 1 \in DOMAIN answer /\ Len(answer) \in DOMAIN answer
    BY <1>9, <1>12, Elements
  <2>4. Contiguous(priced, TRUE, c, upto)
    BY <1>12, <2>2, <2>3 DEF Contiguous
  <2> QED
    BY <1>7, <1>12, <2>1, <2>4
<1>16. c = LatestEnd(f.tf) => priced = <<>> /\ upto = c
  BY <1>7, <1>9, <1>12
<1>17. FetchedFrom(c, TRUE, f)
  BY <1>3, <1>7, <1>11, <1>12, <1>13, <1>14, <1>15 DEF FetchedFrom
<1> QED
  BY <1>4, <1>11, <1>13, <1>16, <1>17 DEF f, c

LEMMA FetchHistoryIs ==
  ASSUME TypeInv, FetchHistory
  PROVE  LET f == Selected(Key)
         IN /\ \E from \in Int : FetchedFrom(from, FALSE, f)
            /\ StoreFeed(Key, f) /\ call'.feed.cursor = LatestEnd(f.tf) /\ call'.bars # <<>>
<1>0. Walking({"warmup"})
  BY DEF FetchHistory
<1>1. /\ setting \in Settings /\ ClockTyped /\ FeedsTyped /\ CallTyped /\ Key \in Assets
  BY <1>0, WalkedKey DEF TypeInv, Shape, WellTyped, Walking
<1> DEFINE f == Selected(Key)
           l == LatestEnd(f.tf)
           row == HistoryBars(f.tf)
           g == [f EXCEPT !.cursor = l]
           priced == [i \in 1 .. setting.warmup |-> [row[i] EXCEPT !.open = f.price]]
<1>2. f \in FeedRows(setting) /\ f.tf \in Spans /\ f.price \in Assets
  <2>1. f \in FeedRows(setting) /\ f.tf \in Spans
    BY <1>1, SelectedIs
  <2> QED
    BY <2>1 DEF FeedRows, Assets
<1>3. /\ StoreFeed(Key, f)
      /\ call' = [call EXCEPT !.feed = g, !.bars = priced]
  BY DEF FetchHistory
<1> HIDE DEF f
<1>4. l \in Int
  BY <1>1, <1>2, Ended DEF ClockTyped
<1>5. PICK from \in Int : /\ row = RowOf(setting.warmup, from, f.tf, FALSE)
                          /\ from + setting.warmup * f.tf = l
  BY <1>1, <1>2, HistoryIs
<1>6. setting.warmup \in Nat /\ setting.warmup # 0
  BY <1>1, NullIsNone DEF Spans
<1>7. /\ row \in Seq(Bars(setting)) /\ Len(row) = setting.warmup
      /\ Contiguous(row, FALSE, from, l)
  <2>1. FALSE \in BOOLEAN
    OBVIOUS
  <2> QED
    BY <1>2, <1>5, <1>6, <2>1, RowIs
<1> HIDE DEF row, l
<1>8. DOMAIN row = 1 .. setting.warmup /\ 1 \in DOMAIN row /\ Len(row) \in DOMAIN row /\ row # <<>>
  BY <1>6, <1>7, Elements
<1>9. /\ priced \in Seq(Bars(setting)) /\ DOMAIN priced = DOMAIN row /\ Len(priced) = Len(row)
      /\ priced = <<>> <=> row = <<>>
      /\ \A i \in DOMAIN row : /\ priced[i].from = row[i].from /\ priced[i].to = row[i].to
                               /\ priced[i].live = row[i].live
  <2> DEFINE p == f.price
             q == [i \in DOMAIN row |-> [row[i] EXCEPT !.open = p]]
  <2>1. priced = q
    BY <1>8
  <2>2. p \in Assets
    BY <1>2
  <2> HIDE DEF p, priced
  <2>3. /\ q \in Seq(Bars(setting)) /\ DOMAIN q = DOMAIN row /\ Len(q) = Len(row)
        /\ q = <<>> <=> row = <<>>
        /\ \A i \in DOMAIN row : /\ q[i].from = row[i].from /\ q[i].to = row[i].to
                                 /\ q[i].live = row[i].live
    BY <1>7, <2>2, Priced
  <2> HIDE DEF q
  <2> QED
    BY <2>1, <2>3
<1>10. g \in FeedRows(setting) /\ g.cursor = l /\ g.start = f.start
  BY <1>2, <1>4 DEF FeedRows, Cursors
<1>11. /\ call'.feed = g /\ call'.bars = priced
       /\ call'.op = call.op /\ call'.todo = call.todo /\ call'.max = call.max /\ call'.cursor = call.cursor
       /\ call' = [op |-> call'.op, todo |-> call'.todo, max |-> call'.max, feed |-> call'.feed,
                   bars |-> call'.bars, cursor |-> call'.cursor, last |-> call'.last]
  BY <1>1, <1>3 DEF CallTyped
<1> HIDE DEF priced, g
<1>12. Contiguous(priced, FALSE, from, l)
  BY <1>7, <1>8, <1>9 DEF Contiguous
<1>13. Ordered(priced, FALSE, from, l)
  BY <1>12 DEF Contiguous, Ordered
<1>14. from <= l
  <2>1. /\ from <= row[1].from /\ row[1].from < row[1].to /\ row[1].to <= l
        /\ row[1].from \in Int /\ row[1].to \in Int
    BY <1>7, <1>8 DEF Contiguous
  <2> QED
    BY <1>4, <2>1
<1>15. FetchedFrom(from, FALSE, f)
  <2>1. l # from => l <= LatestEnd(f.tf)
    BY <1>4 DEF l
  <2>2. priced # <<>>
    BY <1>8, <1>9
  <2> QED
    BY <1>4, <1>9, <1>10, <1>11, <1>12, <1>13, <1>14, <2>1, <2>2 DEF FetchedFrom
<1> QED
  BY <1>3, <1>8, <1>9, <1>10, <1>11, <1>15 DEF f, l

-----------------------------------------------------------------------------
(* The walked feed is stored and the walk goes on. *)
LEMMA MovedOn ==
  ASSUME TypeInv, setting' = setting, call.todo # <<>>, call.bars = <<>>,
         NEW f \in FeedRows(setting), StoreFeed(Key, f), WalkOn,
         UNCHANGED <<now, status, model, bars, decided, writing, disk, admin>>
  PROVE  TypeInv'
<1>1. /\ setting \in Settings /\ ClockTyped /\ StatusTyped /\ FeedsTyped /\ ModelTyped /\ LogsTyped
      /\ CallTyped /\ WellTyped /\ SaveShape
  BY DEF TypeInv, WellTyped, Shape
<1>2. /\ Key \in Assets /\ Tail(call.todo) \in Seq(Assets)
      /\ \A x : Contains(call.todo, x) <=> x = Key \/ Contains(Tail(call.todo), x)
  BY <1>1, WalkedKey
<1>3. /\ FeedsTyped' /\ \A b : Contains(keys', b) <=> Contains(keys, b) \/ b = Key
  BY <1>1, <1>2, StoredFeed
<1>4. StatusTyped' /\ ModelTyped' /\ LogsTyped' /\ ClockTyped'
  BY <1>1, StatusStays, ModelStays, LogsStay, ClockStays
<1>5. /\ call'.op = call.op /\ call'.todo = Tail(call.todo) /\ call'.max = call.max /\ call'.feed = NULL
      /\ call'.bars = <<>> /\ call'.cursor = call.cursor /\ call'.last = call.last
      /\ call' = [op |-> call'.op, todo |-> call'.todo, max |-> call'.max, feed |-> call'.feed,
                  bars |-> call'.bars, cursor |-> call'.cursor, last |-> call'.last]
  BY <1>1 DEF CallTyped, WalkOn
<1>6. CallTyped'
  BY <1>1, <1>2, <1>5, CallIs, AssetsStay, LastsStay DEF CallTyped
<1>7. ~Batching /\ call.op \notin {"idle", "down", "write"}
  BY DEF TypeInv, Shape, BatchShape, CallShape
<1>8. DiskTyped' /\ WritingTyped' /\ SaveShape'
  BY <1>1, <1>5, <1>7, FilesStay
<1>9. FetchShape' /\ BatchShape' /\ CallShape'
  <2>1. DOMAIN call'.bars = {}
    BY <1>5
  <2> QED
    BY <1>5, <1>7, <2>1 DEF FetchShape, BatchShape, CallShape, Fetched, Batching, Warming
<1>10. BatchAsked'
  <2> SUFFICES ASSUME call.op \in {"batch", "batchwarmup", "modelstart"}, NEW a \in Requested'
               PROVE  Contains(keys', a) \/ Contains(call'.todo, a)
    BY <1>5 DEF BatchAsked
  <2>1. \A x \in Requested : Contains(keys, x) \/ Contains(call.todo, x)
    BY DEF TypeInv, Shape, BatchAsked
  <2>2. a \in Assets /\ (Contains(keys', a) \/ status[a] = "active")
    BY AssetsStay DEF Requested
  <2>3. CASE Contains(keys', a)
    BY <2>3
  <2>4. CASE ~Contains(keys', a)
    <3>1. a \in Requested /\ a # Key /\ ~Contains(keys, a)
      BY <1>3, <2>2, <2>4 DEF Requested
    <3> QED
      BY <1>2, <1>5, <2>1, <3>1
  <2> QED
    BY <2>3, <2>4
<1> QED
  BY <1>1, <1>3, <1>4, <1>6, <1>8, <1>9, <1>10 DEF TypeInv, WellTyped, Shape

LEMMA TypedTouch ==
  ASSUME TypeInv, setting' = setting, TouchFeed \/ StartFeed
  PROVE  TypeInv'
<1>1. setting \in Settings /\ ClockTyped /\ FeedsTyped /\ CallTyped
  BY DEF TypeInv, WellTyped, Shape
<1>2. call.todo # <<>> /\ call.feed = NULL
  BY DEF TouchFeed, StartFeed, Walking
<1>3. Key \in Assets
  BY <1>1, <1>2, WalkedKey
<1>4. call.bars = <<>>
  BY <1>2 DEF TypeInv, Shape, CallShape, BatchShape, Fetched
<1> DEFINE f == Selected(Key)
<1>5. f \in FeedRows(setting) /\ f.tf \in Spans /\ f.cursor \in Cursors /\ f.start \in Cursors
  <2>1. f \in FeedRows(setting) /\ f.tf \in Spans
    BY <1>1, <1>3, SelectedIs
  <2> QED
    BY <2>1 DEF FeedRows
<1>6. CASE TouchFeed
  <2>1. StoreFeed(Key, f) /\ WalkOn /\ UNCHANGED <<now, status, model, bars, decided, writing, disk, admin>>
    BY <1>6 DEF TouchFeed
  <2> HIDE DEF f
  <2> QED
    BY <1>2, <1>4, <1>5, <2>1, MovedOn
<1>7. CASE StartFeed
  <2> DEFINE c == CursorOf(f.cursor, f.start, f.tf)
             g == [f EXCEPT !.cursor = c]
  <2>1. StoreFeed(Key, g) /\ WalkOn /\ UNCHANGED <<now, status, model, bars, decided, writing, disk, admin>>
    BY <1>7 DEF StartFeed
  <2> HIDE DEF f
  <2>2. c \in Int
    BY <1>1, <1>5, CursorIs
  <2> HIDE DEF c
  <2>3. g \in FeedRows(setting)
    BY <1>5, <2>2 DEF FeedRows, Cursors
  <2> HIDE DEF g
  <2> QED
    BY <1>2, <1>4, <2>1, <2>3, MovedOn
<1> QED
  BY <1>6, <1>7

LEMMA TypedEndFeed ==
  ASSUME TypeInv, setting' = setting, EndFeed
  PROVE  TypeInv'
<1>1. /\ call.feed # NULL /\ call.bars = <<>> /\ StoreFeed(Key, call.feed) /\ WalkOn
      /\ UNCHANGED <<now, status, model, bars, decided, writing, disk, admin>>
  BY DEF EndFeed
<1>2. call.todo # <<>>
  BY <1>1 DEF TypeInv, Shape, FetchShape, Fetched
<1> DEFINE f == call.feed
<1>3. f \in FeedRows(setting)
  BY <1>1, CallIs DEF TypeInv, WellTyped
<1> HIDE DEF f
<1> QED
  BY <1>1, <1>2, <1>3, MovedOn DEF f

(* Bars have been fetched for the walked feed. *)
LEMMA TypedFetch ==
  ASSUME TypeInv, setting' = setting, FetchFeed \/ FetchHistory
  PROVE  TypeInv'
<1> DEFINE f == Selected(Key)
<1>1. /\ setting \in Settings /\ ClockTyped /\ StatusTyped /\ FeedsTyped /\ ModelTyped /\ LogsTyped
      /\ CallTyped /\ WellTyped /\ SaveShape
  BY DEF TypeInv, WellTyped, Shape
<1>2. /\ call.todo # <<>> /\ call.feed = NULL /\ call.op \in {"step", "warmup"}
      /\ UNCHANGED <<now, status, model, bars, decided, writing, disk, admin>>
  BY DEF FetchFeed, FetchHistory, Walking
<1>3. PICK c \in Int, live \in BOOLEAN : FetchedFrom(c, live, f) /\ StoreFeed(Key, f) /\ (call.op = "warmup" => ~live)
  <2>1. CASE FetchFeed
    <3> DEFINE c == CursorOf(f.cursor, f.start, f.tf)
    <3>1. FetchedFrom(c, TRUE, f) /\ StoreFeed(Key, f)
      BY <2>1, FetchIs
    <3>2. call.op = "step"
      BY <2>1 DEF FetchFeed, Walking
    <3>3. c \in Int
      BY <3>1 DEF FetchedFrom
    <3> HIDE DEF c, f
    <3> QED
      BY <3>1, <3>2, <3>3
  <2>2. CASE FetchHistory
    <3>1. /\ \E from \in Int : FetchedFrom(from, FALSE, f)
          /\ StoreFeed(Key, f)
      BY <2>2, FetchHistoryIs
    <3> HIDE DEF f
    <3> QED
      BY <3>1
  <2> QED
    BY <2>1, <2>2
<1>4. Key \in Assets
  BY <1>1, <1>2, WalkedKey
<1>5. f \in FeedRows(setting)
  BY <1>1, <1>4, SelectedIs
<1> HIDE DEF f
<1>6. FeedsTyped' /\ Contains(keys', Key)
  BY <1>1, <1>3, <1>4, <1>5, StoredFeed
<1>7. StatusTyped' /\ ModelTyped' /\ LogsTyped' /\ ClockTyped'
  BY <1>1, <1>2, StatusStays, ModelStays, LogsStay, ClockStays
<1>8. /\ call'.op = call.op /\ call'.todo = call.todo /\ call'.max = call.max /\ call'.cursor = call.cursor
      /\ call'.feed \in FeedRows(setting) /\ call'.bars \in Seq(Bars(setting))
      /\ call' = [op |-> call'.op, todo |-> call'.todo, max |-> call'.max, feed |-> call'.feed,
                  bars |-> call'.bars, cursor |-> call'.cursor, last |-> call'.last]
      /\ \A i \in DOMAIN call'.bars : call'.bars[i].live = live
  BY <1>3 DEF FetchedFrom, Ordered
<1>9. CallTyped'
  BY <1>1, <1>8, CallIs, AssetsStay, LastKept DEF CallTyped
<1>10. DiskTyped' /\ WritingTyped' /\ SaveShape'
  BY <1>1, <1>2, <1>8, FilesStay
<1>11. ~Batching /\ call'.feed # NULL /\ Key' = Key
  <2>1. ~Batching
    BY <1>2 DEF TypeInv, Shape, BatchShape
  <2> QED
    BY <1>1, <1>8, <2>1, NullIsNone DEF Key
<1>12. FetchShape' /\ BatchShape' /\ BatchAsked' /\ CallShape'
  BY <1>2, <1>3, <1>6, <1>8, <1>11 DEF FetchShape, BatchShape, BatchAsked, CallShape, Fetched, Batching, Warming
<1> QED
  BY <1>1, <1>6, <1>7, <1>9, <1>10, <1>12 DEF TypeInv, WellTyped, Shape

-----------------------------------------------------------------------------
(* What is processed. *)

LEMMA ShownIs ==
  ASSUME setting \in Settings, setting' = setting, LogsTyped, NEW as, NEW b \in Bars(setting), ShowToAgents(as, b)
  PROVE  /\ decided' \in [Assets' -> Seq(Int)]
         /\ \A a \in Assets : decided'[a] = IF b.live /\ a \in as THEN Append(decided[a], b.from) ELSE decided[a]
<1>1. decided' = [a \in Assets |-> IF b.live /\ a \in as THEN Append(decided[a], b.from) ELSE decided[a]]
  BY DEF ShowToAgents
<1>2. b.from \in Int /\ \A a \in Assets : decided[a] \in Seq(Int)
  BY DEF Bars, LogsTyped
<1>3. \A a \in Assets : Append(decided[a], b.from) \in Seq(Int)
  BY <1>2, Appended
<1> QED
  BY <1>1, <1>2, <1>3, AssetsStay

LEMMA NextBar ==
  ASSUME setting \in Settings, CallTyped, call.bars # <<>>
  PROVE  /\ Head(call.bars) \in Bars(setting) /\ Tail(call.bars) \in Seq(Bars(setting))
         /\ Head(call.bars) = call.bars[1] /\ 1 \in DOMAIN call.bars
         /\ Head(call.bars).from \in Int /\ Head(call.bars).to \in Int /\ Head(call.bars).live \in BOOLEAN
         /\ \A i \in DOMAIN Tail(call.bars) :
              i + 1 \in DOMAIN call.bars /\ Tail(call.bars)[i] = call.bars[i + 1]
<1>1. call.bars \in Seq(Bars(setting))
  BY CallIs
<1>2. /\ Head(call.bars) \in Bars(setting) /\ Tail(call.bars) \in Seq(Bars(setting))
      /\ Head(call.bars) = call.bars[1] /\ 1 \in DOMAIN call.bars
      /\ \A i \in DOMAIN Tail(call.bars) :
           i + 1 \in DOMAIN call.bars /\ Tail(call.bars)[i] = call.bars[i + 1]
  BY <1>1, Dropped
<1> QED
  BY <1>2 DEF Bars

LEMMA TypedProcessBar ==
  ASSUME TypeInv, setting' = setting, ProcessBar
  PROVE  TypeInv'
<1> DEFINE b == Head(call.bars)
<1>1. /\ setting \in Settings /\ ClockTyped /\ StatusTyped /\ FeedsTyped /\ ModelTyped /\ LogsTyped
      /\ CallTyped /\ WellTyped /\ SaveShape
  BY DEF TypeInv, WellTyped, Shape
<1>2. /\ call.op \in {"step", "warmup"} /\ call.feed # NULL /\ call.bars # <<>>
      /\ ShowToAgents({Key}, b)
      /\ \/ call' = Idle /\ bars' = bars
         \/ /\ bars' = [bars EXCEPT ![Key] = Append(@, b)]
            /\ call' = [call EXCEPT !.bars = Tail(@)]
      /\ UNCHANGED <<now, status, feeds, keys, last, model, writing, disk, admin>>
  BY DEF ProcessBar
<1>3. call.todo # <<>> /\ ~Batching /\ Contains(keys, Key)
  BY <1>2 DEF TypeInv, Shape, FetchShape, Fetched
<1>4. b \in Bars(setting) /\ Tail(call.bars) \in Seq(Bars(setting))
      /\ \A i \in DOMAIN Tail(call.bars) :
           i + 1 \in DOMAIN call.bars /\ Tail(call.bars)[i] = call.bars[i + 1]
  BY <1>1, <1>2, NextBar
<1> HIDE DEF b
<1>5. decided' \in [Assets' -> Seq(Int)]
  BY <1>1, <1>2, <1>4, ShownIs
<1>6. Key \in Assets
  BY <1>1, <1>3, WalkedKey
<1>7. LogsTyped'
  <2>1. bars \in [Assets -> Seq(Bars(setting))]
    BY <1>1 DEF LogsTyped
  <2>2. Append(bars[Key], b) \in Seq(Bars(setting))
    BY <1>4, <1>6, <2>1, Appended
  <2>3. bars' \in [Assets -> Seq(Bars(setting))]
    BY <1>2, <2>1, <2>2
  <2> QED
    BY <1>5, <2>3, AssetsStay DEF LogsTyped
<1>8. StatusTyped' /\ FeedsTyped' /\ ModelTyped' /\ ClockTyped'
  BY <1>1, <1>2, StatusStays, FeedsStay, ModelStays, ClockStays
<1>9. CASE call' = Idle
  <2>1. CallTyped' /\ FetchShape' /\ BatchShape' /\ BatchAsked' /\ CallShape'
    BY <1>1, <1>9, IdleShape
  <2>2. call'.op = "idle"
    BY <1>9 DEF Idle
  <2>3. DiskTyped' /\ WritingTyped' /\ SaveShape'
    BY <1>1, <1>2, <2>2, FilesStay
  <2> QED
    BY <1>1, <1>7, <1>8, <2>1, <2>3 DEF TypeInv, WellTyped, Shape
<1>10. CASE call' = [call EXCEPT !.bars = Tail(@)]
  <2>1. /\ call'.op = call.op /\ call'.todo = call.todo /\ call'.max = call.max /\ call'.feed = call.feed
        /\ call'.bars = Tail(call.bars) /\ call'.cursor = call.cursor
        /\ call' = [op |-> call'.op, todo |-> call'.todo, max |-> call'.max, feed |-> call'.feed,
                    bars |-> call'.bars, cursor |-> call'.cursor, last |-> call'.last]
    BY <1>1, <1>10 DEF CallTyped
  <2>2. CallTyped'
    BY <1>1, <1>4, <2>1, CallIs, AssetsStay, LastKept DEF CallTyped
  <2>3. DiskTyped' /\ WritingTyped' /\ SaveShape'
    BY <1>1, <1>2, <2>1, FilesStay
  <2>4. FetchShape' /\ BatchShape' /\ BatchAsked'
    BY <1>2, <1>3, <2>1 DEF FetchShape, BatchShape, BatchAsked, Fetched, Batching, Key
  <2>5. CallShape'
    BY <1>2, <1>4, <2>1 DEF TypeInv, Shape, CallShape, Fetched, Batching, Warming
  <2> QED
    BY <1>1, <1>7, <1>8, <2>2, <2>3, <2>4, <2>5 DEF TypeInv, WellTyped, Shape
<1> QED
  BY <1>2, <1>9, <1>10

-----------------------------------------------------------------------------
(* The market model. *)

LEMMA ModelTimeframeIs ==
  ASSUME setting \in Settings, ClockTyped, FeedsTyped, ModelTyped, ModelSpecOK(RequestKeys)
  PROVE  /\ ModelTimeframe(RequestKeys) \in Spans /\ ModelTimeframe(RequestKeys) \in setting.timeframes
         /\ ModelCursor \in Int /\ ModelCursor # NULL
         /\ model.cursor # NULL => ModelCursor = model.cursor
         /\ model.cursor = NULL => ModelCursor = LatestEnd(ModelTimeframe(RequestKeys))
         /\ Len(RequestKeys) >= 2 /\ Requested # {}
<1>1. Len(RequestKeys) >= 2
  BY DEF ModelSpecOK
<1>2. RequestKeys[1] \in Assets /\ Requested # {}
  BY <1>1, RequestKeysAre
<1>3. ModelTimeframe(RequestKeys) \in Spans /\ ModelTimeframe(RequestKeys) \in setting.timeframes
  BY <1>2, SelectedIs DEF ModelTimeframe
<1>4. model.cursor \in Cursors /\ NULL \in Cursors
  BY DEF ModelTyped, Cursors
<1> DEFINE tf == ModelTimeframe(RequestKeys)
<1> HIDE DEF tf
<1>5. /\ CursorOf(model.cursor, NULL, tf) \in Int /\ CursorOf(model.cursor, NULL, tf) # NULL
      /\ model.cursor # NULL => CursorOf(model.cursor, NULL, tf) = model.cursor
      /\ model.cursor = NULL => CursorOf(model.cursor, NULL, tf) = LatestEnd(tf)
  <2>1. tf \in Spans
    BY <1>3 DEF tf
  <2> QED
    BY <1>4, <2>1, CursorIs
<1>6. ModelCursor = CursorOf(model.cursor, NULL, tf)
  BY DEF ModelCursor, tf
<1> QED
  BY <1>1, <1>2, <1>3, <1>5, <1>6 DEF tf

LEMMA TypedStartModel ==
  ASSUME TypeInv, setting' = setting, StartModel
  PROVE  TypeInv'
<1>1. /\ setting \in Settings /\ ClockTyped /\ StatusTyped /\ FeedsTyped /\ ModelTyped /\ LogsTyped
      /\ CallTyped /\ WellTyped /\ SaveShape
  BY DEF TypeInv, WellTyped, Shape
<1>2. /\ call.op = "modelstart" /\ call.todo = <<>> /\ ModelSpecOK(RequestKeys)
      /\ model' = [model EXCEPT !.cursor = ModelCursor]
      /\ call' = [call EXCEPT !.op = "start", !.todo = RequestKeys]
      /\ UNCHANGED <<now, status, feeds, keys, last, bars, decided, writing, disk, admin>>
  BY DEF StartModel
<1>3. ModelCursor \in Int /\ RequestKeys \in Seq(Assets)
  BY <1>1, <1>2, ModelTimeframeIs, RequestKeysAre
<1>4. ModelTyped'
  BY <1>1, <1>2, <1>3 DEF ModelTyped, Cursors
<1>5. StatusTyped' /\ FeedsTyped' /\ LogsTyped' /\ ClockTyped'
  BY <1>1, <1>2, StatusStays, FeedsStay, LogsStay, ClockStays
<1>6. /\ call'.op = "start" /\ call'.todo = RequestKeys /\ call'.max = call.max /\ call'.feed = call.feed
      /\ call'.bars = call.bars /\ call'.cursor = call.cursor
      /\ call' = [op |-> call'.op, todo |-> call'.todo, max |-> call'.max, feed |-> call'.feed,
                  bars |-> call'.bars, cursor |-> call'.cursor, last |-> call'.last]
  BY <1>1, <1>2 DEF CallTyped
<1>7. CallTyped'
  <2>1. call'.op \in Ops
    BY <1>6 DEF Ops
  <2> QED
    BY <1>1, <1>3, <1>6, <2>1, CallIs, AssetsStay, LastKept DEF CallTyped
<1>8. DiskTyped' /\ WritingTyped' /\ SaveShape'
  BY <1>1, <1>2, <1>6, FilesStay
<1>9. ~Fetched /\ ~Batching /\ call.bars = <<>>
  BY <1>2 DEF TypeInv, Shape, FetchShape, BatchShape, CallShape
<1>10. FetchShape' /\ BatchShape' /\ BatchAsked' /\ CallShape'
  <2>1. DOMAIN call'.bars = {}
    BY <1>6, <1>9
  <2> QED
    BY <1>6, <1>9, <2>1 DEF FetchShape, BatchShape, BatchAsked, CallShape, Fetched, Batching, Warming
<1> QED
  BY <1>1, <1>4, <1>5, <1>7, <1>8, <1>10 DEF TypeInv, WellTyped, Shape

(* What planning amounts to. *)
LEMMA PlannedIs ==
  ASSUME TypeInv, PlanBatches
  PROVE  LET tf == ModelTimeframe(RequestKeys)
             live == call.op = "batch"
         IN /\ \E n \in Nat, from \in Int :
                 /\ call'.bars = RowOf(n, from, tf, live)
                 /\ live => from = call'.cursor /\ (n # 0 => from + n * tf <= LatestEnd(tf))
                            /\ (model.cursor = NULL => n = 0)
                 /\ ~live => from + n * tf = call'.cursor /\ n # 0 /\ call'.cursor = LatestEnd(tf)
                 /\ Contiguous(call'.bars, live, from, from + n * tf)
                 /\ Len(call'.bars) = n
            /\ call'.bars \in Seq(Bars(setting))
            /\ call'.cursor \in Int /\ call'.cursor # NULL
            /\ live => call'.cursor = ModelCursor
            /\ ~live => call.op = "batchwarmup"
            /\ call'.op = call.op /\ call'.todo = call.todo /\ call'.max = call.max
            /\ call'.feed = NULL
            /\ call' = [op |-> call'.op, todo |-> call'.todo, max |-> call'.max, feed |-> call'.feed,
                        bars |-> call'.bars, cursor |-> call'.cursor, last |-> call'.last]
<1>1. /\ setting \in Settings /\ ClockTyped /\ FeedsTyped /\ ModelTyped /\ CallTyped
  BY DEF TypeInv, WellTyped, Shape
<1> DEFINE tf == ModelTimeframe(RequestKeys)
           live == call.op = "batch"
<1>2. /\ call.op \in {"batch", "batchwarmup"} /\ call.todo = <<>> /\ call.cursor = NULL
      /\ ModelSpecOK(RequestKeys)
      /\ call' = IF call.op = "batch"
                 THEN [call EXCEPT !.bars = CompletedBars(ModelCursor, tf, call.max), !.cursor = ModelCursor]
                 ELSE [call EXCEPT !.bars = HistoryBars(tf), !.cursor = LatestEnd(tf)]
  BY DEF PlanBatches
<1>3. /\ tf \in Spans /\ ModelCursor \in Int /\ ModelCursor # NULL
      /\ model.cursor = NULL => ModelCursor = LatestEnd(tf)
  BY <1>1, <1>2, ModelTimeframeIs
<1>4. call.feed = NULL
  BY <1>2 DEF TypeInv, Shape, FetchShape, Fetched
<1>5. LatestEnd(tf) \in Int /\ NULL \notin Int /\ call.max \in Nat
  BY <1>1, <1>3, Ended, NullIsNone, CallIs DEF ClockTyped
<1> HIDE DEF tf
<1>6. CASE call.op = "batch"
  <2>1. live = TRUE
    BY <1>6
  <2>2. /\ call' = [call EXCEPT !.bars = CompletedBars(ModelCursor, tf, call.max), !.cursor = ModelCursor]
    BY <1>2, <1>6
  <2>3. /\ call'.bars = CompletedBars(ModelCursor, tf, call.max) /\ call'.cursor = ModelCursor
        /\ call'.op = call.op /\ call'.todo = call.todo /\ call'.max = call.max /\ call'.feed = NULL
        /\ call' = [op |-> call'.op, todo |-> call'.todo, max |-> call'.max, feed |-> call'.feed,
                    bars |-> call'.bars, cursor |-> call'.cursor, last |-> call'.last]
    BY <1>1, <1>4, <2>2 DEF CallTyped
  <2>4. PICK n \in Nat : /\ CompletedBars(ModelCursor, tf, call.max) = RowOf(n, ModelCursor, tf, TRUE)
                         /\ n # 0 => ModelCursor + n * tf <= LatestEnd(tf)
                         /\ ModelCursor = LatestEnd(tf) => n = 0
    BY <1>1, <1>3, <1>5, CompletedIs
  <2>5. /\ RowOf(n, ModelCursor, tf, TRUE) \in Seq(Bars(setting))
        /\ Len(RowOf(n, ModelCursor, tf, TRUE)) = n
        /\ Contiguous(RowOf(n, ModelCursor, tf, TRUE), TRUE, ModelCursor, ModelCursor + n * tf)
    <3>1. TRUE \in BOOLEAN
      OBVIOUS
    <3> QED
      BY <1>3, <3>1, RowIs
  <2> HIDE DEF live
  <2>6. /\ call'.bars = RowOf(n, ModelCursor, tf, live)
        /\ live => ModelCursor = call'.cursor /\ (n # 0 => ModelCursor + n * tf <= LatestEnd(tf))
                   /\ (model.cursor = NULL => n = 0)
        /\ Contiguous(call'.bars, live, ModelCursor, ModelCursor + n * tf)
        /\ Len(call'.bars) = n
    BY <1>3, <2>1, <2>3, <2>4, <2>5
  <2>7. call'.bars \in Seq(Bars(setting)) /\ call'.cursor \in Int /\ call'.cursor # NULL
    BY <1>3, <2>3, <2>4, <2>5
  <2> QED
    BY <1>3, <2>1, <2>3, <2>6, <2>7 DEF tf, live
<1>7. CASE call.op # "batch"
  <2>1. live = FALSE /\ call.op = "batchwarmup"
    BY <1>2, <1>7
  <2>2. /\ call' = [call EXCEPT !.bars = HistoryBars(tf), !.cursor = LatestEnd(tf)]
    BY <1>2, <1>7
  <2>3. /\ call'.bars = HistoryBars(tf) /\ call'.cursor = LatestEnd(tf)
        /\ call'.op = call.op /\ call'.todo = call.todo /\ call'.max = call.max /\ call'.feed = NULL
        /\ call' = [op |-> call'.op, todo |-> call'.todo, max |-> call'.max, feed |-> call'.feed,
                    bars |-> call'.bars, cursor |-> call'.cursor, last |-> call'.last]
    BY <1>1, <1>4, <2>2 DEF CallTyped
  <2> DEFINE n == setting.warmup
  <2>4. n \in Nat /\ n # 0
    BY <1>1, NullIsNone DEF Spans
  <2>5. PICK from \in Int : /\ HistoryBars(tf) = RowOf(n, from, tf, FALSE)
                            /\ from + n * tf = LatestEnd(tf)
    BY <1>1, <1>3, HistoryIs
  <2> HIDE DEF n
  <2>6. /\ RowOf(n, from, tf, FALSE) \in Seq(Bars(setting))
        /\ Len(RowOf(n, from, tf, FALSE)) = n
        /\ Contiguous(RowOf(n, from, tf, FALSE), FALSE, from, from + n * tf)
    <3>1. FALSE \in BOOLEAN
      OBVIOUS
    <3> QED
      BY <1>3, <2>4, <3>1, RowIs
  <2> HIDE DEF live
  <2>7. /\ call'.bars = RowOf(n, from, tf, live)
        /\ ~live => from + n * tf = call'.cursor /\ n # 0 /\ call'.cursor = LatestEnd(tf)
        /\ Contiguous(call'.bars, live, from, from + n * tf)
        /\ Len(call'.bars) = n
    BY <2>1, <2>3, <2>4, <2>5, <2>6
  <2>8. call'.bars \in Seq(Bars(setting)) /\ call'.cursor \in Int /\ call'.cursor # NULL
    BY <1>5, <2>3, <2>5, <2>6
  <2> QED
    BY <1>3, <2>1, <2>3, <2>4, <2>7, <2>8 DEF tf, live
<1> QED
  BY <1>6, <1>7

LEMMA TypedPlanBatches ==
  ASSUME TypeInv, setting' = setting, PlanBatches
  PROVE  TypeInv'
<1>1. /\ setting \in Settings /\ ClockTyped /\ StatusTyped /\ FeedsTyped /\ ModelTyped /\ LogsTyped
      /\ CallTyped /\ WellTyped /\ SaveShape
  BY DEF TypeInv, WellTyped, Shape
<1>2. /\ call.op \in {"batch", "batchwarmup"} /\ call.todo = <<>> /\ ModelSpecOK(RequestKeys)
      /\ UNCHANGED <<now, memory, writing, disk, admin>>
  BY DEF PlanBatches
<1>3. /\ call'.bars \in Seq(Bars(setting)) /\ call'.cursor \in Int /\ call'.cursor # NULL
      /\ call'.op = call.op /\ call'.todo = call.todo /\ call'.max = call.max /\ call'.feed = NULL
      /\ call' = [op |-> call'.op, todo |-> call'.todo, max |-> call'.max, feed |-> call'.feed,
                  bars |-> call'.bars, cursor |-> call'.cursor, last |-> call'.last]
      /\ call.op = "batchwarmup" => \A i \in DOMAIN call'.bars : ~call'.bars[i].live
  <2> DEFINE tf == ModelTimeframe(RequestKeys)
             live == call.op = "batch"
  <2>1. PICK n \in Nat, from \in Int : Contiguous(call'.bars, live, from, from + n * tf)
    BY PlannedIs
  <2>2. \A i \in DOMAIN call'.bars : call'.bars[i].live = live
    BY <2>1 DEF Contiguous
  <2> QED
    BY <2>2, PlannedIs
<1>4. CallTyped'
  BY <1>1, <1>3, CallIs, AssetsStay, LastKept DEF CallTyped, Cursors
<1>5. StatusTyped' /\ FeedsTyped' /\ ModelTyped' /\ LogsTyped' /\ ClockTyped'
  BY <1>1, <1>2, MemoryStays, ClockStays
<1>6. DiskTyped' /\ WritingTyped' /\ SaveShape'
  BY <1>1, <1>2, <1>3, FilesStay
<1>7. Requested' = Requested /\ RequestKeys' = RequestKeys /\ keys' = keys
  BY <1>2, AssetsStay DEF memory, Requested, RequestKeys, KeysWith
<1>8. Requested # {} /\ \A a \in Requested : Contains(keys, a)
  <2>1. Len(RequestKeys) >= 2 /\ Requested # {}
    BY <1>1, <1>2, ModelTimeframeIs
  <2>2. ~(Len(RequestKeys) < 2)
    <3>1. Len(RequestKeys) \in Nat
      BY <1>1, RequestKeysAre, Elements
    <3> QED
      BY <2>1, <3>1
  <2>3. \A a : ~Contains(<<>>, a)
    BY DEF Contains
  <2> QED
    BY <1>2, <2>1, <2>2, <2>3 DEF TypeInv, Shape, BatchAsked
<1>9. FetchShape' /\ BatchShape' /\ BatchAsked' /\ CallShape'
  BY <1>2, <1>3, <1>7, <1>8 DEF FetchShape, BatchShape, BatchAsked, CallShape, Fetched, Batching, Warming
<1> QED
  BY <1>1, <1>4, <1>5, <1>6, <1>9 DEF TypeInv, WellTyped, Shape

(* The feeds of a batch. *)
LEMMA BatchIs ==
  ASSUME TypeInv, call.cursor # NULL
  PROVE  /\ ToSet(RequestKeys) = Requested /\ Requested \subseteq Assets /\ Requested # {}
         /\ \A a \in Requested : feeds[a] \in FeedRows(setting) /\ feeds[a] # NULL /\ Contains(keys, a)
         /\ Last(Among(setting.registry, Requested)) \in Requested
<1>1. setting \in Settings /\ FeedsTyped
  BY DEF TypeInv, WellTyped, Shape
<1>2. Requested # {} /\ \A a \in Requested : Contains(keys, a)
  BY DEF TypeInv, Shape, BatchShape, Batching
<1>3. ToSet(RequestKeys) = Requested /\ Requested \subseteq Assets
  BY <1>1, RequestKeysAre DEF Requested
<1>4. setting.registry \in Seq(Assets) /\ ToSet(setting.registry) = Assets
  BY <1>1, FeedClockAssumption DEF Assets
<1> DEFINE R == Requested
           k == Among(setting.registry, R)
<1> HIDE DEF R
<1>5. Keeps(setting.registry, R, k)
  BY <1>4, AmongKeeps
<1> HIDE DEF k
<1>6. k \in Seq(R) /\ \A x \in R : Contains(k, x)
  <2>1. ToSet(setting.registry) \cap R = R
    BY <1>3, <1>4 DEF R
  <2> QED
    BY <1>5, <2>1 DEF Keeps
<1>7. k # <<>>
  <2>1. \A x : ~Contains(<<>>, x)
    BY DEF Contains
  <2> QED
    BY <1>2, <1>6, <2>1 DEF R
<1>8. Last(k) \in R
  <2>1. Len(k) \in Nat /\ Len(k) # 0 /\ DOMAIN k = 1 .. Len(k) /\ \A i \in DOMAIN k : k[i] \in R
    BY <1>6, <1>7, Elements
  <2>2. Len(k) \in DOMAIN k
    BY <2>1
  <2> QED
    BY <2>1, <2>2 DEF Last
<1> QED
  BY <1>1, <1>2, <1>3, <1>8 DEF FeedsTyped, R, k

(* What processing a batch amounts to. *)
LEMMA BatchedIs ==
  ASSUME TypeInv, setting' = setting, ProcessBatch
  PROVE  LET b == Head(call.bars)
         IN /\ b \in Bars(setting) /\ FeedsTyped' /\ LogsTyped'
            /\ \A a \in Requested : /\ feeds'[a].cursor = b.to /\ feeds'[a].start = feeds[a].start
                                    /\ feeds'[a] # NULL
            /\ \A a \in Assets \ Requested : feeds'[a] = feeds[a]
            /\ last'.cursor = b.to
            /\ \A a \in Assets : decided'[a] = IF b.live /\ a \in Requested THEN Append(decided[a], b.from)
                                               ELSE decided[a]
            /\ IF Refused(b) THEN call' = Idle /\ bars' = bars
               ELSE /\ call'.bars = Tail(call.bars) /\ call'.cursor = b.to
                    /\ call'.op = call.op /\ call'.todo = call.todo /\ call'.max = call.max
                    /\ call'.feed = call.feed
                    /\ call' = [op |-> call'.op, todo |-> call'.todo, max |-> call'.max,
                                feed |-> call'.feed, bars |-> call'.bars, cursor |-> call'.cursor, last |-> call'.last]
                    /\ \A a \in Assets \ Requested : bars'[a] = bars[a]
                    /\ \A a \in Requested :
                         \E price \in Assets : bars'[a] = Append(bars[a], [b EXCEPT !.open = price])
<1> DEFINE b == Head(call.bars)
           final == Last(Among(setting.registry, Requested))
<1>1. /\ setting \in Settings /\ FeedsTyped /\ LogsTyped /\ CallTyped
  BY DEF TypeInv, WellTyped, Shape
<1>2. /\ call.cursor # NULL /\ call.bars # <<>>
      /\ ToSet(RequestKeys) = Requested /\ Requested \subseteq Assets
      /\ \A a \in Requested : feeds[a] \in FeedRows(setting) /\ feeds[a] # NULL
      /\ final \in Requested
  BY BatchIs DEF ProcessBatch
<1>3. /\ feeds' = [a \in Assets |-> IF a \in Requested THEN [feeds[a] EXCEPT !.cursor = b.to] ELSE feeds[a]]
      /\ last' = [cursor |-> b.to, price |-> feeds[final].price]
      /\ ShowToAgents(Requested, b)
      /\ IF Refused(b)
         THEN call' = Idle /\ bars' = bars
         ELSE /\ bars' = [a \in Assets |-> IF a \in Requested
                                           THEN Append(bars[a], [b EXCEPT !.open = feeds[a].price])
                                           ELSE bars[a]]
              /\ call' = [call EXCEPT !.bars = Tail(@), !.cursor = b.to]
      /\ UNCHANGED keys
  BY <1>2 DEF ProcessBatch
<1>4. b \in Bars(setting) /\ b.to \in Int
  BY <1>1, <1>2, NextBar
<1> HIDE DEF b, final
<1>5. \A a \in Requested : /\ [feeds[a] EXCEPT !.cursor = b.to] \in FeedRows(setting)
                           /\ [feeds[a] EXCEPT !.cursor = b.to].cursor = b.to
                           /\ [feeds[a] EXCEPT !.cursor = b.to].start = feeds[a].start
                           /\ feeds[a].price \in Assets
  BY <1>2, <1>4 DEF FeedRows, Cursors, Assets
<1>6. /\ \A a \in Requested : /\ feeds'[a] \in FeedRows(setting) /\ feeds'[a] # NULL
                              /\ feeds'[a].cursor = b.to /\ feeds'[a].start = feeds[a].start
      /\ \A a \in Assets \ Requested : feeds'[a] = feeds[a]
  BY <1>1, <1>2, <1>3, <1>5, NullIsNone
<1>7. FeedsTyped'
  <2>1. feeds' \in [Assets -> FeedRows(setting) \cup {NULL}]
    BY <1>1, <1>3, <1>6 DEF FeedsTyped
  <2>2. \A a \in Assets : feeds'[a] # NULL <=> Contains(keys, a)
    BY <1>1, <1>2, <1>6 DEF FeedsTyped
  <2>3. last' \in [cursor : Cursors, price : Assets \cup {NULL}]
    BY <1>2, <1>3, <1>4, <1>5 DEF Cursors
  <2> QED
    BY <1>1, <1>3, <2>1, <2>2, <2>3, AssetsStay DEF FeedsTyped
<1>8. /\ decided' \in [Assets' -> Seq(Int)]
      /\ \A a \in Assets : decided'[a] = IF b.live /\ a \in Requested THEN Append(decided[a], b.from)
                                         ELSE decided[a]
  BY <1>1, <1>3, <1>4, ShownIs
<1>9. CASE Refused(b)
  <2>1. LogsTyped'
    BY <1>1, <1>3, <1>8, <1>9, AssetsStay DEF LogsTyped
  <2> QED
    BY <1>3, <1>4, <1>6, <1>7, <1>8, <1>9, <2>1 DEF b
<1>10. CASE ~Refused(b)
  <2>1. /\ bars' = [a \in Assets |-> IF a \in Requested
                                     THEN Append(bars[a], [b EXCEPT !.open = feeds[a].price])
                                     ELSE bars[a]]
        /\ call' = [call EXCEPT !.bars = Tail(@), !.cursor = b.to]
    BY <1>3, <1>10
  <2>2. ASSUME NEW a \in Requested
        PROVE  /\ feeds[a].price \in Assets /\ bars'[a] = Append(bars[a], [b EXCEPT !.open = feeds[a].price])
               /\ bars'[a] \in Seq(Bars(setting))
    <3> DEFINE e == [b EXCEPT !.open = feeds[a].price]
    <3>1. feeds[a].price \in Assets /\ a \in Assets
      BY <1>2, <1>5
    <3>2. e \in Bars(setting)
      BY <1>4, <3>1 DEF Bars, Assets
    <3>3. bars'[a] = Append(bars[a], e)
      BY <2>1, <3>1
    <3> HIDE DEF e
    <3>4. bars[a] \in Seq(Bars(setting))
      BY <1>1, <3>1 DEF LogsTyped
    <3>5. Append(bars[a], e) \in Seq(Bars(setting))
      BY <3>2, <3>4, Appended
    <3> QED
      BY <3>1, <3>3, <3>5 DEF e
  <2>3. \A a \in Assets \ Requested : bars'[a] = bars[a]
    BY <2>1
  <2>4. bars' \in [Assets -> Seq(Bars(setting))]
    BY <1>1, <2>1, <2>2, <2>3 DEF LogsTyped
  <2>5. LogsTyped'
    BY <1>8, <2>4, AssetsStay DEF LogsTyped
  <2>6. /\ call'.bars = Tail(call.bars) /\ call'.cursor = b.to
        /\ call'.op = call.op /\ call'.todo = call.todo /\ call'.max = call.max /\ call'.feed = call.feed
        /\ call' = [op |-> call'.op, todo |-> call'.todo, max |-> call'.max,
                    feed |-> call'.feed, bars |-> call'.bars, cursor |-> call'.cursor, last |-> call'.last]
    BY <1>1, <2>1 DEF CallTyped
  <2> HIDE DEF Requested
  <2>7. last'.cursor = b.to
    BY <1>3
  <2> QED
    BY <1>4, <1>6, <1>7, <1>8, <1>10, <2>2, <2>3, <2>5, <2>6, <2>7 DEF b
<1> QED
  BY <1>9, <1>10

LEMMA TypedProcessBatch ==
  ASSUME TypeInv, setting' = setting, ProcessBatch
  PROVE  TypeInv'
<1> DEFINE b == Head(call.bars)
<1>1. /\ setting \in Settings /\ ClockTyped /\ StatusTyped /\ ModelTyped /\ CallTyped /\ WellTyped /\ SaveShape
  BY DEF TypeInv, WellTyped, Shape
<1>2. /\ call.op \in {"batch", "batchwarmup"} /\ call.todo = <<>> /\ call.cursor # NULL /\ call.bars # <<>>
      /\ UNCHANGED <<now, status, keys, model, writing, disk, admin>>
  BY DEF ProcessBatch
<1>3. /\ b \in Bars(setting) /\ FeedsTyped' /\ LogsTyped'
      /\ \/ call' = Idle
         \/ /\ call'.bars = Tail(call.bars) /\ call'.cursor = b.to
            /\ call'.op = call.op /\ call'.todo = call.todo /\ call'.max = call.max /\ call'.feed = call.feed
            /\ call' = [op |-> call'.op, todo |-> call'.todo, max |-> call'.max,
                        feed |-> call'.feed, bars |-> call'.bars, cursor |-> call'.cursor, last |-> call'.last]
  BY BatchedIs
<1>4. b.to \in Int /\ Tail(call.bars) \in Seq(Bars(setting))
      /\ \A i \in DOMAIN Tail(call.bars) :
           i + 1 \in DOMAIN call.bars /\ Tail(call.bars)[i] = call.bars[i + 1]
  BY <1>1, <1>2, NextBar
<1> HIDE DEF b
<1>5. StatusTyped' /\ ModelTyped' /\ ClockTyped'
  BY <1>1, <1>2, StatusStays, ModelStays, ClockStays
<1>6. CASE call' = Idle
  <2>1. CallTyped' /\ FetchShape' /\ BatchShape' /\ BatchAsked' /\ CallShape'
    BY <1>1, <1>6, IdleShape
  <2>2. call'.op = "idle"
    BY <1>6 DEF Idle
  <2>3. DiskTyped' /\ WritingTyped' /\ SaveShape'
    BY <1>1, <1>2, <2>2, FilesStay
  <2> QED
    BY <1>1, <1>3, <1>5, <2>1, <2>3 DEF TypeInv, WellTyped, Shape
<1>7. CASE /\ call'.bars = Tail(call.bars) /\ call'.cursor = b.to
           /\ call'.op = call.op /\ call'.todo = call.todo /\ call'.max = call.max /\ call'.feed = call.feed
           /\ call' = [op |-> call'.op, todo |-> call'.todo, max |-> call'.max,
                       feed |-> call'.feed, bars |-> call'.bars, cursor |-> call'.cursor, last |-> call'.last]
  <2>1. CallTyped'
    BY <1>1, <1>4, <1>7, CallIs, AssetsStay, LastKept DEF CallTyped, Cursors
  <2>2. DiskTyped' /\ WritingTyped' /\ SaveShape'
    BY <1>1, <1>2, <1>7, FilesStay
  <2>3. Requested' = Requested /\ keys' = keys
    BY <1>2, AssetsStay DEF Requested
  <2>4. ~Fetched /\ call'.cursor # NULL
    <3>1. ~Fetched
      BY <1>2 DEF TypeInv, Shape, FetchShape
    <3> QED
      BY <1>1, <1>4, <1>7, <3>1, NullIsNone
  <2>5. Requested # {} /\ \A a \in Requested : Contains(keys, a)
    BY <1>2 DEF TypeInv, Shape, BatchShape, Batching
  <2>6. FetchShape' /\ BatchShape' /\ BatchAsked'
    BY <1>2, <1>7, <2>3, <2>4, <2>5 DEF FetchShape, BatchShape, BatchAsked, Fetched, Batching
  <2>7. CallShape'
    BY <1>2, <1>4, <1>7, <2>4 DEF TypeInv, Shape, CallShape, Fetched, Batching, Warming
  <2> QED
    BY <1>1, <1>3, <1>5, <2>1, <2>2, <2>6, <2>7 DEF TypeInv, WellTyped, Shape
<1> QED
  BY <1>3, <1>6, <1>7

LEMMA TypedEndBatches ==
  ASSUME TypeInv, setting' = setting, EndBatches
  PROVE  TypeInv'
<1>1. /\ setting \in Settings /\ ClockTyped /\ StatusTyped /\ FeedsTyped /\ ModelTyped /\ LogsTyped
      /\ CallTyped /\ WellTyped /\ SaveShape
  BY DEF TypeInv, WellTyped, Shape
<1>2. /\ call.op \in {"batch", "batchwarmup"} /\ call' = Idle
      /\ model' = [model EXCEPT !.cursor = call.cursor]
      /\ UNCHANGED <<now, status, feeds, keys, last, bars, decided, writing, disk, admin>>
  BY DEF EndBatches
<1>3. call.cursor \in Cursors /\ model \in [active : BOOLEAN, cursor : Cursors]
  BY <1>1, CallIs DEF ModelTyped
<1>4. ModelTyped'
  BY <1>2, <1>3 DEF ModelTyped
<1>5. StatusTyped' /\ FeedsTyped' /\ LogsTyped' /\ ClockTyped'
  BY <1>1, <1>2, StatusStays, FeedsStay, LogsStay, ClockStays
<1>6. CallTyped' /\ FetchShape' /\ BatchShape' /\ BatchAsked' /\ CallShape'
  BY <1>1, <1>2, IdleShape
<1>7. call'.op = "idle"
  BY <1>2 DEF Idle
<1>8. DiskTyped' /\ WritingTyped' /\ SaveShape'
  BY <1>1, <1>2, <1>7, FilesStay
<1> QED
  BY <1>1, <1>4, <1>5, <1>6, <1>8 DEF TypeInv, WellTyped, Shape

-----------------------------------------------------------------------------
(* Files. *)

LEMMA ContentIs ==
  ASSUME setting \in Settings, WellTyped
  PROVE  /\ \A f \in FileNames : Content[f] \in Tables(setting)[f] /\ Content[f] # NULL
         /\ Content["market_events"] = bars /\ Content["assets"] = status
         /\ Content["agent_decisions"] = decided /\ Content["market_model"] = model
         /\ Content["feed_status"] = call.last /\ Content["feed_configs"] = FeedConfigs
         /\ FeedConfigs \in Configs(setting) /\ FeedConfigs.order = keys
         /\ \A a \in Assets : FeedConfigs.rows[a] = IF feeds[a] = NULL THEN NULL
                                                    ELSE [feeds[a] EXCEPT !.start = NULL]
<1>1. /\ Content["market_events"] = bars /\ Content["assets"] = status
      /\ Content["agent_decisions"] = decided /\ Content["market_model"] = model
      /\ Content["feed_status"] = call.last /\ Content["feed_configs"] = FeedConfigs
  BY DEF Content
<1>2. FeedConfigs = [order |-> keys,
                     rows  |-> [a \in Assets |-> IF feeds[a] = NULL THEN NULL ELSE [feeds[a] EXCEPT !.start = NULL]]]
  BY DEF FeedConfigs
<1>3. \A a \in Assets : feeds[a] # NULL => [feeds[a] EXCEPT !.start = NULL] \in FeedRows(setting)
  <2> SUFFICES ASSUME NEW a \in Assets, feeds[a] # NULL
               PROVE  [feeds[a] EXCEPT !.start = NULL] \in FeedRows(setting)
    OBVIOUS
  <2>1. feeds[a] \in FeedRows(setting)
    BY DEF WellTyped, FeedsTyped
  <2> QED
    BY <2>1 DEF FeedRows, Cursors
<1> DEFINE rows == [a \in Assets |-> IF feeds[a] = NULL THEN NULL ELSE [feeds[a] EXCEPT !.start = NULL]]
<1>4. /\ rows \in [Assets -> FeedRows(setting) \cup {NULL}]
      /\ \A a \in Assets : rows[a] # NULL <=> Contains(keys, a)
  <2>1. \A a \in Assets : rows[a] \in FeedRows(setting) \cup {NULL} /\ (rows[a] # NULL <=> feeds[a] # NULL)
    BY <1>3, NullIsNone
  <2> QED
    BY <2>1 DEF WellTyped, FeedsTyped
<1> HIDE DEF rows
<1>5. FeedConfigs \in Configs(setting)
  <2>1. FeedConfigs = [order |-> keys, rows |-> rows]
    BY <1>2 DEF rows
  <2> QED
    BY <1>4, <2>1 DEF Configs, Assets, WellTyped, FeedsTyped
<1>6. \A f \in FileNames : Content[f] \in Tables(setting)[f]
  <2>1. /\ Tables(setting)["market_events"] = [Assets -> Seq(Bars(setting))]
        /\ Tables(setting)["assets"] = [Assets -> Statuses]
        /\ Tables(setting)["agent_decisions"] = [Assets -> Seq(Int)]
        /\ Tables(setting)["market_model"] = [active : BOOLEAN, cursor : Cursors]
        /\ Tables(setting)["feed_status"] = [cursor : Cursors, price : Assets \cup {NULL}]
        /\ Tables(setting)["feed_configs"] = Configs(setting)
    BY TablesAre DEF Assets
  <2>2. /\ bars \in [Assets -> Seq(Bars(setting))] /\ status \in [Assets -> Statuses]
        /\ decided \in [Assets -> Seq(Int)] /\ model \in [active : BOOLEAN, cursor : Cursors]
        /\ call.last \in [cursor : Cursors, price : Assets \cup {NULL}]
    BY DEF WellTyped, StatusTyped, ModelTyped, LogsTyped, CallTyped, Lasts
  <2> QED
    BY <1>1, <1>5, <2>1, <2>2 DEF FileNames
<1>7. \A f \in FileNames : Content[f] # NULL
  BY <1>6, NullIsNone
<1> QED
  BY <1>1, <1>2, <1>5, <1>6, <1>7

(* The k-th file is written after those before it and before those after. *)
LEMMA WritingIs ==
  ASSUME WritingTyped, writing # <<>>
  PROVE  \E k \in 1 .. 6 :
           /\ writing = SubSeq(Files, k, 6) /\ Head(writing) = Files[k] /\ Tail(writing) = SubSeq(Files, k + 1, 6)
           /\ Len(writing) = 7 - k
           /\ \A f \in FileNames : Contains(writing, f) <=> \E i \in k .. 6 : Files[i] = f
           /\ Tail(writing) = <<>> <=> k = 6
           /\ \A f \in FileNames : Contains(Tail(writing), f) <=> Contains(writing, f) /\ f # Files[k]
<1>1. PICK k \in 1 .. 7 : writing = SubSeq(Files, k, 6)
  BY DEF WritingTyped
<1>2. Files \in Seq(FileNames) /\ Len(Files) = 6
  BY FilesAre DEF Files, FileNames
<1>3. ASSUME NEW j \in 1 .. 7
      PROVE  /\ SubSeq(Files, j, 6) \in Seq(FileNames) /\ Len(SubSeq(Files, j, 6)) = 7 - j
             /\ DOMAIN SubSeq(Files, j, 6) = 1 .. 7 - j
             /\ \A i \in 1 .. 7 - j : SubSeq(Files, j, 6)[i] = Files[j + i - 1]
             /\ SubSeq(Files, j, 6) = <<>> <=> j = 7
  <2>1. /\ SubSeq(Files, j, 6) \in Seq(FileNames)
        /\ Len(SubSeq(Files, j, 6)) = IF j <= 6 THEN 6 - j + 1 ELSE 0
        /\ \A i \in 1 .. 6 - j + 1 : SubSeq(Files, j, 6)[i] = Files[j + i - 1]
    <3>1. j \in Int /\ 6 \in Int /\ \A i \in j .. 6 : i \in 1 .. 6
      OBVIOUS
    <3>2. \A i \in j .. 6 : Files[i] \in FileNames
      BY <3>1, FilesAre
    <3> QED
      BY <3>1, <3>2, SubSeqProperties
  <2>2. Len(SubSeq(Files, j, 6)) = 7 - j /\ 6 - j + 1 = 7 - j
    BY <2>1
  <2> DEFINE t == SubSeq(Files, j, 6)
  <2> HIDE DEF t
  <2>3. DOMAIN t = 1 .. Len(t) /\ (t = <<>> <=> Len(t) = 0)
    BY <2>1, Elements DEF t
  <2> QED
    BY <2>1, <2>2, <2>3 DEF t
<1>4. k \in 1 .. 6
  BY <1>1, <1>3
<1> DEFINE w == writing
<1>5. /\ w \in Seq(FileNames) /\ Len(w) = 7 - k /\ DOMAIN w = 1 .. 7 - k
      /\ \A i \in 1 .. 7 - k : w[i] = Files[k + i - 1]
  BY <1>1, <1>3
<1>6. /\ Tail(w) \in Seq(FileNames) /\ Head(w) = w[1] /\ Len(Tail(w)) = Len(w) - 1
      /\ \A i \in DOMAIN Tail(w) : i + 1 \in DOMAIN w /\ Tail(w)[i] = w[i + 1]
      /\ \A x : Contains(w, x) <=> x = Head(w) \/ Contains(Tail(w), x)
  BY <1>5, Dropped
<1>7. Head(w) = Files[k]
  BY <1>4, <1>5, <1>6
<1>8. DOMAIN Tail(w) = 1 .. Len(Tail(w)) /\ (Tail(w) = <<>> <=> Len(Tail(w)) = 0)
  BY <1>6, Elements
<1> DEFINE t == Tail(w)
           u == SubSeq(Files, k + 1, 6)
<1>9. /\ u \in Seq(FileNames) /\ Len(u) = 6 - k /\ DOMAIN u = 1 .. 6 - k
      /\ \A i \in 1 .. 6 - k : u[i] = Files[k + i]
  <2>1. k + 1 \in 1 .. 7 /\ 7 - (k + 1) = 6 - k /\ \A i \in 1 .. 6 - k : k + 1 + i - 1 = k + i
    BY <1>4
  <2> QED
    BY <1>3, <2>1
<1>10. /\ t \in Seq(FileNames) /\ Len(t) = 6 - k /\ DOMAIN t = 1 .. 6 - k
       /\ \A i \in 1 .. 6 - k : t[i] = Files[k + i]
  <2>1. Len(t) = 6 - k
    BY <1>4, <1>5, <1>6
  <2>2. ASSUME NEW i \in 1 .. 6 - k PROVE t[i] = Files[k + i]
    <3>1. i + 1 \in 1 .. 7 - k /\ k + (i + 1) - 1 = k + i
      BY <1>4
    <3>2. t[i] = w[i + 1]
      BY <1>6, <1>8, <2>1
    <3> QED
      BY <1>5, <3>1, <3>2
  <2> QED
    BY <1>6, <1>8, <2>1, <2>2
<1>11. t = <<>> <=> k = 6
  BY <1>4, <1>8, <1>10
<1>12. \A f \in FileNames : Contains(w, f) <=> \E i \in k .. 6 : Files[i] = f
  <2>1. \A i \in 1 .. 7 - k : k + i - 1 \in k .. 6 /\ w[i] = Files[k + i - 1]
    BY <1>4, <1>5
  <2>2. \A i \in k .. 6 : i - k + 1 \in 1 .. 7 - k /\ w[i - k + 1] = Files[i]
    <3>1. \A i \in k .. 6 : i - k + 1 \in 1 .. 7 - k /\ k + (i - k + 1) - 1 = i
      BY <1>4
    <3> QED
      BY <1>5, <3>1
  <2> QED
    BY <1>5, <2>1, <2>2 DEF Contains
<1>13. \A f \in FileNames : Contains(t, f) <=> Contains(w, f) /\ f # Files[k]
  <2>1. ~Contains(t, Files[k])
    <3>1. \A i \in 1 .. 6 - k : k + i \in 1 .. 6 /\ k + i # k
      BY <1>4
    <3>2. \A i \in 1 .. 6 - k : t[i] # Files[k]
      BY <1>4, <1>10, <3>1, FilesAre
    <3> QED
      BY <1>10, <3>2 DEF Contains
  <2> HIDE DEF t, w
  <2> QED
    BY <1>6, <1>7, <2>1 DEF t
<1>14. t = u
  <2> HIDE DEF t, u
  <2> QED
    BY <1>9, <1>10, SeqEqual
<1> QED
  BY <1>1, <1>4, <1>5, <1>7, <1>11, <1>12, <1>13, <1>14

LEMMA TypedBeginFiles ==
  ASSUME TypeInv, setting' = setting, BeginFiles
  PROVE  TypeInv'
<1>1. /\ setting \in Settings /\ ClockTyped /\ WellTyped /\ SaveShape
  BY DEF TypeInv, WellTyped, Shape
<1>2. /\ call.op = "save" /\ call.todo = <<>> /\ writing' = Files
      /\ call' = [Idle EXCEPT !.op = "write", !.last = call.last]
      /\ UNCHANGED <<now, memory, disk, admin>>
  BY DEF BeginFiles
<1>3. /\ call'.op = "write" /\ call'.todo = <<>> /\ call'.max = 0 /\ call'.feed = NULL
      /\ call'.bars = <<>> /\ call'.cursor = NULL
      /\ call' = [op |-> call'.op, todo |-> call'.todo, max |-> call'.max, feed |-> call'.feed,
                  bars |-> call'.bars, cursor |-> call'.cursor, last |-> call'.last]
      /\ call'.last = call.last
  BY <1>2 DEF Idle
<1>4. StatusTyped' /\ FeedsTyped' /\ ModelTyped' /\ LogsTyped' /\ ClockTyped' /\ DiskTyped'
  BY <1>1, <1>2, MemoryStays, ClockStays, DiskStays DEF WellTyped
<1>5. CallTyped'
  <2>1. <<>> \in Seq(Assets') /\ <<>> \in Seq(Bars(setting')) /\ call'.op \in Ops
    BY <1>3 DEF Ops
  <2>2. /\ call'.todo \in Seq(Assets') /\ call'.bars \in Seq(Bars(setting')) /\ call'.max \in Nat
        /\ call'.feed \in FeedRows(setting') \cup {NULL} /\ call'.cursor \in Cursors
    BY <1>3, <2>1 DEF Cursors
  <2>3. call'.last \in Lasts'
    BY <1>1, <1>3, CallIs, LastsStay DEF WellTyped
  <2> QED
    BY <1>3, <2>1, <2>2, <2>3 DEF CallTyped
<1>6. Files = SubSeq(Files, 1, 6)
  <2>1. Files \in Seq(FileNames) /\ Len(Files) = 6
    BY FilesAre DEF Files, FileNames
  <2> QED
    BY <2>1, SubSeqFull
<1>7. WritingTyped'
  BY <1>2, <1>6 DEF WritingTyped
<1>8. SaveShape'
  <2>1. \A f \in FileNames : Contains(Files, f)
    <3>1. DOMAIN Files = 1 .. 6
      BY DEF Files
    <3> QED
      BY <3>1, FilesAre DEF Contains
  <2>2. Files # <<>>
    <3>1. Files \in Seq(FileNames) /\ Len(Files) # 0
      BY FilesAre DEF Files, FileNames
    <3> QED
      BY <3>1, Elements
  <2>3. Saved("feed_configs") => Complete
    BY <1>1 DEF SaveShape
  <2> QED
    BY <1>2, <1>3, <2>1, <2>2, <2>3 DEF SaveShape, Saved, Complete
<1>9. FetchShape' /\ BatchShape' /\ BatchAsked' /\ CallShape'
  BY <1>3 DEF FetchShape, BatchShape, BatchAsked, CallShape, Fetched, Batching, Warming
<1> QED
  BY <1>1, <1>4, <1>5, <1>7, <1>8, <1>9 DEF TypeInv, WellTyped, Shape

(* What writing a file amounts to. *)
LEMMA WrittenIs ==
  ASSUME TypeInv, setting' = setting, WriteFile
  PROVE  \E k \in 1 .. 6 :
           /\ call.op = "write" /\ disk'[Files[k]] = Content[Files[k]]
           /\ \A f \in FileNames : f # Files[k] => disk'[f] = disk[f]
           /\ DOMAIN disk' = FileNames /\ disk' = [f \in FileNames |-> disk'[f]]
           /\ \A i \in 1 .. 6 : i < k => disk'[Files[i]] = Content[Files[i]]
           /\ k = 6 => call' = Idle /\ writing' = <<>> /\ \A f \in FileNames : disk'[f] = Content[f]
           /\ k # 6 => call' = call /\ writing' # <<>>
           /\ \A f \in FileNames : Contains(writing', f) \/ disk'[f] = Content[f]
           /\ writing' = SubSeq(Files, k + 1, 6)
<1>1. /\ call.op = "write" /\ writing # <<>>
      /\ disk' = [disk EXCEPT ![Head(writing)] = Content[Head(writing)]]
      /\ writing' = Tail(writing)
      /\ call' = IF Len(writing) = 1 THEN Idle ELSE call
  BY DEF WriteFile
<1>2. WritingTyped /\ DOMAIN disk = FileNames /\ disk = [f \in FileNames |-> disk[f]]
  BY DEF TypeInv, WellTyped, DiskTyped
<1>3. \A f \in FileNames : Contains(writing, f) \/ disk[f] = Content[f]
  BY <1>1 DEF TypeInv, Shape, SaveShape
<1>4. PICK k \in 1 .. 6 :
        /\ Head(writing) = Files[k] /\ Tail(writing) = SubSeq(Files, k + 1, 6)
        /\ Len(writing) = 7 - k
        /\ \A f \in FileNames : Contains(writing, f) <=> \E i \in k .. 6 : Files[i] = f
        /\ Tail(writing) = <<>> <=> k = 6
        /\ \A f \in FileNames : Contains(Tail(writing), f) <=> Contains(writing, f) /\ f # Files[k]
  BY <1>1, <1>2, WritingIs
<1>5. Files[k] \in FileNames
  BY FilesAre
<1>6. /\ disk'[Files[k]] = Content[Files[k]] /\ DOMAIN disk' = FileNames
      /\ disk' = [f \in FileNames |-> disk'[f]]
      /\ \A f \in FileNames : f # Files[k] => disk'[f] = disk[f]
  BY <1>1, <1>2, <1>4, <1>5
<1>7. \A f \in FileNames : Contains(writing', f) \/ disk'[f] = Content[f]
  BY <1>1, <1>3, <1>4, <1>6
<1>8. Len(writing) = 1 <=> k = 6
  BY <1>4
<1>9. k # 6 => call' = call /\ writing' # <<>>
  BY <1>1, <1>4, <1>8
<1>10. k = 6 => call' = Idle /\ writing' = <<>>
  BY <1>1, <1>4, <1>8
<1>11. k = 6 => \A f \in FileNames : disk'[f] = Content[f]
  <2>1. \A f : ~Contains(<<>>, f)
    BY DEF Contains
  <2> QED
    BY <1>7, <1>10, <2>1
<1>12. ASSUME NEW i \in 1 .. 6, i < k PROVE disk'[Files[i]] = Content[Files[i]]
  <2>1. Files[i] \in FileNames /\ \A j \in k .. 6 : j \in 1 .. 6 /\ j # i
    BY <1>12, FilesAre
  <2>2. \A j \in k .. 6 : Files[j] # Files[i]
    BY <2>1, FilesAre
  <2>3. ~Contains(writing, Files[i]) /\ Files[i] # Files[k]
    <3>1. i # k
      BY <1>12
    <3> QED
      BY <1>4, <2>1, <2>2, <3>1, FilesAre
  <2> QED
    BY <1>3, <1>6, <2>1, <2>3
<1> QED
  BY <1>1, <1>4, <1>6, <1>7, <1>9, <1>10, <1>11, <1>12

LEMMA TypedWriteFile ==
  ASSUME TypeInv, setting' = setting, WriteFile
  PROVE  TypeInv'
<1>1. /\ setting \in Settings /\ ClockTyped /\ WellTyped /\ SaveShape /\ CallTyped
  BY DEF TypeInv, WellTyped, Shape
<1>2. UNCHANGED <<now, memory, admin>>
  BY DEF WriteFile
<1>3. PICK k \in 1 .. 6 :
         /\ call.op = "write" /\ disk'[Files[k]] = Content[Files[k]]
         /\ \A f \in FileNames : f # Files[k] => disk'[f] = disk[f]
         /\ DOMAIN disk' = FileNames /\ disk' = [f \in FileNames |-> disk'[f]]
         /\ k = 6 => call' = Idle /\ writing' = <<>> /\ \A f \in FileNames : disk'[f] = Content[f]
         /\ k # 6 => call' = call /\ writing' # <<>>
         /\ \A f \in FileNames : Contains(writing', f) \/ disk'[f] = Content[f]
         /\ writing' = SubSeq(Files, k + 1, 6)
  BY WrittenIs
<1>4. StatusTyped' /\ FeedsTyped' /\ ModelTyped' /\ LogsTyped' /\ ClockTyped'
  BY <1>1, <1>2, MemoryStays, ClockStays
<1>5. WritingTyped'
  <2>1. k + 1 \in 1 .. 7
    OBVIOUS
  <2> QED
    BY <1>3, <2>1 DEF WritingTyped
<1>6. \A f \in FileNames : Content[f] \in Tables(setting)[f] /\ Content[f] # NULL
  BY <1>1, ContentIs
<1>7. Files[k] \in FileNames /\ (k # 6 => Files[k] # "feed_configs")
  <2>1. k \in 1 .. 6 /\ 6 \in 1 .. 6 /\ Files[6] = "feed_configs"
    BY FilesAre
  <2> QED
    BY <2>1, FilesAre
<1>8. DiskTyped'
  <2> SUFFICES ASSUME NEW f \in FileNames PROVE disk'[f] = NULL \/ disk'[f] \in Tables(setting)[f]
    BY <1>3 DEF DiskTyped
  <2>1. CASE f = Files[k]
    BY <1>3, <1>6, <2>1
  <2>2. CASE f # Files[k]
    BY <1>1, <1>3, <2>2 DEF WellTyped, DiskTyped
  <2> QED
    BY <2>1, <2>2
<1>9. call' = call => Content' = Content
  BY <1>2, AssetsStay DEF memory, Content, FeedConfigs
<1>10. Saved("feed_configs") => Complete
  BY <1>1 DEF SaveShape
<1>11. CASE k = 6
  <2>1. call' = Idle /\ writing' = <<>> /\ \A f \in FileNames : disk'[f] # NULL
    BY <1>3, <1>6, <1>11
  <2>2. CallTyped' /\ FetchShape' /\ BatchShape' /\ BatchAsked' /\ CallShape'
    BY <1>1, <2>1, IdleShape
  <2>3. call'.op = "idle" /\ "feed_configs" \in FileNames
    BY <2>1 DEF Idle, FileNames
  <2>4. SaveShape'
    BY <2>1, <2>3 DEF SaveShape, Saved, Complete
  <2> QED
    BY <1>1, <1>4, <1>5, <1>8, <2>2, <2>4 DEF TypeInv, WellTyped, Shape
<1>12. CASE k # 6
  <2>1. call' = call /\ writing' # <<>> /\ call.op = "write"
    BY <1>3, <1>12
  <2>2. CallTyped'
    BY <1>1, <2>1, AssetsStay, LastsStay DEF CallTyped
  <2>3. disk'["feed_configs"] # NULL => Complete'
    <3>1. "feed_configs" \in FileNames
      BY DEF FileNames
    <3>2. disk'["feed_configs"] = disk["feed_configs"]
      BY <1>3, <1>7, <1>12, <3>1
    <3>3. Complete => Complete'
      BY <1>3, <1>6, <1>7 DEF Complete, Saved
    <3> QED
      BY <1>10, <3>2, <3>3 DEF Saved
  <2>4. SaveShape'
    BY <1>3, <1>9, <2>1, <2>3 DEF SaveShape, Saved
  <2>5. FetchShape' /\ BatchShape' /\ BatchAsked' /\ CallShape'
    BY <2>1 DEF TypeInv, Shape, FetchShape, BatchShape, BatchAsked, CallShape, Fetched, Batching, Warming
  <2> QED
    BY <1>1, <1>4, <1>5, <1>8, <2>2, <2>4, <2>5 DEF TypeInv, WellTyped, Shape
<1> QED
  BY <1>11, <1>12

LEMMA NothingWritten ==
  <<>> \in {SubSeq(Files, k, 6) : k \in 1 .. 7}
<1>1. SubSeq(Files, 7, 6) = <<>>
  <2>1. 7 \in Int /\ 6 \in Int /\ 6 < 7
    OBVIOUS
  <2> QED
    BY <2>1, SubSeqEmpty
<1>2. 7 \in 1 .. 7
  OBVIOUS
<1> QED
  BY <1>1, <1>2

(* An exchange that has just been made. *)
LEMMA NewIs ==
  ASSUME setting \in Settings
  PROVE  /\ status = New.status => StatusTyped
         /\ feeds = New.feeds /\ keys = <<>> /\ last = New.last => FeedsTyped
         /\ model = New.model => ModelTyped
         /\ bars = New.log /\ decided = New.log => LogsTyped
         /\ setting' = setting =>
              /\ status' = New.status => StatusTyped'
              /\ feeds' = New.feeds /\ keys' = <<>> /\ last' = New.last => FeedsTyped'
              /\ model' = New.model => ModelTyped'
              /\ bars' = New.log /\ decided' = New.log => LogsTyped'
<1> DEFINE empty == <<>>
<1>1. /\ New.status = [a \in Assets |-> "absent"] /\ New.feeds = [a \in Assets |-> NULL]
      /\ New.last = [cursor |-> NULL, price |-> NULL] /\ New.model = [active |-> FALSE, cursor |-> NULL]
      /\ New.log = [a \in Assets |-> empty]
  BY DEF New, NoFeed
<1>2. /\ empty \in Seq(Assets) /\ empty \in Seq(Int) /\ empty \in Seq(Bars(setting))
      /\ IsInjective(empty) /\ \A a : ~Contains(empty, a)
  BY DEF IsInjective, Contains
<1> HIDE DEF empty
<1>3. /\ New.status \in [Assets -> Statuses]
      /\ New.feeds \in [Assets -> FeedRows(setting) \cup {NULL}]
      /\ \A a \in Assets : New.feeds[a] # NULL <=> Contains(empty, a)
      /\ New.last \in [cursor : Cursors, price : Assets \cup {NULL}]
      /\ New.model \in [active : BOOLEAN, cursor : Cursors]
      /\ New.log \in [Assets -> Seq(Bars(setting))] /\ New.log \in [Assets -> Seq(Int)]
  BY <1>1, <1>2 DEF Statuses, Cursors
<1>4. setting' = setting => Assets' = Assets
  BY AssetsStay
<1> QED
  BY <1>2, <1>3, <1>4 DEF StatusTyped, FeedsTyped, ModelTyped, LogsTyped, empty

(* What a crash leaves. *)
LEMMA CrashIs ==
  ASSUME TypeInv, setting' = setting, Crash
  PROVE  /\ AsNew' /\ disk' = disk /\ writing' = <<>> /\ now' = now
         /\ call' = [Idle EXCEPT !.op = "down"] /\ call'.op = "down"
         /\ call'.feed = NULL /\ call'.cursor = NULL /\ call'.bars = <<>> /\ call'.todo = <<>> /\ call'.max = 0
         /\ ClockTyped'
         /\ \/ call.op = "idle" /\ torn' = torn
            \/ call.op = "write" /\ MayTear /\ torn' = (torn \/ ~Clocked)
         /\ New' = New
<1>1. /\ status' = New.status /\ feeds' = New.feeds /\ keys' = <<>> /\ last' = New.last
      /\ model' = New.model /\ bars' = New.log /\ decided' = New.log
      /\ call' = [Idle EXCEPT !.op = "down"] /\ writing' = <<>> /\ UNCHANGED <<now, disk>>
      /\ \/ call = Idle /\ Administrative("crash") /\ torn' = torn
         \/ call.op = "write" /\ Administrative("tear") /\ torn' = (torn \/ ~Clocked)
  BY DEF Crash
<1>2. New' = New
  BY AssetsStay DEF New
<1>3. AsNew'
  BY <1>1, <1>2 DEF AsNew
<1>4. ClockTyped'
  BY <1>1, Counted DEF TypeInv, WellTyped, Shape
<1>5. call = Idle => call.op = "idle"
  BY DEF Idle
<1>6. Administrative("tear") => MayTear
  BY DEF Administrative, MayTear
<1> QED
  BY <1>1, <1>2, <1>3, <1>4, <1>5, <1>6 DEF Idle

(* What a crash leaves that tears no save too early. *)
LEMMA WholeCrash ==
  ASSUME TypeInv, TornInv, setting' = setting, Crash, ~torn'
  PROVE  /\ ~torn /\ Complete /\ Complete'
         /\ call.op = "idle" \/ (call.op = "write" /\ MayTear /\ Clocked)
<1>1. /\ disk' = disk
      /\ \/ call.op = "idle" /\ torn' = torn
         \/ call.op = "write" /\ MayTear /\ torn' = (torn \/ ~Clocked)
  BY CrashIs
<1>2. ~torn
  BY <1>1 DEF TornInv
<1>3. CASE call.op = "idle"
  <2>1. disk # [f \in FileNames |-> NULL] /\ disk = [f \in FileNames |-> disk[f]]
    BY FilesAre DEF Crash, TypeInv, WellTyped, DiskTyped
  <2>2. (\A f \in FileNames : disk[f] = NULL) => disk = [f \in FileNames |-> NULL]
    BY <2>1
  <2>3. Saved("feed_configs")
    BY <1>2, <1>3, <2>1, <2>2 DEF TornInv, Saved
  <2>4. Complete
    BY <2>3 DEF TypeInv, Shape, SaveShape
  <2> QED
    BY <1>1, <1>2, <1>3, <2>4 DEF Complete, Saved
<1>4. CASE call.op = "write" /\ MayTear /\ torn' = (torn \/ ~Clocked)
  <2>1. Clocked
    BY <1>4
  <2>2. Complete
    BY <2>1, FilesAre DEF Clocked, Complete, Saved
  <2> QED
    BY <1>1, <1>2, <1>4, <2>1, <2>2 DEF Complete, Saved
<1> QED
  BY <1>1, <1>3, <1>4

LEMMA TypedCrash ==
  ASSUME TypeInv, setting' = setting, Crash
  PROVE  TypeInv'
<1>1. /\ setting \in Settings /\ DiskTyped
  BY DEF TypeInv, WellTyped, Shape
<1>2. /\ AsNew' /\ disk' = disk /\ writing' = <<>>
      /\ call' = [Idle EXCEPT !.op = "down"] /\ call'.op = "down"
      /\ call'.feed = NULL /\ call'.cursor = NULL /\ call'.bars = <<>> /\ call'.todo = <<>> /\ call'.max = 0
      /\ ClockTyped' /\ New' = New /\ call'.last = NoFeed
  BY CrashIs DEF Idle
<1>3. Assets' = Assets
  BY AssetsStay
<1>4. /\ status' = New.status /\ feeds' = New.feeds /\ keys' = <<>> /\ last' = New.last
      /\ model' = New.model /\ bars' = New.log /\ decided' = New.log
  BY <1>2 DEF AsNew
<1>5. /\ StatusTyped' /\ FeedsTyped' /\ ModelTyped' /\ LogsTyped'
  BY <1>1, <1>3, <1>4, NewIs
<1>6. CallTyped'
  <2>1. <<>> \in Seq(Assets') /\ <<>> \in Seq(Bars(setting')) /\ call'.op \in Ops
    BY <1>2 DEF Ops
  <2>2. /\ call'.todo \in Seq(Assets') /\ call'.bars \in Seq(Bars(setting')) /\ call'.max \in Nat
        /\ call'.feed \in FeedRows(setting') \cup {NULL} /\ call'.cursor \in Cursors
    <3>1. call'.max \in Nat /\ call'.feed \in FeedRows(setting') \cup {NULL} /\ call'.cursor \in Cursors
      BY <1>2 DEF Cursors
    <3> QED
      BY <1>2, <2>1, <3>1, Zenon
  <2>3. call' = [op |-> call'.op, todo |-> call'.todo, max |-> call'.max, feed |-> call'.feed,
                 bars |-> call'.bars, cursor |-> call'.cursor, last |-> call'.last]
    BY <1>2 DEF Idle
  <2>4. call'.last \in Lasts'
    BY <1>2, NoFeedIs, LastsStay
  <2> QED
    BY <2>1, <2>2, <2>3, <2>4 DEF CallTyped
<1>7. DiskTyped' /\ WritingTyped'
  BY <1>1, <1>2, DiskStays, NothingWritten DEF WritingTyped
<1>8. FetchShape' /\ BatchShape' /\ BatchAsked' /\ CallShape'
  <2>1. DOMAIN call'.bars = {}
    BY <1>2
  <2> QED
    BY <1>2, <2>1 DEF FetchShape, BatchShape, BatchAsked, CallShape, Fetched, Batching, Warming
<1>9. SaveShape'
  <2>1. Saved("feed_configs") => Complete
    BY DEF TypeInv, Shape, SaveShape
  <2> QED
    BY <1>2, <2>1 DEF SaveShape, Complete, Saved
<1> QED
  BY <1>1, <1>2, <1>5, <1>6, <1>7, <1>8, <1>9 DEF TypeInv, WellTyped, Shape

(* The last of the feeds that were saved. *)
LEMMA LastSaved ==
  ASSUME setting \in Settings, NEW c \in Configs(setting), c.order # <<>>
  PROVE  LET z == Last(c.order) IN z \in Assets /\ c.rows[z] # NULL /\ c.rows[z] \in FeedRows(setting)
<1> DEFINE o == c.order
           z == o[Len(o)]
<1>1. /\ o \in Seq(Assets) /\ c.rows \in [Assets -> FeedRows(setting) \cup {NULL}]
      /\ \A a \in Assets : c.rows[a] # NULL <=> Contains(o, a)
  BY DEF Configs, Assets
<1>2. Len(o) \in DOMAIN o
  BY <1>1, Elements
<1>3. z \in Assets /\ Contains(o, z)
  BY <1>1, <1>2, Elements DEF Contains
<1>4. c.rows[z] # NULL /\ c.rows[z] \in FeedRows(setting)
  BY <1>1, <1>3
<1> QED
  BY <1>3, <1>4 DEF Last

(* Whatever files there are, what is loaded has its types. *)
LEMMA LoadTyped ==
  ASSUME TypeInv, setting' = setting, Load
  PROVE  /\ AsNew /\ call.op = "down" /\ call' = Idle /\ UNCHANGED <<now, writing, disk, admin>>
         /\ StatusTyped' /\ FeedsTyped' /\ ModelTyped' /\ LogsTyped'
<1>1. /\ setting \in Settings /\ WellTyped
      /\ bars \in [Assets -> Seq(Bars(setting))] /\ status \in [Assets -> Statuses]
      /\ decided \in [Assets -> Seq(Int)] /\ model \in [active : BOOLEAN, cursor : Cursors]
      /\ last \in [cursor : Cursors, price : Assets \cup {NULL}]
  BY DEF TypeInv, WellTyped, Shape, StatusTyped, FeedsTyped, ModelTyped, LogsTyped
<1>2. /\ call.op = "down" /\ call' = Idle /\ UNCHANGED <<now, writing, disk, admin>>
  BY DEF Load
<1>3. AsNew
  BY <1>2 DEF TypeInv, Shape, SaveShape
<1>4. \A f \in FileNames : disk[f] = NULL \/ disk[f] \in Tables(setting)[f]
  BY DEF TypeInv, WellTyped, DiskTyped
<1>5. \A f \in FileNames : \A default \in Tables(setting)[f] : LoadOr(f, default) \in Tables(setting)[f]
  BY <1>4 DEF LoadOr
<1>6. /\ Tables(setting)["market_events"] = [Assets -> Seq(Bars(setting))]
      /\ Tables(setting)["assets"] = [Assets -> Statuses]
      /\ Tables(setting)["agent_decisions"] = [Assets -> Seq(Int)]
      /\ Tables(setting)["market_model"] = [active : BOOLEAN, cursor : Cursors]
      /\ Tables(setting)["feed_status"] = [cursor : Cursors, price : Assets \cup {NULL}]
      /\ Tables(setting)["feed_configs"] = Configs(setting)
  BY TablesAre DEF Assets
<1> DEFINE configs == LoadOr("feed_configs", FeedConfigs)
           f == configs.rows[Last(configs.order)]
           final == IF configs.order = <<>> THEN last ELSE [cursor |-> f.cursor, price |-> f.price]
           saved == LoadOr("feed_status", final)
<1>7. /\ bars' = LoadOr("market_events", bars) /\ status' = LoadOr("assets", status)
      /\ decided' = LoadOr("agent_decisions", decided) /\ model' = LoadOr("market_model", model)
      /\ feeds' = configs.rows /\ keys' = configs.order
      /\ last' = [cursor |-> IF saved.cursor = NULL THEN final.cursor ELSE saved.cursor, price |-> saved.price]
  BY DEF Load
<1>8. configs \in Configs(setting)
  BY <1>1, <1>5, <1>6, ContentIs DEF FileNames
<1> HIDE DEF configs
<1>9. final \in [cursor : Cursors, price : Assets \cup {NULL}]
  <2>1. CASE configs.order = <<>>
    BY <1>1, <2>1
  <2>2. CASE configs.order # <<>>
    BY <1>1, <1>8, <2>2, LastSaved DEF FeedRows, Assets
  <2> QED
    BY <2>1, <2>2
<1> HIDE DEF final
<1>10. saved \in [cursor : Cursors, price : Assets \cup {NULL}]
  BY <1>5, <1>6, <1>9 DEF FileNames
<1> HIDE DEF saved
<1>11. FeedsTyped'
  <2>1. /\ configs.order \in Seq(Assets) /\ configs.rows \in [Assets -> FeedRows(setting) \cup {NULL}]
        /\ IsInjective(configs.order)
        /\ \A a \in Assets : configs.rows[a] # NULL <=> Contains(configs.order, a)
    BY <1>8 DEF Configs, Assets
  <2>2. last' \in [cursor : Cursors, price : Assets \cup {NULL}]
    BY <1>7, <1>9, <1>10
  <2> QED
    BY <1>7, <2>1, <2>2, AssetsStay DEF FeedsTyped
<1>12. StatusTyped' /\ ModelTyped' /\ LogsTyped'
  <2>1. /\ bars' \in [Assets -> Seq(Bars(setting))] /\ status' \in [Assets -> Statuses]
        /\ decided' \in [Assets -> Seq(Int)] /\ model' \in [active : BOOLEAN, cursor : Cursors]
    BY <1>1, <1>5, <1>6, <1>7 DEF FileNames
  <2> QED
    BY <2>1, AssetsStay DEF StatusTyped, ModelTyped, LogsTyped
<1> QED
  BY <1>2, <1>3, <1>11, <1>12

(* What loading a whole save amounts to. *)
LEMMA LoadIs ==
  ASSUME TypeInv, TornInv, setting' = setting, Load, ~torn
  PROVE  /\ Complete /\ AsNew /\ call.op = "down" /\ call' = Idle
         /\ bars' = disk["market_events"] /\ status' = disk["assets"]
         /\ decided' = disk["agent_decisions"] /\ model' = disk["market_model"]
         /\ feeds' = disk["feed_configs"].rows /\ keys' = disk["feed_configs"].order
         /\ UNCHANGED <<now, writing, disk, admin>>
         /\ StatusTyped' /\ FeedsTyped' /\ ModelTyped' /\ LogsTyped'
         /\ IF disk["feed_status"].cursor # NULL THEN last'.cursor = disk["feed_status"].cursor
            ELSE last'.cursor = NULL \/ \E a \in Assets : /\ disk["feed_configs"].rows[a] # NULL
                                                          /\ last'.cursor = disk["feed_configs"].rows[a].cursor
<1>1. /\ setting \in Settings /\ FeedsTyped
  BY DEF TypeInv, WellTyped, Shape
<1>2. /\ call.op = "down" /\ call' = Idle /\ UNCHANGED <<now, writing, disk, admin>>
  BY DEF Load
<1>3. Complete /\ AsNew
  BY <1>2 DEF TornInv, TypeInv, Shape, SaveShape
<1>4. \A f \in FileNames : disk[f] \in Tables(setting)[f] /\ disk[f] # NULL
  BY <1>3 DEF Complete, Saved, TypeInv, WellTyped, DiskTyped
<1>5. /\ disk["market_events"] \in [Assets -> Seq(Bars(setting))]
      /\ disk["assets"] \in [Assets -> Statuses]
      /\ disk["agent_decisions"] \in [Assets -> Seq(Int)]
      /\ disk["market_model"] \in [active : BOOLEAN, cursor : Cursors]
      /\ disk["feed_status"] \in [cursor : Cursors, price : Assets \cup {NULL}]
      /\ disk["feed_configs"] \in Configs(setting)
  BY <1>4, TablesAre DEF FileNames, Assets
<1>6. \A default : /\ LoadOr("market_events", default) = disk["market_events"]
                   /\ LoadOr("assets", default) = disk["assets"]
                   /\ LoadOr("agent_decisions", default) = disk["agent_decisions"]
                   /\ LoadOr("market_model", default) = disk["market_model"]
                   /\ LoadOr("feed_status", default) = disk["feed_status"]
                   /\ LoadOr("feed_configs", default) = disk["feed_configs"]
  BY <1>4 DEF LoadOr, FileNames
<1> DEFINE configs == disk["feed_configs"]
           f == configs.rows[Last(configs.order)]
           final == IF configs.order = <<>> THEN last ELSE [cursor |-> f.cursor, price |-> f.price]
           saved == disk["feed_status"]
<1>7. /\ bars' = disk["market_events"] /\ status' = disk["assets"]
      /\ decided' = disk["agent_decisions"] /\ model' = disk["market_model"]
      /\ feeds' = configs.rows /\ keys' = configs.order
      /\ last' = [cursor |-> IF saved.cursor = NULL THEN final.cursor ELSE saved.cursor, price |-> saved.price]
  BY <1>6 DEF Load
<1>8. /\ configs.order \in Seq(Assets) /\ configs.rows \in [Assets -> FeedRows(setting) \cup {NULL}]
      /\ IsInjective(configs.order)
      /\ \A a \in Assets : configs.rows[a] # NULL <=> Contains(configs.order, a)
  BY <1>5 DEF Configs, Assets
<1> HIDE DEF configs, saved
<1>9. configs.order # <<>> =>
        LET z == Last(configs.order) IN z \in Assets /\ configs.rows[z] # NULL /\ configs.rows[z] \in FeedRows(setting)
  BY <1>1, <1>5, LastSaved DEF configs
<1>10. /\ final.cursor \in Cursors
       /\ final.cursor = NULL \/ \E a \in Assets : configs.rows[a] # NULL /\ final.cursor = configs.rows[a].cursor
  <2>1. CASE configs.order = <<>>
    <3>1. last.cursor = NULL
      BY <1>3 DEF AsNew, New, NoFeed
    <3> QED
      BY <2>1, <3>1 DEF Cursors
  <2>2. CASE configs.order # <<>>
    BY <1>9, <2>2 DEF FeedRows
  <2> QED
    BY <2>1, <2>2
<1> HIDE DEF final
<1>11. StatusTyped' /\ FeedsTyped' /\ ModelTyped' /\ LogsTyped'
  BY LoadTyped
<1> QED
  BY <1>2, <1>3, <1>7, <1>10, <1>11 DEF configs, saved

LEMMA TypedLoad ==
  ASSUME TypeInv, setting' = setting, Load
  PROVE  TypeInv'
<1>1. /\ setting \in Settings /\ DiskTyped /\ WritingTyped /\ SaveShape /\ ClockTyped
  BY DEF TypeInv, WellTyped, Shape
<1>2. /\ call.op = "down" /\ call' = Idle /\ UNCHANGED <<now, writing, disk, admin>>
      /\ StatusTyped' /\ FeedsTyped' /\ ModelTyped' /\ LogsTyped'
  BY LoadTyped
<1>3. CallTyped' /\ FetchShape' /\ BatchShape' /\ BatchAsked' /\ CallShape'
  BY <1>1, <1>2, IdleShape
<1>4. DiskTyped' /\ WritingTyped' /\ ClockTyped'
  BY <1>1, <1>2, DiskStays, WritingStays, ClockStays
<1>5. SaveShape'
  <2>1. call'.op = "idle"
    BY <1>2 DEF Idle
  <2> QED
    BY <1>1, <1>2, <2>1 DEF SaveShape, Saved, Complete
<1> QED
  BY <1>1, <1>2, <1>3, <1>4, <1>5 DEF TypeInv, WellTyped, Shape

LEMMA TypedInit ==
  Init => TypeInv
<1> SUFFICES ASSUME Init PROVE TypeInv
  OBVIOUS
<1>1. /\ setting \in Settings /\ now = 0 /\ status = New.status /\ feeds = New.feeds /\ keys = <<>>
      /\ last = New.last /\ model = [New.model EXCEPT !.active = setting.model]
      /\ bars = New.log /\ decided = New.log /\ call = Idle /\ writing = <<>>
      /\ disk = [f \in FileNames |-> NULL] /\ admin = 0
  BY FilesAre DEF Init
<1>2. StatusTyped /\ FeedsTyped /\ LogsTyped
  BY <1>1, NewIs
<1>3. ModelTyped
  BY <1>1, NullIsNone DEF ModelTyped, New, Cursors
<1>4. ClockTyped
  BY <1>1, NullIsNone DEF ClockTyped
<1>5. /\ call.op = "idle" /\ call.todo = <<>> /\ call.max = 0 /\ call.feed = NULL
      /\ call.bars = <<>> /\ call.cursor = NULL
  BY <1>1 DEF Idle
<1>6. CallTyped
  <2>1. <<>> \in Seq(Assets) /\ <<>> \in Seq(Bars(setting)) /\ call.op \in Ops
    BY <1>5 DEF Ops
  <2>2. /\ call.todo \in Seq(Assets) /\ call.bars \in Seq(Bars(setting)) /\ call.max \in Nat
        /\ call.feed \in FeedRows(setting) \cup {NULL} /\ call.cursor \in Cursors
    BY <1>5, <2>1 DEF Cursors
  <2> QED
    BY <1>1, <2>1, <2>2, NoFeedIs DEF CallTyped, Idle
<1>7. DiskTyped /\ WritingTyped
  BY <1>1, NothingWritten DEF DiskTyped, WritingTyped
<1>8. SaveShape
  <2>1. "feed_configs" \in FileNames
    BY DEF FileNames
  <2> QED
    BY <1>1, <1>5, <2>1 DEF SaveShape, Saved
<1>9. FetchShape /\ BatchShape /\ BatchAsked /\ CallShape
  <2>1. DOMAIN call.bars = {}
    BY <1>5
  <2> QED
    BY <1>5, <2>1 DEF FetchShape, BatchShape, BatchAsked, CallShape, Fetched, Batching, Warming
<1> QED
  BY <1>1, <1>2, <1>3, <1>4, <1>6, <1>7, <1>8, <1>9 DEF TypeInv, WellTyped, Shape

LEMMA TypedNext ==
  ASSUME TypeInv, [Next]_vars
  PROVE  TypeInv'
<1>1. CASE UNCHANGED vars
  <2>1. UNCHANGED <<setting, now, status, feeds, keys, last, model, bars, decided, call, writing, disk, admin>>
    BY <1>1 DEF vars, memory
  <2>2. WellTyped'
    BY <2>1, StatusStays, FeedsStay, ModelStays, LogsStay, ClockStays, DiskStays, WritingStays, AssetsStay,
       LastsStay DEF TypeInv, WellTyped, CallTyped
  <2>3. /\ Requested' = Requested /\ Fetched' = Fetched /\ Batching' = Batching /\ Warming' = Warming
        /\ RequestKeys' = RequestKeys /\ Key' = Key /\ Content' = Content /\ AsNew' = AsNew
        /\ Complete' = Complete
    BY <2>1 DEF Requested, Fetched, Batching, Warming, RequestKeys, KeysWith, Key, Content, FeedConfigs,
                AsNew, New, Complete, Saved, Assets
  <2>4. Shape'
    BY <2>1, <2>3 DEF TypeInv, Shape, FetchShape, BatchShape, BatchAsked, CallShape, SaveShape, Saved
  <2> QED
    BY <2>2, <2>4 DEF TypeInv
<1>2. CASE Next
  <2>1. (Turn \/ Crash) /\ setting' = setting
    BY <1>2 DEF Next
  <2>2. CASE Tick
    BY <2>1, <2>2, TypedTick
  <2>3. CASE \E a \in Assets : (\E st \in {"active", "paused"} : AddAsset(a, st)) \/ RemoveAsset(a)
    BY <2>1, <2>3, TypedRegistry
  <2>4. CASE \E a \in Assets, tf \in setting.timeframes, mode \in setting.modes : Configure(a, tf, mode)
    BY <2>1, <2>4, TypedConfigure
  <2>5. CASE \E a \in Assets, tf \in setting.timeframes, mode \in setting.modes, start \in {NULL, 0, 1} :
               Reset(a, tf, mode, start)
    BY <2>1, <2>5, TypedReset
  <2>6. CASE \E on, whole \in BOOLEAN : ConfigureModel(on, whole)
    BY <2>1, <2>6, TypedModelSwitch
  <2>7. CASE \/ \E max \in PollSizes : Poll(max) \/ \E a \in Assets : StepOne(a, max)
             \/ Start \/ Warmup \/ Status \/ Save
    BY <2>1, <2>7, TypedBegin
  <2>8. CASE Continue
    BY <2>1, <2>8, TypedFail, TypedList, TypedTouch, TypedFetch, TypedProcessBar, TypedEndFeed, TypedStartModel,
       TypedPlanBatches, TypedProcessBatch, TypedEndBatches, TypedBeginFiles, TypedWriteFile DEF Continue
  <2>9. CASE Crash \/ Load
    BY <2>1, <2>9, TypedCrash, TypedLoad
  <2> QED
    BY <2>1, <2>2, <2>3, <2>4, <2>5, <2>6, <2>7, <2>8, <2>9 DEF Turn
<1> QED
  BY <1>1, <1>2

-----------------------------------------------------------------------------
(* The kinds of steps, by what they do to clocks, logs and files. *)

(* Nothing but the running call, the registry or the time. *)
Quietly ==
  /\ UNCHANGED <<feeds, keys, last, model, bars, decided, disk>> /\ now <= now'
  /\ ~Fetched /\ ~Fetched' /\ ~Batching /\ ~Batching'
  /\ call.op \notin {"write", "down"} /\ call'.op # "down"
  /\ \/ call'.op \in {"idle", "status", "save", "write"}
     \/ call'.op \in {"step", "warmup", "start"} /\ ~model.active
     \/ call'.op = "step" /\ "one" \in setting.calls
     \/ call'.op \in {"batch", "batchwarmup", "modelstart"} /\ model.active
  /\ call'.op \in {"warmup", "batchwarmup"} => "warmup" \in setting.calls

(* A feed is placed: configured, touched or started. *)
Placed(a, f) ==
  /\ a \in Assets /\ f \in FeedRows(setting) /\ StoreFeed(a, f)
  /\ UNCHANGED <<now, model, bars, decided, disk>>
  /\ ~Fetched /\ ~Fetched' /\ ~Batching /\ ~Batching'
  /\ call.op \notin {"write", "down"} /\ call'.op = call.op
  /\ \/ "reset" \in setting.calls
     \/ f.start = NULL /\ f.cursor = Inherited(a).cursor
     \/ f.start = Selected(a).start /\ f.cursor = Selected(a).cursor
     \/ /\ f.start = Selected(a).start /\ call.op = "start"
        /\ f.cursor = CursorOf(Selected(a).cursor, Selected(a).start, Selected(a).tf)

(* The market model is switched. *)
Switched ==
  /\ UNCHANGED <<feeds, keys, last, bars, decided, disk, call, now>> /\ "model" \in setting.calls
  /\ call.op = "idle"

LEMMA Quiet ==
  ASSUME TypeInv, setting' = setting,
         \/ Tick
         \/ \E a \in Assets : (\E st \in {"active", "paused"} : AddAsset(a, st)) \/ RemoveAsset(a)
         \/ \E max \in PollSizes : Poll(max) \/ \E a \in Assets : StepOne(a, max)
         \/ Start \/ Warmup \/ Status \/ Save
         \/ Fail \/ ListStarted \/ Return \/ ModelFails \/ BeginFiles
  PROVE  Quietly
<1>1. Idle.op = "idle" /\ Idle.feed = NULL /\ Idle.cursor = NULL
  BY DEF Idle
<1>2. now \in Nat /\ now <= now
  BY DEF TypeInv, WellTyped, ClockTyped
<1>3. CASE Tick \/ \E a \in Assets : (\E st \in {"active", "paused"} : AddAsset(a, st)) \/ RemoveAsset(a)
  <2>1. /\ UNCHANGED <<feeds, keys, last, model, bars, decided, disk, call>> /\ call = Idle
        /\ now' = now \/ now' = now + 1
    BY <1>3 DEF Tick, AddAsset, RemoveAsset, memory
  <2> QED
    BY <1>1, <1>2, <2>1 DEF Quietly, Fetched, Batching
<1>4. ASSUME NEW op, NEW todo, NEW max, Begin(op, todo, max), op # "down",
             \/ op \in {"idle", "status", "save", "write"}
             \/ op \in {"step", "warmup", "start"} /\ ~model.active
             \/ op = "step" /\ "one" \in setting.calls
             \/ op \in {"batch", "batchwarmup", "modelstart"} /\ model.active,
             op \in {"warmup", "batchwarmup"} => "warmup" \in setting.calls
      PROVE  Quietly
  <2>1. /\ call = Idle /\ call' = [Idle EXCEPT !.op = op, !.todo = todo, !.max = max]
        /\ UNCHANGED <<now, memory, writing, disk>>
    BY <1>4 DEF Begin
  <2>2. call'.op = op /\ call'.feed = NULL /\ call'.cursor = NULL
    BY <2>1 DEF Idle
  <2> QED
    BY <1>1, <1>2, <1>4, <2>1, <2>2 DEF Quietly, Fetched, Batching, memory
<1>5. CASE \/ \E max \in PollSizes : Poll(max) \/ \E a \in Assets : StepOne(a, max)
           \/ Start \/ Warmup \/ Status \/ Save
  <2>1. ASSUME NEW max \in PollSizes, Poll(max) PROVE Quietly
    BY <1>4, <2>1 DEF Poll, BeginAll
  <2>2. ASSUME NEW max \in PollSizes, NEW a \in Assets, StepOne(a, max) PROVE Quietly
    BY <1>4, <2>2 DEF StepOne, Administrative
  <2>3. CASE Start
    BY <1>4, <2>3 DEF Start, BeginAll
  <2>4. CASE Warmup
    BY <1>4, <2>4 DEF Warmup, BeginAll, Administrative
  <2>5. CASE Status
    BY <1>4, <2>5 DEF Status
  <2>6. CASE Save
    <3>1. /\ call = Idle /\ UNCHANGED <<now, memory, writing, disk>>
          /\ call'.op = "save" /\ call'.feed = NULL /\ call'.cursor = NULL
      BY <2>6 DEF Save, Idle
    <3> QED
      BY <1>1, <1>2, <3>1 DEF Quietly, Fetched, Batching, memory
  <2> QED
    BY <1>5, <2>1, <2>2, <2>3, <2>4, <2>5, <2>6
<1>6. CASE Fail \/ Return \/ ModelFails
  <2>1. call' = Idle /\ UNCHANGED <<now, memory, writing, disk>>
    BY <1>6 DEF Fail, Return, ModelFails
  <2>2. call.op \notin {"write", "down"}
    BY <1>6 DEF TypeInv, Shape, CallShape, Fail, Return, ModelFails
  <2>3. ~Fetched /\ ~Batching
    BY <1>6 DEF TypeInv, Shape, FetchShape, BatchShape, Fetched, Batching, Fail, Return, ModelFails
  <2> QED
    BY <1>1, <1>2, <2>1, <2>2, <2>3 DEF Quietly, Fetched, Batching, memory
<1>7. CASE BeginFiles
  <2>1. /\ call.op = "save" /\ UNCHANGED <<now, memory, disk>>
        /\ call' = [Idle EXCEPT !.op = "write", !.last = call.last]
    BY <1>7 DEF BeginFiles
  <2>2. call'.op = "write" /\ call'.feed = NULL /\ call'.cursor = NULL
    BY <2>1 DEF Idle
  <2>3. ~Fetched /\ ~Batching
    BY <2>1 DEF TypeInv, Shape, FetchShape, BatchShape
  <2> QED
    BY <1>2, <2>1, <2>2, <2>3 DEF Quietly, Fetched, Batching, memory
<1>8. CASE ListStarted
  <2>1. /\ call.op = "start" /\ call'.op = "status" /\ call'.feed = NULL /\ call'.cursor = NULL
        /\ UNCHANGED <<now, memory, writing, disk>>
    BY <1>8 DEF ListStarted, Idle
  <2>2. ~Fetched /\ ~Batching
    BY <2>1 DEF TypeInv, Shape, FetchShape, BatchShape
  <2> QED
    BY <1>2, <2>1, <2>2 DEF Quietly, Fetched, Batching, memory
<1> QED
  BY <1>3, <1>5, <1>6, <1>7, <1>8

LEMMA Placing ==
  ASSUME TypeInv, setting' = setting,
         \/ \E a \in Assets, tf \in setting.timeframes, mode \in setting.modes :
              Configure(a, tf, mode) \/ \E start \in {NULL, 0, 1} : Reset(a, tf, mode, start)
         \/ TouchFeed \/ StartFeed
  PROVE  \E a \in Assets, f \in FeedRows(setting) : Placed(a, f)
<1>1. Idle.op = "idle" /\ Idle.feed = NULL /\ Idle.cursor = NULL
  BY DEF Idle
<1>2. setting \in Settings /\ FeedsTyped /\ ClockTyped /\ CallTyped
  BY DEF TypeInv, WellTyped, Shape
<1>3. ASSUME NEW a \in Assets, NEW tf \in setting.timeframes, NEW mode \in setting.modes, Configure(a, tf, mode)
      PROVE  \E b \in Assets, f \in FeedRows(setting) : Placed(b, f)
  <2> DEFINE previous == Inherited(a)
             f == [tf |-> tf, mode |-> mode, start |-> NULL, cursor |-> previous.cursor,
                   price |-> IF previous.price = NULL THEN a ELSE previous.price]
  <2>1. previous.cursor \in Cursors /\ previous.price \in Assets \cup {NULL}
    BY <1>2, InheritedIs
  <2>2. /\ StoreFeed(a, f) /\ call = Idle
        /\ UNCHANGED <<now, model, bars, decided, call, disk>>
    BY <1>3 DEF Configure
  <2>3. f.start = NULL /\ f.cursor = Inherited(a).cursor
    OBVIOUS
  <2> HIDE DEF previous
  <2>4. f \in FeedRows(setting)
    BY <2>1 DEF FeedRows, Cursors, Assets
  <2> HIDE DEF f
  <2>5. Placed(a, f)
    BY <1>1, <2>2, <2>3, <2>4 DEF Placed, Fetched, Batching
  <2> QED
    BY <2>4, <2>5
<1>4. ASSUME NEW a \in Assets, NEW tf \in setting.timeframes, NEW mode \in setting.modes,
             NEW start \in {NULL, 0, 1}, Reset(a, tf, mode, start)
      PROVE  \E b \in Assets, f \in FeedRows(setting) : Placed(b, f)
  <2> DEFINE f == [tf |-> tf, mode |-> mode, start |-> start, cursor |-> NULL, price |-> a]
  <2>1. /\ StoreFeed(a, f) /\ call = Idle /\ "reset" \in setting.calls
        /\ UNCHANGED <<now, model, bars, decided, call, disk>>
    BY <1>4 DEF Reset, Administrative
  <2>2. f \in FeedRows(setting)
    BY DEF FeedRows, Cursors, Assets
  <2> HIDE DEF f
  <2>3. Placed(a, f)
    BY <1>1, <2>1, <2>2 DEF Placed, Fetched, Batching
  <2> QED
    BY <2>2, <2>3
<1>5. CASE TouchFeed \/ StartFeed
  <2>1. /\ call.todo # <<>> /\ call.feed = NULL /\ WalkOn
        /\ UNCHANGED <<now, model, bars, decided, disk>>
    BY <1>5 DEF TouchFeed, StartFeed, Walking
  <2>2. Key \in Assets
    BY <1>2, <2>1, WalkedKey
  <2> DEFINE s == Selected(Key)
             c == CursorOf(s.cursor, s.start, s.tf)
             g == [s EXCEPT !.cursor = c]
  <2>3. s \in FeedRows(setting) /\ s.tf \in Spans /\ s.cursor \in Cursors /\ s.start \in Cursors
    <3>1. s \in FeedRows(setting) /\ s.tf \in Spans
      BY <1>2, <2>2, SelectedIs
    <3> QED
      BY <3>1 DEF FeedRows
  <2>4. \/ StoreFeed(Key, s)
        \/ StoreFeed(Key, g) /\ call.op = "start"
    BY <1>5 DEF TouchFeed, StartFeed, Walking
  <2>5. s = Selected(Key)
    OBVIOUS
  <2> HIDE DEF s
  <2>6. c \in Int
    BY <1>2, <2>3, CursorIs
  <2>7. g \in FeedRows(setting) /\ g.start = s.start /\ g.cursor = c
    BY <2>3, <2>6 DEF FeedRows, Cursors
  <2>8. /\ call'.op = call.op /\ call'.feed = NULL /\ call'.cursor = call.cursor
    BY <1>2, <2>1 DEF WalkOn, CallTyped
  <2>9. ~Fetched /\ ~Fetched' /\ ~Batching /\ ~Batching' /\ call.op \notin {"write", "down"}
    <3>1. ~Batching /\ call.op \notin {"write", "down"}
      BY <2>1 DEF TypeInv, Shape, BatchShape, CallShape
    <3> QED
      BY <2>1, <2>8, <3>1 DEF Fetched, Batching
  <2>10. CASE StoreFeed(Key, s)
    <3>1. Placed(Key, s)
      BY <2>1, <2>2, <2>3, <2>5, <2>8, <2>9, <2>10 DEF Placed
    <3> QED
      BY <2>2, <2>3, <3>1
  <2>11. CASE StoreFeed(Key, g) /\ call.op = "start"
    <3>1. g.cursor = CursorOf(Selected(Key).cursor, Selected(Key).start, Selected(Key).tf)
          /\ g.start = Selected(Key).start
      BY <2>5, <2>7
    <3> HIDE DEF g, c
    <3>2. Placed(Key, g)
      BY <2>1, <2>2, <2>7, <2>8, <2>9, <2>11, <3>1 DEF Placed
    <3> QED
      BY <2>2, <2>7, <3>2
  <2> QED
    BY <2>4, <2>10, <2>11
<1> QED
  BY <1>3, <1>4, <1>5

LEMMA Kinds ==
  ASSUME TypeInv, Next
  PROVE  \/ Quietly
         \/ \E a \in Assets, f \in FeedRows(setting) : Placed(a, f)
         \/ Switched
         \/ FetchFeed \/ FetchHistory \/ ProcessBar \/ EndFeed
         \/ StartModel \/ PlanBatches \/ ProcessBatch \/ EndBatches
         \/ WriteFile \/ Crash \/ Load
<1>1. (Turn \/ Crash) /\ setting' = setting
  BY DEF Next
<1>2. CASE \/ Tick
           \/ \E a \in Assets : (\E st \in {"active", "paused"} : AddAsset(a, st)) \/ RemoveAsset(a)
           \/ \E max \in PollSizes : Poll(max) \/ \E a \in Assets : StepOne(a, max)
           \/ Start \/ Warmup \/ Status \/ Save
           \/ Fail \/ ListStarted \/ Return \/ ModelFails \/ BeginFiles
  BY <1>1, <1>2, Quiet
<1>3. CASE \/ \E a \in Assets, tf \in setting.timeframes, mode \in setting.modes :
                Configure(a, tf, mode) \/ \E start \in {NULL, 0, 1} : Reset(a, tf, mode, start)
           \/ TouchFeed \/ StartFeed
  BY <1>1, <1>3, Placing
<1>4. CASE \E on, whole \in BOOLEAN : ConfigureModel(on, whole)
  <2>1. Idle.op = "idle"
    BY DEF Idle
  <2> QED
    BY <1>1, <1>4, <2>1 DEF ConfigureModel, Switched, Administrative
<1> QED
  BY <1>1, <1>2, <1>3, <1>4 DEF Turn, Continue

(* No step turns the clock back. *)
LEMMA PassingTime ==
  ASSUME TypeInv, [Next]_vars
  PROVE  now <= now'
<1>1. now \in Nat /\ now <= now
  BY DEF TypeInv, WellTyped, ClockTyped
<1>2. CASE UNCHANGED vars
  BY <1>1, <1>2 DEF vars
<1>3. CASE Next
  <2>1. CASE FetchFeed \/ FetchHistory \/ ProcessBar \/ EndFeed
    BY <1>1, <2>1 DEF FetchFeed, FetchHistory, ProcessBar, EndFeed
  <2>2. CASE StartModel \/ PlanBatches \/ ProcessBatch \/ EndBatches
    BY <1>1, <2>2 DEF StartModel, PlanBatches, ProcessBatch, EndBatches
  <2>3. CASE WriteFile \/ Crash \/ Load
    BY <1>1, <2>3 DEF WriteFile, Crash, Load
  <2>4. CASE Quietly \/ Switched \/ \E a \in Assets, f \in FeedRows(setting) : Placed(a, f)
    BY <1>1, <2>4 DEF Quietly, Switched, Placed
  <2> QED
    BY <1>3, <2>1, <2>2, <2>3, <2>4, Kinds
<1> QED
  BY <1>2, <1>3

-----------------------------------------------------------------------------
(* What exchange$feed was when a save began. *)
LEMMA LastIs ==
  ASSUME TypeInv, [Next]_vars
  PROVE  \/ call'.last \in {NoFeed, call.last}
         \/ call = Idle /\ call'.last = last /\ UNCHANGED <<model, last, feeds>>
<1>1. CallTyped /\ Idle.last = NoFeed
  BY DEF TypeInv, WellTyped, Idle
<1>2. CASE UNCHANGED vars
  BY <1>2 DEF vars
<1>3. CASE Next
  <2>1. Turn \/ Crash
    BY <1>3 DEF Next
  <2>2. CASE \/ Tick
             \/ \E a \in Assets : (\E st \in {"active", "paused"} : AddAsset(a, st)) \/ RemoveAsset(a)
             \/ \E a \in Assets, tf \in setting.timeframes, mode \in setting.modes :
                  Configure(a, tf, mode) \/ \E start \in {NULL, 0, 1} : Reset(a, tf, mode, start)
             \/ \E on, whole \in BOOLEAN : ConfigureModel(on, whole)
    <3>1. call' = call
      BY <2>2 DEF Tick, AddAsset, RemoveAsset, Configure, Reset, ConfigureModel
    <3> QED
      BY <3>1
  <2>3. ASSUME NEW op, NEW todo, NEW max, Begin(op, todo, max)
        PROVE  call'.last = NoFeed
    <3>1. call' = [Idle EXCEPT !.op = op, !.todo = todo, !.max = max]
      BY <2>3 DEF Begin
    <3> QED
      BY <3>1 DEF Idle
  <2>4. CASE \/ \E max \in PollSizes : Poll(max) \/ \E a \in Assets : StepOne(a, max)
             \/ Start \/ Warmup \/ Status
    BY <2>3, <2>4 DEF Poll, StepOne, Start, Warmup, Status, BeginAll
  <2>5. CASE Save
    <3>1. call = Idle /\ call'.last = last /\ UNCHANGED <<model, last, feeds>>
      BY <2>5 DEF Save, Idle, memory
    <3> QED
      BY <3>1
  <2>6. CASE Fail \/ Return \/ ModelFails \/ EndBatches \/ Load
    BY <1>1, <2>6 DEF Fail, Return, ModelFails, EndBatches, Load
  <2>7. CASE ListStarted \/ BeginFiles \/ Crash
    BY <2>7 DEF ListStarted, BeginFiles, Crash, Idle
  <2>8. CASE WriteFile
    BY <1>1, <2>8 DEF WriteFile
  <2>9. CASE TouchFeed \/ StartFeed \/ EndFeed
    BY <1>1, <2>9 DEF TouchFeed, StartFeed, EndFeed, WalkOn, CallTyped
  <2>10. CASE FetchFeed \/ FetchHistory \/ ProcessBar \/ StartModel \/ PlanBatches \/ ProcessBatch
    <3>1. setting' = setting
      BY <1>3 DEF Next
    <3> QED
      BY <1>1, <2>10, <3>1, LastKept
  <2> QED
    BY <2>1, <2>2, <2>4, <2>5, <2>6, <2>7, <2>8, <2>9, <2>10 DEF Turn, Continue
<1> QED
  BY <1>2, <1>3

-----------------------------------------------------------------------------
(* Torn saves. *)

LEMMA TornInit ==
  Init => TornInv
<1> SUFFICES ASSUME Init PROVE TornInv
  OBVIOUS
<1>1. torn = FALSE /\ call.op = "idle" /\ \A f \in FileNames : ~Saved(f)
  BY FilesAre DEF Init, Idle, Saved
<1> QED
  BY <1>1 DEF TornInv

LEMMA TornNext ==
  ASSUME TypeInv, TornInv, [Next]_vars
  PROVE  TornInv' /\ (torn => torn')
<1>1. CallTyped /\ torn \in BOOLEAN
  BY DEF TypeInv, WellTyped, TornInv
<1>2. CASE UNCHANGED vars
  <2>1. UNCHANGED <<setting, torn, call, disk>>
    BY <1>2 DEF vars
  <2> QED
    BY <2>1 DEF TornInv, Saved, Complete, MayTear
<1>3. CASE Next
  <2>1. setting' = setting /\ (torn' = torn \/ Crash) /\ (MayTear' <=> MayTear)
    BY <1>3 DEF Next, MayTear
  <2>2. ASSUME ~Crash, disk' = disk, call.op \notin {"write", "down"}, call'.op # "down"
        PROVE  TornInv' /\ (torn => torn')
    BY <2>1, <2>2 DEF TornInv, Saved
  <2>3. CASE Crash
    <3>1. /\ call'.op = "down" /\ disk' = disk
          /\ torn' = torn \/ (MayTear /\ torn' = (torn \/ ~Clocked))
      BY <2>1, <2>3, CrashIs
    <3>2. torn' \in BOOLEAN /\ (torn' => MayTear) /\ (torn => torn')
      <4>1. CASE torn' = torn
        BY <4>1 DEF TornInv
      <4>2. CASE MayTear /\ torn' = (torn \/ ~Clocked)
        <5>1. CASE torn \/ ~Clocked
          BY <4>2, <5>1
        <5>2. CASE ~(torn \/ ~Clocked)
          BY <4>2, <5>2
        <5> QED
          BY <5>1, <5>2
      <4> QED
        BY <3>1, <4>1, <4>2
    <3>3. ~torn' => /\ ~torn /\ Complete'
                    /\ (call.op = "idle" \/ (call.op = "write" /\ Clocked))
      BY <2>1, <2>3, WholeCrash
    <3>4. Complete' => Saved("feed_configs")'
      BY DEF Complete, FileNames
    <3> QED
      BY <2>1, <3>1, <3>2, <3>3, <3>4 DEF TornInv
  <2>4. CASE Load /\ ~Crash
    <3>1. call.op = "down" /\ disk' = disk /\ call'.op = "idle"
      BY <2>4 DEF Load, Idle
    <3>2. Complete => Saved("feed_configs")
      BY DEF Complete, FileNames
    <3> QED
      BY <2>1, <2>4, <3>1, <3>2 DEF TornInv, Saved
  <2>5. CASE WriteFile /\ ~Crash
    <3>1. call'.op = "write"
            \/ (call'.op = "idle" /\ \A f \in FileNames : disk'[f] = Content[f])
      BY <2>1, <2>5, WrittenIs DEF Idle
    <3>2. "feed_configs" \in FileNames /\ \A f \in FileNames : Content[f] # NULL
      BY ContentIs DEF FileNames, TypeInv, Shape
    <3> QED
      BY <2>1, <2>5, <3>1, <3>2 DEF TornInv, Saved
  <2>6. CASE /\ Quietly \/ Switched \/ \E a \in Assets, f \in FeedRows(setting) : Placed(a, f)
             /\ ~Crash
    BY <2>2, <2>6 DEF Quietly, Switched, Placed
  <2>7. CASE /\ FetchFeed \/ FetchHistory \/ ProcessBar \/ EndFeed
                  \/ StartModel \/ PlanBatches \/ ProcessBatch \/ EndBatches
             /\ ~Crash
    <3>1. disk' = disk /\ call.op \notin {"write", "down"}
      BY <2>7 DEF FetchFeed, FetchHistory, ProcessBar, EndFeed, StartModel, PlanBatches, ProcessBatch,
                  EndBatches, Walking
    <3>2. CASE FetchFeed \/ FetchHistory
      <4>1. call'.op = call.op
        BY <2>1, <3>2, FetchIs, FetchHistoryIs DEF FetchedFrom
      <4> QED
        BY <2>2, <2>7, <3>1, <4>1
    <3>3. CASE PlanBatches
      <4>1. call'.op = call.op
        BY <2>1, <3>3, PlannedIs
      <4> QED
        BY <2>2, <2>7, <3>1, <4>1
    <3>4. CASE ProcessBar \/ EndFeed \/ StartModel \/ ProcessBatch \/ EndBatches
      <4>1. call'.op # "down"
        <5>1. Idle.op = "idle"
          BY DEF Idle
        <5>2. CASE ProcessBar \/ EndBatches
          BY <1>1, <3>1, <5>1, <5>2 DEF ProcessBar, EndBatches, CallTyped
        <5>3. CASE EndFeed \/ StartModel
          BY <1>1, <3>1, <5>3 DEF EndFeed, StartModel, WalkOn, CallTyped
        <5>4. CASE ProcessBatch
          BY <1>1, <3>1, <5>1, <5>4 DEF ProcessBatch, CallTyped
        <5> QED
          BY <3>4, <5>2, <5>3, <5>4
      <4> QED
        BY <2>2, <2>7, <3>1, <4>1
    <3> QED
      BY <2>7, <3>2, <3>3, <3>4
  <2> QED
    BY <1>3, <2>3, <2>4, <2>5, <2>6, <2>7, Kinds
<1> QED
  BY <1>2, <1>3

(* In every installation the clocks, feeds, logs, calls and files keep the *)
(* form the code relies on: feeds and their names agree, what is on disk   *)
(* can be loaded, a call never asks for a feed that is not there.          *)
THEOREM ClockIsWellFormed == Spec => []TypeOK
<1>1. Init => TypeInv /\ TornInv
  BY TypedInit, TornInit
<1>2. TypeInv /\ TornInv /\ [Next]_vars => (TypeInv /\ TornInv)'
  BY TypedNext, TornNext
<1>3. TypeInv /\ TornInv => TypeOK
  BY TypedIs DEF TypeInv, TornInv
<1> QED
  BY <1>1, <1>2, <1>3, PTL DEF Spec

-----------------------------------------------------------------------------
(* What agents have been shown. *)

(* The starts are those of the live bars of a log, whatever bars there are. *)
Seen(S, log, starts) ==
  LET live == Among(log, {b \in S : b.live})
  IN starts = [i \in DOMAIN live |-> live[i].from]

LEMMA ShownMore ==
  ASSUME NEW log \in Seq(Bars(setting)), NEW starts \in Seq(Int), NEW b \in Bars(setting), Seen(Bars(setting), log, starts)
  PROVE  Seen(Bars(setting), Append(log, b), IF b.live THEN Append(starts, b.from) ELSE starts)
<1> DEFINE M == {c \in Bars(setting) : c.live}
           l == Among(log, M)
           more == Append(log, b)
<1>1. Among(more, M) = IF b \in M THEN Append(l, b) ELSE l
  BY AmongAppend
<1>2. l \in Seq(Bars(setting))
  <2>1. Keeps(log, M, l)
    BY AmongKeeps
  <2>2. l \in Seq(ToSet(log) \cap M) /\ ToSet(log) \cap M \subseteq Bars(setting)
    BY <2>1 DEF Keeps
  <2> HIDE DEF l, M
  <2> QED
    BY <2>2, SeqMonotonic
<1>3. starts = [i \in DOMAIN l |-> l[i].from]
  BY DEF Seen
<1>4. (b \in M <=> b.live) /\ b.from \in Int
  BY DEF Bars
<1>5. Seen(Bars(setting), more, IF b.live THEN Append(starts, b.from) ELSE starts) <=>
        (IF b.live THEN Append(starts, b.from) ELSE starts) = [i \in DOMAIN Among(more, M) |-> Among(more, M)[i].from]
  BY DEF Seen
<1> HIDE DEF l, M, more
<1>6. CASE ~b.live
  BY <1>1, <1>3, <1>4, <1>5, <1>6 DEF more
<1>7. CASE b.live
  <2> DEFINE k == Append(l, b)
             t == Append(starts, b.from)
  <2>1. /\ DOMAIN k = 1 .. Len(l) + 1 /\ (\A i \in DOMAIN l : k[i] = l[i]) /\ k[Len(l) + 1] = b
    BY <1>2, Appended
  <2>2. /\ t \in Seq(Int) /\ DOMAIN t = 1 .. Len(starts) + 1
        /\ (\A i \in DOMAIN starts : t[i] = starts[i]) /\ t[Len(starts) + 1] = b.from
    BY <1>4, Appended
  <2>3. DOMAIN l = 1 .. Len(l) /\ Len(l) \in Nat /\ DOMAIN starts = 1 .. Len(starts) /\ Len(starts) \in Nat
    BY <1>2, Elements
  <2>4. DOMAIN starts = DOMAIN l
    BY <1>3
  <2>5. Len(starts) = Len(l)
    <3> DEFINE m == Len(starts)
               n == Len(l)
    <3>1. m \in Nat /\ n \in Nat /\ 1 .. m = 1 .. n
      BY <2>3, <2>4
    <3> HIDE DEF m, n
    <3>2. m = n
      BY <3>1
    <3> QED
      BY <3>2 DEF m, n
  <2>6. t = [i \in 1 .. Len(starts) + 1 |-> t[i]]
    <3> HIDE DEF t
    <3>1. t = [i \in DOMAIN t |-> t[i]]
      BY <2>2
    <3> QED
      BY <2>2, <3>1
  <2> HIDE DEF k, t
  <2>7. \A i \in DOMAIN k : t[i] = k[i].from
    <3> SUFFICES ASSUME NEW i \in DOMAIN k PROVE t[i] = k[i].from
      OBVIOUS
    <3>1. CASE i \in DOMAIN l
      BY <1>3, <2>1, <2>2, <2>4, <3>1
    <3>2. CASE i \notin DOMAIN l
      <4>1. i = Len(l) + 1
        BY <2>1, <2>3, <3>2
      <4> QED
        BY <2>1, <2>2, <2>5, <4>1
    <3> QED
      BY <3>1, <3>2
  <2>8. t = [i \in DOMAIN k |-> k[i].from]
    BY <2>1, <2>5, <2>6, <2>7
  <2> QED
    BY <1>1, <1>4, <1>5, <1>7, <2>8 DEF k, t, more
<1> QED
  BY <1>6, <1>7

LEMMA NothingShown ==
  Seen(Bars(setting), <<>>, <<>>)
<1>1. Among(<<>>, {b \in Bars(setting) : b.live}) = <<>>
  BY AmongNone
<1>2. <<>> = [i \in DOMAIN <<>> |-> <<>>[i].from]
  OBVIOUS
<1> QED
  BY <1>1, <1>2 DEF Seen

(* The agents have been shown the log, in memory and on a disk that is not *)
(* being written.                                                          *)
ShownInv ==
  setting.closed = {} /\ ~MayTear =>
    /\ \A a \in Assets : Seen(Bars(setting), bars[a], decided[a])
    /\ call.op # "write" /\ Complete =>
         \A a \in Assets : Seen(Bars(setting), disk["market_events"][a], disk["agent_decisions"][a])

LEMMA ShownInit ==
  Init => ShownInv
<1> SUFFICES ASSUME Init PROVE ShownInv
  OBVIOUS
<1>1. \A a \in Assets : bars[a] = <<>> /\ decided[a] = <<>>
  BY DEF Init, New
<1>2. ~Complete
  BY FilesAre DEF Init, Complete, Saved, FileNames
<1> QED
  BY <1>1, <1>2, NothingShown DEF ShownInv

LEMMA ShownNext ==
  ASSUME TypeInv, TornInv, ShownInv, [Next]_vars
  PROVE  ShownInv'
<1> SUFFICES ASSUME setting.closed = {}, ~MayTear, setting' = setting
             PROVE  /\ \A a \in Assets : Seen(Bars(setting), bars'[a], decided'[a])
                    /\ call'.op # "write" /\ Complete' =>
                         \A a \in Assets : Seen(Bars(setting), disk'["market_events"][a], disk'["agent_decisions"][a])
  <2>1. setting' = setting
    BY DEF Next, vars
  <2>2. Assets' = Assets /\ (MayTear' <=> MayTear)
    BY <2>1, AssetsStay DEF MayTear
  <2> QED
    BY <2>1, <2>2 DEF ShownInv
<1>1. /\ \A a \in Assets : Seen(Bars(setting), bars[a], decided[a])
      /\ call.op # "write" /\ Complete =>
           \A a \in Assets : Seen(Bars(setting), disk["market_events"][a], disk["agent_decisions"][a])
  BY DEF ShownInv
<1>2. /\ setting \in Settings /\ LogsTyped /\ CallTyped /\ WellTyped
      /\ \A a \in Assets : bars[a] \in Seq(Bars(setting)) /\ decided[a] \in Seq(Int)
  BY DEF TypeInv, WellTyped, Shape, LogsTyped
<1>3. ASSUME UNCHANGED <<bars, decided, disk>>, call'.op # "write" => call.op # "write"
      PROVE  /\ \A a \in Assets : Seen(Bars(setting), bars'[a], decided'[a])
             /\ call'.op # "write" /\ Complete' =>
                  \A a \in Assets : Seen(Bars(setting), disk'["market_events"][a], disk'["agent_decisions"][a])
  BY <1>1, <1>3 DEF Complete, Saved
<1>4. ASSUME UNCHANGED disk, call.op # "write"
      PROVE  call'.op # "write" /\ Complete' =>
               \A a \in Assets : Seen(Bars(setting), disk'["market_events"][a], disk'["agent_decisions"][a])
  BY <1>1, <1>4 DEF Complete, Saved
<1>5. CASE UNCHANGED vars
  BY <1>3, <1>5 DEF vars, memory
<1>6. CASE Quietly
  BY <1>3, <1>6 DEF Quietly
<1>7. CASE \E a \in Assets, f \in FeedRows(setting) : Placed(a, f)
  BY <1>3, <1>7 DEF Placed
<1>8. CASE Switched
  BY <1>3, <1>8 DEF Switched
<1>9. CASE FetchFeed \/ FetchHistory \/ EndFeed
  BY <1>3, <1>9 DEF FetchFeed, FetchHistory, EndFeed, Walking
<1>10. CASE StartModel \/ PlanBatches \/ EndBatches
  BY <1>3, <1>10 DEF StartModel, PlanBatches, EndBatches, memory
<1>11. CASE ProcessBar
  <2> DEFINE b == Head(call.bars)
  <2>1. /\ call.bars # <<>> /\ call.feed # NULL /\ call.op # "write" /\ disk' = disk
        /\ ShowToAgents({Key}, b)
        /\ ~Refused(b) => bars' = [bars EXCEPT ![Key] = Append(@, b)]
    BY <1>11 DEF ProcessBar
  <2>2. ~Refused(b)
    BY DEF Refused
  <2>3. b \in Bars(setting)
    BY <1>2, <2>1, NextBar
  <2> HIDE DEF b
  <2>4. \A a \in Assets : decided'[a] = IF b.live /\ a \in {Key} THEN Append(decided[a], b.from) ELSE decided[a]
    BY <1>2, <2>1, <2>3, ShownIs
  <2>5. \A a \in Assets : bars'[a] = IF a = Key THEN Append(bars[a], b) ELSE bars[a]
    BY <1>2, <2>1, <2>2 DEF LogsTyped
  <2>6. ASSUME NEW a \in Assets PROVE Seen(Bars(setting), bars'[a], decided'[a])
    <3>1. CASE a # Key
      BY <1>1, <2>4, <2>5, <3>1
    <3>2. CASE a = Key
      <4>1. Seen(Bars(setting), Append(bars[a], b), IF b.live THEN Append(decided[a], b.from) ELSE decided[a])
        BY <1>1, <1>2, <2>3, ShownMore
      <4>2. bars'[a] = Append(bars[a], b) /\ decided'[a] = IF b.live THEN Append(decided[a], b.from) ELSE decided[a]
        BY <2>4, <2>5, <3>2
      <4> QED
        BY <4>1, <4>2
    <3> QED
      BY <3>1, <3>2
  <2> QED
    BY <1>4, <2>1, <2>6
<1>12. CASE ProcessBatch
  <2> DEFINE b == Head(call.bars)
  <2>1. call.op # "write" /\ disk' = disk
    BY <1>12 DEF ProcessBatch
  <2>2. ~Refused(b)
    BY DEF Refused
  <2>3. /\ b \in Bars(setting)
        /\ \A a \in Assets : decided'[a] = IF b.live /\ a \in Requested THEN Append(decided[a], b.from)
                                           ELSE decided[a]
        /\ \A a \in Assets \ Requested : bars'[a] = bars[a]
        /\ \A a \in Requested : \E price \in Assets : bars'[a] = Append(bars[a], [b EXCEPT !.open = price])
    BY <1>12, <2>2, BatchedIs
  <2> HIDE DEF b
  <2>4. ASSUME NEW a \in Assets PROVE Seen(Bars(setting), bars'[a], decided'[a])
    <3>1. CASE a \notin Requested
      BY <1>1, <2>3, <3>1
    <3>2. CASE a \in Requested
      <4>1. PICK price \in Assets : bars'[a] = Append(bars[a], [b EXCEPT !.open = price])
        BY <2>3, <3>2
      <4> DEFINE e == [b EXCEPT !.open = price]
      <4>2. e \in Bars(setting) /\ e.live = b.live /\ e.from = b.from
        BY <2>3 DEF Bars, Assets
      <4> HIDE DEF e
      <4>3. Seen(Bars(setting), Append(bars[a], e), IF e.live THEN Append(decided[a], e.from) ELSE decided[a])
        BY <1>1, <1>2, <4>2, ShownMore
      <4>4. bars'[a] = Append(bars[a], e) /\ decided'[a] = IF e.live THEN Append(decided[a], e.from) ELSE decided[a]
        BY <2>3, <3>2, <4>1, <4>2 DEF e
      <4> QED
        BY <4>3, <4>4
    <3> QED
      BY <3>1, <3>2
  <2> QED
    BY <1>4, <2>1, <2>4
<1>13. CASE WriteFile
  <2>1. UNCHANGED memory
    BY <1>13 DEF WriteFile
  <2>2. /\ Content["market_events"] = bars /\ Content["agent_decisions"] = decided
    BY <1>2, ContentIs
  <2>3. PICK k \in 1 .. 6 :
          /\ call.op = "write"
          /\ k = 6 => \A f \in FileNames : disk'[f] = Content[f]
          /\ k # 6 => call' = call
    BY <1>13, WrittenIs
  <2>4. \A a \in Assets : Seen(Bars(setting), bars'[a], decided'[a])
    BY <1>1, <2>1 DEF memory
  <2>5. CASE k = 6
    BY <1>1, <2>2, <2>3, <2>4, <2>5 DEF FileNames
  <2>6. CASE k # 6
    BY <2>3, <2>4, <2>6
  <2> QED
    BY <2>5, <2>6
<1>14. CASE Crash
  <2>1. AsNew' /\ disk' = disk /\ call.op # "write" /\ New' = New
    <3>1. call.op = "idle" \/ MayTear
      BY <1>14, CrashIs
    <3> QED
      BY <1>14, <3>1, CrashIs
  <2>2. \A a \in Assets : bars'[a] = <<>> /\ decided'[a] = <<>>
    BY <2>1 DEF AsNew, New
  <2>3. \A a \in Assets : Seen(Bars(setting), bars'[a], decided'[a])
    BY <2>2, NothingShown
  <2> QED
    BY <1>4, <2>1, <2>3
<1>15. CASE Load
  <2>1. /\ Complete /\ call.op = "down" /\ disk' = disk
        /\ bars' = disk["market_events"] /\ decided' = disk["agent_decisions"]
    <3>1. ~torn
      BY DEF TornInv
    <3> QED
      BY <1>15, <3>1, LoadIs
  <2> QED
    BY <1>1, <1>4, <2>1
<1> QED
  BY <1>5, <1>6, <1>7, <1>8, <1>9, <1>10, <1>11, <1>12, <1>13, <1>14, <1>15, Kinds

(* In every installation without a strict calendar in which no save is     *)
(* torn, agents have been shown between two calls exactly the live bars of *)
(* the log, each once and in their order, however often the process died,  *)
(* and never the history a warmup makes.                                   *)
THEOREM AgentsSawTheLog == Spec => []DecisionsMatchBars
<1>1. Init => TypeInv /\ TornInv /\ ShownInv
  BY TypedInit, TornInit, ShownInit
<1>2. TypeInv /\ TornInv /\ ShownInv /\ [Next]_vars => (TypeInv /\ TornInv /\ ShownInv)'
  BY TypedNext, TornNext, ShownNext
<1>3. ShownInv => DecisionsMatchBars
  BY DEF ShownInv, DecisionsMatchBars, Shown, Seen
<1> QED
  BY <1>1, <1>2, <1>3, PTL DEF Spec

-----------------------------------------------------------------------------
(* An asset with bars has a feed, in memory and on disk. *)

KeptInv ==
  ~torn =>
    /\ \A a \in Assets : bars[a] # <<>> => feeds[a] # NULL
    /\ Complete =>
         \A a \in Assets : disk["market_events"][a] # <<>> =>
           /\ call.op # "write" => disk["feed_configs"].rows[a] # NULL
           /\ call.op # "down" => bars[a] # <<>>

LEMMA KeptInit ==
  Init => KeptInv
<1> SUFFICES ASSUME Init PROVE KeptInv
  OBVIOUS
<1>1. \A a \in Assets : bars[a] = <<>>
  BY DEF Init, New
<1>2. ~Complete
  BY FilesAre DEF Init, Complete, Saved, FileNames
<1> QED
  BY <1>1, <1>2 DEF KeptInv

LEMMA KeptNext ==
  ASSUME TypeInv, TornInv, KeptInv, [Next]_vars
  PROVE  KeptInv'
<1> SUFFICES ASSUME ~torn, ~torn' PROVE KeptInv'
  BY TornNext DEF KeptInv
<1>1. /\ setting \in Settings /\ setting' = setting /\ Assets' = Assets
      /\ LogsTyped /\ CallTyped /\ WellTyped /\ FeedsTyped
      /\ \A a \in Assets : bars[a] \in Seq(Bars(setting))
  BY AssetsStay DEF TypeInv, WellTyped, Shape, LogsTyped, Next, vars
<1>2. /\ \A a \in Assets : bars[a] # <<>> => feeds[a] # NULL
      /\ Complete =>
           \A a \in Assets : disk["market_events"][a] # <<>> =>
             /\ call.op # "write" => disk["feed_configs"].rows[a] # NULL
             /\ call.op # "down" => bars[a] # <<>>
  BY DEF KeptInv
<1>3. ASSUME UNCHANGED disk, call.op \notin {"write", "down"},
             \A a \in Assets : /\ bars[a] # <<>> => bars'[a] # <<>>
                               /\ bars'[a] # <<>> => feeds'[a] # NULL
      PROVE  KeptInv'
  BY <1>1, <1>2, <1>3 DEF KeptInv, Complete, Saved
<1>4. ASSUME UNCHANGED <<disk, bars>>, call.op \notin {"write", "down"},
             \A a \in Assets : feeds[a] # NULL => feeds'[a] # NULL
      PROVE  KeptInv'
  BY <1>2, <1>3, <1>4
<1>5. CASE UNCHANGED vars
  <2>1. UNCHANGED <<disk, bars, feeds, call>>
    BY <1>5 DEF vars, memory
  <2> QED
    BY <1>1, <1>2, <2>1 DEF KeptInv, Complete, Saved
<1>6. CASE Quietly \/ Switched
  BY <1>4, <1>6 DEF Quietly, Switched
<1>7. ASSUME NEW a \in Assets, NEW f \in FeedRows(setting), StoreFeed(a, f)
      PROVE  \A b \in Assets : feeds[b] # NULL => feeds'[b] # NULL
  <2>1. feeds'[a] = f /\ f # NULL /\ \A b \in Assets : b # a => feeds'[b] = feeds[b]
    BY <1>1, <1>7, StoredFeed, NullIsNone
  <2> QED
    BY <2>1
<1>8. CASE \E a \in Assets, f \in FeedRows(setting) : Placed(a, f)
  BY <1>4, <1>7, <1>8 DEF Placed
<1>9. CASE FetchFeed \/ FetchHistory
  <2>1. call.todo # <<>> /\ call.op \notin {"write", "down"} /\ UNCHANGED <<disk, bars>>
    BY <1>9 DEF FetchFeed, FetchHistory, Walking
  <2>2. Key \in Assets
    BY <1>1, <2>1, WalkedKey
  <2>3. StoreFeed(Key, Selected(Key)) /\ Selected(Key) \in FeedRows(setting)
    BY <1>1, <1>9, <2>2, SelectedIs DEF FetchFeed, FetchHistory
  <2> QED
    BY <1>4, <1>7, <2>1, <2>2, <2>3
<1>10. CASE EndFeed
  <2>1. call.feed # NULL /\ call.op \notin {"write", "down"} /\ UNCHANGED <<disk, bars>> /\ StoreFeed(Key, call.feed)
    BY <1>10 DEF EndFeed
  <2>2. call.todo # <<>>
    BY <2>1 DEF TypeInv, Shape, FetchShape, Fetched
  <2>3. Key \in Assets /\ call.feed \in FeedRows(setting)
    BY <1>1, <2>1, <2>2, WalkedKey, CallIs
  <2> QED
    BY <1>4, <1>7, <2>1, <2>3
<1>11. CASE StartModel \/ PlanBatches \/ EndBatches
  <2>1. UNCHANGED <<disk, bars, feeds>> /\ call.op \notin {"write", "down"}
    BY <1>11 DEF StartModel, PlanBatches, EndBatches, memory
  <2> QED
    BY <1>4, <2>1
<1>12. CASE ProcessBar
  <2> DEFINE b == Head(call.bars)
  <2>1. /\ call.bars # <<>> /\ call.feed # NULL /\ call.op \notin {"write", "down"} /\ UNCHANGED <<disk, feeds>>
        /\ bars' = bars \/ bars' = [bars EXCEPT ![Key] = Append(@, b)]
    BY <1>12 DEF ProcessBar
  <2>2. Contains(keys, Key) /\ call.todo # <<>>
    BY <2>1 DEF TypeInv, Shape, FetchShape, Fetched
  <2>3. Key \in Assets
    BY <1>1, <2>2, WalkedKey
  <2>4. feeds[Key] # NULL
    BY <1>1, <2>2, <2>3 DEF FeedsTyped
  <2>5. b \in Bars(setting)
    BY <1>1, <2>1, NextBar
  <2> HIDE DEF b
  <2>6. Append(bars[Key], b) # <<>>
    BY <1>1, <2>3, <2>5, Appended
  <2>7. \A a \in Assets : bars'[a] = bars[a] \/ (a = Key /\ bars'[a] # <<>>)
    BY <1>1, <2>1, <2>3, <2>6 DEF LogsTyped
  <2> QED
    BY <1>2, <1>3, <2>1, <2>4, <2>7
<1>13. CASE ProcessBatch
  <2> DEFINE b == Head(call.bars)
  <2>1. call.op \notin {"write", "down"} /\ disk' = disk /\ call.cursor # NULL
    BY <1>13 DEF ProcessBatch
  <2>2. /\ b \in Bars(setting) /\ \A a \in Requested : feeds'[a] # NULL
        /\ \A a \in Assets \ Requested : feeds'[a] = feeds[a]
        /\ \/ bars' = bars
           \/ /\ \A a \in Assets \ Requested : bars'[a] = bars[a]
              /\ \A a \in Requested : \E price \in Assets : bars'[a] = Append(bars[a], [b EXCEPT !.open = price])
    BY <1>1, <1>13, BatchedIs
  <2> HIDE DEF b
  <2>3. ASSUME NEW a \in Assets PROVE bars'[a] = bars[a] \/ (a \in Requested /\ bars'[a] # <<>>)
    <3>1. ASSUME NEW price \in Assets PROVE Append(bars[a], [b EXCEPT !.open = price]) # <<>>
      <4> DEFINE e == [b EXCEPT !.open = price]
      <4>1. e \in Bars(setting)
        BY <2>2 DEF Bars, Assets
      <4> HIDE DEF e
      <4>2. Append(bars[a], e) # <<>>
        BY <1>1, <4>1, Appended
      <4> QED
        BY <4>2 DEF e
    <3> QED
      BY <2>2, <3>1
  <2>4. ASSUME NEW a \in Assets, bars'[a] # <<>> PROVE feeds'[a] # NULL
    <3>1. CASE a \in Requested
      BY <2>2, <3>1
    <3>2. CASE a \notin Requested
      BY <1>2, <2>2, <2>3, <2>4, <3>2
    <3> QED
      BY <3>1, <3>2
  <2> QED
    BY <1>3, <2>1, <2>3, <2>4
<1>14. CASE WriteFile
  <2>1. UNCHANGED <<bars, feeds>>
    BY <1>14 DEF WriteFile, memory
  <2>2. /\ Content["market_events"] = bars /\ Content["feed_configs"] = FeedConfigs
        /\ \A a \in Assets : feeds[a] # NULL => FeedConfigs.rows[a] # NULL
    <3>1. \A a \in Assets : feeds[a] # NULL => FeedConfigs.rows[a] # NULL
      <4> SUFFICES ASSUME NEW a \in Assets, feeds[a] # NULL PROVE FeedConfigs.rows[a] # NULL
        OBVIOUS
      <4>1. FeedConfigs.rows[a] = [feeds[a] EXCEPT !.start = NULL] /\ feeds[a] \in FeedRows(setting)
        BY <1>1, ContentIs DEF FeedsTyped
      <4>2. [feeds[a] EXCEPT !.start = NULL] \in FeedRows(setting)
        BY <4>1 DEF FeedRows, Cursors
      <4> QED
        BY <1>1, <4>1, <4>2, NullIsNone
    <3> QED
      BY <1>1, <3>1, ContentIs
  <2>3. PICK k \in 1 .. 6 :
          /\ call.op = "write" /\ disk'[Files[k]] = Content[Files[k]]
          /\ \A i \in 1 .. 6 : i < k => disk'[Files[i]] = Content[Files[i]]
          /\ k = 6 => \A f \in FileNames : disk'[f] = Content[f]
          /\ k # 6 => call' = call
    BY <1>1, <1>14, WrittenIs
  <2>4. disk'["market_events"] = bars
    <3>1. 1 \in 1 .. 6 /\ (k = 1 \/ 1 < k) /\ Files[1] = "market_events"
      BY FilesAre
    <3> QED
      BY <2>2, <2>3, <3>1
  <2>5. call'.op # "write" => disk'["feed_configs"] = FeedConfigs
    BY <2>2, <2>3 DEF FileNames
  <2> QED
    BY <1>1, <1>2, <2>1, <2>2, <2>4, <2>5 DEF KeptInv
<1>15. CASE Crash
  <2>1. /\ AsNew' /\ disk' = disk /\ call'.op = "down" /\ New' = New /\ Complete
        /\ call.op = "idle" \/ (call.op = "write" /\ Clocked)
    BY <1>1, <1>15, CrashIs, WholeCrash
  <2>2. \A a \in Assets : bars'[a] = <<>>
    BY <2>1 DEF AsNew, New
  <2>3. ASSUME NEW a \in Assets, disk["market_events"][a] # <<>>
        PROVE  disk["feed_configs"].rows[a] # NULL
    <3>1. CASE call.op = "idle"
      BY <1>2, <2>1, <2>3, <3>1
    <3>2. CASE call.op = "write" /\ Clocked
      BY <2>3, <3>2 DEF Clocked
    <3> QED
      BY <2>1, <3>1, <3>2
  <2> QED
    BY <1>1, <2>1, <2>2, <2>3 DEF KeptInv
<1>16. CASE Load
  <2>1. /\ Complete /\ call.op = "down" /\ call' = Idle /\ disk' = disk
        /\ bars' = disk["market_events"] /\ feeds' = disk["feed_configs"].rows
    BY <1>1, <1>16, LoadIs
  <2> QED
    BY <1>1, <1>2, <2>1 DEF KeptInv
<1> QED
  BY <1>5, <1>6, <1>8, <1>9, <1>10, <1>11, <1>12, <1>13, <1>14, <1>15, <1>16, Kinds

-----------------------------------------------------------------------------
(* Who may run: where calls are steady, the market model is the one of the *)
(* installation, and so the calls that run are its own.                    *)

ModeInv ==
  ~torn /\ Steady =>
    /\ call.op # "down" => model.active = setting.model
    /\ Saved("market_model") => disk["market_model"].active = setting.model
    /\ call.op \in {"step", "warmup"} /\ ~MayStepAlone => ~setting.model
    /\ call.op \in {"modelstart", "batch", "batchwarmup"} => setting.model
    /\ call.op = "start" /\ setting.model => model.cursor # NULL
    /\ Warming => "warmup" \in setting.calls

LEMMA ModeInit ==
  Init => ModeInv
<1> SUFFICES ASSUME Init PROVE ModeInv
  OBVIOUS
<1>1. call.op = "idle" /\ model.active = setting.model
  BY DEF Init, Idle, New
<1>2. ~Saved("market_model")
  BY FilesAre DEF Init, Saved, FileNames
<1> QED
  BY <1>1, <1>2 DEF ModeInv, Warming

LEMMA ModeNext ==
  ASSUME TypeInv, TornInv, ModeInv, [Next]_vars
  PROVE  ModeInv'
<1> SUFFICES ASSUME Steady, setting' = setting, ~torn, ~torn' PROVE ModeInv'
  BY TornNext DEF ModeInv, Steady, Next, vars
<1>1. /\ setting \in Settings /\ CallTyped /\ WellTyped /\ FeedsTyped /\ ModelTyped /\ ClockTyped
      /\ (MayStepAlone' <=> MayStepAlone) /\ "reset" \notin setting.calls /\ "model" \notin setting.calls
  BY DEF TypeInv, WellTyped, Shape, MayStepAlone, Steady
<1>2. /\ call.op # "down" => model.active = setting.model
      /\ Saved("market_model") => disk["market_model"].active = setting.model
      /\ call.op \in {"step", "warmup"} /\ ~MayStepAlone => ~setting.model
      /\ call.op \in {"modelstart", "batch", "batchwarmup"} => setting.model
      /\ call.op = "start" /\ setting.model => model.cursor # NULL
      /\ Warming => "warmup" \in setting.calls
  BY DEF ModeInv
<1>3. ASSUME UNCHANGED <<model, disk>>, call'.op = call.op
      PROVE  ModeInv'
  BY <1>1, <1>2, <1>3 DEF ModeInv, Warming, Saved
<1>4. ASSUME UNCHANGED disk, model'.active = model.active, call' = Idle, call.op # "down"
      PROVE  ModeInv'
  <2>1. call'.op = "idle"
    BY <1>4 DEF Idle
  <2> QED
    BY <1>1, <1>2, <1>4, <2>1 DEF ModeInv, Warming, Saved
<1>5. CASE UNCHANGED vars
  BY <1>3, <1>5 DEF vars, memory
<1>6. CASE Quietly
  <2>1. model.active = setting.model
    BY <1>2, <1>6 DEF Quietly
  <2>2. /\ UNCHANGED <<model, disk>>
        /\ \/ call'.op \in {"idle", "status", "save", "write"}
           \/ call'.op \in {"step", "warmup", "start"} /\ ~model.active
           \/ call'.op = "step" /\ "one" \in setting.calls
           \/ call'.op \in {"batch", "batchwarmup", "modelstart"} /\ model.active
        /\ call'.op \in {"warmup", "batchwarmup"} => "warmup" \in setting.calls
    BY <1>6 DEF Quietly
  <2>3. call'.op = "step" /\ "one" \in setting.calls /\ ~MayStepAlone => ~setting.model
    BY DEF MayStepAlone
  <2> QED
    BY <1>1, <1>2, <2>1, <2>2, <2>3 DEF ModeInv, Warming, Saved
<1>7. CASE \E a \in Assets, f \in FeedRows(setting) : Placed(a, f)
  BY <1>3, <1>7 DEF Placed
<1>8. CASE Switched
  BY <1>1, <1>8 DEF Switched
<1>9. CASE FetchFeed \/ FetchHistory
  <2>1. UNCHANGED <<model, disk>>
    BY <1>9 DEF FetchFeed, FetchHistory
  <2>2. call'.op = call.op
    BY <1>9, FetchIs, FetchHistoryIs DEF FetchedFrom
  <2> QED
    BY <1>3, <2>1, <2>2
<1>10. CASE EndFeed
  <2>1. UNCHANGED <<model, disk>> /\ call'.op = call.op
    BY <1>1, <1>10 DEF EndFeed, WalkOn, CallTyped
  <2> QED
    BY <1>3, <2>1
<1>11. CASE ProcessBar
  <2>1. UNCHANGED <<model, disk>> /\ call.op # "down" /\ (call' = Idle \/ call'.op = call.op)
    BY <1>1, <1>11 DEF ProcessBar, CallTyped
  <2> QED
    BY <1>3, <1>4, <2>1
<1>12. CASE ProcessBatch
  <2>1. UNCHANGED <<model, disk>> /\ call.op # "down" /\ (call' = Idle \/ call'.op = call.op)
    BY <1>1, <1>12 DEF ProcessBatch, CallTyped
  <2> QED
    BY <1>3, <1>4, <2>1
<1>13. CASE StartModel
  <2>1. /\ call.op = "modelstart" /\ ModelSpecOK(RequestKeys) /\ disk' = disk
        /\ model' = [model EXCEPT !.cursor = ModelCursor]
        /\ call' = [call EXCEPT !.op = "start", !.todo = RequestKeys]
    BY <1>13 DEF StartModel
  <2>2. model'.active = model.active /\ model'.cursor = ModelCursor /\ call'.op = "start"
    BY <1>1, <2>1 DEF ModelTyped, CallTyped
  <2>3. ModelCursor # NULL
    BY <1>1, <2>1, ModelTimeframeIs
  <2> QED
    BY <1>1, <1>2, <2>1, <2>2, <2>3 DEF ModeInv, Warming, Saved
<1>14. CASE PlanBatches
  <2>1. UNCHANGED <<model, disk>> /\ call'.op = call.op
    BY <1>14, PlannedIs DEF PlanBatches, memory
  <2> QED
    BY <1>3, <2>1
<1>15. CASE EndBatches
  <2>1. disk' = disk /\ call' = Idle /\ model' = [model EXCEPT !.cursor = call.cursor] /\ call.op # "down"
    BY <1>15 DEF EndBatches
  <2>2. model'.active = model.active
    BY <1>1, <2>1 DEF ModelTyped
  <2> QED
    BY <1>4, <2>1, <2>2
<1>16. CASE WriteFile
  <2>1. model' = model
    BY <1>16 DEF WriteFile, memory
  <2>2. PICK k \in 1 .. 6 :
          /\ call.op = "write" /\ disk'[Files[k]] = Content[Files[k]]
          /\ \A f \in FileNames : f # Files[k] => disk'[f] = disk[f]
          /\ k = 6 => call' = Idle
          /\ k # 6 => call' = call
    BY <1>1, <1>16, WrittenIs
  <2>3. Content["market_model"] = model /\ "market_model" \in FileNames
    BY <1>1, ContentIs DEF FileNames
  <2>4. disk'["market_model"] = model \/ disk'["market_model"] = disk["market_model"]
    BY <2>2, <2>3
  <2>5. call'.op \in {"idle", "write"}
    BY <2>2 DEF Idle
  <2> QED
    BY <1>1, <1>2, <2>1, <2>2, <2>4, <2>5 DEF ModeInv, Warming, Saved
<1>17. CASE Crash
  <2>1. disk' = disk /\ call'.op = "down"
    BY <1>17, CrashIs
  <2> QED
    BY <1>1, <1>2, <2>1 DEF ModeInv, Warming, Saved
<1>18. CASE Load
  <2>1. Complete /\ call' = Idle /\ disk' = disk /\ model' = disk["market_model"]
    BY <1>18, LoadIs
  <2>2. call'.op = "idle" /\ Saved("market_model")
    BY <2>1 DEF Idle, Complete, FileNames
  <2> QED
    BY <1>1, <1>2, <2>1, <2>2 DEF ModeInv, Warming, Saved
<1> QED
  BY <1>5, <1>6, <1>7, <1>8, <1>9, <1>10, <1>11, <1>12, <1>13, <1>14, <1>15, <1>16, <1>17, <1>18, Kinds

-----------------------------------------------------------------------------
(* Where calls are steady, no feed has a start time left to use, and where *)
(* a warmup may be called, no clock is ahead of the latest boundary.       *)

Present == LatestEnd(DefaultTimeframe)

Warmable == "warmup" \in setting.calls

NotLate(c, l) == c # NULL => c <= l

Fresh(f, warm, l) == f # NULL => f.start = NULL /\ (warm => NotLate(f.cursor, l))

FreshInv ==
  ~torn /\ Steady =>
    /\ \A a \in Assets : Fresh(feeds[a], Warmable, Present)
    /\ Fresh(call.feed, Warmable, Present)
    /\ Warmable => /\ NotLate(last.cursor, Present) /\ NotLate(model.cursor, Present)
                   /\ NotLate(call.cursor, Present) /\ NotLate(call.last.cursor, Present)
                   /\ \A i \in DOMAIN call.bars : NotLate(call.bars[i].to, Present)
    /\ Saved("feed_configs") => \A a \in Assets : Fresh(disk["feed_configs"].rows[a], Warmable, Present)
    /\ Warmable => /\ Saved("feed_status") => NotLate(disk["feed_status"].cursor, Present)
                   /\ Saved("market_model") => NotLate(disk["market_model"].cursor, Present)

LEMMA FreshInit ==
  Init => FreshInv
<1> SUFFICES ASSUME Init PROVE FreshInv
  OBVIOUS
<1>1. /\ \A a \in Assets : feeds[a] = NULL
      /\ last.cursor = NULL /\ model.cursor = NULL /\ call.feed = NULL /\ call.cursor = NULL
      /\ call.last.cursor = NULL /\ call.bars = <<>>
  BY DEF Init, Idle, New, NoFeed
<1>2. \A f \in FileNames : ~Saved(f)
  BY FilesAre DEF Init, Saved
<1>3. DOMAIN call.bars = {}
  BY <1>1
<1> QED
  BY <1>1, <1>2, <1>3 DEF FreshInv, Fresh, NotLate, FileNames

LEMMA PresentMoves ==
  ASSUME ClockTyped, setting \in Settings, now' \in Nat, now <= now'
  PROVE  Present \in Int /\ Present' \in Int /\ Present <= Present'
<1>1. DefaultTimeframe \in Spans
  BY NullIsNone
<1>2. now \in Int /\ now' \in Int
  BY DEF ClockTyped
<1> QED
  BY <1>1, <1>2, Boundary DEF Present, LatestEnd

LEMMA StaysFresh ==
  ASSUME NEW l \in Int, NEW m \in Int, l <= m, NEW warm, NULL \notin Int
  PROVE  /\ \A c \in Cursors : NotLate(c, l) => NotLate(c, m)
         /\ \A f \in FeedRows(setting) \cup {NULL} : Fresh(f, warm, l) => Fresh(f, warm, m)
<1>1. \A c \in Cursors : NotLate(c, l) => NotLate(c, m)
  BY DEF NotLate, Cursors
<1>2. \A f \in FeedRows(setting) \cup {NULL} : f # NULL => f.cursor \in Cursors
  BY DEF FeedRows
<1> QED
  BY <1>1, <1>2 DEF Fresh

LEMMA FreshSelected ==
  ASSUME setting \in Settings, FeedsTyped, ClockTyped, Steady, NEW a \in Assets,
         Fresh(feeds[a], Warmable, Present)
  PROVE  /\ Fresh(Selected(a), Warmable, Present) /\ Selected(a).start = NULL
         /\ Warmable => Selected(a).tf = DefaultTimeframe
         /\ LET c == CursorOf(Selected(a).cursor, Selected(a).start, Selected(a).tf)
            IN Warmable => NotLate(c, Present)
<1>1. /\ Selected(a) \in FeedRows(setting) /\ Selected(a) # NULL
      /\ Selected(a).tf \in Spans /\ Selected(a).tf \in setting.timeframes
      /\ Contains(keys, a) => Selected(a) = feeds[a] /\ feeds[a] # NULL
      /\ ~Contains(keys, a) => Selected(a) = DefaultFeed(a) /\ feeds[a] = NULL
  BY SelectedIs
<1>2. DefaultFeed(a).start = NULL /\ DefaultFeed(a).cursor = NULL
  BY DEF DefaultFeed
<1>3. Fresh(Selected(a), Warmable, Present)
  BY <1>1, <1>2 DEF Fresh, NotLate
<1>4. Selected(a).start = NULL
  BY <1>1, <1>3 DEF Fresh
<1>5. Warmable => Selected(a).tf = DefaultTimeframe
  BY <1>1 DEF Steady, Warmable
<1>6. Selected(a).cursor \in Cursors
  BY <1>1 DEF FeedRows
<1>7. Warmable => NotLate(CursorOf(Selected(a).cursor, Selected(a).start, Selected(a).tf), Present)
  <2>1. LatestEnd(DefaultTimeframe) \in Int
    BY NullIsNone, Ended DEF ClockTyped
  <2> QED
    BY <1>1, <1>3, <1>4, <1>5, <1>6, <2>1 DEF CursorOf, Fresh, NotLate, Present
<1> QED
  BY <1>3, <1>4, <1>5, <1>7

LEMMA FreshNext ==
  ASSUME TypeInv, TypeInv', TornInv, FreshInv, [Next]_vars
  PROVE  FreshInv'
<1> SUFFICES ASSUME Steady, setting' = setting, ~torn, ~torn' PROVE FreshInv'
  BY TornNext DEF FreshInv, Steady, Next, vars
<1> DEFINE P == Present
           Q == Present'
           W == Warmable
<1>1. /\ setting \in Settings /\ CallTyped /\ WellTyped /\ FeedsTyped /\ ModelTyped /\ ClockTyped /\ Assets' = Assets
      /\ CallTyped' /\ CallShape' /\ FeedsTyped' /\ ModelTyped' /\ ClockTyped'
      /\ (Warmable' <=> Warmable) /\ "reset" \notin setting.calls /\ "model" \notin setting.calls
      /\ NULL \notin Int
  BY AssetsStay, NullIsNone DEF TypeInv, WellTyped, Shape, Warmable, Steady
<1>2. /\ \A a \in Assets : Fresh(feeds[a], W, P)
      /\ Fresh(call.feed, W, P)
      /\ W => /\ NotLate(last.cursor, P) /\ NotLate(model.cursor, P) /\ NotLate(call.cursor, P)
              /\ NotLate(call.last.cursor, P)
              /\ \A i \in DOMAIN call.bars : NotLate(call.bars[i].to, P)
      /\ Saved("feed_configs") => \A a \in Assets : Fresh(disk["feed_configs"].rows[a], W, P)
      /\ W => /\ Saved("feed_status") => NotLate(disk["feed_status"].cursor, P)
              /\ Saved("market_model") => NotLate(disk["market_model"].cursor, P)
  BY DEF FreshInv
(* Every clock that is not touched stays fresh as time goes on. *)
<1>3. P \in Int /\ Q \in Int /\ (now <= now' => P <= Q)
  <2>1. DefaultTimeframe \in Spans /\ now \in Nat /\ now' \in Nat
    BY <1>1, NullIsNone DEF ClockTyped
  <2>2. P \in Int /\ Q \in Int
    BY <2>1, Ended, Boundary DEF Present, LatestEnd
  <2> QED
    BY <1>1, <2>1, <2>2, PresentMoves
<1>4. /\ last.cursor \in Cursors /\ model.cursor \in Cursors /\ call.cursor \in Cursors
      /\ call.feed \in FeedRows(setting) \cup {NULL} /\ \A a \in Assets : feeds[a] \in FeedRows(setting) \cup {NULL}
      /\ \A i \in DOMAIN call.bars : call.bars[i].to \in Cursors
  <2>1. \A i \in DOMAIN call.bars : call.bars[i] \in Bars(setting)
    BY <1>1, CallIs, Elements
  <2> QED
    BY <1>1, <2>1, CallIs DEF FeedsTyped, ModelTyped, Bars, Cursors
<1>5. /\ Saved("feed_configs") => \A a \in Assets : disk["feed_configs"].rows[a] \in FeedRows(setting) \cup {NULL}
      /\ Saved("feed_status") => disk["feed_status"].cursor \in Cursors
      /\ Saved("market_model") => disk["market_model"].cursor \in Cursors
  <2>1. /\ Saved("feed_configs") => disk["feed_configs"] \in Configs(setting)
        /\ Saved("feed_status") => disk["feed_status"] \in [cursor : Cursors, price : Assets \cup {NULL}]
        /\ Saved("market_model") => disk["market_model"] \in [active : BOOLEAN, cursor : Cursors]
    BY <1>1, TablesAre DEF WellTyped, DiskTyped, Saved, FileNames, Assets
  <2> QED
    BY <2>1 DEF Configs, Assets
<1> DEFINE FreshDisk ==
             /\ Saved("feed_configs")' => \A a \in Assets : Fresh(disk'["feed_configs"].rows[a], W, Q)
             /\ W => /\ Saved("feed_status")' => NotLate(disk'["feed_status"].cursor, Q)
                     /\ Saved("market_model")' => NotLate(disk'["market_model"].cursor, Q)
           FreshFeeds == \A a \in Assets : Fresh(feeds'[a], W, Q)
           FreshClocks == W => NotLate(last'.cursor, Q) /\ NotLate(model'.cursor, Q)
           FreshLast == W => NotLate(call'.last.cursor, Q)
           FreshCall == /\ Fresh(call'.feed, W, Q)
                        /\ W => /\ NotLate(call'.cursor, Q)
                                /\ \A i \in DOMAIN call'.bars : NotLate(call'.bars[i].to, Q)
<1>6. FreshDisk /\ FreshFeeds /\ FreshClocks /\ FreshCall /\ FreshLast => FreshInv'
  <2> SUFFICES ASSUME FreshDisk, FreshFeeds, FreshClocks, FreshCall, FreshLast PROVE FreshInv'
    OBVIOUS
  <2>1. Warmable' = W
    BY DEF Warmable
  <2> HIDE DEF FreshDisk, FreshFeeds, FreshClocks, FreshCall, FreshLast, W
  <2>2. (\A a \in Assets : Fresh(feeds[a], Warmable, Present))'
    BY <1>1, <2>1 DEF FreshFeeds
  <2>3. (/\ Fresh(call.feed, Warmable, Present)
         /\ Warmable => /\ NotLate(call.cursor, Present)
                        /\ \A i \in DOMAIN call.bars : NotLate(call.bars[i].to, Present))'
    BY <2>1 DEF FreshCall
  <2>4. (Warmable => NotLate(last.cursor, Present) /\ NotLate(model.cursor, Present)
                     /\ NotLate(call.last.cursor, Present))'
    BY <2>1 DEF FreshClocks, FreshLast
  <2>5. (/\ Saved("feed_configs") => \A a \in Assets : Fresh(disk["feed_configs"].rows[a], Warmable, Present)
         /\ Warmable => /\ Saved("feed_status") => NotLate(disk["feed_status"].cursor, Present)
                        /\ Saved("market_model") => NotLate(disk["market_model"].cursor, Present))'
    BY <1>1, <2>1 DEF FreshDisk
  <2> QED
    BY <2>2, <2>3, <2>4, <2>5 DEF FreshInv
<1> HIDE DEF P, Q, W
<1>7. now <= now' =>
        /\ \A c \in Cursors : NotLate(c, P) => NotLate(c, Q)
        /\ \A f \in FeedRows(setting) \cup {NULL} : Fresh(f, W, P) => Fresh(f, W, Q)
  BY <1>1, <1>3, StaysFresh
<1>8. now' = now => now <= now'
  BY <1>1 DEF ClockTyped
<1>9. now <= now' /\ disk' = disk => FreshDisk
  BY <1>2, <1>5, <1>7 DEF Saved
<1>10. now <= now' /\ feeds' = feeds => FreshFeeds
  BY <1>2, <1>4, <1>7
<1>11. now <= now' /\ last' = last /\ model' = model => FreshClocks
  BY <1>2, <1>4, <1>7
<1>12. ~Fetched' /\ ~Batching' => FreshCall
  <2> SUFFICES ASSUME call'.feed = NULL, call'.cursor = NULL PROVE FreshCall
    BY DEF Fetched, Batching
  <2>1. call'.bars = <<>>
    BY <1>1 DEF CallShape, Fetched, Batching
  <2>2. DOMAIN call'.bars = {}
    BY <2>1
  <2> QED
    BY <2>2 DEF Fresh, NotLate
<1>13. now <= now' /\ call' = call => FreshCall
  BY <1>2, <1>4, <1>7
<1>14. call' = Idle => FreshCall
  BY <1>12 DEF Idle, Fetched, Batching
<1>15. ASSUME NEW a \in Assets, NEW f \in FeedRows(setting), StoreFeed(a, f), now' = now, model' = model,
              f.start = NULL, W => NotLate(f.cursor, Q)
       PROVE  FreshFeeds /\ FreshClocks
  <2>1. feeds'[a] = f /\ (\A b \in Assets : b # a => feeds'[b] = feeds[b]) /\ last'.cursor = f.cursor
    BY <1>1, <1>15, StoredFeed
  <2>2. Fresh(f, W, Q)
    BY <1>15 DEF Fresh
  <2> QED
    BY <1>2, <1>4, <1>7, <1>8, <1>15, <2>1, <2>2
<1>16. \A a \in Assets :
         /\ Fresh(Selected(a), W, P) /\ Selected(a).start = NULL
         /\ W => Selected(a).tf = DefaultTimeframe
         /\ W => NotLate(CursorOf(Selected(a).cursor, Selected(a).start, Selected(a).tf), P)
         /\ W => NotLate(Selected(a).cursor, P)
         /\ Selected(a) \in FeedRows(setting) /\ Selected(a) # NULL
  <2>1. \A a \in Assets :
         /\ Fresh(Selected(a), W, P) /\ Selected(a).start = NULL
         /\ W => Selected(a).tf = DefaultTimeframe
         /\ W => NotLate(CursorOf(Selected(a).cursor, Selected(a).start, Selected(a).tf), P)
    BY <1>1, <1>2, FreshSelected DEF P, W
  <2>2. \A a \in Assets : Selected(a) \in FeedRows(setting) /\ Selected(a) # NULL
    BY <1>1, SelectedIs
  <2> QED
    BY <2>1, <2>2 DEF Fresh
<1>17. now' = now => Q = P
  BY DEF Q, P, Present, LatestEnd
<1> HIDE DEF FreshDisk, FreshFeeds, FreshClocks, FreshCall
<1>18. now <= now'
  BY <1>1, PassingTime
<1>19. FreshLast
  <2>1. call.last.cursor \in Cursors /\ NULL \in Cursors /\ NoFeed.cursor = NULL
    BY <1>1, CallIs DEF NoFeed, Cursors, Lasts
  <2>2. call'.last.cursor \in {NULL, call.last.cursor, last.cursor}
    BY <2>1, LastIs
  <2> QED
    BY <1>2, <1>4, <1>7, <1>18, <2>1, <2>2 DEF NotLate
<1> HIDE DEF FreshLast
<1>20. CASE UNCHANGED vars
  BY <1>6, <1>19, <1>8, <1>9, <1>10, <1>11, <1>13, <1>20 DEF vars, memory
<1>21. CASE Quietly
  BY <1>6, <1>19, <1>9, <1>10, <1>11, <1>12, <1>21 DEF Quietly
<1>22. CASE \E a \in Assets, f \in FeedRows(setting) : Placed(a, f)
  <2>1. PICK a \in Assets, f \in FeedRows(setting) : Placed(a, f)
    BY <1>22
  <2>2. StoreFeed(a, f) /\ UNCHANGED <<now, model, disk>> /\ ~Fetched' /\ ~Batching'
    BY <2>1 DEF Placed
  <2>3. f.start = NULL /\ (W => NotLate(f.cursor, P))
    <3>1. CASE f.start = NULL /\ f.cursor = Inherited(a).cursor
      <4>1. Contains(keys, a) => Inherited(a).cursor = feeds[a].cursor /\ feeds[a] # NULL
        BY <1>1, InheritedIs
      <4>2. ~Contains(keys, a) => Inherited(a).cursor = last.cursor
        BY <1>1, InheritedIs
      <4> QED
        BY <1>2, <3>1, <4>1, <4>2 DEF Fresh
    <3>2. CASE f.start = Selected(a).start /\ f.cursor = Selected(a).cursor
      BY <1>16, <3>2
    <3>3. CASE f.start = Selected(a).start /\ f.cursor = CursorOf(Selected(a).cursor, Selected(a).start, Selected(a).tf)
      BY <1>16, <3>3
    <3> QED
      BY <1>1, <2>1, <3>1, <3>2, <3>3 DEF Placed
  <2>4. Q = P
    BY <1>17, <2>2
  <2>5. FreshFeeds /\ FreshClocks
    BY <1>15, <2>2, <2>3, <2>4
  <2> QED
    BY <1>6, <1>19, <1>8, <1>9, <1>12, <2>2, <2>5
<1>23. CASE Switched
  BY <1>1, <1>23 DEF Switched
<1>24. CASE FetchFeed \/ FetchHistory
  <2> DEFINE f == Selected(Key)
  <2>1. call.todo # <<>> /\ UNCHANGED <<now, model, disk>>
    BY <1>24 DEF FetchFeed, FetchHistory, Walking
  <2>2. Key \in Assets
    BY <1>1, <2>1, WalkedKey
  <2>3. PICK c \in Int, live \in BOOLEAN :
          /\ FetchedFrom(c, live, f) /\ StoreFeed(Key, f)
          /\ \/ c = CursorOf(f.cursor, f.start, f.tf)
             \/ call'.feed.cursor = LatestEnd(f.tf)
    <3>1. CASE FetchFeed
      <4> DEFINE c == CursorOf(f.cursor, f.start, f.tf)
      <4>1. FetchedFrom(c, TRUE, f) /\ StoreFeed(Key, f)
        BY <3>1, FetchIs
      <4>2. c \in Int /\ TRUE \in BOOLEAN
        BY <4>1 DEF FetchedFrom
      <4> QED
        BY <4>1, <4>2
    <3>2. CASE FetchHistory
      BY <3>2, FetchHistoryIs
    <3> QED
      BY <1>24, <3>1, <3>2
  <2>4. /\ call'.feed.cursor \in Int /\ call'.feed \in FeedRows(setting) /\ call'.feed.start = f.start
        /\ \A i \in DOMAIN call'.bars : call'.bars[i].to \in Int /\ call'.bars[i].to <= call'.feed.cursor
        /\ call'.cursor = call.cursor
        /\ call'.feed.cursor # c => call'.feed.cursor <= LatestEnd(f.tf)
    BY <2>3 DEF FetchedFrom, Ordered
  <2>5. /\ f.start = NULL /\ (W => NotLate(f.cursor, P)) /\ (W => f.tf = DefaultTimeframe)
        /\ W => NotLate(CursorOf(f.cursor, f.start, f.tf), P)
        /\ f \in FeedRows(setting)
    BY <1>16, <2>2
  <2> HIDE DEF f
  <2>6. Q = P
    BY <1>17, <2>1
  <2>7. FreshFeeds /\ FreshClocks
    BY <1>15, <2>1, <2>2, <2>3, <2>5, <2>6
  <2>8. W => call'.feed.cursor <= P
    <3> SUFFICES ASSUME W PROVE call'.feed.cursor <= P
      OBVIOUS
    <3>1. LatestEnd(f.tf) = P
      BY <2>5 DEF P, Present
    <3>2. P <= P
      BY <1>3
    <3>3. CASE call'.feed.cursor = LatestEnd(f.tf)
      BY <3>1, <3>2, <3>3
    <3>4. CASE c = CursorOf(f.cursor, f.start, f.tf)
      <4>1. c <= P
        BY <1>1, <2>5, <3>4 DEF NotLate
      <4> QED
        BY <2>4, <3>1, <4>1
    <3> QED
      BY <2>3, <3>3, <3>4
  <2>9. FreshCall
    <3>1. Fresh(call'.feed, W, Q)
      BY <2>4, <2>5, <2>6, <2>8 DEF Fresh, NotLate
    <3>2. W => \A i \in DOMAIN call'.bars : NotLate(call'.bars[i].to, Q)
      BY <1>3, <2>4, <2>6, <2>8 DEF NotLate
    <3>3. W => NotLate(call'.cursor, Q)
      BY <1>2, <2>4, <2>6
    <3> QED
      BY <3>1, <3>2, <3>3 DEF FreshCall
  <2> QED
    BY <1>6, <1>19, <1>8, <1>9, <2>1, <2>7, <2>9
<1>25. CASE EndFeed
  <2>1. /\ call.feed # NULL /\ call.bars = <<>> /\ StoreFeed(Key, call.feed) /\ WalkOn
        /\ UNCHANGED <<now, model, disk>>
    BY <1>25 DEF EndFeed
  <2>2. call.todo # <<>> /\ ~Batching
    BY <2>1 DEF TypeInv, Shape, FetchShape, Fetched
  <2>3. Key \in Assets /\ call.feed \in FeedRows(setting)
    BY <1>1, <2>1, <2>2, WalkedKey, CallIs
  <2>4. Q = P
    BY <1>17, <2>1
  <2>5. call.feed.start = NULL /\ (W => NotLate(call.feed.cursor, Q))
    BY <1>2, <2>1, <2>4 DEF Fresh
  <2>6. FreshFeeds /\ FreshClocks
    BY <1>15, <2>1, <2>3, <2>5
  <2>7. ~Fetched' /\ ~Batching'
    BY <1>1, <2>1, <2>2 DEF Fetched, Batching, WalkOn, CallTyped
  <2> QED
    BY <1>6, <1>19, <1>8, <1>9, <1>12, <2>1, <2>6, <2>7
<1>26. CASE ProcessBar
  <2>1. /\ call.bars # <<>> /\ UNCHANGED <<now, feeds, last, model, disk>>
        /\ \/ call' = Idle
           \/ call' = [call EXCEPT !.bars = Tail(@)]
    BY <1>26 DEF ProcessBar
  <2>2. CASE call' = [call EXCEPT !.bars = Tail(@)]
    <3>1. call'.feed = call.feed /\ call'.cursor = call.cursor /\ call'.bars = Tail(call.bars)
      BY <1>1, <2>2 DEF CallTyped
    <3>2. \A i \in DOMAIN Tail(call.bars) : i + 1 \in DOMAIN call.bars /\ Tail(call.bars)[i] = call.bars[i + 1]
      BY <1>1, <2>1, NextBar
    <3>3. Q = P
      BY <1>17, <2>1
    <3>4. FreshCall
      BY <1>2, <3>1, <3>2, <3>3 DEF FreshCall
    <3> QED
      BY <1>6, <1>19, <1>8, <1>9, <1>10, <1>11, <2>1, <3>4
  <2> QED
    BY <1>6, <1>19, <1>8, <1>9, <1>10, <1>11, <1>14, <2>1, <2>2
<1>27. CASE ProcessBatch
  <2> DEFINE b == Head(call.bars)
  <2>1. call.bars # <<>> /\ UNCHANGED <<now, model, disk>> /\ call.cursor # NULL
    BY <1>27 DEF ProcessBatch
  <2>2. /\ \A a \in Requested : feeds'[a].cursor = b.to /\ feeds'[a].start = feeds[a].start
        /\ \A a \in Assets \ Requested : feeds'[a] = feeds[a]
        /\ last'.cursor = b.to
        /\ \/ call' = Idle
           \/ call'.bars = Tail(call.bars) /\ call'.cursor = b.to /\ call'.feed = call.feed
    BY <1>27, BatchedIs
  <2>3. /\ b = call.bars[1] /\ 1 \in DOMAIN call.bars
        /\ \A i \in DOMAIN Tail(call.bars) : i + 1 \in DOMAIN call.bars /\ Tail(call.bars)[i] = call.bars[i + 1]
    BY <1>1, <2>1, NextBar
  <2>4. W => NotLate(b.to, P)
    BY <1>2, <2>3
  <2> HIDE DEF b
  <2>5. Q = P
    BY <1>17, <2>1
  <2>6. \A a \in Requested : feeds[a] # NULL
    BY <2>1, BatchIs
  <2>7. FreshFeeds
    <3> SUFFICES ASSUME NEW a \in Assets PROVE Fresh(feeds'[a], W, Q)
      BY DEF FreshFeeds
    <3>1. CASE a \in Requested
      BY <1>2, <2>2, <2>4, <2>5, <2>6, <3>1 DEF Fresh
    <3>2. CASE a \notin Requested
      BY <1>2, <2>2, <2>5, <3>2
    <3> QED
      BY <3>1, <3>2
  <2>8. FreshClocks
    BY <1>2, <2>1, <2>2, <2>4, <2>5 DEF FreshClocks
  <2>9. CASE call'.bars = Tail(call.bars) /\ call'.cursor = b.to /\ call'.feed = call.feed
    <3>1. FreshCall
      BY <1>2, <2>3, <2>4, <2>5, <2>9 DEF FreshCall
    <3> QED
      BY <1>6, <1>19, <1>8, <1>9, <2>1, <2>7, <2>8, <3>1
  <2> QED
    BY <1>6, <1>19, <1>8, <1>9, <1>14, <2>1, <2>2, <2>7, <2>8, <2>9
<1>28. ASSUME ModelSpecOK(RequestKeys), W PROVE NotLate(ModelCursor, P) /\ ModelTimeframe(RequestKeys) = DefaultTimeframe
  <2>1. /\ ModelTimeframe(RequestKeys) \in setting.timeframes
        /\ model.cursor # NULL => ModelCursor = model.cursor
        /\ model.cursor = NULL => ModelCursor = LatestEnd(ModelTimeframe(RequestKeys))
    BY <1>1, <1>28, ModelTimeframeIs
  <2>2. ModelTimeframe(RequestKeys) = DefaultTimeframe
    BY <1>28, <2>1 DEF Steady, W, Warmable
  <2>3. NotLate(P, P)
    BY <1>3 DEF NotLate
  <2> QED
    BY <1>2, <1>28, <2>1, <2>2, <2>3 DEF P, Present
<1>29. CASE StartModel
  <2>1. /\ ModelSpecOK(RequestKeys) /\ UNCHANGED <<now, feeds, last, disk>>
        /\ model' = [model EXCEPT !.cursor = ModelCursor]
        /\ call' = [call EXCEPT !.op = "start", !.todo = RequestKeys] /\ call.op = "modelstart"
    BY <1>29 DEF StartModel
  <2>2. model'.cursor = ModelCursor /\ call'.feed = call.feed /\ call'.cursor = call.cursor
    BY <1>1, <2>1 DEF ModelTyped, CallTyped
  <2>3. ~Fetched' /\ ~Batching'
    BY <2>1, <2>2 DEF TypeInv, Shape, FetchShape, BatchShape, Fetched, Batching
  <2>4. Q = P
    BY <1>17, <2>1
  <2>5. FreshClocks
    BY <1>2, <1>28, <2>1, <2>2, <2>4 DEF FreshClocks
  <2> QED
    BY <1>6, <1>19, <1>8, <1>9, <1>10, <1>12, <2>1, <2>3, <2>5
<1>30. CASE PlanBatches
  <2> DEFINE tf == ModelTimeframe(RequestKeys)
             live == call.op = "batch"
  <2>1. ModelSpecOK(RequestKeys) /\ UNCHANGED <<now, feeds, last, model, disk>>
    BY <1>30 DEF PlanBatches, memory
  <2>2. PICK n \in Nat, from \in Int :
          /\ live => (n # 0 => from + n * tf <= LatestEnd(tf))
          /\ ~live => from + n * tf = call'.cursor /\ call'.cursor = LatestEnd(tf)
          /\ Contiguous(call'.bars, live, from, from + n * tf) /\ Len(call'.bars) = n
    BY <1>30, PlannedIs
  <2>3. /\ live => call'.cursor = ModelCursor
        /\ call'.feed = NULL /\ call'.bars \in Seq(Bars(setting)) /\ call'.cursor \in Int
    BY <1>30, PlannedIs
  <2>4. Q = P
    BY <1>17, <2>1
  <2> DEFINE e == from + n * tf
  <2>5. /\ (W => tf = DefaultTimeframe) /\ tf \in Spans
    BY <1>1, <1>28, <2>1, ModelTimeframeIs
  <2> HIDE DEF tf, live
  <2>6. e \in Int
    <3>1. n \in Int
      OBVIOUS
    <3> QED
      BY <2>5, <3>1, Multiples
  <2>7. ASSUME NEW i \in DOMAIN call'.bars, W PROVE NotLate(call'.bars[i].to, Q)
    <3>1. call'.bars[i].to \in Int /\ call'.bars[i].to <= e
      BY <2>2 DEF Contiguous
    <3>2. n # 0
      BY <2>2, <2>3, Elements
    <3>3. e <= LatestEnd(tf)
      <4>1. LatestEnd(tf) \in Int
        BY <1>1, <2>5, Ended DEF ClockTyped
      <4>2. live => e <= LatestEnd(tf)
        BY <2>2, <3>2
      <4>3. ~live => e = LatestEnd(tf)
        BY <2>2
      <4> HIDE DEF e
      <4> QED
        BY <2>6, <4>1, <4>2, <4>3
    <3>4. LatestEnd(tf) = P
      BY <2>5, <2>7 DEF P, Present
    <3> HIDE DEF e
    <3>5. call'.bars[i].to <= P
      BY <1>3, <2>6, <3>1, <3>3, <3>4
    <3> QED
      BY <2>4, <3>5 DEF NotLate
  <2>8. W => NotLate(call'.cursor, Q)
    <3>1. W /\ ~live => call'.cursor = P
      BY <2>2, <2>5 DEF P, Present
    <3>2. NotLate(P, P)
      BY <1>3 DEF NotLate
    <3> QED
      BY <1>28, <2>1, <2>3, <2>4, <3>1, <3>2
  <2>9. FreshCall
    BY <2>3, <2>7, <2>8 DEF FreshCall, Fresh
  <2> QED
    BY <1>6, <1>19, <1>8, <1>9, <1>10, <1>11, <2>1, <2>9
<1>31. CASE EndBatches
  <2>1. /\ UNCHANGED <<now, feeds, last, disk>> /\ call' = Idle
        /\ model' = [model EXCEPT !.cursor = call.cursor]
    BY <1>31 DEF EndBatches
  <2>2. model'.cursor = call.cursor
    BY <1>1, <2>1 DEF ModelTyped
  <2>3. Q = P
    BY <1>17, <2>1
  <2>4. FreshClocks
    BY <1>2, <2>1, <2>2, <2>3 DEF FreshClocks
  <2> QED
    BY <1>6, <1>19, <1>8, <1>9, <1>10, <1>14, <2>1, <2>4
<1>32. CASE WriteFile
  <2>1. UNCHANGED <<now, feeds, last, model>>
    BY <1>32 DEF WriteFile, memory
  <2>2. PICK k \in 1 .. 6 :
          /\ disk'[Files[k]] = Content[Files[k]]
          /\ \A f \in FileNames : f # Files[k] => disk'[f] = disk[f]
          /\ k = 6 => call' = Idle
          /\ k # 6 => call' = call
    BY <1>1, <1>32, WrittenIs
  <2>3. /\ Content["feed_configs"] = FeedConfigs /\ Content["feed_status"] = call.last
        /\ Content["market_model"] = model
    BY <1>1, ContentIs
  <2>4. \A f \in FileNames : disk'[f] = Content[f] \/ disk'[f] = disk[f]
    BY <2>2
  <2>5. \A a \in Assets : Fresh(FeedConfigs.rows[a], W, P)
    <3> SUFFICES ASSUME NEW a \in Assets PROVE Fresh(FeedConfigs.rows[a], W, P)
      OBVIOUS
    <3>1. FeedConfigs.rows[a] = IF feeds[a] = NULL THEN NULL ELSE [feeds[a] EXCEPT !.start = NULL]
      BY <1>1, ContentIs
    <3>2. CASE feeds[a] = NULL
      BY <3>1, <3>2 DEF Fresh
    <3>3. CASE feeds[a] # NULL
      <4>1. feeds[a] \in FeedRows(setting)
        BY <1>4, <3>3
      <4>2. [feeds[a] EXCEPT !.start = NULL].start = NULL /\ [feeds[a] EXCEPT !.start = NULL].cursor = feeds[a].cursor
        BY <4>1 DEF FeedRows
      <4> QED
        BY <1>2, <3>1, <3>3, <4>2 DEF Fresh
    <3> QED
      BY <3>2, <3>3
  <2>6. Q = P
    BY <1>17, <2>1
  <2>7. FreshDisk
    <3>1. /\ disk'["feed_configs"] = FeedConfigs \/ disk'["feed_configs"] = disk["feed_configs"]
          /\ disk'["feed_status"] = call.last \/ disk'["feed_status"] = disk["feed_status"]
          /\ disk'["market_model"] = model \/ disk'["market_model"] = disk["market_model"]
      BY <2>3, <2>4 DEF FileNames
    <3> QED
      BY <1>2, <2>5, <2>6, <3>1 DEF FreshDisk, Saved
  <2>8. FreshCall
    BY <1>8, <1>13, <1>14, <2>1, <2>2
  <2> QED
    BY <1>6, <1>19, <1>8, <1>10, <1>11, <2>1, <2>7, <2>8
<1>33. CASE Crash
  <2>1. /\ AsNew' /\ disk' = disk /\ now' = now /\ call'.feed = NULL /\ call'.cursor = NULL /\ New' = New
    BY <1>1, <1>33, CrashIs
  <2>2. (\A a \in Assets : feeds'[a] = NULL) /\ last'.cursor = NULL /\ model'.cursor = NULL
    BY <2>1 DEF AsNew, New, NoFeed
  <2>3. FreshFeeds /\ FreshClocks
    BY <2>2 DEF FreshFeeds, FreshClocks, Fresh, NotLate
  <2> QED
    BY <1>6, <1>19, <1>8, <1>9, <1>12, <2>1, <2>3 DEF Fetched, Batching
<1>34. CASE Load
  <2>1. /\ Complete /\ call' = Idle /\ disk' = disk /\ now' = now /\ model' = disk["market_model"]
        /\ feeds' = disk["feed_configs"].rows
        /\ IF disk["feed_status"].cursor # NULL THEN last'.cursor = disk["feed_status"].cursor
           ELSE last'.cursor = NULL \/ \E a \in Assets : /\ disk["feed_configs"].rows[a] # NULL
                                                         /\ last'.cursor = disk["feed_configs"].rows[a].cursor
    BY <1>1, <1>34, LoadIs
  <2>2. Saved("feed_configs") /\ Saved("feed_status") /\ Saved("market_model")
    BY <2>1 DEF Complete, FileNames
  <2>3. Q = P
    BY <1>17, <2>1
  <2>4. FreshFeeds
    BY <1>2, <2>1, <2>2, <2>3 DEF FreshFeeds
  <2>5. W => NotLate(last'.cursor, P)
    <3>1. CASE disk["feed_status"].cursor # NULL
      BY <1>2, <2>1, <2>2, <3>1
    <3>2. CASE disk["feed_status"].cursor = NULL /\ last'.cursor = NULL
      BY <3>2 DEF NotLate
    <3>3. ASSUME NEW a \in Assets, disk["feed_configs"].rows[a] # NULL,
                 last'.cursor = disk["feed_configs"].rows[a].cursor
          PROVE  W => NotLate(last'.cursor, P)
      BY <1>2, <2>2, <3>3 DEF Fresh
    <3> QED
      BY <2>1, <3>1, <3>2, <3>3
  <2>6. FreshClocks
    BY <1>2, <2>1, <2>2, <2>3, <2>5 DEF FreshClocks
  <2> QED
    BY <1>6, <1>19, <1>8, <1>9, <1>14, <2>1, <2>4, <2>6
<1> QED
  BY <1>20, <1>21, <1>22, <1>23, <1>24, <1>25, <1>26, <1>27, <1>29, <1>30, <1>31, <1>32, <1>33, <1>34, Kinds

-----------------------------------------------------------------------------
(* A feed that is fetched has a cursor. *)

TimedInv == Fetched => call.feed.cursor # NULL

LEMMA TimedInit ==
  Init => TimedInv
BY DEF Init, TimedInv, Fetched, Idle

LEMMA TimedNext ==
  ASSUME TypeInv, TimedInv, [Next]_vars
  PROVE  TimedInv'
<1>1. setting \in Settings /\ CallTyped /\ NULL \notin Int
  BY NullIsNone DEF TypeInv, WellTyped, Shape
<1>2. call' = Idle \/ ~Fetched' => TimedInv'
  BY DEF TimedInv, Fetched, Idle
<1>3. call'.feed = call.feed => TimedInv'
  BY DEF TimedInv, Fetched
<1>4. CASE UNCHANGED vars
  BY <1>3, <1>4 DEF vars
<1>5. CASE Quietly
  BY <1>2, <1>5 DEF Quietly
<1>6. CASE \E a \in Assets, f \in FeedRows(setting) : Placed(a, f)
  BY <1>2, <1>6 DEF Placed
<1>7. CASE Switched
  BY <1>3, <1>7 DEF Switched
<1>8. CASE FetchFeed
  <2>1. call'.feed.cursor \in Int
    BY <1>8, FetchIs DEF FetchedFrom
  <2> QED
    BY <1>1, <2>1 DEF TimedInv
<1>9. CASE FetchHistory
  <2>1. call'.feed.cursor \in Int
    BY <1>9, FetchHistoryIs DEF FetchedFrom
  <2> QED
    BY <1>1, <2>1 DEF TimedInv
<1>10. CASE ProcessBar \/ ProcessBatch
  <2>1. call' = Idle \/ call'.feed = call.feed
    BY <1>1, <1>10 DEF ProcessBar, ProcessBatch, CallTyped
  <2> QED
    BY <1>2, <1>3, <2>1
<1>11. CASE EndFeed
  <2>1. call'.feed = NULL
    BY <1>1, <1>11 DEF EndFeed, WalkOn, CallTyped
  <2> QED
    BY <1>2, <2>1 DEF Fetched
<1>12. CASE StartModel
  <2>1. call'.feed = call.feed
    BY <1>1, <1>12 DEF StartModel, CallTyped
  <2> QED
    BY <1>3, <2>1
<1>13. CASE PlanBatches
  <2>1. call'.feed = NULL
    BY <1>13, PlannedIs
  <2> QED
    BY <1>2, <2>1 DEF Fetched
<1>14. CASE EndBatches \/ Load
  BY <1>2, <1>14 DEF EndBatches, Load
<1>15. CASE WriteFile
  BY <1>2, <1>3, <1>15 DEF WriteFile
<1>16. CASE Crash
  <2>1. call'.feed = NULL
    BY <1>16 DEF Crash, Idle
  <2> QED
    BY <1>2, <2>1 DEF Fetched
<1> QED
  BY <1>4, <1>5, <1>6, <1>7, <1>8, <1>9, <1>10, <1>11, <1>12, <1>13, <1>14, <1>15, <1>16, Kinds DEF Next

-----------------------------------------------------------------------------
(* The live bars of a log and the clock of its feed. *)

Covered(log, c) == \A i \in DOMAIN log : log[i].live => c # NULL /\ log[i].to <= c

Chain(log) == \A i, j \in DOMAIN log : i < j /\ log[i].live /\ log[j].live => log[i].to <= log[j].from

(* A log that is followed by the bars of a call, which end with a target. *)
Lined(log, rest, target) ==
  /\ Covered(log, target)
  /\ \A j \in DOMAIN rest :
       /\ rest[j].to <= target
       /\ rest[j].live => /\ Covered(log, rest[j].from)
                          /\ \A k \in DOMAIN rest : j < k => rest[j].to <= rest[k].from

CursorAt(f) == IF f = NULL THEN NULL ELSE f.cursor

(* The clock of an asset: the cursor of the model, or of its own feed. *)
ClockOf(driven, m, f) == IF driven THEN m.cursor ELSE CursorAt(f)

(* Whether a call has bars for an asset, and where they end. *)
ServedBy(c, a) == c.cursor # NULL \/ (c.feed # NULL /\ a = Head(c.todo))

TargetOf(c) ==
  IF c.feed # NULL THEN c.feed.cursor
  ELSE IF c.bars = <<>> THEN c.cursor ELSE c.bars[Len(c.bars)].to

Standing(driven, c, m, f, log, a) ==
  IF ServedBy(c, a) THEN Lined(log, c.bars, TargetOf(c)) ELSE Covered(log, ClockOf(driven, m, f))

Orderly == setting.closed = {} /\ Steady /\ ~MayTear /\ ~MayStepAlone

(* No live bar of a log ends after the clock of its asset, in memory and   *)
(* on disk; the bars a call has to process come between the log and the    *)
(* cursor it will store.                                                   *)
LineInv ==
  Orderly =>
    /\ \A a \in Assets : Chain(bars[a]) /\ Standing(setting.model, call, model, feeds[a], bars[a], a)
    /\ call.op # "write" /\ Complete =>
         \A a \in Assets :
           /\ Chain(disk["market_events"][a])
           /\ Covered(disk["market_events"][a],
                      ClockOf(setting.model, disk["market_model"], disk["feed_configs"].rows[a]))

(* A feed that is placed keeps the cursor it has, and so does the asset    *)
(* that is stored as it was selected.                                      *)
LEMMA PlacedKeeps ==
  ASSUME TypeInv, Steady, setting' = setting, NEW a \in Assets, NEW f \in FeedRows(setting),
         Placed(a, f) \/ (StoreFeed(a, f) /\ f = Selected(a))
  PROVE  \A b \in Assets : CursorAt(feeds[b]) # NULL => CursorAt(feeds'[b]) = CursorAt(feeds[b])
<1>1. setting \in Settings /\ FeedsTyped /\ "reset" \notin setting.calls /\ StoreFeed(a, f)
  BY DEF TypeInv, WellTyped, Shape, Steady, Placed
<1>2. feeds'[a] = f /\ f # NULL /\ \A b \in Assets : b # a => feeds'[b] = feeds[b]
  BY <1>1, StoredFeed, NullIsNone
<1>3. ASSUME CursorAt(feeds[a]) # NULL PROVE f.cursor = CursorAt(feeds[a])
  <2>1. feeds[a] # NULL /\ feeds[a].cursor # NULL /\ Contains(keys, a) /\ CursorAt(feeds[a]) = feeds[a].cursor
    BY <1>1, <1>3 DEF CursorAt, FeedsTyped
  <2>2. Inherited(a).cursor = feeds[a].cursor /\ Selected(a) = feeds[a]
    BY <1>1, <2>1, InheritedIs, SelectedIs
  <2>3. CursorOf(Selected(a).cursor, Selected(a).start, Selected(a).tf) = feeds[a].cursor
    BY <2>1, <2>2 DEF CursorOf
  <2> QED
    BY <1>1, <2>1, <2>2, <2>3 DEF Placed
<1> QED
  BY <1>2, <1>3 DEF CursorAt

(* The bars that are left of a batch end where they did. *)
LEMMA TargetStays ==
  ASSUME setting \in Settings, CallTyped, NULL \notin Int, call.feed = NULL, call.bars # <<>>,
         call'.feed = NULL, call'.bars = Tail(call.bars), call'.cursor = Head(call.bars).to
  PROVE  TargetOf(call') = TargetOf(call) /\ TargetOf(call) \in Int
<1> DEFINE target == TargetOf(call)
<1>1. /\ call.bars \in Seq(Bars(setting)) /\ Tail(call.bars) \in Seq(Bars(setting))
      /\ Len(Tail(call.bars)) = Len(call.bars) - 1 /\ Head(call.bars) = call.bars[1]
      /\ \A i \in DOMAIN Tail(call.bars) : Tail(call.bars)[i] = call.bars[i + 1]
  BY CallIs, Dropped
<1>2. target = call.bars[Len(call.bars)].to
  BY DEF TargetOf
<1>3. Len(call.bars) \in DOMAIN call.bars /\ Len(call.bars) \in Nat
  BY <1>1, Elements
<1>4. call.bars[Len(call.bars)] \in Bars(setting)
  BY <1>1, <1>3, Elements
<1>5. CASE Tail(call.bars) = <<>>
  <2>1. Len(Tail(call.bars)) = 0
    BY <1>1, <1>5, Elements
  <2>2. Len(call.bars) = 1
    BY <1>1, <1>3, <2>1
  <2> QED
    BY <1>1, <1>2, <1>4, <1>5, <2>2 DEF TargetOf, Bars
<1>6. CASE Tail(call.bars) # <<>>
  <2>1. Len(Tail(call.bars)) \in DOMAIN Tail(call.bars)
    BY <1>1, <1>6, Elements
  <2>2. Tail(call.bars)[Len(Tail(call.bars))] = call.bars[Len(call.bars)]
    BY <1>1, <1>3, <2>1
  <2> QED
    BY <1>2, <1>4, <1>6, <2>2 DEF TargetOf, Bars
<1> QED
  BY <1>5, <1>6

LEMMA NoBars ==
  ASSUME NEW c
  PROVE  Covered(<<>>, c) /\ Chain(<<>>)
BY DEF Covered, Chain

LEMMA CoveredOn ==
  ASSUME NULL \notin Int, NEW log \in Seq(Bars(setting)), NEW c \in Cursors, NEW d \in Int,
         Covered(log, c), c = NULL \/ c <= d
  PROVE  Covered(log, d)
<1>1. d # NULL
  OBVIOUS
<1> SUFFICES ASSUME NEW i \in DOMAIN log, log[i].live PROVE log[i].to <= d
  BY <1>1 DEF Covered
<1>2. log[i] \in Bars(setting)
  BY Elements
<1>3. log[i].to \in Int /\ c # NULL /\ log[i].to <= c
  BY <1>2 DEF Covered, Bars
<1> QED
  BY <1>3 DEF Cursors

LEMMA LinedUp ==
  ASSUME NULL \notin Int, NEW log, NEW rest, NEW live \in BOOLEAN, NEW from \in Int, NEW target \in Int,
         Ordered(rest, live, from, target), Covered(log, target), live => Covered(log, from),
         log \in Seq(Bars(setting))
  PROVE  Lined(log, rest, target)
<1>1. \A j \in DOMAIN rest : /\ rest[j].live = live /\ rest[j].to <= target
                             /\ rest[j].from \in Int /\ from <= rest[j].from
                             /\ \A k \in DOMAIN rest : j < k => rest[j].to <= rest[k].from
  BY DEF Ordered
<1>2. ASSUME NEW j \in DOMAIN rest, rest[j].live PROVE Covered(log, rest[j].from)
  <2>1. live /\ Covered(log, from) /\ from \in Cursors
    BY <1>1, <1>2 DEF Cursors
  <2> QED
    BY <1>1, <2>1, CoveredOn
<1> QED
  BY <1>1, <1>2 DEF Lined

LEMMA LinedSkip ==
  ASSUME NEW log, NEW rest \in Seq(Bars(setting)), rest # <<>>, NEW target, Lined(log, rest, target)
  PROVE  Lined(log, Tail(rest), target)
<1>1. \A i \in DOMAIN Tail(rest) : i + 1 \in DOMAIN rest /\ Tail(rest)[i] = rest[i + 1] /\ i \in Int
  BY Dropped
<1> QED
  BY <1>1 DEF Lined

(* The first bar of the rest is appended to the log. *)
LEMMA LinedAppend ==
  ASSUME NEW log \in Seq(Bars(setting)), NEW rest \in Seq(Bars(setting)), rest # <<>>,
         NEW target \in Int, NULL \notin Int, Chain(log), Lined(log, rest, target),
         NEW e \in Bars(setting), e.to = rest[1].to, e.from = rest[1].from, e.live = rest[1].live
  PROVE  Chain(Append(log, e)) /\ Lined(Append(log, e), Tail(rest), target)
<1> DEFINE more == Append(log, e)
<1>1. /\ Len(log) \in Nat /\ DOMAIN log = 1 .. Len(log) /\ DOMAIN more = 1 .. Len(log) + 1
      /\ more[Len(log) + 1] = e /\ \A i \in 1 .. Len(log) : more[i] = log[i]
  BY Appended
<1>2. \A i \in DOMAIN Tail(rest) : i + 1 \in DOMAIN rest /\ Tail(rest)[i] = rest[i + 1] /\ i \in Int /\ 1 < i + 1
  BY Dropped
<1>3. 1 \in DOMAIN rest
  BY Elements
<1> HIDE DEF more
<1>4. /\ Covered(log, target) /\ rest[1].to <= target
      /\ rest[1].live => Covered(log, rest[1].from)
  BY <1>3 DEF Lined
<1>5. target # NULL
  OBVIOUS
<1>6. Chain(more)
  <2> SUFFICES ASSUME NEW i \in DOMAIN more, NEW j \in DOMAIN more, i < j, more[i].live, more[j].live
               PROVE  more[i].to <= more[j].from
    BY DEF Chain
  <2>1. i \in 1 .. Len(log) /\ more[i] = log[i]
    BY <1>1
  <2>2. CASE j \in 1 .. Len(log)
    BY <1>1, <2>1, <2>2 DEF Chain
  <2>3. CASE j = Len(log) + 1
    BY <1>1, <1>4, <2>1, <2>3 DEF Covered
  <2> QED
    BY <1>1, <2>2, <2>3
<1>7. Covered(more, target)
  <2> SUFFICES ASSUME NEW i \in DOMAIN more, more[i].live PROVE more[i].to <= target
    BY <1>5 DEF Covered
  <2>1. CASE i \in 1 .. Len(log)
    BY <1>1, <1>4, <2>1 DEF Covered
  <2>2. CASE i = Len(log) + 1
    BY <1>1, <1>4, <2>2
  <2> QED
    BY <1>1, <2>1, <2>2
<1>8. ASSUME NEW j \in DOMAIN Tail(rest), Tail(rest)[j].live
      PROVE  Covered(more, Tail(rest)[j].from)
  <2>1. /\ rest[j + 1] = Tail(rest)[j] /\ j + 1 \in DOMAIN rest
        /\ Covered(log, rest[j + 1].from)
        /\ rest[1].live => rest[1].to <= rest[j + 1].from
    BY <1>2, <1>3, <1>8 DEF Lined
  <2>2. rest[j + 1].from # NULL
    <3>1. rest[j + 1] \in Bars(setting)
      BY <2>1, Elements
    <3> QED
      BY <3>1 DEF Bars
  <2> SUFFICES ASSUME NEW i \in DOMAIN more, more[i].live PROVE more[i].to <= rest[j + 1].from
    BY <2>1, <2>2 DEF Covered
  <2>3. CASE i \in 1 .. Len(log)
    BY <1>1, <2>1, <2>3 DEF Covered
  <2>4. CASE i = Len(log) + 1
    BY <1>1, <2>1, <2>4
  <2> QED
    BY <1>1, <2>3, <2>4
<1>9. Lined(more, Tail(rest), target)
  <2>1. \A j \in DOMAIN Tail(rest) :
          /\ Tail(rest)[j].to <= target
          /\ Tail(rest)[j].live => \A k \in DOMAIN Tail(rest) : j < k => Tail(rest)[j].to <= Tail(rest)[k].from
    BY <1>2 DEF Lined
  <2> QED
    BY <1>7, <1>8, <2>1 DEF Lined
<1> QED
  BY <1>6, <1>9 DEF more

LEMMA LineInit ==
  Init => LineInv
<1> SUFFICES ASSUME Init PROVE LineInv
  OBVIOUS
<1>1. (\A a \in Assets : bars[a] = <<>>) /\ call.feed = NULL /\ call.cursor = NULL
  BY DEF Init, New, Idle
<1>2. ~Complete
  BY FilesAre DEF Init, Complete, Saved, FileNames
<1> QED
  BY <1>1, <1>2, NoBars DEF LineInv, Standing, ServedBy

LEMMA LineNext ==
  ASSUME TypeInv, TornInv, TimedInv, ModeInv, FreshInv, LineInv, [Next]_vars
  PROVE  LineInv'
<1> SUFFICES ASSUME Orderly, ~torn, setting' = setting PROVE LineInv'
  BY DEF TornInv, LineInv, Orderly, Steady, MayTear, MayStepAlone, Next, vars
<1> DEFINE driven == setting.model
           DiskLines == \A a \in Assets :
             /\ Chain(disk["market_events"][a])
             /\ Covered(disk["market_events"][a], ClockOf(driven, disk["market_model"], disk["feed_configs"].rows[a]))
           Chains == \A a \in Assets : Chain(bars'[a])
           Stands == \A a \in Assets : Standing(driven, call', model', feeds'[a], bars'[a], a)
           DiskStands == call'.op # "write" /\ Complete' =>
             \A a \in Assets :
               /\ Chain(disk'["market_events"][a])
               /\ Covered(disk'["market_events"][a],
                          ClockOf(driven, disk'["market_model"], disk'["feed_configs"].rows[a]))
<1>1. /\ setting \in Settings /\ CallTyped /\ WellTyped /\ FeedsTyped /\ ModelTyped /\ ClockTyped /\ LogsTyped
      /\ Assets' = Assets /\ NULL \notin Int
      /\ "reset" \notin setting.calls /\ "model" \notin setting.calls /\ ~MayTear /\ ~MayStepAlone /\ Steady
      /\ setting.closed = {} /\ driven \in BOOLEAN
  BY AssetsStay, NullIsNone DEF TypeInv, WellTyped, Shape, Orderly, Steady
<1>2. /\ \A a \in Assets : Chain(bars[a]) /\ Standing(driven, call, model, feeds[a], bars[a], a)
      /\ call.op # "write" /\ Complete => DiskLines
  BY DEF LineInv
<1>3. /\ \A a \in Assets : bars[a] \in Seq(Bars(setting)) /\ CursorAt(feeds[a]) \in Cursors
      /\ model.cursor \in Cursors /\ call.cursor \in Cursors /\ call.bars \in Seq(Bars(setting))
  <2>1. \A a \in Assets : feeds[a] # NULL => feeds[a].cursor \in Cursors
    BY <1>1 DEF FeedsTyped, FeedRows
  <2> QED
    BY <1>1, <2>1, CallIs DEF LogsTyped, ModelTyped, CursorAt, Cursors
<1>4. Chains /\ Stands /\ DiskStands => LineInv'
  <2> SUFFICES ASSUME Chains, Stands, DiskStands PROVE LineInv'
    OBVIOUS
  <2>1. driven = setting'.model
    OBVIOUS
  <2> HIDE DEF driven
  <2>2. (\A a \in Assets : Chain(bars[a]) /\ Standing(setting.model, call, model, feeds[a], bars[a], a))'
    BY <1>1, <2>1
  <2>3. (call.op # "write" /\ Complete =>
           \A a \in Assets :
             /\ Chain(disk["market_events"][a])
             /\ Covered(disk["market_events"][a],
                        ClockOf(setting.model, disk["market_model"], disk["feed_configs"].rows[a])))'
    BY <1>1, <2>1
  <2> QED
    BY <2>2, <2>3 DEF LineInv
<1> HIDE DEF driven
<1>5. bars' = bars => Chains
  BY <1>2
<1>6. disk' = disk /\ call.op # "write" => DiskStands
  BY <1>2 DEF Complete, Saved
<1> HIDE DEF DiskStands, Chains
(* A clock that does not move, or where there was none, covers its log. *)
<1>7. ASSUME bars' = bars, ~Fetched, ~Batching, ~Fetched', ~Batching',
             \A a \in Assets : ClockOf(driven, model, feeds[a]) # NULL =>
                                 ClockOf(driven, model', feeds'[a]) = ClockOf(driven, model, feeds[a])
      PROVE  Stands
  <2> SUFFICES ASSUME NEW a \in Assets PROVE Standing(driven, call', model', feeds'[a], bars'[a], a)
    OBVIOUS
  <2>1. ~ServedBy(call, a) /\ ~ServedBy(call', a)
    BY <1>7 DEF ServedBy, Fetched, Batching
  <2>2. Covered(bars[a], ClockOf(driven, model, feeds[a]))
    BY <1>2, <2>1 DEF Standing
  <2>3. Covered(bars'[a], ClockOf(driven, model', feeds'[a]))
    BY <1>7, <2>2 DEF Covered
  <2> QED
    BY <2>1, <2>3 DEF Standing
<1>20. CASE UNCHANGED vars
  <2>1. UNCHANGED <<bars, feeds, model, call, disk>>
    BY <1>20 DEF vars, memory
  <2>2. DiskStands
    BY <1>2, <2>1 DEF DiskStands, Complete, Saved
  <2> QED
    BY <1>2, <1>4, <1>5, <2>1, <2>2
<1>21. CASE Quietly
  BY <1>4, <1>5, <1>6, <1>7, <1>21 DEF Quietly
<1>22. CASE \E a \in Assets, f \in FeedRows(setting) : Placed(a, f)
  <2>1. PICK a \in Assets, f \in FeedRows(setting) : Placed(a, f)
    BY <1>22
  <2>2. /\ UNCHANGED <<model, bars, disk>> /\ ~Fetched /\ ~Batching /\ ~Fetched' /\ ~Batching'
        /\ call.op # "write"
    BY <2>1 DEF Placed
  <2>3. Stands
    BY <1>1, <1>7, <2>1, <2>2, PlacedKeeps DEF ClockOf
  <2> QED
    BY <1>4, <1>5, <1>6, <2>2, <2>3
<1>23. CASE Switched
  BY <1>1, <1>23 DEF Switched
(* Bars that are fetched begin where the log of the feed is covered. *)
<1>24. CASE FetchFeed \/ FetchHistory
  <2> DEFINE f == Selected(Key)
             clock == CursorAt(feeds[Key])
  <2>1. /\ call.todo # <<>> /\ UNCHANGED <<model, bars, disk>> /\ call.op # "write" /\ ~Fetched
        /\ call.op \in {"step", "warmup"} /\ (FetchHistory => call.op = "warmup")
    BY <1>24 DEF FetchFeed, FetchHistory, Walking, Fetched
  <2>2. Key \in Assets /\ ~driven /\ ~Batching
    <3>1. ~Batching
      BY <2>1 DEF TypeInv, Shape, BatchShape
    <3> QED
      BY <1>1, <2>1, <3>1, WalkedKey DEF ModeInv, driven
  <2>3. Covered(bars[Key], clock)
    BY <1>2, <2>1, <2>2 DEF Standing, ServedBy, Fetched, Batching, ClockOf
  <2>4. Fresh(feeds[Key], Warmable, Present) /\ Fresh(Selected(Key), Warmable, Present) /\ f.start = NULL
        /\ (Warmable => f.tf = DefaultTimeframe)
    <3>1. Fresh(feeds[Key], Warmable, Present)
      BY <1>1, <2>2 DEF FreshInv
    <3> QED
      BY <1>1, <2>2, <3>1, FreshSelected
  <2>5. clock # NULL => f.cursor = clock
    <3>1. clock # NULL => Contains(keys, Key)
      BY <1>1, <2>2 DEF CursorAt, FeedsTyped
    <3> QED
      BY <1>1, <2>2, <3>1, SelectedIs DEF CursorAt
  <2>6. clock \in Cursors /\ f \in FeedRows(setting)
    BY <1>1, <1>3, <2>2, SelectedIs
  <2> HIDE DEF clock
  <2>7. PICK c \in Int, live \in BOOLEAN :
          /\ FetchedFrom(c, live, f) /\ StoreFeed(Key, f)
          /\ Covered(bars[Key], call'.feed.cursor) /\ (live => Covered(bars[Key], c))
    <3>1. CASE FetchFeed
      <4> DEFINE c == CursorOf(f.cursor, f.start, f.tf)
      <4>1. FetchedFrom(c, TRUE, f) /\ StoreFeed(Key, f)
        BY <3>1, FetchIs
      <4>2. c \in Int /\ TRUE \in BOOLEAN /\ call'.feed.cursor \in Int /\ c <= call'.feed.cursor
        BY <4>1 DEF FetchedFrom
      <4>3. clock # NULL => c = clock
        BY <2>5 DEF CursorOf
      <4> HIDE DEF c, f
      <4>4. Covered(bars[Key], c)
        BY <1>1, <1>3, <2>2, <2>3, <2>6, <4>2, <4>3, CoveredOn
      <4>5. c \in Cursors
        BY <4>2 DEF Cursors
      <4>6. Covered(bars[Key], call'.feed.cursor)
        BY <1>1, <1>3, <2>2, <4>2, <4>4, <4>5, CoveredOn
      <4> QED
        BY <4>1, <4>2, <4>4, <4>6
    <3>2. CASE FetchHistory
      <4>1. PICK from \in Int : FetchedFrom(from, FALSE, f)
        BY <3>2, FetchHistoryIs
      <4>2. StoreFeed(Key, f) /\ call'.feed.cursor = LatestEnd(f.tf) /\ call'.feed.cursor \in Int /\ FALSE \in BOOLEAN
        BY <3>2, <4>1, FetchHistoryIs DEF FetchedFrom
      <4>3. Warmable
        BY <1>1, <2>1, <3>2 DEF ModeInv, Warming, Warmable
      <4>4. call'.feed.cursor = Present
        BY <2>4, <4>2, <4>3 DEF Present
      <4>5. clock = NULL \/ clock <= call'.feed.cursor
        BY <2>4, <4>3, <4>4 DEF Fresh, NotLate, clock, CursorAt
      <4>6. Covered(bars[Key], call'.feed.cursor)
        BY <1>1, <1>3, <2>2, <2>3, <2>6, <4>2, <4>5, CoveredOn
      <4> QED
        BY <4>1, <4>2, <4>6
    <3> QED
      BY <1>24, <3>1, <3>2
  <2>8. /\ call'.feed.cursor \in Int /\ call'.feed # NULL /\ call'.cursor = NULL /\ Head(call'.todo) = Key
        /\ Ordered(call'.bars, live, c, call'.feed.cursor)
    <3> HIDE DEF f
    <3>1. /\ call'.feed.cursor \in Int /\ call'.feed \in FeedRows(setting) /\ call'.cursor = call.cursor
          /\ call'.todo = call.todo /\ Ordered(call'.bars, live, c, call'.feed.cursor)
      BY <2>7 DEF FetchedFrom
    <3> QED
      BY <1>1, <2>2, <3>1, NullIsNone DEF Batching, Key
  <2>9. feeds'[Key] = f /\ \A b \in Assets : b # Key => feeds'[b] = feeds[b]
    BY <1>1, <2>2, <2>6, <2>7, StoredFeed
  <2>10. ASSUME NEW a \in Assets PROVE Standing(driven, call', model', feeds'[a], bars'[a], a)
    <3>1. CASE a = Key
      <4>1. Lined(bars[Key], call'.bars, call'.feed.cursor)
        BY <1>1, <1>3, <2>2, <2>7, <2>8, LinedUp
      <4> QED
        BY <2>1, <2>8, <3>1, <4>1 DEF Standing, ServedBy, TargetOf
    <3>2. CASE a # Key
      <4>1. ~ServedBy(call, a) /\ ~ServedBy(call', a)
        BY <2>1, <2>2, <2>8, <3>2 DEF ServedBy, Fetched, Batching
      <4> QED
        BY <1>2, <2>1, <2>9, <3>2, <4>1 DEF Standing
    <3> QED
      BY <3>1, <3>2
  <2> QED
    BY <1>4, <1>5, <1>6, <2>1, <2>10
<1>25. CASE EndFeed
  <2>1. /\ call.feed # NULL /\ call.bars = <<>> /\ StoreFeed(Key, call.feed) /\ WalkOn
        /\ UNCHANGED <<model, bars, disk>> /\ call.op \in {"step", "warmup"}
    BY <1>25 DEF EndFeed
  <2>2. call.todo # <<>> /\ ~Batching /\ ~driven
    BY <1>1, <2>1 DEF TypeInv, Shape, FetchShape, Fetched, ModeInv, driven
  <2>3. Key \in Assets /\ call.feed \in FeedRows(setting) /\ Key = Head(call.todo)
    BY <1>1, <2>1, <2>2, WalkedKey, CallIs DEF Key
  <2>4. call'.feed = NULL /\ call'.cursor = NULL
    BY <1>1, <2>1, <2>2 DEF Batching, WalkOn, CallTyped
  <2>5. feeds'[Key] = call.feed /\ \A b \in Assets : b # Key => feeds'[b] = feeds[b]
    BY <1>1, <2>1, <2>3, StoredFeed
  <2>6. ASSUME NEW a \in Assets PROVE Standing(driven, call', model', feeds'[a], bars'[a], a)
    <3>1. ~ServedBy(call', a)
      BY <2>4 DEF ServedBy
    <3>2. CASE a = Key
      <4>1. Covered(bars[a], call.feed.cursor)
        BY <1>2, <2>1, <2>3, <3>2 DEF Standing, ServedBy, TargetOf, Lined
      <4> QED
        BY <2>1, <2>2, <2>5, <3>1, <3>2, <4>1 DEF Standing, ClockOf, CursorAt
    <3>3. CASE a # Key
      <4>1. ~ServedBy(call, a)
        BY <2>2, <2>3, <3>3 DEF ServedBy, Batching
      <4> QED
        BY <1>2, <2>1, <2>5, <3>1, <3>3, <4>1 DEF Standing
    <3> QED
      BY <3>2, <3>3
  <2> QED
    BY <1>4, <1>5, <1>6, <2>1, <2>6
<1>26. CASE ProcessBar
  <2> DEFINE b == Head(call.bars)
  <2>1. /\ call.bars # <<>> /\ call.feed # NULL /\ call.op # "write" /\ UNCHANGED <<feeds, model, disk>>
        /\ ~Refused(b) => /\ bars' = [bars EXCEPT ![Key] = Append(@, b)]
                          /\ call' = [call EXCEPT !.bars = Tail(@)]
    BY <1>26 DEF ProcessBar
  <2>2. call.todo # <<>> /\ ~Batching
    BY <2>1 DEF TypeInv, Shape, FetchShape, Fetched
  <2>3. Key \in Assets /\ call.feed \in FeedRows(setting) /\ Key = Head(call.todo)
    BY <1>1, <2>1, <2>2, WalkedKey, CallIs DEF Key
  <2>4. b \in Bars(setting) /\ b = call.bars[1]
    BY <1>1, <2>1, NextBar
  <2> HIDE DEF b
  <2>5. /\ \A a \in Assets : bars'[a] = IF a = Key THEN Append(bars[a], b) ELSE bars[a]
        /\ call'.bars = Tail(call.bars) /\ call'.feed = call.feed /\ call'.todo = call.todo
        /\ call'.cursor = call.cursor
    <3>1. ~Refused(b)
      BY <1>1 DEF Refused
    <3> QED
      BY <1>1, <2>1, <2>3, <3>1 DEF LogsTyped, CallTyped
  <2>6. Lined(bars[Key], call.bars, call.feed.cursor) /\ Chain(bars[Key])
    BY <1>2, <2>1, <2>3 DEF Standing, ServedBy, TargetOf
  <2>7. call.feed.cursor \in Int
    BY <2>1, <2>3 DEF FeedRows, Cursors, TimedInv, Fetched
  <2>8. Chain(Append(bars[Key], b)) /\ Lined(Append(bars[Key], b), Tail(call.bars), call.feed.cursor)
    BY <1>1, <1>3, <2>1, <2>3, <2>4, <2>6, <2>7, LinedAppend
  <2>9. ASSUME NEW a \in Assets PROVE Chain(bars'[a]) /\ Standing(driven, call', model', feeds'[a], bars'[a], a)
    <3>1. CASE a = Key
      BY <2>1, <2>3, <2>5, <2>8, <3>1 DEF Standing, ServedBy, TargetOf
    <3>2. CASE a # Key
      <4>1. ~ServedBy(call, a) /\ ~ServedBy(call', a)
        BY <2>2, <2>3, <2>5, <3>2 DEF ServedBy, Batching
      <4> QED
        BY <1>2, <2>1, <2>5, <3>2, <4>1 DEF Standing
    <3> QED
      BY <3>1, <3>2
  <2> QED
    BY <1>4, <1>6, <2>1, <2>9 DEF Chains
<1>27. CASE StartModel
  <2>1. /\ ModelSpecOK(RequestKeys) /\ UNCHANGED <<feeds, bars, disk>> /\ call.op = "modelstart"
        /\ model' = [model EXCEPT !.cursor = ModelCursor]
        /\ call' = [call EXCEPT !.op = "start", !.todo = RequestKeys]
    BY <1>27 DEF StartModel
  <2>2. model'.cursor = ModelCursor /\ call'.feed = call.feed /\ call'.cursor = call.cursor
    BY <1>1, <2>1 DEF ModelTyped, CallTyped
  <2>3. ~Fetched /\ ~Batching /\ ~Fetched' /\ ~Batching'
    BY <2>1, <2>2 DEF TypeInv, Shape, FetchShape, BatchShape, Fetched, Batching
  <2>4. model.cursor # NULL => model'.cursor = model.cursor
    BY <1>1, <2>1, <2>2, ModelTimeframeIs
  <2>5. Stands
    BY <1>7, <2>1, <2>3, <2>4 DEF ClockOf
  <2> QED
    BY <1>4, <1>5, <1>6, <2>1, <2>5
<1>28. CASE PlanBatches
  <2> DEFINE tf == ModelTimeframe(RequestKeys)
             live == call.op = "batch"
  <2>1. /\ ModelSpecOK(RequestKeys) /\ UNCHANGED <<feeds, model, bars, disk>>
        /\ call.op \in {"batch", "batchwarmup"} /\ call.cursor = NULL
    BY <1>28 DEF PlanBatches, memory
  <2>2. driven /\ ~Fetched
    BY <1>1, <2>1 DEF ModeInv, driven, TypeInv, Shape, FetchShape
  <2>3. PICK n \in Nat, from \in Int :
          /\ live => from = call'.cursor
          /\ ~live => from + n * tf = call'.cursor /\ n # 0 /\ call'.cursor = LatestEnd(tf)
          /\ Contiguous(call'.bars, live, from, from + n * tf) /\ Len(call'.bars) = n
    BY <1>28, PlannedIs
  <2>4. /\ live => call'.cursor = ModelCursor
        /\ call'.feed = NULL /\ call'.bars \in Seq(Bars(setting)) /\ call'.cursor \in Int /\ call'.cursor # NULL
    BY <1>28, PlannedIs
  <2>5. /\ model.cursor # NULL => ModelCursor = model.cursor
        /\ tf \in Spans /\ tf \in setting.timeframes
    BY <1>1, <2>1, ModelTimeframeIs
  <2>6. ~live => tf = DefaultTimeframe /\ Warmable /\ NotLate(model.cursor, Present)
    <3> SUFFICES ASSUME ~live PROVE tf = DefaultTimeframe /\ Warmable /\ NotLate(model.cursor, Present)
      OBVIOUS
    <3>1. Warmable
      BY <1>1, <2>1 DEF ModeInv, Warming, Warmable
    <3> QED
      BY <1>1, <2>5, <3>1 DEF Steady, Warmable, FreshInv
  <2> DEFINE e == from + n * tf
             target == TargetOf(call')
  <2>7. target = IF n = 0 THEN call'.cursor ELSE e
    BY <2>3, <2>4, Elements DEF TargetOf, Contiguous
  <2>8. ~live => target = Present
    BY <2>3, <2>6, <2>7 DEF Present
  <2> HIDE DEF live, tf
  <2>9. e \in Int
    BY <2>5, Multiples
  <2>10. Contiguous(call'.bars, live, from, e)
    BY <2>3
  <2> HIDE DEF e, target
  <2>11. target \in Int /\ (live => from = call'.cursor) /\ (live /\ n = 0 => target = from)
    BY <2>3, <2>4, <2>7, <2>9
  <2>12. n # 0 => target = e
    BY <2>7
  <2>13. Ordered(call'.bars, live, from, target)
    <3>1. CASE n = 0
      <4>1. call'.bars = <<>>
        BY <2>3, <2>4, <3>1, Elements
      <4>2. DOMAIN call'.bars = {}
        BY <4>1
      <4> QED
        BY <4>2 DEF Ordered
    <3>2. CASE n # 0
      BY <2>10, <2>12, <3>2 DEF Ordered, Contiguous
    <3> QED
      BY <3>1, <3>2
  <2>14. live => from <= target
    <3>1. CASE n = 0
      BY <2>11, <3>1
    <3>2. CASE n # 0
      <4>1. call'.bars # <<>>
        BY <2>3, <2>4, <3>2, Elements
      <4>2. 1 \in DOMAIN call'.bars
        BY <2>4, <4>1, Elements
      <4>3. /\ call'.bars[1].from \in Int /\ call'.bars[1].to \in Int
            /\ from <= call'.bars[1].from /\ call'.bars[1].from < call'.bars[1].to /\ call'.bars[1].to <= target
        BY <2>13, <4>2 DEF Ordered
      <4> QED
        BY <2>11, <4>3
    <3> QED
      BY <3>1, <3>2
  <2>15. ASSUME NEW a \in Assets PROVE Standing(driven, call', model', feeds'[a], bars'[a], a)
    <3>1. Covered(bars[a], model.cursor)
      BY <1>2, <2>1, <2>2 DEF Standing, ServedBy, Fetched, ClockOf
    <3>2. live => Covered(bars[a], from)
      <4> SUFFICES ASSUME live PROVE Covered(bars[a], from)
        OBVIOUS
      <4>1. from = ModelCursor /\ from <= from
        BY <2>4, <2>11
      <4>2. model.cursor = NULL \/ model.cursor <= from
        BY <2>5, <4>1
      <4> QED
        BY <1>1, <1>3, <3>1, <4>2, CoveredOn
    <3>3. Covered(bars[a], target)
      <4>1. CASE live
        BY <1>1, <1>3, <2>11, <2>14, <3>2, <4>1, CoveredOn DEF Cursors
      <4>2. CASE ~live
        BY <1>1, <1>3, <2>6, <2>8, <2>11, <3>1, <4>2, CoveredOn DEF NotLate
      <4> QED
        BY <4>1, <4>2
    <3>4. live \in BOOLEAN
      BY DEF live
    <3>5. Lined(bars[a], call'.bars, target)
      BY <1>1, <1>3, <2>11, <2>13, <3>2, <3>3, <3>4, LinedUp
    <3> QED
      BY <2>1, <2>4, <3>5 DEF Standing, ServedBy, target
  <2> QED
    BY <1>4, <1>5, <1>6, <2>1, <2>15
<1>29. CASE ProcessBatch
  <2> DEFINE b == Head(call.bars)
             target == TargetOf(call)
  <2>1. /\ call.bars # <<>> /\ UNCHANGED <<model, disk>> /\ call.cursor # NULL /\ call.op # "write"
    BY <1>29 DEF ProcessBatch
  <2>2. call.feed = NULL
    BY <2>1 DEF TypeInv, Shape, BatchShape, Fetched, Batching
  <2>3. /\ b \in Bars(setting) /\ b = call.bars[1] /\ b.to \in Int
        /\ Tail(call.bars) \in Seq(Bars(setting)) /\ Len(Tail(call.bars)) = Len(call.bars) - 1
        /\ \A i \in DOMAIN Tail(call.bars) : Tail(call.bars)[i] = call.bars[i + 1]
    BY <1>1, <1>3, <2>1, NextBar, Dropped
  <2>4. ~Refused(b)
    BY <1>1 DEF Refused
  <2>5. /\ call'.bars = Tail(call.bars) /\ call'.cursor = b.to /\ call'.feed = call.feed
        /\ \A a \in Assets \ Requested : bars'[a] = bars[a]
        /\ \A a \in Requested : \E price \in Assets : bars'[a] = Append(bars[a], [b EXCEPT !.open = price])
    BY <1>29, <2>4, BatchedIs
  <2> HIDE DEF b
  <2>6. TargetOf(call') = target /\ target \in Int /\ target # NULL
    BY <1>1, <2>1, <2>2, <2>5, TargetStays DEF b
  <2> HIDE DEF target
  <2>7. ASSUME NEW a \in Assets PROVE Chain(bars'[a]) /\ Standing(driven, call', model', feeds'[a], bars'[a], a)
    <3>1. ServedBy(call, a) /\ ServedBy(call', a)
      BY <1>1, <2>1, <2>3, <2>5 DEF ServedBy
    <3>2. Lined(bars[a], call.bars, target) /\ Chain(bars[a])
      BY <1>2, <3>1 DEF Standing, target
    <3>3. CASE a \in Requested
      <4>1. PICK price \in Assets : bars'[a] = Append(bars[a], [b EXCEPT !.open = price])
        BY <2>5, <3>3
      <4> DEFINE e == [b EXCEPT !.open = price]
      <4>2. e \in Bars(setting) /\ e.to = b.to /\ e.from = b.from /\ e.live = b.live
        BY <2>3 DEF Bars, Assets
      <4> HIDE DEF e
      <4>3. Chain(Append(bars[a], e)) /\ Lined(Append(bars[a], e), Tail(call.bars), target)
        BY <1>1, <1>3, <2>1, <2>3, <2>6, <3>2, <4>2, LinedAppend
      <4>4. bars'[a] = Append(bars[a], e)
        BY <4>1 DEF e
      <4> QED
        BY <2>5, <2>6, <3>1, <4>3, <4>4 DEF Standing
    <3>4. CASE a \notin Requested
      <4>1. Lined(bars[a], Tail(call.bars), target)
        BY <1>3, <2>1, <3>2, LinedSkip
      <4> QED
        BY <2>5, <2>6, <3>1, <3>2, <3>4, <4>1 DEF Standing
    <3> QED
      BY <3>3, <3>4
  <2> QED
    BY <1>4, <1>6, <2>1, <2>7 DEF Chains
<1>30. CASE EndBatches
  <2>1. /\ UNCHANGED <<feeds, bars, disk>> /\ call' = Idle /\ call.bars = <<>> /\ call.cursor # NULL
        /\ call.op \in {"batch", "batchwarmup"} /\ model' = [model EXCEPT !.cursor = call.cursor]
    BY <1>30 DEF EndBatches
  <2>2. model'.cursor = call.cursor /\ driven /\ call.feed = NULL /\ call'.feed = NULL /\ call'.cursor = NULL
    BY <1>1, <2>1 DEF ModelTyped, ModeInv, driven, TypeInv, Shape, BatchShape, Fetched, Batching, Idle
  <2>3. ASSUME NEW a \in Assets PROVE Standing(driven, call', model', feeds'[a], bars'[a], a)
    <3>1. Lined(bars[a], <<>>, call.cursor)
      BY <1>2, <2>1, <2>2 DEF Standing, ServedBy, TargetOf
    <3>2. Covered(bars[a], call.cursor)
      BY <3>1 DEF Lined
    <3> QED
      BY <2>1, <2>2, <3>2 DEF Standing, ServedBy, ClockOf
  <2> QED
    BY <1>4, <1>5, <1>6, <2>1, <2>3
(* A finished save is the state it was begun in. *)
<1>31. CASE WriteFile
  <2>1. UNCHANGED <<bars, feeds, model>> /\ call.op = "write"
    BY <1>31 DEF WriteFile, memory
  <2>2. PICK k \in 1 .. 6 :
          /\ k = 6 => call' = Idle /\ \A f \in FileNames : disk'[f] = Content[f]
          /\ k # 6 => call' = call
    BY <1>1, <1>31, WrittenIs
  <2>3. ~Fetched /\ ~Batching /\ ~Fetched' /\ ~Batching'
    BY <2>1, <2>2 DEF TypeInv, Shape, CallShape, Fetched, Batching, Idle
  <2>4. Stands
    BY <1>7, <2>1, <2>3
  <2>5. DiskStands
    <3>1. CASE k # 6
      BY <2>1, <2>2, <3>1 DEF DiskStands
    <3>2. CASE k = 6
      <4>1. /\ disk'["market_events"] = bars /\ disk'["market_model"] = model
            /\ disk'["feed_configs"] = FeedConfigs
        BY <1>1, <2>2, <3>2, ContentIs DEF FileNames
      <4>2. ASSUME NEW a \in Assets
            PROVE  ClockOf(driven, model, FeedConfigs.rows[a]) = ClockOf(driven, model, feeds[a])
        <5>1. FeedConfigs.rows[a] = IF feeds[a] = NULL THEN NULL ELSE [feeds[a] EXCEPT !.start = NULL]
          BY <1>1, ContentIs
        <5>2. feeds[a] # NULL => /\ [feeds[a] EXCEPT !.start = NULL].cursor = feeds[a].cursor
                                 /\ [feeds[a] EXCEPT !.start = NULL] # NULL
          <6>1. feeds[a] # NULL => feeds[a] \in FeedRows(setting)
            BY <1>1 DEF FeedsTyped
          <6>2. feeds[a] # NULL => [feeds[a] EXCEPT !.start = NULL] \in FeedRows(setting)
            BY <6>1 DEF FeedRows, Cursors
          <6> QED
            BY <1>1, <6>1, <6>2, NullIsNone DEF FeedRows
        <5> QED
          BY <5>1, <5>2 DEF ClockOf, CursorAt
      <4>3. \A a \in Assets : Chain(bars[a]) /\ Covered(bars[a], ClockOf(driven, model, feeds[a]))
        BY <1>2, <2>3 DEF Standing, ServedBy, Fetched, Batching
      <4> QED
        BY <4>1, <4>2, <4>3 DEF DiskStands
    <3> QED
      BY <3>1, <3>2
  <2> QED
    BY <1>4, <1>5, <2>1, <2>4, <2>5
<1>32. CASE Crash
  <2>1. /\ AsNew' /\ disk' = disk /\ call'.feed = NULL /\ call'.cursor = NULL /\ New' = New
        /\ call.op = "idle" \/ MayTear
    BY <1>1, <1>32, CrashIs
  <2>2. \A a \in Assets : bars'[a] = <<>>
    BY <2>1 DEF AsNew, New
  <2>3. Chains /\ Stands
    BY <2>1, <2>2, NoBars DEF Chains, Standing, ServedBy
  <2> QED
    BY <1>1, <1>4, <1>6, <2>1, <2>3
<1>33. CASE Load
  <2>1. /\ Complete /\ call.op = "down" /\ call' = Idle /\ disk' = disk /\ model' = disk["market_model"]
        /\ feeds' = disk["feed_configs"].rows /\ bars' = disk["market_events"]
    BY <1>1, <1>33, LoadIs
  <2>2. DiskLines
    BY <1>2, <2>1
  <2>3. Chains /\ Stands
    BY <2>1, <2>2 DEF Chains, Standing, ServedBy, Idle
  <2> QED
    BY <1>4, <1>6, <2>1, <2>3
<1> QED
  BY <1>20, <1>21, <1>22, <1>23, <1>24, <1>25, <1>26, <1>27, <1>28, <1>29, <1>30, <1>31, <1>32, <1>33, Kinds

(* LiveBarsDoNotOverlap: live bars are made from a cursor on that covers   *)
(* the live bars of the log, and every call, save and load keeps it so.    *)
THEOREM TimeIsSimulatedOnce == Spec => []LiveBarsDoNotOverlap
<1> DEFINE IInv == TypeInv /\ TornInv /\ TimedInv /\ ModeInv /\ FreshInv /\ LineInv
<1>1. Init => IInv
  BY TypedInit, TornInit, TimedInit, ModeInit, FreshInit, LineInit
<1>2. IInv /\ [Next]_vars => IInv'
  BY TypedNext, TornNext, TimedNext, ModeNext, FreshNext, LineNext
<1>3. IInv => LiveBarsDoNotOverlap
  BY DEF LineInv, LiveBarsDoNotOverlap, Orderly, Chain
<1> QED
  BY <1>1, <1>2, <1>3, PTL DEF Spec

-----------------------------------------------------------------------------
(* Under a market model every feed with bars stands where the model does. *)

Follows(c, m, f, log) ==
  log # <<>> =>
    /\ CursorAt(f) # NULL
    /\ IF c.cursor # NULL THEN f.cursor = c.cursor \/ (c.op = "batchwarmup" /\ c.bars # <<>>)
       ELSE f.cursor = m.cursor

(* Feeds with bars stand where their model stands, or, while it plans      *)
(* batches, where the last of them ended.                                  *)
FollowInv ==
  Orderly /\ setting.model =>
    /\ \A a \in Assets : Follows(call, model, feeds[a], bars[a])
    /\ call.op # "write" /\ Complete =>
         \A a \in Assets : Follows(Idle, disk["market_model"], disk["feed_configs"].rows[a], disk["market_events"][a])

LEMMA FollowInit ==
  Init => FollowInv
<1> SUFFICES ASSUME Init PROVE FollowInv
  OBVIOUS
<1>1. \A a \in Assets : bars[a] = <<>>
  BY DEF Init, New
<1>2. ~Complete
  BY FilesAre DEF Init, Complete, Saved, FileNames
<1> QED
  BY <1>1, <1>2 DEF FollowInv, Follows

LEMMA FollowNext ==
  ASSUME TypeInv, TornInv, ModeInv, FollowInv, [Next]_vars
  PROVE  FollowInv'
<1> SUFFICES ASSUME Orderly, ~torn, setting.model, setting' = setting PROVE FollowInv'
  BY DEF TornInv, FollowInv, Orderly, Steady, MayTear, MayStepAlone, Next, vars
<1> DEFINE Follow == \A a \in Assets : Follows(call', model', feeds'[a], bars'[a])
           DiskFollows == call'.op # "write" /\ Complete' =>
             \A a \in Assets :
               Follows(Idle, disk'["market_model"], disk'["feed_configs"].rows[a], disk'["market_events"][a])
<1>1. /\ setting \in Settings /\ CallTyped /\ WellTyped /\ FeedsTyped /\ ModelTyped /\ ClockTyped /\ LogsTyped
      /\ Assets' = Assets /\ Idle' = Idle /\ NULL \notin Int
      /\ "reset" \notin setting.calls /\ "model" \notin setting.calls /\ ~MayTear /\ ~MayStepAlone /\ Steady
      /\ setting.closed = {}
  BY AssetsStay, NullIsNone DEF TypeInv, WellTyped, Shape, Orderly, Steady, Idle
<1>2. /\ \A a \in Assets : Follows(call, model, feeds[a], bars[a])
      /\ call.op # "write" /\ Complete =>
           \A a \in Assets : Follows(Idle, disk["market_model"], disk["feed_configs"].rows[a], disk["market_events"][a])
  BY DEF FollowInv
<1>3. Follow /\ DiskFollows => FollowInv'
  <2> SUFFICES ASSUME Follow, DiskFollows PROVE FollowInv'
    OBVIOUS
  <2>1. (\A a \in Assets : Follows(call, model, feeds[a], bars[a]))'
    BY <1>1
  <2>2. (call.op # "write" /\ Complete =>
           \A a \in Assets : Follows(Idle, disk["market_model"], disk["feed_configs"].rows[a],
                                     disk["market_events"][a]))'
    BY <1>1
  <2> QED
    BY <2>1, <2>2 DEF FollowInv
<1>4. disk' = disk /\ call.op # "write" => DiskFollows
  BY <1>2 DEF Complete, Saved
<1> HIDE DEF DiskFollows
<1>5. Idle.cursor = NULL /\ Idle.op = "idle"
  BY DEF Idle
<1>6. \A a \in Assets : ~Batching => /\ bars[a] # <<>> => CursorAt(feeds[a]) # NULL /\ feeds[a].cursor = model.cursor
  BY <1>2 DEF Follows, Batching
<1>7. ASSUME bars' = bars, ~Batching, ~Batching',
             \A a \in Assets : CursorAt(feeds[a]) # NULL =>
               /\ CursorAt(feeds'[a]) # NULL /\ feeds'[a].cursor = feeds[a].cursor
               /\ model'.cursor = model.cursor \/ feeds[a].cursor # model.cursor
      PROVE  Follow
  BY <1>6, <1>7 DEF Follows, Batching
<1>8. ~call.op \in {"step", "warmup"}
  BY <1>1 DEF ModeInv
<1>9. \A a \in Assets : CursorAt(feeds[a]) # NULL =>
        feeds[a] # NULL /\ Contains(keys, a) /\ feeds[a].cursor = CursorAt(feeds[a]) /\ a \in Requested
  BY <1>1 DEF CursorAt, FeedsTyped, Requested
<1>10. CASE UNCHANGED vars
  <2>1. UNCHANGED <<bars, feeds, model, call, disk>>
    BY <1>10 DEF vars, memory
  <2>2. DiskFollows
    BY <1>2, <2>1 DEF DiskFollows, Complete, Saved
  <2> QED
    BY <1>2, <1>3, <2>1, <2>2
<1>11. CASE Quietly
  BY <1>3, <1>4, <1>7, <1>11 DEF Quietly
<1>12. CASE \E a \in Assets, f \in FeedRows(setting) : Placed(a, f)
  <2>1. PICK a \in Assets, f \in FeedRows(setting) : Placed(a, f)
    BY <1>12
  <2>2. UNCHANGED <<model, bars, disk>> /\ ~Batching /\ ~Batching' /\ call.op # "write"
    BY <2>1 DEF Placed
  <2>3. \A b \in Assets : CursorAt(feeds[b]) # NULL => CursorAt(feeds'[b]) = CursorAt(feeds[b])
    BY <1>1, <2>1, PlacedKeeps
  <2>4. Follow
    BY <1>7, <2>2, <2>3 DEF CursorAt
  <2> QED
    BY <1>3, <1>4, <2>2, <2>4
<1>13. CASE Switched
  BY <1>1, <1>13 DEF Switched
<1>14. CASE FetchFeed \/ FetchHistory \/ EndFeed \/ ProcessBar
  BY <1>8, <1>14 DEF FetchFeed, FetchHistory, EndFeed, ProcessBar, Walking
<1>15. CASE StartModel
  <2>1. /\ ModelSpecOK(RequestKeys) /\ UNCHANGED <<feeds, bars, disk>> /\ call.op = "modelstart"
        /\ model' = [model EXCEPT !.cursor = ModelCursor]
        /\ call' = [call EXCEPT !.op = "start", !.todo = RequestKeys]
    BY <1>15 DEF StartModel
  <2>2. model'.cursor = ModelCursor /\ call'.cursor = call.cursor
    BY <1>1, <2>1 DEF ModelTyped, CallTyped
  <2>3. ~Batching /\ ~Batching'
    BY <2>1, <2>2 DEF TypeInv, Shape, BatchShape, Batching
  <2>4. model.cursor # NULL => model'.cursor = model.cursor
    BY <1>1, <2>1, <2>2, ModelTimeframeIs
  <2>5. Follow
    BY <1>7, <1>9, <2>1, <2>3, <2>4
  <2> QED
    BY <1>3, <1>4, <2>1, <2>5
<1>16. CASE PlanBatches
  <2>1. /\ ModelSpecOK(RequestKeys) /\ UNCHANGED <<feeds, model, bars, disk>>
        /\ call.op \in {"batch", "batchwarmup"} /\ call.cursor = NULL
    BY <1>16 DEF PlanBatches, memory
  <2>2. /\ call.op = "batch" => call'.cursor = ModelCursor
        /\ call.op = "batchwarmup" => call'.bars # <<>>
        /\ call'.cursor # NULL /\ call'.op = call.op
    <3>1. /\ call.op = "batch" => call'.cursor = ModelCursor
          /\ call'.cursor # NULL /\ call'.op = call.op /\ call'.bars \in Seq(Bars(setting))
          /\ \E n \in Nat : Len(call'.bars) = n /\ (call.op # "batch" => n # 0)
      BY <1>16, PlannedIs
    <3>2. call'.bars = <<>> <=> Len(call'.bars) = 0
      BY <3>1, Elements
    <3> QED
      BY <3>1, <3>2
  <2>3. model.cursor # NULL => ModelCursor = model.cursor
    BY <1>1, <2>1, ModelTimeframeIs
  <2>4. ASSUME NEW a \in Assets PROVE Follows(call', model', feeds'[a], bars'[a])
    BY <1>6, <1>9, <2>1, <2>2, <2>3 DEF Follows, Batching
  <2> QED
    BY <1>3, <1>4, <2>1, <2>4
<1>17. CASE ProcessBatch
  <2> DEFINE b == Head(call.bars)
  <2>1. /\ call.bars # <<>> /\ UNCHANGED <<model, disk>> /\ call.cursor # NULL /\ call.op # "write"
    BY <1>17 DEF ProcessBatch
  <2>2. b.to \in Int /\ ~Refused(b)
    BY <1>1, <2>1, NextBar DEF Refused
  <2>3. /\ \A a \in Requested : feeds'[a].cursor = b.to /\ feeds'[a] # NULL
        /\ call'.cursor = b.to /\ \A a \in Assets \ Requested : bars'[a] = bars[a]
    BY <1>17, <2>2, BatchedIs
  <2> HIDE DEF b
  <2>4. ASSUME NEW a \in Assets PROVE Follows(call', model', feeds'[a], bars'[a])
    <3>1. CASE a \in Requested
      BY <1>1, <2>2, <2>3, <3>1 DEF Follows, CursorAt
    <3>2. CASE a \notin Requested
      <4>1. bars'[a] = <<>>
        BY <1>2, <1>9, <2>3, <3>2 DEF Follows
      <4> QED
        BY <4>1 DEF Follows
    <3> QED
      BY <3>1, <3>2
  <2> QED
    BY <1>3, <1>4, <2>1, <2>4
<1>18. CASE EndBatches
  <2>1. /\ UNCHANGED <<feeds, bars, disk>> /\ call' = Idle /\ call.bars = <<>> /\ call.cursor # NULL
        /\ call.op # "write" /\ model' = [model EXCEPT !.cursor = call.cursor]
    BY <1>18 DEF EndBatches
  <2>2. model'.cursor = call.cursor
    BY <1>1, <2>1 DEF ModelTyped
  <2>3. Follow
    BY <1>2, <1>5, <2>1, <2>2 DEF Follows
  <2> QED
    BY <1>3, <1>4, <2>1, <2>3
<1>19. CASE WriteFile
  <2>1. UNCHANGED <<bars, feeds, model>> /\ call.op = "write"
    BY <1>19 DEF WriteFile, memory
  <2>2. PICK k \in 1 .. 6 :
          /\ k = 6 => call' = Idle /\ \A f \in FileNames : disk'[f] = Content[f]
          /\ k # 6 => call' = call
    BY <1>1, <1>19, WrittenIs
  <2>3. ~Batching /\ ~Batching'
    BY <2>1, <2>2 DEF TypeInv, Shape, CallShape, Batching, Idle
  <2>4. Follow
    BY <1>7, <2>1, <2>3
  <2>5. DiskFollows
    <3>1. CASE k # 6
      BY <2>1, <2>2, <3>1 DEF DiskFollows
    <3>2. CASE k = 6
      <4>1. /\ disk'["market_events"] = bars /\ disk'["market_model"] = model
            /\ disk'["feed_configs"] = FeedConfigs
        BY <1>1, <2>2, <3>2, ContentIs DEF FileNames
      <4>2. ASSUME NEW a \in Assets PROVE Follows(Idle, model, FeedConfigs.rows[a], bars[a])
        <5>1. FeedConfigs.rows[a] = IF feeds[a] = NULL THEN NULL ELSE [feeds[a] EXCEPT !.start = NULL]
          BY <1>1, ContentIs
        <5>2. feeds[a] # NULL => /\ [feeds[a] EXCEPT !.start = NULL].cursor = feeds[a].cursor
                                 /\ [feeds[a] EXCEPT !.start = NULL] # NULL
          <6>1. feeds[a] # NULL => feeds[a] \in FeedRows(setting)
            BY <1>1 DEF FeedsTyped
          <6>2. feeds[a] # NULL => [feeds[a] EXCEPT !.start = NULL] \in FeedRows(setting)
            BY <6>1 DEF FeedRows, Cursors
          <6> QED
            BY <1>1, <6>1, <6>2, NullIsNone DEF FeedRows
        <5> QED
          BY <1>5, <1>6, <1>9, <2>3, <5>1, <5>2 DEF Follows, CursorAt
      <4> QED
        BY <4>1, <4>2 DEF DiskFollows
    <3> QED
      BY <3>1, <3>2
  <2> QED
    BY <1>3, <2>4, <2>5
<1>20. CASE Crash
  <2>1. /\ AsNew' /\ disk' = disk /\ New' = New /\ (call.op = "idle" \/ MayTear)
    BY <1>1, <1>20, CrashIs
  <2>2. \A a \in Assets : bars'[a] = <<>>
    BY <2>1 DEF AsNew, New
  <2>3. Follow
    BY <2>2 DEF Follows
  <2> QED
    BY <1>1, <1>3, <1>4, <2>1, <2>3
<1>21. CASE Load
  <2>1. /\ Complete /\ call.op = "down" /\ call' = Idle /\ disk' = disk /\ model' = disk["market_model"]
        /\ feeds' = disk["feed_configs"].rows /\ bars' = disk["market_events"]
    BY <1>1, <1>21, LoadIs
  <2>2. Follow
    BY <1>2, <2>1
  <2> QED
    BY <1>3, <1>4, <2>1, <2>2
<1> QED
  BY <1>10, <1>11, <1>12, <1>13, <1>14, <1>15, <1>16, <1>17, <1>18, <1>19, <1>20, <1>21, Kinds DEF Next

(* FeedsFollowModel: every batch moves all feeds that have bars, and the   *)
(* model is moved to the last batch when the call ends.                    *)
THEOREM FeedsStandWithModel == Spec => []FeedsFollowModel
<1> DEFINE IInv == TypeInv /\ TornInv /\ ModeInv /\ FollowInv
<1>1. Init => IInv
  BY TypedInit, TornInit, ModeInit, FollowInit
<1>2. IInv /\ [Next]_vars => IInv'
  BY TypedNext, TornNext, ModeNext, FollowNext
<1>3. IInv => FeedsFollowModel
  <2> SUFFICES ASSUME TypeInv, TornInv, ModeInv, FollowInv, call = Idle, model.active, Steady, setting.closed = {},
                      ~MayTear, ~MayStepAlone, NEW a \in ToSet(keys), bars[a] # <<>>
               PROVE  feeds[a].cursor = model.cursor
    BY DEF FeedsFollowModel
  <2>1. a \in Assets
    BY Elements DEF TypeInv, WellTyped, FeedsTyped
  <2>2. setting.model /\ call.cursor = NULL
    BY DEF TornInv, ModeInv, Idle
  <2> QED
    BY <2>1, <2>2 DEF FollowInv, Orderly, Follows
<1> QED
  BY <1>1, <1>2, <1>3, PTL DEF Spec

-----------------------------------------------------------------------------
(* A log has bars up to the clock of its feed, in memory and on disk. *)

Reaches(log, c) == \E i \in DOMAIN log : log[i].to >= c

NoGap(log) == \A i \in 2 .. Len(log) : log[i].live => \E j \in 1 .. i - 1 : log[j].to >= log[i].from

Reach(log, c) == log # <<>> => c # NULL /\ Reaches(log, c)

(* What a log will have when the rest of the bars are appended to it. *)
Fed(log, rest, target) ==
  IF rest = <<>> THEN log # <<>> => Reaches(log, target)
  ELSE /\ rest[Len(rest)].to >= target
       /\ rest[1].live /\ log # <<>> => Reaches(log, rest[1].from)
       /\ \A j \in DOMAIN rest : j + 1 \in DOMAIN rest /\ rest[j + 1].live => rest[j].to >= rest[j + 1].from

NotBefore(c, d) == c # NULL => d # NULL /\ c <= d

(* While a call has bars for an asset, its clock has not moved yet, and the *)
(* bars of a step come after it.  A warmup may leave its log for a while   *)
(* without a bar up to the clock.                                          *)
Reached(driven, c, m, f, log, a) ==
  LET clock == ClockOf(driven, m, f)
      warm  == c.op \in {"warmup", "batchwarmup"}
  IN /\ (warm /\ ServedBy(c, a)) \/ Reach(log, clock)
     /\ ServedBy(c, a) =>
          /\ f = NULL \/ Fed(log, c.bars, TargetOf(c))
          /\ NotBefore(clock, TargetOf(c))
          /\ ~warm /\ c.bars # <<>> => clock # NULL /\ \A j \in DOMAIN c.bars : clock <= c.bars[j].to

(* A model that has no cursor yet has moved no feed. *)
Untouched(m, l, rows) ==
  m.cursor = NULL => \A a \in Assets : l.cursor = NULL /\ CursorAt(rows[a]) = NULL

Traced == ~setting.late /\ Steady /\ ~MayStepAlone

GapInv ==
  ~torn /\ Traced =>
    /\ \A a \in Assets : NoGap(bars[a]) /\ Reached(setting.model, call, model, feeds[a], bars[a], a)
    /\ setting.model /\ ~(Batching /\ Warming) => Untouched(model, last, feeds)
    /\ setting.model /\ model.cursor = NULL => \A a \in Assets : call.last.cursor = NULL
    /\ Saved("market_events") => \A a \in Assets : NoGap(disk["market_events"][a])
    /\ Complete =>
         /\ \A a \in Assets :
              LET clock == ClockOf(setting.model, disk["market_model"], disk["feed_configs"].rows[a])
                  saved == disk["market_events"][a]
              IN /\ call.op # "down" => NotBefore(clock, ClockOf(setting.model, model, feeds[a]))
                 /\ saved # <<>> => /\ clock # NULL => Reaches(saved, clock)
                                    /\ call.op # "write" => clock # NULL
         /\ setting.model => Untouched(disk["market_model"], disk["feed_status"], disk["feed_configs"].rows)

LEMMA ReachesLess ==
  ASSUME NEW log \in Seq(Bars(setting)), NEW c \in Int, NEW d \in Int, d <= c, Reaches(log, c)
  PROVE  Reaches(log, d)
<1>1. PICK i \in DOMAIN log : log[i].to >= c
  BY DEF Reaches
<1>2. log[i] \in Bars(setting)
  BY Elements
<1>3. log[i].to \in Int
  BY <1>2 DEF Bars
<1> QED
  BY <1>1, <1>3 DEF Reaches

LEMMA FedUp ==
  ASSUME NEW log, NEW rest \in Seq(Bars(setting)), NEW live \in BOOLEAN, NEW from \in Int, NEW target \in Int,
         Contiguous(rest, live, from, target),
         rest = <<>> /\ log # <<>> => Reaches(log, target),
         live /\ log # <<>> => Reaches(log, from)
  PROVE  Fed(log, rest, target)
<1>1. CASE rest = <<>>
  BY <1>1 DEF Fed
<1>2. CASE rest # <<>>
  <2>1. /\ rest[1].live = live /\ rest[1].from = from /\ rest[Len(rest)].to = target
        /\ \A j \in DOMAIN rest : /\ rest[j].from \in Int /\ rest[j].to \in Int
                                  /\ j + 1 \in DOMAIN rest => rest[j].to = rest[j + 1].from
    BY <1>2, Elements DEF Contiguous
  <2>2. \A j \in DOMAIN rest : j + 1 \in DOMAIN rest => rest[j].to >= rest[j + 1].from
    BY <2>1
  <2>3. rest[Len(rest)].to >= target
    BY <2>1
  <2> QED
    BY <1>2, <2>1, <2>2, <2>3 DEF Fed
<1> QED
  BY <1>1, <1>2

(* The first bar of the rest is appended to the log. *)
LEMMA FedAppend ==
  ASSUME NEW log \in Seq(Bars(setting)), NEW rest \in Seq(Bars(setting)), rest # <<>>,
         NEW target \in Int, NoGap(log), Fed(log, rest, target),
         NEW e \in Bars(setting), e.to = rest[1].to, e.from = rest[1].from, e.live = rest[1].live
  PROVE  /\ NoGap(Append(log, e)) /\ Fed(Append(log, e), Tail(rest), target)
         /\ \A c \in Int : c <= e.to => Reach(Append(log, e), c) \/ c = NULL
<1> DEFINE more == Append(log, e)
           tail == Tail(rest)
<1>1. /\ Len(log) \in Nat /\ DOMAIN log = 1 .. Len(log) /\ DOMAIN more = 1 .. Len(log) + 1
      /\ Len(more) = Len(log) + 1 /\ more # <<>>
      /\ more[Len(log) + 1] = e /\ \A i \in 1 .. Len(log) : more[i] = log[i]
  BY Appended, Elements
<1>2. /\ tail \in Seq(Bars(setting)) /\ Len(tail) = Len(rest) - 1 /\ Len(rest) \in Nat
      /\ DOMAIN rest = 1 .. Len(rest) /\ DOMAIN tail = 1 .. Len(tail)
      /\ \A i \in DOMAIN tail : i + 1 \in DOMAIN rest /\ tail[i] = rest[i + 1]
      /\ tail = <<>> <=> Len(tail) = 0
  BY Dropped, Elements
<1>3. /\ rest[Len(rest)].to >= target
      /\ rest[1].live /\ log # <<>> => Reaches(log, rest[1].from)
      /\ \A j \in DOMAIN rest : j + 1 \in DOMAIN rest /\ rest[j + 1].live => rest[j].to >= rest[j + 1].from
  BY DEF Fed
<1>4. e.to \in Int /\ Len(log) + 1 \in DOMAIN more
  BY <1>1 DEF Bars
<1> HIDE DEF more, tail
<1>5. \A c : e.to >= c => Reaches(more, c)
  BY <1>1, <1>4 DEF Reaches
<1>6. NoGap(more)
  <2> SUFFICES ASSUME NEW i \in 2 .. Len(more), more[i].live
               PROVE  \E j \in 1 .. i - 1 : more[j].to >= more[i].from
    BY DEF NoGap
  <2>1. CASE i \in 2 .. Len(log)
    <3>1. PICK j \in 1 .. i - 1 : log[j].to >= log[i].from
      <4>1. log[i].live
        BY <1>1, <2>1
      <4> QED
        BY <2>1, <4>1 DEF NoGap
    <3>2. j \in 1 .. Len(log) /\ i \in 1 .. Len(log)
      BY <1>1, <2>1
    <3> QED
      BY <1>1, <3>1, <3>2
  <2>2. CASE i = Len(log) + 1
    <3>1. Len(log) # 0
      BY <1>1, <2>2
    <3>2. log # <<>>
      BY <3>1, Elements
    <3>3. rest[1].live /\ more[i] = e
      BY <1>1, <2>2
    <3>4. PICK j \in DOMAIN log : log[j].to >= e.from
      BY <1>3, <3>2, <3>3 DEF Reaches
    <3>5. j \in 1 .. i - 1 /\ more[j] = log[j]
      BY <1>1, <2>2, <3>4
    <3> QED
      BY <3>3, <3>4, <3>5
  <2> QED
    BY <1>1, <2>1, <2>2
<1>7. Fed(more, tail, target)
  <2>1. CASE tail = <<>>
    <3>1. Len(rest) = 1
      BY <1>2, <2>1
    <3>2. e.to >= target
      BY <1>3, <3>1
    <3> QED
      BY <1>5, <2>1, <3>2 DEF Fed
  <2>2. CASE tail # <<>>
    <3>1. Len(tail) \in DOMAIN tail /\ 1 \in DOMAIN tail /\ Len(tail) + 1 = Len(rest)
      BY <1>2, <2>2
    <3>2. tail[Len(tail)].to >= target
      BY <1>2, <1>3, <3>1
    <3>3. \A j \in DOMAIN tail : j + 1 \in DOMAIN tail /\ tail[j + 1].live => tail[j].to >= tail[j + 1].from
      <4> SUFFICES ASSUME NEW j \in DOMAIN tail, j + 1 \in DOMAIN tail, tail[j + 1].live
                   PROVE  tail[j].to >= tail[j + 1].from
        OBVIOUS
      <4>1. j + 1 \in DOMAIN rest /\ tail[j] = rest[j + 1]
        BY <1>2
      <4>2. (j + 1) + 1 \in DOMAIN rest /\ tail[j + 1] = rest[(j + 1) + 1]
        BY <1>2
      <4> QED
        BY <1>3, <4>1, <4>2
    <3>4. tail[1].live => Reaches(more, tail[1].from)
      <4>1. 1 \in DOMAIN rest /\ 1 + 1 \in DOMAIN rest /\ tail[1] = rest[1 + 1]
        BY <1>2, <3>1
      <4>2. tail[1].live => e.to >= tail[1].from
        BY <1>3, <4>1
      <4> QED
        BY <1>5, <4>2
    <3> QED
      BY <2>2, <3>2, <3>3, <3>4 DEF Fed
  <2> QED
    BY <2>1, <2>2
<1>8. \A c \in Int : c <= e.to => Reach(more, c) \/ c = NULL
  BY <1>4, <1>5 DEF Reach
<1> QED
  BY <1>6, <1>7, <1>8 DEF more, tail

LEMMA GapInit ==
  Init => GapInv
<1> SUFFICES ASSUME Init PROVE GapInv
  OBVIOUS
<1>1. /\ \A a \in Assets : bars[a] = <<>> /\ feeds[a] = NULL
      /\ call.feed = NULL /\ call.cursor = NULL /\ last.cursor = NULL /\ call.last.cursor = NULL
  BY DEF Init, New, Idle, NoFeed
<1>2. ~Complete /\ ~Saved("market_events")
  BY FilesAre DEF Init, Complete, Saved, FileNames
<1>3. \A a \in Assets : NoGap(bars[a]) /\ Reached(setting.model, call, model, feeds[a], bars[a], a)
  <2>1. NoGap(<<>>)
    BY DEF NoGap
  <2> QED
    BY <1>1, <2>1 DEF Reached, ServedBy, Reach
<1> QED
  BY <1>1, <1>2, <1>3 DEF GapInv, Untouched, CursorAt

LEMMA GapNext ==
  ASSUME TypeInv, TypeInv', TornInv, TimedInv, KeptInv, ModeInv, FreshInv, GapInv, [Next]_vars
  PROVE  GapInv'
<1> SUFFICES ASSUME Traced, setting' = setting, ~torn, ~torn' PROVE GapInv'
  BY TornNext DEF GapInv, Traced, Steady, MayStepAlone, Next, vars
<1> DEFINE driven == setting.model
           Clock(a) == ClockOf(driven, model, feeds[a])
           Then(a) == ClockOf(driven, model', feeds'[a])
           DiskClock(a) == ClockOf(driven, disk["market_model"], disk["feed_configs"].rows[a])
           DiskThen(a) == ClockOf(driven, disk'["market_model"], disk'["feed_configs"].rows[a])
           Traces == \A a \in Assets : NoGap(bars'[a]) /\ Reached(driven, call', model', feeds'[a], bars'[a], a)
           Idles == driven /\ ~(Batching' /\ Warming') => Untouched(model', last', feeds')
           Lasting == driven /\ model'.cursor = NULL => \A a \in Assets : call'.last.cursor = NULL
           DiskLogs == Saved("market_events")' => \A a \in Assets : NoGap(disk'["market_events"][a])
           DiskReach ==
             Complete' =>
               \A a \in Assets :
                 /\ call'.op # "down" => NotBefore(DiskThen(a), Then(a))
                 /\ disk'["market_events"][a] # <<>> =>
                      /\ DiskThen(a) # NULL => Reaches(disk'["market_events"][a], DiskThen(a))
                      /\ call'.op # "write" => DiskThen(a) # NULL
           DiskIdles ==
             Complete' /\ driven => Untouched(disk'["market_model"], disk'["feed_status"], disk'["feed_configs"].rows)
<1>1. /\ setting \in Settings /\ CallTyped /\ WellTyped /\ FeedsTyped /\ ModelTyped /\ ClockTyped /\ LogsTyped
      /\ WellTyped' /\ FeedsTyped' /\ ModelTyped' /\ LogsTyped' /\ CallTyped'
      /\ Assets' = Assets /\ NULL \notin Int
      /\ "reset" \notin setting.calls /\ "model" \notin setting.calls /\ ~MayStepAlone /\ Steady
      /\ ~setting.late
  BY AssetsStay, NullIsNone DEF TypeInv, WellTyped, Shape, Traced, Steady
<1>2. /\ \A a \in Assets : NoGap(bars[a]) /\ Reached(driven, call, model, feeds[a], bars[a], a)
      /\ driven /\ ~(Batching /\ Warming) => Untouched(model, last, feeds)
      /\ driven /\ model.cursor = NULL => \A a \in Assets : call.last.cursor = NULL
      /\ Saved("market_events") => \A a \in Assets : NoGap(disk["market_events"][a])
      /\ Complete =>
           /\ \A a \in Assets :
                /\ call.op # "down" => NotBefore(DiskClock(a), Clock(a))
                /\ disk["market_events"][a] # <<>> =>
                     /\ DiskClock(a) # NULL => Reaches(disk["market_events"][a], DiskClock(a))
                     /\ call.op # "write" => DiskClock(a) # NULL
           /\ driven => Untouched(disk["market_model"], disk["feed_status"], disk["feed_configs"].rows)
  BY DEF GapInv
<1>3. /\ \A a \in Assets : /\ bars[a] \in Seq(Bars(setting))
                           /\ CursorAt(feeds[a]) \in Cursors /\ CursorAt(feeds'[a]) \in Cursors
                           /\ Clock(a) \in Cursors /\ Then(a) \in Cursors
      /\ model.cursor \in Cursors /\ call.cursor \in Cursors /\ call.bars \in Seq(Bars(setting))
  <2>1. \A a \in Assets : /\ feeds[a] # NULL => feeds[a].cursor \in Cursors
                          /\ feeds'[a] # NULL => feeds'[a].cursor \in Cursors
    BY <1>1 DEF FeedsTyped, FeedRows
  <2>2. \A a \in Assets : CursorAt(feeds[a]) \in Cursors /\ CursorAt(feeds'[a]) \in Cursors
    BY <2>1 DEF CursorAt, Cursors
  <2>3. model.cursor \in Cursors /\ model'.cursor \in Cursors
    BY <1>1 DEF ModelTyped
  <2> QED
    BY <1>1, <2>2, <2>3, CallIs DEF LogsTyped, ClockOf
<1>4. Complete => \A a \in Assets : /\ DiskClock(a) \in Cursors
                                    /\ disk["market_events"][a] \in Seq(Bars(setting))
  <2> SUFFICES ASSUME Complete, NEW a \in Assets
               PROVE  DiskClock(a) \in Cursors /\ disk["market_events"][a] \in Seq(Bars(setting))
    OBVIOUS
  <2>1. /\ disk["feed_configs"] \in Configs(setting)
        /\ disk["market_model"] \in [active : BOOLEAN, cursor : Cursors]
        /\ disk["market_events"] \in [Assets -> Seq(Bars(setting))]
    BY <1>1, TablesAre DEF WellTyped, DiskTyped, Complete, Saved, FileNames, Assets
  <2>2. disk["feed_configs"].rows[a] \in FeedRows(setting) \cup {NULL}
    BY <2>1 DEF Configs, Assets
  <2>3. CursorAt(disk["feed_configs"].rows[a]) \in Cursors
    BY <2>2 DEF CursorAt, FeedRows, Cursors
  <2> QED
    BY <2>1, <2>3 DEF ClockOf
<1>5. Traces /\ Idles /\ Lasting /\ DiskLogs /\ DiskReach /\ DiskIdles => GapInv'
  <2> SUFFICES ASSUME Traces, Idles, Lasting, DiskLogs, DiskReach, DiskIdles PROVE GapInv'
    OBVIOUS
  <2>1. (\A a \in Assets : NoGap(bars[a]) /\ Reached(setting.model, call, model, feeds[a], bars[a], a))'
    BY <1>1
  <2>2. (setting.model /\ ~(Batching /\ Warming) => Untouched(model, last, feeds))'
    BY <1>1 DEF Untouched
  <2>3. (Saved("market_events") => \A a \in Assets : NoGap(disk["market_events"][a]))'
    BY <1>1
  <2>4. (Complete =>
           \A a \in Assets :
             LET clock == ClockOf(setting.model, disk["market_model"], disk["feed_configs"].rows[a])
                 saved == disk["market_events"][a]
             IN /\ call.op # "down" => NotBefore(clock, ClockOf(setting.model, model, feeds[a]))
                /\ saved # <<>> => /\ clock # NULL => Reaches(saved, clock)
                                   /\ call.op # "write" => clock # NULL)'
    BY <1>1
  <2>5. (Complete /\ setting.model =>
           Untouched(disk["market_model"], disk["feed_status"], disk["feed_configs"].rows))'
    BY <1>1 DEF Untouched
  <2>6. (setting.model /\ model.cursor = NULL => \A a \in Assets : call.last.cursor = NULL)'
    BY <1>1
  <2> QED
    BY <2>1, <2>2, <2>3, <2>4, <2>5, <2>6 DEF GapInv
<1> HIDE DEF driven, Idles, DiskLogs, DiskReach, DiskIdles, Clock, Then, DiskClock, DiskThen
(* Where the disk is left alone, it is enough that no clock goes back. *)
<1>6. disk' = disk => DiskLogs /\ DiskIdles
  BY <1>2 DEF DiskLogs, DiskIdles, Complete, Saved
<1>7. ASSUME disk' = disk, call.op \notin {"write", "down"}, \A a \in Assets : NotBefore(Clock(a), Then(a))
      PROVE  DiskReach
  <2> SUFFICES ASSUME Complete, NEW a \in Assets
               PROVE  /\ NotBefore(DiskClock(a), Then(a))
                      /\ disk["market_events"][a] # <<>> =>
                           DiskClock(a) # NULL /\ Reaches(disk["market_events"][a], DiskClock(a))
    BY <1>7 DEF DiskReach, DiskThen, DiskClock, Complete, Saved
  <2>1. NotBefore(DiskClock(a), Clock(a)) /\ NotBefore(Clock(a), Then(a))
    BY <1>2, <1>7
  <2>2. NotBefore(DiskClock(a), Then(a))
    BY <1>1, <1>3, <1>4, <2>1 DEF NotBefore, Cursors
  <2> QED
    BY <1>2, <1>7, <2>2
<1>8. \A c \in Cursors : NotBefore(c, c)
  BY DEF NotBefore, Cursors
(* A clock that does not move, or where there was none, is still reached. *)
<1>9. ASSUME bars' = bars, ~Fetched, ~Batching, ~Fetched', ~Batching',
             \A a \in Assets : Clock(a) # NULL => Then(a) = Clock(a)
      PROVE  Traces /\ \A a \in Assets : NotBefore(Clock(a), Then(a))
  <2>1. ASSUME NEW a \in Assets PROVE Reached(driven, call', model', feeds'[a], bars'[a], a)
    <3>1. ~ServedBy(call, a) /\ ~ServedBy(call', a)
      BY <1>9 DEF ServedBy, Fetched, Batching
    <3>2. Reach(bars[a], Clock(a))
      BY <1>2, <3>1 DEF Reached, Clock
    <3>3. Reach(bars'[a], Then(a))
      BY <1>9, <3>2 DEF Reach
    <3> QED
      BY <3>1, <3>3 DEF Reached, Then
  <2> QED
    BY <1>2, <1>3, <1>8, <1>9, <2>1 DEF NotBefore
<1>10. ASSUME NEW a \in Assets, NEW f \in FeedRows(setting), Placed(a, f) \/ (StoreFeed(a, f) /\ f = Selected(a)),
              model' = model
       PROVE  \A b \in Assets : Clock(b) # NULL => Then(b) = Clock(b)
  BY <1>1, <1>10, PlacedKeeps DEF Clock, Then, ClockOf
<1>11. driven /\ model'.cursor # NULL => Idles
  BY DEF Idles, Untouched
<1>12. ~driven => Idles
  BY DEF Idles
<1>13. Lasting
  <2> SUFFICES ASSUME driven, model'.cursor = NULL, NEW a \in Assets PROVE call'.last.cursor = NULL
    BY DEF Lasting
  <2>1. NoFeed.cursor = NULL
    BY DEF NoFeed
  <2>2. model.cursor = NULL \/ call'.last = NoFeed
    <3>1. CASE model' = model
      BY <3>1
    <3>2. CASE StartModel
      <4>1. ModelSpecOK(RequestKeys) /\ model' = [model EXCEPT !.cursor = ModelCursor]
        BY <3>2 DEF StartModel
      <4>2. model'.cursor = ModelCursor
        BY <1>1, <4>1 DEF ModelTyped
      <4> QED
        BY <1>1, <4>1, <4>2, ModelTimeframeIs
    <3>3. CASE EndBatches
      <4>1. call.cursor # NULL /\ model' = [model EXCEPT !.cursor = call.cursor]
        BY <3>3 DEF EndBatches
      <4> QED
        BY <1>1, <4>1 DEF ModelTyped
    <3>4. CASE Crash \/ Load
      BY <3>4 DEF Crash, Load, Idle
    <3>5. \/ model' = model \/ StartModel \/ EndBatches \/ Crash \/ Load
      <4>1. CASE UNCHANGED vars
        BY <4>1 DEF vars, memory
      <4>2. CASE Quietly \/ Switched \/ \E b \in Assets, f \in FeedRows(setting) : Placed(b, f)
        BY <1>1, <4>2 DEF Quietly, Switched, Placed
      <4>3. CASE FetchFeed \/ FetchHistory \/ ProcessBar \/ EndFeed \/ PlanBatches \/ ProcessBatch \/ WriteFile
        BY <4>3 DEF FetchFeed, FetchHistory, ProcessBar, EndFeed, PlanBatches, ProcessBatch, WriteFile, memory
      <4> QED
        BY <4>1, <4>2, <4>3, Kinds DEF Next
    <3> QED
      BY <3>1, <3>2, <3>3, <3>4, <3>5
  <2>3. CASE call'.last = call.last
    BY <1>2, <2>1, <2>2, <2>3
  <2>4. CASE call = Idle /\ call'.last = last /\ UNCHANGED <<model, last, feeds>>
    <3>1. ~Batching
      BY <2>4 DEF Batching, Idle
    <3> QED
      BY <1>2, <2>4, <3>1 DEF Untouched
  <2> QED
    BY <2>1, <2>3, <2>4, LastIs
<1> HIDE DEF Lasting
<1>20. CASE UNCHANGED vars
  <2>1. UNCHANGED <<bars, feeds, model, call, disk, last>>
    BY <1>20 DEF vars, memory
  <2>2. Traces
    BY <1>2, <2>1
  <2>3. Idles
    BY <1>2, <2>1 DEF Idles, Batching, Warming
  <2>4. DiskReach
    BY <1>2, <2>1 DEF DiskReach, DiskClock, DiskThen, Clock, Then, Complete, Saved
  <2> QED
    BY <1>5, <1>13, <1>6, <2>1, <2>2, <2>3, <2>4
<1>21. CASE Quietly
  <2>1. /\ UNCHANGED <<bars, feeds, model, disk, last>> /\ ~Fetched /\ ~Batching /\ ~Fetched' /\ ~Batching'
        /\ call.op \notin {"write", "down"}
    BY <1>21 DEF Quietly
  <2>2. Traces /\ \A a \in Assets : NotBefore(Clock(a), Then(a))
    BY <1>9, <2>1 DEF Clock, Then
  <2>3. Idles
    BY <1>2, <2>1 DEF Idles
  <2> QED
    BY <1>5, <1>13, <1>6, <1>7, <2>1, <2>2, <2>3
<1>22. CASE \E a \in Assets, f \in FeedRows(setting) : Placed(a, f)
  <2>1. PICK a \in Assets, f \in FeedRows(setting) : Placed(a, f)
    BY <1>22
  <2>2. /\ UNCHANGED <<bars, model, disk>> /\ ~Fetched /\ ~Batching /\ ~Fetched' /\ ~Batching'
        /\ call.op \notin {"write", "down"} /\ StoreFeed(a, f)
    BY <2>1 DEF Placed
  <2>3. Traces /\ \A b \in Assets : NotBefore(Clock(b), Then(b))
    BY <1>9, <1>10, <2>1, <2>2
  <2>4. Idles
    <3> SUFFICES ASSUME driven, model.cursor = NULL PROVE Untouched(model', last', feeds')
      BY <1>11, <2>2 DEF Idles, Untouched
    <3>1. \A b \in Assets : last.cursor = NULL /\ CursorAt(feeds[b]) = NULL
      BY <1>2, <2>2 DEF Untouched
    <3>2. call.op # "start"
      BY <1>1 DEF ModeInv, driven
    <3>3. f.cursor = NULL
      <4>1. Contains(keys, a) => feeds[a] # NULL /\ feeds[a].cursor = NULL
        BY <1>1, <3>1 DEF FeedsTyped, CursorAt
      <4>2. Inherited(a).cursor = NULL
        BY <1>1, <3>1, <4>1, InheritedIs
      <4>3. Selected(a).cursor = NULL
        <5>1. ~Contains(keys, a) => Selected(a).cursor = NULL
          BY <1>1, SelectedIs DEF DefaultFeed
        <5> QED
          BY <1>1, <4>1, <5>1, SelectedIs
      <4> QED
        BY <1>1, <2>1, <3>2, <4>2, <4>3 DEF Placed
    <3>4. /\ feeds'[a] = f /\ f # NULL /\ \A b \in Assets : b # a => feeds'[b] = feeds[b]
          /\ last'.cursor = f.cursor
      BY <1>1, <2>2, StoredFeed, NullIsNone
    <3> QED
      BY <3>1, <3>3, <3>4 DEF Untouched, CursorAt
  <2> QED
    BY <1>5, <1>13, <1>6, <1>7, <2>2, <2>3, <2>4
<1>23. CASE Switched
  BY <1>1, <1>23 DEF Switched
(* Bars that are fetched begin where the log of the feed ends. *)
<1>24. CASE FetchFeed \/ FetchHistory
  <2> DEFINE f == Selected(Key)
  <2>1. /\ call.todo # <<>> /\ UNCHANGED <<model, bars, disk>> /\ call.op \notin {"write", "down"} /\ ~Fetched
        /\ call.op \in {"step", "warmup"} /\ (FetchFeed => call.op = "step") /\ (FetchHistory => call.op = "warmup")
    BY <1>24 DEF FetchFeed, FetchHistory, Walking, Fetched
  <2>2. Key \in Assets /\ ~driven /\ ~Batching
    <3>1. ~Batching
      BY <2>1 DEF TypeInv, Shape, BatchShape
    <3> QED
      BY <1>1, <2>1, <3>1, WalkedKey DEF ModeInv, driven
  <2>3. Reach(bars[Key], Clock(Key)) /\ NoGap(bars[Key]) /\ Clock(Key) = CursorAt(feeds[Key])
    BY <1>2, <2>1, <2>2 DEF Reached, ServedBy, Fetched, Batching, Clock, ClockOf
  <2>4. /\ Fresh(feeds[Key], Warmable, Present) /\ f.start = NULL /\ (Warmable => f.tf = DefaultTimeframe)
    <3>1. Fresh(feeds[Key], Warmable, Present)
      BY <1>1, <2>2 DEF FreshInv
    <3> QED
      BY <1>1, <2>2, <3>1, FreshSelected
  <2>5. f \in FeedRows(setting) /\ StoreFeed(Key, f) /\ f.tf \in Spans /\ f.cursor \in Cursors
    <3>1. f \in FeedRows(setting) /\ f.tf \in Spans
      BY <1>1, <2>2, SelectedIs
    <3> QED
      BY <1>24, <3>1, FetchIs, FetchHistoryIs DEF FeedRows
  <2>6. /\ \A b \in Assets : Clock(b) # NULL => Then(b) = Clock(b)
        /\ Then(Key) = f.cursor
    <3>1. feeds'[Key] = f /\ f # NULL
      BY <1>1, <2>2, <2>5, StoredFeed, NullIsNone
    <3> QED
      BY <1>10, <2>1, <2>2, <2>5, <3>1 DEF Then, ClockOf, CursorAt
  <2>7. \A b \in Assets : NotBefore(Clock(b), Then(b))
    BY <1>3, <1>8, <2>6 DEF NotBefore
  <2>8. /\ call'.feed.cursor \in Int /\ call'.feed # NULL /\ call'.cursor = NULL /\ Head(call'.todo) = Key
        /\ call'.op = call.op /\ call'.bars \in Seq(Bars(setting))
    <3>1. PICK c \in Int, live \in BOOLEAN : FetchedFrom(c, live, f)
      <4>1. FetchFeed => FetchedFrom(CursorOf(f.cursor, f.start, f.tf), TRUE, f)
        BY FetchIs
      <4>2. CursorOf(f.cursor, f.start, f.tf) \in Int /\ TRUE \in BOOLEAN /\ FALSE \in BOOLEAN
        BY <1>1, <2>4, <2>5, CursorIs DEF Cursors
      <4>3. FetchHistory => \E from \in Int : FetchedFrom(from, FALSE, f)
        BY FetchHistoryIs
      <4> QED
        BY <1>24, <4>1, <4>2, <4>3
    <3> HIDE DEF f
    <3>2. /\ call'.feed.cursor \in Int /\ call'.feed \in FeedRows(setting) /\ call'.cursor = call.cursor
          /\ call'.todo = call.todo /\ call'.op = call.op /\ call'.bars \in Seq(Bars(setting))
      BY <3>1 DEF FetchedFrom
    <3> QED
      BY <1>1, <2>2, <3>2, NullIsNone DEF Batching, Key
  <2> DEFINE target == call'.feed.cursor
  <2>9. /\ Fed(bars[Key], call'.bars, target) /\ NotBefore(Then(Key), target)
        /\ FetchFeed /\ call'.bars # <<>> => /\ Then(Key) # NULL
                                             /\ \A j \in DOMAIN call'.bars : Then(Key) <= call'.bars[j].to
    <3>1. CASE FetchFeed
      <4> DEFINE c == CursorOf(f.cursor, f.start, f.tf)
      <4>1. FetchedFrom(c, TRUE, f) /\ (c = LatestEnd(f.tf) => call'.bars = <<>>)
        BY <3>1, FetchIs
      <4> HIDE DEF f
      <4>2. c \in Int /\ (f.cursor # NULL => c = f.cursor) /\ (f.cursor = NULL => c = LatestEnd(f.tf))
        <5>1. f.start \in Cursors
          BY <2>4 DEF Cursors
        <5> QED
          BY <1>1, <2>4, <2>5, <5>1, CursorIs
      <4> HIDE DEF c
      <4>3. /\ Contiguous(call'.bars, TRUE, c, target) /\ (call'.bars = <<>> => target = c)
            /\ c <= target /\ target \in Int
        BY <1>1, <4>1 DEF FetchedFrom
      <4>4. bars[Key] # <<>> => Reaches(bars[Key], c)
        <5> SUFFICES ASSUME bars[Key] # <<>> PROVE Reaches(bars[Key], c)
          OBVIOUS
        <5>1. Clock(Key) # NULL /\ Reaches(bars[Key], Clock(Key))
          BY <2>3 DEF Reach
        <5>2. Clock(Key) = c
          BY <2>2, <2>6, <4>2, <5>1
        <5> QED
          BY <5>1, <5>2
      <4>5. TRUE \in BOOLEAN
        OBVIOUS
      <4>6. Fed(bars[Key], call'.bars, target)
        BY <2>8, <4>2, <4>3, <4>4, <4>5, FedUp
      <4>7. NotBefore(Then(Key), target)
        BY <1>1, <2>6, <4>2, <4>3 DEF NotBefore
      <4>8. ASSUME call'.bars # <<>> PROVE Then(Key) # NULL /\ \A j \in DOMAIN call'.bars : Then(Key) <= call'.bars[j].to
        <5>1. f.cursor # NULL /\ c = f.cursor
          BY <4>1, <4>2, <4>8
        <5>2. \A j \in DOMAIN call'.bars : /\ call'.bars[j].from \in Int /\ call'.bars[j].to \in Int
                                           /\ c <= call'.bars[j].from /\ call'.bars[j].from < call'.bars[j].to
          BY <4>3 DEF Contiguous
        <5>3. \A j \in DOMAIN call'.bars : c <= call'.bars[j].to
          BY <4>2, <5>2
        <5> QED
          BY <2>6, <5>1, <5>3
      <4> QED
        BY <4>6, <4>7, <4>8
    <3>2. CASE FetchHistory
      <4>1. PICK from \in Int : FetchedFrom(from, FALSE, f)
        BY <3>2, FetchHistoryIs
      <4>2. target = LatestEnd(f.tf) /\ call'.bars # <<>>
        BY <3>2, FetchHistoryIs
      <4>3. Warmable
        BY <1>1, <2>1, <3>2 DEF ModeInv, Warming, Warmable
      <4>4. target = Present
        BY <2>4, <4>2, <4>3 DEF Present
      <4>5. Then(Key) = NULL \/ Then(Key) = Clock(Key)
        <5>1. Contains(keys, Key) => f = feeds[Key] /\ feeds[Key] # NULL
          BY <1>1, <2>2, SelectedIs
        <5>2. ~Contains(keys, Key) => f.cursor = NULL
          BY <1>1, <2>2, SelectedIs DEF DefaultFeed
        <5> QED
          BY <2>3, <2>6, <5>1, <5>2 DEF CursorAt
      <4>6. NotBefore(Then(Key), target)
        BY <1>1, <2>3, <2>4, <2>8, <4>3, <4>4, <4>5 DEF Fresh, NotLate, NotBefore, CursorAt
      <4> HIDE DEF f
      <4>7. Contiguous(call'.bars, FALSE, from, target) /\ FALSE \in BOOLEAN
        BY <4>1 DEF FetchedFrom
      <4>8. Fed(bars[Key], call'.bars, target)
        BY <2>8, <4>2, <4>7, FedUp
      <4>9. ~FetchFeed
        BY <2>1, <3>2
      <4> QED
        BY <4>6, <4>8, <4>9
    <3> QED
      BY <1>24, <3>1, <3>2
  <2> HIDE DEF f
  <2>10. ASSUME NEW a \in Assets PROVE Reached(driven, call', model', feeds'[a], bars'[a], a)
    <3>1. Reach(bars[a], Clock(a)) /\ ~ServedBy(call, a)
      BY <1>2, <2>1, <2>2 DEF Reached, ServedBy, Fetched, Batching, Clock
    <3>2. Reach(bars'[a], Then(a))
      BY <2>1, <2>6, <3>1 DEF Reach
    <3>3. CASE a = Key
      <4>1. TargetOf(call') = target
        BY <2>8 DEF TargetOf
      <4>2. call'.op \notin {"warmup", "batchwarmup"} => FetchFeed
        BY <1>24, <2>1, <2>8
      <4> QED
        BY <2>1, <2>9, <3>2, <3>3, <4>1, <4>2 DEF Reached, Then
    <3>4. CASE a # Key
      <4>1. ~ServedBy(call', a)
        BY <2>8, <3>4 DEF ServedBy
      <4> QED
        BY <3>2, <4>1 DEF Reached, Then
    <3> QED
      BY <3>3, <3>4
  <2>11. Traces
    BY <1>2, <2>1, <2>10
  <2> QED
    BY <1>5, <1>13, <1>6, <1>7, <1>12, <2>1, <2>2, <2>7, <2>11
<1>25. CASE EndFeed
  <2>1. /\ call.feed # NULL /\ call.bars = <<>> /\ StoreFeed(Key, call.feed) /\ WalkOn
        /\ UNCHANGED <<model, bars, disk>> /\ call.op \in {"step", "warmup"}
    BY <1>25 DEF EndFeed
  <2>2. call.todo # <<>> /\ ~Batching /\ ~driven
    BY <1>1, <2>1 DEF TypeInv, Shape, FetchShape, Fetched, ModeInv, driven
  <2>3. Key \in Assets /\ call.feed \in FeedRows(setting) /\ Key = Head(call.todo) /\ feeds[Key] # NULL
    <3>1. Contains(keys, Key)
      BY <2>1 DEF TypeInv, Shape, FetchShape, Fetched
    <3> QED
      BY <1>1, <2>1, <2>2, <3>1, WalkedKey, CallIs DEF Key, FeedsTyped
  <2>4. call'.feed = NULL /\ call'.cursor = NULL
    BY <1>1, <2>1, <2>2 DEF Batching, WalkOn, CallTyped
  <2>5. feeds'[Key] = call.feed /\ \A b \in Assets : b # Key => feeds'[b] = feeds[b]
    BY <1>1, <2>1, <2>3, StoredFeed
  <2>6. Then(Key) = call.feed.cursor /\ call.feed.cursor # NULL /\ \A b \in Assets : b # Key => Then(b) = Clock(b)
    BY <2>1, <2>2, <2>3, <2>5 DEF Then, Clock, ClockOf, CursorAt, TimedInv, Fetched
  <2>7. /\ NotBefore(Clock(Key), call.feed.cursor)
        /\ bars[Key] # <<>> => Reaches(bars[Key], call.feed.cursor)
    BY <1>2, <2>1, <2>3 DEF Reached, ServedBy, TargetOf, Fed, Clock
  <2>8. \A a \in Assets : NotBefore(Clock(a), Then(a))
    BY <1>3, <1>8, <2>6, <2>7
  <2>9. ASSUME NEW a \in Assets PROVE Reached(driven, call', model', feeds'[a], bars'[a], a)
    <3>1. ~ServedBy(call', a)
      BY <2>4 DEF ServedBy
    <3>2. Reach(bars[a], Then(a))
      <4>1. CASE a = Key
        BY <2>6, <2>7, <4>1 DEF Reach
      <4>2. CASE a # Key
        <5>1. ~ServedBy(call, a)
          BY <2>2, <2>3, <4>2 DEF ServedBy, Batching
        <5> QED
          BY <1>2, <2>6, <4>2, <5>1 DEF Reached, Clock
      <4> QED
        BY <4>1, <4>2
    <3> QED
      BY <2>1, <3>1, <3>2 DEF Reached, Then
  <2>10. Traces
    BY <1>2, <2>1, <2>9
  <2> QED
    BY <1>5, <1>13, <1>6, <1>7, <1>12, <2>1, <2>2, <2>8, <2>10
<1>26. CASE ProcessBar
  <2> DEFINE b == Head(call.bars)
  <2>1. /\ call.bars # <<>> /\ call.feed # NULL /\ call.op \in {"step", "warmup"} /\ UNCHANGED <<feeds, model, disk>>
        /\ \/ Refused(b) /\ call' = Idle /\ bars' = bars
           \/ /\ bars' = [bars EXCEPT ![Key] = Append(@, b)]
              /\ call' = [call EXCEPT !.bars = Tail(@)]
    BY <1>26 DEF ProcessBar
  <2>2. call.todo # <<>> /\ ~Batching /\ Contains(keys, Key) /\ ~driven
    BY <1>1, <2>1 DEF TypeInv, Shape, FetchShape, Fetched, ModeInv, driven
  <2>3. Key \in Assets /\ call.feed \in FeedRows(setting) /\ Key = Head(call.todo) /\ feeds[Key] # NULL
    BY <1>1, <2>1, <2>2, WalkedKey, CallIs DEF Key, FeedsTyped
  <2>4. b \in Bars(setting) /\ b = call.bars[1] /\ 1 \in DOMAIN call.bars /\ b.to \in Int
    BY <1>1, <2>1, NextBar
  <2>5. call.op = "warmup" => ~Refused(b)
    BY <2>4 DEF Refused, TypeInv, Shape, CallShape, Warming
  <2> HIDE DEF b
  <2>6. \A a \in Assets : Then(a) = Clock(a) /\ NotBefore(Clock(a), Then(a))
    BY <1>3, <1>8, <2>1 DEF Then, Clock
  <2>7. CASE Refused(b) /\ call' = Idle /\ bars' = bars
    <3>1. ASSUME NEW a \in Assets PROVE Reached(driven, call', model', feeds'[a], bars'[a], a)
      <4>1. ~ServedBy(call', a)
        BY <2>7 DEF ServedBy, Idle
      <4>2. Reach(bars[a], Clock(a))
        BY <1>2, <2>1, <2>5, <2>7 DEF Reached, Clock
      <4> QED
        BY <2>6, <2>7, <4>1, <4>2 DEF Reached, Then
    <3>2. Traces
      BY <1>2, <2>7, <3>1
    <3> QED
      BY <1>5, <1>13, <1>6, <1>7, <1>12, <2>1, <2>2, <2>6, <3>2
  <2>8. CASE bars' = [bars EXCEPT ![Key] = Append(@, b)] /\ call' = [call EXCEPT !.bars = Tail(@)]
    <3>1. /\ \A a \in Assets : bars'[a] = IF a = Key THEN Append(bars[a], b) ELSE bars[a]
          /\ call'.bars = Tail(call.bars) /\ call'.feed = call.feed /\ call'.todo = call.todo
          /\ call'.cursor = call.cursor /\ call'.op = call.op
      BY <1>1, <2>3, <2>8 DEF LogsTyped, CallTyped
    <3>2. /\ Fed(bars[Key], call.bars, call.feed.cursor) /\ NoGap(bars[Key])
          /\ NotBefore(Clock(Key), call.feed.cursor)
          /\ call.op # "warmup" => Clock(Key) # NULL /\ \A j \in DOMAIN call.bars : Clock(Key) <= call.bars[j].to
      BY <1>2, <2>1, <2>3 DEF Reached, ServedBy, TargetOf, Clock
    <3>3. call.feed.cursor \in Int
      BY <2>1, <2>3 DEF FeedRows, Cursors, TimedInv, Fetched
    <3>4. /\ NoGap(Append(bars[Key], b)) /\ Fed(Append(bars[Key], b), Tail(call.bars), call.feed.cursor)
          /\ \A c \in Int : c <= b.to => Reach(Append(bars[Key], b), c) \/ c = NULL
      BY <1>3, <2>1, <2>3, <2>4, <3>2, <3>3, FedAppend
    <3>5. call.op # "warmup" =>
            /\ Reach(Append(bars[Key], b), Clock(Key))
            /\ \A j \in DOMAIN Tail(call.bars) : Clock(Key) <= Tail(call.bars)[j].to
      <4> SUFFICES ASSUME call.op # "warmup"
                   PROVE  /\ Reach(Append(bars[Key], b), Clock(Key))
                          /\ \A j \in DOMAIN Tail(call.bars) : Clock(Key) <= Tail(call.bars)[j].to
        OBVIOUS
      <4>1. Clock(Key) \in Int /\ Clock(Key) # NULL /\ Clock(Key) <= b.to
        BY <1>3, <2>3, <2>4, <3>2 DEF Cursors
      <4>2. \A j \in DOMAIN Tail(call.bars) : j + 1 \in DOMAIN call.bars /\ Tail(call.bars)[j] = call.bars[j + 1]
        BY <1>1, <2>1, NextBar
      <4> QED
        BY <3>2, <3>4, <4>1, <4>2
    <3>6. ASSUME NEW a \in Assets
          PROVE  NoGap(bars'[a]) /\ Reached(driven, call', model', feeds'[a], bars'[a], a)
      <4>1. CASE a = Key
        <5>1. TargetOf(call') = call.feed.cursor /\ ServedBy(call', Key)
          BY <2>1, <2>3, <3>1 DEF TargetOf, ServedBy
        <5>2. call'.op \in {"warmup", "batchwarmup"} <=> call.op = "warmup"
          BY <2>1, <3>1
        <5> QED
          BY <2>3, <2>6, <3>1, <3>2, <3>4, <3>5, <4>1, <5>1, <5>2 DEF Reached, Then
      <4>2. CASE a # Key
        <5>1. ~ServedBy(call, a) /\ ~ServedBy(call', a)
          BY <2>2, <2>3, <3>1, <4>2 DEF ServedBy, Batching
        <5> QED
          BY <1>2, <2>1, <3>1, <4>2, <5>1 DEF Reached
      <4> QED
        BY <4>1, <4>2
    <3> QED
      BY <1>5, <1>13, <1>6, <1>7, <1>12, <2>1, <2>2, <2>6, <3>6
  <2> QED
    BY <2>1, <2>7, <2>8
<1>27. CASE StartModel
  <2>1. /\ ModelSpecOK(RequestKeys) /\ UNCHANGED <<feeds, bars, disk, last>> /\ call.op = "modelstart"
        /\ model' = [model EXCEPT !.cursor = ModelCursor]
        /\ call' = [call EXCEPT !.op = "start", !.todo = RequestKeys]
    BY <1>27 DEF StartModel
  <2>2. model'.cursor = ModelCursor /\ call'.feed = call.feed /\ call'.cursor = call.cursor
    BY <1>1, <2>1 DEF ModelTyped, CallTyped
  <2>3. ~Fetched /\ ~Batching /\ ~Fetched' /\ ~Batching'
    BY <2>1, <2>2 DEF TypeInv, Shape, FetchShape, BatchShape, Fetched, Batching
  <2>4. model'.cursor # NULL /\ (model.cursor # NULL => model'.cursor = model.cursor)
    BY <1>1, <2>1, <2>2, ModelTimeframeIs
  <2>5. Traces /\ \A a \in Assets : NotBefore(Clock(a), Then(a))
    BY <1>9, <2>1, <2>3, <2>4 DEF Then, Clock, ClockOf
  <2> QED
    BY <1>5, <1>13, <1>6, <1>7, <1>11, <1>12, <2>1, <2>4, <2>5
<1>28. CASE PlanBatches
  <2> DEFINE tf == ModelTimeframe(RequestKeys)
             live == call.op = "batch"
  <2>1. /\ ModelSpecOK(RequestKeys) /\ UNCHANGED <<feeds, model, bars, disk, last>>
        /\ call.op \in {"batch", "batchwarmup"} /\ call.cursor = NULL
    BY <1>28 DEF PlanBatches, memory
  <2>2. driven /\ ~Fetched /\ ~Batching
    BY <1>1, <2>1 DEF ModeInv, driven, TypeInv, Shape, FetchShape, Batching
  <2>3. PICK n \in Nat, from \in Int :
          /\ live => from = call'.cursor /\ (model.cursor = NULL => n = 0)
          /\ ~live => from + n * tf = call'.cursor /\ n # 0 /\ call'.cursor = LatestEnd(tf)
          /\ Contiguous(call'.bars, live, from, from + n * tf) /\ Len(call'.bars) = n
    BY <1>28, PlannedIs
  <2>4. /\ live => call'.cursor = ModelCursor
        /\ call'.feed = NULL /\ call'.bars \in Seq(Bars(setting)) /\ call'.cursor \in Int /\ call'.cursor # NULL
        /\ call'.op = call.op
    BY <1>28, PlannedIs
  <2>5. /\ model.cursor # NULL => ModelCursor = model.cursor
        /\ tf \in Spans /\ tf \in setting.timeframes
    BY <1>1, <2>1, ModelTimeframeIs
  <2>6. ~live => tf = DefaultTimeframe /\ NotLate(model.cursor, Present)
    <3> SUFFICES ASSUME ~live PROVE tf = DefaultTimeframe /\ NotLate(model.cursor, Present)
      OBVIOUS
    <3>1. Warmable
      BY <1>1, <2>1 DEF ModeInv, Warming, Warmable
    <3> QED
      BY <1>1, <2>5, <3>1 DEF Steady, Warmable, FreshInv
  <2> DEFINE e == from + n * tf
             target == TargetOf(call')
  <2>7. target = IF n = 0 THEN call'.cursor ELSE e
    BY <2>3, <2>4, Elements DEF TargetOf, Contiguous
  <2>8. ~live => target = Present
    BY <2>3, <2>6, <2>7 DEF Present
  <2>9. e \in Int /\ Contiguous(call'.bars, live, from, e) /\ (call'.bars = <<>> <=> n = 0)
    <3>1. e \in Int
      BY <2>5, Multiples
    <3>2. call'.bars = <<>> <=> n = 0
      BY <2>3, <2>4, Elements
    <3> QED
      BY <2>3, <3>1, <3>2
  <2>10. live \in BOOLEAN /\ (live <=> call'.op \notin {"warmup", "batchwarmup"})
    BY <2>1, <2>4
  <2> HIDE DEF live, tf, e, target
  <2>11. target \in Int /\ Contiguous(call'.bars, live, from, target) /\ (call'.bars = <<>> => live /\ target = from)
    <3>1. CASE n = 0
      <4>1. call'.bars = <<>>
        BY <2>9, <3>1
      <4>2. DOMAIN call'.bars = {}
        BY <4>1
      <4> QED
        BY <2>3, <2>4, <2>7, <3>1, <4>1, <4>2 DEF Contiguous
    <3>2. CASE n # 0
      BY <2>7, <2>9, <3>2
    <3> QED
      BY <3>1, <3>2
  <2>12. \A j \in DOMAIN call'.bars : /\ call'.bars[j].to \in Int /\ from <= call'.bars[j].to
                                      /\ call'.bars[j].to <= target
    <3>1. \A j \in DOMAIN call'.bars : /\ call'.bars[j].from \in Int /\ call'.bars[j].to \in Int
                                       /\ from <= call'.bars[j].from /\ call'.bars[j].from < call'.bars[j].to
                                       /\ call'.bars[j].to <= target
      BY <2>11 DEF Contiguous
    <3> QED
      BY <3>1
  <2>13. live /\ model.cursor # NULL => from = model.cursor /\ from <= target
    <3> SUFFICES ASSUME live, model.cursor # NULL PROVE from = model.cursor /\ from <= target
      OBVIOUS
    <3>1. from = model.cursor
      BY <2>3, <2>4, <2>5
    <3>2. CASE call'.bars = <<>>
      BY <2>11, <3>1, <3>2
    <3>3. CASE call'.bars # <<>>
      <4>1. 1 \in DOMAIN call'.bars
        BY <2>4, <3>3, Elements
      <4> QED
        BY <2>11, <2>12, <3>1, <4>1
    <3> QED
      BY <3>2, <3>3
  <2>14. NotBefore(model.cursor, target)
    <3>1. CASE live
      BY <1>1, <2>11, <2>13, <3>1 DEF NotBefore
    <3>2. CASE ~live
      BY <1>1, <2>6, <2>8, <2>11, <3>2 DEF NotBefore, NotLate
    <3> QED
      BY <3>1, <3>2
  <2>15. \A a \in Assets : Clock(a) = model.cursor /\ Then(a) = model.cursor /\ NotBefore(Clock(a), Then(a))
    BY <1>3, <1>8, <2>1, <2>2 DEF Clock, Then, ClockOf
  <2>16. live /\ call'.bars # <<>> => /\ model.cursor # NULL
                                      /\ \A j \in DOMAIN call'.bars : model.cursor <= call'.bars[j].to
    <3> SUFFICES ASSUME live, call'.bars # <<>>
                 PROVE  model.cursor # NULL /\ \A j \in DOMAIN call'.bars : model.cursor <= call'.bars[j].to
      OBVIOUS
    <3>1. model.cursor # NULL
      BY <2>3, <2>9
    <3> QED
      BY <2>12, <2>13, <3>1
  <2>17. ASSUME NEW a \in Assets PROVE Reached(driven, call', model', feeds'[a], bars'[a], a)
    <3>1. Reach(bars[a], model.cursor)
      BY <1>2, <2>1, <2>2, <2>15 DEF Reached, ServedBy, Fetched, Clock
    <3>2. live /\ bars[a] # <<>> => Reaches(bars[a], from)
      BY <2>13, <3>1 DEF Reach
    <3>3. Fed(bars[a], call'.bars, target)
      BY <2>4, <2>10, <2>11, <3>2, FedUp
    <3> QED
      BY <2>1, <2>10, <2>14, <2>15, <2>16, <3>1, <3>3 DEF Reached, Then, target
  <2>18. Traces
    BY <1>2, <2>1, <2>17
  <2>19. Idles
    <3> SUFFICES ASSUME model.cursor = NULL PROVE Idles
      BY <1>11, <2>1, <2>2
    <3> QED
      BY <1>2, <2>1, <2>2 DEF Idles
  <2> QED
    BY <1>5, <1>13, <1>6, <1>7, <2>1, <2>15, <2>18, <2>19
<1>29. CASE ProcessBatch
  <2> DEFINE b == Head(call.bars)
             target == TargetOf(call)
  <2>1. /\ call.bars # <<>> /\ UNCHANGED <<model, disk>> /\ call.cursor # NULL
        /\ call.op \in {"batch", "batchwarmup"}
    BY <1>29 DEF ProcessBatch
  <2>2. call.feed = NULL /\ driven /\ Batching
    BY <1>1, <2>1 DEF TypeInv, Shape, BatchShape, Fetched, Batching, ModeInv, driven
  <2>3. b \in Bars(setting) /\ b = call.bars[1] /\ b.to \in Int /\ 1 \in DOMAIN call.bars
    BY <1>1, <2>1, NextBar
  <2>4. call.op = "batchwarmup" => ~Refused(b)
    BY <2>3 DEF Refused, TypeInv, Shape, CallShape, Warming
  <2>5. /\ Refused(b) => call' = Idle /\ bars' = bars
        /\ ~Refused(b) =>
             /\ call'.bars = Tail(call.bars) /\ call'.cursor = b.to /\ call'.feed = call.feed /\ call'.op = call.op
             /\ \A a \in Assets \ Requested : bars'[a] = bars[a]
             /\ \A a \in Requested : \E price \in Assets : bars'[a] = Append(bars[a], [b EXCEPT !.open = price])
    BY <1>29, BatchedIs
  <2>6. \A a \in Requested : feeds[a] # NULL /\ feeds'[a] # NULL
    BY <1>29, <2>1, BatchedIs, BatchIs
  <2>7. \A a \in Assets \ Requested : feeds'[a] = feeds[a] /\ feeds[a] = NULL /\ bars[a] = <<>>
    <3>1. \A a \in Assets \ Requested : feeds'[a] = feeds[a]
      BY <1>29, BatchedIs
    <3>2. \A a \in Assets \ Requested : feeds[a] = NULL
      BY <1>1 DEF Requested, FeedsTyped
    <3> QED
      BY <3>1, <3>2 DEF KeptInv
  <2> HIDE DEF b
  <2>8. \A a \in Assets : /\ Then(a) = Clock(a) /\ NotBefore(Clock(a), Then(a)) /\ Clock(a) = model.cursor
    BY <1>3, <1>8, <2>1, <2>2 DEF Then, Clock, ClockOf
  <2>9. ASSUME NEW a \in Assets, call.op = "batch"
        PROVE  Clock(a) # NULL /\ \A j \in DOMAIN call.bars : Clock(a) <= call.bars[j].to
    BY <1>2, <2>1, <2>9 DEF Reached, ServedBy, Clock
  <2>10. Idles
    <3>1. CASE call.op = "batch"
      <4>1. PICK a \in Assets : TRUE
        BY <2>1, BatchIs
      <4>2. model.cursor # NULL
        BY <2>8, <2>9, <3>1, <4>1
      <4> QED
        BY <1>11, <2>1, <2>2, <4>2
    <3>2. CASE call.op = "batchwarmup"
      <4>1. call'.cursor # NULL /\ call'.op = "batchwarmup"
        BY <1>1, <2>3, <2>4, <2>5, <3>2
      <4> QED
        BY <4>1 DEF Idles, Batching, Warming
    <3> QED
      BY <2>1, <3>1, <3>2
  <2>11. CASE Refused(b)
    <3>1. ASSUME NEW a \in Assets PROVE Reached(driven, call', model', feeds'[a], bars'[a], a)
      <4>1. ~ServedBy(call', a)
        BY <2>5, <2>11 DEF ServedBy, Idle
      <4>2. Reach(bars[a], Clock(a))
        BY <1>2, <2>1, <2>4, <2>11 DEF Reached, Clock
      <4> QED
        BY <2>5, <2>8, <2>11, <4>1, <4>2 DEF Reached, Then
    <3>2. Traces
      BY <1>2, <2>5, <2>11, <3>1
    <3> QED
      BY <1>5, <1>13, <1>6, <1>7, <2>1, <2>8, <2>10, <3>2
  <2>12. CASE ~Refused(b)
    <3>1. TargetOf(call') = target /\ target \in Int /\ target # NULL
      BY <1>1, <2>1, <2>2, <2>5, <2>12, TargetStays DEF b
    <3> HIDE DEF target
    <3>2. \A j \in DOMAIN Tail(call.bars) : j + 1 \in DOMAIN call.bars /\ Tail(call.bars)[j] = call.bars[j + 1]
      BY <1>1, <2>1, NextBar
    <3>3. ASSUME NEW a \in Assets
          PROVE  NoGap(bars'[a]) /\ Reached(driven, call', model', feeds'[a], bars'[a], a)
      <4>1. ServedBy(call, a) /\ ServedBy(call', a)
        BY <1>1, <2>1, <2>3, <2>5, <2>12 DEF ServedBy
      <4>2. /\ NoGap(bars[a]) /\ NotBefore(Clock(a), target)
            /\ feeds[a] = NULL \/ Fed(bars[a], call.bars, target)
            /\ call.op = "batch" => Reach(bars[a], Clock(a))
        BY <1>2, <4>1 DEF Reached, Clock, target
      <4>3. call'.op \in {"warmup", "batchwarmup"} <=> call.op = "batchwarmup"
        BY <2>1, <2>5, <2>12
      <4>4. call.op = "batch" => Clock(a) # NULL /\ \A j \in DOMAIN Tail(call.bars) : Clock(a) <= Tail(call.bars)[j].to
        BY <2>9, <3>2
      <4>5. CASE a \in Requested
        <5>1. PICK price \in Assets : bars'[a] = Append(bars[a], [b EXCEPT !.open = price])
          BY <2>5, <2>12, <4>5
        <5> DEFINE e == [b EXCEPT !.open = price]
        <5>2. e \in Bars(setting) /\ e.to = b.to /\ e.from = b.from /\ e.live = b.live
          BY <2>3 DEF Bars, Assets
        <5>3. bars'[a] = Append(bars[a], e)
          BY <5>1
        <5> HIDE DEF e
        <5>4. /\ NoGap(Append(bars[a], e)) /\ Fed(Append(bars[a], e), Tail(call.bars), target)
              /\ \A c \in Int : c <= b.to => Reach(Append(bars[a], e), c) \/ c = NULL
          BY <1>3, <2>1, <2>3, <2>6, <3>1, <4>2, <4>5, <5>2, FedAppend
        <5>5. call.op = "batch" => Reach(bars'[a], Clock(a))
          BY <1>3, <2>3, <2>9, <5>3, <5>4 DEF Cursors
        <5> QED
          BY <2>1, <2>5, <2>8, <2>12, <3>1, <4>1, <4>2, <4>3, <4>4, <5>3, <5>4, <5>5 DEF Reached, Then
      <4>6. CASE a \notin Requested
        <5>1. bars'[a] = bars[a] /\ feeds'[a] = NULL
          BY <2>5, <2>7, <2>12, <4>6
        <5> QED
          BY <2>1, <2>5, <2>8, <2>12, <3>1, <4>1, <4>2, <4>3, <4>4, <5>1 DEF Reached, Then
      <4> QED
        BY <4>5, <4>6
    <3> QED
      BY <1>5, <1>13, <1>6, <1>7, <2>1, <2>8, <2>10, <3>3
  <2> QED
    BY <2>11, <2>12
<1>30. CASE EndBatches
  <2>1. /\ UNCHANGED <<feeds, bars, disk>> /\ call' = Idle /\ call.bars = <<>> /\ call.cursor # NULL
        /\ call.op \in {"batch", "batchwarmup"} /\ model' = [model EXCEPT !.cursor = call.cursor]
    BY <1>30 DEF EndBatches
  <2>2. model'.cursor = call.cursor /\ driven /\ call.feed = NULL /\ call'.feed = NULL /\ call'.cursor = NULL
    BY <1>1, <2>1 DEF ModelTyped, ModeInv, driven, TypeInv, Shape, BatchShape, Fetched, Batching, Idle
  <2>3. \A a \in Assets : /\ Then(a) = call.cursor /\ NotBefore(Clock(a), call.cursor)
                          /\ feeds[a] = NULL \/ (bars[a] # <<>> => Reaches(bars[a], call.cursor))
    BY <1>2, <2>1, <2>2 DEF Reached, ServedBy, TargetOf, Fed, Then, Clock, ClockOf
  <2>4. ASSUME NEW a \in Assets PROVE Reached(driven, call', model', feeds'[a], bars'[a], a)
    <3>1. ~ServedBy(call', a)
      BY <2>2 DEF ServedBy
    <3>2. Reach(bars[a], call.cursor)
      BY <2>1, <2>3 DEF Reach, KeptInv
    <3> QED
      BY <2>1, <2>3, <3>1, <3>2 DEF Reached, Then
  <2>5. Traces
    BY <1>2, <2>1, <2>4
  <2> QED
    BY <1>5, <1>13, <1>6, <1>7, <1>11, <2>1, <2>2, <2>3, <2>5
(* Each file of a save is as old as the logs, or as new as the state. *)
<1>31. CASE WriteFile
  <2>1. UNCHANGED <<bars, feeds, model, last>> /\ call.op = "write"
    BY <1>31 DEF WriteFile, memory
  <2>2. PICK k \in 1 .. 6 :
          /\ disk'[Files[k]] = Content[Files[k]]
          /\ \A f \in FileNames : f # Files[k] => disk'[f] = disk[f]
          /\ \A i \in 1 .. 6 : i < k => disk'[Files[i]] = Content[Files[i]]
          /\ k = 6 => call' = Idle /\ \A f \in FileNames : disk'[f] = Content[f]
          /\ k # 6 => call' = call
    BY <1>1, <1>31, WrittenIs
  <2>3. ~Fetched /\ ~Batching /\ ~Fetched' /\ ~Batching' /\ call'.op # "down"
    BY <2>1, <2>2 DEF TypeInv, Shape, CallShape, Fetched, Batching, Idle
  <2>4. Traces /\ \A a \in Assets : Then(a) = Clock(a)
    BY <1>9, <2>1, <2>3 DEF Then, Clock
  <2>5. Idles
    BY <1>2, <2>1, <2>3 DEF Idles
  <2>6. /\ Content["market_events"] = bars /\ Content["market_model"] = model
        /\ Content["feed_status"] = call.last /\ Content["feed_configs"] = FeedConfigs
        /\ \A f \in FileNames : Content[f] # NULL
    BY <1>1, ContentIs
  <2>7. \A a \in Assets : CursorAt(FeedConfigs.rows[a]) = CursorAt(feeds[a])
    <3> SUFFICES ASSUME NEW a \in Assets PROVE CursorAt(FeedConfigs.rows[a]) = CursorAt(feeds[a])
      OBVIOUS
    <3>1. FeedConfigs.rows[a] = IF feeds[a] = NULL THEN NULL ELSE [feeds[a] EXCEPT !.start = NULL]
      BY <1>1, ContentIs
    <3>2. feeds[a] # NULL => /\ [feeds[a] EXCEPT !.start = NULL].cursor = feeds[a].cursor
                             /\ [feeds[a] EXCEPT !.start = NULL] # NULL
      <4>1. feeds[a] # NULL => feeds[a] \in FeedRows(setting)
        BY <1>1 DEF FeedsTyped
      <4>2. feeds[a] # NULL => [feeds[a] EXCEPT !.start = NULL] \in FeedRows(setting)
        BY <4>1 DEF FeedRows, Cursors
      <4> QED
        BY <1>1, <4>1, <4>2, NullIsNone DEF FeedRows
    <3> QED
      BY <3>1, <3>2 DEF CursorAt
  <2>8. /\ Files[1] = "market_events" /\ Files[4] = "market_model" /\ Files[5] = "feed_status"
        /\ Files[6] = "feed_configs" /\ \A i \in 1 .. 6 : Files[i] \in FileNames
        /\ \A i, j \in 1 .. 6 : Files[i] = Files[j] => i = j
    BY FilesAre DEF Files, FileNames
  (* What is written is the state from the first file on. *)
  <2>9. /\ disk'["market_events"] = bars
        /\ disk'["market_model"] = IF k >= 4 THEN model ELSE disk["market_model"]
        /\ disk'["feed_status"] = IF k >= 5 THEN call.last ELSE disk["feed_status"]
        /\ disk'["feed_configs"] = IF k = 6 THEN FeedConfigs ELSE disk["feed_configs"]
    <3>1. disk'["market_events"] = bars
      BY <2>2, <2>6, <2>8
    <3>2. disk'["market_model"] = IF k >= 4 THEN model ELSE disk["market_model"]
      BY <2>2, <2>6, <2>8
    <3>3. disk'["feed_status"] = IF k >= 5 THEN call.last ELSE disk["feed_status"]
      BY <2>2, <2>6, <2>8
    <3>4. disk'["feed_configs"] = IF k = 6 THEN FeedConfigs ELSE disk["feed_configs"]
      BY <2>2, <2>6, <2>8
    <3> QED
      BY <3>1, <3>2, <3>3, <3>4
  <2>10. DiskLogs
    BY <1>2, <2>9 DEF DiskLogs
  <2>11. Complete' /\ k # 6 => Complete
    <3> SUFFICES ASSUME Complete', k # 6 PROVE Complete
      OBVIOUS
    <3>1. Saved("feed_configs")
      BY <2>9 DEF Complete, Saved, FileNames
    <3> QED
      BY <3>1 DEF TypeInv, Shape, SaveShape
  <2>12. \A a \in Assets : Reach(bars[a], Clock(a))
    BY <1>2, <2>3 DEF Reached, ServedBy, Fetched, Batching, Clock
  <2>13. DiskReach
    <3> SUFFICES ASSUME Complete', NEW a \in Assets
                 PROVE  /\ NotBefore(DiskThen(a), Then(a))
                        /\ bars[a] # <<>> => /\ DiskThen(a) # NULL => Reaches(bars[a], DiskThen(a))
                                             /\ call'.op # "write" => DiskThen(a) # NULL
      BY <2>9 DEF DiskReach
    <3>1. CASE DiskThen(a) = Clock(a)
      BY <1>3, <1>8, <2>4, <2>12, <3>1 DEF Reach
    <3>2. CASE k # 6 /\ DiskThen(a) = DiskClock(a)
      <4>1. NotBefore(DiskClock(a), Clock(a)) /\ call'.op = "write" /\ DiskClock(a) \in Cursors
        BY <1>2, <1>4, <2>1, <2>2, <2>11, <3>2
      <4>2. ASSUME bars[a] # <<>>, DiskClock(a) # NULL PROVE Reaches(bars[a], DiskClock(a))
        <5>1. /\ DiskClock(a) \in Int /\ Clock(a) \in Int /\ DiskClock(a) <= Clock(a)
              /\ Reaches(bars[a], Clock(a))
          BY <1>3, <2>12, <4>1, <4>2 DEF NotBefore, Reach, Cursors
        <5> QED
          BY <1>3, <5>1, ReachesLess
      <4> QED
        BY <2>4, <3>2, <4>1, <4>2
    <3>3. DiskThen(a) = Clock(a) \/ (k # 6 /\ DiskThen(a) = DiskClock(a))
      <4>1. CASE k = 6
        BY <2>7, <2>9, <4>1 DEF DiskThen, Clock, ClockOf
      <4>2. CASE k # 6
        BY <2>9, <4>2 DEF DiskThen, DiskClock, Clock, ClockOf
      <4> QED
        BY <4>1, <4>2
    <3> QED
      BY <3>1, <3>2, <3>3
  <2>14. DiskIdles
    <3> SUFFICES ASSUME Complete', driven, disk'["market_model"].cursor = NULL, NEW a \in Assets
                 PROVE  /\ disk'["feed_status"].cursor = NULL
                        /\ CursorAt(disk'["feed_configs"].rows[a]) = NULL
      BY DEF DiskIdles, Untouched
    <3>1. model.cursor = NULL => call.last.cursor = NULL /\ CursorAt(feeds[a]) = NULL
      BY <1>2, <2>3 DEF Untouched
    <3>2. k # 6 /\ disk["market_model"].cursor = NULL =>
            disk["feed_status"].cursor = NULL /\ CursorAt(disk["feed_configs"].rows[a]) = NULL
      BY <1>2, <2>11 DEF Untouched
    <3>3. CASE k < 4
      BY <2>9, <3>2, <3>3
    <3>4. CASE k \in 4 .. 5
      <4>1. model.cursor = NULL /\ call.last.cursor = NULL /\ Complete
        BY <2>9, <2>11, <3>1, <3>4
      <4>2. NotBefore(DiskClock(a), Clock(a))
        BY <1>2, <2>1, <4>1
      <4>3. disk["market_model"].cursor = NULL
        BY <4>1, <4>2 DEF NotBefore, DiskClock, Clock, ClockOf
      <4> QED
        BY <2>9, <3>2, <3>4, <4>1, <4>3
    <3>5. CASE k = 6
      BY <2>7, <2>9, <3>1, <3>5
    <3> QED
      BY <3>3, <3>4, <3>5
  <2> QED
    BY <1>5, <1>13, <2>4, <2>5, <2>10, <2>13, <2>14
<1>32. CASE Crash
  <2>1. /\ AsNew' /\ disk' = disk /\ call'.feed = NULL /\ call'.cursor = NULL /\ New' = New /\ Complete
        /\ call'.op = "down" /\ (call.op = "idle" \/ (call.op = "write" /\ Clocked))
    BY <1>1, <1>32, CrashIs, WholeCrash
  <2>2. (\A a \in Assets : bars'[a] = <<>> /\ feeds'[a] = NULL) /\ last'.cursor = NULL
    BY <2>1 DEF AsNew, New, NoFeed
  <2>3. Traces
    <3>1. NoGap(<<>>)
      BY DEF NoGap
    <3> QED
      BY <2>1, <2>2, <3>1 DEF Reached, ServedBy, Reach
  <2>4. Idles
    BY <2>2 DEF Idles, Untouched, CursorAt
  <2>5. ASSUME NEW a \in Assets, disk["market_events"][a] # <<>> PROVE DiskClock(a) # NULL
    <3>1. CASE call.op = "idle"
      BY <1>2, <2>1, <2>5, <3>1
    <3>2. CASE call.op = "write" /\ Clocked
      BY <2>5, <3>2 DEF Clocked, DiskClock, ClockOf, CursorAt, driven
    <3> QED
      BY <2>1, <3>1, <3>2
  <2>6. DiskReach
    BY <1>2, <2>1, <2>5 DEF DiskReach, DiskThen, DiskClock
  <2> QED
    BY <1>5, <1>13, <1>6, <2>1, <2>3, <2>4, <2>6
<1>33. CASE Load
  <2>1. /\ Complete /\ call.op = "down" /\ call' = Idle /\ disk' = disk /\ model' = disk["market_model"]
        /\ feeds' = disk["feed_configs"].rows /\ bars' = disk["market_events"]
        /\ IF disk["feed_status"].cursor # NULL THEN last'.cursor = disk["feed_status"].cursor
           ELSE last'.cursor = NULL \/ \E a \in Assets : /\ disk["feed_configs"].rows[a] # NULL
                                                         /\ last'.cursor = disk["feed_configs"].rows[a].cursor
    BY <1>1, <1>33, LoadIs
  <2>2. \A a \in Assets : Then(a) = DiskClock(a) /\ DiskThen(a) = DiskClock(a)
    BY <2>1 DEF Then, DiskClock, DiskThen
  <2>3. \A a \in Assets : disk["market_events"][a] # <<>> =>
          DiskClock(a) # NULL /\ Reaches(disk["market_events"][a], DiskClock(a))
    BY <1>2, <2>1
  <2>4. Saved("market_events")
    BY <2>1 DEF Complete, FileNames
  <2>5. ASSUME NEW a \in Assets PROVE NoGap(bars'[a]) /\ Reached(driven, call', model', feeds'[a], bars'[a], a)
    <3>1. ~ServedBy(call', a)
      BY <2>1 DEF ServedBy, Idle
    <3>2. Reach(bars'[a], Then(a))
      BY <2>1, <2>2, <2>3 DEF Reach
    <3> QED
      BY <1>2, <2>1, <2>4, <3>1, <3>2 DEF Reached, Then
  <2>6. Idles
    <3> SUFFICES ASSUME driven, model'.cursor = NULL PROVE Untouched(model', last', feeds')
      BY DEF Idles, Untouched
    <3>1. \A a \in Assets : disk["feed_status"].cursor = NULL /\ CursorAt(disk["feed_configs"].rows[a]) = NULL
      BY <1>2, <2>1 DEF Untouched
    <3>2. \A a \in Assets : last'.cursor = NULL
      BY <2>1, <3>1 DEF CursorAt
    <3> QED
      BY <2>1, <3>1, <3>2 DEF Untouched
  <2>7. DiskReach
    BY <1>3, <1>8, <2>1, <2>2, <2>3 DEF DiskReach
  <2> QED
    BY <1>5, <1>13, <1>6, <2>1, <2>5, <2>6, <2>7
<1> QED
  BY <1>20, <1>21, <1>22, <1>23, <1>24, <1>25, <1>26, <1>27, <1>28, <1>29, <1>30, <1>31, <1>32, <1>33, Kinds DEF Next

(* The invariant behind the two properties that say that nothing is lost. *)
TraceInv == TypeInv /\ TornInv /\ TimedInv /\ KeptInv /\ ModeInv /\ FreshInv /\ GapInv

LEMMA Tracing == Spec => []TraceInv
<1>1. Init => TraceInv
  BY TypedInit, TornInit, TimedInit, KeptInit, ModeInit, FreshInit, GapInit DEF TraceInv
<1>2. TraceInv /\ [Next]_vars => TraceInv'
  BY TypedNext, TornNext, TimedNext, KeptNext, ModeNext, FreshNext, GapNext DEF TraceInv
<1> QED
  BY <1>1, <1>2, PTL DEF Spec

(* NoGaps: a step makes its bars from a cursor up to which the log has     *)
(* bars, and no refusal, warmup, crash or reload leaves a cursor ahead of  *)
(* its log, until a death leaves bars on disk without their cursors.  A    *)
(* save that is torn otherwise leaves a log that reaches its cursor.       *)
THEOREM NoTimeIsSkipped == Spec => []NoGaps
<1>1. TraceInv => NoGaps
  BY DEF TraceInv, GapInv, NoGaps, Traced, NoGap
<1> QED
  BY <1>1, Tracing, PTL

(* SavedClockTrailsBars: the logs are the first file of a save and the     *)
(* feeds the last, and no cursor goes back, so that the logs on disk reach *)
(* every cursor on disk at every moment, until a death leaves bars there   *)
(* without their cursors.                                                  *)
THEOREM SavesTrailTheirLogs == Spec => []SavedClockTrailsBars
<1>1. TraceInv => SavedClockTrailsBars
  <2> SUFFICES ASSUME TraceInv, ~torn, ~setting.model, ~setting.late, Steady,
                      Saved("feed_configs"), Saved("market_events"),
                      NEW a \in ToSet(disk["feed_configs"].order),
                      disk["feed_configs"].rows[a].cursor # NULL, disk["market_events"][a] # <<>>
               PROVE  Reaches(disk["market_events"][a], disk["feed_configs"].rows[a].cursor)
    BY DEF SavedClockTrailsBars, Saved, Reaches
  <2>1. TypeInv /\ GapInv /\ Traced /\ Complete
    BY DEF TraceInv, Traced, MayStepAlone, TypeInv, Shape, SaveShape
  <2>2. disk["feed_configs"] \in Configs(setting)
    BY <2>1, TablesAre DEF TypeInv, WellTyped, DiskTyped, Complete, Saved, FileNames
  <2>3. a \in Assets
    BY <2>2, Elements DEF Configs, Assets
  <2>4. disk["feed_configs"].rows[a] # NULL
    BY <2>2, <2>3, Elements DEF Configs, Assets
  <2> QED
    BY <2>1, <2>3, <2>4 DEF GapInv, ClockOf, CursorAt
<1> QED
  BY <1>1, Tracing, PTL

=============================================================================
