-------------------------- MODULE MetadataProofs ---------------------------
(***************************************************************************)
(* Proofs about Shell, HostInfo and Metadata, for any output of the        *)
(* helpers, any pieces it comes in and any size of the buffer, and for     *)
(* any options, configurations and templates.                              *)
(*                                                                         *)
(* What the loops of the code compute is defined by recursive functions,   *)
(* and what they should compute by other means; that the two agree is      *)
(* proved by induction.  The numbers for which a formula holds are a set,  *)
(* so that induction is a fact about sets of numbers.                      *)
(***************************************************************************)
EXTENDS Metadata, SequenceTheorems, WellFoundedInduction, TLAPS

-----------------------------------------------------------------------------
(* Numbers *)

LEMMA LeastNat ==
    ASSUME NEW T, T \subseteq Nat, T # {}
    PROVE  \E x \in T : \A y \in T : x <= y
<1>1. IsWellFoundedOn(OpToRel(<,Nat), Nat)
  BY NatLessThanWellFounded
<1>2. PICK x \in T : \A y \in T : ~ (<<y, x>> \in OpToRel(<,Nat))
  BY <1>1, WFMin
<1>3. \A z, y \in Nat : y < z => <<y, z>> \in OpToRel(<,Nat)
  BY DEF OpToRel
<1>4. ASSUME NEW y \in T PROVE x <= y
  <2>1. x \in Nat /\ y \in Nat
    OBVIOUS
  <2>2. ~(y < x)
    BY <1>2, <1>3, <2>1
  <2> QED
    BY <2>1, <2>2
<1> QED
  BY <1>4

LEMMA AllNat ==
    ASSUME NEW T, T \subseteq Nat, 0 \in T, \A n \in T : n + 1 \in T
    PROVE  T = Nat
<1> SUFFICES ASSUME Nat \ T # {} PROVE FALSE
  OBVIOUS
<1>1. PICK x \in Nat \ T : \A y \in Nat \ T : x <= y
  BY LeastNat
<1>2. x # 0 /\ x - 1 \in Nat /\ x - 1 \in T
  BY <1>1
<1> QED
  BY <1>2

\* The least and the greatest of some numbers.
LEMMA MinFacts ==
    ASSUME NEW T, T \subseteq Nat, T # {}
    PROVE  Min(T) \in T /\ \A y \in T : Min(T) <= y
<1>1. PICK x \in T : \A y \in T : x <= y
  BY LeastNat
<1> QED
  BY <1>1 DEF Min

LEMMA MaxFacts ==
    ASSUME NEW N \in Nat, NEW T, T \subseteq 0..N, T # {}
    PROVE  Max(T) \in T /\ \A y \in T : Max(T) >= y
<1> DEFINE U == {N - y : y \in T}
<1>1. U \subseteq Nat /\ U # {}
  <2>1. \A y \in T : y \in 0..N /\ N - y \in Nat
    OBVIOUS
  <2>2. PICK y \in T : TRUE
    OBVIOUS
  <2>3. N - y \in U
    OBVIOUS
  <2> QED
    BY <2>1, <2>3
<1>2. PICK u \in U : \A v \in U : u <= v
  BY <1>1, LeastNat
<1>3. PICK x \in T : u = N - x
  OBVIOUS
<1>4. ASSUME NEW y \in T PROVE x >= y
  <2>1. x \in 0..N /\ y \in 0..N /\ N - y \in U
    OBVIOUS
  <2>2. N - x <= N - y
    BY <2>1, <1>2, <1>3
  <2> QED
    BY <2>1, <2>2
<1> QED
  BY <1>4 DEF Max

\* A loop over the numbers from 1 to N: where it starts, its steps and its values.
LoopSteps(st, N, V) == st \in [1..N -> [V -> V]]

LoopRuns(f, base, st, N, V) ==
    f \in [0..N -> V] /\ f[0] = base /\ \A n \in 1..N : f[n] = st[n][f[n - 1]]

\* The values of a loop exist.
LEMMA Recursion ==
    ASSUME NEW V, NEW base, base \in V, NEW N, N \in Nat, NEW st, LoopSteps(st, N, V)
    PROVE  \E f : LoopRuns(f, base, st, N, V)
<1> USE DEF LoopSteps, LoopRuns
<1> DEFINE Ok(m) == m <= N => \E f \in [0..m -> V] : f[0] = base /\ \A n \in 1..m : f[n] = st[n][f[n - 1]]
           T == {m \in Nat : Ok(m)}
<1>1. Ok(0)
  <2> DEFINE f == [n \in 0..0 |-> base]
  <2>1. f \in [0..0 -> V] /\ f[0] = base /\ \A n \in 1..0 : f[n] = st[n][f[n - 1]]
    OBVIOUS
  <2> QED
    BY <2>1
<1>2. ASSUME NEW m \in Nat, Ok(m) PROVE Ok(m + 1)
  <2> SUFFICES ASSUME m + 1 <= N
               PROVE  \E f \in [0 .. m + 1 -> V] :
                         f[0] = base /\ \A n \in 1 .. m + 1 : f[n] = st[n][f[n - 1]]
    OBVIOUS
  <2>1. PICK f \in [0..m -> V] : f[0] = base /\ \A n \in 1..m : f[n] = st[n][f[n - 1]]
    BY <1>2
  <2> DEFINE g == [n \in 0 .. m + 1 |-> IF n = m + 1 THEN st[m + 1][f[m]] ELSE f[n]]
  <2>2. m + 1 \in 1..N /\ f[m] \in V
    OBVIOUS
  <2>3. st[m + 1][f[m]] \in V
    BY <2>2
  <2>4. g \in [0 .. m + 1 -> V]
    BY <2>3
  <2>5. (\A n \in 0..m : g[n] = f[n]) /\ g[m + 1] = st[m + 1][f[m]]
    OBVIOUS
  <2> HIDE DEF g
  <2>6. ASSUME NEW n \in 1 .. m + 1 PROVE g[n] = st[n][g[n - 1]]
    <3>1. n - 1 \in 0..m /\ (n = m + 1 => n - 1 = m) /\ (n # m + 1 => n \in 1..m /\ n \in 0..m)
      OBVIOUS
    <3> QED
      BY <3>1, <2>1, <2>5
  <2>7. g[0] = base
    BY <2>1, <2>5
  <2> QED
    BY <2>4, <2>6, <2>7
<1> HIDE DEF Ok
<1>3. T \subseteq Nat /\ 0 \in T /\ \A m \in T : m + 1 \in T
  BY <1>1, <1>2
<1> HIDE DEF T
<1>4. N \in T
  BY <1>3, AllNat
<1>5. \E f \in [0..N -> V] : f[0] = base /\ \A n \in 1..N : f[n] = st[n][f[n - 1]]
  BY <1>4 DEF T, Ok
<1> QED
  BY <1>5

\* A loop whose turn i goes on at nx[i], after i: its values, from the last turn
\* back to the first.
Jumps(nx, N) == nx \in [1..N -> 1 .. N + 1] /\ \A i \in 1..N : nx[i] > i

BackRuns(f, base, st, nx, N, V) ==
    f \in [1 .. N + 1 -> V] /\ f[N + 1] = base /\ \A i \in 1..N : f[i] = st[i][f[nx[i]]]

LEMMA BackRecursion ==
    ASSUME NEW V, NEW base, base \in V, NEW N, N \in Nat, NEW st, LoopSteps(st, N, V), NEW nx, Jumps(nx, N)
    PROVE  \E f : BackRuns(f, base, st, nx, N, V)
<1> USE DEF LoopSteps, Jumps, BackRuns
<1> DEFINE Part(f, a) == f[N + 1] = base /\ \A i \in a..N : f[i] = st[i][f[nx[i]]]
           Ok(m) == m <= N => \E f \in [1 .. N + 1 -> V] : Part(f, N + 1 - m)
           T == {m \in Nat : Ok(m)}
<1>1. Ok(0)
  <2> DEFINE f == [n \in 1 .. N + 1 |-> base]
  <2>1. f \in [1 .. N + 1 -> V] /\ f[N + 1] = base /\ N + 1 - 0 = N + 1
    OBVIOUS
  <2>2. \A i \in N + 1 .. N : FALSE
    OBVIOUS
  <2> HIDE DEF f
  <2> QED
    BY <2>1, <2>2
<1>2. ASSUME NEW m \in Nat, Ok(m) PROVE Ok(m + 1)
  <2> SUFFICES ASSUME m + 1 <= N
               PROVE  \E f \in [1 .. N + 1 -> V] : Part(f, N + 1 - (m + 1))
    OBVIOUS
  <2>1. PICK f \in [1 .. N + 1 -> V] : Part(f, N + 1 - m)
    BY <1>2
  <2> DEFINE a == N - m
             g == [n \in 1 .. N + 1 |-> IF n = a THEN st[a][f[nx[a]]] ELSE f[n]]
  <2>2. a \in 1..N /\ N + 1 - (m + 1) = a /\ N + 1 - m = a + 1
    OBVIOUS
  <2> HIDE DEF a
  <2>3. nx[a] \in 1 .. N + 1 /\ nx[a] > a
    BY <2>2
  <2>4. f[nx[a]] \in V
    BY <2>3
  <2>5. st[a][f[nx[a]]] \in V
    BY <2>2, <2>4
  <2>6. g \in [1 .. N + 1 -> V]
    BY <2>5
  <2>7. g[a] = st[a][f[nx[a]]] /\ \A n \in 1 .. N + 1 : n # a => g[n] = f[n]
    BY <2>2
  <2> HIDE DEF g
  <2>8. g[N + 1] = base
    BY <2>1, <2>2, <2>7
  <2>9. ASSUME NEW i \in a..N PROVE g[i] = st[i][g[nx[i]]]
    <3>1. i \in 1..N /\ i \in 1 .. N + 1 /\ (i # a => i \in a + 1 .. N)
      BY <2>2
    <3>2. nx[i] \in 1 .. N + 1 /\ nx[i] > i /\ nx[i] # a
      BY <3>1, <2>2
    <3>3. g[nx[i]] = f[nx[i]]
      BY <3>2, <2>7
    <3>4. CASE i = a
      BY <3>3, <3>4, <2>7
    <3>5. CASE i # a
      <4>1. f[i] = st[i][f[nx[i]]]
        BY <3>1, <3>5, <2>1, <2>2
      <4> QED
        BY <4>1, <3>1, <3>3, <3>5, <2>7
    <3> QED
      BY <3>4, <3>5
  <2>10. Part(g, a)
    BY <2>8, <2>9
  <2> HIDE DEF Part
  <2> QED
    BY <2>2, <2>6, <2>10
<1> HIDE DEF Ok
<1>3. T \subseteq Nat /\ 0 \in T /\ \A m \in T : m + 1 \in T
  BY <1>1, <1>2
<1> HIDE DEF T
<1>4. N \in T
  BY <1>3, AllNat
<1>5. PICK f \in [1 .. N + 1 -> V] : Part(f, N + 1 - N)
  BY <1>4 DEF T, Ok
<1>6. N + 1 - N = 1
  OBVIOUS
<1> QED
  BY <1>5, <1>6

-----------------------------------------------------------------------------
(* Lines *)

\* What the loop of LineReader has found after n symbols.
Scans(g, s, S) ==
    /\ g \in [0..Len(s) -> Seq(Seq(S)) \X Seq(S)]
    /\ Scan(s) = g[Len(s)]
    /\ g[0] = <<<<>>, <<>>>>
    /\ \A n \in 1..Len(s) :
          g[n] = IF s[n] = NL THEN <<Append(g[n - 1][1], g[n - 1][2]), <<>>>>
                 ELSE <<g[n - 1][1], Append(g[n - 1][2], s[n])>>

LEMMA Scanned ==
    ASSUME NEW S, NEW s \in Seq(S)
    PROVE  \E g : Scans(g, s, S)
<1> DEFINE V == Seq(Seq(S)) \X Seq(S)
           N == Len(s)
           F(f) == f = [n \in 0..N |->
                          IF n = 0 THEN <<<<>>, <<>>>>
                          ELSE IF s[n] = NL THEN <<Append(f[n - 1][1], f[n - 1][2]), <<>>>>
                          ELSE <<f[n - 1][1], Append(f[n - 1][2], s[n])>>]
           st == [n \in 1..N |-> [v \in V |-> IF s[n] = NL THEN <<Append(v[1], v[2]), <<>>>>
                                             ELSE <<v[1], Append(v[2], s[n])>>]]
<1>1. N \in Nat /\ <<<<>>, <<>>>> \in V
  <2>1. N \in Nat /\ <<>> \in Seq(S) /\ <<>> \in Seq(Seq(S))
    OBVIOUS
  <2> QED
    BY <2>1
<1>2. ASSUME NEW n \in 1..N, NEW v \in V
      PROVE  /\ st[n][v] = IF s[n] = NL THEN <<Append(v[1], v[2]), <<>>>> ELSE <<v[1], Append(v[2], s[n])>>
             /\ st[n][v] \in V
  <2>1. v[1] \in Seq(Seq(S)) /\ v[2] \in Seq(S) /\ s[n] \in S
    OBVIOUS
  <2>2. Append(v[1], v[2]) \in Seq(Seq(S)) /\ Append(v[2], s[n]) \in Seq(S) /\ <<>> \in Seq(S)
    BY <2>1
  <2>3. st[n][v] = IF s[n] = NL THEN <<Append(v[1], v[2]), <<>>>> ELSE <<v[1], Append(v[2], s[n])>>
    OBVIOUS
  <2> QED
    BY <2>1, <2>2, <2>3
<1>3. st \in [1..N -> [V -> V]]
  <2> HIDE DEF V
  <2>1. \A n \in 1..N : st[n] = [v \in V |-> st[n][v]]
    OBVIOUS
  <2>2. \A n \in 1..N : st[n] \in [V -> V]
    BY <2>1, <1>2
  <2>3. st = [n \in 1..N |-> st[n]]
    OBVIOUS
  <2> HIDE DEF st
  <2> QED
    BY <2>2, <2>3
<1> HIDE DEF st
<1>4. PICK f \in [0..N -> V] : f[0] = <<<<>>, <<>>>> /\ \A n \in 1..N : f[n] = st[n][f[n - 1]]
  <2> DEFINE base == <<<<>>, <<>>>>
  <2>1. N \in Nat /\ base \in V /\ st \in [1..N -> [V -> V]]
    BY <1>1, <1>3
  <2>2. LoopSteps(st, N, V)
    BY <2>1 DEF LoopSteps
  <2> HIDE DEF V, N, base
  <2>3. PICK f : LoopRuns(f, base, st, N, V)
    BY <2>1, <2>2, Recursion
  <2> QED
    BY <2>3 DEF base, LoopRuns
<1>5. \A n \in 1..N : f[n] = IF s[n] = NL THEN <<Append(f[n - 1][1], f[n - 1][2]), <<>>>>
                             ELSE <<f[n - 1][1], Append(f[n - 1][2], s[n])>>
  <2> HIDE DEF V
  <2>1. \A n \in 1..N : n - 1 \in 0..N /\ f[n - 1] \in V
    BY <1>1
  <2> QED
    BY <2>1, <1>2, <1>4
<1>6. F(f)
  <2> HIDE DEF V
  <2>1. f = [n \in 0..N |-> f[n]]
    OBVIOUS
  <2>2. \A n \in 0..N : n = 0 \/ n \in 1..N
    BY <1>1
  <2>3. \A n \in 0..N : f[n] = IF n = 0 THEN <<<<>>, <<>>>>
                          ELSE IF s[n] = NL THEN <<Append(f[n - 1][1], f[n - 1][2]), <<>>>>
                          ELSE <<f[n - 1][1], Append(f[n - 1][2], s[n])>>
    BY <2>2, <1>1, <1>4, <1>5
  <2> QED
    BY <2>1, <2>3
<1> DEFINE h == CHOOSE g : F(g)
<1>7. F(h) /\ Scan(s) = h[N]
  BY <1>6 DEF Scan
<1>8. h = f
  \* Two functions with the same recursion are the same.
  <2> DEFINE P(m) == m \in 0..N => h[m] = f[m]
             T == {m \in Nat : P(m)}
  <2>1. \A m \in 0..N : h[m] = IF m = 0 THEN <<<<>>, <<>>>>
                          ELSE IF s[m] = NL THEN <<Append(h[m - 1][1], h[m - 1][2]), <<>>>>
                          ELSE <<h[m - 1][1], Append(h[m - 1][2], s[m])>>
    BY <1>7
  <2>2. h = [m \in 0..N |-> h[m]]
    BY <1>7
  <2> HIDE DEF h, V
  <2>3. P(0)
    BY <2>1, <1>1, <1>4
  <2>4. ASSUME NEW m \in Nat, P(m) PROVE P(m + 1)
    <3> SUFFICES ASSUME m + 1 \in 0..N PROVE h[m + 1] = f[m + 1]
      OBVIOUS
    <3>1. m \in 0..N /\ m + 1 \in 1..N /\ (m + 1) - 1 = m /\ m + 1 # 0
      BY <1>1
    <3>2. h[m] = f[m]
      BY <3>1, <2>4
    <3> QED
      BY <3>1, <3>2, <2>1, <1>5
  <2> HIDE DEF P
  <2>5. T \subseteq Nat /\ 0 \in T /\ \A m \in T : m + 1 \in T
    BY <2>3, <2>4
  <2> HIDE DEF T
  <2>6. T = Nat
    BY <2>5, AllNat
  <2>7. \A m \in 0..N : h[m] = f[m]
    BY <2>6, <1>1 DEF T, P
  <2>8. f = [m \in 0..N |-> f[m]]
    OBVIOUS
  <2> QED
    BY <2>2, <2>7, <2>8
<1>9. Scan(s) = f[N]
  BY <1>7, <1>8
<1> HIDE DEF h, st
<1>10. Scans(f, s, S)
  BY <1>4, <1>5, <1>9 DEF Scans
<1> QED
  BY <1>10

\* What is after a line of s that ends before j, f being the lines from a place on.
After(f, s, j) == IF j = Len(s) + 1 THEN <<>> ELSE f[j + 1]

\* The line from i up to the newline at j, or the end of s, and those after it.
LinesFrom(f, s, S) ==
    /\ f \in [1 .. Len(s) + 1 -> Seq(Seq(S))] /\ f[Len(s) + 1] = <<>>
    /\ \A i \in 1..Len(s) : \A j \in i .. Len(s) + 1 :
        (j = Len(s) + 1 \/ s[j] = NL) /\ (\A k \in i .. j - 1 : s[k] # NL) =>
            f[i] = IF j - i < BufferSize THEN <<SubSeq(s, i, j - 1)>> \o After(f, s, j) ELSE After(f, s, j)

LEMMA LinesOfFacts ==
    ASSUME NEW S, NEW s \in Seq(S)
    PROVE  \E f : LinesFrom(f, s, S) /\ LinesOf(s) = f[1]
<1> DEFINE N == Len(s)
           V == Seq(Seq(S))
           end(i) == Min({j \in i .. Len(s) : s[j] = NL} \cup {Len(s) + 1})
           line(i) == SubSeq(s, i, end(i) - 1)
           body(f, i) == IF Len(line(i)) < BufferSize
                         THEN <<line(i)>> \o (IF end(i) = Len(s) + 1 THEN <<>> ELSE f[end(i) + 1])
                         ELSE IF end(i) = Len(s) + 1 THEN <<>> ELSE f[end(i) + 1]
           F(f) == f = [i \in 1 .. Len(s) + 1 |-> IF i = Len(s) + 1 THEN <<>> ELSE body(f, i)]
           h == CHOOSE f : F(f)
           nx == [i \in 1..N |-> IF end(i) = N + 1 THEN N + 1 ELSE end(i) + 1]
           st == [i \in 1..N |-> [v \in V |-> IF Len(line(i)) < BufferSize THEN <<line(i)>> \o v ELSE v]]
<1>0. N \in Nat /\ N = Len(s)
  OBVIOUS
<1>1. LinesOf(s) = h[1]
  BY DEF LinesOf
<1>2. ASSUME NEW i \in 1..N
      PROVE  /\ end(i) \in i .. N + 1
             /\ end(i) # N + 1 => s[end(i)] = NL
             /\ \A j \in i .. N : s[j] = NL => end(i) <= j
  <2> DEFINE T == {j \in i .. Len(s) : s[j] = NL} \cup {Len(s) + 1}
  <2>1. T \subseteq Nat /\ T # {} /\ T \subseteq i .. N + 1 /\ \A j \in T : j = N + 1 \/ s[j] = NL
    BY <1>0
  <2>2. \A j \in i..N : s[j] = NL => j \in T
    BY <1>0
  <2>3. end(i) = Min(T)
    OBVIOUS
  <2> HIDE DEF T, end
  <2>4. end(i) \in T /\ \A y \in T : end(i) <= y
    BY <2>1, <2>3, MinFacts
  <2> QED
    BY <2>1, <2>2, <2>4
<1> HIDE DEF end
<1>3. ASSUME NEW i \in 1..N
      PROVE  line(i) \in Seq(S) /\ Len(line(i)) = end(i) - i
  <2>1. end(i) - 1 \in (i - 1) .. Len(s) /\ end(i) \in Nat /\ i \in Nat
    BY <1>2, <1>0
  <2>2. line(i) \in Seq(S)
    <3>1. \A k \in i .. end(i) - 1 : k \in 1..Len(s)
      BY <2>1
    <3> QED
      BY <3>1, <2>1, SubSeqProperties
  <2>3. Len(line(i)) = end(i) - i
    <3>1. CASE i <= end(i) - 1
      BY <2>1, <3>1, SubSeqProperties
    <3>2. CASE ~(i <= end(i) - 1)
      BY <2>1, <3>2, SubSeqProperties
    <3> QED
      BY <3>1, <3>2
  <2> QED
    BY <2>2, <2>3
<1> HIDE DEF line
<1>4. Jumps(nx, N)
  <2>1. \A i \in 1..N : nx[i] \in 1 .. N + 1 /\ nx[i] > i
    <3> SUFFICES ASSUME NEW i \in 1..N PROVE nx[i] \in 1 .. N + 1 /\ nx[i] > i
      OBVIOUS
    <3>1. nx[i] = IF end(i) = N + 1 THEN N + 1 ELSE end(i) + 1
      OBVIOUS
    <3> HIDE DEF nx, N
    <3> QED
      BY <3>1, <1>2, <1>0
  <2>2. nx = [i \in 1..N |-> nx[i]]
    OBVIOUS
  <2> HIDE DEF nx
  <2> QED
    BY <2>1, <2>2 DEF Jumps
<1>5. ASSUME NEW i \in 1..N, NEW v \in V
      PROVE  st[i][v] = (IF Len(line(i)) < BufferSize THEN <<line(i)>> \o v ELSE v) /\ st[i][v] \in V
  <2>1. st[i][v] = IF Len(line(i)) < BufferSize THEN <<line(i)>> \o v ELSE v
    OBVIOUS
  <2>2. <<line(i)>> \in V
    BY <1>3
  <2>3. <<line(i)>> \o v \in V
    BY <2>2, ConcatProperties
  <2> HIDE DEF st
  <2> QED
    BY <2>1, <2>3
<1>6. LoopSteps(st, N, V)
  <2> HIDE DEF V, N
  <2>1. \A i \in 1..N : st[i] = [v \in V |-> st[i][v]]
    OBVIOUS
  <2>2. \A i \in 1..N : st[i] \in [V -> V]
    BY <2>1, <1>5
  <2>3. st = [i \in 1..N |-> st[i]]
    OBVIOUS
  <2> HIDE DEF st
  <2> QED
    BY <2>2, <2>3 DEF LoopSteps
<1>7. <<>> \in V
  OBVIOUS
<1>8. PICK f : BackRuns(f, <<>>, st, nx, N, V)
  <2> HIDE DEF st, nx, N, V
  <2> QED
    BY <1>0, <1>4, <1>6, <1>7, BackRecursion
<1>9. /\ f \in [1 .. N + 1 -> V] /\ f[N + 1] = <<>>
      /\ \A i \in 1..N : f[i] = body(f, i)
  <2>1. f \in [1 .. N + 1 -> V] /\ f[N + 1] = <<>> /\ \A i \in 1..N : f[i] = st[i][f[nx[i]]]
    BY <1>8 DEF BackRuns
  <2>2. ASSUME NEW i \in 1..N PROVE f[i] = body(f, i)
    <3> DEFINE v == IF end(i) = Len(s) + 1 THEN <<>> ELSE f[end(i) + 1]
    <3>1. nx[i] = IF end(i) = N + 1 THEN N + 1 ELSE end(i) + 1
      OBVIOUS
    <3>2. nx[i] \in 1 .. N + 1
      BY <1>4 DEF Jumps
    <3> HIDE DEF nx, st, V
    <3>3. f[nx[i]] \in V /\ f[nx[i]] = v
      BY <3>1, <3>2, <2>1
    <3>4. f[i] = IF Len(line(i)) < BufferSize THEN <<line(i)>> \o v ELSE v
      BY <3>3, <2>1, <1>5
    <3> QED
      BY <3>4
  <2> QED
    BY <2>1, <2>2
<1>10. F(f)
  <2>1. f = [i \in 1 .. N + 1 |-> f[i]]
    <3> HIDE DEF V, body
    <3> QED
      BY <1>9
  <2> HIDE DEF body, st, nx, V
  <2>2. \A i \in 1 .. N + 1 : i = N + 1 \/ i \in 1..N
    BY <1>0
  <2>3. \A i \in 1 .. N + 1 : f[i] = IF i = Len(s) + 1 THEN <<>> ELSE body(f, i)
    BY <2>2, <1>9
  <2> QED
    BY <2>1, <2>3
<1>11. F(h)
  <2> HIDE DEF F
  <2> QED
    BY <1>10
<1>12. h = f
  <2>1. DOMAIN h = 1 .. N + 1 /\ h = [i \in 1 .. N + 1 |-> h[i]]
    <3> HIDE DEF body, h
    <3> QED
      BY <1>11
  <2>2. h[N + 1] = <<>> /\ \A i \in 1..N : h[i] = body(h, i)
    <3> HIDE DEF body, h
    <3>1. \A i \in 1 .. N + 1 : h[i] = IF i = Len(s) + 1 THEN <<>> ELSE body(h, i)
      BY <1>11
    <3>2. N + 1 \in 1 .. N + 1 /\ \A i \in 1..N : i \in 1 .. N + 1 /\ i # N + 1
      BY <1>0
    <3> QED
      BY <3>1, <3>2
  <2> HIDE DEF h, V, nx, st
  <2>3. ASSUME NEW i \in 1..N, \A j \in i + 1 .. N + 1 : h[j] = f[j] PROVE h[i] = f[i]
    <3>1. end(i) # N + 1 => end(i) + 1 \in i + 1 .. N + 1
      BY <1>2, <1>0
    <3>2. end(i) # Len(s) + 1 => h[end(i) + 1] = f[end(i) + 1]
      BY <3>1, <2>3
    <3> QED
      BY <3>2, <2>2, <1>9
  <2> DEFINE T == {m \in Nat : m \in 0..N /\ h[N + 1 - m] # f[N + 1 - m]}
  <2>4. T = {}
    <3> SUFFICES ASSUME T # {} PROVE FALSE
      OBVIOUS
    <3>1. PICK m \in T : \A y \in T : m <= y
      <4>1. T \subseteq Nat
        OBVIOUS
      <4> HIDE DEF T
      <4> QED
        BY <4>1, LeastNat
    <3>2. m \in 0..N /\ h[N + 1 - m] # f[N + 1 - m] /\ \A y \in 0 .. m - 1 : h[N + 1 - y] = f[N + 1 - y]
      <4>1. m \in 0..N /\ h[N + 1 - m] # f[N + 1 - m]
        OBVIOUS
      <4>2. ASSUME NEW y \in 0 .. m - 1 PROVE h[N + 1 - y] = f[N + 1 - y]
        <5>1. y \in Nat /\ y \in 0..N /\ ~(m <= y)
          BY <4>1, <1>0
        <5>2. y \notin T
          BY <3>1, <5>1
        <5> QED
          BY <5>1, <5>2
      <4> QED
        BY <4>1, <4>2
    <3> HIDE DEF T
    <3> DEFINE i == N + 1 - m
    <3>3. i \in 1 .. N + 1 /\ (i # N + 1 => i \in 1..N)
      BY <3>2, <1>0
    <3>4. i # N + 1
      BY <3>2, <2>2, <1>9
    <3>5. ASSUME NEW j \in i + 1 .. N + 1 PROVE h[j] = f[j]
      <4>1. N + 1 - j \in 0 .. m - 1 /\ N + 1 - (N + 1 - j) = j
        BY <3>2, <3>3, <1>0
      <4> QED
        BY <4>1, <3>2
    <3>6. h[i] = f[i]
      BY <3>3, <3>4, <3>5, <2>3
    <3> QED
      BY <3>2, <3>6
  <2>5. \A i \in 1 .. N + 1 : h[i] = f[i]
    <3> SUFFICES ASSUME NEW i \in 1 .. N + 1 PROVE h[i] = f[i]
      OBVIOUS
    <3>1. N + 1 - i \in Nat /\ N + 1 - i \in 0..N /\ N + 1 - (N + 1 - i) = i /\ N + 1 - i \notin T
      BY <2>4, <1>0
    <3>2. ~(h[N + 1 - (N + 1 - i)] # f[N + 1 - (N + 1 - i)])
      BY <3>1
    <3> QED
      BY <3>1, <3>2
  <2>6. f = [i \in 1 .. N + 1 |-> f[i]]
    BY <1>9
  <2> QED
    BY <2>1, <2>5, <2>6
<1>13. ASSUME NEW i \in 1..Len(s), NEW j \in i .. Len(s) + 1,
              j = Len(s) + 1 \/ s[j] = NL, \A k \in i .. j - 1 : s[k] # NL
       PROVE  f[i] = IF j - i < BufferSize THEN <<SubSeq(s, i, j - 1)>> \o After(f, s, j) ELSE After(f, s, j)
  <2>1. j = end(i)
    BY <1>13, <1>2, <1>0
  <2>2. f[i] = body(f, i)
    BY <1>9
  <2>3. Len(line(i)) = j - i /\ line(i) = SubSeq(s, i, j - 1)
    BY <2>1, <1>3 DEF line
  <2> QED
    BY <2>1, <2>2, <2>3 DEF After
<1> HIDE DEF h, body, st, nx, end, line
<1>14. LinesFrom(f, s, S)
  BY <1>9, <1>13 DEF LinesFrom
<1> QED
  BY <1>1, <1>12, <1>14

LEMMA SubSeqGrows ==
    ASSUME NEW S, NEW s \in Seq(S), NEW m \in Nat, m + 1 <= Len(s), NEW b \in 1 .. m + 1
    PROVE  Append(SubSeq(s, b, m), s[m + 1]) = SubSeq(s, b, m + 1)
<1>1. b \in Int /\ m \in Int /\ m + 1 \in Int /\ Len(s) \in Nat
  OBVIOUS
<1>2. (\A i \in b .. m : s[i] \in S) /\ (\A i \in b .. m + 1 : s[i] \in S) /\ s[m + 1] \in S
  BY <1>1
<1>3. /\ SubSeq(s, b, m) \in Seq(S)
      /\ Len(SubSeq(s, b, m)) = IF b <= m THEN m - b + 1 ELSE 0
      /\ \A i \in 1 .. m - b + 1 : SubSeq(s, b, m)[i] = s[b + i - 1]
  BY <1>1, <1>2, SubSeqProperties
<1>4. /\ SubSeq(s, b, m + 1) \in Seq(S)
      /\ Len(SubSeq(s, b, m + 1)) = IF b <= m + 1 THEN m + 1 - b + 1 ELSE 0
      /\ \A i \in 1 .. m + 1 - b + 1 : SubSeq(s, b, m + 1)[i] = s[b + i - 1]
  BY <1>1, <1>2, SubSeqProperties
<1> DEFINE x == SubSeq(s, b, m)
           y == SubSeq(s, b, m + 1)
           z == Append(x, s[m + 1])
<1>5. /\ z \in Seq(S) /\ Len(z) = Len(x) + 1
      /\ \A i \in 1..Len(x) : z[i] = x[i]
      /\ z[Len(x) + 1] = s[m + 1]
  BY <1>2, <1>3, AppendProperties
<1>6. Len(x) = m - b + 1 /\ Len(y) = Len(x) + 1
  BY <1>3, <1>4
<1> HIDE DEF x, y, z
<1>7. ASSUME NEW i \in 1..Len(z) PROVE z[i] = y[i]
  <2>1. i \in 1 .. m + 1 - b + 1 /\ (i \in 1..Len(x) \/ i = Len(x) + 1)
    BY <1>5, <1>6
  <2>2. y[i] = s[b + i - 1]
    BY <2>1, <1>4 DEF y
  <2>3. CASE i \in 1..Len(x)
    BY <2>2, <2>3, <1>3, <1>5, <1>6 DEF x
  <2>4. CASE i = Len(x) + 1
    <3>1. b + i - 1 = m + 1
      BY <2>4, <1>6
    <3> QED
      BY <3>1, <2>2, <2>4, <1>5
  <2> QED
    BY <2>1, <2>3, <2>4
<1>8. y \in Seq(S)
  BY <1>4 DEF y
<1>9. z = y
  BY <1>5, <1>6, <1>7, <1>8, SeqEqual
<1> QED
  BY <1>9 DEF x, y, z

\* The lines that a piece ends, the first of them being the rest of one that is
\* ignored.
Kept(ls, ig, found1) == ls \o (IF ig /\ found1 # <<>> THEN Tail(found1) ELSE found1)

\* Up to e the line at hand begins at a, and what is kept of it at b.
Split(sc, a, b, e, f, p, ls, ig) ==
    /\ a \in 1 .. e + 1 /\ b \in a .. e + 1
    /\ \A j \in a..e : p[j] # NL
    /\ sc[2] = SubSeq(p, b, e)
    /\ Kept(ls, ig, sc[1]) \o f[a] = f[1]

LEMMA KeptOneMore ==
    ASSUME NEW V, NEW ls \in Seq(V), NEW ig \in BOOLEAN, NEW x \in Seq(V), NEW y \in V, x # <<>> \/ ~ig
    PROVE  Kept(ls, ig, x) \in Seq(V) /\ Kept(ls, ig, Append(x, y)) = Kept(ls, ig, x) \o <<y>>
<1> DEFINE z == Append(x, y)
           t == IF ig /\ x # <<>> THEN Tail(x) ELSE x
<1>1. z \in Seq(V) /\ z # <<>> /\ z = x \o <<y>> /\ <<y>> \in Seq(V)
  BY AppendProperties, AppendIsConcat
<1>2. t \in Seq(V)
  BY HeadTailProperties
<1>3. (IF ig /\ z # <<>> THEN Tail(z) ELSE z) = t \o <<y>>
  <2>1. CASE ig
    <3>1. x # <<>> /\ Tail(x) \in Seq(V)
      BY <2>1, HeadTailProperties
    <3>2. Tail(z) = Append(Tail(x), y)
      BY <3>1, HeadTailAppend
    <3>3. Append(Tail(x), y) = Tail(x) \o <<y>>
      BY <3>1, AppendIsConcat
    <3> QED
      BY <3>1, <3>2, <3>3, <2>1, <1>1
  <2>2. CASE ~ig
    BY <2>2, <1>1
  <2> QED
    BY <2>1, <2>2
<1> HIDE DEF z, t
<1>4. Kept(ls, ig, z) = ls \o (t \o <<y>>)
  BY <1>3 DEF Kept
<1>5. Kept(ls, ig, x) = ls \o t
  BY DEF Kept, t
<1>6. ls \o t \in Seq(V) /\ (ls \o t) \o <<y>> = ls \o (t \o <<y>>)
  BY <1>1, <1>2, ConcatProperties, ConcatAssociative
<1> QED
  BY <1>4, <1>5, <1>6 DEF z

\* The lines of a piece that is read when the line at hand began at start, and
\* what is in the buffer at first.
Chunk(w, W, start, first, f, p, ls, ig, S) ==
    /\ p \in Seq(S) /\ LinesFrom(f, p, S) /\ start \in Nat /\ first \in Nat /\ W \in Nat
    /\ 1 <= start /\ start <= first /\ first + W - 1 <= Len(p) /\ W <= BufferSize
    /\ ls \in Seq(Seq(S)) /\ ls \o f[start] = f[1] /\ ig \in BOOLEAN
    /\ (ig => first - start >= BufferSize) /\ (~ig => first = start)
    /\ \A k \in start .. first - 1 : p[k] # NL
    /\ w \in Seq(S) /\ Len(w) = W /\ \A k \in 1..W : w[k] = p[first + k - 1]

Chunked(sc, W, start, first, f, p, ls, ig, S) ==
    /\ sc \in Seq(Seq(S)) \X Seq(S)
    /\ \E a, b : /\ Split(sc, a, b, first + W - 1, f, p, ls, ig) /\ b >= first
                 /\ sc[1] = <<>> => a = start /\ b = first
                 /\ sc[1] # <<>> => a = b

LEMMA ChunkScanned ==
    ASSUME NEW w, NEW W, NEW start, NEW first, NEW f, NEW p, NEW ls, NEW ig, NEW S,
           Chunk(w, W, start, first, f, p, ls, ig, S)
    PROVE  Chunked(Scan(w), W, start, first, f, p, ls, ig, S)
<1> SUFFICES ASSUME p \in Seq(S), LinesFrom(f, p, S), start \in Nat, first \in Nat, W \in Nat,
                    1 <= start, start <= first, first + W - 1 <= Len(p), W <= BufferSize,
                    ls \in Seq(Seq(S)), ls \o f[start] = f[1], ig \in BOOLEAN,
                    ig => first - start >= BufferSize, ~ig => first = start,
                    \A k \in start .. first - 1 : p[k] # NL,
                    w \in Seq(S), Len(w) = W, \A k \in 1..W : w[k] = p[first + k - 1]
             PROVE  Chunked(Scan(w), W, start, first, f, p, ls, ig, S)
  BY DEF Chunk
<1> DEFINE V == Seq(S)
           N == Len(p)
<1>0. N \in Nat /\ BufferSize \in Nat /\ BufferSize > 0
  BY BufferAssumption
<1>01. PICK g : Scans(g, w, S)
  BY Scanned
<1>1. /\ g \in [0..W -> Seq(V) \X V]
      /\ Scan(w) = g[W]
      /\ g[0] = <<<<>>, <<>>>>
      /\ \A n \in 1..W : g[n] = IF w[n] = NL THEN <<Append(g[n - 1][1], g[n - 1][2]), <<>>>>
                                ELSE <<g[n - 1][1], Append(g[n - 1][2], w[n])>>
  BY <1>01 DEF Scans
<1>2. /\ f \in [1 .. N + 1 -> Seq(V)]
      /\ \A i \in 1..N : \A j \in i .. N + 1 :
           (j = N + 1 \/ p[j] = NL) /\ (\A k \in i .. j - 1 : p[k] # NL) =>
               f[i] = IF j - i < BufferSize THEN <<SubSeq(p, i, j - 1)>> \o After(f, p, j) ELSE After(f, p, j)
  BY DEF LinesFrom
<1> DEFINE Good(k, a, b) == /\ Split(g[k], a, b, first + k - 1, f, p, ls, ig) /\ b >= first
                            /\ g[k][1] = <<>> => a = start /\ b = first
                            /\ g[k][1] # <<>> => a = b
           Q(k) == k <= W => \E a, b : Good(k, a, b)
           T == {k \in Nat : Q(k)}
<1>3. Good(0, start, first)
  <2>1. first + 0 - 1 = first - 1 /\ (first - 1) + 1 = first /\ first - 1 \in Int /\ first - 1 < first
    OBVIOUS
  <2>2. SubSeq(p, first, first - 1) = <<>>
    BY <2>1, SubSeqEmpty
  <2>3. g[0][1] = <<>> /\ g[0][2] = <<>>
    BY <1>1
  <2>4. Kept(ls, ig, <<>>) = ls
    BY ConcatEmptySeq DEF Kept
  <2>5. start \in 1..first /\ first \in start..first
    OBVIOUS
  <2>6. Split(g[0], start, first, first - 1, f, p, ls, ig)
    BY <2>1, <2>2, <2>3, <2>4, <2>5 DEF Split
  <2> QED
    BY <2>1, <2>3, <2>6
<1>4. ASSUME NEW k \in Nat, Q(k), k + 1 <= W PROVE \E a, b : Good(k + 1, a, b)
  <2>1. PICK a, b : Good(k, a, b)
    BY <1>4
  <2> DEFINE e == first + k - 1
             x == g[k][1]
             y == g[k][2]
  <2>2. e + 1 = first + k /\ first + (k + 1) - 1 = e + 1 /\ e \in Nat /\ e + 1 <= N /\ e + 1 \in 1..N
    BY <1>0, <1>4
  <2>3. k \in 0..W /\ k + 1 \in 1..W /\ (k + 1) - 1 = k /\ w[k + 1] = p[e + 1] /\ p[e + 1] \in S
    <3>0. W \in Nat /\ k \in Nat /\ k + 1 <= W
      BY <1>4
    <3>1. k \in 0..W /\ k + 1 \in 1..W /\ (k + 1) - 1 = k
      BY ONLY <3>0
    <3>2. w[k + 1] = p[first + (k + 1) - 1] /\ p[e + 1] \in S
      BY <3>1, <2>2
    <3> HIDE DEF e
    <3> QED
      BY <3>1, <3>2, <2>2
  <2>4. x \in Seq(V) /\ y \in V
    <3>1. g[k] \in Seq(V) \X V
      <4> HIDE DEF V
      <4> QED
        BY <2>3, <1>1
    <3> HIDE DEF V
    <3> QED
      BY <3>1
  <2>5. /\ a \in 1 .. e + 1 /\ b \in a .. e + 1 /\ (\A j \in a..e : p[j] # NL)
        /\ y = SubSeq(p, b, e) /\ Kept(ls, ig, x) \o f[a] = f[1] /\ b >= first
        /\ x = <<>> => a = start /\ b = first
        /\ x # <<>> => a = b
    BY <2>1 DEF Split
  <2>6. g[k + 1] = IF p[e + 1] = NL THEN <<Append(x, y), <<>>>> ELSE <<x, Append(y, p[e + 1])>>
    BY <2>3, <1>1
  <2> HIDE DEF e, x, y
  <2>7. CASE p[e + 1] # NL
    <3>1. g[k + 1][1] = x /\ g[k + 1][2] = Append(y, p[e + 1])
      BY <2>6, <2>7
    <3>2. b \in 1 .. e + 1
      BY <2>2, <2>5
    <3>3. Append(y, p[e + 1]) = SubSeq(p, b, e + 1)
      BY <3>2, <2>2, <2>5, SubSeqGrows
    <3>4. a \in 1 .. e + 1 + 1 /\ b \in a .. e + 1 + 1
      BY <2>2, <2>5
    <3>5. \A j \in a .. e + 1 : p[j] # NL
      <4>1. \A j \in a .. e + 1 : j = e + 1 \/ j \in a..e
        BY <2>2, <2>5
      <4> QED
        BY <4>1, <2>5, <2>7
    <3>6. Split(g[k + 1], a, b, e + 1, f, p, ls, ig)
      BY <3>1, <3>3, <3>4, <3>5, <2>5 DEF Split
    <3>7. Good(k + 1, a, b)
      BY <3>1, <3>6, <2>2, <2>5
    <3> QED
      BY <3>7
  <2>8. CASE p[e + 1] = NL
    <3>1. g[k + 1][1] = Append(x, y) /\ g[k + 1][2] = <<>>
      BY <2>6, <2>8
    <3> DEFINE c == e + 2
    <3>2. c \in 1 .. e + 1 + 1 /\ c \in c .. e + 1 + 1 /\ c \in 1 .. N + 1 /\ (\A j \in c .. e + 1 : FALSE) /\ e + 1 < c
          /\ c \in Int /\ e + 1 \in Int /\ c >= first
      BY <2>2
    <3>3. SubSeq(p, c, e + 1) = <<>>
      BY <3>2, SubSeqEmpty
    <3>4. f[a] = IF (e + 1) - a < BufferSize THEN <<SubSeq(p, a, e)>> \o f[c] ELSE f[c]
      <4>1. a \in 1..N /\ e + 1 \in a .. N + 1 /\ e + 1 # N + 1 /\ (e + 1) - 1 = e /\ e + 1 + 1 = c
        BY <2>2, <2>5, <1>0
      <4>2. After(f, p, e + 1) = f[c]
        BY <4>1 DEF After
      <4>3. f[a] = IF (e + 1) - a < BufferSize THEN <<SubSeq(p, a, (e + 1) - 1)>> \o After(f, p, e + 1) ELSE After(f, p, e + 1)
        <5>1. \A j \in a .. (e + 1) - 1 : p[j] # NL
          BY <4>1, <2>5
        <5>2. \A j \in a .. N + 1 :
                (j = N + 1 \/ p[j] = NL) /\ (\A i \in a .. j - 1 : p[i] # NL) =>
                    f[a] = IF j - a < BufferSize THEN <<SubSeq(p, a, j - 1)>> \o After(f, p, j) ELSE After(f, p, j)
          BY <4>1, <1>2
        <5> DEFINE z == e + 1
        <5>3. z \in a .. N + 1 /\ p[z] = NL /\ \A j \in a .. z - 1 : p[j] # NL
          BY <5>1, <4>1, <2>8
        <5> HIDE DEF V, z
        <5>4. f[a] = IF z - a < BufferSize THEN <<SubSeq(p, a, z - 1)>> \o After(f, p, z) ELSE After(f, p, z)
          BY <5>2, <5>3
        <5> QED
          BY <5>4 DEF z
      <4> QED
        BY <4>1, <4>2, <4>3
    <3> HIDE DEF c
    <3>5. Append(x, y) # <<>> /\ f[c] \in Seq(V) /\ f[a] \in Seq(V)
      <4>1. a \in 1 .. N + 1
        BY <2>2, <2>5
      <4>2. f[c] \in Seq(V) /\ f[a] \in Seq(V)
        BY <4>1, <3>2, <1>2
      <4> HIDE DEF V
      <4>3. Append(x, y) # <<>>
        BY <2>4, AppendProperties
      <4> QED
        BY <4>2, <4>3
    <3>6. Kept(ls, ig, Append(x, y)) \o f[c] = f[1]
      <4>1. CASE x = <<>> /\ ig
        \* The end of an overly long line.
        <5>1. ~((e + 1) - a < BufferSize)
          BY <4>1, <2>2, <2>5, <1>0
        <5>2. Tail(Append(x, y)) = <<>>
          BY <4>1, <2>4, HeadTailAppend
        <5>3. Kept(ls, ig, Append(x, y)) = ls
          BY <4>1, <5>2, <3>5, ConcatEmptySeq DEF Kept
        <5> QED
          BY <5>1, <5>3, <4>1, <3>4, <2>5
      <4>2. CASE x # <<>> \/ ~ig
        <5>1. a = b /\ a >= first
          BY <4>2, <2>5
        <5>2. (e + 1) - a < BufferSize
          BY <5>1, <2>2, <2>5, <1>0, <1>4
        <5>3. f[a] = <<y>> \o f[c]
          BY <5>1, <5>2, <3>4, <2>5
        <5> HIDE DEF V
        <5>4. ls \in Seq(V) /\ ig \in BOOLEAN
          BY DEF V
        <5>5. Kept(ls, ig, x) \in Seq(V) /\ Kept(ls, ig, Append(x, y)) = Kept(ls, ig, x) \o <<y>>
          BY ONLY <5>4, <4>2, <2>4, KeptOneMore
        <5>6. <<y>> \in Seq(V)
          BY <2>4
        <5>7. (Kept(ls, ig, x) \o <<y>>) \o f[c] = Kept(ls, ig, x) \o (<<y>> \o f[c])
          <6> DEFINE k1 == Kept(ls, ig, x)
                     k2 == <<y>>
                     k3 == f[c]
          <6>1. k1 \in Seq(V) /\ k2 \in Seq(V) /\ k3 \in Seq(V)
            BY <5>5, <5>6, <3>5
          <6> HIDE DEF k1, k2, k3
          <6>2. (k1 \o k2) \o k3 = k1 \o (k2 \o k3)
            BY ONLY <6>1, ConcatAssociative
          <6> QED
            BY <6>2 DEF k1, k2, k3
        <5> QED
          BY <5>3, <5>5, <5>7, <2>5
      <4> QED
        BY <4>1, <4>2
    <3>7. Split(g[k + 1], c, c, e + 1, f, p, ls, ig)
      BY <3>1, <3>2, <3>3, <3>6 DEF Split
    <3>8. Good(k + 1, c, c)
      BY <3>1, <3>2, <3>5, <3>7, <2>2
    <3> QED
      BY <3>8
  <2> QED
    BY <2>7, <2>8
<1> HIDE DEF Good
<1>5. T \subseteq Nat /\ 0 \in T /\ \A k \in T : k + 1 \in T
  <2>1. Q(0)
    BY <1>3
  <2>2. ASSUME NEW k \in Nat, Q(k) PROVE Q(k + 1)
    <3> SUFFICES ASSUME k + 1 <= W PROVE \E a, b : Good(k + 1, a, b)
      OBVIOUS
    <3> QED
      BY <2>2, <1>4
  <2> HIDE DEF Q
  <2>3. 0 \in T
    BY <2>1
  <2>4. ASSUME NEW k \in T PROVE k + 1 \in T
    BY <2>2
  <2> QED
    BY <2>3, <2>4
<1>6. W \in T
  <2> HIDE DEF T
  <2> QED
    BY <1>5, AllNat
<1>7. PICK a, b : Good(W, a, b)
  BY <1>6
<1>8. g[W] \in Seq(V) \X V
  <2> HIDE DEF V
  <2> QED
    BY <1>1
<1> QED
  BY <1>1, <1>7, <1>8 DEF Good, Chunked

-----------------------------------------------------------------------------
(* LineReader *)

LEMMA HelperNames ==
    /\ Keys = {"workgroup", "security", "netbios name", "server string"}
    /\ Helpers = {"workgroup", "security", "netbios name", "server string", "samba"}
    /\ Nobody \notin Helpers
    /\ \A h \in Helpers : h \notin {"start", "conf", "found", "decided", "serving", "failed"}
<1>1. Keys = {"workgroup", "security", "netbios name", "server string"}
  <2>1. DOMAIN Parameters = 1..4 /\ Parameters[1] = "workgroup" /\ Parameters[2] = "security"
        /\ Parameters[3] = "netbios name" /\ Parameters[4] = "server string"
    BY DEF Parameters
  <2>2. \A i : i \in 1..4 <=> i \in {1, 2, 3, 4}
    OBVIOUS
  <2>3. Keys = {Parameters[i] : i \in 1..4}
    BY <2>1 DEF Keys, ToSet
  <2> HIDE DEF Parameters
  <2>4. Keys = {Parameters[1], Parameters[2], Parameters[3], Parameters[4]}
    BY <2>2, <2>3
  <2> QED
    BY <2>1, <2>4
<1> QED
  BY <1>1 DEF Helpers, Nobody

\* How much of the output was read.
Taken == Len(printed) - Len(rest)

\* The line at hand begins at start, and what the buffer holds of it at first.
Reading(f, start, first) ==
    /\ start \in 1 .. Taken + 1 /\ first \in start .. Taken + 1
    /\ \A k \in start..Taken : printed[k] # NL
    /\ buf = SubSeq(printed, first, Taken) /\ Taken + 1 - first < BufferSize
    /\ lines \o f[start] = f[1]
    /\ ignore => first - start >= BufferSize
    /\ ~ignore => first = start

\* What is left is the rest of the output, and the lines that were given to the
\* sink are those before the line at hand: with those from there on they are all
\* of the lines.  A line is ignored once the buffer was full of it.
ReadingInv ==
    /\ helper # Nobody => helper \in Helpers /\ at = helper
    /\ helper # Nobody =>
        /\ printed \in Seq(STRING) /\ rest \in Seq(STRING) /\ lines \in Seq(Seq(STRING)) /\ ignore \in BOOLEAN
        /\ Len(rest) <= Len(printed) /\ \A k \in 1..Len(rest) : rest[k] = printed[Taken + k]
        /\ \A f : LinesFrom(f, printed, STRING) => \E start, first : Reading(f, start, first)

LEMMA ReadingExact ==
    ASSUME ReadingInv
    PROVE  LinesExact
<1> SUFFICES ASSUME helper # Nobody
             PROVE  IsPrefix(lines, LinesOf(printed)) /\ (rest = <<>> => AllLines = LinesOf(printed))
  BY DEF LinesExact
<1> DEFINE V == Seq(STRING)
           N == Len(printed)
<1>1. printed \in Seq(STRING) /\ lines \in Seq(V) /\ ignore \in BOOLEAN /\ N \in Nat /\ BufferSize \in Nat \ {0}
  BY BufferAssumption DEF ReadingInv
<1>2. PICK f : LinesFrom(f, printed, STRING) /\ LinesOf(printed) = f[1]
  BY <1>1, LinesOfFacts
<1>3. PICK start, first : Reading(f, start, first)
  BY <1>2 DEF ReadingInv
<1>4. /\ f \in [1 .. N + 1 -> Seq(V)] /\ f[N + 1] = <<>>
      /\ \A i \in 1..N : \A j \in i .. N + 1 :
           (j = N + 1 \/ printed[j] = NL) /\ (\A k \in i .. j - 1 : printed[k] # NL) =>
               f[i] = IF j - i < BufferSize THEN <<SubSeq(printed, i, j - 1)>> \o After(f, printed, j)
                      ELSE After(f, printed, j)
  BY <1>2 DEF LinesFrom
<1>5. Len(rest) \in Nat /\ Len(rest) <= N
  BY DEF ReadingInv
<1>6. start \in 1 .. N + 1 /\ f[start] \in Seq(V) /\ lines \o f[start] = f[1]
  <2>1. start \in 1 .. N + 1 /\ lines \o f[start] = f[1]
    BY <1>1, <1>3, <1>5 DEF Reading, Taken
  <2> HIDE DEF V
  <2> QED
    BY <2>1, <1>4
<1>7. IsPrefix(lines, f[1])
  <2> HIDE DEF V
  <2> DEFINE t == f[start]
             u == lines \o t
  <2>1. t \in Seq(V) /\ u = f[1] /\ lines \in Seq(V)
    BY <1>1, <1>6
  <2> HIDE DEF t
  <2>2. Len(u) = Len(lines) + Len(t) /\ u \in Seq(V)
        /\ \A i \in 1 .. Len(lines) + Len(t) : u[i] = IF i <= Len(lines) THEN lines[i] ELSE t[i - Len(lines)]
    BY <2>1, ConcatProperties
  <2>3. Len(lines) \in Nat /\ Len(t) \in Nat /\ DOMAIN lines = 1..Len(lines) /\ DOMAIN u = 1..Len(u)
    BY <2>1, <2>2
  <2> HIDE DEF u
  <2>4. \A i \in 1..Len(lines) : i \in 1 .. Len(lines) + Len(t) /\ u[i] = lines[i]
    BY <2>2, <2>3
  <2>5. IsPrefix(lines, u)
    BY <2>2, <2>3, <2>4 DEF IsPrefix
  <2> QED
    BY <2>1, <2>5
<1>8. ASSUME rest = <<>> PROVE AllLines = f[1]
  <2>1. Taken = N
    BY <1>8, <1>1 DEF Taken
  <2>2. /\ first \in start .. N + 1 /\ (\A k \in start..N : printed[k] # NL)
        /\ buf = SubSeq(printed, first, N) /\ N + 1 - first < BufferSize
        /\ (ignore => first - start >= BufferSize) /\ (~ignore => first = start)
    BY <2>1, <1>3 DEF Reading
  <2>3. CASE start = N + 1
    <3>1. ~ignore /\ first = N + 1
      BY <2>2, <2>3, <1>1
    <3>2. buf = <<>>
      <4>1. N + 1 \in Int /\ N \in Int /\ N < N + 1
        BY <1>1
      <4> QED
        BY <4>1, <3>1, <2>2, SubSeqEmpty
    <3>3. lines \o <<>> = lines
      BY <1>1, ConcatEmptySeq
    <3> QED
      BY <3>2, <3>3, <2>3, <1>4, <1>6 DEF AllLines
  <2>4. CASE start # N + 1
    <3>1. start \in 1..N /\ N + 1 \in start .. N + 1 /\ (N + 1) - 1 = N
      BY <2>4, <1>1, <1>6
    <3>2. After(f, printed, N + 1) = <<>>
      BY DEF After
    <3>3. f[start] = IF (N + 1) - start < BufferSize THEN <<SubSeq(printed, start, N)>> \o <<>> ELSE <<>>
      <4>1. \A j \in start .. N + 1 :
              (j = N + 1 \/ printed[j] = NL) /\ (\A k \in start .. j - 1 : printed[k] # NL) =>
                 f[start] = IF j - start < BufferSize THEN <<SubSeq(printed, start, j - 1)>> \o After(f, printed, j)
                            ELSE After(f, printed, j)
        BY <3>1, <1>4
      <4> DEFINE z == N + 1
      <4>2. z \in start .. N + 1 /\ z = N + 1 /\ \A k \in start .. z - 1 : printed[k] # NL
        BY <3>1, <2>2
      <4> HIDE DEF z
      <4>3. f[start] = IF z - start < BufferSize THEN <<SubSeq(printed, start, z - 1)>> \o After(f, printed, z)
                       ELSE After(f, printed, z)
        BY <4>1, <4>2
      <4> QED
        BY <4>2, <4>3, <3>1, <3>2
    <3>4. CASE ignore
      <4>1. ~((N + 1) - start < BufferSize)
        BY <3>4, <3>1, <2>2, <1>1
      <4> QED
        BY <4>1, <3>3, <3>4, <1>1, <1>6, ConcatEmptySeq DEF AllLines
    <3>5. CASE ~ignore
      <4>1. first = start /\ (N + 1) - start < BufferSize /\ buf = SubSeq(printed, start, N)
        BY <3>5, <3>1, <2>2, <1>1
      <4>2. buf \in V /\ Len(buf) = N - start + 1 /\ buf # <<>>
        <5>1. start \in Int /\ N \in Int /\ start <= N /\ \A i \in start..N : printed[i] \in STRING
          BY <3>1, <1>1
        <5>2. buf \in V /\ Len(buf) = N - start + 1
          BY <5>1, <4>1, SubSeqProperties
        <5>3. Len(buf) > 0
          BY <5>1, <5>2
        <5> QED
          BY <5>2, <5>3
      <4>3. <<buf>> \o <<>> = <<buf>>
        OBVIOUS
      <4>4. f[start] = <<buf>>
        BY <4>1, <4>3, <3>3
      <4> HIDE DEF V
      <4>5. Append(lines, buf) = lines \o <<buf>>
        BY <4>2, <1>1, AppendIsConcat
      <4> QED
        BY <4>2, <4>4, <4>5, <3>5, <1>6 DEF AllLines
    <3> QED
      BY <3>4, <3>5, <1>1
  <2> QED
    BY <2>3, <2>4
<1> QED
  BY <1>2, <1>7, <1>8

LEMMA SpawnReads ==
    ASSUME ReadingInv, NEW h \in Helpers, NEW out \in Outputs[h], NEW code, Spawn(h, out, code), at' = h
    PROVE  ReadingInv'
<1>1. out \in Seq(STRING) /\ helper' = h /\ h # Nobody
  BY InputAssumption, HelperNames DEF Spawn
<1>2. printed' = out /\ rest' = out /\ lines' = <<>> /\ buf' = <<>> /\ ignore' = FALSE
  BY DEF Spawn
<1>3. Len(out) \in Nat /\ Taken' = 0
  BY <1>1, <1>2 DEF Taken
<1>4. rest' \in Seq(STRING) /\ lines' \in Seq(Seq(STRING)) /\ Len(rest') <= Len(printed')
      /\ \A k \in 1..Len(rest') : rest'[k] = printed'[Taken' + k]
  <2>1. \A k \in 1..Len(out) : 0 + k = k
    BY <1>3
  <2>2. <<>> \in Seq(Seq(STRING))
    OBVIOUS
  <2> QED
    BY <2>1, <2>2, <1>1, <1>2, <1>3
<1>5. ASSUME NEW f, LinesFrom(f, printed', STRING) PROVE Reading(f, 1, 1)'
  <2>1. f \in [1 .. Len(out) + 1 -> Seq(Seq(STRING))]
    BY <1>2, <1>5 DEF LinesFrom
  <2>2. f[1] \in Seq(Seq(STRING))
    BY <2>1, <1>3
  <2>3. <<>> \o f[1] = f[1]
    BY <2>2, ConcatEmptySeq
  <2>4. SubSeq(out, 1, 0) = <<>>
    BY SubSeqEmpty
  <2>5. 1 \in 1 .. 0 + 1 /\ (\A k \in 1..0 : FALSE) /\ 0 + 1 - 1 < BufferSize
    BY BufferAssumption
  <2> QED
    BY <2>3, <2>4, <2>5, <1>2, <1>3 DEF Reading
<1> QED
  BY <1>1, <1>2, <1>4, <1>5 DEF ReadingInv

LEMMA ChunkReads ==
    ASSUME ReadingInv, helper # Nobody, NEW n \in 1..BufferSize, ReadChunk(n), at' = at
    PROVE  ReadingInv'
<1> DEFINE S == STRING
           w == buf \o SubSeq(rest, 1, n)
           sc == Scan(w)
<1>1. /\ printed \in Seq(S) /\ rest \in Seq(S) /\ lines \in Seq(Seq(S)) /\ ignore \in BOOLEAN
      /\ Len(rest) <= Len(printed) /\ \A k \in 1..Len(rest) : rest[k] = printed[Taken + k]
      /\ \A f : LinesFrom(f, printed, S) => \E start, first : Reading(f, start, first)
  BY DEF ReadingInv
<1>2. /\ n <= BufferSize - Len(buf) /\ n <= Len(rest)
      /\ rest' = SubSeq(rest, n + 1, Len(rest))
      /\ lines' = Kept(lines, ignore, sc[1])
      /\ IF Len(sc[2]) = BufferSize THEN buf' = <<>> /\ ignore' = TRUE
         ELSE buf' = sc[2] /\ ignore' = (ignore /\ sc[1] = <<>>)
      /\ helper' = helper /\ printed' = printed
  BY DEF ReadChunk, Kept
<1>3. BufferSize \in Nat /\ BufferSize > 0 /\ n \in Nat /\ n >= 1 /\ Len(rest) \in Nat /\ Len(printed) \in Nat /\ Taken \in Nat
  BY <1>1, BufferAssumption DEF Taken
<1>4. rest' \in Seq(S) /\ Len(rest') = Len(rest) - n /\ Taken' = Taken + n
      /\ \A k \in 1..Len(rest') : rest'[k] = rest[n + k]
  <2>1. n + 1 \in Int /\ Len(rest) \in Int /\ \A i \in n + 1 .. Len(rest) : rest[i] \in S
    BY <1>1, <1>3
  <2>2. /\ rest' \in Seq(S) /\ Len(rest') = IF n + 1 <= Len(rest) THEN Len(rest) - (n + 1) + 1 ELSE 0
        /\ \A i \in 1 .. Len(rest) - (n + 1) + 1 : rest'[i] = rest[n + 1 + i - 1]
    BY <2>1, <1>2, SubSeqProperties
  <2>3. Len(rest') = Len(rest) - n
    BY <2>2, <1>2, <1>3
  <2>4. ASSUME NEW k \in 1..Len(rest') PROVE rest'[k] = rest[n + k]
    <3>1. k \in 1 .. Len(rest) - (n + 1) + 1 /\ n + 1 + k - 1 = n + k
      BY <2>3, <1>2, <1>3
    <3> QED
      BY <3>1, <2>2
  <2>5. Taken' = Taken + n
    BY <2>3, <1>2, <1>3 DEF Taken
  <2> QED
    BY <2>2, <2>3, <2>4, <2>5
<1>5. Len(rest') <= Len(printed') /\ \A k \in 1..Len(rest') : rest'[k] = printed'[Taken' + k]
  <2>1. ASSUME NEW k \in 1..Len(rest') PROVE rest'[k] = printed[Taken' + k]
    <3>1. n + k \in 1..Len(rest) /\ Taken + (n + k) = Taken' + k
      BY <1>2, <1>3, <1>4
    <3> QED
      BY <3>1, <1>1, <1>4
  <2> QED
    BY <2>1, <1>1, <1>2, <1>3, <1>4
<1>6. ASSUME NEW f, LinesFrom(f, printed, S)
      PROVE  lines' \in Seq(Seq(S)) /\ ignore' \in BOOLEAN /\ \E start, first : Reading(f, start, first)'
  <2>1. PICK start, first : Reading(f, start, first)
    BY <1>1, <1>6
  <2>2. /\ start \in 1 .. Taken + 1 /\ first \in start .. Taken + 1
        /\ \A k \in start..Taken : printed[k] # NL
        /\ buf = SubSeq(printed, first, Taken) /\ Taken + 1 - first < BufferSize
        /\ lines \o f[start] = f[1]
        /\ ignore => first - start >= BufferSize
        /\ ~ignore => first = start
    BY <2>1 DEF Reading
  <2>3. start \in Nat /\ first \in Nat /\ 1 <= start /\ start <= first /\ Taken <= Len(printed) /\ first <= Taken + 1
        /\ Taken + n <= Len(printed)
    BY <2>2, <1>1, <1>2, <1>3 DEF Taken
  <2> DEFINE B == Taken + 1 - first
             W == B + n
  <2>4. buf \in Seq(S) /\ Len(buf) = B /\ B \in Nat /\ \A k \in 1..B : buf[k] = printed[first + k - 1]
    <3>1. first \in Int /\ Taken \in Int /\ \A i \in first..Taken : printed[i] \in S
      BY <2>3, <1>1, <1>3
    <3>2. /\ buf \in Seq(S) /\ Len(buf) = IF first <= Taken THEN Taken - first + 1 ELSE 0
          /\ \A i \in 1 .. Taken - first + 1 : buf[i] = printed[first + i - 1]
      BY <3>1, <2>2, SubSeqProperties
    <3>3. B \in Nat /\ Len(buf) = B /\ Taken - first + 1 = B
      BY <3>2, <2>3, <1>3
    <3> QED
      BY <3>2, <3>3
  <2>5. SubSeq(rest, 1, n) \in Seq(S) /\ Len(SubSeq(rest, 1, n)) = n /\ \A k \in 1..n : SubSeq(rest, 1, n)[k] = rest[k]
    <3>0. \A i \in 1..n : i \in 1..Len(rest)
      BY <1>2, <1>3
    <3>1. 1 \in Int /\ n \in Int /\ 1 <= n /\ \A i \in 1..n : rest[i] \in S
      BY <3>0, <1>1, <1>3
    <3>2. /\ SubSeq(rest, 1, n) \in Seq(S) /\ Len(SubSeq(rest, 1, n)) = IF 1 <= n THEN n - 1 + 1 ELSE 0
          /\ \A i \in 1 .. n - 1 + 1 : SubSeq(rest, 1, n)[i] = rest[1 + i - 1]
      BY <3>1, SubSeqProperties
    <3>3. n - 1 + 1 = n /\ \A i \in 1..n : 1 + i - 1 = i
      BY <1>3
    <3> QED
      BY <3>1, <3>2, <3>3
  <2>6. w \in Seq(S) /\ Len(w) = W /\ \A k \in 1..W : w[k] = printed[first + k - 1]
    <3> DEFINE q == SubSeq(rest, 1, n)
    <3>1. q \in Seq(S) /\ Len(q) = n /\ \A k \in 1..n : q[k] = rest[k]
      BY <2>5
    <3> HIDE DEF q, S
    <3>2. w = buf \o q
      BY DEF q
    <3> HIDE DEF w
    <3>3. /\ w \in Seq(S) /\ Len(w) = Len(buf) + Len(q)
          /\ \A i \in 1 .. Len(buf) + Len(q) : w[i] = IF i <= Len(buf) THEN buf[i] ELSE q[i - Len(buf)]
      BY <3>1, <3>2, <2>4, ConcatProperties
    <3>4. ASSUME NEW k \in 1..W PROVE w[k] = printed[first + k - 1]
      <4>1. k \in 1 .. Len(buf) + Len(q) /\ (k <= B => k \in 1..B)
        BY <3>1, <2>4
      <4>2. CASE k <= B
        BY <4>1, <4>2, <3>3, <2>4
      <4>3. CASE ~(k <= B)
        <5>1. k - B \in 1..n /\ k - B \in 1..Len(rest) /\ Taken + (k - B) = first + k - 1
          BY <4>1, <4>3, <3>1, <2>3, <2>4, <1>2, <1>3
        <5>2. w[k] = q[k - B]
          BY <4>1, <4>3, <3>3, <2>4
        <5>3. q[k - B] = printed[Taken + (k - B)]
          BY <5>1, <3>1, <1>1
        <5> QED
          BY <5>1, <5>2, <5>3
      <4> QED
        BY <4>2, <4>3
    <3> QED
      BY <3>1, <3>3, <3>4, <2>4
  <2>7. W \in Nat /\ first + W - 1 = Taken + n /\ first + W - 1 <= Len(printed) /\ W <= BufferSize
    BY <2>3, <2>4, <1>2, <1>3
  <2>8. \A k \in start .. first - 1 : printed[k] # NL
    BY <2>2, <2>3, <1>3
  <2> HIDE DEF S, w
  <2>01. PICK e : e = first + W - 1
    OBVIOUS
  <2>9. /\ sc \in Seq(Seq(S)) \X Seq(S)
        /\ \E a, b : /\ Split(sc, a, b, e, f, printed, lines, ignore) /\ b >= first
                     /\ sc[1] = <<>> => a = start /\ b = first
                     /\ sc[1] # <<>> => a = b
    <3> HIDE DEF W, B
    <3>1. Chunk(w, W, start, first, f, printed, lines, ignore, S)
      BY <2>2, <2>3, <2>6, <2>7, <2>8, <1>1, <1>6 DEF Chunk
    <3>2. Chunked(sc, W, start, first, f, printed, lines, ignore, S)
      BY <3>1, ChunkScanned
    <3> QED
      BY <3>2, <2>01 DEF Chunked
  <2>10. PICK a, b : /\ Split(sc, a, b, e, f, printed, lines, ignore) /\ b >= first
                     /\ sc[1] = <<>> => a = start /\ b = first
                     /\ sc[1] # <<>> => a = b
    BY <2>9
  <2> HIDE DEF sc
  <2>11. sc[1] \in Seq(Seq(S)) /\ sc[2] \in Seq(S)
    BY <2>9
  <2>12. lines' \in Seq(Seq(S))
    <3> DEFINE t == IF ignore /\ sc[1] # <<>> THEN Tail(sc[1]) ELSE sc[1]
    <3>1. t \in Seq(Seq(S))
      BY <2>11, HeadTailProperties
    <3>2. lines' = lines \o t
      BY <1>2 DEF Kept
    <3> HIDE DEF t
    <3> QED
      BY <3>1, <3>2, <1>1, ConcatProperties
  <2>13. ignore' \in BOOLEAN
    BY <1>2
  <2>14. Taken' = e /\ e \in Nat /\ e <= Len(printed)
    BY <2>01, <2>7, <1>3, <1>4
  <2>15. /\ a \in 1 .. e + 1 /\ b \in a .. e + 1 /\ (\A j \in a..e : printed[j] # NL)
         /\ sc[2] = SubSeq(printed, b, e) /\ lines' \o f[a] = f[1]
    BY <2>10, <1>2 DEF Split
  <2>16. Len(sc[2]) = (e + 1) - b /\ (e + 1) - b <= BufferSize /\ b \in Nat /\ a \in Nat
    <3>1. b \in Int /\ e \in Int /\ b \in Nat /\ a \in Nat /\ \A i \in b..e : printed[i] \in S
      BY <2>14, <2>15, <1>1
    <3>2. Len(SubSeq(printed, b, e)) = IF b <= e THEN e - b + 1 ELSE 0
      BY <3>1, SubSeqProperties
    <3>3. Len(sc[2]) = (e + 1) - b
      BY <3>1, <3>2, <2>14, <2>15
    <3>4. (e + 1) - b <= BufferSize
      <4>1. b >= first /\ b \in Nat /\ first \in Nat /\ W <= BufferSize /\ W \in Nat /\ BufferSize \in Nat
        BY <3>1, <2>3, <2>7, <2>10, <1>3
      <4> HIDE DEF W
      <4> QED
        BY <4>1, <2>01
    <3> QED
      BY <3>1, <3>3, <3>4
  <2>17. CASE Len(sc[2]) = BufferSize
    <3>1. buf' = <<>> /\ ignore' = TRUE
      BY <2>17, <1>2
    <3>2. SubSeq(printed, e + 1, e) = <<>>
      <4>1. e + 1 \in Int /\ e \in Int /\ e < e + 1
        BY <2>14
      <4> QED
        BY <4>1, SubSeqEmpty
    <3>3. e + 1 \in a .. e + 1 /\ (e + 1) - (e + 1) < BufferSize /\ (e + 1) - a >= BufferSize
      BY <2>14, <2>15, <2>16, <2>17, <1>3
    <3>03. PICK d \in Nat : d = e + 1
      BY <2>14
    <3>4. /\ d \in a .. e + 1 /\ e + 1 - d < BufferSize /\ d - a >= BufferSize /\ SubSeq(printed, d, e) = <<>>
      BY <3>03, <3>2, <3>3, <2>14, <2>16
    <3>5. Reading(f, a, d)'
      BY <3>1, <3>4, <2>14, <2>15, <1>2 DEF Reading
    <3> QED
      BY <3>5, <2>12, <2>13
  <2>18. CASE Len(sc[2]) # BufferSize
    <3>1. buf' = sc[2] /\ ignore' = (ignore /\ sc[1] = <<>>)
      BY <2>18, <1>2
    <3>2. (e + 1) - b < BufferSize
      BY <2>14, <2>16, <2>18, <1>3
    <3>3. (ignore' => b - a >= BufferSize) /\ (~ignore' => b = a)
      BY <3>1, <2>2, <2>10
    <3>4. Reading(f, a, b)'
      BY <3>1, <3>2, <3>3, <2>14, <2>15, <1>2 DEF Reading
    <3> QED
      BY <3>4, <2>12, <2>13
  <2> QED
    BY <2>17, <2>18
<1>7. PICK f0 : LinesFrom(f0, printed, S)
  BY <1>1, LinesOfFacts
<1>8. lines' \in Seq(Seq(S)) /\ ignore' \in BOOLEAN
  BY <1>6, <1>7
<1>9. \A f : LinesFrom(f, printed', S) => \E start, first : Reading(f, start, first)'
  BY <1>2, <1>6
<1>10. printed' \in Seq(S) /\ helper' \in Helpers /\ at' = helper'
  BY <1>1, <1>2 DEF ReadingInv
<1> QED
  BY <1>4, <1>5, <1>8, <1>9, <1>10 DEF ReadingInv

\* Where no helper runs there is nothing to keep.
LEMMA NobodyReads ==
    ASSUME ReadingInv, helper' = Nobody \/ (helper' = helper /\ at \notin Helpers)
    PROVE  ReadingInv'
BY DEF ReadingInv

LEMMA ReadingUnchanged ==
    ASSUME ReadingInv, UNCHANGED <<hostvars, shellvars>>
    PROVE  ReadingInv'
<1>1. /\ helper' = helper /\ rest' = rest /\ buf' = buf /\ ignore' = ignore /\ lines' = lines
      /\ printed' = printed /\ at' = at
  BY DEF hostvars, shellvars
<1>2. Taken' = Taken
  BY <1>1 DEF Taken
<1>3. \A f, start, first : Reading(f, start, first)' <=> Reading(f, start, first)
  BY <1>1, <1>2 DEF Reading
<1> QED
  BY <1>1, <1>2, <1>3 DEF ReadingInv

LEMMA ReadingStep ==
    ASSUME ReadingInv, [MNext]_mvars
    PROVE  ReadingInv'
<1>1. CASE UNCHANGED mvars
  BY <1>1, ReadingUnchanged DEF mvars
<1>2. CASE UseGivenConf \/ NoSamba \/ DetectApple
  <2>1. helper' = helper /\ at = "start"
    BY <1>2 DEF UseGivenConf, NoSamba, DetectApple, Detects, shellvars
  <2> QED
    BY <2>1, HelperNames, NobodyReads
<1>3. CASE ReadConf \/ Decide
  <2>1. helper' = helper /\ at \in {"conf", "found"}
    BY <1>3 DEF ReadConf, Decide, shellvars
  <2> QED
    BY <2>1, HelperNames, NobodyReads
<1>4. CASE SambaEnds \/ \E k \in Keys : TestParmEnds(k)
  <2>1. helper' = Nobody
    BY <1>4 DEF SambaEnds, TestParmEnds, Ends
  <2> QED
    BY <2>1, NobodyReads
<1>5. CASE NoTestParm
  <2>1. helper' = Nobody
    BY <1>5 DEF NoTestParm, shellvars
  <2> QED
    BY <2>1, NobodyReads
<1>6. CASE Reads /\ UNCHANGED hostvars
  <2>1. helper # Nobody /\ at' = at
    BY <1>6 DEF Reads, hostvars
  <2>2. PICK n \in 1..BufferSize : ReadChunk(n)
    BY <1>6 DEF Reads
  <2> QED
    BY <2>1, <2>2, ChunkReads
<1>7. CASE \E h \in Helpers : Runs(h)
  <2>0. PICK h \in Helpers : Runs(h)
    BY <1>7
  <2>1. PICK out \in Outputs[h], code \in {0, 1} :
            IF h = "samba" THEN RunSamba(out, code) ELSE RunTestParm(h, out, code)
    BY <2>0 DEF Runs
  <2>2. Spawn(h, out, code) /\ at' = h
    BY <2>1 DEF RunSamba, RunTestParm, hostvars
  <2> QED
    BY <2>2, SpawnReads
<1>8. CASE NoMetadata \/ \E f \in MetadataFiles : LoadMetadata(f)
  <2>1. helper' = helper /\ at = "decided"
    BY <1>8 DEF NoMetadata, LoadMetadata, Forget
  <2> QED
    BY <2>1, HelperNames, NobodyReads
<1>9. CASE UNCHANGED <<hostvars, shellvars>>
  BY <1>9, ReadingUnchanged
<1>10. MNext \/ UNCHANGED mvars
  OBVIOUS
<1> QED
  BY <1>1, <1>2, <1>3, <1>4, <1>5, <1>6, <1>7, <1>8, <1>9, <1>10 DEF MNext, HNext

\* Whatever the pieces in which LineReader gets the output of a helper, and
\* whatever the size of its buffer: the sink of shell is given the lines of the
\* output that fit in the buffer, in order and as they are.
THEOREM LinesExactAlways == MSpec => []LinesExact
<1>1. MInit => ReadingInv
  BY DEF MInit, HInit, ShellInit, ReadingInv
<1>2. ReadingInv /\ [MNext]_mvars => ReadingInv'
  BY ReadingStep
<1>3. ReadingInv => LinesExact
  BY ReadingExact
<1> QED
  BY <1>1, <1>2, <1>3, PTL DEF MSpec

-----------------------------------------------------------------------------
(* The configuration file *)

\* What agrees with a loop in one turn when it did so in the turn before agrees
\* with it in all.
Agrees(h, f, N) == h[0] = f[0] /\ \A n \in 1..N : h[n - 1] = f[n - 1] => h[n] = f[n]

LEMMA SameLoop ==
    ASSUME NEW N, N \in Nat, NEW f, NEW h, Agrees(h, f, N)
    PROVE  h[N] = f[N]
<1> USE DEF Agrees
<1> DEFINE P(m) == m \in 0..N => h[m] = f[m]
           T == {m \in Nat : P(m)}
<1>1. P(0)
  OBVIOUS
<1>2. ASSUME NEW m \in Nat, P(m) PROVE P(m + 1)
  <2> SUFFICES ASSUME m + 1 \in 0..N PROVE h[m + 1] = f[m + 1]
    OBVIOUS
  <2>1. m \in 0..N /\ m + 1 \in 1..N /\ (m + 1) - 1 = m
    OBVIOUS
  <2> QED
    BY <2>1, <1>2
<1> HIDE DEF P
<1>3. T \subseteq Nat /\ 0 \in T /\ \A m \in T : m + 1 \in T
  BY <1>1, <1>2
<1> HIDE DEF T
<1>4. T = Nat
  BY <1>3, AllNat
<1> QED
  BY <1>4 DEF T, P

\* One turn of the loop of paramsFromSmbConf.
ConfStep(a, l) ==
    IF a.section = "over" THEN a
    ELSE IF l[1] = "section"
         THEN [a EXCEPT !.section = IF a.section = "global" THEN "over"
                                    ELSE IF l[2] = "global" THEN "global" ELSE "other"]
         ELSE IF a.section = "global" /\ l[1] \in Keys THEN [a EXCEPT !.params[l[1]] = <<l[2]>>] ELSE a

ConfStates(ls) == [section : {"none", "global", "other", "over"},
                   params : [Keys -> Seq({ls[i][2] : i \in 1..Len(ls)})]]

ConfStart == [section |-> "none", params |-> NoParams]

ConfRuns(g, ls) ==
    /\ g \in [0..Len(ls) -> ConfStates(ls)] /\ g[0] = ConfStart
    /\ \A n \in 1..Len(ls) : g[n] = ConfStep(g[n - 1], ls[n])

LEMMA ConfStepType ==
    ASSUME NEW ls, Len(ls) \in Nat, NEW n \in 1..Len(ls), NEW a \in ConfStates(ls)
    PROVE  /\ ConfStep(a, ls[n]) \in ConfStates(ls)
           /\ a.section = "over" => ConfStep(a, ls[n]) = a
           /\ a.section # "over" /\ ls[n][1] = "section" =>
                /\ ConfStep(a, ls[n]).params = a.params
                /\ ConfStep(a, ls[n]).section = IF a.section = "global" THEN "over"
                                                ELSE IF ls[n][2] = "global" THEN "global" ELSE "other"
           /\ a.section # "over" /\ ls[n][1] # "section" =>
                /\ ConfStep(a, ls[n]).section = a.section
                /\ ConfStep(a, ls[n]).params = IF a.section = "global" /\ ls[n][1] \in Keys
                                               THEN [a.params EXCEPT ![ls[n][1]] = <<ls[n][2]>>] ELSE a.params
<1> DEFINE X == {ls[i][2] : i \in 1..Len(ls)}
           l == ls[n]
<1>1. a \in [section : {"none", "global", "other", "over"}, params : [Keys -> Seq(X)]]
  BY DEF ConfStates
<1>2. l[2] \in X /\ <<l[2]>> \in Seq(X)
  OBVIOUS
<1> HIDE DEF X, l
<1>3. CASE a.section = "over"
  BY <1>3 DEF ConfStep
<1>4. CASE a.section # "over" /\ l[1] = "section"
  <2> DEFINE sec == IF a.section = "global" THEN "over" ELSE IF l[2] = "global" THEN "global" ELSE "other"
             b == [a EXCEPT !.section = sec]
  <2>1. sec \in {"none", "global", "other", "over"}
    OBVIOUS
  <2>2. ConfStep(a, l) = b
    BY <1>4 DEF ConfStep
  <2> HIDE DEF sec
  <2>3. b.section = sec /\ b.params = a.params /\ b \in ConfStates(ls)
    BY <2>1, <1>1 DEF ConfStates, X
  <2> HIDE DEF b
  <2> QED
    BY <2>2, <2>3, <1>4 DEF l, sec
<1>5. CASE a.section # "over" /\ l[1] # "section" /\ a.section = "global" /\ l[1] \in Keys
  <2> DEFINE ps == [a.params EXCEPT ![l[1]] = <<l[2]>>]
             b == [a EXCEPT !.params = ps]
  <2>1. ps \in [Keys -> Seq(X)]
    BY <1>1, <1>2, <1>5
  <2>2. ConfStep(a, l) = b
    BY <1>5 DEF ConfStep
  <2> HIDE DEF ps
  <2>3. b.section = a.section /\ b.params = ps /\ b \in ConfStates(ls)
    BY <2>1, <1>1 DEF ConfStates, X
  <2> HIDE DEF b
  <2> QED
    BY <2>2, <2>3, <1>5 DEF l, ps
<1>6. CASE a.section # "over" /\ l[1] # "section" /\ ~(a.section = "global" /\ l[1] \in Keys)
  <2>1. ConfStep(a, l) = a
    BY <1>6 DEF ConfStep
  <2> QED
    BY <2>1, <1>6 DEF l
<1> QED
  BY <1>3, <1>4, <1>5, <1>6

LEMMA ConfLoop ==
    ASSUME NEW ls, Len(ls) \in Nat
    PROVE  \E g : ConfRuns(g, ls) /\ InConf(ls) = g[Len(ls)].params
<1> DEFINE V == ConfStates(ls)
           N == Len(ls)
           st == [n \in 1..N |-> [a \in V |-> ConfStep(a, ls[n])]]
           F(f) == f = [n \in 0..N |-> IF n = 0 THEN ConfStart ELSE ConfStep(f[n - 1], ls[n])]
           h == CHOOSE f : F(f)
<1>1. N \in Nat /\ ConfStart \in V
  <2>1. <<>> \in Seq({ls[i][2] : i \in 1..Len(ls)})
    OBVIOUS
  <2>2. NoParams \in [Keys -> Seq({ls[i][2] : i \in 1..Len(ls)})]
    BY <2>1 DEF NoParams
  <2> QED
    BY <2>2 DEF ConfStart, ConfStates
<1>2. \A n \in 1..N : \A a \in V : st[n][a] = ConfStep(a, ls[n]) /\ st[n][a] \in V
  BY ConfStepType
<1>3. LoopSteps(st, N, V)
  <2> HIDE DEF V
  <2>1. \A n \in 1..N : st[n] = [v \in V |-> st[n][v]]
    OBVIOUS
  <2>2. \A n \in 1..N : st[n] \in [V -> V]
    BY <2>1, <1>2
  <2>3. st = [n \in 1..N |-> st[n]]
    OBVIOUS
  <2> HIDE DEF st
  <2> QED
    BY <2>2, <2>3 DEF LoopSteps
<1> HIDE DEF st
<1>4. PICK f : LoopRuns(f, ConfStart, st, N, V)
  <2> HIDE DEF V, N
  <2> QED
    BY <1>1, <1>3, Recursion
<1> HIDE DEF V
<1>5. f \in [0..N -> V] /\ f[0] = ConfStart /\ \A n \in 1..N : f[n] = ConfStep(f[n - 1], ls[n])
  <2>1. f \in [0..N -> V] /\ f[0] = ConfStart /\ \A n \in 1..N : f[n] = st[n][f[n - 1]]
    BY <1>4 DEF LoopRuns
  <2>2. \A n \in 1..N : n - 1 \in 0..N /\ f[n - 1] \in V
    BY <2>1, <1>1
  <2> QED
    BY <2>1, <2>2, <1>2
<1>6. F(f)
  <2>1. f = [n \in 0..N |-> f[n]]
    BY <1>5
  <2>2. \A n \in 0..N : n = 0 \/ n \in 1..N
    BY <1>1
  <2>3. \A n \in 0..N : f[n] = IF n = 0 THEN ConfStart ELSE ConfStep(f[n - 1], ls[n])
    BY <2>2, <1>5
  <2> QED
    BY <2>1, <2>3
<1>7. F(h)
  <2> HIDE DEF F
  <2> QED
    BY <1>6
<1>8. InConf(ls) = h[N].params
  BY DEF InConf, ConfStep, ConfStart
<1> HIDE DEF h
<1>9. h[N] = f[N]
  <2>1. h[0] = ConfStart /\ \A n \in 1..N : h[n] = ConfStep(h[n - 1], ls[n])
    <3>1. \A n \in 0..N : h[n] = IF n = 0 THEN ConfStart ELSE ConfStep(h[n - 1], ls[n])
      BY <1>7
    <3>2. 0 \in 0..N /\ \A n \in 1..N : n \in 0..N /\ n # 0
      BY <1>1
    <3> QED
      BY <3>1, <3>2
  <2>2. h[0] = f[0] /\ \A n \in 1..N : h[n - 1] = f[n - 1] => h[n] = f[n]
    BY <2>1, <1>5
  <2>3. Agrees(h, f, N)
    BY <2>2 DEF Agrees
  <2> HIDE DEF N
  <2> QED
    BY <2>3, <1>1, SameLoop
<1>10. ConfRuns(f, ls)
  BY <1>5 DEF ConfRuns, V
<1> QED
  BY <1>8, <1>9, <1>10

\* v is the value of the last entry of k from a to b, if there is one.
LastEntry(v, ls, a, b, k) ==
    \/ /\ v = <<>>
       /\ \A i \in a..b : ls[i][1] # k
    \/ \E i \in a..b : v = <<ls[i][2]>> /\ ls[i][1] = k /\ \A j \in i + 1 .. b : ls[j][1] # k

FirstGlobal(ls, a) ==
    /\ a \in 1..Len(ls) /\ ls[a][1] = "section" /\ ls[a][2] = "global"
    /\ \A i \in 1 .. a - 1 : ~(ls[i][1] = "section" /\ ls[i][2] = "global")

\* What the loop has after n lines: the global section has not begun, or is being
\* read, or is over.
BeforeGlobal(st, ls, n) ==
    /\ st.section \in {"none", "other"} /\ \A k \in Keys : st.params[k] = <<>>
    /\ \A i \in 1..n : ~(ls[i][1] = "section" /\ ls[i][2] = "global")

InGlobal(st, ls, n, a) ==
    /\ FirstGlobal(ls, a) /\ a <= n /\ \A i \in a + 1 .. n : ls[i][1] # "section"
    /\ st.section = "global" /\ \A k \in Keys : LastEntry(st.params[k], ls, a, n, k)

AfterGlobal(st, ls, n, a, e) ==
    /\ FirstGlobal(ls, a) /\ e \in a + 1 .. n /\ e <= Len(ls) /\ ls[e][1] = "section"
    /\ \A i \in a + 1 .. e - 1 : ls[i][1] # "section"
    /\ st.section = "over" /\ \A k \in Keys : LastEntry(st.params[k], ls, a, e - 1, k)

Shape(st, ls, n) ==
    \/ BeforeGlobal(st, ls, n)
    \/ \E a : InGlobal(st, ls, n, a)
    \/ \E a, e : AfterGlobal(st, ls, n, a, e)

LEMMA OneMoreLine ==
    ASSUME NEW ls, Len(ls) \in Nat, NEW n \in Nat, n + 1 <= Len(ls), NEW st \in ConfStates(ls), Shape(st, ls, n)
    PROVE  Shape(ConfStep(st, ls[n + 1]), ls, n + 1)
<1> DEFINE m == n + 1
           l == ls[n + 1]
           nw == ConfStep(st, ls[n + 1])
<1>1. n + 1 \in 1..Len(ls)
  OBVIOUS
<1>2. /\ nw \in ConfStates(ls)
      /\ st.section = "over" => nw = st
      /\ st.section # "over" /\ l[1] = "section" =>
           /\ nw.params = st.params
           /\ nw.section = IF st.section = "global" THEN "over" ELSE IF l[2] = "global" THEN "global" ELSE "other"
      /\ st.section # "over" /\ l[1] # "section" =>
           /\ nw.section = st.section
           /\ nw.params = IF st.section = "global" /\ l[1] \in Keys
                          THEN [st.params EXCEPT ![l[1]] = <<l[2]>>] ELSE st.params
  BY <1>1, ConfStepType
<1>3. DOMAIN st.params = Keys /\ st.params = [k \in Keys |-> st.params[k]]
  BY DEF ConfStates
<1>4. "section" \notin Keys
  BY HelperNames
<1>5. \A i : i \in 1 .. n + 1 <=> i \in 1..n \/ i = n + 1
  OBVIOUS
<1> HIDE DEF nw
<1>6. CASE BeforeGlobal(st, ls, n)
  <2>1. /\ st.section \in {"none", "other"} /\ st.section # "over" /\ st.section # "global"
        /\ \A k \in Keys : st.params[k] = <<>>
        /\ \A i \in 1..n : ~(ls[i][1] = "section" /\ ls[i][2] = "global")
    BY <1>6 DEF BeforeGlobal
  <2>2. CASE l[1] = "section" /\ l[2] = "global"
    <3>1. nw.params = st.params /\ nw.section = "global"
      BY <2>1, <2>2, <1>2
    <3>2. (n + 1) - 1 = n /\ \A i \in (n + 1) + 1 .. n + 1 : FALSE
      OBVIOUS
    <3>3. FirstGlobal(ls, n + 1)
      BY <3>2, <2>1, <2>2, <1>1 DEF FirstGlobal
    <3>4. ASSUME NEW k \in Keys PROVE LastEntry(nw.params[k], ls, n + 1, n + 1, k)
      <4>1. \A i \in n + 1 .. n + 1 : i = n + 1
        OBVIOUS
      <4>2. nw.params[k] = <<>> /\ k # "section"
        BY <3>1, <2>1, <1>4
      <4> QED
        BY <4>1, <4>2, <2>2 DEF LastEntry
    <3>5. InGlobal(nw, ls, n + 1, n + 1)
      BY <3>1, <3>2, <3>3, <3>4 DEF InGlobal
    <3> QED
      BY <3>5 DEF Shape, nw
  <2>3. CASE ~(l[1] = "section" /\ l[2] = "global")
    <3>1. nw.params = st.params /\ nw.section \in {"none", "other"}
      BY <2>1, <2>3, <1>2
    <3>2. BeforeGlobal(nw, ls, n + 1)
      BY <3>1, <2>1, <2>3, <1>5 DEF BeforeGlobal
    <3> QED
      BY <3>2 DEF Shape, nw
  <2> QED
    BY <2>2, <2>3
<1>7. ASSUME NEW a, InGlobal(st, ls, n, a)
      PROVE  Shape(nw, ls, n + 1)
  <2>1. /\ FirstGlobal(ls, a) /\ a <= n /\ (\A i \in a + 1 .. n : ls[i][1] # "section")
        /\ st.section = "global" /\ st.section # "over" /\ \A k \in Keys : LastEntry(st.params[k], ls, a, n, k)
    BY <1>7 DEF InGlobal
  <2>2. a \in Nat /\ a >= 1
    BY <2>1 DEF FirstGlobal
  <2>3. CASE l[1] = "section"
    <3>1. nw.params = st.params /\ nw.section = "over"
      BY <2>1, <2>3, <1>2
    <3>2. n + 1 \in a + 1 .. n + 1 /\ (n + 1) - 1 = n
      BY <2>1, <2>2
    <3>3. AfterGlobal(nw, ls, n + 1, a, n + 1)
      BY <3>1, <3>2, <2>1, <2>3, <1>1 DEF AfterGlobal
    <3> QED
      BY <3>3 DEF Shape
  <2>4. CASE l[1] # "section"
    <3>1. /\ nw.section = "global"
          /\ nw.params = IF l[1] \in Keys THEN [st.params EXCEPT ![l[1]] = <<l[2]>>] ELSE st.params
      BY <2>1, <2>4, <1>2
    <3>2. ASSUME NEW k \in Keys PROVE LastEntry(nw.params[k], ls, a, n + 1, k)
      <4>1. LastEntry(st.params[k], ls, a, n, k)
        BY <2>1
      <4>2. \A i : i \in a .. n + 1 <=> i \in a..n \/ i = n + 1
        BY <2>1, <2>2
      <4>3. CASE l[1] = k
        <5>1. nw.params[k] = <<l[2]>>
          BY <4>3, <3>1, <1>3
        <5>2. n + 1 \in a .. n + 1 /\ \A j \in (n + 1) + 1 .. n + 1 : FALSE
          BY <2>1, <2>2
        <5> QED
          BY <5>1, <5>2, <4>3 DEF LastEntry
      <4>4. CASE l[1] # k
        <5>1. nw.params[k] = st.params[k]
          BY <4>4, <3>1, <1>3
        <5>2. CASE st.params[k] = <<>> /\ \A i \in a..n : ls[i][1] # k
          BY <5>1, <5>2, <4>2, <4>4 DEF LastEntry
        <5>3. ASSUME NEW i \in a..n, st.params[k] = <<ls[i][2]>>, ls[i][1] = k, \A j \in i + 1 .. n : ls[j][1] # k
              PROVE  LastEntry(nw.params[k], ls, a, n + 1, k)
          <6>1. i \in a .. n + 1 /\ \A j \in i + 1 .. n + 1 : j \in i + 1 .. n \/ j = n + 1
            BY <2>2
          <6>2. \A j \in i + 1 .. n + 1 : ls[j][1] # k
            BY <6>1, <5>3, <4>4
          <6> QED
            BY <6>1, <6>2, <5>1, <5>3 DEF LastEntry
        <5> QED
          BY <5>2, <5>3, <4>1 DEF LastEntry
      <4> QED
        BY <4>3, <4>4
    <3>3. a <= n + 1 /\ \A i \in a + 1 .. n + 1 : ls[i][1] # "section"
      <4>1. a <= n + 1 /\ \A i \in a + 1 .. n + 1 : i \in a + 1 .. n \/ i = n + 1
        BY <2>1, <2>2
      <4> QED
        BY <4>1, <2>1, <2>4
    <3>4. InGlobal(nw, ls, n + 1, a)
      BY <3>1, <3>2, <3>3, <2>1 DEF InGlobal
    <3> QED
      BY <3>4 DEF Shape
  <2> QED
    BY <2>3, <2>4
<1>8. ASSUME NEW a, NEW e, AfterGlobal(st, ls, n, a, e)
      PROVE  Shape(nw, ls, n + 1)
  <2>1. nw = st
    BY <1>2, <1>8 DEF AfterGlobal
  <2>2. e \in a + 1 .. n + 1
    BY <1>8 DEF AfterGlobal, FirstGlobal
  <2>3. AfterGlobal(nw, ls, n + 1, a, e)
    BY <2>1, <2>2, <1>8 DEF AfterGlobal
  <2> QED
    BY <2>3 DEF Shape
<1> QED
  BY <1>6, <1>7, <1>8 DEF Shape, nw

LEMMA EntryValue ==
    ASSUME NEW ls, NEW a \in Nat, NEW b \in Int, NEW k, NEW v, LastEntry(v, ls, a, b, k)
    PROVE  LET entries == {i \in a..b : ls[i][1] = k}
           IN  v = IF entries = {} THEN <<>> ELSE <<ls[Max(entries)][2]>>
<1> DEFINE E == {i \in a..b : ls[i][1] = k}
<1>1. CASE v = <<>> /\ \A i \in a..b : ls[i][1] # k
  BY <1>1
<1>2. ASSUME NEW i \in a..b, v = <<ls[i][2]>>, ls[i][1] = k, \A j \in i + 1 .. b : ls[j][1] # k
      PROVE  E # {} /\ v = <<ls[Max(E)][2]>>
  <2>1. i \in E /\ b \in Nat /\ E \subseteq 0..b
    BY <1>2
  <2>2. \A y \in E : y \in a..b /\ ls[y][1] = k
    OBVIOUS
  <2> HIDE DEF E
  <2>3. Max(E) \in E /\ Max(E) >= i
    BY <2>1, MaxFacts
  <2>4. Max(E) \notin i + 1 .. b
    BY <2>2, <2>3, <1>2
  <2>5. Max(E) = i
    BY <2>2, <2>3, <2>4
  <2> QED
    BY <2>1, <2>5, <1>2
<1> QED
  BY <1>1, <1>2 DEF LastEntry

LEMMA ShapeValue ==
    ASSUME NEW ls, Len(ls) \in Nat, DOMAIN ls = 1..Len(ls), NEW st, Shape(st, ls, Len(ls)), NEW k \in Keys
    PROVE  st.params[k] = ValueIn(ls, k)
<1> DEFINE sections == {i \in DOMAIN ls : ls[i][1] = "section"}
           global   == {i \in sections : ls[i][2] = "global"}
           first    == Min(global)
           end      == Min({i \in sections : i > first} \cup {Len(ls) + 1})
           entries  == {i \in first .. end - 1 : ls[i][1] = k}
           N == Len(ls)
<1>0. ValueIn(ls, k) = IF global = {} \/ entries = {} THEN <<>> ELSE <<ls[Max(entries)][2]>>
  BY DEF ValueIn
<1>1. CASE BeforeGlobal(st, ls, N)
  <2>1. global = {} /\ st.params[k] = <<>>
    BY <1>1 DEF BeforeGlobal
  <2> HIDE DEF global
  <2> QED
    BY <2>1, <1>0
<1>2. ASSUME NEW a, FirstGlobal(ls, a) PROVE global # {} /\ first = a /\ a \in 1..N /\ a \in Nat
  <2>1. a \in 1..N /\ a \in global /\ global \subseteq Nat
    BY <1>2 DEF FirstGlobal
  <2>2. \A y \in global : y \in 1..N /\ y \notin 1 .. a - 1
    BY <1>2 DEF FirstGlobal
  <2> HIDE DEF global
  <2>3. Min(global) \in global /\ Min(global) <= a
    BY <2>1, MinFacts
  <2>4. Min(global) = a
    <3> DEFINE x == Min(global)
    <3>1. x \in 1..N /\ x \notin 1 .. a - 1 /\ x <= a
      BY <2>2, <2>3
    <3> HIDE DEF x
    <3>2. x = a
      BY <3>1, <2>1
    <3> QED
      BY <3>2 DEF x
  <2> QED
    BY <2>1, <2>4
<1> HIDE DEF global
<1>3. ASSUME NEW a \in Nat, first = a, NEW e \in a + 1 .. N + 1, e = N + 1 \/ ls[e][1] = "section",
             \A i \in a + 1 .. e - 1 : ls[i][1] # "section"
      PROVE  end = e
  <2> DEFINE T == {i \in sections : i > first} \cup {Len(ls) + 1}
  <2>1. T \subseteq Nat /\ T # {}
    OBVIOUS
  <2>2. e \in T
    BY <1>3
  <2>3. \A y \in T : y \notin a + 1 .. e - 1 /\ y > a /\ y \in Nat
    BY <1>3
  <2> HIDE DEF T, first
  <2>4. Min(T) \in T /\ Min(T) <= e
    BY <2>1, <2>2, MinFacts
  <2>5. Min(T) = e
    BY <2>3, <2>4
  <2> QED
    BY <2>5 DEF T
<1> HIDE DEF first
<1>4. ASSUME NEW a \in Nat, first = a, NEW e \in Nat, end = e, LastEntry(st.params[k], ls, a, e - 1, k), global # {}
      PROVE  st.params[k] = ValueIn(ls, k)
  <2>1. e - 1 \in Int
    OBVIOUS
  <2> DEFINE E == {i \in a .. e - 1 : ls[i][1] = k}
  <2>2. st.params[k] = IF E = {} THEN <<>> ELSE <<ls[Max(E)][2]>>
    BY <2>1, <1>4, EntryValue
  <2> HIDE DEF end
  <2>3. entries = E
    BY <1>4
  <2> HIDE DEF E, entries
  <2> QED
    BY <2>2, <2>3, <1>0, <1>4
<1> HIDE DEF end
<1>5. ASSUME NEW a, InGlobal(st, ls, N, a) PROVE st.params[k] = ValueIn(ls, k)
  <2>1. first = a /\ a \in Nat /\ a \in 1..N /\ global # {}
    BY <1>2, <1>5 DEF InGlobal
  <2>2. N + 1 \in a + 1 .. N + 1 /\ (N + 1) - 1 = N /\ N + 1 \in Nat
    BY <2>1
  <2>3. end = N + 1
    BY <2>1, <2>2, <1>3, <1>5 DEF InGlobal
  <2>4. LastEntry(st.params[k], ls, a, (N + 1) - 1, k)
    BY <2>2, <1>5 DEF InGlobal
  <2> QED
    BY <2>1, <2>2, <2>3, <2>4, <1>4
<1>6. ASSUME NEW a, NEW e, AfterGlobal(st, ls, N, a, e) PROVE st.params[k] = ValueIn(ls, k)
  <2>1. first = a /\ a \in Nat /\ a \in 1..N /\ global # {}
    BY <1>2, <1>6 DEF AfterGlobal
  <2>2. e \in a + 1 .. N + 1 /\ e \in Nat
    BY <2>1, <1>6 DEF AfterGlobal
  <2>3. end = e
    BY <2>1, <2>2, <1>3, <1>6 DEF AfterGlobal
  <2>4. LastEntry(st.params[k], ls, a, e - 1, k)
    BY <1>6 DEF AfterGlobal
  <2> QED
    BY <2>1, <2>2, <2>3, <2>4, <1>4
<1> QED
  BY <1>1, <1>5, <1>6 DEF Shape

\* The loop of paramsFromSmbConf finds the last entries of the first global
\* section.
LEMMA ConfRead ==
    ASSUME NEW ls, Len(ls) \in Nat, DOMAIN ls = 1..Len(ls)
    PROVE  InConf(ls) = [k \in Keys |-> ValueIn(ls, k)]
<1> DEFINE N == Len(ls)
<1>1. PICK g : ConfRuns(g, ls) /\ InConf(ls) = g[N].params
  BY ConfLoop
<1>2. g \in [0..N -> ConfStates(ls)] /\ g[0] = ConfStart /\ \A n \in 1..N : g[n] = ConfStep(g[n - 1], ls[n])
  BY <1>1 DEF ConfRuns
<1> DEFINE Q(n) == n <= N => Shape(g[n], ls, n)
           T == {n \in Nat : Q(n)}
<1>3. Q(0)
  <2>1. ConfStart.section = "none" /\ \A k \in Keys : ConfStart.params[k] = <<>>
    BY DEF ConfStart, NoParams
  <2>2. \A i \in 1..0 : FALSE
    OBVIOUS
  <2>3. BeforeGlobal(ConfStart, ls, 0)
    BY <2>1, <2>2 DEF BeforeGlobal
  <2> QED
    BY <2>3, <1>2 DEF Shape
<1>4. ASSUME NEW n \in Nat, Q(n) PROVE Q(n + 1)
  <2> SUFFICES ASSUME n + 1 <= N PROVE Shape(g[n + 1], ls, n + 1)
    OBVIOUS
  <2>1. n \in 0..N /\ n + 1 \in 1..N /\ (n + 1) - 1 = n /\ n <= N
    OBVIOUS
  <2>2. g[n] \in ConfStates(ls) /\ g[n + 1] = ConfStep(g[n], ls[n + 1])
    BY <2>1, <1>2
  <2>3. Shape(g[n], ls, n)
    BY <2>1, <1>4
  <2> QED
    BY <2>2, <2>3, OneMoreLine
<1> HIDE DEF Q
<1>5. T \subseteq Nat /\ 0 \in T /\ \A n \in T : n + 1 \in T
  BY <1>3, <1>4
<1> HIDE DEF T
<1>6. T = Nat
  BY <1>5, AllNat
<1>7. Shape(g[N], ls, N)
  BY <1>6 DEF T, Q
<1>8. \A k \in Keys : g[N].params[k] = ValueIn(ls, k)
  BY <1>7, ShapeValue
<1>9. g[N].params = [k \in Keys |-> g[N].params[k]]
  <2>1. g[N] \in ConfStates(ls)
    BY <1>2
  <2> QED
    BY <2>1 DEF ConfStates
<1> QED
  BY <1>1, <1>8, <1>9

-----------------------------------------------------------------------------
(* Names *)

\* What FlattenSeq computes, one sequence after the other.
LEMMA Flattened ==
    ASSUME NEW S, NEW seqs \in Seq(Seq(S)), Len(seqs) # 0
    PROVE  \E f : /\ f[1] = seqs[1]
                  /\ \A i \in 2..Len(seqs) : f[i] = f[i - 1] \o seqs[i]
                  /\ FlattenSeq(seqs) = f[Len(seqs)]
<1> DEFINE F(f, n) == f = [i \in 1..n |-> IF i = 1 THEN seqs[i] ELSE f[i - 1] \o seqs[i]]
           Ok(n) == \E f : F(f, n)
           T == {n \in Nat : Ok(n)}
<1>1. Ok(0)
  <2>1. F([i \in 1..0 |-> 0], 0)
    OBVIOUS
  <2> QED
    BY <2>1
<1>2. ASSUME NEW n \in Nat, Ok(n) PROVE Ok(n + 1)
  <2>1. PICK f : F(f, n)
    BY <1>2
  <2>2. \A j \in 1..n : f[j] = IF j = 1 THEN seqs[j] ELSE f[j - 1] \o seqs[j]
    BY <2>1
  <2> DEFINE g == [i \in 1 .. n + 1 |->
                     IF i = 1 THEN seqs[i] ELSE IF i <= n THEN f[i] ELSE f[n] \o seqs[i]]
  <2>3. \A j \in 1 .. n + 1 : g[j] = IF j = 1 THEN seqs[j] ELSE IF j <= n THEN f[j] ELSE f[n] \o seqs[j]
    OBVIOUS
  <2>4. g = [i \in 1 .. n + 1 |-> g[i]]
    OBVIOUS
  <2> HIDE DEF g
  <2>5. ASSUME NEW i \in 1 .. n + 1
        PROVE  g[i] = IF i = 1 THEN seqs[i] ELSE g[i - 1] \o seqs[i]
    <3>1. CASE i = 1
      BY <3>1, <2>3
    <3>2. CASE i # 1
      <4>1. i - 1 \in 1..n /\ i - 1 \in 1 .. n + 1 /\ i - 1 <= n
        BY <3>2
      <4>2. g[i - 1] = f[i - 1]
        BY <4>1, <2>2, <2>3
      <4>3. CASE i <= n
        <5>1. i \in 1..n
          BY <4>3
        <5>2. g[i] = f[i]
          BY <5>1, <3>2, <2>3
        <5> QED
          BY <5>1, <5>2, <4>2, <3>2, <2>2
      <4>4. CASE ~(i <= n)
        <5>1. i - 1 = n
          BY <4>4
        <5> QED
          BY <5>1, <4>2, <4>4, <3>2, <2>3
      <4> QED
        BY <4>3, <4>4
    <3> QED
      BY <3>1, <3>2
  <2>6. F(g, n + 1)
    BY <2>4, <2>5
  <2> QED
    BY <2>6
<1>3. Len(seqs) \in Nat
  OBVIOUS
<1>4. Ok(Len(seqs))
  <2> HIDE DEF Ok
  <2>1. T \subseteq Nat /\ 0 \in T
    BY <1>1
  <2>2. \A n \in T : n + 1 \in T
    BY <1>2
  <2> HIDE DEF T
  <2>3. Len(seqs) \in T
    BY <2>1, <2>2, <1>3, AllNat
  <2> QED
    BY <2>3 DEF T
<1> DEFINE h == CHOOSE f : F(f, Len(seqs))
<1>5. F(h, Len(seqs))
  BY <1>4
<1>6. FlattenSeq(seqs) = h[Len(seqs)]
  BY DEF FlattenSeq
<1>7. \A i \in 1..Len(seqs) : h[i] = IF i = 1 THEN seqs[i] ELSE h[i - 1] \o seqs[i]
  BY <1>5
<1> HIDE DEF h
<1>8. h[1] = seqs[1]
  <2>1. 1 \in 1..Len(seqs)
    BY <1>3
  <2> QED
    BY <2>1, <1>7
<1>9. ASSUME NEW i \in 2..Len(seqs) PROVE h[i] = h[i - 1] \o seqs[i]
  <2>1. i \in 1..Len(seqs) /\ i # 1
    BY <1>3
  <2> QED
    BY <2>1, <1>7
<1> QED
  BY <1>6, <1>8, <1>9
LEMMA FlatNotEmpty ==
    ASSUME NEW S, NEW seqs \in Seq(Seq(S)), Len(seqs) # 0, \A i \in 1..Len(seqs) : seqs[i] # <<>>
    PROVE  FlattenSeq(seqs) # <<>>
<1> DEFINE N == Len(seqs)
<1>1. PICK f : /\ f[1] = seqs[1] /\ (\A i \in 2..N : f[i] = f[i - 1] \o seqs[i]) /\ FlattenSeq(seqs) = f[N]
  BY Flattened
<1>2. N \in Nat /\ \A i \in 1..N : seqs[i] \in Seq(S)
  OBVIOUS
<1> DEFINE Q(n) == n + 1 <= N => f[n + 1] \in Seq(S) /\ f[n + 1] # <<>>
           T == {n \in Nat : Q(n)}
<1>3. Q(0)
  BY <1>1, <1>2
<1>4. ASSUME NEW n \in Nat, Q(n) PROVE Q(n + 1)
  <2> SUFFICES ASSUME (n + 1) + 1 <= N PROVE f[(n + 1) + 1] \in Seq(S) /\ f[(n + 1) + 1] # <<>>
    OBVIOUS
  <2>1. (n + 1) + 1 \in 2..N /\ (n + 1) + 1 \in 1..N /\ ((n + 1) + 1) - 1 = n + 1 /\ n + 1 <= N
    BY <1>2
  <2> DEFINE x == f[n + 1]
             y == seqs[(n + 1) + 1]
  <2>2. x \in Seq(S) /\ x # <<>> /\ y \in Seq(S) /\ y # <<>>
    BY <2>1, <1>2, <1>4
  <2>3. f[(n + 1) + 1] = x \o y
    BY <2>1, <1>1
  <2> HIDE DEF x, y
  <2>4. x \o y \in Seq(S) /\ x \o y # <<>>
    BY <2>2, ConcatProperties, ConcatEqualIffEmpty
  <2> QED
    BY <2>3, <2>4
<1> HIDE DEF Q
<1>5. T \subseteq Nat /\ 0 \in T /\ \A n \in T : n + 1 \in T
  BY <1>3, <1>4
<1> HIDE DEF T
<1>6. T = Nat
  BY <1>5, AllNat
<1>7. N - 1 \in T /\ N - 1 + 1 <= N /\ N - 1 + 1 = N
  BY <1>2, <1>6
<1>8. f[N] # <<>>
  BY <1>2, <1>7 DEF T, Q
<1> QED
  BY <1>1, <1>8

LEMMA FlatOfOnes ==
    ASSUME NEW S, NEW v \in Seq(S), v # <<>>
    PROVE  FlattenSeq([i \in DOMAIN v |-> <<v[i]>>]) = v
<1> DEFINE N == Len(v)
           seqs == [i \in DOMAIN v |-> <<v[i]>>]
<1>1. N \in Nat /\ N # 0 /\ DOMAIN v = 1..N /\ \A i \in 1..N : v[i] \in S
  OBVIOUS
<1>2. seqs \in Seq(Seq(S)) /\ Len(seqs) = N /\ \A i \in 1..N : seqs[i] = <<v[i]>>
  <2>1. \A i \in 1..N : <<v[i]>> \in Seq(S)
    BY <1>1
  <2>2. seqs \in [1..N -> Seq(S)]
    BY <2>1, <1>1
  <2>3. \A i \in 1..N : seqs[i] = <<v[i]>>
    BY <1>1
  <2> HIDE DEF seqs, N
  <2>4. seqs \in Seq(Seq(S))
    BY <2>2, <1>1, IsASeq
  <2>5. Len(seqs) = N
    BY <2>2, <2>4, <1>1, LenProperties
  <2> QED
    BY <2>3, <2>4, <2>5
<1> HIDE DEF seqs
<1>3. PICK f : /\ f[1] = seqs[1] /\ (\A i \in 2..N : f[i] = f[i - 1] \o seqs[i]) /\ FlattenSeq(seqs) = f[N]
  BY <1>1, <1>2, Flattened
<1> DEFINE Q(n) == n + 1 <= N => f[n + 1] = SubSeq(v, 1, n + 1)
           T == {n \in Nat : Q(n)}
<1>4. SubSeq(v, 1, 0) = <<>>
  BY SubSeqEmpty
<1>5. Q(0)
  <2>1. 0 + 1 <= Len(v) /\ 1 \in 1 .. 0 + 1 /\ 0 \in Nat /\ 1 \in 1..N
    BY <1>1
  <2>2. Append(SubSeq(v, 1, 0), v[0 + 1]) = SubSeq(v, 1, 0 + 1)
    BY <2>1, SubSeqGrows
  <2>3. Append(<<>>, v[1]) = <<v[1]>>
    OBVIOUS
  <2>4. f[1] = <<v[1]>>
    BY <2>1, <1>2, <1>3
  <2> QED
    BY <2>2, <2>3, <2>4, <1>4
<1>6. ASSUME NEW n \in Nat, Q(n) PROVE Q(n + 1)
  <2> SUFFICES ASSUME (n + 1) + 1 <= N PROVE f[(n + 1) + 1] = SubSeq(v, 1, (n + 1) + 1)
    OBVIOUS
  <2> DEFINE m == n + 1
  <2>1. /\ m + 1 \in 2..N /\ m + 1 \in 1..N /\ (m + 1) - 1 = m /\ m <= N /\ 1 \in 1 .. m + 1 /\ m \in Nat
        /\ m + 1 <= Len(v)
    BY <1>1
  <2>2. f[m] = SubSeq(v, 1, m)
    BY <2>1, <1>6
  <2> HIDE DEF m
  <2>3. f[m + 1] = SubSeq(v, 1, m) \o <<v[m + 1]>>
    BY <2>1, <2>2, <1>2, <1>3
  <2>4. Append(SubSeq(v, 1, m), v[m + 1]) = SubSeq(v, 1, m + 1)
    BY <2>1, SubSeqGrows
  <2>5. SubSeq(v, 1, m) \in Seq(S) /\ v[m + 1] \in S
    <3>1. 1 \in Int /\ m \in Int /\ \A i \in 1..m : v[i] \in S
      BY <2>1, <1>1
    <3> QED
      BY <3>1, <2>1, <1>1, SubSeqProperties
  <2>6. Append(SubSeq(v, 1, m), v[m + 1]) = SubSeq(v, 1, m) \o <<v[m + 1]>>
    BY <2>5, AppendIsConcat
  <2>7. f[m + 1] = SubSeq(v, 1, m + 1)
    BY <2>3, <2>4, <2>6
  <2> QED
    BY <2>7 DEF m
<1> HIDE DEF Q
<1>7. T \subseteq Nat /\ 0 \in T /\ \A n \in T : n + 1 \in T
  BY <1>5, <1>6
<1> HIDE DEF T
<1>8. T = Nat
  BY <1>7, AllNat
<1>9. N - 1 \in T /\ N - 1 + 1 <= N /\ N - 1 + 1 = N
  BY <1>1, <1>8
<1>10. f[N] = SubSeq(v, 1, N)
  BY <1>1, <1>9 DEF T, Q
<1>11. SubSeq(v, 1, N) = v
  OBVIOUS
<1> QED
  BY <1>3, <1>10, <1>11 DEF seqs

LEMMA SimpleHostNameFacts ==
    /\ SimpleHostName \in Seq(STRING) /\ SimpleHostName # <<>>
    /\ \A i \in 1..Len(SimpleHostName) : SimpleHostName[i] # "%h" /\ SimpleHostName[i] \notin Percent
<1> DEFINE s == FullHostName
           N == Len(s)
           dots == {i \in DOMAIN s : s[i] = "."}
           n == Min(dots) - 1
<1>1. s \in Seq(STRING) /\ s # <<>> /\ s[1] # "." /\ N \in Nat /\ N >= 1 /\ DOMAIN s = 1..N
  BY InputAssumption
<1>2. \A i \in 1..N : s[i] # "%h" /\ s[i] \notin Percent
  <2>1. \A i \in 1..N : s[i] \in ToSet(s)
    BY <1>1 DEF ToSet
  <2> QED
    BY <2>1, InputAssumption
<1>3. CASE dots = {}
  <2>1. SimpleHostName = s
    BY <1>3 DEF SimpleHostName
  <2> QED
    BY <2>1, <1>1, <1>2
<1>4. CASE dots # {}
  <2>1. dots \subseteq Nat /\ \A i \in dots : i \in 2..N
    BY <1>1
  <2>2. SimpleHostName = SubSeq(s, 1, n)
    BY <1>4 DEF SimpleHostName
  <2> HIDE DEF dots
  <2>3. Min(dots) \in 2..N
    BY <2>1, <1>4, MinFacts
  <2>4. n \in 1 .. N - 1 /\ n \in Int /\ 1 \in Int /\ 1 <= n /\ n - 1 + 1 = n
    BY <2>3, <1>1
  <2> HIDE DEF n, s
  <2>5. \A i \in 1..n : i \in 1..N /\ s[i] \in STRING
    BY <2>4, <1>1
  <2>6. /\ SubSeq(s, 1, n) \in Seq(STRING) /\ Len(SubSeq(s, 1, n)) = n
        /\ \A i \in 1..n : SubSeq(s, 1, n)[i] = s[i]
    <3>1. /\ SubSeq(s, 1, n) \in Seq(STRING) /\ Len(SubSeq(s, 1, n)) = IF 1 <= n THEN n - 1 + 1 ELSE 0
          /\ \A i \in 1 .. n - 1 + 1 : SubSeq(s, 1, n)[i] = s[1 + i - 1]
      BY <2>4, <2>5, SubSeqProperties
    <3>2. \A i \in 1..n : 1 + i - 1 = i
      BY <2>4
    <3> QED
      BY <3>1, <3>2, <2>4
  <2>7. SimpleHostName # <<>>
    BY <2>2, <2>4, <2>6
  <2> QED
    BY <2>2, <2>5, <2>6, <2>7, <1>2
<1> QED
  BY <1>3, <1>4

LEMMA NormalNameNotEmpty == NormalName # <<>>
<1>1. SimpleHostName # <<>> /\ SimpleHostName \in Seq(STRING)
  BY SimpleHostNameFacts
<1>2. 1 \in DOMAIN SimpleHostName
  <2>1. Len(SimpleHostName) \in Nat /\ Len(SimpleHostName) # 0 /\ DOMAIN SimpleHostName = 1..Len(SimpleHostName)
    BY <1>1
  <2> QED
    BY <2>1
<1>3. 1 \in DOMAIN Upper(SimpleHostName)
  BY <1>2 DEF Upper
<1>4. Upper(SimpleHostName) # <<>>
  <2>1. 1 \notin DOMAIN <<>>
    OBVIOUS
  <2> QED
    BY <2>1, <1>3
<1> QED
  BY <1>1, <1>4 DEF NormalName

LEMMA DescribedNotEmpty ==
    ASSUME NEW v \in Seq(STRING), v # <<>>
    PROVE  Described(v) # <<>>
<1> DEFINE parts == [i \in DOMAIN v |-> IF v[i] = "%h" THEN SimpleHostName ELSE <<v[i]>>]
           N == Len(v)
<1>1. N \in Nat /\ N # 0 /\ DOMAIN v = 1..N /\ \A i \in 1..N : v[i] \in STRING
  OBVIOUS
<1>2. SimpleHostName \in Seq(STRING) /\ SimpleHostName # <<>>
  BY SimpleHostNameFacts
<1>3. \A i \in 1..N : parts[i] \in Seq(STRING) /\ parts[i] # <<>>
  <2> SUFFICES ASSUME NEW i \in 1..N PROVE parts[i] \in Seq(STRING) /\ parts[i] # <<>>
    OBVIOUS
  <2>1. parts[i] = IF v[i] = "%h" THEN SimpleHostName ELSE <<v[i]>>
    BY <1>1
  <2>2. <<v[i]>> \in Seq(STRING) /\ <<v[i]>> # <<>>
    BY <1>1
  <2> HIDE DEF parts
  <2> QED
    BY <2>1, <2>2, <1>2
<1>4. parts = [i \in 1..N |-> parts[i]]
  BY <1>1
<1>5. Described(v) = IF ToSet(FlattenSeq(parts)) \cap Percent = {} THEN FlattenSeq(parts) ELSE SimpleHostName
  BY DEF Described
<1> HIDE DEF parts
<1>6. parts \in Seq(Seq(STRING)) /\ Len(parts) = N
  <2>1. parts \in [1..N -> Seq(STRING)]
    BY <1>3, <1>4
  <2> HIDE DEF N
  <2>2. parts \in Seq(Seq(STRING))
    BY <2>1, <1>1
  <2> QED
    BY <2>1, <2>2, <1>1
<1>7. FlattenSeq(parts) # <<>>
  BY <1>1, <1>3, <1>6, FlatNotEmpty
<1> QED
  BY <1>2, <1>5, <1>7

LEMMA DescribedHostName == Described(SimpleHostName) = SimpleHostName
<1> DEFINE v == SimpleHostName
           parts == [i \in DOMAIN v |-> IF v[i] = "%h" THEN SimpleHostName ELSE <<v[i]>>]
<1>1. v \in Seq(STRING) /\ v # <<>> /\ (\A i \in 1..Len(v) : v[i] # "%h" /\ v[i] \notin Percent) /\ DOMAIN v = 1..Len(v)
  BY SimpleHostNameFacts
<1>2. parts = [i \in DOMAIN v |-> <<v[i]>>]
  <2>1. \A i \in DOMAIN v : v[i] # "%h"
    BY <1>1
  <2> HIDE DEF v
  <2> QED
    BY <2>1
<1>3. FlattenSeq(parts) = v
  <2> HIDE DEF v, parts
  <2> QED
    BY <1>1, <1>2, FlatOfOnes
<1>4. ToSet(v) \cap Percent = {}
  <2> HIDE DEF v
  <2> QED
    BY <1>1 DEF ToSet
<1>5. Described(v) = IF ToSet(FlattenSeq(parts)) \cap Percent = {} THEN FlattenSeq(parts) ELSE SimpleHostName
  BY DEF Described
<1> QED
  BY <1>3, <1>4, <1>5

-----------------------------------------------------------------------------
(* detectWinNetInfo *)

LEMMA ParameterNames ==
    /\ Len(Parameters) = 4 /\ DOMAIN Parameters = 1..4
    /\ \A i \in 1..4 : Parameters[i] \in Keys
    /\ \A k \in Keys : \E i \in 1..4 : k = Parameters[i]
    /\ \A i, j \in 1..4 : Parameters[i] = Parameters[j] => i = j
<1>1. Len(Parameters) = 4 /\ DOMAIN Parameters = 1..4 /\ Parameters[1] = "workgroup" /\ Parameters[2] = "security"
      /\ Parameters[3] = "netbios name" /\ Parameters[4] = "server string"
  BY DEF Parameters
<1>2. \A i : i \in 1..4 <=> i \in {1, 2, 3, 4}
  OBVIOUS
<1>3. Keys = {"workgroup", "security", "netbios name", "server string"}
  BY HelperNames
<1>4. \A i \in 1..4 : Parameters[i] \in Keys
  BY <1>1, <1>2, <1>3
<1>5. \A k \in Keys : \E i \in 1..4 : k = Parameters[i]
  BY <1>1, <1>2, <1>3
<1>6. \A i, j \in 1..4 : Parameters[i] = Parameters[j] => i = j
  <2> SUFFICES ASSUME NEW i \in 1..4, NEW j \in 1..4, Parameters[i] = Parameters[j] PROVE i = j
    OBVIOUS
  <2>1. i \in {1, 2, 3, 4} /\ j \in {1, 2, 3, 4}
    BY <1>2
  <2>2. CASE i = 1
    BY <2>1, <2>2, <1>1
  <2>3. CASE i = 2
    BY <2>1, <2>3, <1>1
  <2>4. CASE i = 3
    BY <2>1, <2>4, <1>1
  <2>5. CASE i = 4
    BY <2>1, <2>5, <1>1
  <2> QED
    BY <2>1, <2>2, <2>3, <2>4, <2>5
<1> QED
  BY <1>1, <1>4, <1>5, <1>6

\* The parameters that testparm is asked for before the i-th.
Earlier(i) == {Parameters[j] : j \in 1 .. i - 1}

LEMMA EarlierFacts ==
    /\ Earlier(1) = {} /\ Earlier(5) = Keys
    /\ \A i \in 1..4 : /\ Earlier(i + 1) = Earlier(i) \cup {Parameters[i]} /\ Earlier(i) \subseteq Keys
                       /\ Parameters[i] \notin Earlier(i)
                       /\ NextQuestion(Parameters[i]) = IF i = 4 THEN "found" ELSE Parameters[i + 1]
<1>1. Earlier(1) = {}
  BY DEF Earlier
<1>2. Earlier(5) = Keys
  <2>1. Earlier(5) = {Parameters[j] : j \in 1..4}
    BY DEF Earlier
  <2> QED
    BY <2>1, ParameterNames
<1>3. ASSUME NEW i \in 1..4
      PROVE  Earlier(i + 1) = Earlier(i) \cup {Parameters[i]} /\ Earlier(i) \subseteq Keys /\ Parameters[i] \notin Earlier(i)
  <2>1. \A j : j \in 1 .. (i + 1) - 1 <=> j \in 1 .. i - 1 \/ j = i
    OBVIOUS
  <2>2. \A j \in 1 .. i - 1 : j \in 1..4 /\ j # i
    OBVIOUS
  <2>3. Earlier(i + 1) = Earlier(i) \cup {Parameters[i]}
    BY <2>1 DEF Earlier
  <2>4. Earlier(i) \subseteq Keys
    BY <2>2, ParameterNames DEF Earlier
  <2>5. Parameters[i] \notin Earlier(i)
    BY <2>2, ParameterNames DEF Earlier
  <2> QED
    BY <2>3, <2>4, <2>5
<1>4. ASSUME NEW i \in 1..4 PROVE NextQuestion(Parameters[i]) = IF i = 4 THEN "found" ELSE Parameters[i + 1]
  <2>1. (CHOOSE j \in DOMAIN Parameters : Parameters[j] = Parameters[i]) = i
    BY ParameterNames
  <2> QED
    BY <2>1, ParameterNames DEF NextQuestion
<1> QED
  BY <1>1, <1>2, <1>3, <1>4

\* A value that may be missing, of a parameter of Samba.
TextOrNone(v) == v = <<>> \/ v[1] \in Seq(STRING)

\* Samba is asked, and not macOS.
SambaAsked == machine.store = <<>> \/ options.smbConf # <<>>

Answered(k) == Succeeded(k) /\ params[k] = LastLine(LinesOf(said[k][1])) /\ TextOrNone(params[k])

OneSource(p) == Sources = {p} /\ found = <<SambaParamsToWinNetInfo(p)>> /\ \A k \in Keys : TextOrNone(p[k])

StartInv ==
    at \in {"start", "samba", "conf"} => found = <<>> /\ params = NoParams

SambaInv ==
    /\ at \in {"start", "samba"} => DOMAIN said = {}
    /\ at = "samba" => SambaAsked /\ options.smbConf = <<>>
    /\ at = "conf" => SambaAsked /\ smbConf = FileUsed /\ DOMAIN said \subseteq {"samba"}

QuestionInv ==
    \A i \in 1..4 : at = Parameters[i] =>
        /\ SambaAsked /\ ~FromFile /\ found = <<>> /\ params = [k \in Keys |-> params[k]]
        /\ DOMAIN said \cap Keys = Earlier(i)
        /\ \A k \in Earlier(i) : Answered(k)

FoundInv ==
    at \in {"found", "decided"} =>
        IF SambaAsked THEN (Sources = {} /\ found = <<>>) \/ (\E p : OneSource(p))
        ELSE found = AppleInfo(machine.store[1])

DecidedInv ==
    at = "decided" =>
        identity = LET named       == Given(options.hostname)
                       description == IF found = <<>> THEN <<>> ELSE found[1].description
                   IN  <<Info(IF options.memberOf # <<>> THEN options.memberOf[1]
                              ELSE IF found # <<>> THEN found[1].memberOf ELSE <<"Workgroup", <<"WORKGROUP">>>>,
                              IF named THEN options.hostname[1]
                              ELSE IF found # <<>> THEN found[1].hostName ELSE NormalName,
                              IF description # <<>> THEN description
                              ELSE IF named THEN options.hostname[1] ELSE SimpleHostName)>>

InputInv == at \notin {"serving", "failed"} => options \in Options /\ machine \in Machines

\* Up to where the constructor is, what was found is what its source says.
DetectInv == InputInv /\ StartInv /\ SambaInv /\ QuestionInv /\ FoundInv /\ DecidedInv

\* What is found of one source, as the sources are defined.
LEMMA OneSourceFacts ==
    ASSUME NEW p, Sources = {p}
    PROVE  \A k, other : FromSource(k, other) = IF Given(p[k]) THEN p[k][1] ELSE other
<1>1. (CHOOSE q \in Sources : TRUE) = p
  OBVIOUS
<1> QED
  BY <1>1 DEF FromSource

LEMMA NoSourceFacts ==
    ASSUME Sources = {}
    PROVE  \A k, other : FromSource(k, other) = other
BY DEF FromSource

\* Its parts.
LEMMA InfoFacts ==
    ASSUME NEW m, NEW n, NEW d
    PROVE  Info(m, n, d).memberOf = m /\ Info(m, n, d).hostName = n /\ Info(m, n, d).description = d
BY DEF Info

LEMMA NothingEmpty ==
    ASSUME DetectInv, at = "decided"
    PROVE  /\ found # <<>> => found[1].memberOf[2] # <<>> /\ found[1].hostName # <<>>
           /\ options.memberOf # <<>> => options.memberOf[1][2] # <<>>
<1>1. options \in Options /\ machine \in Machines
  BY DEF DetectInv, InputInv
<1>2. options.memberOf # <<>> => options.memberOf[1][2] # <<>>
  BY <1>1, InputAssumption
<1>3. CASE SambaAsked /\ \E p : OneSource(p)
  <2>1. PICK p : OneSource(p)
    BY <1>3
  <2> DEFINE mo == IF ~Given(p["workgroup"]) THEN <<"Workgroup", <<"WORKGROUP">>>>
                   ELSE IF p["security"] \in {<<<<"domain">>>>, <<<<"ads">>>>} THEN <<"Domain", p["workgroup"][1]>>
                   ELSE <<"Workgroup", p["workgroup"][1]>>
             hn == IF UseNetbios /\ Given(p["netbios name"]) THEN p["netbios name"][1] ELSE NormalName
             de == IF Given(p["server string"]) THEN Described(p["server string"][1]) ELSE SimpleHostName
  <2>2. found[1].memberOf = mo /\ found[1].hostName = hn
    <3>1. found[1] = SambaParamsToWinNetInfo(p)
      BY <2>1 DEF OneSource
    <3>2. SambaParamsToWinNetInfo(p) = Info(mo, hn, de)
      BY DEF SambaParamsToWinNetInfo
    <3> HIDE DEF mo, hn, de
    <3> QED
      BY <3>1, <3>2, InfoFacts
  <2>3. mo[2] # <<>>
    <3>1. <<"WORKGROUP">> # <<>>
      OBVIOUS
    <3> QED
      BY <3>1 DEF Given
  <2>4. hn # <<>>
    BY NormalNameNotEmpty DEF Given
  <2> QED
    BY <2>2, <2>3, <2>4, <1>2
<1>4. CASE ~SambaAsked
  <2> DEFINE s == machine.store[1]
  <2>1. machine.store # <<>> /\ found = AppleInfo(s)
    BY <1>4 DEF SambaAsked, DetectInv, FoundInv
  <2>2. (s.workgroup = <<>> \/ s.workgroup[1] # <<>>) /\ (s.hostname = <<>> \/ s.hostname[1] # <<>>)
    BY <2>1, <1>1, MachineAssumption
  <2> HIDE DEF s
  <2> DEFINE hn == IF UseNetbios /\ s.hostname # <<>> THEN s.hostname[1] ELSE NormalName
  <2>3. ASSUME found # <<>> PROVE found[1].memberOf = <<"Workgroup", s.workgroup[1]>> /\ found[1].hostName = hn /\ s.workgroup # <<>>
    BY <2>1, <2>3, InfoFacts DEF AppleInfo
  <2>4. hn # <<>>
    BY <2>2, NormalNameNotEmpty
  <2> QED
    BY <2>2, <2>3, <2>4, <1>2
<1>5. CASE found = <<>>
  BY <1>2, <1>5
<1> QED
  BY <1>3, <1>4, <1>5 DEF DetectInv, FoundInv

LEMMA DetectedIdentity ==
    ASSUME DetectInv
    PROVE  IdentityFromOneSource
<1> SUFFICES ASSUME at = "decided" PROVE IdentityFromOneSource
  BY DEF IdentityFromOneSource
<1> DEFINE named == Given(options.hostname)
           fd == IF found = <<>> THEN <<>> ELSE found[1].description
           id == identity[1]
<1>1. /\ id.memberOf = (IF options.memberOf # <<>> THEN options.memberOf[1]
                        ELSE IF found # <<>> THEN found[1].memberOf ELSE <<"Workgroup", <<"WORKGROUP">>>>)
      /\ id.hostName = (IF named THEN options.hostname[1] ELSE IF found # <<>> THEN found[1].hostName ELSE NormalName)
      /\ id.description = (IF fd # <<>> THEN fd ELSE IF named THEN options.hostname[1] ELSE SimpleHostName)
  BY InfoFacts DEF DetectInv, DecidedInv
<1>2. /\ found # <<>> => found[1].memberOf[2] # <<>> /\ found[1].hostName # <<>>
      /\ options.memberOf # <<>> => options.memberOf[1][2] # <<>>
  BY NothingEmpty
<1>3. named => options.hostname[1] # <<>>
  BY DEF Given
<1>4. SimpleHostName # <<>> /\ NormalName # <<>> /\ <<"Workgroup", <<"WORKGROUP">>>>[2] # <<>>
  BY SimpleHostNameFacts, NormalNameNotEmpty
<1> HIDE DEF named, fd, id
<1>5. id.memberOf[2] # <<>> /\ id.hostName # <<>> /\ id.description # <<>>
  BY <1>1, <1>2, <1>3, <1>4
<1>6. (options.memberOf # <<>> => id.memberOf = options.memberOf[1]) /\ (named => id.hostName = options.hostname[1])
  BY <1>1
<1> DEFINE Domain(p) == Given(p["workgroup"]) /\ p["security"] \in {<<<<"domain">>>>, <<<<"ads">>>>}
           Good == /\ options.memberOf = <<>> =>
                        /\ id.memberOf[2] = FromSource("workgroup", <<"WORKGROUP">>)
                        /\ id.memberOf[1] = "Domain" <=> \E p \in Sources : Domain(p)
                   /\ ~named => id.hostName = IF UseNetbios THEN FromSource("netbios name", NormalName)
                                              ELSE SimpleHostName
                   /\ id.description = IF named /\ Sources = {} THEN options.hostname[1]
                                       ELSE Described(FromSource("server string", SimpleHostName))
<1>7. ASSUME SambaAsked PROVE Good
  <2>1. (Sources = {} /\ found = <<>>) \/ (\E p : OneSource(p))
    BY <1>7 DEF DetectInv, FoundInv
  <2>2. CASE Sources = {} /\ found = <<>>
    <3>1. \A k, other : FromSource(k, other) = other
      BY <2>2, NoSourceFacts
    <3>2. fd = <<>>
      BY <2>2 DEF fd
    <3>3. options.memberOf = <<>> => id.memberOf = <<"Workgroup", <<"WORKGROUP">>>>
      BY <1>1, <2>2
    <3>4. options.memberOf = <<>> => id.memberOf[2] = <<"WORKGROUP">> /\ id.memberOf[1] # "Domain"
      BY <3>3
    <3>5. ~named => id.hostName = IF UseNetbios THEN NormalName ELSE SimpleHostName
      BY <1>1, <2>2 DEF NormalName
    <3>6. id.description = IF named THEN options.hostname[1] ELSE SimpleHostName
      BY <1>1, <3>2
    <3> QED
      BY <3>1, <3>4, <3>5, <3>6, <2>2, DescribedHostName
  <2>3. ASSUME NEW p, OneSource(p) PROVE Good
    <3>1. Sources = {p} /\ found = <<SambaParamsToWinNetInfo(p)>> /\ TextOrNone(p["server string"])
      BY <2>3, HelperNames DEF OneSource
    <3>2. \A k, other : FromSource(k, other) = IF Given(p[k]) THEN p[k][1] ELSE other
      BY <3>1, OneSourceFacts
    <3>3. found # <<>>
      BY <3>1
    <3> DEFINE mo == IF ~Given(p["workgroup"]) THEN <<"Workgroup", <<"WORKGROUP">>>>
                     ELSE IF p["security"] \in {<<<<"domain">>>>, <<<<"ads">>>>} THEN <<"Domain", p["workgroup"][1]>>
                     ELSE <<"Workgroup", p["workgroup"][1]>>
               hn == IF UseNetbios /\ Given(p["netbios name"]) THEN p["netbios name"][1] ELSE NormalName
               de == IF Given(p["server string"]) THEN Described(p["server string"][1]) ELSE SimpleHostName
    <3>4. found[1].memberOf = mo /\ found[1].hostName = hn /\ found[1].description = de
      <4>1. found[1] = SambaParamsToWinNetInfo(p)
        BY <3>1
      <4>2. SambaParamsToWinNetInfo(p) = Info(mo, hn, de)
        BY DEF SambaParamsToWinNetInfo
      <4> HIDE DEF mo, hn, de
      <4> QED
        BY <4>1, <4>2, InfoFacts
    <3>5. mo[2] = (IF Given(p["workgroup"]) THEN p["workgroup"][1] ELSE <<"WORKGROUP">>) /\ (mo[1] = "Domain" <=> Domain(p))
      OBVIOUS
    <3>6. de # <<>> /\ de = Described(FromSource("server string", SimpleHostName))
      <4>1. CASE Given(p["server string"])
        <5>1. p["server string"][1] \in Seq(STRING) /\ p["server string"][1] # <<>>
          BY <4>1, <3>1 DEF TextOrNone, Given
        <5>2. Described(p["server string"][1]) # <<>>
          BY <5>1, DescribedNotEmpty
        <5> QED
          BY <5>2, <4>1, <3>2
      <4>2. CASE ~Given(p["server string"])
        BY <4>2, <3>2, <1>4, DescribedHostName
      <4> QED
        BY <4>1, <4>2
    <3> HIDE DEF mo, de
    <3>7. fd = de
      BY <3>3, <3>4 DEF fd
    <3>8. id.description = Described(FromSource("server string", SimpleHostName)) /\ Sources # {}
      BY <3>1, <3>6, <3>7, <1>1
    <3>9. ~named => id.hostName = hn
      BY <3>3, <3>4, <1>1
    <3>10. hn = IF UseNetbios THEN FromSource("netbios name", NormalName) ELSE SimpleHostName
      BY <3>2 DEF NormalName
    <3> HIDE DEF hn
    <3>11. options.memberOf = <<>> => id.memberOf = mo
      BY <3>3, <3>4, <1>1
    <3> HIDE DEF Domain
    <3>12. (\E q \in Sources : Domain(q)) <=> Domain(p)
      BY <3>1
    <3>13. FromSource("workgroup", <<"WORKGROUP">>) = mo[2]
      BY <3>2, <3>5
    <3> QED
      BY <3>5, <3>8, <3>9, <3>10, <3>11, <3>12, <3>13
  <2> HIDE DEF Good
  <2> QED
    BY <2>1, <2>2, <2>3
<1> QED
  BY <1>5, <1>6, <1>7 DEF IdentityFromOneSource, SambaAsked, id, named

\* The output of a helper that has ended, and its last line.
LEMMA EndedOutput ==
    ASSUME ReadingInv, NEW h \in Helpers, Ends(h)
    PROVE  lines' = LinesOf(printed) /\ TextOrNone(LastLine(LinesOf(printed)))
<1>1. helper = h /\ h # Nobody /\ rest = <<>> /\ lines' = AllLines
  BY HelperNames DEF Ends
<1>2. LinesExact /\ printed \in Seq(STRING)
  BY <1>1, ReadingExact DEF ReadingInv
<1>3. AllLines = LinesOf(printed)
  BY <1>1, <1>2 DEF LinesExact
<1>4. PICK f : LinesFrom(f, printed, STRING) /\ LinesOf(printed) = f[1]
  BY <1>2, LinesOfFacts
<1>5. LinesOf(printed) \in Seq(Seq(STRING))
  <2>1. f \in [1 .. Len(printed) + 1 -> Seq(Seq(STRING))] /\ Len(printed) \in Nat
    BY <1>2, <1>4 DEF LinesFrom
  <2> QED
    BY <2>1, <1>4
<1>6. TextOrNone(LastLine(LinesOf(printed)))
  <2> DEFINE ls == LinesOf(printed)
  <2>1. ls \in Seq(Seq(STRING))
    BY <1>5
  <2> SUFFICES TextOrNone(LastLine(ls))
    OBVIOUS
  <2> HIDE DEF ls
  <2>2. CASE ls = <<>>
    BY <2>2 DEF LastLine, TextOrNone
  <2>3. CASE ls # <<>>
    <3>1. Len(ls) \in 1..Len(ls)
      BY <2>1, <2>3
    <3>2. Last(ls) \in Seq(STRING)
      BY <3>1, <2>1 DEF Last
    <3> QED
      BY <3>2, <2>3 DEF LastLine, TextOrNone
  <2> QED
    BY <2>2, <2>3
<1> QED
  BY <1>1, <1>3, <1>6

\* What is read of a file of the machine.
LEMMA FileRead ==
    ASSUME machine \in Machines, NEW path, Readable(path)
    PROVE  LET ls == EndedLines(path)
           IN  /\ InConf(ls) = [k \in Keys |-> ValueIn(ls, k)]
               /\ \A k \in Keys : TextOrNone(ValueIn(ls, k))
<1> DEFINE fs == machine.files[path]
           ls == EndedLines(path)
           L  == ToSet(fs)
<1>1. fs # <<>> /\ ConfType(fs)
  BY MachineAssumption DEF Readable
<1>2. fs \in Seq(L) /\ \A l \in L : l[1] # "section" => l[2] \in Seq(STRING)
  BY <1>1 DEF ConfType
<1>3. ls = fs \/ ls = SubSeq(fs, 1, Len(fs) - 1)
  BY DEF EndedLines, Front
<1> HIDE DEF fs, L, ls
<1>4. ls \in Seq(L)
  <2>1. Len(fs) \in Nat /\ Len(fs) - 1 \in Int /\ \A i \in 1 .. Len(fs) - 1 : fs[i] \in L
    BY <1>2
  <2>2. SubSeq(fs, 1, Len(fs) - 1) \in Seq(L)
    BY <2>1, SubSeqProperties
  <2> QED
    BY <2>2, <1>2, <1>3
<1>5. Len(ls) \in Nat /\ DOMAIN ls = 1..Len(ls) /\ \A i \in 1..Len(ls) : ls[i] \in L
  BY <1>4
<1>6. InConf(ls) = [k \in Keys |-> ValueIn(ls, k)]
  BY <1>5, ConfRead
<1>7. ASSUME NEW k \in Keys PROVE TextOrNone(ValueIn(ls, k))
  <2>0. k # "section"
    BY HelperNames
  <2> DEFINE sections == {i \in DOMAIN ls : ls[i][1] = "section"}
             global   == {i \in sections : ls[i][2] = "global"}
             first    == Min(global)
             end      == Min({i \in sections : i > first} \cup {Len(ls) + 1})
             entries  == {i \in first .. end - 1 : ls[i][1] = k}
  <2>1. ValueIn(ls, k) = IF global = {} \/ entries = {} THEN <<>> ELSE <<ls[Max(entries)][2]>>
    BY DEF ValueIn
  <2>2. ASSUME global # {}, entries # {} PROVE ls[Max(entries)][2] \in Seq(STRING)
    <3>1. first \in 1..Len(ls)
      <4>1. global \subseteq Nat /\ global \subseteq 1..Len(ls)
        BY <1>5
      <4> HIDE DEF global
      <4> QED
        BY <4>1, <2>2, MinFacts
    <3> HIDE DEF first, global
    <3>2. end \in 1 .. Len(ls) + 1
      <4> DEFINE T == {i \in sections : i > first} \cup {Len(ls) + 1}
      <4>1. T \subseteq Nat /\ T # {} /\ T \subseteq 1 .. Len(ls) + 1
        BY <1>5
      <4> HIDE DEF T
      <4>2. Min(T) \in T
        BY <4>1, MinFacts
      <4> QED
        BY <4>1, <4>2 DEF T
    <3> HIDE DEF end
    <3>3. entries \subseteq 0..Len(ls) /\ \A i \in entries : i \in 1..Len(ls) /\ ls[i][1] = k
      <4>1. \A i \in first .. end - 1 : i \in 1..Len(ls) /\ i \in 0..Len(ls)
        BY <3>1, <3>2, <1>5
      <4> QED
        BY <4>1
    <3> HIDE DEF entries
    <3>4. Max(entries) \in entries
      BY <3>3, <2>2, <1>5, MaxFacts
    <3>5. ls[Max(entries)] \in L /\ ls[Max(entries)][1] # "section"
      BY <3>3, <3>4, <2>0, <1>5
    <3> QED
      BY <3>5, <1>2
  <2> DEFINE v == ls[Max(entries)][2]
  <2>3. ValueIn(ls, k) = <<>> \/ (ValueIn(ls, k) = <<v>> /\ v \in Seq(STRING))
    <3> HIDE DEF global, entries
    <3> QED
      BY <2>1, <2>2
  <2> DEFINE w == ValueIn(ls, k)
  <2>4. w = <<>> \/ (w = <<v>> /\ v \in Seq(STRING))
    BY <2>3
  <2> SUFFICES TextOrNone(w)
    OBVIOUS
  <2> HIDE DEF v, w
  <2>5. CASE w = <<>>
    BY ONLY <2>5 DEF TextOrNone
  <2>6. CASE w = <<v>> /\ v \in Seq(STRING)
    <3>1. w[1] = v
      BY ONLY <2>6
    <3> QED
      BY ONLY <3>1, <2>6 DEF TextOrNone
  <2> QED
    BY ONLY <2>4, <2>5, <2>6
<1> QED
  BY <1>6, <1>7 DEF ls

\* The file depends on the options, on the machine and on what samba printed.
LEMMA FileKept ==
    ASSUME options' = options, machine' = machine, "samba" \in DOMAIN said' <=> "samba" \in DOMAIN said,
           "samba" \in DOMAIN said => said'["samba"] = said["samba"]
    PROVE  /\ SambaAsked' <=> SambaAsked
           /\ KsmbdConf' = KsmbdConf /\ FileUsed' = FileUsed
           /\ FromFile' <=> FromFile
           /\ \A p : EndedLines(p)' = EndedLines(p)
           /\ \A p : Readable(p)' <=> Readable(p)
           /\ UseNetbios' <=> UseNetbios
           /\ NormalName' = NormalName
           /\ \A p : SambaParamsToWinNetInfo(p)' = SambaParamsToWinNetInfo(p)
           /\ \A s : AppleInfo(s)' = AppleInfo(s)
<1>1. (SambaAsked' <=> SambaAsked) /\ (UseNetbios' <=> UseNetbios)
  BY DEF SambaAsked, UseNetbios
<1>2. NormalName' = NormalName
  BY <1>1 DEF NormalName
<1>3. /\ \A p : EndedLines(p)' = EndedLines(p)
      /\ \A p : Readable(p)' <=> Readable(p)
      /\ \A p : Exists(p)' <=> Exists(p)
  BY DEF EndedLines, Readable, Exists
<1>4. KsmbdConf' = KsmbdConf
  BY DEF KsmbdConf, Exists
<1>5. Succeeded("samba")' <=> Succeeded("samba")
  BY DEF Succeeded
<1>6. FileUsed' = FileUsed
  <2>1. Succeeded("samba") => "samba" \in DOMAIN said
    BY DEF Succeeded
  <2> QED
    BY <2>1, <1>4, <1>5 DEF FileUsed
<1>7. FromFile' <=> FromFile
  BY <1>3, <1>6 DEF FromFile
<1>8. \A p : SambaParamsToWinNetInfo(p)' = SambaParamsToWinNetInfo(p)
  BY <1>1, <1>2 DEF SambaParamsToWinNetInfo
<1>9. \A s : AppleInfo(s)' = AppleInfo(s)
  BY <1>1, <1>2 DEF AppleInfo
<1> QED
  BY <1>1, <1>2, <1>3, <1>4, <1>6, <1>7, <1>8, <1>9

LEMMA SourcesKept ==
    ASSUME options' = options, machine' = machine, said' = said
    PROVE  Sources' = Sources /\ \A h : Succeeded(h)' <=> Succeeded(h)
<1>1. FileUsed' = FileUsed /\ (FromFile' <=> FromFile) /\ \A p : EndedLines(p)' = EndedLines(p)
  BY FileKept
<1>2. \A h : Succeeded(h)' <=> Succeeded(h)
  BY DEF Succeeded
<1>3. FromTestParm' <=> FromTestParm
  BY <1>1, <1>2 DEF FromTestParm
<1>4. EndedLines(FileUsed[1])' = EndedLines(FileUsed[1])
  BY <1>1 DEF EndedLines
<1>5. Sources' = Sources
  BY <1>1, <1>3, <1>4 DEF Sources
<1> QED
  BY <1>2, <1>5

\* Nothing of it changes with the reader.
LEMMA DetectUnchanged ==
    ASSUME DetectInv, UNCHANGED hostvars
    PROVE  DetectInv'
<1>1. /\ options' = options /\ machine' = machine /\ at' = at /\ smbConf' = smbConf /\ params' = params
      /\ found' = found /\ identity' = identity /\ said' = said
  BY DEF hostvars
<1>2. /\ SambaAsked' <=> SambaAsked
      /\ FileUsed' = FileUsed
      /\ FromFile' <=> FromFile
      /\ NormalName' = NormalName
      /\ \A p : SambaParamsToWinNetInfo(p)' = SambaParamsToWinNetInfo(p)
      /\ \A s : AppleInfo(s)' = AppleInfo(s)
  BY <1>1, FileKept
<1>3. Sources' = Sources /\ \A h : Succeeded(h)' <=> Succeeded(h)
  BY <1>1, SourcesKept
<1>4. InputInv' /\ StartInv'
  BY <1>1 DEF DetectInv, InputInv, StartInv
<1>5. SambaInv'
  BY <1>1, <1>2 DEF DetectInv, SambaInv
<1>6. QuestionInv'
  <2>1. \A k : Answered(k)' <=> Answered(k)
    BY <1>1, <1>3 DEF Answered
  <2> QED
    BY <2>1, <1>1, <1>2 DEF DetectInv, QuestionInv
<1>7. FoundInv'
  <2>1. \A p : OneSource(p)' <=> OneSource(p)
    BY <1>1, <1>2, <1>3 DEF OneSource
  <2>2. AppleInfo(machine.store[1])' = AppleInfo(machine.store[1])
    BY <1>1, <1>2 DEF AppleInfo, UseNetbios
  <2> QED
    BY <2>1, <2>2, <1>1, <1>2, <1>3 DEF DetectInv, FoundInv
<1>8. DecidedInv'
  BY <1>1, <1>2 DEF DetectInv, DecidedInv
<1> QED
  BY <1>4, <1>5, <1>6, <1>7, <1>8 DEF DetectInv

LEMMA StartSteps ==
    ASSUME DetectInv, UseGivenConf \/ NoSamba \/ \E out, code : RunSamba(out, code)
    PROVE  DetectInv'
<1>1. /\ at = "start" /\ SambaAsked /\ options' = options /\ machine' = machine /\ params' = params
      /\ found' = found /\ said' = said /\ at' \in {"conf", "samba"}
  BY DEF UseGivenConf, NoSamba, RunSamba, Detects, SambaAsked, detectvars
<1>2. DOMAIN said = {} /\ found = <<>> /\ params = NoParams /\ options \in Options /\ machine \in Machines
  BY <1>1 DEF DetectInv, SambaInv, StartInv, InputInv
<1>3. SambaAsked' /\ KsmbdConf' = KsmbdConf
  BY <1>1, FileKept
<1>4. InputInv' /\ StartInv' /\ FoundInv' /\ DecidedInv'
  BY <1>1, <1>2 DEF InputInv, StartInv, FoundInv, DecidedInv
<1>5. QuestionInv'
  BY <1>1, ParameterNames, HelperNames DEF QuestionInv
<1>6. CASE UseGivenConf
  <2>1. at' = "conf" /\ smbConf' = options.smbConf /\ options.smbConf # <<>>
    BY <1>6 DEF UseGivenConf
  <2>2. FileUsed' = options.smbConf
    BY <2>1, <1>1 DEF FileUsed
  <2>3. SambaInv'
    BY <2>1, <2>2, <1>1, <1>2, <1>3 DEF SambaInv
  <2> QED
    BY <2>3, <1>4, <1>5 DEF DetectInv
<1>7. CASE NoSamba
  <2>1. at' = "conf" /\ smbConf' = KsmbdConf /\ options.smbConf = <<>>
    BY <1>7 DEF NoSamba
  <2>2. ~Succeeded("samba")'
    BY <1>1, <1>2 DEF Succeeded
  <2>3. FileUsed' = KsmbdConf
    BY <2>1, <2>2, <1>1, <1>3 DEF FileUsed
  <2>4. SambaInv'
    BY <2>1, <2>3, <1>1, <1>2, <1>3 DEF SambaInv
  <2> QED
    BY <2>4, <1>4, <1>5 DEF DetectInv
<1>8. CASE \E out, code : RunSamba(out, code)
  <2>1. at' = "samba" /\ options.smbConf = <<>>
    BY <1>8 DEF RunSamba
  <2>2. SambaInv'
    BY <2>1, <1>1, <1>2, <1>3 DEF SambaInv
  <2> QED
    BY <2>2, <1>4, <1>5 DEF DetectInv
<1> QED
  BY <1>6, <1>7, <1>8

LEMMA SambaEndsStep ==
    ASSUME DetectInv, ReadingInv, SambaEnds
    PROVE  DetectInv'
<1>1. /\ at = "samba" /\ options' = options /\ machine' = machine /\ params' = params
      /\ found' = found /\ at' = "conf" /\ Ends("samba")
      /\ said' = [g \in DOMAIN said \cup {"samba"} |-> IF g = "samba" THEN <<printed, exits>> ELSE said[g]]
      /\ smbConf' = IF exits = 0 THEN <<PathIn(lines')>> ELSE KsmbdConf
  BY DEF SambaEnds, Says, detectvars
<1>2. /\ DOMAIN said = {} /\ found = <<>> /\ params = NoParams /\ options \in Options /\ machine \in Machines
      /\ SambaAsked /\ options.smbConf = <<>>
  BY <1>1 DEF DetectInv, SambaInv, StartInv, InputInv
<1>3. SambaAsked'
  BY <1>1, <1>2 DEF SambaAsked
<1>4. KsmbdConf' = KsmbdConf
  BY <1>1 DEF KsmbdConf, Exists
<1>5. lines' = LinesOf(printed)
  BY <1>1, HelperNames, EndedOutput
<1>6. DOMAIN said' = {"samba"} /\ said'["samba"] = <<printed, exits>>
  BY <1>1, <1>2
<1>7. FileUsed' = smbConf'
  <2>1. Succeeded("samba")' <=> exits = 0
    BY <1>6 DEF Succeeded
  <2> QED
    BY <2>1, <1>1, <1>2, <1>4, <1>5, <1>6 DEF FileUsed
<1>8. InputInv' /\ StartInv' /\ FoundInv' /\ DecidedInv'
  BY <1>1, <1>2 DEF InputInv, StartInv, FoundInv, DecidedInv
<1>9. QuestionInv'
  BY <1>1, ParameterNames, HelperNames DEF QuestionInv
<1>10. SambaInv'
  BY <1>1, <1>3, <1>6, <1>7 DEF SambaInv
<1> QED
  BY <1>8, <1>9, <1>10 DEF DetectInv

\* The questions are over because all was said in a file ...
LEMMA ReadConfStep ==
    ASSUME DetectInv, ReadConf
    PROVE  DetectInv'
<1>1. at = "conf" /\ options' = options /\ machine' = machine /\ said' = said /\ identity' = identity
  BY DEF ReadConf, detectvars
<1>2. /\ found = <<>> /\ params = NoParams /\ options \in Options /\ machine \in Machines
      /\ SambaAsked /\ smbConf = FileUsed /\ DOMAIN said \subseteq {"samba"}
  BY <1>1 DEF DetectInv, SambaInv, StartInv, InputInv
<1>3. /\ SambaAsked' /\ FileUsed' = FileUsed /\ (FromFile' <=> FromFile)
      /\ \A p : SambaParamsToWinNetInfo(p)' = SambaParamsToWinNetInfo(p)
  BY <1>1, <1>2, FileKept
<1>4. Sources' = Sources
  BY <1>1, SourcesKept
<1>5. CASE FromFile
  <2> DEFINE ls == EndedLines(FileUsed[1])
  <2>1. Readable(FileUsed[1])
    BY <1>5 DEF FromFile
  <2>2. params' = InConf(ls) /\ found' = <<SambaParamsToWinNetInfo(InConf(ls))>> /\ at' = "found"
    BY <1>2, <1>5 DEF ReadConf, FromFile
  <2>3. InConf(ls) = [k \in Keys |-> ValueIn(ls, k)] /\ \A k \in Keys : TextOrNone(ValueIn(ls, k))
    BY <2>1, <1>2, FileRead
  <2>4. Sources = {[k \in Keys |-> ValueIn(ls, k)]}
    BY <1>5 DEF Sources
  <2> HIDE DEF ls
  <2>5. PICK p : p = [k \in Keys |-> ValueIn(ls, k)]
    OBVIOUS
  <2>6. \A k \in Keys : p[k] = ValueIn(ls, k)
    BY <2>5
  <2>7. OneSource(p)'
    <3>1. Sources' = {p} /\ found' = <<SambaParamsToWinNetInfo(p)>> /\ \A k \in Keys : TextOrNone(p[k])
      BY <2>2, <2>3, <2>4, <2>5, <2>6, <1>4
    <3> QED
      BY <3>1, <1>3 DEF OneSource
  <2>8. FoundInv'
    BY <2>7, <1>3 DEF FoundInv
  <2>9. InputInv' /\ StartInv' /\ SambaInv' /\ DecidedInv'
    BY <2>2, <1>1, <1>2 DEF InputInv, StartInv, SambaInv, DecidedInv
  <2>10. QuestionInv'
    BY <2>2, ParameterNames, HelperNames DEF QuestionInv
  <2> QED
    BY <2>8, <2>9, <2>10 DEF DetectInv
<1>6. CASE ~FromFile
  <2>1. at' = Parameters[1] /\ params' = params /\ found' = found
    BY <1>2, <1>6 DEF ReadConf, FromFile
  <2>2. at' \in Keys /\ Keys \cap {"start", "samba", "conf", "found", "decided", "serving", "failed"} = {}
    <3>1. 1 \in 1..4
      OBVIOUS
    <3> QED
      BY <3>1, <2>1, ParameterNames, HelperNames
  <2>3. InputInv' /\ StartInv' /\ SambaInv' /\ DecidedInv' /\ FoundInv'
    BY <2>2, <1>1, <1>2 DEF InputInv, StartInv, SambaInv, DecidedInv, FoundInv
  <2>4. QuestionInv'
    <3> SUFFICES ASSUME NEW i \in 1..4, at' = Parameters[i]
                 PROVE  /\ SambaAsked' /\ ~FromFile' /\ found' = <<>> /\ params' = [k \in Keys |-> params'[k]]
                        /\ DOMAIN said' \cap Keys = Earlier(i)
                        /\ \A k \in Earlier(i) : Answered(k)'
      BY DEF QuestionInv, Earlier, Parameters
    <3>1. i = 1
      <4>1. 1 \in 1..4
        OBVIOUS
      <4> QED
        BY <4>1, <2>1, ParameterNames
    <3>2. DOMAIN said' \cap Keys = {} /\ Earlier(i) = {}
      BY <3>1, <1>1, <1>2, HelperNames, EarlierFacts
    <3>3. params' = [k \in Keys |-> params'[k]]
      BY <2>1, <1>2 DEF NoParams
    <3> QED
      BY <3>2, <3>3, <2>1, <1>2, <1>3, <1>6
  <2> QED
    BY <2>3, <2>4 DEF DetectInv
<1> QED
  BY <1>5, <1>6

\* ... or because testparm cannot be asked.
LEMMA NoTestParmStep ==
    ASSUME DetectInv, NoTestParm
    PROVE  DetectInv'
<1>1. /\ at \in Keys /\ at' = "found" /\ options' = options /\ machine' = machine /\ said' = said
      /\ found' = found
  BY DEF NoTestParm, detectvars
<1>2. PICK i \in 1..4 : at = Parameters[i]
  BY <1>1, ParameterNames
<1>3. SambaAsked /\ ~FromFile /\ found = <<>> /\ DOMAIN said \cap Keys = Earlier(i)
  BY <1>2 DEF DetectInv, QuestionInv
<1>4. ~Succeeded(Parameters[i])
  BY <1>3, ParameterNames, EarlierFacts DEF Succeeded
<1>5. Sources = {}
  BY <1>3, <1>4, ParameterNames DEF Sources, FromTestParm
<1>6. SambaAsked' /\ Sources' = {}
  BY <1>1, <1>3, <1>5, FileKept, SourcesKept
<1>7. options \in Options /\ machine \in Machines
  BY <1>1, HelperNames DEF DetectInv, InputInv
<1>8. InputInv' /\ StartInv' /\ SambaInv' /\ DecidedInv' /\ FoundInv'
  BY <1>1, <1>3, <1>6, <1>7 DEF InputInv, StartInv, SambaInv, DecidedInv, FoundInv
<1>9. QuestionInv'
  BY <1>1, ParameterNames, HelperNames DEF QuestionInv
<1> QED
  BY <1>8, <1>9 DEF DetectInv

\* macOS says all at once.
LEMMA DetectAppleStep ==
    ASSUME DetectInv, DetectApple
    PROVE  DetectInv'
<1>1. /\ at = "start" /\ at' = "found" /\ options' = options /\ machine' = machine /\ said' = said
      /\ found' = AppleInfo(machine.store[1]) /\ ~SambaAsked
  BY DEF DetectApple, detectvars, SambaAsked
<1>2. options \in Options /\ machine \in Machines
  BY <1>1 DEF DetectInv, InputInv
<1>3. ~SambaAsked' /\ AppleInfo(machine.store[1])' = AppleInfo(machine.store[1])
  BY <1>1 DEF SambaAsked, AppleInfo, UseNetbios, NormalName
<1>4. InputInv' /\ StartInv' /\ SambaInv' /\ DecidedInv' /\ FoundInv'
  BY <1>1, <1>2, <1>3 DEF InputInv, StartInv, SambaInv, DecidedInv, FoundInv
<1>5. QuestionInv'
  BY <1>1, ParameterNames, HelperNames DEF QuestionInv
<1> QED
  BY <1>4, <1>5 DEF DetectInv

LEMMA DecideStep ==
    ASSUME DetectInv, Decide
    PROVE  DetectInv'
<1>1. at = "found" /\ at' = "decided" /\ options' = options /\ machine' = machine /\ said' = said /\ found' = found
  BY DEF Decide
<1>2. options \in Options /\ machine \in Machines
  BY <1>1 DEF DetectInv, InputInv
<1>3. /\ SambaAsked' <=> SambaAsked
      /\ NormalName' = NormalName
      /\ \A p : SambaParamsToWinNetInfo(p)' = SambaParamsToWinNetInfo(p)
  BY <1>1, FileKept
<1>4. Sources' = Sources /\ AppleInfo(machine.store[1])' = AppleInfo(machine.store[1])
  BY <1>1, SourcesKept DEF AppleInfo, UseNetbios, NormalName
<1>5. FoundInv'
  <2>1. \A p : OneSource(p)' <=> OneSource(p)
    BY <1>1, <1>3, <1>4 DEF OneSource
  <2> QED
    BY <2>1, <1>1, <1>3, <1>4 DEF DetectInv, FoundInv
<1>6. DecidedInv'
  BY <1>1, <1>3 DEF Decide, DecidedInv
<1>7. InputInv' /\ StartInv' /\ SambaInv'
  BY <1>1, <1>2 DEF InputInv, StartInv, SambaInv
<1>8. QuestionInv'
  BY <1>1, ParameterNames, HelperNames DEF QuestionInv
<1> QED
  BY <1>5, <1>6, <1>7, <1>8 DEF DetectInv

\* One question is over.
LEMMA TestParmEndsStep ==
    ASSUME DetectInv, ReadingInv, NEW q \in Keys, TestParmEnds(q)
    PROVE  DetectInv'
<1>1. /\ at = q /\ options' = options /\ machine' = machine /\ Ends(q)
      /\ said' = [g \in DOMAIN said \cup {q} |-> IF g = q THEN <<printed, exits>> ELSE said[g]]
  BY DEF TestParmEnds, Says, detectvars
<1>2. PICK i \in 1..4 : q = Parameters[i]
  BY ParameterNames
<1>3. /\ SambaAsked /\ ~FromFile /\ found = <<>> /\ params = [k \in Keys |-> params[k]]
      /\ DOMAIN said \cap Keys = Earlier(i)
      /\ \A k \in Earlier(i) : Answered(k)
  BY <1>1, <1>2 DEF DetectInv, QuestionInv
<1>4. options \in Options /\ machine \in Machines
  BY <1>1, HelperNames DEF DetectInv, InputInv
<1>5. DOMAIN said' = DOMAIN said \cup {q} /\ said'[q] = <<printed, exits>> /\ \A g \in DOMAIN said : g # q => said'[g] = said[g]
  BY <1>1
<1>6. q # "samba" /\ q \in Helpers
  BY HelperNames
<1>7. /\ SambaAsked' /\ ~FromFile'
      /\ \A p : SambaParamsToWinNetInfo(p)' = SambaParamsToWinNetInfo(p)
  <2>1. ("samba" \in DOMAIN said' <=> "samba" \in DOMAIN said) /\ ("samba" \in DOMAIN said => said'["samba"] = said["samba"])
    BY <1>5, <1>6
  <2> QED
    BY <2>1, <1>1, <1>3, FileKept
<1>8. lines' = LinesOf(printed) /\ TextOrNone(LastLine(LinesOf(printed)))
  BY <1>1, <1>6, EndedOutput
<1>9. q \notin Earlier(i) /\ Earlier(i) \subseteq Keys /\ Earlier(i + 1) = Earlier(i) \cup {q}
  BY <1>2, EarlierFacts
<1>10. ASSUME exits # 0 PROVE DetectInv'
  <2>1. at' = "found" /\ found' = <<>>
    BY <1>10, <1>3 DEF TestParmEnds
  <2>2. ~Succeeded(q)'
    BY <1>5, <1>10 DEF Succeeded
  <2>3. Sources' = {}
    BY <2>2, <1>7 DEF Sources, FromTestParm
  <2>4. InputInv' /\ StartInv' /\ SambaInv' /\ DecidedInv' /\ FoundInv'
    BY <2>1, <2>3, <1>1, <1>4, <1>7 DEF InputInv, StartInv, SambaInv, DecidedInv, FoundInv
  <2>5. QuestionInv'
    BY <2>1, ParameterNames, HelperNames DEF QuestionInv
  <2> QED
    BY <2>4, <2>5 DEF DetectInv
<1>11. ASSUME exits = 0 PROVE DetectInv'
  <2>1. /\ params' = [params EXCEPT ![q] = LastLine(LinesOf(printed))]
        /\ at' = IF i = 4 THEN "found" ELSE Parameters[i + 1]
    BY <1>11, <1>2, <1>8, EarlierFacts DEF TestParmEnds
  <2>2. /\ params' = [k \in Keys |-> params'[k]] /\ params'[q] = LastLine(LinesOf(printed))
        /\ \A k \in Keys : k # q => params'[k] = params[k]
    BY <2>1, <1>3
  <2>3. Answered(q)'
    <3>1. Succeeded(q)'
      BY <1>5, <1>11 DEF Succeeded
    <3> QED
      BY <3>1, <2>2, <1>5, <1>8 DEF Answered
  <2>4. ASSUME NEW k \in Earlier(i) PROVE Answered(k)'
    <3>1. Answered(k) /\ k # q /\ k \in Keys
      BY <1>3, <1>9
    <3>2. k \in DOMAIN said /\ said'[k] = said[k] /\ params'[k] = params[k]
      BY <3>1, <2>2, <1>5 DEF Answered, Succeeded
    <3>3. Succeeded(k)'
      BY <3>1, <3>2, <1>5 DEF Answered, Succeeded
    <3> QED
      BY <3>1, <3>2, <3>3 DEF Answered
  <2>5. \A k \in Earlier(i + 1) : Answered(k)'
    BY <2>3, <2>4, <1>9
  <2>6. DOMAIN said' \cap Keys = Earlier(i + 1)
    BY <1>3, <1>5, <1>9
  <2>7. CASE i = 4
    <3>1. at' = "found"
      BY <2>1, <2>7
    <3>2. Earlier(i + 1) = Keys
      BY <2>7, EarlierFacts
    <3> DEFINE p == [k \in Keys |-> LastLine(LinesOf(said'[k][1]))]
    <3>3. p = params'
      <4>1. \A k \in Keys : params'[k] = LastLine(LinesOf(said'[k][1]))
        BY <3>2, <2>5 DEF Answered
      <4> QED
        BY <4>1, <2>2
    <3>4. FromTestParm'
      BY <3>2, <2>5, <1>7 DEF FromTestParm, Answered
    <3>5. Sources' = {p}
      BY <3>4, <1>7 DEF Sources, FromTestParm
    <3>6. \A k \in Keys : TextOrNone(params'[k])
      BY <3>2, <2>5 DEF Answered
    <3> HIDE DEF p
    <3>7. found' = <<SambaParamsToWinNetInfo(params)'>>
      BY <1>11, <3>1, <1>1 DEF TestParmEnds, SambaParamsToWinNetInfo, UseNetbios, NormalName
    <3>9. \E r : OneSource(r)'
      <4>1. Sources' = {params'} /\ found' = <<SambaParamsToWinNetInfo(params)'>> /\ \A k \in Keys : TextOrNone(params'[k])
        BY <3>3, <3>5, <3>6, <3>7
      <4>2. PICK r : r = params'
        OBVIOUS
      <4>3. SambaParamsToWinNetInfo(r)' = SambaParamsToWinNetInfo(params)'
        BY <4>2, <1>1 DEF SambaParamsToWinNetInfo, UseNetbios, NormalName
      <4>4. OneSource(r)'
        BY <4>1, <4>2, <4>3 DEF OneSource
      <4> QED
        BY <4>4
    <3>10. FoundInv'
      BY <3>9, <1>7 DEF FoundInv
    <3>11. InputInv' /\ StartInv' /\ SambaInv' /\ DecidedInv'
      BY <3>1, <1>1, <1>4 DEF InputInv, StartInv, SambaInv, DecidedInv
    <3>12. QuestionInv'
      BY <3>1, ParameterNames, HelperNames DEF QuestionInv
    <3> QED
      BY <3>10, <3>11, <3>12 DEF DetectInv
  <2>8. CASE i # 4
    <3>1. i + 1 \in 1..4 /\ at' = Parameters[i + 1]
      BY <2>1, <2>8
    <3>2. at' \in Keys /\ Keys \cap {"start", "samba", "conf", "found", "decided", "serving", "failed"} = {}
      BY <3>1, ParameterNames, HelperNames
    <3>3. found' = <<>>
      BY <3>2, <1>11 DEF TestParmEnds
    <3>4. InputInv' /\ StartInv' /\ SambaInv' /\ DecidedInv' /\ FoundInv'
      BY <3>2, <1>1, <1>4 DEF InputInv, StartInv, SambaInv, DecidedInv, FoundInv
    <3>5. QuestionInv'
      <4> SUFFICES ASSUME NEW j \in 1..4, at' = Parameters[j]
                   PROVE  /\ SambaAsked' /\ ~FromFile' /\ found' = <<>> /\ params' = [k \in Keys |-> params'[k]]
                          /\ DOMAIN said' \cap Keys = Earlier(j)
                          /\ \A k \in Earlier(j) : Answered(k)'
        BY DEF QuestionInv, Earlier, Parameters
      <4>1. j = i + 1
        BY <3>1, ParameterNames
      <4> QED
        BY <4>1, <3>3, <2>2, <2>5, <2>6, <1>7
    <3> QED
      BY <3>4, <3>5 DEF DetectInv
  <2> QED
    BY <2>7, <2>8
<1> QED
  BY <1>10, <1>11

LEMMA DetectInit ==
    ASSUME MInit
    PROVE  DetectInv
<1>1. /\ at = "start" /\ options \in Options /\ machine \in Machines /\ found = <<>> /\ params = NoParams
      /\ DOMAIN said = {}
  BY DEF MInit, HInit
<1>2. InputInv /\ StartInv /\ SambaInv /\ FoundInv /\ DecidedInv
  BY <1>1 DEF InputInv, StartInv, SambaInv, FoundInv, DecidedInv
<1>3. QuestionInv
  BY <1>1, ParameterNames, HelperNames DEF QuestionInv
<1> QED
  BY <1>2, <1>3 DEF DetectInv

LEMMA DetectStep ==
    ASSUME DetectInv, ReadingInv, [MNext]_mvars
    PROVE  DetectInv'
<1>1. CASE UNCHANGED hostvars
  BY <1>1, DetectUnchanged
<1>2. CASE UseGivenConf \/ NoSamba
  BY <1>2, StartSteps
<1>3. CASE SambaEnds
  BY <1>3, SambaEndsStep
<1>4. CASE ReadConf
  BY <1>4, ReadConfStep
<1>5. CASE NoTestParm
  BY <1>5, NoTestParmStep
<1>6. CASE DetectApple
  BY <1>6, DetectAppleStep
<1>7. CASE Decide
  BY <1>7, DecideStep
<1>8. ASSUME NEW h \in Helpers, Runs(h) PROVE DetectInv'
  <2>1. CASE \E out, code : RunSamba(out, code)
    BY <2>1, StartSteps
  <2>2. CASE UNCHANGED hostvars
    BY <2>2, DetectUnchanged
  <2> QED
    BY <2>1, <2>2, <1>8 DEF Runs, RunTestParm
<1>9. ASSUME NEW k \in Keys, TestParmEnds(k) PROVE DetectInv'
  BY <1>9, TestParmEndsStep
<1>10. CASE at' \in {"serving", "failed"}
  <2>1. InputInv' /\ StartInv' /\ SambaInv' /\ FoundInv' /\ DecidedInv'
    BY <1>10 DEF InputInv, StartInv, SambaInv, FoundInv, DecidedInv
  <2>2. QuestionInv'
    BY <1>10, ParameterNames, HelperNames DEF QuestionInv
  <2> QED
    BY <2>1, <2>2 DEF DetectInv
<1>11. CASE NoMetadata \/ \E f \in MetadataFiles : LoadMetadata(f)
  BY <1>10, <1>11 DEF NoMetadata, LoadMetadata
<1>12. CASE HNext
  <2>1. \/ UseGivenConf \/ NoSamba \/ SambaEnds \/ UNCHANGED hostvars \/ ReadConf \/ NoTestParm \/ DetectApple \/ Decide
        \/ (\E h \in Helpers : Runs(h)) \/ (\E k \in Keys : TestParmEnds(k))
    BY <1>12 DEF HNext
  <2> QED
    BY <2>1, <1>1, <1>2, <1>3, <1>4, <1>5, <1>6, <1>7, <1>8, <1>9
<1>13. CASE UNCHANGED mvars
  BY <1>13, <1>1 DEF mvars
<1> QED
  BY <1>1, <1>11, <1>12, <1>13 DEF MNext

\* The group, the name and the description of the constructor of Config come from
\* the command line, from one configuration that was read as a whole, or from the
\* host name, and none of them is empty: whatever helpers the machine has, whatever
\* they print and in whatever pieces it is read, and wherever they fail.
THEOREM IdentityFromOneSourceAlways == MSpec => []IdentityFromOneSource
<1>1. MInit => ReadingInv /\ DetectInv
  BY DetectInit DEF MInit, HInit, ShellInit, ReadingInv
<1>2. ReadingInv /\ DetectInv /\ [MNext]_mvars => (ReadingInv /\ DetectInv)'
  BY ReadingStep, DetectStep
<1>3. ReadingInv /\ DetectInv => IdentityFromOneSource
  BY DetectedIdentity
<1> QED
  BY <1>1, <1>2, <1>3, PTL DEF MSpec

-----------------------------------------------------------------------------
(* The walk over the nodes of a template *)

Kids(d, n) == {m \in DOMAIN d.parent : d.parent[m] = n /\ d.kind[m] # "attribute"}

\* The texts that are rewritten where the walk is at n.
Own(d, n) ==
    IF d.kind[n] = "text" THEN {n}
    ELSE {m \in DOMAIN d.parent : d.kind[m] = "text" /\ d.kind[d.parent[m]] = "attribute" /\ d.parent[d.parent[m]] = n}

\* The nodes the walk is for: not the attributes and their texts.
Reach(d) ==
    {n \in DOMAIN d.parent : n = 1 \/ (d.kind[n] # "attribute" /\ d.kind[d.parent[n]] = "element")}

\* The siblings of n before it are in C, and those after it are not in D.
Between(d, n, D, C) ==
    /\ d.parent[n] \in D \ C
    /\ \A m \in Kids(d, d.parent[n]) : (m < n => m \in C) /\ (m > n => m \notin D)

\* D are the nodes that were seen and C those whose children were all seen too.
Marked(d, D, C) ==
    /\ 1 \in D \ C /\ C \subseteq D /\ D \subseteq Reach(d)
    /\ \A n \in C : Kids(d, n) \subseteq C
    /\ \A n \in Reach(d) \ D : Kids(d, n) \cap D = {}
    /\ \A n \in D \ C : n # 1 => Between(d, n, D, C)

\* Where the walk is.
Place(d, c, b, D, C) ==
    \/ c = 1 /\ Kids(d, 1) \subseteq C
    \/ /\ c # 1 /\ c \in Reach(d) /\ Between(d, c, D, C) /\ b \in BOOLEAN
       /\ b => c \in D \ C /\ Kids(d, c) \subseteq C
       /\ ~b => c \notin D

LEMMA DocumentFacts ==
    ASSUME NEW d, DocumentType(d)
    PROVE  /\ DOMAIN d.parent \subseteq Nat /\ 1 \in Reach(d) /\ d.kind[1] = "element"
           /\ \A n \in DOMAIN d.parent : n # 1 => d.parent[n] \in DOMAIN d.parent /\ d.parent[n] < n
           /\ \A n \in Reach(d) : Kids(d, n) \subseteq Reach(d) /\ 1 \notin Kids(d, n) /\ n \notin Kids(d, n)
           /\ \A n \in Reach(d) : n # 1 => n \in Kids(d, d.parent[n])
           /\ \A n \in Reach(d) : n \in DOMAIN d.parent
<1>1. /\ d.parent \in Seq(Nat) /\ d.parent # <<>>
      /\ d.parent[1] = 0 /\ d.kind[1] = "element"
      /\ \A n \in DOMAIN d.parent \ {1} :
          /\ d.parent[n] \in 1 .. n - 1
          /\ d.kind[d.parent[n]] = "attribute" => d.kind[n] = "text"
          /\ d.kind[n] = "attribute" => d.kind[d.parent[n]] = "element"
          /\ d.kind[d.parent[n]] \in {"element", "attribute"}
  BY DEF DocumentType
<1> DEFINE N == Len(d.parent)
<1>2. N \in Nat /\ N >= 1 /\ DOMAIN d.parent = 1..N
  BY <1>1
<1>3. 1 \in Reach(d) /\ DOMAIN d.parent \subseteq Nat
  BY <1>2 DEF Reach
<1>4. ASSUME NEW n \in DOMAIN d.parent, n # 1 PROVE d.parent[n] \in DOMAIN d.parent /\ d.parent[n] < n
  <2>1. n \in 1..N /\ d.parent[n] \in 1 .. n - 1
    BY <1>1, <1>2, <1>4
  <2> QED
    BY <2>1, <1>2
<1>5. ASSUME NEW n \in Reach(d) PROVE Kids(d, n) \subseteq Reach(d) /\ 1 \notin Kids(d, n) /\ n \notin Kids(d, n)
  <2>1. n \in 1..N /\ d.kind[n] # "attribute"
    BY <1>1, <1>2 DEF Reach
  <2>2. 1 \notin Kids(d, n)
    BY <2>1, <1>1, <1>2 DEF Kids
  <2>3. ASSUME NEW m \in Kids(d, n) PROVE m \in Reach(d) /\ m # n
    <3>1. m \in DOMAIN d.parent /\ m # 1 /\ d.parent[m] = n /\ d.kind[m] # "attribute"
      BY <2>2 DEF Kids
    <3>2. d.kind[n] = "element"
      BY <3>1, <2>1, <1>1
    <3>3. n < m
      BY <3>1, <1>4
    <3> QED
      BY <3>1, <3>2, <3>3, <2>1, <1>2 DEF Reach
  <2> QED
    BY <2>2, <2>3
<1>6. \A n \in Reach(d) : n # 1 => n \in Kids(d, d.parent[n])
  BY DEF Reach, Kids
<1> QED
  BY <1>1, <1>3, <1>4, <1>5, <1>6 DEF Reach

LEMMA ElementReached ==
    ASSUME NEW d, DocumentType(d), NEW q \in DOMAIN d.parent, d.kind[q] = "element"
    PROVE  q \in Reach(d)
BY DEF DocumentType, Reach

\* One turn: the node at hand has been seen, and the walk goes down, ...
LEMMA WalkDown ==
    ASSUME NEW d, DocumentType(d), NEW D, NEW C, Marked(d, D, C), NEW c, Place(d, c, FALSE, D, C), c # 1,
           Kids(d, c) # {}
    PROVE  Marked(d, D \cup {c}, C) /\ Place(d, Min(Kids(d, c)), FALSE, D \cup {c}, C)
<1> DEFINE E == D \cup {c}
           k == Min(Kids(d, c))
<1>1. c \in Reach(d) /\ Between(d, c, D, C) /\ c \notin D
  BY DEF Place
<1>2. /\ 1 \in D \ C /\ C \subseteq D /\ D \subseteq Reach(d)
      /\ \A n \in C : Kids(d, n) \subseteq C
      /\ \A n \in Reach(d) \ D : Kids(d, n) \cap D = {}
      /\ \A n \in D \ C : n # 1 => Between(d, n, D, C)
  BY DEF Marked
<1>3. /\ c \in DOMAIN d.parent /\ c \in Kids(d, d.parent[c]) /\ DOMAIN d.parent \subseteq Nat
      /\ Kids(d, c) \subseteq Reach(d) /\ 1 \notin Kids(d, c) /\ c \notin Kids(d, c)
  BY <1>1, DocumentFacts
<1>4. Kids(d, c) \subseteq Nat
  BY <1>3 DEF Kids
<1>5. k \in Kids(d, c) /\ \A y \in Kids(d, c) : k <= y
  BY <1>4, MinFacts
<1> HIDE DEF k
<1>6. k \in Nat /\ k \in Reach(d) /\ k # 1 /\ d.parent[k] = c
  BY <1>3, <1>4, <1>5 DEF Kids
<1>7. Kids(d, c) \cap E = {}
  BY <1>1, <1>2, <1>3
<1>8. \A n \in Reach(d) \ E : Kids(d, n) \cap E = {}
  <2> SUFFICES ASSUME NEW n \in Reach(d) \ E, c \in Kids(d, n) PROVE FALSE
    BY <1>2
  <2>1. d.parent[c] = n
    BY DEF Kids
  <2> QED
    BY <2>1, <1>1 DEF Between
<1>9. ASSUME NEW n \in D \ C, n # 1 PROVE Between(d, n, E, C)
  <2>1. Between(d, n, D, C)
    BY <1>2, <1>9
  <2>2. n \in Nat /\ c \in Nat /\ n \in Kids(d, d.parent[n])
    BY <1>2, <1>3, <1>9, DocumentFacts
  <2>3. ~(c \in Kids(d, d.parent[n]) /\ c > n)
    <3> SUFFICES ASSUME c \in Kids(d, d.parent[n]), c > n PROVE FALSE
      OBVIOUS
    <3>1. d.parent[c] = d.parent[n]
      BY DEF Kids
    <3>2. n < c
      BY <2>2
    <3> QED
      BY <3>1, <3>2, <2>2, <1>1, <1>9 DEF Between
  <2> QED
    BY <2>1, <2>3 DEF Between
<1>10. Between(d, c, E, C)
  <2>1. c \in Nat
    BY <1>3
  <2> QED
    BY <2>1, <1>1 DEF Between
<1>11. Between(d, k, E, C)
  <2>1. c \in E \ C
    BY <1>1, <1>2
  <2>2. \A m \in Kids(d, c) : ~(m < k) /\ m \notin E
    BY <1>4, <1>5, <1>6, <1>7
  <2> QED
    BY <2>1, <2>2, <1>6 DEF Between
<1>12. Marked(d, E, C)
  <2>1. 1 \in E \ C /\ C \subseteq E /\ E \subseteq Reach(d)
    BY <1>1, <1>2
  <2>2. \A n \in E \ C : n # 1 => Between(d, n, E, C)
    BY <1>9, <1>10
  <2> HIDE DEF E
  <2> QED
    BY <2>1, <2>2, <1>2, <1>8 DEF Marked
<1>13. Place(d, k, FALSE, E, C)
  BY <1>5, <1>6, <1>7, <1>11 DEF Place
<1> QED
  BY <1>12, <1>13 DEF k

\* ... or, when its children have been seen, to the next node or up.
LEMMA WalkOn ==
    ASSUME NEW d, DocumentType(d), NEW D, NEW C, Marked(d, D, C), NEW c, NEW b, Place(d, c, b, D, C), c # 1,
           b \/ Kids(d, c) = {}
    PROVE  LET later == {m \in Kids(d, d.parent[c]) : m > c}
           IN  /\ Marked(d, D \cup {c}, C \cup {c})
               /\ later # {} => Place(d, Min(later), FALSE, D \cup {c}, C \cup {c})
               /\ later = {} => Place(d, d.parent[c], TRUE, D \cup {c}, C \cup {c})
<1> DEFINE E == D \cup {c}
           F == C \cup {c}
           q == d.parent[c]
           later == {m \in Kids(d, q) : m > c}
<1>1. c \in Reach(d) /\ Between(d, c, D, C) /\ Kids(d, c) \subseteq C /\ c \notin C
  <2>1. C \subseteq D
    BY DEF Marked
  <2> QED
    BY <2>1 DEF Place
<1>2. /\ 1 \in D \ C /\ C \subseteq D /\ D \subseteq Reach(d)
      /\ \A n \in C : Kids(d, n) \subseteq C
      /\ \A n \in Reach(d) \ D : Kids(d, n) \cap D = {}
      /\ \A n \in D \ C : n # 1 => Between(d, n, D, C)
  BY DEF Marked
<1>3. c \in DOMAIN d.parent /\ c \in Kids(d, q) /\ DOMAIN d.parent \subseteq Nat /\ c \in Nat
  BY <1>1, DocumentFacts
<1>4. q \in D \ C /\ q # c /\ q \in Reach(d)
  <2>1. q < c
    BY <1>3, DocumentFacts
  <2>2. q \in D \ C
    BY <1>1 DEF Between
  <2> QED
    BY <2>1, <2>2, <1>2, <1>3
<1>5. q \in Nat /\ Kids(d, q) \subseteq Reach(d) /\ 1 \notin Kids(d, q) /\ Kids(d, q) \subseteq Nat
  <2>1. Kids(d, q) \subseteq DOMAIN d.parent
    BY DEF Kids
  <2> QED
    BY <2>1, <1>3, <1>4, DocumentFacts
<1>6. \A n \in Reach(d) \ E : Kids(d, n) \cap E = {}
  <2> SUFFICES ASSUME NEW n \in Reach(d) \ E, c \in Kids(d, n) PROVE FALSE
    BY <1>2
  <2>1. q = n
    BY DEF Kids
  <2> QED
    BY <2>1, <1>4
<1>7. ASSUME NEW n \in E \ F, n # 1 PROVE Between(d, n, E, F)
  <2>1. n \in D \ C /\ n # c /\ Between(d, n, D, C)
    BY <1>2, <1>7
  <2>2. n \in Nat /\ n \in Kids(d, d.parent[n])
    BY <2>1, <1>2, <1>3, <1>7, DocumentFacts
  <2>3. d.parent[n] # c
    BY <2>1, <2>2, <1>1
  <2>4. ~(c \in Kids(d, d.parent[n]) /\ c > n)
    <3> SUFFICES ASSUME c \in Kids(d, d.parent[n]), c > n PROVE FALSE
      OBVIOUS
    <3>1. q = d.parent[n]
      BY DEF Kids
    <3>2. n < c
      BY <2>2, <1>3
    <3> QED
      BY <3>1, <3>2, <2>1, <2>2, <1>1 DEF Between
  <2> QED
    BY <2>1, <2>3, <2>4 DEF Between
<1>8. Marked(d, E, F)
  <2>1. 1 \in E \ F /\ F \subseteq E /\ E \subseteq Reach(d)
    BY <1>1, <1>2
  <2>2. \A n \in F : Kids(d, n) \subseteq F
    BY <1>1, <1>2
  <2> HIDE DEF E, F
  <2> QED
    BY <2>1, <2>2, <1>6, <1>7 DEF Marked
<1>9. q \in E \ F
  BY <1>4
<1>10. \A m \in Kids(d, q) : (m < c => m \in C) /\ (m > c => m \notin D) /\ m \in Nat
  BY <1>1, <1>5 DEF Between
<1>11. ASSUME later # {} PROVE Place(d, Min(later), FALSE, E, F)
  <2> DEFINE k == Min(later)
  <2>1. later \subseteq Nat
    BY <1>5
  <2>2. k \in later /\ \A y \in later : k <= y
    <3> HIDE DEF later
    <3> QED
      BY <2>1, <1>11, MinFacts
  <2> HIDE DEF k
  <2>3. k \in Kids(d, q) /\ k > c /\ k \in Nat /\ k \in Reach(d) /\ k # 1 /\ d.parent[k] = q
    <3>1. k \in Kids(d, q) /\ k > c
      BY <2>2
    <3>2. d.parent[k] = q
      BY <3>1 DEF Kids
    <3> QED
      BY <3>1, <3>2, <1>5
  <2>4. ASSUME NEW m \in Kids(d, q) PROVE (m < k => m \in F) /\ (m > k => m \notin E)
    <3>1. m \in Nat /\ (m < c => m \in C) /\ (m > c => m \notin D) /\ (m > c => k <= m)
      BY <2>2, <1>10
    <3> QED
      BY <3>1, <2>3, <1>3
  <2>5. k \notin E
    BY <2>3, <1>3, <1>10
  <2>6. Between(d, k, E, F)
    <3> HIDE DEF E, F
    <3> QED
      BY <2>3, <2>4, <1>9 DEF Between
  <2>7. Place(d, k, FALSE, E, F)
    BY <2>3, <2>5, <2>6 DEF Place
  <2> QED
    BY <2>7 DEF k
<1>12. ASSUME later = {} PROVE Place(d, q, TRUE, E, F)
  <2>1. Kids(d, q) \subseteq F
    <3> SUFFICES ASSUME NEW m \in Kids(d, q) PROVE m \in F
      OBVIOUS
    <3>1. ~(m > c)
      BY <1>12
    <3> QED
      BY <3>1, <1>3, <1>10
  <2>2. CASE q = 1
    BY <2>1, <2>2 DEF Place
  <2>3. CASE q # 1
    <3>1. Between(d, q, E, F)
      BY <2>3, <1>7, <1>9
    <3> HIDE DEF E, F
    <3> QED
      BY <3>1, <2>1, <2>3, <1>4, <1>9 DEF Place
  <2> QED
    BY <2>2, <2>3
<1> QED
  BY <1>8, <1>11, <1>12

\* Back at the root, all of them have been seen.
LEMMA WalkOver ==
    ASSUME NEW d, DocumentType(d), NEW D, NEW C, Marked(d, D, C), NEW b, Place(d, 1, b, D, C)
    PROVE  D = Reach(d)
<1>1. /\ Kids(d, 1) \subseteq C
      /\ 1 \in D \ C /\ C \subseteq D /\ D \subseteq Reach(d)
      /\ \A n \in C : Kids(d, n) \subseteq C
      /\ \A n \in D \ C : n # 1 => Between(d, n, D, C)
  BY DEF Marked, Place
<1>2. D \ C \subseteq {1}
  <2> DEFINE T == (D \ C) \ {1}
  <2> SUFFICES ASSUME T # {} PROVE FALSE
    OBVIOUS
  <2>1. T \subseteq Nat
    BY <1>1, DocumentFacts
  <2>2. PICK x \in T : \A y \in T : x <= y
    <3> HIDE DEF T
    <3> QED
      BY <2>1, LeastNat
  <2>3. d.parent[x] \in D \ C /\ x \in Kids(d, d.parent[x])
    BY <1>1, DocumentFacts DEF Between
  <2>4. d.parent[x] < x /\ d.parent[x] \in Nat /\ x \in Nat
    BY <1>1, DocumentFacts
  <2>5. d.parent[x] = 1
    BY <2>2, <2>3, <2>4
  <2> QED
    BY <2>3, <2>5, <1>1
<1>3. Reach(d) \subseteq D
  <2> DEFINE T == Reach(d) \ D
  <2> SUFFICES ASSUME T # {} PROVE FALSE
    OBVIOUS
  <2>1. T \subseteq Nat
    BY DocumentFacts
  <2>2. PICK x \in T : \A y \in T : x <= y
    <3> HIDE DEF T
    <3> QED
      BY <2>1, LeastNat
  <2> DEFINE q == d.parent[x]
  <2>3. x \in DOMAIN d.parent /\ x # 1 /\ x \in Kids(d, q) /\ q \in DOMAIN d.parent /\ q < x /\ q \in Nat /\ x \in Nat
        /\ d.kind[q] = "element"
    BY <1>1, DocumentFacts DEF Reach
  <2>4. q \in Reach(d)
    BY <2>3, ElementReached
  <2>5. q \in D
    BY <2>2, <2>3, <2>4
  <2> QED
    BY <2>3, <2>5, <1>1, <1>2
<1> QED
  BY <1>1, <1>3

\* Every text is the business of one node that the walk is for.
LEMMA OwnFacts ==
    ASSUME NEW d, DocumentType(d)
    PROVE  /\ \A n, p \in Reach(d) : \A m : m \in Own(d, n) /\ m \in Own(d, p) => n = p
           /\ \A m \in DOMAIN d.parent : (\E n \in Reach(d) : m \in Own(d, n)) <=> d.kind[m] = "text"
<1>1. /\ d.kind[1] = "element"
      /\ \A n \in DOMAIN d.parent : n # 1 =>
            /\ d.parent[n] \in DOMAIN d.parent
            /\ d.kind[n] = "attribute" => d.kind[d.parent[n]] = "element"
            /\ d.kind[d.parent[n]] \in {"element", "attribute"}
  BY DocumentFacts DEF DocumentType
<1>2. \A n \in Reach(d) : n \in DOMAIN d.parent /\ (d.kind[n] = "text" => d.kind[d.parent[n]] # "attribute")
  BY <1>1 DEF Reach
<1>3. ASSUME NEW n \in Reach(d), NEW p \in Reach(d), NEW m, m \in Own(d, n), m \in Own(d, p) PROVE n = p
  BY <1>2, <1>3 DEF Own
<1>4. ASSUME NEW m \in DOMAIN d.parent, d.kind[m] = "text" PROVE \E n \in Reach(d) : m \in Own(d, n)
  <2>1. m # 1 /\ d.parent[m] \in DOMAIN d.parent
    BY <1>1, <1>4
  <2>2. CASE d.kind[d.parent[m]] = "element"
    <3>1. m \in Reach(d) /\ m \in Own(d, m)
      BY <2>2, <1>4 DEF Reach, Own
    <3> QED
      BY <3>1
  <2>3. CASE d.kind[d.parent[m]] = "attribute"
    <3> DEFINE a == d.parent[m]
               n == d.parent[a]
    <3>1. a # 1 /\ n \in DOMAIN d.parent /\ d.kind[n] = "element"
      BY <2>1, <2>3, <1>1
    <3>2. n \in Reach(d)
      BY <3>1, ElementReached
    <3>3. m \in Own(d, n)
      BY <3>1, <2>3, <1>4 DEF Own
    <3> QED
      BY <3>2, <3>3
  <2> QED
    BY <2>1, <2>2, <2>3, <1>1
<1>5. \A m, n : m \in Own(d, n) => d.kind[m] = "text"
  BY DEF Own
<1> QED
  BY <1>3, <1>4, <1>5

\* The texts of the copy when the nodes of D have been seen.
TextsAt(d, e, D) ==
    [m \in DOMAIN d.parent |-> IF \E n \in D : m \in Own(d, n) THEN e[m] ELSE d.text[m]]

LEMMA OneMoreNode ==
    ASSUME NEW d, DocumentType(d), NEW e, NEW D, D \subseteq Reach(d), NEW c \in Reach(d)
    PROVE  /\ c \in D => TextsAt(d, e, D \cup {c}) = TextsAt(d, e, D)
           /\ c \notin D =>
                /\ TextsAt(d, e, D \cup {c}) =
                       [m \in DOMAIN d.parent |-> IF m \in Own(d, c) THEN e[m] ELSE TextsAt(d, e, D)[m]]
                /\ \A m \in DOMAIN d.parent : m \in Own(d, c) => TextsAt(d, e, D)[m] = d.text[m]
<1> DEFINE N == DOMAIN d.parent
           E == D \cup {c}
<1>1. \A m \in N : TextsAt(d, e, D)[m] = IF \E n \in D : m \in Own(d, n) THEN e[m] ELSE d.text[m]
  BY DEF TextsAt
<1>2. CASE c \in D
  <2>1. E = D
    BY <1>2
  <2> QED
    BY <2>1, <1>2
<1>3. CASE c \notin D
  <2>1. \A m \in N : m \in Own(d, c) => ~\E n \in D : m \in Own(d, n)
    BY <1>3, OwnFacts
  <2>2. \A m \in N : m \in Own(d, c) => TextsAt(d, e, D)[m] = d.text[m]
    BY <2>1, <1>1
  <2>3. ASSUME NEW m \in N
        PROVE  (IF \E n \in E : m \in Own(d, n) THEN e[m] ELSE d.text[m])
                 = (IF m \in Own(d, c) THEN e[m] ELSE TextsAt(d, e, D)[m])
    BY <1>1
  <2>4. TextsAt(d, e, E) = [m \in N |-> IF m \in Own(d, c) THEN e[m] ELSE TextsAt(d, e, D)[m]]
    BY <2>3 DEF TextsAt
  <2> QED
    BY <2>2, <2>4, <1>3
<1> QED
  BY <1>2, <1>3

-----------------------------------------------------------------------------
(* replaceInString *)

\* All of them are strings: the provers do not know it of a literal.
Symbols == STRING \cup {"Workgroup", "Domain", "WORKGROUP", "/", ":"}

LEMMA TextOfSymbols == Seq(STRING) \subseteq Seq(Symbols)
<1>1. STRING \subseteq Symbols
  BY DEF Symbols
<1> SUFFICES ASSUME NEW v \in Seq(STRING) PROVE v \in Seq(Symbols)
  OBVIOUS
<1>2. Len(v) \in Nat /\ v \in [1..Len(v) -> STRING]
  OBVIOUS
<1>3. v \in [1..Len(v) -> Symbols]
  BY <1>1, <1>2
<1> QED
  BY <1>2, <1>3

LEMMA DollarsFacts ==
    ASSUME NEW s
    PROVE  /\ Dollars(s, 1) = 0
           /\ \A n \in Nat : n >= 1 => Dollars(s, n) \in Nat
           /\ \A n \in Nat : n >= 1 => Dollars(s, n + 1) = IF s[n] = "$" THEN Dollars(s, n) + 1 ELSE 0
<1> DEFINE T(i) == {k \in 0 .. i - 1 : \A j \in i - k .. i - 1 : s[j] = "$"}
<1>1. ASSUME NEW i \in Nat, i >= 1
      PROVE  Dollars(s, i) \in T(i) /\ \A y \in T(i) : Dollars(s, i) >= y
  <2>1. 0 \in T(i) /\ T(i) \subseteq 0 .. i - 1 /\ i - 1 \in Nat
    BY <1>1
  <2>2. Dollars(s, i) = Max(T(i))
    BY DEF Dollars
  <2> HIDE DEF T
  <2>3. T(i) # {}
    BY <2>1
  <2>4. Max(T(i)) \in T(i) /\ \A y \in T(i) : Max(T(i)) >= y
    BY <2>1, <2>3, MaxFacts
  <2> QED
    BY <2>2, <2>4
<1>2. ASSUME NEW i \in Nat, i >= 1 PROVE Dollars(s, i) \in 0 .. i - 1
  BY <1>1, <1>2
<1>3. Dollars(s, 1) = 0
  BY <1>2
<1>4. ASSUME NEW n \in Nat, n >= 1, s[n] = "$" PROVE Dollars(s, n + 1) = Dollars(s, n) + 1
  <2> DEFINE x == Dollars(s, n)
             z == Dollars(s, n + 1)
  <2>1. x \in 0 .. n - 1 /\ (\A j \in n - x .. n - 1 : s[j] = "$") /\ \A y \in T(n) : x >= y
    BY <1>1, <1>4
  <2>2. z \in 0..n /\ (\A j \in (n + 1) - z .. n : s[j] = "$") /\ \A y \in T(n + 1) : z >= y
    <3>1. n + 1 \in Nat /\ n + 1 >= 1 /\ (n + 1) - 1 = n
      OBVIOUS
    <3> QED
      BY <3>1, <1>1
  <2> HIDE DEF x, z
  <2>3. x + 1 \in T(n + 1)
    <3>1. x + 1 \in 0 .. (n + 1) - 1
      BY <2>1
    <3>2. ASSUME NEW j \in (n + 1) - (x + 1) .. (n + 1) - 1 PROVE s[j] = "$"
      <4>1. j \in n - x .. n - 1 \/ j = n
        BY <2>1
      <4> QED
        BY <4>1, <2>1, <1>4
    <3> QED
      BY <3>1, <3>2
  <2>4. z >= x + 1
    BY <2>2, <2>3
  <2>5. z - 1 \in T(n)
    <3>1. z - 1 \in 0 .. n - 1
      BY <2>1, <2>2, <2>4
    <3>2. ASSUME NEW j \in n - (z - 1) .. n - 1 PROVE s[j] = "$"
      <4>1. j \in (n + 1) - z .. n
        BY <2>2
      <4> QED
        BY <4>1, <2>2
    <3> QED
      BY <3>1, <3>2
  <2>6. x >= z - 1
    BY <2>1, <2>5
  <2>7. z = x + 1
    BY <2>1, <2>2, <2>4, <2>6
  <2> QED
    BY <2>7 DEF x, z
<1>5. ASSUME NEW n \in Nat, n >= 1, s[n] # "$" PROVE Dollars(s, n + 1) = 0
  <2> DEFINE z == Dollars(s, n + 1)
  <2>1. z \in 0..n /\ \A j \in (n + 1) - z .. n : s[j] = "$"
    <3>1. n + 1 \in Nat /\ n + 1 >= 1 /\ (n + 1) - 1 = n
      OBVIOUS
    <3> QED
      BY <3>1, <1>1
  <2> HIDE DEF z
  <2>2. z # 0 => n \in (n + 1) - z .. n
    BY <2>1
  <2>3. z = 0
    BY <2>1, <2>2, <1>5
  <2> QED
    BY <2>3 DEF z
<1> QED
  BY <1>2, <1>3, <1>4, <1>5

\* One turn of the loop, with the values P.
Adds(P, a, c) ==
    IF a.inDollar
    THEN IF c \in DOMAIN P THEN P[c] ELSE IF c = "$" THEN <<c>> ELSE <<>>
    ELSE IF c = "$" THEN <<>> ELSE <<c>>

ReplaceStep(P, a, c) == [out |-> a.out \o Adds(P, a, c), inDollar |-> ~a.inDollar /\ c = "$"]
ReplaceStates == [out : Seq(Symbols), inDollar : BOOLEAN]
ReplaceStart  == [out |-> <<>>, inDollar |-> FALSE]

\* What becomes of the symbol at i, and of all of them.
Piece(P, s, i) ==
    IF Dollars(s, i) % 2 = 0 THEN (IF s[i] = "$" THEN <<>> ELSE <<s[i]>>)
    ELSE IF s[i] = "$" THEN <<"$">>
    ELSE IF s[i] \in DOMAIN P THEN P[s[i]]
    ELSE <<>>

Pieces(P, s) == FlattenSeq([i \in DOMAIN s |-> Piece(P, s, i)])

Values(P) == "$" \notin DOMAIN P /\ \A k \in DOMAIN P : P[k] \in Seq(Symbols)

ReplaceRuns(f, P, s) ==
    /\ f \in [0..Len(s) -> ReplaceStates] /\ f[0] = ReplaceStart
    /\ \A n \in 1..Len(s) : f[n] = ReplaceStep(P, f[n - 1], s[n])

LEMMA AddsType ==
    ASSUME NEW P, Values(P), NEW a \in ReplaceStates, NEW c \in Symbols
    PROVE  /\ Adds(P, a, c) \in Seq(Symbols) /\ ReplaceStep(P, a, c) \in ReplaceStates
           /\ ReplaceStep(P, a, c).out = a.out \o Adds(P, a, c)
           /\ ReplaceStep(P, a, c).inDollar <=> ~a.inDollar /\ c = "$"
<1>1. <<>> \in Seq(Symbols) /\ <<c>> \in Seq(Symbols)
  <2>1. <<>> \in Seq(Symbols)
    OBVIOUS
  <2>2. \A S : \A x \in S : <<x>> \in Seq(S)
    OBVIOUS
  <2> QED
    BY <2>1, <2>2
<1>2. Adds(P, a, c) \in Seq(Symbols)
  BY <1>1 DEF Adds, Values
<1> DEFINE x == Adds(P, a, c)
<1>3. a.out \in Seq(Symbols) /\ a.inDollar \in BOOLEAN
  BY DEF ReplaceStates
<1>4. ReplaceStep(P, a, c) = [out |-> a.out \o x, inDollar |-> ~a.inDollar /\ c = "$"]
  BY DEF ReplaceStep
<1> HIDE DEF x
<1>5. a.out \o x \in Seq(Symbols)
  BY <1>2, <1>3, ConcatProperties DEF x
<1>6. (~a.inDollar /\ c = "$") \in BOOLEAN
  OBVIOUS
<1>7. ReplaceStep(P, a, c) \in ReplaceStates
  BY <1>4, <1>5, <1>6 DEF ReplaceStates
<1> DEFINE y == (~a.inDollar /\ c = "$")
           z == a.out \o x
<1>8. ReplaceStep(P, a, c) = [out |-> z, inDollar |-> y]
  BY <1>4
<1> HIDE DEF y, z
<1>9. ReplaceStep(P, a, c).out = z /\ ReplaceStep(P, a, c).inDollar = y
  BY <1>8
<1>10. ReplaceStep(P, a, c).inDollar <=> y
  BY <1>9
<1> QED
  BY <1>2, <1>7, <1>9, <1>10 DEF x, y, z

LEMMA ReplaceLoop ==
    ASSUME NEW P, Values(P), NEW s \in Seq(Symbols), NEW addr, P = Placeholder(addr)
    PROVE  \E f : ReplaceRuns(f, P, s) /\ ReplaceInString(s, addr) = f[Len(s)].out
<1> DEFINE V == ReplaceStates
           N == Len(s)
           st == [n \in 1..N |-> [a \in V |-> ReplaceStep(P, a, s[n])]]
           F(f) == f = [n \in 0..N |-> IF n = 0 THEN ReplaceStart ELSE ReplaceStep(P, f[n - 1], s[n])]
           h == CHOOSE f : F(f)
<1>1. N \in Nat /\ ReplaceStart \in V /\ \A n \in 1..N : s[n] \in Symbols
  <2>1. <<>> \in Seq(Symbols)
    OBVIOUS
  <2> QED
    BY <2>1 DEF ReplaceStart, ReplaceStates
<1>2. \A n \in 1..N : \A a \in V : st[n][a] = ReplaceStep(P, a, s[n]) /\ st[n][a] \in V
  BY <1>1, AddsType
<1>3. LoopSteps(st, N, V)
  <2> HIDE DEF V
  <2>1. \A n \in 1..N : st[n] = [v \in V |-> st[n][v]]
    OBVIOUS
  <2>2. \A n \in 1..N : st[n] \in [V -> V]
    BY <2>1, <1>2
  <2>3. st = [n \in 1..N |-> st[n]]
    OBVIOUS
  <2> HIDE DEF st
  <2> QED
    BY <2>2, <2>3 DEF LoopSteps
<1> HIDE DEF st
<1>4. PICK f : LoopRuns(f, ReplaceStart, st, N, V)
  <2> HIDE DEF V, N
  <2> QED
    BY <1>1, <1>3, Recursion
<1> HIDE DEF V
<1>5. f \in [0..N -> V] /\ f[0] = ReplaceStart /\ \A n \in 1..N : f[n] = ReplaceStep(P, f[n - 1], s[n])
  <2>1. f \in [0..N -> V] /\ f[0] = ReplaceStart /\ \A n \in 1..N : f[n] = st[n][f[n - 1]]
    BY <1>4 DEF LoopRuns
  <2>2. \A n \in 1..N : n - 1 \in 0..N /\ f[n - 1] \in V
    BY <2>1, <1>1
  <2> QED
    BY <2>1, <2>2, <1>2
<1>6. F(f)
  <2>1. f = [n \in 0..N |-> f[n]]
    BY <1>5
  <2>2. \A n \in 0..N : n = 0 \/ n \in 1..N
    BY <1>1
  <2>3. \A n \in 0..N : f[n] = IF n = 0 THEN ReplaceStart ELSE ReplaceStep(P, f[n - 1], s[n])
    BY <2>2, <1>5
  <2> QED
    BY <2>1, <2>3
<1>7. F(h)
  <2> HIDE DEF F
  <2> QED
    BY <1>6
<1>8. ReplaceInString(s, addr) = h[N].out
  BY DEF ReplaceInString, ReplaceStep, ReplaceStart, Adds
<1> HIDE DEF h
<1>9. h[N] = f[N]
  <2>1. h[0] = ReplaceStart /\ \A n \in 1..N : h[n] = ReplaceStep(P, h[n - 1], s[n])
    <3>1. \A n \in 0..N : h[n] = IF n = 0 THEN ReplaceStart ELSE ReplaceStep(P, h[n - 1], s[n])
      BY <1>7
    <3>2. 0 \in 0..N /\ \A n \in 1..N : n \in 0..N /\ n # 0
      BY <1>1
    <3> QED
      BY <3>1, <3>2
  <2>2. Agrees(h, f, N)
    BY <2>1, <1>5 DEF Agrees
  <2> HIDE DEF N
  <2> QED
    BY <2>2, <1>1, SameLoop
<1>10. ReplaceRuns(f, P, s)
  BY <1>5 DEF ReplaceRuns, V
<1> QED
  BY <1>8, <1>9, <1>10

\* The loop computes what becomes of the symbols one by one.
LEMMA Replaced ==
    ASSUME NEW P, Values(P), NEW s \in Seq(Symbols), NEW addr, P = Placeholder(addr)
    PROVE  ReplaceInString(s, addr) = Pieces(P, s) /\ Pieces(P, s) \in Seq(Symbols)
<1> DEFINE N == Len(s)
           seqs == [i \in DOMAIN s |-> Piece(P, s, i)]
<1>1. N \in Nat /\ DOMAIN s = 1..N /\ \A i \in 1..N : s[i] \in Symbols
  OBVIOUS
<1>2. PICK f : ReplaceRuns(f, P, s) /\ ReplaceInString(s, addr) = f[N].out
  BY ReplaceLoop
<1>3. /\ f \in [0..N -> ReplaceStates] /\ f[0] = ReplaceStart
      /\ \A n \in 1..N : f[n] = ReplaceStep(P, f[n - 1], s[n])
  BY <1>2 DEF ReplaceRuns
<1>4. ASSUME NEW n \in 1..N
      PROVE  /\ f[n].out = f[n - 1].out \o Adds(P, f[n - 1], s[n]) /\ f[n].out \in Seq(Symbols)
             /\ Adds(P, f[n - 1], s[n]) \in Seq(Symbols) /\ f[n - 1].out \in Seq(Symbols)
             /\ f[n].inDollar <=> ~f[n - 1].inDollar /\ s[n] = "$"
  <2>1. n - 1 \in 0..N /\ n \in 0..N /\ f[n - 1] \in ReplaceStates /\ f[n] \in ReplaceStates /\ s[n] \in Symbols
    BY <1>1, <1>3
  <2>2. f[n] = ReplaceStep(P, f[n - 1], s[n])
    BY <1>3
  <2>3. f[n - 1].out \in Seq(Symbols) /\ f[n].out \in Seq(Symbols)
    BY <2>1 DEF ReplaceStates
  <2>4. PICK a \in ReplaceStates : a = f[n - 1]
    BY <2>1
  <2>5. PICK c \in Symbols : c = s[n]
    BY <2>1
  <2>6. /\ Adds(P, a, c) \in Seq(Symbols)
        /\ ReplaceStep(P, a, c).out = a.out \o Adds(P, a, c)
        /\ ReplaceStep(P, a, c).inDollar <=> ~a.inDollar /\ c = "$"
    BY AddsType
  <2> QED
    BY <2>2, <2>3, <2>4, <2>5, <2>6
<1>5. f[0].out = <<>> /\ ~f[0].inDollar
  BY <1>3 DEF ReplaceStart
<1> DEFINE Odd(n) == n <= N => (f[n].inDollar <=> Dollars(s, n + 1) % 2 # 0)
           T == {n \in Nat : Odd(n)}
<1>6. Odd(0)
  <2>1. 0 + 1 = 1 /\ Dollars(s, 1) = 0 /\ 0 % 2 = 0
    BY DollarsFacts
  <2> QED
    BY <2>1, <1>5
<1>7. ASSUME NEW n \in Nat, Odd(n) PROVE Odd(n + 1)
  <2> SUFFICES ASSUME n + 1 <= N PROVE f[n + 1].inDollar <=> Dollars(s, (n + 1) + 1) % 2 # 0
    OBVIOUS
  <2>1. n + 1 \in 1..N /\ (n + 1) - 1 = n /\ n <= N /\ n + 1 \in Nat /\ n + 1 >= 1
    BY <1>1
  <2>2. f[n + 1].inDollar <=> ~f[n].inDollar /\ s[n + 1] = "$"
    BY <2>1, <1>4
  <2>3. Dollars(s, n + 1) \in Nat /\ Dollars(s, (n + 1) + 1) = IF s[n + 1] = "$" THEN Dollars(s, n + 1) + 1 ELSE 0
    BY <2>1, DollarsFacts
  <2>4. f[n].inDollar <=> Dollars(s, n + 1) % 2 # 0
    BY <2>1, <1>7
  <2>5. \A x \in Nat : (x + 1) % 2 # 0 <=> x % 2 = 0
    OBVIOUS
  <2>6. 0 % 2 = 0
    OBVIOUS
  <2> QED
    BY <2>2, <2>3, <2>4, <2>5, <2>6
<1>8. \A n \in 0..N : f[n].inDollar <=> Dollars(s, n + 1) % 2 # 0
  <2> HIDE DEF Odd
  <2>1. T \subseteq Nat /\ 0 \in T /\ \A n \in T : n + 1 \in T
    BY <1>6, <1>7
  <2> HIDE DEF T
  <2>2. T = Nat
    BY <2>1, AllNat
  <2>3. \A n \in 0..N : n \in Nat /\ n <= N
    BY <1>1
  <2> QED
    BY <2>2, <2>3 DEF T, Odd
<1>9. ASSUME NEW n \in 1..N PROVE Adds(P, f[n - 1], s[n]) = Piece(P, s, n)
  <2>1. n - 1 \in 0..N /\ (n - 1) + 1 = n
    BY <1>1
  <2>2. f[n - 1].inDollar <=> Dollars(s, n) % 2 # 0
    BY <2>1, <1>8
  <2>3. s[n] = "$" => s[n] \notin DOMAIN P
    BY DEF Values
  <2> QED
    BY <2>2, <2>3 DEF Adds, Piece
<1>10. \A n \in 1..N : seqs[n] = Piece(P, s, n) /\ seqs[n] \in Seq(Symbols)
  BY <1>1, <1>4, <1>9
<1>11. seqs = [i \in 1..N |-> seqs[i]]
  BY <1>1
<1>12. Pieces(P, s) = FlattenSeq(seqs)
  BY DEF Pieces
<1> HIDE DEF seqs
<1>13. seqs \in Seq(Seq(Symbols)) /\ Len(seqs) = N
  <2>1. seqs \in [1..N -> Seq(Symbols)]
    BY <1>10, <1>11
  <2> HIDE DEF N
  <2>2. seqs \in Seq(Seq(Symbols))
    BY <2>1, <1>1
  <2> QED
    BY <2>1, <2>2, <1>1
<1>14. CASE N = 0
  <2>1. FlattenSeq(seqs) = seqs /\ seqs = <<>>
    <3>1. seqs = <<>>
      BY <1>13, <1>14
    <3> QED
      BY <3>1, <1>13, <1>14 DEF FlattenSeq
  <2>2. f[N].out = <<>>
    BY <1>5, <1>14
  <2>3. <<>> \in Seq(Symbols)
    OBVIOUS
  <2> QED
    BY <2>1, <2>2, <2>3, <1>2, <1>12
<1>15. CASE N # 0
  <2>1. PICK g : g[1] = seqs[1] /\ (\A i \in 2..N : g[i] = g[i - 1] \o seqs[i]) /\ FlattenSeq(seqs) = g[N]
    BY <1>13, <1>15, Flattened
  <2> DEFINE Same(n) == n + 1 <= N => g[n + 1] = f[n + 1].out
             U == {n \in Nat : Same(n)}
  <2>2. Same(0)
    <3>1. 1 \in 1..N /\ 1 - 1 = 0 /\ 0 + 1 = 1
      BY <1>1, <1>15
    <3>2. f[1].out = <<>> \o seqs[1] /\ seqs[1] \in Seq(Symbols)
      <4>1. f[1].out = f[1 - 1].out \o Adds(P, f[1 - 1], s[1])
        BY <3>1, <1>4
      <4>2. Adds(P, f[1 - 1], s[1]) = seqs[1] /\ seqs[1] \in Seq(Symbols)
        BY <3>1, <1>9, <1>10
      <4>3. f[1 - 1].out = <<>>
        BY <1>5
      <4> QED
        BY <4>1, <4>2, <4>3
    <3>3. <<>> \o seqs[1] = seqs[1]
      BY <3>2, ConcatEmptySeq
    <3> QED
      BY <3>1, <3>2, <3>3, <2>1
  <2>3. ASSUME NEW n \in Nat, Same(n) PROVE Same(n + 1)
    <3> SUFFICES ASSUME (n + 1) + 1 <= N PROVE g[(n + 1) + 1] = f[(n + 1) + 1].out
      OBVIOUS
    <3>1. (n + 1) + 1 \in 2..N /\ (n + 1) + 1 \in 1..N /\ ((n + 1) + 1) - 1 = n + 1 /\ n + 1 <= N
      BY <1>1
    <3>2. f[(n + 1) + 1].out = f[n + 1].out \o seqs[(n + 1) + 1]
      BY <3>1, <1>4, <1>9, <1>10
    <3>3. g[(n + 1) + 1] = g[n + 1] \o seqs[(n + 1) + 1]
      BY <3>1, <2>1
    <3> QED
      BY <3>1, <3>2, <3>3, <2>3
  <2> HIDE DEF Same
  <2>4. U \subseteq Nat /\ 0 \in U /\ \A n \in U : n + 1 \in U
    BY <2>2, <2>3
  <2> HIDE DEF U
  <2>5. U = Nat
    BY <2>4, AllNat
  <2>6. N - 1 \in U /\ (N - 1) + 1 <= N /\ (N - 1) + 1 = N /\ N \in 1..N
    BY <1>1, <1>15, <2>5
  <2>7. g[N] = f[N].out
    BY <2>6 DEF U, Same
  <2>8. f[N].out \in Seq(Symbols)
    BY <2>6, <1>4
  <2> QED
    BY <2>1, <2>7, <2>8, <1>2, <1>12
<1> QED
  BY <1>14, <1>15

-----------------------------------------------------------------------------
(* The values of the placeholders *)

Typed(v) ==
    /\ v.memberOf[1] \in Symbols /\ v.memberOf[2] \in Seq(Symbols)
    /\ v.hostName \in Seq(Symbols) /\ v.description \in Seq(Symbols)

LEMMA FlatType ==
    ASSUME NEW S, NEW seqs \in Seq(Seq(S)), Len(seqs) # 0
    PROVE  FlattenSeq(seqs) \in Seq(S)
<1> DEFINE N == Len(seqs)
<1>1. PICK f : /\ f[1] = seqs[1] /\ (\A i \in 2..N : f[i] = f[i - 1] \o seqs[i]) /\ FlattenSeq(seqs) = f[N]
  BY Flattened
<1>2. N \in Nat /\ \A i \in 1..N : seqs[i] \in Seq(S)
  OBVIOUS
<1> DEFINE Q(n) == n + 1 <= N => f[n + 1] \in Seq(S)
           T == {n \in Nat : Q(n)}
<1>3. Q(0)
  BY <1>1, <1>2
<1>4. ASSUME NEW n \in Nat, Q(n) PROVE Q(n + 1)
  <2> SUFFICES ASSUME (n + 1) + 1 <= N PROVE f[(n + 1) + 1] \in Seq(S)
    OBVIOUS
  <2>1. (n + 1) + 1 \in 2..N /\ (n + 1) + 1 \in 1..N /\ ((n + 1) + 1) - 1 = n + 1 /\ n + 1 <= N
    BY <1>2
  <2>2. f[n + 1] \in Seq(S) /\ seqs[(n + 1) + 1] \in Seq(S)
    BY <2>1, <1>2, <1>4
  <2>3. f[(n + 1) + 1] = f[n + 1] \o seqs[(n + 1) + 1]
    BY <2>1, <1>1
  <2> QED
    BY <2>2, <2>3, ConcatProperties
<1> HIDE DEF Q
<1>5. T \subseteq Nat /\ 0 \in T /\ \A n \in T : n + 1 \in T
  BY <1>3, <1>4
<1> HIDE DEF T
<1>6. T = Nat
  BY <1>5, AllNat
<1>7. N - 1 \in T /\ (N - 1) + 1 <= N /\ (N - 1) + 1 = N
  BY <1>2, <1>6
<1>8. f[N] \in Seq(S)
  BY <1>2, <1>7 DEF T, Q
<1> QED
  BY <1>1, <1>8

LEMMA NormalNameType == NormalName \in Seq(STRING)
<1> DEFINE s == SimpleHostName
           u == Upper(s)
<1>1. s \in Seq(STRING)
  BY SimpleHostNameFacts
<1>2. Len(s) \in Nat /\ DOMAIN s = 1..Len(s) /\ \A i \in 1..Len(s) : s[i] \in STRING
  BY <1>1
<1> HIDE DEF s
<1>3. u \in [1..Len(s) -> STRING]
  BY <1>2, InputAssumption DEF Upper
<1>4. u \in Seq(STRING)
  <2> HIDE DEF u
  <2> QED
    BY <1>2, <1>3
<1> QED
  BY <1>1, <1>4 DEF NormalName, s

LEMMA DescribedType ==
    ASSUME NEW v \in Seq(STRING), v # <<>>
    PROVE  Described(v) \in Seq(STRING)
<1> DEFINE parts == [i \in DOMAIN v |-> IF v[i] = "%h" THEN SimpleHostName ELSE <<v[i]>>]
           N == Len(v)
<1>1. N \in Nat /\ N # 0 /\ DOMAIN v = 1..N /\ \A i \in 1..N : v[i] \in STRING
  OBVIOUS
<1>2. SimpleHostName \in Seq(STRING)
  BY SimpleHostNameFacts
<1>3. \A i \in 1..N : <<v[i]>> \in Seq(STRING)
  BY <1>1
<1>4. parts \in [1..N -> Seq(STRING)]
  BY <1>1, <1>2, <1>3
<1>5. Described(v) = IF ToSet(FlattenSeq(parts)) \cap Percent = {} THEN FlattenSeq(parts) ELSE SimpleHostName
  BY DEF Described
<1> HIDE DEF parts
<1>6. parts \in Seq(Seq(STRING)) /\ Len(parts) = N
  <2> HIDE DEF N
  <2>1. parts \in Seq(Seq(STRING))
    BY <1>4, <1>1
  <2> QED
    BY <2>1, <1>4, <1>1
<1>7. FlattenSeq(parts) \in Seq(STRING)
  BY <1>1, <1>6, FlatType
<1> QED
  BY <1>2, <1>5, <1>7

LEMMA InfoTyped ==
    ASSUME NEW m, NEW n \in Seq(Symbols), NEW t \in Seq(Symbols), m[1] \in Symbols, m[2] \in Seq(Symbols)
    PROVE  Typed(Info(m, n, t))
BY InfoFacts DEF Typed

LEMMA UsualGroup == <<"Workgroup", <<"WORKGROUP">>>>[1] \in Symbols /\ <<"Workgroup", <<"WORKGROUP">>>>[2] \in Seq(Symbols)
<1>1. "WORKGROUP" \in Symbols /\ "Workgroup" \in Symbols
  BY DEF Symbols
<1>2. \A S : \A x \in S : <<x>> \in Seq(S)
  OBVIOUS
<1>3. <<"WORKGROUP">> \in Seq(Symbols)
  BY <1>1, <1>2
<1> QED
  BY <1>1, <1>3

LEMMA FoundTyped ==
    ASSUME DetectInv, at = "found", found # <<>>
    PROVE  Typed(found[1])
<1>1. options \in Options /\ machine \in Machines
  BY DEF DetectInv, InputInv
<1>2. NormalName \in Seq(Symbols) /\ SimpleHostName \in Seq(Symbols)
  BY NormalNameType, SimpleHostNameFacts, TextOfSymbols
<1>3. CASE SambaAsked
  <2>1. PICK p : OneSource(p)
    BY <1>3 DEF DetectInv, FoundInv
  <2> DEFINE mo == IF ~Given(p["workgroup"]) THEN <<"Workgroup", <<"WORKGROUP">>>>
                   ELSE IF p["security"] \in {<<<<"domain">>>>, <<<<"ads">>>>} THEN <<"Domain", p["workgroup"][1]>>
                   ELSE <<"Workgroup", p["workgroup"][1]>>
             hn == IF UseNetbios /\ Given(p["netbios name"]) THEN p["netbios name"][1] ELSE NormalName
             de == IF Given(p["server string"]) THEN Described(p["server string"][1]) ELSE SimpleHostName
  <2>2. found[1] = Info(mo, hn, de)
    BY <2>1 DEF OneSource, SambaParamsToWinNetInfo
  <2>3. \A k \in {"workgroup", "netbios name", "server string"} :
            Given(p[k]) => p[k][1] \in Seq(STRING) /\ p[k][1] \in Seq(Symbols) /\ p[k][1] # <<>>
    BY <2>1, HelperNames, TextOfSymbols DEF OneSource, TextOrNone, Given
  <2>4. mo[1] \in Symbols /\ mo[2] \in Seq(Symbols)
    <3>1. CASE ~Given(p["workgroup"])
      BY <3>1, UsualGroup
    <3>2. CASE Given(p["workgroup"])
      <4>1. "Workgroup" \in Symbols /\ "Domain" \in Symbols
        BY DEF Symbols
      <4> QED
        BY <4>1, <3>2, <2>3
    <3> QED
      BY <3>1, <3>2
  <2>5. hn \in Seq(Symbols)
    BY <2>3, <1>2
  <2>6. de \in Seq(Symbols)
    BY <2>3, <1>2, DescribedType, TextOfSymbols
  <2> HIDE DEF mo, hn, de
  <2> QED
    BY <2>2, <2>4, <2>5, <2>6, InfoTyped
<1>4. CASE ~SambaAsked
  <2> DEFINE s == machine.store[1]
             mo == <<"Workgroup", s.workgroup[1]>>
             hn == IF UseNetbios /\ s.hostname # <<>> THEN s.hostname[1] ELSE NormalName
             de == IF s.description # <<>> THEN s.description[1] ELSE SimpleHostName
  <2>1. machine.store # <<>> /\ found = AppleInfo(s)
    BY <1>4 DEF SambaAsked, DetectInv, FoundInv
  <2>2. s.workgroup \in Seq(Seq(STRING)) /\ s.hostname \in Seq(Seq(STRING)) /\ s.description \in Seq(Seq(STRING))
    BY <2>1, <1>1, MachineAssumption
  <2> HIDE DEF s
  <2>3. s.workgroup # <<>> /\ found[1] = Info(mo, hn, de)
    BY <2>1 DEF AppleInfo
  <2>4. \A v \in Seq(Seq(STRING)) : v # <<>> => v[1] \in Seq(Symbols)
    <3>1. \A v \in Seq(Seq(STRING)) : v # <<>> => v[1] \in Seq(STRING)
      OBVIOUS
    <3> QED
      BY <3>1, TextOfSymbols
  <2>5. mo[1] \in Symbols /\ mo[2] \in Seq(Symbols)
    <3>1. "Workgroup" \in Symbols
      BY DEF Symbols
    <3> QED
      BY <3>1, <2>2, <2>3, <2>4
  <2>6. hn \in Seq(Symbols)
    BY <2>2, <2>4, <1>2
  <2>7. de \in Seq(Symbols)
    BY <2>2, <2>4, <1>2
  <2> HIDE DEF mo, hn, de
  <2> QED
    BY <2>3, <2>5, <2>6, <2>7, InfoTyped
<1> QED
  BY <1>3, <1>4

LEMMA DecidedTyped ==
    ASSUME DetectInv, Decide
    PROVE  Typed(identity[1])'
<1>1. at = "found" /\ options \in Options
  BY DEF Decide, DetectInv, InputInv
<1>2. found # <<>> => Typed(found[1])
  BY <1>1, FoundTyped
<1>3. NormalName \in Seq(Symbols) /\ SimpleHostName \in Seq(Symbols)
  BY NormalNameType, SimpleHostNameFacts, TextOfSymbols
<1> DEFINE named == Given(options.hostname)
           fd == IF found = <<>> THEN <<>> ELSE found[1].description
           mo == IF options.memberOf # <<>> THEN options.memberOf[1]
                 ELSE IF found # <<>> THEN found[1].memberOf ELSE <<"Workgroup", <<"WORKGROUP">>>>
           hn == IF named THEN options.hostname[1] ELSE IF found # <<>> THEN found[1].hostName ELSE NormalName
           de == IF fd # <<>> THEN fd ELSE IF named THEN options.hostname[1] ELSE SimpleHostName
<1>4. identity' = <<Info(mo, hn, de)>>
  BY DEF Decide
<1>5. options.hostname \in Seq(Seq(STRING)) /\ options.memberOf \in Seq(STRING \X Seq(STRING))
  BY <1>1, InputAssumption DEF OptionType
<1>6. named => options.hostname[1] \in Seq(Symbols)
  <2>1. \A v \in Seq(Seq(STRING)) : v # <<>> => v[1] \in Seq(STRING)
    OBVIOUS
  <2> QED
    BY <2>1, <1>5, TextOfSymbols DEF Given
<1>7. options.memberOf # <<>> => options.memberOf[1][1] \in Symbols /\ options.memberOf[1][2] \in Seq(Symbols)
  <2>1. \A v \in Seq(STRING \X Seq(STRING)) : v # <<>> => v[1] \in STRING \X Seq(STRING)
    OBVIOUS
  <2> QED
    BY <2>1, <1>5, TextOfSymbols DEF Symbols
<1> HIDE DEF named
<1>8. mo[1] \in Symbols /\ mo[2] \in Seq(Symbols)
  <2>1. CASE options.memberOf # <<>>
    BY <2>1, <1>7
  <2>2. CASE options.memberOf = <<>> /\ found # <<>>
    BY <2>2, <1>2 DEF Typed
  <2>3. CASE options.memberOf = <<>> /\ found = <<>>
    BY <2>3, UsualGroup
  <2> QED
    BY <2>1, <2>2, <2>3
<1>9. hn \in Seq(Symbols)
  BY <1>2, <1>3, <1>6 DEF Typed
<1>10. de \in Seq(Symbols)
  BY <1>2, <1>3, <1>6 DEF Typed
<1> HIDE DEF mo, hn, de
<1>11. Typed(Info(mo, hn, de))
  BY <1>8, <1>9, <1>10, InfoTyped
<1>12. identity'[1] = Info(mo, hn, de)
  BY <1>4
<1> QED
  BY <1>11, <1>12 DEF Typed

LEMMA PlaceholderValues ==
    ASSUME Typed(identity[1]), NEW a \in Addresses
    PROVE  Values(Placeholder(a))
<1> DEFINE id == identity[1]
           P == Placeholder(a)
<1>1. FullComputerName \in Seq(Symbols)
  <2> DEFINE h == id.hostName
             x == <<"/", id.memberOf[1], ":">>
             g == id.memberOf[2]
  <2>1. h \in Seq(Symbols) /\ g \in Seq(Symbols)
    BY DEF Typed
  <2>2. x \in Seq(Symbols)
    <3>1. id.memberOf[1] \in Symbols
      BY DEF Typed
    <3>2. \A S : \A u, v, w \in S : <<u, v, w>> \in Seq(S)
      OBVIOUS
    <3>3. "/" \in Symbols /\ ":" \in Symbols
      BY DEF Symbols
    <3> QED
      BY <3>1, <3>2, <3>3
  <2>3. FullComputerName = (h \o x) \o g
    BY DEF FullComputerName
  <2> HIDE DEF h, x, g
  <2>4. h \o x \in Seq(Symbols)
    BY <2>1, <2>2, ConcatProperties
  <2> QED
    BY <2>1, <2>3, <2>4, ConcatProperties
<1>2. EndpointId \in Seq(Symbols) /\ a \in Symbols
  BY MetadataAssumption, TextOfSymbols DEF Symbols
<1>3. <<a>> \in Seq(Symbols)
  <2>1. \A S : \A x \in S : <<x>> \in Seq(S)
    OBVIOUS
  <2> QED
    BY <2>1, <1>2
<1>4. id.description \in Seq(Symbols)
  BY DEF Typed
<1>5. DOMAIN P = {"ENDPOINT_ID", "SMB_HOST_DESCRIPTION", "SMB_FULL_HOST_NAME", "IP_ADDR"}
  BY DEF Placeholder
<1>6. /\ P["ENDPOINT_ID"] = EndpointId /\ P["SMB_HOST_DESCRIPTION"] = id.description
      /\ P["SMB_FULL_HOST_NAME"] = FullComputerName /\ P["IP_ADDR"] = <<a>>
  BY DEF Placeholder
<1> HIDE DEF P
<1>7. Values(P)
  BY <1>1, <1>2, <1>3, <1>4, <1>5, <1>6 DEF Values
<1> QED
  BY <1>7 DEF P

-----------------------------------------------------------------------------
(* The answer to a Get *)

\* What becomes of each text of the document d with the values P.
Fills(e, d, P) == e = [m \in DOMAIN d.parent |-> Pieces(P, d.text[m])]

\* The walk is somewhere, and the texts of the nodes it has seen are expanded.
Walked(d, e, tx, c, b) ==
    \E D, C : Marked(d, D, C) /\ Place(d, c, b, D, C) /\ tx = TextsAt(d, e, D)

\* What replaceInString makes of a text, and fill of the template.
Rewritten(s) == Pieces(Placeholder(address), s)

CodeFilled ==
    template # <<>> /\ reply # <<>> =>
        reply = [n \in Nodes |-> IF Doc.kind[n] = "text" THEN Rewritten(Doc.text[n]) ELSE Doc.text[n]]

FillInv ==
    /\ at \in {"decided", "serving"} => Typed(identity[1])
    /\ at # "serving" => template = <<>> /\ current = 0 /\ reply = <<>>
    /\ template # <<>> => DocumentType(Doc)
    /\ address \in Addresses
    /\ template # <<>> /\ current # 0 =>
           \E e : Fills(e, Doc, Placeholder(address)) /\ Walked(Doc, e, texts, current, back)
    /\ CodeFilled

LEMMA DocTexts ==
    ASSUME NEW d, DocumentType(d)
    PROVE  \A m \in DOMAIN d.parent : d.text[m] \in Seq(Symbols)
<1>1. d.text \in [DOMAIN d.parent -> Seq(STRING)]
  BY DEF DocumentType
<1> QED
  BY <1>1, TextOfSymbols

\* The copy is made, and its root element is rewritten.
LEMMA WalkBegins ==
    ASSUME NEW d, DocumentType(d), NEW e, NEW tx,
           tx = [m \in DOMAIN d.parent |-> IF m \in Own(d, 1) THEN e[m] ELSE d.text[m]]
    PROVE  Walked(d, e, tx, IF Kids(d, 1) = {} THEN 1 ELSE Min(Kids(d, 1)), FALSE)
<1> DEFINE c == IF Kids(d, 1) = {} THEN 1 ELSE Min(Kids(d, 1))
<1>1. 1 \in Reach(d) /\ Kids(d, 1) \subseteq Reach(d) /\ 1 \notin Kids(d, 1) /\ DOMAIN d.parent \subseteq Nat
  BY DocumentFacts
<1>2. Marked(d, {1}, {})
  <2>1. ASSUME NEW n \in Reach(d) \ {1} PROVE Kids(d, n) \cap {1} = {}
    BY DocumentFacts
  <2> QED
    BY <2>1, <1>1 DEF Marked
<1>3. Place(d, c, FALSE, {1}, {})
  <2>1. CASE Kids(d, 1) = {}
    BY <2>1 DEF Place
  <2>2. CASE Kids(d, 1) # {}
    <3>1. Kids(d, 1) \subseteq Nat
      BY <1>1 DEF Kids
    <3>2. c \in Kids(d, 1) /\ \A y \in Kids(d, 1) : c <= y
      BY <3>1, <2>2, MinFacts
    <3> HIDE DEF c
    <3>3. c # 1 /\ c \in Reach(d) /\ c \in Nat /\ d.parent[c] = 1
      BY <3>1, <3>2, <1>1 DEF Kids
    <3>4. \A m \in Kids(d, 1) : ~(m < c) /\ m # 1
      BY <3>1, <3>2, <3>3, <1>1
    <3>5. Between(d, c, {1}, {})
      BY <3>3, <3>4 DEF Between
    <3> QED
      BY <3>3, <3>5 DEF Place
  <2> QED
    BY <2>1, <2>2
<1>4. tx = TextsAt(d, e, {1})
  BY DEF TextsAt
<1> HIDE DEF c
<1>5. Walked(d, e, tx, c, FALSE)
  BY <1>2, <1>3, <1>4 DEF Walked
<1> QED
  BY <1>5 DEF c

\* One turn of the loop, where ty are the texts expanded.
Expands(d, e, tx, ty) == \A m \in DOMAIN d.parent : tx[m] = d.text[m] => ty[m] = e[m]

Turned(d, e, tx, ty, c, b) ==
    LET down  == ~b /\ Kids(d, c) # {}
        later == {m \in Kids(d, d.parent[c]) : m > c}
        next  == IF b THEN tx ELSE [m \in DOMAIN d.parent |-> IF m \in Own(d, c) THEN ty[m] ELSE tx[m]]
    IN  /\ down => Walked(d, e, next, Min(Kids(d, c)), FALSE)
        /\ ~down /\ later # {} => Walked(d, e, next, Min(later), FALSE)
        /\ ~down /\ later = {} => Walked(d, e, next, d.parent[c], TRUE)

LEMMA WalkTurn ==
    ASSUME NEW d, DocumentType(d), NEW e, NEW tx, NEW c, NEW b, Walked(d, e, tx, c, b), c # 1, NEW ty,
           Expands(d, e, tx, ty)
    PROVE  Turned(d, e, tx, ty, c, b)
<1> DEFINE down  == ~b /\ Kids(d, c) # {}
           later == {m \in Kids(d, d.parent[c]) : m > c}
           next  == IF b THEN tx ELSE [m \in DOMAIN d.parent |-> IF m \in Own(d, c) THEN ty[m] ELSE tx[m]]
<1>1. PICK D, C : Marked(d, D, C) /\ Place(d, c, b, D, C) /\ tx = TextsAt(d, e, D)
  BY DEF Walked
<1>2. c \in Reach(d) /\ D \subseteq Reach(d) /\ b \in BOOLEAN /\ (b => c \in D) /\ (~b => c \notin D)
  BY <1>1 DEF Place, Marked
<1>3. next = TextsAt(d, e, D \cup {c})
  <2>1. CASE b
    BY <2>1, <1>1, <1>2, OneMoreNode
  <2>2. CASE ~b
    <3>1. /\ TextsAt(d, e, D \cup {c}) =
                 [m \in DOMAIN d.parent |-> IF m \in Own(d, c) THEN e[m] ELSE TextsAt(d, e, D)[m]]
          /\ \A m \in DOMAIN d.parent : m \in Own(d, c) => TextsAt(d, e, D)[m] = d.text[m]
      <4>1. c \notin D
        BY <2>2, <1>2
      <4> QED
        BY ONLY <4>1, <1>2, DocumentType(d), OneMoreNode
    <3>2. \A m \in DOMAIN d.parent : m \in Own(d, c) => ty[m] = e[m]
      BY <3>1, <1>1 DEF Expands
    <3> QED
      BY <3>1, <3>2, <2>2, <1>1
  <2> QED
    BY <2>1, <2>2
<1> HIDE DEF next
<1>4. ASSUME down PROVE Walked(d, e, next, Min(Kids(d, c)), FALSE)
  <2>1. Place(d, c, FALSE, D, C) /\ Kids(d, c) # {}
    BY <1>1, <1>2, <1>4
  <2>2. Marked(d, D \cup {c}, C) /\ Place(d, Min(Kids(d, c)), FALSE, D \cup {c}, C)
    BY <2>1, <1>1, WalkDown
  <2> QED
    BY <2>2, <1>3 DEF Walked
<1>5. ASSUME ~down PROVE /\ later # {} => Walked(d, e, next, Min(later), FALSE)
                         /\ later = {} => Walked(d, e, next, d.parent[c], TRUE)
  <2>1. b \/ Kids(d, c) = {}
    BY <1>5
  <2>2. /\ Marked(d, D \cup {c}, C \cup {c})
        /\ later # {} => Place(d, Min(later), FALSE, D \cup {c}, C \cup {c})
        /\ later = {} => Place(d, d.parent[c], TRUE, D \cup {c}, C \cup {c})
    BY <2>1, <1>1, WalkOn
  <2> HIDE DEF later
  <2> QED
    BY <2>2, <1>3 DEF Walked
<1> QED
  BY <1>4, <1>5 DEF next, Turned

\* Its end.
LEMMA WalkEnds ==
    ASSUME NEW d, DocumentType(d), NEW e, NEW tx, NEW b, Walked(d, e, tx, 1, b)
    PROVE  tx = [m \in DOMAIN d.parent |-> IF d.kind[m] = "text" THEN e[m] ELSE d.text[m]]
<1>1. PICK D, C : Marked(d, D, C) /\ Place(d, 1, b, D, C) /\ tx = TextsAt(d, e, D)
  BY DEF Walked
<1>2. D = Reach(d)
  BY <1>1, WalkOver
<1>3. \A m \in DOMAIN d.parent : (\E n \in D : m \in Own(d, n)) <=> d.kind[m] = "text"
  BY <1>2, OwnFacts
<1> QED
  BY <1>1, <1>3 DEF TextsAt

\* The names of the module for the same.
LEMMA DocNames ==
    /\ Nodes = DOMAIN Doc.parent
    /\ \A n : ChildNodes(n) = Kids(Doc, n)
    /\ \A n : LaterSiblings(n) = {m \in Kids(Doc, Doc.parent[n]) : m > n}
    /\ \A n : SelfTexts(n) = Own(Doc, n)
BY DEF Nodes, ChildNodes, LaterSiblings, Kids, SelfTexts, Own

LEMMA FillGet ==
    ASSUME FillInv, NEW a \in Addresses, Get(a), UNCHANGED <<hostvars, shellvars>>
    PROVE  FillInv'
<1>1. /\ at = "serving" /\ template # <<>> /\ at' = at /\ identity' = identity /\ template' = template
      /\ address' = a /\ reply' = <<>> /\ back' = FALSE
  BY DEF Get, hostvars
<1>2. DocumentType(Doc) /\ Typed(identity[1])
  BY <1>1 DEF FillInv
<1>3. PICK d : d = Doc
  OBVIOUS
<1>4. Doc' = d /\ DocumentType(d)
  BY <1>1, <1>2, <1>3 DEF Doc
<1>5. PICK P : P = Placeholder(a)
  OBVIOUS
<1>6. Values(P)
  BY <1>2, <1>5, PlaceholderValues
<1>7. Placeholder(address)' = P
  BY <1>1, <1>5 DEF Placeholder, FullComputerName
<1>8. PICK e : Fills(e, d, P)
  BY DEF Fills
<1>9. \A m \in DOMAIN d.parent : ReplaceInString(d.text[m], a) = e[m]
  <2> SUFFICES ASSUME NEW m \in DOMAIN d.parent PROVE ReplaceInString(d.text[m], a) = e[m]
    OBVIOUS
  <2>1. d.text[m] \in Seq(Symbols)
    BY <1>4, DocTexts
  <2>2. ReplaceInString(d.text[m], a) = Pieces(P, d.text[m])
    BY <2>1, <1>5, <1>6, Replaced
  <2> QED
    BY <2>2, <1>8 DEF Fills
<1>10. texts' = [m \in DOMAIN d.parent |-> IF m \in Own(d, 1) THEN ReplaceInString(d.text[m], a) ELSE d.text[m]]
  BY <1>3, DocNames DEF Get
<1>11. texts' = [m \in DOMAIN d.parent |-> IF m \in Own(d, 1) THEN e[m] ELSE d.text[m]]
  BY <1>9, <1>10
<1>12. current' = IF Kids(d, 1) = {} THEN 1 ELSE Min(Kids(d, 1))
  BY <1>3, DocNames DEF Get
<1>13. Walked(d, e, texts', current', FALSE)
  <2>1. PICK tx : tx = texts'
    OBVIOUS
  <2>2. Walked(d, e, tx, IF Kids(d, 1) = {} THEN 1 ELSE Min(Kids(d, 1)), FALSE)
    BY <2>1, <1>4, <1>11, WalkBegins
  <2> QED
    BY <2>1, <2>2, <1>12
<1>14. CodeFilled'
  BY <1>1 DEF CodeFilled
<1>15. (\E f : Fills(f, Doc, Placeholder(address)) /\ Walked(Doc, f, texts, current, back))'
  BY <1>1, <1>4, <1>7, <1>8, <1>13
<1>16. Typed(identity[1])' /\ DocumentType(Doc)'
  BY <1>1, <1>2, <1>3, <1>4 DEF Typed
<1> QED
  BY <1>1, <1>14, <1>15, <1>16 DEF FillInv

LEMMA FillWalk ==
    ASSUME FillInv, Walk, UNCHANGED <<hostvars, shellvars>>
    PROVE  FillInv'
<1>1. /\ current > 1 /\ at' = at /\ identity' = identity /\ template' = template
      /\ address' = address /\ reply' = reply
  BY DEF Walk, hostvars
<1>2. current # 0 /\ current # 1
  BY <1>1
<1>3. CASE template = <<>>
  <2>1. at' \in {"decided", "serving"} => Typed(identity[1])'
    BY <1>1 DEF FillInv, Typed
  <2>2. at = "serving"
    BY <1>2 DEF FillInv
  <2> QED
    BY <2>1, <2>2, <1>1, <1>3 DEF FillInv, CodeFilled
<1>4. CASE template # <<>>
  <2>1. at = "serving" /\ DocumentType(Doc) /\ Typed(identity[1]) /\ address \in Addresses /\ CodeFilled
    BY <1>4 DEF FillInv
  <2>2. PICK d : d = Doc
    OBVIOUS
  <2>3. Doc' = d /\ DocumentType(d)
    BY <1>1, <2>1, <2>2 DEF Doc
  <2>4. PICK P : P = Placeholder(address)
    OBVIOUS
  <2>5. Values(P)
    BY <2>1, <2>4, PlaceholderValues
  <2>6. Placeholder(address)' = P
    BY <1>1, <2>4 DEF Placeholder, FullComputerName
  <2>7. PICK e : Fills(e, d, P) /\ Walked(d, e, texts, current, back)
    BY <1>2, <1>4, <2>2, <2>4 DEF FillInv
  <2>8. PICK tx, c, b : tx = texts /\ c = current /\ b = back
    OBVIOUS
  <2>9. PICK ty : ty = [m \in DOMAIN d.parent |-> ReplaceInString(tx[m], address)]
    OBVIOUS
  <2>10. Expands(d, e, tx, ty)
    <3> SUFFICES ASSUME NEW m \in DOMAIN d.parent, tx[m] = d.text[m] PROVE ty[m] = e[m]
      BY DEF Expands
    <3>1. d.text[m] \in Seq(Symbols)
      BY <2>3, DocTexts
    <3>2. ReplaceInString(d.text[m], address) = Pieces(P, d.text[m])
      BY <3>1, <2>4, <2>5, Replaced
    <3>3. ty[m] = ReplaceInString(d.text[m], address)
      BY <2>9
    <3> QED
      BY <3>2, <3>3, <2>7 DEF Fills
  <2> DEFINE down  == ~b /\ Kids(d, c) # {}
             later == {m \in Kids(d, d.parent[c]) : m > c}
             next  == IF b THEN tx ELSE [m \in DOMAIN d.parent |-> IF m \in Own(d, c) THEN ty[m] ELSE tx[m]]
  <2>11. /\ down => Walked(d, e, next, Min(Kids(d, c)), FALSE)
         /\ ~down /\ later # {} => Walked(d, e, next, Min(later), FALSE)
         /\ ~down /\ later = {} => Walked(d, e, next, d.parent[c], TRUE)
    <3>1. Walked(d, e, tx, c, b) /\ c # 1
      BY <2>7, <2>8, <1>2
    <3>2. Turned(d, e, tx, ty, c, b)
      BY <3>1, <2>3, <2>10, WalkTurn
    <3> QED
      BY <3>2 DEF Turned
  <2>12. texts' = next
    <3>1. Rewrite(current) = [m \in DOMAIN d.parent |-> IF m \in Own(d, c) THEN ReplaceInString(tx[m], address) ELSE tx[m]]
      BY <2>2, <2>8, DocNames DEF Rewrite
    <3>2. Rewrite(current) = [m \in DOMAIN d.parent |-> IF m \in Own(d, c) THEN ty[m] ELSE tx[m]]
      BY <3>1, <2>9
    <3> QED
      BY <3>2, <2>8 DEF Walk
  <2>13. current' = IF down THEN Min(Kids(d, c)) ELSE IF later # {} THEN Min(later) ELSE d.parent[c]
    BY <2>2, <2>8, DocNames DEF Walk, Down
  <2>14. back' = (~down /\ later = {})
    BY <2>2, <2>8, DocNames DEF Walk, Down
  <2> HIDE DEF down, later, next
  <2>15. back' = IF ~down /\ later = {} THEN TRUE ELSE FALSE
    BY <2>14
  <2>16. Walked(d, e, texts', current', back')
    <3>1. CASE down
      BY <3>1, <2>11, <2>12, <2>13, <2>15
    <3>2. CASE ~down /\ later # {}
      BY <3>2, <2>11, <2>12, <2>13, <2>15
    <3>3. CASE ~down /\ later = {}
      BY <3>3, <2>11, <2>12, <2>13, <2>15
    <3> QED
      BY <3>1, <3>2, <3>3
  <2>17. (\E f : Fills(f, Doc, Placeholder(address)) /\ Walked(Doc, f, texts, current, back))'
    BY <2>3, <2>6, <2>7, <2>16
  <2>18. CodeFilled'
    BY <1>1, <2>1 DEF CodeFilled, Nodes, Doc, Rewritten, Placeholder, FullComputerName
  <2>19. Typed(identity[1])' /\ DocumentType(Doc)'
    BY <1>1, <2>1, <2>2, <2>3 DEF Typed
  <2> QED
    BY <2>1, <2>17, <2>18, <2>19, <1>1 DEF FillInv
<1> QED
  BY <1>3, <1>4

LEMMA FillReply ==
    ASSUME FillInv, Reply, UNCHANGED <<hostvars, shellvars>>
    PROVE  FillInv'
<1>1. /\ current = 1 /\ current' = 0 /\ reply' = texts /\ at' = at /\ identity' = identity
      /\ template' = template /\ address' = address
  BY DEF Reply, hostvars
<1>2. at = "serving" /\ Typed(identity[1]) /\ address \in Addresses
  BY <1>1 DEF FillInv
<1>3. Typed(identity[1])' /\ (template' # <<>> => DocumentType(Doc)')
  BY <1>1, <1>2 DEF Typed, FillInv, Doc
<1>4. CodeFilled'
  <2> SUFFICES ASSUME template # <<>> PROVE CodeFilled'
    BY <1>1 DEF CodeFilled
  <2>1. DocumentType(Doc)
    BY DEF FillInv
  <2>2. PICK d, P, b : d = Doc /\ P = Placeholder(address) /\ b = back
    OBVIOUS
  <2>3. PICK e : Fills(e, d, P) /\ Walked(d, e, texts, 1, b)
    BY <1>1, <2>2 DEF FillInv
  <2>4. texts = [m \in DOMAIN d.parent |-> IF d.kind[m] = "text" THEN e[m] ELSE d.text[m]]
    <3>1. PICK tx : tx = texts
      OBVIOUS
    <3> QED
      BY <3>1, <2>1, <2>2, <2>3, WalkEnds
  <2>5. \A s : Rewritten(s) = Pieces(P, s)
    BY <2>2 DEF Rewritten
  <2>6. texts = [n \in Nodes |-> IF Doc.kind[n] = "text" THEN Rewritten(Doc.text[n]) ELSE Doc.text[n]]
    BY <2>2, <2>3, <2>4, <2>5 DEF Nodes, Fills
  <2>7. \A s : Rewritten(s)' = Rewritten(s)
    BY <1>1 DEF Rewritten, Placeholder, FullComputerName
  <2>8. Doc' = Doc /\ Nodes' = Nodes
    BY <1>1 DEF Doc, Nodes
  <2> QED
    BY <2>6, <2>7, <2>8, <1>1 DEF CodeFilled
<1> QED
  BY <1>1, <1>2, <1>3, <1>4 DEF FillInv

\* Before there is a template nothing is answered; the identity is as it was decided.
LEMMA FillBefore ==
    ASSUME FillInv, UNCHANGED metavars, at # "serving", at' # "serving",
           at' = "decided" => Typed(identity[1])'
    PROVE  FillInv'
<1>1. template' = template /\ current' = current /\ reply' = reply /\ address' = address
  BY DEF metavars
<1>2. template = <<>> /\ current = 0 /\ reply = <<>> /\ address \in Addresses
  BY DEF FillInv
<1> QED
  BY <1>1, <1>2 DEF FillInv, CodeFilled

LEMMA FillUnchanged ==
    ASSUME FillInv, UNCHANGED hostvars, UNCHANGED metavars
    PROVE  FillInv'
<1>1. at' = at /\ identity' = identity
  BY DEF hostvars
<1>2. /\ template' = template /\ address' = address /\ texts' = texts /\ current' = current /\ back' = back
      /\ reply' = reply
  BY DEF metavars
<1>3. Doc' = Doc /\ Nodes' = Nodes /\ Placeholder(address)' = Placeholder(address)
  BY <1>1, <1>2 DEF Doc, Nodes, Placeholder, FullComputerName
<1>4. CodeFilled'
  <2>1. \A s : Rewritten(s)' = Rewritten(s)
    BY <1>1, <1>2 DEF Rewritten, Placeholder, FullComputerName
  <2> QED
    BY <2>1, <1>2, <1>3 DEF FillInv, CodeFilled
<1>5. Typed(identity[1])' <=> Typed(identity[1])
  BY <1>1 DEF Typed
<1> QED
  BY <1>1, <1>2, <1>3, <1>4, <1>5 DEF FillInv

LEMMA FillStep ==
    ASSUME FillInv, DetectInv, [MNext]_mvars
    PROVE  FillInv'
<1>1. CASE UNCHANGED mvars
  BY <1>1, FillUnchanged DEF mvars
<1>2. CASE HNext /\ UNCHANGED metavars
  <2>1. CASE UNCHANGED hostvars
    BY <2>1, <1>2, FillUnchanged
  <2>2. CASE Decide
    <3>1. at # "serving" /\ at' # "serving"
      BY <2>2 DEF Decide
    <3> QED
      BY <3>1, <2>2, <1>2, DecidedTyped, FillBefore
  <2>3. CASE UseGivenConf \/ NoSamba \/ SambaEnds \/ ReadConf \/ NoTestParm \/ DetectApple \/ (\E out, code : RunSamba(out, code))
             \/ \E k \in Keys : TestParmEnds(k)
    <3>1. at # "serving" /\ at' \notin {"serving", "decided"}
      <4>1. CASE UseGivenConf \/ NoSamba \/ SambaEnds \/ NoTestParm \/ DetectApple \/ (\E out, code : RunSamba(out, code))
        BY <4>1, HelperNames DEF UseGivenConf, NoSamba, SambaEnds, NoTestParm, DetectApple, RunSamba, Detects
      <4>2. CASE ReadConf
        <5>1. at = "conf" /\ at' \in {"found", Parameters[1]} /\ 1 \in 1..4
          BY <4>2 DEF ReadConf
        <5> QED
          BY <5>1, ParameterNames, HelperNames
      <4>3. ASSUME NEW k \in Keys, TestParmEnds(k) PROVE at # "serving" /\ at' \notin {"serving", "decided"}
        <5>1. PICK i \in 1..4 : k = Parameters[i]
          BY ParameterNames
        <5>2. at = k /\ at' \in {"found", NextQuestion(k)}
          BY <4>3 DEF TestParmEnds
        <5>3. NextQuestion(k) = IF i = 4 THEN "found" ELSE Parameters[i + 1]
          BY <5>1, EarlierFacts
        <5>4. i # 4 => i + 1 \in 1..4
          OBVIOUS
        <5>5. NextQuestion(k) = "found" \/ NextQuestion(k) \in Keys
          BY <5>3, <5>4, ParameterNames
        <5> QED
          BY <5>2, <5>5, HelperNames
      <4> QED
        BY <4>1, <4>2, <4>3, <2>3
    <3> QED
      BY <3>1, <1>2, FillBefore
  <2> QED
    <3>1. \/ UseGivenConf \/ NoSamba \/ SambaEnds \/ UNCHANGED hostvars \/ ReadConf \/ NoTestParm \/ DetectApple \/ Decide
          \/ (\E h \in Helpers : Runs(h)) \/ (\E k \in Keys : TestParmEnds(k))
      BY <1>2 DEF HNext
    <3>2. (\E h \in Helpers : Runs(h)) => UNCHANGED hostvars \/ \E out, code : RunSamba(out, code)
      BY DEF Runs, RunTestParm
    <3> QED
      BY <3>1, <3>2, <2>1, <2>2, <2>3
<1>3. CASE NoMetadata
  <2>1. at = "decided" /\ at' = "serving" /\ identity' = identity /\ UNCHANGED metavars
    BY <1>3 DEF NoMetadata, Forget
  <2>2. Typed(identity[1]) /\ template = <<>> /\ current = 0 /\ reply = <<>> /\ address \in Addresses
    BY <2>1 DEF FillInv
  <2>3. Typed(identity[1])'
    BY <2>1, <2>2 DEF Typed
  <2> QED
    BY <2>1, <2>2, <2>3 DEF FillInv, CodeFilled, metavars
<1>4. ASSUME NEW f \in MetadataFiles, LoadMetadata(f) PROVE FillInv'
  <2>1. /\ at = "decided" /\ identity' = identity
        /\ address' = address /\ current' = current /\ reply' = reply
    BY <1>4 DEF LoadMetadata, Forget, walkvars
  <2>2. Typed(identity[1]) /\ template = <<>> /\ current = 0 /\ reply = <<>> /\ address \in Addresses
    BY <2>1 DEF FillInv
  <2>3. Typed(identity[1])'
    BY <2>1, <2>2 DEF Typed
  <2>4. (at' = "failed" /\ template' = <<>>) \/ (at' = "serving" /\ template' = <<f.doc>> /\ DocumentType(f.doc))
    BY <1>4, <2>2, MetadataAssumption DEF LoadMetadata
  <2>5. template' # <<>> => DocumentType(Doc)'
    BY <2>4 DEF Doc
  <2> QED
    BY <2>1, <2>2, <2>3, <2>4, <2>5 DEF FillInv, CodeFilled
<1>5. CASE Walk /\ UNCHANGED <<hostvars, shellvars>>
  BY <1>5, FillWalk
<1>6. CASE Reply /\ UNCHANGED <<hostvars, shellvars>>
  BY <1>6, FillReply
<1>7. ASSUME NEW a \in Addresses, Get(a), UNCHANGED <<hostvars, shellvars>> PROVE FillInv'
  BY <1>7, FillGet
<1>8. ASSUME NEW a \in Addresses, GetDefault(a), UNCHANGED <<hostvars, shellvars>> PROVE FillInv'
  <2>1. /\ at = "serving" /\ template = <<>> /\ address' = a /\ template' = template /\ at' = at
        /\ identity' = identity
    BY <1>8 DEF GetDefault, hostvars
  <2>2. Typed(identity[1])'
    BY <2>1 DEF FillInv, Typed
  <2> QED
    BY <2>1, <2>2 DEF FillInv, CodeFilled
<1> QED
  BY <1>1, <1>2, <1>3, <1>4, <1>5, <1>6, <1>7, <1>8 DEF MNext, Serve

LEMMA FillInit ==
    ASSUME MInit
    PROVE  FillInv
<1>1. at = "start" /\ template = <<>> /\ current = 0 /\ reply = <<>>
  BY DEF MInit, HInit
<1>2. address \in Addresses
  BY MetadataAssumption DEF MInit
<1> QED
  BY <1>1, <1>2 DEF FillInv, CodeFilled

\* That is the expansion the manual describes, unless a symbol is lost.
LEMMA RewrittenIsExpansion ==
    ASSUME NEW s, ~LosesSymbol(s)
    PROVE  Rewritten(s) = Expansion(s)
<1> DEFINE P == Placeholder(address)
<1>1. "$" \notin DOMAIN P
  BY DEF Placeholder
<1> HIDE DEF P
<1>2. ASSUME NEW i \in DOMAIN s PROVE Piece(P, s, i) = Expanded(s, i)
  <2>1. Dollars(s, i) % 2 = 0 \/ s[i] = "$" \/ s[i] \in DOMAIN P
    BY DEF LosesSymbol, P
  <2> QED
    BY <1>1, <2>1 DEF Piece, Expanded, P
<1>3. [i \in DOMAIN s |-> Piece(P, s, i)] = [i \in DOMAIN s |-> Expanded(s, i)]
  BY <1>2
<1> QED
  BY <1>3 DEF Rewritten, Pieces, Expansion, P

\* A Get is answered with the template of the user where every text and every
\* attribute is expanded exactly once and nothing else is changed, but for the
\* texts with a single dollar that replaceInString loses a symbol of, whatever the
\* shape of the template, the placeholders in it and their values, and whatever the
\* Gets before: the walk of replacePlaceholdersInSelfSiblingsAndChildren sees every
\* node once, and replaceInString looks at every symbol once.
THEOREM TemplateFilledAlways == MSpec => []TemplateFilled
<1>1. MInit => ReadingInv /\ DetectInv /\ FillInv
  BY DetectInit, FillInit DEF MInit, HInit, ShellInit, ReadingInv
<1>2. ReadingInv /\ DetectInv /\ FillInv /\ [MNext]_mvars => (ReadingInv /\ DetectInv /\ FillInv)'
  BY ReadingStep, DetectStep, FillStep
<1>3. FillInv => TemplateFilled
  <2> SUFFICES ASSUME FillInv, template # <<>>, reply # <<>>
               PROVE  /\ DOMAIN reply = Nodes
                      /\ \A n \in Nodes : Filled(n) \/ (Doc.kind[n] = "text" /\ LosesSymbol(Doc.text[n]))
    BY DEF TemplateFilled
  <2>1. reply = [n \in Nodes |-> IF Doc.kind[n] = "text" THEN Rewritten(Doc.text[n]) ELSE Doc.text[n]]
    BY DEF FillInv, CodeFilled
  <2> QED
    BY <2>1, RewrittenIsExpansion DEF Filled
<1> QED
  BY <1>1, <1>2, <1>3, PTL DEF MSpec
=============================================================================
