----------------------------- MODULE HeapProofs -----------------------------
(***************************************************************************)
(* What the heap operations and the scan of TimerHeap do to a vector of    *)
(* entries, for vectors of every length.                                   *)
(***************************************************************************)
EXTENDS TimerHeap, WellFoundedInduction, TLAPS

-----------------------------------------------------------------------------
(***************************************************************************)
(* Loops                                                                   *)
(***************************************************************************)

\* A set of numbers that is not empty has a least one: what takes the place of
\* induction below.
LEMMA LeastNumber ==
    ASSUME NEW X \in SUBSET Nat, X # {}
    PROVE  \E x \in X : \A y \in X : x <= y
<1> DEFINE Less == {ss \in Nat \X Nat : ss[1] < ss[2]}
<1>1. IsWellFoundedOn(Less, Nat)
  BY NatLessThanWellFounded DEF OpToRel
<1>2. \A x, y \in Nat : <<y, x>> \in Less <=> y < x
  OBVIOUS
<1> HIDE DEF Less
<1>3. PICK x \in X : \A y \in X : ~(<<y, x>> \in Less)
  BY <1>1, WFMin
<1>4. \A y \in X : x <= y
  <2> TAKE y \in X
  <2>1. x \in Nat /\ y \in Nat /\ ~(y < x)
    BY <1>2, <1>3
  <2> QED
    BY <2>1
<1> QED
  BY <1>4

\* N turns of a loop, each of them a function of the state before it, and what
\* the first n of them make of x, for each n.
Turns(N, T) == [1..N -> [T -> T]]
Turned(turn, N, T, x, f) ==
    /\ f \in [0..N -> T] /\ f[0] = x
    /\ \A n \in 1..N : f[n] = turn[n][f[n - 1]]

\* Turns can be taken one after the other: the function that the model defines
\* by recursion exists.
LEMMA TurnsExist ==
    ASSUME NEW T, NEW x \in T, NEW N \in Nat, NEW turn \in Turns(N, T)
    PROVE  \E f : Turned(turn, N, T, x, f)
<1> DEFINE Solvable(n) == \E f : Turned(turn, n, T, x, f)
<1>1. Solvable(0)
  <2> DEFINE f == [k \in 0..0 |-> x]
  <2>1. Turned(turn, 0, T, x, f)
    BY DEF Turned
  <2> QED
    BY <2>1
<1>2. ASSUME NEW n \in 1..N, Solvable(n - 1) PROVE Solvable(n)
  <2>1. PICK f : Turned(turn, n - 1, T, x, f)
    BY <1>2
  <2> DEFINE g == [k \in 0..n |-> IF k = n THEN turn[n][f[n - 1]] ELSE f[k]]
  <2>2. f[n - 1] \in T /\ turn[n][f[n - 1]] \in T
    BY <2>1 DEF Turned, Turns
  <2>3. g \in [0..n -> T] /\ g[0] = x
    BY <2>1, <2>2 DEF Turned
  <2>4. ASSUME NEW k \in 1..n PROVE g[k] = turn[k][g[k - 1]]
    <3>1. k - 1 \in 0..(n - 1) /\ g[k - 1] = f[k - 1]
      OBVIOUS
    <3>2. CASE k = n
      BY <3>1, <3>2
    <3>3. CASE k # n
      <4>1. k \in 1..(n - 1) /\ g[k] = f[k]
        BY <3>3
      <4> QED
        BY <2>1, <3>1, <4>1 DEF Turned
    <3> QED
      BY <3>2, <3>3
  <2>5. Turned(turn, n, T, x, g)
    BY <2>3, <2>4 DEF Turned
  <2> QED
    BY <2>5
<1>3. Solvable(N)
  <2> HIDE DEF Solvable
  <2> DEFINE X == {n \in 0..N : ~Solvable(n)}
  <2> SUFFICES ASSUME X # {} PROVE FALSE
    OBVIOUS
  <2>1. X \in SUBSET Nat
    OBVIOUS
  <2>2. PICK n \in X : \A m \in X : n <= m
    BY <2>1, LeastNumber
  <2>3. n \in 1..N /\ n - 1 \in 0..N /\ n - 1 \notin X
    BY <1>1, <2>2
  <2> QED
    BY <1>2, <2>3
<1> QED
  BY <1>3

\* A loop stays among the states that no turn leaves.
LEMMA TurnsStay ==
    ASSUME NEW T, NEW N \in Nat, NEW g, g[0] \in T,
           \A n \in 1..N : g[n - 1] \in T => g[n] \in T
    PROVE  g[N] \in T
<1> DEFINE X == {n \in 0..N : g[n] \notin T}
<1> SUFFICES ASSUME X # {} PROVE FALSE
  OBVIOUS
<1>1. X \in SUBSET Nat
  OBVIOUS
<1>2. PICK n \in X : \A m \in X : n <= m
  BY <1>1, LeastNumber
<1>3. n \in 1..N /\ n - 1 \in 0..N /\ n - 1 \notin X
  BY <1>2
<1> QED
  BY <1>2, <1>3

\* left counts down while turns change something.
Ending(turn, T, left) ==
    /\ turn \in [T -> T] /\ left \in [T -> Nat]
    /\ \A r \in T : turn[r] = r \/ left[turn[r]] < left[r]

\* A loop that has as many turns as left says ends in T, in a state that a
\* further turn does not change.
LEMMA LoopEnds ==
    ASSUME NEW T, NEW turn, NEW left, Ending(turn, T, left), NEW N \in Nat,
           NEW g, g[0] \in T, left[g[0]] <= N,
           \A n \in 1..N : g[n - 1] \in T => g[n] = turn[g[n - 1]]
    PROVE  g[N] \in T /\ turn[g[N]] = g[N]
<1> DEFINE Good(n) == /\ g[n] \in T
                      /\ turn[g[n]] = g[n] \/ left[g[n]] <= N - n
<1>1. Good(0)
  BY DEF Ending
<1>2. ASSUME NEW n \in 1..N, Good(n - 1) PROVE Good(n)
  <2>1. g[n] = turn[g[n - 1]] /\ g[n] \in T
    BY <1>2 DEF Ending
  <2>2. CASE turn[g[n - 1]] = g[n - 1]
    BY <2>1, <2>2
  <2>3. CASE turn[g[n - 1]] # g[n - 1]
    <3>1. left[g[n]] < left[g[n - 1]] /\ left[g[n - 1]] <= N - (n - 1)
      BY <1>2, <2>1, <2>3 DEF Ending
    <3>2. left[g[n]] \in Nat /\ left[g[n - 1]] \in Nat
      BY <1>2, <2>1 DEF Ending
    <3>3. left[g[n]] <= N - n
      BY <3>1, <3>2
    <3> QED
      BY <2>1, <3>3
  <2> QED
    BY <2>2, <2>3
<1>3. Good(N)
  <2> HIDE DEF Good
  <2> DEFINE X == {n \in 0..N : ~Good(n)}
  <2> SUFFICES ASSUME X # {} PROVE FALSE
    OBVIOUS
  <2>1. X \in SUBSET Nat
    OBVIOUS
  <2>2. PICK n \in X : \A m \in X : n <= m
    BY <2>1, LeastNumber
  <2>3. n \in 1..N /\ n - 1 \in 0..N /\ n - 1 \notin X
    BY <1>1, <2>2
  <2> QED
    BY <1>2, <2>3
<1>4. CASE turn[g[N]] = g[N]
  BY <1>3, <1>4
<1>5. CASE turn[g[N]] # g[N]
  <2>1. left[g[N]] <= N - N /\ left[g[N]] \in Nat
    BY <1>3, <1>5 DEF Ending
  <2>2. left[turn[g[N]]] < left[g[N]] /\ left[turn[g[N]]] \in Nat
    BY <1>3, <1>5 DEF Ending
  <2> QED
    BY <2>1, <2>2
<1> QED
  BY <1>4, <1>5

\* The loop that moves an entry up to its place ends where a turn
\* changes nothing, in any set of states that its turns do not leave.
LEMMA UpEnds ==
    ASSUME NEW T, NEW s, NEW i, Len(s) \in Nat, i \in Nat, i <= Len(s),
           [s |-> s, at |-> i] \in T,
           \A r \in T : r.at \in Nat /\ UpTurn(r) \in T
    PROVE  \E r \in T : SiftUp(s, i) = r.s /\ UpTurn(r) = r
<1> DEFINE x == [s |-> s, at |-> i]
           N == Len(s)
           turn == [r \in T |-> UpTurn(r)]
           left == [r \in T |-> r.at]
           IsUp(f) == f = [k \in 0..N |-> IF k = 0 THEN x ELSE UpTurn(f[k - 1])]
           up == CHOOSE f : IsUp(f)
<1>1. SiftUp(s, i) = up[N].s
  BY DEF SiftUp
<1>2. turn \in [T -> T]
  OBVIOUS
<1>3. Ending(turn, T, left)
  <2>1. ASSUME NEW r \in T PROVE turn[r] = r \/ left[turn[r]] < left[r]
    <3>1. \A n \in Nat : n > 1 => n \div 2 < n
      OBVIOUS
    <3>2. UpTurn(r) = r \/ (r.at > 1 /\ UpTurn(r).at = r.at \div 2)
      BY DEF UpTurn
    <3> QED
      BY <3>1, <3>2
  <2>2. left \in [T -> Nat]
    OBVIOUS
  <2> QED
    BY <1>2, <2>1, <2>2 DEF Ending
<1>4. \E f : IsUp(f)
  <2> DEFINE turns == [n \in 1..N |-> turn]
  <2>0. turns \in Turns(N, T) /\ \A n \in 1..N : turns[n] = turn
    BY <1>2 DEF Turns
  <2> HIDE DEF turns
  <2>1. PICK f : Turned(turns, N, T, x, f)
    BY <2>0, TurnsExist
  <2>2. ASSUME NEW k \in 0..N PROVE f[k] = IF k = 0 THEN x ELSE UpTurn(f[k - 1])
    <3>1. CASE k = 0
      BY <2>1, <3>1 DEF Turned
    <3>2. CASE k # 0
      <4>1. k \in 1..N /\ k - 1 \in 0..N
        BY <3>2
      <4>2. f[k] = turn[f[k - 1]] /\ f[k - 1] \in T
        BY <2>0, <2>1, <4>1 DEF Turned
      <4> QED
        BY <3>2, <4>2
    <3> QED
      BY <3>1, <3>2
  <2>3. IsUp(f)
    BY <2>1, <2>2 DEF Turned
  <2> QED
    BY <2>3
<1>5. IsUp(up)
  BY <1>4
<1> HIDE DEF up
<1>6. up[0] = x
  BY <1>5
<1>7. ASSUME NEW n \in 1..N, up[n - 1] \in T PROVE up[n] = turn[up[n - 1]]
  <2>1. n \in 0..N /\ n # 0
    OBVIOUS
  <2>2. up[n] = UpTurn(up[n - 1])
    BY <1>5, <2>1
  <2> QED
    BY <1>7, <2>2
<1>8. up[0] \in T /\ left[up[0]] <= N
  BY <1>6
<1> HIDE DEF turn, left, x, N
<1>9. up[N] \in T /\ turn[up[N]] = up[N]
  BY <1>3, <1>7, <1>8, LoopEnds DEF N
<1> QED
  BY <1>1, <1>9 DEF turn

\* So does the loop of pop_heap that moves the hole down to a leaf.
LEMMA DownEnds ==
    ASSUME NEW T, NEW s, NEW i, Len(s) \in Nat,
           [s |-> s, at |-> i] \in T,
           \A r \in T : r.at \in 1..Len(s) /\ DownTurn(r) \in T
    PROVE  \E r \in T : SiftDown(s, i) = SiftUp(r.s, r.at) /\ DownTurn(r) = r
<1> DEFINE x == [s |-> s, at |-> i]
           N == Len(s)
           turn == [r \in T |-> DownTurn(r)]
           left == [r \in T |-> N - r.at]
           IsDown(f) == f = [k \in 0..N |-> IF k = 0 THEN x ELSE DownTurn(f[k - 1])]
           down == CHOOSE f : IsDown(f)
<1>1. SiftDown(s, i) = SiftUp(down[N].s, down[N].at)
  BY DEF SiftDown
<1>2. turn \in [T -> T]
  OBVIOUS
<1>3. Ending(turn, T, left)
  <2>1. ASSUME NEW r \in T PROVE turn[r] = r \/ left[turn[r]] < left[r]
    <3>1. DownTurn(r) = r \/ (DownTurn(r).at \in {2 * r.at, 2 * r.at + 1})
      BY DEF DownTurn
    <3>2. r.at \in 1..N /\ DownTurn(r).at \in 1..N
      OBVIOUS
    <3> QED
      BY <3>1, <3>2
  <2>2. left \in [T -> Nat]
    OBVIOUS
  <2> QED
    BY <1>2, <2>1, <2>2 DEF Ending
<1>4. \E f : IsDown(f)
  <2> DEFINE turns == [n \in 1..N |-> turn]
  <2>0. turns \in Turns(N, T) /\ \A n \in 1..N : turns[n] = turn
    BY <1>2 DEF Turns
  <2> HIDE DEF turns
  <2>1. PICK f : Turned(turns, N, T, x, f)
    BY <2>0, TurnsExist
  <2>2. ASSUME NEW k \in 0..N PROVE f[k] = IF k = 0 THEN x ELSE DownTurn(f[k - 1])
    <3>1. CASE k = 0
      BY <2>1, <3>1 DEF Turned
    <3>2. CASE k # 0
      <4>1. k \in 1..N /\ k - 1 \in 0..N
        BY <3>2
      <4>2. f[k] = turn[f[k - 1]] /\ f[k - 1] \in T
        BY <2>0, <2>1, <4>1 DEF Turned
      <4> QED
        BY <3>2, <4>2
    <3> QED
      BY <3>1, <3>2
  <2>3. IsDown(f)
    BY <2>1, <2>2 DEF Turned
  <2> QED
    BY <2>3
<1>5. IsDown(down)
  BY <1>4
<1> HIDE DEF down
<1>6. down[0] = x
  BY <1>5
<1>7. ASSUME NEW n \in 1..N, down[n - 1] \in T PROVE down[n] = turn[down[n - 1]]
  <2>1. n \in 0..N /\ n # 0
    OBVIOUS
  <2>2. down[n] = DownTurn(down[n - 1])
    BY <1>5, <2>1
  <2> QED
    BY <1>7, <2>2
<1>8. down[0] \in T /\ left[down[0]] <= N
  BY <1>6
<1> HIDE DEF turn, left, x, N
<1>9. down[N] \in T /\ turn[down[N]] = down[N]
  BY <1>3, <1>7, <1>8, LoopEnds DEF N
<1> QED
  BY <1>1, <1>9 DEF turn

\* So does the scan for what is due.
LEMMA ScanEnds ==
    ASSUME NEW T, NEW s, NEW when, Len(s) \in Nat,
           [rest |-> s, fired |-> <<>>] \in T,
           \A r \in T : /\ Len(r.rest) \in Nat /\ ScanTurn(r, when) \in T
                        /\ ScanTurn(r, when) = r \/ Len(ScanTurn(r, when).rest) < Len(r.rest)
    PROVE  PopDue(s, when) \in T /\ ScanTurn(PopDue(s, when), when) = PopDue(s, when)
<1> DEFINE x == [rest |-> s, fired |-> <<>>]
           N == Len(s)
           turn == [r \in T |-> ScanTurn(r, when)]
           left == [r \in T |-> Len(r.rest)]
           IsScan(f) == f = [k \in 0..N |-> IF k = 0 THEN x ELSE ScanTurn(f[k - 1], when)]
           scan == CHOOSE f : IsScan(f)
<1>1. PopDue(s, when) = scan[N]
  BY DEF PopDue
<1>2. turn \in [T -> T]
  OBVIOUS
<1>3. Ending(turn, T, left)
  <2>1. ASSUME NEW r \in T PROVE turn[r] = r \/ left[turn[r]] < left[r]
    OBVIOUS
  <2>2. left \in [T -> Nat]
    OBVIOUS
  <2> QED
    BY <1>2, <2>1, <2>2 DEF Ending
<1>4. \E f : IsScan(f)
  <2> DEFINE turns == [n \in 1..N |-> turn]
  <2>0. turns \in Turns(N, T) /\ \A n \in 1..N : turns[n] = turn
    BY <1>2 DEF Turns
  <2> HIDE DEF turns
  <2>1. PICK f : Turned(turns, N, T, x, f)
    BY <2>0, TurnsExist
  <2>2. ASSUME NEW k \in 0..N PROVE f[k] = IF k = 0 THEN x ELSE ScanTurn(f[k - 1], when)
    <3>1. CASE k = 0
      BY <2>1, <3>1 DEF Turned
    <3>2. CASE k # 0
      <4>1. k \in 1..N /\ k - 1 \in 0..N
        BY <3>2
      <4>2. f[k] = turn[f[k - 1]] /\ f[k - 1] \in T
        BY <2>0, <2>1, <4>1 DEF Turned
      <4> QED
        BY <3>2, <4>2
    <3> QED
      BY <3>1, <3>2
  <2>3. IsScan(f)
    BY <2>1, <2>2 DEF Turned
  <2> QED
    BY <2>3
<1>5. IsScan(scan)
  BY <1>4
<1> HIDE DEF scan
<1>6. scan[0] = x
  BY <1>5
<1>7. ASSUME NEW n \in 1..N, scan[n - 1] \in T PROVE scan[n] = turn[scan[n - 1]]
  <2>1. n \in 0..N /\ n # 0
    OBVIOUS
  <2>2. scan[n] = ScanTurn(scan[n - 1], when)
    BY <1>5, <2>1
  <2> QED
    BY <1>7, <2>2
<1>8. scan[0] \in T /\ left[scan[0]] <= N
  BY <1>6
<1> HIDE DEF turn, left, x, N
<1>9. scan[N] \in T /\ turn[scan[N]] = scan[N]
  BY <1>3, <1>7, <1>8, LoopEnds DEF N
<1> QED
  BY <1>1, <1>9 DEF turn

-----------------------------------------------------------------------------
(***************************************************************************)
(* The contents of the heap                                                *)
(***************************************************************************)

\* What the heap asks of its entries.
Entries(E) == \A e \in E : e.expire_at \in Int /\ e.cancelled \in BOOLEAN

\* p says at which places of s the entries of q are, no two at the same one.
Picks(p, q, s) ==
    /\ p \in [1..Len(q) -> 1..Len(s)]
    /\ \A i, j \in 1..Len(q) : p[i] = p[j] => i = j
    /\ \A i \in 1..Len(q) : q[i] = s[p[i]]

\* q has the entries of s at the places D, each once.
Drawn(q, s, D) == \E p : Picks(p, q, s) /\ \A d \in 1..Len(s) : d \in D <=> \E i \in 1..Len(q) : p[i] = d

\* q has the entries of s in some order.
Permuted(q, s) == Len(q) = Len(s) /\ Drawn(q, s, 1..Len(s))

\* The order of the entries may be the same.
LEMMA PermutedSelf ==
    ASSUME NEW E, NEW s \in Seq(E)
    PROVE  Permuted(s, s)
<1> DEFINE p == [i \in 1..Len(s) |-> i]
<1>1. Picks(p, s, s)
  BY DEF Picks
<1> QED
  BY <1>1 DEF Permuted, Drawn

\* What is drawn from a sequence that was drawn from s is drawn from s.
LEMMA DrawnFromDrawn ==
    ASSUME NEW E, NEW q \in Seq(E), NEW r \in Seq(E), NEW s \in Seq(E),
           NEW p, NEW u, Picks(u, q, r), Picks(p, r, s)
    PROVE  Picks([i \in 1..Len(q) |-> p[u[i]]], q, s)
<1> DEFINE v == [i \in 1..Len(q) |-> p[u[i]]]
<1>1. ASSUME NEW i \in 1..Len(q)
      PROVE  u[i] \in 1..Len(r) /\ v[i] = p[u[i]] /\ p[u[i]] \in 1..Len(s) /\ q[i] = s[v[i]]
  <2>1. u[i] \in 1..Len(r) /\ q[i] = r[u[i]]
    BY DEF Picks
  <2>2. p[u[i]] \in 1..Len(s) /\ r[u[i]] = s[p[u[i]]]
    BY <2>1 DEF Picks
  <2> QED
    BY <2>1, <2>2
<1>2. v \in [1..Len(q) -> 1..Len(s)]
  BY <1>1
<1>3. ASSUME NEW i \in 1..Len(q), NEW j \in 1..Len(q), v[i] = v[j] PROVE i = j
  <2>1. p[u[i]] = p[u[j]] /\ u[i] \in 1..Len(r) /\ u[j] \in 1..Len(r)
    BY <1>1, <1>3
  <2>2. u[i] = u[j]
    BY <2>1 DEF Picks
  <2> QED
    BY <2>2 DEF Picks
<1> HIDE DEF v
<1>4. Picks(v, q, s)
  BY <1>1, <1>2, <1>3 DEF Picks
<1> QED
  BY <1>4 DEF v

\* An order of an order of s is an order of s.
LEMMA PermutedAgain ==
    ASSUME NEW E, NEW q \in Seq(E), NEW r \in Seq(E), NEW s \in Seq(E), NEW D,
           Permuted(q, r), Drawn(r, s, D)
    PROVE  Drawn(q, s, D)
<1>1. PICK u : Picks(u, q, r) /\ \A d \in 1..Len(r) : \E i \in 1..Len(q) : u[i] = d
  BY DEF Permuted, Drawn
<1>2. PICK p : Picks(p, r, s) /\ \A d \in 1..Len(s) : d \in D <=> \E i \in 1..Len(r) : p[i] = d
  BY DEF Drawn
<1> DEFINE v == [i \in 1..Len(q) |-> p[u[i]]]
<1>3. Picks(v, q, s)
  BY <1>1, <1>2, DrawnFromDrawn
<1>4. ASSUME NEW d \in 1..Len(s) PROVE d \in D <=> \E i \in 1..Len(q) : v[i] = d
  <2>1. ASSUME d \in D PROVE \E i \in 1..Len(q) : v[i] = d
    <3>1. PICK j \in 1..Len(r) : p[j] = d
      BY <1>2, <2>1
    <3>2. PICK i \in 1..Len(q) : u[i] = j
      BY <1>1
    <3> QED
      BY <3>1, <3>2
  <2>2. ASSUME NEW i \in 1..Len(q), v[i] = d PROVE d \in D
    <3>1. u[i] \in 1..Len(r) /\ p[u[i]] = d
      BY <1>1, <2>2 DEF Picks
    <3> QED
      BY <1>2, <3>1
  <2> QED
    BY <2>1, <2>2
<1> HIDE DEF v
<1> QED
  BY <1>3, <1>4 DEF Drawn

\* Two entries of the vector change places.
LEMMA SwapFacts ==
    ASSUME NEW E, NEW s \in Seq(E), NEW i \in 1..Len(s), NEW j \in 1..Len(s)
    PROVE  /\ Swap(s, i, j) \in Seq(E) /\ Len(Swap(s, i, j)) = Len(s)
           /\ \A k \in 1..Len(s) : Swap(s, i, j)[k] = IF k = j THEN s[i] ELSE IF k = i THEN s[j] ELSE s[k]
           /\ Permuted(Swap(s, i, j), s)
<1> DEFINE q == Swap(s, i, j)
           p == [k \in 1..Len(s) |-> IF k = j THEN i ELSE IF k = i THEN j ELSE k]
<1>1. q \in Seq(E) /\ Len(q) = Len(s)
  BY DEF Swap
<1>2. \A k \in 1..Len(s) : q[k] = IF k = j THEN s[i] ELSE IF k = i THEN s[j] ELSE s[k]
  BY DEF Swap
<1> HIDE DEF q
<1>3. Picks(p, q, s)
  BY <1>1, <1>2 DEF Picks
<1>4. ASSUME NEW d \in 1..Len(s) PROVE \E k \in 1..Len(q) : p[k] = d
  <2> DEFINE k == IF d = i THEN j ELSE IF d = j THEN i ELSE d
  <2>1. k \in 1..Len(q) /\ p[k] = d
    BY <1>1
  <2> QED
    BY <2>1
<1>5. Permuted(q, s)
  <2> HIDE DEF p
  <2> QED
    BY <1>1, <1>3, <1>4 DEF Permuted, Drawn
<1> QED
  BY <1>1, <1>2, <1>5 DEF q

\* The places of a binary tree.
LEMMA Halves ==
    ASSUME NEW i \in Nat, i > 1
    PROVE  i \div 2 \in 1..(i - 1) /\ (i = 2 * (i \div 2) \/ i = 2 * (i \div 2) + 1)
OBVIOUS

-----------------------------------------------------------------------------
(***************************************************************************)
(* The order of the heap                                                   *)
(***************************************************************************)

\* No entry is earlier than its parent: what makes the vector a heap.
Heap(s) == \A i \in 2..Len(s) : s[i \div 2].expire_at <= s[i].expire_at

\* A heap but for the entry at r.at, which may be earlier than its parent.
UpHeap(r) ==
    /\ \A i \in 2..Len(r.s) : i # r.at => r.s[i \div 2].expire_at <= r.s[i].expire_at
    /\ \A i \in 2..Len(r.s) :
          i \div 2 = r.at /\ r.at > 1 => r.s[r.at \div 2].expire_at <= r.s[i].expire_at

\* A heap but for the entry at r.at, which may also be later than its children.
DownHeap(r) ==
    /\ \A i \in 2..Len(r.s) :
          i # r.at /\ i \div 2 # r.at => r.s[i \div 2].expire_at <= r.s[i].expire_at
    /\ \A i \in 2..Len(r.s) :
          i \div 2 = r.at /\ r.at > 1 => r.s[r.at \div 2].expire_at <= r.s[i].expire_at

\* A turn upwards keeps the entries, and what is left to do is at the parent.
LEMMA UpTurnKeeps ==
    ASSUME NEW E, Entries(E), NEW w \in Seq(E), NEW a \in 1..Len(w)
    PROVE  LET r == [s |-> w, at |-> a]
               u == UpTurn(r)
           IN  /\ u.s \in Seq(E) /\ u.at \in 1..Len(w) /\ Len(u.s) = Len(w)
               /\ u = [s |-> u.s, at |-> u.at]
               /\ Permuted(u.s, w)
               /\ UpHeap(r) => UpHeap(u)
<1> DEFINE r == [s |-> w, at |-> a]
           u == UpTurn(r)
           b == a \div 2
<1>1. CASE ~(a > 1 /\ Later(w[b], w[a]))
  <2>1. u = r
    BY <1>1 DEF UpTurn
  <2> QED
    BY <2>1, PermutedSelf
<1>2. CASE a > 1 /\ Later(w[b], w[a])
  <2>1. b \in 1..(a - 1) /\ (a = 2 * b \/ a = 2 * b + 1) /\ a \in 1..Len(w) /\ b \in 1..Len(w)
    BY <1>2, Halves
  <2> DEFINE q == Swap(w, a, b)
  <2>2. u = [s |-> q, at |-> b]
    BY <1>2 DEF UpTurn
  <2> HIDE DEF b
  <2>3. /\ q \in Seq(E) /\ Len(q) = Len(w) /\ Permuted(q, w)
        /\ \A k \in 1..Len(w) : q[k] = IF k = b THEN w[a] ELSE IF k = a THEN w[b] ELSE w[k]
    BY <2>1, SwapFacts
  <2>4. w[b].expire_at > w[a].expire_at
    BY <1>2 DEF Later
  <2> HIDE DEF q
  <2>5. ASSUME UpHeap(r) PROVE UpHeap([s |-> q, at |-> b])
    <3> DEFINE v == [k \in 1..Len(w) |-> w[k].expire_at]
    <3>1. \A k \in 1..Len(w) : v[k] \in Int
      BY DEF Entries
    <3>2. \A k \in 1..Len(w) : w[k].expire_at = v[k]
      OBVIOUS
    <3> HIDE DEF v
    <3>3. \A k \in 2..Len(w) : k # a => v[k \div 2] <= v[k]
      <4> TAKE k \in 2..Len(w)
      <4>1. k \div 2 \in 1..Len(w)
        BY Halves
      <4> QED
        BY <2>5, <3>2, <4>1 DEF UpHeap
    <3>4. \A k \in 2..Len(w) : k \div 2 = a => v[b] <= v[k]
      <4> SUFFICES ASSUME NEW k \in 2..Len(w), k \div 2 = a PROVE v[b] <= v[k]
        OBVIOUS
      <4>1. w[b].expire_at <= w[k].expire_at
        BY <1>2, <2>5 DEF UpHeap, b
      <4> QED
        BY <2>1, <3>2, <4>1
    <3>5. v[b] > v[a]
      BY <2>1, <2>4, <3>2
    <3>6. \A k \in 1..Len(w) : q[k].expire_at = IF k = b THEN v[a] ELSE IF k = a THEN v[b] ELSE v[k]
      BY <2>1, <2>3, <3>2
    <3>7. ASSUME NEW k \in 2..Len(w), k # b PROVE q[k \div 2].expire_at <= q[k].expire_at
      <4>1. k \div 2 \in 1..Len(w) /\ (k = 2 * (k \div 2) \/ k = 2 * (k \div 2) + 1)
        BY Halves
      <4> DEFINE h == k \div 2
      <4> HIDE DEF h
      <4>2. k = a <=> (h = b /\ k = a)
        BY <2>1 DEF h
      <4>3. CASE h = b
        <5>1. q[h].expire_at = v[a]
          BY <3>6, <4>1, <4>3 DEF h
        <5>2. CASE k = a
          BY <2>1, <3>1, <3>5, <3>6, <5>1, <5>2 DEF h
        <5>3. CASE k # a
          <6>1. v[b] <= v[k] /\ q[k].expire_at = v[k]
            BY <3>3, <3>6, <3>7, <4>3, <5>3 DEF h
          <6> QED
            BY <2>1, <3>1, <3>5, <5>1, <6>1 DEF h
        <5> QED
          BY <5>2, <5>3
      <4>4. CASE h # b
        <5>1. k # a /\ q[k].expire_at = v[k]
          BY <3>6, <3>7, <4>2, <4>4
        <5>2. CASE h = a
          BY <3>4, <3>6, <4>1, <4>4, <5>1, <5>2 DEF h
        <5>3. CASE h # a
          BY <3>3, <3>6, <4>1, <4>4, <5>1, <5>3 DEF h
        <5> QED
          BY <5>2, <5>3
      <4> QED
        BY <4>3, <4>4
    <3>8. ASSUME NEW k \in 2..Len(w), k \div 2 = b, b > 1
          PROVE  q[b \div 2].expire_at <= q[k].expire_at
      <4>1. b \div 2 \in 1..(b - 1)
        BY <2>1, <3>8, Halves
      <4>2. v[b \div 2] <= v[b] /\ q[b \div 2].expire_at = v[b \div 2]
        BY <2>1, <3>3, <3>6, <3>8, <4>1
      <4>3. k # b
        BY <2>1, <3>8, Halves
      <4>4. CASE k = a
        BY <2>1, <3>6, <4>2, <4>3, <4>4
      <4>5. CASE k # a
        <5>1. v[b] <= v[k] /\ q[k].expire_at = v[k]
          BY <3>3, <3>6, <3>8, <4>3, <4>5
        <5> QED
          BY <2>1, <3>1, <4>1, <4>2, <5>1
      <4> QED
        BY <4>4, <4>5
    <3> QED
      BY <2>3, <3>7, <3>8 DEF UpHeap
  <2> QED
    BY <2>1, <2>2, <2>3, <2>5
<1> QED
  BY <1>1, <1>2

\* SiftUp orders the entries anew, and makes a heap of a vector that was one but
\* for the entry at i.
LEMMA SiftUpFacts ==
    ASSUME NEW E, Entries(E), NEW s \in Seq(E), NEW i \in 1..Len(s)
    PROVE  /\ SiftUp(s, i) \in Seq(E) /\ Len(SiftUp(s, i)) = Len(s)
           /\ Permuted(SiftUp(s, i), s)
           /\ UpHeap([s |-> s, at |-> i]) => Heap(SiftUp(s, i))
<1> DEFINE x == [s |-> s, at |-> i]
           T == {r \in [s : Seq(E), at : 1..Len(s)] :
                    Len(r.s) = Len(s) /\ Permuted(r.s, s) /\ (UpHeap(x) => UpHeap(r))}
<1>1. x \in T
  BY PermutedSelf
<1>2. ASSUME NEW r \in T PROVE r.at \in Nat /\ UpTurn(r) \in T
  <2>1. r.s \in Seq(E) /\ r.at \in 1..Len(r.s) /\ r = [s |-> r.s, at |-> r.at]
        /\ Len(r.s) = Len(s) /\ Permuted(r.s, s)
    OBVIOUS
  <2> DEFINE w == r.s
             a == r.at
             u == UpTurn([s |-> w, at |-> a])
  <2>2. w \in Seq(E) /\ a \in 1..Len(w) /\ UpTurn(r) = u
    BY <2>1
  <2>3. /\ u.s \in Seq(E) /\ u.at \in 1..Len(w) /\ Len(u.s) = Len(w)
        /\ u = [s |-> u.s, at |-> u.at]
        /\ Permuted(u.s, w)
        /\ UpHeap([s |-> w, at |-> a]) => UpHeap(u)
    <3> HIDE DEF w, a
    <3> QED
      BY <2>2, UpTurnKeeps
  <2> HIDE DEF u
  <2>4. Drawn(u.s, s, 1..Len(s))
    BY <2>1, <2>3, PermutedAgain DEF Permuted
  <2>5. Permuted(u.s, s)
    BY <2>1, <2>3, <2>4 DEF Permuted
  <2>6. UpHeap(x) => UpHeap(u)
    BY <2>1, <2>3
  <2>7. u \in T
    BY <2>1, <2>3, <2>5, <2>6
  <2> QED
    BY <2>1, <2>2, <2>7
<1> HIDE DEF T
<1>3. PICK r \in T : SiftUp(s, i) = r.s /\ UpTurn(r) = r
  BY <1>1, <1>2, UpEnds
<1>4. r.s \in Seq(E) /\ r.at \in 1..Len(s) /\ Len(r.s) = Len(s) /\ Permuted(r.s, s)
  BY DEF T
<1>5. ASSUME UpHeap(x) PROVE Heap(r.s)
  <2>1. UpHeap(r)
    BY <1>5 DEF T
  <2>2. ASSUME r.at > 1 PROVE r.s[r.at \div 2].expire_at <= r.s[r.at].expire_at
    <3>1. r.at \div 2 \in 1..(r.at - 1)
      BY <1>4, <2>2, Halves
    <3>2. ~Later(r.s[r.at \div 2], r.s[r.at])
      BY <1>3, <1>4, <2>2, <3>1 DEF UpTurn
    <3>3. r.s[r.at] \in E /\ r.s[r.at \div 2] \in E
      BY <1>4, <3>1
    <3> QED
      BY <3>2, <3>3 DEF Later, Entries
  <2>3. ASSUME NEW k \in 2..Len(r.s) PROVE r.s[k \div 2].expire_at <= r.s[k].expire_at
    BY <2>1, <2>2 DEF UpHeap
  <2> QED
    BY <2>3 DEF Heap
<1> QED
  BY <1>3, <1>4, <1>5

\* A turn downwards keeps the entries, and what is left to do is at a child.
LEMMA DownTurnKeeps ==
    ASSUME NEW E, Entries(E), NEW w \in Seq(E), NEW a \in 1..Len(w)
    PROVE  LET r == [s |-> w, at |-> a]
               u == DownTurn(r)
           IN  /\ u.s \in Seq(E) /\ u.at \in 1..Len(w) /\ Len(u.s) = Len(w)
               /\ u = [s |-> u.s, at |-> u.at]
               /\ Permuted(u.s, w)
               /\ DownHeap(r) => DownHeap(u)
               /\ DownHeap(r) /\ u = r => UpHeap(r)
<1> DEFINE r == [s |-> w, at |-> a]
           u == DownTurn(r)
           l == 2 * a
           c == IF l = Len(w) \/ Later(w[l + 1], w[l]) THEN l ELSE l + 1
           q == Swap(w, a, c)
<1>1. CASE l > Len(w)
  <2>1. u = r
    BY <1>1 DEF DownTurn
  <2>2. ASSUME NEW k \in 2..Len(w) PROVE k \div 2 # a
    BY <1>1, Halves
  <2>3. DownHeap(r) => UpHeap(r)
    BY <2>2 DEF DownHeap, UpHeap
  <2> QED
    BY <2>1, <2>3, PermutedSelf
<1>2. CASE ~(l > Len(w))
  <2>1. c \in 2..Len(w) /\ c \in 1..Len(w) /\ c > a /\ (c = 2 * a \/ c = 2 * a + 1)
    BY <1>2
  <2>2. u = [s |-> q, at |-> c]
    BY <1>2 DEF DownTurn
  <2>3. u # r
    BY <2>1, <2>2
  <2> DEFINE v == [k \in 1..Len(w) |-> w[k].expire_at]
  <2>4. \A k \in 1..Len(w) : v[k] \in Int
    BY DEF Entries
  <2>5. \A k \in 1..Len(w) : w[k].expire_at = v[k]
    OBVIOUS
  <2> HIDE DEF v
  <2>6. ASSUME NEW k \in 2..Len(w), k \div 2 = a PROVE v[c] <= v[k]
    <3>1. k = l \/ k = l + 1
      BY <2>6, Halves
    <3>2. l \in 1..Len(w) /\ (l # Len(w) => l + 1 \in 1..Len(w))
      BY <1>2
    <3>3. Later(w[l + 1], w[l]) <=> w[l + 1].expire_at > w[l].expire_at
      BY DEF Later
    <3> QED
      BY <2>4, <2>5, <3>1, <3>2, <3>3
  <2>7. c \div 2 = a
    <3>1. c \div 2 \in 1..(c - 1) /\ (c = 2 * (c \div 2) \/ c = 2 * (c \div 2) + 1)
      BY <2>1, Halves
    <3> QED
      BY <2>1, <3>1
  <2> HIDE DEF c
  <2>8. /\ q \in Seq(E) /\ Len(q) = Len(w) /\ Permuted(q, w)
        /\ \A k \in 1..Len(w) : q[k] = IF k = c THEN w[a] ELSE IF k = a THEN w[c] ELSE w[k]
    <3> HIDE DEF u, r, l
    <3>1. c \in 1..Len(w)
      BY <2>1
    <3>2. q \in Seq(E) /\ Len(q) = Len(w)
      BY <3>1, SwapFacts
    <3>3. Permuted(q, w)
      BY <3>1, SwapFacts
    <3>4. \A k \in 1..Len(w) : q[k] = IF k = c THEN w[a] ELSE IF k = a THEN w[c] ELSE w[k]
      BY <3>1, SwapFacts
    <3> QED
      BY <3>2, <3>3, <3>4
  <2> HIDE DEF q
  <2>9. \A k \in 1..Len(w) : q[k].expire_at = IF k = c THEN v[a] ELSE IF k = a THEN v[c] ELSE v[k]
    BY <2>1, <2>5, <2>8
  <2>10. ASSUME DownHeap(r) PROVE DownHeap([s |-> q, at |-> c])
    <3>1. ASSUME NEW k \in 2..Len(w), k # a, k \div 2 # a PROVE v[k \div 2] <= v[k]
      <4>1. k \div 2 \in 1..Len(w)
        BY Halves
      <4>2. w[k \div 2].expire_at <= w[k].expire_at
        BY <2>10, <3>1 DEF DownHeap
      <4> QED
        BY <2>5, <4>1, <4>2
    <3>2. ASSUME a > 1 PROVE v[a \div 2] <= v[c]
      <4>1. a \div 2 \in 1..Len(w)
        BY <3>2, Halves
      <4>2. w[a \div 2].expire_at <= w[c].expire_at
        BY <2>1, <2>7, <2>10, <3>2 DEF DownHeap
      <4> QED
        BY <2>1, <2>5, <4>1, <4>2
    <3>3. ASSUME NEW k \in 2..Len(w), k # c, k \div 2 # c PROVE q[k \div 2].expire_at <= q[k].expire_at
      <4>1. k \div 2 \in 1..Len(w) /\ k \div 2 # k
        BY Halves
      <4>2. CASE k = a
        BY <2>1, <2>9, <3>2, <3>3, <4>1, <4>2
      <4>3. CASE k \div 2 = a
        BY <2>6, <2>9, <3>3, <4>1, <4>3
      <4>4. CASE k # a /\ k \div 2 # a
        BY <2>9, <3>1, <3>3, <4>1, <4>4
      <4> QED
        BY <4>2, <4>3, <4>4
    <3>4. ASSUME NEW k \in 2..Len(w), k \div 2 = c PROVE q[c \div 2].expire_at <= q[k].expire_at
      <4>1. k > c
        BY <3>4, Halves
      <4>2. v[c] <= v[k]
        <5>1. k # a /\ k \div 2 # a
          BY <2>1, <3>4, <4>1
        <5> QED
          BY <3>1, <3>4, <5>1
      <4> QED
        BY <2>1, <2>7, <2>9, <4>1, <4>2
    <3> QED
      BY <2>8, <3>3, <3>4 DEF DownHeap
  <2> QED
    BY <2>1, <2>2, <2>3, <2>8, <2>10
<1> QED
  BY <1>1, <1>2

\* SiftDown orders the entries anew, and makes a heap of a vector that was one
\* but for the entry at i.
LEMMA SiftDownFacts ==
    ASSUME NEW E, Entries(E), NEW s \in Seq(E), NEW i \in 1..Len(s)
    PROVE  /\ SiftDown(s, i) \in Seq(E) /\ Len(SiftDown(s, i)) = Len(s)
           /\ Permuted(SiftDown(s, i), s)
           /\ DownHeap([s |-> s, at |-> i]) => Heap(SiftDown(s, i))
<1> DEFINE x == [s |-> s, at |-> i]
           T == {r \in [s : Seq(E), at : 1..Len(s)] :
                    Len(r.s) = Len(s) /\ Permuted(r.s, s) /\ (DownHeap(x) => DownHeap(r))}
<1>1. x \in T
  BY PermutedSelf
<1>2. ASSUME NEW r \in T
      PROVE  r.at \in 1..Len(s) /\ DownTurn(r) \in T /\ (DownHeap(r) /\ DownTurn(r) = r => UpHeap(r))
  <2>1. r.s \in Seq(E) /\ r.at \in 1..Len(r.s) /\ r = [s |-> r.s, at |-> r.at]
        /\ Len(r.s) = Len(s) /\ Permuted(r.s, s)
    OBVIOUS
  <2> DEFINE w == r.s
             a == r.at
             u == DownTurn([s |-> w, at |-> a])
  <2>2. w \in Seq(E) /\ a \in 1..Len(w) /\ DownTurn(r) = u
    BY <2>1
  <2>3. /\ u.s \in Seq(E) /\ u.at \in 1..Len(w) /\ Len(u.s) = Len(w)
        /\ u = [s |-> u.s, at |-> u.at]
        /\ Permuted(u.s, w)
        /\ DownHeap([s |-> w, at |-> a]) => DownHeap(u)
        /\ DownHeap([s |-> w, at |-> a]) /\ u = [s |-> w, at |-> a] => UpHeap([s |-> w, at |-> a])
    <3> HIDE DEF w, a
    <3> QED
      BY <2>2, DownTurnKeeps
  <2> HIDE DEF u
  <2>4. Drawn(u.s, s, 1..Len(s))
    BY <2>1, <2>3, PermutedAgain DEF Permuted
  <2>5. Permuted(u.s, s)
    BY <2>1, <2>3, <2>4 DEF Permuted
  <2>6. DownHeap(x) => DownHeap(u)
    BY <2>1, <2>3
  <2>7. u \in T
    BY <2>1, <2>3, <2>5, <2>6
  <2> QED
    BY <2>1, <2>2, <2>3, <2>7
<1> HIDE DEF T
<1>3. PICK r \in T : SiftDown(s, i) = SiftUp(r.s, r.at) /\ DownTurn(r) = r
  BY <1>1, <1>2, DownEnds
<1>4. /\ r.s \in Seq(E) /\ r.at \in 1..Len(s) /\ Len(r.s) = Len(s) /\ Permuted(r.s, s)
      /\ r = [s |-> r.s, at |-> r.at]
  BY DEF T
<1> DEFINE q == SiftUp(r.s, r.at)
<1>5. /\ q \in Seq(E) /\ Len(q) = Len(r.s) /\ Permuted(q, r.s)
      /\ UpHeap([s |-> r.s, at |-> r.at]) => Heap(q)
  BY <1>4, SiftUpFacts
<1> HIDE DEF q
<1>6. Permuted(q, s)
  BY <1>4, <1>5, PermutedAgain DEF Permuted
<1>7. DownHeap(x) => Heap(q)
  <2>1. DownHeap(x) => DownHeap(r)
    BY DEF T
  <2>2. DownHeap(r) => UpHeap(r)
    BY <1>2, <1>3
  <2> QED
    BY <1>4, <1>5, <2>1, <2>2
<1> QED
  BY <1>3, <1>4, <1>5, <1>6, <1>7 DEF q

\* push_heap behind a push_back: a heap with one entry more stays a heap.
LEMMA PushFacts ==
    ASSUME NEW E, Entries(E), NEW s \in Seq(E), NEW e \in E
    PROVE  LET q == PushHeap(Append(s, e))
           IN  /\ q \in Seq(E) /\ Len(q) = Len(s) + 1
               /\ Permuted(q, Append(s, e))
               /\ Heap(s) => Heap(q)
<1> DEFINE w == Append(s, e)
<1>1. /\ w \in Seq(E) /\ Len(s) \in Nat /\ Len(w) = Len(s) + 1 /\ Len(w) \in 1..Len(w)
      /\ \A k \in 1..Len(s) : w[k] = s[k]
  OBVIOUS
<1> HIDE DEF w
<1>2. Heap(s) => UpHeap([s |-> w, at |-> Len(w)])
  <2> SUFFICES ASSUME Heap(s) PROVE UpHeap([s |-> w, at |-> Len(w)])
    OBVIOUS
  <2>1. ASSUME NEW k \in 2..Len(w) PROVE k \div 2 \in 1..(k - 1)
    BY Halves
  <2>2. ASSUME NEW k \in 2..Len(w), k # Len(w) PROVE w[k \div 2].expire_at <= w[k].expire_at
    <3>1. k \in 2..Len(s) /\ k \in 1..Len(s) /\ k \div 2 \in 1..Len(s)
      BY <1>1, <2>1, <2>2
    <3> QED
      BY <1>1, <3>1 DEF Heap
  <2>3. ASSUME NEW k \in 2..Len(w) PROVE k \div 2 # Len(w)
    BY <1>1, <2>1
  <2> QED
    BY <2>2, <2>3 DEF UpHeap
<1>3. SiftUp(w, Len(w)) \in Seq(E) /\ Len(SiftUp(w, Len(w))) = Len(w) /\ Permuted(SiftUp(w, Len(w)), w)
      /\ (Heap(s) => Heap(SiftUp(w, Len(w))))
  BY <1>1, <1>2, SiftUpFacts
<1> QED
  BY <1>1, <1>3 DEF PushHeap, w

\* pop_heap and pop_back: the other entries stay, and a heap stays a heap.
LEMMA PopFacts ==
    ASSUME NEW E, Entries(E), NEW s \in Seq(E), s # <<>>
    PROVE  /\ PopHeap(s) \in Seq(E) /\ Len(PopHeap(s)) = Len(s) - 1
           /\ Drawn(PopHeap(s), s, 2..Len(s))
           /\ Heap(s) => Heap(PopHeap(s))
<1> DEFINE n == Len(s) - 1
           w == [i \in 1..n |-> IF i = 1 THEN s[Len(s)] ELSE s[i]]
<1>1. n \in Nat /\ Len(s) = n + 1 /\ n = Len(s) - 1
  OBVIOUS
<1> HIDE DEF n
<1>2. CASE n = 0
  <2>1. PopHeap(s) = <<>>
    BY <1>1, <1>2 DEF PopHeap
  <2>2. Picks(<<>>, <<>>, s)
    BY DEF Picks
  <2>3. Drawn(<<>>, s, 2..Len(s))
    <3>1. Len(<<>>) = 0 /\ Len(s) = 1
      BY <1>1, <1>2
    <3>2. \A d \in 1..Len(s) : d \notin 2..Len(s)
      BY <3>1
    <3>3. \A d \in 1..Len(s) : ~\E i \in 1..Len(<<>>) : <<>>[i] = d
      BY <3>1
    <3> QED
      BY <2>2, <3>2, <3>3 DEF Drawn
  <2>4. Heap(<<>>)
    BY DEF Heap
  <2> QED
    <3>1. <<>> \in Seq(E) /\ Len(<<>>) = 0 /\ Len(s) - 1 = 0
      BY <1>1, <1>2
    <3> QED
      BY <2>1, <2>3, <2>4, <3>1
<1>3. CASE n # 0
  <2>1. w \in Seq(E) /\ Len(w) = n /\ 1 \in 1..Len(w)
    BY <1>1, <1>3
  <2>2. PopHeap(s) = SiftDown(w, 1)
    BY <1>1, <1>3 DEF PopHeap
  <2>3. \A i \in 1..n : w[i] = IF i = 1 THEN s[n + 1] ELSE s[i]
    BY <1>1
  <2> HIDE DEF w
  <2>4. Drawn(w, s, 2..Len(s))
    <3> DEFINE p == [i \in 1..n |-> IF i = 1 THEN n + 1 ELSE i]
    <3>1. Picks(p, w, s)
      BY <1>1, <2>1, <2>3 DEF Picks
    <3>2. ASSUME NEW d \in 1..Len(s) PROVE d \in 2..Len(s) <=> \E i \in 1..Len(w) : p[i] = d
      <4>1. ASSUME d \in 2..Len(s) PROVE \E i \in 1..Len(w) : p[i] = d
        <5> DEFINE i == IF d = n + 1 THEN 1 ELSE d
        <5>1. i \in 1..n /\ p[i] = d
          BY <1>1, <1>3, <4>1
        <5> QED
          BY <2>1, <5>1
      <4>2. ASSUME NEW i \in 1..Len(w), p[i] = d PROVE d \in 2..Len(s)
        <5>1. i \in 1..n
          BY <2>1
        <5> QED
          BY <1>1, <1>3, <4>2, <5>1
      <4> QED
        BY <4>1, <4>2
    <3> HIDE DEF p
    <3> QED
      BY <3>1, <3>2 DEF Drawn
  <2>5. Heap(s) => DownHeap([s |-> w, at |-> 1])
    <3> SUFFICES ASSUME Heap(s) PROVE DownHeap([s |-> w, at |-> 1])
      OBVIOUS
    <3>1. ASSUME NEW k \in 2..Len(w), k # 1, k \div 2 # 1 PROVE w[k \div 2].expire_at <= w[k].expire_at
      <4>1. k \in 2..Len(s) /\ k \in 1..n /\ k \div 2 \in 1..n
        BY <1>1, <2>1, Halves
      <4> QED
        BY <2>3, <3>1, <4>1 DEF Heap
    <3> QED
      BY <3>1 DEF DownHeap
  <2> DEFINE q == SiftDown(w, 1)
  <2>6. q \in Seq(E) /\ Len(q) = n /\ Permuted(q, w) /\ (Heap(s) => Heap(q))
    BY <2>1, <2>5, SiftDownFacts
  <2> HIDE DEF q
  <2>7. Drawn(q, s, 2..Len(s))
    BY <2>1, <2>4, <2>6, PermutedAgain
  <2> QED
    BY <1>1, <2>2, <2>6, <2>7 DEF q
<1> QED
  BY <1>2, <1>3

\* The front of a heap is the earliest entry.
LEMMA FrontEarliest ==
    ASSUME NEW E, Entries(E), NEW s \in Seq(E), Heap(s), NEW k \in 1..Len(s)
    PROVE  s[1].expire_at <= s[k].expire_at
<1> DEFINE X == {i \in 1..Len(s) : ~(s[1].expire_at <= s[i].expire_at)}
<1> SUFFICES ASSUME X # {} PROVE FALSE
  OBVIOUS
<1>1. X \in SUBSET Nat
  OBVIOUS
<1>2. PICK i \in X : \A j \in X : i <= j
  BY <1>1, LeastNumber
<1>3. 1 \in 1..Len(s) /\ s[1] \in E /\ s[1].expire_at \in Int
  BY DEF Entries
<1>4. i \in 2..Len(s)
  BY <1>2, <1>3
<1>5. i \div 2 \in 1..(i - 1)
  BY <1>4, Halves
<1>6. i \div 2 \in 1..Len(s) /\ i \div 2 \notin X
  BY <1>2, <1>4, <1>5
<1>7. s[1].expire_at <= s[i \div 2].expire_at /\ s[i \div 2].expire_at <= s[i].expire_at
  BY <1>4, <1>6 DEF Heap
<1>8. s[i].expire_at \in Int /\ s[i \div 2].expire_at \in Int
  BY <1>4, <1>6 DEF Entries
<1> QED
  BY <1>2, <1>3, <1>7, <1>8

-----------------------------------------------------------------------------
(***************************************************************************)
(* The scan                                                                *)
(***************************************************************************)

\* The scan of s has left rest, from the places that p names, and taken out
\* fired, from the places that f names.  It lost nothing but what was cancelled.
Scanned(p, f, rest, taken, s, when) ==
    /\ Picks(p, rest, s) /\ Picks(f, taken, s)
    /\ \A i \in 1..Len(rest), j \in 1..Len(taken) : p[i] # f[j]
    /\ \A d \in 1..Len(s) :
          \/ s[d].cancelled
          \/ \E i \in 1..Len(rest) : p[i] = d
          \/ \E j \in 1..Len(taken) : f[j] = d
    /\ \A j \in 1..Len(taken) : ~taken[j].cancelled /\ taken[j].expire_at <= when

\* What was taken out is in order and not later than what is left.
InOrder(rest, taken) ==
    /\ Heap(rest)
    /\ \A i, j \in 1..Len(taken) : i < j => taken[i].expire_at <= taken[j].expire_at
    /\ \A i \in 1..Len(taken), j \in 1..Len(rest) : taken[i].expire_at <= rest[j].expire_at

\* The front of the heap is dropped: the rest is still where it was in s.
LEMMA FrontDropped ==
    ASSUME NEW E, Entries(E), NEW s \in Seq(E), NEW rest \in Seq(E), NEW taken \in Seq(E),
           NEW p, NEW f, NEW when, Scanned(p, f, rest, taken, s, when), rest # <<>>
    PROVE  \E v : /\ Picks(v, PopHeap(rest), s)
                  /\ p[1] \in 1..Len(s) /\ rest[1] = s[p[1]]
                  /\ \A i \in 1..Len(PopHeap(rest)) :
                        v[i] # p[1] /\ \E k \in 1..Len(rest) : v[i] = p[k] /\ PopHeap(rest)[i] = rest[k]
                  /\ \A k \in 1..Len(rest) :
                        k # 1 => \E i \in 1..Len(PopHeap(rest)) : v[i] = p[k]
<1> DEFINE q == PopHeap(rest)
<1>1. q \in Seq(E) /\ Len(q) = Len(rest) - 1 /\ Drawn(q, rest, 2..Len(rest))
  BY PopFacts
<1> HIDE DEF q
<1>2. PICK u : Picks(u, q, rest) /\ \A d \in 1..Len(rest) : d \in 2..Len(rest) <=> \E i \in 1..Len(q) : u[i] = d
  BY <1>1 DEF Drawn
<1> DEFINE v == [i \in 1..Len(q) |-> p[u[i]]]
<1>3. Picks(v, q, s)
  <2>1. Picks(p, rest, s)
    BY DEF Scanned
  <2>2. Picks(u, q, rest) /\ q \in Seq(E)
    BY <1>1, <1>2
  <2> QED
    BY <2>1, <2>2, DrawnFromDrawn
<1>4. 1 \in 1..Len(rest) /\ p[1] \in 1..Len(s) /\ rest[1] = s[p[1]]
  <2>1. 1 \in 1..Len(rest)
    OBVIOUS
  <2> QED
    BY <2>1 DEF Scanned, Picks
<1>5. ASSUME NEW i \in 1..Len(q)
      PROVE  v[i] # p[1] /\ \E k \in 1..Len(rest) : v[i] = p[k] /\ q[i] = rest[k]
  <2>1. u[i] \in 1..Len(rest) /\ q[i] = rest[u[i]] /\ v[i] = p[u[i]]
    BY <1>2 DEF Picks
  <2>2. u[i] \in 2..Len(rest)
    BY <1>2, <2>1
  <2>3. u[i] # 1
    BY <2>2
  <2>4. p[u[i]] # p[1]
    BY <1>4, <2>1, <2>3 DEF Scanned, Picks
  <2> QED
    BY <2>1, <2>4
<1>6. ASSUME NEW k \in 1..Len(rest), k # 1 PROVE \E i \in 1..Len(q) : v[i] = p[k]
  <2>1. k \in 2..Len(rest)
    BY <1>6
  <2>2. PICK i \in 1..Len(q) : u[i] = k
    BY <1>2, <2>1
  <2> QED
    BY <2>2
<1> HIDE DEF v
<1> QED
  BY <1>3, <1>4, <1>5, <1>6 DEF q

\* A turn of the scan drops a cancelled entry, takes out one that is due, or
\* changes nothing.
LEMMA ScanTurnKeeps ==
    ASSUME NEW E, Entries(E), NEW s \in Seq(E), NEW rest \in Seq(E), NEW taken \in Seq(E),
           NEW when \in Int, \E p, f : Scanned(p, f, rest, taken, s, when)
    PROVE  LET r == [rest |-> rest, fired |-> taken]
               u == ScanTurn(r, when)
           IN  /\ u \in [rest : Seq(E), fired : Seq(E)]
               /\ u = r \/ Len(u.rest) < Len(rest)
               /\ \E p, f : Scanned(p, f, u.rest, u.fired, s, when)
               /\ InOrder(rest, taken) => InOrder(u.rest, u.fired)
<1> DEFINE r == [rest |-> rest, fired |-> taken]
           u == ScanTurn(r, when)
           top == rest[1]
<1>1. CASE rest = <<>> \/ (~top.cancelled /\ top.expire_at > when)
  <2>1. u = r
    BY <1>1 DEF ScanTurn
  <2> QED
    BY <2>1
<1>2. CASE ~(rest = <<>> \/ (~top.cancelled /\ top.expire_at > when))
  <2> DEFINE q == PopHeap(rest)
             g == IF top.cancelled THEN taken ELSE Append(taken, top)
  <2>1. u = [rest |-> q, fired |-> g]
    BY <1>2 DEF ScanTurn
  <2>2. rest # <<>> /\ Len(rest) \in Nat /\ 1 \in 1..Len(rest) /\ top \in E
    BY <1>2
  <2>3. top.cancelled \in BOOLEAN /\ top.expire_at \in Int
    BY <2>2 DEF Entries
  <2>4. q \in Seq(E) /\ Len(q) = Len(rest) - 1 /\ (Heap(rest) => Heap(q))
    BY <2>2, PopFacts
  <2>5. PICK p, f : Scanned(p, f, rest, taken, s, when)
    OBVIOUS
  <2>6. PICK v : /\ Picks(v, q, s)
                 /\ p[1] \in 1..Len(s) /\ rest[1] = s[p[1]]
                 /\ \A i \in 1..Len(q) :
                        v[i] # p[1] /\ \E k \in 1..Len(rest) : v[i] = p[k] /\ q[i] = rest[k]
                 /\ \A k \in 1..Len(rest) : k # 1 => \E i \in 1..Len(q) : v[i] = p[k]
    BY <2>2, <2>5, FrontDropped
  <2> HIDE DEF q
  <2>7. ASSUME InOrder(rest, taken) PROVE \A k \in 1..Len(rest) : top.expire_at <= rest[k].expire_at
    BY <2>7, FrontEarliest DEF InOrder
  <2> HIDE DEF top
  <2>8. CASE top.cancelled
    <3>1. g = taken
      BY <2>8
    <3>2. Scanned(v, f, q, taken, s, when)
      <4>1. ASSUME NEW i \in 1..Len(q), NEW j \in 1..Len(taken) PROVE v[i] # f[j]
        <5>1. PICK k \in 1..Len(rest) : v[i] = p[k]
          BY <2>6
        <5> QED
          BY <2>5, <5>1 DEF Scanned
      <4>2. ASSUME NEW d \in 1..Len(s)
            PROVE  s[d].cancelled \/ (\E i \in 1..Len(q) : v[i] = d) \/ (\E j \in 1..Len(taken) : f[j] = d)
        <5>1. CASE \E k \in 1..Len(rest) : p[k] = d
          <6>1. PICK k \in 1..Len(rest) : p[k] = d
            BY <5>1
          <6>2. CASE k = 1
            BY <2>6, <2>8, <6>1, <6>2 DEF top
          <6>3. CASE k # 1
            BY <2>6, <6>1, <6>3
          <6> QED
            BY <6>2, <6>3
        <5>2. CASE ~\E k \in 1..Len(rest) : p[k] = d
          BY <2>5, <5>2 DEF Scanned
        <5> QED
          BY <5>1, <5>2
      <4> QED
        BY <2>5, <2>6, <4>1, <4>2 DEF Scanned
    <3>3. InOrder(rest, taken) => InOrder(q, taken)
      <4> SUFFICES ASSUME InOrder(rest, taken) PROVE InOrder(q, taken)
        OBVIOUS
      <4>1. ASSUME NEW i \in 1..Len(taken), NEW j \in 1..Len(q) PROVE taken[i].expire_at <= q[j].expire_at
        <5>1. PICK k \in 1..Len(rest) : q[j] = rest[k]
          BY <2>6
        <5> QED
          BY <5>1 DEF InOrder
      <4> QED
        BY <2>4, <4>1 DEF InOrder
    <3> QED
      BY <2>1, <2>2, <2>4, <3>1, <3>2, <3>3
  <2>9. CASE ~top.cancelled
    <3>1. g = Append(taken, top) /\ top.expire_at <= when
      BY <1>2, <2>2, <2>3, <2>9
    <3> DEFINE m == Len(taken)
    <3>2. /\ g \in Seq(E) /\ m \in Nat /\ Len(g) = m + 1 /\ g[m + 1] = top
          /\ \A j \in 1..m : g[j] = taken[j]
      BY <2>2, <3>1
    <3> HIDE DEF g
    <3> DEFINE h == [j \in 1..(m + 1) |-> IF j = m + 1 THEN p[1] ELSE f[j]]
    <3>3. Picks(h, g, s)
      <4>1. ASSUME NEW j \in 1..m PROVE f[j] \in 1..Len(s) /\ f[j] # p[1] /\ taken[j] = s[f[j]]
        BY <2>2, <2>5 DEF Scanned, Picks
      <4>2. \A i, j \in 1..m : f[i] = f[j] => i = j
        BY <2>5 DEF Scanned, Picks
      <4>3. h \in [1..Len(g) -> 1..Len(s)]
        BY <2>6, <3>2, <4>1
      <4>4. ASSUME NEW j \in 1..(m + 1) PROVE j = m + 1 \/ j \in 1..m
        BY <3>2
      <4>5. \A i \in 1..Len(g) : g[i] = s[h[i]]
        BY <2>6, <3>2, <4>1, <4>4 DEF top
      <4>6. ASSUME NEW i \in 1..Len(g), NEW j \in 1..Len(g), h[i] = h[j] PROVE i = j
        BY <3>2, <4>1, <4>2, <4>4, <4>6
      <4> HIDE DEF h
      <4> QED
        BY <4>3, <4>5, <4>6 DEF Picks
    <3>4. Scanned(v, h, q, g, s, when)
      <4>1. ASSUME NEW i \in 1..Len(q), NEW j \in 1..Len(g) PROVE v[i] # h[j]
        <5>1. PICK k \in 1..Len(rest) : v[i] = p[k] /\ v[i] # p[1]
          BY <2>6
        <5>2. CASE j = m + 1
          BY <3>2, <5>1, <5>2
        <5>3. CASE j # m + 1
          <6>1. j \in 1..m /\ h[j] = f[j]
            BY <3>2, <5>3
          <6> QED
            BY <2>5, <5>1, <6>1 DEF Scanned
        <5> QED
          BY <5>2, <5>3
      <4>2. ASSUME NEW d \in 1..Len(s)
            PROVE  s[d].cancelled \/ (\E i \in 1..Len(q) : v[i] = d) \/ (\E j \in 1..Len(g) : h[j] = d)
        <5>1. CASE \E k \in 1..Len(rest) : p[k] = d
          <6>1. PICK k \in 1..Len(rest) : p[k] = d
            BY <5>1
          <6>2. CASE k = 1
            <7>1. m + 1 \in 1..Len(g) /\ h[m + 1] = d
              BY <3>2, <6>1, <6>2
            <7> QED
              BY <7>1
          <6>3. CASE k # 1
            BY <2>6, <6>1, <6>3
          <6> QED
            BY <6>2, <6>3
        <5>2. CASE \E j \in 1..m : f[j] = d
          <6>1. PICK j \in 1..m : f[j] = d
            BY <5>2
          <6>2. j \in 1..Len(g) /\ h[j] = d
            BY <3>2, <6>1
          <6> QED
            BY <6>2
        <5>3. CASE s[d].cancelled
          BY <5>3
        <5> QED
          BY <2>5, <5>1, <5>2, <5>3 DEF Scanned
      <4>3. ASSUME NEW j \in 1..Len(g) PROVE ~g[j].cancelled /\ g[j].expire_at <= when
        <5>1. CASE j = m + 1
          BY <2>9, <3>1, <3>2, <5>1
        <5>2. CASE j # m + 1
          <6>1. j \in 1..m
            BY <3>2, <5>2
          <6> QED
            BY <2>5, <3>2, <6>1 DEF Scanned
        <5> QED
          BY <5>1, <5>2
      <4> HIDE DEF h
      <4> QED
        BY <2>6, <3>3, <4>1, <4>2, <4>3 DEF Scanned
    <3>5. InOrder(rest, taken) => InOrder(q, g)
      <4> SUFFICES ASSUME InOrder(rest, taken) PROVE InOrder(q, g)
        OBVIOUS
      <4>1. ASSUME NEW i \in 1..Len(g), NEW k \in 1..Len(rest) PROVE g[i].expire_at <= rest[k].expire_at
        <5>1. CASE i = m + 1
          BY <2>7, <3>2, <5>1
        <5>2. CASE i # m + 1
          <6>1. i \in 1..m
            BY <3>2, <5>2
          <6> QED
            BY <3>2, <6>1 DEF InOrder
        <5> QED
          BY <5>1, <5>2
      <4>2. ASSUME NEW i \in 1..Len(g), NEW j \in 1..Len(q) PROVE g[i].expire_at <= q[j].expire_at
        <5>1. PICK k \in 1..Len(rest) : q[j] = rest[k]
          BY <2>6
        <5> QED
          BY <4>1, <5>1
      <4>3. ASSUME NEW i \in 1..Len(g), NEW j \in 1..Len(g), i < j PROVE g[i].expire_at <= g[j].expire_at
        <5>1. i \in 1..m
          BY <3>2, <4>3
        <5>2. CASE j = m + 1
          BY <2>2, <3>2, <4>1, <5>2 DEF top
        <5>3. CASE j # m + 1
          <6>1. j \in 1..m
            BY <3>2, <5>3
          <6> QED
            BY <3>2, <4>3, <5>1, <6>1 DEF InOrder
        <5> QED
          BY <5>2, <5>3
      <4> QED
        BY <2>4, <4>2, <4>3 DEF InOrder
    <3> QED
      BY <2>1, <2>2, <2>4, <3>2, <3>4, <3>5
  <2> QED
    BY <2>8, <2>9
<1> QED
  BY <1>1, <1>2

\* PopDue takes out entries that are due and not cancelled and loses only
\* cancelled ones; from a heap it takes out all that are due, in order, and
\* leaves a heap.
LEMMA PopDueFacts ==
    ASSUME NEW E, Entries(E), NEW s \in Seq(E), NEW when \in Int
    PROVE  LET r == PopDue(s, when)
           IN  /\ r.rest \in Seq(E) /\ r.fired \in Seq(E)
               /\ \E p, f : Scanned(p, f, r.rest, r.fired, s, when)
               /\ Heap(s) => /\ InOrder(r.rest, r.fired)
                             /\ \A i \in 1..Len(r.rest) : r.rest[i].expire_at > when
<1> DEFINE T == {r \in [rest : Seq(E), fired : Seq(E)] :
                    /\ \E p, f : Scanned(p, f, r.rest, r.fired, s, when)
                    /\ Heap(s) => InOrder(r.rest, r.fired)}
           x == [rest |-> s, fired |-> <<>>]
<1>1. x \in T
  <2> DEFINE p == [i \in 1..Len(s) |-> i]
  <2>1. Picks(p, s, s)
    BY DEF Picks
  <2>2. Len(<<>>) = 0 /\ 1..0 = {} /\ <<>> \in Seq(E)
    OBVIOUS
  <2>3. Picks(<<>>, <<>>, s)
    BY <2>2 DEF Picks
  <2>4. \A d \in 1..Len(s) : p[d] = d
    OBVIOUS
  <2> HIDE DEF p
  <2>5. Scanned(p, <<>>, s, <<>>, s, when)
    BY <2>1, <2>2, <2>3, <2>4 DEF Scanned
  <2>6. Heap(s) => InOrder(s, <<>>)
    BY <2>2 DEF InOrder
  <2>7. x \in [rest : Seq(E), fired : Seq(E)] /\ x.rest = s /\ x.fired = <<>>
    BY <2>2
  <2> HIDE DEF x
  <2> QED
    BY <2>5, <2>6, <2>7
<1>2. ASSUME NEW r \in T
      PROVE  /\ Len(r.rest) \in Nat /\ ScanTurn(r, when) \in T
             /\ ScanTurn(r, when) = r \/ Len(ScanTurn(r, when).rest) < Len(r.rest)
  <2> DEFINE rest == r.rest
             taken == r.fired
             u == ScanTurn([rest |-> rest, fired |-> taken], when)
  <2>1. /\ rest \in Seq(E) /\ taken \in Seq(E) /\ r = [rest |-> rest, fired |-> taken]
        /\ \E p, f : Scanned(p, f, rest, taken, s, when)
        /\ Heap(s) => InOrder(rest, taken)
    OBVIOUS
  <2> HIDE DEF rest, taken
  <2>2. /\ u \in [rest : Seq(E), fired : Seq(E)]
        /\ u = [rest |-> rest, fired |-> taken] \/ Len(u.rest) < Len(rest)
        /\ \E p, f : Scanned(p, f, u.rest, u.fired, s, when)
        /\ InOrder(rest, taken) => InOrder(u.rest, u.fired)
    BY <2>1, ScanTurnKeeps
  <2>3. u = ScanTurn(r, when)
    BY <2>1
  <2> HIDE DEF u
  <2>4. u \in T
    BY <2>1, <2>2
  <2> QED
    BY <2>1, <2>2, <2>3, <2>4 DEF rest
<1> HIDE DEF T
<1> DEFINE r == PopDue(s, when)
<1>3. r \in T /\ ScanTurn(r, when) = r
  BY <1>1, <1>2, ScanEnds
<1> HIDE DEF r
<1>4. /\ r.rest \in Seq(E) /\ r.fired \in Seq(E)
      /\ \E p, f : Scanned(p, f, r.rest, r.fired, s, when)
      /\ Heap(s) => InOrder(r.rest, r.fired)
  BY <1>3 DEF T
<1>5. ASSUME Heap(s), NEW i \in 1..Len(r.rest) PROVE r.rest[i].expire_at > when
  <2> DEFINE q == r.rest
  <2>1. q \in Seq(E) /\ q # <<>> /\ 1 \in 1..Len(q)
    BY <1>4
  <2>2. ASSUME q[1].cancelled \/ ~(q[1].expire_at > when) PROVE FALSE
    <3>1. ScanTurn(r, when).rest = PopHeap(q)
      BY <2>1, <2>2 DEF ScanTurn
    <3>2. Len(PopHeap(q)) = Len(q) - 1
      BY <2>1, PopFacts
    <3>3. PopHeap(q) = q
      BY <1>3, <3>1
    <3>4. Len(q) \in Nat
      BY <2>1
    <3> QED
      BY <3>2, <3>3, <3>4
  <2>3. q[1].expire_at <= q[i].expire_at
    <3>1. Heap(q)
      BY <1>4, <1>5 DEF InOrder
    <3> HIDE DEF q
    <3>2. i \in 1..Len(q)
      BY DEF q
    <3> QED
      BY <2>1, <3>1, <3>2, FrontEarliest
  <2>4. q[1].expire_at \in Int /\ q[i].expire_at \in Int
    BY <1>4, <2>1 DEF Entries
  <2> QED
    BY <2>2, <2>3, <2>4
<1> QED
  BY <1>4, <1>5 DEF r

\* No two entries are of one timer.
OnceOf(s) == \A i, j \in 1..Len(s) : s[i].of = s[j].of => i = j

\* s has an entry of this timer.
Has(s, t) == \E i \in 1..Len(s) : s[i].of = t

\* All entries of q are entries of s.
From(q, s) == \A i \in 1..Len(q) : \E k \in 1..Len(s) : q[i] = s[k]

\* An entry of s that is not cancelled is left or taken.
Parted(rest, taken, s) ==
    \A k \in 1..Len(s) : \/ s[k].cancelled
                         \/ \E i \in 1..Len(rest) : rest[i] = s[k]
                         \/ \E i \in 1..Len(taken) : taken[i] = s[k]

\* The entries of q are those of s and e.
OneMore(q, s, e) ==
    /\ \A i \in 1..Len(q) : q[i] = e \/ \E k \in 1..Len(s) : q[i] = s[k]
    /\ \A t : Has(q, t) <=> Has(s, t) \/ t = e.of

\* A vector in another order has the same entries.
LEMMA PermutedEntries ==
    ASSUME NEW E, NEW q \in Seq(E), NEW s \in Seq(E), Permuted(q, s)
    PROVE  /\ From(q, s) /\ From(s, q)
           /\ OnceOf(s) => OnceOf(q)
           /\ \A t : Has(q, t) <=> Has(s, t)
<1>1. PICK p : Picks(p, q, s) /\ \A d \in 1..Len(s) : \E i \in 1..Len(q) : p[i] = d
  BY DEF Permuted, Drawn
<1>2. ASSUME NEW i \in 1..Len(q) PROVE p[i] \in 1..Len(s) /\ q[i] = s[p[i]]
  BY <1>1 DEF Picks
<1>3. ASSUME NEW k \in 1..Len(s) PROVE \E i \in 1..Len(q) : q[i] = s[k]
  BY <1>1, <1>2
<1>4. ASSUME OnceOf(s) PROVE OnceOf(q)
  <2>1. ASSUME NEW i \in 1..Len(q), NEW j \in 1..Len(q), q[i].of = q[j].of PROVE i = j
    <3>1. s[p[i]].of = s[p[j]].of /\ p[i] \in 1..Len(s) /\ p[j] \in 1..Len(s)
      BY <1>2, <2>1
    <3>2. p[i] = p[j]
      BY <1>4, <3>1 DEF OnceOf
    <3> QED
      BY <1>1, <3>2 DEF Picks
  <2> QED
    BY <2>1 DEF OnceOf
<1>5. ASSUME NEW t PROVE Has(q, t) <=> Has(s, t)
  <2>1. ASSUME Has(q, t) PROVE Has(s, t)
    BY <1>2, <2>1 DEF Has
  <2>2. ASSUME Has(s, t) PROVE Has(q, t)
    BY <1>3, <2>2 DEF Has
  <2> QED
    BY <2>1, <2>2
<1> QED
  BY <1>2, <1>3, <1>4, <1>5 DEF From

\* An entry at the end of a vector.
LEMMA AppendedEntries ==
    ASSUME NEW E, NEW s \in Seq(E), NEW e \in E
    PROVE  /\ Append(s, e) \in Seq(E) /\ OneMore(Append(s, e), s, e)
           /\ OnceOf(s) /\ ~Has(s, e.of) => OnceOf(Append(s, e))
<1> DEFINE w == Append(s, e)
<1>1. /\ w \in Seq(E) /\ Len(s) \in Nat /\ Len(w) = Len(s) + 1 /\ w[Len(s) + 1] = e
      /\ \A k \in 1..Len(s) : w[k] = s[k]
  OBVIOUS
<1> HIDE DEF w
<1>2. ASSUME NEW k \in 1..Len(w) PROVE (k = Len(s) + 1 /\ w[k] = e) \/ (k \in 1..Len(s) /\ w[k] = s[k])
  BY <1>1
<1>3. ASSUME OnceOf(s), ~Has(s, e.of) PROVE OnceOf(w)
  <2>1. ASSUME NEW i \in 1..Len(w), NEW j \in 1..Len(w), w[i].of = w[j].of PROVE i = j
    <3>1. CASE i \in 1..Len(s) /\ j \in 1..Len(s)
      BY <1>1, <1>3, <2>1, <3>1 DEF OnceOf
    <3>2. CASE i \notin 1..Len(s) \/ j \notin 1..Len(s)
      BY <1>2, <1>3, <2>1, <3>2 DEF Has
    <3> QED
      BY <3>1, <3>2
  <2> QED
    BY <2>1 DEF OnceOf
<1>4. ASSUME NEW t PROVE Has(w, t) <=> Has(s, t) \/ t = e.of
  <2>1. ASSUME Has(w, t) PROVE Has(s, t) \/ t = e.of
    BY <1>2, <2>1 DEF Has
  <2>2. Len(s) + 1 \in 1..Len(w)
    BY <1>1
  <2>3. ASSUME Has(s, t) PROVE Has(w, t)
    <3>1. PICK k \in 1..Len(s) : s[k].of = t
      BY <2>3 DEF Has
    <3>2. k \in 1..Len(w) /\ w[k].of = t
      BY <1>1, <3>1
    <3> QED
      BY <3>2 DEF Has
  <2>4. ASSUME t = e.of PROVE Has(w, t)
    BY <1>1, <2>2, <2>4 DEF Has
  <2> QED
    BY <2>1, <2>3, <2>4
<1> QED
  BY <1>1, <1>2, <1>3, <1>4 DEF w, OneMore

\* An entry that is pushed into the heap: the others stay.
LEMMA PushedEntries ==
    ASSUME NEW E, Entries(E), NEW s \in Seq(E), NEW e \in E
    PROVE  /\ PushHeap(Append(s, e)) \in Seq(E) /\ OneMore(PushHeap(Append(s, e)), s, e)
           /\ Heap(s) => Heap(PushHeap(Append(s, e)))
           /\ OnceOf(s) /\ ~Has(s, e.of) => OnceOf(PushHeap(Append(s, e)))
<1> DEFINE w == Append(s, e)
           q == PushHeap(w)
<1>1. w \in Seq(E) /\ OneMore(w, s, e) /\ (OnceOf(s) /\ ~Has(s, e.of) => OnceOf(w))
  BY AppendedEntries
<1>2. q \in Seq(E) /\ Permuted(q, w) /\ (Heap(s) => Heap(q))
  BY PushFacts
<1> HIDE DEF w, q
<1>3. From(q, w) /\ (OnceOf(w) => OnceOf(q)) /\ \A t : Has(q, t) <=> Has(w, t)
  BY <1>1, <1>2, PermutedEntries
<1>4. OneMore(q, s, e)
  BY <1>1, <1>3 DEF From, OneMore
<1> QED
  BY <1>1, <1>2, <1>3, <1>4 DEF q, w

\* What a scan does with the entries of each timer.
LEMMA ScannedEntries ==
    ASSUME NEW E, NEW s \in Seq(E), NEW rest \in Seq(E), NEW taken \in Seq(E), NEW when,
           \E p, f : Scanned(p, f, rest, taken, s, when)
    PROVE  /\ From(rest, s) /\ From(taken, s)
           /\ \A i \in 1..Len(taken) : ~taken[i].cancelled /\ taken[i].expire_at <= when
           /\ Parted(rest, taken, s)
           /\ OnceOf(s) => /\ OnceOf(rest) /\ OnceOf(taken)
                           /\ \A t : ~(Has(rest, t) /\ Has(taken, t))
<1>1. PICK p, f : Scanned(p, f, rest, taken, s, when)
  OBVIOUS
<1>2. ASSUME NEW i \in 1..Len(rest) PROVE p[i] \in 1..Len(s) /\ rest[i] = s[p[i]]
  BY <1>1 DEF Scanned, Picks
<1>3. ASSUME NEW i \in 1..Len(taken) PROVE f[i] \in 1..Len(s) /\ taken[i] = s[f[i]]
  BY <1>1 DEF Scanned, Picks
<1>4. ASSUME NEW k \in 1..Len(s)
      PROVE  \/ s[k].cancelled
             \/ \E i \in 1..Len(rest) : rest[i] = s[k]
             \/ \E i \in 1..Len(taken) : taken[i] = s[k]
  <2>1. \/ s[k].cancelled
        \/ \E i \in 1..Len(rest) : p[i] = k
        \/ \E i \in 1..Len(taken) : f[i] = k
    BY <1>1 DEF Scanned
  <2> QED
    BY <1>2, <1>3, <2>1
<1>5. ASSUME OnceOf(s)
      PROVE  OnceOf(rest) /\ OnceOf(taken) /\ \A t : ~(Has(rest, t) /\ Has(taken, t))
  <2>1. ASSUME NEW i \in 1..Len(rest), NEW j \in 1..Len(rest), rest[i].of = rest[j].of PROVE i = j
    <3>1. p[i] = p[j]
      <4>1. p[i] \in 1..Len(s) /\ p[j] \in 1..Len(s) /\ s[p[i]].of = s[p[j]].of
        BY <1>2, <2>1
      <4> QED
        BY <1>5, <4>1 DEF OnceOf
    <3> QED
      BY <1>1, <3>1 DEF Scanned, Picks
  <2>2. ASSUME NEW i \in 1..Len(taken), NEW j \in 1..Len(taken), taken[i].of = taken[j].of PROVE i = j
    <3>1. f[i] = f[j]
      <4>1. f[i] \in 1..Len(s) /\ f[j] \in 1..Len(s) /\ s[f[i]].of = s[f[j]].of
        BY <1>3, <2>2
      <4> QED
        BY <1>5, <4>1 DEF OnceOf
    <3> QED
      BY <1>1, <3>1 DEF Scanned, Picks
  <2>3. ASSUME NEW i \in 1..Len(rest), NEW j \in 1..Len(taken), rest[i].of = taken[j].of PROVE FALSE
    <3>1. p[i] = f[j]
      <4>1. p[i] \in 1..Len(s) /\ f[j] \in 1..Len(s) /\ s[p[i]].of = s[f[j]].of
        BY <1>2, <1>3, <2>3
      <4> QED
        BY <1>5, <4>1 DEF OnceOf
    <3> QED
      BY <1>1, <3>1 DEF Scanned
  <2> QED
    BY <2>1, <2>2, <2>3 DEF OnceOf, Has
<1>6. \A i \in 1..Len(taken) : ~taken[i].cancelled /\ taken[i].expire_at <= when
  BY <1>1 DEF Scanned
<1> QED
  BY <1>2, <1>3, <1>4, <1>5, <1>6 DEF From, Parted

\* An entry that is marked as cancelled.
Marked(e) == [e EXCEPT !.cancelled = TRUE]

\* cancel marks one entry, the first with the id.
LEMMA MarkFacts ==
    ASSUME NEW E, NEW s \in Seq(E), NEW id, Found(s, id),
           \A e \in E : Marked(e) \in E
    PROVE  /\ First(s, id) \in 1..Len(s) /\ s[First(s, id)].id = id
           /\ MarkFirst(s, id) \in Seq(E) /\ Len(MarkFirst(s, id)) = Len(s)
           /\ \A k \in 1..Len(s) :
                 MarkFirst(s, id)[k] = IF k = First(s, id) THEN Marked(s[k]) ELSE s[k]
<1> DEFINE X == {i \in 1..Len(s) : s[i].id = id}
           IsFirst(i) == s[i].id = id /\ \A j \in 1..(i - 1) : s[j].id # id
<1>1. X \in SUBSET Nat /\ X # {}
  BY DEF Found
<1>2. PICK i \in X : \A j \in X : i <= j
  BY <1>1, LeastNumber
<1>3. i \in 1..Len(s) /\ IsFirst(i)
  <2>1. i \in 1..Len(s) /\ s[i].id = id
    BY <1>2
  <2>2. ASSUME NEW j \in 1..(i - 1) PROVE s[j].id # id
    <3>1. j \in 1..Len(s) /\ ~(i <= j)
      BY <2>1
    <3> QED
      BY <1>2, <3>1
  <2> QED
    BY <2>1, <2>2
<1>4. First(s, id) \in 1..Len(s) /\ IsFirst(First(s, id))
  BY <1>3 DEF First
<1> DEFINE n == First(s, id)
<1> HIDE DEF n
<1> DEFINE e == Marked(s[n])
<1>5. MarkFirst(s, id) = [s EXCEPT ![n] = e]
  BY DEF MarkFirst, Marked, n
<1>6. n \in 1..Len(s) /\ e \in E
  BY <1>4 DEF n
<1> HIDE DEF e
<1>7. MarkFirst(s, id) \in Seq(E) /\ Len(MarkFirst(s, id)) = Len(s)
  BY <1>5, <1>6
<1>8. \A k \in 1..Len(s) : MarkFirst(s, id)[k] = IF k = n THEN Marked(s[k]) ELSE s[k]
  <2>1. \A k \in 1..Len(s) : MarkFirst(s, id)[k] = IF k = n THEN e ELSE s[k]
    BY <1>5, <1>6
  <2> QED
    BY <2>1 DEF e
<1> QED
  BY <1>4, <1>7, <1>8 DEF n

=============================================================================
