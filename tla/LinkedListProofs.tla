-------------------------- MODULE LinkedListProofs --------------------------
(***************************************************************************)
(* Proofs about LinkedList: for any number of lists in a memory of any     *)
(* size, the lists stay chains apart from one another, and every call does *)
(* to them what the sequence operation of ListSpec says.                   *)
(***************************************************************************)
EXTENDS LinkedList, FiniteSetTheorems, WellFoundedInduction, TLAPS

Memory == [Cells -> [data : Node \cup {NULL}, next : Pointer]]

-----------------------------------------------------------------------------
\* Induction, by the smallest counterexample.

\* A non-empty set of naturals has a smallest element.
LEMMA Minimum ==
  ASSUME NEW S, S \subseteq Nat, S # {}
  PROVE  \E i \in S : \A j \in S : i <= j
  <1> DEFINE R == OpToRel(<, Nat)
  <1>1. IsWellFoundedOn(R, Nat)
    BY NatLessThanWellFounded
  <1>2. \A x, y \in Nat : x < y => <<x, y>> \in R
    BY DEF OpToRel
  <1> HIDE DEF R
  <1>3. PICK i \in S : \A j \in S : <<j, i>> \notin R
    BY <1>1, WFMin
  <1>4. ASSUME NEW j \in S PROVE i <= j
    <2>1. ~(j < i)
      BY <1>2, <1>3
    <2> QED BY <2>1
  <1> QED BY <1>4

\* First is the only smallest member of the set it is given.
LEMMA FirstIs ==
  ASSUME NEW S, S \subseteq Nat, S # {}
  PROVE  /\ First(S) \in S
         /\ \A j \in S : First(S) <= j
         /\ \A i \in S : (\A j \in S : i <= j) => First(S) = i
  <1>1. \E i \in S : \A j \in S : i <= j
    BY Minimum
  <1>2. First(S) \in S /\ \A j \in S : First(S) <= j
    BY <1>1 DEF First
  <1>3. ASSUME NEW i \in S, \A j \in S : i <= j PROVE First(S) = i
    <2>1. First(S) <= i /\ i <= First(S) /\ First(S) \in Nat /\ i \in Nat
      BY <1>2, <1>3
    <2> QED BY <2>1
  <1> QED BY <1>2, <1>3

\* A set of naturals that has 0, and n + 1 with every n, has them all.
LEMMA AllNaturals ==
  ASSUME NEW S, 0 \in S, \A n \in Nat : n \in S => n + 1 \in S
  PROVE  \A n \in Nat : n \in S
  <1> DEFINE T == {n \in Nat : n \notin S}
  <1>1. CASE T = {}
    BY <1>1
  <1>2. CASE T # {}
    <2>1. PICK i \in T : \A j \in T : i <= j
      BY <1>2, Minimum
    <2>2. i \in Nat /\ i # 0 /\ i - 1 \in Nat /\ i - 1 \notin T
      BY <2>1
    <2>3. i - 1 \in S /\ (i - 1) + 1 = i
      BY <2>2
    <2> QED BY <2>1, <2>2, <2>3
  <1> QED BY <1>1, <1>2

-----------------------------------------------------------------------------
\* The walk along next pointers.

\* f follows the pointers of mem from p for n steps.
Walks(mem, p, n, f) ==
  /\ f \in [0..n -> Pointer]
  /\ f[0] = p
  /\ \A i \in 1..n : f[i] = following(mem, f[i - 1])

\* One step from a pointer is a pointer.
LEMMA FollowingType ==
  ASSUME NEW mem \in Memory, NEW p \in Pointer
  PROVE  following(mem, p) \in Pointer
  BY DEF Memory, following, Pointer

\* There is a walk of every length.
LEMMA WalkExists ==
  ASSUME NEW mem \in Memory, NEW p \in Pointer
  PROVE  \A n \in Nat : \E f : Walks(mem, p, n, f)
  <1> DEFINE S == {n \in Nat : \E f : Walks(mem, p, n, f)}
  <1>1. 0 \in S
    <2> DEFINE f == [i \in 0..0 |-> p]
    <2>1. Walks(mem, p, 0, f)
      BY DEF Walks
    <2> QED BY <2>1
  <1>2. ASSUME NEW n \in Nat, n \in S PROVE n + 1 \in S
    <2>1. PICK f : Walks(mem, p, n, f)
      BY <1>2
    <2> DEFINE g == [i \in 0..(n + 1) |-> IF i <= n THEN f[i] ELSE following(mem, f[n])]
    <2>2. \A i \in 0..n : g[i] = f[i] /\ f[i] \in Pointer
      BY <2>1 DEF Walks
    <2>3. g[n + 1] = following(mem, f[n]) /\ following(mem, f[n]) \in Pointer
      BY <2>2, FollowingType
    <2>4. g \in [0..(n + 1) -> Pointer]
      BY <2>2, <2>3
    <2>5. ASSUME NEW i \in 1..(n + 1) PROVE g[i] = following(mem, g[i - 1])
      <3>1. CASE i <= n
        BY <2>1, <2>2, <3>1 DEF Walks
      <3>2. CASE i = n + 1
        BY <2>2, <2>3, <3>2
      <3> QED BY <3>1, <3>2
    <2>6. g[0] = p
      BY <2>1, <2>2 DEF Walks
    <2>7. Walks(mem, p, n + 1, g)
      BY <2>4, <2>5, <2>6 DEF Walks
    <2> QED BY <2>7
  <1> HIDE DEF S
  <1>3. \A n \in Nat : n \in S
    BY <1>1, <1>2, AllNaturals
  <1> QED BY <1>3 DEF S

\* Two walks agree as far as both go.
LEMMA WalksAgree ==
  ASSUME NEW mem \in Memory, NEW p \in Pointer,
         NEW n \in Nat, NEW f, Walks(mem, p, n, f),
         NEW m \in Nat, NEW g, Walks(mem, p, m, g)
  PROVE  \A i \in Nat : i <= n /\ i <= m => f[i] = g[i]
  <1> DEFINE S == {i \in Nat : i <= n /\ i <= m => f[i] = g[i]}
  <1>1. 0 \in S
    BY DEF Walks
  <1>2. ASSUME NEW i \in Nat, i \in S PROVE i + 1 \in S
    <2> SUFFICES ASSUME i + 1 <= n, i + 1 <= m PROVE f[i + 1] = g[i + 1]
      OBVIOUS
    <2>1. f[i] = g[i]
      BY <1>2
    <2>2. i + 1 \in 1..n /\ i + 1 \in 1..m /\ (i + 1) - 1 = i
      OBVIOUS
    <2> QED BY <2>1, <2>2 DEF Walks
  <1> HIDE DEF S
  <1>3. \A i \in Nat : i \in S
    BY <1>1, <1>2, AllNaturals
  <1> QED BY <1>3 DEF S

\* The recursion that defines Steps has a solution: Steps is that function.
LEMMA StepsAre ==
  ASSUME NEW mem \in Memory, NEW p \in Pointer
  PROVE  /\ Steps(mem, p) \in [Nat -> Pointer]
         /\ Steps(mem, p)[0] = p
         /\ \A n \in Nat : Steps(mem, p)[n + 1] = following(mem, Steps(mem, p)[n])
  <1> DEFINE W(n) == CHOOSE f : Walks(mem, p, n, f)
             F == [n \in Nat |-> W(n)[n]]
             G(f) == [i \in Nat |-> IF i = 0 THEN p ELSE following(mem, f[i - 1])]
  <1>1. ASSUME NEW n \in Nat PROVE Walks(mem, p, n, W(n))
    BY WalkExists
  <1> HIDE DEF W
  <1>2. \A n \in Nat : F[n] = W(n)[n] /\ F[n] \in Pointer
    <2> TAKE n \in Nat
    <2>1. W(n) \in [0..n -> Pointer] /\ n \in 0..n
      BY <1>1 DEF Walks
    <2> QED BY <2>1
  <1>3. F[0] = p
    BY <1>1, <1>2 DEF Walks
  <1>4. ASSUME NEW n \in Nat PROVE F[n + 1] = following(mem, F[n])
    <2>1. Walks(mem, p, n, W(n)) /\ Walks(mem, p, n + 1, W(n + 1))
      BY <1>1
    <2>2. W(n)[n] = W(n + 1)[n]
      BY <2>1, WalksAgree
    <2>3. n + 1 \in 1..(n + 1) /\ (n + 1) - 1 = n
      OBVIOUS
    <2>4. W(n + 1)[n + 1] = following(mem, W(n + 1)[n])
      BY <2>1, <2>3 DEF Walks
    <2> QED BY <1>2, <2>2, <2>4
  <1>5. F = G(F)
    <2> HIDE DEF F
    <2>1. ASSUME NEW i \in Nat PROVE F[i] = IF i = 0 THEN p ELSE following(mem, F[i - 1])
      <3>1. CASE i = 0
        BY <1>3, <3>1
      <3>2. CASE i # 0
        <4>1. i - 1 \in Nat /\ (i - 1) + 1 = i
          BY <3>2
        <4> QED BY <1>4, <3>2, <4>1
      <3> QED BY <3>1, <3>2
    <2>2. F = [i \in Nat |-> F[i]]
      BY DEF F
    <2> QED BY <2>1, <2>2
  <1>6. Steps(mem, p) = CHOOSE f : f = G(f)
    BY DEF Steps
  <1> DEFINE T == Steps(mem, p)
  <1>7. T = G(T)
    <2> HIDE DEF G, F
    <2>1. \E f : f = G(f)
      BY <1>5
    <2> QED BY <1>6, <2>1
  <1> HIDE DEF T, F
  <1>8. T[0] = p
    BY <1>7
  <1>9. ASSUME NEW n \in Nat PROVE T[n + 1] = following(mem, T[n])
    <2>1. n + 1 \in Nat /\ n + 1 # 0 /\ (n + 1) - 1 = n
      OBVIOUS
    <2> QED BY <1>7, <2>1
  <1> DEFINE S == {n \in Nat : T[n] \in Pointer}
  <1>10. 0 \in S
    BY <1>8
  <1>11. ASSUME NEW n \in Nat, n \in S PROVE n + 1 \in S
    BY <1>9, <1>11, FollowingType
  <1> HIDE DEF S
  <1>12. \A n \in Nat : n \in S
    BY <1>10, <1>11, AllNaturals
  <1>13. \A n \in Nat : T[n] \in Pointer
    BY <1>12 DEF S
  <1>14. T = [n \in Nat |-> T[n]]
    <2> HIDE DEF G
    <2>1. G(T) = [n \in Nat |-> G(T)[n]]
      BY DEF G
    <2> QED BY <1>7, <2>1
  <1>15. T \in [Nat -> Pointer]
    BY <1>13, <1>14
  <1> QED BY <1>8, <1>9, <1>15 DEF T

-----------------------------------------------------------------------------
\* Chains.

\* What follows a node of a chain is a node of it, or NULL behind the last.
LEMMA SuccType ==
  ASSUME NEW s \in Seq(Cells), NEW k \in Nat
  PROVE  /\ Succ(s, k) \in Pointer
         /\ k < Len(s) => Succ(s, k) = s[k + 1] /\ s[k + 1] \in Cells /\ Succ(s, k) # NULL
         /\ k >= Len(s) => Succ(s, k) = NULL
  <1>1. PICK n \in Nat : n = Len(s)
    OBVIOUS
  <1>2. CASE k < n
    <2>1. k + 1 \in 1..Len(s)
      BY <1>1, <1>2
    <2>2. s[k + 1] \in Cells
      BY <2>1
    <2> QED BY <1>1, <1>2, <2>2, LinkedListAssumption DEF Succ, Pointer
  <1>3. CASE ~(k < n)
    BY <1>1, <1>3 DEF Succ, Pointer
  <1> QED BY <1>2, <1>3

\* The walk from the head of a chain visits its nodes in order, and stays at
\* NULL behind the last one.
LEMMA StepsOfChain ==
  ASSUME NEW mem \in Memory, NEW p \in Pointer, NEW s, IsChain(mem, p, s)
  PROVE  \A n \in Nat : Steps(mem, p)[n] = Succ(s, n)
  <1> DEFINE T == Steps(mem, p)
             S == {n \in Nat : T[n] = Succ(s, n)}
  <1>1. T[0] = p /\ \A n \in Nat : T[n + 1] = following(mem, T[n])
    BY StepsAre
  <1>2. s \in Seq(Cells) /\ p = Succ(s, 0)
    BY DEF IsChain
  <1> HIDE DEF T
  <1>3. 0 \in S
    BY <1>1, <1>2
  <1>4. ASSUME NEW n \in Nat, n \in S PROVE n + 1 \in S
    <2>1. T[n] = Succ(s, n) /\ T[n + 1] = following(mem, T[n])
      BY <1>1, <1>4
    <2>2. CASE n < Len(s)
      <3>1. n + 1 \in 1..Len(s)
        BY <1>2, <2>2
      <3>2. Succ(s, n) = s[n + 1] /\ Succ(s, n) # NULL
        BY <1>2, <2>2, SuccType
      <3>3. mem[s[n + 1]].next = Succ(s, n + 1)
        BY <3>1 DEF IsChain
      <3> QED BY <2>1, <3>2, <3>3 DEF following
    <2>3. CASE ~(n < Len(s))
      <3>1. Succ(s, n) = NULL /\ Succ(s, n + 1) = NULL
        BY <1>2, <2>3, SuccType
      <3> QED BY <2>1, <3>1 DEF following
    <2> QED BY <2>2, <2>3
  <1> HIDE DEF S
  <1>5. \A n \in Nat : n \in S
    BY <1>3, <1>4, AllNaturals
  <1> QED BY <1>5 DEF S, T

\* A chain is no longer than the memory has cells, and leaves one over if a
\* cell is not in it.
LEMMA ChainLength ==
  ASSUME NEW mem, NEW p, NEW s, IsChain(mem, p, s)
  PROVE  /\ Len(s) <= Cardinality(Cells)
         /\ Cardinality(Cells) \in Nat
         /\ \A c \in Cells : (\A k \in 1..Len(s) : s[k] # c) => Len(s) < Cardinality(Cells)
  <1>1. s \in Seq(Cells) /\ Len(s) \in Nat
    BY DEF IsChain
  <1>2. s \in Injection(1..Len(s), Cells)
    <2>1. s \in [1..Len(s) -> Cells]
      BY <1>1
    <2>2. \A j, k \in 1..Len(s) : s[j] = s[k] => j = k
      BY DEF IsChain
    <2>3. DOMAIN s = 1..Len(s)
      BY <1>1
    <2> QED BY <2>1, <2>2, <2>3 DEF Injection, IsInjective
  <1>3. Cardinality(1..Len(s)) = Len(s)
    <2>1. \A n \in Nat : Cardinality(1..n) = n
      BY FS_Interval
    <2> QED BY <1>1, <2>1
  <1>4. /\ Cardinality(1..Len(s)) <= Cardinality(Cells)
        /\ Cardinality(1..Len(s)) = Cardinality(Cells) <=> s \in Surjection(1..Len(s), Cells)
    BY <1>2, LinkedListAssumption, FS_Injection
  <1>5. Cardinality(Cells) \in Nat
    BY LinkedListAssumption, FS_CardinalityType
  <1>6. ASSUME NEW c \in Cells, \A k \in 1..Len(s) : s[k] # c PROVE Len(s) # Cardinality(Cells)
    <2>1. s \notin Surjection(1..Len(s), Cells)
      BY <1>6 DEF Surjection
    <2> QED BY <1>3, <1>4, <2>1
  <1> QED BY <1>1, <1>3, <1>4, <1>5, <1>6

\* Chain finds the chain that begins at a pointer.
LEMMA ChainIs ==
  ASSUME NEW mem \in Memory, NEW p \in Pointer, NEW s, IsChain(mem, p, s)
  PROVE  Chain(mem, p) = s
  <1> DEFINE T == Steps(mem, p)
             visited == {n \in 0..Cardinality(Cells) : T[n] # NULL}
  <1>1. \A n \in Nat : T[n] = Succ(s, n)
    BY StepsOfChain
  <1>2. PICK m \in Nat : m = Len(s)
    BY DEF IsChain
  <1>3. PICK size \in Nat : size = Cardinality(Cells) /\ m <= size
    BY <1>2, ChainLength
  <1>4. s \in Seq(Cells)
    BY DEF IsChain
  <1> HIDE DEF T
  <1>5. visited = 0..(m - 1)
    <2>1. ASSUME NEW n \in Nat PROVE T[n] # NULL <=> n < m
      BY <1>1, <1>2, <1>4, SuccType
    <2>2. \A n \in 0..(m - 1) : n \in 0..size /\ n \in Nat /\ n < m
      BY <1>3
    <2>3. \A n \in 0..size : n < m => n \in 0..(m - 1)
      BY <1>3
    <2> QED BY <1>3, <2>1, <2>2, <2>3
  <1>6. Cardinality(visited) = m
    <2>1. Cardinality(0..(m - 1)) = m
      BY FS_Interval
    <2> QED BY <1>5, <2>1
  <1> HIDE DEF visited
  <1>7. Chain(mem, p) = [k \in 1..m |-> T[k - 1]]
    BY <1>6 DEF Chain, visited, T
  <1>8. \A k \in 1..m : T[k - 1] = s[k]
    <2> TAKE k \in 1..m
    <2>1. k - 1 \in Nat /\ k - 1 < m /\ (k - 1) + 1 = k
      OBVIOUS
    <2>2. T[k - 1] = Succ(s, k - 1)
      BY <1>1, <2>1
    <2> QED BY <1>2, <1>4, <2>1, <2>2, SuccType
  <1>9. s = [k \in 1..m |-> s[k]]
    BY <1>2, <1>4
  <1> QED BY <1>7, <1>8, <1>9

-----------------------------------------------------------------------------
\* What an edit of the pointers makes of a chain.

\* A chain stays one while its own next pointers are not written.
LEMMA ChainKept ==
  ASSUME NEW mem, NEW p, NEW s, IsChain(mem, p, s),
         NEW mem2, \A k \in 1..Len(s) : mem2[s[k]].next = mem[s[k]].next
  PROVE  IsChain(mem2, p, s)
  BY DEF IsChain

\* s with e in front of what was its element m + 1.
Inserted(s, m, e) ==
  [i \in 1..(Len(s) + 1) |-> IF i <= m THEN s[i] ELSE IF i = m + 1 THEN e ELSE s[i - 1]]

\* Insertion as the sequence operation of ListSpec has it.
LEMMA InsertedType ==
  ASSUME NEW S, NEW s \in Seq(S), NEW m \in 0..Len(s), NEW e \in S
  PROVE  /\ Inserted(s, m, e) \in Seq(S)
         /\ Len(Inserted(s, m, e)) = Len(s) + 1
         /\ \A i \in 1..(Len(s) + 1) :
              Inserted(s, m, e)[i] = IF i <= m THEN s[i] ELSE IF i = m + 1 THEN e ELSE s[i - 1]
  <1>1. PICK n \in Nat : n = Len(s)
    OBVIOUS
  <1> DEFINE t == Inserted(s, m, e)
  <1>2. t = [i \in 1..(n + 1) |-> IF i <= m THEN s[i] ELSE IF i = m + 1 THEN e ELSE s[i - 1]]
    BY <1>1 DEF Inserted
  <1>3. \A i \in 1..(n + 1) : t[i] \in S
    <2> TAKE i \in 1..(n + 1)
    <2>1. CASE i <= m
      BY <1>1, <1>2, <2>1
    <2>2. CASE i = m + 1
      BY <1>1, <1>2, <2>2
    <2>3. CASE i > m + 1
      <3>1. i - 1 \in 1..n /\ t[i] = s[i - 1]
        BY <1>1, <1>2, <2>3
      <3> QED BY <1>1, <3>1
    <2> QED BY <1>1, <2>1, <2>2, <2>3
  <1>4. t \in [1..(n + 1) -> S]
    BY <1>2, <1>3
  <1>5. t \in Seq(S) /\ Len(t) = n + 1
    BY <1>4
  <1> QED BY <1>1, <1>2, <1>5

\* What t is if it is s with e in front of what was element m + 1.
IsInserted(t, s, m, e) ==
  /\ Len(t) = Len(s) + 1
  /\ \A i \in 1..(Len(s) + 1) :
       t[i] = IF i <= m THEN s[i] ELSE IF i = m + 1 THEN e ELSE s[i - 1]

\* The same of cells, for citing.
LEMMA InsertedCells ==
  ASSUME NEW s \in Seq(Cells), NEW m \in 0..Len(s), NEW e \in Cells
  PROVE  IsInserted(Inserted(s, m, e), s, m, e)
  <1>1. PICK n \in Nat : n = Len(s)
    OBVIOUS
  <1> DEFINE t == Inserted(s, m, e)
  <1>2. t = [i \in 1..(n + 1) |-> IF i <= m THEN s[i] ELSE IF i = m + 1 THEN e ELSE s[i - 1]]
    BY <1>1 DEF Inserted
  <1>3. \A i \in 1..(n + 1) : t[i] = IF i <= m THEN s[i] ELSE IF i = m + 1 THEN e ELSE s[i - 1]
    BY <1>2
  <1>4. Len(t) = n + 1
    <2>1. t \in Seq(Cells)
      BY InsertedType
    <2>2. DOMAIN t = 1..(n + 1)
      BY <1>2
    <2> HIDE DEF t
    <2> QED BY <1>1, <2>1, <2>2
  <1> HIDE DEF t
  <1>5. IsInserted(t, s, m, e)
    BY <1>1, <1>3, <1>4 DEF IsInserted
  <1> QED BY <1>5 DEF t

\* A sequence shortened by one of its elements.
LEMMA WithoutType ==
  ASSUME NEW S, NEW s \in Seq(S), NEW n \in 1..Len(s)
  PROVE  /\ Without(s, n) \in Seq(S)
         /\ Len(Without(s, n)) = Len(s) - 1
         /\ \A i \in 1..(Len(s) - 1) : Without(s, n)[i] = IF i < n THEN s[i] ELSE s[i + 1]
  <1>1. PICK m \in Nat : m = Len(s)
    OBVIOUS
  <1> DEFINE t == Without(s, n)
  <1>2. t = [i \in 1..(m - 1) |-> IF i < n THEN s[i] ELSE s[i + 1]]
    BY <1>1 DEF Without
  <1>3. \A i \in 1..(m - 1) : t[i] \in S
    BY <1>1, <1>2
  <1>4. m - 1 \in Nat /\ t \in [1..(m - 1) -> S]
    BY <1>1, <1>2, <1>3
  <1>5. t \in Seq(S) /\ Len(t) = m - 1
    BY <1>4
  <1> QED BY <1>1, <1>2, <1>5

\* A new node linked in front of node m + 1 becomes part of the chain there.
LEMMA ChainInserted ==
  ASSUME NEW mem, NEW p, NEW s, IsChain(mem, p, s),
         NEW m \in 0..Len(s),
         NEW c \in Cells, \A i \in 1..Len(s) : s[i] # c,
         NEW mem2, mem2[c].next = Succ(s, m),
         m > 0 => mem2[s[m]].next = c,
         \A i \in 1..Len(s) : i # m => mem2[s[i]].next = mem[s[i]].next
  PROVE  IsChain(mem2, IF m = 0 THEN c ELSE p, Inserted(s, m, c))
  <1> DEFINE t == Inserted(s, m, c)
  <1>1. s \in Seq(Cells) /\ p = Succ(s, 0)
    BY DEF IsChain
  <1>2. PICK n \in Nat : n = Len(s)
    BY <1>1
  <1>3. /\ t \in Seq(Cells)
        /\ Len(t) = n + 1
        /\ \A i \in 1..(n + 1) : t[i] = IF i <= m THEN s[i] ELSE IF i = m + 1 THEN c ELSE s[i - 1]
    <2>1. /\ t \in Seq(Cells)
          /\ Len(t) = Len(s) + 1
          /\ \A i \in 1..(Len(s) + 1) :
               t[i] = IF i <= m THEN s[i] ELSE IF i = m + 1 THEN c ELSE s[i - 1]
      <3> HIDE DEF t
      <3> QED BY <1>1, InsertedType DEF t
    <2> HIDE DEF t
    <2> QED BY <1>2, <2>1
  <1> HIDE DEF t
  <1>4. (IF m = 0 THEN c ELSE p) = Succ(t, 0)
    <2>1. Succ(t, 0) = t[1]
      BY <1>2, <1>3 DEF Succ
    <2>2. CASE m = 0
      BY <1>2, <1>3, <2>1, <2>2
    <2>3. CASE m # 0
      BY <1>1, <1>2, <1>3, <2>1, <2>3 DEF Succ
    <2> QED BY <2>2, <2>3
  <1>5. ASSUME NEW i \in 1..(n + 1) PROVE mem2[t[i]].next = Succ(t, i)
    <2>1. CASE i < m
      <3>1. t[i] = s[i] /\ t[i + 1] = s[i + 1] /\ Succ(t, i) = t[i + 1] /\ Succ(s, i) = s[i + 1]
        BY <1>2, <1>3, <2>1 DEF Succ
      <3>2. mem2[s[i]].next = Succ(s, i)
        BY <1>2, <2>1 DEF IsChain
      <3> QED BY <3>1, <3>2
    <2>2. CASE i = m
      <3>1. t[i] = s[i] /\ t[i + 1] = c /\ Succ(t, i) = t[i + 1]
        BY <1>2, <1>3, <2>2 DEF Succ
      <3> QED BY <2>2, <3>1
    <2>3. CASE i = m + 1
      <3>1. t[i] = c /\ Succ(t, i) = Succ(s, m)
        BY <1>2, <1>3, <2>3 DEF Succ
      <3> QED BY <3>1
    <2>4. CASE i > m + 1
      <3>1. t[i] = s[i - 1] /\ Succ(t, i) = Succ(s, i - 1) /\ i - 1 \in 1..n /\ i - 1 # m
        BY <1>2, <1>3, <2>4 DEF Succ
      <3>2. mem2[s[i - 1]].next = Succ(s, i - 1)
        BY <1>2, <3>1 DEF IsChain
      <3> QED BY <3>1, <3>2
    <2> QED BY <1>2, <2>1, <2>2, <2>3, <2>4
  <1>6. ASSUME NEW j \in 1..(n + 1), NEW k \in 1..(n + 1), t[j] = t[k] PROVE j = k
    <2> DEFINE from(i) == IF i <= m THEN i ELSE i - 1
    <2>1. ASSUME NEW i \in 1..(n + 1), i # m + 1
          PROVE  from(i) \in 1..n /\ t[i] = s[from(i)] /\ t[i] # c
      BY <1>2, <1>3, <2>1
    <2>2. t[m + 1] = c
      BY <1>2, <1>3
    <2>3. CASE j # m + 1 /\ k # m + 1
      <3>1. from(j) = from(k)
        BY <1>2, <1>6, <2>1, <2>3 DEF IsChain
      <3> QED BY <2>3, <3>1
    <2>4. CASE j = m + 1 \/ k = m + 1
      BY <1>6, <2>1, <2>2, <2>4
    <2> QED BY <2>3, <2>4
  <1> QED BY <1>3, <1>4, <1>5, <1>6 DEF IsChain, t

\* A new node linked behind node k becomes the last one of the chain.
LEMMA ChainCut ==
  ASSUME NEW mem, NEW p, NEW s, IsChain(mem, p, s),
         NEW k \in 0..Len(s),
         NEW c \in Cells, \A i \in 1..Len(s) : s[i] # c,
         NEW mem2, mem2[c].next = NULL,
         k > 0 => mem2[s[k]].next = c,
         \A i \in 1..(k - 1) : mem2[s[i]].next = mem[s[i]].next
  PROVE  IsChain(mem2, IF k = 0 THEN c ELSE p, Append(SubSeq(s, 1, k), c))
  <1> DEFINE t == Append(SubSeq(s, 1, k), c)
  <1>1. s \in Seq(Cells) /\ p = Succ(s, 0)
    BY DEF IsChain
  <1>2. PICK n \in Nat : n = Len(s)
    BY <1>1
  <1>3. /\ t \in Seq(Cells)
        /\ Len(t) = k + 1
        /\ \A i \in 1..k : t[i] = s[i]
        /\ t[k + 1] = c
    BY <1>1
  <1> HIDE DEF t
  <1>4. (IF k = 0 THEN c ELSE p) = Succ(t, 0)
    BY <1>1, <1>2, <1>3 DEF Succ
  <1>5. ASSUME NEW i \in 1..(k + 1) PROVE mem2[t[i]].next = Succ(t, i)
    <2>1. CASE i < k
      <3>1. t[i] = s[i] /\ Succ(t, i) = s[i + 1] /\ Succ(s, i) = s[i + 1]
        BY <1>2, <1>3, <2>1 DEF Succ
      <3>2. mem2[s[i]].next = Succ(s, i)
        BY <1>2, <2>1 DEF IsChain
      <3> QED BY <3>1, <3>2
    <2>2. CASE i = k
      BY <1>2, <1>3, <2>2 DEF Succ
    <2>3. CASE i = k + 1
      BY <1>2, <1>3, <2>3 DEF Succ
    <2> QED BY <1>2, <2>1, <2>2, <2>3
  <1>6. ASSUME NEW j \in 1..(k + 1), NEW i \in 1..(k + 1), t[j] = t[i] PROVE j = i
    <2>1. \A x \in 1..k : t[x] = s[x] /\ s[x] # c /\ x \in 1..n
      BY <1>2, <1>3
    <2>2. CASE j \in 1..k /\ i \in 1..k
      BY <1>2, <1>6, <2>1, <2>2 DEF IsChain
    <2>3. CASE j = k + 1 \/ i = k + 1
      BY <1>2, <1>3, <1>6, <2>1, <2>3
    <2> QED BY <1>2, <2>2, <2>3
  <1> QED BY <1>2, <1>3, <1>4, <1>5, <1>6 DEF IsChain, t

\* Unlinking node n leaves the chain of the others.
LEMMA ChainDropped ==
  ASSUME NEW mem, NEW p, NEW s, IsChain(mem, p, s),
         NEW n \in 1..Len(s),
         NEW mem2,
         n > 1 => mem2[s[n - 1]].next = Succ(s, n),
         \A i \in 1..Len(s) : i # n - 1 /\ i # n => mem2[s[i]].next = mem[s[i]].next
  PROVE  IsChain(mem2, IF n = 1 THEN Succ(s, 1) ELSE p, Without(s, n))
  <1> DEFINE t == Without(s, n)
  <1>1. s \in Seq(Cells) /\ p = Succ(s, 0)
    BY DEF IsChain
  <1>2. PICK m \in Nat : m = Len(s) /\ m > 0
    BY <1>1
  <1>3. /\ t \in Seq(Cells)
        /\ Len(t) = m - 1
        /\ \A i \in 1..(m - 1) : t[i] = IF i < n THEN s[i] ELSE s[i + 1]
    BY <1>1, <1>2, WithoutType
  <1> HIDE DEF t
  <1>4. (IF n = 1 THEN Succ(s, 1) ELSE p) = Succ(t, 0)
    BY <1>1, <1>2, <1>3 DEF Succ
  <1>5. ASSUME NEW i \in 1..(m - 1) PROVE mem2[t[i]].next = Succ(t, i)
    <2>1. CASE i < n - 1
      <3>1. t[i] = s[i] /\ Succ(t, i) = Succ(s, i)
        BY <1>2, <1>3, <2>1 DEF Succ
      <3>2. mem2[s[i]].next = Succ(s, i)
        BY <1>2, <2>1 DEF IsChain
      <3> QED BY <3>1, <3>2
    <2>2. CASE i = n - 1
      <3>1. t[i] = s[n - 1] /\ Succ(t, i) = Succ(s, n) /\ n > 1
        BY <1>2, <1>3, <2>2 DEF Succ
      <3> QED BY <3>1
    <2>3. CASE i >= n
      <3>1. t[i] = s[i + 1] /\ Succ(t, i) = Succ(s, i + 1) /\ i + 1 \in 1..m /\ i + 1 # n /\ i + 1 # n - 1
        BY <1>2, <1>3, <2>3 DEF Succ
      <3>2. mem2[s[i + 1]].next = Succ(s, i + 1)
        BY <1>2, <3>1 DEF IsChain
      <3> QED BY <3>1, <3>2
    <2> QED BY <1>2, <2>1, <2>2, <2>3
  <1>6. ASSUME NEW j \in 1..(m - 1), NEW k \in 1..(m - 1), t[j] = t[k] PROVE j = k
    <2> DEFINE from(i) == IF i < n THEN i ELSE i + 1
    <2>1. ASSUME NEW i \in 1..(m - 1) PROVE from(i) \in 1..m /\ t[i] = s[from(i)]
      BY <1>2, <1>3
    <2>2. from(j) = from(k)
      BY <1>2, <1>6, <2>1 DEF IsChain
    <2> QED BY <2>2
  <1> QED BY <1>3, <1>4, <1>5, <1>6 DEF IsChain, t

-----------------------------------------------------------------------------
\* Lists as sequences.

\* The contents of the nodes on a path, and the position of a node on it.
Seen(mem, s) == [k \in 1..Len(s) |-> mem[s[k]].data]
PlaceOf(s, c) ==
  LET places == {k \in 1..Len(s) : s[k] = c}
  IN IF places = {} THEN 0 ELSE First(places)
View(mem, ls, paths) ==
  [l \in Lists |-> [nodes |-> Seen(mem, paths[l]), tail |-> PlaceOf(paths[l], ls[l].tail)]]

\* A node of a chain has one position, a node that is not in it has none.
LEMMA PlaceIs ==
  ASSUME NEW mem, NEW p, NEW s, IsChain(mem, p, s), NEW c
  PROVE  /\ PlaceOf(s, c) \in 0..Len(s)
         /\ \A k \in 1..Len(s) : s[k] = c => PlaceOf(s, c) = k
         /\ (\A k \in 1..Len(s) : s[k] # c) => PlaceOf(s, c) = 0
         /\ PlaceOf(s, c) # 0 => s[PlaceOf(s, c)] = c
  <1> DEFINE places == {k \in 1..Len(s) : s[k] = c}
  <1>1. Len(s) \in Nat /\ places \subseteq Nat
    BY DEF IsChain
  <1>2. PlaceOf(s, c) = IF places = {} THEN 0 ELSE First(places)
    BY DEF PlaceOf
  <1>3. ASSUME NEW k \in 1..Len(s), s[k] = c PROVE places = {k} /\ First(places) = k
    <2>1. places = {k}
      BY <1>3 DEF IsChain
    <2>2. First(places) \in places
      BY <1>1, <2>1, FirstIs
    <2> QED BY <2>1, <2>2
  <1>4. CASE places = {}
    BY <1>1, <1>2, <1>4
  <1>5. CASE places # {}
    <2>1. PICK k \in 1..Len(s) : s[k] = c
      BY <1>5
    <2>2. PlaceOf(s, c) = k
      BY <1>2, <1>3, <2>1
    <2> HIDE DEF places
    <2>3. \A i \in 1..Len(s) : s[i] = c => i = k
      BY <2>1 DEF IsChain
    <2> QED BY <1>1, <2>1, <2>2, <2>3
  <1> QED BY <1>4, <1>5

\* What is seen of a path is a sequence of as many nodes.
LEMMA SeenIs ==
  ASSUME NEW mem, NEW s \in Seq(Cells), \A k \in 1..Len(s) : mem[s[k]].data \in Node
  PROVE  /\ Seen(mem, s) \in Seq(Node)
         /\ Len(Seen(mem, s)) = Len(s)
         /\ \A k \in 1..Len(s) : Seen(mem, s)[k] = mem[s[k]].data
  <1>1. PICK n \in Nat : n = Len(s)
    OBVIOUS
  <1>2. Seen(mem, s) \in [1..n -> Node]
    BY <1>1 DEF Seen
  <1>3. Seen(mem, s) \in Seq(Node) /\ Len(Seen(mem, s)) = n
    BY <1>2
  <1> QED BY <1>1, <1>3 DEF Seen

\* A sequence cut off behind its element k, with another element appended.
LEMMA CutIs ==
  ASSUME NEW S, NEW q \in Seq(S), NEW k \in 0..Len(q), NEW e \in S,
         NEW r \in Seq(S), Len(r) = k + 1, \A i \in 1..k : r[i] = q[i], r[k + 1] = e
  PROVE  Append(SubSeq(q, 1, k), e) = r
  <1> DEFINE t == Append(SubSeq(q, 1, k), e)
  <1>1. t \in Seq(S) /\ Len(t) = k + 1 /\ (\A i \in 1..k : t[i] = q[i]) /\ t[k + 1] = e
    OBVIOUS
  <1> HIDE DEF t
  <1>2. \A i \in 1..(k + 1) : t[i] = r[i]
    BY <1>1
  <1>3. t = r
    BY <1>1, <1>2
  <1> QED BY <1>3 DEF t

\* A new node in front of node m + 1 of the path.
LEMMA SeenInserted ==
  ASSUME NEW mem, NEW s \in Seq(Cells), \A i \in 1..Len(s) : mem[s[i]].data \in Node,
         NEW m \in 0..Len(s), NEW c \in Cells,
         NEW mem2, mem2[c].data \in Node,
         \A i \in 1..Len(s) : mem2[s[i]].data = mem[s[i]].data
  PROVE  Seen(mem2, Inserted(s, m, c)) = Inserted(Seen(mem, s), m, mem2[c].data)
  <1> DEFINE t == Inserted(s, m, c)
             q == Seen(mem, s)
  <1>1. PICK n \in Nat : n = Len(s)
    OBVIOUS
  <1>2. /\ Len(t) = n + 1
        /\ \A i \in 1..(n + 1) : t[i] = IF i <= m THEN s[i] ELSE IF i = m + 1 THEN c ELSE s[i - 1]
    <2> HIDE DEF t
    <2>1. /\ Len(t) = Len(s) + 1
          /\ \A i \in 1..(Len(s) + 1) :
               t[i] = IF i <= m THEN s[i] ELSE IF i = m + 1 THEN c ELSE s[i - 1]
      BY InsertedType DEF t
    <2> QED BY <1>1, <2>1
  <1>3. q \in Seq(Node) /\ Len(q) = n /\ \A i \in 1..n : q[i] = mem[s[i]].data
    BY <1>1, SeenIs
  <1> HIDE DEF q, t
  <1>4. Inserted(q, m, mem2[c].data) =
          [i \in 1..(n + 1) |-> IF i <= m THEN q[i] ELSE IF i = m + 1 THEN mem2[c].data ELSE q[i - 1]]
    BY <1>3 DEF Inserted
  <1>5. ASSUME NEW i \in 1..(n + 1)
        PROVE  mem2[t[i]].data = IF i <= m THEN q[i] ELSE IF i = m + 1 THEN mem2[c].data ELSE q[i - 1]
    <2>1. CASE i <= m
      BY <1>1, <1>2, <1>3, <2>1
    <2>2. CASE i = m + 1
      BY <1>1, <1>2, <1>3, <2>2
    <2>3. CASE i > m + 1
      <3>1. i - 1 \in 1..n /\ t[i] = s[i - 1]
        BY <1>1, <1>2, <2>3
      <3> QED BY <1>1, <1>3, <2>3, <3>1
    <2> QED BY <1>1, <2>1, <2>2, <2>3
  <1>6. Seen(mem2, t) = [i \in 1..(n + 1) |-> mem2[t[i]].data]
    BY <1>2 DEF Seen
  <1>7. Seen(mem2, t) = Inserted(q, m, mem2[c].data)
    BY <1>4, <1>5, <1>6
  <1> QED BY <1>7 DEF t, q

\* Node n taken out of the path.
LEMMA SeenWithout ==
  ASSUME NEW mem, NEW s \in Seq(Cells), \A i \in 1..Len(s) : mem[s[i]].data \in Node,
         NEW n \in 1..Len(s),
         NEW mem2, \A i \in 1..Len(s) : i # n => mem2[s[i]].data = mem[s[i]].data
  PROVE  Seen(mem2, Without(s, n)) = Without(Seen(mem, s), n)
  <1> DEFINE t == Without(s, n)
             q == Seen(mem, s)
  <1>1. PICK m \in Nat : m = Len(s)
    OBVIOUS
  <1>2. Len(t) = m - 1 /\ \A i \in 1..(m - 1) : t[i] = IF i < n THEN s[i] ELSE s[i + 1]
    BY <1>1, WithoutType
  <1>3. q \in Seq(Node) /\ Len(q) = m /\ \A i \in 1..m : q[i] = mem[s[i]].data
    BY <1>1, SeenIs
  <1> HIDE DEF q, t
  <1>4. Without(q, n) = [i \in 1..(m - 1) |-> IF i < n THEN q[i] ELSE q[i + 1]]
    BY <1>3 DEF Without
  <1>5. ASSUME NEW i \in 1..(m - 1)
        PROVE  mem2[t[i]].data = IF i < n THEN q[i] ELSE q[i + 1]
    BY <1>1, <1>2, <1>3
  <1>6. Seen(mem2, t) = [i \in 1..(m - 1) |-> mem2[t[i]].data]
    BY <1>2 DEF Seen
  <1>7. Seen(mem2, t) = Without(q, n)
    BY <1>4, <1>5, <1>6
  <1> QED BY <1>7 DEF t, q

-----------------------------------------------------------------------------
\* A step that changes the chain of one list.

\* What LaidOut says of one list; a cell that is not allocated is on no path.
LEMMA LaidOutList ==
  ASSUME NEW mem, NEW alive, NEW ls, NEW paths, LaidOut(mem, alive, ls, paths), NEW l \in Lists
  PROVE  /\ paths[l] \in Seq(Cells)
         /\ IsChain(mem, ls[l].head, paths[l])
         /\ Len(paths[l]) \in Nat
         /\ ls[l].head = NULL <=> Len(paths[l]) = 0
         /\ \A k \in 1..Len(paths[l]) : /\ paths[l][k] \in Cells
                                        /\ paths[l][k] \in alive
                                        /\ mem[paths[l][k]].data \in Node
         /\ \A c : c \notin alive => \A k \in 1..Len(paths[l]) : paths[l][k] # c
  <1>1. paths[l] \in Seq(Cells) /\ IsChain(mem, ls[l].head, paths[l])
    BY DEF LaidOut
  <1>2. \A k \in 1..Len(paths[l]) : paths[l][k] \in alive /\ mem[paths[l][k]].data \in Node
    BY DEF LaidOut
  <1>3. ls[l].head = Succ(paths[l], 0) /\ Len(paths[l]) \in Nat
    BY <1>1 DEF IsChain
  <1>4. ls[l].head = NULL <=> Len(paths[l]) = 0
    BY <1>1, <1>3, SuccType
  <1>5. \A k \in 1..Len(paths[l]) : paths[l][k] \in Cells
    BY <1>1
  <1> QED BY <1>1, <1>2, <1>3, <1>4, <1>5

\* The lists lie in memory as before but for list l, which has the chain t.
Replaced(mem, ls, paths, l, t, mem2, alive2, ls2, paths2) ==
  /\ LaidOut(mem2, alive2, ls2, paths2)
  /\ paths2[l] = t
  /\ \A m \in Lists \ {l} : paths2[m] = paths[m]
  /\ View(mem2, ls2, paths2) =
       [View(mem, ls, paths) EXCEPT ![l] =
          [nodes |-> Seen(mem2, t), tail |-> PlaceOf(t, ls2[l].tail)]]

\* A step that makes t the chain of list l, of nodes that were in that list or
\* not allocated, and leaves the other lists alone.
OnlyList(mem, alive, ls, paths, l, t, mem2, alive2, ls2) ==
  /\ IsChain(mem2, ls2[l].head, t)
  /\ \A k \in 1..Len(t) :
       /\ t[k] \in alive2 /\ mem2[t[k]].data \in Node
       /\ t[k] \notin alive \/ \E i \in 1..Len(paths[l]) : t[k] = paths[l][i]
  /\ \A m \in Lists : ls2[m].head # NULL => ls2[m].tail # NULL
  /\ \A m \in Lists \ {l} :
       /\ ls2[m].head = ls[m].head
       /\ PlaceOf(paths[m], ls2[m].tail) = PlaceOf(paths[m], ls[m].tail)
       /\ \A k \in 1..Len(paths[m]) :
            mem2[paths[m][k]] = mem[paths[m][k]] /\ paths[m][k] \in alive2

\* The lists stay apart if the other chains are left alone, and the new chain
\* consists of nodes of the old one and of nodes that were not allocated.
LEMMA OneReplaced ==
  ASSUME NEW mem, NEW alive, NEW ls, NEW paths, LaidOut(mem, alive, ls, paths),
         NEW l \in Lists, NEW t,
         NEW mem2, NEW alive2, NEW ls2,
         OnlyList(mem, alive, ls, paths, l, t, mem2, alive2, ls2)
  PROVE  \E paths2 : Replaced(mem, ls, paths, l, t, mem2, alive2, ls2, paths2)
  <1> USE DEF OnlyList
  <1> DEFINE paths2 == [paths EXCEPT ![l] = t]
  <1>1. t \in Seq(Cells) /\ paths \in [Lists -> Seq(Cells)]
    BY DEF IsChain, LaidOut
  <1>2. /\ paths2 \in [Lists -> Seq(Cells)]
        /\ paths2[l] = t
        /\ \A m \in Lists \ {l} : paths2[m] = paths[m]
    BY <1>1
  <1> HIDE DEF paths2
  <1>3. ASSUME NEW m \in Lists \ {l} PROVE IsChain(mem2, ls2[m].head, paths2[m])
    <2>1. IsChain(mem, ls[m].head, paths[m])
      BY DEF LaidOut
    <2> DEFINE s == paths[m]
    <2>2. \A k \in 1..Len(s) : mem2[s[k]].next = mem[s[k]].next
      OBVIOUS
    <2>3. IsChain(mem2, ls[m].head, s)
      <3> HIDE DEF s
      <3> QED BY <2>1, <2>2, ChainKept DEF s
    <2> QED BY <1>2, <2>3
  <1>4. ASSUME NEW m \in Lists \ {l}, NEW k \in 1..Len(paths2[m])
        PROVE  paths2[m][k] \in alive2 /\ mem2[paths2[m][k]].data \in Node
    <2>1. paths2[m] = paths[m] /\ mem[paths[m][k]].data \in Node
      BY <1>2, <1>4 DEF LaidOut
    <2> QED BY <1>4, <2>1
  <1>5. ASSUME NEW m \in Lists \ {l}, NEW i \in 1..Len(paths[m]), NEW k \in 1..Len(t)
        PROVE  paths[m][i] # t[k]
    <2>1. paths[m][i] \in alive
      BY DEF LaidOut
    <2>2. \A n \in 1..Len(paths[l]) : paths[m][i] # paths[l][n]
      BY DEF LaidOut
    <2> QED BY <2>1, <2>2
  <1>6. ASSUME NEW m \in Lists, NEW j \in Lists,
               NEW k \in 1..Len(paths2[m]), NEW i \in 1..Len(paths2[j]),
               paths2[m][k] = paths2[j][i]
        PROVE  m = j
    <2>1. CASE m = l /\ j # l
      <3>1. paths2[m] = t /\ paths2[j] = paths[j] /\ j \in Lists \ {l}
        BY <1>2, <2>1
      <3>2. k \in 1..Len(t) /\ i \in 1..Len(paths[j]) /\ paths[j][i] = t[k]
        BY <1>6, <3>1
      <3> QED BY <1>5, <3>1, <3>2
    <2>2. CASE m # l /\ j = l
      <3>1. paths2[j] = t /\ paths2[m] = paths[m] /\ m \in Lists \ {l}
        BY <1>2, <2>2
      <3>2. i \in 1..Len(t) /\ k \in 1..Len(paths[m]) /\ paths[m][k] = t[i]
        BY <1>6, <3>1
      <3> QED BY <1>5, <3>1, <3>2
    <2>3. CASE m # l /\ j # l
      <3>1. paths2[j] = paths[j] /\ paths2[m] = paths[m]
        BY <1>2, <2>3
      <3>2. i \in 1..Len(paths[j]) /\ k \in 1..Len(paths[m]) /\ paths[m][k] = paths[j][i]
        BY <1>6, <3>1
      <3> QED BY <3>2 DEF LaidOut
    <2> QED BY <2>1, <2>2, <2>3
  <1>7. LaidOut(mem2, alive2, ls2, paths2)
    BY <1>2, <1>3, <1>4, <1>6 DEF LaidOut
  <1> DEFINE V == View(mem, ls, paths)
             V2 == View(mem2, ls2, paths2)
             list == [nodes |-> Seen(mem2, t), tail |-> PlaceOf(t, ls2[l].tail)]
  <1>8. V2[l] = list
    BY <1>2 DEF View
  <1>9. ASSUME NEW m \in Lists \ {l} PROVE V2[m] = V[m]
    <2>1. Seen(mem2, paths[m]) = Seen(mem, paths[m])
      BY DEF Seen
    <2>2. PlaceOf(paths[m], ls2[m].tail) = PlaceOf(paths[m], ls[m].tail)
      OBVIOUS
    <2> QED BY <1>2, <2>1, <2>2 DEF View
  <1>10. DOMAIN V2 = Lists /\ DOMAIN V = Lists /\ V2 = [m \in Lists |-> V2[m]]
    BY DEF View
  <1>11. V2 = [V EXCEPT ![l] = list]
    <2> HIDE DEF V, V2, list
    <2> QED BY <1>8, <1>9, <1>10
  <1>12. Replaced(mem, ls, paths, l, t, mem2, alive2, ls2, paths2)
    BY <1>2, <1>7, <1>11 DEF Replaced
  <1> QED BY <1>12

\* The chain t, cut off behind node k of s and continued with the node c.
CutOff(mem, s, k, c, data, mem2, t) ==
  /\ t = Append(SubSeq(s, 1, k), c)
  /\ Len(t) = k + 1 /\ t[k + 1] = c
  /\ \A i \in 1..k : t[i] = s[i]
  /\ \A i \in 1..Len(t) :
       /\ mem2[t[i]].data \in Node
       /\ t[i] = c \/ \E n \in 1..Len(s) : t[i] = s[n]
  /\ Seen(mem2, t) = Append(SubSeq(Seen(mem, s), 1, k), data)

\* What add_last makes of the chain that it links the new node to.
LEMMA CutList ==
  ASSUME NEW mem, NEW p, NEW s, IsChain(mem, p, s), \A i \in 1..Len(s) : mem[s[i]].data \in Node,
         NEW k \in 0..Len(s), NEW c \in Cells, \A i \in 1..Len(s) : s[i] # c, NEW data \in Node,
         NEW mem2, mem2[c] = [data |-> data, next |-> NULL],
         k > 0 => mem2[s[k]].next = c,
         \A i \in 1..Len(s) : mem2[s[i]].data = mem[s[i]].data,
         \A i \in 1..Len(s) : i # k => mem2[s[i]] = mem[s[i]]
  PROVE  \E t : /\ CutOff(mem, s, k, c, data, mem2, t)
                /\ IsChain(mem2, IF k = 0 THEN c ELSE p, t)
  <1> DEFINE t == Append(SubSeq(s, 1, k), c)
  <1>1. s \in Seq(Cells) /\ Len(s) \in Nat
    BY DEF IsChain
  <1>2. IsChain(mem2, IF k = 0 THEN c ELSE p, t)
    <2>1. mem2[c].next = NULL
      OBVIOUS
    <2>2. \A i \in 1..(k - 1) : mem2[s[i]].next = mem[s[i]].next
      BY <1>1
    <2> QED BY <2>1, <2>2, ChainCut
  <1>3. \A i \in 1..k : t[i] = s[i] /\ i \in 1..Len(s)
    BY <1>1
  <1>4. t \in Seq(Cells) /\ Len(t) = k + 1 /\ t[k + 1] = c
    BY <1>1
  <1>5. t = Append(SubSeq(s, 1, k), c)
    OBVIOUS
  <1> HIDE DEF t
  <1>6. ASSUME NEW i \in 1..Len(t)
        PROVE  /\ mem2[t[i]].data \in Node
               /\ t[i] = c \/ \E n \in 1..Len(s) : t[i] = s[n]
    <2>1. CASE i \in 1..k
      BY <1>3, <2>1
    <2>2. CASE i = k + 1
      BY <1>4, <2>2
    <2> QED BY <1>4, <2>1, <2>2
  <1> DEFINE q == Seen(mem, s)
             r == Seen(mem2, t)
  <1>7. q \in Seq(Node) /\ Len(q) = Len(s) /\ \A i \in 1..Len(s) : q[i] = mem[s[i]].data
    BY <1>1, SeenIs
  <1>8. r \in Seq(Node) /\ Len(r) = k + 1 /\ \A i \in 1..(k + 1) : r[i] = mem2[t[i]].data
    <2>1. \A i \in 1..Len(t) : mem2[t[i]].data \in Node
      BY <1>6
    <2>2. r \in Seq(Node) /\ Len(r) = Len(t) /\ \A i \in 1..Len(t) : r[i] = mem2[t[i]].data
      BY <1>4, <2>1, SeenIs
    <2> HIDE DEF r
    <2> QED BY <1>4, <2>2
  <1> HIDE DEF q, r
  <1>9. \A i \in 1..k : r[i] = q[i]
    <2> TAKE i \in 1..k
    <2>1. i \in 1..(k + 1) /\ i \in 1..Len(s) /\ t[i] = s[i]
      BY <1>3
    <2> QED BY <1>7, <1>8, <2>1
  <1>10. k \in 0..Len(q) /\ r[k + 1] = data
    BY <1>1, <1>4, <1>7, <1>8
  <1>11. Append(SubSeq(q, 1, k), data) = r
    BY <1>7, <1>8, <1>9, <1>10, CutIs
  <1>12. CutOff(mem, s, k, c, data, mem2, t)
    BY <1>3, <1>4, <1>5, <1>6, <1>11 DEF CutOff, q, r
  <1> QED BY <1>2, <1>12

-----------------------------------------------------------------------------
\* Memory and lists after a call.

\* A write through a pointer: a node that is allocated gets a new successor,
\* nothing else changes.
LEMMA LinkedIs ==
  ASSUME TypeOK, NEW p \in Pointer, NEW q \in Pointer
  PROVE  /\ Linked(p, q) \in Memory
         /\ p \in live => Linked(p, q)[p].next = q
         /\ \A x \in Cells : x # p => Linked(p, q)[x] = heap[x]
         /\ \A x \in Cells : Linked(p, q)[x].data = heap[x].data
  <1>1. heap \in Memory /\ live \cup kept \subseteq Cells
    BY DEF TypeOK, Memory
  <1>2. CASE p \in live \cup kept
    <2>1. p \in Cells /\ Linked(p, q) = [heap EXCEPT ![p].next = q]
      BY <1>1, <1>2 DEF Linked
    <2> QED BY <1>1, <2>1 DEF Memory
  <1>3. CASE p \notin live \cup kept
    BY <1>1, <1>3 DEF Linked
  <1> QED BY <1>2, <1>3

\* add_last with a new node.
LEMMA AddLastMemory ==
  ASSUME TypeOK, NEW l \in Lists, NEW data \in Node, NEW c \in Cells,
         New(c), add_last(l, c, data)
  PROVE  /\ heap' \in Memory
         /\ live' = live \cup {c} /\ c \notin live
         /\ heap'[c] = [data |-> data, next |-> NULL]
         /\ \A x \in Cells : x # c => heap'[x].data = heap[x].data
         /\ \A x \in Cells : x # c /\ (x # lists[l].tail \/ lists[l].head = NULL) => heap'[x] = heap[x]
         /\ lists[l].head # NULL /\ lists[l].tail \in live => heap'[lists[l].tail].next = c
         /\ lists'[l] = [head |-> IF lists[l].head = NULL THEN c ELSE lists[l].head,
                         tail |-> c,
                         size |-> lists[l].size + 1]
         /\ \A m \in Lists \ {l} : lists'[m] = lists[m]
         /\ DOMAIN lists' = Lists
  <1> DEFINE tail == lists[l].tail
             mem == IF lists[l].head = NULL THEN heap ELSE Linked(tail, c)
  <1>1. /\ c \notin live /\ live' = live \cup {c}
        /\ heap' = [mem EXCEPT ![c] = [data |-> data, next |-> NULL]]
    BY DEF New, add_last
  <1>2. tail \in Pointer /\ c \in Pointer /\ NULL \in Pointer
    BY DEF TypeOK, Pointer
  <1>3. /\ mem \in Memory
        /\ \A x \in Cells : mem[x].data = heap[x].data
        /\ \A x \in Cells : x # tail \/ lists[l].head = NULL => mem[x] = heap[x]
        /\ lists[l].head # NULL /\ tail \in live => mem[tail].next = c
    <2>1. CASE lists[l].head = NULL
      BY <2>1 DEF TypeOK, Memory
    <2>2. CASE lists[l].head # NULL
      <3>1. mem = Linked(tail, c)
        BY <2>2
      <3> HIDE DEF mem
      <3> QED BY <1>2, <2>2, <3>1, LinkedIs
    <2> QED BY <2>1, <2>2
  <1> HIDE DEF mem
  <1>4. heap' \in Memory
    <2>1. [data |-> data, next |-> NULL] \in [data : Node \cup {NULL}, next : Pointer]
      BY <1>2
    <2> QED BY <1>1, <1>3, <2>1 DEF Memory
  <1>5. heap'[c] = [data |-> data, next |-> NULL] /\ \A x \in Cells : x # c => heap'[x] = mem[x]
    BY <1>1, <1>3 DEF Memory
  <1>6. live \subseteq Cells
    BY DEF TypeOK
  <1>7. /\ lists'[l] = [head |-> IF lists[l].head = NULL THEN c ELSE lists[l].head,
                        tail |-> c,
                        size |-> lists[l].size + 1]
        /\ \A m \in Lists \ {l} : lists'[m] = lists[m]
        /\ DOMAIN lists' = Lists
    BY DEF add_last, TypeOK
  <1> QED BY <1>1, <1>3, <1>4, <1>5, <1>6, <1>7

-----------------------------------------------------------------------------
\* What a call makes of the lists.

\* The lists count the nodes of their paths, know the last one, and between
\* them have every node that is allocated.
CountedAs(alive, ls, paths) ==
  /\ \A l \in Lists :
       /\ ls[l].size = Len(paths[l])
       /\ ls[l].head # NULL => ls[l].tail = paths[l][Len(paths[l])]
  /\ \A c \in alive : \E l \in Lists : \E k \in 1..Len(paths[l]) : paths[l][k] = c

\* The step leaves the lists laid out, as one of these views, and counted.
Yields(views, counted) ==
  \E paths2 : /\ LaidOut(heap', live', lists', paths2)
              /\ View(heap', lists', paths2) \in views
              /\ counted => CountedAs(live', lists', paths2)

\* List l counts its chain t, and all that is allocated is on it or has been on
\* the path of another list.
CountsOwn(alive, ls, s, l, t, alive2, ls2) ==
  /\ \A m \in Lists \ {l} : ls2[m] = ls[m]
  /\ ls2[l].size = Len(t)
  /\ ls2[l].head # NULL => ls2[l].tail = t[Len(t)]
  /\ \A c \in alive2 :
       \/ \E k \in 1..Len(t) : t[k] = c
       \/ c \in alive /\ \A k \in 1..Len(s) : s[k] # c

\* The lists are still counted when one of them has been replaced by a chain
\* that it counts, and no node is leaked.
LEMMA CountedReplaced ==
  ASSUME NEW mem, NEW alive, NEW ls, NEW paths, CountedAs(alive, ls, paths),
         NEW l \in Lists, NEW t, NEW mem2, NEW alive2, NEW ls2, NEW paths2,
         Replaced(mem, ls, paths, l, t, mem2, alive2, ls2, paths2),
         CountsOwn(alive, ls, paths[l], l, t, alive2, ls2)
  PROVE  CountedAs(alive2, ls2, paths2)
  <1> USE DEF CountsOwn
  <1>1. paths2[l] = t /\ \A m \in Lists \ {l} : paths2[m] = paths[m]
    BY DEF Replaced
  <1>2. ASSUME NEW m \in Lists
        PROVE  /\ ls2[m].size = Len(paths2[m])
               /\ ls2[m].head # NULL => ls2[m].tail = paths2[m][Len(paths2[m])]
    <2>1. CASE m = l
      BY <1>1, <2>1
    <2>2. CASE m # l
      BY <1>1, <2>2 DEF CountedAs
    <2> QED BY <2>1, <2>2
  <1>3. ASSUME NEW c \in alive2
        PROVE  \E m \in Lists : \E k \in 1..Len(paths2[m]) : paths2[m][k] = c
    <2>1. CASE \E k \in 1..Len(t) : t[k] = c
      BY <1>1, <2>1
    <2>2. CASE c \in alive /\ \A k \in 1..Len(paths[l]) : paths[l][k] # c
      <3>1. PICK m \in Lists : \E k \in 1..Len(paths[m]) : paths[m][k] = c
        BY <2>2 DEF CountedAs
      <3>2. m \in Lists \ {l}
        BY <2>2, <3>1
      <3>3. paths2[m] = paths[m]
        BY <1>1, <3>2
      <3> QED BY <3>1, <3>3
    <2> QED BY <2>1, <2>2
  <1> QED BY <1>2, <1>3 DEF CountedAs

\* The list l is seen as n nodes.
Sized(views, l, n) == views[l].nodes \in Seq(Node) /\ Len(views[l].nodes) = n

\* What is seen of the nodes of one list.
LEMMA ViewNodes ==
  ASSUME NEW mem, NEW alive, NEW ls, NEW paths, LaidOut(mem, alive, ls, paths), NEW l \in Lists
  PROVE  /\ DOMAIN View(mem, ls, paths) = Lists
         /\ View(mem, ls, paths)[l] = [nodes |-> Seen(mem, paths[l]),
                                       tail |-> PlaceOf(paths[l], ls[l].tail)]
         /\ Sized(View(mem, ls, paths), l, Len(paths[l]))
  <1> DEFINE s == paths[l]
  <1>1. s \in Seq(Cells) /\ \A k \in 1..Len(s) : mem[s[k]].data \in Node
    BY LaidOutList
  <1>2. /\ DOMAIN View(mem, ls, paths) = Lists
        /\ View(mem, ls, paths)[l] = [nodes |-> Seen(mem, s), tail |-> PlaceOf(s, ls[l].tail)]
    BY DEF View
  <1> HIDE DEF s
  <1>3. Seen(mem, s) \in Seq(Node) /\ Len(Seen(mem, s)) = Len(s)
    BY <1>1, SeenIs
  <1>4. Sized(View(mem, ls, paths), l, Len(s))
    BY <1>2, <1>3 DEF Sized
  <1> QED BY <1>2, <1>4 DEF s

-----------------------------------------------------------------------------
\* add_last.

\* The list m gets the new node c behind its node k, which the tail of the list
\* that is appended to names.
AppendedTo(paths, m, k, c, data) ==
  \E t, paths2 : /\ CutOff(heap, paths[m], k, c, data, heap', t)
                 /\ IsChain(heap', lists'[m].head, t)
                 /\ Replaced(heap, lists, paths, m, t, heap', live', lists', paths2)

\* Appending through a tail that names a node of the list itself, or one of
\* another list, or to an empty list.
LEMMA AppendsTo ==
  ASSUME TypeOK, NEW paths, LaidOut(heap, live, lists, paths),
         NEW l \in Lists, NEW data \in Node, NEW c \in Cells, New(c), add_last(l, c, data),
         NEW m \in Lists, NEW k \in 0..Len(paths[m]),
         k = 0 => m = l /\ Len(paths[m]) = 0,
         k > 0 => paths[m][k] = lists[l].tail /\ lists[l].head # NULL
  PROVE  AppendedTo(paths, m, k, c, data)
  <1> DEFINE s == paths[m]
  <1>1. /\ s \in Seq(Cells) /\ IsChain(heap, lists[m].head, s) /\ Len(s) \in Nat
        /\ lists[m].head = NULL <=> Len(s) = 0
        /\ \A i \in 1..Len(s) : s[i] \in Cells /\ s[i] \in live /\ heap[s[i]].data \in Node
    BY LaidOutList
  <1>2. /\ live' = live \cup {c} /\ c \notin live
        /\ heap'[c] = [data |-> data, next |-> NULL]
        /\ \A x \in Cells : x # c => heap'[x].data = heap[x].data
        /\ \A x \in Cells : x # c /\ (x # lists[l].tail \/ lists[l].head = NULL) => heap'[x] = heap[x]
        /\ lists[l].head # NULL /\ lists[l].tail \in live => heap'[lists[l].tail].next = c
        /\ lists'[l] = [head |-> IF lists[l].head = NULL THEN c ELSE lists[l].head,
                        tail |-> c,
                        size |-> lists[l].size + 1]
        /\ \A j \in Lists \ {l} : lists'[j] = lists[j]
    BY AddLastMemory
  <1>3. lists'[l].head = (IF lists[l].head = NULL THEN c ELSE lists[l].head) /\ lists'[l].tail = c
    BY <1>2
  <1> DEFINE tail == lists[l].tail
             empty == lists[l].head = NULL
  <1>4. k = 0 => empty
    BY <1>1
  <1>5. k > 0 => ~empty /\ tail = s[k]
    OBVIOUS
  <1> HIDE DEF tail, empty
  <1>6. \A i \in 1..Len(s) : s[i] # c /\ heap'[s[i]].data = heap[s[i]].data
    BY <1>1, <1>2
  <1>7. ASSUME NEW i \in 1..Len(s), i # k PROVE heap'[s[i]] = heap[s[i]]
    <2>1. CASE k = 0
      BY <1>1, <1>2, <1>4, <1>6, <2>1 DEF empty
    <2>2. CASE k > 0
      <3>1. k \in 1..Len(s)
        BY <1>1, <2>2
      <3>2. s[i] # tail
        BY <1>1, <1>5, <1>7, <2>2, <3>1 DEF IsChain
      <3> QED BY <1>1, <1>2, <1>6, <3>2 DEF tail
    <2> QED BY <1>1, <2>1, <2>2
  <1>8. k > 0 => heap'[s[k]].next = c
    <2> SUFFICES ASSUME k > 0 PROVE heap'[s[k]].next = c
      OBVIOUS
    <2>1. k \in 1..Len(s) /\ tail = s[k] /\ ~empty
      BY <1>1, <1>5
    <2>2. tail \in live
      BY <1>1, <2>1
    <2> QED BY <1>2, <2>1, <2>2 DEF tail, empty
  <1>9. PICK t : /\ CutOff(heap, s, k, c, data, heap', t)
                 /\ IsChain(heap', IF k = 0 THEN c ELSE lists[m].head, t)
    <2>1. heap'[c] = [data |-> data, next |-> NULL]
      BY <1>2
    <2>2. \A i \in 1..Len(s) : heap[s[i]].data \in Node
      BY <1>1
    <2>3. \A i \in 1..Len(s) : s[i] # c
      BY <1>6
    <2>4. \A i \in 1..Len(s) : heap'[s[i]].data = heap[s[i]].data
      BY <1>6
    <2>5. k \in 0..Len(s)
      OBVIOUS
    <2> HIDE DEF s
    <2> QED BY <1>1, <1>7, <1>8, <2>1, <2>2, <2>3, <2>4, <2>5, CutList
  <1>10. lists'[m].head = IF k = 0 THEN c ELSE lists[m].head
    <2>1. CASE m = l
      <3>1. k > 0 => ~empty
        BY <1>5
      <3> QED BY <1>1, <1>3, <1>4, <2>1, <3>1 DEF empty
    <2>2. CASE m # l
      BY <1>2, <2>2
    <2> QED BY <2>1, <2>2
  <1>11. IsChain(heap', lists'[m].head, t)
    BY <1>9, <1>10
  <1>12. ASSUME NEW i \in 1..Len(t)
         PROVE  /\ t[i] \in live' /\ heap'[t[i]].data \in Node
                /\ t[i] \notin live \/ \E n \in 1..Len(s) : t[i] = s[n]
    <2>1. heap'[t[i]].data \in Node /\ (t[i] = c \/ \E n \in 1..Len(s) : t[i] = s[n])
      BY <1>9 DEF CutOff
    <2>2. CASE t[i] = c
      BY <1>2, <2>1, <2>2
    <2>3. CASE \E n \in 1..Len(s) : t[i] = s[n]
      <3>1. t[i] \in live
        BY <1>1, <2>3
      <3> QED BY <1>2, <2>1, <2>3, <3>1
    <2> QED BY <2>1, <2>2, <2>3
  <1>13. \A j \in Lists : lists'[j].head # NULL => lists'[j].tail # NULL
    <2>1. \A j \in Lists : lists[j].head # NULL => lists[j].tail # NULL
      BY DEF LaidOut
    <2>2. c # NULL
      BY LinkedListAssumption
    <2> QED BY <1>2, <1>3, <2>1, <2>2
  <1>14. ASSUME NEW j \in Lists \ {m}
         PROVE  /\ lists'[j].head = lists[j].head
                /\ PlaceOf(paths[j], lists'[j].tail) = PlaceOf(paths[j], lists[j].tail)
                /\ \A n \in 1..Len(paths[j]) : heap'[paths[j][n]] = heap[paths[j][n]] /\ paths[j][n] \in live'
    <2> DEFINE r == paths[j]
    <2>1. /\ IsChain(heap, lists[j].head, r)
          /\ \A n \in 1..Len(r) : r[n] \in Cells /\ r[n] \in live
      BY LaidOutList
    <2>2. \A n \in 1..Len(r) : r[n] # c /\ r[n] \in live'
      BY <1>2, <2>1
    <2>3. k > 0 => \A n \in 1..Len(r) : r[n] # tail
      <3> SUFFICES ASSUME k > 0, NEW n \in 1..Len(r) PROVE r[n] # tail
        OBVIOUS
      <3>1. k \in 1..Len(s) /\ tail = s[k]
        BY <1>1, <1>5
      <3>2. r[n] # s[k]
        BY <3>1 DEF LaidOut
      <3> QED BY <3>1, <3>2
    <2>4. \A n \in 1..Len(r) : heap'[r[n]] = heap[r[n]]
      <3>1. CASE k = 0
        BY <1>2, <1>4, <2>1, <2>2, <3>1 DEF empty
      <3>2. CASE k > 0
        BY <1>2, <2>1, <2>2, <2>3, <3>2 DEF tail
      <3> QED BY <1>1, <3>1, <3>2
    <2>5. CASE j # l
      BY <1>2, <2>2, <2>4, <2>5
    <2>6. CASE j = l
      <3>1. k > 0 /\ ~empty
        BY <1>1, <1>5, <2>6
      <3>2. lists'[j].head = lists[j].head /\ lists'[j].tail = c /\ lists[j].tail = tail
        BY <1>3, <2>6, <3>1 DEF empty, tail
      <3>3. PlaceOf(r, tail) = 0 /\ PlaceOf(r, c) = 0
        BY <2>1, <2>2, <2>3, <3>1, PlaceIs
      <3> QED BY <2>2, <2>4, <3>2, <3>3
    <2> QED BY <2>5, <2>6
  <1>15. OnlyList(heap, live, lists, paths, m, t, heap', live', lists')
    BY <1>11, <1>12, <1>13, <1>14 DEF OnlyList
  <1>16. \E paths2 : Replaced(heap, lists, paths, m, t, heap', live', lists', paths2)
    <2> HIDE DEF s
    <2> QED BY <1>15, OneReplaced
  <1> QED BY <1>9, <1>11, <1>16 DEF AppendedTo
\* Appending to an empty list, or behind a tail that names a node of the list.
LEMMA AppendsBehind ==
  ASSUME TypeOK, NEW paths, LaidOut(heap, live, lists, paths),
         NEW l \in Lists, NEW data \in Node, NEW c \in Cells, New(c), add_last(l, c, data),
         Len(paths[l]) = 0 \/ PlaceOf(paths[l], lists[l].tail) # 0
  PROVE  Yields({[View(heap, lists, paths) EXCEPT ![l] = AddLast(@, data)]},
                CountedAs(live, lists, paths))
  <1> DEFINE s == paths[l]
             V == View(heap, lists, paths)
             k == PlaceOf(s, lists[l].tail)
  <1>1. /\ s \in Seq(Cells) /\ IsChain(heap, lists[l].head, s) /\ Len(s) \in Nat
        /\ lists[l].head = NULL <=> Len(s) = 0
        /\ \A i \in 1..Len(s) : s[i] \in Cells /\ s[i] \in live
    BY LaidOutList
  <1>2. /\ k \in 0..Len(s)
        /\ k # 0 => s[k] = lists[l].tail
        /\ \A i \in 1..Len(s) : s[i] = lists[l].tail => k = i
    BY <1>1, PlaceIs
  <1> HIDE DEF k
  <1>3. AppendedTo(paths, l, k, c, data)
    <2>1. k = 0 => Len(s) = 0
      BY DEF k
    <2>2. k > 0 => s[k] = lists[l].tail /\ lists[l].head # NULL
      BY <1>1, <1>2
    <2> QED BY <1>2, <2>1, <2>2, AppendsTo
  <1>4. PICK t : \E paths2 :
          /\ CutOff(heap, s, k, c, data, heap', t)
          /\ IsChain(heap', lists'[l].head, t)
          /\ Replaced(heap, lists, paths, l, t, heap', live', lists', paths2)
    BY <1>3 DEF AppendedTo
  <1>5. PICK paths2 :
          /\ CutOff(heap, s, k, c, data, heap', t)
          /\ IsChain(heap', lists'[l].head, t)
          /\ Replaced(heap, lists, paths, l, t, heap', live', lists', paths2)
    BY <1>4
  <1>6. /\ live' = live \cup {c}
        /\ lists'[l] = [head |-> IF lists[l].head = NULL THEN c ELSE lists[l].head,
                        tail |-> c,
                        size |-> lists[l].size + 1]
        /\ \A m \in Lists \ {l} : lists'[m] = lists[m]
    BY DEF New, add_last, TypeOK
  <1>7. /\ Len(t) = k + 1 /\ t[k + 1] = c
        /\ \A i \in 1..k : t[i] = s[i]
        /\ Seen(heap', t) = Append(SubSeq(Seen(heap, s), 1, k), data)
    BY <1>5 DEF CutOff
  <1>8. lists'[l].tail = c /\ lists'[l].size = lists[l].size + 1
    BY <1>6
  <1>9. PlaceOf(t, c) = k + 1
    <2>1. k + 1 \in 1..Len(t)
      BY <1>2, <1>7
    <2> QED BY <1>5, <1>7, <2>1, PlaceIs
  <1>10. View(heap', lists', paths2) = [V EXCEPT ![l] = AddLast(@, data)]
    <2>1. View(heap', lists', paths2) =
            [V EXCEPT ![l] = [nodes |-> Seen(heap', t), tail |-> PlaceOf(t, lists'[l].tail)]]
      BY <1>5 DEF Replaced
    <2>2. V[l] = [nodes |-> Seen(heap, s), tail |-> k] /\ DOMAIN V = Lists
      BY ViewNodes DEF k
    <2> HIDE DEF V, s
    <2>3. AddLast(V[l], data) = [nodes |-> Seen(heap', t), tail |-> PlaceOf(t, lists'[l].tail)]
      BY <1>7, <1>8, <1>9, <2>2 DEF AddLast
    <2> QED BY <2>1, <2>3
  <1>11. LaidOut(heap', live', lists', paths2)
    BY <1>5 DEF Replaced
  <1>12. CountedAs(live, lists, paths) => CountedAs(live', lists', paths2)
    <2> SUFFICES ASSUME CountedAs(live, lists, paths) PROVE CountedAs(live', lists', paths2)
      OBVIOUS
    <2>1. lists[l].size = Len(s) /\ (lists[l].head # NULL => lists[l].tail = s[Len(s)])
      BY DEF CountedAs
    <2>2. k = Len(s)
      <3>1. CASE Len(s) = 0
        BY <1>2, <3>1
      <3>2. CASE Len(s) # 0
        <4>1. Len(s) \in 1..Len(s) /\ s[Len(s)] = lists[l].tail
          BY <1>1, <2>1, <3>2
        <4> QED BY <1>2, <4>1
      <3> QED BY <3>1, <3>2
    <2>3. lists'[l].size = Len(t) /\ lists'[l].tail = t[Len(t)]
      BY <1>1, <1>7, <1>8, <2>1, <2>2
    <2>4. ASSUME NEW x \in live'
          PROVE  \/ \E i \in 1..Len(t) : t[i] = x
                 \/ x \in live /\ \A i \in 1..Len(s) : s[i] # x
      <3>1. CASE x = c
        BY <1>1, <1>7, <2>2, <3>1
      <3>2. CASE \E i \in 1..Len(s) : s[i] = x
        <4>1. PICK i \in 1..Len(s) : s[i] = x
          BY <3>2
        <4>2. i \in 1..Len(t) /\ t[i] = x
          BY <1>1, <1>7, <2>2, <4>1
        <4> QED BY <4>2
      <3> QED BY <1>6, <2>4, <3>1, <3>2
    <2>5. CountsOwn(live, lists, s, l, t, live', lists')
      BY <1>6, <2>3, <2>4 DEF CountsOwn
    <2> QED BY <1>5, <2>5, CountedReplaced
  <1> QED BY <1>10, <1>11, <1>12 DEF Yields

\* What may become of the lists when the node is linked behind node k of list m.
Grafted(views, m, k, data) ==
  {[views EXCEPT ![m] = list] : list \in Grafts(views[m], k, data)}

\* Appending through a freed tail whose memory has become a node of another list.
LEMMA AppendsElsewhere ==
  ASSUME TypeOK, NEW paths, LaidOut(heap, live, lists, paths),
         NEW l \in Lists, NEW data \in Node, NEW c \in Cells, New(c), add_last(l, c, data),
         lists[l].head # NULL,
         NEW m \in Lists \ {l}, NEW k \in 1..Len(paths[m]), paths[m][k] = lists[l].tail
  PROVE  Yields(Grafted(View(heap, lists, paths), m, k, data), FALSE)
  <1> DEFINE s == paths[m]
             V == View(heap, lists, paths)
             tail == lists[m].tail
  <1>1. /\ s \in Seq(Cells) /\ IsChain(heap, lists[m].head, s) /\ Len(s) \in Nat
        /\ \A i \in 1..Len(s) : s[i] \in Cells /\ s[i] \in live
    BY LaidOutList
  <1>2. AppendedTo(paths, m, k, c, data)
    <2>1. k \in 0..Len(paths[m]) /\ k # 0
      BY <1>1
    <2> QED BY <2>1, AppendsTo
  <1>3. PICK t : \E paths2 :
          /\ CutOff(heap, s, k, c, data, heap', t)
          /\ IsChain(heap', lists'[m].head, t)
          /\ Replaced(heap, lists, paths, m, t, heap', live', lists', paths2)
    BY <1>2 DEF AppendedTo
  <1>4. PICK paths2 :
          /\ CutOff(heap, s, k, c, data, heap', t)
          /\ IsChain(heap', lists'[m].head, t)
          /\ Replaced(heap, lists, paths, m, t, heap', live', lists', paths2)
    BY <1>3
  <1>5. c \notin live /\ lists'[m] = lists[m]
    BY AddLastMemory
  <1>6. /\ Len(t) = k + 1 /\ t[k + 1] = c
        /\ Seen(heap', t) = Append(SubSeq(Seen(heap, s), 1, k), data)
    BY <1>4 DEF CutOff
  <1>7. \A i \in 1..k : t[i] = s[i] /\ i \in 1..Len(s) /\ i \in 1..Len(t)
    BY <1>1, <1>4, <1>6 DEF CutOff
  <1>8. \A i \in 1..Len(s) : s[i] # c
    BY <1>1, <1>5
  <1>9. PlaceOf(t, tail) \in IF PlaceOf(s, tail) = 0 THEN {0, k + 1}
                             ELSE IF PlaceOf(s, tail) <= k THEN {PlaceOf(s, tail)} ELSE {0}
    <2> DEFINE place == PlaceOf(s, tail)
               place2 == PlaceOf(t, tail)
    <2>1. /\ place \in 0..Len(s)
          /\ \A i \in 1..Len(s) : s[i] = tail => place = i
          /\ place # 0 => s[place] = tail
      BY <1>1, PlaceIs
    <2>2. /\ place2 \in 0..Len(t)
          /\ place2 # 0 => t[place2] = tail
          /\ \A i \in 1..Len(t) : t[i] = tail => place2 = i
      BY <1>4, PlaceIs
    <2> HIDE DEF place, place2
    <2>3. ASSUME place2 \in 1..k PROVE place = place2
      BY <1>7, <2>1, <2>2, <2>3
    <2>4. CASE place = 0
      BY <1>6, <2>2, <2>3, <2>4 DEF place, place2
    <2>5. CASE place # 0 /\ place <= k
      <3>1. place \in 1..k
        BY <2>1, <2>5
      <3>2. place2 = place
        BY <1>7, <2>1, <2>2, <2>5, <3>1
      <3> QED BY <2>5, <3>2 DEF place, place2
    <2>6. CASE place # 0 /\ place > k
      <3>1. place2 # k + 1
        BY <1>6, <1>8, <2>1, <2>2, <2>6
      <3>2. place2 \notin 1..k
        BY <2>3, <2>6
      <3>3. place2 = 0
        BY <1>6, <2>2, <3>1, <3>2
      <3>4. ~(place <= k)
        BY <1>1, <2>1, <2>6
      <3> QED BY <2>6, <3>3, <3>4 DEF place, place2
    <2> QED BY <1>1, <2>1, <2>4, <2>5, <2>6
  <1> DEFINE list == [nodes |-> Seen(heap', t), tail |-> PlaceOf(t, tail)]
  <1>10. View(heap', lists', paths2) = [V EXCEPT ![m] = list]
    BY <1>4, <1>5 DEF Replaced
  <1>11. list \in Grafts(V[m], k, data)
    <2> DEFINE place == PlaceOf(t, tail)
    <2>1. V[m] = [nodes |-> Seen(heap, s), tail |-> PlaceOf(s, tail)]
      BY ViewNodes
    <2>2. list = [nodes |-> Append(SubSeq(V[m].nodes, 1, k), data), tail |-> place]
      BY <1>6, <2>1
    <2>3. place \in IF V[m].tail = 0 THEN {0, k + 1} ELSE IF V[m].tail <= k THEN {V[m].tail} ELSE {0}
      BY <1>9, <2>1
    <2> HIDE DEF list, V, place
    <2> QED BY <2>2, <2>3 DEF Grafts
  <1>12. LaidOut(heap', live', lists', paths2)
    BY <1>4 DEF Replaced
  <1> HIDE DEF list, s, V, tail
  <1>13. View(heap', lists', paths2) \in Grafted(V, m, k, data)
    BY <1>10, <1>11 DEF Grafted
  <1> QED BY <1>12, <1>13 DEF Yields, V

\* A node appended through a freed tail that is on no path is lost.
LEMMA AppendedNowhere ==
  ASSUME TypeOK, NEW paths, LaidOut(heap, live, lists, paths),
         NEW l \in Lists, NEW data \in Node, NEW c \in Cells,
         New(c), add_last(l, c, data),
         lists[l].head # NULL,
         \A m \in Lists : \A i \in 1..Len(paths[m]) : paths[m][i] # lists[l].tail
  PROVE  /\ LaidOut(heap', live', lists', paths)
         /\ View(heap', lists', paths) = View(heap, lists, paths)
  <1>1. /\ live' = live \cup {c} /\ c \notin live
        /\ heap'[c] = [data |-> data, next |-> NULL]
        /\ \A x \in Cells : x # c => heap'[x].data = heap[x].data
        /\ \A x \in Cells : x # c /\ (x # lists[l].tail \/ lists[l].head = NULL) => heap'[x] = heap[x]
        /\ lists[l].head # NULL /\ lists[l].tail \in live => heap'[lists[l].tail].next = c
        /\ lists'[l] = [head |-> IF lists[l].head = NULL THEN c ELSE lists[l].head,
                        tail |-> c,
                        size |-> lists[l].size + 1]
        /\ \A m \in Lists \ {l} : lists'[m] = lists[m]
    BY AddLastMemory
  <1>2. lists'[l].head = lists[l].head /\ lists'[l].tail = c
    BY <1>1
  <1>3. ASSUME NEW m \in Lists, NEW i \in 1..Len(paths[m])
        PROVE  /\ heap'[paths[m][i]] = heap[paths[m][i]]
               /\ paths[m][i] \in live' /\ paths[m][i] # c
    <2>1. paths[m][i] \in Cells /\ paths[m][i] \in live
      BY LaidOutList
    <2> QED BY <1>1, <2>1
  <1>4. ASSUME NEW m \in Lists
        PROVE  /\ IsChain(heap', lists'[m].head, paths[m])
               /\ \A i \in 1..Len(paths[m]) :
                    paths[m][i] \in live' /\ heap'[paths[m][i]].data \in Node
               /\ lists'[m].head # NULL => lists'[m].tail # NULL
    <2>1. IsChain(heap, lists[m].head, paths[m]) /\ lists'[m].head = lists[m].head
      BY <1>1, <1>2 DEF LaidOut
    <2>2. IsChain(heap', lists[m].head, paths[m])
      BY <1>3, <2>1, ChainKept
    <2>3. \A i \in 1..Len(paths[m]) : heap[paths[m][i]].data \in Node
      BY DEF LaidOut
    <2>4. lists'[m].head # NULL => lists'[m].tail # NULL
      BY <1>1, <1>2, LinkedListAssumption DEF LaidOut
    <2> QED BY <1>3, <2>1, <2>2, <2>3, <2>4
  <1>5. LaidOut(heap', live', lists', paths)
    BY <1>4 DEF LaidOut
  <1>6. ASSUME NEW m \in Lists
        PROVE  /\ Seen(heap', paths[m]) = Seen(heap, paths[m])
               /\ PlaceOf(paths[m], lists'[m].tail) = PlaceOf(paths[m], lists[m].tail)
    <2>1. Seen(heap', paths[m]) = Seen(heap, paths[m])
      BY <1>3 DEF Seen
    <2>2. CASE m = l
      <3>1. IsChain(heap, lists[l].head, paths[l])
        BY LaidOutList
      <3>2. PlaceOf(paths[l], lists[l].tail) = 0 /\ PlaceOf(paths[l], c) = 0
        BY <1>3, <3>1, PlaceIs
      <3> QED BY <1>2, <2>1, <2>2, <3>2
    <2>3. CASE m # l
      BY <1>1, <2>1, <2>3
    <2> QED BY <2>2, <2>3
  <1>7. View(heap', lists', paths) = View(heap, lists, paths)
    BY <1>6 DEF View
  <1> QED BY <1>5, <1>7

\* add_last_improved does to the lists one of the things Appended says.
LEMMA Appends ==
  ASSUME TypeOK, NEW paths, LaidOut(heap, live, lists, paths),
         NEW l \in Lists, NEW data \in Node, add_last_improved(l, data)
  PROVE  Yields(Appended(View(heap, lists, paths), l, data), CountedAs(live, lists, paths))
  <1> DEFINE V == View(heap, lists, paths)
             k == PlaceOf(paths[l], lists[l].tail)
  <1>1. PICK c \in Cells : New(c) /\ add_last(l, c, data)
    BY DEF add_last_improved
  <1>2. /\ IsChain(heap, lists[l].head, paths[l]) /\ Len(paths[l]) \in Nat
        /\ lists[l].head = NULL <=> Len(paths[l]) = 0
    BY LaidOutList
  <1>3. /\ k \in 0..Len(paths[l])
        /\ \A i \in 1..Len(paths[l]) : paths[l][i] = lists[l].tail => k = i
    BY <1>2, PlaceIs
  <1>4. V[l].nodes \in Seq(Node) /\ Len(V[l].nodes) = Len(paths[l]) /\ V[l].tail = k /\ DOMAIN V = Lists
    <2>1. V[l].nodes \in Seq(Node) /\ Len(V[l].nodes) = Len(paths[l])
      <3>1. Sized(V, l, Len(paths[l]))
        BY ViewNodes
      <3> HIDE DEF V
      <3> QED BY <3>1 DEF Sized
    <2>2. V[l].tail = k /\ DOMAIN V = Lists
      BY DEF View
    <2> QED BY <2>1, <2>2
  <1>5. Dangling(V[l]) <=> Len(paths[l]) # 0 /\ k = 0
    <2> HIDE DEF V, k
    <2> QED BY <1>4 DEF Dangling
  <1>6. CASE ~Dangling(V[l])
    <2>1. Len(paths[l]) = 0 \/ k # 0
      BY <1>5, <1>6
    <2>2. Yields({[V EXCEPT ![l] = AddLast(@, data)]}, CountedAs(live, lists, paths))
      BY <1>1, <2>1, AppendsBehind
    <2>3. Appended(V, l, data) = {[V EXCEPT ![l] = AddLast(@, data)]}
      BY <1>6 DEF Appended
    <2> QED BY <2>2, <2>3
  <1>7. CASE Dangling(V[l])
    <2>1. lists[l].head # NULL /\ \A i \in 1..Len(paths[l]) : paths[l][i] # lists[l].tail
      BY <1>2, <1>3, <1>5, <1>7
    <2>2. ~CountedAs(live, lists, paths)
      <3> SUFFICES ASSUME CountedAs(live, lists, paths) PROVE FALSE
        OBVIOUS
      <3>1. paths[l][Len(paths[l])] = lists[l].tail /\ Len(paths[l]) \in 1..Len(paths[l])
        BY <1>2, <2>1 DEF CountedAs
      <3> QED BY <2>1, <3>1
    <2> DEFINE others == UNION {{[V EXCEPT ![m] = list] :
                                   list \in UNION {Grafts(V[m], i, data) : i \in 1..Len(V[m].nodes)}} :
                                m \in DOMAIN V \ {l}}
    <2> HIDE DEF V
    <2>3. Appended(V, l, data) = {V} \cup others
      BY <1>7 DEF Appended
    <2>4. CASE \A m \in Lists : \A i \in 1..Len(paths[m]) : paths[m][i] # lists[l].tail
      <3>1. LaidOut(heap', live', lists', paths) /\ View(heap', lists', paths) = V
        BY <1>1, <2>1, <2>4, AppendedNowhere DEF V
      <3>2. V \in Appended(V, l, data)
        BY <2>3
      <3> HIDE DEF others
      <3> QED BY <2>2, <3>1, <3>2 DEF Yields, V
    <2>5. CASE \E m \in Lists : \E i \in 1..Len(paths[m]) : paths[m][i] = lists[l].tail
      <3>1. PICK m \in Lists : \E i \in 1..Len(paths[m]) : paths[m][i] = lists[l].tail
        BY <2>5
      <3>2. PICK i \in 1..Len(paths[m]) : paths[m][i] = lists[l].tail
        BY <3>1
      <3>3. m \in Lists \ {l}
        BY <2>1, <3>1
      <3>4. Yields(Grafted(V, m, i, data), FALSE)
        BY <1>1, <2>1, <3>2, <3>3, AppendsElsewhere DEF V
      <3>5. i \in 1..Len(V[m].nodes)
        <4>1. Sized(V, m, Len(paths[m]))
          BY ViewNodes DEF V
        <4> QED BY <3>2, <4>1 DEF Sized
      <3>6. Grafted(V, m, i, data) \subseteq Appended(V, l, data)
        BY <1>4, <2>3, <3>3, <3>5 DEF Grafted
      <3> HIDE DEF others
      <3> QED BY <2>2, <3>4, <3>6 DEF Yields, V
    <2> QED BY <2>4, <2>5
  <1> QED BY <1>6, <1>7

-----------------------------------------------------------------------------
\* A call that edits one list, through pointers to nodes of that list.

\* The views with this list in the place of list l.
With(views, l, list) == [views EXCEPT ![l] = list]

\* Whatever is not on s, the path of list l, stays as it is.
Alone(s, l) ==
  /\ \A j \in Lists \ {l} : lists'[j] = lists[j]
  /\ \A x \in live : (\A i \in 1..Len(s) : s[i] # x) => heap'[x] = heap[x] /\ x \in live'

\* List l, whose path was s, now has the chain t, of its old nodes and new ones.
OwnChain(s, l, t) ==
  /\ IsChain(heap', lists'[l].head, t)
  /\ \A k \in 1..Len(t) :
       /\ t[k] \in live' /\ heap'[t[k]].data \in Node
       /\ t[k] \notin live \/ \E i \in 1..Len(s) : t[k] = s[i]
  /\ lists'[l].head # NULL => lists'[l].tail # NULL

\* The other lists are laid out as they were.
LEMMA OwnOnly ==
  ASSUME NEW paths, LaidOut(heap, live, lists, paths), NEW l \in Lists, NEW t,
         Alone(paths[l], l), OwnChain(paths[l], l, t)
  PROVE  OnlyList(heap, live, lists, paths, l, t, heap', live', lists')
  <1>1. ASSUME NEW m \in Lists \ {l}
        PROVE  /\ lists'[m] = lists[m]
               /\ \A k \in 1..Len(paths[m]) :
                    heap'[paths[m][k]] = heap[paths[m][k]] /\ paths[m][k] \in live'
    <2>1. lists'[m] = lists[m]
      BY DEF Alone
    <2>2. ASSUME NEW k \in 1..Len(paths[m])
          PROVE  heap'[paths[m][k]] = heap[paths[m][k]] /\ paths[m][k] \in live'
      <3>1. paths[m][k] \in live
        BY DEF LaidOut
      <3>2. \A i \in 1..Len(paths[l]) : paths[l][i] # paths[m][k]
        BY DEF LaidOut
      <3> QED BY <3>1, <3>2 DEF Alone
    <2> QED BY <2>1, <2>2
  <1>2. \A m \in Lists : lists'[m].head # NULL => lists'[m].tail # NULL
    <2>1. \A m \in Lists : lists[m].head # NULL => lists[m].tail # NULL
      BY DEF LaidOut
    <2> QED BY <1>1, <2>1 DEF OwnChain
  <1> QED BY <1>1, <1>2 DEF OnlyList, OwnChain

\* So the call yields the lists with the chain t seen as list l.
LEMMA OwnYields ==
  ASSUME NEW paths, LaidOut(heap, live, lists, paths), NEW l \in Lists, NEW t,
         Alone(paths[l], l), OwnChain(paths[l], l, t),
         NEW list, list = [nodes |-> Seen(heap', t), tail |-> PlaceOf(t, lists'[l].tail)],
         NEW counted \in BOOLEAN,
         counted => /\ CountedAs(live, lists, paths)
                    /\ CountsOwn(live, lists, paths[l], l, t, live', lists')
  PROVE  Yields({With(View(heap, lists, paths), l, list)}, counted)
  <1>1. OnlyList(heap, live, lists, paths, l, t, heap', live', lists')
    BY OwnOnly
  <1>2. PICK paths2 : Replaced(heap, lists, paths, l, t, heap', live', lists', paths2)
    BY <1>1, OneReplaced
  <1>3. /\ LaidOut(heap', live', lists', paths2)
        /\ View(heap', lists', paths2) = With(View(heap, lists, paths), l, list)
    BY <1>2 DEF Replaced, With
  <1>4. counted => CountedAs(live', lists', paths2)
    BY <1>2, CountedReplaced
  <1> QED BY <1>3, <1>4 DEF Yields

\* A tail that names the last node, or the tail of an empty list, has the
\* number of the nodes for its position.
LEMMA TailIsLast ==
  ASSUME NEW mem, NEW p, NEW t, IsChain(mem, p, t), NEW c, p # NULL => c = t[Len(t)]
  PROVE  PlaceOf(t, c) = Len(t)
  <1>1. t \in Seq(Cells) /\ p = Succ(t, 0)
    BY DEF IsChain
  <1>2. CASE Len(t) = 0
    BY <1>1, <1>2, PlaceIs
  <1>3. CASE Len(t) # 0
    <2>1. Len(t) \in 1..Len(t)
      BY <1>1, <1>3
    <2>2. p # NULL
      BY <1>1, <1>3, SuccType
    <2> QED BY <2>1, <2>2, PlaceIs
  <1> QED BY <1>2, <1>3

\* The n-th node of a list, and what follows it.
LEMMA AtIs ==
  ASSUME TypeOK, NEW paths, LaidOut(heap, live, lists, paths), NEW l \in Lists, NEW n \in Nat
  PROVE  At(l, n) = Succ(paths[l], n)
  <1>1. heap \in Memory /\ lists[l].head \in Pointer
    BY DEF TypeOK, Memory
  <1>2. IsChain(heap, lists[l].head, paths[l])
    BY LaidOutList
  <1> QED BY <1>1, <1>2, StepsOfChain DEF At

\* The node before the n-th.
LEMMA BeforeIs ==
  ASSUME TypeOK, NEW paths, LaidOut(heap, live, lists, paths),
         NEW l \in Lists, NEW n \in 0..Len(paths[l])
  PROVE  /\ n = 0 => Before(l, n) = NULL
         /\ n > 0 => Before(l, n) = paths[l][n]
  <1> DEFINE s == paths[l]
  <1>1. s \in Seq(Cells) /\ Len(s) \in Nat
    BY LaidOutList
  <1>2. CASE n = 0
    BY <1>2 DEF Before
  <1>3. CASE n > 0
    <2>1. n - 1 \in Nat /\ n - 1 < Len(s) /\ (n - 1) + 1 = n
      BY <1>1, <1>3
    <2>2. Before(l, n) = Succ(s, n - 1)
      BY <1>3, <2>1, AtIs DEF Before
    <2> HIDE DEF s
    <2>3. Before(l, n) = s[n]
      BY <1>1, <2>1, <2>2, SuccType
    <2> QED BY <1>3, <2>3 DEF s
  <1> QED BY <1>1, <1>2, <1>3

-----------------------------------------------------------------------------
\* add_nth_node.

\* A list with these nodes, and the last of them for a tail.
ListOf(nodes) == [nodes |-> nodes, tail |-> Len(nodes)]

\* The new node c in front of node m + 1 of s, the path of list l.
LinkedIn(s, l, m, c, data) ==
  /\ live' = live \cup {c} /\ c \notin live
  /\ heap'[c] = [data |-> data, next |-> Succ(s, m)]
  /\ m > 0 => heap'[s[m]].next = c
  /\ \A x \in Cells : x # c => heap'[x].data = heap[x].data
  /\ \A x \in Cells : x # c /\ (m > 0 => x # s[m]) => heap'[x] = heap[x]
  /\ lists'[l] = [head |-> IF m = 0 THEN c ELSE lists[l].head,
                  tail |-> IF m = Len(s) THEN c ELSE lists[l].tail,
                  size |-> lists[l].size + 1]
  /\ \A j \in Lists \ {l} : lists'[j] = lists[j]

\* add_nth_node with a new node, when the size is the number of the nodes.
LEMMA InsertMemory ==
  ASSUME TypeOK, NEW paths, LaidOut(heap, live, lists, paths),
         NEW l \in Lists, NEW n \in Nat, NEW data \in Node, NEW c \in Cells,
         New(c), add_nth_node(l, n, c, data),
         lists[l].size = Len(paths[l]),
         NEW m, m = IF n > Len(paths[l]) THEN Len(paths[l]) ELSE n
  PROVE  LinkedIn(paths[l], l, m, c, data)
  <1> DEFINE s == paths[l]
             prev == Before(l, m)
             curr == At(l, m)
             mem == Linked(prev, c)
  <1>1. /\ s \in Seq(Cells) /\ Len(s) \in Nat
        /\ \A i \in 1..Len(s) : s[i] \in Cells /\ s[i] \in live
    BY LaidOutList
  <1>2. m \in 0..Len(s)
    BY <1>1
  <1>3. /\ heap' = [mem EXCEPT ![c] = [data |-> data, next |-> curr]]
        /\ lists' = [lists EXCEPT ![l] = [head |-> IF prev = NULL THEN c ELSE @.head,
                                          tail |-> IF curr = NULL THEN c ELSE @.tail,
                                          size |-> @.size + 1]]
    BY DEF add_nth_node
  <1>4. curr = Succ(s, m)
    BY <1>2, AtIs
  <1>5. (m = 0 => prev = NULL) /\ (m > 0 => prev = s[m])
    BY <1>2, BeforeIs
  <1>6. NULL \notin Cells /\ live \subseteq Cells /\ c \in Cells /\ c \notin live /\ live' = live \cup {c}
    BY LinkedListAssumption DEF TypeOK, New
  <1>7. /\ curr = NULL <=> m = Len(s)
        /\ prev = NULL <=> m = 0
        /\ prev \in Pointer /\ curr \in Pointer
    <2> HIDE DEF s, prev, curr
    <2>1. curr \in Pointer /\ (curr = NULL <=> m = Len(s))
      BY <1>1, <1>2, <1>4, SuccType
    <2>2. CASE m = 0
      BY <1>5, <2>1, <2>2 DEF Pointer
    <2>3. CASE m > 0
      <3>1. s[m] \in Cells
        BY <1>1, <1>2, <2>3
      <3> QED BY <1>5, <1>6, <2>1, <2>3, <3>1 DEF Pointer
    <2> QED BY <1>2, <2>2, <2>3
  <1>8. /\ mem \in Memory
        /\ prev \in live => mem[prev].next = c
        /\ \A x \in Cells : x # prev => mem[x] = heap[x]
        /\ \A x \in Cells : mem[x].data = heap[x].data
    <2>1. c \in Pointer
      BY DEF Pointer
    <2>2. mem = Linked(prev, c)
      OBVIOUS
    <2> HIDE DEF prev, mem
    <2> QED BY <1>7, <2>1, <2>2, LinkedIs
  <1> HIDE DEF s, prev, curr, mem
  <1>9. heap'[c] = [data |-> data, next |-> curr] /\ \A x \in Cells : x # c => heap'[x] = mem[x]
    BY <1>3, <1>8 DEF Memory
  <1>10. m > 0 => heap'[s[m]].next = c
    <2> SUFFICES ASSUME m > 0 PROVE heap'[s[m]].next = c
      OBVIOUS
    <2>1. s[m] \in Cells /\ s[m] \in live /\ prev = s[m]
      BY <1>1, <1>2, <1>5
    <2> QED BY <1>6, <1>8, <1>9, <2>1
  <1>11. \A x \in Cells : x # c => heap'[x].data = heap[x].data
    BY <1>8, <1>9
  <1>12. \A x \in Cells : x # c /\ (m > 0 => x # s[m]) => heap'[x] = heap[x]
    <2> TAKE x \in Cells
    <2> HAVE x # c /\ (m > 0 => x # s[m])
    <2>1. x # prev
      BY <1>2, <1>5, <1>6
    <2> QED BY <1>8, <1>9, <2>1
  <1>13. /\ lists'[l] = [head |-> IF m = 0 THEN c ELSE lists[l].head,
                         tail |-> IF m = Len(s) THEN c ELSE lists[l].tail,
                         size |-> lists[l].size + 1]
         /\ \A j \in Lists \ {l} : lists'[j] = lists[j]
    BY <1>3, <1>7 DEF TypeOK
  <1> QED BY <1>4, <1>6, <1>9, <1>10, <1>11, <1>12, <1>13 DEF LinkedIn, s

\* The list gets one node more, and counts it.
LEMMA LinkedInYields ==
  ASSUME TypeOK, NEW paths, LaidOut(heap, live, lists, paths), CountedAs(live, lists, paths),
         NEW l \in Lists, NEW data \in Node, NEW c \in Cells, NEW m \in 0..Len(paths[l]),
         LinkedIn(paths[l], l, m, c, data)
  PROVE  Yields({With(View(heap, lists, paths), l,
                      ListOf(Inserted(View(heap, lists, paths)[l].nodes, m, data)))}, TRUE)
  <1> DEFINE s == paths[l]
             t == Inserted(s, m, c)
  <1>1. /\ s \in Seq(Cells) /\ IsChain(heap, lists[l].head, s) /\ Len(s) \in Nat
        /\ \A i \in 1..Len(s) : s[i] \in Cells /\ s[i] \in live /\ heap[s[i]].data \in Node
    BY LaidOutList
  <1>2. /\ live' = live \cup {c} /\ c \notin live
        /\ heap'[c] = [data |-> data, next |-> Succ(s, m)]
        /\ m > 0 => heap'[s[m]].next = c
        /\ \A x \in Cells : x # c => heap'[x].data = heap[x].data
        /\ \A x \in Cells : x # c /\ (m > 0 => x # s[m]) => heap'[x] = heap[x]
        /\ lists'[l] = [head |-> IF m = 0 THEN c ELSE lists[l].head,
                        tail |-> IF m = Len(s) THEN c ELSE lists[l].tail,
                        size |-> lists[l].size + 1]
        /\ \A j \in Lists \ {l} : lists'[j] = lists[j]
    BY DEF LinkedIn
  <1> HIDE DEF t
  <1>3. \A i \in 1..Len(s) : s[i] # c /\ heap'[s[i]].data = heap[s[i]].data
    BY <1>1, <1>2
  <1>4. \A i \in 1..Len(s) : i # m => heap'[s[i]] = heap[s[i]]
    <2> TAKE i \in 1..Len(s)
    <2> HAVE i # m
    <2>1. m > 0 => s[i] # s[m]
      <3> SUFFICES ASSUME m > 0 PROVE s[i] # s[m]
        OBVIOUS
      <3>1. m \in 1..Len(s)
        BY <1>1
      <3> QED BY <1>1, <3>1 DEF IsChain
    <2> QED BY <1>1, <1>2, <1>3, <2>1
  <1>5. IsChain(heap', lists'[l].head, t)
    <2>1. heap'[c].next = Succ(s, m)
      BY <1>2
    <2>2. \A i \in 1..Len(s) : i # m => heap'[s[i]].next = heap[s[i]].next
      BY <1>4
    <2>3. \A i \in 1..Len(s) : s[i] # c
      BY <1>3
    <2>4. m > 0 => heap'[s[m]].next = c
      BY <1>2
    <2>5. m \in 0..Len(s)
      OBVIOUS
    <2>6. IsChain(heap', IF m = 0 THEN c ELSE lists[l].head, t)
      <3> HIDE DEF s
      <3> QED BY <1>1, <2>1, <2>2, <2>3, <2>4, <2>5, ChainInserted DEF t
    <2>7. lists'[l].head = IF m = 0 THEN c ELSE lists[l].head
      BY <1>2
    <2> QED BY <2>6, <2>7
  <1>6. /\ Len(t) = Len(s) + 1
        /\ \A i \in 1..(Len(s) + 1) : t[i] = IF i <= m THEN s[i] ELSE IF i = m + 1 THEN c ELSE s[i - 1]
    <2>1. m \in 0..Len(s) /\ s \in Seq(Cells) /\ c \in Cells
      BY <1>1
    <2> HIDE DEF s
    <2>2. IsInserted(t, s, m, c)
      BY <2>1, InsertedCells DEF t
    <2> QED BY <2>2 DEF IsInserted
  <1>7. ASSUME NEW k \in 1..Len(t)
        PROVE  t[k] = c \/ \E i \in 1..Len(s) : t[k] = s[i]
    <2>1. CASE k <= m
      BY <1>1, <1>6, <2>1
    <2>2. CASE k = m + 1
      BY <1>1, <1>6, <2>2
    <2>3. CASE k > m + 1
      <3>1. k - 1 \in 1..Len(s) /\ t[k] = s[k - 1]
        BY <1>1, <1>6, <2>3
      <3> QED BY <3>1
    <2> QED BY <1>1, <1>6, <2>1, <2>2, <2>3
  <1>8. Alone(s, l)
    <2>1. ASSUME NEW x \in live, \A i \in 1..Len(s) : s[i] # x
          PROVE  heap'[x] = heap[x] /\ x \in live'
      <3>1. x \in Cells /\ x # c
        BY <1>2 DEF TypeOK
      <3>2. m > 0 => x # s[m]
        BY <1>1, <2>1
      <3> QED BY <1>2, <3>1, <3>2
    <2> QED BY <1>2, <2>1 DEF Alone
  <1>9. lists'[l].head # NULL => lists'[l].tail = t[Len(t)]
    <2>1. CASE m = Len(s)
      BY <1>1, <1>2, <1>6, <2>1
    <2>2. CASE m # Len(s)
      <3>1. Len(s) # 0 /\ t[Len(t)] = s[Len(s)] /\ lists'[l].tail = lists[l].tail
        BY <1>1, <1>2, <1>6, <2>2
      <3>2. lists[l].head # NULL
        BY <3>1, LaidOutList
      <3> QED BY <3>1, <3>2 DEF CountedAs
    <2> QED BY <2>1, <2>2
  <1>10. OwnChain(s, l, t)
    <2>1. ASSUME NEW k \in 1..Len(t)
          PROVE  /\ t[k] \in live' /\ heap'[t[k]].data \in Node
                 /\ t[k] \notin live \/ \E i \in 1..Len(s) : t[k] = s[i]
      <3>1. CASE t[k] = c
        BY <1>2, <3>1
      <3>2. CASE \E i \in 1..Len(s) : t[k] = s[i]
        <4>1. PICK i \in 1..Len(s) : t[k] = s[i]
          BY <3>2
        <4>2. heap'[s[i]].data \in Node /\ s[i] \in live'
          BY <1>1, <1>2, <1>3
        <4> QED BY <4>1, <4>2
      <3> QED BY <1>7, <3>1, <3>2
    <2>2. lists'[l].head # NULL => lists'[l].tail # NULL
      <3>1. Len(t) \in 1..Len(t)
        BY <1>1, <1>6
      <3>2. t[Len(t)] \in Cells
        BY <1>1, <1>7, <3>1
      <3> QED BY <1>9, <3>2, LinkedListAssumption
    <2> QED BY <1>5, <2>1, <2>2 DEF OwnChain
  <1>11. CountsOwn(live, lists, s, l, t, live', lists')
    <2>1. lists'[l].size = Len(t)
      BY <1>2, <1>6 DEF CountedAs
    <2>2. ASSUME NEW x \in live', \E i \in 1..Len(s) : s[i] = x
          PROVE  \E k \in 1..Len(t) : t[k] = x
      <3>1. PICK i \in 1..Len(s) : s[i] = x
        BY <2>2
      <3>2. CASE i <= m
        <4>1. i \in 1..Len(t) /\ t[i] = s[i]
          BY <1>1, <1>6, <3>2
        <4> QED BY <3>1, <4>1
      <3>3. CASE i > m
        <4>1. i + 1 \in 1..Len(t) /\ t[i + 1] = s[i]
          BY <1>1, <1>6, <3>3
        <4> QED BY <3>1, <4>1
      <3> QED BY <1>1, <3>2, <3>3
    <2>3. m + 1 \in 1..Len(t) /\ t[m + 1] = c
      BY <1>1, <1>6
    <2> QED BY <1>2, <1>9, <2>1, <2>2, <2>3 DEF CountsOwn
  <1>12. /\ Seen(heap', t) = Inserted(Seen(heap, s), m, data)
         /\ PlaceOf(t, lists'[l].tail) = Len(Seen(heap', t))
    <2>1. m \in 0..Len(s) /\ heap'[c].data = data
      BY <1>2
    <2>2. /\ \A i \in 1..Len(s) : heap[s[i]].data \in Node
          /\ \A i \in 1..Len(s) : heap'[s[i]].data = heap[s[i]].data
      BY <1>1, <1>3
    <2> HIDE DEF s
    <2>3. Seen(heap', t) = Inserted(Seen(heap, s), m, data)
      BY <1>1, <2>1, <2>2, SeenInserted DEF t
    <2>4. PlaceOf(t, lists'[l].tail) = Len(t)
      BY <1>5, <1>9, TailIsLast
    <2>5. Len(Seen(heap', t)) = Len(t)
      <3>1. t \in Seq(Cells) /\ \A i \in 1..Len(t) : heap'[t[i]].data \in Node
        BY <1>5, <1>10 DEF IsChain, OwnChain
      <3> QED BY <3>1, SeenIs
    <2> QED BY <2>3, <2>4, <2>5
  <1> DEFINE list == ListOf(Inserted(View(heap, lists, paths)[l].nodes, m, data))
  <1>13. list = [nodes |-> Seen(heap', t), tail |-> PlaceOf(t, lists'[l].tail)]
    <2>1. View(heap, lists, paths)[l].nodes = Seen(heap, s)
      BY DEF View
    <2> QED BY <1>12, <2>1 DEF ListOf
  <1> HIDE DEF list
  <1>14. Yields({With(View(heap, lists, paths), l, list)}, TRUE)
    BY <1>8, <1>10, <1>11, <1>13, OwnYields
  <1> QED BY <1>14 DEF list

\* A position from the size on means the end.
Clipped(n, size) == IF n > size THEN size ELSE n

\* add_nth_node_improved inserts its data where it is told to.
LEMMA Inserts ==
  ASSUME TypeOK, NEW paths, LaidOut(heap, live, lists, paths), CountedAs(live, lists, paths),
         NEW l \in Lists, NEW n \in Nat, NEW data \in Node, add_nth_node_improved(l, n, data)
  PROVE  Yields({With(View(heap, lists, paths), l,
                      ListOf(Inserted(View(heap, lists, paths)[l].nodes, Clipped(n, Len(paths[l])), data)))},
                TRUE)
  <1>1. PICK c \in Cells : New(c) /\ add_nth_node(l, n, c, data)
    BY DEF add_nth_node_improved
  <1> DEFINE m == IF n > Len(paths[l]) THEN Len(paths[l]) ELSE n
  <1>2. lists[l].size = Len(paths[l]) /\ Len(paths[l]) \in Nat
    BY LaidOutList DEF CountedAs
  <1>3. m \in 0..Len(paths[l])
    BY <1>2
  <1>4. m = Clipped(n, Len(paths[l]))
    BY DEF Clipped
  <1>5. LinkedIn(paths[l], l, m, c, data)
    BY <1>1, <1>2, InsertMemory
  <1> HIDE DEF m
  <1> QED BY <1>3, <1>4, <1>5, LinkedInYields

-----------------------------------------------------------------------------
\* Taking out a node.

\* Node k of s, the path of list l, unlinked and freed.
Dropped(s, l, k) ==
  /\ live' = live \ {s[k]}
  /\ k > 1 => heap'[s[k - 1]].next = Succ(s, k)
  /\ \A x \in Cells : x # s[k] => heap'[x].data = heap[x].data
  /\ \A x \in Cells : x # s[k] /\ (k > 1 => x # s[k - 1]) => heap'[x] = heap[x]
  /\ \A j \in Lists \ {l} : lists'[j] = lists[j]
  /\ lists'[l].head = IF k = 1 THEN Succ(s, 1) ELSE lists[l].head

\* Drop, and the head that Unlinked gives.
LEMMA DropMemory ==
  ASSUME TypeOK, NEW paths, LaidOut(heap, live, lists, paths), NEW l \in Lists,
         NEW k \in 1..Len(paths[l]), Drop(l, k - 1),
         \A j \in Lists \ {l} : lists'[j] = lists[j], lists'[l].head = Unlinked(l, k - 1)
  PROVE  Dropped(paths[l], l, k)
  <1> DEFINE s == paths[l]
             prev == Before(l, k - 1)
             curr == At(l, k - 1)
             next == At(l, k)
             mem == Linked(prev, next)
  <1>1. /\ s \in Seq(Cells) /\ Len(s) \in Nat /\ IsChain(heap, lists[l].head, s)
        /\ \A i \in 1..Len(s) : s[i] \in Cells /\ s[i] \in live
    BY LaidOutList
  <1>2. k - 1 \in Nat /\ (k - 1) + 1 = k /\ k \in Nat /\ k - 1 < Len(s) /\ k - 1 \in 0..Len(s)
    BY <1>1
  <1>3. next = Succ(s, k) /\ next \in Pointer
    <2>1. next = Succ(s, k)
      BY <1>2, AtIs
    <2> HIDE DEF s, next
    <2> QED BY <1>1, <1>2, <2>1, SuccType
  <1>4. curr = s[k] /\ curr \in Cells /\ curr \in live
    <2>1. curr = Succ(s, k - 1)
      BY <1>2, AtIs
    <2>2. k \in 1..Len(s)
      OBVIOUS
    <2> HIDE DEF s, curr
    <2>3. curr = s[k]
      BY <1>1, <1>2, <2>1, SuccType
    <2> QED BY <1>1, <2>2, <2>3
  <1>5. (k = 1 => prev = NULL) /\ (k > 1 => prev = s[k - 1])
    BY <1>2, BeforeIs
  <1>6. live' = live \ {curr} /\ heap' = [mem EXCEPT ![curr] = Freed]
    BY <1>2 DEF Drop
  <1>7. NULL \notin Cells /\ live \subseteq Cells
    BY LinkedListAssumption DEF TypeOK
  <1>8. prev \in Pointer
    <2>1. CASE k = 1
      BY <1>5, <2>1 DEF Pointer
    <2>2. CASE k > 1
      <3>1. k - 1 \in 1..Len(s)
        BY <1>2, <2>2
      <3>2. s[k - 1] \in Cells
        BY <1>1, <3>1
      <3> QED BY <1>5, <2>2, <3>2 DEF Pointer
    <2> QED BY <1>2, <2>1, <2>2
  <1>9. /\ mem \in Memory
        /\ prev \in live => mem[prev].next = next
        /\ \A x \in Cells : x # prev => mem[x] = heap[x]
        /\ \A x \in Cells : mem[x].data = heap[x].data
    <2>1. mem = Linked(prev, next)
      OBVIOUS
    <2> HIDE DEF prev, next, mem
    <2> QED BY <1>3, <1>8, <2>1, LinkedIs
  <1>10. lists'[l].head = IF k = 1 THEN Succ(s, 1) ELSE lists[l].head
    BY <1>2, <1>3 DEF Unlinked
  <1>11. k > 1 => k - 1 \in 1..Len(s) /\ s[k - 1] # s[k]
    BY <1>1, <1>2 DEF IsChain
  <1> HIDE DEF s, prev, curr, next, mem
  <1>12. \A x \in Cells : x # curr => heap'[x] = mem[x]
    BY <1>6, <1>9 DEF Memory
  <1>13. k > 1 => heap'[s[k - 1]].next = Succ(s, k)
    <2> SUFFICES ASSUME k > 1 PROVE heap'[s[k - 1]].next = Succ(s, k)
      OBVIOUS
    <2>1. prev = s[k - 1] /\ prev \in live /\ prev \in Cells /\ prev # curr
      BY <1>1, <1>4, <1>5, <1>11
    <2> QED BY <1>3, <1>9, <1>12, <2>1
  <1>14. \A x \in Cells : x # s[k] => heap'[x].data = heap[x].data
    BY <1>4, <1>9, <1>12
  <1>15. \A x \in Cells : x # s[k] /\ (k > 1 => x # s[k - 1]) => heap'[x] = heap[x]
    <2> TAKE x \in Cells
    <2> HAVE x # s[k] /\ (k > 1 => x # s[k - 1])
    <2>1. x # prev
      BY <1>2, <1>5, <1>7
    <2> QED BY <1>4, <1>9, <1>12, <2>1
  <1>16. \A j \in Lists \ {l} : lists'[j] = lists[j]
    OBVIOUS
  <1>17. live' = live \ {s[k]}
    BY <1>4, <1>6
  <1>18. Dropped(s, l, k)
    BY <1>10, <1>13, <1>14, <1>15, <1>16, <1>17 DEF Dropped
  <1> QED BY <1>18 DEF s

\* The others are left, as a chain, and nothing else changes.
LEMMA DroppedOwn ==
  ASSUME TypeOK, NEW paths, LaidOut(heap, live, lists, paths), NEW l \in Lists,
         NEW k \in 1..Len(paths[l]), Dropped(paths[l], l, k),
         lists'[l].head # NULL => lists'[l].tail # NULL
  PROVE  /\ Alone(paths[l], l)
         /\ OwnChain(paths[l], l, Without(paths[l], k))
         /\ Seen(heap', Without(paths[l], k)) = Without(Seen(heap, paths[l]), k)
  <1> DEFINE s == paths[l]
             t == Without(s, k)
  <1>1. /\ s \in Seq(Cells) /\ IsChain(heap, lists[l].head, s) /\ Len(s) \in Nat
        /\ \A i \in 1..Len(s) : s[i] \in Cells /\ s[i] \in live /\ heap[s[i]].data \in Node
    BY LaidOutList
  <1>2. /\ live' = live \ {s[k]}
        /\ k > 1 => heap'[s[k - 1]].next = Succ(s, k)
        /\ \A x \in Cells : x # s[k] => heap'[x].data = heap[x].data
        /\ \A x \in Cells : x # s[k] /\ (k > 1 => x # s[k - 1]) => heap'[x] = heap[x]
        /\ \A j \in Lists \ {l} : lists'[j] = lists[j]
        /\ lists'[l].head = IF k = 1 THEN Succ(s, 1) ELSE lists[l].head
    BY DEF Dropped
  <1>3. k \in 1..Len(s) /\ k \in Nat /\ (k > 1 => k - 1 \in 1..Len(s))
    BY <1>1
  <1> HIDE DEF t
  <1>4. \A i \in 1..Len(s) : i # k => s[i] # s[k] /\ s[i] \in live' /\ heap'[s[i]].data = heap[s[i]].data
    BY <1>1, <1>2, <1>3 DEF IsChain
  <1>5. \A i \in 1..Len(s) : i # k /\ i # k - 1 => heap'[s[i]] = heap[s[i]]
    <2> TAKE i \in 1..Len(s)
    <2> HAVE i # k /\ i # k - 1
    <2>1. k > 1 => s[i] # s[k - 1]
      BY <1>1, <1>3 DEF IsChain
    <2> QED BY <1>1, <1>2, <1>4, <2>1
  <1>6. IsChain(heap', lists'[l].head, t)
    <2>1. \A i \in 1..Len(s) : i # k - 1 /\ i # k => heap'[s[i]].next = heap[s[i]].next
      BY <1>5
    <2>2. IsChain(heap', IF k = 1 THEN Succ(s, 1) ELSE lists[l].head, t)
      <3>1. k > 1 => heap'[s[k - 1]].next = Succ(s, k)
        BY <1>2
      <3> HIDE DEF s
      <3> QED BY <1>1, <1>3, <2>1, <3>1, ChainDropped DEF t
    <2> QED BY <1>2, <2>2
  <1>7. /\ Len(t) = Len(s) - 1
        /\ \A i \in 1..(Len(s) - 1) : t[i] = IF i < k THEN s[i] ELSE s[i + 1]
    <2> HIDE DEF s
    <2> QED BY <1>1, <1>3, WithoutType DEF t
  <1>8. ASSUME NEW i \in 1..Len(t)
        PROVE  \E j \in 1..Len(s) : j # k /\ t[i] = s[j]
    <2>1. CASE i < k
      BY <1>1, <1>3, <1>7, <2>1
    <2>2. CASE ~(i < k)
      <3>1. i + 1 \in 1..Len(s) /\ i + 1 # k /\ t[i] = s[i + 1]
        BY <1>1, <1>3, <1>7, <2>2
      <3> QED BY <3>1
    <2> QED BY <2>1, <2>2
  <1>9. OwnChain(s, l, t)
    <2>1. ASSUME NEW i \in 1..Len(t)
          PROVE  /\ t[i] \in live' /\ heap'[t[i]].data \in Node
                 /\ t[i] \notin live \/ \E j \in 1..Len(s) : t[i] = s[j]
      <3>1. PICK j \in 1..Len(s) : j # k /\ t[i] = s[j]
        BY <1>8
      <3>2. s[j] \in live' /\ heap'[s[j]].data \in Node
        BY <1>1, <1>4, <3>1
      <3> QED BY <3>1, <3>2
    <2> QED BY <1>6, <2>1 DEF OwnChain
  <1>10. Alone(s, l)
    <2>1. ASSUME NEW x \in live, \A i \in 1..Len(s) : s[i] # x
          PROVE  heap'[x] = heap[x] /\ x \in live'
      <3>1. x \in Cells /\ x # s[k] /\ (k > 1 => x # s[k - 1])
        BY <1>3, <2>1 DEF TypeOK
      <3> QED BY <1>2, <3>1
    <2> QED BY <1>2, <2>1 DEF Alone
  <1>11. Seen(heap', t) = Without(Seen(heap, s), k)
    <2>1. \A i \in 1..Len(s) : i # k => heap'[s[i]].data = heap[s[i]].data
      BY <1>4
    <2>2. \A i \in 1..Len(s) : heap[s[i]].data \in Node
      BY <1>1
    <2> HIDE DEF s
    <2> QED BY <1>1, <1>3, <2>1, <2>2, SeenWithout DEF t
  <1> QED BY <1>9, <1>10, <1>11 DEF t

\* A function of LinkedList.c also keeps the count and the tail.
LEMMA DroppedYields ==
  ASSUME TypeOK, NEW paths, LaidOut(heap, live, lists, paths), CountedAs(live, lists, paths),
         NEW l \in Lists, NEW k \in 1..Len(paths[l]), Dropped(paths[l], l, k),
         lists'[l].size = lists[l].size - 1,
         lists'[l].head # NULL =>
           lists'[l].tail = IF k = Len(paths[l]) THEN paths[l][k - 1] ELSE lists[l].tail
  PROVE  Yields({With(View(heap, lists, paths), l,
                      ListOf(Without(View(heap, lists, paths)[l].nodes, k)))}, TRUE)
  <1> DEFINE s == paths[l]
             t == Without(s, k)
  <1>1. /\ s \in Seq(Cells) /\ IsChain(heap, lists[l].head, s) /\ Len(s) \in Nat
        /\ lists[l].head = NULL <=> Len(s) = 0
        /\ \A i \in 1..Len(s) : s[i] \in Cells
    BY LaidOutList
  <1>2. k \in 1..Len(s) /\ k \in Nat
    BY <1>1
  <1>3. /\ live' = live \ {s[k]}
        /\ lists'[l].head = IF k = 1 THEN Succ(s, 1) ELSE lists[l].head
        /\ \A j \in Lists \ {l} : lists'[j] = lists[j]
    BY DEF Dropped
  <1>4. /\ Len(t) = Len(s) - 1
        /\ \A i \in 1..(Len(s) - 1) : t[i] = IF i < k THEN s[i] ELSE s[i + 1]
    <2> HIDE DEF s
    <2> QED BY <1>1, <1>2, WithoutType
  <1>5. lists[l].size = Len(s) /\ lists[l].tail = s[Len(s)]
    BY <1>1, <1>2 DEF CountedAs
  <1>6. lists'[l].head # NULL => Len(s) > 1
    <2>1. PICK n \in Nat : n = Len(s)
      BY <1>1
    <2>2. CASE n = 1
      <3>1. k = 1
        BY <1>2, <2>1, <2>2
      <3> QED BY <1>3, <2>1, <2>2, <3>1 DEF Succ
    <2>3. CASE n # 1
      <3>1. k \in 1..n
        BY <1>2, <2>1
      <3>2. n > 1
        BY <2>3, <3>1
      <3> QED BY <2>1, <3>2
    <2> QED BY <2>2, <2>3
  <1> HIDE DEF t
  <1>7. ASSUME lists'[l].head # NULL PROVE lists'[l].tail = t[Len(t)] /\ lists'[l].tail # NULL
    <2>1. Len(s) > 1
      BY <1>6, <1>7
    <2>2. CASE k = Len(s)
      <3>1. k - 1 \in 1..(Len(s) - 1) /\ Len(t) = k - 1 /\ t[k - 1] = s[k - 1]
        BY <1>1, <1>2, <1>4, <2>1, <2>2
      <3>2. k - 1 \in 1..Len(s)
        BY <1>1, <3>1
      <3>3. lists'[l].tail = s[k - 1]
        BY <1>7, <2>2
      <3> QED BY <1>1, <3>1, <3>2, <3>3, LinkedListAssumption
    <2>3. CASE k # Len(s)
      <3>1. Len(t) \in 1..(Len(s) - 1) /\ ~(Len(t) < k) /\ Len(t) + 1 = Len(s)
        BY <1>1, <1>2, <1>4, <2>1, <2>3
      <3>2. t[Len(t)] = s[Len(s)]
        BY <1>4, <3>1
      <3>3. lists'[l].tail = s[Len(s)]
        BY <1>5, <1>7, <2>3
      <3>4. Len(s) \in 1..Len(s)
        BY <1>1, <2>1
      <3> QED BY <1>1, <3>2, <3>3, <3>4, LinkedListAssumption
    <2> QED BY <2>2, <2>3
  <1>8. /\ Alone(s, l) /\ OwnChain(s, l, t)
        /\ Seen(heap', t) = Without(Seen(heap, s), k)
    BY <1>7, DroppedOwn DEF t
  <1>9. CountsOwn(live, lists, s, l, t, live', lists')
    <2>1. lists'[l].size = Len(t)
      BY <1>4, <1>5
    <2>2. ASSUME NEW x \in live', \E i \in 1..Len(s) : s[i] = x
          PROVE  \E i \in 1..Len(t) : t[i] = x
      <3>1. PICK i \in 1..Len(s) : s[i] = x
        BY <2>2
      <3>2. i # k
        BY <1>3, <3>1
      <3>3. CASE i < k
        <4>1. i \in 1..Len(t) /\ t[i] = s[i]
          BY <1>1, <1>2, <1>4, <3>3
        <4> QED BY <3>1, <4>1
      <3>4. CASE i > k
        <4>1. i - 1 \in 1..Len(t) /\ ~(i - 1 < k) /\ (i - 1) + 1 = i
          BY <1>1, <1>2, <1>4, <3>4
        <4>2. t[i - 1] = s[i]
          BY <1>4, <4>1
        <4> QED BY <3>1, <4>1, <4>2
      <3> QED BY <1>1, <1>2, <3>2, <3>3, <3>4
    <2> QED BY <1>3, <1>7, <2>1, <2>2 DEF CountsOwn
  <1>10. PlaceOf(t, lists'[l].tail) = Len(Seen(heap', t))
    <2>1. IsChain(heap', lists'[l].head, t)
      BY <1>8 DEF OwnChain
    <2>2. PlaceOf(t, lists'[l].tail) = Len(t)
      BY <1>7, <2>1, TailIsLast
    <2>3. Len(Seen(heap', t)) = Len(t)
      <3>1. t \in Seq(Cells) /\ \A i \in 1..Len(t) : heap'[t[i]].data \in Node
        BY <1>8 DEF IsChain, OwnChain
      <3> QED BY <3>1, SeenIs
    <2> QED BY <2>2, <2>3
  <1> DEFINE list == ListOf(Without(View(heap, lists, paths)[l].nodes, k))
  <1>11. list = [nodes |-> Seen(heap', t), tail |-> PlaceOf(t, lists'[l].tail)]
    <2>1. View(heap, lists, paths)[l].nodes = Seen(heap, s)
      BY DEF View
    <2> QED BY <1>8, <1>10, <2>1 DEF ListOf
  <1> HIDE DEF list
  <1>12. Yields({With(View(heap, lists, paths), l, list)}, TRUE)
    BY <1>8, <1>9, <1>11, OwnYields
  <1> QED BY <1>12 DEF list

\* remove_first takes out the first node.
LEMMA RemovesFirst ==
  ASSUME TypeOK, NEW paths, LaidOut(heap, live, lists, paths), CountedAs(live, lists, paths),
         NEW l \in Lists, remove_first(l)
  PROVE  /\ Len(paths[l]) # 0
         /\ Yields({With(View(heap, lists, paths), l,
                         ListOf(Without(View(heap, lists, paths)[l].nodes, 1)))}, TRUE)
  <1> DEFINE s == paths[l]
             first == lists[l].head
             next == heap[first].next
  <1>1. /\ s \in Seq(Cells) /\ Len(s) \in Nat /\ IsChain(heap, first, s)
        /\ first = NULL <=> Len(s) = 0
        /\ \A i \in 1..Len(s) : s[i] \in Cells
    BY LaidOutList
  <1>2. /\ first # NULL
        /\ lists' = [lists EXCEPT ![l] = [head |-> next,
                                          tail |-> IF next = NULL THEN NULL ELSE @.tail,
                                          size |-> @.size - 1]]
        /\ live' = live \ {first}
        /\ heap' = heap
    BY DEF remove_first
  <1>3. 1 \in 1..Len(s) /\ Len(s) # 0
    BY <1>1, <1>2
  <1>4. first = s[1]
    BY <1>1, <1>3 DEF IsChain, Succ
  <1>5. next = Succ(s, 1)
    BY <1>1, <1>3, <1>4 DEF IsChain
  <1>6. /\ lists'[l] = [head |-> next, tail |-> IF next = NULL THEN NULL ELSE lists[l].tail,
                        size |-> lists[l].size - 1]
        /\ \A j \in Lists \ {l} : lists'[j] = lists[j]
    BY <1>2 DEF TypeOK
  <1> HIDE DEF first, next
  <1>7. \A x \in Cells : x # s[1] => heap'[x] = heap[x]
    BY <1>2
  <1>8. live' = live \ {s[1]}
    BY <1>2, <1>4
  <1>9. lists'[l].head = next /\ lists'[l].size = lists[l].size - 1
    BY <1>6
  <1>10. Dropped(s, l, 1)
    BY <1>5, <1>6, <1>7, <1>8, <1>9 DEF Dropped
  <1>11. ASSUME lists'[l].head # NULL
         PROVE  lists'[l].tail = IF 1 = Len(s) THEN s[1 - 1] ELSE lists[l].tail
    <2>1. lists'[l].tail = lists[l].tail
      BY <1>6, <1>9, <1>11
    <2>2. Len(s) # 1
      BY <1>5, <1>9, <1>11 DEF Succ
    <2> QED BY <2>1, <2>2
  <1>12. Yields({With(View(heap, lists, paths), l,
                      ListOf(Without(View(heap, lists, paths)[l].nodes, 1)))}, TRUE)
    BY <1>3, <1>9, <1>10, <1>11, DroppedYields
  <1> QED BY <1>3, <1>12

\* remove_nth_node takes out the node it is told to.
LEMMA RemovesNth ==
  ASSUME TypeOK, NEW paths, LaidOut(heap, live, lists, paths), CountedAs(live, lists, paths),
         NEW l \in Lists, NEW n \in Nat, remove_nth_node(l, n)
  PROVE  /\ Len(paths[l]) # 0
         /\ Yields({With(View(heap, lists, paths), l,
                         ListOf(Without(View(heap, lists, paths)[l].nodes,
                                        Clipped(n, Len(paths[l]) - 1) + 1)))}, TRUE)
  <1> DEFINE s == paths[l]
             m == IF n > Len(s) - 1 THEN Len(s) - 1 ELSE n
             k == m + 1
  <1>1. /\ s \in Seq(Cells) /\ Len(s) \in Nat
        /\ lists[l].head = NULL <=> Len(s) = 0
    BY LaidOutList
  <1>2. lists[l].head # NULL /\ lists[l].size = Len(s)
    BY DEF remove_nth_node, CountedAs
  <1>3. /\ Drop(l, m)
        /\ lists' = [lists EXCEPT ![l] =
                       [head |-> Unlinked(l, m),
                        tail |-> IF m > 0 /\ At(l, m + 1) = NULL THEN Before(l, m) ELSE @.tail,
                        size |-> @.size - 1]]
    BY <1>2 DEF remove_nth_node
  <1>4. Len(s) # 0 /\ k \in 1..Len(s) /\ k \in Nat /\ m \in 0..Len(s) /\ k - 1 = m
    BY <1>1, <1>2
  <1>5. /\ lists'[l] = [head |-> Unlinked(l, m),
                        tail |-> IF m > 0 /\ At(l, m + 1) = NULL THEN Before(l, m) ELSE lists[l].tail,
                        size |-> lists[l].size - 1]
        /\ \A j \in Lists \ {l} : lists'[j] = lists[j]
    BY <1>3 DEF TypeOK
  <1>6. At(l, m + 1) = Succ(s, k)
    BY <1>4, AtIs
  <1>7. m > 0 => Before(l, m) = s[m]
    BY <1>4, BeforeIs
  <1>8. Clipped(n, Len(s) - 1) + 1 = k
    BY DEF Clipped
  <1>9. At(l, m + 1) = NULL <=> k = Len(s)
    <2>1. k \in 1..Len(s)
      BY <1>4
    <2> HIDE DEF s, m, k
    <2>2. Succ(s, k) = NULL <=> k = Len(s)
      BY <1>1, <1>4, <2>1, SuccType
    <2> QED BY <1>6, <2>2
  <1>10. Dropped(s, l, k)
    <2>1. lists'[l].head = Unlinked(l, m)
      BY <1>5
    <2> HIDE DEF m
    <2> QED BY <1>3, <1>4, <1>5, <2>1, DropMemory
  <1>11. lists'[l].head = (IF k = 1 THEN Succ(s, 1) ELSE lists[l].head)
    BY <1>10 DEF Dropped
  <1>12. ASSUME lists'[l].head # NULL
         PROVE  lists'[l].tail = IF k = Len(s) THEN s[k - 1] ELSE lists[l].tail
    <2>1. CASE k = Len(s)
      <3>1. m > 0
        <4>1. CASE k = 1
          BY <1>11, <1>12, <2>1, <4>1 DEF Succ
        <4>2. CASE k # 1
          <5>1. m \in Nat /\ k = m + 1
            BY <1>1, <1>4
          <5> HIDE DEF m, k
          <5> QED BY <4>2, <5>1
        <4> QED BY <4>1, <4>2
      <3> HIDE DEF m, k
      <3> QED BY <1>4, <1>5, <1>7, <1>9, <2>1, <3>1
    <2>2. CASE k # Len(s)
      <3> HIDE DEF m, k
      <3> QED BY <1>5, <1>9, <2>2
    <2> QED BY <2>1, <2>2
  <1>13. lists'[l].size = lists[l].size - 1
    BY <1>5
  <1> HIDE DEF m, k
  <1>14. Yields({With(View(heap, lists, paths), l,
                      ListOf(Without(View(heap, lists, paths)[l].nodes, k)))}, TRUE)
    BY <1>4, <1>10, <1>12, <1>13, DroppedYields
  <1> QED BY <1>4, <1>8, <1>14

\* free_list_improved empties the list.
LEMMA Clears ==
  ASSUME TypeOK, NEW paths, LaidOut(heap, live, lists, paths), CountedAs(live, lists, paths),
         NEW l \in Lists, free_list_improved(l)
  PROVE  Yields({With(View(heap, lists, paths), l, ListOf(<< >>))}, TRUE)
  <1> DEFINE s == paths[l]
             t == << >>
             freed == {At(l, n) : n \in 0..(lists[l].size - 1)}
  <1>1. s \in Seq(Cells) /\ Len(s) \in Nat
    BY LaidOutList
  <1>2. lists[l].size = Len(s)
    BY DEF CountedAs
  <1>3. \A i \in 1..Len(s) : s[i] = At(l, i - 1)
    <2> TAKE i \in 1..Len(s)
    <2>1. i - 1 \in Nat /\ i - 1 < Len(s) /\ (i - 1) + 1 = i
      BY <1>1
    <2>2. At(l, i - 1) = Succ(s, i - 1)
      BY <2>1, AtIs
    <2> HIDE DEF s
    <2> QED BY <1>1, <2>1, <2>2, SuccType
  <1>4. \A x : x \in freed <=> \E i \in 1..Len(s) : s[i] = x
    <2>1. \A n \in 0..(Len(s) - 1) : n + 1 \in 1..Len(s) /\ (n + 1) - 1 = n
      BY <1>1
    <2>2. \A i \in 1..Len(s) : i - 1 \in 0..(Len(s) - 1)
      BY <1>1
    <2>3. freed = {At(l, n) : n \in 0..(Len(s) - 1)}
      BY <1>2
    <2> HIDE DEF s, freed
    <2>4. ASSUME NEW x \in freed PROVE \E i \in 1..Len(s) : s[i] = x
      <3>1. PICK n \in 0..(Len(s) - 1) : x = At(l, n)
        BY <2>3
      <3>2. n + 1 \in 1..Len(s) /\ s[n + 1] = At(l, (n + 1) - 1) /\ (n + 1) - 1 = n
        BY <1>3, <2>1
      <3> QED BY <3>1, <3>2
    <2>5. ASSUME NEW i \in 1..Len(s) PROVE s[i] \in freed
      BY <1>3, <2>2, <2>3
    <2> QED BY <2>4, <2>5
  <1>5. /\ live' = live \ freed
        /\ heap' = [x \in Cells |-> IF x \in freed THEN Freed ELSE heap[x]]
        /\ lists'[l] = init_list
        /\ \A j \in Lists \ {l} : lists'[j] = lists[j]
    BY DEF free_list_improved, Free, TypeOK
  <1>6. lists'[l].head = NULL /\ lists'[l].size = 0
    BY <1>5 DEF init_list
  <1> HIDE DEF freed
  <1>7. Alone(s, l)
    <2>1. ASSUME NEW x \in live, \A i \in 1..Len(s) : s[i] # x
          PROVE  heap'[x] = heap[x] /\ x \in live'
      <3>1. x \in Cells /\ x \notin freed
        BY <1>4, <2>1 DEF TypeOK
      <3> QED BY <1>5, <3>1
    <2> QED BY <1>5, <2>1 DEF Alone
  <1>8. t \in Seq(Cells) /\ Len(t) = 0
    OBVIOUS
  <1>9. OwnChain(s, l, t) /\ IsChain(heap', lists'[l].head, t)
    BY <1>6, <1>8 DEF OwnChain, IsChain, Succ
  <1>10. CountsOwn(live, lists, s, l, t, live', lists')
    BY <1>4, <1>5, <1>6, <1>8 DEF CountsOwn
  <1>11. Seen(heap', t) = << >> /\ PlaceOf(t, lists'[l].tail) = 0
    <2>1. Seen(heap', t) = << >>
      BY DEF Seen
    <2>2. PlaceOf(t, lists'[l].tail) = Len(t)
      BY <1>6, <1>9, TailIsLast
    <2> QED BY <1>8, <2>1, <2>2
  <1>12. ListOf(<< >>) = [nodes |-> Seen(heap', t), tail |-> PlaceOf(t, lists'[l].tail)]
    BY <1>8, <1>11 DEF ListOf
  <1> QED BY <1>7, <1>9, <1>10, <1>12, OwnYields

-----------------------------------------------------------------------------
\* The edits by hand.

\* Path finds the paths that the lists are laid out as.
LEMMA PathIs ==
  ASSUME TypeOK, NEW paths, LaidOut(heap, live, lists, paths), NEW l \in Lists
  PROVE  Path(l) = paths[l]
  <1>1. heap \in Memory /\ lists[l].head \in Pointer
    BY DEF TypeOK, Memory
  <1>2. IsChain(heap, lists[l].head, paths[l])
    BY LaidOutList
  <1> QED BY <1>1, <1>2, ChainIs DEF Path

\* The n-th node of a list, counted from 0, is element n + 1 of what is seen.
LEMMA NodeAt ==
  ASSUME TypeOK, NEW paths, LaidOut(heap, live, lists, paths), NEW l \in Lists,
         NEW n \in 0..(Len(paths[l]) - 1)
  PROVE  /\ At(l, n) = paths[l][n + 1]
         /\ heap[At(l, n)].data = View(heap, lists, paths)[l].nodes[n + 1]
  <1> DEFINE s == paths[l]
  <1>1. s \in Seq(Cells) /\ Len(s) \in Nat
    BY LaidOutList
  <1>2. n \in Nat /\ n < Len(s) /\ n + 1 \in 1..Len(s)
    BY <1>1
  <1>3. At(l, n) = Succ(s, n)
    BY <1>2, AtIs
  <1>4. View(heap, lists, paths)[l].nodes = Seen(heap, s)
    BY DEF View
  <1> HIDE DEF s
  <1>5. At(l, n) = s[n + 1]
    BY <1>1, <1>2, <1>3, SuccType
  <1>6. Seen(heap, s)[n + 1] = heap[s[n + 1]].data
    BY <1>2 DEF Seen
  <1>7. heap[At(l, n)].data = View(heap, lists, paths)[l].nodes[n + 1]
    BY <1>4, <1>5, <1>6
  <1> QED BY <1>5, <1>7 DEF s

\* The first place counted from 0 and the first place counted from 1.
LEMMA FirstShifted ==
  ASSUME NEW A, A \subseteq Nat, A # {}, NEW B, B = {n + 1 : n \in A}
  PROVE  First(B) = First(A) + 1 /\ First(A) \in A
  <1>1. First(A) \in A /\ \A j \in A : First(A) <= j
    BY FirstIs
  <1>2. ASSUME NEW j \in B PROVE j \in Nat /\ First(A) + 1 <= j
    <2>1. PICK n \in A : j = n + 1
      OBVIOUS
    <2>2. n \in Nat /\ First(A) \in Nat /\ First(A) <= n
      BY <1>1
    <2> QED BY <2>1, <2>2
  <1>3. First(A) + 1 \in B
    BY <1>1
  <1>4. B \subseteq Nat /\ B # {}
    BY <1>2, <1>3
  <1>5. First(B) = First(A) + 1
    BY <1>2, <1>3, <1>4, FirstIs
  <1> QED BY <1>1, <1>5

\* The places of the nodes with exactly this topic.
Named(list, topic) == {i \in 1..Len(list.nodes) : MatchesExactly(list.nodes[i].topic, topic)}

\* The walk of unsubscribe, or of remove_by_id, finds what the operator of
\* TopicList does.
LEMMA FoundIs ==
  ASSUME TypeOK, NEW paths, LaidOut(heap, live, lists, paths), NEW l \in Lists, NEW topic
  PROVE  /\ Found(l, topic) \subseteq 0..(Len(paths[l]) - 1)
         /\ Named(View(heap, lists, paths)[l], topic) = {n + 1 : n \in Found(l, topic)}
  <1> DEFINE nodes == View(heap, lists, paths)[l].nodes
             A == Found(l, topic)
             B == {i \in 1..Len(nodes) : MatchesExactly(nodes[i].topic, topic)}
  <1>1. PICK size \in Nat : size = Len(paths[l])
    BY LaidOutList
  <1>2. Len(nodes) = size
    <2>1. Sized(View(heap, lists, paths), l, Len(paths[l]))
      BY ViewNodes
    <2> QED BY <1>1, <2>1 DEF Sized
  <1>3. \A n \in 0..(size - 1) : heap[At(l, n)].data = nodes[n + 1]
    BY <1>1, NodeAt
  <1>4. B = Named(View(heap, lists, paths)[l], topic)
    BY DEF Named
  <1> HIDE DEF nodes
  <1>5. A = {n \in 0..(size - 1) : MatchesExactly(nodes[n + 1].topic, topic)}
    <2>1. Length(l) = size
      BY <1>1, PathIs DEF Length
    <2> QED BY <1>3, <2>1 DEF Found
  <1>6. ASSUME NEW i \in B PROVE i \in {n + 1 : n \in A}
    <2>1. i - 1 \in 0..(size - 1) /\ (i - 1) + 1 = i
      BY <1>2
    <2>2. i - 1 \in A
      BY <1>5, <2>1
    <2> QED BY <2>1, <2>2
  <1>7. ASSUME NEW n \in A PROVE n + 1 \in B
    BY <1>2, <1>5
  <1> HIDE DEF A, B
  <1>8. A \subseteq 0..(Len(paths[l]) - 1) /\ B = {n + 1 : n \in A}
    BY <1>1, <1>5, <1>6, <1>7
  <1> QED BY <1>4, <1>8 DEF A

\* The same of the walk of subscribe.
LEMMA AlikeIs ==
  ASSUME TypeOK, NEW paths, LaidOut(heap, live, lists, paths), NEW l \in Lists, NEW topic
  PROVE  /\ Alike(l, topic) \subseteq 0..(Len(paths[l]) - 1)
         /\ Hits(View(heap, lists, paths)[l], topic) = {n + 1 : n \in Alike(l, topic)}
  <1> DEFINE nodes == View(heap, lists, paths)[l].nodes
             A == Alike(l, topic)
             B == {i \in 1..Len(nodes) : Matches(nodes[i].topic, topic)}
  <1>1. PICK size \in Nat : size = Len(paths[l])
    BY LaidOutList
  <1>2. Len(nodes) = size
    <2>1. Sized(View(heap, lists, paths), l, Len(paths[l]))
      BY ViewNodes
    <2> QED BY <1>1, <2>1 DEF Sized
  <1>3. \A n \in 0..(size - 1) : heap[At(l, n)].data = nodes[n + 1]
    BY <1>1, NodeAt
  <1>4. B = Hits(View(heap, lists, paths)[l], topic)
    BY DEF Hits
  <1> HIDE DEF nodes
  <1>5. A = {n \in 0..(size - 1) : Matches(nodes[n + 1].topic, topic)}
    <2>1. Length(l) = size
      BY <1>1, PathIs DEF Length
    <2> QED BY <1>3, <2>1 DEF Alike
  <1>6. ASSUME NEW i \in B PROVE i \in {n + 1 : n \in A}
    <2>1. i - 1 \in 0..(size - 1) /\ (i - 1) + 1 = i
      BY <1>2
    <2>2. i - 1 \in A
      BY <1>5, <2>1
    <2> QED BY <2>1, <2>2
  <1>7. ASSUME NEW n \in A PROVE n + 1 \in B
    BY <1>2, <1>5
  <1> HIDE DEF A, B
  <1>8. A \subseteq 0..(Len(paths[l]) - 1) /\ B = {n + 1 : n \in A}
    BY <1>1, <1>5, <1>6, <1>7
  <1> QED BY <1>4, <1>8 DEF A

\* Where a cell lies once node k has been taken out of a chain.
LEMMA PlaceWithout ==
  ASSUME NEW mem, NEW p, NEW s, IsChain(mem, p, s), NEW k \in 1..Len(s),
         NEW mem2, NEW p2, IsChain(mem2, p2, Without(s, k)), NEW c
  PROVE  PlaceOf(Without(s, k), c) =
           IF PlaceOf(s, c) = k THEN 0
           ELSE IF PlaceOf(s, c) > k THEN PlaceOf(s, c) - 1 ELSE PlaceOf(s, c)
  <1> DEFINE t == Without(s, k)
             place == PlaceOf(s, c)
             place2 == PlaceOf(t, c)
  <1>1. s \in Seq(Cells) /\ Len(s) \in Nat
    BY DEF IsChain
  <1>2. /\ Len(t) = Len(s) - 1
        /\ \A i \in 1..(Len(s) - 1) : t[i] = IF i < k THEN s[i] ELSE s[i + 1]
    BY <1>1, WithoutType
  <1>3. /\ place \in 0..Len(s)
        /\ \A i \in 1..Len(s) : s[i] = c => place = i
        /\ place # 0 => s[place] = c
    BY PlaceIs
  <1>4. /\ place2 \in 0..Len(t)
        /\ \A i \in 1..Len(t) : t[i] = c => place2 = i
        /\ place2 # 0 => t[place2] = c
    BY PlaceIs
  <1> HIDE DEF t, place, place2
  <1>5. place2 # 0 => place = (IF place2 < k THEN place2 ELSE place2 + 1)
    <2> SUFFICES ASSUME place2 # 0
                 PROVE  place = IF place2 < k THEN place2 ELSE place2 + 1
      OBVIOUS
    <2>1. CASE place2 < k
      <3>1. place2 \in 1..Len(s) /\ s[place2] = c
        BY <1>1, <1>2, <1>4, <2>1
      <3> QED BY <1>3, <2>1, <3>1
    <2>2. CASE ~(place2 < k)
      <3>1. place2 + 1 \in 1..Len(s) /\ s[place2 + 1] = c
        BY <1>1, <1>2, <1>4, <2>2
      <3> QED BY <1>3, <2>2, <3>1
    <2> QED BY <2>1, <2>2
  <1>6. place # 0 /\ place < k => place2 = place
    <2> SUFFICES ASSUME place # 0, place < k PROVE place2 = place
      OBVIOUS
    <2>1. place \in 1..Len(t) /\ t[place] = c
      BY <1>1, <1>2, <1>3
    <2> QED BY <1>4, <2>1
  <1>7. place > k => place2 = place - 1
    <2> SUFFICES ASSUME place > k PROVE place2 = place - 1
      OBVIOUS
    <2>1. place - 1 \in 1..Len(t) /\ ~(place - 1 < k) /\ (place - 1) + 1 = place
      BY <1>1, <1>2, <1>3
    <2>2. t[place - 1] = c
      BY <1>1, <1>2, <1>3, <2>1
    <2> QED BY <1>4, <2>1, <2>2
  <1>8. place2 = IF place = k THEN 0 ELSE IF place > k THEN place - 1 ELSE place
    BY <1>1, <1>2, <1>3, <1>4, <1>5, <1>6, <1>7
  <1> QED BY <1>8 DEF t, place, place2

\* remove_by_id, and unsubscribe, do what Unsubscribe says.
LEMMA RemovesByHand ==
  ASSUME TypeOK, NEW paths, LaidOut(heap, live, lists, paths),
         NEW l \in Lists, NEW id, remove_by_id(l, id)
  PROVE  Yields({With(View(heap, lists, paths), l, Unsubscribe(View(heap, lists, paths)[l], id))},
                FALSE)
  <1> DEFINE s == paths[l]
             V == View(heap, lists, paths)
             found == Named(V[l], id)
             n == First(Found(l, id))
             k == First(found)
  <1>1. /\ s \in Seq(Cells) /\ Len(s) \in Nat /\ IsChain(heap, lists[l].head, s)
        /\ lists[l].head = NULL <=> Len(s) = 0
    BY LaidOutList
  <1>2. /\ Found(l, id) # {}
        /\ Drop(l, n)
        /\ lists' = [lists EXCEPT ![l].head = Unlinked(l, n)]
    BY DEF remove_by_id
  <1>3. Found(l, id) \subseteq 0..(Len(s) - 1) /\ found = {i + 1 : i \in Found(l, id)}
    BY FoundIs
  <1>4. k = n + 1 /\ n \in Found(l, id) /\ found # {}
    <2>1. Found(l, id) \subseteq Nat
      BY <1>1, <1>3
    <2> HIDE DEF found
    <2> QED BY <1>2, <1>3, <2>1, FirstShifted
  <1> HIDE DEF found, k, n
  <1>5. k \in 1..Len(s) /\ k - 1 = n
    BY <1>1, <1>3, <1>4
  <1>6. /\ lists'[l].head = Unlinked(l, n) /\ lists'[l].tail = lists[l].tail
        /\ \A j \in Lists \ {l} : lists'[j] = lists[j]
    BY <1>2 DEF TypeOK
  <1>7. Dropped(s, l, k)
    BY <1>2, <1>5, <1>6, DropMemory
  <1>8. lists'[l].head # NULL => lists'[l].tail # NULL
    <2>1. lists[l].head # NULL
      BY <1>1, <1>5
    <2> QED BY <1>6, <2>1 DEF LaidOut
  <1> DEFINE t == Without(s, k)
  <1>9. /\ Alone(s, l) /\ OwnChain(s, l, t)
        /\ Seen(heap', t) = Without(Seen(heap, s), k)
    BY <1>5, <1>7, <1>8, DroppedOwn
  <1>10. PlaceOf(t, lists[l].tail) =
           IF PlaceOf(s, lists[l].tail) = k THEN 0
           ELSE IF PlaceOf(s, lists[l].tail) > k THEN PlaceOf(s, lists[l].tail) - 1
           ELSE PlaceOf(s, lists[l].tail)
    <2>1. IsChain(heap', lists'[l].head, t)
      BY <1>9 DEF OwnChain
    <2> QED BY <1>1, <1>5, <2>1, PlaceWithout
  <1> DEFINE list == Unsubscribe(V[l], id)
  <1>11. V[l] = [nodes |-> Seen(heap, s), tail |-> PlaceOf(s, lists[l].tail)]
    BY DEF View
  <1> HIDE DEF t, V, s
  <1>12. list = [nodes |-> Seen(heap', t), tail |-> PlaceOf(t, lists'[l].tail)]
    <2>1. list = [nodes |-> Without(V[l].nodes, k),
                  tail  |-> IF V[l].tail = k THEN 0
                            ELSE IF V[l].tail > k THEN V[l].tail - 1 ELSE V[l].tail]
      BY <1>4 DEF Unsubscribe, Named, found, k
    <2> QED BY <1>6, <1>9, <1>10, <1>11, <2>1
  <1> HIDE DEF list
  <1>13. Yields({With(V, l, list)}, FALSE)
    BY <1>9, <1>12, OwnYields DEF V, s
  <1> QED BY <1>13 DEF list, V

\* resubscribe changes one sf, as SetSf says.
LEMMA Resubscribes ==
  ASSUME TypeOK, NEW paths, LaidOut(heap, live, lists, paths),
         NEW l \in Lists, NEW topic, NEW sf \in {0, 1}, resubscribe(l, topic, sf)
  PROVE  /\ Hits(View(heap, lists, paths)[l], topic) # {}
         /\ Yields({With(View(heap, lists, paths), l, SetSf(View(heap, lists, paths)[l], topic, sf))},
                   FALSE)
  <1> DEFINE s == paths[l]
             V == View(heap, lists, paths)
             n == First(Alike(l, topic))
             k == First(Hits(V[l], topic))
  <1>1. /\ s \in Seq(Cells) /\ Len(s) \in Nat /\ IsChain(heap, lists[l].head, s)
        /\ \A i \in 1..Len(s) : s[i] \in Cells /\ s[i] \in live /\ heap[s[i]].data \in Node
    BY LaidOutList
  <1>2. /\ Alike(l, topic) # {}
        /\ heap' = [heap EXCEPT ![At(l, n)].data.sf = sf]
        /\ live' = live /\ lists' = lists
    BY DEF resubscribe
  <1>3. Alike(l, topic) \subseteq 0..(Len(s) - 1) /\ Hits(V[l], topic) = {i + 1 : i \in Alike(l, topic)}
    BY AlikeIs
  <1>4. k = n + 1 /\ n \in Alike(l, topic) /\ Hits(V[l], topic) # {}
    <2>1. Alike(l, topic) \subseteq Nat
      BY <1>1, <1>3
    <2> HIDE DEF V
    <2> QED BY <1>2, <1>3, <2>1, FirstShifted
  <1> HIDE DEF k, n
  <1>5. k \in 1..Len(s) /\ n \in 0..(Len(s) - 1)
    BY <1>1, <1>3, <1>4
  <1>6. At(l, n) = s[k]
    BY <1>4, <1>5, NodeAt
  <1>7. /\ heap \in Memory /\ s[k] \in Cells /\ heap[s[k]].data \in Node
        /\ heap' = [heap EXCEPT ![s[k]].data.sf = sf]
    BY <1>1, <1>2, <1>5, <1>6 DEF TypeOK, Memory
  <1>8. /\ heap'[s[k]].data = [heap[s[k]].data EXCEPT !.sf = sf]
        /\ \A x \in Cells : heap'[x].next = heap[x].next
        /\ \A x \in Cells : x # s[k] => heap'[x] = heap[x]
    <2> HIDE DEF s
    <2> QED BY <1>7 DEF Memory
  <1>9. heap'[s[k]].data \in Node
    BY <1>7, <1>8 DEF Node
  <1>10. \A i \in 1..Len(s) : i # k => s[i] # s[k]
    BY <1>1, <1>5 DEF IsChain
  <1>11. \A i \in 1..Len(s) : heap'[s[i]].data \in Node
    BY <1>1, <1>8, <1>9, <1>10
  <1>12. Alone(s, l)
    <2>1. ASSUME NEW x \in live, \A i \in 1..Len(s) : s[i] # x
          PROVE  heap'[x] = heap[x] /\ x \in live'
      <3>1. x \in Cells /\ x # s[k]
        BY <1>5, <2>1 DEF TypeOK
      <3> QED BY <1>2, <1>8, <3>1
    <2> QED BY <1>2, <2>1 DEF Alone
  <1>13. OwnChain(s, l, s)
    <2>1. \A i \in 1..Len(s) : heap'[s[i]].next = heap[s[i]].next
      BY <1>1, <1>8
    <2>2. IsChain(heap', lists'[l].head, s)
      BY <1>1, <1>2, <2>1, ChainKept
    <2>3. lists'[l].head # NULL => lists'[l].tail # NULL
      BY <1>2 DEF LaidOut
    <2> QED BY <1>1, <1>2, <1>11, <2>2, <2>3 DEF OwnChain
  <1> DEFINE q == Seen(heap, s)
             r == Seen(heap', s)
  <1>14. r = [q EXCEPT ![k].sf = sf]
    <2>1. q \in Seq(Node) /\ Len(q) = Len(s) /\ \A i \in 1..Len(s) : q[i] = heap[s[i]].data
      BY <1>1, SeenIs
    <2>2. r \in Seq(Node) /\ Len(r) = Len(s) /\ \A i \in 1..Len(s) : r[i] = heap'[s[i]].data
      BY <1>1, <1>11, SeenIs
    <2>3. \A i \in 1..Len(s) : i # k => heap'[s[i]] = heap[s[i]]
      BY <1>1, <1>8, <1>10
    <2>4. k \in 1..Len(s)
      BY <1>5
    <2> HIDE DEF s, q, r
    <2>5. \A i \in 1..Len(s) : r[i] = IF i = k THEN [q[i] EXCEPT !.sf = sf] ELSE q[i]
      <3> TAKE i \in 1..Len(s)
      <3>1. r[i] = heap'[s[i]].data /\ q[i] = heap[s[i]].data
        BY <2>1, <2>2
      <3>2. CASE i = k
        BY <1>8, <3>1, <3>2
      <3>3. CASE i # k
        BY <2>3, <3>1, <3>3
      <3> QED BY <3>2, <3>3
    <2> DEFINE e == [q[k] EXCEPT !.sf = sf]
               w == [q EXCEPT ![k] = e]
    <2>6. e \in Node
      BY <2>2, <2>4, <2>5
    <2> HIDE DEF e
    <2>7. w \in Seq(Node) /\ Len(w) = Len(s) /\ \A i \in 1..Len(s) : w[i] = IF i = k THEN e ELSE q[i]
      BY <2>1, <2>4, <2>6
    <2>8. \A i \in 1..Len(s) : r[i] = w[i]
      BY <2>5, <2>7 DEF e
    <2> HIDE DEF w
    <2>9. r = w
      BY <2>2, <2>7, <2>8
    <2> QED BY <2>9 DEF w, e
  <1> DEFINE list == SetSf(V[l], topic, sf)
  <1>15. V[l] = [nodes |-> q, tail |-> PlaceOf(s, lists[l].tail)]
    BY DEF View
  <1> HIDE DEF V, s, q, r
  <1>16. list = [nodes |-> r, tail |-> PlaceOf(s, lists'[l].tail)]
    <2>1. list = [V[l] EXCEPT !.nodes[k].sf = sf]
      BY DEF SetSf, k
    <2> QED BY <1>2, <1>14, <1>15, <2>1
  <1> HIDE DEF list
  <1>17. Yields({With(V, l, list)}, FALSE)
    BY <1>12, <1>13, <1>16, OwnYields DEF V, s, r
  <1> QED BY <1>4, <1>17 DEF list, V

-----------------------------------------------------------------------------
\* Types.

\* What is allocated, on the lists and off them.
Stocked == live \subseteq Cells /\ kept \subseteq Cells \ live

\* TypeOK but for the bound on size, which the count of the nodes gives.
ListType == [head : Pointer, tail : Pointer, size : Int]
Typed ==
  /\ heap \in Memory
  /\ Stocked
  /\ lists \in [Lists -> ListType]

\* The node that a function walks to, or stops before, is a pointer.
LEMMA AtType ==
  ASSUME TypeOK, NEW l \in Lists, NEW n \in Nat
  PROVE  At(l, n) \in Pointer /\ Before(l, n) \in Pointer
  <1>1. heap \in Memory /\ lists[l].head \in Pointer
    BY DEF TypeOK, Memory
  <1>2. Steps(heap, lists[l].head) \in [Nat -> Pointer]
    BY <1>1, StepsAre
  <1>3. \A i \in Nat : At(l, i) \in Pointer
    BY <1>2 DEF At
  <1>4. CASE n = 0
    BY <1>3, <1>4 DEF Before, Pointer
  <1>5. CASE n # 0
    BY <1>3, <1>5 DEF Before
  <1> QED BY <1>3, <1>4, <1>5

\* The lists when one of them is written.
LEMMA ListsType ==
  ASSUME TypeOK, NEW l \in Lists, NEW list \in ListType, lists' = [lists EXCEPT ![l] = list]
  PROVE  lists' \in [Lists -> ListType]
  BY DEF TypeOK, ListType

\* The memory when a node of it is written.
LEMMA MemoryType ==
  ASSUME NEW mem \in Memory, NEW c, NEW node \in [data : Node \cup {NULL}, next : Pointer]
  PROVE  [mem EXCEPT ![c] = node] \in Memory
  BY DEF Memory

\* add_last_improved keeps the types.
LEMMA AddLastTyped ==
  ASSUME TypeOK, NEW l \in Lists, NEW data \in Node, add_last_improved(l, data)
  PROVE  /\ Typed'
         /\ lists'[l].size = lists[l].size + 1
         /\ \A m \in Lists \ {l} : lists'[m] = lists[m]
  <1>1. PICK c \in Cells : New(c) /\ add_last(l, c, data)
    BY DEF add_last_improved
  <1>2. heap' \in Memory
    BY <1>1, AddLastMemory
  <1>3. Stocked'
    BY <1>1 DEF New, TypeOK, Stocked
  <1> DEFINE list == [head |-> IF lists[l].head = NULL THEN c ELSE lists[l].head,
                      tail |-> c,
                      size |-> lists[l].size + 1]
  <1>4. lists[l].head \in Pointer /\ lists[l].size \in Int /\ c \in Pointer
    BY DEF TypeOK, Pointer
  <1>5. list \in ListType
    BY <1>4 DEF ListType
  <1>6. lists' = [lists EXCEPT ![l] = list]
    BY <1>1 DEF add_last
  <1>7. lists'[l].size = lists[l].size + 1 /\ \A m \in Lists \ {l} : lists'[m] = lists[m]
    BY <1>6 DEF TypeOK
  <1> HIDE DEF list
  <1>8. lists' \in [Lists -> ListType]
    BY <1>5, <1>6, ListsType
  <1> QED BY <1>2, <1>3, <1>7, <1>8 DEF Typed

\* add_nth_node_improved keeps the types.
LEMMA InsertTyped ==
  ASSUME TypeOK, NEW l \in Lists, NEW n \in Nat, NEW data \in Node, add_nth_node_improved(l, n, data)
  PROVE  Typed'
  <1>1. PICK c \in Cells : New(c) /\ add_nth_node(l, n, c, data)
    BY DEF add_nth_node_improved
  <1> DEFINE m == IF n > lists[l].size THEN lists[l].size ELSE n
             prev == Before(l, m)
             curr == At(l, m)
  <1>2. /\ heap' = [Linked(prev, c) EXCEPT ![c] = [data |-> data, next |-> curr]]
        /\ lists' = [lists EXCEPT ![l] = [head |-> IF prev = NULL THEN c ELSE lists[l].head,
                                          tail |-> IF curr = NULL THEN c ELSE lists[l].tail,
                                          size |-> lists[l].size + 1]]
    BY <1>1 DEF add_nth_node
  <1>3. m \in Nat
    BY DEF TypeOK
  <1>4. prev \in Pointer /\ curr \in Pointer /\ c \in Pointer
    BY <1>3, AtType DEF Pointer
  <1> HIDE DEF prev, curr, m
  <1>5. heap' \in Memory
    <2>1. [data |-> data, next |-> curr] \in [data : Node \cup {NULL}, next : Pointer]
      BY <1>4
    <2>2. Linked(prev, c) \in Memory
      BY <1>4, LinkedIs
    <2> QED BY <1>2, <2>1, <2>2, MemoryType
  <1>6. Stocked'
    BY <1>1 DEF New, TypeOK, Stocked
  <1> DEFINE list == [head |-> IF prev = NULL THEN c ELSE lists[l].head,
                      tail |-> IF curr = NULL THEN c ELSE lists[l].tail,
                      size |-> lists[l].size + 1]
  <1>7. list \in ListType
    <2>1. lists[l].head \in Pointer /\ lists[l].tail \in Pointer /\ lists[l].size \in Int
      BY DEF TypeOK
    <2> QED BY <1>4, <2>1 DEF ListType
  <1>8. lists' = [lists EXCEPT ![l] = list]
    BY <1>2
  <1> HIDE DEF list
  <1>9. lists' \in [Lists -> ListType]
    BY <1>7, <1>8, ListsType
  <1> QED BY <1>5, <1>6, <1>9 DEF Typed

\* So does freeing nodes, and unlinking one of them.
LEMMA FreeTyped ==
  ASSUME TypeOK, NEW S, Free(S)
  PROVE  heap' \in Memory /\ Stocked'
  <1>1. Freed \in [data : Node \cup {NULL}, next : Pointer]
    BY DEF Freed, Pointer
  <1>2. heap \in Memory
    BY DEF TypeOK, Memory
  <1>3. heap' = [c \in Cells |-> IF c \in S THEN Freed ELSE heap[c]]
    BY DEF Free
  <1>4. Stocked'
    BY DEF TypeOK, Free, Stocked
  <1> QED BY <1>1, <1>2, <1>3, <1>4 DEF Memory

\* Unlinking or freeing a cell keeps the types.
LEMMA DropTyped ==
  ASSUME TypeOK, NEW l \in Lists, NEW n \in Nat, Drop(l, n)
  PROVE  /\ heap' \in Memory /\ Stocked'
         /\ Unlinked(l, n) \in Pointer
  <1>1. Freed \in [data : Node \cup {NULL}, next : Pointer]
    BY DEF Freed, Pointer
  <1>2. At(l, n + 1) \in Pointer /\ Before(l, n) \in Pointer /\ At(l, 1) \in Pointer
    BY AtType
  <1>3. Linked(Before(l, n), At(l, n + 1)) \in Memory
    BY <1>2, LinkedIs
  <1>4. heap' = [Linked(Before(l, n), At(l, n + 1)) EXCEPT ![At(l, n)] = Freed] /\ Stocked'
    BY DEF Drop, TypeOK, Stocked
  <1>5. heap' \in Memory
    BY <1>1, <1>3, <1>4, MemoryType
  <1>6. lists[l].head \in Pointer
    BY DEF TypeOK
  <1> QED BY <1>2, <1>4, <1>5, <1>6 DEF Unlinked

\* The functions that remove nodes keep the types.
LEMMA RemoveFirstTyped ==
  ASSUME TypeOK, NEW l \in Lists, remove_first(l)
  PROVE  Typed'
  <1> DEFINE first == lists[l].head
             next == heap[first].next
             list == [head |-> next, tail |-> IF next = NULL THEN NULL ELSE lists[l].tail,
                      size |-> lists[l].size - 1]
  <1>1. first # NULL /\ lists' = [lists EXCEPT ![l] = list]
    BY DEF remove_first
  <1>2. first \in Cells
    BY <1>1 DEF TypeOK, Pointer
  <1>3. next \in Pointer /\ lists[l].tail \in Pointer /\ lists[l].size \in Int /\ NULL \in Pointer
    BY <1>2 DEF TypeOK, Pointer
  <1> HIDE DEF next
  <1>4. list \in ListType
    BY <1>3 DEF ListType
  <1> HIDE DEF list
  <1>5. lists' \in [Lists -> ListType]
    BY <1>1, <1>4, ListsType
  <1>6. heap' \in Memory /\ Stocked'
    BY <1>2 DEF remove_first, TypeOK, Memory, Stocked
  <1> QED BY <1>5, <1>6 DEF Typed

\* So does every branch of removing an element that is asked for,
LEMMA RemoveNthTyped ==
  ASSUME TypeOK, NEW l \in Lists, NEW n \in Nat, lists[l].size # 0, remove_nth_node(l, n)
  PROVE  Typed'
  <1> DEFINE m == IF n > lists[l].size - 1 THEN lists[l].size - 1 ELSE n
             list == [head |-> Unlinked(l, m),
                      tail |-> IF m > 0 /\ At(l, m + 1) = NULL THEN Before(l, m) ELSE lists[l].tail,
                      size |-> lists[l].size - 1]
  <1>1. Drop(l, m) /\ lists' = [lists EXCEPT ![l] = list]
    BY DEF remove_nth_node
  <1>2. m \in Nat
    <2>1. PICK size \in Nat : size = lists[l].size /\ size # 0
      BY DEF TypeOK
    <2> QED BY <2>1
  <1> HIDE DEF m
  <1>3. heap' \in Memory /\ Stocked' /\ Unlinked(l, m) \in Pointer
    BY <1>1, <1>2, DropTyped
  <1>4. Before(l, m) \in Pointer
    BY <1>2, AtType
  <1>5. list \in ListType
    <2>1. lists[l].tail \in Pointer /\ lists[l].size \in Int
      BY DEF TypeOK
    <2> QED BY <1>3, <1>4, <2>1 DEF ListType
  <1> HIDE DEF list
  <1>6. lists' \in [Lists -> ListType]
    BY <1>1, <1>5, ListsType
  <1> QED BY <1>3, <1>6 DEF Typed

\* freeing a whole list,
LEMMA ClearTyped ==
  ASSUME TypeOK, NEW l \in Lists, free_list_improved(l)
  PROVE  Typed'
  <1>1. heap' \in Memory /\ Stocked'
    BY FreeTyped DEF free_list_improved
  <1>2. init_list \in ListType /\ lists' = [lists EXCEPT ![l] = init_list]
    BY DEF init_list, ListType, Pointer, free_list_improved
  <1>3. lists' \in [Lists -> ListType]
    BY <1>2, ListsType
  <1> QED BY <1>1, <1>3 DEF Typed

\* The edits by hand keep the types, and no size.
LEMMA RemoveByHandTyped ==
  ASSUME TypeOK, NEW l \in Lists, NEW id, remove_by_id(l, id), Found(l, id) \subseteq Nat
  PROVE  Typed' /\ \A m \in Lists : lists'[m].size = lists[m].size
  <1> DEFINE n == First(Found(l, id))
             list == [lists[l] EXCEPT !.head = Unlinked(l, n)]
  <1>1. Drop(l, n) /\ lists' = [lists EXCEPT ![l].head = Unlinked(l, n)] /\ Found(l, id) # {}
    BY DEF remove_by_id
  <1>2. n \in Nat
    BY <1>1, FirstIs
  <1> HIDE DEF n
  <1>3. heap' \in Memory /\ Stocked' /\ Unlinked(l, n) \in Pointer
    BY <1>1, <1>2, DropTyped
  <1>4. lists' = [lists EXCEPT ![l] = list]
    BY <1>1
  <1>5. list \in ListType /\ list.size = lists[l].size
    BY <1>3 DEF TypeOK, ListType
  <1> HIDE DEF list
  <1>6. lists' \in [Lists -> ListType]
    BY <1>4, <1>5, ListsType
  <1>7. \A m \in Lists : lists'[m].size = lists[m].size
    BY <1>4, <1>5 DEF TypeOK
  <1> QED BY <1>3, <1>6, <1>7 DEF Typed

\* and a second subscription to a topic, which only writes its flag.
LEMMA ResubscribeTyped ==
  ASSUME TypeOK, NEW l \in Lists, NEW topic, NEW sf \in {0, 1}, resubscribe(l, topic, sf),
         heap[At(l, First(Alike(l, topic)))].data \in Node,
         At(l, First(Alike(l, topic))) \in Cells
  PROVE  Typed' /\ lists' = lists
  <1> DEFINE c == At(l, First(Alike(l, topic)))
             node == [heap[c] EXCEPT !.data.sf = sf]
  <1>1. heap' = [heap EXCEPT ![c].data.sf = sf] /\ live' = live /\ kept' = kept /\ lists' = lists
    BY DEF resubscribe
  <1>2. heap \in Memory /\ heap[c].data \in Node /\ c \in Cells
    BY DEF TypeOK, Memory
  <1> HIDE DEF c
  <1>3. [heap[c].data EXCEPT !.sf = sf] \in Node
    BY <1>2 DEF Node
  <1>4. node \in [data : Node \cup {NULL}, next : Pointer]
    BY <1>2, <1>3 DEF Memory
  <1>5. heap' = [heap EXCEPT ![c] = node]
    BY <1>1
  <1> HIDE DEF node
  <1>6. heap' \in Memory
    BY <1>2, <1>4, <1>5, MemoryType
  <1>7. Stocked /\ lists \in [Lists -> ListType]
    BY DEF TypeOK, ListType, Stocked
  <1> QED BY <1>1, <1>6, <1>7 DEF Typed, Stocked

-----------------------------------------------------------------------------
\* The invariants, from the paths of the lists.

Paths == [l \in Lists |-> Path(l)]

\* The counts as Counted states them, on the memory and the lists.
CountedIn(mem, alive, gone, ls) ==
  /\ \A l \in Lists :
       /\ ls[l].size = Len(Chain(mem, ls[l].head))
       /\ ls[l].head # NULL =>
            ls[l].tail = Steps(mem, ls[l].head)[Len(Chain(mem, ls[l].head)) - 1]
  /\ \A c \in alive \cup gone :
       {place \in Lists \X (1..Cardinality(Cells)) :
          place[2] <= Len(Chain(mem, ls[place[1]].head)) /\ Chain(mem, ls[place[1]].head)[place[2]] = c} = {}
       <=> c \in gone

\* The memory and the lists hold pointers, and the lists are laid out.
Lying(mem, alive, ls, paths) ==
  /\ mem \in Memory
  /\ ls \in [Lists -> ListType]
  /\ LaidOut(mem, alive, ls, paths)

\* The paths that lists are laid out as are the ones that Chain finds.
LEMMA ChainsAre ==
  ASSUME NEW mem, NEW alive, NEW ls, NEW paths, Lying(mem, alive, ls, paths)
  PROVE  paths = [l \in Lists |-> Chain(mem, ls[l].head)]
  <1>1. ASSUME NEW l \in Lists PROVE Chain(mem, ls[l].head) = paths[l]
    <2>1. mem \in Memory /\ ls[l].head \in Pointer
      BY DEF Lying, ListType
    <2>2. IsChain(mem, ls[l].head, paths[l])
      BY DEF Lying, LaidOut
    <2> QED BY <2>1, <2>2, ChainIs
  <1>2. paths = [l \in Lists |-> paths[l]]
    BY DEF Lying, LaidOut
  <1> QED BY <1>1, <1>2

\* CountedAs and Counted count the same: what is not alive is on no path.
LEMMA CountsAgree ==
  ASSUME NEW mem, NEW alive, NEW gone, NEW ls, NEW paths, Lying(mem, alive, ls, paths),
         gone \cap alive = {}
  PROVE  CountedAs(alive, ls, paths) <=> CountedIn(mem, alive, gone, ls)
  <1> DEFINE last(l) == Steps(mem, ls[l].head)[Len(Chain(mem, ls[l].head)) - 1]
             places(c) ==
               {place \in Lists \X (1..Cardinality(Cells)) :
                  /\ place[2] <= Len(Chain(mem, ls[place[1]].head))
                  /\ Chain(mem, ls[place[1]].head)[place[2]] = c}
  <1>1. ASSUME NEW l \in Lists
        PROVE  /\ Chain(mem, ls[l].head) = paths[l]
               /\ Len(paths[l]) \in Nat
               /\ Len(paths[l]) <= Cardinality(Cells)
               /\ Cardinality(Cells) \in Nat
    <2>1. Chain(mem, ls[l].head) = paths[l]
      BY ChainsAre
    <2>2. IsChain(mem, ls[l].head, paths[l])
      BY DEF Lying, LaidOut
    <2>3. Len(paths[l]) <= Cardinality(Cells) /\ Cardinality(Cells) \in Nat
      BY <2>2, ChainLength
    <2>4. Len(paths[l]) \in Nat
      BY <2>2 DEF IsChain
    <2> QED BY <2>1, <2>3, <2>4
  <1>2. ASSUME NEW l \in Lists, ls[l].head # NULL PROVE last(l) = paths[l][Len(paths[l])]
    <2> DEFINE s == paths[l]
    <2>1. mem \in Memory /\ ls[l].head \in Pointer
      BY DEF Lying, ListType
    <2>2. IsChain(mem, ls[l].head, s)
      BY DEF Lying, LaidOut
    <2>3. last(l) = Steps(mem, ls[l].head)[Len(s) - 1]
      BY <1>1
    <2> HIDE DEF s, last
    <2>4. s \in Seq(Cells) /\ ls[l].head = Succ(s, 0)
      BY <2>2 DEF IsChain
    <2>5. Len(s) # 0
      BY <1>2, <2>4, SuccType
    <2>6. Len(s) - 1 \in Nat /\ Len(s) - 1 < Len(s) /\ (Len(s) - 1) + 1 = Len(s)
      BY <2>4, <2>5
    <2>7. last(l) = Succ(s, Len(s) - 1)
      BY <2>1, <2>2, <2>3, <2>6, StepsOfChain
    <2>8. last(l) = s[Len(s)]
      BY <2>4, <2>6, <2>7, SuccType
    <2> QED BY <2>8 DEF s, last
  <1> HIDE DEF last
  <1>3. ASSUME NEW c
        PROVE  places(c) # {} <=> \E l \in Lists : \E k \in 1..Len(paths[l]) : paths[l][k] = c
    <2>1. ASSUME NEW l \in Lists, NEW k \in 1..Len(paths[l]), paths[l][k] = c PROVE places(c) # {}
      <3>1. k \in 1..Cardinality(Cells) /\ k <= Len(paths[l])
        BY <1>1
      <3>2. <<l, k>> \in places(c)
        BY <1>1, <2>1, <3>1
      <3> QED BY <3>2
    <2>2. ASSUME NEW place \in places(c)
          PROVE  \E l \in Lists : \E k \in 1..Len(paths[l]) : paths[l][k] = c
      <3>1. PICK l \in Lists, k \in 1..Cardinality(Cells) : place = <<l, k>>
        BY <2>2
      <3>2. place[1] = l /\ place[2] = k
        BY <3>1
      <3>3. k <= Len(paths[l]) /\ paths[l][k] = c
        BY <1>1, <2>2, <3>2
      <3>4. k \in 1..Len(paths[l])
        BY <1>1, <3>3
      <3> QED BY <3>3, <3>4
    <2> QED BY <2>1, <2>2
  <1> HIDE DEF places
  <1>4. CountedIn(mem, alive, gone, ls) <=>
          /\ \A l \in Lists : /\ ls[l].size = Len(Chain(mem, ls[l].head))
                              /\ ls[l].head # NULL => ls[l].tail = last(l)
          /\ \A c \in alive \cup gone : places(c) = {} <=> c \in gone
    BY DEF CountedIn, last, places
  <1>5. \A l \in Lists : Len(Chain(mem, ls[l].head)) = Len(paths[l])
    BY <1>1
  <1>6. CountedAs(alive, ls, paths) <=>
          /\ \A l \in Lists : /\ ls[l].size = Len(Chain(mem, ls[l].head))
                              /\ ls[l].head # NULL => ls[l].tail = last(l)
          /\ \A c \in alive : places(c) # {}
    BY <1>2, <1>3, <1>5 DEF CountedAs
  <1>7. ASSUME NEW c \in gone PROVE places(c) = {}
    <2>1. \A l \in Lists : \A k \in 1..Len(paths[l]) : paths[l][k] # c
      BY <1>7 DEF Lying, LaidOut
    <2> QED BY <1>3, <2>1
  <1>8. (\A c \in alive \cup gone : places(c) = {} <=> c \in gone) <=> \A c \in alive : places(c) # {}
    BY <1>7
  <1> QED BY <1>4, <1>6, <1>8

\* The state of the lists as this module speaks of it.
LEMMA StateIs ==
  TypeOK /\ Chained =>
    /\ Lying(heap, live, lists, Paths)
    /\ LaidOut(heap, live, lists, Paths)
    /\ Counted <=> edited \/ CountedAs(live, lists, Paths)
  <1> SUFFICES ASSUME TypeOK, Chained
               PROVE  /\ Lying(heap, live, lists, Paths)
                      /\ LaidOut(heap, live, lists, Paths)
                      /\ Counted <=> edited \/ CountedAs(live, lists, Paths)
    OBVIOUS
  <1>1. LaidOut(heap, live, lists, Paths)
    BY DEF Chained, Paths
  <1>2. Lying(heap, live, lists, Paths)
    BY <1>1 DEF Lying, TypeOK, Memory, ListType
  <1>3. CountedAs(live, lists, Paths) <=> CountedIn(heap, live, kept, lists)
    BY <1>2, CountsAgree DEF TypeOK
  <1>4. Counted <=> edited \/ CountedIn(heap, live, kept, lists)
    BY DEF Counted, CountedIn, Places, Path, Length, At, TypeOK
  <1> QED BY <1>1, <1>2, <1>3, <1>4

\* What a call yields, once the types are kept: the lists are Chained, and are
\* seen as one of these views, and Counted.
LEMMA Landed ==
  ASSUME Typed', edited' = edited, edited \in BOOLEAN,
         NEW views, NEW counted \in BOOLEAN, Yields(views, counted), counted \/ edited
  PROVE  /\ Chained' /\ Counted'
         /\ View(heap', lists', Paths') \in views
         /\ counted => \A l \in Lists : lists'[l].size \in 0..MaxSize
  <1>1. PICK paths2 : /\ LaidOut(heap', live', lists', paths2)
                      /\ View(heap', lists', paths2) \in views
                      /\ counted => CountedAs(live', lists', paths2)
    BY DEF Yields
  <1>2. Lying(heap', live', lists', paths2)
    BY <1>1 DEF Lying, Typed
  <1>3. paths2 = Paths'
    BY <1>2, ChainsAre DEF Paths, Path
  <1>4. Chained'
    BY <1>1, <1>3 DEF Chained, Paths
  <1>5. counted => CountedIn(heap', live', kept', lists')
    BY <1>1, <1>2, CountsAgree DEF Typed, Stocked
  <1>6. Counted'
    BY <1>5 DEF Counted, CountedIn, Places, Path, Length, At
  <1>7. ASSUME counted, NEW l \in Lists PROVE lists'[l].size \in 0..MaxSize
    <2> DEFINE s == paths2[l]
    <2>1. IsChain(heap', lists'[l].head, s)
      BY <1>1 DEF LaidOut
    <2>2. Len(s) <= Cardinality(Cells) /\ Len(s) \in Nat /\ Cardinality(Cells) \in Nat
      <3> HIDE DEF s
      <3>1. Len(s) <= Cardinality(Cells) /\ Cardinality(Cells) \in Nat
        BY <2>1, ChainLength
      <3>2. Len(s) \in Nat
        BY <2>1 DEF IsChain
      <3> QED BY <3>1, <3>2
    <2>3. lists'[l].size = Len(paths2[l])
      BY <1>1, <1>7 DEF CountedAs
    <2> QED BY <2>2, <2>3, LinkedListAssumption
  <1> QED BY <1>1, <1>3, <1>4, <1>6, <1>7

\* The bound on size completes the types.
LEMMA TypedSized ==
  ASSUME Typed', edited' \in BOOLEAN, \A l \in Lists : lists'[l].size \in 0..MaxSize
  PROVE  TypeOK'
  <1>1. ASSUME NEW l \in Lists
        PROVE  lists'[l] \in [head : Pointer, tail : Pointer, size : 0..MaxSize]
    BY DEF Typed, ListType
  <1>2. lists' \in [Lists -> [head : Pointer, tail : Pointer, size : 0..MaxSize]]
    BY <1>1 DEF Typed
  <1> QED BY <1>2 DEF Typed, Stocked, TypeOK, Memory

\* The invariant that every call preserves.
Invariant == TypeOK /\ Chained /\ Counted

\* At the start the lists are empty, and no cell is live.
LEMMA InitInvariant == Init => Invariant
  <1> SUFFICES ASSUME Init PROVE Invariant
    OBVIOUS
  <1> DEFINE paths == [l \in Lists |-> << >>]
  <1>1. /\ heap = [c \in Cells |-> Freed] /\ live = {} /\ kept = {}
        /\ lists = [l \in Lists |-> init_list] /\ edited \in BOOLEAN
    BY LinkedListAssumption DEF Init
  <1>2. TypeOK
    <2>1. Freed \in [data : Node \cup {NULL}, next : Pointer]
      BY DEF Freed, Pointer
    <2>2. init_list \in [head : Pointer, tail : Pointer, size : 0..MaxSize]
      BY LinkedListAssumption DEF init_list, Pointer
    <2> QED BY <1>1, <2>1, <2>2 DEF TypeOK
  <1>3. \A l \in Lists : lists[l].head = NULL /\ lists[l].size = 0
    BY <1>1 DEF init_list
  <1>4. LaidOut(heap, live, lists, paths)
    <2>1. << >> \in Seq(Cells) /\ Len(<< >>) = 0
      OBVIOUS
    <2>2. ASSUME NEW l \in Lists PROVE IsChain(heap, lists[l].head, << >>)
      BY <1>3, <2>1 DEF IsChain, Succ
    <2>3. paths \in [Lists -> Seq(Cells)] /\ \A l \in Lists : paths[l] = << >>
      BY <2>1
    <2> HIDE DEF paths
    <2> QED BY <1>3, <2>1, <2>2, <2>3 DEF LaidOut
  <1>5. Lying(heap, live, lists, paths)
    BY <1>2, <1>4 DEF Lying, TypeOK, Memory, ListType
  <1>6. paths = Paths
    <2> HIDE DEF paths
    <2> QED BY <1>5, ChainsAre DEF Paths, Path
  <1>7. Chained
    BY <1>4, <1>6 DEF Chained, Paths
  <1>8. CountedAs(live, lists, paths)
    BY <1>1, <1>3 DEF CountedAs
  <1>9. Counted
    BY <1>2, <1>6, <1>7, <1>8, StateIs
  <1> QED BY <1>2, <1>7, <1>9 DEF Invariant

-----------------------------------------------------------------------------
\* Every call follows the specification of the lists.

\* What ListSpec is told of the lists is what is seen along their paths.
Views == View(heap, lists, Paths)

\* What ListSpec sees of the lists is what their chains hold, in this state and in the next.
LEMMA ViewsAre ==
  /\ [l \in Lists |-> AsSequence(l)] = Views
  /\ [l \in Lists |-> AsSequence(l)]' = View(heap', lists', Paths')
  <1>1. [l \in Lists |-> AsSequence(l)] = Views
    BY DEF AsSequence, Positions, Length, Views, View, Seen, PlaceOf, Paths
  <1>2. [l \in Lists |-> AsSequence(l)]' = View(heap', lists', Paths')
    BY DEF AsSequence, Positions, Length, View, Seen, PlaceOf, Paths
  <1> QED BY <1>1, <1>2

\* InsertAt and RemoveAt, element by element.
LEMMA InsertAtIs ==
  ASSUME NEW S, NEW q \in Seq(S), NEW m \in 0..Len(q), NEW e \in S
  PROVE  AsSpecified!S!InsertAt(q, m + 1, e) = Inserted(q, m, e)
  <1> DEFINE t == Inserted(q, m, e)
             u == SubSeq(q, 1, m)
             v == SubSeq(q, m + 1, Len(q))
             w == u \o <<e>> \o v
  <1>1. /\ t \in Seq(S) /\ Len(t) = Len(q) + 1
        /\ \A i \in 1..(Len(q) + 1) : t[i] = IF i <= m THEN q[i] ELSE IF i = m + 1 THEN e ELSE q[i - 1]
    <2> HIDE DEF t
    <2> QED BY InsertedType DEF t
  <1>2. Len(q) \in Nat /\ m \in Nat
    OBVIOUS
  <1>3. u \in Seq(S) /\ Len(u) = m /\ \A i \in 1..m : u[i] = q[i]
    OBVIOUS
  <1>4. v \in Seq(S) /\ Len(v) = Len(q) - m /\ \A i \in 1..(Len(q) - m) : v[i] = q[m + i]
    OBVIOUS
  <1> HIDE DEF u, v, t
  <1> DEFINE x == u \o <<e>>
  <1>5. x \in Seq(S) /\ Len(x) = m + 1 /\ (\A i \in 1..m : x[i] = q[i]) /\ x[m + 1] = e
    BY <1>2, <1>3
  <1> HIDE DEF x
  <1> DEFINE y == x \o v
  <1>6. /\ y \in Seq(S) /\ Len(y) = Len(q) + 1
        /\ \A i \in 1..(Len(q) + 1) : y[i] = IF i <= m + 1 THEN x[i] ELSE v[i - (m + 1)]
    BY <1>2, <1>4, <1>5
  <1> HIDE DEF y
  <1>7. ASSUME NEW i \in 1..(Len(q) + 1) PROVE y[i] = t[i]
    <2>1. CASE i <= m
      BY <1>1, <1>2, <1>5, <1>6, <2>1
    <2>2. CASE i = m + 1
      BY <1>1, <1>2, <1>5, <1>6, <2>2
    <2>3. CASE i > m + 1
      <3>1. i - (m + 1) \in 1..(Len(q) - m) /\ m + (i - (m + 1)) = i - 1
        BY <1>2, <2>3
      <3>2. v[i - (m + 1)] = q[i - 1]
        BY <1>4, <3>1
      <3> QED BY <1>1, <1>2, <1>6, <2>3, <3>2
    <2> QED BY <1>2, <2>1, <2>2, <2>3
  <1>8. y = t
    BY <1>1, <1>6, <1>7
  <1>9. AsSpecified!S!InsertAt(q, m + 1, e) = y
    <2>1. (m + 1) - 1 = m
      BY <1>2
    <2>2. AsSpecified!S!InsertAt(q, m + 1, e) = SubSeq(q, 1, (m + 1) - 1) \o <<e>> \o SubSeq(q, m + 1, Len(q))
      BY DEF AsSpecified!S!InsertAt
    <2> QED BY <2>1, <2>2 DEF x, y, u, v
  <1> QED BY <1>8, <1>9 DEF t

\* RemoveAt, element by element.
LEMMA RemoveAtIs ==
  ASSUME NEW S, NEW q \in Seq(S), NEW k \in 1..Len(q)
  PROVE  AsSpecified!S!RemoveAt(q, k) = Without(q, k)
  <1> DEFINE t == Without(q, k)
             u == SubSeq(q, 1, k - 1)
             v == SubSeq(q, k + 1, Len(q))
  <1>1. /\ t \in Seq(S) /\ Len(t) = Len(q) - 1
        /\ \A i \in 1..(Len(q) - 1) : t[i] = IF i < k THEN q[i] ELSE q[i + 1]
    BY WithoutType
  <1>2. Len(q) \in Nat /\ k \in Nat
    OBVIOUS
  <1>3. u \in Seq(S) /\ Len(u) = k - 1 /\ \A i \in 1..(k - 1) : u[i] = q[i]
    OBVIOUS
  <1>4. v \in Seq(S) /\ Len(v) = Len(q) - k /\ \A i \in 1..(Len(q) - k) : v[i] = q[k + i]
    OBVIOUS
  <1> HIDE DEF u, v, t
  <1> DEFINE y == u \o v
  <1>5. /\ y \in Seq(S) /\ Len(y) = Len(q) - 1
        /\ \A i \in 1..(Len(q) - 1) : y[i] = IF i <= k - 1 THEN u[i] ELSE v[i - (k - 1)]
    BY <1>2, <1>3, <1>4
  <1> HIDE DEF y
  <1>6. ASSUME NEW i \in 1..(Len(q) - 1) PROVE y[i] = t[i]
    <2>1. CASE i < k
      BY <1>1, <1>2, <1>3, <1>5, <2>1
    <2>2. CASE ~(i < k)
      <3>1. i - (k - 1) \in 1..(Len(q) - k) /\ k + (i - (k - 1)) = i + 1
        BY <1>2, <2>2
      <3>2. v[i - (k - 1)] = q[i + 1]
        BY <1>4, <3>1
      <3> QED BY <1>1, <1>2, <1>5, <2>2, <3>2
    <2> QED BY <2>1, <2>2
  <1>7. y = t
    BY <1>1, <1>5, <1>6
  <1>8. AsSpecified!S!RemoveAt(q, k) = y
    BY DEF AsSpecified!S!RemoveAt, y, u, v
  <1> QED BY <1>7, <1>8 DEF t

\* What a call makes of the state: types, invariants, and what is seen.
Lands(views) ==
  /\ Typed' /\ Chained' /\ Counted'
  /\ [l \in Lists |-> AsSequence(l)]' \in views
  /\ ~edited => TypeOK'

\* What a chain becomes, read as what its values become.
LEMMA YieldsLands ==
  ASSUME Invariant, edited' = edited, Typed', NEW views, NEW counted \in BOOLEAN,
         Yields(views, counted), counted \/ edited
  PROVE  Lands(views)
  <1>1. edited \in BOOLEAN
    BY DEF Invariant, TypeOK
  <1>2. /\ Chained' /\ Counted'
        /\ View(heap', lists', Paths') \in views
        /\ counted => \A l \in Lists : lists'[l].size \in 0..MaxSize
    BY <1>1, Landed
  <1>3. ~edited => TypeOK'
    BY <1>1, <1>2, TypedSized
  <1> QED BY <1>2, <1>3, ViewsAre DEF Lands

\* What the steps below know of the lists, as this module speaks of them.
LEMMA InvariantIs ==
  Invariant =>
    /\ TypeOK /\ LaidOut(heap, live, lists, Paths)
    /\ edited \/ CountedAs(live, lists, Paths)
    /\ \A l \in Lists : /\ Len(Paths[l]) \in Nat
                        /\ Views[l].nodes \in Seq(Node)
                        /\ Len(Views[l].nodes) = Len(Paths[l])
    /\ DOMAIN Views = Lists
  <1> SUFFICES ASSUME Invariant
               PROVE  /\ TypeOK /\ LaidOut(heap, live, lists, Paths)
                      /\ edited \/ CountedAs(live, lists, Paths)
                      /\ \A l \in Lists : /\ Len(Paths[l]) \in Nat
                                          /\ Views[l].nodes \in Seq(Node)
                                          /\ Len(Views[l].nodes) = Len(Paths[l])
                      /\ DOMAIN Views = Lists
    OBVIOUS
  <1>1. TypeOK /\ LaidOut(heap, live, lists, Paths) /\ (edited \/ CountedAs(live, lists, Paths))
    BY StateIs DEF Invariant
  <1>2. ASSUME NEW l \in Lists
        PROVE  /\ Len(Paths[l]) \in Nat
               /\ Views[l].nodes \in Seq(Node)
               /\ Len(Views[l].nodes) = Len(Paths[l])
    <2>1. Sized(Views, l, Len(Paths[l]))
      BY <1>1, ViewNodes DEF Views
    <2>2. Len(Paths[l]) \in Nat
      BY <1>1, LaidOutList
    <2> QED BY <2>1, <2>2 DEF Sized
  <1>3. DOMAIN Views = Lists
    BY DEF Views, View
  <1> QED BY <1>1, <1>2, <1>3

\* add_last_improved.
LEMMA AppendStep ==
  ASSUME Invariant, edited' = edited, NEW l \in Lists, NEW data \in Node, add_last_improved(l, data)
  PROVE  Lands(Appended(Views, l, data)) /\ AsSpecified!AppendNode(l, data)
  <1>1. TypeOK /\ LaidOut(heap, live, lists, Paths) /\ (edited \/ CountedAs(live, lists, Paths))
    BY InvariantIs
  <1>2. Yields(Appended(Views, l, data), CountedAs(live, lists, Paths))
    BY <1>1, Appends DEF Views
  <1>3. Typed'
    BY <1>1, AddLastTyped
  <1>4. CountedAs(live, lists, Paths) \in BOOLEAN
    BY DEF CountedAs
  <1>5. Lands(Appended(Views, l, data))
    BY <1>1, <1>2, <1>3, <1>4, YieldsLands
  <1>6. [m \in Lists |-> AsSequence(m)]' \in Appended([m \in Lists |-> AsSequence(m)], l, data)
    BY <1>5, ViewsAre DEF Lands
  <1>7. AsSpecified!AppendNode(l, data)
    BY <1>6 DEF AsSpecified!AppendNode, AsSpecified!Appended, Appended,
                AsSpecified!AddLast, AddLast, AsSpecified!Grafts, Grafts,
                AsSpecified!Dangling, Dangling
  <1> QED BY <1>5, <1>7

\* One list becomes a list with these nodes.
LEMMA BecomesIs ==
  ASSUME NEW l \in Lists, NEW nodes, Lands({With(Views, l, ListOf(nodes))})
  PROVE  AsSpecified!Becomes(l, nodes)
  BY ViewsAre DEF Lands, With, ListOf, AsSpecified!Becomes

\* add_nth_node_improved.
LEMMA InsertStep ==
  ASSUME Invariant, edited' = edited, ~edited, NEW l \in Lists, NEW n \in Nat, NEW data \in Node,
         add_nth_node_improved(l, n, data)
  PROVE  TypeOK' /\ Chained' /\ Counted' /\ AsSpecified!InsertNth(l, n, data)
  <1> DEFINE m == Clipped(n, Len(Paths[l]))
             nodes == Inserted(Views[l].nodes, m, data)
  <1>1. TypeOK /\ LaidOut(heap, live, lists, Paths) /\ CountedAs(live, lists, Paths)
    BY InvariantIs
  <1>2. Views[l].nodes \in Seq(Node) /\ Len(Views[l].nodes) = Len(Paths[l]) /\ Len(Paths[l]) \in Nat
    BY InvariantIs
  <1>3. Yields({With(Views, l, ListOf(nodes))}, TRUE)
    BY <1>1, Inserts DEF Views
  <1> HIDE DEF nodes
  <1>4. Typed'
    BY <1>1, InsertTyped
  <1>5. Lands({With(Views, l, ListOf(nodes))})
    BY <1>3, <1>4, YieldsLands
  <1>6. AsSpecified!Becomes(l, nodes)
    BY <1>5, BecomesIs
  <1>7. m \in 0..Len(Views[l].nodes)
    BY <1>2 DEF Clipped
  <1>8. AsSpecified!S!InsertAt(Views[l].nodes, m + 1, data) = nodes
    <2> DEFINE q == Views[l].nodes
    <2> HIDE DEF q, m
    <2> QED BY <1>2, <1>7, InsertAtIs DEF q, nodes
  <1>9. AsSpecified!Size(l) = Len(Paths[l])
    BY <1>2, ViewsAre DEF AsSpecified!Size
  <1>10. AsSpecified!InsertNth(l, n, data)
    <2>1. AsSpecified!InsertNth(l, n, data) =
            AsSpecified!Becomes(l, AsSpecified!S!InsertAt(Views[l].nodes, m + 1, data))
      BY <1>9, ViewsAre DEF AsSpecified!InsertNth, Clipped
    <2> QED BY <1>6, <1>8, <2>1
  <1> QED BY <1>5, <1>10 DEF Lands

\* The functions that remove nodes.
LEMMA RemoveStep ==
  ASSUME Invariant, edited' = edited, ~edited, NEW l \in Lists, NEW n \in Nat,
         \/ remove_nth_node(l, n)
         \/ n = 0 /\ remove_first(l)
  PROVE  TypeOK' /\ Chained' /\ Counted' /\ AsSpecified!RemoveNth(l, n)
  <1> DEFINE k == Clipped(n, Len(Paths[l]) - 1) + 1
             nodes == Without(Views[l].nodes, k)
  <1>1. TypeOK /\ LaidOut(heap, live, lists, Paths) /\ CountedAs(live, lists, Paths)
    BY InvariantIs
  <1>2. Views[l].nodes \in Seq(Node) /\ Len(Views[l].nodes) = Len(Paths[l]) /\ Len(Paths[l]) \in Nat
    BY InvariantIs
  <1>3. Len(Paths[l]) # 0 /\ Typed' /\ Yields({With(Views, l, ListOf(nodes))}, TRUE)
    <2>1. CASE remove_nth_node(l, n)
      <3>1. Len(Paths[l]) # 0 /\ Yields({With(Views, l, ListOf(nodes))}, TRUE)
        BY <1>1, <2>1, RemovesNth DEF Views
      <3>2. lists[l].size # 0
        BY <1>1, <3>1 DEF CountedAs
      <3> QED BY <1>1, <2>1, <3>1, <3>2, RemoveNthTyped
    <2>2. CASE n = 0 /\ remove_first(l)
      <3>1. Len(Paths[l]) # 0 /\ Yields({With(Views, l, ListOf(Without(Views[l].nodes, 1)))}, TRUE)
        BY <1>1, <2>2, RemovesFirst DEF Views
      <3>2. k = 1
        BY <1>2, <2>2, <3>1 DEF Clipped
      <3> QED BY <1>1, <2>2, <3>1, <3>2, RemoveFirstTyped
    <2> QED BY <2>1, <2>2
  <1> HIDE DEF nodes
  <1>4. Lands({With(Views, l, ListOf(nodes))})
    BY <1>3, YieldsLands
  <1>5. AsSpecified!Becomes(l, nodes)
    BY <1>4, BecomesIs
  <1>6. k \in 1..Len(Views[l].nodes)
    BY <1>2, <1>3 DEF Clipped
  <1>7. AsSpecified!S!RemoveAt(Views[l].nodes, k) = nodes
    <2> DEFINE q == Views[l].nodes
    <2> HIDE DEF q, k
    <2> QED BY <1>2, <1>6, RemoveAtIs DEF q, nodes
  <1>8. AsSpecified!Size(l) = Len(Paths[l])
    BY <1>2, ViewsAre DEF AsSpecified!Size
  <1>9. k = (IF n >= Len(Paths[l]) THEN Len(Paths[l]) - 1 ELSE n) + 1
    BY <1>2 DEF Clipped
  <1>10. AsSpecified!RemoveNth(l, n)
    <2> HIDE DEF k
    <2>1. AsSpecified!RemoveNth(l, n) =
            AsSpecified!Becomes(l, AsSpecified!S!RemoveAt(Views[l].nodes, k))
      BY <1>8, <1>9, ViewsAre DEF AsSpecified!RemoveNth
    <2> QED BY <1>5, <1>7, <2>1
  <1> QED BY <1>4, <1>10 DEF Lands

\* free_list_improved.
LEMMA ClearStep ==
  ASSUME Invariant, edited' = edited, ~edited, NEW l \in Lists, free_list_improved(l)
  PROVE  TypeOK' /\ Chained' /\ Counted' /\ AsSpecified!Clear(l)
  <1>1. TypeOK /\ LaidOut(heap, live, lists, Paths) /\ CountedAs(live, lists, Paths)
    BY InvariantIs
  <1>2. Yields({With(Views, l, ListOf(<< >>))}, TRUE)
    BY <1>1, Clears DEF Views
  <1>3. Typed'
    BY <1>1, ClearTyped
  <1>4. Lands({With(Views, l, ListOf(<< >>))})
    BY <1>2, <1>3, YieldsLands
  <1>5. AsSpecified!Clear(l)
    BY <1>4, BecomesIs DEF AsSpecified!Clear
  <1> QED BY <1>4, <1>5 DEF Lands

\* ListSpec has the operators of TopicList.
LEMMA OperatorsAgree ==
  ASSUME NEW list, NEW topic, NEW sf
  PROVE  /\ AsSpecified!Unsubscribe(list, topic) = Unsubscribe(list, topic)
         /\ AsSpecified!Hits(list, topic) = Hits(list, topic)
         /\ AsSpecified!SetSf(list, topic, sf) = SetSf(list, topic, sf)
  <1>1. ASSUME NEW S PROVE AsSpecified!First(S) = First(S)
    BY DEF AsSpecified!First, First
  <1>2. ASSUME NEW nodes, NEW k PROVE AsSpecified!Without(nodes, k) = Without(nodes, k)
    BY DEF AsSpecified!Without, Without
  <1>3. AsSpecified!Hits(list, topic) = Hits(list, topic)
    BY DEF AsSpecified!Hits, Hits, AsSpecified!Matches, Matches
  <1>4. AsSpecified!SetSf(list, topic, sf) = SetSf(list, topic, sf)
    BY <1>1, <1>3 DEF AsSpecified!SetSf, SetSf
  <1> DEFINE found == {i \in 1..Len(list.nodes) : MatchesExactly(list.nodes[i].topic, topic)}
             k == First(found)
             rest == [nodes |-> Without(list.nodes, k),
                      tail  |-> IF list.tail = k THEN 0
                                ELSE IF list.tail > k THEN list.tail - 1 ELSE list.tail]
  <1>5. Unsubscribe(list, topic) = IF found = {} THEN list ELSE rest
    BY DEF Unsubscribe
  <1>6. {i \in 1..Len(list.nodes) : AsSpecified!MatchesExactly(list.nodes[i].topic, topic)} = found
    BY DEF AsSpecified!MatchesExactly, MatchesExactly
  <1> HIDE DEF found
  <1>7. AsSpecified!Unsubscribe(list, topic) = IF found = {} THEN list ELSE rest
    BY <1>1, <1>2, <1>6 DEF AsSpecified!Unsubscribe
  <1> QED BY <1>3, <1>4, <1>5, <1>7

\* unsubscribe.
LEMMA UnsubscribeStep ==
  ASSUME Invariant, edited' = edited, NEW l \in Lists, NEW topic \in Topics, unsubscribe(l, topic)
  PROVE  TypeOK' /\ Chained' /\ Counted' /\ AsSpecified!Remove(l, topic)
  <1>1. TypeOK /\ LaidOut(heap, live, lists, Paths)
    BY InvariantIs
  <1>2. edited /\ remove_by_id(l, topic)
    BY DEF unsubscribe
  <1>3. Yields({With(Views, l, Unsubscribe(Views[l], topic))}, FALSE)
    BY <1>1, <1>2, RemovesByHand DEF Views
  <1>4. Typed' /\ \A m \in Lists : lists'[m].size = lists[m].size
    <2>1. Found(l, topic) \subseteq 0..(Len(Paths[l]) - 1)
      BY <1>1, FoundIs
    <2>2. Found(l, topic) \subseteq Nat
      BY <2>1, InvariantIs
    <2> QED BY <1>1, <1>2, <2>2, RemoveByHandTyped
  <1>5. Lands({With(Views, l, Unsubscribe(Views[l], topic))})
    BY <1>2, <1>3, <1>4, YieldsLands
  <1>6. TypeOK'
    <2>1. \A m \in Lists : lists'[m].size \in 0..MaxSize
      BY <1>1, <1>4 DEF TypeOK
    <2> QED BY <1>1, <1>4, <2>1, TypedSized DEF TypeOK
  <1>7. AsSpecified!Remove(l, topic)
    <2>1. AsSpecified!Unsubscribe(Views[l], topic) = Unsubscribe(Views[l], topic)
      BY OperatorsAgree
    <2> QED BY <1>5, <2>1, ViewsAre DEF Lands, With, AsSpecified!Remove
  <1> QED BY <1>5, <1>6, <1>7 DEF Lands

\* subscribe, when a node matches.
LEMMA ResubscribeStep ==
  ASSUME Invariant, edited' = edited, NEW l \in Lists, NEW topic \in Topics, NEW sf \in {0, 1},
         resubscribe(l, topic, sf)
  PROVE  TypeOK' /\ Chained' /\ Counted' /\ AsSpecified!Rate(l, topic, sf)
  <1>1. TypeOK /\ LaidOut(heap, live, lists, Paths)
    BY InvariantIs
  <1>2. edited /\ Alike(l, topic) # {}
    BY DEF resubscribe
  <1>3. /\ Hits(Views[l], topic) # {}
        /\ Yields({With(Views, l, SetSf(Views[l], topic, sf))}, FALSE)
    BY <1>1, Resubscribes DEF Views
  <1>4. Typed' /\ lists' = lists
    <2> DEFINE n == First(Alike(l, topic))
    <2>1. Alike(l, topic) \subseteq 0..(Len(Paths[l]) - 1) /\ Len(Paths[l]) \in Nat
      BY <1>1, AlikeIs, InvariantIs
    <2>2. n \in Alike(l, topic)
      BY <1>2, <2>1, FirstIs
    <2> HIDE DEF n
    <2>3. n \in 0..(Len(Paths[l]) - 1) /\ n + 1 \in 1..Len(Paths[l])
      BY <2>1, <2>2
    <2>4. At(l, n) = Paths[l][n + 1]
      BY <1>1, <2>3, NodeAt
    <2>5. Paths[l][n + 1] \in Cells /\ heap[Paths[l][n + 1]].data \in Node
      BY <1>1, <2>3, LaidOutList
    <2> QED BY <1>1, <2>4, <2>5, ResubscribeTyped DEF n
  <1>5. Lands({With(Views, l, SetSf(Views[l], topic, sf))})
    BY <1>2, <1>3, <1>4, YieldsLands
  <1>6. TypeOK'
    <2>1. \A m \in Lists : lists'[m].size \in 0..MaxSize
      BY <1>1, <1>4 DEF TypeOK
    <2> QED BY <1>1, <1>4, <2>1, TypedSized DEF TypeOK
  <1>7. AsSpecified!Rate(l, topic, sf)
    <2>1. /\ AsSpecified!Hits(Views[l], topic) = Hits(Views[l], topic)
          /\ AsSpecified!SetSf(Views[l], topic, sf) = SetSf(Views[l], topic, sf)
      BY OperatorsAgree
    <2> QED BY <1>3, <1>5, <2>1, ViewsAre DEF Lands, With, AsSpecified!Rate, AsSpecified!Subscribed
  <1> QED BY <1>5, <1>6, <1>7 DEF Lands

\* subscribe, when no node matches.
LEMMA SubscribeStep ==
  ASSUME Invariant, edited' = edited, NEW l \in Lists, lists[l].size < MaxSize,
         NEW topic \in Topics, NEW sf \in {0, 1}, subscribe(l, topic, sf)
  PROVE  TypeOK' /\ Chained' /\ Counted'
  <1> DEFINE data == [topic |-> topic, sf |-> sf]
  <1>1. add_last_improved(l, data) /\ data \in Node
    BY DEF subscribe, Node
  <1> HIDE DEF data
  <1>2. Lands(Appended(Views, l, data))
    BY <1>1, AppendStep
  <1>3. TypeOK
    BY DEF Invariant
  <1>4. lists'[l].size = lists[l].size + 1 /\ \A m \in Lists \ {l} : lists'[m] = lists[m]
    BY <1>1, <1>3, AddLastTyped
  <1>5. \A m \in Lists : lists'[m].size \in 0..MaxSize
    <2>1. \A m \in Lists : lists[m].size \in 0..MaxSize
      BY <1>3 DEF TypeOK
    <2>2. lists'[l].size \in 0..MaxSize
      BY <1>4, <2>1, LinkedListAssumption
    <2> QED BY <1>4, <2>1, <2>2
  <1>6. TypeOK'
    BY <1>2, <1>3, <1>5, TypedSized DEF Lands, TypeOK
  <1> QED BY <1>2, <1>6 DEF Lands

\* One call.
LEMMA NextInvariant == Invariant /\ Next => Invariant'
  <1> SUFFICES ASSUME Invariant, Next PROVE Invariant'
    OBVIOUS
  <1>1. edited' = edited
    BY DEF Next
  <1>2. PICK l \in Lists :
          \/ ByFunctions(l)
          \/ \E topic \in Topics : unsubscribe(l, topic)
          \/ \E topic \in Topics, sf \in {0, 1} :
               \/ resubscribe(l, topic, sf)
               \/ lists[l].size < MaxSize /\ subscribe(l, topic, sf)
    BY DEF Next
  <1>3. CASE ByFunctions(l)
    <2>1. ~edited
      BY <1>3 DEF ByFunctions
    <2>2. CASE \E data \in Node : add_last_improved(l, data)
      BY <1>1, <2>1, <2>2, AppendStep DEF Lands, Invariant
    <2>3. CASE \E data \in Node, n \in (-1)..(lists[l].size + 1) : add_nth_node_improved(l, n, data)
      <3>1. PICK data \in Node, n \in (-1)..(lists[l].size + 1) : add_nth_node_improved(l, n, data)
        BY <2>3
      <3>2. n \in Nat
        BY <3>1 DEF add_nth_node_improved, Invariant, TypeOK
      <3> QED BY <1>1, <2>1, <3>1, <3>2, InsertStep DEF Invariant
    <2>4. CASE remove_first(l)
      BY <1>1, <2>1, <2>4, RemoveStep DEF Invariant
    <2>5. CASE \E n \in (-1)..(lists[l].size + 1) : remove_nth_node(l, n)
      <3>1. PICK n \in (-1)..(lists[l].size + 1) : remove_nth_node(l, n)
        BY <2>5
      <3>2. n \in Nat
        BY <3>1 DEF remove_nth_node, Invariant, TypeOK
      <3> QED BY <1>1, <2>1, <3>1, <3>2, RemoveStep DEF Invariant
    <2>6. CASE free_list_improved(l)
      BY <1>1, <2>1, <2>6, ClearStep DEF Invariant
    <2> QED BY <1>3, <2>2, <2>3, <2>4, <2>5, <2>6 DEF ByFunctions
  <1>4. CASE \E topic \in Topics : unsubscribe(l, topic)
    BY <1>1, <1>4, UnsubscribeStep DEF Invariant
  <1>5. ASSUME NEW topic \in Topics, NEW sf \in {0, 1}, resubscribe(l, topic, sf) PROVE Invariant'
    BY <1>1, <1>5, ResubscribeStep DEF Invariant
  <1>6. ASSUME NEW topic \in Topics, NEW sf \in {0, 1}, lists[l].size < MaxSize, subscribe(l, topic, sf)
        PROVE  Invariant'
    BY <1>1, <1>6, SubscribeStep DEF Invariant
  <1> QED BY <1>2, <1>3, <1>4, <1>5, <1>6

\* No step breaks the invariant, one that changes nothing included.
LEMMA StepInvariant == Invariant /\ [Next]_vars => Invariant'
  <1>1. ASSUME Invariant, UNCHANGED vars PROVE Invariant'
    <2>1. heap' = heap /\ live' = live /\ kept' = kept /\ lists' = lists /\ edited' = edited
      BY <1>1 DEF vars
    <2>2. TypeOK'
      BY <1>1, <2>1 DEF Invariant, TypeOK
    <2>3. Chained'
      BY <1>1, <2>1 DEF Invariant, Chained, Path
    <2>4. Counted'
      BY <1>1, <2>1 DEF Invariant, Counted, Places, Path, Length, At
    <2> QED BY <2>2, <2>3, <2>4 DEF Invariant
  <1> QED BY <1>1, NextInvariant

-----------------------------------------------------------------------------
\* The theorems.

\* Every reachable state satisfies the invariant.
THEOREM Inductive == Spec => []Invariant
  <1> QED BY InitInvariant, StepInvariant, PTL DEF Spec

\* Lists laid out on paths own their nodes: no node has two places, and a cell
\* that is not allocated has none.
LEMMA OwnedIs == Invariant => Owned
  <1> SUFFICES ASSUME Invariant PROVE Owned
    OBVIOUS
  <1>1. TypeOK /\ LaidOut(heap, live, lists, Paths)
    BY InvariantIs
  <1>2. \A l \in Lists : Path(l) = Paths[l] /\ Len(Paths[l]) \in Nat
    BY InvariantIs DEF Paths
  <1>3. ASSUME NEW c, NEW place \in Places(c)
        PROVE  /\ place \in Lists \X (1..Cardinality(Cells))
               /\ place = <<place[1], place[2]>> /\ place[1] \in Lists
               /\ place[2] \in 1..Len(Paths[place[1]])
               /\ Paths[place[1]][place[2]] = c
    <2>1. PICK l \in Lists, k \in 1..Cardinality(Cells) :
            place = <<l, k>> /\ place[2] <= Length(place[1]) /\ Path(place[1])[place[2]] = c
      BY <1>3 DEF Places
    <2>2. place[1] = l /\ place[2] = k
      BY <2>1
    <2>3. k <= Len(Paths[l]) /\ Paths[l][k] = c
      BY <1>2, <2>1, <2>2 DEF Length
    <2>4. Cardinality(Cells) \in Nat
      BY LinkedListAssumption, FS_CardinalityType
    <2>5. k \in 1..Len(Paths[l])
      BY <1>2, <2>3, <2>4
    <2> QED BY <2>1, <2>2, <2>3, <2>5
  <1>4. ASSUME NEW c, NEW x \in Places(c), NEW y \in Places(c) PROVE x = y
    <2>1. x[1] = y[1]
      BY <1>1, <1>3 DEF LaidOut
    <2>2. x[2] = y[2]
      <3>1. IsChain(heap, lists[x[1]].head, Paths[x[1]])
        BY <1>1, <1>3 DEF LaidOut
      <3> QED BY <1>3, <2>1, <3>1 DEF IsChain
    <2> QED BY <1>3, <2>1, <2>2
  <1>5. ASSUME NEW c \in Cells PROVE Cardinality(Places(c)) <= IF c \in live THEN 1 ELSE 0
    <2>1. CASE Places(c) = {}
      BY <2>1, FS_EmptySet
    <2>2. CASE Places(c) # {}
      <3>1. PICK x : x \in Places(c)
        BY <2>2
      <3>2. c \in live
        BY <1>1, <1>3, <3>1 DEF LaidOut
      <3>3. Places(c) = {x}
        BY <1>4, <3>1
      <3>4. Cardinality({x}) = 1
        BY FS_Singleton
      <3> QED BY <3>2, <3>3, <3>4
    <2> QED BY <2>1, <2>2
  <1>6. \A l \in Lists : lists[l].head # NULL => lists[l].tail # NULL
    BY <1>1 DEF LaidOut
  <1> QED BY <1>5, <1>6 DEF Owned

\* The memory holds pointers to cells and nodes with contents, and sizes do
\* not pass the bound.
THEOREM TypeCorrect == Spec => []TypeOK
  <1>1. Invariant => TypeOK
    BY DEF Invariant
  <1> QED BY <1>1, Inductive, PTL

\* The lists stay chains of allocated nodes, apart from one another: a write
\* through a stale tail may cut a list off, it never ties a ring.
THEOREM AlwaysChained == Spec => []Chained
  <1>1. Invariant => Chained
    BY DEF Invariant
  <1> QED BY <1>1, Inductive, PTL

\* Every node a list reaches is allocated and is reached once, from one list.
THEOREM AlwaysOwned == Spec => []Owned
  <1> QED BY OwnedIs, Inductive, PTL

\* In the hands of LinkedList.c alone a list counts its nodes and knows the
\* last of them, and the nodes that are allocated without being on a list are
\* those that remove_first has handed out, which empty_queue never frees.
THEOREM AlwaysCounted == Spec => []Counted
  <1>1. Invariant => Counted
    BY DEF Invariant
  <1> QED BY <1>1, Inductive, PTL

\* The lists begin as the empty sequences.
LEMMA InitSimulates == Init => AsSpecified!Init
  <1> SUFFICES ASSUME Init PROVE AsSpecified!Init
    OBVIOUS
  <1>1. Invariant
    BY InitInvariant
  <1>2. ASSUME NEW l \in Lists PROVE AsSequence(l) = EmptyList
    <2>1. lists[l].head = NULL
      BY DEF Init, init_list
    <2>2. TypeOK /\ LaidOut(heap, live, lists, Paths)
      BY <1>1, InvariantIs
    <2>3. Len(Path(l)) = 0 /\ Path(l) \in Seq(Cells)
      BY <2>1, <2>2, LaidOutList DEF Paths
    <2>4. Length(l) = 0 /\ \A c : Positions(l, c) = {}
      BY <2>3 DEF Length, Positions
    <2>5. [k \in 1..Length(l) |-> heap[Path(l)[k]].data] = << >>
      BY <2>4
    <2> QED BY <2>4, <2>5 DEF AsSequence, EmptyList
  <1> QED BY <1>2 DEF AsSpecified!Init, EmptyList, AsSpecified!EmptyList

\* Every call does to the sequences what ListSpec says.
LEMMA NextSimulates ==
  ASSUME Invariant, Next, NEW l \in Lists
  PROVE  IF edited THEN FollowsByHand(l) ELSE FollowsByFunctions(l)
  <1>1. edited' = edited
    BY DEF Next
  <1>2. CASE edited
    <2>1. ASSUME NEW node \in Node, subscribe(l, node.topic, node.sf)
          PROVE  AsSpecified!AppendNode(l, node)
      <3>1. node = [topic |-> node.topic, sf |-> node.sf]
        BY DEF Node
      <3>2. add_last_improved(l, node)
        BY <2>1, <3>1 DEF subscribe
      <3> QED BY <1>1, <3>2, AppendStep
    <2>2. ASSUME NEW node \in Node, resubscribe(l, node.topic, node.sf)
          PROVE  AsSpecified!Rate(l, node.topic, node.sf)
      <3>1. node.topic \in Topics /\ node.sf \in {0, 1}
        BY DEF Node
      <3> QED BY <1>1, <2>2, <3>1, ResubscribeStep
    <2>3. ASSUME NEW topic \in Topics, unsubscribe(l, topic) PROVE AsSpecified!Remove(l, topic)
      BY <1>1, <2>3, UnsubscribeStep
    <2> QED BY <1>2, <2>1, <2>2, <2>3 DEF FollowsByHand
  <1>3. CASE ~edited
    <2>1. \A n \in 0..MaxSize : n \in Nat
      OBVIOUS
    <2>2. ASSUME NEW node \in Node, add_last_improved(l, node) PROVE AsSpecified!AppendNode(l, node)
      BY <1>1, <2>2, AppendStep
    <2>3. ASSUME NEW node \in Node, NEW n \in 0..MaxSize, add_nth_node_improved(l, n, node)
          PROVE  AsSpecified!InsertNth(l, n, node)
      BY <1>1, <1>3, <2>1, <2>3, InsertStep
    <2>4. ASSUME NEW n \in 0..MaxSize, remove_nth_node(l, n) PROVE AsSpecified!RemoveNth(l, n)
      BY <1>1, <1>3, <2>1, <2>4, RemoveStep
    <2>5. ASSUME remove_first(l) PROVE AsSpecified!RemoveNth(l, 0)
      BY <1>1, <1>3, <2>5, RemoveStep
    <2>6. ASSUME free_list_improved(l) PROVE AsSpecified!Clear(l)
      BY <1>1, <1>3, <2>6, ClearStep
    <2> QED BY <1>3, <2>2, <2>3, <2>4, <2>5, <2>6 DEF FollowsByFunctions
  <1> QED BY <1>2, <1>3

\* The pointer manipulation implements the sequence operations, call by call,
\* for any number of lists in a memory of any size.
THEOREM ImplementsListSpec == Spec => Simulates
  <1>1. Invariant /\ [Next]_vars =>
          [\A l \in Lists : IF edited THEN FollowsByHand(l) ELSE FollowsByFunctions(l)]_vars
    BY NextSimulates
  <1> QED BY <1>1, InitSimulates, Inductive, PTL DEF Spec, Simulates
=============================================================================
