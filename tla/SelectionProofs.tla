-------------------------- MODULE SelectionProofs --------------------------
(***************************************************************************)
(* What Kept returns, and the two facts about natural numbers that the     *)
(* proofs of this project make inductions with.                            *)
(***************************************************************************)
EXTENDS Selection, TLAPS, FiniteSetTheorems, SequenceTheorems

\* A set of natural numbers has a least element.
LEMMA LeastNat ==
    ASSUME NEW T \in SUBSET Nat, T # {}
    PROVE  \E x \in T : \A y \in T : x <= y
<1>1. IsWellFoundedOn(OpToRel(<, Nat), Nat)
  BY NatLessThanWellFounded
<1>2. PICK x \in T : \A y \in T : ~(<<y, x>> \in OpToRel(<, Nat))
  BY <1>1, WFMin
<1>3. \A y \in T : ~(y < x)
  BY <1>2 DEF OpToRel
<1> QED BY <1>3

\* A set that holds zero and the successor of each of its members holds every
\* natural number.
LEMMA NatSetInduction ==
    ASSUME NEW T \in SUBSET Nat, 0 \in T, \A n \in T : n + 1 \in T
    PROVE  T = Nat
<1> SUFFICES ASSUME Nat \ T # {}
             PROVE  FALSE
  OBVIOUS
<1>1. PICK x \in Nat \ T : \A y \in Nat \ T : x <= y
  BY LeastNat
<1>2. x # 0 /\ x - 1 \in Nat /\ x - 1 \in T
  BY <1>1
<1> QED BY <1>2

\* A run of N steps from base through states of A, where a step depends on the
\* state and on its number.
StepsIn(A, N) == [A \X (1..N) -> A]

IsRun(f, A, N, base, step) ==
    /\ f \in [0..N -> A] /\ f[0] = base
    /\ \A n \in 1..N : f[n] = step[<<f[n - 1], n>>]

\* Every such recursion has a solution.
LEMMA RecursionHasASolution ==
    ASSUME NEW A, NEW N \in Nat, NEW base \in A, NEW step \in StepsIn(A, N)
    PROVE  \E f : IsRun(f, A, N, base, step)
<1> DEFINE Solves(f, n) == /\ f \in [0..n -> A] /\ f[0] = base
                           /\ \A m \in 1..n : f[m] = step[<<f[m - 1], m>>]
           T == {n \in Nat : n <= N => \E f : Solves(f, n)}
<1>1. 0 \in T
  <2> DEFINE f == [m \in 0..0 |-> base]
  <2>1. Solves(f, 0)
    OBVIOUS
  <2> QED BY <2>1
<1>2. ASSUME NEW n \in T
      PROVE  n + 1 \in T
  <2> SUFFICES ASSUME n + 1 <= N
               PROVE  \E f : Solves(f, n + 1)
    OBVIOUS
  <2>1. n \in Nat /\ n <= N /\ n \in 0..n /\ n + 1 \in 1..N
    OBVIOUS
  <2>2. PICK f : Solves(f, n)
    BY <2>1
  <2> DEFINE last == step[<<f[n], n + 1>>]
             g == [m \in 0..(n + 1) |-> IF m = n + 1 THEN last ELSE f[m]]
  <2>3. last \in A
    BY <2>1, <2>2 DEF StepsIn
  <2>4. g \in [0..(n + 1) -> A]
    <3>1. \A m \in 0..(n + 1) : m # n + 1 => m \in 0..n
      BY <2>1
    <3> HIDE DEF last
    <3> QED BY <2>2, <2>3, <3>1
  <2>5. g[0] = base
    BY <2>1, <2>2
  <2>6. ASSUME NEW m \in 1..(n + 1)
        PROVE  g[m] = step[<<g[m - 1], m>>]
    <3>1. m - 1 \in 0..n /\ m - 1 # n + 1 /\ m \in 0..(n + 1) /\ m - 1 \in 0..(n + 1)
      BY <2>1
    <3>2. g[m - 1] = f[m - 1]
      <4> HIDE DEF last
      <4> QED BY <3>1
    <3>3. CASE m = n + 1
      <4>1. g[m] = last /\ m - 1 = n
        <5> HIDE DEF last
        <5> QED BY <2>1, <3>1, <3>3
      <4> HIDE DEF g
      <4> QED BY <3>2, <3>3, <4>1
    <3>4. CASE m # n + 1
      <4>1. m \in 1..n
        BY <2>1, <3>4
      <4>2. g[m] = f[m]
        <5> HIDE DEF last
        <5> QED BY <3>1, <3>4
      <4> HIDE DEF g
      <4> QED BY <2>2, <3>2, <4>1, <4>2
    <3> QED BY <3>3, <3>4
  <2> HIDE DEF g
  <2> QED BY <2>4, <2>5, <2>6
<1>3. T = Nat
  <2>1. T \in SUBSET Nat
    OBVIOUS
  <2> HIDE DEF T
  <2> QED BY <1>1, <1>2, <2>1, NatSetInduction
<1>4. N \in T
  BY <1>3
<1>5. \E f : Solves(f, N)
  BY <1>4
<1> QED BY <1>5 DEF IsRun

\* The recursion of Kept has a solution, so that its equation can be used.
LEMMA KeptUnfolds ==
    ASSUME NEW X, NEW seq \in Seq(X), NEW S
    PROVE  \E f : /\ f = [n \in 0..Len(seq) |->
                            IF n = 0 THEN <<>>
                            ELSE IF seq[n] \in S THEN Append(f[n - 1], seq[n])
                            ELSE f[n - 1]]
                  /\ Kept(seq, S) = f[Len(seq)]
<1> DEFINE N == Len(seq)
           G(f, n) == IF n = 0 THEN <<>>
                      ELSE IF seq[n] \in S THEN Append(f[n - 1], seq[n])
                      ELSE f[n - 1]
           step == [x \in Seq(X) \X (1..N) |->
                      IF seq[x[2]] \in S THEN Append(x[1], seq[x[2]]) ELSE x[1]]
<1>1. N \in Nat /\ \A n \in 1..N : seq[n] \in X
  OBVIOUS
<1>2. <<>> \in Seq(X)
  OBVIOUS
<1>3. step \in StepsIn(Seq(X), N)
  BY <1>1 DEF StepsIn
<1>4. \E f : f = [n \in 0..N |-> G(f, n)]
  <2>1. PICK f : IsRun(f, Seq(X), N, <<>>, step)
    <3>1. N \in Nat
      BY <1>1
    <3> HIDE DEF step, N
    <3> QED BY <1>2, <1>3, <3>1, RecursionHasASolution
  <2> USE DEF IsRun
  <2>2. ASSUME NEW n \in 0..N
        PROVE  f[n] = G(f, n)
    <3>1. CASE n = 0
      BY <2>1, <3>1
    <3>2. CASE n # 0
      <4>1. n \in 1..N /\ n - 1 \in 0..N
        BY <1>1, <3>2
      <4>2. f[n - 1] \in Seq(X)
        BY <2>1, <4>1
      <4>3. \A s \in Seq(X) : step[<<s, n>>] = IF seq[n] \in S THEN Append(s, seq[n]) ELSE s
        BY <4>1
      <4> HIDE DEF step
      <4>4. f[n] = step[<<f[n - 1], n>>]
        BY <2>1, <4>1
      <4> QED BY <3>2, <4>2, <4>3, <4>4
    <3> QED BY <3>1, <3>2
  <2> HIDE DEF G
  <2>3. f = [n \in 0..N |-> f[n]]
    BY <2>1
  <2>4. f = [n \in 0..N |-> G(f, n)]
    BY <2>2, <2>3
  <2> QED BY <2>4
<1> DEFINE kept[n \in 0..Len(seq)] ==
              IF n = 0 THEN <<>>
              ELSE IF seq[n] \in S THEN Append(kept[n - 1], seq[n])
              ELSE kept[n - 1]
<1>5. kept = [n \in 0..Len(seq) |-> G(kept, n)]
  BY <1>4, Zenon
<1>6. Kept(seq, S) = kept[Len(seq)]
  BY Zenon DEF Kept
<1> HIDE DEF kept
<1> QED BY <1>5, <1>6

\* Kept(seq, S) is a subsequence of seq: its elements are those of seq at
\* increasing places, the places of the members of S.
LEMMA KeptIsASubsequence ==
    ASSUME NEW X, NEW seq \in Seq(X), NEW S
    PROVE  /\ Kept(seq, S) \in Seq(X) /\ Len(Kept(seq, S)) \in Nat
           /\ \E at \in [1..Len(Kept(seq, S)) -> 1..Len(seq)] :
                /\ \A i \in 1..Len(Kept(seq, S)) : /\ Kept(seq, S)[i] = seq[at[i]]
                                                  /\ Kept(seq, S)[i] \in S
                /\ \A i, j \in 1..Len(Kept(seq, S)) : i < j => at[i] < at[j]
                /\ \A k \in 1..Len(seq) : seq[k] \in S =>
                        \E i \in 1..Len(Kept(seq, S)) : at[i] = k
<1>1. PICK f : /\ f = [n \in 0..Len(seq) |->
                          IF n = 0 THEN <<>>
                          ELSE IF seq[n] \in S THEN Append(f[n - 1], seq[n])
                          ELSE f[n - 1]]
               /\ Kept(seq, S) = f[Len(seq)]
  BY KeptUnfolds
<1>2. Len(seq) \in Nat
  OBVIOUS
<1>3. /\ f[0] = <<>>
      /\ \A n \in 1..Len(seq) : f[n] = IF seq[n] \in S THEN Append(f[n - 1], seq[n])
                                       ELSE f[n - 1]
  <2> DEFINE G(h, n) == IF n = 0 THEN <<>>
                        ELSE IF seq[n] \in S THEN Append(h[n - 1], seq[n])
                        ELSE h[n - 1]
  <2>1. \A n \in 0..Len(seq) : f[n] = G(f, n)
    <3>1. \A h : h = [n \in 0..Len(seq) |-> G(f, n)] => \A n \in 0..Len(seq) : h[n] = G(f, n)
      OBVIOUS
    <3>2. f = [n \in 0..Len(seq) |-> G(f, n)]
      BY <1>1
    <3> HIDE DEF G
    <3> QED BY <3>1, <3>2
  <2>2. 0 \in 0..Len(seq) /\ \A n \in 1..Len(seq) : n \in 0..Len(seq) /\ n # 0
    BY <1>2
  <2> QED BY <2>1, <2>2
<1> DEFINE Sub(s, n) ==
             /\ s \in Seq(X) /\ Len(s) \in Nat
             /\ \E at \in [1..Len(s) -> 1..n] :
                   /\ \A i \in 1..Len(s) : s[i] = seq[at[i]] /\ s[i] \in S
                   /\ \A i, j \in 1..Len(s) : i < j => at[i] < at[j]
                   /\ \A k \in 1..n : seq[k] \in S => \E i \in 1..Len(s) : at[i] = k
           T == {n \in Nat : n <= Len(seq) => Sub(f[n], n)}
<1>4. 0 \in T
  <2>1. <<>> \in Seq(X) /\ Len(<<>>) = 0
    OBVIOUS
  <2>2. Sub(<<>>, 0)
    <3> DEFINE at == [i \in 1..Len(<<>>) |-> i]
    <3>1. at \in [1..Len(<<>>) -> 1..0]
      BY <2>1
    <3>2. 1..Len(<<>>) = {} /\ 1..0 = {}
      BY <2>1
    <3>3. <<>> \in Seq(X) /\ Len(<<>>) \in Nat
      BY <2>1
    <3> HIDE DEF at
    <3> QED BY <3>1, <3>2, <3>3, Zenon
  <2> HIDE DEF Sub
  <2> QED BY <1>3, <2>2
<1>5. ASSUME NEW n \in T
      PROVE  n + 1 \in T
  <2> SUFFICES ASSUME n + 1 <= Len(seq)
               PROVE  Sub(f[n + 1], n + 1)
    <3>1. n + 1 \in Nat
      OBVIOUS
    <3> HIDE DEF Sub
    <3> QED BY <3>1
  <2>1. n \in Nat /\ Sub(f[n], n) /\ n + 1 \in 1..Len(seq) /\ (n + 1) - 1 = n
        /\ seq[n + 1] \in X
    <3>1. n \in Nat /\ n + 1 \in 1..Len(seq) /\ (n + 1) - 1 = n /\ n <= Len(seq)
      BY <1>2
    <3>2. Sub(f[n], n)
      <4> HIDE DEF Sub
      <4> QED BY <3>1
    <3> HIDE DEF Sub
    <3> QED BY <3>1, <3>2
  <2> DEFINE s == f[n]
  <2>2. f[n + 1] = IF seq[n + 1] \in S THEN Append(s, seq[n + 1]) ELSE s
    <3>1. f[n + 1] = IF seq[n + 1] \in S THEN Append(f[(n + 1) - 1], seq[n + 1])
                     ELSE f[(n + 1) - 1]
      BY <1>3, <2>1
    <3> QED BY <2>1, <3>1
  <2>3. PICK at \in [1..Len(s) -> 1..n] :
                   /\ \A i \in 1..Len(s) : s[i] = seq[at[i]] /\ s[i] \in S
                   /\ \A i, j \in 1..Len(s) : i < j => at[i] < at[j]
                   /\ \A k \in 1..n : seq[k] \in S => \E i \in 1..Len(s) : at[i] = k
    BY <2>1
  <2>4. s \in Seq(X) /\ Len(s) \in Nat
    BY <2>1
  <2> HIDE DEF s
  <2>5. CASE seq[n + 1] \notin S
    <3>1. at \in [1..Len(s) -> 1..(n + 1)]
      BY <2>1, <2>3
    <3>2. \A k \in 1..(n + 1) : seq[k] \in S => \E i \in 1..Len(s) : at[i] = k
      <4> SUFFICES ASSUME NEW k \in 1..(n + 1), seq[k] \in S
                   PROVE  \E i \in 1..Len(s) : at[i] = k
        OBVIOUS
      <4>1. k \in 1..n
        BY <2>1, <2>5
      <4> QED BY <2>3, <4>1
    <3>3. Sub(s, n + 1)
      BY <2>3, <2>4, <3>1, <3>2
    <3> HIDE DEF Sub
    <3> QED BY <2>2, <2>5, <3>3
  <2>6. CASE seq[n + 1] \in S
    <3> DEFINE z == Append(s, seq[n + 1])
               to == [i \in 1..Len(z) |-> IF i = Len(z) THEN n + 1 ELSE at[i]]
    <3>1. /\ z \in Seq(X) /\ Len(z) = Len(s) + 1 /\ Len(z) \in Nat
          /\ \A i \in 1..Len(s) : z[i] = s[i]
          /\ z[Len(s) + 1] = seq[n + 1]
      BY <2>1, <2>4, AppendProperties
    <3> HIDE DEF z
    <3>2. /\ \A i \in 1..Len(s) : i \in 1..Len(z) /\ i # Len(z)
          /\ Len(z) \in 1..Len(z)
          /\ \A i \in 1..Len(z) : i # Len(z) => i \in 1..Len(s)
      BY <2>4, <3>1
    <3>3. /\ \A i \in 1..Len(s) : to[i] = at[i] /\ to[i] \in 1..n
          /\ to[Len(z)] = n + 1
      BY <2>3, <3>2
    <3>4. to \in [1..Len(z) -> 1..(n + 1)]
      <4>1. \A i \in 1..Len(s) : at[i] \in 1..(n + 1)
        BY <2>1, <2>3
      <4>2. n + 1 \in 1..(n + 1)
        BY <2>1
      <4> QED BY <3>2, <4>1, <4>2
    <3> HIDE DEF to
    <3>5. \A i \in 1..Len(z) : z[i] = seq[to[i]] /\ z[i] \in S
      <4> SUFFICES ASSUME NEW i \in 1..Len(z)
                   PROVE  z[i] = seq[to[i]] /\ z[i] \in S
        OBVIOUS
      <4>1. CASE i = Len(z)
        BY <2>6, <3>1, <3>3, <4>1
      <4>2. CASE i # Len(z)
        BY <2>3, <3>1, <3>2, <3>3, <4>2
      <4> QED BY <4>1, <4>2
    <3>6. \A i, j \in 1..Len(z) : i < j => to[i] < to[j]
      <4> SUFFICES ASSUME NEW i \in 1..Len(z), NEW j \in 1..Len(z), i < j
                   PROVE  to[i] < to[j]
        OBVIOUS
      <4>1. i \in 1..Len(s)
        BY <3>1, <3>2
      <4>2. CASE j = Len(z)
        <5>1. to[i] \in 1..n /\ to[j] = n + 1
          BY <3>3, <4>1, <4>2
        <5> QED BY <2>1, <5>1
      <4>3. CASE j # Len(z)
        BY <2>3, <3>2, <3>3, <4>1, <4>3
      <4> QED BY <4>2, <4>3
    <3>7. \A k \in 1..(n + 1) : seq[k] \in S => \E i \in 1..Len(z) : to[i] = k
      <4> SUFFICES ASSUME NEW k \in 1..(n + 1), seq[k] \in S
                   PROVE  \E i \in 1..Len(z) : to[i] = k
        OBVIOUS
      <4>1. CASE k = n + 1
        BY <3>2, <3>3, <4>1
      <4>2. CASE k # n + 1
        <5>1. k \in 1..n
          BY <2>1, <4>2
        <5>2. PICK i \in 1..Len(s) : at[i] = k
          BY <2>3, <5>1
        <5> QED BY <3>2, <3>3, <5>2
      <4> QED BY <4>1, <4>2
    <3>8. Sub(z, n + 1)
      BY <3>1, <3>4, <3>5, <3>6, <3>7
    <3> HIDE DEF Sub
    <3> QED BY <2>2, <2>6, <3>8 DEF z
  <2> QED BY <2>5, <2>6
<1>6. T = Nat
  <2> HIDE DEF Sub
  <2>1. T \in SUBSET Nat
    OBVIOUS
  <2> HIDE DEF T
  <2> QED BY <1>4, <1>5, <2>1, NatSetInduction
<1>7. Sub(f[Len(seq)], Len(seq))
  <2> HIDE DEF Sub
  <2> QED BY <1>2, <1>6
<1>8. Sub(Kept(seq, S), Len(seq))
  <2> HIDE DEF Sub
  <2> QED BY <1>1, <1>7
<1> HIDE DEF Kept
<1> QED BY <1>8

\* The elements kept are those that belong to S.
LEMMA KeptRange ==
    ASSUME NEW X, NEW seq \in Seq(X), NEW S
    PROVE  Kept(seq, S) \in Seq(X) /\ Range(Kept(seq, S)) = Range(seq) \cap S
<1> DEFINE K == Kept(seq, S)
<1>1. /\ K \in Seq(X) /\ Len(K) \in Nat
      /\ \E at \in [1..Len(K) -> 1..Len(seq)] :
            /\ \A i \in 1..Len(K) : K[i] = seq[at[i]] /\ K[i] \in S
            /\ \A i, j \in 1..Len(K) : i < j => at[i] < at[j]
            /\ \A k \in 1..Len(seq) : seq[k] \in S => \E i \in 1..Len(K) : at[i] = k
  BY KeptIsASubsequence
<1> HIDE DEF K
<1>2. Range(K) = {K[i] : i \in 1..Len(K)} /\ Range(seq) = {seq[i] : i \in 1..Len(seq)}
  BY <1>1, RangeEquality
<1>3. Range(K) = Range(seq) \cap S
  BY <1>1, <1>2
<1> QED BY <1>1, <1>3 DEF K

\* No element is kept twice.
LEMMA KeptIsInjective ==
    ASSUME NEW X, NEW seq \in Seq(X), NEW S,
           \A i, j \in 1..Len(seq) : seq[i] = seq[j] => i = j
    PROVE  \A i, j \in 1..Len(Kept(seq, S)) : Kept(seq, S)[i] = Kept(seq, S)[j] => i = j
<1> DEFINE K == Kept(seq, S)
<1>1. /\ K \in Seq(X) /\ Len(K) \in Nat
      /\ \E at \in [1..Len(K) -> 1..Len(seq)] :
            /\ \A i \in 1..Len(K) : /\ K[i] = seq[at[i]]
                                   /\ K[i] \in S
            /\ \A i, j \in 1..Len(K) : i < j => at[i] < at[j]
            /\ \A k \in 1..Len(seq) : seq[k] \in S => \E i \in 1..Len(K) : at[i] = k
  BY KeptIsASubsequence
<1> HIDE DEF K
<1>2. PICK at \in [1..Len(K) -> 1..Len(seq)] :
            /\ \A i \in 1..Len(K) : K[i] = seq[at[i]]
            /\ \A i, j \in 1..Len(K) : i < j => at[i] < at[j]
  BY <1>1
<1>3. ASSUME NEW i \in 1..Len(K), NEW j \in 1..Len(K), K[i] = K[j]
      PROVE  i = j
  <2>1. at[i] = at[j] /\ at[i] \in Nat
    BY <1>2, <1>3
  <2>2. ~(i < j) /\ ~(j < i)
    BY <1>2, <2>1
  <2> QED BY <1>1, <2>2
<1> QED BY <1>3 DEF K

=============================================================================
