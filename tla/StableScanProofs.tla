-------------------------- MODULE StableScanProofs --------------------------
(***************************************************************************)
(* apply_batch computes what rescanning the batch computes, for every      *)
(* history and every batch: each step of a round corresponds to the visits *)
(* of a scan up to the position it takes, and each round to one scan.      *)
(***************************************************************************)
EXTENDS StableScan, ApplyBatchProofs

-----------------------------------------------------------------------------
(* Scans as recursions.                                                    *)

ScanState == [ix : Index, log : Seq(EventId), failed : BOOLEAN]

\* What the inputs of a scan are.
Scannable(h, b) == b \in Seq(EventId) /\ \A e \in EventId : IsEvent(h[e])

\* A visit leads from a state of a scan to a state of a scan.
LEMMA VisitType ==
    ASSUME NEW h, NEW b, Scannable(h, b), NEW s \in ScanState, NEW e \in EventId
    PROVE  Visit(h, b, s, e) \in ScanState
<1> DEFINE x == s.ix
           l == s.log
           z == ApplyAuthorized(x, h[e], e)
<1>1. x \in Index /\ l \in Seq(EventId) /\ s.failed \in BOOLEAN
      /\ s = [ix |-> x, log |-> l, failed |-> s.failed]
  BY DEF ScanState
<1>2. ASSUME Authorized(x, h[e])
      PROVE  z \in Index
  BY <1>1, <1>2, ApplyAuthorizedOpensOnly DEF Scannable, OpensOnly
<1>3. Append(l, e) \in Seq(EventId)
  BY <1>1, AppendRange
<1>4. \/ Visit(h, b, s, e) = s
      \/ Visit(h, b, s, e) = [s EXCEPT !.failed = TRUE]
      \/ /\ Authorized(x, h[e])
         /\ Visit(h, b, s, e) = [ix |-> z, log |-> Append(l, e), failed |-> FALSE]
  BY DEF Visit
<1>5. [s EXCEPT !.failed = TRUE] \in ScanState
  BY DEF ScanState
<1>6. ASSUME NEW y \in Index, NEW m \in Seq(EventId)
      PROVE  [ix |-> y, log |-> m, failed |-> FALSE] \in ScanState
  BY DEF ScanState
<1> HIDE DEF x, l, z
<1> QED BY <1>2, <1>3, <1>4, <1>5, <1>6

\* The recursion of Visits has a solution, so that its equation can be used.
LEMMA VisitsUnfold ==
    ASSUME NEW h, NEW b, Scannable(h, b), NEW s \in ScanState
    PROVE  /\ Visits(h, b, s)[0] = s
           /\ \A n \in 0..Len(b) : Visits(h, b, s)[n] \in ScanState
           /\ \A n \in 1..Len(b) :
                 Visits(h, b, s)[n] = Visit(h, b, Visits(h, b, s)[n - 1], b[n])
<1> DEFINE N == Len(b)
           G(f, n) == IF n = 0 THEN s ELSE Visit(h, b, f[n - 1], b[n])
           step == [x \in ScanState \X (1..N) |-> Visit(h, b, x[1], b[x[2]])]
<1>1. N \in Nat /\ \A n \in 1..N : b[n] \in EventId
  BY DEF Scannable
<1>2. step \in StepsIn(ScanState, N)
  BY <1>1, VisitType DEF StepsIn
<1>3. PICK f : IsRun(f, ScanState, N, s, step)
  <2>1. N \in Nat
    BY <1>1
  <2> HIDE DEF step, N
  <2> QED BY <1>2, <2>1, RecursionHasASolution
<1>4. f \in [0..N -> ScanState] /\ f[0] = s
  BY <1>3 DEF IsRun
<1>5. ASSUME NEW n \in 1..N
      PROVE  f[n] = Visit(h, b, f[n - 1], b[n])
  <2>1. n - 1 \in 0..N
    BY <1>1
  <2>2. f[n - 1] \in ScanState
    BY <1>4, <2>1
  <2>3. \A v \in ScanState : step[<<v, n>>] = Visit(h, b, v, b[n])
    OBVIOUS
  <2> HIDE DEF step
  <2>4. f[n] = step[<<f[n - 1], n>>]
    BY <1>3 DEF IsRun
  <2> QED BY <2>2, <2>3, <2>4
<1>6. \A n \in 0..N : f[n] = G(f, n)
  <2>1. \A n \in 0..N : n # 0 => n \in 1..N
    BY <1>1
  <2> QED BY <1>4, <1>5, <2>1
<1>7. \E g : g = [n \in 0..N |-> G(g, n)]
  <2> HIDE DEF G, N
  <2>1. f = [n \in 0..N |-> f[n]]
    BY <1>4
  <2>2. f = [n \in 0..N |-> G(f, n)]
    BY <1>6, <2>1
  <2> QED BY <2>2
<1> DEFINE upto[n \in 0..Len(b)] == IF n = 0 THEN s ELSE Visit(h, b, upto[n - 1], b[n])
<1>8. upto = [n \in 0..N |-> G(upto, n)]
  BY <1>7, Zenon
<1>9. Visits(h, b, s) = upto
  BY Zenon DEF Visits
<1> HIDE DEF upto
<1>10. \A n \in 0..N : upto[n] = G(upto, n)
  <2>1. \A g : g = [n \in 0..N |-> G(upto, n)] => \A n \in 0..N : g[n] = G(upto, n)
    OBVIOUS
  <2> HIDE DEF G
  <2> QED BY <1>8, <2>1
<1>11. /\ upto[0] = s
       /\ \A n \in 1..N : upto[n] = Visit(h, b, upto[n - 1], b[n])
  <2>1. 0 \in 0..N /\ \A n \in 1..N : n \in 0..N /\ n # 0
    BY <1>1
  <2> QED BY <1>10, <2>1
<1>12. \A n \in 0..N : upto[n] \in ScanState
  <2> DEFINE T == {n \in Nat : n <= N => upto[n] \in ScanState}
  <2>1. 0 \in T
    BY <1>11
  <2>2. ASSUME NEW n \in T
        PROVE  n + 1 \in T
    <3> SUFFICES ASSUME n + 1 <= N
                 PROVE  upto[n + 1] \in ScanState
      OBVIOUS
    <3>1. n \in Nat /\ n + 1 \in 1..N /\ (n + 1) - 1 = n /\ upto[n] \in ScanState
      BY <1>1
    <3> QED BY <1>1, <1>11, <3>1, VisitType
  <2>3. T \in SUBSET Nat
    OBVIOUS
  <2> HIDE DEF T
  <2>4. T = Nat
    BY <2>1, <2>2, <2>3, NatSetInduction
  <2> QED BY <1>1, <2>4 DEF T
<1> QED BY <1>9, <1>11, <1>12

\* One scan leads from a state of a scan to another.
LEMMA ScanType ==
    ASSUME NEW h, NEW b, Scannable(h, b), NEW s \in ScanState
    PROVE  Scan(h, b, s) \in ScanState
<1>1. Len(b) \in 0..Len(b)
  BY DEF Scannable
<1> QED BY <1>1, VisitsUnfold DEF Scan

\* The recursion of Scans has a solution too.
LEMMA ScansUnfold ==
    ASSUME NEW h, NEW b, Scannable(h, b)
    PROVE  /\ Scans(h, b)[0] = Empty
           /\ \A n \in 0..Len(b) : Scans(h, b)[n] \in ScanState
           /\ \A n \in 1..Len(b) : Scans(h, b)[n] = Scan(h, b, Scans(h, b)[n - 1])
<1> DEFINE N == Len(b)
           G(f, n) == IF n = 0 THEN Empty ELSE Scan(h, b, f[n - 1])
           step == [x \in ScanState \X (1..N) |-> Scan(h, b, x[1])]
<1>0. Empty \in ScanState
  BY DEF Empty, ScanState, NewIndex, Index
<1>1. N \in Nat
  BY DEF Scannable
<1>2. step \in StepsIn(ScanState, N)
  BY <1>1, ScanType DEF StepsIn
<1>3. PICK f : IsRun(f, ScanState, N, Empty, step)
  <2>1. N \in Nat
    BY <1>1
  <2> HIDE DEF step, N
  <2> QED BY <1>0, <1>2, <2>1, RecursionHasASolution
<1>4. f \in [0..N -> ScanState] /\ f[0] = Empty
  BY <1>3 DEF IsRun
<1>5. ASSUME NEW n \in 1..N
      PROVE  f[n] = Scan(h, b, f[n - 1])
  <2>1. n - 1 \in 0..N
    BY <1>1
  <2>2. f[n - 1] \in ScanState
    BY <1>4, <2>1
  <2>3. \A v \in ScanState : step[<<v, n>>] = Scan(h, b, v)
    OBVIOUS
  <2> HIDE DEF step
  <2>4. f[n] = step[<<f[n - 1], n>>]
    BY <1>3 DEF IsRun
  <2> QED BY <2>2, <2>3, <2>4
<1>6. \A n \in 0..N : f[n] = G(f, n)
  <2>1. \A n \in 0..N : n # 0 => n \in 1..N
    BY <1>1
  <2> QED BY <1>4, <1>5, <2>1
<1>7. \E g : g = [n \in 0..N |-> G(g, n)]
  <2> HIDE DEF G, N
  <2>1. f = [n \in 0..N |-> f[n]]
    BY <1>4
  <2>2. f = [n \in 0..N |-> G(f, n)]
    BY <1>6, <2>1
  <2> QED BY <2>2
<1> DEFINE after[n \in 0..Len(b)] == IF n = 0 THEN Empty ELSE Scan(h, b, after[n - 1])
<1>8. after = [n \in 0..N |-> G(after, n)]
  BY <1>7, Zenon
<1>9. Scans(h, b) = after
  BY Zenon DEF Scans
<1> HIDE DEF after
<1>10. \A n \in 0..N : after[n] = G(after, n)
  <2>1. \A g : g = [n \in 0..N |-> G(after, n)] => \A n \in 0..N : g[n] = G(after, n)
    OBVIOUS
  <2> HIDE DEF G
  <2> QED BY <1>8, <2>1
<1>11. /\ after[0] = Empty
       /\ \A n \in 1..N : after[n] = Scan(h, b, after[n - 1])
  <2>1. 0 \in 0..N /\ \A n \in 1..N : n \in 0..N /\ n # 0
    BY <1>1
  <2> QED BY <1>10, <2>1
<1>12. \A n \in 0..N : after[n] \in ScanState
  <2> DEFINE T == {n \in Nat : n <= N => after[n] \in ScanState}
  <2>1. 0 \in T
    BY <1>0, <1>11
  <2>2. ASSUME NEW n \in T
        PROVE  n + 1 \in T
    <3> SUFFICES ASSUME n + 1 <= N
                 PROVE  after[n + 1] \in ScanState
      OBVIOUS
    <3>1. n \in Nat /\ n + 1 \in 1..N /\ (n + 1) - 1 = n /\ after[n] \in ScanState
      BY <1>1
    <3> QED BY <1>1, <1>11, <3>1, ScanType
  <2>3. T \in SUBSET Nat
    OBVIOUS
  <2> HIDE DEF T
  <2>4. T = Nat
    BY <2>1, <2>2, <2>3, NatSetInduction
  <2> QED BY <1>1, <2>4 DEF T
<1> QED BY <1>9, <1>11, <1>12

-----------------------------------------------------------------------------
(* Visits and scans that change nothing.                                   *)

\* Positions that are passed over leave a scan where it is.
LEMMA VisitsPassOver ==
    ASSUME NEW h, NEW b, Scannable(h, b), NEW s \in ScanState, NEW t,
           NEW k \in 0..Len(b), NEW m \in 0..Len(b), k <= m, Visits(h, b, s)[k] = t,
           \A j \in 1..Len(b) : k < j /\ j <= m => Visit(h, b, t, b[j]) = t
    PROVE  Visits(h, b, s)[m] = t
<1> DEFINE v(n) == Visits(h, b, s)[n]
           T == {n \in Nat : k + n <= m => v(k + n) = t}
<1>0. Len(b) \in Nat
  BY DEF Scannable
<1>1. \A n \in 1..Len(b) : v(n) = Visit(h, b, v(n - 1), b[n])
  BY VisitsUnfold
<1> HIDE DEF v
<1>2. 0 \in T
  <2>1. k + 0 = k /\ v(k) = t
    BY DEF v
  <2> QED BY <2>1
<1>3. ASSUME NEW n \in T
      PROVE  n + 1 \in T
  <2> SUFFICES ASSUME k + (n + 1) <= m
               PROVE  v(k + (n + 1)) = t
    OBVIOUS
  <2>1. n \in Nat /\ k + n <= m /\ k + (n + 1) \in 1..Len(b) /\ k < k + (n + 1)
        /\ (k + (n + 1)) - 1 = k + n
    BY <1>0
  <2>2. v(k + n) = t
    BY <2>1
  <2> QED BY <1>1, <2>1, <2>2
<1>4. T \in SUBSET Nat
  OBVIOUS
<1>5. m - k \in Nat /\ k + (m - k) = m
  BY <1>0
<1>6. m - k \in T
  <2> HIDE DEF T
  <2>1. T = Nat
    BY <1>2, <1>3, <1>4, NatSetInduction
  <2> QED BY <1>5, <2>1
<1> QED BY <1>5, <1>6 DEF v

\* A scan in a state in which every position is passed over.
LEMMA ScanAtRest ==
    ASSUME NEW h, NEW b, Scannable(h, b), NEW t \in ScanState,
           \A j \in 1..Len(b) : Visit(h, b, t, b[j]) = t
    PROVE  Scan(h, b, t) = t
<1>1. Len(b) \in Nat /\ 0 \in 0..Len(b) /\ Len(b) \in 0..Len(b) /\ 0 <= Len(b)
  BY DEF Scannable
<1>2. Visits(h, b, t)[0] = t
  BY VisitsUnfold
<1> QED BY <1>1, <1>2, VisitsPassOver DEF Scan

\* A scan that changes nothing is the last one that could have.
LEMMA RescanIsThere ==
    ASSUME NEW h, NEW b, Scannable(h, b), NEW r \in 0..Len(b), NEW t,
           Scans(h, b)[r] = t, Scan(h, b, t) = t
    PROVE  Rescan(h, b) = t
<1> DEFINE a(n) == Scans(h, b)[n]
           T == {n \in Nat : r + n <= Len(b) => a(r + n) = t}
<1>0. Len(b) \in Nat
  BY DEF Scannable
<1>1. \A n \in 1..Len(b) : a(n) = Scan(h, b, a(n - 1))
  BY ScansUnfold
<1> HIDE DEF a
<1>2. 0 \in T
  <2>1. r + 0 = r /\ a(r) = t
    BY DEF a
  <2> QED BY <2>1
<1>3. ASSUME NEW n \in T
      PROVE  n + 1 \in T
  <2> SUFFICES ASSUME r + (n + 1) <= Len(b)
               PROVE  a(r + (n + 1)) = t
    OBVIOUS
  <2>1. n \in Nat /\ r + n <= Len(b) /\ r + (n + 1) \in 1..Len(b)
        /\ (r + (n + 1)) - 1 = r + n
    BY <1>0
  <2>2. a(r + n) = t
    BY <2>1
  <2> QED BY <1>1, <2>1, <2>2
<1>4. T \in SUBSET Nat
  OBVIOUS
<1>5. Len(b) - r \in Nat /\ r + (Len(b) - r) = Len(b)
  BY <1>0
<1>6. Len(b) - r \in T
  <2> HIDE DEF T
  <2>1. T = Nat
    BY <1>2, <1>3, <1>4, NatSetInduction
  <2> QED BY <1>5, <2>1
<1> QED BY <1>5, <1>6 DEF a, Rescan

-----------------------------------------------------------------------------
(* What a visit does in a state that apply_batch has reached.              *)

\* The state of a scan that has index x, has applied l and has not failed.
Reached(x, l) == [ix |-> x, log |-> l, failed |-> FALSE]

\* The same, stopped by an invalid payload.
Stopped(x, l) == [ix |-> x, log |-> l, failed |-> TRUE]

\* The events of a log.
Listed(l) == {l[k] : k \in 1..Len(l)}

\* A visit passes over an event that is applied, lacks a parent, is in conflict
\* or is not authorized; it applies an authorized one; an invalid one stops it.
LEMMA VisitCases ==
    ASSUME NEW h, NEW b, NEW x, NEW l, NEW e
    PROVE  /\ \/ e \in Listed(l) \/ ~(h[e].parents \subseteq Listed(l)) \/ Conflicting(h, b, e)
              \/ ~Authorized(x, h[e]) /\ ~Malformed(x, h[e])
              => Visit(h, b, Reached(x, l), e) = Reached(x, l)
           /\ /\ e \notin Listed(l) /\ h[e].parents \subseteq Listed(l) /\ ~Conflicting(h, b, e)
              /\ Authorized(x, h[e])
              => Visit(h, b, Reached(x, l), e)
                    = Reached(ApplyAuthorized(x, h[e], e), Append(l, e))
           /\ /\ e \notin Listed(l) /\ h[e].parents \subseteq Listed(l) /\ ~Conflicting(h, b, e)
              /\ Malformed(x, h[e])
              => Visit(h, b, Reached(x, l), e) = Stopped(x, l)
           /\ Visit(h, b, Stopped(x, l), e) = Stopped(x, l)
<1> DEFINE s == Reached(x, l)
           D == Listed(l)
           z == ApplyAuthorized(x, h[e], e)
           m == Append(l, e)
<1>1. s.ix = x /\ s.log = l /\ s.failed = FALSE /\ Done(s) = D
  BY DEF Reached, Done, Listed
<1>2. Authorized(x, h[e]) => ~Malformed(x, h[e])
  BY DEF Authorized, Malformed, MayCreateDirectMessage, PlainBodies
<1>3. [s EXCEPT !.failed = TRUE] = Stopped(x, l)
  <2>1. ASSUME NEW p, NEW q
        PROVE  [[ix |-> x, log |-> l, failed |-> p] EXCEPT !.failed = q]
                  = [ix |-> x, log |-> l, failed |-> q]
    OBVIOUS
  <2> QED BY <2>1, Zenon DEF Reached, Stopped
<1>4. Stopped(x, l).failed
  BY DEF Stopped
<1>5. Visit(h, b, Stopped(x, l), e) = Stopped(x, l)
  BY <1>4 DEF Visit
<1>6. Visit(h, b, s, e) =
        IF e \in D \/ ~(h[e].parents \subseteq D) \/ Conflicting(h, b, e) THEN s
        ELSE IF Malformed(x, h[e]) THEN Stopped(x, l)
        ELSE IF ~Authorized(x, h[e]) THEN s
        ELSE Reached(z, m)
  <2>1. Visit(h, b, s, e) =
          IF s.failed \/ e \in Done(s) \/ ~(h[e].parents \subseteq Done(s))
                      \/ Conflicting(h, b, e)
          THEN s
          ELSE IF Malformed(s.ix, h[e]) THEN [s EXCEPT !.failed = TRUE]
          ELSE IF ~Authorized(s.ix, h[e]) THEN s
          ELSE Reached(ApplyAuthorized(s.ix, h[e], e), Append(s.log, e))
    BY DEF Visit, Reached
  <2> HIDE DEF s, D
  <2> QED BY <1>1, <1>3, <2>1
<1> HIDE DEF s, z, m
<1> QED BY <1>2, <1>5, <1>6 DEF s, z, m

-----------------------------------------------------------------------------
(* The invariant.                                                          *)

Rising(s) == \A m, n \in 1..Len(s) : m < n => s[m] < s[n]

\* What is left of the round comes after position k and what is left for the
\* next one does not; no position is on two queues.
QueuesAround(k) ==
    /\ \A j \in Range(stable) \cup dynamic : k < j
    /\ \A j \in Range(deferred) \cup nextRound : j <= k
    /\ Range(stable) \cap dynamic = {}
    /\ Range(deferred) \cap nextRound = {}

\* Only a position that the round has passed has to wait for the next one.
WaitsAround(k) ==
    \A j \in Positions : \/ earliest[j] <= round
                         \/ earliest[j] = round + 1 /\ j <= k

\* The scan that the round stands for has visited k positions.
HasVisited(k) == Visits(history, batch, Scans(history, batch)[round])[k] = Reached(ix, log)

\* Every round but the last applies an event.
RoundsAreCounted ==
    /\ round <= Len(log) /\ (progressed => round + 1 <= Len(log))
    /\ ~progressed => Scans(history, batch)[round] = Reached(ix, log)

FollowsScan ==
    outcome = "running" =>
        /\ Rising(stable) /\ Rising(deferred) /\ RoundsAreCounted
        /\ \E k \in 0..Len(batch) : QueuesAround(k) /\ WaitsAround(k) /\ HasVisited(k)

\* A visit leaves only positions behind the one that it takes to the round.
MovesOn ==
    /\ round' = round
    /\ \A j \in Range(stable') \cup dynamic' : NextPosition < j

\* No more events are applied than the batch has positions, and fewer while one
\* of them is not applied.
LEMMA LogFitsBatch ==
    ASSUME Inv
    PROVE  /\ Len(batch) \in Nat /\ Len(log) \in Nat /\ Len(log) <= Len(batch)
           /\ \A i \in Positions : batch[i] \notin Applied => Len(log) < Len(batch)
<1> DEFINE at(k) == CHOOSE p \in 1..Len(batch) : batch[p] = log[k]
           f == [k \in 1..Len(log) |-> at(k)]
<1>1. Len(batch) \in Nat /\ Len(log) \in Nat
  BY DEF Inv, BatchTypeOK
<1>2. \A k \in 1..Len(log) : at(k) \in 1..Len(batch) /\ batch[at(k)] = log[k]
  <2> SUFFICES ASSUME NEW k \in 1..Len(log)
               PROVE  \E p \in 1..Len(batch) : batch[p] = log[k]
    OBVIOUS
  <2>1. log[k] \in Applied
    BY DEF Applied
  <2> QED BY <2>1 DEF Inv, AppliedAreEligible, Ids
<1> HIDE DEF at
<1>3. f \in [1..Len(log) -> 1..Len(batch)]
  BY <1>2
<1>4. \A m, n \in 1..Len(log) : m # n => log[m] # log[n]
  <2>1. \A m, n \in 1..Len(log) : m < n => log[m] # log[n]
    <3> SUFFICES ASSUME NEW m \in 1..Len(log), NEW n \in 1..Len(log), m < n
                 PROVE  log[m] # log[n]
      OBVIOUS
    <3>1. m \in 1..(n - 1)
      BY <1>1
    <3>2. log[n] \notin {log[j] : j \in 1..(n - 1)}
      BY DEF Inv, CausalOrder
    <3> QED BY <3>1, <3>2
  <2>2. \A m, n \in 1..Len(log) : m # n => m < n \/ n < m
    BY <1>1
  <2> QED BY <2>1, <2>2, Zenon
<1>5. f \in Injection(1..Len(log), 1..Len(batch))
  <2>1. \A m, n \in 1..Len(log) : m # n => f[m] # f[n]
    BY <1>2, <1>4
  <2> HIDE DEF f
  <2> QED BY <1>3, <2>1 DEF Injection, IsInjective
<1>6. /\ IsFiniteSet(1..Len(batch)) /\ Cardinality(1..Len(batch)) = Len(batch)
      /\ Cardinality(1..Len(log)) = Len(log)
  <2>1. ASSUME NEW n \in Nat
        PROVE  IsFiniteSet(1..n) /\ Cardinality(1..n) = n
    BY FS_Interval
  <2> QED BY <1>1, <2>1
<1> HIDE DEF f
<1>7. /\ Cardinality(1..Len(log)) <= Cardinality(1..Len(batch))
      /\ Cardinality(1..Len(log)) = Cardinality(1..Len(batch))
           <=> f \in Surjection(1..Len(log), 1..Len(batch))
  BY <1>5, <1>6, FS_Injection
<1>8. ASSUME NEW i \in Positions, batch[i] \notin Applied
      PROVE  f \notin Surjection(1..Len(log), 1..Len(batch))
  <2>1. \A k \in 1..Len(log) : f[k] # i
    <3> SUFFICES ASSUME NEW k \in 1..Len(log)
                 PROVE  f[k] # i
      OBVIOUS
    <3>1. log[k] \in Applied /\ batch[at(k)] = log[k] /\ f[k] = at(k)
      BY <1>2 DEF Applied, f
    <3> QED BY <1>8, <3>1
  <2> QED BY <2>1 DEF Surjection, Positions
<1> QED BY <1>1, <1>6, <1>7, <1>8

-----------------------------------------------------------------------------
(* One step of a round as visits of the scan.                              *)

\* What the invariant of apply_batch says of the inputs of the scan.
LEMMA InputIsScannable ==
    ASSUME Inv
    PROVE  /\ Scannable(history, batch) /\ Len(batch) \in Nat
           /\ Positions = 1..Len(batch) /\ Reached(ix, log) \in ScanState
           /\ Applied = Listed(log)
           /\ \A j \in Positions : batch[j] \in EventId
<1>1. ix \in Index /\ log \in Seq(EventId)
  BY DEF Inv, BatchTypeOK
<1> QED BY <1>1 DEF Inv, BatchTypeOK, Scannable, Positions, Reached, ScanState, Applied,
                   Listed

\* A position on no queue is passed over.
LEMMA UnqueuedIsPassedOver ==
    ASSUME Inv, NEW j \in Positions, j \notin OnQueue
    PROVE  Visit(history, batch, Reached(ix, log), batch[j]) = Reached(ix, log)
<1>1. batch[j] \in Applied \/ ~Eligible(j)
  BY DEF Inv, EligibleAreQueued, FinishedAreApplied
<1>2. \/ batch[j] \in Applied \/ ~(history[batch[j]].parents \subseteq Applied)
      \/ Conflicting(history, batch, batch[j])
  BY <1>1 DEF Eligible, EventAt
<1>3. Applied = Listed(log)
  BY DEF Applied, Listed
<1> QED BY <1>2, <1>3, VisitCases

\* The round takes the least position that is left.
LEMMA NextIsLeast ==
    ASSUME BatchTypeOK, InRound, Rising(stable)
    PROVE  \A j \in Range(stable) \cup dynamic : NextPosition <= j
<1>1. Positions \subseteq Nat /\ dynamic \in SUBSET Nat /\ dynamic \subseteq Positions
  BY DEF BatchTypeOK, Positions
<1>2. dynamic # {} => LeastOf(dynamic) \in dynamic /\ \A j \in dynamic : LeastOf(dynamic) <= j
  BY <1>1, LeastNat DEF LeastOf
<1>3. stable # <<>> =>
        Head(stable) \in Nat /\ \A j \in Range(stable) : j \in Nat /\ Head(stable) <= j
  <2> SUFFICES ASSUME stable # <<>>
               PROVE  Head(stable) \in Nat
                      /\ \A j \in Range(stable) : j \in Nat /\ Head(stable) <= j
    OBVIOUS
  <2>1. stable \in Seq(Positions) /\ Len(stable) \in Nat /\ 1 \in 1..Len(stable)
        /\ Head(stable) = stable[1]
    BY DEF BatchTypeOK
  <2>2. Range(stable) = {stable[k] : k \in 1..Len(stable)}
    BY <2>1, RangeEquality
  <2>3. \A k \in 1..Len(stable) : stable[k] \in Nat
    <3>1. \A k \in 1..Len(stable) : stable[k] \in Positions
      BY <2>1
    <3> QED BY <1>1, <3>1, Zenon
  <2>4. \A k \in 1..Len(stable) : stable[1] <= stable[k]
    <3> SUFFICES ASSUME NEW k \in 1..Len(stable)
                 PROVE  stable[1] <= stable[k]
      OBVIOUS
    <3>1. CASE k = 1
      BY <2>1, <2>3, <3>1
    <3>2. CASE k # 1
      <4>1. 1 < k
        BY <2>1, <3>2
      <4>2. stable[1] < stable[k]
        BY <2>1, <4>1 DEF Rising
      <4> QED BY <2>1, <2>3, <4>2
    <3> QED BY <3>1, <3>2
  <2> QED BY <2>1, <2>2, <2>3, <2>4
<1> DEFINE d == LeastOf(dynamic)
           s == Head(stable)
<1>4. CASE StableIsNext
  <2>1. stable # <<>> /\ NextPosition = s /\ (dynamic = {} \/ s <= d)
    BY <1>4 DEF StableIsNext, NextPosition
  <2>2. \A j \in dynamic : d <= j /\ d \in Nat /\ j \in Nat /\ s <= d
    BY <1>1, <1>2, <2>1
  <2>3. s \in Nat /\ \A j \in Range(stable) : s <= j
    BY <1>3, <2>1
  <2> HIDE DEF s, d
  <2>4. \A j \in dynamic : s <= j
    BY <2>2, <2>3
  <2> QED BY <2>1, <2>3, <2>4
<1>5. CASE ~StableIsNext
  <2>1. NextPosition = d /\ dynamic # {} /\ (stable = <<>> \/ ~(s <= d))
    BY <1>5 DEF StableIsNext, NextPosition, InRound
  <2>2. d \in Nat /\ \A j \in dynamic : d <= j
    BY <1>1, <1>2, <2>1
  <2>3. stable = <<>> => Range(stable) = {}
    BY DEF Range
  <2>4. stable # <<>> => s \in Nat /\ \A j \in Range(stable) : j \in Nat /\ s <= j
    BY <1>3
  <2> HIDE DEF s, d
  <2>5. \A j \in Range(stable) : d <= j
    BY <2>1, <2>2, <2>3, <2>4
  <2> QED BY <2>1, <2>2, <2>5
<1> QED BY <1>4, <1>5

\* Once it is taken, what is left and what wakes up comes after it.
LEMMA TakeGoesOn ==
    ASSUME BatchTypeOK, InRound, Rising(stable), Range(stable) \cap dynamic = {},
           NEW woken \in SUBSET Positions, woken \cap Range(stable) = {},
           \A j \in woken : NextPosition < j, Take(woken)
    PROVE  /\ Rising(stable') /\ Range(stable') \cap dynamic' = {}
           /\ \A j \in Range(stable') \cup dynamic' : NextPosition < j
<1> DEFINE i == NextPosition
<1>1. i \in Nat /\ \A j \in Range(stable) \cup dynamic : j \in Nat /\ i <= j
  <2>1. i \in Positions /\ Range(stable) \cup dynamic \subseteq Positions
    BY NextPositionIsQueued DEF BatchTypeOK, Range
  <2> QED BY <2>1, NextIsLeast DEF Positions
<1>2. stable \in Seq(Positions) /\ Len(stable) \in Nat
  BY DEF BatchTypeOK
<1>3. Range(stable) = {stable[k] : k \in 1..Len(stable)}
  BY <1>2, RangeEquality
<1>4. CASE StableIsNext
  <2>1. /\ stable # <<>> /\ i = stable[1] /\ 1 \in 1..Len(stable)
        /\ stable' = Tail(stable) /\ dynamic' = dynamic \cup woken
    BY <1>2, <1>4 DEF StableIsNext, NextPosition, Take
  <2>2. /\ Tail(stable) \in Seq(Positions) /\ Len(Tail(stable)) = Len(stable) - 1
        /\ \A k \in 1..Len(Tail(stable)) : Tail(stable)[k] = stable[k + 1]
    BY <1>2, <2>1, HeadTailProperties
  <2>3. Range(Tail(stable)) = {Tail(stable)[k] : k \in 1..Len(Tail(stable))}
    BY <2>2, RangeEquality
  <2>4. \A k \in 1..Len(Tail(stable)) : k + 1 \in 1..Len(stable) /\ 1 < k + 1
    BY <1>2, <2>2
  <2> HIDE DEF i
  <2>5. \A j \in Range(Tail(stable)) : j \in Range(stable) /\ i < j
    BY <1>3, <2>1, <2>2, <2>3, <2>4 DEF Rising
  <2>6. Rising(Tail(stable))
    <3> SUFFICES ASSUME NEW m \in 1..Len(Tail(stable)), NEW n \in 1..Len(Tail(stable)), m < n
                 PROVE  Tail(stable)[m] < Tail(stable)[n]
      BY DEF Rising
    <3>1. m + 1 < n + 1
      BY <2>2, <1>2
    <3> QED BY <2>2, <2>4, <3>1 DEF Rising
  <2>7. \A j \in dynamic : i < j
    <3>1. i \in Range(stable)
      BY <1>3, <2>1
    <3>2. \A j \in dynamic : j # i
      BY <3>1
    <3> QED BY <1>1, <3>2
  <2> QED BY <2>1, <2>5, <2>6, <2>7 DEF i
<1>5. CASE ~StableIsNext
  <2>1. /\ i = LeastOf(dynamic) /\ stable' = stable
        /\ dynamic' = (dynamic \ {i}) \cup woken
    BY <1>5 DEF NextPosition, Take
  <2>2. i \in dynamic
    <3>1. dynamic # {} /\ dynamic \in SUBSET Nat
      BY <1>5 DEF StableIsNext, InRound, BatchTypeOK, Positions
    <3> QED BY <2>1, <3>1, LeastNat DEF LeastOf
  <2> HIDE DEF i
  <2>3. \A j \in Range(stable) \cup (dynamic \ {i}) : i < j
    <3>1. \A j \in Range(stable) \cup (dynamic \ {i}) : j # i
      BY <2>2
    <3> QED BY <1>1, <3>1
  <2> QED BY <2>1, <2>3 DEF i
<1> QED BY <1>4, <1>5

\* The scan passes over the positions up to the one that the round takes next,
\* which is eligible.
LEMMA NextVisit ==
    ASSUME Inv, InRound, Rising(stable), round <= Len(log),
           NEW k \in 0..Len(batch), QueuesAround(k), HasVisited(k)
    PROVE  LET i == NextPosition
               s == Scans(history, batch)[round]
           IN  /\ i \in Positions /\ i \in 1..Len(batch) /\ k < i
               /\ round \in 0..Len(batch) /\ s \in ScanState
               /\ Visits(history, batch, s)[i]
                    = Visit(history, batch, Reached(ix, log), batch[i])
               /\ EventAt(i) = history[batch[i]]
               /\ history[batch[i]].parents \subseteq Listed(log)
               /\ ~Conflicting(history, batch, batch[i])
<1> DEFINE i == NextPosition
           s == Scans(history, batch)[round]
           t == Reached(ix, log)
           v(n) == Visits(history, batch, s)[n]
<1>1. /\ Scannable(history, batch) /\ Len(batch) \in Nat /\ Positions = 1..Len(batch)
      /\ Applied = Listed(log) /\ \A j \in Positions : batch[j] \in EventId
  BY InputIsScannable
<1>2. round \in 0..Len(batch)
  <2>1. Len(log) \in Nat /\ Len(log) <= Len(batch) /\ round \in Nat
    BY LogFitsBatch DEF Inv, BatchTypeOK
  <2> QED BY <1>1, <2>1
<1>3. s \in ScanState
  BY <1>1, <1>2, ScansUnfold
<1>4. BatchTypeOK
  BY DEF Inv
<1>5. i \in Range(stable) \cup dynamic /\ i \in Positions /\ i \in OnQueue
  BY <1>4, NextPositionIsQueued
<1>6. k < i
  BY <1>5 DEF QueuesAround
<1>7. i - 1 \in 0..Len(batch) /\ k <= i - 1 /\ i \in 1..Len(batch)
  BY <1>1, <1>5, <1>6
<1>8. ASSUME NEW j \in 1..Len(batch), k < j, j <= i - 1
      PROVE  Visit(history, batch, t, batch[j]) = t
  <2>1. j \notin OnQueue
    <3>1. ~(i <= j) /\ ~(j <= k)
      BY <1>7, <1>8
    <3>2. j \notin Range(stable) \cup dynamic
      BY <1>4, <3>1, NextIsLeast
    <3>3. j \notin Range(deferred) \cup nextRound
      BY <3>1 DEF QueuesAround
    <3> QED BY <3>2, <3>3 DEF OnQueue
  <2> QED BY <1>1, <2>1, UnqueuedIsPassedOver
<1>9. v(i - 1) = t
  <2>1. v(k) = t
    BY DEF HasVisited
  <2> HIDE DEF i, s, t
  <2>2. \A j \in 1..Len(batch) :
            k < j /\ j <= i - 1 => Visit(history, batch, t, batch[j]) = t
    BY <1>8
  <2> DEFINE m == i - 1
  <2>3. m \in 0..Len(batch) /\ k <= m
    BY <1>7
  <2> HIDE DEF m
  <2>4. Visits(history, batch, s)[m] = t
    BY <1>1, <1>3, <2>1, <2>2, <2>3, VisitsPassOver DEF m
  <2> QED BY <2>4 DEF m
<1>10. v(i) = Visit(history, batch, t, batch[i])
  <2> HIDE DEF i, s, t
  <2>1. v(i) = Visit(history, batch, v(i - 1), batch[i])
    BY <1>1, <1>3, <1>7, VisitsUnfold
  <2> QED BY <1>9, <2>1
<1>11. Eligible(i)
  BY <1>5 DEF Inv, QueuedAreEligible
<1> HIDE DEF i, s, t
<1>12. /\ EventAt(i) = history[batch[i]]
       /\ history[batch[i]].parents \subseteq Listed(log)
       /\ ~Conflicting(history, batch, batch[i])
  BY <1>1, <1>11 DEF Eligible, EventAt
<1> QED BY <1>2, <1>3, <1>5, <1>6, <1>7, <1>10, <1>12 DEF i, s, t

\* A round that is over stands for a scan that is over.
LEMMA RoundIsScan ==
    ASSUME Inv, RoundOver, round <= Len(log),
           NEW k \in 0..Len(batch), QueuesAround(k), HasVisited(k)
    PROVE  /\ round \in 0..Len(batch)
           /\ Scan(history, batch, Scans(history, batch)[round]) = Reached(ix, log)
<1> DEFINE s == Scans(history, batch)[round]
           t == Reached(ix, log)
<1>1. /\ Scannable(history, batch) /\ Len(batch) \in Nat /\ Positions = 1..Len(batch)
  BY InputIsScannable
<1>2. round \in 0..Len(batch)
  <2>1. Len(log) \in Nat /\ Len(log) <= Len(batch) /\ round \in Nat
    BY LogFitsBatch DEF Inv, BatchTypeOK
  <2> QED BY <1>1, <2>1
<1>3. s \in ScanState
  BY <1>1, <1>2, ScansUnfold
<1>4. ASSUME NEW j \in 1..Len(batch), k < j
      PROVE  Visit(history, batch, t, batch[j]) = t
  <2>1. ~(j <= k)
    BY <1>1, <1>4
  <2>2. j \notin OnQueue
    BY <2>1 DEF QueuesAround, RoundOver, OnQueue, Range
  <2> QED BY <1>1, <2>2, UnqueuedIsPassedOver
<1>5. Visits(history, batch, s)[k] = t
  BY DEF HasVisited
<1>6. Len(batch) \in 0..Len(batch) /\ k <= Len(batch)
  BY <1>1
<1> HIDE DEF s, t
<1>7. Visits(history, batch, s)[Len(batch)] = t
  BY <1>1, <1>3, <1>4, <1>5, <1>6, VisitsPassOver
<1> QED BY <1>2, <1>7 DEF Scan, s, t

-----------------------------------------------------------------------------
(* One lemma per action.                                                   *)

\* Before the first event nothing is visited.
LEMMA InitFollows == Init => FollowsScan
<1> SUFFICES ASSUME Init
             PROVE  FollowsScan
  OBVIOUS
<1>1. Inv
  BY InitInv
<1>2. /\ Scannable(history, batch) /\ Len(batch) \in Nat /\ Positions = 1..Len(batch)
      /\ 0 \in 0..Len(batch)
  BY <1>1, InputIsScannable
<1>3. Scans(history, batch)[0] = Reached(ix, log) /\ Empty \in ScanState
      /\ Reached(ix, log) = Empty
  <2>1. Reached(ix, log) = Empty
    BY DEF Init, Empty, Reached
  <2>2. Scans(history, batch)[0] = Empty /\ Scans(history, batch)[0] \in ScanState
    BY <1>2, ScansUnfold
  <2> QED BY <2>1, <2>2
<1>4. HasVisited(0)
  BY <1>2, <1>3, VisitsUnfold DEF HasVisited, Init
<1>5. RoundsAreCounted
  BY <1>3 DEF RoundsAreCounted, Init
<1>6. WaitsAround(0)
  BY DEF WaitsAround, Init
<1>7. Rising(deferred) /\ Range(deferred) = {}
  BY DEF Init, Rising, Range
<1>8. Rising(stable)
  <2> DEFINE first == {j \in Positions : /\ EventAt(j).parents = {}
                                         /\ ~Conflicting(history, batch, batch[j])}
  <2>1. stable \in Ascending(first) /\ first \in SUBSET (1..Len(batch))
    BY DEF Init, Positions
  <2> HIDE DEF first
  <2>2. stable \in [1..Cardinality(first) -> first] /\ Cardinality(first) \in Nat
    <3>1. IsFiniteSet(1..Len(batch))
      BY <1>2, FS_Interval
    <3>2. IsFiniteSet(first)
      BY <2>1, <3>1, FS_Subset
    <3> QED BY <2>1, <3>2, FS_CardinalityType DEF Ascending
  <2>3. Len(stable) = Cardinality(first)
    BY <2>2
  <2> QED BY <2>1, <2>3 DEF Ascending, Rising
<1>9. QueuesAround(0)
  <2>1. \A j \in Range(stable) : j \in Positions
    BY <1>1 DEF Inv, BatchTypeOK, Range
  <2> QED BY <1>2, <1>7, <2>1 DEF QueuesAround, Init
<1> QED BY <1>2, <1>4, <1>5, <1>6, <1>7, <1>8, <1>9 DEF FollowsScan

\* An event that came twice is passed over.
LEMMA SkipAppliedFollows == Inv /\ FollowsScan /\ SkipApplied => FollowsScan' /\ MovesOn
<1> SUFFICES ASSUME Inv, FollowsScan, SkipApplied
             PROVE  FollowsScan' /\ MovesOn
  OBVIOUS
<1>0. PICK i : i = NextPosition
  OBVIOUS
<1>1. /\ InRound /\ batch[i] \in Applied /\ Take({}) /\ outcome = "running"
      /\ UNCHANGED <<history, batch, ix, log, earliest>>
      /\ UNCHANGED <<nextRound, deferred, round, progressed>>
  BY <1>0 DEF SkipApplied, InRound, input, state, index
<1>2. Rising(stable) /\ Rising(deferred) /\ RoundsAreCounted
  BY <1>1 DEF FollowsScan
<1>3. PICK k \in 0..Len(batch) : QueuesAround(k) /\ WaitsAround(k) /\ HasVisited(k)
  BY <1>1 DEF FollowsScan
<1>4. /\ i \in Positions /\ i \in 1..Len(batch) /\ k < i
      /\ Visits(history, batch, Scans(history, batch)[round])[i]
           = Visit(history, batch, Reached(ix, log), batch[i])
  BY <1>0, <1>1, <1>2, <1>3, NextVisit DEF RoundsAreCounted
<1>5. Visit(history, batch, Reached(ix, log), batch[i]) = Reached(ix, log)
  <2>1. batch[i] \in Listed(log)
    BY <1>1 DEF Applied, Listed
  <2> QED BY <2>1, VisitCases
<1>6. /\ Rising(stable') /\ Range(stable') \cap dynamic' = {}
      /\ \A j \in Range(stable') \cup dynamic' : i < j
  <2>1. {} \in SUBSET Positions /\ {} \cap Range(stable) = {} /\ \A j \in {} : NextPosition < j
    OBVIOUS
  <2> QED BY <1>0, <1>1, <1>2, <1>3, <2>1, TakeGoesOn DEF QueuesAround, Inv
<1>7. HasVisited(i)'
  BY <1>1, <1>4, <1>5 DEF HasVisited
<1>8. Len(batch) \in Nat /\ Positions = 1..Len(batch) /\ Positions' = Positions
  BY <1>1, InputIsScannable DEF Positions
<1>9. \A j \in Positions : j <= k => j <= i
  BY <1>3, <1>4, <1>8
<1>10. Range(deferred) \cup nextRound \subseteq Positions
  BY DEF Inv, BatchTypeOK, Range
<1>11. QueuesAround(i)'
  BY <1>1, <1>3, <1>6, <1>9, <1>10 DEF QueuesAround
<1>12. WaitsAround(i)'
  BY <1>1, <1>3, <1>8, <1>9 DEF WaitsAround
<1>13. RoundsAreCounted'
  BY <1>1, <1>2 DEF RoundsAreCounted
<1>14. i \in 0..Len(batch)' /\ Rising(deferred)'
  BY <1>1, <1>2, <1>4, <1>8 DEF Rising
<1>15. MovesOn
  BY <1>0, <1>1, <1>6 DEF MovesOn
<1> QED BY <1>6, <1>7, <1>11, <1>12, <1>13, <1>14, <1>15 DEF FollowsScan

\* An event that is not authorized is passed over as well.
LEMMA DeferFollows == Inv /\ FollowsScan /\ Defer => FollowsScan' /\ MovesOn
<1> SUFFICES ASSUME Inv, FollowsScan, Defer
             PROVE  FollowsScan' /\ MovesOn
  OBVIOUS
<1>0. PICK i : i = NextPosition
  OBVIOUS
<1>1. /\ InRound /\ ~Authorized(ix, EventAt(i)) /\ ~Malformed(ix, EventAt(i))
      /\ Take({}) /\ outcome = "running" /\ deferred' = Append(deferred, i)
      /\ UNCHANGED <<history, batch, ix, log, earliest>>
      /\ UNCHANGED <<nextRound, round, progressed>>
  BY <1>0 DEF Defer, InRound, input, state, index
<1>2. Rising(stable) /\ Rising(deferred) /\ RoundsAreCounted
  BY <1>1 DEF FollowsScan
<1>3. PICK k \in 0..Len(batch) : QueuesAround(k) /\ WaitsAround(k) /\ HasVisited(k)
  BY <1>1 DEF FollowsScan
<1>4. /\ i \in Positions /\ i \in 1..Len(batch) /\ k < i
      /\ Visits(history, batch, Scans(history, batch)[round])[i]
           = Visit(history, batch, Reached(ix, log), batch[i])
      /\ EventAt(i) = history[batch[i]]
  BY <1>0, <1>1, <1>2, <1>3, NextVisit DEF RoundsAreCounted
<1>5. Visit(history, batch, Reached(ix, log), batch[i]) = Reached(ix, log)
  <2> QED BY <1>1, <1>4, VisitCases
<1>6. /\ Rising(stable') /\ Range(stable') \cap dynamic' = {}
      /\ \A j \in Range(stable') \cup dynamic' : i < j
  <2>1. {} \in SUBSET Positions /\ {} \cap Range(stable) = {} /\ \A j \in {} : NextPosition < j
    OBVIOUS
  <2> QED BY <1>0, <1>1, <1>2, <1>3, <2>1, TakeGoesOn DEF QueuesAround, Inv
<1>7. HasVisited(i)'
  BY <1>1, <1>4, <1>5 DEF HasVisited
<1>8. Len(batch) \in Nat /\ Positions = 1..Len(batch) /\ Positions' = Positions
  BY <1>1, InputIsScannable DEF Positions
<1>9. (\A j \in Positions : j <= k => j <= i /\ j < i) /\ i <= i
  BY <1>3, <1>4, <1>8
<1>10. Range(deferred) \cup nextRound \subseteq Positions
  BY DEF Inv, BatchTypeOK, Range
<1>11. /\ deferred \in Seq(Positions) /\ deferred' \in Seq(Positions)
       /\ Len(deferred') = Len(deferred) + 1 /\ Len(deferred) \in Nat
       /\ \A n \in 1..Len(deferred) : deferred'[n] = deferred[n]
       /\ deferred'[Len(deferred) + 1] = i
  BY <1>1, <1>4, AppendProperties DEF Inv, BatchTypeOK
<1>12. /\ Range(deferred) = {deferred[n] : n \in 1..Len(deferred)}
       /\ Range(deferred') = {deferred'[n] : n \in 1..Len(deferred')}
  BY <1>11, RangeEquality
<1>13. Range(deferred') = Range(deferred) \cup {i}
  BY <1>11, <1>12
<1>14. QueuesAround(i)'
  <2>1. i \notin nextRound
    <3>1. ~(i <= k)
      BY <1>3, <1>4, <1>8
    <3> QED BY <1>3, <3>1 DEF QueuesAround
  <2> QED BY <1>1, <1>3, <1>6, <1>9, <1>10, <1>13, <2>1 DEF QueuesAround
<1>15. WaitsAround(i)'
  BY <1>1, <1>3, <1>8, <1>9 DEF WaitsAround
<1>16. RoundsAreCounted'
  BY <1>1, <1>2 DEF RoundsAreCounted
<1>17. Rising(deferred')
  <2> SUFFICES ASSUME NEW m \in 1..Len(deferred'), NEW n \in 1..Len(deferred'), m < n
               PROVE  deferred'[m] < deferred'[n]
    BY DEF Rising
  <2>1. m \in 1..Len(deferred)
    BY <1>11
  <2>2. CASE n \in 1..Len(deferred)
    BY <1>2, <1>11, <2>1, <2>2 DEF Rising
  <2>3. CASE n = Len(deferred) + 1
    <3>1. deferred[m] \in Range(deferred)
      BY <1>12, <2>1
    <3>2. deferred[m] <= k /\ deferred[m] \in Positions
      BY <1>3, <1>10, <3>1 DEF QueuesAround
    <3> QED BY <1>9, <1>11, <2>1, <2>3, <3>2
  <2> QED BY <1>11, <2>2, <2>3
<1>18. i \in 0..Len(batch)'
  BY <1>1, <1>4, <1>8
<1>19. MovesOn
  BY <1>0, <1>1, <1>6 DEF MovesOn
<1> QED BY <1>6, <1>7, <1>14, <1>15, <1>16, <1>17, <1>18, <1>19 DEF FollowsScan

\* An authorized event is applied by the visit too; what it releases behind its
\* position waits for the next scan and what it releases before it does not.
LEMMA ApplyReadyFollows == Inv /\ FollowsScan /\ ApplyReady => FollowsScan' /\ MovesOn
<1> SUFFICES ASSUME Inv, FollowsScan, ApplyReady
             PROVE  FollowsScan' /\ MovesOn
  OBVIOUS
<1>0. PICK i, e : i = NextPosition /\ e = batch[i]
  OBVIOUS
<1> DEFINE children == waiting[e]
           ready    == {j \in children : /\ Unblocked(j)
                                         /\ ~Conflicting(history, batch, batch[j])}
           when(j)  == Larger(earliest[j], ReadyRound(i, j))
           now      == {j \in ready : when(j) = round}
           later    == {j \in ready : when(j) # round}
<1>1. /\ InRound /\ e \notin Applied /\ Authorized(ix, EventAt(i)) /\ outcome = "running"
      /\ ix' = ApplyAuthorized(ix, EventAt(i), e) /\ log' = Append(log, e)
      /\ earliest' = [j \in Positions |-> IF j \in children THEN when(j) ELSE earliest[j]]
      /\ Take(now)
      /\ nextRound' = nextRound \cup later
      /\ progressed' = TRUE
      /\ UNCHANGED <<history, batch, deferred, round>>
  BY <1>0 DEF ApplyReady, InRound, input
<1>2. Rising(stable) /\ Rising(deferred) /\ RoundsAreCounted
  BY <1>1 DEF FollowsScan
<1>3. PICK k \in 0..Len(batch) : QueuesAround(k) /\ WaitsAround(k) /\ HasVisited(k)
  BY <1>1 DEF FollowsScan
<1>4. /\ i \in Positions /\ i \in 1..Len(batch) /\ k < i
      /\ Visits(history, batch, Scans(history, batch)[round])[i]
           = Visit(history, batch, Reached(ix, log), batch[i])
      /\ EventAt(i) = history[batch[i]]
      /\ history[batch[i]].parents \subseteq Listed(log)
      /\ ~Conflicting(history, batch, batch[i])
  BY <1>0, <1>1, <1>2, <1>3, NextVisit DEF RoundsAreCounted
<1>5. Visit(history, batch, Reached(ix, log), e) = Reached(ix', log')
  <2>1. e \notin Listed(log)
    BY <1>1 DEF Applied, Listed
  <2>2. Visit(history, batch, Reached(ix, log), e)
          = Reached(ApplyAuthorized(ix, history[e], e), Append(log, e))
    BY <1>0, <1>1, <1>4, <2>1, VisitCases
  <2> QED BY <1>0, <1>1, <1>4, <2>2
<1>6. Len(batch) \in Nat /\ Positions = 1..Len(batch) /\ Positions' = Positions
      /\ \A j \in Positions : j \in Nat
  BY <1>1, InputIsScannable DEF Positions
<1>7. children \subseteq Positions /\ \A j \in children : j \notin OnQueue
  <2>1. e \in Ids(batch)
    BY <1>0, <1>4 DEF Ids
  <2>2. children = {j \in Positions : e \in EventAt(j).parents}
    BY <1>1, <2>1 DEF Inv, WaitersAreExact
  <2>3. \A j \in children : ~Eligible(j)
    BY <1>1, <2>2 DEF Eligible
  <2> QED BY <2>2, <2>3 DEF Inv, QueuedAreEligible
<1>8. \A j \in Positions : /\ i < j => when(j) = round
                           /\ j <= i => when(j) = round + 1
  <2> SUFFICES ASSUME NEW j \in Positions
               PROVE  /\ i < j => when(j) = round
                      /\ j <= i => when(j) = round + 1
    OBVIOUS
  <2>1. earliest[j] \in Nat /\ round \in Nat /\ i \in Nat /\ j \in Nat /\ k \in Nat
    <3>1. earliest[j] \in Nat /\ round \in Nat
      BY DEF Inv, BatchTypeOK
    <3>2. i \in Nat /\ j \in Nat
      BY <1>4, <1>6
    <3>3. k \in Nat
      BY <1>3, <1>6
    <3> QED BY <3>1, <3>2, <3>3
  <2>2. earliest[j] <= round \/ (earliest[j] = round + 1 /\ j <= k)
    BY <1>3 DEF WaitsAround
  <2> QED BY <1>4, <2>1, <2>2 DEF Larger, ReadyRound
<1> HIDE DEF when
<1>9. /\ now \subseteq children /\ later \subseteq children
      /\ \A j \in now : i < j
      /\ \A j \in later : j <= i
  <2>1. now \subseteq children /\ later \subseteq children
    OBVIOUS
  <2>2. \A j \in Positions : i < j \/ j <= i
    BY <1>4, <1>6
  <2>3. round + 1 # round
    BY DEF Inv, BatchTypeOK
  <2>4. (\A j \in now : when(j) = round) /\ (\A j \in later : when(j) # round)
    OBVIOUS
  <2> HIDE DEF now, later, children
  <2>5. \A j \in now : ~(j <= i)
    <3>1. \A j \in now : j \in Positions
      BY <1>7, <2>1
    <3> QED BY <1>8, <2>3, <2>4, <3>1
  <2>6. \A j \in later : ~(i < j)
    <3>1. \A j \in later : j \in Positions
      BY <1>7, <2>1
    <3> QED BY <1>8, <2>4, <3>1
  <2> QED BY <1>7, <2>1, <2>2, <2>5, <2>6, Zenon
<1> HIDE DEF now, later, ready, children
<1>10. /\ Rising(stable') /\ Range(stable') \cap dynamic' = {}
       /\ \A j \in Range(stable') \cup dynamic' : i < j
  <2>1. now \in SUBSET Positions /\ now \cap Range(stable) = {}
    BY <1>7, <1>9 DEF OnQueue
  <2> QED BY <1>0, <1>1, <1>2, <1>3, <1>9, <2>1, TakeGoesOn DEF QueuesAround, Inv
<1>11. HasVisited(i)'
  BY <1>0, <1>1, <1>4, <1>5 DEF HasVisited
<1>12. \A j \in Positions : j <= k => j <= i
  BY <1>3, <1>4, <1>6
<1>13. Range(deferred) \cup nextRound \subseteq Positions
  BY DEF Inv, BatchTypeOK, Range
<1>14. QueuesAround(i)'
  <2>1. later \cap Range(deferred) = {}
    BY <1>7, <1>9 DEF OnQueue
  <2>2. \A j \in Range(deferred) \cup nextRound : j <= i
    BY <1>3, <1>12, <1>13 DEF QueuesAround
  <2> QED BY <1>1, <1>3, <1>9, <1>10, <2>1, <2>2 DEF QueuesAround
<1>15. WaitsAround(i)'
  <2> SUFFICES ASSUME NEW j \in Positions
               PROVE  earliest'[j] <= round \/ (earliest'[j] = round + 1 /\ j <= i)
    BY <1>1, <1>6 DEF WaitsAround
  <2>1. earliest'[j] = when(j) \/ earliest'[j] = earliest[j]
    BY <1>1
  <2>2. CASE earliest'[j] = earliest[j]
    <3>1. earliest[j] <= round \/ (earliest[j] = round + 1 /\ j <= k)
      BY <1>3 DEF WaitsAround
    <3>2. j <= k => j <= i
      BY <1>12
    <3> DEFINE w == earliest[j]
    <3>3. (w <= round \/ (w = round + 1 /\ j <= k)) /\ earliest'[j] = w
      BY <2>2, <3>1
    <3> HIDE DEF w
    <3> QED BY <3>2, <3>3
  <2>3. CASE earliest'[j] = when(j)
    <3>1. (i < j \/ j <= i) /\ round <= round
      BY <1>4, <1>6 DEF Inv, BatchTypeOK
    <3>2. /\ i < j => when(j) = round
          /\ j <= i => when(j) = round + 1
      BY <1>8
    <3> QED BY <2>3, <3>1, <3>2
  <2> QED BY <2>1, <2>2, <2>3
<1>16. RoundsAreCounted'
  <2>1. e \in EventId /\ log \in Seq(EventId)
    BY <1>0, <1>4 DEF Inv, BatchTypeOK, Positions
  <2>2. Len(log') = Len(log) + 1 /\ Len(log) \in Nat /\ round \in Nat
    BY <1>1, <2>1, AppendProperties DEF Inv, BatchTypeOK
  <2> QED BY <1>1, <1>2, <2>2 DEF RoundsAreCounted
<1>17. i \in 0..Len(batch)' /\ Rising(deferred)'
  BY <1>1, <1>2, <1>4, <1>6 DEF Rising
<1>18. MovesOn
  BY <1>0, <1>1, <1>10 DEF MovesOn
<1> QED BY <1>10, <1>11, <1>14, <1>15, <1>16, <1>17, <1>18 DEF FollowsScan

\* A round that ends with progress stands for a scan, and the next round for the
\* next one.
LEMMA NewRoundFollows == Inv /\ FollowsScan /\ NewRound => FollowsScan'
<1> SUFFICES ASSUME Inv, FollowsScan, NewRound
             PROVE  FollowsScan'
  OBVIOUS
<1>1. /\ RoundOver /\ progressed /\ outcome = "running"
      /\ stable' = deferred /\ dynamic' = nextRound /\ nextRound' = {} /\ deferred' = <<>>
      /\ progressed' = FALSE /\ round' = round + 1
      /\ UNCHANGED <<history, batch, ix, log, earliest>>
  BY DEF NewRound, RoundOver, input, state, index
<1>2. Rising(deferred) /\ RoundsAreCounted
  BY <1>1 DEF FollowsScan
<1>3. PICK k \in 0..Len(batch) : QueuesAround(k) /\ WaitsAround(k) /\ HasVisited(k)
  BY <1>1 DEF FollowsScan
<1>4. /\ round \in 0..Len(batch)
      /\ Scan(history, batch, Scans(history, batch)[round]) = Reached(ix, log)
  BY <1>1, <1>2, <1>3, RoundIsScan DEF RoundsAreCounted
<1>5. /\ Scannable(history, batch) /\ Len(batch) \in Nat /\ Positions = 1..Len(batch)
      /\ Reached(ix, log) \in ScanState /\ Positions' = Positions
  BY <1>1, InputIsScannable DEF Positions
<1>6. round + 1 \in 1..Len(batch) /\ (round + 1) - 1 = round /\ round + 1 <= Len(log)
  <2>1. Len(log) \in Nat /\ Len(log) <= Len(batch) /\ round \in Nat
    BY LogFitsBatch DEF Inv, BatchTypeOK
  <2> QED BY <1>1, <1>2, <1>5, <2>1 DEF RoundsAreCounted
<1>7. Scans(history, batch)[round + 1] = Reached(ix, log)
  <2>1. \A n \in 1..Len(batch) :
            Scans(history, batch)[n] = Scan(history, batch, Scans(history, batch)[n - 1])
    BY <1>5, ScansUnfold
  <2> QED BY <1>4, <1>6, <2>1
<1>8. HasVisited(0)'
  <2>1. Visits(history, batch, Reached(ix, log))[0] = Reached(ix, log)
    BY <1>5, VisitsUnfold
  <2> QED BY <1>1, <1>7, <2>1 DEF HasVisited
<1>9. RoundsAreCounted'
  BY <1>1, <1>6, <1>7 DEF RoundsAreCounted
<1>10. QueuesAround(0)'
  <2>1. Range(deferred) \cup nextRound \subseteq Positions
    BY DEF Inv, BatchTypeOK, Range
  <2>2. \A j \in Positions : 0 < j
    BY <1>5
  <2>3. Range(deferred') = {}
    BY <1>1 DEF Range
  <2> QED BY <1>1, <1>3, <2>1, <2>2, <2>3 DEF QueuesAround
<1>11. WaitsAround(0)'
  <2>1. \A j \in Positions : earliest[j] \in Nat
    BY DEF Inv, BatchTypeOK
  <2>2. round \in Nat
    BY DEF Inv, BatchTypeOK
  <2>3. \A j \in Positions : earliest[j] <= round + 1
    BY <1>3, <2>1, <2>2 DEF WaitsAround
  <2> QED BY <1>1, <1>5, <2>3 DEF WaitsAround
<1>12. Rising(stable') /\ Rising(deferred') /\ 0 \in 0..Len(batch)'
  BY <1>1, <1>2, <1>5 DEF Rising
<1> QED BY <1>8, <1>9, <1>10, <1>11, <1>12 DEF FollowsScan

\* An invalid event stops the scan for good at the position where the call fails.
LEMMA AbortMatches == Inv /\ FollowsScan /\ Abort => MatchesRescan'
<1> SUFFICES ASSUME Inv, FollowsScan, Abort
             PROVE  MatchesRescan'
  OBVIOUS
<1>0. PICK i, e : i = NextPosition /\ e = batch[i]
  OBVIOUS
<1> DEFINE s == Scans(history, batch)[round]
           t == Stopped(ix, log)
<1>1. /\ InRound /\ e \notin Applied /\ Malformed(ix, EventAt(i)) /\ outcome = "running"
      /\ outcome' = "error" /\ UNCHANGED <<history, batch, ix, log>>
  BY <1>0 DEF Abort, InRound, input, state
<1>2. Rising(stable) /\ RoundsAreCounted
  BY <1>1 DEF FollowsScan
<1>3. PICK k \in 0..Len(batch) : QueuesAround(k) /\ WaitsAround(k) /\ HasVisited(k)
  BY <1>1 DEF FollowsScan
<1>4. /\ i \in Positions /\ i \in 1..Len(batch)
      /\ round \in 0..Len(batch) /\ s \in ScanState
      /\ Visits(history, batch, s)[i] = Visit(history, batch, Reached(ix, log), batch[i])
      /\ EventAt(i) = history[batch[i]]
      /\ history[batch[i]].parents \subseteq Listed(log)
      /\ ~Conflicting(history, batch, batch[i])
  BY <1>0, <1>1, <1>2, <1>3, NextVisit DEF RoundsAreCounted
<1>5. Visits(history, batch, s)[i] = t
  <2>1. e \notin Listed(log)
    BY <1>1 DEF Applied, Listed
  <2> HIDE DEF s
  <2> QED BY <1>0, <1>1, <1>4, <2>1, VisitCases
<1>6. Scannable(history, batch) /\ Len(batch) \in Nat
  BY InputIsScannable
<1>7. \A j \in 1..Len(batch) : Visit(history, batch, t, batch[j]) = t
  BY VisitCases
<1> HIDE DEF s, t
<1>8. Scan(history, batch, s) = t /\ t \in ScanState
  <2>1. i \in 0..Len(batch) /\ Len(batch) \in 0..Len(batch) /\ i <= Len(batch)
    BY <1>4, <1>6
  <2>2. Visits(history, batch, s)[Len(batch)] = t
    BY <1>4, <1>5, <1>6, <1>7, <2>1, VisitsPassOver
  <2> QED BY <1>4, <1>6, <2>1, <2>2, VisitsUnfold DEF Scan
<1>9. Scan(history, batch, t) = t
  BY <1>6, <1>7, <1>8, ScanAtRest
<1>10. round + 1 \in 1..Len(batch) /\ round + 1 \in 0..Len(batch) /\ (round + 1) - 1 = round
  <2>1. Len(log) \in Nat /\ Len(log) < Len(batch) /\ round \in Nat
    BY <1>0, <1>1, <1>4, LogFitsBatch DEF Inv, BatchTypeOK
  <2> QED BY <1>2, <1>6, <2>1 DEF RoundsAreCounted
<1>11. Scans(history, batch)[round + 1] = t
  <2>1. \A n \in 1..Len(batch) :
            Scans(history, batch)[n] = Scan(history, batch, Scans(history, batch)[n - 1])
    BY <1>6, ScansUnfold
  <2> QED BY <1>8, <1>10, <2>1 DEF s
<1>12. Rescan(history, batch) = t
  BY <1>6, <1>9, <1>10, <1>11, RescanIsThere
<1>13. t.failed = TRUE /\ t.log = log /\ t.ix = ix
  BY DEF t, Stopped
<1> QED BY <1>1, <1>12, <1>13 DEF MatchesRescan

\* The call returns when another scan would change nothing.
LEMMA FinishMatches == Inv /\ FollowsScan /\ Finish => MatchesRescan'
<1> SUFFICES ASSUME Inv, FollowsScan, Finish
             PROVE  MatchesRescan'
  OBVIOUS
<1> DEFINE t == Reached(ix, log)
<1>1. /\ RoundOver /\ Stop /\ outcome = "running" /\ outcome' = "done"
      /\ UNCHANGED <<history, batch, ix, log>>
  BY DEF Finish, RoundOver, input, state
<1>2. RoundsAreCounted
  BY <1>1 DEF FollowsScan
<1>3. PICK k \in 0..Len(batch) : QueuesAround(k) /\ WaitsAround(k) /\ HasVisited(k)
  BY <1>1 DEF FollowsScan
<1>4. round \in 0..Len(batch) /\ Scan(history, batch, Scans(history, batch)[round]) = t
  BY <1>1, <1>2, <1>3, RoundIsScan DEF RoundsAreCounted
<1>5. /\ Scannable(history, batch) /\ Len(batch) \in Nat /\ Positions = 1..Len(batch)
      /\ t \in ScanState
  BY InputIsScannable
<1> SUFFICES Rescan(history, batch) = t
  <2>1. t.failed = FALSE /\ t.log = log /\ t.ix = ix
    BY DEF Reached
  <2> HIDE DEF t
  <2> QED BY <1>1, <2>1 DEF MatchesRescan
<1>6. CASE ~progressed
  <2>1. Scans(history, batch)[round] = t
    BY <1>2, <1>6 DEF RoundsAreCounted
  <2> HIDE DEF t
  <2> QED BY <1>4, <1>5, <2>1, RescanIsThere
<1>7. CASE progressed
  <2>1. OnQueue = {}
    BY <1>1, <1>7 DEF Stop, MoreToDo, RoundOver, OnQueue, Range
  <2>2. Scan(history, batch, t) = t
    <3>1. \A j \in 1..Len(batch) : Visit(history, batch, t, batch[j]) = t
      BY <1>5, <2>1, UnqueuedIsPassedOver
    <3> HIDE DEF t
    <3> QED BY <1>5, <3>1, ScanAtRest
  <2>3. round + 1 \in 1..Len(batch) /\ round + 1 \in 0..Len(batch) /\ (round + 1) - 1 = round
    <3>1. Len(log) \in Nat /\ Len(log) <= Len(batch) /\ round \in Nat
      BY LogFitsBatch DEF Inv, BatchTypeOK
    <3> QED BY <1>2, <1>5, <1>7, <3>1 DEF RoundsAreCounted
  <2>4. Scans(history, batch)[round + 1] = t
    <3>1. \A n \in 1..Len(batch) :
              Scans(history, batch)[n] = Scan(history, batch, Scans(history, batch)[n - 1])
      BY <1>5, ScansUnfold
    <3> HIDE DEF t
    <3> QED BY <1>4, <2>3, <3>1
  <2> HIDE DEF t
  <2> QED BY <1>5, <2>2, <2>3, <2>4, RescanIsThere
<1> QED BY <1>6, <1>7 DEF Inv, BatchTypeOK

-----------------------------------------------------------------------------
(* The theorems.                                                           *)

\* The invariant of the rounds: each of them follows one scan of the batch.
RescanInv == Inv /\ FollowsScan /\ MatchesRescan

\* RescanInv holds in every state of apply_batch.
LEMMA RescanInvariant == Spec => []RescanInv
<1>1. Init => RescanInv
  <2>1. Init => MatchesRescan
    BY DEF Init, MatchesRescan
  <2> QED BY <2>1, InitInv, InitFollows DEF RescanInv
<1>2. RescanInv /\ Inv' /\ [Next]_vars => RescanInv'
  <2> SUFFICES ASSUME Inv, FollowsScan, MatchesRescan, Inv', [Next]_vars
               PROVE  FollowsScan' /\ MatchesRescan'
    BY DEF RescanInv
  <2>1. CASE SkipApplied
    <3>1. outcome' = "running"
      BY <2>1 DEF SkipApplied, InRound
    <3> QED BY <2>1, <3>1, SkipAppliedFollows DEF MatchesRescan
  <2>2. CASE ApplyReady
    <3>1. outcome' = "running"
      BY <2>2 DEF ApplyReady, InRound
    <3> QED BY <2>2, <3>1, ApplyReadyFollows DEF MatchesRescan
  <2>3. CASE Defer
    <3>1. outcome' = "running"
      BY <2>3 DEF Defer, InRound
    <3> QED BY <2>3, <3>1, DeferFollows DEF MatchesRescan
  <2>4. CASE Abort
    <3>1. outcome' = "error"
      BY <2>4 DEF Abort
    <3> QED BY <2>4, <3>1, AbortMatches DEF FollowsScan
  <2>5. CASE NewRound
    <3>1. outcome' = "running"
      BY <2>5 DEF NewRound, RoundOver
    <3> QED BY <2>5, <3>1, NewRoundFollows DEF MatchesRescan
  <2>6. CASE Finish
    <3>1. outcome' = "done"
      BY <2>6 DEF Finish
    <3> QED BY <2>6, <3>1, FinishMatches DEF FollowsScan
  <2>7. CASE UNCHANGED vars
    <3>1. /\ UNCHANGED <<history, batch, ix, log, earliest>>
          /\ UNCHANGED <<stable, dynamic, nextRound, deferred, round, progressed, outcome>>
      BY <2>7 DEF vars, input, state, index
    <3>2. MatchesRescan'
      BY <3>1 DEF MatchesRescan
    <3>3. RoundsAreCounted' <=> RoundsAreCounted
      BY <3>1 DEF RoundsAreCounted
    <3>4. Rising(stable') /\ Rising(deferred') <=> Rising(stable) /\ Rising(deferred)
      BY <3>1
    <3>5. ASSUME NEW k
          PROVE  /\ QueuesAround(k)' <=> QueuesAround(k)
                 /\ WaitsAround(k)' <=> WaitsAround(k)
                 /\ HasVisited(k)' <=> HasVisited(k)
      BY <3>1 DEF QueuesAround, WaitsAround, HasVisited, Positions
    <3> QED BY <3>1, <3>2, <3>3, <3>4, <3>5 DEF FollowsScan
  <2> QED BY <2>1, <2>2, <2>3, <2>4, <2>5, <2>6, <2>7 DEF Next
<1> QED BY <1>1, <1>2, Invariant, PTL DEF Spec

\* The indexed algorithm of apply_batch, with its counters, heaps and deferred
\* events, is equivalent to rescanning the batch: same events in the same order,
\* same index, same failures, for every history and every batch.
THEOREM EquivalentToRescanning == Spec => []MatchesRescan
<1>1. RescanInv => MatchesRescan
  BY DEF RescanInv
<1> QED BY <1>1, RescanInvariant, PTL

\* While the call goes on, a round visits each position at most once and in input
\* order, though events that it applies put further positions on its heap; a new
\* round starts only after one that applied an event, and there are no more
\* rounds that apply one than positions: why the call returns, and after at most
\* quadratically many visits.
WorkIsBounded ==
    /\ [](outcome = "running" => round <= Len(batch))
    /\ [][InRound /\ outcome' = "running" => MovesOn]_vars
    /\ [][round' # round => round' = round + 1 /\ progressed /\ ~progressed']_vars

\* The work of apply_batch is bounded, for every history and every batch.
THEOREM CallsDoBoundedWork == Spec => WorkIsBounded
<1>1. RescanInv => (outcome = "running" => round <= Len(batch))
  <2> SUFFICES ASSUME Inv, FollowsScan, outcome = "running"
               PROVE  round <= Len(batch)
    BY DEF RescanInv
  <2>1. round <= Len(log) /\ round \in Nat
    BY DEF FollowsScan, RoundsAreCounted, Inv, BatchTypeOK
  <2> QED BY <2>1, LogFitsBatch
<1>2. RescanInv /\ [Next]_vars => [InRound /\ outcome' = "running" => MovesOn]_vars
  <2> SUFFICES ASSUME Inv, FollowsScan, Next, InRound, outcome' = "running"
               PROVE  MovesOn
    BY DEF RescanInv
  <2>1. ~NewRound /\ ~Finish
    BY DEF NewRound, Finish, RoundOver, InRound
  <2>2. ~Abort
    BY DEF Abort
  <2> QED BY <2>1, <2>2, SkipAppliedFollows, DeferFollows, ApplyReadyFollows DEF Next
<1>3. [Next]_vars => [round' # round => round' = round + 1 /\ progressed /\ ~progressed']_vars
  <2> SUFFICES ASSUME Next, round' # round
               PROVE  round' = round + 1 /\ progressed /\ ~progressed'
    OBVIOUS
  <2> QED BY DEF Next, SkipApplied, ApplyReady, Defer, Abort, NewRound, Finish
<1> QED BY <1>1, <1>2, <1>3, RescanInvariant, PTL DEF Spec, WorkIsBounded

=============================================================================
