-------------------------- MODULE SyncSessionProofs --------------------------
(***************************************************************************)
(* For every workspace and every pair of devices: the types of SyncSession,*)
(* that a skipped scan of attachments misses nothing, that a checkpoint    *)
(* covers its work, that a session delivers what it made in it if the      *)
(* histories of the group remove nobody, and that every gap is a refusal   *)
(* if nobody who signed a removal is removed.                              *)
(***************************************************************************)
EXTENDS SyncSession, SelectionProofs

-----------------------------------------------------------------------------
(* The invariants.                                                         *)

ViewState == [applied : SUBSET Event, members : SUBSET (Device \cup Others)]

Pair == (SUBSET Event) \X (SUBSET Event)

SessionState ==
    [phase : Phase, remote : SUBSET Event, local : SUBSET Event, todo : Seq(Event),
     blobs : SUBSET Blob, missing : SUBSET Blob, fetched : BOOLEAN, full : BOOLEAN,
     made : SUBSET CatchUp, followup : BOOLEAN, snapshot : Pair \cup {<<>>}]

StoresOK == store \in [Device -> SUBSET Event] /\ blobs \in [Device -> SUBSET Blob]

\* A session that stores events one by one has events left to store.
SessionOK(s) ==
    /\ s \in SessionState
    /\ s.phase = "idle" => s = NoSession
    /\ s.phase \in {"publish", "append"} <=> s.todo # <<>>

SessionsOK == session \in [Device -> SessionState] /\ \A d \in Device : SessionOK(session[d])

LedgersOK ==
    /\ inbound \in [Device -> [recent : 0..RecentSessions, pending : SUBSET Blob]]
    /\ outbound \in [Device -> [recent : 0..RecentSessions, inventory : SUBSET Event]]
    /\ open \in [Device -> SUBSET Blob]

OpenMlsOK ==
    secret \in [Device -> SUBSET Event] /\ checkpoint \in [Device -> Pair \cup {<<>>}]

TypeInv == StoresOK /\ SessionsOK /\ LedgersOK /\ OpenMlsOK /\ situation \in Scenario

\* An event that a device signed is in its store, with its attachments.
OwnAtHome == \A d, p \in Device : \A e \in store[p] : Author[e] = d => e \in store[d]

OwnFilesAtHome ==
    \A d \in Device : \A e \in store[d] : Author[e] = d => Attached[e] \subseteq blobs[d]

\* The attachments of the device's own events in a history.
OwnFiles(d, S) == AttachmentBlobHashes({e \in Materialized(S) : Author[e] = d})

\* What catching up has to do, by a history and the secrets.
DueIn(d, S) ==
    IF d \in Members(S)
    THEN {e \in CatchUp \ S : Author[e] = d /\ Parents[e] \subseteq Materialized(S)}
    ELSE {}

JoinIn(d, S, K) == (Welcomes[d] \cap Materialized(S)) \ K

\* What a session s of d has read is still in the stores.
ReadsAreKept(d, s, stored) ==
    /\ s.remote \subseteq stored[Peer(d)] /\ s.local \subseteq stored[d]
    /\ s.phase = "publish" => Range(s.todo) \subseteq stored[d]
    /\ s.phase = "append" => Range(s.todo) \subseteq stored[Peer(d)]

\* How far the own attachments of the plan's inventory have come.
UploadIsAt(d, s, complete) ==
    /\ s.phase \in {"publish", "upload"} => OwnFiles(d, s.local) \subseteq s.blobs
    /\ s.phase = "put" => OwnFiles(d, s.local) \subseteq s.blobs \cup complete[Peer(d)]
    /\ s.phase = "record" => OwnFiles(d, s.local) \subseteq complete[Peer(d)]

\* How far the catching up has come: when the pass has changed no secret and
\* nobody else has stored an event, there was nothing to do.
CatchUpIsAt(d, s, S, K) ==
    /\ s.phase = "catchup" => s.snapshot \in Pair /\ s.snapshot[1] \subseteq S /\ s.snapshot[2] = K
    /\ s.phase = "checkpoint" =>
        /\ s.snapshot \in Pair /\ s.snapshot[1] \cup s.made \subseteq S
        /\ s.snapshot[2] = K /\ S = s.snapshot[1] \cup s.made =>
                DueIn(d, S) = {} /\ JoinIn(d, S, K) = {}

SessionSafe(d, s) ==
    /\ ReadsAreKept(d, s, store) /\ UploadIsAt(d, s, blobs)
    /\ CatchUpIsAt(d, s, store[d], secret[d])

\* The records of earlier sessions.
RecordsHold(d) ==
    /\ outbound[d].recent # 0 => OwnFiles(d, outbound[d].inventory) \subseteq blobs[Peer(d)]
    /\ secret[d] \subseteq store[d]
    /\ checkpoint[d] # <<>> => /\ DueIn(d, checkpoint[d][1]) = {}
                               /\ JoinIn(d, checkpoint[d][1], checkpoint[d][2]) = {}

SyncInv ==
    /\ OwnAtHome /\ OwnFilesAtHome
    /\ \A d \in Device : SessionSafe(d, session[d]) /\ RecordsHold(d)

\* No event of a history removes a member, where devices join the group.
RemovesNobody(S) == \A e \in S : Removes[e] = {}

GroupsLoseNobody ==
    \A s \in Scenarios : s.group =>
        RemovesNobody(s.writes) /\ \A d \in Device : RemovesNobody(s.stored[d])

HistoriesLoseNobody ==
    situation.group => RemovesNobody(situation.writes) /\ \A d \in Device : RemovesNobody(store[d])

\* What became of the events that catching up made in a session s of d.
MadeIsAt(d, s, stored, group) ==
    /\ s.phase \in {"finish", "catchup"} \/ s.made # {} => group
    /\ s.phase \in {"plan", "pull", "append", "finish", "catchup"} => s.made = {}
    /\ s.phase \in {"checkpoint", "blobs", "fetch", "followup"} =>
        s.made \cap s.local = {} /\ s.made \subseteq Materialized(stored[d])
    /\ s.phase \in {"publish", "upload", "put", "record"} =>
        IF s.followup THEN s.made \subseteq Range(s.todo) \cup stored[Peer(d)] ELSE s.made = {}
    /\ s.phase = "retry" => s.made \subseteq stored[Peer(d)]

MadeInv ==
    /\ HistoriesLoseNobody
    /\ \A d \in Device : MadeIsAt(d, session[d], store, situation.group)

-----------------------------------------------------------------------------
(* The two devices.                                                        *)

\* Each device has the other one for its peer.
LEMMA Peers ==
    ASSUME NEW d \in Device
    PROVE  /\ Peer(d) \in Device /\ Peer(d) # d /\ Peer(Peer(d)) = d
           /\ \A u \in Device : u = d \/ u = Peer(d)
<1>1. PICK p, q \in Device : p # q /\ Device = {p, q}
  BY DevicesAssumption
<1>2. \A u \in Device : Peer(u) \in Device /\ Peer(u) # u
  BY <1>1 DEF Peer
<1> QED BY <1>1, <1>2

-----------------------------------------------------------------------------
(* What a history amounts to.                                              *)

\* The views after each place of the order.
PrefixViews(f, S) ==
    /\ f \in [0..Len(Order) -> ViewState] /\ f[0] = Nothing
    /\ \A n \in 1..Len(Order) :
            f[n] = IF Order[n] \in S THEN Apply(f[n - 1], Order[n]) ELSE f[n - 1]

\* The order has its places.
LEMMA Places ==
    /\ Len(Order) \in Nat /\ DOMAIN Order = 1..Len(Order)
    /\ \A n \in 1..Len(Order) : Order[n] \in Event
    /\ \A e \in Event : \E n \in 1..Len(Order) : Order[n] = e
<1>1. Order \in Seq(Event) /\ Range(Order) = Event
  BY OrderAssumption
<1>2. Len(Order) \in Nat /\ DOMAIN Order = 1..Len(Order)
  BY <1>1
<1> QED BY <1>1, <1>2 DEF Range

\* One event is applied to a view.
LEMMA ApplyView ==
    ASSUME NEW v \in ViewState, NEW e \in Event
    PROVE  /\ Apply(v, e) \in ViewState
           /\ v.applied \subseteq Apply(v, e).applied
           /\ \A x : x \in Apply(v, e).applied <=>
                \/ x \in v.applied
                \/ x = e /\ Parents[e] \subseteq v.applied /\ Allowed(v.members, e)
           /\ Removes[e] = {} => Apply(v, e).members = v.members
<1> DEFINE may == Parents[e] \subseteq v.applied /\ Allowed(v.members, e)
<1>1. CASE may
  <2>1. Apply(v, e) = [applied |-> v.applied \cup {e}, members |-> v.members \ Removes[e]]
    BY <1>1 DEF Apply
  <2> QED BY <1>1, <2>1 DEF ViewState
<1>2. CASE ~may
  BY <1>2 DEF Apply
<1> QED BY <1>1, <1>2

\* The recursion of View has a solution, so that its equation can be used.
LEMMA ViewUnfolds ==
    ASSUME NEW S \in SUBSET Event
    PROVE  \E f : PrefixViews(f, S) /\ View[S] = f[Len(Order)]
<1> DEFINE N == Len(Order)
           G(f, n) == IF n = 0 THEN Nothing
                      ELSE IF Order[n] \in S THEN Apply(f[n - 1], Order[n])
                      ELSE f[n - 1]
           step == [x \in ViewState \X (1..N) |->
                      IF Order[x[2]] \in S THEN Apply(x[1], Order[x[2]]) ELSE x[1]]
<1>1. N \in Nat /\ \A n \in 1..N : Order[n] \in Event
  BY Places
<1>2. Nothing \in ViewState
  BY DEF Nothing, ViewState
<1>3. step \in StepsIn(ViewState, N)
  BY <1>1, ApplyView DEF StepsIn
<1>4. \E f : f = [n \in 0..N |-> G(f, n)]
  <2>1. PICK f : IsRun(f, ViewState, N, Nothing, step)
    <3>1. N \in Nat
      BY <1>1
    <3> HIDE DEF step, N
    <3> QED BY <1>2, <1>3, <3>1, RecursionHasASolution
  <2>2. f \in [0..N -> ViewState] /\ f[0] = Nothing
    BY <2>1 DEF IsRun
  <2>3. ASSUME NEW n \in 1..N
        PROVE  f[n] = IF Order[n] \in S THEN Apply(f[n - 1], Order[n]) ELSE f[n - 1]
    <3>1. n - 1 \in 0..N
      BY <1>1
    <3>2. f[n - 1] \in ViewState
      BY <2>2, <3>1
    <3>3. \A v \in ViewState :
              step[<<v, n>>] = IF Order[n] \in S THEN Apply(v, Order[n]) ELSE v
      OBVIOUS
    <3> HIDE DEF step
    <3>4. f[n] = step[<<f[n - 1], n>>]
      BY <2>1 DEF IsRun
    <3> QED BY <3>2, <3>3, <3>4
  <2>4. \A n \in 0..N : f[n] = G(f, n)
    <3>1. \A n \in 0..N : n # 0 => n \in 1..N
      BY <1>1
    <3> QED BY <2>2, <2>3, <3>1
  <2> HIDE DEF G, N
  <2>5. f = [n \in 0..N |-> f[n]]
    BY <2>2
  <2>6. f = [n \in 0..N |-> G(f, n)]
    BY <2>4, <2>5
  <2> QED BY <2>6
<1> DEFINE upto[n \in 0..Len(Order)] ==
              IF n = 0 THEN Nothing
              ELSE IF Order[n] \in S THEN Apply(upto[n - 1], Order[n])
              ELSE upto[n - 1]
<1>5. upto = [n \in 0..N |-> G(upto, n)]
  BY <1>4, Zenon
<1>6. View[S] = upto[N]
  BY Zenon DEF View
<1> HIDE DEF upto
<1>7. /\ upto[0] = Nothing /\ DOMAIN upto = 0..N /\ upto = [n \in 0..N |-> upto[n]]
      /\ \A n \in 1..N :
            upto[n] = IF Order[n] \in S THEN Apply(upto[n - 1], Order[n]) ELSE upto[n - 1]
  <2>1. \A n \in 0..N : upto[n] = G(upto, n)
    <3>1. \A h : h = [n \in 0..N |-> G(upto, n)] => \A n \in 0..N : h[n] = G(upto, n)
      OBVIOUS
    <3> HIDE DEF G
    <3> QED BY <1>5, <3>1
  <2>2. DOMAIN upto = 0..N /\ upto = [n \in 0..N |-> upto[n]]
    <3> HIDE DEF G
    <3> QED BY <1>5
  <2>3. 0 \in 0..N /\ \A n \in 1..N : n \in 0..N /\ n # 0
    BY <1>1
  <2> QED BY <2>1, <2>2, <2>3
<1>8. \A n \in 0..N : upto[n] \in ViewState
  <2> DEFINE T == {n \in Nat : n <= N => upto[n] \in ViewState}
  <2>1. 0 \in T
    BY <1>2, <1>7
  <2>2. ASSUME NEW n \in T
        PROVE  n + 1 \in T
    <3> SUFFICES ASSUME n + 1 <= N
                 PROVE  upto[n + 1] \in ViewState
      OBVIOUS
    <3>1. upto[n] \in ViewState /\ n + 1 \in 1..N /\ (n + 1) - 1 = n
      BY <1>1
    <3>2. upto[n + 1] = IF Order[n + 1] \in S THEN Apply(upto[n], Order[n + 1]) ELSE upto[n]
      BY <1>7, <3>1
    <3> HIDE DEF T, N
    <3> QED BY <1>1, <3>1, <3>2, ApplyView
  <2>3. T \in SUBSET Nat
    OBVIOUS
  <2> HIDE DEF T
  <2>4. T = Nat
    BY <2>1, <2>2, <2>3, NatSetInduction
  <2> QED BY <1>1, <2>4 DEF T
<1>9. PrefixViews(upto, S)
  BY <1>7, <1>8 DEF PrefixViews
<1> QED BY <1>6, <1>9

\* When an event is applied: at its own place, by the view up to there.
LEMMA AppliedAtItsPlace ==
    ASSUME NEW S \in SUBSET Event, NEW f, PrefixViews(f, S), NEW n \in 0..Len(Order),
           NEW k \in 1..Len(Order)
    PROVE  Order[k] \in f[n].applied <=>
                /\ k <= n /\ Order[k] \in S
                /\ Parents[Order[k]] \subseteq f[k - 1].applied
                /\ Allowed(f[k - 1].members, Order[k])
<1> DEFINE N == Len(Order)
           May(j) == /\ Order[j] \in S
                     /\ Parents[Order[j]] \subseteq f[j - 1].applied
                     /\ Allowed(f[j - 1].members, Order[j])
           T == {m \in Nat : m <= N =>
                    \A j \in 1..N : Order[j] \in f[m].applied <=> j <= m /\ May(j)}
<1>1. N \in Nat /\ \A j \in 1..N : Order[j] \in Event
  BY Places
<1>2. 0 \in T
  <2>1. f[0].applied = {}
    BY DEF PrefixViews, Nothing
  <2>2. \A j \in 1..N : ~(j <= 0)
    BY <1>1
  <2> QED BY <2>1, <2>2
<1>3. ASSUME NEW m \in T
      PROVE  m + 1 \in T
  <2> SUFFICES ASSUME m + 1 <= N, NEW j \in 1..N
               PROVE  Order[j] \in f[m + 1].applied <=> j <= m + 1 /\ May(j)
    OBVIOUS
  <2>1. m \in Nat /\ m \in 0..N /\ m + 1 \in 1..N /\ (m + 1) - 1 = m /\ j \in Nat
    BY <1>1
  <2>2. Order[j] \in f[m].applied <=> j <= m /\ May(j)
    BY <2>1
  <2>3. f[m + 1] = IF Order[m + 1] \in S THEN Apply(f[m], Order[m + 1]) ELSE f[m]
    BY <2>1 DEF PrefixViews
  <2>4. f[m] \in ViewState /\ Order[m + 1] \in Event
    BY <1>1, <2>1 DEF PrefixViews
  <2>5. May(m + 1) <=> /\ Order[m + 1] \in S
                       /\ Parents[Order[m + 1]] \subseteq f[m].applied
                       /\ Allowed(f[m].members, Order[m + 1])
    BY <2>1
  <2> HIDE DEF May, T, N
  <2>6. Order[j] \in f[m + 1].applied <=>
            Order[j] \in f[m].applied \/ (Order[j] = Order[m + 1] /\ May(m + 1))
    <3>1. CASE Order[m + 1] \in S
      BY <2>3, <2>4, <2>5, <3>1, ApplyView
    <3>2. CASE Order[m + 1] \notin S
      BY <2>3, <2>5, <3>2
    <3> QED BY <3>1, <3>2
  <2>7. Order[j] = Order[m + 1] => j = m + 1
    BY <2>1, OrderAssumption DEF N
  <2>8. j <= m + 1 <=> j <= m \/ j = m + 1
    BY <2>1
  <2> QED BY <2>2, <2>6, <2>7, <2>8
<1>4. T \in SUBSET Nat
  OBVIOUS
<1> HIDE DEF T
<1>5. T = Nat
  BY <1>2, <1>3, <1>4, NatSetInduction
<1>6. n \in T /\ n <= N
  BY <1>1, <1>5
<1> QED BY <1>6 DEF T

\* Only stored events are materialized, and only members are members.
LEMMA MaterializedIsStored ==
    ASSUME NEW S \in SUBSET Event
    PROVE  /\ Materialized(S) \subseteq S /\ Materialized(S) \in SUBSET Event
           /\ Members(S) \subseteq Device \cup Others
<1>1. PICK f : PrefixViews(f, S) /\ View[S] = f[Len(Order)]
  BY ViewUnfolds
<1>2. Len(Order) \in 0..Len(Order)
  BY Places
<1>3. View[S] \in ViewState
  BY <1>1, <1>2 DEF PrefixViews
<1>4. ASSUME NEW e \in Materialized(S)
      PROVE  e \in S
  <2>1. e \in Event /\ e \in f[Len(Order)].applied
    BY <1>1, <1>3, <1>4 DEF Materialized, ViewState
  <2>2. PICK k \in 1..Len(Order) : Order[k] = e
    BY <2>1, Places
  <2>3. Order[k] \in f[Len(Order)].applied
    BY <2>1, <2>2
  <2>4. Order[k] \in S
    BY <1>1, <1>2, <2>3, AppliedAtItsPlace
  <2> QED BY <2>2, <2>4
<1> QED BY <1>3, <1>4 DEF Materialized, Members, ViewState

\* A history that removes nobody keeps everybody.
LEMMA EverybodyStays ==
    ASSUME NEW S \in SUBSET Event, RemovesNobody(S), NEW f, PrefixViews(f, S),
           NEW n \in 0..Len(Order)
    PROVE  f[n].members = Device \cup Others
<1> DEFINE N == Len(Order)
           T == {m \in Nat : m <= N => f[m].members = Device \cup Others}
<1>1. N \in Nat /\ \A j \in 1..N : Order[j] \in Event
  BY Places
<1>2. 0 \in T
  BY DEF PrefixViews, Nothing
<1>3. ASSUME NEW m \in T
      PROVE  m + 1 \in T
  <2> SUFFICES ASSUME m + 1 <= N
               PROVE  f[m + 1].members = Device \cup Others
    OBVIOUS
  <2>1. m \in Nat /\ m \in 0..N /\ m + 1 \in 1..N /\ (m + 1) - 1 = m
    BY <1>1
  <2>2. f[m].members = Device \cup Others
    BY <2>1
  <2>3. f[m + 1] = IF Order[m + 1] \in S THEN Apply(f[m], Order[m + 1]) ELSE f[m]
    BY <2>1 DEF PrefixViews
  <2>4. f[m] \in ViewState /\ Order[m + 1] \in Event
    BY <1>1, <2>1 DEF PrefixViews
  <2>5. Order[m + 1] \in S => Removes[Order[m + 1]] = {}
    BY DEF RemovesNobody
  <2> HIDE DEF T, N
  <2> QED BY <2>2, <2>3, <2>4, <2>5, ApplyView
<1>4. T \in SUBSET Nat
  OBVIOUS
<1> HIDE DEF T
<1>5. T = Nat
  BY <1>2, <1>3, <1>4, NatSetInduction
<1> QED BY <1>1, <1>5 DEF T

\* Without removals, an event is materialized if it is stored and its parents
\* are materialized.
LEMMA MaterializedWithoutRemovals ==
    ASSUME NEW S \in SUBSET Event, RemovesNobody(S), NEW e \in Event
    PROVE  e \in Materialized(S) <=> e \in S /\ Parents[e] \subseteq Materialized(S)
<1> DEFINE N == Len(Order)
<1>1. PICK f : PrefixViews(f, S) /\ View[S] = f[N]
  BY ViewUnfolds
<1>2. N \in Nat /\ N \in 0..N /\ \A p \in Event : \E j \in 1..N : Order[j] = p
  BY Places
<1>3. PICK k \in 1..N : Order[k] = e
  BY <1>2
<1>4. Materialized(S) = f[N].applied
  BY <1>1 DEF Materialized
<1>5. k <= N /\ k - 1 \in 0..N /\ k \in Nat
  BY <1>2
<1>6. Allowed(f[k - 1].members, e)
  <2>1. f[k - 1].members = Device \cup Others
    BY <1>1, <1>5, EverybodyStays
  <2> QED BY <2>1, DevicesAssumption, EventsAssumption DEF Allowed
<1>7. e \in f[N].applied <=> e \in S /\ Parents[e] \subseteq f[k - 1].applied
  BY <1>1, <1>2, <1>3, <1>5, <1>6, AppliedAtItsPlace
<1>8. \A p \in Parents[e] : p \in f[k - 1].applied <=> p \in f[N].applied
  <2> SUFFICES ASSUME NEW p \in Parents[e]
               PROVE  p \in f[k - 1].applied <=> p \in f[N].applied
    OBVIOUS
  <2>1. p \in Event
    BY EventsAssumption
  <2>2. PICK j \in 1..N : Order[j] = p
    BY <1>2, <2>1
  <2>3. j < k
    BY <1>3, <2>2, OrderAssumption
  <2>4. j <= k - 1 /\ j <= N
    BY <1>2, <1>5, <2>3
  <2> DEFINE may == /\ Order[j] \in S
                    /\ Parents[Order[j]] \subseteq f[j - 1].applied
                    /\ Allowed(f[j - 1].members, Order[j])
  <2>5. Order[j] \in f[k - 1].applied <=> j <= k - 1 /\ may
    <3>1. \A n \in 0..N : Order[j] \in f[n].applied <=> j <= n /\ may
      BY <1>1, AppliedAtItsPlace
    <3> HIDE DEF may
    <3> QED BY <1>5, <3>1
  <2>6. Order[j] \in f[N].applied <=> j <= N /\ may
    BY <1>1, <1>2, AppliedAtItsPlace
  <2> HIDE DEF may
  <2> QED BY <2>2, <2>4, <2>5, <2>6
<1> QED BY <1>4, <1>7, <1>8

\* So a longer history materializes what a shorter one did.
LEMMA MaterializedGrows ==
    ASSUME NEW S \in SUBSET Event, NEW R \in SUBSET Event, S \subseteq R, RemovesNobody(R)
    PROVE  Materialized(S) \subseteq Materialized(R)
<1> DEFINE N == Len(Order)
           T == {m \in Nat : \A k \in 1..N :
                    k <= m /\ Order[k] \in Materialized(S) => Order[k] \in Materialized(R)}
<1>1. N \in Nat /\ \A j \in 1..N : Order[j] \in Event
  BY Places
<1>2. RemovesNobody(S)
  BY DEF RemovesNobody
<1>3. 0 \in T
  BY <1>1
<1>4. ASSUME NEW m \in T
      PROVE  m + 1 \in T
  <2> SUFFICES ASSUME NEW k \in 1..N, k <= m + 1, Order[k] \in Materialized(S)
               PROVE  Order[k] \in Materialized(R)
    OBVIOUS
  <2>1. m \in Nat /\ k \in Nat /\ Order[k] \in Event
    BY <1>1
  <2>2. Order[k] \in S /\ Parents[Order[k]] \subseteq Materialized(S)
    BY <1>2, <2>1, MaterializedWithoutRemovals
  <2>3. ASSUME NEW p \in Parents[Order[k]]
        PROVE  p \in Materialized(R)
    <3>1. p \in Event /\ p \in Materialized(S)
      BY <2>1, <2>2, EventsAssumption
    <3>2. PICK j \in 1..N : Order[j] = p
      BY <3>1, Places
    <3>3. j < k
      BY <3>2, OrderAssumption
    <3>4. j <= m
      BY <1>1, <2>1, <3>3
    <3> QED BY <3>1, <3>2, <3>4
  <2> HIDE DEF T
  <2> QED BY <2>1, <2>2, <2>3, MaterializedWithoutRemovals
<1>5. T \in SUBSET Nat
  OBVIOUS
<1> HIDE DEF T
<1>6. T = Nat
  BY <1>3, <1>4, <1>5, NatSetInduction
<1>7. ASSUME NEW e \in Materialized(S)
      PROVE  e \in Materialized(R)
  <2>1. e \in Event
    BY MaterializedIsStored
  <2>2. PICK k \in 1..N : Order[k] = e
    BY <2>1, Places
  <2>3. N \in T /\ k <= N
    BY <1>1, <1>6
  <2> QED BY <2>2, <2>3 DEF T
<1> QED BY <1>7

-----------------------------------------------------------------------------
(* Lists of events.                                                        *)

\* A list is empty if it has no elements.
LEMMA EmptyList ==
    ASSUME NEW X, NEW s \in Seq(X)
    PROVE  Range(s) \subseteq X /\ (s = <<>> <=> Range(s) = {})
<1>1. Len(s) \in Nat /\ DOMAIN s = 1..Len(s) /\ \A k \in 1..Len(s) : s[k] \in X
  OBVIOUS
<1>2. s # <<>> => 1 \in DOMAIN s
  BY <1>1
<1>3. s = <<>> => DOMAIN s = {}
  BY <1>1
<1> QED BY <1>1, <1>2, <1>3 DEF Range

\* The order lists every event of a set.
LEMMA ListedInOrder ==
    ASSUME NEW S \in SUBSET Event
    PROVE  InOrder(S) \in Seq(Event) /\ Range(InOrder(S)) = S
<1>1. Kept(Order, S) \in Seq(Event) /\ Range(Kept(Order, S)) = Range(Order) \cap S
  BY KeptRange, OrderAssumption
<1> QED BY <1>1, OrderAssumption DEF InOrder

\* Fetched events are stored in some order, each of them.
LEMMA AppendOrderLists ==
    ASSUME NEW S \in SUBSET Event, NEW fetched \in SUBSET Event
    PROVE  /\ AppendOrder(S, fetched) \in Seq(Event)
           /\ Range(AppendOrder(S, fetched)) = fetched
<1> DEFINE applied == fetched \cap Materialized(S \cup fetched)
           s1 == InOrder(applied)
           s2 == InOrder(fetched \ applied)
<1>1. /\ s1 \in Seq(Event) /\ Range(s1) = applied
      /\ s2 \in Seq(Event) /\ Range(s2) = fetched \ applied
  BY ListedInOrder
<1>2. AppendOrder(S, fetched) = s1 \o s2
  BY DEF AppendOrder
<1>3. applied \cup (fetched \ applied) = fetched
  OBVIOUS
<1> HIDE DEF s1, s2, applied
<1>4. s1 \o s2 \in Seq(Event) /\ Range(s1 \o s2) = Range(s1) \cup Range(s2)
  BY <1>1, RangeConcatenation, ConcatProperties
<1> QED BY <1>1, <1>2, <1>3, <1>4

\* A list is cut in two.
LEMMA CutInTwo ==
    ASSUME NEW X, NEW s \in Seq(X), NEW m \in 0..Len(s)
    PROVE  /\ SubSeq(s, 1, m) \in Seq(X) /\ SubSeq(s, m + 1, Len(s)) \in Seq(X)
           /\ Range(s) = Range(SubSeq(s, 1, m)) \cup Range(SubSeq(s, m + 1, Len(s)))
<1> DEFINE s1 == SubSeq(s, 1, m)
           s2 == SubSeq(s, m + 1, Len(s))
<1>1. Len(s) \in Nat /\ m \in Nat /\ m <= Len(s) /\ DOMAIN s = 1..Len(s)
  OBVIOUS
<1>2. s1 \in Seq(X) /\ Len(s1) = m /\ \A k \in 1..m : s1[k] = s[k]
  <2>1. \A k \in 1..m : s[k] \in X
    BY <1>1
  <2> QED BY <1>1, <2>1, SubSeqProperties
<1>3. /\ s2 \in Seq(X) /\ Len(s2) = Len(s) - m
      /\ \A k \in 1..(Len(s) - m) : s2[k] = s[m + k]
  <2>1. \A k \in (m + 1)..Len(s) : s[k] \in X
    BY <1>1
  <2>2. /\ s2 \in Seq(X) /\ Len(s2) = IF m + 1 <= Len(s) THEN Len(s) - (m + 1) + 1 ELSE 0
        /\ \A k \in 1..(Len(s) - (m + 1) + 1) : s2[k] = s[(m + 1) + k - 1]
    BY <1>1, <2>1, SubSeqProperties
  <2> HIDE DEF s2
  <2>3. Len(s) - (m + 1) + 1 = Len(s) - m /\ (~(m + 1 <= Len(s)) => Len(s) - m = 0)
    <3>1. \A n, k \in Nat : k <= n => n - (k + 1) + 1 = n - k /\ (~(k + 1 <= n) => n - k = 0)
      OBVIOUS
    <3> QED BY <1>1, <3>1
  <2>4. ASSUME NEW k \in 1..(Len(s) - m)
        PROVE  s2[k] = s[m + k]
    <3>1. (m + 1) + k - 1 = m + k
      BY <1>1
    <3>2. s2[k] = s[(m + 1) + k - 1]
      BY <2>2, <2>3
    <3> QED BY <3>1, <3>2
  <2> QED BY <2>2, <2>3, <2>4
<1> HIDE DEF s1, s2
<1>4. Range(s1) \cup Range(s2) \subseteq Range(s)
  <2>1. \A k \in DOMAIN s1 : k \in DOMAIN s /\ s1[k] = s[k]
    BY <1>1, <1>2
  <2>2. \A k \in DOMAIN s2 : m + k \in DOMAIN s /\ s2[k] = s[m + k]
    BY <1>1, <1>3
  <2> QED BY <2>1, <2>2 DEF Range
<1>5. ASSUME NEW k \in DOMAIN s
      PROVE  s[k] \in Range(s1) \cup Range(s2)
  <2>1. CASE k <= m
    <3>1. k \in DOMAIN s1 /\ s1[k] = s[k]
      BY <1>1, <1>2, <2>1
    <3> QED BY <3>1 DEF Range
  <2>2. CASE ~(k <= m)
    <3>1. k - m \in DOMAIN s2 /\ s2[k - m] = s[k]
      <4>1. k - m \in 1..(Len(s) - m) /\ m + (k - m) = k
        BY <1>1, <2>2
      <4>2. DOMAIN s2 = 1..(Len(s) - m)
        BY <1>3
      <4>3. s2[k - m] = s[m + (k - m)]
        BY <1>3, <4>1
      <4> QED BY <4>1, <4>2, <4>3
    <3> QED BY <3>1 DEF Range
  <2> QED BY <2>1, <2>2
<1>6. Range(s) \subseteq Range(s1) \cup Range(s2)
  BY <1>5 DEF Range
<1> QED BY <1>2, <1>3, <1>4, <1>6 DEF s1, s2

\* The first element and the rest.
LEMMA HeadAndTail ==
    ASSUME NEW X, NEW s \in Seq(X), s # <<>>
    PROVE  /\ Head(s) \in X /\ Head(s) \in Range(s) /\ Tail(s) \in Seq(X)
           /\ Range(Tail(s)) \subseteq Range(s)
           /\ Len(s) = 1 <=> Tail(s) = <<>>
<1> DEFINE r == Tail(s)
<1>1. /\ r \in Seq(X) /\ Head(s) \in X /\ Len(r) = Len(s) - 1 /\ Len(s) \in Nat /\ Len(s) # 0
      /\ \A k \in 1..Len(r) : r[k] = s[k + 1]
  BY HeadTailProperties
<1>2. Head(s) = s[1]
  OBVIOUS
<1> HIDE DEF r
<1>3. /\ DOMAIN s = 1..Len(s) /\ DOMAIN r = 1..Len(r) /\ 1 \in DOMAIN s
      /\ \A k \in DOMAIN r : k + 1 \in DOMAIN s /\ r[k] = s[k + 1]
  BY <1>1
<1>4. Len(s) = 1 <=> r = <<>>
  BY <1>1
<1> QED BY <1>1, <1>2, <1>3, <1>4 DEF Range, r

\* What a peer that has S has after each event of a request.
Stages(f, S, request) ==
    /\ f[0] = S /\ \A n \in 0..Len(request) : f[n] \in SUBSET Event
    /\ \A n \in 1..Len(request) : f[n] = Accept(f[n - 1], request[n])

\* The recursion of Pass has a solution too.
LEMMA PassUnfolds ==
    ASSUME NEW S \in SUBSET Event, NEW request \in Seq(Event)
    PROVE  \E f : Stages(f, S, request) /\ Pass(S, request) = f[Len(request)]
<1> DEFINE N == Len(request)
           A == SUBSET Event
           G(f, n) == IF n = 0 THEN S ELSE Accept(f[n - 1], request[n])
           step == [x \in A \X (1..N) |-> Accept(x[1], request[x[2]])]
<1>1. N \in Nat /\ \A n \in 1..N : request[n] \in Event /\ request[n] \in Range(request)
  BY DEF Range
<1>2. \A R \in A : \A n \in 1..N : /\ Accept(R, request[n]) \in A
                                  /\ R \subseteq Accept(R, request[n])
                                  /\ Accept(R, request[n]) \subseteq R \cup {request[n]}
  BY <1>1 DEF Accept
<1>3. step \in StepsIn(A, N)
  BY <1>2 DEF StepsIn
<1>4. \E f : f = [n \in 0..N |-> G(f, n)]
  <2>1. PICK f : IsRun(f, A, N, S, step)
    <3>1. N \in Nat /\ S \in A
      BY <1>1
    <3> HIDE DEF step, N, A
    <3> QED BY <1>3, <3>1, RecursionHasASolution
  <2>2. f \in [0..N -> A] /\ f[0] = S
    BY <2>1 DEF IsRun
  <2>3. ASSUME NEW n \in 1..N
        PROVE  f[n] = Accept(f[n - 1], request[n])
    <3>1. n - 1 \in 0..N
      BY <1>1
    <3>2. f[n - 1] \in A
      BY <2>2, <3>1
    <3>3. \A R \in A : step[<<R, n>>] = Accept(R, request[n])
      OBVIOUS
    <3> HIDE DEF step, A
    <3>4. f[n] = step[<<f[n - 1], n>>]
      BY <2>1 DEF IsRun
    <3> QED BY <3>2, <3>3, <3>4
  <2>4. \A n \in 0..N : f[n] = G(f, n)
    <3>1. \A n \in 0..N : n # 0 => n \in 1..N
      BY <1>1
    <3> QED BY <2>2, <2>3, <3>1
  <2> HIDE DEF G, N, A
  <2>5. f = [n \in 0..N |-> f[n]]
    BY <2>2
  <2>6. f = [n \in 0..N |-> G(f, n)]
    BY <2>4, <2>5
  <2> QED BY <2>6
<1> DEFINE upto[n \in 0..Len(request)] ==
              IF n = 0 THEN S ELSE Accept(upto[n - 1], request[n])
<1>5. upto = [n \in 0..N |-> G(upto, n)]
  BY <1>4, Zenon
<1>6. Pass(S, request) = upto[N]
  BY Zenon DEF Pass
<1> HIDE DEF upto
<1>7. upto[0] = S /\ \A n \in 1..N : upto[n] = Accept(upto[n - 1], request[n])
  <2>1. \A n \in 0..N : upto[n] = G(upto, n)
    <3>1. \A h : h = [n \in 0..N |-> G(upto, n)] => \A n \in 0..N : h[n] = G(upto, n)
      OBVIOUS
    <3> HIDE DEF G
    <3> QED BY <1>5, <3>1
  <2>2. 0 \in 0..N /\ \A n \in 1..N : n \in 0..N /\ n # 0
    BY <1>1
  <2> QED BY <2>1, <2>2
<1> DEFINE T == {n \in Nat : n <= N => upto[n] \in A}
<1>8. 0 \in T
  BY <1>7
<1>9. ASSUME NEW n \in T
      PROVE  n + 1 \in T
  <2> SUFFICES ASSUME n + 1 <= N
               PROVE  upto[n + 1] \in A
    OBVIOUS
  <2>1. upto[n] \in A /\ n + 1 \in 1..N /\ (n + 1) - 1 = n
    BY <1>1
  <2>2. upto[n + 1] = Accept(upto[n], request[n + 1])
    BY <1>7, <2>1
  <2> HIDE DEF T, N, A
  <2> QED BY <1>2, <2>1, <2>2
<1>10. T \in SUBSET Nat
  OBVIOUS
<1> HIDE DEF T
<1>11. T = Nat
  BY <1>8, <1>9, <1>10, NatSetInduction
<1>12. \A n \in 0..N : upto[n] \in A
  BY <1>1, <1>11 DEF T
<1>13. Stages(upto, S, request)
  BY <1>7, <1>12 DEF Stages
<1> QED BY <1>6, <1>13

\* What the peer has after a pass: what it had, and some of the request.
LEMMA PassEvents ==
    ASSUME NEW S \in SUBSET Event, NEW request \in Seq(Event)
    PROVE  S \subseteq Pass(S, request) /\ Pass(S, request) \subseteq S \cup Range(request)
<1> DEFINE N == Len(request)
<1>1. N \in Nat /\ \A n \in 1..N : request[n] \in Range(request)
  BY DEF Range
<1>2. PICK f : Stages(f, S, request) /\ Pass(S, request) = f[N]
  BY PassUnfolds
<1> DEFINE T == {n \in Nat : n <= N => S \subseteq f[n] /\ f[n] \subseteq S \cup Range(request)}
<1>3. 0 \in T
  BY <1>2 DEF Stages
<1>4. ASSUME NEW n \in T
      PROVE  n + 1 \in T
  <2> SUFFICES ASSUME n + 1 <= N
               PROVE  S \subseteq f[n + 1] /\ f[n + 1] \subseteq S \cup Range(request)
    OBVIOUS
  <2>1. /\ S \subseteq f[n] /\ f[n] \subseteq S \cup Range(request)
        /\ n + 1 \in 1..N /\ (n + 1) - 1 = n
    BY <1>1
  <2>2. f[n + 1] = Accept(f[n], request[n + 1])
    BY <1>2, <2>1 DEF Stages
  <2> HIDE DEF T, N
  <2> QED BY <1>1, <2>1, <2>2 DEF Accept
<1>5. T \in SUBSET Nat
  OBVIOUS
<1> HIDE DEF T
<1>6. T = Nat
  BY <1>3, <1>4, <1>5, NatSetInduction
<1>7. N \in T
  BY <1>1, <1>6
<1> QED BY <1>1, <1>2, <1>7 DEF T

\* What a peer that has S has after each pass over a request.
Passes(f, S, request) ==
    /\ f[0] = S /\ \A n \in 0..Len(request) : f[n] \in SUBSET Event
    /\ \A n \in 1..Len(request) : f[n] = Pass(f[n - 1], request)

\* So has the recursion of Accepted.
LEMMA AcceptedUnfolds ==
    ASSUME NEW S \in SUBSET Event, NEW request \in Seq(Event)
    PROVE  \E f : Passes(f, S, request) /\ Accepted(S, request) = f[Len(request)]
<1> DEFINE N == Len(request)
           A == SUBSET Event
           G(f, n) == IF n = 0 THEN S ELSE Pass(f[n - 1], request)
           step == [x \in A \X (1..N) |-> Pass(x[1], request)]
<1>1. N \in Nat /\ Range(request) \subseteq Event
  BY DEF Range
<1>2. \A R \in A : Pass(R, request) \in A
  BY <1>1, PassEvents
<1>3. step \in StepsIn(A, N)
  BY <1>2 DEF StepsIn
<1>4. \E f : f = [n \in 0..N |-> G(f, n)]
  <2>1. PICK f : IsRun(f, A, N, S, step)
    <3>1. N \in Nat /\ S \in A
      BY <1>1
    <3> HIDE DEF step, N, A
    <3> QED BY <1>3, <3>1, RecursionHasASolution
  <2>2. f \in [0..N -> A] /\ f[0] = S
    BY <2>1 DEF IsRun
  <2>3. ASSUME NEW n \in 1..N
        PROVE  f[n] = Pass(f[n - 1], request)
    <3>1. n - 1 \in 0..N
      BY <1>1
    <3>2. f[n - 1] \in A
      BY <2>2, <3>1
    <3>3. \A R \in A : step[<<R, n>>] = Pass(R, request)
      OBVIOUS
    <3> HIDE DEF step, A
    <3>4. f[n] = step[<<f[n - 1], n>>]
      BY <2>1 DEF IsRun
    <3> QED BY <3>2, <3>3, <3>4
  <2>4. \A n \in 0..N : f[n] = G(f, n)
    <3>1. \A n \in 0..N : n # 0 => n \in 1..N
      BY <1>1
    <3> QED BY <2>2, <2>3, <3>1
  <2> HIDE DEF G, N, A
  <2>5. f = [n \in 0..N |-> f[n]]
    BY <2>2
  <2>6. f = [n \in 0..N |-> G(f, n)]
    BY <2>4, <2>5
  <2> QED BY <2>6
<1> DEFINE after[n \in 0..Len(request)] ==
              IF n = 0 THEN S ELSE Pass(after[n - 1], request)
<1>5. after = [n \in 0..N |-> G(after, n)]
  BY <1>4, Zenon
<1>6. Accepted(S, request) = after[N]
  BY Zenon DEF Accepted
<1> HIDE DEF after
<1>7. after[0] = S /\ \A n \in 1..N : after[n] = Pass(after[n - 1], request)
  <2>1. \A n \in 0..N : after[n] = G(after, n)
    <3>1. \A h : h = [n \in 0..N |-> G(after, n)] => \A n \in 0..N : h[n] = G(after, n)
      OBVIOUS
    <3> HIDE DEF G
    <3> QED BY <1>5, <3>1
  <2>2. 0 \in 0..N /\ \A n \in 1..N : n \in 0..N /\ n # 0
    BY <1>1
  <2> QED BY <2>1, <2>2
<1> DEFINE T == {n \in Nat : n <= N => after[n] \in A}
<1>8. 0 \in T
  BY <1>7
<1>9. ASSUME NEW n \in T
      PROVE  n + 1 \in T
  <2> SUFFICES ASSUME n + 1 <= N
               PROVE  after[n + 1] \in A
    OBVIOUS
  <2>1. after[n] \in A /\ n + 1 \in 1..N /\ (n + 1) - 1 = n
    BY <1>1
  <2>2. after[n + 1] = Pass(after[n], request)
    BY <1>7, <2>1
  <2> HIDE DEF T, N, A
  <2> QED BY <1>2, <2>1, <2>2
<1>10. T \in SUBSET Nat
  OBVIOUS
<1> HIDE DEF T
<1>11. T = Nat
  BY <1>8, <1>9, <1>10, NatSetInduction
<1>12. \A n \in 0..N : after[n] \in A
  BY <1>1, <1>11 DEF T
<1>13. Passes(after, S, request)
  BY <1>7, <1>12 DEF Passes
<1> QED BY <1>6, <1>13

\* What the peer has after a request: what it had, and some of the request.
LEMMA AcceptedEvents ==
    ASSUME NEW S \in SUBSET Event, NEW request \in Seq(Event)
    PROVE  S \subseteq Accepted(S, request) /\ Accepted(S, request) \subseteq S \cup Range(request)
<1> DEFINE N == Len(request)
<1>1. N \in Nat
  OBVIOUS
<1>2. PICK f : Passes(f, S, request) /\ Accepted(S, request) = f[N]
  BY AcceptedUnfolds
<1> DEFINE T == {n \in Nat : n <= N => S \subseteq f[n] /\ f[n] \subseteq S \cup Range(request)}
<1>3. 0 \in T
  BY <1>2 DEF Passes
<1>4. ASSUME NEW n \in T
      PROVE  n + 1 \in T
  <2> SUFFICES ASSUME n + 1 <= N
               PROVE  S \subseteq f[n + 1] /\ f[n + 1] \subseteq S \cup Range(request)
    OBVIOUS
  <2>1. /\ S \subseteq f[n] /\ f[n] \subseteq S \cup Range(request)
        /\ n + 1 \in 1..N /\ (n + 1) - 1 = n
    BY <1>1
  <2>2. f[n + 1] = Pass(f[n], request) /\ f[n] \in SUBSET Event
    <3>1. n \in 0..N
      BY <1>1
    <3> QED BY <1>2, <2>1, <3>1 DEF Passes
  <2>3. f[n] \subseteq Pass(f[n], request) /\ Pass(f[n], request) \subseteq f[n] \cup Range(request)
    BY <2>2, PassEvents
  <2> HIDE DEF T, N
  <2> QED BY <2>1, <2>2, <2>3
<1>5. T \in SUBSET Nat
  OBVIOUS
<1> HIDE DEF T
<1>6. T = Nat
  BY <1>3, <1>4, <1>5, NatSetInduction
<1>7. N \in T
  BY <1>1, <1>6
<1> QED BY <1>1, <1>2, <1>7 DEF T

-----------------------------------------------------------------------------
(* What a step of a device has to show.                                    *)

\* Stores only grow.
StoresGrow == \A u \in Device : store[u] \subseteq store'[u] /\ blobs[u] \subseteq blobs'[u]

\* The records of a device say nothing new.
RecordsKept(u) ==
    /\ outbound'[u].recent # 0 =>
            outbound[u].recent # 0 /\ outbound'[u].inventory = outbound[u].inventory
    /\ secret'[u] = secret[u] /\ checkpoint'[u] = checkpoint[u]

\* Then they hold as before.
LEMMA RecordsStillHold ==
    ASSUME NEW u \in Device, RecordsHold(u), RecordsKept(u), StoresGrow
    PROVE  RecordsHold(u)'
<1>1. store[u] \subseteq store'[u] /\ blobs[Peer(u)] \subseteq blobs'[Peer(u)]
  BY Peers DEF StoresGrow
<1>2. (outbound'[u].recent # 0 =>
            OwnFiles(u, outbound'[u].inventory) \subseteq blobs'[Peer(u)])
  BY <1>1 DEF RecordsHold, RecordsKept
<1> QED BY <1>1, <1>2 DEF RecordsHold, RecordsKept

\* A session stays safe in stores that have grown.
LEMMA SessionStaysSafe ==
    ASSUME NEW u \in Device, NEW s, SessionSafe(u, s), StoresGrow, secret'[u] = secret[u]
    PROVE  /\ ReadsAreKept(u, s, store') /\ UploadIsAt(u, s, blobs')
           /\ CatchUpIsAt(u, s, store'[u], secret'[u])
<1>1. /\ store[u] \subseteq store'[u] /\ store[Peer(u)] \subseteq store'[Peer(u)]
      /\ blobs[Peer(u)] \subseteq blobs'[Peer(u)]
  BY Peers DEF StoresGrow
<1>2. ReadsAreKept(u, s, store')
  BY <1>1 DEF SessionSafe, ReadsAreKept
<1>3. UploadIsAt(u, s, blobs')
  BY <1>1 DEF SessionSafe, UploadIsAt
<1>4. CatchUpIsAt(u, s, store'[u], secret'[u])
  <2>1. CASE s.phase = "checkpoint"
    <3>1. s.snapshot \in Pair /\ s.snapshot[1] \cup s.made \subseteq store[u]
      BY <2>1 DEF SessionSafe, CatchUpIsAt
    <3>2. store'[u] = s.snapshot[1] \cup s.made => store[u] = store'[u]
      BY <1>1, <3>1
    <3> QED BY <1>1, <2>1, <3>1, <3>2 DEF SessionSafe, CatchUpIsAt
  <2>2. CASE s.phase # "checkpoint"
    BY <1>1, <2>2 DEF SessionSafe, CatchUpIsAt
  <2> QED BY <2>1, <2>2
<1> QED BY <1>2, <1>3, <1>4

\* A step of d that leaves it with session s.
LEMMA StepKeeps ==
    ASSUME TypeInv, SyncInv, NEW d \in Device, NEW s,
           session' = [session EXCEPT ![d] = s], SessionOK(s),
           StoresOK', LedgersOK', OpenMlsOK', situation' \in Scenario,
           StoresGrow, OwnAtHome', OwnFilesAtHome',
           \A u \in Device : u # d => RecordsKept(u),
           RecordsHold(d)', ReadsAreKept(d, s, store'), UploadIsAt(d, s, blobs'),
           CatchUpIsAt(d, s, store'[d], secret'[d])
    PROVE  TypeInv' /\ SyncInv'
<1>1. session \in [Device -> SessionState]
  BY DEF TypeInv, SessionsOK
<1>2. s \in SessionState
  BY DEF SessionOK
<1>3. /\ session' \in [Device -> SessionState] /\ session'[d] = s
      /\ \A u \in Device : u # d => session'[u] = session[u]
  BY <1>1, <1>2
<1>4. SessionsOK'
  BY <1>3 DEF TypeInv, SessionsOK, SessionOK
<1>5. ASSUME NEW u \in Device, u # d
      PROVE  RecordsHold(u)' /\ SessionSafe(u, session[u])'
  <2>1. SessionSafe(u, session[u]) /\ RecordsHold(u) /\ RecordsKept(u)
    BY <1>5 DEF SyncInv
  <2>2. RecordsHold(u)'
    BY <2>1, RecordsStillHold
  <2>3. secret'[u] = secret[u]
    BY <2>1 DEF RecordsKept
  <2>4. /\ ReadsAreKept(u, session[u], store') /\ UploadIsAt(u, session[u], blobs')
        /\ CatchUpIsAt(u, session[u], store'[u], secret'[u])
    BY <2>1, <2>3, SessionStaysSafe
  <2>5. session'[u] = session[u]
    BY <1>3, <1>5
  <2> QED BY <2>2, <2>4, <2>5 DEF SessionSafe
<1>6. SessionSafe(d, session[d])'
  BY <1>3 DEF SessionSafe
<1>7. SyncInv'
  BY <1>5, <1>6 DEF SyncInv
<1> QED BY <1>4, <1>7 DEF TypeInv

\* The same for what catching up made.
LEMMA MadeKeeps ==
    ASSUME TypeInv, StoresOK', MadeInv, NEW d \in Device, NEW s,
           session' = [session EXCEPT ![d] = s], StoresGrow, situation'.group = situation.group,
           HistoriesLoseNobody', MadeIsAt(d, s, store', situation.group)
    PROVE  MadeInv'
<1>1. session'[d] = s /\ \A u \in Device : u # d => session'[u] = session[u]
  BY DEF TypeInv, SessionsOK
<1>2. ASSUME NEW u \in Device, u # d
      PROVE  MadeIsAt(u, session[u], store', situation.group)
  <2>1. store[u] \subseteq store'[u] /\ store[Peer(u)] \subseteq store'[Peer(u)]
    BY Peers DEF StoresGrow
  <2>2. MadeIsAt(u, session[u], store, situation.group)
    BY DEF MadeInv
  <2>3. situation.group => Materialized(store[u]) \subseteq Materialized(store'[u])
    <3>1. store[u] \in SUBSET Event /\ store'[u] \in SUBSET Event
      BY DEF TypeInv, StoresOK
    <3>2. situation.group => RemovesNobody(store'[u])
      BY DEF HistoriesLoseNobody
    <3> QED BY <2>1, <3>1, <3>2, MaterializedGrows
  <2> QED BY <2>1, <2>2, <2>3 DEF MadeIsAt
<1>3. \A u \in Device : MadeIsAt(u, session'[u], store', situation'.group)
  BY <1>1, <1>2
<1> QED BY <1>3 DEF MadeInv

\* The invariants after a step.
Keeps == TypeInv' /\ SyncInv' /\ (MadeInv => MadeInv')

\* A fault is all that a step may change of the situation.
SituationKept ==
    /\ situation' \in Scenario
    /\ situation'.group = situation.group /\ situation'.writes = situation.writes

\* Events move between the devices, none is new.
EventsMove == \A u \in Device : \A e \in store'[u] : \E p \in Device : e \in store[p]

\* Moving events takes none away from its author, and brings no removal.
LEMMA MovingKeeps ==
    ASSUME TypeInv, SyncInv, StoresGrow, EventsMove, SituationKept
    PROVE  OwnAtHome' /\ OwnFilesAtHome' /\ (HistoriesLoseNobody => HistoriesLoseNobody')
<1>1. ASSUME NEW u \in Device, NEW p \in Device, NEW e \in store'[p], Author[e] = u
      PROVE  e \in store[u]
  BY <1>1 DEF SyncInv, OwnAtHome, EventsMove
<1>2. OwnAtHome'
  BY <1>1 DEF OwnAtHome, StoresGrow
<1>3. OwnFilesAtHome'
  BY <1>1 DEF OwnFilesAtHome, SyncInv, StoresGrow
<1>4. ASSUME HistoriesLoseNobody PROVE HistoriesLoseNobody'
  BY <1>4 DEF HistoriesLoseNobody, EventsMove, SituationKept, RemovesNobody
<1> QED BY <1>2, <1>3, <1>4

\* A step of d that moves events at most and leaves it with session s.
LEMMA SyncStepKeeps ==
    ASSUME TypeInv, SyncInv, NEW d \in Device, NEW s,
           session' = [session EXCEPT ![d] = s], SessionOK(s),
           StoresOK', LedgersOK', OpenMlsOK', SituationKept, StoresGrow, EventsMove,
           \A u \in Device : u # d => RecordsKept(u), RecordsHold(d)',
           ReadsAreKept(d, s, store'), UploadIsAt(d, s, blobs'),
           CatchUpIsAt(d, s, store'[d], secret'[d]),
           MadeInv => MadeIsAt(d, s, store', situation.group)
    PROVE  Keeps
<1>1. OwnAtHome' /\ OwnFilesAtHome' /\ (HistoriesLoseNobody => HistoriesLoseNobody')
  BY MovingKeeps
<1>2. TypeInv' /\ SyncInv'
  BY <1>1, StepKeeps DEF SituationKept
<1>3. ASSUME MadeInv PROVE MadeInv'
  <2>1. HistoriesLoseNobody'
    BY <1>1, <1>3 DEF MadeInv
  <2> QED BY <1>3, <2>1, MadeKeeps DEF SituationKept
<1> QED BY <1>2, <1>3 DEF Keeps

\* A step of d that changes its session, and the ledgers at most.
LEMMA LocalStepKeeps ==
    ASSUME TypeInv, SyncInv, NEW d \in Device, NEW s,
           session' = [session EXCEPT ![d] = s], SessionOK(s),
           UNCHANGED <<stores, openmls>>, LedgersOK', SituationKept,
           \A u \in Device : u # d => RecordsKept(u), RecordsHold(d)',
           ReadsAreKept(d, s, store), UploadIsAt(d, s, blobs),
           CatchUpIsAt(d, s, store[d], secret[d]),
           MadeInv => MadeIsAt(d, s, store, situation.group)
    PROVE  Keeps
<1>1. store' = store /\ blobs' = blobs /\ secret' = secret /\ checkpoint' = checkpoint
  BY DEF stores, openmls
<1>2. StoresOK' /\ OpenMlsOK'
  BY <1>1 DEF TypeInv, StoresOK, OpenMlsOK
<1>3. StoresGrow /\ EventsMove
  BY <1>1 DEF StoresGrow, EventsMove
<1>4. /\ ReadsAreKept(d, s, store') /\ UploadIsAt(d, s, blobs')
      /\ CatchUpIsAt(d, s, store'[d], secret'[d])
      /\ MadeInv => MadeIsAt(d, s, store', situation.group)
  BY <1>1
<1> QED BY <1>2, <1>3, <1>4, SyncStepKeeps

\* A step of d that changes nothing but its session.
LEMMA QuietStepKeeps ==
    ASSUME TypeInv, SyncInv, NEW d \in Device, NEW s,
           session' = [session EXCEPT ![d] = s], SessionOK(s),
           UNCHANGED <<stores, ledgers, openmls, situation>>,
           ReadsAreKept(d, s, store), UploadIsAt(d, s, blobs),
           CatchUpIsAt(d, s, store[d], secret[d]),
           MadeInv => MadeIsAt(d, s, store, situation.group)
    PROVE  Keeps
<1>1. UNCHANGED <<stores, openmls>> /\ SituationKept /\ LedgersOK'
  BY DEF SituationKept, ledgers, TypeInv, LedgersOK
<1>2. StoresGrow
  BY DEF stores, StoresGrow
<1>3. \A u \in Device : RecordsKept(u)
  BY DEF RecordsKept, ledgers, openmls
<1>4. RecordsHold(d)'
  BY <1>2, <1>3, RecordsStillHold DEF SyncInv
<1> QED BY <1>1, <1>3, <1>4, LocalStepKeeps

\* What is known of the device that takes a step.
LEMMA AtHome ==
    ASSUME TypeInv, SyncInv, NEW d \in Device
    PROVE  /\ session[d] \in SessionState /\ SessionOK(session[d])
           /\ ReadsAreKept(d, session[d], store) /\ UploadIsAt(d, session[d], blobs)
           /\ CatchUpIsAt(d, session[d], store[d], secret[d]) /\ RecordsHold(d)
           /\ MadeInv => MadeIsAt(d, session[d], store, situation.group)
           /\ store[d] \in SUBSET Event /\ store[Peer(d)] \in SUBSET Event
           /\ blobs[d] \in SUBSET Blob /\ blobs[Peer(d)] \in SUBSET Blob
           /\ session = [session EXCEPT ![d] = session[d]]
<1>1. session \in [Device -> SessionState]
  BY DEF TypeInv, SessionsOK
<1>2. session = [session EXCEPT ![d] = session[d]]
  BY <1>1
<1>3. store[d] \in SUBSET Event /\ store[Peer(d)] \in SUBSET Event
      /\ blobs[d] \in SUBSET Blob /\ blobs[Peer(d)] \in SUBSET Blob
  BY Peers DEF TypeInv, StoresOK
<1> QED BY <1>1, <1>2, <1>3 DEF TypeInv, SessionsOK, SyncInv, SessionSafe, MadeInv

\* A session that has ended is safe.
LEMMA NoSessionIsSafe ==
    ASSUME NEW d, NEW S, NEW B, NEW T, NEW K, NEW g
    PROVE  /\ SessionOK(NoSession) /\ ReadsAreKept(d, NoSession, S)
           /\ UploadIsAt(d, NoSession, B) /\ CatchUpIsAt(d, NoSession, T, K)
           /\ MadeIsAt(d, NoSession, S, g)
<1>1. NoSession \in SessionState
  BY DEF NoSession, SessionState, Phase
<1>2. NoSession.phase = "idle" /\ NoSession.remote = {} /\ NoSession.local = {}
      /\ NoSession.todo = <<>> /\ NoSession.made = {}
  BY DEF NoSession
<1> QED BY <1>1, <1>2 DEF SessionOK, ReadsAreKept, UploadIsAt, CatchUpIsAt, MadeIsAt

-----------------------------------------------------------------------------
(* Comparing the inventories and publishing.                               *)

\* The own attachments are among those of the history.
LEMMA OwnFilesAreScanned ==
    ASSUME NEW d \in Device, NEW S \in SUBSET Event
    PROVE  /\ OwnFiles(d, S) \subseteq AttachmentBlobHashes(Materialized(S))
           /\ AttachmentBlobHashes(Materialized(S)) \in SUBSET Blob
<1>1. Materialized(S) \in SUBSET Event
  BY MaterializedIsStored
<1> QED BY <1>1 DEF OwnFiles, AttachmentBlobHashes, Blob

\* A session starts: nothing of it is known yet, and the records get older.
LEMMA FetchWorkspaceInventoryKeeps ==
    ASSUME TypeInv, SyncInv, NEW d \in Device, FetchWorkspaceInventory(d)
    PROVE  Keeps
<1> DEFINE s == [NoSession EXCEPT !.phase = "plan", !.remote = store[Peer(d)]]
<1>1. session' = [session EXCEPT ![d] = s] /\ UNCHANGED <<stores, openmls>>
  BY DEF FetchWorkspaceInventory
<1>2. /\ s.phase = "plan" /\ s.remote = store[Peer(d)] /\ s.local = {}
      /\ s.todo = <<>> /\ s.made = {}
  BY DEF NoSession
<1>3. s \in SessionState
  <2>1. store[Peer(d)] \in SUBSET Event
    BY AtHome
  <2>2. NoSession \in SessionState
    BY NoSessionIsSafe DEF SessionOK
  <2> QED BY <2>1, <2>2 DEF SessionState, Phase
<1> HIDE DEF s
<1>4. SessionOK(s)
  BY <1>2, <1>3 DEF SessionOK
<1>5. /\ ReadsAreKept(d, s, store) /\ UploadIsAt(d, s, blobs)
      /\ CatchUpIsAt(d, s, store[d], secret[d])
      /\ MadeIsAt(d, s, store, situation.group)
  BY <1>2 DEF ReadsAreKept, UploadIsAt, CatchUpIsAt, MadeIsAt
<1>6. SituationKept
  BY DEF FetchWorkspaceInventory, TypeInv, SituationKept
<1>7. LedgersOK' /\ \A u \in Device : RecordsKept(u)
  <2>1. \A n \in 0..RecentSessions : n # 0 => n - 1 \in 0..RecentSessions
    BY DevicesAssumption
  <2>2. /\ inbound' = [inbound EXCEPT ![d] = Aged(inbound[d])]
        /\ outbound' = [outbound EXCEPT ![d] = Aged(outbound[d])]
        /\ open' = open /\ secret' = secret /\ checkpoint' = checkpoint
    BY DEF FetchWorkspaceInventory, openmls
  <2>3. inbound \in [Device -> [recent : 0..RecentSessions, pending : SUBSET Blob]]
        /\ outbound \in [Device -> [recent : 0..RecentSessions, inventory : SUBSET Event]]
        /\ open \in [Device -> SUBSET Blob]
    BY DEF TypeInv, LedgersOK
  <2>4. Aged(inbound[d]) \in [recent : 0..RecentSessions, pending : SUBSET Blob]
    BY <2>1, <2>3 DEF Aged
  <2>5. /\ Aged(outbound[d]) \in [recent : 0..RecentSessions, inventory : SUBSET Event]
        /\ Aged(outbound[d]).inventory = outbound[d].inventory
        /\ Aged(outbound[d]).recent # 0 => outbound[d].recent # 0
    BY <2>1, <2>3 DEF Aged
  <2> QED BY <2>2, <2>3, <2>4, <2>5 DEF LedgersOK, RecordsKept
<1>8. RecordsHold(d)'
  <2>1. StoresGrow
    BY <1>1 DEF stores, StoresGrow
  <2> QED BY <1>7, <2>1, RecordsStillHold DEF SyncInv
<1> QED BY <1>1, <1>4, <1>5, <1>6, <1>7, <1>8, LocalStepKeeps

\* What a session is about to publish.
LEMMA PublishingIsSafe ==
    ASSUME TypeInv, SyncInv, NEW d \in Device, NEW publish \in SUBSET store[d],
           NEW f \in BOOLEAN
    PROVE  LET s == Publishing(d, publish, f) IN
           /\ SessionOK(s) /\ ReadsAreKept(d, s, store)
           /\ UploadIsAt(d, s, blobs) /\ CatchUpIsAt(d, s, store[d], secret[d])
           /\ s.made = session[d].made /\ s.followup = f
           /\ s.phase \in {"publish", "upload", "record"}
           /\ Range(s.todo) = publish \cap Materialized(store[d])
<1> DEFINE M == Materialized(store[d])
           todo == InOrder(publish \cap M)
           scan == AttachmentBlobHashes(M)
           s == Publishing(d, publish, f)
<1>1. /\ session[d] \in SessionState /\ store[d] \in SUBSET Event
      /\ ReadsAreKept(d, session[d], store)
  BY AtHome
<1>2. M \in SUBSET Event /\ M \subseteq store[d]
  BY <1>1, MaterializedIsStored
<1>3. todo \in Seq(Event) /\ Range(todo) = publish \cap M
  BY <1>2, ListedInOrder
<1>4. scan \in SUBSET Blob /\ OwnFiles(d, store[d]) \subseteq scan
  BY <1>1, OwnFilesAreScanned
<1>5. s = [session[d] EXCEPT
             !.phase = IF todo # <<>> THEN "publish" ELSE AfterEvents(scan),
             !.local = store[d], !.todo = todo, !.blobs = scan, !.followup = f]
  BY DEF Publishing
<1> HIDE DEF M, todo, scan, s
<1>6. /\ s \in SessionState /\ s.remote = session[d].remote /\ s.local = store[d]
      /\ s.todo = todo /\ s.blobs = scan /\ s.followup = f /\ s.made = session[d].made
      /\ s.phase = IF todo # <<>> THEN "publish" ELSE AfterEvents(scan)
  BY <1>1, <1>3, <1>4, <1>5 DEF SessionState, Phase, AfterEvents
<1>7. SessionOK(s) /\ s.phase \in {"publish", "upload", "record"}
  BY <1>6 DEF SessionOK, AfterEvents
<1>8. ReadsAreKept(d, s, store)
  BY <1>1, <1>3, <1>6, <1>7 DEF ReadsAreKept
<1>9. UploadIsAt(d, s, blobs)
  BY <1>4, <1>6, <1>7 DEF UploadIsAt, AfterEvents
<1>10. CatchUpIsAt(d, s, store[d], secret[d])
  BY <1>7 DEF CatchUpIsAt
<1> QED BY <1>3, <1>6, <1>7, <1>8, <1>9, <1>10 DEF s, M

\* The inventories are compared.
LEMMA PlanWorkspaceSyncKeeps ==
    ASSUME TypeInv, SyncInv, NEW d \in Device, PlanWorkspaceSync(d)
    PROVE  Keeps
<1> DEFINE publish == store[d] \ session[d].remote
<1>1. /\ session[d] \in SessionState /\ SessionOK(session[d])
      /\ ReadsAreKept(d, session[d], store) /\ store[d] \in SUBSET Event
      /\ MadeInv => MadeIsAt(d, session[d], store, situation.group)
  BY AtHome
<1>2. session[d].phase = "plan" /\ UNCHANGED <<stores, ledgers, openmls, situation>>
  BY DEF PlanWorkspaceSync, At
<1>3. session[d].todo = <<>>
  BY <1>1, <1>2 DEF SessionOK
<1>4. CASE publish # {} \/ OutboundRepairDue(d, store[d])
  <2> DEFINE s == Publishing(d, publish, FALSE)
  <2>1. session' = [session EXCEPT ![d] = s]
    BY <1>4 DEF PlanWorkspaceSync
  <2>2. publish \in SUBSET store[d]
    OBVIOUS
  <2> HIDE DEF s, publish
  <2>3. /\ SessionOK(s) /\ ReadsAreKept(d, s, store)
        /\ UploadIsAt(d, s, blobs) /\ CatchUpIsAt(d, s, store[d], secret[d])
        /\ s.made = session[d].made /\ s.followup = FALSE
        /\ s.phase \in {"publish", "upload", "record"}
    BY <2>2, PublishingIsSafe DEF s
  <2>4. MadeInv => MadeIsAt(d, s, store, situation.group)
    BY <1>1, <1>2, <2>3 DEF MadeIsAt
  <2> QED BY <1>2, <2>1, <2>3, <2>4, QuietStepKeeps
<1>5. CASE ~(publish # {} \/ OutboundRepairDue(d, store[d]))
  <2> DEFINE s == [session[d] EXCEPT !.phase = "pull", !.local = store[d]]
  <2>1. session' = [session EXCEPT ![d] = s]
    BY <1>5 DEF PlanWorkspaceSync
  <2>2. /\ s \in SessionState /\ s.phase = "pull" /\ s.local = store[d]
        /\ s.remote = session[d].remote /\ s.todo = session[d].todo
        /\ s.made = session[d].made
    BY <1>1 DEF SessionState, Phase
  <2> HIDE DEF s
  <2>3. SessionOK(s)
    BY <1>3, <2>2 DEF SessionOK
  <2>4. /\ ReadsAreKept(d, s, store) /\ UploadIsAt(d, s, blobs)
        /\ CatchUpIsAt(d, s, store[d], secret[d])
    BY <1>1, <2>2 DEF ReadsAreKept, UploadIsAt, CatchUpIsAt
  <2>5. MadeInv => MadeIsAt(d, s, store, situation.group)
    BY <1>1, <1>2, <2>2 DEF MadeIsAt
  <2> QED BY <1>2, <2>1, <2>3, <2>4, <2>5, QuietStepKeeps
<1> QED BY <1>4, <1>5

\* One publish request: what it moves was in the own store, whose authors have it.
LEMMA PublishEventsKeeps ==
    ASSUME TypeInv, SyncInv, NEW d \in Device, PublishEvents(d)
    PROVE  Keeps
<1> DEFINE todo == session[d].todo
           size == IF Len(todo) < PublishLimit THEN Len(todo) ELSE PublishLimit
           request == SubSeq(todo, 1, size)
           after == Accepted(store[Peer(d)], request)
           rest == SubSeq(todo, size + 1, Len(todo))
           t == [session[d] EXCEPT !.todo = rest,
                    !.phase = IF rest = <<>> THEN AfterEvents(session[d].blobs) ELSE "publish"]
           s == IF ~(Range(request) \subseteq after) THEN NoSession ELSE t
<1>1. /\ session[d] \in SessionState /\ SessionOK(session[d])
      /\ ReadsAreKept(d, session[d], store) /\ UploadIsAt(d, session[d], blobs)
      /\ store[d] \in SUBSET Event /\ store[Peer(d)] \in SUBSET Event
      /\ MadeInv => MadeIsAt(d, session[d], store, situation.group)
  BY AtHome
<1>2. /\ session[d].phase = "publish" /\ store' = [store EXCEPT ![Peer(d)] = after]
      /\ session' = [session EXCEPT ![d] = s]
      /\ UNCHANGED <<blobs, ledgers, openmls, situation>>
  BY DEF PublishEvents, At
<1>3. todo \in Seq(Event)
  BY <1>1 DEF SessionState
<1>4. size \in 0..Len(todo)
  <2>1. Len(todo) \in Nat /\ PublishLimit \in Nat
    BY <1>3, DevicesAssumption
  <2> HIDE DEF todo
  <2> QED BY <2>1
<1> HIDE DEF todo, size
<1>5. /\ request \in Seq(Event) /\ rest \in Seq(Event)
      /\ Range(todo) = Range(request) \cup Range(rest)
  BY <1>3, <1>4, CutInTwo
<1>6. Range(todo) \subseteq store[d] /\ Range(request) \subseteq Event
  BY <1>1, <1>2, <1>5, EmptyList DEF ReadsAreKept, todo
<1> HIDE DEF request, rest
<1>7. store[Peer(d)] \subseteq after /\ after \subseteq store[Peer(d)] \cup Range(request)
  BY <1>1, <1>5, AcceptedEvents
<1> HIDE DEF after
<1>8. /\ store \in [Device -> SUBSET Event] /\ Peer(d) \in Device /\ Peer(d) # d
      /\ \A u \in Device : u = d \/ u = Peer(d)
  BY Peers DEF TypeInv, StoresOK
<1>9. store'[d] = store[d] /\ store'[Peer(d)] = after
  BY <1>2, <1>8
<1>10. StoresOK' /\ StoresGrow /\ EventsMove
  <2>1. store' \in [Device -> SUBSET Event]
    BY <1>2, <1>6, <1>7, <1>8
  <2>2. blobs' = blobs
    BY <1>2
  <2> QED BY <1>5, <1>6, <1>7, <1>8, <1>9, <2>1, <2>2
        DEF TypeInv, StoresOK, StoresGrow, EventsMove
<1>11. OpenMlsOK' /\ LedgersOK' /\ SituationKept /\ \A u \in Device : RecordsKept(u)
  BY <1>2 DEF TypeInv, OpenMlsOK, LedgersOK, SituationKept, RecordsKept, ledgers, openmls
<1>12. RecordsHold(d)'
  BY <1>10, <1>11, RecordsStillHold DEF SyncInv
<1>13. CASE Range(request) \subseteq after
  <2>1. s = t
    BY <1>13
  <2>2. /\ t \in SessionState /\ t.todo = rest /\ t.blobs = session[d].blobs
        /\ t.phase = (IF rest = <<>> THEN AfterEvents(session[d].blobs) ELSE "publish")
        /\ t.remote = session[d].remote /\ t.local = session[d].local
        /\ t.made = session[d].made /\ t.followup = session[d].followup
    BY <1>1, <1>5 DEF SessionState, Phase, AfterEvents
  <2> HIDE DEF t, s
  <2>3. SessionOK(t) /\ t.phase \in {"publish", "upload", "record"}
    BY <2>2 DEF SessionOK, AfterEvents
  <2>4. ReadsAreKept(d, t, store')
    BY <1>1, <1>5, <1>6, <1>7, <1>9, <2>2, <2>3 DEF ReadsAreKept
  <2>5. UploadIsAt(d, t, blobs')
    BY <1>1, <1>2, <2>2, <2>3 DEF UploadIsAt, AfterEvents
  <2>6. CatchUpIsAt(d, t, store'[d], secret'[d])
    BY <2>3 DEF CatchUpIsAt
  <2>7. MadeInv => MadeIsAt(d, t, store', situation.group)
    <3> SUFFICES ASSUME MadeInv PROVE MadeIsAt(d, t, store', situation.group)
      OBVIOUS
    <3>1. IF session[d].followup THEN session[d].made \subseteq Range(todo) \cup store[Peer(d)]
          ELSE session[d].made = {}
      BY <1>1, <1>2 DEF MadeIsAt, todo
    <3>2. IF t.followup THEN t.made \subseteq Range(t.todo) \cup store'[Peer(d)] ELSE t.made = {}
      BY <1>5, <1>7, <1>9, <1>13, <2>2, <3>1
    <3> QED BY <1>1, <2>2, <2>3, <3>2 DEF MadeIsAt
  <2> QED BY <1>2, <1>10, <1>11, <1>12, <2>1, <2>3, <2>4, <2>5, <2>6, <2>7, SyncStepKeeps
<1>14. CASE ~(Range(request) \subseteq after)
  <2>1. s = NoSession
    BY <1>14
  <2> HIDE DEF s
  <2> QED BY <1>2, <1>10, <1>11, <1>12, <2>1, NoSessionIsSafe, SyncStepKeeps
<1> QED BY <1>13, <1>14

-----------------------------------------------------------------------------
(* Uploading attachments, and the record that they have been uploaded.     *)

\* A device has the attachments of its own events.
LEMMA OwnFilesAreAtHand ==
    ASSUME TypeInv, SyncInv, NEW d \in Device, NEW S \in SUBSET store[d]
    PROVE  OwnFiles(d, S) \subseteq blobs[d]
<1>1. S \in SUBSET Event
  BY AtHome
<1>2. Materialized(S) \subseteq store[d]
  BY <1>1, MaterializedIsStored
<1> QED BY <1>2 DEF OwnFiles, AttachmentBlobHashes, SyncInv, OwnFilesAtHome

\* What the peer lacks is uploaded, as far as it is at hand; of the own
\* attachments everything is.
LEMMA StartUploadsKeeps ==
    ASSUME TypeInv, SyncInv, NEW d \in Device, StartUploads(d)
    PROVE  Keeps
<1> DEFINE there == session[d].blobs \cap blobs[Peer(d)]
           upload == (session[d].blobs \ there) \cap blobs[d]
           s == [session[d] EXCEPT !.phase = IF upload = {} THEN "record" ELSE "put",
                                   !.blobs = upload]
<1>1. /\ session[d] \in SessionState /\ SessionOK(session[d])
      /\ ReadsAreKept(d, session[d], store) /\ UploadIsAt(d, session[d], blobs)
      /\ blobs[d] \in SUBSET Blob
      /\ MadeInv => MadeIsAt(d, session[d], store, situation.group)
  BY AtHome
<1>2. /\ session[d].phase = "upload" /\ open' = [open EXCEPT ![d] = Settled(d, there) \cup upload]
      /\ UNCHANGED <<stores, inbound, outbound, openmls, situation>>
  BY DEF StartUploads, At
<1>3. session' = [session EXCEPT ![d] = s]
  <2>1. session' = [session EXCEPT ![d].phase = IF upload = {} THEN "record" ELSE "put",
                                   ![d].blobs = upload]
    BY DEF StartUploads
  <2> HIDE DEF upload
  <2> QED BY <2>1 DEF TypeInv, SessionsOK
<1>4. upload \in SUBSET Blob /\ upload \subseteq blobs[d]
  BY <1>1
<1>5. OwnFiles(d, session[d].local) \subseteq upload \cup blobs[Peer(d)]
  <2>1. OwnFiles(d, session[d].local) \subseteq session[d].blobs
    BY <1>1, <1>2 DEF UploadIsAt
  <2>2. OwnFiles(d, session[d].local) \subseteq blobs[d]
    BY <1>1, OwnFilesAreAtHand DEF ReadsAreKept
  <2> QED BY <2>1, <2>2
<1> HIDE DEF upload, there
<1>6. /\ s \in SessionState /\ s.phase = (IF upload = {} THEN "record" ELSE "put")
      /\ s.blobs = upload /\ s.remote = session[d].remote /\ s.local = session[d].local
      /\ s.todo = session[d].todo /\ s.made = session[d].made /\ s.followup = session[d].followup
  BY <1>1, <1>4 DEF SessionState, Phase
<1> HIDE DEF s
<1>7. SessionOK(s) /\ s.phase \in {"put", "record"}
  BY <1>1, <1>2, <1>6 DEF SessionOK
<1>8. ReadsAreKept(d, s, store) /\ CatchUpIsAt(d, s, store[d], secret[d])
  BY <1>1, <1>6, <1>7 DEF ReadsAreKept, CatchUpIsAt
<1>9. UploadIsAt(d, s, blobs)
  BY <1>5, <1>6, <1>7 DEF UploadIsAt
<1>10. MadeInv => MadeIsAt(d, s, store, situation.group)
  BY <1>1, <1>2, <1>6, <1>7 DEF MadeIsAt
<1>11. UNCHANGED <<stores, openmls>> /\ SituationKept /\ \A u \in Device : RecordsKept(u)
  BY <1>2 DEF SituationKept, TypeInv, RecordsKept, openmls
<1>12. LedgersOK'
  BY <1>2, <1>4 DEF TypeInv, LedgersOK, Settled
<1>13. RecordsHold(d)'
  <2>1. StoresGrow
    BY <1>2 DEF stores, StoresGrow
  <2> QED BY <1>11, <2>1, RecordsStillHold DEF SyncInv
<1> QED BY <1>3, <1>7, <1>8, <1>9, <1>10, <1>11, <1>12, <1>13, LocalStepKeeps

\* The uploads arrive.
LEMMA PutBlobsKeeps ==
    ASSUME TypeInv, SyncInv, NEW d \in Device, PutBlobs(d)
    PROVE  Keeps
<1> DEFINE s == [session[d] EXCEPT !.phase = "record"]
<1>1. /\ session[d] \in SessionState /\ SessionOK(session[d])
      /\ ReadsAreKept(d, session[d], store) /\ UploadIsAt(d, session[d], blobs)
      /\ MadeInv => MadeIsAt(d, session[d], store, situation.group)
  BY AtHome
<1>2. /\ session[d].phase = "put"
      /\ blobs' = [blobs EXCEPT ![Peer(d)] = blobs[Peer(d)] \cup session[d].blobs]
      /\ UNCHANGED <<store, ledgers, openmls, situation>>
  BY DEF PutBlobs, At
<1>3. session' = [session EXCEPT ![d] = s]
  BY DEF PutBlobs, TypeInv, SessionsOK
<1>4. /\ s \in SessionState /\ s.phase = "record"
      /\ s.blobs = session[d].blobs /\ s.remote = session[d].remote /\ s.local = session[d].local
      /\ s.todo = session[d].todo /\ s.made = session[d].made /\ s.followup = session[d].followup
  BY <1>1 DEF SessionState, Phase
<1> HIDE DEF s
<1>5. blobs'[Peer(d)] = blobs[Peer(d)] \cup session[d].blobs /\ store' = store
      /\ StoresOK' /\ StoresGrow /\ EventsMove
  <2>1. session[d].blobs \in SUBSET Blob
    BY <1>1 DEF SessionState
  <2> QED BY <1>2, <2>1, Peers DEF TypeInv, StoresOK, StoresGrow, EventsMove
<1>6. SessionOK(s)
  BY <1>1, <1>2, <1>4 DEF SessionOK
<1>7. ReadsAreKept(d, s, store') /\ CatchUpIsAt(d, s, store'[d], secret'[d])
  BY <1>1, <1>4, <1>5 DEF ReadsAreKept, CatchUpIsAt
<1>8. UploadIsAt(d, s, blobs')
  BY <1>1, <1>2, <1>4, <1>5 DEF UploadIsAt
<1>9. MadeInv => MadeIsAt(d, s, store', situation.group)
  BY <1>1, <1>2, <1>4, <1>5 DEF MadeIsAt
<1>10. OpenMlsOK' /\ LedgersOK' /\ SituationKept /\ \A u \in Device : RecordsKept(u)
  BY <1>2 DEF TypeInv, OpenMlsOK, LedgersOK, SituationKept, RecordsKept, ledgers, openmls
<1>11. RecordsHold(d)'
  BY <1>5, <1>10, RecordsStillHold DEF SyncInv
<1> QED BY <1>3, <1>5, <1>6, <1>7, <1>8, <1>9, <1>10, <1>11, SyncStepKeeps

\* A ledger that cannot be written costs one fault.
LEMMA WrittenSituation ==
    ASSUME TypeInv,
           \/ UNCHANGED situation
           \/ situation.faults > 0 /\ situation' = [situation EXCEPT !.faults = situation.faults - 1]
    PROVE  SituationKept
<1>1. situation \in Scenario
  BY DEF TypeInv
<1>2. CASE UNCHANGED situation
  BY <1>1, <1>2 DEF SituationKept
<1>3. CASE situation.faults > 0 /\ situation' = [situation EXCEPT !.faults = situation.faults - 1]
  <2>1. situation.faults - 1 \in Nat
    <3>1. situation.faults \in Nat
      BY <1>1 DEF Scenario
    <3> QED BY <1>3, <3>1
  <2> QED BY <1>1, <1>3, <2>1 DEF SituationKept, Scenario
<1> QED BY <1>2, <1>3

\* The scan is recorded for the inventory of the plan, whose own attachments
\* the peer has.
LEMMA RecordOutboundRepairKeeps ==
    ASSUME TypeInv, SyncInv, NEW d \in Device, RecordOutboundRepair(d)
    PROVE  Keeps
<1> DEFINE r == session[d]
           s == [r EXCEPT !.phase = IF r.followup THEN "retry" ELSE "pull", !.blobs = {},
                          !.local = IF r.followup THEN {} ELSE r.local,
                          !.remote = IF r.followup THEN {} ELSE r.remote]
           entry == [recent |-> RecentSessions, inventory |-> r.local]
<1>1. /\ session[d] \in SessionState /\ SessionOK(session[d])
      /\ ReadsAreKept(d, session[d], store) /\ UploadIsAt(d, session[d], blobs)
      /\ MadeInv => MadeIsAt(d, session[d], store, situation.group)
      /\ RecordsHold(d)
  BY AtHome
<1>2. /\ session[d].phase = "record" /\ open' = [open EXCEPT ![d] = open[d] \ r.blobs]
      /\ outbound' = outbound \/ outbound' = [outbound EXCEPT ![d] = entry]
      /\ UNCHANGED <<stores, inbound, openmls>>
  BY DEF RecordOutboundRepair, At, Written
<1>3. SituationKept
  BY WrittenSituation DEF RecordOutboundRepair, Written
<1>4. session' = [session EXCEPT ![d] = s]
  BY DEF RecordOutboundRepair, TypeInv, SessionsOK
<1>5. /\ s \in SessionState /\ s.phase = (IF r.followup THEN "retry" ELSE "pull")
      /\ s.local \subseteq r.local /\ s.remote \subseteq r.remote
      /\ s.todo = r.todo /\ s.made = r.made
  BY <1>1 DEF SessionState, Phase
<1> HIDE DEF s
<1>6. SessionOK(s) /\ s.phase \in {"retry", "pull"}
  BY <1>1, <1>2, <1>5 DEF SessionOK
<1>7. /\ ReadsAreKept(d, s, store) /\ CatchUpIsAt(d, s, store[d], secret[d])
      /\ UploadIsAt(d, s, blobs)
  BY <1>1, <1>5, <1>6 DEF ReadsAreKept, CatchUpIsAt, UploadIsAt
<1>8. MadeInv => MadeIsAt(d, s, store, situation.group)
  <2>1. r.todo = <<>> /\ Range(r.todo) = {}
    BY <1>1, <1>2, EmptyList DEF SessionOK, SessionState
  <2> QED BY <1>1, <1>2, <1>5, <1>6, <2>1 DEF MadeIsAt
<1>9. LedgersOK'
  <2>1. entry \in [recent : 0..RecentSessions, inventory : SUBSET Event]
    <3>1. RecentSessions \in 0..RecentSessions /\ r.local \in SUBSET Event
      BY <1>1, DevicesAssumption DEF SessionState
    <3> QED BY <3>1
  <2> HIDE DEF entry
  <2>2. outbound' \in [Device -> [recent : 0..RecentSessions, inventory : SUBSET Event]]
    BY <1>2, <2>1 DEF TypeInv, LedgersOK
  <2> QED BY <1>2, <2>2 DEF TypeInv, LedgersOK
<1>10. \A u \in Device : u # d => RecordsKept(u)
  BY <1>2 DEF RecordsKept, openmls, TypeInv, LedgersOK
<1>11. RecordsHold(d)'
  <2>1. /\ outbound'[d] = outbound[d] \/ outbound'[d].inventory = r.local
        /\ store' = store /\ blobs' = blobs /\ secret' = secret /\ checkpoint' = checkpoint
    BY <1>2 DEF TypeInv, LedgersOK, stores, openmls
  <2>2. OwnFiles(d, r.local) \subseteq blobs[Peer(d)]
    BY <1>1, <1>2 DEF UploadIsAt
  <2>3. outbound'[d].recent # 0 => OwnFiles(d, outbound'[d].inventory) \subseteq blobs'[Peer(d)]
    BY <1>1, <2>1, <2>2 DEF RecordsHold
  <2> QED BY <1>1, <2>1, <2>3 DEF RecordsHold
<1>12. UNCHANGED <<stores, openmls>>
  BY <1>2
<1> QED BY <1>3, <1>4, <1>6, <1>7, <1>8, <1>9, <1>10, <1>11, <1>12, LocalStepKeeps

-----------------------------------------------------------------------------
(* Fetching and storing events.                                            *)

\* What is listed for storing comes from the peer's store.
LEMMA FetchEventsKeeps ==
    ASSUME TypeInv, SyncInv, NEW d \in Device, FetchEvents(d)
    PROVE  Keeps
<1> DEFINE fetched == (session[d].remote \ session[d].local) \cap store[Peer(d)]
           todo == AppendOrder(store[d], fetched)
           s == [session[d] EXCEPT
                    !.phase = IF fetched = {} THEN AfterEventsFetched ELSE "append",
                    !.todo = todo, !.fetched = fetched # {}]
<1>1. /\ session[d] \in SessionState /\ SessionOK(session[d])
      /\ ReadsAreKept(d, session[d], store)
      /\ store[d] \in SUBSET Event /\ store[Peer(d)] \in SUBSET Event
      /\ MadeInv => MadeIsAt(d, session[d], store, situation.group)
  BY AtHome
<1>2. session[d].phase = "pull" /\ UNCHANGED <<stores, ledgers, openmls, situation>>
  BY DEF FetchEvents, At
<1>3. session' = [session EXCEPT ![d] = s]
  <2>1. session' = [session EXCEPT
                      ![d].phase = IF fetched = {} THEN AfterEventsFetched ELSE "append",
                      ![d].todo = todo, ![d].fetched = fetched # {}]
    BY DEF FetchEvents
  <2> HIDE DEF todo, fetched
  <2> QED BY <2>1 DEF TypeInv, SessionsOK
<1>4. fetched \in SUBSET Event /\ fetched \subseteq store[Peer(d)]
  BY <1>1
<1> HIDE DEF fetched
<1>5. todo \in Seq(Event) /\ Range(todo) = fetched /\ (todo = <<>> <=> fetched = {})
  BY <1>1, <1>4, AppendOrderLists, EmptyList
<1> HIDE DEF todo
<1>6. /\ s \in SessionState /\ s.remote = session[d].remote /\ s.local = session[d].local
      /\ s.todo = todo /\ s.made = session[d].made
      /\ s.phase = (IF fetched = {} THEN AfterEventsFetched ELSE "append")
  BY <1>1, <1>5 DEF SessionState, Phase, AfterEventsFetched
<1> HIDE DEF s
<1>7. /\ SessionOK(s) /\ s.phase \in {"append", "finish", "blobs"}
      /\ s.phase = "finish" => situation.group
  BY <1>5, <1>6 DEF SessionOK, AfterEventsFetched
<1>8. /\ ReadsAreKept(d, s, store) /\ UploadIsAt(d, s, blobs)
      /\ CatchUpIsAt(d, s, store[d], secret[d])
  BY <1>1, <1>4, <1>5, <1>6, <1>7 DEF ReadsAreKept, UploadIsAt, CatchUpIsAt
<1>9. MadeInv => MadeIsAt(d, s, store, situation.group)
  BY <1>1, <1>2, <1>6, <1>7 DEF MadeIsAt
<1> QED BY <1>2, <1>3, <1>7, <1>8, <1>9, QuietStepKeeps

\* One event of the peer is stored.
LEMMA AppendEventKeeps ==
    ASSUME TypeInv, SyncInv, NEW d \in Device, AppendEvent(d)
    PROVE  Keeps
<1> DEFINE todo == session[d].todo
           s == [session[d] EXCEPT
                    !.phase = IF Len(todo) = 1 THEN AfterEventsFetched ELSE "append",
                    !.todo = Tail(todo)]
<1>1. /\ session[d] \in SessionState /\ SessionOK(session[d])
      /\ ReadsAreKept(d, session[d], store)
      /\ store[d] \in SUBSET Event /\ store[Peer(d)] \in SUBSET Event
      /\ MadeInv => MadeIsAt(d, session[d], store, situation.group)
  BY AtHome
<1>2. /\ session[d].phase = "append" /\ store' = [store EXCEPT ![d] = store[d] \cup {Head(todo)}]
      /\ UNCHANGED <<blobs, ledgers, openmls, situation>>
  BY DEF AppendEvent, At
<1>3. session' = [session EXCEPT ![d] = s]
  BY DEF AppendEvent, TypeInv, SessionsOK
<1>4. todo \in Seq(Event) /\ todo # <<>> /\ Range(todo) \subseteq store[Peer(d)]
  BY <1>1, <1>2 DEF SessionState, SessionOK, ReadsAreKept
<1> HIDE DEF todo
<1>5. /\ Head(todo) \in Event /\ Head(todo) \in store[Peer(d)] /\ Tail(todo) \in Seq(Event)
      /\ Range(Tail(todo)) \subseteq store[Peer(d)] /\ (Len(todo) = 1 <=> Tail(todo) = <<>>)
  BY <1>4, HeadAndTail
<1>6. /\ s \in SessionState /\ s.remote = session[d].remote /\ s.local = session[d].local
      /\ s.todo = Tail(todo) /\ s.made = session[d].made
      /\ s.phase = (IF Tail(todo) = <<>> THEN AfterEventsFetched ELSE "append")
  BY <1>1, <1>5 DEF SessionState, Phase, AfterEventsFetched
<1> HIDE DEF s
<1>7. /\ store'[d] = store[d] \cup {Head(todo)} /\ store'[Peer(d)] = store[Peer(d)]
      /\ StoresOK' /\ StoresGrow /\ EventsMove
  <2>1. /\ store \in [Device -> SUBSET Event] /\ Peer(d) \in Device /\ Peer(d) # d
        /\ blobs' = blobs /\ blobs \in [Device -> SUBSET Blob]
    BY <1>2, Peers DEF TypeInv, StoresOK
  <2>2. store' \in [Device -> SUBSET Event]
    BY <1>2, <1>5, <2>1
  <2> QED BY <1>2, <1>5, <2>1, <2>2 DEF StoresOK, StoresGrow, EventsMove
<1>8. /\ SessionOK(s) /\ s.phase \in {"append", "finish", "blobs"}
      /\ s.phase = "finish" => situation.group
  BY <1>6 DEF SessionOK, AfterEventsFetched
<1>9. /\ ReadsAreKept(d, s, store') /\ UploadIsAt(d, s, blobs')
      /\ CatchUpIsAt(d, s, store'[d], secret'[d])
  BY <1>1, <1>5, <1>6, <1>7, <1>8 DEF ReadsAreKept, UploadIsAt, CatchUpIsAt
<1>10. MadeInv => MadeIsAt(d, s, store', situation.group)
  BY <1>1, <1>2, <1>6, <1>8 DEF MadeIsAt
<1>11. OpenMlsOK' /\ LedgersOK' /\ SituationKept /\ \A u \in Device : RecordsKept(u)
  BY <1>2 DEF TypeInv, OpenMlsOK, LedgersOK, SituationKept, RecordsKept, ledgers, openmls
<1>12. RecordsHold(d)'
  BY <1>7, <1>11, RecordsStillHold DEF SyncInv
<1> QED BY <1>3, <1>7, <1>8, <1>9, <1>10, <1>11, <1>12, SyncStepKeeps

-----------------------------------------------------------------------------
(* Catching up with the OpenMLS group.                                     *)

\* A pass starts from the store and the secrets as they are.
LEMMA SnapshotOpenMlsKeeps ==
    ASSUME TypeInv, SyncInv, NEW d \in Device, SnapshotOpenMls(d)
    PROVE  Keeps
<1> DEFINE skip == checkpoint[d] = Snapshot(d)
           s == [session[d] EXCEPT !.phase = IF skip THEN "blobs" ELSE "catchup",
                                   !.snapshot = IF skip THEN <<>> ELSE Snapshot(d)]
<1>1. /\ session[d] \in SessionState /\ SessionOK(session[d])
      /\ ReadsAreKept(d, session[d], store) /\ store[d] \in SUBSET Event
      /\ MadeInv => MadeIsAt(d, session[d], store, situation.group)
  BY AtHome
<1>2. session[d].phase = "finish" /\ UNCHANGED <<stores, ledgers, openmls, situation>>
  BY DEF SnapshotOpenMls, At
<1>3. session' = [session EXCEPT ![d] = s]
  <2>1. session' = [session EXCEPT ![d].phase = IF skip THEN "blobs" ELSE "catchup",
                                   ![d].snapshot = IF skip THEN <<>> ELSE Snapshot(d)]
    BY DEF SnapshotOpenMls
  <2> HIDE DEF skip
  <2> QED BY <2>1 DEF TypeInv, SessionsOK
<1>4. /\ Snapshot(d) \in Pair /\ Snapshot(d)[1] = store[d] /\ Snapshot(d)[2] = secret[d]
  BY <1>1 DEF Snapshot, Pair, TypeInv, OpenMlsOK
<1> HIDE DEF skip
<1>5. /\ s \in SessionState /\ s.remote = session[d].remote /\ s.local = session[d].local
      /\ s.todo = session[d].todo /\ s.made = session[d].made
      /\ s.phase = (IF skip THEN "blobs" ELSE "catchup")
      /\ s.phase = "catchup" => s.snapshot = Snapshot(d)
  BY <1>1, <1>4 DEF SessionState, Phase
<1> HIDE DEF s
<1>6. SessionOK(s) /\ s.phase \in {"blobs", "catchup"}
  BY <1>1, <1>2, <1>5 DEF SessionOK
<1>7. /\ ReadsAreKept(d, s, store) /\ UploadIsAt(d, s, blobs)
      /\ CatchUpIsAt(d, s, store[d], secret[d])
  BY <1>1, <1>4, <1>5, <1>6 DEF ReadsAreKept, UploadIsAt, CatchUpIsAt
<1>8. MadeInv => MadeIsAt(d, s, store, situation.group)
  BY <1>1, <1>2, <1>5, <1>6 DEF MadeIsAt
<1> QED BY <1>2, <1>3, <1>6, <1>7, <1>8, QuietStepKeeps

\* A pass makes what is due; if it changes no secret, nothing was due.
LEMMA CatchUpOpenMlsKeeps ==
    ASSUME TypeInv, SyncInv, NEW d \in Device, CatchUpOpenMls(d)
    PROVE  Keeps
<1> DEFINE due == DueIn(d, store[d])
           join == JoinIn(d, store[d], secret[d])
           s == [session[d] EXCEPT !.phase = "checkpoint", !.made = due]
<1>1. /\ session[d] \in SessionState /\ SessionOK(session[d])
      /\ ReadsAreKept(d, session[d], store) /\ CatchUpIsAt(d, session[d], store[d], secret[d])
      /\ store[d] \in SUBSET Event /\ RecordsHold(d)
      /\ MadeInv => MadeIsAt(d, session[d], store, situation.group)
  BY AtHome
<1>2. CatchUpDue(d) = due /\ JoinDue(d) = join
  BY DEF CatchUpDue, DueIn, JoinDue, JoinIn
<1> HIDE DEF due, join
<1>3. /\ session[d].phase = "catchup" /\ store' = [store EXCEPT ![d] = store[d] \cup due]
      /\ secret' = [secret EXCEPT ![d] = secret[d] \cup due \cup join]
      /\ UNCHANGED <<blobs, ledgers, checkpoint, situation>>
  BY <1>2 DEF CatchUpOpenMls, At
<1>4. session' = [session EXCEPT ![d] = s]
  BY <1>2 DEF CatchUpOpenMls, TypeInv, SessionsOK
<1>5. /\ due \subseteq CatchUp /\ due \cap store[d] = {}
      /\ \A e \in due : Author[e] = d /\ Parents[e] \subseteq Materialized(store[d])
  BY DEF due, DueIn
<1>6. join \subseteq store[d] /\ join \cap secret[d] = {}
  <2>1. Materialized(store[d]) \subseteq store[d]
    BY <1>1, MaterializedIsStored
  <2> QED BY <2>1 DEF join, JoinIn
<1>7. due \in SUBSET Event /\ \A e \in due : Attached[e] = {} /\ Removes[e] = {}
  BY <1>5, EventsAssumption
<1>8. /\ store \in [Device -> SUBSET Event] /\ secret \in [Device -> SUBSET Event]
      /\ Peer(d) \in Device /\ Peer(d) # d /\ blobs' = blobs /\ checkpoint' = checkpoint
      /\ inbound' = inbound /\ outbound' = outbound /\ open' = open /\ situation' = situation
  BY <1>3, Peers DEF TypeInv, StoresOK, OpenMlsOK, ledgers
<1>9. /\ store'[d] = store[d] \cup due /\ \A u \in Device : u # d => store'[u] = store[u]
      /\ secret'[d] = secret[d] \cup due \cup join
      /\ \A u \in Device : u # d => secret'[u] = secret[u]
  BY <1>3, <1>8
<1>10. StoresOK' /\ StoresGrow /\ OpenMlsOK'
  <2>1. store' \in [Device -> SUBSET Event]
    BY <1>3, <1>7, <1>8
  <2>2. secret' \in [Device -> SUBSET Event]
    <3>1. secret[d] \cup due \cup join \in SUBSET Event
      BY <1>1, <1>6, <1>7, <1>8
    <3> QED BY <1>3, <1>8, <3>1
  <2> QED BY <1>8, <1>9, <2>1, <2>2 DEF TypeInv, StoresOK, StoresGrow, OpenMlsOK
<1>11. LedgersOK' /\ SituationKept /\ \A u \in Device : u # d => RecordsKept(u)
  BY <1>8, <1>9 DEF TypeInv, LedgersOK, SituationKept, RecordsKept
<1>12. OwnAtHome' /\ OwnFilesAtHome'
  <2>1. \A u \in Device : \A e \in store'[u] : e \in store[u] \/ (u = d /\ e \in due)
    BY <1>9
  <2>2. OwnAtHome'
    BY <1>5, <1>9, <2>1 DEF SyncInv, OwnAtHome
  <2>3. OwnFilesAtHome'
    BY <1>7, <1>8, <2>1 DEF SyncInv, OwnFilesAtHome
  <2> QED BY <2>2, <2>3
<1>13. RecordsHold(d)'
  BY <1>1, <1>6, <1>8, <1>9 DEF RecordsHold
<1>14. /\ s \in SessionState /\ s.remote = session[d].remote /\ s.local = session[d].local
       /\ s.todo = session[d].todo /\ s.made = due /\ s.phase = "checkpoint"
       /\ s.snapshot = session[d].snapshot
  BY <1>1, <1>5 DEF SessionState, Phase
<1> HIDE DEF s
<1>15. SessionOK(s)
  BY <1>1, <1>3, <1>14 DEF SessionOK
<1>16. ReadsAreKept(d, s, store') /\ UploadIsAt(d, s, blobs')
  BY <1>1, <1>8, <1>9, <1>14 DEF ReadsAreKept, UploadIsAt
<1>17. CatchUpIsAt(d, s, store'[d], secret'[d])
  <2>1. /\ s.snapshot \in Pair /\ s.snapshot[1] \subseteq store[d]
        /\ s.snapshot[2] = secret[d]
    BY <1>1, <1>3, <1>14 DEF CatchUpIsAt
  <2>2. s.snapshot[1] \cup s.made \subseteq store'[d]
    BY <1>9, <1>14, <2>1
  <2>3. ASSUME s.snapshot[2] = secret'[d]
        PROVE  DueIn(d, store'[d]) = {} /\ JoinIn(d, store'[d], secret'[d]) = {}
    <3>1. due \subseteq secret[d] /\ join \subseteq secret[d]
      BY <1>9, <2>1, <2>3
    <3>2. secret[d] \subseteq store[d]
      BY <1>1 DEF RecordsHold
    <3>3. due = {} /\ join = {}
      BY <1>5, <1>6, <3>1, <3>2
    <3>4. store'[d] = store[d] /\ secret'[d] = secret[d]
      BY <1>9, <3>3
    <3> QED BY <3>3, <3>4 DEF due, join
  <2> QED BY <1>14, <2>1, <2>2, <2>3 DEF CatchUpIsAt
<1>18. TypeInv' /\ SyncInv'
  BY <1>4, <1>10, <1>11, <1>12, <1>13, <1>15, <1>16, <1>17, StepKeeps DEF SituationKept
<1>19. ASSUME MadeInv PROVE MadeInv'
  <2>1. HistoriesLoseNobody'
    BY <1>7, <1>8, <1>9, <1>19 DEF MadeInv, HistoriesLoseNobody, RemovesNobody
  <2>2. situation.group
    BY <1>1, <1>3, <1>19 DEF MadeIsAt
  <2>3. s.made \cap s.local = {}
    BY <1>1, <1>5, <1>14 DEF ReadsAreKept
  <2>4. s.made \subseteq Materialized(store'[d])
    <3>1. /\ store'[d] \in SUBSET Event /\ RemovesNobody(store'[d])
          /\ store[d] \subseteq store'[d]
      BY <1>8, <1>9, <1>10, <2>1, <2>2 DEF StoresOK, HistoriesLoseNobody
    <3>2. Materialized(store[d]) \subseteq Materialized(store'[d])
      BY <1>1, <3>1, MaterializedGrows
    <3>3. ASSUME NEW e \in due PROVE e \in Materialized(store'[d])
      <4>1. e \in Event /\ e \in store'[d] /\ Parents[e] \subseteq Materialized(store'[d])
        BY <1>5, <1>7, <1>9, <3>2
      <4> QED BY <3>1, <4>1, MaterializedWithoutRemovals
    <3> QED BY <1>14, <3>3
  <2>5. MadeIsAt(d, s, store', situation.group)
    BY <1>14, <2>2, <2>3, <2>4 DEF MadeIsAt
  <2>6. situation'.group = situation.group
    BY <1>8
  <2> QED BY <1>4, <1>10, <1>19, <2>1, <2>5, <2>6, MadeKeeps
<1> QED BY <1>18, <1>19 DEF Keeps

\* The checkpoint: nothing was due in the store and the secrets it covers.
LEMMA RecordOpenMlsCheckpointKeeps ==
    ASSUME TypeInv, SyncInv, NEW d \in Device, RecordOpenMlsCheckpoint(d)
    PROVE  Keeps
<1> DEFINE s == [session[d] EXCEPT !.phase = "blobs", !.snapshot = <<>>]
<1>1. /\ session[d] \in SessionState /\ SessionOK(session[d])
      /\ ReadsAreKept(d, session[d], store) /\ CatchUpIsAt(d, session[d], store[d], secret[d])
      /\ store[d] \in SUBSET Event /\ RecordsHold(d)
      /\ MadeInv => MadeIsAt(d, session[d], store, situation.group)
  BY AtHome
<1>2. /\ session[d].phase = "checkpoint"
      /\ checkpoint' = [checkpoint EXCEPT ![d] =
                            IF Checkpointable(d) THEN Snapshot(d) ELSE checkpoint[d]]
      /\ UNCHANGED <<stores, ledgers, secret, situation>>
  BY DEF RecordOpenMlsCheckpoint, At
<1>3. session' = [session EXCEPT ![d] = s]
  BY DEF RecordOpenMlsCheckpoint, TypeInv, SessionsOK
<1>4. /\ s \in SessionState /\ s.remote = session[d].remote /\ s.local = session[d].local
      /\ s.todo = session[d].todo /\ s.made = session[d].made /\ s.phase = "blobs"
  BY <1>1 DEF SessionState, Phase
<1> HIDE DEF s
<1>5. SessionOK(s)
  BY <1>1, <1>2, <1>4 DEF SessionOK
<1>6. /\ store' = store /\ blobs' = blobs /\ secret' = secret /\ situation' = situation
      /\ inbound' = inbound /\ outbound' = outbound /\ open' = open
  BY <1>2 DEF stores, ledgers
<1>7. /\ ReadsAreKept(d, s, store') /\ UploadIsAt(d, s, blobs')
      /\ CatchUpIsAt(d, s, store'[d], secret'[d])
  BY <1>1, <1>4, <1>6 DEF ReadsAreKept, UploadIsAt, CatchUpIsAt
<1>8. MadeInv => MadeIsAt(d, s, store', situation.group)
  BY <1>1, <1>2, <1>4, <1>6 DEF MadeIsAt
<1>9. StoresOK' /\ LedgersOK' /\ SituationKept /\ StoresGrow /\ EventsMove
  BY <1>6 DEF TypeInv, StoresOK, LedgersOK, SituationKept, StoresGrow, EventsMove
<1>10. Snapshot(d) \in Pair /\ Snapshot(d)[1] = store[d] /\ Snapshot(d)[2] = secret[d]
  BY <1>1 DEF Snapshot, Pair, TypeInv, OpenMlsOK
<1>11. /\ checkpoint \in [Device -> Pair \cup {<<>>}]
       /\ checkpoint'[d] = IF Checkpointable(d) THEN Snapshot(d) ELSE checkpoint[d]
       /\ \A u \in Device : u # d => checkpoint'[u] = checkpoint[u]
  BY <1>2 DEF TypeInv, OpenMlsOK
<1>12. OpenMlsOK'
  BY <1>2, <1>6, <1>10, <1>11 DEF TypeInv, OpenMlsOK
<1>13. \A u \in Device : u # d => RecordsKept(u)
  BY <1>6, <1>11 DEF RecordsKept
<1>14. RecordsHold(d)'
  <2>1. ASSUME Checkpointable(d)
        PROVE  DueIn(d, store[d]) = {} /\ JoinIn(d, store[d], secret[d]) = {}
    BY <1>1, <1>2, <2>1 DEF Checkpointable, CatchUpIsAt
  <2>2. checkpoint'[d] # <<>> => /\ DueIn(d, checkpoint'[d][1]) = {}
                                 /\ JoinIn(d, checkpoint'[d][1], checkpoint'[d][2]) = {}
    <3>1. CASE Checkpointable(d)
      BY <1>10, <1>11, <2>1, <3>1
    <3>2. CASE ~Checkpointable(d)
      BY <1>1, <1>11, <3>2 DEF RecordsHold
    <3> QED BY <3>1, <3>2
  <2> QED BY <1>1, <1>6, <2>2 DEF RecordsHold
<1> QED BY <1>3, <1>5, <1>7, <1>8, <1>9, <1>12, <1>13, <1>14, SyncStepKeeps

-----------------------------------------------------------------------------
(* Fetching attachments.                                                   *)

\* What the device lacks is listed; the inventories are kept for a follow-up.
LEMMA ScanMissingBlobsKeeps ==
    ASSUME TypeInv, SyncInv, NEW d \in Device, ScanMissingBlobs(d)
    PROVE  Keeps
<1> DEFINE r == session[d]
           full == InboundScanDue(d)
           wanted == IF full THEN AttachmentBlobHashes(Materialized(store[d]))
                     ELSE inbound[d].pending
           s == [r EXCEPT !.phase = IF ~full /\ wanted = {} THEN AfterPull(d) ELSE "fetch",
                          !.blobs = wanted \ blobs[d], !.full = full, !.fetched = FALSE,
                          !.remote = IF r.made = {} THEN {} ELSE r.remote,
                          !.local = IF r.made = {} THEN {} ELSE r.local]
<1>1. /\ session[d] \in SessionState /\ SessionOK(session[d])
      /\ ReadsAreKept(d, session[d], store) /\ store[d] \in SUBSET Event
      /\ MadeInv => MadeIsAt(d, session[d], store, situation.group)
  BY AtHome
<1>2. r.phase = "blobs" /\ UNCHANGED <<stores, ledgers, openmls, situation>>
  BY DEF ScanMissingBlobs, At
<1>3. wanted \in SUBSET Blob /\ full \in BOOLEAN
  <2>1. inbound[d].pending \in SUBSET Blob
    BY DEF TypeInv, LedgersOK
  <2>2. AttachmentBlobHashes(Materialized(store[d])) \in SUBSET Blob
    BY <1>1, OwnFilesAreScanned
  <2>3. full \in BOOLEAN
    BY <1>1 DEF SessionState, InboundScanDue
  <2> HIDE DEF full
  <2> QED BY <2>1, <2>2, <2>3
<1>4. session' = [session EXCEPT
          ![d].phase = IF ~full /\ wanted = {} THEN AfterPull(d) ELSE "fetch",
          ![d].blobs = wanted \ blobs[d], ![d].full = full, ![d].fetched = FALSE,
          ![d].remote = IF r.made = {} THEN {} ELSE r.remote,
          ![d].local = IF r.made = {} THEN {} ELSE r.local]
  BY DEF ScanMissingBlobs, TypeInv, SessionsOK
<1> HIDE DEF full, wanted
<1>5. session' = [session EXCEPT ![d] = s]
  BY <1>4 DEF TypeInv, SessionsOK
<1>6. /\ s \in SessionState /\ s.remote \subseteq r.remote /\ s.local \subseteq r.local
      /\ s.todo = r.todo /\ s.made = r.made
      /\ s.phase = "fetch" \/ s.phase = AfterPull(d)
  <2> DEFINE phase == IF ~full /\ wanted = {} THEN AfterPull(d) ELSE "fetch"
             remote == IF r.made = {} THEN {} ELSE r.remote
             local == IF r.made = {} THEN {} ELSE r.local
             needed == wanted \ blobs[d]
  <2>1. /\ phase \in Phase /\ (phase = "fetch" \/ phase = AfterPull(d))
        /\ needed \in SUBSET Blob
    BY <1>3 DEF Phase, AfterPull
  <2>2. /\ remote \in SUBSET Event /\ remote \subseteq r.remote
        /\ local \in SUBSET Event /\ local \subseteq r.local
    BY <1>1 DEF SessionState
  <2>3. s = [r EXCEPT !.phase = phase, !.blobs = needed, !.full = full, !.fetched = FALSE,
                      !.remote = remote, !.local = local]
    OBVIOUS
  <2> HIDE DEF phase, remote, local, needed, s
  <2> QED BY <1>1, <1>3, <2>1, <2>2, <2>3 DEF SessionState
<1> HIDE DEF s
<1>7. /\ SessionOK(s) /\ s.phase \in {"fetch", "followup", "retry"}
      /\ s.phase = "retry" => s.made = {}
  BY <1>1, <1>2, <1>6 DEF SessionOK, AfterPull
<1>8. /\ ReadsAreKept(d, s, store) /\ UploadIsAt(d, s, blobs)
      /\ CatchUpIsAt(d, s, store[d], secret[d])
  BY <1>1, <1>6, <1>7 DEF ReadsAreKept, UploadIsAt, CatchUpIsAt
<1>9. MadeInv => MadeIsAt(d, s, store, situation.group)
  BY <1>1, <1>2, <1>6, <1>7 DEF MadeIsAt
<1> QED BY <1>2, <1>5, <1>7, <1>8, <1>9, QuietStepKeeps

\* One attachment is fetched, or found missing.
LEMMA FetchBlobKeeps ==
    ASSUME TypeInv, SyncInv, NEW d \in Device, FetchBlob(d)
    PROVE  Keeps
<1> DEFINE h == CHOOSE x \in session[d].blobs : TRUE
           found == {h} \cap blobs[Peer(d)]
           s == [session[d] EXCEPT !.blobs = session[d].blobs \ {h},
                                   !.missing = session[d].missing \cup ({h} \ found)]
<1>1. /\ session[d] \in SessionState /\ SessionOK(session[d])
      /\ ReadsAreKept(d, session[d], store)
      /\ MadeInv => MadeIsAt(d, session[d], store, situation.group)
  BY AtHome
<1>2. /\ session[d].phase = "fetch" /\ session[d].blobs # {}
      /\ blobs' = [blobs EXCEPT ![d] = blobs[d] \cup found]
      /\ UNCHANGED <<store, ledgers, openmls, situation>>
  BY DEF FetchBlob, At
<1>3. h \in Blob
  BY <1>1, <1>2 DEF SessionState
<1>4. session' = [session EXCEPT ![d].blobs = session[d].blobs \ {h},
                                 ![d].missing = session[d].missing \cup ({h} \ found)]
  BY DEF FetchBlob, TypeInv, SessionsOK
<1> HIDE DEF h
<1>5. session' = [session EXCEPT ![d] = s]
  BY <1>4 DEF TypeInv, SessionsOK
<1>6. /\ s \in SessionState /\ s.remote = session[d].remote /\ s.local = session[d].local
      /\ s.todo = session[d].todo /\ s.made = session[d].made /\ s.phase = "fetch"
  BY <1>1, <1>2, <1>3 DEF SessionState
<1> HIDE DEF s
<1>7. store' = store /\ StoresOK' /\ StoresGrow /\ EventsMove
  BY <1>2, <1>3 DEF TypeInv, StoresOK, StoresGrow, EventsMove
<1>8. SessionOK(s)
  BY <1>1, <1>2, <1>6 DEF SessionOK
<1>9. /\ ReadsAreKept(d, s, store') /\ UploadIsAt(d, s, blobs')
      /\ CatchUpIsAt(d, s, store'[d], secret'[d])
  BY <1>1, <1>6, <1>7 DEF ReadsAreKept, UploadIsAt, CatchUpIsAt
<1>10. MadeInv => MadeIsAt(d, s, store', situation.group)
  BY <1>1, <1>2, <1>6, <1>7 DEF MadeIsAt
<1>11. OpenMlsOK' /\ LedgersOK' /\ SituationKept /\ \A u \in Device : RecordsKept(u)
  BY <1>2 DEF TypeInv, OpenMlsOK, LedgersOK, SituationKept, RecordsKept, ledgers, openmls
<1>12. RecordsHold(d)'
  BY <1>7, <1>11, RecordsStillHold DEF SyncInv
<1> QED BY <1>5, <1>7, <1>8, <1>9, <1>10, <1>11, <1>12, SyncStepKeeps

\* What was missing is recorded.
LEMMA RecordInboundRepairKeeps ==
    ASSUME TypeInv, SyncInv, NEW d \in Device, RecordInboundRepair(d)
    PROVE  Keeps
<1> DEFINE r == session[d]
           s == [r EXCEPT !.phase = AfterPull(d), !.missing = {}, !.full = FALSE]
           entry == [recent |-> IF r.full THEN RecentSessions ELSE inbound[d].recent,
                     pending |-> r.missing]
<1>1. /\ session[d] \in SessionState /\ SessionOK(session[d])
      /\ ReadsAreKept(d, session[d], store)
      /\ MadeInv => MadeIsAt(d, session[d], store, situation.group)
  BY AtHome
<1>2. /\ r.phase = "fetch"
      /\ inbound' = inbound \/ inbound' = [inbound EXCEPT ![d] = entry]
      /\ UNCHANGED <<stores, outbound, open, openmls>>
  BY DEF RecordInboundRepair, At, Written
<1>3. SituationKept
  BY WrittenSituation DEF RecordInboundRepair, Written
<1>4. session' = [session EXCEPT ![d] = s]
  BY DEF RecordInboundRepair, TypeInv, SessionsOK
<1>5. /\ s \in SessionState /\ s.remote = r.remote /\ s.local = r.local
      /\ s.todo = r.todo /\ s.made = r.made /\ s.phase = AfterPull(d)
  BY <1>1 DEF SessionState, Phase, AfterPull
<1> HIDE DEF s
<1>6. /\ SessionOK(s) /\ s.phase \in {"followup", "retry"}
      /\ s.phase = "retry" => s.made = {}
  BY <1>1, <1>2, <1>5 DEF SessionOK, AfterPull
<1>7. /\ ReadsAreKept(d, s, store) /\ UploadIsAt(d, s, blobs)
      /\ CatchUpIsAt(d, s, store[d], secret[d])
  BY <1>1, <1>5, <1>6 DEF ReadsAreKept, UploadIsAt, CatchUpIsAt
<1>8. MadeInv => MadeIsAt(d, s, store, situation.group)
  BY <1>1, <1>2, <1>5, <1>6 DEF MadeIsAt
<1>9. LedgersOK'
  <2>1. entry \in [recent : 0..RecentSessions, pending : SUBSET Blob]
    <3>1. /\ RecentSessions \in 0..RecentSessions /\ r.missing \in SUBSET Blob
          /\ inbound[d].recent \in 0..RecentSessions
      BY <1>1, DevicesAssumption DEF SessionState, TypeInv, LedgersOK
    <3> QED BY <3>1
  <2> HIDE DEF entry
  <2>2. inbound' \in [Device -> [recent : 0..RecentSessions, pending : SUBSET Blob]]
    BY <1>2, <2>1 DEF TypeInv, LedgersOK
  <2> QED BY <1>2, <2>2 DEF TypeInv, LedgersOK
<1>10. UNCHANGED <<stores, openmls>> /\ \A u \in Device : RecordsKept(u)
  BY <1>2 DEF RecordsKept, openmls
<1>11. RecordsHold(d)'
  <2>1. StoresGrow
    BY <1>2 DEF stores, StoresGrow
  <2> QED BY <1>10, <2>1, RecordsStillHold DEF SyncInv
<1> QED BY <1>3, <1>4, <1>6, <1>7, <1>8, <1>9, <1>10, <1>11, LocalStepKeeps

-----------------------------------------------------------------------------
(* The end of a session, and what happens beside the sessions.             *)

\* What catching up made goes out, unless the peer had it at the start.
LEMMA PublishFollowUpKeeps ==
    ASSUME TypeInv, SyncInv, NEW d \in Device, PublishFollowUp(d)
    PROVE  Keeps
<1> DEFINE publish == store[d] \ KnownToPeer(d)
           s == Publishing(d, publish, TRUE)
<1>1. /\ ReadsAreKept(d, session[d], store) /\ store[d] \in SUBSET Event
      /\ MadeInv => MadeIsAt(d, session[d], store, situation.group)
  BY AtHome
<1>2. /\ session[d].phase = "followup" /\ session' = [session EXCEPT ![d] = s]
      /\ UNCHANGED <<stores, ledgers, openmls, situation>>
  BY DEF PublishFollowUp, At
<1>3. publish \in SUBSET store[d]
  OBVIOUS
<1>4. \A e \in store[d] : e \in publish <=> e \notin session[d].remote /\ e \notin session[d].local
  BY DEF KnownToPeer
<1> HIDE DEF publish, s
<1>5. /\ SessionOK(s) /\ ReadsAreKept(d, s, store)
      /\ UploadIsAt(d, s, blobs) /\ CatchUpIsAt(d, s, store[d], secret[d])
      /\ s.made = session[d].made /\ s.followup = TRUE
      /\ s.phase \in {"publish", "upload", "record"}
      /\ Range(s.todo) = publish \cap Materialized(store[d])
  BY <1>3, PublishingIsSafe DEF s
<1>6. ASSUME MadeInv PROVE MadeIsAt(d, s, store, situation.group)
  <2>1. /\ MadeIsAt(d, session[d], store, situation.group)
        /\ session[d].remote \subseteq store[Peer(d)]
    BY <1>1, <1>6 DEF ReadsAreKept
  <2>2. /\ session[d].made \cap session[d].local = {}
        /\ session[d].made \subseteq Materialized(store[d])
    BY <1>2, <2>1 DEF MadeIsAt
  <2>3. Materialized(store[d]) \subseteq store[d]
    BY <1>1, MaterializedIsStored
  <2>4. s.made \subseteq Range(s.todo) \cup store[Peer(d)]
    BY <1>4, <1>5, <2>1, <2>2, <2>3
  <2>5. s.made # {} => situation.group
    BY <1>5, <2>1 DEF MadeIsAt
  <2> QED BY <1>5, <2>4, <2>5 DEF MadeIsAt
<1> QED BY <1>2, <1>5, <1>6, QuietStepKeeps

\* Open attempts are retried, and the session ends.
LEMMA RetryTransfersKeeps ==
    ASSUME TypeInv, SyncInv, NEW d \in Device, RetryTransfers(d)
    PROVE  Keeps
<1> DEFINE again == open[d] \cap blobs[d] \cap AttachmentBlobHashes(Materialized(store[d]))
<1>1. again \in SUBSET Blob
  BY DEF TypeInv, LedgersOK
<1>2. /\ session' = [session EXCEPT ![d] = NoSession]
      /\ UNCHANGED <<store, inbound, outbound, openmls>>
      /\ \/ UNCHANGED <<open, blobs>>
         \/ /\ open' = [open EXCEPT ![d] = Settled(d, again)]
            /\ blobs' = [blobs EXCEPT ![Peer(d)] = blobs[Peer(d)] \cup again]
  BY DEF RetryTransfers, Written
<1>3. SituationKept
  BY WrittenSituation DEF RetryTransfers, Written
<1> HIDE DEF again
<1>4. StoresOK' /\ StoresGrow /\ EventsMove
  BY <1>1, <1>2, Peers DEF TypeInv, StoresOK, StoresGrow, EventsMove
<1>5. LedgersOK'
  BY <1>1, <1>2 DEF TypeInv, LedgersOK, Settled
<1>6. OpenMlsOK' /\ \A u \in Device : RecordsKept(u)
  BY <1>2 DEF TypeInv, OpenMlsOK, openmls, RecordsKept
<1>7. RecordsHold(d)'
  BY <1>4, <1>6, RecordsStillHold DEF SyncInv
<1> QED BY <1>2, <1>3, <1>4, <1>5, <1>6, <1>7, NoSessionIsSafe, SyncStepKeeps

\* A failure or a crash ends the session; what it stored stays.
LEMMA FailKeeps ==
    ASSUME TypeInv, SyncInv, NEW d \in Device, Fail(d)
    PROVE  Keeps
<1>1. /\ session' = [session EXCEPT ![d] = NoSession]
      /\ UNCHANGED <<stores, ledgers, openmls>>
  BY DEF Fail
<1>2. SituationKept
  BY WrittenSituation DEF Fail
<1>3. UNCHANGED <<stores, openmls>> /\ LedgersOK' /\ \A u \in Device : RecordsKept(u)
  BY <1>1 DEF ledgers, openmls, TypeInv, LedgersOK, RecordsKept
<1>4. RecordsHold(d)'
  <2>1. StoresGrow
    BY <1>1 DEF stores, StoresGrow
  <2> QED BY <1>3, <2>1, RecordsStillHold DEF SyncInv
<1> QED BY <1>1, <1>2, <1>3, <1>4, NoSessionIsSafe, LocalStepKeeps

\* A user writes an event: it is at home, with its attachments.
LEMMA WriteEventKeeps ==
    ASSUME TypeInv, SyncInv, NEW d \in Device, NEW e \in Event, WriteEvent(d, e)
    PROVE  Keeps
<1>1. /\ e \in situation.writes /\ Author[e] = d
      /\ store' = [store EXCEPT ![d] = store[d] \cup {e}]
      /\ blobs' = [blobs EXCEPT ![d] = blobs[d] \cup Attached[e]]
      /\ session' = session /\ UNCHANGED <<ledgers, openmls, situation>>
  BY DEF WriteEvent
<1>2. /\ session = [session EXCEPT ![d] = session[d]] /\ SessionOK(session[d])
      /\ ReadsAreKept(d, session[d], store) /\ UploadIsAt(d, session[d], blobs)
      /\ CatchUpIsAt(d, session[d], store[d], secret[d]) /\ RecordsHold(d)
      /\ MadeInv => MadeIsAt(d, session[d], store, situation.group)
  BY AtHome
<1>3. session' = [session EXCEPT ![d] = session[d]]
  BY <1>1, <1>2
<1>4. /\ store \in [Device -> SUBSET Event] /\ blobs \in [Device -> SUBSET Blob]
      /\ Attached[e] \in SUBSET Blob
  BY DEF TypeInv, StoresOK, Blob
<1>5. StoresOK' /\ StoresGrow
  <2>1. store' \in [Device -> SUBSET Event] /\ blobs' \in [Device -> SUBSET Blob]
    BY <1>1, <1>4
  <2> QED BY <1>1, <1>4, <2>1 DEF StoresOK, StoresGrow
<1>6. /\ store'[d] = store[d] \cup {e} /\ \A u \in Device : u # d => store'[u] = store[u]
      /\ blobs'[d] = blobs[d] \cup Attached[e]
  BY <1>1, <1>4
<1>7. LedgersOK' /\ OpenMlsOK' /\ SituationKept /\ \A u \in Device : RecordsKept(u)
  BY <1>1 DEF TypeInv, LedgersOK, OpenMlsOK, SituationKept, RecordsKept, ledgers, openmls
<1>8. RecordsHold(d)'
  BY <1>5, <1>7, RecordsStillHold DEF SyncInv
<1>9. OwnAtHome' /\ OwnFilesAtHome'
  <2>1. \A u \in Device : \A x \in store'[u] : x \in store[u] \/ (u = d /\ x = e)
    BY <1>6
  <2>2. OwnAtHome'
    BY <1>1, <1>5, <1>6, <2>1 DEF SyncInv, OwnAtHome, StoresGrow
  <2>3. OwnFilesAtHome'
    BY <1>5, <1>6, <2>1 DEF SyncInv, OwnFilesAtHome, StoresGrow
  <2> QED BY <2>2, <2>3
<1>10. secret'[d] = secret[d] /\ SessionSafe(d, session[d])
  BY <1>7 DEF RecordsKept, SyncInv
<1>11. /\ ReadsAreKept(d, session[d], store') /\ UploadIsAt(d, session[d], blobs')
       /\ CatchUpIsAt(d, session[d], store'[d], secret'[d])
  BY <1>5, <1>10, SessionStaysSafe
<1>12. TypeInv' /\ SyncInv'
  BY <1>2, <1>3, <1>5, <1>7, <1>8, <1>9, <1>11, StepKeeps DEF SituationKept
<1>13. ASSUME MadeInv PROVE MadeInv'
  <2>1. HistoriesLoseNobody'
    BY <1>1, <1>6, <1>7, <1>13 DEF MadeInv, HistoriesLoseNobody, RemovesNobody, SituationKept
  <2>2. situation.group => Materialized(store[d]) \subseteq Materialized(store'[d])
    <3>1. store[d] \in SUBSET Event /\ store'[d] \in SUBSET Event /\ store[d] \subseteq store'[d]
      BY <1>4, <1>5 DEF StoresOK, StoresGrow
    <3>2. situation.group => RemovesNobody(store'[d])
      BY <1>7, <2>1 DEF HistoriesLoseNobody, SituationKept
    <3> QED BY <3>1, <3>2, MaterializedGrows
  <2>3. store[Peer(d)] \subseteq store'[Peer(d)]
    BY <1>5, Peers DEF StoresGrow
  <2>4. MadeIsAt(d, session[d], store', situation.group)
    BY <1>2, <1>13, <2>2, <2>3 DEF MadeIsAt
  <2> QED BY <1>3, <1>5, <1>7, <1>13, <2>1, <2>4, MadeKeeps DEF SituationKept
<1> QED BY <1>12, <1>13 DEF Keeps

-----------------------------------------------------------------------------
(* The theorems.                                                           *)

\* At the start: no session, no records, and every device has its own events.
LEMMA InitIsSafe ==
    ASSUME Init
    PROVE  TypeInv /\ SyncInv /\ (GroupsLoseNobody => MadeInv)
<1>1. situation \in Scenarios /\ situation \in Scenario
  BY ScenariosAssumption DEF Init
<1>2. store = situation.stored /\ store \in [Device -> SUBSET Event]
  BY <1>1 DEF Init, Scenario
<1>3. \A d \in Device : blobs[d] = AttachmentBlobHashes({e \in store[d] : Author[e] = d})
  BY DEF Init
<1>4. blobs \in [Device -> SUBSET Blob]
  <2>1. \A d \in Device : blobs[d] \in SUBSET Blob
    BY <1>2, <1>3 DEF AttachmentBlobHashes, Blob
  <2>2. blobs = [d \in Device |-> blobs[d]]
    BY DEF Init
  <2> QED BY <2>1, <2>2
<1>5. /\ session = [d \in Device |-> NoSession]
      /\ inbound = [d \in Device |-> [recent |-> 0, pending |-> {}]]
      /\ outbound = [d \in Device |-> [recent |-> 0, inventory |-> {}]]
      /\ open = [d \in Device |-> {}] /\ secret = [d \in Device |-> {}]
      /\ checkpoint = [d \in Device |-> <<>>]
  BY DEF Init
<1>6. 0 \in 0..RecentSessions
  BY DevicesAssumption
<1>7. LedgersOK /\ OpenMlsOK
  BY <1>5, <1>6 DEF LedgersOK, OpenMlsOK
<1>8. SessionsOK /\ \A d \in Device : session[d] = NoSession
  <2>1. SessionOK(NoSession) /\ NoSession \in SessionState
    BY NoSessionIsSafe DEF SessionOK
  <2> QED BY <1>5, <2>1 DEF SessionsOK
<1>9. TypeInv
  BY <1>1, <1>2, <1>4, <1>7, <1>8 DEF TypeInv, StoresOK
<1>10. OwnAtHome
  BY <1>1, <1>2, ScenariosAssumption DEF OwnAtHome
<1>11. OwnFilesAtHome
  BY <1>3 DEF OwnFilesAtHome, AttachmentBlobHashes
<1>12. ASSUME NEW d \in Device
       PROVE  SessionSafe(d, session[d]) /\ RecordsHold(d)
  <2>1. SessionSafe(d, session[d])
    BY <1>8, NoSessionIsSafe DEF SessionSafe
  <2> QED BY <1>5, <2>1 DEF RecordsHold
<1>13. ASSUME GroupsLoseNobody PROVE MadeInv
  <2>1. HistoriesLoseNobody
    BY <1>1, <1>2, <1>13 DEF GroupsLoseNobody, HistoriesLoseNobody
  <2> QED BY <1>8, <2>1, NoSessionIsSafe DEF MadeInv
<1> QED BY <1>9, <1>10, <1>11, <1>12, <1>13 DEF SyncInv

\* Every step keeps the invariants.
LEMMA NextKeeps ==
    ASSUME TypeInv, SyncInv, [Next]_vars
    PROVE  Keeps
<1>1. CASE UNCHANGED vars
  <2>1. /\ store' = store /\ blobs' = blobs /\ session' = session /\ inbound' = inbound
        /\ outbound' = outbound /\ open' = open /\ secret' = secret
        /\ checkpoint' = checkpoint /\ situation' = situation
    BY <1>1 DEF vars, stores, ledgers, openmls
  <2>2. TypeInv'
    BY <2>1 DEF TypeInv, StoresOK, SessionsOK, LedgersOK, OpenMlsOK
  <2>3. SyncInv'
    BY <2>1 DEF SyncInv, OwnAtHome, OwnFilesAtHome, SessionSafe, RecordsHold
  <2>4. MadeInv => MadeInv'
    BY <2>1 DEF MadeInv, HistoriesLoseNobody
  <2> QED BY <2>2, <2>3, <2>4 DEF Keeps
<1>2. CASE Next
  <2>1. PICK d \in Device : \/ FetchWorkspaceInventory(d) \/ SyncStep(d) \/ Fail(d)
                            \/ \E e \in Event : WriteEvent(d, e)
    BY <1>2 DEF Next
  <2>2. CASE SyncStep(d)
    BY <2>2, PlanWorkspaceSyncKeeps, PublishEventsKeeps, StartUploadsKeeps, PutBlobsKeeps,
       RecordOutboundRepairKeeps, FetchEventsKeeps, AppendEventKeeps, SnapshotOpenMlsKeeps,
       CatchUpOpenMlsKeeps, RecordOpenMlsCheckpointKeeps, ScanMissingBlobsKeeps,
       FetchBlobKeeps, RecordInboundRepairKeeps, PublishFollowUpKeeps, RetryTransfersKeeps
    DEF SyncStep
  <2> QED BY <2>1, <2>2, FetchWorkspaceInventoryKeeps, FailKeeps, WriteEventKeeps
<1> QED BY <1>1, <1>2

\* TypeInv is TypeOK with the shape of the records.
LEMMA TypeInvImpliesTypeOK == TypeInv => TypeOK
<1> SUFFICES ASSUME TypeInv PROVE TypeOK
  OBVIOUS
<1>1. ASSUME NEW d \in Device
      PROVE  LET s == session[d] IN
             /\ s.phase \in Phase /\ s.remote \subseteq Event /\ s.local \subseteq Event
             /\ Range(s.todo) \subseteq Event /\ s.blobs \subseteq Blob /\ s.missing \subseteq Blob
             /\ {s.fetched, s.full, s.followup} \subseteq BOOLEAN
             /\ s.made \subseteq CatchUp
             /\ s.phase = "idle" => s = NoSession
  <2>1. session[d] \in SessionState /\ SessionOK(session[d])
    BY DEF TypeInv, SessionsOK
  <2>2. Range(session[d].todo) \subseteq Event
    BY <2>1, EmptyList DEF SessionState
  <2> QED BY <2>1, <2>2 DEF SessionState, SessionOK
<1>2. \A d \in Device : checkpoint[d] = <<>> \/ checkpoint[d] \in (SUBSET Event) \X (SUBSET Event)
  BY DEF TypeInv, OpenMlsOK, Pair
<1> QED BY <1>1, <1>2 DEF TypeOK, TypeInv, StoresOK, LedgersOK, OpenMlsOK, Scenario

\* A matching record of a scan, and a matching checkpoint, are right.
LEMMA RecordsAreRight ==
    ASSUME TypeInv, SyncInv
    PROVE  SkippedScansMissNothing /\ CheckpointsCoverTheirWork
<1>1. ASSUME NEW d \in Device, ~OutboundRepairDue(d, store[d])
      PROVE  AttachmentBlobHashes({e \in Materialized(store[d]) : Author[e] = d})
                \subseteq blobs[Peer(d)]
  <2>1. outbound[d].recent # 0 /\ outbound[d].inventory = store[d]
    BY <1>1 DEF OutboundRepairDue
  <2> QED BY <2>1 DEF SyncInv, RecordsHold, OwnFiles
<1>2. ASSUME NEW d \in Device, checkpoint[d] = Snapshot(d)
      PROVE  CatchUpDue(d) = {} /\ JoinDue(d) = {}
  <2>1. checkpoint[d] # <<>> /\ checkpoint[d][1] = store[d] /\ checkpoint[d][2] = secret[d]
    BY <1>2 DEF Snapshot
  <2>2. DueIn(d, store[d]) = {} /\ JoinIn(d, store[d], secret[d]) = {}
    BY <2>1 DEF SyncInv, RecordsHold
  <2> QED BY <2>2 DEF CatchUpDue, DueIn, JoinDue, JoinIn
<1> QED BY <1>1, <1>2 DEF SkippedScansMissNothing, CheckpointsCoverTheirWork

\* The inductive invariant: what the sessions have read is still there, how far
\* their uploads and the catching up have come, and what the records say.
THEOREM SyncInvariant == Spec => [](TypeInv /\ SyncInv)
<1>1. Init => TypeInv /\ SyncInv
  BY InitIsSafe
<1>2. TypeInv /\ SyncInv /\ [Next]_vars => (TypeInv /\ SyncInv)'
  BY NextKeeps DEF Keeps
<1> QED BY <1>1, <1>2, PTL DEF Spec

\* Type correctness of sync_workspace_direct, its ledgers and its checkpoint.
THEOREM SyncTypeCorrect == Spec => []TypeOK
<1>1. TypeInv /\ SyncInv => TypeOK
  BY TypeInvImpliesTypeOK
<1> QED BY <1>1, SyncInvariant, PTL

\* When outbound_blob_full_repair_due lets a session skip its scan, the peer has
\* every attachment of the device's own events, whatever was lost or written
\* between the plan, the uploads and the record.
THEOREM SkippedScansAreSafe == Spec => []SkippedScansMissNothing
<1>1. TypeInv /\ SyncInv => SkippedScansMissNothing
  BY RecordsAreRight
<1> QED BY <1>1, SyncInvariant, PTL

\* When openmls-reconcile-checkpoint.json matches and the catching up is skipped,
\* there is nothing to make and nothing to join with.
THEOREM CheckpointsAreSafe == Spec => []CheckpointsCoverTheirWork
<1>1. TypeInv /\ SyncInv => CheckpointsCoverTheirWork
  BY RecordsAreRight
<1> QED BY <1>1, SyncInvariant, PTL

\* If nobody is removed where devices join the group, the peer has what catching
\* up made when a session ends without an error (followup_sync_plan).
THEOREM FollowUpsAreDelivered ==
    ASSUME GroupsLoseNobody
    PROVE  Spec => FollowUpsDeliver
<1>1. Init => TypeInv /\ SyncInv /\ MadeInv
  BY InitIsSafe
<1>2. TypeInv /\ SyncInv /\ MadeInv /\ [Next]_vars => (TypeInv /\ SyncInv /\ MadeInv)'
  BY NextKeeps DEF Keeps
<1>3. MadeInv =>
        [\A d \in Device : RetryTransfers(d) => session[d].made \subseteq store[Peer(d)]]_vars
  BY DEF MadeInv, MadeIsAt, RetryTransfers, At
<1> QED BY <1>1, <1>2, <1>3, PTL DEF Spec, FollowUpsDeliver

-----------------------------------------------------------------------------
(* Gaps.  A device that keeps an event without a parent has refused the    *)
(* parent, as long as removals stand.                                      *)

\* Nobody removes m.
Safe(m) == \A f \in Event : m \notin Removes[f]

\* Whatever removals build on is in K.  Who signed a removal or an event of K is
\* never removed, and nobody else removes whom an event of K removes.
StandOn(K) ==
    /\ \A e \in Event : Removes[e] # {} => Parents[e] \subseteq K /\ Safe(Author[e])
    /\ \A e \in K : /\ Parents[e] \subseteq K /\ Safe(Author[e])
                    /\ \A f \in Event \ {e} : Removes[e] \cap Removes[f] = {}

RemovalsStand == \E K \in SUBSET Event : StandOn(K)

\* The devices start with complete histories.
StartComplete ==
    \A s \in Scenarios : \A d \in Device : \A e \in s.stored[d] : Parents[e] \subseteq s.stored[d]

\* What GapsAreRefusals says of one history.
Gaps(S) == \A e \in S : \A p \in Parents[e] \ S : ~Admits(S, p)

Closed(A) == \A e \in A : Parents[e] \subseteq A

\* The events of a history that have their parents in it, and so on.
Complete(S) == UNION {A \in SUBSET S : Closed(A)}

\* The elements of a list before place n.
Before(todo, n) == {todo[m] : m \in 1..(n - 1)}

\* Whoever has T gets the events of a request with their parents, or would
\* refuse the parents now.
Feeds(todo, T) ==
    \A n \in 1..Len(todo) : \A p \in Parents[todo[n]] :
        p \in T \cup Before(todo, n) \/ ~Admits(T, p)

\* Whoever has T and stores the list one by one has the parents of each event,
\* or would refuse them when it stores the event.
Fills(todo, T) ==
    \A n \in 1..Len(todo) : \A p \in Parents[todo[n]] :
        p \in T \cup Before(todo, n) \/ ~Admits(T \cup Before(todo, n), p)

\* The phases of a session that publishes what catching up made.
FollowUpPhase == {"publish", "upload", "put", "record", "retry"}

\* What a session s of d knows of gaps.
GapsAt(d, s, stored) ==
    /\ Gaps(s.remote) /\ (s.followup => s.phase \in FollowUpPhase)
    /\ s.local \ stored[Peer(d)] \subseteq Complete(s.local)
    /\ s.phase = "publish" => Feeds(s.todo, stored[Peer(d)])
    /\ s.phase = "append" => Fills(s.todo, stored[d])
    /\ ~s.followup => Materialized(s.local) \ s.remote \subseteq Range(s.todo) \cup stored[Peer(d)]

GapInv ==
    \A d \in Device :
        /\ Gaps(store[d]) /\ store[d] \ store[Peer(d)] \subseteq Complete(store[d])
        /\ GapsAt(d, session[d], store)

\* The view after one more place of the order.
LEMMA NextPlace ==
    ASSUME NEW S \in SUBSET Event, NEW f, PrefixViews(f, S), NEW m \in Nat, m + 1 <= Len(Order)
    PROVE  /\ Order[m + 1] \in Event /\ Order[m + 1] \notin f[m].applied
           /\ \A x : x \in f[m + 1].applied <=>
                \/ x \in f[m].applied
                \/ /\ x = Order[m + 1] /\ x \in S
                   /\ Parents[x] \subseteq f[m].applied /\ Allowed(f[m].members, x)
           /\ \A x : x \in f[m + 1].members <=>
                /\ x \in f[m].members
                /\ ~ /\ Order[m + 1] \in f[m + 1].applied
                     /\ x \in Removes[Order[m + 1]]
<1> DEFINE e == Order[m + 1]
           v == f[m]
           w == f[m + 1]
           may == e \in S /\ Parents[e] \subseteq v.applied /\ Allowed(v.members, e)
<1>1. m \in 0..Len(Order) /\ m + 1 \in 1..Len(Order) /\ (m + 1) - 1 = m
  BY Places
<1>2. e \in Event /\ v \in ViewState
  BY <1>1, Places DEF PrefixViews
<1>3. w = IF e \in S THEN Apply(v, e) ELSE v
  BY <1>1 DEF PrefixViews
<1>4. e \notin v.applied
  <2>1. ~(m + 1 <= m)
    OBVIOUS
  <2> QED BY <1>1, <2>1, AppliedAtItsPlace
<1> HIDE DEF e, v, w
<1>5. may => w = [applied |-> v.applied \cup {e}, members |-> v.members \ Removes[e]]
  BY <1>3 DEF Apply
<1>6. ~may => w = v
  BY <1>3 DEF Apply
<1>7. /\ \A x : x \in w.applied <=> x \in v.applied \/ (x = e /\ may)
      /\ \A x : x \in w.members <=> x \in v.members /\ ~(may /\ x \in Removes[e])
  <2>1. CASE may
    <3>1. w.applied = v.applied \cup {e} /\ w.members = v.members \ Removes[e]
      BY <1>5, <2>1
    <3> HIDE DEF may
    <3> QED BY <2>1, <3>1
  <2>2. CASE ~may
    BY <1>6, <2>2
  <2> QED BY <2>1, <2>2
<1>8. may <=> e \in w.applied
  BY <1>4, <1>7
<1>9. /\ \A x : x \in w.applied <=>
            \/ x \in v.applied
            \/ x = e /\ x \in S /\ Parents[x] \subseteq v.applied /\ Allowed(v.members, x)
      /\ \A x : x \in w.members <=> x \in v.members /\ ~(e \in w.applied /\ x \in Removes[e])
  BY <1>7, <1>8
<1> QED BY <1>2, <1>4, <1>9 DEF e, v, w

\* Where everything that S applies is stored too, nobody is a member that S has
\* removed: the signers of removals are there to stay, and a removal that is
\* refused there comes too late, for a member that is gone.
LEMMA RemovalsArePassedOn ==
    ASSUME NEW K \in SUBSET Event, StandOn(K), NEW S \in SUBSET Event, NEW T \in SUBSET Event,
           NEW f, PrefixViews(f, S), NEW g, PrefixViews(g, T),
           f[Len(Order)].applied \subseteq T
    PROVE  \A n \in 0..Len(Order) : g[n].members \subseteq f[n].members
<1> DEFINE N == Len(Order)
           P(m) == /\ f[m].applied \cap K \subseteq g[m].applied
                   /\ g[m].members \subseteq f[m].members
                   /\ \A k \in Event : Safe(Author[k]) => Author[k] \in g[m].members
                   /\ \A x \in Device \cup Others : x \notin g[m].members =>
                            \E k \in Event : k \in g[m].applied /\ x \in Removes[k]
           I == {m \in Nat : m <= N => P(m)}
<1>1. N \in Nat
  BY Places
<1>2. 0 \in I
  <2>1. f[0] = Nothing /\ g[0] = Nothing
    BY DEF PrefixViews
  <2>2. \A k \in Event : Author[k] \in Device \cup Others
    BY DevicesAssumption
  <2> QED BY <2>1, <2>2 DEF Nothing
<1>3. ASSUME NEW m \in I
      PROVE  m + 1 \in I
  <2> SUFFICES ASSUME m + 1 <= N
               PROVE  P(m + 1)
    OBVIOUS
  <2>1. m \in Nat /\ m <= N /\ P(m)
    BY <1>1
  <2> DEFINE e == Order[m + 1]
  <2>2. /\ e \in Event
        /\ \A x : x \in f[m + 1].applied <=>
            \/ x \in f[m].applied
            \/ /\ x = e /\ x \in S
               /\ Parents[x] \subseteq f[m].applied /\ Allowed(f[m].members, x)
        /\ \A x : x \in f[m + 1].members <=>
            x \in f[m].members /\ ~(e \in f[m + 1].applied /\ x \in Removes[e])
        /\ e \notin f[m].applied
    BY <2>1, NextPlace
  <2>3. /\ \A x : x \in g[m + 1].applied <=>
            \/ x \in g[m].applied
            \/ /\ x = e /\ x \in T
               /\ Parents[x] \subseteq g[m].applied /\ Allowed(g[m].members, x)
        /\ \A x : x \in g[m + 1].members <=>
            x \in g[m].members /\ ~(e \in g[m + 1].applied /\ x \in Removes[e])
        /\ e \notin g[m].applied
    BY <2>1, NextPlace
  <2>4. e \in f[m + 1].applied => e \in f[N].applied
    <3> DEFINE k == m + 1
    <3>1. k \in 1..N /\ k \in 0..N /\ N \in 0..N /\ k <= N
      BY <1>1, <2>1
    <3> DEFINE May == /\ Order[k] \in S /\ Parents[Order[k]] \subseteq f[k - 1].applied
                      /\ Allowed(f[k - 1].members, Order[k])
    <3>2. Order[k] \in f[k].applied <=> k <= k /\ May
      BY <3>1, AppliedAtItsPlace
    <3>3. Order[k] \in f[N].applied <=> k <= N /\ May
      BY <3>1, AppliedAtItsPlace
    <3> HIDE DEF May
    <3> QED BY <3>1, <3>2, <3>3
  <2>5. e \in f[m + 1].applied => e \in T
    BY <2>4
  <2> HIDE DEF N, I, e
  <2>6. ASSUME e \in f[m + 1].applied, Parents[e] \subseteq K, Safe(Author[e]),
               Removes[e] \subseteq g[m].members
        PROVE  e \in g[m + 1].applied
    <3>1. Parents[e] \subseteq f[m].applied
      BY <2>2, <2>6
    <3>2. Parents[e] \subseteq g[m].applied
      BY <2>1, <2>6, <3>1
    <3>3. Allowed(g[m].members, e)
      BY <2>1, <2>2, <2>6 DEF Allowed
    <3> QED BY <2>3, <2>5, <2>6, <3>2, <3>3
  <2>7. f[m + 1].applied \cap K \subseteq g[m + 1].applied
    <3> SUFFICES ASSUME e \in K, e \in f[m + 1].applied
                 PROVE  e \in g[m + 1].applied
      BY <2>1, <2>2, <2>3
    <3>1. /\ Parents[e] \subseteq K /\ Safe(Author[e])
          /\ \A k \in Event \ {e} : Removes[e] \cap Removes[k] = {}
      BY DEF StandOn
    <3>2. Removes[e] \subseteq g[m].members
      <4> SUFFICES ASSUME NEW x \in Removes[e], x \notin g[m].members
                   PROVE  FALSE
        OBVIOUS
      <4>1. x \in Device \cup Others
        BY <2>2, EventsAssumption
      <4>2. PICK k \in Event : k \in g[m].applied /\ x \in Removes[k]
        BY <2>1, <4>1
      <4>3. k # e
        BY <2>3, <4>2
      <4> QED BY <3>1, <4>2, <4>3
    <3> QED BY <2>6, <3>1, <3>2
  <2>8. g[m + 1].members \subseteq f[m + 1].members
    <3> SUFFICES ASSUME NEW x \in g[m + 1].members, e \in f[m + 1].applied, x \in Removes[e]
                 PROVE  FALSE
      BY <2>1, <2>2, <2>3
    <3>1. x \in g[m].members
      BY <2>3
    <3>2. Removes[e] \subseteq g[m].members
      BY <2>2, <3>1, EventsAssumption
    <3>3. Parents[e] \subseteq K /\ Safe(Author[e])
      BY <2>2 DEF StandOn
    <3>4. e \in g[m + 1].applied
      BY <2>6, <3>2, <3>3
    <3> QED BY <2>3, <3>4
  <2>9. \A k \in Event : Safe(Author[k]) => Author[k] \in g[m + 1].members
    BY <2>1, <2>2, <2>3 DEF Safe
  <2>10. \A x \in Device \cup Others : x \notin g[m + 1].members =>
            \E k \in Event : k \in g[m + 1].applied /\ x \in Removes[k]
    BY <2>1, <2>2, <2>3
  <2> QED BY <2>7, <2>8, <2>9, <2>10
<1>4. I \in SUBSET Nat
  OBVIOUS
<1> HIDE DEF I
<1>5. I = Nat
  BY <1>2, <1>3, <1>4, NatSetInduction
<1> QED BY <1>1, <1>5 DEF I

\* So the members of T are members of S, if T has what S applies.
LEMMA MembersFollowRemovals ==
    ASSUME RemovalsStand, NEW S \in SUBSET Event, NEW T \in SUBSET Event,
           Materialized(S) \subseteq T
    PROVE  Members(T) \subseteq Members(S)
<1>1. PICK K \in SUBSET Event : StandOn(K)
  BY DEF RemovalsStand
<1>2. PICK f : PrefixViews(f, S) /\ View[S] = f[Len(Order)]
  BY ViewUnfolds
<1>3. PICK g : PrefixViews(g, T) /\ View[T] = g[Len(Order)]
  BY ViewUnfolds
<1>4. Len(Order) \in 0..Len(Order)
  BY Places
<1>5. f[Len(Order)].applied \subseteq T
  BY <1>2 DEF Materialized
<1>6. g[Len(Order)].members \subseteq f[Len(Order)].members
  BY <1>1, <1>2, <1>3, <1>4, <1>5, RemovalsArePassedOn
<1> QED BY <1>2, <1>3, <1>6 DEF Members

\* Members only leave.
LEMMA MembersLeave ==
    ASSUME RemovalsStand, NEW S \in SUBSET Event, NEW T \in SUBSET Event, S \subseteq T
    PROVE  Members(T) \subseteq Members(S)
<1>1. Materialized(S) \subseteq T
  BY MaterializedIsStored
<1> QED BY <1>1, MembersFollowRemovals

\* So what a history does not authorize, a longer one does not either.
LEMMA RefusalsLast ==
    ASSUME RemovalsStand, NEW S \in SUBSET Event, NEW T \in SUBSET Event, S \subseteq T
    PROVE  \A e : Admits(T, e) => Admits(S, e)
BY MembersLeave DEF Admits, Allowed

\* What a history has with all its ancestors, and a longer one materializes, it
\* materializes itself.
LEMMA CompleteEventsWereMaterialized ==
    ASSUME RemovalsStand, NEW S \in SUBSET Event, NEW T \in SUBSET Event, S \subseteq T
    PROVE  Complete(S) \cap Materialized(T) \subseteq Materialized(S)
<1>1. PICK K \in SUBSET Event : StandOn(K)
  BY DEF RemovalsStand
<1>2. PICK f : PrefixViews(f, S) /\ View[S] = f[Len(Order)]
  BY ViewUnfolds
<1>3. PICK g : PrefixViews(g, T) /\ View[T] = g[Len(Order)]
  BY ViewUnfolds
<1> DEFINE N == Len(Order)
<1>4. N \in Nat /\ N \in 0..N
  BY Places
<1>5. f[N].applied \subseteq T
  BY <1>2, MaterializedIsStored DEF Materialized
<1>6. \A n \in 0..N : g[n].members \subseteq f[n].members
  BY <1>1, <1>2, <1>3, <1>5, RemovalsArePassedOn
<1> SUFFICES ASSUME NEW A \in SUBSET S, Closed(A)
             PROVE  A \cap g[N].applied \subseteq f[N].applied
  BY <1>2, <1>3 DEF Complete, Materialized
<1> DEFINE I == {m \in Nat : m <= N => A \cap g[m].applied \subseteq f[m].applied}
<1>7. 0 \in I
  BY <1>3 DEF PrefixViews, Nothing
<1>8. ASSUME NEW m \in I
      PROVE  m + 1 \in I
  <2> SUFFICES ASSUME m + 1 <= N, NEW x \in A, x \in g[m + 1].applied
               PROVE  x \in f[m + 1].applied
    OBVIOUS
  <2>1. m \in Nat /\ m \in 0..N /\ A \cap g[m].applied \subseteq f[m].applied
    BY <1>4
  <2>2. \/ x \in g[m].applied
        \/ /\ x = Order[m + 1] /\ x \in T
           /\ Parents[x] \subseteq g[m].applied /\ Allowed(g[m].members, x)
    BY <1>3, <2>1, NextPlace
  <2>3. x \in f[m + 1].applied <=>
            \/ x \in f[m].applied
            \/ /\ x = Order[m + 1] /\ x \in S
               /\ Parents[x] \subseteq f[m].applied /\ Allowed(f[m].members, x)
    BY <1>2, <2>1, NextPlace
  <2>4. Parents[x] \subseteq A
    BY DEF Closed
  <2>5. g[m].members \subseteq f[m].members
    BY <1>6, <2>1
  <2> HIDE DEF I, N
  <2> QED BY <2>1, <2>2, <2>3, <2>4, <2>5 DEF Allowed
<1>9. I \in SUBSET Nat
  OBVIOUS
<1> HIDE DEF I
<1>10. I = Nat
  BY <1>7, <1>8, <1>9, NatSetInduction
<1> QED BY <1>4, <1>10 DEF I

\* A materialized event has its parents materialized.
LEMMA MaterializedIsClosed ==
    ASSUME NEW S \in SUBSET Event
    PROVE  Closed(Materialized(S))
<1> DEFINE N == Len(Order)
<1>1. PICK f : PrefixViews(f, S) /\ View[S] = f[N]
  BY ViewUnfolds
<1>2. N \in Nat /\ \A m \in Nat : m <= N => m \in 0..N
  BY Places
<1> DEFINE I == {m \in Nat : m <= N => Closed(f[m].applied)}
<1>3. 0 \in I
  BY <1>1 DEF PrefixViews, Nothing, Closed
<1>4. ASSUME NEW m \in I
      PROVE  m + 1 \in I
  <2> SUFFICES ASSUME m + 1 <= N
               PROVE  Closed(f[m + 1].applied)
    OBVIOUS
  <2>1. m \in Nat /\ Closed(f[m].applied)
    BY <1>2
  <2>2. \A x : x \in f[m + 1].applied <=>
            \/ x \in f[m].applied
            \/ /\ x = Order[m + 1] /\ x \in S
               /\ Parents[x] \subseteq f[m].applied /\ Allowed(f[m].members, x)
    BY <1>1, <2>1, NextPlace
  <2> QED BY <2>1, <2>2 DEF Closed
<1>5. I \in SUBSET Nat
  OBVIOUS
<1> HIDE DEF I
<1>6. I = Nat
  BY <1>3, <1>4, <1>5, NatSetInduction
<1>7. Closed(f[N].applied)
  BY <1>2, <1>6 DEF I
<1> QED BY <1>1, <1>7 DEF Materialized

\* Complete events are stored with their parents, and stay complete.
LEMMA CompleteEvents ==
    /\ \A S \in SUBSET Event : Complete(S) \subseteq S /\ Closed(Complete(S))
    /\ \A S, T \in SUBSET Event : S \subseteq T => Complete(S) \subseteq Complete(T)
    /\ \A S \in SUBSET Event : \A A \in SUBSET S : Closed(A) => A \subseteq Complete(S)
BY DEF Complete, Closed

\* What is fed stays fed, and what fills a store fills it when it has grown.
LEMMA GrowthKeepsLists ==
    ASSUME RemovalsStand, NEW S \in SUBSET Event, NEW T \in SUBSET Event, S \subseteq T,
           NEW todo \in Seq(Event)
    PROVE  /\ Feeds(todo, S) => Feeds(todo, T)
           /\ Fills(todo, S) => Fills(todo, T)
<1>1. \A e : Admits(T, e) => Admits(S, e)
  BY RefusalsLast
<1>2. ASSUME NEW n \in 1..Len(todo)
      PROVE  \A e : Admits(T \cup Before(todo, n), e) => Admits(S \cup Before(todo, n), e)
  <2>1. Before(todo, n) \subseteq Event
    <3>1. \A m \in 1..(n - 1) : m \in 1..Len(todo)
      OBVIOUS
    <3>2. \A m \in 1..Len(todo) : todo[m] \in Event
      OBVIOUS
    <3> QED BY <3>1, <3>2 DEF Before
  <2> QED BY <2>1, RefusalsLast
<1> QED BY <1>1, <1>2 DEF Feeds, Fills

-----------------------------------------------------------------------------
(* Lists that keep parents before children.                                *)

\* The order lists the parents in a set before their children.
LEMMA ParentsAreListedFirst ==
    ASSUME NEW S \in SUBSET Event, NEW n \in 1..Len(InOrder(S)), NEW p \in S,
           p \in Parents[InOrder(S)[n]]
    PROVE  p \in Before(InOrder(S), n)
<1> DEFINE L == InOrder(S)
<1>1. /\ Order \in Seq(Event)
      /\ \A i, j \in 1..Len(Order) : Order[i] \in Parents[Order[j]] => i < j
  BY OrderAssumption
<1>2. /\ Len(L) \in Nat
      /\ \E at \in [1..Len(L) -> 1..Len(Order)] :
            /\ \A i \in 1..Len(L) : L[i] = Order[at[i]] /\ L[i] \in S
            /\ \A i, j \in 1..Len(L) : i < j => at[i] < at[j]
            /\ \A k \in 1..Len(Order) : Order[k] \in S => \E i \in 1..Len(L) : at[i] = k
  BY <1>1, KeptIsASubsequence DEF InOrder
<1> HIDE DEF L
<1>3. PICK at \in [1..Len(L) -> 1..Len(Order)] :
            /\ \A i \in 1..Len(L) : L[i] = Order[at[i]] /\ L[i] \in S
            /\ \A i, j \in 1..Len(L) : i < j => at[i] < at[j]
            /\ \A k \in 1..Len(Order) : Order[k] \in S => \E i \in 1..Len(L) : at[i] = k
  BY <1>2
<1>4. n \in 1..Len(L) /\ p \in Parents[L[n]]
  BY DEF L
<1>5. PICK k \in 1..Len(Order) : Order[k] = p
  BY Places
<1>6. PICK i \in 1..Len(L) : at[i] = k
  BY <1>3, <1>5
<1>7. L[n] = Order[at[n]] /\ L[i] = Order[at[i]] /\ at[n] \in 1..Len(Order)
  BY <1>3, <1>4
<1>8. at[i] < at[n]
  BY <1>1, <1>4, <1>5, <1>6, <1>7
<1>9. i < n
  <2>1. /\ n < i => at[n] < at[i]
        /\ at[i] \in 1..Len(Order)
    BY <1>3, <1>4
  <2>2. Len(Order) \in Nat
    BY Places
  <2>3. i \in Nat /\ n \in Nat /\ at[i] \in Nat /\ at[n] \in Nat
    BY <1>2, <1>4, <1>7, <2>1, <2>2
  <2>4. ~(n < i)
    BY <1>8, <2>1, <2>3
  <2>5. i # n
    BY <1>8, <2>3
  <2> QED BY <2>3, <2>4, <2>5
<1>10. i \in 1..(n - 1) /\ L[i] = p
  <2>1. i \in 1..(n - 1)
    BY <1>2, <1>4, <1>9
  <2> QED BY <2>1, <1>5, <1>6, <1>7
<1> QED BY <1>10 DEF Before, L

\* The elements before a place of two lists, one after the other.
LEMMA BeforeInBoth ==
    ASSUME NEW X, NEW s \in Seq(X), NEW t \in Seq(X), NEW n \in 1..Len(s \o t)
    PROVE  \/ n \in 1..Len(s) /\ (s \o t)[n] = s[n] /\ Before(s, n) \subseteq Before(s \o t, n)
           \/ \E k \in 1..Len(t) : /\ (s \o t)[n] = t[k]
                                   /\ Range(s) \cup Before(t, k) \subseteq Before(s \o t, n)
<1> DEFINE c == s \o t
<1>1. /\ c \in Seq(X) /\ Len(c) = Len(s) + Len(t) /\ Len(s) \in Nat /\ Len(t) \in Nat
      /\ \A i \in 1..Len(c) : c[i] = IF i <= Len(s) THEN s[i] ELSE t[i - Len(s)]
  BY ConcatProperties
<1>2. n \in 1..Len(c)
  OBVIOUS
<1>3. Range(s) = {s[i] : i \in 1..Len(s)}
  BY RangeEquality
<1> HIDE DEF c
<1>4. CASE n <= Len(s)
  <2>1. n \in 1..Len(s) /\ c[n] = s[n]
    BY <1>1, <1>2, <1>4
  <2>2. \A i \in 1..(n - 1) : c[i] = s[i]
    BY <1>1, <1>2, <1>4
  <2> QED BY <2>1, <2>2 DEF Before, c
<1>5. CASE ~(n <= Len(s))
  <2> DEFINE k == n - Len(s)
  <2>1. k \in 1..Len(t) /\ c[n] = t[k]
    BY <1>1, <1>2, <1>5
  <2>2. \A i \in 1..Len(s) : i \in 1..(n - 1) /\ c[i] = s[i]
    BY <1>1, <1>2, <1>5
  <2>3. Range(s) \subseteq Before(c, n)
    BY <1>3, <2>2 DEF Before
  <2>4. ASSUME NEW i \in 1..(k - 1)
        PROVE  Len(s) + i \in 1..(n - 1) /\ c[Len(s) + i] = t[i]
    <3>1. /\ Len(s) + i \in 1..(n - 1) /\ Len(s) + i \in 1..Len(c)
          /\ ~(Len(s) + i <= Len(s)) /\ (Len(s) + i) - Len(s) = i
      BY <1>1, <1>2, <1>5
    <3> QED BY <1>1, <3>1
  <2> HIDE DEF k
  <2>5. Before(t, k) \subseteq Before(c, n)
    BY <2>4 DEF Before
  <2> QED BY <2>1, <2>3, <2>5 DEF c
<1> QED BY <1>4, <1>5

\* The elements before a place of the first or the second part of a list.
LEMMA BeforeInParts ==
    ASSUME NEW X, NEW s \in Seq(X), NEW m \in 0..Len(s)
    PROVE  /\ \A n \in 1..Len(SubSeq(s, 1, m)) :
                /\ n \in 1..Len(s) /\ SubSeq(s, 1, m)[n] = s[n]
                /\ Before(s, n) = Before(SubSeq(s, 1, m), n)
           /\ \A n \in 1..Len(SubSeq(s, m + 1, Len(s))) :
                /\ m + n \in 1..Len(s) /\ SubSeq(s, m + 1, Len(s))[n] = s[m + n]
                /\ Before(s, m + n) =
                        Range(SubSeq(s, 1, m)) \cup Before(SubSeq(s, m + 1, Len(s)), n)
<1> DEFINE s1 == SubSeq(s, 1, m)
           s2 == SubSeq(s, m + 1, Len(s))
<1>1. Len(s) \in Nat /\ m \in Nat /\ m <= Len(s) /\ DOMAIN s = 1..Len(s)
  OBVIOUS
<1>2. s1 \in Seq(X) /\ s2 \in Seq(X) /\ Len(s1) = m /\ \A k \in 1..m : s1[k] = s[k]
  <2>1. \A k \in 1..m : s[k] \in X
    BY <1>1
  <2> QED BY <1>1, <2>1, SubSeqProperties, CutInTwo
<1>3. Len(s2) = Len(s) - m /\ \A k \in 1..Len(s2) : s2[k] = s[m + k]
  <2>1. \A k \in (m + 1)..Len(s) : s[k] \in X
    BY <1>1
  <2>2. /\ Len(s2) = IF m + 1 <= Len(s) THEN Len(s) - (m + 1) + 1 ELSE 0
        /\ \A k \in 1..(Len(s) - (m + 1) + 1) : s2[k] = s[(m + 1) + k - 1]
    BY <1>1, <2>1, SubSeqProperties
  <2> HIDE DEF s2
  <2>3. Len(s) - (m + 1) + 1 = Len(s) - m /\ (~(m + 1 <= Len(s)) => Len(s) - m = 0)
    <3>1. \A n, k \in Nat : k <= n => n - (k + 1) + 1 = n - k /\ (~(k + 1 <= n) => n - k = 0)
      OBVIOUS
    <3> QED BY <1>1, <3>1
  <2>4. Len(s2) = Len(s) - m
    BY <2>2, <2>3
  <2>5. ASSUME NEW k \in 1..Len(s2)
        PROVE  s2[k] = s[m + k]
    <3>1. (m + 1) + k - 1 = m + k
      BY <1>1, <2>4
    <3>2. s2[k] = s[(m + 1) + k - 1]
      BY <2>2, <2>3, <2>4
    <3> QED BY <3>1, <3>2
  <2> QED BY <2>4, <2>5
<1> HIDE DEF s1, s2
<1>4. Range(s1) = {s1[i] : i \in 1..m}
  BY <1>2, RangeEquality
<1>5. ASSUME NEW n \in 1..Len(s1)
      PROVE  n \in 1..Len(s) /\ s1[n] = s[n] /\ Before(s, n) = Before(s1, n)
  <2>1. n \in 1..Len(s) /\ s1[n] = s[n]
    BY <1>1, <1>2
  <2>2. \A i \in 1..(n - 1) : s1[i] = s[i]
    BY <1>1, <1>2
  <2> QED BY <2>1, <2>2 DEF Before
<1>6. ASSUME NEW n \in 1..Len(s2)
      PROVE  /\ m + n \in 1..Len(s) /\ s2[n] = s[m + n]
             /\ Before(s, m + n) = Range(s1) \cup Before(s2, n)
  <2>1. m + n \in 1..Len(s) /\ s2[n] = s[m + n]
    BY <1>1, <1>3
  <2>2. ASSUME NEW i \in 1..(m + n - 1)
        PROVE  s[i] \in Range(s1) \cup Before(s2, n)
    <3>1. CASE i <= m
      <4>1. i \in 1..m
        BY <1>1, <3>1
      <4> QED BY <1>2, <1>4, <4>1
    <3>2. CASE ~(i <= m)
      <4>1. i - m \in 1..(n - 1) /\ i - m \in 1..Len(s2) /\ m + (i - m) = i
        BY <1>1, <1>3, <3>2
      <4>2. s2[i - m] = s[i]
        BY <1>3, <4>1
      <4> QED BY <4>1, <4>2 DEF Before
    <3> QED BY <3>1, <3>2
  <2>3. ASSUME NEW i \in 1..m
        PROVE  s1[i] \in Before(s, m + n)
    <3>1. i \in 1..(m + n - 1) /\ s1[i] = s[i]
      BY <1>1, <1>2, <1>3
    <3> QED BY <3>1 DEF Before
  <2>4. ASSUME NEW i \in 1..(n - 1)
        PROVE  s2[i] \in Before(s, m + n)
    <3>1. m + i \in 1..(m + n - 1) /\ i \in 1..Len(s2)
      BY <1>1, <1>3
    <3>2. s2[i] = s[m + i]
      BY <1>3, <3>1
    <3> QED BY <3>1, <3>2 DEF Before
  <2>5. Before(s, m + n) \subseteq Range(s1) \cup Before(s2, n)
    <3> SUFFICES ASSUME NEW x \in Before(s, m + n)
                 PROVE  x \in Range(s1) \cup Before(s2, n)
      OBVIOUS
    <3> DEFINE k == m + n
    <3>1. PICK i \in 1..(k - 1) : x = s[i]
      <4>1. x \in Before(s, k)
        OBVIOUS
      <4> HIDE DEF k
      <4> QED BY <4>1 DEF Before
    <3> QED BY <2>2, <3>1
  <2>6. Range(s1) \cup Before(s2, n) \subseteq Before(s, m + n)
    BY <1>4, <2>3, <2>4 DEF Before
  <2> QED BY <2>1, <2>5, <2>6
<1> QED BY <1>5, <1>6 DEF s1, s2

\* A request feeds whoever the whole list feeds, and the rest feeds it when it
\* has stored the request.
LEMMA PartsAreFed ==
    ASSUME RemovalsStand, NEW T \in SUBSET Event, NEW s \in Seq(Event), NEW m \in 0..Len(s),
           Feeds(s, T)
    PROVE  /\ Feeds(SubSeq(s, 1, m), T)
           /\ \A U \in SUBSET Event : T \cup Range(SubSeq(s, 1, m)) \subseteq U =>
                    Feeds(SubSeq(s, m + 1, Len(s)), U)
<1> DEFINE s1 == SubSeq(s, 1, m)
           s2 == SubSeq(s, m + 1, Len(s))
<1>1. /\ \A n \in 1..Len(s1) :
            n \in 1..Len(s) /\ s1[n] = s[n] /\ Before(s, n) = Before(s1, n)
      /\ \A n \in 1..Len(s2) :
            /\ m + n \in 1..Len(s) /\ s2[n] = s[m + n]
            /\ Before(s, m + n) = Range(s1) \cup Before(s2, n)
  BY BeforeInParts
<1> HIDE DEF s1, s2
<1>2. Feeds(s1, T)
  BY <1>1 DEF Feeds
<1>3. ASSUME NEW U \in SUBSET Event, T \cup Range(s1) \subseteq U,
             NEW n \in 1..Len(s2), NEW p \in Parents[s2[n]]
      PROVE  p \in U \cup Before(s2, n) \/ ~Admits(U, p)
  <2>1. \A e : Admits(U, e) => Admits(T, e)
    BY <1>3, RefusalsLast
  <2>2. /\ m + n \in 1..Len(s) /\ p \in Parents[s[m + n]]
        /\ Before(s, m + n) = Range(s1) \cup Before(s2, n)
    BY <1>1
  <2>3. p \in T \cup Before(s, m + n) \/ ~Admits(T, p)
    BY <2>2 DEF Feeds
  <2> QED BY <1>3, <2>1, <2>2, <2>3
<1>4. \A U \in SUBSET Event : T \cup Range(s1) \subseteq U => Feeds(s2, U)
  BY <1>3 DEF Feeds
<1> QED BY <1>2, <1>4 DEF s1, s2

\* A pass over a request that feeds the peer leaves it no gap but what it refuses.
LEMMA PassGaps ==
    ASSUME RemovalsStand, NEW T \in SUBSET Event, Gaps(T), NEW request \in Seq(Event),
           Feeds(request, T)
    PROVE  Gaps(Pass(T, request))
<1> DEFINE N == Len(request)
<1>1. N \in Nat /\ \A n \in 1..N : request[n] \in Event
  OBVIOUS
<1>2. PICK f : Stages(f, T, request) /\ Pass(T, request) = f[N]
  BY PassUnfolds
<1> DEFINE Judged(n, U) == \A m \in 1..n : request[m] \in U \/ ~Admits(U, request[m])
           P(n) == T \subseteq f[n] /\ Gaps(f[n]) /\ Judged(n, f[n])
           I == {n \in Nat : n <= N => P(n)}
<1>3. 0 \in I
  BY <1>2 DEF Stages
<1>4. ASSUME NEW n \in I
      PROVE  n + 1 \in I
  <2> SUFFICES ASSUME n + 1 <= N
               PROVE  P(n + 1)
    OBVIOUS
  <2> DEFINE x == request[n + 1]
             U == f[n]
             V == f[n + 1]
  <2>1. /\ T \subseteq U /\ Gaps(U) /\ Judged(n, U)
        /\ n + 1 \in 1..N /\ (n + 1) - 1 = n /\ n \in 0..N /\ n + 1 \in 0..N /\ n \in Nat
    BY <1>1
  <2>2. V = Accept(U, x) /\ U \in SUBSET Event /\ V \in SUBSET Event
    BY <1>2, <2>1 DEF Stages
  <2>3. \A p \in Parents[x] : p \in T \cup Before(request, n + 1) \/ ~Admits(T, p)
    BY <2>1 DEF Feeds
  <2>4. \A p \in Before(request, n + 1) : p \in U \/ ~Admits(U, p)
    BY <2>1 DEF Before
  <2>5. \A m \in 1..(n + 1) : m \in 1..n \/ m = n + 1
    BY <2>1
  <2> HIDE DEF I, N, U, V
  <2>6. U \subseteq V /\ V \subseteq U \cup {x} /\ (x \in V \/ ~Admits(V, x))
    BY <2>2 DEF Accept
  <2>7. \A e : (Admits(V, e) => Admits(U, e)) /\ (Admits(U, e) => Admits(T, e))
    BY <2>1, <2>2, <2>6, RefusalsLast
  <2>8. Gaps(V)
    <3> SUFFICES ASSUME NEW e \in V, NEW p \in Parents[e] \ V
                 PROVE  ~Admits(V, p)
      BY DEF Gaps
    <3>1. CASE e \in U
      BY <2>1, <2>6, <2>7, <3>1 DEF Gaps
    <3>2. CASE e = x
      <4>1. p \notin T /\ p \notin U
        BY <2>1, <2>6
      <4> QED BY <2>3, <2>4, <2>7, <3>2, <4>1
    <3> QED BY <2>6, <3>1, <3>2
  <2>9. Judged(n + 1, V)
    <3> SUFFICES ASSUME NEW m \in 1..(n + 1)
                 PROVE  request[m] \in V \/ ~Admits(V, request[m])
      OBVIOUS
    <3>1. CASE m \in 1..n
      BY <2>1, <2>6, <2>7, <3>1
    <3>2. CASE m = n + 1
      BY <2>6, <3>2
    <3> QED BY <2>5, <3>1, <3>2
  <2> HIDE DEF Judged
  <2> QED BY <2>1, <2>6, <2>8, <2>9 DEF V
<1>5. I \in SUBSET Nat
  OBVIOUS
<1> HIDE DEF I
<1>6. I = Nat
  BY <1>3, <1>4, <1>5, NatSetInduction
<1>7. N \in I
  BY <1>1, <1>6
<1> QED BY <1>1, <1>2, <1>7 DEF I

\* So do all its passes.
LEMMA AcceptedGaps ==
    ASSUME RemovalsStand, NEW T \in SUBSET Event, Gaps(T), NEW request \in Seq(Event),
           Feeds(request, T)
    PROVE  Gaps(Accepted(T, request))
<1> DEFINE N == Len(request)
<1>1. N \in Nat
  OBVIOUS
<1>2. PICK f : Passes(f, T, request) /\ Accepted(T, request) = f[N]
  BY AcceptedUnfolds
<1> DEFINE I == {n \in Nat : n <= N => T \subseteq f[n] /\ Gaps(f[n])}
<1>3. 0 \in I
  BY <1>2 DEF Passes
<1>4. ASSUME NEW n \in I
      PROVE  n + 1 \in I
  <2> SUFFICES ASSUME n + 1 <= N
               PROVE  T \subseteq f[n + 1] /\ Gaps(f[n + 1])
    OBVIOUS
  <2>1. /\ T \subseteq f[n] /\ Gaps(f[n])
        /\ n + 1 \in 1..N /\ (n + 1) - 1 = n /\ n \in 0..N
    BY <1>1
  <2>2. f[n + 1] = Pass(f[n], request) /\ f[n] \in SUBSET Event
    BY <1>2, <2>1 DEF Passes
  <2> HIDE DEF I, N
  <2>3. Feeds(request, f[n])
    BY <2>1, <2>2, GrowthKeepsLists
  <2>4. Gaps(Pass(f[n], request)) /\ f[n] \subseteq Pass(f[n], request)
    BY <2>1, <2>2, <2>3, PassGaps, PassEvents
  <2> QED BY <2>1, <2>2, <2>4
<1>5. I \in SUBSET Nat
  OBVIOUS
<1> HIDE DEF I
<1>6. I = Nat
  BY <1>3, <1>4, <1>5, NatSetInduction
<1>7. N \in I
  BY <1>1, <1>6
<1> QED BY <1>1, <1>2, <1>7 DEF I

\* Storing the first event of a list that fills the store leaves no other gap,
\* and the rest fills it then.
LEMMA HeadFills ==
    ASSUME RemovalsStand, NEW T \in SUBSET Event, Gaps(T), NEW s \in Seq(Event), s # <<>>,
           Fills(s, T)
    PROVE  Gaps(T \cup {Head(s)}) /\ Fills(Tail(s), T \cup {Head(s)})
<1> DEFINE r == Tail(s)
           U == T \cup {Head(s)}
<1>1. /\ r \in Seq(Event) /\ Len(r) = Len(s) - 1 /\ Len(s) \in Nat /\ Len(s) # 0
      /\ \A k \in 1..Len(r) : r[k] = s[k + 1]
      /\ Head(s) \in Event /\ Head(s) = s[1]
  BY HeadTailProperties
<1> HIDE DEF r
<1>2. U \in SUBSET Event /\ T \subseteq U
  BY <1>1
<1>3. \A e : Admits(U, e) => Admits(T, e)
  BY <1>2, RefusalsLast
<1>4. \A p \in Parents[s[1]] : p \in T \/ ~Admits(T, p)
  <2>1. 1 \in 1..Len(s) /\ Before(s, 1) = {}
    BY <1>1 DEF Before
  <2>2. T \cup Before(s, 1) = T
    BY <2>1
  <2> QED BY <2>1, <2>2 DEF Fills
<1>5. Gaps(U)
  BY <1>1, <1>3, <1>4 DEF Gaps
<1>6. ASSUME NEW n \in 1..Len(r)
      PROVE  n + 1 \in 1..Len(s) /\ r[n] = s[n + 1] /\ Before(s, n + 1) = {s[1]} \cup Before(r, n)
  <2>1. n + 1 \in 1..Len(s) /\ r[n] = s[n + 1] /\ (n + 1) - 1 = n /\ n \in Nat
    BY <1>1
  <2>2. ASSUME NEW i \in 1..n
        PROVE  s[i] \in {s[1]} \cup Before(r, n)
    <3>1. CASE i = 1
      BY <3>1
    <3>2. CASE i # 1
      <4>1. i - 1 \in 1..(n - 1) /\ i - 1 \in 1..Len(r) /\ (i - 1) + 1 = i
        BY <1>1, <2>1, <3>2
      <4>2. r[i - 1] = s[i]
        BY <1>1, <4>1
      <4> QED BY <4>1, <4>2 DEF Before
    <3> QED BY <3>1, <3>2
  <2>3. ASSUME NEW i \in 1..(n - 1)
        PROVE  i + 1 \in 1..n /\ r[i] = s[i + 1]
    BY <1>1, <2>1
  <2>4. Before(s, n + 1) = {s[i] : i \in 1..n} /\ Before(r, n) = {r[i] : i \in 1..(n - 1)}
    BY <2>1 DEF Before
  <2>5. 1 \in 1..n
    BY <2>1
  <2>6. Before(s, n + 1) \subseteq {s[1]} \cup Before(r, n)
    BY <2>2, <2>4
  <2>7. {s[1]} \cup Before(r, n) \subseteq Before(s, n + 1)
    BY <2>3, <2>4, <2>5
  <2> QED BY <2>1, <2>6, <2>7
<1>7. ASSUME NEW n \in 1..Len(r), NEW p \in Parents[r[n]]
      PROVE  p \in U \cup Before(r, n) \/ ~Admits(U \cup Before(r, n), p)
  <2>1. /\ n + 1 \in 1..Len(s) /\ r[n] = s[n + 1] /\ Before(s, n + 1) = {s[1]} \cup Before(r, n)
    BY <1>6
  <2>2. T \cup Before(s, n + 1) = U \cup Before(r, n)
    BY <1>1, <2>1
  <2> QED BY <2>1, <2>2 DEF Fills
<1>8. Fills(r, U)
  BY <1>7 DEF Fills
<1> QED BY <1>5, <1>8 DEF r

\* What is fetched fills the store, when the inventory that it was chosen from is
\* in the store or fetched: a parent that the peer refused was refused for a
\* removal, and removals are stored first.
LEMMA FetchedFills ==
    ASSUME RemovalsStand, NEW S \in SUBSET Event, NEW R \in SUBSET Event, Gaps(R),
           NEW fetched \in SUBSET R, R \subseteq S \cup fetched
    PROVE  Fills(AppendOrder(S, fetched), S)
<1> DEFINE all == S \cup fetched
           applied == fetched \cap Materialized(all)
           L1 == InOrder(applied)
           L2 == InOrder(fetched \ applied)
<1>2. all \in SUBSET Event /\ fetched \in SUBSET Event
  OBVIOUS
<1>3. Materialized(all) \subseteq all /\ Closed(Materialized(all))
  BY <1>2, MaterializedIsStored, MaterializedIsClosed
<1>4. Materialized(all) \subseteq S \cup applied /\ Members(all) \subseteq Members(R)
  <2>1. R \subseteq all
    OBVIOUS
  <2> QED BY <1>2, <1>3, <2>1, MembersLeave
<1>5. /\ L1 \in Seq(Event) /\ Range(L1) = applied /\ L2 \in Seq(Event)
      /\ Range(L2) = fetched \ applied
  BY <1>2, ListedInOrder
<1>6. AppendOrder(S, fetched) = L1 \o L2
  BY DEF AppendOrder
<1>7. /\ \A n \in 1..Len(L1) : \A p \in applied : p \in Parents[L1[n]] => p \in Before(L1, n)
      /\ \A n \in 1..Len(L2) : \A p \in fetched \ applied :
            p \in Parents[L2[n]] => p \in Before(L2, n)
  <2>1. applied \in SUBSET Event /\ fetched \ applied \in SUBSET Event
    BY <1>2
  <2> HIDE DEF applied
  <2> QED BY <2>1, ParentsAreListedFirst
<1>8. /\ \A n \in 1..Len(L1) : L1[n] \in applied
      /\ \A n \in 1..Len(L2) : L2[n] \in fetched \ applied
  <2>1. DOMAIN L1 = 1..Len(L1) /\ DOMAIN L2 = 1..Len(L2)
    BY <1>5
  <2> HIDE DEF L1, L2, applied
  <2> QED BY <1>5, <2>1 DEF Range
<1> HIDE DEF L1, L2
<1> DEFINE L == L1 \o L2
<1>9. ASSUME NEW n \in 1..Len(L), NEW p \in Parents[L[n]]
      PROVE  p \in S \cup Before(L, n) \/ ~Admits(S \cup Before(L, n), p)
  <2>1. CASE n \in 1..Len(L1) /\ L[n] = L1[n] /\ Before(L1, n) \subseteq Before(L, n)
    <3>1. L1[n] \in Materialized(all)
      BY <1>8, <2>1
    <3>2. p \in Materialized(all)
      BY <1>3, <2>1, <3>1 DEF Closed
    <3>3. p \in S \/ p \in applied
      BY <1>3, <3>2
    <3> QED BY <1>7, <2>1, <3>3
  <2>2. CASE \E k \in 1..Len(L2) : L[n] = L2[k] /\ Range(L1) \cup Before(L2, k) \subseteq Before(L, n)
    <3>1. PICK k \in 1..Len(L2) : L[n] = L2[k] /\ Range(L1) \cup Before(L2, k) \subseteq Before(L, n)
      BY <2>2
    <3> DEFINE W == S \cup Before(L, n)
    <3>2. p \in all => p \in W
      BY <1>5, <1>7, <3>1
    <3>3. ASSUME p \notin all
          PROVE  ~Admits(W, p)
      <4>1. L2[k] \in R /\ p \in Parents[L2[k]] \ R
        BY <1>8, <3>1, <3>3
      <4>2. ~Admits(R, p)
        BY <4>1 DEF Gaps
      <4>3. W \in SUBSET Event
        <5>1. L \in Seq(Event)
          BY <1>5, ConcatProperties
        <5>2. \A m \in 1..(n - 1) : m \in 1..Len(L)
          OBVIOUS
        <5>3. \A m \in 1..Len(L) : L[m] \in Event
          BY <5>1
        <5> HIDE DEF L
        <5> QED BY <5>2, <5>3 DEF Before
      <4>4. Materialized(all) \subseteq W
        BY <1>4, <1>5, <3>1
      <4> HIDE DEF W, all
      <4>5. Members(W) \subseteq Members(all)
        BY <1>2, <4>3, <4>4, MembersFollowRemovals
      <4>6. Members(W) \subseteq Members(R)
        BY <1>4, <4>5
      <4> QED BY <4>2, <4>6 DEF Admits, Allowed
    <3> QED BY <3>2, <3>3
  <2>3. \/ n \in 1..Len(L1) /\ L[n] = L1[n] /\ Before(L1, n) \subseteq Before(L, n)
        \/ \E k \in 1..Len(L2) : L[n] = L2[k] /\ Range(L1) \cup Before(L2, k) \subseteq Before(L, n)
    BY <1>5, BeforeInBoth
  <2> HIDE DEF L
  <2> QED BY <2>1, <2>2, <2>3
<1> HIDE DEF L
<1>10. Fills(L, S)
  BY <1>9 DEF Fills
<1> QED BY <1>6, <1>10 DEF L

\* The materialized events that are published feed the peer, if it has the
\* others.
LEMMA PublishedFeeds ==
    ASSUME NEW S \in SUBSET Event, NEW P, NEW publish \in SUBSET S,
           Materialized(S) \ publish \subseteq P
    PROVE  Feeds(InOrder(publish \cap Materialized(S)), P)
<1> DEFINE out == publish \cap Materialized(S)
           L == InOrder(out)
<1>1. out \in SUBSET Event /\ Closed(Materialized(S))
  BY MaterializedIsClosed
<1>2. \A n \in 1..Len(L) : \A p \in out : p \in Parents[L[n]] => p \in Before(L, n)
  <2> HIDE DEF out
  <2> QED BY <1>1, ParentsAreListedFirst
<1>3. \A n \in 1..Len(L) : L[n] \in Materialized(S)
  <2>1. L \in Seq(Event) /\ Range(L) = out
    BY <1>1, ListedInOrder
  <2>2. DOMAIN L = 1..Len(L)
    BY <2>1
  <2> HIDE DEF L
  <2> QED BY <2>1, <2>2 DEF Range
<1> HIDE DEF L
<1>4. ASSUME NEW n \in 1..Len(L), NEW p \in Parents[L[n]]
      PROVE  p \in P \cup Before(L, n)
  <2>1. p \in Materialized(S)
    BY <1>1, <1>3 DEF Closed
  <2> QED BY <1>2, <2>1
<1>5. Feeds(L, P)
  BY <1>4 DEF Feeds
<1> QED BY <1>5 DEF L

\* A device that writes on top of what it has materialized leaves no gap, and
\* what it writes is complete.
LEMMA WritingKeepsGaps ==
    ASSUME RemovalsStand, NEW S \in SUBSET Event, Gaps(S), NEW written \in SUBSET Event,
           \A e \in written : Parents[e] \subseteq Materialized(S)
    PROVE  Gaps(S \cup written) /\ written \subseteq Complete(S \cup written)
<1>1. \A e : Admits(S \cup written, e) => Admits(S, e)
  BY RefusalsLast
<1>2. Materialized(S) \subseteq S /\ Closed(Materialized(S))
  BY MaterializedIsStored, MaterializedIsClosed
<1>3. Gaps(S \cup written)
  BY <1>1, <1>2 DEF Gaps
<1>4. Closed(Materialized(S) \cup written)
  BY <1>2 DEF Closed
<1>5. Materialized(S) \cup written \in SUBSET (S \cup written) /\ S \cup written \in SUBSET Event
  BY <1>2
<1>6. Materialized(S) \cup written \subseteq Complete(S \cup written)
  BY <1>4, <1>5, CompleteEvents
<1> QED BY <1>3, <1>6

-----------------------------------------------------------------------------
(* Every step keeps the gaps that there may be.                            *)

\* What a session knows of gaps stays true in stores that have grown.
LEMMA GapsAtStays ==
    ASSUME RemovalsStand, StoresOK, StoresOK', StoresGrow, NEW d \in Device,
           NEW s \in SessionState, GapsAt(d, s, store)
    PROVE  GapsAt(d, s, store')
<1>1. /\ store[d] \subseteq store'[d] /\ store[Peer(d)] \subseteq store'[Peer(d)]
      /\ store[d] \in SUBSET Event /\ store'[d] \in SUBSET Event
      /\ store[Peer(d)] \in SUBSET Event /\ store'[Peer(d)] \in SUBSET Event
  BY Peers DEF StoresGrow, StoresOK
<1>2. s.todo \in Seq(Event)
  BY DEF SessionState
<1>3. /\ Feeds(s.todo, store[Peer(d)]) => Feeds(s.todo, store'[Peer(d)])
      /\ Fills(s.todo, store[d]) => Fills(s.todo, store'[d])
  BY <1>1, <1>2, GrowthKeepsLists
<1> QED BY <1>1, <1>3 DEF GapsAt

\* A step of d.
LEMMA GapStep ==
    ASSUME RemovalsStand, TypeInv, StoresOK', StoresGrow, GapInv, NEW d \in Device,
           \A u \in Device : u # d => session'[u] = session[u],
           GapsAt(d, session'[d], store'),
           \A u \in Device : /\ Gaps(store'[u])
                             /\ store'[u] \ store'[Peer(u)] \subseteq Complete(store'[u])
    PROVE  GapInv'
<1>1. ASSUME NEW u \in Device, u # d
      PROVE  GapsAt(u, session'[u], store')
  <2>1. session'[u] = session[u] /\ session[u] \in SessionState /\ StoresOK
    BY <1>1 DEF TypeInv, SessionsOK
  <2>2. GapsAt(u, session[u], store)
    BY DEF GapInv
  <2>3. GapsAt(u, session[u], store')
    BY <2>1, <2>2, GapsAtStays
  <2> QED BY <2>1, <2>3
<1>2. \A u \in Device : GapsAt(u, session'[u], store')
  BY <1>1
<1> QED BY <1>2 DEF GapInv

\* A step of d that stores no event.
LEMMA StillGapStep ==
    ASSUME RemovalsStand, TypeInv, GapInv, NEW d \in Device, store' = store,
           \A u \in Device : u # d => session'[u] = session[u],
           GapsAt(d, session'[d], store)
    PROVE  GapInv'
<1>1. \A u \in Device : u # d => GapsAt(u, session'[u], store)
  BY DEF GapInv
<1>2. \A u \in Device : GapsAt(u, session'[u], store')
  BY <1>1
<1>3. \A u \in Device : Gaps(store'[u]) /\ store'[u] \ store'[Peer(u)] \subseteq Complete(store'[u])
  BY DEF GapInv
<1> QED BY <1>2, <1>3 DEF GapInv

\* A device without inventories knows nothing of gaps.
LEMMA NothingKnown ==
    ASSUME NEW d \in Device, NEW s, NEW stored, s.remote = {}, s.local = {},
           s.phase \notin {"publish", "append"}, s.followup => s.phase \in FollowUpPhase
    PROVE  GapsAt(d, s, stored)
<1>1. Materialized({}) \subseteq {}
  BY MaterializedIsStored
<1> QED BY <1>1 DEF GapsAt, Gaps

\* A step of d that stores no event and leaves its list, or forgets what it read.
Quiet(d) ==
    LET r == session[d]
        s == session'[d]
    IN
    /\ store' = store /\ \A u \in Device : u # d => session'[u] = session[u]
    /\ s.phase \notin {"publish", "append"} /\ (s.followup => s.phase \in FollowUpPhase)
    /\ \/ s.remote = {} /\ s.local = {}
       \/ /\ s.remote = r.remote /\ s.local = r.local
          /\ s.todo = r.todo /\ s.followup = r.followup

\* Such a step keeps the invariant.
LEMMA QuietKeepsGaps ==
    ASSUME RemovalsStand, TypeInv, GapInv, NEW d \in Device, Quiet(d)
    PROVE  GapInv'
<1>1. GapsAt(d, session[d], store)
  BY DEF GapInv
<1>2. GapsAt(d, session'[d], store)
  <2>1. CASE session'[d].remote = {} /\ session'[d].local = {}
    BY <2>1, NothingKnown DEF Quiet
  <2>2. CASE /\ session'[d].remote = session[d].remote /\ session'[d].local = session[d].local
             /\ session'[d].todo = session[d].todo
             /\ session'[d].followup = session[d].followup
    BY <1>1, <2>2 DEF Quiet, GapsAt
  <2> QED BY <2>1, <2>2 DEF Quiet
<1> QED BY <1>2, StillGapStep DEF Quiet

\* Most steps of a session are of this kind.
LEMMA QuietSteps ==
    ASSUME TypeInv, GapInv, NEW d \in Device,
           \/ StartUploads(d) \/ PutBlobs(d) \/ RecordOutboundRepair(d)
           \/ SnapshotOpenMls(d) \/ RecordOpenMlsCheckpoint(d)
           \/ ScanMissingBlobs(d) \/ FetchBlob(d) \/ RecordInboundRepair(d)
           \/ RetryTransfers(d) \/ Fail(d)
    PROVE  Quiet(d)
<1>1. session \in [Device -> SessionState] /\ session[d] \in SessionState
  BY DEF TypeInv, SessionsOK
<1>2. session[d].followup => session[d].phase \in FollowUpPhase
  BY DEF GapInv, GapsAt
<1>3. CASE StartUploads(d)
  BY <1>1, <1>2, <1>3 DEF StartUploads, Quiet, stores, At, FollowUpPhase, SessionState
<1>4. CASE PutBlobs(d)
  BY <1>1, <1>2, <1>4 DEF PutBlobs, Quiet, At, FollowUpPhase, SessionState
<1>5. CASE RecordOutboundRepair(d)
  BY <1>1, <1>2, <1>5 DEF RecordOutboundRepair, Quiet, stores, At, FollowUpPhase, SessionState
<1>6. CASE SnapshotOpenMls(d)
  BY <1>1, <1>2, <1>6 DEF SnapshotOpenMls, Quiet, stores, At, FollowUpPhase, SessionState
<1>7. CASE RecordOpenMlsCheckpoint(d)
  BY <1>1, <1>2, <1>7 DEF RecordOpenMlsCheckpoint, Quiet, stores, At, FollowUpPhase, SessionState
<1>8. CASE ScanMissingBlobs(d)
  <2> DEFINE full == InboundScanDue(d)
             wanted == IF full THEN AttachmentBlobHashes(Materialized(store[d]))
                       ELSE inbound[d].pending
             ph == IF ~full /\ wanted = {} THEN AfterPull(d) ELSE "fetch"
             B == wanted \ blobs[d]
             R == IF session[d].made = {} THEN {} ELSE session[d].remote
             L == IF session[d].made = {} THEN {} ELSE session[d].local
  <2>1. session[d].phase = "blobs" /\ store' = store /\ ph \in {"fetch", "retry", "followup"}
    BY <1>8 DEF ScanMissingBlobs, At, stores, AfterPull
  <2>2. session' = [session EXCEPT ![d].phase = ph, ![d].blobs = B, ![d].full = full,
                        ![d].fetched = FALSE, ![d].remote = R, ![d].local = L]
    BY <1>8 DEF ScanMissingBlobs, TypeInv, SessionsOK
  <2>3. (R = {} /\ L = {}) \/ (R = session[d].remote /\ L = session[d].local)
    OBVIOUS
  <2> HIDE DEF R, L, B, ph, full
  <2>4. /\ session'[d].phase = ph /\ session'[d].remote = R /\ session'[d].local = L
        /\ session'[d].todo = session[d].todo /\ session'[d].followup = session[d].followup
        /\ \A u \in Device : u # d => session'[u] = session[u]
    BY <1>1, <2>2 DEF SessionState
  <2> QED BY <1>2, <2>1, <2>2, <2>3, <2>4 DEF Quiet, FollowUpPhase
<1>9. CASE FetchBlob(d)
  <2>1. /\ session[d].phase = "fetch" /\ store' = store
        /\ \E B, M : session' = [session EXCEPT ![d].blobs = B, ![d].missing = M]
    BY <1>9 DEF FetchBlob, At
  <2> QED BY <1>1, <1>2, <2>1 DEF Quiet, FollowUpPhase, SessionState
<1>10. CASE RecordInboundRepair(d)
  BY <1>1, <1>2, <1>10 DEF RecordInboundRepair, Quiet, stores, At, AfterPull, FollowUpPhase, SessionState
<1>11. CASE RetryTransfers(d) \/ Fail(d)
  <2>1. store' = store /\ session' = [session EXCEPT ![d] = NoSession]
    BY <1>11 DEF RetryTransfers, Fail, stores
  <2> QED BY <1>1, <2>1 DEF Quiet, NoSession
<1> QED BY <1>3, <1>4, <1>5, <1>6, <1>7, <1>8, <1>9, <1>10, <1>11

\* What is known when a device takes a step.
LEMMA GapsAtHome ==
    ASSUME TypeInv, SyncInv, GapInv, NEW d \in Device
    PROVE  /\ session \in [Device -> SessionState] /\ session[d] \in SessionState
           /\ session[d].todo \in Seq(Event) /\ session[d].remote \in SUBSET Event
           /\ session[d].local \in SUBSET Event
           /\ (session[d].phase \in {"publish", "append"} <=> session[d].todo # <<>>)
           /\ ReadsAreKept(d, session[d], store) /\ GapsAt(d, session[d], store)
           /\ store[d] \in SUBSET Event /\ store[Peer(d)] \in SUBSET Event
           /\ Gaps(store[d]) /\ Gaps(store[Peer(d)])
           /\ store[d] \ store[Peer(d)] \subseteq Complete(store[d])
           /\ store[Peer(d)] \ store[d] \subseteq Complete(store[Peer(d)])
           /\ store \in [Device -> SUBSET Event] /\ Peer(d) \in Device /\ Peer(d) # d
           /\ Peer(Peer(d)) = d /\ \A u \in Device : u = d \/ u = Peer(d)
<1>1. /\ Peer(d) \in Device /\ Peer(d) # d /\ Peer(Peer(d)) = d
      /\ \A u \in Device : u = d \/ u = Peer(d)
  BY Peers
<1>2. session[d] \in SessionState /\ SessionOK(session[d]) /\ ReadsAreKept(d, session[d], store)
  BY AtHome
<1>3. /\ session[d].todo \in Seq(Event) /\ session[d].remote \in SUBSET Event
      /\ session[d].local \in SUBSET Event
      /\ (session[d].phase \in {"publish", "append"} <=> session[d].todo # <<>>)
  BY <1>2 DEF SessionState, SessionOK
<1>4. session \in [Device -> SessionState] /\ store \in [Device -> SUBSET Event]
  BY DEF TypeInv, SessionsOK, StoresOK
<1>5. /\ store[d] \ store[Peer(d)] \subseteq Complete(store[d])
      /\ store[Peer(d)] \ store[Peer(Peer(d))] \subseteq Complete(store[Peer(d)])
      /\ Gaps(store[d]) /\ Gaps(store[Peer(d)]) /\ GapsAt(d, session[d], store)
  BY <1>1 DEF GapInv
<1> QED BY <1>1, <1>2, <1>3, <1>4, <1>5

\* A new session knows the peer's inventory, which has refusals for gaps.
LEMMA FetchWorkspaceInventoryGaps ==
    ASSUME RemovalsStand, TypeInv, SyncInv, GapInv, NEW d \in Device, FetchWorkspaceInventory(d)
    PROVE  GapInv'
<1> DEFINE s == [NoSession EXCEPT !.phase = "plan", !.remote = store[Peer(d)]]
<1>1. session \in [Device -> SessionState] /\ Gaps(store[Peer(d)])
  BY GapsAtHome
<1>2. session' = [session EXCEPT ![d] = s] /\ store' = store
  BY DEF FetchWorkspaceInventory, stores
<1>3. /\ s.remote = store[Peer(d)] /\ s.local = {} /\ s.phase = "plan" /\ s.followup = FALSE
  BY DEF NoSession
<1> HIDE DEF s
<1>4. Materialized({}) \subseteq {}
  BY MaterializedIsStored
<1>5. GapsAt(d, s, store)
  BY <1>1, <1>3, <1>4 DEF GapsAt
<1>6. session'[d] = s /\ \A u \in Device : u # d => session'[u] = session[u]
  BY <1>1, <1>2
<1> QED BY <1>2, <1>5, <1>6, StillGapStep

\* A session that publishes feeds the peer, if the peer has what is materialized
\* and not published.
LEMMA PublishingGaps ==
    ASSUME TypeInv, SyncInv, GapInv, NEW d \in Device, NEW publish \in SUBSET store[d],
           NEW followup \in BOOLEAN, Materialized(store[d]) \ publish \subseteq store[Peer(d)],
           followup \/ store[d] \ session[d].remote \subseteq publish
    PROVE  GapsAt(d, Publishing(d, publish, followup), store)
<1> DEFINE out == publish \cap Materialized(store[d])
           todo == InOrder(out)
           scan == AttachmentBlobHashes(Materialized(store[d]))
           ph == IF todo # <<>> THEN "publish" ELSE AfterEvents(scan)
           s == Publishing(d, publish, followup)
<1>1. /\ session[d] \in SessionState /\ store[d] \in SUBSET Event
      /\ GapsAt(d, session[d], store)
      /\ store[d] \ store[Peer(d)] \subseteq Complete(store[d])
  BY GapsAtHome
<1>2. s = [session[d] EXCEPT !.phase = ph, !.local = store[d], !.todo = todo,
                             !.blobs = scan, !.followup = followup]
  BY DEF Publishing
<1>3. ph \in {"publish", "upload", "record"}
  BY DEF AfterEvents
<1>4. Feeds(todo, store[Peer(d)]) /\ Range(todo) = out
  <2>1. out \in SUBSET Event
    BY <1>1
  <2> QED BY <1>1, <2>1, PublishedFeeds, ListedInOrder
<1> HIDE DEF ph, todo, scan
<1>5. /\ s.phase = ph /\ s.local = store[d] /\ s.todo = todo /\ s.followup = followup
      /\ s.remote = session[d].remote
  BY <1>1, <1>2 DEF SessionState
<1> HIDE DEF s
<1>6. ~followup => Materialized(store[d]) \ s.remote \subseteq Range(todo)
  <2>1. Materialized(store[d]) \subseteq store[d]
    BY <1>1, MaterializedIsStored
  <2> QED BY <1>4, <1>5, <2>1
<1>7. Gaps(s.remote)
  BY <1>1, <1>5 DEF GapsAt
<1> QED BY <1>1, <1>3, <1>4, <1>5, <1>6, <1>7 DEF GapsAt, FollowUpPhase, s

\* The plan: what is not published is in the peer's inventory.
LEMMA PlanWorkspaceSyncGaps ==
    ASSUME RemovalsStand, TypeInv, SyncInv, GapInv, NEW d \in Device, PlanWorkspaceSync(d)
    PROVE  GapInv'
<1> DEFINE publish == store[d] \ session[d].remote
           t == [session[d] EXCEPT !.phase = "pull", !.local = store[d]]
           goes == publish # {} \/ OutboundRepairDue(d, store[d])
<1>1. /\ session \in [Device -> SessionState] /\ session[d] \in SessionState
      /\ store[d] \in SUBSET Event /\ ReadsAreKept(d, session[d], store)
      /\ GapsAt(d, session[d], store)
      /\ store[d] \ store[Peer(d)] \subseteq Complete(store[d])
  BY GapsAtHome
<1>2. Materialized(store[d]) \subseteq store[d] /\ session[d].remote \subseteq store[Peer(d)]
  BY <1>1, MaterializedIsStored DEF ReadsAreKept
<1>3. /\ session[d].phase = "plan" /\ store' = store
      /\ session' = [session EXCEPT ![d] = IF goes THEN Publishing(d, publish, FALSE) ELSE t]
  BY DEF PlanWorkspaceSync, stores, At
<1>4. \A u \in Device : u # d => session'[u] = session[u]
  BY <1>1, <1>3
<1>5. session'[d] = IF goes THEN Publishing(d, publish, FALSE) ELSE t
  BY <1>1, <1>3
<1>6. CASE goes
  <2>1. Materialized(store[d]) \ publish \subseteq store[Peer(d)]
    BY <1>2
  <2>2. GapsAt(d, Publishing(d, publish, FALSE), store)
    BY <2>1, PublishingGaps
  <2> QED BY <1>3, <1>4, <1>5, <1>6, <2>2, StillGapStep
<1>7. CASE ~goes
  <2>1. /\ t.phase = "pull" /\ t.local = store[d] /\ t.remote = session[d].remote
        /\ t.followup = session[d].followup
    BY <1>1 DEF SessionState
  <2> HIDE DEF t
  <2>2. Materialized(store[d]) \subseteq session[d].remote
    BY <1>2, <1>7
  <2>3. GapsAt(d, t, store)
    BY <1>1, <1>3, <2>1, <2>2 DEF GapsAt, FollowUpPhase
  <2> QED BY <1>3, <1>4, <1>5, <1>7, <2>3, StillGapStep
<1> QED BY <1>6, <1>7

\* The follow-up: of what counts as exchanged, the peer has what is materialized.
LEMMA PublishFollowUpGaps ==
    ASSUME RemovalsStand, TypeInv, SyncInv, GapInv, NEW d \in Device, PublishFollowUp(d)
    PROVE  GapInv'
<1> DEFINE r == session[d]
           publish == store[d] \ KnownToPeer(d)
<1>1. /\ session \in [Device -> SessionState] /\ r \in SessionState
      /\ store[d] \in SUBSET Event /\ ReadsAreKept(d, r, store) /\ GapsAt(d, r, store)
      /\ r.local \in SUBSET Event /\ (r.phase \in {"publish", "append"} <=> r.todo # <<>>)
  BY GapsAtHome
<1>2. /\ r.phase = "followup" /\ store' = store
      /\ session' = [session EXCEPT ![d] = Publishing(d, publish, TRUE)]
  BY DEF PublishFollowUp, stores, At
<1>3. /\ r.remote \subseteq store[Peer(d)] /\ r.local \subseteq store[d]
      /\ Materialized(store[d]) \subseteq store[d]
  BY <1>1, MaterializedIsStored DEF ReadsAreKept
<1>4. Materialized(r.local) \ r.remote \subseteq store[Peer(d)]
  <2>1. r.todo = <<>> /\ ~r.followup
    BY <1>1, <1>2 DEF GapsAt, FollowUpPhase
  <2>2. Range(r.todo) = {}
    <3>1. r.todo \in Seq(Event)
      BY GapsAtHome
    <3> QED BY <2>1, <3>1, EmptyList
  <2> QED BY <1>1, <2>1, <2>2 DEF GapsAt
<1>5. r.local \ store[Peer(d)] \subseteq Complete(r.local)
  BY <1>1 DEF GapsAt
<1>6. Complete(r.local) \cap Materialized(store[d]) \subseteq Materialized(r.local)
  BY <1>1, <1>3, CompleteEventsWereMaterialized
<1>7. Materialized(store[d]) \ publish \subseteq store[Peer(d)]
  BY <1>3, <1>4, <1>5, <1>6 DEF KnownToPeer
<1>8. GapsAt(d, Publishing(d, publish, TRUE), store)
  BY <1>7, PublishingGaps
<1>9. /\ session'[d] = Publishing(d, publish, TRUE)
      /\ \A u \in Device : u # d => session'[u] = session[u]
  BY <1>1, <1>2
<1> QED BY <1>2, <1>8, <1>9, StillGapStep

\* One publish request.
LEMMA PublishEventsGaps ==
    ASSUME RemovalsStand, TypeInv, SyncInv, GapInv, StoresOK', NEW d \in Device, PublishEvents(d)
    PROVE  GapInv'
<1> DEFINE todo == session[d].todo
           size == IF Len(todo) < PublishLimit THEN Len(todo) ELSE PublishLimit
           request == SubSeq(todo, 1, size)
           after == Accepted(store[Peer(d)], request)
           rest == SubSeq(todo, size + 1, Len(todo))
           t == [session[d] EXCEPT !.todo = rest,
                    !.phase = IF rest = <<>> THEN AfterEvents(session[d].blobs) ELSE "publish"]
           s == IF ~(Range(request) \subseteq after) THEN NoSession ELSE t
<1>1. /\ session \in [Device -> SessionState] /\ session[d] \in SessionState
      /\ todo \in Seq(Event) /\ ReadsAreKept(d, session[d], store)
      /\ GapsAt(d, session[d], store)
      /\ store[d] \in SUBSET Event /\ store[Peer(d)] \in SUBSET Event
      /\ Gaps(store[d]) /\ Gaps(store[Peer(d)])
      /\ store[d] \ store[Peer(d)] \subseteq Complete(store[d])
      /\ store[Peer(d)] \ store[d] \subseteq Complete(store[Peer(d)])
      /\ store \in [Device -> SUBSET Event] /\ Peer(d) \in Device /\ Peer(d) # d
      /\ Peer(Peer(d)) = d /\ \A u \in Device : u = d \/ u = Peer(d)
  BY GapsAtHome
<1>2. /\ session[d].phase = "publish" /\ store' = [store EXCEPT ![Peer(d)] = after]
      /\ session' = [session EXCEPT ![d] = s] /\ blobs' = blobs
  BY DEF PublishEvents, At
<1>3. size \in 0..Len(todo)
  <2>1. Len(todo) \in Nat /\ PublishLimit \in Nat
    BY <1>1, DevicesAssumption
  <2> HIDE DEF todo
  <2> QED BY <2>1
<1>4. Feeds(todo, store[Peer(d)]) /\ Range(todo) \subseteq store[d]
  BY <1>1, <1>2 DEF GapsAt, ReadsAreKept
<1> HIDE DEF todo, size
<1>5. /\ request \in Seq(Event) /\ rest \in Seq(Event)
      /\ Range(todo) = Range(request) \cup Range(rest)
  BY <1>1, <1>3, CutInTwo
<1>6. /\ Feeds(request, store[Peer(d)])
      /\ \A U \in SUBSET Event :
            store[Peer(d)] \cup Range(request) \subseteq U => Feeds(rest, U)
  BY <1>1, <1>3, <1>4, PartsAreFed
<1> HIDE DEF request, rest
<1>7. /\ store[Peer(d)] \subseteq after /\ after \subseteq store[Peer(d)] \cup Range(request)
      /\ Gaps(after)
  BY <1>1, <1>5, <1>6, AcceptedEvents, AcceptedGaps
<1> HIDE DEF after
<1>8. after \in SUBSET Event
  BY <1>1, <1>4, <1>5, <1>7
<1>9. store'[d] = store[d] /\ store'[Peer(d)] = after /\ StoresGrow
  <2>1. store'[d] = store[d] /\ store'[Peer(d)] = after
    BY <1>1, <1>2
  <2>2. \A u \in Device : store[u] \subseteq store'[u]
    BY <1>1, <1>7, <2>1
  <2> QED BY <1>2, <2>1, <2>2 DEF StoresGrow
<1>10. \A u \in Device : /\ Gaps(store'[u])
                         /\ store'[u] \ store'[Peer(u)] \subseteq Complete(store'[u])
  <2>1. Gaps(store'[d]) /\ store'[d] \ store'[Peer(d)] \subseteq Complete(store'[d])
    BY <1>1, <1>7, <1>9
  <2>2. Complete(store[Peer(d)]) \subseteq Complete(after)
    BY <1>1, <1>7, <1>8, CompleteEvents
  <2>3. after \ store[d] \subseteq Complete(after)
    BY <1>1, <1>4, <1>5, <1>7, <2>2
  <2>4. Gaps(store'[Peer(d)]) /\ store'[Peer(d)] \ store'[Peer(Peer(d))] \subseteq Complete(store'[Peer(d)])
    BY <1>1, <1>7, <1>9, <2>3
  <2> QED BY <1>1, <2>1, <2>4
<1>11. session'[d] = s /\ \A u \in Device : u # d => session'[u] = session[u]
  BY <1>1, <1>2
<1>12. GapsAt(d, s, store')
  <2>1. CASE Range(request) \subseteq after
    <3>1. s = t
      BY <2>1
    <3>2. /\ t.todo = rest /\ t.remote = session[d].remote /\ t.local = session[d].local
          /\ t.followup = session[d].followup
          /\ t.phase = (IF rest = <<>> THEN AfterEvents(session[d].blobs) ELSE "publish")
      BY <1>1 DEF SessionState
    <3> HIDE DEF t, s
    <3>3. t.phase \in {"publish", "upload", "record"}
      BY <3>2 DEF AfterEvents
    <3>4. Feeds(rest, store'[Peer(d)])
      BY <1>6, <1>7, <1>8, <1>9, <2>1
    <3>5. t.local \ store'[Peer(d)] \subseteq Complete(t.local)
      BY <1>1, <1>7, <1>9, <3>2 DEF GapsAt
    <3>6. ~t.followup => Materialized(t.local) \ t.remote \subseteq Range(t.todo) \cup store'[Peer(d)]
      <4>1. ~session[d].followup =>
                Materialized(session[d].local) \ session[d].remote \subseteq
                    Range(todo) \cup store[Peer(d)]
        BY <1>1 DEF GapsAt, todo
      <4> QED BY <1>5, <1>7, <1>9, <2>1, <3>2, <4>1
    <3>7. Gaps(t.remote)
      BY <1>1, <3>2 DEF GapsAt
    <3> QED BY <3>1, <3>2, <3>3, <3>4, <3>5, <3>6, <3>7 DEF GapsAt, FollowUpPhase
  <2>2. CASE ~(Range(request) \subseteq after)
    <3>1. s = NoSession
      BY <2>2
    <3> HIDE DEF s
    <3> QED BY <3>1, NothingKnown DEF NoSession
  <2> QED BY <2>1, <2>2
<1> HIDE DEF s
<1> QED BY <1>9, <1>10, <1>11, <1>12, GapStep

\* The fetched events fill the store, in the order in which they will be stored.
LEMMA FetchEventsGaps ==
    ASSUME RemovalsStand, TypeInv, SyncInv, GapInv, NEW d \in Device, FetchEvents(d)
    PROVE  GapInv'
<1> DEFINE r == session[d]
           fetched == (r.remote \ r.local) \cap store[Peer(d)]
           ph == IF fetched = {} THEN AfterEventsFetched ELSE "append"
           list == AppendOrder(store[d], fetched)
           some == fetched # {}
<1>1. /\ session \in [Device -> SessionState] /\ r \in SessionState
      /\ r.todo \in Seq(Event) /\ r.remote \in SUBSET Event
      /\ (r.phase \in {"publish", "append"} <=> r.todo # <<>>)
      /\ ReadsAreKept(d, r, store) /\ GapsAt(d, r, store) /\ store[d] \in SUBSET Event
  BY GapsAtHome
<1>2. /\ r.phase = "pull" /\ store' = store
      /\ session' = [session EXCEPT ![d].phase = ph, ![d].todo = list, ![d].fetched = some]
  BY DEF FetchEvents, stores, At
<1>3. Fills(list, store[d])
  <2>1. fetched \in SUBSET r.remote /\ r.remote \subseteq store[d] \cup fetched /\ Gaps(r.remote)
    BY <1>1 DEF ReadsAreKept, GapsAt
  <2> HIDE DEF fetched
  <2> QED BY <1>1, <2>1, FetchedFills
<1>4. ~r.followup /\ ph \notin FollowUpPhase
  BY <1>1, <1>2 DEF GapsAt, FollowUpPhase, AfterEventsFetched
<1>5. Materialized(r.local) \ r.remote \subseteq store[Peer(d)]
  <2>1. Range(r.todo) = {}
    BY <1>1, <1>2, EmptyList
  <2> QED BY <1>1, <1>4, <2>1 DEF GapsAt
<1>6. ph # "publish"
  BY <1>4 DEF FollowUpPhase
<1> HIDE DEF ph, list, some
<1>7. /\ session'[d].phase = ph /\ session'[d].todo = list /\ session'[d].remote = r.remote
      /\ session'[d].local = r.local /\ session'[d].followup = r.followup
      /\ \A u \in Device : u # d => session'[u] = session[u]
  BY <1>1, <1>2 DEF SessionState
<1>8. GapsAt(d, session'[d], store)
  BY <1>1, <1>3, <1>4, <1>5, <1>6, <1>7 DEF GapsAt
<1> QED BY <1>2, <1>7, <1>8, StillGapStep

\* One fetched event is stored.
LEMMA AppendEventGaps ==
    ASSUME RemovalsStand, TypeInv, SyncInv, GapInv, StoresOK', NEW d \in Device, AppendEvent(d)
    PROVE  GapInv'
<1> DEFINE r == session[d]
           h == Head(r.todo)
           rest == Tail(r.todo)
           S == store[d] \cup {h}
           ph == IF Len(r.todo) = 1 THEN AfterEventsFetched ELSE "append"
<1>1. /\ session \in [Device -> SessionState] /\ r \in SessionState
      /\ r.todo \in Seq(Event) /\ ReadsAreKept(d, r, store) /\ GapsAt(d, r, store)
      /\ (r.phase \in {"publish", "append"} <=> r.todo # <<>>)
      /\ store[d] \in SUBSET Event /\ store[Peer(d)] \in SUBSET Event
      /\ Gaps(store[d]) /\ Gaps(store[Peer(d)])
      /\ store[d] \ store[Peer(d)] \subseteq Complete(store[d])
      /\ store[Peer(d)] \ store[d] \subseteq Complete(store[Peer(d)])
      /\ store \in [Device -> SUBSET Event] /\ Peer(d) \in Device /\ Peer(d) # d
      /\ Peer(Peer(d)) = d /\ \A u \in Device : u = d \/ u = Peer(d)
  BY GapsAtHome
<1>2. /\ r.phase = "append" /\ store' = [store EXCEPT ![d] = S]
      /\ session' = [session EXCEPT ![d].phase = ph, ![d].todo = rest] /\ blobs' = blobs
  BY DEF AppendEvent, At
<1>3. r.todo # <<>> /\ Fills(r.todo, store[d]) /\ Range(r.todo) \subseteq store[Peer(d)]
  BY <1>1, <1>2 DEF GapsAt, ReadsAreKept
<1>4. Gaps(S) /\ Fills(rest, S)
  BY <1>1, <1>3, HeadFills
<1>5. h \in store[Peer(d)] /\ rest \in Seq(Event)
  BY <1>1, <1>3, HeadAndTail
<1>6. ~r.followup /\ ph \notin FollowUpPhase
  BY <1>1, <1>2 DEF GapsAt, FollowUpPhase, AfterEventsFetched
<1>7. ph # "publish"
  BY <1>6 DEF FollowUpPhase
<1> HIDE DEF ph, h, rest
<1>8. S \in SUBSET Event /\ store[d] \subseteq S
  BY <1>1, <1>5
<1>9. store'[d] = S /\ store'[Peer(d)] = store[Peer(d)] /\ StoresGrow
  <2>1. store'[d] = S /\ store'[Peer(d)] = store[Peer(d)]
    BY <1>1, <1>2
  <2>2. \A u \in Device : store[u] \subseteq store'[u]
    BY <1>1, <1>8, <2>1
  <2> QED BY <1>2, <2>1, <2>2 DEF StoresGrow
<1>10. \A u \in Device : /\ Gaps(store'[u])
                         /\ store'[u] \ store'[Peer(u)] \subseteq Complete(store'[u])
  <2>1. Complete(store[d]) \subseteq Complete(S)
    BY <1>1, <1>8, CompleteEvents
  <2>2. S \ store[Peer(d)] \subseteq Complete(S)
    BY <1>1, <1>5, <2>1
  <2>3. Gaps(store'[d]) /\ store'[d] \ store'[Peer(d)] \subseteq Complete(store'[d])
    BY <1>4, <1>9, <2>2
  <2>4. Gaps(store'[Peer(d)]) /\ store'[Peer(d)] \ store'[Peer(Peer(d))] \subseteq Complete(store'[Peer(d)])
    BY <1>1, <1>8, <1>9
  <2> QED BY <1>1, <2>3, <2>4
<1> HIDE DEF S
<1>11. /\ session'[d].phase = ph /\ session'[d].todo = rest /\ session'[d].remote = r.remote
       /\ session'[d].local = r.local /\ session'[d].followup = r.followup
       /\ \A u \in Device : u # d => session'[u] = session[u]
  BY <1>1, <1>2 DEF SessionState
<1>12. Materialized(r.local) \ r.remote \subseteq store[Peer(d)]
  BY <1>1, <1>3, <1>6 DEF GapsAt
<1>13. GapsAt(d, session'[d], store')
  BY <1>1, <1>4, <1>6, <1>7, <1>9, <1>11, <1>12 DEF GapsAt
<1> QED BY <1>9, <1>10, <1>11, <1>13, GapStep

\* A device writes events on top of what it has materialized.
LEMMA WritingStep ==
    ASSUME RemovalsStand, TypeInv, SyncInv, GapInv, StoresOK', SessionsOK', NEW d \in Device,
           NEW written \in SUBSET Event, \A e \in written : Parents[e] \subseteq Materialized(store[d]),
           store' = [store EXCEPT ![d] = store[d] \cup written],
           \A u \in Device : blobs[u] \subseteq blobs'[u],
           \A u \in Device : u # d => session'[u] = session[u], GapsAt(d, session'[d], store)
    PROVE  GapInv'
<1> DEFINE S == store[d] \cup written
<1>1. /\ store[d] \in SUBSET Event /\ store[Peer(d)] \in SUBSET Event
      /\ Gaps(store[d]) /\ Gaps(store[Peer(d)])
      /\ store[d] \ store[Peer(d)] \subseteq Complete(store[d])
      /\ store[Peer(d)] \ store[d] \subseteq Complete(store[Peer(d)])
      /\ store \in [Device -> SUBSET Event] /\ Peer(d) \in Device /\ Peer(d) # d
      /\ Peer(Peer(d)) = d /\ \A u \in Device : u = d \/ u = Peer(d)
  BY GapsAtHome
<1>2. Gaps(S) /\ written \subseteq Complete(S)
  BY <1>1, WritingKeepsGaps
<1>3. S \in SUBSET Event /\ store[d] \subseteq S
  BY <1>1
<1>4. store'[d] = S /\ store'[Peer(d)] = store[Peer(d)] /\ StoresGrow
  <2>1. store'[d] = S /\ store'[Peer(d)] = store[Peer(d)]
    BY <1>1
  <2>2. \A u \in Device : store[u] \subseteq store'[u]
    BY <1>1, <1>3, <2>1
  <2> QED BY <2>1, <2>2 DEF StoresGrow
<1>5. \A u \in Device : /\ Gaps(store'[u])
                        /\ store'[u] \ store'[Peer(u)] \subseteq Complete(store'[u])
  <2>1. Complete(store[d]) \subseteq Complete(S)
    BY <1>1, <1>3, CompleteEvents
  <2>2. S \ store[Peer(d)] \subseteq Complete(S)
    BY <1>1, <1>2, <2>1
  <2>3. Gaps(store'[d]) /\ store'[d] \ store'[Peer(d)] \subseteq Complete(store'[d])
    BY <1>2, <1>4, <2>2
  <2>4. Gaps(store'[Peer(d)]) /\ store'[Peer(d)] \ store'[Peer(Peer(d))] \subseteq Complete(store'[Peer(d)])
    BY <1>1, <1>3, <1>4
  <2> QED BY <1>1, <2>3, <2>4
<1>6. GapsAt(d, session'[d], store')
  <2>1. session'[d] \in SessionState /\ StoresOK
    BY DEF SessionsOK, TypeInv
  <2> QED BY <1>4, <2>1, GapsAtStays
<1> QED BY <1>4, <1>5, <1>6, GapStep

\* Catching up makes packages and additions.
LEMMA CatchUpOpenMlsGaps ==
    ASSUME RemovalsStand, TypeInv, SyncInv, GapInv, StoresOK', SessionsOK', NEW d \in Device,
           CatchUpOpenMls(d)
    PROVE  GapInv'
<1> DEFINE r == session[d]
           due == CatchUpDue(d)
<1>1. session \in [Device -> SessionState] /\ r \in SessionState /\ GapsAt(d, r, store)
  BY GapsAtHome
<1>2. /\ r.phase = "catchup" /\ store' = [store EXCEPT ![d] = store[d] \cup due] /\ blobs' = blobs
      /\ session' = [session EXCEPT ![d].phase = "checkpoint", ![d].made = due]
  BY DEF CatchUpOpenMls, At
<1>3. due \in SUBSET Event /\ \A e \in due : Parents[e] \subseteq Materialized(store[d])
  BY EventsAssumption DEF CatchUpDue
<1> HIDE DEF due
<1>4. /\ session'[d].phase = "checkpoint" /\ session'[d].todo = r.todo
      /\ session'[d].remote = r.remote /\ session'[d].local = r.local
      /\ session'[d].followup = r.followup
      /\ \A u \in Device : u # d => session'[u] = session[u]
  BY <1>1, <1>2 DEF SessionState
<1>5. GapsAt(d, session'[d], store)
  BY <1>1, <1>2, <1>4 DEF GapsAt, FollowUpPhase
<1> QED BY <1>2, <1>3, <1>4, <1>5, WritingStep

\* A user writes an event.
LEMMA WriteEventGaps ==
    ASSUME RemovalsStand, TypeInv, SyncInv, GapInv, StoresOK', SessionsOK', NEW d \in Device,
           NEW e \in Event, WriteEvent(d, e)
    PROVE  GapInv'
<1>1. /\ session' = session /\ store' = [store EXCEPT ![d] = store[d] \cup {e}]
      /\ blobs' = [blobs EXCEPT ![d] = blobs[d] \cup Attached[e]]
      /\ Parents[e] \subseteq Materialized(store[d])
  BY DEF WriteEvent
<1>2. \A u \in Device : blobs[u] \subseteq blobs'[u]
  BY <1>1 DEF TypeInv, StoresOK
<1>3. GapsAt(d, session'[d], store) /\ \A u \in Device : u # d => session'[u] = session[u]
  BY <1>1 DEF GapInv
<1> DEFINE written == {e}
<1>4. written \in SUBSET Event /\ \A x \in written : Parents[x] \subseteq Materialized(store[d])
  BY <1>1
<1>5. store' = [store EXCEPT ![d] = store[d] \cup written]
  BY <1>1
<1> HIDE DEF written
<1> QED BY <1>2, <1>3, <1>4, <1>5, WritingStep

\* Every step keeps the invariant.
LEMMA NextKeepsGaps ==
    ASSUME RemovalsStand, TypeInv, SyncInv, GapInv, TypeInv', [Next]_vars
    PROVE  GapInv'
<1>1. CASE UNCHANGED vars
  <2>1. store' = store /\ session' = session
    BY <1>1 DEF vars, stores
  <2> QED BY <2>1 DEF GapInv
<1>2. CASE Next
  <2>1. PICK d \in Device : \/ FetchWorkspaceInventory(d) \/ SyncStep(d) \/ Fail(d)
                            \/ \E e \in Event : WriteEvent(d, e)
    BY <1>2 DEF Next
  <2>2. StoresOK' /\ SessionsOK'
    BY DEF TypeInv
  <2>3. CASE SyncStep(d)
    BY <2>2, <2>3, PlanWorkspaceSyncGaps, PublishEventsGaps, FetchEventsGaps, AppendEventGaps,
       CatchUpOpenMlsGaps, PublishFollowUpGaps, QuietSteps, QuietKeepsGaps
    DEF SyncStep
  <2> QED BY <2>1, <2>2, <2>3, FetchWorkspaceInventoryGaps, WriteEventGaps, QuietSteps,
             QuietKeepsGaps
<1> QED BY <1>1, <1>2

\* Complete histories have no gaps to begin with.
LEMMA InitHasNoGaps ==
    ASSUME StartComplete, Init
    PROVE  GapInv
<1>1. TypeInv
  BY InitIsSafe
<1>2. store = situation.stored /\ situation \in Scenarios
  BY DEF Init
<1>3. ASSUME NEW d \in Device
      PROVE  /\ Gaps(store[d]) /\ store[d] \subseteq Complete(store[d])
             /\ GapsAt(d, session[d], store)
  <2>1. Closed(store[d]) /\ store[d] \in SUBSET Event
    BY <1>1, <1>2 DEF StartComplete, Closed, TypeInv, StoresOK
  <2>2. Gaps(store[d]) /\ store[d] \subseteq Complete(store[d])
    BY <2>1, CompleteEvents DEF Gaps, Closed
  <2>3. session[d] = NoSession
    BY DEF Init
  <2>4. GapsAt(d, session[d], store)
    BY <2>3, NothingKnown DEF NoSession
  <2> QED BY <2>2, <2>4
<1> QED BY <1>3 DEF GapInv

\* If removals stand and the devices start with complete histories, a device
\* that keeps an event without a parent has refused the parent, wherever pulls
\* and publishes stopped (append_workspace_events_in_materialized_order,
\* authorize_pending_events, followup_sync_plan).
THEOREM GapsComeFromRefusals ==
    ASSUME RemovalsStand, StartComplete
    PROVE  Spec => []GapsAreRefusals
<1>1. Init => TypeInv /\ SyncInv /\ GapInv
  BY InitIsSafe, InitHasNoGaps
<1>2. TypeInv /\ SyncInv /\ GapInv /\ [Next]_vars => (TypeInv /\ SyncInv /\ GapInv)'
  BY NextKeeps, NextKeepsGaps DEF Keeps
<1>3. GapInv => GapsAreRefusals
  BY DEF GapInv, Gaps, GapsAreRefusals
<1> QED BY <1>1, <1>2, <1>3, PTL DEF Spec

=============================================================================
