-------------------------- MODULE JoinHandoffProofs --------------------------
(***************************************************************************)
(* Type correctness of JoinHandoff for every set of requests, and its      *)
(* three safety invariants for every set of requests that an inbox has     *)
(* room for: requests are not lost on the way, although threads of both    *)
(* devices share the queues and either device may crash at any step.       *)
(***************************************************************************)
EXTENDS JoinHandoff, SelectionProofs

-----------------------------------------------------------------------------
(* The invariants.                                                         *)

Outboxes == {"request", "response"}
Inboxes  == {"request", "staged", "response"}

Busy == {"send", "sent", "arrived", "ack"}

ThreadState == [pc : {"idle", "list"} \cup Busy, todo : Seq(Request), text : Word]

JoinerOK ==
    /\ row \in [Request -> {"none", "sent", "unverified", "joined"}]
    /\ shown \in Request \cup {Nobody}
    /\ listing \in [pc : {"idle", "listed"}, todo : Seq(Letter)]
    /\ acks \subseteq Request

\* What is under way has something to work on.
OwnerOK ==
    /\ decision \in [Request -> Decision]
    /\ refresh \in [pc : {"idle", "next", "stage", "queue", "ack"}, todo : Seq(Letter),
                    queued : BOOLEAN]
    /\ refresh.pc # "idle" => refresh.todo # <<>>
    /\ admin \in [pc : {"idle", "queue"}, req : Request \cup {Nobody}, text : Word]
    /\ admin.pc = "queue" => admin.req \in Request

ThreadsOK ==
    /\ thread \in [Thread -> ThreadState]
    /\ \A t \in Thread : thread[t].pc \in Busy => thread[t].todo # <<>>

\* The only files that do not validate are those of the older build.
Valid(box) == \A e \in Range(box) : e.req = Stray <=> e.status = "Invalid"

QueuesOK ==
    /\ outbox \in [Outboxes -> Seq(OutboxEntry)] /\ \A q \in Outboxes : Valid(outbox[q])
    /\ inbox \in [Inboxes -> Seq(Letter)]

BoundsOK ==
    /\ routed \subseteq Request /\ unreachable \subseteq Request
    /\ asks \in [Request -> Nat] /\ button \in BOOLEAN /\ faults \in Nat
    /\ outcomes \subseteq Outcome

TypeInv == JoinerOK /\ OwnerOK /\ ThreadsOK /\ QueuesOK /\ BoundsOK

\* The limit of an inbox is not reached: there are at most that many requests.
RoomForAll == IsFiniteSet(Request) /\ Cardinality(Request) <= InboxLimit

Distinct(box) == \A j, k \in DOMAIN box : box[j].req = box[k].req => j = k

\* The owner holds the request or has decided upon it.
Received(r) == Holds(inbox["request"], r) \/ decision[r] # "none"

NothingTwice ==
    /\ Distinct(inbox["request"]) /\ Distinct(inbox["staged"]) /\ Distinct(refresh.todo)

\* The letters that a refresh works through have not left the inbox.
TodoIsInTheInbox == \A k \in DOMAIN refresh.todo : Holds(inbox["request"], refresh.todo[k].req)

DeliveredIn(box) == {e.req : e \in {f \in Range(box) : f.status = "Delivered"}}

DeliveredAreReceived ==
    \A r \in Request : r \in DeliveredIn(outbox["request"]) => Received(r)

ArrivedAreReceived ==
    \A t \in RequestThread : thread[t].pc \in {"arrived", "ack"} => Received(Head(thread[t].todo))

SentAreOnTheWay ==
    \A r \in Request : row[r] = "sent" => Holds(outbox["request"], r) \/ Received(r)

ClaimsGoStraight ==
    \A r \in Claims : decision[r] \in {"none", "granted", "changed", "refused"}

\* What the refresh has done for its present letter.
RefreshIsAt ==
    /\ refresh.pc \in {"stage", "queue"} =>
            Current.req \in Claims /\ decision[Current.req] \in {"granted", "changed"}
    /\ refresh.pc = "queue" => Holds(inbox["staged"], Current.req)
    /\ refresh.pc = "ack" =>
            /\ decision[Current.req] # "none"
            /\ Current.req \in Claims =>
                    decision[Current.req] = "refused" \/ Holds(inbox["staged"], Current.req)

OwnerSafe ==
    NothingTwice /\ TodoIsInTheInbox /\ ClaimsGoStraight /\ RefreshIsAt /\ GrantsStayReachable

DeliverySafe == DeliveredAreReceived /\ ArrivedAreReceived /\ SentAreOnTheWay

SafeInv == OwnerSafe /\ DeliverySafe

-----------------------------------------------------------------------------
(* What the operations on boxes do, in terms of the entries.               *)

\* Whether a box holds a request is a matter of its entries.
LEMMA HoldsByEntry ==
    ASSUME NEW X, NEW box \in Seq(X), NEW r
    PROVE  Holds(box, r) <=> \E e \in Range(box) : e.req = r
BY DEF Holds, Range

\* The entry that a box has for a request it holds.
LEMMA EntryOfIsAnEntry ==
    ASSUME NEW X, NEW box \in Seq(X), NEW r, Holds(box, r)
    PROVE  EntryOf(box, r) \in Range(box) /\ EntryOf(box, r) \in X /\ EntryOf(box, r).req = r
<1>1. PICK k \in DOMAIN box : box[k].req = r
  BY DEF Holds
<1> DEFINE c == CHOOSE j \in DOMAIN box : box[j].req = r
<1>2. c \in DOMAIN box /\ box[c].req = r
  BY <1>1
<1>3. EntryOf(box, r) = box[c]
  BY DEF EntryOf
<1> HIDE DEF c
<1> QED BY <1>2, <1>3 DEF Range

\* The empty box.
LEMMA EmptyBox ==
    /\ \A X : <<>> \in Seq(X)
    /\ \A r : ~Holds(<<>>, r)
    /\ Distinct(<<>>) /\ Range(<<>>) = {}
BY DEF Holds, Distinct, Range

\* Keeping some entries keeps the requests of those entries apart.
LEMMA KeptBox ==
    ASSUME NEW X, NEW box \in Seq(X), NEW S
    PROVE  /\ Kept(box, S) \in Seq(X) /\ Range(Kept(box, S)) = Range(box) \cap S
           /\ Distinct(box) => Distinct(Kept(box, S))
<1> DEFINE K == Kept(box, S)
<1>1. K \in Seq(X) /\ Range(K) = Range(box) \cap S
  BY KeptRange
<1>2. PICK at \in [1..Len(K) -> 1..Len(box)] :
            /\ \A i \in 1..Len(K) : K[i] = box[at[i]] /\ K[i] \in S
            /\ \A i, j \in 1..Len(K) : i < j => at[i] < at[j]
  BY KeptIsASubsequence
<1> HIDE DEF K
<1>3. ASSUME Distinct(box), NEW i \in DOMAIN K, NEW j \in DOMAIN K, K[i].req = K[j].req
      PROVE  i = j
  <2>1. i \in 1..Len(K) /\ j \in 1..Len(K) /\ i \in Nat /\ j \in Nat
    BY <1>1
  <2>2. at[i] \in DOMAIN box /\ at[j] \in DOMAIN box
    BY <1>2, <2>1
  <2>3. at[i] = at[j]
    BY <1>2, <1>3, <2>1, <2>2 DEF Distinct
  <2>4. at[i] \in Nat /\ at[j] \in Nat
    BY <1>2, <2>1
  <2>5. ~(i < j) /\ ~(j < i)
    BY <1>2, <2>1, <2>3, <2>4
  <2> QED BY <2>1, <2>5
<1>4. Distinct(box) => Distinct(K)
  BY <1>3 DEF Distinct
<1> QED BY <1>1, <1>4 DEF K

\* Removing the entry of a request leaves those of the others.
LEMMA WithoutBox ==
    ASSUME NEW X, NEW box \in Seq(X), NEW r
    PROVE  /\ Without(box, r) \in Seq(X) /\ Range(Without(box, r)) \subseteq Range(box)
           /\ \A q : Holds(Without(box, r), q) <=> q # r /\ Holds(box, q)
           /\ Distinct(box) => Distinct(Without(box, r))
<1> DEFINE W == Without(box, r)
           S == {e \in Range(box) : e.req # r}
<1>1. W \in Seq(X) /\ Range(W) = Range(box) \cap S /\ (Distinct(box) => Distinct(W))
  BY KeptBox DEF Without
<1> HIDE DEF W
<1>2. \A q : Holds(W, q) <=> \E e \in Range(W) : e.req = q
  BY <1>1, HoldsByEntry
<1>3. \A q : Holds(box, q) <=> \E e \in Range(box) : e.req = q
  BY HoldsByEntry
<1>4. \A q : Holds(W, q) <=> q # r /\ Holds(box, q)
  BY <1>1, <1>2, <1>3
<1> QED BY <1>1, <1>4 DEF W

\* Changing entries in place, where the requests stay as they are.
LEMMA InPlaceBox ==
    ASSUME NEW X, NEW box \in Seq(X), NEW new \in Seq(X), DOMAIN new = DOMAIN box,
           \A k \in DOMAIN box : new[k].req = box[k].req
    PROVE  /\ \A q : Holds(new, q) <=> Holds(box, q)
           /\ Distinct(box) => Distinct(new)
BY DEF Holds, Distinct

\* A new entry at the end.
LEMMA AppendBox ==
    ASSUME NEW X, NEW box \in Seq(X), NEW e \in X
    PROVE  /\ Append(box, e) \in Seq(X) /\ Range(Append(box, e)) = Range(box) \cup {e}
           /\ \A q : Holds(Append(box, e), q) <=> Holds(box, q) \/ q = e.req
           /\ Distinct(box) /\ ~Holds(box, e.req) => Distinct(Append(box, e))
<1> DEFINE A == Append(box, e)
<1>1. /\ A \in Seq(X) /\ Len(A) = Len(box) + 1 /\ Len(box) \in Nat
      /\ \A k \in 1..Len(box) : A[k] = box[k]
      /\ A[Len(box) + 1] = e
  BY AppendProperties
<1> HIDE DEF A
<1>2. /\ DOMAIN A = 1..Len(A) /\ DOMAIN box = 1..Len(box)
      /\ \A k \in DOMAIN box : k \in DOMAIN A /\ A[k] = box[k]
      /\ Len(A) \in DOMAIN A /\ A[Len(A)] = e
      /\ \A k \in DOMAIN A : k # Len(A) => k \in DOMAIN box
  BY <1>1
<1>3. Range(A) = Range(box) \cup {e}
  BY <1>2 DEF Range
<1>4. \A q : Holds(A, q) <=> Holds(box, q) \/ q = e.req
  BY <1>2 DEF Holds
<1>5. Distinct(box) /\ ~Holds(box, e.req) => Distinct(A)
  BY <1>2 DEF Holds, Distinct
<1> QED BY <1>1, <1>3, <1>4, <1>5 DEF A

\* The rest of a list.
LEMMA TailBox ==
    ASSUME NEW X, NEW box \in Seq(X), box # <<>>
    PROVE  /\ Tail(box) \in Seq(X) /\ Range(Tail(box)) \subseteq Range(box)
           /\ Head(box) \in X /\ Head(box) \in Range(box)
           /\ Len(box) # 1 => Tail(box) # <<>>
           /\ \A k \in DOMAIN Tail(box) : k + 1 \in DOMAIN box /\ Tail(box)[k] = box[k + 1]
           /\ Distinct(box) => /\ Distinct(Tail(box))
                               /\ \A k \in DOMAIN Tail(box) : Tail(box)[k].req # Head(box).req
<1> DEFINE T == Tail(box)
<1>1. /\ T \in Seq(X) /\ Head(box) \in X /\ Len(T) = Len(box) - 1 /\ Len(box) \in Nat
      /\ Len(box) # 0 /\ \A k \in 1..Len(T) : T[k] = box[k + 1]
  BY HeadTailProperties
<1> HIDE DEF T
<1>2. /\ DOMAIN T = 1..Len(T) /\ DOMAIN box = 1..Len(box) /\ 1 \in DOMAIN box
      /\ \A k \in DOMAIN T : k \in Nat /\ k + 1 \in DOMAIN box /\ T[k] = box[k + 1] /\ k + 1 # 1
  BY <1>1
<1>3. Head(box) = box[1]
  OBVIOUS
<1>4. Range(T) \subseteq Range(box) /\ Head(box) \in Range(box)
  BY <1>2, <1>3 DEF Range
<1>5. Len(box) # 1 => T # <<>>
  BY <1>1
<1>6. ASSUME Distinct(box), NEW j \in DOMAIN T, NEW k \in DOMAIN T, T[j].req = T[k].req
      PROVE  j = k
  <2>1. j + 1 = k + 1
    BY <1>2, <1>6 DEF Distinct
  <2> QED BY <1>2, <2>1
<1>7. Distinct(box) => \A k \in DOMAIN T : T[k].req # Head(box).req
  BY <1>2, <1>3 DEF Distinct
<1>8. Distinct(box) => Distinct(T)
  BY <1>6 DEF Distinct
<1> QED BY <1>1, <1>2, <1>4, <1>5, <1>7, <1>8 DEF T

\* The newest first.
LEMMA NewestBox ==
    ASSUME NEW X, NEW box \in Seq(X)
    PROVE  /\ Newest(box) \in Seq(X) /\ Range(Newest(box)) = Range(box)
           /\ box # <<>> => Newest(box) # <<>>
           /\ Distinct(box) => Distinct(Newest(box))
<1> DEFINE N == Newest(box)
<1>1. /\ Len(box) \in Nat /\ DOMAIN box = 1..Len(box)
      /\ N = [i \in 1..Len(box) |-> box[(Len(box) - i) + 1]]
  BY DEF Newest, Reverse
<1> HIDE DEF N
<1>2. \A i \in 1..Len(box) : /\ (Len(box) - i) + 1 \in 1..Len(box)
                            /\ (Len(box) - ((Len(box) - i) + 1)) + 1 = i
  BY <1>1
<1>3. N \in Seq(X) /\ Len(N) = Len(box) /\ DOMAIN N = 1..Len(box)
  <2>1. N \in [1..Len(box) -> X]
    BY <1>1, <1>2
  <2> QED BY <1>1, <2>1
<1>4. \A i \in 1..Len(box) : N[i] = box[(Len(box) - i) + 1]
  BY <1>1
<1>5. Range(N) = Range(box)
  <2>1. Range(N) \subseteq Range(box)
    BY <1>1, <1>2, <1>3, <1>4 DEF Range
  <2>2. ASSUME NEW k \in 1..Len(box)
        PROVE  box[k] \in Range(N)
    <3>1. (Len(box) - k) + 1 \in DOMAIN N /\ N[(Len(box) - k) + 1] = box[k]
      BY <1>2, <1>3, <1>4
    <3> QED BY <3>1 DEF Range
  <2>3. Range(box) \subseteq Range(N)
    BY <1>1, <2>2 DEF Range
  <2> QED BY <2>1, <2>3
<1>6. box # <<>> => N # <<>>
  BY <1>3
<1>7. ASSUME Distinct(box), NEW i \in DOMAIN N, NEW j \in DOMAIN N, N[i].req = N[j].req
      PROVE  i = j
  <2>1. (Len(box) - i) + 1 = (Len(box) - j) + 1
    BY <1>1, <1>2, <1>3, <1>4, <1>7 DEF Distinct
  <2> QED BY <1>2, <1>3, <2>1
<1>8. Distinct(box) => Distinct(N)
  BY <1>7 DEF Distinct
<1> QED BY <1>3, <1>5, <1>6, <1>8 DEF N

\* The delay before the next attempt is one to twenty ticks.
LEMMA RetryDelayIsBounded ==
    ASSUME NEW tries \in Nat \ {0}
    PROVE  RetryDelay(tries) \in 0..20
<1> DEFINE exponent == IF tries - 1 < 5 THEN tries - 1 ELSE 5
<1>1. RetryDelay(tries) = IF 2 ^ exponent < 20 THEN 2 ^ exponent ELSE 20
  BY DEF RetryDelay
<1>2. \/ exponent = 0 \/ exponent = 1 \/ exponent = 2
      \/ exponent = 3 \/ exponent = 4 \/ exponent = 5
  OBVIOUS
<1> HIDE DEF exponent
<1>3. CASE exponent = 0
  BY <1>1, <1>3
<1>4. CASE exponent = 1
  BY <1>1, <1>4
<1>5. CASE exponent = 2
  BY <1>1, <1>5
<1>6. CASE exponent = 3
  BY <1>1, <1>6
<1>7. CASE exponent = 4
  BY <1>1, <1>7
<1>8. CASE exponent = 5
  BY <1>1, <1>8
<1> QED BY <1>2, <1>3, <1>4, <1>5, <1>6, <1>7, <1>8

\* A marked entry is an entry of the same request.
LEMMA MarkedEntry ==
    ASSUME NEW e \in OutboxEntry, NEW status \in {"Failed", "Delivered"}
    PROVE  /\ Marked(e, status) \in OutboxEntry
           /\ Marked(e, status).req = e.req /\ Marked(e, status).status = status
<1>1. e.tries \in 0..MaxTries /\ MaxTries \in Nat \ {0}
  BY LimitsArePositive DEF OutboxEntry
<1>2. Attempted(e) \in 0..MaxTries /\ Attempted(e) \in Nat \ {0}
  BY <1>1 DEF Attempted
<1> DEFINE wait == IF status = "Failed" THEN RetryDelay(Attempted(e)) ELSE 0
<1>3. wait \in 0..20
  <2>1. RetryDelay(Attempted(e)) \in 0..20
    BY <1>2, RetryDelayIsBounded
  <2> QED BY <2>1
<1>4. Marked(e, status) = [e EXCEPT !.status = status, !.tries = Attempted(e), !.wait = wait]
  BY DEF Marked
<1> HIDE DEF wait
<1> QED BY <1>2, <1>3, <1>4 DEF OutboxEntry

\* Queuing.
LEMMA QueueEntryBox ==
    ASSUME NEW box \in Seq(OutboxEntry), NEW r \in Request, NEW text \in Word, Valid(box)
    PROVE  /\ QueueEntry(box, r, text) \in Seq(OutboxEntry) /\ Valid(QueueEntry(box, r, text))
           /\ \A q : Holds(QueueEntry(box, r, text), q) <=> Holds(box, q) \/ q = r
           /\ DeliveredIn(QueueEntry(box, r, text)) \subseteq DeliveredIn(box)
<1> DEFINE Q == QueueEntry(box, r, text)
<1>1. CASE Holds(box, r)
  <2>1. Q = [k \in DOMAIN box |-> IF box[k].req = r THEN [box[k] EXCEPT !.text = text]
                                  ELSE box[k]]
    BY <1>1 DEF QueueEntry
  <2> HIDE DEF Q
  <2>2. \A k \in DOMAIN box : /\ Q[k] \in OutboxEntry /\ Q[k].req = box[k].req
                             /\ Q[k].status = box[k].status
    <3> SUFFICES ASSUME NEW k \in DOMAIN box
                 PROVE  /\ Q[k] \in OutboxEntry /\ Q[k].req = box[k].req
                        /\ Q[k].status = box[k].status
      OBVIOUS
    <3>1. box[k] \in OutboxEntry
      OBVIOUS
    <3>2. Q[k] = [box[k] EXCEPT !.text = text] \/ Q[k] = box[k]
      BY <2>1
    <3> QED BY <3>1, <3>2 DEF OutboxEntry
  <2>3. Q \in Seq(OutboxEntry) /\ DOMAIN Q = DOMAIN box
    BY <2>1, <2>2
  <2>4. \A q : Holds(Q, q) <=> Holds(box, q)
    BY <2>2, <2>3, InPlaceBox
  <2>5. Valid(Q)
    BY <2>2, <2>3 DEF Valid, Range
  <2>6. DeliveredIn(Q) \subseteq DeliveredIn(box)
    BY <2>2, <2>3 DEF DeliveredIn, Range
  <2> QED BY <1>1, <2>3, <2>4, <2>5, <2>6 DEF Q
<1>2. CASE ~Holds(box, r)
  <2> DEFINE e == [req |-> r, text |-> text, status |-> "Pending", tries |-> 0, wait |-> 0]
  <2>1. e \in OutboxEntry /\ e.req = r /\ e.status = "Pending"
    BY LimitsArePositive DEF OutboxEntry
  <2>2. Q = Append(box, e)
    BY <1>2 DEF QueueEntry
  <2> HIDE DEF Q, e
  <2>3. /\ Q \in Seq(OutboxEntry) /\ Range(Q) = Range(box) \cup {e}
        /\ \A q : Holds(Q, q) <=> Holds(box, q) \/ q = e.req
    BY <2>1, <2>2, AppendBox
  <2>4. Valid(Q)
    BY <2>1, <2>3, LimitsArePositive DEF Valid
  <2>5. DeliveredIn(Q) \subseteq DeliveredIn(box)
    BY <2>1, <2>3 DEF DeliveredIn
  <2> QED BY <2>1, <2>3, <2>4, <2>5 DEF Q
<1> QED BY <1>1, <1>2

\* Saving the result of an attempt.
LEMMA MarkEntryBox ==
    ASSUME NEW box \in Seq(OutboxEntry), NEW r \in Request,
           NEW status \in {"Failed", "Delivered"}, Valid(box)
    PROVE  /\ MarkEntry(box, r, status) \in Seq(OutboxEntry) /\ Valid(MarkEntry(box, r, status))
           /\ \A q : Holds(MarkEntry(box, r, status), q) <=> Holds(box, q)
           /\ DeliveredIn(MarkEntry(box, r, status))
                \subseteq DeliveredIn(box) \cup (IF status = "Delivered" THEN {r} ELSE {})
<1> DEFINE M == MarkEntry(box, r, status)
<1>1. M = [k \in DOMAIN box |-> IF box[k].req = r THEN Marked(box[k], status) ELSE box[k]]
  BY DEF MarkEntry
<1>2. \A k \in DOMAIN box : box[k] \in OutboxEntry
  OBVIOUS
<1>3. \A k \in DOMAIN box : /\ M[k] \in OutboxEntry /\ M[k].req = box[k].req
                           /\ M[k].status = IF box[k].req = r THEN status ELSE box[k].status
  BY <1>1, <1>2, MarkedEntry
<1> HIDE DEF M
<1>4. M \in Seq(OutboxEntry) /\ DOMAIN M = DOMAIN box
  BY <1>1, <1>3
<1>5. \A q : Holds(M, q) <=> Holds(box, q)
  BY <1>3, <1>4, InPlaceBox
<1>6. Valid(M)
  BY <1>3, <1>4, LimitsArePositive DEF Valid, Range
<1>7. DeliveredIn(M) \subseteq DeliveredIn(box) \cup (IF status = "Delivered" THEN {r} ELSE {})
  BY <1>3, <1>4 DEF DeliveredIn, Range
<1> QED BY <1>4, <1>5, <1>6, <1>7 DEF M

\* Time passing.
LEMMA AgedBox ==
    ASSUME NEW box \in Seq(OutboxEntry), Valid(box)
    PROVE  /\ Aged(box) \in Seq(OutboxEntry) /\ Valid(Aged(box))
           /\ \A q : Holds(Aged(box), q) <=> Holds(box, q)
           /\ DeliveredIn(Aged(box)) \subseteq DeliveredIn(box)
<1> DEFINE A == Aged(box)
<1>1. A = [k \in DOMAIN box |->
              [box[k] EXCEPT !.wait = IF box[k].wait = 0 THEN 0 ELSE box[k].wait - 1]]
  BY DEF Aged
<1> HIDE DEF A
<1>2. \A k \in DOMAIN box : /\ A[k] \in OutboxEntry /\ A[k].req = box[k].req
                           /\ A[k].status = box[k].status
  <2> SUFFICES ASSUME NEW k \in DOMAIN box
               PROVE  /\ A[k] \in OutboxEntry /\ A[k].req = box[k].req
                      /\ A[k].status = box[k].status
    OBVIOUS
  <2>1. box[k] \in OutboxEntry
    OBVIOUS
  <2>2. (IF box[k].wait = 0 THEN 0 ELSE box[k].wait - 1) \in 0..20
    BY <2>1 DEF OutboxEntry
  <2> QED BY <1>1, <2>1, <2>2 DEF OutboxEntry
<1>3. A \in Seq(OutboxEntry) /\ DOMAIN A = DOMAIN box
  BY <1>1, <1>2
<1>4. \A q : Holds(A, q) <=> Holds(box, q)
  BY <1>2, <1>3, InPlaceBox
<1>5. Valid(A) /\ DeliveredIn(A) \subseteq DeliveredIn(box)
  BY <1>2, <1>3 DEF Valid, Range, DeliveredIn
<1> QED BY <1>3, <1>4, <1>5 DEF A

\* A box with some of its entries has less to account for.
LEMMA FewerEntries ==
    ASSUME NEW box, NEW new, Range(new) \subseteq Range(box)
    PROVE  (Valid(box) => Valid(new)) /\ DeliveredIn(new) \subseteq DeliveredIn(box)
BY DEF Valid, DeliveredIn

\* Setting aside the files that do not validate.
LEMMA QuarantinedBox ==
    ASSUME NEW box \in Seq(OutboxEntry), Valid(box)
    PROVE  /\ Quarantined(box) \in Seq(OutboxEntry)
           /\ Range(Quarantined(box)) \subseteq Range(box)
           /\ \A e \in Range(Quarantined(box)) : e.req # Stray
           /\ \A q \in Request : Holds(box, q) => Holds(Quarantined(box), q)
<1> DEFINE Q == Quarantined(box)
           S == {e \in Range(box) : e.status # "Invalid"}
<1>1. Q \in Seq(OutboxEntry) /\ Range(Q) = Range(box) \cap S
  BY KeptBox DEF Quarantined
<1> HIDE DEF Q
<1>2. /\ \A q : Holds(Q, q) <=> \E e \in Range(Q) : e.req = q
      /\ \A q : Holds(box, q) <=> \E e \in Range(box) : e.req = q
  BY <1>1, HoldsByEntry
<1>3. \A q \in Request : Holds(box, q) => Holds(Q, q)
  BY <1>1, <1>2, LimitsArePositive DEF Valid
<1>4. \A e \in Range(Q) : e.req # Stray
  BY <1>1 DEF Valid
<1> QED BY <1>1, <1>3, <1>4 DEF Q

\* Removing what was delivered.
LEMMA SweepBox ==
    ASSUME NEW box \in Seq(OutboxEntry)
    PROVE  /\ Sweep(box) \in Seq(OutboxEntry) /\ Range(Sweep(box)) \subseteq Range(box)
           /\ \A q : Holds(box, q) => Holds(Sweep(box), q) \/ q \in DeliveredIn(box)
<1> DEFINE W == Sweep(box)
           S == {e \in Range(box) : ~IsTerminal(e)}
<1>1. W \in Seq(OutboxEntry) /\ Range(W) = Range(box) \cap S
  BY KeptBox DEF Sweep
<1> HIDE DEF W
<1>2. /\ \A q : Holds(W, q) <=> \E e \in Range(W) : e.req = q
      /\ \A q : Holds(box, q) <=> \E e \in Range(box) : e.req = q
  BY <1>1, HoldsByEntry
<1>3. \A q : Holds(box, q) => Holds(W, q) \/ q \in DeliveredIn(box)
  BY <1>1, <1>2 DEF DeliveredIn, IsTerminal
<1> QED BY <1>1, <1>3 DEF W

\* The first few elements of a list.
LEMMA FirstFew ==
    ASSUME NEW X, NEW s \in Seq(X), NEW n \in Nat \ {0}
    PROVE  LET f == SubSeq(s, 1, IF Len(s) < n THEN Len(s) ELSE n)
           IN  f \in Seq(X) /\ (s # <<>> => f # <<>>)
<1> DEFINE m == IF Len(s) < n THEN Len(s) ELSE n
           f == SubSeq(s, 1, m)
<1>1. Len(s) \in Nat /\ m \in Nat /\ m <= Len(s) /\ (s # <<>> => m # 0)
  OBVIOUS
<1> HIDE DEF m
<1>2. f \in Seq(X) /\ Len(f) = m
  <2>1. CASE m = 0
    BY <1>1, <2>1
  <2>2. CASE m # 0
    BY <1>1, <2>2
  <2> QED BY <2>1, <2>2
<1>3. s # <<>> => f # <<>>
  BY <1>1, <1>2
<1> QED BY <1>2, <1>3 DEF m

\* The due entries of an outbox without strays are requests.
LEMMA DueEntriesAreRequests ==
    ASSUME NEW box \in Seq(OutboxEntry), \A e \in Range(box) : e.req # Stray
    PROVE  DueEntries(box) \in Seq(Request)
<1> DEFINE due == Kept(box, {e \in Range(box) : IsDue(e)})
           few == SubSeq(due, 1, IF Len(due) < DueLimit THEN Len(due) ELSE DueLimit)
           X == {e \in OutboxEntry : e.req # Stray}
<1>1. box \in Seq(X)
  <2>1. \A k \in 1..Len(box) : box[k] \in X
    BY DEF Range
  <2> QED BY <2>1
<1>2. due \in Seq(X)
  BY <1>1, KeptBox
<1>3. few \in Seq(X)
  <2> HIDE DEF due, X
  <2> QED BY <1>2, FirstFew, LimitsArePositive
<1>4. DueEntries(box) = Ids(few)
  BY DEF DueEntries
<1> HIDE DEF few
<1>5. \A k \in DOMAIN few : few[k].req \in Request
  BY <1>3 DEF OutboxEntry
<1> HIDE DEF X
<1>6. Ids(few) \in Seq(Request)
  BY <1>3, <1>5 DEF Ids
<1> QED BY <1>4, <1>6

\* An inbox after a letter was saved.
LEMMA WriteInboxBox ==
    ASSUME NEW box \in Seq(Letter), NEW r \in Request, NEW text \in Word
    PROVE  WriteInbox(box, r, text) \in Seq(Letter) /\ Holds(WriteInbox(box, r, text), r)
<1> DEFINE e == [req |-> r, text |-> text]
<1>1. CASE Holds(box, r)
  BY <1>1 DEF WriteInbox
<1>2. CASE ~Holds(box, r)
  <2>1. WriteInbox(box, r, text) = Append(Pruned(box), e)
    BY <1>2 DEF WriteInbox
  <2>2. e \in Letter /\ e.req = r
    BY DEF Letter
  <2>3. Pruned(box) \in Seq(Letter)
    <3>1. CASE Len(box) >= InboxLimit
      <4>1. box # <<>>
        BY <3>1, LimitsArePositive
      <4> QED BY <3>1, <4>1, TailBox DEF Pruned
    <3>2. CASE ~(Len(box) >= InboxLimit)
      BY <3>2 DEF Pruned
    <3> QED BY <3>1, <3>2
  <2> HIDE DEF e
  <2> QED BY <2>1, <2>2, <2>3, AppendBox
<1> QED BY <1>1, <1>2

\* An inbox that holds one letter per request and lacks one is not full.
LEMMA RoomForOneMore ==
    ASSUME RoomForAll, NEW box \in Seq(Letter), Distinct(box), NEW r \in Request, ~Holds(box, r)
    PROVE  ~(Len(box) >= InboxLimit)
<1> DEFINE f == [k \in 1..Len(box) |-> box[k].req]
<1>1. Len(box) \in Nat /\ DOMAIN box = 1..Len(box)
  OBVIOUS
<1>2. f \in Injection(1..Len(box), Request \ {r})
  <2>1. f \in [1..Len(box) -> Request \ {r}]
    <3>1. \A k \in 1..Len(box) : box[k].req \in Request
      <4>1. \A e \in Letter : e.req \in Request
        BY DEF Letter
      <4>2. \A k \in 1..Len(box) : box[k] \in Letter
        OBVIOUS
      <4> QED BY <4>1, <4>2
    <3>2. \A k \in 1..Len(box) : box[k].req # r
      BY <1>1 DEF Holds
    <3> QED BY <3>1, <3>2
  <2>2. \A j, k \in 1..Len(box) : f[j] = f[k] => j = k
    BY <1>1 DEF Distinct
  <2> QED BY <2>1, <2>2 DEF Injection, IsInjective
<1>3. /\ IsFiniteSet(Request) /\ Cardinality(Request) \in Nat
      /\ IsFiniteSet(Request \ {r}) /\ Cardinality(Request \ {r}) = Cardinality(Request) - 1
  BY FS_RemoveElement, FS_CardinalityType DEF RoomForAll
<1>4. Cardinality(1..Len(box)) = Len(box)
  BY <1>1, FS_Interval
<1> HIDE DEF f
<1>5. Cardinality(1..Len(box)) <= Cardinality(Request \ {r})
  BY <1>2, <1>3, FS_Injection
<1> QED BY <1>1, <1>3, <1>4, <1>5, LimitsArePositive DEF RoomForAll

\* So a letter that is saved displaces none.
LEMMA WriteInboxWithRoom ==
    ASSUME RoomForAll, NEW box \in Seq(Letter), Distinct(box), NEW r \in Request,
           NEW text \in Word
    PROVE  /\ Distinct(WriteInbox(box, r, text))
           /\ \A q : Holds(WriteInbox(box, r, text), q) <=> Holds(box, q) \/ q = r
<1> DEFINE e == [req |-> r, text |-> text]
<1>1. CASE Holds(box, r)
  BY <1>1 DEF WriteInbox
<1>2. CASE ~Holds(box, r)
  <2>1. WriteInbox(box, r, text) = Append(box, e)
    BY <1>2, RoomForOneMore DEF WriteInbox, Pruned
  <2>2. e \in Letter /\ e.req = r
    BY DEF Letter
  <2> HIDE DEF e
  <2>3. /\ \A q : Holds(Append(box, e), q) <=> Holds(box, q) \/ q = e.req
        /\ Distinct(box) /\ ~Holds(box, e.req) => Distinct(Append(box, e))
    BY <2>2, AppendBox
  <2> QED BY <1>2, <2>1, <2>2, <2>3
<1> QED BY <1>1, <1>2

-----------------------------------------------------------------------------
(* The threads.                                                            *)

\* What a step that changes one thread has to show.
LEMMA OneThread ==
    ASSUME ThreadsOK, NEW t \in Thread, NEW s \in ThreadState,
           thread' = [thread EXCEPT ![t] = s], s.pc \in Busy => s.todo # <<>>
    PROVE  /\ ThreadsOK' /\ thread'[t] = s
           /\ \A u \in Thread : u # t => thread'[u] = thread[u]
<1>1. thread \in [Thread -> ThreadState]
  BY DEF ThreadsOK
<1>2. thread' \in [Thread -> ThreadState] /\ thread'[t] = s
  BY <1>1
<1>3. \A u \in Thread : u # t => thread'[u] = thread[u]
  BY <1>1
<1> QED BY <1>2, <1>3 DEF ThreadsOK

\* A thread that is under way has its request at the head of its list.
LEMMA BusyThread ==
    ASSUME ThreadsOK, NEW t \in Thread, thread[t].pc \in Busy
    PROVE  /\ thread[t] \in ThreadState /\ thread[t].todo \in Seq(Request)
           /\ thread[t].todo # <<>> /\ Head(thread[t].todo) \in Request
<1>1. /\ thread[t] \in ThreadState /\ thread[t].todo \in Seq(Request)
      /\ thread[t].todo # <<>>
  BY DEF ThreadsOK, ThreadState
<1> QED BY <1>1, TailBox

\* The thread moves on to the next entry of its list.
LEMMA NextEntryMoves ==
    ASSUME ThreadsOK, NEW t \in Thread, thread[t].pc \in Busy, NextEntry(t)
    PROVE  /\ ThreadsOK' /\ thread'[t].pc \in {"idle", "send"}
           /\ \A u \in Thread : u # t => thread'[u] = thread[u]
<1> DEFINE todo == thread[t].todo
           s == IF Len(todo) = 1 THEN Idle
                ELSE [pc |-> "send", todo |-> Tail(todo), text |-> "ask"]
<1>1. todo \in Seq(Request) /\ todo # <<>>
  BY BusyThread
<1>2. thread' = [thread EXCEPT ![t] = s]
  BY DEF NextEntry
<1>3. Tail(todo) \in Seq(Request) /\ (Len(todo) # 1 => Tail(todo) # <<>>)
  BY <1>1, TailBox
<1> HIDE DEF todo
<1>4. /\ s \in ThreadState /\ s.pc \in {"idle", "send"} /\ (s.pc \in Busy => s.todo # <<>>)
  <2>1. CASE Len(todo) = 1
    <3>1. s = [pc |-> "idle", todo |-> <<>>, text |-> "ask"] /\ <<>> \in Seq(Request)
      BY <2>1 DEF Idle
    <3> HIDE DEF s
    <3> QED BY <3>1 DEF ThreadState, Busy, Word
  <2>2. CASE Len(todo) # 1
    <3>1. s = [pc |-> "send", todo |-> Tail(todo), text |-> "ask"]
      BY <2>2
    <3> HIDE DEF s
    <3> QED BY <1>3, <2>2, <3>1 DEF ThreadState, Busy, Word
  <2> QED BY <2>1, <2>2
<1> HIDE DEF s
<1> QED BY <1>2, <1>4, OneThread

\* A thread that goes to another point keeps its list.
LEMMA ThreadGoes ==
    ASSUME ThreadsOK, NEW t \in Thread, thread[t].pc \in Busy, NEW pc \in Busy, NEW text \in Word,
           thread' = [thread EXCEPT ![t].pc = pc, ![t].text = text]
    PROVE  /\ ThreadsOK' /\ thread'[t].pc = pc /\ thread'[t].todo = thread[t].todo
           /\ \A u \in Thread : u # t => thread'[u] = thread[u]
<1> DEFINE s == [thread[t] EXCEPT !.pc = pc, !.text = text]
<1>1. thread[t] \in ThreadState /\ thread[t].todo # <<>>
  BY BusyThread
<1>2. /\ s \in ThreadState /\ s.pc = pc /\ s.todo = thread[t].todo
      /\ s.pc \in Busy => s.todo # <<>>
  BY <1>1 DEF ThreadState
<1>3. thread' = [thread EXCEPT ![t] = s]
  BY DEF ThreadsOK
<1> HIDE DEF s
<1> QED BY <1>2, <1>3, OneThread

\* A thread that was idle may be started to list its outbox.
LEMMA StartedThread ==
    ASSUME NEW th \in [Thread -> ThreadState], NEW t \in Thread
    PROVE  /\ Started(th, t) \in [Thread -> ThreadState]
           /\ \A u \in Thread : \/ Started(th, t)[u] = th[u]
                                \/ th[u].pc = "idle" /\ Started(th, t)[u].pc = "list"
<1>1. CASE th[t].pc = "idle"
  <2> DEFINE s == [th[t] EXCEPT !.pc = "list"]
  <2>1. s \in ThreadState /\ s.pc = "list"
    BY DEF ThreadState
  <2>2. Started(th, t) = [th EXCEPT ![t] = s]
    BY <1>1 DEF Started
  <2> HIDE DEF s
  <2> QED BY <1>1, <2>1, <2>2
<1>2. CASE th[t].pc # "idle"
  BY <1>2 DEF Started
<1> QED BY <1>1, <1>2

\* The drains are started, or not.
LEMMA DrainsStarted ==
    ASSUME ThreadsOK,
           \/ thread' = thread
           \/ thread' = RequestDrainStarted(thread)
           \/ thread' = ResponseDrainStarted(thread)
           \/ thread' = ResponseDrainStarted(RequestDrainStarted(thread))
    PROVE  /\ ThreadsOK'
           /\ \A u \in Thread : thread'[u] = thread[u] \/ thread'[u].pc \notin Busy
<1> DEFINE Quiet(th) == /\ th \in [Thread -> ThreadState]
                        /\ \A u \in Thread : th[u] = thread[u] \/ th[u].pc = "list"
<1>1. Quiet(thread)
  BY DEF ThreadsOK
<1>2. "drainRequests" \in Thread /\ "drainResponses" \in Thread
  BY DEF Thread, RequestThread
<1>3. ASSUME NEW th, Quiet(th)
      PROVE  Quiet(RequestDrainStarted(th)) /\ Quiet(ResponseDrainStarted(th))
  <2>1. \A t \in Thread : Quiet(Started(th, t))
    BY <1>3, StartedThread
  <2> HIDE DEF Quiet
  <2> QED BY <1>2, <1>3, <2>1 DEF RequestDrainStarted, ResponseDrainStarted
<1>4. Quiet(thread')
  <2> HIDE DEF Quiet
  <2> QED BY <1>1, <1>3
<1>5. \A u \in Thread : thread'[u] = thread[u] \/ thread'[u].pc \notin Busy
  BY <1>4 DEF Busy
<1> QED BY <1>4, <1>5 DEF ThreadsOK

\* A drain has listed what is due.
LEMMA ListedThread ==
    ASSUME ThreadsOK, NEW t \in Thread, NEW due \in Seq(Request), Listed(t, due)
    PROVE  /\ ThreadsOK' /\ thread'[t].pc \in {"idle", "send"}
           /\ \A u \in Thread : u # t => thread'[u] = thread[u]
<1> DEFINE s == IF due = <<>> THEN Idle
                ELSE [pc |-> "send", todo |-> Attempts(due), text |-> "ask"]
<1>1. Attempts(due) \in Seq(Request) /\ (due # <<>> => Attempts(due) # <<>>)
  BY FirstFew, HandoffAssumption DEF Attempts
<1>2. thread' = [thread EXCEPT ![t] = s]
  BY DEF Listed
<1>3. s \in ThreadState /\ s.pc \in {"idle", "send"} /\ (s.pc \in Busy => s.todo # <<>>)
  <2>1. CASE due = <<>>
    <3>1. s = [pc |-> "idle", todo |-> <<>>, text |-> "ask"] /\ <<>> \in Seq(Request)
      BY <2>1 DEF Idle
    <3> HIDE DEF s
    <3> QED BY <3>1 DEF ThreadState, Busy, Word
  <2>2. CASE due # <<>>
    <3>1. s = [pc |-> "send", todo |-> Attempts(due), text |-> "ask"]
      BY <2>2
    <3> HIDE DEF s
    <3> QED BY <1>1, <2>2, <3>1 DEF ThreadState, Busy, Word
  <2> QED BY <2>1, <2>2
<1> HIDE DEF s
<1> QED BY <1>2, <1>3, OneThread

-----------------------------------------------------------------------------
(* Type correctness.                                                       *)

\* What a step leaves alone keeps its type.
LEMMA UnchangedKeep ==
    /\ JoinerOK /\ UNCHANGED joiner => JoinerOK'
    /\ OwnerOK /\ UNCHANGED owner => OwnerOK'
    /\ QueuesOK /\ UNCHANGED queues => QueuesOK'
    /\ ThreadsOK /\ UNCHANGED thread => ThreadsOK'
    /\ BoundsOK /\ UNCHANGED <<routes, bounds>> => BoundsOK'
<1>1. JoinerOK /\ UNCHANGED joiner => JoinerOK'
  BY DEF JoinerOK, joiner
<1>2. OwnerOK /\ UNCHANGED owner => OwnerOK'
  BY DEF OwnerOK, owner
<1>3. QueuesOK /\ UNCHANGED queues => QueuesOK'
  BY DEF QueuesOK, queues
<1>4. ThreadsOK /\ UNCHANGED thread => ThreadsOK'
  BY DEF ThreadsOK
<1>5. BoundsOK /\ UNCHANGED <<routes, bounds>> => BoundsOK'
  BY DEF BoundsOK, routes, bounds
<1> QED BY <1>1, <1>2, <1>3, <1>4, <1>5

\* One outbox is written.
LEMMA OutboxWritten ==
    ASSUME QueuesOK, NEW q \in Outboxes, NEW box \in Seq(OutboxEntry), Valid(box),
           outbox' = [outbox EXCEPT ![q] = box], inbox' = inbox
    PROVE  /\ QueuesOK' /\ outbox'[q] = box
           /\ \A p \in Outboxes : p # q => outbox'[p] = outbox[p]
<1>1. outbox \in [Outboxes -> Seq(OutboxEntry)]
  BY DEF QueuesOK
<1>2. /\ outbox' \in [Outboxes -> Seq(OutboxEntry)] /\ outbox'[q] = box
      /\ \A p \in Outboxes : p # q => outbox'[p] = outbox[p]
  BY <1>1
<1>3. \A p \in Outboxes : Valid(outbox'[p])
  BY <1>2 DEF QueuesOK
<1> QED BY <1>2, <1>3 DEF QueuesOK

\* One inbox is written.
LEMMA InboxWritten ==
    ASSUME QueuesOK, NEW b \in Inboxes, NEW box \in Seq(Letter),
           inbox' = [inbox EXCEPT ![b] = box], outbox' = outbox
    PROVE  /\ QueuesOK' /\ inbox'[b] = box
           /\ \A c \in Inboxes : c # b => inbox'[c] = inbox[c]
BY DEF QueuesOK

\* The boxes have their types.
LEMMA Boxes ==
    ASSUME QueuesOK
    PROVE  /\ \A q \in Outboxes : outbox[q] \in Seq(OutboxEntry) /\ Valid(outbox[q])
           /\ \A b \in Inboxes : inbox[b] \in Seq(Letter)
           /\ "request" \in Outboxes /\ "response" \in Outboxes
           /\ "request" \in Inboxes /\ "staged" \in Inboxes /\ "response" \in Inboxes
           /\ \A t \in Thread : QueueOf(t) \in Outboxes
BY DEF QueuesOK, Outboxes, Inboxes, QueueOf

\* The user asks.
LEMMA AskType ==
    ASSUME TypeInv, NEW r \in Request, Ask(r),
           UNCHANGED <<shown, listing, acks, inbox, routes, button, faults, outcomes>>
    PROVE  JoinerOK' /\ QueuesOK' /\ BoundsOK'
<1>1. JoinerOK'
  BY DEF TypeInv, JoinerOK, Ask
<1>2. QueuesOK'
  <2> DEFINE box == QueueEntry(outbox["request"], r, "ask")
  <2>1. box \in Seq(OutboxEntry) /\ Valid(box)
    BY Boxes, QueueEntryBox DEF TypeInv, Word
  <2>2. outbox' = [outbox EXCEPT !["request"] = box] /\ inbox' = inbox /\ "request" \in Outboxes
    BY DEF Ask, Outboxes
  <2> HIDE DEF box
  <2> QED BY <2>1, <2>2, OutboxWritten DEF TypeInv
<1>3. BoundsOK'
  BY DEF TypeInv, BoundsOK, Ask, routes
<1> QED BY <1>1, <1>2, <1>3

\* The actions of the user of the joiner that send a request.
LEMMA AsksType ==
    ASSUME TypeInv, NEW r \in Request, QueueJoinRequest(r) \/ SubmitJoinRequest(r)
    PROVE  TypeInv'
<1>1. /\ Ask(r) /\ UNCHANGED <<shown, listing, acks, owner, inbox, routes, button, faults, outcomes>>
  BY DEF QueueJoinRequest, SubmitJoinRequest
<1>2. JoinerOK' /\ QueuesOK' /\ BoundsOK' /\ OwnerOK'
  BY <1>1, AskType, UnchangedKeep DEF TypeInv
<1>3. ThreadsOK'
  <2>1. CASE QueueJoinRequest(r)
    BY <2>1, DrainsStarted DEF TypeInv, QueueJoinRequest
  <2>2. CASE SubmitJoinRequest(r)
    <3> DEFINE s == [pc |-> "send", todo |-> <<r>>, text |-> "ask"]
    <3>1. s \in ThreadState /\ s.todo # <<>> /\ "submit" \in Thread
      BY DEF ThreadState, Busy, Word, Thread, RequestThread
    <3>2. thread' = [thread EXCEPT !["submit"] = s]
      BY <2>2 DEF SubmitJoinRequest
    <3> HIDE DEF s
    <3> QED BY <3>1, <3>2, OneThread DEF TypeInv
  <2> QED BY <2>1, <2>2
<1> QED BY <1>2, <1>3 DEF TypeInv

\* The scans of the outboxes.
LEMMA ListDueType ==
    ASSUME TypeInv, ListDueRequests \/ ListDueResponses
    PROVE  TypeInv'
<1>1. JoinerOK' /\ OwnerOK' /\ BoundsOK' /\ inbox' = inbox
  BY UnchangedKeep DEF TypeInv, ListDueRequests, ListDueResponses
<1>2. "drainRequests" \in Thread /\ "drainResponses" \in Thread
  BY DEF Thread, RequestThread
<1>3. CASE ListDueRequests
  <2> DEFINE box == Quarantined(outbox["request"])
  <2>1. /\ box \in Seq(OutboxEntry) /\ Range(box) \subseteq Range(outbox["request"])
        /\ \A e \in Range(box) : e.req # Stray
    BY Boxes, QuarantinedBox DEF TypeInv
  <2>2. Listed("drainRequests", DueEntries(box)) /\ outbox' = [outbox EXCEPT !["request"] = Sweep(box)]
    BY <1>3 DEF ListDueRequests
  <2> HIDE DEF box
  <2>3. DueEntries(box) \in Seq(Request)
    BY <2>1, DueEntriesAreRequests
  <2>4. ThreadsOK'
    BY <1>2, <2>2, <2>3, ListedThread DEF TypeInv
  <2>5. Sweep(box) \in Seq(OutboxEntry) /\ Range(Sweep(box)) \subseteq Range(outbox["request"])
    BY <2>1, SweepBox
  <2>6. Valid(Sweep(box))
    BY <2>5, Boxes, FewerEntries DEF TypeInv
  <2>7. QueuesOK'
    BY <1>1, <2>2, <2>5, <2>6, Boxes, OutboxWritten DEF TypeInv
  <2> QED BY <1>1, <2>4, <2>7 DEF TypeInv
<1>4. CASE ListDueResponses /\ Holds(outbox["response"], Stray)
  <2>1. Listed("drainResponses", <<>>) /\ UNCHANGED queues /\ <<>> \in Seq(Request)
    BY <1>1, <1>4 DEF ListDueResponses, queues
  <2> QED BY <1>1, <1>2, <2>1, ListedThread, UnchangedKeep DEF TypeInv
<1>5. CASE ListDueResponses /\ ~Holds(outbox["response"], Stray)
  <2> DEFINE box == outbox["response"]
  <2>1. box \in Seq(OutboxEntry)
    BY Boxes DEF TypeInv
  <2>2. Listed("drainResponses", DueEntries(box)) /\ outbox' = [outbox EXCEPT !["response"] = Sweep(box)]
    BY <1>5 DEF ListDueResponses
  <2>3. \A e \in Range(box) : e.req # Stray
    BY <1>5, <2>1, HoldsByEntry
  <2>4. DueEntries(box) \in Seq(Request)
    BY <2>1, <2>3, DueEntriesAreRequests
  <2>5. ThreadsOK'
    BY <1>2, <2>2, <2>4, ListedThread DEF TypeInv
  <2>6. Sweep(box) \in Seq(OutboxEntry) /\ Range(Sweep(box)) \subseteq Range(box)
    BY <2>1, SweepBox
  <2>7. Valid(Sweep(box))
    BY <2>6, Boxes, FewerEntries DEF TypeInv
  <2>8. QueuesOK'
    BY <1>1, <2>2, <2>6, <2>7, Boxes, OutboxWritten DEF TypeInv
  <2> QED BY <1>1, <2>5, <2>8 DEF TypeInv
<1> QED BY <1>3, <1>4, <1>5

\* Reading an entry and sending it.
LEMMA SendType ==
    ASSUME TypeInv, NEW t \in Thread, Send(t)
    PROVE  TypeInv'
<1>1. JoinerOK' /\ OwnerOK' /\ QueuesOK' /\ BoundsOK' /\ thread[t].pc \in Busy
  BY UnchangedKeep DEF TypeInv, Send, Busy
<1> DEFINE box == outbox[QueueOf(t)]
           r == Head(thread[t].todo)
<1>2. CASE Holds(box, r)
  <2>1. EntryOf(box, r) \in OutboxEntry
    BY <1>2, Boxes, EntryOfIsAnEntry DEF TypeInv
  <2>2. EntryOf(box, r).text \in Word /\ "sent" \in Busy
    BY <2>1 DEF OutboxEntry, Busy
  <2>3. thread' = [thread EXCEPT ![t].pc = "sent", ![t].text = EntryOf(box, r).text]
    BY <1>2 DEF Send
  <2> HIDE DEF box, r
  <2>4. ThreadsOK'
    BY <1>1, <2>2, <2>3, ThreadGoes DEF TypeInv
  <2> QED BY <1>1, <2>4 DEF TypeInv
<1>3. CASE ~Holds(box, r)
  <2>1. NextEntry(t)
    BY <1>3 DEF Send
  <2> QED BY <1>1, <2>1, NextEntryMoves DEF TypeInv
<1> QED BY <1>2, <1>3

\* Only the point at which the thread is changes.
LEMMA ThreadGoesOn ==
    ASSUME ThreadsOK, NEW t \in Thread, thread[t].pc \in Busy, NEW pc \in Busy,
           thread' = [thread EXCEPT ![t].pc = pc]
    PROVE  /\ ThreadsOK' /\ thread'[t].pc = pc /\ thread'[t].todo = thread[t].todo
           /\ \A u \in Thread : u # t => thread'[u] = thread[u]
<1> DEFINE s == [thread[t] EXCEPT !.pc = pc]
<1>1. thread[t] \in ThreadState /\ thread[t].todo # <<>>
  BY BusyThread
<1>2. /\ s \in ThreadState /\ s.pc = pc /\ s.todo = thread[t].todo
      /\ s.pc \in Busy => s.todo # <<>>
  BY <1>1 DEF ThreadState
<1>3. thread' = [thread EXCEPT ![t] = s]
  BY DEF ThreadsOK
<1> HIDE DEF s
<1> QED BY <1>2, <1>3, OneThread

\* A letter arrives.
LEMMA ArrivesType ==
    ASSUME TypeInv, NEW t \in Thread, NEW to \in Inboxes, Arrives(t, to)
    PROVE  TypeInv'
<1> DEFINE r == Head(thread[t].todo)
           text == thread[t].text
           box == WriteInbox(inbox[to], r, text)
<1>1. /\ thread[t].pc = "sent" /\ inbox' = [inbox EXCEPT ![to] = box]
      /\ thread' = [thread EXCEPT ![t].pc = "arrived"]
      /\ UNCHANGED <<joiner, owner, outbox, routes, bounds>>
  BY DEF Arrives
<1>2. JoinerOK' /\ OwnerOK' /\ BoundsOK'
  BY <1>1, UnchangedKeep DEF TypeInv
<1>3. thread[t].pc \in Busy /\ "arrived" \in Busy
  BY <1>1 DEF Busy
<1>4. r \in Request /\ text \in Word
  BY <1>3, BusyThread DEF TypeInv, ThreadState
<1>5. box \in Seq(Letter)
  BY <1>4, Boxes, WriteInboxBox DEF TypeInv
<1> HIDE DEF box, r, text
<1>6. QueuesOK'
  BY <1>1, <1>5, InboxWritten DEF TypeInv
<1>7. ThreadsOK'
  BY <1>1, <1>3, ThreadGoesOn DEF TypeInv
<1> QED BY <1>2, <1>6, <1>7 DEF TypeInv

\* The result of an attempt is saved.
LEMMA MarkType ==
    ASSUME TypeInv, NEW t \in Thread, MarkDelivered(t) \/ MarkFailed(t)
    PROVE  TypeInv'
<1> DEFINE q == QueueOf(t)
           r == Head(thread[t].todo)
<1>1. JoinerOK' /\ OwnerOK' /\ BoundsOK' /\ inbox' = inbox /\ thread[t].pc \in Busy
  BY UnchangedKeep DEF TypeInv, MarkDelivered, MarkFailed, Busy
<1>2. \E status \in {"Failed", "Delivered"} :
         outbox' = [outbox EXCEPT ![q] = MarkEntry(outbox[q], r, status)]
  BY DEF MarkDelivered, MarkFailed
<1>3. r \in Request
  BY <1>1, BusyThread DEF TypeInv
<1>4. ThreadsOK'
  <2>1. CASE NextEntry(t)
    BY <1>1, <2>1, NextEntryMoves DEF TypeInv
  <2>2. CASE thread' = [thread EXCEPT ![t].pc = "ack"]
    BY <1>1, <2>2, ThreadGoesOn DEF TypeInv, Busy
  <2> QED BY <2>1, <2>2 DEF MarkDelivered, MarkFailed
<1>5. QueuesOK'
  <2>1. PICK status \in {"Failed", "Delivered"} :
            outbox' = [outbox EXCEPT ![q] = MarkEntry(outbox[q], r, status)]
    BY <1>2
  <2> HIDE DEF r
  <2>2. /\ MarkEntry(outbox[q], r, status) \in Seq(OutboxEntry)
        /\ Valid(MarkEntry(outbox[q], r, status)) /\ q \in Outboxes
    BY <1>3, Boxes, MarkEntryBox DEF TypeInv
  <2> HIDE DEF q
  <2> QED BY <1>1, <2>1, <2>2, OutboxWritten DEF TypeInv
<1> QED BY <1>1, <1>4, <1>5 DEF TypeInv

\* The result cannot be saved.
LEMMA MarkRefusedType ==
    ASSUME TypeInv, NEW t \in Thread, MarkRefused(t)
    PROVE  TypeInv'
<1>1. JoinerOK' /\ OwnerOK' /\ QueuesOK' /\ thread[t].pc \in Busy
  BY UnchangedKeep DEF TypeInv, MarkRefused, Busy
<1>2. BoundsOK'
  BY DEF TypeInv, BoundsOK, MarkRefused, routes
<1>3. ThreadsOK'
  BY <1>1, NextEntryMoves DEF TypeInv, MarkRefused
<1> QED BY <1>1, <1>2, <1>3 DEF TypeInv

\* A delivered entry is removed.
LEMMA AckEntryType ==
    ASSUME TypeInv, NEW t \in Thread, AckEntry(t)
    PROVE  TypeInv'
<1> DEFINE q == QueueOf(t)
           box == Without(outbox[q], Head(thread[t].todo))
<1>1. /\ JoinerOK' /\ OwnerOK' /\ BoundsOK' /\ inbox' = inbox /\ thread[t].pc \in Busy
      /\ outbox' = [outbox EXCEPT ![q] = box] /\ NextEntry(t)
  BY UnchangedKeep DEF TypeInv, AckEntry, Busy
<1>2. q \in Outboxes /\ outbox[q] \in Seq(OutboxEntry) /\ Valid(outbox[q])
  BY Boxes DEF TypeInv
<1>3. box \in Seq(OutboxEntry) /\ Range(box) \subseteq Range(outbox[q])
  BY <1>2, WithoutBox
<1> HIDE DEF q, box
<1>4. Valid(box)
  BY <1>2, <1>3, FewerEntries
<1>5. QueuesOK'
  BY <1>1, <1>2, <1>3, <1>4, OutboxWritten DEF TypeInv
<1>6. ThreadsOK'
  BY <1>1, NextEntryMoves DEF TypeInv
<1> QED BY <1>1, <1>5, <1>6 DEF TypeInv

\* Time passes.
LEMMA TickType == TypeInv /\ Tick => TypeInv'
<1> SUFFICES ASSUME TypeInv, Tick
             PROVE  TypeInv'
  OBVIOUS
<1>1. JoinerOK' /\ OwnerOK' /\ BoundsOK'
  BY UnchangedKeep DEF TypeInv, Tick
<1>2. ThreadsOK'
  BY DrainsStarted DEF TypeInv, Tick
<1>3. QueuesOK'
  <2>1. \A q \in Outboxes : Aged(outbox[q]) \in Seq(OutboxEntry) /\ Valid(Aged(outbox[q]))
    BY Boxes, AgedBox DEF TypeInv
  <2>2. outbox' = [q \in Outboxes |-> Aged(outbox[q])] /\ inbox' = inbox
    BY DEF Tick, Outboxes
  <2> QED BY <2>1, <2>2 DEF TypeInv, QueuesOK
<1> QED BY <1>1, <1>2, <1>3 DEF TypeInv

\* The letter that the refresh is at.
LEMMA CurrentLetter ==
    ASSUME OwnerOK, refresh.pc # "idle"
    PROVE  /\ refresh.todo \in Seq(Letter) /\ refresh.todo # <<>>
           /\ Current \in Letter /\ Current.req \in Request /\ Current = refresh.todo[1]
           /\ 1 \in DOMAIN refresh.todo
<1>1. refresh.todo \in Seq(Letter) /\ refresh.todo # <<>>
  BY DEF OwnerOK
<1>2. Current \in Letter
  BY <1>1, TailBox DEF Current
<1>3. Current = refresh.todo[1] /\ 1 \in DOMAIN refresh.todo
  BY <1>1 DEF Current
<1> QED BY <1>1, <1>2, <1>3 DEF Letter

\* The refresh goes on.
LEMMA RefreshGoesOnType ==
    ASSUME OwnerOK, ThreadsOK, refresh.pc # "idle", RefreshGoesOn, UNCHANGED <<decision, admin>>
    PROVE  /\ OwnerOK' /\ ThreadsOK'
           /\ \A u \in Thread : thread'[u] = thread[u] \/ thread'[u].pc \notin Busy
           /\ refresh'.pc \in {"idle", "next"}
           /\ refresh'.todo = <<>> \/ refresh'.todo = Tail(refresh.todo)
<1>1. CASE Len(refresh.todo) = 1
  <2>1. /\ refresh' = [pc |-> "idle", todo |-> <<>>, queued |-> FALSE]
        /\ thread' = thread \/ thread' = ResponseDrainStarted(thread)
    BY <1>1 DEF RefreshGoesOn, Resting
  <2>2. <<>> \in Seq(Letter)
    OBVIOUS
  <2>3. OwnerOK'
    BY <2>1, <2>2 DEF OwnerOK
  <2> QED BY <2>1, <2>3, DrainsStarted
<1>2. CASE Len(refresh.todo) # 1
  <2>1. refresh' = [refresh EXCEPT !.pc = "next", !.todo = Tail(refresh.todo)] /\ thread' = thread
    BY <1>2 DEF RefreshGoesOn
  <2>2. Tail(refresh.todo) \in Seq(Letter) /\ Tail(refresh.todo) # <<>>
    BY <1>2, CurrentLetter, TailBox
  <2>3. OwnerOK'
    BY <2>1, <2>2 DEF OwnerOK
  <2>4. refresh'.pc = "next" /\ refresh'.todo = Tail(refresh.todo)
    BY <2>1 DEF OwnerOK
  <2> QED BY <2>1, <2>3, <2>4, DrainsStarted
<1> QED BY <1>1, <1>2

\* The actions of the refresh.
LEMMA RefreshingType == TypeInv /\ Refreshing => TypeInv'
<1> SUFFICES ASSUME TypeInv, Refreshing
             PROVE  TypeInv'
  OBVIOUS
<1>1. CASE ListJoinRequests
  <2>1. Newest(inbox["request"]) \in Seq(Letter) /\ Newest(inbox["request"]) # <<>>
    BY <1>1, Boxes, NewestBox DEF TypeInv, ListJoinRequests
  <2>2. refresh' = [pc |-> "next", todo |-> Newest(inbox["request"]), queued |-> FALSE]
    BY <1>1 DEF ListJoinRequests
  <2>3. OwnerOK'
    BY <1>1, <2>1, <2>2 DEF TypeInv, OwnerOK, ListJoinRequests
  <2> QED BY <1>1, <2>3, UnchangedKeep DEF TypeInv, ListJoinRequests
<1>2. CASE GrantClaim \/ RefuseClaim \/ RecordJoinRequest
  <2>1. Current.req \in Request /\ refresh.pc # "idle"
    BY <1>2, CurrentLetter DEF TypeInv, GrantClaim, RefuseClaim, RecordJoinRequest
  <2>2. decision' \in [Request -> Decision]
    BY <1>2, <2>1 DEF TypeInv, OwnerOK, GrantClaim, RefuseClaim, RecordJoinRequest, Decision
  <2>3. /\ refresh' = [refresh EXCEPT !.pc = "stage"] \/ refresh' = [refresh EXCEPT !.pc = "ack"]
        /\ admin' = admin
    BY <1>2 DEF GrantClaim, RefuseClaim, RecordJoinRequest
  <2>4. OwnerOK'
    BY <2>1, <2>2, <2>3 DEF TypeInv, OwnerOK
  <2> QED BY <1>2, <2>4, UnchangedKeep DEF TypeInv, GrantClaim, RefuseClaim, RecordJoinRequest
<1>3. CASE SkipRequest
  <2>1. OwnerOK' /\ ThreadsOK'
    BY <1>3, RefreshGoesOnType DEF TypeInv, SkipRequest
  <2> QED BY <1>3, <2>1, UnchangedKeep DEF TypeInv, SkipRequest
<1>4. CASE StageResponse
  <2> DEFINE box == WriteInbox(inbox["staged"], Current.req, "granted")
  <2>1. Current.req \in Request /\ refresh.pc # "idle"
    BY <1>4, CurrentLetter DEF TypeInv, StageResponse
  <2>2. box \in Seq(Letter)
    BY <2>1, Boxes, WriteInboxBox DEF TypeInv, Word
  <2>3. /\ inbox' = [inbox EXCEPT !["staged"] = box] /\ outbox' = outbox
        /\ refresh' = [refresh EXCEPT !.pc = "queue"] /\ UNCHANGED <<decision, admin>>
    BY <1>4 DEF StageResponse
  <2> HIDE DEF box
  <2>4. QueuesOK'
    BY <2>2, <2>3, Boxes, InboxWritten DEF TypeInv
  <2>5. OwnerOK'
    BY <2>1, <2>3 DEF TypeInv, OwnerOK
  <2> QED BY <1>4, <2>4, <2>5, UnchangedKeep DEF TypeInv, StageResponse
<1>5. CASE QueueClaimResponse
  <2> DEFINE box == QueueEntry(outbox["response"], Current.req, "granted")
  <2>1. Current.req \in Request /\ refresh.pc # "idle"
    BY <1>5, CurrentLetter DEF TypeInv, QueueClaimResponse
  <2>2. box \in Seq(OutboxEntry) /\ Valid(box)
    BY <2>1, Boxes, QueueEntryBox DEF TypeInv, Word
  <2>3. /\ inbox' = inbox
        /\ outbox' = outbox \/ outbox' = [outbox EXCEPT !["response"] = box]
        /\ refresh' = [refresh EXCEPT !.pc = "ack",
                                      !.queued = refresh.queued \/ Current.req \in routed]
        /\ UNCHANGED <<decision, admin>>
    BY <1>5 DEF QueueClaimResponse
  <2> HIDE DEF box
  <2>4. QueuesOK'
    <3>1. CASE outbox' = outbox
      BY <2>3, <3>1, UnchangedKeep DEF TypeInv, queues
    <3>2. CASE outbox' = [outbox EXCEPT !["response"] = box]
      BY <2>2, <2>3, <3>2, Boxes, OutboxWritten DEF TypeInv
    <3> QED BY <2>3, <3>1, <3>2
  <2>5. OwnerOK'
    <3>1. (refresh.queued \/ Current.req \in routed) \in BOOLEAN
      BY DEF TypeInv, OwnerOK
    <3> DEFINE b == refresh.queued \/ Current.req \in routed
    <3>2. refresh' = [refresh EXCEPT !.pc = "ack", !.queued = b] /\ b \in BOOLEAN
      BY <2>3, <3>1
    <3> HIDE DEF b
    <3> QED BY <2>1, <2>3, <3>2 DEF TypeInv, OwnerOK
  <2> QED BY <1>5, <2>4, <2>5, UnchangedKeep DEF TypeInv, QueueClaimResponse
<1>6. CASE AckRequest
  <2> DEFINE box == Without(inbox["request"], Current.req)
  <2>1. box \in Seq(Letter)
    BY Boxes, WithoutBox DEF TypeInv
  <2>2. /\ inbox' = [inbox EXCEPT !["request"] = box] /\ outbox' = outbox
        /\ refresh.pc = "ack" /\ RefreshGoesOn /\ UNCHANGED <<decision, admin>>
    BY <1>6 DEF AckRequest
  <2> HIDE DEF box
  <2>3. QueuesOK'
    BY <2>1, <2>2, Boxes, InboxWritten DEF TypeInv
  <2>4. OwnerOK' /\ ThreadsOK'
    BY <2>2, RefreshGoesOnType DEF TypeInv
  <2> QED BY <1>6, <2>3, <2>4, UnchangedKeep DEF TypeInv, AckRequest
<1> QED BY <1>1, <1>2, <1>3, <1>4, <1>5, <1>6 DEF Refreshing

\* The actions of the administrator.
LEMMA AdminType ==
    ASSUME TypeInv,
           \/ \E r \in Request :
                ResolveJoinRequest(r) \/ InviteMember(r) \/ ChangeMembership(r)
           \/ QueueAdminResponse
    PROVE  TypeInv'
<1>1. CASE \E r \in Request : ResolveJoinRequest(r) \/ InviteMember(r)
  <2>1. PICK r \in Request, outcome \in {"declined", "approved"} : Resolve(r, outcome)
    BY <1>1 DEF ResolveJoinRequest, InviteMember
  <2>2. OwnerOK'
    <3>1. decision' \in [Request -> Decision]
      BY <2>1 DEF TypeInv, OwnerOK, Resolve, Decision, Outcome
    <3>2. /\ admin' = admin \/ admin' = [pc |-> "queue", req |-> r, text |-> outcome]
          /\ refresh' = refresh
      BY <2>1 DEF Resolve
    <3>3. outcome \in Word
      BY DEF Word
    <3> QED BY <3>1, <3>2, <3>3 DEF TypeInv, OwnerOK
  <2> QED BY <2>1, <2>2, UnchangedKeep DEF TypeInv, Resolve
<1>2. CASE QueueAdminResponse
  <2> DEFINE box == QueueEntry(outbox["response"], admin.req, admin.text)
  <2>1. admin.req \in Request /\ admin.text \in Word
    BY <1>2 DEF TypeInv, OwnerOK, QueueAdminResponse
  <2>2. box \in Seq(OutboxEntry) /\ Valid(box)
    BY <2>1, Boxes, QueueEntryBox DEF TypeInv
  <2>3. /\ outbox' = [outbox EXCEPT !["response"] = box] /\ inbox' = inbox
        /\ admin' = [pc |-> "idle", req |-> Nobody, text |-> "ask"]
        /\ thread' = ResponseDrainStarted(thread) /\ UNCHANGED <<decision, refresh>>
    BY <1>2 DEF QueueAdminResponse, NoAdmin
  <2> HIDE DEF box
  <2>4. QueuesOK'
    BY <2>2, <2>3, Boxes, OutboxWritten DEF TypeInv
  <2>5. OwnerOK'
    BY <2>3 DEF TypeInv, OwnerOK, Word
  <2>6. ThreadsOK'
    BY <2>3, DrainsStarted DEF TypeInv
  <2> QED BY <1>2, <2>4, <2>5, <2>6, UnchangedKeep DEF TypeInv, QueueAdminResponse
<1>3. CASE \E r \in Request : ChangeMembership(r)
  <2>1. PICK r \in Request : ChangeMembership(r)
    BY <1>3
  <2>2. decision' \in [Request -> Decision] /\ UNCHANGED <<refresh, admin>>
    BY <2>1 DEF TypeInv, OwnerOK, ChangeMembership, Decision, Outcome
  <2>3. OwnerOK'
    BY <2>2 DEF TypeInv, OwnerOK
  <2> QED BY <2>1, <2>3, UnchangedKeep DEF TypeInv, ChangeMembership
<1> QED BY <1>1, <1>2, <1>3

\* The actions with which the joiner reads the answers.
LEMMA AnswersType ==
    ASSUME TypeInv,
           \/ ListJoinResponses \/ ApplyJoinResponses \/ ImportAccess
           \/ \E r \in Request : AckResponse(r) \/ PullJoinResponses(r)
    PROVE  TypeInv'
<1>1. CASE ListJoinResponses
  <2> DEFINE kept == Kept(inbox["response"], {e \in Range(inbox["response"]) : e.req \in Awaited})
  <2>1. kept \in Seq(Letter)
    BY Boxes, KeptBox DEF TypeInv
  <2>2. listing' = [pc |-> "listed", todo |-> Newest(kept)] /\ UNCHANGED <<row, shown, acks>>
    BY <1>1 DEF ListJoinResponses
  <2> HIDE DEF kept
  <2>3. Newest(kept) \in Seq(Letter)
    BY <2>1, NewestBox
  <2>4. JoinerOK'
    BY <2>2, <2>3 DEF TypeInv, JoinerOK
  <2> QED BY <1>1, <2>4, UnchangedKeep DEF TypeInv, ListJoinResponses
<1>2. CASE ApplyJoinResponses
  <2>1. Notices \subseteq Request /\ <<>> \in Seq(Letter)
    BY DEF Notices
  <2>2. shown' \in Request \cup {Nobody}
    <3>1. listing.todo \in Seq(Letter)
      BY DEF TypeInv, JoinerOK
    <3>2. Approvals \in Seq(Letter)
      BY <3>1, KeptBox DEF Approvals
    <3>3. CASE Approvals = <<>>
      BY <1>2, <3>3 DEF ApplyJoinResponses, TypeInv, JoinerOK
    <3>4. CASE Approvals # <<>>
      <4>1. Head(Approvals) \in Letter
        BY <3>2, <3>4, TailBox
      <4>2. shown' = Head(Approvals).req
        BY <1>2, <3>4 DEF ApplyJoinResponses
      <4> QED BY <4>1, <4>2 DEF Letter
    <3> QED BY <3>3, <3>4
  <2>3. /\ listing' = [pc |-> "idle", todo |-> <<>>] /\ acks' = acks \cup Notices
        /\ row' = [r \in Request |-> IF r \in Notices THEN "unverified" ELSE row[r]]
    BY <1>2 DEF ApplyJoinResponses
  <2>4. JoinerOK'
    BY <2>1, <2>2, <2>3 DEF TypeInv, JoinerOK
  <2> QED BY <1>2, <2>4, UnchangedKeep DEF TypeInv, ApplyJoinResponses
<1>3. CASE ImportAccess
  <2>1. JoinerOK'
    BY <1>3 DEF TypeInv, JoinerOK, ImportAccess
  <2> QED BY <1>3, <2>1, UnchangedKeep DEF TypeInv, ImportAccess
<1>4. CASE \E r \in Request : AckResponse(r)
  <2>1. PICK r \in Request : AckResponse(r)
    BY <1>4
  <2>2. JoinerOK'
    BY <2>1 DEF TypeInv, JoinerOK, AckResponse
  <2> DEFINE box == Without(inbox["response"], r)
  <2>3. box \in Seq(Letter)
    BY Boxes, WithoutBox DEF TypeInv
  <2>4. inbox' = [inbox EXCEPT !["response"] = box] /\ outbox' = outbox
    BY <2>1 DEF AckResponse
  <2> HIDE DEF box
  <2>5. QueuesOK'
    BY <2>3, <2>4, Boxes, InboxWritten DEF TypeInv
  <2> QED BY <2>1, <2>2, <2>5, UnchangedKeep DEF TypeInv, AckResponse
<1>5. CASE \E r \in Request : PullJoinResponses(r)
  <2>1. PICK r \in Request : PullJoinResponses(r)
    BY <1>5
  <2> DEFINE e == EntryOf(inbox["staged"], r)
             box == WriteInbox(inbox["response"], r, e.text)
  <2>2. e \in Letter
    BY <2>1, Boxes, EntryOfIsAnEntry DEF TypeInv, PullJoinResponses
  <2>3. box \in Seq(Letter)
    <3>1. e.text \in Word
      BY <2>2 DEF Letter
    <3> HIDE DEF e
    <3> QED BY <3>1, Boxes, WriteInboxBox DEF TypeInv
  <2>4. inbox' = [inbox EXCEPT !["response"] = box] /\ outbox' = outbox
    BY <2>1 DEF PullJoinResponses
  <2> HIDE DEF box
  <2>5. QueuesOK'
    BY <2>3, <2>4, Boxes, InboxWritten DEF TypeInv
  <2> QED BY <2>1, <2>5, UnchangedKeep DEF TypeInv, PullJoinResponses
<1> QED BY <1>1, <1>2, <1>3, <1>4, <1>5

\* A crash ends the threads of a device.
LEMMA CrashType ==
    ASSUME TypeInv, CrashJoiner \/ CrashOwner
    PROVE  /\ TypeInv'
           /\ \A u \in Thread : thread'[u] = thread[u] \/ thread'[u].pc \notin Busy
<1>1. Idle \in ThreadState /\ Idle.pc = "idle" /\ "idle" \notin Busy
  <2>1. <<>> \in Seq(Request)
    OBVIOUS
  <2> QED BY <2>1 DEF Idle, ThreadState, Word, Busy
<1>2. /\ thread' \in [Thread -> ThreadState]
      /\ \A u \in Thread : thread'[u] = thread[u] \/ thread'[u] = Idle
  <2> HIDE DEF Idle, ThreadState
  <2>1. thread \in [Thread -> ThreadState]
    BY DEF TypeInv, ThreadsOK
  <2>2. CASE CrashJoiner
    BY <1>1, <2>1, <2>2 DEF CrashJoiner
  <2>3. CASE CrashOwner
    BY <1>1, <2>1, <2>3 DEF CrashOwner
  <2> QED BY <2>2, <2>3
<1>3. /\ ThreadsOK'
      /\ \A u \in Thread : thread'[u] = thread[u] \/ thread'[u].pc \notin Busy
  <2> HIDE DEF Idle, ThreadState
  <2> QED BY <1>1, <1>2 DEF TypeInv, ThreadsOK
<1>4. BoundsOK'
  BY DEF TypeInv, BoundsOK, CrashJoiner, CrashOwner, routes
<1>5. CASE CrashJoiner
  <2>1. <<>> \in Seq(Letter)
    OBVIOUS
  <2>2. JoinerOK'
    BY <1>5, <2>1 DEF TypeInv, JoinerOK, CrashJoiner
  <2> QED BY <1>3, <1>4, <1>5, <2>2, UnchangedKeep DEF TypeInv, CrashJoiner
<1>6. CASE CrashOwner
  <2>1. <<>> \in Seq(Letter)
    OBVIOUS
  <2>2. OwnerOK'
    BY <1>6, <2>1 DEF TypeInv, OwnerOK, CrashOwner, Resting, NoAdmin, Word
  <2> QED BY <1>3, <1>4, <1>6, <2>2, UnchangedKeep DEF TypeInv, CrashOwner
<1> QED BY <1>5, <1>6

\* The situations to start from.
LEMMA InitType == Init => TypeInv
<1> SUFFICES ASSUME Init
             PROVE  TypeInv
  OBVIOUS
<1>1. \A X : <<>> \in Seq(X)
  OBVIOUS
<1>2. JoinerOK /\ OwnerOK
  BY <1>1 DEF Init, JoinerOK, OwnerOK, Resting, NoAdmin, Word, Decision
<1>3. ThreadsOK
  <2>1. Idle \in ThreadState /\ Idle.pc \notin Busy
    BY <1>1 DEF Idle, ThreadState, Word, Busy
  <2> HIDE DEF Idle, ThreadState
  <2> QED BY <2>1 DEF Init, ThreadsOK
<1>4. PICK s \in Scenarios :
        /\ outbox = [q \in Outboxes |-> IF q \in s.stray THEN <<StrayFile>> ELSE <<>>]
        /\ routed = s.routed /\ unreachable = s.unreachable
        /\ asks = s.asks /\ button = s.button /\ faults = s.faults /\ outcomes = s.outcomes
  BY DEF Init, Outboxes
<1>5. BoundsOK
  BY <1>4, ScenariosAssumption DEF BoundsOK
<1>6. QueuesOK
  <2>1. /\ StrayFile \in OutboxEntry /\ StrayFile.req = Stray /\ StrayFile.status = "Invalid"
    BY LimitsArePositive DEF StrayFile, OutboxEntry, Word
  <2> HIDE DEF StrayFile
  <2>2. <<StrayFile>> \in Seq(OutboxEntry) /\ Valid(<<StrayFile>>)
    <3>1. Range(<<StrayFile>>) = {StrayFile}
      BY DEF Range
    <3> QED BY <2>1, <3>1 DEF Valid
  <2>3. <<>> \in Seq(OutboxEntry) /\ Valid(<<>>)
    BY <1>1, EmptyBox DEF Valid
  <2>4. outbox \in [Outboxes -> Seq(OutboxEntry)] /\ \A q \in Outboxes : Valid(outbox[q])
    BY <1>4, <2>2, <2>3
  <2>5. inbox \in [Inboxes -> Seq(Letter)]
    BY <1>1 DEF Init, Inboxes
  <2> QED BY <2>4, <2>5 DEF QueuesOK
<1> QED BY <1>2, <1>3, <1>5, <1>6 DEF TypeInv

\* Every step keeps the types.
LEMMA NextType == TypeInv /\ [Next]_vars => TypeInv'
<1> SUFFICES ASSUME TypeInv, [Next]_vars
             PROVE  TypeInv'
  OBVIOUS
<1>1. CASE UNCHANGED vars
  BY <1>1, UnchangedKeep DEF vars, TypeInv
<1>2. CASE \E t \in Thread : Delivery(t)
  <2>1. PICK t \in Thread : Delivery(t)
    BY <1>2
  <2>2. "request" \in Inboxes /\ "response" \in Inboxes
    BY DEF Inboxes
  <2> QED BY <2>1, <2>2, ListDueType, SendType, ArrivesType, MarkType, MarkRefusedType, AckEntryType
          DEF Delivery, ReceiveJoinRequest, ReceiveJoinResponse
<1>3. CASE \E r \in Request : QueueJoinRequest(r) \/ SubmitJoinRequest(r)
  BY <1>3, AsksType
<1> QED BY <1>1, <1>2, <1>3, TickType, RefreshingType, AdminType, AnswersType, CrashType DEF Next

\* What the invariant says of the types that the runs check.
LEMMA TypeInvIsEnough == TypeInv => TypeOK
<1> SUFFICES ASSUME TypeInv
             PROVE  TypeOK
  OBVIOUS
<1>1. \A X : \A s \in Seq(X) : Range(s) \subseteq X
  BY DEF Range
<1>2. Range(listing.todo) \subseteq Letter /\ listing.pc \in {"idle", "listed"}
  BY <1>1 DEF TypeInv, JoinerOK
<1>3. /\ Range(refresh.todo) \subseteq Letter /\ refresh.queued \in BOOLEAN
      /\ refresh.pc \in {"idle", "next", "stage", "queue", "ack"}
  BY <1>1 DEF TypeInv, OwnerOK
<1>4. \A q \in {"request", "response"} : Range(outbox[q]) \subseteq OutboxEntry
  BY <1>1 DEF TypeInv, QueuesOK, Outboxes
<1>5. \A b \in {"request", "staged", "response"} : Range(inbox[b]) \subseteq Letter
  BY <1>1 DEF TypeInv, QueuesOK, Inboxes
<1>6. \A t \in Thread :
        /\ thread[t].pc \in {"idle", "list", "send", "sent", "arrived", "ack"}
        /\ Range(thread[t].todo) \subseteq Request /\ thread[t].text \in Word
  BY <1>1 DEF TypeInv, ThreadsOK, ThreadState, Busy
<1> QED BY <1>2, <1>3, <1>4, <1>5, <1>6 DEF TypeInv, TypeOK, JoinerOK, OwnerOK, BoundsOK

-----------------------------------------------------------------------------
(* Safety.                                                                 *)

\* The owner's part depends on its own records and on two inboxes.
LEMMA OwnerSafeKeeps ==
    ASSUME OwnerSafe, UNCHANGED <<decision, refresh>>,
           inbox'["request"] = inbox["request"], inbox'["staged"] = inbox["staged"]
    PROVE  OwnerSafe'
<1>1. Current' = Current
  BY DEF Current
<1> QED BY <1>1 DEF OwnerSafe, NothingTwice, TodoIsInTheInbox, ClaimsGoStraight, RefreshIsAt,
                    GrantsStayReachable

\* What a step may do to the request outbox, the rows and the threads that send
\* requests, given that the owner forgets no request.
ReceivedAfter(r) == Holds(inbox'["request"], r) \/ decision'[r] # "none"

OwnerForgetsNothing == \A r \in Request : Received(r) => ReceivedAfter(r)

OutboxKeepsItsPromise ==
    \A r \in Request :
        /\ r \in DeliveredIn(outbox'["request"]) =>
                r \in DeliveredIn(outbox["request"]) \/ ReceivedAfter(r)
        /\ Holds(outbox["request"], r) => Holds(outbox'["request"], r) \/ ReceivedAfter(r)
        /\ row'[r] = "sent" => row[r] = "sent" \/ Holds(outbox'["request"], r)

ThreadsKeepTheirPromise ==
    \A t \in RequestThread : thread'[t].pc \in {"arrived", "ack"} =>
        \/ thread[t].pc \in {"arrived", "ack"} /\ thread'[t].todo = thread[t].todo
        \/ ReceivedAfter(Head(thread'[t].todo))

\* Then the part about deliveries holds afterwards.
LEMMA DeliverySafeKeeps ==
    ASSUME TypeInv, DeliverySafe, OwnerForgetsNothing, OutboxKeepsItsPromise,
           ThreadsKeepTheirPromise
    PROVE  DeliverySafe'
<1>1. DeliveredAreReceived'
  BY DEF DeliverySafe, DeliveredAreReceived, OwnerForgetsNothing, OutboxKeepsItsPromise,
         Received, ReceivedAfter
<1>2. ArrivedAreReceived'
  <2> SUFFICES ASSUME NEW t \in RequestThread, thread'[t].pc \in {"arrived", "ack"}
               PROVE  ReceivedAfter(Head(thread'[t].todo))
    BY DEF ArrivedAreReceived, Received, ReceivedAfter
  <2>1. CASE thread[t].pc \in {"arrived", "ack"} /\ thread'[t].todo = thread[t].todo
    <3>1. Received(Head(thread[t].todo))
      BY <2>1 DEF DeliverySafe, ArrivedAreReceived
    <3>2. Head(thread[t].todo) \in Request
      BY <2>1, BusyThread DEF TypeInv, Busy, Thread
    <3> QED BY <2>1, <3>1, <3>2 DEF OwnerForgetsNothing
  <2> QED BY <2>1 DEF ThreadsKeepTheirPromise
<1>3. SentAreOnTheWay'
  BY DEF DeliverySafe, SentAreOnTheWay, OwnerForgetsNothing, OutboxKeepsItsPromise,
         Received, ReceivedAfter
<1> QED BY <1>1, <1>2, <1>3 DEF DeliverySafe

\* Each of the three conditions for a step that leaves its variables alone.
LEMMA QuietPromises ==
    /\ UNCHANGED <<decision, inbox>> => OwnerForgetsNothing
    /\ UNCHANGED <<row, outbox>> => OutboxKeepsItsPromise
    /\ (\A u \in RequestThread : thread'[u] = thread[u] \/ thread'[u].pc \notin Busy)
            => ThreadsKeepTheirPromise
<1>1. UNCHANGED <<decision, inbox>> => OwnerForgetsNothing
  BY DEF OwnerForgetsNothing, Received, ReceivedAfter
<1>2. UNCHANGED <<row, outbox>> => OutboxKeepsItsPromise
  BY DEF OutboxKeepsItsPromise
<1>3. (\A u \in RequestThread : thread'[u] = thread[u] \/ thread'[u].pc \notin Busy)
            => ThreadsKeepTheirPromise
  BY DEF ThreadsKeepTheirPromise, Busy
<1> QED BY <1>1, <1>2, <1>3

\* The user asks.
LEMMA AsksSafe ==
    ASSUME TypeInv, SafeInv, NEW r \in Request, QueueJoinRequest(r) \/ SubmitJoinRequest(r)
    PROVE  SafeInv'
<1>1. /\ Ask(r) /\ UNCHANGED <<decision, refresh, inbox>>
  BY DEF QueueJoinRequest, SubmitJoinRequest, owner
<1>2. OwnerSafe' /\ OwnerForgetsNothing
  BY <1>1, OwnerSafeKeeps, QuietPromises DEF SafeInv
<1>3. OutboxKeepsItsPromise
  <2> DEFINE box == QueueEntry(outbox["request"], r, "ask")
  <2>1. /\ \A q : Holds(box, q) <=> Holds(outbox["request"], q) \/ q = r
        /\ DeliveredIn(box) \subseteq DeliveredIn(outbox["request"])
    BY Boxes, QueueEntryBox DEF TypeInv, Word
  <2> HIDE DEF box
  <2>2. outbox'["request"] = box
    BY <1>1 DEF Ask, box, TypeInv, QueuesOK, Outboxes
  <2>3. row' = [row EXCEPT ![r] = "sent"]
    BY <1>1 DEF Ask
  <2>4. \A q \in Request : q # r => row'[q] = row[q]
    BY <2>3 DEF TypeInv, JoinerOK
  <2> QED BY <2>1, <2>2, <2>4 DEF OutboxKeepsItsPromise
<1>4. ThreadsKeepTheirPromise
  <2>1. CASE QueueJoinRequest(r)
    BY <2>1, DrainsStarted, QuietPromises DEF TypeInv, QueueJoinRequest, Thread
  <2>2. CASE SubmitJoinRequest(r)
    <3> DEFINE s == [pc |-> "send", todo |-> <<r>>, text |-> "ask"]
    <3>1. thread' = [thread EXCEPT !["submit"] = s] /\ s.pc = "send"
      BY <2>2 DEF SubmitJoinRequest
    <3> HIDE DEF s
    <3>2. \A u \in RequestThread : thread'[u] = thread[u] \/ thread'[u].pc = "send"
      BY <3>1 DEF TypeInv, ThreadsOK, Thread
    <3> QED BY <3>2 DEF ThreadsKeepTheirPromise
  <2> QED BY <2>1, <2>2
<1> QED BY <1>2, <1>3, <1>4, DeliverySafeKeeps DEF SafeInv

\* The scans of the outboxes: what a scan of the request outbox removes was
\* delivered, or is a file that does not validate.
LEMMA ListDueSafe ==
    ASSUME TypeInv, SafeInv, ListDueRequests \/ ListDueResponses
    PROVE  SafeInv'
<1>1. UNCHANGED <<row, decision, refresh, inbox>>
  BY DEF ListDueRequests, ListDueResponses, joiner, owner
<1>2. OwnerSafe' /\ OwnerForgetsNothing
  BY <1>1, OwnerSafeKeeps, QuietPromises DEF SafeInv
<1>3. OutboxKeepsItsPromise
  <2>1. CASE ListDueRequests
    <3> DEFINE old == outbox["request"]
               box == Quarantined(old)
    <3>1. old \in Seq(OutboxEntry) /\ Valid(old)
      BY Boxes DEF TypeInv
    <3>2. /\ box \in Seq(OutboxEntry) /\ Range(box) \subseteq Range(old)
          /\ \A q \in Request : Holds(old, q) => Holds(box, q)
      BY <3>1, QuarantinedBox
    <3>3. outbox'["request"] = Sweep(box)
      BY <2>1 DEF ListDueRequests, TypeInv, QueuesOK, Outboxes
    <3> HIDE DEF box, old
    <3>4. /\ Range(Sweep(box)) \subseteq Range(box)
          /\ \A q : Holds(box, q) => Holds(Sweep(box), q) \/ q \in DeliveredIn(box)
      BY <3>2, SweepBox
    <3>5. DeliveredIn(Sweep(box)) \subseteq DeliveredIn(old) /\ DeliveredIn(box) \subseteq DeliveredIn(old)
      BY <3>2, <3>4, FewerEntries
    <3>6. \A q \in Request : q \in DeliveredIn(old) => ReceivedAfter(q)
      BY <1>2 DEF SafeInv, DeliverySafe, DeliveredAreReceived, OwnerForgetsNothing, old
    <3> QED BY <1>1, <3>2, <3>3, <3>4, <3>5, <3>6 DEF OutboxKeepsItsPromise, old
  <2>2. CASE ListDueResponses
    <3>1. outbox'["request"] = outbox["request"]
      BY <2>2 DEF ListDueResponses, TypeInv, QueuesOK, Outboxes
    <3> QED BY <1>1, <3>1 DEF OutboxKeepsItsPromise
  <2> QED BY <2>1, <2>2
<1>4. ThreadsKeepTheirPromise
  <2>1. CASE ListDueRequests
    <3>1. PICK due : Listed("drainRequests", due)
      BY <2>1 DEF ListDueRequests
    <3>2. \A u \in RequestThread : \/ thread'[u] = thread[u]
                                   \/ thread'[u] = Idle
                                   \/ thread'[u].pc = "send"
      BY <3>1 DEF Listed, TypeInv, ThreadsOK, Thread
    <3> QED BY <3>2 DEF ThreadsKeepTheirPromise, Idle
  <2>2. CASE ListDueResponses
    <3>1. PICK due : Listed("drainResponses", due)
      BY <2>2 DEF ListDueResponses
    <3>2. \A u \in RequestThread : thread'[u] = thread[u]
      BY <3>1 DEF Listed, TypeInv, ThreadsOK, Thread, RequestThread
    <3> QED BY <3>2, QuietPromises
  <2> QED BY <2>1, <2>2
<1> QED BY <1>2, <1>3, <1>4, DeliverySafeKeeps DEF SafeInv

\* Reading an entry, and a result that cannot be saved.
LEMMA SendSafe ==
    ASSUME TypeInv, SafeInv, NEW t \in Thread, Send(t) \/ MarkRefused(t)
    PROVE  SafeInv'
<1>1. UNCHANGED <<row, decision, refresh, outbox, inbox>> /\ thread[t].pc \in Busy
  BY DEF Send, MarkRefused, joiner, owner, queues, Busy
<1>2. OwnerSafe' /\ OwnerForgetsNothing /\ OutboxKeepsItsPromise
  BY <1>1, OwnerSafeKeeps, QuietPromises DEF SafeInv
<1>3. ThreadsKeepTheirPromise
  <2>1. CASE NextEntry(t)
    BY <1>1, <2>1, NextEntryMoves DEF TypeInv, ThreadsKeepTheirPromise, Thread
  <2>2. CASE ~NextEntry(t)
    <3>1. PICK text : thread' = [thread EXCEPT ![t].pc = "sent", ![t].text = text]
      BY <2>2 DEF Send, MarkRefused
    <3>2. \A u \in RequestThread : thread'[u] = thread[u] \/ thread'[u].pc = "sent"
      BY <3>1 DEF TypeInv, ThreadsOK, ThreadState, Thread
    <3> QED BY <3>2 DEF ThreadsKeepTheirPromise
  <2> QED BY <2>1, <2>2
<1> QED BY <1>2, <1>3, DeliverySafeKeeps DEF SafeInv

\* A request arrives in an inbox that has room for it.
LEMMA ReceiveJoinRequestSafe ==
    ASSUME RoomForAll, TypeInv, SafeInv, NEW t \in Thread, ReceiveJoinRequest(t)
    PROVE  SafeInv'
<1> DEFINE r == Head(thread[t].todo)
           text == thread[t].text
           old == inbox["request"]
           box == WriteInbox(old, r, text)
<1>1. /\ t \in RequestThread /\ thread[t].pc = "sent"
      /\ inbox' = [inbox EXCEPT !["request"] = box]
      /\ thread' = [thread EXCEPT ![t].pc = "arrived"]
      /\ UNCHANGED <<row, decision, refresh, outbox>>
  BY DEF ReceiveJoinRequest, Arrives, joiner, owner
<1>2. thread[t].pc \in Busy /\ "arrived" \in Busy
  BY <1>1 DEF Busy
<1>3. r \in Request /\ text \in Word /\ old \in Seq(Letter)
  BY <1>2, BusyThread, Boxes DEF TypeInv, ThreadState
<1>4. inbox'["request"] = box /\ inbox'["staged"] = inbox["staged"]
  BY <1>1 DEF TypeInv, QueuesOK, Inboxes
<1>5. /\ thread'[t].pc = "arrived" /\ thread'[t].todo = thread[t].todo
      /\ \A u \in Thread : u # t => thread'[u] = thread[u]
  BY <1>1, <1>2, ThreadGoesOn DEF TypeInv
<1>6. Distinct(box) /\ \A q : Holds(box, q) <=> Holds(old, q) \/ q = r
  <2>1. Distinct(old)
    BY DEF SafeInv, OwnerSafe, NothingTwice
  <2> HIDE DEF r, text, old
  <2> QED BY <1>3, <2>1, WriteInboxWithRoom
<1>7. ReceivedAfter(r)
  <2> HIDE DEF box, r
  <2> QED BY <1>4, <1>6 DEF ReceivedAfter
<1>8. OwnerForgetsNothing
  <2> HIDE DEF box, r
  <2> QED BY <1>1, <1>4, <1>6 DEF OwnerForgetsNothing, Received, ReceivedAfter
<1>9. OutboxKeepsItsPromise
  BY <1>1, QuietPromises
<1>10. ThreadsKeepTheirPromise
  <2>1. ReceivedAfter(Head(thread'[t].todo))
    BY <1>5, <1>7
  <2> QED BY <1>5, <2>1 DEF ThreadsKeepTheirPromise, Thread
<1> HIDE DEF box, r, text
<1>11. NothingTwice' /\ TodoIsInTheInbox' /\ ClaimsGoStraight' /\ GrantsStayReachable'
  BY <1>1, <1>4, <1>6 DEF SafeInv, OwnerSafe, NothingTwice, TodoIsInTheInbox, ClaimsGoStraight,
                          GrantsStayReachable
<1>12. RefreshIsAt'
  <2>1. Current' = Current
    BY <1>1 DEF Current
  <2> QED BY <1>1, <1>4, <2>1 DEF SafeInv, OwnerSafe, RefreshIsAt
<1> QED BY <1>8, <1>9, <1>10, <1>11, <1>12, DeliverySafeKeeps DEF SafeInv, OwnerSafe

\* An answer arrives: nothing here depends on the joiner's inbox.
LEMMA ReceiveJoinResponseSafe ==
    ASSUME TypeInv, SafeInv, NEW t \in Thread, ReceiveJoinResponse(t)
    PROVE  SafeInv'
<1>1. /\ UNCHANGED <<row, decision, refresh, outbox>>
      /\ inbox'["request"] = inbox["request"] /\ inbox'["staged"] = inbox["staged"]
  BY DEF ReceiveJoinResponse, Arrives, joiner, owner, TypeInv, QueuesOK, Inboxes
<1>2. \A u \in RequestThread : thread'[u] = thread[u]
  BY DEF ReceiveJoinResponse, Arrives, TypeInv, ThreadsOK, Thread, RequestThread
<1>3. OwnerForgetsNothing
  BY <1>1 DEF OwnerForgetsNothing, Received, ReceivedAfter
<1> QED BY <1>1, <1>2, <1>3, OwnerSafeKeeps, QuietPromises, DeliverySafeKeeps DEF SafeInv

\* The result of an attempt is saved: a request is called delivered only at a
\* point where it has been received.
LEMMA MarkSafe ==
    ASSUME TypeInv, SafeInv, NEW t \in Thread, MarkDelivered(t) \/ MarkFailed(t)
    PROVE  SafeInv'
<1> DEFINE q == QueueOf(t)
           r == Head(thread[t].todo)
<1>1. UNCHANGED <<row, decision, refresh, inbox>> /\ thread[t].pc \in Busy
  BY DEF MarkDelivered, MarkFailed, joiner, owner, Busy
<1>2. OwnerSafe' /\ OwnerForgetsNothing
  BY <1>1, OwnerSafeKeeps, QuietPromises DEF SafeInv
<1>3. r \in Request
  BY <1>1, BusyThread DEF TypeInv
<1>4. OutboxKeepsItsPromise
  <2>1. CASE t \notin RequestThread
    <3>1. outbox'["request"] = outbox["request"]
      BY <2>1 DEF MarkDelivered, MarkFailed, QueueOf, TypeInv, QueuesOK, Outboxes
    <3> QED BY <1>1, <3>1 DEF OutboxKeepsItsPromise
  <2>2. CASE t \in RequestThread
    <3> DEFINE old == outbox["request"]
    <3>1. PICK status \in {"Failed", "Delivered"} :
              /\ outbox'["request"] = MarkEntry(old, r, status)
              /\ status = "Delivered" => thread[t].pc = "arrived"
      BY <2>2 DEF MarkDelivered, MarkFailed, QueueOf, TypeInv, QueuesOK, Outboxes
    <3>2. old \in Seq(OutboxEntry) /\ Valid(old)
      BY Boxes DEF TypeInv
    <3>3. status = "Delivered" => Received(r)
      BY <2>2, <3>1 DEF SafeInv, DeliverySafe, ArrivedAreReceived
    <3> HIDE DEF old, r
    <3>4. /\ \A p : Holds(MarkEntry(old, r, status), p) <=> Holds(old, p)
          /\ DeliveredIn(MarkEntry(old, r, status))
                \subseteq DeliveredIn(old) \cup (IF status = "Delivered" THEN {r} ELSE {})
      BY <1>3, <3>2, MarkEntryBox
    <3>5. status = "Delivered" => ReceivedAfter(r)
      BY <1>2, <1>3, <3>3 DEF OwnerForgetsNothing
    <3> QED BY <1>1, <3>1, <3>4, <3>5 DEF OutboxKeepsItsPromise, old
  <2> QED BY <2>1, <2>2
<1>5. ThreadsKeepTheirPromise
  <2>1. CASE NextEntry(t)
    BY <1>1, <2>1, NextEntryMoves DEF TypeInv, ThreadsKeepTheirPromise, Thread
  <2>2. CASE ~NextEntry(t)
    <3>1. thread[t].pc = "arrived" /\ thread' = [thread EXCEPT ![t].pc = "ack"]
      BY <2>2 DEF MarkDelivered, MarkFailed
    <3>2. /\ thread'[t].todo = thread[t].todo
          /\ \A u \in Thread : u # t => thread'[u] = thread[u]
      BY <1>1, <3>1, ThreadGoesOn DEF TypeInv, Busy
    <3> QED BY <3>1, <3>2 DEF ThreadsKeepTheirPromise, Thread
  <2> QED BY <2>1, <2>2
<1> QED BY <1>2, <1>4, <1>5, DeliverySafeKeeps DEF SafeInv

\* An entry is removed only after it has been received.
LEMMA AckEntrySafe ==
    ASSUME TypeInv, SafeInv, NEW t \in Thread, AckEntry(t)
    PROVE  SafeInv'
<1> DEFINE r == Head(thread[t].todo)
<1>1. /\ UNCHANGED <<row, decision, refresh, inbox>> /\ thread[t].pc = "ack" /\ NextEntry(t)
      /\ thread[t].pc \in Busy
  BY DEF AckEntry, joiner, owner, Busy
<1>2. OwnerSafe' /\ OwnerForgetsNothing
  BY <1>1, OwnerSafeKeeps, QuietPromises DEF SafeInv
<1>3. OutboxKeepsItsPromise
  <2>1. CASE t \notin RequestThread
    <3>1. outbox'["request"] = outbox["request"]
      BY <2>1 DEF AckEntry, QueueOf, TypeInv, QueuesOK, Outboxes
    <3> QED BY <1>1, <3>1 DEF OutboxKeepsItsPromise
  <2>2. CASE t \in RequestThread
    <3> DEFINE old == outbox["request"]
    <3>1. outbox'["request"] = Without(old, r)
      BY <2>2 DEF AckEntry, QueueOf, TypeInv, QueuesOK, Outboxes
    <3>2. Received(r) /\ r \in Request
      BY <1>1, <2>2, BusyThread DEF TypeInv, SafeInv, DeliverySafe, ArrivedAreReceived
    <3>3. old \in Seq(OutboxEntry)
      BY Boxes DEF TypeInv
    <3> HIDE DEF old, r
    <3>4. /\ Range(Without(old, r)) \subseteq Range(old)
          /\ \A p : Holds(Without(old, r), p) <=> p # r /\ Holds(old, p)
      BY <3>3, WithoutBox
    <3>5. DeliveredIn(Without(old, r)) \subseteq DeliveredIn(old)
      BY <3>4, FewerEntries
    <3>6. ReceivedAfter(r)
      BY <1>2, <3>2 DEF OwnerForgetsNothing
    <3> QED BY <1>1, <3>1, <3>4, <3>5, <3>6 DEF OutboxKeepsItsPromise, old
  <2> QED BY <2>1, <2>2
<1>4. ThreadsKeepTheirPromise
  BY <1>1, NextEntryMoves DEF TypeInv, ThreadsKeepTheirPromise, Thread
<1> QED BY <1>2, <1>3, <1>4, DeliverySafeKeeps DEF SafeInv

\* Time passes.
LEMMA TickSafe == TypeInv /\ SafeInv /\ Tick => SafeInv'
<1> SUFFICES ASSUME TypeInv, SafeInv, Tick
             PROVE  SafeInv'
  OBVIOUS
<1>1. UNCHANGED <<row, decision, refresh, inbox>>
  BY DEF Tick, joiner, owner
<1>2. OwnerSafe' /\ OwnerForgetsNothing
  BY <1>1, OwnerSafeKeeps, QuietPromises DEF SafeInv
<1>3. OutboxKeepsItsPromise
  <2>1. outbox'["request"] = Aged(outbox["request"])
    BY DEF Tick
  <2>2. /\ \A q : Holds(Aged(outbox["request"]), q) <=> Holds(outbox["request"], q)
        /\ DeliveredIn(Aged(outbox["request"])) \subseteq DeliveredIn(outbox["request"])
    BY Boxes, AgedBox DEF TypeInv
  <2> QED BY <1>1, <2>1, <2>2 DEF OutboxKeepsItsPromise
<1>4. ThreadsKeepTheirPromise
  BY DrainsStarted, QuietPromises DEF TypeInv, Tick, Thread
<1> QED BY <1>2, <1>3, <1>4, DeliverySafeKeeps DEF SafeInv

\* A refresh begins with the letters of the inbox.
LEMMA ListJoinRequestsSafe ==
    ASSUME TypeInv, SafeInv, ListJoinRequests
    PROVE  SafeInv'
<1> DEFINE old == inbox["request"]
<1>1. /\ refresh' = [pc |-> "next", todo |-> Newest(old), queued |-> FALSE]
      /\ UNCHANGED <<row, decision, outbox, inbox, thread>>
  BY DEF ListJoinRequests, joiner, queues
<1>2. old \in Seq(Letter) /\ Distinct(old)
  BY Boxes DEF TypeInv, SafeInv, OwnerSafe, NothingTwice
<1> DEFINE new == Newest(old)
<1>3. new \in Seq(Letter) /\ Range(new) = Range(old) /\ Distinct(new)
  BY <1>2, NewestBox
<1>4. refresh'.todo = new /\ refresh'.pc = "next"
  BY <1>1
<1> HIDE DEF new, old
<1>5. \A k \in DOMAIN new : Holds(old, new[k].req)
  <2>1. \A r : Holds(old, r) <=> \E e \in Range(old) : e.req = r
    BY <1>2, HoldsByEntry
  <2>2. \A k \in DOMAIN new : new[k] \in Range(old)
    BY <1>3 DEF Range
  <2> QED BY <2>1, <2>2
<1>6. NothingTwice' /\ TodoIsInTheInbox'
  BY <1>1, <1>3, <1>4, <1>5 DEF SafeInv, OwnerSafe, NothingTwice, TodoIsInTheInbox, old
<1>7. ClaimsGoStraight' /\ GrantsStayReachable' /\ RefreshIsAt'
  BY <1>1, <1>4 DEF SafeInv, OwnerSafe, ClaimsGoStraight, GrantsStayReachable, RefreshIsAt
<1> QED BY <1>1, <1>6, <1>7, QuietPromises, DeliverySafeKeeps DEF SafeInv, OwnerSafe

\* A decision is made on the present letter, which stays in the inbox.
LEMMA DecideSafe ==
    ASSUME TypeInv, SafeInv, GrantClaim \/ RefuseClaim \/ RecordJoinRequest
    PROVE  SafeInv'
<1> DEFINE r == Current.req
<1>1. refresh.pc = "next" /\ UNCHANGED <<row, outbox, inbox, thread>>
  BY DEF GrantClaim, RefuseClaim, RecordJoinRequest, joiner, queues
<1>2. r \in Request /\ Holds(inbox["request"], r)
  BY <1>1, CurrentLetter DEF TypeInv, SafeInv, OwnerSafe, TodoIsInTheInbox
<1>3. /\ refresh'.todo = refresh.todo /\ refresh'.pc \in {"stage", "ack"}
      /\ GrantClaim => refresh'.pc = "stage"
      /\ RefuseClaim \/ RecordJoinRequest => refresh'.pc = "ack"
  BY DEF GrantClaim, RefuseClaim, RecordJoinRequest, TypeInv, OwnerOK
<1>4. Current' = Current
  BY <1>3 DEF Current
<1>5. PICK d : /\ decision' = [decision EXCEPT ![r] = d] /\ d # "none"
               /\ refresh'.pc = "stage" => r \in Claims /\ d = "granted"
               /\ refresh'.pc = "ack" /\ r \in Claims => d = "refused"
  <2>1. CASE GrantClaim
    BY <1>3, <2>1 DEF GrantClaim
  <2>2. CASE RefuseClaim
    BY <1>3, <2>2 DEF RefuseClaim
  <2>3. CASE RecordJoinRequest
    <3>1. decision' = [decision EXCEPT ![r] = IF decision[r] = "approved" THEN decision[r]
                                               ELSE "waiting"]
      BY <2>3 DEF RecordJoinRequest
    <3>2. r \notin Claims /\ refresh'.pc = "ack"
      BY <1>3, <2>3 DEF RecordJoinRequest, Manual
    <3> QED BY <3>1, <3>2
  <2> QED BY <2>1, <2>2, <2>3
<1>6. decision'[r] = d /\ \A q \in Request : q # r => decision'[q] = decision[q]
  BY <1>2, <1>5 DEF TypeInv, OwnerOK
<1> HIDE DEF r
<1>7. NothingTwice' /\ TodoIsInTheInbox'
  BY <1>1, <1>3 DEF SafeInv, OwnerSafe, NothingTwice, TodoIsInTheInbox
<1>8. ClaimsGoStraight'
  BY <1>3, <1>5, <1>6, HandoffAssumption DEF SafeInv, OwnerSafe, ClaimsGoStraight
<1>9. GrantsStayReachable'
  BY <1>1, <1>2, <1>6, HandoffAssumption DEF SafeInv, OwnerSafe, GrantsStayReachable
<1>10. RefreshIsAt'
  BY <1>3, <1>4, <1>5, <1>6 DEF RefreshIsAt, r
<1>11. OwnerForgetsNothing
  BY <1>1, <1>5, <1>6 DEF OwnerForgetsNothing, Received, ReceivedAfter
<1> QED BY <1>1, <1>7, <1>8, <1>9, <1>10, <1>11, QuietPromises, DeliverySafeKeeps
        DEF SafeInv, OwnerSafe

\* The refresh leaves the present letter where it is, or removes it from the
\* inbox when a decision has been recorded and the answer to a grant is staged.
LEMMA LetterDoneSafe ==
    ASSUME TypeInv, SafeInv, SkipRequest \/ AckRequest
    PROVE  SafeInv'
<1> DEFINE r == Current.req
           old == inbox["request"]
           new == inbox'["request"]
<1>1. /\ refresh.pc \in {"next", "ack"} /\ refresh.pc # "idle" /\ RefreshGoesOn
      /\ UNCHANGED <<row, decision, admin, outbox>>
  BY DEF SkipRequest, AckRequest, joiner, queues
<1>2. /\ refresh.todo \in Seq(Letter) /\ refresh.todo # <<>> /\ r \in Request
  BY <1>1, CurrentLetter DEF TypeInv
<1>3. old \in Seq(Letter) /\ Distinct(old)
  BY Boxes DEF TypeInv, SafeInv, OwnerSafe, NothingTwice
<1>4. /\ \A u \in RequestThread : thread'[u] = thread[u] \/ thread'[u].pc \notin Busy
      /\ refresh'.pc \in {"idle", "next"}
      /\ refresh'.todo = <<>> \/ refresh'.todo = Tail(refresh.todo)
  BY <1>1, RefreshGoesOnType DEF TypeInv, Thread
<1>5. /\ inbox'["staged"] = inbox["staged"] /\ Distinct(new)
      /\ \A q : q # r => (Holds(new, q) <=> Holds(old, q))
      /\ \/ \A q : Holds(new, q) <=> Holds(old, q)
         \/ refresh.pc = "ack"
  <2>1. CASE SkipRequest
    BY <1>3, <2>1 DEF SkipRequest, queues
  <2>2. CASE AckRequest
    <3> HIDE DEF r, old
    <3>1. new = Without(old, r) /\ inbox'["staged"] = inbox["staged"] /\ refresh.pc = "ack"
      BY <2>2 DEF AckRequest, TypeInv, QueuesOK, Inboxes, r, old
    <3> HIDE DEF new
    <3> QED BY <1>3, <3>1, WithoutBox
  <2> QED BY <2>1, <2>2
<1>6. /\ Distinct(Tail(refresh.todo))
      /\ \A k \in DOMAIN Tail(refresh.todo) :
            /\ Tail(refresh.todo)[k].req # r
            /\ Holds(old, Tail(refresh.todo)[k].req)
  <2>1. Distinct(refresh.todo) /\ \A k \in DOMAIN refresh.todo : Holds(old, refresh.todo[k].req)
    BY DEF SafeInv, OwnerSafe, NothingTwice, TodoIsInTheInbox
  <2>2. /\ \A k \in DOMAIN Tail(refresh.todo) :
              /\ k + 1 \in DOMAIN refresh.todo
              /\ Tail(refresh.todo)[k] = refresh.todo[k + 1]
        /\ Distinct(Tail(refresh.todo))
        /\ \A k \in DOMAIN Tail(refresh.todo) : Tail(refresh.todo)[k].req # r
    BY <1>2, <2>1, TailBox DEF Current
  <2> HIDE DEF r, old
  <2> QED BY <2>1, <2>2
<1>7. refresh.pc = "ack" => /\ decision[r] # "none"
                            /\ r \in Claims => decision[r] = "refused" \/ Holds(inbox["staged"], r)
  BY DEF SafeInv, OwnerSafe, RefreshIsAt
<1> HIDE DEF r, old, new
<1>8. NothingTwice' /\ TodoIsInTheInbox'
  <2> DEFINE rest == Tail(refresh.todo)
  <2>1. CASE refresh'.todo = <<>>
    <3>1. DOMAIN refresh'.todo = {} /\ Distinct(refresh'.todo)
      BY <2>1 DEF Distinct
    <3> QED BY <1>5, <3>1 DEF SafeInv, OwnerSafe, NothingTwice, TodoIsInTheInbox, new
  <2>2. CASE refresh'.todo = rest
    <3>1. /\ Distinct(refresh'.todo)
          /\ \A k \in DOMAIN refresh'.todo : Holds(new, refresh'.todo[k].req)
      BY <1>5, <1>6, <2>2
    <3> QED BY <1>5, <3>1 DEF SafeInv, OwnerSafe, NothingTwice, TodoIsInTheInbox, new
  <2> QED BY <1>4, <2>1, <2>2
<1>9. ClaimsGoStraight' /\ RefreshIsAt'
  BY <1>1, <1>4 DEF SafeInv, OwnerSafe, ClaimsGoStraight, RefreshIsAt
<1>10. GrantsStayReachable'
  BY <1>1, <1>5, <1>7 DEF SafeInv, OwnerSafe, GrantsStayReachable, old, new
<1>11. OwnerForgetsNothing
  BY <1>1, <1>5, <1>7 DEF OwnerForgetsNothing, Received, ReceivedAfter, old, new
<1> QED BY <1>1, <1>4, <1>8, <1>9, <1>10, <1>11, QuietPromises, DeliverySafeKeeps
        DEF SafeInv, OwnerSafe

\* The answer is staged, in an inbox that has room for it, and queued.
LEMMA AnswerGrantSafe ==
    ASSUME RoomForAll, TypeInv, SafeInv, StageResponse \/ QueueClaimResponse
    PROVE  SafeInv'
<1> DEFINE r == Current.req
           old == inbox["staged"]
           new == inbox'["staged"]
<1>1. /\ refresh.pc \in {"stage", "queue"} /\ refresh.pc # "idle"
      /\ StageResponse => refresh.pc = "stage"
      /\ QueueClaimResponse => refresh.pc = "queue"
      /\ UNCHANGED <<row, decision, thread>>
  BY DEF StageResponse, QueueClaimResponse, joiner
<1>2. r \in Request /\ old \in Seq(Letter) /\ Distinct(old) /\ "granted" \in Word
  BY <1>1, CurrentLetter, Boxes DEF TypeInv, SafeInv, OwnerSafe, NothingTwice, Word
<1>3. /\ refresh'.todo = refresh.todo
      /\ \/ StageResponse /\ refresh'.pc = "queue"
         \/ QueueClaimResponse /\ refresh'.pc = "ack"
  BY DEF StageResponse, QueueClaimResponse, TypeInv, OwnerOK
<1>4. Current' = Current
  BY <1>3 DEF Current
<1>5. /\ inbox'["request"] = inbox["request"] /\ outbox'["request"] = outbox["request"]
      /\ Distinct(new) /\ Holds(new, r) /\ \A q : Holds(old, q) => Holds(new, q)
  <2>1. CASE StageResponse
    <3>1. /\ new = WriteInbox(old, r, "granted") /\ inbox'["request"] = inbox["request"]
          /\ outbox' = outbox
      BY <2>1 DEF StageResponse, TypeInv, QueuesOK, Inboxes
    <3> HIDE DEF r, old, new
    <3>2. Distinct(new) /\ \A q : Holds(new, q) <=> Holds(old, q) \/ q = r
      BY <1>2, <3>1, WriteInboxWithRoom
    <3> QED BY <3>1, <3>2
  <2>2. CASE QueueClaimResponse
    <3>1. inbox' = inbox
      BY <2>2 DEF QueueClaimResponse
    <3>2. outbox'["request"] = outbox["request"]
      BY <2>2 DEF QueueClaimResponse, TypeInv, QueuesOK, Outboxes
    <3>3. Holds(old, r)
      BY <1>1, <2>2 DEF SafeInv, OwnerSafe, RefreshIsAt
    <3> QED BY <1>2, <3>1, <3>2, <3>3
  <2> QED BY <2>1, <2>2
<1>6. r \in Claims /\ decision[r] \in {"granted", "changed"}
  BY <1>1 DEF SafeInv, OwnerSafe, RefreshIsAt
<1> HIDE DEF r, old, new
<1>7. NothingTwice' /\ TodoIsInTheInbox' /\ ClaimsGoStraight' /\ GrantsStayReachable'
  BY <1>1, <1>3, <1>5 DEF SafeInv, OwnerSafe, NothingTwice, TodoIsInTheInbox, ClaimsGoStraight,
                          GrantsStayReachable, old, new
<1>8. RefreshIsAt'
  BY <1>1, <1>3, <1>4, <1>5, <1>6 DEF RefreshIsAt, r, new
<1>9. OwnerForgetsNothing /\ OutboxKeepsItsPromise
  BY <1>1, <1>5 DEF OwnerForgetsNothing, Received, ReceivedAfter, OutboxKeepsItsPromise
<1> QED BY <1>1, <1>7, <1>8, <1>9, QuietPromises, DeliverySafeKeeps DEF SafeInv, OwnerSafe

\* The administrator decides on requests that are no claims, and a change of a
\* membership leaves the letters where they are.
LEMMA AdminSafe ==
    ASSUME TypeInv, SafeInv,
           \/ \E r \in Request :
                ResolveJoinRequest(r) \/ InviteMember(r) \/ ChangeMembership(r)
           \/ QueueAdminResponse
    PROVE  SafeInv'
<1>1. CASE \E r \in Request : ResolveJoinRequest(r) \/ InviteMember(r)
  <2>1. PICK r \in Request, outcome \in {"declined", "approved"} : Resolve(r, outcome)
    BY <1>1 DEF ResolveJoinRequest, InviteMember
  <2>2. /\ r \notin Claims /\ UNCHANGED <<row, refresh, outbox, inbox, thread>>
        /\ decision'[r] # "none" /\ \A q \in Request : q # r => decision'[q] = decision[q]
    BY <2>1 DEF Resolve, Manual, joiner, queues, TypeInv, OwnerOK
  <2>3. Current' = Current
    BY <2>2 DEF Current
  <2>4. \A q \in Claims : decision'[q] = decision[q]
    BY <2>2, HandoffAssumption
  <2>5. OwnerForgetsNothing
    BY <2>2 DEF OwnerForgetsNothing, Received, ReceivedAfter
  <2>6. /\ NothingTwice' /\ TodoIsInTheInbox' /\ ClaimsGoStraight' /\ GrantsStayReachable'
    BY <2>2, <2>4 DEF SafeInv, OwnerSafe, NothingTwice, TodoIsInTheInbox, ClaimsGoStraight,
                      GrantsStayReachable
  <2>7. RefreshIsAt'
    <3>1. refresh.pc # "idle" => Current.req \in Request
      BY CurrentLetter DEF TypeInv
    <3>2. refresh.pc # "idle" /\ decision[Current.req] # "none" => decision'[Current.req] # "none"
      BY <2>2, <3>1
    <3> QED BY <2>2, <2>3, <2>4, <3>2 DEF SafeInv, OwnerSafe, RefreshIsAt
  <2> QED BY <2>2, <2>5, <2>6, <2>7, QuietPromises, DeliverySafeKeeps DEF SafeInv, OwnerSafe
<1>2. CASE QueueAdminResponse
  <2>1. /\ UNCHANGED <<row, decision, refresh, inbox>> /\ thread' = ResponseDrainStarted(thread)
    BY <1>2 DEF QueueAdminResponse, joiner
  <2>2. outbox'["request"] = outbox["request"]
    BY <1>2 DEF QueueAdminResponse, TypeInv, QueuesOK, Outboxes
  <2>3. OwnerSafe' /\ OwnerForgetsNothing
    BY <2>1, OwnerSafeKeeps, QuietPromises DEF SafeInv
  <2>4. OutboxKeepsItsPromise
    BY <2>1, <2>2 DEF OutboxKeepsItsPromise
  <2>5. ThreadsKeepTheirPromise
    BY <2>1, DrainsStarted, QuietPromises DEF TypeInv, Thread
  <2> QED BY <2>3, <2>4, <2>5, DeliverySafeKeeps DEF SafeInv
<1>3. CASE \E r \in Request : ChangeMembership(r)
  <2>1. PICK r \in Request : ChangeMembership(r)
    BY <1>3
  <2>2. /\ UNCHANGED <<row, refresh, outbox, inbox, thread>>
        /\ r \in Claims /\ decision[r] = "granted" /\ decision'[r] = "changed"
        /\ \A q \in Request : q # r => decision'[q] = decision[q]
    BY <2>1 DEF ChangeMembership, joiner, queues, TypeInv, OwnerOK
  <2>3. Current' = Current
    BY <2>2 DEF Current
  <2>4. \A q \in Claims : \/ decision'[q] = decision[q]
                          \/ decision[q] = "granted" /\ decision'[q] = "changed"
    BY <2>2, HandoffAssumption
  <2>5. OwnerForgetsNothing
    BY <2>2 DEF OwnerForgetsNothing, Received, ReceivedAfter
  <2>6. NothingTwice' /\ TodoIsInTheInbox'
    BY <2>2 DEF SafeInv, OwnerSafe, NothingTwice, TodoIsInTheInbox
  <2>7. ClaimsGoStraight' /\ GrantsStayReachable'
    <3>1. ClaimsGoStraight'
      BY <2>4 DEF SafeInv, OwnerSafe, ClaimsGoStraight
    <3>2. \A q \in Claims : decision'[q] \in {"granted", "changed"} =>
                              decision[q] \in {"granted", "changed"}
      BY <2>4
    <3>3. GrantsStayReachable'
      BY <2>2, <3>2 DEF SafeInv, OwnerSafe, GrantsStayReachable
    <3> QED BY <3>1, <3>3
  <2>8. RefreshIsAt'
    <3>1. refresh.pc # "idle" => Current.req \in Request
      BY CurrentLetter DEF TypeInv
    <3>2. refresh.pc # "idle" /\ decision[Current.req] # "none" => decision'[Current.req] # "none"
      BY <2>2, <3>1
    <3> QED BY <2>2, <2>3, <2>4, <3>2 DEF SafeInv, OwnerSafe, RefreshIsAt
  <2> QED BY <2>2, <2>5, <2>6, <2>7, <2>8, QuietPromises, DeliverySafeKeeps
          DEF SafeInv, OwnerSafe
<1> QED BY <1>1, <1>2, <1>3

\* The joiner reads answers: rows are no longer waited for, and only the
\* joiner's own inbox changes.
LEMMA AnswersSafe ==
    ASSUME TypeInv, SafeInv,
           \/ ListJoinResponses \/ ApplyJoinResponses \/ ImportAccess
           \/ \E r \in Request : AckResponse(r) \/ PullJoinResponses(r)
    PROVE  SafeInv'
<1>1. /\ UNCHANGED <<decision, refresh, outbox, thread>>
      /\ inbox'["request"] = inbox["request"] /\ inbox'["staged"] = inbox["staged"]
  <2>1. CASE ListJoinResponses \/ ApplyJoinResponses \/ ImportAccess
    BY <2>1 DEF ListJoinResponses, ApplyJoinResponses, ImportAccess, owner, queues
  <2>2. CASE \E r \in Request : AckResponse(r) \/ PullJoinResponses(r)
    BY <2>2 DEF AckResponse, PullJoinResponses, owner, TypeInv, QueuesOK, Inboxes
  <2> QED BY <2>1, <2>2
<1>2. \A q \in Request : row'[q] = "sent" => row[q] = "sent"
  <2>1. CASE ListJoinResponses
    BY <2>1 DEF ListJoinResponses
  <2>2. CASE ApplyJoinResponses
    BY <2>2 DEF ApplyJoinResponses
  <2>3. CASE ImportAccess
    BY <2>3 DEF ImportAccess, TypeInv, JoinerOK
  <2>4. CASE \E r \in Request : AckResponse(r) \/ PullJoinResponses(r)
    BY <2>4 DEF AckResponse, PullJoinResponses, joiner
  <2> QED BY <2>1, <2>2, <2>3, <2>4
<1>3. OwnerSafe'
  BY <1>1, OwnerSafeKeeps DEF SafeInv
<1>4. OwnerForgetsNothing /\ OutboxKeepsItsPromise
  BY <1>1, <1>2 DEF OwnerForgetsNothing, Received, ReceivedAfter, OutboxKeepsItsPromise
<1> QED BY <1>1, <1>3, <1>4, QuietPromises, DeliverySafeKeeps DEF SafeInv

\* A crash ends threads and leaves the files.
LEMMA CrashSafe ==
    ASSUME TypeInv, SafeInv, CrashJoiner \/ CrashOwner
    PROVE  SafeInv'
<1>1. UNCHANGED <<row, decision, outbox, inbox>>
  BY DEF CrashJoiner, CrashOwner, joiner, owner, queues
<1>2. ThreadsKeepTheirPromise
  BY CrashType, QuietPromises DEF Thread
<1>3. OwnerSafe'
  <2>1. CASE CrashJoiner
    BY <1>1, <2>1, OwnerSafeKeeps DEF SafeInv, CrashJoiner, owner
  <2>2. CASE CrashOwner
    <3>1. refresh'.pc = "idle" /\ refresh'.todo = <<>>
      BY <2>2 DEF CrashOwner, Resting
    <3>2. Distinct(refresh'.todo) /\ DOMAIN refresh'.todo = {}
      BY <3>1 DEF Distinct
    <3>3. NothingTwice' /\ TodoIsInTheInbox'
      BY <1>1, <3>2 DEF SafeInv, OwnerSafe, NothingTwice, TodoIsInTheInbox
    <3>4. ClaimsGoStraight' /\ GrantsStayReachable' /\ RefreshIsAt'
      BY <1>1, <3>1 DEF SafeInv, OwnerSafe, ClaimsGoStraight, GrantsStayReachable, RefreshIsAt
    <3> QED BY <3>3, <3>4 DEF OwnerSafe
  <2> QED BY <2>1, <2>2
<1> QED BY <1>1, <1>2, <1>3, QuietPromises, DeliverySafeKeeps DEF SafeInv

\* At the start nothing has been sent.
LEMMA InitSafe == Init => SafeInv
<1> SUFFICES ASSUME Init
             PROVE  SafeInv
  OBVIOUS
<1>1. /\ inbox["request"] = <<>> /\ inbox["staged"] = <<>> /\ refresh.todo = <<>>
      /\ refresh.pc = "idle" /\ \A r \in Request : decision[r] = "none" /\ row[r] = "none"
      /\ \A t \in RequestThread : thread[t].pc = "idle"
  BY DEF Init, Resting, Idle, Thread
<1>2. OwnerSafe
  <2>1. NothingTwice /\ TodoIsInTheInbox
    BY <1>1, EmptyBox DEF NothingTwice, TodoIsInTheInbox
  <2>2. ClaimsGoStraight /\ RefreshIsAt /\ GrantsStayReachable
    BY <1>1, HandoffAssumption DEF ClaimsGoStraight, RefreshIsAt, GrantsStayReachable
  <2> QED BY <2>1, <2>2 DEF OwnerSafe
<1>3. DeliveredAreReceived
  <2>1. outbox["request"] = <<StrayFile>> \/ outbox["request"] = <<>>
    BY DEF Init
  <2>2. StrayFile.status = "Invalid"
    BY DEF StrayFile
  <2> HIDE DEF StrayFile
  <2>3. Range(<<StrayFile>>) = {StrayFile} /\ Range(<<>>) = {}
    BY DEF Range
  <2>4. DeliveredIn(outbox["request"]) = {}
    BY <2>1, <2>2, <2>3 DEF DeliveredIn
  <2> QED BY <2>4 DEF DeliveredAreReceived
<1>4. ArrivedAreReceived /\ SentAreOnTheWay
  BY <1>1 DEF ArrivedAreReceived, SentAreOnTheWay
<1> QED BY <1>2, <1>3, <1>4 DEF SafeInv, DeliverySafe

\* Every step keeps the invariant, as long as the inboxes have room.
LEMMA NextSafe ==
    ASSUME RoomForAll, TypeInv, SafeInv, [Next]_vars
    PROVE  SafeInv'
<1>1. CASE UNCHANGED vars
  <2>1. UNCHANGED <<row, decision, refresh, outbox, inbox, thread>>
    BY <1>1 DEF vars, joiner, owner, queues
  <2> QED BY <2>1, OwnerSafeKeeps, QuietPromises, DeliverySafeKeeps DEF SafeInv
<1>2. CASE \E t \in Thread : Delivery(t)
  <2>1. PICK t \in Thread : Delivery(t)
    BY <1>2
  <2> QED BY <2>1, ListDueSafe, SendSafe, ReceiveJoinRequestSafe, ReceiveJoinResponseSafe,
             MarkSafe, AckEntrySafe DEF Delivery
<1>3. CASE \E r \in Request : QueueJoinRequest(r) \/ SubmitJoinRequest(r)
  BY <1>3, AsksSafe
<1>4. CASE Refreshing
  BY <1>4, ListJoinRequestsSafe, DecideSafe, LetterDoneSafe, AnswerGrantSafe DEF Refreshing
<1> QED BY <1>1, <1>2, <1>3, <1>4, TickSafe, AdminSafe, AnswersSafe, CrashSafe DEF Next

\* What the invariant says of the properties that the runs check.
LEMMA SafeInvIsEnough ==
    ASSUME TypeInv, SafeInv
    PROVE  ClaimsAreNeverLost /\ GrantsStayReachable /\ DeliveredMeansReceived
<1> DEFINE box == outbox["request"]
<1>1. box \in Seq(OutboxEntry)
  BY Boxes DEF TypeInv
<1>2. GrantsStayReachable
  BY DEF SafeInv, OwnerSafe
<1>3. ASSUME NEW r \in Request, Holds(box, r), IsTerminal(EntryOf(box, r))
      PROVE  Received(r)
  <2>1. EntryOf(box, r) \in Range(box) /\ EntryOf(box, r).req = r
    BY <1>1, <1>3, EntryOfIsAnEntry
  <2>2. r \in DeliveredIn(box)
    BY <1>3, <2>1 DEF DeliveredIn, IsTerminal
  <2> QED BY <2>2 DEF SafeInv, DeliverySafe, DeliveredAreReceived
<1>4. DeliveredMeansReceived
  BY <1>3 DEF DeliveredMeansReceived, Received
<1>5. ClaimsAreNeverLost
  <2> SUFFICES ASSUME NEW r \in Claims, row[r] = "sent",
                      ~(Holds(box, r) /\ ~IsTerminal(EntryOf(box, r)))
               PROVE  \/ Holds(inbox["request"], r) \/ Holds(inbox["staged"], r)
                      \/ decision[r] = "refused"
    BY DEF ClaimsAreNeverLost
  <2>1. r \in Request
    BY HandoffAssumption
  <2>2. Received(r)
    BY <1>3, <2>1 DEF SafeInv, DeliverySafe, SentAreOnTheWay
  <2>3. decision[r] \in {"none", "granted", "changed", "refused"}
    BY DEF SafeInv, OwnerSafe, ClaimsGoStraight
  <2> QED BY <1>2, <2>2, <2>3 DEF Received, GrantsStayReachable
<1> QED BY <1>2, <1>4, <1>5

-----------------------------------------------------------------------------
(* The theorems.                                                           *)

\* The variables keep their types: every queue holds letters of its kind, a
\* thread that is under way has a request to work on, and time and attempts
\* stay within their bounds.
THEOREM HandoffTypeCorrect == Spec => []TypeOK
<1>1. Spec => []TypeInv
  BY InitType, NextType, PTL DEF Spec
<1> QED BY <1>1, TypeInvIsEnough, PTL

\* The invariant that the three theorems below rest on.
THEOREM HandoffInvariant == ASSUME RoomForAll PROVE Spec => [](TypeInv /\ SafeInv)
<1>1. Init => TypeInv /\ SafeInv
  BY InitType, InitSafe
<1>2. TypeInv /\ SafeInv /\ [Next]_vars => (TypeInv /\ SafeInv)'
  BY NextType, NextSafe
<1> QED BY <1>1, <1>2, PTL DEF Spec

\* A claim that the joiner waits for is never lost, whatever the threads of
\* both devices do and wherever one of them crashes.
THEOREM ClaimsAreKept == ASSUME RoomForAll PROVE Spec => []ClaimsAreNeverLost
BY HandoffInvariant, SafeInvIsEnough, PTL

\* The answer to a claim that has spent a use of its invite stays within reach.
THEOREM GrantsAreKept == ASSUME RoomForAll PROVE Spec => []GrantsStayReachable
BY HandoffInvariant, SafeInvIsEnough, PTL

\* What the request outbox calls delivered, the owner has seen.
THEOREM DeliveriesAreReceived == ASSUME RoomForAll PROVE Spec => []DeliveredMeansReceived
BY HandoffInvariant, SafeInvIsEnough, PTL

=============================================================================
