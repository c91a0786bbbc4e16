------------------------- MODULE InviteClaimProofs -------------------------
(***************************************************************************)
(* The invite promises of InviteClaim, for any number of workers,          *)
(* processes, claims, interfering writers and crashes.                     *)
(***************************************************************************)
EXTENDS InviteClaim, TLAPS, FiniteSetTheorems, SequenceTheorems

-----------------------------------------------------------------------------
(* Histories.                                                              *)

\* Where an entry of some kind is, after one more entry.
LEMMA WhereAppend ==
    ASSUME NEW h \in Seq(Entry), NEW e \in Entry, NEW kind
    PROVE  Where(Append(h, e), kind) =
              Where(h, kind) \cup (IF e.kind = kind THEN {Len(h) + 1} ELSE {})
  <1>1. /\ Len(Append(h, e)) = Len(h) + 1
        /\ \A k \in 1..Len(h) : Append(h, e)[k] = h[k]
        /\ Append(h, e)[Len(h) + 1] = e
        /\ Len(h) \in Nat
    BY AppendProperties, LenProperties
  <1> QED  BY <1>1 DEF Where

\* An admission adds its claim to the claims of the history.
LEMMA ClaimsAppendAdmission ==
    ASSUME NEW h \in Seq(Entry), NEW c \in Claim
    PROVE  /\ Admission(c) \in Entry
           /\ ClaimsIn(Append(h, Admission(c))) = ClaimsIn(h) \cup {c}
           /\ RevokedIn(Append(h, Admission(c))) = RevokedIn(h)
  <1> DEFINE e == Admission(c)
             g == Append(h, e)
  <1>1. c = [device |-> c.device, request |-> c.request]
        /\ c.device \in Device /\ c.request \in Request
    BY ClaimsAreClaims
  <1>2. e \in Entry /\ e.kind = "admitted" /\ e.device = c.device /\ e.request = c.request
    BY <1>1 DEF Admission, Entry
  <1> HIDE DEF e
  <1>3. Where(g, "admitted") = Where(h, "admitted") \cup {Len(h) + 1}
        /\ Where(g, "revoked") = Where(h, "revoked")
    <2>0. e \in Entry
      BY <1>2
    <2>1. Where(g, "admitted") =
              Where(h, "admitted") \cup (IF e.kind = "admitted" THEN {Len(h) + 1} ELSE {})
      BY <2>0, WhereAppend, Zenon
    <2>2. Where(g, "revoked") =
              Where(h, "revoked") \cup (IF e.kind = "revoked" THEN {Len(h) + 1} ELSE {})
      BY <2>0, WhereAppend, Zenon
    <2> QED  BY <1>2, <2>1, <2>2
  <1>4. /\ \A k \in Where(h, "admitted") : g[k] = h[k]
        /\ g[Len(h) + 1] = e
    BY <1>2, AppendProperties DEF Where
  <1>5. ClaimsIn(g) = ClaimsIn(h) \cup {c}
    <2> DEFINE AsClaim(x) == [device |-> x.device, request |-> x.request]
    <2>1. AsClaim(e) = c
      BY <1>1, <1>2
    <2>2. ClaimsIn(h) = {AsClaim(h[k]) : k \in Where(h, "admitted")}
          /\ ClaimsIn(g) = {AsClaim(g[k]) : k \in Where(g, "admitted")}
      BY DEF ClaimsIn
    <2> HIDE DEF AsClaim, g
    <2> QED  BY <1>3, <1>4, <2>1, <2>2
  <1> QED  BY <1>2, <1>3, <1>5 DEF RevokedIn, e

\* What another writer appends changes no claim and withdraws no revocation.
LEMMA ClaimsAppendOther ==
    ASSUME NEW h \in Seq(Entry), NEW e \in OtherEntries
    PROVE  /\ e \in Entry
           /\ ClaimsIn(Append(h, e)) = ClaimsIn(h)
           /\ RevokedIn(h) => RevokedIn(Append(h, e))
  <1> DEFINE g == Append(h, e)
  <1>1. e \in Entry /\ e.kind # "admitted"
    BY DEF OtherEntries, Entry
  <1>2. Where(g, "admitted") = Where(h, "admitted")
        /\ Where(h, "revoked") \subseteq Where(g, "revoked")
    <2>1. Where(g, "admitted") =
              Where(h, "admitted") \cup (IF e.kind = "admitted" THEN {Len(h) + 1} ELSE {})
      BY <1>1, WhereAppend, Zenon
    <2>2. Where(g, "revoked") =
              Where(h, "revoked") \cup (IF e.kind = "revoked" THEN {Len(h) + 1} ELSE {})
      BY <1>1, WhereAppend, Zenon
    <2> QED  BY <1>1, <2>1, <2>2
  <1>3. \A k \in Where(h, "admitted") : g[k] = h[k]
    BY <1>1, AppendProperties DEF Where
  <1>4. ClaimsIn(g) = ClaimsIn(h)
    BY <1>2, <1>3 DEF ClaimsIn
  <1> QED  BY <1>1, <1>2, <1>4 DEF RevokedIn

\* A history has no more claims than it has claim events.
LEMMA ClaimsAreCounted ==
    ASSUME NEW h \in Seq(Entry)
    PROVE  /\ IsFiniteSet(ClaimsIn(h))
           /\ Cardinality(ClaimsIn(h)) \in Nat
           /\ ClaimCount(h) \in Nat
           /\ Cardinality(ClaimsIn(h)) <= ClaimCount(h)
  <1> DEFINE S == Where(h, "admitted")
             f == [k \in S |-> [device |-> h[k].device, request |-> h[k].request]]
  <1>1. IsFiniteSet(S)
    <2>1. Len(h) \in Nat /\ S \subseteq 1..Len(h)
      BY LenProperties DEF Where
    <2>2. IsFiniteSet(1..Len(h))
      BY <2>1, FS_Interval
    <2> QED  BY <2>1, <2>2, FS_Subset
  <1>2. f \in Surjection(S, ClaimsIn(h))
    BY DEF Surjection, ClaimsIn
  <1> HIDE DEF f, S
  <1>4. IsFiniteSet(ClaimsIn(h)) /\ Cardinality(ClaimsIn(h)) <= Cardinality(S)
    BY <1>1, <1>2, FS_Surjection
  <1> QED  BY <1>1, <1>4, FS_CardinalityType DEF ClaimCount, S

\* A worker that finds the history as it was at first has materialized just that.
LEMMA NothingBetween ==
    ASSUME NEW g \in Seq(Entry), NEW m \in Seq(Entry), Extends(m, g), Extends(g, m)
    PROVE  m = g
  <1>1. Len(m) = Len(g)
    BY LenProperties DEF Extends
  <1> QED  BY <1>1, SeqEqual DEF Extends

LEMMA ExtendsItself ==
    ASSUME NEW h \in Seq(Entry)
    PROVE  Extends(h, h)
  BY LenProperties DEF Extends

LEMMA ExtendsAppend ==
    ASSUME NEW h \in Seq(Entry), NEW g \in Seq(Entry), NEW e \in Entry, Extends(h, g)
    PROVE  Extends(Append(h, e), g)
  <1>1. /\ Len(Append(h, e)) = Len(h) + 1
        /\ \A k \in 1..Len(h) : Append(h, e)[k] = h[k]
        /\ Len(h) \in Nat /\ Len(g) \in Nat
    BY AppendProperties, LenProperties
  <1> QED  BY <1>1 DEF Extends

-----------------------------------------------------------------------------
(* The invariant.                                                          *)

LEMMA InitInv == Init => Inv
  <1> SUFFICES ASSUME Init PROVE Inv
    OBVIOUS
  <1>1. TypeOK
    <2>1. history \in Seq(Entry) /\ <<>> \in Seq(Entry)
      BY DEF Init
    <2>2. expected \in [Worker -> Seq(Entry)] /\ context \in [Worker -> Seq(Entry)]
      BY <2>1 DEF Init
    <2>3. 0 \in 0..RetryLimit
      BY LimitsAreNaturals
    <2> QED  BY <2>1, <2>2, <2>3 DEF Init, TypeOK
  <1>2. Where(history, "admitted") = {}
    BY DEF Init, Where
  <1>3. ClaimsIn(history) = {}
    BY <1>2 DEF ClaimsIn
  <1>4. AdmittedGetCredentials
    BY <1>3 DEF AdmittedGetCredentials
  <1>5. GrantsAreDurable
    <2> SUFFICES ASSUME NEW c \in Claim, answer[c] = "granted" PROVE FALSE
      BY DEF GrantsAreDurable
    <2> QED  BY DEF Init
  <1>6. ReadsAreOrdered /\ DecisionsAreSound /\ ProgressIsOnDisk
    BY DEF Init, ReadsAreOrdered, DecisionsAreSound, ProgressIsOnDisk
  <1>7. RoundsAreCounted
    BY LimitsAreNaturals DEF Init, RoundsAreCounted
  <1> QED  BY <1>1, <1>4, <1>5, <1>6, <1>7 DEF Inv

(* The steps that leave the history alone.                                 *)

LEMMA StartInv ==
    ASSUME Inv, NEW w \in Worker, NEW c \in Claim, Start(w, c)
    PROVE  Inv'
  <1> USE DEF Start, disk, bounds
  <1>1. TypeOK'
    BY WorkersHaveProcesses DEF Inv, TypeOK
  <1>2. Extends(history, history)
    BY ExtendsItself DEF Inv, TypeOK
  <1>3. ReadsAreOrdered'
    BY <1>2 DEF Inv, TypeOK, ReadsAreOrdered
  <1>4. DecisionsAreSound'
    BY DEF Inv, TypeOK, DecisionsAreSound
  <1>5. ProgressIsOnDisk'
    BY DEF Inv, TypeOK, ProgressIsOnDisk
  <1>6. RoundsAreCounted'
    BY DEF Inv, TypeOK, RoundsAreCounted
  <1>7. AdmittedGetCredentials' /\ GrantsAreDurable'
    BY DEF Inv, TypeOK, AdmittedGetCredentials, GrantsAreDurable
  <1> QED  BY <1>1, <1>3, <1>4, <1>5, <1>6, <1>7 DEF Inv

LEMMA ReadInventoryInv ==
    ASSUME Inv, NEW w \in Worker, ReadInventory(w)
    PROVE  Inv'
  <1> USE DEF ReadInventory, disk, bounds
  <1>1. TypeOK'
    BY DEF Inv, TypeOK
  <1>2. Extends(history, history)
    BY ExtendsItself DEF Inv, TypeOK
  <1>3. ReadsAreOrdered'
    BY <1>2 DEF Inv, TypeOK, ReadsAreOrdered
  <1>4. DecisionsAreSound'
    BY DEF Inv, TypeOK, DecisionsAreSound
  <1>5. ProgressIsOnDisk'
    BY DEF Inv, TypeOK, ProgressIsOnDisk
  <1>6. RoundsAreCounted'
    BY DEF Inv, TypeOK, RoundsAreCounted
  <1>7. AdmittedGetCredentials' /\ GrantsAreDurable'
    BY DEF Inv, TypeOK, AdmittedGetCredentials, GrantsAreDurable
  <1> QED  BY <1>1, <1>3, <1>4, <1>5, <1>6, <1>7 DEF Inv

LEMMA LoadContextInv ==
    ASSUME Inv, NEW w \in Worker, LoadContext(w)
    PROVE  Inv'
  <1> USE DEF LoadContext, disk, bounds
  <1>1. TypeOK'
    BY DEF Inv, TypeOK
  <1>2. Extends(history, history)
    BY ExtendsItself DEF Inv, TypeOK
  <1>3. ReadsAreOrdered'
    BY <1>2 DEF Inv, TypeOK, ReadsAreOrdered
  <1>4. DecisionsAreSound'
    BY DEF Inv, TypeOK, DecisionsAreSound
  <1>5. ProgressIsOnDisk'
    BY DEF Inv, TypeOK, ProgressIsOnDisk
  <1>6. RoundsAreCounted'
    BY DEF Inv, TypeOK, RoundsAreCounted
  <1>7. AdmittedGetCredentials' /\ GrantsAreDurable'
    BY DEF Inv, TypeOK, AdmittedGetCredentials, GrantsAreDurable
  <1> QED  BY <1>1, <1>3, <1>4, <1>5, <1>6, <1>7 DEF Inv

LEMMA ReadReceiptInv ==
    ASSUME Inv, NEW w \in Worker, ReadReceipt(w)
    PROVE  Inv'
  <1> USE DEF ReadReceipt, disk, bounds
  <1>1. TypeOK'
    BY DEF Inv, TypeOK
  <1>2. Extends(history, history)
    BY ExtendsItself DEF Inv, TypeOK
  <1>3. ReadsAreOrdered'
    BY <1>2 DEF Inv, TypeOK, ReadsAreOrdered
  <1>4. DecisionsAreSound'
    BY DEF Inv, TypeOK, DecisionsAreSound
  <1>5. ProgressIsOnDisk'
    BY DEF Inv, TypeOK, ProgressIsOnDisk
  <1>6. RoundsAreCounted'
    BY DEF Inv, TypeOK, RoundsAreCounted
  <1>7. AdmittedGetCredentials' /\ GrantsAreDurable'
    BY DEF Inv, TypeOK, AdmittedGetCredentials, GrantsAreDurable
  <1> QED  BY <1>1, <1>3, <1>4, <1>5, <1>6, <1>7 DEF Inv

LEMMA StoreReceiptInv ==
    ASSUME Inv, NEW w \in Worker, StoreReceipt(w)
    PROVE  Inv'
  <1> USE DEF StoreReceipt, disk, bounds
  <1>0. job[w] \in Claim
    BY DEF Inv, DecisionsAreSound
  <1>1. TypeOK'
    BY <1>0 DEF Inv, TypeOK
  <1>2. Extends(history, history)
    BY ExtendsItself DEF Inv, TypeOK
  <1>3. ReadsAreOrdered'
    BY <1>2 DEF Inv, TypeOK, ReadsAreOrdered
  <1>4. DecisionsAreSound'
    BY DEF Inv, TypeOK, DecisionsAreSound
  <1>5. ProgressIsOnDisk'
    BY DEF Inv, TypeOK, ProgressIsOnDisk
  <1>6. RoundsAreCounted'
    BY DEF Inv, TypeOK, RoundsAreCounted
  <1>7. AdmittedGetCredentials' /\ GrantsAreDurable'
    BY DEF Inv, TypeOK, AdmittedGetCredentials, GrantsAreDurable
  <1> QED  BY <1>1, <1>3, <1>4, <1>5, <1>6, <1>7 DEF Inv

\* A response that was not stored leaves everything else as it was.
LEMMA StoreFailsInv ==
    ASSUME Inv, NEW w \in Worker, StoreFails(w)
    PROVE  Inv'
  <1> USE DEF StoreFails, disk, bounds
  <1>1. TypeOK'
    BY DEF Inv, TypeOK
  <1>2. Extends(history, history)
    BY ExtendsItself DEF Inv, TypeOK
  <1>3. ReadsAreOrdered'
    BY <1>2 DEF Inv, TypeOK, ReadsAreOrdered
  <1>4. DecisionsAreSound'
    BY DEF Inv, TypeOK, DecisionsAreSound
  <1>5. ProgressIsOnDisk'
    BY DEF Inv, TypeOK, ProgressIsOnDisk
  <1>6. RoundsAreCounted'
    BY DEF Inv, TypeOK, RoundsAreCounted
  <1>7. AdmittedGetCredentials' /\ GrantsAreDurable'
    BY DEF Inv, TypeOK, AdmittedGetCredentials, GrantsAreDurable
  <1> QED  BY <1>1, <1>3, <1>4, <1>5, <1>6, <1>7 DEF Inv

LEMMA ReplyInv ==
    ASSUME Inv, NEW w \in Worker, Reply(w)
    PROVE  Inv'
  <1> USE DEF Reply, Unlocked, disk, bounds
  <1>0. job[w] \in Claim
    BY DEF Inv, DecisionsAreSound
  <1>1. TypeOK'
    <2>1. answer' \in [Claim -> {"waiting", "granted", "refused"}]
      BY <1>0 DEF Inv, TypeOK
    <2>2. lock' \in [Process -> Worker \cup {None}]
      BY WorkersHaveProcesses DEF Inv, TypeOK
    <2>3. tries' \in [Worker -> 0..RetryLimit]
      BY LimitsAreNaturals DEF Inv, TypeOK
    <2>4. job' \in [Worker -> Claim \cup {None}]
      BY DEF Inv, TypeOK
    <2> QED  BY <2>1, <2>2, <2>3, <2>4 DEF Inv, TypeOK
  <1>2. Extends(history, history)
    BY ExtendsItself DEF Inv, TypeOK
  <1>3. ReadsAreOrdered'
    BY <1>2 DEF Inv, TypeOK, ReadsAreOrdered
  <1>4. DecisionsAreSound'
    BY DEF Inv, TypeOK, DecisionsAreSound
  <1>5. ProgressIsOnDisk'
    BY DEF Inv, TypeOK, ProgressIsOnDisk
  <1>6. RoundsAreCounted'
    BY LimitsAreNaturals DEF Inv, TypeOK, RoundsAreCounted
  <1>7. AdmittedGetCredentials' /\ GrantsAreDurable'
    BY <1>0 DEF Inv, TypeOK, AdmittedGetCredentials, GrantsAreDurable, ProgressIsOnDisk
  <1> QED  BY <1>1, <1>3, <1>4, <1>5, <1>6, <1>7 DEF Inv

\* The clock decides no invariant.
LEMMA ExpireInv ==
    ASSUME Inv, Expire
    PROVE  Inv'
  BY DEF Expire, disk, worker, bounds, Inv, TypeOK, ReadsAreOrdered, DecisionsAreSound,
         ProgressIsOnDisk, RoundsAreCounted, AdmittedGetCredentials, GrantsAreDurable

\* A crash leaves its workers where no invariant asks anything of them.
LEMMA CrashInv ==
    ASSUME Inv, NEW p \in Process, Crash(p)
    PROVE  Inv'
  <1> USE DEF Crash, disk
  <1>1. TypeOK'
    <2>1. <<>> \in Seq(Entry) /\ 0 \in 0..RetryLimit
      BY LimitsAreNaturals
    <2>2. expected' \in [Worker -> Seq(Entry)] /\ context' \in [Worker -> Seq(Entry)]
      BY <2>1 DEF Inv, TypeOK
    <2>3. tries' \in [Worker -> 0..RetryLimit]
      BY <2>1 DEF Inv, TypeOK
    <2>4. job' \in [Worker -> Claim \cup {None}] /\ lock' \in [Process -> Worker \cup {None}]
      BY DEF Inv, TypeOK
    <2> QED  BY <2>2, <2>3, <2>4 DEF Inv, TypeOK
  <1>2. ReadsAreOrdered'
    BY DEF Inv, TypeOK, ReadsAreOrdered
  <1>3. DecisionsAreSound'
    BY DEF Inv, TypeOK, DecisionsAreSound
  <1>4. ProgressIsOnDisk'
    BY DEF Inv, TypeOK, ProgressIsOnDisk
  <1>5. RoundsAreCounted'
    BY LimitsAreNaturals DEF Inv, TypeOK, RoundsAreCounted
  <1>6. AdmittedGetCredentials' /\ GrantsAreDurable'
    BY DEF Inv, TypeOK, AdmittedGetCredentials, GrantsAreDurable
  <1> QED  BY <1>1, <1>2, <1>3, <1>4, <1>5, <1>6 DEF Inv

LEMMA RecheckInv ==
    ASSUME Inv, NEW w \in Worker, Recheck(w)
    PROVE  Inv'
  <1> USE DEF Recheck, Verdict, disk, bounds
  <1>0. /\ job[w] \in Claim
        /\ expected[w] \in Seq(Entry) /\ context[w] \in Seq(Entry) /\ history \in Seq(Entry)
        /\ tries[w] \in Nat /\ tries[w] < RetryLimit
    BY LimitsAreNaturals DEF Inv, TypeOK, DecisionsAreSound, RoundsAreCounted
  <1>1. pc'[w] = "append" => Admissible(expected[w], job[w])
    <2> SUFFICES ASSUME pc'[w] = "append" PROVE Admissible(expected[w], job[w])
      OBVIOUS
    <2>1. history = expected[w] /\ Admissible(context[w], job[w])
      BY DEF TryAgain, Inv, TypeOK
    <2>2. context[w] = expected[w]
      BY <1>0, <2>1, NothingBetween DEF Inv, ReadsAreOrdered
    <2> QED  BY <2>1, <2>2
  <1>2. pc'[w] = "receipt" => job[w] \in ClaimsIn(history)
    <2> SUFFICES ASSUME pc'[w] = "receipt" PROVE job[w] \in ClaimsIn(history)
      OBVIOUS
    <2>1. history = expected[w] /\ AcceptedBefore(context[w], job[w])
      BY DEF TryAgain, Inv, TypeOK
    <2>2. context[w] = history
      BY <1>0, <2>1, NothingBetween DEF Inv, ReadsAreOrdered
    <2>3. PICK k \in Where(history, "admitted") : history[k] = Admission(job[w])
      BY <2>1, <2>2 DEF AcceptedBefore, InForce
    <2>4. [device |-> history[k].device, request |-> history[k].request] = job[w]
      BY <1>0, <2>3, ClaimsAreClaims DEF Admission
    <2> QED  BY <2>3, <2>4 DEF ClaimsIn
  <1>3. /\ pc'[w] \in {"inventory", "busy", "append", "receipt", "refused"}
        /\ pc' = [pc EXCEPT ![w] = pc'[w]]
    BY DEF TryAgain, Inv, TypeOK
  <1>4. tries' \in [Worker -> 0..RetryLimit] /\ RoundsAreCounted'
    <2>1. CASE history # expected[w]
      <3>1. TryAgain(w)
        BY <2>1
      <3> HIDE DEF Recheck
      <3> QED  BY <1>0, <3>1, LimitsAreNaturals DEF TryAgain, Inv, TypeOK, RoundsAreCounted
    <2>2. CASE history = expected[w]
      BY <1>0, <1>3, <2>2 DEF Inv, TypeOK, RoundsAreCounted
    <2> QED  BY <2>1, <2>2
  <1>5. /\ expected' \in [Worker -> Seq(Entry)] /\ context' \in [Worker -> Seq(Entry)]
        /\ pc'[w] = "append" => expected' = expected
        /\ \A v \in Worker \ {w} : expected'[v] = expected[v] /\ context'[v] = context[v]
    BY DEF Inv, TypeOK
  <1> HIDE DEF Recheck
  <1>6. UNCHANGED <<history, receipts, expired, answer, job, lock>>
    BY DEF Recheck
  <1>7. TypeOK'
    <2>1. pc' \in [Worker -> {"idle", "inventory", "context", "recheck", "append",
                              "group", "receipt", "store", "granted", "refused", "busy"}]
      BY <1>3 DEF Inv, TypeOK
    <2> QED  BY <2>1, <1>4, <1>5, <1>6 DEF Inv, TypeOK
  <1>8. ReadsAreOrdered'
    BY <1>3, <1>5, <1>6 DEF Inv, TypeOK, ReadsAreOrdered
  <1>9. DecisionsAreSound'
    BY <1>1, <1>3, <1>5, <1>6, <1>0 DEF Inv, TypeOK, DecisionsAreSound
  <1>10. ProgressIsOnDisk'
    BY <1>2, <1>3, <1>6 DEF Inv, TypeOK, ProgressIsOnDisk
  <1>11. AdmittedGetCredentials' /\ GrantsAreDurable'
    BY <1>6 DEF Inv, AdmittedGetCredentials, GrantsAreDurable
  <1> QED  BY <1>4, <1>7, <1>8, <1>9, <1>10, <1>11 DEF Inv

(* The steps that append to the history.                                   *)

\* Appending an entry that keeps the claims keeps what the workers have read
\* and done.
LEMMA GrowthKeepsReads ==
    ASSUME Inv, NEW e \in Entry, history' = Append(history, e),
           NEW w \in Worker, pc'[w] = pc[w], expected'[w] = expected[w],
           context'[w] = context[w]
    PROVE  /\ (pc[w] = "context" => Extends(history, expected[w]))'
           /\ (pc[w] = "recheck" => /\ Extends(context[w], expected[w])
                                    /\ Extends(history, context[w]))'
  <1>1. /\ history \in Seq(Entry) /\ expected[w] \in Seq(Entry) /\ context[w] \in Seq(Entry)
    BY DEF Inv, TypeOK
  <1>2. pc[w] = "context" => Extends(Append(history, e), expected[w])
    BY <1>1, ExtendsAppend DEF Inv, ReadsAreOrdered
  <1>3. pc[w] = "recheck" => Extends(Append(history, e), context[w])
    BY <1>1, ExtendsAppend DEF Inv, ReadsAreOrdered
  <1> QED  BY <1>2, <1>3 DEF Inv, ReadsAreOrdered

LEMMA OtherWriteInv ==
    ASSUME Inv, NEW e \in Interference, OtherWrite(e)
    PROVE  Inv'
  <1>0. /\ history \in Seq(Entry) /\ history' = Append(history, e)
        /\ UNCHANGED <<receipts, expired, answer, pc, job, expected, context, tries, lock>>
    BY DEF OtherWrite, worker, Inv, TypeOK
  <1>1. e \in Entry /\ ClaimsIn(history') = ClaimsIn(history)
    BY <1>0, ClaimsAppendOther, InterferenceIsOther
  <1>2. history' \in Seq(Entry)
    BY <1>0, <1>1, AppendProperties
  <1>3. TypeOK'
    BY <1>0, <1>2 DEF Inv, TypeOK
  <1>4. ReadsAreOrdered'
    <2> SUFFICES ASSUME NEW w \in Worker
                 PROVE  /\ (pc[w] = "context" => Extends(history, expected[w]))'
                        /\ (pc[w] = "recheck" => /\ Extends(context[w], expected[w])
                                                 /\ Extends(history, context[w]))'
      BY DEF ReadsAreOrdered
    <2> QED  BY <1>0, <1>1, GrowthKeepsReads
  <1>5. DecisionsAreSound' /\ RoundsAreCounted'
    BY <1>0 DEF Inv, DecisionsAreSound, RoundsAreCounted
  <1>6. ProgressIsOnDisk'
    BY <1>0, <1>1 DEF Inv, ProgressIsOnDisk
  <1>7. AdmittedGetCredentials' /\ GrantsAreDurable'
    BY <1>0, <1>1 DEF Inv, AdmittedGetCredentials, GrantsAreDurable
  <1> QED  BY <1>3, <1>4, <1>5, <1>6, <1>7 DEF Inv

\* The group change is an entry like those of other writers.
LEMMA AddToGroupInv ==
    ASSUME Inv, NEW w \in Worker, AddToGroup(w)
    PROVE  Inv'
  <1>0. /\ history \in Seq(Entry) /\ history' \in {history, Append(history, Unrelated)}
        /\ pc' = [pc EXCEPT ![w] = "receipt"] /\ pc[w] = "group"
        /\ UNCHANGED <<receipts, expired, answer, job, expected, context, tries, lock>>
    BY DEF AddToGroup, Inv, TypeOK
  <1>1. Unrelated \in OtherEntries
    BY DEF Unrelated, OtherEntries
  <1>2. Unrelated \in Entry /\ ClaimsIn(history') = ClaimsIn(history)
    BY <1>0, <1>1, ClaimsAppendOther
  <1>3. history' \in Seq(Entry)
    BY <1>0, <1>2, AppendProperties
  <1>4. TypeOK'
    BY <1>0, <1>3 DEF Inv, TypeOK
  <1>5. ReadsAreOrdered'
    <2> SUFFICES ASSUME NEW v \in Worker
                 PROVE  /\ (pc[v] = "context" => Extends(history, expected[v]))'
                        /\ (pc[v] = "recheck" => /\ Extends(context[v], expected[v])
                                                 /\ Extends(history, context[v]))'
      BY DEF ReadsAreOrdered
    <2>1. CASE v = w
      BY <1>0, <2>1 DEF Inv, TypeOK
    <2>2. CASE v # w
      <3>1. pc'[v] = pc[v] /\ expected'[v] = expected[v] /\ context'[v] = context[v]
        BY <1>0, <2>2 DEF Inv, TypeOK
      <3>2. CASE history' = history
        BY <3>1, <3>2 DEF Inv, ReadsAreOrdered
      <3>3. CASE history' = Append(history, Unrelated)
        BY <1>2, <3>1, <3>3, GrowthKeepsReads
      <3> QED  BY <1>0, <3>2, <3>3
    <2> QED  BY <2>1, <2>2
  <1>6. DecisionsAreSound' /\ RoundsAreCounted'
    BY <1>0 DEF Inv, TypeOK, DecisionsAreSound, RoundsAreCounted
  <1>7. ProgressIsOnDisk'
    BY <1>0, <1>2 DEF Inv, TypeOK, ProgressIsOnDisk
  <1>8. AdmittedGetCredentials' /\ GrantsAreDurable'
    BY <1>0, <1>2 DEF Inv, AdmittedGetCredentials, GrantsAreDurable
  <1> QED  BY <1>4, <1>5, <1>6, <1>7, <1>8 DEF Inv

LEMMA AppendAdmissionInv ==
    ASSUME Inv, NEW w \in Worker, AppendAdmission(w)
    PROVE  Inv'
  <1> DEFINE c == job[w]
  <1>0. /\ c \in Claim /\ history \in Seq(Entry)
        /\ tries[w] \in Nat /\ tries[w] < RetryLimit
        /\ pc[w] = "append" /\ Admissible(expected[w], c)
    BY LimitsAreNaturals DEF AppendAdmission, Inv, TypeOK, DecisionsAreSound, RoundsAreCounted
  <1>1. /\ UNCHANGED <<receipts, expired, answer, job, context, lock>>
        /\ expected' = [expected EXCEPT ![w] = <<>>]
    BY DEF AppendAdmission
  <1>2. expected' \in [Worker -> Seq(Entry)]
    BY <1>1 DEF Inv, TypeOK
  <1>3. CASE HistoryUnchanged(w)
    <2>1. /\ history' = Append(history, Admission(c))
          /\ pc' = [pc EXCEPT ![w] = "group"] /\ tries' = tries
      BY <1>3 DEF AppendAdmission
    <2>2. /\ Admission(c) \in Entry
          /\ ClaimsIn(history') = ClaimsIn(history) \cup {c}
      BY <1>0, <2>1, ClaimsAppendAdmission
    <2>3. c \in Sealable
      BY <1>0 DEF Admissible
    <2>4. history' \in Seq(Entry)
      BY <1>0, <2>1, <2>2, AppendProperties
    <2>5. TypeOK'
      BY <1>1, <1>2, <2>1, <2>4 DEF Inv, TypeOK
    <2>6. ReadsAreOrdered'
      <3> SUFFICES ASSUME NEW v \in Worker
                   PROVE  /\ (pc[v] = "context" => Extends(history, expected[v]))'
                          /\ (pc[v] = "recheck" => /\ Extends(context[v], expected[v])
                                                   /\ Extends(history, context[v]))'
        BY DEF ReadsAreOrdered
      <3>1. CASE v = w
        BY <2>1, <3>1 DEF Inv, TypeOK
      <3>2. CASE v # w
        <4>1. pc'[v] = pc[v] /\ expected'[v] = expected[v] /\ context'[v] = context[v]
          BY <1>1, <2>1, <3>2 DEF Inv, TypeOK
        <4> QED  BY <2>1, <2>2, <4>1, GrowthKeepsReads
      <3> QED  BY <3>1, <3>2
    <2>7. DecisionsAreSound'
      BY <1>0, <1>1, <2>1 DEF Inv, TypeOK, DecisionsAreSound
    <2>8. RoundsAreCounted'
      BY <1>0, <2>1 DEF Inv, TypeOK, RoundsAreCounted
    <2>9. ProgressIsOnDisk'
      BY <1>1, <2>1, <2>2 DEF Inv, TypeOK, ProgressIsOnDisk
    <2>10. AdmittedGetCredentials' /\ GrantsAreDurable'
      BY <1>1, <2>2, <2>3 DEF Inv, AdmittedGetCredentials, GrantsAreDurable
    <2> QED  BY <2>5, <2>6, <2>7, <2>8, <2>9, <2>10 DEF Inv
  <1>4. CASE ~HistoryUnchanged(w)
    <2>1. history' = history /\ TryAgain(w)
      BY <1>4 DEF AppendAdmission
    <2>2. /\ pc' = [pc EXCEPT ![w] = pc'[w]]
          /\ pc'[w] \in {"inventory", "busy"}
      BY <2>1 DEF TryAgain, Inv, TypeOK
    <2>3. tries' \in [Worker -> 0..RetryLimit] /\ RoundsAreCounted'
      BY <1>0, <2>1, LimitsAreNaturals DEF TryAgain, Inv, TypeOK, RoundsAreCounted
    <2>4. TypeOK'
      BY <1>1, <1>2, <2>1, <2>2, <2>3 DEF Inv, TypeOK
    <2>5. ReadsAreOrdered'
      BY <1>1, <2>1, <2>2 DEF Inv, TypeOK, ReadsAreOrdered
    <2>6. DecisionsAreSound'
      BY <1>0, <1>1, <2>2 DEF Inv, TypeOK, DecisionsAreSound
    <2>7. ProgressIsOnDisk'
      BY <1>1, <2>1, <2>2 DEF Inv, TypeOK, ProgressIsOnDisk
    <2>8. AdmittedGetCredentials' /\ GrantsAreDurable'
      BY <1>1, <2>1 DEF Inv, AdmittedGetCredentials, GrantsAreDurable
    <2> QED  BY <2>3, <2>4, <2>5, <2>6, <2>7, <2>8 DEF Inv
  <1> QED  BY <1>3, <1>4

LEMMA NextInv ==
    ASSUME Inv, [Next]_vars
    PROVE  Inv'
  <1>1. CASE Next
    BY <1>1, StartInv, ReadInventoryInv, LoadContextInv, RecheckInv, AppendAdmissionInv,
       AddToGroupInv, ReadReceiptInv, StoreReceiptInv, StoreFailsInv, ReplyInv, OtherWriteInv,
       ExpireInv, CrashInv
       DEF Next, Work
  <1>2. CASE UNCHANGED vars
    BY <1>2 DEF vars, disk, worker, bounds, Inv, TypeOK, ReadsAreOrdered, DecisionsAreSound,
                ProgressIsOnDisk, RoundsAreCounted, AdmittedGetCredentials, GrantsAreDurable
  <1> QED  BY <1>1, <1>2

-----------------------------------------------------------------------------
(* The theorems.                                                           *)

\* The inductive invariant of claim_workspace_invite: a worker about to append
\* has decided on the very history that its transaction compares with, and one
\* past the append or the receipt finds it on disk.
THEOREM Invariant == Spec => []Inv
  BY InitInv, NextInv, PTL DEF Spec

\* The state of the claim handler is always of its type; in particular the
\* retry loop never counts beyond INVITE_CLAIM_HISTORY_RETRY_LIMIT.
THEOREM TypeCorrect == Spec => []TypeOK
  <1>1. Inv => TypeOK
    BY DEF Inv
  <1> QED  BY <1>1, Invariant, PTL

\* No use of the invite is consumed by a claim whose response cannot be sealed.
THEOREM Credentials == Spec => []AdmittedGetCredentials
  <1>1. Inv => AdmittedGetCredentials
    BY DEF Inv
  <1> QED  BY <1>1, Invariant, PTL

\* A claimant that was told "granted" is a member on disk and its response is
\* stored, whatever crashes in between.
THEOREM Durable == Spec => []GrantsAreDurable
  <1>1. Inv => GrantsAreDurable
    BY DEF Inv
  <1> QED  BY <1>1, Invariant, PTL

\* What a step does to the history.
LEMMA HistorySteps ==
    ASSUME [Next]_vars
    PROVE  \/ \E w \in Worker : AppendAdmission(w)
           \/ \E e \in OtherEntries : history' = Append(history, e)
           \/ UNCHANGED history
  <1>1. Unrelated \in OtherEntries
    BY DEF Unrelated, OtherEntries
  <1> QED  BY <1>1, InterferenceIsOther
     DEF Next, Work, Start, ReadInventory, LoadContext, Recheck, AddToGroup, ReadReceipt,
         StoreReceipt, StoreFails, Reply, OtherWrite, Expire, Crash, vars, disk

\* An admission uses a device and a request id that no earlier one used.
LEMMA OneUseStep ==
    ASSUME Inv, OneUseEach, [Next]_vars
    PROVE  OneUseEach'
  <1>1. CASE \E w \in Worker : AppendAdmission(w)
    <2>1. PICK w \in Worker : AppendAdmission(w)
      BY <1>1
    <2> DEFINE c == job[w]
    <2>2. c \in Claim /\ history \in Seq(Entry) /\ Admissible(expected[w], c)
      BY <2>1 DEF AppendAdmission, Inv, TypeOK, DecisionsAreSound
    <2>3. CASE HistoryUnchanged(w)
      <3>1. history' = Append(history, Admission(c)) /\ ~Collision(history, c)
        BY <2>1, <2>2, <2>3 DEF AppendAdmission, HistoryUnchanged, Admissible
      <3>2. ClaimsIn(history') = ClaimsIn(history) \cup {c}
        BY <2>2, <3>1, ClaimsAppendAdmission
      <3>3. \A a \in ClaimsIn(history) : a.device = c.device \/ a.request = c.request => a = c
        BY <3>1 DEF Collision
      <3> HIDE DEF c
      <3> QED  BY <3>2, <3>3 DEF OneUseEach
    <2>4. CASE ~HistoryUnchanged(w)
      <3>1. history' = history
        BY <2>1, <2>4 DEF AppendAdmission
      <3> QED  BY <3>1 DEF OneUseEach
    <2> QED  BY <2>3, <2>4
  <1>2. CASE \E e \in OtherEntries : history' = Append(history, e)
    <2>1. ClaimsIn(history') = ClaimsIn(history)
      BY <1>2, ClaimsAppendOther DEF Inv, TypeOK
    <2> QED  BY <2>1 DEF OneUseEach
  <1>3. CASE UNCHANGED history
    BY <1>3 DEF OneUseEach
  <1> QED  BY <1>1, <1>2, <1>3, HistorySteps

\* A worker refuses a claim only in its second look at the history, and then by
\* the history as it is.
LEMMA RefusalsAreVerdicts ==
    ASSUME Inv, [Next]_vars, NEW w \in Worker, pc[w] # "refused", pc'[w] = "refused"
    PROVE  Verdict(history, job[w]) = "refused"
  <1>1. Recheck(w)
    BY DEF Next, Work, Start, ReadInventory, LoadContext, Recheck, AppendAdmission, TryAgain,
           AddToGroup, ReadReceipt, StoreReceipt, StoreFails, Reply, OtherWrite, Expire, Crash,
           vars, worker, Inv, TypeOK
  <1>2. history = expected[w] /\ Verdict(context[w], job[w]) = "refused"
    BY <1>1 DEF Recheck, TryAgain, Inv, TypeOK
  <1>3. context[w] = history
    BY <1>1, <1>2, NothingBetween DEF Recheck, Inv, TypeOK, ReadsAreOrdered
  <1> QED  BY <1>2, <1>3

\* A claim that is delivered again, after a crash, the expiry, the last use or
\* the revocation of the invite, is never refused while its admission is in force.
THEOREM RepeatsAreAnswered == Spec => RepeatedClaimsAreAnswered
  <1>1. Init => OneUseEach
    BY DEF Init, OneUseEach, ClaimsIn, Where
  <1>2. Spec => []OneUseEach
    BY <1>1, OneUseStep, Invariant, PTL DEF Spec
  <1> DEFINE Kept == \A w \in Worker : pc[w] # "refused" /\ pc'[w] = "refused" =>
                        (InForce(history, job[w]) => RecordedByHand(history, job[w]))
  <1>3. Inv /\ OneUseEach /\ [Next]_vars => Kept
    <2> SUFFICES ASSUME Inv, OneUseEach, [Next]_vars, NEW w \in Worker,
                        pc[w] # "refused", pc'[w] = "refused", InForce(history, job[w]),
                        ~RecordedByHand(history, job[w])
                 PROVE  FALSE
      OBVIOUS
    <2> DEFINE c == job[w]
    <2>1. Verdict(history, c) = "refused"
      BY RefusalsAreVerdicts
    <2>2. c \in Claim
      BY DEF Next, Work, Start, ReadInventory, LoadContext, Recheck, AppendAdmission, TryAgain,
             AddToGroup, ReadReceipt, StoreReceipt, StoreFails, Reply, OtherWrite, Expire, Crash,
             vars, worker, Inv, TypeOK, DecisionsAreSound
    <2>3. c \in ClaimsIn(history)
      <3>1. PICK k \in Where(history, "admitted") : history[k] = Admission(c)
        BY DEF InForce
      <3>2. [device |-> history[k].device, request |-> history[k].request] = c
        BY <2>2, <3>1, ClaimsAreClaims DEF Admission
      <3> QED  BY <3>1, <3>2 DEF ClaimsIn
    <2> HIDE DEF c
    <2>4. ~Collision(history, c)
      BY <2>3 DEF Collision, OneUseEach, c
    <2>5. AcceptedBefore(history, c)
      BY <2>4 DEF AcceptedBefore, c
    <2> QED  BY <2>1, <2>5 DEF Verdict
  <1> QED  BY <1>2, <1>3, Invariant, PTL DEF Spec, RepeatedClaimsAreAnswered

-----------------------------------------------------------------------------
(* The refinement.                                                         *)

\* The ledger counts as this module does.
LEMMA SameCount ==
    ASSUME NEW S
    PROVE  Ledger!Cardinality(S) = Cardinality(S)
  BY DEF Ledger!Cardinality, Cardinality

LEMMA InitRefines == Init => Ledger!Init
  <1> SUFFICES ASSUME Init PROVE Ledger!Init
    OBVIOUS
  <1>1. Where(history, "admitted") = {} /\ Where(history, "revoked") = {}
    BY DEF Init, Where
  <1> QED  BY <1>1 DEF Ledger!Init, ClaimsIn, RevokedIn

\* The compare-and-append is the admission of the ledger: what was checked on
\* the copy holds of the history that it extends.
LEMMA AppendAdmissionRefines ==
    ASSUME Inv, NEW w \in Worker, AppendAdmission(w)
    PROVE  [Ledger!Next]_Ledger!ledger
  <1> DEFINE c == job[w]
  <1>0. c \in Claim /\ history \in Seq(Entry) /\ Admissible(expected[w], c)
    BY DEF AppendAdmission, Inv, TypeOK, DecisionsAreSound
  <1>1. CASE HistoryUnchanged(w)
    <2>1. history' = Append(history, Admission(c)) /\ Admissible(history, c)
      BY <1>0, <1>1 DEF AppendAdmission, HistoryUnchanged
    <2>2. /\ ClaimsIn(history') = ClaimsIn(history) \cup {c}
          /\ RevokedIn(history') = RevokedIn(history)
      BY <1>0, <2>1, ClaimsAppendAdmission
    <2>3. Cardinality(ClaimsIn(history)) < MaxUses
      BY <1>0, <2>1, ClaimsAreCounted, LimitsAreNaturals DEF Admissible
    <2>4. \A a \in ClaimsIn(history) : a.device # c.device /\ a.request # c.request
      BY <2>1 DEF Admissible, Collision
    <2>5. ~RevokedIn(history)
      BY <2>1 DEF Admissible
    <2>6. Ledger!Admit(c)
      BY <2>2, <2>3, <2>4, <2>5, SameCount DEF Ledger!Admit
    <2> QED  BY <1>0, <2>6 DEF Ledger!Next
  <1>2. CASE ~HistoryUnchanged(w)
    BY <1>2 DEF AppendAdmission, Ledger!ledger
  <1> QED  BY <1>1, <1>2

\* What other writers append revokes the invite or does nothing to the ledger.
LEMMA OtherEntryRefines ==
    ASSUME Inv, NEW e \in OtherEntries, history' = Append(history, e)
    PROVE  [Ledger!Next]_Ledger!ledger
  <1>1. /\ ClaimsIn(history') = ClaimsIn(history)
        /\ RevokedIn(history) => RevokedIn(history')
    BY ClaimsAppendOther DEF Inv, TypeOK
  <1>2. RevokedIn(history) \in BOOLEAN /\ RevokedIn(history') \in BOOLEAN
    BY DEF RevokedIn
  <1>3. CASE RevokedIn(history')
    BY <1>1, <1>2, <1>3 DEF Ledger!Next, Ledger!Revoke
  <1>4. CASE ~RevokedIn(history')
    BY <1>1, <1>2, <1>4 DEF Ledger!ledger
  <1> QED  BY <1>3, <1>4

LEMMA NextRefines ==
    ASSUME Inv, [Next]_vars
    PROVE  [Ledger!Next]_Ledger!ledger
  <1>1. CASE \E w \in Worker : AppendAdmission(w)
    BY <1>1, AppendAdmissionRefines
  <1>2. CASE \E e \in OtherEntries : history' = Append(history, e)
    BY <1>2, OtherEntryRefines
  <1>3. CASE UNCHANGED history
    BY <1>3 DEF Ledger!ledger
  <1> QED  BY <1>1, <1>2, <1>3, HistorySteps

\* claim_workspace_invite implements the invite ledger: for any number of
\* processes, crashes and interfering writers, an invite never admits more than
\* max_claims, never one device or request id twice, and nobody after it was
\* revoked in this history.
THEOREM Refinement == Spec => ImplementsLedger
  <1>1. Init => Ledger!Init
    BY InitRefines
  <1>2. Inv /\ [Next]_vars => [Ledger!Next]_Ledger!ledger
    BY NextRefines
  <1> QED  BY <1>1, <1>2, Invariant, PTL DEF Spec, ImplementsLedger, Ledger!Spec

=============================================================================
