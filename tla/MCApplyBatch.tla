--------------------------- MODULE MCApplyBatch ---------------------------
(* Histories of five events around one channel, in every order in which a    *)
(* database can return them or part of them.                                 *)
EXTENDS StableScan

CONSTANTS owner, member, guest, c1, c2, m1

Ev(b, a, ps) == [body |-> b, author |-> a, parents |-> ps, broken |-> FALSE]

With(ev, f) == [x \in DOMAIN ev \cup DOMAIN f |-> IF x \in DOMAIN f THEN f[x] ELSE ev[x]]

\* The workspace.
First == {Ev("WorkspaceCreated", owner, {})}

\* The owner invites the member, with or without naming the parent.
Second == {With(Ev("MemberInvited", owner, ps), [device |-> member, role |-> "Member"])
              : ps \in {{}, {1}}}

\* The owner creates a channel, before or after inviting.
Third == {With(Ev("ChannelCreated", owner, ps), [channel |-> c1, private |-> FALSE])
              : ps \in {{1}, {2}}}

\* The member posts in the channel, or defines the same channel concurrently.
Fourth == {With(Ev("MessageCreated", member, ps), [channel |-> c1, message |-> m1])
              : ps \in {{3}, {2, 3}}}
          \cup {With(Ev("ChannelCreated", member, {2}), [channel |-> c1, private |-> TRUE])}

\* The owner removes the member, meanwhile or afterwards, or somebody reacts to the message
\* under a parent that need not be the message, or an event carries a payload
\* that no state accepts, or a direct message leaves out its author.
Fifth == {With(Ev("MemberRemoved", owner, {2}), [device |-> member]),
          With(Ev("MemberRemoved", owner, {2, 4}), [device |-> member]),
          With(Ev("ReactionAdded", member, {3}), [channel |-> c1, message |-> m1]),
          With(Ev("ReactionAdded", owner, {3, 4}), [channel |-> c1, message |-> m1]),
          [Ev("DeviceProfileUpdated", member, {1}) EXCEPT !.broken = TRUE],
          With(Ev("DirectMessageChannelCreated", member, {1}),
               [channel |-> c2, participants |-> {owner, guest}])}

FiveEvents == 1..5

Stories == {<<e1, e2, e3, e4, e5>> : e1 \in First, e2 \in Second, e3 \in Third,
                                     e4 \in Fourth, e5 \in Fifth}

\* All orders of all subsets of the events, and batches of up to four events in
\* which events may occur repeatedly.
SomeOrders == {b \in UNION {[1..n -> FiveEvents] : n \in 0..5} :
                   Len(b) <= 4 \/ Cardinality(Ids(b)) = 5}

=============================================================================
