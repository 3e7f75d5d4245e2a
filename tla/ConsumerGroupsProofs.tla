------------------------ MODULE ConsumerGroupsProofs ------------------------
(***************************************************************************)
(* A partition has at most one owner, no offset is skipped and no cursor   *)
(* leaves its log: for every set of topics, partitions, groups, members    *)
(* and worker threads.                                                     *)
(***************************************************************************)
EXTENDS ConsumerGroups, FiniteSetTheorems, TLAPS

\* A key that partitions_for_topic takes for one of topic t's is the key of a
\* partition of t, and its number is that partition's.
LEMMA KeyOfTopic ==
    ASSUME TopicsApart, logs_ \subseteq Keys, NEW t \in Topics, NEW k \in KeysOf(t)
    PROVE  k[Len(t) + 1] \in Partitions /\ k = Append(t, k[Len(t) + 1])
  <1>1. PICK u \in Topics, p \in Partitions : k = make_key(u, p)
    BY DEF KeysOf, Keys
  <1>2. u = t
    BY <1>1, Zenon DEF KeysOf, TopicsApart
  <1>3. t \in Seq(ToSet(t))
    BY ConsumerGroupsAssumption, Zenon
  <1>. QED  BY <1>1, <1>2, <1>3 DEF make_key

\* A topic has finitely many logs.
LEMMA KeysAreFinite ==
    ASSUME TopicsApart, logs_ \subseteq Keys, NEW t \in Topics
    PROVE  IsFiniteSet(KeysOf(t))
  <1>. DEFINE P == {k[Len(t) + 1] : k \in KeysOf(t)}
              f == [p \in P |-> Append(t, p)]
  <1>1. IsFiniteSet(P)
    BY KeyOfTopic, ConsumerGroupsAssumption, FS_Subset
  <1>2. f \in [P -> KeysOf(t)]
    BY KeyOfTopic, Zenon
  <1>3. \A k \in KeysOf(t) : \E p \in P : f[p] = k
    BY KeyOfTopic, Zenon
  <1>4. f \in Surjection(P, KeysOf(t))
    BY <1>2, <1>3, Zenon DEF Surjection
  <1>. QED  BY <1>1, <1>4, FS_Surjection, Zenon

\* The vector partitions_for_topic returns has every partition once.
LEMMA ListingNamesOnce ==
    ASSUME TopicsApart, logs_ \subseteq Keys, NEW t \in Topics
    PROVE  NamesOnce(partitions_for_topic(t))
  <1>. DEFINE number(k) == k[Len(t) + 1]
              below(q) == {k \in KeysOf(t) : number(k) < q}
              upto(q) == {k \in KeysOf(t) : number(k) <= q}
  <1>1. ASSUME NEW k \in KeysOf(t)
        PROVE  /\ Cardinality(below(number(k))) \in Nat
               /\ Cardinality(upto(number(k))) = Cardinality(below(number(k))) + 1
    <2>1. \A l \in KeysOf(t) : number(l) \in Nat /\ l = Append(t, number(l))
      BY KeyOfTopic, ConsumerGroupsAssumption, Zenon
    <2>2. upto(number(k)) = below(number(k)) \cup {k}
      <3>1. \A l \in KeysOf(t) : number(l) = number(k) => l = k
        BY <2>1, Zenon
      <3>. QED  BY <2>1, <3>1
    <2>3. k \notin below(number(k))
      BY <2>1
    <2>4. IsFiniteSet(below(number(k)))
      BY KeysAreFinite, FS_Subset, Zenon
    <2>5. Cardinality(below(number(k))) \in Nat
      BY <2>4, FS_CardinalityType, Zenon
    <2>. HIDE DEF below, upto, number
    <2>. QED  BY <2>2, <2>3, <2>4, <2>5, FS_AddElement, Zenon
  <1>2. ASSUME NEW x \in partitions_for_topic(t)
        PROVE  \E k \in KeysOf(t) : x = <<Cardinality(below(number(k))), number(k)>>
    <2>1. PICK k \in KeysOf(t) :
              \E i \in Cardinality(below(number(k)))..(Cardinality(upto(number(k))) - 1) :
                  x = <<i, number(k)>>
      BY Zenon DEF partitions_for_topic
    <2>2. PICK i \in Cardinality(below(number(k)))..(Cardinality(upto(number(k))) - 1) :
              x = <<i, number(k)>>
      BY <2>1, Zenon
    <2>. HIDE DEF below, upto, number
    <2>3. i = Cardinality(below(number(k)))
      BY <1>1
    <2>. QED  BY <2>2, <2>3, Zenon
  <1>. HIDE DEF below, number
  <1>. QED  BY <1>2 DEF NamesOnce

\* Members have distinct places in the round robin.
LEMMA RanksDiffer ==
    ASSUME NEW S \in SUBSET Members, NEW m \in S, NEW n \in S, m # n
    PROVE  Cardinality({x \in S : x < m}) # Cardinality({x \in S : x < n})
  <1>1. IsFiniteSet(S) /\ S \subseteq Nat
    BY ConsumerGroupsAssumption, FS_Subset, Zenon
  <1>2. ASSUME NEW a \in S, NEW b \in S, a < b
        PROVE  Cardinality({x \in S : x < a}) # Cardinality({x \in S : x < b})
    <2>. DEFINE A == {x \in S : x < a}  B == {x \in S : x < b}
    <2>1. A \subseteq B /\ a \in B /\ a \notin A
      <3>1. a \in Nat /\ b \in Nat /\ \A x \in S : x \in Nat
        BY <1>1, Zenon
      <3>2. \A x \in S : x < a => x < b
        BY <1>2, <3>1
      <3>3. ~(a < a)
        BY <3>1
      <3>. QED  BY <1>2, <3>2, <3>3, Zenon
    <2>2. IsFiniteSet(B)
      BY <1>1, FS_Subset, Zenon
    <2>. HIDE DEF A, B
    <2>3. Cardinality(A) # Cardinality(B)
      BY <2>1, <2>2, FS_Subset, Zenon
    <2>. QED  BY <2>3, Zenon DEF A, B
  <1>3. m < n \/ n < m
    BY <1>1
  <1>. QED  BY <1>2, <1>3, Zenon

\* rebalance gives no partition of such a listing to two members, and changes
\* nothing but the assignments.
LEMMA RebalanceShares ==
    ASSUME NEW group, DOMAIN group = GroupFields, group.members \subseteq Members,
           NEW partitions, NamesOnce(partitions)
    PROVE  LET r == rebalance(group, partitions)
           IN  /\ DOMAIN r = GroupFields
               /\ r.members = group.members
               /\ r.topic = group.topic
               /\ r.offsets = group.offsets
               /\ \A m, n \in r.members :
                     m # n => r.assignments[m] \cap r.assignments[n] = {}
  <1>. DEFINE rank(m) == Cardinality({x \in group.members : x < m})
              k == Cardinality(group.members)
              share(m) == {x[2] : x \in {y \in partitions : y[1] % k = rank(m)}}
              r == rebalance(group, partitions)
  <1>1. /\ DOMAIN r = GroupFields
        /\ r.members = group.members
        /\ r.topic = group.topic
        /\ r.offsets = group.offsets
        /\ r.assignments = [m \in group.members |-> share(m)]
    BY Zenon DEF rebalance, GroupFields
  <1>2. ASSUME NEW m \in group.members, NEW n \in group.members, m # n
        PROVE  share(m) \cap share(n) = {}
    <2>1. rank(m) # rank(n)
      BY <1>2, RanksDiffer, Zenon
    <2>. HIDE DEF rank, k
    <2>. QED  BY <2>1, Zenon DEF NamesOnce
  <1>. HIDE DEF share, r
  <1>3. \A m, n \in r.members : m # n => r.assignments[m] \cap r.assignments[n] = {}
    BY <1>1, <1>2
  <1>. QED  BY <1>1, <1>3, Zenon DEF r

\* A broker starts with no groups and no requests.
LEMMA OwnerInit == Init => OwnerInv
  <1>. SUFFICES ASSUME Init PROVE OwnerInv
    BY Zenon
  <1>1. \A g \in Groups : groups_[g] = NoGroup
    BY Zenon DEF Init
  <1>2. DOMAIN NoGroup = GroupFields /\ NoGroup.members = {}
    BY Zenon DEF NoGroup, GroupFields
  <1>3. \A w \in Workers : call[w].op = "none"
    BY Zenon DEF Init, Idle
  <1>. QED  BY <1>1, <1>2, <1>3, Zenon DEF Init, OwnerInv, AtMostOneOwner

\* The part of the invariant that is about one group.
OwnersApart(group) ==
    /\ DOMAIN group = GroupFields
    /\ group.members \subseteq Members
    /\ \A m, n \in group.members :
          m # n => group.assignments[m] \cap group.assignments[n] = {}

\* The invariant gives it for every group.
LEMMA OwnersOfGroups ==
    ASSUME OwnerInv PROVE \A g \in Groups : OwnersApart(groups_[g])
  BY Zenon DEF OwnerInv, OwnersApart, AtMostOneOwner

\* A group that is not in the map has no owners.
LEMMA NoGroupApart == OwnersApart(NoGroup)
  BY Zenon DEF OwnersApart, NoGroup, GroupFields

\* What RebalanceShares says of rebalance, in these terms.
LEMMA RebalanceApart ==
    ASSUME NEW group, DOMAIN group = GroupFields, group.members \subseteq Members,
           NEW partitions, NamesOnce(partitions)
    PROVE  OwnersApart(rebalance(group, partitions))
  BY RebalanceShares, Zenon DEF OwnersApart

\* join keeps every group's partitions apart.
LEMMA JoinApart ==
    ASSUME OwnerInv, NEW g \in Groups, NEW m \in Members, NEW t, NEW partitions,
           NamesOnce(partitions), join(g, m, t, partitions)
    PROVE  DOMAIN groups_' = Groups /\ \A h \in Groups : OwnersApart(groups_'[h])
  <1>. DEFINE group == IF groups_[g].members = {}
                       THEN [NoGroup EXCEPT !.topic = t] ELSE groups_[g]
              joined == [group EXCEPT !.members = @ \cup {m}]
  <1>1. \A h \in Groups : OwnersApart(groups_[h])
    BY OwnersOfGroups, Zenon
  <1>2. DOMAIN group = GroupFields /\ group.members \subseteq Members
    BY <1>1, Zenon DEF NoGroup, GroupFields, OwnersApart
  <1>. HIDE DEF group
  <1>3. DOMAIN joined = GroupFields /\ joined.members = group.members \cup {m}
    BY <1>2, Zenon DEF GroupFields
  <1>. HIDE DEF joined
  <1>4. OwnersApart(rebalance(joined, partitions))
    BY <1>2, <1>3, RebalanceApart, Zenon
  <1>5. \/ groups_' = groups_
        \/ groups_' = [groups_ EXCEPT ![g] = rebalance(joined, partitions)]
    BY Zenon DEF join, group, joined
  <1>. QED  BY <1>1, <1>4, <1>5, Zenon DEF OwnerInv

\* leave does too, whatever topic the listing is of.
LEMMA LeaveApart ==
    ASSUME OwnerInv, NEW g \in Groups, NEW m, NEW partitions,
           NamesOnce(partitions), leave(g, m, partitions)
    PROVE  DOMAIN groups_' = Groups /\ \A h \in Groups : OwnersApart(groups_'[h])
  <1>. DEFINE left == [groups_[g] EXCEPT !.members = @ \ {m}]
  <1>1. \A h \in Groups : OwnersApart(groups_[h])
    BY OwnersOfGroups, Zenon
  <1>2. DOMAIN left = GroupFields /\ left.members = groups_[g].members \ {m}
    BY <1>1, Zenon DEF OwnersApart, GroupFields
  <1>. HIDE DEF left
  <1>3. OwnersApart(rebalance(left, partitions))
    BY <1>1, <1>2, RebalanceApart, Zenon DEF OwnersApart
  <1>4. \/ groups_' = [groups_ EXCEPT ![g] = NoGroup]
        \/ groups_' = [groups_ EXCEPT ![g] = rebalance(left, partitions)]
    BY Zenon DEF leave, left
  <1>. QED  BY <1>1, <1>3, <1>4, NoGroupApart, Zenon DEF OwnerInv

\* And so does refresh_topic.
LEMMA RefreshApart ==
    ASSUME OwnerInv, NEW t, NEW partitions, NamesOnce(partitions),
           refresh_topic(t, partitions)
    PROVE  DOMAIN groups_' = Groups /\ \A h \in Groups : OwnersApart(groups_'[h])
  <1>1. \A h \in Groups : OwnersApart(groups_[h])
    BY OwnersOfGroups, Zenon
  <1>2. \A h \in Groups : OwnersApart(rebalance(groups_[h], partitions))
    BY <1>1, RebalanceApart, Zenon DEF OwnersApart
  <1>. QED  BY <1>1, <1>2, Zenon DEF refresh_topic

\* commit leaves the assignments alone.
LEMMA CommitApart ==
    ASSUME OwnerInv, NEW g, NEW m, NEW t, NEW p, NEW o,
           commit(g, m, t, p, o)
    PROVE  DOMAIN groups_' = Groups /\ \A h \in Groups : OwnersApart(groups_'[h])
  <1>1. \A h \in Groups : OwnersApart(groups_[h])
    BY OwnersOfGroups, Zenon
  <1>2. CASE groups_' = groups_
    BY <1>1, <1>2, Zenon DEF OwnerInv
  <1>3. ASSUME NEW offsets, groups_' = [groups_ EXCEPT ![g].offsets = offsets]
        PROVE  DOMAIN groups_' = Groups /\ \A h \in Groups : OwnersApart(groups_'[h])
    <2>1. /\ DOMAIN groups_' = Groups
          /\ \A h \in Groups \ {g} : groups_'[h] = groups_[h]
          /\ g \in Groups => groups_'[g] = [groups_[g] EXCEPT !.offsets = offsets]
      BY <1>3, Zenon DEF OwnerInv
    <2>2. g \in Groups => OwnersApart([groups_[g] EXCEPT !.offsets = offsets])
      BY <1>1, Zenon DEF OwnersApart, GroupFields
    <2>. QED  BY <1>1, <2>1, <2>2, Zenon
  <1>. QED  BY <1>2, <1>3, Zenon DEF commit

\* The part of the invariant that is about one worker's request.
CallNamesOnce(c) ==
    /\ c.op = "appended" => c.topic \in Topics
    /\ c.op \in {"listed", "join", "leave"} => NamesOnce(c.partitions)
    /\ c.op \in {"join", "leave"} => c.group \in Groups /\ c.member \in Members

\* What an action has to show: w's request goes on as c, and the rest is kept.
LEMMA OwnerKept ==
    ASSUME OwnerInv, NEW w \in Workers, NEW c, CallNamesOnce(c), Serve(w, c),
           logs_' \subseteq Keys, DOMAIN groups_' = Groups,
           \A g \in Groups : OwnersApart(groups_'[g])
    PROVE  OwnerInv'
  <1>1. DOMAIN call' = Workers /\ \A v \in Workers : CallNamesOnce(call'[v])
    BY Zenon DEF OwnerInv, CallNamesOnce, Serve
  <1>2. AtMostOneOwner'
    BY Zenon DEF AtMostOneOwner, OwnersApart
  <1>. QED  BY <1>1, <1>2, Zenon DEF OwnerInv, CallNamesOnce, OwnersApart

\* Every step of every handler keeps the invariant.
LEMMA OwnerStep ==
    ASSUME TopicsApart PROVE OwnerInv /\ [Next]_cgVars => OwnerInv'
  <1>. SUFFICES ASSUME OwnerInv, [Next]_cgVars PROVE OwnerInv'
    BY Zenon
  <1>0. /\ logs_ \subseteq Keys /\ DOMAIN groups_ = Groups
        /\ \A g \in Groups : OwnersApart(groups_[g])
        /\ \A w \in Workers : CallNamesOnce(call[w])
        /\ CallNamesOnce(Idle)
    BY OwnersOfGroups, Zenon DEF OwnerInv, CallNamesOnce, Idle
  <1>1. ASSUME NEW t \in Topics PROVE NamesOnce(partitions_for_topic(t))
    BY <1>0, ListingNamesOnce, Zenon
  <1>2. ASSUME NEW w \in Workers, NEW t \in Topics, NEW p \in Partitions,
               handle_produce_append(w, t, p)
        PROVE  OwnerInv'
    <2>. DEFINE c == [op |-> "appended", topic |-> t, key |-> make_key(t, p),
                      offset |-> records[make_key(t, p)]]
    <2>1. CallNamesOnce(c)
      BY Zenon DEF CallNamesOnce
    <2>. HIDE DEF c
    <2>2. Serve(w, c) /\ UNCHANGED groups_ /\ logs_' \subseteq Keys
      BY <1>0, <1>2 DEF handle_produce_append, c, Keys
    <2>. QED  BY <1>0, <2>1, <2>2, OwnerKept, Zenon
  <1>3. ASSUME NEW w \in Workers, handle_produce_refresh(w) PROVE OwnerInv'
    <2>. DEFINE c == [op |-> "refreshed", key |-> call[w].key, offset |-> call[w].offset]
    <2>1. CallNamesOnce(c)
      BY Zenon DEF CallNamesOnce
    <2>. HIDE DEF c
    <2>2. DOMAIN groups_' = Groups /\ \A h \in Groups : OwnersApart(groups_'[h])
      <3>1. NamesOnce(call[w].partitions)
        BY <1>0, <1>3, Zenon DEF handle_produce_refresh, CallNamesOnce
      <3>. QED  BY <1>3, <3>1, RefreshApart, Zenon DEF handle_produce_refresh
    <2>3. Serve(w, c) /\ UNCHANGED logs_
      BY <1>3, Zenon DEF handle_produce_refresh, c, logVars
    <2>. QED  BY <1>0, <2>1, <2>2, <2>3, OwnerKept, Zenon
  <1>4. ASSUME NEW w \in Workers, handle_join_group_locked(w) PROVE OwnerInv'
    <2>1. /\ NamesOnce(call[w].partitions)
          /\ call[w].group \in Groups /\ call[w].member \in Members
      BY <1>0, <1>4, Zenon DEF handle_join_group_locked, CallNamesOnce
    <2>2. DOMAIN groups_' = Groups /\ \A h \in Groups : OwnersApart(groups_'[h])
      BY <1>4, <2>1, JoinApart, Zenon DEF handle_join_group_locked
    <2>3. Serve(w, Idle) /\ UNCHANGED logs_
      BY <1>4, Zenon DEF handle_join_group_locked, Served, logVars
    <2>. QED  BY <1>0, <2>2, <2>3, OwnerKept, Zenon
  <1>5. ASSUME NEW w \in Workers, handle_leave_group_locked(w) PROVE OwnerInv'
    <2>1. NamesOnce(call[w].partitions) /\ call[w].group \in Groups
      BY <1>0, <1>5, Zenon DEF handle_leave_group_locked, CallNamesOnce
    <2>2. DOMAIN groups_' = Groups /\ \A h \in Groups : OwnersApart(groups_'[h])
      BY <1>5, <2>1, LeaveApart, Zenon DEF handle_leave_group_locked
    <2>3. Serve(w, Idle) /\ UNCHANGED logs_
      BY <1>5, Zenon DEF handle_leave_group_locked, Served, logVars
    <2>. QED  BY <1>0, <2>2, <2>3, OwnerKept, Zenon
  <1>6. ASSUME NEW w \in Workers, NEW c, CallNamesOnce(c), Serve(w, c),
               UNCHANGED <<logs_, groups_>>
        PROVE  OwnerInv'
    BY <1>0, <1>6, OwnerKept, Zenon
  <1>7. ASSUME NEW w \in Workers, handle_produce_list(w) \/ handle_produce_replicate(w)
        PROVE  OwnerInv'
    <2>1. CASE handle_produce_replicate(w)
      BY <1>0, <1>6, <2>1, Zenon DEF handle_produce_replicate, Served
    <2>2. CASE handle_produce_list(w)
      <3>. DEFINE c == [op |-> "listed", topic |-> call[w].topic, key |-> call[w].key,
                        offset |-> call[w].offset,
                        partitions |-> partitions_for_topic(call[w].topic)]
      <3>1. call[w].topic \in Topics
        BY <1>0, <2>2, Zenon DEF handle_produce_list, CallNamesOnce
      <3>2. CallNamesOnce(c)
        BY <1>1, <3>1, Zenon DEF CallNamesOnce
      <3>. HIDE DEF c
      <3>3. Serve(w, c) /\ UNCHANGED <<logs_, groups_>>
        BY <2>2, Zenon DEF handle_produce_list, c, logVars
      <3>. QED  BY <1>6, <3>2, <3>3, Zenon
    <2>. QED  BY <1>7, <2>1, <2>2, Zenon
  <1>8. ASSUME NEW w \in Workers, NEW g \in Groups, NEW m \in Members, NEW t \in Topics,
               handle_join_group(w, g, m, t) \/ handle_leave_group(w, g, m, t)
        PROVE  OwnerInv'
    <2>. DEFINE c == [op |-> "join", group |-> g, member |-> m, topic |-> t,
                      partitions |-> partitions_for_topic(t)]
                d == [op |-> "leave", group |-> g, member |-> m,
                      partitions |-> partitions_for_topic(t)]
    <2>1. CallNamesOnce(c) /\ CallNamesOnce(d)
      BY <1>1, Zenon DEF CallNamesOnce
    <2>. HIDE DEF c, d
    <2>2. (Serve(w, c) \/ Serve(w, d)) /\ UNCHANGED <<logs_, groups_>>
      BY <1>8, Zenon DEF handle_join_group, handle_leave_group, c, d, logVars
    <2>. QED  BY <1>6, <2>1, <2>2, Zenon
  <1>9. ASSUME NEW w \in Workers, NEW g \in Groups, NEW m \in Members, NEW t \in Topics,
               NEW p \in Partitions, handle_group_fetch(w, g, m, t, p)
        PROVE  OwnerInv'
    <2>. DEFINE c == [op |-> "fetch", group |-> g, member |-> m, topic |-> t,
                      partition |-> p]
    <2>1. CallNamesOnce(c)
      BY Zenon DEF CallNamesOnce
    <2>. HIDE DEF c
    <2>2. Serve(w, c) /\ UNCHANGED <<logs_, groups_>>
      BY <1>9, Zenon DEF handle_group_fetch, c, logVars
    <2>. QED  BY <1>6, <2>1, <2>2, Zenon
  <1>10. ASSUME NEW w \in Workers, handle_group_fetch_offset(w) PROVE OwnerInv'
    <2>. DEFINE o == next_offset(call[w].group, call[w].topic, call[w].partition)
                c == [op |-> "read", member |-> call[w].member,
                      record |-> <<call[w].group, call[w].topic, call[w].partition, o>>]
    <2>1. CallNamesOnce(c)
      BY Zenon DEF CallNamesOnce
    <2>. HIDE DEF c
    <2>2. Serve(w, c) /\ UNCHANGED <<logs_, groups_>>
      BY <1>10, Zenon DEF handle_group_fetch_offset, c, logVars
    <2>. QED  BY <1>6, <2>1, <2>2, Zenon
  <1>11. ASSUME NEW w \in Workers, handle_group_fetch_read(w) PROVE OwnerInv'
    BY <1>0, <1>6, <1>11, Zenon DEF handle_group_fetch_read, Served, logVars
  <1>12. ASSUME NEW m \in Members, NEW r, handle_commit_offset(m, r) PROVE OwnerInv'
    <2>1. DOMAIN groups_' = Groups /\ \A h \in Groups : OwnersApart(groups_'[h])
      BY <1>12, CommitApart, Zenon DEF handle_commit_offset
    <2>. QED  BY <1>12, <2>1, Zenon DEF handle_commit_offset, OwnerInv, AtMostOneOwner,
                OwnersApart, logVars
  <1>13. CASE restart
    <2>1. \A g \in Groups : groups_'[g] = NoGroup
      BY <1>13, Zenon DEF restart
    <2>2. \A w \in Workers : call'[w] = Idle
      BY <1>13, Zenon DEF restart
    <2>. QED  BY <1>0, <1>13, <2>1, <2>2, NoGroupApart, Zenon
                DEF restart, OwnerInv, AtMostOneOwner, OwnersApart, CallNamesOnce
  <1>14. CASE UNCHANGED cgVars
    BY <1>14 DEF cgVars, logVars, OwnerInv, AtMostOneOwner, Keys, NamesOnce
  <1>. QED  BY <1>2, <1>3, <1>4, <1>5, <1>7, <1>8, <1>9, <1>10, <1>11, <1>12, <1>13,
               <1>14, Zenon DEF Next, Produce, GroupRequest

\* ConsumerGroupManager's promise (consumer_group_manager.h:11): whatever the
\* interleaving of the handlers, the listings they carry and the restarts, no
\* partition has two owners, provided that no topic's keys can be taken for
\* another's (make_key and partitions_for_topic).
THEOREM OneOwner ==
    ASSUME TopicsApart PROVE Spec => []AtMostOneOwner
  <1>1. OwnerInv => AtMostOneOwner
    BY Zenon DEF OwnerInv
  <1>. QED  BY <1>1, OwnerInit, OwnerStep, PTL DEF Spec
-----------------------------------------------------------------------------
(* No offset is skipped.  done is processed, before or after a step.       *)

\* Every offset below r's is in done.
ReachedIn(r, done) == \A o \in 0..(r[4] - 1) : <<r[1], r[2], r[3], o>> \in done

\* Every offset below the cursors of group g is in done.
CursorsIn(g, group, done) ==
    /\ DOMAIN group = GroupFields
    /\ \A p \in DOMAIN group.offsets :
          group.offsets[p] \in Nat /\ ReachedIn(<<g, group.topic, p, group.offsets[p]>>, done)

\* What a worker carries to a later step of GROUP_FETCH is in done.
CallIn(c, done) ==
    /\ c.op \in {"join", "leave"} => c.group \in Groups
    /\ c.op = "fetch" => /\ c.group \in Groups /\ c.topic \in Topics
                         /\ c.partition \in Partitions /\ c.member \in Members
    /\ c.op = "read" => /\ c.record \in Records /\ c.member \in Members
                        /\ ReachedIn(c.record, done)

\* The invariant in these terms.
LEMMA CursorParts ==
    CursorInv <=> /\ DOMAIN groups_ = Groups /\ DOMAIN call = Workers
                  /\ DOMAIN received = Members
                  /\ \A g \in Groups : CursorsIn(g, groups_[g], processed)
                  /\ \A w \in Workers : CallIn(call[w], processed)
                  /\ \A m \in Members : \A r \in received[m] :
                        r \in Records /\ ReachedIn(r, processed)
  BY Zenon DEF CursorInv, CursorsIn, CallIn, ReachedIn, Reached, AtLeastOnce

\* The same after a step.
LEMMA CursorPartsNext ==
    ASSUME DOMAIN groups_' = Groups, DOMAIN call' = Workers, DOMAIN received' = Members,
           \A g \in Groups : CursorsIn(g, groups_'[g], processed'),
           \A w \in Workers : CallIn(call'[w], processed'),
           \A m \in Members : \A r \in received'[m] : r \in Records /\ ReachedIn(r, processed')
    PROVE  CursorInv'
  BY Zenon DEF CursorInv, CursorsIn, CallIn, ReachedIn, Reached, AtLeastOnce

\* A new group has no cursors.
LEMMA NoGroupCursors ==
    ASSUME NEW g, NEW t, NEW done
    PROVE  CursorsIn(g, NoGroup, done) /\ CursorsIn(g, [NoGroup EXCEPT !.topic = t], done)
  BY DEF CursorsIn, NoGroup, GroupFields

\* Neither rebalance nor a change of the members moves a cursor.
LEMMA RebalanceCursors ==
    ASSUME NEW g, NEW group, NEW done, CursorsIn(g, group, done), NEW partitions
    PROVE  CursorsIn(g, rebalance(group, partitions), done)
  <1>1. /\ DOMAIN rebalance(group, partitions) = GroupFields
        /\ rebalance(group, partitions).topic = group.topic
        /\ rebalance(group, partitions).offsets = group.offsets
    BY Zenon DEF rebalance, GroupFields, CursorsIn
  <1>. QED  BY <1>1, Zenon DEF CursorsIn

\* The members map holds no cursors: join and leave change it alone first.
LEMMA MembersCursors ==
    ASSUME NEW g, NEW group, NEW done, CursorsIn(g, group, done), NEW S
    PROVE  CursorsIn(g, [group EXCEPT !.members = S], done)
  BY Zenon DEF CursorsIn, GroupFields

\* join, leave and refresh_topic keep or drop cursors.
LEMMA GroupsCursors ==
    ASSUME CursorInv, NEW partitions, NEW t, NEW m,
           \/ refresh_topic(t, partitions)
           \/ \E g \in Groups : join(g, m, t, partitions) \/ leave(g, m, partitions)
    PROVE  DOMAIN groups_' = Groups /\ \A h \in Groups : CursorsIn(h, groups_'[h], processed)
  <1>1. DOMAIN groups_ = Groups /\ \A h \in Groups : CursorsIn(h, groups_[h], processed)
    BY CursorParts, Zenon
  <1>2. CASE refresh_topic(t, partitions)
    BY <1>1, <1>2, RebalanceCursors, Zenon DEF refresh_topic
  <1>3. ASSUME NEW g \in Groups, join(g, m, t, partitions)
        PROVE  DOMAIN groups_' = Groups /\ \A h \in Groups : CursorsIn(h, groups_'[h], processed)
    <2>. DEFINE group == IF groups_[g].members = {}
                         THEN [NoGroup EXCEPT !.topic = t] ELSE groups_[g]
                joined == [group EXCEPT !.members = @ \cup {m}]
    <2>1. CursorsIn(g, group, processed)
      BY <1>1, NoGroupCursors, Zenon
    <2>. HIDE DEF group
    <2>2. CursorsIn(g, joined, processed)
      BY <2>1, MembersCursors, Zenon
    <2>. HIDE DEF joined
    <2>3. CursorsIn(g, rebalance(joined, partitions), processed)
      BY <2>2, RebalanceCursors, Zenon
    <2>4. \/ groups_' = groups_
          \/ groups_' = [groups_ EXCEPT ![g] = rebalance(joined, partitions)]
      BY <1>3, Zenon DEF join, group, joined
    <2>. QED  BY <1>1, <2>3, <2>4, Zenon
  <1>4. ASSUME NEW g \in Groups, leave(g, m, partitions)
        PROVE  DOMAIN groups_' = Groups /\ \A h \in Groups : CursorsIn(h, groups_'[h], processed)
    <2>. DEFINE left == [groups_[g] EXCEPT !.members = @ \ {m}]
    <2>1. CursorsIn(g, left, processed)
      BY <1>1, MembersCursors, Zenon
    <2>. HIDE DEF left
    <2>2. CursorsIn(g, rebalance(left, partitions), processed)
      BY <2>1, RebalanceCursors, Zenon
    <2>3. \/ groups_' = [groups_ EXCEPT ![g] = NoGroup]
          \/ groups_' = [groups_ EXCEPT ![g] = rebalance(left, partitions)]
      BY <1>4, Zenon DEF leave, left
    <2>. QED  BY <1>1, <2>2, <2>3, NoGroupCursors, Zenon
  <1>. QED  BY <1>2, <1>3, <1>4, Zenon

\* std::max in commit and mark_committed.
LEMMA MaxOfTwo ==
    ASSUME NEW a \in Nat, NEW b \in Nat
    PROVE  Max({a, b}) \in {a, b} /\ Max({a, b}) >= a /\ Max({a, b}) >= b
  <1>1. \E x \in {a, b} : \A y \in {a, b} : x >= y
    <2>1. CASE a >= b
      BY <2>1
    <2>2. CASE b >= a
      BY <2>2
    <2>. QED  BY <2>1, <2>2
  <1>. QED  BY <1>1, Zenon DEF Max

\* done only grows.
LEMMA ReachedGrows ==
    ASSUME NEW done, NEW more, done \subseteq more
    PROVE  /\ \A r : ReachedIn(r, done) => ReachedIn(r, more)
           /\ \A g, group : CursorsIn(g, group, done) => CursorsIn(g, group, more)
           /\ \A c : CallIn(c, done) => CallIn(c, more)
  BY DEF ReachedIn, CursorsIn, CallIn

\* commit moves a cursor past an offset its member has fetched, when every
\* lower one had been reached.
LEMMA CommitCursors ==
    ASSUME CursorInv, NEW m \in Members, NEW r \in received[m], handle_commit_offset(m, r)
    PROVE  CursorInv'
  <1>1. /\ DOMAIN groups_ = Groups /\ DOMAIN call = Workers /\ DOMAIN received = Members
        /\ \A h \in Groups : CursorsIn(h, groups_[h], processed)
        /\ \A w \in Workers : CallIn(call[w], processed)
        /\ \A n \in Members : \A q \in received[n] : q \in Records /\ ReachedIn(q, processed)
    BY CursorParts, Zenon
  <1>2. PICK g \in Groups, t \in Topics, p \in Partitions, o \in Nat : r = <<g, t, p, o>>
    BY <1>1 DEF Records
  <1>3. processed \subseteq processed' /\ UNCHANGED <<call, received>>
    BY Zenon DEF handle_commit_offset
  <1>4. CASE ~is_assigned(g, m, t, p)
    <2>1. UNCHANGED <<groups_, processed>>
      BY <1>2, <1>4, Zenon DEF handle_commit_offset, commit
    <2>. QED  BY <1>1, <1>3, <2>1, CursorPartsNext, Zenon
  <1>5. CASE is_assigned(g, m, t, p)
    <2>. DEFINE group == groups_[g]
                next == next_offset(g, t, p)
                new == Max({next, o + 1})
                offsets == [q \in DOMAIN group.offsets \cup {p} |->
                              IF q = p THEN new ELSE group.offsets[q]]
    <2>1. /\ groups_' = [groups_ EXCEPT ![g].offsets = offsets]
          /\ processed' = processed \cup {r} /\ group.topic = t
      BY <1>2, <1>5, Zenon DEF handle_commit_offset, commit, is_assigned
    <2>2. next \in Nat /\ ReachedIn(<<g, t, p, next>>, processed)
      <3>1. CASE p \in DOMAIN group.offsets
        BY <1>1, <2>1, <3>1, Zenon DEF next_offset, CursorsIn
      <3>2. CASE p \notin DOMAIN group.offsets
        BY <3>2 DEF next_offset, ReachedIn
      <3>. QED  BY <3>1, <3>2, Zenon
    <2>3. new \in Nat /\ ReachedIn(<<g, t, p, new>>, processed')
      <3>1. ReachedIn(<<g, t, p, o>>, processed)
        BY <1>1, <1>2, Zenon
      <3>2. ReachedIn(<<g, t, p, o + 1>>, processed')
        <4>. SUFFICES ASSUME NEW k \in 0..o PROVE <<g, t, p, k>> \in processed'
          BY DEF ReachedIn
        <4>1. CASE k = o
          BY <1>2, <2>1, <4>1, Zenon
        <4>2. CASE k \in 0..(o - 1)
          BY <2>1, <3>1, <4>2, Zenon DEF ReachedIn
        <4>. QED  BY <4>1, <4>2
      <3>3. ReachedIn(<<g, t, p, next>>, processed')
        BY <1>3, <2>2, ReachedGrows, Zenon
      <3>. HIDE DEF next
      <3>4. new \in {next, o + 1}
        BY <2>2, MaxOfTwo
      <3>. HIDE DEF new
      <3>. QED  BY <2>2, <3>2, <3>3, <3>4
    <2>. HIDE DEF new
    <2>4. CursorsIn(g, [group EXCEPT !.offsets = offsets], processed')
      <3>1. /\ DOMAIN group = GroupFields
            /\ \A q \in DOMAIN group.offsets :
                 /\ group.offsets[q] \in Nat
                 /\ ReachedIn(<<g, t, q, group.offsets[q]>>, processed')
        BY <1>1, <1>3, <2>1, ReachedGrows, Zenon DEF CursorsIn
      <3>. HIDE DEF group
      <3>2. \A q \in DOMAIN offsets :
               offsets[q] \in Nat /\ ReachedIn(<<g, t, q, offsets[q]>>, processed')
        BY <2>3, <3>1, Zenon
      <3>. HIDE DEF offsets
      <3>3. /\ DOMAIN [group EXCEPT !.offsets = offsets] = GroupFields
            /\ [group EXCEPT !.offsets = offsets].offsets = offsets
            /\ [group EXCEPT !.offsets = offsets].topic = t
        BY <2>1, <3>1, Zenon DEF GroupFields
      <3>. QED  BY <3>2, <3>3, Zenon DEF CursorsIn
    <2>. HIDE DEF offsets
    <2>5. /\ DOMAIN groups_' = Groups
          /\ groups_'[g] = [group EXCEPT !.offsets = offsets]
          /\ \A h \in Groups \ {g} : groups_'[h] = groups_[h]
      BY <1>1, <2>1, Zenon
    <2>6. \A h \in Groups : CursorsIn(h, groups_'[h], processed')
      BY <1>1, <1>3, <2>4, <2>5, ReachedGrows, Zenon
    <2>. QED  BY <1>1, <1>3, <2>5, <2>6, ReachedGrows, CursorPartsNext, Zenon
  <1>. QED  BY <1>4, <1>5, Zenon

\* What an action has to show: w's request goes on as c, and the rest is kept.
LEMMA CursorKept ==
    ASSUME CursorInv, NEW w \in Workers, NEW c, CallIn(c, processed), Serve(w, c),
           DOMAIN groups_' = Groups, UNCHANGED <<received, processed>>,
           \A g \in Groups : CursorsIn(g, groups_'[g], processed)
    PROVE  CursorInv'
  <1>1. DOMAIN call' = Workers /\ \A v \in Workers : CallIn(call'[v], processed)
    BY CursorParts, Zenon DEF Serve
  <1>. QED  BY <1>1, CursorParts, CursorPartsNext, Zenon

\* A broker starts with no cursors and nothing delivered.
LEMMA CursorInit == Init => CursorInv
  <1>. SUFFICES ASSUME Init PROVE CursorInv
    BY Zenon
  <1>1. \A g \in Groups : CursorsIn(g, groups_[g], processed)
    BY NoGroupCursors, Zenon DEF Init
  <1>2. \A w \in Workers : CallIn(call[w], processed)
    BY Zenon DEF Init, Idle, CallIn
  <1>. QED  BY <1>1, <1>2, CursorParts, Zenon DEF Init

\* Every step of every handler keeps the invariant.
LEMMA CursorStep == CursorInv /\ [Next]_cgVars => CursorInv'
  <1>. SUFFICES ASSUME CursorInv, [Next]_cgVars PROVE CursorInv'
    BY Zenon
  <1>0. /\ DOMAIN groups_ = Groups /\ DOMAIN call = Workers /\ DOMAIN received = Members
        /\ \A g \in Groups : CursorsIn(g, groups_[g], processed)
        /\ \A w \in Workers : CallIn(call[w], processed)
        /\ \A m \in Members : \A r \in received[m] : r \in Records /\ ReachedIn(r, processed)
        /\ CallIn(Idle, processed)
    BY CursorParts, Zenon DEF CallIn, Idle
  <1>1. ASSUME NEW w \in Workers, NEW c, CallIn(c, processed), Serve(w, c),
               UNCHANGED <<groups_, received, processed>>
        PROVE  CursorInv'
    BY <1>0, <1>1, CursorKept, Zenon
  <1>2. ASSUME NEW w \in Workers, NEW t \in Topics, NEW p \in Partitions,
               handle_produce_append(w, t, p)
        PROVE  CursorInv'
    <2>. DEFINE c == [op |-> "appended", topic |-> t, key |-> make_key(t, p),
                      offset |-> records[make_key(t, p)]]
    <2>1. CallIn(c, processed)
      BY Zenon DEF CallIn
    <2>. HIDE DEF c
    <2>. QED  BY <1>1, <1>2, <2>1, Zenon DEF handle_produce_append, c
  <1>3. ASSUME NEW w \in Workers, handle_produce_list(w) PROVE CursorInv'
    <2>. DEFINE c == [op |-> "listed", topic |-> call[w].topic, key |-> call[w].key,
                      offset |-> call[w].offset,
                      partitions |-> partitions_for_topic(call[w].topic)]
    <2>1. CallIn(c, processed)
      BY Zenon DEF CallIn
    <2>. HIDE DEF c
    <2>. QED  BY <1>1, <1>3, <2>1, Zenon DEF handle_produce_list, c
  <1>4. ASSUME NEW w \in Workers, handle_produce_refresh(w) PROVE CursorInv'
    <2>. DEFINE c == [op |-> "refreshed", key |-> call[w].key, offset |-> call[w].offset]
    <2>1. CallIn(c, processed)
      BY Zenon DEF CallIn
    <2>. HIDE DEF c
    <2>2. Serve(w, c) /\ UNCHANGED <<received, processed>>
      BY <1>4, Zenon DEF handle_produce_refresh, c
    <2>3. DOMAIN groups_' = Groups /\ \A h \in Groups : CursorsIn(h, groups_'[h], processed)
      BY <1>4, GroupsCursors, Zenon DEF handle_produce_refresh
    <2>. QED  BY <2>1, <2>2, <2>3, CursorKept, Zenon
  <1>5. ASSUME NEW w \in Workers, handle_produce_replicate(w) PROVE CursorInv'
    BY <1>0, <1>1, <1>5, Zenon DEF handle_produce_replicate, Served
  <1>6. ASSUME NEW w \in Workers, NEW g \in Groups, NEW m \in Members, NEW t \in Topics,
               handle_join_group(w, g, m, t) \/ handle_leave_group(w, g, m, t)
        PROVE  CursorInv'
    <2>. DEFINE c == [op |-> "join", group |-> g, member |-> m, topic |-> t,
                      partitions |-> partitions_for_topic(t)]
                d == [op |-> "leave", group |-> g, member |-> m,
                      partitions |-> partitions_for_topic(t)]
    <2>1. CallIn(c, processed) /\ CallIn(d, processed)
      BY Zenon DEF CallIn
    <2>. HIDE DEF c, d
    <2>2. (Serve(w, c) \/ Serve(w, d)) /\ UNCHANGED <<groups_, received, processed>>
      BY <1>6, Zenon DEF handle_join_group, handle_leave_group, c, d
    <2>. QED  BY <1>1, <2>1, <2>2, Zenon
  <1>7. ASSUME NEW w \in Workers,
               handle_join_group_locked(w) \/ handle_leave_group_locked(w)
        PROVE  CursorInv'
    <2>1. call[w].group \in Groups
      BY <1>0, <1>7, Zenon DEF handle_join_group_locked, handle_leave_group_locked, CallIn
    <2>2. DOMAIN groups_' = Groups /\ \A h \in Groups : CursorsIn(h, groups_'[h], processed)
      BY <1>7, <2>1, GroupsCursors, Zenon DEF handle_join_group_locked, handle_leave_group_locked
    <2>3. Serve(w, Idle) /\ UNCHANGED <<received, processed>>
      BY <1>7, Zenon DEF handle_join_group_locked, handle_leave_group_locked, Served
    <2>. QED  BY <1>0, <2>2, <2>3, CursorKept, Zenon
  <1>8. ASSUME NEW w \in Workers, NEW g \in Groups, NEW m \in Members, NEW t \in Topics,
               NEW p \in Partitions, handle_group_fetch(w, g, m, t, p)
        PROVE  CursorInv'
    <2>. DEFINE c == [op |-> "fetch", group |-> g, member |-> m, topic |-> t,
                      partition |-> p]
    <2>1. CallIn(c, processed)
      BY Zenon DEF CallIn
    <2>. HIDE DEF c
    <2>. QED  BY <1>1, <1>8, <2>1, Zenon DEF handle_group_fetch, c
  <1>9. ASSUME NEW w \in Workers, handle_group_fetch_offset(w) PROVE CursorInv'
    <2>. DEFINE g == call[w].group
                t == call[w].topic
                p == call[w].partition
                o == next_offset(g, t, p)
                c == [op |-> "read", member |-> call[w].member, record |-> <<g, t, p, o>>]
    <2>1. g \in Groups /\ t \in Topics /\ p \in Partitions /\ call[w].member \in Members
      BY <1>0, <1>9, Zenon DEF handle_group_fetch_offset, CallIn
    <2>2. o \in Nat /\ ReachedIn(<<g, t, p, o>>, processed)
      <3>. HIDE DEF g, t, p
      <3>1. CASE groups_[g].topic = t /\ p \in DOMAIN groups_[g].offsets
        BY <1>0, <2>1, <3>1, Zenon DEF next_offset, CursorsIn
      <3>2. CASE ~(groups_[g].topic = t /\ p \in DOMAIN groups_[g].offsets)
        BY <3>2 DEF next_offset, ReachedIn
      <3>. QED  BY <3>1, <3>2, Zenon
    <2>3. Serve(w, c) /\ UNCHANGED <<groups_, received, processed>>
      BY <1>9, Zenon DEF handle_group_fetch_offset
    <2>4. CallIn(c, processed)
      <3>. HIDE DEF g, t, p, o
      <3>. QED  BY <2>1, <2>2, Zenon DEF CallIn, Records
    <2>. HIDE DEF c
    <2>. QED  BY <1>1, <2>3, <2>4, Zenon
  <1>10. ASSUME NEW w \in Workers, handle_group_fetch_read(w) PROVE CursorInv'
    <2>. DEFINE c == call[w]
    <2>1. c.record \in Records /\ c.member \in Members /\ ReachedIn(c.record, processed)
      BY <1>0, <1>10, Zenon DEF handle_group_fetch_read, CallIn
    <2>2. UNCHANGED <<groups_, processed>> /\ Serve(w, Idle)
      BY <1>10, Zenon DEF handle_group_fetch_read, Served
    <2>3. \/ received' = received
          \/ received' = [received EXCEPT ![c.member] = @ \cup {c.record}]
      BY <1>10, Zenon DEF handle_group_fetch_read
    <2>. HIDE DEF c
    <2>4. /\ DOMAIN received' = Members
          /\ \A m \in Members : \A r \in received'[m] : r \in Records /\ ReachedIn(r, processed)
      BY <1>0, <2>1, <2>3, Zenon
    <2>5. DOMAIN call' = Workers /\ \A v \in Workers : CallIn(call'[v], processed)
      BY <1>0, <2>2, Zenon DEF Serve
    <2>. QED  BY <1>0, <2>2, <2>4, <2>5, CursorPartsNext, Zenon
  <1>11. ASSUME NEW m \in Members, NEW r \in received[m], handle_commit_offset(m, r)
         PROVE  CursorInv'
    BY <1>11, CommitCursors, Zenon
  <1>12. CASE restart
    <2>1. /\ DOMAIN groups_' = Groups /\ \A g \in Groups : groups_'[g] = NoGroup
          /\ DOMAIN call' = Workers /\ \A w \in Workers : call'[w] = Idle
          /\ UNCHANGED <<received, processed>>
      BY <1>12, Zenon DEF restart
    <2>. QED  BY <1>0, <2>1, NoGroupCursors, CursorPartsNext, Zenon
  <1>13. CASE UNCHANGED cgVars
    <2>1. UNCHANGED <<groups_, call, received, processed>>
      BY <1>13, Zenon DEF cgVars
    <2>. QED  BY <1>0, <2>1, CursorPartsNext, Zenon
  <1>. QED  BY <1>2, <1>3, <1>4, <1>5, <1>6, <1>7, <1>8, <1>9, <1>10, <1>11, <1>12,
               <1>13, Zenon DEF Next, Produce, GroupRequest

\* At-least-once delivery (README.md:13 and :176): across rebalances, groups that
\* empty and start again, and restarts, no cursor of a group passes an offset
\* that its members have not fetched and committed.
THEOREM NoOffsetSkipped == Spec => []AtLeastOnce
  <1>1. CursorInv => AtLeastOnce
    BY Zenon DEF CursorInv
  <1>. QED  BY <1>1, CursorInit, CursorStep, PTL DEF Spec
-----------------------------------------------------------------------------
(* Cursors stay within the logs.  recs is records, before or after a step. *)

\* What TypeOK and StoredInv say of one group.
GroupWithin(group, recs) ==
    /\ DOMAIN group = GroupFields
    /\ group.members \subseteq Members
    /\ group.members # {} => group.topic \in Topics
    /\ group.members = {} => group.offsets = << >>
    /\ DOMAIN group.assignments = group.members
    /\ \A m \in group.members : group.assignments[m] \subseteq Nat
    /\ DOMAIN group.offsets \subseteq Partitions
    /\ \A p \in DOMAIN group.offsets :
          group.offsets[p] \in 1..recs[make_key(group.topic, p)]

\* A listing has partition numbers only.
Numbers(partitions) == \A x \in partitions : x[2] \in Nat

\* What StoredInv says of one call.
CallWithin(c, recs) ==
    /\ c.op \in {"appended", "listed", "refreshed"} =>
          c.key \in Keys /\ c.offset \in Nat /\ c.offset < recs[c.key]
    /\ c.op \in {"listed", "join", "leave"} => Numbers(c.partitions)
    /\ c.op = "join" => c.member \in Members /\ c.topic \in Topics

\* What it says of the storage engine.
LogsWithin(logs, recs, com) ==
    /\ logs \subseteq Keys
    /\ recs \in [Keys -> 0..MaxRecords]
    /\ DOMAIN com = Keys /\ \A k \in Keys : com[k] \in 0..recs[k]

\* The record r is in its log.
StoredIn(r, recs) == r[4] < recs[make_key(r[2], r[3])]

\* The invariant in these terms.
LEMMA StoredParts ==
    ASSUME StoredInv, CursorInv
    PROVE  /\ LogsWithin(logs_, records, committed)
           /\ \A g \in Groups : GroupWithin(groups_[g], records)
           /\ \A w \in Workers : CallWithin(call[w], records)
           /\ \A m \in Members : \A r \in received[m] : r \in Records /\ StoredIn(r, records)
  <1>1. LogsWithin(logs_, records, committed)
    BY Zenon DEF StoredInv, TypeOK, LogsWithin
  <1>2. \A g \in Groups : GroupWithin(groups_[g], records)
    BY Zenon DEF StoredInv, TypeOK, CursorInv, GroupWithin
  <1>3. \A w \in Workers : CallWithin(call[w], records)
    BY Zenon DEF StoredInv, CallWithin, Numbers
  <1>4. \A m \in Members : \A r \in received[m] : r \in Records /\ StoredIn(r, records)
    BY Zenon DEF StoredInv, CursorInv, Stored, StoredIn
  <1>. QED  BY <1>1, <1>2, <1>3, <1>4, Zenon

\* The same after a step.
LEMMA StoredPartsNext ==
    ASSUME LogsWithin(logs_', records', committed'),
           \A g \in Groups : GroupWithin(groups_'[g], records'),
           \A w \in Workers : CallWithin(call'[w], records'),
           \A m \in Members : \A r \in received'[m] : StoredIn(r, records')
    PROVE  StoredInv'
  <1>1. TypeOK'
    BY Zenon DEF TypeOK, LogsWithin, GroupWithin
  <1>2. DOMAIN committed' = Keys
    BY Zenon DEF LogsWithin
  <1>3. \A g \in Groups :
          /\ groups_'[g].members = {} => groups_'[g].offsets = << >>
          /\ DOMAIN groups_'[g].offsets \subseteq Partitions
    BY Zenon DEF GroupWithin
  <1>4. \A m \in Members : \A r \in received'[m] : Stored(r)'
    BY Zenon DEF Stored, StoredIn
  <1>5. \A w \in Workers :
          LET c == call'[w]
          IN  /\ c.op \in {"appended", "listed", "refreshed"} =>
                    c.key \in Keys /\ c.offset \in Nat /\ c.offset < records'[c.key]
              /\ c.op \in {"listed", "join", "leave"} => \A x \in c.partitions : x[2] \in Nat
              /\ c.op = "join" => c.member \in Members /\ c.topic \in Topics
    BY Zenon DEF CallWithin, Numbers
  <1>. QED  BY <1>1, <1>2, <1>3, <1>4, <1>5, Zenon DEF StoredInv

\* partitions_for_topic lists numbers: stoi read them.
LEMMA ListingNumbers ==
    ASSUME NEW t PROVE Numbers(partitions_for_topic(t))
  <1>. SUFFICES ASSUME NEW x \in partitions_for_topic(t) PROVE x[2] \in Nat
    BY Zenon DEF Numbers
  <1>1. PICK k \in KeysOf(t) : \E i : x = <<i, k[Len(t) + 1]>>
    BY Zenon DEF partitions_for_topic
  <1>2. k[Len(t) + 1] \in Nat
    BY Zenon DEF KeysOf
  <1>. QED  BY <1>1, <1>2

\* A group that is not in the map, and one that is about to get its first member.
LEMMA NoGroupWithin ==
    ASSUME NEW recs PROVE GroupWithin(NoGroup, recs)
  BY DEF GroupWithin, NoGroup, GroupFields

\* rebalance assigns the listed numbers to the members and moves no cursor.
LEMMA RebalanceWithin ==
    ASSUME NEW group, NEW recs, NEW partitions, Numbers(partitions),
           DOMAIN group = GroupFields, group.members \subseteq Members,
           group.members # {}, group.topic \in Topics,
           DOMAIN group.offsets \subseteq Partitions,
           \A p \in DOMAIN group.offsets :
               group.offsets[p] \in 1..recs[make_key(group.topic, p)]
    PROVE  GroupWithin(rebalance(group, partitions), recs)
  <1>. DEFINE r == rebalance(group, partitions)
  <1>1. /\ DOMAIN r = GroupFields /\ r.members = group.members /\ r.topic = group.topic
        /\ r.offsets = group.offsets /\ DOMAIN r.assignments = group.members
    BY Zenon DEF rebalance, GroupFields
  <1>2. \A m \in group.members : r.assignments[m] \subseteq Nat
    <2>1. \A m \in group.members : \A q \in r.assignments[m] :
             \E x \in partitions : q = x[2]
      BY Zenon DEF rebalance, GroupFields
    <2>. QED  BY <2>1, Zenon DEF Numbers
  <1>. HIDE DEF r
  <1>3. GroupWithin(r, recs)
    BY <1>1, <1>2, Zenon DEF GroupWithin
  <1>. QED  BY <1>3, Zenon DEF r

\* join, leave and refresh_topic keep every group within the logs.
LEMMA GroupsWithin ==
    ASSUME NEW recs, DOMAIN groups_ = Groups,
           \A h \in Groups : GroupWithin(groups_[h], recs),
           NEW partitions, Numbers(partitions), NEW t, NEW m,
           \/ refresh_topic(t, partitions)
           \/ \E g \in Groups : \/ /\ join(g, m, t, partitions)
                                   /\ m \in Members /\ t \in Topics
                                \/ leave(g, m, partitions)
    PROVE  \A h \in Groups : GroupWithin(groups_'[h], recs)
  <1>2. CASE refresh_topic(t, partitions)
    <2>1. \A h \in Groups : groups_[h].members # {} =>
             GroupWithin(rebalance(groups_[h], partitions), recs)
      BY RebalanceWithin, Zenon DEF GroupWithin
    <2>. QED  BY <1>2, <2>1, Zenon DEF refresh_topic
  <1>3. ASSUME NEW g \in Groups, join(g, m, t, partitions), m \in Members, t \in Topics
        PROVE  \A h \in Groups : GroupWithin(groups_'[h], recs)
    <2>. DEFINE group == IF groups_[g].members = {}
                         THEN [NoGroup EXCEPT !.topic = t] ELSE groups_[g]
                joined == [group EXCEPT !.members = @ \cup {m}]
    <2>1. /\ DOMAIN group = GroupFields /\ group.members \subseteq Members
          /\ group.topic \in Topics /\ DOMAIN group.offsets \subseteq Partitions
          /\ \A p \in DOMAIN group.offsets :
                group.offsets[p] \in 1..recs[make_key(group.topic, p)]
      <3>1. CASE groups_[g].members = {}
        <4>1. group = [NoGroup EXCEPT !.topic = t]
          BY <3>1, Zenon
        <4>. HIDE DEF group
        <4>2. /\ DOMAIN group = GroupFields /\ group.members = {}
              /\ group.topic = t /\ group.offsets = << >>
          BY <4>1, Zenon DEF NoGroup, GroupFields
        <4>3. DOMAIN group.offsets = {}
          BY <4>2
        <4>. QED  BY <1>3, <4>2, <4>3, Zenon
      <3>2. CASE groups_[g].members # {}
        BY <3>2, Zenon DEF GroupWithin
      <3>. QED  BY <3>1, <3>2, Zenon
    <2>. HIDE DEF group
    <2>2. /\ DOMAIN joined = GroupFields /\ joined.members = group.members \cup {m}
          /\ joined.topic = group.topic /\ joined.offsets = group.offsets
      BY <2>1, Zenon DEF GroupFields
    <2>3. joined.members # {} /\ joined.members \subseteq Members
      BY <1>3, <2>1, <2>2, Zenon
    <2>4. \/ groups_' = groups_
          \/ groups_' = [groups_ EXCEPT ![g] = rebalance(joined, partitions)]
      BY <1>3, Zenon DEF join, group, joined
    <2>. HIDE DEF joined
    <2>5. GroupWithin(rebalance(joined, partitions), recs)
      BY <2>1, <2>2, <2>3, RebalanceWithin, Zenon
    <2>. QED  BY <2>4, <2>5, Zenon
  <1>4. ASSUME NEW g \in Groups, leave(g, m, partitions)
        PROVE  \A h \in Groups : GroupWithin(groups_'[h], recs)
    <2>. DEFINE left == [groups_[g] EXCEPT !.members = @ \ {m}]
    <2>1. /\ DOMAIN left = GroupFields /\ left.members = groups_[g].members \ {m}
          /\ left.topic = groups_[g].topic /\ left.offsets = groups_[g].offsets
      BY Zenon DEF GroupFields, GroupWithin
    <2>2. groups_' = [groups_ EXCEPT ![g] = IF left.members = {} THEN NoGroup
                                           ELSE rebalance(left, partitions)]
      BY <1>4, Zenon DEF leave, left
    <2>. HIDE DEF left
    <2>3. ASSUME left.members # {} PROVE GroupWithin(rebalance(left, partitions), recs)
      <3>1. groups_[g].members # {} /\ left.members \subseteq Members
        BY <2>1, <2>3, Zenon DEF GroupWithin
      <3>. QED  BY <2>1, <2>3, <3>1, RebalanceWithin, Zenon DEF GroupWithin
    <2>. QED  BY <2>2, <2>3, NoGroupWithin, Zenon
  <1>. QED  BY <1>2, <1>3, <1>4, Zenon

\* A producer appends: what lay within the logs still does.
LEMMA WithinGrows ==
    ASSUME NEW recs \in [Keys -> Nat], NEW more \in [Keys -> Nat],
           \A k \in Keys : recs[k] <= more[k]
    PROVE  /\ \A group : GroupWithin(group, recs) => GroupWithin(group, more)
           /\ \A c : CallWithin(c, recs) => CallWithin(c, more)
           /\ \A r \in Records : StoredIn(r, recs) => StoredIn(r, more)
  <1>1. \A t \in Topics, p \in Partitions : make_key(t, p) \in Keys
    BY DEF Keys
  <1>2. \A k \in Keys : \A o \in Nat : o < recs[k] => o < more[k]
    OBVIOUS
  <1>3. \A k \in Keys : \A o \in 1..recs[k] : o \in 1..more[k]
    OBVIOUS
  <1>4. ASSUME NEW group, GroupWithin(group, recs) PROVE GroupWithin(group, more)
    <2>1. \A p \in DOMAIN group.offsets : group.offsets[p] \in 1..more[make_key(group.topic, p)]
      <3>. SUFFICES ASSUME NEW p \in DOMAIN group.offsets
                    PROVE  group.offsets[p] \in 1..more[make_key(group.topic, p)]
        BY Zenon
      <3>1. group.members # {}
        <4>1. DOMAIN << >> = {}
          OBVIOUS
        <4>. QED  BY <1>4, <4>1, Zenon DEF GroupWithin
      <3>2. make_key(group.topic, p) \in Keys
        BY <1>1, <1>4, <3>1, Zenon DEF GroupWithin
      <3>. QED  BY <1>3, <1>4, <3>2, Zenon DEF GroupWithin
    <2>. QED  BY <1>4, <2>1, Zenon DEF GroupWithin
  <1>5. \A c : CallWithin(c, recs) => CallWithin(c, more)
    BY <1>2, Zenon DEF CallWithin
  <1>6. ASSUME NEW r \in Records, StoredIn(r, recs) PROVE StoredIn(r, more)
    <2>1. r[2] \in Topics /\ r[3] \in Partitions /\ r[4] \in Nat
      BY DEF Records
    <2>2. make_key(r[2], r[3]) \in Keys
      BY <1>1, <2>1, Zenon
    <2>. QED  BY <1>2, <1>6, <2>1, <2>2, Zenon DEF StoredIn
  <1>. QED  BY <1>4, <1>5, <1>6, Zenon

\* commit moves a cursor to just past a record that is in its log.
LEMMA CommitWithin ==
    ASSUME StoredInv, CursorInv, NEW m \in Members, NEW r \in received[m],
           handle_commit_offset(m, r)
    PROVE  StoredInv'
  <1>1. /\ LogsWithin(logs_, records, committed)
        /\ \A g \in Groups : GroupWithin(groups_[g], records)
        /\ \A w \in Workers : CallWithin(call[w], records)
        /\ \A n \in Members : \A q \in received[n] : q \in Records /\ StoredIn(q, records)
    BY StoredParts, Zenon
  <1>2. PICK g \in Groups, t \in Topics, p \in Partitions, o \in Nat : r = <<g, t, p, o>>
    BY <1>1 DEF Records
  <1>3. UNCHANGED <<logs_, records, committed, call, received>>
    BY Zenon DEF handle_commit_offset, logVars
  <1>. SUFFICES \A h \in Groups : GroupWithin(groups_'[h], records)
    BY <1>1, <1>3, StoredPartsNext, Zenon
  <1>4. CASE ~is_assigned(g, m, t, p)
    BY <1>1, <1>2, <1>4, Zenon DEF handle_commit_offset, commit
  <1>5. CASE is_assigned(g, m, t, p)
    <2>. DEFINE group == groups_[g]
                next == next_offset(g, t, p)
                new == Max({next, o + 1})
                offsets == [q \in DOMAIN group.offsets \cup {p} |->
                              IF q = p THEN new ELSE group.offsets[q]]
                K == make_key(t, p)
    <2>1. /\ groups_' = [groups_ EXCEPT ![g].offsets = offsets]
          /\ group.topic = t /\ group.members # {}
      BY <1>2, <1>5, Zenon DEF handle_commit_offset, commit, is_assigned
    <2>2. K \in Keys /\ o < records[K] /\ records[K] \in Nat
      <3>1. K \in Keys
        BY DEF Keys
      <3>2. o < records[K]
        BY <1>1, <1>2 DEF StoredIn
      <3>. QED  BY <1>1, <3>1, <3>2, ConsumerGroupsAssumption DEF LogsWithin
    <2>3. next \in 0..records[K]
      <3>. HIDE DEF K
      <3>1. CASE p \in DOMAIN group.offsets
        <4>1. group.offsets[p] \in 1..records[K]
          BY <1>1, <2>1, <3>1, Zenon DEF GroupWithin, K
        <4>2. next = group.offsets[p]
          BY <2>1, <3>1, Zenon DEF next_offset
        <4>. HIDE DEF next, group
        <4>. QED  BY <4>1, <4>2, <2>2
      <3>2. CASE p \notin DOMAIN group.offsets
        <4>1. next = 0
          BY <3>2, Zenon DEF next_offset
        <4>. QED  BY <4>1, <2>2
      <3>. QED  BY <3>1, <3>2, Zenon
    <2>. HIDE DEF K, next
    <2>4. new \in 1..records[K]
      <3>1. next \in Nat /\ o + 1 \in Nat
        BY <2>2, <2>3
      <3>2. new \in {next, o + 1} /\ new >= o + 1
        BY <3>1, MaxOfTwo
      <3>. HIDE DEF new
      <3>. QED  BY <2>2, <2>3, <3>2
    <2>. HIDE DEF new
    <2>5. GroupWithin([group EXCEPT !.offsets = offsets], records)
      <3>0. GroupWithin(group, records)
        BY <1>1, Zenon
      <3>1. DOMAIN offsets \subseteq Partitions
        BY <3>0, Zenon DEF GroupWithin
      <3>2. \A q \in DOMAIN offsets : offsets[q] \in 1..records[make_key(t, q)]
        BY <2>1, <2>4, <3>0, Zenon DEF GroupWithin, K
      <3>. HIDE DEF offsets, group
      <3>3. DOMAIN group = GroupFields
        BY <3>0, Zenon DEF GroupWithin
      <3>4. LET n == [group EXCEPT !.offsets = offsets]
            IN  /\ DOMAIN n = GroupFields /\ n.offsets = offsets /\ n.topic = t
                /\ n.members = group.members /\ n.assignments = group.assignments
        BY <2>1, <3>3, Zenon DEF GroupFields
      <3>. QED  BY <2>1, <3>0, <3>1, <3>2, <3>4, Zenon DEF GroupWithin
    <2>. HIDE DEF offsets
    <2>. QED  BY <1>1, <2>1, <2>5, Zenon DEF CursorInv
  <1>. QED  BY <1>4, <1>5, Zenon

\* What an action has to show that touches neither the logs nor what the members
\* hold: w's request goes on as c, and the groups stay within the logs.
LEMMA StoredKept ==
    ASSUME StoredInv, CursorInv, NEW w \in Workers, NEW c, CallWithin(c, records),
           Serve(w, c), UNCHANGED <<logs_, records, committed, received>>,
           \A g \in Groups : GroupWithin(groups_'[g], records)
    PROVE  StoredInv'
  <1>1. \A v \in Workers : CallWithin(call'[v], records)
    BY StoredParts, Zenon DEF Serve, CursorInv
  <1>. QED  BY <1>1, StoredParts, StoredPartsNext, Zenon

\* A broker starts with empty logs.
LEMMA StoredInit == Init => StoredInv
  <1>. SUFFICES ASSUME Init PROVE StoredInv
    BY Zenon
  <1>1. \A g \in Groups : GroupWithin(groups_[g], records)
    BY NoGroupWithin, Zenon DEF Init
  <1>2. TypeOK
    <2>1. records \in [Keys -> 0..MaxRecords] /\ \A k \in Keys : committed[k] \in 0..records[k]
      BY ConsumerGroupsAssumption DEF Init
    <2>. QED  BY <1>1, <2>1, Zenon DEF TypeOK, Init, GroupWithin
  <1>3. \A w \in Workers : call[w].op = "none"
    BY Zenon DEF Init, Idle
  <1>4. \A g \in Groups :
          /\ groups_[g].members = {} => groups_[g].offsets = << >>
          /\ DOMAIN groups_[g].offsets \subseteq Partitions
    BY <1>1, Zenon DEF GroupWithin
  <1>5. DOMAIN committed = Keys /\ \A m \in Members : received[m] = {}
    BY Zenon DEF Init
  <1>. QED  BY <1>2, <1>3, <1>4, <1>5, Zenon DEF StoredInv

\* Every step of every handler keeps the invariant.
LEMMA StoredStep == StoredInv /\ CursorInv /\ [Next]_cgVars => StoredInv'
  <1>. SUFFICES ASSUME StoredInv, CursorInv, [Next]_cgVars PROVE StoredInv'
    BY Zenon
  <1>0. /\ LogsWithin(logs_, records, committed)
        /\ \A g \in Groups : GroupWithin(groups_[g], records)
        /\ \A w \in Workers : CallWithin(call[w], records)
        /\ \A m \in Members : \A r \in received[m] : r \in Records /\ StoredIn(r, records)
        /\ CallWithin(Idle, records)
    BY StoredParts, Zenon DEF CallWithin, Idle
  <1>d. DOMAIN groups_ = Groups /\ DOMAIN call = Workers /\ DOMAIN received = Members
    BY Zenon DEF CursorInv
  <1>t. records \in [Keys -> Nat] /\ \A k \in Keys : records[k] \in Nat
    BY <1>0, ConsumerGroupsAssumption DEF LogsWithin
  <1>1. ASSUME NEW w \in Workers, NEW c, CallWithin(c, records), Serve(w, c),
               UNCHANGED <<logs_, records, committed, groups_, received>>
        PROVE  StoredInv'
    BY <1>0, <1>1, StoredKept, Zenon
  <1>2. ASSUME NEW w \in Workers, NEW t \in Topics, NEW p \in Partitions,
               handle_produce_append(w, t, p)
        PROVE  StoredInv'
    <2>. DEFINE k == make_key(t, p)
                c == [op |-> "appended", topic |-> t, key |-> k, offset |-> records[k]]
    <2>1. k \in Keys
      BY DEF Keys
    <2>. HIDE DEF k
    <2>2. /\ records[k] < MaxRecords /\ logs_' = logs_ \cup {k}
          /\ records' = [records EXCEPT ![k] = @ + 1] /\ Serve(w, c)
          /\ UNCHANGED <<committed, groups_, received>>
      BY <1>2, Zenon DEF handle_produce_append, k
    <2>3. records' \in [Keys -> 0..MaxRecords]
      BY <1>0, <1>t, <2>1, <2>2, ConsumerGroupsAssumption DEF LogsWithin
    <2>4. records' \in [Keys -> Nat] /\ \A l \in Keys : records[l] <= records'[l]
      BY <1>t, <2>1, <2>2
    <2>5. LogsWithin(logs_', records', committed')
      <3>1. \A l \in Keys : committed'[l] \in 0..records'[l]
        BY <1>0, <1>t, <2>2, <2>4 DEF LogsWithin
      <3>. QED  BY <1>0, <2>1, <2>2, <2>3, <3>1, Zenon DEF LogsWithin
    <2>6. /\ \A g \in Groups : GroupWithin(groups_'[g], records')
          /\ \A v \in Workers : CallWithin(call[v], records')
          /\ \A m \in Members : \A r \in received'[m] : StoredIn(r, records')
      BY <1>0, <1>t, <2>2, <2>4, WithinGrows, Zenon
    <2>7. CallWithin(c, records')
      <3>1. records[k] \in Nat /\ records[k] < records'[k]
        BY <1>t, <2>1, <2>2
      <3>. QED  BY <2>1, <3>1, Zenon DEF CallWithin
    <2>. HIDE DEF c
    <2>8. \A v \in Workers : CallWithin(call'[v], records')
      BY <1>d, <2>2, <2>6, <2>7, Zenon DEF Serve
    <2>. QED  BY <2>5, <2>6, <2>8, StoredPartsNext, Zenon
  <1>3. ASSUME NEW w \in Workers, handle_produce_list(w) PROVE StoredInv'
    <2>. DEFINE c == [op |-> "listed", topic |-> call[w].topic, key |-> call[w].key,
                      offset |-> call[w].offset,
                      partitions |-> partitions_for_topic(call[w].topic)]
    <2>1. CallWithin(c, records)
      <3>1. call[w].key \in Keys /\ call[w].offset \in Nat
            /\ call[w].offset < records[call[w].key]
        BY <1>0, <1>3, Zenon DEF CallWithin, handle_produce_list
      <3>. QED  BY <3>1, ListingNumbers, Zenon DEF CallWithin
    <2>. HIDE DEF c
    <2>. QED  BY <1>1, <1>3, <2>1, Zenon DEF handle_produce_list, c, logVars
  <1>4. ASSUME NEW w \in Workers, handle_produce_refresh(w) PROVE StoredInv'
    <2>. DEFINE c == [op |-> "refreshed", key |-> call[w].key, offset |-> call[w].offset]
    <2>1. CallWithin(c, records) /\ Numbers(call[w].partitions)
      BY <1>0, <1>4, Zenon DEF CallWithin, handle_produce_refresh
    <2>. HIDE DEF c
    <2>2. Serve(w, c) /\ UNCHANGED <<logs_, records, committed, received>>
      BY <1>4, Zenon DEF handle_produce_refresh, c, logVars
    <2>3. \A h \in Groups : GroupWithin(groups_'[h], records)
      BY <1>0, <1>d, <1>4, <2>1, GroupsWithin, Zenon DEF handle_produce_refresh
    <2>. QED  BY <2>1, <2>2, <2>3, StoredKept, Zenon
  <1>5. ASSUME NEW w \in Workers, handle_produce_replicate(w) PROVE StoredInv'
    <2>. DEFINE k == call[w].key
                o == call[w].offset
    <2>1. k \in Keys /\ o \in Nat /\ o < records[k]
      BY <1>0, <1>5, Zenon DEF CallWithin, handle_produce_replicate
    <2>2. /\ UNCHANGED <<logs_, records, groups_, received>> /\ Serve(w, Idle)
          /\ \/ committed' = committed
             \/ committed' = [committed EXCEPT ![k] = Max({@, o + 1})]
      BY <1>5, Zenon DEF handle_produce_replicate, Served
    <2>. HIDE DEF k, o
    <2>3. LogsWithin(logs_', records', committed')
      <3>1. committed[k] \in 0..records[k]
        BY <1>0, <2>1, Zenon DEF LogsWithin
      <3>2. Max({committed[k], o + 1}) \in 0..records[k]
        <4>1. committed[k] \in Nat /\ o + 1 \in 0..records[k]
          BY <1>t, <2>1, <3>1
        <4>. QED  BY <2>1, <3>1, <4>1, MaxOfTwo
      <3>3. DOMAIN committed' = Keys /\ \A l \in Keys : committed'[l] \in 0..records[l]
        BY <1>0, <2>2, <3>2, Zenon DEF LogsWithin
      <3>. QED  BY <1>0, <2>2, <3>3, Zenon DEF LogsWithin
    <2>4. \A v \in Workers : CallWithin(call'[v], records)
      BY <1>0, <1>d, <2>2, Zenon DEF Serve
    <2>. QED  BY <1>0, <2>2, <2>3, <2>4, StoredPartsNext, Zenon
  <1>6. ASSUME NEW w \in Workers, NEW g \in Groups, NEW m \in Members, NEW t \in Topics,
               handle_join_group(w, g, m, t) \/ handle_leave_group(w, g, m, t)
        PROVE  StoredInv'
    <2>. DEFINE c == [op |-> "join", group |-> g, member |-> m, topic |-> t,
                      partitions |-> partitions_for_topic(t)]
                d == [op |-> "leave", group |-> g, member |-> m,
                      partitions |-> partitions_for_topic(t)]
    <2>1. CallWithin(c, records) /\ CallWithin(d, records)
      BY ListingNumbers, Zenon DEF CallWithin
    <2>. HIDE DEF c, d
    <2>2. /\ Serve(w, c) \/ Serve(w, d)
          /\ UNCHANGED <<logs_, records, committed, groups_, received>>
      BY <1>6, Zenon DEF handle_join_group, handle_leave_group, c, d, logVars
    <2>. QED  BY <1>1, <2>1, <2>2, Zenon
  <1>7. ASSUME NEW w \in Workers,
               handle_join_group_locked(w) \/ handle_leave_group_locked(w)
        PROVE  StoredInv'
    <2>1. /\ call[w].group \in Groups /\ Numbers(call[w].partitions)
          /\ \/ /\ join(call[w].group, call[w].member, call[w].topic, call[w].partitions)
                /\ call[w].member \in Members /\ call[w].topic \in Topics
             \/ leave(call[w].group, call[w].member, call[w].partitions)
      BY <1>0, <1>7, Zenon
         DEF handle_join_group_locked, handle_leave_group_locked, CallWithin, CursorInv
    <2>2. \A h \in Groups : GroupWithin(groups_'[h], records)
      <3>1. \/ \E g \in Groups :
                  /\ join(g, call[w].member, call[w].topic, call[w].partitions)
                  /\ call[w].member \in Members /\ call[w].topic \in Topics
            \/ \E g \in Groups : leave(g, call[w].member, call[w].partitions)
        BY <2>1, Zenon
      <3>2. ASSUME NEW n, NEW t, NEW g \in Groups,
                   \/ /\ join(g, n, t, call[w].partitions) /\ n \in Members /\ t \in Topics
                   \/ leave(g, n, call[w].partitions)
            PROVE  \A h \in Groups : GroupWithin(groups_'[h], records)
        BY <1>0, <1>d, <2>1, <3>2, GroupsWithin, Zenon
      <3>. QED  BY <3>1, <3>2, Zenon
    <2>3. Serve(w, Idle) /\ UNCHANGED <<logs_, records, committed, received>>
      BY <1>7, Zenon
         DEF handle_join_group_locked, handle_leave_group_locked, Served, logVars
    <2>. QED  BY <1>0, <2>2, <2>3, StoredKept, Zenon
  <1>8. ASSUME NEW w \in Workers, NEW g \in Groups, NEW m \in Members, NEW t \in Topics,
               NEW p \in Partitions, handle_group_fetch(w, g, m, t, p)
        PROVE  StoredInv'
    <2>. DEFINE c == [op |-> "fetch", group |-> g, member |-> m, topic |-> t,
                      partition |-> p]
    <2>1. CallWithin(c, records)
      BY Zenon DEF CallWithin
    <2>. HIDE DEF c
    <2>. QED  BY <1>1, <1>8, <2>1, Zenon DEF handle_group_fetch, c, logVars
  <1>9. ASSUME NEW w \in Workers, handle_group_fetch_offset(w) PROVE StoredInv'
    <2>. DEFINE c == [op |-> "read", member |-> call[w].member,
                      record |-> <<call[w].group, call[w].topic, call[w].partition,
                          next_offset(call[w].group, call[w].topic, call[w].partition)>>]
    <2>1. CallWithin(c, records)
      BY Zenon DEF CallWithin
    <2>. HIDE DEF c
    <2>. QED  BY <1>1, <1>9, <2>1, Zenon DEF handle_group_fetch_offset, c, logVars
  <1>10. ASSUME NEW w \in Workers, handle_group_fetch_read(w) PROVE StoredInv'
    <2>. DEFINE c == call[w]
                r == c.record
                k == make_key(r[2], r[3])
    <2>1. c.member \in Members /\ r \in Records
      BY <1>10, Zenon DEF handle_group_fetch_read, CursorInv
    <2>2. UNCHANGED <<logs_, records, committed, groups_>> /\ Serve(w, Idle)
      BY <1>10, Zenon DEF handle_group_fetch_read, Served, logVars
    <2>3. \/ received' = received
          \/ /\ received' = [received EXCEPT ![c.member] = @ \cup {r}]
             /\ r[4] < committed[k]
      BY <1>10, Zenon DEF handle_group_fetch_read
    <2>. HIDE DEF c
    <2>4. r[4] < committed[k] => StoredIn(r, records)
      <3>1. k \in Keys /\ r[4] \in Nat
        <4>1. r[2] \in Topics /\ r[3] \in Partitions /\ r[4] \in Nat
          BY <2>1 DEF Records
        <4>. HIDE DEF r
        <4>. QED  BY <4>1 DEF Keys
      <3>2. committed[k] \in 0..records[k] /\ records[k] \in Nat
        BY <1>0, <1>t, <3>1, Zenon DEF LogsWithin
      <3>3. r[4] < committed[k] => r[4] < records[k]
        <4>. HIDE DEF r, k
        <4>. QED  BY <3>1, <3>2
      <3>. QED  BY <3>3, Zenon DEF StoredIn
    <2>. HIDE DEF r, k
    <2>5. \A m \in Members : \A q \in received'[m] : StoredIn(q, records)
      BY <1>0, <1>d, <2>1, <2>3, <2>4, Zenon
    <2>6. \A v \in Workers : CallWithin(call'[v], records)
      BY <1>0, <1>d, <2>2, Zenon DEF Serve
    <2>. QED  BY <1>0, <2>2, <2>5, <2>6, StoredPartsNext, Zenon
  <1>11. ASSUME NEW m \in Members, NEW r \in received[m], handle_commit_offset(m, r)
         PROVE  StoredInv'
    BY <1>11, CommitWithin, Zenon
  <1>12. CASE restart
    <2>1. /\ \A g \in Groups : groups_'[g] = NoGroup
          /\ \A w \in Workers : call'[w] = Idle
          /\ UNCHANGED <<records, received>> /\ logs_' = {}
          /\ DOMAIN committed' = Keys /\ \A k \in Keys : committed'[k] = 0
      BY <1>12, Zenon DEF restart
    <2>2. \A k \in Keys : 0 \in 0..records[k]
      BY <1>t
    <2>3. LogsWithin(logs_', records', committed')
      BY <1>0, <2>1, <2>2, Zenon DEF LogsWithin
    <2>. QED  BY <1>0, <2>1, <2>3, NoGroupWithin, StoredPartsNext, Zenon
  <1>13. CASE UNCHANGED cgVars
    <2>1. UNCHANGED <<logs_, records, committed, groups_, call, received>>
      BY <1>13, Zenon DEF cgVars, logVars
    <2>. QED  BY <1>0, <2>1, StoredPartsNext, Zenon
  <1>. QED  BY <1>2, <1>3, <1>4, <1>5, <1>6, <1>7, <1>8, <1>9, <1>10, <1>11, <1>12,
               <1>13, Zenon DEF Next, Produce, GroupRequest

\* A group has its members' assignments and no others, FETCH answers only records
\* the log has, and no cursor passes the end of its partition: a stale commit or a
\* leave that carried another topic's listing does not break it.
THEOREM CursorsWithinLogs == Spec => []TypeOK
  <1>1. StoredInv => TypeOK
    BY Zenon DEF StoredInv
  <1>. QED  BY <1>1, CursorInit, CursorStep, StoredInit, StoredStep, PTL DEF Spec
=============================================================================
