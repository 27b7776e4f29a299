------------------------- MODULE IpAllocationProofs -------------------------
(***************************************************************************)
(* Proofs about IpAllocation: for every configuration, in every order of   *)
(* allocation, no two agents have one address and no agent is ever told    *)
(* another address than before.  There the sources of addresses may        *)
(* produce any value at all, and of the configuration only SeedAssumption  *)
(* is used.  With room for the groups (RoomForGroups) each keeps its /24   *)
(* to itself, which takes the sources one by one.                          *)
(***************************************************************************)
EXTENDS IpAllocation, FiniteSetTheorems, SequenceTheorems, TLAPS

\* The shape of the two tables, all the type correctness the proofs need.
TableInv ==
    /\ ipOf = [a \in Agents |-> ipOf[a]]
    /\ answer = [a \in Agents |-> answer[a]]

\* assigned_ips maps an address to one agent.
OwnerInv == \A p, q \in assigned : p[1] = q[1] => p[2] = q[2]

\* agent_to_ip is an inverse of assigned_ips, and answers come from it.
InverseInv ==
    \A a \in Agents :
       /\ ipOf[a] # NoAddress => <<ipOf[a], a>> \in assigned
       /\ answer[a] # NoAddress => answer[a] = ipOf[a]

\* A seed that is still to be pinned has no address yet.
UnpinnedInv ==
    \A a \in unpinned :
       /\ a \in Agents /\ ipOf[a] = NoAddress
       /\ Config[a].kind # "infrastructure"
       /\ stage # "agents"

IInv == TableInv /\ OwnerInv /\ InverseInv /\ UnpinnedInv

-----------------------------------------------------------------------------

LEMMA InitInv == Init => IInv
  BY SeedAssumption
  DEF Init, IInv, TableInv, OwnerInv, InverseInv, UnpinnedInv

\* What Register does when the address is free.
LEMMA RegisterFree ==
  ASSUME NEW a \in Agents, NEW ip, IInv, Free(ip), Register(ip, a)
  PROVE  /\ OwnerInv'
         /\ ipOf' = [b \in Agents |-> IF b = a THEN ip ELSE ipOf[b]]
         /\ <<ip, a>> \in assigned'
         /\ assigned \subseteq assigned'
  <1>1. assigned' = assigned \cup {<<ip, a>>}
    BY DEF Register
  <1>2. ipOf' = [b \in Agents |-> IF b = a THEN ip ELSE ipOf[b]]
    BY DEF Register, IInv, TableInv
  <1>3. OwnerInv'
    <2> SUFFICES ASSUME NEW p \in assigned', NEW q \in assigned',
                        p[1] = q[1], p # q
                 PROVE  p[2] = q[2]
      BY DEF OwnerInv
    <2>1. CASE p \in assigned /\ q \in assigned
      BY <2>1 DEF IInv, OwnerInv
    <2>2. CASE p = <<ip, a>> \/ q = <<ip, a>>
      BY <2>2, <1>1 DEF Free
    <2> QED
      BY <1>1, <2>1, <2>2
  <1> QED
    BY <1>1, <1>2, <1>3

\* Only an agent without an address is given one.
LEMMA AssignPreserves ==
  ASSUME NEW a \in Agents, NEW k \in 1..6, IInv, AssignFrom(a, k),
         a \notin unpinned
  PROVE  /\ IInv'
         /\ answer' = [b \in Agents |->
                          IF b = a THEN Source(a, k) ELSE answer[b]]
         /\ answer[a] = NoAddress
  <1> DEFINE ip == Source(a, k)
  <1>1. ipOf[a] = NoAddress /\ Free(ip) /\ Register(ip, a)
    BY DEF AssignFrom, Usable
  <1>2. answer' = [b \in Agents |-> IF b = a THEN ip ELSE answer[b]]
    BY DEF AssignFrom, IInv, TableInv
  <1> HIDE DEF ip
  <1>3. /\ OwnerInv'
        /\ ipOf' = [b \in Agents |-> IF b = a THEN ip ELSE ipOf[b]]
        /\ <<ip, a>> \in assigned'
        /\ assigned \subseteq assigned'
    BY <1>1, RegisterFree
  <1>4. TableInv'
    BY <1>2, <1>3 DEF TableInv
  <1>5. InverseInv'
    BY <1>2, <1>3 DEF InverseInv, IInv
  <1>6. UnpinnedInv'
    BY <1>3 DEF AssignFrom, UnpinnedInv, IInv
  <1>7. answer[a] = NoAddress
    BY <1>1 DEF IInv, InverseInv
  <1> QED
    BY <1>2, <1>3, <1>4, <1>5, <1>6, <1>7 DEF IInv, ip

\* A seed is pinned before it has asked for an address.
LEMMA PinPreserves ==
  ASSUME NEW a \in Agents, IInv, PinSeed(a)
  PROVE  IInv' /\ UNCHANGED answer
  <1> DEFINE ip == Config[a].pin
  <1>1. /\ ipOf[a] = NoAddress /\ answer[a] = NoAddress
        /\ unpinned' = unpinned \ {a} /\ UNCHANGED <<stage, answer>>
    BY DEF PinSeed, IInv, UnpinnedInv, InverseInv
  <1>2. CASE Free(ip)
    <2>1. Register(ip, a)
      BY <1>2 DEF PinSeed
    <2> HIDE DEF ip
    <2>2. /\ OwnerInv'
          /\ ipOf' = [b \in Agents |-> IF b = a THEN ip ELSE ipOf[b]]
          /\ <<ip, a>> \in assigned'
          /\ assigned \subseteq assigned'
      BY <1>2, <2>1, RegisterFree
    <2>3. TableInv' /\ InverseInv' /\ UnpinnedInv'
      BY <1>1, <2>2 DEF IInv, TableInv, InverseInv, UnpinnedInv
    <2> QED
      BY <1>1, <2>2, <2>3 DEF IInv
  <1>3. CASE ~Free(ip)
    <2>1. UNCHANGED <<assigned, ipOf>>
      BY <1>3 DEF PinSeed
    <2> QED
      BY <1>1, <2>1
      DEF IInv, TableInv, OwnerInv, InverseInv, UnpinnedInv
  <1> QED
    BY <1>2, <1>3

\* What any step does: it preserves the invariant, and no answer changes.
LEMMA StepPreserves ==
  ASSUME IInv, [Next]_vars
  PROVE  IInv' /\ \A a \in Agents : answer[a] # NoAddress => answer'[a] = answer[a]
  <1>1. CASE UNCHANGED vars
    BY <1>1 DEF vars, IInv, TableInv, OwnerInv, InverseInv, UnpinnedInv
  <1>2. CASE NextStage
    BY <1>2 DEF NextStage, IInv, TableInv, OwnerInv, InverseInv, UnpinnedInv
  <1>3. ASSUME NEW a \in Agents, PinSeed(a)
        PROVE  IInv' /\ UNCHANGED answer
    BY <1>3, PinPreserves
  <1>4. ASSUME NEW a \in Agents, GetAgentIp(a)
        PROVE  IInv' /\ \A b \in Agents :
                            answer[b] # NoAddress => answer'[b] = answer[b]
    <2>1. a \notin unpinned
      BY <1>4 DEF GetAgentIp, IInv, UnpinnedInv
    <2>2. CASE AlreadyAssigned(a)
      <3>1. answer' = [b \in Agents |-> IF b = a THEN ipOf[a] ELSE answer[b]]
        BY <2>2 DEF AlreadyAssigned, IInv, TableInv
      <3>2. UNCHANGED <<stage, unpinned, assigned, ipOf>>
        BY <2>2 DEF AlreadyAssigned
      <3> QED
        BY <3>1, <3>2 DEF IInv, TableInv, OwnerInv, InverseInv, UnpinnedInv
    <2>3. ASSUME NEW k \in 1..6, AssignFrom(a, k)
          PROVE  IInv' /\ \A b \in Agents :
                              answer[b] # NoAddress => answer'[b] = answer[b]
      BY <2>1, <2>3, AssignPreserves
    <2>4. CASE NothingLeft(a)
      BY <2>4
      DEF NothingLeft, IInv, TableInv, OwnerInv, InverseInv, UnpinnedInv
    <2> QED
      BY <1>4, <2>2, <2>3, <2>4 DEF GetAgentIp
  <1> QED
    BY <1>1, <1>2, <1>3, <1>4 DEF Next

-----------------------------------------------------------------------------

\* Two agents never get one address, in any configuration: the free check of
\* every source together with the one registry they all record in.
THEOREM NobodyShares == Spec => []NoSharedAddress
  <1>1. IInv => NoSharedAddress
    <2> SUFFICES ASSUME IInv, NEW a \in Agents, NEW b \in Agents, a # b,
                        answer[a] # NoAddress, answer[a] = answer[b]
                 PROVE  FALSE
      BY DEF NoSharedAddress
    <2>1. <<answer[a], a>> \in assigned /\ <<answer[a], b>> \in assigned
      BY DEF IInv, InverseInv
    <2> QED
      BY <2>1 DEF IInv, OwnerInv
  <1> QED
    BY <1>1, InitInv, StepPreserves, PTL DEF Spec

\* An agent that has been told its address is never told another one, however
\* often the topology and the host generation ask get_agent_ip.
THEOREM AnswersAreStable == Spec => AnswerIsStable
  <1>1. IInv /\ [Next]_vars =>
          [\A a \in Agents : answer[a] # NoAddress => answer'[a] = answer[a]]_vars
    BY StepPreserves
  <1> QED
    BY <1>1, InitInv, StepPreserves, PTL DEF Spec, AnswerIsStable

-----------------------------------------------------------------------------
(* Groups. *)

\* A set of naturals that is not empty has a least member: < is well-founded.
LEMMA LowestIsMember ==
    ASSUME NEW S \in SUBSET Nat, S # {}
    PROVE  Lowest(S) \in S /\ \A k \in S : Lowest(S) <= k
<1> DEFINE R == OpToRel(<, Nat)
<1>1. \A ss \in Nat \X Nat : ss[1] < ss[2] => ss \in R
  BY Zenon DEF OpToRel
<1>2. IsWellFoundedOn(R, Nat)
  BY NatLessThanWellFounded, Zenon
<1> HIDE DEF R
<1>3. \E h \in S : \A k \in S : ~(<<k, h>> \in R)
  BY <1>2, WFMin
<1>4. \E h \in S : \A k \in S : h <= k
  <2>1. PICK h \in S : \A k \in S : ~(<<k, h>> \in R)
    BY <1>3
  <2>2. \A k \in S : ~(k < h)
    <3> SUFFICES ASSUME NEW k \in S, k < h PROVE FALSE
      OBVIOUS
    <3>1. <<k, h>> \in Nat \X Nat /\ <<k, h>>[1] < <<k, h>>[2]
      OBVIOUS
    <3>2. <<k, h>> \in R
      BY <1>1, <3>1
    <3> QED
      BY <2>1, <3>2
  <2> QED
    BY <2>2
<1> QED
  BY <1>4 DEF Lowest

\* The groups that have an entry in subnet_groups.
Asked == {g \in Groups : groups[g] # NewGroup}

\* What an entry is made of.
GroupsTyped == groups \in [Groups -> [prefix : Octet \cup {NoAddress}, next : Nat]]

\* The ids have been given out one by one, from 0 on.
NumberInv ==
    /\ nextId = Cardinality(Asked) % GroupIds
    /\ \A g \in Asked : groups[g].prefix \in 0..(Cardinality(Asked) - 1)
    /\ \A g, h \in Asked : g # h => groups[g].prefix # groups[h].prefix

\* Where an agent in a group has its address.
Placed(a) ==
    LET g == Config[a].group IN
    /\ g \in Asked
    /\ \/ SubSeq(answer[a], 1, 3) = <<100, 64, groups[g].prefix>>
       \/ FreeHosts(g) = {} /\ SubSeq(answer[a], 1, 2) # <<100, 64>>

\* Members that are no seeds have been placed when they were answered; only seeds
\* are pinned.
MemberInv ==
    /\ \A a \in unpinned : Config[a].pin # NoAddress
    /\ \A a \in Agents :
           Config[a].pin = NoAddress =>
              /\ ipOf[a] = answer[a]
              /\ Config[a].group # NoGroup /\ answer[a] # NoAddress => Placed(a)

\* With room for the groups, the invariant about groups.
GInv ==
    /\ RoomForGroups /\ IInv /\ GroupsTyped /\ NumberInv /\ MemberInv
    /\ counters \in [AsNumbers -> Int]

LEMMA InitGInv == RoomForGroups /\ Init => GInv
<1> SUFFICES ASSUME RoomForGroups, Init PROVE GInv
  OBVIOUS
<1>1. Asked = {} /\ groups = [g \in Groups |-> NewGroup]
  BY DEF Init, Asked
<1>2. GroupsTyped
  BY <1>1 DEF GroupsTyped, NewGroup, FirstHost
<1>3. NumberInv
  BY <1>1, FS_EmptySet, GroupIdsAssumption DEF NumberInv, Init
<1>4. MemberInv
  BY DEF MemberInv, Init
<1>5. counters \in [AsNumbers -> Int]
  BY DEF Init, FirstHost
<1> QED
  BY <1>2, <1>3, <1>4, <1>5, InitInv DEF GInv

\* While a group has not asked, an id that no group has is next: they do not wrap.
LEMMA AskedCount ==
    ASSUME GInv
    PROVE  /\ IsFiniteSet(Asked) /\ Cardinality(Asked) \in 0..GroupIds
           /\ \A g \in Groups : groups[g] = NewGroup =>
                  Cardinality(Asked) < GroupIds /\ nextId = Cardinality(Asked)
           /\ GroupIds \in 1..256
<1>1. /\ IsFiniteSet(Groups) /\ Cardinality(Groups) <= GroupIds /\ Asked \subseteq Groups
      /\ GroupIds \in 1..256
  BY GroupIdsAssumption DEF GInv, RoomForGroups, Asked
<1>2. /\ IsFiniteSet(Asked) /\ Cardinality(Asked) <= Cardinality(Groups)
      /\ Cardinality(Groups) = Cardinality(Asked) => Groups = Asked
  BY <1>1, FS_Subset
<1>3. Cardinality(Asked) \in Nat /\ Cardinality(Groups) \in Nat
  BY <1>1, <1>2, FS_CardinalityType
<1>4. ASSUME NEW g \in Groups, groups[g] = NewGroup
      PROVE  Cardinality(Asked) < GroupIds /\ nextId = Cardinality(Asked)
  <2>1. g \notin Asked
    BY <1>4 DEF Asked
  <2>2. Cardinality(Asked) < GroupIds
    BY <1>1, <1>2, <1>3, <2>1
  <2>3. nextId = Cardinality(Asked) % GroupIds
    BY DEF GInv, NumberInv
  <2>4. \A n \in Nat, m \in Nat : n < m => n % m = n
    OBVIOUS
  <2> QED
    BY <1>1, <1>3, <2>2, <2>3, <2>4
<1> QED
  BY <1>1, <1>2, <1>3, <1>4

\* A group's third octet is one.
LEMMA PrefixTyped ==
    ASSUME GInv, NEW g \in Groups
    PROVE  PrefixOf(g) \in 0..255 /\ PrefixOf(g) # NoAddress
<1>1. CASE groups[g] = NewGroup
  BY <1>1, AskedCount, NoAddressAssumption DEF PrefixOf, Octet
<1>2. CASE groups[g] # NewGroup
  <2>1. groups[g].prefix \in 0..(Cardinality(Asked) - 1)
    BY <1>2 DEF GInv, NumberInv, Asked
  <2>2. groups[g].prefix \in 0..255
    BY <2>1, AskedCount
  <2> QED
    BY <1>2, <2>2, NoAddressAssumption DEF PrefixOf, Octet
<1> QED
  BY <1>1, <1>2

\* An agent that asks puts its group on the list; its place there stays, and a
\* group that is full stays full.
LEMMA TouchKeeps ==
    ASSUME GInv, NEW a \in Agents, NEW k \in Nat, TouchGroup(a, k),
           k = 1 => Usable(Source(a, 1)), assigned \subseteq assigned'
    PROVE  /\ GroupsTyped' /\ NumberInv'
           /\ \A h \in Asked : /\ h \in Asked' /\ groups'[h].prefix = groups[h].prefix
                               /\ FreeHosts(h) = {} => FreeHosts(h)' = {}
           /\ LET g == Config[a].group IN
              g # NoGroup =>
                  /\ g \in Asked' /\ groups'[g].prefix = PrefixOf(g)
                  /\ k # 1 /\ FreeHosts(g) = {} => FreeHosts(g)' = {}
<1> USE DEF GInv
<1>1. CASE Config[a].group = NoGroup
  <2>1. UNCHANGED <<groups, nextId>>
    BY <1>1 DEF TouchGroup
  <2>2. Asked' = Asked
    BY <2>1 DEF Asked
  <2>3. \A h \in Asked : FreeHosts(h)' \subseteq FreeHosts(h)
    BY <2>1 DEF FreeHosts, PrefixOf, Free
  <2> QED
    BY <1>1, <2>1, <2>2, <2>3 DEF GroupsTyped, NumberInv
<1>2. CASE Config[a].group # NoGroup
  <2> DEFINE g == Config[a].group
             next == IF k = 1 THEN Source(a, 1)[4] + 1 ELSE groups[g].next
  <2>1. g \in Groups
    BY <1>2 DEF Groups
  <2>2. /\ groups' = [groups EXCEPT ![g] = [prefix |-> PrefixOf(g), next |-> next]]
        /\ nextId' = NextId(g)
    BY <1>2 DEF TouchGroup
  <2>3. groups[g].next \in Nat /\ groups[g].prefix \in Octet \cup {NoAddress}
    BY <2>1 DEF GroupsTyped
  <2>4. k = 1 => /\ FreeHosts(g) # {} /\ Source(a, 1)[4] = Lowest(FreeHosts(g))
                 /\ FreeHosts(g) \subseteq Nat
    <3>1. FreeHosts(g) \subseteq Nat
      BY <2>3, LastHostAssumption DEF FreeHosts
    <3>2. Source(a, 1) = GroupAddress(g)
      BY DEF Source
    <3> QED
      BY <3>1, <3>2 DEF Usable, GroupAddress
  <2>5. next \in Nat /\ next >= groups[g].next
    <3>1. k = 1 => Lowest(FreeHosts(g)) \in FreeHosts(g)
      BY <2>4, LowestIsMember
    <3>2. \A h \in FreeHosts(g) : h \in Nat /\ h >= groups[g].next
      BY <2>3, LastHostAssumption DEF FreeHosts
    <3> QED
      BY <2>3, <2>4, <3>1, <3>2
  <2> HIDE DEF next
  <2>6. PrefixOf(g) \in 0..255 /\ PrefixOf(g) # NoAddress
    BY <2>1, PrefixTyped
  <2>7. groups'[g] = [prefix |-> PrefixOf(g), next |-> next] /\ groups'[g] # NewGroup
    BY <2>1, <2>2, <2>6 DEF GroupsTyped, NewGroup
  <2>8. \A h \in Groups \ {g} : groups'[h] = groups[h]
    BY <2>2 DEF GroupsTyped
  <2>9. Asked' = Asked \cup {g}
    BY <2>1, <2>7, <2>8, SMTT(30) DEF Asked
  <2>10. GroupsTyped'
    BY <2>2, <2>5, <2>6 DEF GroupsTyped, Octet
  <2>11. \A h \in Asked \cup {g} : groups'[h].prefix = PrefixOf(h)
    BY <2>7, <2>8 DEF PrefixOf, Asked
  <2>12. NumberInv'
    <3>1. CASE groups[g] = NewGroup
      <4>1. g \notin Asked /\ nextId = Cardinality(Asked) /\ Cardinality(Asked) < GroupIds
        BY <3>1, <2>1, AskedCount DEF Asked
      <4>2. IsFiniteSet(Asked) /\ Cardinality(Asked) \in Nat /\ GroupIds \in 1..256
        BY AskedCount
      <4>3. Cardinality(Asked') = Cardinality(Asked) + 1
        BY <2>9, <4>1, <4>2, FS_AddElement
      <4>4. PrefixOf(g) = Cardinality(Asked)
        BY <3>1, <4>1 DEF PrefixOf
      <4>5. \A h \in Asked : /\ groups'[h].prefix = groups[h].prefix
                             /\ groups'[h].prefix \in 0..(Cardinality(Asked) - 1)
        BY <2>8, <4>1 DEF NumberInv, Asked
      <4>6. nextId' = Cardinality(Asked') % GroupIds
        BY <2>2, <3>1, <4>1, <4>3 DEF NextId
      <4>7. groups'[g].prefix = Cardinality(Asked)
        BY <2>7, <4>4
      <4>8. \A h \in Asked' : groups'[h].prefix \in 0..(Cardinality(Asked') - 1)
        BY <2>9, <4>2, <4>3, <4>5, <4>7
      <4>9. ASSUME NEW h \in Asked', NEW i \in Asked', h # i
            PROVE  groups'[h].prefix # groups'[i].prefix
        <5>1. CASE h \in Asked /\ i \in Asked
          BY <5>1, <4>5, <4>9 DEF NumberInv
        <5>2. CASE h = g
          BY <5>2, <2>9, <4>2, <4>5, <4>7, <4>9
        <5>3. CASE i = g
          BY <5>3, <2>9, <4>2, <4>5, <4>7, <4>9
        <5> QED
          BY <2>9, <5>1, <5>2, <5>3
      <4> QED
        BY <4>6, <4>8, <4>9 DEF NumberInv
    <3>2. CASE groups[g] # NewGroup
      <4>1. g \in Asked /\ Asked' = Asked /\ nextId' = nextId
        BY <2>1, <2>2, <2>9, <3>2 DEF Asked, NextId
      <4>2. \A h \in Asked : groups'[h].prefix = groups[h].prefix
        BY <2>11 DEF PrefixOf, Asked
      <4> QED
        BY <4>1, <4>2 DEF NumberInv
    <3> QED
      BY <3>1, <3>2
  <2>13. ASSUME NEW h \in Asked \cup {g}
         PROVE  FreeHosts(h)' \subseteq FreeHosts(h)
    <3>1. PrefixOf(h)' = PrefixOf(h)
      BY <2>7, <2>9, <2>11 DEF PrefixOf, Asked
    <3>2. groups'[h].next >= groups[h].next /\ groups'[h].next \in Nat /\ groups[h].next \in Nat
      BY <2>1, <2>3, <2>5, <2>7, <2>8 DEF Asked, GroupsTyped
    <3>3. \A ip : Free(ip)' => Free(ip)
      BY DEF Free
    <3> QED
      BY <3>1, <3>2, <3>3, LastHostAssumption DEF FreeHosts
  <2> QED
    BY <2>7, <2>9, <2>10, <2>11, <2>12, <2>13 DEF PrefixOf, Asked
<1> QED
  BY <1>1, <1>2

\* The first two and the first three octets.
LEMMA Fields ==
    ASSUME NEW S, NEW s \in S \X S \X S \X S
    PROVE  /\ SubSeq(s, 1, 2) = <<s[1], s[2]>>
           /\ SubSeq(s, 1, 3) = <<s[1], s[2], s[3]>>
<1>1. s \in Seq(S) /\ Len(s) = 4 /\ \A i \in 1..4 : s[i] \in S
  <2>1. PICK w, x, y, z \in S : s = <<w, x, y, z>>
    OBVIOUS
  <2> QED
    BY <2>1
<1>2. /\ SubSeq(s, 1, 2) \in Seq(S) /\ Len(SubSeq(s, 1, 2)) = 2
      /\ SubSeq(s, 1, 2)[1] = s[1] /\ SubSeq(s, 1, 2)[2] = s[2]
  BY <1>1
<1>3. /\ SubSeq(s, 1, 3) \in Seq(S) /\ Len(SubSeq(s, 1, 3)) = 3
      /\ SubSeq(s, 1, 3)[1] = s[1] /\ SubSeq(s, 1, 3)[2] = s[2] /\ SubSeq(s, 1, 3)[3] = s[3]
  BY <1>1
<1>4. SubSeq(s, 1, 2) = <<s[1], s[2]>>
  <2> DEFINE t == SubSeq(s, 1, 2)
  <2> HIDE DEF t
  <2>1. t \in Seq(S) /\ Len(t) = 2 /\ t[1] = s[1] /\ t[2] = s[2]
    BY <1>2 DEF t
  <2>2. t = <<s[1], s[2]>>
    BY <2>1
  <2> QED
    BY <2>2 DEF t
<1>5. SubSeq(s, 1, 3) = <<s[1], s[2], s[3]>>
  <2> DEFINE t == SubSeq(s, 1, 3)
  <2> HIDE DEF t
  <2>1. t \in Seq(S) /\ Len(t) = 3 /\ t[1] = s[1] /\ t[2] = s[2] /\ t[3] = s[3]
    BY <1>3 DEF t
  <2>2. t = <<s[1], s[2], s[3]>>
    BY <2>1
  <2> QED
    BY <2>2 DEF t
<1> QED
  BY <1>4, <1>5

\* A base and a host number make an address.
LEMMA HostAppended ==
    ASSUME NEW x \in Int, NEW y \in Int, NEW z \in Int, NEW w \in Int
    PROVE  <<x, y, z>> \o <<w>> = <<x, y, z, w>>
<1> DEFINE s == <<x, y, z>>
           t == <<w>>
           u == s \o t
<1>1. s \in Seq(Int) /\ Len(s) = 3 /\ s[1] = x /\ s[2] = y /\ s[3] = z
  OBVIOUS
<1>2. t \in Seq(Int) /\ Len(t) = 1 /\ t[1] = w
  OBVIOUS
<1> HIDE DEF s, t
<1>3. u \in Seq(Int) /\ Len(u) = 4 /\ u[1] = x /\ u[2] = y /\ u[3] = z /\ u[4] = w
  <2>1. /\ u \in Seq(Int) /\ Len(u) = Len(s) + Len(t)
        /\ \A i \in 1..(Len(s) + Len(t)) :
               u[i] = IF i <= Len(s) THEN s[i] ELSE t[i - Len(s)]
    BY <1>1, <1>2, ConcatProperties
  <2> HIDE DEF u
  <2> QED
    BY <1>1, <1>2, <2>1
<1> HIDE DEF u
<1>4. u = <<x, y, z, w>>
  BY <1>3
<1> QED
  BY <1>4 DEF s, t, u

\* From AS 1200 on the region is unknown.
LEMMA RegionOfAs ==
    ASSUME NEW n \in Nat
    PROVE  IF n >= 1200 THEN RegionOf(n) = 7 ELSE RegionOf(n) \in 1..6
<1>1. CASE n >= 1200
  BY <1>1 DEF RegionOf
<1>2. CASE n < 200
  BY <1>2 DEF RegionOf
<1>3. CASE n >= 200 /\ n < 500
  BY <1>3 DEF RegionOf
<1>4. CASE n >= 500 /\ n < 800
  BY <1>4 DEF RegionOf
<1>5. CASE n >= 800 /\ n < 1000
  BY <1>5 DEF RegionOf
<1>6. CASE n >= 1000 /\ n < 1100
  BY <1>6 DEF RegionOf
<1>7. CASE n >= 1100 /\ n < 1200
  BY <1>7 DEF RegionOf
<1> QED
  BY <1>1, <1>2, <1>3, <1>4, <1>5, <1>6, <1>7

\* Below AS 3200 the second octet of a base stays below 64.
LEMMA UnknownBase ==
    ASSUME NEW n \in Nat, n < 3200
    PROVE  (n \div 50) % 256 \in 0..63
<1> DEFINE q == n \div 50
<1>1. q \in 0..63
  OBVIOUS
<1> HIDE DEF q
<1>2. q % 256 = q
  BY <1>1
<1> QED
  BY <1>1, <1>2 DEF q

Avoids100(table) == Len(table) \in Nat \ {0} /\ \A i \in 1..Len(table) : table[i] \in Int \ {100}

\* No known region has addresses that begin with 100, ...
LEMMA KnownTable ==
    ASSUME NEW r \in 1..6 PROVE Avoids100(RegionOctets[r])
<1>1. CASE r = 1
  BY <1>1 DEF RegionOctets, Avoids100
<1>2. CASE r = 2
  BY <1>2 DEF RegionOctets, Avoids100
<1>3. CASE r = 3
  BY <1>3 DEF RegionOctets, Avoids100
<1>4. CASE r = 4
  BY <1>4 DEF RegionOctets, Avoids100
<1>5. CASE r = 5
  BY <1>5 DEF RegionOctets, Avoids100
<1>6. CASE r = 6
  BY <1>6 DEF RegionOctets, Avoids100
<1> QED
  BY <1>1, <1>2, <1>3, <1>4, <1>5, <1>6

\* ... the unknown one has.
LEMMA UnknownOctets == RegionOctets[7] = [i \in 1..50 |-> 99 + i]
  BY DEF RegionOctets

\* get_subnet_base is outside 100.64.0.0/16 for the first 3200 ASes.
LEMMA BaseOfKnownAs ==
    ASSUME NEW n \in Nat, n < 3200
    PROVE  /\ SubnetBase(n) \in Int \X Int \X Int
           /\ SubnetBase(n)[1] # 100 \/ SubnetBase(n)[2] # 64
<1> DEFINE table == RegionOctets[RegionOf(n)]
           offset == n - RegionStart[RegionOf(n)]
<1>1. SubnetBase(n) = <<table[(offset % Len(table)) + 1],
                        (offset \div Len(table)) % 256,
                        (offset \div (Len(table) * 256)) % 256>>
  BY DEF SubnetBase
<1>2. CASE n >= 1200
  <2>0. RegionOf(n) = 7 /\ RegionStart[7] = 0
    BY <1>2, RegionOfAs DEF RegionStart
  <2>1. table = [i \in 1..50 |-> 99 + i] /\ offset = n
    BY <2>0, UnknownOctets
  <2>2. Len(table) = 50
    BY <2>1
  <2> HIDE DEF table, offset
  <2>3. n % 50 \in 0..49 /\ (n \div 50) % 256 \in 0..63 /\ (n \div (50 * 256)) % 256 \in Int
    BY UnknownBase
  <2>4. table[(n % 50) + 1] \in Int
    BY <2>1, <2>3
  <2> QED
    BY <1>1, <2>1, <2>2, <2>3, <2>4
<1>3. CASE n < 1200
  <2>1. PICK r \in 1..6 : RegionOf(n) = r
    BY <1>3, RegionOfAs
  <2>a. table = RegionOctets[r]
    BY <2>1
  <2>4. offset \in Int
    BY <2>1 DEF RegionStart
  <2> HIDE DEF table, offset
  <2>2. Len(table) \in Nat \ {0} /\ \A i \in 1..Len(table) : table[i] \in Int \ {100}
    <3>1. Avoids100(RegionOctets[r])
      BY KnownTable
    <3> QED
      BY <2>a, <3>1 DEF Avoids100
  <2>5. /\ (offset % Len(table)) + 1 \in 1..Len(table)
        /\ (offset \div Len(table)) % 256 \in Int
        /\ (offset \div (Len(table) * 256)) % 256 \in Int
    BY <2>2, <2>4
  <2>6. table[(offset % Len(table)) + 1] \in Int \ {100}
    BY <2>2, <2>5
  <2> QED
    BY <1>1, <2>5, <2>6
<1> QED
  BY <1>2, <1>3

\* None of the sources behind the group's is inside 100.64.0.0/16.
LEMMA Elsewhere ==
    ASSUME RoomForGroups, \A n \in AsNumbers : counters[n] \in Int,
           NEW a \in Agents, Config[a].group # NoGroup, NEW k \in 2..6,
           Source(a, k) # NoAddress
    PROVE  SubSeq(Source(a, k), 1, 2) # <<100, 64>>
<1>1. /\ Config[a].kind \in Kinds /\ Config[a].number \in Nat /\ Config[a].index \in Nat
      /\ Config[a].as \in Nat \cup {NoAs}
  BY ConfigAssumption DEF ConfigType
<1>2. CASE k = 2
  BY <1>2 DEF RoomForGroups, Source
<1>3. ASSUME NEW ip \in Int \X Int \X Int \X Int, Source(a, k) = ip, ip[1] # 100 \/ ip[2] # 64
      PROVE  SubSeq(Source(a, k), 1, 2) # <<100, 64>>
  BY <1>3, Fields
<1>4. CASE k = 3
  <2> DEFINE n == Config[a].as
             base == SubnetBase(n)
  <2>1. Source(a, k) = base \o <<counters[n]>> /\ n \in Nat /\ counters[n] \in Int
    BY <1>1, <1>4 DEF Source, AsAddress, NoAs, AsNumbers
  <2>2. n < 3200
    BY DEF RoomForGroups
  <2> HIDE DEF n
  <2>3. base \in Int \X Int \X Int /\ (base[1] # 100 \/ base[2] # 64)
    BY <2>1, <2>2, BaseOfKnownAs
  <2> HIDE DEF base
  <2>4. PICK x, y, z \in Int : base = <<x, y, z>>
    BY <2>3
  <2>5. base \o <<counters[n]>> = <<x, y, z, counters[n]>>
    BY <2>1, <2>4, HostAppended
  <2> QED
    BY <1>3, <2>1, <2>3, <2>4, <2>5
<1>5. CASE k \in {4, 5}
  <2> DEFINE n == Config[a].number
  <2>1. NumberAddress(n) \in Int \X Int \X Int \X Int /\ NumberAddress(n)[1] # 100
    <3>1. /\ (n % 6) + 1 \in 1..6 /\ (n \div 6) % 256 \in Int /\ n % 256 \in Int
          /\ 10 + ((n \div 256) % 246) \in Int
      BY <1>1
    <3>2. RegistryOctets[(n % 6) + 1] \in Int \ {100}
      BY <3>1 DEF RegistryOctets
    <3> QED
      BY <3>1, <3>2 DEF NumberAddress, RegistryHost
  <2>2. \/ Source(a, k) = NumberAddress(n)
        \/ Source(a, k) = [NumberAddress(n) EXCEPT ![4] = @ + 100]
    BY <1>5 DEF Source, SecondAddress
  <2> HIDE DEF n
  <2>3. Source(a, k) \in Int \X Int \X Int \X Int /\ Source(a, k)[1] # 100
    BY <2>1, <2>2
  <2> QED
    BY <1>3, <2>3
<1>6. CASE k = 6
  <2>1. Source(a, k) = FallbackAddress(a)
    BY <1>6 DEF Source
  <2>2. FallbackOctet[Config[a].kind] \in Int /\ 10 + (Config[a].index % 245) \in Int
    BY <1>1 DEF FallbackOctet, Kinds
  <2> QED
    BY <1>3, <2>1, <2>2 DEF FallbackAddress
<1> QED
  BY <1>2, <1>4, <1>5, <1>6

\* A member whose group has a free host number is given it.
LEMMA GroupServes ==
    ASSUME GInv, NEW a \in Agents, Config[a].group # NoGroup
    PROVE  LET g == Config[a].group IN
           /\ Usable(Source(a, 1)) =>
                  SubSeq(Source(a, 1), 1, 3) = <<100, 64, PrefixOf(g)>>
           /\ ~Usable(Source(a, 1)) => FreeHosts(g) = {}
<1> DEFINE g == Config[a].group
           h == Lowest(FreeHosts(g))
           ip == <<100, 64, PrefixOf(g), h>>
<1>1. g \in Groups
  BY DEF Groups
<1>2. PrefixOf(g) \in 0..255 /\ groups[g].next \in Nat
  BY <1>1, PrefixTyped DEF GInv, GroupsTyped
<1>3. Source(a, 1) = IF FreeHosts(g) = {} THEN NoAddress ELSE ip
  BY DEF Source, GroupAddress
<1>4. FreeHosts(g) # {} => h \in 0..255 /\ Free(ip)
  <2>1. FreeHosts(g) \in SUBSET Nat
    BY <1>2, LastHostAssumption DEF FreeHosts
  <2>2. FreeHosts(g) # {} => h \in FreeHosts(g)
    BY <2>1, LowestIsMember
  <2>3. \A i \in FreeHosts(g) : i \in 0..255 /\ Free(<<100, 64, PrefixOf(g), i>>)
    BY <1>2, LastHostAssumption DEF FreeHosts
  <2> HIDE DEF h
  <2> QED
    BY <2>2, <2>3
<1> HIDE DEF h
<1>5. FreeHosts(g) # {} => ip \in Addresses /\ ip # NoAddress
  BY <1>2, <1>4, NoAddressAssumption DEF Addresses, Octet
<1>6. FreeHosts(g) # {} => SubSeq(ip, 1, 3) = <<100, 64, PrefixOf(g)>>
  <2> SUFFICES ASSUME FreeHosts(g) # {} PROVE SubSeq(ip, 1, 3) = <<100, 64, PrefixOf(g)>>
    OBVIOUS
  <2>1. ip \in Int \X Int \X Int \X Int
    BY <1>2, <1>4
  <2> QED
    BY <2>1, Fields
<1> QED
  BY <1>3, <1>4, <1>5, <1>6 DEF Usable

\* The tables a request leaves behind.
LEMMA RequestKeeps ==
    ASSUME GInv, NEW a \in Agents, NEW k \in Nat, TouchGroup(a, k), TouchCounter(a, k),
           k = 1 => Usable(Source(a, 1)), assigned \subseteq assigned',
           IInv', UNCHANGED unpinned,
           \A b \in Agents \ {a} : ipOf'[b] = ipOf[b] /\ answer'[b] = answer[b],
           Config[a].pin = NoAddress =>
               /\ ipOf'[a] = answer'[a]
               /\ Config[a].group # NoGroup /\ answer'[a] # NoAddress => Placed(a)'
    PROVE  GInv'
<1>1. counters' \in [AsNumbers -> Int]
  <2>1. Config[a].as # NoAs => Config[a].as \in AsNumbers
    BY DEF AsNumbers
  <2> QED
    BY <2>1 DEF GInv, TouchCounter
<1>2. /\ GroupsTyped' /\ NumberInv'
      /\ \A h \in Asked : /\ h \in Asked' /\ groups'[h].prefix = groups[h].prefix
                          /\ FreeHosts(h) = {} => FreeHosts(h)' = {}
  BY TouchKeeps
<1>3. ASSUME NEW b \in Agents \ {a}, Config[b].pin = NoAddress
      PROVE  /\ ipOf'[b] = answer'[b]
             /\ Config[b].group # NoGroup /\ answer'[b] # NoAddress => Placed(b)'
  BY <1>2, <1>3 DEF GInv, MemberInv, Placed
<1>4. MemberInv'
  BY <1>3 DEF GInv, MemberInv
<1> QED
  BY <1>1, <1>2, <1>4 DEF GInv, RoomForGroups

\* An agent is placed when it is answered, whatever source its address is from.
LEMMA AssignKeepsGroups ==
    ASSUME GInv, NEW a \in Agents, NEW k \in 1..6, AssignFrom(a, k), a \notin unpinned
    PROVE  GInv'
<1> DEFINE g == Config[a].group
<1>1. /\ IInv' /\ answer' = [b \in Agents |-> IF b = a THEN Source(a, k) ELSE answer[b]]
  BY AssignPreserves DEF GInv
<1>2. /\ ipOf' = [b \in Agents |-> IF b = a THEN Source(a, k) ELSE ipOf[b]]
      /\ assigned \subseteq assigned' /\ UNCHANGED unpinned
      /\ TouchGroup(a, k) /\ TouchCounter(a, k)
      /\ Usable(Source(a, k)) /\ (k # 1 => ~Usable(Source(a, 1)))
  BY DEF AssignFrom, Register, GInv, IInv, TableInv
<1>3. g # NoGroup => /\ g \in Asked' /\ groups'[g].prefix = PrefixOf(g)
                     /\ k # 1 /\ FreeHosts(g) = {} => FreeHosts(g)' = {}
  BY <1>2, TouchKeeps
<1>4. g # NoGroup => Placed(a)'
  <2> SUFFICES ASSUME g # NoGroup PROVE Placed(a)'
    OBVIOUS
  <2>1. answer'[a] = Source(a, k)
    BY <1>1
  <2>2. CASE k = 1
    BY <1>2, <1>3, <2>1, <2>2, GroupServes DEF Placed
  <2>3. CASE k # 1
    <3>1. FreeHosts(g) = {}
      BY <1>2, <2>3, GroupServes
    <3>2. SubSeq(Source(a, k), 1, 2) # <<100, 64>>
      BY <1>2, <2>3, Elsewhere DEF GInv, Usable
    <3> QED
      BY <1>3, <2>1, <2>3, <3>1, <3>2 DEF Placed
  <2> QED
    BY <2>2, <2>3
<1> QED
  BY <1>1, <1>2, <1>4, RequestKeeps

\* The three outcomes of get_agent_ip.
LEMMA GetKeepsGroups ==
    ASSUME GInv, NEW a \in Agents, GetAgentIp(a)
    PROVE  GInv'
<1>1. IInv' /\ a \notin unpinned
  BY StepPreserves DEF Next, GInv, GetAgentIp, IInv, UnpinnedInv
<1>2. CASE AlreadyAssigned(a)
  <2>1. answer' = [b \in Agents |-> IF b = a THEN ipOf[a] ELSE answer[b]]
    BY <1>2 DEF AlreadyAssigned, GInv, IInv, TableInv
  <2>2. UNCHANGED <<unpinned, assigned, ipOf, groups, nextId, counters>>
    BY <1>2 DEF AlreadyAssigned
  <2>3. \A b \in Agents : Config[b].pin = NoAddress => answer'[b] = answer[b]
    BY <2>1 DEF GInv, MemberInv
  <2>4. \A b \in Agents : Config[b].pin = NoAddress /\ Placed(b) => Placed(b)'
    BY <2>2, <2>3 DEF Placed, Asked, FreeHosts, PrefixOf, Free
  <2>5. MemberInv'
    BY <2>2, <2>3, <2>4 DEF GInv, MemberInv
  <2> QED
    BY <1>1, <2>2, <2>5 DEF GInv, RoomForGroups, GroupsTyped, NumberInv, Asked
<1>3. ASSUME NEW k \in 1..6, AssignFrom(a, k)
      PROVE  GInv'
  BY <1>1, <1>3, AssignKeepsGroups
<1>4. CASE NothingLeft(a)
  <2>1. /\ UNCHANGED <<unpinned, assigned, ipOf, answer>>
        /\ TouchGroup(a, 7) /\ TouchCounter(a, 7)
        /\ ipOf[a] = NoAddress
    BY <1>4 DEF NothingLeft
  <2>2. answer[a] = NoAddress
    BY <2>1 DEF GInv, IInv, InverseInv
  <2>3. Config[a].pin = NoAddress =>
            /\ ipOf'[a] = answer'[a]
            /\ Config[a].group # NoGroup /\ answer'[a] # NoAddress => Placed(a)'
    BY <2>1, <2>2
  <2>4. 7 \in Nat /\ 7 # 1
    OBVIOUS
  <2> QED
    BY <1>1, <2>1, <2>3, <2>4, RequestKeeps
<1> QED
  BY <1>2, <1>3, <1>4 DEF GetAgentIp

\* Pinning a seed may take a group's host number, never its /24.
LEMMA PinKeepsGroups ==
    ASSUME GInv, NEW a \in Agents, PinSeed(a)
    PROVE  GInv'
<1>1. /\ IInv' /\ UNCHANGED <<groups, nextId, counters, answer>>
      /\ unpinned' \subseteq unpinned /\ Config[a].pin # NoAddress
  BY PinPreserves DEF GInv, PinSeed, MemberInv
<1>2. assigned \subseteq assigned' /\ \A b \in Agents \ {a} : ipOf'[b] = ipOf[b]
  BY DEF PinSeed, Register, GInv, IInv, TableInv
<1>3. \A g \in Asked : g \in Asked' /\ FreeHosts(g)' \subseteq FreeHosts(g)
  BY <1>1, <1>2 DEF Asked, FreeHosts, PrefixOf, Free
<1>4. \A b \in Agents : Placed(b) => Placed(b)'
  BY <1>1, <1>3 DEF Placed
<1>5. MemberInv'
  BY <1>1, <1>2, <1>4 DEF GInv, MemberInv
<1> QED
  BY <1>1, <1>5 DEF GInv, RoomForGroups, GroupsTyped, NumberInv, Asked

\* The invariant about groups is inductive.
LEMMA StepKeepsGroups == GInv /\ [Next]_vars => GInv'
<1> SUFFICES ASSUME GInv, [Next]_vars PROVE GInv'
  OBVIOUS
<1>1. CASE NextStage \/ UNCHANGED vars
  <2>1. UNCHANGED <<unpinned, assigned, ipOf, groups, nextId, counters, answer>>
    BY <1>1 DEF NextStage, vars
  <2>2. IInv'
    BY StepPreserves DEF GInv
  <2>3. MemberInv'
    BY <2>1, SMTT(30) DEF GInv, MemberInv, Placed, Asked, FreeHosts, PrefixOf, Free
  <2> QED
    BY <2>1, <2>2, <2>3 DEF GInv, RoomForGroups, GroupsTyped, NumberInv, Asked
<1> QED
  BY <1>1, GetKeepsGroups, PinKeepsGroups DEF Next

\* With an id for every group and the other sources of the members outside
\* 100.64.0.0/16, the members of a group share its /24, which no other group has,
\* and one that is sent elsewhere found it full; for any agents, any order and any
\* host numbers taken by others.
THEOREM GroupsShareTheirNet == RoomForGroups /\ Spec => []GroupsKept
<1>1. GInv => GroupsKept
  <2> SUFFICES ASSUME GInv PROVE GroupsKept
    OBVIOUS
  <2>1. ASSUME NEW g \in Groups, NEW h \in Groups, g # h, groups[g] # NewGroup
        PROVE  groups[g].prefix # groups[h].prefix
    <3>1. CASE groups[h] # NewGroup
      BY <2>1, <3>1 DEF GInv, NumberInv, Asked
    <3>2. CASE groups[h] = NewGroup
      BY <2>1, <3>2, PrefixTyped DEF PrefixOf, NewGroup
    <3> QED
      BY <3>1, <3>2
  <2>2. ASSUME NEW a \in Agents, Config[a].group # NoGroup, answer[a] # NoAddress,
               Config[a].pin = NoAddress
        PROVE  Placed(a)
    BY <2>2 DEF GInv, MemberInv
  <2> QED
    BY <2>1, <2>2 DEF GroupsKept, Placed
<1> QED
  BY <1>1, InitGInv, StepKeepsGroups, PTL DEF Spec

=============================================================================
