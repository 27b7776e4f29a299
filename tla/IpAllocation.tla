---------------------------- MODULE IpAllocation ----------------------------
(***************************************************************************)
(* How the orchestrator gives every host of a simulation its IPv4 address  *)
(* (src/ip: registry.rs, allocator.rs, as_manager.rs;                      *)
(* agent/fallback_seeds.rs).  The program is sequential: the DNS server is *)
(* served first, then the addresses of Monero's fallback seeds are pinned, *)
(* then every other agent asks get_agent_ip, which tries one source of     *)
(* addresses after the other and takes the first one nobody has.  Within a *)
(* stage any order is allowed that Earlier does not exclude: the code's is *)
(* that of the agents' names.                                              *)
(*                                                                         *)
(* An address is the tuple of its four octets.  Agent names matter only    *)
(* through the number assign_ip reads from them.                           *)
(***************************************************************************)
EXTENDS Integers, Sequences, FiniteSets

CONSTANTS
    Agents,     \* the agents that need an address
    Config,     \* what the configuration says of each: see ConfigType
    Earlier,    \* for each agent, the agents that are served before it
    NoGroup,    \* no subnet_group
    NoAddress,  \* no address given, or the allocation failed
    GroupIds,   \* next_subnet_group_id is modulo this: a u8
    LastHost    \* the last host number of a /24 that is given out

Octet == 0..255

Addresses == Octet \X Octet \X Octet \X Octet

NoAs == -1

Kinds == {"user", "distributor", "script", "infrastructure"}

\* category and number: what assign_ip reads from the name; index: the
\* position in the list of agents; as and gml: attributes of the network node
\* it sits on; pin: a fallback seed's address.
ConfigType ==
    [kind : Kinds, category : STRING, number : Nat, index : Nat,
     group : {Config[a].group : a \in Agents} \cup {NoGroup},
     as : Nat \cup {NoAs},
     gml : Addresses \cup {NoAddress}, pin : Addresses \cup {NoAddress}]

ASSUME ConfigAssumption == \A a \in Agents : Config[a] \in ConfigType
\* Seeds are agents of the configuration; the DNS server is not.
ASSUME SeedAssumption ==
    \A a \in Agents : Config[a].pin # NoAddress => Config[a].kind # "infrastructure"
ASSUME NoAddressAssumption == NoAddress \notin Addresses \cup Octet
ASSUME GroupIdsAssumption == GroupIds \in 1..256
ASSUME LastHostAssumption == LastHost \in 10..254

VARIABLES
    stage,     \* "dns", "pins" or "agents"
    unpinned,  \* fallback seeds whose address is still to be pinned
    assigned,  \* assigned_ips and used_ips: pairs <<address, agent>>
    ipOf,      \* agent_to_ip
    groups,    \* subnet_groups: the third octet and next_host, per group
    nextId,    \* next_subnet_group_id
    counters,  \* host_counters, per AS
    answer,    \* what get_agent_ip has returned to each agent
    failed     \* the generation ended with an error

vars == <<stage, unpinned, assigned, ipOf, groups, nextId, counters, answer,
          failed>>

FirstHost == 10

Groups == {Config[a].group : a \in Agents} \ {NoGroup}

AsNumbers == {Config[a].as : a \in Agents} \ {NoAs}

\* A group that has not asked yet.
NewGroup == [prefix |-> NoAddress, next |-> FirstHost]

Init ==
    /\ stage = "dns"
    /\ unpinned = {a \in Agents : Config[a].pin # NoAddress}
    /\ assigned = {}
    /\ ipOf = [a \in Agents |-> NoAddress]
    /\ groups = [g \in Groups |-> NewGroup]
    /\ nextId = 0
    /\ counters = [n \in AsNumbers |-> FirstHost]
    /\ answer = [a \in Agents |-> NoAddress]
    /\ failed = FALSE

-----------------------------------------------------------------------------
(* The sources of addresses *)

\* Bug: an address is checked against nothing.
BugFree(ip) == TRUE

Free(ip) == \A p \in assigned : p[1] # ip

\* The third octet of the group's /24, a new one for a new group.
PrefixOf(g) == IF groups[g] = NewGroup THEN nextId ELSE groups[g].prefix

\* The group's host numbers that can still be given out.
FreeHosts(g) ==
    {h \in groups[g].next..LastHost : Free(<<100, 64, PrefixOf(g), h>>)}

Lowest(S) == CHOOSE h \in S : \A k \in S : h <= k

\* assign_subnet_group_ip
GroupAddress(g) ==
    IF g = NoGroup \/ FreeHosts(g) = {} THEN NoAddress
    ELSE <<100, 64, PrefixOf(g), Lowest(FreeHosts(g))>>

\* AsRegion, in the order of the tables below; the last is Unknown.
RegionOf(as) ==
    CASE as \in 0..199 -> 1
      [] as \in 200..499 -> 2
      [] as \in 500..799 -> 3
      [] as \in 800..999 -> 4
      [] as \in 1000..1099 -> 5
      [] as \in 1100..1199 -> 6
      [] OTHER -> 7

RegionStart == <<0, 200, 500, 800, 1000, 1100, 0>>

\* The first octets of each region; an unknown region has 100 to 149.
RegionOctets ==
    << <<3, 4, 6, 7, 8, 9, 13, 15, 16, 18, 20, 23, 24, 50, 63, 64, 65, 66, 67, 68>>,
       <<2, 5, 25, 31, 37, 46, 51, 62, 77, 78, 79, 80, 81, 82, 83, 84, 85, 86, 87, 88>>,
       <<1, 14, 27, 36, 39, 42, 43, 49, 58, 59, 60, 61, 101, 103, 110, 111, 112, 113,
         114, 115>>,
       <<177, 179, 181, 186, 187, 189, 190, 191, 200, 201>>,
       <<41, 102, 105, 154, 196, 197>>,
       <<120, 123, 121, 122, 139, 144, 202, 203>>,
       [i \in 1..50 |-> 99 + i] >>

\* AsSubnetManager::get_subnet_base
SubnetBase(as) ==
    LET table == RegionOctets[RegionOf(as)]
        offset == as - RegionStart[RegionOf(as)]
    IN <<table[(offset % Len(table)) + 1],
         (offset \div Len(table)) % 256,
         (offset \div (Len(table) * 256)) % 256>>

\* assign_as_aware_ip has run out of host numbers.
Exhausted(as) == counters[as] > LastHost

AsAddress(as) ==
    IF as = NoAs \/ Exhausted(as) THEN NoAddress
    ELSE SubnetBase(as) \o <<counters[as]>>

RegistryOctets == <<72, 91, 116, 45, 156, 210>>

RegistryHost(n) == 10 + ((n \div 256) % 246)

\* assign_ip: the address that belongs to a number, ...
NumberAddress(n) ==
    <<RegistryOctets[(n % 6) + 1], (n \div 6) % 256, n % 256, RegistryHost(n)>>

\* ... and the one to use when it is taken.
SecondAddress(n) ==
    IF RegistryHost(n) + 100 > 254 THEN NoAddress
    ELSE [NumberAddress(n) EXCEPT ![4] = @ + 100]

FallbackOctet ==
    [user |-> 10, distributor |-> 20, script |-> 30, infrastructure |-> 40]

\* The geographic fallback at the end of get_agent_ip.
FallbackAddress(a) ==
    <<198, 18, FallbackOctet[Config[a].kind], 10 + (Config[a].index % 245)>>

\* What get_agent_ip tries, in this order.
Source(a, k) ==
    CASE k = 1 -> GroupAddress(Config[a].group)
      [] k = 2 -> Config[a].gml
      [] k = 3 -> AsAddress(Config[a].as)
      [] k = 4 -> NumberAddress(Config[a].number)
      [] k = 5 -> SecondAddress(Config[a].number)
      [] k = 6 -> FallbackAddress(a)

Usable(ip) == ip # NoAddress /\ Free(ip)

-----------------------------------------------------------------------------

\* Bug: the reverse lookup is not filled.
BugRegister(ip, a) ==
    /\ assigned' = assigned \cup {<<ip, a>>}
    /\ UNCHANGED ipOf

Register(ip, a) ==
    /\ assigned' = assigned \cup {<<ip, a>>}
    /\ ipOf' = [ipOf EXCEPT ![a] = ip]

\* Bug: a new group does not use an id up.
BugNextId(g) == nextId

\* next_subnet_group_id after g has asked: a new group uses one up, wrapping.
NextId(g) ==
    IF groups[g] = NewGroup THEN (nextId + 1) % GroupIds ELSE nextId

\* What the attempts before the k-th, and the k-th, leave behind: the group's
\* entry, also when it has no host left, ...
TouchGroup(a, k) ==
    LET g == Config[a].group IN
    IF g = NoGroup THEN UNCHANGED <<groups, nextId>>
    ELSE /\ groups' = [groups EXCEPT ![g] =
                [prefix |-> PrefixOf(g),
                 next |-> IF k = 1 THEN Source(a, 1)[4] + 1 ELSE @.next]]
         /\ nextId' = NextId(g)

\* ... and the counter of the AS, also when its address is taken.
TouchCounter(a, k) ==
    LET n == Config[a].as IN
    counters' = IF k >= 3 /\ n # NoAs /\ ~Exhausted(n)
                THEN [counters EXCEPT ![n] = @ + 1] ELSE counters

\* Priority 0: an agent that has an address keeps it.
AlreadyAssigned(a) ==
    /\ ipOf[a] # NoAddress
    /\ answer' = [answer EXCEPT ![a] = ipOf[a]]
    /\ UNCHANGED <<stage, unpinned, assigned, ipOf, groups, nextId, counters, failed>>

\* The k-th source is the first with a usable address.
AssignFrom(a, k) ==
    /\ ipOf[a] = NoAddress
    /\ Usable(Source(a, k))
    /\ \A j \in 1..k-1 : ~Usable(Source(a, j))
    /\ Register(Source(a, k), a)
    /\ answer' = [answer EXCEPT ![a] = Source(a, k)]
    /\ TouchGroup(a, k) /\ TouchCounter(a, k)
    /\ UNCHANGED <<stage, unpinned, failed>>

\* Even the fallback is taken: the generation ends with an error.
NothingLeft(a) ==
    /\ ipOf[a] = NoAddress
    /\ \A k \in 1..6 : ~Usable(Source(a, k))
    /\ failed' = TRUE
    /\ TouchGroup(a, 7) /\ TouchCounter(a, 7)
    /\ UNCHANGED <<stage, unpinned, assigned, ipOf, answer>>

GetAgentIp(a) ==
    /\ ~failed
    /\ stage = IF Config[a].kind = "infrastructure" THEN "dns" ELSE "agents"
    /\ \A b \in Earlier[a] : answer[b] # NoAddress
    /\ \/ AlreadyAssigned(a)
       \/ \E k \in 1..6 : AssignFrom(a, k)
       \/ NothingLeft(a)

\* prepare_fallback_seeds, for the seeds the configuration declares: an address
\* somebody has is not pinned.
PinSeed(a) ==
    /\ stage = "pins" /\ ~failed
    /\ a \in unpinned
    /\ unpinned' = unpinned \ {a}
    /\ IF Free(Config[a].pin) THEN Register(Config[a].pin, a)
       ELSE UNCHANGED <<assigned, ipOf>>
    /\ UNCHANGED <<stage, groups, nextId, counters, answer, failed>>

\* The stages of generate_agent_shadow_config.
NextStage ==
    /\ ~failed
    /\ \/ stage = "dns" /\ stage' = "pins"
       \/ stage = "pins" /\ unpinned = {} /\ stage' = "agents"
    /\ UNCHANGED <<unpinned, assigned, ipOf, groups, nextId, counters, answer,
                   failed>>

Next == NextStage \/ \E a \in Agents : GetAgentIp(a) \/ PinSeed(a)

Spec == Init /\ [][Next]_vars

-----------------------------------------------------------------------------
(* Properties *)

\* Two agents never get one address, whatever mix of pinned seeds, groups,
\* GML addresses, AS subnets and fallbacks they come from, and in whatever
\* order ("ensure uniqueness").
NoSharedAddress ==
    \A a, b \in Agents :
       a # b /\ answer[a] # NoAddress => answer[a] # answer[b]

\* The members of a subnet group share its /24, the one its first member got
\* and no other group has ("Each subnet group gets a unique /24"); only when the
\* group has no free host number left a member is sent elsewhere.
GroupsKept ==
    /\ \A a \in Agents :
          LET g == Config[a].group IN
          g # NoGroup /\ answer[a] # NoAddress /\ Config[a].pin = NoAddress
             => \/ SubSeq(answer[a], 1, 3) = <<100, 64, groups[g].prefix>>
                \/ FreeHosts(g) = {} /\ SubSeq(answer[a], 1, 2) # <<100, 64>>
    /\ \A g, h \in Groups :
          g # h /\ groups[g] # NewGroup => groups[g].prefix # groups[h].prefix

\* Under what configurations GroupsKept can hold: there is an id for every group
\* (after 256 they wrap), and the other sources of a member are outside
\* 100.64.0.0/16. Its node's address may not be there; get_subnet_base gives
\* 100.64 to AS 3200, of no known region, and to every 12800th after it.
RoomForGroups ==
    /\ IsFiniteSet(Groups) /\ Cardinality(Groups) <= GroupIds
    /\ \A a \in Agents :
          Config[a].group # NoGroup =>
             /\ Config[a].as < 3200
             /\ Config[a].gml # NoAddress => SubSeq(Config[a].gml, 1, 2) # <<100, 64>>

\* What get_agent_ip has answered once it answers again: the peer lists and
\* the hosts are built from separate calls.
AnswerIsStable ==
    [][\A a \in Agents : answer[a] # NoAddress => answer'[a] = answer[a]]_vars

=============================================================================
