--------------------------- MODULE MCIpAllocation ---------------------------
(* Instances of IpAllocation for model checking. *)
EXTENDS IpAllocation

\* A user on no particular network node, in no group.
User(number, index) ==
    [kind |-> "user", category |-> "user", number |-> number, index |-> index,
     group |-> NoGroup, as |-> NoAs, gml |-> NoAddress, pin |-> NoAddress]

SeedIp == <<176, 9, 0, 187>>
DnsIp == <<88, 198, 163, 90>>

\* Every source, taken and exhausted, with LastHost = 11: a seed with the
\* address of a GML node and one with the DNS server's; three members of one
\* subnet group, one of another and a GML node inside the first group's /24;
\* three agents in AS 0; a miner and three users with one number, of which one
\* is left with the geographic fallback and another, 245 places down the list,
\* may be left with nothing.
MixedConfig ==
  [ dns     |-> [User(0, 0) EXCEPT !.kind = "infrastructure", !.gml = DnsIp],
    seed1   |-> [User(0, 0) EXCEPT !.pin = SeedIp],
    seed2   |-> [User(0, 1) EXCEPT !.pin = DnsIp],
    gml     |-> [User(2, 2) EXCEPT !.gml = SeedIp, !.as = 0],
    inside  |-> [User(3, 3) EXCEPT !.gml = <<100, 64, 0, 10>>, !.as = 0],
    sybil1  |-> [User(4, 4) EXCEPT !.group = "sybil"],
    sybil2  |-> [User(5, 5) EXCEPT !.group = "sybil"],
    sybil3  |-> [User(6, 6) EXCEPT !.group = "sybil"],
    other   |-> [User(7, 7) EXCEPT !.group = "other"],
    miner0  |-> [User(1000, 8) EXCEPT !.category = "miner"],
    user1   |-> User(1000, 9),
    user2   |-> User(1000, 10),
    user3   |-> [User(1000, 255) EXCEPT !.as = 0] ]

MixedAgents == DOMAIN MixedConfig

\* Agents that differ in their names only are served in one order.
MixedOrder ==
  [a \in MixedAgents |->
      CASE a = "sybil2" -> {"sybil1"}
        [] a = "sybil3" -> {"sybil2"}
        [] a = "user1" -> {"miner0"}
        [] OTHER -> {}]

ASSUME MixedAssumption == RoomForGroups

=============================================================================
