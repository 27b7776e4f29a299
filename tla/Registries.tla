----------------------------- MODULE Registries -----------------------------
(***************************************************************************)
(* The registries agents keep in the shared directory: agent_registry.json *)
(* (_register_self of agents/base_agent.py), public_nodes.json             *)
(* (agents/public_node_discovery.py) and the info file by which the wallet *)
(* process of a miner hands its address to the mining process of the same  *)
(* agent (agents/regular_user.py, agents/autonomous_miner.py).  Both       *)
(* registries are read, changed, written beside and renamed under a lock,  *)
(* which the DNS server (agents/dns_server.py) shares and the discovery of *)
(* the monitor (agents/agent_discovery.py) does not take.                  *)
(***************************************************************************)
EXTENDS SequencesExt

CONSTANTS
    Ids,          \* the agents
    MinerIds,     \* those with a mining process beside the wallet process
    SeedIds,      \* attribute is_seed_node
    PublicIds,    \* attribute is_public_node, with a daemon
    RemoteIds,    \* those without a daemon that look for a public one
    ListedIds,    \* the orchestrator's entries of the registry
    Unknown       \* no address, no view

Processes == ({"wallet"} \X Ids) \cup ({"miner"} \X MinerIds)
Files == {"agents", "public"}

\* What a registry may hold.
Contents == Seq([id : Ids, address : Ids \cup {Unknown}])

ASSUME RegistryAssumption ==
    /\ IsFiniteSet(Ids)
    /\ MinerIds \subseteq Ids /\ SeedIds \subseteq Ids /\ ListedIds \subseteq Ids
    /\ PublicIds \subseteq ListedIds \ RemoteIds
    /\ Unknown \notin Ids /\ Unknown \notin Processes /\ Unknown \notin Contents

\* The address of an agent's wallet: all that matters is whose it is.
AddressOf(id) == id

VARIABLES
    file,     \* the content of each registry, a sequence of entries
    beside,   \* the temporary file of each
    holder,   \* who holds the lock of each, or Unknown
    infoFile, \* the address in the info file of each agent
    place,    \* where each process is
    addr,     \* self.wallet_address of each process
    memory,   \* what each process has read and changed
    view,     \* what the discovery has read last
    seedIps   \* the seeds the DNS server answers with

registries == <<file, beside, holder, infoFile, place, addr, memory, view, seedIps>>

\* The content of a file that is being written in place.
Partial == Unknown

\* The orchestrator's entries.
Prepared(f) == IF f = "agents" THEN ListedIds ELSE PublicIds

RegistriesInit ==
    /\ file = [f \in Files |->
                  [i \in DOMAIN SetToSeq(Prepared(f)) |->
                      [id |-> SetToSeq(Prepared(f))[i], address |-> Unknown]]]
    /\ beside = [f \in Files |-> Unknown]
    /\ holder = [f \in Files |-> Unknown]
    /\ infoFile = [id \in MinerIds |-> Unknown]
    /\ place = [p \in Processes |-> IF p[1] = "wallet" THEN "connect" ELSE "poll"]
    /\ addr = [p \in Processes |-> Unknown]
    /\ memory = [p \in Processes |-> Unknown]
    /\ view = Unknown /\ seedIps = {}

Moves(p, from, to) == place[p] = from /\ place' = [place EXCEPT ![p] = to]

-----------------------------------------------------------------------------
(* setup: the daemon, the wallet, the address *)

\* _setup_remote_daemon_connection: select_daemon excludes the agent itself; a
\* registry that cannot be parsed counts as one without nodes.
FindDaemon(p) ==
    /\ IF p[2] \notin RemoteIds THEN Moves(p, "connect", "wallet")
       ELSE IF file["public"] = Partial
               \/ \A i \in DOMAIN file["public"] : file["public"][i].id = p[2]
            THEN Moves(p, "connect", "noDaemon")
            ELSE Moves(p, "connect", "wallet")
    /\ UNCHANGED <<file, beside, holder, infoFile, addr, memory, view, seedIps>>

\* _setup_wallet: the address, or an error that is only logged.
SetupWallet(p) ==
    /\ \/ addr' = [addr EXCEPT ![p] = AddressOf(p[2])]
          /\ Moves(p, "wallet", IF p[2] \in MinerIds THEN "publish" ELSE "register")
       \/ UNCHANGED addr /\ Moves(p, "wallet", "register")
    /\ UNCHANGED <<file, beside, holder, infoFile, memory, view, seedIps>>

\* _register_miner_info: given up after three attempts.
PublishInfo(p) ==
    /\ Moves(p, "publish", "register")
    /\ \/ infoFile' = [infoFile EXCEPT ![p[2]] = addr[p]]
       \/ UNCHANGED infoFile
    /\ UNCHANGED <<file, beside, holder, addr, memory, view, seedIps>>

\* The registry's address of an agent; an address that is there but null makes
\* the search raise, as good as none.
Listed(id) ==
    LET known == {i \in DOMAIN file["agents"] : file["agents"][i].id = id}
    IN  IF known = {} THEN Unknown ELSE file["agents"][CHOOSE i \in known : TRUE].address

\* _get_mining_address: the info file first, then the registry under its lock.
MiningAddress(p) ==
    IF infoFile[p[2]] # Unknown THEN infoFile[p[2]]
    ELSE IF holder["agents"] = Unknown /\ file["agents"] # Partial THEN Listed(p[2])
    ELSE Unknown

FindAddress(p) ==
    /\ MiningAddress(p) # Unknown
    /\ addr' = [addr EXCEPT ![p] = MiningAddress(p)]
    /\ Moves(p, "poll", "register")
    /\ UNCHANGED <<file, beside, holder, infoFile, memory, view, seedIps>>

\* After five minutes the process raises.
PollTimesOut(p) ==
    /\ Moves(p, "poll", "noAddress")
    /\ UNCHANGED <<file, beside, holder, infoFile, addr, memory, view, seedIps>>

-----------------------------------------------------------------------------
(* _register_self, update_node_status *)

\* The file a process is at, and where it goes next.
At(p) == IF place[p] \in {"announce", "readPublic", "writePublic", "renamePublic"}
         THEN "public" ELSE "agents"

After(p) ==
    IF At(p) = "agents" /\ p[2] \in PublicIds THEN "announce" ELSE "running"

BugMayEnter(f) == TRUE

MayEnter(f) == holder[f] = Unknown

Enter(p) ==
    /\ MayEnter(At(p))
    /\ Moves(p, "register", "read") \/ Moves(p, "announce", "readPublic")
    /\ holder' = [holder EXCEPT ![At(p)] = p]
    /\ UNCHANGED <<file, beside, infoFile, addr, memory, view, seedIps>>

\* The entry of the agent is changed where it is, or appended.  The address in
\* an entry of a public node stands for its time of registration.
Changed(entries, p) ==
    IF \E i \in DOMAIN entries : entries[i].id = p[2]
    THEN [i \in DOMAIN entries |->
             IF entries[i].id = p[2] THEN [entries[i] EXCEPT !.address = addr[p]]
             ELSE entries[i]]
    ELSE Append(entries, [id |-> p[2], address |-> addr[p]])

ReadEntries(p) ==
    /\ file[At(p)] # Partial
    /\ Moves(p, "read", "write") \/ Moves(p, "readPublic", "writePublic")
    /\ memory' = [memory EXCEPT ![p] = Changed(file[At(p)], p)]
    /\ UNCHANGED <<file, beside, holder, infoFile, addr, view, seedIps>>

BugWritten(f, p) == [file EXCEPT ![f] = Partial]

\* Writing the temporary file leaves the registry as it is.
Written(f, p) == file

WriteBeside(p) ==
    /\ Moves(p, "write", "rename") \/ Moves(p, "writePublic", "renamePublic")
    /\ beside' = [beside EXCEPT ![At(p)] = memory[p]]
    /\ file' = Written(At(p), p)
    /\ UNCHANGED <<holder, infoFile, addr, memory, view, seedIps>>

Rename(p) ==
    /\ place[p] \in {"rename", "renamePublic"}
    /\ file' = [file EXCEPT ![At(p)] = beside[At(p)]]
    /\ place' = [place EXCEPT ![p] = After(p)]
    /\ holder' = [holder EXCEPT ![At(p)] = Unknown]
    /\ UNCHANGED <<beside, infoFile, addr, memory, view, seedIps>>

\* An error on the way gives the lock back and is only logged.
RegisterFails(p) ==
    /\ place[p] \in {"read", "write", "readPublic", "writePublic"}
    /\ place' = [place EXCEPT ![p] = After(p)]
    /\ holder' = [holder EXCEPT ![At(p)] = Unknown]
    /\ UNCHANGED <<file, beside, infoFile, addr, memory, view, seedIps>>

-----------------------------------------------------------------------------
(* Readers *)

\* get_agent_registry, refreshed: no lock; a file that cannot be parsed leaves
\* the registry without agents.
Discovery ==
    /\ view' = IF file["agents"] = Partial THEN <<>> ELSE file["agents"]
    /\ UNCHANGED <<file, beside, holder, infoFile, place, addr, memory, seedIps>>

\* _load_seed_ips: the seed nodes, without them the miners; if there are none,
\* or the file cannot be parsed, the answer remains.
Seeds ==
    LET ids == {file["agents"][i].id : i \in DOMAIN file["agents"]}
    IN  IF ids \cap SeedIds # {} THEN ids \cap SeedIds ELSE ids \cap MinerIds

LoadSeeds ==
    /\ holder["agents"] = Unknown
    /\ seedIps' = IF file["agents"] = Partial \/ Seeds = {} THEN seedIps ELSE Seeds
    /\ UNCHANGED <<file, beside, holder, infoFile, place, addr, memory, view>>

RegistriesNext ==
    \/ \E p \in Processes :
          \/ FindDaemon(p) \/ SetupWallet(p) \/ PublishInfo(p)
          \/ p[1] = "miner" /\ (FindAddress(p) \/ PollTimesOut(p))
          \/ Enter(p) \/ ReadEntries(p) \/ WriteBeside(p) \/ Rename(p) \/ RegisterFails(p)
    \/ Discovery
    \/ LoadSeeds

RegistriesSpec == RegistriesInit /\ [][RegistriesNext]_registries

-----------------------------------------------------------------------------
(* Properties. *)

\* Readers without a lock see whole registries ("even unlocked readers never
\* observe a truncated/partial file"): the discovery always sees the agents
\* the orchestrator listed, each of them once, and nobody who looks for a
\* daemon finds none while there is a public node.
DiscoverySeesAll ==
    /\ view # Unknown =>
           /\ \A id \in ListedIds : \E i \in DOMAIN view : view[i].id = id
           /\ \A i, j \in DOMAIN view : view[i].id = view[j].id => i = j
    /\ \A p \in Processes : place[p] = "noDaemon" => PublicIds \subseteq {p[2]}

\* Both processes of a miner write the agent's address into one entry, and
\* any other agent its own: an address that is registered stays, whoever
\* registers later, and whatever had been read before.
AddressesStay ==
    [][\A i \in DOMAIN file["agents"] :
           file["agents"][i].address # Unknown =>
               /\ i \in DOMAIN file'["agents"]
               /\ file'["agents"][i] = file["agents"][i]]_file

=============================================================================
