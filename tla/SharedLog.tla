----------------------------- MODULE SharedLog -----------------------------
(***************************************************************************)
(* A list file in the shared directory (transactions.json): several agents *)
(* append to it, the simulation monitor reads it without any lock          *)
(* (agents/base_agent.py, append_shared_list and read_shared_state).       *)
(*                                                                         *)
(* The file system is modelled as far as the protocol depends on it: a     *)
(* name refers to an inode, open(.., 'w') truncates the inode its name     *)
(* refers to, rename moves the temporary file's inode under the list's     *)
(* name in one step, and a process goes on reading the inode it opened.    *)
(* A flock goes with the process that holds it.  An inode is whole when    *)
(* json.dump has finished and the file is closed.                          *)
(*                                                                         *)
(* Every append brings an entry of its own, so a list is modelled by the   *)
(* set of its entries.                                                     *)
(***************************************************************************)
EXTENDS Integers, FiniteSets

CONSTANTS
    Writers,     \* the processes that append
    Readers,     \* the processes that read without the lock
    Inodes,      \* inodes of the file system
    NoInode,     \* a name that refers to nothing, a handle that is closed
    NoWriter,    \* nobody holds the lock
    MaxAppends,  \* bound: appends each writer starts
    MaxFaults    \* bound: I/O errors and kills of one behaviour

ASSUME NoInodeAssumption == NoInode \notin Inodes
ASSUME NoWriterAssumption == NoWriter \notin Writers
ASSUME MaxAppendsAssumption == MaxAppends \in Nat
ASSUME MaxFaultsAssumption == MaxFaults \in Nat

VARIABLES
    pc,        \* where each writer is in append_shared_list
    count,     \* how many appends each writer has started
    buf,       \* data, the list each writer is about to store
    wfd,       \* the temporary file each writer has open
    lock,      \* who holds the flock on the .lock file
    content,   \* what each inode holds
    file,      \* the inode named transactions.json
    tmp,       \* the inode named transactions.tmp
    rfd,       \* the file each reader has open
    seen,      \* what each reader read last
    returned,  \* history: entries whose append returned
    raised,    \* history: entries whose append raised
    faults     \* deviations spent so far

writers == <<pc, count, buf, wfd, lock>>
disk == <<content, file, tmp>>
readers == <<rfd, seen>>
history == <<returned, raised>>
vars == <<writers, disk, readers, history, faults>>

\* The entries of the lists.
Items == Writers \X (1..MaxAppends)

Item(w) == <<w, count[w]>>

Partial == [data |-> {}, whole |-> FALSE]

Whole(entries) == [data |-> entries, whole |-> TRUE]

Init ==
    /\ pc = [w \in Writers |-> "idle"]
    /\ count = [w \in Writers |-> 0]
    /\ buf = [w \in Writers |-> {}]
    /\ wfd = [w \in Writers |-> NoInode]
    /\ lock = NoWriter
    /\ content = [i \in Inodes |-> Partial]
    /\ file = NoInode
    /\ tmp = NoInode
    /\ rfd = [r \in Readers |-> NoInode]
    /\ seen = [r \in Readers |-> {}]
    /\ returned = {}
    /\ raised = {}
    /\ faults = 0

-----------------------------------------------------------------------------

Fault == faults < MaxFaults /\ faults' = faults + 1

NoFault == UNCHANGED faults

Goto(w, place) == pc' = [pc EXCEPT ![w] = place]

\* Inodes nothing refers to.
Free ==
    Inodes \ ({file, tmp} \cup {rfd[r] : r \in Readers} \cup {wfd[w] : w \in Writers})

\* The list the name transactions.json stands for.
Log == IF file = NoInode THEN {} ELSE content[file].data

\* Bug: the lock is not waited for.
BugLockFree == TRUE

LockFree == lock = NoWriter

\* Bug: the lock survives the call.
BugRelease(w) == UNCHANGED lock

\* Closing the .lock file gives up the flock, if w holds it.
Release(w) == lock' = IF lock = w THEN NoWriter ELSE lock

\* Bug: an existing list is not read.
BugPrior == {}

\* The list read under the lock, or the one a missing file stands for.
Prior == Log

\* data.append(item)
Extended(w) == Prior \cup {Item(w)}

\* Where a file operation of the call may raise.
Raising == {"read", "open", "dump", "rename"}

-----------------------------------------------------------------------------
(* append_shared_list *)

StartAppend(w) ==
    /\ pc[w] = "idle"
    /\ count[w] < MaxAppends
    /\ count' = [count EXCEPT ![w] = @ + 1]
    /\ Goto(w, "wait")
    /\ UNCHANGED <<buf, wfd, lock, disk, readers, history, faults>>

\* flock(lock_f, LOCK_EX)
AcquireLock(w) ==
    /\ pc[w] = "wait"
    /\ LockFree
    /\ lock' = w
    /\ Goto(w, "read")
    /\ UNCHANGED <<count, buf, wfd, disk, readers, history, faults>>

\* The except clauses: the lock goes with the with statement, the error to
\* the caller, the temporary file stays as it is.
Raise(w) ==
    /\ raised' = raised \cup {Item(w)}
    /\ Release(w)
    /\ wfd' = [wfd EXCEPT ![w] = NoInode]
    /\ buf' = [buf EXCEPT ![w] = {}]
    /\ Goto(w, "idle")

\* json.load raises on a list that is not whole.
ReadList(w) ==
    /\ pc[w] = "read"
    /\ IF file = NoInode \/ content[file].whole
       THEN /\ buf' = [buf EXCEPT ![w] = Extended(w)]
            /\ Goto(w, "open")
            /\ UNCHANGED <<wfd, lock, raised>>
       ELSE Raise(w)
    /\ UNCHANGED <<count, disk, readers, returned, faults>>

\* Bug: the list itself is opened for writing.
BugTarget == IF file = NoInode THEN tmp ELSE file

\* What open(temp_filepath, 'w') opens, if the name exists.
Target == tmp

\* A temporary file left behind is truncated, otherwise one is created.
OpenTemp(w) ==
    /\ pc[w] = "open"
    /\ \E i \in Inodes :
          /\ IF Target = NoInode THEN i \in Free ELSE i = Target
          /\ tmp' = i
          /\ wfd' = [wfd EXCEPT ![w] = i]
          /\ content' = [content EXCEPT ![i] = Partial]
    /\ Goto(w, "dump")
    /\ UNCHANGED <<count, buf, lock, file, readers, history, faults>>

\* json.dump and the close of the temporary file.
DumpList(w) ==
    /\ pc[w] = "dump"
    /\ content' = [content EXCEPT ![wfd[w]] = Whole(buf[w])]
    /\ wfd' = [wfd EXCEPT ![w] = NoInode]
    /\ Goto(w, "rename")
    /\ UNCHANGED <<count, buf, lock, file, tmp, readers, history, faults>>

\* temp_filepath.rename(filepath)
Rename(w) ==
    /\ pc[w] = "rename"
    /\ file' = tmp
    /\ tmp' = NoInode
    /\ Goto(w, "unlock")
    /\ UNCHANGED <<count, buf, wfd, lock, content, readers, history, faults>>

\* flock(lock_f, LOCK_UN), and the call returns.
Unlock(w) ==
    /\ pc[w] = "unlock"
    /\ Release(w)
    /\ returned' = returned \cup {Item(w)}
    /\ buf' = [buf EXCEPT ![w] = {}]
    /\ Goto(w, "idle")
    /\ UNCHANGED <<count, wfd, disk, readers, raised, faults>>

\* A file operation raises.
IOError(w) ==
    /\ pc[w] \in Raising
    /\ Fault
    /\ Raise(w)
    /\ UNCHANGED <<count, disk, readers, returned>>

\* The process is killed inside the call; another takes its place.
Kill(w) ==
    /\ pc[w] # "idle"
    /\ Fault
    /\ lock' = IF lock = w THEN NoWriter ELSE lock
    /\ wfd' = [wfd EXCEPT ![w] = NoInode]
    /\ buf' = [buf EXCEPT ![w] = {}]
    /\ Goto(w, "idle")
    /\ UNCHANGED <<count, disk, readers, history>>

-----------------------------------------------------------------------------
(* read_shared_state without use_lock *)

OpenList(r) ==
    /\ rfd[r] = NoInode
    /\ file # NoInode
    /\ rfd' = [rfd EXCEPT ![r] = file]
    /\ UNCHANGED <<writers, disk, seen, history, faults>>

\* json.load; a list that is not whole is answered with None.
LoadList(r) ==
    /\ rfd[r] # NoInode
    /\ seen' = [seen EXCEPT ![r] =
                  IF content[rfd[r]].whole THEN content[rfd[r]].data ELSE {}]
    /\ rfd' = [rfd EXCEPT ![r] = NoInode]
    /\ UNCHANGED <<writers, disk, history, faults>>

-----------------------------------------------------------------------------

\* The steps of a call that nobody else can disable, ...
Advance(w) ==
    \/ ReadList(w) \/ OpenTemp(w) \/ DumpList(w) \/ Rename(w) \/ Unlock(w)

Writer(w) ==
    StartAppend(w) \/ AcquireLock(w) \/ Advance(w) \/ IOError(w) \/ Kill(w)

Reader(r) == OpenList(r) \/ LoadList(r)

Next == (\E w \in Writers : Writer(w)) \/ (\E r \in Readers : Reader(r))

Spec == Init /\ [][Next]_vars

\* A writer inside the call runs on, and a flock that is free again and again
\* is granted in the end; nobody has to start an append or read.
FairSpec ==
    /\ Spec
    /\ \A w \in Writers : WF_vars(Advance(w)) /\ SF_vars(AcquireLock(w))

-----------------------------------------------------------------------------
(* Properties *)

Places == {"idle", "wait", "read", "open", "dump", "rename", "unlock"}

\* Every variable has its type.
TypeOK ==
    /\ pc \in [Writers -> Places]
    /\ count \in [Writers -> 0..MaxAppends]
    /\ \A w \in Writers : pc[w] # "idle" => count[w] > 0
    /\ buf \in [Writers -> SUBSET Items]
    /\ wfd \in [Writers -> Inodes \cup {NoInode}]
    /\ lock \in Writers \cup {NoWriter}
    /\ content \in [Inodes -> [data : SUBSET Items, whole : BOOLEAN]]
    /\ file \in Inodes \cup {NoInode}
    /\ tmp \in Inodes \cup {NoInode}
    /\ rfd \in [Readers -> Inodes \cup {NoInode}]
    /\ seen \in [Readers -> SUBSET Items]
    /\ returned \subseteq Items /\ raised \subseteq Items
    /\ faults \in Nat

\* A reader never has a truncated or half-written list in hand, although it
\* takes no lock ("even unlocked readers never observe a truncated/partial
\* file"): neither under the list's name nor through a file it opened before.
ReadersSeeWhole ==
    /\ file # NoInode => content[file].whole
    /\ \A r \in Readers : rfd[r] # NoInode => content[rfd[r]].whole

\* What an append told its caller holds for good.  One that returned stays in
\* the list, whatever the others do and whoever is killed: no update is lost.
\* One that raised left nothing there, so its caller may repeat it
\* (_record_transaction inside the retry loop of the miner distributor).
AppendsSettled == returned \subseteq Log /\ raised \cap Log = {}

\* What one reader sees only grows from read to read.
ReadsMoveForward == [][\A r \in Readers : seen[r] \subseteq seen'[r]]_vars

\* The list file behaves like the abstract append log.
AppendLog == INSTANCE AppendLog WITH log <- Log

ImplementsAppendLog == AppendLog!Spec

\* Every call comes to an end: errors and kills never leave the lock behind.
EveryAppendEnds == \A w \in Writers : pc[w] = "wait" ~> pc[w] = "idle"

=============================================================================
