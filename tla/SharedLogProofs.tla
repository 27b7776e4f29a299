--------------------------- MODULE SharedLogProofs ---------------------------
(* Theorems about SharedLog, for every value of its constants. *)
EXTENDS SharedLog, TLAPS

-----------------------------------------------------------------------------
(* Type correctness *)

\* The entry of a running call is an entry of the lists.
LEMMA ItemTyped ==
    ASSUME TypeOK, NEW w \in Writers, pc[w] # "idle"
    PROVE  Item(w) \in Items
<1>1. count[w] \in 1..MaxAppends
  BY MaxAppendsAssumption DEF TypeOK
<1> QED
  BY <1>1 DEF Item, Items

LEMMA LogTyped ==
    ASSUME TypeOK PROVE Log \subseteq Items
  BY DEF TypeOK, Log

LEMMA RaiseTyped ==
    ASSUME TypeOK, NEW w \in Writers, pc[w] # "idle", Raise(w)
    PROVE  /\ raised' \subseteq Items
           /\ lock' \in Writers \cup {NoWriter}
           /\ wfd' \in [Writers -> Inodes \cup {NoInode}]
           /\ buf' \in [Writers -> SUBSET Items]
           /\ pc' = [pc EXCEPT ![w] = "idle"]
<1>1. raised' \subseteq Items
  BY ItemTyped DEF Raise, TypeOK
<1>2. lock' \in Writers \cup {NoWriter}
  BY DEF Raise, Release, TypeOK
<1> QED
  BY <1>1, <1>2 DEF Raise, TypeOK, Goto

LEMMA TypeStart ==
    ASSUME TypeOK, NEW w \in Writers, StartAppend(w) PROVE TypeOK'
<1>1. count[w] + 1 \in 0..MaxAppends /\ count[w] + 1 > 0
  BY MaxAppendsAssumption DEF TypeOK, StartAppend
<1>2. count' = [count EXCEPT ![w] = count[w] + 1]
  BY DEF StartAppend
<1> QED
  BY <1>1, <1>2 DEF TypeOK, StartAppend, Goto, Places, disk, readers, history, NoFault

LEMMA TypeLock ==
    ASSUME TypeOK, NEW w \in Writers, AcquireLock(w) \/ Unlock(w) PROVE TypeOK'
<1>1. CASE AcquireLock(w)
  BY <1>1 DEF TypeOK, AcquireLock, Goto, Places, disk, readers, history
<1>2. CASE Unlock(w)
  <2>1. returned' \subseteq Items
    BY <1>2, ItemTyped DEF Unlock, TypeOK
  <2>2. lock' \in Writers \cup {NoWriter}
    BY <1>2 DEF Unlock, Release, TypeOK
  <2> QED
    BY <1>2, <2>1, <2>2 DEF TypeOK, Unlock, Goto, Places, disk, readers
<1> QED
  BY <1>1, <1>2

LEMMA TypeRead ==
    ASSUME TypeOK, NEW w \in Writers, ReadList(w) PROVE TypeOK'
<1>1. Extended(w) \subseteq Items
  BY ItemTyped, LogTyped DEF ReadList, Extended, Prior
<1>2. CASE file = NoInode \/ content[file].whole
  BY <1>1, <1>2 DEF TypeOK, ReadList, Goto, Places, disk, readers
<1>3. CASE ~(file = NoInode \/ content[file].whole)
  <2>1. Raise(w) /\ pc[w] # "idle"
        /\ UNCHANGED <<count, disk, readers, returned, faults>>
    BY <1>3 DEF ReadList
  <2>2. pc' = [pc EXCEPT ![w] = "idle"]
    BY <2>1 DEF Raise, Goto
  <2> QED
    BY <2>1, <2>2, RaiseTyped DEF TypeOK, Places, disk, readers
<1> QED
  BY <1>2, <1>3

LEMMA TypeWrite ==
    ASSUME TypeOK, NEW w \in Writers, OpenTemp(w) \/ DumpList(w) \/ Rename(w)
    PROVE  TypeOK'
<1>1. CASE OpenTemp(w)
  BY <1>1 DEF TypeOK, OpenTemp, Goto, Places, Partial, readers, history
<1>2. CASE DumpList(w)
  BY <1>2 DEF TypeOK, DumpList, Goto, Places, Whole, readers, history
<1>3. CASE Rename(w)
  BY <1>3 DEF TypeOK, Rename, Goto, Places, readers, history
<1> QED
  BY <1>1, <1>2, <1>3

LEMMA TypeFault ==
    ASSUME TypeOK, NEW w \in Writers, IOError(w) \/ Kill(w) PROVE TypeOK'
<1>1. faults' \in Nat
  BY DEF IOError, Kill, Fault, TypeOK
<1>2. CASE IOError(w)
  <2>1. pc[w] # "idle" /\ Raise(w)
    BY <1>2 DEF IOError, Raising
  <2> QED
    BY <1>1, <1>2, <2>1, RaiseTyped DEF TypeOK, IOError, Places, disk, readers
<1>3. CASE Kill(w)
  BY <1>1, <1>3 DEF TypeOK, Kill, Goto, Places, disk, readers, history
<1> QED
  BY <1>2, <1>3

LEMMA TypeReader ==
    ASSUME TypeOK, NEW r \in Readers, Reader(r) PROVE TypeOK'
<1>1. CASE OpenList(r)
  BY <1>1 DEF TypeOK, OpenList, writers, disk, history
<1>2. CASE LoadList(r)
  BY <1>2 DEF TypeOK, LoadList, writers, disk, history
<1> QED
  BY <1>1, <1>2 DEF Reader

LEMMA TypeStep ==
    ASSUME TypeOK, [Next]_vars PROVE TypeOK'
<1>1. CASE UNCHANGED vars
  BY <1>1 DEF TypeOK, vars, writers, disk, readers, history
<1> QED
  BY <1>1, TypeStart, TypeLock, TypeRead, TypeWrite, TypeFault, TypeReader
  DEF Next, Writer, Advance

\* Type correctness, for any number of writers, readers and inodes.
THEOREM ListTypeCorrect == Spec => []TypeOK
<1>1. Init => TypeOK
  BY MaxAppendsAssumption DEF Init, TypeOK, Places, Partial
<1>2. TypeOK /\ [Next]_vars => TypeOK'
  BY TypeStep
<1> QED
  BY <1>1, <1>2, PTL DEF Spec

-----------------------------------------------------------------------------
(* The lock and the two names *)

Holding == {"read", "open", "dump", "rename", "unlock"}

\* The lock is held by the one writer inside the locked part.
LockInv == \A w \in Writers : pc[w] \in Holding <=> lock = w

\* The list is whole and is not the temporary file, under its name as well as
\* in the hands of a reader.
FileInv ==
    /\ file # NoInode => content[file].whole /\ file # tmp
    /\ \A r \in Readers : rfd[r] # NoInode =>
          content[rfd[r]].whole /\ rfd[r] # tmp

\* What the holder of the lock is about to store.
WriteInv ==
    \A w \in Writers :
       /\ pc[w] = "dump" => tmp # NoInode /\ wfd[w] = tmp
       /\ pc[w] = "rename" => tmp # NoInode /\ content[tmp] = Whole(buf[w])
       /\ pc[w] \in {"open", "dump", "rename"} => buf[w] = Extended(w)
       /\ pc[w] = "unlock" => Item(w) \in Log

DiskInv == LockInv /\ FileInv /\ WriteInv

\* Only the holder is inside the locked part.
LEMMA OneHolder ==
    ASSUME LockInv, NEW w \in Writers, NEW v \in Writers,
           pc[w] \in Holding, pc[v] \in Holding
    PROVE  v = w
  BY DEF LockInv

\* How a step of w moves the program counters.
LEMMA GotoEffect ==
    ASSUME TypeOK, NEW w \in Writers, NEW place, Goto(w, place)
    PROVE  pc'[w] = place /\ \A v \in Writers \ {w} : pc'[v] = pc[v]
  BY DEF Goto, TypeOK

\* Giving up the lock, in the ways a call ends.
LEMMA EndLock ==
    ASSUME TypeOK, LockInv, NEW w \in Writers,
           Goto(w, "idle"), lock' = IF lock = w THEN NoWriter ELSE lock
    PROVE  LockInv'
  BY GotoEffect, NoWriterAssumption DEF LockInv, Holding

\* A call that ends without touching the disk leaves the rest as it was.
LEMMA EndDisk ==
    ASSUME TypeOK, DiskInv, NEW w \in Writers, Goto(w, "idle"),
           lock' = IF lock = w THEN NoWriter ELSE lock,
           wfd' = [wfd EXCEPT ![w] = NoInode] \/ wfd' = wfd,
           buf' = [buf EXCEPT ![w] = {}],
           UNCHANGED <<count, disk, readers>>
    PROVE  DiskInv'
<1>1. LockInv'
  BY EndLock DEF DiskInv
<1>2. FileInv'
  BY DEF DiskInv, FileInv, disk, readers
<1>3. \A v \in Writers \ {w} :
         pc'[v] = pc[v] /\ wfd'[v] = wfd[v] /\ buf'[v] = buf[v]
  BY GotoEffect DEF TypeOK
<1>4. pc'[w] = "idle"
  BY GotoEffect
<1>5. Log' = Log /\ tmp' = tmp /\ content' = content
      /\ \A v \in Writers : Extended(v)' = Extended(v) /\ Item(v)' = Item(v)
  BY DEF Log, disk, Extended, Prior, Item
<1>6. WriteInv'
  <2> SUFFICES ASSUME NEW v \in Writers
               PROVE /\ pc'[v] = "dump" => tmp # NoInode /\ wfd'[v] = tmp
                     /\ pc'[v] = "rename" => tmp # NoInode /\ content[tmp] = Whole(buf'[v])
                     /\ pc'[v] \in {"open", "dump", "rename"} => buf'[v] = Extended(v)
                     /\ pc'[v] = "unlock" => Item(v) \in Log
    BY <1>5 DEF WriteInv, Whole
  <2>1. CASE v = w
    BY <2>1, <1>4
  <2>2. CASE v # w
    BY <2>2, <1>3 DEF DiskInv, WriteInv
  <2> QED
    BY <2>1, <2>2
<1> QED
  BY <1>1, <1>2, <1>6 DEF DiskInv

LEMMA DiskStart ==
    ASSUME TypeOK, DiskInv, NEW w \in Writers, StartAppend(w) PROVE DiskInv'
<1>1. pc'[w] = "wait" /\ pc[w] = "idle" /\ \A v \in Writers \ {w} : pc'[v] = pc[v]
  BY GotoEffect DEF StartAppend
<1>2. \A v \in Writers \ {w} : count'[v] = count[v]
  BY DEF StartAppend, TypeOK
<1>3. UNCHANGED <<buf, wfd, lock, disk, readers>>
  BY DEF StartAppend
<1>4. LockInv'
  BY <1>1, <1>3 DEF DiskInv, LockInv, Holding
<1>5. FileInv'
  BY <1>3 DEF DiskInv, FileInv, disk, readers
<1>6. Log' = Log
      /\ \A v \in Writers \ {w} : Extended(v)' = Extended(v) /\ Item(v)' = Item(v)
  BY <1>2, <1>3 DEF Log, disk, Extended, Prior, Item
<1>7. WriteInv'
  BY <1>1, <1>3, <1>6 DEF DiskInv, WriteInv, disk, Whole
<1> QED
  BY <1>4, <1>5, <1>7 DEF DiskInv

LEMMA DiskAcquire ==
    ASSUME TypeOK, DiskInv, NEW w \in Writers, AcquireLock(w) PROVE DiskInv'
<1>1. pc'[w] = "read" /\ \A v \in Writers \ {w} : pc'[v] = pc[v]
  BY GotoEffect DEF AcquireLock
<1>2. lock = NoWriter /\ lock' = w /\ UNCHANGED <<count, buf, wfd, disk, readers>>
  BY DEF AcquireLock, LockFree
<1>3. LockInv'
  BY <1>1, <1>2, NoWriterAssumption DEF DiskInv, LockInv, Holding
<1>4. FileInv'
  BY <1>2 DEF DiskInv, FileInv, disk, readers
<1>5. Log' = Log /\ \A v \in Writers : Extended(v)' = Extended(v) /\ Item(v)' = Item(v)
  BY <1>2 DEF Log, disk, Extended, Prior, Item
<1>6. WriteInv'
  BY <1>1, <1>2, <1>5 DEF DiskInv, WriteInv, disk, Whole
<1> QED
  BY <1>3, <1>4, <1>6 DEF DiskInv

LEMMA DiskRead ==
    ASSUME TypeOK, DiskInv, NEW w \in Writers, ReadList(w) PROVE DiskInv'
<1>1. file = NoInode \/ content[file].whole
  BY DEF DiskInv, FileInv
<1>2. /\ pc[w] = "read" /\ Goto(w, "open")
      /\ buf' = [buf EXCEPT ![w] = Extended(w)]
      /\ UNCHANGED <<count, wfd, lock, disk, readers>>
  BY <1>1 DEF ReadList
<1>3. pc'[w] = "open" /\ \A v \in Writers \ {w} : pc'[v] = pc[v]
  BY <1>2, GotoEffect
<1>4. buf'[w] = Extended(w) /\ \A v \in Writers \ {w} : buf'[v] = buf[v]
  BY <1>2 DEF TypeOK
<1>5. LockInv'
  BY <1>2, <1>3 DEF DiskInv, LockInv, Holding
<1>6. FileInv'
  BY <1>2 DEF DiskInv, FileInv, disk, readers
<1>7. Log' = Log /\ \A v \in Writers : Extended(v)' = Extended(v) /\ Item(v)' = Item(v)
  BY <1>2 DEF Log, disk, Extended, Prior, Item
<1>8. WriteInv'
  BY <1>2, <1>3, <1>4, <1>7 DEF DiskInv, WriteInv, disk, Whole
<1> QED
  BY <1>5, <1>6, <1>8 DEF DiskInv

LEMMA DiskOpen ==
    ASSUME TypeOK, DiskInv, NEW w \in Writers, OpenTemp(w) PROVE DiskInv'
<1>1. PICK i \in Inodes :
         /\ IF tmp = NoInode THEN i \in Free ELSE i = tmp
         /\ tmp' = i
         /\ wfd' = [wfd EXCEPT ![w] = i]
         /\ content' = [content EXCEPT ![i] = Partial]
  BY DEF OpenTemp, Target
<1>2. pc[w] = "open" /\ pc'[w] = "dump" /\ \A v \in Writers \ {w} : pc'[v] = pc[v]
  BY GotoEffect DEF OpenTemp
<1>3. UNCHANGED <<count, buf, lock, file, readers>>
  BY DEF OpenTemp
<1>4. i # file /\ \A r \in Readers : i # rfd[r]
  <2>1. CASE tmp = NoInode
    BY <1>1, <2>1 DEF Free
  <2>2. CASE tmp # NoInode
    BY <1>1, <2>2 DEF DiskInv, FileInv
  <2> QED
    BY <2>1, <2>2
<1>5. \A j \in Inodes : j # i => content'[j] = content[j]
  BY <1>1 DEF TypeOK
<1>6. LockInv'
  BY <1>2, <1>3 DEF DiskInv, LockInv, Holding
<1>7. FileInv'
  BY <1>1, <1>3, <1>4, <1>5 DEF DiskInv, FileInv, TypeOK, readers
<1>8. Log' = Log
  BY <1>3, <1>4, <1>5 DEF Log, TypeOK
<1>9. \A v \in Writers : Extended(v)' = Extended(v) /\ Item(v)' = Item(v)
  BY <1>3, <1>8 DEF Extended, Prior, Item
<1>10. \A v \in Writers \ {w} : pc[v] \notin Holding
  BY <1>2, OneHolder DEF DiskInv, Holding
<1>11. i # NoInode /\ wfd'[w] = i
  BY <1>1, NoInodeAssumption DEF TypeOK
<1>12. WriteInv'
  BY <1>1, <1>2, <1>3, <1>8, <1>9, <1>10, <1>11 DEF DiskInv, WriteInv, Holding
<1> QED
  BY <1>6, <1>7, <1>12 DEF DiskInv

LEMMA DiskDump ==
    ASSUME TypeOK, DiskInv, NEW w \in Writers, DumpList(w) PROVE DiskInv'
<1>1. /\ pc[w] = "dump" /\ pc'[w] = "rename"
      /\ \A v \in Writers \ {w} : pc'[v] = pc[v]
  BY GotoEffect DEF DumpList
<1>2. wfd[w] = tmp /\ tmp \in Inodes /\ buf[w] = Extended(w)
  BY <1>1 DEF DiskInv, WriteInv, TypeOK
<1>3. content' = [content EXCEPT ![tmp] = Whole(buf[w])]
  BY <1>2 DEF DumpList
<1>4. UNCHANGED <<count, buf, lock, file, tmp, readers>>
  BY DEF DumpList
<1>5. \A j \in Inodes : j # tmp => content'[j] = content[j]
  BY <1>3 DEF TypeOK
<1>6. content'[tmp] = Whole(buf[w])
  BY <1>2, <1>3 DEF TypeOK
<1>7. LockInv'
  BY <1>1, <1>4 DEF DiskInv, LockInv, Holding
<1>8. FileInv'
  BY <1>4, <1>5 DEF DiskInv, FileInv, TypeOK, readers
<1>9. Log' = Log
  BY <1>4, <1>5 DEF DiskInv, FileInv, Log, TypeOK
<1>10. \A v \in Writers : Extended(v)' = Extended(v) /\ Item(v)' = Item(v)
  BY <1>4, <1>9 DEF Extended, Prior, Item
<1>11. \A v \in Writers \ {w} : pc[v] \notin Holding
  BY <1>1, OneHolder DEF DiskInv, Holding
<1>12. tmp # NoInode
  BY <1>2, NoInodeAssumption
<1>13. /\ content'[tmp'] = Whole(buf'[w])
       /\ buf'[w] = Extended(w)' /\ tmp' # NoInode
  BY <1>2, <1>4, <1>6, <1>10, <1>12
<1>14. \A v \in Writers \ {w} : pc'[v] \notin Holding
  BY <1>1, <1>11
<1>15. WriteInv'
  <2> SUFFICES ASSUME NEW v \in Writers
               PROVE /\ pc'[v] = "dump" => tmp' # NoInode /\ wfd'[v] = tmp'
                     /\ pc'[v] = "rename" => tmp' # NoInode /\ content'[tmp'] = Whole(buf'[v])
                     /\ pc'[v] \in {"open", "dump", "rename"} => buf'[v] = Extended(v)'
                     /\ pc'[v] = "unlock" => Item(v)' \in Log'
    BY DEF WriteInv, Whole
  <2>1. CASE v = w
    BY <2>1, <1>1, <1>13
  <2>2. CASE v # w
    BY <2>2, <1>14 DEF Holding
  <2> QED
    BY <2>1, <2>2
<1> QED
  BY <1>7, <1>8, <1>15 DEF DiskInv

\* The rename replaces the list by the list with the new entry.
LEMMA RenameEffect ==
    ASSUME TypeOK, DiskInv, NEW w \in Writers, Rename(w)
    PROVE  Log' = Log \cup {Item(w)}
<1>1. pc[w] = "rename"
  BY DEF Rename
<1>2. tmp # NoInode /\ content[tmp] = Whole(Extended(w))
  BY <1>1 DEF DiskInv, WriteInv
<1>3. file' = tmp /\ content' = content
  BY DEF Rename
<1> QED
  BY <1>2, <1>3 DEF Log, Whole, Extended, Prior

LEMMA DiskRename ==
    ASSUME TypeOK, DiskInv, NEW w \in Writers, Rename(w) PROVE DiskInv'
<1>1. /\ pc[w] = "rename" /\ pc'[w] = "unlock"
      /\ \A v \in Writers \ {w} : pc'[v] = pc[v]
  BY GotoEffect DEF Rename
<1>2. file' = tmp /\ tmp' = NoInode /\ UNCHANGED <<count, buf, wfd, lock, content, readers>>
  BY DEF Rename
<1>3. tmp # NoInode /\ content[tmp].whole
  <2>1. tmp # NoInode /\ content[tmp] = Whole(buf[w])
    BY <1>1 DEF DiskInv, WriteInv
  <2>2. Whole(buf[w]).whole = TRUE
    BY DEF Whole
  <2> QED
    BY <2>1, <2>2
<1>4. LockInv'
  BY <1>1, <1>2 DEF DiskInv, LockInv, Holding
<1>5. FileInv'
  BY <1>2, <1>3 DEF DiskInv, FileInv, readers
<1>6. Item(w)' = Item(w) /\ Item(w) \in Log'
  BY <1>2, RenameEffect DEF Item
<1>7. \A v \in Writers \ {w} : pc[v] \notin Holding
  BY <1>1, OneHolder DEF DiskInv, Holding
<1>8. WriteInv'
  BY <1>1, <1>6, <1>7 DEF WriteInv, Holding
<1> QED
  BY <1>4, <1>5, <1>8 DEF DiskInv

LEMMA DiskReader ==
    ASSUME TypeOK, DiskInv, NEW r \in Readers, Reader(r) PROVE DiskInv'
<1>1. UNCHANGED <<writers, disk>>
  BY DEF Reader, OpenList, LoadList
<1>2. LockInv' /\ WriteInv'
  BY <1>1 DEF DiskInv, LockInv, WriteInv, writers, disk, Log, Extended, Prior, Item, Whole
<1>3. FileInv'
  <2>1. CASE OpenList(r)
    BY <1>1, <2>1 DEF OpenList, DiskInv, FileInv, disk, TypeOK
  <2>2. CASE LoadList(r)
    BY <1>1, <2>2 DEF LoadList, DiskInv, FileInv, disk, TypeOK
  <2> QED
    BY <2>1, <2>2 DEF Reader
<1> QED
  BY <1>2, <1>3 DEF DiskInv

LEMMA DiskStep ==
    ASSUME TypeOK, DiskInv, [Next]_vars PROVE DiskInv'
<1>1. CASE UNCHANGED vars
  BY <1>1 DEF DiskInv, LockInv, FileInv, WriteInv, vars, writers, disk, readers,
     Log, Extended, Prior, Item, Whole
<1>2. ASSUME NEW w \in Writers, Unlock(w) \/ IOError(w) \/ Kill(w)
      PROVE DiskInv'
  <2>1. CASE Unlock(w)
    BY <2>1, EndDisk DEF Unlock, Release
  <2>2. CASE IOError(w)
    BY <2>2, EndDisk DEF IOError, Raise, Release
  <2>3. CASE Kill(w)
    BY <2>3, EndDisk DEF Kill
  <2> QED
    BY <1>2, <2>1, <2>2, <2>3
<1> QED
  BY <1>1, <1>2, DiskStart, DiskAcquire, DiskRead, DiskOpen, DiskDump,
     DiskRename, DiskReader DEF Next, Writer, Advance

LEMMA DiskInvariant == Spec => []DiskInv
<1>1. Init => DiskInv
  BY NoWriterAssumption DEF Init, DiskInv, LockInv, FileInv, WriteInv, Holding
<1>2. TypeOK /\ DiskInv /\ [Next]_vars => DiskInv'
  BY DiskStep
<1> QED
  BY <1>1, <1>2, ListTypeCorrect, PTL DEF Spec

\* A reader without the lock never holds a truncated or half-written list,
\* whoever writes, fails or is killed meanwhile (append_shared_list).
THEOREM UnlockedReadsWhole == Spec => []ReadersSeeWhole
<1>1. DiskInv => ReadersSeeWhole
  BY DEF DiskInv, FileInv, ReadersSeeWhole
<1> QED
  BY <1>1, DiskInvariant, PTL

-----------------------------------------------------------------------------
(* The entries *)

\* The list, and what every open handle shows, changes by a rename only.
LEMMA WritersKeep ==
    ASSUME TypeOK, DiskInv, NEW w \in Writers, Writer(w), ~Rename(w)
    PROVE  /\ Log' = Log
           /\ rfd' = rfd /\ seen' = seen
           /\ \A r \in Readers : rfd[r] # NoInode =>
                 content'[rfd[r]] = content[rfd[r]]
<1>1. CASE OpenTemp(w)
  <2>1. PICK i \in Inodes :
           /\ IF tmp = NoInode THEN i \in Free ELSE i = tmp
           /\ content' = [content EXCEPT ![i] = Partial]
    BY <1>1 DEF OpenTemp, Target
  <2>2. (file # NoInode => i # file) /\ \A r \in Readers : rfd[r] # NoInode => i # rfd[r]
    <3>1. CASE tmp = NoInode
      BY <2>1, <3>1 DEF Free
    <3>2. CASE tmp # NoInode
      BY <2>1, <3>2 DEF DiskInv, FileInv
    <3> QED
      BY <3>1, <3>2
  <2>3. \A j \in Inodes : j # i => content'[j] = content[j]
    BY <2>1 DEF TypeOK
  <2>4. UNCHANGED <<file, readers>>
    BY <1>1 DEF OpenTemp
  <2> QED
    BY <2>2, <2>3, <2>4 DEF Log, TypeOK, readers
<1>2. CASE DumpList(w)
  <2>1. wfd[w] = tmp /\ UNCHANGED <<file, readers>>
        /\ content' = [content EXCEPT ![wfd[w]] = Whole(buf[w])]
    BY <1>2 DEF DumpList, DiskInv, WriteInv
  <2>2. \A j \in Inodes : j # tmp => content'[j] = content[j]
    BY <2>1 DEF TypeOK
  <2> QED
    BY <2>1, <2>2 DEF Log, TypeOK, readers, DiskInv, FileInv
<1>3. CASE UNCHANGED <<disk, readers>>
  BY <1>3 DEF Log, disk, readers
<1> QED
  BY <1>1, <1>2, <1>3 DEF Writer, Advance, StartAppend, AcquireLock, ReadList,
     Unlock, IOError, Kill

\* A call that has not renamed yet has its entry nowhere.
EntryInv ==
    /\ returned \subseteq Log
    /\ raised \cap Log = {}
    /\ \A v \in Writers, k \in 1..MaxAppends :
          <<v, k>> \in Log \cup raised => k <= count[v]
    /\ \A w \in Writers :
          pc[w] \notin {"idle", "unlock"} => Item(w) \notin Log \cup raised

\* A step that moves nothing but w out of its call, or on inside it.
LEMMA EntryQuiet ==
    ASSUME TypeOK, EntryInv, NEW w \in Writers, NEW place, Goto(w, place),
           pc[w] \in {"idle", "unlock"} => place \in {"idle", "unlock"},
           UNCHANGED <<count, returned, raised>>, Log' = Log
    PROVE  EntryInv'
<1>1. pc'[w] = place /\ \A v \in Writers \ {w} : pc'[v] = pc[v]
  BY GotoEffect
<1>2. \A v \in Writers : Item(v)' = Item(v)
  BY DEF Item
<1> QED
  BY <1>1, <1>2 DEF EntryInv

LEMMA EntryStart ==
    ASSUME TypeOK, EntryInv, NEW w \in Writers, StartAppend(w), Log' = Log
    PROVE  EntryInv'
<1>1. pc'[w] = "wait" /\ \A v \in Writers \ {w} : pc'[v] = pc[v]
  BY GotoEffect DEF StartAppend
<1>2. count'[w] = count[w] + 1 /\ \A v \in Writers \ {w} : count'[v] = count[v]
  BY DEF StartAppend, TypeOK
<1>3. count[w] \in Nat /\ count[w] + 1 \in 1..MaxAppends
  BY MaxAppendsAssumption DEF StartAppend, TypeOK
<1>4. <<w, count[w] + 1>> \notin Log \cup raised
  BY <1>3 DEF EntryInv
<1>5. UNCHANGED <<returned, raised>>
  BY DEF StartAppend, history
<1>6. \A v \in Writers \ {w} : Item(v)' = Item(v)
  BY <1>2 DEF Item
<1>7. Item(w)' = <<w, count[w] + 1>>
  BY <1>2 DEF Item
<1>8. \A v \in Writers, k \in 1..MaxAppends :
         <<v, k>> \in Log \cup raised => k <= count'[v]
  <2> SUFFICES ASSUME NEW v \in Writers, NEW k \in 1..MaxAppends,
                      <<v, k>> \in Log \cup raised
               PROVE  k <= count'[v]
    OBVIOUS
  <2>1. k <= count[v]
    BY DEF EntryInv
  <2> QED
    BY <2>1, <1>2, <1>3
<1>9. \A v \in Writers : pc'[v] \notin {"idle", "unlock"} =>
         Item(v)' \notin Log \cup raised
  BY <1>1, <1>4, <1>6, <1>7 DEF EntryInv
<1> QED
  BY <1>5, <1>8, <1>9 DEF EntryInv

LEMMA EntryRename ==
    ASSUME TypeOK, DiskInv, EntryInv, NEW w \in Writers, Rename(w)
    PROVE  EntryInv'
<1>1. /\ pc[w] = "rename" /\ pc'[w] = "unlock"
      /\ \A v \in Writers \ {w} : pc'[v] = pc[v]
  BY GotoEffect DEF Rename
<1>2. Log' = Log \cup {Item(w)} /\ UNCHANGED <<count, returned, raised>>
  BY RenameEffect DEF Rename, history
<1>3. Item(w) \notin raised
  BY <1>1 DEF EntryInv
<1>4. \A v \in Writers : Item(v)' = Item(v)
  BY <1>2 DEF Item
<1>5. \A v \in Writers \ {w} : Item(v) # Item(w)
  BY DEF Item
<1>6. \A v \in Writers, k \in 1..MaxAppends :
         <<v, k>> \in Log' \cup raised => k <= count[v]
  BY <1>2, MaxAppendsAssumption DEF EntryInv, Item, TypeOK
<1> QED
  BY <1>1, <1>2, <1>3, <1>4, <1>5, <1>6 DEF EntryInv

LEMMA EntryRaise ==
    ASSUME TypeOK, EntryInv, NEW w \in Writers, pc[w] \in Raising, Raise(w),
           UNCHANGED <<count, returned>>, Log' = Log
    PROVE  EntryInv'
<1>1. pc'[w] = "idle" /\ \A v \in Writers \ {w} : pc'[v] = pc[v]
  BY GotoEffect DEF Raise
<1>2. Item(w) \notin Log
  BY DEF EntryInv, Raising
<1>3. \A v \in Writers : Item(v)' = Item(v)
  BY DEF Item
<1>4. \A v \in Writers \ {w} : Item(v) # Item(w)
  BY DEF Item
<1>5. raised' = raised \cup {Item(w)}
  BY DEF Raise
<1>6. \A v \in Writers, k \in 1..MaxAppends :
         <<v, k>> \in Log \cup raised' => k <= count[v]
  BY <1>5, MaxAppendsAssumption DEF EntryInv, Item, TypeOK
<1> QED
  BY <1>1, <1>2, <1>3, <1>4, <1>5, <1>6 DEF EntryInv

LEMMA EntryUnlock ==
    ASSUME TypeOK, DiskInv, EntryInv, NEW w \in Writers, Unlock(w), Log' = Log
    PROVE  EntryInv'
<1>1. pc[w] = "unlock" /\ pc'[w] = "idle" /\ \A v \in Writers \ {w} : pc'[v] = pc[v]
  BY GotoEffect DEF Unlock
<1>2. Item(w) \in Log
  BY <1>1 DEF DiskInv, WriteInv
<1>3. returned' = returned \cup {Item(w)} /\ UNCHANGED <<count, raised>>
  BY DEF Unlock
<1>4. \A v \in Writers : Item(v)' = Item(v)
  BY <1>3 DEF Item
<1> QED
  BY <1>1, <1>2, <1>3, <1>4 DEF EntryInv

LEMMA EntryWriter ==
    ASSUME TypeOK, DiskInv, EntryInv, NEW w \in Writers, Writer(w)
    PROVE  EntryInv'
<1>1. CASE Rename(w)
  BY <1>1, EntryRename
<1>2. CASE ~Rename(w)
  <2>1. Log' = Log
    BY <1>2, WritersKeep
  <2>2. CASE StartAppend(w)
    BY <2>1, <2>2, EntryStart
  <2>3. CASE AcquireLock(w)
    BY <2>1, <2>3, EntryQuiet DEF AcquireLock, history
  <2>4. CASE ReadList(w)
    <3>1. Goto(w, "open") /\ raised' = raised
      BY <2>4 DEF ReadList, DiskInv, FileInv
    <3> QED
      BY <2>1, <2>4, <3>1, EntryQuiet DEF ReadList
  <2>5. CASE OpenTemp(w)
    BY <2>1, <2>5, EntryQuiet DEF OpenTemp, history
  <2>6. CASE DumpList(w)
    BY <2>1, <2>6, EntryQuiet DEF DumpList, history
  <2>7. CASE Unlock(w)
    BY <2>1, <2>7, EntryUnlock
  <2>8. CASE IOError(w)
    BY <2>1, <2>8, EntryRaise DEF IOError
  <2>9. CASE Kill(w)
    BY <2>1, <2>9, EntryQuiet DEF Kill, history
  <2> QED
    BY <1>2, <2>2, <2>3, <2>4, <2>5, <2>6, <2>7, <2>8, <2>9 DEF Writer, Advance
<1> QED
  BY <1>1, <1>2

LEMMA ReaderKeeps ==
    ASSUME NEW r \in Readers, Reader(r)
    PROVE  UNCHANGED <<writers, disk, history>> /\ Log' = Log
  BY DEF Reader, OpenList, LoadList, Log, disk

LEMMA EntryStep ==
    ASSUME TypeOK, DiskInv, EntryInv, [Next]_vars PROVE EntryInv'
<1>1. CASE UNCHANGED <<writers, history>> /\ Log' = Log
  BY <1>1 DEF EntryInv, writers, history, Item
<1>2. CASE UNCHANGED vars
  BY <1>1, <1>2 DEF vars, Log, disk
<1> QED
  BY <1>1, <1>2, EntryWriter, ReaderKeeps DEF Next

LEMMA EntryInvariant == Spec => []EntryInv
<1>1. Init => EntryInv
  BY DEF Init, EntryInv, Log
<1>2. TypeOK /\ DiskInv /\ EntryInv /\ [Next]_vars => EntryInv'
  BY EntryStep
<1> QED
  BY <1>1, <1>2, ListTypeCorrect, DiskInvariant, PTL DEF Spec

\* No update is lost: an entry whose append returned stays in the list, and an
\* append that raised has left nothing behind and may be repeated, under any
\* interleaving of writers, errors and kills (append_shared_list).
THEOREM NoLostUpdate == Spec => []AppendsSettled
<1>1. EntryInv => AppendsSettled
  BY DEF EntryInv, AppendsSettled
<1> QED
  BY <1>1, EntryInvariant, PTL

\* The lock, the temporary file and the rename implement the append log: the
\* list changes by one new entry at a time, in the step of the rename.
THEOREM AppendLogImplemented == Spec => ImplementsAppendLog
<1>1. Init => AppendLog!Init
  BY DEF Init, AppendLog!Init, Log
<1>2. TypeOK /\ DiskInv /\ EntryInv /\ [Next]_vars => [AppendLog!Next]_Log
  <2> SUFFICES ASSUME TypeOK, DiskInv, EntryInv, [Next]_vars
               PROVE  AppendLog!Next \/ Log' = Log
    OBVIOUS
  <2>1. ASSUME NEW w \in Writers, Rename(w) PROVE AppendLog!Next
    <3>1. Item(w) \in Items /\ Item(w) \notin Log
      BY <2>1, ItemTyped DEF Rename, EntryInv
    <3> QED
      BY <2>1, <3>1, RenameEffect DEF AppendLog!Next, AppendLog!Append
  <2>2. CASE UNCHANGED vars
    BY <2>2 DEF vars, disk, Log
  <2> QED
    BY <2>1, <2>2, WritersKeep, ReaderKeeps DEF Next
<1> QED
  BY <1>1, <1>2, ListTypeCorrect, DiskInvariant, EntryInvariant, PTL
  DEF Spec, ImplementsAppendLog, AppendLog!Spec

-----------------------------------------------------------------------------
(* The readers *)

\* What a reader has seen is in the file it has open, and that is in the list.
SeenInv ==
    \A r \in Readers :
       /\ seen[r] \subseteq Log
       /\ rfd[r] # NoInode =>
             seen[r] \subseteq content[rfd[r]].data /\ content[rfd[r]].data \subseteq Log

LEMMA SeenStep ==
    ASSUME TypeOK, DiskInv, SeenInv, [Next]_vars
    PROVE  SeenInv' /\ \A r \in Readers : seen[r] \subseteq seen'[r]
<1>1. ASSUME NEW w \in Writers, Writer(w)
      PROVE  SeenInv' /\ \A r \in Readers : seen[r] \subseteq seen'[r]
  <2>1. CASE Rename(w)
    <3>1. Log \subseteq Log' /\ UNCHANGED <<content, rfd, seen>>
      BY <2>1, RenameEffect DEF Rename, readers
    <3> QED
      BY <3>1 DEF SeenInv
  <2>2. CASE ~Rename(w)
    BY <1>1, <2>2, WritersKeep DEF SeenInv
  <2> QED
    BY <2>1, <2>2
<1>2. ASSUME NEW r \in Readers, Reader(r)
      PROVE  SeenInv' /\ \A q \in Readers : seen[q] \subseteq seen'[q]
  <2>1. Log' = Log /\ content' = content
    BY <1>2, ReaderKeeps DEF disk
  <2>2. CASE OpenList(r)
    <3>1. rfd' = [rfd EXCEPT ![r] = file] /\ seen' = seen /\ file # NoInode
      BY <2>2 DEF OpenList
    <3>2. content[file].data = Log
      BY <3>1 DEF Log
    <3> QED
      BY <2>1, <3>1, <3>2 DEF SeenInv, TypeOK
  <2>3. CASE LoadList(r)
    <3>1. content[rfd[r]].whole /\ rfd[r] # NoInode
      BY <2>3 DEF LoadList, DiskInv, FileInv
    <3>2. /\ seen' = [seen EXCEPT ![r] = content[rfd[r]].data]
          /\ rfd' = [rfd EXCEPT ![r] = NoInode]
      BY <2>3, <3>1 DEF LoadList
    <3> QED
      BY <2>1, <3>1, <3>2 DEF SeenInv, TypeOK
  <2> QED
    BY <1>2, <2>2, <2>3 DEF Reader
<1>3. CASE UNCHANGED vars
  BY <1>3 DEF SeenInv, vars, disk, readers, Log
<1> QED
  BY <1>1, <1>2, <1>3 DEF Next

\* What an unlocked reader sees never goes back to an earlier version.
THEOREM ReadsGrow == Spec => ReadsMoveForward
<1>1. Init => SeenInv
  BY DEF Init, SeenInv, Log
<1>2. TypeOK /\ DiskInv /\ SeenInv /\ [Next]_vars => SeenInv'
  BY SeenStep
<1>3. TypeOK /\ DiskInv /\ SeenInv /\ [Next]_vars =>
        [\A r \in Readers : seen[r] \subseteq seen'[r]]_vars
  BY SeenStep
<1> QED
  BY <1>1, <1>2, <1>3, ListTypeCorrect, DiskInvariant, PTL
  DEF Spec, ReadsMoveForward

=============================================================================
