-------------------------- MODULE RamobsDirectory --------------------------
(***************************************************************************)
(* The namespace of the RAM object system "ramobs": the inode table of     *)
(* RamobsSuperObject and the directory handles that tasks call to create,  *)
(* delete, rename and look up names.                                       *)
(*                                                                         *)
(* A few operators stand beside the one the specification uses and differ  *)
(* from it by a mistake one could make there (Unchecked beside Overflows,  *)
(* Copied beside Moved, ...): each is the mutant that shows that some      *)
(* property would notice the mistake.                                      *)
(*                                                                         *)
(* A step of a task is one critical section of the code: what it does from *)
(* acquiring a spin lock to releasing it, together with the computation on *)
(* its own locals that follows.  Where the code takes a lock while it      *)
(* keeps another, the task stands between two steps with the first in      *)
(* hand: lookup with the read lock of the directory map (Unread),          *)
(* create_inode with the lock of the counter (CounterFree).                *)
(***************************************************************************)
EXTENDS HashMaps, Naturals, FiniteSets

CONSTANTS
  Tasks,        \* the callers of the API
  Privileged,   \* those whose context has uid 0 or role 0
  Names,        \* the names a directory entry may have
  NewObjects,   \* the (kind, rights) arguments of create
  FlagSets,     \* the open flags directories are opened with
  ChmodGrants,  \* the rights chmod may leave on an object
  MaxInodes,    \* the argument max_inodes of RamobsSuperObject::new
  WordMax       \* the largest value of a u32, scaled down

ObjectKind == {"File", "Directory", "Symlink", "Device"}

(* The two rights a directory handle asks of an object it acts on. *)
Right == {"DELETE", "RENAME"}

(* An inode: its kind and the rights its permissions give to a context     *)
(* that is not privileged.                                                 *)
Object == [kind: ObjectKind, grants: SUBSET Right]

(* The flags a directory handle tests. *)
OpenFlag == {"READ", "WRITE"}

ASSUME LimitsAssumption ==
  /\ WordMax \in Nat
  /\ MaxInodes \in Nat
  /\ 1 <= MaxInodes
  /\ MaxInodes <= WordMax

ASSUME CallersAssumption ==
  /\ Privileged \subseteq Tasks
  /\ NewObjects \subseteq Object
  /\ FlagSets \subseteq SUBSET OpenFlag
  /\ ChmodGrants \subseteq SUBSET Right

(* Inode numbers: an inode is numbered by a counter below MaxInodes. *)
Ino == 0 .. (MaxInodes - 1)

(* The inode number of the root directory. *)
Root == 0

DirEntry == [name: Names, inode: Ino, kind: ObjectKind]

VARIABLES
  inodes,    \* RamobsSuperObject.inodes: number -> live object
  counter,   \* RamobsSuperObject.counter: the next number to give out
  map,       \* RamobsDirectoryObject.map of every directory that is in the
             \* table or behind a handle
  handle,    \* the directory handle each task holds
  call       \* where each task is in the call it makes on that handle

vars == <<inodes, counter, map, handle, call>>

-----------------------------------------------------------------------------
(* Calls in progress: the point reached and the locals still needed.       *)

Result == {"none", "Ok", "NotFound", "AlreadyExists", "PermissionDenied",
           "NoSpace"}

Call ==
       [at: {"idle"}, result: Result]
  \cup [at: {"create_inode", "create_store"}, name: Names, object: Object]
  \cup [at: {"create_insert"}, name: Names, inode: Ino, kind: ObjectKind]
  \cup [at: {"delete_check", "delete_unlink"}, name: Names, inode: Ino]
  \cup [at: {"delete_inode", "delete_remove"}, inode: Ino]
  \cup [at: {"rename_check", "rename_move"},
        name: Names, inode: Ino, to: Names]
  \cup [at: {"lookup_get"}, inode: Ino]
  \cup [at: {"panicked"}]

Idle(t) == call[t].at = "idle"
At(t, l) == call[t].at = l

Goto(t, c) == call' = [call EXCEPT ![t] = c]
Return(t, r) == Goto(t, [at |-> "idle", result |-> r])

(* The map of the directory behind t's handle. *)
Dir(t) == handle[t].dir
Entries(t) == map[Dir(t)]

Unguarded(d) == TRUE

(* Nobody holds the read lock of d's map across steps. *)
Unread(d) == \A u \in Tasks : At(u, "lookup_get") => Dir(u) # d

(* The table locked from the allocation of an inode until it is linked. *)
HoldTableToTheEnd == {"create_insert"}

(* The points a call stands at with a lock in hand: that of the counter,   *)
(* which a task that has panicked never gives back, or that of the inode   *)
(* table, which no call keeps from one step to the next.                   *)
HoldCounter == {"create_store", "panicked"}
HoldTable == {}

CounterFree == \A u \in Tasks : call[u].at \notin HoldCounter
TableFree == \A u \in Tasks : call[u].at \notin HoldTable

(* VFS::check_permission_on_object for one of the two rights. *)
May(t, object, right) == t \in Privileged \/ right \in object.grants

(* The maps m that outlive a step: a directory shares its map with the     *)
(* handles opened on it, and the last of them to go takes it away.         *)
Kept(m, table, handles) ==
  Restrict(m, {d \in DOMAIN m : \/ d \in DOMAIN table
                                \/ \E t \in Tasks : handles[t].dir = d})

-----------------------------------------------------------------------------
(* RamobsSuperObject::new gives number 0 to a root directory that only a   *)
(* privileged context has rights on; each task holds it open for reading.  *)
Init ==
  /\ inodes = Insert(EmptyMap, Root, [kind |-> "Directory", grants |-> {}])
  /\ counter = 1
  /\ map = Insert(EmptyMap, Root, EmptyMap)
  /\ handle = [t \in Tasks |-> [dir |-> Root, flags |-> {"READ"}]]
  /\ call = [t \in Tasks |-> [at |-> "idle", result |-> "none"]]

(* Object::open on a directory taken from the inode table.  The handle t   *)
(* had is dropped.                                                         *)
Open(t, d, flags) ==
  /\ Idle(t)
  /\ TableFree
  /\ d \in DOMAIN inodes
  /\ inodes[d].kind = "Directory"
  /\ handle' = [handle EXCEPT ![t] = [dir |-> d, flags |-> flags]]
  /\ map' = Kept(map, inodes, handle')
  /\ UNCHANGED <<inodes, counter, call>>

(* The write of chmod_with_ctx, by anybody its own test lets, which is the *)
(* matter of VfsAccess.  Nobody ever asks for a right on the root here.    *)
Chmod(i, grants) ==
  /\ i \in DOMAIN inodes \ {Root}
  /\ inodes' = [inodes EXCEPT ![i].grants = grants]
  /\ UNCHANGED <<counter, map, handle, call>>

(* check_read and check_write: a call the handle's flags do not allow. *)
Denied(t) ==
  /\ Idle(t)
  /\ ~(OpenFlag \subseteq handle[t].flags)
  /\ Return(t, "PermissionDenied")
  /\ UNCHANGED <<inodes, counter, map, handle>>

CanWrite(t) == Idle(t) /\ "WRITE" \in handle[t].flags
CanRead(t) == Idle(t) /\ "READ" \in handle[t].flags

-----------------------------------------------------------------------------
(* create *)

CreateFind(t, n, o) ==
  /\ CanWrite(t)
  /\ \/ /\ n \in DOMAIN Entries(t)
        /\ Return(t, "AlreadyExists")
     \/ /\ n \notin DOMAIN Entries(t)
        /\ Goto(t, [at |-> "create_inode", name |-> n, object |-> o])
  /\ UNCHANGED <<inodes, counter, map, handle>>

(* Arithmetic on the u32 counter: the sum, and whether it does not fit,    *)
(* which the overflow checks of the build turn into a panic.               *)
Increment(c) == (c + 1) % (WordMax + 1)
Unchecked(c) == FALSE
Overflows(c) == c + 1 > WordMax

(* The table has given out all the numbers it may. *)
Full(c) == Increment(c) > MaxInodes

(* create_inode, with the lock of the counter: the overflow check of the   *)
(* build stops the task, which never releases the lock; a full table ends  *)
(* the call; else it goes on to the lock of the table.                     *)
AllocPanic(t) ==
  /\ At(t, "create_inode")
  /\ CounterFree
  /\ Overflows(counter)
  /\ Goto(t, [at |-> "panicked"])
  /\ UNCHANGED <<inodes, counter, map, handle>>

AllocNoSpace(t) ==
  /\ At(t, "create_inode")
  /\ CounterFree
  /\ ~Overflows(counter)
  /\ Full(counter)
  /\ Return(t, "NoSpace")
  /\ UNCHANGED <<inodes, counter, map, handle>>

AllocRoom(t) ==
  /\ At(t, "create_inode")
  /\ CounterFree
  /\ ~Overflows(counter)
  /\ ~Full(counter)
  /\ Goto(t, [call[t] EXCEPT !.at = "create_store"])
  /\ UNCHANGED <<inodes, counter, map, handle>>

(* The number of a new inode. *)
LowestFree == CHOOSE i \in Ino : /\ i \notin DOMAIN inodes
                                /\ 0 .. (i - 1) \subseteq DOMAIN inodes
NextNumber == counter

AllocInode(t) ==
  /\ At(t, "create_store")
  /\ TableFree
  /\ LET i == NextNumber
         o == call[t].object
     IN  /\ inodes' = Insert(inodes, i, o)
         /\ map' = IF o.kind = "Directory" THEN Insert(map, i, EmptyMap)
                                           ELSE map
         /\ Goto(t, [at |-> "create_insert", name |-> call[t].name,
                     inode |-> i, kind |-> o.kind])
  /\ counter' = Increment(counter)
  /\ UNCHANGED handle

CreateInsert(t) ==
  /\ At(t, "create_insert")
  /\ Unread(Dir(t))
  /\ map' = [map EXCEPT ![Dir(t)] =
               Insert(@, call[t].name, [name  |-> call[t].name,
                                        inode |-> call[t].inode,
                                        kind  |-> call[t].kind])]
  /\ Return(t, "Ok")
  /\ UNCHANGED <<inodes, counter, handle>>

-----------------------------------------------------------------------------
(* delete *)

DeleteFind(t, n) ==
  /\ CanWrite(t)
  /\ \/ /\ n \notin DOMAIN Entries(t)
        /\ Return(t, "NotFound")
     \/ /\ n \in DOMAIN Entries(t)
        /\ Goto(t, [at |-> "delete_check", name |-> n,
                    inode |-> Entries(t)[n].inode])
  /\ UNCHANGED <<inodes, counter, map, handle>>

CheckedPresent(t, i, right) ==
  IF i \in DOMAIN inodes THEN "Ok" ELSE "NotFound"

(* What get_inode followed by check_permission_on_object answers.  The two *)
(* are one step: a chmod of an object that leaves the table between them   *)
(* might as well have come just before it left.                            *)
Checked(t, i, right) ==
  IF i \notin DOMAIN inodes THEN "NotFound"
  ELSE IF May(t, inodes[i], right) THEN "Ok" ELSE "PermissionDenied"

DeleteCheck(t) ==
  /\ At(t, "delete_check")
  /\ TableFree
  /\ LET r == Checked(t, call[t].inode, "DELETE")
     IN  \/ r # "Ok" /\ Return(t, r)
         \/ r = "Ok" /\ Goto(t, [call[t] EXCEPT !.at = "delete_unlink"])
  /\ UNCHANGED <<inodes, counter, map, handle>>

DeleteUnlink(t) ==
  /\ At(t, "delete_unlink")
  /\ Unread(Dir(t))
  /\ \/ /\ call[t].name \notin DOMAIN Entries(t)
        /\ Return(t, "NotFound")
        /\ UNCHANGED map
     \/ /\ call[t].name \in DOMAIN Entries(t)
        /\ map' = [map EXCEPT ![Dir(t)] = Remove(@, call[t].name)]
        /\ Goto(t, [at |-> "delete_inode", inode |-> call[t].inode])
  /\ UNCHANGED <<inodes, counter, handle>>

InodeKept(t) ==
  /\ At(t, "delete_inode")
  /\ Return(t, "Ok")
  /\ UNCHANGED <<inodes, counter, map, handle>>

(* delete_inode tests the table under its read lock, then removes under    *)
(* its write lock.                                                         *)
DeleteInode(t) ==
  /\ At(t, "delete_inode")
  /\ TableFree
  /\ \/ /\ call[t].inode \notin DOMAIN inodes
        /\ Return(t, "NotFound")
     \/ /\ call[t].inode \in DOMAIN inodes
        /\ Goto(t, [call[t] EXCEPT !.at = "delete_remove"])
  /\ UNCHANGED <<inodes, counter, map, handle>>

(* A delete that gives the number back if it was the last one given out. *)
DeleteGivesBack(t) ==
  /\ At(t, "delete_remove")
  /\ TableFree
  /\ inodes' = Remove(inodes, call[t].inode)
  /\ map' = Kept(map, inodes', handle)
  /\ counter' = IF call[t].inode + 1 = counter THEN counter - 1 ELSE counter
  /\ Return(t, "Ok")
  /\ UNCHANGED handle

DeleteRemove(t) ==
  /\ At(t, "delete_remove")
  /\ TableFree
  /\ inodes' = Remove(inodes, call[t].inode)
  /\ map' = Kept(map, inodes', handle)
  /\ Return(t, "Ok")
  /\ UNCHANGED <<counter, handle>>

-----------------------------------------------------------------------------
(* rename *)

RenameFind(t, n, m) ==
  /\ CanWrite(t)
  /\ \/ /\ n \notin DOMAIN Entries(t)
        /\ Return(t, "NotFound")
     \/ /\ n \in DOMAIN Entries(t)
        /\ Goto(t, [at |-> "rename_check", name |-> n,
                    inode |-> Entries(t)[n].inode, to |-> m])
  /\ UNCHANGED <<inodes, counter, map, handle>>

RenameCheck(t) ==
  /\ At(t, "rename_check")
  /\ TableFree
  /\ LET r == Checked(t, call[t].inode, "RENAME")
     IN  \/ r # "Ok" /\ Return(t, r)
         \/ r = "Ok" /\ Goto(t, [call[t] EXCEPT !.at = "rename_move"])
  /\ UNCHANGED <<inodes, counter, map, handle>>

Copied(entries, n, m) == Insert(entries, m, [entries[n] EXCEPT !.name = m])
Relabelled(entries, n, m) == Remove(Insert(entries, m, entries[n]), n)

(* A directory map once the entry of n is stored under m. *)
Moved(entries, n, m) ==
  Remove(Insert(entries, m, [entries[n] EXCEPT !.name = m]), n)

(* A rename that stores the inode it found at first, still there or not. *)
RenameFound(t) ==
  /\ At(t, "rename_move")
  /\ Unread(Dir(t))
  /\ LET i == call[t].inode
         m == call[t].to
     IN  \/ /\ i \notin DOMAIN inodes \/ m \in DOMAIN Entries(t)
            /\ Return(t, "AlreadyExists")
            /\ UNCHANGED map
         \/ /\ i \in DOMAIN inodes
            /\ m \notin DOMAIN Entries(t)
            /\ map' = [map EXCEPT ![Dir(t)] =
                         Insert(Remove(@, call[t].name), m,
                                [name |-> m, inode |-> i, kind |-> inodes[i].kind])]
            /\ Return(t, "Ok")
  /\ UNCHANGED <<inodes, counter, handle>>

RenameMove(t) ==
  /\ At(t, "rename_move")
  /\ Unread(Dir(t))
  /\ LET n == call[t].name
         m == call[t].to
     IN  \/ /\ n \notin DOMAIN Entries(t)
            /\ Return(t, "NotFound")
            /\ UNCHANGED map
         \/ /\ {n, m} \subseteq DOMAIN Entries(t)
            /\ Return(t, "AlreadyExists")
            /\ UNCHANGED map
         \/ /\ n \in DOMAIN Entries(t)
            /\ m \notin DOMAIN Entries(t)
            /\ map' = [map EXCEPT ![Dir(t)] = Moved(@, n, m)]
            /\ Return(t, "Ok")
  /\ UNCHANGED <<inodes, counter, handle>>

-----------------------------------------------------------------------------
(* lookup *)

LookupFind(t, n) ==
  /\ CanRead(t)
  /\ \/ /\ n \notin DOMAIN Entries(t)
        /\ Return(t, "NotFound")
     \/ /\ n \in DOMAIN Entries(t)
        /\ Goto(t, [at |-> "lookup_get", inode |-> Entries(t)[n].inode])
  /\ UNCHANGED <<inodes, counter, map, handle>>

LookupGet(t) ==
  /\ At(t, "lookup_get")
  /\ TableFree
  /\ Return(t, IF call[t].inode \in DOMAIN inodes THEN "Ok" ELSE "NotFound")
  /\ UNCHANGED <<inodes, counter, map, handle>>

-----------------------------------------------------------------------------

(* A new call on t's handle, or a new handle. *)
Begin(t) ==
  \/ \E d \in DOMAIN inodes, flags \in FlagSets : Open(t, d, flags)
  \/ Denied(t)
  \/ \E n \in Names :
       \/ \E o \in NewObjects : CreateFind(t, n, o)
       \/ DeleteFind(t, n)
       \/ \E m \in Names : RenameFind(t, n, m)
       \/ LookupFind(t, n)

(* The next step of the call t is in. *)
Continue(t) ==
  \/ AllocPanic(t) \/ AllocNoSpace(t) \/ AllocRoom(t) \/ AllocInode(t)
  \/ CreateInsert(t)
  \/ DeleteCheck(t) \/ DeleteUnlink(t) \/ DeleteInode(t) \/ DeleteRemove(t)
  \/ RenameCheck(t) \/ RenameMove(t)
  \/ LookupGet(t)

Next ==
  \/ \E t \in Tasks : Begin(t) \/ Continue(t)
  \/ \E i \in DOMAIN inodes, grants \in ChmodGrants : Chmod(i, grants)

Spec == Init /\ [][Next]_vars

(* A task inside a call keeps running: nothing in these calls waits except *)
(* for a lock.  No task has to begin a call, and a spin lock promises no   *)
(* order among those who wait for it, so fairness is weak.                 *)
Fairness == \A t \in Tasks : WF_vars(Continue(t))

FairSpec == Spec /\ Fairness

-----------------------------------------------------------------------------
(* Properties that hold however many tasks call at once.                   *)

(* Every variable has the type its declaration in the code gives it; the   *)
(* locals of a call are those its point in the code still needs.           *)
TypeOK ==
  /\ DOMAIN inodes \subseteq Ino
  /\ inodes \in [DOMAIN inodes -> Object]
  /\ counter \in 1 .. MaxInodes
  /\ DOMAIN map \subseteq Ino
  /\ \A d \in DOMAIN map : /\ DOMAIN map[d] \subseteq Names
                          /\ map[d] \in [DOMAIN map[d] -> DirEntry]
  /\ handle \in [Tasks -> [dir: DOMAIN map, flags: SUBSET OpenFlag]]
  /\ call \in [Tasks -> Call]

(* No two directory entries lead to the same inode: create links a number  *)
(* nobody else has, and rename takes the old entry away under the same     *)
(* write lock that stores the new one.                                     *)
SingleLink ==
  \A d, e \in DOMAIN map : \A m \in DOMAIN map[d], n \in DOMAIN map[e] :
    map[d][m].inode = map[e][n].inode => d = e /\ m = n

(* An entry leads to an inode younger than the directory it is in, so no   *)
(* chain of lookups ever comes back to a directory it went through.        *)
ChildrenAreYounger ==
  \A d \in DOMAIN map : \A n \in DOMAIN map[d] : map[d][n].inode > d

(* The root directory that root_inode hands out is always there, and no    *)
(* entry leads to it, so no delete can take it away.                       *)
RootIntact ==
  /\ Root \in DOMAIN inodes
  /\ inodes[Root].kind = "Directory"
  /\ \A d \in DOMAIN map : \A n \in DOMAIN map[d] : map[d][n].inode # Root

(* What an entry says of itself is true: it carries the name it is stored  *)
(* under, and the kind of the inode it leads to while that inode exists.   *)
EntriesDescribe ==
  \A d \in DOMAIN map : \A n \in DOMAIN map[d] :
    LET entry == map[d][n]
    IN  /\ entry.name = n
        /\ entry.inode \in DOMAIN inodes =>
             entry.kind = inodes[entry.inode].kind

(* The table holds at most MaxInodes inodes, so that max - len in stats()  *)
(* is never a subtraction below zero.                                      *)
WithinCapacity == Cardinality(DOMAIN inodes) <= MaxInodes

(* A number that once named an inode never names another one, whatever is  *)
(* deleted: a number kept by a stale call or handle can be dead but not    *)
(* mean something else.  The counter never goes back, a new inode gets a   *)
(* number it passes over, and one that stays in the table keeps its kind.  *)
OnlyNewNumbers ==
  /\ counter <= counter'
  /\ \A i \in DOMAIN inodes' \ DOMAIN inodes : i \in counter .. (counter' - 1)
  /\ \A i \in DOMAIN inodes \cap DOMAIN inodes' :
       inodes'[i].kind = inodes[i].kind
NumbersNeverReused == [][OnlyNewNumbers]_vars

(* The inodes creates have allocated and not yet linked. *)
Creating == {call[t].inode : t \in {u \in Tasks : At(u, "create_insert")}}

(* Neither the root nor a create under way leads to the inode: some set    *)
(* without it has these and, with a directory, what is in it.              *)
Closed(S) ==
  \A d \in S \cap DOMAIN map : \A n \in DOMAIN map[d] : map[d][n].inode \in S
Stranded(i) ==
  \E S \in SUBSET (Ino \ {i}) : {Root} \cup Creating \subseteq S /\ Closed(S)

(* Only such steps can make a difference to that. *)
Relinks == map' # map \/ Creating' # Creating

(* What is cut off stays cut off: neither a call that is about a name      *)
(* taken away meanwhile, nor a handle that has outlived its directory,     *)
(* brings an inode below a deleted directory back to where paths lead.     *)
StrandedStays ==
  Relinks =>
    \A i \in DOMAIN inodes \cap DOMAIN inodes' : Stranded(i) => Stranded(i)'
StrandedForGood == [][StrandedStays]_vars

(* Why the properties above hold: what is known of the numbers in use and  *)
(* of the calls under way.                                                 *)

(* Whatever can be opened as a directory has a map. *)
DirectoriesHaveMaps ==
  \A i \in DOMAIN inodes : inodes[i].kind = "Directory" => i \in DOMAIN map

(* The counter is ahead of every number in use. *)
CounterAhead ==
  /\ \A i \in DOMAIN inodes \cup DOMAIN map : i < counter
  /\ \A d \in DOMAIN map : \A n \in DOMAIN map[d] : map[d][n].inode < counter
  /\ \A t \in Tasks : "inode" \in DOMAIN call[t] => call[t].inode < counter

(* An inode that create has not linked yet is younger than the directory,  *)
(* is of the kind asked for, and nobody else has it.                       *)
PendingUnlinked ==
  \A t \in Tasks : At(t, "create_insert") =>
    LET i == call[t].inode
    IN  /\ Dir(t) < i
        /\ i \in DOMAIN inodes => inodes[i].kind = call[t].kind
        /\ \A d \in DOMAIN map : \A n \in DOMAIN map[d] : map[d][n].inode # i
        /\ \A u \in Tasks :
             At(u, "create_insert") /\ call[u].inode = i => u = t

(* The counter lock has one holder, and who is about to use the number has *)
(* made sure that there is one.                                            *)
OneAllocates ==
  \A t \in Tasks : call[t].at \in HoldCounter =>
    /\ \A u \in Tasks : call[u].at \in HoldCounter => u = t
    /\ At(t, "create_store") => ~Overflows(counter) /\ ~Full(counter)

(* A delete under way is never about the root. *)
DeletePoint == {"delete_check", "delete_unlink", "delete_inode",
                "delete_remove"}
RootNotDeleted ==
  \A t \in Tasks : call[t].at \in DeletePoint => call[t].inode # Root

(* The invariant each step preserves. *)
Inductive ==
  /\ TypeOK
  /\ DirectoriesHaveMaps
  /\ CounterAhead
  /\ PendingUnlinked
  /\ OneAllocates
  /\ RootNotDeleted
  /\ SingleLink
  /\ ChildrenAreYounger
  /\ RootIntact
  /\ EntriesDescribe

(* A create that waits for the counter lock of a task that has panicked.   *)
Shut(t) == At(t, "create_inode") /\ \E u \in Tasks : At(u, "panicked")

(* No two calls wait for each other: a lookup always ends, and, once       *)
(* lookups no longer keep the read lock of a map busy, so does every other *)
(* call, but for one that panics and creates shut out by it.               *)
CallsReturn ==
  /\ \A t \in Tasks : At(t, "lookup_get") ~> Idle(t)
  /\ (<>[](\A u \in Tasks : ~At(u, "lookup_get")))
       => \A t \in Tasks : ~Idle(t) ~> Idle(t) \/ At(t, "panicked") \/ Shut(t)

-----------------------------------------------------------------------------
(* Properties of callers that keep out of each other's way.                *)

(* A task inside a call that may change the directory it is about.         *)
Busy(t) == ~Idle(t) /\ ~At(t, "lookup_get") /\ ~At(t, "panicked")

(* Callers are orderly if only one of them at a time is changing a given   *)
(* directory, and if none uses the number of a directory before the create *)
(* that made it has linked it.  A single caller is orderly by itself.      *)
Orderly ==
  /\ \A t, u \in Tasks : Busy(t) /\ Busy(u) /\ Dir(t) = Dir(u) => t = u
  /\ \A t \in Tasks : Dir(t) \notin Creating

(* No chmod comes between the test of a right on an object and its use.    *)
NoChmodBetween ==
  \A t \in Tasks : call[t].at \in {"delete_unlink", "rename_move"} =>
    \A i \in {call[t].inode} \cap DOMAIN inodes \cap DOMAIN inodes' :
      inodes'[i].grants = inodes[i].grants

OrderlySpec == Init /\ [][Next /\ Orderly' /\ NoChmodBetween]_vars

(* The inodes deletes have unlinked and not yet removed.                   *)
Removing(t) == At(t, "delete_inode") \/ At(t, "delete_remove")
Deleting == {call[t].inode : t \in {u \in Tasks : Removing(u)}}

(* Every entry leads to an inode that exists.                              *)
NoDanglingEntry ==
  \A d \in DOMAIN map : \A n \in DOMAIN map[d] :
    map[d][n].inode \in DOMAIN inodes

(* An inode some name of the directory leads to. *)
In(i, d) == d \in DOMAIN map /\ \E n \in DOMAIN map[d] : map[d][n].inode = i

(* The inodes in no directory of the table, but for the root and those a   *)
(* call is just bringing in or taking away: nothing leads to them.         *)
Lost ==
  {i \in DOMAIN inodes \ ({Root} \cup Creating \cup Deleting) :
     ~ \E d \in DOMAIN inodes : In(i, d)}

(* No call, one that fails included, leaks an inode, but for two ways that *)
(* both come of a directory that is no more: it is removed with entries in *)
(* it, which NotEmpty is named for and delete does not test, or a create   *)
(* through a handle that has outlived it links an inode in it.             *)
OnlyLostWithDirectory ==
  \A i \in Lost' \ Lost :
    \E d \in Ino \ DOMAIN inodes' : In(i, d) \/ In(i, d)'
LostWithDirectory == [][OnlyLostWithDirectory]_vars

(* What an orderly caller knows in the middle of a call c: what it has     *)
(* read is still so.                                                       *)
Current(t, c) ==
  /\ c.at \in {"create_inode", "create_store", "create_insert"} =>
       c.name \notin DOMAIN Entries(t)
  /\ c.at = "create_insert" =>
       /\ c.inode \in DOMAIN inodes
       /\ c.inode \in DOMAIN map <=> c.kind = "Directory"
       /\ c.inode \in DOMAIN map => map[c.inode] = EmptyMap
  /\ c.at \in {"delete_check", "delete_unlink",
               "rename_check", "rename_move"} =>
       /\ c.name \in DOMAIN Entries(t)
       /\ Entries(t)[c.name].inode = c.inode
  /\ c.at = "delete_unlink" => May(t, inodes[c.inode], "DELETE")
  /\ c.at = "rename_move" => May(t, inodes[c.inode], "RENAME")
  /\ c.at \in {"delete_inode", "delete_remove"} =>
       /\ c.inode \in DOMAIN inodes
       /\ \A d \in DOMAIN map : \A n \in DOMAIN map[d] :
            map[d][n].inode # c.inode

(* No inode is on its way out twice, or in and out at once. *)
NoContest ==
  /\ \A t, u \in Tasks :
       Removing(t) /\ Removing(u) /\ call[t].inode = call[u].inode => t = u
  /\ Creating \cap Deleting = {}

(* The entry a lookup has found is in the map as long as it holds the read *)
(* lock, whatever the others do.                                           *)
LookupSees ==
  \A t \in Tasks : At(t, "lookup_get") =>
    \E n \in DOMAIN Entries(t) : Entries(t)[n].inode = call[t].inode

(* A lookup that found a name answers with an object, never with NotFound  *)
(* for an inode on its way out: a delete takes the entry away first, and   *)
(* for that it waits until no lookup holds the read lock.                  *)
LookupSucceeds ==
  \A t \in Tasks : At(t, "lookup_get") => call[t].inode \in DOMAIN inodes

(* What each step of orderly callers preserves beside Inductive. *)
OrderlyInductive ==
  /\ \A t \in Tasks : Current(t, call[t])
  /\ NoContest
  /\ NoDanglingEntry

(* The namespace callers see: an object comes with its name at the end of  *)
(* create and goes with it when delete unlinks the entry.                  *)
Objects == Restrict(inodes, DOMAIN inodes \ (Creating \cup Deleting))
Links == [d \in DOMAIN map \ Creating |->
            [n \in DOMAIN map[d] |-> map[d][n].inode]]
Used == (0 .. (counter - 1)) \ Creating

Tree == INSTANCE DirectoryTree WITH
  Numbers <- Ino,
  Top     <- Root,
  Kinds   <- ObjectKind,
  Rights  <- Right,
  Trusted <- Privileged # {},
  objects <- Objects,
  tree    <- Links,
  used    <- Used

(* Every call of orderly callers changes that namespace in one step or not *)
(* at all; in particular a call that answers an error changes nothing.     *)
ImplementsTree == Tree!Spec

-----------------------------------------------------------------------------
(* What names and comments of the code say, and the code does not do.      *)

(* AlreadyExists: a create never puts its inode in the place of another.   *)
NoSilentReplace ==
  [][\A d \in DOMAIN map : \A n \in DOMAIN map[d] :
       n \in DOMAIN map'[d] => map'[d][n].inode = map[d][n].inode]_vars

=============================================================================
