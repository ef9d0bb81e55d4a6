----------------------- MODULE RamobsDirectoryProofs -----------------------
(***************************************************************************)
(* Proofs about RamobsDirectory, for any number of tasks, names, inodes    *)
(* and any u32 limit.  Inductive holds initially and every step preserves  *)
(* it; the properties follow from it.                                      *)
(***************************************************************************)
EXTENDS RamobsDirectory, FiniteSetTheorems, TLAPS

(* Below the limits the addition on the counter does not wrap. *)
LEMMA IncrementExact ==
  ASSUME NEW c \in Nat, ~Overflows(c)
  PROVE  Increment(c) = c + 1
BY LimitsAssumption DEF Overflows, Increment

(* Insert keeps the type of a map. *)
LEMMA InsertType ==
  ASSUME NEW S, NEW T, NEW m, NEW k \in S, NEW v \in T,
         DOMAIN m \subseteq S, m \in [DOMAIN m -> T]
  PROVE  /\ DOMAIN Insert(m, k, v) \subseteq S
         /\ Insert(m, k, v) \in [DOMAIN Insert(m, k, v) -> T]
BY DEF Insert

LEMMA RemoveType ==
  ASSUME NEW S, NEW T, NEW m, NEW k,
         DOMAIN m \subseteq S, m \in [DOMAIN m -> T]
  PROVE  /\ DOMAIN Remove(m, k) \subseteq S
         /\ Remove(m, k) \in [DOMAIN Remove(m, k) -> T]
BY DEF Remove, Restrict

-----------------------------------------------------------------------------
LEMMA InitInductive == Init => Inductive
<1> SUFFICES ASSUME Init PROVE Inductive
  OBVIOUS
<1>1. /\ DOMAIN inodes = {Root} /\ DOMAIN map = {Root}
      /\ inodes[Root] = [kind |-> "Directory", grants |-> {}]
      /\ map[Root] = EmptyMap /\ DOMAIN EmptyMap = {}
  BY DEF Init, EmptyMap, Insert
<1>2. TypeOK
  BY <1>1, LimitsAssumption
     DEF Init, TypeOK, EmptyMap, Insert, Ino, Root, Object, ObjectKind, Right,
         OpenFlag, Call, Result
<1>20. OneAllocates
  BY DEF Init, OneAllocates, HoldCounter, At
<1>3. /\ DirectoriesHaveMaps /\ CounterAhead
  BY <1>1 DEF Init, DirectoriesHaveMaps, CounterAhead, Root
<1>4. PendingUnlinked /\ RootNotDeleted
  BY DEF Init, PendingUnlinked, RootNotDeleted, At, DeletePoint
<1>5. SingleLink /\ ChildrenAreYounger /\ RootIntact /\ EntriesDescribe
  BY <1>1 DEF SingleLink, ChildrenAreYounger, RootIntact, EntriesDescribe
<1> QED
  BY <1>2, <1>3, <1>4, <1>5, <1>20 DEF Inductive

-----------------------------------------------------------------------------
(* The locals of a call, by the point it is at. *)
LEMMA CallLocals ==
  ASSUME TypeOK, NEW t \in Tasks
  PROVE  /\ At(t, "create_inode") \/ At(t, "create_store") =>
              /\ call[t] = [at |-> call[t].at, name |-> call[t].name,
                            object |-> call[t].object]
              /\ call[t].name \in Names /\ call[t].object \in Object
         /\ At(t, "create_insert") =>
              /\ "inode" \in DOMAIN call[t]
              /\ call[t].name \in Names /\ call[t].inode \in Ino
              /\ call[t].kind \in ObjectKind
         /\ At(t, "delete_check") \/ At(t, "delete_unlink") =>
              /\ "inode" \in DOMAIN call[t]
              /\ call[t] = [at |-> call[t].at, name |-> call[t].name,
                            inode |-> call[t].inode]
              /\ call[t].name \in Names /\ call[t].inode \in Ino
         /\ At(t, "delete_inode") \/ At(t, "delete_remove") =>
              /\ "inode" \in DOMAIN call[t]
              /\ call[t] = [at |-> call[t].at, inode |-> call[t].inode]
              /\ call[t].inode \in Ino
         /\ At(t, "rename_check") \/ At(t, "rename_move") =>
              /\ "inode" \in DOMAIN call[t]
              /\ call[t] = [at |-> call[t].at, name |-> call[t].name,
                            inode |-> call[t].inode, to |-> call[t].to]
              /\ call[t].name \in Names /\ call[t].inode \in Ino
              /\ call[t].to \in Names
BY DEF TypeOK, Call, At

(* Whoever moves on without the counter lock leaves its holder alone, or   *)
(* was the holder.                                                         *)
LEMMA LockPassesOn ==
  ASSUME Inductive, NEW t \in Tasks,
         call' \in [Tasks -> Call], call'[t].at \notin HoldCounter,
         \A u \in Tasks : u # t => call'[u] = call[u],
         counter' = counter \/ call[t].at \in HoldCounter
  PROVE  OneAllocates'
BY DEF Inductive, OneAllocates, At, Overflows, Full, Increment

(* A step that only moves one call on, to a point where nothing is         *)
(* promised or what is promised is known.                                  *)
LEMMA QuietStep ==
  ASSUME Inductive, NEW t \in Tasks, NEW c \in Call,
         Goto(t, c), UNCHANGED <<inodes, counter, map, handle>>,
         c.at # "create_insert",
         "inode" \in DOMAIN c => c.inode < counter,
         c.at \in HoldCounter => CounterFree,
         c.at = "create_store" => ~Overflows(counter) /\ ~Full(counter),
         c.at \in DeletePoint => c.inode # Root
  PROVE  Inductive'
<1>1. /\ call' \in [Tasks -> Call]
      /\ call'[t] = c
      /\ \A u \in Tasks : u # t => call'[u] = call[u]
  BY DEF Goto, Inductive, TypeOK
<1>2. TypeOK'
  BY <1>1 DEF Inductive, TypeOK
<1>3. DirectoriesHaveMaps' /\ CounterAhead'
  BY <1>1 DEF Inductive, DirectoriesHaveMaps, CounterAhead
<1>4. PendingUnlinked'
  BY <1>1 DEF Inductive, PendingUnlinked, At, Dir
<1>5. RootNotDeleted'
  BY <1>1 DEF Inductive, RootNotDeleted
<1>6. OneAllocates'
  <2>1. CASE c.at \notin HoldCounter
    BY <1>1, <2>1, LockPassesOn
  <2>2. CASE c.at \in HoldCounter
    BY <1>1, <2>2
       DEF Inductive, OneAllocates, CounterFree, At, Overflows, Full, Increment
  <2> QED
    BY <2>1, <2>2
<1>7. SingleLink' /\ ChildrenAreYounger' /\ RootIntact' /\ EntriesDescribe'
  BY DEF Inductive, SingleLink, ChildrenAreYounger, RootIntact, EntriesDescribe
<1> QED
  BY <1>2, <1>3, <1>4, <1>5, <1>6, <1>7 DEF Inductive

(* What the entry of a name is: an inode of the table, past or present,    *)
(* that is not the root.                                                   *)
LEMMA EntryFacts ==
  ASSUME Inductive, NEW d \in DOMAIN map, NEW n \in DOMAIN map[d]
  PROVE  /\ map[d][n] \in DirEntry
         /\ map[d][n].inode \in Ino
         /\ map[d][n].inode < counter
         /\ map[d][n].inode # Root
BY DEF Inductive, TypeOK, DirEntry, CounterAhead, RootIntact

LEMMA HandleFacts ==
  ASSUME Inductive, NEW t \in Tasks
  PROVE  Dir(t) \in DOMAIN map /\ Entries(t) = map[Dir(t)]
BY DEF Inductive, TypeOK, Dir, Entries

(* The type of each form a call record takes. *)
LEMMA CallForms ==
  /\ \A r \in Result : [at |-> "idle", result |-> r] \in Call
  /\ [at |-> "panicked"] \in Call
  /\ \A n \in Names, o \in Object :
       /\ [at |-> "create_inode", name |-> n, object |-> o] \in Call
       /\ [at |-> "create_store", name |-> n, object |-> o] \in Call
  /\ \A n \in Names, i \in Ino, k \in ObjectKind :
       [at |-> "create_insert", name |-> n, inode |-> i, kind |-> k] \in Call
  /\ \A l \in {"delete_check", "delete_unlink"}, n \in Names, i \in Ino :
       [at |-> l, name |-> n, inode |-> i] \in Call
  /\ \A l \in {"delete_inode", "delete_remove"}, i \in Ino :
       [at |-> l, inode |-> i] \in Call
  /\ \A l \in {"rename_check", "rename_move"}, n, m \in Names, i \in Ino :
       [at |-> l, name |-> n, inode |-> i, to |-> m] \in Call
  /\ \A i \in Ino : [at |-> "lookup_get", inode |-> i] \in Call
BY DEF Call

(* A call that returns and changes nothing. *)
LEMMA ReturnStep ==
  ASSUME Inductive, NEW t \in Tasks, NEW r \in Result,
         Return(t, r), UNCHANGED <<inodes, counter, map, handle>>
  PROVE  Inductive'
<1> DEFINE c == [at |-> "idle", result |-> r]
<1>1. c \in Call /\ Goto(t, c)
  BY CallForms DEF Return
<1> QED
  BY <1>1, QuietStep DEF DeletePoint, HoldCounter

-----------------------------------------------------------------------------
(* The steps, one lemma each. *)

(* What is left of the maps is as it was. *)
LEMMA FewerMaps ==
  ASSUME Inductive, DOMAIN map' \subseteq DOMAIN map,
         \A d \in DOMAIN map' : map'[d] = map[d]
  PROVE  SingleLink' /\ ChildrenAreYounger'
BY DEF Inductive, SingleLink, ChildrenAreYounger

LEMMA OpenStep ==
  ASSUME Inductive, NEW t \in Tasks, NEW d, NEW flags \in FlagSets,
         Open(t, d, flags)
  PROVE  Inductive'
<1>1. d \in DOMAIN map /\ d \in DOMAIN inodes
  BY DEF Open, Inductive, DirectoriesHaveMaps
<1>10. /\ handle' = [handle EXCEPT ![t] = [dir |-> d, flags |-> flags]]
       /\ map' = Kept(map, inodes, handle')
  BY DEF Open
<1>2. /\ UNCHANGED <<inodes, counter, call>>
      /\ \A u \in Tasks : u # t => handle'[u] = handle[u]
  BY DEF Open, Inductive, TypeOK
<1>3. /\ DOMAIN map' \subseteq DOMAIN map
      /\ \A e \in DOMAIN map' : map'[e] = map[e]
      /\ \A e \in DOMAIN map \cap DOMAIN inodes : e \in DOMAIN map'
      /\ \A u \in Tasks : handle'[u].dir \in DOMAIN map =>
           handle'[u].dir \in DOMAIN map'
  BY <1>10 DEF Kept, Restrict
<1>4. handle' \in [Tasks -> [dir: DOMAIN map', flags: SUBSET OpenFlag]]
  <2>1. handle' \in [Tasks -> [dir: DOMAIN map, flags: SUBSET OpenFlag]]
    BY <1>1, <1>10, CallersAssumption DEF Inductive, TypeOK
  <2>2. \A u \in Tasks : handle'[u].dir \in DOMAIN map'
    BY <1>3, <2>1
  <2> QED
    BY <2>1, <2>2
<1>5. TypeOK' /\ DirectoriesHaveMaps' /\ CounterAhead'
  BY <1>2, <1>3, <1>4 DEF Inductive, TypeOK, DirectoriesHaveMaps, CounterAhead
<1>6. PendingUnlinked'
  <2>1. ~At(t, "create_insert")
    BY DEF Open, Idle, At
  <2> QED
    BY <1>2, <1>3, <2>1 DEF Inductive, PendingUnlinked, At, Dir
<1>7. RootNotDeleted' /\ OneAllocates'
  BY <1>2 DEF Inductive, RootNotDeleted, OneAllocates, At, Overflows, Full, Increment
<1>8. SingleLink' /\ ChildrenAreYounger'
  BY <1>3, FewerMaps
<1>9. RootIntact' /\ EntriesDescribe'
  BY <1>2, <1>3 DEF Inductive, RootIntact, EntriesDescribe
<1> QED
  BY <1>5, <1>6, <1>7, <1>8, <1>9 DEF Inductive

(* Nothing of the invariant is about rights. *)
LEMMA ChmodStep ==
  ASSUME Inductive, NEW i, NEW grants \in ChmodGrants, Chmod(i, grants)
  PROVE  Inductive'
<1>1. /\ DOMAIN inodes' = DOMAIN inodes
      /\ \A j \in DOMAIN inodes : inodes'[j].kind = inodes[j].kind
      /\ UNCHANGED <<counter, map, handle, call>>
      /\ inodes' \in [DOMAIN inodes -> Object]
  BY CallersAssumption DEF Chmod, Inductive, TypeOK, Object
<1>2. TypeOK' /\ DirectoriesHaveMaps' /\ CounterAhead'
  BY <1>1 DEF Inductive, TypeOK, DirectoriesHaveMaps, CounterAhead
<1>3. PendingUnlinked' /\ RootNotDeleted' /\ OneAllocates'
  BY <1>1 DEF Inductive, PendingUnlinked, RootNotDeleted, OneAllocates, At, Dir,
              Overflows, Full, Increment
<1>4. SingleLink' /\ ChildrenAreYounger'
  BY <1>1 DEF Inductive, SingleLink, ChildrenAreYounger
<1>5. RootIntact' /\ EntriesDescribe'
  BY <1>1 DEF Inductive, RootIntact, EntriesDescribe
<1> QED
  BY <1>2, <1>3, <1>4, <1>5 DEF Inductive

LEMMA DeniedStep ==
  ASSUME Inductive, NEW t \in Tasks, Denied(t)
  PROVE  Inductive'
BY ReturnStep DEF Denied, Result

LEMMA CreateFindStep ==
  ASSUME Inductive, NEW t \in Tasks, NEW n \in Names, NEW o \in NewObjects,
         CreateFind(t, n, o)
  PROVE  Inductive'
<1>1. CASE Return(t, "AlreadyExists")
  BY <1>1, ReturnStep DEF CreateFind, Result
<1>2. CASE Goto(t, [at |-> "create_inode", name |-> n, object |-> o])
  <2>1. [at |-> "create_inode", name |-> n, object |-> o] \in Call
    BY CallForms, CallersAssumption
  <2> QED
    BY <1>2, <2>1, QuietStep DEF CreateFind, DeletePoint, HoldCounter
<1> QED
  BY <1>1, <1>2 DEF CreateFind

LEMMA AllocFailSteps ==
  ASSUME Inductive, NEW t \in Tasks, AllocPanic(t) \/ AllocNoSpace(t)
  PROVE  Inductive'
<1>1. CASE AllocPanic(t)
  BY <1>1, QuietStep, CallForms DEF AllocPanic, DeletePoint, HoldCounter
<1>2. CASE AllocNoSpace(t)
  BY <1>2, ReturnStep DEF AllocNoSpace, Result
<1> QED
  BY <1>1, <1>2

LEMMA AllocRoomStep ==
  ASSUME Inductive, NEW t \in Tasks, AllocRoom(t)
  PROVE  Inductive'
<1> DEFINE c == [call[t] EXCEPT !.at = "create_store"]
<1>4. /\ call[t] = [at |-> call[t].at, name |-> call[t].name,
                    object |-> call[t].object]
      /\ call[t].name \in Names /\ call[t].object \in Object
  BY CallLocals DEF AllocRoom, Inductive
<1>1. c = [at |-> "create_store", name |-> call[t].name,
           object |-> call[t].object]
  BY <1>4
<1>2. c \in Call /\ c.at = "create_store" /\ "inode" \notin DOMAIN c
  <2>1. PICK n \in Names, o \in Object :
          c = [at |-> "create_store", name |-> n, object |-> o]
    BY <1>1, <1>4
  <2> HIDE DEF c
  <2>2. [at |-> "create_store", name |-> n, object |-> o] \in Call
    BY DEF Call
  <2>3. QED
    BY <2>1, <2>2
<1>3. /\ Goto(t, c) /\ CounterFree /\ ~Overflows(counter) /\ ~Full(counter)
      /\ UNCHANGED <<inodes, counter, map, handle>>
  BY DEF AllocRoom
<1> HIDE DEF c
<1> QED
  BY <1>2, <1>3, QuietStep DEF DeletePoint

(* The number given out is new: every number in use is below the counter.  *)
LEMMA AllocInodeStep ==
  ASSUME Inductive, NEW t \in Tasks, AllocInode(t)
  PROVE  Inductive'
<1> DEFINE i == counter
           o == call[t].object
           c == [at |-> "create_insert", name |-> call[t].name,
                 inode |-> i, kind |-> o.kind]
<1>20. ~Overflows(counter) /\ ~Full(counter) /\ call[t].at \in HoldCounter
  BY DEF AllocInode, Inductive, OneAllocates, HoldCounter, At
<1>1. /\ counter \in Nat /\ counter' = counter + 1
      /\ i \in Ino /\ counter' \in 1 .. MaxInodes
  BY <1>20, IncrementExact, LimitsAssumption
     DEF AllocInode, Full, Inductive, TypeOK, Ino
<1>2. /\ o \in Object /\ o.kind \in ObjectKind /\ call[t].name \in Names
      /\ "object" \in DOMAIN call[t]
  BY CallLocals DEF AllocInode, Inductive, Object, TypeOK, Call, At
<1>3. /\ inodes' = Insert(inodes, i, o)
      /\ map' = IF o.kind = "Directory" THEN Insert(map, i, EmptyMap) ELSE map
      /\ Goto(t, c) /\ handle' = handle
  BY DEF AllocInode, NextNumber
<1>4. /\ DOMAIN inodes' = DOMAIN inodes \cup {i} /\ inodes'[i] = o
      /\ i \notin DOMAIN inodes /\ i \notin DOMAIN map
      /\ \A j \in DOMAIN inodes : inodes'[j] = inodes[j]
  <2>1. i \notin DOMAIN inodes /\ i \notin DOMAIN map
    BY <1>1 DEF Inductive, CounterAhead
  <2> QED
    BY <1>3, <2>1 DEF Insert
<1>5. /\ DOMAIN map \subseteq DOMAIN map'
      /\ \A d \in DOMAIN map' : \/ d \in DOMAIN map /\ map'[d] = map[d]
                                \/ d = i /\ map'[d] = EmptyMap
      /\ \A d \in DOMAIN map : map'[d] = map[d]
      /\ o.kind = "Directory" => i \in DOMAIN map'
      /\ DOMAIN EmptyMap = {}
      /\ EmptyMap \in [DOMAIN EmptyMap -> DirEntry]
  BY <1>3, <1>4 DEF EmptyMap, Insert
<1>6. /\ c \in Call /\ call' \in [Tasks -> Call] /\ call'[t] = c
      /\ \A u \in Tasks : u # t => call'[u] = call[u]
  BY <1>1, <1>2, <1>3, CallForms DEF Goto, Inductive, TypeOK
<1>7. TypeOK'
  <2>1. DOMAIN inodes' \subseteq Ino /\ inodes' \in [DOMAIN inodes' -> Object]
    BY <1>1, <1>2, <1>3, InsertType DEF Inductive, TypeOK
  <2>2. DOMAIN map' \subseteq Ino
    BY <1>1, <1>5 DEF Inductive, TypeOK
  <2>3. \A d \in DOMAIN map' : /\ DOMAIN map'[d] \subseteq Names
                              /\ map'[d] \in [DOMAIN map'[d] -> DirEntry]
    BY <1>5 DEF Inductive, TypeOK
  <2>4. handle' \in [Tasks -> [dir: DOMAIN map', flags: SUBSET OpenFlag]]
    BY <1>3, <1>5 DEF Inductive, TypeOK
  <2> QED
    BY <1>1, <1>6, <2>1, <2>2, <2>3, <2>4 DEF TypeOK
<1>8. DirectoriesHaveMaps'
  BY <1>4, <1>5 DEF Inductive, DirectoriesHaveMaps
<1>9. CounterAhead'
  <2>1. \A j \in DOMAIN inodes' \cup DOMAIN map' : j < counter'
    BY <1>1, <1>4, <1>5 DEF Inductive, TypeOK, CounterAhead, Ino
  <2>2. \A d \in DOMAIN map' : \A n \in DOMAIN map'[d] :
          map'[d][n].inode < counter'
    BY <1>1, <1>5, EntryFacts DEF Ino
  <2>3. \A u \in Tasks :
          "inode" \in DOMAIN call'[u] => call'[u].inode < counter'
    <3> TAKE u \in Tasks
    <3>1. CASE u = t
      BY <1>1, <1>6, <3>1
    <3>2. CASE u # t /\ "inode" \in DOMAIN call[u]
      <4>1. call[u].inode \in Ino
        BY <3>2 DEF Inductive, TypeOK, Call
      <4> QED
        BY <1>1, <1>6, <3>2, <4>1 DEF Inductive, CounterAhead, Ino
    <3> QED
      BY <1>6, <3>1, <3>2
  <2> QED
    BY <2>1, <2>2, <2>3 DEF CounterAhead
<1>10. PendingUnlinked'
  <2> SUFFICES ASSUME NEW u \in Tasks, At(u, "create_insert")'
               PROVE  LET j == call'[u].inode
                      IN  /\ Dir(u)' < j
                          /\ j \in DOMAIN inodes' =>
                               inodes'[j].kind = call'[u].kind
                          /\ \A d \in DOMAIN map' : \A n \in DOMAIN map'[d] :
                               map'[d][n].inode # j
                          /\ \A w \in Tasks :
                               At(w, "create_insert")' /\ call'[w].inode = j
                                 => w = u
    BY DEF PendingUnlinked
  <2>1. \A w \in Tasks : w # t /\ At(w, "create_insert")' =>
          /\ At(w, "create_insert") /\ call'[w] = call[w]
          /\ call[w].inode \in Ino /\ call[w].inode < i
    BY <1>6, CallLocals DEF At, Inductive, CounterAhead
  <2>2. CASE u = t
    <3>1. Dir(u)' < i
      BY <1>3, HandleFacts DEF Dir, Inductive, CounterAhead
    <3>2. \A d \in DOMAIN map' : \A n \in DOMAIN map'[d] :
            map'[d][n].inode # i
      BY <1>1, <1>5, EntryFacts DEF Ino
    <3>3. \A w \in Tasks :
            At(w, "create_insert")' /\ call'[w].inode = i => w = t
      BY <1>1, <2>1 DEF Ino
    <3> QED
      BY <1>4, <1>6, <2>2, <3>1, <3>2, <3>3
  <2>3. CASE u # t
    <3> DEFINE j == call[u].inode
    <3>1. At(u, "create_insert") /\ call'[u] = call[u] /\ j \in Ino /\ j < i
      BY <2>1, <2>3
    <3>2. /\ Dir(u) < j
          /\ j \in DOMAIN inodes => inodes[j].kind = call[u].kind
          /\ \A d \in DOMAIN map : \A n \in DOMAIN map[d] :
               map[d][n].inode # j
          /\ \A w \in Tasks :
               At(w, "create_insert") /\ call[w].inode = j => w = u
      BY <3>1 DEF Inductive, PendingUnlinked
    <3>3. \A w \in Tasks :
            At(w, "create_insert")' /\ call'[w].inode = j => w = u
      BY <1>1, <1>6, <2>1, <3>1, <3>2 DEF Ino
    <3>4. j \in DOMAIN inodes' => inodes'[j].kind = call[u].kind
      BY <1>1, <1>4, <3>1, <3>2 DEF Ino
    <3>5. \A d \in DOMAIN map' : \A n \in DOMAIN map'[d] :
            map'[d][n].inode # j
      BY <1>5, <3>2
    <3> QED
      BY <1>3, <3>1, <3>2, <3>3, <3>4, <3>5 DEF Dir
  <2> QED
    BY <2>2, <2>3
<1>11. RootNotDeleted' /\ OneAllocates'
  <2>1. RootNotDeleted'
    BY <1>6 DEF Inductive, RootNotDeleted, DeletePoint
  <2>2. OneAllocates'
    BY <1>6, <1>20, LockPassesOn DEF HoldCounter
  <2> QED
    BY <2>1, <2>2
<1>12. SingleLink'
  BY <1>5 DEF Inductive, SingleLink
<1>13. ChildrenAreYounger'
  BY <1>5 DEF Inductive, ChildrenAreYounger
<1>14. RootIntact'
  BY <1>4, <1>5 DEF Inductive, RootIntact
<1>15. EntriesDescribe'
  <2> SUFFICES ASSUME NEW d \in DOMAIN map', NEW n \in DOMAIN map'[d]
               PROVE  LET entry == map'[d][n]
                      IN  /\ entry.name = n
                          /\ entry.inode \in DOMAIN inodes' =>
                               entry.kind = inodes'[entry.inode].kind
    BY DEF EntriesDescribe
  <2>1. d \in DOMAIN map /\ map'[d] = map[d] /\ n \in DOMAIN map[d]
    BY <1>5
  <2>2. map[d][n].inode # i
    BY <1>1, <2>1, EntryFacts DEF Ino
  <2> QED
    BY <1>4, <2>1, <2>2 DEF Inductive, EntriesDescribe
<1> QED
  BY <1>7, <1>8, <1>9, <1>10, <1>11, <1>12, <1>13, <1>14, <1>15 DEF Inductive

(* The entry leads to an inode nobody else had, younger than the directory;*)
(* the entry it may replace is gone.                                       *)
LEMMA CreateInsertStep ==
  ASSUME Inductive, NEW t \in Tasks, CreateInsert(t)
  PROVE  Inductive'
<1> DEFINE d0 == Dir(t)
           n0 == call[t].name
           i  == call[t].inode
           e  == [name |-> n0, inode |-> i, kind |-> call[t].kind]
           c  == [at |-> "idle", result |-> "Ok"]
<1>1. /\ n0 \in Names /\ i \in Ino /\ call[t].kind \in ObjectKind
      /\ i < counter /\ e \in DirEntry /\ At(t, "create_insert")
  BY CallLocals DEF CreateInsert, Inductive, CounterAhead, DirEntry
<1>2. /\ d0 \in DOMAIN map
      /\ UNCHANGED <<inodes, counter, handle>>
  BY HandleFacts DEF CreateInsert
<1>3. /\ DOMAIN map' = DOMAIN map
      /\ \A d \in DOMAIN map : d # d0 => map'[d] = map[d]
      /\ map'[d0] = Insert(map[d0], n0, e)
  BY <1>2 DEF CreateInsert
<1>4. /\ DOMAIN map'[d0] = DOMAIN map[d0] \cup {n0}
      /\ map'[d0][n0] = e
      /\ \A n \in DOMAIN map[d0] : n # n0 => map'[d0][n] = map[d0][n]
  BY <1>3 DEF Insert
<1>5. \A d \in DOMAIN map' : \A n \in DOMAIN map'[d] :
        \/ d = d0 /\ n = n0 /\ map'[d][n] = e
        \/ /\ d \in DOMAIN map /\ n \in DOMAIN map[d]
           /\ map'[d][n] = map[d][n]
  BY <1>3, <1>4
<1>6. /\ c \in Call /\ call' \in [Tasks -> Call] /\ call'[t] = c
      /\ \A u \in Tasks : u # t => call'[u] = call[u]
  BY CallForms DEF CreateInsert, Return, Goto, Inductive, TypeOK, Result
<1>7. /\ d0 < i
      /\ i \in DOMAIN inodes => inodes[i].kind = call[t].kind
      /\ \A d \in DOMAIN map : \A n \in DOMAIN map[d] : map[d][n].inode # i
      /\ \A u \in Tasks :
           At(u, "create_insert") /\ call[u].inode = i => u = t
  BY <1>1 DEF Inductive, PendingUnlinked
<1>8. TypeOK'
  <2>1. /\ DOMAIN map'[d0] \subseteq Names
        /\ map'[d0] \in [DOMAIN map'[d0] -> DirEntry]
    <3>1. /\ DOMAIN map[d0] \subseteq Names
          /\ map[d0] \in [DOMAIN map[d0] -> DirEntry]
      BY <1>2 DEF Inductive, TypeOK
    <3> HIDE DEF e
    <3> QED
      BY <1>1, <1>3, <3>1 DEF Insert
  <2>2. \A d \in DOMAIN map' : /\ DOMAIN map'[d] \subseteq Names
                              /\ map'[d] \in [DOMAIN map'[d] -> DirEntry]
    BY <1>3, <2>1 DEF Inductive, TypeOK
  <2> QED
    BY <1>2, <1>3, <1>6, <2>2 DEF Inductive, TypeOK
<1>9. DirectoriesHaveMaps'
  BY <1>2, <1>3 DEF Inductive, DirectoriesHaveMaps
<1>10. CounterAhead'
  BY <1>1, <1>2, <1>3, <1>5, <1>6 DEF Inductive, CounterAhead
<1>11. PendingUnlinked'
  BY <1>1, <1>2, <1>5, <1>6, <1>7 DEF Inductive, PendingUnlinked, At, Dir
<1>12. RootNotDeleted' /\ OneAllocates'
  <2>1. RootNotDeleted'
    BY <1>6 DEF Inductive, RootNotDeleted, DeletePoint
  <2>2. OneAllocates'
    BY <1>2, <1>6, LockPassesOn DEF HoldCounter
  <2> QED
    BY <2>1, <2>2
<1>13. SingleLink'
  BY <1>5, <1>7 DEF Inductive, SingleLink
<1>14. ChildrenAreYounger'
  BY <1>5, <1>7 DEF Inductive, ChildrenAreYounger
<1>15. RootIntact'
  <2>1. i # Root
    BY <1>1, <1>2, <1>7 DEF Inductive, TypeOK, Ino, Root
  <2> QED
    BY <1>2, <1>5, <2>1 DEF Inductive, RootIntact
<1>16. EntriesDescribe'
  BY <1>2, <1>5, <1>7 DEF Inductive, EntriesDescribe
<1> QED
  BY <1>8, <1>9, <1>10, <1>11, <1>12, <1>13, <1>14, <1>15, <1>16
     DEF Inductive

LEMMA DeleteFindStep ==
  ASSUME Inductive, NEW t \in Tasks, NEW n \in Names, DeleteFind(t, n)
  PROVE  Inductive'
<1>1. CASE Return(t, "NotFound")
  BY <1>1, ReturnStep DEF DeleteFind, Result
<1>2. CASE /\ n \in DOMAIN Entries(t)
           /\ Goto(t, [at |-> "delete_check", name |-> n,
                       inode |-> Entries(t)[n].inode])
  <2> DEFINE c == [at |-> "delete_check", name |-> n,
                   inode |-> Entries(t)[n].inode]
  <2>1. /\ c.inode \in Ino /\ c.inode < counter /\ c.inode # Root
    BY <1>2, HandleFacts, EntryFacts
  <2>2. c \in Call
    BY <2>1, CallForms
  <2>3. /\ Goto(t, c) /\ c.at = "delete_check"
        /\ UNCHANGED <<inodes, counter, map, handle>>
    BY <1>2 DEF DeleteFind
  <2> HIDE DEF c
  <2> QED
    BY <2>1, <2>2, <2>3, QuietStep DEF HoldCounter
<1> QED
  BY <1>1, <1>2 DEF DeleteFind

LEMMA DeleteCheckStep ==
  ASSUME Inductive, NEW t \in Tasks, DeleteCheck(t)
  PROVE  Inductive'
<1> DEFINE i == call[t].inode
           r == Checked(t, i, "DELETE")
           c == [call[t] EXCEPT !.at = "delete_unlink"]
<1>1. /\ At(t, "delete_check") /\ UNCHANGED <<inodes, counter, map, handle>>
      /\ i \in Ino /\ call[t].name \in Names
      /\ call[t] = [at |-> call[t].at, name |-> call[t].name, inode |-> i]
      /\ "inode" \in DOMAIN call[t]
  BY CallLocals DEF DeleteCheck, Inductive
<1>2. CASE r # "Ok" /\ Return(t, r)
  BY <1>1, <1>2, ReturnStep DEF Checked, Result
<1>3. CASE r = "Ok" /\ Goto(t, c)
  <2>1. c = [at |-> "delete_unlink", name |-> call[t].name, inode |-> i]
    BY <1>1
  <2>2. c \in Call /\ c.at = "delete_unlink" /\ c.inode = i
    BY <1>1, <2>1, CallForms
  <2>3. i < counter /\ i # Root
    BY <1>1 DEF Inductive, CounterAhead, RootNotDeleted, DeletePoint, At
  <2> HIDE DEF c
  <2> QED
    BY <1>1, <1>3, <2>2, <2>3, QuietStep DEF HoldCounter
<1> QED
  BY <1>2, <1>3 DEF DeleteCheck

(* Taking an entry away leaves the others as they were. *)
LEMMA DeleteUnlinkStep ==
  ASSUME Inductive, NEW t \in Tasks, DeleteUnlink(t)
  PROVE  Inductive'
<1> DEFINE d0 == Dir(t)
           n0 == call[t].name
           i  == call[t].inode
           c  == [at |-> "delete_inode", inode |-> i]
<1>1. CASE Return(t, "NotFound") /\ UNCHANGED map
  BY <1>1, ReturnStep DEF DeleteUnlink, Result
<1>2. CASE /\ map' = [map EXCEPT ![d0] = Remove(@, n0)]
           /\ Goto(t, c)
  <2>1. /\ At(t, "delete_unlink") /\ UNCHANGED <<inodes, counter, handle>>
        /\ i \in Ino /\ i < counter /\ i # Root
    BY CallLocals
       DEF DeleteUnlink, Inductive, CounterAhead, RootNotDeleted, DeletePoint,
           At
  <2>2. d0 \in DOMAIN map
    BY HandleFacts
  <2>3. /\ DOMAIN map' = DOMAIN map
        /\ \A d \in DOMAIN map : d # d0 => map'[d] = map[d]
        /\ map'[d0] = Remove(map[d0], n0)
    BY <1>2, <2>2
  <2>4. \A d \in DOMAIN map' : \A n \in DOMAIN map'[d] :
          /\ d \in DOMAIN map /\ n \in DOMAIN map[d]
          /\ map'[d][n] = map[d][n]
    BY <2>3 DEF Remove, Restrict
  <2>5. /\ c \in Call /\ call' \in [Tasks -> Call] /\ call'[t] = c
        /\ \A u \in Tasks : u # t => call'[u] = call[u]
    BY <1>2, <2>1, CallForms DEF Goto, Inductive, TypeOK
  <2>6. TypeOK'
    <3>1. /\ DOMAIN map'[d0] \subseteq Names
          /\ map'[d0] \in [DOMAIN map'[d0] -> DirEntry]
      <4>1. /\ DOMAIN map[d0] \subseteq Names
            /\ map[d0] \in [DOMAIN map[d0] -> DirEntry]
        BY <2>2 DEF Inductive, TypeOK
      <4> QED
        BY <2>3, <4>1 DEF Remove, Restrict
    <3>2. \A d \in DOMAIN map' : /\ DOMAIN map'[d] \subseteq Names
                                /\ map'[d] \in [DOMAIN map'[d] -> DirEntry]
      BY <2>3, <3>1 DEF Inductive, TypeOK
    <3> QED
      BY <2>1, <2>3, <2>5, <3>2 DEF Inductive, TypeOK
  <2>7. DirectoriesHaveMaps'
    BY <2>1, <2>3 DEF Inductive, DirectoriesHaveMaps
  <2>8. CounterAhead'
    BY <2>1, <2>3, <2>4, <2>5 DEF Inductive, CounterAhead
  <2>9. PendingUnlinked'
    BY <2>1, <2>4, <2>5 DEF Inductive, PendingUnlinked, At, Dir
  <2>10. RootNotDeleted' /\ OneAllocates'
    BY <2>1, <2>5, LockPassesOn DEF Inductive, RootNotDeleted, HoldCounter
  <2>11. SingleLink' /\ ChildrenAreYounger' /\ RootIntact' /\ EntriesDescribe'
    BY <2>1, <2>4
       DEF Inductive, SingleLink, ChildrenAreYounger, RootIntact,
           EntriesDescribe
  <2> QED
    BY <2>6, <2>7, <2>8, <2>9, <2>10, <2>11 DEF Inductive
<1> QED
  BY <1>1, <1>2 DEF DeleteUnlink

LEMMA DeleteInodeStep ==
  ASSUME Inductive, NEW t \in Tasks, DeleteInode(t)
  PROVE  Inductive'
<1> DEFINE i == call[t].inode
           c == [call[t] EXCEPT !.at = "delete_remove"]
<1>1. /\ At(t, "delete_inode") /\ UNCHANGED <<inodes, counter, map, handle>>
      /\ i \in Ino /\ call[t] = [at |-> call[t].at, inode |-> i]
      /\ "inode" \in DOMAIN call[t]
  BY CallLocals DEF DeleteInode, Inductive
<1>2. CASE Return(t, "NotFound")
  BY <1>1, <1>2, ReturnStep DEF Result
<1>3. CASE Goto(t, c)
  <2>1. c = [at |-> "delete_remove", inode |-> i]
    BY <1>1
  <2>2. c \in Call /\ c.at = "delete_remove" /\ c.inode = i
    BY <1>1, <2>1, CallForms
  <2>3. i < counter /\ i # Root
    BY <1>1 DEF Inductive, CounterAhead, RootNotDeleted, DeletePoint, At
  <2> HIDE DEF c
  <2> QED
    BY <1>1, <1>3, <2>2, <2>3, QuietStep DEF HoldCounter
<1> QED
  BY <1>2, <1>3 DEF DeleteInode

(* The inode taken away is not the root; entries may now dangle, and a     *)
(* directory nobody has open goes with its map.                            *)
LEMMA DeleteRemoveStep ==
  ASSUME Inductive, NEW t \in Tasks, DeleteRemove(t)
  PROVE  Inductive'
<1> DEFINE i == call[t].inode
           c == [at |-> "idle", result |-> "Ok"]
<1>1. /\ At(t, "delete_remove") /\ UNCHANGED <<counter, handle>>
      /\ inodes' = Remove(inodes, i) /\ i # Root
      /\ map' = Kept(map, inodes', handle)
  BY DEF DeleteRemove, Inductive, RootNotDeleted, DeletePoint, At
<1>2. /\ DOMAIN inodes' = DOMAIN inodes \ {i}
      /\ \A j \in DOMAIN inodes' : inodes'[j] = inodes[j]
  BY <1>1 DEF Remove, Restrict
<1>10. /\ DOMAIN map' \subseteq DOMAIN map
       /\ \A d \in DOMAIN map' : map'[d] = map[d]
       /\ \A d \in DOMAIN map \cap DOMAIN inodes' : d \in DOMAIN map'
       /\ \A u \in Tasks : handle[u].dir \in DOMAIN map =>
            handle[u].dir \in DOMAIN map'
  BY <1>1 DEF Kept, Restrict
<1>3. /\ c \in Call /\ call' \in [Tasks -> Call] /\ call'[t] = c
      /\ \A u \in Tasks : u # t => call'[u] = call[u]
  BY CallForms DEF DeleteRemove, Return, Goto, Inductive, TypeOK, Result
<1>4. TypeOK'
  <2>1. DOMAIN inodes' \subseteq Ino /\ inodes' \in [DOMAIN inodes' -> Object]
    BY <1>1, RemoveType DEF Inductive, TypeOK
  <2>2. handle \in [Tasks -> [dir: DOMAIN map', flags: SUBSET OpenFlag]]
    <3>1. handle \in [Tasks -> [dir: DOMAIN map, flags: SUBSET OpenFlag]]
      BY DEF Inductive, TypeOK
    <3>2. \A u \in Tasks : handle[u].dir \in DOMAIN map'
      BY <1>10, <3>1
    <3> QED
      BY <3>1, <3>2
  <2> QED
    BY <1>1, <1>3, <1>10, <2>1, <2>2 DEF Inductive, TypeOK
<1>5. DirectoriesHaveMaps' /\ CounterAhead'
  BY <1>1, <1>2, <1>3, <1>10 DEF Inductive, DirectoriesHaveMaps, CounterAhead
<1>6. PendingUnlinked'
  BY <1>1, <1>2, <1>3, <1>10 DEF Inductive, PendingUnlinked, At, Dir
<1>7. RootNotDeleted' /\ OneAllocates'
  <2>1. RootNotDeleted'
    BY <1>3 DEF Inductive, RootNotDeleted, DeletePoint
  <2>2. OneAllocates'
    BY <1>1, <1>3, LockPassesOn DEF HoldCounter
  <2> QED
    BY <2>1, <2>2
<1>8. SingleLink' /\ ChildrenAreYounger'
  BY <1>10, FewerMaps
<1>9. RootIntact' /\ EntriesDescribe'
  BY <1>1, <1>2, <1>10 DEF Inductive, RootIntact, EntriesDescribe
<1> QED
  BY <1>4, <1>5, <1>6, <1>7, <1>8, <1>9 DEF Inductive

LEMMA RenameFindStep ==
  ASSUME Inductive, NEW t \in Tasks, NEW n \in Names, NEW m \in Names,
         RenameFind(t, n, m)
  PROVE  Inductive'
<1>1. CASE Return(t, "NotFound")
  BY <1>1, ReturnStep DEF RenameFind, Result
<1>2. CASE /\ n \in DOMAIN Entries(t)
           /\ Goto(t, [at |-> "rename_check", name |-> n,
                       inode |-> Entries(t)[n].inode, to |-> m])
  <2> DEFINE c == [at |-> "rename_check", name |-> n,
                   inode |-> Entries(t)[n].inode, to |-> m]
  <2>1. c.inode \in Ino /\ c.inode < counter
    BY <1>2, HandleFacts, EntryFacts
  <2>2. c \in Call
    BY <2>1, CallForms
  <2>3. /\ Goto(t, c) /\ c.at = "rename_check"
        /\ UNCHANGED <<inodes, counter, map, handle>>
    BY <1>2 DEF RenameFind
  <2> HIDE DEF c
  <2> QED
    BY <2>1, <2>2, <2>3, QuietStep DEF DeletePoint, HoldCounter
<1> QED
  BY <1>1, <1>2 DEF RenameFind

LEMMA RenameCheckStep ==
  ASSUME Inductive, NEW t \in Tasks, RenameCheck(t)
  PROVE  Inductive'
<1> DEFINE i == call[t].inode
           r == Checked(t, i, "RENAME")
           c == [call[t] EXCEPT !.at = "rename_move"]
<1>1. /\ At(t, "rename_check") /\ UNCHANGED <<inodes, counter, map, handle>>
      /\ i \in Ino /\ call[t].name \in Names /\ call[t].to \in Names
      /\ call[t] = [at |-> call[t].at, name |-> call[t].name, inode |-> i,
                    to |-> call[t].to]
      /\ "inode" \in DOMAIN call[t]
  BY CallLocals DEF RenameCheck, Inductive
<1>2. CASE r # "Ok" /\ Return(t, r)
  BY <1>1, <1>2, ReturnStep DEF Checked, Result
<1>3. CASE r = "Ok" /\ Goto(t, c)
  <2>1. c = [at |-> "rename_move", name |-> call[t].name, inode |-> i,
             to |-> call[t].to]
    BY <1>1
  <2>2. c \in Call /\ c.at = "rename_move" /\ c.inode = i
    BY <1>1, <2>1, CallForms
  <2>3. i < counter
    BY <1>1 DEF Inductive, CounterAhead
  <2> HIDE DEF c
  <2> QED
    BY <1>1, <1>3, <2>2, <2>3, QuietStep DEF DeletePoint, HoldCounter
<1> QED
  BY <1>2, <1>3 DEF RenameCheck

(* The entry that goes and the entry that comes lead to the same inode. *)
LEMMA RenameMoveStep ==
  ASSUME Inductive, NEW t \in Tasks, RenameMove(t)
  PROVE  Inductive'
<1> DEFINE d0 == Dir(t)
           n0 == call[t].name
           m0 == call[t].to
           e  == [map[d0][n0] EXCEPT !.name = m0]
           c  == [at |-> "idle", result |-> "Ok"]
<1>1. CASE /\ Return(t, "NotFound") \/ Return(t, "AlreadyExists")
           /\ UNCHANGED map
  BY <1>1, ReturnStep DEF RenameMove, Result
<1>2. CASE /\ n0 \in DOMAIN Entries(t) /\ m0 \notin DOMAIN Entries(t)
           /\ map' = [map EXCEPT ![d0] = Moved(@, n0, m0)]
           /\ Return(t, "Ok")
  <2>1. /\ UNCHANGED <<inodes, counter, handle>>
        /\ n0 \in Names /\ m0 \in Names
    BY CallLocals DEF RenameMove, Inductive
  <2>2. /\ d0 \in DOMAIN map /\ n0 \in DOMAIN map[d0]
        /\ m0 \notin DOMAIN map[d0]
    BY <1>2, HandleFacts
  <2>3. map[d0][n0] \in DirEntry
    BY <2>2, EntryFacts
  <2>4. /\ e \in DirEntry /\ e.inode = map[d0][n0].inode
        /\ e.kind = map[d0][n0].kind /\ e.name = m0
    BY <2>1, <2>3 DEF DirEntry
  <2>5. /\ DOMAIN map' = DOMAIN map
        /\ \A d \in DOMAIN map : d # d0 => map'[d] = map[d]
        /\ map'[d0] = Remove(Insert(map[d0], m0, e), n0)
    BY <1>2, <2>2 DEF Moved
  <2> HIDE DEF e
  <2>6. /\ DOMAIN map'[d0] = (DOMAIN map[d0] \ {n0}) \cup {m0}
        /\ map'[d0][m0] = e
        /\ \A n \in DOMAIN map[d0] : n # n0 => map'[d0][n] = map[d0][n]
        /\ map'[d0] = [n \in DOMAIN map'[d0] |-> map'[d0][n]]
    BY <2>2, <2>5 DEF Remove, Restrict, Insert
  <2>7. \A d \in DOMAIN map' : \A n \in DOMAIN map'[d] :
          \/ d = d0 /\ n = m0 /\ map'[d][n] = e
          \/ /\ d \in DOMAIN map /\ n \in DOMAIN map[d]
             /\ ~(d = d0 /\ n = n0)
             /\ map'[d][n] = map[d][n]
    BY <2>2, <2>5, <2>6
  <2>8. /\ c \in Call /\ call' \in [Tasks -> Call] /\ call'[t] = c
        /\ \A u \in Tasks : u # t => call'[u] = call[u]
    BY <1>2, CallForms DEF Return, Goto, Inductive, TypeOK, Result
  <2>9. TypeOK'
    <3>1. /\ DOMAIN map[d0] \subseteq Names
          /\ map[d0] \in [DOMAIN map[d0] -> DirEntry]
      BY <2>2 DEF Inductive, TypeOK
    <3>2. /\ DOMAIN map'[d0] \subseteq Names
          /\ map'[d0] \in [DOMAIN map'[d0] -> DirEntry]
      BY <2>1, <2>2, <2>4, <2>6, <3>1
    <3>3. \A d \in DOMAIN map' : /\ DOMAIN map'[d] \subseteq Names
                                /\ map'[d] \in [DOMAIN map'[d] -> DirEntry]
      BY <2>5, <3>2 DEF Inductive, TypeOK
    <3> QED
      BY <2>1, <2>5, <2>8, <3>3 DEF Inductive, TypeOK
  <2>10. DirectoriesHaveMaps'
    BY <2>1, <2>5 DEF Inductive, DirectoriesHaveMaps
  <2>11. CounterAhead'
    BY <2>1, <2>2, <2>4, <2>5, <2>7, <2>8 DEF Inductive, CounterAhead
  <2>12. PendingUnlinked'
    BY <2>1, <2>2, <2>4, <2>7, <2>8 DEF Inductive, PendingUnlinked, At, Dir
  <2>13. RootNotDeleted' /\ OneAllocates'
    <3>1. RootNotDeleted'
      BY <2>8 DEF Inductive, RootNotDeleted, DeletePoint
    <3>2. OneAllocates'
      BY <2>1, <2>8, LockPassesOn DEF HoldCounter
    <3> QED
      BY <3>1, <3>2
  <2>14. SingleLink'
    BY <2>2, <2>4, <2>7 DEF Inductive, SingleLink
  <2>15. ChildrenAreYounger'
    BY <2>2, <2>4, <2>7 DEF Inductive, ChildrenAreYounger
  <2>16. RootIntact'
    BY <2>1, <2>2, <2>4, <2>7 DEF Inductive, RootIntact
  <2>17. EntriesDescribe'
    BY <2>1, <2>2, <2>4, <2>7 DEF Inductive, EntriesDescribe
  <2> QED
    BY <2>9, <2>10, <2>11, <2>12, <2>13, <2>14, <2>15, <2>16, <2>17
       DEF Inductive
<1> QED
  BY <1>1, <1>2 DEF RenameMove

LEMMA LookupFindStep ==
  ASSUME Inductive, NEW t \in Tasks, NEW n \in Names, LookupFind(t, n)
  PROVE  Inductive'
<1>1. CASE Return(t, "NotFound")
  BY <1>1, ReturnStep DEF LookupFind, Result
<1>2. CASE /\ n \in DOMAIN Entries(t)
           /\ Goto(t, [at |-> "lookup_get", inode |-> Entries(t)[n].inode])
  <2> DEFINE c == [at |-> "lookup_get", inode |-> Entries(t)[n].inode]
  <2>1. c.inode \in Ino /\ c.inode < counter
    BY <1>2, HandleFacts, EntryFacts
  <2>2. c \in Call
    BY <2>1, CallForms
  <2>3. /\ Goto(t, c) /\ c.at = "lookup_get"
        /\ UNCHANGED <<inodes, counter, map, handle>>
    BY <1>2 DEF LookupFind
  <2> HIDE DEF c
  <2> QED
    BY <2>1, <2>2, <2>3, QuietStep DEF DeletePoint, HoldCounter
<1> QED
  BY <1>1, <1>2 DEF LookupFind

LEMMA LookupGetStep ==
  ASSUME Inductive, NEW t \in Tasks, LookupGet(t)
  PROVE  Inductive'
BY ReturnStep DEF LookupGet, Result

LEMMA StepInductive == Inductive /\ [Next]_vars => Inductive'
<1> SUFFICES ASSUME Inductive, [Next]_vars PROVE Inductive'
  OBVIOUS
<1>1. ASSUME NEW t \in Tasks, Begin(t) PROVE Inductive'
  BY <1>1, OpenStep, DeniedStep, CreateFindStep, DeleteFindStep,
     RenameFindStep, LookupFindStep
     DEF Begin
<1>2. ASSUME NEW t \in Tasks, Continue(t) PROVE Inductive'
  BY <1>2, AllocFailSteps, AllocRoomStep, AllocInodeStep, CreateInsertStep, DeleteCheckStep,
     DeleteUnlinkStep, DeleteInodeStep, DeleteRemoveStep, RenameCheckStep,
     RenameMoveStep, LookupGetStep
     DEF Continue
<1>3. CASE UNCHANGED vars
  BY <1>3
     DEF vars, Inductive, TypeOK, DirectoriesHaveMaps, CounterAhead,
         PendingUnlinked, OneAllocates, RootNotDeleted, SingleLink,
         ChildrenAreYounger, RootIntact, EntriesDescribe, At, Dir, Overflows,
         Full, Increment
<1>4. ASSUME NEW i, NEW grants \in ChmodGrants, Chmod(i, grants)
      PROVE  Inductive'
  BY <1>4, ChmodStep
<1> QED
  BY <1>1, <1>2, <1>3, <1>4 DEF Next

(* The steps that change the table or the counter. *)
LEMMA TableChanges ==
  ASSUME Next
  PROVE  \/ UNCHANGED <<inodes, counter>>
         \/ \E t \in Tasks : AllocInode(t) \/ DeleteRemove(t)
         \/ \E i, grants : Chmod(i, grants)
<1>1. CASE \E i \in DOMAIN inodes, grants \in ChmodGrants : Chmod(i, grants)
  BY <1>1
<1>2. ASSUME NEW t \in Tasks, Begin(t)
      PROVE  UNCHANGED <<inodes, counter>>
  BY <1>2 DEF Begin, Open, Denied, CreateFind, DeleteFind, RenameFind, LookupFind
<1>3. ASSUME NEW t \in Tasks, Continue(t)
      PROVE  UNCHANGED <<inodes, counter>> \/ AllocInode(t) \/ DeleteRemove(t)
  BY <1>3 DEF Continue, AllocPanic, AllocNoSpace, AllocRoom, CreateInsert,
       DeleteCheck, DeleteUnlink, DeleteInode, RenameCheck, RenameMove, LookupGet
<1>4. QED
  BY <1>1, <1>2, <1>3 DEF Next

-----------------------------------------------------------------------------
(* The invariant of every reachable state. *)
THEOREM Invariance == Spec => []Inductive
BY InitInductive, StepInductive, PTL DEF Spec

(* Type correctness: every local, entry and table of the code keeps the    *)
(* range it is declared with; the counter never leaves 1 .. MaxInodes.     *)
THEOREM TypeCorrect == Spec => []TypeOK
<1>1. Inductive => TypeOK
  BY DEF Inductive
<1> QED
  BY <1>1, Invariance, PTL

(* No inode ever has two names. *)
THEOREM LinksAreUnique == Spec => []SingleLink
<1>1. Inductive => SingleLink
  BY DEF Inductive
<1> QED
  BY <1>1, Invariance, PTL

(* The directories never form a cycle: numbers grow along every path. *)
THEOREM NoCycles == Spec => []ChildrenAreYounger
<1>1. Inductive => ChildrenAreYounger
  BY DEF Inductive
<1> QED
  BY <1>1, Invariance, PTL

(* The root directory is never deleted, by any interleaving of calls. *)
THEOREM RootStays == Spec => []RootIntact
<1>1. Inductive => RootIntact
  BY DEF Inductive
<1> QED
  BY <1>1, Invariance, PTL

(* What entries() tells of a live object is what the object is. *)
THEOREM EntriesAreTrue == Spec => []EntriesDescribe
<1>1. Inductive => EntriesDescribe
  BY DEF Inductive
<1> QED
  BY <1>1, Invariance, PTL

(* stats() never subtracts below zero: the live inodes are numbers below   *)
(* the limit.                                                              *)
THEOREM CapacityHolds == Spec => []WithinCapacity
<1>1. Inductive => WithinCapacity
  <2>1. IsFiniteSet(Ino) /\ Cardinality(Ino) = MaxInodes
    BY LimitsAssumption, FS_Interval DEF Ino
  <2> SUFFICES ASSUME Inductive PROVE WithinCapacity
    OBVIOUS
  <2>2. DOMAIN inodes \subseteq Ino
    BY DEF Inductive, TypeOK
  <2> QED
    BY <2>1, <2>2, FS_Subset DEF WithinCapacity
<1> QED
  BY <1>1, Invariance, PTL

(* A new inode has the number the counter moves past; the counter never    *)
(* moves back, and whatever keeps its number keeps its kind.               *)
LEMMA OnlyNewStep ==
  ASSUME Inductive, Next
  PROVE  OnlyNewNumbers
<1>0. counter \in Nat
  BY LimitsAssumption DEF Inductive, TypeOK
<1>1. CASE UNCHANGED <<inodes, counter>>
  BY <1>0, <1>1 DEF OnlyNewNumbers
<1>2. ASSUME NEW t \in Tasks, AllocInode(t) PROVE OnlyNewNumbers
  <2>1. inodes' = Insert(inodes, counter, call[t].object)
    BY <1>2 DEF AllocInode, NextNumber
  <2>2. counter \notin DOMAIN inodes
    BY <1>0 DEF Inductive, CounterAhead
  <2>3. counter' = counter + 1
    BY <1>0, <1>2, IncrementExact
       DEF AllocInode, Inductive, OneAllocates, HoldCounter, At
  <2> QED
    BY <1>0, <2>1, <2>2, <2>3 DEF OnlyNewNumbers, Insert
<1>3. ASSUME NEW t \in Tasks, DeleteRemove(t) PROVE OnlyNewNumbers
  BY <1>0, <1>3 DEF DeleteRemove, OnlyNewNumbers, Remove, Restrict
<1>4. ASSUME NEW i, NEW grants, Chmod(i, grants) PROVE OnlyNewNumbers
  <2>1. /\ DOMAIN inodes' = DOMAIN inodes /\ counter' = counter
        /\ \A j \in DOMAIN inodes : inodes'[j].kind = inodes[j].kind
    BY <1>4 DEF Chmod, Inductive, TypeOK, Object
  <2> QED
    BY <1>0, <2>1 DEF OnlyNewNumbers
<1> QED
  BY <1>1, <1>2, <1>3, <1>4, TableChanges

(* A number never comes to name a second inode, step by step ... *)
THEOREM NumbersAreFresh == Spec => NumbersNeverReused
<1>1. Inductive /\ [Next]_vars => [OnlyNewNumbers]_vars
  BY OnlyNewStep DEF vars
<1> QED
  BY <1>1, Invariance, PTL DEF Spec, NumbersNeverReused

(* ... and over whole behaviours: once an inode has left the table its     *)
(* number is in it no more, for ever.                                      *)
THEOREM GoneForGood ==
  ASSUME NEW i \in Ino
  PROVE  Spec => [](i \in DOMAIN inodes =>
                      [](i \notin DOMAIN inodes => [](i \notin DOMAIN inodes)))
<1>1. Inductive => (i \in DOMAIN inodes => i < counter)
  BY DEF Inductive, CounterAhead
<1>2. Inductive /\ [Next]_vars => (i < counter => (i < counter)')
  <2> SUFFICES ASSUME Inductive, Next, i < counter PROVE i < counter'
    BY DEF vars
  <2>1. Inductive' /\ counter <= counter'
    BY OnlyNewStep, StepInductive DEF OnlyNewNumbers
  <2> QED
    BY <2>1, LimitsAssumption DEF Inductive, TypeOK, Ino
<1>3. Inductive /\ [Next]_vars =>
        (i < counter /\ i \notin DOMAIN inodes => (i \notin DOMAIN inodes)')
  <2> SUFFICES ASSUME Inductive, Next, i < counter, i \notin DOMAIN inodes
               PROVE  i \notin DOMAIN inodes'
    BY DEF vars
  <2>1. Inductive' /\ (i \in DOMAIN inodes' => i \in counter .. (counter' - 1))
    BY OnlyNewStep, StepInductive DEF OnlyNewNumbers
  <2> QED
    BY <2>1, LimitsAssumption DEF Inductive, TypeOK, Ino
<1> QED
  BY <1>1, <1>2, <1>3, Invariance, PTL DEF Spec

(* Only the end of create_inode adds to what creates have in hand.          *)
LEMMA NoNewCreate ==
  ASSUME Inductive, NEW t \in Tasks, NEW c, Goto(t, c), c.at # "create_insert"
  PROVE  Creating' \subseteq Creating
<1>1. \A u \in Tasks : At(u, "create_insert")' =>
        At(u, "create_insert") /\ call'[u] = call[u]
  BY DEF Goto, At, Inductive, TypeOK
<1> QED
  BY <1>1 DEF Creating

(* The other steps at most drop maps, and leave creates with what they had. *)
LEMMA MapChanges ==
  ASSUME Inductive, Next
  PROVE  \/ /\ DOMAIN map' \subseteq DOMAIN map
            /\ \A d \in DOMAIN map' : map'[d] = map[d]
            /\ Creating' \subseteq Creating
         \/ \E t \in Tasks :
              AllocInode(t) \/ CreateInsert(t) \/ DeleteUnlink(t) \/ RenameMove(t)
<1> DEFINE Fewer == /\ DOMAIN map' \subseteq DOMAIN map
                    /\ \A d \in DOMAIN map' : map'[d] = map[d]
                    /\ Creating' \subseteq Creating
<1>1. CASE \E i, grants : Chmod(i, grants)
  BY <1>1 DEF Chmod, Creating, At
<1>2. ASSUME NEW t \in Tasks, NEW d, NEW flags, Open(t, d, flags)
      PROVE  Fewer
  BY <1>2 DEF Open, Kept, Restrict, Creating, At
<1>3. ASSUME NEW t \in Tasks,
             \/ Denied(t)
             \/ \E n \in Names :
                  \/ \E o \in NewObjects : CreateFind(t, n, o)
                  \/ DeleteFind(t, n)
                  \/ \E m \in Names : RenameFind(t, n, m)
                  \/ LookupFind(t, n)
      PROVE  Fewer
  BY <1>3, NoNewCreate
     DEF Denied, CreateFind, DeleteFind, RenameFind, LookupFind, Return
<1>4. ASSUME NEW t \in Tasks,
             \/ AllocPanic(t) \/ AllocNoSpace(t) \/ LookupGet(t)
             \/ DeleteRemove(t)
      PROVE  Fewer
  BY <1>4, NoNewCreate
     DEF AllocPanic, AllocNoSpace, LookupGet, DeleteRemove, Return, Kept, Restrict
<1>5. ASSUME NEW t \in Tasks,
             DeleteInode(t) \/ DeleteCheck(t) \/ RenameCheck(t) \/ AllocRoom(t)
      PROVE  Fewer
  <2>1. \A l : [call[t] EXCEPT !.at = l].at = l
    BY <1>5, CallLocals
       DEF DeleteInode, DeleteCheck, RenameCheck, AllocRoom, Inductive, At
  <2> QED
    BY <1>5, <2>1, NoNewCreate
       DEF DeleteInode, DeleteCheck, RenameCheck, AllocRoom, Return
<1> QED
  BY <1>1, <1>2, <1>3, <1>4, <1>5 DEF Next, Begin, Continue

(* A set that shows an inode to be cut off, or a larger one, shows it after *)
(* a step that adds no entry to it but for what is in it.                  *)
LEMMA ShownAgain ==
  ASSUME NEW i, NEW S, Root \in S, Closed(S),
         NEW T \in SUBSET (Ino \ {i}), S \subseteq T, Creating' \subseteq T,
         \A d \in T \cap DOMAIN map' : \A n \in DOMAIN map'[d] :
           \/ map'[d][n].inode \in T
           \/ /\ d \in S \cap DOMAIN map
              /\ \E m \in DOMAIN map[d] : map[d][m].inode = map'[d][n].inode
  PROVE  Stranded(i)'
<1>1. Closed(T)'
  BY DEF Closed
<1> QED
  BY <1>1 DEF Stranded

LEMMA StrandedStep ==
  ASSUME Inductive, Next, NEW i \in DOMAIN inodes, Stranded(i)
  PROVE  Stranded(i)'
<1>1. PICK S \in SUBSET (Ino \ {i}) :
        Root \in S /\ Creating \subseteq S /\ Closed(S)
  BY DEF Stranded
<1>2. CASE /\ DOMAIN map' \subseteq DOMAIN map
           /\ \A d \in DOMAIN map' : map'[d] = map[d]
           /\ Creating' \subseteq Creating
  <2>1. \A d \in S \cap DOMAIN map' : \A n \in DOMAIN map'[d] :
          map'[d][n].inode \in S
    BY <1>1, <1>2 DEF Closed
  <2> QED
    BY <1>1, <1>2, <2>1, ShownAgain
<1>3. ASSUME NEW t \in Tasks, AllocInode(t) PROVE Stranded(i)'
  <2> DEFINE T == S \cup {counter}
  <2>1. counter \in Ino /\ counter # i
    BY <1>3, IncrementExact, LimitsAssumption
       DEF AllocInode, OneAllocates, HoldCounter, At, Full, Inductive, TypeOK,
           CounterAhead, Ino
  <2>2. Creating' \subseteq T
    <3>1. \A u \in Tasks : At(u, "create_insert")' =>
            \/ At(u, "create_insert") /\ call'[u] = call[u]
            \/ call'[u].inode = counter
      BY <1>3 DEF AllocInode, NextNumber, Goto, At, Inductive, TypeOK
    <3> QED
      BY <1>1, <3>1 DEF Creating
  <2>3. \A d \in DOMAIN map' : \/ d \in DOMAIN map /\ map'[d] = map[d]
                               \/ DOMAIN map'[d] = {}
    BY <1>3 DEF AllocInode, NextNumber, Insert, EmptyMap
  <2>4. \A d \in T \cap DOMAIN map' : \A n \in DOMAIN map'[d] :
          /\ d \in S \cap DOMAIN map
          /\ \E m \in DOMAIN map[d] : map[d][m].inode = map'[d][n].inode
    <3>1. counter \notin DOMAIN map
      BY DEF Inductive, TypeOK, CounterAhead
    <3> QED
      BY <2>3, <3>1
  <2>5. T \in SUBSET (Ino \ {i}) /\ S \subseteq T
    BY <2>1
  <2> HIDE DEF T
  <2> QED
    BY <1>1, <2>2, <2>4, <2>5, ShownAgain
<1>4. ASSUME NEW t \in Tasks, CreateInsert(t) PROVE Stranded(i)'
  <2>1. Creating' \subseteq S
    BY <1>1, <1>4, NoNewCreate DEF CreateInsert, Return
  <2>2. call[t].inode \in S
    BY <1>1, <1>4 DEF CreateInsert, Creating
  <2>3. \A d \in DOMAIN map' : \A n \in DOMAIN map'[d] :
          \/ map'[d][n].inode = call[t].inode
          \/ /\ d \in DOMAIN map /\ n \in DOMAIN map[d]
             /\ map'[d][n] = map[d][n]
    BY <1>4 DEF CreateInsert, Insert
  <2> QED
    BY <1>1, <2>1, <2>2, <2>3, ShownAgain
<1>5. ASSUME NEW t \in Tasks, DeleteUnlink(t) PROVE Stranded(i)'
  <2>1. Creating' \subseteq S
    BY <1>1, <1>5, NoNewCreate DEF DeleteUnlink, Return
  <2>2. \A d \in DOMAIN map' : \A n \in DOMAIN map'[d] :
          d \in DOMAIN map /\ n \in DOMAIN map[d] /\ map'[d][n] = map[d][n]
    BY <1>5 DEF DeleteUnlink, Remove, Restrict
  <2> QED
    BY <1>1, <2>1, <2>2, ShownAgain
<1>6. ASSUME NEW t \in Tasks, RenameMove(t) PROVE Stranded(i)'
  <2>1. Creating' \subseteq S
    BY <1>1, <1>6, NoNewCreate DEF RenameMove, Return
  <2>2. \A d \in DOMAIN map' : \A n \in DOMAIN map'[d] :
          /\ d \in DOMAIN map
          /\ \E m \in DOMAIN map[d] : map[d][m].inode = map'[d][n].inode
    <3>1. CASE map' = map
      BY <3>1
    <3>2. CASE map' # map
      <4> DEFINE d0 == Dir(t)
                 a == call[t].name
                 b == call[t].to
                 e == [map[d0][a] EXCEPT !.name = b]
      <4>1. /\ d0 \in DOMAIN map /\ a \in DOMAIN map[d0]
            /\ map' = [map EXCEPT ![d0] = Remove(Insert(@, b, e), a)]
        BY <1>6, <3>2, HandleFacts DEF RenameMove, Moved
      <4>2. e.inode = map[d0][a].inode
        BY <4>1, EntryFacts DEF DirEntry
      <4> HIDE DEF e
      <4> QED
        BY <4>1, <4>2 DEF Remove, Restrict, Insert
    <3> QED
      BY <3>1, <3>2
  <2> QED
    BY <1>1, <2>1, <2>2, ShownAgain
<1> QED
  BY <1>2, <1>3, <1>4, <1>5, <1>6, MapChanges

(* What a delete has cut off from the root stays cut off, whatever calls    *)
(* are under way and whatever handles are still open on it.                *)
THEOREM CutOffForGood == Spec => StrandedForGood
<1>1. Inductive /\ [Next]_vars => [StrandedStays]_vars
  BY StrandedStep DEF StrandedStays, vars
<1> QED
  BY <1>1, Invariance, PTL DEF Spec, StrandedForGood

-----------------------------------------------------------------------------
(* Orderly callers: when no two of them change one directory at a time,    *)
(* what a call has read stays so, entries and inodes agree, and every call *)
(* is one step of DirectoryTree.                                           *)

(* The inodes coming and going after a step of one task. *)
LEMMA CreatingNext ==
  ASSUME NEW t \in Tasks, \A u \in Tasks : u # t => call'[u] = call[u]
  PROVE  /\ ~At(t, "create_insert") /\ ~At(t, "create_insert")' =>
              Creating' = Creating
         /\ ~At(t, "create_insert") /\ At(t, "create_insert")' =>
              Creating' = Creating \cup {call'[t].inode}
         /\ /\ At(t, "create_insert") /\ ~At(t, "create_insert")'
            /\ \A u \in Tasks :
                 At(u, "create_insert") /\ call[u].inode = call[t].inode =>
                   u = t
            => Creating' = Creating \ {call[t].inode}
BY DEF Creating, At

LEMMA DeletingNext ==
  ASSUME NEW t \in Tasks, \A u \in Tasks : u # t => call'[u] = call[u]
  PROVE  /\ ~Removing(t) /\ ~Removing(t)' => Deleting' = Deleting
         /\ ~Removing(t) /\ Removing(t)' =>
              Deleting' = Deleting \cup {call'[t].inode}
         /\ /\ Removing(t) /\ Removing(t)'
            /\ call'[t].inode = call[t].inode
            => Deleting' = Deleting
         /\ /\ Removing(t) /\ ~Removing(t)'
            /\ \A u \in Tasks :
                 Removing(u) /\ call[u].inode = call[t].inode => u = t
            => Deleting' = Deleting \ {call[t].inode}
BY DEF Deleting, Removing, At

LEMMA NoContestNext ==
  ASSUME NoContest, NEW t \in Tasks,
         \A u \in Tasks : u # t => call'[u] = call[u],
         \/ ~Removing(t)'
         \/ Removing(t) /\ call'[t].inode = call[t].inode
         \/ call'[t].inode \notin Deleting,
         Creating' \cap Deleting' = {}
  PROVE  NoContest'
BY DEF NoContest, Deleting, Removing, At

(* Points at which a call has an inode in hand that must be there still,   *)
(* and those at which it has tested a right on it.                         *)
HasRight(u) == At(u, "delete_unlink") \/ At(u, "rename_move")
Holding(u) == Removing(u) \/ At(u, "create_insert") \/ HasRight(u)

(* A step that leaves alone what the call of u has read leaves u with what *)
(* it knows.                                                               *)
LEMMA Bystander ==
  ASSUME OrderlyInductive, NEW u \in Tasks,
         call'[u] = call[u],
         Busy(u) => Entries(u)' = Entries(u),
         Holding(u) =>
           \A i \in DOMAIN inodes : i = call[u].inode =>
             /\ i \in DOMAIN inodes'
             /\ HasRight(u) => inodes'[i].grants = inodes[i].grants,
         At(u, "create_insert") =>
           LET i == call[u].inode
           IN  /\ i \in DOMAIN map' <=> i \in DOMAIN map
               /\ i \in DOMAIN map => map'[i] = map[i],
         Removing(u) =>
           \A d \in DOMAIN map' : \A n \in DOMAIN map'[d] :
             map'[d][n].inode # call[u].inode,
         HasRight(u) => call[u].inode \in DOMAIN inodes
  PROVE  Current(u, call[u])'
<1>1. Current(u, call[u])
  BY DEF OrderlyInductive
<1>2. ASSUME call[u].at \in {"create_inode", "create_store", "create_insert"}
      PROVE  call'[u].name \notin DOMAIN Entries(u)'
  BY <1>1, <1>2 DEF Current, Busy, Idle, At
<1>3. ASSUME call[u].at = "create_insert"
      PROVE  /\ call'[u].inode \in DOMAIN inodes'
             /\ call'[u].inode \in DOMAIN map' <=> call'[u].kind = "Directory"
             /\ call'[u].inode \in DOMAIN map' =>
                  map'[call'[u].inode] = EmptyMap
  BY <1>1, <1>3 DEF Current, Holding, At
<1>4. ASSUME call[u].at \in {"delete_check", "delete_unlink",
                            "rename_check", "rename_move"}
      PROVE  /\ call'[u].name \in DOMAIN Entries(u)'
             /\ Entries(u)'[call'[u].name].inode = call'[u].inode
  BY <1>1, <1>4 DEF Current, Busy, Idle, At
<1>5. /\ call[u].at = "delete_unlink" =>
           May(u, inodes'[call'[u].inode], "DELETE")
      /\ call[u].at = "rename_move" =>
           May(u, inodes'[call'[u].inode], "RENAME")
  BY <1>1 DEF Current, Holding, HasRight, At, May
<1>6. ASSUME call[u].at \in {"delete_inode", "delete_remove"}
      PROVE  /\ call'[u].inode \in DOMAIN inodes'
             /\ \A d \in DOMAIN map' : \A n \in DOMAIN map'[d] :
                  map'[d][n].inode # call'[u].inode
  BY <1>1, <1>6 DEF Current, Holding, Removing, At
<1>7. QED
  BY <1>2, <1>3, <1>4, <1>5, <1>6 DEF Current, May

(* The entry of a name about to be moved or taken away leads to an inode.  *)
LEMMA MoverHasInode ==
  ASSUME Inductive, OrderlyInductive, NEW u \in Tasks, HasRight(u)
  PROVE  call[u].inode \in DOMAIN inodes
<1>1. /\ call[u].name \in DOMAIN Entries(u)
      /\ Entries(u)[call[u].name].inode = call[u].inode
  BY DEF OrderlyInductive, Current, HasRight, At
<1>2. QED
  BY <1>1, HandleFacts DEF OrderlyInductive, NoDanglingEntry

(* What a task inside a call uses of the tables is not what another orderly *)
(* task changes.                                                           *)
LEMMA OtherDirectory ==
  ASSUME Inductive, Orderly, NEW t \in Tasks, NEW u \in Tasks, u # t,
         Busy(t), Busy(u)
  PROVE  Dir(u) # Dir(t)
BY DEF Orderly

LEMMA OrderlyInit == Init => OrderlyInductive /\ Tree!Init
<1> SUFFICES ASSUME Init PROVE OrderlyInductive /\ Tree!Init
  OBVIOUS
<1>1. /\ DOMAIN inodes = {Root} /\ DOMAIN map = {Root}
      /\ map[Root] = EmptyMap /\ DOMAIN EmptyMap = {}
      /\ \A t \in Tasks : call[t].at = "idle"
  BY DEF Init, EmptyMap, Insert
<1>2. Creating = {} /\ Deleting = {}
  BY <1>1 DEF Creating, Deleting, Removing, At
<1>3. OrderlyInductive
  BY <1>1, <1>2 DEF OrderlyInductive, Current, NoContest, NoDanglingEntry,
                    Removing, At
<1>4. Objects = Tree!Insert(Tree!EmptyMap, Root,
                            [kind |-> "Directory", grants |-> {}])
  BY <1>2
     DEF Init, Objects, Restrict, Insert, EmptyMap, Tree!Insert, Tree!EmptyMap
<1>5. Links = Tree!Insert(Tree!EmptyMap, Root, Tree!EmptyMap)
  BY <1>1, <1>2 DEF Links, EmptyMap, Tree!Insert, Tree!EmptyMap
<1>6. Used = {Root}
  BY <1>2 DEF Init, Used, Root
<1>7. QED
  BY <1>3, <1>4, <1>5, <1>6 DEF Tree!Init

(* A step that changes nothing but the point a call has come to. *)
LEMMA OrderlyQuiet ==
  ASSUME Inductive, OrderlyInductive, NEW t \in Tasks, NEW c,
         Goto(t, c), UNCHANGED <<inodes, counter, map, handle>>,
         Current(t, c),
         call[t].at # "create_insert", c.at # "create_insert",
         \/ /\ call[t].at \notin {"delete_inode", "delete_remove"}
            /\ c.at \notin {"delete_inode", "delete_remove"}
         \/ /\ call[t].at = "delete_inode" /\ c.at = "delete_remove"
            /\ c.inode = call[t].inode
  PROVE  OrderlyInductive' /\ UNCHANGED Tree!tvars
<1>1. call'[t] = c /\ \A u \in Tasks : u # t => call'[u] = call[u]
  BY DEF Goto, Inductive, TypeOK
<1>2. Creating' = Creating /\ Deleting' = Deleting
  BY <1>1, CreatingNext, DeletingNext DEF At, Removing
<1>3. ASSUME NEW u \in Tasks PROVE Current(u, call[u])'
  <2>1. Current(u, call'[u])
    BY <1>1 DEF OrderlyInductive
  <2>2. QED
    BY <2>1 DEF Current, Entries, Dir, May
<1>4. NoContest'
  <2>1. \/ ~Removing(t)'
        \/ Removing(t) /\ call'[t].inode = call[t].inode
    BY <1>1 DEF Removing, At
  <2>2. QED
    BY <1>1, <1>2, <2>1, NoContestNext DEF OrderlyInductive, NoContest
<1>5. NoDanglingEntry'
  BY <1>2 DEF OrderlyInductive, NoDanglingEntry
<1>6. UNCHANGED <<Objects, Links, Used>>
  BY <1>2 DEF Objects, Links, Used
<1>7. QED
  BY <1>3, <1>4, <1>5, <1>6 DEF OrderlyInductive, Tree!tvars

(* The quiet steps that leave a call with nothing it must remember. *)
LEMMA OrderlyForgets ==
  ASSUME Inductive, OrderlyInductive, NEW t \in Tasks, NEW c,
         Goto(t, c), UNCHANGED <<inodes, counter, map, handle>>,
         c.at \in {"idle", "lookup_get", "panicked"},
         call[t].at \notin {"create_insert", "delete_inode", "delete_remove"}
  PROVE  OrderlyInductive' /\ UNCHANGED Tree!tvars
<1>1. Current(t, c)
  BY DEF Current
<1>2. QED
  BY <1>1, OrderlyQuiet

LEMMA OrderlyReturns ==
  ASSUME Inductive, OrderlyInductive, NEW t \in Tasks, NEW r,
         Return(t, r), UNCHANGED <<inodes, counter, map, handle>>,
         call[t].at \notin {"create_insert", "delete_inode", "delete_remove"}
  PROVE  OrderlyInductive' /\ UNCHANGED Tree!tvars
<1> DEFINE c == [at |-> "idle", result |-> r]
<1>1. Goto(t, c) /\ c.at = "idle"
  BY DEF Return
<1> HIDE DEF c
<1>2. QED
  BY <1>1, OrderlyForgets

(* Maps that go are those of directories that no longer are objects.       *)
LEMMA MapsForgotten ==
  ASSUME DOMAIN map' \subseteq DOMAIN map,
         \A d \in DOMAIN map' : map'[d] = map[d],
         (DOMAIN map \ DOMAIN map') \cap DOMAIN Objects = {},
         UNCHANGED <<Objects, Creating, Used>>
  PROVE  Tree!Next
<1> DEFINE gone == DOMAIN map \ DOMAIN map'
<1>1. Links' = Tree!Restrict(Links, DOMAIN Links \ gone)
  BY DEF Links, Tree!Restrict
<1>2. Tree!Forget(DOMAIN Links \cap gone)
  <2>1. DOMAIN Links \ gone = DOMAIN Links \ (DOMAIN Links \cap gone)
    OBVIOUS
  <2>2. QED
    BY <1>1, <2>1 DEF Tree!Forget
<1>3. DOMAIN Links \cap gone \in SUBSET DOMAIN Links
  OBVIOUS
<1>4. QED
  BY <1>2, <1>3 DEF Tree!Next

LEMMA OrderlyOpen ==
  ASSUME Inductive, OrderlyInductive, NEW t \in Tasks,
         NEW d, NEW flags, Open(t, d, flags)
  PROVE  OrderlyInductive' /\ Tree!Next
<1>1. /\ UNCHANGED <<inodes, counter, call>> /\ call[t].at = "idle"
      /\ \A u \in Tasks : u # t => handle'[u] = handle[u]
  BY DEF Open, Idle, Inductive, TypeOK
<1>2. UNCHANGED <<Creating, Deleting, NoContest>>
  BY <1>1 DEF Creating, Deleting, NoContest, Removing, At
<1>3. /\ DOMAIN map' \subseteq DOMAIN map
      /\ \A e \in DOMAIN map' : map'[e] = map[e]
      /\ \A e \in DOMAIN inodes : e \in DOMAIN map' <=> e \in DOMAIN map
      /\ \A u \in Tasks : u # t => Dir(u) \in DOMAIN map'
  BY <1>1, HandleFacts DEF Open, Kept, Restrict, Dir
<1>4. ASSUME NEW u \in Tasks PROVE Current(u, call[u])'
  <2>1. CASE u = t
    BY <1>1, <2>1 DEF Current
  <2>2. CASE u # t
    <3>1. Entries(u)' = Entries(u)
      BY <1>1, <1>3, <2>2 DEF Entries, Dir
    <3>2. At(u, "create_insert") => call[u].inode \in DOMAIN inodes
      BY DEF OrderlyInductive, Current, At
    <3>3. Removing(u) => \A e \in DOMAIN map : \A n \in DOMAIN map[e] :
                           map[e][n].inode # call[u].inode
      BY DEF OrderlyInductive, Current, Removing, At
    <3>4. QED
      BY <1>1, <1>3, <3>1, <3>2, <3>3, Bystander, MoverHasInode
  <2>3. QED
    BY <2>1, <2>2
<1>5. NoDanglingEntry'
  BY <1>1, <1>3 DEF OrderlyInductive, NoDanglingEntry
<1>6. Tree!Next
  <2>1. UNCHANGED <<Objects, Used>>
    BY <1>1, <1>2 DEF Objects, Used
  <2>2. (DOMAIN map \ DOMAIN map') \cap DOMAIN Objects = {}
    BY <1>3 DEF Objects, Restrict
  <2>3. QED
    BY <1>2, <1>3, <2>1, <2>2, MapsForgotten
<1>7. QED
  BY <1>2, <1>4, <1>5, <1>6 DEF OrderlyInductive

(* A chmod, but of an object a call has just tested its right on.          *)
LEMMA OrderlyChmod ==
  ASSUME Inductive, OrderlyInductive, NoChmodBetween,
         NEW i, NEW grants \in ChmodGrants, Chmod(i, grants)
  PROVE  OrderlyInductive' /\ [Tree!Next]_(Tree!tvars)
<1>1. /\ UNCHANGED <<counter, map, handle, call>>
      /\ i \in DOMAIN inodes
      /\ inodes' = [inodes EXCEPT ![i].grants = grants]
      /\ DOMAIN inodes' = DOMAIN inodes
  BY DEF Chmod
<1>2. UNCHANGED <<Creating, Deleting, NoContest>>
  BY <1>1 DEF Creating, Deleting, NoContest, Removing, At
<1>3. ASSUME NEW u \in Tasks PROVE Current(u, call[u])'
  <2>1. Entries(u)' = Entries(u)
    BY <1>1 DEF Entries, Dir
  <2>2. ASSUME HasRight(u), NEW j \in DOMAIN inodes, j = call[u].inode
        PROVE  inodes'[j].grants = inodes[j].grants
    <3>1. call[u].at \in {"delete_unlink", "rename_move"}
      BY <2>2 DEF HasRight, At
    <3>2. j \in {call[u].inode} \cap DOMAIN inodes \cap DOMAIN inodes'
      BY <1>1, <2>2
    <3>3. QED
      BY <3>1, <3>2 DEF NoChmodBetween
  <2>3. Removing(u) => \A d \in DOMAIN map : \A n \in DOMAIN map[d] :
                         map[d][n].inode # call[u].inode
    BY DEF OrderlyInductive, Current, Removing, At
  <2>4. QED
    BY <1>1, <2>1, <2>2, <2>3, Bystander, MoverHasInode
<1>4. NoDanglingEntry'
  BY <1>1 DEF OrderlyInductive, NoDanglingEntry
<1>5. UNCHANGED <<Links, Used>>
  BY <1>1, <1>2 DEF Links, Used
<1>6. CASE i \in Creating \cup Deleting
  <2>1. Objects' = Objects
    BY <1>1, <1>2, <1>6 DEF Objects, Restrict
  <2>2. QED
    BY <1>2, <1>3, <1>4, <1>5, <2>1 DEF OrderlyInductive, Tree!tvars
<1>7. CASE i \notin Creating \cup Deleting
  <2>1. i \in DOMAIN Objects
    BY <1>1, <1>7 DEF Objects, Restrict
  <2>2. Objects' = [Objects EXCEPT ![i].grants = grants]
    BY <1>1, <1>2, <1>7 DEF Objects, Restrict
  <2>3. grants \in SUBSET Right
    BY CallersAssumption
  <2>4. Tree!Next
    BY <1>5, <2>1, <2>2, <2>3 DEF Tree!Next, Tree!Chmod
  <2>5. QED
    BY <1>2, <1>3, <1>4, <2>4 DEF OrderlyInductive
<1>8. QED
  BY <1>6, <1>7

(* The first steps of the calls. *)
LEMMA OrderlyFinds ==
  ASSUME Inductive, OrderlyInductive, NEW t \in Tasks,
         NEW n \in Names,
         \/ \E o \in NewObjects : CreateFind(t, n, o)
         \/ DeleteFind(t, n)
         \/ \E m \in Names : RenameFind(t, n, m)
         \/ LookupFind(t, n)
  PROVE  OrderlyInductive' /\ UNCHANGED Tree!tvars
<1>1. /\ call[t].at = "idle"
      /\ UNCHANGED <<inodes, counter, map, handle>>
  BY DEF CreateFind, DeleteFind, RenameFind, LookupFind, CanRead, CanWrite, Idle
<1>2. CASE \E r : Return(t, r)
  BY <1>1, <1>2, OrderlyReturns
<1>3. CASE \E o \in NewObjects :
             /\ n \notin DOMAIN Entries(t)
             /\ Goto(t, [at |-> "create_inode", name |-> n, object |-> o])
  <2>1. PICK o \in NewObjects :
             /\ n \notin DOMAIN Entries(t)
             /\ Goto(t, [at |-> "create_inode", name |-> n, object |-> o])
    BY <1>3
  <2> DEFINE c == [at |-> "create_inode", name |-> n, object |-> o]
  <2>2. Current(t, c) /\ c.at = "create_inode" /\ Goto(t, c)
    BY <2>1 DEF Current
  <2> HIDE DEF c
  <2>3. QED
    BY <1>1, <2>2, OrderlyQuiet
<1>4. CASE /\ n \in DOMAIN Entries(t)
           /\ Goto(t, [at |-> "delete_check", name |-> n,
                       inode |-> Entries(t)[n].inode])
  <2> DEFINE c == [at |-> "delete_check", name |-> n,
                   inode |-> Entries(t)[n].inode]
  <2>1. Current(t, c) /\ c.at = "delete_check" /\ Goto(t, c)
    BY <1>4 DEF Current
  <2> HIDE DEF c
  <2>2. QED
    BY <1>1, <2>1, OrderlyQuiet
<1>5. CASE \E m \in Names :
             /\ n \in DOMAIN Entries(t)
             /\ Goto(t, [at |-> "rename_check", name |-> n,
                         inode |-> Entries(t)[n].inode, to |-> m])
  <2>1. PICK m \in Names :
             /\ n \in DOMAIN Entries(t)
             /\ Goto(t, [at |-> "rename_check", name |-> n,
                         inode |-> Entries(t)[n].inode, to |-> m])
    BY <1>5
  <2> DEFINE c == [at |-> "rename_check", name |-> n,
                   inode |-> Entries(t)[n].inode, to |-> m]
  <2>2. Current(t, c) /\ c.at = "rename_check" /\ Goto(t, c)
    BY <2>1 DEF Current
  <2> HIDE DEF c
  <2>3. QED
    BY <1>1, <2>2, OrderlyQuiet
<1>6. CASE Goto(t, [at |-> "lookup_get", inode |-> Entries(t)[n].inode])
  <2> DEFINE c == [at |-> "lookup_get", inode |-> Entries(t)[n].inode]
  <2>1. c.at = "lookup_get" /\ Goto(t, c)
    BY <1>6
  <2> HIDE DEF c
  <2>2. QED
    BY <1>1, <2>1, OrderlyForgets
<1>7. QED
  BY <1>2, <1>3, <1>4, <1>5, <1>6
     DEF CreateFind, DeleteFind, RenameFind, LookupFind

(* The checks in the middle of delete and rename: the inode is there. *)
LEMMA OrderlyChecks ==
  ASSUME Inductive, OrderlyInductive, NEW t \in Tasks,
         DeleteCheck(t) \/ RenameCheck(t)
  PROVE  OrderlyInductive' /\ UNCHANGED Tree!tvars
<1>1. UNCHANGED <<inodes, counter, map, handle>>
  BY DEF DeleteCheck, RenameCheck
<1>2. CASE \E r : Return(t, r)
  <2>1. call[t].at \in {"delete_check", "rename_check"}
    BY DEF DeleteCheck, RenameCheck, At
  <2>2. QED
    BY <1>1, <1>2, <2>1, OrderlyReturns
<1>3. CASE /\ At(t, "delete_check")
           /\ Checked(t, call[t].inode, "DELETE") = "Ok"
           /\ Goto(t, [call[t] EXCEPT !.at = "delete_unlink"])
  <2> DEFINE c == [call[t] EXCEPT !.at = "delete_unlink"]
  <2>1. c = [at |-> "delete_unlink", name |-> call[t].name,
             inode |-> call[t].inode]
    <3>1. call[t] = [at |-> call[t].at, name |-> call[t].name,
                     inode |-> call[t].inode]
      BY <1>3, CallLocals DEF Inductive
    <3>2. QED
      BY <3>1
  <2>2. Current(t, call[t]) /\ call[t].at = "delete_check"
    BY <1>3 DEF OrderlyInductive, At
  <2>3. Current(t, c) /\ c.at = "delete_unlink"
    <3>1. May(t, inodes[call[t].inode], "DELETE")
      BY <1>3 DEF Checked
    <3>2. QED
      BY <2>1, <2>2, <3>1 DEF Current
  <2> HIDE DEF c
  <2>4. QED
    BY <1>1, <1>3, <2>2, <2>3, OrderlyQuiet DEF c
<1>4. CASE /\ At(t, "rename_check")
           /\ Checked(t, call[t].inode, "RENAME") = "Ok"
           /\ Goto(t, [call[t] EXCEPT !.at = "rename_move"])
  <2> DEFINE c == [call[t] EXCEPT !.at = "rename_move"]
  <2>1. c = [at |-> "rename_move", name |-> call[t].name,
             inode |-> call[t].inode, to |-> call[t].to]
    <3>1. call[t] = [at |-> call[t].at, name |-> call[t].name,
                     inode |-> call[t].inode, to |-> call[t].to]
      BY <1>4, CallLocals DEF Inductive
    <3>2. QED
      BY <3>1
  <2>2. Current(t, call[t]) /\ call[t].at = "rename_check"
    BY <1>4 DEF OrderlyInductive, At
  <2>3. May(t, inodes[call[t].inode], "RENAME")
    BY <1>4 DEF Checked
  <2>4. Current(t, c) /\ c.at = "rename_move"
    BY <2>1, <2>2, <2>3 DEF Current
  <2> HIDE DEF c
  <2>5. QED
    BY <1>1, <1>4, <2>2, <2>4, OrderlyQuiet DEF c
<1>5. QED
  BY <1>2, <1>3, <1>4 DEF DeleteCheck, RenameCheck

(* The steps of create. *)
LEMMA OrderlyAllocFails ==
  ASSUME Inductive, OrderlyInductive, NEW t \in Tasks,
         AllocPanic(t) \/ AllocNoSpace(t)
  PROVE  OrderlyInductive' /\ UNCHANGED Tree!tvars
<1>1. call[t].at = "create_inode" /\ UNCHANGED <<inodes, counter, map, handle>>
  BY DEF AllocPanic, AllocNoSpace, At
<1>2. CASE AllocPanic(t)
  BY <1>1, <1>2, OrderlyForgets DEF AllocPanic
<1>3. CASE AllocNoSpace(t)
  BY <1>1, <1>3, OrderlyReturns DEF AllocNoSpace
<1>4. QED
  BY <1>2, <1>3

LEMMA OrderlyAllocRoom ==
  ASSUME Inductive, OrderlyInductive, NEW t \in Tasks, AllocRoom(t)
  PROVE  OrderlyInductive' /\ UNCHANGED Tree!tvars
<1> DEFINE c == [call[t] EXCEPT !.at = "create_store"]
<1>1. /\ call[t].at = "create_inode" /\ Current(t, call[t])
      /\ UNCHANGED <<inodes, counter, map, handle>>
      /\ Goto(t, c)
  BY DEF AllocRoom, At, OrderlyInductive
<1>2. c = [at |-> "create_store", name |-> call[t].name,
           object |-> call[t].object]
  <2>1. call[t] = [at |-> call[t].at, name |-> call[t].name,
                   object |-> call[t].object]
    BY <1>1, CallLocals DEF Inductive, At
  <2>2. QED
    BY <2>1
<1>3. Current(t, c) /\ c.at = "create_store"
  BY <1>1, <1>2 DEF Current
<1> HIDE DEF c
<1>4. QED
  BY <1>1, <1>3, OrderlyQuiet

(* The new inode is not yet in the namespace, and its number not yet used. *)
LEMMA OrderlyAlloc ==
  ASSUME Inductive, Orderly, OrderlyInductive, NEW t \in Tasks, AllocInode(t)
  PROVE  OrderlyInductive' /\ UNCHANGED Tree!tvars
<1>1. PICK o : o = call[t].object
  OBVIOUS
<1>2. /\ counter \in Nat \ {0} /\ counter' = counter + 1
      /\ counter \notin DOMAIN inodes /\ counter \notin DOMAIN map
  BY IncrementExact, LimitsAssumption
     DEF AllocInode, OneAllocates, HoldCounter, At, Inductive, TypeOK,
         CounterAhead
<1>3. /\ inodes' = Insert(inodes, counter, o)
      /\ map' = IF o.kind = "Directory" THEN Insert(map, counter, EmptyMap)
                                        ELSE map
      /\ handle' = handle
      /\ call[t].at = "create_store"
      /\ Goto(t, [at |-> "create_insert", name |-> call[t].name,
                  inode |-> counter, kind |-> o.kind])
  BY <1>1 DEF AllocInode, NextNumber, At
<1>4. /\ call'[t] = [at |-> "create_insert", name |-> call[t].name,
                     inode |-> counter, kind |-> o.kind]
      /\ \A u \in Tasks : u # t => call'[u] = call[u]
  BY <1>3 DEF Goto, Inductive, TypeOK
<1>5. Creating' = Creating \cup {counter} /\ Deleting' = Deleting
  BY <1>3, <1>4, CreatingNext, DeletingNext DEF At, Removing
<1>6. counter \notin Creating /\ counter \notin Deleting
  <2>1. ASSUME NEW u \in Tasks, At(u, "create_insert") \/ Removing(u)
        PROVE  call[u].inode # counter
    <3>1. call[u].inode \in Ino /\ call[u].inode < counter
      BY <2>1, CallLocals DEF Inductive, CounterAhead, Removing
    <3>2. QED
      BY <1>2, <3>1 DEF Ino
  <2>2. QED
    BY <2>1 DEF Creating, Deleting
<1>7. /\ DOMAIN inodes' = DOMAIN inodes \cup {counter}
      /\ \A i \in DOMAIN inodes : inodes'[i] = inodes[i]
  BY <1>2, <1>3 DEF Insert
<1>8. /\ DOMAIN map \subseteq DOMAIN map'
      /\ DOMAIN map' \ {counter} = DOMAIN map
      /\ \A d \in DOMAIN map : map'[d] = map[d]
      /\ counter \in DOMAIN map' <=> o.kind = "Directory"
      /\ counter \in DOMAIN map' => map'[counter] = EmptyMap
      /\ DOMAIN EmptyMap = {}
  BY <1>2, <1>3 DEF Insert, EmptyMap
<1>9. Dir(t) \in DOMAIN map /\ Entries(t)' = map[Dir(t)]
  BY <1>3, <1>8, HandleFacts DEF Entries, Dir
<1>10. NoContest'
  <2>1. ~Removing(t)' /\ Creating' \cap Deleting' = {}
    BY <1>4, <1>5, <1>6 DEF Removing, At, OrderlyInductive, NoContest
  <2>2. QED
    BY <1>4, <2>1, NoContestNext DEF OrderlyInductive
<1>11. ASSUME NEW u \in Tasks, u # t PROVE Current(u, call[u])'
  <2>1. Entries(u)' = Entries(u)
    BY <1>3, <1>8, HandleFacts DEF Entries, Dir
  <2>2. At(u, "create_insert") => call[u].inode # counter
    BY <1>6, <1>11 DEF Creating
  <2>3. Removing(u) => \A d \in DOMAIN map' : \A n \in DOMAIN map'[d] :
                         map'[d][n].inode # call[u].inode
    BY <1>8 DEF OrderlyInductive, Current, Removing, At
  <2>4. QED
    BY <1>4, <1>7, <1>8, <1>11, <2>1, <2>2, <2>3, Bystander, MoverHasInode
<1>12. Current(t, call[t])'
  <2>1. call[t].name \notin DOMAIN Entries(t)
    BY <1>3 DEF OrderlyInductive, Current
  <2>2. QED
    BY <1>4, <1>7, <1>8, <1>9, <2>1, HandleFacts DEF Current
<1>13. NoDanglingEntry'
  BY <1>7, <1>8 DEF OrderlyInductive, NoDanglingEntry
<1>15. Objects' = Objects
  BY <1>2, <1>5, <1>7, <1>6 DEF Objects, Restrict
<1>16. Links' = Links
  <2>1. DOMAIN map' \ Creating' = DOMAIN map \ Creating
    BY <1>2, <1>5, <1>8
  <2>2. QED
    BY <1>8, <2>1 DEF Links
<1>17. Used' = Used
  BY <1>2, <1>5, <1>6 DEF Used
<1>18. QED
  BY <1>12, <1>13, <1>15, <1>16, <1>17, <1>10, <1>11
     DEF OrderlyInductive, Tree!tvars

(* The object comes with its name, under a number never used before. *)
LEMMA OrderlyInsert ==
  ASSUME Inductive, Orderly, OrderlyInductive, NEW t \in Tasks, CreateInsert(t)
  PROVE  OrderlyInductive' /\ Tree!Next
<1>1. PICK c : c = call[t]
  OBVIOUS
<1>2. PICK d0 : d0 = Dir(t)
  OBVIOUS
<1>3. PICK e : e = [name |-> c.name, inode |-> c.inode, kind |-> c.kind]
  OBVIOUS
<1>4. /\ c.at = "create_insert"
      /\ c.name \in Names /\ c.inode \in Ino
      /\ c.inode < counter
      /\ e.inode = c.inode
  BY <1>1, <1>3, CallLocals DEF CreateInsert, At, Inductive, CounterAhead
<1>5. /\ d0 \in DOMAIN map /\ d0 < c.inode
      /\ UNCHANGED <<inodes, counter, handle>>
      /\ map' = [map EXCEPT ![d0] = Insert(@, c.name, e)]
      /\ \A d \in DOMAIN map : \A n \in DOMAIN map[d] :
           map[d][n].inode # c.inode
  BY <1>1, <1>2, <1>3, <1>4, HandleFacts
     DEF CreateInsert, Inductive, PendingUnlinked, At
<1>6. /\ c.name \notin DOMAIN map[d0]
      /\ c.inode \in DOMAIN inodes
      /\ c.inode \in DOMAIN map <=> c.kind = "Directory"
      /\ c.inode \in DOMAIN map => map[c.inode] = EmptyMap
      /\ inodes[c.inode].kind = c.kind
  <2>1. Current(t, c)
    BY <1>1 DEF OrderlyInductive
  <2>2. inodes[c.inode].kind = c.kind
    BY <1>1, <1>4, <2>1 DEF Inductive, PendingUnlinked, At, Current
  <2>3. QED
    BY <1>2, <1>4, <2>1, <2>2, HandleFacts DEF Current
<1>7. /\ call'[t].at = "idle"
      /\ \A u \in Tasks : u # t => call'[u] = call[u]
      /\ c.inode \in Creating /\ c.inode \notin Deleting
      /\ Creating' = Creating \ {c.inode} /\ Deleting' = Deleting
      /\ d0 \notin Creating
  <2>1. /\ call'[t].at = "idle"
        /\ \A u \in Tasks : u # t => call'[u] = call[u]
    BY DEF CreateInsert, Return, Goto, Inductive, TypeOK
  <2>2. c.inode \in Creating /\ c.inode \notin Deleting
    BY <1>1, <1>4 DEF Creating, At, OrderlyInductive, NoContest
  <2>3. \A u \in Tasks :
          At(u, "create_insert") /\ call[u].inode = c.inode => u = t
    BY <1>1, <1>4 DEF Inductive, PendingUnlinked, At
  <2>4. Creating' = Creating \ {c.inode}
    BY <1>1, <1>4, <2>1, <2>3, CreatingNext DEF At
  <2>5. Deleting' = Deleting
    BY <1>1, <1>4, <2>1, DeletingNext DEF At, Removing
  <2>6. QED
    BY <1>2, <2>1, <2>2, <2>4, <2>5 DEF Orderly
<1>8. /\ DOMAIN map' = DOMAIN map
      /\ \A d \in DOMAIN map : d # d0 => map'[d] = map[d]
      /\ map'[d0] = Insert(map[d0], c.name, e)
  BY <1>5
<1>9. /\ DOMAIN map'[d0] = DOMAIN map[d0] \cup {c.name}
      /\ map'[d0][c.name] = e
      /\ \A n \in DOMAIN map[d0] : map'[d0][n] = map[d0][n]
  BY <1>6, <1>8 DEF Insert
<1>10. OrderlyInductive'
  <2>1. ASSUME NEW u \in Tasks PROVE Current(u, call[u])'
    <3>1. CASE u = t
      BY <1>7, <3>1 DEF Current
    <3>2. CASE u # t
      <4>1. Busy(u) => Entries(u)' = Entries(u)
        <5>1. Busy(t)
          BY <1>1, <1>4 DEF Busy, Idle, At
        <5>2. Busy(u) => Dir(u) # d0
          BY <1>2, <3>2, <5>1, OtherDirectory
        <5>3. Dir(u) \in DOMAIN map
          BY HandleFacts
        <5>4. QED
          BY <1>5, <1>8, <5>2, <5>3 DEF Entries, Dir
      <4>2. At(u, "create_insert") => call[u].inode # d0
        BY <1>7 DEF Creating
      <4>3. ASSUME Removing(u), NEW d \in DOMAIN map', NEW n \in DOMAIN map'[d]
            PROVE  map'[d][n].inode # call[u].inode
        <5>1. call[u].inode # c.inode
          BY <1>7, <4>3 DEF Deleting
        <5>2. \A b \in DOMAIN map : \A m \in DOMAIN map[b] :
                map[b][m].inode # call[u].inode
          BY <4>3 DEF OrderlyInductive, Current, Removing, At
        <5>3. QED
          BY <1>4, <1>8, <1>9, <5>1, <5>2
      <4>4. QED
        BY <1>5, <1>7, <1>8, <3>2, <4>1, <4>2, <4>3, Bystander, MoverHasInode
    <3>3. QED
      BY <3>1, <3>2
  <2>2. NoContest'
    <3>1. ~Removing(t)' /\ Creating' \cap Deleting' = {}
      BY <1>7 DEF Removing, At, OrderlyInductive, NoContest
    <3>2. QED
      BY <1>7, <3>1, NoContestNext DEF OrderlyInductive
  <2>3. NoDanglingEntry'
    BY <1>4, <1>5, <1>6, <1>8, <1>9 DEF OrderlyInductive, NoDanglingEntry
  <2>4. QED
    BY <2>1, <2>2, <2>3 DEF OrderlyInductive
<1>11. PICK o : o = inodes[c.inode]
  OBVIOUS
<1>12. o \in Tree!Things
  BY <1>6, <1>11 DEF Inductive, TypeOK, Object, Tree!Things
<1>13. Objects' = Tree!Insert(Objects, c.inode, o)
  BY <1>5, <1>6, <1>7, <1>11 DEF Objects, Restrict, Tree!Insert
<1>14. /\ d0 \in DOMAIN Links
       /\ c.name \notin DOMAIN Links[d0]
       /\ c.inode \notin Used
       /\ Used' = Used \cup {c.inode}
  <2>1. d0 # c.inode
    BY <1>4, <1>5 DEF Inductive, TypeOK, Ino
  <2>2. d0 \in DOMAIN Links /\ c.name \notin DOMAIN Links[d0]
    BY <1>5, <1>6, <1>7, <2>1 DEF Links
  <2>3. c.inode \notin Used /\ Used' = Used \cup {c.inode}
    BY <1>4, <1>5, <1>7 DEF Used, Ino, Inductive, TypeOK
  <2>4. QED
    BY <2>2, <2>3
<1>15. PICK linked :
         linked = [Links EXCEPT ![d0] = Tree!Insert(@, c.name, c.inode)]
  OBVIOUS
<1>16. Links' = IF o.kind = "Directory"
                THEN Tree!Insert(linked, c.inode, Tree!EmptyMap) ELSE linked
  <2>1. /\ DOMAIN linked = DOMAIN map \ Creating
        /\ \A d \in DOMAIN linked : d # d0 => linked[d] = Links[d]
        /\ linked[d0] = Tree!Insert(Links[d0], c.name, c.inode)
        /\ linked = [d \in DOMAIN map \ Creating |-> linked[d]]
    BY <1>7, <1>14, <1>15 DEF Links
  <2>2. /\ DOMAIN Links' = (DOMAIN map \ Creating')
        /\ Links' = [d \in DOMAIN map \ Creating' |-> Links'[d]]
    BY <1>7, <1>8 DEF Links
  <2>3. ASSUME NEW d \in DOMAIN map \ Creating, d # d0
        PROVE  Links'[d] = linked[d]
    BY <1>7, <1>8, <2>1, <2>3 DEF Links
  <2>4. Links'[d0] = linked[d0]
    <3>1. Links'[d0] = [n \in DOMAIN map'[d0] |-> map'[d0][n].inode]
      BY <1>5, <1>7, <1>8 DEF Links
    <3>2. Links[d0] = [n \in DOMAIN map[d0] |-> map[d0][n].inode]
      BY <1>14 DEF Links
    <3>3. QED
      BY <1>4, <1>6, <1>9, <2>1, <3>1, <3>2 DEF Tree!Insert
  <2>5. c.inode \in DOMAIN map => Links'[c.inode] = Tree!EmptyMap
    <3>1. SUFFICES ASSUME c.inode \in DOMAIN map
                   PROVE  Links'[c.inode] = Tree!EmptyMap
      OBVIOUS
    <3>2. c.inode # d0
      BY <1>4, <1>5 DEF Inductive, TypeOK, Ino
    <3>3. map'[c.inode] = EmptyMap
      BY <1>6, <1>8, <3>1, <3>2
    <3>4. Links'[c.inode] =
            [n \in DOMAIN map'[c.inode] |-> map'[c.inode][n].inode]
      BY <1>7, <1>8, <3>1 DEF Links
    <3>5. QED
      BY <3>3, <3>4 DEF EmptyMap, Tree!EmptyMap
  <2>6. CASE o.kind = "Directory"
    <3>1. /\ c.inode \in DOMAIN map
          /\ DOMAIN map \ Creating' = DOMAIN linked \cup {c.inode}
      BY <1>6, <1>7, <1>11, <2>1, <2>6
    <3>2. QED
      BY <1>7, <2>1, <2>2, <2>3, <2>4, <2>5, <2>6, <3>1 DEF Tree!Insert
  <2>7. CASE o.kind # "Directory"
    <3>1. c.inode \notin DOMAIN map /\ DOMAIN map \ Creating' = DOMAIN linked
      BY <1>6, <1>7, <1>11, <2>1, <2>7
    <3>2. QED
      BY <2>1, <2>2, <2>3, <2>4, <2>7, <3>1
  <2>8. QED
    BY <2>6, <2>7
<1>17. Tree!Create(d0, c.name, c.inode, o)
  BY <1>13, <1>14, <1>15, <1>16 DEF Tree!Create
<1>18. QED
  BY <1>4, <1>10, <1>12, <1>14, <1>17 DEF Tree!Next

(* The object goes with its name. *)
LEMMA OrderlyUnlink ==
  ASSUME Inductive, Orderly, OrderlyInductive, NEW t \in Tasks, DeleteUnlink(t)
  PROVE  OrderlyInductive' /\ Tree!Next
<1>1. PICK c : c = call[t]
  OBVIOUS
<1>2. PICK d0 : d0 = Dir(t)
  OBVIOUS
<1>3. /\ c.at = "delete_unlink" /\ c.name \in Names /\ c.inode \in Ino
      /\ d0 \in DOMAIN map /\ Entries(t) = map[d0]
      /\ UNCHANGED <<inodes, counter, handle>>
  BY <1>1, <1>2, CallLocals, HandleFacts DEF DeleteUnlink, At, Inductive
<1>4. /\ c.name \in DOMAIN map[d0]
      /\ map[d0][c.name].inode = c.inode
  BY <1>1, <1>3 DEF OrderlyInductive, Current
<1>5. /\ map' = [map EXCEPT ![d0] = Remove(@, c.name)]
      /\ Goto(t, [at |-> "delete_inode", inode |-> c.inode])
  BY <1>1, <1>2, <1>3, <1>4 DEF DeleteUnlink
<1>6. /\ call'[t] = [at |-> "delete_inode", inode |-> c.inode]
      /\ \A u \in Tasks : u # t => call'[u] = call[u]
  BY <1>5 DEF Goto, Inductive, TypeOK
<1>7. /\ Creating' = Creating /\ Deleting' = Deleting \cup {c.inode}
      /\ c.inode \notin Creating /\ c.inode \notin Deleting
      /\ d0 \notin Creating
  <2>1. /\ ~At(t, "create_insert") /\ ~At(t, "create_insert")'
        /\ ~Removing(t) /\ Removing(t)'
    BY <1>1, <1>3, <1>6 DEF Removing, At
  <2>2. Creating' = Creating /\ Deleting' = Deleting \cup {c.inode}
    BY <1>6, <2>1, CreatingNext, DeletingNext
  <2>3. c.inode \notin Creating
    BY <1>3, <1>4 DEF Creating, Inductive, PendingUnlinked
  <2>4. c.inode \notin Deleting
    BY <1>3, <1>4 DEF Deleting, Removing, At, OrderlyInductive, Current
  <2>5. QED
    BY <1>2, <2>2, <2>3, <2>4 DEF Orderly
<1>8. /\ DOMAIN map' = DOMAIN map
      /\ \A d \in DOMAIN map : d # d0 => map'[d] = map[d]
      /\ map'[d0] = Remove(map[d0], c.name)
  BY <1>3, <1>5
<1>9. /\ DOMAIN map'[d0] = DOMAIN map[d0] \ {c.name}
      /\ \A n \in DOMAIN map'[d0] : map'[d0][n] = map[d0][n]
  BY <1>8 DEF Remove, Restrict
<1>10. c.inode \in DOMAIN inodes
  BY <1>3, <1>4 DEF OrderlyInductive, NoDanglingEntry
<1>11. OrderlyInductive'
  <2>1. \A d \in DOMAIN map' : \A n \in DOMAIN map'[d] :
          /\ n \in DOMAIN map[d] /\ map'[d][n] = map[d][n]
          /\ ~(d = d0 /\ n = c.name)
    BY <1>8, <1>9
  <2>2. \A d \in DOMAIN map' : \A n \in DOMAIN map'[d] :
          map'[d][n].inode # c.inode
    BY <1>3, <1>4, <1>8, <2>1 DEF Inductive, SingleLink
  <2>3. ASSUME NEW u \in Tasks PROVE Current(u, call[u])'
    <3>1. CASE u = t
      BY <1>3, <1>6, <1>10, <2>2, <3>1 DEF Current
    <3>2. CASE u # t
      <4>1. Busy(u) => Entries(u)' = Entries(u)
        <5>1. Busy(t)
          BY <1>1, <1>3 DEF Busy, Idle, At
        <5>2. Busy(u) => Dir(u) # d0
          BY <1>2, <3>2, <5>1, OtherDirectory
        <5>3. Dir(u) \in DOMAIN map
          BY HandleFacts
        <5>4. QED
          BY <1>3, <1>8, <5>2, <5>3 DEF Entries, Dir
      <4>2. At(u, "create_insert") => call[u].inode # d0
        BY <1>7 DEF Creating
      <4>3. Removing(u) => \A d \in DOMAIN map' : \A n \in DOMAIN map'[d] :
                             map'[d][n].inode # call[u].inode
        BY <1>8, <2>1 DEF OrderlyInductive, Current, Removing, At
      <4>4. QED
        BY <1>3, <1>6, <1>8, <3>2, <4>1, <4>2, <4>3, Bystander, MoverHasInode
    <3>3. QED
      BY <3>1, <3>2
  <2>4. NoContest'
    <3>1. Creating' \cap Deleting' = {}
      BY <1>7 DEF OrderlyInductive, NoContest
    <3>2. QED
      BY <1>6, <1>7, <3>1, NoContestNext DEF OrderlyInductive
  <2>5. NoDanglingEntry'
    BY <1>3, <1>8, <2>1 DEF OrderlyInductive, NoDanglingEntry
  <2>6. QED
    BY <2>3, <2>4, <2>5 DEF OrderlyInductive
<1>12. Objects' = Tree!Remove(Objects, c.inode)
  BY <1>3, <1>7 DEF Objects, Restrict, Tree!Remove, Tree!Restrict
<1>13. /\ d0 \in DOMAIN Links /\ c.name \in DOMAIN Links[d0]
       /\ Links[d0] = [n \in DOMAIN map[d0] |-> map[d0][n].inode]
       /\ Links[d0][c.name] = c.inode
       /\ c.inode \in DOMAIN Objects
       /\ Objects[c.inode] = inodes[c.inode]
  <2>1. /\ d0 \in DOMAIN Links
        /\ Links[d0] = [n \in DOMAIN map[d0] |-> map[d0][n].inode]
    BY <1>3, <1>7 DEF Links
  <2>2. c.inode \in DOMAIN Objects /\ Objects[c.inode] = inodes[c.inode]
    BY <1>7, <1>10 DEF Objects, Restrict
  <2>3. QED
    BY <1>4, <2>1, <2>2
<1>14. Tree!Permitted(c.inode, "DELETE")
  <2>1. May(t, inodes[c.inode], "DELETE")
    BY <1>1, <1>3 DEF OrderlyInductive, Current
  <2>2. QED
    BY <1>13, <2>1 DEF May, Tree!Permitted
<1>15. Links' = [Links EXCEPT ![d0] = Tree!Remove(@, c.name)]
  <2>1. Tree!Remove(Links[d0], c.name) =
          [n \in DOMAIN map'[d0] |-> map'[d0][n].inode]
    BY <1>9, <1>13 DEF Tree!Remove, Tree!Restrict
  <2>2. /\ Links = [d \in DOMAIN map \ Creating |->
                      [n \in DOMAIN map[d] |-> map[d][n].inode]]
        /\ Links' = [d \in DOMAIN map \ Creating |->
                       [n \in DOMAIN map'[d] |-> map'[d][n].inode]]
    BY <1>7, <1>8 DEF Links
  <2>3. QED
    BY <1>3, <1>7, <1>8, <2>1, <2>2
<1>16. Used' = Used
  BY <1>3, <1>7 DEF Used
<1>17. Tree!Delete(d0, c.name)
  <2>1. Links[d0][c.name] = c.inode
    BY <1>13
  <2>2. QED
    BY <1>12, <1>13, <1>14, <1>15, <1>16, <2>1 DEF Tree!Delete
<1>18. QED
  BY <1>3, <1>11, <1>13, <1>17 DEF Tree!Next

(* The inode unlinked is still there to remove. *)
LEMMA OrderlyDeleteInode ==
  ASSUME Inductive, OrderlyInductive, NEW t \in Tasks, DeleteInode(t)
  PROVE  OrderlyInductive' /\ UNCHANGED Tree!tvars
<1> DEFINE c == [call[t] EXCEPT !.at = "delete_remove"]
<1>1. /\ call[t].at = "delete_inode"
      /\ UNCHANGED <<inodes, counter, map, handle>>
      /\ Current(t, call[t])
  BY DEF DeleteInode, At, OrderlyInductive
<1>2. c = [at |-> "delete_remove", inode |-> call[t].inode]
  <2>1. call[t] = [at |-> call[t].at, inode |-> call[t].inode]
    BY <1>1, CallLocals DEF Inductive, At
  <2>2. QED
    BY <2>1
<1>3. Goto(t, c)
  BY <1>1 DEF DeleteInode, Current
<1>4. Current(t, c) /\ c.at = "delete_remove" /\ c.inode = call[t].inode
  BY <1>1, <1>2 DEF Current
<1> HIDE DEF c
<1>5. QED
  BY <1>1, <1>3, <1>4, OrderlyQuiet

(* With the inode of a directory goes its map, unless a handle keeps it.   *)
LEMMA OrderlyRemove ==
  ASSUME Inductive, Orderly, OrderlyInductive, NEW t \in Tasks, DeleteRemove(t)
  PROVE  OrderlyInductive' /\ Tree!Next
<1>1. PICK i : i = call[t].inode
  OBVIOUS
<1>2. /\ call[t].at = "delete_remove"
      /\ inodes' = Remove(inodes, i)
      /\ UNCHANGED <<counter, handle>>
      /\ call'[t].at = "idle"
      /\ \A u \in Tasks : u # t => call'[u] = call[u]
  BY <1>1 DEF DeleteRemove, At, Return, Goto, Inductive, TypeOK
<1>3. /\ i \in DOMAIN inodes
      /\ \A d \in DOMAIN map : \A n \in DOMAIN map[d] : map[d][n].inode # i
  BY <1>1, <1>2 DEF OrderlyInductive, Current
<1>4. /\ Creating' = Creating /\ Deleting' = Deleting \ {i}
      /\ i \in Deleting /\ i \notin Creating
      /\ \A u \in Tasks : Removing(u) /\ call[u].inode = i => u = t
  <2>1. /\ ~At(t, "create_insert") /\ ~At(t, "create_insert")'
        /\ Removing(t) /\ ~Removing(t)'
    BY <1>2 DEF Removing, At
  <2>2. \A u \in Tasks : Removing(u) /\ call[u].inode = i => u = t
    BY <1>1, <2>1 DEF OrderlyInductive, NoContest
  <2>3. i \in Deleting /\ i \notin Creating
    BY <1>1, <2>1 DEF Deleting, OrderlyInductive, NoContest
  <2>4. QED
    BY <1>1, <1>2, <2>1, <2>2, <2>3, CreatingNext, DeletingNext
<1>5. /\ DOMAIN inodes' = DOMAIN inodes \ {i}
      /\ \A j \in DOMAIN inodes' : inodes'[j] = inodes[j]
  BY <1>2 DEF Remove, Restrict
<1>6. /\ DOMAIN map' \subseteq DOMAIN map
      /\ \A d \in DOMAIN map' : map'[d] = map[d]
      /\ \A d \in DOMAIN inodes' : d \in DOMAIN map' <=> d \in DOMAIN map
      /\ \A u \in Tasks : Dir(u) \in DOMAIN map'
  BY <1>2, HandleFacts DEF DeleteRemove, Kept, Restrict, Dir
<1>7. ASSUME NEW u \in Tasks PROVE Current(u, call[u])'
  <2>1. CASE u = t
    BY <1>2, <2>1 DEF Current
  <2>2. CASE u # t
    <3>1. Entries(u)' = Entries(u)
      BY <1>2, <1>6 DEF Entries, Dir
    <3>2. ASSUME Holding(u) PROVE call[u].inode # i
      <4>1. CASE Removing(u)
        BY <1>4, <2>2, <4>1
      <4>2. CASE At(u, "create_insert")
        BY <1>4, <4>2 DEF Creating
      <4>3. CASE HasRight(u)
        BY <1>3, <4>3, HandleFacts DEF OrderlyInductive, Current, HasRight, At
      <4>4. QED
        BY <3>2, <4>1, <4>2, <4>3 DEF Holding
    <3>3. Removing(u) => \A d \in DOMAIN map' : \A n \in DOMAIN map'[d] :
                           map'[d][n].inode # call[u].inode
      BY <1>6 DEF OrderlyInductive, Current, Removing, At
    <3>4. At(u, "create_insert") => call[u].inode \in DOMAIN inodes'
      BY <1>5, <3>2 DEF OrderlyInductive, Current, Holding, At
    <3>5. QED
      BY <1>2, <1>5, <1>6, <2>2, <3>1, <3>2, <3>3, <3>4, Bystander, MoverHasInode
  <2>3. QED
    BY <2>1, <2>2
<1>8. NoContest'
  <2>1. ~Removing(t)' /\ Creating' \cap Deleting' = {}
    BY <1>2, <1>4 DEF Removing, At, OrderlyInductive, NoContest
  <2>2. QED
    BY <1>2, <2>1, NoContestNext DEF OrderlyInductive
<1>9. NoDanglingEntry'
  BY <1>3, <1>5, <1>6 DEF OrderlyInductive, NoDanglingEntry
<1>10. Tree!Next
  <2>1. UNCHANGED <<Objects, Used>>
    BY <1>2, <1>4, <1>5 DEF Objects, Restrict, Used
  <2>2. (DOMAIN map \ DOMAIN map') \cap DOMAIN Objects = {}
    BY <1>4, <1>5, <1>6 DEF Objects, Restrict
  <2>3. QED
    BY <1>4, <1>6, <2>1, <2>2, MapsForgotten
<1>11. QED
  BY <1>7, <1>8, <1>9, <1>10 DEF OrderlyInductive

(* The object keeps its number under the new name. *)
LEMMA OrderlyMove ==
  ASSUME Inductive, Orderly, OrderlyInductive, NEW t \in Tasks, RenameMove(t)
  PROVE  OrderlyInductive' /\ [Tree!Next]_(Tree!tvars)
<1>1. PICK c : c = call[t]
  OBVIOUS
<1>2. PICK d0 : d0 = Dir(t)
  OBVIOUS
<1>3. /\ c.at = "rename_move" /\ c.name \in Names /\ c.to \in Names
      /\ d0 \in DOMAIN map /\ Entries(t) = map[d0]
      /\ UNCHANGED <<inodes, counter, handle>>
  BY <1>1, <1>2, CallLocals, HandleFacts DEF RenameMove, At, Inductive
<1>4. /\ c.name \in DOMAIN map[d0]
      /\ map[d0][c.name].inode = c.inode
      /\ May(t, inodes[c.inode], "RENAME")
  BY <1>1, <1>3 DEF OrderlyInductive, Current
<1>5. CASE UNCHANGED map /\ \E r : Return(t, r)
  BY <1>1, <1>3, <1>5, OrderlyReturns
<1>6. CASE /\ c.to \notin DOMAIN map[d0]
           /\ map' = [map EXCEPT ![d0] = Moved(@, c.name, c.to)]
           /\ Return(t, "Ok")
  <2>1. PICK e : e = [map[d0][c.name] EXCEPT !.name = c.to]
    OBVIOUS
  <2>2. e.inode = c.inode
    <3>1. map[d0][c.name] \in DirEntry
      BY <1>3, <1>4, EntryFacts
    <3>2. QED
      BY <1>4, <2>1, <3>1 DEF DirEntry
  <2>3. /\ DOMAIN map' = DOMAIN map
        /\ \A d \in DOMAIN map : d # d0 => map'[d] = map[d]
        /\ map'[d0] = Remove(Insert(map[d0], c.to, e), c.name)
    BY <1>3, <1>6, <2>1 DEF Moved
  <2>4. /\ DOMAIN map'[d0] = (DOMAIN map[d0] \ {c.name}) \cup {c.to}
        /\ map'[d0][c.to] = e
        /\ \A n \in DOMAIN map[d0] \ {c.name} : map'[d0][n] = map[d0][n]
    <3>1. PICK f : f = Insert(map[d0], c.to, e)
      OBVIOUS
    <3>2. /\ DOMAIN f = DOMAIN map[d0] \cup {c.to} /\ f[c.to] = e
          /\ \A n \in DOMAIN map[d0] \ {c.to} : f[n] = map[d0][n]
      BY <3>1 DEF Insert
    <3>3. map'[d0] = [n \in DOMAIN f \ {c.name} |-> f[n]]
      BY <2>3, <3>1 DEF Remove, Restrict
    <3>4. c.name # c.to
      BY <1>4, <1>6
    <3>5. QED
      BY <1>6, <3>2, <3>3, <3>4
  <2>5. /\ call'[t].at = "idle"
        /\ \A u \in Tasks : u # t => call'[u] = call[u]
    BY <1>6 DEF Return, Goto, Inductive, TypeOK
  <2>6. /\ Creating' = Creating /\ Deleting' = Deleting
        /\ c.inode \notin Creating /\ c.inode \notin Deleting
        /\ d0 \notin Creating
    <3>1. /\ ~At(t, "create_insert") /\ ~At(t, "create_insert")'
          /\ ~Removing(t) /\ ~Removing(t)'
      BY <1>1, <1>3, <2>5 DEF Removing, At
    <3>2. Creating' = Creating /\ Deleting' = Deleting
      BY <2>5, <3>1, CreatingNext, DeletingNext
    <3>3. c.inode \notin Creating
      BY <1>3, <1>4 DEF Creating, Inductive, PendingUnlinked
    <3>4. c.inode \notin Deleting
      BY <1>3, <1>4 DEF Deleting, Removing, At, OrderlyInductive, Current
    <3>5. QED
      BY <1>2, <3>2, <3>3, <3>4 DEF Orderly
  <2>7. c.inode \in DOMAIN inodes
    BY <1>3, <1>4 DEF OrderlyInductive, NoDanglingEntry
  <2>8. OrderlyInductive'
    <3>1. ASSUME NEW u \in Tasks PROVE Current(u, call[u])'
      <4>1. CASE u = t
        BY <2>5, <4>1 DEF Current
      <4>2. CASE u # t
        <5>1. Busy(u) => Entries(u)' = Entries(u)
          <6>1. Busy(t)
            BY <1>1, <1>3 DEF Busy, Idle, At
          <6>2. Busy(u) => Dir(u) # d0
            BY <1>2, <4>2, <6>1, OtherDirectory
          <6>3. Dir(u) \in DOMAIN map
            BY HandleFacts
          <6>4. QED
            BY <1>3, <2>3, <6>2, <6>3 DEF Entries, Dir
        <5>2. At(u, "create_insert") => call[u].inode # d0
          BY <2>6 DEF Creating
        <5>3. ASSUME Removing(u),
                     NEW d \in DOMAIN map', NEW n \in DOMAIN map'[d]
              PROVE  map'[d][n].inode # call[u].inode
          <6>1. call[u].inode # c.inode
            BY <2>6, <5>3 DEF Deleting
          <6>2. \A b \in DOMAIN map : \A m \in DOMAIN map[b] :
                  map[b][m].inode # call[u].inode
            BY <5>3 DEF OrderlyInductive, Current, Removing, At
          <6>3. QED
            BY <1>3, <2>2, <2>3, <2>4, <6>1, <6>2
        <5>4. QED
          BY <1>3, <2>3, <2>5, <4>2, <5>1, <5>2, <5>3, Bystander,
             MoverHasInode
      <4>3. QED
        BY <4>1, <4>2
    <3>2. NoContest'
      <4>1. ~Removing(t)' /\ Creating' \cap Deleting' = {}
        BY <2>5, <2>6 DEF Removing, At, OrderlyInductive, NoContest
      <4>2. QED
        BY <2>5, <4>1, NoContestNext DEF OrderlyInductive
    <3>3. NoDanglingEntry'
      BY <1>3, <2>2, <2>3, <2>4, <2>7 DEF OrderlyInductive, NoDanglingEntry
    <3>4. QED
      BY <3>1, <3>2, <3>3 DEF OrderlyInductive
  <2>9. Objects' = Objects /\ Used' = Used
    BY <1>3, <2>6 DEF Objects, Used
  <2>10. /\ Links = [d \in DOMAIN map \ Creating |->
                       [n \in DOMAIN map[d] |-> map[d][n].inode]]
         /\ Links' = [d \in DOMAIN map \ Creating |->
                        [n \in DOMAIN map'[d] |-> map'[d][n].inode]]
    BY <2>3, <2>6 DEF Links
  <2>11. PICK l : l = Links[d0]
    OBVIOUS
  <2>12. l = [n \in DOMAIN map[d0] |-> map[d0][n].inode]
    BY <1>3, <2>6, <2>10, <2>11
  <2>13. Tree!Remove(Tree!Insert(l, c.to, l[c.name]), c.name) =
           [n \in DOMAIN map'[d0] |-> map'[d0][n].inode]
    <3>1. PICK f : f = Tree!Remove(Tree!Insert(l, c.to, l[c.name]), c.name)
      OBVIOUS
    <3>2. /\ f = [n \in DOMAIN f |-> f[n]]
          /\ DOMAIN f = DOMAIN map'[d0]
          /\ f[c.to] = c.inode
          /\ \A n \in DOMAIN map[d0] \ {c.name} : f[n] = map[d0][n].inode
      BY <1>4, <1>6, <2>4, <2>12, <3>1
         DEF Tree!Remove, Tree!Insert, Tree!Restrict
    <3>3. \A n \in DOMAIN f : f[n] = map'[d0][n].inode
      BY <2>2, <2>4, <3>2
    <3>4. QED
      BY <3>1, <3>2, <3>3
  <2>14. Links' =
           [Links EXCEPT ![d0] =
              Tree!Remove(Tree!Insert(@, c.to, @[c.name]), c.name)]
    BY <1>3, <2>3, <2>6, <2>10, <2>11, <2>13
  <2>15. /\ d0 \in DOMAIN Links
         /\ c.name \in DOMAIN Links[d0] /\ c.to \notin DOMAIN Links[d0]
         /\ Links[d0][c.name] = c.inode
    BY <1>3, <1>4, <1>6, <2>6, <2>10
  <2>16. /\ c.inode \in DOMAIN Objects
         /\ Objects[c.inode] = inodes[c.inode]
    BY <2>6, <2>7 DEF Objects, Restrict
  <2>17. Tree!Permitted(c.inode, "RENAME")
    BY <1>4, <2>16 DEF May, Tree!Permitted
  <2>18. Tree!Rename(d0, c.name, c.to)
    BY <2>9, <2>14, <2>15, <2>16, <2>17 DEF Tree!Rename
  <2>19. QED
    BY <1>3, <2>8, <2>15, <2>18 DEF Tree!Next
<1>7. QED
  BY <1>1, <1>2, <1>3, <1>4, <1>5, <1>6 DEF RenameMove

(* A step of an orderly caller keeps what all of them know, and is a step  *)
(* of the tree or none.                                                    *)
LEMMA OrderlyStep ==
  ASSUME Inductive, Orderly, OrderlyInductive, [Next]_vars,
         [NoChmodBetween]_vars
  PROVE  OrderlyInductive' /\ [Tree!Next]_(Tree!tvars)
<1>1. CASE UNCHANGED vars
  <2>1. UNCHANGED <<Creating, Deleting, NoContest>>
    BY <1>1 DEF vars, Creating, Deleting, NoContest, Removing, At
  <2>2. OrderlyInductive'
    BY <1>1, <2>1 DEF vars, OrderlyInductive, Current, Entries, Dir, May,
                      NoDanglingEntry
  <2>3. UNCHANGED Tree!tvars
    BY <1>1, <2>1 DEF vars, Objects, Links, Used, Tree!tvars
  <2>4. QED
    BY <2>2, <2>3
<1>2. ASSUME NEW t \in Tasks, Begin(t)
      PROVE  OrderlyInductive' /\ [Tree!Next]_(Tree!tvars)
  <2>1. CASE \E d \in DOMAIN inodes, flags \in FlagSets : Open(t, d, flags)
    BY <2>1, OrderlyOpen
  <2>2. CASE Denied(t)
    BY <2>2, OrderlyReturns DEF Denied, Idle
  <2>3. CASE ~Denied(t) /\ ~(\E d \in DOMAIN inodes, flags \in FlagSets :
                               Open(t, d, flags))
    BY <1>2, <2>3, OrderlyFinds DEF Begin
  <2>4. QED
    BY <2>1, <2>2, <2>3
<1>3. ASSUME NEW t \in Tasks, Continue(t)
      PROVE  OrderlyInductive' /\ [Tree!Next]_(Tree!tvars)
  <2>1. CASE LookupGet(t)
    BY <2>1, OrderlyReturns DEF LookupGet, At
  <2>2. QED
    BY <1>3, <2>1, OrderlyAllocFails, OrderlyAllocRoom, OrderlyAlloc,
       OrderlyInsert, OrderlyChecks, OrderlyUnlink, OrderlyDeleteInode, OrderlyRemove, OrderlyMove
       DEF Continue
<1>4. ASSUME NEW i, NEW grants \in ChmodGrants, Chmod(i, grants)
      PROVE  OrderlyInductive' /\ [Tree!Next]_(Tree!tvars)
  <2>1. CASE UNCHANGED vars
    BY <1>1, <2>1
  <2>2. CASE NoChmodBetween
    BY <1>4, <2>2, OrderlyChmod
  <2>3. QED
    BY <2>1, <2>2
<1>5. QED
  BY <1>1, <1>2, <1>3, <1>4 DEF Next

(* The behaviours of OrderlySpec, which TLC explores, are of this kind.    *)
LEMMA OrderlyBehavior ==
  OrderlySpec => Spec /\ []Orderly /\ [][NoChmodBetween]_vars
<1>1. Init => Orderly
  BY DEF Init, Orderly, Busy, Idle, Creating, At
<1>2. Orderly /\ [Next /\ Orderly' /\ NoChmodBetween]_vars => Orderly'
  BY DEF vars, Orderly, Busy, Idle, Creating, At, Dir
<1>3. [Next /\ Orderly' /\ NoChmodBetween]_vars =>
        [Next]_vars /\ [NoChmodBetween]_vars
  OBVIOUS
<1>4. QED
  BY <1>1, <1>2, <1>3, PTL DEF Spec, OrderlySpec

(* What orderly callers have read stays so in the middle of their calls.   *)
THEOREM OrderlyInvariance ==
  Spec /\ []Orderly /\ [][NoChmodBetween]_vars => []OrderlyInductive
<1>1. Inductive /\ Orderly /\ OrderlyInductive /\ [Next]_vars
        /\ [NoChmodBetween]_vars => OrderlyInductive'
  BY OrderlyStep
<1>2. QED
  BY <1>1, OrderlyInit, Invariance, PTL DEF Spec

(* However orderly callers interleave, no name leads to an inode that is   *)
(* gone.                                                                   *)
THEOREM NamesLeadSomewhere ==
  Spec /\ []Orderly /\ [][NoChmodBetween]_vars => []NoDanglingEntry
<1>1. OrderlyInductive => NoDanglingEntry
  BY DEF OrderlyInductive
<1>2. QED
  BY <1>1, OrderlyInvariance, PTL

-----------------------------------------------------------------------------
(* How an inode can get lost.                                              *)

(* What a call has in hand stays in hand while others move.                *)
LEMMA StillPending ==
  ASSUME NEW t \in Tasks, \A u \in Tasks : u # t => call'[u] = call[u],
         ~At(t, "create_insert"), ~Removing(t)
  PROVE  Creating \subseteq Creating' /\ Deleting \subseteq Deleting'
BY DEF Creating, Deleting, Removing, At

(* Nothing becomes lost that had been in hand or had had a name, if the    *)
(* one in hand stays there and the name stays with its directory.          *)
LEMMA NoneLost ==
  ASSUME Inductive, DOMAIN inodes' \subseteq DOMAIN inodes \cup Creating',
         \A i \in DOMAIN inodes' : i \in Creating \cup Deleting =>
           \/ i \in Creating' \cup Deleting'
           \/ \E d \in Ino : In(i, d)',
         \A i \in DOMAIN inodes', d \in DOMAIN inodes \cap DOMAIN inodes' :
           In(i, d) => In(i, d)' \/ i \in Deleting'
  PROVE  OnlyLostWithDirectory
<1> SUFFICES ASSUME NEW i \in Lost', i \notin Lost
             PROVE  \E d \in Ino \ DOMAIN inodes' : In(i, d) \/ In(i, d)'
  BY DEF OnlyLostWithDirectory
<1>1. /\ i \in DOMAIN inodes' /\ i # Root
      /\ i \notin Creating' /\ i \notin Deleting'
      /\ \A d \in DOMAIN inodes' : ~In(i, d)'
  BY DEF Lost
<1>2. i \in DOMAIN inodes
  BY <1>1
<1>3. CASE i \in Creating \cup Deleting
  BY <1>1, <1>3
<1>4. CASE i \notin Creating \cup Deleting
  <2>1. PICK d \in DOMAIN inodes : In(i, d)
    BY <1>1, <1>2, <1>4 DEF Lost
  <2>2. d \notin DOMAIN inodes'
    BY <1>1, <2>1
  <2>3. d \in Ino
    BY <2>1 DEF Inductive, TypeOK
  <2>4. QED
    BY <2>1, <2>2, <2>3
<1>5. QED
  BY <1>3, <1>4

LEMMA LostStep ==
  ASSUME Inductive, OrderlyInductive, Next
  PROVE  OnlyLostWithDirectory
<1>1. ASSUME NEW i, NEW grants, Chmod(i, grants)
      PROVE  OnlyLostWithDirectory
  <2>1. DOMAIN inodes' = DOMAIN inodes /\ UNCHANGED <<map, call>>
    BY <1>1 DEF Chmod
  <2>2. UNCHANGED <<Creating, Deleting>>
    BY <2>1 DEF Creating, Deleting, Removing, At
  <2>3. QED
    BY <2>1, <2>2, NoneLost DEF In
<1>2. ASSUME NEW t \in Tasks, NEW d, NEW flags, Open(t, d, flags)
      PROVE  OnlyLostWithDirectory
  <2>1. UNCHANGED <<inodes, call>>
    BY <1>2 DEF Open
  <2>2. UNCHANGED <<Creating, Deleting>>
    BY <2>1 DEF Creating, Deleting, Removing, At
  <2>3. \A e \in DOMAIN map \cap DOMAIN inodes :
          e \in DOMAIN map' /\ map'[e] = map[e]
    BY <1>2 DEF Open, Kept, Restrict
  <2>4. QED
    BY <2>1, <2>2, <2>3, NoneLost DEF In
<1>3. ASSUME NEW t \in Tasks, UNCHANGED <<inodes, map>>,
             ~At(t, "create_insert"), ~Removing(t),
             \A u \in Tasks : u # t => call'[u] = call[u]
      PROVE  OnlyLostWithDirectory
  <2>1. Creating \subseteq Creating' /\ Deleting \subseteq Deleting'
    BY <1>3, StillPending
  <2>2. QED
    BY <1>3, <2>1, NoneLost DEF In
<1>4. ASSUME NEW t \in Tasks, AllocInode(t) PROVE OnlyLostWithDirectory
  <2>1. /\ call'[t].at = "create_insert" /\ call'[t].inode = counter
        /\ \A u \in Tasks : u # t => call'[u] = call[u]
        /\ ~At(t, "create_insert") /\ ~Removing(t)
    BY <1>4 DEF AllocInode, NextNumber, Goto, Inductive, TypeOK, At, Removing
  <2>2. Creating \subseteq Creating' /\ Deleting \subseteq Deleting'
    BY <2>1, StillPending
  <2>3. counter \in Creating'
    BY <2>1 DEF Creating, At
  <2>4. counter \notin DOMAIN map
    BY DEF Inductive, TypeOK, CounterAhead
  <2>5. \A e \in DOMAIN map : e \in DOMAIN map' /\ map'[e] = map[e]
    BY <1>4, <2>4 DEF AllocInode, NextNumber, Insert
  <2>6. DOMAIN inodes' = DOMAIN inodes \cup {counter}
    BY <1>4 DEF AllocInode, NextNumber, Insert
  <2>7. QED
    BY <2>2, <2>3, <2>5, <2>6, NoneLost DEF In
<1>5. ASSUME NEW t \in Tasks, CreateInsert(t) PROVE OnlyLostWithDirectory
  <2>1. PICK i, d, m : i = call[t].inode /\ d = Dir(t) /\ m = call[t].name
    OBVIOUS
  <2>2. /\ \A u \in Tasks : u # t => call'[u] = call[u]
        /\ ~At(t, "create_insert")' /\ ~Removing(t) /\ ~Removing(t)'
        /\ UNCHANGED inodes
    BY <1>5 DEF CreateInsert, Return, Goto, Inductive, TypeOK, At, Removing
  <2>3. /\ Deleting' = Deleting
        /\ \A j \in Creating : j \in Creating' \/ j = i
    BY <2>1, <2>2, DeletingNext DEF Creating, At
  <2>4. d \in DOMAIN map /\ d \in Ino /\ m \notin DOMAIN map[d]
    BY <1>5, <2>1, HandleFacts
       DEF CreateInsert, OrderlyInductive, Current, At, Inductive, TypeOK
  <2>5. /\ DOMAIN map' = DOMAIN map
        /\ \A e \in DOMAIN map : e # d => map'[e] = map[e]
        /\ m \in DOMAIN map'[d] /\ map'[d][m].inode = i
        /\ \A n \in DOMAIN map[d] : n # m =>
             n \in DOMAIN map'[d] /\ map'[d][n] = map[d][n]
    BY <1>5, <2>1, <2>4 DEF CreateInsert, Insert
  <2>6. In(i, d)'
    BY <2>4, <2>5 DEF In
  <2>7. \A j, e : In(j, e) => In(j, e)'
    BY <2>4, <2>5 DEF In
  <2>8. QED
    BY <2>2, <2>3, <2>4, <2>6, <2>7, NoneLost
<1>6. ASSUME NEW t \in Tasks, DeleteUnlink(t) PROVE OnlyLostWithDirectory
  <2>1. /\ \A u \in Tasks : u # t => call'[u] = call[u]
        /\ ~At(t, "create_insert") /\ ~Removing(t)
        /\ UNCHANGED inodes
    BY <1>6 DEF DeleteUnlink, Return, Goto, Inductive, TypeOK, At, Removing
  <2>2. Creating \subseteq Creating' /\ Deleting \subseteq Deleting'
    BY <2>1, StillPending
  <2>3. /\ call[t].name \in DOMAIN Entries(t)
        /\ Entries(t)[call[t].name].inode = call[t].inode
        /\ Dir(t) \in DOMAIN map /\ Entries(t) = map[Dir(t)]
    BY <1>6, HandleFacts DEF DeleteUnlink, OrderlyInductive, Current, At
  <2>4. /\ map' = [map EXCEPT ![Dir(t)] = Remove(@, call[t].name)]
        /\ call'[t] = [at |-> "delete_inode", inode |-> call[t].inode]
    BY <1>6, <2>3 DEF DeleteUnlink, Goto, Inductive, TypeOK
  <2>5. call[t].inode \in Deleting'
    BY <2>4 DEF Deleting, Removing, At
  <2>6. \A i, e : In(i, e) => In(i, e)' \/ i = call[t].inode
    BY <2>3, <2>4 DEF In, Remove, Restrict
  <2>7. QED
    BY <2>1, <2>2, <2>5, <2>6, NoneLost
<1>7. ASSUME NEW t \in Tasks, DeleteInode(t) PROVE OnlyLostWithDirectory
  <2>1. /\ \A u \in Tasks : u # t => call'[u] = call[u]
        /\ ~At(t, "create_insert") /\ ~At(t, "create_insert")'
        /\ UNCHANGED <<inodes, map>>
    <3>1. PICK c : c.at # "create_insert" /\ Goto(t, c)
      <4>1. [call[t] EXCEPT !.at = "delete_remove"].at = "delete_remove"
        BY <1>7, CallLocals DEF DeleteInode, Inductive, At
      <4>2. [at |-> "idle", result |-> "NotFound"].at = "idle"
        OBVIOUS
      <4>3. QED
        BY <1>7, <4>1, <4>2 DEF DeleteInode, Return
    <3>2. QED
      BY <1>7, <3>1 DEF DeleteInode, Goto, Inductive, TypeOK, At
  <2>2. Creating' = Creating
    BY <2>1, CreatingNext
  <2>3. \A i \in DOMAIN inodes : i \in Deleting => i \in Deleting'
    <3>1. CASE call[t].inode \notin DOMAIN inodes
      BY <2>1, <3>1 DEF Deleting, Removing, At
    <3>2. CASE call[t].inode \in DOMAIN inodes
      <4>1. [call[t] EXCEPT !.at = "delete_remove"] =
              [at |-> "delete_remove", inode |-> call[t].inode]
        <5>1. call[t] = [at |-> call[t].at, inode |-> call[t].inode]
          BY <1>7, CallLocals DEF DeleteInode, Inductive
        <5>2. QED
          BY <5>1
      <4>2. call'[t] = [at |-> "delete_remove", inode |-> call[t].inode]
        BY <1>7, <3>2, <4>1 DEF DeleteInode, Goto, Inductive, TypeOK
      <4>3. QED
        BY <2>1, <4>2 DEF Deleting, Removing, At
    <3>3. QED
      BY <3>1, <3>2
  <2>4. QED
    BY <2>1, <2>2, <2>3, NoneLost DEF In
<1>8. ASSUME NEW t \in Tasks, DeleteRemove(t) PROVE OnlyLostWithDirectory
  <2>1. /\ \A u \in Tasks : u # t => call'[u] = call[u]
        /\ ~At(t, "create_insert") /\ ~At(t, "create_insert")'
        /\ DOMAIN inodes' = DOMAIN inodes \ {call[t].inode}
    BY <1>8 DEF DeleteRemove, Return, Goto, Inductive, TypeOK, At, Remove, Restrict
  <2>2. Creating' = Creating
    BY <2>1, CreatingNext
  <2>3. \A i \in DOMAIN inodes' : i \in Deleting => i \in Deleting'
    BY <2>1 DEF Deleting, Removing, At
  <2>4. \A e \in DOMAIN map \cap DOMAIN inodes' :
          e \in DOMAIN map' /\ map'[e] = map[e]
    BY <1>8 DEF DeleteRemove, Kept, Restrict
  <2>5. QED
    BY <2>1, <2>2, <2>3, <2>4, NoneLost DEF In
<1>9. ASSUME NEW t \in Tasks, RenameMove(t) PROVE OnlyLostWithDirectory
  <2>1. /\ \A u \in Tasks : u # t => call'[u] = call[u]
        /\ ~At(t, "create_insert") /\ ~Removing(t)
        /\ UNCHANGED inodes
    BY <1>9 DEF RenameMove, Return, Goto, Inductive, TypeOK, At, Removing
  <2>2. Creating \subseteq Creating' /\ Deleting \subseteq Deleting'
    BY <2>1, StillPending
  <2>3. \A i, e : In(i, e) => In(i, e)'
    <3>1. CASE map' = map
      BY <3>1 DEF In
    <3>2. CASE map' # map
      <4> DEFINE d0 == Dir(t)
                 a == call[t].name
                 b == call[t].to
                 e0 == [map[d0][a] EXCEPT !.name = b]
      <4>1. /\ d0 \in DOMAIN map /\ a \in DOMAIN map[d0]
            /\ b \notin DOMAIN map[d0]
            /\ map' = [map EXCEPT ![d0] = Remove(Insert(@, b, e0), a)]
        BY <1>9, <3>2, HandleFacts DEF RenameMove, Moved
      <4>2. e0.inode = map[d0][a].inode
        BY <4>1, EntryFacts DEF DirEntry
      <4> HIDE DEF e0
      <4>3. QED
        BY <4>1, <4>2 DEF In, Remove, Restrict, Insert
    <3>3. QED
      BY <3>1, <3>2
  <2>4. QED
    BY <2>1, <2>2, <2>3, NoneLost
<1>10. ASSUME NEW t \in Tasks, Begin(t) PROVE OnlyLostWithDirectory
  <2>1. CASE \E d \in DOMAIN inodes, flags \in FlagSets : Open(t, d, flags)
    BY <1>2, <2>1
  <2>2. CASE \/ Denied(t)
             \/ \E n \in Names :
                  \/ \E o \in NewObjects : CreateFind(t, n, o)
                  \/ DeleteFind(t, n)
                  \/ \E m \in Names : RenameFind(t, n, m)
                  \/ LookupFind(t, n)
    <3>1. /\ UNCHANGED <<inodes, map>> /\ ~At(t, "create_insert")
          /\ ~Removing(t)
          /\ \A u \in Tasks : u # t => call'[u] = call[u]
      BY <2>2 DEF Denied, CreateFind, DeleteFind, RenameFind, LookupFind,
                  CanRead, CanWrite, Idle, At, Removing, Return, Goto, Inductive, TypeOK
    <3>2. QED
      BY <1>3, <3>1
  <2>3. QED
    BY <1>10, <2>1, <2>2 DEF Begin
<1>11. ASSUME NEW t \in Tasks,
              \/ AllocPanic(t) \/ AllocNoSpace(t) \/ AllocRoom(t)
              \/ DeleteCheck(t) \/ RenameCheck(t) \/ LookupGet(t)
       PROVE  OnlyLostWithDirectory
  <2>1. /\ UNCHANGED <<inodes, map>> /\ ~At(t, "create_insert")
        /\ ~Removing(t)
        /\ \A u \in Tasks : u # t => call'[u] = call[u]
    BY <1>11 DEF AllocPanic, AllocNoSpace, AllocRoom, DeleteCheck, RenameCheck,
                 LookupGet, At, Removing, Return, Goto, Inductive, TypeOK
  <2>2. QED
    BY <1>3, <2>1
<1>12. QED
  BY <1>1, <1>4, <1>5, <1>6, <1>7, <1>8, <1>9, <1>10, <1>11 DEF Next, Continue

(* However orderly callers interleave, an inode can only get lost with a   *)
(* directory that is no more: one deleted with entries in it, or a new     *)
(* inode linked in a directory that only a handle still knows.             *)
THEOREM LostOnlyWithDirectory ==
  Spec /\ []Orderly /\ [][NoChmodBetween]_vars => LostWithDirectory
<1>1. Inductive /\ OrderlyInductive /\ [Next]_vars
        => [OnlyLostWithDirectory]_vars
  BY LostStep
<1>2. QED
  BY <1>1, Invariance, OrderlyInvariance, PTL DEF Spec, LostWithDirectory

-----------------------------------------------------------------------------
(* Lookups, and calls as single steps.                                     *)

(* While a lookup is between its two locks nobody writes to the map it     *)
(* reads, so the entry it found stays.                                     *)
THEOREM LookupKeepsItsEntry == Spec => []LookupSees
<1>1. Init => LookupSees
  BY DEF Init, LookupSees, At
<1>2. Inductive /\ LookupSees /\ [Next]_vars => LookupSees'
  <2> SUFFICES ASSUME Inductive, LookupSees, [Next]_vars,
                      NEW u \in Tasks, At(u, "lookup_get")'
               PROVE  \E n \in DOMAIN Entries(u)' :
                        Entries(u)'[n].inode = call'[u].inode
    BY DEF LookupSees
  <2> DEFINE Untouched == /\ call'[u] = call[u] /\ handle'[u] = handle[u]
                          /\ map'[Dir(u)] = map[Dir(u)]
  <2>1. CASE Untouched
    BY <2>1 DEF LookupSees, Entries, Dir, At
  <2>2. CASE UNCHANGED vars
    BY <2>1, <2>2 DEF vars
  <2>3. ASSUME NEW t \in Tasks, Begin(t)
        PROVE  \E n \in DOMAIN Entries(u)' :
                 Entries(u)'[n].inode = call'[u].inode
    <3>1. CASE \E d \in DOMAIN inodes, flags \in FlagSets : Open(t, d, flags)
      <4>1. /\ UNCHANGED call /\ call[t].at = "idle"
            /\ \A w \in Tasks : w # t => handle'[w] = handle[w]
        BY <3>1 DEF Open, Idle, Inductive, TypeOK
      <4>2. u # t
        BY <4>1 DEF At
      <4>3. map'[Dir(u)] = map[Dir(u)]
        BY <3>1, <4>1, <4>2, HandleFacts DEF Open, Kept, Restrict, Dir
      <4>4. QED
        BY <2>1, <4>1, <4>2, <4>3
    <3>2. CASE \E n \in Names : LookupFind(t, n)
      <4>1. PICK n \in Names : LookupFind(t, n)
        BY <3>2
      <4>2. /\ UNCHANGED <<map, handle>>
            /\ \A w \in Tasks : w # t => call'[w] = call[w]
        BY <4>1 DEF LookupFind, Return, Goto, Inductive, TypeOK
      <4>3. CASE u # t
        BY <2>1, <4>2, <4>3
      <4>4. CASE u = t
        <5>1. /\ n \in DOMAIN Entries(u)
              /\ call'[u].inode = Entries(u)[n].inode
          BY <4>1, <4>4
             DEF LookupFind, Return, Goto, Inductive, TypeOK, At
        <5>2. QED
          BY <4>2, <5>1 DEF Entries, Dir
      <4>5. QED
        BY <4>3, <4>4
    <3>3. CASE \/ Denied(t)
               \/ \E n \in Names :
                    \/ \E o \in NewObjects : CreateFind(t, n, o)
                    \/ DeleteFind(t, n)
                    \/ \E m \in Names : RenameFind(t, n, m)
      <4>1. UNCHANGED <<map, handle>>
        BY <3>3 DEF Denied, CreateFind, DeleteFind, RenameFind
      <4>2. /\ call'[t].at # "lookup_get"
            /\ \A w \in Tasks : w # t => call'[w] = call[w]
        BY <3>3 DEF Denied, CreateFind, DeleteFind, RenameFind, Return, Goto,
                    Inductive, TypeOK
      <4>3. QED
        BY <2>1, <4>1, <4>2 DEF At
    <3>4. QED
      BY <2>3, <3>1, <3>2, <3>3 DEF Begin
  <2>4. ASSUME NEW t \in Tasks, Continue(t)
        PROVE  \E n \in DOMAIN Entries(u)' :
                 Entries(u)'[n].inode = call'[u].inode
    <3>1. /\ handle' = handle
          /\ \A w \in Tasks : w # t => call'[w] = call[w]
          /\ call'[t].at # "lookup_get"
      <4>1. handle' = handle
        BY <2>4 DEF Continue, AllocPanic, AllocNoSpace, AllocRoom, AllocInode,
                    CreateInsert, DeleteCheck, DeleteUnlink, DeleteInode,
                    DeleteRemove, RenameCheck, RenameMove, LookupGet
      <4>2. ASSUME NEW c, Goto(t, c), c.at # "lookup_get"
            PROVE  /\ \A w \in Tasks : w # t => call'[w] = call[w]
                   /\ call'[t].at # "lookup_get"
        BY <4>2 DEF Goto, Inductive, TypeOK
      <4>3. CASE \E r : Return(t, r)
        <5>1. PICK r : Goto(t, [at |-> "idle", result |-> r])
          BY <4>3 DEF Return
        <5>2. QED
          BY <4>1, <4>2, <5>1
      <4>4. CASE AllocPanic(t)
        <5>1. Goto(t, [at |-> "panicked"])
          BY <4>4 DEF AllocPanic
        <5>2. QED
          BY <4>1, <4>2, <5>1
      <4>5. CASE AllocInode(t)
        <5>1. \E n, i, k : Goto(t, [at |-> "create_insert", name |-> n,
                                    inode |-> i, kind |-> k])
          BY <4>5 DEF AllocInode
        <5>2. QED
          BY <4>1, <4>2, <5>1
      <4>6. CASE \E i : Goto(t, [at |-> "delete_inode", inode |-> i])
        BY <4>1, <4>2, <4>6
      <4>7. CASE /\ \/ At(t, "delete_check") \/ At(t, "delete_inode")
                    \/ At(t, "rename_check") \/ At(t, "create_inode")
                 /\ \E l \in {"delete_unlink", "delete_remove",
                              "rename_move", "create_store"} :
                      Goto(t, [call[t] EXCEPT !.at = l])
        <5>1. PICK l \in {"delete_unlink", "delete_remove", "rename_move",
                           "create_store"} :
                Goto(t, [call[t] EXCEPT !.at = l])
          BY <4>7
        <5>2. [call[t] EXCEPT !.at = l].at = l
          BY <4>7, CallLocals DEF Inductive
        <5>3. QED
          BY <4>1, <4>2, <5>1, <5>2
      <4>8. QED
        <5>1. CASE DeleteCheck(t)
          BY <4>3, <4>7, <5>1 DEF DeleteCheck
        <5>2. CASE DeleteInode(t)
          BY <4>3, <4>7, <5>2 DEF DeleteInode
        <5>3. CASE RenameCheck(t)
          BY <4>3, <4>7, <5>3 DEF RenameCheck
        <5>4. CASE DeleteUnlink(t)
          BY <4>3, <4>6, <5>4 DEF DeleteUnlink
        <5>5. CASE \/ AllocNoSpace(t) \/ CreateInsert(t) \/ DeleteRemove(t)
                   \/ RenameMove(t) \/ LookupGet(t)
          BY <4>3, <5>5 DEF AllocNoSpace, CreateInsert, DeleteRemove,
                            RenameMove, LookupGet
        <5>6. CASE AllocRoom(t)
          BY <4>7, <5>6 DEF AllocRoom
        <5>7. QED
          BY <2>4, <4>4, <4>5, <5>1, <5>2, <5>3, <5>4, <5>5, <5>6 DEF Continue
    <3>2. u # t
      BY <3>1 DEF At
    <3>3. At(u, "lookup_get") /\ Dir(u) \in DOMAIN map
      BY <3>1, <3>2, HandleFacts DEF At
    <3>4. CASE UNCHANGED map
      BY <2>1, <3>1, <3>2, <3>4
    <3>5. CASE AllocInode(t)
      <4>1. \A d \in DOMAIN map : d # counter
        BY DEF Inductive, TypeOK, CounterAhead
      <4>2. map'[Dir(u)] = map[Dir(u)]
        BY <3>3, <3>5, <4>1 DEF AllocInode, NextNumber, Insert
      <4>3. QED
        BY <2>1, <3>1, <3>2, <4>2
    <3>6. CASE CreateInsert(t) \/ DeleteUnlink(t) \/ RenameMove(t)
      <4>1. Dir(u) # Dir(t)
        BY <3>3, <3>6 DEF CreateInsert, DeleteUnlink, RenameMove, Unread
      <4>2. \/ map' = map
            \/ \E m : map' = [map EXCEPT ![Dir(t)] = m]
        BY <3>6 DEF CreateInsert, DeleteUnlink, RenameMove
      <4>3. map'[Dir(u)] = map[Dir(u)]
        BY <3>3, <4>1, <4>2
      <4>4. QED
        BY <2>1, <3>1, <3>2, <4>3
    <3>7. CASE DeleteRemove(t)
      <4>1. map'[Dir(u)] = map[Dir(u)]
        BY <3>3, <3>7 DEF DeleteRemove, Kept, Restrict, Dir
      <4>2. QED
        BY <2>1, <3>1, <3>2, <4>1
    <3>8. QED
      BY <2>4, <3>4, <3>5, <3>6, <3>7
         DEF Continue, AllocPanic, AllocNoSpace, AllocRoom, DeleteCheck,
             DeleteInode, RenameCheck, LookupGet
  <2>5. ASSUME NEW i, NEW grants, Chmod(i, grants)
        PROVE  \E n \in DOMAIN Entries(u)' :
                 Entries(u)'[n].inode = call'[u].inode
    BY <2>1, <2>5 DEF Chmod
  <2>6. QED
    BY <2>2, <2>3, <2>4, <2>5 DEF Next
<1>3. QED
  BY <1>1, <1>2, Invariance, PTL DEF Spec

(* What orderly callers find by a lookup they get, however many deletes    *)
(* and renames go on around it.                                            *)
THEOREM LookupsAnswer ==
  Spec /\ []Orderly /\ [][NoChmodBetween]_vars => []LookupSucceeds
<1>1. Inductive /\ LookupSees /\ NoDanglingEntry => LookupSucceeds
  BY HandleFacts DEF LookupSees, NoDanglingEntry, LookupSucceeds
<1>2. QED
  BY <1>1, Invariance, LookupKeepsItsEntry, NamesLeadSomewhere, PTL

(* Orderly callers see a namespace that changes by whole calls.            *)
THEOREM CallsAreAtomic ==
  Spec /\ []Orderly /\ [][NoChmodBetween]_vars => ImplementsTree
<1>1. Inductive /\ Orderly /\ OrderlyInductive /\ [Next]_vars
        /\ [NoChmodBetween]_vars => [Tree!Next]_(Tree!tvars)
  BY OrderlyStep
<1>2. QED
  BY <1>1, OrderlyInit, Invariance, OrderlyInvariance, PTL
     DEF Spec, ImplementsTree, Tree!Spec

(* A caller with nobody beside it is orderly without trying, so to it the  *)
(* calls are atomic whatever it does, as long as nobody changes the rights *)
(* on the object of its call.                                              *)
THEOREM SingleCallerIsOrderly ==
  ASSUME \A t, u \in Tasks : t = u
  PROVE  /\ Spec => []Orderly
         /\ Spec /\ [][NoChmodBetween]_vars => ImplementsTree
<1>1. Inductive => Orderly
  <2> SUFFICES ASSUME Inductive PROVE Orderly
    OBVIOUS
  <2>1. ASSUME NEW t \in Tasks PROVE Dir(t) \notin Creating
    <3> SUFFICES ASSUME NEW u \in Tasks, At(u, "create_insert"),
                        Dir(t) = call[u].inode
                 PROVE  FALSE
      BY DEF Creating
    <3>1. Dir(t) < Dir(t) /\ Dir(t) \in Ino
      BY CallLocals DEF Inductive, PendingUnlinked
    <3>2. QED
      BY <3>1 DEF Ino
  <2>2. QED
    BY <2>1 DEF Orderly
<1>2. QED
  BY <1>1, Invariance, CallsAreAtomic, PTL
=============================================================================
