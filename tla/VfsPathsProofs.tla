-------------------------- MODULE VfsPathsProofs --------------------------
(***************************************************************************)
(* Proofs about VfsPaths, for any contexts, names, paths and mounts.       *)
(***************************************************************************)
EXTENDS VfsPaths, SequenceTheorems, TLAPS

(* Objects are only added: what is made keeps its kind and its place. *)
Grows ==
  /\ Made \subseteq Made'
  /\ \A o \in Made : /\ object'[o].kind = object[o].kind
                     /\ object'[o].above = object[o].above

LEMMA TopsStay ==
  ASSUME Grows
  PROVE  /\ Tops \subseteq Tops'
         /\ \A o \in Made : o \in Tops' => o \in Tops
         /\ \A o \in Made : IsDirectory(o)' <=> IsDirectory(o)
BY DEF Grows, Tops, IsDirectory, Made

(* Making an object leaves the others alone and gives it the next number.   *)
LEMMA MakeGrows ==
  ASSUME TreeTypes, NEW kind \in Kind, NEW rights \in Grants,
         NEW above \in SUBSET Made, Make(kind, rights, above)
  PROVE  /\ Grows
         /\ object' \in Seq([kind: Kind, rights: Grants, above: SUBSET Objects])
         /\ Len(object') \in Objects \ Made
         /\ Len(object') <= MaxObjects
         /\ Made' = Made \cup {Len(object')}
         /\ object'[Len(object')] = [kind |-> kind, rights |-> rights,
                                     above |-> above \cup {Len(object')}]
<1> DEFINE R == [kind: Kind, rights: Grants, above: SUBSET Objects]
           o == Len(object) + 1
           new == [kind |-> kind, rights |-> rights, above |-> above \cup {o}]
<1>1. object \in Seq(R) /\ Len(object) \in Nat /\ MaxObjects \in Nat
  BY ContextsAssumption DEF TreeTypes
<1>2. Made = 1 .. Len(object)
  BY <1>1 DEF Made
<1>3. o \in Objects /\ object' = Append(object, new)
  BY DEF Make
<1>4. Made \subseteq Objects
  BY <1>1, <1>2, <1>3 DEF Objects
<1>5. new \in R
  BY <1>3, <1>4
<1> HIDE DEF R, new
<1>6. /\ object' \in Seq(R)
      /\ Len(object') = o
      /\ Made' = 1 .. o
      /\ object'[o] = new
      /\ \A i \in 1 .. Len(object) : object'[i] = object[i]
  BY <1>1, <1>3, <1>5 DEF Made
<1>7. o \notin Made /\ Made' = Made \cup {o}
  BY <1>1, <1>2, <1>6
<1>8. Grows
  BY <1>2, <1>6, <1>7 DEF Grows
<1>9. o <= MaxObjects
  BY <1>1, <1>3 DEF Objects
<1>10. QED
  BY <1>3, <1>6, <1>7, <1>8, <1>9 DEF R, new

(* Contexts and walks, left alone, keep what holds of them while the tree   *)
(* grows.                                                                  *)
LEMMA CallsStay ==
  ASSUME Inductive, Grows, UNCHANGED <<root, call>>
  PROVE  CallTypes' /\ ChrootsAllowed' /\ WalkStaysBelow' /\ RootsAreDirectories'
<1> USE DEF Inductive, TypeOK
<1>1. Walks \subseteq Walks'
  BY DEF Walks, Grows
<1>2. Calls \subseteq Calls'
  BY <1>1 DEF Calls
<1>4. \A c \in Contexts : ~Idle(c) => call[c].walk.current \in Made
  BY DEF CallTypes, Calls, Answers, Answer, Walks, Idle
<1>3. CallTypes'
  <2>1. call' \in [Contexts -> Calls'] /\ root' \in [Contexts -> Made' \cup {NoObject}]
    BY <1>2 DEF CallTypes, Grows
  <2>2. \A c \in Contexts : Inside(c) => IsDirectory(call[c].walk.current)'
    BY <1>4 DEF CallTypes, Inside, At, Idle, IsDirectory, Grows
  <2>3. QED
    BY <2>1, <2>2 DEF CallTypes, Entering, Inside
<1>5. WalkStaysBelow'
  <2> SUFFICES ASSUME NEW c \in Contexts, ~Idle(c)'
               PROVE  (LET w == call[c].walk
                       IN  /\ w.base \in object[w.current].above
                           /\ w.base \in Tops \cup {root[c]})'
    BY DEF WalkStaysBelow
  <2>1. ~Idle(c) /\ call[c].walk.current \in Made
    BY <1>4 DEF Idle
  <2>2. /\ call[c].walk.base \in object[call[c].walk.current].above
        /\ call[c].walk.base \in Tops \cup {root[c]}
    BY <2>1 DEF WalkStaysBelow
  <2>3. object'[call[c].walk.current].above = object[call[c].walk.current].above
    BY <2>1 DEF Grows
  <2>4. QED
    BY <2>2, <2>3, TopsStay
<1>6. RootsAreDirectories'
  BY TopsStay DEF RootsAreDirectories, CallTypes
<1>7. ChrootsAllowed'
  BY DEF ChrootsAllowed, Idle
<1>8. QED
  BY <1>3, <1>5, <1>6, <1>7

-----------------------------------------------------------------------------
(* Steps on mounts and trees.                                              *)

LEMMA MountStep ==
  ASSUME Inductive, NEW name, Mount(name)
  PROVE  Inductive'
<1>0. PICK o : o = Len(object')
  OBVIOUS
<1> USE DEF Inductive, TypeOK
<1>1. /\ Make("Directory", {}, {})
      /\ entry' = Insert(entry, o, EmptyMap)
      /\ fresh' = fresh \cup {o}
      /\ UNCHANGED <<registry, mounts, root, call>>
  BY <1>0 DEF Mount
<1>2. /\ Grows
      /\ object' \in Seq([kind: Kind, rights: Grants, above: SUBSET Objects])
      /\ o \in Objects \ Made /\ o <= MaxObjects
      /\ Made' = Made \cup {o}
      /\ object'[o] = [kind |-> "Directory", rights |-> {}, above |-> {o}]
  <2>1. {} \in SUBSET Made /\ {} \in Grants /\ "Directory" \in Kind
    BY ContextsAssumption DEF Kind
  <2>2. {} \cup {o} = {o}
    OBVIOUS
  <2>3. QED
    BY <1>0, <1>1, <2>1, <2>2, MakeGrows
<1>3. o \in Tops' /\ IsDirectory(o)' /\ Tops' = Tops \cup {o}
  <2>1. o \in Tops' /\ IsDirectory(o)'
    BY <1>2 DEF Tops, IsDirectory
  <2>2. Tops' \subseteq Tops \cup {o}
    BY <1>2, TopsStay DEF Tops
  <2>3. QED
    BY <1>2, <2>1, <2>2, TopsStay
<1>4. \A p \in DOMAIN mounts : mounts[p] \in Made
  BY DEF TreeTypes, Tops
<1>5. /\ DOMAIN entry' = DOMAIN entry \cup {o}
      /\ entry'[o] = EmptyMap /\ DOMAIN EmptyMap = {}
      /\ \A d \in DOMAIN entry : entry'[d] = entry[d]
  <2>1. o \notin DOMAIN entry
    BY <1>2 DEF TreeTypes
  <2>2. QED
    BY <1>1, <2>1 DEF Insert, EmptyMap
<1>6. \A q \in Made : object'[q].above = object[q].above /\ object[q].above \subseteq Made
  BY <1>2 DEF Grows, TreeTypes
<1>7. TreeTypes'
  <2>1. /\ (registry \subseteq ObsNames)'
        /\ (DOMAIN mounts \subseteq MountPaths)'
    BY <1>1 DEF TreeTypes
  <2>2. /\ (\A p \in DOMAIN mounts : mounts[p] \in Tops /\ IsDirectory(mounts[p]))'
        /\ (\A p \in DOMAIN mounts : mounts[p] \notin fresh)'
    <3>1. \A p \in DOMAIN mounts : /\ mounts[p] \in Made /\ mounts[p] \in Tops
                                   /\ mounts[p] \notin fresh /\ IsDirectory(mounts[p])
      BY <1>4 DEF TreeTypes
    <3>2. \A p \in DOMAIN mounts : mounts[p] # o /\ mounts[p] \in Tops'
      BY <1>2, <1>3, <3>1
    <3>3. \A p \in DOMAIN mounts : object'[mounts[p]].kind = "Directory"
      BY <1>2, <3>1 DEF Grows, IsDirectory
    <3>4. QED
      BY <1>1, <3>1, <3>2, <3>3 DEF IsDirectory
  <2>7. (fresh \subseteq {q \in Tops : IsDirectory(q)})'
    <3>1. \A q \in fresh : q \in Tops /\ q \in Made /\ IsDirectory(q)
      BY DEF TreeTypes, Tops
    <3>2. QED
      BY <1>1, <1>2, <1>3, <3>1 DEF IsDirectory, Grows
  <2>3. (\A q \in Made : q \in object[q].above /\ object[q].above \subseteq Made)'
    BY <1>2, <1>6 DEF TreeTypes
  <2>4. (DOMAIN entry = {q \in Made : IsDirectory(q)})'
    <3>1. DOMAIN entry = {q \in Made : IsDirectory(q)}
      BY DEF TreeTypes
    <3>2. QED
      BY <1>2, <1>3, <1>5, <3>1, TopsStay
  <2>5. (\A d \in DOMAIN entry :
           /\ DOMAIN entry[d] \subseteq Names
           /\ \A n \in DOMAIN entry[d] : entry[d][n] \in Made)'
    BY <1>2, <1>5 DEF TreeTypes
  <2>6. QED
    BY <1>0, <1>2, <2>1, <2>2, <2>3, <2>4, <2>5, <2>7 DEF TreeTypes
<1>8. EntriesDescend'
  <2>1. \A d \in DOMAIN entry : d \in Made /\ \A n \in DOMAIN entry[d] : entry[d][n] \in Made
    BY DEF TreeTypes
  <2>2. QED
    BY <1>5, <1>6, <2>1 DEF EntriesDescend
<1>9. OneTop'
  <2>1. (\A q \in Made : \A t, u \in Tops \cap object[q].above : t = u)'
    <3>1. \A q \in Made : Tops' \cap object'[q].above = Tops \cap object[q].above
      BY <1>2, <1>3, <1>6
    <3>2. QED
      BY <1>2, <3>1 DEF OneTop
  <2>2. QED
    BY <1>1, <2>1 DEF OneTop
<1>10. QED
  BY <1>1, <1>2, <1>7, <1>8, <1>9, CallsStay

(* The tree and the table are left alone. *)
LEMMA TreeStays ==
  ASSUME Inductive, UNCHANGED <<registry, fresh, mounts, object, entry>>
  PROVE  TreeTypes' /\ EntriesDescend' /\ OneTop' /\ Grows
BY DEF Inductive, TypeOK, TreeTypes, EntriesDescend, OneTop, Grows, Tops,
       IsDirectory, Made

LEMMA AttachStep ==
  ASSUME Inductive, NEW path \in MountPaths, NEW o \in fresh, Attach(o, path)
  PROVE  Inductive'
<1>1. /\ DOMAIN mounts' = DOMAIN mounts \cup {path}
      /\ mounts'[path] = o
      /\ \A p \in DOMAIN mounts : mounts'[p] = mounts[p] /\ p # path
      /\ fresh' = fresh \ {o}
      /\ UNCHANGED <<registry, object, entry, root, call>>
  BY DEF Attach, Insert
<1>2. o \in Tops /\ IsDirectory(o) /\ \A p \in DOMAIN mounts : mounts[p] # o
  BY DEF Inductive, TypeOK, TreeTypes
<1>3. Made' = Made /\ Tops' = Tops /\ \A q : IsDirectory(q)' <=> IsDirectory(q)
  BY <1>1 DEF Made, Tops, IsDirectory
<1>4. TreeTypes'
  <2>1. (\A p \in DOMAIN mounts : /\ mounts[p] \in Tops /\ IsDirectory(mounts[p])
                                 /\ mounts[p] \notin fresh)'
    BY <1>1, <1>2, <1>3 DEF Inductive, TypeOK, TreeTypes
  <2>2. QED
    BY <1>1, <1>3, <2>1 DEF Inductive, TypeOK, TreeTypes
<1>5. OneTop'
  <2>1. (\A p, q \in DOMAIN mounts : mounts[p] = mounts[q] => p = q)'
    BY <1>1, <1>2 DEF Inductive, OneTop
  <2>2. QED
    BY <1>1, <1>3, <2>1 DEF Inductive, OneTop
<1>6. EntriesDescend' /\ Grows
  BY <1>1, <1>3 DEF Inductive, EntriesDescend, Grows
<1>7. QED
  BY <1>1, <1>4, <1>5, <1>6, CallsStay DEF Inductive, TypeOK

LEMMA RegisterStep ==
  ASSUME Inductive, NEW name \in ObsNames, Register(name)
  PROVE  Inductive'
<1>1. TreeTypes' /\ EntriesDescend' /\ OneTop' /\ Grows
  BY DEF Register, Inductive, TypeOK, TreeTypes, EntriesDescend, OneTop, Grows,
         Tops, IsDirectory, Made
<1>2. QED
  BY <1>1, CallsStay DEF Register, Inductive, TypeOK

LEMMA UnmountStep ==
  ASSUME Inductive, NEW path, Unmount(path)
  PROVE  Inductive'
<1>1. /\ DOMAIN mounts' \subseteq DOMAIN mounts
      /\ \A p \in DOMAIN mounts' : mounts'[p] = mounts[p]
      /\ UNCHANGED <<registry, fresh, object, entry, root, call>>
  BY DEF Unmount, Remove, Restrict
<1>2. TreeTypes' /\ EntriesDescend' /\ OneTop' /\ Grows
  BY <1>1 DEF Inductive, TypeOK, TreeTypes, EntriesDescend, OneTop, Grows,
              Tops, IsDirectory, Made
<1>3. QED
  BY <1>1, <1>2, CallsStay DEF Inductive, TypeOK

LEMMA CreateStep ==
  ASSUME Inductive, NEW d \in DOMAIN entry, NEW n \in Names, NEW kind \in Kind,
         NEW rights \in Grants, Create(d, n, kind, rights)
  PROVE  Inductive'
<1>0. PICK o : o = Len(object')
  OBVIOUS
<1> DEFINE above == object[d].above
           linked == [entry EXCEPT ![d] = Insert(@, n, o)]
<1> USE DEF Inductive, TypeOK
<1>1. /\ Make(kind, rights, above)
      /\ entry' = IF kind = "Directory" THEN Insert(linked, o, EmptyMap) ELSE linked
      /\ UNCHANGED <<registry, fresh, mounts, root, call>>
  BY <1>0 DEF Create
<1>2. d \in Made /\ above \subseteq Made /\ d \in above
  BY DEF TreeTypes
<1>3. /\ Grows
      /\ object' \in Seq([kind: Kind, rights: Grants, above: SUBSET Objects])
      /\ o \in Objects \ Made /\ o <= MaxObjects
      /\ Made' = Made \cup {o}
      /\ object'[o] = [kind |-> kind, rights |-> rights, above |-> above \cup {o}]
  BY <1>0, <1>1, <1>2, MakeGrows
<1>4. \A q \in Made : /\ object'[q].above = object[q].above
                      /\ object[q].above \subseteq Made
                      /\ q \in object[q].above
  BY <1>3 DEF Grows, TreeTypes
<1>5. Tops' = Tops
  <2>1. o \notin Tops'
    BY <1>2, <1>3 DEF Tops
  <2>2. QED
    BY <1>3, <2>1, TopsStay DEF Tops
<1>6. o \notin DOMAIN entry /\ o # d
  BY <1>3 DEF TreeTypes
<1>7. /\ DOMAIN linked = DOMAIN entry
      /\ DOMAIN linked[d] = DOMAIN entry[d] \cup {n}
      /\ linked[d][n] = o
      /\ \A m \in DOMAIN entry[d] \ {n} : linked[d][m] = entry[d][m]
      /\ \A e \in DOMAIN entry \ {d} : linked[e] = entry[e]
  BY DEF Insert
<1> HIDE DEF linked, above
<1>8. /\ DOMAIN entry' = DOMAIN entry \cup (IF kind = "Directory" THEN {o} ELSE {})
      /\ \A e \in DOMAIN entry : entry'[e] = linked[e]
      /\ o \in DOMAIN entry' => DOMAIN entry'[o] = {}
  BY <1>1, <1>6, <1>7 DEF Insert, EmptyMap
<1>9. \A e \in DOMAIN entry' : \A m \in DOMAIN entry'[e] :
        \/ e = d /\ m = n /\ entry'[e][m] = o
        \/ e \in DOMAIN entry /\ m \in DOMAIN entry[e] /\ entry'[e][m] = entry[e][m]
  BY <1>6, <1>7, <1>8
<1>10. \A e \in DOMAIN entry : e \in Made /\ \A m \in DOMAIN entry[e] :
         entry[e][m] \in Made /\ m \in Names
  BY DEF TreeTypes
<1>11. TreeTypes'
  <2>1. (\A p \in DOMAIN mounts : mounts[p] \in Tops /\ IsDirectory(mounts[p]))'
    <3>1. \A p \in DOMAIN mounts : mounts[p] \in Tops /\ IsDirectory(mounts[p])
                                   /\ mounts[p] \in Made
      BY DEF TreeTypes, Tops
    <3>2. QED
      BY <1>1, <1>3, <1>5, <3>1, TopsStay
  <2>2. (\A q \in Made : q \in object[q].above /\ object[q].above \subseteq Made)'
    BY <1>2, <1>3, <1>4 DEF above
  <2>3. (DOMAIN entry = {q \in Made : IsDirectory(q)})'
    <3>1. DOMAIN entry = {q \in Made : IsDirectory(q)}
      BY DEF TreeTypes
    <3>2. IsDirectory(o)' <=> kind = "Directory"
      BY <1>3 DEF IsDirectory
    <3>3. QED
      BY <1>3, <1>8, <3>1, <3>2, TopsStay
  <2>4. (\A e \in DOMAIN entry :
           /\ DOMAIN entry[e] \subseteq Names
           /\ \A m \in DOMAIN entry[e] : entry[e][m] \in Made)'
    BY <1>3, <1>9, <1>10
  <2>5. (registry \subseteq ObsNames /\ DOMAIN mounts \subseteq MountPaths)'
    BY <1>1 DEF TreeTypes
  <2>7. /\ (fresh \subseteq {q \in Tops : IsDirectory(q)})'
        /\ (\A p \in DOMAIN mounts : mounts[p] \notin fresh)'
    <3>1. \A q \in fresh : q \in Tops /\ q \in Made /\ IsDirectory(q)
      BY DEF TreeTypes, Tops
    <3>2. QED
      BY <1>1, <1>5, <3>1, TopsStay, <1>3 DEF TreeTypes
  <2>6. QED
    BY <1>0, <1>3, <2>1, <2>2, <2>3, <2>4, <2>5, <2>7 DEF TreeTypes
<1>12. EntriesDescend'
  <2> SUFFICES ASSUME NEW e \in DOMAIN entry', NEW m \in DOMAIN entry'[e]
               PROVE  object'[e].above \subseteq object'[entry'[e][m]].above
    BY DEF EntriesDescend
  <2>1. CASE e = d /\ entry'[e][m] = o
    BY <1>2, <1>3, <1>4, <2>1 DEF above
  <2>2. CASE e \in DOMAIN entry /\ m \in DOMAIN entry[e] /\ entry'[e][m] = entry[e][m]
    BY <1>4, <1>10, <2>2 DEF EntriesDescend
  <2>3. QED
    BY <1>9, <2>1, <2>2
<1>13. OneTop'
  <2>1. (\A q \in Made : \A t, u \in Tops \cap object[q].above : t = u)'
    <3>1. \A q \in Made : \A t, u \in Tops \cap object[q].above : t = u
      BY DEF OneTop
    <3>2. \A t, u \in Tops \cap object'[o].above : t = u
      BY <1>2, <1>3, <3>1 DEF Tops, above
    <3>3. QED
      BY <1>3, <1>4, <1>5, <3>1, <3>2
  <2>2. QED
    BY <1>1, <2>1 DEF OneTop
<1>14. QED
  BY <1>1, <1>3, <1>11, <1>12, <1>13, CallsStay

(* A step that changes one directory and makes nothing: every name in it    *)
(* leads where some name led before.                                       *)
LEMMA Relinked ==
  ASSUME Inductive, NEW d \in DOMAIN entry, NEW map,
         entry' = [entry EXCEPT ![d] = map],
         DOMAIN map \subseteq Names,
         \A n \in DOMAIN map : \E m \in DOMAIN entry[d] : map[n] = entry[d][m],
         UNCHANGED <<registry, fresh, mounts, object, root, call>>
  PROVE  Inductive'
<1> USE DEF Inductive, TypeOK
<1>1. /\ DOMAIN entry' = DOMAIN entry
      /\ entry'[d] = map
      /\ \A e \in DOMAIN entry \ {d} : entry'[e] = entry[e]
  OBVIOUS
<1>2. Grows /\ Made' = Made /\ Tops' = Tops
  BY DEF Grows, Made, Tops
<1>3. TreeTypes'
  BY <1>1, <1>2 DEF TreeTypes, IsDirectory
<1>4. EntriesDescend'
  BY <1>1 DEF EntriesDescend
<1>5. OneTop'
  BY <1>2 DEF OneTop
<1>6. QED
  BY <1>2, <1>3, <1>4, <1>5, CallsStay

LEMMA DeleteStep ==
  ASSUME Inductive, NEW d \in DOMAIN entry, NEW n \in Names, Delete(d, n)
  PROVE  Inductive'
<1>0. PICK map : map = Remove(entry[d], n)
  OBVIOUS
<1>1. /\ DOMAIN map \subseteq DOMAIN entry[d]
      /\ \A m \in DOMAIN map : map[m] = entry[d][m]
  BY <1>0 DEF Remove, Restrict
<1>2. /\ entry' = [entry EXCEPT ![d] = map]
      /\ UNCHANGED <<registry, fresh, mounts, object, root, call>>
  BY <1>0 DEF Delete
<1>3. DOMAIN entry[d] \subseteq Names
  BY DEF Inductive, TypeOK, TreeTypes
<1>4. /\ DOMAIN map \subseteq Names
      /\ \A k \in DOMAIN map : \E j \in DOMAIN entry[d] : map[k] = entry[d][j]
  BY <1>1, <1>3
<1>5. QED
  BY <1>2, <1>4, Relinked

LEMMA RenameStep ==
  ASSUME Inductive, NEW d \in DOMAIN entry, NEW n \in Names, NEW m \in Names,
         Rename(d, n, m)
  PROVE  Inductive'
<1>0. PICK map : map = Remove(Insert(entry[d], m, entry[d][n]), n)
  OBVIOUS
<1>1. n \in DOMAIN entry[d] /\ DOMAIN entry[d] \subseteq Names
  BY DEF Rename, Inductive, TypeOK, TreeTypes
<1>2. /\ DOMAIN map \subseteq DOMAIN entry[d] \cup {m}
      /\ \A k \in DOMAIN map : map[k] = IF k = m THEN entry[d][n] ELSE entry[d][k]
  BY <1>0 DEF Insert, Remove, Restrict
<1>3. /\ entry' = [entry EXCEPT ![d] = map]
      /\ UNCHANGED <<registry, fresh, mounts, object, root, call>>
  BY <1>0 DEF Rename
<1>4. /\ DOMAIN map \subseteq Names
      /\ \A k \in DOMAIN map : \E j \in DOMAIN entry[d] : map[k] = entry[d][j]
  BY <1>1, <1>2
<1>5. QED
  BY <1>3, <1>4, Relinked

LEMMA ChmodStep ==
  ASSUME Inductive, NEW o \in Made, NEW rights \in Grants, Chmod(o, rights)
  PROVE  Inductive'
<1> DEFINE R == [kind: Kind, rights: Grants, above: SUBSET Objects]
           new == [object[o] EXCEPT !.rights = rights]
<1> USE DEF Inductive, TypeOK
<1>1. /\ object' = [object EXCEPT ![o] = new]
      /\ UNCHANGED <<registry, fresh, mounts, entry, root, call>>
  BY DEF Chmod
<1>2. object \in Seq(R) /\ o \in 1 .. Len(object) /\ object[o] \in R
  <2>1. object \in Seq(R)
    BY DEF TreeTypes
  <2> HIDE DEF R
  <2>2. QED
    BY <2>1 DEF Made
<1>3. new \in R /\ new.kind = object[o].kind /\ new.above = object[o].above
  BY <1>2
<1> HIDE DEF R, new
<1>4. /\ object' \in Seq(R)
       /\ Len(object') = Len(object)
       /\ Made' = Made
       /\ \A i \in 1 .. Len(object) : object'[i] = IF i = o THEN new ELSE object[i]
  BY <1>1, <1>2, <1>3, ExceptSeq DEF Made
<1>5. \A q \in Made : /\ object'[q].kind = object[q].kind
                      /\ object'[q].above = object[q].above
  BY <1>2, <1>3, <1>4 DEF Made
<1>6. Grows /\ Tops' = Tops /\ \A q \in Made : IsDirectory(q)' <=> IsDirectory(q)
  BY <1>4, <1>5 DEF Grows, Tops, IsDirectory
<1>7. TreeTypes'
  <2>1. /\ \A p \in DOMAIN mounts : mounts[p] \in Made
        /\ \A q \in fresh : q \in Made
    BY DEF TreeTypes, Tops
  <2>2. /\ (\A p \in DOMAIN mounts : mounts[p] \in Tops /\ IsDirectory(mounts[p]))'
        /\ (fresh \subseteq {q \in Tops : IsDirectory(q)})'
    <3>1. /\ \A p \in DOMAIN mounts : mounts[p] \in Tops /\ IsDirectory(mounts[p])
          /\ \A q \in fresh : q \in Tops /\ IsDirectory(q)
      BY DEF TreeTypes
    <3>2. QED
      BY <1>1, <1>5, <1>6, <2>1, <3>1 DEF IsDirectory
  <2>3. (DOMAIN entry = {q \in Made : IsDirectory(q)})'
    BY <1>1, <1>4, <1>5 DEF TreeTypes, IsDirectory
  <2>4. (\A q \in Made : q \in object[q].above /\ object[q].above \subseteq Made)'
    BY <1>4, <1>5 DEF TreeTypes
  <2>5. QED
    BY <1>1, <1>4, <2>2, <2>3, <2>4 DEF TreeTypes, R
<1>8. EntriesDescend'
  BY <1>1, <1>5 DEF EntriesDescend, TreeTypes
<1>9. OneTop'
  BY <1>1, <1>4, <1>5, <1>6 DEF OneTop
<1>10. QED
  BY <1>1, <1>6, <1>7, <1>8, <1>9, CallsStay

-----------------------------------------------------------------------------
(* Steps of contexts.                                                      *)

(* A step of one context that leaves every root alone and takes its call   *)
(* to a form the invariant knows.                                          *)
LEMMA Moved ==
  ASSUME Inductive, NEW c \in Contexts, NEW r \in Calls, Goto(c, r),
         r.at \in {"enter", "read", "look"} => r.walk.rest # <<>>,
         r.at \in {"read", "look"} => IsDirectory(r.walk.current),
         r.at # "idle" =>
           /\ r.walk.base \in object[r.walk.current].above
           /\ r.walk.base \in Tops \cup {root[c]}
           /\ r.then = "chroot" => c \in PrivilegedContexts,
         UNCHANGED <<registry, fresh, mounts, object, entry, root>>
  PROVE  Inductive'
<1> USE DEF Inductive, TypeOK
<1>1. TreeTypes' /\ EntriesDescend' /\ OneTop'
  BY TreeStays
<1>2. /\ call' \in [Contexts -> Calls]
      /\ call'[c] = r
      /\ \A d \in Contexts \ {c} : call'[d] = call[d]
  BY DEF CallTypes, Goto
<1>3. Calls' = Calls /\ Made' = Made /\ Tops' = Tops
  BY DEF Calls, Walks, Made, Tops
<1>4. CallTypes'
  BY <1>2, <1>3 DEF CallTypes, Entering, Inside, IsDirectory
<1>5. WalkStaysBelow'
  BY <1>2, <1>3 DEF WalkStaysBelow, Idle
<1>6. RootsAreDirectories'
  BY DEF RootsAreDirectories, IsDirectory
<1>7. ChrootsAllowed'
  BY <1>2 DEF ChrootsAllowed, Idle
<1>8. QED
  BY <1>1, <1>4, <1>5, <1>6, <1>7

LEMMA AnswerForms ==
  ASSUME NEW r \in {"none", "Ok", "PermissionDenied", "InvalidArgument",
                    "NotDirectory", "NotFound"}
  PROVE  Answer(r) \in Calls /\ Answer(r).at = "idle"
BY DEF Answer, Answers, Calls

LEMMA Answered ==
  ASSUME Inductive, NEW c \in Contexts,
         NEW r \in {"none", "Ok", "PermissionDenied", "InvalidArgument",
                    "NotDirectory", "NotFound"},
         Return(c, r), UNCHANGED <<registry, fresh, mounts, object, entry, root>>
  PROVE  Inductive'
<1>1. Answer(r) \in Calls /\ Answer(r).at = "idle" /\ Goto(c, Answer(r))
  BY AnswerForms DEF Return
<1>2. PICK a : a = Answer(r)
  OBVIOUS
<1>3. QED
  BY <1>1, <1>2, Moved

(* What is known of a walk under way. *)
LEMMA WalkForm ==
  ASSUME Inductive, NEW c \in Contexts, ~Idle(c)
  PROVE  /\ call[c].at \in {"mount", "enter", "read", "look"}
         /\ call[c].then \in Then
         /\ call[c].then = "chroot" => c \in PrivilegedContexts
         /\ call[c].walk \in Walks
         /\ call[c].walk.base \in object[call[c].walk.current].above
         /\ call[c].walk.base \in Tops \cup {root[c]}
<1>1. call[c] \in Calls
  BY DEF Inductive, TypeOK, CallTypes
<1>2. call[c] \in [at: {"mount", "enter", "read", "look"}, then: Then, walk: Walks]
  BY <1>1 DEF Calls, Answers, Answer, Idle
<1>3. /\ call[c].then = "chroot" => c \in PrivilegedContexts
      /\ call[c].walk.base \in object[call[c].walk.current].above
      /\ call[c].walk.base \in Tops \cup {root[c]}
  BY DEF Inductive, WalkStaysBelow, ChrootsAllowed
<1>4. QED
  BY <1>2, <1>3

LEMMA NewContextStep ==
  ASSUME Inductive, NEW c \in Contexts, NewContext(c)
  PROVE  Inductive'
<1> USE DEF Inductive, TypeOK
<1>1. PICK t : t = mounts[<<Slash>>]
  OBVIOUS
<1>2. t \in Made /\ IsDirectory(t)
  BY <1>1 DEF NewContext, TreeTypes, Tops
<1>3. /\ root' = [root EXCEPT ![c] = t]
      /\ Idle(c)
      /\ UNCHANGED <<registry, fresh, mounts, object, entry, call>>
  BY <1>1 DEF NewContext
<1>4. TreeTypes' /\ EntriesDescend' /\ OneTop'
  BY <1>3, TreeStays
<1>5. Calls' = Calls /\ Made' = Made /\ Tops' = Tops
  BY <1>3 DEF Calls, Walks, Made, Tops
<1>6. CallTypes'
  BY <1>2, <1>3, <1>5 DEF CallTypes, Entering, Inside, IsDirectory
<1>7. \A d \in Contexts \ {c} : root'[d] = root[d]
  BY <1>3 DEF CallTypes
<1>8. WalkStaysBelow'
  BY <1>3, <1>5, <1>7 DEF WalkStaysBelow, Idle
<1>9. RootsAreDirectories'
  BY <1>2, <1>3, <1>7 DEF RootsAreDirectories, IsDirectory, CallTypes
<1>10. ChrootsAllowed'
  BY <1>3 DEF ChrootsAllowed, Idle
<1>11. QED
  BY <1>4, <1>6, <1>8, <1>9, <1>10

LEMMA ResolveStep ==
  ASSUME Inductive, NEW c \in Contexts, NEW path \in Paths, NEW then \in Then,
         Resolve(c, path, then)
  PROVE  Inductive'
<1>1. PICK w : w = Walk(c, path)
  OBVIOUS
<1>2. root[c] \in Made
  BY DEF Resolve, Inductive, TypeOK, CallTypes
<1>3. /\ w \in Walks
      /\ w.base = root[c] /\ w.current = root[c]
  <2>1. Components(path) \in Seq(Names)
    BY ComponentsAssumption DEF Resolve
  <2>2. <<Slash>> \in Seq(Token)
    BY DEF Token
  <2>3. PICK rest, key : rest = Components(path) /\ key = <<Slash>>
    OBVIOUS
  <2>4. w = [rest |-> rest, key |-> key, base |-> root[c], current |-> root[c]]
    BY <1>1, <2>3 DEF Walk
  <2>5. QED
    BY <1>2, <2>1, <2>2, <2>3, <2>4 DEF Walks
<1>4. root[c] \in object[root[c]].above
  BY <1>2 DEF Inductive, TypeOK, TreeTypes
<1>5. PICK r : r = [at |-> "mount", then |-> then, walk |-> w]
  OBVIOUS
<1>6. r \in Calls
  BY <1>3, <1>5 DEF Calls
<1>7. Goto(c, r) /\ UNCHANGED <<registry, fresh, mounts, object, entry, root>>
  BY <1>1, <1>5 DEF Resolve
<1>8. then = "chroot" => c \in PrivilegedContexts
  BY DEF Resolve
<1>9. QED
  BY <1>3, <1>4, <1>5, <1>6, <1>7, <1>8, Moved

LEMMA RefusedStep ==
  ASSUME Inductive, NEW c \in Contexts, NEW path, NEW then, Refused(c, path, then)
  PROVE  Inductive'
BY Answered DEF Refused

LEMMA CheckMountStep ==
  ASSUME Inductive, NEW c \in Contexts, CheckMount(c)
  PROVE  Inductive'
<1>1. PICK w : w = call[c].walk
  OBVIOUS
<1>2. PICK k : k = NextKey(w)
  OBVIOUS
<1>3. ~Idle(c) /\ w.rest # <<>>
  BY <1>1 DEF CheckMount, At, Idle
<1>4. /\ call[c].then \in Then
      /\ call[c].then = "chroot" => c \in PrivilegedContexts
      /\ w \in Walks
      /\ w.base \in object[w.current].above
      /\ w.base \in Tops \cup {root[c]}
  BY <1>1, <1>3, WalkForm
<1>5. /\ w.rest \in Seq(Names) /\ w.key \in Seq(Token)
      /\ w.base \in Made /\ w.current \in Made
  BY <1>4 DEF Walks
<1>6. k \in Seq(Token) /\ Tail(w.rest) \in Seq(Names)
  <2>1. Head(w.rest) \in Names /\ Tail(w.rest) \in Seq(Names)
    BY <1>3, <1>5
  <2>2. <<Slash, Head(w.rest)>> \in Seq(Token)
    BY <2>1 DEF Token
  <2>3. QED
    BY <1>2, <1>5, <2>1, <2>2 DEF NextKey
<1>7. UNCHANGED <<registry, fresh, mounts, object, entry, root>>
  BY DEF CheckMount
<1>8. CASE k \in DOMAIN mounts
  <2>1. PICK t, rest : t = mounts[k] /\ rest = Tail(w.rest)
    OBVIOUS
  <2>2. t \in Tops /\ t \in Made /\ t \in object[t].above
    BY <1>8, <2>1 DEF Inductive, TypeOK, TreeTypes, Tops
  <2>3. PICK v : v = [rest |-> rest, key |-> k, base |-> t, current |-> t]
    OBVIOUS
  <2>4. v \in Walks
    BY <1>6, <2>1, <2>2, <2>3 DEF Walks
  <2>5. PICK r : r = [at |-> "mount", then |-> call[c].then, walk |-> v]
    OBVIOUS
  <2>6. r \in Calls
    BY <1>4, <2>4, <2>5 DEF Calls
  <2>7. Goto(c, r)
    BY <1>1, <1>2, <1>8, <2>1, <2>3, <2>5 DEF CheckMount, On
  <2>8. QED
    BY <1>4, <1>7, <2>2, <2>3, <2>5, <2>6, <2>7, Moved
<1>9. CASE k \notin DOMAIN mounts
  <2>1. PICK v : v = [w EXCEPT !.key = k]
    OBVIOUS
  <2>2. /\ v \in Walks /\ v.rest = w.rest
        /\ v.base = w.base /\ v.current = w.current
    BY <1>4, <1>6, <2>1 DEF Walks
  <2>3. PICK r : r = [at |-> "enter", then |-> call[c].then, walk |-> v]
    OBVIOUS
  <2>4. r \in Calls
    BY <1>4, <2>2, <2>3 DEF Calls
  <2>5. Goto(c, r)
    BY <1>1, <1>2, <1>9, <2>1, <2>3 DEF CheckMount, On
  <2>6. QED
    BY <1>3, <1>4, <1>7, <2>2, <2>3, <2>4, <2>5, Moved
<1>10. QED
  BY <1>8, <1>9

(* What is known of a walk that is about to enter a directory. *)
LEMMA EnteringForm ==
  ASSUME Inductive, NEW c \in Contexts, Entering(c)
  PROVE  LET w == call[c].walk
         IN  /\ call[c].then \in Then
             /\ call[c].then = "chroot" => c \in PrivilegedContexts
             /\ w \in Walks
             /\ w.base \in object[w.current].above
             /\ w.base \in Tops \cup {root[c]}
             /\ w.rest # <<>>
<1>1. ~Idle(c)
  BY DEF Entering, Idle
<1>2. call[c].walk.rest # <<>>
  BY DEF Inductive, TypeOK, CallTypes
<1>3. QED
  BY <1>1, <1>2, WalkForm

(* A permission test that lets a walk on leaves it where it is. *)
LEMMA LetOn ==
  ASSUME Inductive, NEW c \in Contexts, Entering(c), NEW at \in {"read", "look"},
         IsDirectory(call[c].walk.current), Goto(c, On(c, at, call[c].walk)),
         UNCHANGED <<registry, fresh, mounts, object, entry, root>>
  PROVE  Inductive'
<1>1. PICK w, r : w = call[c].walk /\ r = [at |-> at, then |-> call[c].then, walk |-> w]
  OBVIOUS
<1>2. /\ call[c].then \in Then
      /\ call[c].then = "chroot" => c \in PrivilegedContexts
      /\ w \in Walks
      /\ w.base \in object[w.current].above
      /\ w.base \in Tops \cup {root[c]}
      /\ w.rest # <<>>
  BY <1>1, EnteringForm
<1>3. r \in Calls /\ Goto(c, r)
  BY <1>1, <1>2 DEF Calls, On
<1>4. QED
  BY <1>1, <1>2, <1>3, Moved

LEMMA CheckExecuteStep ==
  ASSUME Inductive, NEW c \in Contexts, CheckExecute(c)
  PROVE  Inductive'
<1>1. Entering(c) /\ UNCHANGED <<registry, fresh, mounts, object, entry, root>>
  BY DEF CheckExecute, At, Entering
<1>2. CASE \E r \in {"NotDirectory", "PermissionDenied"} : Return(c, r)
  BY <1>1, <1>2, Answered
<1>3. CASE IsDirectory(call[c].walk.current) /\ Goto(c, On(c, "read", call[c].walk))
  BY <1>1, <1>3, LetOn
<1>4. QED
  BY <1>2, <1>3 DEF CheckExecute

LEMMA CheckReadStep ==
  ASSUME Inductive, NEW c \in Contexts, CheckRead(c)
  PROVE  Inductive'
<1>1. Entering(c) /\ Inside(c) /\ UNCHANGED <<registry, fresh, mounts, object, entry, root>>
  BY DEF CheckRead, At, Entering, Inside
<1>2. IsDirectory(call[c].walk.current)
  BY <1>1 DEF Inductive, TypeOK, CallTypes
<1>3. CASE Return(c, "PermissionDenied")
  BY <1>1, <1>3, Answered
<1>4. CASE Goto(c, On(c, "look", call[c].walk))
  BY <1>1, <1>2, <1>4, LetOn
<1>5. QED
  BY <1>3, <1>4 DEF CheckRead

LEMMA LookStep ==
  ASSUME Inductive, NEW c \in Contexts, Look(c)
  PROVE  Inductive'
<1>1. PICK w : w = call[c].walk
  OBVIOUS
<1>2. Entering(c) /\ IsDirectory(w.current)
  <2>1. Entering(c) /\ Inside(c)
    BY DEF Look, At, Entering, Inside
  <2>2. QED
    BY <1>1, <2>1 DEF Inductive, TypeOK, CallTypes
<1>3. /\ call[c].then \in Then
      /\ call[c].then = "chroot" => c \in PrivilegedContexts
      /\ w \in Walks
      /\ w.base \in object[w.current].above
      /\ w.base \in Tops \cup {root[c]}
      /\ w.rest # <<>>
  BY <1>1, <1>2, EnteringForm
<1>4. UNCHANGED <<registry, fresh, mounts, object, entry, root>>
  BY DEF Look
<1>5. CASE Return(c, "NotFound")
  BY <1>4, <1>5, Answered
<1>6. CASE /\ Head(w.rest) \in DOMAIN entry[w.current]
           /\ Goto(c, On(c, "mount",
                         [w EXCEPT !.rest = Tail(@),
                                   !.current = entry[@][Head(w.rest)]]))
  <2>1. PICK d, o, rest : /\ d = w.current
                          /\ o = entry[d][Head(w.rest)]
                          /\ rest = Tail(w.rest)
    OBVIOUS
  <2>2. /\ w.rest \in Seq(Names) /\ w.base \in Made /\ d \in Made
    BY <1>3, <2>1 DEF Walks
  <2>3. d \in DOMAIN entry
    BY <1>2, <2>1, <2>2 DEF Inductive, TypeOK, TreeTypes
  <2>4. o \in Made /\ object[d].above \subseteq object[o].above
    BY <1>6, <2>1, <2>3 DEF Inductive, TypeOK, TreeTypes, EntriesDescend
  <2>5. rest \in Seq(Names)
    BY <1>3, <2>1, <2>2
  <2>6. PICK v : v = [w EXCEPT !.rest = rest, !.current = o]
    OBVIOUS
  <2>7. v \in Walks /\ v.base = w.base /\ v.current = o
    BY <1>3, <2>4, <2>5, <2>6 DEF Walks
  <2>8. PICK r : r = [at |-> "mount", then |-> call[c].then, walk |-> v]
    OBVIOUS
  <2>9. r \in Calls
    BY <1>3, <2>7, <2>8 DEF Calls
  <2>10. Goto(c, r)
    BY <1>6, <2>1, <2>6, <2>8 DEF On
  <2>11. r.walk.base \in object[r.walk.current].above
    BY <1>3, <2>1, <2>4, <2>7, <2>8
  <2>12. QED
    BY <1>3, <1>4, <2>7, <2>8, <2>9, <2>10, <2>11, Moved
<1>7. QED
  BY <1>1, <1>5, <1>6 DEF Look

LEMMA FoundStep ==
  ASSUME Inductive, NEW c \in Contexts, Found(c)
  PROVE  Inductive'
BY Answered DEF Found

LEMMA ChrootStep ==
  ASSUME Inductive, NEW c \in Contexts, Chroot(c)
  PROVE  Inductive'
<1> USE DEF Inductive, TypeOK
<1>1. CASE Return(c, "NotDirectory") /\ UNCHANGED <<registry, fresh, mounts, object, entry, root>>
  BY <1>1, Answered
<1>2. CASE /\ IsDirectory(call[c].walk.current)
           /\ root' = [root EXCEPT ![c] = call[c].walk.current]
           /\ Return(c, "Ok")
           /\ UNCHANGED <<registry, fresh, mounts, object, entry>>
  <2>1. ~Idle(c)
    BY DEF Chroot, Resolved, At, Idle
  <2>2. PICK o : o = call[c].walk.current
    OBVIOUS
  <2>3. o \in Made /\ IsDirectory(o)
    BY <1>2, <2>1, <2>2, WalkForm DEF Walks
  <2>4. PICK a : a = Answer("Ok")
    OBVIOUS
  <2>5. a \in Calls /\ a.at = "idle"
    BY <2>4, AnswerForms
  <2>6. /\ root' = [root EXCEPT ![c] = o]
        /\ call' = [call EXCEPT ![c] = a]
        /\ UNCHANGED <<registry, fresh, mounts, object, entry>>
    BY <1>2, <2>2, <2>4 DEF Return, Goto
  <2>7. TreeTypes' /\ EntriesDescend' /\ OneTop'
    BY <2>6, TreeStays
  <2>8. Calls' = Calls /\ Made' = Made /\ Tops' = Tops
    BY <2>6 DEF Calls, Walks, Made, Tops
  <2>9. CallTypes'
    BY <2>3, <2>5, <2>6, <2>8 DEF CallTypes, Entering, Inside, IsDirectory
  <2>10. WalkStaysBelow'
    BY <2>5, <2>6, <2>8 DEF WalkStaysBelow, Idle, CallTypes
  <2>11. RootsAreDirectories'
    BY <2>3, <2>6 DEF RootsAreDirectories, IsDirectory, CallTypes
  <2>12. ChrootsAllowed'
    BY <2>5, <2>6 DEF ChrootsAllowed, Idle, CallTypes
  <2>13. QED
    BY <2>7, <2>9, <2>10, <2>11, <2>12
<1>3. QED
  BY <1>1, <1>2 DEF Chroot

-----------------------------------------------------------------------------

LEMMA InitInductive == Init => Inductive
<1> SUFFICES ASSUME Init
             PROVE  Inductive
  OBVIOUS
<1>1. Made = {} /\ DOMAIN mounts = {} /\ DOMAIN entry = {}
  BY DEF Init, Made, EmptyMap
<1>2. \A c \in Contexts : call[c] = Answer("none") /\ Idle(c) /\ root[c] = NoObject
  BY DEF Init, Idle, Answer
<1>3. TreeTypes
  BY <1>1, ContextsAssumption DEF Init, TreeTypes
<1>4. CallTypes
  <2>1. Answer("none") \in Calls
    BY AnswerForms
  <2>2. \A c \in Contexts : ~Entering(c) /\ ~Inside(c)
    BY <1>2 DEF Entering, Inside, Answer
  <2>3. QED
    BY <2>1, <2>2 DEF Init, CallTypes
<1>5. QED
  BY <1>1, <1>2, <1>3, <1>4 DEF Inductive, TypeOK, EntriesDescend, OneTop,
                                ChrootsAllowed, WalkStaysBelow, RootsAreDirectories

LEMMA NextInductive == Inductive /\ [Next]_vars => Inductive'
<1> SUFFICES ASSUME Inductive, [Next]_vars
             PROVE  Inductive'
  OBVIOUS
<1>1. CASE Administer
  BY <1>1, RegisterStep, MountStep, AttachStep, UnmountStep DEF Administer
<1>2. CASE Change
  BY <1>2, CreateStep, DeleteStep, RenameStep, ChmodStep DEF Change
<1>3. CASE \E c \in Contexts : Step(c)
  BY <1>3, NewContextStep, ResolveStep, RefusedStep, CheckMountStep, CheckExecuteStep,
     CheckReadStep, LookStep, FoundStep, ChrootStep DEF Step
<1>4. CASE UNCHANGED vars
  <2>1. TreeTypes' /\ EntriesDescend' /\ OneTop' /\ Grows
    BY <1>4, TreeStays DEF vars
  <2>2. QED
    BY <1>4, <2>1, CallsStay DEF vars, Inductive, TypeOK
<1>5. QED
  BY <1>1, <1>2, <1>3, <1>4 DEF Next

(* The invariant of resolution: mounts, registry, trees and walks keep their *)
(* form, entries descend, every object is below one top, for any contexts,  *)
(* paths, names and number of objects.                                     *)
THEOREM PathsInvariant == Spec => []Inductive
<1>1. QED
  BY InitInductive, NextInductive, PTL DEF Spec

(* resolve_path_with_ctx never leaves the tree it is in: whatever mount,    *)
(* unmount, create, delete, rename and chmod do between its locks, the walk *)
(* is below the root of its context or below a mounted root it came through.*)
THEOREM WalksAreConfined == Spec => []WalkStaysBelow
<1>1. Inductive => WalkStaysBelow
  BY DEF Inductive
<1>2. QED
  BY <1>1, PathsInvariant, PTL

(* chroot and default_context never give a context a root that is not a     *)
(* directory.                                                              *)
THEOREM ContextRootsAreDirectories == Spec => []RootsAreDirectories
<1>1. Inductive => RootsAreDirectories
  BY DEF Inductive
<1>2. QED
  BY <1>1, PathsInvariant, PTL

(* Two mounts share no object, whatever is created or renamed in them.      *)
THEOREM MountsAreApart == Spec => []MountsApart
<1>1. Inductive => MountsApart
  <2> SUFFICES ASSUME Inductive, NEW p \in DOMAIN mounts, NEW q \in DOMAIN mounts,
                      p # q, NEW o \in Made,
                      {mounts[p], mounts[q]} \subseteq object[o].above
               PROVE  FALSE
    BY DEF MountsApart
  <2>1. mounts[p] \in Tops \cap object[o].above /\ mounts[q] \in Tops \cap object[o].above
    BY DEF Inductive, TypeOK, TreeTypes
  <2>2. mounts[p] = mounts[q]
    BY <2>1 DEF Inductive, OneTop
  <2>3. QED
    BY <2>2 DEF Inductive, OneTop
<1>2. QED
  BY <1>1, PathsInvariant, PTL

(* The jail: the root of a context, once given, moves only by chroot, of a   *)
(* privileged context, and only to what is below the old root or below a    *)
(* root the walk came to through a mount.                                  *)
THEOREM RootsOnlyDescend == Spec => RootsStay
<1>1. Inductive /\ [Next]_vars => [Jailed]_vars
  <2> SUFFICES ASSUME Inductive, Next, NEW c \in Contexts,
                      root[c] # NoObject, root'[c] # root[c]
               PROVE  /\ c \in PrivilegedContexts
                      /\ \E o \in object[root'[c]].above :
                           o = root[c] \/ (o \in Tops /\ o = call[c].walk.base)
    BY DEF Jailed
  <2>1. root \in [Contexts -> Made \cup {NoObject}]
    BY DEF Inductive, TypeOK, CallTypes
  <2>2. ~Administer
    BY DEF Administer, Register, Mount, Attach, Unmount
  <2>3. ~Change
    BY DEF Change, Create, Delete, Rename, Chmod
  <2>4. PICK d \in Contexts : Step(d)
    BY <2>2, <2>3 DEF Next
  <2>5. Chroot(d) /\ d = c /\ root'[c] = call[c].walk.current
    BY <2>1, <2>4 DEF Step, NewContext, Resolve, Refused, CheckMount, CheckExecute,
         CheckRead, Look, Found, Chroot
  <2>6. ~Idle(c) /\ call[c].then = "chroot"
    BY <2>5 DEF Chroot, Resolved, At, Idle
  <2>7. QED
    BY <2>5, <2>6, WalkForm
<1>2. QED
  BY <1>1, PathsInvariant, PTL DEF Spec, RootsStay

-----------------------------------------------------------------------------
(* The trees of the mounts.                                                *)

(* Placed and OneName speak of entries and places alone.                   *)
LEMMA ShapeStays ==
  ASSUME Inductive, Placed, OneName, Grows, UNCHANGED entry
  PROVE  Placed' /\ OneName'
BY DEF Inductive, TypeOK, TreeTypes, Placed, OneName, Grows

(* A step after which every name leads where one of the same directory led *)
(* before, and no two of them where one did.                               *)
LEMMA ShapeRelinked ==
  ASSUME Inductive, Placed, OneName, NEW d \in DOMAIN entry, NEW map, NEW was,
         UNCHANGED object, entry' = [entry EXCEPT ![d] = map],
         \A n \in DOMAIN map : was[n] \in DOMAIN entry[d] /\ map[n] = entry[d][was[n]],
         \A n, m \in DOMAIN map : was[n] = was[m] => n = m
  PROVE  Placed' /\ OneName'
<1>1. /\ DOMAIN entry' = DOMAIN entry
      /\ entry'[d] = map
      /\ \A e \in DOMAIN entry \ {d} : entry'[e] = entry[e]
  OBVIOUS
<1>2. Placed'
  BY <1>1 DEF Placed
<1>3. OneName'
  <2> SUFFICES ASSUME NEW e \in DOMAIN entry, NEW f \in DOMAIN entry,
                      NEW n \in DOMAIN entry'[e], NEW m \in DOMAIN entry'[f],
                      entry'[e][n] = entry'[f][m]
               PROVE  e = f /\ n = m
    BY <1>1 DEF OneName
  <2>1. CASE e = d /\ f = d
    BY <1>1, <2>1 DEF OneName
  <2>2. CASE e # d /\ f = d
    BY <1>1, <2>2 DEF OneName
  <2>3. CASE e = d /\ f # d
    BY <1>1, <2>3 DEF OneName
  <2>4. CASE e # d /\ f # d
    BY <1>1, <2>4 DEF OneName
  <2>5. QED
    BY <2>1, <2>2, <2>3, <2>4
<1>4. QED
  BY <1>2, <1>3

(* What mount makes: a directory below nothing, with no entries. *)
LEMMA MountMakes ==
  ASSUME Inductive, NEW name, Mount(name),
         NEW o, o = Len(object')
  PROVE  /\ Grows
         /\ o \in Objects \ Made /\ Made' = Made \cup {o}
         /\ object'[o] = [kind |-> "Directory", rights |-> {}, above |-> {o}]
         /\ DOMAIN entry' = DOMAIN entry \cup {o} /\ o \notin DOMAIN entry
         /\ entry'[o] = EmptyMap /\ DOMAIN EmptyMap = {}
         /\ \A d \in DOMAIN entry : entry'[d] = entry[d]
<1>1. {} \in SUBSET Made /\ {} \in Grants /\ "Directory" \in Kind
  BY ContextsAssumption DEF Kind
<1>2. {} \cup {o} = {o}
  OBVIOUS
<1>3. /\ Grows
      /\ o \in Objects \ Made /\ Made' = Made \cup {o}
      /\ object'[o] = [kind |-> "Directory", rights |-> {}, above |-> {o}]
  BY <1>1, <1>2, MakeGrows DEF Mount, Inductive, TypeOK
<1>4. o \notin DOMAIN entry
  BY <1>3 DEF Inductive, TypeOK, TreeTypes
<1>5. QED
  BY <1>3, <1>4 DEF Mount, Insert, EmptyMap

(* What create makes: an object o below all its directory is below. *)
CreateMade(d, n, kind, rights, o) ==
  /\ Grows
  /\ o \in Objects \ Made /\ Made' = Made \cup {o}
  /\ object'[o] = [kind |-> kind, rights |-> rights, above |-> object[d].above \cup {o}]
  /\ d \in Made /\ o # d /\ o \notin DOMAIN entry
  /\ DOMAIN entry' = DOMAIN entry \cup (IF kind = "Directory" THEN {o} ELSE {})
  /\ entry'[d] = Insert(entry[d], n, o)
  /\ \A e \in DOMAIN entry \ {d} : entry'[e] = entry[e]
  /\ kind = "Directory" => entry'[o] = EmptyMap /\ DOMAIN EmptyMap = {}

LEMMA CreateMakes ==
  ASSUME Inductive, NEW d \in DOMAIN entry, NEW n \in Names, NEW kind \in Kind,
         NEW rights \in Grants, Create(d, n, kind, rights)
  PROVE  CreateMade(d, n, kind, rights, Len(object'))
<1>0. PICK o : o = Len(object')
  OBVIOUS
<1> DEFINE linked == [entry EXCEPT ![d] = Insert(@, n, o)]
<1>1. d \in Made /\ object[d].above \subseteq Made
  BY DEF Inductive, TypeOK, TreeTypes
<1>2. /\ Grows
      /\ o \in Objects \ Made /\ Made' = Made \cup {o}
      /\ object'[o] = [kind |-> kind, rights |-> rights, above |-> object[d].above \cup {o}]
  BY <1>0, <1>1, MakeGrows DEF Create, Inductive, TypeOK
<1>3. o \notin DOMAIN entry /\ o # d
  BY <1>2 DEF Inductive, TypeOK, TreeTypes
<1>4. /\ DOMAIN linked = DOMAIN entry
      /\ linked[d] = Insert(entry[d], n, o)
      /\ \A e \in DOMAIN entry \ {d} : linked[e] = entry[e]
  OBVIOUS
<1>5. entry' = IF kind = "Directory" THEN Insert(linked, o, EmptyMap) ELSE linked
  BY <1>0 DEF Create
<1> HIDE DEF linked
<1>6. /\ DOMAIN entry' = DOMAIN entry \cup (IF kind = "Directory" THEN {o} ELSE {})
      /\ \A e \in DOMAIN entry : entry'[e] = linked[e]
      /\ kind = "Directory" => entry'[o] = EmptyMap
  BY <1>3, <1>4, <1>5 DEF Insert
<1>7. DOMAIN EmptyMap = {}
  BY DEF EmptyMap
<1>8. QED
  BY <1>0, <1>1, <1>2, <1>3, <1>4, <1>5, <1>6, <1>7 DEF CreateMade

LEMMA ShapeMount ==
  ASSUME TreesInductive, NEW name, Mount(name)
  PROVE  Placed' /\ OneName'
<1>1. PICK o : o = Len(object')
  OBVIOUS
<1>2. /\ Grows
      /\ DOMAIN entry' = DOMAIN entry \cup {o}
      /\ DOMAIN entry'[o] = {}
      /\ \A d \in DOMAIN entry : entry'[d] = entry[d]
  BY <1>1, MountMakes DEF TreesInductive
<1>3. \A d \in DOMAIN entry : /\ d \in Made
                              /\ \A n \in DOMAIN entry[d] : entry[d][n] \in Made
  BY DEF TreesInductive, Inductive, TypeOK, TreeTypes
<1>4. \A d \in DOMAIN entry' : \A n \in DOMAIN entry'[d] :
        d \in DOMAIN entry /\ n \in DOMAIN entry[d] /\ entry'[d][n] = entry[d][n]
  BY <1>2
<1>5. QED
  BY <1>2, <1>3, <1>4 DEF TreesInductive, Placed, OneName, Grows

LEMMA ShapeCreate ==
  ASSUME TreesInductive, NEW d \in DOMAIN entry, NEW n \in Names, NEW kind \in Kind,
         NEW rights \in Grants, Create(d, n, kind, rights)
  PROVE  Placed' /\ OneName'
<1>1. PICK o : CreateMade(d, n, kind, rights, o)
  BY CreateMakes DEF TreesInductive
<1>2. /\ Grows
      /\ o \in Objects \ Made
      /\ object'[o].above = object[d].above \cup {o}
      /\ o # d /\ o \notin DOMAIN entry
      /\ DOMAIN entry' \subseteq DOMAIN entry \cup {o}
      /\ entry'[d] = Insert(entry[d], n, o)
      /\ \A e \in DOMAIN entry \ {d} : entry'[e] = entry[e]
      /\ o \in DOMAIN entry' => DOMAIN entry'[o] = {}
  BY <1>1 DEF CreateMade
<1>3. \A e \in DOMAIN entry : /\ e \in Made /\ object[e].above \subseteq Made
                              /\ \A m \in DOMAIN entry[e] : entry[e][m] \in Made
  BY DEF TreesInductive, Inductive, TypeOK, TreeTypes
<1>4. \A e \in DOMAIN entry' : \A m \in DOMAIN entry'[e] :
        \/ e = d /\ m = n /\ entry'[e][m] = o
        \/ /\ e \in DOMAIN entry /\ m \in DOMAIN entry[e]
           /\ entry'[e][m] = entry[e][m] /\ entry[e][m] # o
  BY <1>2, <1>3 DEF Insert
<1>5. Placed'
  <2> SUFFICES ASSUME NEW e \in DOMAIN entry', NEW m \in DOMAIN entry'[e]
               PROVE  /\ entry'[e][m] \notin object'[e].above
                      /\ object'[entry'[e][m]].above = object'[e].above \cup {entry'[e][m]}
    BY DEF Placed
  <2>1. CASE e = d /\ m = n /\ entry'[e][m] = o
    BY <1>2, <1>3, <2>1 DEF Grows
  <2>2. CASE /\ e \in DOMAIN entry /\ m \in DOMAIN entry[e]
             /\ entry'[e][m] = entry[e][m]
    BY <1>2, <1>3, <2>2 DEF Grows, TreesInductive, Placed
  <2>3. QED
    BY <1>4, <2>1, <2>2
<1>6. OneName'
  BY <1>4 DEF TreesInductive, OneName
<1>7. QED
  BY <1>5, <1>6

LEMMA ShapeDelete ==
  ASSUME TreesInductive, NEW d \in DOMAIN entry, NEW n \in Names, Delete(d, n)
  PROVE  Placed' /\ OneName'
<1>1. PICK map, was : map = Remove(entry[d], n) /\ was = [m \in DOMAIN entry[d] |-> m]
  OBVIOUS
<1>2. /\ UNCHANGED object /\ entry' = [entry EXCEPT ![d] = map]
      /\ \A m \in DOMAIN map : m \in DOMAIN entry[d] /\ map[m] = entry[d][m]
  BY <1>1 DEF Delete, Remove, Restrict
<1>3. \A m \in DOMAIN map : was[m] \in DOMAIN entry[d] /\ map[m] = entry[d][was[m]]
  BY <1>1, <1>2
<1>4. \A m, k \in DOMAIN map : was[m] = was[k] => m = k
  BY <1>1, <1>2
<1>5. Inductive /\ Placed /\ OneName
  BY DEF TreesInductive
<1>6. QED
  BY <1>2, <1>3, <1>4, <1>5, ShapeRelinked, ZenonT(60)

LEMMA ShapeRename ==
  ASSUME TreesInductive, NEW d \in DOMAIN entry, NEW n \in Names, NEW m \in Names,
         Rename(d, n, m)
  PROVE  Placed' /\ OneName'
<1>1. PICK map, was : /\ map = Remove(Insert(entry[d], m, entry[d][n]), n)
                      /\ was = [k \in DOMAIN entry[d] \cup {m} |-> IF k = m THEN n ELSE k]
  OBVIOUS
<1>2. /\ UNCHANGED object /\ entry' = [entry EXCEPT ![d] = map]
      /\ n \in DOMAIN entry[d] /\ m \notin DOMAIN entry[d]
  BY <1>1 DEF Rename
<1>3. \A k \in DOMAIN map :
        /\ k \in (DOMAIN entry[d] \ {n}) \cup {m}
        /\ map[k] = IF k = m THEN entry[d][n] ELSE entry[d][k]
  BY <1>1, <1>2 DEF Insert, Remove, Restrict
<1>4. \A k \in DOMAIN map : was[k] \in DOMAIN entry[d] /\ map[k] = entry[d][was[k]]
  BY <1>1, <1>2, <1>3
<1>5. \A j, k \in DOMAIN map : was[j] = was[k] => j = k
  BY <1>1, <1>2, <1>3
<1>6. Inductive /\ Placed /\ OneName
  BY DEF TreesInductive
<1>7. QED
  BY <1>2, <1>4, <1>5, <1>6, ShapeRelinked, ZenonT(60)

LEMMA ChmodGrows ==
  ASSUME TreesInductive, NEW o \in Made, NEW rights \in Grants, Chmod(o, rights)
  PROVE  Grows /\ Made' = Made /\ UNCHANGED entry
<1>1. object \in Seq([kind: Kind, rights: Grants, above: SUBSET Objects])
  BY DEF TreesInductive, Inductive, TypeOK, TreeTypes
<1>2. object' = [object EXCEPT ![o].rights = rights] /\ UNCHANGED entry
  BY DEF Chmod
<1>3. Made' = Made
  BY <1>2 DEF Made
<1>4. \A q \in Made : object[q] \in [kind: Kind, rights: Grants, above: SUBSET Objects]
  <2>1. Made = 1 .. Len(object)
    BY <1>1, LenProperties DEF Made
  <2>2. QED
    BY <1>1, <2>1, ElementOfSeq
<1>5. \A q \in Made : object'[q].kind = object[q].kind /\ object'[q].above = object[q].above
  BY <1>2, <1>4 DEF Made
<1>6. QED
  BY <1>2, <1>3, <1>5 DEF Grows

-----------------------------------------------------------------------------

LEMMA TreesInit == Init => TreesInductive
<1> SUFFICES ASSUME Init PROVE TreesInductive
  OBVIOUS
<1>1. DOMAIN entry = {}
  BY DEF Init, EmptyMap
<1>2. QED
  BY <1>1, InitInductive DEF TreesInductive, Placed, OneName

LEMMA TreesNext == TreesInductive /\ [Next]_vars => TreesInductive'
<1> SUFFICES ASSUME TreesInductive, [Next]_vars
             PROVE  TreesInductive'
  OBVIOUS
<1>1. Inductive /\ Placed /\ OneName
  BY DEF TreesInductive
<1>2. Inductive'
  BY <1>1, NextInductive
<1>3. CASE UNCHANGED <<object, entry>>
  <2>1. Grows
    BY <1>3 DEF Grows, Made
  <2>2. QED
    BY <1>1, <1>2, <1>3, <2>1, ShapeStays DEF TreesInductive
<1>4. CASE Administer
  <2>1. CASE \E name \in ObsNames : Mount(name)
    BY <1>2, <2>1, ShapeMount DEF TreesInductive
  <2>2. CASE ~ \E name \in ObsNames : Mount(name)
    BY <1>3, <1>4, <2>2 DEF Administer, Register, Attach, Unmount, Attach
  <2>3. QED
    BY <2>1, <2>2
<1>5. CASE Change
  <2>1. ASSUME NEW d \in DOMAIN entry, NEW n \in Names, NEW kind \in Kind,
               NEW rights \in Grants, Create(d, n, kind, rights)
        PROVE  Placed' /\ OneName'
    BY <2>1, ShapeCreate
  <2>2. ASSUME NEW d \in DOMAIN entry, NEW n \in Names, Delete(d, n)
        PROVE  Placed' /\ OneName'
    BY <2>2, ShapeDelete
  <2>3. ASSUME NEW d \in DOMAIN entry, NEW n \in Names, NEW m \in Names, Rename(d, n, m)
        PROVE  Placed' /\ OneName'
    BY <2>3, ShapeRename
  <2>4. ASSUME NEW o \in Made, NEW rights \in Grants, Chmod(o, rights)
        PROVE  Placed' /\ OneName'
    BY <1>1, <2>4, ChmodGrows, ShapeStays
  <2>5. QED
    BY <1>2, <1>5, <2>1, <2>2, <2>3, <2>4 DEF Change, TreesInductive
<1>6. CASE \E c \in Contexts : Step(c)
  <2>1. UNCHANGED <<object, entry>>
    BY <1>6 DEF Step, NewContext, Resolve, Refused, CheckMount, CheckExecute,
                CheckRead, Look, Found, Chroot
  <2>2. QED
    BY <1>3, <2>1
<1>7. CASE UNCHANGED vars
  BY <1>3, <1>7 DEF vars
<1>8. QED
  BY <1>4, <1>5, <1>6, <1>7 DEF Next

(* The trees of the mounts stay trees: an object is below its directory and *)
(* all that one is below, and has one name at most, whatever create,        *)
(* delete, rename, mount and chmod do among the steps of walks.             *)
THEOREM TreesInvariant == Spec => []TreesInductive
<1>1. QED
  BY TreesInit, TreesNext, PTL DEF Spec

-----------------------------------------------------------------------------
(* Where walks lead.                                                       *)

(* A key with one more component. *)
Takes(key, x, k) ==
  /\ NamesIn(key) \in Nat
  /\ NamesIn(k) = NamesIn(key) + 1
  /\ Len(k) = 2 * NamesIn(k) + 1
  /\ NameAt(k, NamesIn(k)) = x
  /\ \A i \in 1 .. NamesIn(key) : NameAt(k, i) = NameAt(key, i)
  /\ \A i \in 0 .. NamesIn(key) : Prefix(k, i) = Prefix(key, i)
  /\ Prefix(k, NamesIn(k)) = k

LEMMA KeyExtended ==
  ASSUME NEW key \in Seq(Token), NEW x \in Token,
         Len(key) = 2 * NamesIn(key) + 1
  PROVE  Takes(key, x, key \o <<Slash, x>>)
<1>0. PICK k : k = key \o <<Slash, x>>
  OBVIOUS
<1>1. PICK m : m = NamesIn(key)
  OBVIOUS
<1>2. Len(key) \in Nat /\ m \in Nat /\ Len(key) = 2 * m + 1
  BY <1>1, LenProperties DEF NamesIn
<1>3. <<Slash, x>> \in Seq(Token) /\ Len(<<Slash, x>>) = 2 /\ <<Slash, x>>[2] = x
  BY DEF Token
<1>4. /\ k \in Seq(Token)
      /\ Len(k) = Len(key) + 2
      /\ \A i \in 1 .. Len(key) : k[i] = key[i]
      /\ k[Len(key) + 2] = x
  BY <1>0, <1>3, ConcatProperties
<1>5. Len(k) = 2 * (m + 1) + 1 /\ NamesIn(k) = m + 1
  <2>1. Len(k) = 2 * (m + 1) + 1
    BY <1>2, <1>4
  <2>2. (2 * (m + 1) + 1) \div 2 = m + 1
    BY <1>2
  <2>3. QED
    BY <2>1, <2>2 DEF NamesIn
<1>6. NameAt(k, m + 1) = x
  BY <1>2, <1>4 DEF NameAt
<1>7. \A i \in 1 .. m : NameAt(k, i) = NameAt(key, i)
  BY <1>2, <1>4 DEF NameAt
<1>8. \A i \in 0 .. m : Prefix(k, i) = Prefix(key, i)
  BY <1>2, <1>4 DEF Prefix
<1>9. Prefix(k, m + 1) = k
  <2>1. Prefix(k, m + 1) = SubSeq(k, 1, Len(k))
    BY <1>5 DEF Prefix
  <2>2. SubSeq(k, 1, Len(k)) = k
    BY <1>4, SubSeqFull
  <2>3. QED
    BY <2>1, <2>2
<1>10. QED
  BY <1>0, <1>1, <1>2, <1>5, <1>6, <1>7, <1>8, <1>9 DEF Takes

(* One component more taken is one less to go. *)
LEMMA OneTaken ==
  ASSUME NEW S, NEW s \in Seq(S), NEW t \in Seq(S), NEW r \in Seq(S), r # <<>>,
         Len(t) = Len(s) + 1, t[Len(s) + 1] = Head(r),
         \A i \in 1 .. Len(s) : t[i] = s[i]
  PROVE  t \o Tail(r) = s \o r
<1>1. /\ s \o r \in Seq(S) /\ Len(s \o r) = Len(s) + Len(r)
      /\ Len(s) \in Nat /\ Len(r) \in Nat /\ Len(r) # 0
      /\ \A i \in 1 .. Len(s) + Len(r) :
           (s \o r)[i] = IF i <= Len(s) THEN s[i] ELSE r[i - Len(s)]
  BY ConcatProperties, LenProperties, EmptySeq
<1>2. /\ Tail(r) \in Seq(S) /\ Len(Tail(r)) = Len(r) - 1
      /\ \A i \in 1 .. Len(r) - 1 : Tail(r)[i] = r[i + 1]
      /\ Head(r) = r[1]
  BY HeadTailProperties
<1>3. /\ t \o Tail(r) \in Seq(S) /\ Len(t \o Tail(r)) = Len(s) + Len(r)
      /\ \A i \in 1 .. Len(s) + Len(r) :
           (t \o Tail(r))[i] = IF i <= Len(s) + 1 THEN t[i] ELSE Tail(r)[i - (Len(s) + 1)]
  <2>1. PICK u : u = Tail(r)
    OBVIOUS
  <2>2. u \in Seq(S) /\ Len(u) = Len(r) - 1
    BY <1>2, <2>1
  <2>3. /\ t \o u \in Seq(S)
        /\ Len(t \o u) = Len(t) + Len(u)
        /\ \A i \in 1 .. Len(t) + Len(u) :
             (t \o u)[i] = IF i <= Len(t) THEN t[i] ELSE u[i - Len(t)]
    BY <2>2, ConcatProperties
  <2>4. Len(t) + Len(u) = Len(s) + Len(r) /\ Len(t) = Len(s) + 1
    BY <1>1, <2>2
  <2>5. QED
    BY <2>1, <2>3, <2>4
<1>4. \A i \in 1 .. Len(s) + Len(r) : (t \o Tail(r))[i] = (s \o r)[i]
  <2> TAKE i \in 1 .. Len(s) + Len(r)
  <2>1. CASE i <= Len(s)
    BY <1>1, <1>3, <2>1
  <2>2. CASE i = Len(s) + 1
    BY <1>1, <1>2, <1>3, <2>2
  <2>3. CASE i > Len(s) + 1
    <3>1. i - (Len(s) + 1) \in 1 .. Len(r) - 1 /\ (i - (Len(s) + 1)) + 1 = i - Len(s)
      BY <1>1, <2>3
    <3>2. QED
      BY <1>1, <1>2, <1>3, <2>3, <3>1
  <2>4. QED
    BY <1>1, <2>1, <2>2, <2>3
<1>5. QED
  BY <1>1, <1>3, <1>4, SeqEqual

(* What is known of a walk that is right. *)
LEMMA WalkParts ==
  ASSUME Inductive, NEW c \in Contexts, ~Idle(c), OnPath(c)
  PROVE  LET w == call[c].walk
         IN  /\ call[c].at \in {"mount", "enter", "read", "look"}
             /\ w.rest \in Seq(Names) /\ w.key \in Seq(Token)
             /\ w.base \in Made /\ w.current \in Made
             /\ NamesIn(w.key) \in Nat
             /\ At(c, "mount") => Taken(c) = NamesIn(w.key)
             /\ Entering(c) => Taken(c) = NamesIn(w.key) - 1
             /\ Taken(c) \in Nat
<1>1. call[c] \in Calls \ Answers
  BY DEF Inductive, TypeOK, CallTypes, Answers, Answer, Idle
<1>2. /\ call[c].at \in {"mount", "enter", "read", "look"}
      /\ call[c].walk \in Walks
  BY <1>1 DEF Calls
<1>3. NamesIn(call[c].walk.key) \in Nat
  <2>1. call[c].walk.key \in Seq(Token)
    BY <1>2 DEF Walks
  <2>2. PICK n : n = Len(call[c].walk.key)
    OBVIOUS
  <2>3. n \in Nat
    BY <2>1, <2>2, LenProperties
  <2>4. n \div 2 \in Nat
    BY <2>3
  <2>5. QED
    BY <2>2, <2>4 DEF NamesIn
<1>4. /\ At(c, "mount") => Taken(c) = NamesIn(call[c].walk.key)
      /\ Entering(c) => Taken(c) = NamesIn(call[c].walk.key) - 1
  BY <1>3 DEF Taken, At, Entering
<1>5. Taken(c) \in Nat
  BY <1>2, <1>3, <1>4 DEF At, Entering, OnPath
<1>6. QED
  BY <1>2, <1>3, <1>4, <1>5 DEF Walks

(* A walk at its beginning. *)
LEMMA ResolveKeeps ==
  ASSUME Inductive, NEW c \in Contexts, NEW path \in Paths, NEW then \in Then,
         Resolve(c, path, then)
  PROVE  RightSoFar(c)'
<1>1. PICK w : w = [rest |-> Components(path), key |-> <<Slash>>,
                    base |-> root[c], current |-> root[c]]
  OBVIOUS
<1>2. call'[c] = [at |-> "mount", then |-> then, walk |-> w] /\ root' = root
  BY <1>1 DEF Resolve, Goto, Walk, Inductive, TypeOK, CallTypes
<1>3. NamesIn(<<Slash>>) = 0 /\ Len(<<Slash>>) = 1
  BY DEF NamesIn
<1>4. Taken(c)' = 0
  BY <1>1, <1>2, <1>3 DEF Taken, Entering
<1>5. root[c] \in Made' /\ Made' = Made
  BY DEF Resolve, Inductive, TypeOK, CallTypes, Made
<1>6. OnPath(c)'
  <2>1. Components(path) \in Seq(Names) /\ Resolvable(path)
    BY ComponentsAssumption DEF Resolve
  <2>2. [i \in 1 .. 0 |-> NameAt(<<Slash>>, i)] \o Components(path) = Components(path)
    <3>1. [i \in 1 .. 0 |-> NameAt(<<Slash>>, i)] = <<>>
      OBVIOUS
    <3>2. QED
      BY <2>1, <3>1, ConcatEmptySeq
  <2>3. call'[c].walk = w /\ w.key = <<Slash>> /\ w.rest = Components(path) /\ ~Entering(c)'
    BY <1>1, <1>2 DEF Entering
  <2>4. QED
    BY <1>3, <1>4, <2>1, <2>2, <2>3 DEF OnPath
<1>7. OnTrail(c)'
  <2>1. PICK trail : trail = [i \in 0 .. 0 |-> root[c]]
    OBVIOUS
  <2>2. /\ trail \in [0 .. Taken(c)' -> Made']
        /\ trail[0] = root[c]
    BY <1>4, <1>5, <2>1
  <2>3. call'[c].walk = w /\ w.key = <<Slash>> /\ w.base = root'[c] /\ w.current = root[c]
    BY <1>1, <1>2
  <2>4. CameIn(c, 0)'
    BY <2>3 DEF CameIn
  <2>5. NoMountAfter(<<Slash>>, 0)'
    BY <1>3 DEF NoMountAfter
  <2>6. Leads(<<Slash>>, 0, 0, root[c], root[c])'
    BY <1>2, <1>4, <2>2 DEF Leads, Follows
  <2>7. 0 \in 0 .. Taken(c)'
    BY <1>4
  <2>8. QED
    BY <1>2, <1>4, <2>3, <2>4, <2>5, <2>6, <2>7 DEF OnTrail
<1>8. QED
  BY <1>6, <1>7 DEF RightSoFar

(* The table knows the path so far, and the walk goes on there, or it does  *)
(* not, and the walk stays where it is.                                    *)
LEMMA CheckMountKeeps ==
  ASSUME Inductive, NEW c \in Contexts, CheckMount(c), RightSoFar(c)
  PROVE  RightSoFar(c)'
<1>1. PICK w : w = call[c].walk
  OBVIOUS
<1>2. PICK k : k = w.key \o <<Slash, Head(w.rest)>>
  OBVIOUS
<1>3. ~Idle(c) /\ At(c, "mount") /\ w.rest # <<>> /\ OnPath(c) /\ OnTrail(c)
  BY <1>1 DEF CheckMount, At, Idle, RightSoFar
<1>4. /\ w.rest \in Seq(Names) /\ w.key \in Seq(Token)
      /\ w.base \in Made /\ w.current \in Made
      /\ NamesIn(w.key) \in Nat
      /\ Taken(c) = NamesIn(w.key)
  BY <1>1, <1>3, WalkParts
<1>5. PICK m : m = NamesIn(w.key)
  OBVIOUS
<1>6. /\ Head(w.rest) \in Names /\ Head(w.rest) \in Token
      /\ Tail(w.rest) \in Seq(Names)
  BY <1>3, <1>4, HeadTailProperties DEF Token
<1>7. Len(w.key) = 2 * NamesIn(w.key) + 1
  BY <1>1, <1>3 DEF OnPath
<1>8. /\ m \in Nat
      /\ NamesIn(k) = m + 1
      /\ Len(k) = 2 * NamesIn(k) + 1
      /\ NameAt(k, m + 1) = Head(w.rest)
      /\ \A i \in 1 .. m : NameAt(k, i) = NameAt(w.key, i)
      /\ \A i \in 0 .. m : Prefix(k, i) = Prefix(w.key, i)
      /\ Prefix(k, m + 1) = k
  <2>1. /\ NamesIn(w.key) \in Nat
        /\ NamesIn(k) = NamesIn(w.key) + 1
        /\ Len(k) = 2 * NamesIn(k) + 1
        /\ NameAt(k, NamesIn(k)) = Head(w.rest)
        /\ \A i \in 1 .. NamesIn(w.key) : NameAt(k, i) = NameAt(w.key, i)
        /\ \A i \in 0 .. NamesIn(w.key) : Prefix(k, i) = Prefix(w.key, i)
        /\ Prefix(k, NamesIn(k)) = k
    <3>1. PICK x, key : x = Head(w.rest) /\ key = w.key
      OBVIOUS
    <3>2. key \in Seq(Token) /\ x \in Token /\ k = key \o <<Slash, x>>
          /\ Len(key) = 2 * NamesIn(key) + 1
      BY <1>2, <1>4, <1>6, <1>7, <3>1
    <3>3. Takes(key, x, k)
      BY <3>2, KeyExtended
    <3>4. QED
      BY <3>1, <3>3 DEF Takes
  <2>2. QED
    BY <1>5, <2>1
<1>9. /\ UNCHANGED <<mounts, object, entry, root>>
      /\ Made' = Made
      /\ call \in [Contexts -> Calls]
  BY DEF CheckMount, Made, Inductive, TypeOK, CallTypes
<1>10. PICK path \in Paths :
         /\ Resolvable(path)
         /\ Components(path) = [i \in 1 .. m |-> NameAt(w.key, i)] \o w.rest
  BY <1>1, <1>3, <1>4, <1>5 DEF OnPath
<1>11. CASE k \in DOMAIN mounts
  <2>1. PICK t, v : t = mounts[k] /\ v = [rest |-> Tail(w.rest), key |-> k,
                                          base |-> t, current |-> t]
    OBVIOUS
  <2>2. call'[c] = [at |-> "mount", then |-> call[c].then, walk |-> v]
    BY <1>1, <1>2, <1>9, <1>11, <2>1 DEF CheckMount, Goto, On, NextKey
  <2>3. call'[c].walk = v /\ v.key = k /\ v.rest = Tail(w.rest) /\ v.base = t /\ v.current = t
    BY <2>1, <2>2
  <2>4. ~Entering(c)' /\ Taken(c)' = m + 1
    BY <1>8, <2>2, <2>3 DEF Entering, Taken
  <2>5. t \in Made'
    BY <1>9, <1>11, <2>1 DEF Inductive, TypeOK, TreeTypes, Tops
  <2>6. [i \in 1 .. m + 1 |-> NameAt(k, i)] \o Tail(w.rest) = Components(path)
    <3>1. PICK s, u : /\ s = [i \in 1 .. m |-> NameAt(w.key, i)]
                      /\ u = [i \in 1 .. m + 1 |-> NameAt(k, i)]
      OBVIOUS
    <3>2. /\ \A i \in 1 .. m : NameAt(w.key, i) \in Token
          /\ \A i \in 1 .. m + 1 : NameAt(k, i) \in Token
      <4>1. \A i \in 1 .. m : 2 * i + 1 \in 1 .. Len(w.key)
        BY <1>5, <1>7, <1>8
      <4>2. \A i \in 1 .. m : NameAt(w.key, i) \in Token
        BY <1>4, <4>1, ElementOfSeq DEF NameAt
      <4>3. QED
        BY <1>6, <1>8, <4>2
    <3>3. /\ s \in Seq(Token) /\ Len(s) = m
          /\ u \in Seq(Token) /\ Len(u) = m + 1
      BY <1>8, <3>1, <3>2
    <3>4. u[m + 1] = Head(w.rest) /\ \A i \in 1 .. m : u[i] = s[i]
      BY <1>8, <3>1
    <3>5. w.rest \in Seq(Token)
      BY <1>4, SeqMonotonic DEF Token
    <3>6. u \o Tail(w.rest) = s \o w.rest
      BY <1>3, <3>3, <3>4, <3>5, OneTaken
    <3>7. QED
      BY <1>10, <3>1, <3>6
  <2>7. OnPath(c)'
    BY <1>8, <1>10, <2>3, <2>4, <2>6 DEF OnPath
  <2>8. OnTrail(c)'
    <3>1. PICK trail : trail = [i \in m + 1 .. m + 1 |-> t]
      OBVIOUS
    <3>2. trail \in [m + 1 .. Taken(c)' -> Made'] /\ trail[m + 1] = t
      BY <1>8, <2>4, <2>5, <3>1
    <3>3. CameIn(c, m + 1)'
      BY <1>8, <1>9, <1>11, <2>1, <2>3 DEF CameIn
    <3>4. NoMountAfter(k, m + 1)'
      BY <1>8 DEF NoMountAfter
    <3>5. Leads(k, m + 1, m + 1, t, t)'
      BY <1>8, <2>4, <3>2 DEF Leads, Follows
    <3>6. m + 1 \in 0 .. Taken(c)'
      BY <1>8, <2>4
    <3>7. QED
      BY <2>3, <2>4, <3>3, <3>4, <3>5, <3>6 DEF OnTrail
  <2>9. QED
    BY <2>7, <2>8 DEF RightSoFar
<1>12. CASE k \notin DOMAIN mounts
  <2>1. PICK v : v = [w EXCEPT !.key = k]
    OBVIOUS
  <2>2. call'[c] = [at |-> "enter", then |-> call[c].then, walk |-> v]
    BY <1>1, <1>2, <1>9, <1>12, <2>1 DEF CheckMount, Goto, On, NextKey
  <2>3. w \in Walks
    BY <1>1, <1>3, WalkForm
  <2>4. /\ call'[c].walk = v /\ v.key = k /\ v.rest = w.rest
        /\ v.base = w.base /\ v.current = w.current
    BY <2>1, <2>2, <2>3 DEF Walks
  <2>5. Entering(c)' /\ Taken(c)' = m
    BY <1>8, <2>2, <2>4 DEF Entering, Taken
  <2>6. [i \in 1 .. m |-> NameAt(k, i)] = [i \in 1 .. m |-> NameAt(w.key, i)]
    BY <1>8
  <2>7. OnPath(c)'
    BY <1>8, <1>10, <2>4, <2>5, <2>6 DEF OnPath
  <2>8. OnTrail(c)'
    <3>1. PICK j \in 0 .. m : /\ CameIn(c, j)
                              /\ NoMountAfter(w.key, j)
                              /\ Leads(w.key, j, m, w.base, w.current)
      BY <1>1, <1>3, <1>4, <1>5 DEF OnTrail
    <3>2. j \in Nat /\ \A i \in j + 1 .. m : i \in 1 .. m /\ i \in 0 .. m
      BY <1>8, <3>1
    <3>3. CameIn(c, j)'
      <4>1. Prefix(k, j) = Prefix(w.key, j)
        BY <1>8
      <4>2. QED
        BY <1>1, <1>9, <2>4, <3>1, <4>1 DEF CameIn
    <3>4. NoMountAfter(k, j)'
      <4> SUFFICES ASSUME NEW i \in j + 1 .. m + 1
                   PROVE  Prefix(k, i) \notin DOMAIN mounts
        BY <1>8, <1>9 DEF NoMountAfter
      <4>1. CASE i = m + 1
        BY <1>8, <1>12, <4>1
      <4>2. CASE i # m + 1
        <5>1. i \in j + 1 .. m
          BY <1>8, <3>2, <4>2
        <5>2. QED
          BY <1>5, <1>8, <3>1, <3>2, <5>1 DEF NoMountAfter
      <4>3. QED
        BY <4>1, <4>2
    <3>5. Leads(k, j, m, w.base, w.current)'
      <4>1. PICK trail \in [j .. m -> Made] :
              trail[j] = w.base /\ trail[m] = w.current /\ Follows(trail, w.key, j, m)
        BY <3>1 DEF Leads
      <4>2. \A i \in j + 1 .. m : NameAt(k, i) = NameAt(w.key, i)
        BY <1>8, <3>2
      <4>3. Follows(trail, k, j, m)'
        BY <1>9, <4>1, <4>2 DEF Follows
      <4>4. QED
        BY <1>9, <4>1, <4>3 DEF Leads
    <3>6. QED
      BY <2>4, <2>5, <3>1, <3>3, <3>4, <3>5 DEF OnTrail
  <2>9. QED
    BY <2>7, <2>8 DEF RightSoFar
<1>13. QED
  BY <1>11, <1>12

(* A walk let on is where it was. *)
LEMMA LetOnKeeps ==
  ASSUME Inductive, NEW c \in Contexts, CheckExecute(c) \/ CheckRead(c), ~Idle(c)',
         RightSoFar(c)
  PROVE  RightSoFar(c)'
<1>1. Entering(c) /\ ~Idle(c) /\ UNCHANGED <<mounts, object, entry, root>>
  BY DEF CheckExecute, CheckRead, At, Entering, Idle
<1>2. OnPath(c) /\ OnTrail(c) /\ call \in [Contexts -> Calls]
  BY <1>1 DEF RightSoFar, Inductive, TypeOK, CallTypes
<1>3. PICK at \in {"read", "look"} : Goto(c, On(c, at, call[c].walk))
  BY <1>2 DEF CheckExecute, CheckRead, Return, Goto, Answer, Idle
<1>4. call'[c].walk = call[c].walk /\ Entering(c)'
  BY <1>2, <1>3 DEF Goto, On, Entering
<1>5. Taken(c)' = Taken(c)
  BY <1>1, <1>4 DEF Taken
<1>6. OnPath(c)'
  BY <1>1, <1>2, <1>4, <1>5 DEF OnPath
<1>7. OnTrail(c)'
  <2>1. PICK w, m : w = call[c].walk /\ m = Taken(c)
    OBVIOUS
  <2>2. PICK j \in 0 .. m : /\ CameIn(c, j)
                            /\ NoMountAfter(w.key, j)
                            /\ Leads(w.key, j, m, w.base, w.current)
    BY <1>2, <2>1 DEF OnTrail
  <2>3. CameIn(c, j)' /\ NoMountAfter(w.key, j)' /\ Leads(w.key, j, m, w.base, w.current)'
    BY <1>1, <1>4, <2>1, <2>2 DEF CameIn, NoMountAfter, Leads, Follows, Made
  <2>4. QED
    BY <1>4, <1>5, <2>1, <2>2, <2>3 DEF OnTrail
<1>8. QED
  BY <1>6, <1>7 DEF RightSoFar

(* The entry found is one more of the trail. *)
LEMMA LookKeeps ==
  ASSUME Inductive, NEW c \in Contexts, Look(c), ~Idle(c)', RightSoFar(c)
  PROVE  RightSoFar(c)'
<1>1. PICK w : w = call[c].walk
  OBVIOUS
<1>2. Entering(c) /\ Inside(c) /\ ~Idle(c) /\ OnPath(c) /\ OnTrail(c)
  BY DEF Look, At, Entering, Inside, Idle, RightSoFar
<1>3. w.rest # <<>> /\ w \in Walks
  BY <1>1, <1>2, EnteringForm
<1>4. PICK m : m = NamesIn(w.key)
  OBVIOUS
<1>5. /\ w.rest \in Seq(Names) /\ w.key \in Seq(Token)
      /\ w.base \in Made /\ w.current \in Made
      /\ m \in Nat /\ m - 1 \in Nat
      /\ Taken(c) = m - 1
  BY <1>1, <1>2, <1>4, WalkParts
<1>6. /\ Len(w.key) = 2 * m + 1
      /\ NameAt(w.key, m) = Head(w.rest)
  BY <1>1, <1>2, <1>4 DEF OnPath
<1>7. /\ UNCHANGED <<mounts, object, entry, root>>
      /\ Made' = Made
      /\ call \in [Contexts -> Calls]
  BY DEF Look, Made, Inductive, TypeOK, CallTypes
<1>8. PICK d, o : d = w.current /\ o = entry[d][Head(w.rest)]
  OBVIOUS
<1>9. /\ IsDirectory(d)
      /\ Head(w.rest) \in DOMAIN entry[d]
      /\ Goto(c, On(c, "mount", [w EXCEPT !.rest = Tail(@), !.current = o]))
  <2>1. IsDirectory(d)
    BY <1>1, <1>2, <1>8 DEF Inductive, TypeOK, CallTypes
  <2>2. QED
    BY <1>1, <1>7, <1>8, <2>1 DEF Look, Return, Goto, Answer, Idle
<1>10. PICK v : v = [w EXCEPT !.rest = Tail(@), !.current = o]
  OBVIOUS
<1>11. /\ call'[c] = [at |-> "mount", then |-> call[c].then, walk |-> v]
       /\ v.key = w.key /\ v.rest = Tail(w.rest) /\ v.base = w.base /\ v.current = o
  BY <1>3, <1>7, <1>9, <1>10 DEF Goto, On, Walks
<1>12. ~Entering(c)' /\ Taken(c)' = m
  BY <1>4, <1>5, <1>11 DEF Entering, Taken
<1>13. d \in DOMAIN entry /\ o \in Made'
  BY <1>5, <1>7, <1>8, <1>9 DEF Inductive, TypeOK, TreeTypes
<1>14. PICK path \in Paths :
         /\ Resolvable(path)
         /\ Components(path) = [i \in 1 .. m - 1 |-> NameAt(w.key, i)] \o w.rest
  BY <1>1, <1>2, <1>5 DEF OnPath
<1>15. [i \in 1 .. m |-> NameAt(w.key, i)] \o Tail(w.rest) = Components(path)
  <2>1. PICK s, u : /\ s = [i \in 1 .. m - 1 |-> NameAt(w.key, i)]
                    /\ u = [i \in 1 .. m |-> NameAt(w.key, i)]
    OBVIOUS
  <2>2. \A i \in 1 .. m : NameAt(w.key, i) \in Token
    <3>1. \A i \in 1 .. m : 2 * i + 1 \in 1 .. Len(w.key)
      BY <1>5, <1>6
    <3>2. QED
      BY <1>5, <3>1, ElementOfSeq DEF NameAt
  <2>3. /\ s \in Seq(Token) /\ Len(s) = m - 1
        /\ u \in Seq(Token) /\ Len(u) = m
    BY <1>5, <2>1, <2>2
  <2>4. u[m] = Head(w.rest) /\ \A i \in 1 .. m - 1 : u[i] = s[i]
    BY <1>5, <1>6, <2>1
  <2>5. w.rest \in Seq(Token)
    BY <1>5, SeqMonotonic DEF Token
  <2>6. Len(u) = Len(s) + 1 /\ u[Len(s) + 1] = Head(w.rest) /\ \A i \in 1 .. Len(s) : u[i] = s[i]
    BY <1>5, <2>3, <2>4
  <2>7. u \o Tail(w.rest) = s \o w.rest
    BY <1>3, <2>3, <2>5, <2>6, OneTaken
  <2>8. QED
    BY <1>14, <2>1, <2>7
<1>16. OnPath(c)'
  <2>1. call'[c].walk = v /\ Len(v.key) = 2 * NamesIn(v.key) + 1
    BY <1>4, <1>6, <1>11
  <2>2. [i \in 1 .. Taken(c)' |-> NameAt(v.key, i)] \o v.rest = Components(path)
    BY <1>11, <1>12, <1>15
  <2>3. QED
    BY <1>12, <1>14, <2>1, <2>2 DEF OnPath
<1>17. OnTrail(c)'
  <2>1. PICK j \in 0 .. m - 1 : /\ CameIn(c, j)
                                /\ NoMountAfter(w.key, j)
                                /\ Leads(w.key, j, m - 1, w.base, w.current)
    BY <1>1, <1>2, <1>5 DEF OnTrail
  <2>2. j \in 0 .. m /\ CameIn(c, j)' /\ NoMountAfter(w.key, j)'
    BY <1>1, <1>5, <1>7, <1>11, <2>1 DEF CameIn, NoMountAfter
  <2>3. Leads(w.key, j, m, w.base, o)'
    <3>1. PICK old \in [j .. m - 1 -> Made] :
            old[j] = w.base /\ old[m - 1] = d /\ Follows(old, w.key, j, m - 1)
      BY <1>8, <2>1 DEF Leads
    <3>2. PICK trail : trail = [i \in j .. m |-> IF i = m THEN o ELSE old[i]]
      OBVIOUS
    <3>3. /\ trail \in [j .. m -> Made']
          /\ trail[m] = o
          /\ \A i \in j .. m - 1 : trail[i] = old[i]
      BY <1>5, <1>7, <1>13, <2>1, <3>2
    <3>4. trail[j] = w.base /\ trail[m - 1] = d
      BY <1>5, <2>1, <3>1, <3>3
    <3>5. Follows(trail, w.key, j, m)'
      <4> SUFFICES ASSUME NEW i \in j + 1 .. m
                   PROVE  /\ trail[i - 1] \in DOMAIN entry
                          /\ NameAt(w.key, i) \in DOMAIN entry[trail[i - 1]]
                          /\ trail[i] = entry[trail[i - 1]][NameAt(w.key, i)]
        BY <1>7 DEF Follows
      <4>1. CASE i = m
        BY <1>6, <1>8, <1>9, <1>13, <3>3, <3>4, <4>1
      <4>2. CASE i # m
        <5>1. i \in j + 1 .. m - 1 /\ i \in j .. m - 1 /\ i - 1 \in j .. m - 1
          BY <1>5, <2>1, <4>2
        <5>2. /\ old[i - 1] \in DOMAIN entry
              /\ NameAt(w.key, i) \in DOMAIN entry[old[i - 1]]
              /\ old[i] = entry[old[i - 1]][NameAt(w.key, i)]
          BY <3>1, <5>1 DEF Follows
        <5>3. QED
          BY <3>3, <5>1, <5>2
      <4>3. QED
        BY <4>1, <4>2
    <3>6. QED
      BY <3>3, <3>4, <3>5 DEF Leads
  <2>4. QED
    BY <1>11, <1>12, <2>2, <2>3 DEF OnTrail
<1>18. QED
  BY <1>16, <1>17 DEF RightSoFar

(* Nobody forgets an object, and contexts and walks that take no step do    *)
(* not move.                                                               *)
LEMMA NextGrows == TreesInductive /\ [Next]_vars => Grows
<1> SUFFICES ASSUME TreesInductive, [Next]_vars PROVE Grows
  OBVIOUS
<1>1. Inductive
  BY DEF TreesInductive
<1>2. CASE UNCHANGED object
  BY <1>2 DEF Grows, Made
<1>3. CASE \E name \in ObsNames : Mount(name)
  BY <1>1, <1>3, MountMakes
<1>4. ASSUME NEW d \in DOMAIN entry, NEW n \in Names, NEW kind \in Kind,
             NEW rights \in Grants, Create(d, n, kind, rights)
      PROVE  Grows
  BY <1>1, <1>4, CreateMakes DEF CreateMade
<1>5. CASE \E o \in Made, rights \in Grants : Chmod(o, rights)
  BY <1>5, ChmodGrows
<1>6. CASE Administer
  BY <1>2, <1>3, <1>6 DEF Administer, Register, Attach, Unmount
<1>7. CASE Change
  BY <1>2, <1>4, <1>5, <1>7 DEF Change, Delete, Rename
<1>8. CASE \E c \in Contexts : Step(c)
  <2>1. UNCHANGED object
    BY <1>8 DEF Step, NewContext, Resolve, Refused, CheckMount, CheckExecute,
         CheckRead, Look, Found, Chroot
  <2>2. QED
    BY <1>2, <2>1
<1>9. QED
  BY <1>2, <1>6, <1>7, <1>8 DEF Next, vars

LEMMA WalkSteps ==
  ASSUME Inductive, NEW c \in Contexts, Next, call'[c] # call[c], ~Idle(c)'
  PROVE  \/ \E path \in Paths, then \in Then : Resolve(c, path, then)
         \/ CheckMount(c)
         \/ CheckExecute(c) \/ CheckRead(c)
         \/ Look(c)
<1>1. call \in [Contexts -> Calls]
  BY DEF Inductive, TypeOK, CallTypes
<1>2. PICK d \in Contexts : Step(d)
  BY DEF Next, Administer, Register, Mount, Attach, Unmount, Change, Create, Delete, Rename, Chmod
<1>3. d = c
  BY <1>1, <1>2 DEF Step, NewContext, Resolve, Refused, CheckMount, CheckExecute,
         CheckRead, Look, Found,
                    Chroot, Return, Goto
<1>4. ~NewContext(c) /\ ~Found(c) /\ ~Chroot(c)
      /\ \A path \in Paths, then \in Then : ~Refused(c, path, then)
  BY <1>1 DEF NewContext, Found, Chroot, Refused, Return, Goto, Answer, Idle
<1>5. QED
  BY <1>2, <1>3, <1>4 DEF Step

LEMMA WalksKeep ==
  ASSUME Inductive, [Next]_vars, NEW c \in Contexts
  PROVE  Keeps(c)
<1> SUFFICES ASSUME call'[c] # call[c], RightSoFar(c) PROVE RightSoFar(c)'
  BY DEF Keeps
<1>1. CASE Idle(c)'
  BY <1>1 DEF RightSoFar
<1>2. CASE ~Idle(c)'
  BY <1>2, WalkSteps, ResolveKeeps, CheckMountKeeps, LetOnKeeps, LookKeeps DEF vars
<1>3. QED
  BY <1>1, <1>2

(* A walk that takes no step stays right while the table and the entries    *)
(* stay as they are.                                                       *)
LEMMA WalkRests ==
  ASSUME TreesInductive, [Next]_vars, NEW c \in Contexts,
         call'[c] = call[c], UNCHANGED <<mounts, entry>>, ~Idle(c), RightSoFar(c)
  PROVE  RightSoFar(c)'
<1>1. Grows /\ Inductive
  BY NextGrows DEF TreesInductive
<1>2. root'[c] = root[c]
  <2>1. CASE Next /\ root' # root
    <3>1. PICK d \in Contexts : NewContext(d) \/ Chroot(d)
      BY <2>1 DEF Next, Administer, Register, Mount, Attach, Unmount, Change, Create, Delete,
                  Rename, Chmod, Step, Resolve, Refused, CheckMount, CheckExecute,
         CheckRead, Look, Found
    <3>2. root \in [Contexts -> Made \cup {NoObject}] /\ call \in [Contexts -> Calls]
      BY <1>1 DEF Inductive, TypeOK, CallTypes
    <3>3. d # c
      BY <3>1, <3>2 DEF NewContext, Chroot, Return, Goto, Answer, Idle
    <3>4. QED
      BY <3>1, <3>2, <3>3 DEF NewContext, Chroot
  <2>2. QED
    BY <2>1 DEF vars
<1>3. OnPath(c) /\ OnTrail(c)
  BY DEF RightSoFar
<1>4. PICK w, m : w = call[c].walk /\ m = Taken(c)
  OBVIOUS
<1>5. /\ call'[c].walk = w /\ Taken(c)' = m
      /\ Entering(c)' <=> Entering(c)
  BY <1>4 DEF Taken, Entering
<1>6. OnPath(c)'
  BY <1>3, <1>4, <1>5 DEF OnPath
<1>7. OnTrail(c)'
  <2>1. PICK j \in 0 .. m : /\ CameIn(c, j)
                            /\ NoMountAfter(w.key, j)
                            /\ Leads(w.key, j, m, w.base, w.current)
    BY <1>3, <1>4 DEF OnTrail
  <2>2. CameIn(c, j)' /\ NoMountAfter(w.key, j)'
    BY <1>2, <1>4, <1>5, <2>1 DEF CameIn, NoMountAfter
  <2>3. Leads(w.key, j, m, w.base, w.current)'
    <3>1. PICK trail \in [j .. m -> Made] :
            trail[j] = w.base /\ trail[m] = w.current /\ Follows(trail, w.key, j, m)
      BY <2>1 DEF Leads
    <3>2. trail \in [j .. m -> Made'] /\ Follows(trail, w.key, j, m)'
      BY <1>1, <3>1 DEF Grows, Follows
    <3>3. QED
      BY <3>1, <3>2 DEF Leads
  <2>4. QED
    BY <1>5, <2>1, <2>2, <2>3 DEF OnTrail
<1>8. QED
  BY <1>6, <1>7 DEF RightSoFar

(* A step of resolve_path_with_ctx that finds a walk where its path leads   *)
(* leaves it where its path leads, through mounts and directories.          *)
THEOREM WalksTakeTheirPaths == Spec => WalksKeepToPaths
<1>1. TreesInductive /\ [Next]_vars => [\A c \in Contexts : Keeps(c)]_vars
  BY WalksKeep DEF TreesInductive
<1>2. QED
  BY <1>1, TreesInvariant, PTL DEF Spec, WalksKeepToPaths

(* While c walks, nothing is mounted, unmounted, linked or unlinked. *)
Calm(c) == ~Idle(c) => UNCHANGED <<mounts, entry>>

(* Resolution is right: whatever others do between its calls, a context     *)
(* during whose calls the table and the entries stay as they are is at      *)
(* every moment where its path leads from its root, over the last mount on  *)
(* the way; with no component left, that is the object the path names.      *)
THEOREM ResolutionIsRight ==
  ASSUME NEW c \in Contexts
  PROVE  Spec /\ [][Calm(c)]_vars => []RightSoFar(c)
<1>1. Init => RightSoFar(c)
  BY DEF Init, RightSoFar, Idle, Answer
<1>2. TreesInductive /\ [Next]_vars /\ [Calm(c)]_vars /\ RightSoFar(c) => RightSoFar(c)'
  <2> SUFFICES ASSUME TreesInductive, [Next]_vars, [Calm(c)]_vars, RightSoFar(c)
               PROVE  RightSoFar(c)'
    OBVIOUS
  <2>1. CASE call'[c] # call[c]
    BY <2>1, WalksKeep DEF TreesInductive, Keeps
  <2>2. CASE call'[c] = call[c] /\ Idle(c)
    BY <2>2 DEF RightSoFar, Idle
  <2>3. CASE call'[c] = call[c] /\ ~Idle(c)
    BY <2>3, WalkRests DEF Calm, vars
  <2>4. QED
    BY <2>1, <2>2, <2>3
<1>3. QED
  BY <1>1, <1>2, TreesInvariant, PTL DEF Spec


=============================================================================
