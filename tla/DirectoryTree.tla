--------------------------- MODULE DirectoryTree ---------------------------
(***************************************************************************)
(* What a caller of the directory API may rely on: a namespace that        *)
(* changes by whole calls.  An object and its name appear together and     *)
(* disappear together, a name in use is never given a second object, and   *)
(* an object number is never used again.  A directory that was removed     *)
(* stays reachable through the handles that were opened on it, so tree     *)
(* keeps it until it is forgotten.                                         *)
(***************************************************************************)
EXTENDS HashMaps

CONSTANTS
  Names,      \* names within a directory
  Numbers,    \* object numbers
  Top,        \* the number of the root directory
  Kinds,      \* kinds of objects, "Directory" among them
  Rights,     \* rights an object may grant, "DELETE" and "RENAME" among them
  Trusted     \* TRUE if the caller needs no right

Things == [kind: Kinds, grants: SUBSET Rights]

VARIABLES
  objects,    \* number -> the object that exists under it
  tree,       \* directory number -> name -> object number
  used        \* the numbers that have ever named an object

tvars == <<objects, tree, used>>

Init ==
  /\ objects = Insert(EmptyMap, Top, [kind |-> "Directory", grants |-> {}])
  /\ tree = Insert(EmptyMap, Top, EmptyMap)
  /\ used = {Top}

Permitted(i, right) == Trusted \/ right \in objects[i].grants

Create(d, n, i, o) ==
  /\ n \notin DOMAIN tree[d]
  /\ i \notin used
  /\ objects' = Insert(objects, i, o)
  /\ used' = used \cup {i}
  /\ LET linked == [tree EXCEPT ![d] = Insert(@, n, i)]
     IN  tree' = IF o.kind = "Directory" THEN Insert(linked, i, EmptyMap)
                                         ELSE linked

Delete(d, n) ==
  /\ n \in DOMAIN tree[d]
  /\ tree[d][n] \in DOMAIN objects
  /\ Permitted(tree[d][n], "DELETE")
  /\ objects' = Remove(objects, tree[d][n])
  /\ tree' = [tree EXCEPT ![d] = Remove(@, n)]
  /\ UNCHANGED used

Rename(d, n, m) ==
  /\ n \in DOMAIN tree[d]
  /\ m \notin DOMAIN tree[d]
  /\ tree[d][n] \in DOMAIN objects
  /\ Permitted(tree[d][n], "RENAME")
  /\ tree' = [tree EXCEPT ![d] = Remove(Insert(@, m, @[n]), n)]
  /\ UNCHANGED <<objects, used>>

(* The rights on an object change at any time. *)
Chmod(i, grants) ==
  /\ i \in DOMAIN objects
  /\ objects' = [objects EXCEPT ![i].grants = grants]
  /\ UNCHANGED <<tree, used>>

(* Nobody can reach these removed directories any more. *)
Forget(gone) ==
  /\ gone \cap DOMAIN objects = {}
  /\ tree' = Restrict(tree, DOMAIN tree \ gone)
  /\ UNCHANGED <<objects, used>>

Next ==
  \/ \E i \in DOMAIN objects, grants \in SUBSET Rights : Chmod(i, grants)
  \/ \E gone \in SUBSET DOMAIN tree : Forget(gone)
  \/ \E d \in DOMAIN tree, n \in Names :
       \/ \E i \in Numbers, o \in Things : Create(d, n, i, o)
       \/ Delete(d, n)
       \/ \E m \in Names : Rename(d, n, m)

Spec == Init /\ [][Next]_tvars
=============================================================================
