----------------------------- MODULE VfsPaths -----------------------------
(***************************************************************************)
(* How the VFS finds an object by its path: the registry of object         *)
(* systems, the mount table, and resolve_path_with_ctx, which goes from    *)
(* the root of a context one component at a time, while others mount,      *)
(* create, remove and rename; and chroot, which moves the root of a        *)
(* context.                                                                *)
(*                                                                         *)
(* A path is the sequence of its names and slashes.  A component costs one *)
(* lock of the mount table and, where nothing is mounted, two reads of the *)
(* rights of the directory the walk is in and one of its entries: a step   *)
(* each.  Walks see of a directory only its entries, so of the calls that  *)
(* change them the steps here are those on the entries, and a superobject  *)
(* goes by its root, which RamobsDirectory shows to be there as long as it. *)
(***************************************************************************)
EXTENDS HashMaps, Naturals, Sequences

CONSTANTS
  Contexts,
  PrivilegedContexts,  \* those with uid 0 or role 0
  ObsNames,            \* the names of object systems
  Names,               \* the names of directory entries
  Paths,               \* the paths resolved
  MountPaths,          \* the paths mounted at
  Grants,              \* the sets of rights given to everybody
  MaxObjects           \* bound: objects ever made

Slash == "/"
Dots == {".", ".."}
Token == Names \cup Dots \cup {Slash}

ASSUME ContextsAssumption ==
  /\ PrivilegedContexts \subseteq Contexts
  /\ MaxObjects \in Nat
  /\ {} \in Grants
  /\ Names \cap (Dots \cup {Slash}) = {}
  /\ Paths \subseteq Seq(Token)
  /\ MountPaths \subseteq Seq(Token)

(* Objects are numbered in the order they are made; 0 is none.              *)
Objects == 1 .. MaxObjects
NoObject == 0
Kind == {"Directory", "Symlink"}

VARIABLES
  registry,  \* REGISTRY: the names of the object systems registered
  fresh,     \* the roots of superobjects VFS::mount has made and not yet
             \* put in the table: nobody else has seen them
  mounts,    \* MountTable: the root of the superobject at each path
  object,    \* each object's kind, the rights everybody has on it (only
             \* of directories is one asked), and for the properties the
             \* directories it was made below, itself included
  entry,     \* the entries of each directory
  root,      \* PermissionContext.root
  call       \* where each context is in the call it makes

vars == <<registry, fresh, mounts, object, entry, root, call>>

Made == DOMAIN object
IsDirectory(o) == object[o].kind = "Directory"
Tops == {o \in Made : object[o].above = {o}}

Idle(c) == call[c].at = "idle"
Entering(c) == call[c].at \in {"enter", "read", "look"}
Inside(c) == call[c].at \in {"read", "look"}
At(c, l) == call[c].at = l
Goto(c, r) == call' = [call EXCEPT ![c] = r]
Answer(r) == [at |-> "idle", result |-> r]
Return(c, r) == Goto(c, Answer(r))

(* The components of a path, and the paths resolution takes. *)
Components(path) == SelectSeq(path, LAMBDA w : w # Slash)
Resolvable(path) ==
  /\ path # <<>> /\ Head(path) = Slash
  /\ \A i \in DOMAIN path : path[i] \notin Dots

(* What SelectSeq does, which is recursive and so beyond the provers: TLC   *)
(* evaluates it for the paths of every run.                                *)
ASSUME ComponentsAssumption ==
  \A path \in Paths : Resolvable(path) => Components(path) \in Seq(Names)

-----------------------------------------------------------------------------

Init ==
  /\ registry = {}
  /\ fresh = {}
  /\ mounts = EmptyMap
  /\ object = <<>>
  /\ entry = EmptyMap
  /\ root = [c \in Contexts |-> NoObject]
  /\ call = [c \in Contexts |-> Answer("none")]

(* A new object below the objects of the set above. *)
Make(kind, rights, above) ==
  LET o == Len(object) + 1
  IN  /\ o \in Objects
      /\ object' = Append(object, [kind |-> kind, rights |-> rights,
                                   above |-> above \cup {o}])

(* register: of two object systems with one name the first stays. *)
Register(name) ==
  /\ name \notin registry
  /\ registry' = registry \cup {name}
  /\ UNCHANGED <<fresh, mounts, object, entry, root, call>>

(* VFS::mount makes a superobject, whose root only a privileged context    *)
(* may enter, and then gives it to the table, which takes it if nothing is *)
(* mounted there; what it refuses is dropped and never seen.               *)
Mount(name) ==
  /\ name \in registry
  /\ Make("Directory", {}, {})
  /\ entry' = Insert(entry, Len(object'), EmptyMap)
  /\ fresh' = fresh \cup {Len(object')}
  /\ UNCHANGED <<registry, mounts, root, call>>

(* A table that takes what another mount has put there already. *)
AttachAgain(o, path) ==
  /\ o \in fresh
  /\ path \notin DOMAIN mounts
  /\ mounts' = Insert(mounts, path, o)
  /\ UNCHANGED <<registry, fresh, object, entry, root, call>>

Attach(o, path) ==
  /\ o \in fresh
  /\ path \notin DOMAIN mounts
  /\ mounts' = Insert(mounts, path, o)
  /\ fresh' = fresh \ {o}
  /\ UNCHANGED <<registry, object, entry, root, call>>

Unmount(path) ==
  /\ path \in DOMAIN mounts
  /\ mounts' = Remove(mounts, path)
  /\ UNCHANGED <<registry, fresh, object, entry, root, call>>

(* A create that forgets the entries of the directory it makes. *)
CreateWithoutEntries(d, n, kind, rights) ==
  /\ kind # "Directory" => rights = {}
  /\ Make(kind, rights, object[d].above)
  /\ entry' = [entry EXCEPT ![d] = Insert(@, n, Len(object'))]
  /\ UNCHANGED <<registry, fresh, mounts, root, call>>

(* Directory handles, which may outlive their directories: the steps of    *)
(* their calls that entries show.  create puts in the entry of an object   *)
(* nobody has seen before; the test for the name is another lock earlier,  *)
(* so the entry may take the place of one made since.                      *)
Create(d, n, kind, rights) ==
  /\ kind # "Directory" => rights = {}
  /\ Make(kind, rights, object[d].above)
  /\ LET o == Len(object')
         linked == [entry EXCEPT ![d] = Insert(@, n, o)]
     IN  entry' = IF kind = "Directory" THEN Insert(linked, o, EmptyMap) ELSE linked
  /\ UNCHANGED <<registry, fresh, mounts, root, call>>

Delete(d, n) ==
  /\ n \in DOMAIN entry[d]
  /\ entry' = [entry EXCEPT ![d] = Remove(@, n)]
  /\ UNCHANGED <<registry, fresh, mounts, object, root, call>>

Rename(d, n, m) ==
  /\ n \in DOMAIN entry[d]
  /\ m \notin DOMAIN entry[d]
  /\ entry' = [entry EXCEPT ![d] = Remove(Insert(@, m, @[n]), n)]
  /\ UNCHANGED <<registry, fresh, mounts, object, root, call>>

(* chmod of a directory; of the others resolution asks no right. *)
Chmod(o, rights) ==
  /\ IsDirectory(o)
  /\ object[o].rights # rights
  /\ object' = [object EXCEPT ![o].rights = rights]
  /\ UNCHANGED <<registry, fresh, mounts, entry, root, call>>

-----------------------------------------------------------------------------

(* A context starts at the global root, which is there once "/" is mounted. *)
NewContext(c) ==
  /\ Idle(c)
  /\ root[c] = NoObject
  /\ <<Slash>> \in DOMAIN mounts
  /\ root' = [root EXCEPT ![c] = mounts[<<Slash>>]]
  /\ UNCHANGED <<registry, fresh, mounts, object, entry, call>>

(* A resolution that goes from the global root, whatever the context's. *)
FromGlobalRoot(c, path) ==
  [rest |-> Components(path), key |-> <<Slash>>, base |-> root[c],
   current |-> IF <<Slash>> \in DOMAIN mounts
               THEN mounts[<<Slash>>] ELSE root[c]]

(* The walk is at current, with the components of rest to go; key is       *)
(* current_path; base is where it began or came in through a mount.        *)
Walk(c, path) ==
  [rest |-> Components(path), key |-> <<Slash>>, base |-> root[c],
   current |-> root[c]]

(* A chroot open to everybody. *)
ResolveForAll(c, path, then) ==
  /\ Idle(c)
  /\ root[c] # NoObject
  /\ Resolvable(path)
  /\ Goto(c, [at |-> "mount", then |-> then, walk |-> Walk(c, path)])
  /\ UNCHANGED <<registry, fresh, mounts, object, entry, root>>

(* Every call that takes a path resolves it first; chroot tests the        *)
(* context before that.                                                    *)
Resolve(c, path, then) ==
  /\ Idle(c)
  /\ root[c] # NoObject
  /\ then = "chroot" => c \in PrivilegedContexts
  /\ Resolvable(path)
  /\ Goto(c, [at |-> "mount", then |-> then, walk |-> Walk(c, path)])
  /\ UNCHANGED <<registry, fresh, mounts, object, entry, root>>

Refused(c, path, then) ==
  /\ Idle(c)
  /\ root[c] # NoObject
  /\ \/ /\ then = "chroot" /\ c \notin PrivilegedContexts
        /\ Return(c, "PermissionDenied")
     \/ /\ then = "chroot" => c \in PrivilegedContexts
        /\ ~Resolvable(path)
        /\ Return(c, "InvalidArgument")
  /\ UNCHANGED <<registry, fresh, mounts, object, entry, root>>

On(c, at, w) == [at |-> at, then |-> call[c].then, walk |-> w]

(* format!("{}/{}", current_path, component), from "/" on. *)
NextKey(w) == w.key \o <<Slash, Head(w.rest)>>

(* A walk that comes through a mount and is not taken back to the loop.     *)
MountFallsThrough(c) ==
  LET w == call[c].walk
      k == NextKey(w)
  IN  /\ At(c, "mount")
      /\ w.rest # <<>>
      /\ Goto(c, On(c, "enter",
                    IF k \in DOMAIN mounts
                    THEN [w EXCEPT !.key = k, !.base = mounts[k], !.current = mounts[k]]
                    ELSE [w EXCEPT !.key = k]))
      /\ UNCHANGED <<registry, fresh, mounts, object, entry, root>>

(* The mount table is asked for the path so far; what is mounted there is   *)
(* where the walk goes on, and no directory is looked into.                *)
CheckMount(c) ==
  LET w == call[c].walk
      k == NextKey(w)
  IN  /\ At(c, "mount")
      /\ w.rest # <<>>
      /\ IF k \in DOMAIN mounts
         THEN Goto(c, On(c, "mount", [rest |-> Tail(w.rest), key |-> k,
                                      base |-> mounts[k], current |-> mounts[k]]))
         ELSE Goto(c, On(c, "enter", [w EXCEPT !.key = k]))
      /\ UNCHANGED <<registry, fresh, mounts, object, entry, root>>

Allowed(c, o, right) == c \in PrivilegedContexts \/ right \in object[o].rights

(* Where nothing is mounted the walk must be in a directory and may enter  *)
(* it, and, asked next, read it.                                           *)
CheckExecute(c) ==
  LET w == call[c].walk
  IN  /\ At(c, "enter")
      /\ \/ ~IsDirectory(w.current) /\ Return(c, "NotDirectory")
         \/ /\ IsDirectory(w.current)
            /\ ~Allowed(c, w.current, "EXECUTE")
            /\ Return(c, "PermissionDenied")
         \/ /\ IsDirectory(w.current)
            /\ Allowed(c, w.current, "EXECUTE")
            /\ Goto(c, On(c, "read", w))
      /\ UNCHANGED <<registry, fresh, mounts, object, entry, root>>

CheckRead(c) ==
  LET w == call[c].walk
  IN  /\ At(c, "read")
      /\ \/ ~Allowed(c, w.current, "READ") /\ Return(c, "PermissionDenied")
         \/ Allowed(c, w.current, "READ") /\ Goto(c, On(c, "look", w))
      /\ UNCHANGED <<registry, fresh, mounts, object, entry, root>>

(* The next component is looked up in the directory the walk is in. *)
Look(c) ==
  LET w == call[c].walk
  IN  /\ At(c, "look")
      /\ \/ /\ Head(w.rest) \notin DOMAIN entry[w.current]
            /\ Return(c, "NotFound")
         \/ /\ Head(w.rest) \in DOMAIN entry[w.current]
            /\ Goto(c, On(c, "mount",
                          [w EXCEPT !.rest = Tail(@),
                                    !.current = entry[@][Head(w.rest)]]))
      /\ UNCHANGED <<registry, fresh, mounts, object, entry, root>>

Resolved(c) == At(c, "mount") /\ call[c].walk.rest = <<>>

(* lookup, open, stat, ...: what the rest of the call does with the object *)
(* is the matter of other modules.                                         *)
Found(c) ==
  /\ Resolved(c)
  /\ call[c].then = "lookup"
  /\ Return(c, "Ok")
  /\ UNCHANGED <<registry, fresh, mounts, object, entry, root>>

(* A chroot to whatever the path leads to. *)
ChrootAnywhere(c) ==
  /\ Resolved(c)
  /\ call[c].then = "chroot"
  /\ root' = [root EXCEPT ![c] = call[c].walk.current]
  /\ Return(c, "Ok")
  /\ UNCHANGED <<registry, fresh, mounts, object, entry>>

Chroot(c) ==
  /\ Resolved(c)
  /\ call[c].then = "chroot"
  /\ \/ /\ IsDirectory(call[c].walk.current)
        /\ root' = [root EXCEPT ![c] = call[c].walk.current]
        /\ Return(c, "Ok")
     \/ /\ ~IsDirectory(call[c].walk.current)
        /\ Return(c, "NotDirectory")
        /\ UNCHANGED root
  /\ UNCHANGED <<registry, fresh, mounts, object, entry>>

-----------------------------------------------------------------------------

(* What others do to mounts and trees meanwhile. *)
Administer ==
  \/ \E name \in ObsNames : Register(name) \/ Mount(name)
  \/ \E path \in MountPaths : Unmount(path) \/ \E o \in fresh : Attach(o, path)
Change ==
  \/ \E d \in DOMAIN entry \ fresh, n \in Names :
       \/ \E kind \in Kind, rights \in Grants : Create(d, n, kind, rights)
       \/ Delete(d, n)
       \/ \E m \in Names : Rename(d, n, m)
  \/ \E o \in Made \ fresh, rights \in Grants : Chmod(o, rights)

Then == {"lookup", "chroot"}
Step(c) ==
  \/ NewContext(c)
  \/ \E path \in Paths, then \in Then :
       Resolve(c, path, then) \/ Refused(c, path, then)
  \/ CheckMount(c) \/ CheckExecute(c) \/ CheckRead(c) \/ Look(c)
  \/ Found(c) \/ Chroot(c)

Next == Administer \/ Change \/ \E c \in Contexts : Step(c)

Spec == Init /\ [][Next]_vars

-----------------------------------------------------------------------------

Answers == {Answer(r) : r \in {"none", "Ok", "PermissionDenied",
                               "InvalidArgument", "NotDirectory", "NotFound"}}
Walks == [rest: Seq(Names), key: Seq(Token), base: Made, current: Made]
Calls ==
  Answers \cup [at: {"mount", "enter", "read", "look"}, then: Then, walk: Walks]

(* Every variable has its declared range; directories are the objects that *)
(* have entries; where a walk looks for a name there is one left.          *)
TreeTypes ==
  /\ registry \subseteq ObsNames
  /\ DOMAIN mounts \subseteq MountPaths
  /\ \A p \in DOMAIN mounts : mounts[p] \in Tops /\ IsDirectory(mounts[p])
  /\ fresh \subseteq {o \in Tops : IsDirectory(o)}
  /\ \A p \in DOMAIN mounts : mounts[p] \notin fresh
  /\ object \in Seq([kind: Kind, rights: Grants, above: SUBSET Objects])
  /\ Len(object) <= MaxObjects
  /\ \A o \in Made : o \in object[o].above /\ object[o].above \subseteq Made
  /\ DOMAIN entry = {o \in Made : IsDirectory(o)}
  /\ \A d \in DOMAIN entry :
       /\ DOMAIN entry[d] \subseteq Names
       /\ \A n \in DOMAIN entry[d] : entry[d][n] \in Made
CallTypes ==
  /\ root \in [Contexts -> Made \cup {NoObject}]
  /\ call \in [Contexts -> Calls]
  /\ \A c \in Contexts :
       /\ Entering(c) => call[c].walk.rest # <<>>
       /\ Inside(c) => IsDirectory(call[c].walk.current)
(* A chroot under way was let through when it began. *)
ChrootsAllowed ==
  \A c \in Contexts :
    ~Idle(c) /\ call[c].then = "chroot" => c \in PrivilegedContexts
TypeOK == TreeTypes /\ CallTypes

(* What a directory holds was made below all that the directory is below.  *)
EntriesDescend ==
  \A d \in DOMAIN entry : \A n \in DOMAIN entry[d] :
    object[d].above \subseteq object[entry[d][n]].above

(* An object is below one top only, and a top is mounted at one path only. *)
OneTop ==
  /\ \A o \in Made : \A t, u \in Tops \cap object[o].above : t = u
  /\ \A p, q \in DOMAIN mounts : mounts[p] = mounts[q] => p = q

(* However the tree changes under it, a walk stays below the root of its   *)
(* context, or below the top of a superobject it came to through the mount *)
(* table: no path leads upwards.  A mount the walk came through may have    *)
(* been meant for that path from another root.                             *)
WalkStaysBelow ==
  \A c \in Contexts : ~Idle(c) =>
    LET w == call[c].walk
    IN  /\ w.base \in object[w.current].above
        /\ w.base \in Tops \cup {root[c]}

(* The root of every context is a directory, through any chroot. *)
RootsAreDirectories ==
  \A c \in Contexts : root[c] # NoObject => IsDirectory(root[c])

(* An object is below the directory that holds it and below all that that  *)
(* one is below, and it has one name at most.                              *)
Placed ==
  \A d \in DOMAIN entry : \A n \in DOMAIN entry[d] :
    /\ entry[d][n] \notin object[d].above
    /\ object[entry[d][n]].above = object[d].above \cup {entry[d][n]}
OneName ==
  \A d, e \in DOMAIN entry :
    \A n \in DOMAIN entry[d], m \in DOMAIN entry[e] :
      entry[d][n] = entry[e][m] => d = e /\ n = m

(* What all the above rests on. *)
Inductive ==
  /\ TypeOK
  /\ ChrootsAllowed
  /\ EntriesDescend
  /\ OneTop
  /\ WalkStaysBelow
  /\ RootsAreDirectories

(* The invariant of resolution, and trees that are trees. *)
TreesInductive == Inductive /\ Placed /\ OneName

(* Mounts at different paths have nothing in common: no object of one is   *)
(* linked in the tree of the other.                                        *)
MountsApart ==
  \A p, q \in DOMAIN mounts : p # q =>
    \A o \in Made : ~({mounts[p], mounts[q]} \subseteq object[o].above)

(* A root, once given, is moved only by a privileged context, which has    *)
(* walked there from the root it had or from a mount.                      *)
Jailed ==
  \A c \in Contexts : root[c] # NoObject /\ root'[c] # root[c] =>
    /\ c \in PrivilegedContexts
    /\ \E o \in object[root'[c]].above :
         o = root[c] \/ (o \in Tops /\ o = call[c].walk.base)
RootsStay == [][Jailed]_vars

(* A key spells a slash, and a slash and a name for each component taken.  *)
NamesIn(key) == Len(key) \div 2
NameAt(key, i) == key[2 * i + 1]
Prefix(key, i) == SubSeq(key, 1, 2 * i + 1)

(* The components a walk has gone through; the one it is about to enter is  *)
(* in its key already.                                                     *)
Taken(c) == NamesIn(call[c].walk.key) - (IF Entering(c) THEN 1 ELSE 0)

(* What a walk has taken and what it has left are one of the paths.         *)
OnPath(c) ==
  LET w == call[c].walk
  IN  /\ Len(w.key) = 2 * NamesIn(w.key) + 1
      /\ Entering(c) => Taken(c) >= 0 /\ NameAt(w.key, NamesIn(w.key)) = Head(w.rest)
      /\ \E path \in Paths :
           /\ Resolvable(path)
           /\ Components(path) = [i \in 1 .. Taken(c) |-> NameAt(w.key, i)] \o w.rest

(* Where a walk should be: it began, or went on, at the last of its        *)
(* prefixes that something is mounted at, or else at the root of its       *)
(* context, and followed one entry for each component since.               *)
CameIn(c, j) ==
  LET w == call[c].walk
  IN  \/ j = 0 /\ w.base = root[c]
      \/ /\ j > 0
         /\ Prefix(w.key, j) \in DOMAIN mounts
         /\ w.base = mounts[Prefix(w.key, j)]
NoMountAfter(key, j) ==
  \A i \in j + 1 .. NamesIn(key) : Prefix(key, i) \notin DOMAIN mounts
Follows(trail, key, j, m) ==
  \A i \in j + 1 .. m :
    /\ trail[i - 1] \in DOMAIN entry
    /\ NameAt(key, i) \in DOMAIN entry[trail[i - 1]]
    /\ trail[i] = entry[trail[i - 1]][NameAt(key, i)]
Leads(key, j, m, from, to) ==
  \E trail \in [j .. m -> Made] :
    trail[j] = from /\ trail[m] = to /\ Follows(trail, key, j, m)
OnTrail(c) ==
  LET w == call[c].walk
  IN  \E j \in 0 .. Taken(c) :
        /\ CameIn(c, j)
        /\ NoMountAfter(w.key, j)
        /\ Leads(w.key, j, Taken(c), w.base, w.current)

RightSoFar(c) == ~Idle(c) => OnPath(c) /\ OnTrail(c)

(* Every step of a walk takes it on along its path: only others, when they *)
(* change the table or an entry, can leave it beside its trail.            *)
Keeps(c) == call'[c] # call[c] /\ RightSoFar(c) => RightSoFar(c)'
WalksKeepToPaths == [][\A c \in Contexts : Keeps(c)]_vars

-----------------------------------------------------------------------------

(* "Mounts the FS at the specified point": a walk that has come to a path   *)
(* something is mounted at goes on in what is mounted there.               *)
MountsAreEntered ==
  [][\A c \in Contexts, p \in MountPaths :
       /\ p \in DOMAIN mounts
       /\ At(c, "mount")
       /\ call'[c].at = "enter"
       => Components(p) # Components(call'[c].walk.key)]_vars

=============================================================================
