-------------------------------- MODULE Boot --------------------------------
(***************************************************************************)
(* From early_boot to the OK on the screen: the page tables, then kboot    *)
(* and kmain, which set the heap up before anything asks for memory, make  *)
(* the device managers global, register the object systems, mount ramobs   *)
(* at "/" and open it.  kmain looks at none of the answers.  The heap is   *)
(* the arena behind the kernel, reached through the low window; at every   *)
(* place after it is set the kernel makes whatever requests it likes.      *)
(***************************************************************************)
EXTENDS EarlyPaging, BumpAllocator, Sequences

CONSTANTS
  PageSize

ASSUME PageAssumption == PageSize \in Nat \ {0}

VARIABLES
  place,       \* where the boot has come
  managers,    \* the device managers: "none", "made" or "global"
  registry, fresh, mounts, object, links, root, call   \* the VFS

Kernel == "kernel"  \* the default context: uid 0
RootPath == <<"/">>

Vfs == INSTANCE VfsPaths WITH
  Contexts <- {Kernel}, PrivilegedContexts <- {Kernel}, ObsNames <- {"ramobs"},
  Names <- {}, Paths <- {RootPath}, MountPaths <- {RootPath}, Grants <- {{}},
  MaxObjects <- 1, entry <- links

heapVars == vars
vfsVars == <<registry, fresh, mounts, object, links, root, call>>
bootVars == <<pagingVars, heapVars, place, managers, vfsVars>>

At(p) == place = p /\ Running

(* Memory before the heap, a mount of what is not registered yet, and the  *)
(* order of kmain.                                                         *)
ManagersFirst ==
  [kboot |-> "managers", managers |-> "allocator", allocator |-> "globals",
   globals |-> "register", register |-> "mount", mount |-> "open", open |-> "ok"]
MountFirst ==
  [kboot |-> "allocator", allocator |-> "managers", managers |-> "globals",
   globals |-> "mount", mount |-> "register", register |-> "open", open |-> "ok"]
After ==
  [kboot |-> "allocator", allocator |-> "managers", managers |-> "globals",
   globals |-> "register", register |-> "mount", mount |-> "open", open |-> "ok"]

BootInit ==
  /\ PagingInit
  /\ Init
  /\ Vfs!Init
  /\ place = "early_boot"
  /\ managers = "none"

EarlyBoot ==
  /\ At("early_boot")
  /\ PagingNext
  /\ place' = IF paging' THEN "kboot" ELSE place
  /\ UNCHANGED <<heapVars, managers, vfsVars>>

(* kboot stops at a magic number it does not know. *)
Kboot ==
  /\ At("kboot")
  /\ place' \in {After.kboot, "halted"}
  /\ UNCHANGED <<pagingVars, heapVars, managers, vfsVars>>

SetAllocator ==
  /\ At("allocator")
  /\ InitGlobalAllocator
  /\ place' = After.allocator
  /\ UNCHANGED <<pagingVars, managers, vfsVars>>

(* finalize_setup, and init of the managers. *)
MakeManagers ==
  /\ At("managers")
  /\ managers' = "made"
  /\ place' = After.managers
  /\ UNCHANGED <<pagingVars, heapVars, vfsVars>>

InitGlobals ==
  /\ At("globals")
  /\ managers' = "global"
  /\ place' = After.globals
  /\ UNCHANGED <<pagingVars, heapVars, vfsVars>>

(* let _ = ...: an error changes nothing and is not looked at. *)
RegisterAll ==
  /\ At("register")
  /\ IF "ramobs" \in registry THEN UNCHANGED vfsVars ELSE Vfs!Register("ramobs")
  /\ place' = After.register
  /\ UNCHANGED <<pagingVars, heapVars, managers>>

(* mount fails where nothing of the name is registered; else it makes a    *)
(* superobject and gives it to the table, which may have the path already. *)
MountRoot ==
  /\ At("mount")
  /\ IF "ramobs" \in registry
     THEN Vfs!Mount("ramobs") /\ place' = "attach"
     ELSE UNCHANGED vfsVars /\ place' = After.mount
  /\ UNCHANGED <<pagingVars, heapVars, managers>>

AttachRoot ==
  /\ At("attach")
  /\ IF RootPath \in DOMAIN mounts
     THEN UNCHANGED vfsVars
     ELSE \E o \in fresh : Vfs!Attach(o, RootPath)
  /\ place' = After.mount
  /\ UNCHANGED <<pagingVars, heapVars, managers>>

(* open makes a default context and resolves the path in it; without a     *)
(* root there is no context, and open fails.                               *)
OpenRoot ==
  /\ At("open")
  /\ IF RootPath \in DOMAIN mounts
     THEN \/ /\ Vfs!NewContext(Kernel) \/ Vfs!Resolve(Kernel, RootPath, "lookup")
             /\ UNCHANGED place
          \/ /\ Vfs!Found(Kernel)
             /\ place' = After.open
     ELSE /\ place' = After.open
          /\ UNCHANGED vfsVars
  /\ UNCHANGED <<pagingVars, heapVars, managers>>

(* What is asked of the heap on the way. *)
Requests ==
  /\ place \in {"managers", "globals", "register", "mount", "attach", "open"}
  /\ Next
  /\ UNCHANGED <<pagingVars, place, managers, vfsVars>>

BootStep ==
  \/ EarlyBoot \/ Kboot
  \/ SetAllocator \/ MakeManagers \/ InitGlobals
  \/ RegisterAll \/ MountRoot \/ AttachRoot \/ OpenRoot

BootNext == BootStep \/ Requests

(* The one processor goes on: a place asks the heap for a finite number of *)
(* blocks, and nothing in the boot waits.                                  *)
BootSpec == BootInit /\ [][BootNext]_bootVars /\ WF_bootVars(BootStep)

-----------------------------------------------------------------------------

(* The frame the processor finds behind an address, and the byte in it.    *)
FrameAt(address) ==
  LET page == address \div PageSize
  IN  Translate(page \div Entries, page % Entries)
Physical(address) == FrameAt(address) * PageSize + (address % PageSize)

(* The ends of the low window and of what is below the higher half.        *)
Top == (Tables * Entries) * PageSize
HigherStart == (HigherHalf * Entries) * PageSize

(* Neither kboot nor the linker script tests where the arena ends, so a    *)
(* block may lie across the top of what is mapped.  Each of its bytes      *)
(* below is where its address says, through both windows; each above it    *)
(* faults when it is used, and is never another byte of memory.            *)
BlocksMapped ==
  \A b \in live : \A address \in b.at .. (b.at + b.layout.size - 1) :
    /\ address < Top => /\ Physical(address) = address
                        /\ Physical(HigherStart + address) = address
    /\ Top <= address /\ address < HigherStart => FrameAt(address) = NotPresent

(* No request comes before there is a heap, so what ends in oom is a       *)
(* request the arena could not meet.                                       *)
HeapBeforeUse == panic \notin {NoPanic, Twice} => global

(* Although kmain looks at no answer, an OK on the screen tells that "/"   *)
(* is mounted and opens, and that the device managers can be asked for.    *)
OkMeansReady ==
  place = "ok" =>
    /\ managers = "global"
    /\ RootPath \in DOMAIN mounts
    /\ call[Kernel] = Vfs!Answer("Ok")

(* The boot comes to its OK or stops in a panic: no loop of it runs away.  *)
BootEnds == <>(place \in {"ok", "halted"} \/ ~Running)

=============================================================================
