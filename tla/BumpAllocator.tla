---------------------------- MODULE BumpAllocator ----------------------------
(***************************************************************************)
(* The heap of the kernel: SmartAllocator, the global allocator, hands     *)
(* every request to the allocator kmain has given it, a SimpleAllocator    *)
(* over the arena behind the kernel, which cuts blocks off its start and   *)
(* never takes one back.  A request it cannot meet ends in oom, a panic.   *)
(***************************************************************************)
EXTENDS Integers

CONSTANTS
  Start, Size,  \* the arena
  Layouts,      \* the layouts requested: a size and an alignment each
  Half          \* usize counts to 2 * Half - 1, isize to Half - 1

Usize == 0 .. 2 * Half - 1

(* The arena ends below the end of memory; Layout keeps a size, rounded up *)
(* to its alignment, in an isize.                                          *)
ASSUME ArenaAssumption ==
  /\ Half \in Nat \ {0}
  /\ Start \in Nat \ {0}
  /\ Size \in 0 .. Half
  /\ Start + Size < 2 * Half
ASSUME LayoutsAssumption ==
  \A l \in Layouts :
    /\ l = [size |-> l.size, align |-> l.align]
    /\ l.size \in Nat \ {0}
    /\ l.align \in Nat \ {0}
    /\ l.size + l.align <= Half

VARIABLES
  current,  \* SimpleAllocator.current: the offset of what is left
  global,   \* GLOBAL_ALLOCATOR: whether it has been set
  live,     \* the blocks in use
  panic     \* why the kernel has panicked, with the layout refused, for oom

vars == <<current, global, live, panic>>

NoPanic == [why |-> "none"]
Twice == [why |-> "Global allocator already initialized"]
OomAt(l) == [why |-> "oom", layout |-> l]
Running == panic = NoPanic

(* Arithmetic of usize. *)
Plus(x, y) == (x + y) % (2 * Half)

Remainder(l) == Plus(Start, current) % l.align

(* Aligns an address that is aligned already, too. *)
PadAlways(l) == l.align - Remainder(l)
Pad(l) == IF Remainder(l) = 0 THEN 0 ELSE l.align - Remainder(l)

AlignedOffset(l) == Plus(current, Pad(l))
NewOffset(l) == Plus(AlignedOffset(l), l.size)

(* No bounds, and the bounds of alloc. *)
Anything(l) == TRUE
Fits(l) == NewOffset(l) <= Size

Init ==
  /\ current = 0
  /\ global = FALSE
  /\ live = {}
  /\ panic = NoPanic

(* init_global_allocator panics when it is called again. *)
InitGlobalAllocator ==
  /\ Running
  /\ global' = TRUE
  /\ panic' = IF global THEN Twice ELSE NoPanic
  /\ UNCHANGED <<current, live>>

Block(l) == [at |-> Plus(Start, AlignedOffset(l)), layout |-> l]

(* A block that begins where the alignment was computed from. *)
AllocUnaligned(l) ==
  /\ Running /\ global /\ Fits(l)
  /\ current' = NewOffset(l)
  /\ live' = live \cup {[at |-> Plus(Start, current), layout |-> l]}
  /\ UNCHANGED <<global, panic>>

(* An offset that forgets the padding. *)
AllocForgetsPad(l) ==
  /\ Running /\ global /\ Fits(l)
  /\ current' = Plus(current, l.size)
  /\ live' = live \cup {Block(l)}
  /\ UNCHANGED <<global, panic>>

Alloc(l) ==
  /\ Running /\ global /\ Fits(l)
  /\ current' = NewOffset(l)
  /\ live' = live \cup {Block(l)}
  /\ UNCHANGED <<global, panic>>

(* Null: alloc_error_handler panics. *)
Oom(l) ==
  /\ Running
  /\ ~global \/ ~Fits(l)
  /\ panic' = OomAt(l)
  /\ UNCHANGED <<current, global, live>>

Dealloc(b) ==
  /\ Running
  /\ live' = live \ {b}
  /\ UNCHANGED <<current, global, panic>>

(* reset, which nothing calls: it is right when no block is in use. *)
Reset ==
  /\ Running
  /\ live = {}
  /\ current' = 0
  /\ UNCHANGED <<global, live, panic>>

Next ==
  \/ InitGlobalAllocator
  \/ \E l \in Layouts : Alloc(l) \/ Oom(l)
  \/ \E b \in live : Dealloc(b)
  \/ Reset

Spec == Init /\ [][Next]_vars

-----------------------------------------------------------------------------

(* Every variable has its declared range. *)
TypeOK ==
  /\ current \in 0 .. Size
  /\ global \in BOOLEAN
  /\ live \subseteq [at: Usize, layout: Layouts]
  /\ panic \in {NoPanic, Twice} \cup {OomAt(l) : l \in Layouts}

(* Blocks in use are aligned and lie in the part of the arena that is used *)
(* up.                                                                     *)
BlocksInPlace ==
  \A b \in live :
    /\ b.at % b.layout.align = 0
    /\ Start <= b.at
    /\ b.at + b.layout.size <= Start + current

(* No two blocks in use share a byte. *)
BlocksApart ==
  \A b, c \in live :
    \/ b = c
    \/ b.at + b.layout.size <= c.at
    \/ c.at + c.layout.size <= b.at

(* No request, however large, makes the arithmetic of alloc wrap around. *)
NothingWraps ==
  \A l \in Layouts :
    /\ Start + current \in Usize
    /\ current + Pad(l) + l.size \in Usize

(* Once the allocator is set, only a request there is no room for in what  *)
(* is left, wherever a block may begin, ends in oom.                       *)
OomMeansFull ==
  \A l \in Layouts : global /\ panic = OomAt(l) =>
    \A off \in current .. Size :
      (Start + off) % l.align = 0 => off + l.size > Size

=============================================================================
