----------------------------- MODULE BootProofs -----------------------------
(***************************************************************************)
(* Proofs about Boot, for any sizes of memory: the boot is a behaviour of  *)
(* EarlyPaging and of BumpAllocator, whose theorems so hold all through    *)
(* it, and the blocks the heap hands out are where their addresses say.    *)
(***************************************************************************)
EXTENDS Boot, BumpAllocatorProofs, EarlyPagingProofs

Places ==
  {"early_boot", "kboot", "halted", "allocator", "managers", "globals",
   "register", "mount", "attach", "open", "ok"}

(* What the boot has done by the time it is at a place. *)
Done ==
  /\ place \in Places
  /\ place # "early_boot" => paging
  /\ place = "early_boot" => live = {}
  /\ place \in {"early_boot", "kboot", "halted", "allocator"} \/ global
  /\ panic \notin {NoPanic, Twice} => global
  /\ place \in {"register", "mount", "attach", "open", "ok"} => managers = "global"
  /\ place \in {"mount", "attach", "open", "ok"} => "ramobs" \in registry
  /\ place \in {"open", "ok"} => RootPath \in DOMAIN mounts
  /\ call = [c \in {Kernel} |-> call[c]]
  /\ place = "ok" => call[Kernel] = Vfs!Answer("Ok")

-----------------------------------------------------------------------------
(* The parts. *)

LEMMA HeapPart ==
  ASSUME [BootNext]_bootVars
  PROVE  [Next]_heapVars
<1>1. CASE EarlyBoot
  BY <1>1 DEF EarlyBoot, heapVars
<1>2. CASE Kboot
  BY <1>2 DEF Kboot, heapVars
<1>3. CASE SetAllocator
  BY <1>3 DEF SetAllocator, Next
<1>4. CASE MakeManagers \/ InitGlobals \/ RegisterAll \/ MountRoot \/ AttachRoot \/ OpenRoot
  BY <1>4 DEF MakeManagers, InitGlobals, RegisterAll, MountRoot, AttachRoot, OpenRoot,
              heapVars
<1>5. CASE Requests
  BY <1>5 DEF Requests
<1>6. CASE UNCHANGED bootVars
  BY <1>6 DEF bootVars, heapVars
<1>7. QED
  BY <1>1, <1>2, <1>3, <1>4, <1>5, <1>6 DEF BootNext, BootStep

LEMMA PagingPart ==
  ASSUME [BootNext]_bootVars
  PROVE  [PagingNext]_pagingVars
<1>1. CASE EarlyBoot
  BY <1>1 DEF EarlyBoot
<1>2. CASE Kboot \/ SetAllocator \/ MakeManagers \/ InitGlobals
  BY <1>2 DEF Kboot, SetAllocator, MakeManagers, InitGlobals
<1>3. CASE RegisterAll \/ MountRoot \/ AttachRoot \/ OpenRoot
  BY <1>3 DEF RegisterAll, MountRoot, AttachRoot, OpenRoot
<1>4. CASE Requests
  BY <1>4 DEF Requests
<1>5. CASE UNCHANGED bootVars
  BY <1>5 DEF bootVars
<1>6. QED
  BY <1>1, <1>2, <1>3, <1>4, <1>5 DEF BootNext, BootStep

(* The boot implements the heap: what BumpAllocator promises holds of every *)
(* request kmain and what it calls make.                                   *)
THEOREM BootImplementsHeap == BootSpec => Spec
<1>1. BootInit => Init
  BY DEF BootInit
<1>2. [BootNext]_bootVars => [Next]_vars
  BY HeapPart DEF heapVars
<1>3. QED
  BY <1>1, <1>2, PTL DEF BootSpec, Spec

(* The boot implements the page tables: kboot and kmain leave them alone.   *)
THEOREM BootImplementsPaging == BootSpec => PagingSpec
<1>1. BootInit => PagingInit
  BY DEF BootInit
<1>2. [BootNext]_bootVars => [PagingNext]_pagingVars
  BY PagingPart
<1>3. QED
  BY <1>1, <1>2, PTL DEF BootSpec, PagingSpec

-----------------------------------------------------------------------------
(* The order of the boot. *)

LEMMA DoneAtFirst == BootInit => Done
BY DEF BootInit, Init, Vfs!Init, Done, Places, NoPanic, Twice

LEMMA DoneInOrder ==
  ASSUME Done, [BootNext]_bootVars
  PROVE  Done'
<1> USE DEF Places
<1>1. CASE EarlyBoot
  BY <1>1 DEF EarlyBoot, At, Running, Done, heapVars, vars, vfsVars, PagingNext,
     ClearEntry, FillEntry, MapWindows, EnablePaging
<1>2. CASE Kboot
  BY <1>2 DEF Kboot, At, Done, After, heapVars, vars, vfsVars, pagingVars
<1>3. CASE SetAllocator
  BY <1>3 DEF SetAllocator, InitGlobalAllocator, At, Done, After, vfsVars, pagingVars
<1>4. CASE MakeManagers
  BY <1>4 DEF MakeManagers, At, Done, After, heapVars, vars, vfsVars, pagingVars
<1>5. CASE InitGlobals
  BY <1>5 DEF InitGlobals, At, Done, After, heapVars, vars, vfsVars, pagingVars
<1>6. CASE RegisterAll
  <2>1. "ramobs" \in registry'
    BY <1>6 DEF RegisterAll, vfsVars, Vfs!Register
  <2>2. UNCHANGED <<mounts, call>>
    BY <1>6 DEF RegisterAll, vfsVars, Vfs!Register
  <2>3. QED
    BY <1>6, <2>1, <2>2 DEF RegisterAll, At, Done, After, heapVars, vars, pagingVars
<1>7. CASE MountRoot
  <2>1. place = "mount" /\ "ramobs" \in registry
    BY <1>7 DEF MountRoot, At, Done
  <2>2. place' = "attach" /\ UNCHANGED <<registry, call>>
    BY <1>7, <2>1 DEF MountRoot, Vfs!Mount
  <2>3. QED
    BY <1>7, <2>1, <2>2 DEF MountRoot, Done, heapVars, vars, pagingVars
<1>12. CASE AttachRoot
  <2>1. RootPath \in DOMAIN mounts'
    BY <1>12 DEF AttachRoot, vfsVars, Vfs!Attach, Vfs!Insert
  <2>2. UNCHANGED <<registry, call>>
    BY <1>12 DEF AttachRoot, vfsVars, Vfs!Attach
  <2>3. QED
    BY <1>12, <2>1, <2>2 DEF AttachRoot, At, Done, After, heapVars, vars, pagingVars
<1>8. CASE OpenRoot
  <2>1. place = "open" /\ RootPath \in DOMAIN mounts
    BY <1>8 DEF OpenRoot, At, Done
  <2>2. \/ /\ Vfs!NewContext(Kernel) \/ Vfs!Resolve(Kernel, RootPath, "lookup")
           /\ UNCHANGED place
        \/ /\ Vfs!Found(Kernel)
           /\ place' = "ok"
    BY <1>8, <2>1 DEF OpenRoot, After
  <2>3. UNCHANGED <<registry, mounts>>
    BY <2>2 DEF Vfs!NewContext, Vfs!Resolve, Vfs!Found
  <2>4. call' = [c \in {Kernel} |-> call'[c]]
    BY <2>2 DEF Done, Vfs!NewContext, Vfs!Resolve, Vfs!Found, Vfs!Goto, Vfs!Return
  <2>5. place' = "ok" => call'[Kernel] = Vfs!Answer("Ok")
    BY <2>1, <2>2 DEF Done, Vfs!Found, Vfs!Goto, Vfs!Return
  <2>6. QED
    BY <1>8, <2>1, <2>2, <2>3, <2>4, <2>5
    DEF OpenRoot, Done, heapVars, vars, pagingVars
<1>9. CASE Requests
  <2>1. global /\ UNCHANGED <<paging, place, managers, registry, mounts, call>>
    BY <1>9 DEF Requests, Done, pagingVars, vfsVars
  <2>2. global'
    BY <1>9, <2>1 DEF Requests, Next, InitGlobalAllocator, Alloc, Oom, Dealloc, Reset
  <2>3. QED
    BY <1>9, <2>1, <2>2 DEF Requests, Done
<1>10. CASE UNCHANGED bootVars
  BY <1>10 DEF bootVars, heapVars, vars, vfsVars, pagingVars, Done
<1>11. QED
  BY <1>1, <1>2, <1>3, <1>4, <1>5, <1>6, <1>7, <1>8, <1>9, <1>10, <1>12
  DEF BootNext, BootStep

(* kmain's order: each thing is there by the time the next one needs it.    *)
THEOREM BootGoesInOrder == BootSpec => []Done
<1>1. Done /\ [BootNext]_bootVars => Done'
  BY DoneInOrder
<1>2. QED
  BY <1>1, DoneAtFirst, PTL DEF BootSpec

(* Nothing asks for memory before kmain has set the allocator.              *)
THEOREM HeapIsSetFirst == BootSpec => []HeapBeforeUse
<1>1. Done => HeapBeforeUse
  BY DEF Done, HeapBeforeUse
<1>2. QED
  BY <1>1, BootGoesInOrder, PTL

(* kmain looks at no answer of register_all, mount and open, and need not:  *)
(* where it writes its OK, all three have succeeded.                       *)
THEOREM OkIsTrue == BootSpec => []OkMeansReady
<1>1. Done => OkMeansReady
  BY DEF Done, OkMeansReady
<1>2. QED
  BY <1>1, BootGoesInOrder, PTL

-----------------------------------------------------------------------------
(* Addresses. *)

LEMMA DivMod ==
  ASSUME NEW m \in Nat \ {0}, NEW q \in Nat, NEW r \in 0 .. m - 1
  PROVE  (q * m + r) \div m = q /\ (q * m + r) % m = r
OBVIOUS

LEMMA Quotient ==
  ASSUME NEW m \in Nat \ {0}, NEW n \in Nat, NEW x \in Nat, x < n * m
  PROVE  /\ x \div m \in 0 .. n - 1
         /\ x % m \in 0 .. m - 1
         /\ x = (x \div m) * m + (x % m)
<1>1. PICK q, r : q = x \div m /\ r = x % m
  OBVIOUS
<1>2. q \in Int /\ r \in 0 .. m - 1 /\ x = q * m + r
  BY <1>1
<1>3. q >= 0
  BY <1>2
<1>4. q < n
  BY <1>2
<1>5. QED
  BY <1>1, <1>2, <1>3, <1>4

(* What is mapped is found through either window.                           *)
LEMMA FoundThroughBoth ==
  ASSUME PagingInvariant, paging,
         NEW a \in Nat, a < Top
  PROVE  Physical(a) = a /\ Physical(HigherStart + a) = a
<1>1. /\ PageSize \in Nat \ {0} /\ Entries \in Nat \ {0}
      /\ Tables \in Nat /\ HigherHalf \in Nat
  BY PageAssumption, Sizes
<1>2. PICK n : n = Tables * Entries
  OBVIOUS
<1>3. n \in Nat
  BY <1>1, <1>2
<1>4. PICK page, r : page = a \div PageSize /\ r = a % PageSize
  OBVIOUS
<1>5. page \in 0 .. n - 1 /\ r \in 0 .. PageSize - 1 /\ a = page * PageSize + r
  BY <1>1, <1>2, <1>3, <1>4, Quotient DEF Top
<1>6. PICK t, e : t = page \div Entries /\ e = page % Entries
  OBVIOUS
<1>7. page \in Nat /\ page < Tables * Entries
  BY <1>2, <1>3, <1>5
<1>8. t \in 0 .. Tables - 1 /\ e \in 0 .. Entries - 1 /\ page = t * Entries + e
  BY <1>1, <1>6, <1>7, Quotient
<1>9. t \in Table /\ e \in Slot
  BY <1>8 DEF Table, Slot
<1>10. Translate(t, e) = page /\ Translate(HigherHalf + t, e) = page
  BY <1>8, <1>9, WindowsFollow DEF WindowsAgree
<1>11. Physical(a) = a
  BY <1>4, <1>5, <1>6, <1>10 DEF Physical, FrameAt
<1>12. PICK w : w = HigherHalf * Entries
  OBVIOUS
<1>13. w \in Nat
  BY <1>1, <1>12
<1>14. PICK b : b = w * PageSize + a
  OBVIOUS
<1>15. PICK q : q = w + page
  OBVIOUS
<1>16. q \in Nat /\ b = q * PageSize + r
  BY <1>1, <1>5, <1>13, <1>14, <1>15
<1>17. b \div PageSize = q /\ b % PageSize = r
  BY <1>1, <1>5, <1>16, DivMod
<1>18. PICK s : s = HigherHalf + t
  OBVIOUS
<1>19. s \in Nat /\ q = s * Entries + e
  BY <1>1, <1>8, <1>12, <1>15, <1>18
<1>20. q \div Entries = s /\ q % Entries = e
  BY <1>1, <1>8, <1>19, DivMod
<1>21. Physical(b) = page * PageSize + r
  BY <1>10, <1>17, <1>18, <1>20 DEF Physical, FrameAt
<1>22. QED
  BY <1>5, <1>11, <1>12, <1>14, <1>21 DEF HigherStart

(* What is between the windows is not mapped.                               *)
LEMMA FaultsBetween ==
  ASSUME PagingInvariant, paging,
         NEW a \in Nat, Top <= a, a < HigherStart
  PROVE  FrameAt(a) = NotPresent
<1>1. /\ PageSize \in Nat \ {0} /\ Entries \in Nat \ {0}
      /\ Tables \in Nat /\ HigherHalf \in Nat /\ HigherHalf < Entries
  BY PageAssumption, Sizes, PagingAssumption
<1>2. PICK n, h : n = Tables * Entries /\ h = HigherHalf * Entries
  OBVIOUS
<1>3. n \in Nat /\ h \in Nat
  BY <1>1, <1>2
<1>4. PICK page : page = a \div PageSize
  OBVIOUS
<1>5. page \in 0 .. h - 1 /\ page >= n
  <2>1. page \in 0 .. h - 1 /\ a = page * PageSize + (a % PageSize) /\ a % PageSize \in 0 .. PageSize - 1
    BY <1>1, <1>2, <1>3, <1>4, Quotient DEF HigherStart
  <2>2. n * PageSize <= a
    BY <1>2 DEF Top
  <2>3. n * PageSize < (page + 1) * PageSize
    BY <1>1, <1>3, <2>1, <2>2
  <2>4. n < page + 1
    BY <1>1, <1>3, <2>1, <2>3
  <2>5. QED
    BY <1>3, <2>1, <2>4
<1>6. PICK s, e : s = page \div Entries /\ e = page % Entries
  OBVIOUS
<1>7. s \in 0 .. HigherHalf - 1 /\ e \in 0 .. Entries - 1 /\ page = s * Entries + e
  <2>1. page \in Nat /\ page < HigherHalf * Entries
    BY <1>2, <1>3, <1>5
  <2>2. QED
    BY <1>1, <1>6, <2>1, Quotient
<1>8. s >= Tables
  <2>1. Tables * Entries < (s + 1) * Entries
    BY <1>1, <1>2, <1>5, <1>7
  <2>2. Tables < s + 1
    BY <1>1, <1>7, <2>1
  <2>3. QED
    BY <1>1, <1>7, <2>2
<1>9. s \in Slot /\ directory[s] = SlotLeadsTo(s)
  BY <1>1, <1>7 DEF PagingInvariant, Slot
<1>10. SlotLeadsTo(s) = NotPresent
  BY <1>1, <1>7, <1>8, PagingAssumption DEF SlotLeadsTo, Table
<1>11. QED
  BY <1>4, <1>6, <1>9, <1>10 DEF FrameAt, Translate

(* The heap is where its addresses say, for any place and size of the       *)
(* arena: below the end of the windows every byte of every block is mapped *)
(* to itself and the higher half shows the same byte, and above it a block *)
(* is nowhere, so that using it cannot change other memory.                *)
THEOREM HeapIsMapped == BootSpec => []BlocksMapped
<1>1. Inductive /\ PagingInvariant /\ Done => BlocksMapped
  <2> SUFFICES ASSUME Inductive, PagingInvariant, Done, NEW b \in live,
                      NEW a \in b.at .. (b.at + b.layout.size - 1)
               PROVE  /\ a < Top => /\ Physical(a) = a
                                    /\ Physical(HigherStart + a) = a
                      /\ Top <= a /\ a < HigherStart => FrameAt(a) = NotPresent
    BY DEF BlocksMapped
  <2>1. paging
    BY DEF Done
  <2>2. a \in Nat
    BY LayoutsAssumption DEF Inductive, TypeOK, Usize
  <2>3. QED
    BY <2>1, <2>2, FoundThroughBoth, FaultsBetween
<1>2. QED
  BY <1>1, BootImplementsHeap, HeapInvariant, BootImplementsPaging,
     PagingInvariance, BootGoesInOrder, PTL

=============================================================================
