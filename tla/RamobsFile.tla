---------------------------- MODULE RamobsFile ----------------------------
(***************************************************************************)
(* One file of ramobs and the handles open on it: the calls of             *)
(* RamobsFileHandle, by several tasks that may share a handle.  The bytes  *)
(* are in a vector under a lock of its own, the size in the metadata, the  *)
(* position and the seek policy in the handle.  A step takes one lock, or  *)
(* several while it holds the first.  Of the data only the length is kept; *)
(* where the lines end is left open.  The buffers callers pass have the    *)
(* room they ask to be filled.                                             *)
(***************************************************************************)
EXTENDS Integers

CONSTANTS
  Tasks,
  Handles,      \* the handles open on the file
  Readable,     \* those with READ
  Writable,     \* those with WRITE or APPEND
  MaxSize,      \* the largest size asked for in a call
  SeekOffsets   \* the offsets passed to seek

ASSUME HandlesAssumption == Readable \subseteq Handles /\ Writable \subseteq Handles
ASSUME SizesAssumption == MaxSize \in Nat /\ SeekOffsets \subseteq Int

Size == 0 .. MaxSize
SeekWhence == {"Cur", "Set", "End"}
SeekPolicy == [disable_negative: BOOLEAN, allow_out_of_file: BOOLEAN]

VARIABLES
  length,    \* of RamobsFileData.data
  size,      \* MetadataInner.size
  position,  \* of each handle
  policy,    \* of each handle
  call       \* where each task is in the call it makes

vars == <<length, size, position, policy, call>>

Done(r) == [at |-> "idle", result |-> r]
At(t, l) == call[t].at = l
Idle(t) == At(t, "idle")
Goto(t, r) == call' = [call EXCEPT ![t] = r]

Least(a, b) == IF a < b THEN a ELSE b

-----------------------------------------------------------------------------

(* create_inode gives size 0, RamobsFileData::new no bytes. *)
Init ==
  /\ length = 0
  /\ size = 0
  /\ position = [h \in Handles |-> 0]
  /\ policy = [h \in Handles |->
                 [disable_negative |-> FALSE, allow_out_of_file |-> FALSE]]
  /\ call = [t \in Tasks |-> Done("none")]

(* A call begins with the test of the handle's flags. *)
Enter(t, h, open) ==
  /\ Idle(t)
  /\ h \in open
  /\ UNCHANGED <<length, size, position, policy>>

Denied(t, h, open) ==
  /\ Idle(t)
  /\ h \notin open
  /\ Goto(t, Done("PermissionDenied"))
  /\ UNCHANGED <<length, size, position, policy>>

(* read and readfull *)
Read(t, h, n, unblocked) ==
  /\ Enter(t, h, Readable)
  /\ Goto(t, [at |-> "read", h |-> h, n |-> n, unblocked |-> unblocked])

ReadPosition(t) ==
  /\ At(t, "read")
  /\ Goto(t, [at |-> "copy", h |-> call[t].h, n |-> call[t].n,
              unblocked |-> call[t].unblocked, offset |-> position[call[t].h],
              seeks |-> TRUE])
  /\ UNCHANGED <<length, size, position, policy>>

ReadAt(t, h, n, unblocked, offset) ==
  /\ Enter(t, h, Readable)
  /\ Goto(t, [at |-> "copy", h |-> h, n |-> n, unblocked |-> unblocked,
              offset |-> offset, seeks |-> FALSE])

(* The reads and writes that use the position move it when they are done. *)
Moves(c, k) ==
  IF c.seeks
  THEN [at |-> "seek", h |-> c.h, whence |-> "Cur", offset |-> k]
  ELSE Done("Ok")

(* read_at: the size is read, and the bytes are copied, under the data's   *)
(* read lock.                                                              *)
AfterCopy(c) ==
  LET available == size - c.offset
      k == Least(c.n, available)
  IN  IF c.offset > size \/ (~c.unblocked /\ c.n > available)
      THEN Done("OutOfFile")
      ELSE IF k > 0 /\ c.offset + k > length THEN Done("panic") ELSE Moves(c, k)

ReadCopy(t) ==
  /\ At(t, "copy")
  /\ Goto(t, AfterCopy(call[t]))
  /\ UNCHANGED <<length, size, position, policy>>

(* readline (the whole line or an error) and readlinef (what fits) at the  *)
(* position and, with an offset, at the offset.                            *)
Line(t, h, n, unblocked, whole) ==
  /\ Enter(t, h, Readable)
  /\ Goto(t, [at |-> "line", h |-> h, n |-> n, unblocked |-> unblocked,
              offset |-> position[h], seeks |-> TRUE, whole |-> whole])

LineAt(t, h, n, unblocked, whole, offset) ==
  /\ Enter(t, h, Readable)
  /\ Goto(t, [at |-> "line", h |-> h, n |-> n, unblocked |-> unblocked,
              offset |-> offset, seeks |-> FALSE, whole |-> whole])

ReadOfLine(c, k) ==
  IF c.whole /\ c.n < k THEN Done("IoError")
  ELSE IF Least(c.n, k) = 0 THEN Done("Ok")
  ELSE IF c.seeks
  THEN [at |-> "read", h |-> c.h, n |-> Least(c.n, k), unblocked |-> c.unblocked]
  ELSE [at |-> "copy", h |-> c.h, n |-> Least(c.n, k), unblocked |-> c.unblocked,
        offset |-> c.offset, seeks |-> FALSE]

(* sizeline_at looks for the end of the line in all the bytes, and takes   *)
(* the size from the metadata when there is none.                          *)
AfterLine(c) ==
  IF c.offset > size THEN {Done("OutOfFile")}
  ELSE IF c.offset = size THEN {Done("Ok")}
  ELSE IF c.offset > length THEN {Done("panic")}
  ELSE {ReadOfLine(c, k) : k \in 1 .. (length - c.offset) \cup {size - c.offset}}

LineSize(t) ==
  /\ At(t, "line")
  /\ \E r \in AfterLine(call[t]) : Goto(t, r)
  /\ UNCHANGED <<length, size, position, policy>>

Write(t, h, n) ==
  /\ Enter(t, h, Writable)
  /\ Goto(t, [at |-> "write_check", h |-> h, n |-> n, offset |-> position[h],
              seeks |-> TRUE])

WriteAt(t, h, n, offset) ==
  /\ Enter(t, h, Writable)
  /\ Goto(t, [at |-> "write_check", h |-> h, n |-> n, offset |-> offset,
              seeks |-> FALSE])

(* write_at reads the size before it locks the data. *)
WriteCheck(t) ==
  /\ At(t, "write_check")
  /\ Goto(t, IF call[t].offset + call[t].n > size
             THEN Done("OutOfFile")
             ELSE [call[t] EXCEPT !.at = "write_copy"])
  /\ UNCHANGED <<length, size, position, policy>>

WriteCopy(t) ==
  /\ At(t, "write_copy")
  /\ Goto(t, IF call[t].offset + call[t].n > length
             THEN Done("panic")
             ELSE Moves(call[t], call[t].n))
  /\ UNCHANGED <<length, size, position, policy>>

(* A truncate that keeps the metadata's size up to date. *)
TruncateSetsSize(t, h, n) ==
  /\ Idle(t)
  /\ h \in Writable
  /\ length' = n
  /\ size' = n
  /\ position' = [position EXCEPT ![h] = Least(@, n)]
  /\ Goto(t, Done("Ok"))
  /\ UNCHANGED policy

(* truncate holds the lock of the data while it takes that of the position. *)
Truncate(t, h, n) ==
  /\ Idle(t)
  /\ h \in Writable
  /\ length' = n
  /\ position' = [position EXCEPT ![h] = Least(@, n)]
  /\ Goto(t, Done("Ok"))
  /\ UNCHANGED <<size, policy>>

-----------------------------------------------------------------------------

Seek(t, h, whence, offset) ==
  /\ Enter(t, h, Handles)
  /\ Goto(t, [at |-> "seek", h |-> h, whence |-> whence, offset |-> offset])

SeekSize(t) ==
  /\ At(t, "seek")
  /\ Goto(t, [at |-> "seek_policy", h |-> call[t].h, whence |-> call[t].whence,
              offset |-> call[t].offset, size |-> size])
  /\ UNCHANGED <<length, size, position, policy>>

SeekPolicyRead(t) ==
  /\ At(t, "seek_policy")
  /\ Goto(t, [at |-> "seek_target", h |-> call[t].h, whence |-> call[t].whence,
              offset |-> call[t].offset, size |-> call[t].size,
              policy |-> policy[call[t].h]])
  /\ UNCHANGED <<length, size, position, policy>>

Target(c) ==
  CASE c.whence = "Cur" -> position[c.h] + c.offset
    [] c.whence = "Set" -> c.offset
    [] c.whence = "End" -> c.size + c.offset

(* A seek that lands before the start when it is told to. *)
LandsUnclamped(c) == Target(c)

(* The first test replaces the target by the size unless it refuses it, so *)
(* the second sees the size; what it does not refuse becomes 0.            *)
Refused(c) ==
  \/ Target(c) > c.size /\ ~c.policy.allow_out_of_file
  \/ c.size < 0 /\ c.policy.disable_negative

Landing(c) == 0

SeekTarget(t) ==
  /\ At(t, "seek_target")
  /\ Goto(t, IF Refused(call[t])
             THEN Done("OutOfFile")
             ELSE [at |-> "seek_write", h |-> call[t].h,
                   position |-> Landing(call[t])])
  /\ UNCHANGED <<length, size, position, policy>>

SeekWrite(t) ==
  /\ At(t, "seek_write")
  /\ position' = [position EXCEPT ![call[t].h] = call[t].position]
  /\ Goto(t, Done("Ok"))
  /\ UNCHANGED <<length, size, policy>>

SetSeekPolicy(t, h, p) ==
  /\ Idle(t)
  /\ policy' = [policy EXCEPT ![h] = p]
  /\ Goto(t, Done("Ok"))
  /\ UNCHANGED <<length, size, position>>

-----------------------------------------------------------------------------

Begin(t, h) ==
  \/ Denied(t, h, Readable) \/ Denied(t, h, Writable)
  \/ \E n \in Size, unblocked \in BOOLEAN :
       \/ Read(t, h, n, unblocked)
       \/ \E o \in Size : ReadAt(t, h, n, unblocked, o)
       \/ \E whole \in BOOLEAN :
            \/ (whole => ~unblocked) /\ Line(t, h, n, unblocked, whole)
            \/ \E o \in Size : LineAt(t, h, n, unblocked, whole, o)
  \/ \E n \in Size :
       \/ Write(t, h, n)
       \/ \E o \in Size : WriteAt(t, h, n, o)
       \/ Truncate(t, h, n)
  \/ \E w \in SeekWhence, o \in SeekOffsets : Seek(t, h, w, o)
  \/ \E p \in SeekPolicy : SetSeekPolicy(t, h, p)

Continue(t) ==
  \/ ReadPosition(t) \/ ReadCopy(t) \/ LineSize(t)
  \/ WriteCheck(t) \/ WriteCopy(t)
  \/ SeekSize(t) \/ SeekPolicyRead(t) \/ SeekTarget(t) \/ SeekWrite(t)

Next == \E t \in Tasks : Continue(t) \/ \E h \in Handles : Begin(t, h)

Spec == Init /\ [][Next]_vars

-----------------------------------------------------------------------------

(* What the rest of a call goes by: what it was asked, and what it has     *)
(* read so far.                                                            *)
Calls ==
       [at: {"idle"}, result: {"none", "Ok", "PermissionDenied", "OutOfFile",
                               "IoError", "panic"}]
  \cup [at: {"read"}, h: Handles, n: Size, unblocked: BOOLEAN]
  \cup [at: {"copy"}, h: Handles, n: Size, unblocked: BOOLEAN, offset: Nat,
        seeks: BOOLEAN]
  \cup [at: {"line"}, h: Handles, n: Size, unblocked: BOOLEAN, offset: Nat,
        seeks: BOOLEAN, whole: BOOLEAN]
  \cup [at: {"write_check", "write_copy"}, h: Handles, n: Size, offset: Nat,
        seeks: BOOLEAN]
  \cup [at: {"seek"}, h: Handles, whence: SeekWhence, offset: Int]
  \cup [at: {"seek_policy"}, h: Handles, whence: SeekWhence, offset: Int,
        size: Nat]
  \cup [at: {"seek_target"}, h: Handles, whence: SeekWhence, offset: Int,
        size: Nat, policy: SeekPolicy]
  \cup [at: {"seek_write"}, h: Handles, position: Nat]

(* The type invariant.  Its point is the position, which seek computes in  *)
(* signed numbers and stores in an unsigned one: no target, and no order   *)
(* of seeks, writes and truncates, stores one from before the start.       *)
TypeOK ==
  /\ length \in Nat
  /\ size \in Nat
  /\ position \in [Handles -> Nat]
  /\ policy \in [Handles -> SeekPolicy]
  /\ call \in [Tasks -> Calls]

(* No call reads or writes past the end of the vector, which would panic,  *)
(* though write_at tests the size under one lock and copies under another, *)
(* and a truncate may come between.                                        *)
NoPanic == \A t \in Tasks : Idle(t) => call[t].result # "panic"

(* "size ... of the file": the size a handle reports is how many bytes     *)
(* there are.                                                              *)
SizeIsLength == size = length

=============================================================================
