--------------------------------- MODULE Tlab ---------------------------------
(***************************************************************************)
(* The thread-local allocation buffer (mm/tlab.rs) of one mutator and the  *)
(* bump pointer of its MMTk allocator, between which the range of free     *)
(* memory is handed over; the allocation entry points of mm.rs; and the    *)
(* flush a collection does (GCBlockAdapter::set_blocked).                  *)
(*                                                                         *)
(* MMTk itself is outside the repository: it hands out memory from its     *)
(* bump pointer, replaces an exhausted range by a free block, and resets   *)
(* the bump pointer and frees the blocks without live objects when it      *)
(* collects.                                                               *)
(***************************************************************************)
EXTENDS Integers

CONSTANTS
  Blocks,         (* MMTk's blocks of the default space                     *)
  Lo, Hi,         (* block b holds the addresses Lo[b]..Hi[b]-1             *)
  Sizes,          (* sizes of objects                                       *)
  Align,          (* the alignment vmkit_allocate asks for                  *)
  LosThreshold    (* TLAB::los_threshold                                    *)

ASSUME TlabAssumption ==
  /\ Lo \in [Blocks -> Nat \ {0}]
  /\ Hi \in [Blocks -> Nat]
  /\ \A b, c \in Blocks : b # c => Hi[b] <= Lo[c] \/ Hi[c] <= Lo[b]
  /\ Sizes \subseteq Nat \ {0}
  /\ Align \in Nat \ {0}
  /\ LosThreshold \in Nat

VARIABLES
  bump,           (* TLAB::bump                                             *)
  mutator,        (* the bump pointer inside the MMTk mutator               *)
  free,           (* blocks MMTk can hand out                               *)
  objects,        (* start and end of the live objects of the default space *)
  apc,            (* what the mutator's thread does                         *)
  request         (* the size and space of the allocation under way         *)

tlabVars == <<bump, mutator, free, objects, apc, request>>

Zero == [cursor |-> 0, limit |-> 0]
NoRequest == [size |-> 0, space |-> "none"]

InitTlab ==
  /\ bump = Zero
  /\ mutator = Zero
  /\ free = Blocks
  /\ objects = {}
  /\ apc = "managed"
  /\ request = NoRequest

AlignUp(a) == IF a % Align = 0 THEN a ELSE a + (Align - (a % Align))

-------------------------------------------------------------------------------
(* Slip: the range is copied and not taken. *)
CopyCursors ==
  IF bump = Zero THEN UNCHANGED <<bump, mutator>>
  ELSE mutator' = bump /\ UNCHANGED bump

FlushCursors ==
  IF bump = Zero THEN UNCHANGED <<bump, mutator>>
  ELSE mutator' = bump /\ bump' = Zero

(* Slip: the test forgets the size. *)
FitsItsStart(size) == AlignUp(bump.cursor) < bump.limit

(* The fast path leaves the last byte of the range alone. *)
Fits(size) == AlignUp(bump.cursor) + size < bump.limit

Allocate(size) ==
  /\ apc = "managed"
  /\ Fits(size)
  /\ LET result == AlignUp(bump.cursor)
     IN /\ bump' = [bump EXCEPT !.cursor = result + size]
        /\ objects' = objects \union {[start |-> result, end |-> result + size]}
  /\ UNCHANGED <<mutator, free, apc, request>>

AllocateSlow(size) ==
  /\ apc = "managed"
  /\ ~Fits(size)
  /\ FlushCursors
  /\ apc' = "mmtk"
  /\ request' = [size |-> size,
                 space |-> IF size >= LosThreshold THEN "Los" ELSE "Default"]
  /\ UNCHANGED <<free, objects>>

(* Slip: the range stays with the TLAB while MMTk allocates. *)
AllocateUnflushed(size) ==
  /\ apc = "managed"
  /\ apc' = "mmtk"
  /\ request' = [size |-> size, space |-> "Other"]
  /\ UNCHANGED <<bump, mutator, free, objects>>

(* vmkit_allocate_immortal, _nonmoving and _los. *)
AllocateElsewhere(size) ==
  /\ apc = "managed"
  /\ FlushCursors
  /\ apc' = "mmtk"
  /\ request' = [size |-> size, space |-> "Other"]
  /\ UNCHANGED <<free, objects>>

BumpCursors ==
  /\ apc = "allocated"
  /\ bump' = mutator
  /\ apc' = "managed"
  /\ request' = NoRequest
  /\ UNCHANGED <<mutator, free, objects>>

-------------------------------------------------------------------------------
(* MMTk: memory_manager::alloc and alloc_slow, and collections *)

AllocFrom(range) ==
  LET result == AlignUp(range.cursor)
  IN /\ result + request.size <= range.limit
     /\ mutator' = [range EXCEPT !.cursor = result + request.size]
     /\ objects' = objects \union {[start |-> result, end |-> result + request.size]}

AllocInRange ==
  /\ apc = "mmtk"
  /\ request.space = "Default"
  /\ AllocFrom(mutator)
  /\ apc' = "allocated"
  /\ UNCHANGED <<bump, free, request>>

AllocInBlock(b) ==
  /\ apc = "mmtk"
  /\ request.space = "Default"
  /\ b \in free
  /\ AllocFrom([cursor |-> Lo[b], limit |-> Hi[b]])
  /\ free' = free \ {b}
  /\ apc' = "allocated"
  /\ UNCHANGED <<bump, request>>

AllocInOtherSpace ==
  /\ apc = "mmtk"
  /\ request.space # "Default"
  /\ apc' = "allocated"
  /\ UNCHANGED <<bump, mutator, free, objects, request>>

Within(o, b) == Lo[b] <= o.start /\ o.end <= Hi[b]

(* The thread acknowledges a block request at a safepoint of its own or in *)
(* block_for_gc, which MMTk calls when an allocation has to wait.          *)
SetBlocked ==
  /\ apc \in {"managed", "mmtk"}
  /\ FlushCursors
  /\ apc' = IF apc = "mmtk" THEN "stopped_in_mmtk" ELSE "stopped"
  /\ UNCHANGED <<free, objects, request>>

Collect ==
  /\ apc \in {"stopped", "stopped_in_mmtk"}
  /\ \E live \in SUBSET objects :
       /\ objects' = live
       /\ free' = {b \in Blocks : \A o \in live : ~Within(o, b)}
  /\ mutator' = Zero
  /\ apc' = IF apc = "stopped" THEN "managed" ELSE "mmtk"
  /\ UNCHANGED <<bump, request>>

-------------------------------------------------------------------------------

NextTlab ==
  \/ \E size \in Sizes :
       Allocate(size) \/ AllocateSlow(size) \/ AllocateElsewhere(size)
  \/ BumpCursors
  \/ AllocInRange \/ AllocInOtherSpace
  \/ \E b \in Blocks : AllocInBlock(b)
  \/ SetBlocked \/ Collect

SpecTlab == InitTlab /\ [][NextTlab]_tlabVars

-------------------------------------------------------------------------------
(* Properties *)

(* tlab.rs:51-93: whichever of the TLAB and MMTk hands out memory, and      *)
(* whatever collections come between, two live objects never overlap and   *)
(* no object lies outside the blocks that are in use.                      *)
ObjectsDisjoint ==
  /\ \A o, p \in objects : o = p \/ o.end <= p.start \/ p.end <= o.start
  /\ \A o \in objects : \E b \in Blocks \ free : Within(o, b)

(* The memory a range can still hand out. *)
Unused(range) ==
  range.cursor < range.limit =>
    /\ \A o \in objects : o.end <= range.cursor \/ range.limit <= o.start
    /\ \E b \in Blocks \ free : Lo[b] <= range.cursor /\ range.limit <= Hi[b]

(* tlab.rs:95-123: when a thread is blocked for a collection, or has MMTk   *)
(* allocate for it, the range is MMTk's alone: the TLAB keeps nothing that *)
(* the collection could reclaim or the allocation could hand out again.    *)
HandedOver ==
  /\ apc # "managed" => bump = Zero
  /\ Unused(IF apc = "managed" THEN bump ELSE mutator)

===============================================================================
