------------------------------ MODULE TlabProofs ------------------------------
(***************************************************************************)
(* Memory is handed out once, for any blocks, sizes and alignment.         *)
(***************************************************************************)
EXTENDS Tlab, TLAPS

Range == [cursor : Nat, limit : Nat]
Objects == {o \in [start : Nat, end : Nat] : o.start < o.end}

TypeTlab ==
  /\ bump \in Range
  /\ mutator \in Range
  /\ free \in SUBSET Blocks
  /\ objects \in SUBSET Objects
  /\ request \in [size : Nat, space : {"none", "Default", "Los", "Other"}]
  /\ apc \in {"mmtk", "allocated", "stopped_in_mmtk"} => request.size \in Sizes

(* An empty TLAB has nothing to hand back, and MMTk keeps nothing either.   *)
EmptyTogether == apc = "managed" /\ bump = Zero => mutator = Zero

TInv == TypeTlab /\ ObjectsDisjoint /\ HandedOver /\ EmptyTogether

LEMMA AlignUpGrows ==
  ASSUME NEW a \in Nat
  PROVE  AlignUp(a) \in Nat /\ AlignUp(a) >= a
<1>1. a % Align \in 0..(Align - 1)
  BY TlabAssumption
<1> QED
  BY <1>1, TlabAssumption DEF AlignUp

(* An object carved from the unused part of a range, whichever of the two  *)
(* ranges it is, overlaps nothing and leaves the rest of the range unused. *)
LEMMA CarvingIsSafe ==
  ASSUME TypeTlab, ObjectsDisjoint,
         NEW range \in Range, NEW size \in Sizes, NEW o, NEW rest,
         Unused(range),
         AlignUp(range.cursor) + size <= range.limit,
         o = [start |-> AlignUp(range.cursor), end |-> AlignUp(range.cursor) + size],
         rest = [range EXCEPT !.cursor = AlignUp(range.cursor) + size],
         objects' = objects \union {o},
         UNCHANGED free
  PROVE  /\ objects' \in SUBSET Objects
         /\ rest \in Range
         /\ ObjectsDisjoint'
         /\ rest.cursor < rest.limit =>
              /\ \A p \in objects' : p.end <= rest.cursor \/ rest.limit <= p.start
              /\ \E b \in Blocks \ free' : Lo[b] <= rest.cursor /\ rest.limit <= Hi[b]
<1> DEFINE start == AlignUp(range.cursor)
<1>1. start \in Nat /\ start >= range.cursor /\ size \in Nat \ {0}
  BY AlignUpGrows, TlabAssumption DEF Range
<1> HIDE DEF start
<1>2. /\ o = [start |-> start, end |-> start + size]
      /\ rest = [cursor |-> start + size, limit |-> range.limit]
      /\ start + size <= range.limit
  BY DEF start, Range
<1>3. o \in Objects /\ rest \in Range
  BY <1>1, <1>2 DEF Objects, Range
<1>4. range.cursor < range.limit /\ range.cursor \in Nat /\ range.limit \in Nat
  BY <1>1, <1>2 DEF Range
<1>5. PICK b \in Blocks \ free : Lo[b] <= range.cursor /\ range.limit <= Hi[b]
  BY <1>4 DEF Unused
<1>6. Lo[b] \in Nat /\ Hi[b] \in Nat
  BY TlabAssumption
<1>7. Within(o, b)
  BY <1>1, <1>2, <1>4, <1>5, <1>6 DEF Within
<1>8. \A p \in objects : p.end <= range.cursor \/ range.limit <= p.start
  BY <1>4 DEF Unused
<1>9. \A p \in objects : p.start \in Nat /\ p.end \in Nat
  BY DEF TypeTlab, Objects
<1>10. \A p \in objects : p.end <= o.start \/ o.end <= p.start
  BY <1>1, <1>2, <1>4, <1>8, <1>9
<1>11. \A p \in objects : p.end <= start + size \/ range.limit <= p.start
  BY <1>1, <1>4, <1>8, <1>9
<1>12. ObjectsDisjoint'
  <2>1. \A p, q \in objects' : p = q \/ p.end <= q.start \/ q.end <= p.start
    BY <1>10 DEF ObjectsDisjoint
  <2>2. \A p \in objects' : \E c \in Blocks \ free' : Within(p, c)
    BY <1>5, <1>7 DEF ObjectsDisjoint
  <2> QED
    BY <2>1, <2>2 DEF ObjectsDisjoint, Within
<1>13. Lo[b] <= rest.cursor /\ rest.limit <= Hi[b] /\ b \in Blocks \ free'
  BY <1>1, <1>2, <1>4, <1>5, <1>6
<1>14. \A p \in objects' : p.end <= rest.cursor \/ rest.limit <= p.start
  BY <1>1, <1>2, <1>11
<1>15. objects' \in SUBSET Objects
  BY <1>3 DEF TypeTlab
<1> QED
  BY <1>3, <1>12, <1>13, <1>14, <1>15

-------------------------------------------------------------------------------

LEMMA InitSafe == InitTlab => TInv
BY TlabAssumption DEF InitTlab, TInv, TypeTlab, ObjectsDisjoint, HandedOver,
   EmptyTogether, Unused, Zero, NoRequest, Range, Objects

(* What flush_cursors leaves: the TLAB empty, and the range with MMTk.     *)
LEMMA FlushKeeps ==
  ASSUME TInv, apc \in {"managed", "mmtk"}, FlushCursors, UNCHANGED <<free, objects>>
  PROVE  bump' = Zero /\ mutator' \in Range /\ Unused(mutator)' /\ ObjectsDisjoint'
<1>1. ObjectsDisjoint'
  BY DEF TInv, ObjectsDisjoint, Within
<1>2. CASE bump = Zero
  <2>1. UNCHANGED <<bump, mutator>>
    BY <1>2 DEF FlushCursors
  <2>2. Unused(mutator)
    BY <1>2 DEF TInv, HandedOver, EmptyTogether, Unused, Zero
  <2> QED
    BY <1>1, <1>2, <2>1, <2>2 DEF TInv, TypeTlab, Unused
<1>3. CASE bump # Zero
  <2>1. mutator' = bump /\ bump' = Zero
    BY <1>3 DEF FlushCursors
  <2>2. Unused(bump)
    BY <1>3 DEF TInv, HandedOver
  <2> QED
    BY <1>1, <2>1, <2>2 DEF TInv, TypeTlab, Unused
<1> QED
  BY <1>2, <1>3

LEMMA StepSafe == TInv /\ [NextTlab]_tlabVars => TInv'
<1> SUFFICES ASSUME TInv, [NextTlab]_tlabVars PROVE TInv'
  OBVIOUS
<1>t. TypeTlab /\ ObjectsDisjoint /\ HandedOver /\ EmptyTogether
  BY DEF TInv
<1>1. CASE UNCHANGED tlabVars
  BY <1>1 DEF TInv, tlabVars, TypeTlab, ObjectsDisjoint, HandedOver,
     EmptyTogether, Unused, Within
<1>2. ASSUME NEW size \in Sizes, Allocate(size) PROVE TInv'
  <2>1. Unused(bump) /\ bump \in Range
    BY <1>2, <1>t DEF Allocate, HandedOver, TypeTlab
  <2>2. AlignUp(bump.cursor) \in Nat /\ bump.limit \in Nat /\ size \in Nat \ {0}
    BY <2>1, AlignUpGrows, TlabAssumption DEF Range
  <2>3. AlignUp(bump.cursor) + size <= bump.limit
    BY <1>2, <2>2 DEF Allocate, Fits
  <2>4. /\ objects' \in SUBSET Objects
        /\ bump' \in Range
        /\ ObjectsDisjoint'
        /\ bump'.cursor < bump'.limit =>
             /\ \A p \in objects' : p.end <= bump'.cursor \/ bump'.limit <= p.start
             /\ \E b \in Blocks \ free' : Lo[b] <= bump'.cursor /\ bump'.limit <= Hi[b]
    BY <1>2, <1>t, <2>1, <2>3, CarvingIsSafe DEF Allocate
  <2>5. Unused(bump)'
    BY <2>4 DEF Unused
  <2>6. bump' # Zero
    <3>1. bump'.cursor = AlignUp(bump.cursor) + size
      BY <1>2, <2>1 DEF Allocate, Range
    <3> QED
      BY <3>1, <2>2 DEF Zero
  <2> QED
    BY <1>2, <1>t, <2>4, <2>5, <2>6
    DEF TInv, Allocate, TypeTlab, HandedOver, EmptyTogether
<1>3. ASSUME NEW size \in Sizes, AllocateSlow(size) \/ AllocateElsewhere(size) PROVE TInv'
  <2>1. bump' = Zero /\ mutator' \in Range /\ Unused(mutator)' /\ ObjectsDisjoint'
    BY <1>3, FlushKeeps DEF AllocateSlow, AllocateElsewhere
  <2>2. TypeTlab'
    BY <1>3, <1>t, <2>1, TlabAssumption
    DEF AllocateSlow, AllocateElsewhere, TypeTlab, Zero, Range
  <2>3. apc' = "mmtk"
    BY <1>3 DEF AllocateSlow, AllocateElsewhere
  <2> QED
    BY <2>1, <2>2, <2>3 DEF TInv, HandedOver, EmptyTogether
<1>4. ASSUME BumpCursors PROVE TInv'
  <2>1. Unused(mutator) /\ bump' = mutator /\ apc' = "managed" /\ UNCHANGED <<mutator, free, objects>>
    BY <1>4, <1>t DEF BumpCursors, HandedOver
  <2>2. TypeTlab'
    BY <1>4, <1>t DEF BumpCursors, TypeTlab, NoRequest
  <2> QED
    BY <2>1, <2>2, <1>t DEF TInv, HandedOver, EmptyTogether, Unused, ObjectsDisjoint, Within
<1>5. ASSUME AllocInRange PROVE TInv'
  <2>1. Unused(mutator) /\ mutator \in Range /\ request.size \in Sizes /\ bump = Zero
    BY <1>5, <1>t DEF AllocInRange, HandedOver, TypeTlab
  <2>2. /\ objects' \in SUBSET Objects
        /\ mutator' \in Range
        /\ ObjectsDisjoint'
        /\ mutator'.cursor < mutator'.limit =>
             /\ \A p \in objects' : p.end <= mutator'.cursor \/ mutator'.limit <= p.start
             /\ \E b \in Blocks \ free' : Lo[b] <= mutator'.cursor /\ mutator'.limit <= Hi[b]
    BY <1>5, <1>t, <2>1, CarvingIsSafe DEF AllocInRange, AllocFrom
  <2>3. Unused(mutator)'
    BY <2>2 DEF Unused
  <2> QED
    BY <1>5, <1>t, <2>1, <2>2, <2>3
    DEF TInv, AllocInRange, TypeTlab, HandedOver, EmptyTogether
<1>6. ASSUME NEW b \in Blocks, AllocInBlock(b) PROVE TInv'
  <2> DEFINE range == [cursor |-> Lo[b], limit |-> Hi[b]]
  <2>1. /\ range \in Range /\ request.size \in Sizes /\ bump = Zero
        /\ b \in free /\ free' = free \ {b}
    BY <1>6, <1>t, TlabAssumption DEF AllocInBlock, HandedOver, TypeTlab, Range
  <2>2. \A o \in objects : o.end <= Lo[b] \/ Hi[b] <= o.start
    <3>1. SUFFICES ASSUME NEW o \in objects PROVE o.end <= Lo[b] \/ Hi[b] <= o.start
      OBVIOUS
    <3>2. PICK c \in Blocks \ free : Within(o, c)
      BY <1>t DEF ObjectsDisjoint
    <3>3. Hi[b] <= Lo[c] \/ Hi[c] <= Lo[b]
      BY <2>1, <3>2, TlabAssumption
    <3>4. /\ Lo[b] \in Nat /\ Hi[b] \in Nat /\ Lo[c] \in Nat /\ Hi[c] \in Nat
          /\ o.start \in Nat /\ o.end \in Nat
      BY <1>t, TlabAssumption DEF TypeTlab, Objects
    <3> QED
      BY <3>2, <3>3, <3>4 DEF Within
  <2>3. /\ AlignUp(range.cursor) + request.size <= range.limit
        /\ mutator' = [range EXCEPT !.cursor = AlignUp(range.cursor) + request.size]
        /\ objects' = objects \union {[start |-> AlignUp(range.cursor),
                                       end |-> AlignUp(range.cursor) + request.size]}
    BY <1>6 DEF AllocInBlock, AllocFrom
  <2>4. range.cursor = Lo[b] /\ range.limit = Hi[b]
    OBVIOUS
  <2> HIDE DEF range
  <2> DEFINE start == AlignUp(range.cursor)  size == request.size
  <2>5. start \in Nat /\ start >= Lo[b] /\ size \in Nat \ {0} /\ Lo[b] \in Nat
        /\ Hi[b] \in Nat /\ start + size <= Hi[b]
    BY <2>1, <2>3, <2>4, AlignUpGrows, TlabAssumption DEF Range
  <2>6. /\ mutator' = [cursor |-> start + size, limit |-> Hi[b]]
        /\ objects' = objects \union {[start |-> start, end |-> start + size]}
    BY <2>1, <2>3, <2>4 DEF Range
  <2> HIDE DEF start, size
  <2> DEFINE o == [start |-> start, end |-> start + size]
  <2>7. \A p \in objects : p.start \in Nat /\ p.end \in Nat
    BY <1>t DEF TypeTlab, Objects
  <2>8. \A p \in objects : p.end <= o.start \/ o.end <= p.start
    BY <2>2, <2>5, <2>7
  <2>9. Within(o, b) /\ b \in Blocks \ free' /\ o \in Objects
    BY <2>1, <2>5 DEF Within, Objects
  <2>10. ObjectsDisjoint'
    <3>1. \A p, q \in objects' : p = q \/ p.end <= q.start \/ q.end <= p.start
      BY <1>t, <2>6, <2>8 DEF ObjectsDisjoint
    <3>2. \A p \in objects : \E c \in Blocks \ free' : Within(p, c)
      <4>1. SUFFICES ASSUME NEW p \in objects PROVE \E c \in Blocks \ free' : Within(p, c)
        OBVIOUS
      <4>2. PICK c \in Blocks \ free : Within(p, c)
        BY <1>t DEF ObjectsDisjoint
      <4> QED
        BY <2>1, <4>2
    <3> QED
      BY <2>6, <2>9, <3>1, <3>2 DEF ObjectsDisjoint, Within
  <2>11. Unused(mutator)'
    BY <2>2, <2>5, <2>6, <2>7, <2>9 DEF Unused
  <2>12. TypeTlab'
    BY <1>6, <1>t, <2>1, <2>5, <2>6, <2>9 DEF AllocInBlock, TypeTlab, Range, Objects
  <2> QED
    BY <1>6, <2>1, <2>10, <2>11, <2>12 DEF TInv, AllocInBlock, HandedOver, EmptyTogether
<1>7. ASSUME AllocInOtherSpace PROVE TInv'
  BY <1>7, <1>t DEF TInv, AllocInOtherSpace, TypeTlab, ObjectsDisjoint, HandedOver,
     EmptyTogether, Unused, Within
<1>8. ASSUME SetBlocked PROVE TInv'
  <2>1. bump' = Zero /\ mutator' \in Range /\ Unused(mutator)' /\ ObjectsDisjoint'
    BY <1>8, FlushKeeps DEF SetBlocked
  <2>2. TypeTlab'
    BY <1>8, <1>t, <2>1 DEF SetBlocked, TypeTlab, Zero, Range
  <2> QED
    BY <1>8, <2>1, <2>2 DEF SetBlocked, TInv, HandedOver, EmptyTogether
<1>9. ASSUME Collect PROVE TInv'
  <2>1. /\ objects' \subseteq objects
        /\ free' = {b \in Blocks : \A o \in objects' : ~Within(o, b)}
        /\ mutator' = Zero /\ bump' = Zero /\ bump = Zero
        /\ apc' \in {"managed", "mmtk"}
    BY <1>9, <1>t DEF Collect, HandedOver
  <2>2. ObjectsDisjoint'
    <3>1. \A p \in objects' : \E c \in Blocks \ free' : Within(p, c)
      BY <1>t, <2>1 DEF ObjectsDisjoint
    <3> QED
      BY <1>t, <2>1, <3>1 DEF ObjectsDisjoint, Within
  <2>3. TypeTlab'
    BY <1>9, <1>t, <2>1 DEF Collect, TypeTlab, Zero, Range
  <2>4. Unused(mutator)' /\ Unused(bump)'
    BY <2>1 DEF Unused, Zero
  <2> QED
    BY <2>1, <2>2, <2>3, <2>4 DEF TInv, HandedOver, EmptyTogether
<1> QED
  BY <1>1, <1>2, <1>3, <1>4, <1>5, <1>6, <1>7, <1>8, <1>9 DEF NextTlab

LEMMA Safe == SpecTlab => []TInv
BY InitSafe, StepSafe, PTL DEF SpecTlab

-------------------------------------------------------------------------------

(* tlab.rs:51-93: live objects never overlap, for any heap and any sizes.  *)
THEOREM Disjoint == SpecTlab => []ObjectsDisjoint
<1>1. TInv => ObjectsDisjoint
  BY DEF TInv
<1> QED
  BY <1>1, Safe, PTL

(* tlab.rs:95-123: a blocked or allocating thread keeps no range back.     *)
THEOREM RangeHandedOver == SpecTlab => []HandedOver
<1>1. TInv => HandedOver
  BY DEF TInv
<1> QED
  BY <1>1, Safe, PTL
===============================================================================
