---------------------------- MODULE WeakRefsProofs ----------------------------
(***************************************************************************)
(* Theorems about WeakRefs, for any objects and members.  The invariant is *)
(* the collector's: a member of a traced object is still to be visited, or *)
(* its callback still to be run, or it is null or refers to a traced       *)
(* object where that now is.                                               *)
(***************************************************************************)
EXTENDS WeakRefs, TLAPS

Kinds == {"strong", "weak", "late"}
Address == Objects \X {0, 1}
Ref == Address \union {Null}
Row == UNION {[Members[o] -> Ref] : o \in Objects}
Callbacks == [object : Address, member : {"weak", "late"}]

TypeWeak ==
  /\ phase \in {"mutator", "closure", "weak", "release"}
  /\ place \in [Objects -> {0, 1}]
  /\ mem \in [Address -> Row]
  /\ \A a \in Address : mem[a] \in [Members[a[1]] -> Ref]
  /\ live \subseteq Objects /\ Root \in live
  /\ traced \subseteq live
  /\ grey \subseteq [object : Address, left : SUBSET Kinds]
  /\ channel \in Seq(Callbacks) /\ drained \in Seq(Callbacks)
  /\ found \in {"unknown", "no", "yes"}
  /\ rescan \in BOOLEAN

(* A member of an object, wherever the object is. *)
Field(o, k) == mem[At(o)][k]
Elements(s) == {s[i] : i \in DOMAIN s}
Queued == Elements(channel) \union Elements(drained)

ToVisit(o, k) == \E s \in grey : s.object = At(o) /\ k \in s.left
ToRun(o, k) == [object |-> At(o), member |-> k] \in Queued
UpToDate(ref) == ref[1] \in traced /\ ref = At(ref[1])

Visited == \A o \in traced : \A k \in Members[o] :
  \/ ToVisit(o, k) \/ ToRun(o, k)
  \/ Field(o, k) = Null \/ UpToDate(Field(o, k))

(* References lead to objects that have not been freed. *)
Allocated == \A o \in live : \A k \in Members[o] :
  Field(o, k) # Null => Field(o, k)[1] \in live

(* Work is about traced objects, at the address they are at. *)
WorkInv ==
  /\ \A s \in grey : /\ s.object[1] \in traced /\ s.object = At(s.object[1])
                     /\ s.left \subseteq Members[s.object[1]]
  /\ \A c \in Queued : /\ c.object[1] \in traced /\ c.object = At(c.object[1])
                       /\ c.member \in Members[c.object[1]]

PhaseInv ==
  /\ phase = "mutator" => traced = {}
  /\ phase # "weak" => drained = <<>>
  /\ phase \in {"mutator", "release"} => channel = <<>> /\ grey = {}
  /\ phase = "weak" /\ ~rescan => channel = <<>> /\ grey = {}

(* What strong members led to when the collection started.                 *)
Strong == Reach(before, {"strong"})

FoundInv == found # "unknown" =>
  /\ phase = "weak" /\ drained # <<>> /\ Head(drained).member = "weak"
  /\ LET ref == mem[Head(drained).object]["weak"]
     IN IF found = "yes" THEN ref # Null /\ ref[1] \in traced
        ELSE ref = Null \/ ref[1] \notin Strong

(* The collection leaves who is referred to as it was; a weak member whose *)
(* callback has run is cleared unless its referent stays.                  *)
BeforeInv ==
  /\ DOMAIN before = live
  /\ \A o \in live : \A k \in Members[o] :
       before[o][k] # Null => before[o][k][1] \in live
  /\ \A o \in live : \A k \in Members[o] :
       /\ before[o][k] = Null => Field(o, k) = Null
       /\ Field(o, k) # Null => Field(o, k)[1] = before[o][k][1]
       /\ Field(o, k) = Null /\ before[o][k] # Null =>
            k = "weak" /\ before[o][k][1] \notin Strong
  /\ Strong \subseteq live

Closed(S, kinds) ==
  /\ Root \in S
  /\ \A p \in S : \A k \in Members[p] \cap kinds :
       before[p][k] # Null => before[p][k][1] \in S

TracedInv ==
  /\ \A S \in SUBSET live : Closed(S, {"strong", "late"}) => traced \subseteq S
  /\ Root \in traced
  /\ phase \in {"weak", "release"} => Strong \subseteq traced

CollectionInv == phase # "mutator" => BeforeInv /\ TracedInv

IInv == /\ TypeWeak /\ Allocated /\ Visited /\ WorkInv /\ PhaseInv /\ FoundInv
        /\ CollectionInv /\ MembersValid

-------------------------------------------------------------------------------
(* What the operators that change the memory do to the members.            *)

LEMMA RowsAreTyped ==
  ASSUME NEW f \in [Address -> Row], NEW a \in Address, NEW r \in [Members[a[1]] -> Ref],
         \A b \in Address : f[b] \in [Members[b[1]] -> Ref]
  PROVE  /\ [f EXCEPT ![a] = r] \in [Address -> Row]
         /\ \A b \in Address : [f EXCEPT ![a] = r][b] \in [Members[b[1]] -> Ref]
         /\ \A b \in Address : [f EXCEPT ![a] = r][b] = IF b = a THEN r ELSE f[b]
<1>1. a[1] \in Objects
  BY DEF Address
<1>2. r \in Row
  BY <1>1 DEF Row
<1> QED
  BY <1>2

(* Store changes one member.                                               *)
LEMMA Stores ==
  ASSUME TypeWeak, NEW a \in Address, NEW k \in Members[a[1]], NEW ref \in Ref,
         mem' = Store(a, k, ref)
  PROVE  /\ mem' \in [Address -> Row]
         /\ \A b \in Address : mem'[b] \in [Members[b[1]] -> Ref]
         /\ \A b \in Address : \A j \in Members[b[1]] :
              mem'[b][j] = IF b = a /\ j = k THEN ref ELSE mem[b][j]
         /\ \A b \in Address \ {a} : mem'[b] = mem[b]
<1> DEFINE r == [mem[a] EXCEPT ![k] = ref]
<1>1. mem[a] \in [Members[a[1]] -> Ref]
  BY DEF TypeWeak
<1>2. /\ r \in [Members[a[1]] -> Ref]
      /\ \A j \in Members[a[1]] : r[j] = IF j = k THEN ref ELSE mem[a][j]
  BY <1>1
<1>3. mem' = [mem EXCEPT ![a] = r]
  BY DEF Store, TypeWeak
<1> HIDE DEF r
<1>4. mem \in [Address -> Row] /\ \A b \in Address : mem[b] \in [Members[b[1]] -> Ref]
  BY DEF TypeWeak
<1>5. /\ [mem EXCEPT ![a] = r] \in [Address -> Row]
      /\ \A b \in Address : [mem EXCEPT ![a] = r][b] \in [Members[b[1]] -> Ref]
      /\ \A b \in Address : [mem EXCEPT ![a] = r][b] = IF b = a THEN r ELSE mem[b]
  BY <1>2, <1>4, RowsAreTyped
<1> QED
  BY <1>2, <1>3, <1>5

(* Tracing an object copies its members to where it will be.               *)
LEMMA Traces ==
  ASSUME TypeWeak, NEW p \in live, Trace(p)
  PROVE  /\ Copied(p) \in [Address -> Row]
         /\ \A b \in Address : Copied(p)[b] \in [Members[b[1]] -> Ref]
         /\ place' \in [Objects -> {0, 1}]
         /\ traced' = traced \union {p} /\ traced' \subseteq live
         /\ At(p)' = <<p, NewPlace(p)>>
         /\ \A o \in Objects : o # p \/ o \in traced => At(o)' = At(o)
         /\ \A o \in Objects : Copied(p)[At(o)'] = mem[At(o)]
         /\ \A o \in Objects : At(o) \in Address /\ At(o)' \in Address
<1>1. p \in Objects /\ NewPlace(p) \in {0, 1}
  BY DEF TypeWeak, NewPlace
<1>2. /\ place' \in [Objects -> {0, 1}]
      /\ \A o \in Objects : place'[o] = IF o = p THEN NewPlace(p) ELSE place[o]
  BY <1>1 DEF Trace, TypeWeak
<1>3. \A o \in Objects : o # p \/ o \in traced => At(o)' = At(o)
  BY <1>1, <1>2 DEF At, NewPlace
<1>4. \A o \in Objects : At(o) \in Address /\ At(o)' \in Address
  BY <1>2 DEF At, Address, TypeWeak
<1>5. At(p)' = <<p, NewPlace(p)>>
  BY <1>1, <1>2 DEF At
<1>6. mem[At(p)] \in [Members[p] -> Ref]
  BY <1>1, <1>4 DEF TypeWeak, At
<1>7. /\ Copied(p) \in [Address -> Row]
      /\ \A b \in Address : Copied(p)[b] \in [Members[b[1]] -> Ref]
      /\ \A b \in Address : Copied(p)[b] = IF b = At(p)' THEN mem[At(p)] ELSE mem[b]
  <2>1. At(p)'[1] = p /\ At(p)' \in Address
    BY <1>1, <1>4, <1>5
  <2>2. Copied(p) = [mem EXCEPT ![At(p)'] = mem[At(p)]]
    BY <1>5 DEF Copied
  <2> QED
    BY <1>6, <2>1, <2>2, RowsAreTyped, SMTT(30) DEF TypeWeak
<1>8. \A o \in Objects : Copied(p)[At(o)'] = mem[At(o)]
  BY <1>1, <1>3, <1>4, <1>5, <1>7 DEF At
<1> QED
  BY <1>1, <1>2, <1>3, <1>4, <1>5, <1>7, <1>8 DEF Trace, TypeWeak

(* A queued callback is at the end of the channel; a run one is gone.      *)
LEMMA Queues ==
  ASSUME NEW s \in Seq(Callbacks)
  PROVE  /\ \A c \in Callbacks : /\ Append(s, c) \in Seq(Callbacks)
                                 /\ Elements(Append(s, c)) = Elements(s) \union {c}
         /\ s # <<>> => /\ Head(s) \in Elements(s) /\ Head(s) \in Callbacks
                        /\ Tail(s) \in Seq(Callbacks)
                        /\ Elements(s) = {Head(s)} \union Elements(Tail(s))
         /\ Elements(s) \subseteq Callbacks
         /\ Elements(<<>>) = {}
<1>1. ASSUME NEW c \in Callbacks
      PROVE  /\ Append(s, c) \in Seq(Callbacks)
             /\ Elements(Append(s, c)) = Elements(s) \union {c}
  <2>1. /\ Append(s, c) \in Seq(Callbacks) /\ Len(Append(s, c)) = Len(s) + 1
        /\ \A i \in 1..Len(s) : Append(s, c)[i] = s[i]
        /\ Append(s, c)[Len(s) + 1] = c /\ Len(s) \in Nat
    OBVIOUS
  <2>2. DOMAIN Append(s, c) = 1..(Len(s) + 1) /\ DOMAIN s = 1..Len(s)
    BY <2>1
  <2> QED
    BY <2>1, <2>2 DEF Elements
<1>2. ASSUME s # <<>>
      PROVE  /\ Head(s) \in Elements(s) /\ Head(s) \in Callbacks
             /\ Tail(s) \in Seq(Callbacks)
             /\ Elements(s) = {Head(s)} \union Elements(Tail(s))
  <2>1. /\ Len(s) \in Nat \ {0} /\ DOMAIN s = 1..Len(s) /\ Head(s) = s[1]
        /\ Tail(s) \in Seq(Callbacks) /\ DOMAIN Tail(s) = 1..(Len(s) - 1)
        /\ \A i \in 1..(Len(s) - 1) : Tail(s)[i] = s[i + 1]
    BY <1>2
  <2>2. \A i \in 2..Len(s) : i - 1 \in 1..(Len(s) - 1) /\ s[i] = Tail(s)[i - 1]
    BY <2>1
  <2>3. \A i \in 1..Len(s) : s[i] = Head(s) \/ s[i] \in Elements(Tail(s))
    <3>1. \A i \in 1..Len(s) : i = 1 \/ i \in 2..Len(s)
      BY <2>1
    <3> QED
      BY <2>1, <2>2, <3>1 DEF Elements
  <2>4. Elements(Tail(s)) \subseteq Elements(s) /\ Head(s) \in Elements(s)
    BY <2>1 DEF Elements
  <2>5. Elements(s) = {s[i] : i \in 1..Len(s)}
    BY <2>1 DEF Elements
  <2> QED
    BY <2>1, <2>3, <2>4, <2>5
<1>3. Elements(s) \subseteq Callbacks
  BY DEF Elements
<1>4. Elements(<<>>) = {}
  BY DEF Elements
<1> QED
  BY <1>1, <1>2, <1>3, <1>4

(* Tracing through a member that is due forwards it and disturbs no other. *)
LEMMA TracesMember ==
  ASSUME IInv, phase # "mutator",
         NEW o \in traced, NEW k \in Members[o], Field(o, k) # Null,
         NEW p, p = Field(o, k)[1], TraceMember(At(o), k)
  PROVE  /\ p \in live
         /\ mem' \in [Address -> Row]
         /\ \A b \in Address : mem'[b] \in [Members[b[1]] -> Ref]
         /\ place' \in [Objects -> {0, 1}]
         /\ traced' = traced \union {p} /\ traced' \subseteq live
         /\ \A q \in traced : At(q)' = At(q)
         /\ \A q \in Objects : At(q) \in Address /\ At(q)' \in Address
         /\ At(p)' = <<p, NewPlace(p)>>
         /\ \A q \in Objects : \A j \in Members[q] :
              Field(q, j)' = IF q = o /\ j = k THEN At(p)' ELSE Field(q, j)
<1>1. TypeWeak /\ o \in live /\ o \in Objects /\ p \in live /\ p \in Objects
  BY DEF IInv, TypeWeak, Allocated
<1>2. /\ Trace(p)
      /\ mem' = [Copied(p) EXCEPT ![At(o)] = [@ EXCEPT ![k] = <<p, NewPlace(p)>>]]
  BY DEF TraceMember, Field, Forwarded
<1>3. /\ Copied(p) \in [Address -> Row]
      /\ \A b \in Address : Copied(p)[b] \in [Members[b[1]] -> Ref]
      /\ place' \in [Objects -> {0, 1}]
      /\ traced' = traced \union {p} /\ traced' \subseteq live
      /\ At(p)' = <<p, NewPlace(p)>>
      /\ \A q \in Objects : q # p \/ q \in traced => At(q)' = At(q)
      /\ \A q \in Objects : Copied(p)[At(q)'] = mem[At(q)]
      /\ \A q \in Objects : At(q) \in Address /\ At(q)' \in Address
  BY <1>1, <1>2, Traces
<1>4. At(o)' = At(o) /\ At(o) \in Address /\ At(o)[1] = o
  BY <1>1, <1>3 DEF At
<1>5. At(p)' \in Ref
  BY <1>1, <1>3 DEF Ref
<1> DEFINE r == [Copied(p)[At(o)] EXCEPT ![k] = At(p)']
<1>6. Copied(p)[At(o)] \in [Members[o] -> Ref]
  BY <1>3, <1>4
<1>7. /\ r \in [Members[o] -> Ref]
      /\ \A j \in Members[o] : r[j] = IF j = k THEN At(p)' ELSE Copied(p)[At(o)][j]
  BY <1>5, <1>6
<1>8. mem' = [Copied(p) EXCEPT ![At(o)] = r]
  BY <1>2, <1>3, <1>4, <1>5
<1> HIDE DEF r
<1>9. /\ mem' \in [Address -> Row]
      /\ \A b \in Address : mem'[b] \in [Members[b[1]] -> Ref]
      /\ \A b \in Address : mem'[b] = IF b = At(o) THEN r ELSE Copied(p)[b]
  <2>1. r \in [Members[At(o)[1]] -> Ref]
    BY <1>4, <1>7
  <2> DEFINE f == Copied(p)
  <2>2. /\ f \in [Address -> Row]
        /\ \A b \in Address : f[b] \in [Members[b[1]] -> Ref]
    BY <1>3
  <2>3. mem' = [f EXCEPT ![At(o)] = r]
    BY <1>8
  <2> HIDE DEF f
  <2>4. /\ [f EXCEPT ![At(o)] = r] \in [Address -> Row]
        /\ \A b \in Address : [f EXCEPT ![At(o)] = r][b] \in [Members[b[1]] -> Ref]
        /\ \A b \in Address : [f EXCEPT ![At(o)] = r][b] = IF b = At(o) THEN r ELSE f[b]
    BY <1>4, <2>1, <2>2, RowsAreTyped
  <2> QED
    BY <2>3, <2>4 DEF f
<1>10. ASSUME NEW q \in Objects, NEW j \in Members[q]
       PROVE  Field(q, j)' = IF q = o /\ j = k THEN At(p)' ELSE Field(q, j)
  <2>1. Field(q, j)' = mem'[At(q)'][j] /\ Field(q, j) = Copied(p)[At(q)'][j]
    BY <1>3 DEF Field
  <2>2. At(q)' = At(o) <=> q = o
    BY <1>1, <1>4 DEF At
  <2> QED
    BY <1>3, <1>4, <1>7, <1>9, <2>1, <2>2
<1> QED
  BY <1>1, <1>3, <1>9, <1>10 DEF TypeWeak

(* A step that traces p through the member k of o, and nothing else.       *)
MemberStep(o, k, p) ==
  /\ phase # "mutator" /\ phase' = phase /\ live' = live /\ before' = before
  /\ o \in traced /\ k \in Members[o] \cap {"strong", "late"} /\ Field(o, k) # Null
  /\ p = Field(o, k)[1] /\ p \in live
  /\ place' \in [Objects -> {0, 1}]
  /\ traced' = traced \union {p}
  /\ \A q \in traced : At(q)' = At(q)
  /\ \A q \in Objects : \A j \in Members[q] :
       Field(q, j)' = IF q = o /\ j = k THEN At(p)' ELSE Field(q, j)
  /\ \A q \in traced : \A j \in Members[q] :
       ToVisit(q, j) \/ ToRun(q, j) =>
         (q = o /\ j = k) \/ ToVisit(q, j)' \/ ToRun(q, j)'
  /\ p \notin traced => \A j \in Members[p] : ToVisit(p, j)'

LEMMA MemberTraced ==
  ASSUME IInv, NEW o, NEW k, NEW p, MemberStep(o, k, p)
  PROVE  Allocated' /\ Visited' /\ CollectionInv'
<1> USE DEF MemberStep
<1>1. /\ traced \subseteq live /\ live \subseteq Objects /\ o \in live /\ p \in Objects
      /\ Root \in live
  BY DEF IInv, TypeWeak
<1>2. At(p)'[1] = p /\ At(p)' # Null
  BY <1>1, WeakRefsAssumption DEF At
<1>3. Allocated'
  BY <1>1, <1>2 DEF IInv, Allocated
<1>4. Visited'
  <2> SUFFICES ASSUME NEW q \in traced', NEW j \in Members[q]
               PROVE  \/ ToVisit(q, j)' \/ ToRun(q, j)'
                      \/ Field(q, j)' = Null \/ UpToDate(Field(q, j))'
    BY DEF Visited
  <2>1. CASE q \notin traced
    BY <2>1
  <2>2. CASE q = o /\ j = k
    BY <1>1, <1>2, <2>2 DEF UpToDate
  <2>3. CASE q \in traced /\ ~(q = o /\ j = k)
    <3>1. Field(q, j)' = Field(q, j)
      BY <1>1, <2>3
    <3>2. UpToDate(Field(q, j)) => UpToDate(Field(q, j))'
      BY <3>1 DEF UpToDate, At
    <3> QED
      BY <2>3, <3>1, <3>2 DEF IInv, Visited
  <2> QED
    BY <2>1, <2>2, <2>3
<1>5. BeforeInv /\ TracedInv
  BY DEF IInv, CollectionInv
<1>6. before' = before /\ live' = live /\ phase' = phase
  OBVIOUS
<1>7. Strong' = Strong
  BY <1>6 DEF Strong, Reach
<1>8. \A S \in SUBSET live :
        Closed(S, {"strong", "late"})' <=> Closed(S, {"strong", "late"})
  BY <1>6 DEF Closed
<1>9. BeforeInv'
  <2>1. before[o][k] # Null /\ before[o][k][1] = p
    BY <1>1, <1>5 DEF BeforeInv
  <2> QED
    BY <1>1, <1>2, <1>5, <1>6, <1>7, <2>1 DEF BeforeInv
<1>10. TracedInv'
  <2>1. ASSUME NEW S \in SUBSET live, Closed(S, {"strong", "late"})
        PROVE  traced' \subseteq S
    <3>1. traced \subseteq S /\ before[o][k] # Null /\ before[o][k][1] = p
      BY <1>1, <1>5, <2>1 DEF BeforeInv, TracedInv
    <3> QED
      BY <2>1, <3>1 DEF Closed
  <2> QED
    BY <1>5, <1>6, <1>7, <1>8, <2>1 DEF TracedInv
<1> QED
  BY <1>3, <1>4, <1>9, <1>10 DEF CollectionInv

-------------------------------------------------------------------------------

LEMMA InitSafe == Init => IInv
<1> SUFFICES ASSUME Init PROVE IInv
  OBVIOUS
<1>1. \A o \in Objects : Empty(o) \in [Members[o] -> Ref] /\ Empty(o) \in Row
  BY DEF Empty, Ref, Row
<1>2. TypeWeak
  <2>1. \A a \in Address : a[1] \in Objects
    BY DEF Address
  <2>2. mem = [a \in Address |-> Empty(a[1])]
    BY DEF Init, Address
  <2>3. \A a \in Address : /\ mem[a] = Empty(a[1])
                           /\ mem[a] \in [Members[a[1]] -> Ref] /\ mem[a] \in Row
    BY <1>1, <2>1, <2>2
  <2>4. mem \in [Address -> Row]
    BY <2>2, <2>3
  <2>5. channel \in Seq(Callbacks) /\ drained \in Seq(Callbacks)
    BY DEF Init
  <2> QED
    BY <2>3, <2>4, <2>5, WeakRefsAssumption DEF Init, TypeWeak
<1>3. \A a \in Address : mem[a] = Empty(a[1])
  BY DEF Init, Address
<1>4. At(Root) \in Address /\ At(Root)[1] = Root
  BY WeakRefsAssumption DEF Init, At, Address
<1>5. \A k \in Members[Root] : Field(Root, k) = Null
  BY <1>3, <1>4 DEF Field, Empty
<1>6. Queued = {}
  BY DEF Init, Queued, Elements
<1>7. Allocated /\ MembersValid
  BY <1>3, <1>5 DEF Init, Allocated, MembersValid, Field, Address
<1> QED
  BY <1>2, <1>6, <1>7 DEF Init, IInv, Visited, WorkInv, PhaseInv, FoundInv, CollectionInv

(* The program changes members between collections, when nothing is due.   *)
LEMMA MutatorSafe ==
  ASSUME IInv, phase = "mutator", phase' = "mutator", UNCHANGED collector,
         TypeWeak', Allocated', MembersValid'
  PROVE  IInv'
<1>1. traced' = {} /\ grey' = {} /\ channel' = <<>> /\ drained' = <<>>
  BY DEF IInv, PhaseInv, collector
<1>2. found' = "unknown"
  BY DEF IInv, FoundInv, collector
<1>3. Queued' = {}
  BY <1>1 DEF Queued, Elements
<1> QED
  BY <1>1, <1>2, <1>3 DEF IInv, Visited, WorkInv, PhaseInv, FoundInv, CollectionInv

Valid(ref) == ref # Null => ref[1] \in live /\ ref = At(ref[1])

LEMMA ValidMembers ==
  ASSUME UNCHANGED place,
         \A q \in live' : \A j \in Members[q] : (Valid(Field(q, j)))',
         \A b \in Address : (b[1] \in live' /\ b = At(b[1])) \/ mem'[b] = Empty(b[1])
  PROVE  MembersValid'
<1>1. \A b : At(b)' = At(b)
  BY DEF At
<1> QED
  BY <1>1 DEF MembersValid, Valid, Field, Address

LEMMA WriteSafe ==
  ASSUME IInv, NEW o \in Objects, NEW k \in Members[o],
         NEW ref \in {Null} \union {At(p) : p \in live}, Write(o, k, ref)
  PROVE  IInv'
<1> DEFINE a == At(o)
<1>1. /\ TypeWeak /\ MembersValid /\ Allocated /\ phase = "mutator" /\ phase' = "mutator"
      /\ UNCHANGED <<place, live>> /\ UNCHANGED collector
      /\ o \in live /\ mem' = Store(a, k, ref)
  BY DEF IInv, Write, Reach, Graph
<1>2. \A q \in Objects : At(q) \in Address /\ At(q)[1] = q /\ At(q)' = At(q)
  BY <1>1 DEF At, Address, TypeWeak
<1>3. ref \in Ref /\ (ref # Null => ref[1] \in live /\ ref = At(ref[1]))
  BY <1>1, <1>2, WeakRefsAssumption DEF Ref, TypeWeak
<1>4. /\ mem' \in [Address -> Row]
      /\ \A b \in Address : mem'[b] \in [Members[b[1]] -> Ref]
      /\ \A b \in Address : \A j \in Members[b[1]] :
           mem'[b][j] = IF b = a /\ j = k THEN ref ELSE mem[b][j]
      /\ \A b \in Address \ {a} : mem'[b] = mem[b]
  BY <1>1, <1>2, <1>3, Stores
<1>5. TypeWeak'
  BY <1>1, <1>4 DEF TypeWeak, collector
<1>6. \A q \in live : \A j \in Members[q] :
        Field(q, j)' = IF q = o /\ j = k THEN ref ELSE Field(q, j)
  <2> TAKE q \in live
  <2>1. q \in Objects /\ (At(q) = a <=> q = o)
    BY <1>1, <1>2 DEF TypeWeak
  <2> QED
    BY <1>2, <1>4, <2>1 DEF Field
<1>7. Allocated'
  BY <1>1, <1>3, <1>6 DEF Allocated
<1>8. MembersValid'
  <2>1. \A q \in live' : \A j \in Members[q] : (Valid(Field(q, j)))'
    <3> SUFFICES ASSUME NEW q \in live', NEW j \in Members[q]
                 PROVE  (Valid(Field(q, j)))'
      OBVIOUS
    <3>1. CASE q = o /\ j = k
      BY <1>1, <1>3, <1>6, <3>1 DEF Valid, At
    <3>2. CASE ~(q = o /\ j = k)
      BY <1>1, <1>6, <3>2 DEF MembersValid, Field, Valid, At
    <3> QED
      BY <3>1, <3>2
  <2>2. \A b \in Address : (b[1] \in live /\ b = At(b[1])) \/ mem'[b] = Empty(b[1])
    BY <1>1, <1>2, <1>4 DEF MembersValid, Address
  <2> QED
    BY <1>1, <2>1, <2>2, ValidMembers
<1> QED
  BY <1>1, <1>5, <1>7, <1>8, MutatorSafe

LEMMA NewSafe ==
  ASSUME IInv, NEW p \in Objects, NEW o \in Objects, NEW k \in Members[o], New(p, o, k)
  PROVE  IInv'
<1> DEFINE a == At(o)
<1>1. /\ TypeWeak /\ MembersValid /\ Allocated /\ phase = "mutator" /\ phase' = "mutator"
      /\ UNCHANGED place /\ UNCHANGED collector
      /\ o \in live /\ p \notin live /\ live' = live \union {p}
  BY DEF IInv, New, Reach, Graph
<1>2. \A q \in Objects : At(q) \in Address /\ At(q)[1] = q /\ At(q)' = At(q)
  BY <1>1 DEF At, Address, TypeWeak
<1>3. At(p) \in Ref /\ At(p) # Null
  BY <1>2, WeakRefsAssumption DEF Ref, Address
<1>4. mem' = Store(a, k, At(p))
  <2> DEFINE f == Store(a, k, At(p))
  <2>1. mem[At(p)] = Empty(p)
    BY <1>1, <1>2 DEF MembersValid, Address
  <2>2. f[At(p)] = mem[At(p)] /\ f = [f EXCEPT ![At(p)] = f[At(p)]]
    BY <1>1, <1>2, ZenonT(30) DEF Store, TypeWeak
  <2>3. mem' = [f EXCEPT ![At(p)] = Empty(p)]
    BY DEF New
  <2> QED
    BY <2>1, <2>2, <2>3
<1>5. /\ mem' \in [Address -> Row]
      /\ \A b \in Address : mem'[b] \in [Members[b[1]] -> Ref]
      /\ \A b \in Address : \A j \in Members[b[1]] :
           mem'[b][j] = IF b = a /\ j = k THEN At(p) ELSE mem[b][j]
      /\ \A b \in Address \ {a} : mem'[b] = mem[b]
  BY <1>1, <1>2, <1>3, <1>4, Stores
<1>6. TypeWeak'
  BY <1>1, <1>5 DEF TypeWeak, collector
<1>7. \A q \in Objects : \A j \in Members[q] :
        Field(q, j)' = IF q = o /\ j = k THEN At(p) ELSE Field(q, j)
  <2> TAKE q \in Objects
  <2>1. At(q) = a <=> q = o
    BY <1>2
  <2> QED
    BY <1>2, <1>5, <2>1 DEF Field
<1>8. \A j \in Members[p] : Field(p, j) = Null
  <2>1. mem[At(p)] = Empty(p)
    BY <1>1, <1>2 DEF MembersValid, Address
  <2> QED
    BY <2>1 DEF Field, Empty
<1>9. Allocated'
  BY <1>1, <1>2, <1>7, <1>8, SMTT(20) DEF Allocated, TypeWeak
<1>10. \A q \in live' : \A j \in Members[q] : (Valid(Field(q, j)))'
  <2> SUFFICES ASSUME NEW q \in live', NEW j \in Members[q]
               PROVE  (Valid(Field(q, j)))'
    OBVIOUS
  <2>1. CASE q = o /\ j = k
    BY <1>1, <1>2, <1>7, <2>1 DEF Valid
  <2>2. CASE ~(q = o /\ j = k)
    <3>1. q \in Objects /\ Field(q, j)' = Field(q, j)
      BY <1>1, <1>7, <2>2 DEF TypeWeak
    <3>2. Field(q, j) # Null => q \in live
      BY <1>1, <1>8
    <3>3. Field(q, j) # Null => Field(q, j)[1] \in live /\ Field(q, j) = At(Field(q, j)[1])
      BY <1>1, <3>2 DEF MembersValid, Field
    <3> QED
      BY <1>1, <3>1, <3>3 DEF Valid, At
  <2> QED
    BY <2>1, <2>2
<1>11. \A b \in Address : (b[1] \in live' /\ b = At(b[1])) \/ mem'[b] = Empty(b[1])
  BY <1>1, <1>2, <1>5 DEF MembersValid, Address
<1> QED
  BY <1>1, <1>6, <1>9, <1>10, <1>11, ValidMembers, MutatorSafe

-------------------------------------------------------------------------------

LEMMA StartSafe == ASSUME IInv, StartCollection PROVE IInv'
<1>1. /\ TypeWeak /\ Allocated /\ MembersValid /\ phase = "mutator" /\ phase' = "closure"
      /\ Trace(Root) /\ mem' = Copied(Root) /\ grey' = Enqueued(Root) /\ before' = Graph
      /\ UNCHANGED <<live, channel, drained, found, rescan>>
      /\ traced = {} /\ channel = <<>> /\ drained = <<>> /\ found = "unknown"
  BY DEF IInv, StartCollection, PhaseInv, FoundInv
<1>2. Root \in live /\ live \subseteq Objects
  BY <1>1 DEF TypeWeak
<1>3. /\ mem' \in [Address -> Row]
      /\ \A b \in Address : mem'[b] \in [Members[b[1]] -> Ref]
      /\ place' \in [Objects -> {0, 1}]
      /\ traced' = {Root}
      /\ At(Root)' = <<Root, NewPlace(Root)>>
      /\ \A o \in Objects : mem'[At(o)'] = mem[At(o)]
      /\ \A o \in Objects : At(o) \in Address /\ At(o)' \in Address
  <2>1. TypeWeak /\ Trace(Root)
    BY <1>1
  <2> QED
    BY <1>1, <1>2, <2>1, Traces
<1>4. \A o \in Objects : \A k \in Members[o] : Field(o, k)' = Field(o, k)
  BY <1>3 DEF Field
<1>5. \A s \in grey' : s = [object |-> At(Root)', left |-> Members[Root]]
  BY <1>1, <1>3 DEF Enqueued
<1>6. Members[Root] \subseteq Kinds /\ At(Root)'[1] = Root
  BY <1>2, <1>3, WeakRefsAssumption DEF Kinds
<1>7. TypeWeak'
  <2>1. /\ [object |-> At(Root)', left |-> Members[Root]]
             \in [object : Address, left : SUBSET Kinds]
    BY <1>2, <1>3, <1>6
  <2>2. grey' \subseteq [object : Address, left : SUBSET Kinds]
    BY <1>5, <2>1
  <2> QED
    BY <1>1, <1>2, <1>3, <2>2 DEF TypeWeak
<1>8. Queued' = {}
  BY <1>1 DEF Queued, Elements
<1>9. Allocated'
  BY <1>1, <1>2, <1>4 DEF Allocated
<1>10. Visited'
  <2>1. \A k \in Members[Root] : ToVisit(Root, k)'
    BY <1>1, <1>2, <1>3 DEF ToVisit, Enqueued
  <2> QED
    BY <1>3, <2>1 DEF Visited
<1>11. WorkInv'
  BY <1>3, <1>5, <1>6, <1>8 DEF WorkInv
<1>12. BeforeInv'
  <2>1. DOMAIN before' = live' /\ \A o \in live : before'[o] = mem[At(o)]
    BY <1>1 DEF Graph
  <2>2. \A o \in live : \A k \in Members[o] : before'[o][k] = Field(o, k)'
    BY <1>2, <1>4, <2>1 DEF Field
  <2>3. \A o \in live : \A k \in Members[o] :
          before'[o][k] # Null => before'[o][k][1] \in live
    BY <1>9, <2>2, <1>1 DEF Allocated
  <2>4. Strong' \subseteq DOMAIN before'
    BY DEF Strong, Reach
  <2> QED
    BY <1>1, <2>1, <2>2, <2>3, <2>4 DEF BeforeInv
<1>13. TracedInv'
  BY <1>1, <1>3 DEF TracedInv, Closed
<1> QED
  BY <1>1, <1>7, <1>9, <1>10, <1>11, <1>12, <1>13
  DEF IInv, PhaseInv, FoundInv, CollectionInv, MembersValid

-------------------------------------------------------------------------------

(* A worker that has visited a member still has all the others to visit.   *)
LEMMA Rests ==
  ASSUME TypeWeak, NEW s \in grey, NEW k \in s.left
  PROVE  /\ Rest(s, k) \subseteq [object : Address, left : SUBSET Kinds]
         /\ \A t \in Rest(s, k) : \E u \in grey : t.object = u.object /\ t.left \subseteq u.left
         /\ \A q, j : ToVisit(q, j) /\ ~(At(q) = s.object /\ j = k) =>
              \E t \in Rest(s, k) : t.object = At(q) /\ j \in t.left
<1> DEFINE r == [s EXCEPT !.left = @ \ {k}]
<1>1. /\ r \in [object : Address, left : SUBSET Kinds]
      /\ r.object = s.object /\ r.left = s.left \ {k}
  BY DEF TypeWeak
<1>2. Rest(s, k) = IF s.left = {k} THEN grey \ {s} ELSE (grey \ {s}) \union {r}
  BY DEF Rest
<1> HIDE DEF r
<1>3. ASSUME NEW q, NEW j, ToVisit(q, j), ~(At(q) = s.object /\ j = k)
      PROVE  \E t \in Rest(s, k) : t.object = At(q) /\ j \in t.left
  <2>1. PICK t \in grey : t.object = At(q) /\ j \in t.left
    BY <1>3 DEF ToVisit
  <2>2. CASE t # s
    BY <1>2, <2>1, <2>2
  <2>3. CASE t = s
    BY <1>1, <1>2, <1>3, <2>1, <2>3
  <2> QED
    BY <2>2, <2>3
<1> QED
  BY <1>1, <1>2, <1>3 DEF TypeWeak

(* What a callback has found out stays so while workers go on.             *)
LEMMA FoundKept ==
  ASSUME IInv, UNCHANGED <<phase, live, drained, found, before>>, traced \subseteq traced',
         \A q \in traced : At(q)' = At(q),
         \A q \in traced : "weak" \in Members[q] => Field(q, "weak")' = Field(q, "weak")
  PROVE  FoundInv'
<1> SUFFICES ASSUME found # "unknown" PROVE FoundInv'
  BY DEF FoundInv
<1> DEFINE c == Head(drained)
<1>1. /\ phase = "weak" /\ drained # <<>> /\ c.member = "weak"
      /\ LET ref == mem[c.object]["weak"]
         IN IF found = "yes" THEN ref # Null /\ ref[1] \in traced
            ELSE ref = Null \/ ref[1] \notin Strong
  BY DEF IInv, FoundInv
<1>2. c \in Queued
  BY <1>1, Queues DEF IInv, TypeWeak, Queued
<1>3. /\ c.object[1] \in traced /\ c.object = At(c.object[1])
      /\ "weak" \in Members[c.object[1]]
  BY <1>1, <1>2 DEF IInv, WorkInv
<1>4. mem'[c.object]["weak"] = mem[c.object]["weak"]
  BY <1>3 DEF Field
<1>5. Strong' = Strong
  BY DEF Strong, Reach
<1> QED
  BY <1>1, <1>4, <1>5 DEF FoundInv

LEMMA ScanSafe ==
  ASSUME IInv, NEW s \in grey, NEW k \in s.left, ScanObject(s, k)
  PROVE  IInv'
<1> PICK o : o = s.object[1]
  OBVIOUS
<1>1. /\ TypeWeak /\ UNCHANGED <<phase, live, drained, found, rescan, before>>
      /\ VisitMember(s, k)
  BY DEF IInv, ScanObject
<1>2. /\ o \in traced /\ s.object = At(o) /\ k \in Members[o]
      /\ s.left \subseteq Members[o] /\ o \in Objects
      /\ traced \subseteq live /\ live \subseteq Objects
  BY <1>1 DEF IInv, WorkInv, TypeWeak
<1>3. phase \in {"closure", "weak"} /\ (phase = "weak" => rescan)
  BY <1>1 DEF IInv, PhaseInv, TypeWeak
<1>4. /\ Rest(s, k) \subseteq [object : Address, left : SUBSET Kinds]
      /\ \A t \in Rest(s, k) : \E u \in grey : t.object = u.object /\ t.left \subseteq u.left
      /\ \A q \in traced : \A j : ToVisit(q, j) /\ ~(q = o /\ j = k) =>
           \E t \in Rest(s, k) : t.object = At(q) /\ j \in t.left
  <2>1. \A q : q # o => At(q) # s.object
    BY <1>2 DEF At
  <2> QED
    BY <1>1, <2>1, Rests
<1>5. \A t \in Rest(s, k) : /\ t.object[1] \in traced /\ t.object = At(t.object[1])
                            /\ t.left \subseteq Members[t.object[1]]
  BY <1>4 DEF IInv, WorkInv
<1>6. PhaseInv' /\ MembersValid'
  <2>1. drained' = drained /\ phase' = phase /\ rescan' = rescan
    BY <1>1
  <2> QED
    BY <1>3, <2>1 DEF IInv, PhaseInv, MembersValid
<1>7. ASSUME VisitNull(s, k) \/ Register(s, k),
             VisitNull(s, k) => Field(o, k) = Null /\ UNCHANGED channel,
             Register(s, k) => /\ k \in {"weak", "late"}
                               /\ channel' = Append(channel, [object |-> At(o), member |-> k])
      PROVE  IInv'
  <2>1. grey' = Rest(s, k) /\ UNCHANGED <<place, mem, traced>>
    BY <1>7 DEF VisitNull, Register
  <2>2. (\A q : At(q)' = At(q)) /\ (\A q, j : Field(q, j)' = Field(q, j))
    BY <2>1 DEF At, Field
  <2> DEFINE c == [object |-> At(o), member |-> k]
  <2>3. Register(s, k) => c \in Callbacks
    BY <1>1, <1>2, <1>7 DEF Callbacks, At, Address, TypeWeak
  <2>4. /\ channel' \in Seq(Callbacks)
        /\ Queued \subseteq Queued'
        /\ Queued' \subseteq Queued \union {c}
        /\ Register(s, k) => c \in Queued'
    <3>1. channel \in Seq(Callbacks) /\ drained' = drained
      BY <1>1 DEF TypeWeak
    <3>2. CASE Register(s, k)
      <4>1. channel' = Append(channel, c) /\ c \in Callbacks
        BY <1>7, <2>3, <3>2
      <4> HIDE DEF c
      <4>2. /\ channel' \in Seq(Callbacks)
            /\ Elements(channel') = Elements(channel) \union {c}
        BY <3>1, <4>1, Queues
      <4> QED
        BY <3>1, <4>2 DEF Queued
    <3>3. CASE ~Register(s, k)
      BY <1>7, <3>1, <3>3 DEF Queued
    <3> QED
      BY <3>2, <3>3
  <2>5. TypeWeak'
    BY <1>1, <1>4, <2>1, <2>4 DEF TypeWeak
  <2>6. Allocated'
    BY <1>1, <2>2 DEF IInv, Allocated
  <2>7. Visited'
    <3> SUFFICES ASSUME NEW q \in traced, NEW j \in Members[q]
                 PROVE  \/ ToVisit(q, j)' \/ ToRun(q, j)'
                        \/ Field(q, j)' = Null \/ UpToDate(Field(q, j))'
      BY <2>1 DEF Visited
    <3>1. CASE q = o /\ j = k
      BY <1>7, <2>2, <2>4, <3>1 DEF ToRun
    <3>2. CASE ~(q = o /\ j = k)
      <4>1. ToVisit(q, j) => ToVisit(q, j)'
        BY <1>4, <2>1, <2>2, <3>2 DEF ToVisit
      <4>2. ToRun(q, j) => ToRun(q, j)'
        BY <2>2, <2>4 DEF ToRun
      <4>3. UpToDate(Field(q, j)) => UpToDate(Field(q, j))'
        BY <2>1, <2>2 DEF UpToDate
      <4> QED
        BY <2>2, <4>1, <4>2, <4>3 DEF IInv, Visited
    <3> QED
      BY <3>1, <3>2
  <2>8. WorkInv'
    <3>1. \A d \in Queued' : d \in Queued \/ d = c
      BY <2>4
    <3>2. c.object[1] = o
      BY <1>2 DEF At
    <3> QED
      BY <1>2, <1>5, <2>1, <2>2, <3>1, <3>2 DEF IInv, WorkInv
  <2>9. FoundInv'
    BY <1>1, <2>1, <2>2, FoundKept
  <2>10. CollectionInv'
    <3>1. before' = before /\ live' = live /\ phase' = phase
      BY <1>1
    <3>2. Strong' = Strong /\ \A S \in SUBSET live :
            Closed(S, {"strong", "late"})' <=> Closed(S, {"strong", "late"})
      BY <3>1 DEF Strong, Reach, Closed
    <3>3. BeforeInv => BeforeInv'
      BY <2>2, <3>1, <3>2 DEF BeforeInv
    <3>4. TracedInv => TracedInv'
      BY <2>1, <3>1, <3>2 DEF TracedInv
    <3> QED
      BY <3>1, <3>3, <3>4 DEF IInv, CollectionInv
  <2> QED
    BY <1>6, <2>5, <2>6, <2>7, <2>8, <2>9, <2>10 DEF IInv
<1>8. ASSUME VisitStrong(s, k), k = "strong" PROVE IInv'
  <2> PICK p : p = Field(o, k)[1]
    OBVIOUS
  <2>1. /\ Field(o, k) # Null /\ TraceMember(At(o), k)
        /\ grey' = Rest(s, k) \union Enqueued(p) /\ UNCHANGED channel
    BY <1>2, <1>8 DEF VisitStrong, Field
  <2>2. /\ p \in live
        /\ mem' \in [Address -> Row]
        /\ \A b \in Address : mem'[b] \in [Members[b[1]] -> Ref]
        /\ place' \in [Objects -> {0, 1}]
        /\ traced' = traced \union {p} /\ traced' \subseteq live
        /\ \A q \in traced : At(q)' = At(q)
        /\ \A q \in Objects : At(q) \in Address /\ At(q)' \in Address
        /\ At(p)' = <<p, NewPlace(p)>>
        /\ \A q \in Objects : \A j \in Members[q] :
             Field(q, j)' = IF q = o /\ j = k THEN At(p)' ELSE Field(q, j)
    BY <1>2, <1>3, <2>1, TracesMember
  <2>3. Queued' = Queued
    BY <1>1, <2>1 DEF Queued
  <2>4. \A t \in grey' : t \in Rest(s, k) \/ t = [object |-> At(p)', left |-> Members[p]]
    BY <2>1, <2>2 DEF Enqueued
  <2>5. Members[p] \subseteq Kinds /\ At(p)'[1] = p /\ p \in Objects
    <3>1. p \in Objects
      BY <1>1, <2>2 DEF TypeWeak
    <3>2. Members[p] \subseteq Kinds
      BY <3>1, WeakRefsAssumption DEF Kinds
    <3>3. At(p)'[1] = p
      BY <2>2
    <3> QED
      BY <3>1, <3>2, <3>3
  <2>6. TypeWeak'
    <3>1. [object |-> At(p)', left |-> Members[p]] \in [object : Address, left : SUBSET Kinds]
      BY <2>2, <2>5
    <3>2. grey' \subseteq [object : Address, left : SUBSET Kinds]
      BY <1>4, <2>4, <3>1
    <3> QED
      BY <1>1, <2>1, <2>2, <3>2 DEF TypeWeak
  <2>7. \A q \in traced : \A j \in Members[q] :
          ToVisit(q, j) \/ ToRun(q, j) =>
            (q = o /\ j = k) \/ ToVisit(q, j)' \/ ToRun(q, j)'
    <3> SUFFICES ASSUME NEW q \in traced, NEW j \in Members[q], ~(q = o /\ j = k)
                 PROVE  ToVisit(q, j) \/ ToRun(q, j) => ToVisit(q, j)' \/ ToRun(q, j)'
      OBVIOUS
    <3>1. At(q)' = At(q)
      BY <2>2
    <3>2. ToVisit(q, j) => ToVisit(q, j)'
      BY <1>4, <2>1, <3>1 DEF ToVisit
    <3>3. ToRun(q, j) => ToRun(q, j)'
      BY <2>3, <3>1 DEF ToRun
    <3> QED
      BY <3>2, <3>3
  <2>8. p \notin traced => \A j \in Members[p] : ToVisit(p, j)'
    <3>1. p \notin traced => [object |-> At(p)', left |-> Members[p]] \in grey' \/ Members[p] = {}
      BY <2>1, <2>2 DEF Enqueued
    <3> QED
      BY <3>1 DEF ToVisit
  <2>9. Allocated' /\ Visited' /\ CollectionInv'
    <3>1. phase # "mutator" /\ phase' = phase /\ live' = live /\ before' = before
      BY <1>1, <1>3
    <3>2. k \in Members[o] \cap {"strong", "late"}
      BY <1>2, <1>8
    <3> QED
      <4>1. MemberStep(o, k, p)
        BY <1>2, <2>1, <2>2, <2>7, <2>8, <3>1, <3>2 DEF MemberStep
      <4> QED
        BY <4>1, MemberTraced
  <2>10. WorkInv'
    BY <1>5, <2>2, <2>3, <2>4, <2>5, SMTT(20) DEF IInv, WorkInv
  <2>11. FoundInv'
    <3>1. \A q \in traced : "weak" \in Members[q] => Field(q, "weak")' = Field(q, "weak")
      BY <1>2, <1>8, <2>2
    <3> QED
      BY <1>1, <2>2, <3>1, FoundKept
  <2> QED
    BY <1>6, <2>6, <2>9, <2>10, <2>11 DEF IInv
<1>9. VisitNull(s, k) => Field(o, k) = Null /\ UNCHANGED channel
  BY <1>2 DEF VisitNull, Field
<1>10. Register(s, k) => channel' = Append(channel, [object |-> At(o), member |-> k])
  BY <1>2 DEF Register
<1>11. k \in Kinds
  BY <1>1 DEF TypeWeak
<1> QED
  BY <1>1, <1>7, <1>8, <1>9, <1>10, <1>11 DEF VisitMember, Kinds

-------------------------------------------------------------------------------

(* What is closed under the members holds all they lead to.                *)
LEMMA ClosedReach ==
  ASSUME NEW kinds, DOMAIN before = live, traced \subseteq live, Closed(traced, kinds)
  PROVE  Reach(before, kinds) \subseteq traced
BY DEF Reach, Closed

(* With nothing left to scan, the strong members have all been traced.     *)
LEMMA NothingLeft ==
  ASSUME IInv, phase # "mutator", grey = {}
  PROVE  Strong \subseteq traced
<1>1. TypeWeak /\ BeforeInv /\ TracedInv
  BY DEF IInv, CollectionInv
<1>2. Closed(traced, {"strong"})
  <2> SUFFICES ASSUME NEW p \in traced, "strong" \in Members[p], before[p]["strong"] # Null
               PROVE  before[p]["strong"][1] \in traced
    BY <1>1 DEF Closed, TracedInv
  <2>1. p \in live
    BY <1>1 DEF TypeWeak
  <2>2. Field(p, "strong") # Null /\ Field(p, "strong")[1] = before[p]["strong"][1]
    BY <1>1, <2>1 DEF BeforeInv
  <2>3. ~ToVisit(p, "strong")
    BY DEF ToVisit
  <2>4. ~ToRun(p, "strong")
    <3>1. Queued \subseteq Callbacks
      BY <1>1, Queues DEF Queued, TypeWeak
    <3> QED
      BY <3>1 DEF ToRun, Callbacks
  <2> QED
    BY <2>2, <2>3, <2>4 DEF IInv, Visited, UpToDate
<1> QED
  BY <1>1, <1>2, ClosedReach DEF Strong, BeforeInv, TypeWeak

(* Steps that change neither the memory nor the collection's findings.     *)
LEMMA SameHeap ==
  ASSUME IInv, UNCHANGED <<place, mem, live, traced, grey, before>>,
         phase # "mutator", phase' # "mutator", Queued' = Queued,
         phase' \in {"weak", "release"} => Strong \subseteq traced
  PROVE  Allocated' /\ Visited' /\ WorkInv' /\ CollectionInv' /\ MembersValid'
<1>1. (\A q : At(q)' = At(q)) /\ (\A q, j : Field(q, j)' = Field(q, j))
  BY DEF At, Field
<1>2. Allocated'
  BY <1>1 DEF IInv, Allocated
<1>3. \A q, j : (ToVisit(q, j)' <=> ToVisit(q, j)) /\ (ToRun(q, j)' <=> ToRun(q, j))
  BY <1>1 DEF ToVisit, ToRun
<1>5. Visited'
  <2> SUFFICES ASSUME NEW q \in traced, NEW j \in Members[q]
               PROVE  \/ ToVisit(q, j)' \/ ToRun(q, j)'
                      \/ Field(q, j)' = Null \/ UpToDate(Field(q, j))'
    BY DEF Visited
  <2>1. UpToDate(Field(q, j)) => UpToDate(Field(q, j))'
    BY <1>1 DEF UpToDate
  <2> QED
    BY <1>1, <1>3, <2>1 DEF IInv, Visited
<1>6. WorkInv'
  BY <1>1 DEF IInv, WorkInv
<1>7. CollectionInv'
  <2>1. Strong' = Strong /\ \A S \in SUBSET live :
          Closed(S, {"strong", "late"})' <=> Closed(S, {"strong", "late"})
    BY DEF Strong, Reach, Closed
  <2>2. BeforeInv => BeforeInv'
    BY <1>1, <2>1 DEF BeforeInv
  <2>3. TracedInv => TracedInv'
    BY <2>1 DEF TracedInv
  <2> QED
    BY <2>2, <2>3 DEF IInv, CollectionInv
<1> QED
  BY <1>2, <1>5, <1>6, <1>7 DEF MembersValid

LEMMA ProcessSafe == ASSUME IInv, ProcessWeakRefs PROVE IInv'
<1>1. /\ TypeWeak /\ phase = "closure" /\ grey = {} /\ phase' = "weak"
      /\ drained' = channel /\ channel' = <<>> /\ rescan' = FALSE
      /\ UNCHANGED <<place, mem, live, traced, grey, before>> /\ found' = found
  BY DEF IInv, ProcessWeakRefs
<1>2. drained = <<>> /\ found = "unknown"
  BY <1>1 DEF IInv, PhaseInv, FoundInv
<1>3. Queued' = Queued
  BY <1>1, <1>2 DEF Queued
<1>4. Strong \subseteq traced
  BY <1>1, NothingLeft
<1>5. Allocated' /\ Visited' /\ WorkInv' /\ CollectionInv' /\ MembersValid'
  BY <1>1, <1>3, <1>4, SameHeap
<1>6. TypeWeak'
  <2>1. channel' \in Seq(Callbacks) /\ drained' \in Seq(Callbacks)
    BY <1>1 DEF TypeWeak
  <2> QED
    BY <1>1, <2>1 DEF TypeWeak
<1> QED
  BY <1>1, <1>2, <1>5, <1>6 DEF IInv, PhaseInv, FoundInv

LEMMA TestSafe == ASSUME IInv, TestWeak PROVE IInv'
<1> DEFINE ref == mem[Head(drained).object]["weak"]
<1>1. /\ TypeWeak /\ phase = "weak" /\ drained # <<>> /\ Head(drained).member = "weak"
      /\ found' = IF ref # Null /\ ref[1] \in traced THEN "yes" ELSE "no"
      /\ UNCHANGED <<phase, place, mem, live, traced, grey, channel, drained, rescan, before>>
  BY DEF IInv, TestWeak, Running
<1>2. Strong \subseteq traced
  BY <1>1 DEF IInv, CollectionInv, TracedInv
<1>3. Queued' = Queued
  BY <1>1 DEF Queued
<1>4. Allocated' /\ Visited' /\ WorkInv' /\ CollectionInv' /\ MembersValid'
  BY <1>1, <1>2, <1>3, SameHeap
<1>5. TypeWeak'
  BY <1>1 DEF TypeWeak
<1>6. Strong' = Strong
  BY <1>1 DEF Strong, Reach
<1>7. FoundInv'
  BY <1>1, <1>2, <1>6 DEF FoundInv
<1> QED
  BY <1>1, <1>4, <1>5, <1>7 DEF IInv, PhaseInv

LEMMA DoneSafe == ASSUME IInv, WeakRefsDone PROVE IInv'
<1>1. /\ TypeWeak /\ phase = "weak" /\ drained = <<>>
      /\ phase' = IF rescan THEN "closure" ELSE "release"
      /\ UNCHANGED <<place, mem, live, traced, grey, channel, drained, found, rescan, before>>
  BY DEF IInv, WeakRefsDone
<1>2. Strong \subseteq traced /\ found = "unknown"
  BY <1>1 DEF IInv, CollectionInv, TracedInv, FoundInv
<1>3. Queued' = Queued
  BY <1>1 DEF Queued
<1>4. Allocated' /\ Visited' /\ WorkInv' /\ CollectionInv' /\ MembersValid'
  BY <1>1, <1>2, <1>3, SameHeap
<1>5. TypeWeak'
  BY <1>1 DEF TypeWeak
<1> QED
  BY <1>1, <1>2, <1>4, <1>5 DEF IInv, PhaseInv, FoundInv

(* The first callback of a round is for a traced object, and when it has   *)
(* run the others are still queued.                                        *)
FirstCallback(o, k) ==
  /\ o \in traced /\ o \in Objects /\ k \in Members[o] /\ Head(drained) \in Callbacks
  /\ Head(drained) = [object |-> At(o), member |-> k]
  /\ Tail(drained) \in Seq(Callbacks)

LEMMA FirstRuns ==
  ASSUME IInv, NEW k, Running(k), drained' = Tail(drained), UNCHANGED channel
  PROVE  /\ \E o \in traced : FirstCallback(o, k)
         /\ Queued = Queued' \union {Head(drained)}
<1>1. TypeWeak /\ drained \in Seq(Callbacks) /\ drained # <<>> /\ Head(drained).member = k
  BY DEF IInv, TypeWeak, Running
<1>2. /\ Head(drained) \in Elements(drained) /\ Head(drained) \in Callbacks
      /\ Tail(drained) \in Seq(Callbacks)
      /\ Elements(drained) = {Head(drained)} \union Elements(Tail(drained))
  BY <1>1, Queues
<1>3. Queued = Queued' \union {Head(drained)}
  BY <1>2 DEF Queued
<1> PICK c : c = Head(drained)
  OBVIOUS
<1>4. c \in Queued
  BY <1>3
<1>5. /\ c.object[1] \in traced /\ c.object = At(c.object[1])
      /\ c.member \in Members[c.object[1]]
  BY <1>4 DEF IInv, WorkInv
<1>6. c = [object |-> c.object, member |-> c.member] /\ c.member = k
  BY <1>1, <1>2 DEF Callbacks
<1>7. FirstCallback(c.object[1], k)
  BY <1>1, <1>2, <1>5, <1>6 DEF FirstCallback, TypeWeak
<1> QED
  BY <1>3, <1>5, <1>7

LEMMA WriteWeakSafe == ASSUME IInv, WriteWeak PROVE IInv'
<1>1. /\ TypeWeak /\ Running("weak") /\ phase = "weak" /\ found # "unknown"
      /\ found' = "unknown" /\ drained' = Tail(drained)
      /\ UNCHANGED <<phase, place, live, traced, grey, channel, rescan, before>>
      /\ BeforeInv /\ TracedInv
  BY DEF IInv, WriteWeak, Running, CollectionInv
<1>2. PICK o \in traced : FirstCallback(o, "weak")
  BY <1>1, FirstRuns
<1>3. Queued = Queued' \union {Head(drained)}
  BY <1>1, FirstRuns
<1>4. /\ o \in Objects /\ "weak" \in Members[o] /\ Tail(drained) \in Seq(Callbacks)
      /\ Head(drained) = [object |-> At(o), member |-> "weak"]
  BY <1>2 DEF FirstCallback
<1> PICK ref : ref = IF found = "yes" THEN At(Field(o, "weak")[1]) ELSE Null
  OBVIOUS
<1>5. mem' = Store(At(o), "weak", ref)
  BY <1>4 DEF WriteWeak, Field
<1>6. /\ \A q \in Objects : At(q) \in Address /\ At(q)[1] = q
      /\ \A q : At(q)' = At(q)
      /\ traced \subseteq live /\ live \subseteq Objects
  BY <1>1 DEF At, Address, TypeWeak
<1>7. IF found = "yes"
      THEN Field(o, "weak") # Null /\ Field(o, "weak")[1] \in traced
      ELSE Field(o, "weak") = Null \/ Field(o, "weak")[1] \notin Strong
  BY <1>1, <1>4 DEF IInv, FoundInv, Field
<1>8. /\ ref \in Ref /\ (ref # Null => found = "yes" /\ ref[1] = Field(o, "weak")[1])
      /\ (found = "yes" => ref # Null)
      /\ (ref # Null => ref[1] \in traced /\ ref = At(ref[1]))
  BY <1>6, <1>7, WeakRefsAssumption DEF Ref, Address
<1>9. /\ mem' \in [Address -> Row]
      /\ \A b \in Address : mem'[b] \in [Members[b[1]] -> Ref]
      /\ \A b \in Address : \A j \in Members[b[1]] :
           mem'[b][j] = IF b = At(o) /\ j = "weak" THEN ref ELSE mem[b][j]
  <2>1. At(o) \in Address /\ "weak" \in Members[At(o)[1]]
    BY <1>4, <1>6
  <2> QED
    BY <1>1, <1>5, <1>8, <2>1, Stores
<1>10. \A q \in Objects : \A j \in Members[q] :
         Field(q, j)' = IF q = o /\ j = "weak" THEN ref ELSE Field(q, j)
  <2> TAKE q \in Objects
  <2>1. At(q) = At(o) <=> q = o
    BY <1>4, <1>6
  <2> QED
    BY <1>6, <1>9, <2>1 DEF Field
<1>11. TypeWeak'
  BY <1>1, <1>4, <1>9 DEF TypeWeak
<1>12. Allocated'
  BY <1>1, <1>6, <1>8, <1>10 DEF IInv, Allocated
<1>13. Visited'
  <2> SUFFICES ASSUME NEW q \in traced, NEW j \in Members[q]
               PROVE  \/ ToVisit(q, j)' \/ ToRun(q, j)'
                      \/ Field(q, j)' = Null \/ UpToDate(Field(q, j))'
    BY <1>1 DEF Visited
  <2>1. CASE q = o /\ j = "weak"
    <3>1. Field(q, j)' = ref
      BY <1>4, <1>10, <2>1
    <3> QED
      BY <1>1, <1>6, <1>8, <3>1 DEF UpToDate
  <2>2. CASE ~(q = o /\ j = "weak")
    <3>1. Field(q, j)' = Field(q, j)
      BY <1>6, <1>10, <2>2
    <3>2. ToVisit(q, j) => ToVisit(q, j)'
      BY <1>1, <1>6 DEF ToVisit
    <3>3. ToRun(q, j) => ToRun(q, j)'
      <4>1. [object |-> At(q), member |-> j] # Head(drained)
        <5>1. q \in Objects
          BY <1>6
        <5>2. At(q) = At(o) => q = o
          BY <1>4, <1>6, <5>1
        <5> QED
          BY <1>4, <2>2, <5>2
      <4> QED
        BY <1>3, <1>6, <4>1 DEF ToRun
    <3>4. UpToDate(Field(q, j)) => UpToDate(Field(q, j))'
      BY <1>1, <1>6, <3>1 DEF UpToDate
    <3> QED
      BY <3>1, <3>2, <3>3, <3>4 DEF IInv, Visited
  <2> QED
    BY <2>1, <2>2
<1>14. WorkInv'
  BY <1>1, <1>3, <1>6 DEF IInv, WorkInv
<1>15. PhaseInv' /\ FoundInv' /\ MembersValid'
  <2>1. PhaseInv /\ phase' = "weak" /\ grey' = grey /\ channel' = channel /\ rescan' = rescan
    BY <1>1 DEF IInv
  <2> QED
    BY <1>1, <2>1 DEF PhaseInv, FoundInv, MembersValid
<1>16. Strong' = Strong /\ \A S \in SUBSET live :
         Closed(S, {"strong", "late"})' <=> Closed(S, {"strong", "late"})
  BY <1>1 DEF Strong, Reach, Closed
<1>17. BeforeInv'
  <2>1. ASSUME NEW q \in live, NEW j \in Members[q]
        PROVE  /\ before[q][j] = Null => Field(q, j)' = Null
               /\ Field(q, j)' # Null => Field(q, j)'[1] = before[q][j][1]
               /\ Field(q, j)' = Null /\ before[q][j] # Null =>
                    j = "weak" /\ before[q][j][1] \notin Strong
    <3>1. /\ before[q][j] = Null => Field(q, j) = Null
          /\ Field(q, j) # Null => Field(q, j)[1] = before[q][j][1]
          /\ Field(q, j) = Null /\ before[q][j] # Null =>
               j = "weak" /\ before[q][j][1] \notin Strong
          /\ q \in Objects
      BY <1>1, <1>6 DEF BeforeInv
    <3>2. CASE q = o /\ j = "weak"
      BY <1>7, <1>8, <1>10, <3>1, <3>2
    <3>3. CASE ~(q = o /\ j = "weak")
      <4>1. Field(q, j)' = Field(q, j)
        BY <1>10, <3>1, <3>3
      <4> QED
        BY <3>1, <4>1
    <3> QED
      BY <3>2, <3>3
  <2> QED
    BY <1>1, <1>16, <2>1 DEF BeforeInv
<1>18. TracedInv'
  BY <1>1, <1>16 DEF TracedInv
<1> QED
  BY <1>11, <1>12, <1>13, <1>14, <1>15, <1>17, <1>18 DEF IInv, CollectionInv

LEMMA LateSafe == ASSUME IInv, TraceLate PROVE IInv'
<1>1. /\ TypeWeak /\ Running("late") /\ phase = "weak" /\ drained' = Tail(drained)
      /\ UNCHANGED <<phase, live, channel, found, before>>
  BY DEF IInv, TraceLate, Running
<1>2. PICK o \in traced : FirstCallback(o, "late")
  BY <1>1, FirstRuns
<1>3. Queued = Queued' \union {Head(drained)}
  BY <1>1, FirstRuns
<1>4. /\ o \in Objects /\ "late" \in Members[o] /\ Tail(drained) \in Seq(Callbacks)
      /\ Head(drained) = [object |-> At(o), member |-> "late"]
  BY <1>2 DEF FirstCallback
<1>5. found = "unknown" /\ found' = "unknown"
  BY <1>1, <1>4 DEF IInv, FoundInv
<1>6. FoundInv' /\ MembersValid'
  BY <1>1, <1>5 DEF FoundInv, MembersValid
<1>7. \A q \in Objects : At(q) \in Address /\ At(q)[1] = q
  BY <1>1 DEF At, Address, TypeWeak
<1>8. \A q \in Objects : \A j : ~(q = o /\ j = "late") =>
        [object |-> At(q), member |-> j] # Head(drained)
  <2> SUFFICES ASSUME NEW q \in Objects, NEW j, ~(q = o /\ j = "late")
               PROVE  [object |-> At(q), member |-> j] # Head(drained)
    OBVIOUS
  <2>1. At(q) = At(o) => q = o
    BY <1>4, <1>7
  <2> QED
    BY <1>4, <2>1
<1>9. CASE Field(o, "late") = Null
  <2>1. UNCHANGED <<place, mem, traced, grey, rescan>>
    BY <1>4, <1>9 DEF TraceLate, Field
  <2>2. (\A q : At(q)' = At(q)) /\ (\A q, j : Field(q, j)' = Field(q, j))
    BY <2>1 DEF At, Field
  <2>3. TypeWeak'
    BY <1>1, <1>4, <2>1 DEF TypeWeak
  <2>4. Allocated'
    BY <1>1, <2>2 DEF IInv, Allocated
  <2>5. Visited'
    <3> SUFFICES ASSUME NEW q \in traced, NEW j \in Members[q]
                 PROVE  \/ ToVisit(q, j)' \/ ToRun(q, j)'
                        \/ Field(q, j)' = Null \/ UpToDate(Field(q, j))'
      BY <2>1 DEF Visited
    <3>1. q \in Objects
      BY <1>1 DEF TypeWeak
    <3>2. CASE q = o /\ j = "late"
      BY <1>9, <2>2, <3>2
    <3>3. CASE ~(q = o /\ j = "late")
      <4>1. ToVisit(q, j) => ToVisit(q, j)'
        BY <2>1, <2>2 DEF ToVisit
      <4>2. [object |-> At(q), member |-> j] # Head(drained)
        BY <1>8, <3>1, <3>3
      <4>3. ToRun(q, j) => ToRun(q, j)'
        BY <1>3, <2>2, <4>2 DEF ToRun
      <4>4. UpToDate(Field(q, j)) => UpToDate(Field(q, j))'
        BY <2>1, <2>2 DEF UpToDate
      <4> QED
        BY <2>2, <4>1, <4>3, <4>4 DEF IInv, Visited
    <3> QED
      BY <3>2, <3>3
  <2>6. WorkInv'
    BY <1>3, <2>1, <2>2 DEF IInv, WorkInv
  <2>7. PhaseInv'
    <3>1. PhaseInv /\ phase' = "weak" /\ grey' = grey /\ channel' = channel /\ rescan' = rescan
      BY <1>1, <2>1 DEF IInv
    <3> QED
      BY <1>1, <3>1 DEF PhaseInv
  <2>8. CollectionInv'
    <3>1. Strong' = Strong /\ \A S \in SUBSET live :
            Closed(S, {"strong", "late"})' <=> Closed(S, {"strong", "late"})
      BY <1>1 DEF Strong, Reach, Closed
    <3>2. BeforeInv => BeforeInv'
      BY <1>1, <2>2, <3>1 DEF BeforeInv
    <3>3. TracedInv => TracedInv'
      BY <1>1, <2>1, <3>1 DEF TracedInv
    <3> QED
      BY <1>1, <3>2, <3>3 DEF IInv, CollectionInv
  <2> QED
    BY <1>6, <2>3, <2>4, <2>5, <2>6, <2>7, <2>8 DEF IInv
<1>10. CASE Field(o, "late") # Null
  <2> PICK p : p = Field(o, "late")[1]
    OBVIOUS
  <2>1. TraceMember(At(o), "late") /\ grey' = grey \union Enqueued(p) /\ rescan' = TRUE
    BY <1>4, <1>10 DEF TraceLate, Field
  <2>2. /\ p \in live
        /\ mem' \in [Address -> Row]
        /\ \A b \in Address : mem'[b] \in [Members[b[1]] -> Ref]
        /\ place' \in [Objects -> {0, 1}]
        /\ traced' = traced \union {p} /\ traced' \subseteq live
        /\ \A q \in traced : At(q)' = At(q)
        /\ \A q \in Objects : At(q) \in Address /\ At(q)' \in Address
        /\ At(p)' = <<p, NewPlace(p)>>
        /\ \A q \in Objects : \A j \in Members[q] :
             Field(q, j)' = IF q = o /\ j = "late" THEN At(p)' ELSE Field(q, j)
    BY <1>1, <1>4, <1>10, <2>1, TracesMember
  <2>3. \A t \in grey' : t \in grey \/ t = [object |-> At(p)', left |-> Members[p]]
    BY <2>1, <2>2 DEF Enqueued
  <2>4. Members[p] \subseteq Kinds /\ At(p)'[1] = p /\ p \in Objects
    BY <1>1, <2>2, WeakRefsAssumption DEF Kinds, TypeWeak
  <2>5. TypeWeak'
    <3>1. [object |-> At(p)', left |-> Members[p]] \in [object : Address, left : SUBSET Kinds]
      BY <2>2, <2>4
    <3>2. grey' \subseteq [object : Address, left : SUBSET Kinds]
      BY <1>1, <2>3, <3>1 DEF TypeWeak
    <3> QED
      BY <1>1, <1>4, <2>1, <2>2, <3>2 DEF TypeWeak
  <2>6. \A q \in traced : \A j \in Members[q] :
          ToVisit(q, j) \/ ToRun(q, j) =>
            (q = o /\ j = "late") \/ ToVisit(q, j)' \/ ToRun(q, j)'
    <3> SUFFICES ASSUME NEW q \in traced, NEW j \in Members[q], ~(q = o /\ j = "late")
                 PROVE  ToVisit(q, j) \/ ToRun(q, j) => ToVisit(q, j)' \/ ToRun(q, j)'
      OBVIOUS
    <3>1. At(q)' = At(q) /\ q \in Objects
      BY <1>1, <2>2 DEF TypeWeak
    <3>2. ToVisit(q, j) => ToVisit(q, j)'
      BY <2>1, <3>1 DEF ToVisit
    <3>3. [object |-> At(q), member |-> j] # Head(drained)
      BY <1>8, <3>1
    <3>4. ToRun(q, j) => ToRun(q, j)'
      BY <1>3, <3>1, <3>3 DEF ToRun
    <3> QED
      BY <3>2, <3>4
  <2>7. p \notin traced => \A j \in Members[p] : ToVisit(p, j)'
    <3>1. p \notin traced => [object |-> At(p)', left |-> Members[p]] \in grey' \/ Members[p] = {}
      BY <2>1, <2>2 DEF Enqueued
    <3> QED
      BY <3>1 DEF ToVisit
  <2>8. Allocated' /\ Visited' /\ CollectionInv'
    <3>1. "late" \in Members[o] \cap {"strong", "late"}
      BY <1>4
    <3>2. MemberStep(o, "late", p)
      BY <1>1, <1>10, <2>2, <2>6, <2>7, <3>1 DEF MemberStep
    <3> QED
      BY <3>2, MemberTraced
  <2>9. WorkInv'
    <3>1. \A t \in grey : /\ t.object[1] \in traced' /\ t.object = At(t.object[1])'
                          /\ t.left \subseteq Members[t.object[1]]
      BY <2>2 DEF IInv, WorkInv
    <3>2. \A c \in Queued' : /\ c.object[1] \in traced' /\ c.object = At(c.object[1])'
                             /\ c.member \in Members[c.object[1]]
      BY <1>3, <2>2 DEF IInv, WorkInv
    <3> QED
      BY <2>2, <2>3, <2>4, <3>1, <3>2 DEF WorkInv
  <2>10. PhaseInv'
    BY <1>1, <2>1 DEF PhaseInv
  <2> QED
    BY <1>6, <2>5, <2>8, <2>9, <2>10 DEF IInv
<1> QED
  BY <1>9, <1>10

LEMMA ReleaseSafe == ASSUME IInv, Release PROVE IInv'
<1>1. /\ TypeWeak /\ phase = "release" /\ grey = {} /\ channel = <<>> /\ drained = <<>>
      /\ found = "unknown" /\ Root \in traced
  BY DEF IInv, Release, PhaseInv, FoundInv, CollectionInv, TracedInv
<1>2. /\ phase' = "mutator" /\ live' = traced /\ traced' = {} /\ grey' = {}
      /\ channel' = <<>> /\ drained' = <<>> /\ found' = "unknown" /\ rescan' = FALSE
  BY <1>1 DEF Release
<1>3. traced \subseteq live /\ live \subseteq Objects
  BY <1>1 DEF TypeWeak
<1>4. /\ place' = [o \in Objects |-> IF o \in traced THEN place[o] ELSE 0]
      /\ mem' = [a \in Address |->
                   IF a[1] \in traced /\ a = At(a[1]) THEN mem[a] ELSE Empty(a[1])]
  BY DEF Release, Address
<1>5. place' \in [Objects -> {0, 1}] /\ \A o \in traced : At(o)' = At(o)
  BY <1>1, <1>3, <1>4 DEF TypeWeak, At
<1>6. \A o \in Objects : At(o) \in Address /\ At(o)[1] = o
  BY <1>1 DEF TypeWeak, At, Address
<1>7. \A a \in Address : a[1] \in Objects /\ Empty(a[1]) \in [Members[a[1]] -> Ref]
  BY DEF Address, Empty, Ref
<1>8. TypeWeak'
  <2>1. \A a \in Address : mem'[a] \in [Members[a[1]] -> Ref]
    BY <1>1, <1>4, <1>7 DEF TypeWeak
  <2>2. \A a \in Address : mem'[a] \in Row
    BY <1>7, <2>1 DEF Row
  <2>3. mem' \in [Address -> Row]
    BY <1>4, <2>2
  <2>4. channel' \in Seq(Callbacks) /\ drained' \in Seq(Callbacks)
    BY <1>2
  <2> QED
    BY <1>1, <1>2, <1>3, <1>5, <2>1, <2>3, <2>4 DEF TypeWeak
<1>9. \A o \in traced : \A k \in Members[o] : Field(o, k)' = Field(o, k)
  BY <1>3, <1>4, <1>5, <1>6 DEF Field
<1>10. Queued = {} /\ Queued' = {}
  BY <1>1, <1>2 DEF Queued, Elements
<1>11. \A o \in traced : \A k \in Members[o] : Field(o, k) = Null \/ UpToDate(Field(o, k))
  BY <1>1, <1>10 DEF IInv, Visited, ToVisit, ToRun
<1>12. Allocated'
  BY <1>2, <1>9, <1>11 DEF Allocated, UpToDate
<1>13. MembersValid'
  <2>1. \A o \in traced : \A k \in Members[o] : (Valid(Field(o, k)))'
    <3> SUFFICES ASSUME NEW o \in traced, NEW k \in Members[o] PROVE (Valid(Field(o, k)))'
      OBVIOUS
    <3>1. Field(o, k)' = Field(o, k) /\ (Field(o, k) = Null \/ UpToDate(Field(o, k)))
      BY <1>9, <1>11
    <3> QED
      BY <1>2, <1>5, <3>1 DEF Valid, UpToDate
  <2>2. \A a \in Address : (a[1] \in traced /\ a = At(a[1])') \/ mem'[a] = Empty(a[1])
    BY <1>4, <1>5
  <2> QED
    BY <1>2, <2>1, <2>2 DEF MembersValid, Valid, Field, Address
<1> QED
  BY <1>2, <1>8, <1>10, <1>12, <1>13
  DEF IInv, Visited, WorkInv, PhaseInv, FoundInv, CollectionInv

-------------------------------------------------------------------------------

LEMMA StepSafe == IInv /\ [Next]_vars => IInv'
<1> SUFFICES ASSUME IInv, [Next]_vars PROVE IInv'
  OBVIOUS
<1>1. CASE UNCHANGED vars
  <2>1. /\ UNCHANGED <<phase, place, mem, live, traced, grey, channel, drained, found, rescan,
                       before>>
        /\ TypeWeak /\ Allocated /\ Visited /\ WorkInv /\ PhaseInv /\ FoundInv
        /\ CollectionInv /\ MembersValid
    BY <1>1 DEF vars, collector, IInv
  <2>2. (\A q : At(q)' = At(q)) /\ (\A q, j : Field(q, j)' = Field(q, j)) /\ Queued' = Queued
    BY <2>1 DEF At, Field, Queued
  <2>3. TypeWeak' /\ PhaseInv'
    BY <2>1 DEF TypeWeak, PhaseInv
  <2>4. Allocated' /\ WorkInv'
    BY <2>1, <2>2 DEF Allocated, WorkInv
  <2>5. MembersValid'
    BY <2>1 DEF MembersValid, At
  <2>6. \A q, j : (ToVisit(q, j)' <=> ToVisit(q, j)) /\ (ToRun(q, j)' <=> ToRun(q, j))
    BY <2>1, <2>2 DEF ToVisit, ToRun
  <2>8. Visited'
    <3> SUFFICES ASSUME NEW q \in traced, NEW j \in Members[q]
                 PROVE  \/ ToVisit(q, j)' \/ ToRun(q, j)'
                        \/ Field(q, j)' = Null \/ UpToDate(Field(q, j))'
      BY <2>1 DEF Visited
    <3>1. UpToDate(Field(q, j)) => UpToDate(Field(q, j))'
      BY <2>1, <2>2 DEF UpToDate
    <3> QED
      BY <2>1, <2>2, <2>6, <3>1 DEF Visited
  <2>9. Strong' = Strong /\ \A S \in SUBSET live :
          Closed(S, {"strong", "late"})' <=> Closed(S, {"strong", "late"})
    BY <2>1 DEF Strong, Reach, Closed
  <2>10. FoundInv'
    BY <2>1, <2>9 DEF FoundInv
  <2>11. (BeforeInv => BeforeInv') /\ (TracedInv => TracedInv')
    BY <2>1, <2>2, <2>9 DEF BeforeInv, TracedInv
  <2> QED
    BY <2>1, <2>3, <2>4, <2>5, <2>8, <2>10, <2>11 DEF IInv, CollectionInv
<1>2. ASSUME NEW o \in Objects, NEW k \in Members[o],
             \/ \E ref \in {Null} \union {At(p) : p \in live} : Write(o, k, ref)
             \/ \E p \in Objects : New(p, o, k)
      PROVE  IInv'
  BY <1>2, WriteSafe, NewSafe
<1>3. ASSUME Collect PROVE IInv'
  BY <1>3, ScanSafe, ProcessSafe, TestSafe, WriteWeakSafe, LateSafe, DoneSafe, ReleaseSafe
  DEF Collect, CallbackStep
<1> QED
  BY <1>1, <1>2, <1>3, StartSafe DEF Next

LEMMA Safe == Spec => []IInv
<1>1. IInv /\ [Next]_vars => IInv'
  BY StepSafe
<1> QED
  BY InitSafe, <1>1, PTL DEF Spec

(* scanning.rs:200-222 and reference.rs:85-110: whatever the order of      *)
(* scanning and callbacks, a program never comes upon the address of an    *)
(* object that is gone or has moved, and free memory has not been written. *)
THEOREM Valids == Spec => []MembersValid
<1>1. IInv => MembersValid
  BY DEF IInv
<1> QED
  BY <1>1, Safe, PTL

(* scanning.rs:145-169: no callback outlives the collection that queued it. *)
THEOREM InTime == Spec => []CallbacksRunInTime
<1>1. IInv => CallbacksRunInTime
  BY DEF IInv, PhaseInv, CallbacksRunInTime
<1> QED
  BY <1>1, Safe, PTL

(* At the end of a collection nothing waits, so every member of what is    *)
(* kept is null or leads to what is kept.                                  *)
LEMMA AllVisited ==
  ASSUME IInv, Complete
  PROVE  /\ TypeWeak /\ BeforeInv /\ TracedInv /\ Strong \subseteq traced
         /\ traced \subseteq live
         /\ \A o \in traced : \A k \in Members[o] :
              Field(o, k) = Null \/ UpToDate(Field(o, k))
<1>1. /\ TypeWeak /\ BeforeInv /\ TracedInv /\ Strong \subseteq traced
      /\ grey = {} /\ channel = <<>> /\ drained = <<>>
  BY DEF IInv, Complete, PhaseInv, CollectionInv, TracedInv
<1>2. Queued = {}
  BY <1>1 DEF Queued, Elements
<1> QED
  BY <1>1, <1>2 DEF IInv, Visited, ToVisit, ToRun, TypeWeak

(* reference.rs:104-108: a collection keeps what strong members and the    *)
(* runtime's callbacks lead to, and a weak member adds nothing.            *)
THEOREM KeepsNothing == Spec => []WeakKeepsNothing
<1>1. ASSUME IInv, Complete PROVE traced = Reach(before, {"strong", "late"})
  <2>1. /\ BeforeInv /\ TracedInv /\ traced \subseteq live /\ DOMAIN before = live
        /\ \A o \in traced : \A k \in Members[o] :
             Field(o, k) = Null \/ UpToDate(Field(o, k))
    BY <1>1, AllVisited DEF BeforeInv
  <2>2. Closed(traced, {"strong", "late"})
    <3> SUFFICES ASSUME NEW p \in traced, NEW k \in Members[p] \cap {"strong", "late"},
                        before[p][k] # Null
                 PROVE  before[p][k][1] \in traced
      BY <2>1 DEF Closed, TracedInv
    <3>1. p \in live /\ k # "weak"
      BY <2>1
    <3>2. Field(p, k) # Null /\ Field(p, k)[1] = before[p][k][1]
      BY <2>1, <3>1 DEF BeforeInv
    <3> QED
      BY <2>1, <3>2 DEF UpToDate
  <2>3. Reach(before, {"strong", "late"}) \subseteq traced
    BY <2>1, <2>2, ClosedReach
  <2>4. \A S \in SUBSET live : Closed(S, {"strong", "late"}) => traced \subseteq S
    BY <2>1 DEF TracedInv
  <2>5. traced \subseteq Reach(before, {"strong", "late"})
    BY <2>1, <2>4 DEF Reach, Closed
  <2> QED
    BY <2>3, <2>5
<1>2. IInv => WeakKeepsNothing
  BY <1>1 DEF WeakKeepsNothing
<1> QED
  BY <1>2, Safe, PTL

(* reference.rs:108-110: a weak member is cleared when its referent dies,  *)
(* and one that strong members lead to is still referred to, where it is.  *)
THEOREM ClearedIfDead == Spec => []WeakClearedIfDead
<1>1. ASSUME IInv, Complete, NEW o \in traced, "weak" \in Members[o],
             before[o]["weak"] # Null
      PROVE  LET p == before[o]["weak"][1]
                 now == mem[At(o)]["weak"]
             IN /\ p \in Reach(before, {"strong"}) => now = At(p)
                /\ p \notin traced => now = Null
  <2> PICK p : p = before[o]["weak"][1]
    OBVIOUS
  <2>1. /\ BeforeInv /\ o \in live
        /\ Field(o, "weak") = Null \/ UpToDate(Field(o, "weak"))
    BY <1>1, AllVisited
  <2>2. /\ Field(o, "weak") # Null => Field(o, "weak")[1] = p
        /\ Field(o, "weak") = Null => p \notin Strong
    BY <1>1, <2>1 DEF BeforeInv
  <2> QED
    BY <2>1, <2>2 DEF UpToDate, Field, Strong
<1>2. IInv => WeakClearedIfDead
  BY <1>1 DEF WeakClearedIfDead
<1> QED
  BY <1>2, Safe, PTL
===============================================================================
