------------------------------- MODULE WeakRefs -------------------------------
(***************************************************************************)
(* Weak members and weak callbacks (mm/scanning.rs, objectmodel/           *)
(* reference.rs) over any number of collections: scanning an object traces *)
(* its strong members and queues a callback for each weak one, which runs  *)
(* when everything strongly reachable has been traced and forwards or      *)
(* clears the member.  Runtimes may queue callbacks of their own, which    *)
(* trace objects and so start another round.                               *)
(*                                                                         *)
(* MMTk itself is outside the repository: it moves an object when it is    *)
(* traced first, has workers scan the traced objects in any order, calls   *)
(* process_weak_refs when there is nothing left to scan, again and again   *)
(* while it returns true, and then frees what was not traced.  An object   *)
(* is at one of two addresses; the other is where it is copied to.         *)
(***************************************************************************)
EXTENDS Naturals, Sequences

CONSTANTS
  Objects,
  Root,           (* the object the runtime's scan_roots reports            *)
  Pinned,         (* objects MMTk does not move                             *)
  Members,        (* the members of an object: "strong", "weak", or "late", *)
                  (* traced by a callback of the runtime                    *)
  Null

ASSUME WeakRefsAssumption ==
  /\ Root \in Objects
  /\ Members \in [Objects -> SUBSET {"strong", "weak", "late"}]
  /\ Null \notin Objects \X {0, 1}

VARIABLES
  phase,          (* "mutator", "closure", "weak" or "release"              *)
  place,          (* which of its two addresses an object is at             *)
  mem,            (* the members at each address                            *)
  live,           (* the allocated objects                                  *)
  traced,         (* the objects this collection has found                  *)
  grey,           (* addresses of traced objects still to be scanned        *)
  channel,        (* VMScanning's channel of weak callbacks                 *)
  drained,        (* callbacks process_weak_refs has taken from it          *)
  found,          (* whether the referent of the first is reachable         *)
  rescan,         (* process_weak_refs's local                              *)
  before          (* the members of the objects when the collection started *)

collector == <<traced, grey, channel, drained, found, rescan, before>>
vars == <<phase, place, mem, live, collector>>

At(o) == <<o, place[o]>>
Empty(o) == [k \in Members[o] |-> Null]
Graph == [o \in live |-> mem[At(o)]]

Init ==
  /\ phase = "mutator"
  /\ place = [o \in Objects |-> 0]
  /\ mem = [a \in Objects \X {0, 1} |-> Empty(a[1])]
  /\ live = {Root}
  /\ traced = {} /\ grey = {}
  /\ channel = <<>> /\ drained = <<>>
  /\ found = "unknown" /\ rescan = FALSE
  /\ before = <<>>

-------------------------------------------------------------------------------
(* The program between collections *)

(* The objects that members of the given kinds lead to in a graph. *)
Reach(graph, kinds) ==
  {o \in DOMAIN graph : \A S \in SUBSET DOMAIN graph :
     (/\ Root \in S
      /\ \A p \in S : \A k \in Members[p] \cap kinds :
           graph[p][k] # Null => graph[p][k][1] \in S)
     => o \in S}

Store(a, k, ref) == [mem EXCEPT ![a] = [@ EXCEPT ![k] = ref]]

(* A program has the objects it reaches, through weak members too. *)
Write(o, k, ref) ==
  /\ phase = "mutator"
  /\ LET usable == Reach(Graph, {"strong", "weak", "late"})
     IN /\ o \in usable
        /\ ref \in {Null} \union {At(p) : p \in usable}
  /\ mem' = Store(At(o), k, ref)
  /\ UNCHANGED <<phase, place, live, collector>>

New(p, o, k) ==
  /\ phase = "mutator"
  /\ p \notin live
  /\ o \in Reach(Graph, {"strong", "weak", "late"})
  /\ live' = live \union {p}
  /\ mem' = [Store(At(o), k, At(p)) EXCEPT ![At(p)] = Empty(p)]
  /\ UNCHANGED <<phase, place, collector>>

-------------------------------------------------------------------------------
(* A collection *)

NewPlace(o) == IF o \in traced \union Pinned THEN place[o] ELSE 1 - place[o]
Forwarded(ref) == <<ref[1], NewPlace(ref[1])>>

(* trace_object: found first, the object is copied and queued for scanning. *)
Copied(o) == [mem EXCEPT ![<<o, NewPlace(o)>>] = mem[At(o)]]
Trace(o) ==
  /\ traced' = traced \union {o}
  /\ place' = [place EXCEPT ![o] = NewPlace(o)]
Enqueued(o) ==
  IF o \in traced \/ Members[o] = {} THEN {}
  ELSE {[object |-> <<o, NewPlace(o)>>, left |-> Members[o]]}

StartCollection ==
  /\ phase = "mutator"
  /\ phase' = "closure"
  /\ before' = Graph
  /\ Trace(Root)
  /\ mem' = Copied(Root)
  /\ grey' = Enqueued(Root)
  /\ UNCHANGED <<live, channel, drained, found, rescan>>

(* A worker goes on with the members of an object. *)
Rest(s, k) ==
  IF s.left = {k} THEN grey \ {s}
  ELSE (grey \ {s}) \union {[s EXCEPT !.left = @ \ {k}]}

VisitNull(s, k) ==
  /\ mem[s.object][k] = Null
  /\ grey' = Rest(s, k)
  /\ UNCHANGED <<place, mem, traced, channel>>

(* The slot is stored to what tracing its referent returns.                *)
TraceMember(a, k) ==
  LET ref == mem[a][k]
  IN /\ Trace(ref[1])
     /\ mem' = [Copied(ref[1]) EXCEPT ![a] = [@ EXCEPT ![k] = Forwarded(ref)]]

VisitStrong(s, k) ==
  /\ mem[s.object][k] # Null
  /\ TraceMember(s.object, k)
  /\ grey' = Rest(s, k) \union Enqueued(mem[s.object][k][1])
  /\ UNCHANGED channel

(* register_weak_callback, by visit_member or by the runtime itself. *)
Register(s, k) ==
  /\ channel' = Append(channel, [object |-> s.object, member |-> k])
  /\ grey' = Rest(s, k)
  /\ UNCHANGED <<place, mem, traced>>

(* Slip: the tag is not looked at. *)
VisitUntagged(s, k) ==
  IF k = "late" THEN Register(s, k) ELSE VisitStrong(s, k) \/ VisitNull(s, k)

VisitMember(s, k) ==
  \/ k = "strong" /\ (VisitStrong(s, k) \/ VisitNull(s, k))
  \/ k # "strong" /\ Register(s, k)

ScanObject(s, k) ==
  /\ s \in grey /\ k \in s.left
  /\ VisitMember(s, k)
  /\ UNCHANGED <<phase, live, drained, found, rescan, before>>

(* Slip: what one round has found is still there in the next. *)
ProcessRemembering ==
  /\ phase = "closure" /\ grey = {}
  /\ phase' = "weak"
  /\ drained' = channel /\ channel' = <<>>
  /\ UNCHANGED <<place, mem, live, traced, grey, found, rescan, before>>

ProcessWeakRefs ==
  /\ phase = "closure" /\ grey = {}
  /\ phase' = "weak"
  /\ drained' = channel /\ channel' = <<>>
  /\ rescan' = FALSE
  /\ UNCHANGED <<place, mem, live, traced, grey, found, before>>

Running(k) ==
  /\ phase = "weak" /\ drained # <<>>
  /\ Head(drained).member = k

(* is_reachable, and what follows from it: workers go on in between. *)
TestWeak ==
  /\ Running("weak") /\ found = "unknown"
  /\ LET ref == mem[Head(drained).object]["weak"]
     IN found' = IF ref # Null /\ ref[1] \in traced THEN "yes" ELSE "no"
  /\ UNCHANGED <<phase, place, mem, live, traced, grey, channel, drained, rescan, before>>

(* Slip: only get_forwarded_object decides, and a pinned object has none. *)
WriteForwarded ==
  /\ Running("weak") /\ found # "unknown"
  /\ LET a == Head(drained).object
         ref == mem[a]["weak"]
     IN mem' = Store(a, "weak", IF found = "yes" /\ ref # At(ref[1])
                                THEN At(ref[1]) ELSE Null)
  /\ found' = "unknown" /\ drained' = Tail(drained)
  /\ UNCHANGED <<phase, place, live, traced, grey, channel, rescan, before>>

(* Slip: a reachable referent is left as it is. *)
WriteUnforwarded ==
  /\ Running("weak") /\ found # "unknown"
  /\ LET a == Head(drained).object
     IN mem' = IF found = "yes" THEN mem ELSE Store(a, "weak", Null)
  /\ found' = "unknown" /\ drained' = Tail(drained)
  /\ UNCHANGED <<phase, place, live, traced, grey, channel, rescan, before>>

WriteWeak ==
  /\ Running("weak") /\ found # "unknown"
  /\ LET a == Head(drained).object
     IN mem' = Store(a, "weak", IF found = "yes" THEN At(mem[a]["weak"][1]) ELSE Null)
  /\ found' = "unknown" /\ drained' = Tail(drained)
  /\ UNCHANGED <<phase, place, live, traced, grey, channel, rescan, before>>

(* Slip: nothing remembers that a callback traced. *)
TraceLateOnly ==
  /\ Running("late")
  /\ LET a == Head(drained).object
         ref == mem[a]["late"]
     IN IF ref = Null THEN UNCHANGED <<place, mem, traced, grey>>
        ELSE /\ TraceMember(a, "late")
             /\ grey' = grey \union Enqueued(ref[1])
  /\ drained' = Tail(drained)
  /\ UNCHANGED <<phase, live, channel, found, rescan, before>>

(* The runtime's callback traces its member; the tracer it is given        *)
(* remembers that.                                                         *)
TraceLate ==
  /\ Running("late")
  /\ LET a == Head(drained).object
         ref == mem[a]["late"]
     IN IF ref = Null THEN UNCHANGED <<place, mem, traced, grey, rescan>>
        ELSE /\ TraceMember(a, "late")
             /\ grey' = grey \union Enqueued(ref[1])
             /\ rescan' = TRUE
  /\ drained' = Tail(drained)
  /\ UNCHANGED <<phase, live, channel, found, before>>

(* MMTk comes back when what the callbacks traced has been scanned.        *)
WeakRefsDone ==
  /\ phase = "weak" /\ drained = <<>>
  /\ phase' = IF rescan THEN "closure" ELSE "release"
  /\ UNCHANGED <<place, mem, live, traced, grey, channel, drained, found, rescan, before>>

Release ==
  /\ phase = "release" /\ grey = {}
  /\ phase' = "mutator"
  /\ live' = traced
  /\ place' = [o \in Objects |-> IF o \in traced THEN place[o] ELSE 0]
  /\ mem' = [a \in Objects \X {0, 1} |->
               IF a[1] \in traced /\ a = At(a[1]) THEN mem[a] ELSE Empty(a[1])]
  /\ traced' = {} /\ rescan' = FALSE /\ before' = <<>>
  /\ UNCHANGED <<grey, channel, drained, found>>

-------------------------------------------------------------------------------

CallbackStep == TestWeak \/ WriteWeak \/ TraceLate

Collect ==
  \/ \E s \in grey : \E k \in s.left : ScanObject(s, k)
  \/ ProcessWeakRefs
  \/ CallbackStep
  \/ WeakRefsDone
  \/ Release

Next ==
  \/ \E o \in Objects : \E k \in Members[o] :
       \/ \E ref \in {Null} \union {At(p) : p \in live} : Write(o, k, ref)
       \/ \E p \in Objects : New(p, o, k)
  \/ StartCollection
  \/ Collect

(* A collection that has started is carried on by its workers. *)
FairSpec == Init /\ [][Next]_vars /\ WF_vars(Collect)
Spec == Init /\ [][Next]_vars

-------------------------------------------------------------------------------
(* Properties *)

(* reference.rs:85-110 and scanning.rs:200-222: between collections no      *)
(* member of any object, weak ones included, holds the address of an       *)
(* object that is gone or has moved away, and nothing has been written to  *)
(* memory that is free.                                                    *)
MembersValid ==
  phase = "mutator" =>
    /\ \A o \in live : \A k \in Members[o] :
         LET ref == mem[At(o)][k] IN ref # Null => ref[1] \in live /\ ref = At(ref[1])
    /\ \A a \in Objects \X {0, 1} :
         (a[1] \in live /\ a = At(a[1])) \/ mem[a] = Empty(a[1])

Complete == phase = "release" /\ grey = {}

(* reference.rs:104-108: a WeakMember "does not keep the pointee alive";    *)
(* what a collection keeps is what strong members and the runtime's        *)
(* callbacks lead to, over any number of rounds.                           *)
WeakKeepsNothing == Complete => traced = Reach(before, {"strong", "late"})

(* reference.rs:108-110 and scanning.rs:211-219: a weak member is cleared   *)
(* when its referent dies; one that strong members lead to is still        *)
(* referred to, where it now is, whatever the order in which workers       *)
(* scanned and callbacks ran.  One that only a callback keeps alive may be *)
(* either: the member's own callback may have come first.                  *)
WeakClearedIfDead ==
  Complete => \A o \in traced :
    ("weak" \in Members[o] /\ before[o]["weak"] # Null) =>
      LET p == before[o]["weak"][1]
          now == mem[At(o)]["weak"]
      IN /\ p \in Reach(before, {"strong"}) => now = At(p)
         /\ p \notin traced => now = Null

(* scanning.rs:145-169: a callback runs in the collection that queued it:   *)
(* none is left for the next one, which would run it with the address its  *)
(* object had.                                                             *)
CallbacksRunInTime == phase \in {"mutator", "release"} => channel = <<>> /\ drained = <<>>

(* scanning.rs:145-169: rounds of callbacks and scanning come to an end.    *)
CollectionEnds == phase # "mutator" ~> phase = "mutator"
===============================================================================
