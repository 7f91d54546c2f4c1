---------------------------- MODULE Arm64LinkProofs ----------------------------
(***************************************************************************)
(* Linking on arm64, for any code, jumps, memory and reach of the          *)
(* branches.                                                               *)
(***************************************************************************)
EXTENDS Arm64Link, SequenceTheorems, TLAPS

Kinds == {"cond", "compare", "test"}
Types == {"NoConditionFixedSize", "ConditionFixedSize",
          "CompareAndBranchFixedSize", "TestBitFixedSize"}
LinkTypes == {"NoCondition", "Condition", "CompareAndBranch", "TestBit"}
JumpType ==
  [label : Int, typ : Types, kind : Kinds \union {"none"}, sense : BOOLEAN]
RecordType ==
  [from : Int, to : Int, typ : Types, link_type : LinkTypes \union {"Invalid"},
   kind : Kinds \union {"none"}, subject : Int, sense : BOOLEAN]
Insns ==
  {<<"other", n>> : n \in Int} \union {<<"b", x>> : x \in Int}
    \union {<<"offset", x>> : x \in Int}
    \union {<<"nop">>, <<"brk">>, <<"unwritten">>, <<"panic">>}
    \union {<<"branch", kind, k, sense, x>> :
              kind \in Kinds, k \in Int, sense \in BOOLEAN, x \in Int}
Phases == {"assembling", "copying", "linking", "linked", "failed"}

TypeInv ==
  /\ storage \in Seq(Insns) /\ code \in Seq(Insns)
  /\ jumps \in Seq(JumpType) /\ records \in Seq(RecordType)
  /\ goal \in Seq(Int) /\ Len(goal) = Len(jumps)
  /\ phase \in Phases
  /\ read \in Int /\ write \in Int /\ at \in Int /\ emitted \in Int

(* How far the code goes that was assembled, without the padding. *)
Emitted == IF phase \in {"assembling", "failed"} THEN Len(storage) ELSE emitted

(* No two jumps share an instruction. *)
JumpsApart ==
  /\ \A k \in DOMAIN jumps :
       /\ 1 <= First(jumps[k]) /\ jumps[k].label <= Emitted
       /\ ~Always(jumps[k]) => jumps[k].kind \in Kinds
  /\ \A k, l \in DOMAIN jumps : k < l => jumps[k].label < First(jumps[l])

(* What is assembled for a jump, and in every other place. *)
Unlinked(k) ==
  IF Always(jumps[k]) THEN <<"b", 0>>
  ELSE <<"branch", jumps[k].kind, k, jumps[k].sense, 0>>
Plain(c, n) ==
  c[n] = <<"other", n>> \/ (n > Emitted /\ c[n] \in {<<"brk">>, <<"nop">>})
AsAssembled(c, n) ==
  /\ \A k \in DOMAIN jumps :
       /\ n = First(jumps[k]) => c[n] = Unlinked(k)
       /\ n = jumps[k].label /\ ~Always(jumps[k]) => c[n] = <<"nop">>
  /\ n \notin Inside => Plain(c, n)

(* Until all is linked, a jump has a record exactly when it has a goal.    *)
RecordsInv ==
  /\ \A a \in DOMAIN records :
       /\ records[a].subject \in DOMAIN jumps
       /\ records[a].from = jumps[records[a].subject].label
       /\ records[a].typ = jumps[records[a].subject].typ
       /\ records[a].kind = jumps[records[a].subject].kind
       /\ records[a].sense = jumps[records[a].subject].sense
       /\ records[a].to = goal[records[a].subject]
       /\ 1 <= records[a].to /\ records[a].to <= Emitted + 1
  /\ \A a, b \in DOMAIN records : records[a].subject = records[b].subject => a = b
  /\ \A k \in DOMAIN jumps :
       goal[k] # Nowhere => \E a \in DOMAIN records : records[a].subject = k

Typed(a) == records[a].link_type = LinkTypeOf[records[a].typ]

AssemblingInv ==
  /\ read = 1 /\ write = 1 /\ at = 1
  /\ \A n \in DOMAIN storage : AsAssembled(storage, n)

(* What lies before read has been copied and given its offset; the rest is *)
(* still in the buffer, as it was assembled.                               *)
CopyingInv ==
  /\ Len(code) = Len(storage) /\ emitted <= Len(code)
  /\ read = write /\ 1 <= read /\ read <= emitted + 1
  /\ 1 <= at /\ at <= Len(records) + 1
  /\ \A a, b \in DOMAIN records : a < b => records[a].from <= records[b].from
  /\ \A a \in DOMAIN records : IF a < at THEN Typed(a) ELSE read <= records[a].from
  /\ \A n \in DOMAIN storage :
       IF n < read THEN AsAssembled(code, n) /\ storage[n] = <<"offset", 0>>
       ELSE AsAssembled(storage, n)

LinkingInv ==
  /\ Len(code) = Len(storage)
  /\ 1 <= at /\ at <= Len(records) + 1
  /\ \A a \in DOMAIN records : Typed(a)
  /\ \A n \in DOMAIN storage : storage[n] = <<"offset", 0>>

(* Only a conditional jump has a branch, and only as its first             *)
(* instruction: relink_jump can trust what it finds before a label.        *)
KeptInv ==
  /\ emitted <= Len(code)
  /\ \A n \in DOMAIN code : n \notin Inside => Plain(code, n)
  /\ \A n \in DOMAIN code :
       IsBranch(code[n]) => \E k \in DOMAIN jumps : n = First(jumps[k]) /\ ~Always(jumps[k])

LInv ==
  /\ TypeInv
  /\ JumpsApart
  /\ phase \in {"assembling", "copying", "linking"} => RecordsInv
  /\ phase = "assembling" => AssemblingInv
  /\ phase = "copying" => CopyingInv
  /\ phase = "linking" => LinkingInv
  /\ phase \in {"linking", "linked"} => KeptInv

-------------------------------------------------------------------------------
(* Instructions, and the functions that rewrite them. *)

LEMMA InsnTypes ==
  ASSUME NEW n \in Int
  PROVE  <<"other", n>> \in Insns /\ <<"b", n>> \in Insns /\ <<"offset", n>> \in Insns
BY DEF Insns

LEMMA PlainInsns ==
  /\ <<"nop">> \in Insns /\ <<"brk">> \in Insns
  /\ <<"unwritten">> \in Insns /\ <<"panic">> \in Insns
BY DEF Insns

LEMMA BranchInsn ==
  ASSUME NEW kind \in Kinds, NEW k \in Int, NEW sense \in BOOLEAN, NEW n \in Int
  PROVE  <<"branch", kind, k, sense, n>> \in Insns
BY DEF Insns

Opposite(sense) == ~sense

LEMMA InverseType ==
  ASSUME NEW sense \in BOOLEAN
  PROVE  Opposite(sense) \in BOOLEAN
<1>1. sense = TRUE \/ sense = FALSE
  OBVIOUS
<1>2. Opposite(sense) = TRUE \/ Opposite(sense) = FALSE
  BY <1>1 DEF Opposite
<1> QED
  BY <1>2

LEMMA BranchType ==
  ASSUME NEW i \in Insns, IsBranch(i)
  PROVE  i[2] \in Kinds /\ i[3] \in Int /\ i[4] \in BOOLEAN /\ i[5] \in Int
BY DEF Insns, IsBranch

LEMMA FieldInt ==
  ASSUME NEW x \in Int
  PROVE  Field(x, Reach26) \in Int
BY LinkAssumption DEF LinkAssumption, Field

LEMMA FieldFits ==
  ASSUME NEW x \in Int, NEW r \in Nat \ {0}, IsInt(r, x)
  PROVE  Field(x, r) = x
<1>1. 0 <= x + r /\ x + r < 2 * r
  BY DEF IsInt
<1>2. (x + r) % (2 * r) = x + r
  BY <1>1
<1> QED
  BY <1>2 DEF Field

(* A jump is linked in its one place. *)
LEMMA JumpTouches ==
  ASSUME NEW c \in Seq(Insns), NEW from \in 1..Len(c), NEW to \in Int,
         NEW d, d = link_jump_or_call(c, from, to)
  PROVE  /\ d \in Seq(Insns) /\ Len(d) = Len(c)
         /\ \A n \in 1..Len(c) : n # from => d[n] = c[n]
         /\ ~IsBranch(d[from])
         /\ c[from][1] \in {"b", "nop"} => d[from] = <<"b", Field(to - from, Reach26)>>
<1>1. PICK i : i = IF c[from][1] \in {"b", "nop"} THEN <<"b", Field(to - from, Reach26)>>
                   ELSE <<"panic">>
  OBVIOUS
<1>2. i \in Insns /\ ~IsBranch(i)
  <2>1. Field(to - from, Reach26) \in Int
    BY FieldInt
  <2>2. <<"b", Field(to - from, Reach26)>> \in Insns /\ <<"panic">> \in Insns
    BY <2>1, InsnTypes, PlainInsns
  <2> QED
    BY <1>1, <2>2 DEF IsBranch
<1>3. d = [c EXCEPT ![from] = i]
  BY <1>1 DEF link_jump_or_call
<1> QED
  BY <1>1, <1>2, <1>3, ExceptSeq

(* A conditional branch in its two: directly, or inverted and over a jump. *)
Branched(c, from, near, far, reach, to) ==
  IF IsInt(reach, to - from)
  THEN [c EXCEPT ![from] = near, ![from + 1] = <<"nop">>]
  ELSE link_jump_or_call([c EXCEPT ![from] = far], from + 1, to)

LEMMA BranchTouches ==
  ASSUME NEW c \in Seq(Insns), NEW from \in 1..Len(c), NEW next \in 1..Len(c), next = from + 1,
         NEW to \in Int,
         NEW near \in Insns, NEW far \in Insns, NEW reach
  PROVE  LET d == Branched(c, from, near, far, reach, to) IN
         /\ d \in Seq(Insns) /\ Len(d) = Len(c)
         /\ \A n \in 1..Len(c) : n # from /\ n # next => d[n] = c[n]
         /\ ~IsBranch(d[next])
         /\ \/ d[from] = near /\ d[next] = <<"nop">>
            \/ /\ d[from] = far
               /\ c[next][1] \in {"b", "nop"} =>
                    d[next] = <<"b", Field(to - next, Reach26)>>
<1> SUFFICES ASSUME NEW d, d = Branched(c, from, near, far, reach, to)
             PROVE  /\ d \in Seq(Insns) /\ Len(d) = Len(c)
                    /\ \A n \in 1..Len(c) : n # from /\ n # next => d[n] = c[n]
                    /\ ~IsBranch(d[next])
                    /\ \/ d[from] = near /\ d[next] = <<"nop">>
                       \/ /\ d[from] = far
                          /\ c[next][1] \in {"b", "nop"} =>
                               d[next] = <<"b", Field(to - next, Reach26)>>
  OBVIOUS
<1>1. CASE IsInt(reach, to - from)
  <2>1. PICK e : e = [c EXCEPT ![from] = near]
    OBVIOUS
  <2>2. d = [e EXCEPT ![from + 1] = <<"nop">>]
    BY <1>1, <2>1 DEF Branched
  <2>3. /\ e \in Seq(Insns) /\ Len(e) = Len(c)
        /\ \A n \in 1..Len(c) : e[n] = IF n = from THEN near ELSE c[n]
    BY <2>1, ExceptSeq
  <2>4. PICK nop \in Insns : nop = <<"nop">> /\ ~IsBranch(nop)
    BY PlainInsns DEF IsBranch
  <2>5. /\ d \in Seq(Insns) /\ Len(d) = Len(c)
        /\ \A n \in 1..Len(c) : d[n] = IF n = from + 1 THEN nop ELSE e[n]
    BY <2>2, <2>3, <2>4, ExceptSeq
  <2> QED
    BY <2>3, <2>4, <2>5
<1>2. CASE ~IsInt(reach, to - from)
  <2>1. PICK e : e = [c EXCEPT ![from] = far]
    OBVIOUS
  <2>2. d = link_jump_or_call(e, from + 1, to)
    BY <1>2, <2>1 DEF Branched
  <2>3. /\ e \in Seq(Insns) /\ Len(e) = Len(c)
        /\ \A n \in 1..Len(c) : e[n] = IF n = from THEN far ELSE c[n]
    BY <2>1, ExceptSeq
  <2>4. /\ d \in Seq(Insns) /\ Len(d) = Len(c)
        /\ \A n \in 1..Len(c) : n # from + 1 => d[n] = e[n]
        /\ ~IsBranch(d[from + 1])
        /\ e[from + 1][1] \in {"b", "nop"} => d[from + 1] = <<"b", Field(to - (from + 1), Reach26)>>
    BY <2>2, <2>3, JumpTouches
  <2>5. e[from + 1] = c[from + 1] /\ d[from] = far
    BY <2>3, <2>4
  <2> QED
    BY <2>3, <2>4, <2>5
<1> QED
  BY <1>1, <1>2

(* The two instructions that LinkBranch chooses from.                      *)
LEMMA BranchWrites ==
  ASSUME NEW c \in Seq(Insns), NEW from \in 1..Len(c), NEW next \in 1..Len(c), next = from + 1,
         NEW to \in Int, NEW near \in Insns, NEW far \in Insns, NEW reach,
         c[next][1] \in {"b", "nop"}, NEW jump, jump = <<"b", Field(to - next, Reach26)>>,
         NEW d, d = Branched(c, from, near, far, reach, to)
  PROVE  /\ \A n \in 1..Len(c) : n # from /\ n # next => d[n] = c[n]
         /\ \/ d[from] = near /\ d[next] = <<"nop">>
            \/ d[from] = far /\ d[next] = jump
BY BranchTouches, SMTT(20)

LEMMA BranchForms ==
  ASSUME NEW c, NEW from \in Int, NEW to \in Int,
         NEW kind \in Kinds, NEW k \in Int, NEW sense \in BOOLEAN
  PROVE  \E near \in Insns, far \in Insns :
           /\ near = <<"branch", kind, k, sense, to - from>>
           /\ far = <<"branch", kind, k, Opposite(sense), 2>>
           /\ LinkBranch(c, kind, k, sense, from, to) = Branched(c, from, near, far, Bits[kind], to)
<1>1. to - from \in Int /\ 2 \in Int
  OBVIOUS
<1>2. PICK near \in Insns : near = <<"branch", kind, k, sense, to - from>>
  BY <1>1, BranchInsn, Zenon
<1>3. PICK far \in Insns : far = <<"branch", kind, k, Opposite(sense), 2>>
  BY <1>1, InverseType, BranchInsn, Zenon
<1>4. LinkBranch(c, kind, k, sense, from, to) = Branched(c, from, near, far, Bits[kind], to)
  BY <1>2, <1>3 DEF LinkBranch, Branched, Opposite
<1> QED
  BY <1>2, <1>3, <1>4, Zenon

(* A jump takes the place of its label and, if conditional, the one before. *)
LEMMA JumpPlaces ==
  ASSUME jumps \in Seq(JumpType), NEW k \in DOMAIN jumps
  PROVE  /\ k \in Int /\ jumps[k] \in JumpType
         /\ jumps[k].label \in Int /\ jumps[k].typ \in Types
         /\ jumps[k].sense \in BOOLEAN
         /\ First(jumps[k]) = IF Always(jumps[k]) THEN jumps[k].label ELSE jumps[k].label - 1
         /\ First(jumps[k]) \in Int /\ First(jumps[k]) <= jumps[k].label
<1>1. k \in 1..Len(jumps)
  BY LenProperties
<1>2. jumps[k] \in JumpType
  BY <1>1, ElementOfSeq
<1>3. jumps[k].label \in Int /\ jumps[k].typ \in Types /\ jumps[k].sense \in BOOLEAN
  BY <1>2 DEF JumpType
<1>4. First(jumps[k]) = IF Always(jumps[k]) THEN jumps[k].label ELSE jumps[k].label - 1
  BY DEF First
<1>5. First(jumps[k]) \in Int /\ First(jumps[k]) <= jumps[k].label
  BY <1>3, <1>4
<1> QED
  BY <1>1, <1>2, <1>3, <1>4, <1>5

LEMMA RecordFields ==
  ASSUME records \in Seq(RecordType), NEW a \in DOMAIN records
  PROVE  /\ a \in 1..Len(records) /\ a \in Int /\ records[a] \in RecordType
         /\ records[a].to \in Int /\ records[a].from \in Int /\ records[a].subject \in Int
         /\ records[a].typ \in Types /\ records[a].sense \in BOOLEAN
         /\ records[a].kind \in Kinds \union {"none"}
         /\ records[a].link_type \in LinkTypes \union {"Invalid"}
<1>1. a \in 1..Len(records)
  BY LenProperties
<1>2. records[a] \in RecordType
  BY <1>1, ElementOfSeq
<1> QED
  BY <1>1, <1>2 DEF RecordType

LEMMA InsideIff ==
  ASSUME jumps \in Seq(JumpType), NEW n \in Int
  PROVE  n \in Inside <=>
           \E k \in DOMAIN jumps : First(jumps[k]) <= n /\ n <= jumps[k].label
<1>1. \A k \in DOMAIN jumps : jumps[k].label \in Int /\ First(jumps[k]) \in Int
  BY JumpPlaces
<1> QED
  BY <1>1 DEF Inside, Occupied

-------------------------------------------------------------------------------
(* Assembling *)

LEMMA InitLInv == Init => LInv
<1> SUFFICES ASSUME Init PROVE LInv
  OBVIOUS
<1>1. TypeInv
  <2>1. \A S : <<>> \in Seq(S)
    OBVIOUS
  <2> QED
    BY <2>1 DEF Init, TypeInv, Phases
<1>2. DOMAIN jumps = {} /\ DOMAIN records = {} /\ DOMAIN storage = {}
  BY DEF Init
<1> QED
  BY <1>1, <1>2 DEF Init, LInv, JumpsApart, RecordsInv, AssemblingInv

LEMMA InsnStep ==
  ASSUME LInv, Insn
  PROVE  LInv'
<1>0. TypeInv /\ JumpsApart /\ RecordsInv /\ AssemblingInv /\ phase = "assembling"
  BY DEF LInv, Insn
<1>1. PICK L \in Nat : L = Len(storage) /\ DOMAIN storage = 1..L
  BY <1>0 DEF TypeInv
<1>2. /\ phase' = "assembling" /\ storage' = Append(storage, <<"other", L + 1>>)
      /\ UNCHANGED <<jumps, records, goal, code, read, write, at, emitted>>
  BY <1>0, <1>1 DEF Insn, label, linking
<1>3. /\ storage' \in Seq(Insns) /\ Len(storage') = L + 1 /\ DOMAIN storage' = 1..(L + 1)
      /\ \A n \in 1..L : storage'[n] = storage[n]
      /\ storage'[L + 1] = <<"other", L + 1>>
  <2>0. L + 1 \in Int
    OBVIOUS
  <2>1. <<"other", L + 1>> \in Insns
    BY <2>0, InsnTypes
  <2> QED
    BY <1>0, <1>1, <1>2, <2>1, AppendProperties DEF TypeInv
<1>4. Emitted = L /\ Emitted' = L + 1
  BY <1>0, <1>1, <1>2, <1>3 DEF Emitted
<1>5. TypeInv'
  BY <1>0, <1>2, <1>3 DEF TypeInv
<1>6. \A k \in DOMAIN jumps : jumps[k].label \in Int /\ First(jumps[k]) \in Int
  BY <1>0, JumpPlaces DEF TypeInv
<1>7. JumpsApart'
  BY <1>0, <1>2, <1>4, <1>6 DEF JumpsApart
<1>8. RecordsInv'
  <2>1. \A a \in DOMAIN records : records[a].to \in Int
    BY <1>0, RecordFields DEF TypeInv
  <2> QED
    BY <1>0, <1>2, <1>4, <2>1 DEF RecordsInv
<1>9. AssemblingInv'
  <2>1. SUFFICES ASSUME NEW n \in 1..(L + 1) PROVE AsAssembled(storage, n)'
    BY <1>0, <1>2, <1>3 DEF AssemblingInv
  <2>2. Inside' = Inside
    BY <1>2 DEF Inside
  <2>3. CASE n \in 1..L
    <3>1. AsAssembled(storage, n) /\ storage'[n] = storage[n]
      BY <1>0, <1>1, <1>3, <2>3 DEF AssemblingInv
    <3>2. Plain(storage, n) => Plain(storage, n)'
      BY <1>4, <2>3, <3>1 DEF Plain
    <3>3. \A k \in DOMAIN jumps : Unlinked(k)' = Unlinked(k)
      BY <1>2 DEF Unlinked
    <3> QED
      BY <1>2, <2>2, <3>1, <3>2, <3>3 DEF AsAssembled
  <2>4. CASE n = L + 1
    <3>1. \A k \in DOMAIN jumps : First(jumps[k]) # n /\ jumps[k].label # n
      BY <1>0, <1>4, <1>6, <2>4, JumpPlaces DEF JumpsApart, TypeInv
    <3> QED
      BY <1>2, <1>3, <2>4, <3>1 DEF AsAssembled, Plain
  <2> QED
    BY <2>3, <2>4
<1> QED
  BY <1>2, <1>5, <1>7, <1>8, <1>9 DEF LInv

(* A jump of one instruction, or a branch and a nop, at the end.           *)
LEMMA MadeStep ==
  ASSUME LInv, NEW insns \in Seq(Insns), NEW typ \in Types,
         NEW kind \in Kinds \union {"none"}, NEW sense \in BOOLEAN, NEW where,
         Made(insns, typ, kind, sense, where), where = Len(storage) + Len(insns),
         IF typ = "NoConditionFixedSize"
         THEN Len(insns) = 1 /\ insns[1] = <<"b", 0>>
         ELSE /\ kind \in Kinds /\ Len(insns) = 2
              /\ insns[1] = <<"branch", kind, Len(jumps) + 1, sense, 0>>
              /\ insns[2] = <<"nop">>
  PROVE  LInv'
<1>0. TypeInv /\ JumpsApart /\ RecordsInv /\ AssemblingInv /\ phase = "assembling"
  BY DEF LInv, Made
<1>1. PICK L \in Nat : L = Len(storage) /\ DOMAIN storage = 1..L
  BY <1>0 DEF TypeInv
<1>2. PICK J \in Nat : J = Len(jumps) /\ DOMAIN jumps = 1..J /\ Len(goal) = J /\ DOMAIN goal = 1..J
  BY <1>0 DEF TypeInv
<1>3. PICK I \in 1..2 : I = Len(insns) /\ (I = 1 <=> typ = "NoConditionFixedSize")
  OBVIOUS
<1>4. PICK new : new = [label |-> L + I, typ |-> typ, kind |-> kind, sense |-> sense]
  OBVIOUS
<1>5. new \in JumpType /\ (Always(new) <=> I = 1) /\ First(new) = L + 1 /\ new.label = L + I
  <2>1. L + I \in Int
    BY <1>1, <1>3
  <2>2. new \in JumpType /\ new.label = L + I /\ new.typ = typ
    BY <1>4, <2>1 DEF JumpType
  <2>3. Always(new) <=> I = 1
    BY <1>3, <2>2 DEF Always
  <2>4. First(new) = IF I = 1 THEN L + I ELSE L + I - 1
    BY <2>2, <2>3 DEF First
  <2>5. (I = 1 \/ I = 2) /\ L \in Int
    BY <1>1, <1>3
  <2>6. First(new) = L + 1
    BY <2>4, <2>5
  <2> QED
    BY <2>2, <2>3, <2>6
<1>6. /\ phase' = "assembling" /\ storage' = storage \o insns
      /\ jumps' = Append(jumps, new) /\ goal' = Append(goal, Nowhere)
      /\ UNCHANGED <<records, code, read, write, at, emitted>>
  BY <1>0, <1>1, <1>3, <1>4 DEF Made, linking
<1>7. /\ storage' \in Seq(Insns) /\ Len(storage') = L + I /\ DOMAIN storage' = 1..(L + I)
      /\ \A n \in 1..L : storage'[n] = storage[n]
      /\ storage'[L + 1] = insns[1]
      /\ I = 2 => storage'[L + 2] = insns[2]
  <2>1. /\ storage' \in Seq(Insns) /\ Len(storage') = L + I
        /\ \A n \in 1..(L + I) : storage'[n] = IF n <= L THEN storage[n] ELSE insns[n - L]
    BY <1>0, <1>1, <1>3, <1>6, ConcatProperties DEF TypeInv
  <2>2. DOMAIN storage' = 1..(L + I)
    BY <2>1, LenProperties
  <2>3. \A n \in 1..L : storage'[n] = storage[n]
    BY <2>1
  <2>4. I = 1 => storage'[L + 1] = insns[1]
    BY <2>1
  <2>5. I = 2 => storage'[L + 1] = insns[1] /\ storage'[L + 2] = insns[2]
    BY <2>1
  <2> QED
    BY <2>1, <2>2, <2>3, <2>4, <2>5
<1>8. /\ jumps' \in Seq(JumpType) /\ Len(jumps') = J + 1 /\ DOMAIN jumps' = 1..(J + 1)
      /\ \A k \in 1..J : jumps'[k] = jumps[k]
      /\ jumps'[J + 1] = new
  BY <1>0, <1>2, <1>5, <1>6, AppendProperties DEF TypeInv
<1>9. /\ goal' \in Seq(Int) /\ Len(goal') = J + 1
      /\ \A k \in 1..J : goal'[k] = goal[k]
      /\ goal'[J + 1] = Nowhere
  <2>1. Nowhere \in Int
    BY DEF Nowhere
  <2> QED
    BY <1>0, <1>2, <1>6, <2>1, AppendProperties DEF TypeInv
<1>10. Emitted = L /\ Emitted' = L + I
  BY <1>0, <1>1, <1>6, <1>7 DEF Emitted
<1>11. TypeInv'
  BY <1>0, <1>6, <1>7, <1>8, <1>9 DEF TypeInv
<1>12. \A k \in 1..J : /\ jumps[k].label \in Int /\ First(jumps[k]) \in Int
                       /\ 1 <= First(jumps[k]) /\ First(jumps[k]) <= jumps[k].label
                       /\ jumps[k].label <= L
  <2>1. ASSUME NEW k \in 1..J
        PROVE  /\ jumps[k].label \in Int /\ First(jumps[k]) \in Int
               /\ First(jumps[k]) <= jumps[k].label
    <3>1. k \in DOMAIN jumps /\ jumps \in Seq(JumpType)
      BY <1>0, <1>2 DEF TypeInv
    <3> QED
      BY <3>1, JumpPlaces
  <2> QED
    BY <1>0, <1>2, <1>10, <2>1 DEF JumpsApart
<1>13. JumpsApart'
  <2>1. ASSUME NEW k \in 1..(J + 1)
        PROVE  /\ 1 <= First(jumps'[k]) /\ jumps'[k].label <= L + I
               /\ ~Always(jumps'[k]) => jumps'[k].kind \in Kinds
    <3>1. CASE k \in 1..J
      <4>1. jumps'[k] = jumps[k] /\ (~Always(jumps[k]) => jumps[k].kind \in Kinds)
        BY <1>0, <1>2, <1>8, <3>1 DEF JumpsApart
      <4>2. jumps[k].label \in Int /\ jumps[k].label <= L /\ 1 <= First(jumps[k])
        BY <1>12, <3>1
      <4>3. L <= L + I /\ L \in Int /\ L + I \in Int
        BY <1>1, <1>3
      <4> QED
        BY <4>1, <4>2, <4>3
    <3>2. CASE k = J + 1
      BY <1>3, <1>4, <1>5, <1>8, <3>2
    <3> QED
      BY <3>1, <3>2
  <2>2. ASSUME NEW k \in 1..(J + 1), NEW l \in 1..(J + 1), k < l
        PROVE  jumps'[k].label < First(jumps'[l])
    <3>1. k \in 1..J
      BY <2>2
    <3>2. CASE l \in 1..J
      BY <1>0, <1>2, <1>8, <2>2, <3>1, <3>2 DEF JumpsApart
    <3>3. CASE l = J + 1
      <4>1. jumps'[k] = jumps[k] /\ First(jumps'[l]) = L + 1
        BY <1>5, <1>8, <3>1, <3>3
      <4> QED
        BY <1>12, <3>1, <4>1
    <3> QED
      BY <3>2, <3>3
  <2> QED
    BY <1>8, <1>10, <2>1, <2>2 DEF JumpsApart
<1>14. RecordsInv'
  <2>1. \A a \in DOMAIN records : records[a].to \in Int /\ records[a].subject \in 1..J
    BY <1>0, <1>2, RecordFields DEF TypeInv, RecordsInv
  <2>2. \A k \in DOMAIN jumps' : goal'[k] # Nowhere => k \in 1..J /\ goal[k] # Nowhere
    BY <1>8, <1>9
  <2>3. DOMAIN records' = DOMAIN records /\ records' = records
    BY <1>6
  <2>4. ASSUME NEW a \in DOMAIN records
        PROVE  LET r == records[a] IN
               /\ r.subject \in DOMAIN jumps'
               /\ r.from = jumps'[r.subject].label /\ r.typ = jumps'[r.subject].typ
               /\ r.kind = jumps'[r.subject].kind /\ r.sense = jumps'[r.subject].sense
               /\ r.to = goal'[r.subject] /\ 1 <= r.to /\ r.to <= Emitted' + 1
    <3>1. records[a].subject \in 1..J /\ records[a].to \in Int
      BY <2>1
    <3>2. /\ records[a].from = jumps[records[a].subject].label
          /\ records[a].typ = jumps[records[a].subject].typ
          /\ records[a].kind = jumps[records[a].subject].kind
          /\ records[a].sense = jumps[records[a].subject].sense
          /\ records[a].to = goal[records[a].subject]
          /\ 1 <= records[a].to /\ records[a].to <= L + 1
      BY <1>0, <1>10 DEF RecordsInv
    <3>3. /\ jumps'[records[a].subject] = jumps[records[a].subject]
          /\ goal'[records[a].subject] = goal[records[a].subject]
          /\ records[a].subject \in DOMAIN jumps'
      BY <1>8, <1>9, <3>1, SMTT(30)
    <3> QED
      BY <1>3, <1>10, <3>1, <3>2, <3>3
  <2> QED
    BY <1>0, <1>2, <2>2, <2>3, <2>4 DEF RecordsInv
<1>15. AssemblingInv'
  <2>1. SUFFICES ASSUME NEW n \in 1..(L + I) PROVE AsAssembled(storage, n)'
    BY <1>0, <1>6, <1>7 DEF AssemblingInv
  <2>2. n \in Inside' <=> \E k \in 1..(J + 1) : First(jumps'[k]) <= n /\ n <= jumps'[k].label
    <3>1. \A k \in 1..(J + 1) : jumps'[k].label \in Int /\ First(jumps'[k]) \in Int
      <4>1. \A k \in 1..(J + 1) : k \in 1..J \/ k = J + 1
        OBVIOUS
      <4>2. L + 1 \in Int /\ L + I \in Int
        OBVIOUS
      <4> QED
        BY <1>5, <1>8, <1>12, <4>1, <4>2
    <3>2. n \in Int
      OBVIOUS
    <3>3. n \in Inside' <=> \E k \in 1..(J + 1) : n \in First(jumps'[k])..jumps'[k].label
      BY <1>8 DEF Inside, Occupied
    <3> QED
      BY <3>1, <3>2, <3>3
  <2>3. CASE n \in 1..L
    <3>1. AsAssembled(storage, n) /\ storage'[n] = storage[n]
      BY <1>0, <1>1, <1>7, <2>3 DEF AssemblingInv
    <3>2. n \in Inside => n \in Inside'
      <4>1. n \in Int
        BY <2>3
      <4>2. n \in Inside => \E k \in 1..J : First(jumps[k]) <= n /\ n <= jumps[k].label
        BY <1>0, <1>2, <4>1, InsideIff DEF TypeInv
      <4>3. \A k \in 1..J : k \in 1..(J + 1) /\ jumps'[k] = jumps[k]
        BY <1>8
      <4> QED
        BY <2>2, <4>2, <4>3
    <3>3. ASSUME NEW k \in 1..(J + 1)
          PROVE  /\ n = First(jumps'[k]) => storage'[n] = Unlinked(k)'
                 /\ n = jumps'[k].label /\ ~Always(jumps'[k]) => storage'[n] = <<"nop">>
      <4>1. CASE k \in 1..J
        BY <1>2, <1>8, <3>1, <4>1 DEF AsAssembled, Unlinked
      <4>2. CASE k = J + 1
        BY <1>3, <1>5, <1>8, <2>3, <4>2, SMTT(30)
      <4> QED
        BY <4>1, <4>2
    <3>4. Plain(storage, n) => Plain(storage, n)'
      BY <1>3, <1>10, <2>3, <3>1 DEF Plain
    <3> QED
      BY <1>8, <3>1, <3>2, <3>3, <3>4 DEF AsAssembled
  <2>4. CASE n \in (L + 1)..(L + I)
    <3>1. n \in Inside'
      BY <1>2, <1>3, <1>5, <1>8, <2>2, <2>4
    <3>2. ASSUME NEW k \in 1..J PROVE First(jumps'[k]) # n /\ jumps'[k].label # n
      <4>1. jumps'[k] = jumps[k]
        BY <1>8
      <4>2. First(jumps[k]) # n /\ jumps[k].label # n
        BY <1>12, <2>4
      <4> QED
        BY <4>1, <4>2
    <3>3. n = First(new) => storage'[n] = Unlinked(J + 1)'
      <4>1. Unlinked(J + 1)' = IF I = 1 THEN <<"b", 0>> ELSE <<"branch", kind, J + 1, sense, 0>>
        BY <1>4, <1>5, <1>8 DEF Unlinked
      <4> QED
        BY <1>2, <1>3, <1>5, <1>7, <4>1
    <3>4. n = new.label /\ ~Always(new) => storage'[n] = <<"nop">>
      BY <1>3, <1>5, <1>7
    <3>5. \A k \in 1..(J + 1) : k \in 1..J \/ k = J + 1
      BY <1>2
    <3> QED
      BY <1>8, <3>1, <3>2, <3>3, <3>4, <3>5 DEF AsAssembled
  <2> QED
    BY <1>3, <2>3, <2>4
<1> QED
  BY <1>6, <1>11, <1>13, <1>14, <1>15 DEF LInv

LEMMA MakeStep ==
  ASSUME LInv, MakeJump \/ MakeBranch
  PROVE  LInv'
<1>1. Len(storage) \in Nat /\ Len(jumps) \in Nat
  BY DEF LInv, TypeInv
<1>2. CASE MakeJump
  <2>0. 0 \in Int
    OBVIOUS
  <2>1. PICK i \in Insns : i = <<"b", 0>>
    BY <2>0, InsnTypes
  <2>2. <<i>> \in Seq(Insns) /\ Len(<<i>>) = 1 /\ <<i>>[1] = i
    OBVIOUS
  <2>3. Made(<<i>>, "NoConditionFixedSize", "none", TRUE, Len(storage) + 1)
    BY <1>2, <2>1 DEF MakeJump, label
  <2> QED
    BY <1>1, <2>1, <2>2, <2>3, MadeStep DEF Types
<1>3. CASE MakeBranch
  <2>1. PICK kind \in Kinds, sense \in BOOLEAN :
          Made(<<<<"branch", kind, Len(jumps) + 1, sense, 0>>, <<"nop">>>>,
               TypeOf[kind], kind, sense, label + 1)
    BY <1>3 DEF MakeBranch, TypeOf, Kinds
  <2>2. PICK i \in Insns : i = <<"branch", kind, Len(jumps) + 1, sense, 0>>
    <3>1. Len(jumps) + 1 \in Int /\ 0 \in Int
      BY <1>1
    <3> QED
      BY <2>1, <3>1, BranchInsn, Zenon
  <2>3. PICK nop \in Insns : nop = <<"nop">>
    BY PlainInsns
  <2>4. PICK insns \in Seq(Insns) :
          insns = <<i, nop>> /\ Len(insns) = 2 /\ insns[1] = i /\ insns[2] = nop
    <3>1. /\ <<i, nop>> \in Seq(Insns) /\ Len(<<i, nop>>) = 2
          /\ <<i, nop>>[1] = i /\ <<i, nop>>[2] = nop
      OBVIOUS
    <3> QED
      BY <3>1, Zenon
  <2>5. PICK typ \in Types : typ = TypeOf[kind] /\ typ # "NoConditionFixedSize"
    BY <2>1 DEF TypeOf, Kinds, Types
  <2>6. Made(insns, typ, kind, sense, Len(storage) + Len(insns))
    <3>1. label + 1 = Len(storage) + Len(insns)
      BY <1>1, <2>4 DEF label
    <3> QED
      BY <2>1, <2>2, <2>3, <2>4, <2>5, <3>1
  <2> QED
    BY <2>1, <2>2, <2>3, <2>4, <2>5, <2>6, MadeStep
<1> QED
  BY <1>2, <1>3

(* A goal and its record.                                                  *)
LEMMA LinkStep ==
  ASSUME LInv, NEW k \in DOMAIN jumps, NEW to \in Labels, LinkTo(k, to)
  PROVE  LInv'
<1>0. TypeInv /\ JumpsApart /\ RecordsInv /\ AssemblingInv /\ phase = "assembling"
  BY DEF LInv, LinkTo
<1>1. /\ to \in Int /\ 1 <= to /\ to <= Len(storage) + 1 /\ Emitted = Len(storage)
      /\ Len(storage) \in Nat
  BY <1>0 DEF Labels, label, Emitted, TypeInv
<1>2. PICK R \in Nat : R = Len(records) /\ DOMAIN records = 1..R
  BY <1>0 DEF TypeInv
<1>3. PICK r : r = Record(k, to)
  OBVIOUS
<1>4. /\ r \in RecordType
      /\ r.subject = k /\ r.from = jumps[k].label /\ r.typ = jumps[k].typ
      /\ r.kind = jumps[k].kind /\ r.sense = jumps[k].sense /\ r.to = to
  <2>1. k \in Int /\ jumps[k] \in JumpType
    BY <1>0, JumpPlaces DEF TypeInv
  <2> QED
    BY <1>1, <1>3, <2>1 DEF Record, RecordType, JumpType
<1>5. /\ goal[k] = Nowhere /\ records' = Append(records, r) /\ goal' = [goal EXCEPT ![k] = to]
      /\ phase' = "assembling"
      /\ UNCHANGED <<storage, jumps, code, read, write, at, emitted>>
  BY <1>0, <1>3 DEF LinkTo, link_jump_of, linking
<1>6. k \in 1..Len(goal) /\ DOMAIN jumps = 1..Len(goal)
  BY <1>0 DEF TypeInv
<1>7. /\ goal' \in Seq(Int) /\ Len(goal') = Len(goal)
      /\ \A l \in DOMAIN jumps : goal'[l] = IF l = k THEN to ELSE goal[l]
  BY <1>0, <1>1, <1>5, <1>6, ExceptSeq DEF TypeInv
<1>8. /\ records' \in Seq(RecordType) /\ DOMAIN records' = 1..(R + 1)
      /\ \A a \in 1..R : records'[a] = records[a]
      /\ records'[R + 1] = r
  BY <1>0, <1>2, <1>4, <1>5, AppendProperties DEF TypeInv
<1>9. TypeInv'
  BY <1>0, <1>5, <1>7, <1>8 DEF TypeInv
<1>10. Emitted' = Emitted
  BY <1>0, <1>5 DEF Emitted
<1>11. JumpsApart'
  BY <1>0, <1>5, <1>10 DEF JumpsApart
<1>12. \A a \in 1..R : records[a].subject # k
  BY <1>0, <1>2, <1>5 DEF RecordsInv, Nowhere
<1>13. RecordsInv'
  <2>1. ASSUME NEW a \in 1..(R + 1)
        PROVE  /\ records'[a].subject \in DOMAIN jumps
               /\ records'[a].from = jumps[records'[a].subject].label
               /\ records'[a].typ = jumps[records'[a].subject].typ
               /\ records'[a].kind = jumps[records'[a].subject].kind
               /\ records'[a].sense = jumps[records'[a].subject].sense
               /\ records'[a].to = goal'[records'[a].subject]
               /\ 1 <= records'[a].to /\ records'[a].to <= Emitted + 1
    <3>1. CASE a = R + 1
      BY <1>1, <1>4, <1>7, <1>8, <3>1
    <3>2. CASE a \in 1..R
      <4>1. records'[a] = records[a] /\ records[a].subject # k /\ records[a].subject \in DOMAIN jumps
        BY <1>0, <1>2, <1>8, <1>12, <3>2 DEF RecordsInv
      <4>2. goal'[records[a].subject] = goal[records[a].subject]
        BY <1>7, <4>1
      <4> QED
        BY <1>0, <1>2, <3>2, <4>1, <4>2 DEF RecordsInv
    <3> QED
      BY <1>2, <3>1, <3>2
  <2>2. ASSUME NEW a \in 1..(R + 1), NEW b \in 1..(R + 1),
               records'[a].subject = records'[b].subject
        PROVE  a = b
    <3>1. CASE a \in 1..R /\ b \in 1..R
      BY <1>0, <1>2, <1>8, <2>2, <3>1 DEF RecordsInv
    <3>2. CASE a \notin 1..R \/ b \notin 1..R
      BY <1>4, <1>8, <1>12, <2>2, <3>2
    <3> QED
      BY <3>1, <3>2
  <2>3. ASSUME NEW l \in DOMAIN jumps, goal'[l] # Nowhere
        PROVE  \E a \in 1..(R + 1) : records'[a].subject = l
    <3>1. CASE l = k
      BY <1>4, <1>8, <3>1
    <3>2. CASE l # k
      <4>1. PICK a \in 1..R : records[a].subject = l
        BY <1>0, <1>2, <1>7, <2>3, <3>2 DEF RecordsInv
      <4> QED
        BY <1>8, <4>1
    <3> QED
      BY <3>1, <3>2
  <2> QED
    BY <1>5, <1>8, <1>10, <2>1, <2>2, <2>3 DEF RecordsInv
<1>14. AssemblingInv'
  BY <1>0, <1>5, <1>10 DEF AssemblingInv, AsAssembled, Plain, Unlinked, Inside
<1> QED
  BY <1>5, <1>9, <1>11, <1>13, <1>14 DEF LInv

-------------------------------------------------------------------------------
(* Allocating *)

LEMMA AllocateStep ==
  ASSUME LInv, phase = "assembling", NEW size \in Nat, Len(storage) <= size,
         NEW padding \in {<<"brk">>, <<"nop">>}, Allocated(size, padding)
  PROVE  LInv'
<1>0. TypeInv /\ JumpsApart /\ RecordsInv /\ AssemblingInv
  BY DEF LInv
<1>1. PICK L \in Nat : L = Len(storage) /\ DOMAIN storage = 1..L
  BY <1>0 DEF TypeInv
<1>2. PICK R \in Nat : R = Len(records) /\ DOMAIN records = 1..R
  BY <1>0 DEF TypeInv
<1>3. PICK P \in Nat : P = size - L
  BY <1>1
<1>4. PICK pad : pad = [n \in 1..P |-> padding]
  OBVIOUS
<1>5. /\ storage' = storage \o pad
      /\ code' = [n \in 1..size |-> <<"unwritten">>]
      /\ records' \in jumps_to_link
      /\ phase' = "copying" /\ emitted' = L
      /\ UNCHANGED <<jumps, goal, read, write, at>>
  BY <1>1, <1>3, <1>4 DEF Allocated
<1>6. /\ storage' \in Seq(Insns) /\ Len(storage') = size /\ DOMAIN storage' = 1..size
      /\ \A n \in 1..L : storage'[n] = storage[n]
      /\ \A n \in (L + 1)..size : storage'[n] = padding
  <2>1. pad \in Seq(Insns) /\ Len(pad) = P /\ \A n \in 1..P : pad[n] = padding
    <3>1. padding \in Insns
      BY PlainInsns
    <3> QED
      BY <1>4, <3>1
  <2>2. /\ storage' \in Seq(Insns) /\ Len(storage') = L + P
        /\ \A n \in 1..(L + P) : storage'[n] = IF n <= L THEN storage[n] ELSE pad[n - L]
    <3>1. storage \in Seq(Insns)
      BY <1>0 DEF TypeInv
    <3>2. /\ storage \o pad \in Seq(Insns) /\ Len(storage \o pad) = L + P
          /\ \A n \in 1..(L + P) : (storage \o pad)[n] = IF n <= L THEN storage[n] ELSE pad[n - L]
      BY <1>1, <2>1, <3>1, ConcatProperties, ZenonT(30)
    <3> QED
      BY <1>5, <3>2
  <2>3. L + P = size
    BY <1>1, <1>3
  <2>4. DOMAIN storage' = 1..size
    BY <2>2, <2>3, LenProperties
  <2>5. \A n \in 1..L : storage'[n] = storage[n]
    BY <2>2
  <2>6. ASSUME NEW n \in (L + 1)..size PROVE storage'[n] = padding
    <3>1. n \in 1..(L + P) /\ ~(n <= L) /\ n - L \in 1..P
      BY <2>3
    <3> QED
      BY <2>1, <2>2, <3>1
  <2> QED
    BY <2>2, <2>3, <2>4, <2>5, <2>6
<1>7. /\ code' \in Seq(Insns) /\ Len(code') = size
  BY <1>5, PlainInsns
<1>8. PICK p \in [1..R -> 1..R] :
        /\ \A a, b \in 1..R : p[a] = p[b] => a = b
        /\ \A b \in 1..R : \E a \in 1..R : p[a] = b
        /\ \A a, b \in 1..R : a < b => records[p[a]].from <= records[p[b]].from
        /\ records' = [n \in 1..R |-> records[p[n]]]
  <2>1. PICK p \in Bijection(1..R, 1..R) :
          /\ \A a, b \in 1..R : a < b => records[p[a]].from <= records[p[b]].from
          /\ records' = [n \in 1..R |-> records[p[n]]]
    BY <1>2, <1>5 DEF jumps_to_link, InOrder
  <2>2. /\ p \in [1..R -> 1..R]
        /\ \A a, b \in 1..R : p[a] = p[b] => a = b
        /\ \A b \in 1..R : \E a \in 1..R : p[a] = b
    BY <2>1 DEF Bijection, Injection, Surjection, IsInjective
  <2> QED
    BY <2>1, <2>2
<1>9. /\ records' \in Seq(RecordType) /\ Len(records') = R /\ DOMAIN records' = 1..R
      /\ \A a \in 1..R : records'[a] = records[p[a]]
  <2>1. \A a \in 1..R : records[p[a]] \in RecordType
    BY <1>0, <1>2, <1>8, RecordFields DEF TypeInv
  <2> QED
    BY <1>8, <2>1
<1>10. Emitted = L /\ Emitted' = L
  BY <1>1, <1>5 DEF Emitted
<1>11. TypeInv'
  BY <1>0, <1>5, <1>6, <1>7, <1>9 DEF TypeInv, Phases
<1>12. JumpsApart'
  BY <1>0, <1>5, <1>10 DEF JumpsApart
<1>13. RecordsInv'
  <2>1. \A a \in 1..R : p[a] \in 1..R
    BY <1>8
  <2>2. \A k \in DOMAIN jumps : goal[k] # Nowhere => \E a \in 1..R : records'[a].subject = k
    BY <1>0, <1>2, <1>8, <1>9 DEF RecordsInv
  <2>3. \A a, b \in 1..R : records'[a].subject = records'[b].subject => a = b
    <3>1. \A a, b \in 1..R : records[a].subject = records[b].subject => a = b
      BY <1>0, <1>2 DEF RecordsInv
    <3>2. ASSUME NEW a \in 1..R, NEW b \in 1..R, records'[a].subject = records'[b].subject
          PROVE  a = b
      <4>0. records[p[a]].subject = records[p[b]].subject
        BY <1>9, <3>2
      <4>1. p[a] = p[b]
        BY <2>1, <3>1, <4>0, Zenon
      <4> QED
        BY <1>8, <4>1
    <3> QED
      BY <3>2
  <2>4. ASSUME NEW a \in 1..R
        PROVE  /\ records'[a].subject \in DOMAIN jumps
               /\ records'[a].from = jumps[records'[a].subject].label
               /\ records'[a].typ = jumps[records'[a].subject].typ
               /\ records'[a].kind = jumps[records'[a].subject].kind
               /\ records'[a].sense = jumps[records'[a].subject].sense
               /\ records'[a].to = goal[records'[a].subject]
               /\ 1 <= records'[a].to /\ records'[a].to <= Emitted + 1
    BY <1>0, <1>2, <1>9, <2>1 DEF RecordsInv
  <2> QED
    BY <1>5, <1>9, <1>10, <2>2, <2>3, <2>4 DEF RecordsInv
<1>14. CopyingInv'
  <2>1. ASSUME NEW a \in 1..R PROVE 1 <= records'[a].from
    <3>1. PICK k \in DOMAIN jumps : records'[a].from = jumps[k].label
      BY <1>5, <1>9, <1>13 DEF RecordsInv
    <3>2. 1 <= First(jumps[k]) /\ First(jumps[k]) <= jumps[k].label
      BY <1>0, JumpPlaces DEF TypeInv, JumpsApart
    <3>3. First(jumps[k]) \in Int /\ jumps[k].label \in Int
      BY <1>0, JumpPlaces DEF TypeInv
    <3> QED
      BY <3>1, <3>2, <3>3
  <2>2. ASSUME NEW n \in 1..size PROVE AsAssembled(storage, n)'
    <3>1. Inside' = Inside
      BY <1>5 DEF Inside
    <3>2. CASE n \in 1..L
      <4>1. AsAssembled(storage, n) /\ storage'[n] = storage[n]
        BY <1>0, <1>1, <1>6, <3>2 DEF AssemblingInv
      <4>2. Plain(storage, n) => Plain(storage, n)'
        BY <1>10, <4>1 DEF Plain
      <4>3. \A k \in DOMAIN jumps : Unlinked(k)' = Unlinked(k)
        BY <1>5 DEF Unlinked
      <4> QED
        BY <1>5, <3>1, <4>1, <4>2, <4>3 DEF AsAssembled
    <3>3. CASE n \in (L + 1)..size
      <4>1. \A k \in DOMAIN jumps : First(jumps[k]) # n /\ jumps[k].label # n
        <5>1. ASSUME NEW k \in DOMAIN jumps PROVE First(jumps[k]) # n /\ jumps[k].label # n
          <6>1. /\ jumps[k].label \in Int /\ First(jumps[k]) \in Int
                /\ First(jumps[k]) <= jumps[k].label
            BY <1>0, JumpPlaces DEF TypeInv
          <6>2. jumps[k].label <= L
            BY <1>0, <1>10 DEF JumpsApart
          <6> QED
            BY <3>3, <6>1, <6>2
        <5> QED
          BY <5>1
      <4>2. Plain(storage, n)'
        BY <1>6, <1>10, <3>3 DEF Plain
      <4> QED
        BY <1>5, <4>1, <4>2 DEF AsAssembled
    <3> QED
      BY <1>1, <3>2, <3>3
  <2>3. \A a, b \in 1..R : a < b => records'[a].from <= records'[b].from
    BY <1>8, <1>9
  <2> QED
    BY <1>0, <1>1, <1>2, <1>5, <1>6, <1>7, <1>9, <2>1, <2>2, <2>3 DEF CopyingInv, AssemblingInv
<1> QED
  BY <1>5, <1>11, <1>12, <1>13, <1>14 DEF LInv

LEMMA AllocatesStep ==
  ASSUME LInv, AllocateAnew \/ (\E room \in Rooms : AllocateIn(room))
  PROVE  LInv'
<1>1. PICK L \in Nat : L = Len(storage)
  BY DEF LInv, TypeInv
<1>2. CASE AllocateAnew
  <2>1. PICK q \in Int : q = (L + Granule - 1) \div Granule
    BY LinkAssumption DEF LinkAssumption
  <2>2. Granule \in Nat \ {0}
    BY LinkAssumption DEF LinkAssumption
  <2>3. Granule * q \in Nat /\ L <= Granule * q
    <3>1. PICK m \in Int : m = (L + Granule - 1) % Granule /\ 0 <= m /\ m < Granule
      BY <2>2
    <3>2. L + Granule - 1 = Granule * q + m
      BY <2>1, <2>2, <3>1
    <3>3. PICK s \in Int : s = Granule * q
      BY <2>1, <2>2
    <3> QED
      BY <2>2, <3>1, <3>2, <3>3
  <2> QED
    BY <1>1, <1>2, <2>1, <2>3, AllocateStep DEF AllocateAnew
<1>3. CASE \E room \in Rooms : AllocateIn(room)
  <2>1. PICK room \in Rooms : AllocateIn(room)
    BY <1>3
  <2>2. room \in Nat
    BY LinkAssumption DEF LinkAssumption
  <2> QED
    BY <2>1, <2>2, AllocateStep DEF AllocateIn
<1> QED
  BY <1>2, <1>3

LEMMA FailStep ==
  ASSUME LInv, NEW room \in Rooms, FailToAllocate(room)
  PROVE  LInv'
<1>1. /\ phase = "assembling" /\ phase' = "failed"
      /\ UNCHANGED <<storage, code, jumps, records, goal, read, write, at, emitted>>
  BY DEF FailToAllocate, linking
<1>2. TypeInv'
  BY <1>1 DEF LInv, TypeInv, Phases
<1>3. JumpsApart'
  BY <1>1 DEF LInv, JumpsApart, Emitted
<1> QED
  BY <1>1, <1>2, <1>3 DEF LInv

-------------------------------------------------------------------------------
(* Copying *)

(* A region is copied to where it came from, so that nothing has moved, and *)
(* its place in the buffer says so.                                         *)
LEMMA RegionCopied ==
  ASSUME TypeInv, CopyingInv, phase = "copying", NEW end \in Int, read <= end,
         end <= Len(storage) + 1,
         code' = Copied(end), storage' = record_link_offsets(read, end, read - write),
         phase' \in {"copying", "linking"}, UNCHANGED <<jumps, emitted>>
  PROVE  /\ storage' \in Seq(Insns) /\ code' \in Seq(Insns)
         /\ Len(storage') = Len(storage) /\ Len(code') = Len(storage)
         /\ \A n \in DOMAIN storage :
              IF n < end THEN AsAssembled(code, n)' /\ storage'[n] = <<"offset", 0>>
              ELSE AsAssembled(storage, n)'
<1>1. PICK L \in Nat : /\ L = Len(storage) /\ DOMAIN storage = 1..L
                       /\ L = Len(code) /\ DOMAIN code = 1..L
  BY DEF TypeInv, CopyingInv
<1>2. read \in Int /\ write = read /\ 1 <= read
  BY DEF TypeInv, CopyingInv
<1>3. PICK region : region = read..(end - 1)
  OBVIOUS
<1>4. region \subseteq 1..L
  BY <1>1, <1>2, <1>3
<1>5. /\ code' = [n \in 1..L |-> IF n \in region THEN storage[n] ELSE code[n]]
      /\ storage' = [n \in 1..L |-> IF n \in region THEN <<"offset", 0>> ELSE storage[n]]
  <2>1. \A n \in 1..L : n \in region <=> read <= n /\ n < end
    BY <1>2, <1>3
  <2>2. code' = [n \in 1..L |-> IF read <= n /\ n < read + (end - read)
                                 THEN storage[n - read + read] ELSE code[n]]
    BY <1>1, <1>2 DEF Copied
  <2>3. \A n \in 1..L : n - read + read = n /\ read + (end - read) = end
    BY <1>2
  <2>4. storage' = [n \in 1..L |-> IF read <= n /\ n < end
                                    THEN <<"offset", read - write>> ELSE storage[n]]
    BY <1>1 DEF record_link_offsets
  <2>5. read - write = 0
    BY <1>2
  <2> QED
    BY <2>1, <2>2, <2>3, <2>4, <2>5, SMTT(30)
<1>6. \A n \in 1..L : storage[n] \in Insns /\ code[n] \in Insns /\ <<"offset", 0>> \in Insns
  <2>1. 0 \in Int
    OBVIOUS
  <2> QED
    BY <1>1, <2>1, InsnTypes, ElementOfSeq DEF TypeInv
<1>7. storage' \in Seq(Insns) /\ code' \in Seq(Insns) /\ Len(storage') = L /\ Len(code') = L
  <2>1. storage' \in [1..L -> Insns] /\ code' \in [1..L -> Insns]
    BY <1>5, <1>6, Zenon
  <2> QED
    BY <2>1
<1>8. Emitted' = Emitted /\ Inside' = Inside /\ \A k \in DOMAIN jumps : Unlinked(k)' = Unlinked(k)
  BY DEF Emitted, Inside, Unlinked
<1>9. ASSUME NEW n \in 1..L
      PROVE  IF n < end THEN AsAssembled(code, n)' /\ storage'[n] = <<"offset", 0>>
             ELSE AsAssembled(storage, n)'
  <2>1. CASE n < read
    <3>1. n \notin region /\ n < end
      BY <1>2, <1>3, <2>1
    <3>2. code'[n] = code[n] /\ storage'[n] = storage[n]
      BY <1>5, <3>1
    <3>3. AsAssembled(code, n) /\ storage[n] = <<"offset", 0>>
      BY <1>1, <2>1 DEF CopyingInv
    <3> QED
      BY <1>8, <3>1, <3>2, <3>3 DEF AsAssembled, Plain
  <2>2. CASE n \in region
    <3>1. n < end /\ ~(n < read)
      BY <1>2, <1>3, <2>2
    <3>2. code'[n] = storage[n] /\ storage'[n] = <<"offset", 0>>
      BY <1>5, <2>2
    <3>3. AsAssembled(storage, n)
      BY <1>1, <3>1 DEF CopyingInv
    <3> QED
      BY <1>8, <3>1, <3>2, <3>3 DEF AsAssembled, Plain
  <2>3. CASE ~(n < read) /\ n \notin region
    <3>1. ~(n < end)
      BY <1>2, <1>3, <2>3
    <3>2. storage'[n] = storage[n]
      BY <1>5, <2>3
    <3>3. AsAssembled(storage, n)
      BY <1>1, <2>3 DEF CopyingInv
    <3> QED
      BY <1>8, <3>1, <3>2, <3>3 DEF AsAssembled, Plain
  <2> QED
    BY <2>1, <2>2, <2>3
<1> QED
  BY <1>1, <1>7, <1>9

LEMMA CopyRegionStep ==
  ASSUME LInv, CopyRegion
  PROVE  LInv'
<1>0. TypeInv /\ JumpsApart /\ RecordsInv /\ CopyingInv /\ phase = "copying"
  BY DEF LInv, CopyRegion
<1>1. PICK L \in Nat : L = Len(storage) /\ DOMAIN storage = 1..L
  BY <1>0 DEF TypeInv
<1>2. PICK R \in Nat : R = Len(records) /\ DOMAIN records = 1..R
  BY <1>0 DEF TypeInv
<1>3. at \in 1..R /\ read \in Int /\ emitted \in Int
  BY <1>0, <1>2 DEF CopyRegion, CopyingInv, TypeInv
<1>4. PICK f \in Int : f = records[at].from
  BY <1>0, <1>2, <1>3, RecordFields DEF TypeInv
<1>5. read <= f /\ f <= emitted /\ emitted <= L
  <2>1. read <= f
    BY <1>0, <1>2, <1>3, <1>4 DEF CopyingInv
  <2>2. PICK k \in DOMAIN jumps : f = jumps[k].label
    BY <1>0, <1>2, <1>3, <1>4 DEF RecordsInv
  <2>3. jumps[k].label <= emitted
    BY <1>0 DEF JumpsApart, Emitted
  <2> QED
    BY <1>0, <1>1, <2>1, <2>2, <2>3 DEF CopyingInv
<1>6. /\ code' = Copied(f) /\ storage' = record_link_offsets(read, f, read - write)
      /\ read' = f /\ write' = f /\ at' = at + 1 /\ phase' = "copying"
      /\ records' = [records EXCEPT ![at].from = f, ![at].link_type = LinkTypeOf[records[at].typ]]
      /\ UNCHANGED <<jumps, goal, emitted>>
  <2>1. write = read
    BY <1>0 DEF CopyingInv
  <2>2. read + (f - read) = f
    BY <1>3
  <2> QED
    BY <1>0, <1>4, <2>1, <2>2 DEF CopyRegion
<1>7. /\ storage' \in Seq(Insns) /\ code' \in Seq(Insns)
      /\ Len(storage') = L /\ Len(code') = L
      /\ \A n \in 1..L :
           IF n < f THEN AsAssembled(code, n)' /\ storage'[n] = <<"offset", 0>>
           ELSE AsAssembled(storage, n)'
  <2>1. f <= L + 1
    BY <1>3, <1>5
  <2> QED
    BY <1>0, <1>1, <1>5, <1>6, <2>1, RegionCopied
<1>8. /\ records' \in Seq(RecordType) /\ Len(records') = R /\ DOMAIN records' = 1..R
      /\ \A a \in 1..R :
           /\ records'[a].from = records[a].from /\ records'[a].to = records[a].to
           /\ records'[a].typ = records[a].typ /\ records'[a].subject = records[a].subject
           /\ records'[a].kind = records[a].kind /\ records'[a].sense = records[a].sense
           /\ records'[a].link_type = IF a = at THEN LinkTypeOf[records[a].typ]
                                      ELSE records[a].link_type
  <2>1. records[at] \in RecordType /\ records[at].typ \in Types
    BY <1>0, <1>2, <1>3, RecordFields DEF TypeInv
  <2>2. PICK t \in LinkTypes : t = LinkTypeOf[records[at].typ]
    BY <2>1 DEF LinkTypes, Types, LinkTypeOf
  <2>3. PICK r : r = [records[at] EXCEPT !.from = f, !.link_type = t]
    OBVIOUS
  <2>4. /\ r \in RecordType
        /\ r.from = f /\ r.to = records[at].to /\ r.typ = records[at].typ
        /\ r.subject = records[at].subject /\ r.kind = records[at].kind
        /\ r.sense = records[at].sense /\ r.link_type = t
    BY <2>1, <2>3 DEF RecordType
  <2>5. records' = [records EXCEPT ![at] = r]
    BY <1>6, <2>2, <2>3
  <2>6. /\ records' \in Seq(RecordType) /\ Len(records') = R
        /\ \A a \in 1..R : records'[a] = IF a = at THEN r ELSE records[a]
    BY <1>0, <1>2, <1>3, <2>4, <2>5, ExceptSeq DEF TypeInv
  <2>7. DOMAIN records' = 1..R
    BY <2>6, LenProperties
  <2> QED
    BY <1>4, <2>2, <2>4, <2>6, <2>7
<1>9. Emitted = emitted /\ Emitted' = emitted
  BY <1>0, <1>6 DEF Emitted
<1>10. TypeInv'
  BY <1>0, <1>3, <1>6, <1>7, <1>8 DEF TypeInv, Phases
<1>11. JumpsApart'
  BY <1>0, <1>6, <1>9 DEF JumpsApart
<1>12. RecordsInv'
  <2>1. UNCHANGED <<jumps, goal>> /\ Emitted' = Emitted
    BY <1>6, <1>9
  <2>2. DOMAIN records = 1..R /\ DOMAIN records' = 1..R
    BY <1>2, <1>8
  <2>3. \A a \in 1..R :
           /\ records'[a].from = records[a].from /\ records'[a].to = records[a].to
           /\ records'[a].typ = records[a].typ /\ records'[a].subject = records[a].subject
           /\ records'[a].kind = records[a].kind /\ records'[a].sense = records[a].sense
    BY <1>8
  <2> QED
    BY <1>0, <2>1, <2>2, <2>3 DEF RecordsInv
<1>13. CopyingInv'
  <2>1. ASSUME NEW a \in 1..R
        PROVE  IF a < at + 1 THEN Typed(a)' ELSE f <= records'[a].from
    <3>1. CASE a < at
      BY <1>0, <1>2, <1>3, <1>8, <3>1 DEF CopyingInv, Typed
    <3>2. CASE a = at
      BY <1>3, <1>8, <3>2 DEF Typed
    <3>3. CASE a > at
      BY <1>0, <1>2, <1>3, <1>4, <1>8, <3>3 DEF CopyingInv
    <3> QED
      BY <1>3, <3>1, <3>2, <3>3
  <2>2. \A a, b \in 1..R : a < b => records'[a].from <= records'[b].from
    BY <1>0, <1>2, <1>8 DEF CopyingInv
  <2>3. 1 <= f /\ f <= emitted + 1 /\ 1 <= at + 1 /\ at + 1 <= R + 1
    BY <1>0, <1>3, <1>4, <1>5 DEF CopyingInv
  <2>4. DOMAIN storage' = 1..L
    BY <1>7, LenProperties
  <2>5. \A n \in DOMAIN storage' :
          IF n < read' THEN AsAssembled(code, n)' /\ storage'[n] = <<"offset", 0>>
          ELSE AsAssembled(storage, n)'
    BY <1>6, <1>7, <2>4
  <2>6. \A a \in DOMAIN records' : IF a < at' THEN Typed(a)' ELSE read' <= records'[a].from
    BY <1>6, <1>8, <2>1
  <2>7. /\ Len(code') = Len(storage') /\ emitted' <= Len(code')
        /\ read' = write' /\ 1 <= read' /\ read' <= emitted' + 1
        /\ 1 <= at' /\ at' <= Len(records') + 1
    BY <1>5, <1>6, <1>7, <1>8, <2>3
  <2> QED
    BY <1>8, <2>2, <2>5, <2>6, <2>7 DEF CopyingInv
<1> QED
  BY <1>6, <1>10, <1>11, <1>12, <1>13 DEF LInv

(* Where a jump starts and ends; all between two jumps is outside of them. *)
LEMMA InsideEnds ==
  ASSUME jumps \in Seq(JumpType), NEW n \in Inside
  PROVE  \E k \in DOMAIN jumps :
           n = First(jumps[k]) \/ (n = jumps[k].label /\ ~Always(jumps[k]))
<1>1. PICK k \in DOMAIN jumps : n \in First(jumps[k])..jumps[k].label
  BY DEF Inside, Occupied
<1> QED
  BY <1>1, JumpPlaces

LEMMA TailCopied ==
  ASSUME LInv, CopyTail
  PROVE  /\ storage' \in Seq(Insns) /\ code' \in Seq(Insns)
         /\ Len(storage') = Len(storage) /\ Len(code') = Len(storage)
         /\ \A n \in DOMAIN storage : AsAssembled(code, n)' /\ storage'[n] = <<"offset", 0>>
<1>0. TypeInv /\ CopyingInv /\ phase = "copying"
  BY DEF LInv, CopyTail
<1>1. PICK L \in Nat : L = Len(storage) /\ DOMAIN storage = 1..L
  BY <1>0 DEF TypeInv
<1>2. L + 1 \in Int /\ read <= L + 1
  BY <1>0, <1>1 DEF TypeInv, CopyingInv
<1>3. /\ storage' \in Seq(Insns) /\ code' \in Seq(Insns)
      /\ Len(storage') = L /\ Len(code') = L
      /\ \A n \in 1..L :
           IF n < L + 1 THEN AsAssembled(code, n)' /\ storage'[n] = <<"offset", 0>>
           ELSE AsAssembled(storage, n)'
  BY <1>0, <1>1, <1>2, RegionCopied DEF CopyTail
<1>4. \A n \in 1..L : n < L + 1
  OBVIOUS
<1> QED
  BY <1>1, <1>3, <1>4

LEMMA CopyTailStep ==
  ASSUME LInv, CopyTail
  PROVE  LInv'
<1>0. TypeInv /\ JumpsApart /\ RecordsInv /\ CopyingInv /\ phase = "copying"
  BY DEF LInv, CopyTail
<1>1. PICK L \in Nat : L = Len(storage) /\ DOMAIN storage = 1..L
  BY <1>0 DEF TypeInv
<1>2. PICK R \in Nat : R = Len(records) /\ DOMAIN records = 1..R
  BY <1>0 DEF TypeInv
<1>3. /\ code' = Copied(L + 1) /\ storage' = record_link_offsets(read, L + 1, read - write)
      /\ at' = 1 /\ phase' = "linking"
      /\ UNCHANGED <<jumps, records, goal, read, write, emitted>>
  BY <1>1 DEF CopyTail
<1>4. /\ storage' \in Seq(Insns) /\ code' \in Seq(Insns)
      /\ Len(storage') = L /\ Len(code') = L
      /\ \A n \in 1..L : AsAssembled(code, n)' /\ storage'[n] = <<"offset", 0>>
  BY <1>1, TailCopied
<1>5. Emitted = emitted /\ Emitted' = emitted /\ emitted <= L
  BY <1>0, <1>1, <1>3 DEF Emitted, CopyingInv
<1>6. TypeInv'
  BY <1>0, <1>3, <1>4 DEF TypeInv, Phases
<1>7. JumpsApart'
  BY <1>0, <1>3, <1>5 DEF JumpsApart
<1>8. RecordsInv'
  BY <1>0, <1>3, <1>5 DEF RecordsInv
<1>9. LinkingInv'
  <2>1. \A a \in 1..R : Typed(a)'
    <3>1. \A a \in 1..R : a < at
      BY <1>0, <1>2 DEF CopyTail, TypeInv
    <3> QED
      BY <1>0, <1>2, <1>3, <3>1 DEF CopyingInv, Typed
  <2>2. DOMAIN storage' = 1..L
    BY <1>4, LenProperties
  <2>3. 1 <= at' /\ at' <= R + 1 /\ Len(records') = R /\ DOMAIN records' = 1..R
    BY <1>2, <1>3
  <2> QED
    BY <1>4, <2>1, <2>2, <2>3 DEF LinkingInv
<1>10. KeptInv'
  <2>1. DOMAIN code' = 1..L
    BY <1>4, LenProperties
  <2>2. \A n \in 1..L : n \notin Inside' => Plain(code, n)'
    BY <1>4 DEF AsAssembled
  <2>3. ASSUME NEW n \in 1..L, IsBranch(code'[n])
        PROVE  \E k \in DOMAIN jumps : n = First(jumps[k]) /\ ~Always(jumps[k])
    <3>1. n \in Inside
      <4>1. ~Plain(code, n)'
        BY <2>3 DEF Plain, IsBranch
      <4> QED
        BY <1>3, <2>2, <4>1 DEF Inside
    <3>2. PICK k \in DOMAIN jumps : n = First(jumps[k]) \/ (n = jumps[k].label /\ ~Always(jumps[k]))
      BY <1>0, <3>1, InsideEnds DEF TypeInv
    <3>3. /\ n = First(jumps[k]) => code'[n] = Unlinked(k)
          /\ n = jumps[k].label /\ ~Always(jumps[k]) => code'[n] = <<"nop">>
      BY <1>3, <1>4 DEF AsAssembled, Unlinked
    <3> QED
      BY <2>3, <3>2, <3>3 DEF Unlinked, IsBranch
  <2> QED
    BY <1>3, <1>4, <1>5, <2>1, <2>2, <2>3 DEF KeptInv
<1> QED
  BY <1>3, <1>6, <1>7, <1>8, <1>9, <1>10 DEF LInv

-------------------------------------------------------------------------------
(* Linking *)

(* Where the instructions of a jump are, once the code has been copied.    *)
LEMMA JumpInCode ==
  ASSUME TypeInv, JumpsApart, KeptInv, phase \in {"linking", "linked"},
         NEW k \in DOMAIN jumps
  PROVE  /\ jumps[k].label \in 1..Len(code) /\ First(jumps[k]) \in 1..Len(code)
         /\ DOMAIN code = 1..Len(code)
<1>1. jumps[k].label <= emitted /\ 1 <= First(jumps[k]) /\ emitted <= Len(code)
  BY DEF JumpsApart, KeptInv, Emitted
<1>2. Len(code) \in Nat /\ emitted \in Int /\ DOMAIN code = 1..Len(code)
  BY DEF TypeInv
<1> QED
  BY <1>1, <1>2, JumpPlaces DEF TypeInv

(* A jump is linked within its own instructions.                           *)
LEMMA LinkKeeps ==
  ASSUME TypeInv, JumpsApart, KeptInv, phase \in {"linking", "linked"},
         UNCHANGED <<jumps, phase, emitted>>, NEW k \in DOMAIN jumps, NEW to \in Int,
         \/ code' = link_jump_or_call(code, jumps[k].label, to)
         \/ /\ ~Always(jumps[k])
            /\ \E kind \in Kinds, subject \in Int, sense \in BOOLEAN :
                 code' = LinkBranch(code, kind, subject, sense, jumps[k].label - 1, to)
  PROVE  /\ code' \in Seq(Insns) /\ Len(code') = Len(code) /\ KeptInv'
<1>1. PICK C \in Nat : C = Len(code) /\ DOMAIN code = 1..C
  BY DEF TypeInv
<1>2. PICK f \in 1..C, l \in 1..C :
        /\ f = First(jumps[k]) /\ l = jumps[k].label
        /\ f = IF Always(jumps[k]) THEN l ELSE l - 1
  BY <1>1, JumpInCode, JumpPlaces DEF TypeInv
<1>3. /\ code' \in Seq(Insns) /\ Len(code') = C
      /\ \A n \in 1..C : n \notin f..l => code'[n] = code[n]
      /\ ~IsBranch(code'[l])
  <2>1. code \in Seq(Insns)
    BY DEF TypeInv
  <2>2. CASE code' = link_jump_or_call(code, jumps[k].label, to)
    <3>1. /\ code' \in Seq(Insns) /\ Len(code') = C
          /\ \A n \in 1..C : n # l => code'[n] = code[n]
          /\ ~IsBranch(code'[l])
      BY <1>1, <1>2, <2>1, <2>2, JumpTouches
    <3>2. l \in f..l
      BY <1>2
    <3> QED
      BY <3>1, <3>2
  <2>3. ASSUME ~Always(jumps[k]), NEW kind \in Kinds, NEW subject \in Int, NEW sense \in BOOLEAN,
               code' = LinkBranch(code, kind, subject, sense, jumps[k].label - 1, to)
        PROVE  /\ code' \in Seq(Insns) /\ Len(code') = C
               /\ \A n \in 1..C : n \notin f..l => code'[n] = code[n]
               /\ ~IsBranch(code'[l])
    <3>1. f + 1 = l /\ f = jumps[k].label - 1
      BY <1>2, <2>3
    <3>2. /\ code' \in Seq(Insns) /\ Len(code') = C
          /\ \A n \in 1..C : n # f /\ n # f + 1 => code'[n] = code[n]
          /\ ~IsBranch(code'[f + 1])
      <4>1. PICK near \in Insns, far \in Insns :
              LinkBranch(code, kind, subject, sense, f, to) = Branched(code, f, near, far, Bits[kind], to)
        <5>1. f \in Int
          OBVIOUS
        <5> QED
          BY <2>3, <5>1, BranchForms
      <4> QED
        <5>1. code' = Branched(code, f, near, far, Bits[kind], to)
          BY <2>3, <3>1, <4>1
        <5>2. f \in 1..Len(code) /\ f + 1 \in 1..Len(code)
          BY <1>1, <1>2, <3>1
        <5> QED
          BY <1>1, <2>1, <5>1, <5>2, BranchTouches
    <3>3. f \in f..l /\ f + 1 \in f..l
      BY <1>2, <3>1
    <3> QED
      BY <3>1, <3>2, <3>3
  <2> QED
    BY <2>2, <2>3
<1>4. DOMAIN code' = 1..C
  BY <1>3, LenProperties
<1>5. Inside' = Inside /\ Emitted' = Emitted /\ f..l \subseteq Inside
  <2>1. Inside' = Inside /\ Emitted' = Emitted
    BY DEF Inside, Emitted
  <2> QED
    BY <1>2, <2>1 DEF Inside, Occupied
<1>6. \A n \in 1..C : n \notin Inside => Plain(code, n)'
  <2>1. ASSUME NEW n \in 1..C, n \notin Inside PROVE Plain(code, n)'
    <3>1. Plain(code, n) /\ code'[n] = code[n]
      BY <1>1, <1>3, <1>5, <2>1 DEF KeptInv
    <3> QED
      BY <1>5, <3>1 DEF Plain
  <2> QED
    BY <2>1
<1>7. ASSUME NEW n \in 1..C, IsBranch(code'[n])
      PROVE  \E j \in DOMAIN jumps : n = First(jumps[j]) /\ ~Always(jumps[j])
  <2>1. CASE n \notin f..l
    BY <1>1, <1>3, <1>7, <2>1 DEF KeptInv
  <2>2. CASE n \in f..l
    <3>1. n # l
      BY <1>3, <1>7
    <3>2. n = f /\ ~Always(jumps[k])
      BY <1>2, <2>2, <3>1
    <3> QED
      BY <1>2, <3>2
  <2> QED
    BY <2>1, <2>2
<1>8. emitted' <= Len(code')
  BY <1>1, <1>3 DEF KeptInv
<1> QED
  BY <1>1, <1>3, <1>4, <1>5, <1>6, <1>7, <1>8 DEF KeptInv

(* Nothing has moved, so that a target is where it was assembled.          *)
LEMMA NothingMoved ==
  ASSUME LInv, phase = "linking", NEW a \in DOMAIN records
  PROVE  executable_offset_for(records[a].to) = 0
<1>1. TypeInv /\ RecordsInv /\ LinkingInv /\ KeptInv
  BY DEF LInv
<1>2. PICK to \in Int : to = records[a].to /\ 1 <= to /\ to <= emitted + 1
  BY <1>1, RecordFields DEF RecordsInv, Emitted, TypeInv
<1>3. to # 1 => to - 1 \in DOMAIN storage
  <2>1. emitted <= Len(storage) /\ emitted \in Int /\ Len(storage) \in Nat
        /\ DOMAIN storage = 1..Len(storage)
    BY <1>1 DEF TypeInv, LinkingInv, KeptInv
  <2> QED
    BY <1>2, <2>1
<1>4. to # 1 => storage[to - 1][1] = "offset" /\ storage[to - 1][2] = 0
  BY <1>1, <1>3 DEF LinkingInv
<1> QED
  BY <1>2, <1>4 DEF executable_offset_for

(* How a record is linked: by the form for the type of its jump.           *)
LEMMA LinkRecordForm ==
  ASSUME LInv, LinkRecord
  PROVE  \E k \in DOMAIN jumps, to \in Int :
           /\ records[at].subject = k /\ to = goal[k] /\ to = records[at].to
           /\ 1 <= to /\ to <= emitted + 1
           /\ code' = IF Always(jumps[k]) THEN link_jump_or_call(code, jumps[k].label, to)
                      ELSE LinkBranch(code, jumps[k].kind, k, jumps[k].sense,
                                      jumps[k].label - 1, to)
<1>0. TypeInv /\ RecordsInv /\ LinkingInv /\ phase = "linking"
  BY DEF LInv, LinkRecord
<1>1. at \in DOMAIN records
  BY <1>0 DEF LinkRecord, LinkingInv, TypeInv
<1>2. PICK r : r = records[at]
  OBVIOUS
<1>3. PICK k \in DOMAIN jumps : k = r.subject
  BY <1>0, <1>1, <1>2 DEF RecordsInv
<1>4. PICK to \in Int : to = r.to
  BY <1>0, <1>1, <1>2, RecordFields DEF TypeInv
<1>5. /\ r.from = jumps[k].label /\ r.typ = jumps[k].typ /\ r.kind = jumps[k].kind
      /\ r.sense = jumps[k].sense /\ to = goal[k] /\ 1 <= to /\ to <= emitted + 1
  BY <1>0, <1>1, <1>2, <1>3, <1>4 DEF RecordsInv, Emitted
<1>6. r.link_type = "NoCondition" <=> Always(jumps[k])
  <2>1. r.link_type = LinkTypeOf[r.typ] /\ r.typ \in Types
    BY <1>0, <1>1, <1>2, RecordFields DEF LinkingInv, Typed, TypeInv
  <2> QED
    BY <1>5, <2>1 DEF LinkTypeOf, Types, Always
<1>7. to - executable_offset_for(r.to) = to
  BY <1>0, <1>1, <1>2, <1>4, NothingMoved
<1>8. code' = IF r.link_type = "NoCondition" THEN link_jump_or_call(code, r.from, to)
              ELSE LinkBranch(code, r.kind, r.subject, r.sense, r.from - 1, to)
  BY <1>2, <1>4, <1>7 DEF LinkRecord
<1> QED
  BY <1>2, <1>3, <1>4, <1>5, <1>6, <1>8

LEMMA LinkRecordStep ==
  ASSUME LInv, LinkRecord
  PROVE  LInv'
<1>0. TypeInv /\ JumpsApart /\ RecordsInv /\ LinkingInv /\ KeptInv /\ phase = "linking"
  BY DEF LInv, LinkRecord
<1>1. /\ at <= Len(records) /\ at' = at + 1 /\ phase' = "linking"
      /\ UNCHANGED <<storage, jumps, records, goal, phase, read, write, emitted>>
  BY <1>0 DEF LinkRecord
<1>2. code' \in Seq(Insns) /\ Len(code') = Len(code) /\ KeptInv'
  <2>1. PICK k \in DOMAIN jumps, to \in Int :
          code' = IF Always(jumps[k]) THEN link_jump_or_call(code, jumps[k].label, to)
                  ELSE LinkBranch(code, jumps[k].kind, k, jumps[k].sense, jumps[k].label - 1, to)
    BY LinkRecordForm
  <2>2. k \in Int /\ jumps[k].sense \in BOOLEAN /\ (~Always(jumps[k]) => jumps[k].kind \in Kinds)
    BY <1>0, JumpPlaces DEF TypeInv, JumpsApart
  <2> QED
    BY <1>0, <1>1, <2>1, <2>2, LinkKeeps
<1>3. Emitted' = Emitted
  BY <1>1 DEF Emitted
<1>4. TypeInv'
  BY <1>0, <1>1, <1>2 DEF TypeInv
<1>5. JumpsApart' /\ RecordsInv'
  BY <1>0, <1>1, <1>3 DEF JumpsApart, RecordsInv
<1>6. LinkingInv'
  <2>1. 1 <= at + 1 /\ at + 1 <= Len(records) + 1
    BY <1>0, <1>1 DEF TypeInv, LinkingInv
  <2> QED
    BY <1>0, <1>1, <1>2, <2>1 DEF LinkingInv, Typed
<1> QED
  BY <1>1, <1>2, <1>4, <1>5, <1>6 DEF LInv

LEMMA LinkedStep ==
  ASSUME LInv, Linked
  PROVE  LInv'
<1>1. /\ phase = "linking" /\ phase' = "linked"
      /\ UNCHANGED <<storage, jumps, records, goal, code, read, write, at, emitted>>
  BY DEF Linked, linking
<1>2. Emitted' = Emitted /\ Inside' = Inside
  BY <1>1 DEF Emitted, Inside
<1>3. TypeInv'
  BY <1>1 DEF LInv, TypeInv, Phases
<1>4. JumpsApart'
  BY <1>1, <1>2 DEF LInv, JumpsApart
<1>5. KeptInv'
  BY <1>1, <1>2 DEF LInv, KeptInv, Plain
<1> QED
  BY <1>1, <1>3, <1>4, <1>5 DEF LInv

(* What relink_jump finds before the label of a jump is its own branch.    *)
LEMMA RelinkForm ==
  ASSUME LInv, phase = "linked", NEW k \in DOMAIN jumps, NEW to \in Int,
         code' = relink_jump(code, jumps[k].label, to)
  PROVE  \/ /\ code' = link_jump_or_call(code, jumps[k].label, to)
            /\ ~Always(jumps[k]) => ~IsBranch(code[First(jumps[k])])
         \/ /\ ~Always(jumps[k]) /\ IsBranch(code[First(jumps[k])])
            /\ \E b \in Insns :
                 /\ b = code[First(jumps[k])]
                 /\ b[2] \in Kinds /\ b[3] \in Int /\ b[4] \in BOOLEAN
                 /\ \E sense \in BOOLEAN :
                      /\ b[5] # Skip => sense = b[4]
                      /\ code' = LinkBranch(code, b[2], b[3], sense, jumps[k].label - 1, to)
<1>0. TypeInv /\ JumpsApart /\ KeptInv
  BY DEF LInv
<1>1. PICK l \in 1..Len(code) : l = jumps[k].label /\ DOMAIN code = 1..Len(code)
  BY <1>0, JumpInCode
<1>2. Len(code) \in Nat
  BY <1>0 DEF TypeInv
<1>3. CASE l > 1 /\ IsBranch(code[l - 1])
  <2>1. l - 1 \in DOMAIN code
    BY <1>1, <1>2, <1>3
  <2>2. PICK j \in DOMAIN jumps : l - 1 = First(jumps[j]) /\ ~Always(jumps[j])
    BY <1>0, <1>3, <2>1 DEF KeptInv
  <2>3. jumps[j].label = l
    <3>1. jumps[j].label \in Int /\ First(jumps[j]) = jumps[j].label - 1
      BY <1>0, <2>2, JumpPlaces DEF TypeInv
    <3> QED
      BY <1>1, <2>2, <3>1
  <2>4. j = k
    <3>1. /\ j \in Int /\ k \in Int /\ First(jumps[k]) <= l /\ First(jumps[j]) <= l
          /\ First(jumps[k]) \in Int /\ First(jumps[j]) \in Int
      BY <1>0, <1>1, <2>3, JumpPlaces DEF TypeInv
    <3>2. ~(j < k) /\ ~(k < j)
      BY <1>0, <1>1, <2>3, <3>1 DEF JumpsApart
    <3> QED
      BY <3>1, <3>2
  <2>5. PICK b \in Insns : b = code[l - 1]
    BY <1>0, <1>1, <2>1, ElementOfSeq DEF TypeInv
  <2>6. b[2] \in Kinds /\ b[3] \in Int /\ b[4] \in BOOLEAN
    BY <1>3, <2>5, BranchType
  <2>7. PICK sense \in BOOLEAN : sense = IF b[5] = Skip THEN ~b[4] ELSE b[4]
    <3>1. b[4] = TRUE \/ b[4] = FALSE
      BY <2>6
    <3> QED
      BY <3>1
  <2>8. code' = LinkBranch(code, b[2], b[3], sense, l - 1, to)
    BY <1>1, <1>3, <2>5, <2>7 DEF relink_jump
  <2> QED
    BY <1>1, <1>3, <2>2, <2>4, <2>5, <2>6, <2>7, <2>8
<1>4. CASE ~(l > 1 /\ IsBranch(code[l - 1]))
  <2>1. code' = link_jump_or_call(code, l, to)
    BY <1>1, <1>4 DEF relink_jump
  <2>2. ASSUME ~Always(jumps[k]) PROVE ~IsBranch(code[First(jumps[k])])
    <3>1. First(jumps[k]) = l - 1 /\ 1 <= l - 1
      BY <1>0, <1>1, <2>2, JumpPlaces DEF TypeInv, JumpsApart
    <3> QED
      BY <1>1, <1>4, <3>1
  <2> QED
    BY <1>1, <2>1, <2>2
<1> QED
  BY <1>3, <1>4

LEMMA RelinkStep ==
  ASSUME LInv, NEW k \in DOMAIN jumps, NEW to \in Outside \union Labels,
         LinkJump(k, to) \/ RepatchJump(k, to)
  PROVE  LInv'
<1>0. TypeInv /\ JumpsApart /\ KeptInv /\ phase = "linked"
  BY DEF LInv, LinkJump, RepatchJump
<1>1. to \in Int
  BY LinkAssumption DEF LinkAssumption, Labels
<1>2. /\ phase' = "linked" /\ goal' = [goal EXCEPT ![k] = to]
      /\ UNCHANGED <<storage, jumps, records, phase, read, write, at, emitted>>
  BY <1>0 DEF LinkJump, RepatchJump, Relinked
<1>3. code' \in Seq(Insns) /\ Len(code') = Len(code) /\ KeptInv'
  <2>1. CASE LinkJump(k, to)
    <3>1. code' = link_jump_or_call(code, jumps[k].label, to)
      BY <2>1 DEF LinkJump, Relinked
    <3> QED
      BY <1>0, <1>1, <1>2, <3>1, LinkKeeps
  <2>2. CASE RepatchJump(k, to)
    <3>1. code' = relink_jump(code, jumps[k].label, to)
      BY <2>2 DEF RepatchJump, Relinked
    <3>2. \/ code' = link_jump_or_call(code, jumps[k].label, to)
          \/ /\ ~Always(jumps[k])
             /\ \E kind \in Kinds, subject \in Int, sense \in BOOLEAN :
                  code' = LinkBranch(code, kind, subject, sense, jumps[k].label - 1, to)
      BY <1>0, <1>1, <3>1, RelinkForm
    <3> QED
      BY <1>0, <1>1, <1>2, <3>2, LinkKeeps
  <2> QED
    BY <2>1, <2>2
<1>4. k \in 1..Len(goal)
  BY <1>0 DEF TypeInv
<1>5. goal' \in Seq(Int) /\ Len(goal') = Len(goal)
  BY <1>0, <1>1, <1>2, <1>4, ExceptSeq DEF TypeInv
<1>6. TypeInv'
  BY <1>0, <1>2, <1>3, <1>5 DEF TypeInv
<1>7. JumpsApart'
  BY <1>0, <1>2 DEF JumpsApart, Emitted
<1> QED
  BY <1>2, <1>3, <1>6, <1>7 DEF LInv

-------------------------------------------------------------------------------

LEMMA LInvStep == LInv /\ [Next]_vars => LInv'
<1> SUFFICES ASSUME LInv, [Next]_vars PROVE LInv'
  OBVIOUS
<1>1. CASE Insn
  BY <1>1, InsnStep
<1>2. CASE MakeJump \/ MakeBranch
  BY <1>2, MakeStep
<1>3. CASE Link
  BY <1>3, LinkStep DEF Link
<1>4. CASE AllocateAnew \/ \E room \in Rooms : AllocateIn(room)
  BY <1>4, AllocatesStep
<1>5. CASE \E room \in Rooms : FailToAllocate(room)
  BY <1>5, FailStep
<1>6. CASE CopyRegion
  BY <1>6, CopyRegionStep
<1>7. CASE CopyTail
  BY <1>7, CopyTailStep
<1>8. CASE LinkRecord
  BY <1>8, LinkRecordStep
<1>9. CASE Linked
  BY <1>9, LinkedStep
<1>10. CASE \E k \in DOMAIN jumps, to \in Outside \union Labels : LinkJump(k, to) \/ RepatchJump(k, to)
  BY <1>10, RelinkStep
<1>11. CASE UNCHANGED vars
  BY <1>11 DEF vars, LInv, TypeInv, JumpsApart, RecordsInv, AssemblingInv, CopyingInv, LinkingInv,
               KeptInv, Emitted, AsAssembled, Plain, Unlinked, Inside, Typed
<1> QED
  BY <1>1, <1>2, <1>3, <1>4, <1>5, <1>6, <1>7, <1>8, <1>9, <1>10, <1>11 DEF Next

LEMMA LInvInductive == Spec => []LInv
BY InitLInv, LInvStep, PTL DEF Spec

(* Copying the code out of a buffer that is being written over, and        *)
(* linking and relinking its jumps, also those that LinkBuffer::link_jump  *)
(* and repatch_jump get wrong, keep every other instruction in its place.  *)
THEOREM Kept == Spec => []CodeKept
<1>1. LInv => CodeKept
  <2> SUFFICES ASSUME LInv, phase \in {"linking", "linked"}
               PROVE  /\ Len(code) >= emitted
                      /\ \A n \in 1..emitted \ Inside : code[n] = <<"other", n>>
    BY DEF CodeKept
  <2>1. /\ TypeInv /\ KeptInv /\ Emitted = emitted
        /\ Len(code) \in Nat /\ emitted \in Int /\ DOMAIN code = 1..Len(code)
    BY DEF LInv, TypeInv, Emitted
  <2>2. Len(code) >= emitted
    BY <2>1 DEF KeptInv
  <2>3. \A n \in 1..emitted \ Inside : n \in DOMAIN code /\ ~(n > Emitted)
    BY <2>1, <2>2
  <2> QED
    BY <2>1, <2>2, <2>3 DEF KeptInv, Plain
<1> QED
  BY <1>1, LInvInductive, PTL

-------------------------------------------------------------------------------
(* Where the jumps lead: when all that is linked lies within the reach of  *)
(* the unconditional branch, and LinkBuffer::link_jump and repatch_jump    *)
(* are used with care.                                                     *)
BoundsInv == Emitted <= MaxCode /\ Len(storage) < Reach26

(* A jump that leads to g: at once; or over its nop; or, inverted, over a  *)
(* branch that does.                                                       *)
LeadsTo(k, g) ==
  LET j == jumps[k] IN
  IF Always(j) THEN code[j.label] = <<"b", IF g = Nowhere THEN 0 ELSE g - j.label>>
  ELSE \/ /\ code[First(j)] =
               <<"branch", j.kind, k, j.sense, IF g = Nowhere THEN 0 ELSE g - First(j)>>
          /\ code[j.label] = <<"nop">>
       \/ /\ g # Nowhere
          /\ code[First(j)] = <<"branch", j.kind, k, Opposite(j.sense), 2>>
          /\ code[j.label] = <<"b", g - j.label>>

(* What a jump leads to when the first records have been linked.           *)
Aim(k) ==
  IF phase = "linking" /\ (\A a \in 1..(at - 1) : records[a].subject # k)
  THEN Nowhere ELSE goal[k]

LeadInv == phase \in {"linking", "linked"} => \A k \in DOMAIN jumps : LeadsTo(k, Aim(k))

(* The code and its padding stay within the bounds of the client.          *)
LEMMA BoundsStep ==
  ASSUME WithinReach, LInv, BoundsInv, [Next]_vars
  PROVE  BoundsInv'
<1>0. TypeInv /\ Len(storage) \in Nat /\ MaxCode < Reach26 /\ MaxCode \in Nat /\ Reach26 \in Nat
  BY LinkAssumption DEF LinkAssumption, WithinReach, LInv, TypeInv
<1>1. CASE phase' = "assembling" /\ Len(storage') <= MaxCode
  BY <1>0, <1>1 DEF BoundsInv, Emitted
<1>2. CASE Insn
  <2>1. Len(storage') = Len(storage) + 1
    BY <1>0, <1>2 DEF Insn, TypeInv
  <2> QED
    BY <1>0, <1>1, <1>2, <2>1 DEF Insn, label
<1>3. CASE MakeJump
  <2>1. Len(storage \o <<<<"b", 0>>>>) = Len(storage) + 1
    BY <1>0 DEF TypeInv
  <2> QED
    BY <1>0, <1>1, <1>3, <2>1 DEF MakeJump, Made
<1>4. CASE MakeBranch
  <2>1. PICK kind \in DOMAIN TypeOf, sense \in BOOLEAN :
          Made(<<<<"branch", kind, Len(jumps) + 1, sense, 0>>, <<"nop">>>>,
               TypeOf[kind], kind, sense, label + 1)
    BY <1>4 DEF MakeBranch
  <2>2. PICK i : i = <<"branch", kind, Len(jumps) + 1, sense, 0>>
    OBVIOUS
  <2>3. Len(storage \o <<i, <<"nop">>>>) = Len(storage) + 2 /\ Len(<<i, <<"nop">>>>) = 2
    BY <1>0 DEF TypeInv
  <2>4. storage' = storage \o <<i, <<"nop">>>> /\ Len(storage) + 2 <= MaxCode /\ phase' = "assembling"
    BY <2>1, <2>2, <2>3 DEF Made
  <2> QED
    BY <1>1, <2>3, <2>4
<1>5. CASE Link
  BY <1>5 DEF Link, LinkTo, BoundsInv, Emitted
<1>6. ASSUME phase = "assembling", NEW size \in Nat, Len(storage) <= size, size < Reach26,
             NEW padding, Allocated(size, padding)
      PROVE  BoundsInv'
  <2>1. PICK P \in Nat : P = size - Len(storage)
    BY <1>0, <1>6
  <2>2. PICK pad : pad = [n \in 1..P |-> padding]
    OBVIOUS
  <2>3. storage' = storage \o pad /\ emitted' = Len(storage) /\ phase' = "copying"
    BY <1>6, <2>1, <2>2 DEF Allocated
  <2>4. pad \in Seq({padding}) /\ Len(pad) = P
    BY <2>2
  <2>5. PICK S : storage \in Seq(S) /\ pad \in Seq(S)
    <3>1. storage \in Seq(Insns \union {padding})
      <4>1. Insns \subseteq Insns \union {padding}
        OBVIOUS
      <4> QED
        BY <1>0, <4>1, SeqMonotonic DEF TypeInv
    <3>2. pad \in Seq(Insns \union {padding})
      <4>1. {padding} \subseteq Insns \union {padding}
        OBVIOUS
      <4> QED
        BY <2>4, <4>1, SeqMonotonic
    <3> QED
      BY <3>1, <3>2
  <2>6. Len(storage') = Len(storage) + P
    BY <2>3, <2>4, <2>5, ConcatProperties
  <2>7. Len(storage') = size /\ Len(storage) <= MaxCode
    BY <1>0, <1>6, <2>1, <2>6 DEF BoundsInv, Emitted
  <2> QED
    BY <1>6, <2>3, <2>7 DEF BoundsInv, Emitted
<1>7. CASE AllocateAnew
  <2>1. Granule \in Nat \ {0} /\ Len(storage) + Granule - 1 < Reach26
    <3>1. Granule \in Nat \ {0} /\ MaxCode + Granule <= Reach26
      BY LinkAssumption DEF LinkAssumption, WithinReach
    <3>2. Len(storage) <= MaxCode
      BY <1>7 DEF AllocateAnew, BoundsInv, Emitted
    <3> QED
      BY <1>0, <3>1, <3>2
  <2>2. PICK N \in Nat : N = Len(storage)
    BY <1>0
  <2>3. PICK q \in Int : q = (N + Granule - 1) \div Granule
    BY <2>1
  <2>4. Granule * q \in Nat /\ N <= Granule * q /\ Granule * q <= N + Granule - 1
    <3>1. PICK m \in Int : m = (N + Granule - 1) % Granule /\ 0 <= m /\ m < Granule
      BY <2>1
    <3>2. N + Granule - 1 = Granule * q + m
      BY <2>1, <2>3, <3>1
    <3>3. PICK s \in Int : s = Granule * q
      BY <2>1, <2>3
    <3> QED
      BY <2>1, <3>1, <3>2, <3>3
  <2>5. PICK size \in Nat : size = Granule * q
    BY <2>4
  <2>6. N <= size /\ size < Reach26
    BY <1>0, <2>1, <2>2, <2>4, <2>5
  <2>7. phase = "assembling" /\ Allocated(size, <<"brk">>)
    BY <1>7, <2>2, <2>3, <2>5 DEF AllocateAnew
  <2> QED
    BY <1>6, <2>2, <2>6, <2>7
<1>8. CASE \E room \in Rooms : AllocateIn(room)
  <2>1. PICK room \in Rooms : AllocateIn(room)
    BY <1>8
  <2>2. room \in Nat /\ room < Reach26
    BY LinkAssumption DEF LinkAssumption, WithinReach
  <2> QED
    BY <1>6, <2>1, <2>2 DEF AllocateIn
<1>9. CASE \E room \in Rooms : FailToAllocate(room)
  BY <1>9 DEF FailToAllocate, linking, BoundsInv, Emitted
<1>10. CASE CopyRegion \/ CopyTail
  <2>1. Len(storage') = Len(storage)
    <3>1. PICK first, end, offset : storage' = record_link_offsets(first, end, offset)
      BY <1>10 DEF CopyRegion, CopyTail
    <3> QED
      BY <1>0, <3>1 DEF record_link_offsets, TypeInv
  <2>2. phase \in {"copying"} /\ phase' \in {"copying", "linking"} /\ emitted' = emitted
    BY <1>10 DEF CopyRegion, CopyTail
  <2> QED
    BY <2>1, <2>2 DEF BoundsInv, Emitted
<1>11. CASE LinkRecord \/ Linked
  BY <1>11 DEF LinkRecord, Linked, linking, BoundsInv, Emitted
<1>12. CASE \E k \in DOMAIN jumps, to \in Outside \union Labels : LinkJump(k, to) \/ RepatchJump(k, to)
  BY <1>12 DEF LinkJump, RepatchJump, Relinked, BoundsInv, Emitted
<1>13. CASE UNCHANGED vars
  BY <1>13 DEF vars, BoundsInv, Emitted
<1> QED
  BY <1>2, <1>3, <1>4, <1>5, <1>7, <1>8, <1>9, <1>10, <1>11, <1>12, <1>13 DEF Next

(* What linking makes of the code, by the form for the jump.               *)
LinkedTo(k, to) ==
  IF Always(jumps[k]) THEN link_jump_or_call(code, jumps[k].label, to)
  ELSE LinkBranch(code, jumps[k].kind, k, jumps[k].sense, jumps[k].label - 1, to)

LEMMA LinkedForms ==
  ASSUME TypeInv, JumpsApart, NEW k \in DOMAIN jumps, ~Always(jumps[k]), NEW to \in Int
  PROVE  \E near \in Insns, far \in Insns :
           LET j == jumps[k] IN
           /\ near = <<"branch", j.kind, k, j.sense, to - First(j)>>
           /\ far = <<"branch", j.kind, k, Opposite(j.sense), 2>>
           /\ LinkedTo(k, to) = Branched(code, First(j), near, far, Bits[j.kind], to)
<1>1. PICK f \in Int : f = First(jumps[k]) /\ f = jumps[k].label - 1
  BY JumpPlaces DEF TypeInv
<1>2. PICK kind \in Kinds, sense \in BOOLEAN :
        kind = jumps[k].kind /\ sense = jumps[k].sense /\ k \in Int
  BY JumpPlaces DEF JumpsApart, TypeInv
<1>3. LinkedTo(k, to) = LinkBranch(code, kind, k, sense, f, to)
  BY <1>1, <1>2 DEF LinkedTo
<1> QED
  BY <1>1, <1>2, <1>3, BranchForms

(* A jump that is linked leads to its target, and no other jump changes.   *)
LEMMA LinkLeads ==
  ASSUME LInv, phase \in {"linking", "linked"}, UNCHANGED jumps,
         NEW k \in DOMAIN jumps, NEW old \in Int, LeadsTo(k, old),
         NEW to \in Int, to # Nowhere, IsInt(Reach26, to - jumps[k].label),
         code' = LinkedTo(k, to)
  PROVE  /\ LeadsTo(k, to)'
         /\ \A j \in DOMAIN jumps, g \in Int : j # k /\ LeadsTo(j, g) => LeadsTo(j, g)'
<1>0. TypeInv /\ JumpsApart /\ KeptInv
  BY DEF LInv
<1>1. PICK C \in Nat : C = Len(code) /\ DOMAIN code = 1..C
  BY <1>0 DEF TypeInv
<1>2. PICK f \in 1..C, l \in 1..C :
        /\ f = First(jumps[k]) /\ l = jumps[k].label
        /\ f = IF Always(jumps[k]) THEN l ELSE l - 1
  BY <1>0, <1>1, JumpInCode, JumpPlaces DEF TypeInv
<1>3. code \in Seq(Insns)
  BY <1>0 DEF TypeInv
<1>4. Field(to - l, Reach26) = to - l
  <2>1. to - l \in Int /\ Reach26 \in Nat \ {0}
    BY <1>2, LinkAssumption DEF LinkAssumption
  <2> QED
    BY <1>2, <2>1, FieldFits
<1>5. code[l][1] \in {"b", "nop"}
  BY <1>2 DEF LeadsTo
<1>6. /\ LeadsTo(k, to)'
      /\ \A n \in 1..C : n # f /\ n # l => code'[n] = code[n]
  <2>1. CASE Always(jumps[k])
    <3>1. /\ \A n \in 1..C : n # l => code'[n] = code[n]
          /\ code'[l] = <<"b", to - l>>
      <4>1. code' = link_jump_or_call(code, l, to) /\ l \in 1..Len(code)
        BY <1>1, <1>2, <2>1 DEF LinkedTo
      <4> QED
        BY <1>1, <1>3, <1>4, <1>5, <4>1, JumpTouches
    <3> QED
      BY <1>2, <2>1, <3>1 DEF LeadsTo
  <2>2. CASE ~Always(jumps[k])
    <3>1. PICK near \in Insns, far \in Insns :
            /\ near = <<"branch", jumps[k].kind, k, jumps[k].sense, to - f>>
            /\ far = <<"branch", jumps[k].kind, k, Opposite(jumps[k].sense), 2>>
            /\ LinkedTo(k, to) = Branched(code, f, near, far, Bits[jumps[k].kind], to)
      BY <1>0, <1>2, <2>2, LinkedForms
    <3>2. f \in 1..Len(code) /\ l \in 1..Len(code) /\ l = f + 1
      BY <1>1, <1>2, <2>2
    <3>3. PICK d, reach : d = code' /\ d = Branched(code, f, near, far, reach, to)
      BY <3>1
    <3>4. PICK c, jump :
            /\ c = code /\ c \in Seq(Insns)
            /\ jump = <<"b", Field(to - l, Reach26)>> /\ jump = <<"b", to - l>>
      BY <1>3, <1>4
    <3>5. /\ \A n \in 1..Len(c) : n # f /\ n # l => d[n] = c[n]
          /\ \/ d[f] = near /\ d[l] = <<"nop">>
             \/ d[f] = far /\ d[l] = jump
      <4>1. /\ f \in 1..Len(c) /\ l \in 1..Len(c) /\ l = f + 1
            /\ c[l][1] \in {"b", "nop"}
        BY <1>5, <3>2, <3>4
      <4>2. d = Branched(c, f, near, far, reach, to) /\ jump = <<"b", Field(to - l, Reach26)>>
        BY <3>3, <3>4
      <4>3. (d[f] = near /\ d[l] = <<"nop">>) \/ (d[f] = far /\ d[l] = jump)
        BY <3>4, <4>1, <4>2, BranchWrites, SMTT(30)
      <4>4. \A n \in 1..Len(c) : n # f /\ n # l => d[n] = c[n]
        BY <3>4, <4>1, <4>2, BranchWrites, SMTT(30)
      <4> QED
        BY <4>3, <4>4
    <3>6. LeadsTo(k, to)'
      BY <1>2, <2>2, <3>1, <3>3, <3>4, <3>5 DEF LeadsTo
    <3> QED
      BY <1>1, <3>3, <3>4, <3>5, <3>6
  <2> QED
    BY <2>1, <2>2
<1>7. ASSUME NEW j \in DOMAIN jumps, NEW g \in Int, j # k, LeadsTo(j, g)
      PROVE  LeadsTo(j, g)'
  <2>1. PICK F \in 1..C, M \in 1..C :
          F = First(jumps[j]) /\ M = jumps[j].label /\ F <= M
    BY <1>0, <1>1, JumpInCode, JumpPlaces DEF TypeInv
  <2>2. F # f /\ F # l /\ M # f /\ M # l
    <3>1. j \in Int /\ k \in Int /\ f <= l
      BY <1>0, <1>2, JumpPlaces DEF TypeInv
    <3>2. (j < k => M < f) /\ (k < j => l < F)
      BY <1>0, <1>2, <2>1 DEF JumpsApart
    <3> QED
      BY <1>7, <2>1, <3>1, <3>2
  <2>3. code'[F] = code[F] /\ code'[M] = code[M]
    BY <1>6, <2>1, <2>2
  <2> QED
    BY <1>7, <2>1, <2>3 DEF LeadsTo
<1> QED
  BY <1>6, <1>7

LEMMA TailLeads ==
  ASSUME LInv, CopyTail
  PROVE  LeadInv'
<1>0. TypeInv /\ JumpsApart /\ CopyingInv /\ phase = "copying"
  BY DEF LInv, CopyTail
<1>1. at' = 1 /\ phase' = "linking" /\ UNCHANGED <<jumps, records, emitted>>
  BY DEF CopyTail
<1>2. \A n \in DOMAIN storage : AsAssembled(code, n)'
  BY TailCopied
<1>3. ASSUME NEW k \in DOMAIN jumps PROVE LeadsTo(k, Nowhere)'
  <2>1. First(jumps[k]) \in DOMAIN storage /\ jumps[k].label \in DOMAIN storage
    <3>1. 1 <= First(jumps[k]) /\ jumps[k].label <= emitted /\ emitted <= Len(storage)
      BY <1>0 DEF JumpsApart, CopyingInv, Emitted
    <3>2. /\ Len(storage) \in Nat /\ DOMAIN storage = 1..Len(storage) /\ emitted \in Int
          /\ First(jumps[k]) \in Int /\ jumps[k].label \in Int
          /\ First(jumps[k]) <= jumps[k].label
      BY <1>0, JumpPlaces DEF TypeInv
    <3> QED
      BY <3>1, <3>2
  <2>2. /\ code'[First(jumps[k])] = Unlinked(k)
        /\ ~Always(jumps[k]) => code'[jumps[k].label] = <<"nop">>
    BY <1>1, <1>2, <2>1 DEF AsAssembled, Unlinked
  <2>3. Always(jumps[k]) => First(jumps[k]) = jumps[k].label
    BY DEF First
  <2> QED
    BY <1>1, <2>2, <2>3 DEF LeadsTo, Unlinked
<1>4. \A k \in DOMAIN jumps : Aim(k)' = Nowhere
  <2>1. 1..(at' - 1) = {}
    BY <1>1
  <2> QED
    BY <1>1, <2>1 DEF Aim
<1> QED
  BY <1>1, <1>3, <1>4 DEF LeadInv

(* A target of a jump within the code or in Outside is within its reach.   *)
LEMMA Reaches ==
  ASSUME WithinReach, TypeInv, JumpsApart, BoundsInv, NEW k \in DOMAIN jumps,
         NEW to \in Int, to \in Outside \/ (1 <= to /\ to <= Len(storage) + 1)
  PROVE  IsInt(Reach26, to - jumps[k].label) /\ to # Nowhere
<1>1. PICK l \in Int : l = jumps[k].label /\ 1 <= l /\ l <= MaxCode
  <2>1. /\ jumps[k].label \in Int /\ First(jumps[k]) \in Int
        /\ First(jumps[k]) <= jumps[k].label
    BY JumpPlaces DEF TypeInv
  <2>2. 1 <= First(jumps[k]) /\ jumps[k].label <= Emitted /\ Emitted <= MaxCode
    BY DEF JumpsApart, BoundsInv
  <2>3. Emitted \in Int /\ MaxCode \in Nat
    BY LinkAssumption DEF LinkAssumption, Emitted, TypeInv
  <2> QED
    BY <2>1, <2>2, <2>3
<1>2. /\ MaxCode \in Nat /\ Granule \in Nat \ {0} /\ Reach26 \in Nat /\ Len(storage) \in Nat
      /\ MaxCode + Granule <= Reach26 /\ Len(storage) < Reach26
  BY LinkAssumption DEF LinkAssumption, WithinReach, BoundsInv, TypeInv
<1>3. CASE to \in Outside
  <2>1. l \in 1..MaxCode
    BY <1>1, <1>2
  <2> QED
    BY <1>1, <1>3, <2>1, LinkAssumption DEF LinkAssumption, WithinReach
<1>4. CASE 1 <= to /\ to <= Len(storage) + 1
  BY <1>1, <1>2, <1>4 DEF IsInt, Nowhere
<1> QED
  BY <1>3, <1>4

LEMMA RecordLeads ==
  ASSUME WithinReach, LInv, BoundsInv, LeadInv, LinkRecord
  PROVE  LeadInv'
<1>0. TypeInv /\ JumpsApart /\ RecordsInv /\ LinkingInv /\ KeptInv /\ phase = "linking"
  BY DEF LInv, LinkRecord
<1>1. PICK k \in DOMAIN jumps, to \in Int :
           /\ records[at].subject = k /\ to = goal[k]
           /\ 1 <= to /\ to <= emitted + 1
           /\ code' = LinkedTo(k, to)
  BY LinkRecordForm DEF LinkedTo
<1>2. /\ phase' = "linking" /\ at' = at + 1 /\ at \in Int /\ 1 <= at
      /\ UNCHANGED <<jumps, records, goal>>
  BY <1>0 DEF LinkRecord, LinkingInv, TypeInv
<1>3. IsInt(Reach26, to - jumps[k].label) /\ to # Nowhere
  <2>1. emitted <= Len(storage) /\ emitted \in Int /\ Len(storage) \in Nat
    BY <1>0 DEF TypeInv, LinkingInv, KeptInv
  <2>2. to <= Len(storage) + 1
    BY <1>1, <2>1
  <2> QED
    BY <1>0, <1>1, <2>2, Reaches
<1>4. \A j \in DOMAIN jumps : Aim(j) \in Int
  BY <1>0 DEF Aim, Nowhere, TypeInv
<1>5. \A j \in DOMAIN jumps : LeadsTo(j, Aim(j))
  BY <1>0 DEF LeadInv
<1>6. /\ LeadsTo(k, to)'
      /\ \A j \in DOMAIN jumps, g \in Int : j # k /\ LeadsTo(j, g) => LeadsTo(j, g)'
  BY <1>0, <1>1, <1>2, <1>3, <1>4, <1>5, LinkLeads
<1>7. 1..(at' - 1) = 1..(at - 1) \union {at}
  BY <1>2
<1>8. Aim(k)' = to
  BY <1>1, <1>2, <1>7 DEF Aim
<1>9. \A j \in DOMAIN jumps : j # k => Aim(j)' = Aim(j)
  BY <1>0, <1>1, <1>2, <1>7 DEF Aim
<1>10. ASSUME NEW j \in DOMAIN jumps PROVE LeadsTo(j, Aim(j))'
  <2>1. CASE j = k
    <3>1. Aim(j)' = to
      BY <1>8, <2>1
    <3> QED
      BY <1>6, <2>1, <3>1 DEF LeadsTo
  <2>2. CASE j # k
    <3>1. PICK g \in Int : g = Aim(j) /\ g = Aim(j)'
      BY <1>4, <1>9, <2>2
    <3>2. LeadsTo(j, g)'
      BY <1>5, <1>6, <2>2, <3>1
    <3> QED
      BY <3>1, <3>2 DEF LeadsTo
  <2> QED
    BY <2>1, <2>2
<1> QED
  BY <1>2, <1>10 DEF LeadInv

LEMMA LinkedLeads ==
  ASSUME LInv, LeadInv, Linked
  PROVE  LeadInv'
<1>0. TypeInv /\ RecordsInv /\ LinkingInv /\ phase = "linking"
  BY DEF LInv, Linked
<1>1. phase' = "linked" /\ at > Len(records) /\ UNCHANGED <<code, jumps, goal>>
  BY DEF Linked, linking
<1>2. DOMAIN records = 1..(at - 1)
  BY <1>0, <1>1 DEF TypeInv, LinkingInv
<1>3. \A k \in DOMAIN jumps : Aim(k) = goal[k]
  BY <1>0, <1>2 DEF Aim, RecordsInv
<1>4. \A k \in DOMAIN jumps : Aim(k)' = goal[k]
  BY <1>1 DEF Aim
<1>5. ASSUME NEW k \in DOMAIN jumps PROVE LeadsTo(k, Aim(k))'
  <2>1. LeadsTo(k, Aim(k)) /\ Aim(k) = Aim(k)'
    BY <1>0, <1>3, <1>4 DEF LeadInv
  <2> QED
    BY <1>1, <2>1 DEF LeadsTo
<1> QED
  BY <1>1, <1>5 DEF LeadInv

LEMMA RelinkLeads ==
  ASSUME Careful, WithinReach, LInv, BoundsInv, LeadInv,
         NEW k \in DOMAIN jumps, NEW to \in Outside \union Labels,
         LinkJump(k, to) \/ RepatchJump(k, to)
  PROVE  LeadInv'
<1>0. TypeInv /\ JumpsApart /\ KeptInv /\ phase = "linked"
  BY DEF LInv, LinkJump, RepatchJump
<1>1. to \in Int /\ (to \in Outside \/ (1 <= to /\ to <= Len(storage) + 1))
  <2>1. Len(storage) \in Nat
    BY <1>0 DEF TypeInv
  <2> QED
    BY <2>1, LinkAssumption DEF LinkAssumption, Labels, label
<1>2. IsInt(Reach26, to - jumps[k].label) /\ to # Nowhere
  BY <1>0, <1>1, Reaches
<1>3. phase' = "linked" /\ goal' = [goal EXCEPT ![k] = to] /\ UNCHANGED <<jumps, records>>
  BY <1>0 DEF LinkJump, RepatchJump, Relinked
<1>4. /\ DOMAIN goal = DOMAIN jumps
      /\ \A j \in DOMAIN jumps : goal[j] \in Int
      /\ \A j \in DOMAIN jumps : Aim(j) = goal[j]
      /\ \A j \in DOMAIN jumps : Aim(j)' = IF j = k THEN to ELSE goal[j]
  BY <1>0, <1>3 DEF TypeInv, Aim
<1>5. \A j \in DOMAIN jumps : LeadsTo(j, goal[j])
  BY <1>0, <1>4 DEF LeadInv
<1>6. code' = LinkedTo(k, to)
  <2>1. CASE LinkJump(k, to)
    BY <2>1 DEF LinkJump, Relinked, LinkedTo
  <2>2. CASE RepatchJump(k, to)
    <3>1. code' = relink_jump(code, jumps[k].label, to) /\ ~Mistaken(jumps[k])
      BY <2>2 DEF RepatchJump, Relinked
    <3>2. CASE Always(jumps[k])
      BY <1>0, <1>1, <3>1, <3>2, RelinkForm DEF LinkedTo
    <3>3. CASE ~Always(jumps[k])
      <4>1. PICK b : b = code[First(jumps[k])]
        OBVIOUS
      <4>2. PICK x : b = <<"branch", jumps[k].kind, k, jumps[k].sense, x>>
        <5>1. LeadsTo(k, goal[k])
          BY <1>5
        <5>2. code[jumps[k].label][1] # "b"
          BY <3>1, <3>3 DEF Mistaken
        <5>3. ~(code[jumps[k].label] = <<"b", goal[k] - jumps[k].label>>)
          BY <5>2
        <5> QED
          BY <3>3, <4>1, <5>1, <5>3 DEF LeadsTo
      <4>3. IsBranch(b) /\ b[5] # Skip
        BY <3>1, <3>3, <4>1, <4>2 DEF IsBranch, Mistaken
      <4>4. PICK sense \in BOOLEAN :
              /\ b[5] # Skip => sense = b[4]
              /\ code' = LinkBranch(code, b[2], b[3], sense, jumps[k].label - 1, to)
        BY <1>0, <1>1, <3>1, <3>3, <4>1, <4>3, RelinkForm
      <4>5. b[2] = jumps[k].kind /\ b[3] = k /\ b[4] = jumps[k].sense
        BY <4>2
      <4> QED
        BY <3>3, <4>3, <4>4, <4>5 DEF LinkedTo
    <3> QED
      BY <3>2, <3>3
  <2> QED
    BY <2>1, <2>2
<1>7. /\ LeadsTo(k, to)'
      /\ \A j \in DOMAIN jumps, g \in Int : j # k /\ LeadsTo(j, g) => LeadsTo(j, g)'
  BY <1>0, <1>1, <1>2, <1>3, <1>4, <1>5, <1>6, LinkLeads
<1>8. ASSUME NEW j \in DOMAIN jumps PROVE LeadsTo(j, Aim(j))'
  <2>1. CASE j = k
    <3>1. Aim(j)' = to
      BY <1>4, <2>1
    <3> QED
      BY <1>7, <2>1, <3>1 DEF LeadsTo
  <2>2. CASE j # k
    <3>1. PICK g \in Int : g = goal[j] /\ g = Aim(j)'
      BY <1>4, <2>2
    <3>2. LeadsTo(j, g)'
      BY <1>5, <1>7, <2>2, <3>1
    <3> QED
      BY <3>1, <3>2 DEF LeadsTo
  <2> QED
    BY <2>1, <2>2
<1> QED
  BY <1>3, <1>8 DEF LeadInv

LEMMA LeadStep ==
  ASSUME Careful, WithinReach, LInv, BoundsInv, LeadInv, [Next]_vars
  PROVE  LeadInv'
<1>1. CASE Insn \/ MakeJump \/ MakeBranch \/ Link
  BY <1>1 DEF Insn, MakeJump, MakeBranch, Made, Link, LinkTo, LeadInv
<1>2. CASE AllocateAnew \/ (\E room \in Rooms : AllocateIn(room) \/ FailToAllocate(room))
  BY <1>2 DEF AllocateAnew, AllocateIn, FailToAllocate, Allocated, LeadInv
<1>3. CASE CopyRegion
  BY <1>3 DEF CopyRegion, LeadInv
<1>4. CASE CopyTail
  BY <1>4, TailLeads
<1>5. CASE LinkRecord
  BY <1>5, RecordLeads
<1>6. CASE Linked
  BY <1>6, LinkedLeads
<1>7. CASE \E k \in DOMAIN jumps, to \in Outside \union Labels : LinkJump(k, to) \/ RepatchJump(k, to)
  BY <1>7, RelinkLeads
<1>8. CASE UNCHANGED vars
  BY <1>8 DEF vars, LeadInv, LeadsTo, Aim
<1> QED
  BY <1>1, <1>2, <1>3, <1>4, <1>5, <1>6, <1>7, <1>8 DEF Next

LEMMA InitBounds ==
  ASSUME WithinReach, Init
  PROVE  BoundsInv /\ LeadInv
<1>1. MaxCode \in Nat /\ Granule \in Nat \ {0} /\ Reach26 \in Nat /\ MaxCode + Granule <= Reach26
  BY LinkAssumption DEF LinkAssumption, WithinReach
<1>2. Len(storage) = 0
  BY DEF Init
<1> QED
  BY <1>1, <1>2 DEF Init, BoundsInv, Emitted, LeadInv

(* Once linked, every jump leads to the target last given when its         *)
(* condition holds and to what follows it when not: for all code and       *)
(* targets within the reach of the unconditional branch, and for clients   *)
(* that neither give a conditional jump to LinkBuffer::link_jump nor link  *)
(* again one that repatch_jump mistakes.                                   *)
THEOREM Leads ==
  ASSUME Careful, WithinReach
  PROVE  Spec => []JumpsLead
<1> DEFINE Lead == LInv /\ BoundsInv /\ LeadInv
<1>1. Init => Lead
  BY InitLInv, InitBounds
<1>2. Lead /\ [Next]_vars => Lead'
  BY LInvStep, BoundsStep, LeadStep
<1>3. Lead => JumpsLead
  <2> SUFFICES ASSUME Lead, phase = "linked", NEW k \in DOMAIN jumps, goal[k] # Nowhere
               PROVE  /\ Arrives(k, TRUE) = goal[k]
                      /\ ~Always(jumps[k]) => Arrives(k, FALSE) = jumps[k].label + 1
    BY DEF JumpsLead
  <2>1. LeadsTo(k, goal[k]) /\ goal[k] \in Int /\ TypeInv
    BY DEF LInv, LeadInv, Aim, TypeInv
  <2>2. PICK l \in Int, f \in Int, s \in BOOLEAN :
          /\ l = jumps[k].label /\ f = First(jumps[k]) /\ s = jumps[k].sense
          /\ f = IF Always(jumps[k]) THEN l ELSE l - 1
    BY <2>1, JumpPlaces DEF TypeInv
  <2>3. PICK g \in Int : g = goal[k] /\ g # Nowhere
    BY <2>1
  <2>4. CASE Always(jumps[k])
    <3>1. code[f] = <<"b", g - l>>
      BY <2>1, <2>2, <2>3, <2>4 DEF LeadsTo
    <3> QED
      BY <2>2, <2>3, <2>4, <3>1 DEF Arrives, Second
  <2>5. CASE ~Always(jumps[k])
    <3>1. CASE code[f] = <<"branch", jumps[k].kind, k, s, g - f>> /\ code[l] = <<"nop">>
      <4>1. Arrives(k, TRUE) = f + (g - f)
        BY <2>2, <2>5, <3>1 DEF Arrives
      <4>2. Arrives(k, FALSE) = l + 1
        BY <2>2, <2>5, <3>1 DEF Arrives, Second
      <4>3. f + (g - f) = g
        OBVIOUS
      <4> QED
        BY <2>2, <2>3, <4>1, <4>2, <4>3, Zenon
    <3>2. CASE code[f] = <<"branch", jumps[k].kind, k, Opposite(s), 2>> /\ code[l] = <<"b", g - l>>
      <4>1. Arrives(k, TRUE) = l + (g - l)
        BY <2>2, <2>5, <3>2 DEF Opposite, Arrives, Second
      <4>2. Arrives(k, FALSE) = f + 2
        BY <2>2, <2>5, <3>2 DEF Opposite, Arrives
      <4>3. l + (g - l) = g /\ f + 2 = l + 1
        BY <2>2, <2>5
      <4> QED
        BY <2>2, <2>3, <4>1, <4>2, <4>3, Zenon
    <3> QED
      BY <2>1, <2>2, <2>3, <2>5, <3>1, <3>2 DEF LeadsTo
  <2> QED
    BY <2>4, <2>5
<1> QED
  BY <1>1, <1>2, <1>3, PTL DEF Spec
===============================================================================
