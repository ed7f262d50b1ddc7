--------------------------- MODULE RoutePartsProofs ---------------------------
(***************************************************************************)
(* Theorems of RouteParts, for any number of variables, next hops, nl_addr *)
(* objects, families and prefix lengths, and of GenericFlags, the flags of *)
(* its objects, for words of any width.                                    *)
(***************************************************************************)
EXTENDS RouteParts, GenericFlags, FiniteSetTheorems, SequenceTheorems, TLAPS

-----------------------------------------------------------------------------
(* What an operation does to the nl_addr objects: one of six things *)

Writes(x, new) ==
  /\ holds[x] # Null
  /\ value' = [value EXCEPT ![holds[x]] = new]
  /\ UNCHANGED <<holds, refs>>

Moves(v, w) ==
  /\ holds[v] = Null /\ holds[w] # Null
  /\ holds' = [holds EXCEPT ![v] = holds[w], ![w] = Null]
  /\ UNCHANGED <<refs, value>>

Shares(v) == holds[v] # Null /\ Points({Dst}, holds[v]) /\ Remembers(value)

Memory == <<holds, refs, value>>

MemoryStep ==
  \/ UNCHANGED Memory
  \/ \E x \in Things \ {Dst}, new \in Values : Own(x, new)
  \/ \E X \in SUBSET Things : Release(X)
  \/ \E v, w \in Things \ {Dst} : Moves(v, w)
  \/ \E x \in Things, new \in Values : Writes(x, new)
  \/ \E v \in Things : Shares(v)

(* The invariant of the objects *)

MemoryType ==
  /\ holds \in [Things -> Cells \cup {Null}]
  /\ refs \in [Cells -> Nat] /\ value \in [Cells -> Values \cup {Null}]

\* Who holds an object holds a value.
HeldHaveValues == \A x \in Things : holds[x] # Null => ValueOf(x) \in Values

\* Only the destination of the route shares its object with another.
OnlyDstShares ==
  \A x, y \in Things : x # y /\ holds[x] = holds[y] /\ holds[x] # Null => Dst \in {x, y}

MemoryInv == MemoryType /\ CountIsHolders /\ HeldHaveValues /\ OnlyDstShares

\* The things are finitely many, and so are those that hold an object.
LEMMA FiniteThings == IsFiniteSet(Things) /\ \A f, c : IsFiniteSet({x \in Things : f[x] = c})
<1>1. IsFiniteSet({Local, Broadcast}) /\ IsFiniteSet({Dst})
  <2>1. IsFiniteSet({Local}) /\ IsFiniteSet({Broadcast}) /\ IsFiniteSet({Dst})
    BY FS_Singleton
  <2>2. IsFiniteSet({Local} \cup {Broadcast})
    BY <2>1, FS_Union
  <2>3. {Local} \cup {Broadcast} = {Local, Broadcast}
    OBVIOUS
  <2> QED BY <2>1, <2>2, <2>3
<1>2. IsFiniteSet(Vars \cup AddressParts)
  BY <1>1, ThingsAreFinite, FS_Union DEF AddressParts
<1>3. IsFiniteSet(Vars \cup AddressParts \cup {Dst})
  BY <1>1, <1>2, FS_Union
<1>4. IsFiniteSet(Things)
  BY <1>3, ThingsAreFinite, FS_Union DEF Things
<1>5. ASSUME NEW f, NEW c
      PROVE  IsFiniteSet({x \in Things : f[x] = c})
  <2>1. {x \in Things : f[x] = c} \subseteq Things
    OBVIOUS
  <2> QED BY <1>4, <2>1, FS_Subset
<1> QED BY <1>4, <1>5

\* A count stays the number of holders when things are pointed elsewhere.
LEMMA PointsKeepsCounts ==
  ASSUME MemoryType, CountIsHolders,
         NEW X \in SUBSET Things, NEW p \in Cells \cup {Null}, Points(X, p)
  PROVE  /\ holds' \in [Things -> Cells \cup {Null}]
         /\ refs' \in [Cells -> Nat]
         /\ CountIsHolders'
         /\ \A x \in Things : holds'[x] = IF x \in X THEN p ELSE holds[x]
<1>1. /\ holds' \in [Things -> Cells \cup {Null}]
      /\ \A x \in Things : holds'[x] = IF x \in X THEN p ELSE holds[x]
  BY DEF Points, MemoryType
<1>2. ASSUME NEW c \in Cells
      PROVE  refs'[c] \in Nat /\ refs'[c] = Cardinality(Holders(c)')
  <2> DEFINE H == Holders(c)
             G == IF c = p THEN H \cup X ELSE H \ X
  <2>1. Holders(c)' = G
    BY <1>1, NullIsNone DEF Holders
  <2>2. IsFiniteSet(H) /\ IsFiniteSet(X)
    BY FiniteThings, FS_Subset DEF Holders
  <2>3. /\ Cardinality(H) \in Nat /\ Cardinality(X) \in Nat /\ Cardinality(H \cap X) \in Nat
        /\ Cardinality(H \cup X) = Cardinality(H) + Cardinality(X) - Cardinality(H \cap X)
        /\ Cardinality(H \cup X) \in Nat
    BY <2>2, FS_Union, FS_Intersection, FS_CardinalityType
  <2>4. Cardinality(H \ X) = Cardinality(H) - Cardinality(H \cap X) /\ Cardinality(H \ X) \in Nat
    BY <2>2, FS_Difference, FS_CardinalityType
  <2>5. refs[c] = Cardinality(H)
    BY DEF CountIsHolders
  <2>6. refs'[c] = refs[c] - Cardinality(H \cap X) + (IF c = p THEN Cardinality(X) ELSE 0)
    BY DEF Points
  <2>7. CASE c = p
    BY <2>1, <2>3, <2>5, <2>6, <2>7
  <2>8. CASE c # p
    BY <2>1, <2>3, <2>4, <2>5, <2>6, <2>8
  <2> QED BY <2>7, <2>8
<1>3. refs' \in [Cells -> Nat]
  <2>1. refs' = [c \in Cells |-> refs'[c]]
    BY DEF Points
  <2> QED BY <1>2, <2>1
<1>4. CountIsHolders'
  BY <1>2 DEF CountIsHolders
<1> QED BY <1>1, <1>3, <1>4

\* Who holds an object keeps it from being freed, and its value with it.
LEMMA HeldIsRemembered ==
  ASSUME NEW f, holds' \in [Things -> Cells \cup {Null}], CountIsHolders', Remembers(f)
  PROVE  \A x \in Things : holds'[x] # Null => ValueOf(x)' = f[holds'[x]]
<1> SUFFICES ASSUME NEW x \in Things, holds'[x] # Null
             PROVE  ValueOf(x)' = f[holds'[x]]
  OBVIOUS
<1>1. PICK c \in Cells : c = holds'[x]
  OBVIOUS
<1>2. x \in Holders(c)' /\ IsFiniteSet(Holders(c)')
  BY <1>1, FiniteThings DEF Holders
<1>3. Cardinality(Holders(c)') # 0
  BY <1>2, FS_EmptySet
<1>4. refs'[c] = Cardinality(Holders(c)')
  BY <1>1 DEF CountIsHolders
<1>5. value'[c] = f[c]
  BY <1>1, <1>3, <1>4 DEF Remembers
<1> QED BY <1>1, <1>5 DEF ValueOf

-----------------------------------------------------------------------------
(* Each of them keeps the invariant, and is a step of PartValues *)

\* The refinement mapping.
Val == [x \in Things |-> ValueOf(x)]
One == IF holds[Dst] = Null THEN {} ELSE Holders(holds[Dst])

\* The destination of the route is one of the things.
LEMMA DstIsAThing == Dst \in Things
BY DEF Things

\* Nothing holds free memory.
LEMMA FreeIsUnheld ==
  ASSUME MemoryInv, NEW c \in Cells, refs[c] = 0
  PROVE  Holders(c) = {}
<1>1. IsFiniteSet(Holders(c)) /\ Cardinality(Holders(c)) = 0
  BY FiniteThings DEF MemoryInv, CountIsHolders, Holders
<1> QED BY <1>1, FS_EmptySet

\* An address of its own for x (a copy, a clone): only x has another value afterwards.
LEMMA OwnIsSet ==
  ASSUME MemoryInv, NEW x \in Things \ {Dst}, NEW new \in Values, Own(x, new)
  PROVE  MemoryInv' /\ Abstract!Set(x, new)
<1>1. PICK c \in Cells : /\ refs[c] = 0 /\ Points({x}, c)
                         /\ Remembers([value EXCEPT ![c] = new])
  BY DEF Own, Free
<1>2. Holders(c) = {}
  BY <1>1, FreeIsUnheld
<1>3. /\ holds' \in [Things -> Cells \cup {Null}] /\ refs' \in [Cells -> Nat] /\ CountIsHolders'
      /\ \A y \in Things : holds'[y] = IF y = x THEN c ELSE holds[y]
  BY <1>1, PointsKeepsCounts DEF MemoryInv
<1>4. value' \in [Cells -> Values \cup {Null}]
  BY <1>1 DEF Remembers, MemoryInv, MemoryType
<1>5. ASSUME NEW y \in Things
      PROVE  ValueOf(y)' = IF y = x THEN new ELSE ValueOf(y)
  <2> DEFINE f == [value EXCEPT ![c] = new]
  <2>1. holds'[y] # Null => ValueOf(y)' = f[holds'[y]]
    BY <1>1, <1>3, HeldIsRemembered
  <2>2. CASE y = x
    BY <1>3, <2>1, <2>2, NullIsNone DEF MemoryInv, MemoryType
  <2>3. CASE y # x
    <3>1. holds'[y] = holds[y] /\ holds[y] # c
      BY <1>2, <1>3, <2>3 DEF Holders
    <3> QED BY <2>1, <2>3, <3>1 DEF ValueOf, MemoryInv, MemoryType
  <2> QED BY <2>2, <2>3
<1>6. HeldHaveValues'
  BY <1>3, <1>5 DEF HeldHaveValues, MemoryInv
<1>7. OnlyDstShares'
  BY <1>2, <1>3 DEF OnlyDstShares, MemoryInv, Holders
<1>8. Val' = [Val EXCEPT ![x] = new]
  BY <1>5 DEF Val
<1>9. One' = One \ {x}
  <2>1. holds'[Dst] = holds[Dst] /\ holds[Dst] # c
    BY <1>2, <1>3, DstIsAThing DEF Holders
  <2> QED BY <1>3, <2>1, NullIsNone DEF One, Holders
<1> QED
  BY <1>3, <1>4, <1>6, <1>7, <1>8, <1>9
  DEF MemoryInv, MemoryType, Abstract!Set, Abstract!Leaving, Val, One

\* Addresses given up: only those who gave them up are without a value afterwards.
LEMMA ReleaseIsDrop ==
  ASSUME MemoryInv, NEW X \in SUBSET Things, Release(X)
  PROVE  MemoryInv' /\ Abstract!Drop(X)
<1>1. Points(X, Null) /\ Remembers(value)
  BY DEF Release
<1>2. /\ holds' \in [Things -> Cells \cup {Null}] /\ refs' \in [Cells -> Nat] /\ CountIsHolders'
      /\ \A y \in Things : holds'[y] = IF y \in X THEN Null ELSE holds[y]
  BY <1>1, PointsKeepsCounts DEF MemoryInv
<1>3. value' \in [Cells -> Values \cup {Null}]
  BY <1>1 DEF Remembers, MemoryInv, MemoryType
<1>4. ASSUME NEW y \in Things
      PROVE  ValueOf(y)' = IF y \in X THEN Null ELSE ValueOf(y)
  <2>1. holds'[y] # Null => ValueOf(y)' = value[holds'[y]]
    BY <1>1, <1>2, HeldIsRemembered
  <2> QED BY <1>2, <2>1 DEF ValueOf
<1>5. HeldHaveValues'
  BY <1>2, <1>4 DEF HeldHaveValues, MemoryInv
<1>6. OnlyDstShares'
  BY <1>2 DEF OnlyDstShares, MemoryInv
<1>7. Val' = [x \in Things |-> IF x \in X THEN Null ELSE Val[x]]
  BY <1>4 DEF Val
<1>8. One' = IF Dst \in X THEN {} ELSE One \ X
  BY <1>2, DstIsAThing DEF One, Holders
<1> QED
  BY <1>2, <1>3, <1>5, <1>6, <1>7, <1>8
  DEF MemoryInv, MemoryType, Abstract!Drop, Val, One

\* A move: the count of the object stays, since one holder takes the place of another.
LEMMA MovesIsMove ==
  ASSUME MemoryInv, NEW v \in Things \ {Dst}, NEW w \in Things \ {Dst}, Moves(v, w)
  PROVE  MemoryInv' /\ Abstract!Move(v, w)
<1>1. /\ v # w /\ holds[v] = Null /\ holds[w] \in Cells
      /\ holds' \in [Things -> Cells \cup {Null}] /\ refs' = refs /\ value' = value
      /\ \A y \in Things :
           holds'[y] = IF y = v THEN holds[w] ELSE IF y = w THEN Null ELSE holds[y]
  BY DEF Moves, MemoryInv, MemoryType
<1>2. ASSUME NEW c \in Cells
      PROVE  Cardinality(Holders(c)') = Cardinality(Holders(c))
  <2>1. CASE c = holds[w]
    <3> DEFINE B == Holders(c) \ {w}
    <3>1. Holders(c)' = B \cup {v} /\ Holders(c) = B \cup {w} /\ v \notin B /\ w \notin B
      BY <1>1, <2>1, NullIsNone DEF Holders
    <3>2. IsFiniteSet(B)
      <4>1. IsFiniteSet(Holders(c)) /\ B \subseteq Holders(c)
        BY FiniteThings DEF Holders
      <4> QED BY <4>1, FS_Subset
    <3>3. Cardinality(B \cup {v}) = Cardinality(B) + 1 /\ Cardinality(B \cup {w}) = Cardinality(B) + 1
      BY <3>1, <3>2, FS_AddElement
    <3> QED BY <3>1, <3>3
  <2>2. CASE c # holds[w]
    <3>1. Holders(c)' = Holders(c)
      BY <1>1, <2>2, NullIsNone DEF Holders
    <3> QED BY <3>1
  <2> QED BY <2>1, <2>2
<1>3. CountIsHolders'
  BY <1>1, <1>2 DEF CountIsHolders, MemoryInv
<1>4. ASSUME NEW y \in Things
      PROVE  ValueOf(y)' = IF y = v THEN ValueOf(w) ELSE IF y = w THEN Null ELSE ValueOf(y)
  BY <1>1, NullIsNone DEF ValueOf
<1>5. HeldHaveValues'
  BY <1>1, <1>4 DEF HeldHaveValues, MemoryInv
<1>6. OnlyDstShares'
  <2> SUFFICES ASSUME NEW x \in Things, NEW y \in Things,
                      x # y, holds'[x] = holds'[y], holds'[x] # Null
               PROVE  Dst \in {x, y}
    BY DEF OnlyDstShares
  <2>1. x # w /\ y # w
    BY <1>1
  <2>2. ASSUME NEW z \in Things, z # w, holds[z] = holds[w]
        PROVE  z = Dst
    BY <1>1, <2>2, NullIsNone DEF MemoryInv, OnlyDstShares
  <2>3. CASE x = v
    BY <1>1, <2>1, <2>2, <2>3
  <2>4. CASE y = v
    BY <1>1, <2>1, <2>2, <2>4
  <2>5. CASE x # v /\ y # v
    BY <1>1, <2>1, <2>5 DEF MemoryInv, OnlyDstShares
  <2> QED BY <2>3, <2>4, <2>5
<1>7. Val' = [Val EXCEPT ![v] = Val[w], ![w] = Null]
  BY <1>1, <1>4 DEF Val
<1>8. One' = (One \ {v, w}) \cup (IF w \in One THEN {v} ELSE {})
  <2>1. holds'[Dst] = holds[Dst]
    BY <1>1, DstIsAThing
  <2>2. CASE holds[Dst] = Null
    BY <2>1, <2>2 DEF One
  <2>3. CASE holds[Dst] # Null
    <3>1. One' = {y \in Things : holds'[y] = holds[Dst]} /\ One = {y \in Things : holds[y] = holds[Dst]}
      BY <2>1, <2>3 DEF One, Holders
    <3> QED BY <1>1, <2>3, <3>1
  <2> QED BY <2>2, <2>3
<1> QED
  BY <1>1, <1>3, <1>5, <1>6, <1>7, <1>8
  DEF MemoryInv, MemoryType, Abstract!Move, Val, One

\* A write into an object reaches those who share it, and nobody else.
LEMMA WritesIsWrite ==
  ASSUME MemoryInv, NEW x \in Things, NEW new \in Values, Writes(x, new)
  PROVE  MemoryInv' /\ Abstract!Write(x, new)
<1>1. /\ holds[x] \in Cells /\ holds[x] # Null /\ holds' = holds /\ refs' = refs
      /\ value' = [value EXCEPT ![holds[x]] = new]
  BY DEF Writes, MemoryInv, MemoryType
<1>2. ASSUME NEW y \in Things
      PROVE  ValueOf(y)' = IF holds[y] = holds[x] THEN new ELSE ValueOf(y)
  BY <1>1 DEF ValueOf, MemoryInv, MemoryType
<1>3. MemoryInv'
  <2>1. CountIsHolders' /\ OnlyDstShares'
    BY <1>1 DEF CountIsHolders, Holders, OnlyDstShares, MemoryInv
  <2>2. HeldHaveValues'
    BY <1>1, <1>2 DEF HeldHaveValues, MemoryInv
  <2> QED BY <1>1, <2>1, <2>2 DEF MemoryInv, MemoryType
<1>4. One' = One
  BY <1>1 DEF One, Holders
<1>5. ASSUME NEW y \in Things
      PROVE  holds[y] = holds[x] <=> (y = x \/ {x, y} \subseteq One)
  BY <1>1, DstIsAThing DEF One, Holders, MemoryInv, OnlyDstShares
<1>6. Val' = [y \in Things |-> IF y = x \/ {x, y} \subseteq One THEN new ELSE Val[y]]
  BY <1>2, <1>5 DEF Val
<1>7. Val[x] # Null
  <2>1. Val[x] \in Values
    BY <1>1 DEF Val, MemoryInv, HeldHaveValues
  <2> QED BY <2>1, NullIsNone DEF Values
<1> QED
  BY <1>3, <1>4, <1>6, <1>7 DEF Abstract!Write, Val, One

\* Route::dst: the destination and the variable are one afterwards.
LEMMA SharesIsGive ==
  ASSUME MemoryInv, NEW v \in Things, Shares(v)
  PROVE  MemoryInv' /\ Abstract!Give(v)
<1>1. /\ holds[v] \in Cells /\ holds[v] # Null
      /\ Points({Dst}, holds[v]) /\ Remembers(value)
  BY DEF Shares, MemoryInv, MemoryType
<1>2. /\ holds' \in [Things -> Cells \cup {Null}] /\ refs' \in [Cells -> Nat] /\ CountIsHolders'
      /\ \A y \in Things : holds'[y] = IF y = Dst THEN holds[v] ELSE holds[y]
  <2>1. PICK p \in Cells : p = holds[v]
    BY <1>1
  <2>2. Points({Dst}, p) /\ {Dst} \in SUBSET Things /\ MemoryType /\ CountIsHolders
    BY <1>1, <2>1, DstIsAThing DEF MemoryInv
  <2>3. /\ holds' \in [Things -> Cells \cup {Null}] /\ refs' \in [Cells -> Nat] /\ CountIsHolders'
        /\ \A y \in Things : holds'[y] = IF y \in {Dst} THEN p ELSE holds[y]
    BY <2>2, PointsKeepsCounts
  <2> QED BY <2>1, <2>3
<1>3. value' \in [Cells -> Values \cup {Null}]
  BY <1>1 DEF Remembers, MemoryInv, MemoryType
<1>4. ASSUME NEW y \in Things
      PROVE  ValueOf(y)' = IF y = Dst THEN ValueOf(v) ELSE ValueOf(y)
  <2>1. holds'[y] # Null => ValueOf(y)' = value[holds'[y]]
    BY <1>1, <1>2, HeldIsRemembered
  <2> QED BY <1>1, <1>2, <2>1 DEF ValueOf
<1>5. HeldHaveValues'
  BY <1>1, <1>2, <1>4 DEF HeldHaveValues, MemoryInv
<1>6. OnlyDstShares'
  BY <1>2 DEF OnlyDstShares, MemoryInv
<1>7. Val' = [Val EXCEPT ![Dst] = Val[v]]
  BY <1>4, DstIsAThing DEF Val
<1>8. One' = IF v \in One THEN One ELSE {v, Dst}
  <2>1. One' = {y \in Things : y = Dst \/ holds[y] = holds[v]}
    BY <1>1, <1>2, DstIsAThing DEF One, Holders
  <2>2. CASE v \in One
    BY <1>1, <2>1, <2>2, DstIsAThing DEF One, Holders
  <2>3. CASE v \notin One
    <3>1. holds[Dst] # holds[v]
      BY <1>1, <2>3 DEF One, Holders
    <3>2. ASSUME NEW y \in Things, holds[y] = holds[v], y # v
          PROVE  FALSE
      BY <1>1, <3>1, <3>2 DEF MemoryInv, OnlyDstShares
    <3> QED BY <2>1, <2>3, <3>2, DstIsAThing
  <2> QED BY <2>2, <2>3
<1>9. Val[v] # Null
  <2>1. Val[v] \in Values
    BY <1>1 DEF Val, MemoryInv, HeldHaveValues
  <2> QED BY <2>1, NullIsNone DEF Values
<1> QED
  BY <1>2, <1>3, <1>5, <1>6, <1>7, <1>8, <1>9
  DEF MemoryInv, MemoryType, Abstract!Give, Val, One

-----------------------------------------------------------------------------
(* Every action does one of the six *)

\* What is held may be written elsewhere, and its parts are a family and a prefix length.
LEMMA HeldValue ==
  ASSUME MemoryInv, NEW x \in Things, holds[x] # Null
  PROVE  /\ ValueOf(x) \in Values
         /\ ValueOf(x).family \in Families /\ ValueOf(x).prefix \in Lengths
<1>1. ValueOf(x) \in Values
  BY DEF MemoryInv, HeldHaveValues
<1> QED BY <1>1 DEF Values

\* Variables, parts and gateways are things other than the destination.
LEMMA KindsOfThings ==
  /\ Vars \subseteq Things \ {Dst} /\ AddressParts \subseteq Things \ {Dst}
  /\ Hops \subseteq Things \ {Dst} /\ Local \in AddressParts
BY ThingsDiffer DEF Things, AddressParts

\* A copy of what w holds is given to v.
LEMMA CopyIsAStep ==
  ASSUME MemoryInv, NEW v \in Things \ {Dst}, NEW w \in Things, holds[w] # Null, Own(v, ValueOf(w))
  PROVE  MemoryStep
<1>1. PICK new \in Values : new = ValueOf(w)
  BY HeldValue
<1> QED BY <1>1 DEF MemoryStep

\* The operations of Address.
LEMMA AddressesStep ==
  ASSUME MemoryInv, Addresses
  PROVE  MemoryStep
<1>1. CASE \E v \in Vars, new \in Values : Make(v, new)
  BY <1>1, KindsOfThings DEF Make, MemoryStep
<1>2. CASE \E v \in Vars, new \in Values : Modify(v, new)
  BY <1>2, KindsOfThings DEF Modify, Writes, MemoryStep
<1>3. CASE \E v, w \in Vars : CopyConstruct(v, w)
  BY <1>3, KindsOfThings, CopyIsAStep DEF CopyConstruct
<1>4. CASE \E v, w \in Vars : MoveConstruct(v, w)
  BY <1>4, KindsOfThings DEF MoveConstruct, Moves, MemoryStep
<1>5. CASE \E v \in Vars : Destroy(v)
  BY <1>5, KindsOfThings DEF Destroy, MemoryStep
<1> QED BY <1>1, <1>2, <1>3, <1>4, <1>5 DEF Addresses

\* The operations of RouteAddress.
LEMMA RouteAddressStep ==
  ASSUME MemoryInv, RouteAddress
  PROVE  MemoryStep
<1>1. CASE \E p \in AddressParts, v \in Vars : SetPart(p, v)
  BY <1>1, KindsOfThings, CopyIsAStep DEF SetPart, Accepts
<1>2. CASE \E p \in AddressParts, v \in Vars : GetPart(v, p)
  BY <1>2, KindsOfThings, CopyIsAStep DEF GetPart
<1>3. CASE \E p \in AddressParts : ClearPart(p)
  BY <1>3, KindsOfThings DEF ClearPart, MemoryStep
<1>4. ASSUME NEW n \in Lengths, SetPrefixlen(n)
      PROVE  MemoryStep
  <2>1. CASE holds[Local] = Null
    BY <1>4, <2>1 DEF SetPrefixlen, MemoryStep, Memory
  <2>2. CASE holds[Local] # Null
    <3>1. /\ holds[Local] \in Cells /\ value[holds[Local]] \in Values
          /\ value' = [value EXCEPT ![holds[Local]].prefix = n]
      BY <1>4, <2>2, KindsOfThings
      DEF SetPrefixlen, MemoryInv, MemoryType, HeldHaveValues, ValueOf
    <3>2. PICK new \in Values : new = [value[holds[Local]] EXCEPT !.prefix = n]
      BY <3>1 DEF Values
    <3>3. Writes(Local, new)
      BY <1>4, <2>2, <3>1, <3>2 DEF SetPrefixlen, Writes
    <3> QED BY <3>3, KindsOfThings DEF MemoryStep
  <2> QED BY <2>1, <2>2
<1>5. CASE \E o \in {"address", "route"}, f \in Families : SetFamily(o, f)
  BY <1>5 DEF SetFamily, MemoryStep, Memory
<1>6. CASE RenewAddress
  BY <1>6, KindsOfThings DEF RenewAddress, MemoryStep
<1> QED BY <1>1, <1>2, <1>3, <1>4, <1>5, <1>6 DEF RouteAddress

\* The operations of Route and NextHop.
LEMMA RouteStep ==
  ASSUME MemoryInv, Route
  PROVE  MemoryStep
<1>1. CASE \E v \in Vars : SetDst(v)
  BY <1>1, KindsOfThings DEF SetDst, Accepts, Shares, MemoryStep
<1>2. CASE \E v \in Vars : GetDst(v)
  BY <1>2, KindsOfThings, DstIsAThing, CopyIsAStep DEF GetDst, GetPart
<1>3. CASE \E h \in Hops, v \in Vars : SetGateway(h, v)
  BY <1>3, KindsOfThings, CopyIsAStep DEF SetGateway
<1>4. CASE \E h \in Hops, v \in Vars : GetGateway(v, h)
  BY <1>4, KindsOfThings, CopyIsAStep DEF GetGateway, GetPart
<1>5. CASE \E h \in Hops : MakeNextHop(h) \/ AddMoved(h)
  BY <1>5 DEF MakeNextHop, AddMoved, MemoryStep, Memory
<1>6. CASE \E h \in Hops : ClearGateway(h) \/ DestroyNextHop(h)
  BY <1>6, KindsOfThings DEF ClearGateway, DestroyNextHop, MemoryStep
<1>7. ASSUME NEW h \in Hops, NEW g \in Hops, NEW from, NEW to, CloneNextHop(h, g, from, to)
      PROVE  MemoryStep
  <2>1. CASE holds[h] = Null
    BY <1>7, <2>1 DEF CloneNextHop, MemoryStep, Memory
  <2>2. CASE holds[h] # Null
    BY <1>7, <2>2, KindsOfThings, CopyIsAStep DEF CloneNextHop
  <2> QED BY <2>1, <2>2
<1>8. CASE \E h, g \in Hops : AddCopy(h, g) \/ Nexthops(h, g)
  BY <1>7, <1>8 DEF AddCopy, Nexthops
<1>9. CASE RenewRoute
  <2>1. {Dst} \cup {h \in Hops : at[h] = "route"} \in SUBSET Things
    BY KindsOfThings, DstIsAThing
  <2> QED BY <1>9, <2>1 DEF RenewRoute, MemoryStep
<1> QED BY <1>1, <1>2, <1>3, <1>4, <1>5, <1>6, <1>8, <1>9 DEF Route

\* A step of the program is one of PartValues, or changes none of its state.
LEMMA StepIsAbstract ==
  ASSUME MemoryInv, [Next]_vars
  PROVE  MemoryInv' /\ [Abstract!Next]_<<Val, One>>
<1>1. MemoryStep
  BY AddressesStep, RouteAddressStep, RouteStep DEF Next, vars, MemoryStep, Memory
<1>2. CASE UNCHANGED Memory
  BY <1>2 DEF Memory, MemoryInv, MemoryType, CountIsHolders, Holders, HeldHaveValues,
              ValueOf, OnlyDstShares, Val, One
<1>3. CASE \E x \in Things \ {Dst}, new \in Values : Own(x, new)
  BY <1>3, OwnIsSet DEF Abstract!Next
<1>4. CASE \E X \in SUBSET Things : Release(X)
  BY <1>4, ReleaseIsDrop DEF Abstract!Next
<1>5. CASE \E v, w \in Things \ {Dst} : Moves(v, w)
  BY <1>5, MovesIsMove DEF Abstract!Next
<1>6. CASE \E x \in Things, new \in Values : Writes(x, new)
  BY <1>6, WritesIsWrite DEF Abstract!Next
<1>7. CASE \E v \in Things : Shares(v)
  BY <1>7, SharesIsGive DEF Abstract!Next
<1> QED BY <1>1, <1>2, <1>3, <1>4, <1>5, <1>6, <1>7 DEF MemoryStep

\* In the beginning nothing holds anything.
LEMMA InitIsAbstract ==
  ASSUME Init
  PROVE  MemoryInv /\ Abstract!Init
<1>1. holds = [x \in Things |-> Null] /\ refs = [c \in Cells |-> 0] /\ value = [c \in Cells |-> Null]
  BY DEF Init
<1>2. ASSUME NEW c \in Cells
      PROVE  Cardinality(Holders(c)) = 0
  <2>1. Holders(c) = {}
    BY <1>1, NullIsNone DEF Holders
  <2> QED BY <2>1, FS_EmptySet
<1>3. MemoryInv
  BY <1>1, <1>2 DEF MemoryInv, MemoryType, CountIsHolders, HeldHaveValues, OnlyDstShares
<1>4. Abstract!Init
  BY <1>1, DstIsAThing DEF Abstract!Init, ValueOf
<1> QED BY <1>3, <1>4

\* No sequence of calls leaves an nl_addr behind, or frees one that something points to: the
\* reference count of each is the number of the things that hold it.
THEOREM CountsAreHolders == Spec => []CountIsHolders
<1>1. Spec => []MemoryInv
  BY InitIsAbstract, StepIsAbstract, PTL DEF Spec
<1>2. MemoryInv => CountIsHolders
  BY DEF MemoryInv
<1> QED BY <1>1, <1>2, PTL

\* Each variable, part, gateway and destination holds a value of its own, and an operation on
\* one leaves the others alone, except for the address shared by Route::dst.
THEOREM EachHoldsItsValue == Spec => PartsHoldValues
<1>1. Init => Abstract!Init
  BY InitIsAbstract
<1>2. Spec => []MemoryInv
  BY InitIsAbstract, StepIsAbstract, PTL DEF Spec
<1>3. MemoryInv /\ [Next]_vars => [Abstract!Next]_(Abstract!vars)
  BY StepIsAbstract DEF Abstract!vars, Val, One
<1> QED BY <1>1, <1>2, <1>3, PTL DEF Spec, PartsHoldValues, Abstract!Spec

-----------------------------------------------------------------------------
(* What a RouteAddress says of itself *)

ObjectsType ==
  /\ family \in [{"address", "route"} -> Families \cup {Null}]
  /\ assigned \in BOOLEAN /\ prefixlen \in Lengths
  /\ at \in [Hops -> {"nowhere", "variable", "route"}]

IInv == MemoryInv /\ ObjectsType /\ AddressAgrees

\* Families, prefix lengths and places of next hops stay what they are.
LEMMA ObjectsTypeKept ==
  ASSUME MemoryInv, ObjectsType, [Next]_vars
  PROVE  ObjectsType'
<1> USE DEF ObjectsType
<1>1. CASE Addresses
  BY <1>1 DEF Addresses, Make, Modify, CopyConstruct, MoveConstruct, Destroy, Objects
<1>2. CASE RouteAddress
  <2>1. CASE \E p \in AddressParts, v \in Vars : SetPart(p, v)
    <3>1. PICK p \in AddressParts, v \in Vars : SetPart(p, v)
      BY <2>1
    <3>2. ValueOf(v).family \in Families /\ ValueOf(v).prefix \in Lengths
      BY <3>1, KindsOfThings, HeldValue DEF SetPart, Accepts
    <3> QED BY <3>1, <3>2 DEF SetPart, AcceptsFamily
  <2>2. CASE \E p \in AddressParts, v \in Vars : GetPart(v, p)
    BY <2>2 DEF GetPart, Objects
  <2>3. CASE \E p \in AddressParts : ClearPart(p)
    BY <2>3, LengthsAreNat DEF ClearPart
  <2>4. CASE \E n \in Lengths : SetPrefixlen(n)
    BY <2>4 DEF SetPrefixlen
  <2>5. CASE \E o \in {"address", "route"}, f \in Families : SetFamily(o, f)
    BY <2>5 DEF SetFamily
  <2>6. CASE RenewAddress
    BY <2>6, LengthsAreNat DEF RenewAddress
  <2> QED BY <1>2, <2>1, <2>2, <2>3, <2>4, <2>5, <2>6 DEF RouteAddress
<1>3. CASE Route
  <2>1. CASE \E v \in Vars : SetDst(v)
    <3>1. PICK v \in Vars : SetDst(v)
      BY <2>1
    <3>2. ValueOf(v).family \in Families
      BY <3>1, KindsOfThings, HeldValue DEF SetDst, Accepts
    <3> QED BY <3>1, <3>2 DEF SetDst, AcceptsFamily
  <2>2. CASE \E v \in Vars : GetDst(v)
    BY <2>2 DEF GetDst, GetPart, Objects
  <2>3. CASE \E h \in Hops, v \in Vars : SetGateway(h, v) \/ GetGateway(v, h)
    BY <2>3 DEF SetGateway, GetGateway, GetPart, Objects
  <2>4. CASE \E h \in Hops : MakeNextHop(h) \/ ClearGateway(h) \/ DestroyNextHop(h) \/ AddMoved(h)
    BY <2>4 DEF MakeNextHop, ClearGateway, DestroyNextHop, AddMoved, Objects
  <2>5. CASE \E h, g \in Hops : AddCopy(h, g) \/ Nexthops(h, g)
    BY <2>5 DEF AddCopy, Nexthops, CloneNextHop
  <2>6. CASE RenewRoute
    BY <2>6 DEF RenewRoute
  <2> QED BY <1>3, <2>1, <2>2, <2>3, <2>4, <2>5, <2>6 DEF Route
<1>4. CASE UNCHANGED vars
  BY <1>4 DEF vars
<1> QED BY <1>1, <1>2, <1>3, <1>4 DEF Next

\* The parts in terms of their values, which is what the steps of PartValues speak of.
Agrees ==
  /\ Val[Local] # Null => Val[Local].prefix = prefixlen
  /\ ~assigned => \A p \in AddressParts : Val[p] # Null => Val[p].family = family["address"]

\* It is the same statement.
LEMMA AgreesIsAddressAgrees ==
  /\ MemoryInv => (AddressAgrees <=> Agrees)
  /\ MemoryInv' => (AddressAgrees' <=> Agrees')
<1>1. Null \notin Values
  BY NullIsNone DEF Values
<1>2. ASSUME MemoryInv
      PROVE  AddressAgrees <=> Agrees
  <2>1. \A x \in Things : Val[x] = ValueOf(x) /\ (holds[x] = Null <=> Val[x] = Null)
    BY <1>1, <1>2 DEF Val, ValueOf, MemoryInv, HeldHaveValues
  <2> QED BY <2>1, KindsOfThings DEF AddressAgrees, Agrees
<1>3. ASSUME MemoryInv'
      PROVE  AddressAgrees' <=> Agrees'
  <2>1. \A x \in Things : Val'[x] = ValueOf(x)' /\ (holds'[x] = Null <=> Val'[x] = Null)
    BY <1>1, <1>3 DEF Val, ValueOf, MemoryInv, HeldHaveValues
  <2> QED BY <2>1, KindsOfThings DEF AddressAgrees, Agrees
<1> QED BY <1>2, <1>3

\* What an operation does to the values, for those that leave the parts alone.
LEMMA PartsAlone ==
  ASSUME Agrees, \A p \in AddressParts : Val'[p] = Val[p],
         assigned' = assigned, prefixlen' = prefixlen, family'["address"] = family["address"]
  PROVE  Agrees'
BY KindsOfThings DEF Agrees

\* The values after x has got a copy of the address of y.
LEMMA OwnValues ==
  ASSUME MemoryInv, NEW x \in Things \ {Dst}, NEW y \in Things, holds[y] # Null, Own(x, ValueOf(y))
  PROVE  /\ \A z \in Things : Val'[z] = IF z = x THEN ValueOf(y) ELSE Val[z]
         /\ ValueOf(y).family \in Families
<1>1. PICK new \in Values : new = ValueOf(y)
  BY HeldValue
<1>2. Abstract!Set(x, new)
  BY <1>1, OwnIsSet
<1>3. Val' = [Val EXCEPT ![x] = new]
  BY <1>2 DEF Abstract!Set, Val
<1> QED BY <1>1, <1>3, HeldValue DEF Val

\* The values after the things in X have given up their addresses.
LEMMA ReleaseValues ==
  ASSUME MemoryInv, NEW X \in SUBSET Things, Release(X)
  PROVE  \A z \in Things : Val'[z] = IF z \in X THEN Null ELSE Val[z]
<1>1. Val' = [x \in Things |-> IF x \in X THEN Null ELSE Val[x]]
  BY ReleaseIsDrop DEF Abstract!Drop, Val
<1> QED BY <1>1

\* An operation on a variable leaves the parts alone.
LEMMA AddressesAgree ==
  ASSUME MemoryInv, ObjectsType, Agrees, Addresses
  PROVE  Agrees'
<1>1. UNCHANGED Objects
  BY DEF Addresses, Make, Modify, CopyConstruct, MoveConstruct, Destroy
<1> SUFFICES \A p \in AddressParts : Val'[p] = Val[p]
  BY <1>1, PartsAlone DEF Objects
<1>2. AddressParts \cap Vars = {}
  BY ThingsDiffer DEF AddressParts
<1>3. ASSUME NEW v \in Vars, NEW new \in Values, Make(v, new)
      PROVE  \A p \in AddressParts : Val'[p] = Val[p]
  <2>1. Val' = [Val EXCEPT ![v] = new]
    BY <1>3, KindsOfThings, OwnIsSet DEF Make, Abstract!Set, Val
  <2> QED BY <1>2, <2>1, KindsOfThings DEF Val
<1>4. ASSUME NEW v \in Vars, NEW new \in Values, Modify(v, new)
      PROVE  \A p \in AddressParts : Val'[p] = Val[p]
  <2>1. \A p \in AddressParts : holds[p] # holds[v]
    BY <1>2, <1>4, KindsOfThings DEF Modify, MemoryInv, OnlyDstShares
  <2> QED BY <1>4, <2>1, KindsOfThings DEF Modify, Val, ValueOf, MemoryInv, MemoryType
<1>5. ASSUME NEW v \in Vars, NEW w \in Vars, CopyConstruct(v, w)
      PROVE  \A p \in AddressParts : Val'[p] = Val[p]
  <2>1. v \in Things \ {Dst} /\ w \in Things
    BY KindsOfThings
  <2>2. \A z \in Things : Val'[z] = IF z = v THEN ValueOf(w) ELSE Val[z]
    BY <1>5, <2>1, OwnValues DEF CopyConstruct
  <2> QED BY <1>2, <2>2, KindsOfThings
<1>6. ASSUME NEW v \in Vars, NEW w \in Vars, MoveConstruct(v, w)
      PROVE  \A p \in AddressParts : Val'[p] = Val[p]
  <2>1. \A p \in AddressParts : p # v /\ p # w /\ p \in Things
    BY <1>2, KindsOfThings
  <2> QED BY <1>6, <2>1 DEF MoveConstruct, Val, ValueOf, MemoryInv, MemoryType
<1>7. ASSUME NEW v \in Vars, Destroy(v)
      PROVE  \A p \in AddressParts : Val'[p] = Val[p]
  <2>1. {v} \in SUBSET Things
    BY KindsOfThings
  <2>2. \A z \in Things : Val'[z] = IF z \in {v} THEN Null ELSE Val[z]
    BY <1>7, <2>1, ReleaseValues DEF Destroy
  <2> QED BY <1>2, <2>2, KindsOfThings
<1> QED BY <1>3, <1>4, <1>5, <1>6, <1>7 DEF Addresses

\* A setter keeps object and parts in agreement.
LEMMA RouteAddressAgrees ==
  ASSUME MemoryInv, ObjectsType, Agrees, RouteAddress
  PROVE  Agrees'
<1>1. ASSUME NEW p \in AddressParts, NEW v \in Vars, SetPart(p, v)
      PROVE  Agrees'
  <2>1. p \in Things \ {Dst} /\ v \in Things /\ holds[v] # Null
    BY <1>1, KindsOfThings DEF SetPart, Accepts
  <2>2. /\ \A z \in Things : Val'[z] = IF z = p THEN ValueOf(v) ELSE Val[z]
        /\ ValueOf(v).family \in Families
    BY <1>1, <2>1, OwnValues DEF SetPart
  <2>3. /\ family["address"] \in {Null, ValueOf(v).family}
        /\ family'["address"] = ValueOf(v).family /\ assigned' = assigned
        /\ prefixlen' = IF p = Local THEN ValueOf(v).prefix ELSE prefixlen
    BY <1>1 DEF SetPart, Accepts, AcceptsFamily, ObjectsType
  <2>4. ASSUME NEW q \in AddressParts, ~assigned, Val[q] # Null
        PROVE  Val[q].family = ValueOf(v).family
    <3>1. holds[q] # Null /\ Val[q] = ValueOf(q)
      BY <2>4, KindsOfThings DEF Val, ValueOf
    <3>2. Val[q].family \in Families
      BY <3>1, KindsOfThings, HeldValue
    <3> QED BY <2>3, <2>4, <3>2, NullIsNone DEF Agrees
  <2> QED BY <2>2, <2>3, <2>4, KindsOfThings DEF Agrees
<1>2. ASSUME NEW p \in AddressParts, NEW v \in Vars, GetPart(v, p)
      PROVE  Agrees'
  <2>1. v \in Things \ {Dst} /\ p \in Things /\ v \notin AddressParts
    BY KindsOfThings, ThingsDiffer DEF AddressParts
  <2>2. \A z \in Things : Val'[z] = IF z = v THEN ValueOf(p) ELSE Val[z]
    BY <1>2, <2>1, OwnValues DEF GetPart
  <2> QED BY <1>2, <2>1, <2>2, KindsOfThings, PartsAlone DEF GetPart, Objects
<1>3. ASSUME NEW p \in AddressParts, ClearPart(p)
      PROVE  Agrees'
  <2>1. {p} \in SUBSET Things
    BY KindsOfThings
  <2>2. \A z \in Things : Val'[z] = IF z \in {p} THEN Null ELSE Val[z]
    BY <1>3, <2>1, ReleaseValues DEF ClearPart
  <2> QED BY <1>3, <2>2, KindsOfThings DEF ClearPart, Agrees
<1>4. ASSUME NEW n \in Lengths, SetPrefixlen(n)
      PROVE  Agrees'
  <2>1. holds' = holds /\ prefixlen' = n /\ UNCHANGED <<family, assigned>>
    BY <1>4 DEF SetPrefixlen
  <2>2. CASE holds[Local] = Null
    <3>1. value' = value
      BY <1>4, <2>2 DEF SetPrefixlen
    <3> QED BY <2>1, <2>2, <3>1, KindsOfThings DEF Agrees, Val, ValueOf
  <2>3. CASE holds[Local] # Null
    <3>1. /\ holds[Local] \in Cells /\ value[holds[Local]] \in Values
          /\ value' = [value EXCEPT ![holds[Local]].prefix = n]
      BY <1>4, <2>3, KindsOfThings
      DEF SetPrefixlen, MemoryInv, MemoryType, HeldHaveValues, ValueOf
    <3>2. /\ value'[holds[Local]].prefix = n
          /\ value'[holds[Local]].family = value[holds[Local]].family
          /\ value[holds[Local]] # Null
      BY <3>1, NullIsNone DEF Values, MemoryInv, MemoryType
    <3>3. Val'[Local] = value'[holds[Local]] /\ Val[Local] = value[holds[Local]]
      BY <2>1, <2>3, KindsOfThings DEF Val, ValueOf
    <3>4. ASSUME NEW q \in AddressParts, q # Local
          PROVE  Val'[q] = Val[q]
      <4>1. holds[q] # holds[Local]
        BY <2>3, <3>4, KindsOfThings DEF MemoryInv, OnlyDstShares
      <4> QED BY <2>1, <3>1, <4>1, KindsOfThings DEF Val, ValueOf, MemoryInv, MemoryType
    <3> QED BY <2>1, <3>2, <3>3, <3>4 DEF Agrees
  <2> QED BY <2>2, <2>3
<1>5. ASSUME NEW o \in {"address", "route"}, NEW f \in Families, SetFamily(o, f)
      PROVE  Agrees'
  <2>1. Val' = Val /\ prefixlen' = prefixlen
    BY <1>5 DEF SetFamily, Val, ValueOf
  <2> QED BY <1>5, <2>1 DEF SetFamily, Agrees, ObjectsType
<1>6. ASSUME RenewAddress
      PROVE  Agrees'
  <2>1. AddressParts \in SUBSET Things
    BY KindsOfThings
  <2>2. \A z \in Things : Val'[z] = IF z \in AddressParts THEN Null ELSE Val[z]
    BY <1>6, <2>1, ReleaseValues DEF RenewAddress
  <2> QED BY <2>2, KindsOfThings DEF Agrees
<1> QED BY <1>1, <1>2, <1>3, <1>4, <1>5, <1>6 DEF RouteAddress

\* An operation on a route or a next hop leaves the parts alone.
LEMMA RouteAgrees ==
  ASSUME MemoryInv, ObjectsType, Agrees, Route
  PROVE  Agrees'
<1>1. assigned' = assigned /\ prefixlen' = prefixlen /\ family'["address"] = family["address"]
  BY DEF Route, SetDst, GetDst, GetPart, SetGateway, GetGateway, MakeNextHop, ClearGateway,
         DestroyNextHop, AddMoved, AddCopy, Nexthops, CloneNextHop, RenewRoute, Objects,
         AcceptsFamily, ObjectsType
<1> SUFFICES \A p \in AddressParts : Val'[p] = Val[p]
  BY <1>1, PartsAlone
<1>2. AddressParts \cap (Vars \cup Hops \cup {Dst}) = {}
  BY ThingsDiffer DEF AddressParts
<1>3. ASSUME NEW x \in Vars \cup Hops, NEW y \in Things, holds[y] # Null, Own(x, ValueOf(y))
      PROVE  \A p \in AddressParts : Val'[p] = Val[p]
  <2>1. x \in Things \ {Dst}
    BY KindsOfThings
  <2>2. \A z \in Things : Val'[z] = IF z = x THEN ValueOf(y) ELSE Val[z]
    BY <1>3, <2>1, OwnValues
  <2> QED BY <1>2, <2>2, KindsOfThings
<1>4. ASSUME NEW X \in SUBSET (Hops \cup {Dst}), Release(X)
      PROVE  \A p \in AddressParts : Val'[p] = Val[p]
  <2>1. X \in SUBSET Things
    BY KindsOfThings, DstIsAThing
  <2>2. \A z \in Things : Val'[z] = IF z \in X THEN Null ELSE Val[z]
    BY <1>4, <2>1, ReleaseValues
  <2> QED BY <1>2, <2>2, KindsOfThings
<1>5. ASSUME UNCHANGED Memory
      PROVE  \A p \in AddressParts : Val'[p] = Val[p]
  BY <1>5 DEF Memory, Val, ValueOf
<1>6. ASSUME NEW v \in Vars, SetDst(v)
      PROVE  \A p \in AddressParts : Val'[p] = Val[p]
  <2>1. v \in Things /\ Shares(v)
    BY <1>6, KindsOfThings DEF SetDst, Accepts, Shares
  <2>2. Val' = [Val EXCEPT ![Dst] = Val[v]]
    BY <2>1, SharesIsGive DEF Abstract!Give, Val
  <2> QED BY <1>2, <2>2, KindsOfThings DEF Val
<1>7. CASE \E v \in Vars : GetDst(v)
  BY <1>3, <1>7, DstIsAThing DEF GetDst, GetPart
<1>8. CASE \E h \in Hops, v \in Vars : SetGateway(h, v) \/ GetGateway(v, h)
  BY <1>3, <1>8, KindsOfThings DEF SetGateway, GetGateway, GetPart
<1>9. CASE \E h \in Hops : MakeNextHop(h) \/ AddMoved(h)
  BY <1>5, <1>9 DEF MakeNextHop, AddMoved, Memory
<1>10. CASE \E h \in Hops : ClearGateway(h) \/ DestroyNextHop(h)
  BY <1>4, <1>10 DEF ClearGateway, DestroyNextHop
<1>11. ASSUME NEW h \in Hops, NEW g \in Hops, NEW from, NEW to, CloneNextHop(h, g, from, to)
       PROVE  \A p \in AddressParts : Val'[p] = Val[p]
  <2>1. CASE holds[h] = Null
    BY <1>5, <1>11, <2>1 DEF CloneNextHop, Memory
  <2>2. CASE holds[h] # Null
    BY <1>3, <1>11, <2>2, KindsOfThings DEF CloneNextHop
  <2> QED BY <2>1, <2>2
<1>12. CASE \E h, g \in Hops : AddCopy(h, g) \/ Nexthops(h, g)
  BY <1>11, <1>12 DEF AddCopy, Nexthops
<1>13. CASE RenewRoute
  BY <1>4, <1>13 DEF RenewRoute
<1> QED BY <1>6, <1>7, <1>8, <1>9, <1>10, <1>12, <1>13 DEF Route

\* The inductive invariant is kept by every step.
LEMMA IInvKept ==
  ASSUME IInv, [Next]_vars
  PROVE  IInv'
<1>1. MemoryInv' /\ ObjectsType'
  BY StepIsAbstract, ObjectsTypeKept DEF IInv
<1>2. Agrees
  BY AgreesIsAddressAgrees DEF IInv
<1>3. ASSUME UNCHANGED vars
      PROVE  Agrees'
  BY <1>2, <1>3 DEF vars, Agrees, Val, ValueOf
<1>4. ASSUME Next
      PROVE  Agrees'
  BY <1>2, <1>4, AddressesAgree, RouteAddressAgrees, RouteAgrees DEF Next, IInv
<1> QED BY <1>1, <1>3, <1>4, AgreesIsAddressAgrees DEF IInv

\* The inductive invariant holds.
LEMMA IInvHolds == Spec => []IInv
<1>1. ASSUME Init
      PROVE  IInv
  <2>1. MemoryInv
    BY <1>1, InitIsAbstract
  <2>2. ObjectsType
    BY <1>1, LengthsAreNat DEF Init, ObjectsType
  <2>3. AddressAgrees
    BY <1>1, KindsOfThings DEF Init, AddressAgrees
  <2> QED BY <2>1, <2>2, <2>3 DEF IInv
<1> QED BY <1>1, IInvKept, PTL DEF Spec

\* Every variable keeps its type; in particular no reference count goes below zero.
THEOREM TypesAreKept == Spec => []TypeOK
<1>1. IInv => TypeOK
  BY DEF IInv, MemoryInv, MemoryType, ObjectsType, TypeOK
<1> QED BY <1>1, IInvHolds, PTL

\* The prefix length and the family of a RouteAddress are those of its addresses, whatever
\* the caller does with the variables they were set from or read into.
THEOREM AddressesAgreeAlways == Spec => []AddressAgrees
<1>1. IInv => AddressAgrees
  BY DEF IInv
<1> QED BY <1>1, IInvHolds, PTL

-----------------------------------------------------------------------------
(* GenericFlags, for words of any width *)

\* An ascending sequence, and what the loop has listed: the flags below f, in their order.
Ascending(s) == \A i, j \in DOMAIN s : i < j => s[i] < s[j]
ListsBelow ==
  /\ \A x \in Bits : x \in ToSet(listed) <=> x \in flags /\ x < bit
  /\ Ascending(listed)

\* The invariant of the conversion.
FlagsInv ==
  /\ FlagsTypeOK
  /\ listing = "loop" => ListsBelow
  /\ ListsTheFlags

\* Appending a number greater than those in an ascending sequence.
LEMMA AppendAscending ==
  ASSUME NEW s \in Seq(Nat), NEW b \in Nat, Ascending(s), \A x \in ToSet(s) : x < b
  PROVE  Ascending(Append(s, b)) /\ ToSet(Append(s, b)) = ToSet(s) \cup {b}
<1>1. /\ Len(Append(s, b)) = Len(s) + 1 /\ Len(s) \in Nat
      /\ \A i \in 1..Len(s) : Append(s, b)[i] = s[i]
      /\ Append(s, b)[Len(s) + 1] = b
      /\ DOMAIN s = 1..Len(s) /\ DOMAIN Append(s, b) = 1..(Len(s) + 1)
  OBVIOUS
<1>2. ToSet(Append(s, b)) = ToSet(s) \cup {b}
  BY <1>1 DEF ToSet
<1>3. ASSUME NEW i \in DOMAIN Append(s, b), NEW j \in DOMAIN Append(s, b), i < j
      PROVE  Append(s, b)[i] < Append(s, b)[j]
  <2>1. i \in 1..Len(s) /\ Append(s, b)[i] = s[i]
    BY <1>1, <1>3
  <2>2. CASE j = Len(s) + 1
    BY <1>1, <2>1, <2>2 DEF ToSet
  <2>3. CASE j \in 1..Len(s)
    BY <1>1, <1>3, <2>1, <2>3 DEF Ascending
  <2> QED BY <1>1, <2>2, <2>3
<1>4. Ascending(Append(s, b))
  BY <1>3 DEF Ascending
<1> QED BY <1>2, <1>4

\* The conversion to a vector lists the flags that are set, each once and in order.
THEOREM TheFlagsAreListed == FlagsSpec => [](FlagsTypeOK /\ ListsTheFlags)
<1>1. FlagsInit => FlagsInv
  <2> SUFFICES ASSUME FlagsInit PROVE FlagsInv
    OBVIOUS
  <2>1. FlagsTypeOK
    BY WidthIsPositive DEF FlagsInit, FlagsTypeOK, Words, Bits
  <2> QED BY <2>1 DEF FlagsInit, FlagsInv, ListsTheFlags
<1>2. FlagsInv /\ [FlagsNext]_flagVars => FlagsInv'
  <2> SUFFICES ASSUME FlagsInv, [FlagsNext]_flagVars PROVE FlagsInv'
    OBVIOUS
  <2>0. /\ flags \subseteq 0..(Width - 1) /\ bit \in 0..Width /\ Width \in Nat \ {0}
        /\ listed \in Seq(Bits) /\ listing \in {"no", "loop", "done"}
    BY WidthIsPositive DEF FlagsInv, FlagsTypeOK, Words, Bits
  <2>1. ASSUME NEW w \in Words, SetFlags(w) \/ UnsetFlags(w) PROVE FlagsInv'
    BY <2>1 DEF SetFlags, UnsetFlags, FlagsInv, FlagsTypeOK, ListsTheFlags, Words
  <2>2. CASE ListFlags
    <3>1. listed' = <<>> /\ bit' = 0 /\ flags' = flags /\ listing' = "loop"
      BY <2>2 DEF ListFlags
    <3>2. ToSet(listed') = {} /\ Ascending(listed')
      BY <3>1 DEF ToSet, Ascending
    <3>3. \A x \in Bits : ~(x < bit')
      BY <2>0, <3>1 DEF Bits
    <3>4. ListsBelow'
      BY <3>2, <3>3 DEF ListsBelow, Bits
    <3>5. FlagsTypeOK'
      BY <2>0, <3>1 DEF FlagsTypeOK, Words, Bits
    <3> QED BY <3>1, <3>4, <3>5 DEF FlagsInv, ListsTheFlags
  <2>3. CASE ListStep
    <3>1. /\ listing = "loop" /\ listing' = "loop" /\ flags' = flags /\ bit' = Shifted
          /\ listed' = IF bit \in flags THEN Append(listed, bit) ELSE listed
          /\ ListsBelow
      BY <2>3 DEF ListStep, FlagsInv
    <3>2. bit' \in 0..Width
      BY <2>0, <3>1 DEF Shifted
    <3>3. \A x \in Bits : x < bit' <=> x < bit \/ x = bit
      BY <2>0, <3>1 DEF Shifted, Bits
    <3>4. CASE bit \in flags
      <4>1. listed \in Seq(Nat) /\ bit \in Bits /\ bit \in Nat
        BY <2>0, <3>4 DEF Bits
      <4>2. \A x \in ToSet(listed) : x < bit
        <5>1. ToSet(listed) \subseteq Bits
          BY <2>0 DEF ToSet
        <5> QED BY <3>1, <5>1 DEF ListsBelow
      <4>3. Ascending(listed') /\ ToSet(listed') = ToSet(listed) \cup {bit}
        BY <3>1, <3>4, <4>1, <4>2, AppendAscending DEF ListsBelow
      <4>4. listed' \in Seq(Bits)
        BY <2>0, <3>1, <3>4, <4>1
      <4>5. ListsBelow'
        BY <3>1, <3>3, <3>4, <4>3 DEF ListsBelow, Bits
      <4> QED BY <2>0, <3>1, <3>2, <4>4, <4>5 DEF FlagsInv, FlagsTypeOK, ListsTheFlags, Words, Bits
    <3>5. CASE bit \notin flags
      <4>1. ListsBelow'
        BY <3>1, <3>3, <3>5 DEF ListsBelow, Bits
      <4> QED BY <2>0, <3>1, <3>2, <3>5, <4>1 DEF FlagsInv, FlagsTypeOK, ListsTheFlags, Words, Bits
    <3> QED BY <3>4, <3>5
  <2>4. CASE ListEnd
    <3>1. /\ listing = "loop" /\ listing' = "done" /\ UNCHANGED <<flags, bit, listed>>
          /\ ListsBelow /\ ~Reaches(flags)
      BY <2>4 DEF ListEnd, FlagsInv
    <3>2. \A x \in flags : x < bit
      BY <2>0, <3>1 DEF Reaches
    <3>3. ToSet(listed) \subseteq Bits /\ flags \subseteq Bits
      BY <2>0 DEF ToSet, Bits
    <3>4. ToSet(listed) = flags
      BY <3>1, <3>2, <3>3 DEF ListsBelow
    <3>5. ListsTheFlags'
      BY <3>1, <3>4 DEF ListsTheFlags, ListsBelow, Ascending
    <3> QED BY <2>0, <3>1, <3>5 DEF FlagsInv, FlagsTypeOK, Words, Bits
  <2>5. CASE UNCHANGED flagVars
    BY <2>5 DEF flagVars, FlagsInv, FlagsTypeOK, ListsTheFlags, ListsBelow
  <2> QED BY <2>1, <2>2, <2>3, <2>4, <2>5 DEF FlagsNext
<1>3. FlagsInv => FlagsTypeOK /\ ListsTheFlags
  BY DEF FlagsInv
<1> QED BY <1>1, <1>2, <1>3, PTL DEF FlagsSpec
=============================================================================
