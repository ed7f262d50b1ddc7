---------------------------- MODULE HandlesProofs ----------------------------
(***************************************************************************)
(* Theorems of Handles, for any number of variables and allocations.       *)
(***************************************************************************)
EXTENDS Handles, FiniteSetTheorems, TLAPS

-----------------------------------------------------------------------------
(* Counting owners *)

OwnersIn(f, c) == {v \in Vars : f[v] = c}
One(p, c) == IF p = c THEN 1 ELSE 0

\* Changing one variable changes the number of owners by that variable.
LEMMA OneChange ==
  ASSUME NEW f, NEW g, NEW v \in Vars, NEW c,
         \A u \in Vars \ {v} : g[u] = f[u]
  PROVE  /\ Cardinality(OwnersIn(f, c)) \in Nat /\ Cardinality(OwnersIn(g, c)) \in Nat
         /\ Cardinality(OwnersIn(g, c)) + One(f[v], c)
              = Cardinality(OwnersIn(f, c)) + One(g[v], c)
<1> DEFINE F == OwnersIn(f, c)
           G == OwnersIn(g, c)
           B == F \ {v}
<1>1. IsFiniteSet(F) /\ IsFiniteSet(G) /\ IsFiniteSet(B)
  BY VarsAreFinite, FS_Subset, F \subseteq Vars, G \subseteq Vars, B \subseteq Vars DEF OwnersIn
<1>2. v \notin B /\ F = (IF f[v] = c THEN B \cup {v} ELSE B)
                 /\ G = (IF g[v] = c THEN B \cup {v} ELSE B)
  BY DEF OwnersIn
<1>3. Cardinality(B) \in Nat /\ Cardinality(B \cup {v}) = Cardinality(B) + 1
  BY <1>1, <1>2, FS_CardinalityType, FS_AddElement
<1>4. Cardinality(F) = Cardinality(B) + One(f[v], c)
  <2>1. CASE f[v] = c
    BY <1>2, <1>3, <2>1 DEF One
  <2>2. CASE f[v] # c
    BY <1>2, <1>3, <2>2 DEF One
  <2> QED BY <2>1, <2>2
<1>5. Cardinality(G) = Cardinality(B) + One(g[v], c)
  <2>1. CASE g[v] = c
    BY <1>2, <1>3, <2>1 DEF One
  <2>2. CASE g[v] # c
    BY <1>2, <1>3, <2>2 DEF One
  <2> QED BY <2>1, <2>2
<1>6. One(f[v], c) \in Nat /\ One(g[v], c) \in Nat
  BY DEF One
<1> QED BY <1>3, <1>4, <1>5, <1>6

\* An owner counts; two owners count twice.
LEMMA OwnersCount ==
  ASSUME NEW f, NEW c
  PROVE  /\ Cardinality(OwnersIn(f, c)) \in Nat
         /\ \A v \in Vars : f[v] = c => Cardinality(OwnersIn(f, c)) >= 1
         /\ \A v, w \in Vars : v # w /\ f[v] = c /\ f[w] = c => Cardinality(OwnersIn(f, c)) >= 2
         /\ Cardinality(OwnersIn(f, c)) = 0 => OwnersIn(f, c) = {}
<1> DEFINE F == OwnersIn(f, c)
<1>1. IsFiniteSet(F) /\ Cardinality(F) \in Nat
  BY VarsAreFinite, FS_Subset, F \subseteq Vars, FS_CardinalityType DEF OwnersIn
<1>2. ASSUME NEW v \in Vars, f[v] = c
      PROVE  /\ IsFiniteSet(F \ {v}) /\ Cardinality(F \ {v}) \in Nat
             /\ Cardinality(F) = Cardinality(F \ {v}) + 1
  <2>1. v \in F
    BY <1>2 DEF OwnersIn
  <2>2. IsFiniteSet(F \ {v}) /\ Cardinality(F \ {v}) = Cardinality(F) - 1
    BY <1>1, <2>1, FS_RemoveElement
  <2> QED BY <1>1, <2>2, FS_CardinalityType
<1>3. ASSUME NEW v \in Vars, NEW w \in Vars, v # w, f[v] = c, f[w] = c
      PROVE  Cardinality(F) >= 2
  <2>1. w \in F \ {v}
    BY <1>3 DEF OwnersIn
  <2>2. /\ IsFiniteSet(F \ {v}) /\ Cardinality(F \ {v}) \in Nat
        /\ Cardinality(F) = Cardinality(F \ {v}) + 1
    BY <1>2, <1>3
  <2>3. Cardinality((F \ {v}) \ {w}) = Cardinality(F \ {v}) - 1
        /\ IsFiniteSet((F \ {v}) \ {w})
    BY <2>1, <2>2, FS_RemoveElement
  <2>4. Cardinality((F \ {v}) \ {w}) \in Nat
    BY <2>3, FS_CardinalityType
  <2> QED BY <2>2, <2>3, <2>4
<1>4. Cardinality(F) = 0 => F = {}
  BY <1>1, FS_EmptySet
<1>5. ASSUME NEW v \in Vars, f[v] = c PROVE Cardinality(F) >= 1
  <2>1. Cardinality(F \ {v}) \in Nat /\ Cardinality(F) = Cardinality(F \ {v}) + 1
    BY <1>2, <1>5
  <2> QED BY <2>1
<1>6. \A v, w \in Vars : v # w /\ f[v] = c /\ f[w] = c => Cardinality(F) >= 2
  BY <1>3
<1> QED BY <1>1, <1>4, <1>5, <1>6

-----------------------------------------------------------------------------
(* The inductive invariant *)

\* A next hop has no count, so it must not need one.
OneReference == class = NextHopClass => \A c \in Cells : refs[c] <= 1

\* The program knows of every null pointer, unless one came about without a word.
NullsAreKnown == \A v \in Vars : ptr[v] = Null => v \in empty \/ unnoticed

IInv == HandlesTypeOK /\ CountIsOwners /\ OneReference /\ NullsAreKnown /\ NeverCrashes

Pointers == Cells \cup {Null, Unborn}

LEMMA VariableChanged ==
  ASSUME NEW v \in Vars, NEW c, \A u \in Vars \ {v} : ptr'[u] = ptr[u]
  PROVE  /\ Cardinality(OwnersIn(ptr, c)) \in Nat /\ Cardinality(OwnersIn(ptr', c)) \in Nat
         /\ Cardinality(OwnersIn(ptr', c)) + One(ptr[v], c)
              = Cardinality(OwnersIn(ptr, c)) + One(ptr'[v], c)
<1>1. PICK f : f = ptr
  OBVIOUS
<1>2. PICK g : g = ptr'
  OBVIOUS
<1>3. \A u \in Vars \ {v} : g[u] = f[u]
  BY <1>1, <1>2
<1>4. /\ Cardinality(OwnersIn(f, c)) \in Nat /\ Cardinality(OwnersIn(g, c)) \in Nat
      /\ Cardinality(OwnersIn(g, c)) + One(f[v], c) = Cardinality(OwnersIn(f, c)) + One(g[v], c)
  BY <1>3, OneChange
<1>5. OwnersIn(g, c) = OwnersIn(ptr', c) /\ OwnersIn(f, c) = OwnersIn(ptr, c)
  BY <1>1, <1>2
<1>6. One(g[v], c) = One(ptr'[v], c) /\ One(f[v], c) = One(ptr[v], c)
  BY <1>1, <1>2
<1> QED BY <1>4, <1>5, <1>6

\* A step that changes one variable keeps the counts if it changes them by the change of
\* the owners.
LEMMA Balance ==
  ASSUME HandlesTypeOK, CountIsOwners, NEW v \in Vars, NEW p \in Pointers,
         ptr' = [ptr EXCEPT ![v] = p], held' \in [Cells -> Nat], refs' \in [Cells -> Int],
         \A c \in Cells : refs'[c] + One(ptr[v], c) + held[c] = refs[c] + One(p, c) + held'[c]
  PROVE  CountIsOwners' /\ refs' \in [Cells -> Nat] /\ ptr' \in [Vars -> Pointers]
<1>1. ptr \in [Vars -> Pointers] /\ ptr' \in [Vars -> Pointers] /\ ptr'[v] = p
  BY DEF HandlesTypeOK, Pointers
<1>2. ASSUME NEW c \in Cells
      PROVE  refs'[c] = Cardinality(OwnersIn(ptr', c)) + held'[c] /\ refs'[c] \in Nat
  <2>1. \A u \in Vars \ {v} : ptr'[u] = ptr[u]
    BY <1>1
  <2>2. /\ Cardinality(OwnersIn(ptr, c)) \in Nat /\ Cardinality(OwnersIn(ptr', c)) \in Nat
        /\ Cardinality(OwnersIn(ptr', c)) + One(ptr[v], c)
             = Cardinality(OwnersIn(ptr, c)) + One(p, c)
    BY <1>1, <2>1, VariableChanged
  <2>3. refs[c] = Cardinality(OwnersIn(ptr, c)) + held[c]
    BY DEF CountIsOwners, Owners, OwnersIn
  <2>4. /\ refs[c] \in Nat /\ held[c] \in Nat /\ held'[c] \in Nat /\ refs'[c] \in Int
        /\ One(ptr[v], c) \in Nat /\ One(p, c) \in Nat
    BY DEF HandlesTypeOK, One
  <2> QED BY <2>2, <2>3, <2>4
<1>3. CountIsOwners'
  BY <1>2 DEF CountIsOwners, Owners, OwnersIn
<1> QED BY <1>1, <1>2, <1>3

\* A pointer that a variable holds is to an allocation that is counted for it, and for a
\* second one if there is one.
LEMMA Counted ==
  ASSUME HandlesTypeOK, CountIsOwners, NEW c \in Cells
  PROVE  /\ refs[c] \in Nat /\ held[c] \in Nat
         /\ held[c] <= refs[c]
         /\ \A v \in Vars : ptr[v] = c => refs[c] >= 1 + held[c]
         /\ \A v, w \in Vars : v # w /\ ptr[v] = c /\ ptr[w] = c => refs[c] >= 2
<1>1. refs[c] = Cardinality(OwnersIn(ptr, c)) + held[c]
  BY DEF CountIsOwners, Owners, OwnersIn
<1>2. refs[c] \in Nat /\ held[c] \in Nat
  BY DEF HandlesTypeOK
<1>3. /\ Cardinality(OwnersIn(ptr, c)) \in Nat
      /\ \A v \in Vars : ptr[v] = c => Cardinality(OwnersIn(ptr, c)) >= 1
      /\ \A v, w \in Vars :
           v # w /\ ptr[v] = c /\ ptr[w] = c => Cardinality(OwnersIn(ptr, c)) >= 2
  BY OwnersCount
<1> QED BY <1>1, <1>2, <1>3

\* A move changes two variables: the source loses what the target gains.
LEMMA BalanceMove ==
  ASSUME HandlesTypeOK, CountIsOwners, NEW v \in Vars, NEW w \in Vars, v # w,
         ptr' = [ptr EXCEPT ![v] = ptr[w], ![w] = Null], held' = held, refs' \in [Cells -> Int],
         \A c \in Cells : refs'[c] + One(ptr[v], c) = refs[c]
  PROVE  CountIsOwners' /\ refs' \in [Cells -> Nat] /\ ptr' \in [Vars -> Pointers]
<1>1. ptr \in [Vars -> Pointers] /\ ptr' \in [Vars -> Pointers]
  BY DEF HandlesTypeOK, Pointers
<1>2. ASSUME NEW c \in Cells
      PROVE  refs'[c] = Cardinality(OwnersIn(ptr', c)) + held'[c] /\ refs'[c] \in Nat
  <2>1. PICK f : f = ptr
    OBVIOUS
  <2>2. PICK g : g = [ptr EXCEPT ![v] = ptr[w]]
    OBVIOUS
  <2>3. PICK h : h = ptr'
    OBVIOUS
  <2>4. /\ \A u \in Vars \ {v} : g[u] = f[u]
        /\ \A u \in Vars \ {w} : h[u] = g[u]
        /\ g[v] = f[w] /\ g[w] = f[w] /\ h[w] = Null
    BY <1>1, <2>1, <2>2, <2>3
  <2>5. /\ Cardinality(OwnersIn(f, c)) \in Nat /\ Cardinality(OwnersIn(g, c)) \in Nat
        /\ Cardinality(OwnersIn(g, c)) + One(f[v], c) = Cardinality(OwnersIn(f, c)) + One(g[v], c)
    BY <2>4, OneChange
  <2>6. /\ Cardinality(OwnersIn(h, c)) \in Nat
        /\ Cardinality(OwnersIn(h, c)) + One(g[w], c) = Cardinality(OwnersIn(g, c)) + One(h[w], c)
    <3>1. \A u \in Vars \ {w} : h[u] = g[u]
      BY <2>4
    <3> QED BY <3>1, OneChange
  <2>7. One(h[w], c) = 0 /\ One(g[v], c) = One(g[w], c)
        /\ One(g[w], c) \in Nat /\ One(f[v], c) \in Nat
    BY <2>4, NullIsNoCell DEF One
  <2>8. Cardinality(OwnersIn(h, c)) + One(f[v], c) = Cardinality(OwnersIn(f, c))
    BY <2>5, <2>6, <2>7
  <2>9. refs[c] = Cardinality(OwnersIn(f, c)) + held[c]
    BY <2>1 DEF CountIsOwners, Owners, OwnersIn
  <2>10. refs'[c] + One(f[v], c) = refs[c] /\ held'[c] = held[c]
         /\ held[c] \in Nat /\ refs'[c] \in Int
    BY <2>1 DEF HandlesTypeOK
  <2>11. refs'[c] = Cardinality(OwnersIn(h, c)) + held'[c] /\ refs'[c] \in Nat
    BY <2>5, <2>6, <2>7, <2>8, <2>9, <2>10
  <2>12. OwnersIn(h, c) = OwnersIn(ptr', c)
    BY <2>3
  <2> QED BY <2>11, <2>12
<1>3. CountIsOwners'
  BY <1>2 DEF CountIsOwners, Owners, OwnersIn
<1> QED BY <1>1, <1>2, <1>3

\* What others do with their references leaves the variables alone.
LEMMA BalanceOthers ==
  ASSUME HandlesTypeOK, CountIsOwners, ptr' = ptr, held' \in [Cells -> Nat], refs' \in [Cells -> Int],
         \A c \in Cells : refs'[c] + held[c] = refs[c] + held'[c]
  PROVE  CountIsOwners' /\ refs' \in [Cells -> Nat]
<1>1. ASSUME NEW c \in Cells
      PROVE  refs'[c] = Cardinality(OwnersIn(ptr, c)) + held'[c] /\ refs'[c] \in Nat
  <2>1. refs[c] = Cardinality(OwnersIn(ptr, c)) + held[c]
    BY DEF CountIsOwners, Owners, OwnersIn
  <2>2. /\ Cardinality(OwnersIn(ptr, c)) \in Nat
        /\ held[c] \in Nat /\ held'[c] \in Nat /\ refs'[c] \in Int
    BY OwnersCount DEF HandlesTypeOK
  <2> QED BY <2>1, <2>2
<1> QED BY <1>1 DEF CountIsOwners, Owners, OwnersIn

\* What is left to show of a step once the counts are right.
Rest ==
  /\ class' = class /\ empty' \subseteq Vars /\ unnoticed' \in BOOLEAN
  /\ held' \in [Cells -> Nat]
  /\ unnoticed => unnoticed'
  /\ crashed' = "no" \/ (crashed' = "null" /\ unnoticed')
  /\ class = NextHopClass => \A c \in Cells : refs'[c] <= 1
  /\ \A v \in Vars : ptr'[v] = Null => v \in empty' \/ unnoticed'

LEMMA RestSuffices ==
  ASSUME IInv, Rest, CountIsOwners', refs' \in [Cells -> Nat], ptr' \in [Vars -> Pointers]
  PROVE  IInv'
BY DEF IInv, Rest, HandlesTypeOK, OneReference, NullsAreKnown, NeverCrashes, Pointers

\* What a put, a get and an allocation make of the counts.
LEMMA CountChanges ==
  ASSUME NEW r \in [Cells -> Int], NEW p \in Pointers
  PROVE  /\ Put(r, p) \in [Cells -> Int] /\ \A c \in Cells : Put(r, p)[c] = r[c] - One(p, c)
         /\ Get(r, p) \in [Cells -> Int] /\ \A c \in Cells : Get(r, p)[c] = r[c] + One(p, c)
         /\ p \in Cells /\ r[p] = 0 =>
              New(r, p) \in [Cells -> Int] /\ \A c \in Cells : New(r, p)[c] = r[c] + One(p, c)
<1>1. CASE p \in Cells
  BY <1>1 DEF Put, Get, New, One
<1>2. CASE p \notin Cells
  BY <1>2 DEF Put, Get, New, One
<1> QED BY <1>1, <1>2

LEMMA OneIsNat == \A p, c : One(p, c) \in {0, 1} /\ (One(p, c) = 1 <=> p = c)
BY DEF One

-----------------------------------------------------------------------------
(* The steps *)

\* A constructor that makes v point to p, and the references that come with it.
LEMMA VariableMade ==
  ASSUME IInv, NEW v \in Vars, NEW p \in Cells \cup {Null}, ptr[v] = Unborn,
         ptr' = [ptr EXCEPT ![v] = p], held' \in [Cells -> Nat], refs' \in [Cells -> Int],
         \A c \in Cells : refs'[c] + held[c] = refs[c] + One(p, c) + held'[c]
  PROVE  CountIsOwners' /\ refs' \in [Cells -> Nat] /\ ptr' \in [Vars -> Pointers]
<1>1. \A c \in Cells : One(ptr[v], c) = 0
  BY NullIsNoCell DEF One
<1>2. \A c \in Cells : refs'[c] + One(ptr[v], c) + held[c] = refs[c] + One(p, c) + held'[c]
  BY <1>1 DEF IInv, HandlesTypeOK
<1> QED BY <1>2, Balance DEF IInv, Pointers

LEMMA ConstructorKeeps ==
  ASSUME IInv, NEW v \in Vars, NEW c \in Cells, NEW new \in Cells, crashed = "no",
         \/ Construct(v, c) \/ ConstructTaking(v, c) \/ ConstructSharing(v, c)
         \/ ConstructCopying(v, c, new)
  PROVE  IInv'
<1>0. /\ refs \in [Cells -> Int] /\ held \in [Cells -> Nat] /\ ptr \in [Vars -> Pointers]
      /\ refs \in [Cells -> Nat] /\ Cells \subseteq Pointers
      /\ Null \notin Cells
  BY NullIsNoCell DEF IInv, HandlesTypeOK, Pointers
<1>1. CASE Construct(v, c)
  <2>1. /\ ptr[v] = Unborn /\ ptr' = [ptr EXCEPT ![v] = c] /\ refs[c] = 0
        /\ refs' = New(refs, c) /\ UNCHANGED <<class, empty, held, unnoticed, crashed>>
    BY <1>1 DEF Construct, Free
  <2>2. refs' \in [Cells -> Int] /\ \A d \in Cells : refs'[d] = refs[d] + One(c, d)
    BY <1>0, <2>1, CountChanges
  <2>3. \A d \in Cells : refs'[d] + held[d] = refs[d] + One(c, d) + held'[d]
    BY <1>0, <2>1, <2>2, OneIsNat
  <2>4. CountIsOwners' /\ refs' \in [Cells -> Nat] /\ ptr' \in [Vars -> Pointers]
    BY <1>0, <2>1, <2>2, <2>3, VariableMade
  <2>5. Rest
    BY <1>0, <2>1 DEF New, Rest, IInv, HandlesTypeOK, OneReference, NullsAreKnown
  <2> QED BY <2>4, <2>5, RestSuffices
<1>2. CASE ConstructCopying(v, c, new)
  <2>1. /\ ptr[v] = Unborn /\ ptr' = [ptr EXCEPT ![v] = new] /\ refs[new] = 0
        /\ refs' = New(refs, new) /\ UNCHANGED <<class, empty, held, unnoticed, crashed>>
    BY <1>2 DEF ConstructCopying, Free
  <2>2. refs' \in [Cells -> Int] /\ \A d \in Cells : refs'[d] = refs[d] + One(new, d)
    BY <1>0, <2>1, CountChanges
  <2>3. \A d \in Cells : refs'[d] + held[d] = refs[d] + One(new, d) + held'[d]
    BY <1>0, <2>1, <2>2, OneIsNat
  <2>4. CountIsOwners' /\ refs' \in [Cells -> Nat] /\ ptr' \in [Vars -> Pointers]
    BY <1>0, <2>1, <2>2, <2>3, VariableMade
  <2>5. Rest
    BY <1>0, <2>1 DEF New, Rest, IInv, HandlesTypeOK, OneReference, NullsAreKnown
  <2> QED BY <2>4, <2>5, RestSuffices
<1>3. CASE ConstructTaking(v, c)
  <2>1. /\ ptr[v] = Unborn /\ ptr' = [ptr EXCEPT ![v] = c] /\ held[c] > 0
        /\ held' = [held EXCEPT ![c] = @ - 1]
        /\ UNCHANGED <<class, empty, refs, unnoticed, crashed>>
    BY <1>3 DEF ConstructTaking
  <2>2. held' \in [Cells -> Nat] /\ \A d \in Cells : refs'[d] + held[d] = refs[d] + One(c, d) + held'[d]
    BY <1>0, <2>1 DEF One
  <2>4. CountIsOwners' /\ refs' \in [Cells -> Nat] /\ ptr' \in [Vars -> Pointers]
    BY <1>0, <2>1, <2>2, VariableMade
  <2>5. Rest
    BY <1>0, <2>1, <2>2 DEF Rest, IInv, HandlesTypeOK, OneReference, NullsAreKnown
  <2> QED BY <2>4, <2>5, RestSuffices
<1>4. CASE ConstructSharing(v, c)
  <2>1. /\ ptr[v] = Unborn /\ ptr' = [ptr EXCEPT ![v] = c] /\ refs' = Get(refs, c)
        /\ UNCHANGED <<class, empty, held, unnoticed, crashed>> /\ class # NextHopClass
    BY <1>4 DEF ConstructSharing, NextHopClass
  <2>2. refs' \in [Cells -> Int] /\ \A d \in Cells : refs'[d] = refs[d] + One(c, d)
    BY <1>0, <2>1, CountChanges
  <2>3. \A d \in Cells : refs'[d] + held[d] = refs[d] + One(c, d) + held'[d]
    BY <1>0, <2>1, <2>2, OneIsNat
  <2>4. CountIsOwners' /\ refs' \in [Cells -> Nat] /\ ptr' \in [Vars -> Pointers]
    BY <1>0, <2>1, <2>2, <2>3, VariableMade
  <2>5. Rest
    BY <1>0, <2>1 DEF Rest, IInv, HandlesTypeOK, NullsAreKnown
  <2> QED BY <2>4, <2>5, RestSuffices
<1> QED BY <1>1, <1>2, <1>3, <1>4

LEMMA CopyKeeps ==
  ASSUME IInv, NEW v \in Vars, NEW w \in Vars, NEW new, NEW p \in Cells \cup {Null},
         crashed = "no", CopyConstruct(v, w, new) \/ GetByName(v, p)
  PROVE  IInv'
<1>0. /\ refs \in [Cells -> Int] /\ held \in [Cells -> Nat] /\ ptr \in [Vars -> Pointers]
      /\ refs \in [Cells -> Nat] /\ Cells \cup {Null} \subseteq Pointers
      /\ Null \notin Cells
  BY NullIsNoCell DEF IInv, HandlesTypeOK, Pointers
<1>1. CASE CopyConstruct(v, w, new) /\ class.copy = "clone"
  <2>1. /\ ptr[v] = Unborn /\ ptr' = [ptr EXCEPT ![v] = new] /\ new \in Cells /\ refs[new] = 0
        /\ refs' = New(refs, new) /\ UNCHANGED <<class, empty, held, unnoticed, crashed>>
    BY <1>1 DEF CopyConstruct, Free
  <2>2. refs' \in [Cells -> Int] /\ \A d \in Cells : refs'[d] = refs[d] + One(new, d)
    BY <1>0, <2>1, CountChanges
  <2>3. \A d \in Cells : refs'[d] + held[d] = refs[d] + One(new, d) + held'[d]
    BY <1>0, <2>1, <2>2, OneIsNat
  <2>4. CountIsOwners' /\ refs' \in [Cells -> Nat] /\ ptr' \in [Vars -> Pointers]
    BY <1>0, <2>1, <2>2, <2>3, VariableMade
  <2>5. Rest
    BY <1>0, <2>1 DEF New, Rest, IInv, HandlesTypeOK, OneReference, NullsAreKnown
  <2> QED BY <2>4, <2>5, RestSuffices
<1>2. CASE CopyConstruct(v, w, new) /\ class.copy # "clone"
  <2>1. /\ ptr[v] = Unborn /\ ptr' = [ptr EXCEPT ![v] = ptr[w]] /\ ptr[w] \in Cells
        /\ refs' = Get(refs, ptr[w]) /\ UNCHANGED <<class, empty, held, unnoticed, crashed>>
        /\ class # NextHopClass
    BY <1>0, <1>2 DEF CopyConstruct, Copyable, NextHopClass, Pointers
  <2>2. refs' \in [Cells -> Int] /\ \A d \in Cells : refs'[d] = refs[d] + One(ptr[w], d)
    BY <1>0, <2>1, CountChanges
  <2>3. \A d \in Cells : refs'[d] + held[d] = refs[d] + One(ptr[w], d) + held'[d]
    BY <1>0, <2>1, <2>2, OneIsNat
  <2>4. CountIsOwners' /\ refs' \in [Cells -> Nat] /\ ptr' \in [Vars -> Pointers]
    BY <1>0, <2>1, <2>2, <2>3, VariableMade
  <2>5. Rest
    BY <1>0, <2>1 DEF Rest, IInv, HandlesTypeOK, NullsAreKnown
  <2> QED BY <2>4, <2>5, RestSuffices
<1>3. CASE GetByName(v, p)
  <2>1. /\ ptr[v] = Unborn /\ ptr' = [ptr EXCEPT ![v] = p] /\ refs' = Get(refs, p)
        /\ empty' = IF p = Null THEN empty \cup {v} ELSE empty
        /\ UNCHANGED <<class, held, unnoticed, crashed>> /\ class # NextHopClass
    BY <1>3 DEF GetByName, NextHopClass, RouteLinkClass
  <2>2. refs' \in [Cells -> Int] /\ \A d \in Cells : refs'[d] = refs[d] + One(p, d)
    BY <1>0, <2>1, CountChanges
  <2>3. \A d \in Cells : refs'[d] + held[d] = refs[d] + One(p, d) + held'[d]
    BY <1>0, <2>1, <2>2, OneIsNat
  <2>4. CountIsOwners' /\ refs' \in [Cells -> Nat] /\ ptr' \in [Vars -> Pointers]
    BY <1>0, <2>1, <2>2, <2>3, VariableMade
  <2>5. Rest
    BY <1>0, <2>1 DEF Rest, IInv, HandlesTypeOK, NullsAreKnown
  <2> QED BY <2>4, <2>5, RestSuffices
<1> QED BY <1>1, <1>2, <1>3

\* libnl is given a null pointer only if nobody has told the program.
LEMMA NullKeeps ==
  ASSUME IInv, NEW v \in Vars, crashed = "no", Access(v) \/ CopyNull(v)
  PROVE  IInv'
<1>1. /\ ptr[v] = Null /\ v \notin empty /\ crashed' = "null"
      /\ UNCHANGED <<class, ptr, empty, refs, held, unnoticed>>
  BY DEF Access, CopyNull, Copyable
<1>2. unnoticed
  BY <1>1 DEF IInv, NullsAreKnown
<1> QED BY <1>1, <1>2 DEF IInv, HandlesTypeOK, CountIsOwners, Owners, OneReference, NullsAreKnown,
                        NeverCrashes

LEMMA MoveKeeps ==
  ASSUME IInv, NEW v \in Vars, NEW w \in Vars, crashed = "no",
         MoveConstruct(v, w) \/ MoveAssign(v, w)
  PROVE  IInv'
<1>0. /\ refs \in [Cells -> Int] /\ held \in [Cells -> Nat] /\ ptr \in [Vars -> Pointers]
      /\ refs \in [Cells -> Nat]
  BY DEF IInv, HandlesTypeOK, Pointers
<1>1. v # w /\ Moves(v, w)
  BY DEF MoveConstruct, MoveAssign
<1>2. refs' \in [Cells -> Int] /\ \A c \in Cells : refs'[c] = refs[c] - One(ptr[v], c)
  <2>1. CASE MoveConstruct(v, w)
    BY <1>0, <2>1, NullIsNoCell DEF MoveConstruct, One
  <2>2. CASE MoveAssign(v, w)
    BY <1>0, <2>2, CountChanges DEF MoveAssign
  <2> QED BY <2>1, <2>2
<1>3. \A c \in Cells : refs'[c] + One(ptr[v], c) = refs[c]
  BY <1>0, <1>2, OneIsNat
<1>4. CountIsOwners' /\ refs' \in [Cells -> Nat] /\ ptr' \in [Vars -> Pointers]
  BY <1>1, <1>2, <1>3, BalanceMove DEF Moves, IInv
<1>5. class = NextHopClass => \A c \in Cells : refs'[c] <= 1
  <2>1. \A c \in Cells : refs'[c] <= refs[c]
    BY <1>0, <1>2, OneIsNat
  <2> QED BY <1>0, <1>4, <2>1 DEF IInv, OneReference
<1>6. Rest
  <2>1. \A u \in Vars : ptr'[u] = Null => u \in empty' \/ unnoticed'
    BY <1>0, <1>1 DEF Moves, IInv, NullsAreKnown
  <2> QED BY <1>1, <1>5, <2>1 DEF Moves, Rest, IInv, HandlesTypeOK
<1> QED BY <1>4, <1>6, RestSuffices

\* The allocation that is copied from has an owner besides the variable assigned to, so
\* putting the old pointer first does not free it.
LEMMA CopyAssignKeeps ==
  ASSUME IInv, NEW v \in Vars, NEW w \in Vars, NEW new \in Cells, crashed = "no",
         CopyAssign(v, w, new)
  PROVE  IInv'
<1> DEFINE r == Put(refs, ptr[v])
<1>0. /\ refs \in [Cells -> Int] /\ held \in [Cells -> Nat] /\ ptr \in [Vars -> Pointers]
      /\ refs \in [Cells -> Nat] /\ Cells \subseteq Pointers /\ Null \notin Cells
  BY NullIsNoCell DEF IInv, HandlesTypeOK, Pointers
<1>1. /\ v # w /\ ptr[w] \in Cells
      /\ crashed' = IF r[ptr[w]] = 0 THEN "dangling" ELSE "no"
      /\ empty' = empty \ {v} /\ UNCHANGED <<class, held, unnoticed>>
  BY <1>0 DEF CopyAssign, Assigns, Copyable, Pointers
<1>2. r \in [Cells -> Int] /\ \A c \in Cells : r[c] = refs[c] - One(ptr[v], c)
  BY <1>0, CountChanges
<1>3. refs[ptr[w]] \in Nat /\ refs[ptr[w]] >= 1 /\ (ptr[v] = ptr[w] => refs[ptr[w]] >= 2)
  <2>1. /\ refs[ptr[w]] \in Nat /\ held[ptr[w]] \in Nat /\ refs[ptr[w]] >= 1 + held[ptr[w]]
        /\ ptr[v] = ptr[w] => refs[ptr[w]] >= 2
    BY <1>1, Counted DEF IInv
  <2> QED BY <2>1
<1>4. crashed' = "no"
  <2>1. r[ptr[w]] = refs[ptr[w]] - One(ptr[v], ptr[w])
    BY <1>1, <1>2
  <2>2. r[ptr[w]] # 0
    BY <1>3, <2>1 DEF One
  <2> QED BY <1>1, <2>2
<1>5. PICK p \in Cells :
        /\ ptr' = [ptr EXCEPT ![v] = p] /\ refs' \in [Cells -> Int]
        /\ \A c \in Cells : refs'[c] = r[c] + One(p, c)
        /\ class.copy = "clone" => r[p] = 0
  <2>1. CASE class.copy = "clone"
    <3>1. r[new] = 0 /\ ptr' = [ptr EXCEPT ![v] = new] /\ refs' = New(r, new)
      BY <2>1 DEF CopyAssign, Assigns
    <3>2. refs' \in [Cells -> Int] /\ \A c \in Cells : refs'[c] = r[c] + One(new, c)
      <4> HIDE DEF r
      <4> QED BY <1>0, <1>2, <3>1, CountChanges
    <3> QED BY <3>1, <3>2
  <2>2. CASE class.copy # "clone"
    <3>1. ptr' = [ptr EXCEPT ![v] = ptr[w]] /\ refs' = Get(r, ptr[w])
      BY <2>2 DEF CopyAssign, Assigns
    <3>2. refs' \in [Cells -> Int] /\ \A c \in Cells : refs'[c] = r[c] + One(ptr[w], c)
      <4> HIDE DEF r
      <4> QED BY <1>0, <1>1, <1>2, <3>1, CountChanges
    <3> QED BY <1>1, <2>2, <3>1, <3>2
  <2> QED BY <2>1, <2>2
<1> HIDE DEF r
<1>6. \A c \in Cells : refs'[c] + One(ptr[v], c) + held[c] = refs[c] + One(p, c) + held'[c]
  BY <1>0, <1>1, <1>2, <1>5, OneIsNat
<1>7. CountIsOwners' /\ refs' \in [Cells -> Nat] /\ ptr' \in [Vars -> Pointers]
  BY <1>0, <1>1, <1>5, <1>6, Balance DEF IInv
<1>8. class = NextHopClass => \A c \in Cells : refs'[c] <= 1
  <2> SUFFICES ASSUME class = NextHopClass, NEW c \in Cells PROVE refs'[c] <= 1
    OBVIOUS
  <2>1. r[p] = 0 /\ refs[c] <= 1
    BY <1>5 DEF NextHopClass, IInv, OneReference
  <2>2. CASE c = p
    BY <1>5, <2>1, <2>2 DEF One
  <2>3. CASE c # p
    BY <1>0, <1>2, <1>5, <2>1, <2>3, OneIsNat
  <2> QED BY <2>2, <2>3
<1>9. Rest
  BY <1>0, <1>1, <1>4, <1>5, <1>8 DEF Rest, IInv, HandlesTypeOK, NullsAreKnown
<1> QED BY <1>7, <1>9, RestSuffices

\* Steps by which a variable gives up its pointer.
LEMMA ReleaseKeeps ==
  ASSUME IInv, NEW v \in Vars, NEW w \in Vars, crashed = "no",
         CopyAssignFails(v, w) \/ Destroy(v) \/ Take(v)
  PROVE  IInv'
<1>0. /\ refs \in [Cells -> Int] /\ held \in [Cells -> Nat] /\ ptr \in [Vars -> Pointers]
      /\ refs \in [Cells -> Nat] /\ {Null, Unborn} \subseteq Pointers
      /\ {Null, Unborn} \cap Cells = {} /\ Null # Unborn
  BY NullIsNoCell DEF IInv, HandlesTypeOK, Pointers
<1>1. PICK p \in {Null, Unborn} :
        /\ ptr' = [ptr EXCEPT ![v] = p] /\ class' = class /\ crashed' = crashed
        /\ empty' \subseteq Vars /\ unnoticed' \in BOOLEAN
        /\ p = Null => v \in empty' \/ unnoticed'
        /\ \A u \in Vars \ {v} : u \in empty => u \in empty'
        /\ unnoticed => unnoticed'
  BY <1>0 DEF CopyAssignFails, Destroy, Take, IInv, HandlesTypeOK
<1>2. /\ refs' \in [Cells -> Int] /\ held' \in [Cells -> Nat]
      /\ \A c \in Cells : refs'[c] + One(ptr[v], c) + held[c] = refs[c] + One(p, c) + held'[c]
      /\ \A c \in Cells : refs'[c] <= refs[c]
  <2>0. \A c \in Cells : One(p, c) = 0
    BY <1>0 DEF One
  <2>1. CASE CopyAssignFails(v, w) \/ Destroy(v)
    <3>1. refs' = Put(refs, ptr[v]) /\ held' = held
      BY <2>1 DEF CopyAssignFails, Destroy
    <3>2. refs' \in [Cells -> Int] /\ \A c \in Cells : refs'[c] = refs[c] - One(ptr[v], c)
      BY <1>0, <3>1, CountChanges
    <3> QED BY <1>0, <2>0, <3>1, <3>2, OneIsNat
  <2>2. CASE Take(v)
    <3>1. ptr[v] \in Cells /\ refs' = refs /\ held' = [held EXCEPT ![ptr[v]] = @ + 1]
      BY <2>2 DEF Take
    <3> QED BY <1>0, <2>0, <3>1 DEF One
  <2> QED BY <2>1, <2>2
<1>3. CountIsOwners' /\ refs' \in [Cells -> Nat] /\ ptr' \in [Vars -> Pointers]
  BY <1>0, <1>1, <1>2, Balance DEF IInv
<1>4. Rest
  <2>1. class = NextHopClass => \A c \in Cells : refs'[c] <= 1
    BY <1>0, <1>2, <1>3 DEF IInv, OneReference
  <2>2. \A u \in Vars : ptr'[u] = Null => u \in empty' \/ unnoticed'
    BY <1>0, <1>1 DEF IInv, NullsAreKnown
  <2> QED BY <1>1, <1>2, <2>1, <2>2 DEF Rest
<1> QED BY <1>3, <1>4, RestSuffices

\* libnl and the caller account for what they do.
LEMMA OthersKeep ==
  ASSUME IInv, NEW c \in Cells, crashed = "no", OthersMake(c) \/ OthersGet(c) \/ OthersPut(c)
  PROVE  IInv'
<1>0. /\ refs \in [Cells -> Int] /\ held \in [Cells -> Nat]
      /\ refs \in [Cells -> Nat] /\ c \in Pointers
  BY DEF IInv, HandlesTypeOK, Pointers
<1>1. UNCHANGED <<class, ptr, empty, unnoticed, crashed>>
  BY DEF OthersMake, OthersGet, OthersPut
<1>2. held[c] <= refs[c]
  BY Counted DEF IInv
<1>3. /\ refs' \in [Cells -> Int] /\ held' \in [Cells -> Nat]
      /\ \A d \in Cells : refs'[d] + held[d] = refs[d] + held'[d]
      /\ class = NextHopClass => \A d \in Cells : refs'[d] <= 1
  <2>1. CASE OthersMake(c)
    <3>1. refs[c] = 0 /\ refs' = [refs EXCEPT ![c] = 1] /\ held' = [held EXCEPT ![c] = 1]
      BY <2>1 DEF OthersMake, Free, New
    <3>2. held[c] = 0
      BY <1>0, <1>2, <3>1
    <3> QED BY <1>0, <3>1, <3>2 DEF IInv, OneReference
  <2>2. CASE OthersGet(c)
    <3>1. /\ refs' = [refs EXCEPT ![c] = @ + 1] /\ held' = [held EXCEPT ![c] = @ + 1]
          /\ class # NextHopClass
      BY <2>2 DEF OthersGet, Get
    <3> QED BY <1>0, <3>1
  <2>3. CASE OthersPut(c)
    <3>1. /\ refs' = [refs EXCEPT ![c] = @ - 1] /\ held' = [held EXCEPT ![c] = @ - 1]
          /\ held[c] > 0
      BY <2>3 DEF OthersPut, Put
    <3> QED BY <1>0, <3>1 DEF IInv, OneReference
  <2> QED BY <2>1, <2>2, <2>3
<1>4. CountIsOwners' /\ refs' \in [Cells -> Nat]
  BY <1>1, <1>3, BalanceOthers DEF IInv
<1>5. Rest /\ ptr' \in [Vars -> Pointers]
  BY <1>1, <1>3 DEF Rest, IInv, HandlesTypeOK, NullsAreKnown, Pointers
<1> QED BY <1>4, <1>5, RestSuffices

-----------------------------------------------------------------------------
\* The invariant holds whatever a program does with variables of a wrapper class, and libnl
\* and other owners with the same allocations.
LEMMA IInvHolds == HandlesSpec => []IInv
<1>1. HandlesInit => IInv
  <2> SUFFICES ASSUME HandlesInit PROVE IInv
    OBVIOUS
  <2>1. \A c \in Cells : Owners(c) = {}
    BY NullIsNoCell DEF HandlesInit, Owners
  <2>2. CountIsOwners
    BY <2>1, FS_EmptySet DEF HandlesInit, CountIsOwners
  <2>3. HandlesTypeOK
    BY DEF HandlesInit, HandlesTypeOK
  <2>4. OneReference /\ NullsAreKnown /\ NeverCrashes
    BY NullIsNoCell DEF HandlesInit, OneReference, NullsAreKnown, NeverCrashes
  <2> QED BY <2>2, <2>3, <2>4 DEF IInv
<1>2. IInv /\ [HandlesNext]_handleVars => IInv'
  <2> SUFFICES ASSUME IInv, [HandlesNext]_handleVars PROVE IInv'
    OBVIOUS
  <2>1. CASE UNCHANGED handleVars
    BY <2>1 DEF handleVars, IInv, HandlesTypeOK, CountIsOwners, Owners, OneReference, NullsAreKnown,
                NeverCrashes
  <2>2. CASE crashed = "no" /\ Program
    <3>1. ASSUME NEW v \in Vars, NEW c \in Cells, NEW new \in Cells,
                 \/ Construct(v, c) \/ ConstructTaking(v, c) \/ ConstructSharing(v, c)
                 \/ ConstructCopying(v, c, new)
          PROVE  IInv'
      BY <2>2, <3>1, ConstructorKeeps
    <3>2. ASSUME NEW v \in Vars, NEW w \in Vars, NEW new \in Cells,
                 CopyConstruct(v, w, new) \/ CopyAssign(v, w, new)
          PROVE  IInv'
      BY <2>2, <3>2, CopyKeeps, CopyAssignKeeps
    <3>3. ASSUME NEW v \in Vars, NEW w \in Vars,
                 MoveConstruct(v, w) \/ MoveAssign(v, w) \/ CopyAssignFails(v, w)
          PROVE  IInv'
      BY <2>2, <3>3, MoveKeeps, ReleaseKeeps
    <3>4. ASSUME NEW v \in Vars, NEW p \in Cells \cup {Null}, GetByName(v, p) PROVE IInv'
      BY <2>2, <3>4, CopyKeeps
    <3>5. ASSUME NEW v \in Vars, Access(v) \/ CopyNull(v) \/ Destroy(v) \/ Take(v) PROVE IInv'
      BY <2>2, <3>5, NullKeeps, ReleaseKeeps
    <3> QED BY <2>2, <3>1, <3>2, <3>3, <3>4, <3>5 DEF Program
  <2>3. CASE crashed = "no" /\ Others
    BY <2>3, OthersKeep DEF Others
  <2> QED BY <2>1, <2>2, <2>3 DEF HandlesNext
<1> QED BY <1>1, <1>2, PTL DEF HandlesSpec

\* Every variable keeps its type; no reference count goes below zero.
THEOREM TypeCorrect == HandlesSpec => []HandlesTypeOK
<1>1. IInv => HandlesTypeOK
  BY DEF IInv
<1> QED BY <1>1, IInvHolds, PTL

\* Every reference count is the number of owners: nothing is leaked or freed too early.
THEOREM CountsAreRight == HandlesSpec => []CountIsOwners
<1>1. IInv => CountIsOwners
  BY DEF IInv
<1> QED BY <1>1, IInvHolds, PTL

\* No pointer given to libnl dangles, and none is null but after an assignment of Address
\* that failed without a word.
THEOREM NothingDangles == HandlesSpec => []NeverCrashes
<1>1. IInv => NeverCrashes
  BY DEF IInv
<1> QED BY <1>1, IInvHolds, PTL

\* A next hop, of which libnl keeps no count, has one owner at most: a variable or the route
\* it was given to.
THEOREM HopsHaveOneOwner == HandlesSpec => []OneOwner
<1>1. IInv => OneOwner
  <2> SUFFICES ASSUME IInv, class = NextHopClass, NEW c \in Cells
               PROVE  /\ held[c] <= 1 /\ (held[c] = 1 => Owners(c) = {})
                      /\ \A v, w \in Owners(c) : v = w
    BY DEF OneOwner
  <2>1. /\ refs[c] \in Nat /\ held[c] \in Nat /\ held[c] <= refs[c] /\ refs[c] <= 1
        /\ \A v \in Vars : ptr[v] = c => refs[c] >= 1 + held[c]
        /\ \A v, w \in Vars : v # w /\ ptr[v] = c /\ ptr[w] = c => refs[c] >= 2
    BY Counted DEF IInv, OneReference
  <2> QED BY <2>1 DEF Owners
<1> QED BY <1>1, IInvHolds, PTL
=============================================================================
