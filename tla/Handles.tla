------------------------------- MODULE Handles -------------------------------
(***************************************************************************)
(* The classes that wrap a libnl pointer (Address, Cache, RouteAddress,    *)
(* RouteLink, NextHop, Route, Message): how their constructors, assignment *)
(* operators and destructors pass ownership of the allocations around, and *)
(* who else owns them: libnl's caches and lists, the caller of the library.*)
(*                                                                         *)
(* A program may copy a variable unless it knows that it is empty: moved   *)
(* from, taken from, left by an assignment that threw, or returned by a    *)
(* search that found nothing.  A clone may fail for want of memory; in a   *)
(* constructor that throws and makes no variable, which is no step.        *)
(***************************************************************************)
EXTENDS Integers, FiniteSets

CONSTANTS
  Vars,     \* C++ variables of one class
  Cells,    \* memory for libnl objects
  Null,     \* the null pointer
  Unborn,   \* the variable is not constructed
  MaxHeld   \* bound on the references others hold to an allocation

ASSUME NullIsNoCell == {Null, Unborn} \cap Cells = {} /\ Null # Unborn
ASSUME HeldIsNat == MaxHeld \in Nat
ASSUME VarsAreFinite == IsFiniteSet(Vars)

VARIABLES
  class,    \* the class of the variables
  ptr,      \* ptr[v]: the pointer in variable v
  empty,    \* the variables the program knows to hold no object
  refs,     \* refs[c]: the reference count in allocation c, 0 = free memory
  held,     \* held[c]: references held by libnl and by the caller
  unnoticed,\* an assignment has failed without a word
  crashed   \* libnl has dereferenced a null or a dangling pointer: "no", "null", ...

handleVars == <<class, ptr, empty, refs, held, unnoticed, crashed>>

-----------------------------------------------------------------------------
\* What a class does: whether its objects can be made anew (alloc), what its copy
\* constructor and copy assignment do, which tags its pointer constructors take, and
\* whether it has an operation that gives the pointer away (take).
AddressClass == [name |-> "Address", alloc |-> TRUE, copy |-> "clone", give |-> FALSE,
                 tags |-> {"copy", "take", "share"}]
CacheClass == [name |-> "Cache", alloc |-> FALSE, copy |-> "share", give |-> FALSE,
               tags |-> {"copy", "take", "share"}]
RouteAddressClass == [name |-> "RouteAddress", alloc |-> TRUE, copy |-> "none",
                      give |-> FALSE, tags |-> {"take", "share"}]
RouteLinkClass == [name |-> "RouteLink", alloc |-> TRUE, copy |-> "none",
                   give |-> FALSE, tags |-> {"take", "share"}]
NextHopClass == [name |-> "NextHop", alloc |-> TRUE, copy |-> "clone", give |-> TRUE,
                 tags |-> {"copy", "take"}]
RouteClass == [name |-> "Route", alloc |-> TRUE, copy |-> "none", give |-> FALSE,
               tags |-> {"take", "share"}]
MessageClass == [name |-> "Message", alloc |-> TRUE, copy |-> "none", give |-> FALSE,
                 tags |-> {"share"}]
Classes == {AddressClass, CacheClass, RouteAddressClass, RouteLinkClass, NextHopClass,
            RouteClass, MessageClass}

Free == {c \in Cells : refs[c] = 0}

\* rtnl_nexthop has no count: its free is final, like the last put of the others.
Put(r, p) == IF p \in Cells THEN [r EXCEPT ![p] = @ - 1] ELSE r
Get(r, p) == IF p \in Cells THEN [r EXCEPT ![p] = @ + 1] ELSE r
New(r, c) == [r EXCEPT ![c] = 1]

-----------------------------------------------------------------------------
(* Constructors *)

\* The default constructor, and Address from a string.
Construct(v, c) ==
  /\ ptr[v] = Unborn /\ class.alloc /\ c \in Free
  /\ ptr' = [ptr EXCEPT ![v] = c]
  /\ refs' = New(refs, c)
  /\ UNCHANGED <<class, empty, held, unnoticed, crashed>>

\* The pointer constructors.  The caller has a reference to c, and gives it up with
\* take_ownership_of_pointer.
ConstructTaking(v, c) ==
  /\ ptr[v] = Unborn /\ "take" \in class.tags /\ held[c] > 0
  /\ ptr' = [ptr EXCEPT ![v] = c]
  /\ held' = [held EXCEPT ![c] = @ - 1]
  /\ UNCHANGED <<class, empty, refs, unnoticed, crashed>>

ConstructSharing(v, c) ==
  /\ ptr[v] = Unborn /\ "share" \in class.tags /\ held[c] > 0
  /\ ptr' = [ptr EXCEPT ![v] = c]
  /\ refs' = Get(refs, c)
  /\ UNCHANGED <<class, empty, held, unnoticed, crashed>>

ConstructCopying(v, c, new) ==
  /\ ptr[v] = Unborn /\ "copy" \in class.tags /\ held[c] > 0 /\ new \in Free
  /\ ptr' = [ptr EXCEPT ![v] = new]
  /\ refs' = New(refs, new)
  /\ UNCHANGED <<class, empty, held, unnoticed, crashed>>

\* RouteLinkCache::getByName.  The cache has an object with the name, to which the search
\* adds a reference, or it has none: the variable is made all the same, and its operator
\* bool tells.
GetByName(v, p) ==
  /\ ptr[v] = Unborn /\ class = RouteLinkClass /\ p \in {Null} \cup {c \in Cells : held[c] > 0}
  /\ ptr' = [ptr EXCEPT ![v] = p]
  /\ refs' = Get(refs, p)
  /\ empty' = IF p = Null THEN empty \cup {v} ELSE empty
  /\ UNCHANGED <<class, held, unnoticed, crashed>>

\* An accessor gives libnl the pointer to dereference.
Access(v) ==
  /\ ptr[v] = Null /\ v \notin empty
  /\ crashed' = "null"
  /\ UNCHANGED <<class, ptr, empty, refs, held, unnoticed>>

Copyable(w) == ptr[w] # Unborn /\ w \notin empty /\ class.copy # "none"

\* Copying a variable whose pointer is null: libnl dereferences it.
CopyNull(w) ==
  /\ Copyable(w) /\ ptr[w] = Null
  /\ crashed' = "null"
  /\ UNCHANGED <<class, ptr, empty, refs, held, unnoticed>>

CopyConstruct(v, w, new) ==
  /\ ptr[v] = Unborn /\ Copyable(w) /\ ptr[w] # Null /\ new \in Free
  /\ ptr' = [ptr EXCEPT ![v] = IF class.copy = "clone" THEN new ELSE ptr[w]]
  /\ refs' = IF class.copy = "clone" THEN New(refs, new) ELSE Get(refs, ptr[w])
  /\ UNCHANGED <<class, empty, held, unnoticed, crashed>>

\* The pointer moves from w to v, and with it what the program knows of v.
Moves(v, w) ==
  /\ ptr' = [ptr EXCEPT ![v] = ptr[w], ![w] = Null]
  /\ empty' = (empty \ {v}) \cup {w} \cup (IF w \in empty THEN {v} ELSE {})
  /\ UNCHANGED <<class, held, unnoticed, crashed>>

MoveConstruct(v, w) ==
  /\ ptr[v] = Unborn /\ ptr[w] # Unborn
  /\ Moves(v, w)
  /\ refs' = refs

-----------------------------------------------------------------------------
(* Assignment and destruction *)

\* Mutants: the old pointer is dropped without a put; the source keeps its pointer.
MoveAssignLeaking(v, w) ==
  /\ {ptr[v], ptr[w]} \cap {Unborn} = {} /\ v # w
  /\ Moves(v, w)
  /\ refs' = refs
MoveAssignKeeping(v, w) ==
  /\ {ptr[v], ptr[w]} \cap {Unborn} = {} /\ v # w
  /\ ptr' = [ptr EXCEPT ![v] = ptr[w]]
  /\ refs' = Put(refs, ptr[v])
  /\ UNCHANGED <<class, empty, held, unnoticed, crashed>>

\* Assigning a variable to itself changes nothing.
MoveAssign(v, w) ==
  /\ {ptr[v], ptr[w]} \cap {Unborn} = {} /\ v # w
  /\ Moves(v, w)
  /\ refs' = Put(refs, ptr[v])

\* The old pointer is put before the new one is made: a cell the put frees may be the
\* one the clone is given.  libnl reads ptr[w] after the put.
Assigns(v, w, new) ==
  /\ ptr[v] # Unborn /\ Copyable(w) /\ ptr[w] # Null
  /\ LET r == Put(refs, ptr[v])
     IN /\ crashed' = IF r[ptr[w]] = 0 THEN "dangling" ELSE "no"
        /\ IF class.copy = "clone"
             THEN /\ r[new] = 0
                  /\ ptr' = [ptr EXCEPT ![v] = new]
                  /\ refs' = New(r, new)
             ELSE /\ ptr' = [ptr EXCEPT ![v] = ptr[w]]
                  /\ refs' = Get(r, ptr[w])
  /\ empty' = empty \ {v}
  /\ UNCHANGED <<class, held, unnoticed>>

\* Mutant: without the comparison with this.
CopyAssignUnguarded(v, w, new) == Assigns(v, w, new)

CopyAssign(v, w, new) == v # w /\ Assigns(v, w, new)

\* A clone that fails leaves the null pointer: NextHop throws, Address says nothing.
CopyAssignFails(v, w) ==
  /\ class.copy = "clone"
  /\ v # w /\ ptr[v] # Unborn /\ Copyable(w) /\ ptr[w] # Null
  /\ ptr' = [ptr EXCEPT ![v] = Null]
  /\ refs' = Put(refs, ptr[v])
  /\ \/ class = NextHopClass /\ empty' = empty \cup {v} /\ unnoticed' = unnoticed
     \/ class # NextHopClass /\ empty' = empty \ {v} /\ unnoticed' = TRUE
  /\ UNCHANGED <<class, held, crashed>>

Destroy(v) ==
  /\ ptr[v] # Unborn
  /\ ptr' = [ptr EXCEPT ![v] = Unborn]
  /\ refs' = Put(refs, ptr[v])
  /\ empty' = empty \ {v}
  /\ UNCHANGED <<class, held, unnoticed, crashed>>

\* NextHop::take.
Take(v) ==
  /\ ptr[v] \in Cells /\ class.give /\ held[ptr[v]] < MaxHeld
  /\ ptr' = [ptr EXCEPT ![v] = Null]
  /\ held' = [held EXCEPT ![ptr[v]] = @ + 1]
  /\ empty' = empty \cup {v}
  /\ UNCHANGED <<class, refs, unnoticed, crashed>>

-----------------------------------------------------------------------------
(* libnl and the caller *)

OthersMake(c) ==
  /\ c \in Free /\ MaxHeld > 0
  /\ refs' = New(refs, c)
  /\ held' = [held EXCEPT ![c] = 1]
  /\ UNCHANGED <<class, ptr, empty, unnoticed, crashed>>

OthersGet(c) ==
  /\ refs[c] > 0 /\ held[c] < MaxHeld /\ class # NextHopClass
  /\ refs' = Get(refs, c)
  /\ held' = [held EXCEPT ![c] = @ + 1]
  /\ UNCHANGED <<class, ptr, empty, unnoticed, crashed>>

OthersPut(c) ==
  /\ held[c] > 0
  /\ refs' = Put(refs, c)
  /\ held' = [held EXCEPT ![c] = @ - 1]
  /\ UNCHANGED <<class, ptr, empty, unnoticed, crashed>>

-----------------------------------------------------------------------------
HandlesInit ==
  /\ class \in Classes
  /\ ptr = [v \in Vars |-> Unborn] /\ empty = {}
  /\ refs = [c \in Cells |-> 0] /\ held = [c \in Cells |-> 0]
  /\ unnoticed = FALSE /\ crashed = "no"

Program ==
  \/ \E v \in Vars, c \in Cells :
       Construct(v, c) \/ ConstructTaking(v, c) \/ ConstructSharing(v, c)
  \/ \E v \in Vars, c, new \in Cells : ConstructCopying(v, c, new)
  \/ \E v, w \in Vars, new \in Cells : CopyConstruct(v, w, new) \/ CopyAssign(v, w, new)
  \/ \E v, w \in Vars : MoveConstruct(v, w) \/ MoveAssign(v, w) \/ CopyAssignFails(v, w)
  \/ \E v \in Vars, p \in Cells \cup {Null} : GetByName(v, p)
  \/ \E v \in Vars : Access(v) \/ CopyNull(v) \/ Destroy(v) \/ Take(v)

Others == \E c \in Cells : OthersMake(c) \/ OthersGet(c) \/ OthersPut(c)

HandlesNext == crashed = "no" /\ (Program \/ Others)

HandlesSpec == HandlesInit /\ [][HandlesNext]_handleVars

-----------------------------------------------------------------------------
(* Properties *)

\* Each variable keeps its type; in particular no count goes below zero.
HandlesTypeOK ==
  /\ class \in Classes
  /\ ptr \in [Vars -> Cells \cup {Null, Unborn}] /\ empty \subseteq Vars
  /\ refs \in [Cells -> Nat] /\ held \in [Cells -> Nat]
  /\ unnoticed \in BOOLEAN /\ crashed \in {"no", "null", "dangling"}

\* The count of an allocation is the number of its owners: none is freed under a
\* variable that points to it, and none that has no owner is left allocated.
Owners(c) == {v \in Vars : ptr[v] = c}
CountIsOwners == \A c \in Cells : refs[c] = Cardinality(Owners(c)) + held[c]

\* A next hop has one owner at most: a variable, or the route it was given to.
OneOwner ==
  class = NextHopClass =>
    \A c \in Cells : /\ held[c] <= 1 /\ held[c] = 1 => Owners(c) = {}
                     /\ \A v, w \in Owners(c) : v = w

\* libnl is never given a dangling pointer, and a null one to dereference only after an
\* assignment of Address has failed without a word.
NeverCrashes == crashed = "no" \/ (crashed = "null" /\ unnoticed)
=============================================================================
