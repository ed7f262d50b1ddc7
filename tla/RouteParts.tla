------------------------------ MODULE RouteParts ------------------------------
(***************************************************************************)
(* The addresses that Address variables, a RouteAddress, a Route and its   *)
(* next hops hold: nl_addr objects with a reference count and an abstract  *)
(* address, its family and prefix length.  The setters clone the caller's  *)
(* address, except Route::dst, which shares it.                            *)
(*                                                                         *)
(* Broadcast stands for the parts of a RouteAddress that libnl treats      *)
(* alike (broadcast, multicast, anycast).  A program does not hand out a   *)
(* variable that holds no address; a call that throws changes nothing and  *)
(* is no step.                                                             *)
(***************************************************************************)
EXTENDS Integers, FiniteSets

CONSTANTS
  Vars,      \* Address variables
  Hops,      \* memory for next hops
  Cells,     \* memory for nl_addr objects
  Local, Broadcast, Dst,   \* the parts of the RouteAddress and the Route
  Families, Lengths,
  Null       \* the null pointer; no family; no value

ASSUME ThingsDiffer ==
  /\ Vars \cap Hops = {} /\ {Local, Broadcast, Dst} \cap (Vars \cup Hops) = {}
  /\ Local # Broadcast /\ Dst \notin {Local, Broadcast}
ASSUME ThingsAreFinite == IsFiniteSet(Vars) /\ IsFiniteSet(Hops)
ASSUME NullIsNone == Null \notin Cells \cup Families \cup [family : Families, prefix : Lengths]
ASSUME LengthsAreNat == Lengths \subseteq Nat /\ 0 \in Lengths

VARIABLES
  holds,     \* holds[x]: the nl_addr that a variable, a part or a gateway points to
  refs,      \* refs[c]: the reference count in cell c, 0 = free memory
  value,     \* value[c]: the address in cell c, Null in free memory
  family,    \* the families of the RouteAddress and the Route, Null while not set
  assigned,  \* RouteAddress::family has been called
  prefixlen, \* the prefix length of the RouteAddress
  at         \* at[h]: where next hop h is: "nowhere", in a "variable", in the "route"

vars == <<holds, refs, value, family, assigned, prefixlen, at>>

-----------------------------------------------------------------------------
AddressParts == {Local, Broadcast}
Things == Vars \cup AddressParts \cup {Dst} \cup Hops
Values == [family : Families, prefix : Lengths]

ValueOf(x) == IF holds[x] = Null THEN Null ELSE value[holds[x]]
Holders(c) == {x \in Things : holds[x] = c}

Free == {c \in Cells : refs[c] = 0}

\* The things in X point to p from now on, which gains a reference from each.
Points(X, p) ==
  /\ holds' = [x \in Things |-> IF x \in X THEN p ELSE holds[x]]
  /\ refs' = [c \in Cells |->
       refs[c] - Cardinality(Holders(c) \cap X) + (IF c = p THEN Cardinality(X) ELSE 0)]

\* Memory that is freed loses its value; f is what the others hold.
Remembers(f) == value' = [c \in Cells |-> IF refs'[c] = 0 THEN Null ELSE f[c]]

\* x gets an address of its own.
Own(x, new) ==
  \E c \in Free : Points({x}, c) /\ Remembers([value EXCEPT ![c] = new])

Release(X) == Points(X, Null) /\ Remembers(value)

Objects == <<family, assigned, prefixlen, at>>

-----------------------------------------------------------------------------
(* Address *)

Make(v, new) ==
  /\ holds[v] = Null /\ Own(v, new)
  /\ UNCHANGED Objects

CopyConstruct(v, w) ==
  /\ holds[v] = Null /\ holds[w] # Null /\ Own(v, ValueOf(w))
  /\ UNCHANGED Objects

MoveConstruct(v, w) ==
  /\ holds[v] = Null /\ holds[w] # Null
  /\ holds' = [holds EXCEPT ![v] = holds[w], ![w] = Null]
  /\ UNCHANGED <<refs, value, Objects>>

Destroy(v) ==
  /\ holds[v] # Null /\ Release({v})
  /\ UNCHANGED Objects

\* family and prefixlen write into the nl_addr.
Modify(v, new) ==
  /\ holds[v] # Null
  /\ new.family = ValueOf(v).family \/ new.prefix = ValueOf(v).prefix
  /\ value' = [value EXCEPT ![holds[v]] = new]
  /\ UNCHANGED <<holds, refs, Objects>>

-----------------------------------------------------------------------------
(* RouteAddress *)

\* An address with a family other than the object's is refused.
Accepts(o, v) == holds[v] # Null /\ family[o] \in {Null, ValueOf(v).family}
AcceptsFamily(o, v) == family' = [family EXCEPT ![o] = ValueOf(v).family]

\* Mutant: libnl is given the caller's own nl_addr.
SetPartSharing(p, v) ==
  /\ Accepts("address", v) /\ AcceptsFamily("address", v)
  /\ Points({p}, holds[v]) /\ Remembers(value)
  /\ prefixlen' = IF p = Local THEN ValueOf(v).prefix ELSE prefixlen
  /\ UNCHANGED <<assigned, at>>

\* A temporary copy is made for libnl, which takes a reference to it.  The prefix length
\* of the local address becomes that of the object.
SetPart(p, v) ==
  /\ Accepts("address", v) /\ AcceptsFamily("address", v)
  /\ Own(p, ValueOf(v))
  /\ prefixlen' = IF p = Local THEN ValueOf(v).prefix ELSE prefixlen
  /\ UNCHANGED <<assigned, at>>

ClearPart(p) ==
  /\ holds[p] # Null /\ Release({p})
  /\ prefixlen' = IF p = Local THEN 0 ELSE prefixlen
  /\ UNCHANGED <<family, assigned, at>>

GetPart(v, p) ==
  /\ holds[v] = Null /\ holds[p] # Null /\ Own(v, ValueOf(p))
  /\ UNCHANGED Objects

\* libnl writes the prefix length into the local address as well.
SetPrefixlen(n) ==
  /\ prefixlen' = n
  /\ value' = IF holds[Local] = Null THEN value
              ELSE [value EXCEPT ![holds[Local]].prefix = n]
  /\ UNCHANGED <<holds, refs, family, assigned, at>>

SetFamily(o, f) ==
  /\ family' = [family EXCEPT ![o] = f]
  /\ assigned' = (assigned \/ o = "address")
  /\ UNCHANGED <<holds, refs, value, prefixlen, at>>

\* Its destructor, and the constructor of the next one.
RenewAddress ==
  /\ Release(AddressParts)
  /\ family' = [family EXCEPT !["address"] = Null]
  /\ assigned' = FALSE /\ prefixlen' = 0
  /\ UNCHANGED at

-----------------------------------------------------------------------------
(* Route and NextHop *)

\* The caller's nl_addr itself becomes the destination.
SetDst(v) ==
  /\ Accepts("route", v) /\ AcceptsFamily("route", v)
  /\ Points({Dst}, holds[v]) /\ Remembers(value)
  /\ UNCHANGED <<assigned, prefixlen, at>>

\* dst may be asked for only after it has been set: a null destination is dereferenced.
GetDst(v) == GetPart(v, Dst)

MakeNextHop(h) ==
  /\ at[h] = "nowhere"
  /\ at' = [at EXCEPT ![h] = "variable"]
  /\ UNCHANGED <<holds, refs, value, family, assigned, prefixlen>>

\* Mutants: the clone is not put (put = 0); it is put twice.
Gateway(h, v, put) ==
  /\ at[h] = "variable" /\ holds[v] # Null
  /\ \E c \in Free :
       /\ holds' = [holds EXCEPT ![h] = c]
       /\ refs' = [d \in Cells |-> refs[d] + (IF d = c THEN 2 - put ELSE 0)
                                           - (IF d = holds[h] THEN 1 ELSE 0)]
       /\ Remembers([value EXCEPT ![c] = ValueOf(v)])
  /\ UNCHANGED Objects
SetGatewayLeaking(h, v) == Gateway(h, v, 0)
SetGatewayPutTwice(h, v) == Gateway(h, v, 2)
\* The next hop takes a reference to a clone, which is then put.
SetGateway(h, v) ==
  /\ at[h] = "variable" /\ holds[v] # Null /\ Own(h, ValueOf(v))
  /\ UNCHANGED Objects

\* nullopt; or nl_addr_clone has failed, which is not noticed.
ClearGateway(h) ==
  /\ at[h] = "variable" /\ holds[h] # Null /\ Release({h})
  /\ UNCHANGED Objects

GetGateway(v, h) == at[h] = "variable" /\ GetPart(v, h)

DestroyNextHop(h) ==
  /\ at[h] = "variable" /\ Release({h})
  /\ at' = [at EXCEPT ![h] = "nowhere"]
  /\ UNCHANGED <<family, assigned, prefixlen>>

\* A next hop is cloned with its gateway: h, in place from, to g, in place to.
CloneNextHop(h, g, from, to) ==
  /\ at[h] = from /\ at[g] = "nowhere"
  /\ at' = [at EXCEPT ![g] = to]
  /\ IF holds[h] = Null THEN UNCHANGED <<holds, refs, value>> ELSE Own(g, ValueOf(h))
  /\ UNCHANGED <<family, assigned, prefixlen>>

\* add of a variable, of one that is moved, and nexthops, with a step for each next hop.
AddCopy(h, g) == CloneNextHop(h, g, "variable", "route")
Nexthops(h, g) == CloneNextHop(h, g, "route", "variable")

AddMoved(h) ==
  /\ at[h] = "variable"
  /\ at' = [at EXCEPT ![h] = "route"]
  /\ UNCHANGED <<holds, refs, value, family, assigned, prefixlen>>

RenewRoute ==
  /\ Release({Dst} \cup {h \in Hops : at[h] = "route"})
  /\ at' = [h \in Hops |-> IF at[h] = "route" THEN "nowhere" ELSE at[h]]
  /\ family' = [family EXCEPT !["route"] = Null]
  /\ UNCHANGED <<assigned, prefixlen>>

-----------------------------------------------------------------------------
Init ==
  /\ holds = [x \in Things |-> Null]
  /\ refs = [c \in Cells |-> 0] /\ value = [c \in Cells |-> Null]
  /\ family = [o \in {"address", "route"} |-> Null]
  /\ assigned = FALSE /\ prefixlen = 0
  /\ at = [h \in Hops |-> "nowhere"]

Addresses ==
  \/ \E v \in Vars, new \in Values : Make(v, new) \/ Modify(v, new)
  \/ \E v, w \in Vars : CopyConstruct(v, w) \/ MoveConstruct(v, w)
  \/ \E v \in Vars : Destroy(v)

RouteAddress ==
  \/ \E p \in AddressParts, v \in Vars : SetPart(p, v) \/ GetPart(v, p)
  \/ \E p \in AddressParts : ClearPart(p)
  \/ \E n \in Lengths : SetPrefixlen(n)
  \/ \E o \in {"address", "route"}, f \in Families : SetFamily(o, f)
  \/ RenewAddress

Route ==
  \/ \E v \in Vars : SetDst(v) \/ GetDst(v)
  \/ \E h \in Hops, v \in Vars : SetGateway(h, v) \/ GetGateway(v, h)
  \/ \E h \in Hops : MakeNextHop(h) \/ ClearGateway(h) \/ DestroyNextHop(h) \/ AddMoved(h)
  \/ \E h, g \in Hops : AddCopy(h, g) \/ Nexthops(h, g)
  \/ RenewRoute

Next == Addresses \/ RouteAddress \/ Route

Spec == Init /\ [][Next]_vars

-----------------------------------------------------------------------------
(* Properties *)

\* Each variable keeps its type; in particular no count goes below zero.
TypeOK ==
  /\ holds \in [Things -> Cells \cup {Null}]
  /\ refs \in [Cells -> Nat] /\ value \in [Cells -> Values \cup {Null}]
  /\ family \in [{"address", "route"} -> Families \cup {Null}]
  /\ assigned \in BOOLEAN /\ prefixlen \in Lengths
  /\ at \in [Hops -> {"nowhere", "variable", "route"}]

\* The count of an nl_addr is the number of those who hold it: the temporary copies and
\* clones of the setters neither stay behind nor are freed under the object.
CountIsHolders == \A c \in Cells : refs[c] = Cardinality(Holders(c))

\* What a RouteAddress says of itself is true of its addresses, whatever the caller does
\* with the variables they were set from or read into: its prefix length is that of the
\* local address, and its family, unless set by hand, that of every part.
AddressAgrees ==
  /\ holds[Local] # Null => ValueOf(Local).prefix = prefixlen
  /\ ~assigned => \A p \in AddressParts : holds[p] # Null => ValueOf(p).family = family["address"]

\* Each of the things has a value of its own, as PartValues says; what was given to
\* Route::dst is one with the destination.
Abstract == INSTANCE PartValues WITH
  None <- Null,
  val <- [x \in Things |-> ValueOf(x)],
  one <- IF holds[Dst] = Null THEN {} ELSE Holders(holds[Dst])
PartsHoldValues == Abstract!Spec
=============================================================================
