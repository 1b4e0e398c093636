------------------------------ MODULE TypeInfo ------------------------------
(* Run-time types of libcxxrt (dynamic_cast.cc, typeinfo.h): up-casts      *)
(* through single, multiple and virtual bases, dynamic_cast, and the match *)
(* of a catch clause.  A class hierarchy gives each class its bases; its   *)
(* kind of type_info follows.  An object is laid out by the compiler       *)
(* (external): a sub-object is known by the path that leads to it from the *)
(* leaf, where a virtual base is reached from any path at one place.       *)
EXTENDS Naturals, Sequences, FiniteSets, SequencesExt

CONSTANTS Hierarchies   \* class hierarchies that are tried

VARIABLES h,        \* the hierarchy: class -> sequence of [base, virtual, public]
          leaf,     \* the class of the whole object
          sub,      \* where the source sub-object is, a path
          dst,      \* the class asked for
          thrown, caught,   \* a thrown type and the type of a clause
          res,      \* the result of the call: a place, or whether the clause matches
          done

vars == <<h, leaf, sub, dst, thrown, caught, res, done>>

None == "none"
NULL == <<"NULL">>
Classes == DOMAIN h

(* Where base i of the class at place p of an object lies: inside it, or,  *)
(* for a virtual base, at the place the vtable of p gives, one for the     *)
(* whole object.                                                           *)
Place(p, b) == IF b.virtual THEN <<b.base>> ELSE Append(p, b.base)

-----------------------------------------------------------------------------
(* typeinfo.h: one base, public, not virtual and at offset 0, or several.  *)
IsClass(c) == h[c] = <<>>
IsSi(c) == Len(h[c]) = 1 /\ ~h[c][1].virtual /\ h[c][1].public

(* __do_upcast: [ok, place]; for several bases the first one that leads to *)
(* the target, in the order of declaration, public or not.                 *)
RECURSIVE __do_upcast(_, _, _)
__do_upcast(c, target, p) ==
  IF c = target THEN [ok |-> TRUE, at |-> p]
  ELSE IF IsClass(c) THEN [ok |-> FALSE, at |-> p]
  ELSE IF IsSi(c) THEN __do_upcast(h[c][1].base, target, Append(p, h[c][1].base))
  ELSE LET up(i) == __do_upcast(h[c][i].base, target, Place(p, h[c][i]))
           hits == {i \in DOMAIN h[c] : up(i).ok}
       IN  IF hits = {} THEN [ok |-> FALSE, at |-> p]
           ELSE up(CHOOSE i \in hits : \A j \in hits : i <= j)

cast_to(c, other, p) == LET r == __do_upcast(c, other, p) IN IF r.ok THEN r.at ELSE NULL

(* __dynamic_cast: the vtable of the sub-object gives the whole object and *)
(* its class; source class and offset hint are not used.                   *)
FromSub(target) == cast_to(sub[Len(sub)], target, sub)   \* mutant: from the sub-object

FromLeaf(target) == cast_to(leaf, target, <<leaf>>)

__dynamic_cast(target) == FromLeaf(target)

-----------------------------------------------------------------------------
(* A type is a class, "void", or a pointer with the qualifiers of what it  *)
(* points to.                                                              *)
IsPtr(t) == t.ptr
Class(c) == [ptr |-> FALSE, class |-> c]
Ptr(q, t) == [ptr |-> TRUE, flags |-> q, to |-> t]

LessQualified(q, qh) == q \ qh # {}

(* __pbase_type_info::__do_catch and type_info::__do_catch; the bit of     *)
(* `outer' is FALSE behind a pointer that is not const.                    *)
RECURSIVE __do_catch(_, _, _)
__do_catch(t, ex, outer) ==
  \/ t = ex
  \/ /\ ~IsPtr(t) /\ t.class # "void"
     /\ ~IsPtr(ex) /\ ex.class # "void"
     /\ __do_upcast(ex.class, t.class, <<ex.class>>).ok
  \/ /\ IsPtr(t) /\ IsPtr(ex)
     /\ outer
     /\ ~LessQualified(ex.flags, t.flags)
     /\ \/ t.to = Class("void")
        \/ __do_catch(t.to, ex.to, outer /\ "const" \in t.flags)

-----------------------------------------------------------------------------
RECURSIVE Paths(_, _)
Paths(c, p) == {p} \union UNION {Paths(h[c][i].base, Place(p, h[c][i])) : i \in DOMAIN h[c]}
SubObjects == Paths(leaf, <<leaf>>)

Qualifiers == SUBSET {"const", "volatile"}
Level0 == {Class(c) : c \in Classes}
Level1 == {Ptr(q, t) : q \in Qualifiers, t \in Level0 \union {Class("void")}}
Level2 == {Ptr(q, Ptr(r, Class(c))) : q, r \in Qualifiers, c \in {"A", "C", "void"}}

InitCast ==
  /\ h \in Hierarchies
  /\ leaf \in Classes /\ dst \in Classes
  /\ sub \in SubObjects
  /\ thrown = Class(None) /\ caught = Class(None)
  /\ res = NULL /\ done = FALSE

InitCatch(thrownTypes, caughtTypes) ==
  /\ h \in Hierarchies
  /\ leaf = None /\ dst = None /\ sub = <<>>
  /\ thrown \in thrownTypes /\ caught \in caughtTypes
  /\ res = NULL /\ done = FALSE

Init ==
  \/ InitCast
  \/ InitCatch(Level0 \union Level1, Level0 \union Level1)
  \/ InitCatch(Level1 \union Level2, Level1 \union Level2)

Cast ==
  /\ ~done /\ done' = TRUE /\ leaf # None
  /\ res' = __dynamic_cast(dst)
  /\ UNCHANGED <<h, leaf, sub, dst, thrown, caught>>

(* check_type_signature: the same type, or __do_catch() of the clause.     *)
check_type_signature ==
  /\ ~done /\ done' = TRUE /\ leaf = None
  /\ res' = __do_catch(caught, thrown, TRUE)
  /\ UNCHANGED <<h, leaf, sub, dst, thrown, caught>>

Next == Cast \/ check_type_signature

Spec == Init /\ [][Next]_vars

-----------------------------------------------------------------------------
(* The sub-objects of class c, those that are reached through public bases *)
(* only, and the classes of either.                                        *)
Of(c) == {p \in SubObjects : p[Len(p)] = c}
RECURSIVE PublicPaths(_, _)
PublicPaths(c, p) ==
  {p} \union UNION {PublicPaths(h[c][i].base, Place(p, h[c][i])) :
                     i \in {j \in DOMAIN h[c] : h[c][j].public}}
Bases(c) == IF c \in Classes THEN {p[Len(p)] : p \in Paths(c, <<c>>)} ELSE {}
OneOf(c, b) == Cardinality({p \in Paths(c, <<c>>) : p[Len(p)] = b}) = 1
PublicBases(c) == {b \in Bases(c) : OneOf(c, b) /\ \E p \in PublicPaths(c, <<c>>) : p[Len(p)] = b}

(* What C++ says of dynamic_cast: the one object of the class around the   *)
(* source, if the source is a public base of it; else the one public base  *)
(* of that class of the whole object, if the source is a public base too.  *)
CppCast(c) ==
  LET around == {t \in Of(c) : sub \in Paths(c, t)}
      open == PublicPaths(leaf, <<leaf>>)
  IN  IF Cardinality(around) = 1 /\ \A t \in around : sub \in PublicPaths(c, t)
      THEN CHOOSE t \in around : TRUE
      ELSE IF sub \in open /\ Cardinality(Of(c)) = 1 /\ Of(c) \subseteq open
      THEN CHOOSE t \in Of(c) : TRUE ELSE NULL

(* dynamic_cast.cc: the result is C++'s, from any sub-object, below, above *)
(* or beside.  The code departs from it where a base of the object is      *)
(* private (isPublic() is never asked) or the object has the class asked   *)
(* for more than once (the source is not looked at): then it answers with  *)
(* one of the class's sub-objects, also where C++ says NULL or another.    *)
CastFindsTheObject ==
  leaf # None /\ done =>
    LET private == \E c \in Bases(leaf) : \E i \in DOMAIN h[c] : ~h[c][i].public
    IN  IF Of(dst) # {} /\ (private \/ Cardinality(Of(dst)) > 1) THEN res \in Of(dst)
        ELSE res = CppCast(dst)

(* C++: the same class or a public base that occurs once, or a pointer     *)
(* conversion: equal or more qualified, to void or such a base at the      *)
(* outermost level only.                                                   *)
QualifyOk(t, ex) ==   \* pointers t and ex differ by qualifiers only
  /\ ex.flags \subseteq t.flags
  /\ IF IsPtr(t.to) /\ IsPtr(ex.to)
     THEN /\ ex.to.flags \subseteq t.to.flags
          /\ ex.to.flags # t.to.flags => "const" \in t.flags
          /\ t.to.to = ex.to.to
     ELSE t.to = ex.to
CppCatches(t, ex) ==
  IF IsPtr(t) /\ IsPtr(ex)
  THEN \/ QualifyOk(t, ex)
       \/ /\ ex.flags \subseteq t.flags
          /\ ~IsPtr(t.to)
          /\ \/ t.to = Class("void")
             \/ ~IsPtr(ex.to) /\ t.to.class \in PublicBases(ex.to.class)
  ELSE ~IsPtr(t) /\ ~IsPtr(ex) /\ t.class \in PublicBases(ex.class)

(* What the code catches beyond that: private and repeated bases, and, two *)
(* pointers down and behind a const one, void and bases of any kind: the   *)
(* pointer of a pointer is converted like one at the outermost level       *)
(* (dynamic_cast.cc:101-106).                                              *)
CaughtBeyondCpp(t, ex) ==
  \/ ~IsPtr(t) /\ ~IsPtr(ex) /\ t.class \in Bases(ex.class)
  \/ /\ IsPtr(t) /\ IsPtr(ex) /\ ex.flags \subseteq t.flags
     /\ \/ ~IsPtr(t.to) /\ ~IsPtr(ex.to) /\ t.to.class \in Bases(ex.to.class)
        \/ /\ IsPtr(t.to) /\ IsPtr(ex.to) /\ "const" \in t.flags
           /\ ex.to.flags \subseteq t.to.flags
           /\ t.to.to.class = "void" \/ t.to.to.class \in Bases(ex.to.to.class)

(* exception.cc and typeinfo.h: a clause catches all that C++ says, and    *)
(* beyond that exactly what CaughtBeyondCpp says.                          *)
CatchesLikeCpp ==
  leaf = None /\ done => res = (CppCatches(caught, thrown) \/ CaughtBeyondCpp(caught, thrown))

(* dynamic_cast.cc: casts and catch clauses follow the language, but for   *)
(* the departures named above.                                             *)
TypesFollowCpp == CastFindsTheObject /\ CatchesLikeCpp
=============================================================================
