------------------------------- MODULE MCCxx --------------------------------
(* The parts of the C++ runtime side by side.  A behaviour exercises the   *)
(* one that `part' names; the others stay at an initial state.             *)
(* The properties of Exceptions, EhHandlers and Guard are checked as they  *)
(* are stated there.                                                       *)
EXTENDS Exceptions, EhHandlers, Guard, TLC

CONSTANTS Encodings, MaxIp, ExTypes            \* DwarfEh

(* Objects and types of exceptions are interchangeable.                    *)
Symmetry == Permutations(Objects) \union Permutations(Types)

(* The shapes of class hierarchies that C++ has: with public bases, with   *)
(* private ones, and with a base that occurs twice.                        *)
B(c) == [base |-> c, virtual |-> FALSE, public |-> TRUE]
V(c) == [base |-> c, virtual |-> TRUE, public |-> TRUE]
Private(b) == [b EXCEPT !.public = FALSE]

Chain == [A |-> <<>>, C |-> <<B("A")>>, D |-> <<B("C")>>, E |-> <<>>]
Multiple == [A |-> <<>>, C |-> <<>>, D |-> <<B("A"), B("C")>>, E |-> <<B("D")>>]
Diamond == [A |-> <<>>, C |-> <<V("A")>>, D |-> <<V("A")>>, E |-> <<B("C"), B("D")>>]
Mixin == [A |-> <<>>, C |-> <<V("A")>>, D |-> <<>>, E |-> <<B("D"), B("C")>>]

Hidden == [A |-> <<>>, C |-> <<Private(B("A"))>>, D |-> <<>>, E |-> <<B("C"), B("D")>>]
HalfHidden == [A |-> <<>>, C |-> <<Private(V("A"))>>, D |-> <<V("A")>>, E |-> <<B("C"), B("D")>>]
Twice == [A |-> <<>>, C |-> <<B("A")>>, D |-> <<B("A")>>, E |-> <<B("C"), B("D")>>]

MCHierarchies == {Chain, Multiple, Diamond, Mixin, Hidden, HalfHidden, Twice}

(* Functions with three call sites, gaps between them, chains of clauses,  *)
(* cleanups and exception specifications.                                  *)
Site(a, n, p, acts) == [start |-> a, size |-> n, pad |-> p, actions |-> acts]

(* specAt: the filter of a specification is its byte position in the list. *)
(* The type table is written if a record needs it.                         *)
Fn(sites) ==
  LET used == \E k \in DOMAIN sites : \E i \in DOMAIN sites[k].actions : sites[k].actions[i] # 0
  IN  [sites |-> sites, types |-> IF used THEN <<7, 9, 0>> ELSE <<>>,
       specs |-> <<<<1>>, <<2, 1>>>>, specAt |-> [i \in {1, 3} |-> IF i = 1 THEN 1 ELSE 2]]

Lists == {<<>>, <<0>>, <<1>>, <<2, 1>>, <<1, 0>>, <<2, 1, 0>>, <<3>>, <<-1>>,
          <<-3, 0>>, <<1, -1>>}

Function(p, a, b) == Fn(<<Site(0, 2, 0, <<>>), Site(3, 2, p, a), Site(6, 3, 200, b)>>)
MCFunctions == {Function(p, a, b) : p \in {0, 130}, a, b \in Lists}

-----------------------------------------------------------------------------
VARIABLES part,
          h, leaf, sub, dst, thrown_type, caught_type, res, done,
          fn, enc, lsda, ip, type, found, looked_up

typeinfo_ == <<h, leaf, sub, dst, thrown_type, caught_type, res, done>>
tables_ == <<fn, enc, lsda, ip, type, found, looked_up>>

I == INSTANCE TypeInfo WITH Hierarchies <- MCHierarchies, thrown <- thrown_type,
                            caught <- caught_type
D == INSTANCE DwarfEh WITH Functions_ <- MCFunctions, done <- looked_up

RuntimeInit ==
  /\ part \in {"exceptions", "handlers", "guard", "typeinfo", "tables"}
  /\ part # "typeinfo" => h = Chain /\ leaf = "A" /\ dst = "A"
  /\ part # "tables" => fn = Function(0, <<>>, <<>>) /\ enc = 1 /\ ip = 1 /\ type = 7
  /\ Init /\ HandlersInit /\ GuardInit
  /\ IF part = "typeinfo" THEN I!Init ELSE I!InitCast
  /\ D!Init

RuntimeNext ==
  \/ part = "exceptions" /\ Next /\ UNCHANGED <<part, handlerVars, guardVars, typeinfo_, tables_>>
  \/ part = "handlers" /\ HandlersNext /\ UNCHANGED <<part, vars, guardVars, typeinfo_, tables_>>
  \/ part = "guard" /\ GuardNext /\ UNCHANGED <<part, vars, handlerVars, typeinfo_, tables_>>
  \/ part = "typeinfo" /\ I!Next /\ UNCHANGED <<part, vars, handlerVars, guardVars, tables_>>
  \/ part = "tables" /\ D!Lookup /\ UNCHANGED <<part, vars, handlerVars, guardVars, typeinfo_>>

RuntimeSpec ==
  RuntimeInit /\ [][RuntimeNext]_<<part, vars, handlerVars, guardVars, typeinfo_, tables_>>

-----------------------------------------------------------------------------
(* dynamic_cast finds the sub-object of the class asked for, and a catch   *)
(* clause takes the types that C++ says it takes, but for the departures   *)
(* that TypeInfo names.                                                    *)
TypesFollowCpp == I!TypesFollowCpp
(* The tables lead to the handler the compiler wrote down, and to none     *)
(* where it wrote none.                                                    *)
TablesGiveTheHandler == D!TablesGiveTheHandler
=============================================================================
