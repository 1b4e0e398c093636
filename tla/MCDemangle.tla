----------------------------- MODULE MCDemangle -----------------------------
(* The demangler reads back what the compiler mangled.  Beside it its      *)
(* string vectors and its floating-point literals: a behaviour exercises   *)
(* the one that `part' names.  VectorsSound and AreLists are those of      *)
(* StrVector.                                                              *)
EXTENDS Demangle, Mangle, StrVector, TLC

CONSTANTS Digits   \* DemangleFp

I32 == B("i")
A == Class("1A")
BB == Class("1B")
AinB == Path(<<C("1B", <<>>), C("1A", <<>>)>>)
StdA == Path(<<C("St", <<>>), C("1A", <<>>)>>)
Anonymous == Path(<<C("12_GLOBAL__N_1", <<>>), C("1A", <<>>)>>)
VofB == Path(<<C("1V", <<BB>>)>>)
VofVofB == Path(<<C("1V", <<Path(<<C("1W", <<BB>>)>>)>>)>>)
WofInts == Path(<<C("1W", <<I32, Lit("i", "1")>>)>>)
One == Lit("i", "1")
Value == Lit("b", "0")
VofExpr(e) == Path(<<C("1V", <<N("templateexpr", "", <<e>>)>>)>>)

Quals(qs, ts) == {Q(q, t) : q \in qs, t \in ts}
Plain == {I32, B("x"), A, BB, AinB, StdA, Anonymous, VofB, WofInts}
Simple == Plain \cup Quals({"P", "K"}, Plain) \cup Quals({"P", "R"}, Quals({"P", "K"}, {A, VofB, I32}))
          \cup {Arr("2", t) : t \in {A, I32, Q("P", A)}}

(* Types that take the other paths of cpp_demangle_read_type().            *)
FunTypes == {Fun("", B("v"), <<A, Q("P", A)>>), Fun("", A, <<>>), Fun("", I32, <<AinB, I32>>)}
Rare == FunTypes \cup Quals({"P", "R"}, FunTypes)
        \cup {PtrMem(A, I32), PtrMem(A, Q("K", BB)), PtrMem(AinB, Fun("", I32, <<A>>)),
              PtrMem(A, Fun("R", I32, <<BB>>)), PtrMem(A, Fun("O", B("v"), <<>>)),
              Vec("2", I32), Vendor("1A", I32), VendorType("1A"), Q("C", B("f")), Q("G", B("d")),
              Q("O", A), Q("r", Q("P", I32)), Q("V", A), ArrX(Expr("pl", <<One, One>>), I32),
              B("Ds"), VofVofB, VofExpr(Expr("ng", <<One>>)), VofExpr(Expr("st", <<A>>)),
              VofExpr(Expr("ls", <<One, Value>>)), VofExpr(Expr("qu", <<Value, One, One>>)),
              Path(<<C("1V", <<Value>>)>>)}

f == <<C("1f", <<>>)>>
Af == <<C("1A", <<>>), C("1f", <<>>)>>
Names == {f, Af, <<C("St", <<>>), C("1f", <<>>)>>, <<C("1A", <<>>), C("C1", <<>>)>>,
          <<C("1A", <<>>), C("D1", <<>>)>>, <<C("pl", <<>>)>>,
          <<C("1B", <<>>), C("1V", <<I32>>), C("1f", <<>>)>>}
Three(ts) == {<<t, u, w>> : t, u, w \in ts}
Params(ts) == {<<>>} \cup {<<t>> : t \in ts} \cup {<<t, u>> : t, u \in ts}

Func(code, quals, name, params) == Entity(code, quals, name, B("v"), params, <<A, A>>)
Typed(code, t, u) == Entity(code, <<>>, f, B("v"), <<>>, <<t, u>>)

Functions ==
  {Func("", <<>>, n, ps) : n \in Names, ps \in Params(Simple)}
  \cup {Func("", <<"K">>, Af, <<t>>) : t \in Simple}
Kinds ==   \* every special name, and every kind of type once as last parameter
  {Typed(code, t, A) : code \in {"type"} \cup DOMAIN SpecialOfType, t \in Plain \cup Rare}
  \cup {Typed("TC", t, u) : t, u \in {A, BB, AinB, VofB}}
  \cup {Func(code, <<>>, n, <<>>) : code \in DOMAIN SpecialOfName \cup {"GR"},
                                    n \in {f, Af, <<C("1V", <<I32>>), C("1f", <<>>)>>}}
  \cup {Func(code, <<>>, Af, ps) : code \in {"GA", "GT", "Th", "Tv", "Tc"}, ps \in Params({A, Q("P", A), I32})}
  \cup {Func("@@", <<>>, Af, <<t>>) : t \in Plain}
  \cup {Entity("Z", <<>>, n, B("v"), ps, <<t, A>>) :
           n \in {f, Af}, ps \in {<<>>, <<A>>, <<A, I32>>}, t \in {BB, Class("1V")}}
  \cup {Func("", <<>>, f, <<t, u>>) : t \in {A, Q("P", A), I32}, u \in Rare}

Template(n, res, params) == Entity("", <<>>, n, res, params, <<>>)
fOf(args) == <<C("1f", args)>>
T == Param(1)
Templates ==
  {Template(fOf(<<a>>), res, ps) : a \in {I32, B("c")}, res \in {B("v"), T, Q("P", T)},
      ps \in {<<T>>, <<T, T>>, <<Q("P", T), Q("P", T)>>, <<A, T, Q("P", A)>>, <<Q("P", T), A, A>>}}

(* Floating-point types of three and two bytes instead of eight and four;  *)
(* the size of long double is that of i386.                                *)
MCSizeOf == ("double" :> 3) @@ ("float" :> 2) @@ ("long double" :> 12)

-----------------------------------------------------------------------------
VARIABLES part,
          entity, text, done,
          type, p, rtn, decoded

name_ == <<entity, text, done>>
literal_ == <<type, p, rtn, decoded>>

L == INSTANCE DemangleFp WITH SizeOf <- MCSizeOf, done <- decoded

DemanglerInit ==
  /\ part \in {"name", "vector", "literal"}
  /\ entity \in IF part = "name" THEN Functions \cup Kinds \cup Templates
                ELSE {Func("", <<>>, f, <<>>)}
  /\ text = <<>> /\ done = FALSE
  /\ part # "literal" => type = "d" /\ p = <<>>
  /\ Init /\ L!Init

Demangle ==
  /\ ~done /\ done' = TRUE
  /\ text' = __cxa_demangle_gnu3(MEntity(entity))
  /\ UNCHANGED entity

DemanglerNext ==
  \/ part = "name" /\ Demangle /\ UNCHANGED <<part, vars, literal_>>
  \/ part = "vector" /\ Next /\ UNCHANGED <<part, name_, literal_>>
  \/ part = "literal" /\ L!cpp_demangle_push_fp /\ UNCHANGED <<part, name_, vars>>

DemanglerSpec == DemanglerInit /\ [][DemanglerNext]_<<part, name_, vars, literal_>>

-----------------------------------------------------------------------------
(* The text names the entity that was mangled: every back reference of the *)
(* ABI is resolved to the component it was written for, and what reading   *)
(* one type leaves behind does not change how the next one is written.     *)
(* The text is C++'s but for unary operators and sizeof, written as        *)
(* AsDemangled says, and for thunks with a virtual offset: these have no   *)
(* text, cpp_demangle_read_v_offset() returning the opposite of what it    *)
(* means (3855).  A floating-point literal is read into the bytes of its   *)
(* number, but its text is only that of the format (DemangleFp).           *)
NamesTheEntity ==
  /\ done => text = IF entity.code = "Tv" THEN <<>> ELSE RenderEntity(EntityAsDemangled(entity))
  /\ L!LiteralsDecode
=============================================================================
