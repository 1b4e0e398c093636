------------------------------- MODULE Mangle -------------------------------
(* External: the other side of the demangler (Demangle).  Entities of a    *)
(* program are trees; the compiler writes an entity's mangled name, with   *)
(* back references to the components that the ABI numbers (s holds them in *)
(* order), and Render says what its text is in C++.  AsDemangled names the *)
(* places where the demangler's text is another.  Not among the entities:  *)
(* operators inside operands (the demangler writes no parentheses),        *)
(* pointers and references to arrays, more than one instance of a template,*)
(* and qualified pointers to members.                                      *)
EXTENDS Naturals, Sequences, SequencesExt, DemangleTables

N(kind, code, sub) == [kind |-> kind, code |-> code, sub |-> sub]

B(code) == N("builtin", code, <<>>)                  \* builtin type
Q(code, type) == N("qualified", code, <<type>>)      \* P R O K V C G
C(name, args) == N("component", name, args)          \* name, template arguments
Path(comps) == N("path", "", comps)                  \* comps[1] may be St
Class(name) == Path(<<C(name, <<>>)>>)
Abbr(code) == N("abbreviation", code, <<>>)          \* Sa, Ss, ...
Fun(ref, ret, args) == N("function", ref, <<ret>> \o args)
Arr(n, type) == N("array", n, <<type>>)
ArrX(expr, type) == N("arrayx", "", <<type, expr>>)
Vec(n, type) == N("vector", n, <<type>>)
Vendor(name, type) == N("vendor", name, <<type>>)
VendorType(name) == N("vendortype", name, <<>>)
PtrMem(class, type) == N("ptrmem", "", <<class, type>>)
Param(i) == N("param", ParamTokens[i], <<>>)         \* i-th template parameter
Lit(code, n) == N("literal", code, <<N("number", n, <<>>)>>)
Expr(op, args) == N("expression", op, args)          \* a template argument X ... E

-----------------------------------------------------------------------------
Index(s, x) == CHOOSE i \in DOMAIN s : s[i] = x
Note(s, x) == IF x \in Range(s) THEN s ELSE Append(s, x)
Result(txt, s) == [txt |-> txt, s |-> s]
Around(before, r, after) == Result(before \o r.txt \o after, r.s)
Noted(r, x) == Result(r.txt, Note(r.s, x))
Bare(comps) == Path(Append(Front(comps), C(Last(comps).code, <<>>)))   \* without arguments

RECURSIVE MType(_, _), MList(_, _), MPrefix(_, _)

MList(ts, s) == IF ts = <<>> THEN Result(<<>>, s)
                ELSE LET h == MType(Head(ts), s) IN Around(h.txt, MList(Tail(ts), h.s), <<>>)

(* A prefix of a qualified name; every one but St can be referred to.      *)
MPrefix(comps, s) ==
  LET last == Last(comps)
      bare == Bare(comps)
      outer == IF Len(comps) = 1 THEN Result(<<>>, s) ELSE MPrefix(Front(comps), s)
      name == IF bare \in Range(s) THEN Result(<<SubstTokens[Index(s, bare)]>>, s)
              ELSE Noted(Result(Append(outer.txt, last.code), outer.s), bare)
  IN  CASE last.code = "St" -> Result(<<last.code>>, s)
        [] Path(comps) \in Range(s) -> Result(<<SubstTokens[Index(s, Path(comps))]>>, s)
        [] last.sub = <<>> -> name
        [] OTHER -> Noted(Around(Append(name.txt, "I"), MList(last.sub, name.s), <<"E">>),
                          Path(comps))

Nested(comps) == Len(comps) > (IF comps[1].code = "St" THEN 2 ELSE 1)

MType(t, s) ==
  LET inner == MList(t.sub, s)
      prefix == MPrefix(t.sub, s)
      bound == MType(t.sub[2], s)
      ends == (IF Len(t.sub) = 1 THEN <<"v">> ELSE <<>>) \o (IF t.code = "" THEN <<>> ELSE <<t.code>>)
  IN  CASE t.kind \in {"builtin", "abbreviation"} -> Result(<<t.code>>, s)
        [] t.kind = "literal" -> Result(<<"L", t.code, t.sub[1].code, "E">>, s)
        [] t.kind = "expression" -> Around(<<t.code>>, inner, <<>>)
        [] t.kind = "templateexpr" -> Around(<<"X">>, inner, <<"E">>)
        [] t \in Range(s) -> Result(<<SubstTokens[Index(s, t)]>>, s)
        [] t.kind = "qualified" -> Noted(Around(<<t.code>>, inner, <<>>), t)
        [] t.kind = "path" -> IF Nested(t.sub) THEN Around(<<"N">>, prefix, <<"E">>) ELSE prefix
        [] t.kind = "function" -> Noted(Around(<<"F">>, inner, ends \o <<"E">>), t)
        [] t.kind = "array" -> Noted(Around(<<"A", t.code, "_">>, inner, <<>>), t)
        [] t.kind = "arrayx" -> Noted(Around(<<"A">> \o bound.txt \o <<"_">>,
                                             MType(t.sub[1], bound.s), <<>>), t)
        [] t.kind = "vector" -> Noted(Around(<<"Dv", t.code, "_">>, inner, <<>>), t)
        [] t.kind = "vendor" -> Noted(Around(<<"U", t.code>>, inner, <<>>), t)
        [] t.kind = "vendortype" -> Noted(Result(<<"u", t.code>>, s), t)
        [] t.kind = "ptrmem" -> Noted(Around(<<"M">>, inner, <<>>), t)
        [] t.kind = "param" -> Noted(Result(<<t.code>>, s), t)

(* The name of a function or variable: its own name is no candidate, but   *)
(* the name of a template function is.                                     *)
MName(quals, comps, s) ==
  LET last == Last(comps)
      outer == IF Len(comps) = 1 THEN Result(<<>>, s) ELSE MPrefix(Front(comps), s)
      own == Append(outer.txt, last.code)
      whole == IF last.sub = <<>> THEN Result(own, outer.s)
               ELSE Around(Append(own, "I"), MList(last.sub, Note(outer.s, Bare(comps))), <<"E">>)
  IN  IF Nested(comps) THEN Around(<<"N">> \o quals, whole, <<"E">>) ELSE whole

(* An entity: a special name's code or "", a function (qualifiers, path,   *)
(* return type, parameters) and further types.                             *)
Entity(code, quals, comps, ret, params, types) ==
  [code |-> code, quals |-> quals, comps |-> comps, ret |-> ret, params |-> params,
   types |-> types]

MFunction(e, s) ==
  LET name == MName(e.quals, e.comps, s)
      types == (IF Last(e.comps).sub = <<>> THEN <<>> ELSE <<e.ret>>)
               \o (IF e.params = <<>> THEN <<B("v")>> ELSE e.params)
  IN  Around(name.txt, MList(types, name.s), <<>>)

(* Special names by what follows the code: a function, its name, a type.   *)
OfFunction == {"", "@@", "GA", "GT", "Th", "Tv", "Tc"}
OfType == {"type"} \cup DOMAIN SpecialOfType
CodeTokens ==
  [GT |-> <<"_Z", "GT", "n">>, Th |-> <<"_Z", "Th", "n", "2", "_">>,
   Tv |-> <<"_Z", "Tv", "0", "_", "n", "2", "_">>,
   Tc |-> <<"_Z", "Tc", "h", "n", "2", "_", "h", "1", "_">>,
   type |-> <<>>, _GLOBAL__I_ |-> <<"_GLOBAL__I_">>, Z |-> <<"_Z", "Z">>]
  @@ ("" :> <<"_Z">>) @@ ("@@" :> <<"_Z">>)
  @@ [c \in OfType \cup DOMAIN SpecialOfName \cup {"GA", "GR", "TC"} |-> <<"_Z", c>>]

MLocal(fun, comps) == fun.txt \o <<"E">> \o MName(<<>>, comps, fun.s).txt \o <<"_", "0">>
MConstruction(derived, base) == derived.txt \o <<"1", "_">> \o MType(base, derived.s).txt

MEntity(e) ==
  CodeTokens[e.code]
  \o (CASE e.code \in OfFunction -> MFunction(e, <<>>).txt
        [] e.code \in OfType -> MType(e.types[1], <<>>).txt
        [] e.code = "TC" -> MConstruction(MType(e.types[1], <<>>), e.types[2])
        [] e.code = "Z" -> MLocal(MFunction(e, <<>>), e.types[1].sub)
        [] OTHER -> MName(<<>>, e.comps, <<>>).txt)
  \o (CASE e.code = "@@" -> <<"@@", "GLIBCXX">> [] e.code = "GR" -> <<"0">> [] OTHER -> <<>>)

-----------------------------------------------------------------------------
(* The text of a type.  targs are the arguments that template parameters   *)
(* stand for.                                                              *)
Join(texts, sep) == FoldLeft(LAMBDA acc, x : IF acc = <<>> THEN x ELSE acc \o sep \o x, <<>>, texts)

RECURSIVE Render(_, _), Declared(_, _, _)
RenderAll(ts, targs) == Join([i \in DOMAIN ts |-> Render(ts[i], targs)], <<", ">>)

RenderComp(c, targs) ==
  LET args == RenderAll(c.sub, targs)
  IN  (IF c.code \in DOMAIN Operator THEN <<"operator", Operator[c.code]>> ELSE SourceName[c.code])
      \o (IF c.sub = <<>> THEN <<>>
          ELSE <<"<">> \o args \o <<IF Last(args) = ">" THEN " >" ELSE ">">>)

RenderPath(comps, targs) ==
  LET Member(i) == IF comps[i].code \in Ctor \cup Dtor
                   THEN (IF comps[i].code \in Dtor THEN <<"~">> ELSE <<>>)
                        \o SourceName[comps[i - 1].code]
                   ELSE IF comps[i].code = "St" THEN <<"std">> ELSE RenderComp(comps[i], targs)
      joined == [i \in DOMAIN comps |-> Member(i)]
  IN  IF comps[1].code = "St"
      THEN <<"std::">> \o Join(Tail(joined), <<"::">>) ELSE Join(joined, <<"::">>)

(* Around the name in a declaration of a function: inner is what stands in *)
(* the parentheses of a pointer.                                           *)
Declared(t, inner, targs) ==
  CASE t.kind = "function" ->
         Render(t.sub[1], targs) \o <<" ">>
         \o (IF inner = <<>> THEN <<>> ELSE <<"(">> \o inner \o <<")">>)
         \o <<"(">> \o RenderAll(Tail(t.sub), targs) \o <<")">>
         \o (CASE t.code = "R" -> <<" &">> [] t.code = "O" -> <<" &&">> [] OTHER -> <<>>)
    [] t.kind = "qualified" -> Declared(t.sub[1], PlainQualifier[t.code] \o inner, targs)
    [] t.kind = "ptrmem" ->
         IF t.sub[2].kind = "function"
         THEN Declared(t.sub[2], Render(t.sub[1], targs) \o <<"::*">> \o inner, targs)
         ELSE Render(t.sub[2], targs) \o <<" ">> \o Render(t.sub[1], targs) \o <<"::*">> \o inner
    [] OTHER -> Render(t, targs) \o inner

Render(t, targs) ==
  CASE t.kind = "builtin" -> IF t.code = "v" THEN <<"void">> ELSE Builtin[t.code]
    [] t.kind = "abbreviation" -> Abbreviation[t.code]
    [] t.kind = "literal" -> IF t.code # "b" THEN <<t.sub[1].code>>
                             ELSE <<IF t.sub[1].code = "0" THEN "false" ELSE "true">>
    [] t.kind = "templateexpr" -> Render(t.sub[1], targs)
    [] t.kind = "expression" ->
         (CASE t.code = "st" -> <<"sizeof (">> \o Render(t.sub[1], targs) \o <<")">>
            [] t.code = "qu" -> Render(t.sub[1], targs) \o <<"?">> \o Render(t.sub[2], targs)
                                \o <<":">> \o Render(t.sub[3], targs)
            [] Len(t.sub) = 1 -> <<Operator[t.code]>> \o Render(t.sub[1], targs)
            [] OTHER -> Join([i \in 1..2 |-> Render(t.sub[i], targs)], <<Operator[t.code]>>))
    [] t.kind = "behind" -> Append(Render(t.sub[1], targs), t.code)
    [] t.kind = "path" -> RenderPath(t.sub, targs)
    [] t.kind \in {"qualified", "function", "ptrmem"} -> Declared(t, <<>>, targs)
    [] t.kind = "array" -> Render(t.sub[1], targs) \o <<" [", t.code, "]">>
    [] t.kind = "arrayx" -> Render(t.sub[1], targs) \o <<" [">> \o Render(t.sub[2], targs) \o <<"]">>
    [] t.kind = "vector" -> Render(t.sub[1], targs) \o QualifierText("Dv", <<t.code>>)
    [] t.kind = "vendor" -> Render(t.sub[1], targs) \o QualifierText("U", SourceName[t.code])
    [] t.kind = "vendortype" -> SourceName[t.code]
    [] t.kind = "param" -> Render(targs[Index(ParamTokens, t.code)], targs)

RenderFunction(e) ==
  LET targs == Last(e.comps).sub
  IN  (IF targs = <<>> THEN <<>> ELSE Append(Render(e.ret, targs), " "))
      \o RenderPath(e.comps, targs) \o <<"(">> \o RenderAll(e.params, targs) \o <<")">>
      \o (IF e.quals = <<"K">> THEN <<" const">> ELSE <<>>)

CodeText ==
  [GA |-> <<"hidden alias for ">>, GT |-> <<"non-transaction clone for ">>,
   GR |-> <<"reference temporary #", "0", " for ">>, TC |-> <<"construction vtable for ">>,
   Th |-> <<"virtual function non-virtual override ", "offset : ", "-", "2", " ">>,
   Tv |-> <<"virtual function virtual override ", "offset : ", "0", " ",
            "virtual offset : ", "-", "2", " ">>,
   Tc |-> <<"virtual function covariant override ", "offset : ", "-", "2", " ",
            "offset : ", "1", " ">>,
   Z |-> <<>>, type |-> <<>>, _GLOBAL__I_ |-> <<"global constructors keyed to ">>]
  @@ ("" :> <<>>) @@ ("@@" :> <<>>)
  @@ [c \in DOMAIN SpecialOfType |-> <<SpecialOfType[c]>>]
  @@ [c \in DOMAIN SpecialOfName |-> <<SpecialOfName[c]>>]

RenderEntity(e) ==
  CodeText[e.code]
  \o (IF e.code = "TC" THEN Render(e.types[2], <<>>) \o <<"-in-">> ELSE <<>>)
  \o (CASE e.code \in OfFunction -> RenderFunction(e)
        [] e.code \in OfType \cup {"TC"} -> Render(e.types[1], <<>>)
        [] e.code = "Z" -> RenderFunction(e) \o <<"::">> \o Render(e.types[1], <<>>)
        [] OTHER -> RenderPath(e.comps, <<>>))

(* The entity as the demangler writes it: a unary operator stands behind   *)
(* its operand (libelftc_dem_gnu3.c:1600), of a sizeof only the type is    *)
(* left (1277).  Everything else is as in C++.                             *)
RECURSIVE AsDemangled(_)
AsDemangled(t) ==
  LET sub == [i \in DOMAIN t.sub |-> AsDemangled(t.sub[i])]
  IN  CASE t.kind = "expression" /\ t.code = "st" -> sub[1]
        [] t.kind = "expression" /\ Len(t.sub) = 1 -> N("behind", Operator[t.code], sub)
        [] OTHER -> [t EXCEPT !.sub = sub]

EntityAsDemangled(e) ==
  LET Each(ts) == [i \in DOMAIN ts |-> AsDemangled(ts[i])]
  IN  [e EXCEPT !.comps = Each(@), !.ret = AsDemangled(@), !.params = Each(@), !.types = Each(@)]
=============================================================================
