------------------------------ MODULE Demangle ------------------------------
(* The demangler of libcxxrt (libelftc_dem_gnu3.c): a parser by recursive  *)
(* descent that writes the text as it reads, and keeps what it wrote in a  *)
(* list of substitutions and a list of template arguments for the back     *)
(* references.  The input is a sequence of tokens of the ABI's grammar     *)
(* (external: the compiler that mangles); a text is a sequence of words,   *)
(* with one word per letter in a source name.  Left out: floating-point    *)
(* literals and the limit of 128 repetitions.                              *)
EXTENDS Naturals, Sequences, SequencesExt, DemangleTables

(* struct cpp_demangle_data, and the type_delimit of the current list of   *)
(* arguments (td).  `main' says whether cur_output is the output vector or *)
(* the vector of the caller (side).                                        *)
NoTd == [null |-> TRUE, paren |-> FALSE, firstp |-> FALSE]
NewTd == [null |-> FALSE, paren |-> FALSE, firstp |-> TRUE]

cpp_demangle_data_init(in) ==
  [ok |-> TRUE, in |-> in, cur |-> 1, output |-> <<>>, side |-> <<>>, main |-> TRUE,
   subst |-> <<>>, tmpl |-> <<>>, class_type |-> <<>>, cmd |-> <<>>, mem |-> {},
   is_tmpl |-> FALSE, is_functype |-> FALSE, ref_qualifier |-> "none",
   push_qualifier |-> "all", func_type |-> 0, last_sname |-> <<>>, td |-> NoTd]

-----------------------------------------------------------------------------
Cur(d) == IF d.cur <= Len(d.in) THEN d.in[d.cur] ELSE "end"
Skip(d) == [d EXCEPT !.cur = @ + 1]
Fail(d) == [d EXCEPT !.ok = FALSE]
Then(d, F(_)) == IF d.ok THEN F(d) ELSE d
Expect(d, token) == IF d.ok /\ Cur(d) = token THEN Skip(d) ELSE Fail(d)
FirstDone(d) == IF d.td.null THEN d ELSE [d EXCEPT !.td.firstp = FALSE]

Out(d) == IF d.main THEN d.output ELSE d.side
SetOut(d, o) == IF d.main THEN [d EXCEPT !.output = o] ELSE [d EXCEPT !.side = o]

cpp_demangle_push_str(d, s) ==
  IF s = <<>> THEN Fail(d) ELSE [SetOut(d, Append(Out(d), s)) EXCEPT !.is_tmpl = FALSE]
DEM_PUSH_STR(d, word) == IF d.ok THEN cpp_demangle_push_str(d, <<word>>) ELSE d

(* What was written since position p; <<>> stands for NULL.                *)
vector_str_substr(o, p) == FlattenSeq(SubSeq(o, p + 1, Len(o)))

(* strncmp() with the length of the text that is looked for: a longer text *)
(* that starts with it counts as found.                                    *)
vector_str_find(v, s) == \E i \in DOMAIN v : IsPrefix(s, v[i])

cpp_demangle_push_subst(d, s) ==
  IF s = <<>> THEN Fail(d)
  ELSE IF vector_str_find(d.subst, s) THEN d ELSE [d EXCEPT !.subst = Append(@, s)]

-----------------------------------------------------------------------------
(* cpp_demangle_push_type_qualifier(): from the innermost (last) qualifier *)
(* to the outermost; each one makes a new substitution, a group of const,  *)
(* volatile and restrict only one.  ext holds the names of vendor          *)
(* qualifiers and vector sizes in the order they were read.                *)
RECURSIVE Qualifiers(_, _, _, _, _, _, _)
Qualifiers(d, q, ext, i, cv, e, acc) ==
  IF ~d.ok \/ i = 0 THEN d
  ELSE LET t == q[i]
           skip == IF t \in CV THEN d.push_qualifier = (IF cv THEN "noncv" ELSE "cv")
                   ELSE d.push_qualifier = "cv"
           text == QualifierText(t, IF e <= Len(ext) THEN ext[e] ELSE <<>>)
           group == t \in CV /\ i > 1 /\ q[i - 1] \in CV
           written == cpp_demangle_push_str(d, text)
       IN  IF skip THEN Qualifiers(d, q, ext, i - 1, cv /\ t \in CV, e, acc)
           ELSE IF t \in {"U", "Dv"} /\ e > Len(ext) THEN Fail(d)
           ELSE Qualifiers(IF acc = <<>> \/ group THEN written
                           ELSE cpp_demangle_push_subst(written, acc \o text),
                           q, ext, i - 1, cv /\ t \in CV,
                           IF t \in {"U", "Dv"} THEN e + 1 ELSE e,
                           IF acc = <<>> THEN acc ELSE acc \o text)

cpp_demangle_push_type_qualifier(d, q, ext, type_str) ==
  Qualifiers(d, q, ext, Len(q), TRUE, 1, type_str)

-----------------------------------------------------------------------------
(* The functions call each other through Read(): `what' is the part of the *)
(* grammar that is read.                                                   *)
RECURSIVE Read(_, _)
RECURSIVE Args(_, _)
Args(d, ends) ==   \* arguments up to one of the tokens in ends
  LET r == Read("arg", d) IN IF ~r.ok \/ Cur(r) \in ends THEN r ELSE Args(r, ends)

(* T_ and S_ count from 0, T0_ and S0_ from 1.                             *)
cpp_demangle_get_subst(d, idx) ==
  IF Len(d.subst) <= idx THEN Fail(d) ELSE Skip(cpp_demangle_push_str(d, d.subst[idx + 1]))
cpp_demangle_read_tmpl_param(d) ==
  LET idx == BackReference[Cur(d)] IN
  IF Len(d.tmpl) <= idx THEN Fail(d) ELSE Skip(cpp_demangle_push_str(d, d.tmpl[idx + 1]))

(* The name becomes last_sname outside template arguments; it is looked up *)
(* in the current vector with the length of the output vector.             *)
cpp_demangle_read_sname(d) ==
  IF Cur(d) \notin DOMAIN SourceName THEN Fail(d)
  ELSE LET w == cpp_demangle_push_str(d, SourceName[Cur(d)])
           n == Len(w.output)
       IN  Skip([w EXCEPT !.last_sname =
                   IF \E i \in DOMAIN d.cmd : d.cmd[i].cmd = "tmpl" THEN @
                   ELSE IF n \in DOMAIN Out(w) THEN Out(w)[n] ELSE <<>>])

cpp_demangle_local_source_name(d) ==
  LET r == cpp_demangle_read_sname(Skip(d)) IN
  IF r.ok /\ Cur(r) = "_" THEN LET s == Skip(r) IN IF Cur(s) \in Number THEN Skip(s) ELSE s
  ELSE r

SpecialMember(d, words) ==
  IF d.last_sname = <<>> THEN Fail(d)
  ELSE Skip(cpp_demangle_push_str(cpp_demangle_push_str(d, words), d.last_sname))

cpp_demangle_read_uqname(d) ==
  LET c == Cur(d) IN
  CASE c \in DOMAIN Operator -> Skip(cpp_demangle_push_str(d, <<"operator", Operator[c]>>))
    [] c = "cv" -> Read("type", Skip(cpp_demangle_push_str(d, <<"operator", "(cast)">>)))
    [] c = "sr" -> Skip(DEM_PUSH_STR(d, "scope resolution operator "))
    [] c = "v0" -> cpp_demangle_read_sname(Skip(DEM_PUSH_STR(DEM_PUSH_STR(d,
                       "vendor extened operator "), "0")))
    [] c \in Ctor -> SpecialMember(d, <<"::">>)
    [] c \in Dtor -> SpecialMember(d, <<"::", "~">>)
    [] c \in DOMAIN SourceName -> cpp_demangle_read_sname(d)
    [] c = "L" -> cpp_demangle_local_source_name(d)
    [] OTHER -> d

-----------------------------------------------------------------------------
(* A name and its template arguments, each a substitution; `head' is what  *)
(* the candidates start with, p where the name starts in the output.       *)
WithArgs(d, p, head) ==
  LET name == head \o vector_str_substr(Out(d), p)
      named == cpp_demangle_push_subst(d, name)
      q == Len(Out(d))
  IN  IF ~d.ok \/ Len(Out(d)) = p THEN Fail(d)
      ELSE IF Cur(named) # "I" THEN named
      ELSE Then(Read("tmpl_args", named),
                LAMBDA x : cpp_demangle_push_subst(x, name \o vector_str_substr(Out(x), q)))

cpp_demangle_read_subst_std(d) ==
  LET s == Skip(DEM_PUSH_STR(d, "std::"))
  IN  WithArgs(Read("uqname", s), Len(Out(s)), <<"std::">>)

cpp_demangle_read_subst_stdtmpl(d, str) ==
  LET p == Len(Out(d))
  IN  Then(Read("tmpl_args", d),
           LAMBDA x : cpp_demangle_push_subst(x, str \o vector_str_substr(Out(x), p)))

cpp_demangle_read_subst(d) ==
  LET c == Cur(d)
      a == Skip([cpp_demangle_push_str(d, Abbreviation[c]) EXCEPT !.last_sname =
                   CASE c \in {"Sa", "Sb"} -> @
                     [] c = "Ss" -> <<"string">>
                     [] OTHER -> <<Abbreviation[c][2]>>])
  IN  CASE c \in DOMAIN Abbreviation ->
             IF Cur(a) = "I" THEN cpp_demangle_read_subst_stdtmpl(a, Abbreviation[c]) ELSE a
        [] c = "St" -> cpp_demangle_read_subst_std(d)
        [] c \in DOMAIN BackReference -> cpp_demangle_get_subst(d, BackReference[c])
        [] OTHER -> Skip(d)
IsSubst(c) == c \in DOMAIN Abbreviation \cup {"St"} \cup {SubstTokens[i] : i \in DOMAIN SubstTokens}
IsParam(c) == c \in {ParamTokens[i] : i \in DOMAIN ParamTokens}

-----------------------------------------------------------------------------
cpp_demangle_read_expr_primary(d) ==
  LET s == Skip(d)
      num == IF Cur(Skip(s)) = "n" THEN Skip(DEM_PUSH_STR(Skip(s), "-")) ELSE Skip(s)
  IN  CASE Cur(s) = "_Z" -> Then(Read("encoding", Skip(s)), Skip)
        [] Cur(s) = "b" -> IF Cur(Skip(s)) \notin {"0", "1"} THEN Fail(d)
                           ELSE Expect(Skip(Skip(DEM_PUSH_STR(s,
                                  IF Cur(Skip(s)) = "0" THEN "false" ELSE "true"))), "E")
        [] Cur(s) \in {"i", "j", "l", "m", "n", "s", "t", "x", "y"} ->
             IF Cur(num) \in Number THEN Expect(Skip(DEM_PUSH_STR(num, Cur(num))), "E")
             ELSE Fail(d)
        [] OTHER -> Fail(d)

cpp_demangle_read_expression_unary(d, word) ==
  DEM_PUSH_STR(Read("expression", d), word)
cpp_demangle_read_expression_binary(d, word) ==
  Then(cpp_demangle_read_expression_unary(d, word), LAMBDA x : Read("expression", x))
cpp_demangle_read_expression_trinary(d, word1, word2) ==
  Then(Then(cpp_demangle_read_expression_unary(d, word1),
            LAMBDA x : cpp_demangle_read_expression_unary(x, word2)),
       LAMBDA x : Read("expression", x))

cpp_demangle_read_expression(d) ==
  LET c == Cur(d) IN
  CASE c = "st" -> Read("type", Skip(d))
    [] c = "sr" -> Then(Then(Read("type", Skip(d)), LAMBDA x : Read("uqname", x)),
                        LAMBDA x : IF Cur(x) = "I" THEN Read("tmpl_args", x) ELSE x)
    [] c \in Unary -> cpp_demangle_read_expression_unary(Skip(d), ExpressionText(c))
    [] c \in Binary -> cpp_demangle_read_expression_binary(Skip(d), ExpressionText(c))
    [] c = "qu" -> cpp_demangle_read_expression_trinary(Skip(d), "?", ":")
    [] c = "L" -> cpp_demangle_read_expr_primary(d)
    [] IsParam(c) -> cpp_demangle_read_tmpl_param(d)
    [] OTHER -> Fail(d)

(* What was written to the output vector is taken back; the text is left  *)
(* in the field flat.  (cpp_demangle_read_expression_flat and the class of *)
(* a pointer to member use the output vector, the others cur_output.)      *)
Flat(d, what) ==
  LET p == Len(d.output)
      r == Read(what, d)
      s == vector_str_substr(r.output, p)
  IN  IF ~r.ok \/ s = <<>> THEN [d |-> Fail(r), flat |-> <<>>]
      ELSE [d |-> [r EXCEPT !.output = SubSeq(@, 1, p)], flat |-> s]
FlatCur(d, what) ==
  LET p == Len(Out(d))
      r == Read(what, d)
      s == vector_str_substr(Out(r), p)
  IN  IF ~r.ok \/ s = <<>> THEN [d |-> Fail(r), flat |-> <<>>]
      ELSE [d |-> SetOut(r, SubSeq(Out(r), 1, p)), flat |-> s]

cpp_demangle_read_array(d) ==
  LET s == Skip(d)
      fl == IF Cur(s) \in Number THEN [d |-> Skip(s), flat |-> <<Cur(s)>>]
            ELSE Flat(s, "expression")
  IN  IF Cur(s) = "_" THEN DEM_PUSH_STR(Read("type", Skip(s)), " []")
      ELSE LET r == Read("type", Expect(fl.d, "_"))
           IN  IF ~r.ok THEN r
               ELSE DEM_PUSH_STR(cpp_demangle_push_str(DEM_PUSH_STR(r, " ["), fl.flat), "]")

-----------------------------------------------------------------------------
(* A function type: the qualifiers read before it are written in front of  *)
(* its arguments, with the class of a pointer to member.  (The ABI writes  *)
(* at least one parameter, v.)                                             *)
PTRMEM(d) == {i \in DOMAIN d.cmd : d.cmd[i].cmd = "ptrmem"}

FunctionHead(d, q, ext) ==
  LET noncv == \E i \in DOMAIN q : q[i] \notin CV
      mem == PTRMEM(d) # {}
      item == d.cmd[CHOOSE i \in PTRMEM(d) : \A j \in PTRMEM(d) : j <= i]
      Space(x) == IF noncv THEN DEM_PUSH_STR(x, " ") ELSE x
      Member(x) ==
        cpp_demangle_push_type_qualifier(
          [DEM_PUSH_STR(cpp_demangle_push_str(Space(x), Last(d.class_type)), "::*")
             EXCEPT !.push_qualifier = "all", !.func_type = @ + 1], item.q, item.ext, <<>>)
      Inner(x) == IF mem THEN Member(x) ELSE x
      Quals(x) == cpp_demangle_push_type_qualifier([x EXCEPT !.push_qualifier = "noncv"],
                                                   q, ext, <<>>)
      open == DEM_PUSH_STR(d, " ")
  IN  IF noncv \/ mem THEN DEM_PUSH_STR(Inner(Quals(DEM_PUSH_STR(open, "("))), ")")
      ELSE Quals(open)

cpp_demangle_read_function(d, q, ext) ==
  LET s == Skip(d)
      ret == Read("type", IF Cur(s) = "Y" THEN Skip(s) ELSE s)
      args == Args([FunctionHead(ret, q, ext) EXCEPT !.td = NewTd, !.is_functype = TRUE], {"E"})
      Closed(x) == IF x.td.paren THEN DEM_PUSH_STR(x, ")") ELSE x
      cvs == cpp_demangle_push_type_qualifier(
               [Closed(args) EXCEPT !.is_functype = FALSE, !.push_qualifier = "cv", !.td = d.td],
               q, ext, <<>>)
      Ref(x) == IF x.ref_qualifier = "none" THEN x
                ELSE DEM_PUSH_STR(x, IF x.ref_qualifier = "R" THEN " &" ELSE " &&")
  IN  IF ~ret.ok THEN ret
      ELSE Skip([Ref(cvs) EXCEPT !.push_qualifier = "all", !.ref_qualifier = "none"])

cpp_demangle_read_pointer_to_member(d, q, ext) ==
  LET class == Flat(Skip(d), "type")
      r == Read("type",
             [class.d EXCEPT !.cmd = Append(@, [cmd |-> "ptrmem", q |-> q, ext |-> ext]),
                             !.class_type = Append(@, class.flat)])
      w == IF r.func_type # d.func_type THEN r
           ELSE DEM_PUSH_STR(cpp_demangle_push_str(DEM_PUSH_STR(r, " "), class.flat), "::*")
  IN  IF ~r.ok THEN r ELSE [w EXCEPT !.cmd = Front(@), !.class_type = Front(@)]

(* The end of cpp_demangle_read_type() (label rtn).                        *)
TypeRead(d, p, q, ext, builtin) ==
  LET type_str == vector_str_substr(Out(d), p)
      known == builtin \/ type_str = <<>> \/ vector_str_find(d.subst, type_str)
      noted == IF known THEN d ELSE [d EXCEPT !.subst = Append(@, type_str)]
  IN  IF ~d.ok THEN d
      ELSE FirstDone(cpp_demangle_push_type_qualifier(noted, q, ext, type_str))

OmitVoid(d) ==
  LET ends == {i \in d.cur + 1 .. Len(d.in) : d.in[i] \notin {"R", "O"}}
  IN  ~d.td.null /\ d.td.firstp /\ (ends = {} \/ d.in[CHOOSE i \in ends : \A j \in ends : i <= j] = "E")

VectorSize(d) ==   \* Dv <number> _ or Dv _ <expression> _
  IF Cur(d) = "_" THEN Flat(Skip(d), "expression")
  ELSE [d |-> IF Cur(d) \in Number THEN Skip(d) ELSE Fail(d), flat |-> <<Cur(d)>>]

(* The type itself; q and ext are the qualifiers read before it.           *)
Unqualified(d, q, ext) ==
  LET c == Cur(d) IN
  CASE c \in DOMAIN Builtin -> Skip(cpp_demangle_push_str(d, Builtin[c]))
    [] c = "v" -> Skip(IF OmitVoid(d) THEN d ELSE DEM_PUSH_STR(d, "void"))
    [] c = "A" -> cpp_demangle_read_array(d)
    [] c = "F" -> cpp_demangle_read_function(d, q, ext)
    [] c = "M" -> cpp_demangle_read_pointer_to_member(d, q, ext)
    [] c = "I" -> cpp_demangle_read_subst_stdtmpl(d, <<>>)
    [] IsSubst(c) -> Read("subst", d)
    [] IsParam(c) -> cpp_demangle_read_tmpl_param(d)
    [] c = "u" -> cpp_demangle_read_sname(Skip(d))
    [] OTHER -> Read("name", d)

RECURSIVE Again(_, _, _, _)
Again(d0, p, q, ext) ==
  LET c == Cur(d0)
      d == IF c \in {"R", "O", "E"} THEN d0 ELSE [d0 EXCEPT !.ref_qualifier = "none"]
      Qualified(x, t, e) == IF x.ok THEN Again(FirstDone(x), p, Append(q, t), e) ELSE x
      vec == VectorSize(Skip(d))
  IN  CASE c \in PlainPrefix -> Qualified(Skip(d), c, ext)
        [] c \in {"R", "O"} -> IF d.ref_qualifier # "none" THEN Fail(d)
                               ELSE Qualified(Skip([d EXCEPT !.ref_qualifier = c]), c, ext)
        [] c = "U" -> IF Cur(Skip(d)) \notin DOMAIN SourceName THEN Fail(d)
                      ELSE Qualified(Skip(Skip(d)), c, Append(ext, SourceName[Cur(Skip(d))]))
        [] c = "Dv" -> Qualified(Expect(vec.d, "_"), c, Append(ext, vec.flat))
        [] c = "E" -> IF d.ref_qualifier = "none" \/ ~d.is_functype THEN Fail(d)
                      ELSE FirstDone(SetOut(d, Front(Out(d))))
        [] OTHER -> TypeRead(Unqualified(d, q, ext), IF c = "I" THEN Len(Out(d)) ELSE p,
                             IF c \in {"F", "M"} THEN <<>> ELSE q, ext,
                             c \in {"v", "I"} \cup DOMAIN Builtin)

ReadType(d) ==
  LET open == IF d.td.null \/ d.td.paren THEN d
              ELSE [DEM_PUSH_STR(d, "(") EXCEPT !.td.paren = TRUE]
      next == IF d.td.null \/ d.td.firstp \/ Cur(d) = "I" THEN open ELSE DEM_PUSH_STR(open, ", ")
  IN  IF open.td.paren /\ ~d.td.paren /\ Len(open.output) < 2 THEN Fail(open)
      ELSE Again(next, Len(Out(next)), <<>>, <<>>)

-----------------------------------------------------------------------------
cpp_demangle_read_tmpl_arg(d) ==
  CASE Cur(d) = "L" -> cpp_demangle_read_expr_primary(d)
    [] Cur(d) = "X" -> Expect(Read("expression", Skip(d)), "E")
    [] OTHER -> Read("type", d)

(* Every argument that is not yet in the list of template arguments is     *)
(* added to it.                                                            *)
RECURSIVE TmplArgs(_)
TmplArgs(d) ==
  LET r == cpp_demangle_read_tmpl_arg(d)
      arg == vector_str_substr(Out(r), Len(Out(d)))
      noted == IF vector_str_find(r.tmpl, arg) THEN r ELSE [r EXCEPT !.tmpl = Append(@, arg)]
      close == IF Last(Out(r))[1] = ">" THEN " >" ELSE ">"
  IN  IF ~r.ok \/ arg = <<>> THEN Fail(r)
      ELSE IF Cur(r) = "E" THEN [Skip(DEM_PUSH_STR(noted, close)) EXCEPT !.is_tmpl = TRUE]
      ELSE TmplArgs(IF Cur(r) = "I" THEN noted ELSE DEM_PUSH_STR(noted, ", "))

cpp_demangle_read_tmpl_args(d) ==
  Then(TmplArgs(DEM_PUSH_STR(Skip([d EXCEPT !.cmd = Append(@, [cmd |-> "tmpl"])]), "<")),
       LAMBDA x : [x EXCEPT !.cmd = Front(@)])

-----------------------------------------------------------------------------
(* A nested name: v is the text of the components read so far; each prefix *)
(* is a substitution.                                                      *)
RECURSIVE Components(_, _)
Components(d, v) ==
  LET c == Cur(d)
      p == Len(Out(d))
      r == CASE c = "I" -> Read("tmpl_args", d)
             [] IsSubst(c) -> Read("subst", d)
             [] IsParam(c) -> cpp_demangle_read_tmpl_param(d)
             [] OTHER -> Read("uqname", d)
      v2 == v \o vector_str_substr(Out(r), p)
      noted == IF Len(Out(r)) = p THEN r ELSE cpp_demangle_push_subst(r, v2)
  IN  CASE ~r.ok \/ ~noted.ok -> Fail(r)
        [] Cur(noted) = "E" -> Skip(noted)
        [] Len(Out(r)) = p \/ Cur(noted) \in {"I"} \cup Ctor \cup Dtor -> Components(noted, v2)
        [] OTHER -> Components(DEM_PUSH_STR(noted, "::"), v2 \o <<"::">>)

RECURSIVE cpp_demangle_read_nested_name(_)
cpp_demangle_read_nested_name(d) ==   \* d.cur is at N or at a qualifier after it
  LET s == Skip(d) IN
  IF Cur(s) \in {"r", "V", "K", "R", "O"}
  THEN cpp_demangle_read_nested_name([s EXCEPT !.mem = @ \cup {Cur(s)}])
  ELSE Components(s, <<>>)

(* The function of a local name is read into a vector of its own; its      *)
(* arguments and the entity go to the output vector.                       *)
cpp_demangle_read_local_name(d) ==
  LET enc == Read("encoding", [Skip(d) EXCEPT !.main = FALSE, !.side = <<>>])
      back == [enc EXCEPT !.main = TRUE, !.is_tmpl = FALSE]
      ret == IF enc.is_tmpl THEN Read("type", back) ELSE back
      args == Args([ret EXCEPT !.output = @ \o enc.side, !.td = NewTd], {"E", "end"})
      s == Skip([DEM_PUSH_STR(args, ")") EXCEPT !.td = d.td])
      named == IF Cur(s) = "s" THEN Skip(s)
               ELSE Then(DEM_PUSH_STR(s, "::"), LAMBDA x : Read("name", x))
      disc == Skip(named)
  IN  CASE ~enc.ok \/ ~ret.ok \/ ~args.ok -> Fail(d)
        [] named.ok /\ Cur(named) = "_" -> IF Cur(disc) \in Number THEN Skip(disc) ELSE disc
        [] OTHER -> named

cpp_demangle_read_name(d) ==
  LET c == Cur(d)
      p == Len(Out(d))
      r == Read("uqname", d)
  IN  CASE c = "end" -> Fail(d)
        [] IsSubst(c) -> Read("subst", d)
        [] c = "N" -> cpp_demangle_read_nested_name(d)
        [] c = "Z" -> cpp_demangle_read_local_name(d)
        [] OTHER -> IF r.ok /\ Len(Out(r)) > p /\ "operator" \in Range(vector_str_substr(Out(r), p))
                    THEN r ELSE WithArgs(r, p, <<>>)

-----------------------------------------------------------------------------
cpp_demangle_read_offset_number(d) ==
  LET s == IF Cur(d) = "n" THEN Skip(DEM_PUSH_STR(d, "-")) ELSE d
  IN  Skip(Skip(DEM_PUSH_STR(DEM_PUSH_STR(s, Cur(s)), " ")))
cpp_demangle_read_nv_offset(d) == cpp_demangle_read_offset_number(DEM_PUSH_STR(d, "offset : "))

(* The result of the second number is negated.                             *)
cpp_demangle_read_v_offset(d) ==
  LET r == cpp_demangle_read_offset_number(DEM_PUSH_STR(cpp_demangle_read_nv_offset(d),
                                                        "virtual offset : "))
  IN  [r EXCEPT !.ok = ~@]

cpp_demangle_read_offset(d) ==
  CASE Cur(d) = "h" -> cpp_demangle_read_nv_offset(Skip(d))
    [] Cur(d) = "v" -> cpp_demangle_read_v_offset(Skip(d))
    [] OTHER -> Fail(d)

ReadNumber(d) == IF Cur(d) = "n" THEN [d |-> Skip(Skip(d)), text |-> <<"-", Cur(Skip(d))>>]
                 ELSE [d |-> Skip(d), text |-> <<Cur(d)>>]

(* construction vtable: class, offset, base                                *)
ConstructionVtable(d) ==
  LET derived == FlatCur(d, "type")
      base == Read("type", Expect(ReadNumber(derived.d).d, "_"))
  IN  IF ~derived.d.ok \/ ~base.ok THEN Fail(d)
      ELSE cpp_demangle_push_str(DEM_PUSH_STR(base, "-in-"), derived.flat)

ReferenceTemporary(d) ==
  LET name == FlatCur(d, "name")
      num == ReadNumber(name.d)
  IN  IF ~name.d.ok THEN Fail(d)
      ELSE cpp_demangle_push_str(DEM_PUSH_STR(cpp_demangle_push_str(num.d, num.text), " for "),
                                 name.flat)

cpp_demangle_read_encoding(d) ==
  LET c == Cur(d)
      Said(word) == Skip(DEM_PUSH_STR(d, word))
      s == Skip(d)
  IN  CASE c \in DOMAIN SpecialOfType -> Read("type", Said(SpecialOfType[c]))
        [] c \in DOMAIN SpecialOfName -> Read("name", Said(SpecialOfName[c]))
        [] c = "GA" -> Read("encoding", Said("hidden alias for "))
        [] c = "GR" -> ReferenceTemporary(Said("reference temporary #"))
        [] c = "GT" -> Read("encoding", Skip(DEM_PUSH_STR(s,
                         IF Cur(s) = "n" THEN "non-transaction clone for "
                         ELSE "transaction clone for ")))
        [] c = "TC" -> ConstructionVtable(Said("construction vtable for "))
        [] c = "Th" -> Then(cpp_demangle_read_nv_offset(
                              Said("virtual function non-virtual override ")),
                            LAMBDA x : Read("encoding", x))
        [] c = "Tv" -> Then(cpp_demangle_read_v_offset(
                              Said("virtual function virtual override ")),
                            LAMBDA x : Read("encoding", x))
        [] c = "Tc" -> Then(Then(cpp_demangle_read_offset(
                                   Said("virtual function covariant override ")),
                                 cpp_demangle_read_offset), LAMBDA x : Read("encoding", x))
        [] OTHER -> Read("name", d)

-----------------------------------------------------------------------------
MemberText(mem) ==
  FlattenSeq([i \in 1..5 |->
    LET q == <<"V", "K", "r", "R", "O">>[i]
    IN  IF q \in mem THEN <<(<<" volatile", " const", " restrict", " &", " &&">>)[i]>> ELSE <<>>])

NoPop(d) == d   \* mutant: the function's name stays a substitution

PopFunctionName(d) ==
  IF Cur(d) # "end" /\ d.subst # <<>> THEN [d EXCEPT !.subst = Front(@)] ELSE d

(* The types after the name of a function: for a template function the     *)
(* first one is the return type and goes to the front of the output.       *)
BareFunctionType(d) ==
  LET ret == Read("type", [d EXCEPT !.is_tmpl = FALSE, !.main = FALSE, !.side = <<>>])
      front == [ret EXCEPT !.output = ret.side \o <<(<<" ">>)>> \o @, !.main = TRUE]
      begin == [(IF d.is_tmpl THEN front ELSE d) EXCEPT !.td = NewTd]
  IN  CASE ~d.ok \/ Cur(d) \in {"end", "@@"} -> d
        [] d.is_tmpl /\ (~ret.ok \/ Cur(front) \in {"end", "@@"}) -> Fail(d)
        [] OTHER -> Args(begin, {"end", "@@"})

(* What does not start with _Z is taken for a type, _GLOBAL__I_ as well.   *)
Mangled(d) ==
  LET enc == Read("encoding", Skip(d))
      r == BareFunctionType(IF enc.ok THEN PopFunctionName(enc) ELSE enc)
  IN  IF Cur(d) # "_Z" THEN Read("type", d)
      ELSE [r EXCEPT !.output = @ \o (IF r.td.paren THEN <<(<<")">>)>> ELSE <<>>)
                                  \o <<MemberText(r.mem)>>]

(* cpp_demangle_read_type() with td = NULL ("type") or for an argument.    *)
Read(what, d) ==
  CASE ~d.ok -> d
    [] what = "arg" -> ReadType(d)
    [] what = "type" -> [ReadType([d EXCEPT !.td = NoTd]) EXCEPT !.td = d.td]
    [] what = "uqname" -> cpp_demangle_read_uqname(d)
    [] what = "subst" -> cpp_demangle_read_subst(d)
    [] what = "name" -> cpp_demangle_read_name(d)
    [] what = "expression" -> cpp_demangle_read_expression(d)
    [] what = "encoding" -> cpp_demangle_read_encoding(d)
    [] what = "mangled" -> Mangled(d)
    [] what = "tmpl_args" -> cpp_demangle_read_tmpl_args(d)

(* The text of a mangled name; <<>> stands for NULL.                       *)
__cxa_demangle_gnu3(org) ==
  LET Text(d) == IF d.ok THEN FlattenSeq(d.output) ELSE <<>>
  IN  Text(Read("mangled", cpp_demangle_data_init(org)))
=============================================================================
