--------------------------- MODULE DemangleTables ---------------------------
(* The tables of libelftc_dem_gnu3.c: what the codes of the ABI stand for. *)
(* A record maps a code to its text.                                       *)
EXTENDS Naturals, Sequences, TLC

(* Source names (number of letters and letters) by their token, numbers,   *)
(* and the back references in the order of their base 36 numbers.          *)
SourceName ==
  ("1A" :> <<"A">>) @@ ("1B" :> <<"B">>) @@ ("1V" :> <<"V">>) @@ ("1W" :> <<"W">>)
  @@ ("1f" :> <<"f">>) @@ ("2AB" :> <<"A", "B">>)
  @@ ("12_GLOBAL__N_1" :> <<"(anonymous namespace)">>)
Number == {"0", "1", "2"}
SubstTokens == <<"S_", "S0_", "S1_", "S2_", "S3_", "S4_", "S5_", "S6_", "S7_", "S8_", "S9_",
                 "SA_", "SB_">>
ParamTokens == <<"T_", "T0_", "T1_">>
BackReference == [t \in {SubstTokens[i] : i \in 1..13} \cup {ParamTokens[i] : i \in 1..3} |->
                   CHOOSE i \in 0..12 : \/ SubstTokens[i + 1] = t
                                        \/ i < 3 /\ ParamTokens[i + 1] = t]

-----------------------------------------------------------------------------
(* The qualifiers of cpp_demangle_read_type() and their text.              *)
CV == {"r", "V", "K"}
PlainPrefix == {"C", "G", "K", "V", "r", "P"}   \* the qualifiers that are only noted
PlainQualifier ==
  [P |-> <<"*">>, R |-> <<"&">>, O |-> <<"&", "&">>, C |-> <<" complex">>,
   G |-> <<" imaginary">>, r |-> <<" restrict">>, V |-> <<" volatile">>, K |-> <<" const">>]
QualifierText(t, name) == CASE t = "U" -> <<" ">> \o name
                            [] t = "Dv" -> <<" __vector(">> \o name \o <<")">>
                            [] OTHER -> PlainQualifier[t]

(* Builtin types; a text that starts with another one has two words.       *)
BuiltinAD == [a |-> <<"signed char">>, b |-> <<"bool">>, c |-> <<"char">>, d |-> <<"double">>]
BuiltinEI == [e |-> <<"long", " double">>, f |-> <<"float">>, g |-> <<"__float128">>,
              h |-> <<"unsigned char">>, i |-> <<"int">>]
BuiltinJO == [j |-> <<"unsigned int">>, l |-> <<"long">>, m |-> <<"unsigned long">>,
              n |-> <<"__int128">>, o |-> <<"unsigned __int128">>]
BuiltinSZ == [s |-> <<"short">>, t |-> <<"unsigned short">>, w |-> <<"wchar_t">>,
              x |-> <<"long", " long">>, y |-> <<"unsigned long", " long">>, z |-> <<"...">>]
BuiltinD ==
  [Da |-> <<"auto">>, Dc |-> <<"decltype(auto)">>, Dd |-> <<"decimal64">>,
   De |-> <<"decimal128">>, Df |-> <<"decimal32">>, Dh |-> <<"half">>,
   Di |-> <<"char", "32_t">>, Dn |-> <<"decltype(nullptr)">>, Ds |-> <<"char", "16_t">>]
Builtin == BuiltinAD @@ BuiltinEI @@ BuiltinJO @@ BuiltinSZ @@ BuiltinD

-----------------------------------------------------------------------------
(* Operator names: cpp_demangle_read_uqname().                             *)
OperatorAL ==
  [aa |-> "&&", ad |-> "&", an |-> "&", aN |-> "&=", aS |-> "=", cl |-> "()", cm |-> ",",
   co |-> "~", da |-> " delete []", de |-> "*", dl |-> " delete", dv |-> "/", dV |-> "/=",
   eo |-> "^", eO |-> "^=", eq |-> "==", ge |-> ">=", gt |-> ">", ix |-> "[]"]
OperatorLP ==
  [le |-> "<=", ls |-> "<<", lS |-> "<<=", lt |-> "<", mi |-> "-", mI |-> "-=", ml |-> "*",
   mL |-> "*=", mm |-> "--", na |-> " new []", ne |-> "!=", ng |-> "-", nt |-> "!",
   nw |-> " new", oo |-> "||", or |-> "|", oR |-> "|=", pl |-> "+", pL |-> "+=", pm |-> "->*"]
OperatorPZ ==
  [pp |-> "++", ps |-> "+", pt |-> "->", qu |-> "?", rm |-> "%", rM |-> "%=", rs |-> ">>",
   rS |-> ">>=", rz |-> " sizeof ", sv |-> " sizeof "]
Operator == OperatorAL @@ OperatorLP @@ OperatorPZ
Ctor == {"C1", "C2", "C3"}
Dtor == {"D0", "D1", "D2"}

(* Operators in expressions: cpp_demangle_read_expression().               *)
Unary == {"ad", "da", "de", "dl", "na", "ng", "nw", "ps", "rz", "sv"}
BinaryAM == {"aa", "an", "aN", "aS", "cl", "cm", "co", "cv", "dv", "dV", "eo", "eO", "eq", "ge",
             "gt", "ix", "le", "ls", "lS", "lt", "mi", "mI", "ml"}
BinaryMZ == {"mL", "mm", "ne", "nt", "oo", "or", "oR", "pl", "pL", "pm", "pp", "pt", "rm", "rM",
             "rs", "rS"}
Binary == BinaryAM \cup BinaryMZ
ExpressionText(op) == IF op = "cv" THEN "(cast)" ELSE Operator[op]

(* Special names: cpp_demangle_read_encoding().                            *)
SpecialOfType == [TF |-> "typeinfo fn for ", TI |-> "typeinfo for ", TJ |-> "java Class for ",
                  TS |-> "typeinfo name for ", TT |-> "VTT for ", TV |-> "vtable for "]
SpecialOfName == [GV |-> "guard variable for ", TH |-> "TLS init function for ",
                  TW |-> "TLS wrapper function for "]

(* Abbreviations: cpp_demangle_read_subst(), with the class names that a   *)
(* constructor would take.                                                 *)
Abbreviation ==
  [Sa |-> <<"std::", "allocator">>, Sb |-> <<"std::", "basic_string">>,
   Sd |-> <<"std::", "basic_iostream", "<char, std::char_traits<char> >">>,
   Si |-> <<"std::", "basic_istream", "<char, std::char_traits<char> >">>,
   So |-> <<"std::", "basic_ostream", "<char, std::char_traits<char> >">>,
   Ss |-> <<"std::", "basic_string",
            "<char, std::char_traits<char>, std::allocator<char> >">>]
=============================================================================
