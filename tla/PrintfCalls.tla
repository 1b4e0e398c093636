---------------------------- MODULE PrintfCalls ----------------------------
(* The calls that Printf is checked for, with what each format means.      *)
EXTENDS Integers, Sequences

MCRankBits == [r \in -2..2 |-> CASE r = -2 -> 3 [] r = -1 -> 4 [] r = 2 -> 7 [] OTHER -> 5]

FlagSeqs == {<<>>, <<"-">>, <<"0">>, <<"+">>, <<" ", "#">>, <<"#", "0">>, <<"'", "-">>, <<"+", "'">>}
Widths == {<<<<>>, 0>>, <<<<"5">>, 5>>, <<<<"*">>, 4>>, <<<<"*">>, -4>>}
Precs == {<<<<>>, -1>>, <<<<".">>, 0>>, <<<<".", "4">>, 4>>, <<<<".", "*">>, 2>>, <<<<".", "*">>, -3>>}
Mods == {<<<<>>, 0>>, <<<<"h">>, -1>>, <<<<"h", "h", "h">>, -2>>, <<<<"l">>, 1>>, <<<<"q", "l">>, 2>>}
Values(c, r) ==
  CASE c = "s" -> {<<"a", "b", "c">>}
    [] c = "c" -> {<<"z">>}
    [] c \in {"n", "%"} -> {0}
    [] r = 2 -> {0, 64, 127}
    [] c = "d" -> {-16, -1, 0, 9, 13}
    [] OTHER -> {0, 8, 31}

Call(call, n, fl, w, p_, m, c, v) ==
  LET pick(x) == IF x[1] # <<>> /\ x[1][Len(x[1])] = "*" THEN <<x[2]>> ELSE <<>>
  IN  [lib |-> IF call = "user" THEN "user" ELSE "kernel",
       call |-> IF call = "user" THEN "vfprintf" ELSE call, n |-> n,
       fmt |-> <<"e", "%">> \o fl \o w[1] \o p_[1] \o m[1] \o <<c, "f">>,
       args |-> pick(w) \o pick(p_) \o <<IF c = "c" THEN v[1] ELSE v>>,
       spec |-> [flags |-> {fl[i] : i \in DOMAIN fl} \cup (IF w[2] < 0 THEN {"-"} ELSE {}),
                 width |-> IF w[2] < 0 THEN -w[2] ELSE w[2],
                 prec |-> IF p_[2] < 0 THEN -1 ELSE p_[2],
                 rank |-> m[2], conv |-> c, val |-> v,
                 before |-> <<"e">>, after |-> <<"f">>]]

CallsOf(convs, fls, ws, ps, ms, calls) ==
  UNION {{Call(k[1], k[2], fl, w, p_, m, c, v) :
            k \in calls, fl \in fls, w \in ws, p_ \in ps, v \in Values(c, m[2])} :
         c \in convs, m \in ms}

MCCalls ==
  CallsOf({"d", "x"}, FlagSeqs, Widths, Precs, {<<<<>>, 0>>}, {<<"snprintf", 4>>, <<"vfprintf", 0>>})
  \cup CallsOf({"d", "u", "o", "X"}, {<<>>, <<"#", "0">>}, {<<<<"5">>, 5>>}, Precs, Mods,
               {<<"snprintf", 3>>, <<"asprintf", 0>>, <<"user", 0>>})
  \cup CallsOf({"s", "c", "p", "n", "%"}, {<<>>, <<"-">>, <<"0">>}, Widths, Precs, {<<<<>>, 0>>},
               {<<"snprintf", k>> : k \in 0..7} \cup {<<"user", 0>>})
=============================================================================
