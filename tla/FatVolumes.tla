----------------------------- MODULE FatVolumes -----------------------------
(* Volumes with the files A and D/B.X, their chains laid out over four     *)
(* clusters, among deleted, hidden and label entries.                      *)
EXTENDS Naturals, Sequences

Entry(base, ext, dir, size, cluster) ==
  [last |-> FALSE, volume |-> FALSE, hidden |-> FALSE, deleted |-> FALSE,
   base |-> base, ext |-> ext, dir |-> dir, size |-> size, cluster |-> cluster]
EndMark == [Entry(<<"A", " ">>, <<" ">>, FALSE, 0, 0) EXCEPT !.last = TRUE]
Label == [Entry(<<"A", " ">>, <<" ">>, FALSE, 0, 0) EXCEPT !.volume = TRUE]
Deleted == [Entry(<<"A", " ">>, <<" ">>, FALSE, 3, 2) EXCEPT !.deleted = TRUE]
Hid == [Entry(<<"B", " ">>, <<"X">>, FALSE, 3, 3) EXCEPT !.hidden = TRUE]

(* An empty file has cluster 0, whose table entry is the media descriptor. *)
First(chain) == IF chain = <<>> THEN 0 ELSE chain[1]
ChainRead(chain) == IF chain = <<>> THEN <<0>> ELSE chain

Next_(chains, c) ==
  IF c = 0 THEN 65528
  ELSE IF \E s \in chains : \E i \in 1..Len(s) - 1 : s[i] = c
  THEN LET s == CHOOSE s \in chains : \E i \in 1..Len(s) - 1 : s[i] = c
       IN  s[(CHOOSE i \in 1..Len(s) - 1 : s[i] = c) + 1]
  ELSE 65535

Volume(a, d, b) ==
  LET root == <<Label, Deleted, Entry(<<"A", " ">>, <<" ">>, FALSE, Len(a) * 4 - 1, First(a)),
                Entry(<<"D", "D">>, <<" ">>, TRUE, 0, d)>>
      sub == <<Hid, Entry(<<"B", " ">>, <<"X">>, FALSE, Len(b) * 4 - 2, First(b)),
               EndMark, Entry(<<"A", " ">>, <<" ">>, FALSE, 1, 2)>>
      cell(s, i) ==
        IF s < 1 THEN [byte |-> <<0, 0>>]
        ELSE IF s < 7 THEN [next |-> Next_({a, b}, ((s - 1) % 3) * 2 + i)]
        ELSE IF s < 9 THEN root[(s - 7) * 2 + i + 1]
        ELSE LET c == (s - 9) \div 2 + 2
                 k == ((s - 9) % 2) * 2 + i
             IN  IF c = d THEN sub[k + 1] ELSE [byte |-> <<c, k>>]
  IN  [disk |-> [s \in 0..16 |-> [i \in 0..1 |-> cell(s, i)]],
       nodes |-> {[names |-> <<>>, dir |-> TRUE, clusters |-> <<>>,
                   kids |-> <<<<"A">>, <<"D", "D">>>>],
                  [names |-> <<<<"A">>>>, dir |-> FALSE, clusters |-> ChainRead(a),
                   kids |-> <<>>],
                  [names |-> <<<<"D", "D">>>>, dir |-> TRUE, clusters |-> <<d>>,
                   kids |-> <<<<"B", ".", "X">>>>],
                  [names |-> <<<<"D", "D">>, <<"B", ".", "X">>>>, dir |-> FALSE,
                   clusters |-> ChainRead(b), kids |-> <<>>]}]

(* Both orders of A's two clusters; B.X is empty or has one cluster.       *)
MCVolumes == {Volume(<<2, 5>>, 3, <<4>>), Volume(<<5, 2>>, 3, <<>>)}

MCPaths == {<<"a">>, <<"/", "d", "d", "/", "/", "b", ".", "x">>, <<"d", "D", "/">>,
            <<>>, <<"a", "/">>, <<"d", "d", "/", "a">>}
=============================================================================
