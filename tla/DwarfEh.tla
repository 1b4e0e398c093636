------------------------------ MODULE DwarfEh -------------------------------
(* The tables the personality function reads (dwarf_eh.h and the lookup    *)
(* half of exception.cc): the language-specific data area of a function is *)
(* a sequence of bytes; parse_lsda(), the call-site search and the chain   *)
(* of action records run on the bytes.  What the compiler wrote (external) *)
(* is an abstract table, and the answers are compared with it.             *)
EXTENDS Integers, Sequences, SequencesExt, FiniteSetsExt

CONSTANTS Functions_,   \* abstract tables that are tried
          Encodings,    \* encodings of the call-site table
          MaxIp,        \* instruction offsets 1..MaxIp
          ExTypes       \* types of thrown exceptions

DW_EH_PE_uleb128 == 1
DW_EH_PE_udata4 == 3
DW_EH_PE_omit == 255
Null == 0

VARIABLES fn, enc,    \* the function's table and its encoding
          lsda,       \* its bytes; those of the next function follow
          ip, type,   \* where the call is and what was thrown
          found,      \* results: call site, landing pad, handler
          done

vars == <<fn, enc, lsda, ip, type, found, done>>

-----------------------------------------------------------------------------
(* dwarf_size_of_fixed_size_field; four bytes stand as three, which TLC's  *)
(* integers hold.                                                          *)
SizeOf(e) == CASE e = DW_EH_PE_udata4 -> 3

-----------------------------------------------------------------------------
(* Compiler (external): bytes of numbers, records and tables.              *)
RECURSIVE Uleb(_)
Uleb(n) == IF n < 128 THEN <<n>> ELSE <<(n % 128) + 128>> \o Uleb(n \div 128)
RECURSIVE Sleb(_)
Sleb(n) == IF n \in -64..63 THEN <<n % 128>> ELSE <<(n % 128) + 128>> \o Sleb(n \div 128)
Fixed(n, k) == [i \in 1..k |-> (n \div 256^(i - 1)) % 256]
Number(e, n) ==
  CASE e = DW_EH_PE_uleb128 -> Uleb(n)
    [] e = DW_EH_PE_udata4 -> Fixed(n, SizeOf(e))

(* Action lists are written from the last record to the first, so that a   *)
(* chain points backwards; records start at the position FirstAt gives.    *)
RECURSIVE ActionBytes(_, _)
ActionBytes(list, i) ==
  IF i > Len(list) THEN <<>>
  ELSE ActionBytes(list, i + 1) \o
       Sleb(list[i]) \o
       (IF i = Len(list) THEN <<0>>
        ELSE Sleb(-(Len(Sleb(list[i])) + Len(Sleb(list[i + 1])) + 1)))
HeadAt(list) ==   \* offset of the first record of the chain in its bytes
  Len(ActionBytes(list, 2))
RECURSIVE Offset(_, _)
Offset(sites, k) == IF k = 1 THEN 0 ELSE Offset(sites, k - 1) + Len(ActionBytes(sites[k - 1].actions, 1))

SiteBytes(e, sites, k) ==
  LET s == sites[k] IN
  Number(e, s.start) \o Number(e, s.size) \o Number(e, s.pad) \o
  Uleb(IF s.actions = <<>> THEN 0 ELSE Offset(sites, k) + HeadAt(s.actions) + 1)

(* Type table: entry number i lies i entries before the base; the lists of *)
(* exception specifications lie behind it, each ended by a 0.              *)
TypeBytes(types) == FlattenSeq([i \in 1..Len(types) |-> Fixed(types[Len(types) + 1 - i], SizeOf(DW_EH_PE_udata4))])
SpecBytes(specs) == FlattenSeq([i \in 1..Len(specs) |-> Append(specs[i], 0)])

Lsda(f, e) ==
  LET sites == FlattenSeq([k \in 1..Len(f.sites) |-> SiteBytes(e, f.sites, k)])
      acts == FlattenSeq([k \in 1..Len(f.sites) |-> ActionBytes(f.sites[k].actions, 1)])
      rest == <<e>> \o Uleb(Len(sites)) \o sites \o acts \o TypeBytes(f.types)
  IN  <<DW_EH_PE_omit>> \o
      (IF f.types = <<>> THEN <<DW_EH_PE_omit>> \o rest
       ELSE <<DW_EH_PE_udata4>> \o Uleb(Len(rest)) \o rest \o SpecBytes(f.specs))

-----------------------------------------------------------------------------
(* Readers: [v, at] with the position behind the value.                    *)
ByteAt(p) == IF p <= Len(lsda) THEN lsda[p] ELSE 0

RECURSIVE read_leb128(_, _, _)
read_leb128(p, uleb, bit) ==
  LET v == uleb + (ByteAt(p) % 128) * 2^bit IN
  IF ByteAt(p) >= 128 THEN read_leb128(p + 1, v, bit + 7)
  ELSE [v |-> v, at |-> p + 1, bits |-> bit + 7]

read_uleb128(p) == read_leb128(p, 0, 0)

SignBit(r) == r.v \div 2^(r.bits - 1) = 1

read_sleb128(p) ==
  LET r == read_leb128(p, 0, 0) IN
  [r EXCEPT !.v = IF SignBit(r) THEN r.v - 2^r.bits ELSE @]

read_value(e, p) ==
  IF e = DW_EH_PE_uleb128 THEN read_uleb128(p)
  ELSE [v |-> FoldLeft(LAMBDA a, i : a + ByteAt(p + i) * 256^i, 0,
                       [i \in 1..SizeOf(e) |-> i - 1]),
        at |-> p + SizeOf(e), bits |-> 0]

(* LPStart omitted: landing pads count from the start of the function.     *)
parse_lsda ==
  LET tte == ByteAt(2)
      tt == read_uleb128(3)
      at == IF tte = DW_EH_PE_omit THEN 3 ELSE tt.at
      size == read_uleb128(at + 1)
  IN  [type_table |-> IF tte = DW_EH_PE_omit THEN Null ELSE tt.at + tt.v,
       type_table_encoding |-> tte,
       callsite_encoding |-> ByteAt(at),
       call_site_table |-> size.at,
       action_table |-> size.at + size.v]

InSite(start, size) == start < ip /\ ip <= start + size   \* ip is a return address

(* The loop over the call sites: it goes on while the position is at or    *)
(* before the end of the table.                                            *)
RECURSIVE Sites(_, _)
Sites(t, p) ==
  IF p > t.action_table THEN [hit |-> FALSE, pad |-> Null, action |-> Null]
  ELSE LET start == read_value(t.callsite_encoding, p)
           size == read_value(t.callsite_encoding, start.at)
           pad == read_value(t.callsite_encoding, size.at)
           action == read_uleb128(pad.at)
       IN  IF start.v > ip THEN [hit |-> FALSE, pad |-> Null, action |-> Null]
           ELSE IF InSite(start.v, size.v)
           THEN [hit |-> TRUE, pad |-> pad.v,
                 action |-> IF action.v = 0 THEN Null ELSE t.action_table + action.v - 1]
           ELSE Sites(t, action.at)

dwarf_eh_find_callsite(t) == Sites(t, t.call_site_table)

get_type_info_entry(t, filter) ==
  read_value(t.type_table_encoding,
             t.type_table - SizeOf(t.type_table_encoding) * filter).v

(* check_type_signature(), with classes left to TypeInfo: 0 catches all.   *)
TypeMatches(entry) == entry = 0 \/ entry = type

RECURSIVE SpecAllows(_, _)
SpecAllows(t, p) ==
  /\ ByteAt(p) # 0
  /\ \/ TypeMatches(get_type_info_entry(t, ByteAt(p)))
     \/ SpecAllows(t, p + 1)

ForwardOnly(base, d) == base + (IF d < 0 THEN -d ELSE d)   \* mutant

NextRecord(base, d) == base + d

(* check_action_record(): [kind, selector].                                *)
RECURSIVE Records(_, _, _)
Records(t, p, acc) ==
  IF p = Null THEN acc
  ELSE LET filter == read_sleb128(p)
           d == read_sleb128(filter.at)
           next == IF d.v = 0 THEN Null ELSE NextRecord(filter.at, d.v)
       IN  CASE filter.v > 0 /\ TypeMatches(get_type_info_entry(t, filter.v)) ->
                  [kind |-> "catch", selector |-> filter.v]
             [] filter.v > 0 /\ ~TypeMatches(get_type_info_entry(t, filter.v)) ->
                  Records(t, next, acc)
             [] filter.v < 0 ->
                  IF SpecAllows(t, t.type_table - filter.v - 1)
                  THEN Records(t, next, [acc EXCEPT !.selector = filter.v])
                  ELSE [kind |-> "catch", selector |-> filter.v]
             [] filter.v = 0 -> Records(t, next, [kind |-> "cleanup", selector |-> 0])

check_action_record(t, p) ==
  IF p = Null THEN [kind |-> "cleanup", selector |-> 0]
  ELSE Records(t, p, [kind |-> "none", selector |-> 0])

-----------------------------------------------------------------------------
Init ==
  /\ fn \in Functions_
  /\ enc \in Encodings
  /\ lsda = Lsda(fn, enc) \o Lsda(fn, enc)
  /\ ip \in 1..MaxIp
  /\ type \in ExTypes
  /\ found = <<>>
  /\ done = FALSE

(* The lookup of __gxx_personality_v0 in phase 1.                          *)
Lookup ==
  /\ ~done /\ done' = TRUE
  /\ LET t == parse_lsda
         s == dwarf_eh_find_callsite(t)
     IN  found' = IF s.hit
                  THEN [hit |-> TRUE, pad |-> s.pad,
                        handler |-> check_action_record(t, s.action)]
                  ELSE [hit |-> FALSE]
  /\ UNCHANGED <<fn, enc, lsda, ip, type>>

Spec == Init /\ [][Lookup]_vars

-----------------------------------------------------------------------------
(* What the table says, without bytes.                                     *)
Allowed(spec) == \E i \in DOMAIN spec : fn.types[spec[i]] \in {0, type}
FirstMatch(list) ==
  LET stops(f) == \/ f > 0 /\ fn.types[f] \in {0, type}
                  \/ f < 0 /\ ~Allowed(fn.specs[fn.specAt[-f]])
      hits == {i \in DOMAIN list : stops(list[i])}
  IN  IF hits = {} THEN 0 ELSE list[Min(hits)]

SiteOf == {k \in DOMAIN fn.sites :
             fn.sites[k].start < ip /\ ip <= fn.sites[k].start + fn.sites[k].size}

(* dwarf_eh.h and check_action_record: from every instruction the search   *)
(* in the bytes finds the call site, the landing pad and the first clause  *)
(* or violated specification that the compiler's table has, and "cleanup"  *)
(* exactly where only a cleanup is left.                                   *)
FindsTheHandler ==
  done /\ SiteOf # {} =>
    LET s == fn.sites[CHOOSE k \in SiteOf : TRUE]
        f == FirstMatch(s.actions)
    IN  /\ found.hit /\ found.pad = s.pad
        /\ IF f # 0 THEN found.handler = [kind |-> "catch", selector |-> f]
           ELSE found.handler.kind =
                  IF s.actions = <<>> \/ 0 \in Range(s.actions) THEN "cleanup" ELSE "none"

(* dwarf_eh_find_callsite: the loop reads one record more than the table   *)
(* has.  In the tables GCC writes (uleb128) what follows is never taken    *)
(* for a call site, so that an instruction without a record gets false and *)
(* the program is terminated.                                              *)
NoRecordNoHit ==
  done /\ SiteOf = {} /\ enc = DW_EH_PE_uleb128 => ~found.hit

(* The tables give the compiler's answer, for instructions with and        *)
(* without a call-site record.                                             *)
TablesGiveTheHandler == FindsTheHandler /\ NoRecordNoHit
=============================================================================
