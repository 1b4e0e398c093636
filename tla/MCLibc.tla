------------------------------- MODULE MCLibc -------------------------------
(* The C library, its allocator and the compiler's run time library, side  *)
(* by side.  A behaviour exercises the one that `part' names; the others   *)
(* stay at an initial state.                                               *)
EXTENDS Integers, Sequences, PrintfCalls

CONSTANTS FileBuffer,                            \* Printf
          StringBytes, StringLen, BufferSize,    \* CString
          NumberBytes, NumberLen, Bases, LongBits,   \* Strtol
          LineChars, Delims, LineLen,            \* Strtok
          BootSize, MainSize, Requests, MaxLive, \* Heap
          WordBits,                              \* WideInt
          significandBits, exponentBits, IntBits, MaxScale   \* SoftFloat

VARIABLES part,
          in, p, state, flags, rank, width, prec, arg, out, stored, pc, ret, sent,
          buf, text, s, t, n, res,
          nptr, base, number, endptr, done,
          line, b, last, got, ended,
          mem, hKernelHeap, held, newest, halted,
          wa, wb, wout,
          x, y, fres

printf_ == <<in, p, state, flags, rank, width, prec, arg, out, stored, pc, ret, sent>>
string_ == <<buf, text, s, t, n, res>>
strtol_ == <<nptr, base, number, endptr, done>>
strtok_ == <<line, b, last, got, ended>>
heap_ == <<mem, hKernelHeap, held, newest, halted>>
wide_ == <<wa, wb, wout>>
float_ == <<x, y, fres>>

(* Double words at and next to the powers of two, and some others.         *)
WideOperands ==
  {0, 768, 1000, 1280, 12345, 21845, 40000, 43605, 43690, 51966, 61440, 65280, 65281, 65535}
  \cup UNION {{2^i - 1, 2^i, 2^i + 1} : i \in 1 .. 15}

P == INSTANCE Printf WITH Calls <- MCCalls, RankBits <- MCRankBits
S == INSTANCE CString WITH Bytes <- StringBytes, MaxLen <- StringLen, Size <- BufferSize
N == INSTANCE Strtol WITH Bytes <- NumberBytes, MaxLen <- NumberLen, ret <- number
T == INSTANCE Strtok WITH Chars <- LineChars, MaxLen <- LineLen
H == INSTANCE Heap WITH last <- newest
W == INSTANCE WideInt WITH W <- WordBits, Operands <- WideOperands, a <- wa, b <- wb, out <- wout
F == INSTANCE SoftFloat WITH res <- fres

SomeCall == CHOOSE c \in MCCalls : TRUE

Init ==
  /\ part \in {"printf", "string", "strtol", "strtok", "heap", "wide", "float"}
  /\ part # "printf" => in = SomeCall
  /\ part # "string" => s = <<>> /\ t = <<>> /\ n = 0
  /\ part # "strtol" => nptr = <<>> /\ base = 0
  /\ part # "strtok" => line = <<>>
  /\ part # "wide" => wa = 0 /\ wb = 0
  /\ part # "float" => x = 0 /\ y = 0
  /\ P!Init /\ S!Init /\ N!Init /\ T!Init /\ H!Init /\ W!Init /\ F!Init

Next ==
  \/ part = "printf" /\ P!Next /\ UNCHANGED <<part, string_, strtol_, strtok_, heap_, wide_, float_>>
  \/ part = "string" /\ S!Next /\ UNCHANGED <<part, printf_, strtol_, strtok_, heap_, wide_, float_>>
  \/ part = "strtol" /\ N!Call /\ UNCHANGED <<part, printf_, string_, strtok_, heap_, wide_, float_>>
  \/ part = "strtok" /\ T!strtok /\ UNCHANGED <<part, printf_, string_, strtol_, heap_, wide_, float_>>
  \/ part = "heap" /\ H!Next /\ UNCHANGED <<part, printf_, string_, strtol_, strtok_, wide_, float_>>
  \/ part = "wide" /\ W!Call /\ UNCHANGED <<part, printf_, string_, strtol_, strtok_, heap_, float_>>
  \/ part = "float" /\ F!Call /\ UNCHANGED <<part, printf_, string_, strtol_, strtok_, heap_, wide_>>

Spec == Init /\ [][Next]_<<part, printf_, string_, strtol_, strtok_, heap_, wide_, float_>>

-----------------------------------------------------------------------------
(* vsnprintf() writes the text that C gives the directive, but for the     *)
(* four Departures that Printf names, cut to the buffer, and returns its   *)
(* whole length; nothing is written outside of the buffer.                 *)
PrintfFollowsC == part = "printf" => P!PrintfFollowsC
(* Copies, comparisons and searches of string.c, strtol() and strtok() do  *)
(* what C says: the string the calls mean, one dictionary order, the first *)
(* place, the longest number (but for a 0x without digits, see Strtol),    *)
(* the words of the line.                                                  *)
TextFollowsC == /\ part = "string" => S!StringsFollowC
                /\ part = "strtol" => N!ReadsTheNumber
                /\ part = "strtok" => T!TokensAreWords
(* HeapAlloc() and HeapFree() keep the heap tiled by its nodes, leave held *)
(* blocks alone and panic only when the kernel heap is exhausted.          *)
HeapSound == part = "heap" => H!HeapSound
(* heap.c implements BlockStore.                                           *)
KeepsStorePromise == H!Store!Init /\ [][part = "heap" /\ H!Store!Next]_(H!Store!vars)
(* The compiler's integer helpers are exact, word by word or in double     *)
(* words, and the checked ones abort exactly on overflow.                  *)
IntegersExact == part = "wide" => W!IntegersExact
(* Sums, products and conversions are the exact ones rounded to nearest,   *)
(* and comparisons order numbers by value.                                 *)
FloatsRound == part = "float" => F!FloatsRound
=============================================================================
