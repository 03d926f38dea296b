--------------------------- MODULE ExternalFormat ---------------------------
(***************************************************************************)
(* Shared vocabulary of the Erlang external term format as implemented in  *)
(* erts/emulator/beam/external.c: the tag bytes, the big-endian field      *)
(* accessors (get_int16/get_int32/put_int16/put_int32 of sys.h), the C     *)
(* integer conversions that matter for overflow (int, Uint of the build's  *)
(* word width), and the term values that the encoder reads and the decoder *)
(* produces.                                                               *)
(*                                                                         *)
(* Tag values are those of external.h (not among the sources); they are   *)
(* fixed by the wire protocol.                                             *)
(***************************************************************************)
EXTENDS Integers, Sequences

CONSTANTS
  WordBits,           \* 32 or 64: the build's Uint/Eterm width
  ThisNodeName,       \* erts_this_node->sysname, an atom text
  ThisCreation,       \* erts_this_node->creation
  MAX_CREATION,       \* creations are 0 .. MAX_CREATION-1 on the wire
  ERTS_MAX_REF_NUMBERS,
  MAX_REFERENCE,
  ERTS_MAX_PID_NUMBER,
  ERTS_MAX_PID_SERIAL,
  ERTS_MAX_PORT_NUMBER,
  EXTERNAL_THING_HEAD_SIZE,  \* heap words of an ExternalThing before data[]
  REF_THING_HEAD_SIZE,       \* heap words of a RefThing header
  ERL_ONHEAP_BIN_LIMIT,      \* largest binary kept on the process heap
  PROC_BIN_SIZE,             \* heap words of a ProcBin
  ERL_FUN_SIZE               \* heap words of an ErlFunThing without env

ASSUME WordBits \in {32, 64}
ASSUME ThisCreation \in 1 .. MAX_CREATION - 1

-----------------------------------------------------------------------------
(* Tag bytes (external.h).                                                 *)
SMALL_INTEGER_EXT == 97
INTEGER_EXT       == 98
FLOAT_EXT         == 99
ATOM_EXT          == 100
REFERENCE_EXT     == 101
PORT_EXT          == 102
PID_EXT           == 103
SMALL_TUPLE_EXT   == 104
LARGE_TUPLE_EXT   == 105
NIL_EXT           == 106
STRING_EXT        == 107
LIST_EXT          == 108
BINARY_EXT        == 109
SMALL_BIG_EXT     == 110
LARGE_BIG_EXT     == 111
NEW_FUN_EXT       == 112
NEW_REFERENCE_EXT == 114
FUN_EXT           == 117
NEW_CACHE         == 78
CACHED_ATOM       == 67
COMPRESSED        == 80
VERSION_MAGIC     == 131

MAX_STRING_LEN == 65535          \* external.c: #define MAX_STRING_LEN 0xffff
ORIG_CREATION  == 0

-----------------------------------------------------------------------------
(* C integer arithmetic. TLC's integers are 32-bit, so a C value is kept *)
(* as its two's-complement value: an int as itself, and a Uint converted  *)
(* from an int (sign extension) as that same int, whatever WordBits is.   *)
(* A negative "Uint" therefore stands for a value at or above 2^31 (on 32 *)
(* bits) or 2^63 (on 64 bits). The operators below evaluate exactly the C *)
(* expressions the decoder uses without leaving TLC's range.              *)
MaxInt == 2147483647
MinInt == -MaxInt - 1

(* a + b in a C int (wraps modulo 2^32).                                  *)
AddInt32(a, b) ==
  CASE a > 0 /\ b > 0 /\ a > MaxInt - b -> (a - MaxInt - 1) + (b - MaxInt - 1)
    [] a < 0 /\ b < 0 /\ a < MinInt - b -> (a + MaxInt + 1) + (b + MaxInt + 1)
    [] OTHER -> a + b

(* (Uint)(c + n) <= r, for n an int converted to Uint, c and r small and   *)
(* non-negative. A negative n is a huge Uint; c + n wraps back to a small  *)
(* value exactly when c + n >= 0 (on both word widths).                    *)
UintSumLe(c, n, r) ==
  IF n >= 0 THEN n <= r - c ELSE n + c >= 0 /\ n + c <= r

(* (Uint)n <= r for n an int converted to Uint and r >= 0.                 *)
UintLe(n, r) == n >= 0 /\ n <= r

(* Immediate small integers (MY_IS_SSMALL): 28-bit on 32-bit builds,       *)
(* 60-bit on 64-bit builds, where every int is small.                      *)
SmallBits == WordBits - 5
IsSmall(i) == WordBits = 64 \/ (i >= -(2^27) /\ i <= 2^27 - 1)

(* Words of a heap binary and of a bignum of n bytes, and words per byte   *)
(* count, for the build's word size.                                       *)
WordBytes == WordBits \div 8
CeilDiv(a, b) == (a + b - 1) \div b
heap_bin_size(n) == 2 + CeilDiv(n, WordBytes)  \* thing word, size, data words

-----------------------------------------------------------------------------
(* Big-endian fields. A buffer is a sequence of bytes; an offset p counts  *)
(* bytes already consumed, so the byte at offset p is b[p+1].              *)
GetInt8(b, p)   == b[p + 1]
GetInt16(b, p)  == b[p + 1] * 256 + b[p + 2]
(* get_int32 read into an int: the top byte carries the sign.             *)
GetInt32(b, p)  == LET hi == IF b[p + 1] >= 128 THEN b[p + 1] - 256 ELSE b[p + 1]
                   IN ((hi * 256 + b[p + 2]) * 256 + b[p + 3]) * 256 + b[p + 4]

PutInt8(n)  == << n % 256 >>
PutInt16(n) == << (n \div 256) % 256, n % 256 >>
(* put_int32 of an int n: its two's-complement bytes, high byte first.    *)
PutInt32(n) == LET m  == IF n >= 0 THEN n ELSE n + MaxInt + 1   \* low 31 bits
                    b0 == m \div 2^24 + (IF n >= 0 THEN 0 ELSE 128)
               IN << b0, (m \div 2^16) % 256, (m \div 2^8) % 256, m % 256 >>

(* Little-endian magnitude bytes of a bignum (big_to_bytes) and back.      *)
RECURSIVE LEBytes(_)
LEBytes(m) == IF m = 0 THEN << >> ELSE << m % 256 >> \o LEBytes(m \div 256)
RECURSIVE LEValue(_)
LEValue(s) == IF s = << >> THEN 0 ELSE Head(s) + 256 * LEValue(Tail(s))
RECURSIVE StripZeros(_)
StripZeros(s) == IF s # << >> /\ s[Len(s)] = 0 THEN StripZeros(SubSeq(s, 1, Len(s) - 1)) ELSE s

(* A magnitude (no trailing zeros) is below 2^bits.                        *)
MagBelow(mag, bits) ==
  \/ Len(mag) * 8 <= bits
  \/ Len(mag) = bits \div 8 + 1 /\ mag[Len(mag)] < 2^(bits % 8)

-----------------------------------------------------------------------------
(* Term values. The same records describe the term given to the encoder    *)
(* and the term read back from the decoder's heap.                         *)
(* Integers are kept as sign and little-endian magnitude bytes without     *)
(* trailing zeros, so that decoded bignums of any size compare with the    *)
(* integers given to the encoder.                                          *)
NilTerm        == [k |-> "nil"]
BigTerm(neg, mag) == [k |-> "int", neg |-> neg /\ mag # << >>, mag |-> mag]
(* -2^31 is given its magnitude directly: 2^31 is not a TLC integer.     *)
IntTerm(i)     == IF i = -(2^30) - 2^30 THEN BigTerm(TRUE, << 0, 0, 0, 128 >>)
                  ELSE BigTerm(i < 0, LEBytes(IF i < 0 THEN -i ELSE i))
AtomTerm(txt)  == [k |-> "atom", v |-> txt]
TupleTerm(es)  == [k |-> "tuple", v |-> es]
ListTerm(es, t) == [k |-> "list", v |-> es, tail |-> t]
BinTerm(bs)    == [k |-> "bin", v |-> bs]
FloatTerm(txt) == [k |-> "float", v |-> txt]
PidTerm(n, c, num, ser) == [k |-> "pid", node |-> n, cre |-> c, num |-> num, ser |-> ser]
PortTerm(n, c, num)     == [k |-> "port", node |-> n, cre |-> c, num |-> num]
RefTerm(n, c, nums)     == [k |-> "ref", node |-> n, cre |-> c, nums |-> nums]

(* A bignum magnitude that make_small still holds: |v| < 2^SmallBits, or    *)
(* v = -2^SmallBits.                                                       *)
FitsSmall(neg, mag) ==
  \/ MagBelow(mag, SmallBits)
  \/ neg /\ mag = [i \in 1 .. SmallBits \div 8 + 1 |->
                     IF i = SmallBits \div 8 + 1 THEN 2^(SmallBits % 8) ELSE 0]
IsSmallTerm(t) == t.k = "int" /\ FitsSmall(t.neg, t.mag)

(* Node names are atoms. dec_set_creation: creation 0 sent with this       *)
(* node's name means the current creation.                                 *)
ThisNode == AtomTerm(ThisNodeName)
dec_set_creation(name, cre) ==
  IF name = ThisNode /\ cre = ORIG_CREATION THEN ThisCreation ELSE cre

IsThisNode(name, cre) == name = ThisNode /\ cre = ThisCreation
=============================================================================
