---------------------------- MODULE TermToBinary ----------------------------
(***************************************************************************)
(* The encoder of external.c as operators over term values: enc_term,     *)
(* enc_atom and enc_pid without an atom cache (dep == NULL, as for         *)
(* term_to_binary), encode_size_struct2, and term_to_binary with its       *)
(* compressed variant. These are pure functions of the term: the only     *)
(* state they touch is the output buffer they return.                      *)
(*                                                                         *)
(* A fun term carries what enc_term reads of it: module, old_index,        *)
(* old_uniq (ints), arity, creator pid and env. The fun entry's 16-byte    *)
(* MD5 uniq and new index are written as zero bytes: no decoder reads     *)
(* them. compress (zlib) is modelled by Compress: plain bytes -> deflated *)
(* bytes, for the plain texts the model compresses; any other input does  *)
(* not fit the output buffer (compress fails).                             *)
(***************************************************************************)
EXTENDS ExternalFormat

CONSTANTS
  DFLAGS,      \* the DFLAG_* names of TERM_TO_BINARY_DFLAGS
  Compress     \* plain bytes -> deflated bytes

FunTerm(module, index, uniq, arity, creator, env) ==
  [k |-> "fun", module |-> module, index |-> IntTerm(index), uniq |-> IntTerm(uniq),
   arity |-> arity, creator |-> creator, env |-> env]

(* Concatenation of a sequence of byte sequences.                          *)
RECURSIVE Cat(_)
Cat(ss) == IF ss = << >> THEN << >> ELSE Head(ss) \o Cat(Tail(ss))

(* put_int32 of the low 32 bits of an integer given by sign and magnitude: *)
(* the int conversion `val = signed_val(obj)` of enc_term.                 *)
RECURSIVE NegLE(_, _)
NegLE(s, c) == IF s = << >> THEN << >>
               ELSE << (255 - Head(s) + c) % 256 >> \o NegLE(Tail(s), (255 - Head(s) + c) \div 256)
Low32BE(neg, mag) ==
  LET m4 == [i \in 1 .. 4 |-> IF i <= Len(mag) THEN mag[i] ELSE 0]
      le == IF neg THEN NegLE(m4, 1) ELSE m4
  IN << le[4], le[3], le[2], le[1] >>

(* Mutant: is_byte tests the magnitude and not the sign.                  *)
IsByteMag(t) == MagBelow(t.mag, 8)
IsByte(t) == ~t.neg /\ MagBelow(t.mag, 8)

(* is_string: a proper list of integers 0..255; its length.               *)
IsString(t) == t.tail = NilTerm /\ \A i \in DOMAIN t.v : t.v[i].k = "int" /\ IsByte(t.v[i])

-----------------------------------------------------------------------------
(* enc_atom with dep == NULL: ATOM_EXT, 16-bit length, text.               *)
enc_atom(a) == << ATOM_EXT >> \o PutInt16(Len(a.v)) \o a.v

enc_pid(p) ==
  << PID_EXT >> \o enc_atom(p.node) \o PutInt32(p.num) \o PutInt32(p.ser) \o << p.cre >>

RECURSIVE enc_term(_), enc_fun(_)
enc_term(t) ==
  IF t.k = "nil"  THEN << NIL_EXT >>
    ELSE IF t.k = "atom" THEN enc_atom(t)
    ELSE IF t.k = "int" /\ FitsSmall(t.neg, t.mag) THEN
         (IF IsByte(t) THEN << SMALL_INTEGER_EXT, LEValue(t.mag) >>
          ELSE << INTEGER_EXT >> \o Low32BE(t.neg, t.mag))
    ELSE IF t.k = "int" THEN
         (IF Len(t.mag) < 256 THEN << SMALL_BIG_EXT, Len(t.mag) >>
          ELSE << LARGE_BIG_EXT >> \o PutInt32(Len(t.mag)))
         \o << IF t.neg THEN 1 ELSE 0 >> \o t.mag
    ELSE IF t.k = "pid"  THEN enc_pid(t)
    ELSE IF t.k = "ref"  THEN
         << NEW_REFERENCE_EXT >> \o PutInt16(Len(t.nums)) \o enc_atom(t.node) \o << t.cre >>
         \o Cat([j \in DOMAIN t.nums |-> PutInt32(t.nums[j])])
    ELSE IF t.k = "port" THEN << PORT_EXT >> \o enc_atom(t.node) \o PutInt32(t.num) \o << t.cre >>
    ELSE IF t.k = "list" /\ IsString(t) /\ Len(t.v) < MAX_STRING_LEN THEN
         << STRING_EXT >> \o PutInt16(Len(t.v)) \o [i \in DOMAIN t.v |-> LEValue(t.v[i].mag)]
    ELSE IF t.k = "list" THEN
         << LIST_EXT >> \o PutInt32(Len(t.v)) \o Cat([i \in DOMAIN t.v |-> enc_term(t.v[i])])
         \o enc_term(t.tail)
    ELSE IF t.k = "tuple" THEN
         (IF Len(t.v) <= 255 THEN << SMALL_TUPLE_EXT, Len(t.v) >>
          ELSE << LARGE_TUPLE_EXT >> \o PutInt32(Len(t.v)))
         \o Cat([i \in DOMAIN t.v |-> enc_term(t.v[i])])
    ELSE IF t.k = "float" THEN << FLOAT_EXT >> \o t.v
    ELSE IF t.k = "bin"   THEN << BINARY_EXT >> \o PutInt32(Len(t.v)) \o t.v
    ELSE enc_fun(t)                     \* FUN_DEF

(* FUN_DEF: NEW_FUN_EXT, FUN_EXT, or the tuple for a peer without either. *)
enc_fun(t) ==
  IF "NEW_FUN_TAGS" \in DFLAGS THEN
         LET rest == << t.arity >> \o [i \in 1 .. 20 |-> 0] \o PutInt32(Len(t.env))
                     \o enc_atom(t.module) \o enc_term(t.index) \o enc_term(t.uniq)
                     \o enc_pid(t.creator) \o Cat([i \in DOMAIN t.env |-> enc_term(t.env[i])])
         IN << NEW_FUN_EXT >> \o PutInt32(4 + Len(rest)) \o rest
    ELSE IF "FUN_TAGS" \in DFLAGS THEN
         << FUN_EXT >> \o PutInt32(Len(t.env)) \o enc_pid(t.creator) \o enc_atom(t.module)
         \o enc_term(t.index) \o enc_term(t.uniq)
         \o Cat([i \in DOMAIN t.env |-> enc_term(t.env[i])])
    ELSE
         (* A peer without fun support gets {fun, Module, Index, Uniq, Env}; *)
         (* the uniq is written as unsigned_val(old_uniq).                  *)
         << SMALL_TUPLE_EXT, 5 >> \o enc_atom(AtomTerm(<< 102, 117, 110 >>))
         \o enc_atom(t.module)
         \o << INTEGER_EXT >> \o Low32BE(t.index.neg, t.index.mag)
         \o << INTEGER_EXT >> \o PutInt32(LEValue(t.uniq.mag) \div 16)
         \o (IF Len(t.env) <= 255 THEN << SMALL_TUPLE_EXT, Len(t.env) >>
             ELSE << LARGE_TUPLE_EXT >> \o PutInt32(Len(t.env)))
         \o Cat([i \in DOMAIN t.env |-> enc_term(t.env[i])])

-----------------------------------------------------------------------------
(* encode_size_struct2: the bytes enc_term will write ("must agree with    *)
(* to_external2() above!!! (except for cached atoms)").                    *)
RECURSIVE encode_size_struct2(_), SizeSum(_)
SizeSum(ts) == IF ts = << >> THEN 0 ELSE encode_size_struct2(Head(ts)) + SizeSum(Tail(ts))
encode_size_struct2(t) ==
  IF t.k = "nil"  THEN 1
    ELSE IF t.k = "atom" THEN 1 + 1 + 2 + Len(t.v)         \* sized for NEW_CACHE
    ELSE IF t.k = "int" /\ FitsSmall(t.neg, t.mag) THEN (IF IsByte(t) THEN 1 + 1 ELSE 1 + 4)
    ELSE IF t.k = "int" THEN (IF Len(t.mag) < 256 THEN 1 + 1 + 1 + Len(t.mag) ELSE 1 + 4 + 1 + Len(t.mag))
    ELSE IF t.k = "pid"  THEN 1 + encode_size_struct2(t.node) + 4 + 4 + 1
    ELSE IF t.k = "ref"  THEN 1 + 2 + encode_size_struct2(t.node) + 1 + 4 * Len(t.nums)
    ELSE IF t.k = "port" THEN 1 + encode_size_struct2(t.node) + 4 + 1
    ELSE IF t.k = "list" /\ IsString(t) /\ Len(t.v) < MAX_STRING_LEN THEN Len(t.v) + 2 + 1
    ELSE IF t.k = "list" THEN 5 + SizeSum(t.v) + (IF t.tail = NilTerm THEN 1 ELSE encode_size_struct2(t.tail))
    ELSE IF t.k = "tuple" THEN (IF Len(t.v) <= 255 THEN 1 + 1 ELSE 1 + 4) + SizeSum(t.v)
    ELSE IF t.k = "float" THEN 32
    ELSE IF t.k = "bin"   THEN 1 + 4 + Len(t.v)
    ELSE IF t.k = "fun" /\ ({"NEW_FUN_TAGS", "FUN_TAGS"} \cap DFLAGS # {}) THEN
         (IF "NEW_FUN_TAGS" \in DFLAGS THEN 20 + 1 + 1 + 4 ELSE 1)
         + 4 + encode_size_struct2(t.creator) + encode_size_struct2(t.module)
         + 2 * (1 + 4) + SizeSum(t.env)
    ELSE                                \* FUN_DEF as a tuple
         1 + 1 + (1 + 1 + 2 + 3) + (1 + 1 + 2 + Len(t.module.v)) + 2 * (1 + 4)
         + 1 + (IF Len(t.env) < 256 THEN 1 ELSE 4) + SizeSum(t.env)

encode_size_struct(t) == 1 + encode_size_struct2(t)

-----------------------------------------------------------------------------
(* term_to_binary(p, Term, compressed): the binary returned, or "exit"     *)
(* when enc_term wrote more than encode_size_struct allotted (erl_exit     *)
(* "buffer overflow", after the bytes were written).                       *)
term_to_binary(t, compressed) ==
  LET size  == encode_size_struct(t)
      bytes == enc_term(t)
      real  == Len(bytes)
      dest  == IF real < 5 THEN 0 ELSE real - 5
  IN IF ~compressed /\ real + 1 > size THEN "exit"
       ELSE IF ~compressed THEN << VERSION_MAGIC >> \o bytes
       ELSE IF real > size THEN "exit"
       ELSE IF bytes \in DOMAIN Compress /\ Len(Compress[bytes]) <= dest THEN
            << VERSION_MAGIC, COMPRESSED >> \o PutInt32(real) \o Compress[bytes]
       ELSE << VERSION_MAGIC >> \o bytes
=============================================================================
