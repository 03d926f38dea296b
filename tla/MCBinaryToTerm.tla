--------------------------- MODULE MCBinaryToTerm ---------------------------
(***************************************************************************)
(* Model values for BinaryToTerm. An input is VERSION_MAGIC followed by a  *)
(* body; bodies are built from chunks that are whole encodings or pieces   *)
(* of them (a tag with its count, the fixed fields of a pid, ...), so that *)
(* concatenating up to three chunks yields well-formed terms, truncated    *)
(* ones, and ones with trailing or missing parts.                          *)
(***************************************************************************)
EXTENDS BinaryToTerm

MCName == << 110 >>                       \* this node is 'n'

AtomN == << ATOM_EXT, 0, 1, 110 >>
AtomM == << ATOM_EXT, 0, 1, 109 >>

(* Chunks whose every combination decode_size2 and dec_term handle with    *)
(* in-bounds reads and writes (none of the edge values of the other sets). *)
SafeChunks ==
  { << SMALL_INTEGER_EXT, 5 >>,
    << INTEGER_EXT, 128, 0, 0, 0 >>,           \* -2^31: a bignum on 32 bits
    << NIL_EXT >>,
    AtomN, AtomM,
    << SMALL_TUPLE_EXT, 2 >>,
    << LIST_EXT, 0, 0, 0, 1 >>,
    << PID_EXT >>,
    << 0, 0, 0, 1, 0, 0, 0, 0, 1 >>,           \* pid num 1, serial 0, creation 1
    << 0, 0, 0, 1, 0, 0, 0, 0, 2 >>,           \* creation 2: another node
    << SMALL_BIG_EXT, 1, 0, 5 >>,
    << BINARY_EXT, 0, 0, 0, 1, 7 >>,
    << STRING_EXT, 0, 1, 65 >>,
    << NEW_REFERENCE_EXT, 0, 1 >> }

Concat3(S) == { a \o b \o c : a, b, c \in S \cup {<< >>} }

(* Longer well-formed encodings: a pid of another node inside a list, a    *)
(* NEW_FUN_EXT with one free variable, a FUN_EXT, references.              *)
NewFun(nf, env) ==
  LET body == << 1 >> \o [i \in 1 .. 20 |-> 0] \o PutInt32(nf)
              \o AtomM \o << SMALL_INTEGER_EXT, 0 >> \o << SMALL_INTEGER_EXT, 3 >>
              \o << PID_EXT >> \o AtomN \o << 0, 0, 0, 1, 0, 0, 0, 0, 1 >> \o env
  IN << NEW_FUN_EXT >> \o PutInt32(4 + Len(body)) \o body
OldFun ==
  << FUN_EXT, 0, 0, 0, 1, PID_EXT >> \o AtomM \o << 0, 0, 0, 2, 0, 0, 0, 0, 1 >>
  \o AtomM \o << SMALL_INTEGER_EXT, 1 >> \o << SMALL_INTEGER_EXT, 2 >> \o << NIL_EXT >>
Structured ==
  { << LIST_EXT, 0, 0, 0, 2, PID_EXT >> \o AtomM \o << 0, 0, 0, 3, 0, 0, 0, 1, 1 >>
      \o << SMALL_INTEGER_EXT, 1, NIL_EXT >>,
    NewFun(1, << NIL_EXT >>),
    NewFun(0, << >>),
    OldFun,
    << NEW_REFERENCE_EXT, 0, 2 >> \o AtomN \o << 1, 0, 0, 0, 5, 0, 0, 0, 6 >>,
    << REFERENCE_EXT >> \o AtomM \o << 0, 0, 0, 9, 2 >>,
    << PORT_EXT >> \o AtomM \o << 0, 0, 0, 4, 3 >>,
    << SMALL_TUPLE_EXT, 1, FLOAT_EXT >> \o [i \in 1 .. 31 |-> 49],
    << COMPRESSED, 0, 0, 0, 2, 9, 9 >>,
    << COMPRESSED, 0, 0, 0, 1, 9, 9 >>,
    << STRING_EXT, 0, 2, 65, 66 >>,
    << PID_EXT >> \o AtomM \o << 0, 0, 0, 1, 0, 0, 0, 0, 9 >>,   \* creation 9: dec_pid fails
    << SMALL_TUPLE_EXT, 1, FLOAT_EXT >> \o [i \in 1 .. 31 |-> 120] }  \* "xxx...": not a float

(* Structured encodings cut one byte short (the spec's malformed inputs).  *)
Truncated == { SubSeq(s, 1, Len(s) - 1) : s \in Structured }

SafeInputs ==
  { << VERSION_MAGIC >> \o b : b \in Concat3(SafeChunks) \cup Structured \cup Truncated }
  \cup { << >>, << 130, NIL_EXT >> }

MCInflate == << 9, 9 >> :> << SMALL_INTEGER_EXT, 5 >>

(* Single inputs, one per malformed-input defect of the decoder.           *)
PidBadCreation == << VERSION_MAGIC, LIST_EXT, 0, 0, 0, 1, PID_EXT >> \o AtomM
                  \o << 0, 0, 0, 1, 0, 0, 0, 0, 9, NIL_EXT >>
NewRefNoWords  == << VERSION_MAGIC, NEW_REFERENCE_EXT, 0, 0 >> \o AtomM \o << 1 >>
NegativeList   == << VERSION_MAGIC, LIST_EXT, 255, 255, 255, 255, NIL_EXT >>
NegativeBinary == << VERSION_MAGIC, BINARY_EXT, 255, 255, 255, 252 >>
NewFunShort    == << VERSION_MAGIC, NEW_FUN_EXT, 0 >>
NegativeBig    == << VERSION_MAGIC, LARGE_BIG_EXT, 255, 255, 255, 251, 0 >>
FunNegFree     == << VERSION_MAGIC, FUN_EXT, 255, 255, 255, 255, PID_EXT >> \o AtomM
                  \o << 0, 0, 0, 1, 0, 0, 0, 0, 1 >> \o AtomM
                  \o << SMALL_INTEGER_EXT, 1, SMALL_INTEGER_EXT, 2 >>
HugeDestLen    == << VERSION_MAGIC, COMPRESSED, 255, 255, 255, 255, 9, 9 >>
LocalPid       == << VERSION_MAGIC, PID_EXT >> \o AtomN \o << 0, 0, 0, 1, 0, 0, 0, 0, 1 >>

(* Binaries on which dec_term or decode_size2 reads or writes out of      *)
(* bounds, and binaries on which the emulator is stopped by erl_exit.      *)
FaultIn == {PidBadCreation, NewRefNoWords, NegativeList, NegativeBinary, NewFunShort, FunNegFree}
ExitIn  == {NegativeBig, HugeDestLen}
LocalPidIn == {LocalPid}
FaultOrExitIn == FaultIn \cup ExitIn
=====
