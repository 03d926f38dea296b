---------------------------- MODULE MCRoundTrip -----------------------------
(***************************************************************************)
(* Model values for RoundTrip: this node is 'n' (creation 1), the other    *)
(* node 'm'. Terms are the leaves below, 2-tuples and improper 1-lists of  *)
(* them, and funs whose environment is one leaf. The binaries no          *)
(* term_to_binary made are MCBinaryToTerm's.                               *)
(***************************************************************************)
EXTENDS RoundTrip, MCBinaryToTerm, TLC

M == AtomTerm(<< 109 >>)

Float1 == << 49, 46 >> \o [i \in 1 .. 29 |-> 48]        \* "1.000..."

Leaves ==
  { NilTerm, M,
    IntTerm(0), IntTerm(255), IntTerm(256), IntTerm(-1),
    IntTerm(-(2^27)),                   \* the least small on 32 bits
    IntTerm(2^27),                      \* a bignum on 32 bits, small on 64
    IntTerm(-(2^30) - 2^30),            \* INTEGER_EXT's least value
    BigTerm(TRUE, << 0, 0, 0, 0, 1 >>),   \* -2^32
    BigTerm(FALSE, << 0, 0, 0, 0, 1 >>),  \* 2^32: small on 64 bits
    BinTerm(<< 7 >>), FloatTerm(Float1),
    ListTerm(<< IntTerm(65) >>, NilTerm),   \* the string "A"
    PidTerm(AtomTerm(MCName), 1, 1, 0),   \* a local pid
    PidTerm(M, 2, 3, 1), PortTerm(M, 3, 4),
    RefTerm(AtomTerm(MCName), 1, << 5, 6 >>), RefTerm(M, 0, << 7 >>) }

Creator == PidTerm(AtomTerm(MCName), 1, 2, 0)

MCTerms ==
  Leaves
  \cup { TupleTerm(<< a, b >>) : a, b \in Leaves }
  \cup { ListTerm(<< a >>, b) : a \in Leaves, b \in {l \in Leaves : l.k \notin {"nil", "list"}} }
  \cup { FunTerm(M, 0, 3, 1, Creator, << e >>) : e \in Leaves }
  \cup { FunTerm(M, 2, 300, 0, PidTerm(M, 2, 3, 1), << >>) }

(* The one encoding zlib shrinks in the model: a tuple of two atoms.       *)
Shrinks == enc_term(TupleTerm(<< M, M >>))
MCCompress == Shrinks :> << 8, 8 >>
MCRTInflate == (<< 8, 8 >> :> Shrinks) @@ MCInflate
=============================================================================
