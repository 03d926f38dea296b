----------------------------- MODULE RoundTrip ------------------------------
(***************************************************************************)
(* term_to_binary followed by binary_to_term on the same node. A term src *)
(* is encoded by term_to_binary (module TermToBinary, a pure function of  *)
(* the term); the binary, or the binary cut one byte short, is then       *)
(* decoded by the binary_to_term state machine (module BinaryToTerm).     *)
(* binary_to_term is also called with the binaries of Inputs, which no    *)
(* term_to_binary made (src is then NoTerm).                               *)
(***************************************************************************)
EXTENDS BinaryToTerm, TermToBinary

CONSTANTS
  Terms,        \* the terms term_to_binary is called with
  Compressed    \* the compressed option values used

VARIABLES
  src,          \* the term encoded, or NoTerm
  cut           \* TRUE: the binary is cut one byte short before decoding

rt_vars == << src, cut >> \o vars

Encoded(t, c) == term_to_binary(t, c)

Cut(b, c) == IF c THEN SubSeq(b, 1, Len(b) - 1) ELSE b

NoTerm == [k |-> "none"]

RTInit ==
  \/ \E t \in Terms, z \in Compressed, c \in BOOLEAN :
       /\ Encoded(t, z) # "exit"
       /\ src = t /\ cut = c
       /\ StartWith(Cut(Encoded(t, z), c))
  \/ \E i \in Inputs : src = NoTerm /\ cut = FALSE /\ StartWith(i)

RTNext == Next /\ UNCHANGED << src, cut >>

RTSpec == RTInit /\ [][RTNext]_rt_vars /\ WF_rt_vars(B2TStep /\ UNCHANGED << src, cut >>)

-----------------------------------------------------------------------------
RTTypeOK == B2TTypeOK /\ cut \in BOOLEAN

(* Spec "Function": for a peer without fun support enc_term re-encodes a  *)
(* fun as {fun, Module, Index, Uniq, Env} "to preserve interoperability",  *)
(* with the fun's own module, old index, old uniq and free variables.       *)
FunFallback(t) ==
  TupleTerm(<< AtomTerm(<< 102, 117, 110 >>), t.module, t.index, t.uniq, TupleTerm(t.env) >>)
Expected(t) ==
  IF t.k = "fun" /\ {"NEW_FUN_TAGS", "FUN_TAGS"} \cap DFLAGS = {} THEN FunFallback(t) ELSE t

(* Spec "Round-trip": binary_to_term(term_to_binary(T)) returns T, with   *)
(* the same structure, integer values, pid/port/ref identities and fun    *)
(* contents (the fallback tuple above for a peer without fun support);    *)
(* and spec "Malformed rejection": the same binary cut by one byte is     *)
(* rejected with badarg (never a fault, never a term).                    *)
RoundTripOK ==
  src # NoTerm /\ b2t \in Returned \cup Faulty =>
    IF cut THEN b2t = "badarg" ELSE b2t = "done" /\ res = Expected(src)

=============================================================================
