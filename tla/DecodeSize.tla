----------------------------- MODULE DecodeSize -----------------------------
(***************************************************************************)
(* decode_size2 of external.c: one forward scan of an encoded buffer that  *)
(* returns the number of heap words dec_term will need, or -1 for an       *)
(* invalid buffer. It is the only bounds check binary_to_term makes before *)
(* allocating and decoding.                                                *)
(*                                                                         *)
(* The scan keeps `terms` (terms still to read at the current nesting      *)
(* level) and an explicit stack of the enclosing levels' counters. Each    *)
(* step of this module is one iteration of the inner `while (terms-- > 0)` *)
(* loop (one tag) or one pass of the outer loop (pop or return).           *)
(*                                                                         *)
(* Counters and sizes keep their C types: `terms`, `heap_size` and the     *)
(* values read by `(ep[0] << 24) | ...` are ints; `n` and `total_size` are *)
(* Uints of the build's word width.                                        *)
(***************************************************************************)
EXTENDS ExternalFormat

CONSTANT Buffers      \* the buffers decode_size2 may be given

VARIABLES
  buf,              \* the bytes from ep to endp (binary_to_term's `bytes`)
  sz_ep,            \* ep, as an offset into buf
  terms,
  heap_size,
  atom_extra_skip,
  estack,           \* DECLARE_ESTACK(s): counters of the enclosing levels
  sz_state,         \* "run", "ret" (returned sz_ret) or "overread"
  sz_ret

size_vars == << buf, sz_ep, terms, heap_size, atom_extra_skip, estack, sz_state, sz_ret >>

(* Entry to decode_size2 for the bytes in buf.                             *)
SizeStart ==
  /\ sz_ep = 0 /\ terms = 1 /\ heap_size = 0 /\ atom_extra_skip = 0
  /\ estack = << >> /\ sz_state = "run" /\ sz_ret = 0

SizeTypeOK ==
  /\ buf \in Seq(0 .. 255)
  /\ sz_ep \in 0 .. Len(buf)
  /\ terms \in Int /\ heap_size \in Int
  /\ atom_extra_skip \in Nat
  /\ estack \in Seq(Int)
  /\ sz_state \in {"run", "ret", "overread"}
  /\ sz_ret \in Int

-----------------------------------------------------------------------------
Avail == Len(buf) - sz_ep             \* endp - ep
Tag   == buf[sz_ep + 1]
P     == sz_ep + 1                    \* ep after `tag = ep++[0]`
Rem   == Len(buf) - P

(* `return -1`: SKIP or CHKSIZE failed, or an unknown tag.                 *)
Reject ==
  /\ sz_state' = "ret" /\ sz_ret' = -1
  /\ UNCHANGED << buf, sz_ep, terms, heap_size, atom_extra_skip, estack >>

(* One iteration of the inner loop reads a tag: `terms-- > 0`, CHKSIZE(1). *)
InLoop == sz_state = "run" /\ terms > 0

SizeEmptyInput ==
  /\ InLoop /\ Avail < 1
  /\ Reject

(* Tags with a fixed-size body: SKIP(body) and a fixed heap cost.          *)
FixedBody == [t \in {INTEGER_EXT, SMALL_INTEGER_EXT, FLOAT_EXT, NIL_EXT} |->
               CASE t = INTEGER_EXT       -> 4
                 [] t = SMALL_INTEGER_EXT -> 1
                 [] t = FLOAT_EXT         -> 31
                 [] t = NIL_EXT           -> 0]
(* Mutant: a float counted as 2 heap words (FLOAT_SIZE_OBJECT of 64 bits). *)
FixedHeapFloat2 == [t \in DOMAIN FixedBody |-> IF t \in {INTEGER_EXT, FLOAT_EXT} THEN 2 ELSE 0]
FixedHeap == [t \in DOMAIN FixedBody |-> IF t = INTEGER_EXT THEN 2
                                         ELSE IF t = FLOAT_EXT THEN 3 ELSE 0]

SizeFixed ==
  /\ InLoop /\ Avail >= 1 /\ Tag \in DOMAIN FixedBody
  /\ \/ /\ FixedBody[Tag] <= Rem
        /\ sz_ep' = P + FixedBody[Tag]
        /\ heap_size' = AddInt32(heap_size, FixedHeap[Tag])
        /\ terms' = terms - 1
        /\ UNCHANGED << buf, atom_extra_skip, estack, sz_state, sz_ret >>
     \/ FixedBody[Tag] > Rem /\ Reject

(* Low 32 bits, as an int, of the Uint expression 1 + 1 + (n + 3) / 4.     *)
(* n + 3 wraps when n is within 3 of the top of the Uint range.            *)
BigWords(n) ==
  IF n + 3 >= 0 THEN 2 + (n + 3) \div 4
  ELSE AddInt32(2, IF WordBits = 32 THEN 2^30 + (n + 3) \div 4 ELSE (n + 3) \div 4)

(* SMALL_BIG_EXT / LARGE_BIG_EXT: n digit bytes, SKIP(size+1+n).           *)
SizeBig ==
  /\ InLoop /\ Avail >= 1 /\ Tag \in {SMALL_BIG_EXT, LARGE_BIG_EXT}
  /\ LET w == IF Tag = SMALL_BIG_EXT THEN 1 ELSE 4
     IN \/ w > Rem /\ Reject
        \/ /\ w <= Rem
           /\ LET n == IF w = 1 THEN GetInt8(buf, P) ELSE GetInt32(buf, P)
              IN \/ ~UintSumLe(w + 1, n, Rem) /\ Reject
                 \/ /\ UintSumLe(w + 1, n, Rem)
                    /\ sz_ep' = P + w + 1 + n
                    /\ heap_size' = AddInt32(heap_size, BigWords(n))
                    /\ terms' = terms - 1
                    /\ UNCHANGED << buf, atom_extra_skip, estack, sz_state, sz_ret >>

(* Atoms consume the bytes the enclosing pid/port/ref left in              *)
(* atom_extra_skip, then reset it.                                         *)
SizeAtom ==
  /\ InLoop /\ Avail >= 1 /\ Tag \in {ATOM_EXT, NEW_CACHE, CACHED_ATOM}
  /\ LET hdr  == CASE Tag = ATOM_EXT -> 2 [] Tag = NEW_CACHE -> 3 [] Tag = CACHED_ATOM -> 0
         need == IF Tag = CACHED_ATOM THEN 0 ELSE hdr
     IN \/ need > Rem /\ Reject
        \/ /\ need <= Rem
           /\ LET len  == CASE Tag = ATOM_EXT    -> GetInt16(buf, P)
                            [] Tag = NEW_CACHE   -> GetInt16(buf, P + 1)
                            [] Tag = CACHED_ATOM -> 1
                  skip == len + hdr + atom_extra_skip
              IN \/ skip > Rem /\ Reject
                 \/ /\ skip <= Rem
                    /\ sz_ep' = P + skip
                    /\ atom_extra_skip' = 0
                    /\ terms' = terms - 1
                    /\ UNCHANGED << buf, heap_size, estack, sz_state, sz_ret >>

(* PID_EXT, PORT_EXT, REFERENCE_EXT: the node atom is one more term; the   *)
(* fixed fields after it are skipped together with that atom.              *)
NodeThingSkip == [t \in {PID_EXT, PORT_EXT, REFERENCE_EXT} |->
                   CASE t = PID_EXT -> 9 [] t = PORT_EXT -> 5 [] t = REFERENCE_EXT -> 5]

SizeNodeThing ==
  /\ InLoop /\ Avail >= 1 /\ Tag \in DOMAIN NodeThingSkip
  /\ sz_ep' = P
  /\ atom_extra_skip' = NodeThingSkip[Tag]
  /\ heap_size' = AddInt32(heap_size, EXTERNAL_THING_HEAD_SIZE + 1)
  /\ terms' = terms               \* terms-- then terms++
  /\ UNCHANGED << buf, estack, sz_state, sz_ret >>

(* NEW_REFERENCE_EXT: id_words numbers follow the node atom and creation.  *)
RefWords(id) == IF WordBits = 64 THEN id \div 2 + 1 ELSE id

SizeNewRef ==
  /\ InLoop /\ Avail >= 1 /\ Tag = NEW_REFERENCE_EXT
  /\ \/ 2 > Rem /\ Reject
     \/ /\ 2 <= Rem
        /\ LET id == GetInt16(buf, P)
           IN \/ id > ERTS_MAX_REF_NUMBERS /\ Reject
              \/ /\ id <= ERTS_MAX_REF_NUMBERS
                 /\ sz_ep' = P + 2
                 /\ atom_extra_skip' = 1 + 4 * id
                 /\ heap_size' = AddInt32(heap_size, EXTERNAL_THING_HEAD_SIZE + RefWords(id))
                 /\ terms' = terms
                 /\ UNCHANGED << buf, estack, sz_state, sz_ret >>

(* Containers push the enclosing counter and start a new level.            *)
(* LIST_EXT counts its elements and the tail; tuples their elements.       *)
SizeContainer ==
  /\ InLoop /\ Avail >= 1 /\ Tag \in {LIST_EXT, SMALL_TUPLE_EXT, LARGE_TUPLE_EXT}
  /\ LET w == IF Tag = SMALL_TUPLE_EXT THEN 1 ELSE 4
     IN \/ w > Rem /\ Reject
        \/ /\ w <= Rem
           /\ LET n   == IF w = 1 THEN GetInt8(buf, P) ELSE GetInt32(buf, P)
                  cnt == IF Tag = LIST_EXT THEN AddInt32(n, 1) ELSE n
                  h   == IF Tag = LIST_EXT THEN AddInt32(cnt, cnt) ELSE AddInt32(cnt, 1)
              IN /\ estack' = Append(estack, terms - 1)
                 /\ terms' = cnt
                 /\ sz_ep' = P + w
                 /\ heap_size' = AddInt32(heap_size, h)
                 /\ UNCHANGED << buf, atom_extra_skip, sz_state, sz_ret >>

(* Mutant: STRING_EXT without CHKSIZE(n + 2).                             *)
SizeStringNoCheck ==
  /\ InLoop /\ Avail >= 1 /\ Tag = STRING_EXT
  /\ \/ 2 > Rem /\ Reject
     \/ /\ 2 <= Rem
        /\ LET n == GetInt16(buf, P)
           IN /\ sz_ep' = P + n + 2
              /\ heap_size' = AddInt32(heap_size, 2 * n)
              /\ terms' = terms - 1
              /\ UNCHANGED << buf, atom_extra_skip, estack, sz_state, sz_ret >>

SizeString ==
  /\ InLoop /\ Avail >= 1 /\ Tag = STRING_EXT
  /\ \/ 2 > Rem /\ Reject
     \/ /\ 2 <= Rem
        /\ LET n == GetInt16(buf, P)
           IN \/ n + 2 > Rem /\ Reject
              \/ /\ n + 2 <= Rem
                 /\ sz_ep' = P + n + 2
                 /\ heap_size' = AddInt32(heap_size, 2 * n)
                 /\ terms' = terms - 1
                 /\ UNCHANGED << buf, atom_extra_skip, estack, sz_state, sz_ret >>

SizeBinary ==
  /\ InLoop /\ Avail >= 1 /\ Tag = BINARY_EXT
  /\ \/ 4 > Rem /\ Reject
     \/ /\ 4 <= Rem
        /\ LET n == GetInt32(buf, P)
           IN \/ ~UintSumLe(4, n, Rem) /\ Reject
              \/ /\ UintSumLe(4, n, Rem)
                 /\ sz_ep' = P + 4 + n
                 /\ heap_size' = AddInt32(heap_size,
                                   IF UintLe(n, ERL_ONHEAP_BIN_LIMIT)
                                   THEN 1 + heap_bin_size(n) ELSE 1 + PROC_BIN_SIZE)
                 /\ terms' = terms - 1
                 /\ UNCHANGED << buf, atom_extra_skip, estack, sz_state, sz_ret >>

(* NEW_FUN_EXT reads its total size before checking that 4 bytes remain, *)
(* then skips arity, uniq and index; both fun tags then read num_free and  *)
(* open a level of 4 + num_free terms (module, index, uniq, creator, env). *)
SizeFun ==
  /\ InLoop /\ Avail >= 1 /\ Tag \in {NEW_FUN_EXT, FUN_EXT}
  /\ LET q == IF Tag = NEW_FUN_EXT THEN P + 25 ELSE P   \* ep at num_free
     IN \/ /\ Tag = NEW_FUN_EXT /\ 4 > Rem
           /\ sz_state' = "overread"
           /\ UNCHANGED << buf, sz_ep, terms, heap_size, atom_extra_skip, estack, sz_ret >>
        \/ /\ Tag = NEW_FUN_EXT /\ 4 <= Rem
           /\ (~UintLe(GetInt32(buf, P), Rem) \/ 25 > Rem)
           /\ Reject
        \/ /\ Tag = FUN_EXT \/ (4 <= Rem /\ UintLe(GetInt32(buf, P), Rem) /\ 25 <= Rem)
           /\ \/ 4 > Len(buf) - q /\ Reject
              \/ /\ 4 <= Len(buf) - q
                 /\ LET num_free == GetInt32(buf, q)
                    IN /\ estack' = Append(estack, terms - 1)
                       /\ terms' = AddInt32(4, num_free)
                       /\ sz_ep' = q + 4
                       /\ heap_size' = AddInt32(heap_size, AddInt32(ERL_FUN_SIZE, num_free))
                       /\ UNCHANGED << buf, atom_extra_skip, sz_state, sz_ret >>

(* default: an unknown tag.                                                *)
KnownTags == DOMAIN FixedBody \cup DOMAIN NodeThingSkip \cup
             {SMALL_BIG_EXT, LARGE_BIG_EXT, ATOM_EXT, NEW_CACHE, CACHED_ATOM,
              NEW_REFERENCE_EXT, LIST_EXT, SMALL_TUPLE_EXT, LARGE_TUPLE_EXT,
              STRING_EXT, BINARY_EXT, NEW_FUN_EXT, FUN_EXT}

SizeBadTag ==
  /\ InLoop /\ Avail >= 1 /\ Tag \notin KnownTags
  /\ Reject

(* Mutant: the enclosing counter is read with ESTACK_TOP and not popped.   *)
SizeLevelDonePeek ==
  /\ sz_state = "run" /\ terms <= 0
  /\ \/ /\ estack = << >>
        /\ sz_state' = "ret" /\ sz_ret' = heap_size
        /\ UNCHANGED << buf, sz_ep, terms, heap_size, atom_extra_skip, estack >>
     \/ /\ estack # << >>
        /\ terms' = estack[Len(estack)]
        /\ UNCHANGED << buf, sz_ep, heap_size, atom_extra_skip, estack, sz_state, sz_ret >>

(* Outer loop: the level is exhausted; return at the top, else pop.        *)
SizeLevelDone ==
  /\ sz_state = "run" /\ terms <= 0
  /\ \/ /\ estack = << >>
        /\ sz_state' = "ret" /\ sz_ret' = heap_size
        /\ UNCHANGED << buf, sz_ep, terms, heap_size, atom_extra_skip, estack >>
     \/ /\ estack # << >>
        /\ terms' = estack[Len(estack)]
        /\ estack' = SubSeq(estack, 1, Len(estack) - 1)
        /\ UNCHANGED << buf, sz_ep, heap_size, atom_extra_skip, sz_state, sz_ret >>

SizeStep ==
  \/ SizeEmptyInput \/ SizeFixed \/ SizeBig \/ SizeAtom \/ SizeNodeThing
  \/ SizeNewRef \/ SizeContainer \/ SizeString \/ SizeBinary \/ SizeFun
  \/ SizeBadTag
  \/ SizeLevelDone

-----------------------------------------------------------------------------
Init == buf \in Buffers /\ SizeStart

SizeFinished == sz_state # "run" /\ UNCHANGED size_vars

Next == SizeStep \/ SizeFinished

Spec == Init /\ [][Next]_size_vars /\ WF_size_vars(SizeStep)
=============================================================================
