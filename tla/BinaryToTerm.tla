---------------------------- MODULE BinaryToTerm ----------------------------
(***************************************************************************)
(* binary_to_term_1 of external.c: the composition of the version check,  *)
(* the optional uncompress, decode_size2 (module DecodeSize), HAlloc of    *)
(* the heap words it returned, dec_term (module DecTerm, with dep = NULL)  *)
(* and the final "heap overrun" check.                                     *)
(*                                                                         *)
(* uncompress (zlib) is not among the sources. It is modelled by what it   *)
(* does to this code: Inflate maps the compressed payloads of the model to *)
(* the bytes they inflate to; any other payload is a zlib error, and       *)
(* output longer than the announced length is Z_BUF_ERROR.                 *)
(* safe_alloc_from and HAlloc abort the emulator (erl_exit) when the       *)
(* request cannot be met; MaxAlloc is the largest request that can be.     *)
(***************************************************************************)
EXTENDS ExternalFormat, TLC

CONSTANTS
  Inputs,      \* the binaries binary_to_term may be called with
  Inflate,     \* compressed payload -> inflated bytes
  MaxAlloc     \* largest allocation (bytes or words) the emulator can make

VARIABLES
  inp,         \* BIF_ARG_1
  b2t,         \* "start", "size", "decode", or the outcome
  res,         \* the returned term
  buf, sz_ep, terms, heap_size, atom_extra_skip, estack, sz_state, sz_ret,
  hend, dt_ep, hp, heap, next, frames, in_arr, node_refc, dt_state

DS == INSTANCE DecodeSize WITH Buffers <- {}
DT == INSTANCE DecTerm WITH HasDep <- FALSE, DepAtomCache <- FALSE, MAXINDX <- 255

vars == << inp, b2t, res, buf, sz_ep, terms, heap_size, atom_extra_skip, estack,
           sz_state, sz_ret, hend, dt_ep, hp, heap, next, frames, in_arr,
           node_refc, dt_state >>
size_vars == << sz_ep, terms, heap_size, atom_extra_skip, estack, sz_state, sz_ret >>
dec_vars  == << hend, dt_ep, hp, heap, next, frames, in_arr, node_refc, dt_state >>

(* Outcomes: the BIF returns a term or raises badarg, or the emulator     *)
(* goes wrong: a fault of decode_size2 or dec_term, or erl_exit.          *)
Returned == {"done", "badarg"}
Faulty   == {"size_overread", "dec_fault", "vm_exit"}

ThisNodeKey == << ThisNode, ThisCreation >>

(* The state binary_to_term_1 is entered in, called with the binary i.   *)
StartWith(i) ==
  /\ inp = i /\ b2t = "start" /\ res = NilTerm
  /\ buf = << >> /\ DS!SizeStart
  /\ hend = 0 /\ dt_ep = 0 /\ hp = 0 /\ heap = (DT!Root :> DT!Link(DT!NULL))
  /\ next = DT!NULL /\ frames = << >> /\ in_arr = << >>
  /\ node_refc = (ThisNodeKey :> 1) /\ dt_state = "idle"

Init == \E i \in Inputs : StartWith(i)

(* Enter decode_size2 on the given bytes.                                  *)
StartSize(bytes) ==
  /\ buf' = bytes /\ b2t' = "size"
  /\ sz_ep' = 0 /\ terms' = 1 /\ heap_size' = 0 /\ atom_extra_skip' = 0
  /\ estack' = << >> /\ sz_state' = "run" /\ sz_ret' = 0
  /\ UNCHANGED << inp, res, dec_vars >>

Finish(outcome) == b2t' = outcome /\ UNCHANGED << inp, res, buf, size_vars, dec_vars >>

(* size < 1 || bytes[0] != VERSION_MAGIC: badarg.                          *)
B2TBadVersion ==
  /\ b2t = "start"
  /\ IF Len(inp) < 1 THEN TRUE ELSE inp[1] # VERSION_MAGIC
  /\ Finish("badarg")

B2TPlain ==
  /\ b2t = "start" /\ Len(inp) >= 1 /\ inp[1] = VERSION_MAGIC
  /\ ~(Len(inp) - 1 >= 5 /\ inp[2] = COMPRESSED)
  /\ StartSize(Tail(inp))

(* COMPRESSED: dest_len = get_int32(bytes+1) is sign-extended into a      *)
(* uLongf, the buffer is allocated, then uncompress.                       *)
B2TCompressed ==
  /\ b2t = "start" /\ Len(inp) >= 1 /\ inp[1] = VERSION_MAGIC
  /\ Len(inp) - 1 >= 5 /\ inp[2] = COMPRESSED
  /\ LET dest_len == GetInt32(inp, 2)
         payload  == SubSeq(inp, 7, Len(inp))
     IN IF ~UintLe(dest_len, MaxAlloc) THEN Finish("vm_exit")
        ELSE IF payload \in DOMAIN Inflate /\ Len(Inflate[payload]) <= dest_len
        THEN StartSize(Inflate[payload])
        ELSE Finish("badarg")

B2TSize ==
  /\ b2t = "size" /\ DS!SizeStep
  /\ UNCHANGED << inp, b2t, res, dec_vars >>

(* decode_size2 returned: -1 is badarg; otherwise HAlloc(heap_size) and    *)
(* dec_term(NULL, &hp, bytes, ...).                                        *)
B2TAlloc ==
  /\ b2t = "size" /\ sz_state # "run"
  /\ IF sz_state = "overread" THEN Finish("size_overread")
     ELSE IF sz_ret = -1 THEN Finish("badarg")
     ELSE IF ~(sz_ret >= 0 /\ sz_ret <= MaxAlloc) THEN Finish("vm_exit")
     ELSE /\ hend' = sz_ret /\ DT!DecBegin(0) /\ b2t' = "decode"
          /\ UNCHANGED << inp, res, buf, size_vars, in_arr, node_refc >>

B2TDecode ==
  /\ b2t = "decode" /\ DT!DecStep
  /\ UNCHANGED << inp, b2t, res, buf, size_vars >>

(* dec_term returned: NULL is badarg; hp > endp is erl_exit.               *)
B2TReturn ==
  /\ b2t = "decode" /\ dt_state \notin {"run"}
  /\ IF dt_state \in DT!Faults THEN Finish("dec_fault")
     ELSE IF dt_state = "error" THEN Finish("badarg")
     ELSE IF hp > hend THEN Finish("vm_exit")
     ELSE /\ b2t' = "done" /\ res' = DT!DecResult
          /\ UNCHANGED << inp, buf, size_vars, dec_vars >>

B2TStep ==
  \/ B2TBadVersion \/ B2TPlain \/ B2TCompressed \/ B2TSize \/ B2TAlloc
  \/ B2TDecode \/ B2TReturn

Terminated == b2t \in Returned \cup Faulty /\ UNCHANGED vars

Next == B2TStep \/ Terminated

Spec == Init /\ [][Next]_vars /\ WF_vars(B2TStep)

-----------------------------------------------------------------------------
B2TTypeOK ==
  /\ inp \in Seq(0 .. 255) /\ buf \in Seq(0 .. 255)
  /\ b2t \in {"start", "size", "decode"} \cup Returned \cup Faulty
  /\ DS!SizeTypeOK
  /\ dt_state \in {"idle", "run", "ok", "error"} \cup DT!Faults
  /\ hp \in Int /\ hend \in 0 .. MaxAlloc
  /\ next \in DOMAIN heap \cup {DT!NULL}
  /\ \A n \in DOMAIN node_refc : node_refc[n] \in Nat

(* Memory safety of binary_to_term on any binary: decode_size2 never reads *)
(* past the input, dec_term never reads past it nor writes outside the     *)
(* words HAlloc gave it nor dereferences a NULL ep, and the emulator is    *)
(* never stopped by erl_exit; a malformed binary is a badarg (spec: "never *)
(* a panic or out-of-bounds read"; decode_size "must never under-count").  *)
MemorySafe == b2t \notin Faulty

(* External pids, ports and references in a term, of the node key.        *)
RECURSIVE ExtCount(_, _), ExtCountSeq(_, _)
ExtCount(t, key) ==
  CASE t.k \in {"pid", "port", "ref"} -> IF << t.node, t.cre >> = key THEN 1 ELSE 0
    [] t.k = "tuple" -> ExtCountSeq(t.v, key)
    [] t.k = "list"  -> ExtCountSeq(t.v, key) + ExtCount(t.tail, key)
    [] t.k = "fun"   -> ExtCount(t.creator, key) + ExtCountSeq(t.env, key)
    [] OTHER -> 0
ExtCountSeq(s, key) == IF s = << >> THEN 0 ELSE ExtCount(Head(s), key) + ExtCountSeq(Tail(s), key)

(* Cells a term still holds that the patch list never filled.             *)
RECURSIVE Unfilled(_), UnfilledSeq(_)
Unfilled(t) ==
  CASE t.k \in {"link", "unset"} -> TRUE
    [] t.k = "tuple" -> UnfilledSeq(t.v)
    [] t.k = "list"  -> UnfilledSeq(t.v) \/ Unfilled(t.tail)
    [] t.k = "fun"   -> Unfilled(t.creator) \/ UnfilledSeq(t.env)
    [] OTHER -> FALSE
UnfilledSeq(s) == \E i \in DOMAIN s : Unfilled(s[i])

(* A successful binary_to_term returns a complete term: dec_term's chain   *)
(* reached every slot of every tuple, list, fun environment and creator   *)
(* it allocated, in the order the bytes encode them; and each node's      *)
(* reference count grew by exactly the external pids, ports and refs of   *)
(* that node the term holds (node->refc++ per ExternalThing).              *)
ResultComplete ==
  b2t = "done" =>
    /\ ~Unfilled(res)
    /\ \A key \in DOMAIN node_refc \ {ThisNodeKey} : node_refc[key] = ExtCount(res, key)

(* binary_to_term always returns (or faults): neither loop runs forever.  *)
Termination == <>(b2t \in Returned \cup Faulty)
=============================================================================
