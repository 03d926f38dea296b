------------------------------ MODULE DecTerm -------------------------------
(***************************************************************************)
(* dec_term of erts/emulator/beam/external.c with its helpers dec_atom,    *)
(* dec_hashed_atom, dec_and_insert_hashed_atom and dec_pid.                *)
(*                                                                         *)
(* dec_term decodes without recursion: every slot still to be filled holds *)
(* a link to the next such slot ("next"), and each loop iteration takes    *)
(* the first slot, reads one tag and fills it, allocating fresh heap words *)
(* at hp and pushing the slots of a tuple, list or fun onto the chain.     *)
(* The index and uniq of a fun are decoded by nested calls of dec_term     *)
(* (recursion depth = Len(frames)) whose root slot is the local "temp".    *)
(*                                                                         *)
(* The heap is a partial function from word addresses to cells. Only the  *)
(* cells the decoder links or reads back are stored; every other word a    *)
(* step writes is accounted for by address arithmetic: a step whose words *)
(* do not lie inside [hp, hend) moves to the fault "heap_overflow", and a  *)
(* read past the end of the input moves to "overread". The C code has no   *)
(* such checks: a fault state is the point at which memory is corrupted.   *)
(***************************************************************************)
EXTENDS ExternalFormat, TLC

CONSTANTS
  HasDep,         \* dep != NULL: decoding a distribution message
  DepAtomCache,   \* dep->flags & DFLAG_ATOM_CACHE
  MAXINDX         \* size of dep->cache->in_arr

VARIABLES
  buf,        \* the input bytes
  hend,       \* end of the words binary_to_term allocated (HAlloc)
  dt_ep,      \* ep: offset of the next byte to read
  hp,         \* hp: next free heap word
  heap,       \* address -> cell
  next,       \* next: the first slot still to be filled, or NULL
  frames,     \* nested dec_term calls for a fun's index and uniq
  in_arr,     \* dep->cache->in_arr (partial: only slots ever written)
  node_refc,  \* erts node table: <<sysname, creation>> -> refc
  dt_state    \* "run", "ok" (returned ep), "error" (returned NULL), or a fault

dec_vars == <<buf, hend, dt_ep, hp, heap, next, frames, in_arr, node_refc, dt_state>>

NULL == -1
Root == -2                       \* the caller's objp
Temp(d) == -2 - d                \* "temp" of the fun being decoded at depth d
Link(a) == [k |-> "link", a |-> a]
Unset == [k |-> "unset", v |-> << >>]   \* an in_arr slot never written
Underscore == AtomTerm(<< 95 >>)        \* am_Underscore

Faults == {"overread", "heap_overflow", "bad_length", "cache_oob", "null_deref"}

(* Bytes [q, q+k) are inside the input.                                    *)
Need(q, k) == k <= Len(buf) - q
(* k >= 0 fresh words starting at hp lie inside the allocation.            *)
Fits(k) == k >= 0 /\ k <= hend - hp

-----------------------------------------------------------------------------
(* dec_atom at offset p (the tag byte). The result records the outcome,    *)
(* the new ep, the atom (a term), and the in_arr slot written (<<>> or    *)
(* <<ix, atom>>). am_atom_put interns the text; atoms are identified by   *)
(* their text, so the atom table is not state of this model.              *)
AtomRes(st, ep, a, ins) == [st |-> st, ep |-> ep, atom |-> a, ins |-> ins]
NoCache == HasDep /\ ~DepAtomCache

DecAtom(p) ==
  IF ~Need(p, 1) THEN AtomRes("overread", p, Unset, << >>) ELSE
  CASE buf[p + 1] = ATOM_EXT ->
         IF ~Need(p + 1, 2) THEN AtomRes("overread", p, Unset, << >>) ELSE
         LET len == GetInt16(buf, p + 1) IN
         IF ~Need(p + 3, len) THEN AtomRes("overread", p, Unset, << >>)
         ELSE AtomRes("ok", p + 3 + len, AtomTerm(SubSeq(buf, p + 4, p + 3 + len)), << >>)
    [] buf[p + 1] = NEW_CACHE ->       \* dec_and_insert_hashed_atom
         IF NoCache THEN AtomRes("error", p, Unset, << >>) ELSE
         IF ~Need(p + 1, 3) THEN AtomRes("overread", p, Unset, << >>) ELSE
         LET ix  == GetInt8(buf, p + 1)
             len == GetInt16(buf, p + 2)
             a   == AtomTerm(SubSeq(buf, p + 5, p + 4 + len))
         IN IF ~Need(p + 4, len) THEN AtomRes("overread", p, Unset, << >>)
            ELSE IF ~HasDep THEN AtomRes("ok", p + 4 + len, a, << >>)
            ELSE IF ix >= MAXINDX THEN AtomRes("cache_oob", p, Unset, << >>)
            ELSE AtomRes("ok", p + 4 + len, a, << ix, a >>)
    [] buf[p + 1] = CACHED_ATOM ->     \* dec_hashed_atom
         IF NoCache THEN AtomRes("error", p, Unset, << >>)
         ELSE IF ~HasDep THEN AtomRes("ok", p + 2, Underscore, << >>)
         ELSE IF ~Need(p + 1, 1) THEN AtomRes("overread", p, Unset, << >>)
         ELSE IF GetInt8(buf, p + 1) >= MAXINDX THEN AtomRes("cache_oob", p, Unset, << >>)
         ELSE LET ix == GetInt8(buf, p + 1) IN
              AtomRes("ok", p + 2, IF ix \in DOMAIN in_arr THEN in_arr[ix] ELSE Unset, << >>)
    [] OTHER -> AtomRes("error", p, Unset, << >>)

(* The cache after a decoded atom, and the node table after                *)
(* erts_find_or_insert_node (and node->refc++ for an external thing).      *)
CacheWith(c, ins) == IF ins = << >> THEN c ELSE (ins[1] :> ins[2]) @@ c
CacheAfter(ins) == CacheWith(in_arr, ins)
NodeIns(nt, key) == IF key \in DOMAIN nt THEN nt ELSE (key :> 0) @@ nt
(* Mutant: the node entry is found but node->refc++ is left out.        *)
NodeRefNoInc(nt, key) == NodeIns(nt, key)
NodeRef(nt, key) == [NodeIns(nt, key) EXCEPT ![key] = @ + 1]

(* dec_pid at offset p (after the PID_EXT tag). node is the node inserted *)
(* into the node table (<<>> when dec_pid returned before inserting).      *)
PidRes(st, ep, ins, node, v) == [st |-> st, ep |-> ep, ins |-> ins, node |-> node, val |-> v]

DecPid(p) ==
  LET a == DecAtom(p) IN
  IF a.st # "ok" THEN PidRes(a.st, p, a.ins, << >>, NilTerm) ELSE
  IF ~Need(a.ep, 9) THEN PidRes("overread", p, a.ins, << >>, NilTerm) ELSE
  LET num == GetInt32(buf, a.ep)
      ser == GetInt32(buf, a.ep + 4)
      cr  == GetInt8(buf, a.ep + 8)
      cre == dec_set_creation(a.atom, cr)
  IN IF cr >= MAX_CREATION THEN PidRes("error", p, a.ins, << >>, NilTerm)
       ELSE IF ~UintLe(num, ERTS_MAX_PID_NUMBER) \/ ~UintLe(ser, ERTS_MAX_PID_SERIAL) THEN
            PidRes("error", p, a.ins, << a.atom, cre >>, NilTerm)
       ELSE PidRes("ok", a.ep + 9, a.ins, << a.atom, cre >>,
                          PidTerm(a.atom, cre, num, ser))

(* Words an external pid or port takes (EXTERNAL_THING_HEAD_SIZE + 1).     *)
ExtWords(node) == IF IsThisNode(node[1], node[2]) THEN 0 ELSE EXTERNAL_THING_HEAD_SIZE + 1
NodeAfter(node) ==
  IF node = << >> THEN node_refc
  ELSE IF IsThisNode(node[1], node[2]) THEN NodeIns(node_refc, node)
  ELSE NodeRef(node_refc, node)
NodeKnown(node) == IF node = << >> THEN node_refc ELSE NodeIns(node_refc, node)

-----------------------------------------------------------------------------
(* One iteration of the while (next != NULL) loop: objp = next; next =     *)
(* *objp; switch on *ep++. P is the offset after the tag byte.              *)
InLoop == dt_state = "run" /\ next # NULL
P == dt_ep + 1
Tag == buf[P]
Cont == heap[next].a                   \* the slot after the one being filled

StopWith(kind, ia, nt) ==
  /\ dt_state' = kind /\ in_arr' = ia /\ node_refc' = nt
  /\ UNCHANGED <<buf, hend, dt_ep, hp, heap, next, frames>>
Stop(kind) == StopWith(kind, in_arr, node_refc)
(* Fill the slot with v, leaving ep at ep2 and hp at hp2; cells are the   *)
(* new links of a container, first the slot to fill next.                 *)
Chain(v, ep2, hp2, cells, first) ==
  /\ heap' = cells @@ [heap EXCEPT ![next] = v]
  /\ next' = first
  /\ dt_ep' = ep2
  /\ hp' = hp2
Push(v, ep2, hp2, cells, first) == Chain(v, ep2, hp2, cells, first) /\ UNCHANGED <<buf, hend, frames, dt_state>>
Fill(v, ep2, hp2) == Push(v, ep2, hp2, << >>, Cont)
Plain(v, ep2, hp2) == Fill(v, ep2, hp2) /\ UNCHANGED <<in_arr, node_refc>>
(* A thing of k words at hp.                                               *)
Boxed(v, ep2, k) == IF Fits(k) THEN Plain(v, ep2, hp + k) ELSE Stop("heap_overflow")

(* switch on *ep++ past the end of the input.                               *)
DecTagOverread == InLoop /\ ~Need(dt_ep, 1) /\ Stop("overread")

Reading == InLoop /\ Need(dt_ep, 1)

(* uint_to_big(sn, hp) on a 32-bit build: sn's bits as an unsigned value.  *)
UintToBig(sn) ==
  IF sn >= 0 THEN IntTerm(sn)
  ELSE LET b == PutInt32(sn) IN BigTerm(FALSE, StripZeros(<< b[4], b[3], b[2], b[1] >>))

DecInteger ==
  /\ Reading /\ Tag = INTEGER_EXT
  /\ IF ~Need(P, 4) THEN Stop("overread")
     ELSE LET sn == GetInt32(buf, P) IN
          IF IsSmall(sn) THEN Plain(IntTerm(sn), P + 4, hp)
          ELSE Boxed(UintToBig(sn), P + 4, 2)

DecSmallInteger ==
  /\ Reading /\ Tag = SMALL_INTEGER_EXT
  /\ IF ~Need(P, 1) THEN Stop("overread") ELSE Plain(IntTerm(GetInt8(buf, P)), P + 1, hp)

(* SMALL_BIG_EXT / LARGE_BIG_EXT: bytes_to_big of n bytes with sign k; a   *)
(* result that fits a small is not allocated, a bignum takes its digit     *)
(* words plus a header.                                                    *)
DecBig ==
  /\ Reading /\ Tag \in {SMALL_BIG_EXT, LARGE_BIG_EXT}
  /\ LET w == IF Tag = SMALL_BIG_EXT THEN 1 ELSE 4 IN
     IF ~Need(P, w + 1) THEN Stop("overread") ELSE
     LET n   == IF w = 1 THEN GetInt8(buf, P) ELSE GetInt32(buf, P)
         q   == P + w + 1
         neg == GetInt8(buf, P + w) # 0
         mag == StripZeros(SubSeq(buf, q + 1, q + n))
     IN IF n < 0 THEN Stop("bad_length")
          ELSE IF ~Need(q, n) THEN Stop("overread")
          ELSE IF FitsSmall(neg, mag) THEN Plain(BigTerm(neg, mag), q + n, hp)
          ELSE Boxed(BigTerm(neg, mag), q + n, CeilDiv(Len(mag), WordBytes) + 1)

(* ATOM_EXT, NEW_CACHE and CACHED_ATOM in the loop do what dec_atom does. *)
DecAtomExt ==
  /\ Reading /\ Tag \in {ATOM_EXT, NEW_CACHE, CACHED_ATOM}
  /\ LET a == DecAtom(dt_ep) IN
     IF a.st = "ok"
     THEN Fill(a.atom, a.ep, hp) /\ in_arr' = CacheAfter(a.ins) /\ UNCHANGED node_refc
     ELSE Stop(a.st)

(* Tuples: an arity word and n element slots, linked so that the elements *)
(* are decoded first to last, then the slot that was next before.         *)
DecTuple ==
  /\ Reading /\ Tag \in {SMALL_TUPLE_EXT, LARGE_TUPLE_EXT}
  /\ LET w == IF Tag = SMALL_TUPLE_EXT THEN 1 ELSE 4 IN
     IF ~Need(P, w) THEN Stop("overread") ELSE
     LET n == IF w = 1 THEN GetInt8(buf, P) ELSE GetInt32(buf, P)
         slots == [a \in hp + 1 .. hp + n |-> Link(IF a = hp + n THEN Cont ELSE a + 1)]
     IN IF ~(n >= 0 /\ n < hend - hp) THEN Stop("heap_overflow")
        ELSE /\ Push([k |-> "tuple_ptr", a |-> hp, n |-> n], P + w, hp + n + 1, slots,
                     IF n > 0 THEN hp + 1 ELSE Cont)
             /\ UNCHANGED <<in_arr, node_refc>>

DecNil == Reading /\ Tag = NIL_EXT /\ Plain(NilTerm, P, hp)

(* LIST_EXT: n cons cells; the cars are decoded first to last, then the   *)
(* tail, then the slot that was next before. n = 0 is [] and leaves the    *)
(* tail unread. A negative n moves hp backwards and writes below it.      *)
ListPtr(a) == [k |-> "list_ptr", a |-> a]
ListCells(n) ==
  [a \in hp .. hp + 2 * n - 1 |->
     IF (a - hp) % 2 = 0 THEN Link(IF a + 2 < hp + 2 * n THEN a + 2 ELSE a + 1)
     ELSE IF a + 1 < hp + 2 * n THEN ListPtr(a + 1) ELSE Link(Cont)]

DecList ==
  /\ Reading /\ Tag = LIST_EXT
  /\ IF ~Need(P, 4) THEN Stop("overread") ELSE
     LET n == GetInt32(buf, P) IN
     IF n = 0 THEN Plain(NilTerm, P + 4, hp)
       ELSE IF n < 0 \/ n > (hend - hp) \div 2 THEN Stop("heap_overflow")
       ELSE /\ Push(ListPtr(hp), P + 4, hp + 2 * n, ListCells(n), hp)
            /\ UNCHANGED <<in_arr, node_refc>>

(* STRING_EXT: n small-integer cons cells ending in [].                   *)
DecString ==
  /\ Reading /\ Tag = STRING_EXT
  /\ IF ~Need(P, 2) THEN Stop("overread") ELSE
     LET n == GetInt16(buf, P) IN
     IF n = 0 THEN Plain(NilTerm, P + 2, hp)
       ELSE IF ~Need(P + 2, n) THEN Stop("overread")
       ELSE Boxed(ListTerm([i \in 1 .. n |-> IntTerm(buf[P + 2 + i])], NilTerm),
                         P + 2 + n, 2 * n)
(* FLOAT_EXT: 31 bytes of text; sys_chars_to_double (outside external.c) *)
(* is abstracted to: the text parses iff it starts with a digit or sign.  *)
FloatParses(txt) == txt[1] \in {43, 45} \cup 48 .. 57

DecFloat ==
  /\ Reading /\ Tag = FLOAT_EXT
  /\ LET txt == SubSeq(buf, P + 1, P + 31) IN
     IF ~Need(P, 31) THEN Stop("overread")
       ELSE IF ~FloatParses(txt) THEN Stop("error")
       ELSE Boxed(FloatTerm(txt), P + 31, 3)

(* A pid, port or reference of node `node`: words are allocated at hp and *)
(* node->refc is incremented for an external one; extent is how far the  *)
(* step writes, words how far it moves hp.                                *)
FinishNode(v, ep2, node, ins, extent, words) ==
  IF Fits(extent)
  THEN Fill(v, ep2, hp + words) /\ in_arr' = CacheAfter(ins) /\ node_refc' = NodeAfter(node)
  ELSE StopWith("heap_overflow", CacheAfter(ins), NodeAfter(node))

(* PID_EXT: ep = dec_pid(...) is not checked for NULL. When dec_pid fails *)
(* and another slot is pending, the next iteration reads *ep from NULL.   *)
DecPidExt ==
  /\ Reading /\ Tag = PID_EXT
  /\ LET r == DecPid(P) IN
     CASE r.st = "ok" ->
            FinishNode(r.val, r.ep, r.node, r.ins, ExtWords(r.node), ExtWords(r.node))
       [] r.st = "error" ->
            StopWith(IF Cont = NULL THEN "error" ELSE "null_deref",
                     CacheAfter(r.ins), NodeKnown(r.node))
       [] OTHER -> StopWith(r.st, CacheAfter(r.ins), node_refc)

DecPort ==
  /\ Reading /\ Tag = PORT_EXT
  /\ LET a   == DecAtom(P)
         num == GetInt32(buf, a.ep)
         cr  == GetInt8(buf, a.ep + 4)
         node == << a.atom, dec_set_creation(a.atom, cr) >>
     IN IF a.st # "ok" THEN StopWith(a.st, CacheAfter(a.ins), node_refc)
          ELSE IF ~Need(a.ep, 4) THEN StopWith("overread", CacheAfter(a.ins), node_refc)
          ELSE IF ~UintLe(num, ERTS_MAX_PORT_NUMBER) THEN StopWith("error", CacheAfter(a.ins), node_refc)
          ELSE IF ~Need(a.ep + 4, 1) THEN StopWith("overread", CacheAfter(a.ins), node_refc)
          ELSE IF cr >= MAX_CREATION THEN StopWith("error", CacheAfter(a.ins), node_refc)
          ELSE FinishNode(PortTerm(node[1], node[2], num), a.ep + 5, node, a.ins,
                                 ExtWords(node), ExtWords(node))

(* ref_ext_common: a RefThing (this node) or ExternalThing header, then   *)
(* the numbers. ref_num[0] = r0 is written even when ref_words is 0; on a *)
(* 64-bit build the 32-bit arity shares the first data word with r0.      *)
RefCommon(name, cr, rw, nums, ep2, ins) ==
  LET cre   == dec_set_creation(name, cr)
      node  == << name, cre >>
      head  == IF IsThisNode(name, cre) THEN REF_THING_HEAD_SIZE ELSE EXTERNAL_THING_HEAD_SIZE
      words == IF WordBits = 64 THEN rw \div 2 + 1 ELSE rw
      wrote == IF WordBits = 64 THEN words ELSE IF rw = 0 THEN 1 ELSE rw
  IN FinishNode(RefTerm(name, cre, nums), ep2, node, ins, head + wrote, head + words)

DecReference ==
  /\ Reading /\ Tag = REFERENCE_EXT
  /\ LET a  == DecAtom(P)
         r0 == GetInt32(buf, a.ep)
         cr == GetInt8(buf, a.ep + 4)
     IN IF a.st # "ok" THEN StopWith(a.st, CacheAfter(a.ins), node_refc)
          ELSE IF ~Need(a.ep, 4) THEN StopWith("overread", CacheAfter(a.ins), node_refc)
          ELSE IF ~(r0 >= 0 /\ r0 < MAX_REFERENCE) THEN StopWith("error", CacheAfter(a.ins), node_refc)
          ELSE IF ~Need(a.ep + 4, 1) THEN StopWith("overread", CacheAfter(a.ins), node_refc)
          ELSE IF cr >= MAX_CREATION THEN StopWith("error", CacheAfter(a.ins), node_refc)
          ELSE RefCommon(a.atom, cr, 1, << r0 >>, a.ep + 5, a.ins)

(* NEW_REFERENCE_EXT: creation and r0 are read whatever ref_words is, and *)
(* ref_words - 1 further numbers after them.                              *)
DecNewReference ==
  /\ Reading /\ Tag = NEW_REFERENCE_EXT
  /\ LET rw   == GetInt16(buf, P)
         a    == DecAtom(P + 2)
         cr   == GetInt8(buf, a.ep)
         r0   == GetInt32(buf, a.ep + 1)
         q    == a.ep + 5
         more == IF rw = 0 THEN 0 ELSE rw - 1
         nums == IF rw = 0 THEN << >>
                 ELSE << r0 >> \o [i \in 1 .. more |-> GetInt32(buf, q + 4 * (i - 1))]
     IN IF ~Need(P, 2) THEN Stop("overread")
          ELSE IF rw > ERTS_MAX_REF_NUMBERS THEN Stop("error")
          ELSE IF a.st # "ok" THEN StopWith(a.st, CacheAfter(a.ins), node_refc)
          ELSE IF ~Need(a.ep, 1) THEN StopWith("overread", CacheAfter(a.ins), node_refc)
          ELSE IF cr >= MAX_CREATION THEN StopWith("error", CacheAfter(a.ins), node_refc)
          ELSE IF ~Need(a.ep + 1, 4) THEN StopWith("overread", CacheAfter(a.ins), node_refc)
          ELSE IF ~UintLe(r0, MAX_REFERENCE) THEN StopWith("error", CacheAfter(a.ins), node_refc)
          ELSE IF ~Need(q, 4 * more) THEN StopWith("overread", CacheAfter(a.ins), node_refc)
          ELSE RefCommon(a.atom, cr, rw, nums, q + 4 * more, a.ins)

(* BINARY_EXT: a heap binary up to ERL_ONHEAP_BIN_LIMIT bytes, else a     *)
(* ProcBin on the heap and the bytes off-heap. sys_memcpy of a negative  *)
(* n is a copy of a huge size_t.                                          *)
DecBinary ==
  /\ Reading /\ Tag = BINARY_EXT
  /\ IF ~Need(P, 4) THEN Stop("overread") ELSE
     LET n == GetInt32(buf, P)
         v == BinTerm(SubSeq(buf, P + 5, P + 4 + n))
     IN IF n < 0 THEN Stop("bad_length")
          ELSE IF n <= ERL_ONHEAP_BIN_LIMIT /\ ~Fits(heap_bin_size(n)) THEN Stop("heap_overflow")
          ELSE IF ~Need(P + 4, n) THEN Stop("overread")
          ELSE IF n <= ERL_ONHEAP_BIN_LIMIT THEN Plain(v, P + 4 + n, hp + heap_bin_size(n))
          ELSE Boxed(v, P + 4 + n, PROC_BIN_SIZE)
(* NEW_FUN_EXT: skip size, read arity, skip uniq and index bytes, read     *)
(* num_free; the ErlFunThing and its env take ERL_FUN_SIZE + num_free     *)
(* words. Then the module atom, and the index by a nested dec_term into   *)
(* temp with its own chain (frames records the fun being decoded).        *)
FunPtr(a) == [k |-> "fun_ptr", a |-> a]
FunFrame(old, nf, arity, module) ==
  [old |-> old, funp |-> hp, nf |-> nf, arity |-> arity, module |-> module,
   stage |-> "index", index |-> Unset, saved |-> Cont]
FunFits(nf) == nf >= 0 /\ nf <= hend - hp - ERL_FUN_SIZE   \* num_free is unsigned

DecNewFun ==
  /\ Reading /\ Tag = NEW_FUN_EXT
  /\ LET nf == GetInt32(buf, P + 25)
         m  == DecAtom(P + 29)
         d  == Len(frames) + 1
     IN IF ~Need(P, 29) THEN Stop("overread")
        ELSE IF ~FunFits(nf) THEN Stop("heap_overflow")
        ELSE IF m.st # "ok" THEN StopWith(m.st, CacheAfter(m.ins), node_refc)
        ELSE /\ Chain(FunPtr(hp), m.ep, hp + ERL_FUN_SIZE + nf, Temp(d) :> Link(NULL), Temp(d))
             /\ frames' = Append(frames, FunFrame(FALSE, nf, GetInt8(buf, P + 4), m.atom))
             /\ in_arr' = CacheAfter(m.ins)
             /\ UNCHANGED <<buf, hend, dt_state, node_refc>>

(* FUN_EXT: num_free, then the creator, which must be a PID_EXT and is    *)
(* decoded by dec_pid into funp->creator (allocating after the fun), then *)
(* the module and the nested index. The arity comes from the fun table    *)
(* entry (fe->address[-1] - num_free) and is kept as -1.                   *)
DecFun ==
  /\ Reading /\ Tag = FUN_EXT
  /\ LET nf   == GetInt32(buf, P)
         base == hp + ERL_FUN_SIZE + nf
         r    == DecPid(P + 5)
         cw   == ExtWords(r.node)
         m    == DecAtom(r.ep)
         d    == Len(frames) + 1
     IN IF ~Need(P, 4) THEN Stop("overread")
        ELSE IF ~FunFits(nf) THEN Stop("heap_overflow")
        ELSE IF ~Need(P + 4, 1) THEN Stop("overread")
        ELSE IF buf[P + 5] # PID_EXT THEN Stop("error")
        ELSE IF r.st # "ok" THEN StopWith(r.st, CacheAfter(r.ins), NodeKnown(r.node))
        ELSE IF cw > hend - base
             THEN StopWith("heap_overflow", CacheAfter(r.ins), NodeAfter(r.node))
        ELSE IF m.st # "ok"
             THEN StopWith(m.st, CacheWith(CacheAfter(r.ins), m.ins), NodeAfter(r.node))
        ELSE /\ Chain(FunPtr(hp), m.ep, base + cw,
                      (Temp(d) :> Link(NULL)) @@ (hp + 1 :> r.val), Temp(d))
             /\ frames' = Append(frames, FunFrame(TRUE, nf, -1, m.atom))
             /\ in_arr' = CacheWith(CacheAfter(r.ins), m.ins)
             /\ node_refc' = NodeAfter(r.node)
             /\ UNCHANGED <<buf, hend, dt_state>>

(* A nested dec_term returned (its chain is empty). A non-small index or  *)
(* uniq fails the decode. After the index, the uniq is decoded the same   *)
(* way; after the uniq the env slots env[0..num_free-1] are linked before *)
(* the outer chain, and for NEW_FUN_EXT the creator slot before them.     *)
FunCell(f, uniq) ==
  [k |-> "fun", old |-> f.old, module |-> f.module, index |-> f.index, uniq |-> uniq,
   arity |-> f.arity, nf |-> f.nf]
EnvSlot(f, i) == f.funp + ERL_FUN_SIZE + i
CreatorSlot(f) == f.funp + 1

DecFunReturn ==
  /\ dt_state = "run" /\ next = NULL /\ frames # << >>
  /\ LET d     == Len(frames)
         f     == frames[d]
         t     == heap[Temp(d)]
         first == IF f.nf > 0 THEN EnvSlot(f, 0) ELSE f.saved
         env   == [a \in EnvSlot(f, 0) .. EnvSlot(f, f.nf - 1) |->
                     Link(IF a = EnvSlot(f, f.nf - 1) THEN f.saved ELSE a + 1)]
         creator == IF f.old THEN << >> ELSE CreatorSlot(f) :> Link(first)
     IN IF ~IsSmallTerm(t) THEN Stop("error")
        ELSE IF f.stage = "index"
        THEN /\ heap' = [heap EXCEPT ![Temp(d)] = Link(NULL)]
             /\ next' = Temp(d)
             /\ frames' = [frames EXCEPT ![d].stage = "uniq", ![d].index = t]
             /\ UNCHANGED <<buf, hend, dt_ep, hp, in_arr, node_refc, dt_state>>
        ELSE /\ heap' = env @@ creator @@ (f.funp :> FunCell(f, t)) @@ heap
             /\ next' = IF f.old THEN first ELSE CreatorSlot(f)
             /\ frames' = SubSeq(frames, 1, d - 1)
             /\ UNCHANGED <<buf, hend, dt_ep, hp, in_arr, node_refc, dt_state>>

KnownTags == {INTEGER_EXT, SMALL_INTEGER_EXT, SMALL_BIG_EXT, LARGE_BIG_EXT, NEW_CACHE,
              CACHED_ATOM, ATOM_EXT, LARGE_TUPLE_EXT, SMALL_TUPLE_EXT, NIL_EXT, LIST_EXT,
              STRING_EXT, FLOAT_EXT, PID_EXT, PORT_EXT, REFERENCE_EXT, NEW_REFERENCE_EXT,
              BINARY_EXT, NEW_FUN_EXT, FUN_EXT}

DecBadTag == Reading /\ Tag \notin KnownTags /\ Stop("error")

(* The outermost chain is empty: dec_term returns ep.                     *)
DecDone ==
  /\ dt_state = "run" /\ next = NULL /\ frames = << >>
  /\ dt_state' = "ok"
  /\ UNCHANGED <<buf, hend, dt_ep, hp, heap, next, frames, in_arr, node_refc>>

DecStep ==
  \/ DecTagOverread \/ DecInteger \/ DecSmallInteger \/ DecBig \/ DecAtomExt
  \/ DecTuple \/ DecNil \/ DecList \/ DecString \/ DecFloat \/ DecPidExt \/ DecPort
  \/ DecReference \/ DecNewReference \/ DecBinary \/ DecNewFun \/ DecFun
  \/ DecFunReturn \/ DecBadTag \/ DecDone

(* dec_term(dep, &hp, bytes + start, ...) into the caller's slot Root.    *)
DecBegin(start) ==
  /\ dt_ep' = start /\ hp' = 0 /\ heap' = (Root :> Link(NULL))
  /\ next' = Root /\ frames' = << >> /\ dt_state' = "run"

-----------------------------------------------------------------------------
(* The term a finished decode leaves in the caller's slot.                 *)
RECURSIVE Reify(_, _)
Reify(h, v) ==
  CASE v.k = "tuple_ptr" -> TupleTerm([i \in 1 .. v.n |-> Reify(h, h[v.a + i])])
    [] v.k = "list_ptr" ->
         LET car == Reify(h, h[v.a])
             cdr == Reify(h, h[v.a + 1])
         IN IF cdr.k = "list" THEN ListTerm(<< car >> \o cdr.v, cdr.tail)
            ELSE ListTerm(<< car >>, cdr)
    [] v.k = "fun_ptr" ->
         LET f == h[v.a] IN
         [k |-> "fun", module |-> f.module, index |-> f.index, uniq |-> f.uniq,
          arity |-> f.arity,
          creator |-> Reify(h, h[v.a + 1]),
          env |-> [i \in 1 .. f.nf |-> Reify(h, h[v.a + ERL_FUN_SIZE + i - 1])]]
    [] OTHER -> v

DecResult == Reify(heap, heap[Root])
=============================================================================
