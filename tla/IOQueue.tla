------------------------------ MODULE IOQueue --------------------------------
(***************************************************************************)
(* The driver I/O queue of io.c (ErlIOQueue) and the driver binaries it    *)
(* references: initq, stopq, expandq, driver_enqv, driver_pushqv,          *)
(* driver_deq and the wrappers driver_enq_bin, driver_enq,                *)
(* driver_pushq_bin and driver_pushq, with driver_alloc_binary,            *)
(* driver_binary_inc_refc and driver_free_binary.                          *)
(*                                                                         *)
(* The queue is an array of SysIOVec entries indexed from v_start = 0,     *)
(* with the used part [v_head, v_tail) and the end v_end. The parallel     *)
(* ErlDrvBinary* array b_start.. is moved by exactly the same pointer      *)
(* arithmetic, so each entry here carries both: the binary (bin), and the  *)
(* bytes it points at (src, off, len). Entries outside [v_head, v_tail)   *)
(* are never read and are kept as NoSlot. A byte is identified by its     *)
(* source and offset: <<src, off>>; a copy into a new binary keeps them.  *)
(*                                                                         *)
(* A write outside [0, v_end), or a dereference of a NULL binary, sets     *)
(* fault: the C code has no such check, it corrupts memory there.         *)
(***************************************************************************)
EXTENDS Integers, Sequences, SequencesExt, FiniteSets

CONSTANTS
  Bins,            \* driver binaries (ErlDrvBinary), model values
  Buf,             \* the source of bytes that are not in a binary (char *)
  NULL,
  SMALL_IO_QUEUE,  \* entries of the fixed v_small/b_small arrays
  Lens,            \* iov_len values a driver passes
  Offs,            \* offsets into a binary a driver passes
  MaxVec,          \* bound: entries of an ErlIOVec
  MaxSize,         \* bound: bytes in the queue
  AllocFails       \* erts_alloc_fnf / erts_bin_drv_alloc_fnf may return NULL

VARIABLES
  alive,           \* the port is not FREE: IOQ(ix) != NULL
  iov,             \* index -> entry, over 0 .. v_end - 1
  v_head, v_tail, v_end,
  size,            \* q->size
  refc,            \* binary -> reference count (0: not allocated)
  held,            \* binaries the driver holds a reference to
  fault,           \* "none" or the memory error the code commits
  call             \* the last call and its argument (ByteQueue's interface)

ioq_vars == << alive, iov, v_head, v_tail, v_end, size, refc, held, fault, call >>

NoSlot == [bin |-> NULL, src |-> NULL, off |-> 0, len |-> 0]
Bytes(e) == [k \in 1 .. e.len |-> << e.src, e.off + k - 1 >>]
Used == v_head .. v_tail - 1
QBytes == FlattenSeq([i \in 1 .. v_tail - v_head |-> Bytes(iov[v_head + i - 1])])
Occ(b) == Cardinality({i \in Used : iov[i].bin = b})
VecSize(vec) == FoldSeq(LAMBDA e, acc : e.len + acc, 0, vec)
VecBytes(vec) == FlattenSeq([i \in DOMAIN vec |-> Bytes(vec[i])])
(* The bytes the driver hands over: those of vec after the first skip.   *)
Given(vec, skip) == SubSeq(VecBytes(vec), skip + 1, VecSize(vec))
NonEmpty(vec) == SelectSeq(vec, LAMBDA e : e.len > 0)
AllocOutcomes == IF AllocFails THEN BOOLEAN ELSE {FALSE}

-----------------------------------------------------------------------------
(* initq: the small fixed array, empty.                                    *)
initq ==
  /\ ~alive /\ alive' = TRUE
  /\ v_head' = 0 /\ v_tail' = 0 /\ v_end' = SMALL_IO_QUEUE
  /\ iov' = [i \in 0 .. SMALL_IO_QUEUE - 1 |-> NoSlot] /\ size' = 0
  /\ call' = [op |-> "init"]
  /\ UNCHANGED << refc, held, fault >>

(* stopq: driver_free_binary of every binary in [b_head, b_tail).         *)
stopq ==
  /\ alive /\ alive' = FALSE
  /\ refc' = [b \in Bins |-> refc[b] - Occ(b)]
  /\ v_head' = 0 /\ v_tail' = 0 /\ v_end' = 0 /\ iov' = << >> /\ size' = 0
  /\ call' = [op |-> "stop"]
  /\ UNCHANGED << held, fault >>

(* expandq(q, n, tail): room for n entries at the tail (tail) or the head. *)
(* The result is the new array and pointers; a failed allocation leaves   *)
(* them as they were (expandq returns -1).                                 *)
Queue(arr, h, t, e) == [iov |-> arr, h |-> h, t |-> t, end |-> e]
Moved(h2, e2) ==
  [i \in 0 .. e2 - 1 |-> IF i >= h2 /\ i < h2 + (v_tail - v_head)
                         THEN iov[v_head + i - h2] ELSE NoSlot]
(* Mutant of expandq: a room-making move that packs the entries at the    *)
(* wrong end of the array.                                                 *)
expandqWrongEnd(n, tail, fails) ==
  LET q_sz == v_tail - v_head
  IN IF (tail /\ n <= v_end - v_tail) \/ (~tail /\ n <= v_head) \/ n > v_head + v_end - v_tail
     THEN Queue(iov, v_head, v_tail, v_end)
     ELSE IF ~tail THEN Queue(Moved(0, v_end), 0, q_sz, v_end)
     ELSE Queue(Moved(v_end - q_sz, v_end), v_end - q_sz, v_end, v_end)

expandq(n, tail, fails) ==
  LET h_sz == v_head
      t_sz == v_end - v_tail
      q_sz == v_tail - v_head
      nvsz == v_end + n
  IN IF tail /\ n <= t_sz THEN Queue(iov, v_head, v_tail, v_end)
     ELSE IF ~tail /\ n <= h_sz THEN Queue(iov, v_head, v_tail, v_end)
     ELSE IF n > h_sz + t_sz THEN
          (IF fails THEN Queue(iov, v_head, v_tail, v_end)
           ELSE IF tail THEN Queue(Moved(0, nvsz), 0, q_sz, nvsz)
           ELSE Queue(Moved(nvsz - q_sz, nvsz), nvsz - q_sz, nvsz, nvsz))
     ELSE IF tail THEN Queue(Moved(0, v_end), 0, q_sz, v_end)
     ELSE Queue(Moved(v_end - q_sz, v_end), v_end - q_sz, v_end, v_end)

(* The `do ... while (skip > 0)` loop: drop leading entries of at most     *)
(* skip bytes, then advance into the first one.                            *)
(* Mutant of StripSkip: the skipped bytes shorten the entry but iov_base  *)
(* is not advanced past them.                                              *)
RECURSIVE StripSkipNoBase(_, _)
StripSkipNoBase(vec, skip) ==
  IF Head(vec).len <= skip
  THEN IF skip - Head(vec).len > 0 THEN StripSkipNoBase(Tail(vec), skip - Head(vec).len)
       ELSE Tail(vec)
  ELSE << [Head(vec) EXCEPT !.len = @ - skip] >> \o Tail(vec)

RECURSIVE StripSkip(_, _)
StripSkip(vec, skip) ==
  IF Head(vec).len <= skip
  THEN IF skip - Head(vec).len > 0 THEN StripSkip(Tail(vec), skip - Head(vec).len)
       ELSE Tail(vec)
  ELSE << [Head(vec) EXCEPT !.off = @ + skip, !.len = @ - skip] >> \o Tail(vec)

(* The entries of vec, in order, as stored: a NULL binary is replaced by a *)
(* binary allocated for it (driver_alloc_binary + sys_memcpy).            *)
Stored(vec, fresh) == [i \in DOMAIN vec |-> IF vec[i].bin = NULL
                                           THEN [vec[i] EXCEPT !.bin = fresh] ELSE vec[i]]
FreshBins == {b \in Bins : refc[b] = 0 /\ b \notin held}

(* Store the entries es at index `at` of queue q, taking a reference on    *)
(* each binary (driver_binary_inc_refc, or refc 1 for a new binary).      *)
(* Mutant of Store: a binary the queue or the driver already references   *)
(* is stored without driver_binary_inc_refc.                               *)
StoreNoInc(q, es, at, bytes, kind) ==
  /\ iov' = [i \in DOMAIN q.iov |-> IF i >= at /\ i < at + Len(es) THEN es[i - at + 1]
                                    ELSE q.iov[i]]
  /\ refc' = [b \in Bins |-> IF refc[b] > 0 THEN refc[b]
                             ELSE Cardinality({i \in DOMAIN es : es[i].bin = b})]
  /\ size' = size + Len(bytes)
  /\ call' = [op |-> kind, bytes |-> bytes]
  /\ UNCHANGED << alive, held, fault >>

Store(q, es, at, bytes, kind) ==
  /\ iov' = [i \in DOMAIN q.iov |-> IF i >= at /\ i < at + Len(es) THEN es[i - at + 1]
                                    ELSE q.iov[i]]
  /\ refc' = [b \in Bins |-> refc[b] + Cardinality({i \in DOMAIN es : es[i].bin = b})]
  /\ size' = size + Len(bytes)
  /\ call' = [op |-> kind, bytes |-> bytes]
  /\ UNCHANGED << alive, held, fault >>

Fault == fault' = "memory" /\ UNCHANGED << alive, iov, v_head, v_tail, v_end, size, refc, held, call >>

(* IOQ(ix) == NULL: return -1.                                             *)
NoQueue == ~alive /\ call' = [op |-> "refused"]
           /\ UNCHANGED << alive, iov, v_head, v_tail, v_end, size, refc, held, fault >>
(* size <= 0: return 0 without touching the queue.                        *)
Nothing(kind) == call' = [op |-> kind, bytes |-> << >>]
                 /\ UNCHANGED << alive, iov, v_head, v_tail, v_end, size, refc, held, fault >>

(* driver_enqv(ix, vec, skip).                                             *)
driver_enqv(vec, skip) ==
  \/ NoQueue
  \/ alive /\ VecSize(vec) - skip <= 0 /\ Nothing("enq")
  \/ /\ alive /\ VecSize(vec) - skip > 0
     /\ LET v  == StripSkip(vec, skip)
            nz == NonEmpty(v)
        IN \E fails \in AllocOutcomes, binfails \in AllocOutcomes :
           LET q == IF v_tail + Len(v) >= v_end THEN expandq(Len(v), TRUE, fails)
                    ELSE Queue(iov, v_head, v_tail, v_end)
           IN IF q.t + Len(nz) > q.end \/ (binfails /\ \E i \in DOMAIN nz : nz[i].bin = NULL)
              THEN Fault
              ELSE \E fresh \in FreshBins \cup {NULL} :
                     /\ (\E i \in DOMAIN nz : nz[i].bin = NULL) => fresh # NULL
                     /\ Store(q, Stored(nz, fresh), q.t, Given(vec, skip), "enq")
                     /\ v_head' = q.h /\ v_tail' = q.t + Len(nz) /\ v_end' = q.end

(* driver_pushqv(ix, vec, skip): the entries are stored from the last     *)
(* down to the first, each at --v_head, which keeps their order.          *)
driver_pushqv(vec, skip) ==
  \/ NoQueue
  \/ alive /\ VecSize(vec) - skip <= 0 /\ Nothing("push")
  \/ /\ alive /\ VecSize(vec) - skip > 0
     /\ LET v  == StripSkip(vec, skip)
            nz == NonEmpty(v)
        IN \E fails \in AllocOutcomes, binfails \in AllocOutcomes :
           LET q == IF v_head - Len(v) < 0 THEN expandq(Len(v), FALSE, fails)
                    ELSE Queue(iov, v_head, v_tail, v_end)
           IN IF q.h - Len(nz) < 0 \/ (binfails /\ \E i \in DOMAIN nz : nz[i].bin = NULL)
              THEN Fault
              ELSE \E fresh \in FreshBins \cup {NULL} :
                     /\ (\E i \in DOMAIN nz : nz[i].bin = NULL) => fresh # NULL
                     /\ Store(q, Stored(nz, fresh), q.h - Len(nz), Given(vec, skip), "push")
                     /\ v_head' = q.h - Len(nz) /\ v_tail' = q.t /\ v_end' = q.end
-----------------------------------------------------------------------------
(* driver_deq(ix, size): entries wholly consumed release their binary     *)
(* (driver_free_binary) and the head entry is advanced by what is left.   *)
(* The loop relies on q->size: it asserts v_head != v_tail, and reads     *)
(* past the tail (fault) if size over-counts the entries.                 *)
Release(rc, b) == [rc EXCEPT ![b] = @ - 1]
(* Mutant of DeqFrom: the partially consumed entry gets its base advanced *)
(* but keeps its length.                                                   *)
RECURSIVE DeqFromKeepLen(_)
DeqFromKeepLen(r) ==
  IF r.rem <= 0 THEN r
  ELSE IF r.h = v_tail THEN [r EXCEPT !.bad = TRUE, !.rem = 0]
  ELSE LET e == r.iov[r.h] IN
       IF e.len <= r.rem
       THEN DeqFromKeepLen([r EXCEPT !.rem = @ - e.len, !.refc = Release(@, e.bin),
                                     !.iov[r.h] = NoSlot, !.h = @ + 1])
       ELSE [r EXCEPT !.iov[r.h] = [e EXCEPT !.off = @ + r.rem], !.rem = 0]

RECURSIVE DeqFrom(_)
DeqFrom(r) ==
  IF r.rem <= 0 THEN r
  ELSE IF r.h = v_tail THEN [r EXCEPT !.bad = TRUE, !.rem = 0]
  ELSE LET e == r.iov[r.h] IN
       IF e.len <= r.rem
       THEN DeqFrom([r EXCEPT !.rem = @ - e.len, !.refc = Release(@, e.bin),
                              !.iov[r.h] = NoSlot, !.h = @ + 1])
       ELSE [r EXCEPT !.iov[r.h] = [e EXCEPT !.off = @ + r.rem, !.len = @ - r.rem], !.rem = 0]

(* Mutant of driver_deq: the restart of an emptied queue resets v_tail   *)
(* (and b_tail) but leaves v_head where the loop stopped.                 *)
driver_deqNoHeadReset(n) ==
  \/ NoQueue
  \/ alive /\ size - n < 0 /\ call' = [op |-> "refused"]
     /\ UNCHANGED << alive, iov, v_head, v_tail, v_end, size, refc, held, fault >>
  \/ /\ alive /\ size - n >= 0
     /\ LET r == DeqFrom([h |-> v_head, rem |-> n, iov |-> iov, refc |-> refc, bad |-> FALSE])
        IN IF r.bad THEN Fault
           ELSE /\ size' = size - n /\ iov' = r.iov /\ refc' = r.refc
                /\ v_head' = r.h
                /\ v_tail' = IF r.h = v_tail THEN 0 ELSE v_tail
                /\ call' = [op |-> "deq", n |-> n]
                /\ UNCHANGED << alive, v_end, held, fault >>

driver_deq(n) ==
  \/ NoQueue
  \/ alive /\ size - n < 0 /\ call' = [op |-> "refused"]
     /\ UNCHANGED << alive, iov, v_head, v_tail, v_end, size, refc, held, fault >>
  \/ /\ alive /\ size - n >= 0
     /\ LET r == DeqFrom([h |-> v_head, rem |-> n, iov |-> iov, refc |-> refc, bad |-> FALSE])
        IN IF r.bad THEN Fault
           ELSE /\ size' = size - n /\ iov' = r.iov /\ refc' = r.refc
                \* restart pointers (optimised for enq)
                /\ v_head' = IF r.h = v_tail THEN 0 ELSE r.h
                /\ v_tail' = IF r.h = v_tail THEN 0 ELSE v_tail
                /\ call' = [op |-> "deq", n |-> n]
                /\ UNCHANGED << alive, v_end, held, fault >>

-----------------------------------------------------------------------------
(* Driver binaries: driver_alloc_binary gives the driver a binary of refc *)
(* 1 (or NULL, after which the driver has nothing to do); the driver's    *)
(* driver_free_binary drops its reference, freeing the binary at 0.       *)
driver_alloc_binary ==
  \E b \in FreshBins :
    /\ refc' = [refc EXCEPT ![b] = 1] /\ held' = held \cup {b}
    /\ UNCHANGED << alive, iov, v_head, v_tail, v_end, size, fault, call >>

driver_free_binary(b) ==
  /\ b \in held
  /\ refc' = Release(refc, b) /\ held' = held \ {b}
  /\ UNCHANGED << alive, iov, v_head, v_tail, v_end, size, fault, call >>

(* driver_enq_bin / driver_pushq_bin: a one-entry vector over bin.        *)
Entry(bin, src, off, len) == [bin |-> bin, src |-> src, off |-> off, len |-> len]
driver_enq_bin(b, off, len) ==
  IF len = 0 THEN Nothing("enq") ELSE driver_enqv(<< Entry(b, b, off, len) >>, 0)
driver_pushq_bin(b, off, len) ==
  IF len = 0 THEN Nothing("push") ELSE driver_pushqv(<< Entry(b, b, off, len) >>, 0)

(* driver_enq / driver_pushq: driver_alloc_binary (a NULL result returns *)
(* -1), copy the buffer into it, queue it with driver_enq_bin /            *)
(* driver_pushq_bin, then driver_free_binary: the new binary is left with *)
(* refc 1, held by the queue alone.                                        *)
Refuse == call' = [op |-> "refused"]
          /\ UNCHANGED << alive, iov, v_head, v_tail, v_end, size, refc, held, fault >>
driver_enq(len) ==
  IF len = 0 THEN Nothing("enq")
  ELSE \/ AllocFails /\ Refuse
       \/ \E b \in FreshBins : driver_enqv(<< Entry(b, Buf, 0, len) >>, 0)
driver_pushq(len) ==
  IF len = 0 THEN Nothing("push")
  ELSE \/ AllocFails /\ Refuse
       \/ \E b \in FreshBins : driver_pushqv(<< Entry(b, Buf, 0, len) >>, 0)
-----------------------------------------------------------------------------
(* The calls a driver makes, with the small inputs of the model. A vector *)
(* has at most one entry without a binary (MaxVec entries in all).        *)
Elems == {Entry(b, b, o, l) : b \in held, o \in Offs, l \in Lens}
         \cup {Entry(NULL, Buf, 0, l) : l \in Lens}
Vecs == {vec \in UNION {[1 .. k -> Elems] : k \in 1 .. MaxVec} :
           Cardinality({i \in DOMAIN vec : vec[i].bin = NULL}) <= 1}

Init ==
  /\ alive = FALSE /\ iov = << >> /\ v_head = 0 /\ v_tail = 0 /\ v_end = 0
  /\ size = 0 /\ refc = [b \in Bins |-> 0] /\ held = {} /\ fault = "none"
  /\ call = [op |-> "none"]

DriverCall ==
  \/ driver_alloc_binary
  \/ \E b \in held : driver_free_binary(b)
  \/ \E vec \in Vecs, skip \in 0 .. MaxSize : skip <= VecSize(vec) /\ driver_enqv(vec, skip)
  \/ \E vec \in Vecs, skip \in 0 .. MaxSize : skip <= VecSize(vec) /\ driver_pushqv(vec, skip)
  \/ \E b \in held, o \in Offs, l \in Lens : driver_enq_bin(b, o, l)
  \/ \E b \in held, o \in Offs, l \in Lens : driver_pushq_bin(b, o, l)
  \/ \E l \in Lens : driver_enq(l)
  \/ \E l \in Lens : driver_pushq(l)
  \/ \E n \in 0 .. size + 1 : driver_deq(n)

(* The port is opened (setup_port: initq) or terminated (terminate_port:  *)
(* stopq), and the driver calls the queue while it is running.           *)
Step == fault = "none" /\ (initq \/ stopq \/ DriverCall) /\ size' <= MaxSize

(* A fault ends the behaviour: the memory is corrupt from then on.         *)
Next == Step

Spec == Init /\ [][Next]_ioq_vars

-----------------------------------------------------------------------------
Entries == [bin : Bins \cup {NULL}, src : Bins \cup {Buf, NULL}, off : Nat, len : Nat]
IOQTypeOK ==
  /\ alive \in BOOLEAN /\ fault \in {"none", "memory"}
  /\ iov \in [0 .. v_end - 1 -> Entries]
  /\ 0 <= v_head /\ v_head <= v_tail /\ v_tail <= v_end
  /\ size \in 0 .. MaxSize /\ refc \in [Bins -> Nat] /\ held \subseteq Bins

(* The queue never writes outside its arrays nor dereferences a NULL      *)
(* binary: expandq makes room for every entry driver_enqv/driver_pushqv   *)
(* store, after any interleaving of enqueues at either end and partial     *)
(* dequeues.                                                               *)
NoMemoryFault == fault = "none"

(* q->size, which driver_deq trusts to walk the entries and drivers use   *)
(* as driver_sizeq, is the number of bytes the entries in [v_head, v_tail) *)
(* hold, after skips, partial dequeues and pointer restarts.              *)
SizeConsistent == alive => size = Len(QBytes)

(* Every binary's reference count is the driver's own reference plus one  *)
(* per queue entry holding it: a queued binary is never freed, and stopq   *)
(* and driver_deq release every reference the queue took.                 *)
RefcExact ==
  \A b \in Bins : refc[b] = (IF b \in held THEN 1 ELSE 0) + Occ(b)

(* The vector queue implements the byte FIFO of ByteQueue: the bytes      *)
(* between v_head and v_tail are the bytes enqueued, pushed and not yet    *)
(* dequeued, in order.                                                     *)
BQ == INSTANCE ByteQueue WITH open <- alive, data <- QBytes
QueueRefines == BQ!Spec
=============================================================================
