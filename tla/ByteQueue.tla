----------------------------- MODULE ByteQueue ------------------------------
(***************************************************************************)
(* What the driver I/O queue of a port promises its driver: a FIFO of      *)
(* bytes that exists while the port is open. Bytes are added at the tail   *)
(* (driver_enqv, driver_enq, driver_enq_bin) or at the head               *)
(* (driver_pushqv, driver_pushq, driver_pushq_bin) and consumed from the   *)
(* head (driver_deq). A call on a port without a queue, or a driver_deq   *)
(* of more bytes than are queued, fails and changes nothing; adding no   *)
(* bytes succeeds and changes nothing.                                     *)
(*                                                                         *)
(* `call` is the interface: the operation the driver called and its       *)
(* argument (the bytes given, or the count to remove).                     *)
(***************************************************************************)
EXTENDS Naturals, Sequences

VARIABLES open, data, call

Open  == ~open /\ open' = TRUE /\ data' = << >> /\ call'.op = "init"
Close == open /\ open' = FALSE /\ data' = << >> /\ call'.op = "stop"

Enqueue == open /\ call'.op = "enq"  /\ data' = data \o call'.bytes /\ open' = open
Push    == open /\ call'.op = "push" /\ data' = call'.bytes \o data /\ open' = open

Dequeue ==
  /\ open /\ call'.op = "deq" /\ call'.n <= Len(data)
  /\ data' = SubSeq(data, call'.n + 1, Len(data)) /\ open' = open

Refused == call'.op = "refused" /\ UNCHANGED << open, data >>

(* Adding no bytes succeeds and changes nothing, with or without a queue. *)
AddNothing ==
  call'.op \in {"enq", "push"} /\ call'.bytes = << >> /\ UNCHANGED << open, data >>

Init == open = FALSE /\ data = << >> /\ call = [op |-> "none"]

Next == Open \/ Close \/ Enqueue \/ Push \/ Dequeue \/ Refused \/ AddNothing

Spec == Init /\ [][Next]_<< open, data, call >>
=============================================================================
