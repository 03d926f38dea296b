---------------------------- MODULE ElogPipeStdin ----------------------------
(***************************************************************************)
(* The pipe stdin reader of nteventlog (os_mon/c_src/nteventlog/           *)
(* elog_pipe_stdin.c), when stdin is a pipe: setup_pipe_stdin creates a    *)
(* manual-reset event and starts stdin_thread, which reads stdin a byte at *)
(* a time into stdin_buff; the main thread takes the bytes with            *)
(* read_pipe_stdin and asks for end of input with peek_pipe_stdin_eof.     *)
(* stdin_buff, stdin_len and stdin_eof are shared under io_crit.           *)
(*                                                                         *)
(* Each region that holds io_crit is one atomic step. read_pipe_stdin is   *)
(* two steps when it must wait: the test of the empty buffer, then, once   *)
(* the event is signaled, the second region from EnterCriticalSection to   *)
(* the return. A byte read from stdin is numbered by its position in the   *)
(* input. The main thread reads until read_pipe_stdin returns 0.           *)
(***************************************************************************)
EXTENDS Integers, Sequences

CONSTANTS
  Maxes,       \* the max arguments read_pipe_stdin is called with
  MaxBytes     \* bound on the bytes of the input

VARIABLES
  buf,         \* stdin_buff[0 .. stdin_len-1]
  eof,         \* stdin_eof
  ev,          \* stdin_event is signaled
  sent,        \* bytes stdin_thread has read from stdin
  got,         \* the bytes read_pipe_stdin has returned, in order
  rpc,         \* stdin_thread: "run", or "exit" once it has returned
  mpc,         \* main thread: "idle", "wait" (in WaitForSingleObject), "done"
  mmax,        \* the max of the read_pipe_stdin call that waits
  peeked       \* peek_pipe_stdin_eof has reset the event after EOF

es_vars == << buf, eof, ev, sent, got, rpc, mpc, mmax, peeked >>

(* setup_pipe_stdin: CreateEvent(manual reset, not signaled), then the    *)
(* thread is started.                                                       *)
Init ==
  /\ buf = << >> /\ eof = FALSE /\ ev = FALSE
  /\ sent = 0 /\ got = << >>
  /\ rpc = "run" /\ mpc = "idle" /\ mmax = 0 /\ peeked = FALSE

(* stdin_thread: ReadFile returned a byte: append it (stdin_buff grows by  *)
(* realloc when full) and SetEvent, under io_crit.                         *)
ByteWith(b) ==
  /\ rpc = "run" /\ sent < MaxBytes
  /\ buf' = Append(buf, b) /\ sent' = sent + 1 /\ ev' = TRUE
  /\ UNCHANGED << eof, got, rpc, mpc, mmax, peeked >>
(* Mutant of stdin_thread: the byte is stored before the count is taken,  *)
(* one position early.                                                     *)
stdin_byteEarly == ByteWith(sent)
stdin_byte == ByteWith(sent + 1)

(* stdin_thread: ReadFile failed with ERROR_BROKEN_PIPE, or read 0 bytes: *)
(* stdin_eof = 1 and SetEvent under io_crit, and the thread returns.       *)
EofWith(signal) ==
  /\ rpc = "run"
  /\ eof' = TRUE /\ ev' = (ev \/ signal) /\ rpc' = "exit"
  /\ UNCHANGED << buf, sent, got, mpc, mmax, peeked >>
(* Mutant of stdin_thread: the EOF branch does not SetEvent.                *)
stdin_eofNoSignal == EofWith(FALSE)
stdin_eof == EofWith(TRUE)

(* stdin_thread: ReadFile failed with another error: the thread returns 1  *)
(* without taking io_crit, so stdin_eof stays 0 and the event is not set.  *)
stdin_error ==
  /\ rpc = "run" /\ rpc' = "exit"
  /\ UNCHANGED << buf, eof, ev, sent, got, mpc, mmax, peeked >>

(* read_pipe_stdin, the copy: at most max bytes are taken from the front   *)
(* of stdin_buff (memcpy, memmove); the event is reset unless EOF is set   *)
(* ("Stay signaled if EOF"), given as resetIf. The bytes kept start at    *)
(* n + shift.                                                               *)
TakeWith(max, resetIf, shift) ==
  LET n == IF Len(buf) > max THEN max ELSE Len(buf) IN
  /\ got' = got \o SubSeq(buf, 1, n)
  /\ buf' = SubSeq(buf, n + shift, Len(buf))
  /\ ev' = IF resetIf THEN FALSE ELSE ev
(* Mutant of read_pipe_stdin's copy: the event is reset even after EOF.    *)
TakeAlwaysReset(max) == TakeWith(max, TRUE, 1)
(* Mutant of read_pipe_stdin's copy: memmove starts one byte early.        *)
TakeShortMove(max) == TakeWith(max, ~eof, 0)
Take(max) == TakeWith(max, ~eof, 1)

(* read_pipe_stdin(max), first region: with data, copy it; empty at EOF,   *)
(* return 0 ("Stay signaled"); empty otherwise, leave io_crit and wait.    *)
read_pipe_stdin(max) ==
  /\ mpc = "idle"
  /\ IF buf # << >>
     THEN Take(max) /\ UNCHANGED << mpc, mmax >>
     ELSE /\ mpc' = (IF eof THEN "done" ELSE "wait") /\ mmax' = max
          /\ UNCHANGED << buf, got, ev >>
  /\ UNCHANGED << eof, sent, rpc, peeked >>

(* read_pipe_stdin, after WaitForSingleObject returns: EnterCriticalSection *)
(* and, if the buffer is still empty, return 0 at EOF or reset the event   *)
(* and return -1; else copy.                                               *)
read_pipe_stdin_wake ==
  /\ mpc = "wait" /\ ev
  /\ IF buf # << >>
     THEN Take(mmax)
     ELSE /\ ev' = (ev /\ eof) /\ UNCHANGED << buf, got >>
  /\ mpc' = IF buf = << >> /\ eof THEN "done" ELSE "idle"
  /\ UNCHANGED << eof, sent, rpc, mmax, peeked >>

(* peek_pipe_stdin_eof: at EOF, ResetEvent ("Now we unsignal").            *)
peek_pipe_stdin_eof ==
  /\ mpc = "idle"
  /\ ev' = (ev /\ ~eof) /\ peeked' = (peeked \/ eof)
  /\ UNCHANGED << buf, eof, sent, got, rpc, mpc, mmax >>

Next ==
  \/ stdin_byte
  \/ stdin_eof
  \/ stdin_error
  \/ \E max \in Maxes : read_pipe_stdin(max)
  \/ read_pipe_stdin_wake
  \/ peek_pipe_stdin_eof

(* The scheduler runs both threads; the main thread keeps calling          *)
(* read_pipe_stdin until it returns 0.                                     *)
Spec ==
  /\ Init /\ [][Next]_es_vars
  /\ WF_es_vars(stdin_byte \/ stdin_eof \/ stdin_error)
  /\ WF_es_vars(\E max \in Maxes : read_pipe_stdin(max))
  /\ WF_es_vars(read_pipe_stdin_wake)
-----------------------------------------------------------------------------
ESTypeOK ==
  /\ buf \in Seq(1 .. MaxBytes) /\ got \in Seq(1 .. MaxBytes)
  /\ eof \in BOOLEAN /\ ev \in BOOLEAN /\ peeked \in BOOLEAN
  /\ sent \in 0 .. MaxBytes /\ rpc \in {"run", "exit"}
  /\ mpc \in {"idle", "wait", "done"} /\ mmax \in {0} \cup Maxes

(* Across partial reads (max smaller than the buffer) interleaved with the *)
(* reader thread, the bytes returned followed by the bytes still buffered  *)
(* are the input so far, in order, none lost or repeated.                  *)
StdinInOrder == got \o buf = [i \in 1 .. sent |-> i]

(* Once stdin_thread has set stdin_eof, the event stays signaled through   *)
(* every read_pipe_stdin until peek_pipe_stdin_eof resets it: a wait on    *)
(* the event after EOF does not block.                                      *)
EofSignaled == eof /\ ~peeked => ev

(* Once stdin_thread has seen the end of the input (a broken pipe or a     *)
(* read of 0 bytes), the main thread's read loop ends: read_pipe_stdin     *)
(* eventually returns 0, after it has returned every byte of the input.    *)
(* After the other ReadFile errors (stdin_error) the loop may wait forever *)
(* on the event; the claim is only about the end of the input.             *)
AllDelivered == eof ~> (mpc = "done" /\ got = [i \in 1 .. sent |-> i])
=============================================================================
