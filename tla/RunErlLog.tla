------------------------------ MODULE RunErlLog ------------------------------
(***************************************************************************)
(* The log rotation of run_erl (erts/etc/unix/run_erl.c). run_erl logs    *)
(* everything the Erlang shell writes to its pty into the files            *)
(* log_dir/erlang.log.1 .. erlang.log.<log_generations>. write_to_log      *)
(* switches to next_log(n) when the current log would pass log_maxsize,    *)
(* and open_log removes the log after the one it opens so that the         *)
(* sequence always has a "hole" after the current log. When run_erl is     *)
(* started again over the same directory, find_next_log_num looks for the  *)
(* hole to find the log to continue.                                       *)
(*                                                                         *)
(* The directory is the durable state: it outlives a run_erl that exits   *)
(* (the pty is closed) or is killed, and a new run_erl starts over it. A  *)
(* log is its size and the entries written into it; each write_to_log     *)
(* call is one entry, numbered in the order of the calls. The LOGGING      *)
(* STARTED banner of open_log adds Header to the size and is no entry.    *)
(***************************************************************************)
EXTENDS Integers, Sequences, SequencesExt

CONSTANTS
  log_generations,  \* RUN_ERL_LOG_GENERATIONS
  log_maxsize,      \* RUN_ERL_LOG_MAXSIZE
  Header,           \* length of open_log's LOGGING STARTED banner
  Stamp,            \* length of the "===== [ALIVE] <ctime>" line
  Lens,             \* lengths a read of the pty returns (1 .. BUFSIZ)
  NoFile,           \* the directory has no erlang.log.<n>
  MaxWrites,        \* bound on the write_to_log calls
  MaxStarts         \* bound on the times run_erl is started

ASSUME log_generations >= 2 /\ log_maxsize >= 1 /\ Header >= 1 /\ Stamp >= 1

Gens == 1 .. log_generations

VARIABLES
  dir,       \* log number -> NoFile or [size, ents] of erlang.log.<n>
  lognum,    \* pass_on's lognum: the log lfd is open on
  state,     \* "down": no run_erl; "up": in pass_on's loop;
             \* "rotating": write_to_log between its close and open_log's open
  pend,      \* the entry write_to_log is writing across the rotation
  written,   \* entries written (the number of the last one)
  starts,    \* times run_erl has been started
  lastlog    \* the log that received the last banner or entry (0: none)

rel_vars == << dir, lognum, state, pend, written, starts, lastlog >>

(* next_log and prev_log: the log numbers wrap after log_generations.      *)
(* Mutant of next_log: the wrap test is off by one.                       *)
next_logLate(n) == IF n > log_generations THEN 1 ELSE n + 1
next_log(n) == IF n >= log_generations THEN 1 ELSE n + 1
prev_log(n) == IF n <= 1 THEN log_generations ELSE n - 1

(* find_next_log_num: log_exists[] from the directory (index 0 is never a  *)
(* log), then the downward scan for the hole: i runs from log_generations  *)
(* down to 0; an absent log sets next_gen = i, a present one ends the scan *)
(* once next_gen is set.                                                    *)
log_exists(i) == i \in Gens /\ dir[i] # NoFile
RECURSIVE Scan(_, _)
Scan(i, next_gen) ==
  IF i < 0 THEN next_gen
  ELSE IF log_exists(i)
       THEN IF next_gen # 0 THEN next_gen ELSE Scan(i - 1, next_gen)
       ELSE Scan(i - 1, i)
find_next_log_num ==
  LET next_gen == Scan(log_generations, 0)
  IN IF next_gen # 0 THEN prev_log(next_gen) ELSE 1

(* Mutant of open_log's unlink: it removes log n itself.                  *)
UnlinkedSelf(d, n) == [d EXCEPT ![n] = NoFile]
(* Mutant of open_log's unlink: nothing is removed.                        *)
UnlinkedNone(d, n) == d
(* open_log(n), first line: unlink the log after n.                       *)
Unlinked(d, n) == [d EXCEPT ![next_log(n)] = NoFile]
(* open_log(n), the rest: open n (O_TRUNC, or O_APPEND as at a start; both  *)
(* with O_CREAT) and write the banner.                                     *)
Opened(d, n, trunc) ==
  [d EXCEPT ![n] = IF trunc \/ d[n] = NoFile
                   THEN [size |-> Header, ents |-> << >>]
                   ELSE [size |-> @.size + Header, ents |-> @.ents]]
open_log(d, n, trunc) == Opened(Unlinked(d, n), n, trunc)

(* The write at the end of write_to_log.                                   *)
Appended(d, n, e) == [d EXCEPT ![n] = [size |-> @.size + e.len, ents |-> Append(@.ents, e.id)]]

Init ==
  /\ dir = [n \in Gens |-> NoFile]
  /\ lognum = 1 /\ state = "down" /\ pend = [id |-> 0, len |-> 0]
  /\ written = 0 /\ starts = 0 /\ lastlog = 0

(* main, then pass_on up to its work loop: find the log to continue and   *)
(* open it with O_APPEND.                                                  *)
start ==
  /\ state = "down" /\ starts < MaxStarts
  /\ LET n == find_next_log_num IN
       /\ dir' = open_log(dir, n, FALSE)
       /\ lognum' = n /\ lastlog' = n
  /\ state' = "up" /\ starts' = starts + 1
  /\ UNCHANGED << pend, written >>

(* write_to_log(len): if the size of the current log (lseek to its end)   *)
(* plus len passes log_maxsize, close it, step lognum and remove the log   *)
(* after the new one (open_log's unlink); else write the entry.            *)
write_to_log(len) ==
  /\ state = "up" /\ written < MaxWrites
  /\ LET e == [id |-> written + 1, len |-> len] IN
     IF dir[lognum].size + len > log_maxsize
     THEN /\ lognum' = next_log(lognum)
          /\ dir' = Unlinked(dir, next_log(lognum))
          /\ state' = "rotating" /\ pend' = e
          /\ UNCHANGED << written, lastlog >>
     ELSE /\ dir' = Appended(dir, lognum, e) /\ lastlog' = lognum
          /\ written' = written + 1
          /\ UNCHANGED << lognum, state, pend >>
  /\ UNCHANGED starts

(* write_to_log after the switch: open_log's O_TRUNC open and banner, then *)
(* the write of the entry.                                                  *)
write_to_log_reopen ==
  /\ state = "rotating"
  /\ dir' = Appended(Opened(dir, lognum, TRUE), lognum, pend)
  /\ lastlog' = lognum /\ state' = "up" /\ written' = written + 1
  /\ UNCHANGED << lognum, pend, starts >>

(* pass_on's loop: a read of len bytes from the pty master is logged.      *)
pty_read(len) == write_to_log(len)
(* pass_on's loop: select timed out, or input comes after a long silence:  *)
(* the time stamp line is logged.                                           *)
time_stamp == write_to_log(Stamp)

(* pass_on: read of the pty master returns 0 or -1 (Erlang has gone):      *)
(* close the fds, unlink the FIFOs, exit.                                  *)
pty_closed == state = "up" /\ state' = "down" /\ UNCHANGED << dir, lognum, pend, written, starts, lastlog >>
(* run_erl is killed, in its loop or inside a rotation.                    *)
killed == state # "down" /\ state' = "down" /\ UNCHANGED << dir, lognum, pend, written, starts, lastlog >>

Next ==
  \/ start
  \/ \E len \in Lens : pty_read(len)
  \/ time_stamp
  \/ write_to_log_reopen
  \/ pty_closed
  \/ killed

Spec == Init /\ [][Next]_rel_vars
-----------------------------------------------------------------------------
RELTypeOK ==
  /\ dir \in [Gens -> {NoFile} \cup [size : Nat, ents : Seq(1 .. MaxWrites)]]
  /\ lognum \in Gens /\ state \in {"down", "up", "rotating"}
  /\ written \in 0 .. MaxWrites /\ starts \in 0 .. MaxStarts /\ lastlog \in 0 .. log_generations

(* The logs from the oldest to the newest: the log numbers after lognum,  *)
(* around to lognum itself.                                                *)
Sequence == [k \in Gens |-> ((lognum + k - 1) % log_generations) + 1]
LoggedEntries == FlattenSeq([k \in Gens |-> IF dir[Sequence[k]] = NoFile THEN << >> ELSE dir[Sequence[k]].ents])

(* Reading the logs in sequence order, across rotations, crashes inside a  *)
(* rotation and restarts that look for the hole, gives the write_to_log   *)
(* entries in the order they were written, with none missing between the  *)
(* oldest kept and the last one written.                                   *)
LogOrder ==
  LoggedEntries = [i \in 1 .. Len(LoggedEntries) |-> written - Len(LoggedEntries) + i]

(* A start of run_erl, whatever log it was writing and however it stopped, *)
(* keeps the latest output: find_next_log_num picks the log to continue,   *)
(* and open_log's unlink and open must not remove the last entry written.  *)
Kept(d, w) == \E n \in Gens : d[n] # NoFile /\ w \in Range(d[n].ents)
StartKeepsLatest ==
  [][start /\ Kept(dir, written) => Kept(dir', written)]_rel_vars
=============================================================================
