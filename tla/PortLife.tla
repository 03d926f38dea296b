------------------------------ MODULE PortLife ------------------------------
(***************************************************************************)
(* The port table and the life cycle of a port in io.c: get_free_port,     *)
(* open_driver and driver_create_port (setup_port), commands from the      *)
(* connected process (erts_port_command, write_port), exit signals         *)
(* (erts_do_exit_port, flush_port, terminate_port), the callbacks of the  *)
(* I/O poll loop and the timer (input_ready, output_ready, async_ready,   *)
(* event_ready, port_timeout_proc) with the CLOSING check each one makes, *)
(* and the driver API a callback uses on its own port (driver_deq,        *)
(* driver_failure*, driver_exit, set_busy_port, driver_set_timer,         *)
(* driver_cancel_timer).                                                  *)
(*                                                                         *)
(* A port's I/O queue is represented by its size, q: IOQueue refines the   *)
(* byte FIFO ByteQueue, and the life cycle only reads ioq.size.            *)
(* Every C function is an operator from a world [pt, msgs] to a world, so  *)
(* the nested calls (a driver callback calling driver_failure from inside *)
(* flush_port) compose as in the code. All of it runs under the io lock,  *)
(* so each handler is one atomic step.                                    *)
(***************************************************************************)
EXTENDS Integers, FiniteSets

CONSTANTS
  MaxPorts,        \* erts_max_ports
  PortExtraLimit,  \* port_extra_limit
  Procs,           \* processes that own ports
  NoProc, NoId,    \* no connected process; the id of a never used slot
  MaxQ             \* bound on a port's queued bytes

Ix == 0 .. MaxPorts - 1

VARIABLES
  pt,            \* erts_port[]: [st, q, tm, conn, susp, id] per slot, and
                 \* closer: the process whose {Pid, close} the port is handling
  msgs,          \* messages the last step delivered: [to, id, what]
  last_port, port_extra_n,
  lastOpen       \* result of the last open_driver/driver_create_port

port_vars == << pt, msgs, last_port, port_extra_n, lastOpen >>

(* status: FREE is no flag set; the flags the life cycle uses.           *)
FREE == {}
W(p, m) == [pt |-> p, msgs |-> m]
Now == W(pt, {})
Set(w, ix, f) == [w EXCEPT !.pt[ix] = f]
Send(w, to, id, what) == [w EXCEPT !.msgs = @ \cup {[to |-> to, id |-> id, what |-> what]}]

-----------------------------------------------------------------------------
(* get_free_port: search from last_port + 1, wrapping (and counting the  *)
(* wraps in xn) until last_port is reached again.                        *)
(* Mutant of FreeSearch: the wrap counter is reset only past the limit.   *)
RECURSIVE FreeSearchPastLimit(_, _)
FreeSearchPastLimit(i, xn) ==
  IF i = MaxPorts THEN FreeSearchPastLimit(0, IF xn + 1 > PortExtraLimit THEN 0 ELSE xn + 1)
  ELSE IF i = last_port THEN [ix |-> -1, xn |-> xn]
  ELSE IF pt[i].st = FREE THEN [ix |-> i, xn |-> xn]
  ELSE FreeSearchPastLimit(i + 1, xn)

RECURSIVE FreeSearch(_, _)
FreeSearch(i, xn) ==
  IF i = MaxPorts THEN FreeSearch(0, IF xn + 1 >= PortExtraLimit THEN 0 ELSE xn + 1)
  ELSE IF i = last_port THEN [ix |-> -1, xn |-> xn]
  ELSE IF pt[i].st = FREE THEN [ix |-> i, xn |-> xn]
  ELSE FreeSearch(i + 1, xn)
get_free_port == FreeSearch(last_port + 1, port_extra_n)

(* setup_port: a connected port with an empty queue (initq).              *)
setup_port(w, ix, pid, id) ==
  Set(w, ix, [st |-> {"CONNECTED"}, q |-> 0, tm |-> FALSE, conn |-> pid,
              susp |-> {}, id |-> id, closer |-> NoProc])

(* terminate_port: deliver {Port, closed} if the owner asked to close,    *)
(* cancel the timer, stop the driver, stopq, and free the slot. The      *)
(* suspended list is left as it is.                                      *)
(* Mutant of terminate_port: the port timer is not cancelled.             *)
terminate_portKeepTimer(w, ix) ==
  LET p  == w.pt[ix]
      w1 == IF "SEND_CLOSED" \in p.st THEN Send(w, p.conn, p.id, "closed") ELSE w
  IN Set(w1, ix, [p EXCEPT !.st = FREE, !.q = 0])

terminate_port(w, ix) ==
  LET p  == w.pt[ix]
      w1 == IF "SEND_CLOSED" \in p.st THEN Send(w, p.conn, p.id, "closed") ELSE w
  IN Set(w1, ix, [p EXCEPT !.st = FREE, !.tm = FALSE, !.q = 0])

(* set_busy_port(ix, on): off resumes every process suspended on the port. *)
set_busy_port(w, ix, on) ==
  IF on THEN Set(w, ix, [w.pt[ix] EXCEPT !.st = @ \cup {"BUSY"}])
  ELSE Set(w, ix, [w.pt[ix] EXCEPT !.st = @ \ {"BUSY"}, !.susp = {}])

driver_set_timer(w, ix) ==
  IF w.pt[ix].st = FREE THEN w ELSE Set(w, ix, [w.pt[ix] EXCEPT !.tm = TRUE])
driver_cancel_timer(w, ix) ==
  IF w.pt[ix].st = FREE THEN w ELSE Set(w, ix, [w.pt[ix] EXCEPT !.tm = FALSE])
driver_deq(w, ix, n) ==
  IF w.pt[ix].st = FREE \/ w.pt[ix].q < n THEN w
  ELSE Set(w, ix, [w.pt[ix] EXCEPT !.q = @ - n])
driver_enq(w, ix, n) ==
  IF w.pt[ix].st = FREE THEN w ELSE Set(w, ix, [w.pt[ix] EXCEPT !.q = @ + n])

(* A check made after every driver callback: a CLOSING port whose queue   *)
(* the callback emptied is terminated.                                    *)
CheckClosing(w, ix) ==
  IF "CLOSING" \in w.pt[ix].st /\ w.pt[ix].q = 0 THEN terminate_port(w, ix) ELSE w

-----------------------------------------------------------------------------
(* What a driver does on its own port from inside a callback: e.k names   *)
(* the driver API call, e.n its argument.                                 *)
RECURSIVE driver_failure_term(_, _, _), erts_do_exit_port(_, _, _, _, _),
          flush_port(_, _, _), DriverDoes(_, _, _)

NoEffect == [k |-> "none", n |-> 0]

(* driver_failure_term(ix, term, eof): a CLOSING port is terminated;      *)
(* otherwise ioq.size is zeroed and the port exits (normal on eof).       *)
driver_failure_term(w, ix, eof) ==
  IF w.pt[ix].st = FREE THEN w
  ELSE IF "CLOSING" \in w.pt[ix].st THEN terminate_port(w, ix)
  ELSE erts_do_exit_port(Set(w, ix, [w.pt[ix] EXCEPT !.q = 0]), ix, "self",
                         IF eof THEN "normal" ELSE "other", NoEffect)

(* driver_exit(ix, err): unlink the connected process, then fail.         *)
driver_exit(w, ix) == driver_failure_term(w, ix, FALSE)

(* erts_do_exit_port(this_port, from, reason): a normal exit from anyone  *)
(* but the connected process or the port itself is ignored. Otherwise the *)
(* port stops being busy, its links are swept, and it becomes CLOSING and *)
(* is flushed if it has queued data and reason is not kill, or is         *)
(* terminated. fe is what the driver's flush callback does.               *)
(* Mutant of erts_do_exit_port: the port is not set to not busy first.    *)
erts_do_exit_portKeepBusy(w, ix, from, reason, fe) ==
  LET p == w.pt[ix] IN
  IF p.st = FREE \/ (reason = "normal" /\ from # p.conn /\ from # "self") THEN w
  ELSE IF reason # "kill" /\ p.q > 0
       THEN flush_port(Set(w, ix, [p EXCEPT !.st = @ \cup {"CLOSING"}]), ix, fe)
       ELSE terminate_port(w, ix)

erts_do_exit_port(w, ix, from, reason, fe) ==
  LET p == w.pt[ix] IN
  IF p.st = FREE \/ (reason = "normal" /\ from # p.conn /\ from # "self") THEN w
  ELSE LET w1 == set_busy_port(w, ix, FALSE)
       IN IF reason # "kill" /\ w1.pt[ix].q > 0
          THEN flush_port(Set(w1, ix, [w1.pt[ix] EXCEPT !.st = @ \cup {"CLOSING"}]), ix, fe)
          ELSE terminate_port(w1, ix)

(* flush_port: the driver's flush callback, then terminate if the port is *)
(* still there and its queue is empty.                                    *)
(* Mutant of flush_port: no terminate_port when the flush emptied it.    *)
flush_portNoCheck(w, ix, fe) == DriverDoes(w, ix, fe)

flush_port(w, ix, fe) ==
  LET w1 == DriverDoes(w, ix, fe)
  IN IF w1.pt[ix].st # FREE /\ w1.pt[ix].q = 0 THEN terminate_port(w1, ix) ELSE w1

DriverDoes(w, ix, e) ==
  CASE e.k = "none"    -> w
    [] e.k = "deq"     -> driver_deq(w, ix, e.n)
    [] e.k = "enq"     -> driver_enq(w, ix, e.n)
    [] e.k = "failure" -> driver_failure_term(w, ix, FALSE)
    [] e.k = "eof"     -> driver_failure_term(w, ix, TRUE)
    [] e.k = "exit"    -> driver_exit(w, ix)
    [] e.k = "busy"    -> set_busy_port(w, ix, e.n = 1)
    [] e.k = "timer"   -> driver_set_timer(w, ix)
    [] e.k = "cancel"  -> driver_cancel_timer(w, ix)
-----------------------------------------------------------------------------
(* The steps. Each handler runs under the io lock, and its result world   *)
(* becomes the next state.                                                *)
Apply(w) == pt' = w.pt /\ msgs' = w.msgs /\ UNCHANGED << last_port, port_extra_n, lastOpen >>

(* What a driver may do from a poll-loop or timer callback, and from its  *)
(* outputv callback, which may also queue the data it cannot write yet.   *)
CallbackEffects ==
  {[k |-> k, n |-> 0] : k \in {"none", "failure", "eof", "exit", "timer", "cancel"}}
  \cup {[k |-> "busy", n |-> b] : b \in {0, 1}} \cup {[k |-> "deq", n |-> n] : n \in 1 .. MaxQ}
OutputEffects == CallbackEffects \cup {[k |-> "enq", n |-> n] : n \in 1 .. MaxQ}
FlushEffects == {NoEffect, [k |-> "deq", n |-> 1], [k |-> "failure", n |-> 0]}

(* A process runs unless it is suspended on a busy port.                 *)
Running(p) == \A j \in Ix : p \notin pt[j].susp

(* open_driver(driver, pid, name, opts): take a free slot and its id; an  *)
(* exit_status option for a driver other than spawn is refused (-3) after *)
(* the slot was taken; otherwise setup_port and the driver's start, which *)
(* may set a timer, and on failure is undone (timer, stopq, FREE).        *)
OpenOutcomes == {"ok", "ok_timer", "start_fails", "start_fails_timer", "exit_status"}
open_driver(pid, out) ==
  LET r == get_free_port IN
  IF r.ix < 0 THEN lastOpen' = "enfile" /\ msgs' = {} /\ UNCHANGED << pt, last_port, port_extra_n >>
  ELSE LET id == << r.ix, r.xn >>
           w1 == setup_port(Now, r.ix, pid, id)
           w2 == IF out \in {"ok_timer", "start_fails_timer"} THEN driver_set_timer(w1, r.ix) ELSE w1
       IN /\ last_port' = r.ix /\ port_extra_n' = r.xn
          /\ pt' = CASE out = "exit_status" -> [pt EXCEPT ![r.ix].id = id]
                     [] out \in {"ok", "ok_timer"} -> w2.pt
                     [] OTHER -> [w2.pt EXCEPT ![r.ix] = [@ EXCEPT !.st = FREE, !.tm = FALSE, !.q = 0]]
          /\ lastOpen' = CASE out = "exit_status" -> "badopt"
                           [] out \in {"ok", "ok_timer"} -> "ok"
                           [] OTHER -> "startfail"
          /\ msgs' = {}

(* driver_create_port(driver, pid, name, drv_data): a new port for an     *)
(* existing driver instance, linked to pid.                               *)
driver_create_port(pid) ==
  LET r == get_free_port IN
  IF r.ix < 0 THEN lastOpen' = "enfile" /\ msgs' = {} /\ UNCHANGED << pt, last_port, port_extra_n >>
  ELSE /\ last_port' = r.ix /\ port_extra_n' = r.xn
       /\ pt' = setup_port(Now, r.ix, pid, << r.ix, r.xn >>).pt
       /\ lastOpen' = "ok"
       /\ msgs' = {}

(* write_port: the driver's outputv (or output) callback gets the data;  *)
(* an io-list that is not one makes write_port return 1.                  *)
write_port(w, ix, e) == DriverDoes(w, ix, e)

(* erts_port_command(proc, caller, port, command): {Pid, close},         *)
(* {Pid, {command, Data}} and {Pid, {connect, New}} from the connected    *)
(* process; anything else (a bad io-list included) sends badsig to it.  *)
(* A message to the connected process other than {Port, closed} changes  *)
(* nothing the properties read and is left out.                          *)
Commands == {[k |-> "close", p |-> NoProc], [k |-> "command", p |-> NoProc],
             [k |-> "badlist", p |-> NoProc]} \cup {[k |-> "connect", p |-> p] : p \in Procs}
(* Mutant of erts_port_command: SEND_CLOSED is set after the exit.       *)
erts_port_commandLateFlag(ix, from, cmd, e) ==
  LET p == pt[ix] IN
  IF from = p.conn /\ cmd.k = "close"
  THEN LET w == erts_do_exit_port(Set(Now, ix, [p EXCEPT !.closer = from]), ix, from, "normal", e)
       IN Apply(IF w.pt[ix].st = FREE THEN w
                ELSE Set(w, ix, [w.pt[ix] EXCEPT !.st = @ \cup {"SEND_CLOSED"}]))
  ELSE IF from = p.conn /\ cmd.k = "command" THEN Apply(write_port(Now, ix, e))
  ELSE IF from = p.conn /\ cmd.k = "connect" THEN Apply(Set(Now, ix, [p EXCEPT !.conn = cmd.p]))
  ELSE Apply(Now)

erts_port_command(ix, from, cmd, e) ==
  LET p == pt[ix] IN
  IF from = p.conn /\ cmd.k = "close"
  THEN Apply(erts_do_exit_port(Set(Now, ix, [p EXCEPT !.st = @ \cup {"SEND_CLOSED"},
                                                       !.closer = from]),
                               ix, from, "normal", e))
  ELSE IF from = p.conn /\ cmd.k = "command" THEN Apply(write_port(Now, ix, e))
  ELSE IF from = p.conn /\ cmd.k = "connect" THEN Apply(Set(Now, ix, [p EXCEPT !.conn = cmd.p]))
  ELSE Apply(Now)

(* The poll loop and timer callbacks: the driver's callback, then the    *)
(* CLOSING check.                                                         *)
input_ready(ix, e)  == pt[ix].st # FREE /\ Apply(CheckClosing(DriverDoes(Now, ix, e), ix))
(* Mutant of output_ready: no CLOSING check after the callback.          *)
output_readyNoCheck(ix, e) == pt[ix].st # FREE /\ Apply(DriverDoes(Now, ix, e))
output_ready(ix, e) == pt[ix].st # FREE /\ Apply(CheckClosing(DriverDoes(Now, ix, e), ix))
async_ready(ix, e)  == pt[ix].st # FREE /\ Apply(CheckClosing(DriverDoes(Now, ix, e), ix))
event_ready(ix, e)  == pt[ix].st # FREE /\ Apply(CheckClosing(DriverDoes(Now, ix, e), ix))
port_timeout_proc(ix, e) ==
  /\ pt[ix].tm
  /\ LET w == Set(Now, ix, [pt[ix] EXCEPT !.tm = FALSE])
     IN Apply(IF pt[ix].st = FREE THEN w ELSE CheckClosing(DriverDoes(w, ix, e), ix))
-----------------------------------------------------------------------------
(* The processes: a process sending to a busy port is suspended on it     *)
(* (the BIFs that send to ports do this); an exit signal from a process   *)
(* reaches the port (exit/2, or a linked process that dies).              *)
SuspendOnBusy(ix, p) ==
  /\ "BUSY" \in pt[ix].st /\ "CLOSING" \notin pt[ix].st /\ Running(p)
  /\ Apply(Set(Now, ix, [pt[ix] EXCEPT !.susp = @ \cup {p}]))

Reasons == {"normal", "kill", "other"}
ExitSignal(ix, p, r, fe) == pt[ix].st # FREE /\ Apply(erts_do_exit_port(Now, ix, p, r, fe))

Init ==
  /\ pt = [i \in Ix |-> [st |-> FREE, q |-> 0, tm |-> FALSE, conn |-> NoProc,
                          susp |-> {}, id |-> NoId, closer |-> NoProc]]
  /\ msgs = {} /\ last_port = 0 /\ port_extra_n = 0
  /\ lastOpen = "none"

(* Commands and signals reach a port only while it is neither FREE nor    *)
(* CLOSING: the BIFs drop them for a closing port.                        *)
Open(ix) == pt[ix].st # FREE /\ "CLOSING" \notin pt[ix].st

(* A driver may queue at most MaxQ bytes on a port.                      *)
QueueBound == \A ix \in Ix : pt'[ix].q <= MaxQ

Next ==
  \/ \E p \in Procs : Running(p) /\ \E out \in OpenOutcomes : open_driver(p, out)
  \/ \E p \in Procs : Running(p) /\ driver_create_port(p)
  \/ \E ix \in Ix, p \in Procs, cmd \in Commands :
       /\ Open(ix) /\ Running(p)
       /\ \E e \in IF cmd.k = "close" THEN FlushEffects ELSE OutputEffects :
            erts_port_command(ix, p, cmd, e) /\ QueueBound
  \/ \E ix \in Ix, p \in Procs, r \in Reasons, fe \in FlushEffects : ExitSignal(ix, p, r, fe)
  \/ \E ix \in Ix, e \in CallbackEffects :
       \/ input_ready(ix, e)
       \/ output_ready(ix, e)
       \/ async_ready(ix, e)
       \/ event_ready(ix, e)
       \/ port_timeout_proc(ix, e)
  \/ \E ix \in Ix, p \in Procs : SuspendOnBusy(ix, p)

Spec == Init /\ [][Next]_port_vars

(* The I/O poll loop calls output_ready while a driver has selected its  *)
(* descriptor for output, which a driver with queued data does, and the  *)
(* driver then writes (driver_deq) some of it.                           *)
Drain(ix) == \E n \in 1 .. MaxQ : output_ready(ix, [k |-> "deq", n |-> n])
FairSpec == Spec /\ \A ix \in Ix : WF_port_vars(Drain(ix))

-----------------------------------------------------------------------------
Ids == (Ix \X (0 .. PortExtraLimit - 1)) \cup {NoId}
Flags == {"CONNECTED", "CLOSING", "SEND_CLOSED", "BUSY"}
PortTypeOK ==
  /\ pt \in [Ix -> [st : SUBSET Flags, q : 0 .. MaxQ, tm : BOOLEAN,
                    conn : Procs \cup {NoProc}, susp : SUBSET Procs, id : Ids,
                    closer : Procs \cup {NoProc}]]
  /\ last_port \in Ix /\ port_extra_n \in 0 .. PortExtraLimit - 1
  /\ lastOpen \in {"none", "ok", "enfile", "badopt", "startfail"}

(* A CLOSING port always has queued data: every path that empties the    *)
(* queue of a CLOSING port (each poll-loop and timer callback, flush_port, *)
(* driver_failure_term) terminates it, so no port is left CLOSING with    *)
(* nothing that would ever wake it.                                       *)
ClosingHasData == \A ix \in Ix : "CLOSING" \in pt[ix].st => pt[ix].q > 0

(* A port timer is armed only on a port that is in use: terminate_port    *)
(* and the failure path of open_driver cancel it, so port_timeout_proc    *)
(* never runs for a slot that was freed (or reused).                      *)
TimerOnlyLive == \A ix \in Ix : pt[ix].tm => pt[ix].st # FREE

(* No process stays suspended on a port that is not busy or was freed:    *)
(* every exit of a port goes through set_busy_port(ix, 0), which resumes  *)
(* the suspended processes.                                               *)
SuspendedOnBusy == \A ix \in Ix : pt[ix].susp # {} => "BUSY" \in pt[ix].st

(* A {Pid, close} is answered: the step that frees a port handling one    *)
(* (at once, after flushing through CLOSING, by a kill, or by a driver    *)
(* failure) delivers {Port, closed} to the process that sent it.          *)
ClosedReplied ==
  [][\A ix \in Ix :
       (pt'[ix].closer # NoProc /\ pt[ix].st # FREE /\ pt'[ix].st = FREE)
         => [to |-> pt'[ix].closer, id |-> pt[ix].id, what |-> "closed"] \in msgs']_port_vars

(* A CLOSING port is eventually freed, as long as its driver keeps        *)
(* writing out its queue.                                                 *)
ClosingTerminates == \A ix \in Ix : ("CLOSING" \in pt[ix].st) ~> (pt[ix].st = FREE)

(* open_driver and driver_create_port fail with ENFILE only when every    *)
(* slot of the port table is in use.                                      *)
EnfileOnlyWhenFull == lastOpen = "enfile" => \A ix \in Ix : pt[ix].st # FREE
=============================================================================
