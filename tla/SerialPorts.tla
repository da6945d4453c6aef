---------------------------- MODULE SerialPorts ----------------------------
(***************************************************************************)
(* src/win32/serialport.c: a table from descriptors to handles of serial   *)
(* ports, used by several threads and guarded by nothing.  A handle is a   *)
(* value that Windows gives again once it is closed.                       *)
(***************************************************************************)
EXTENDS Integers, FiniteSets

CONSTANTS
  Users,       \* threads
  Handles,     \* the values a handle may have
  MaxOpen,     \* MAX_OPEN_NUM
  NULL

(* What Library assumes of the constants *)
SerialAssumption ==
  NULL \notin Handles /\ IsFiniteSet(Handles) /\ MaxOpen \in Nat

Fds == 0 .. MaxOpen - 1

VARIABLES
  serial,      \* [port, open]: the table, and the handles that are open
  given,       \* history: [port, lost, clash]: the handle behind each descriptor the
               \* program holds, the handles nobody has any more, and whether two
               \* threads that opened at the same time were given the same descriptor
  threads      \* what each thread is in: [in, fd, event]

vars == <<serial, given, threads>>

Idle == [in |-> "nothing", fd |-> NULL, event |-> NULL]

Init ==
  /\ serial = [port |-> [fd \in Fds |-> NULL], open |-> {}]
  /\ given = [port |-> [fd \in Fds |-> NULL], lost |-> {}, clash |-> FALSE]
  /\ threads = [u \in Users |-> Idle]

(* get_free_fd; the set is empty when it returns -1. *)
GetFreeFd == {fd \in Fds : serial.port[fd] = NULL /\ \A i \in 0 .. fd - 1 : serial.port[i] # NULL}

(* bscl_serialport_open, up to the system call *)
OpenBegin(u) ==
  /\ threads[u] = Idle
  /\ \E fd \in GetFreeFd :
       /\ threads' = [threads EXCEPT ![u].in = "open", ![u].fd = fd]
       /\ given' = [given EXCEPT !.clash = @ \/ \E v \in Users :
                      threads[v].in = "open" /\ threads[v].fd = fd]
  /\ UNCHANGED serial

OpenFails(u) ==
  /\ threads[u].in = "open"
  /\ threads' = [threads EXCEPT ![u] = Idle] /\ UNCHANGED <<serial, given>>

(* SetCommMask fails and the handle stays open, *)
OpenLost(u, h) ==
  /\ threads[u].in = "open" /\ h \notin serial.open
  /\ serial' = [serial EXCEPT !.open = @ \union {h}]
  /\ given' = [given EXCEPT !.lost = @ \union {h}]
  /\ threads' = [threads EXCEPT ![u] = Idle]

(* or the descriptor is filled and given out. *)
OpenEnd(u, h) ==
  /\ threads[u].in = "open" /\ h \notin serial.open
  /\ serial' = [port |-> [serial.port EXCEPT ![threads[u].fd] = h],
                open |-> serial.open \union {h}]
  /\ given' = [given EXCEPT !.port[threads[u].fd] = h]
  /\ threads' = [threads EXCEPT ![u] = Idle]

(* bscl_serialport_read_timeout and bscl_serialport_write: an event is     *)
(* made, waited for,                                                       *)
TransferBegin(u, fd, h) ==
  /\ threads[u] = Idle /\ given.port[fd] # NULL /\ serial.port[fd] # NULL
  /\ h \notin serial.open
  /\ serial' = [serial EXCEPT !.open = @ \union {h}]
  /\ threads' = [threads EXCEPT ![u] = [in |-> "transfer", fd |-> fd, event |-> h]]
  /\ UNCHANGED given

TransferEndKeeps(u) ==     \* mutant: the event stays open
  /\ threads[u].in = "transfer"
  /\ threads' = [threads EXCEPT ![u] = Idle] /\ UNCHANGED <<serial, given>>

(* and closed, whether the transfer succeeds or fails. *)
TransferEnd(u) ==
  /\ threads[u].in = "transfer"
  /\ serial' = [serial EXCEPT !.open = @ \ {threads[u].event}]
  /\ threads' = [threads EXCEPT ![u] = Idle]
  /\ UNCHANGED given

(* bscl_serialport_close: the table keeps the handle. *)
Close(u, fd) ==
  /\ threads[u] = Idle /\ given.port[fd] # NULL /\ serial.port[fd] # NULL
  /\ serial' = [serial EXCEPT !.open = @ \ {serial.port[fd]}]
  /\ given' = [given EXCEPT !.port[fd] = NULL]
  /\ UNCHANGED threads

Next ==
  \E u \in Users :
    \/ OpenBegin(u) \/ OpenFails(u) \/ TransferEnd(u)
    \/ \E h \in Handles : OpenLost(u, h) \/ OpenEnd(u, h)
    \/ \E fd \in Fds : Close(u, fd) \/ \E h \in Handles : TransferBegin(u, fd, h)

Spec == Init /\ [][Next]_vars

-----------------------------------------------------------------------------
Held == {fd \in Fds : given.port[fd] # NULL}
Events == {threads[u].event : u \in Users} \ {NULL}

(* Until two opens that overlap are given the same descriptor: behind each *)
(* descriptor the program holds is the handle it was opened with, open and *)
(* no other one's, although closed descriptors keep handles that may be    *)
(* open again as something else; and the open handles are these, those of  *)
(* the events of the transfers under way, and those an open has lost.      *)
PortsKept ==
  ~given.clash =>
    /\ \A fd \in Held : serial.port[fd] = given.port[fd]
    /\ Cardinality({given.port[fd] : fd \in Held} \union Events \union given.lost)
         = Cardinality(Held) + Cardinality({u \in Users : threads[u].event # NULL})
             + Cardinality(given.lost)
    /\ serial.open = {given.port[fd] : fd \in Held} \union Events \union given.lost
=============================================================================
