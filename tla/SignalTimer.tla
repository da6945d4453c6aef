---------------------------- MODULE SignalTimer ----------------------------
(***************************************************************************)
(* src/linux/bscl_timer.c: timers in a list that a SIGALRM handler walks   *)
(* every millisecond, between any two instructions of the program that     *)
(* makes and deletes them.  A step of the program ends where the handler   *)
(* can see the difference; the handler itself runs to its end.             *)
(***************************************************************************)
EXTENDS NullList

CONSTANTS
  Timers,      \* the blocks malloc gives
  WILD         \* a pointer to nowhere, as malloc may leave in the block

(* What Library assumes of the constants *)
TimerAssumption ==
  /\ IsFiniteSet(Timers) /\ {NULL, WILD} \intersect Timers = {} /\ NULL # WILD

VARIABLES
  timer,       \* [start, links, live, armed]
  work         \* the program's call, and history: [pc, item, given, wild]

vars == <<timer, work>>

Init ==
  /\ timer = [start |-> NULL, live |-> {},
              links |-> [prev |-> [t \in Timers |-> NULL], next |-> [t \in Timers |-> NULL]],
              armed |-> FALSE]
  /\ work = [pc |-> "idle", item |-> NULL, given |-> {}, wild |-> FALSE]

(* Memory that is not the list's was read as a pointer of it, or written.  *)
Sane == ~work.wild
At(pc) == work.pc = pc /\ Sane
MoveTo(pc) == [work EXCEPT !.pc = pc]

(* The timers a walk from start meets, up to the end or a wild pointer *)
Met ==
  LET met == NullWalk([timer.links EXCEPT !.next =
               [t \in Timers |-> IF @[t] = WILD THEN NULL ELSE @[t]]], timer.start)
  IN  {met[i] : i \in DOMAIN met}
WalksWild == \E t \in Met : timer.links.next[t] = WILD

(* bscl_timer_on; it calls those of the timers it meets whose period ends. *)
Tick ==
  /\ timer.armed /\ Sane
  /\ work' = [work EXCEPT !.wild = WalksWild]
  /\ UNCHANGED timer

(* bscl_timer_new: the block and its fields, all but the links *)
New(t, prev, next) ==
  /\ At("idle") /\ t \notin timer.live
  /\ timer' = [timer EXCEPT !.live = @ \union {t},
                            !.links = [prev |-> [@.prev EXCEPT ![t] = prev],
                                       next |-> [@.next EXCEPT ![t] = next]]]
  /\ work' = [work EXCEPT !.pc = IF timer.start = NULL THEN "arm" ELSE "link", !.item = t]

(* signal and setitimer; when it fails the block is lost, *)
Arm(fails) ==
  /\ At("arm")
  /\ timer' = [timer EXCEPT !.armed = @ \/ ~fails]
  /\ work' = IF fails THEN [MoveTo("idle") EXCEPT !.item = NULL] ELSE MoveTo("start")

(* else it is the list now.  Its links are not initialised. *)
Start ==
  /\ At("start")
  /\ timer' = [timer EXCEPT !.start = work.item]
  /\ work' = [MoveTo("idle") EXCEPT !.item = NULL, !.given = @ \union {work.item}]

(* bscl_list_head_insert_prev: a later timer goes before the first one.    *)
Link ==
  LET before == timer.links.prev[timer.start] IN
  /\ At("link")
  /\ timer' = [timer EXCEPT !.links =
                 [prev |-> [@.prev EXCEPT ![work.item] = before, ![timer.start] = work.item],
                  next |-> [@.next EXCEPT ![work.item] = timer.start]]]
  /\ work' = MoveTo("join")

Join ==
  LET before == timer.links.prev[work.item] IN
  /\ At("join")
  /\ timer' = IF before = WILD THEN timer
              ELSE [timer EXCEPT !.links.next = Store(@, before, work.item)]
  /\ work' = [MoveTo("idle") EXCEPT !.item = NULL, !.given = @ \union {work.item},
                                    !.wild = before = WILD]

-----------------------------------------------------------------------------
(* bscl_timer_delete: its walk does not end when it does not meet the      *)
(* timer, because it stays at the last one.                                *)
Delete(t) ==
  /\ At("idle") /\ t \in work.given
  /\ work' = [work EXCEPT !.item = t, !.given = @ \ {t},
                          !.wild = t \notin Met /\ WalksWild,
                          !.pc = IF timer.start = NULL THEN "stop"
                                 ELSE IF t = timer.start THEN "unstart"
                                 ELSE IF t \in Met THEN "unlink" ELSE "lost"]
  /\ UNCHANGED timer

UnstartNot ==     \* mutant: the first timer is unlinked and stays the first
  /\ At("unstart") /\ work' = MoveTo("unlink") /\ UNCHANGED timer

(* The first timer gives its place to the next one, *)
Unstart ==
  /\ At("unstart")
  /\ timer' = [timer EXCEPT !.start = timer.links.next[work.item]]
  /\ work' = [MoveTo("unlink") EXCEPT !.wild = timer.links.next[work.item] = WILD]

(* is unlinked, *)
Unlink ==
  LET wild == WILD \in {timer.links.prev[work.item], timer.links.next[work.item]} IN
  /\ At("unlink")
  /\ timer' = IF wild THEN timer ELSE [timer EXCEPT !.links = NullRemove(@, work.item)]
  /\ work' = [MoveTo("stop") EXCEPT !.wild = wild]

(* the signal is stopped when it was the last, *)
Stop ==
  /\ At("stop")
  /\ timer' = [timer EXCEPT !.armed = @ /\ timer.start # NULL]
  /\ work' = MoveTo("free")

(* and the block is freed. *)
Free ==
  /\ At("free")
  /\ timer' = [timer EXCEPT !.live = @ \ {work.item}]
  /\ work' = [MoveTo("idle") EXCEPT !.item = NULL]

Next ==
  \/ Tick
  \/ \E t \in Timers, prev, next \in {NULL, WILD} : New(t, prev, next)
  \/ \E fails \in BOOLEAN : Arm(fails)
  \/ Start \/ Link \/ Join
  \/ \E t \in Timers : Delete(t)
  \/ Unstart \/ Unlink \/ Stop \/ Free

Spec == Init /\ [][Next]_vars

-----------------------------------------------------------------------------
NoWild(field) == [t \in Timers |-> IF field[t] = WILD THEN NULL ELSE field[t]]

(* Whenever the handler can run, until a pointer that was never set is     *)
(* followed: its walk ends and meets allocated timers only, so that it     *)
(* calls none that was freed; the timers before the first one, which lead  *)
(* to it and are found by no walk, are not freed either; and between the   *)
(* calls the signal is on while there is a first timer, and only then.     *)
HandlerSafe ==
  Sane =>
    /\ WalkIsFinite([next |-> NoWild(timer.links.next)], timer.start)
    /\ Met \subseteq timer.live
    /\ LET before == NullWalk([next |-> NoWild(timer.links.prev)], timer.start) IN
       \A i \in DOMAIN before : before[i] \in timer.live
    /\ work.pc = "idle" => (timer.armed <=> timer.start # NULL)
=============================================================================
