------------------------------ MODULE Tasklet ------------------------------
(***************************************************************************)
(* src/bscl_tasklet.c: tasklets on the list of one bscl_tasklet_head with  *)
(* a semaphore and a mutex.  One dispatcher thread calls                   *)
(* bscl_tasklet_dispatch in a loop; the owner of each tasklet links it,    *)
(* and may unlink it; penders (threads or interrupt handlers) pend it.     *)
(* Every access of a shared word is a step of its own, except inside the   *)
(* list operations, which the mutex covers.                                *)
(***************************************************************************)
EXTENDS ListHead

CONSTANTS
  Tasklets,
  TH,          \* the bscl_tasklet_head's list node
  Penders,     \* the threads and handlers that call bscl_tasklet_pend
  Modulus,     \* the number of values of pend and deal: 2^32
  MaxPends,    \* bound: the pend calls of a pender
  NONE         \* no thread, no tasklet

CONSTANT Of(_)      \* the tasklet a pender pends

ASSUME TaskletAssumption ==
  /\ IsFiniteSet(Tasklets) /\ Tasklets # {} /\ TH \notin Tasklets
  /\ NONE \notin Tasklets \union Penders \union {TH}
  /\ Tasklets \intersect Penders = {}
  /\ \A p \in Penders : Of(p) \in Tasklets
  /\ Modulus \in Nat \ {0, 1} /\ MaxPends \in Nat

VARIABLES
  links,       \* the list nodes
  pend, deal,  \* tsl->pend, tsl->deal
  sem,         \* th->sem
  mutex,       \* the owner of th->mutex, or NONE
  owner,       \* what the owner of each tasklet is doing
  pender,      \* each pender: [at, seen, left]
  disp,        \* the dispatcher: [at, tsl, temp, seen]
  due          \* history: pended since the last run began

vars == <<links, pend, deal, sem, mutex, owner, pender, disp, due>>

Nodes == Tasklets \union {TH}

Inc(x) == (x + 1) % Modulus

(* bscl_tasklet_is_pended *)
IsPended(t) == pend[t] # deal[t]

(* bscl_tasklet_is_linked *)
IsLinked(t) == ~ListIsEmpty(links, t)

Init ==
  /\ links = Alone(Nodes)
  /\ pend = [t \in Tasklets |-> 0] /\ deal = [t \in Tasklets |-> 0]
  /\ sem = 0 /\ mutex = NONE
  /\ owner = [t \in Tasklets |-> "new"]
  /\ pender = [p \in Penders |-> [at |-> "idle", seen |-> 0, left |-> MaxPends]]
  /\ disp = [at |-> "wait", tsl |-> NONE, temp |-> NONE, seen |-> 0]
  /\ due = [t \in Tasklets |-> FALSE]

-----------------------------------------------------------------------------
LinkInsertSelf(t) == InsertTail(links, t, t)     \* mutant

(* bscl_tasklet_link, after its test that the tasklet is not linked: lock, *)
(* insert, unlock.  The arguments of bscl_list_insert_tail are swapped:    *)
(* the head is inserted into the tasklet's list.                           *)
LinkInsert(t) == InsertTail(links, t, TH)

LinkLock(t) ==
  /\ owner[t] = "new" /\ ~IsLinked(t)
  /\ mutex = NONE /\ mutex' = t
  /\ owner' = [owner EXCEPT ![t] = "linking"]
  /\ UNCHANGED <<links, pend, deal, sem, pender, disp, due>>

LinkDone(t) ==
  /\ owner[t] = "linking"
  /\ links' = LinkInsert(t)
  /\ mutex' = NONE
  /\ owner' = [owner EXCEPT ![t] = "linked"]
  /\ UNCHANGED <<pend, deal, sem, pender, disp, due>>

(* Mutant: unlink does not wait for the mutex. *)
UnlinkLockFree(t) ==
  /\ owner[t] = "linked" /\ IsLinked(t)
  /\ owner' = [owner EXCEPT ![t] = "unlinking"]
  /\ UNCHANGED <<links, pend, deal, sem, mutex, pender, disp, due>>

(* bscl_tasklet_unlink *)
UnlinkLock(t) ==
  /\ owner[t] = "linked" /\ IsLinked(t)
  /\ mutex = NONE /\ mutex' = t
  /\ owner' = [owner EXCEPT ![t] = "unlinking"]
  /\ UNCHANGED <<links, pend, deal, sem, pender, disp, due>>

UnlinkDone(t) ==
  /\ owner[t] = "unlinking"
  /\ links' = Remove(links, t)
  /\ mutex' = NONE
  /\ owner' = [owner EXCEPT ![t] = "unlinked"]
  /\ UNCHANGED <<pend, deal, sem, pender, disp, due>>

-----------------------------------------------------------------------------
(* bscl_tasklet_pend.  It reads tsl->head, so its caller has linked first. *)
PendTest(p) ==
  LET t == Of(p) IN
  /\ pender[p].at = "idle" /\ pender[p].left > 0
  /\ owner[t] # "new" /\ owner[t] # "linking"
  /\ pender' = [pender EXCEPT ![p].at = IF pend[t] = deal[t] THEN "first" ELSE "again",
                              ![p].left = @ - 1]
  /\ UNCHANGED <<links, pend, deal, sem, mutex, owner, disp, due>>

(* tsl->pend++ is a load and a store. *)
PendLoad(p) ==
  /\ pender[p].at \in {"first", "again"}
  /\ pender' = [pender EXCEPT ![p].seen = pend[Of(p)],
                  ![p].at = IF @ = "first" THEN "store first" ELSE "store again"]
  /\ UNCHANGED <<links, pend, deal, sem, mutex, owner, disp, due>>

(* Mutant: a tasklet that is pended already is left as it is. *)
PendStoreOnce(p) ==
  /\ pender[p].at \in {"store first", "store again"}
  /\ pend' = IF pender[p].at = "store first"
             THEN [pend EXCEPT ![Of(p)] = Inc(pender[p].seen)] ELSE pend
  /\ due' = [due EXCEPT ![Of(p)] = TRUE]
  /\ pender' = [pender EXCEPT ![p].at = IF @ = "store first" THEN "post" ELSE "idle"]
  /\ UNCHANGED <<links, deal, sem, mutex, owner, disp>>

PendStore(p) ==
  /\ pender[p].at \in {"store first", "store again"}
  /\ pend' = [pend EXCEPT ![Of(p)] = Inc(pender[p].seen)]
  /\ due' = [due EXCEPT ![Of(p)] = TRUE]
  /\ pender' = [pender EXCEPT ![p].at = IF @ = "store first" THEN "post" ELSE "idle"]
  /\ UNCHANGED <<links, deal, sem, mutex, owner, disp>>

PendPost(p) ==
  /\ pender[p].at = "post"
  /\ sem' = sem + 1
  /\ pender' = [pender EXCEPT ![p].at = "idle"]
  /\ UNCHANGED <<links, pend, deal, mutex, owner, disp, due>>

-----------------------------------------------------------------------------
(* Mutant: a semaphore that is decremented without a look at it. *)
DispatchWaitUnchecked ==
  /\ disp.at = "wait"
  /\ sem' = sem - 1
  /\ disp' = [disp EXCEPT !.at = "lock"]
  /\ UNCHANGED <<links, pend, deal, mutex, owner, pender, due>>

(* Mutant: a wait without a timeout. *)
DispatchWaitForever ==
  /\ disp.at = "wait"
  /\ sem > 0 /\ sem' = sem - 1
  /\ disp' = [disp EXCEPT !.at = "lock"]
  /\ UNCHANGED <<links, pend, deal, mutex, owner, pender, due>>

(* bscl_tasklet_dispatch.  The wait ends with the semaphore or by timeout. *)
DispatchWait ==
  /\ disp.at = "wait"
  /\ sem' \in IF sem > 0 THEN {sem - 1} ELSE {0}
  /\ disp' = [disp EXCEPT !.at = "lock"]
  /\ UNCHANGED <<links, pend, deal, mutex, owner, pender, due>>

(* The lock, and the first step of bscl_list_for_each_entry_safe. *)
DispatchLock ==
  /\ disp.at = "lock"
  /\ mutex = NONE /\ mutex' = TH
  /\ disp' = [disp EXCEPT !.at = "entry", !.tsl = links.next[TH],
                          !.temp = links.next[links.next[TH]]]
  /\ UNCHANGED <<links, pend, deal, sem, owner, pender, due>>

Advance == [disp EXCEPT !.at = "entry", !.tsl = disp.temp,
                        !.temp = links.next[disp.temp]]

DispatchSkip ==
  /\ disp.at = "entry" /\ disp.tsl # TH
  /\ ~IsPended(disp.tsl)
  /\ disp' = Advance
  /\ UNCHANGED <<links, pend, deal, sem, mutex, owner, pender, due>>

DispatchPended ==
  /\ disp.at = "entry" /\ disp.tsl # TH
  /\ IsPended(disp.tsl)
  /\ disp' = [disp EXCEPT !.at = "clean", !.seen = pend[disp.tsl]]
  /\ UNCHANGED <<links, pend, deal, sem, mutex, owner, pender, due>>

(* bscl_tasklet_clean_pend stores what it loaded; then the routine runs,   *)
(* and sees everything that was pended before it begins.                   *)
DispatchClean ==
  /\ disp.at = "clean"
  /\ deal' = [deal EXCEPT ![disp.tsl] = disp.seen]
  /\ disp' = [disp EXCEPT !.at = "run"]
  /\ UNCHANGED <<links, pend, sem, mutex, owner, pender, due>>

DispatchRun ==
  /\ disp.at = "run"
  /\ due' = [due EXCEPT ![disp.tsl] = FALSE]
  /\ disp' = Advance
  /\ UNCHANGED <<links, pend, deal, sem, mutex, owner, pender>>

DispatchUnlock ==
  /\ disp.at = "entry" /\ disp.tsl = TH
  /\ mutex' = NONE
  /\ disp' = [disp EXCEPT !.at = "wait", !.tsl = NONE, !.temp = NONE, !.seen = 0]
  /\ UNCHANGED <<links, pend, deal, sem, owner, pender, due>>

Dispatch ==
  \/ DispatchWait \/ DispatchLock \/ DispatchSkip \/ DispatchPended
  \/ DispatchClean \/ DispatchRun \/ DispatchUnlock

Pend(p) == PendTest(p) \/ PendLoad(p) \/ PendStore(p) \/ PendPost(p)

Next ==
  \/ \E t \in Tasklets :
       LinkLock(t) \/ LinkDone(t) \/ UnlinkLock(t) \/ UnlinkDone(t)
  \/ \E p \in Penders : Pend(p)
  \/ Dispatch

(* The dispatcher keeps calling dispatch, whose wait has a timeout, and a  *)
(* call that has begun is finished; nobody has to call link or pend.       *)
Fairness ==
  /\ WF_vars(Dispatch)
  /\ \A t \in Tasklets : WF_vars(LinkDone(t)) /\ WF_vars(UnlinkDone(t))
  /\ \A p \in Penders : WF_vars(PendLoad(p)) /\ WF_vars(PendStore(p))
                        /\ WF_vars(PendPost(p))

Spec == Init /\ [][Next]_vars /\ Fairness

-----------------------------------------------------------------------------
TypeOK ==
  /\ links \in [prev : [Nodes -> Nodes], next : [Nodes -> Nodes]]
  /\ pend \in [Tasklets -> 0 .. Modulus - 1]
  /\ deal \in [Tasklets -> 0 .. Modulus - 1]
  /\ sem \in Nat
  /\ mutex \in Tasklets \union {TH, NONE}
  /\ owner \in [Tasklets -> {"new", "linking", "linked", "unlinking", "unlinked"}]
  /\ disp.at \in {"wait", "lock", "entry", "clean", "run"}
  /\ disp.tsl \in Nodes \union {NONE}
  /\ due \in [Tasklets -> BOOLEAN]

(* A pend that happened after the last run began is still visible: pend    *)
(* differs from deal, or the dispatcher is just about to run the tasklet.  *)
NoLostPend ==
  \A t \in Tasklets :
    due[t] => IsPended(t) \/ (disp.at = "run" /\ disp.tsl = t)

IsListed(t) == \E i \in DOMAIN Walk(links, TH) : Walk(links, TH)[i] = t

(* The dispatcher, which loads the next node before it runs a routine and  *)
(* lets any time pass in it, is at the head or at a tasklet that is still  *)
(* on the list, what it saved as the next node is still the next, and the  *)
(* list is a ring closed in both directions: its walk comes to the head.   *)
WalkEnds ==
  /\ WellLinked(links, TH)
  /\ disp.at \in {"entry", "clean", "run"} =>
       /\ disp.tsl = TH \/ IsListed(disp.tsl)
       /\ disp.temp = links.next[disp.tsl]

(* When unlink has returned, the routine is not running and is not about   *)
(* to: the mutex makes unlink wait for the dispatcher's whole walk.        *)
UnlinkedIsQuiet ==
  disp.at \in {"clean", "run"} => owner[disp.tsl] \in {"linked", "unlinking"}

(* A pended tasklet that stays on the dispatcher's list is run, although a *)
(* pend that sees pend # deal posts no semaphore: the timeout of the wait  *)
(* covers it.                                                              *)
PendedIsRun == \A t \in Tasklets : due[t] ~> (~due[t] \/ ~IsListed(t))

(* A tasklet that link has put on the list is on the list the dispatcher   *)
(* walks until it is unlinked ("bscl_list_insert_tail(list, head)",        *)
(* bscl_list_head.h:46).                                                   *)
LinkedIsListed == \A t \in Tasklets : owner[t] = "linked" => IsListed(t)
=============================================================================
