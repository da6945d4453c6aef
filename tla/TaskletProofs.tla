--------------------------- MODULE TaskletProofs ---------------------------
(***************************************************************************)
(* With one pender for each tasklet, and fewer pend calls than pend has    *)
(* values, the dispatcher loses no pend: the read-modify-write of tsl->pend *)
(* and the test of pend against deal race with the dispatcher alone, which *)
(* writes deal and never pend.  For any penders: the list is closed around *)
(* the dispatcher, since it walks with the mutex of link and unlink.       *)
(***************************************************************************)
EXTENDS Tasklet, FiniteSetTheorems, TLAPS

(* The penders do not share a tasklet, and pend does not wrap around.      *)
OnePender ==
  /\ \A p, q \in Penders : Of(p) = Of(q) => p = q
  /\ MaxPends < Modulus

Counts == 0 .. Modulus - 1

Walking == {"entry", "clean", "run"}
Storing == {"store first", "store again"}
Calling == {"first", "again", "store first", "store again"}

PenderType ==
  [at : {"idle", "post", "first", "again", "store first", "store again"},
   seen : Counts, left : 0 .. MaxPends]

(* The pend that a call which has begun still has to store.                *)
Owes(p) == IF pender[p].at \in Calling THEN 1 ELSE 0

TypeInv ==
  /\ links \in [prev : [Nodes -> Nodes], next : [Nodes -> Nodes]]
  /\ pend \in [Tasklets -> Counts]
  /\ deal \in [Tasklets -> Counts]
  /\ sem \in Nat
  /\ mutex \in Tasklets \union {TH, NONE}
  /\ owner \in [Tasklets -> {"new", "linking", "linked", "unlinking", "unlinked"}]
  /\ pender \in [Penders -> PenderType]
  /\ disp \in [at : {"wait", "lock"} \union Walking, tsl : Nodes \union {NONE},
               temp : Nodes \union {NONE}, seen : Counts]
  /\ disp.at \in Walking => disp.tsl \in Nodes /\ disp.temp \in Nodes
  /\ disp.at \in {"clean", "run"} => disp.tsl \in Tasklets
  /\ due \in [Tasklets -> BOOLEAN]

(* What a pender has stored and may still store fits into its budget, and  *)
(* nobody else writes the pend of its tasklet after it was loaded.         *)
PenderInv ==
  \A p \in Penders :
    /\ pend[Of(p)] + pender[p].left + Owes(p) <= MaxPends
    /\ pender[p].at \in Storing => pender[p].seen = pend[Of(p)]

(* deal follows pend, also the value that clean_pend is about to store.    *)
DealInv ==
  /\ \A t \in Tasklets : deal[t] <= pend[t]
  /\ disp.at = "clean" => deal[disp.tsl] <= disp.seen /\ disp.seen <= pend[disp.tsl]

DueInv ==
  \A t \in Tasklets :
    due[t] => deal[t] < pend[t] \/ (disp.at = "run" /\ disp.tsl = t)

IInv == TypeInv /\ PenderInv /\ DealInv /\ DueInv

(* Every insertion and removal leaves pointers to nodes of the list.       *)
LEMMA LinksType ==
  ASSUME NEW l \in [prev : [Nodes -> Nodes], next : [Nodes -> Nodes]],
         NEW x \in Nodes, NEW y \in Nodes
  PROVE  /\ InsertTail(l, x, y) \in [prev : [Nodes -> Nodes], next : [Nodes -> Nodes]]
         /\ Remove(l, x) \in [prev : [Nodes -> Nodes], next : [Nodes -> Nodes]]
<1>1. l.prev \in [Nodes -> Nodes] /\ l.next \in [Nodes -> Nodes]
  OBVIOUS
<1>2. InsertTail(l, x, y) \in [prev : [Nodes -> Nodes], next : [Nodes -> Nodes]]
  BY <1>1 DEF InsertTail, InsertPrev
<1>3. Remove(l, x) \in [prev : [Nodes -> Nodes], next : [Nodes -> Nodes]]
  <2> DEFINE next == [l.next EXCEPT ![l.prev[x]] = l.next[x]]
             prev == [l.prev EXCEPT ![next[x]] = l.prev[x]]
  <2>1. next \in [Nodes -> Nodes]
    BY <1>1
  <2>2. prev \in [Nodes -> Nodes]
    BY <1>1
  <2>3. Remove(l, x) = [next |-> next, prev |-> prev]
    BY DEF Remove
  <2> HIDE DEF next, prev
  <2> QED BY <2>1, <2>2, <2>3
<1> QED BY <1>2, <1>3

(* What the proofs use of the constants. *)
LEMMA NumberFacts ==
  /\ MaxPends \in Nat /\ Modulus \in Nat /\ 0 \in Counts
  /\ Counts \subseteq Nat /\ (0 .. MaxPends) \subseteq Nat
  /\ TH \notin Tasklets /\ NONE \notin Nodes
  /\ \A p \in Penders : Of(p) \in Tasklets
BY TaskletAssumption DEF Counts, Nodes

LEMMA InitIInv == Init => IInv
<1> SUFFICES ASSUME Init PROVE IInv
  OBVIOUS
<1> USE NumberFacts DEF Init
<1>1. TypeInv
  BY DEF TypeInv, PenderType, Alone, Nodes, Counts, Walking
<1>2. PenderInv
  <2> SUFFICES ASSUME NEW p \in Penders
               PROVE  /\ pend[Of(p)] + pender[p].left + Owes(p) <= MaxPends
                      /\ pender[p].at \notin Storing
    BY DEF PenderInv
  <2>1. pend[Of(p)] = 0
    OBVIOUS
  <2>2. pender[p].at = "idle" /\ pender[p].left = MaxPends
    OBVIOUS
  <2>3. Owes(p) = 0 /\ pender[p].at \notin Storing
    BY <2>2 DEF Owes, Calling, Storing
  <2> QED BY <2>1, <2>2, <2>3
<1>3. DealInv
  BY DEF DealInv
<1>4. DueInv
  BY DEF DueInv
<1> QED BY <1>1, <1>2, <1>3, <1>4 DEF IInv

(* The owners and the semaphore touch neither counts nor penders.          *)
LEMMA OwnerStep ==
  ASSUME IInv, NEW t \in Tasklets,
         LinkLock(t) \/ LinkDone(t) \/ UnlinkLock(t) \/ UnlinkDone(t)
  PROVE  IInv'
<1>1. UNCHANGED <<pend, deal, sem, pender, disp, due>>
  BY DEF LinkLock, LinkDone, UnlinkLock, UnlinkDone
<1>2. links' \in [prev : [Nodes -> Nodes], next : [Nodes -> Nodes]]
  <2>1. t \in Nodes /\ TH \in Nodes
    BY DEF Nodes
  <2>2. links \in [prev : [Nodes -> Nodes], next : [Nodes -> Nodes]]
    BY DEF IInv, TypeInv
  <2> QED BY <2>1, <2>2, LinksType
       DEF LinkLock, LinkDone, UnlinkLock, UnlinkDone, LinkInsert
<1>3. /\ mutex' \in Tasklets \union {TH, NONE}
      /\ owner' \in [Tasklets -> {"new", "linking", "linked", "unlinking", "unlinked"}]
  BY DEF IInv, TypeInv, LinkLock, LinkDone, UnlinkLock, UnlinkDone
<1> QED BY <1>1, <1>2, <1>3 DEF IInv, TypeInv, PenderInv, Owes, DealInv, DueInv

(* A pender that goes on within a call changes its own record alone.       *)
LEMMA PenderStep ==
  ASSUME IInv, NEW p \in Penders, NEW r \in PenderType,
         pender' = [pender EXCEPT ![p] = r],
         UNCHANGED <<links, pend, deal, mutex, owner, disp, due>>,
         sem' \in Nat,
         r.left + (IF r.at \in Calling THEN 1 ELSE 0) <= pender[p].left + Owes(p),
         r.at \in Storing => r.seen = pend[Of(p)]
  PROVE  IInv'
<1>1. pender' \in [Penders -> PenderType]
  BY DEF IInv, TypeInv
<1>2. TypeInv'
  BY <1>1 DEF IInv, TypeInv
<1>3. ASSUME NEW q \in Penders
      PROVE  /\ pend'[Of(q)] + pender'[q].left + Owes(q)' <= MaxPends
             /\ pender'[q].at \in Storing => pender'[q].seen = pend'[Of(q)]
  <2>1. CASE q = p
    <3>1. pender'[q] = r /\ pend' = pend
      BY <2>1 DEF IInv, TypeInv
    <3>2. pend[Of(p)] + pender[p].left + Owes(p) <= MaxPends
      BY DEF IInv, PenderInv
    <3>3. /\ pend[Of(p)] \in Nat /\ pender[p].left \in Nat /\ r.left \in Nat
          /\ Owes(p) \in Nat /\ Owes(p)' \in Nat /\ MaxPends \in Nat
      BY NumberFacts DEF IInv, TypeInv, PenderType, Owes
    <3>4. Owes(p)' = IF r.at \in Calling THEN 1 ELSE 0
      BY <2>1, <3>1 DEF Owes
    <3>5. r.left + Owes(p)' <= pender[p].left + Owes(p)
      BY <3>4
    <3> QED BY <2>1, <3>1, <3>2, <3>3, <3>5
  <2>2. CASE q # p
    <3>1. pender'[q] = pender[q] /\ pend' = pend
      BY <2>2 DEF IInv, TypeInv
    <3> QED BY <3>1 DEF IInv, PenderInv, Owes
  <2> QED BY <2>1, <2>2
<1> QED BY <1>2, <1>3 DEF IInv, PenderInv, DealInv, DueInv

(* A pend: its pender is the only one that writes pend[Of(p)].             *)
LEMMA PendStep ==
  ASSUME IInv, OnePender, NEW p \in Penders, Pend(p)
  PROVE  IInv'
<1> USE NumberFacts
<1>1. /\ UNCHANGED <<links, deal, mutex, owner, disp>>
      /\ Of(p) \in Tasklets
  BY DEF Pend, PendTest, PendLoad, PendStore, PendPost
<1>2. \A q \in Penders : /\ Of(q) \in Tasklets /\ pend[Of(q)] \in Counts
                         /\ pender[q] \in PenderType
                         /\ pender[q].left \in 0 .. MaxPends
                         /\ pender[q].left \in Nat
  BY DEF IInv, TypeInv, PenderType
<1>3. CASE PendTest(p)
  <2> DEFINE at == IF pend[Of(p)] = deal[Of(p)] THEN "first" ELSE "again"
             r == [pender[p] EXCEPT !.at = at, !.left = @ - 1]
  <2>1. /\ pender' = [pender EXCEPT ![p] = r]
        /\ UNCHANGED <<pend, sem, due>>
    BY <1>2, <1>3 DEF PendTest, PenderType, IInv, TypeInv
  <2>2. /\ pender[p].at = "idle" /\ pender[p].left > 0
        /\ pender[p].left - 1 \in 0 .. MaxPends
    BY <1>2, <1>3 DEF PendTest
  <2>3. r \in PenderType /\ r.left = pender[p].left - 1 /\ r.at \in {"first", "again"}
    BY <1>2, <2>2 DEF PenderType
  <2> HIDE DEF r
  <2>4. (IF r.at \in Calling THEN 1 ELSE 0) = 1 /\ Owes(p) = 0 /\ r.at \notin Storing
    BY <2>2, <2>3 DEF Calling, Storing, Owes
  <2>5. r.left + (IF r.at \in Calling THEN 1 ELSE 0) <= pender[p].left + Owes(p)
    <3>1. pender[p].left \in Nat
      BY <1>2
    <3> QED BY <3>1, <2>3, <2>4
  <2> QED BY <1>1, <2>1, <2>3, <2>4, <2>5, PenderStep DEF IInv, TypeInv
<1>4. CASE PendLoad(p)
  <2> DEFINE at == IF pender[p].at = "first" THEN "store first" ELSE "store again"
             r == [pender[p] EXCEPT !.seen = pend[Of(p)], !.at = at]
  <2>1. /\ pender' = [pender EXCEPT ![p] = r]
        /\ pender[p].at \in {"first", "again"}
        /\ UNCHANGED <<pend, sem, due>>
    BY <1>2, <1>4 DEF PendLoad
  <2>2. /\ r \in PenderType /\ r.left = pender[p].left /\ r.seen = pend[Of(p)]
        /\ r.at \in {"store first", "store again"}
    BY <1>2, <2>1 DEF PenderType
  <2> HIDE DEF r
  <2>3. (IF r.at \in Calling THEN 1 ELSE 0) = 1 /\ Owes(p) = 1
    BY <2>1, <2>2 DEF Calling, Owes
  <2>4. r.left + (IF r.at \in Calling THEN 1 ELSE 0) <= pender[p].left + Owes(p)
    <3>1. pender[p].left \in Nat /\ r.left = pender[p].left
      BY <1>2, <2>2
    <3> DEFINE owed == IF r.at \in Calling THEN 1 ELSE 0
    <3>2. owed = 1 /\ Owes(p) = 1
      BY <2>3
    <3> HIDE DEF owed
    <3>3. r.left + owed <= pender[p].left + Owes(p)
      BY <3>1, <3>2
    <3> QED BY <3>3 DEF owed
  <2> QED BY <1>1, <2>1, <2>2, <2>4, PenderStep DEF IInv, TypeInv
<1>5. CASE PendStore(p)
  <2> DEFINE t == Of(p)
             at == IF pender[p].at = "store first" THEN "post" ELSE "idle"
             r == [pender[p] EXCEPT !.at = at]
  <2>1. /\ pender[p].at \in Storing
        /\ pender[p].seen = pend[t] /\ Owes(p) = 1
        /\ pend[t] + pender[p].left + 1 <= MaxPends
    <3>1. pender[p].at \in Storing /\ pender[p].at \in Calling
      BY <1>5 DEF PendStore, Storing, Calling
    <3> QED BY <3>1 DEF IInv, PenderInv, Owes
  <2>2. Inc(pend[t]) = pend[t] + 1 /\ pend[t] + 1 \in Counts
    <3>1. pend[t] \in Nat /\ pend[t] + 1 \in Nat /\ pend[t] + 1 < Modulus
      BY <1>2, <2>1 DEF OnePender, Counts
    <3> QED BY <3>1 DEF Inc, Counts
  <2>3. /\ pend' = [pend EXCEPT ![t] = pend[t] + 1]
        /\ due' = [due EXCEPT ![t] = TRUE]
        /\ pender' = [pender EXCEPT ![p] = r]
        /\ UNCHANGED sem
    BY <1>5, <2>1, <2>2 DEF PendStore
  <2>4. /\ r \in PenderType /\ r.left = pender[p].left
        /\ r.at \in {"post", "idle"}
    BY <1>2 DEF PenderType
  <2> HIDE DEF r
  <2>5. TypeInv'
    <3>1. /\ pend' \in [Tasklets -> Counts] /\ due' \in [Tasklets -> BOOLEAN]
          /\ pender' \in [Penders -> PenderType]
      BY <1>1, <2>2, <2>3, <2>4 DEF IInv, TypeInv
    <3> QED BY <1>1, <2>3, <3>1 DEF IInv, TypeInv
  <2>6. ASSUME NEW u \in Tasklets
        PROVE  /\ pend'[u] = IF u = t THEN pend[t] + 1 ELSE pend[u]
               /\ due'[u] = IF u = t THEN TRUE ELSE due[u]
               /\ pend[u] \in Nat /\ deal[u] \in Nat /\ deal[u] <= pend[u]
               /\ pend'[u] \in Nat /\ pend[u] <= pend'[u]
               /\ u = t => pend[u] < pend'[u]
    <3>1. /\ pend'[u] = IF u = t THEN pend[t] + 1 ELSE pend[u]
          /\ due'[u] = IF u = t THEN TRUE ELSE due[u]
          /\ pend[u] \in Nat /\ deal[u] \in Nat /\ deal[u] <= pend[u]
      BY <2>3 DEF IInv, TypeInv, DealInv
    <3>2. CASE u = t
      <4>1. pend'[u] = pend[u] + 1 /\ pend[u] \in Nat
        BY <3>1, <3>2
      <4>2. pend'[u] \in Nat /\ pend[u] < pend'[u] /\ pend[u] <= pend'[u]
        BY <4>1
      <4> QED BY <3>1, <4>2
    <3>3. CASE u # t
      <4>1. pend'[u] = pend[u] /\ pend[u] \in Nat
        BY <3>1, <3>3
      <4>2. pend'[u] \in Nat /\ pend[u] <= pend'[u]
        BY <4>1
      <4> QED BY <3>1, <3>3, <4>2
    <3> QED BY <3>2, <3>3
  <2>7. PenderInv'
    <3> SUFFICES ASSUME NEW q \in Penders
                 PROVE  /\ pend'[Of(q)] + pender'[q].left + Owes(q)' <= MaxPends
                        /\ pender'[q].at \in Storing => pender'[q].seen = pend'[Of(q)]
      BY DEF PenderInv
    <3>1. CASE q = p
      <4>1. pender'[q] = r
        BY <2>3, <3>1 DEF IInv, TypeInv
      <4>2. Owes(q)' = 0 /\ r.at \notin Storing
        BY <2>4, <4>1 DEF Owes, Calling, Storing
      <4>3. pend'[Of(q)] = pend[t] + 1
        BY <1>2, <2>6, <3>1
      <4>4. pend[t] \in Nat /\ pender[p].left \in Nat
        BY <1>2 DEF Counts
      <4> HIDE DEF t
      <4> QED BY <2>1, <2>4, <4>1, <4>2, <4>3, <4>4
    <3>2. CASE q # p
      <4>1. Of(q) # t
        BY <3>2 DEF OnePender
      <4>2. pend'[Of(q)] = pend[Of(q)] /\ pender'[q] = pender[q]
        BY <1>2, <2>3, <2>6, <3>2, <4>1 DEF IInv, TypeInv
      <4> QED BY <4>2 DEF IInv, PenderInv, Owes
    <3> QED BY <3>1, <3>2
  <2>8. DealInv'
    <3>1. ASSUME NEW u \in Tasklets PROVE deal[u] <= pend'[u]
      <4>1. /\ deal[u] \in Nat /\ pend[u] \in Nat /\ pend'[u] \in Nat
            /\ deal[u] <= pend[u] /\ pend[u] <= pend'[u]
        BY <2>6
      <4> QED BY <4>1
    <3>2. ASSUME disp.at = "clean"
          PROVE  disp.seen <= pend'[disp.tsl]
      <4>1. disp.tsl \in Tasklets /\ disp.seen \in Nat
        BY <3>2 DEF IInv, TypeInv, Counts
      <4>2. disp.seen <= pend[disp.tsl]
        BY <3>2 DEF IInv, DealInv
      <4>3. /\ pend[disp.tsl] \in Nat /\ pend'[disp.tsl] \in Nat
            /\ pend[disp.tsl] <= pend'[disp.tsl]
        BY <2>6, <4>1
      <4> QED BY <4>1, <4>2, <4>3
    <3> QED BY <1>1, <3>1, <3>2 DEF IInv, DealInv
  <2>9. DueInv'
    <3>1. ASSUME NEW u \in Tasklets, due'[u]
          PROVE  deal[u] < pend'[u] \/ (disp.at = "run" /\ disp.tsl = u)
      <4>1. CASE u = t
        <5>1. /\ deal[u] \in Nat /\ pend[u] \in Nat /\ pend'[u] \in Nat
              /\ deal[u] <= pend[u] /\ pend[u] < pend'[u]
          BY <2>6, <4>1
        <5> QED BY <5>1
      <4>2. CASE u # t
        BY <2>6, <3>1, <4>2 DEF IInv, DueInv
      <4> QED BY <4>1, <4>2
    <3> QED BY <1>1, <3>1 DEF DueInv
  <2> QED BY <2>5, <2>7, <2>8, <2>9 DEF IInv
<1>6. CASE PendPost(p)
  <2> DEFINE r == [pender[p] EXCEPT !.at = "idle"]
  <2>1. /\ pender' = [pender EXCEPT ![p] = r]
        /\ UNCHANGED <<pend, due>> /\ sem' \in Nat
    BY <1>2, <1>6 DEF PendPost, IInv, TypeInv
  <2>2. r \in PenderType /\ r.left = pender[p].left /\ r.at = "idle"
    BY <1>2 DEF PenderType
  <2> HIDE DEF r
  <2>3. /\ (IF r.at \in Calling THEN 1 ELSE 0) = 0 /\ Owes(p) \in Nat
        /\ r.at \notin Storing
    BY <2>2 DEF Calling, Storing, Owes
  <2>4. r.left + (IF r.at \in Calling THEN 1 ELSE 0) <= pender[p].left + Owes(p)
    <3>1. pender[p].left \in Nat
      BY <1>2
    <3> QED BY <3>1, <2>2, <2>3
  <2> QED BY <1>1, <2>1, <2>2, <2>3, <2>4, PenderStep
<1> QED BY <1>3, <1>4, <1>5, <1>6 DEF Pend

(* The dispatcher: what it stores in deal was pend when it read it.        *)
LEMMA DispatchStep ==
  ASSUME IInv, Dispatch
  PROVE  IInv'
<1> USE NumberFacts
<1>1. /\ UNCHANGED <<links, pend, owner, pender>>
      /\ PenderInv'
  BY DEF Dispatch, DispatchWait, DispatchLock, DispatchSkip, DispatchPended,
         DispatchClean, DispatchRun, DispatchUnlock, IInv, PenderInv, Owes
<1>2. \A x \in Nodes : links.next[x] \in Nodes
  BY DEF IInv, TypeInv
<1>3. TH \in Nodes /\ Nodes \ {TH} \subseteq Tasklets
  BY DEF Nodes
<1>4. CASE DispatchWait
  BY <1>1, <1>4 DEF DispatchWait, IInv, TypeInv, DealInv, DueInv, Walking
<1>5. CASE DispatchLock
  BY <1>1, <1>2, <1>3, <1>5 DEF DispatchLock, IInv, TypeInv, DealInv, DueInv, Walking
<1>6. CASE DispatchSkip
  BY <1>1, <1>2, <1>3, <1>6
     DEF DispatchSkip, Advance, IInv, TypeInv, DealInv, DueInv, Walking
<1>7. CASE DispatchPended
  <2>1. disp.tsl \in Tasklets /\ pend[disp.tsl] \in Counts
    BY <1>3, <1>7 DEF DispatchPended, IInv, TypeInv, Walking
  <2>2. TypeInv'
    BY <1>1, <1>7, <2>1 DEF DispatchPended, IInv, TypeInv, Walking
  <2>3. DealInv'
    BY <1>1, <1>7, <2>1 DEF DispatchPended, IInv, TypeInv, DealInv, Counts
  <2>4. DueInv'
    BY <1>1, <1>7 DEF DispatchPended, IInv, TypeInv, DueInv
  <2> QED BY <1>1, <2>2, <2>3, <2>4 DEF IInv
<1>8. CASE DispatchClean
  <2>1. disp.tsl \in Tasklets /\ disp.seen \in Counts
    BY <1>8 DEF DispatchClean, IInv, TypeInv
  <2>2. TypeInv'
    BY <1>1, <1>8, <2>1 DEF DispatchClean, IInv, TypeInv, Walking
  <2>3. DealInv'
    BY <1>1, <1>8, <2>1 DEF DispatchClean, IInv, TypeInv, DealInv
  <2>4. DueInv'
    BY <1>1, <1>8, <2>1 DEF DispatchClean, IInv, TypeInv, DueInv
  <2> QED BY <1>1, <2>2, <2>3, <2>4 DEF IInv
<1>9. CASE DispatchRun
  <2>1. disp.tsl \in Tasklets
    BY <1>9 DEF DispatchRun, IInv, TypeInv
  <2>2. TypeInv'
    BY <1>1, <1>2, <1>9, <2>1 DEF DispatchRun, Advance, IInv, TypeInv, Walking
  <2>3. DealInv'
    BY <1>1, <1>9 DEF DispatchRun, Advance, IInv, TypeInv, DealInv
  <2>4. DueInv'
    BY <1>1, <1>9, <2>1 DEF DispatchRun, Advance, IInv, TypeInv, DueInv
  <2> QED BY <1>1, <2>2, <2>3, <2>4 DEF IInv
<1>10. CASE DispatchUnlock
  BY <1>1, <1>10 DEF DispatchUnlock, IInv, TypeInv, DealInv, DueInv, Walking, Counts
<1> QED BY <1>4, <1>5, <1>6, <1>7, <1>8, <1>9, <1>10 DEF Dispatch

LEMMA NextIInv == IInv /\ OnePender /\ [Next]_vars => IInv'
<1> SUFFICES ASSUME IInv, OnePender, [Next]_vars PROVE IInv'
  OBVIOUS
<1>1. CASE Next
  BY <1>1, OwnerStep, PendStep, DispatchStep DEF Next
<1>2. CASE UNCHANGED vars
  BY <1>2 DEF vars, IInv, TypeInv, PenderInv, DealInv, DueInv, Owes
<1> QED BY <1>1, <1>2

LEMMA IInvImplies == IInv => TypeOK /\ NoLostPend
<1> SUFFICES ASSUME IInv PROVE TypeOK /\ NoLostPend
  OBVIOUS
<1>1. TypeOK
  BY DEF IInv, TypeInv, TypeOK, Counts, Walking
<1>2. NoLostPend
  BY DEF IInv, TypeInv, DueInv, NoLostPend, IsPended, Counts
<1> QED BY <1>1, <1>2

(* When each tasklet has one pender and pend does not wrap around, a pend  *)
(* that happened after the last run began stays visible to the dispatcher. *)
THEOREM TaskletNoLostPend == OnePender /\ Spec => []NoLostPend
<1>1. Init => IInv
  BY InitIInv
<1>2. IInv /\ OnePender /\ [Next]_vars => IInv'
  BY NextIInv
<1>3. IInv => NoLostPend
  BY IInvImplies
<1> SUFFICES ASSUME OnePender PROVE Spec => []NoLostPend
  OBVIOUS
<1>4. IInv /\ [Next]_vars => IInv'
  BY <1>2
<1> QED BY <1>1, <1>3, <1>4, PTL DEF Spec

-----------------------------------------------------------------------------
(* Types alone need no assumption on the penders: pend wraps around.       *)
LEMMA TypeNext == TypeInv /\ [Next]_vars => TypeInv'
<1> SUFFICES ASSUME TypeInv, [Next]_vars PROVE TypeInv'
  OBVIOUS
<1> USE NumberFacts
<1>1. /\ TH \in Nodes /\ Nodes \ {TH} \subseteq Tasklets /\ Tasklets \subseteq Nodes
      /\ \A x \in Nodes : links.next[x] \in Nodes
  BY DEF Nodes, TypeInv
<1>2. ASSUME NEW t \in Tasklets,
             LinkLock(t) \/ LinkDone(t) \/ UnlinkLock(t) \/ UnlinkDone(t)
      PROVE  TypeInv'
  <2>1. UNCHANGED <<pend, deal, sem, pender, disp, due>>
    BY <1>2 DEF LinkLock, LinkDone, UnlinkLock, UnlinkDone
  <2>2. links' \in [prev : [Nodes -> Nodes], next : [Nodes -> Nodes]]
    BY <1>1, <1>2, LinksType
       DEF TypeInv, LinkLock, LinkDone, UnlinkLock, UnlinkDone, LinkInsert
  <2>3. /\ mutex' \in Tasklets \union {TH, NONE}
        /\ owner' \in [Tasklets -> {"new", "linking", "linked", "unlinking", "unlinked"}]
    BY <1>2 DEF TypeInv, LinkLock, LinkDone, UnlinkLock, UnlinkDone
  <2> QED BY <2>1, <2>2, <2>3 DEF TypeInv
<1>3. ASSUME NEW p \in Penders, Pend(p)
      PROVE  TypeInv'
  <2>1. /\ UNCHANGED <<links, deal, mutex, owner, disp>>
        /\ Of(p) \in Tasklets
    BY <1>3 DEF Pend, PendTest, PendLoad, PendStore, PendPost
  <2>2. /\ pender[p] \in PenderType /\ pend[Of(p)] \in Counts
        /\ pender[p].seen \in Counts /\ pender[p].left \in 0 .. MaxPends
    BY <2>1 DEF TypeInv, PenderType
  <2>3. Inc(pender[p].seen) \in Counts
    <3>1. pender[p].seen + 1 \in Int /\ Modulus \in Nat \ {0}
      BY <2>2, TaskletAssumption DEF Counts
    <3> QED BY <3>1 DEF Inc, Counts
  <2>4. /\ pend' \in [Tasklets -> Counts] /\ due' \in [Tasklets -> BOOLEAN]
        /\ sem' \in Nat
    <3>1. CASE PendTest(p) \/ PendLoad(p)
      BY <3>1 DEF TypeInv, PendTest, PendLoad
    <3>2. CASE PendStore(p)
      <4>1. UNCHANGED sem
        BY <3>2 DEF PendStore
      <4>2. pend' = [pend EXCEPT ![Of(p)] = Inc(pender[p].seen)]
        BY <3>2 DEF PendStore
      <4>3. due' = [due EXCEPT ![Of(p)] = TRUE]
        BY <3>2 DEF PendStore
      <4> QED BY <2>1, <2>3, <4>1, <4>2, <4>3 DEF TypeInv
    <3>3. CASE PendPost(p)
      BY <3>3 DEF TypeInv, PendPost
    <3> QED BY <1>3, <3>1, <3>2, <3>3 DEF Pend
  <2>5. pender' \in [Penders -> PenderType]
    <3>1. CASE PendTest(p)
      <4>1. pender[p].left - 1 \in 0 .. MaxPends
        BY <2>2, <3>1 DEF PendTest
      <4> QED BY <2>2, <3>1, <4>1 DEF PendTest, TypeInv, PenderType
    <3>2. CASE PendLoad(p)
      BY <2>2, <3>2 DEF PendLoad, TypeInv, PenderType
    <3>3. CASE PendStore(p)
      BY <2>2, <3>3 DEF PendStore, TypeInv, PenderType
    <3>4. CASE PendPost(p)
      BY <2>2, <3>4 DEF PendPost, TypeInv, PenderType
    <3> QED BY <1>3, <3>1, <3>2, <3>3, <3>4 DEF Pend
  <2> QED BY <2>1, <2>4, <2>5 DEF TypeInv
<1>4. ASSUME Dispatch PROVE TypeInv'
  <2>1. CASE DispatchWait
    BY <2>1 DEF DispatchWait, TypeInv, Walking
  <2>2. CASE DispatchLock
    BY <1>1, <2>2 DEF DispatchLock, TypeInv, Walking
  <2>3. CASE DispatchSkip
    BY <1>1, <2>3 DEF DispatchSkip, Advance, TypeInv, Walking
  <2>4. CASE DispatchPended
    BY <1>1, <2>4 DEF DispatchPended, TypeInv, Walking
  <2>5. CASE DispatchClean
    BY <2>5 DEF DispatchClean, TypeInv, Walking
  <2>6. CASE DispatchRun
    BY <1>1, <2>6 DEF DispatchRun, Advance, TypeInv, Walking
  <2>7. CASE DispatchUnlock
    BY <2>7 DEF DispatchUnlock, TypeInv, Walking, Counts
  <2> QED BY <1>4, <2>1, <2>2, <2>3, <2>4, <2>5, <2>6, <2>7 DEF Dispatch
<1>5. CASE UNCHANGED vars
  BY <1>5 DEF vars, TypeInv
<1> QED BY <1>2, <1>3, <1>4, <1>5 DEF Next

-----------------------------------------------------------------------------
(* The list and the mutex.  link inserts the head into the tasklet's list, *)
(* so the head points to one tasklet at most, the one that was linked last *)
(* if it or another was not unlinked since; a tasklet that was ever linked *)
(* points to the head for good.                                            *)
OnList == {"linked", "unlinking"}

ListInv ==
  /\ links.prev[TH] = links.next[TH]
  /\ links.next[TH] # TH => owner[links.next[TH]] \in OnList
  /\ \A t \in Tasklets :
       LET x == IF owner[t] \in {"new", "linking"} THEN t ELSE TH IN
       links.next[t] = x /\ links.prev[t] = x

(* Who has the mutex is in its locked part, and nobody else.               *)
MutexInv ==
  /\ mutex = TH <=> disp.at \in Walking
  /\ \A t \in Tasklets : mutex = t <=> owner[t] \in {"linking", "unlinking"}

(* The dispatcher's walk stays at the head and what it points to.          *)
WalkInv ==
  disp.at \in Walking =>
    /\ disp.tsl \in {TH, links.next[TH]} /\ disp.temp = links.next[disp.tsl]
    /\ disp.at # "entry" => disp.tsl # TH

ListIInv == TypeInv /\ ListInv /\ MutexInv /\ WalkInv

(* Link and unlink under the mutex.                                        *)
LEMMA LinkedPointers ==
  ASSUME ListIInv, NEW t \in Tasklets, owner[t] \in {"new", "linking"},
         NEW l, l = LinkInsert(t)
  PROVE  /\ l.next[TH] = t /\ l.prev[TH] = t /\ l.next[t] = TH /\ l.prev[t] = TH
         /\ \A u \in Tasklets \ {t} : l.next[u] = links.next[u] /\ l.prev[u] = links.prev[u]
<1>1. links.next \in [Nodes -> Nodes] /\ links.prev \in [Nodes -> Nodes]
  BY DEF ListIInv, TypeInv
<1>2. links.prev[t] = t /\ links.next[t] = t
  BY DEF ListIInv, ListInv
<1>3. t # TH /\ t \in Nodes /\ TH \in Nodes /\ Tasklets \subseteq Nodes
  BY NumberFacts DEF Nodes
<1>4. l = [prev |-> [links.prev EXCEPT ![TH] = t, ![t] = TH],
           next |-> [links.next EXCEPT ![TH] = t, ![t] = TH]]
  BY <1>2, <1>3 DEF LinkInsert, InsertTail, InsertPrev
<1> QED BY <1>1, <1>3, <1>4, NumberFacts

LEMMA UnlinkedPointers ==
  ASSUME ListIInv, NEW t \in Tasklets, owner[t] \in {"linked", "unlinking"},
         NEW l, l = Remove(links, t)
  PROVE  /\ l.next[TH] = TH /\ l.prev[TH] = TH
         /\ \A u \in Tasklets : l.next[u] = links.next[u] /\ l.prev[u] = links.prev[u]
<1>1. links.next \in [Nodes -> Nodes] /\ links.prev \in [Nodes -> Nodes]
  BY DEF ListIInv, TypeInv
<1>2. links.prev[t] = TH /\ links.next[t] = TH
  BY DEF ListIInv, ListInv
<1>3. t # TH /\ t \in Nodes /\ TH \in Nodes /\ Tasklets \subseteq Nodes
  BY NumberFacts DEF Nodes
<1>4. /\ l.next = [links.next EXCEPT ![TH] = TH]
      /\ l.prev = [links.prev EXCEPT ![TH] = TH]
  BY <1>1, <1>2, <1>3 DEF Remove
<1> QED BY <1>1, <1>3, <1>4, NumberFacts

LEMMA ListIInvInit == Init => ListIInv
<1> SUFFICES ASSUME Init PROVE ListIInv
  OBVIOUS
<1>1. TypeInv
  BY InitIInv DEF IInv
<1>2. ListInv
  BY NumberFacts DEF Init, Alone, Nodes, ListInv
<1>3. MutexInv /\ WalkInv
  BY NumberFacts DEF Init, MutexInv, WalkInv, Walking, Nodes
<1> QED BY <1>1, <1>2, <1>3 DEF ListIInv

LEMMA ListNext == ListIInv /\ [Next]_vars => ListIInv'
<1> SUFFICES ASSUME ListIInv, [Next]_vars PROVE ListIInv'
  OBVIOUS
<1>1. TypeInv'
  BY TypeNext DEF ListIInv
<1>2. /\ TH \notin Tasklets /\ NONE \notin Tasklets /\ NONE # TH
      /\ owner \in [Tasklets -> {"new", "linking", "linked", "unlinking", "unlinked"}]
      /\ Nodes = Tasklets \union {TH} /\ links.next[TH] \in Nodes
  BY NumberFacts DEF ListIInv, TypeInv, Nodes
<1>3. ASSUME NEW t \in Tasklets, LinkLock(t) \/ UnlinkLock(t)
      PROVE  ListIInv'
  <2>1. /\ UNCHANGED <<links, disp>> /\ mutex = NONE /\ mutex' = t
        /\ \A u \in Tasklets \ {t} : owner'[u] = owner[u]
        /\ \/ owner[t] = "new" /\ owner'[t] = "linking"
           \/ owner[t] = "linked" /\ owner'[t] = "unlinking"
    BY <1>2, <1>3 DEF LinkLock, UnlinkLock
  <2>2. ListInv'
    <3>1. links.next[TH] # TH => owner'[links.next[TH]] \in OnList
      BY <1>2, <2>1 DEF ListIInv, ListInv, OnList
    <3>2. ASSUME NEW u \in Tasklets
          PROVE  owner'[u] \in {"new", "linking"} <=> owner[u] \in {"new", "linking"}
      BY <2>1
    <3> QED BY <2>1, <3>1, <3>2 DEF ListIInv, ListInv
  <2>3. MutexInv'
    BY <1>2, <2>1 DEF ListIInv, MutexInv
  <2> QED BY <1>1, <2>1, <2>2, <2>3 DEF ListIInv, WalkInv
<1>4. ASSUME NEW t \in Tasklets, LinkDone(t)
      PROVE  ListIInv'
  <2>1. /\ UNCHANGED disp /\ owner[t] = "linking" /\ owner'[t] = "linked"
        /\ \A u \in Tasklets \ {t} : owner'[u] = owner[u]
        /\ mutex' = NONE /\ links' = LinkInsert(t)
    BY <1>2, <1>4 DEF LinkDone
  <2>2. mutex = t /\ disp.at \notin Walking
    BY <1>2, <2>1 DEF ListIInv, MutexInv
  <2>3. ListInv'
    BY <1>2, <2>1, LinkedPointers DEF ListIInv, ListInv, OnList
  <2>4. MutexInv'
    BY <1>2, <2>1, <2>2 DEF ListIInv, MutexInv
  <2> QED BY <1>1, <2>1, <2>2, <2>3, <2>4 DEF ListIInv, WalkInv
<1>5. ASSUME NEW t \in Tasklets, UnlinkDone(t)
      PROVE  ListIInv'
  <2>1. /\ UNCHANGED disp /\ owner[t] = "unlinking" /\ owner'[t] = "unlinked"
        /\ \A u \in Tasklets \ {t} : owner'[u] = owner[u]
        /\ mutex' = NONE /\ links' = Remove(links, t)
    BY <1>2, <1>5 DEF UnlinkDone
  <2>2. mutex = t /\ disp.at \notin Walking
    BY <1>2, <2>1 DEF ListIInv, MutexInv
  <2>3. ListInv'
    BY <1>2, <2>1, UnlinkedPointers DEF ListIInv, ListInv
  <2>4. MutexInv'
    BY <1>2, <2>1, <2>2 DEF ListIInv, MutexInv
  <2> QED BY <1>1, <2>1, <2>2, <2>3, <2>4 DEF ListIInv, WalkInv
<1>6. ASSUME NEW p \in Penders, Pend(p)
      PROVE  ListIInv'
  <2>1. UNCHANGED <<links, mutex, owner, disp>>
    BY <1>6 DEF Pend, PendTest, PendLoad, PendStore, PendPost
  <2> QED BY <1>1, <2>1 DEF ListIInv, ListInv, MutexInv, WalkInv
<1>7. ASSUME Dispatch PROVE ListIInv'
  <2>1. UNCHANGED <<links, owner>> /\ ListInv'
    BY <1>7 DEF Dispatch, DispatchWait, DispatchLock, DispatchSkip, DispatchPended,
                DispatchClean, DispatchRun, DispatchUnlock, ListIInv, ListInv
  <2>2. /\ disp \in [at : {"wait", "lock"} \union Walking, tsl : Nodes \union {NONE},
                     temp : Nodes \union {NONE}, seen : Counts]
    BY DEF ListIInv, TypeInv
  <2>3. \A x \in {TH, links.next[TH]} : links.next[x] \in {TH, links.next[TH]}
    BY <1>2 DEF ListIInv, ListInv, OnList
  <2>4. CASE DispatchWait
    BY <1>1, <2>1, <2>2, <2>4 DEF DispatchWait, ListIInv, MutexInv, WalkInv, Walking
  <2>5. CASE DispatchLock
    BY <1>1, <1>2, <2>1, <2>2, <2>5
       DEF DispatchLock, ListIInv, MutexInv, WalkInv, Walking
  <2>6. CASE DispatchSkip \/ DispatchRun
    <3>1. /\ disp.at \in Walking /\ disp'.at = "entry" /\ mutex' = mutex
          /\ disp'.tsl = links.next[disp.tsl] /\ disp'.temp = links.next[disp'.tsl]
      BY <2>2, <2>6 DEF DispatchSkip, DispatchRun, Advance, ListIInv, WalkInv, Walking
    <3>2. disp'.tsl \in {TH, links.next[TH]}
      BY <2>3, <3>1 DEF ListIInv, WalkInv
    <3>3. MutexInv'
      BY <2>1, <3>1 DEF ListIInv, MutexInv, Walking
    <3> QED BY <1>1, <2>1, <3>1, <3>2, <3>3 DEF ListIInv, WalkInv
  <2>7. CASE DispatchPended \/ DispatchClean
    BY <1>1, <2>1, <2>2, <2>7
       DEF DispatchPended, DispatchClean, ListIInv, MutexInv, WalkInv, Walking
  <2>8. CASE DispatchUnlock
    BY <1>1, <1>2, <2>1, <2>2, <2>8
       DEF DispatchUnlock, ListIInv, MutexInv, WalkInv, Walking
  <2> QED BY <1>7, <2>4, <2>5, <2>6, <2>7, <2>8 DEF Dispatch
<1>8. CASE UNCHANGED vars
  BY <1>8 DEF vars, ListIInv, TypeInv, ListInv, MutexInv, WalkInv
<1> QED BY <1>3, <1>4, <1>5, <1>6, <1>7, <1>8 DEF Next

(* A walk from a head that is alone, or that points to one node which      *)
(* points back.  The recursive function of Walk has a value: the nodes     *)
(* alternate.                                                              *)
LEMMA ShortWalk ==
  ASSUME NEW l, NEW head, NEW h, l.next[head] = h, h # head => l.next[h] = head,
         Cardinality(DOMAIN l.next) \in Nat \ {0, 1}
  PROVE  {Walk(l, head)[i] : i \in DOMAIN Walk(l, head)} = {h} \ {head}
<1> DEFINE n == Cardinality(DOMAIN l.next)
           Step(g) == [i \in 1 .. n |-> IF i = 1 THEN l.next[head] ELSE l.next[g[i - 1]]]
           at == CHOOSE g : g = Step(g)
           alternate == [i \in 1 .. n |-> IF i % 2 = 1 THEN h ELSE head]
           ends == {i \in 1 .. n : at[i] = head}
           first == CHOOSE i \in ends : \A j \in ends : i <= j
           len == IF ends = {} THEN n ELSE first - 1
<1>1. Walk(l, head) = [i \in 1 .. len |-> at[i]]
  BY DEF Walk
<1>2. n \in Nat /\ n >= 2
  OBVIOUS
<1>3. alternate = Step(alternate)
  <2> HIDE DEF n
  <2>1. ASSUME NEW i \in 1 .. n
        PROVE  (IF i % 2 = 1 THEN h ELSE head)
                 = IF i = 1 THEN l.next[head] ELSE l.next[alternate[i - 1]]
    <3>1. CASE i = 1
      BY <3>1
    <3>2. CASE i # 1 /\ i % 2 = 1
      <4>1. i - 1 \in 1 .. n /\ (i - 1) % 2 = 0
        BY <1>2, <3>2
      <4>2. alternate[i - 1] = head
        BY <4>1
      <4> QED BY <3>2, <4>2
    <3>3. CASE i # 1 /\ i % 2 # 1
      <4>1. i - 1 \in 1 .. n /\ (i - 1) % 2 = 1
        BY <1>2, <3>3
      <4>2. alternate[i - 1] = h
        BY <4>1
      <4> QED BY <3>3, <4>2
    <3> QED BY <3>1, <3>2, <3>3
  <2> QED BY <2>1
<1>4. at = Step(at)
  BY <1>3
<1> HIDE DEF at, n
<1>5. at[1] = h /\ at[2] = l.next[h]
  BY <1>2, <1>4
<1>6. CASE h = head
  <2>1. 1 \in ends /\ \A j \in ends : 1 <= j /\ j \in Nat
    BY <1>2, <1>5, <1>6
  <2>2. first = 1
    BY <2>1
  <2>3. len = 0
    BY <2>1, <2>2
  <2> HIDE DEF len
  <2> QED BY <1>1, <1>6, <2>3
<1>7. CASE h # head
  <2>1. 2 \in ends /\ 1 \notin ends /\ ends \subseteq Nat \ {0}
    BY <1>2, <1>5, <1>7
  <2>2. \A j \in ends : 2 <= j
    <3> HIDE DEF ends
    <3> SUFFICES ASSUME NEW j \in ends PROVE 2 <= j
      OBVIOUS
    <3>1. j \in Nat /\ j # 0 /\ j # 1
      BY <2>1
    <3> QED BY <3>1
  <2>3. first = 2
    <3>1. first \in ends
      <4> HIDE DEF ends
      <4> QED BY <2>1, <2>2
    <3>2. first <= 2
      <4> HIDE DEF ends
      <4> QED BY <2>1, <2>2
    <3> HIDE DEF first, ends
    <3>3. first \in Nat /\ 2 <= first
      BY <2>1, <2>2, <3>1
    <3> QED BY <3>2, <3>3
  <2>4. len = 1
    BY <2>1, <2>3
  <2> HIDE DEF len
  <2>5. Walk(l, head) = [i \in 1 .. 1 |-> h]
    BY <1>1, <1>5, <2>4
  <2> QED BY <1>7, <2>5
<1> QED BY <1>6, <1>7

(* What the runs check of the list follows from the invariant.             *)
LEMMA ListIInvImplies == ListIInv => TypeOK /\ WalkEnds /\ UnlinkedIsQuiet
<1> SUFFICES ASSUME ListIInv PROVE TypeOK /\ WalkEnds /\ UnlinkedIsQuiet
  OBVIOUS
<1>1. TypeOK
  BY DEF ListIInv, TypeInv, TypeOK, Counts, Walking
<1>2. UnlinkedIsQuiet
  BY DEF ListIInv, ListInv, WalkInv, UnlinkedIsQuiet, OnList, Walking
<1>3. WalkEnds
  <2> DEFINE h == links.next[TH]
             ring == {TH} \union {Walk(links, TH)[i] : i \in DOMAIN Walk(links, TH)}
  <2>1. h # TH => h \in Tasklets /\ links.next[h] = TH /\ links.prev[h] = TH
    BY DEF ListIInv, ListInv, TypeInv, Nodes, OnList
  <2>2. Cardinality(DOMAIN links.next) \in Nat \ {0, 1}
    <3>1. /\ IsFiniteSet(Tasklets) /\ Tasklets # {} /\ TH \notin Tasklets
          /\ Cardinality(Tasklets) \in Nat /\ Cardinality(Tasklets) # 0
      BY TaskletAssumption, FS_CardinalityType, FS_EmptySet
    <3>2. Cardinality(Nodes) = Cardinality(Tasklets) + 1
      BY <3>1, FS_AddElement DEF Nodes
    <3>3. DOMAIN links.next = Nodes
      BY DEF ListIInv, TypeInv
    <3> QED BY <3>1, <3>2, <3>3
  <2>3. ring = {TH, h}
    <3>1. {Walk(links, TH)[i] : i \in DOMAIN Walk(links, TH)} = {h} \ {TH}
      BY <2>1, <2>2, ShortWalk
    <3> QED BY <3>1
  <2>4. \A x \in {TH, h} : links.next[x] \in {TH, h} /\ links.prev[links.next[x]] = x
    BY <2>1 DEF ListIInv, ListInv
  <2>5. WellLinked(links, TH)
    BY <2>3, <2>4 DEF WellLinked
  <2>6. ASSUME disp.at \in Walking
        PROVE  (disp.tsl = TH \/ IsListed(disp.tsl)) /\ disp.temp = links.next[disp.tsl]
    <3>1. disp.tsl \in {TH, h} /\ disp.temp = links.next[disp.tsl]
      BY <2>6 DEF ListIInv, WalkInv
    <3>2. disp.tsl \in ring
      BY <2>3, <3>1
    <3> QED BY <3>1, <3>2 DEF IsListed
  <2> QED BY <2>5, <2>6 DEF WalkEnds, Walking
<1> QED BY <1>1, <1>2, <1>3

LEMMA SpecListIInv == Spec => []ListIInv
BY ListIInvInit, ListNext, PTL DEF Spec

(* The tasklets keep their types, however many penders share one and       *)
(* however often pend goes around.                                         *)
THEOREM TaskletTypeOK == Spec => []TypeOK
<1>1. ListIInv => TypeOK
  BY ListIInvImplies
<1> QED BY <1>1, SpecListIInv, PTL

(* Whatever is linked, unlinked and pended, in whatever order, the         *)
(* dispatcher of bscl_tasklet_dispatch is at a node of its list, holds the *)
(* node after it, and the list is a closed ring.                           *)
THEOREM TaskletWalkEnds == Spec => []WalkEnds
<1>1. ListIInv => WalkEnds
  BY ListIInvImplies
<1> QED BY <1>1, SpecListIInv, PTL

(* The routine of a tasklet runs between its link and the end of its       *)
(* unlink only: an unlink that has returned is never followed by a run.    *)
THEOREM TaskletUnlinkedIsQuiet == Spec => []UnlinkedIsQuiet
<1>1. ListIInv => UnlinkedIsQuiet
  BY ListIInvImplies
<1> QED BY <1>1, SpecListIInv, PTL
=============================================================================
