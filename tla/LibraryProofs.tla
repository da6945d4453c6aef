--------------------------- MODULE LibraryProofs ---------------------------
(***************************************************************************)
(* What the other parts of Library keep, for all values of the constants:  *)
(* an inductive invariant for each part, which is of interest only in      *)
(* behaviours that use this part.                                          *)
(***************************************************************************)
EXTENDS Library, ModuloFacts, FiniteSetTheorems, Places

-----------------------------------------------------------------------------
(* The serial ports. *)
Fds == Serial!Fds

SerialType ==
  /\ object \in [port : [Fds -> Handles \union {NULL}], open : SUBSET Handles]
  /\ ghost \in [port : [Fds -> Handles \union {NULL}], lost : SUBSET Handles, clash : BOOLEAN]
  /\ threads \in [Users -> [in : {"nothing", "open", "transfer"}, fd : Fds \union {NULL},
                            event : Handles \union {NULL}]]
  /\ \A u \in Users : threads[u].in = "open" => threads[u].fd \in Fds
  /\ \A u \in Users : threads[u].in = "transfer" <=> threads[u].event # NULL

(* Two opens under way fill slots of their own, which are free. *)
SerialSlots ==
  /\ \A u, v \in Users :
       threads[u].in = "open" /\ threads[v].in = "open" /\ threads[u].fd = threads[v].fd => u = v
  /\ \A u \in Users : threads[u].in = "open" => object.port[threads[u].fd] = NULL
  /\ \A fd \in Fds : ghost.port[fd] # NULL => object.port[fd] = ghost.port[fd]

(* A handle is open because one descriptor, one transfer, or none, has it. *)
SerialHandles ==
  /\ \A fd, e \in Fds : ghost.port[fd] # NULL /\ ghost.port[fd] = ghost.port[e] => fd = e
  /\ \A u, v \in Users : threads[u].event # NULL /\ threads[u].event = threads[v].event => u = v
  /\ \A fd \in Fds, u \in Users : ghost.port[fd] # NULL => ghost.port[fd] # threads[u].event
  /\ \A fd \in Fds : ghost.port[fd] \notin ghost.lost
  /\ \A u \in Users : threads[u].event \notin ghost.lost
  /\ \A h \in Handles : h \in object.open <=>
       \/ \E fd \in Fds : ghost.port[fd] = h
       \/ \E u \in Users : threads[u].event = h
       \/ h \in ghost.lost

SerialInv == SerialType /\ (~ghost.clash => SerialSlots /\ SerialHandles)

LEMMA SerialConstants == NULL \notin Handles /\ MaxOpen \in Nat /\ IsFiniteSet(Handles)
BY LibraryAssumption DEF Serial!SerialAssumption, Serial!IsFiniteSet, IsFiniteSet

LEMMA SerialCardinality == \A S : Serial!Cardinality(S) = Cardinality(S)
BY DEF Serial!Cardinality, Cardinality, Serial!IsFiniteSet, IsFiniteSet

LEMMA SerialStarts == Serial!Init => SerialInv
<1> SUFFICES ASSUME Serial!Init PROVE SerialInv
  OBVIOUS
<1>1. /\ object = [port |-> [fd \in Fds |-> NULL], open |-> {}]
      /\ ghost = [port |-> [fd \in Fds |-> NULL], lost |-> {}, clash |-> FALSE]
      /\ threads = [u \in Users |-> [in |-> "nothing", fd |-> NULL, event |-> NULL]]
  BY DEF Serial!Init, Serial!Idle, Fds
<1>2. SerialType
  BY <1>1 DEF SerialType
<1>3. SerialSlots
  BY <1>1 DEF SerialSlots
<1>4. SerialHandles
  BY <1>1, SerialConstants DEF SerialHandles
<1> QED BY <1>2, <1>3, <1>4 DEF SerialInv

LEMMA SerialOpenBegin ==
  ASSUME SerialInv, NEW u \in Users, Serial!OpenBegin(u)
  PROVE  SerialInv'
<1>1. PICK fd \in Serial!GetFreeFd :
        /\ threads[u] = Serial!Idle
        /\ threads' = [threads EXCEPT ![u].in = "open", ![u].fd = fd]
        /\ ghost' = [ghost EXCEPT !.clash = @ \/ \E v \in Users :
                       threads[v].in = "open" /\ threads[v].fd = fd]
        /\ object' = object
  BY DEF Serial!OpenBegin
<1>2. fd \in Fds /\ object.port[fd] = NULL
  BY <1>1 DEF Serial!GetFreeFd, Fds
<1>3. SerialType
  BY DEF SerialInv
<1>4. /\ threads'[u] = [in |-> "open", fd |-> fd, event |-> NULL]
      /\ \A v \in Users : v # u => threads'[v] = threads[v]
      /\ threads' \in [Users -> [in : {"nothing", "open", "transfer"}, fd : Fds \union {NULL},
                                 event : Handles \union {NULL}]]
      /\ threads[u].in = "nothing" /\ threads[u].event = NULL
  <2>1. threads[u] = [in |-> "nothing", fd |-> NULL, event |-> NULL]
    BY <1>1 DEF Serial!Idle
  <2>2. threads' = [threads EXCEPT ![u] = [in |-> "open", fd |-> fd, event |-> NULL]]
    <3> DEFINE mid == [threads EXCEPT ![u].in = "open"]
    <3>1. threads \in [Users -> [in : {"nothing", "open", "transfer"}, fd : Fds \union {NULL},
                                event : Handles \union {NULL}]]
      BY <1>3 DEF SerialType
    <3>2. threads' = [mid EXCEPT ![u].fd = fd]
      BY <1>1, <3>1
    <3>3. mid[u] = [threads[u] EXCEPT !.in = "open"]
          /\ mid = [threads EXCEPT ![u] = mid[u]]
          /\ DOMAIN mid = Users /\ \A v \in Users : v # u => mid[v] = threads[v]
      BY <3>1
    <3>4. mid[u] = [in |-> "open", fd |-> NULL, event |-> NULL]
      BY <2>1, <3>3
    <3> HIDE DEF mid
    <3>5. threads' = [mid EXCEPT ![u] = [mid[u] EXCEPT !.fd = fd]]
      BY <3>2, <3>3
    <3>6. [mid[u] EXCEPT !.fd = fd] = [in |-> "open", fd |-> fd, event |-> NULL]
      BY <3>4
    <3> QED BY <3>1, <3>3, <3>5, <3>6
  <2> QED BY <1>2, <1>3, <2>1, <2>2 DEF SerialType
<1>5. /\ ghost'.port = ghost.port /\ ghost'.lost = ghost.lost
      /\ ghost'.clash = (ghost.clash \/ \E v \in Users :
                           threads[v].in = "open" /\ threads[v].fd = fd)
      /\ ghost' \in [port : [Fds -> Handles \union {NULL}], lost : SUBSET Handles, clash : BOOLEAN]
  BY <1>1, <1>3 DEF SerialType
<1>6. SerialType'
  BY <1>1, <1>2, <1>3, <1>4, <1>5 DEF SerialType
<1>7. ASSUME ~ghost'.clash PROVE SerialSlots' /\ SerialHandles'
  <2>1. SerialSlots /\ SerialHandles /\ \A v \in Users : threads[v].in = "open" => threads[v].fd # fd
    BY <1>5, <1>7 DEF SerialInv
  <2>2. SerialSlots'
    BY <1>1, <1>2, <1>4, <1>5, <2>1 DEF SerialSlots
  <2>3. \A v \in Users : threads'[v].event = threads[v].event
    BY <1>4
  <2>4. object' = object /\ ghost'.port = ghost.port /\ ghost'.lost = ghost.lost
    BY <1>1, <1>5
  <2>5. SerialHandles'
    BY <2>1, <2>3, <2>4 DEF SerialHandles
  <2> QED BY <2>2, <2>5
<1> QED BY <1>6, <1>7 DEF SerialInv

(* A thread that goes back to nothing. *)
SerialIdled(u) ==
  /\ threads'[u] = [in |-> "nothing", fd |-> NULL, event |-> NULL]
  /\ \A v \in Users : v # u => threads'[v] = threads[v]
  /\ threads' \in [Users -> [in : {"nothing", "open", "transfer"}, fd : Fds \union {NULL},
                             event : Handles \union {NULL}]]

LEMMA SerialBack ==
  ASSUME SerialType, NEW u \in Users, threads' = [threads EXCEPT ![u] = Serial!Idle]
  PROVE  SerialIdled(u)
BY DEF SerialType, Serial!Idle, SerialIdled

LEMMA SerialOpenFails ==
  ASSUME SerialInv, NEW u \in Users, Serial!OpenFails(u)
  PROVE  SerialInv'
<1>1. threads[u].in = "open" /\ threads' = [threads EXCEPT ![u] = Serial!Idle]
      /\ object' = object /\ ghost' = ghost
  BY DEF Serial!OpenFails
<1>2. SerialType /\ threads[u].event = NULL
  BY <1>1 DEF SerialInv, SerialType
<1>b. SerialIdled(u)
  BY <1>1, <1>2, SerialBack
<1>3. SerialType'
  BY <1>1, <1>2, <1>b DEF SerialIdled, SerialType
<1>4. ASSUME SerialSlots, SerialHandles PROVE SerialSlots' /\ SerialHandles'
  <2>1. SerialSlots'
    BY <1>1, <1>2, <1>4, <1>b DEF SerialIdled, SerialSlots
  <2>2. \A v \in Users : threads'[v].event = threads[v].event
    BY <1>1, <1>2, <1>b DEF SerialIdled
  <2>3. SerialHandles'
    BY <1>1, <1>4, <2>2 DEF SerialHandles
  <2> QED BY <2>1, <2>3
<1> QED BY <1>1, <1>3, <1>4 DEF SerialInv

LEMMA SerialOpenLost ==
  ASSUME SerialInv, NEW u \in Users, NEW h \in Handles, Serial!OpenLost(u, h)
  PROVE  SerialInv'
<1>1. /\ threads[u].in = "open" /\ h \notin object.open
      /\ threads' = [threads EXCEPT ![u] = Serial!Idle]
      /\ object' = [object EXCEPT !.open = @ \union {h}]
      /\ ghost' = [ghost EXCEPT !.lost = @ \union {h}]
  BY DEF Serial!OpenLost
<1>2. SerialType /\ threads[u].event = NULL
  BY <1>1 DEF SerialInv, SerialType
<1>b. SerialIdled(u)
  BY <1>1, <1>2, SerialBack
<1>3. /\ object'.port = object.port /\ object'.open = object.open \union {h}
      /\ ghost'.port = ghost.port /\ ghost'.lost = ghost.lost \union {h}
      /\ ghost'.clash = ghost.clash
  BY <1>1, <1>2 DEF SerialType
<1>4. SerialType'
  BY <1>1, <1>2, <1>3, <1>b DEF SerialIdled, SerialType
<1>5. ASSUME SerialSlots, SerialHandles PROVE SerialSlots' /\ SerialHandles'
  <2>1. SerialSlots'
    BY <1>1, <1>2, <1>3, <1>5, <1>b DEF SerialIdled, SerialSlots
  <2>2. \A v \in Users : threads'[v].event = threads[v].event
    BY <1>1, <1>2, <1>b DEF SerialIdled
  <2>3. /\ \A fd \in Fds : ghost.port[fd] # h
        /\ \A v \in Users : threads[v].event # h
    BY <1>1, <1>5 DEF SerialHandles
  <2>4. SerialHandles'
    BY <1>3, <1>5, <2>2, <2>3 DEF SerialHandles
  <2> QED BY <2>1, <2>4
<1> QED BY <1>3, <1>4, <1>5 DEF SerialInv

LEMMA SerialOpenEnd ==
  ASSUME SerialInv, NEW u \in Users, NEW h \in Handles, Serial!OpenEnd(u, h)
  PROVE  SerialInv'
<1> DEFINE f == threads[u].fd
<1>1. /\ threads[u].in = "open" /\ h \notin object.open
      /\ threads' = [threads EXCEPT ![u] = Serial!Idle]
      /\ object' = [port |-> [object.port EXCEPT ![f] = h], open |-> object.open \union {h}]
      /\ ghost' = [ghost EXCEPT !.port[f] = h]
  BY DEF Serial!OpenEnd
<1>2. SerialType /\ threads[u].event = NULL /\ f \in Fds
  BY <1>1 DEF SerialInv, SerialType
<1>b. SerialIdled(u)
  BY <1>1, <1>2, SerialBack
<1>3. /\ object'.port = [object.port EXCEPT ![f] = h] /\ object'.open = object.open \union {h}
      /\ ghost'.port = [ghost.port EXCEPT ![f] = h] /\ ghost'.lost = ghost.lost
      /\ ghost'.clash = ghost.clash
  BY <1>1, <1>2 DEF SerialType
<1>4. /\ object'.port[f] = h /\ \A fd \in Fds : fd # f => object'.port[fd] = object.port[fd]
      /\ ghost'.port[f] = h /\ \A fd \in Fds : fd # f => ghost'.port[fd] = ghost.port[fd]
  <2> HIDE DEF f
  <2> QED BY <1>2, <1>3 DEF SerialType
<1>5. SerialType'
  <2> HIDE DEF f
  <2>1. object'.port \in [Fds -> Handles \union {NULL}] /\ ghost'.port \in [Fds -> Handles \union {NULL}]
    BY <1>2, <1>3 DEF SerialType
  <2>2. object' \in [port : [Fds -> Handles \union {NULL}], open : SUBSET Handles]
    BY <1>1, <1>2, <1>3, <2>1 DEF SerialType
  <2>3. ghost' = [port |-> [ghost.port EXCEPT ![f] = h], lost |-> ghost.lost, clash |-> ghost.clash]
    BY <1>1, <1>2 DEF SerialType
  <2>4. ghost' \in [port : [Fds -> Handles \union {NULL}], lost : SUBSET Handles, clash : BOOLEAN]
    BY <1>2, <1>3, <2>1, <2>3 DEF SerialType
  <2> QED BY <1>1, <1>2, <2>2, <2>4, <1>b DEF SerialIdled, SerialType
<1>6. ASSUME SerialSlots, SerialHandles PROVE SerialSlots' /\ SerialHandles'
  <2>0. \A v \in Users : v # u /\ threads[v].in = "open" => threads[v].fd \in Fds /\ threads[v].fd # f
    BY <1>1, <1>2, <1>6 DEF SerialSlots, SerialType
  <2> HIDE DEF f
  <2>1. SerialSlots'
    BY <1>1, <1>2, <1>4, <1>6, <2>0, <1>b DEF SerialIdled, SerialSlots
  <2>2. \A v \in Users : threads'[v].event = threads[v].event
    BY <1>1, <1>2, <1>b DEF SerialIdled
  <2>3. /\ \A fd \in Fds : ghost.port[fd] # h
        /\ \A v \in Users : threads[v].event # h
        /\ h \notin ghost.lost /\ h # NULL
    BY <1>1, <1>6, SerialConstants DEF SerialHandles
  <2>4. ghost.port[f] = NULL
    BY <1>1, <1>2, <1>6 DEF SerialSlots, f
  <2>5. SerialHandles'
    <3>1. \A fd, e \in Fds : ghost'.port[fd] # NULL /\ ghost'.port[fd] = ghost'.port[e] => fd = e
      BY <1>4, <1>6, <2>3 DEF SerialHandles
    <3>2. /\ \A v, w \in Users : threads'[v].event # NULL /\ threads'[v].event = threads'[w].event => v = w
          /\ \A v \in Users : threads'[v].event \notin ghost'.lost
      BY <1>3, <1>6, <2>2 DEF SerialHandles
    <3>3. /\ \A fd \in Fds, v \in Users : ghost'.port[fd] # NULL => ghost'.port[fd] # threads'[v].event
          /\ \A fd \in Fds : ghost'.port[fd] \notin ghost'.lost
      BY <1>3, <1>4, <1>6, <2>2, <2>3 DEF SerialHandles
    <3>4. \A g \in Handles : g \in object'.open <=>
            \/ \E fd \in Fds : ghost'.port[fd] = g
            \/ \E v \in Users : threads'[v].event = g
            \/ g \in ghost'.lost
      <4>1. \A g \in Handles : (\E fd \in Fds : ghost'.port[fd] = g) <=>
                                 g = h \/ \E fd \in Fds : ghost.port[fd] = g
        BY <1>2, <1>4, <2>4, SerialConstants
      <4> QED BY <1>3, <1>6, <2>2, <4>1 DEF SerialHandles
    <3> QED BY <3>1, <3>2, <3>3, <3>4 DEF SerialHandles
  <2> QED BY <2>1, <2>5
<1> QED BY <1>3, <1>5, <1>6 DEF SerialInv

LEMMA SerialTransferBegin ==
  ASSUME SerialInv, NEW u \in Users, NEW fd \in Fds, NEW h \in Handles,
         Serial!TransferBegin(u, fd, h)
  PROVE  SerialInv'
<1>1. /\ threads[u] = Serial!Idle /\ h \notin object.open
      /\ object' = [object EXCEPT !.open = @ \union {h}]
      /\ threads' = [threads EXCEPT ![u] = [in |-> "transfer", fd |-> fd, event |-> h]]
      /\ ghost' = ghost
  BY DEF Serial!TransferBegin
<1>2. SerialType /\ threads[u].in = "nothing" /\ threads[u].event = NULL
  BY <1>1 DEF SerialInv, Serial!Idle
<1>3. /\ object'.port = object.port /\ object'.open = object.open \union {h}
      /\ object' \in [port : [Fds -> Handles \union {NULL}], open : SUBSET Handles]
  BY <1>1, <1>2 DEF SerialType
<1>4. /\ threads'[u] = [in |-> "transfer", fd |-> fd, event |-> h]
      /\ \A v \in Users : v # u => threads'[v] = threads[v]
      /\ threads' \in [Users -> [in : {"nothing", "open", "transfer"}, fd : Fds \union {NULL},
                                 event : Handles \union {NULL}]]
  BY <1>1, <1>2 DEF SerialType
<1>5. SerialType'
  BY <1>1, <1>2, <1>3, <1>4, SerialConstants DEF SerialType
<1>6. ASSUME SerialSlots, SerialHandles PROVE SerialSlots' /\ SerialHandles'
  <2>1. SerialSlots'
    BY <1>1, <1>3, <1>4, <1>6 DEF SerialSlots
  <2>2. threads'[u].event = h /\ \A v \in Users \ {u} : threads'[v].event = threads[v].event
    BY <1>4
  <2>3. /\ \A e \in Fds : ghost.port[e] # h
        /\ \A v \in Users : threads[v].event # h
        /\ h \notin ghost.lost /\ h # NULL
    BY <1>1, <1>6, SerialConstants DEF SerialHandles
  <2>4. object'.open = object.open \union {h} /\ ghost' = ghost /\ threads[u].event = NULL
    BY <1>1, <1>2, <1>3
  <2>5. \A g \in Handles : (\E v \in Users : threads'[v].event = g) <=>
                             g = h \/ \E v \in Users : threads[v].event = g
    BY <2>2, <2>4, SerialConstants
  <2>6. SerialHandles'
    BY <1>6, <2>2, <2>3, <2>4, <2>5 DEF SerialHandles
  <2> QED BY <2>1, <2>6
<1> QED BY <1>1, <1>5, <1>6 DEF SerialInv

LEMMA SerialTransferEnd ==
  ASSUME SerialInv, NEW u \in Users, Serial!TransferEnd(u)
  PROVE  SerialInv'
<1> DEFINE h == threads[u].event
<1>1. /\ threads[u].in = "transfer"
      /\ object' = [object EXCEPT !.open = @ \ {h}]
      /\ threads' = [threads EXCEPT ![u] = Serial!Idle]
      /\ ghost' = ghost
  BY DEF Serial!TransferEnd
<1>2. SerialType /\ h # NULL /\ h \in Handles
  BY <1>1 DEF SerialInv, SerialType
<1>b. SerialIdled(u)
  BY <1>1, <1>2, SerialBack
<1>3. /\ object'.port = object.port /\ object'.open = object.open \ {h}
      /\ object' \in [port : [Fds -> Handles \union {NULL}], open : SUBSET Handles]
  BY <1>1, <1>2 DEF SerialType
<1>5. SerialType'
  BY <1>1, <1>2, <1>3, <1>b DEF SerialType, SerialIdled
<1>6. ASSUME SerialSlots, SerialHandles PROVE SerialSlots' /\ SerialHandles'
  <2>1. SerialSlots'
    BY <1>1, <1>3, <1>b, <1>6 DEF SerialSlots, SerialIdled
  <2>2. threads'[u].event = NULL /\ \A v \in Users \ {u} : threads'[v].event = threads[v].event
    BY <1>b DEF SerialIdled
  <2>3. /\ \A e \in Fds : ghost.port[e] # h
        /\ \A v \in Users \ {u} : threads[v].event # h
        /\ h \notin ghost.lost
    BY <1>2, <1>6 DEF SerialHandles
  <2>4. object'.open = object.open \ {h} /\ ghost' = ghost
    BY <1>1, <1>3
  <2>5. \A g \in Handles : (\E v \in Users : threads'[v].event = g) <=>
                             g # h /\ \E v \in Users : threads[v].event = g
    BY <2>2, <2>3, SerialConstants
  <2>6. \A v \in Users : threads'[v].event \in {NULL, threads[v].event}
    BY <2>2
  <2>7. SerialHandles'
    <3> HIDE DEF h
    <3>1. /\ \A v, w \in Users : threads'[v].event # NULL /\ threads'[v].event = threads'[w].event => v = w
          /\ \A fd \in Fds, v \in Users : ghost'.port[fd] # NULL => ghost'.port[fd] # threads'[v].event
      BY <1>6, <2>2, <2>4 DEF SerialHandles
    <3>2. \A v \in Users : threads'[v].event \notin ghost'.lost
      <4>1. NULL \notin ghost.lost
        BY <1>2, SerialConstants DEF SerialType
      <4> QED BY <1>6, <2>4, <2>6, <4>1 DEF SerialHandles
    <3>3. \A g \in Handles : g \in object'.open <=>
            \/ \E fd \in Fds : ghost'.port[fd] = g
            \/ \E v \in Users : threads'[v].event = g
            \/ g \in ghost'.lost
      BY <1>6, <2>3, <2>4, <2>5 DEF SerialHandles
    <3> QED BY <1>6, <2>4, <3>1, <3>2, <3>3 DEF SerialHandles
  <2> QED BY <2>1, <2>7
<1> QED BY <1>1, <1>5, <1>6 DEF SerialInv

LEMMA SerialClose ==
  ASSUME SerialInv, NEW u \in Users, NEW fd \in Fds, Serial!Close(u, fd)
  PROVE  SerialInv'
<1> DEFINE h == object.port[fd]
<1>1. /\ ghost.port[fd] # NULL /\ h # NULL
      /\ object' = [object EXCEPT !.open = @ \ {h}]
      /\ ghost' = [ghost EXCEPT !.port[fd] = NULL]
      /\ threads' = threads
  BY DEF Serial!Close
<1>2. SerialType
  BY DEF SerialInv
<1>3. /\ object'.port = object.port /\ object'.open = object.open \ {h}
      /\ object' \in [port : [Fds -> Handles \union {NULL}], open : SUBSET Handles]
  BY <1>1, <1>2 DEF SerialType
<1>4. /\ ghost' = [port |-> [ghost.port EXCEPT ![fd] = NULL], lost |-> ghost.lost, clash |-> ghost.clash]
      /\ ghost.port \in [Fds -> Handles \union {NULL}]
  BY <1>1, <1>2 DEF SerialType
<1>5. /\ ghost'.port[fd] = NULL /\ \A e \in Fds : e # fd => ghost'.port[e] = ghost.port[e]
      /\ ghost'.lost = ghost.lost /\ ghost'.clash = ghost.clash
      /\ ghost'.port \in [Fds -> Handles \union {NULL}]
  BY <1>4
<1>6. SerialType'
  <2>1. ghost' \in [port : [Fds -> Handles \union {NULL}], lost : SUBSET Handles, clash : BOOLEAN]
    BY <1>2, <1>4, <1>5 DEF SerialType
  <2> QED BY <1>1, <1>2, <1>3, <2>1 DEF SerialType
<1>7. ASSUME SerialSlots, SerialHandles PROVE SerialSlots' /\ SerialHandles'
  <2>1. SerialSlots'
    BY <1>1, <1>3, <1>5, <1>7 DEF SerialSlots
  <2>2. h = ghost.port[fd]
    BY <1>1, <1>7 DEF SerialSlots
  <2>3. /\ \A e \in Fds \ {fd} : ghost.port[e] # h
        /\ \A v \in Users : threads[v].event # h
        /\ h \notin ghost.lost
    BY <1>1, <1>7, <2>2 DEF SerialHandles
  <2> HIDE DEF h
  <2>4. \A g \in Handles : (\E e \in Fds : ghost'.port[e] = g) <=>
                             g # h /\ \E e \in Fds : ghost.port[e] = g
    BY <1>5, <2>2, <2>3, SerialConstants
  <2>5. \A e \in Fds : ghost'.port[e] # NULL => e # fd /\ ghost'.port[e] = ghost.port[e]
    BY <1>5
  <2>6. NULL \notin ghost.lost
    BY <1>2, SerialConstants DEF SerialType
  <2>7. SerialHandles'
    <3>1. /\ \A d, e \in Fds : ghost'.port[d] # NULL /\ ghost'.port[d] = ghost'.port[e] => d = e
          /\ \A e \in Fds, v \in Users : ghost'.port[e] # NULL => ghost'.port[e] # threads'[v].event
          /\ \A e \in Fds : ghost'.port[e] \notin ghost'.lost
      BY <1>1, <1>5, <1>7, <2>5, <2>6 DEF SerialHandles
    <3>2. /\ \A v, w \in Users : threads'[v].event # NULL /\ threads'[v].event = threads'[w].event => v = w
          /\ \A v \in Users : threads'[v].event \notin ghost'.lost
      BY <1>1, <1>5, <1>7 DEF SerialHandles
    <3>3. \A g \in Handles : g \in object'.open <=>
            \/ \E e \in Fds : ghost'.port[e] = g
            \/ \E v \in Users : threads'[v].event = g
            \/ g \in ghost'.lost
      BY <1>1, <1>3, <1>5, <1>7, <2>3, <2>4 DEF SerialHandles
    <3> QED BY <3>1, <3>2, <3>3 DEF SerialHandles
  <2> QED BY <2>1, <2>7
<1> QED BY <1>5, <1>6, <1>7 DEF SerialInv

LEMMA SerialStep == SerialInv /\ Serial!Next => SerialInv'
BY SerialOpenBegin, SerialOpenFails, SerialOpenLost, SerialOpenEnd, SerialTransferBegin,
   SerialTransferEnd, SerialClose DEF Serial!Next, Fds

(* How many handles the program knows. *)
SerialHeld == {fd \in Fds : ghost.port[fd] # NULL}
SerialOpened == {ghost.port[fd] : fd \in SerialHeld}
SerialBusy == {u \in Users : threads[u].event # NULL}
SerialEvents == {threads[u].event : u \in Users} \ {NULL}

LEMMA ApartCount ==
  ASSUME NEW S, NEW T, IsFiniteSet(S), IsFiniteSet(T), \A x \in S : x \notin T
  PROVE  IsFiniteSet(S \union T) /\ Cardinality(S \union T) = Cardinality(S) + Cardinality(T)
<1>1. S \cap T = {}
  OBVIOUS
<1>2. Cardinality(S) \in Nat /\ Cardinality(T) \in Nat
  BY FS_CardinalityType
<1>3. IsFiniteSet(S \cup T)
      /\ Cardinality(S \cup T) = Cardinality(S) + Cardinality(T) - Cardinality(S \cap T)
  BY FS_Union
<1>4. Cardinality(S \cap T) = 0
  BY <1>1, FS_EmptySet
<1> QED BY <1>2, <1>3, <1>4

LEMMA SerialImplies == SerialInv => Serial!PortsKept
<1> SUFFICES ASSUME SerialInv, ~ghost.clash PROVE
      /\ \A fd \in SerialHeld : object.port[fd] = ghost.port[fd]
      /\ Cardinality(SerialOpened \union SerialEvents \union ghost.lost)
           = Cardinality(SerialHeld) + Cardinality(SerialBusy) + Cardinality(ghost.lost)
      /\ object.open = SerialOpened \union SerialEvents \union ghost.lost
  BY SerialCardinality DEF Serial!PortsKept, Serial!Held, Serial!Events, Fds, SerialHeld,
     SerialOpened, SerialBusy, SerialEvents
<1>1. SerialType /\ SerialSlots /\ SerialHandles
  BY DEF SerialInv
<1>2. \A fd \in SerialHeld : object.port[fd] = ghost.port[fd]
  BY <1>1 DEF SerialSlots, SerialHeld
<1>3. /\ SerialOpened \subseteq Handles /\ SerialEvents \subseteq Handles /\ ghost.lost \subseteq Handles
      /\ IsFiniteSet(SerialOpened) /\ IsFiniteSet(SerialEvents) /\ IsFiniteSet(ghost.lost)
  <2>1. SerialOpened \subseteq Handles
    BY <1>1 DEF SerialType, SerialOpened, SerialHeld
  <2>2. SerialEvents \subseteq Handles /\ ghost.lost \subseteq Handles
    BY <1>1 DEF SerialType, SerialEvents
  <2> QED BY <2>1, <2>2, SerialConstants, FS_Subset
<1>4. /\ \A h \in SerialOpened : h \notin SerialEvents
      /\ \A h \in SerialOpened \union SerialEvents : h \notin ghost.lost
  BY <1>1 DEF SerialHandles, SerialOpened, SerialHeld, SerialEvents
<1>5. Cardinality(SerialHeld) = Cardinality(SerialOpened)
  <2> DEFINE f == [fd \in SerialHeld |-> ghost.port[fd]]
  <2>1. f \in [SerialHeld -> SerialOpened] /\ \A t \in SerialOpened : \E fd \in SerialHeld : f[fd] = t
    BY DEF SerialOpened
  <2>2. \A x, y \in SerialHeld : f[x] = f[y] => x = y
    BY <1>1 DEF SerialHandles, SerialHeld
  <2> HIDE DEF f
  <2> QED BY <1>3, <2>1, <2>2, SameCount
<1>6. Cardinality(SerialBusy) = Cardinality(SerialEvents)
  <2> DEFINE f == [u \in SerialBusy |-> threads[u].event]
  <2>1. f \in [SerialBusy -> SerialEvents] /\ \A t \in SerialEvents : \E u \in SerialBusy : f[u] = t
    BY DEF SerialEvents, SerialBusy
  <2>2. \A x, y \in SerialBusy : f[x] = f[y] => x = y
    BY <1>1 DEF SerialHandles, SerialBusy
  <2> HIDE DEF f
  <2> QED BY <1>3, <2>1, <2>2, SameCount
<1>7. Cardinality(SerialOpened \union SerialEvents \union ghost.lost)
        = Cardinality(SerialOpened) + Cardinality(SerialEvents) + Cardinality(ghost.lost)
  <2> DEFINE both == SerialOpened \union SerialEvents
  <2>1. \A h \in SerialOpened : h \notin SerialEvents
    BY <1>4
  <2>2. IsFiniteSet(both) /\ Cardinality(both) = Cardinality(SerialOpened) + Cardinality(SerialEvents)
    BY <1>3, <2>1, ApartCount
  <2>3. \A h \in both : h \notin ghost.lost
    BY <1>4
  <2> HIDE DEF both
  <2>4. Cardinality(both \union ghost.lost) = Cardinality(both) + Cardinality(ghost.lost)
    BY <1>3, <2>2, <2>3, ApartCount
  <2> QED BY <2>2, <2>4 DEF both
<1>8. object.open = SerialOpened \union SerialEvents \union ghost.lost
  <2>1. object.open \subseteq Handles
    BY <1>1 DEF SerialType
  <2>2. \A h \in Handles : h \in SerialOpened <=> \E fd \in Fds : ghost.port[fd] = h
    BY SerialConstants DEF SerialOpened, SerialHeld
  <2>3. \A h \in Handles : h \in SerialEvents <=> \E u \in Users : threads[u].event = h
    BY SerialConstants DEF SerialEvents
  <2>4. \A h \in Handles : h \in object.open <=> h \in SerialOpened \/ h \in SerialEvents \/ h \in ghost.lost
    BY <1>1, <2>2, <2>3 DEF SerialHandles
  <2> QED BY <1>3, <2>1, <2>4
<1> QED BY <1>2, <1>5, <1>6, <1>7, <1>8

(* A descriptor of a serial port stands for the handle it was opened with, *)
(* and the handles that are open are those of the descriptors, of the      *)
(* transfers under way, and those that a failed open left behind, for any  *)
(* number of threads, slots and handles.                                   *)
THEOREM LibraryPortsKept == Spec => []PortsKept
<1> DEFINE Inv == part = "serial" => SerialInv
<1>1. Init => Inv
  BY SerialStarts DEF Init
<1>2. Inv /\ [Next]_vars => Inv'
  <2> SUFFICES ASSUME Inv, [Next]_vars, part' = "serial" PROVE SerialInv'
    OBVIOUS
  <2>1. CASE UNCHANGED vars
    <3>1. object' = object /\ ghost' = ghost /\ threads' = threads /\ part = "serial"
      BY <2>1 DEF vars
    <3> QED BY <3>1 DEF SerialInv, SerialType, SerialSlots, SerialHandles
  <2>2. CASE Next
    <3>1. part' = part
      BY <2>2 DEF Next, UseHeap, UseVector, UseTree, UseMap, UseQueue, UseTimer, UseGetopt,
         UseHttp, UseSort, UseUrl, UseMd5, UseSerial
    <3>2. Serial!Next
      BY <2>2, <3>1 DEF Next, UseHeap, UseVector, UseTree, UseMap, UseQueue, UseTimer, UseGetopt,
         UseHttp, UseSort, UseUrl, UseMd5, UseSerial
    <3> QED BY <3>1, <3>2, SerialStep
  <2> QED BY <2>1, <2>2
<1>3. Inv => PortsKept
  BY SerialImplies DEF PortsKept
<1> QED BY <1>1, <1>2, <1>3, PTL DEF Spec

-----------------------------------------------------------------------------
(* The queue. *)
Items == List!Items
Order == ghost.order
Bound == Len(Order)

Pcs == {"idle", "count", "fill", "data", "test", "unlink", "free"}

QueueType ==
  /\ object \in [head : Items \union {NULL}, tail : Items \union {NULL}, size : Int,
                 holder : Pushers \union {NULL}, next : [Items -> Items \union {NULL}],
                 prev : [Items -> Items \union {NULL}], filled : SUBSET Items,
                 freed : SUBSET Items]
  /\ ghost \in [order : Seq(Items), pops : [Items -> 0 .. 2], early : SUBSET Items,
                deleted : {"no", "yes", "crash"}]
  /\ threads \in [pc : [Pushers \union {Popper} -> Pcs], item : Items \union {NULL},
                  nth : [Pushers -> 0 .. MaxPushes]]

(* Pointers that are those of the items in the order o. *)
Chain(o, next, prev, head, tail) ==
  /\ \A i, j \in 1 .. Len(o) : o[i] = o[j] => i = j
  /\ head = IF Len(o) = 0 THEN NULL ELSE o[1]
  /\ tail = IF Len(o) = 0 THEN NULL ELSE o[Len(o)]
  /\ \A i \in 1 .. Len(o) : /\ next[o[i]] = IF i = Len(o) THEN NULL ELSE o[i + 1]
                           /\ prev[o[i]] = IF i = 1 THEN NULL ELSE o[i - 1]

QueueLinks == Chain(Order, object.next, object.prev, object.head, object.tail)

(* The item that thread t has inserted last, or inserts now. *)
Latest(t) == << t, threads.nth[t] >>

(* Items that are on the list, filled or freed have been allocated. *)
QueueAllocated ==
  /\ \A i \in 1 .. Bound : Order[i][2] <= threads.nth[Order[i][1]]
  /\ \A x \in object.filled \union object.freed : x[2] <= threads.nth[x[1]]
  /\ \A i \in 1 .. Bound : Order[i] \notin object.freed

(* Who has the mutex has linked an item that it has not counted; until it  *)
(* has filled it, the item's data is what malloc left.                     *)
QueueHolder ==
  /\ \A t \in Pushers : threads.pc[t] \in {"idle", "count", "fill"}
  /\ \A t \in Pushers : threads.pc[t] = "count" <=> object.holder = t
  /\ \A t \in Pushers : threads.pc[t] \in {"count", "fill"} =>
       threads.nth[t] \in 1 .. MaxPushes /\ Latest(t) \notin object.filled
  /\ \A t \in Pushers : threads.pc[t] = "count" => \E i \in 1 .. Bound : Order[i] = Latest(t)
  /\ object.size = IF object.holder = NULL THEN Bound ELSE Bound - 1

(* The item that is popped is the last one until it is removed. *)
QueuePopping ==
  /\ threads.pc[Popper] \in {"idle", "data", "test", "unlink", "free"}
  /\ threads.pc[Popper] = "idle" <=> threads.item = NULL
  /\ threads.pc[Popper] \in {"data", "test", "unlink"} => Bound # 0 /\ threads.item = Order[Bound]
  /\ threads.pc[Popper] = "free" => \A i \in 1 .. Bound : Order[i] # threads.item
  /\ threads.item # NULL => threads.item[2] <= threads.nth[threads.item[1]]

(* An item that was popped when it was filled will not be popped again: it *)
(* is off the list, or about to be removed.                                *)
QueuePopped ==
  \A x \in Items : ghost.pops[x] # 0 /\ x \notin ghost.early =>
    /\ ghost.pops[x] = 1 /\ x \in object.filled
    /\ \/ \A i \in 1 .. Bound : Order[i] # x
       \/ threads.pc[Popper] \in {"test", "unlink"} /\ threads.item = x

QueueInv ==
  /\ QueueType /\ QueueLinks /\ QueueAllocated /\ QueueHolder /\ QueuePopping /\ QueuePopped

LEMMA QueueConstants ==
  /\ NULL \notin Pushers /\ NULL \notin Items /\ Popper \notin Pushers /\ MaxPushes \in Nat
  /\ IsFiniteSet(Items) /\ Items = Pushers \X (1 .. MaxPushes)
<1>1. /\ NULL \notin Pushers /\ NULL \notin Items /\ Popper \notin Pushers /\ MaxPushes \in Nat
      /\ IsFiniteSet(Pushers)
  BY LibraryAssumption DEF List!QueueAssumption, List!IsFiniteSet, IsFiniteSet, Items
<1>2. Items = Pushers \X (1 .. MaxPushes)
  BY DEF Items, List!Items
<1>3. IsFiniteSet(Items)
  <2> DEFINE numbers == 1 .. MaxPushes
  <2>1. IsFiniteSet(numbers)
    BY <1>1, FS_Interval
  <2> HIDE DEF numbers
  <2>2. IsFiniteSet(Pushers \X numbers)
    BY <1>1, <2>1, FS_Product
  <2> QED BY <1>2, <2>2 DEF numbers
<1> QED BY <1>1, <1>2, <1>3

(* An order with x behind its first i items, or without its last one. *)
With(o2, o, i, x) ==
  /\ o2 \in Seq(Items) /\ Len(o2) = Len(o) + 1 /\ o2[i + 1] = x
  /\ \A j \in 1 .. i : o2[j] = o[j]
  /\ \A j \in i + 1 .. Len(o) : o2[j + 1] = o[j]

LEMMA InsertBehind ==
  ASSUME NEW o \in Seq(Items), NEW i \in 0 .. Len(o), NEW x \in Items
  PROVE  With(SubSeq(o, 1, i) \o << x >> \o SubSeq(o, i + 1, Len(o)), o, i, x)
<1> DEFINE a == SubSeq(o, 1, i)
           b == SubSeq(o, i + 1, Len(o))
           n == Len(o)
<1>1. a \in Seq(Items) /\ Len(a) = i /\ \A j \in 1 .. i : a[j] = o[j]
  OBVIOUS
<1>2. b \in Seq(Items) /\ Len(b) = n - i /\ \A j \in 1 .. n - i : b[j] = o[i + j]
  OBVIOUS
<1>3. n \in Nat /\ i \in Nat /\ i <= n
  OBVIOUS
<1> HIDE DEF a, b, n
<1>4. a \o << x >> \in Seq(Items) /\ Len(a \o << x >>) = i + 1
      /\ (\A j \in 1 .. i : (a \o << x >>)[j] = o[j]) /\ (a \o << x >>)[i + 1] = x
  BY <1>1, <1>3
<1> DEFINE c == a \o << x >>
           d == c \o b
<1>10. /\ c \in Seq(Items) /\ Len(c) = i + 1
       /\ (\A j \in 1 .. i : c[j] = o[j]) /\ c[i + 1] = x
  BY <1>4
<1> HIDE DEF c
<1>5. d \in Seq(Items) /\ Len(d) = n + 1
  <2>1. c \in Seq(Items) /\ b \in Seq(Items)
    BY <1>2, <1>10
  <2>2. d \in Seq(Items) /\ Len(d) = Len(c) + Len(b)
    BY <2>1
  <2> QED BY <1>2, <1>3, <1>10, <2>2
<1>6. \A j \in 1 .. i + 1 : d[j] = c[j]
  BY <1>2, <1>3, <1>10
<1>7. ASSUME NEW j \in i + 1 .. n PROVE d[j + 1] = o[j]
  <2>1. j + 1 \in i + 2 .. n + 1 /\ (j + 1) - (i + 1) = j - i /\ j - i \in 1 .. n - i /\ i + (j - i) = j
    BY <1>3
  <2>2. d[j + 1] = b[(j + 1) - (i + 1)]
    BY <1>2, <1>3, <1>10, <1>5, <2>1
  <2> QED BY <1>2, <2>1, <2>2
<1> HIDE DEF d
<1>8. (\A j \in 1 .. i : d[j] = o[j]) /\ d[i + 1] = x
  BY <1>3, <1>10, <1>6
<1>9. With(d, o, i, x)
  BY <1>5, <1>7, <1>8 DEF With, n
<1> QED BY <1>9 DEF d, c, a, b, n

(* The pointers after x was linked behind the first i items of o. *)
LinkedAt(o, i, x, next, prev, head, tail, next2, prev2, head2, tail2) ==
  /\ head2 = IF i = 0 THEN x ELSE head
  /\ tail2 = IF i = Len(o) THEN x ELSE tail
  /\ next2[x] = IF i = Len(o) THEN NULL ELSE o[i + 1]
  /\ prev2[x] = IF i = 0 THEN NULL ELSE o[i]
  /\ i # 0 => next2[o[i]] = x
  /\ i # Len(o) => prev2[o[i + 1]] = x
  /\ \A j \in 1 .. Len(o) : j # i => next2[o[j]] = next[o[j]]
  /\ \A j \in 1 .. Len(o) : j # i + 1 => prev2[o[j]] = prev[o[j]]

LEMMA ChainInsert ==
  ASSUME NEW o \in Seq(Items), NEW next, NEW prev, NEW head, NEW tail,
         Chain(o, next, prev, head, tail),
         NEW i \in 0 .. Len(o), NEW x \in Items, \A j \in 1 .. Len(o) : o[j] # x,
         NEW o2, With(o2, o, i, x),
         NEW next2, NEW prev2, NEW head2, NEW tail2,
         LinkedAt(o, i, x, next, prev, head, tail, next2, prev2, head2, tail2)
  PROVE  Chain(o2, next2, prev2, head2, tail2)
<1> DEFINE n == Len(o)
<1>1. n \in Nat /\ i \in Nat /\ i <= n /\ Len(o2) = n + 1
  BY DEF With
<1>2. o2[i + 1] = x /\ (\A j \in 1 .. i : o2[j] = o[j]) /\ (\A j \in i + 1 .. n : o2[j + 1] = o[j])
  BY DEF With
<1>3. /\ \A j, k \in 1 .. n : o[j] = o[k] => j = k
      /\ head = IF n = 0 THEN NULL ELSE o[1]
      /\ tail = IF n = 0 THEN NULL ELSE o[n]
      /\ \A j \in 1 .. n : next[o[j]] = IF j = n THEN NULL ELSE o[j + 1]
      /\ \A j \in 1 .. n : prev[o[j]] = IF j = 1 THEN NULL ELSE o[j - 1]
  BY DEF Chain
<1>9. /\ head2 = IF i = 0 THEN x ELSE head
      /\ tail2 = IF i = n THEN x ELSE tail
      /\ next2[x] = IF i = n THEN NULL ELSE o[i + 1]
      /\ prev2[x] = IF i = 0 THEN NULL ELSE o[i]
      /\ i # 0 => next2[o[i]] = x
      /\ i # n => prev2[o[i + 1]] = x
      /\ \A j \in 1 .. n : j # i => next2[o[j]] = next[o[j]]
      /\ \A j \in 1 .. n : j # i + 1 => prev2[o[j]] = prev[o[j]]
  BY DEF LinkedAt
<1> DEFINE from(j) == IF j <= i THEN j ELSE j - 1
<1> HIDE DEF n
<1>4. ASSUME NEW j \in 1 .. n + 1, j # i + 1
      PROVE  from(j) \in 1 .. n /\ o2[j] = o[from(j)] /\ o2[j] # x
  <2>1. CASE j <= i
    BY <1>1, <1>2, <2>1 DEF n
  <2>2. CASE j > i + 1
    <3>1. j - 1 \in i + 1 .. n /\ (j - 1) + 1 = j /\ ~(j <= i)
      BY <1>1, <2>2
    <3>2. o2[j] = o[j - 1]
      BY <1>2, <3>1
    <3> QED BY <1>1, <3>1, <3>2 DEF n
  <2> QED BY <1>1, <1>4, <2>1, <2>2
<1>5. \A j, k \in 1 .. n + 1 : o2[j] = o2[k] => j = k
  <2> SUFFICES ASSUME NEW j \in 1 .. n + 1, NEW k \in 1 .. n + 1, o2[j] = o2[k] PROVE j = k
    OBVIOUS
  <2>1. CASE j = i + 1 \/ k = i + 1
    BY <1>2, <1>4, <2>1
  <2>2. CASE j # i + 1 /\ k # i + 1
    <3>1. from(j) = from(k)
      BY <1>3, <1>4, <2>2
    <3> QED BY <1>1, <2>2, <3>1
  <2> QED BY <2>1, <2>2
<1>6. /\ head2 = o2[1] /\ tail2 = o2[n + 1]
  <2>1. head2 = o2[1]
    <3>1. CASE i = 0
      BY <1>2, <1>9, <3>1
    <3>2. CASE i # 0
      <4>1. 1 \in 1 .. i /\ n # 0
        BY <1>1, <3>2
      <4> QED BY <1>2, <1>3, <1>9, <3>2, <4>1
    <3> QED BY <3>1, <3>2
  <2>2. CASE i = n
    BY <1>9, <1>2, <2>1, <2>2
  <2>3. CASE i # n
    <3>1. n \in i + 1 .. n /\ n # 0
      BY <1>1, <2>3
    <3>2. o2[n + 1] = o[n]
      BY <1>2, <1>9, <3>1
    <3> QED BY <1>9, <1>3, <2>1, <2>3, <3>1, <3>2
  <2> QED BY <2>1, <2>2, <2>3
<1>7. ASSUME NEW j \in 1 .. n + 1
      PROVE  next2[o2[j]] = IF j = n + 1 THEN NULL ELSE o2[j + 1]
  <2>1. CASE j < i
    <3>1. j \in 1 .. i /\ j + 1 \in 1 .. i /\ j \in 1 .. n /\ j # i /\ j # n /\ j # n + 1
      BY <1>1, <2>1
    <3>2. o2[j] = o[j] /\ o2[j + 1] = o[j + 1]
      BY <1>2, <1>9, <3>1
    <3>3. next2[o[j]] = next[o[j]]
      BY <1>9, <3>1
    <3> QED BY <1>3, <3>1, <3>2, <3>3
  <2>2. CASE j = i
    <3>1. i # 0 /\ i \in 1 .. i /\ j # n + 1
      BY <1>1, <2>2
    <3> QED BY <1>2, <1>9, <2>2, <3>1
  <2>3. CASE j = i + 1
    <3>1. CASE i = n
      BY <1>9, <1>2, <2>3, <3>1
    <3>2. CASE i # n
      <4>1. i + 1 \in i + 1 .. n /\ j # n + 1
        BY <1>1, <2>3, <3>2
      <4>2. o2[j + 1] = o[i + 1]
        BY <1>2, <2>3, <4>1
      <4> QED BY <1>9, <1>2, <2>3, <3>2, <4>1, <4>2
    <3> QED BY <3>1, <3>2
  <2>4. CASE j > i + 1
    <3>1. j - 1 \in i + 1 .. n /\ j - 1 \in 1 .. n /\ (j - 1) + 1 = j /\ j - 1 # i
      BY <1>1, <2>4
    <3>2. o2[j] = o[j - 1]
      BY <1>2, <1>9, <3>1
    <3>3. next2[o[j - 1]] = next[o[j - 1]]
      BY <1>9, <3>1
    <3>4. next[o[j - 1]] = IF j - 1 = n THEN NULL ELSE o[j]
      BY <1>3, <3>1
    <3>5. CASE j = n + 1
      BY <1>1, <3>2, <3>3, <3>4, <3>5
    <3>6. CASE j # n + 1
      <4>1. j \in i + 1 .. n /\ j - 1 # n
        BY <1>1, <2>4, <3>6
      <4>2. o2[j + 1] = o[j]
        BY <1>2, <4>1
      <4> QED BY <3>2, <3>3, <3>4, <3>6, <4>1, <4>2
    <3> QED BY <3>5, <3>6
  <2> QED BY <1>1, <2>1, <2>2, <2>3, <2>4
<1>8. ASSUME NEW j \in 1 .. n + 1
      PROVE  prev2[o2[j]] = IF j = 1 THEN NULL ELSE o2[j - 1]
  <2>1. CASE j <= i
    <3>1. j \in 1 .. i /\ j \in 1 .. n /\ j # i + 1 /\ (j # 1 => j - 1 \in 1 .. i)
      BY <1>1, <2>1
    <3>2. o2[j] = o[j] /\ (j # 1 => o2[j - 1] = o[j - 1])
      BY <1>2, <1>9, <3>1
    <3>3. prev2[o[j]] = prev[o[j]]
      BY <1>9, <3>1
    <3> QED BY <1>3, <3>1, <3>2, <3>3
  <2>2. CASE j = i + 1
    <3>1. j - 1 = i /\ (j = 1 <=> i = 0) /\ (i # 0 => i \in 1 .. i)
      BY <1>1, <2>2
    <3> QED BY <1>2, <1>9, <2>2, <3>1
  <2>3. CASE j = i + 2
    <3>1. j - 1 = i + 1 /\ i + 1 \in i + 1 .. n /\ i # n /\ j # 1 /\ j = (i + 1) + 1
      BY <1>1, <2>3
    <3>2. o2[j] = o[i + 1]
      BY <1>2, <1>9, <3>1
    <3>3. prev2[o[i + 1]] = x
      BY <1>9, <3>1
    <3> QED BY <1>2, <3>1, <3>2, <3>3
  <2>4. CASE j > i + 2
    <3>5. j \in Nat /\ j <= n + 1 /\ j >= i + 3
      BY <1>1, <2>4
    <3>6. /\ j - 1 \in i + 1 .. n /\ (j - 1) + 1 = j /\ j - 1 \in 1 .. n /\ j - 1 # i + 1
      BY <1>1, <3>5
    <3>7. /\ j - 2 \in i + 1 .. n /\ (j - 2) + 1 = j - 1 /\ (j - 1) - 1 = j - 2 /\ j # 1 /\ j - 1 # 1
      BY <1>1, <3>5
    <3>1. /\ j - 1 \in i + 1 .. n /\ (j - 1) + 1 = j /\ j - 1 \in 1 .. n /\ j - 1 # i + 1
          /\ j - 2 \in i + 1 .. n /\ (j - 2) + 1 = j - 1 /\ (j - 1) - 1 = j - 2 /\ j # 1 /\ j - 1 # 1
      BY <3>6, <3>7
    <3>2. o2[j] = o[j - 1] /\ o2[j - 1] = o[j - 2]
      BY <1>2, <1>9, <3>1
    <3>3. prev2[o[j - 1]] = prev[o[j - 1]]
      BY <1>9, <3>1
    <3>4. prev[o[j - 1]] = o[j - 2]
      BY <1>3, <3>1
    <3> QED BY <3>1, <3>2, <3>3, <3>4
  <2> QED BY <1>1, <2>1, <2>2, <2>3, <2>4
<1> QED BY <1>1, <1>5, <1>6, <1>7, <1>8 DEF Chain

(* The pointers after the last item of o was unlinked. *)
UnlinkedLast(o, next, head, next2, head2, tail2) ==
  /\ head2 = IF Len(o) = 1 THEN NULL ELSE head
  /\ tail2 = IF Len(o) = 1 THEN NULL ELSE o[Len(o) - 1]
  /\ Len(o) # 1 => next2[o[Len(o) - 1]] = NULL
  /\ \A j \in 1 .. Len(o) : j # Len(o) - 1 => next2[o[j]] = next[o[j]]

LEMMA ChainRemoveLast ==
  ASSUME NEW o \in Seq(Items), NEW next, NEW prev, NEW head, NEW tail,
         Chain(o, next, prev, head, tail), Len(o) # 0,
         NEW o2 \in Seq(Items), Len(o2) = Len(o) - 1, \A j \in 1 .. Len(o) - 1 : o2[j] = o[j],
         NEW next2, NEW head2, NEW tail2,
         UnlinkedLast(o, next, head, next2, head2, tail2)
  PROVE  Chain(o2, next2, prev, head2, tail2)
<1> DEFINE n == Len(o)
           m == Len(o2)
<1>1. n \in Nat /\ n # 0 /\ m = n - 1 /\ m \in Nat
  OBVIOUS
<1>2. \A j \in 1 .. m : o2[j] = o[j]
  BY <1>1
<1>3. /\ \A j, k \in 1 .. n : o[j] = o[k] => j = k
      /\ head = IF n = 0 THEN NULL ELSE o[1]
      /\ \A j \in 1 .. n : next[o[j]] = IF j = n THEN NULL ELSE o[j + 1]
      /\ \A j \in 1 .. n : prev[o[j]] = IF j = 1 THEN NULL ELSE o[j - 1]
  BY DEF Chain
<1>4. /\ head2 = IF n = 1 THEN NULL ELSE head
      /\ tail2 = IF n = 1 THEN NULL ELSE o[n - 1]
      /\ n # 1 => next2[o[n - 1]] = NULL
      /\ \A j \in 1 .. n : j # n - 1 => next2[o[j]] = next[o[j]]
  BY DEF UnlinkedLast
<1> HIDE DEF n, m
<1>5. \A j, k \in 1 .. m : o2[j] = o2[k] => j = k
  BY <1>1, <1>2, <1>3
<1>6. head2 = IF m = 0 THEN NULL ELSE o2[1]
  BY <1>1, <1>2, <1>3, <1>4
<1>7. tail2 = IF m = 0 THEN NULL ELSE o2[m]
  BY <1>1, <1>2, <1>4
<1>8. ASSUME NEW j \in 1 .. m
      PROVE  /\ next2[o2[j]] = IF j = m THEN NULL ELSE o2[j + 1]
             /\ prev[o2[j]] = IF j = 1 THEN NULL ELSE o2[j - 1]
  <2>1. j \in 1 .. n /\ j # n /\ o2[j] = o[j]
    BY <1>1, <1>2
  <2>2. next2[o2[j]] = IF j = m THEN NULL ELSE o2[j + 1]
    <3>1. CASE j = m
      BY <1>1, <1>4, <2>1, <3>1
    <3>2. CASE j # m
      <4>1. j + 1 \in 1 .. m /\ j # n - 1
        BY <1>1, <3>2
      <4> QED BY <1>2, <1>3, <1>4, <2>1, <3>2, <4>1
    <3> QED BY <3>1, <3>2
  <2>3. prev[o2[j]] = IF j = 1 THEN NULL ELSE o2[j - 1]
    <3>1. j # 1 => j - 1 \in 1 .. m
      BY <1>1
    <3> QED BY <1>2, <1>3, <2>1, <3>1
  <2> QED BY <2>2, <2>3
<1> QED BY <1>5, <1>6, <1>7, <1>8 DEF Chain, m

(* Where an item is, on a list on which it is once. *)
LEMMA PlaceOf ==
  ASSUME NEW o \in Seq(Items), NEW i \in 1 .. Len(o),
         \A j, k \in 1 .. Len(o) : o[j] = o[k] => j = k
  PROVE  List!Place(o, o[i]) = i
<1>1. \E j \in DOMAIN o : o[j] = o[i]
  OBVIOUS
<1>2. List!Place(o, o[i]) \in DOMAIN o /\ o[List!Place(o, o[i])] = o[i]
  BY <1>1 DEF List!Place
<1> QED BY <1>2

LEMMA WithoutLast ==
  ASSUME NEW o \in Seq(Items), Len(o) # 0, NEW o2, o2 = List!Without(o, o[Len(o)]),
         \A j, k \in 1 .. Len(o) : o[j] = o[k] => j = k
  PROVE  o2 \in Seq(Items) /\ Len(o2) = Len(o) - 1 /\ \A j \in 1 .. Len(o) - 1 : o2[j] = o[j]
<1> DEFINE n == Len(o)
           a == SubSeq(o, 1, n - 1)
           b == SubSeq(o, n + 1, n)
<1>1. n \in 1 .. Len(o) /\ n \in Nat
  OBVIOUS
<1>2. List!Place(o, o[n]) = n
  BY <1>1, PlaceOf
<1>3. o2 = a \o b
  BY <1>2 DEF List!Without
<1>4. a \in Seq(Items) /\ Len(a) = n - 1 /\ \A j \in 1 .. n - 1 : a[j] = o[j]
  <2> DEFINE m == n - 1
  <2>1. m \in 0 .. Len(o)
    BY <1>1
  <2> HIDE DEF n, m
  <2>2. SubSeq(o, 1, m) \in Seq(Items) /\ Len(SubSeq(o, 1, m)) = m
    BY <2>1
  <2>3. \A j \in 1 .. m : SubSeq(o, 1, m)[j] = o[j]
    BY <2>1
  <2> QED BY <2>2, <2>3 DEF m
<1>5. b \in Seq(Items) /\ Len(b) = 0
  OBVIOUS
<1> HIDE DEF a, b, n
<1>6. a \o b \in Seq(Items) /\ Len(a \o b) = n - 1
  BY <1>1, <1>4, <1>5
<1>7. \A j \in 1 .. n - 1 : (a \o b)[j] = a[j]
  BY <1>1, <1>4, <1>5
<1> QED BY <1>3, <1>4, <1>6, <1>7 DEF n

WithKeeps(o2, o, i, x) ==
  /\ \A j \in 1 .. Len(o2) : o2[j] = x \/ \E k \in 1 .. Len(o) : o2[j] = o[k]
  /\ \A k \in 1 .. Len(o) : \E j \in 1 .. Len(o2) : o2[j] = o[k]
  /\ \E j \in 1 .. Len(o2) : o2[j] = x
  /\ o2[Len(o2)] = IF i = Len(o) THEN x ELSE o[Len(o)]

LEMMA WithItems ==
  ASSUME NEW o \in Seq(Items), NEW i \in 0 .. Len(o), NEW x, NEW o2, With(o2, o, i, x)
  PROVE  WithKeeps(o2, o, i, x)
<1> DEFINE n == Len(o)
<1>1. n \in Nat /\ i \in Nat /\ i <= n
  OBVIOUS
<1>2. /\ Len(o2) = n + 1 /\ o2[i + 1] = x /\ (\A j \in 1 .. i : o2[j] = o[j])
      /\ (\A j \in i + 1 .. n : o2[j + 1] = o[j])
  BY DEF With
<1> HIDE DEF n
<1>3. ASSUME NEW j \in 1 .. n + 1 PROVE o2[j] = x \/ \E k \in 1 .. n : o2[j] = o[k]
  <2>1. CASE j <= i
    BY <1>1, <1>2, <2>1
  <2>2. CASE j = i + 1
    BY <1>2, <2>2
  <2>3. CASE j > i + 1
    <3>1. j - 1 \in i + 1 .. n /\ j - 1 \in 1 .. n /\ (j - 1) + 1 = j
      BY <1>1, <2>3
    <3>2. o2[j] = o[j - 1]
      BY <1>2, <3>1
    <3> QED BY <3>1, <3>2
  <2> QED BY <1>1, <2>1, <2>2, <2>3
<1>4. ASSUME NEW k \in 1 .. n PROVE \E j \in 1 .. n + 1 : o2[j] = o[k]
  <2>1. CASE k <= i
    BY <1>1, <1>2, <2>1
  <2>2. CASE k > i
    <3>1. k \in i + 1 .. n /\ k + 1 \in 1 .. n + 1
      BY <1>1, <2>2
    <3> QED BY <1>2, <3>1
  <2> QED BY <1>1, <2>1, <2>2
<1>5. o2[n + 1] = IF i = n THEN x ELSE o[n]
  <2>1. i # n => n \in i + 1 .. n
    BY <1>1
  <2> QED BY <1>2, <2>1
<1>6. i + 1 \in 1 .. n + 1
  BY <1>1
<1> QED BY <1>2, <1>3, <1>4, <1>5, <1>6 DEF n, WithKeeps

LEMMA QueueStarts == List!Init => QueueInv
<1> SUFFICES ASSUME List!Init PROVE QueueInv
  OBVIOUS
<1>1. /\ Order = << >> /\ Bound = 0 /\ object.head = NULL /\ object.tail = NULL
      /\ object.size = 0 /\ object.holder = NULL /\ object.filled = {} /\ object.freed = {}
      /\ ghost.pops = [x \in Items |-> 0]
      /\ threads.pc = [t \in Pushers \union {Popper} |-> "idle"] /\ threads.item = NULL
      /\ threads.nth = [t \in Pushers |-> 0]
  BY DEF List!Init, Order, Bound, Items, List!Threads
<1>2. QueueType
  BY <1>1, QueueConstants DEF List!Init, QueueType, Items, List!Threads, Order, Pcs
<1>3. QueueLinks
  BY <1>1 DEF QueueLinks, Chain, Bound
<1>4. QueueAllocated
  BY <1>1 DEF QueueAllocated
<1>5. QueueHolder
  BY <1>1, QueueConstants DEF QueueHolder
<1>6. QueuePopping
  BY <1>1 DEF QueuePopping
<1>7. QueuePopped
  BY <1>1 DEF QueuePopped
<1> QED BY <1>2, <1>3, <1>4, <1>5, <1>6, <1>7 DEF QueueInv

(* An item is linked at the head, or behind one that is on the list. *)
LEMMA QueueLink ==
  ASSUME QueueInv, NEW t \in Pushers, NEW after \in Items \union {NULL}, List!Link(t, after)
  PROVE  QueueInv'
<1> DEFINE n == Bound
           x == << t, threads.nth[t] + 1 >>
           i == IF after = NULL THEN 0 ELSE List!Place(Order, after)
           behind == IF after = NULL THEN object.head ELSE object.next[after]
<1>1. /\ threads.pc[t] = "idle" /\ threads.nth[t] < MaxPushes /\ object.holder = NULL
      /\ after # NULL => after # threads.item /\ \E k \in 1 .. n : Order[k] = after
      /\ object' = [List!Linked(object, x, after) EXCEPT !.holder = t]
      /\ ghost' = [ghost EXCEPT !.order = SubSeq(@, 1, i) \o << x >> \o SubSeq(@, i + 1, Len(@))]
      /\ threads' = [threads EXCEPT !.pc[t] = "count", !.nth[t] = @ + 1]
  <2>1. threads.pc[t] = "idle" /\ threads.nth[t] < MaxPushes /\ object.holder = NULL
    BY DEF List!Link, List!At
  <2>2. after # NULL => after # threads.item /\ \E k \in 1 .. n : Order[k] = after
    <3>1. after \in List!OnList \union {NULL} /\ (after # NULL => after # threads.item)
      BY DEF List!Link
    <3>2. Order \in Seq(Items)
      BY DEF QueueInv, QueueType, Order
    <3> QED BY <3>1, <3>2 DEF List!OnList, Bound, Order
  <2>3. object' = [List!Linked(object, x, after) EXCEPT !.holder = t]
    BY DEF List!Link
  <2>4. ghost' = [ghost EXCEPT !.order = SubSeq(@, 1, i) \o << x >> \o SubSeq(@, i + 1, Len(@))]
    BY DEF List!Link, Order
  <2>5. threads' = [threads EXCEPT !.pc[t] = "count", !.nth[t] = @ + 1]
    BY DEF List!Link
  <2> QED BY <2>1, <2>2, <2>3, <2>4, <2>5
<1>2. QueueType /\ QueueLinks /\ QueueAllocated /\ QueueHolder /\ QueuePopping /\ QueuePopped
  BY DEF QueueInv
<1>3. /\ n \in Nat /\ Order \in Seq(Items) /\ threads.nth[t] \in 0 .. MaxPushes
      /\ \A j \in 1 .. n : Order[j] \in Items
  BY <1>2 DEF QueueType, Order, Bound
<1>4. /\ x \in Items /\ x # NULL /\ x[1] = t /\ x[2] = threads.nth[t] + 1
      /\ threads.nth[t] + 1 \in 1 .. MaxPushes
  BY <1>1, <1>3, QueueConstants
<1>5. (\A j \in 1 .. n : Order[j] # x) /\ x \notin object.filled /\ x \notin object.freed
  BY <1>2, <1>3, <1>4 DEF QueueAllocated
<1>6. i \in 0 .. n /\ after = IF i = 0 THEN NULL ELSE Order[i]
  <2>1. CASE after = NULL
    BY <1>3, <2>1
  <2>2. CASE after # NULL
    <3>1. PICK k \in 1 .. n : Order[k] = after
      BY <1>1, <2>2
    <3>2. i = k
      BY <1>2, <1>3, <2>2, <3>1, PlaceOf DEF QueueLinks, Chain, Bound
    <3> QED BY <1>3, <3>1, <3>2
  <2> QED BY <2>1, <2>2
<1>7. i = 0 <=> after = NULL
  BY <1>3, <1>6, QueueConstants
<1>8. /\ \A j, k \in 1 .. n : Order[j] = Order[k] => j = k
      /\ object.head = IF n = 0 THEN NULL ELSE Order[1]
      /\ \A j \in 1 .. n : object.next[Order[j]] = IF j = n THEN NULL ELSE Order[j + 1]
  BY <1>2 DEF QueueLinks, Chain, Bound
<1>9. behind = IF i = n THEN NULL ELSE Order[i + 1]
  <2>1. CASE i = 0
    BY <1>7, <1>8, <2>1
  <2>2. CASE i # 0
    <3>1. i \in 1 .. n /\ after = Order[i] /\ after # NULL
      BY <1>3, <1>6, <1>7, <2>2
    <3> QED BY <1>8, <3>1
  <2> QED BY <2>1, <2>2
<1>10. behind = NULL <=> i = n
  <2>1. i # n => i + 1 \in 1 .. n
    BY <1>3, <1>6
  <2> QED BY <1>3, <1>9, <2>1, QueueConstants
<1>11. /\ object'.head = IF after = NULL THEN x ELSE object.head
       /\ object'.next = IF after = NULL THEN [object.next EXCEPT ![x] = behind]
                         ELSE [object.next EXCEPT ![x] = behind, ![after] = x]
       /\ object'.prev = IF behind = NULL THEN [object.prev EXCEPT ![x] = after]
                         ELSE [object.prev EXCEPT ![x] = after, ![behind] = x]
       /\ object'.tail = IF behind = NULL THEN x ELSE object.tail
       /\ object'.holder = t /\ object'.size = object.size
       /\ object'.filled = object.filled /\ object'.freed = object.freed
       /\ object' = [head |-> object'.head, tail |-> object'.tail, size |-> object.size,
            holder |-> t, next |-> object'.next, prev |-> object'.prev,
            filled |-> object.filled, freed |-> object.freed]
  BY <1>1, <1>2 DEF List!Linked, QueueType
<1>12. Order' = SubSeq(Order, 1, i) \o << x >> \o SubSeq(Order, i + 1, n)
       /\ ghost'.pops = ghost.pops /\ ghost'.early = ghost.early
       /\ ghost'.deleted = ghost.deleted /\ ghost' = [ghost EXCEPT !.order = Order']
  BY <1>1, <1>2 DEF QueueType, Order, Bound
<1>13. /\ threads'.pc = [threads.pc EXCEPT ![t] = "count"] /\ threads'.item = threads.item
       /\ threads'.nth = [threads.nth EXCEPT ![t] = threads.nth[t] + 1]
       /\ threads' = [pc |-> threads'.pc, item |-> threads.item, nth |-> threads'.nth]
  BY <1>1, <1>2 DEF QueueType
<1>14. With(Order', Order, i, x)
  BY <1>3, <1>4, <1>6, <1>12, InsertBehind DEF Bound
<1> HIDE DEF n, x, i, behind
<1>15. Order' \in Seq(Items) /\ Bound' = n + 1 /\ Order'[i + 1] = x
       /\ (\A j \in 1 .. i : Order'[j] = Order[j])
       /\ (\A j \in i + 1 .. n : Order'[j + 1] = Order[j])
  BY <1>14 DEF With, Bound, n
<1>16. /\ \A j \in 1 .. n + 1 : Order'[j] = x \/ \E k \in 1 .. n : Order'[j] = Order[k]
       /\ \A k \in 1 .. n : \E j \in 1 .. n + 1 : Order'[j] = Order[k]
       /\ \E j \in 1 .. n + 1 : Order'[j] = x
       /\ Order'[n + 1] = IF i = n THEN x ELSE Order[n]
  <2>1. Order \in Seq(Items) /\ i \in 0 .. Len(Order) /\ With(Order', Order, i, x)
    BY <1>3, <1>6, <1>14 DEF Bound, n
  <2>2. WithKeeps(Order', Order, i, x)
    BY <2>1, WithItems, Zenon
  <2>3. Len(Order) = n /\ Len(Order') = n + 1
    BY <1>15 DEF Bound, n
  <2> QED BY <2>2, <2>3 DEF WithKeeps
<1>17. QueueType'
  <2>1. behind \in Items \union {NULL} /\ object.next \in [Items -> Items \union {NULL}]
        /\ object.prev \in [Items -> Items \union {NULL}]
        /\ object.head \in Items \union {NULL} /\ object.tail \in Items \union {NULL}
        /\ object.size \in Int /\ object.filled \in SUBSET Items /\ object.freed \in SUBSET Items
    BY <1>2, <1>3, <1>6, <1>9 DEF QueueType
  <2>2. object'.next \in [Items -> Items \union {NULL}]
    BY <1>4, <1>11, <2>1
  <2>3. object'.prev \in [Items -> Items \union {NULL}]
    BY <1>4, <1>11, <2>1
  <2>4. object'.head \in Items \union {NULL} /\ object'.tail \in Items \union {NULL}
    BY <1>4, <1>11, <2>1
  <2>5. object' \in [head : Items \union {NULL}, tail : Items \union {NULL}, size : Int,
                 holder : Pushers \union {NULL}, next : [Items -> Items \union {NULL}],
                 prev : [Items -> Items \union {NULL}], filled : SUBSET Items,
                 freed : SUBSET Items]
    BY <1>11, <2>1, <2>2, <2>3, <2>4
  <2>6. ghost' \in [order : Seq(Items), pops : [Items -> 0 .. 2], early : SUBSET Items,
                deleted : {"no", "yes", "crash"}]
    BY <1>2, <1>12, <1>15 DEF QueueType
  <2>7. threads'.pc \in [Pushers \union {Popper} -> Pcs]
    BY <1>2, <1>13 DEF QueueType, Pcs
  <2>8. threads'.nth \in [Pushers -> 0 .. MaxPushes]
    BY <1>2, <1>4, <1>13 DEF QueueType
  <2>9. threads' \in [pc : [Pushers \union {Popper} -> Pcs], item : Items \union {NULL},
                  nth : [Pushers -> 0 .. MaxPushes]]
    BY <1>2, <1>13, <2>7, <2>8 DEF QueueType
  <2> QED BY <2>5, <2>6, <2>9 DEF QueueType
<1>18. QueueLinks'
  <2>1. /\ x # after /\ x # behind
        /\ \A y \in Items : object'.next[y] = IF y = x THEN behind ELSE IF y = after THEN x
                                              ELSE object.next[y]
        /\ \A y \in Items : object'.prev[y] = IF y = x THEN after ELSE IF y = behind THEN x
                                              ELSE object.prev[y]
    <3>1. x # after
      BY <1>3, <1>4, <1>5, <1>6
    <3>2. x # behind
      BY <1>3, <1>4, <1>5, <1>6, <1>9
    <3>3. object.next \in [Items -> Items \union {NULL}] /\ object.prev \in [Items -> Items \union {NULL}]
      BY <1>2 DEF QueueType
    <3>4. \A y \in Items : object'.next[y] = IF y = x THEN behind ELSE IF y = after THEN x
                                              ELSE object.next[y]
      <4>1. CASE after = NULL
        BY <1>4, <1>11, <3>3, <4>1, QueueConstants
      <4>2. CASE after # NULL
        BY <1>4, <1>11, <3>1, <3>3, <4>2, QueueConstants
      <4> QED BY <4>1, <4>2
    <3>5. \A y \in Items : object'.prev[y] = IF y = x THEN after ELSE IF y = behind THEN x
                                              ELSE object.prev[y]
      <4>1. CASE behind = NULL
        BY <1>4, <1>11, <3>3, <4>1, QueueConstants
      <4>2. CASE behind # NULL
        BY <1>4, <1>11, <3>2, <3>3, <4>2, QueueConstants
      <4> QED BY <4>1, <4>2
    <3> QED BY <3>1, <3>2, <3>4, <3>5
  <2>2. object'.next[x] = behind /\ object'.prev[x] = after
    BY <1>4, <2>1
  <2>3. i # 0 => object'.next[Order[i]] = x
    <3>1. i # 0 => i \in 1 .. n /\ after = Order[i]
      BY <1>3, <1>6
    <3> QED BY <1>3, <2>1, <3>1
  <2>4. i # n => object'.prev[Order[i + 1]] = x
    <3>1. i # n => i + 1 \in 1 .. n /\ behind = Order[i + 1]
      BY <1>3, <1>6, <1>9
    <3> QED BY <1>3, <2>1, <3>1
  <2>5. ASSUME NEW j \in 1 .. n, j # i PROVE object'.next[Order[j]] = object.next[Order[j]]
    <3>1. Order[j] # after
      <4>1. CASE i = 0
        BY <1>3, <1>6, <4>1, QueueConstants
      <4>2. CASE i # 0
        BY <1>3, <1>6, <1>8, <2>5, <4>2, SMTT(30)
      <4> QED BY <4>1, <4>2
    <3> QED BY <1>3, <1>5, <2>1, <3>1
  <2>6. ASSUME NEW j \in 1 .. n, j # i + 1 PROVE object'.prev[Order[j]] = object.prev[Order[j]]
    <3>1. Order[j] # behind
      <4>1. CASE i = n
        BY <1>3, <1>9, <4>1, QueueConstants
      <4>2. CASE i # n
        <5>1. i + 1 \in 1 .. n /\ behind = Order[i + 1]
          BY <1>3, <1>6, <1>9, <4>2
        <5> QED BY <1>8, <2>6, <5>1
      <4> QED BY <4>1, <4>2
    <3> QED BY <1>3, <1>5, <2>1, <3>1
  <2>7. object'.head = (IF i = 0 THEN x ELSE object.head)
        /\ object'.tail = (IF i = n THEN x ELSE object.tail)
    BY <1>7, <1>10, <1>11
  <2>8. LinkedAt(Order, i, x, object.next, object.prev, object.head, object.tail,
                 object'.next, object'.prev, object'.head, object'.tail)
    BY <1>6, <1>9, <2>2, <2>3, <2>4, <2>5, <2>6, <2>7 DEF n, Bound, LinkedAt
  <2>10. /\ Order \in Seq(Items) /\ Chain(Order, object.next, object.prev, object.head, object.tail)
         /\ i \in 0 .. Len(Order) /\ x \in Items /\ (\A j \in 1 .. Len(Order) : Order[j] # x)
         /\ With(Order', Order, i, x)
    BY <1>2, <1>3, <1>4, <1>5, <1>6, <1>14 DEF n, Bound, QueueLinks
  <2>9. Chain(Order', object'.next, object'.prev, object'.head, object'.tail)
    BY <2>8, <2>10, ChainInsert, Zenon
  <2> QED BY <2>9 DEF QueueLinks
<1>19. QueueAllocated'
  <2>1. /\ \A y \in Items : threads.nth[y[1]] \in Nat /\ y[1] \in Pushers
        /\ \A y \in Items : threads'.nth[y[1]] \in Nat
        /\ \A y \in Items : y[2] <= threads.nth[y[1]] => y[2] <= threads'.nth[y[1]]
        /\ x[2] <= threads'.nth[x[1]]
    BY <1>2, <1>3, <1>4, <1>13, QueueConstants DEF QueueType
  <2>2. object.filled \subseteq Items /\ object.freed \subseteq Items
    BY <1>2 DEF QueueType
  <2>3. \A y \in object'.filled \union object'.freed : y[2] <= threads'.nth[y[1]]
    BY <1>2, <1>11, <2>1, <2>2 DEF QueueAllocated
  <2>4. \A j \in 1 .. n + 1 : Order'[j][2] <= threads'.nth[Order'[j][1]] /\ Order'[j] \notin object.freed
    BY <1>2, <1>3, <1>5, <1>16, <2>1 DEF QueueAllocated, n
  <2> QED BY <1>11, <1>15, <2>3, <2>4 DEF QueueAllocated
<1>20. QueueHolder'
  <2>1. \A u \in Pushers : threads'.pc[u] = (IF u = t THEN "count" ELSE threads.pc[u])
        /\ threads'.nth[u] = (IF u = t THEN threads.nth[t] + 1 ELSE threads.nth[u])
    BY <1>2, <1>13 DEF QueueType
  <2>2. \A u \in Pushers : threads.pc[u] # "count"
    BY <1>1, <1>2, QueueConstants DEF QueueHolder
  <2>3. \A u \in Pushers : Latest(u)' = IF u = t THEN x ELSE Latest(u)
    BY <2>1 DEF Latest, x
  <2>4. \A u \in Pushers : threads'.pc[u] \in {"idle", "count", "fill"}
    BY <1>2, <2>1 DEF QueueHolder
  <2>5. \A u \in Pushers : threads'.pc[u] = "count" <=> object'.holder = u
    BY <1>11, <2>1, <2>2
  <2>6. \A u \in Pushers : threads'.pc[u] \in {"count", "fill"} =>
          threads'.nth[u] \in 1 .. MaxPushes /\ Latest(u)' \notin object'.filled
    BY <1>2, <1>4, <1>5, <1>11, <2>1, <2>3 DEF QueueHolder
  <2>7. \A u \in Pushers : threads'.pc[u] = "count" => \E j \in 1 .. Bound' : Order'[j] = Latest(u)'
    BY <1>15, <1>16, <2>1, <2>2, <2>3
  <2>8. object'.size = (IF object'.holder = NULL THEN Bound' ELSE Bound' - 1)
    <3>1. object.size = n
      BY <1>1, <1>2 DEF QueueHolder, n
    <3>2. object'.size = n /\ object'.holder # NULL /\ Bound' = n + 1
      BY <1>11, <1>15, <3>1, QueueConstants
    <3> QED BY <1>3, <3>2
  <2> QED BY <2>4, <2>5, <2>6, <2>7, <2>8 DEF QueueHolder
<1>21. QueuePopping'
  <2>1. threads'.pc[Popper] = threads.pc[Popper] /\ threads'.item = threads.item
    BY <1>2, <1>13, QueueConstants DEF QueueType
  <2>2. threads.item # NULL => threads.item \in Items /\ threads.item # x
    BY <1>2, <1>3, <1>4 DEF QueueType, QueuePopping
  <2>3. threads'.item # NULL => threads'.item[2] <= threads'.nth[threads'.item[1]]
    <3>1. threads.item # NULL => threads.item[2] <= threads.nth[threads.item[1]]
      BY <1>2 DEF QueuePopping
    <3>2. \A y \in Items : y[2] <= threads.nth[y[1]] => y[2] <= threads'.nth[y[1]]
      BY <1>2, <1>3, <1>4, <1>13, QueueConstants DEF QueueType
    <3> QED BY <2>1, <2>2, <3>1, <3>2
  <2>4. threads'.pc[Popper] \in {"data", "test", "unlink"} =>
          Bound' # 0 /\ threads'.item = Order'[Bound']
    <3> SUFFICES ASSUME threads.pc[Popper] \in {"data", "test", "unlink"}
                 PROVE  threads.item = Order'[n + 1] /\ n + 1 # 0
      BY <1>15, <2>1
    <3>1. n # 0 /\ threads.item = Order[n]
      BY <1>2 DEF QueuePopping, n
    <3>2. i # n
      BY <1>1, <1>3, <1>6, <1>7, <3>1
    <3> QED BY <1>3, <1>16, <3>1, <3>2
  <2>5. threads'.pc[Popper] = "free" => \A j \in 1 .. Bound' : Order'[j] # threads'.item
    <3> SUFFICES ASSUME threads.pc[Popper] = "free", NEW j \in 1 .. n + 1
                 PROVE  Order'[j] # threads.item
      BY <1>15, <2>1
    <3>1. threads.item # NULL
      BY <1>2 DEF QueuePopping
    <3> QED BY <1>2, <1>16, <2>2, <3>1 DEF QueuePopping, n
  <2> QED BY <1>2, <2>1, <2>3, <2>4, <2>5 DEF QueuePopping
<1>22. QueuePopped'
  <2> SUFFICES ASSUME NEW y \in Items, ghost.pops[y] # 0, y \notin ghost.early
               PROVE  /\ ghost.pops[y] = 1 /\ y \in object.filled
                      /\ \/ \A j \in 1 .. n + 1 : Order'[j] # y
                         \/ threads'.pc[Popper] \in {"test", "unlink"} /\ threads'.item = y
    BY <1>11, <1>12, <1>15 DEF QueuePopped
  <2>1. /\ ghost.pops[y] = 1 /\ y \in object.filled
        /\ \/ \A j \in 1 .. n : Order[j] # y
           \/ threads.pc[Popper] \in {"test", "unlink"} /\ threads.item = y
    BY <1>2 DEF QueuePopped, n
  <2>2. y # x
    BY <1>5, <2>1
  <2>3. threads'.pc[Popper] = threads.pc[Popper] /\ threads'.item = threads.item
    BY <1>2, <1>13, QueueConstants DEF QueueType
  <2> QED BY <1>16, <2>1, <2>2, <2>3
<1> QED BY <1>17, <1>18, <1>19, <1>20, <1>21, <1>22 DEF QueueInv

(* It is counted, and the mutex given back; *)
LEMMA QueueCount ==
  ASSUME QueueInv, NEW t \in Pushers, List!Count(t)
  PROVE  QueueInv'
<1>1. QueueType /\ QueueLinks /\ QueueAllocated /\ QueueHolder /\ QueuePopping /\ QueuePopped
  BY DEF QueueInv
<1>2. /\ threads.pc[t] = "count"
      /\ object' = [object EXCEPT !.size = @ + 1, !.holder = NULL]
      /\ threads' = [threads EXCEPT !.pc[t] = "fill"] /\ ghost' = ghost
  BY DEF List!Count, List!At, List!MoveTo
<1>3. /\ object'.size = object.size + 1 /\ object'.holder = NULL
      /\ object'.head = object.head /\ object'.tail = object.tail
      /\ object'.next = object.next /\ object'.prev = object.prev
      /\ object'.filled = object.filled /\ object'.freed = object.freed
  BY <1>1, <1>2 DEF QueueType
<1>4. /\ threads'.pc = [threads.pc EXCEPT ![t] = "fill"] /\ threads'.item = threads.item
      /\ threads'.nth = threads.nth /\ Order' = Order /\ Bound' = Bound
  BY <1>1, <1>2 DEF QueueType, Order, Bound
<1>5. \A u \in Pushers : threads'.pc[u] = (IF u = t THEN "fill" ELSE threads.pc[u])
      /\ Latest(u)' = Latest(u)
  BY <1>1, <1>4 DEF QueueType, Latest
<1>6. threads'.pc[Popper] = threads.pc[Popper]
  BY <1>1, <1>4, QueueConstants DEF QueueType
<1>7. QueueType'
  <2>1. object.size + 1 \in Int
    BY <1>1 DEF QueueType
  <2>2. object' \in [head : Items \union {NULL}, tail : Items \union {NULL}, size : Int,
                 holder : Pushers \union {NULL}, next : [Items -> Items \union {NULL}],
                 prev : [Items -> Items \union {NULL}], filled : SUBSET Items,
                 freed : SUBSET Items]
    BY <1>1, <1>2, <2>1 DEF QueueType
  <2>3. threads' \in [pc : [Pushers \union {Popper} -> Pcs], item : Items \union {NULL},
                  nth : [Pushers -> 0 .. MaxPushes]]
    BY <1>1, <1>2 DEF QueueType, Pcs
  <2> QED BY <1>1, <1>2, <2>2, <2>3 DEF QueueType
<1>8. QueueLinks'
  BY <1>1, <1>3, <1>4 DEF QueueLinks
<1>9. QueueAllocated'
  BY <1>1, <1>3, <1>4 DEF QueueAllocated
<1>10. QueueHolder'
  <2>1. object.holder = t
    BY <1>1, <1>2 DEF QueueHolder
  <2>2. \A u \in Pushers : u # t => threads.pc[u] # "count"
    BY <1>1, <2>1 DEF QueueHolder
  <2>3. \A u \in Pushers : threads'.pc[u] # "count" /\ object'.holder # u
    BY <1>3, <1>5, <2>2, QueueConstants
  <2>4. object'.size = Bound'
    <3>1. object.size = Bound - 1 /\ Bound \in Nat
      BY <1>1, <2>1, QueueConstants DEF QueueHolder, QueueType, Bound, Order
    <3> QED BY <1>3, <1>4, <3>1
  <2>5. \A u \in Pushers : threads'.pc[u] \in {"idle", "count", "fill"}
    BY <1>1, <1>5 DEF QueueHolder
  <2>6. \A u \in Pushers : threads'.pc[u] \in {"count", "fill"} =>
          threads'.nth[u] \in 1 .. MaxPushes /\ Latest(u)' \notin object'.filled
    BY <1>1, <1>2, <1>3, <1>4, <1>5 DEF QueueHolder
  <2> QED BY <1>3, <2>3, <2>4, <2>5, <2>6 DEF QueueHolder
<1>11. QueuePopping'
  BY <1>1, <1>4, <1>6 DEF QueuePopping
<1>12. QueuePopped'
  BY <1>1, <1>2, <1>3, <1>4, <1>6 DEF QueuePopped
<1> QED BY <1>7, <1>8, <1>9, <1>10, <1>11, <1>12 DEF QueueInv

(* and filled. *)
LEMMA QueueFill ==
  ASSUME QueueInv, NEW t \in Pushers, List!Fill(t)
  PROVE  QueueInv'
<1>1. QueueType /\ QueueLinks /\ QueueAllocated /\ QueueHolder /\ QueuePopping /\ QueuePopped
  BY DEF QueueInv
<1>2. /\ threads.pc[t] = "fill"
      /\ object' = [object EXCEPT !.filled = @ \union {Latest(t)}]
      /\ threads' = [threads EXCEPT !.pc[t] = "idle"] /\ ghost' = ghost
  BY DEF List!Fill, List!At, List!MoveTo, Latest
<1>3. /\ object'.size = object.size /\ object'.holder = object.holder
      /\ object'.head = object.head /\ object'.tail = object.tail
      /\ object'.next = object.next /\ object'.prev = object.prev
      /\ object'.filled = object.filled \union {Latest(t)} /\ object'.freed = object.freed
  BY <1>1, <1>2 DEF QueueType
<1>4. /\ threads'.pc = [threads.pc EXCEPT ![t] = "idle"] /\ threads'.item = threads.item
      /\ threads'.nth = threads.nth /\ Order' = Order /\ Bound' = Bound
  BY <1>1, <1>2 DEF QueueType, Order, Bound
<1>5. \A u \in Pushers : threads'.pc[u] = (IF u = t THEN "idle" ELSE threads.pc[u])
      /\ Latest(u)' = Latest(u)
  BY <1>1, <1>4 DEF QueueType, Latest
<1>6. threads'.pc[Popper] = threads.pc[Popper]
  BY <1>1, <1>4, QueueConstants DEF QueueType
<1>13. Latest(t) \in Items /\ Latest(t)[1] = t /\ Latest(t)[2] = threads.nth[t]
       /\ threads.nth[t] \in Nat
  BY <1>1, <1>2, QueueConstants DEF QueueHolder, Latest
<1>7. QueueType'
  <2>1. object'.filled \in SUBSET Items
    BY <1>1, <1>3, <1>13 DEF QueueType
  <2> QED BY <1>1, <1>2, <2>1 DEF QueueType, Pcs
<1>8. QueueLinks'
  BY <1>1, <1>3, <1>4 DEF QueueLinks
<1>9. QueueAllocated'
  BY <1>1, <1>3, <1>4, <1>13 DEF QueueAllocated
<1>10. QueueHolder'
  <2>1. \A u \in Pushers : threads'.pc[u] \in {"idle", "count", "fill"}
    BY <1>1, <1>5 DEF QueueHolder
  <2>2. object.holder # t
    BY <1>1, <1>2 DEF QueueHolder
  <2>3. \A u \in Pushers : threads'.pc[u] = "count" <=> object'.holder = u
    BY <1>1, <1>3, <1>5, <2>2 DEF QueueHolder
  <2>4. \A u \in Pushers : u # t => Latest(u) # Latest(t)
    BY DEF Latest
  <2>5. \A u \in Pushers : threads'.pc[u] \in {"count", "fill"} =>
          threads'.nth[u] \in 1 .. MaxPushes /\ Latest(u)' \notin object'.filled
    BY <1>1, <1>3, <1>4, <1>5, <2>4 DEF QueueHolder
  <2>6. \A u \in Pushers : threads'.pc[u] = "count" => \E i \in 1 .. Bound' : Order'[i] = Latest(u)'
    BY <1>1, <1>4, <1>5 DEF QueueHolder
  <2>7. object'.size = (IF object'.holder = NULL THEN Bound' ELSE Bound' - 1)
    BY <1>1, <1>3, <1>4 DEF QueueHolder
  <2> QED BY <2>1, <2>3, <2>5, <2>6, <2>7 DEF QueueHolder
<1>11. QueuePopping'
  BY <1>1, <1>4, <1>6 DEF QueuePopping
<1>12. QueuePopped'
  BY <1>1, <1>2, <1>3, <1>4, <1>6 DEF QueuePopped
<1> QED BY <1>7, <1>8, <1>9, <1>10, <1>11, <1>12 DEF QueueInv

(* The tail is read, *)
LEMMA QueuePopTail ==
  ASSUME QueueInv, List!PopTail
  PROVE  QueueInv'
<1>1. QueueType /\ QueueLinks /\ QueueAllocated /\ QueueHolder /\ QueuePopping /\ QueuePopped
  BY DEF QueueInv
<1>2. /\ threads.pc[Popper] = "idle" /\ object.tail # NULL
      /\ threads' = [threads EXCEPT !.pc[Popper] = "data", !.item = object.tail]
      /\ object' = object /\ ghost' = ghost
  BY DEF List!PopTail, List!At
<1>3. /\ threads'.pc = [threads.pc EXCEPT ![Popper] = "data"] /\ threads'.item = object.tail
      /\ threads'.nth = threads.nth /\ Order' = Order /\ Bound' = Bound
  BY <1>1, <1>2 DEF QueueType, Order, Bound
<1>4. /\ threads'.pc[Popper] = "data"
      /\ \A u \in Pushers : threads'.pc[u] = threads.pc[u] /\ Latest(u)' = Latest(u)
  BY <1>1, <1>3, QueueConstants DEF QueueType, Latest
<1>5. Bound # 0 /\ Bound \in 1 .. Bound /\ object.tail = Order[Bound] /\ object.tail \in Items
  BY <1>1, <1>2 DEF QueueLinks, Chain, QueueType, Bound, Order
<1>6. QueueType'
  BY <1>1, <1>2 DEF QueueType, Pcs
<1>7. QueueLinks' /\ QueueAllocated' /\ QueueHolder'
  BY <1>1, <1>2, <1>3, <1>4 DEF QueueLinks, QueueAllocated, QueueHolder
<1>8. QueuePopping'
  <2>1. object.tail[2] <= threads.nth[object.tail[1]]
    BY <1>1, <1>5 DEF QueueAllocated
  <2>2. object.tail # NULL /\ threads'.item = object.tail
    BY <1>2, <1>3
  <2> QED BY <1>3, <1>4, <1>5, <2>1, <2>2 DEF QueuePopping
<1>9. QueuePopped'
  BY <1>1, <1>2, <1>3, <1>4 DEF QueuePopped
<1> QED BY <1>6, <1>7, <1>8, <1>9 DEF QueueInv

(* and the data behind it: of an item that is the tail, and that has not   *)
(* been popped before with its data.                                       *)
LEMMA QueuePopData ==
  ASSUME QueueInv, List!PopData
  PROVE  QueueInv'
<1> DEFINE x == threads.item
<1>1. QueueType /\ QueueLinks /\ QueueAllocated /\ QueueHolder /\ QueuePopping /\ QueuePopped
  BY DEF QueueInv
<1>2. /\ threads.pc[Popper] = "data"
      /\ ghost' = [ghost EXCEPT !.pops[x] = IF @ < 2 THEN @ + 1 ELSE 2,
                                !.early = @ \union ({x} \ object.filled)]
      /\ threads' = [threads EXCEPT !.pc[Popper] = "test"] /\ object' = object
  BY DEF List!PopData, List!At, List!MoveTo
<1>3. Bound # 0 /\ Bound \in 1 .. Bound /\ x = Order[Bound] /\ x \in Items
  BY <1>1, <1>2 DEF QueuePopping, QueueType, Bound, Order
<1>4. /\ threads'.pc = [threads.pc EXCEPT ![Popper] = "test"] /\ threads'.item = x
      /\ threads'.nth = threads.nth /\ Order' = Order /\ Bound' = Bound
      /\ ghost'.pops = [ghost.pops EXCEPT ![x] = IF @ < 2 THEN @ + 1 ELSE 2]
      /\ ghost'.early = ghost.early \union ({x} \ object.filled)
  BY <1>1, <1>2 DEF QueueType, Order, Bound
<1>5. /\ threads'.pc[Popper] = "test"
      /\ \A u \in Pushers : threads'.pc[u] = threads.pc[u] /\ Latest(u)' = Latest(u)
  BY <1>1, <1>4, QueueConstants DEF QueueType, Latest
<1>6. QueueType'
  <2>1. ghost.pops \in [Items -> 0 .. 2] /\ ghost.early \in SUBSET Items
    BY <1>1 DEF QueueType
  <2>2. ghost'.pops \in [Items -> 0 .. 2] /\ ghost'.early \in SUBSET Items
    BY <1>3, <1>4, <2>1
  <2>3. ghost' \in [order : Seq(Items), pops : [Items -> 0 .. 2], early : SUBSET Items,
                    deleted : {"no", "yes", "crash"}]
    BY <1>1, <1>2, <2>2 DEF QueueType
  <2> QED BY <1>1, <1>2, <2>3 DEF QueueType, Pcs
<1>7. QueueLinks' /\ QueueAllocated' /\ QueueHolder'
  BY <1>1, <1>2, <1>4, <1>5 DEF QueueLinks, QueueAllocated, QueueHolder
<1>8. QueuePopping'
  BY <1>1, <1>2, <1>4, <1>5 DEF QueuePopping
<1>9. QueuePopped'
  <2> SUFFICES ASSUME NEW y \in Items, ghost'.pops[y] # 0, y \notin ghost'.early
               PROVE  /\ ghost'.pops[y] = 1 /\ y \in object'.filled
                      /\ \/ \A i \in 1 .. Bound' : Order'[i] # y
                         \/ threads'.pc[Popper] \in {"test", "unlink"} /\ threads'.item = y
    BY DEF QueuePopped
  <2>1. y \notin ghost.early
    BY <1>4
  <2>2. CASE y = x
    <3>1. x \in object.filled
      BY <1>4, <2>2
    <3>2. ghost.pops[x] = 0
      BY <1>1, <1>2, <1>3, <2>1, <2>2 DEF QueuePopped
    <3>3. ghost'.pops[x] = 1
      BY <1>1, <1>3, <1>4, <3>2 DEF QueueType
    <3> QED BY <1>2, <1>4, <1>5, <2>2, <3>1, <3>3
  <2>3. CASE y # x
    <3>1. ghost'.pops[y] = ghost.pops[y]
      BY <1>1, <1>3, <1>4, <2>3 DEF QueueType
    <3> QED BY <1>1, <1>2, <1>4, <2>1, <3>1 DEF QueuePopped
  <2> QED BY <2>2, <2>3
<1> QED BY <1>6, <1>7, <1>8, <1>9 DEF QueueInv

(* The test of the size lets an item through that was popped with its data, *)
(* since the size counts it.                                               *)
LEMMA QueueRemoveTest ==
  ASSUME QueueInv, List!RemoveTest
  PROVE  QueueInv'
<1> DEFINE x == threads.item
<1>1. QueueType /\ QueueLinks /\ QueueAllocated /\ QueueHolder /\ QueuePopping /\ QueuePopped
  BY DEF QueueInv
<1>2. /\ threads.pc[Popper] = "test" /\ object' = object /\ ghost' = ghost
      /\ threads' = IF object.size = 0
                    THEN [threads EXCEPT !.pc[Popper] = "idle", !.item = NULL]
                    ELSE [threads EXCEPT !.pc[Popper] = "unlink"]
  BY DEF List!RemoveTest, List!At
<1>3. Bound # 0 /\ Bound \in Nat /\ Bound \in 1 .. Bound /\ x = Order[Bound] /\ x \in Items /\ x # NULL
  BY <1>1, <1>2, QueueConstants DEF QueuePopping, QueueType, Bound, Order
<1>4. /\ threads'.nth = threads.nth /\ Order' = Order /\ Bound' = Bound
      /\ threads'.pc = [threads.pc EXCEPT ![Popper] = IF object.size = 0 THEN "idle" ELSE "unlink"]
      /\ threads'.item = IF object.size = 0 THEN NULL ELSE x
  BY <1>1, <1>2 DEF QueueType, Order, Bound
<1>5. /\ threads'.pc[Popper] = IF object.size = 0 THEN "idle" ELSE "unlink"
      /\ \A u \in Pushers : threads'.pc[u] = threads.pc[u] /\ Latest(u)' = Latest(u)
  BY <1>1, <1>4, QueueConstants DEF QueueType, Latest
<1>6. QueueType'
  BY <1>1, <1>2 DEF QueueType, Pcs
<1>7. QueueLinks' /\ QueueAllocated' /\ QueueHolder'
  BY <1>1, <1>2, <1>4, <1>5 DEF QueueLinks, QueueAllocated, QueueHolder
<1>8. QueuePopping'
  <2>1. CASE object.size = 0
    BY <1>4, <1>5, <2>1 DEF QueuePopping
  <2>2. CASE object.size # 0
    BY <1>1, <1>2, <1>3, <1>4, <1>5, <2>2 DEF QueuePopping
  <2> QED BY <2>1, <2>2
<1>9. x \in object.filled => object.size # 0
  <2> SUFFICES ASSUME x \in object.filled, object.size = 0 PROVE FALSE
    OBVIOUS
  <2>1. object.holder # NULL /\ Bound = 1
    BY <1>1, <1>3 DEF QueueHolder
  <2>2. PICK t \in Pushers : object.holder = t
    BY <1>1, <2>1 DEF QueueType
  <2>3. threads.pc[t] = "count"
    BY <1>1, <2>2 DEF QueueHolder
  <2>4. PICK i \in 1 .. Bound : Order[i] = Latest(t)
    BY <1>1, <2>3 DEF QueueHolder
  <2>5. Latest(t) \notin object.filled
    BY <1>1, <2>3 DEF QueueHolder
  <2>6. i = Bound
    BY <2>1
  <2> QED BY <1>3, <2>4, <2>5, <2>6
<1>10. QueuePopped'
  <2> SUFFICES ASSUME NEW y \in Items, ghost.pops[y] # 0, y \notin ghost.early
               PROVE  /\ ghost.pops[y] = 1 /\ y \in object.filled
                      /\ \/ \A i \in 1 .. Bound : Order[i] # y
                         \/ threads'.pc[Popper] \in {"test", "unlink"} /\ threads'.item = y
    BY <1>2, <1>4 DEF QueuePopped
  <2>1. /\ ghost.pops[y] = 1 /\ y \in object.filled
        /\ (\A i \in 1 .. Bound : Order[i] # y) \/ x = y
    BY <1>1 DEF QueuePopped
  <2> QED BY <1>4, <1>5, <1>9, <2>1
<1> QED BY <1>6, <1>7, <1>8, <1>10 DEF QueueInv

(* The last item is taken off the list, *)
LEMMA QueueRemoveItem ==
  ASSUME QueueInv, List!RemoveItem
  PROVE  QueueInv'
<1> DEFINE n == Bound
           x == threads.item
<1>1. QueueType /\ QueueLinks /\ QueueAllocated /\ QueueHolder /\ QueuePopping /\ QueuePopped
  BY DEF QueueInv
<1>2. /\ threads.pc[Popper] = "unlink" /\ object.holder = NULL
      /\ object' = [List!Unlinked(object, x) EXCEPT !.size = @ - 1]
      /\ ghost' = [ghost EXCEPT !.order = List!Without(@, x)]
      /\ threads' = [threads EXCEPT !.pc[Popper] = "free"]
  BY DEF List!RemoveItem, List!At, List!MoveTo
<1>3. n # 0 /\ n \in Nat /\ n \in 1 .. n /\ x = Order[n] /\ x \in Items /\ x # NULL
      /\ Order \in Seq(Items) /\ \A j \in 1 .. n : Order[j] \in Items
  BY <1>1, <1>2, QueueConstants DEF QueuePopping, QueueType, Bound, Order
<1>4. /\ \A j, k \in 1 .. n : Order[j] = Order[k] => j = k
      /\ object.head = Order[1] /\ object.tail = Order[n]
      /\ object.next[x] = NULL /\ object.prev[x] = IF n = 1 THEN NULL ELSE Order[n - 1]
  BY <1>1, <1>3 DEF QueueLinks, Chain, Bound
<1>5. n # 1 => n - 1 \in 1 .. n /\ Order[n - 1] \in Items /\ Order[n - 1] # NULL
  <2>1. n # 1 => n - 1 \in 1 .. n
    BY <1>3
  <2> QED BY <1>3, <2>1, QueueConstants
<1>6. /\ object'.head = IF n = 1 THEN NULL ELSE object.head
      /\ object'.next = IF n = 1 THEN object.next ELSE [object.next EXCEPT ![Order[n - 1]] = NULL]
      /\ object'.tail = IF n = 1 THEN NULL ELSE Order[n - 1]
      /\ object'.prev = object.prev /\ object'.size = object.size - 1
      /\ object'.holder = NULL /\ object'.filled = object.filled /\ object'.freed = object.freed
      /\ object' = [head |-> object'.head, tail |-> object'.tail, size |-> object.size - 1,
            holder |-> NULL, next |-> object'.next, prev |-> object.prev,
            filled |-> object.filled, freed |-> object.freed]
  <2>1. CASE n = 1
    BY <1>1, <1>2, <1>4, <2>1 DEF List!Unlinked, QueueType
  <2>2. CASE n # 1
    BY <1>1, <1>2, <1>4, <1>5, <2>2 DEF List!Unlinked, QueueType
  <2> QED BY <2>1, <2>2
<1>7. /\ Order' = List!Without(Order, x) /\ ghost'.pops = ghost.pops
      /\ ghost'.early = ghost.early /\ ghost' = [ghost EXCEPT !.order = Order']
  BY <1>1, <1>2 DEF QueueType, Order
<1>8. Order' \in Seq(Items) /\ Bound' = n - 1 /\ (\A j \in 1 .. n - 1 : Order'[j] = Order[j])
  <2>1. /\ Order \in Seq(Items) /\ Len(Order) # 0 /\ Order' = List!Without(Order, Order[Len(Order)])
        /\ \A j, k \in 1 .. Len(Order) : Order[j] = Order[k] => j = k
    BY <1>3, <1>4, <1>7 DEF Bound
  <2>2. Order' \in Seq(Items) /\ Len(Order') = Len(Order) - 1
        /\ \A j \in 1 .. Len(Order) - 1 : Order'[j] = Order[j]
    BY <2>1, WithoutLast, Zenon
  <2> QED BY <2>2 DEF Bound
<1>9. /\ threads'.pc = [threads.pc EXCEPT ![Popper] = "free"] /\ threads'.item = x
      /\ threads'.nth = threads.nth
  BY <1>1, <1>2 DEF QueueType
<1>10. /\ threads'.pc[Popper] = "free"
       /\ \A u \in Pushers : threads'.pc[u] = threads.pc[u] /\ Latest(u)' = Latest(u)
  BY <1>1, <1>9, QueueConstants DEF QueueType, Latest
<1> HIDE DEF n, x
<1>11. \A j \in 1 .. n - 1 : Order'[j] = Order[j] /\ j \in 1 .. n /\ Order'[j] # x
  BY <1>3, <1>4, <1>8
<1>12. QueueType'
  <2>1. object.next \in [Items -> Items \union {NULL}] /\ object.head \in Items \union {NULL}
    BY <1>1 DEF QueueType
  <2>2. object'.next \in [Items -> Items \union {NULL}]
    BY <1>5, <1>6, <2>1
  <2>3. object'.head \in Items \union {NULL} /\ object'.tail \in Items \union {NULL}
    BY <1>5, <1>6, <2>1
  <2>4. object' \in [head : Items \union {NULL}, tail : Items \union {NULL}, size : Int,
                 holder : Pushers \union {NULL}, next : [Items -> Items \union {NULL}],
                 prev : [Items -> Items \union {NULL}], filled : SUBSET Items,
                 freed : SUBSET Items]
    <3>1. object.size - 1 \in Int
      BY <1>1 DEF QueueType
    <3> QED BY <1>1, <1>6, <2>2, <2>3, <3>1 DEF QueueType
  <2>5. ghost' \in [order : Seq(Items), pops : [Items -> 0 .. 2], early : SUBSET Items,
                deleted : {"no", "yes", "crash"}]
    BY <1>1, <1>7, <1>8 DEF QueueType
  <2>6. threads' \in [pc : [Pushers \union {Popper} -> Pcs], item : Items \union {NULL},
                  nth : [Pushers -> 0 .. MaxPushes]]
    BY <1>1, <1>2 DEF QueueType, Pcs
  <2> QED BY <2>4, <2>5, <2>6 DEF QueueType
<1>13. QueueLinks'
  <2>1. \A y \in Items : object'.next[y] = IF n # 1 /\ y = Order[n - 1] THEN NULL ELSE object.next[y]
    <3>1. object.next \in [Items -> Items \union {NULL}]
      BY <1>1 DEF QueueType
    <3> QED BY <1>5, <1>6, <3>1
  <2>2. n # 1 => object'.next[Order[n - 1]] = NULL
    BY <1>5, <2>1
  <2>3. \A j \in 1 .. n : j # n - 1 => object'.next[Order[j]] = object.next[Order[j]]
    BY <1>3, <1>4, <1>5, <2>1
  <2>4. /\ Order \in Seq(Items) /\ Chain(Order, object.next, object.prev, object.head, object.tail)
        /\ Len(Order) # 0 /\ Order' \in Seq(Items) /\ Len(Order') = Len(Order) - 1
        /\ (\A j \in 1 .. Len(Order) - 1 : Order'[j] = Order[j])
    BY <1>1, <1>3, <1>8 DEF QueueLinks, Bound, n
  <2>5. UnlinkedLast(Order, object.next, object.head, object'.next, object'.head, object'.tail)
    BY <1>6, <2>2, <2>3 DEF UnlinkedLast, n, Bound
  <2>6. Chain(Order', object'.next, object.prev, object'.head, object'.tail)
    BY <2>4, <2>5, ChainRemoveLast, Zenon
  <2> QED BY <1>6, <2>6 DEF QueueLinks
<1>14. QueueAllocated'
  BY <1>1, <1>6, <1>8, <1>9, <1>11 DEF QueueAllocated, n
<1>15. QueueHolder'
  <2>1. \A u \in Pushers : threads.pc[u] # "count"
    BY <1>1, <1>2, QueueConstants DEF QueueHolder
  <2>2. object'.size = n - 1
    BY <1>1, <1>2, <1>6 DEF QueueHolder, n
  <2>3. \A u \in Pushers : threads'.pc[u] \in {"idle", "count", "fill"}
        /\ (threads'.pc[u] = "count" <=> object'.holder = u)
    BY <1>1, <1>6, <1>10, <2>1, QueueConstants DEF QueueHolder
  <2>4. \A u \in Pushers : threads'.pc[u] \in {"count", "fill"} =>
          threads'.nth[u] \in 1 .. MaxPushes /\ Latest(u)' \notin object'.filled
    BY <1>1, <1>6, <1>9, <1>10 DEF QueueHolder
  <2> QED BY <1>6, <1>8, <1>10, <2>1, <2>2, <2>3, <2>4 DEF QueueHolder
<1>16. QueuePopping'
  <2>1. threads'.item[2] <= threads'.nth[threads'.item[1]]
    BY <1>1, <1>3, <1>9 DEF QueuePopping, x
  <2> QED BY <1>3, <1>8, <1>9, <1>10, <1>11, <2>1 DEF QueuePopping
<1>17. QueuePopped'
  <2> SUFFICES ASSUME NEW y \in Items, ghost.pops[y] # 0, y \notin ghost.early
               PROVE  /\ ghost.pops[y] = 1 /\ y \in object.filled
                      /\ \A j \in 1 .. n - 1 : Order'[j] # y
    BY <1>6, <1>7, <1>8 DEF QueuePopped
  <2>1. /\ ghost.pops[y] = 1 /\ y \in object.filled
        /\ (\A i \in 1 .. n : Order[i] # y) \/ x = y
    BY <1>1 DEF QueuePopped, n, x
  <2> QED BY <1>11, <2>1
<1> QED BY <1>12, <1>13, <1>14, <1>15, <1>16, <1>17 DEF QueueInv

(* and freed. *)
LEMMA QueueFree ==
  ASSUME QueueInv, List!Free
  PROVE  QueueInv'
<1> DEFINE x == threads.item
<1>1. QueueType /\ QueueLinks /\ QueueAllocated /\ QueueHolder /\ QueuePopping /\ QueuePopped
  BY DEF QueueInv
<1>2. /\ threads.pc[Popper] = "free" /\ ghost' = ghost
      /\ object' = [object EXCEPT !.freed = @ \union {x}]
      /\ threads' = [threads EXCEPT !.pc[Popper] = "idle", !.item = NULL]
  BY DEF List!Free, List!At
<1>3. x \in Items /\ x[2] <= threads.nth[x[1]] /\ \A i \in 1 .. Bound : Order[i] # x
  BY <1>1, <1>2 DEF QueuePopping, QueueType
<1>4. /\ threads'.nth = threads.nth /\ Order' = Order /\ Bound' = Bound
      /\ threads'.pc = [threads.pc EXCEPT ![Popper] = "idle"] /\ threads'.item = NULL
  BY <1>1, <1>2 DEF QueueType, Order, Bound
<1>5. /\ threads'.pc[Popper] = "idle"
      /\ \A u \in Pushers : threads'.pc[u] = threads.pc[u] /\ Latest(u)' = Latest(u)
  BY <1>1, <1>4, QueueConstants DEF QueueType, Latest
<1>6. /\ object'.size = object.size /\ object'.holder = object.holder
      /\ object'.head = object.head /\ object'.tail = object.tail
      /\ object'.next = object.next /\ object'.prev = object.prev
      /\ object'.filled = object.filled /\ object'.freed = object.freed \union {x}
  BY <1>1, <1>2 DEF QueueType
<1>7. QueueType'
  <2>1. object'.freed \in SUBSET Items
    BY <1>1, <1>3, <1>6 DEF QueueType
  <2> QED BY <1>1, <1>2, <2>1 DEF QueueType, Pcs
<1>8. QueueLinks' /\ QueueHolder'
  BY <1>1, <1>4, <1>5, <1>6 DEF QueueLinks, QueueHolder
<1>9. QueueAllocated'
  BY <1>1, <1>3, <1>4, <1>6 DEF QueueAllocated
<1>10. QueuePopping'
  BY <1>4, <1>5 DEF QueuePopping
<1>11. QueuePopped'
  BY <1>1, <1>2, <1>4, <1>5, <1>6 DEF QueuePopped
<1> QED BY <1>7, <1>8, <1>9, <1>10, <1>11 DEF QueueInv

LEMMA QueueDelete ==
  ASSUME QueueInv, List!Delete
  PROVE  QueueInv'
<1>1. QueueType /\ QueueLinks /\ QueueAllocated /\ QueueHolder /\ QueuePopping /\ QueuePopped
  BY DEF QueueInv
<1>2. /\ object' = object /\ threads' = threads
      /\ ghost' = [ghost EXCEPT !.deleted = IF object.head = NULL THEN "yes" ELSE "crash"]
  BY DEF List!Delete
<1>3. /\ Order' = Order /\ Bound' = Bound /\ ghost'.pops = ghost.pops /\ ghost'.early = ghost.early
      /\ \A u : Latest(u)' = Latest(u)
  BY <1>1, <1>2 DEF QueueType, Order, Bound, Latest
<1>4. QueueType'
  BY <1>1, <1>2 DEF QueueType
<1>5. QueueLinks' /\ QueueAllocated' /\ QueueHolder' /\ QueuePopping' /\ QueuePopped'
  BY <1>1, <1>2, <1>3 DEF QueueLinks, QueueAllocated, QueueHolder, QueuePopping, QueuePopped
<1> QED BY <1>4, <1>5 DEF QueueInv

LEMMA QueueStep == QueueInv /\ List!Next => QueueInv'
<1> SUFFICES ASSUME QueueInv, List!Next PROVE QueueInv'
  OBVIOUS
<1>1. ASSUME NEW t \in Pushers, NEW after \in Items \union {NULL}, List!Link(t, after) PROVE QueueInv'
  BY <1>1, QueueLink
<1>2. ASSUME NEW t \in Pushers, List!Count(t) PROVE QueueInv'
  BY <1>2, QueueCount
<1>3. ASSUME NEW t \in Pushers, List!Fill(t) PROVE QueueInv'
  BY <1>3, QueueFill
<1>4. \/ \E t \in Pushers : (\E after \in Items \union {NULL} : List!Link(t, after))
                            \/ List!Count(t) \/ List!Fill(t)
      \/ List!PopTail \/ List!PopData \/ List!RemoveTest \/ List!RemoveItem \/ List!Free
      \/ List!Delete
  BY DEF List!Next, Items
<1> QED BY <1>1, <1>2, <1>3, <1>4, QueuePopTail, QueuePopData, QueueRemoveTest, QueueRemoveItem,
           QueueFree, QueueDelete

LEMMA QueueCardinality == \A S : List!Cardinality(S) = Cardinality(S)
BY DEF List!Cardinality, Cardinality, List!IsFiniteSet, IsFiniteSet

(* A walk along a field meets the items of an order, if the field links    *)
(* each to the next.                                                       *)
Threaded(o, field, x) ==
  /\ \A i, j \in 1 .. Len(o) : o[i] = o[j] => i = j
  /\ x = IF Len(o) = 0 THEN NULL ELSE o[1]
  /\ \A i \in 1 .. Len(o) : field[o[i]] = IF i = Len(o) THEN NULL ELSE o[i + 1]

LEMMA WalkAlong ==
  ASSUME NEW o \in Seq(Items), NEW field, NEW x,
         Threaded(o, field, x)
  PROVE  List!Along(field, x) = [i \in 1 .. Len(o) |-> o[i]]
<1> DEFINE n == Len(o)
           m == List!Cardinality(List!Items) + 1
<1>1. n \in Nat /\ m \in Nat /\ n < m
  <2>1. o \in [1 .. n -> Items]
    OBVIOUS
  <2>2. o \in Injection(1 .. n, Items)
    BY <2>1 DEF Injection, IsInjective, Threaded
  <2>3. IsFiniteSet(Items) /\ Cardinality(Items) \in Nat
    BY QueueConstants, FS_CardinalityType
  <2>4. Cardinality(1 .. n) <= Cardinality(Items)
    BY <2>2, <2>3, FS_Injection
  <2>5. n \in Nat /\ Cardinality(1 .. n) = n
    <3>1. n \in Nat
      OBVIOUS
    <3> HIDE DEF n
    <3>2. 1 \in Int /\ n \in Int /\ (1 > n <=> n = 0) /\ n - 1 + 1 = n
      BY <3>1
    <3>3. Cardinality(1 .. n) = IF 1 > n THEN 0 ELSE n - 1 + 1
      BY <3>2, FS_Interval
    <3> QED BY <3>1, <3>2, <3>3
  <2>6. m = Cardinality(Items) + 1
    BY QueueCardinality DEF Items
  <2> HIDE DEF n, m
  <2> QED BY <2>3, <2>4, <2>5, <2>6
<1>2. \A j \in 1 .. n : o[j] \in Items /\ o[j] # NULL
  BY QueueConstants
<1>3. /\ x = IF n = 0 THEN NULL ELSE o[1]
      /\ \A i \in 1 .. n : field[o[i]] = IF i = n THEN NULL ELSE o[i + 1]
  BY DEF Threaded
<1> HIDE DEF n
<1> DEFINE one(g, i) == IF i = 1 THEN x ELSE IF g[i - 1] = NULL THEN NULL ELSE field[g[i - 1]]
           step(g) == [i \in 1 .. m |-> one(g, i)]
           at == CHOOSE g : g = step(g)
           met(i) == IF i <= n THEN o[i] ELSE NULL
           walk == [i \in 1 .. m |-> met(i)]
<1> HIDE DEF m
<1>4. ASSUME NEW g, NEW i \in 1 .. m, i # 1 => g[i - 1] = met(i - 1) PROVE one(g, i) = met(i)
  <2>1. CASE i = 1
    BY <1>1, <1>3, <2>1
  <2>2. CASE i # 1
    <3>1. (i - 1) + 1 = i /\ i - 1 \in Nat /\ i - 1 # 0 /\ i \in Nat
      BY <1>1, <2>2
    <3>2. g[i - 1] = met(i - 1)
      BY <1>4, <2>2
    <3>3. CASE i - 1 <= n
      <4>1. i - 1 \in 1 .. n
        BY <1>1, <3>1, <3>3
      <4>2. g[i - 1] = o[i - 1] /\ g[i - 1] # NULL
        BY <1>2, <3>2, <3>3, <4>1
      <4>3. field[o[i - 1]] = IF i - 1 = n THEN NULL ELSE o[i]
        BY <1>3, <3>1, <4>1
      <4>4. (i - 1 = n) <=> ~(i <= n)
        BY <1>1, <3>1, <3>3
      <4> QED BY <2>2, <4>2, <4>3, <4>4
    <3>4. CASE ~(i - 1 <= n)
      BY <1>1, <2>2, <3>1, <3>2, <3>4
    <3> QED BY <3>3, <3>4
  <2> QED BY <2>1, <2>2
<1>5. at = step(at)
  <2>1. ASSUME NEW i \in 1 .. m PROVE one(walk, i) = met(i)
    <3>1. i # 1 => walk[i - 1] = met(i - 1)
      BY <1>1
    <3> HIDE DEF walk, met, one
    <3> QED BY <1>4, <3>1
  <2>2. walk = step(walk)
    <3> HIDE DEF met, one
    <3> QED BY <2>1
  <2> HIDE DEF walk, step
  <2> QED BY <2>2
<1>6. \A i \in 1 .. m : at[i] = met(i)
  <2> DEFINE H == {i \in 0 .. m : i # 0 => at[i] = met(i)}
  <2>1. 0 \in H
    BY <1>1
  <2>2. ASSUME NEW i \in 1 .. m, i - 1 \in H PROVE i \in H
    <3> HIDE DEF at, met, one
    <3>1. at[i] = one(at, i)
      BY <1>5
    <3>2. i # 1 => at[i - 1] = met(i - 1)
      BY <1>1, <2>2
    <3>3. one(at, i) = met(i)
      BY <1>4, <3>2
    <3> QED BY <1>1, <3>1, <3>3
  <2> HIDE DEF H
  <2>3. 0 .. m \subseteq H
    BY <1>1, <2>1, <2>2, UpTo
  <2>4. ASSUME NEW i \in 1 .. m PROVE at[i] = met(i)
    <3>1. i \in 0 .. m /\ i # 0
      BY <1>1
    <3> QED BY <2>3, <3>1 DEF H
  <2> QED BY <2>4
<1>7. DOMAIN at = 1 .. m
  <2> HIDE DEF at
  <2> QED BY <1>5
<1> HIDE DEF at
<1>8. {j \in DOMAIN at : at[j] # NULL} = 1 .. n
  BY <1>1, <1>2, <1>6, <1>7
<1>9. Cardinality(1 .. n) = n
  <2>1. 1 \in Int /\ n \in Int /\ (1 > n <=> n = 0) /\ n - 1 + 1 = n
    BY <1>1
  <2>2. Cardinality(1 .. n) = IF 1 > n THEN 0 ELSE n - 1 + 1
    BY <2>1, FS_Interval
  <2> QED BY <2>1, <2>2
<1>10. List!Along(field, x)
         = [i \in 1 .. Cardinality({j \in DOMAIN at : at[j] # NULL}) |-> at[i]]
  <2>1. List!Along(field, x)
          = [i \in 1 .. List!Cardinality({j \in DOMAIN at : at[j] # NULL}) |-> at[i]]
    BY DEF List!Along, at, m
  <2> QED BY <2>1, QueueCardinality
<1>11. \A i \in 1 .. n : at[i] = o[i]
  BY <1>1, <1>6
<1>12. List!Along(field, x) = [i \in 1 .. n |-> at[i]]
  BY <1>8, <1>9, <1>10
<1> QED BY <1>11, <1>12 DEF n

LEMMA QueueImplies == QueueInv => List!QueueHolds
<1> SUFFICES ASSUME QueueInv PROVE List!QueueHolds
  OBVIOUS
<1> DEFINE n == Bound
           back == [i \in 1 .. n |-> Order[n + 1 - i]]
<1>1. QueueType /\ QueueLinks /\ QueueAllocated /\ QueueHolder /\ QueuePopping
  BY DEF QueueInv
<1>2. n \in Nat /\ Len(Order) = n /\ Order \in Seq(Items) /\ Order = [i \in 1 .. n |-> Order[i]]
  BY <1>1 DEF QueueType, Order, Bound
<1>3. /\ \A i, j \in 1 .. n : Order[i] = Order[j] => i = j
      /\ object.head = IF n = 0 THEN NULL ELSE Order[1]
      /\ object.tail = IF n = 0 THEN NULL ELSE Order[n]
      /\ \A i \in 1 .. n : object.next[Order[i]] = IF i = n THEN NULL ELSE Order[i + 1]
      /\ \A i \in 1 .. n : object.prev[Order[i]] = IF i = 1 THEN NULL ELSE Order[i - 1]
  BY <1>1 DEF QueueLinks, Chain, Bound
<1>4. List!Along(object.next, object.head) = Order
  <2>1. Threaded(Order, object.next, object.head)
    BY <1>2, <1>3 DEF Threaded
  <2>2. List!Along(object.next, object.head) = [i \in 1 .. Len(Order) |-> Order[i]]
    BY <1>2, <2>1, WalkAlong, Zenon
  <2> QED BY <1>2, <2>2
<1>5. List!Along(object.prev, object.tail) = back
  <2>1. \A i \in 1 .. n : n + 1 - i \in 1 .. n /\ Order[n + 1 - i] \in Items
    <3> HIDE DEF n
    <3>1. \A i \in 1 .. n : n + 1 - i \in 1 .. n
      BY <1>2
    <3> QED BY <1>2, <3>1
  <2>2. back \in Seq(Items) /\ Len(back) = n
    <3> HIDE DEF n
    <3>1. back \in [1 .. n -> Items]
      BY <2>1
    <3> HIDE DEF back
    <3> QED BY <1>2, <3>1, FunctionIsSeq
  <2>3. \A i, j \in 1 .. n : back[i] = back[j] => i = j
    <3> SUFFICES ASSUME NEW i \in 1 .. n, NEW j \in 1 .. n, Order[n + 1 - i] = Order[n + 1 - j]
                 PROVE  i = j
      OBVIOUS
    <3>1. n + 1 - i = n + 1 - j
      BY <1>3, <2>1
    <3> HIDE DEF n
    <3> QED BY <1>2, <3>1
  <2>4. object.tail = IF n = 0 THEN NULL ELSE back[1]
    <3> HIDE DEF n
    <3>1. n # 0 => 1 \in 1 .. n /\ n + 1 - 1 = n
      BY <1>2
    <3> QED BY <1>3, <3>1
  <2>5. ASSUME NEW i \in 1 .. n
        PROVE  object.prev[back[i]] = IF i = n THEN NULL ELSE back[i + 1]
    <3> HIDE DEF n
    <3> DEFINE k == n + 1 - i
    <3>1. k \in 1 .. n /\ (k = 1 <=> i = n) /\ (i # n => i + 1 \in 1 .. n /\ n + 1 - (i + 1) = k - 1)
      BY <1>2
    <3>2. back[i] = Order[k] /\ (i # n => back[i + 1] = Order[k - 1])
      BY <3>1
    <3> HIDE DEF k, back
    <3>3. object.prev[Order[k]] = IF k = 1 THEN NULL ELSE Order[k - 1]
      BY <1>3, <3>1
    <3> QED BY <3>1, <3>2, <3>3
  <2> HIDE DEF back
  <2>6. Threaded(back, object.prev, object.tail)
    BY <2>2, <2>3, <2>4, <2>5 DEF Threaded
  <2>7. List!Along(object.prev, object.tail) = [i \in 1 .. Len(back) |-> back[i]]
    BY <2>2, <2>6, WalkAlong, Zenon
  <2> QED BY <2>2, <2>7 DEF back
<1>6. List!OnList \intersect object.freed = {}
  BY <1>1, <1>2 DEF List!OnList, QueueAllocated, Order, Bound
<1>7. object.size = n - Cardinality({t \in Pushers : threads.pc[t] = "count"})
  <2>1. CASE object.holder = NULL
    <3>1. {t \in Pushers : threads.pc[t] = "count"} = {}
      BY <1>1, <2>1, QueueConstants DEF QueueHolder
    <3>2. Cardinality({t \in Pushers : threads.pc[t] = "count"}) = 0
      BY <3>1, FS_EmptySet
    <3>3. object.size = n
      BY <1>1, <2>1 DEF QueueHolder
    <3> HIDE DEF n
    <3> QED BY <1>2, <3>2, <3>3
  <2>2. CASE object.holder # NULL
    <3>1. {t \in Pushers : threads.pc[t] = "count"} = {object.holder}
      BY <1>1, <2>2 DEF QueueHolder, QueueType
    <3>2. Cardinality({object.holder}) = 1
      BY FS_Singleton
    <3> QED BY <1>1, <2>2, <3>1, <3>2 DEF QueueHolder
  <2> QED BY <2>1, <2>2
<1>8. threads.pc[Popper] \in {"data", "test", "unlink"} => n > 0 /\ threads.item = Order[n]
  BY <1>1, <1>2 DEF QueuePopping
<1> QED BY <1>4, <1>5, <1>6, <1>7, <1>8, QueueCardinality DEF List!QueueHolds, Order, Bound

LEMMA QueueImpliesOnce == QueueInv => List!PopsOnce
<1> SUFFICES ASSUME QueueInv, NEW x \in Items, ghost.pops[x] > 1, x \notin ghost.early PROVE FALSE
  BY DEF List!PopsOnce, Items
<1> QED BY DEF QueueInv, QueuePopped

LEMMA LibraryQueue == Spec => [](part = "queue" => QueueInv)
<1> DEFINE Inv == part = "queue" => QueueInv
<1>1. Init => Inv
  BY QueueStarts DEF Init
<1>2. Inv /\ [Next]_vars => Inv'
  <2> SUFFICES ASSUME Inv, [Next]_vars, part' = "queue" PROVE QueueInv'
    OBVIOUS
  <2>1. CASE UNCHANGED vars
    <3>1. object' = object /\ ghost' = ghost /\ threads' = threads /\ part = "queue"
      BY <2>1 DEF vars
    <3>2. Order' = Order /\ Bound' = Bound /\ \A t : Latest(t)' = Latest(t)
      BY <3>1 DEF Order, Bound, Latest
    <3>3. QueueInv
      BY <3>1
    <3>4. QueueType'
      BY <3>1, <3>3 DEF QueueInv, QueueType
    <3>5. QueueLinks' /\ QueueAllocated'
      BY <3>1, <3>2, <3>3 DEF QueueInv, QueueLinks, QueueAllocated
    <3>6. QueueHolder'
      BY <3>1, <3>2, <3>3 DEF QueueInv, QueueHolder
    <3>7. QueuePopping' /\ QueuePopped'
      BY <3>1, <3>2, <3>3 DEF QueueInv, QueuePopping, QueuePopped
    <3> QED BY <3>4, <3>5, <3>6, <3>7 DEF QueueInv
  <2>2. CASE Next
    <3>1. part' = part /\ List!Next
      BY <2>2 DEF Next, UseHeap, UseVector, UseTree, UseMap, UseQueue, UseTimer, UseGetopt,
         UseHttp, UseSort, UseUrl, UseMd5, UseSerial
    <3> QED BY <3>1, QueueStep
  <2> QED BY <2>1, <2>2
<1> QED BY <1>1, <1>2, PTL DEF Spec

(* Whatever threads push and one pops, the pointers of the list say, both  *)
(* ways, what was inserted and not removed, its size counts it, nothing on *)
(* it is freed, and the item that is popped without the mutex is its last. *)
THEOREM LibraryQueueHolds == Spec => []QueueHolds
<1>1. (part = "queue" => QueueInv) => QueueHolds
  BY QueueImplies DEF QueueHolds
<1> QED BY <1>1, LibraryQueue, PTL

(* No item is popped twice but one that was popped before it was filled.   *)
THEOREM LibraryPopsOnce == Spec => []PopsOnce
<1>1. (part = "queue" => QueueInv) => PopsOnce
  BY QueueImpliesOnce DEF PopsOnce
<1> QED BY <1>1, LibraryQueue, PTL

-----------------------------------------------------------------------------
(* The walks of NullList, over n nodes. *)
Steps(n, next, x) ==
  LET at[i \in 1 .. n + 1] == IF i = 1 THEN x
                              ELSE IF at[i - 1] = NULL THEN NULL
                              ELSE next[at[i - 1]]
  IN  at
WalkOver(n, next, x) ==
  [i \in 1 .. Cardinality({j \in 1 .. n + 1 : Steps(n, next, x)[j] # NULL}) |->
     Steps(n, next, x)[i]]

Stepped(at, n, next, x, S) ==
  /\ at \in [1 .. n + 1 -> S \union {NULL}] /\ at[1] = x
  /\ \A i \in 2 .. n + 1 : at[i] = IF at[i - 1] = NULL THEN NULL ELSE next[at[i - 1]]

(* Pointers of a set that lead to it or to NULL *)
Closed(S, next) == NULL \notin S /\ \A t \in S : next[t] \in S \union {NULL}

LEMMA StepsTaken ==
  ASSUME NEW n \in Nat, NEW next, NEW S, Closed(S, next), NEW x \in S \union {NULL}
  PROVE  Stepped(Steps(n, next, x), n, next, x, S)
<1> DEFINE R == S \union {NULL}
           one(s) == IF s = NULL THEN NULL ELSE next[s]
           steps(g) == [i \in 1 .. n + 1 |->
                          IF i = 1 THEN x ELSE IF g[i - 1] = NULL THEN NULL ELSE next[g[i - 1]]]
           at == CHOOSE g : g = steps(g)
           step == [k \in 1 .. n |-> [s \in R |-> one(s)]]
<1>1. step \in [1 .. n -> [R -> R]]
  BY DEF Closed
<1>2. x \in R
  OBVIOUS
<1> HIDE DEF R, step
<1>3. PICK f : Recursive(f, R, x, n, step)
  BY <1>1, <1>2, Recursion
<1>4. f \in [0 .. n -> R] /\ f[0] = x /\ \A k \in 1 .. n : f[k] = step[k][f[k - 1]]
  BY <1>3 DEF Recursive
<1> DEFINE g == [i \in 1 .. n + 1 |-> f[i - 1]]
<1>5. ASSUME NEW i \in 1 .. n + 1, i # 1
      PROVE  f[i - 1] = IF g[i - 1] = NULL THEN NULL ELSE next[g[i - 1]]
  <2>1. i - 1 \in 1 .. n /\ i - 1 \in 1 .. n + 1 /\ (i - 1) - 1 \in 0 .. n
    BY <1>5
  <2>2. g[i - 1] = f[(i - 1) - 1] /\ f[(i - 1) - 1] \in R
    BY <1>4, <2>1
  <2>3. f[i - 1] = step[i - 1][f[(i - 1) - 1]]
    BY <1>4, <2>1
  <2>4. step[i - 1][f[(i - 1) - 1]] = one(f[(i - 1) - 1])
    BY <2>1, <2>2 DEF step
  <2> QED BY <2>2, <2>3, <2>4
<1>6. g = steps(g)
  <2>1. \A i \in 1 .. n + 1 :
          g[i] = IF i = 1 THEN x ELSE IF g[i - 1] = NULL THEN NULL ELSE next[g[i - 1]]
    <3> SUFFICES ASSUME NEW i \in 1 .. n + 1
                 PROVE  g[i] = IF i = 1 THEN x ELSE IF g[i - 1] = NULL THEN NULL ELSE next[g[i - 1]]
      OBVIOUS
    <3>1. CASE i = 1
      BY <1>4, <3>1
    <3>2. CASE i # 1
      <4>1. g[i] = f[i - 1]
        OBVIOUS
      <4> HIDE DEF g
      <4> QED BY <1>5, <3>2, <4>1
    <3> QED BY <3>1, <3>2
  <2>2. g = [i \in 1 .. n + 1 |-> g[i]]
    OBVIOUS
  <2> HIDE DEF g
  <2> QED BY <2>1, <2>2
<1>7. at = steps(at)
  <2> HIDE DEF g, steps
  <2> QED BY <1>6
<1>8. Steps(n, next, x) = at
  BY DEF Steps
<1> HIDE DEF at, one
<1>9. DOMAIN at = 1 .. n + 1 /\ at[1] = x
      /\ \A i \in 2 .. n + 1 : at[i] = IF at[i - 1] = NULL THEN NULL ELSE next[at[i - 1]]
  <2>1. DOMAIN at = 1 .. n + 1
    BY <1>7
  <2>2. \A i \in 1 .. n + 1 : at[i] = IF i = 1 THEN x ELSE IF at[i - 1] = NULL THEN NULL ELSE next[at[i - 1]]
    BY <1>7
  <2>3. 1 \in 1 .. n + 1 /\ \A i \in 2 .. n + 1 : i \in 1 .. n + 1 /\ i # 1
    OBVIOUS
  <2> QED BY <2>1, <2>2, <2>3
<1>10. \A i \in 1 .. n + 1 : at[i] \in R
  <2> DEFINE H == {k \in 0 .. n : at[k + 1] \in R}
  <2>1. 0 \in H
    BY <1>2, <1>9
  <2>2. ASSUME NEW k \in 1 .. n, k - 1 \in H PROVE k \in H
    <3>1. k + 1 \in 2 .. n + 1 /\ (k + 1) - 1 = k /\ (k - 1) + 1 = k
      OBVIOUS
    <3>2. at[k] \in R
      BY <2>2, <3>1
    <3>3. at[k + 1] = IF at[k] = NULL THEN NULL ELSE next[at[k]]
      BY <1>9, <3>1
    <3>4. at[k + 1] \in R
      BY <3>2, <3>3 DEF R, Closed
    <3> QED BY <3>4
  <2> HIDE DEF H
  <2>3. 0 .. n \subseteq H
    BY <2>1, <2>2, UpTo
  <2> SUFFICES ASSUME NEW i \in 1 .. n + 1 PROVE at[i] \in R
    OBVIOUS
  <2>4. i - 1 \in 0 .. n /\ (i - 1) + 1 = i
    OBVIOUS
  <2> QED BY <2>3, <2>4 DEF H
<1>11. at = [i \in 1 .. n + 1 |-> at[i]]
  BY <1>7
<1>12. at \in [1 .. n + 1 -> R]
  BY <1>10, <1>11
<1> QED BY <1>8, <1>9, <1>12 DEF Stepped, R

(* A walk in a closed set meets members of it only. *)
LEMMA WalkStays ==
  ASSUME NEW n \in Nat, NEW next, NEW S, Closed(S, next), NEW x \in S \union {NULL}
  PROVE  /\ DOMAIN WalkOver(n, next, x) = 1 .. Cardinality({j \in 1 .. n + 1 : Steps(n, next, x)[j] # NULL})
         /\ \A i \in DOMAIN WalkOver(n, next, x) : WalkOver(n, next, x)[i] \in S
<1> DEFINE at == Steps(n, next, x)
           H == {j \in 1 .. n + 1 : at[j] # NULL}
<1>1. WalkOver(n, next, x) = [i \in 1 .. Cardinality(H) |-> at[i]]
  BY DEF WalkOver
<1>2. Stepped(at, n, next, x, S)
  BY StepsTaken
<1> HIDE DEF at
<1>3. \A i \in H : i # 1 => i - 1 \in H
  <2> SUFFICES ASSUME NEW i \in H, i # 1 PROVE i - 1 \in H
    OBVIOUS
  <2>1. i \in 2 .. n + 1 /\ i - 1 \in 1 .. n + 1
    OBVIOUS
  <2>2. at[i - 1] # NULL
    BY <1>2, <2>1 DEF Stepped
  <2> QED BY <2>1, <2>2
<1>4. H = 1 .. Cardinality(H)
  <2>1. n + 1 \in Nat /\ H \subseteq 1 .. n + 1
    OBVIOUS
  <2> HIDE DEF H
  <2> QED BY <1>3, <2>1, Downward
<1>5. \A i \in H : at[i] \in S
  BY <1>2 DEF Stepped
<1> HIDE DEF H
<1> QED BY <1>1, <1>4, <1>5 DEF H, at

(* A walk along a path to NULL ends with it. *)
Path(o, next, x) ==
  /\ x = IF Len(o) = 0 THEN NULL ELSE o[1]
  /\ \A i \in 1 .. Len(o) : o[i] # NULL
  /\ \A i \in 1 .. Len(o) : next[o[i]] = IF i = Len(o) THEN NULL ELSE o[i + 1]

Visited(o) == [i \in 1 .. Len(o) |-> o[i]]

LEMMA WalkPath ==
  ASSUME NEW n \in Nat, NEW next, NEW T, NEW o \in Seq(T), Len(o) <= n, NEW x, Path(o, next, x)
  PROVE  WalkOver(n, next, x) = Visited(o)
<1> DEFINE l == Len(o)
           S == {o[i] : i \in 1 .. l}
           at == Steps(n, next, x)
           met(i) == IF i <= l THEN o[i] ELSE NULL
           H == {j \in 1 .. n + 1 : at[j] # NULL}
<1>1. l \in Nat /\ l <= n
  OBVIOUS
<1>2. /\ x = IF l = 0 THEN NULL ELSE o[1]
      /\ \A i \in 1 .. l : o[i] # NULL
      /\ \A i \in 1 .. l : next[o[i]] = IF i = l THEN NULL ELSE o[i + 1]
  BY DEF Path
<1> HIDE DEF l
<1>3. Closed(S, next) /\ x \in S \union {NULL}
  <2>1. ASSUME NEW i \in 1 .. l PROVE next[o[i]] \in S \union {NULL}
    <3>1. i = l \/ i + 1 \in 1 .. l
      BY <1>1
    <3> QED BY <1>2, <3>1
  <2>2. x \in S \union {NULL}
    BY <1>1, <1>2
  <2> QED BY <1>2, <2>1, <2>2 DEF Closed
<1>4. Stepped(at, n, next, x, S)
  <2> HIDE DEF S
  <2> QED BY <1>3, StepsTaken
<1> HIDE DEF at
<1>5. \A i \in 1 .. n + 1 : at[i] = met(i)
  <2> DEFINE P == {k \in 0 .. n : at[k + 1] = met(k + 1)}
  <2>1. 0 \in P
    BY <1>1, <1>2, <1>4 DEF Stepped
  <2>2. ASSUME NEW k \in 1 .. n, k - 1 \in P PROVE k \in P
    <3>1. k + 1 \in 2 .. n + 1 /\ (k + 1) - 1 = k /\ (k - 1) + 1 = k
      OBVIOUS
    <3>2. at[k] = met(k)
      BY <2>2, <3>1
    <3>3. at[k + 1] = IF at[k] = NULL THEN NULL ELSE next[at[k]]
      BY <1>4, <3>1 DEF Stepped
    <3>4. CASE k <= l
      <4>1. k \in 1 .. l /\ ((k = l) <=> ~(k + 1 <= l))
        BY <1>1, <3>4
      <4> QED BY <1>2, <3>2, <3>3, <3>4, <4>1
    <3>5. CASE ~(k <= l)
      <4>1. ~(k + 1 <= l)
        BY <1>1, <3>5
      <4> QED BY <3>2, <3>3, <3>5, <4>1
    <3> QED BY <3>4, <3>5
  <2> HIDE DEF P
  <2>3. 0 .. n \subseteq P
    BY <2>1, <2>2, UpTo
  <2> SUFFICES ASSUME NEW i \in 1 .. n + 1 PROVE at[i] = met(i)
    OBVIOUS
  <2>4. i - 1 \in 0 .. n /\ (i - 1) + 1 = i
    OBVIOUS
  <2> QED BY <2>3, <2>4 DEF P
<1>6. H = 1 .. l
  BY <1>1, <1>2, <1>5
<1>7. Cardinality(1 .. l) = l
  <2>1. 1 \in Int /\ l \in Int /\ (1 > l <=> l = 0) /\ l - 1 + 1 = l
    BY <1>1
  <2>2. Cardinality(1 .. l) = IF 1 > l THEN 0 ELSE l - 1 + 1
    BY <2>1, FS_Interval
  <2> QED BY <2>1, <2>2
<1>8. WalkOver(n, next, x) = [i \in 1 .. Cardinality(H) |-> at[i]]
  BY DEF WalkOver, at
<1> HIDE DEF H
<1>9. WalkOver(n, next, x) = [i \in 1 .. l |-> at[i]]
  BY <1>6, <1>7, <1>8
<1>10. \A i \in 1 .. l : at[i] = o[i]
  BY <1>1, <1>5
<1> QED BY <1>9, <1>10 DEF l, Visited

-----------------------------------------------------------------------------
(* The timers. *)
Ends == {NULL, WILD}
Links == Timers \union Ends
First == object.start

TimerType ==
  /\ object \in [start : Timers \union {NULL}, live : SUBSET Timers, armed : BOOLEAN,
                 links : [prev : [Timers -> Links], next : [Timers -> Links]]]
  /\ ghost \in [pc : {"idle", "arm", "start", "link", "join", "unstart", "unlink", "stop",
                      "free", "lost"},
                item : Timers \union {NULL}, given : SUBSET Timers, wild : BOOLEAN]

(* Where the program is, and what it has done of its call *)
TimerAt ==
  /\ ghost.pc = "idle" => (object.armed <=> First # NULL)
  /\ ghost.pc \in {"arm", "start"} =>
       /\ First = NULL /\ ghost.item \in object.live /\ (object.armed <=> ghost.pc = "start")
       /\ object.links.prev[ghost.item] \in Ends /\ object.links.next[ghost.item] \in Ends
  /\ ghost.pc \in {"link", "join"} => First # NULL /\ object.armed /\ ghost.item \in object.live
  /\ ghost.pc = "unstart" => ghost.item \in Timers /\ ghost.item = First
  /\ ghost.pc \in {"unlink", "stop", "free"} => First = NULL /\ ghost.item \in Timers
  /\ ghost.pc = "free" => ~object.armed

(* The timers before the first one, and it: none leads back to it, and     *)
(* nothing comes behind it.                                                *)
Before(B) ==
  /\ First \in B /\ B \subseteq object.live /\ object.links.next[First] \in Ends
  /\ \A t \in B : object.links.prev[t] \in (B \union Ends) \ {First}
  /\ ghost.pc = "link" => ghost.item \notin B
  /\ ghost.pc = "join" => ghost.item \in B

TimerChain == First # NULL => \E B \in SUBSET Timers : Before(B)

TimerInv == ~ghost.wild => TimerType /\ TimerAt /\ TimerChain

LEMMA TimerConstants == IsFiniteSet(Timers) /\ NULL \notin Timers /\ WILD \notin Timers /\ NULL # WILD
BY LibraryAssumption DEF Alarm!TimerAssumption, Alarm!IsFiniteSet, IsFiniteSet

LEMMA TimerCardinality == \A S : Alarm!Cardinality(S) = Cardinality(S)
BY DEF Alarm!Cardinality, Cardinality, Alarm!IsFiniteSet, IsFiniteSet

LEMMA TimerWalk ==
  ASSUME NEW links, NEW x
  PROVE  Alarm!NullWalk(links, x) = WalkOver(Cardinality(DOMAIN links.next), links.next, x)
BY DEF Alarm!NullWalk, WalkOver, Steps, Alarm!Cardinality, Cardinality, Alarm!IsFiniteSet, IsFiniteSet

(* Nothing but the first one is met by a walk. *)
LEMMA FirstIsMet ==
  ASSUME TimerInv, ~ghost.wild
  PROVE  /\ Alarm!NullWalk([next |-> Alarm!NoWild(object.links.next)], First)
              = [i \in 1 .. (IF First = NULL THEN 0 ELSE 1) |-> First]
         /\ Alarm!Met = {First} \ {NULL}
<1> DEFINE n == Cardinality(Timers)
           next == Alarm!NoWild(object.links.next)
           o == IF First = NULL THEN << >> ELSE <<First>>
           walk == [i \in 1 .. (IF First = NULL THEN 0 ELSE 1) |-> First]
<1>1. TimerType /\ TimerChain
  BY DEF TimerInv
<1>2. /\ First \in Timers \union {NULL} /\ object.links.next \in [Timers -> Links]
      /\ object.links = [prev |-> object.links.prev, next |-> object.links.next]
  BY <1>1 DEF TimerType, First
<1>3. First # NULL => object.links.next[First] \in Ends
  BY <1>1 DEF TimerChain, Before
<1>4. DOMAIN next = Timers /\ \A t \in Timers : next[t] = IF object.links.next[t] = WILD THEN NULL
                                                       ELSE object.links.next[t]
  BY DEF Alarm!NoWild
<1>5. First # NULL => next[First] = NULL
  BY <1>2, <1>3, <1>4 DEF Ends
<1>6. n \in Nat /\ Len(o) <= n /\ o \in Seq(Timers) /\ Len(o) = IF First = NULL THEN 0 ELSE 1
  <2>1. n \in Nat
    BY TimerConstants, FS_CardinalityType
  <2>2. CASE First = NULL
    <3>1. o = << >>
      BY <2>2
    <3> HIDE DEF n, o
    <3> QED BY <2>1, <2>2, <3>1
  <2>3. CASE First # NULL
    <3>1. o = <<First>> /\ First \in Timers
      BY <1>2, <2>3
    <3>2. n # 0
      BY <3>1, TimerConstants, FS_EmptySet
    <3> HIDE DEF n, o
    <3> QED BY <2>1, <2>3, <3>1, <3>2
  <2> QED BY <2>2, <2>3
<1>7. \A i \in 1 .. Len(o) : i = 1 /\ o[i] = First /\ First # NULL
  <2>1. CASE First = NULL
    BY <1>6, <2>1
  <2>2. CASE First # NULL
    BY <1>6, <2>2
  <2> QED BY <2>1, <2>2
<1> HIDE DEF next, n, o
<1>8. Path(o, next, First)
  BY <1>5, <1>6, <1>7 DEF Path
<1>9. WalkOver(n, next, First) = Visited(o)
  <2>1. n \in Nat /\ o \in Seq(Timers) /\ Len(o) <= n /\ Path(o, next, First)
    BY <1>6, <1>8
  <2> QED BY <2>1, WalkPath, Zenon
<1>10. WalkOver(n, next, First) = walk
  BY <1>6, <1>7, <1>9 DEF Visited
<1>11. Alarm!NullWalk([next |-> next], First) = walk
  <2>1. [next |-> next].next = next
    OBVIOUS
  <2> HIDE DEF walk
  <2> QED BY <1>4, <1>10, <2>1, TimerWalk DEF n
<1>12. Alarm!Met = {First} \ {NULL}
  <2> DEFINE links == [object.links EXCEPT !.next = [t \in Timers |-> IF @[t] = WILD THEN NULL ELSE @[t]]]
  <2>1. links.next = next
    BY <1>2 DEF next, Alarm!NoWild
  <2>2. Alarm!NullWalk(links, First) = walk
    <3> HIDE DEF links, walk
    <3> QED BY <1>4, <1>10, <2>1, TimerWalk DEF n
  <2>3. Alarm!Met = {walk[i] : i \in DOMAIN walk}
    BY <2>2 DEF Alarm!Met, First
  <2> QED BY <2>3
<1> QED BY <1>11, <1>12 DEF next

LEMMA TimerImplies == TimerInv => Alarm!HandlerSafe
<1> SUFFICES ASSUME TimerInv, ~ghost.wild PROVE Alarm!HandlerSafe
  BY DEF Alarm!HandlerSafe, Alarm!Sane
<1> DEFINE next == Alarm!NoWild(object.links.next)
           prev == Alarm!NoWild(object.links.prev)
           walk == [i \in 1 .. (IF First = NULL THEN 0 ELSE 1) |-> First]
           n == Cardinality(Timers)
           back == Alarm!NullWalk([next |-> prev], First)
<1>1. TimerType /\ TimerAt /\ TimerChain
  BY DEF TimerInv
<1>2. n \in Nat /\ (First # NULL => n # 0)
  <2>1. n \in Nat
    BY TimerConstants, FS_CardinalityType
  <2>2. First # NULL => Timers # {}
    BY <1>1 DEF TimerType, First
  <2> QED BY <2>1, <2>2, TimerConstants, FS_EmptySet
<1>3. Alarm!NullWalk([next |-> next], First) = walk /\ Alarm!Met = {First} \ {NULL}
  BY FirstIsMet
<1>4. DOMAIN next = Timers /\ DOMAIN prev = Timers
  BY DEF Alarm!NoWild
<1>5. Alarm!WalkIsFinite([next |-> next], First)
  <2>1. Len(walk) = IF First = NULL THEN 0 ELSE 1
    OBVIOUS
  <2>2. Alarm!Cardinality(DOMAIN [next |-> next].next) = n
    BY <1>4, TimerCardinality
  <2> HIDE DEF n, next
  <2>3. Len(walk) <= n
    <3> HIDE DEF walk
    <3> QED BY <1>2, <2>1
  <2> HIDE DEF walk
  <2>4. Len(Alarm!NullWalk([next |-> next], First)) <= Alarm!Cardinality(DOMAIN [next |-> next].next)
    BY <1>3, <2>2, <2>3
  <2> QED BY <2>4, Zenon DEF Alarm!WalkIsFinite
<1>6. Alarm!Met \subseteq object.live
  <2>1. First # NULL => First \in object.live
    BY <1>1 DEF TimerChain, Before
  <2> QED BY <1>3, <2>1
<1>7. ASSUME NEW i \in DOMAIN back PROVE back[i] \in object.live
  <2>1. PICK B \in SUBSET object.live :
          Closed(B, prev) /\ First \in B \union {NULL}
    <3>1. CASE First = NULL
      <4>1. {} \in SUBSET object.live /\ Closed({}, prev) /\ First \in {} \union {NULL}
        BY <3>1 DEF Closed
      <4> QED BY <4>1
    <3>2. CASE First # NULL
      <4>1. PICK B \in SUBSET Timers : Before(B)
        BY <1>1, <3>2 DEF TimerChain
      <4>2. B \subseteq object.live /\ First \in B /\ NULL \notin B /\ WILD \notin B
        BY <4>1, TimerConstants DEF Before
      <4>3. \A t \in B : prev[t] \in B \union {NULL}
        BY <4>1, <4>2 DEF Before, Alarm!NoWild, Ends
      <4> QED BY <4>2, <4>3 DEF Closed
    <3> QED BY <3>1, <3>2
  <2>2. back = WalkOver(n, prev, First)
    <3>1. [next |-> prev].next = prev
      OBVIOUS
    <3> HIDE DEF prev
    <3> QED BY <1>4, <3>1, TimerWalk DEF n
  <2> HIDE DEF back, prev, n
  <2> QED BY <1>2, <1>7, <2>1, <2>2, WalkStays
<1>8. ghost.pc = "idle" => (object.armed <=> First # NULL)
  BY <1>1 DEF TimerAt
<1> QED BY <1>5, <1>6, <1>7, <1>8 DEF Alarm!HandlerSafe, First
LEMMA TimerStarts == Alarm!Init => TimerInv
BY DEF Alarm!Init, TimerInv, TimerType, TimerAt, TimerChain, First, Links, Ends

(* What a step begins with *)
LEMMA TimerFacts ==
  ASSUME TimerInv, ~ghost.wild
  PROVE  /\ TimerType /\ TimerAt /\ TimerChain
         /\ object = [start |-> object.start, live |-> object.live, armed |-> object.armed,
                      links |-> object.links]
         /\ object.links = [prev |-> object.links.prev, next |-> object.links.next]
         /\ ghost = [pc |-> ghost.pc, item |-> ghost.item, given |-> ghost.given,
                     wild |-> ghost.wild]
         /\ First \in Timers \union {NULL} /\ object.live \in SUBSET Timers
         /\ object.armed \in BOOLEAN
         /\ object.links.prev \in [Timers -> Links] /\ object.links.next \in [Timers -> Links]
         /\ ghost.item \in Timers \union {NULL} /\ ghost.given \in SUBSET Timers
BY DEF TimerInv, TimerType, First

LEMMA TimerNew ==
  ASSUME TimerInv, NEW t \in Timers, NEW prev \in Ends, NEW next \in Ends,
         Alarm!New(t, prev, next)
  PROVE  TimerInv'
<1>1. ~ghost.wild /\ ghost.pc = "idle" /\ t \notin object.live
  BY DEF Alarm!New, Alarm!At, Alarm!Sane
<1>2. object' = [start |-> First, live |-> object.live \union {t}, armed |-> object.armed,
                 links |-> [prev |-> [object.links.prev EXCEPT ![t] = prev],
                            next |-> [object.links.next EXCEPT ![t] = next]]]
  BY <1>1, TimerFacts DEF Alarm!New, First
<1>3. ghost' = [ghost EXCEPT !.pc = IF First = NULL THEN "arm" ELSE "link", !.item = t]
  BY DEF Alarm!New, First
<1>4. /\ First' = First /\ ghost'.item = t
      /\ ghost'.pc = IF First = NULL THEN "arm" ELSE "link"
  BY <1>1, <1>2, <1>3, TimerFacts DEF First
<1>5. TimerType'
  BY <1>1, <1>2, <1>3, TimerFacts DEF TimerType, Links, Ends
<1>6. TimerAt'
  BY <1>1, <1>2, <1>4, TimerFacts DEF TimerAt
<1>7. TimerChain'
  <2> SUFFICES ASSUME First # NULL PROVE \E B \in SUBSET Timers : Before(B)'
    BY <1>4 DEF TimerChain
  <2>1. PICK B \in SUBSET Timers : Before(B)
    BY <1>1, TimerFacts DEF TimerChain
  <2>2. t \notin B
    BY <1>1, <2>1 DEF Before
  <2>3. Before(B)'
    BY <1>2, <1>4, <2>1, <2>2, <1>1, TimerFacts DEF Before
  <2> QED BY <2>3
<1> QED BY <1>5, <1>6, <1>7 DEF TimerInv

LEMMA TimerArm ==
  ASSUME TimerInv, NEW fails \in BOOLEAN, Alarm!Arm(fails)
  PROVE  TimerInv'
<1>1. ~ghost.wild /\ ghost.pc = "arm"
  BY DEF Alarm!Arm, Alarm!At, Alarm!Sane
<1>2. object' = [start |-> First, live |-> object.live, armed |-> object.armed \/ ~fails,
                 links |-> object.links]
  BY <1>1, TimerFacts DEF Alarm!Arm, First
<1>3. ghost' = IF fails THEN [ghost EXCEPT !.pc = "idle", !.item = NULL]
               ELSE [ghost EXCEPT !.pc = "start"]
  BY <1>1, TimerFacts DEF Alarm!Arm, Alarm!MoveTo
<1>4. /\ First' = First /\ First = NULL /\ ~object.armed
      /\ fails => ghost'.pc = "idle"
      /\ ~fails => ghost'.pc = "start" /\ ghost'.item = ghost.item
  BY <1>1, <1>2, <1>3, TimerFacts DEF First, TimerAt
<1>5. TimerType'
  BY <1>1, <1>2, <1>3, TimerFacts DEF TimerType
<1>6. TimerAt'
  BY <1>1, <1>2, <1>4, TimerFacts DEF TimerAt
<1>7. TimerChain'
  BY <1>4 DEF TimerChain
<1> QED BY <1>5, <1>6, <1>7 DEF TimerInv

LEMMA TimerStart ==
  ASSUME TimerInv, Alarm!Start
  PROVE  TimerInv'
<1> DEFINE x == ghost.item
<1>1. ~ghost.wild /\ ghost.pc = "start"
  BY DEF Alarm!Start, Alarm!At, Alarm!Sane
<1>2. object' = [start |-> x, live |-> object.live, armed |-> object.armed,
                 links |-> object.links]
  BY <1>1, TimerFacts DEF Alarm!Start
<1>3. ghost' = [ghost EXCEPT !.pc = "idle", !.item = NULL, !.given = ghost.given \union {x}]
  BY <1>1, TimerFacts DEF Alarm!Start, Alarm!MoveTo
<1>4. /\ x \in object.live /\ object.armed /\ x \in Timers /\ x # NULL
      /\ object.links.prev[x] \in Ends /\ object.links.next[x] \in Ends
      /\ First' = x /\ ghost'.pc = "idle"
  BY <1>1, <1>2, <1>3, TimerFacts, TimerConstants DEF First, TimerAt
<1>5. TimerType'
  BY <1>1, <1>2, <1>3, <1>4, TimerFacts DEF TimerType
<1>6. TimerAt'
  BY <1>2, <1>4 DEF TimerAt
<1>7. TimerChain'
  <2>1. PICK C : C = {x}
    OBVIOUS
  <2>2. C \in SUBSET Timers /\ x \notin Ends
    BY <1>4, <2>1, TimerConstants DEF Ends
  <2>3. Before(C)'
    BY <1>2, <1>4, <2>1, <2>2 DEF Before
  <2> QED BY <2>2, <2>3 DEF TimerChain
<1> QED BY <1>5, <1>6, <1>7 DEF TimerInv

LEMMA TimerLink ==
  ASSUME TimerInv, Alarm!Link
  PROVE  TimerInv'
<1> DEFINE x == ghost.item
           before == object.links.prev[First]
           prev == [object.links.prev EXCEPT ![x] = before, ![First] = x]
           next == [object.links.next EXCEPT ![x] = First]
<1>1. ~ghost.wild /\ ghost.pc = "link"
  BY DEF Alarm!Link, Alarm!At, Alarm!Sane
<1>2. object' = [start |-> First, live |-> object.live, armed |-> object.armed,
                 links |-> [prev |-> prev, next |-> next]]
  BY <1>1, TimerFacts DEF Alarm!Link, First
<1>3. ghost' = [ghost EXCEPT !.pc = "join"]
  BY DEF Alarm!Link, Alarm!MoveTo
<1>4. /\ x \in object.live /\ object.armed /\ x \in Timers /\ First # NULL /\ First \in Timers
      /\ First' = First /\ ghost'.pc = "join" /\ ghost'.item = x
  BY <1>1, <1>2, <1>3, TimerFacts, TimerConstants DEF First, TimerAt
<1>5. PICK B \in SUBSET Timers : Before(B)
  BY <1>1, <1>4, TimerFacts DEF TimerChain
<1>6. /\ First \in B /\ B \subseteq object.live /\ object.links.next[First] \in Ends
      /\ \A t \in B : object.links.prev[t] \in (B \union Ends) \ {First}
      /\ x \notin B
  BY <1>1, <1>5 DEF Before
<1>7. /\ prev \in [Timers -> Links] /\ next \in [Timers -> Links]
      /\ prev[First] = x /\ prev[x] = before /\ next[First] = object.links.next[First]
      /\ \A t \in B : t # First => prev[t] = object.links.prev[t]
  BY <1>1, <1>4, <1>6, TimerFacts DEF Links
<1> HIDE DEF prev, next
<1>8. TimerType'
  BY <1>1, <1>2, <1>3, <1>7, TimerFacts DEF TimerType
<1>9. TimerAt'
  BY <1>2, <1>4 DEF TimerAt
<1>10. TimerChain'
  <2>1. PICK C : C = B \union {x}
    OBVIOUS
  <2>2. C \in SUBSET Timers
    BY <1>4, <2>1
  <2>3. \A t \in C : prev[t] \in (C \union Ends) \ {First}
    BY <1>6, <1>7, <2>1
  <2>4. First \in C /\ C \subseteq object.live /\ next[First] \in Ends /\ x \in C
    BY <1>4, <1>6, <1>7, <2>1
  <2>5. Before(C)'
    BY <1>2, <1>4, <2>3, <2>4 DEF Before
  <2> QED BY <2>2, <2>5 DEF TimerChain
<1> QED BY <1>8, <1>9, <1>10 DEF TimerInv

LEMMA TimerJoin ==
  ASSUME TimerInv, Alarm!Join
  PROVE  TimerInv'
<1> DEFINE x == ghost.item
           before == object.links.prev[x]
           next == IF before = NULL THEN object.links.next
                   ELSE [object.links.next EXCEPT ![before] = x]
<1> SUFFICES ASSUME ~ghost'.wild PROVE TimerInv'
  BY DEF TimerInv
<1>1. ~ghost.wild /\ ghost.pc = "join"
  BY DEF Alarm!Join, Alarm!At, Alarm!Sane
<1>2. ghost' = [ghost EXCEPT !.pc = "idle", !.item = NULL, !.given = ghost.given \union {x},
                             !.wild = before = WILD]
  BY <1>1, TimerFacts DEF Alarm!Join, Alarm!MoveTo
<1>3. before # WILD
  BY <1>1, <1>2, TimerFacts
<1>4. object' = [start |-> First, live |-> object.live, armed |-> object.armed,
                 links |-> [prev |-> object.links.prev, next |-> next]]
  BY <1>1, <1>3, TimerFacts DEF Alarm!Join, Alarm!Store, First
<1>5. /\ x \in object.live /\ object.armed /\ x \in Timers /\ First # NULL /\ First \in Timers
      /\ First' = First /\ ghost'.pc = "idle"
  BY <1>1, <1>2, <1>4, TimerFacts, TimerConstants DEF First, TimerAt
<1>6. PICK B \in SUBSET Timers : Before(B)
  BY <1>1, <1>5, TimerFacts DEF TimerChain
<1>7. /\ First \in B /\ B \subseteq object.live /\ object.links.next[First] \in Ends
      /\ \A t \in B : object.links.prev[t] \in (B \union Ends) \ {First}
      /\ x \in B
  BY <1>1, <1>6 DEF Before
<1>8. next \in [Timers -> Links] /\ next[First] = object.links.next[First]
  BY <1>1, <1>5, <1>7, TimerFacts DEF Links
<1> HIDE DEF next
<1>9. TimerType'
  BY <1>1, <1>2, <1>4, <1>5, <1>8, TimerFacts DEF TimerType
<1>10. TimerAt'
  BY <1>4, <1>5 DEF TimerAt
<1>11. TimerChain'
  <2>1. Before(B)'
    BY <1>4, <1>5, <1>7, <1>8 DEF Before
  <2> QED BY <2>1 DEF TimerChain
<1> QED BY <1>9, <1>10, <1>11 DEF TimerInv

LEMMA TimerDelete ==
  ASSUME TimerInv, NEW t \in Timers, Alarm!Delete(t)
  PROVE  TimerInv'
<1>1. ~ghost.wild /\ ghost.pc = "idle" /\ object' = object
  BY DEF Alarm!Delete, Alarm!At, Alarm!Sane
<1>2. Alarm!Met = {First} \ {NULL}
  BY <1>1, FirstIsMet
<1> DEFINE pc == IF First = NULL THEN "stop" ELSE IF t = First THEN "unstart" ELSE "lost"
           wild == t \notin Alarm!Met /\ Alarm!WalksWild
<1>3. ghost' = [ghost EXCEPT !.item = t, !.given = ghost.given \ {t}, !.wild = wild, !.pc = pc]
  BY <1>2, TimerConstants DEF Alarm!Delete, First
<1>4. wild \in BOOLEAN
  OBVIOUS
<1> HIDE DEF wild
<1>5. First' = First /\ ghost'.item = t /\ ghost'.pc = pc
  BY <1>1, <1>3, TimerFacts DEF First
<1>6. TimerType'
  BY <1>1, <1>3, <1>4, TimerFacts DEF TimerType
<1>7. TimerAt'
  BY <1>1, <1>5, TimerFacts DEF TimerAt
<1>8. TimerChain'
  <2> SUFFICES ASSUME First # NULL PROVE \E B \in SUBSET Timers : Before(B)'
    BY <1>5 DEF TimerChain
  <2>1. PICK B \in SUBSET Timers : Before(B)
    BY <1>1, TimerFacts DEF TimerChain
  <2>2. Before(B)'
    BY <1>1, <1>5, <2>1 DEF Before
  <2> QED BY <2>2
<1> QED BY <1>6, <1>7, <1>8 DEF TimerInv

LEMMA TimerUnstart ==
  ASSUME TimerInv, Alarm!Unstart
  PROVE  TimerInv'
<1> SUFFICES ASSUME ~ghost'.wild PROVE TimerInv'
  BY DEF TimerInv
<1> DEFINE behind == object.links.next[ghost.item]
<1>1. ~ghost.wild /\ ghost.pc = "unstart" /\ ghost.item \in Timers
  BY TimerFacts DEF Alarm!Unstart, Alarm!At, Alarm!Sane, TimerAt
<1>2. ghost' = [ghost EXCEPT !.pc = "unlink", !.wild = behind = WILD]
  BY <1>1, TimerFacts DEF Alarm!Unstart, Alarm!MoveTo
<1>3. behind # WILD
  BY <1>1, <1>2, TimerFacts
<1>4. object' = [start |-> behind, live |-> object.live, armed |-> object.armed,
                 links |-> object.links]
  BY <1>1, TimerFacts DEF Alarm!Unstart
<1>5. behind = NULL
  <2>1. First # NULL /\ ghost.item = First
    BY <1>1, TimerFacts, TimerConstants DEF TimerAt
  <2>2. PICK B \in SUBSET Timers : Before(B)
    BY <1>1, <2>1, TimerFacts DEF TimerChain
  <2>3. behind \in Ends
    BY <2>1, <2>2 DEF Before
  <2> QED BY <1>3, <2>3 DEF Ends
<1>6. TimerType'
  BY <1>1, <1>2, <1>4, <1>5, TimerFacts DEF TimerType
<1>7. First' = NULL /\ ghost'.pc = "unlink" /\ ghost'.item = ghost.item
  BY <1>1, <1>2, <1>4, <1>5, TimerFacts DEF First
<1>8. TimerAt' /\ TimerChain'
  BY <1>1, <1>7 DEF TimerAt, TimerChain
<1> QED BY <1>6, <1>8 DEF TimerInv

LEMMA TimerUnlink ==
  ASSUME TimerInv, Alarm!Unlink
  PROVE  TimerInv'
<1> SUFFICES ASSUME ~ghost'.wild PROVE TimerInv'
  BY DEF TimerInv
<1> DEFINE x == ghost.item
           before == object.links.prev[x]
           behind == object.links.next[x]
           links == Alarm!NullRemove(object.links, x)
<1>1. /\ ~ghost.wild /\ ghost.pc = "unlink" /\ x \in Timers /\ First = NULL
  BY TimerFacts DEF Alarm!Unlink, Alarm!At, Alarm!Sane, TimerAt
<1>2. ghost' = [ghost EXCEPT !.pc = "stop", !.wild = WILD \in {before, behind}]
  BY <1>1, TimerFacts DEF Alarm!Unlink, Alarm!MoveTo
<1>3. WILD \notin {before, behind}
  BY <1>1, <1>2, TimerFacts
<1>4. object' = [start |-> First, live |-> object.live, armed |-> object.armed, links |-> links]
  BY <1>1, <1>3, TimerFacts DEF Alarm!Unlink, First
<1>5. links \in [prev : [Timers -> Links], next : [Timers -> Links]]
  <2> DEFINE next == Alarm!Store(object.links.next, before, behind)
             prev == Alarm!Store(object.links.prev, next[x], before)
  <2>1. before \in Links /\ behind \in Links
    BY <1>1, TimerFacts
  <2>2. next \in [Timers -> Links]
    BY <1>1, <2>1, TimerFacts DEF Alarm!Store
  <2> HIDE DEF next
  <2>3. prev \in [Timers -> Links]
    BY <1>1, <2>1, TimerFacts DEF Alarm!Store
  <2> HIDE DEF prev
  <2>4. links = [next |-> next, prev |-> prev]
    BY DEF Alarm!NullRemove, next, prev
  <2> QED BY <2>2, <2>3, <2>4
<1> HIDE DEF links
<1>6. TimerType'
  <2>1. object' \in [start : Timers \union {NULL}, live : SUBSET Timers, armed : BOOLEAN,
                     links : [prev : [Timers -> Links], next : [Timers -> Links]]]
    BY <1>1, <1>4, <1>5, TimerFacts
  <2>2. (WILD \in {before, behind}) \in BOOLEAN
    OBVIOUS
  <2>3. ghost'.pc = "stop" /\ ghost' = [ghost EXCEPT !.pc = "stop", !.wild = ghost'.wild]
        /\ ghost'.wild \in BOOLEAN
    BY <1>1, <1>2, <2>2, TimerFacts
  <2> QED BY <1>1, <2>1, <2>3, TimerFacts DEF TimerType
<1>7. First' = NULL /\ ghost'.pc = "stop" /\ ghost'.item = x
  BY <1>1, <1>2, <1>4, TimerFacts DEF First
<1>8. TimerAt' /\ TimerChain'
  BY <1>1, <1>7 DEF TimerAt, TimerChain
<1> QED BY <1>6, <1>8 DEF TimerInv

LEMMA TimerStop ==
  ASSUME TimerInv, Alarm!Stop
  PROVE  TimerInv'
<1>1. ~ghost.wild /\ ghost.pc = "stop" /\ ghost.item \in Timers /\ First = NULL
  BY TimerFacts DEF Alarm!Stop, Alarm!At, Alarm!Sane, TimerAt
<1>2. object' = [start |-> First, live |-> object.live, armed |-> FALSE, links |-> object.links]
  BY <1>1, TimerFacts DEF Alarm!Stop, First
<1>3. ghost' = [ghost EXCEPT !.pc = "free"]
  BY DEF Alarm!Stop, Alarm!MoveTo
<1>4. TimerType'
  BY <1>1, <1>2, <1>3, TimerFacts DEF TimerType
<1>5. First' = NULL /\ ghost'.pc = "free" /\ ghost'.item = ghost.item
  BY <1>1, <1>2, <1>3, TimerFacts DEF First
<1>6. TimerAt' /\ TimerChain'
  BY <1>1, <1>2, <1>5 DEF TimerAt, TimerChain
<1> QED BY <1>4, <1>6 DEF TimerInv

LEMMA TimerFree ==
  ASSUME TimerInv, Alarm!Free
  PROVE  TimerInv'
<1>1. ~ghost.wild /\ ghost.pc = "free" /\ First = NULL /\ ~object.armed
  BY TimerFacts DEF Alarm!Free, Alarm!At, Alarm!Sane, TimerAt
<1>2. object' = [start |-> First, live |-> object.live \ {ghost.item}, armed |-> object.armed,
                 links |-> object.links]
  BY <1>1, TimerFacts DEF Alarm!Free, First
<1>3. ghost' = [ghost EXCEPT !.pc = "idle", !.item = NULL]
  BY <1>1, TimerFacts DEF Alarm!Free, Alarm!MoveTo
<1>4. TimerType'
  BY <1>1, <1>2, <1>3, TimerFacts DEF TimerType
<1>5. First' = NULL /\ ghost'.pc = "idle"
  BY <1>1, <1>2, <1>3, TimerFacts DEF First
<1>6. TimerAt' /\ TimerChain'
  BY <1>1, <1>2, <1>5 DEF TimerAt, TimerChain
<1> QED BY <1>4, <1>6 DEF TimerInv

LEMMA TimerTick ==
  ASSUME TimerInv, Alarm!Tick
  PROVE  TimerInv'
<1> SUFFICES ASSUME ~ghost'.wild PROVE TimerInv'
  BY DEF TimerInv
<1>1. ~ghost.wild /\ object' = object
  BY DEF Alarm!Tick, Alarm!Sane
<1>2. ghost' = ghost
  <2>1. ghost' = [ghost EXCEPT !.wild = Alarm!WalksWild]
    BY DEF Alarm!Tick
  <2>2. ~Alarm!WalksWild
    BY <1>1, <2>1, TimerFacts
  <2>3. ghost.wild = FALSE /\ Alarm!WalksWild = FALSE
    BY <1>1, <2>2, TimerFacts DEF TimerType, Alarm!WalksWild
  <2> QED BY <1>1, <2>1, <2>3, TimerFacts
<1> QED BY <1>1, <1>2 DEF TimerInv, TimerType, TimerAt, TimerChain, Before, First

LEMMA TimerStep == TimerInv /\ Alarm!Next => TimerInv'
<1>1. Alarm!Next <=>
        \/ Alarm!Tick
        \/ \E t \in Timers : \E prev, next \in Ends : Alarm!New(t, prev, next)
        \/ \E fails \in BOOLEAN : Alarm!Arm(fails)
        \/ Alarm!Start \/ Alarm!Link \/ Alarm!Join
        \/ \E t \in Timers : Alarm!Delete(t)
        \/ Alarm!Unstart \/ Alarm!Unlink \/ Alarm!Stop \/ Alarm!Free
  BY DEF Alarm!Next, Ends
<1> QED BY <1>1, TimerTick, TimerNew, TimerArm, TimerStart, TimerLink, TimerJoin, TimerDelete,
           TimerUnstart, TimerUnlink, TimerStop, TimerFree

LEMMA LibraryTimer == Spec => [](part = "timer" => TimerInv)
<1> DEFINE Inv == part = "timer" => TimerInv
<1>1. Init => Inv
  BY TimerStarts DEF Init
<1>2. Inv /\ [Next]_vars => Inv'
  <2> SUFFICES ASSUME Inv, [Next]_vars, part' = "timer" PROVE TimerInv'
    OBVIOUS
  <2>1. CASE UNCHANGED vars
    <3>1. object' = object /\ ghost' = ghost /\ part = "timer"
      BY <2>1 DEF vars
    <3>2. TimerInv
      BY <3>1
    <3> QED BY <3>1, <3>2 DEF TimerInv, TimerType, TimerAt, TimerChain, Before, First
  <2>2. CASE Next
    <3>1. part' = part /\ Alarm!Next
      BY <2>2 DEF Next, UseHeap, UseVector, UseTree, UseMap, UseQueue, UseTimer, UseGetopt,
         UseHttp, UseSort, UseUrl, UseMd5, UseSerial
    <3> QED BY <3>1, TimerStep
  <2> QED BY <2>1, <2>2
<1> QED BY <1>1, <1>2, PTL DEF Spec

(* Wherever SIGALRM interrupts bscl_timer_new and bscl_timer_delete, and   *)
(* until a pointer that was never set is followed: the walk of the handler *)
(* ends and meets allocated timers only, those before the first one are    *)
(* allocated too, and between the calls the signal is on while there is a  *)
(* first timer, and only then.                                             *)
THEOREM LibraryHandlerSafe == Spec => []HandlerSafe
<1>1. (part = "timer" => TimerInv) => HandlerSafe
  BY TimerImplies DEF HandlerSafe
<1> QED BY <1>1, LibraryTimer, PTL

-----------------------------------------------------------------------------
(* The hash map. *)
MapItems == Map!Items

(* The item a search of o for k comes to first *)
FoundIn(o, k, x) ==
  \/ x = NULL /\ \A i \in 1 .. Len(o) : o[i][1] # k
  \/ \E i \in 1 .. Len(o) : x = o[i] /\ o[i][1] = k /\ \A j \in 1 .. i - 1 : o[j][1] # k

(* The items of bucket b in the order of its list.  No lookup has moved    *)
(* one of them, and those before the first of them are such as were.       *)
Chained(o, b, first, links, used, touched) ==
  /\ o \in Seq(MapItems) /\ Path(o, links.next, first)
  /\ \A i \in 1 .. Len(o) : o[i] \in used \ touched /\ Hash(o[i][1]) = b
  /\ \A i, j \in 1 .. Len(o) : o[i] = o[j] => i = j
  /\ \A i \in 2 .. Len(o) : links.prev[o[i]] = o[i - 1]
  /\ Len(o) > 0 => links.prev[o[1]] \in touched \union {NULL}

(* Every item in the map is on the list of its bucket or was moved by a    *)
(* lookup, and the last value of a key neither looked up nor removed is    *)
(* the first on its list.                                                  *)
Held(c, map, known) ==
  /\ \A b \in Buckets : Chained(c[b], b, map.buck[b], map.links, map.used, known.touched)
  /\ \A x \in map.used \ known.touched : \E i \in 1 .. Len(c[Hash(x[1])]) : c[Hash(x[1])][i] = x
  /\ \A k \in MapKeys : k \notin known.moved => FoundIn(c[Hash(k)], k, known.value[k])

Pointers == [MapItems -> MapItems \union {NULL}]
MapType ==
  /\ object \in [buck : [Buckets -> MapItems \union {NULL}], used : SUBSET MapItems,
                 links : [prev : Pointers, next : Pointers]]
  /\ ghost.value \in [MapKeys -> MapItems \union {NULL}] /\ ghost.touched \subseteq object.used

MapInv ==
  /\ ghost = [value |-> ghost.value, moved |-> ghost.moved, touched |-> ghost.touched,
              front |-> ghost.front, cut |-> ghost.cut, deleted |-> ghost.deleted]
  /\ ghost.front \in BOOLEAN /\ ghost.cut \in BOOLEAN /\ ghost.deleted \in BOOLEAN
  /\ ~ghost.front /\ ~ghost.cut =>
       IF ghost.deleted THEN object.used \subseteq ghost.touched
       ELSE MapType /\ \E c : Held(c, object, ghost)

LEMMA MapConstants ==
  /\ IsFiniteSet(MapItems) /\ MapItems = MapKeys \X (1 .. Copies) /\ NULL \notin MapItems
  /\ \A k \in MapKeys : Hash(k) \in Buckets
<1>1. IsFiniteSet(MapKeys) /\ Copies \in Nat /\ NULL \notin MapItems
      /\ \A k \in MapKeys : Hash(k) \in Buckets
  BY LibraryAssumption DEF Map!MapAssumption, Map!IsFiniteSet, IsFiniteSet, MapItems
<1>2. MapItems = MapKeys \X (1 .. Copies)
  BY DEF MapItems, Map!Items
<1>3. IsFiniteSet(1 .. Copies)
  <2>1. 1 \in Int /\ Copies \in Int
    BY <1>1
  <2> QED BY <2>1, FS_Interval
<1>4. IsFiniteSet(MapKeys \X (1 .. Copies))
  BY <1>1, <1>3, FS_Product
<1> QED BY <1>1, <1>2, <1>4

LEMMA MapCardinality == \A S : Map!Cardinality(S) = Cardinality(S)
BY DEF Map!Cardinality, Cardinality, Map!IsFiniteSet, IsFiniteSet

LEMMA MapWalk ==
  ASSUME NEW links, NEW x
  PROVE  Map!NullWalk(links, x) = WalkOver(Cardinality(DOMAIN links.next), links.next, x)
BY DEF Map!NullWalk, WalkOver, Steps, Map!Cardinality, Cardinality, Map!IsFiniteSet, IsFiniteSet

(* A list without repetitions is not longer than there are items. *)
LEMMA ApartLength ==
  ASSUME NEW S, IsFiniteSet(S), NEW o \in Seq(S),
         \A i, j \in 1 .. Len(o) : o[i] = o[j] => i = j
  PROVE  Len(o) <= Cardinality(S) /\ Cardinality(S) \in Nat
<1> DEFINE n == Len(o)
           f == [i \in 1 .. n |-> o[i]]
<1>1. n \in Nat /\ \A i \in 1 .. n : o[i] \in S
  OBVIOUS
<1> HIDE DEF n
<1>2. f \in [1 .. n -> S] /\ \A i, j \in 1 .. n : f[i] = f[j] => i = j
  BY <1>1 DEF n
<1>3. f \in Injection(1 .. n, S)
  <2> HIDE DEF f
  <2> QED BY <1>2 DEF Injection, IsInjective
<1>4. Cardinality(1 .. n) <= Cardinality(S)
  <2> HIDE DEF f
  <2> QED BY <1>3, FS_Injection
<1>5. Cardinality(1 .. n) = n
  <2>1. 1 \in Int /\ n \in Int /\ (1 > n <=> n = 0) /\ n - 1 + 1 = n
    BY <1>1
  <2>2. Cardinality(1 .. n) = IF 1 > n THEN 0 ELSE n - 1 + 1
    BY <2>1, FS_Interval
  <2> QED BY <2>1, <2>2
<1>6. Cardinality(S) \in Nat
  BY FS_CardinalityType
<1> QED BY <1>4, <1>5, <1>6 DEF n

LEMMA ChainVisited ==
  ASSUME NEW o, NEW b, NEW first, NEW links, NEW used, NEW touched,
         Chained(o, b, first, links, used, touched), DOMAIN links.next = MapItems
  PROVE  Map!NullWalk(links, first) = Visited(o) /\ Map!WalkIsFinite(links, first)
<1> DEFINE n == Cardinality(MapItems)
<1>1. o \in Seq(MapItems) /\ Path(o, links.next, first)
      /\ \A i, j \in 1 .. Len(o) : o[i] = o[j] => i = j
  BY DEF Chained
<1>2. Len(o) <= n /\ n \in Nat
  BY <1>1, MapConstants, ApartLength
<1> HIDE DEF n
<1>3. WalkOver(n, links.next, first) = Visited(o)
  BY <1>1, <1>2, WalkPath
<1>4. Map!NullWalk(links, first) = Visited(o)
  BY <1>3, MapWalk DEF n
<1>5. Len(Visited(o)) = Len(o)
  <2>1. Visited(o) \in Seq(MapItems) /\ Len(Visited(o)) = Len(o)
    BY <1>1 DEF Visited
  <2> QED BY <2>1
<1>6. Map!Cardinality(DOMAIN links.next) = n
  BY MapCardinality DEF n
<1>7. Len(Map!NullWalk(links, first)) <= Map!Cardinality(DOMAIN links.next)
  BY <1>2, <1>4, <1>5, <1>6
<1> QED BY <1>4, <1>7 DEF Map!WalkIsFinite

(* There is one such item, and bscl_hashmap_find finds it. *)
LEMMA FoundOnce ==
  ASSUME NEW o \in Seq(MapItems), NEW k, NEW x, NEW y, FoundIn(o, k, x), FoundIn(o, k, y)
  PROVE  x = y
<1>1. Len(o) \in Nat
  OBVIOUS
<1>2. \A i, j \in 1 .. Len(o) : i < j \/ j < i \/ i = j
  BY <1>1
<1>3. \A i, j \in 1 .. Len(o) : i < j => i \in 1 .. j - 1
  BY <1>1
<1>4. CASE x = NULL /\ \A i \in 1 .. Len(o) : o[i][1] # k
  BY <1>4 DEF FoundIn
<1>5. CASE \E i \in 1 .. Len(o) : x = o[i] /\ o[i][1] = k /\ \A j \in 1 .. i - 1 : o[j][1] # k
  <2>1. PICK i \in 1 .. Len(o) : x = o[i] /\ o[i][1] = k /\ \A j \in 1 .. i - 1 : o[j][1] # k
    BY <1>5
  <2>2. PICK i2 \in 1 .. Len(o) : y = o[i2] /\ o[i2][1] = k /\ \A j \in 1 .. i2 - 1 : o[j][1] # k
    BY <2>1 DEF FoundIn
  <2>3. i = i2
    BY <1>2, <1>3, <2>1, <2>2
  <2> QED BY <2>1, <2>2, <2>3
<1> QED BY <1>4, <1>5 DEF FoundIn

LEMMA FindFinds ==
  ASSUME NEW k, NEW o \in Seq(MapItems), Map!Chain(k) = Visited(o)
  PROVE  FoundIn(o, k, Map!Find(k))
<1> DEFINE n == Len(o)
           hits == {i \in 1 .. n : o[i][1] = k}
           least == CHOOSE i \in hits : \A j \in hits : i <= j
<1>1. n \in Nat
  OBVIOUS
<1>2. Map!Find(k) = IF hits = {} THEN NULL ELSE o[least]
  <2> DEFINE v == Visited(o)
             vhits == {i \in DOMAIN v : v[i][1] = k}
             vleast == CHOOSE i \in vhits : \A j \in vhits : i <= j
  <2>1. Map!Find(k) = IF vhits = {} THEN NULL ELSE v[vleast]
    BY DEF Map!Find, Map!KeyOf
  <2>2. DOMAIN v = 1 .. n /\ \A i \in 1 .. n : v[i] = o[i]
    BY DEF Visited
  <2> HIDE DEF v, n
  <2>3. vhits = hits
    BY <2>2
  <2>4. vleast = least
    BY <2>3
  <2>5. hits # {} => least \in 1 .. n
    <3>1. hits \subseteq Nat
      BY <1>1
    <3>2. hits # {} => least \in hits
      <4> HIDE DEF hits
      <4> QED BY <3>1, ChosenMinimum
    <3> QED BY <3>2
  <2> HIDE DEF least, vleast, hits, vhits
  <2> QED BY <2>1, <2>2, <2>3, <2>4, <2>5
<1>3. CASE hits = {}
  BY <1>2, <1>3 DEF FoundIn
<1>4. CASE hits # {}
  <2>1. least \in hits /\ \A j \in hits : least <= j
    <3>1. hits \subseteq Nat
      BY <1>1
    <3> HIDE DEF hits
    <3> QED BY <1>4, <3>1, ChosenMinimum
  <2> HIDE DEF least
  <2>2. \A j \in 1 .. least - 1 : o[j][1] # k
    <3> SUFFICES ASSUME NEW j \in 1 .. least - 1, o[j][1] = k PROVE FALSE
      OBVIOUS
    <3>1. j \in hits
      BY <1>1, <2>1
    <3> QED BY <1>1, <2>1, <3>1
  <2> QED BY <1>2, <1>4, <2>1, <2>2 DEF FoundIn
<1> QED BY <1>3, <1>4

(* An insertion in front of a list *)
Onto(o, x) == [i \in 1 .. Len(o) + 1 |-> IF i = 1 THEN x ELSE o[i - 1]]

OntoIs(o2, o, x) ==
  /\ o2 \in Seq(MapItems) /\ Len(o2) = Len(o) + 1 /\ o2[1] = x
  /\ \A i \in 2 .. Len(o) + 1 : o2[i] = o[i - 1]

LEMMA OntoFacts ==
  ASSUME NEW o \in Seq(MapItems), NEW x \in MapItems
  PROVE  OntoIs(Onto(o, x), o, x)
<1> DEFINE n == Len(o) + 1
           o2 == Onto(o, x)
<1>1. n \in Nat /\ \A i \in 2 .. n : i - 1 \in 1 .. Len(o)
  OBVIOUS
<1>2. \A i \in 1 .. n : o2[i] = IF i = 1 THEN x ELSE o[i - 1]
  BY DEF Onto
<1>3. \A i \in 1 .. n : o2[i] \in MapItems
  BY <1>1, <1>2
<1>4. o2 = [i \in 1 .. n |-> o2[i]]
  BY DEF Onto
<1> HIDE DEF o2, n
<1>5. o2 \in [1 .. n -> MapItems]
  BY <1>3, <1>4
<1>6. o2 \in Seq(MapItems) /\ Len(o2) = n
  BY <1>1, <1>5, FunctionIsSeq
<1> QED BY <1>1, <1>2, <1>6 DEF OntoIs, o2, n

LEMMA OntoFound ==
  ASSUME NEW o \in Seq(MapItems), NEW x \in MapItems, NEW o2, OntoIs(o2, o, x), NEW k, NEW y
  PROVE  /\ x[1] = k => FoundIn(o2, k, x)
         /\ x[1] # k /\ FoundIn(o, k, y) => FoundIn(o2, k, y)
<1>1. /\ Len(o) \in Nat /\ Len(o2) = Len(o) + 1 /\ o2[1] = x
      /\ \A i \in 2 .. Len(o2) : o2[i] = o[i - 1]
  BY DEF OntoIs
<1>2. x[1] = k => FoundIn(o2, k, x)
  <2>1. 1 \in 1 .. Len(o2) /\ 1 .. 1 - 1 = {}
    BY <1>1
  <2> QED BY <1>1, <2>1 DEF FoundIn
<1>3. ASSUME x[1] # k, FoundIn(o, k, y) PROVE FoundIn(o2, k, y)
  <2>1. \A i \in 1 .. Len(o2) : i = 1 \/ (i \in 2 .. Len(o2) /\ i - 1 \in 1 .. Len(o))
    BY <1>1
  <2>2. CASE y = NULL /\ \A i \in 1 .. Len(o) : o[i][1] # k
    <3>1. \A i \in 1 .. Len(o2) : o2[i][1] # k
      BY <1>1, <1>3, <2>1, <2>2
    <3> QED BY <2>2, <3>1 DEF FoundIn
  <2>3. CASE \E i \in 1 .. Len(o) : y = o[i] /\ o[i][1] = k /\ \A j \in 1 .. i - 1 : o[j][1] # k
    <3>1. PICK i \in 1 .. Len(o) : y = o[i] /\ o[i][1] = k /\ \A j \in 1 .. i - 1 : o[j][1] # k
      BY <2>3
    <3>2. i + 1 \in 1 .. Len(o2) /\ i + 1 \in 2 .. Len(o2) /\ (i + 1) - 1 = i
      BY <1>1
    <3>3. o2[i + 1] = o[i]
      BY <1>1, <3>2
    <3>4. ASSUME NEW j \in 1 .. (i + 1) - 1 PROVE o2[j][1] # k
      <4>1. j \in 1 .. Len(o2) /\ (j # 1 => j - 1 \in 1 .. i - 1)
        BY <1>1
      <4> QED BY <1>1, <1>3, <2>1, <3>1, <4>1
    <3> QED BY <3>1, <3>2, <3>3, <3>4 DEF FoundIn
  <2> QED BY <1>3, <2>2, <2>3 DEF FoundIn
<1> QED BY <1>2, <1>3

LEMMA OntoChained ==
  ASSUME NEW o, NEW b, NEW first, NEW links, NEW used, NEW touched,
         Chained(o, b, first, links, used, touched),
         NEW x \in MapItems, x \notin used, x \notin touched, Hash(x[1]) = b,
         NEW links2, links2.next[x] = first,
         links2.prev[x] \in touched \union {NULL},
         Len(o) > 0 => links2.prev[first] = x,
         \A y \in used \ touched : links2.next[y] = links.next[y],
         \A y \in used \ touched : y # first => links2.prev[y] = links.prev[y]
  PROVE  Chained(Onto(o, x), b, x, links2, used \union {x}, touched)
<1> DEFINE n == Len(o)
           o2 == Onto(o, x)
           next == links.next
           prev == links.prev
           next2 == links2.next
           prev2 == links2.prev
<1>1. /\ o \in Seq(MapItems) /\ n \in Nat
      /\ \A i \in 1 .. n : o[i] \in used \ touched /\ Hash(o[i][1]) = b
      /\ \A i, j \in 1 .. n : o[i] = o[j] => i = j
      /\ \A i \in 2 .. n : prev[o[i]] = o[i - 1]
  BY DEF Chained
<1>2. /\ first = IF n = 0 THEN NULL ELSE o[1]
      /\ \A i \in 1 .. n : o[i] # NULL
      /\ \A i \in 1 .. n : next[o[i]] = IF i = n THEN NULL ELSE o[i + 1]
  BY DEF Chained, Path
<1>3. OntoIs(o2, o, x)
  BY <1>1, OntoFacts
<1> HIDE DEF n, o2, next, prev, next2, prev2
<1>4. o2 \in Seq(MapItems) /\ Len(o2) = n + 1 /\ o2[1] = x /\ \A i \in 2 .. n + 1 : o2[i] = o[i - 1]
  BY <1>3 DEF OntoIs, n
<1>5. \A i \in 1 .. n + 1 : i = 1 \/ (i \in 2 .. n + 1 /\ i - 1 \in 1 .. n /\ o2[i] = o[i - 1])
  BY <1>1, <1>4
<1>6. /\ next2[x] = first /\ prev2[x] \in touched \union {NULL} /\ (n > 0 => prev2[first] = x)
      /\ \A y \in used \ touched : next2[y] = next[y]
      /\ \A y \in used \ touched : y # first => prev2[y] = prev[y]
  BY DEF n, next, prev, next2, prev2
<1>7. \A i \in 1 .. n + 1 : o2[i] # NULL
  BY <1>2, <1>4, <1>5, MapConstants
<1>8. ASSUME NEW i \in 1 .. n + 1 PROVE next2[o2[i]] = IF i = n + 1 THEN NULL ELSE o2[i + 1]
  <2>1. CASE i = 1
    <3>1. next2[o2[i]] = IF n = 0 THEN NULL ELSE o[1]
      BY <1>2, <1>4, <1>6, <2>1
    <3>2. n # 0 => 2 \in 2 .. n + 1 /\ 2 - 1 = 1
      BY <1>1
    <3>3. n # 0 => o2[2] = o[1]
      BY <1>4, <3>2
    <3> QED BY <1>1, <2>1, <3>1, <3>3
  <2>2. CASE i # 1
    <3>1. i - 1 \in 1 .. n /\ o2[i] = o[i - 1]
      BY <1>5, <2>2
    <3>2. next2[o2[i]] = next[o[i - 1]]
      BY <1>1, <1>6, <3>1
    <3>3. next[o[i - 1]] = IF i - 1 = n THEN NULL ELSE o[(i - 1) + 1]
      BY <1>2, <3>1
    <3>4. (i - 1 = n <=> i = n + 1) /\ (i - 1) + 1 = i
      BY <1>1
    <3>5. i # n + 1 => i + 1 \in 2 .. n + 1 /\ (i + 1) - 1 = i
      BY <1>1, <3>1
    <3>6. i # n + 1 => o2[i + 1] = o[i]
      BY <1>4, <3>5
    <3> QED BY <3>2, <3>3, <3>4, <3>6
  <2> QED BY <2>1, <2>2
<1>9. Path(o2, next2, x)
  BY <1>1, <1>4, <1>7, <1>8 DEF Path
<1>10. ASSUME NEW i \in 1 .. n + 1
       PROVE  o2[i] \in (used \union {x}) \ touched /\ Hash(o2[i][1]) = b
  <2>1. CASE i = 1
    BY <1>4, <2>1
  <2>2. CASE i # 1
    <3>1. i - 1 \in 1 .. n /\ o2[i] = o[i - 1]
      BY <1>5, <2>2
    <3> QED BY <1>1, <3>1
  <2> QED BY <2>1, <2>2
<1>11. ASSUME NEW i \in 1 .. n + 1, NEW j \in 1 .. n + 1, o2[i] = o2[j] PROVE i = j
  <2>1. CASE i = 1 /\ j = 1
    BY <2>1
  <2>2. CASE i = 1 /\ j # 1
    <3>1. o2[j] \in used
      BY <1>1, <1>5, <2>2
    <3> QED BY <1>4, <1>11, <2>2, <3>1
  <2>3. CASE i # 1 /\ j = 1
    <3>1. o2[i] \in used
      BY <1>1, <1>5, <2>3
    <3> QED BY <1>4, <1>11, <2>3, <3>1
  <2>4. CASE i # 1 /\ j # 1
    <3>1. i - 1 \in 1 .. n /\ j - 1 \in 1 .. n /\ o[i - 1] = o[j - 1]
      BY <1>5, <1>11, <2>4
    <3>2. i - 1 = j - 1
      BY <1>1, <3>1
    <3> QED BY <3>2
  <2> QED BY <2>1, <2>2, <2>3, <2>4
<1>12. ASSUME NEW i \in 2 .. n + 1 PROVE prev2[o2[i]] = o2[i - 1]
  <2>1. i - 1 \in 1 .. n /\ o2[i] = o[i - 1]
    BY <1>1, <1>4
  <2>2. CASE i = 2
    <3>1. i - 1 = 1 /\ n > 0 /\ n # 0
      BY <1>1, <2>1, <2>2
    <3> QED BY <1>2, <1>4, <1>6, <2>1, <3>1
  <2>3. CASE i # 2
    <3>1. i - 1 \in 2 .. n /\ i - 1 \in 2 .. n + 1 /\ 1 \in 1 .. n /\ i - 1 # 1 /\ n # 0
      BY <1>1, <2>1, <2>3
    <3>2. prev[o[i - 1]] = o[(i - 1) - 1] /\ o2[i - 1] = o[(i - 1) - 1]
      BY <1>1, <1>4, <3>1
    <3>3. o[i - 1] # first
      BY <1>1, <1>2, <2>1, <3>1
    <3> QED BY <1>1, <1>6, <2>1, <3>2, <3>3
  <2> QED BY <2>2, <2>3
<1>13. Chained(o2, b, x, links2, used \union {x}, touched)
  BY <1>4, <1>6, <1>9, <1>10, <1>11, <1>12 DEF Chained, next2, prev2
<1> QED BY <1>13 DEF o2

(* A removal out of a list *)
Without(o, i) == [j \in 1 .. Len(o) - 1 |-> IF j < i THEN o[j] ELSE o[j + 1]]

WithoutIs(o2, o, i) ==
  /\ o2 \in Seq(MapItems) /\ Len(o2) = Len(o) - 1
  /\ \A j \in 1 .. Len(o) - 1 : o2[j] = IF j < i THEN o[j] ELSE o[j + 1]

LEMMA WithoutFacts ==
  ASSUME NEW o \in Seq(MapItems), NEW i \in 1 .. Len(o)
  PROVE  WithoutIs(Without(o, i), o, i)
<1> DEFINE n == Len(o) - 1
           o2 == Without(o, i)
<1>1. n \in Nat /\ Len(o) = n + 1 /\ \A j \in 1 .. n : j \in 1 .. n + 1 /\ j + 1 \in 1 .. n + 1
  <2>1. Len(o) \in Nat /\ i <= Len(o) /\ i >= 1
    OBVIOUS
  <2> QED BY <2>1
<1>2. \A j \in 1 .. n : o2[j] = IF j < i THEN o[j] ELSE o[j + 1]
  BY DEF Without
<1>3. \A j \in 1 .. n : o2[j] \in MapItems
  BY <1>1, <1>2
<1>4. o2 = [j \in 1 .. n |-> o2[j]]
  BY DEF Without
<1> HIDE DEF o2, n
<1>5. o2 \in [1 .. n -> MapItems]
  BY <1>3, <1>4
<1>6. o2 \in Seq(MapItems) /\ Len(o2) = n
  BY <1>1, <1>5, FunctionIsSeq
<1> QED BY <1>2, <1>6 DEF WithoutIs, o2, n

LEMMA WithoutFound ==
  ASSUME NEW o \in Seq(MapItems), NEW i \in 1 .. Len(o), NEW o2, WithoutIs(o2, o, i),
         NEW k, o[i][1] # k, NEW y, FoundIn(o, k, y)
  PROVE  FoundIn(o2, k, y)
<1> DEFINE n == Len(o) - 1
           at(j) == IF j < i THEN j ELSE j - 1
<1>1. n \in Nat /\ Len(o) = n + 1 /\ Len(o2) = n /\ i \in 1 .. n + 1
      /\ \A j \in 1 .. n : o2[j] = IF j < i THEN o[j] ELSE o[j + 1]
  <2>1. Len(o) \in Nat /\ i <= Len(o) /\ i >= 1
    OBVIOUS
  <2> QED BY <2>1 DEF WithoutIs
<1> HIDE DEF n
<1>2. CASE y = NULL /\ \A j \in 1 .. Len(o) : o[j][1] # k
  <2>1. \A j \in 1 .. n : o2[j][1] # k
    <3> SUFFICES ASSUME NEW j \in 1 .. n PROVE o2[j][1] # k
      OBVIOUS
    <3>1. j \in 1 .. Len(o) /\ j + 1 \in 1 .. Len(o)
      BY <1>1
    <3> QED BY <1>1, <1>2, <3>1
  <2> QED BY <1>1, <1>2, <2>1 DEF FoundIn
<1>3. CASE \E j \in 1 .. Len(o) : y = o[j] /\ o[j][1] = k /\ \A l \in 1 .. j - 1 : o[l][1] # k
  <2>1. PICK j \in 1 .. Len(o) : y = o[j] /\ o[j][1] = k /\ \A l \in 1 .. j - 1 : o[l][1] # k
    BY <1>3
  <2>2. j # i
    BY <2>1
  <2>3. at(j) \in 1 .. n /\ o2[at(j)] = o[j]
    <3>1. at(j) \in 1 .. n /\ (j < i \/ (~(at(j) < i) /\ at(j) + 1 = j))
      BY <1>1, <2>2
    <3> QED BY <1>1, <3>1
  <2>4. ASSUME NEW l \in 1 .. at(j) - 1 PROVE o2[l][1] # k
    <3>1. l \in 1 .. n /\ l \in 1 .. j - 1 /\ (~(l < i) => l + 1 \in 1 .. j - 1)
      <4>1. l \in Nat /\ l >= 1 /\ l <= at(j) - 1
        BY <2>3
      <4>2. at(j) <= j /\ (~(j < i) => at(j) = j - 1) /\ at(j) <= n
            /\ at(j) \in Nat /\ j \in Nat /\ i \in Nat
        BY <1>1, <2>3
      <4> HIDE DEF at
      <4>3. l \in 1 .. n /\ l \in 1 .. j - 1
        BY <1>1, <2>3, <4>1, <4>2
      <4>4. ~(l < i) => l + 1 \in 1 .. j - 1
        BY <1>1, <4>1, <4>2
      <4> QED BY <4>3, <4>4
    <3> QED BY <1>1, <2>1, <3>1
  <2> HIDE DEF at
  <2> QED BY <1>1, <2>1, <2>3, <2>4 DEF FoundIn
<1> QED BY <1>2, <1>3 DEF FoundIn

LEMMA WithoutChained ==
  ASSUME NEW o, NEW b, NEW first, NEW links, NEW used, NEW touched,
         Chained(o, b, first, links, used, touched),
         NEW i \in 2 .. Len(o), NEW used2, NEW touched2,
         (used \ touched) \ {o[i]} \subseteq used2 \ touched2, NEW links2,
         \A y \in (used \ touched) \ {o[i]} :
           /\ links2.next[y] = IF y = o[i - 1] THEN links.next[o[i]] ELSE links.next[y]
           /\ y # first => links2.prev[y] = IF y = links.next[o[i]] THEN o[i - 1] ELSE links.prev[y],
         links2.prev[first] \in touched2 \union {NULL}
  PROVE  Chained(Without(o, i), b, first, links2, used2, touched2)
<1> DEFINE n == Len(o) - 1
           o2 == Without(o, i)
           S == used \ touched
           next == links.next
           prev == links.prev
           next2 == links2.next
           prev2 == links2.prev
<1>1. /\ o \in Seq(MapItems)
      /\ \A j \in 1 .. Len(o) : o[j] \in S /\ Hash(o[j][1]) = b
      /\ \A j, l \in 1 .. Len(o) : o[j] = o[l] => j = l
      /\ \A j \in 2 .. Len(o) : prev[o[j]] = o[j - 1]
  BY DEF Chained
<1>2. /\ first = IF Len(o) = 0 THEN NULL ELSE o[1]
      /\ \A j \in 1 .. Len(o) : o[j] # NULL
      /\ \A j \in 1 .. Len(o) : next[o[j]] = IF j = Len(o) THEN NULL ELSE o[j + 1]
  BY DEF Chained, Path
<1>3. WithoutIs(o2, o, i)
  <2>1. i \in 1 .. Len(o)
    OBVIOUS
  <2> QED BY <1>1, <2>1, WithoutFacts
<1>4. n \in Nat /\ Len(o) = n + 1 /\ i \in 2 .. n + 1 /\ n # 0 /\ n > 0
  <2>1. Len(o) \in Nat /\ i <= Len(o) /\ i >= 2
    BY <1>1
  <2> QED BY <2>1
<1>5. o2 \in Seq(MapItems) /\ Len(o2) = n /\ \A j \in 1 .. n : o2[j] = IF j < i THEN o[j] ELSE o[j + 1]
  BY <1>3 DEF WithoutIs
<1>6. \A y \in S \ {o[i]} : /\ y \in used2 \ touched2
                            /\ next2[y] = IF y = o[i - 1] THEN next[o[i]] ELSE next[y]
                            /\ y # first => prev2[y] = IF y = next[o[i]] THEN o[i - 1] ELSE prev[y]
  OBVIOUS
<1>7. prev2[first] \in touched2 \union {NULL}
  OBVIOUS
<1> HIDE DEF n, o2, S, next, prev, next2, prev2
<1> DEFINE at(j) == IF j < i THEN j ELSE j + 1
<1>8. \A j \in 1 .. n : at(j) \in 1 .. n + 1 /\ at(j) # i /\ o2[j] = o[at(j)]
  BY <1>4, <1>5
<1>9. \A j \in 1 .. n : o[at(j)] \in S \ {o[i]} /\ Hash(o[at(j)][1]) = b
  <2> SUFFICES ASSUME NEW j \in 1 .. n PROVE o[at(j)] \in S \ {o[i]} /\ Hash(o[at(j)][1]) = b
    OBVIOUS
  <2>1. at(j) \in 1 .. Len(o) /\ at(j) # i /\ i \in 1 .. Len(o)
    BY <1>4, <1>8
  <2> HIDE DEF at
  <2> QED BY <1>1, <2>1
<1>10. \A j \in 1 .. n : o2[j] \in used2 \ touched2 /\ Hash(o2[j][1]) = b
  <2> SUFFICES ASSUME NEW j \in 1 .. n PROVE o2[j] \in used2 \ touched2 /\ Hash(o2[j][1]) = b
    OBVIOUS
  <2>1. o[at(j)] \in S \ {o[i]} /\ Hash(o[at(j)][1]) = b /\ o2[j] = o[at(j)]
    BY <1>8, <1>9
  <2> HIDE DEF at
  <2> QED BY <1>6, <2>1
<1>11. first = o[1] /\ o2[1] = o[1] /\ 1 \in 1 .. Len(o)
  BY <1>2, <1>4, <1>5
<1>12. ASSUME NEW j \in 1 .. n PROVE next2[o2[j]] = IF j = n THEN NULL ELSE o2[j + 1]
  <2>1. o2[j] = o[at(j)] /\ o[at(j)] \in S \ {o[i]} /\ at(j) \in 1 .. Len(o)
    BY <1>4, <1>8, <1>9
  <2>2. j # n => j + 1 \in 1 .. n /\ o2[j + 1] = IF j + 1 < i THEN o[j + 1] ELSE o[(j + 1) + 1]
    BY <1>4, <1>5
  <2>3. CASE j = i - 1
    <3>1. at(j) = i - 1 /\ i \in 1 .. Len(o)
      BY <1>4, <2>3
    <3>2. next2[o2[j]] = next[o[i]]
      BY <1>6, <2>1, <3>1
    <3>3. next[o[i]] = IF i = Len(o) THEN NULL ELSE o[i + 1]
      BY <1>2, <3>1
    <3>4. (i = Len(o) <=> j = n) /\ (j # n => ~(j + 1 < i) /\ (j + 1) + 1 = i + 1)
      BY <1>4, <2>3
    <3> HIDE DEF at
    <3> QED BY <2>2, <3>2, <3>3, <3>4
  <2>4. CASE j # i - 1
    <3>1. at(j) # i - 1 /\ i - 1 \in 1 .. Len(o)
      BY <1>4, <2>4
    <3>2. o[at(j)] # o[i - 1]
      BY <1>1, <2>1, <3>1
    <3>3. next2[o2[j]] = next[o[at(j)]]
      BY <1>6, <2>1, <3>2
    <3>4. next[o[at(j)]] = IF at(j) = Len(o) THEN NULL ELSE o[at(j) + 1]
      BY <1>2, <2>1
    <3>5. (at(j) = Len(o) <=> j = n) /\ (j # n => at(j) + 1 = IF j + 1 < i THEN j + 1 ELSE (j + 1) + 1)
      BY <1>4, <2>4
    <3> HIDE DEF at
    <3> QED BY <2>2, <3>3, <3>4, <3>5
  <2> QED BY <2>3, <2>4
<1>13. ASSUME NEW j \in 2 .. n PROVE prev2[o2[j]] = o2[j - 1]
  <2>1. j \in 1 .. n /\ j - 1 \in 1 .. n
    BY <1>4
  <2>2. o2[j] = o[at(j)] /\ o[at(j)] \in S \ {o[i]} /\ at(j) \in 2 .. Len(o) /\ at(j) \in 1 .. Len(o)
    BY <1>4, <1>8, <1>9, <2>1
  <2>3. o2[j] # first
    <3>1. at(j) # 1
      BY <2>2
    <3> HIDE DEF at
    <3> QED BY <1>1, <1>11, <2>2, <3>1
  <2>4. next[o[i]] = IF i = Len(o) THEN NULL ELSE o[i + 1]
    BY <1>2, <1>4
  <2>5. o2[j - 1] = IF j - 1 < i THEN o[j - 1] ELSE o[(j - 1) + 1]
    BY <1>5, <2>1
  <2>6. CASE j = i
    <3>1. at(j) = i + 1 /\ i # Len(o) /\ j - 1 < i /\ j - 1 = i - 1
      BY <1>4, <2>1, <2>6
    <3>2. o2[j] = next[o[i]]
      BY <2>2, <2>4, <3>1
    <3>3. prev2[o2[j]] = o[i - 1]
      BY <1>6, <2>2, <2>3, <3>2
    <3> HIDE DEF at
    <3> QED BY <2>5, <3>1, <3>3
  <2>7. CASE j # i
    <3>1. at(j) # i + 1 /\ (i # Len(o) => i + 1 \in 1 .. Len(o)) /\ at(j) - 1 = IF j - 1 < i THEN j - 1 ELSE (j - 1) + 1
      BY <1>4, <2>1, <2>7
    <3>2. o[at(j)] # next[o[i]]
      <4> HIDE DEF at
      <4>1. CASE i = Len(o)
        BY <1>2, <2>2, <2>4, <4>1
      <4>2. CASE i # Len(o)
        BY <1>1, <2>2, <2>4, <3>1, <4>2
      <4> QED BY <4>1, <4>2
    <3>3. prev2[o2[j]] = prev[o[at(j)]]
      BY <1>6, <2>2, <2>3, <3>2
    <3>4. prev[o[at(j)]] = o[at(j) - 1]
      BY <1>1, <2>2
    <3> HIDE DEF at
    <3> QED BY <2>5, <3>1, <3>3, <3>4
  <2> QED BY <2>6, <2>7
<1>14. ASSUME NEW j \in 1 .. n, NEW l \in 1 .. n, o2[j] = o2[l] PROVE j = l
  <2>1. at(j) \in 1 .. Len(o) /\ at(l) \in 1 .. Len(o) /\ o[at(j)] = o[at(l)]
    BY <1>4, <1>8, <1>14
  <2>2. at(j) = at(l)
    <3> HIDE DEF at
    <3> QED BY <1>1, <2>1
  <2> QED BY <1>4, <2>2
<1>15. \A j \in 1 .. n : o2[j] # NULL
  <2> SUFFICES ASSUME NEW j \in 1 .. n PROVE o2[j] # NULL
    OBVIOUS
  <2>1. at(j) \in 1 .. Len(o) /\ o2[j] = o[at(j)]
    BY <1>4, <1>8
  <2> HIDE DEF at
  <2> QED BY <1>2, <2>1
<1>16. Path(o2, next2, first)
  BY <1>4, <1>5, <1>11, <1>12, <1>15 DEF Path
<1>17. Chained(o2, b, first, links2, used2, touched2)
  BY <1>4, <1>5, <1>7, <1>10, <1>11, <1>13, <1>14, <1>16 DEF Chained, next2, prev2
<1> QED BY <1>17 DEF o2

LEMMA MapStarts == Map!Init => MapInv
<1> SUFFICES ASSUME Map!Init PROVE MapInv
  OBVIOUS
<1>1. /\ object = [buck |-> [b \in Buckets |-> NULL], used |-> {},
                   links |-> [prev |-> [x \in MapItems |-> NULL], next |-> [x \in MapItems |-> NULL]]]
      /\ ghost = [value |-> [k \in MapKeys |-> NULL], moved |-> {}, touched |-> {},
                  front |-> FALSE, cut |-> FALSE, deleted |-> FALSE]
  BY DEF Map!Init, MapItems
<1>2. MapType
  BY <1>1 DEF MapType, Pointers
<1> DEFINE o == << >>
           c == [b \in Buckets |-> o]
<1>3. o \in Seq(MapItems) /\ Len(o) = 0 /\ 1 .. 0 = {} /\ 2 .. 0 = {} /\ ~(0 > 0)
  OBVIOUS
<1>4. \A b \in Buckets : c[b] = o
  OBVIOUS
<1> HIDE DEF o, c
<1>5. \A b \in Buckets : Chained(o, b, NULL, object.links, {}, {})
  BY <1>3 DEF Chained, Path
<1>6. \A k \in MapKeys : FoundIn(o, k, NULL)
  BY <1>3 DEF FoundIn
<1>7. Held(c, object, ghost)
  BY <1>1, <1>4, <1>5, <1>6, MapConstants DEF Held
<1> QED BY <1>1, <1>2, <1>7 DEF MapInv

(* Lists of which none changes but that of one bucket *)
LEMMA ChainedStill ==
  ASSUME NEW o, NEW b, NEW first, NEW links, NEW used, NEW touched,
         Chained(o, b, first, links, used, touched),
         NEW links2, NEW used2, NEW touched2,
         \A i \in 1 .. Len(o) : o[i] \in used2 \ touched2,
         \A i \in 1 .. Len(o) : links2.next[o[i]] = links.next[o[i]],
         \A i \in 1 .. Len(o) : links2.prev[o[i]] = links.prev[o[i]],
         touched \subseteq touched2
  PROVE  Chained(o, b, first, links2, used2, touched2)
<1>1. Len(o) \in Nat /\ (Len(o) > 0 => 1 \in 1 .. Len(o)) /\ \A i \in 2 .. Len(o) : i \in 1 .. Len(o)
  <2>1. o \in Seq(MapItems)
    BY DEF Chained
  <2> QED BY <2>1
<1>2. Path(o, links2.next, first)
  BY DEF Chained, Path
<1>3. Len(o) > 0 => links2.prev[o[1]] \in touched2 \union {NULL}
  BY <1>1 DEF Chained
<1> QED BY <1>1, <1>2, <1>3 DEF Chained

(* What the macros do to the pointers *)
BothWays == [prev : Pointers, next : Pointers]

Inserted(links2, links, at, x) ==
  /\ links2 \in BothWays /\ links2.next[x] = at /\ links2.prev[x] = links.prev[at]
  /\ links2.prev[at] = x
  /\ \A y \in MapItems : y # x /\ y # links.prev[at] => links2.next[y] = links.next[y]
  /\ \A y \in MapItems : y # x /\ y # at => links2.prev[y] = links.prev[y]

LEMMA InsertedPrev ==
  ASSUME NEW links \in BothWays, NEW at \in MapItems, NEW x \in MapItems, at # x,
         links.prev[at] # x
  PROVE  Inserted(Map!InsertFront(links, at, x), links, at, x)
<1> DEFINE p == links.prev[at]
           prev == [links.prev EXCEPT ![x] = p, ![at] = x]
           next == [links.next EXCEPT ![x] = at]
           next2 == IF p = NULL THEN next ELSE [next EXCEPT ![p] = x]
<1>1. links.prev \in Pointers /\ links.next \in Pointers /\ p \in MapItems \union {NULL}
      /\ NULL \notin MapItems
  BY MapConstants DEF BothWays, Pointers
<1>2. Map!InsertFront(links, at, x) = [prev |-> prev, next |-> next2]
  BY DEF Map!InsertFront, Map!NullInsertPrev, Map!Store
<1>3. prev \in Pointers /\ next \in Pointers
  BY <1>1 DEF Pointers
<1>4. next2 \in Pointers
  <2> HIDE DEF next
  <2> QED BY <1>1, <1>3 DEF Pointers
<1>5. prev[x] = p /\ prev[at] = x /\ \A y \in MapItems : y # x /\ y # at => prev[y] = links.prev[y]
  BY <1>1 DEF Pointers
<1>6. next[x] = at /\ \A y \in MapItems : y # x => next[y] = links.next[y]
  BY <1>1 DEF Pointers
<1>7. next2[x] = at /\ \A y \in MapItems : y # x /\ y # p => next2[y] = links.next[y]
  <2> HIDE DEF next
  <2>1. p # x
    OBVIOUS
  <2> HIDE DEF p
  <2> QED BY <1>1, <1>3, <1>6, <2>1 DEF Pointers
<1> HIDE DEF prev, next2, next
<1> QED BY <1>2, <1>3, <1>4, <1>5, <1>7 DEF Inserted, BothWays

Unlinked(links2, links, x) ==
  /\ links2 \in BothWays
  /\ \A y \in MapItems :
       /\ links2.next[y] = IF y = links.prev[x] THEN links.next[x] ELSE links.next[y]
       /\ links2.prev[y] = IF y = links.next[x] THEN links.prev[x] ELSE links.prev[y]

LEMMA UnlinkedBoth ==
  ASSUME NEW links \in BothWays, NEW x \in MapItems, links.prev[x] \in MapItems,
         links.prev[x] # x
  PROVE  Unlinked(Map!NullRemove(links, x), links, x)
<1> DEFINE p == links.prev[x]
           q == links.next[x]
           next == [links.next EXCEPT ![p] = q]
           prev == IF q = NULL THEN links.prev ELSE [links.prev EXCEPT ![q] = p]
<1>1. links.prev \in Pointers /\ links.next \in Pointers /\ p \in MapItems /\ p # x
      /\ q \in MapItems \union {NULL} /\ NULL \notin MapItems
  BY MapConstants DEF BothWays, Pointers
<1>2. next[x] = q
  BY <1>1 DEF Pointers
<1>3. Map!NullRemove(links, x) = [next |-> next, prev |-> prev]
  <2>1. Map!Store(links.next, p, q) = next
    BY <1>1 DEF Map!Store
  <2>2. Map!Store(links.prev, q, p) = prev
    BY <1>1 DEF Map!Store
  <2>3. Map!NullRemove(links, x)
          = [next |-> Map!Store(links.next, p, q),
             prev |-> Map!Store(links.prev, Map!Store(links.next, p, q)[x], p)]
    BY DEF Map!NullRemove
  <2> HIDE DEF next, prev
  <2>4. Map!Store(links.next, p, q)[x] = q
    BY <1>2, <2>1
  <2> HIDE DEF p, q
  <2> QED BY <2>1, <2>2, <2>3, <2>4
<1>4. next \in Pointers /\ prev \in Pointers
  BY <1>1 DEF Pointers
<1>5. \A y \in MapItems : next[y] = IF y = p THEN q ELSE links.next[y]
  BY <1>1 DEF Pointers
<1>6. \A y \in MapItems : prev[y] = IF y = q THEN p ELSE links.prev[y]
  BY <1>1 DEF Pointers
<1> HIDE DEF prev, next
<1> QED BY <1>3, <1>4, <1>5, <1>6 DEF Unlinked, BothWays

LEMMA MapSet ==
  ASSUME MapInv, NEW k \in MapKeys, Map!Set(k)
  PROVE  MapInv'
<1> DEFINE b == Hash(k)
           unused == {n \in 1 .. Copies : <<k, n>> \notin object.used}
           x == <<k, CHOOSE n \in unused : \A m \in unused : n <= m>>
           f == object.buck[b]
           links == object.links
           used == object.used
           touched == ghost.touched
           links2 == IF f = NULL
                     THEN [prev |-> [links.prev EXCEPT ![x] = NULL],
                           next |-> [links.next EXCEPT ![x] = NULL]]
                     ELSE Map!InsertFront(links, f, x)
           value2 == [ghost.value EXCEPT ![k] = x]
           moved2 == ghost.moved \ {k}
           buck2 == [object.buck EXCEPT ![b] = x]
           map2 == [buck |-> buck2, used |-> used \union {x}, links |-> links2]
           known2 == [value |-> value2, moved |-> moved2, touched |-> touched,
                      front |-> ghost.front, cut |-> ghost.cut, deleted |-> ghost.deleted]
<1>1. /\ ~ghost.cut /\ ~ghost.deleted /\ unused # {}
      /\ object' = [object EXCEPT !.buck[b] = x, !.used = @ \union {x}, !.links = links2]
      /\ ghost' = [ghost EXCEPT !.value[k] = x, !.moved = @ \ {k}]
  BY DEF Map!Set, Map!Usable
<1>2. /\ ghost = [value |-> ghost.value, moved |-> ghost.moved, touched |-> ghost.touched,
                  front |-> ghost.front, cut |-> ghost.cut, deleted |-> ghost.deleted]
      /\ ghost.front \in BOOLEAN /\ ghost.cut \in BOOLEAN /\ ghost.deleted \in BOOLEAN
  BY DEF MapInv
<1>3. ghost' = known2
  <2> HIDE DEF x
  <2> QED BY <1>1, <1>2
<1>4. CASE ghost.front
  <2> HIDE DEF value2, moved2
  <2> QED BY <1>2, <1>3, <1>4 DEF MapInv
<1>5. CASE ~ghost.front
  <2>1. MapType
    BY <1>1, <1>5 DEF MapInv
  <2>2. PICK c : Held(c, object, ghost)
    BY <1>1, <1>5 DEF MapInv
  <2>3. /\ used \subseteq MapItems /\ links \in BothWays /\ b \in Buckets /\ f \in MapItems \union {NULL}
        /\ object.buck \in [Buckets -> MapItems \union {NULL}] /\ touched \subseteq used
        /\ object = [buck |-> object.buck, used |-> used, links |-> links]
        /\ ghost.value \in [MapKeys -> MapItems \union {NULL}]
    BY <2>1, MapConstants DEF MapType, BothWays
  <2>4. object' = map2
    <3> HIDE DEF x, links2
    <3> QED BY <1>1, <2>3
  <2>5. x \in MapItems /\ x \notin used /\ x[1] = k /\ Hash(x[1]) = b /\ x \notin touched
    <3> DEFINE n == CHOOSE n \in unused : \A m \in unused : n <= m
    <3>1. n \in unused
      <4>1. unused \subseteq Nat
        OBVIOUS
      <4> HIDE DEF unused
      <4> QED BY <1>1, <4>1, ChosenMinimum
    <3> HIDE DEF n
    <3>2. <<k, n>> \in MapItems /\ <<k, n>> \notin used /\ <<k, n>>[1] = k
      BY <3>1, MapConstants
    <3> QED BY <2>3, <3>2 DEF n
  <2> HIDE DEF x, f, links, used, touched, b, unused
  <2> DEFINE o == c[b]
             o2 == Onto(o, x)
             c2 == [d \in Buckets |-> IF d = b THEN o2 ELSE c[d]]
  <2>6. \A d \in Buckets : Chained(c[d], d, object.buck[d], links, used, touched)
    BY <2>2 DEF Held, links, used, touched
  <2>7. /\ Chained(o, b, f, links, used, touched) /\ o \in Seq(MapItems) /\ Len(o) \in Nat
        /\ f = IF Len(o) = 0 THEN NULL ELSE o[1]
        /\ Len(o) > 0 => links.prev[f] \in touched \union {NULL}
    <3>1. Chained(o, b, f, links, used, touched)
      BY <2>3, <2>6 DEF f
    <3> HIDE DEF o
    <3>2. o \in Seq(MapItems) /\ Len(o) \in Nat
      BY <3>1 DEF Chained
    <3>3. f = IF Len(o) = 0 THEN NULL ELSE o[1]
      BY <3>1 DEF Chained, Path
    <3>4. Len(o) > 0 => links.prev[f] \in touched \union {NULL}
      BY <3>1, <3>2, <3>3 DEF Chained
    <3> QED BY <3>1, <3>2, <3>3, <3>4
  <2>8. f # NULL => f \in used \ touched /\ Hash(f[1]) = b /\ Len(o) > 0
    <3> HIDE DEF o
    <3>1. f # NULL => 1 \in 1 .. Len(o) /\ Len(o) > 0
      BY <2>7
    <3> QED BY <2>7, <3>1 DEF Chained
  <2>9. /\ links2 \in BothWays /\ links2.next[x] = f
        /\ links2.prev[x] \in touched \union {NULL}
        /\ f # NULL => links2.prev[f] = x
        /\ \A y \in used \ touched : links2.next[y] = links.next[y]
        /\ \A y \in used \ touched : y # f => links2.prev[y] = links.prev[y]
    <3>1. CASE f = NULL
      <4>1. links.prev \in Pointers /\ links.next \in Pointers
        BY <2>3 DEF BothWays
      <4>2. links2 = [prev |-> [links.prev EXCEPT ![x] = NULL],
                      next |-> [links.next EXCEPT ![x] = NULL]]
        BY <3>1
      <4> HIDE DEF links2
      <4> QED BY <2>3, <2>5, <3>1, <4>1, <4>2 DEF BothWays, Pointers
    <3>2. CASE f # NULL
      <4>1. links.prev[f] # x /\ f # x /\ f \in MapItems
        BY <2>3, <2>5, <2>7, <2>8, <3>2, MapConstants
      <4>2. Inserted(links2, links, f, x)
        BY <2>3, <2>5, <3>2, <4>1, InsertedPrev
      <4> HIDE DEF links2, o
      <4>3. links.prev[f] \in touched \union {NULL}
        BY <2>7, <2>8, <3>2
      <4>4. \A y \in used \ touched : y \in MapItems /\ y # x /\ y # links.prev[f]
        BY <2>3, <2>5, <4>3, MapConstants
      <4>5. links2 \in BothWays /\ links2.next[x] = f /\ links2.prev[x] = links.prev[f]
            /\ links2.prev[f] = x
        BY <4>2 DEF Inserted
      <4>6. \A y \in used \ touched : links2.next[y] = links.next[y]
        BY <4>2, <4>4 DEF Inserted
      <4>7. \A y \in used \ touched : y # f => links2.prev[y] = links.prev[y]
        BY <4>2, <4>4 DEF Inserted
      <4> QED BY <4>3, <4>5, <4>6, <4>7
    <3> QED BY <3>1, <3>2
  <2> HIDE DEF links2, o
  <2>10. Chained(o2, b, x, links2, used \union {x}, touched)
    <3>1. Len(o) > 0 => links2.prev[f] = x
      <4>1. Len(o) > 0 => 1 \in 1 .. Len(o) /\ Len(o) # 0
        BY <2>7
      <4>2. Len(o) > 0 => f # NULL
        BY <2>7, <4>1 DEF Chained, Path
      <4> QED BY <2>9, <4>2
    <3> QED BY <2>5, <2>7, <2>9, <3>1, OntoChained
  <2>11. ASSUME NEW d \in Buckets, d # b
         PROVE  Chained(c[d], d, object.buck[d], links2, used \union {x}, touched)
    <3>1. Chained(c[d], d, object.buck[d], links, used, touched)
      BY <2>6
    <3>2. \A i \in 1 .. Len(c[d]) : c[d][i] \in used \ touched /\ Hash(c[d][i][1]) = d
      BY <3>1 DEF Chained
    <3>3. \A i \in 1 .. Len(c[d]) : c[d][i] # f
      <4>1. \A i \in 1 .. Len(c[d]) : c[d][i] # NULL
        BY <3>1 DEF Chained, Path
      <4> QED BY <2>8, <2>11, <3>2, <4>1
    <3>4. \A i \in 1 .. Len(c[d]) : /\ c[d][i] \in (used \union {x}) \ touched
                                   /\ links2.next[c[d][i]] = links.next[c[d][i]]
                                   /\ links2.prev[c[d][i]] = links.prev[c[d][i]]
      BY <2>9, <3>2, <3>3
    <3> QED BY <3>1, <3>4, ChainedStill
  <2>12. OntoIs(o2, o, x)
    BY <2>5, <2>7, OntoFacts
  <2> HIDE DEF o2
  <2>13. \A d \in Buckets : c2[d] = IF d = b THEN o2 ELSE c[d]
    OBVIOUS
  <2> HIDE DEF c2
  <2>14. buck2 \in [Buckets -> MapItems \union {NULL}]
         /\ \A d \in Buckets : buck2[d] = IF d = b THEN x ELSE object.buck[d]
    BY <2>3, <2>5
  <2>15. value2 \in [MapKeys -> MapItems \union {NULL}]
         /\ \A j \in MapKeys : value2[j] = IF j = k THEN x ELSE ghost.value[j]
    BY <2>3, <2>5
  <2> HIDE DEF buck2, value2
  <2>16. ASSUME NEW y \in (used \union {x}) \ touched
         PROVE  \E i \in 1 .. Len(c2[Hash(y[1])]) : c2[Hash(y[1])][i] = y
    <3>1. Len(o2) = Len(o) + 1 /\ o2[1] = x /\ \A i \in 2 .. Len(o) + 1 : o2[i] = o[i - 1]
      BY <2>12 DEF OntoIs
    <3>2. CASE y = x
      <4>1. c2[Hash(y[1])] = o2 /\ 1 \in 1 .. Len(o2)
        BY <2>3, <2>5, <2>7, <2>13, <3>1, <3>2
      <4> QED BY <3>1, <3>2, <4>1
    <3>3. CASE y # x
      <4>1. y \in used \ touched /\ y \in MapItems
        BY <2>3, <3>3
      <4>2. PICK i \in 1 .. Len(c[Hash(y[1])]) : c[Hash(y[1])][i] = y
        BY <2>2, <4>1 DEF Held, used, touched
      <4>3. Hash(y[1]) \in Buckets
        BY <4>1, MapConstants
      <4>4. CASE Hash(y[1]) = b
        <5>1. i \in 1 .. Len(o) /\ o[i] = y
          BY <4>2, <4>4 DEF o
        <5>2. i + 1 \in 1 .. Len(o2) /\ i + 1 \in 2 .. Len(o) + 1 /\ (i + 1) - 1 = i
          BY <2>7, <3>1, <5>1
        <5>3. o2[i + 1] = y
          BY <3>1, <5>1, <5>2
        <5> QED BY <2>13, <4>3, <4>4, <5>2, <5>3
      <4>5. CASE Hash(y[1]) # b
        BY <2>13, <4>2, <4>3, <4>5
      <4> QED BY <4>4, <4>5
    <3> QED BY <3>2, <3>3
  <2>17. ASSUME NEW j \in MapKeys, j \notin moved2
         PROVE  FoundIn(c2[Hash(j)], j, value2[j])
    <3>1. Hash(j) \in Buckets
      BY MapConstants
    <3>2. CASE j = k
      <4>1. c2[Hash(j)] = o2 /\ value2[j] = x
        BY <2>13, <2>15, <3>1, <3>2 DEF b
      <4>2. FoundIn(o2, k, x)
        BY <2>5, <2>7, <2>12, OntoFound
      <4> QED BY <3>2, <4>1, <4>2
    <3>3. CASE j # k
      <4>1. FoundIn(c[Hash(j)], j, value2[j])
        BY <2>2, <2>15, <2>17, <3>3 DEF Held
      <4>2. CASE Hash(j) = b
        <5>1. FoundIn(o, j, value2[j])
          BY <4>1, <4>2 DEF o
        <5>2. FoundIn(o2, j, value2[j])
          BY <2>5, <2>7, <2>12, <3>3, <5>1, OntoFound
        <5> QED BY <2>13, <3>1, <4>2, <5>2
      <4>3. CASE Hash(j) # b
        BY <2>13, <3>1, <4>1, <4>3
      <4> QED BY <4>2, <4>3
    <3> QED BY <3>2, <3>3
  <2> HIDE DEF moved2
  <2>18. \A d \in Buckets : Chained(c2[d], d, buck2[d], links2, used \union {x}, touched)
    BY <2>10, <2>11, <2>13, <2>14
  <2>19. Held(c2, map2, known2)
    BY <2>16, <2>17, <2>18 DEF Held
  <2>20. MapType'
    BY <1>3, <2>3, <2>4, <2>5, <2>9, <2>14, <2>15 DEF MapType, BothWays
  <2>21. Held(c2, object', ghost')
    BY <1>3, <2>4, <2>19
  <2>22. ghost'.front = ghost.front /\ ghost'.cut = ghost.cut /\ ghost'.deleted = ghost.deleted
         /\ ghost' = [value |-> ghost'.value, moved |-> ghost'.moved, touched |-> ghost'.touched,
                      front |-> ghost'.front, cut |-> ghost'.cut, deleted |-> ghost'.deleted]
    BY <1>3
  <2> QED BY <1>1, <1>2, <2>20, <2>21, <2>22 DEF MapInv
<1> QED BY <1>4, <1>5

LEMMA MapFind ==
  ASSUME MapType, NEW c, Held(c, object, ghost), NEW k \in MapKeys
  PROVE  /\ Map!Chain(k) = Visited(c[Hash(k)]) /\ c[Hash(k)] \in Seq(MapItems)
         /\ Map!WalkIsFinite(object.links, object.buck[Hash(k)])
         /\ FoundIn(c[Hash(k)], k, Map!Find(k))
<1> DEFINE o == c[Hash(k)]
<1>1. Chained(o, Hash(k), object.buck[Hash(k)], object.links, object.used, ghost.touched)
  BY MapConstants DEF Held
<1>2. DOMAIN object.links.next = MapItems
  BY DEF MapType, Pointers
<1> HIDE DEF o
<1>3. Map!Chain(k) = Visited(o) /\ Map!WalkIsFinite(object.links, object.buck[Hash(k)])
  BY <1>1, <1>2, ChainVisited DEF Map!Chain
<1>4. o \in Seq(MapItems)
  BY <1>1 DEF Chained
<1>5. FoundIn(o, k, Map!Find(k))
  BY <1>3, <1>4, FindFinds
<1> QED BY <1>3, <1>4, <1>5 DEF o

(* The item found on its list, when it is not the first there *)
Behind(c, k, x, i) ==
  /\ i \in 2 .. Len(c[Hash(k)]) /\ c[Hash(k)][i] = x /\ x[1] = k

LEMMA FoundBehind ==
  ASSUME MapType, NEW c, Held(c, object, ghost), NEW k \in MapKeys,
         NEW x, x = Map!Find(k), x # NULL, x # object.buck[Hash(k)]
  PROVE  \E i : Behind(c, k, x, i)
<1> DEFINE o == c[Hash(k)]
<1>1. FoundIn(o, k, x) /\ o \in Seq(MapItems)
  BY MapFind
<1>2. Path(o, object.links.next, object.buck[Hash(k)])
  BY MapConstants DEF Held, Chained
<1> HIDE DEF o
<1>3. PICK i \in 1 .. Len(o) : x = o[i] /\ o[i][1] = k
  BY <1>1 DEF FoundIn
<1>4. Len(o) \in Nat /\ Len(o) # 0 /\ i \in Nat
  BY <1>1, <1>3
<1>5. i # 1
  BY <1>2, <1>3, <1>4 DEF Path
<1>6. i \in 2 .. Len(o)
  BY <1>3, <1>4, <1>5
<1> QED BY <1>3, <1>6 DEF Behind, o

(* What the places around it are *)
LEMMA BehindFacts ==
  ASSUME MapType, NEW c, Held(c, object, ghost), NEW k \in MapKeys, NEW x, NEW i, Behind(c, k, x, i),
         NEW o, o = c[Hash(k)], NEW f, f = object.buck[Hash(k)]
  PROVE  /\ x \in object.used \ ghost.touched /\ Hash(x[1]) = Hash(k) /\ x # f
         /\ f = o[1] /\ f \in object.used \ ghost.touched /\ f # NULL /\ x # NULL
         /\ object.links.prev[x] = o[i - 1] /\ o[i - 1] \in object.used \ ghost.touched /\ o[i - 1] # x
         /\ object.links.next[x] \in (object.used \ ghost.touched) \union {NULL}
         /\ object.links.next[x] # f
         /\ object.links.prev[f] \in ghost.touched \union {NULL}
<1>1. Chained(o, Hash(k), f, object.links, object.used, ghost.touched)
  BY MapConstants DEF Held
<1>2. i \in 2 .. Len(o) /\ o[i] = x /\ x[1] = k
  BY DEF Behind
<1>3. o \in Seq(MapItems) /\ Len(o) \in Nat
  BY <1>1 DEF Chained
<1>4. /\ i \in 1 .. Len(o) /\ i - 1 \in 1 .. Len(o) /\ 1 \in 1 .. Len(o) /\ Len(o) > 0 /\ Len(o) # 0
      /\ i # 1 /\ i - 1 # i /\ (i # Len(o) => i + 1 \in 1 .. Len(o) /\ i + 1 # 1)
  BY <1>2, <1>3
<1>5. f = o[1] /\ f # NULL /\ x # NULL
      /\ object.links.next[x] = IF i = Len(o) THEN NULL ELSE o[i + 1]
  BY <1>1, <1>2, <1>4 DEF Chained, Path
<1>6. /\ \A j \in 1 .. Len(o) : o[j] \in object.used \ ghost.touched
      /\ \A j, l \in 1 .. Len(o) : o[j] = o[l] => j = l
      /\ object.links.prev[o[i]] = o[i - 1]
      /\ object.links.prev[o[1]] \in ghost.touched \union {NULL}
  BY <1>1, <1>2, <1>4 DEF Chained
<1>7. object.links.next[x] \in (object.used \ ghost.touched) \union {NULL} /\ object.links.next[x] # f
  <2>1. CASE i = Len(o)
    BY <1>5, <2>1
  <2>2. CASE i # Len(o)
    <3>1. i + 1 \in 1 .. Len(o) /\ i + 1 # 1 /\ object.links.next[x] = o[i + 1]
      BY <1>4, <1>5, <2>2
    <3> QED BY <1>4, <1>5, <1>6, <3>1
  <2> QED BY <2>1, <2>2
<1>8. x # f /\ o[i - 1] # x
  BY <1>2, <1>4, <1>5, <1>6
<1> QED BY <1>2, <1>4, <1>5, <1>6, <1>7, <1>8

LEMMA HeldWithout ==
  ASSUME MapType, NEW c, Held(c, object, ghost), NEW k \in MapKeys, NEW x, NEW i, Behind(c, k, x, i),
         NEW o, o = c[Hash(k)], NEW map2, NEW known2,
         map2.buck = object.buck,
         map2.used \ known2.touched = (object.used \ ghost.touched) \ {x},
         ghost.touched \subseteq known2.touched,
         \A y \in (object.used \ ghost.touched) \ {x} :
           /\ map2.links.next[y] = IF y = o[i - 1] THEN object.links.next[x]
                                   ELSE object.links.next[y]
           /\ y # object.buck[Hash(k)] =>
                map2.links.prev[y] = IF y = object.links.next[x] THEN o[i - 1]
                                     ELSE object.links.prev[y],
         map2.links.prev[object.buck[Hash(k)]] \in known2.touched \union {NULL},
         known2.moved = ghost.moved \union {k},
         \A j \in MapKeys \ {k} : known2.value[j] = ghost.value[j]
  PROVE  \E c2 : Held(c2, map2, known2)
<1> DEFINE b == Hash(k)
           f == object.buck[b]
           links == object.links
           used == object.used
           touched == ghost.touched
           links2 == map2.links
           used2 == map2.used
           touched2 == known2.touched
           o2 == Without(o, i)
           c2 == [d \in Buckets |-> IF d = b THEN o2 ELSE c[d]]
<1>1. /\ x \in used \ touched /\ Hash(x[1]) = b /\ x # f /\ f \in used \ touched
      /\ o[i - 1] \in used \ touched /\ links.next[x] \in (used \ touched) \union {NULL}
  BY BehindFacts
<1>2. \A d \in Buckets : Chained(c[d], d, object.buck[d], links, used, touched)
  BY DEF Held
<1>3. b \in Buckets /\ Chained(o, b, f, links, used, touched)
  BY <1>2, MapConstants
<1>4. i \in 2 .. Len(o) /\ o[i] = x /\ x[1] = k
  BY DEF Behind
<1>5. /\ used2 \ touched2 = (used \ touched) \ {x} /\ touched \subseteq touched2
      /\ \A y \in (used \ touched) \ {x} :
           /\ links2.next[y] = IF y = o[i - 1] THEN links.next[x] ELSE links.next[y]
           /\ y # f => links2.prev[y] = IF y = links.next[x] THEN o[i - 1] ELSE links.prev[y]
      /\ links2.prev[f] \in touched2 \union {NULL}
  OBVIOUS
<1>6. \A d \in Buckets : c2[d] = IF d = b THEN o2 ELSE c[d]
  OBVIOUS
<1>7. o \in Seq(MapItems) /\ Len(o) \in Nat /\ i \in 1 .. Len(o)
      /\ (\A j, l \in 1 .. Len(o) : o[j] = o[l] => j = l)
      /\ (\A j \in 1 .. Len(o) : o[j] # NULL /\ Hash(o[j][1]) = b)
  BY <1>3, <1>4 DEF Chained, Path
<1>8. WithoutIs(o2, o, i)
  BY <1>7, WithoutFacts
<1> HIDE DEF f, links, used, touched, links2, used2, touched2, b
<1>9. Chained(o2, b, f, links2, used2, touched2)
  <2>1. (used \ touched) \ {o[i]} \subseteq used2 \ touched2
    BY <1>4, <1>5
  <2>2. \A y \in (used \ touched) \ {o[i]} :
           /\ links2.next[y] = IF y = o[i - 1] THEN links.next[o[i]] ELSE links.next[y]
           /\ y # f => links2.prev[y] = IF y = links.next[o[i]] THEN o[i - 1] ELSE links.prev[y]
    BY <1>4, <1>5
  <2> QED BY <1>3, <1>4, <1>5, <2>1, <2>2, WithoutChained
<1> HIDE DEF o2, c2
<1>10. Hash(o[i - 1][1]) = b /\ Hash(f[1]) = b /\ (links.next[x] # NULL => Hash(links.next[x][1]) = b)
  <2>1. i - 1 \in 1 .. Len(o) /\ 1 \in 1 .. Len(o) /\ (i # Len(o) => i + 1 \in 1 .. Len(o)) /\ Len(o) # 0
    BY <1>4, <1>7
  <2>2. f = o[1] /\ links.next[x] = IF i = Len(o) THEN NULL ELSE o[i + 1]
    BY <1>3, <1>4, <1>7, <2>1 DEF Chained, Path
  <2> QED BY <1>7, <2>1, <2>2
<1>11. ASSUME NEW d \in Buckets, d # b
       PROVE  Chained(c[d], d, object.buck[d], links2, used2, touched2)
  <2>1. Chained(c[d], d, object.buck[d], links, used, touched)
    BY <1>2
  <2>2. \A j \in 1 .. Len(c[d]) : c[d][j] \in used \ touched /\ Hash(c[d][j][1]) = d /\ c[d][j] # NULL
    BY <2>1 DEF Chained, Path
  <2>3. \A j \in 1 .. Len(c[d]) : /\ c[d][j] # x /\ c[d][j] # o[i - 1] /\ c[d][j] # f
                                 /\ c[d][j] # links.next[x]
    BY <1>1, <1>10, <1>11, <2>2
  <2>4. \A j \in 1 .. Len(c[d]) : /\ c[d][j] \in used2 \ touched2
                                 /\ links2.next[c[d][j]] = links.next[c[d][j]]
                                 /\ links2.prev[c[d][j]] = links.prev[c[d][j]]
    BY <1>5, <2>2, <2>3
  <2> QED BY <1>5, <2>1, <2>4, ChainedStill
<1>12. ASSUME NEW y \in used2 \ touched2
       PROVE  \E j \in 1 .. Len(c2[Hash(y[1])]) : c2[Hash(y[1])][j] = y
  <2>1. y \in used \ touched /\ y # x /\ y \in MapItems
    BY <1>5 DEF MapType, used
  <2>2. PICK j \in 1 .. Len(c[Hash(y[1])]) : c[Hash(y[1])][j] = y
    BY <2>1 DEF Held, used, touched
  <2>3. Hash(y[1]) \in Buckets
    BY <2>1, MapConstants
  <2>4. CASE Hash(y[1]) = b
    <3>1. j \in 1 .. Len(o) /\ o[j] = y /\ j # i
      BY <1>4, <2>1, <2>2, <2>4 DEF b
    <3>2. Len(o2) = Len(o) - 1 /\ \A l \in 1 .. Len(o) - 1 : o2[l] = IF l < i THEN o[l] ELSE o[l + 1]
      BY <1>8 DEF WithoutIs
    <3>3. CASE j < i
      <4>1. j \in 1 .. Len(o) - 1 /\ o2[j] = y
        BY <1>7, <3>1, <3>2, <3>3
      <4> QED BY <1>6, <2>3, <2>4, <3>2, <4>1
    <3>4. CASE ~(j < i)
      <4>1. j - 1 \in 1 .. Len(o) - 1 /\ ~(j - 1 < i) /\ (j - 1) + 1 = j
        BY <1>4, <1>7, <3>1, <3>4
      <4>2. o2[j - 1] = y
        BY <3>1, <3>2, <4>1
      <4> QED BY <1>6, <2>3, <2>4, <3>2, <4>1, <4>2
    <3> QED BY <3>3, <3>4
  <2>5. CASE Hash(y[1]) # b
    BY <1>6, <2>2, <2>3, <2>5
  <2> QED BY <2>4, <2>5
<1>13. ASSUME NEW j \in MapKeys, j \notin known2.moved
       PROVE  FoundIn(c2[Hash(j)], j, known2.value[j])
  <2>1. j # k /\ j \notin ghost.moved /\ known2.value[j] = ghost.value[j] /\ Hash(j) \in Buckets
    BY <1>13, MapConstants
  <2>2. FoundIn(c[Hash(j)], j, known2.value[j])
    BY <2>1 DEF Held
  <2>3. CASE Hash(j) = b
    <3>1. FoundIn(o, j, known2.value[j])
      BY <2>2, <2>3 DEF b
    <3>2. FoundIn(o2, j, known2.value[j])
      BY <1>4, <1>7, <1>8, <2>1, <3>1, WithoutFound
    <3> QED BY <1>6, <2>1, <2>3, <3>2
  <2>4. CASE Hash(j) # b
    BY <1>6, <2>1, <2>2, <2>4
  <2> QED BY <2>3, <2>4
<1>14. \A d \in Buckets : Chained(c2[d], d, map2.buck[d], links2, used2, touched2)
  BY <1>6, <1>9, <1>11 DEF f, b
<1>15. Held(c2, map2, known2)
  BY <1>12, <1>13, <1>14 DEF Held, links2, used2, touched2
<1> QED BY <1>15

LEMMA MapGet ==
  ASSUME MapInv, NEW k \in MapKeys, Map!Get(k)
  PROVE  MapInv'
<1> DEFINE b == Hash(k)
           x == Map!Find(k)
           f == object.buck[b]
           links == object.links
           used == object.used
           touched == ghost.touched
           links1 == Map!NullRemove(links, x)
           links2 == Map!InsertFront(links1, f, x)
           map2 == [buck |-> object.buck, used |-> used, links |-> links2]
           known2 == [value |-> ghost.value, moved |-> ghost.moved \union {k},
                      touched |-> touched \union {x}, front |-> ghost.front \/ x = f,
                      cut |-> ghost.cut, deleted |-> ghost.deleted]
<1>1. /\ ~ghost.cut /\ ~ghost.deleted /\ x # NULL
      /\ object' = [object EXCEPT !.links = links2]
      /\ ghost' = [ghost EXCEPT !.moved = @ \union {k}, !.touched = @ \union {x},
                                !.front = @ \/ x = f]
  BY DEF Map!Get, Map!Usable
<1>2. /\ ghost = [value |-> ghost.value, moved |-> ghost.moved, touched |-> ghost.touched,
                  front |-> ghost.front, cut |-> ghost.cut, deleted |-> ghost.deleted]
      /\ ghost.front \in BOOLEAN /\ ghost.cut \in BOOLEAN /\ ghost.deleted \in BOOLEAN
  BY DEF MapInv
<1> HIDE DEF x, links1, links2
<1>3. ghost' = known2
  <2> HIDE DEF f
  <2> QED BY <1>1, <1>2
<1>4. (ghost.front \/ x = f) \in BOOLEAN
  OBVIOUS
<1>5. CASE ghost.front \/ x = f
  <2> HIDE DEF f
  <2> QED BY <1>2, <1>3, <1>5 DEF MapInv
<1>6. CASE ~(ghost.front \/ x = f)
  <2>1. MapType
    BY <1>1, <1>6 DEF MapInv
  <2>2. PICK c : Held(c, object, ghost)
    BY <1>1, <1>6 DEF MapInv
  <2>3. PICK i : Behind(c, k, x, i)
    BY <1>1, <1>6, <2>1, <2>2, FoundBehind DEF x
  <2> DEFINE o == c[b]
  <2>4. /\ x \in used \ touched
        /\ f \in used \ touched /\ f # NULL
        /\ links.prev[x] = o[i - 1] /\ o[i - 1] \in used \ touched /\ o[i - 1] # x
        /\ links.next[x] # f
        /\ links.prev[f] \in touched \union {NULL}
    BY <2>1, <2>2, <2>3, BehindFacts
  <2>5. /\ used \subseteq MapItems /\ links \in BothWays /\ touched \subseteq used /\ NULL \notin MapItems
        /\ object.buck \in [Buckets -> MapItems \union {NULL}]
        /\ object = [buck |-> object.buck, used |-> used, links |-> links]
        /\ ghost.value \in [MapKeys -> MapItems \union {NULL}]
    BY <2>1, MapConstants DEF MapType, BothWays
  <2>6. object' = map2
    BY <1>1, <2>5
  <2> HIDE DEF o, f, links, used, touched
  <2>7. Unlinked(links1, links, x)
    <3>1. x \in MapItems /\ links.prev[x] \in MapItems /\ links.prev[x] # x
      BY <2>4, <2>5
    <3> QED BY <2>5, <3>1, UnlinkedBoth DEF links1
  <2>8. links1 \in BothWays /\ links1.prev[f] = links.prev[f]
    BY <2>4, <2>5, <2>7 DEF Unlinked
  <2>9. Inserted(links2, links1, f, x)
    <3>1. f \in MapItems /\ x \in MapItems /\ f # x /\ links1.prev[f] # x
      BY <1>6, <2>4, <2>5, <2>8
    <3> QED BY <2>8, <3>1, InsertedPrev DEF links2
  <2>10. /\ links2 \in BothWays /\ links2.prev[f] = x
         /\ \A y \in MapItems : y # x /\ y # links1.prev[f] => links2.next[y] = links1.next[y]
         /\ \A y \in MapItems : y # x /\ y # f => links2.prev[y] = links1.prev[y]
    BY <2>9 DEF Inserted
  <2>11. \A y \in MapItems :
           /\ links1.next[y] = IF y = links.prev[x] THEN links.next[x] ELSE links.next[y]
           /\ links1.prev[y] = IF y = links.next[x] THEN links.prev[x] ELSE links.prev[y]
    BY <2>7 DEF Unlinked
  <2>12. ASSUME NEW y \in (used \ touched) \ {x}
         PROVE  /\ links2.next[y] = IF y = o[i - 1] THEN links.next[x] ELSE links.next[y]
                /\ y # f => links2.prev[y] = IF y = links.next[x] THEN o[i - 1] ELSE links.prev[y]
    <3>1. y \in MapItems /\ y # x /\ y # links1.prev[f]
      BY <2>4, <2>5, <2>8
    <3>2. links2.next[y] = links1.next[y] /\ (y # f => links2.prev[y] = links1.prev[y])
      BY <2>10, <3>1
    <3> QED BY <2>4, <2>11, <3>1, <3>2
  <2>13. \E c2 : Held(c2, map2, known2)
    <3>1. map2.used \ known2.touched = (used \ touched) \ {x}
      OBVIOUS
    <3>2. \A y \in (used \ touched) \ {x} :
            /\ map2.links.next[y] = IF y = o[i - 1] THEN links.next[x] ELSE links.next[y]
            /\ y # f => map2.links.prev[y] = IF y = links.next[x] THEN o[i - 1] ELSE links.prev[y]
      BY <2>12
    <3>3. map2.links.prev[f] \in known2.touched \union {NULL}
      BY <2>10
    <3>4. /\ map2.buck = object.buck /\ touched \subseteq known2.touched
          /\ known2.moved = ghost.moved \union {k}
          /\ \A j \in MapKeys \ {k} : known2.value[j] = ghost.value[j]
      OBVIOUS
    <3> HIDE DEF map2, known2
    <3> QED BY <2>1, <2>2, <2>3, <3>1, <3>2, <3>3, <3>4, HeldWithout DEF o, f, links, used, touched
  <2>14. \E c2 : Held(c2, object', ghost')
    BY <1>3, <2>6, <2>13
  <2>15. MapType'
    BY <1>3, <2>4, <2>5, <2>6, <2>10 DEF MapType, BothWays
  <2>16. ghost'.front \in BOOLEAN /\ ghost'.cut = ghost.cut /\ ghost'.deleted = ghost.deleted
         /\ ghost' = [value |-> ghost'.value, moved |-> ghost'.moved, touched |-> ghost'.touched,
                      front |-> ghost'.front, cut |-> ghost'.cut, deleted |-> ghost'.deleted]
    BY <1>3, <1>4
  <2> QED BY <1>1, <1>2, <2>14, <2>15, <2>16 DEF MapInv
<1> QED BY <1>4, <1>5, <1>6

LEMMA MapRemove ==
  ASSUME MapInv, NEW k \in MapKeys, Map!Remove(k)
  PROVE  MapInv'
<1> DEFINE b == Hash(k)
           x == Map!Find(k)
           f == object.buck[b]
           links == object.links
           used == object.used
           touched == ghost.touched
           links2 == Map!NullRemove(links, x)
           value2 == [ghost.value EXCEPT ![k] = NULL]
           map2 == [buck |-> object.buck, used |-> used \ {x}, links |-> links2]
           known2 == [value |-> value2, moved |-> ghost.moved \union {k},
                      touched |-> touched \ {x}, front |-> ghost.front,
                      cut |-> (x = f), deleted |-> ghost.deleted]
<1>1. /\ ~ghost.cut /\ ~ghost.deleted /\ x # NULL
      /\ object' = [object EXCEPT !.links = links2, !.used = @ \ {x}]
      /\ ghost' = [ghost EXCEPT !.value[k] = NULL, !.moved = @ \union {k},
                                !.touched = @ \ {x}, !.cut = (x = f)]
  BY DEF Map!Remove, Map!Usable
<1>2. /\ ghost = [value |-> ghost.value, moved |-> ghost.moved, touched |-> ghost.touched,
                  front |-> ghost.front, cut |-> ghost.cut, deleted |-> ghost.deleted]
      /\ ghost.front \in BOOLEAN /\ ghost.cut \in BOOLEAN /\ ghost.deleted \in BOOLEAN
  BY DEF MapInv
<1> HIDE DEF x, links2
<1>3. ghost' = known2
  <2> HIDE DEF f
  <2> QED BY <1>1, <1>2
<1>4. (x = f) \in BOOLEAN
  OBVIOUS
<1>5. CASE ghost.front \/ x = f
  <2> HIDE DEF f, value2
  <2> QED BY <1>2, <1>3, <1>4, <1>5 DEF MapInv
<1>6. CASE ~(ghost.front \/ x = f)
  <2>1. MapType
    BY <1>1, <1>6 DEF MapInv
  <2>2. PICK c : Held(c, object, ghost)
    BY <1>1, <1>6 DEF MapInv
  <2>3. PICK i : Behind(c, k, x, i)
    BY <1>1, <1>6, <2>1, <2>2, FoundBehind DEF x
  <2> DEFINE o == c[b]
  <2>4. /\ x \in used \ touched
        /\ f \in used \ touched /\ f # NULL
        /\ links.prev[x] = o[i - 1] /\ o[i - 1] \in used \ touched /\ o[i - 1] # x
        /\ links.next[x] # f
        /\ links.prev[f] \in touched \union {NULL}
    BY <2>1, <2>2, <2>3, BehindFacts
  <2>5. /\ used \subseteq MapItems /\ links \in BothWays /\ touched \subseteq used /\ NULL \notin MapItems
        /\ object.buck \in [Buckets -> MapItems \union {NULL}]
        /\ object = [buck |-> object.buck, used |-> used, links |-> links]
        /\ ghost.value \in [MapKeys -> MapItems \union {NULL}]
    BY <2>1, MapConstants DEF MapType, BothWays
  <2>6. object' = map2
    BY <1>1, <2>5
  <2>7. value2 \in [MapKeys -> MapItems \union {NULL}] /\ \A j \in MapKeys \ {k} : value2[j] = ghost.value[j]
    BY <2>5
  <2> HIDE DEF o, f, links, used, touched, value2
  <2>8. Unlinked(links2, links, x)
    <3>1. x \in MapItems /\ links.prev[x] \in MapItems /\ links.prev[x] # x
      BY <2>4, <2>5
    <3> QED BY <2>5, <3>1, UnlinkedBoth DEF links2
  <2>9. links2 \in BothWays /\ links2.prev[f] = links.prev[f]
    BY <2>4, <2>5, <2>8 DEF Unlinked
  <2>10. ASSUME NEW y \in (used \ touched) \ {x}
         PROVE  /\ links2.next[y] = IF y = o[i - 1] THEN links.next[x] ELSE links.next[y]
                /\ y # f => links2.prev[y] = IF y = links.next[x] THEN o[i - 1] ELSE links.prev[y]
    <3>1. y \in MapItems
      BY <2>5
    <3> QED BY <2>4, <2>8, <3>1 DEF Unlinked
  <2>11. \E c2 : Held(c2, map2, known2)
    <3>1. map2.used \ known2.touched = (used \ touched) \ {x} /\ touched \subseteq known2.touched
      BY <2>4
    <3>2. \A y \in (used \ touched) \ {x} :
            /\ map2.links.next[y] = IF y = o[i - 1] THEN links.next[x] ELSE links.next[y]
            /\ y # f => map2.links.prev[y] = IF y = links.next[x] THEN o[i - 1] ELSE links.prev[y]
      BY <2>10
    <3>3. map2.links.prev[f] \in known2.touched \union {NULL}
      BY <2>4, <2>9, <3>1
    <3>4. /\ map2.buck = object.buck
          /\ known2.moved = ghost.moved \union {k}
          /\ \A j \in MapKeys \ {k} : known2.value[j] = ghost.value[j]
      BY <2>7
    <3> HIDE DEF map2, known2
    <3> QED BY <2>1, <2>2, <2>3, <3>1, <3>2, <3>3, <3>4, HeldWithout DEF o, f, links, used, touched
  <2>12. \E c2 : Held(c2, object', ghost')
    BY <1>3, <2>6, <2>11
  <2>13. MapType'
    BY <1>3, <2>4, <2>5, <2>6, <2>7, <2>9 DEF MapType, BothWays
  <2>14. ghost'.front = ghost.front /\ ghost'.cut \in BOOLEAN /\ ghost'.deleted = ghost.deleted
         /\ ghost' = [value |-> ghost'.value, moved |-> ghost'.moved, touched |-> ghost'.touched,
                      front |-> ghost'.front, cut |-> ghost'.cut, deleted |-> ghost'.deleted]
    BY <1>3, <1>4
  <2> QED BY <1>1, <1>2, <2>12, <2>13, <2>14 DEF MapInv
<1> QED BY <1>4, <1>5, <1>6

LEMMA MapDelete ==
  ASSUME MapInv, Map!Delete
  PROVE  MapInv'
<1> DEFINE met == UNION {{Map!Chain(k)[i] : i \in DOMAIN Map!Chain(k)} : k \in MapKeys}
<1>1. /\ ~ghost.cut /\ ~ghost.deleted
      /\ object' = [object EXCEPT !.used = @ \ met] /\ ghost' = [ghost EXCEPT !.deleted = TRUE]
  BY DEF Map!Delete, Map!Usable
<1>2. /\ ghost = [value |-> ghost.value, moved |-> ghost.moved, touched |-> ghost.touched,
                  front |-> ghost.front, cut |-> ghost.cut, deleted |-> ghost.deleted]
      /\ ghost.front \in BOOLEAN /\ ghost.cut \in BOOLEAN /\ ghost.deleted \in BOOLEAN
  BY DEF MapInv
<1> HIDE DEF met
<1>3. ghost' = [value |-> ghost.value, moved |-> ghost.moved, touched |-> ghost.touched,
                front |-> ghost.front, cut |-> ghost.cut, deleted |-> TRUE]
  BY <1>1, <1>2
<1>4. ~ghost.front => object'.used \subseteq ghost.touched
  <2> SUFFICES ASSUME ~ghost.front PROVE object'.used \subseteq ghost.touched
    OBVIOUS
  <2>1. MapType
    BY <1>1 DEF MapInv
  <2>2. PICK c : Held(c, object, ghost)
    BY <1>1 DEF MapInv
  <2>3. object'.used = object.used \ met /\ object.used \subseteq MapItems
    BY <1>1, <2>1 DEF MapType
  <2>4. ASSUME NEW y \in object.used, y \notin ghost.touched PROVE y \in met
    <3>1. PICK i \in 1 .. Len(c[Hash(y[1])]) : c[Hash(y[1])][i] = y
      BY <2>2, <2>4 DEF Held
    <3>2. y[1] \in MapKeys
      BY <2>3, MapConstants
    <3>3. Map!Chain(y[1]) = Visited(c[Hash(y[1])])
      BY <2>1, <2>2, <3>2, MapFind
    <3>4. i \in DOMAIN Map!Chain(y[1]) /\ Map!Chain(y[1])[i] = y
      BY <3>1, <3>3 DEF Visited
    <3> QED BY <3>2, <3>4 DEF met
  <2> QED BY <2>3, <2>4
<1> QED BY <1>1, <1>2, <1>3, <1>4 DEF MapInv

LEMMA MapStep == MapInv /\ Map!Next => MapInv'
BY MapSet, MapGet, MapRemove, MapDelete DEF Map!Next

LEMMA MapImplies == MapInv => Map!KeysKept
<1> SUFFICES ASSUME MapInv, ~ghost.front, ~ghost.cut PROVE Map!KeysKept
  BY DEF Map!KeysKept
<1>1. CASE ghost.deleted
  BY <1>1 DEF MapInv, Map!KeysKept
<1>2. CASE ~ghost.deleted
  <2>1. MapType
    BY <1>2 DEF MapInv
  <2>2. PICK c : Held(c, object, ghost)
    BY <1>2 DEF MapInv
  <2>3. ASSUME NEW k \in MapKeys
        PROVE  /\ Map!WalkIsFinite(object.links, object.buck[Hash(k)])
               /\ \A i \in DOMAIN Map!Chain(k) : Map!Chain(k)[i] \in object.used
               /\ k \notin ghost.moved => Map!Find(k) = ghost.value[k]
    <3> DEFINE o == c[Hash(k)]
    <3>1. /\ Map!Chain(k) = Visited(o) /\ o \in Seq(MapItems)
          /\ Map!WalkIsFinite(object.links, object.buck[Hash(k)])
          /\ FoundIn(o, k, Map!Find(k))
      BY <2>1, <2>2, MapFind
    <3>2. \A i \in 1 .. Len(o) : o[i] \in object.used
      BY <2>2, MapConstants DEF Held, Chained
    <3>3. k \notin ghost.moved => FoundIn(o, k, ghost.value[k])
      BY <2>2 DEF Held
    <3> HIDE DEF o
    <3>4. \A i \in DOMAIN Map!Chain(k) : Map!Chain(k)[i] \in object.used
      BY <3>1, <3>2 DEF Visited
    <3>5. k \notin ghost.moved => Map!Find(k) = ghost.value[k]
      BY <3>1, <3>3, FoundOnce
    <3> QED BY <3>1, <3>4, <3>5
  <2> QED BY <1>2, <2>3 DEF Map!KeysKept
<1> QED BY <1>1, <1>2 DEF MapInv

LEMMA LibraryMap == Spec => [](part = "map" => MapInv)
<1> DEFINE Inv == part = "map" => MapInv
<1>1. Init => Inv
  BY MapStarts DEF Init
<1>2. Inv /\ [Next]_vars => Inv'
  <2> SUFFICES ASSUME Inv, [Next]_vars, part' = "map" PROVE MapInv'
    OBVIOUS
  <2>1. CASE UNCHANGED vars
    <3>1. object' = object /\ ghost' = ghost /\ part = "map"
      BY <2>1 DEF vars
    <3>2. MapInv
      BY <3>1
    <3> QED BY <3>1, <3>2 DEF MapInv, MapType
  <2>2. CASE Next
    <3>1. part' = part /\ Map!Next
      BY <2>2 DEF Next, UseHeap, UseVector, UseTree, UseMap, UseQueue, UseTimer, UseGetopt,
         UseHttp, UseSort, UseUrl, UseMd5, UseSerial
    <3> QED BY <3>1, MapStep
  <2> QED BY <2>1, <2>2
<1> QED BY <1>1, <1>2, PTL DEF Spec

(* Whatever the hash, until a lookup or a removal hits an item that a      *)
(* bucket points at: each list of the map ends and has no freed item, a    *)
(* key that was neither looked up nor removed since it was set last is     *)
(* found with the value it got then, and bscl_hashmap_delete frees all but *)
(* what lookups have moved out of its reach.                               *)
THEOREM LibraryKeysKept == Spec => []KeysKept
<1>1. (part = "map" => MapInv) => KeysKept
  BY MapImplies DEF KeysKept
<1> QED BY <1>1, LibraryMap, PTL

-----------------------------------------------------------------------------
(* The HTTP client. *)
HeadLine == [size : Nat, length : BOOLEAN, type : Nat]

(* Where the lines begin; n is the number of them *)
LinesAt(lines, n, at) ==
  /\ at \in [0 .. n -> Nat] /\ at[0] = 0
  /\ \A k \in 1 .. n : at[k] = at[k - 1] + lines[k].size

LEMMA HttpConstants ==
  /\ Prefix \in Nat /\ Prefix > 1 /\ TypeSize \in Nat /\ BufSize \in Nat
  /\ \A a \in Answers :
       /\ a.lines \in Seq(HeadLine) /\ a.body \in Nat /\ a.extra \in Nat
       /\ Len(a.lines) \in Nat /\ Len(a.lines) > 0
BY LibraryAssumption DEF Http!HttpAssumption, HeadLine

(* Where line k begins, as LineAt says it *)
Begin(a, k) ==
  LET at[i \in 0 .. k] == IF i = 0 THEN 0 ELSE at[i - 1] + a.lines[i].size
  IN  at[k]

HeadOf(a) == Begin(a, Len(a.lines)) + 2
TotalOf(a) == HeadOf(a) + a.body + a.extra
EndedFalse(a, seen, old) ==
  \/ \E k \in 1 .. Len(a.lines) : seen - Begin(a, k) \in {0, 1}
  \/ seen = 1 /\ old <= 1
SaysLength(a) == \E i \in 1 .. Len(a.lines) : a.lines[i].length
LongType(a) == \E i \in 1 .. Len(a.lines) : a.lines[i].type >= TypeSize

LEMMA BeginSums ==
  ASSUME NEW a, NEW k \in Nat, NEW lines \in Seq(HeadLine), k <= Len(lines), a.lines = lines
  PROVE  \E at : LinesAt(lines, k, at) /\ Begin(a, k) = at[k]
<1> DEFINE step == [i \in 1 .. k |-> [s \in Nat |-> s + lines[i].size]]
           sums(g) == [i \in 0 .. k |-> IF i = 0 THEN 0 ELSE g[i - 1] + a.lines[i].size]
           at == CHOOSE g : g = sums(g)
<1>1. \A i \in 1 .. k : lines[i].size \in Nat
  <2> SUFFICES ASSUME NEW i \in 1 .. k PROVE lines[i].size \in Nat
    OBVIOUS
  <2>1. lines[i] \in HeadLine
    OBVIOUS
  <2> QED BY <2>1 DEF HeadLine
<1>2. step \in [1 .. k -> [Nat -> Nat]] /\ \A i \in 1 .. k : \A s \in Nat : step[i][s] = s + lines[i].size
  BY <1>1
<1> HIDE DEF step
<1>3. PICK f : Recursive(f, Nat, 0, k, step)
  BY <1>2, Recursion
<1>4. f \in [0 .. k -> Nat] /\ f[0] = 0 /\ \A i \in 1 .. k : f[i] = step[i][f[i - 1]]
  BY <1>3 DEF Recursive
<1>5. f = sums(f)
  <2>1. ASSUME NEW i \in 0 .. k PROVE f[i] = IF i = 0 THEN 0 ELSE f[i - 1] + a.lines[i].size
    <3>1. CASE i = 0
      BY <1>4, <3>1
    <3>2. CASE i # 0
      <4>1. i \in 1 .. k /\ i - 1 \in 0 .. k
        BY <3>2
      <4> QED BY <1>2, <1>4, <3>2, <4>1
    <3> QED BY <3>1, <3>2
  <2>2. f = [i \in 0 .. k |-> f[i]]
    BY <1>4
  <2> QED BY <2>1, <2>2
<1>6. at = sums(at)
  BY <1>5
<1>7. Begin(a, k) = at[k]
  BY DEF Begin
<1> HIDE DEF at
<1>8. at[0] = 0 /\ DOMAIN at = 0 .. k /\ \A i \in 1 .. k : at[i] = at[i - 1] + lines[i].size
  BY <1>6
<1>9. \A i \in 0 .. k : at[i] \in Nat
  <2> DEFINE H == {i \in 0 .. k : at[i] \in Nat}
  <2>1. 0 \in H
    BY <1>8
  <2>3. ASSUME NEW i \in 1 .. k, i - 1 \in H PROVE i \in H
    <3>1. at[i - 1] \in Nat /\ lines[i].size \in Nat /\ at[i] = at[i - 1] + lines[i].size
      BY <1>1, <1>8, <2>3
    <3> QED BY <3>1
  <2> HIDE DEF H
  <2>2. 0 .. k \subseteq H
    BY <2>1, <2>3, UpTo
  <2> QED BY <2>2 DEF H
<1>10. at = [i \in 0 .. k |-> at[i]]
  BY <1>6
<1>11. at \in [0 .. k -> Nat]
  BY <1>9, <1>10
<1> QED BY <1>7, <1>8, <1>11 DEF LinesAt

LEMMA BeginFacts ==
  ASSUME NEW a \in Answers
  PROVE  /\ \A k \in 0 .. Len(a.lines) : Begin(a, k) \in Nat
         /\ Begin(a, 0) = 0 /\ HeadOf(a) \in Nat /\ TotalOf(a) \in Nat
         /\ Len(a.lines) \in Nat /\ Len(a.lines) > 0
         /\ a.body \in Nat /\ a.extra \in Nat
<1> DEFINE lines == a.lines
<1>1. /\ lines \in Seq(HeadLine) /\ Len(lines) \in Nat /\ Len(lines) > 0
      /\ a.body \in Nat /\ a.extra \in Nat
  BY HttpConstants
<1>2. \A k \in 0 .. Len(lines) : \E at : LinesAt(lines, k, at) /\ Begin(a, k) = at[k]
  BY <1>1, BeginSums
<1>3. \A k \in 0 .. Len(lines) : Begin(a, k) \in Nat
  BY <1>2 DEF LinesAt
<1>4. Begin(a, 0) = 0
  <2>1. 0 \in 0 .. Len(lines)
    BY <1>1
  <2>2. PICK at : LinesAt(lines, 0, at) /\ Begin(a, 0) = at[0]
    BY <1>2, <2>1
  <2> QED BY <2>2 DEF LinesAt
<1>6. Begin(a, Len(lines)) \in Nat
  BY <1>1, <1>3
<1> HIDE DEF lines
<1>7. HeadOf(a) \in Nat
  BY <1>6 DEF HeadOf, lines
<1>8. TotalOf(a) \in Nat
  BY <1>1, <1>7 DEF TotalOf
<1> QED BY <1>1, <1>3, <1>4, <1>7, <1>8 DEF lines

LEMMA HttpSays ==
  /\ Http!Lines = Len(ghost.answer.lines) /\ Http!HeadSize = HeadOf(ghost.answer)
  /\ Http!Total = TotalOf(ghost.answer)
  /\ Http!FalseEnd = EndedFalse(ghost.answer, ghost.seen, ghost.old)
  /\ \A k : Http!LineAt(k) = Begin(ghost.answer, k)
<1>1. \A k : Http!LineAt(k) = Begin(ghost.answer, k)
  BY DEF Http!LineAt, Begin
<1>2. Http!Lines = Len(ghost.answer.lines)
  BY DEF Http!Lines
<1>3. Http!HeadSize = HeadOf(ghost.answer)
  BY <1>1, <1>2 DEF Http!HeadSize, HeadOf
<1>4. Http!Total = TotalOf(ghost.answer)
  BY <1>3 DEF Http!Total, TotalOf
<1>5. Http!FalseEnd = EndedFalse(ghost.answer, ghost.seen, ghost.old)
  BY <1>1, <1>2 DEF Http!FalseEnd, EndedFalse
<1> QED BY <1>1, <1>2, <1>3, <1>4, <1>5

HeadTaken == {"body", "rest", "done", "cut", "overrun"}

(* What is right once the head is taken, unless its end was a false one *)
Taken(o, a, seen) ==
  /\ o.parse = HeadOf(a) /\ seen >= HeadOf(a) /\ ~LongType(a)
  /\ o.phase = "body" => o.recv = seen /\ o.got = 0
  /\ o.phase \in {"body", "rest"} => SaysLength(a) /\ o.length = a.body
  /\ o.phase = "rest" => o.got < a.body
  /\ o.phase = "done" => o.got = IF SaysLength(a) THEN a.body ELSE 0
  /\ o.phase = "overrun" => a.extra > 0

(* The contents begin behind the head, or nothing is taken into them. *)
Begun(o, a) ==
  o.parse # HeadOf(a) => /\ o.got = 0 /\ o.phase \in {"body", "done", "overrun"}
                         /\ o.phase = "body" => o.recv < o.parse

HttpRead(o, a, seen, old) ==
  /\ o = [phase |-> o.phase, recv |-> o.recv, parse |-> o.parse, length |-> o.length,
          head |-> o.head, got |-> o.got]
  /\ seen \in Nat /\ o.phase \in HeadTaken \union {"head", "given_up", "type_overrun"}
  /\ o.recv \in 0 .. TotalOf(a) /\ o.parse \in Int /\ o.length \in Int /\ o.got \in Nat
  /\ o.phase = "head" => o.head = FALSE /\ o.got = 0
  /\ o.phase \in HeadTaken => Begun(o, a)
  /\ o.phase \in HeadTaken /\ ~EndedFalse(a, seen, old) => Taken(o, a, seen)
  /\ o.phase = "type_overrun" => LongType(a) /\ o.got = 0
  /\ o.phase = "given_up" => o.got = 0

HttpInv ==
  /\ ghost = [answer |-> ghost.answer, seen |-> ghost.seen, stale |-> ghost.stale,
              old |-> ghost.old]
  /\ ghost.answer \in Answers /\ ghost.old \in 1 .. Prefix
  /\ ~ghost.stale => HttpRead(object, ghost.answer, ghost.seen, ghost.old)

LEMMA HttpStarts == Http!Init => HttpInv
<1> SUFFICES ASSUME Http!Init PROVE HttpInv
  OBVIOUS
<1>1. PICK a \in Answers, stale \in BOOLEAN, old \in 1 .. Prefix :
        /\ ghost = [answer |-> a, seen |-> 0, stale |-> stale, old |-> old]
        /\ object = [phase |-> "head", recv |-> 0, parse |-> 0, length |-> -1,
                     head |-> stale, got |-> 0]
  BY DEF Http!Init
<1>2. TotalOf(a) \in Nat
  BY BeginFacts
<1> QED BY <1>1, <1>2 DEF HttpInv, HttpRead, HeadTaken

(* The parser takes the end of the head when the whole of it is there, or  *)
(* a false one.                                                            *)
LEMMA HeadParsed ==
  ASSUME NEW a, ghost.answer = a, a \in Answers, ghost.old \in 1 .. Prefix,
         NEW phase, NEW was, NEW parse \in Int, NEW len \in Int, NEW got, NEW o,
         o = [phase |-> phase, recv |-> was, parse |-> parse, length |-> len,
              head |-> FALSE, got |-> got],
         NEW recv \in Nat, NEW c, c = Http!Parsed(o, recv)
  PROVE  /\ c = [phase |-> c.phase, recv |-> recv, parse |-> c.parse, length |-> c.length,
                 head |-> c.head, got |-> got]
         /\ c.parse \in Int /\ c.length \in Int /\ c.head \in BOOLEAN
         /\ c.phase \in {phase, "type_overrun"} /\ (c.phase # phase => LongType(a) /\ ~c.head)
         /\ c.head => parse = 0 /\ (c.parse = HeadOf(a) \/ recv < c.parse)
         /\ c.head /\ ~EndedFalse(a, recv, ghost.old) =>
              /\ c.parse = HeadOf(a) /\ recv >= HeadOf(a) /\ ~LongType(a)
              /\ c.length = IF SaysLength(a) THEN a.body ELSE -1
<1>0. o.phase = phase /\ o.recv = was /\ o.parse = parse /\ o.head = FALSE /\ o.got = got
  OBVIOUS
<1> DEFINE n == Len(a.lines)
           whole == {k \in 0 .. n : Begin(a, k) <= recv /\ \A j \in 0 .. k - 1 : recv - Begin(a, j) >= 2}
           k == CHOOSE i \in whole : \A j \in whole : j <= i
           ends == k = n \/ recv - Begin(a, k) < 2
           length == \E i \in 1 .. k : a.lines[i].length
           long == \E i \in 1 .. k : a.lines[i].type >= TypeSize
           early == parse # 0 \/ recv < ghost.old
<1>1. /\ Http!Lines = n /\ \A i : Http!LineAt(i) = Begin(a, i)
  BY HttpSays
<1>2. /\ \A i \in 0 .. n : Begin(a, i) \in Nat
      /\ Begin(a, 0) = 0 /\ n \in Nat /\ n > 0 /\ a.body \in Nat
  BY BeginFacts
<1>3. c = IF early
          THEN [o EXCEPT !.recv = recv, !.parse = @ - 1, !.length = -1]
          ELSE IF long THEN [o EXCEPT !.recv = recv, !.phase = "type_overrun"]
          ELSE [o EXCEPT !.recv = recv,
                         !.parse = IF ends THEN Begin(a, k) + 2 ELSE Begin(a, k),
                         !.head = @ \/ ends,
                         !.length = IF length THEN a.body ELSE -1]
  <2> DEFINE all == {j \in 0 .. Http!Lines : Http!LineAt(j) <= recv
                                            /\ \A l \in 0 .. j - 1 : recv - Http!LineAt(l) >= 2}
             last == CHOOSE i \in all : \A j \in all : j <= i
  <2>1. all = whole
    BY <1>1
  <2>2. last = k
    BY <2>1
  <2>3. c = IF early
            THEN [o EXCEPT !.recv = recv, !.parse = @ - 1, !.length = -1]
            ELSE IF \E i \in 1 .. last : ghost.answer.lines[i].type >= TypeSize
            THEN [o EXCEPT !.recv = recv, !.phase = "type_overrun"]
            ELSE [o EXCEPT !.recv = recv,
                           !.parse = IF last = Http!Lines \/ recv - Http!LineAt(last) < 2
                                     THEN Http!LineAt(last) + 2 ELSE Http!LineAt(last),
                           !.head = @ \/ (last = Http!Lines \/ recv - Http!LineAt(last) < 2),
                           !.length = IF \E i \in 1 .. last : ghost.answer.lines[i].length
                                      THEN ghost.answer.body ELSE -1]
    BY <1>0 DEF Http!Parsed
  <2> HIDE DEF all, last, k, whole, n
  <2> QED BY <1>1, <2>2, <2>3
<1>4. k \in whole
  <2>1. whole \subseteq 0 .. n /\ 0 \in whole
    BY <1>2
  <2> HIDE DEF whole
  <2>2. \E i \in whole : \A j \in whole : j <= i
    BY <1>2, <2>1, Maximum
  <2> QED BY <2>2
<1> HIDE DEF k
<1>5. k \in 0 .. n /\ Begin(a, k) \in Nat /\ Begin(a, k) <= recv
  BY <1>2, <1>4
<1> HIDE DEF whole
<1>9. long => LongType(a)
  BY <1>2, <1>5 DEF long, LongType, n
<1> HIDE DEF length, long, early, ends, n
<1>6. CASE early
  <2> DEFINE p == parse - 1
             l == -1
  <2>2. c = [o EXCEPT !.recv = recv, !.parse = p, !.length = l] /\ p \in Int /\ l \in Int
    BY <1>3, <1>6
  <2> HIDE DEF p, l
  <2>1. c = [phase |-> phase, recv |-> recv, parse |-> p, length |-> l,
             head |-> FALSE, got |-> got]
    BY <2>2
  <2>3. c.recv = recv /\ c.parse = p /\ c.length = l /\ c.head = FALSE /\ c.phase = phase /\ c.got = got
    BY <2>1
  <2> QED BY <2>1, <2>2, <2>3
<1>8. CASE ~early /\ long
  <2>1. c = [o EXCEPT !.recv = recv, !.phase = "type_overrun"]
    BY <1>3, <1>8
  <2>2. c = [phase |-> "type_overrun", recv |-> recv, parse |-> parse, length |-> len,
             head |-> FALSE, got |-> got]
    BY <2>1
  <2>3. /\ c.recv = recv /\ c.parse = parse /\ c.length = len /\ c.head = FALSE
        /\ c.phase = "type_overrun" /\ c.got = got
    BY <2>2
  <2> QED BY <1>8, <1>9, <2>2, <2>3
<1>7. CASE ~early /\ ~long
  <2> DEFINE p == IF ends THEN Begin(a, k) + 2 ELSE Begin(a, k)
             h == FALSE \/ ends
             l == IF length THEN a.body ELSE -1
  <2>5. c = [o EXCEPT !.recv = recv, !.parse = p, !.head = o.head \/ ends, !.length = l]
    BY <1>3, <1>7
  <2>6. (o.head \/ ends) = h
    <3>1. o.head = FALSE
      OBVIOUS
    <3> QED BY <3>1
  <2>7. c = [o EXCEPT !.recv = recv, !.parse = p, !.head = h, !.length = l]
    BY <2>5, <2>6
  <2> HIDE DEF p, h, l
  <2>8. c = [phase |-> phase, recv |-> recv, parse |-> p, length |-> l,
             head |-> h, got |-> got]
    BY <2>7
  <2> USE DEF p, h, l
  <2>1. /\ c = [phase |-> phase, recv |-> recv, parse |-> c.parse, length |-> c.length,
                head |-> c.head, got |-> got]
        /\ c.parse = (IF ends THEN Begin(a, k) + 2 ELSE Begin(a, k))
        /\ c.length = IF length THEN a.body ELSE -1
        /\ c.head = (FALSE \/ ends) /\ parse = 0 /\ c.phase = phase
    BY <1>7, <2>8 DEF early
  <2>2. ends \in BOOLEAN
    BY DEF ends
  <2>3. c.parse \in Int /\ c.length \in Int /\ c.head \in BOOLEAN
    BY <1>2, <1>5, <2>1, <2>2
  <2>4. ASSUME c.head, ~EndedFalse(a, recv, ghost.old)
        PROVE  /\ c.parse = HeadOf(a) /\ recv >= HeadOf(a) /\ ~LongType(a)
               /\ c.length = IF SaysLength(a) THEN a.body ELSE -1
    <3>1. ends
      BY <2>1, <2>4
    <3>2. recv \in Nat /\ recv >= ghost.old /\ ghost.old \in Int /\ ghost.old >= 1
      BY <1>7, HttpConstants DEF early
    <3>3. k # 0
      <4>1. recv # 1
        BY <2>4, <3>2 DEF EndedFalse
      <4> QED BY <1>2, <3>1, <3>2, <4>1 DEF ends
    <3>4. k \in 1 .. n
      BY <1>2, <1>5, <3>3
    <3>5. ~(recv - Begin(a, k) \in {0, 1})
      BY <2>4, <3>4 DEF EndedFalse, n
    <3>6. recv - Begin(a, k) >= 2
      BY <1>5, <3>2, <3>5
    <3>7. k = n
      BY <3>1, <3>2, <3>6, <1>5 DEF ends
    <3>8. HeadOf(a) = Begin(a, k) + 2
      BY <3>7 DEF HeadOf, n
    <3>9. length = SaysLength(a)
      BY <3>7 DEF length, SaysLength, n
    <3>10. ~LongType(a)
      BY <1>7, <3>7 DEF long, LongType, n
    <3> QED BY <1>5, <2>1, <3>1, <3>2, <3>6, <3>8, <3>9, <3>10
  <2>9. c.phase = phase
    BY <2>1
  <2>10. ends => c.parse = HeadOf(a) \/ recv < c.parse
    <3>1. CASE k = n
      BY <2>1, <3>1 DEF HeadOf, n, ends
    <3>2. CASE k # n
      BY <1>5, <2>1, <3>2 DEF ends
    <3> QED BY <3>1, <3>2
  <2> QED BY <2>1, <2>3, <2>4, <2>9, <2>10
<1> QED BY <1>6, <1>7, <1>8

(* What a step keeps, it keeps for requests with a clean response. *)
LEMMA HttpReadHead ==
  ASSUME HttpInv, NEW n \in 1 .. BufSize, Http!ReadHead(n)
  PROVE  HttpInv'
<1> DEFINE a == ghost.answer
           recv == object.recv + n
           c == Http!Parsed(object, recv)
           next == IF c.phase = "type_overrun" THEN c.phase
                   ELSE IF ~c.head THEN "head" ELSE IF c.length > 0 THEN "body" ELSE "done"
           old == ghost.old
           seen == IF object.parse = 0 THEN recv ELSE ghost.seen
<1>1. /\ ghost = [answer |-> ghost.answer, seen |-> ghost.seen, stale |-> ghost.stale,
                  old |-> ghost.old]
      /\ a \in Answers /\ old \in 1 .. Prefix
      /\ ~ghost.stale => HttpRead(object, a, ghost.seen, old)
  BY DEF HttpInv
<1>2. /\ object.phase = "head" /\ recv <= Http!Total
      /\ object' = [c EXCEPT !.phase = next] /\ ghost' = [ghost EXCEPT !.seen = seen]
  BY DEF Http!ReadHead
<1>3. TotalOf(a) \in Nat /\ HeadOf(a) \in Nat /\ a.body \in Nat /\ Http!Total = TotalOf(a)
  BY <1>1, BeginFacts, HttpSays
<1>6. /\ ghost' = [answer |-> ghost'.answer, seen |-> ghost'.seen, stale |-> ghost'.stale,
                   old |-> ghost'.old]
      /\ ghost'.answer = a /\ ghost'.seen = seen /\ ghost'.stale = ghost.stale
      /\ ghost'.old = old
  <2> HIDE DEF seen
  <2> QED BY <1>1, <1>2
<1>8. ASSUME ~ghost.stale PROVE HttpRead(object', a, seen, old)
  <2>1. /\ object = [phase |-> "head", recv |-> object.recv, parse |-> object.parse,
                     length |-> object.length, head |-> FALSE, got |-> 0]
        /\ object.parse \in Int /\ object.recv \in Nat /\ ghost.seen \in Nat
        /\ object.length \in Int
    BY <1>1, <1>2, <1>3, <1>8 DEF HttpRead
  <2>0. n \in Nat /\ recv \in Nat /\ seen \in Nat /\ recv \in 0 .. TotalOf(a)
    BY <1>2, <1>3, <2>1, HttpConstants
  <2>2. /\ c = [phase |-> c.phase, recv |-> recv, parse |-> c.parse, length |-> c.length,
                head |-> c.head, got |-> 0]
        /\ c.parse \in Int /\ c.length \in Int /\ c.head \in BOOLEAN
        /\ c.phase \in {"head", "type_overrun"}
        /\ c.phase = "type_overrun" => LongType(a) /\ ~c.head
        /\ c.head => object.parse = 0 /\ (c.parse = HeadOf(a) \/ recv < c.parse)
        /\ c.head /\ ~EndedFalse(a, recv, old) =>
             /\ c.parse = HeadOf(a) /\ recv >= HeadOf(a) /\ ~LongType(a)
             /\ c.length = IF SaysLength(a) THEN a.body ELSE -1
    <3> DEFINE was == object.recv
               parse == object.parse
               length == object.length
    <3>1. /\ object = [phase |-> "head", recv |-> was, parse |-> parse, length |-> length,
                       head |-> FALSE, got |-> 0]
          /\ parse \in Int /\ length \in Int
      BY <2>1
    <3>2. /\ c = [phase |-> c.phase, recv |-> recv, parse |-> c.parse, length |-> c.length,
                  head |-> c.head, got |-> 0]
          /\ c.parse \in Int /\ c.length \in Int /\ c.head \in BOOLEAN
          /\ c.phase \in {"head", "type_overrun"} /\ (c.phase # "head" => LongType(a) /\ ~c.head)
          /\ c.head => parse = 0 /\ (c.parse = HeadOf(a) \/ recv < c.parse)
          /\ c.head /\ ~EndedFalse(a, recv, old) =>
               /\ c.parse = HeadOf(a) /\ recv >= HeadOf(a) /\ ~LongType(a)
               /\ c.length = IF SaysLength(a) THEN a.body ELSE -1
      <4> HIDE DEF c, recv, was, parse, length
      <4> QED BY <1>1, <2>0, <3>1, HeadParsed DEF c
    <3> HIDE DEF c, recv, a
    <3> QED BY <3>2, Zenon
  <2> HIDE DEF c
  <2>3. object' = [phase |-> next, recv |-> recv, parse |-> c.parse, length |-> c.length,
                   head |-> c.head, got |-> 0]
    <3> HIDE DEF next
    <3> QED BY <1>2, <2>2
  <2>4. /\ object'.phase = next /\ object'.recv = recv /\ object'.parse = c.parse
        /\ object'.length = c.length /\ object'.head = c.head /\ object'.got = 0
    <3> HIDE DEF next
    <3> QED BY <2>3
  <2>5. /\ next \in {"head", "body", "done", "type_overrun"}
        /\ next = "head" => ~c.head
        /\ next \in {"body", "done"} => c.head
        /\ next = "type_overrun" => LongType(a)
    BY <2>2
  <2>6. ASSUME c.head, ~EndedFalse(a, seen, old) PROVE Taken(object', a, seen)
    <3>1. seen = recv /\ ~EndedFalse(a, recv, old)
      BY <2>2, <2>6
    <3>2. /\ c.parse = HeadOf(a) /\ recv >= HeadOf(a) /\ ~LongType(a)
          /\ c.length = IF SaysLength(a) THEN a.body ELSE -1
      BY <2>2, <2>6, <3>1
    <3>3. next = "body" => SaysLength(a) /\ c.length = a.body
      BY <2>6, <3>2
    <3>4. next = "done" => 0 = IF SaysLength(a) THEN a.body ELSE 0
      BY <1>3, <2>6, <3>2
    <3> HIDE DEF next, recv, a, seen
    <3> QED BY <2>4, <2>5, <3>1, <3>2, <3>3, <3>4 DEF Taken
  <2>7. object' = [phase |-> object'.phase, recv |-> object'.recv, parse |-> object'.parse,
                   length |-> object'.length, head |-> object'.head, got |-> object'.got]
    BY <2>3, <2>4
  <2> HIDE DEF next, recv, a, seen, old
  <2>8. object'.phase = "head" => object'.head = FALSE /\ object'.got = 0
    BY <2>2, <2>4, <2>5
  <2>9. /\ object'.phase \in HeadTaken /\ ~EndedFalse(a, seen, old) => Taken(object', a, seen)
        /\ object'.phase = "type_overrun" => LongType(a) /\ object'.got = 0
        /\ object'.phase # "given_up"
    BY <2>4, <2>5, <2>6 DEF HeadTaken
  <2>12. object'.phase \in HeadTaken => Begun(object', a)
    BY <2>2, <2>4, <2>5 DEF HeadTaken, Begun
  <2>10. object'.phase \in HeadTaken \union {"head", "given_up", "type_overrun"}
    BY <2>4, <2>5 DEF HeadTaken
  <2>11. object'.recv \in 0 .. TotalOf(a) /\ object'.parse \in Int /\ object'.length \in Int
         /\ object'.got \in Nat
    BY <2>0, <2>2, <2>4
  <2> QED BY <2>0, <2>7, <2>8, <2>9, <2>10, <2>11, <2>12 DEF HttpRead
<1> HIDE DEF a, seen, old, c, next
<1> QED BY <1>1, <1>6, <1>8 DEF HttpInv

(* The other steps change the phase and what was got, nothing else. *)
LEMMA HttpGoesOn ==
  ASSUME HttpInv, ghost' = ghost, NEW next, NEW got \in Nat,
         object' = [object EXCEPT !.phase = next, !.got = got],
         next \in HeadTaken \union {"given_up"},
         ASSUME HttpRead(object, ghost.answer, ghost.seen, ghost.old),
                Taken(object, ghost.answer, ghost.seen)
         PROVE  /\ next # "body"
                /\ next = "rest" => /\ SaysLength(ghost.answer) /\ object.length = ghost.answer.body
                                    /\ got < ghost.answer.body
                /\ next = "done" => got = IF SaysLength(ghost.answer) THEN ghost.answer.body ELSE 0
                /\ next = "overrun" => ghost.answer.extra > 0,
         ASSUME HttpRead(object, ghost.answer, ghost.seen, ghost.old),
                next \in HeadTaken, object.parse # HeadOf(ghost.answer)
         PROVE  got = 0 /\ next = "overrun",
         next = "given_up" => got = 0,
         next \in HeadTaken => object.phase \in HeadTaken
  PROVE  HttpInv'
<1> DEFINE a == ghost.answer
           seen == ghost.seen
           old == ghost.old
<1>1. /\ ghost = [answer |-> ghost.answer, seen |-> ghost.seen, stale |-> ghost.stale,
                  old |-> ghost.old]
      /\ a \in Answers /\ old \in 1 .. Prefix /\ (~ghost.stale => HttpRead(object, a, seen, old))
  BY DEF HttpInv
<1>2. ASSUME ~ghost.stale PROVE HttpRead(object', a, seen, old)
  <2>1. HttpRead(object, a, seen, old)
    BY <1>1, <1>2
  <2>2. /\ object = [phase |-> object.phase, recv |-> object.recv, parse |-> object.parse,
                     length |-> object.length, head |-> object.head, got |-> object.got]
        /\ seen \in Nat /\ object.recv \in 0 .. TotalOf(a) /\ object.parse \in Int /\ object.length \in Int
        /\ object.phase \in HeadTaken /\ ~EndedFalse(a, seen, old) => Taken(object, a, seen)
    BY <2>1 DEF HttpRead
  <2>3. object' = [phase |-> next, recv |-> object.recv, parse |-> object.parse,
                   length |-> object.length, head |-> object.head, got |-> got]
    BY <2>2
  <2>4. /\ object'.phase = next /\ object'.recv = object.recv /\ object'.parse = object.parse
        /\ object'.length = object.length /\ object'.head = object.head /\ object'.got = got
    BY <2>3
  <2>5. ASSUME next \in HeadTaken, ~EndedFalse(a, seen, old) PROVE Taken(object', a, seen)
    <3>1. Taken(object, a, seen)
      BY <2>2, <2>5
    <3>2. /\ next # "body"
          /\ next = "rest" => /\ SaysLength(a) /\ object.length = a.body
                              /\ got < a.body
          /\ next = "done" => got = IF SaysLength(a) THEN a.body ELSE 0
          /\ next = "overrun" => a.extra > 0
      BY <2>1, <3>1
    <3> HIDE DEF a, seen
    <3> QED BY <2>4, <3>1, <3>2 DEF Taken
  <2>6. object' = [phase |-> object'.phase, recv |-> object'.recv, parse |-> object'.parse,
                   length |-> object'.length, head |-> object'.head, got |-> object'.got]
    BY <2>3, <2>4
  <2>7. object'.phase # "head" /\ object'.phase # "type_overrun"
    BY <2>4 DEF HeadTaken
  <2>8. ASSUME next \in HeadTaken PROVE Begun(object', a)
    <3>1. CASE object.parse = HeadOf(a)
      BY <2>4, <3>1 DEF Begun
    <3>2. CASE object.parse # HeadOf(a)
      <4>1. got = 0 /\ next = "overrun"
        BY <2>1, <2>8, <3>2
      <4> QED BY <2>4, <4>1 DEF Begun
    <3> QED BY <3>1, <3>2
  <2> HIDE DEF a, seen, old
  <2> QED BY <2>2, <2>4, <2>5, <2>6, <2>7, <2>8 DEF HttpRead
<1> QED BY <1>1, <1>2 DEF HttpInv

LEMMA HttpGiveUp ==
  ASSUME HttpInv, Http!GiveUp
  PROVE  HttpInv'
<1>1. /\ ghost' = ghost /\ object' = [object EXCEPT !.phase = "given_up"] /\ object.phase = "head"
  BY DEF Http!GiveUp
<1>2. CASE ghost.stale
  BY <1>1, <1>2 DEF HttpInv
<1>3. CASE ~ghost.stale
  <2>1. /\ object = [phase |-> object.phase, recv |-> object.recv, parse |-> object.parse,
                     length |-> object.length, head |-> object.head, got |-> object.got]
        /\ object.got \in Nat /\ object.got = 0
    BY <1>1, <1>3 DEF HttpInv, HttpRead
  <2>2. object' = [object EXCEPT !.phase = "given_up", !.got = object.got]
    BY <1>1, <2>1
  <2>3. "given_up" \notin HeadTaken
    BY DEF HeadTaken
  <2> DEFINE next == "given_up"
  <2>4. /\ object' = [object EXCEPT !.phase = next, !.got = object.got]
        /\ next \in HeadTaken \union {"given_up"} /\ (next \in HeadTaken => object.phase \in HeadTaken)
        /\ next # "body" /\ next # "rest" /\ next # "done" /\ next # "overrun"
        /\ next \notin HeadTaken
    BY <2>2, <2>3
  <2> HIDE DEF next
  <2> QED BY <1>1, <2>1, <2>4, HttpGoesOn
<1> QED BY <1>2, <1>3

LEMMA HttpClosed ==
  ASSUME HttpInv, Http!Closed
  PROVE  HttpInv'
<1>1. /\ ghost' = ghost /\ object' = [object EXCEPT !.phase = "cut"] /\ object.phase = "rest"
  BY DEF Http!Closed
<1>2. CASE ghost.stale
  BY <1>1, <1>2 DEF HttpInv
<1>3. CASE ~ghost.stale
  <2>1. /\ object = [phase |-> object.phase, recv |-> object.recv, parse |-> object.parse,
                     length |-> object.length, head |-> object.head, got |-> object.got]
        /\ object.got \in Nat
    BY <1>3 DEF HttpInv, HttpRead
  <2>2. object' = [object EXCEPT !.phase = "cut", !.got = object.got]
    BY <1>1, <2>1
  <2> DEFINE next == "cut"
  <2>4. /\ object' = [object EXCEPT !.phase = next, !.got = object.got]
        /\ next \in HeadTaken \union {"given_up"} /\ (next \in HeadTaken => object.phase \in HeadTaken)
        /\ next # "body" /\ next # "rest" /\ next # "done" /\ next # "overrun" /\ next # "given_up"
    BY <1>1, <2>2 DEF HeadTaken
  <2>5. ASSUME HttpRead(object, ghost.answer, ghost.seen, ghost.old)
        PROVE  object.parse = HeadOf(ghost.answer)
    BY <1>1, <2>5 DEF HttpRead, Begun, HeadTaken
  <2> HIDE DEF next
  <2> QED BY <1>1, <2>1, <2>4, <2>5, HttpGoesOn
<1> QED BY <1>2, <1>3

(* What overruns the contents is what the server sends behind them. *)
LEMMA HttpCopyBody ==
  ASSUME HttpInv, Http!CopyBody
  PROVE  HttpInv'
<1> DEFINE a == ghost.answer
           len == object.recv - object.parse
           got == IF len < 0 THEN 0 ELSE len
           next == IF len < 0 \/ len > object.length THEN "overrun"
                   ELSE IF len = object.length THEN "done" ELSE "rest"
<1>1. /\ ghost' = ghost /\ object' = [object EXCEPT !.phase = next, !.got = got]
      /\ object.phase = "body"
  BY DEF Http!CopyBody
<1>2. CASE ghost.stale
  BY <1>1, <1>2 DEF HttpInv
<1>3. CASE ~ghost.stale
  <2>1. a \in Answers /\ HttpRead(object, a, ghost.seen, ghost.old)
    BY <1>3 DEF HttpInv
  <2>2. /\ TotalOf(a) \in Nat /\ HeadOf(a) \in Nat /\ a.body \in Nat /\ a.extra \in Nat
        /\ TotalOf(a) = HeadOf(a) + a.body + a.extra
    BY <2>1, BeginFacts DEF TotalOf
  <2>3. object.recv \in 0 .. TotalOf(a) /\ object.parse \in Int /\ object.length \in Int
    BY <2>1 DEF HttpRead
  <2>4. got \in Nat
    BY <2>2, <2>3
  <2>5. ASSUME Taken(object, a, ghost.seen)
        PROVE  /\ next # "body"
               /\ next = "rest" => /\ SaysLength(a) /\ object.length = a.body
                                   /\ got < a.body
               /\ next = "done" => got = IF SaysLength(a) THEN a.body ELSE 0
               /\ next = "overrun" => a.extra > 0
    <3>1. /\ object.recv = ghost.seen /\ object.parse = HeadOf(a) /\ ghost.seen >= HeadOf(a)
          /\ SaysLength(a) /\ object.length = a.body
      BY <1>1, <2>5 DEF Taken
    <3>2. object.recv <= HeadOf(a) + a.body + a.extra /\ object.recv \in Nat
      BY <2>2, <2>3
    <3> DEFINE h == HeadOf(a)
               b == a.body
               x == a.extra
               rv == object.recv
    <3>3. rv \in Nat /\ h \in Nat /\ b \in Nat /\ x \in Nat /\ rv >= h /\ rv <= h + b + x
          /\ len = rv - h /\ object.length = b
      BY <2>2, <3>1, <3>2
    <3>4. SaysLength(a) = TRUE \/ SaysLength(a)
      BY <3>1
    <3> HIDE DEF h, b, x, rv, len
    <3>5. /\ len \in Nat /\ got = len
          /\ next = IF len > b THEN "overrun" ELSE IF len = b THEN "done" ELSE "rest"
      BY <3>3
    <3>6. /\ len > b => x > 0
          /\ len < b \/ len = b \/ len > b
      BY <3>3
    <3> HIDE DEF next, got
    <3>7. /\ next # "body" /\ (next = "rest" => got < b) /\ (next = "done" => got = b)
          /\ (next = "overrun" => x > 0)
      BY <3>3, <3>5, <3>6
    <3> QED BY <3>1, <3>3, <3>7 DEF b, x
  <2>6. next \in HeadTaken \union {"given_up"} /\ object.phase \in HeadTaken /\ next # "given_up"
    BY <1>1 DEF HeadTaken
  <2>7. object.parse # HeadOf(a) => got = 0 /\ next = "overrun"
    <3>1. object.parse # HeadOf(a) => object.recv < object.parse
      BY <1>1, <2>1 DEF HttpRead, Begun, HeadTaken
    <3>2. object.recv \in Int
      BY <2>2, <2>3
    <3> QED BY <2>3, <3>1, <3>2
  <2> HIDE DEF next, got
  <2> QED BY <1>1, <2>4, <2>5, <2>6, <2>7, HttpGoesOn
<1> QED BY <1>2, <1>3

LEMMA HttpReadBody ==
  ASSUME HttpInv, NEW n \in 1 .. BufSize, Http!ReadBody(n)
  PROVE  HttpInv'
<1> DEFINE a == ghost.answer
           got == object.got + n
           next == IF got > object.length THEN "overrun"
                   ELSE IF got = object.length THEN "done" ELSE "rest"
<1>1. /\ ghost' = ghost /\ object' = [object EXCEPT !.got = got, !.phase = next]
      /\ object.phase = "rest" /\ object.parse + object.got + n <= Http!Total
  BY DEF Http!ReadBody
<1>2. CASE ghost.stale
  BY <1>1, <1>2 DEF HttpInv
<1>3. CASE ~ghost.stale
  <2>1. a \in Answers /\ HttpRead(object, a, ghost.seen, ghost.old)
    BY <1>3 DEF HttpInv
  <2>2. /\ TotalOf(a) \in Nat /\ HeadOf(a) \in Nat /\ a.body \in Nat /\ a.extra \in Nat
        /\ TotalOf(a) = HeadOf(a) + a.body + a.extra /\ Http!Total = TotalOf(a)
    BY <2>1, BeginFacts, HttpSays DEF TotalOf
  <2>3. /\ object.recv \in 0 .. TotalOf(a) /\ object.parse \in Int /\ object.length \in Int
        /\ object.got \in Nat
    BY <2>1 DEF HttpRead
  <2>4. got \in Nat /\ n \in Nat
    BY <2>3, HttpConstants
  <2>5. ASSUME Taken(object, a, ghost.seen)
        PROVE  /\ next # "body"
               /\ next = "rest" => /\ SaysLength(a) /\ object.length = a.body
                                   /\ got < a.body
               /\ next = "done" => got = IF SaysLength(a) THEN a.body ELSE 0
               /\ next = "overrun" => a.extra > 0
    <3>1. object.parse = HeadOf(a) /\ SaysLength(a) /\ object.length = a.body
      BY <1>1, <2>5 DEF Taken
    <3> DEFINE h == HeadOf(a)
               b == a.body
               x == a.extra
    <3>3. got \in Nat /\ h \in Nat /\ b \in Nat /\ x \in Nat /\ h + got <= h + b + x
          /\ object.length = b
      BY <1>1, <2>2, <2>3, <2>4, <3>1
    <3> HIDE DEF h, b, x, got
    <3>5. next = IF got > b THEN "overrun" ELSE IF got = b THEN "done" ELSE "rest"
      BY <3>3
    <3>6. /\ got > b => x > 0
          /\ got < b \/ got = b \/ got > b
      BY <3>3
    <3> HIDE DEF next
    <3>7. /\ next # "body" /\ (next = "rest" => got < b) /\ (next = "done" => got = b)
          /\ (next = "overrun" => x > 0)
      BY <3>3, <3>5, <3>6
    <3> QED BY <3>1, <3>3, <3>7 DEF b, x
  <2>6. next \in HeadTaken \union {"given_up"} /\ object.phase \in HeadTaken /\ next # "given_up"
    BY <1>1 DEF HeadTaken
  <2>8. object.parse = HeadOf(a)
    BY <1>1, <2>1 DEF HttpRead, Begun, HeadTaken
  <2> HIDE DEF next, got
  <2>7. object' = [object EXCEPT !.phase = next, !.got = got]
    BY <1>1, <2>1 DEF HttpRead
  <2> QED BY <1>1, <2>4, <2>5, <2>6, <2>7, <2>8, HttpGoesOn
<1> QED BY <1>2, <1>3

LEMMA HttpStep == HttpInv /\ Http!Next => HttpInv'
BY HttpReadHead, HttpReadBody, HttpGiveUp, HttpCopyBody, HttpClosed DEF Http!Next

(* What is taken into the contents, false end or not *)
LEMMA HttpBegins ==
  ASSUME HttpInv, ~ghost.stale, object.got > 0 \/ object.phase \in {"rest", "cut"}
  PROVE  object.parse = Http!HeadSize
<1>1. HttpRead(object, ghost.answer, ghost.seen, ghost.old) /\ Http!HeadSize = HeadOf(ghost.answer)
  BY HttpSays DEF HttpInv
<1>2. object.phase \in HeadTaken /\ ~(object.got = 0 /\ object.phase \in {"body", "done", "overrun"})
  BY <1>1 DEF HttpRead, HeadTaken
<1> QED BY <1>1, <1>2 DEF HttpRead, Begun

LEMMA HttpImplies == HttpInv => Http!AnswerRead
<1>0. (HttpInv /\ ~ghost.stale) =>
        (object.got > 0 \/ object.phase \in {"rest", "cut"} => object.parse = Http!HeadSize)
  BY HttpBegins
<1> SUFFICES ASSUME HttpInv, ~ghost.stale, ~Http!FalseEnd
             PROVE  /\ object.phase \in HeadTaken =>
                         /\ object.parse = Http!HeadSize /\ ghost.seen >= Http!HeadSize
                         /\ \A i \in 1 .. Http!Lines : ghost.answer.lines[i].type < TypeSize
                    /\ object.phase = "done" =>
                         object.got = IF \E i \in 1 .. Http!Lines : ghost.answer.lines[i].length
                                      THEN ghost.answer.body ELSE 0
                    /\ object.phase = "overrun" => ghost.answer.extra > 0
                    /\ object.phase = "type_overrun" =>
                         \E i \in 1 .. Http!Lines : ghost.answer.lines[i].type >= TypeSize
  BY <1>0 DEF Http!AnswerRead, HeadTaken
<1>1. /\ Http!Lines = Len(ghost.answer.lines) /\ Http!HeadSize = HeadOf(ghost.answer)
      /\ ~EndedFalse(ghost.answer, ghost.seen, ghost.old)
  BY HttpSays
<1>2. /\ object.phase \in HeadTaken => Taken(object, ghost.answer, ghost.seen)
      /\ object.phase = "type_overrun" => LongType(ghost.answer)
  BY <1>1 DEF HttpInv, HttpRead
<1>3. "done" \in HeadTaken /\ "overrun" \in HeadTaken
  BY DEF HeadTaken
<1>4. SaysLength(ghost.answer) = \E i \in 1 .. Http!Lines : ghost.answer.lines[i].length
  BY <1>1 DEF SaysLength
<1>5. /\ LongType(ghost.answer) =
            \E i \in 1 .. Http!Lines : ghost.answer.lines[i].type >= TypeSize
      /\ ~LongType(ghost.answer) =>
            \A i \in 1 .. Http!Lines : ghost.answer.lines[i].type < TypeSize
  <2>1. ghost.answer \in Answers
    BY DEF HttpInv
  <2>2. \A i \in 1 .. Http!Lines : ghost.answer.lines[i].type \in Nat
    <3> SUFFICES ASSUME NEW i \in 1 .. Http!Lines PROVE ghost.answer.lines[i].type \in Nat
      OBVIOUS
    <3>1. ghost.answer.lines[i] \in HeadLine
      BY <1>1, <2>1, HttpConstants
    <3> QED BY <3>1 DEF HeadLine
  <2> QED BY <1>1, <2>2, HttpConstants DEF LongType
<1> QED BY <1>1, <1>2, <1>3, <1>4, <1>5 DEF Taken

LEMMA LibraryHttp == Spec => [](part = "http" => HttpInv)
<1> DEFINE Inv == part = "http" => HttpInv
<1>1. Init => Inv
  BY HttpStarts DEF Init
<1>2. Inv /\ [Next]_vars => Inv'
  <2> SUFFICES ASSUME Inv, [Next]_vars, part' = "http" PROVE HttpInv'
    OBVIOUS
  <2>1. CASE UNCHANGED vars
    <3>1. object' = object /\ ghost' = ghost /\ part = "http"
      BY <2>1 DEF vars
    <3>2. HttpInv
      BY <3>1
    <3> QED BY <3>1, <3>2 DEF HttpInv
  <2>2. CASE Next
    <3>1. part' = part /\ Http!Next
      BY <2>2 DEF Next, UseHeap, UseVector, UseTree, UseMap, UseQueue, UseTimer, UseGetopt,
         UseHttp, UseSort, UseUrl, UseMd5, UseSerial
    <3> QED BY <3>1, HttpStep
  <2> QED BY <2>1, <2>2
<1> QED BY <1>1, <1>2, PTL DEF Spec

(* However the answer is cut by the reads and whatever an earlier one has  *)
(* left in the buffer: when the response was clean, no byte of the head is *)
(* taken into the contents; and when, besides, no end of a line            *)
(* was taken for the head's, nor one character before an old "TTP/", the   *)
(* request goes on to the contents only with the whole head read, at the   *)
(* first byte behind it, and with each Content-Type shorter than its       *)
(* array, and succeeds with as many bytes as the head says;                *)
(* bscl_http_client_request writes past the contents only when the server  *)
(* sends more than it said, and past the array of the type only for a      *)
(* longer one.                                                             *)
THEOREM LibraryAnswerRead == Spec => []AnswerRead
<1>1. (part = "http" => HttpInv) => AnswerRead
  BY HttpImplies DEF AnswerRead
<1> QED BY <1>1, LibraryHttp, PTL

-----------------------------------------------------------------------------
(* The blocks of MD5. *)
LEMMA DivUnique ==
  ASSUME NEW n \in Nat \ {0}, NEW q \in Int, NEW r \in 0 .. n - 1
  PROVE  (n * q + r) \div n = q /\ (n * q + r) % n = r
OBVIOUS

(* A sum in two words: the low one is less than what was added when it has *)
(* wrapped.                                                                *)
LEMMA SumDivided ==
  ASSUME NEW w \in Nat \ {0}, NEW x \in Nat, NEW y \in Nat
  PROVE  /\ ((x % w) + (y % w)) % w = (x + y) % w
         /\ (x + y) \div w = (x \div w) + (y \div w) + (IF (x + y) % w < y % w THEN 1 ELSE 0)
<1> DEFINE p == x \div w
           q == y \div w
           a == x % w
           b == y % w
<1>1. p \in Int /\ q \in Int /\ a \in 0 .. w - 1 /\ b \in 0 .. w - 1
      /\ x = w * p + a /\ y = w * q + b
  BY DivMod, ModRange
<1> HIDE DEF p, q, a, b
<1>2. CASE a + b < w
  <2>1. a + b \in 0 .. w - 1
    BY <1>1, <1>2
  <2>2. x + y = w * (p + q) + (a + b) /\ p + q \in Int
    BY <1>1
  <2>3. (x + y) \div w = p + q /\ (x + y) % w = a + b
    <3> DEFINE d == p + q
               c == a + b
    <3>1. x + y = w * d + c /\ d \in Int /\ c \in 0 .. w - 1
      BY <2>1, <2>2
    <3> HIDE DEF d, c
    <3>2. (x + y) \div w = d /\ (x + y) % w = c
      BY <3>1, DivUnique
    <3> QED BY <3>2 DEF d, c
  <2>4. (a + b) % w = a + b
    BY <2>1, ModSmall
  <2>5. ~(a + b < b)
    BY <1>1
  <2> QED BY <1>1, <2>3, <2>4, <2>5 DEF p, q, a, b
<1>3. CASE a + b >= w
  <2>1. a + b - w \in 0 .. w - 1
    BY <1>1, <1>3
  <2>2. x + y = w * (p + q + 1) + (a + b - w) /\ p + q + 1 \in Int
    BY <1>1
  <2>3. (x + y) \div w = p + q + 1 /\ (x + y) % w = a + b - w
    <3> DEFINE d == p + q + 1
               c == a + b - w
    <3>1. x + y = w * d + c /\ d \in Int /\ c \in 0 .. w - 1
      BY <2>1, <2>2
    <3> HIDE DEF d, c
    <3>2. (x + y) \div w = d /\ (x + y) % w = c
      BY <3>1, DivUnique
    <3> QED BY <3>2 DEF d, c
  <2>4. (w * 1 + (a + b - w)) % w = a + b - w
    BY <2>1, ModUnique
  <2>6. w * 1 + (a + b - w) = a + b
    BY <1>1
  <2>5. a + b - w < b
    BY <1>1
  <2> QED BY <1>1, <2>3, <2>4, <2>5, <2>6 DEF p, q, a, b
<1>4. a + b < w \/ a + b >= w
  BY <1>1
<1> QED BY <1>2, <1>3, <1>4

(* The modulus of a word of count *)
Modulus == 2 ^ Bits

LEMMA Md5Constants ==
  /\ Block \in Nat /\ Block # 0 /\ Word \in Nat /\ Word # 0 /\ MaxBytes \in Nat
  /\ Pieces \subseteq 0 .. MaxBytes /\ 2 * Word < Block
  /\ Modulus \in Nat /\ Modulus # 0 /\ Modulus % (8 * Block) = 0
  /\ \A n : Digest!Wrap(n) = n % Modulus
<1>1. /\ Block \in Nat /\ Block # 0 /\ Word \in Nat /\ Word # 0 /\ MaxBytes \in Nat
      /\ Pieces \subseteq 0 .. MaxBytes /\ 2 * Word < Block
      /\ Modulus \in Nat /\ Modulus % (8 * Block) = 0 /\ MaxBytes < Modulus
  BY LibraryAssumption DEF Digest!Md5Assumption, Modulus
<1>2. Modulus # 0
  BY <1>1
<1>3. \A n : Digest!Wrap(n) = n % Modulus
  BY DEF Digest!Wrap, Modulus
<1> QED BY <1>1, <1>2, <1>3

(* The length of n bytes in bits, in two words *)
LengthOf(n) == <<(8 * n) % Modulus, ((8 * n) \div Modulus) % Modulus>>

LEMMA CountedLength ==
  ASSUME NEW m \in Nat, NEW n \in Nat
  PROVE  Digest!Counted(LengthOf(m), n) = LengthOf(m + n)
<1> DEFINE w == Modulus
           x == 8 * m
           y == 8 * n
           carry == IF (x + y) % w < y % w THEN 1 ELSE 0
<1>1. w \in Nat \ {0} /\ x \in Nat /\ y \in Nat /\ x + y = 8 * (m + n)
  BY Md5Constants
<1> HIDE DEF w, x, y
<1>2. ((x % w) + (y % w)) % w = (x + y) % w /\ (x + y) \div w = (x \div w) + (y \div w) + carry
  BY <1>1, SumDivided
<1>3. Digest!Counted(<<x % w, (x \div w) % w>>, n)
        = <<((x % w) + (y % w)) % w,
            (((x \div w) % w) + (IF ((x % w) + (y % w)) % w < y % w THEN 1 ELSE 0) + (y \div w)) % w>>
  <2> DEFINE lo == x % w
             hi == (x \div w) % w
             c == <<lo, hi>>
  <2>1. c[1] = lo /\ c[2] = hi
    OBVIOUS
  <2> HIDE DEF c, lo, hi
  <2>2. Digest!Counted(c, n)
          = <<Digest!Wrap(c[1] + Digest!Wrap(8 * n)),
              Digest!Wrap(c[2] + (IF Digest!Wrap(c[1] + Digest!Wrap(8 * n)) < Digest!Wrap(8 * n)
                                  THEN 1 ELSE 0) + (8 * n) \div Modulus)>>
    BY DEF Digest!Counted, Modulus
  <2>3. \A i : Digest!Wrap(i) = i % w
    BY Md5Constants DEF w
  <2>4. Digest!Counted(c, n)
          = <<(lo + (y % w)) % w,
              (hi + (IF (lo + (y % w)) % w < y % w THEN 1 ELSE 0) + (y \div w)) % w>>
    BY <2>1, <2>2, <2>3 DEF y, w
  <2> QED BY <2>4 DEF c, lo, hi
<1>4. (x \div w) \in Int /\ (y \div w) \in Int /\ carry \in Int /\ (x \div w) % w \in Int
  <2>1. x \in Int /\ y \in Int
    BY <1>1
  <2>2. (x \div w) \in Int /\ (y \div w) \in Int
    BY <1>1, <2>1, DivMod
  <2> QED BY <1>1, <2>2, ModRange
<1>5. (((x \div w) % w) + carry + (y \div w)) % w = ((x \div w) + (y \div w) + carry) % w
  <2> DEFINE d == x \div w
             e == carry + (y \div w)
  <2>1. d \in Int /\ e \in Int
    BY <1>4
  <2>2. ((d % w) + e) % w = (d + e) % w
    <3> HIDE DEF d, e
    <3> QED BY <1>1, <2>1, ModAdd
  <2>3. (d % w) + e = (d % w) + carry + (y \div w)
    BY <1>4
  <2>4. d + e = d + (y \div w) + carry
    BY <1>4
  <2> QED BY <2>2, <2>3, <2>4
<1> HIDE DEF carry
<1>6. Digest!Counted(<<x % w, (x \div w) % w>>, n) = <<(x + y) % w, ((x + y) \div w) % w>>
  BY <1>2, <1>3, <1>5 DEF carry
<1>7. LengthOf(m) = <<x % w, (x \div w) % w>> /\ LengthOf(m + n) = <<(x + y) % w, ((x + y) \div w) % w>>
  BY <1>1 DEF LengthOf, w, x
<1> QED BY <1>6, <1>7

(* The low word tells how many bytes wait for a block. *)
LEMMA IndexOfLength ==
  ASSUME NEW n \in Nat
  PROVE  Digest!Index(LengthOf(n)) = n % Block
<1> DEFINE w == Modulus
           b == Block
           k == w \div (8 * b)
           x == 8 * n
           d == x \div w
           r == x % w
<1>1. w \in Nat \ {0} /\ b \in Nat \ {0} /\ 8 * b \in Nat \ {0} /\ x \in Nat /\ w % (8 * b) = 0
  BY Md5Constants
<1>2. k \in Int /\ w = (8 * b) * k
  <2>1. k \in Int /\ w = (8 * b) * k + (w % (8 * b))
    <3> DEFINE c == 8 * b
    <3>1. c \in Nat \ {0} /\ w \in Int
      BY <1>1
    <3> HIDE DEF c, w, b
    <3> QED BY <3>1, DivMod DEF c
  <2> HIDE DEF k, w, b
  <2> QED BY <1>1, <2>1
<1>3. d \in Int /\ r \in Int /\ x = w * d + r
  <2> HIDE DEF w, x
  <2> QED BY <1>1, DivMod, ModRange
<1> HIDE DEF k, d, r, w
<1>4. x = 8 * n
  OBVIOUS
<1> HIDE DEF x, b
<1> DEFINE e == k * d
           f == n - b * e
<1>5. e \in Int /\ f \in Int
  BY <1>1, <1>2, <1>3
<1>6. w * d = 8 * (b * e)
  BY <1>1, <1>2, <1>3
<1>7. r = 8 * f
  <2> DEFINE p == b * e
  <2>1. p \in Int /\ f = n - p /\ w * d = 8 * p
    BY <1>1, <1>5, <1>6
  <2>2. x = 8 * p + r
    BY <1>3, <2>1
  <2> HIDE DEF p, e, f
  <2> QED BY <1>3, <1>4, <2>1, <2>2
<1>8. r \div 8 = f
  <2> HIDE DEF f, e
  <2> QED BY <1>5, <1>7
<1>9. f % b = n % b
  <2> DEFINE g == 0 - e
  <2>1. g \in Int /\ n \in Int
    BY <1>5
  <2>2. f = n + b * g
    <3>1. b * g = 0 - b * e
      BY <1>1, <1>5
    <3> QED BY <1>1, <1>5, <3>1
  <2> HIDE DEF f, g
  <2> QED BY <1>1, <2>1, <2>2, ModShift
<1>10. Digest!Index(LengthOf(n)) = (r \div 8) % b
  BY DEF Digest!Index, LengthOf, r, x, w, b
<1> QED BY <1>8, <1>9, <1>10 DEF b


LEMMA Window ==
  ASSUME NEW S, NEW s \in Seq(S), NEW a \in Nat, NEW b \in Nat, a + b <= Len(s)
  PROVE  SubSeq(s, a + 1, a + b) = [i \in 1 .. b |-> s[a + i]]
OBVIOUS

LEMMA RowsWithin ==
  ASSUME NEW b \in Nat, NEW q \in Nat, NEW k \in 1 .. q
  PROVE  (k - 1) * b \in Nat /\ (k - 1) * b + b <= q * b /\ k * b = (k - 1) * b + b
<1>1. k - 1 \in Nat /\ q - k \in Nat /\ k \in Nat
  OBVIOUS
<1>2. (q - k) * b \in Nat /\ (k - 1) * b \in Nat
  BY <1>1
<1>3. q * b = (q - k) * b + (k - 1) * b + b /\ k * b = (k - 1) * b + b
  BY <1>1
<1> QED BY <1>2, <1>3

(* Block k of what was accumulated *)
PieceOf(s, k) == [i \in 1 .. Block |-> s[(k - 1) * Block + i]]

(* The blocks are s up to its last whole one, and the buffer has the rest. *)
Cut(blocks, buffer, s) ==
  /\ DOMAIN buffer = 1 .. Block
  /\ blocks = [k \in 1 .. Len(s) \div Block |-> PieceOf(s, k)]
  /\ \A i \in 1 .. Len(s) % Block : buffer[i] = s[(Len(s) \div Block) * Block + i]

(* What comes later changes no block. *)
LEMMA PieceStays ==
  ASSUME NEW V, NEW s \in Seq(V), NEW input \in Seq(V), NEW q \in Nat, q * Block <= Len(s),
         NEW k \in 1 .. q
  PROVE  PieceOf(s \o input, k) = PieceOf(s, k)
<1>1. Block \in Nat
  BY Md5Constants
<1>2. (k - 1) * Block \in Nat /\ (k - 1) * Block + Block <= q * Block
  BY <1>1, RowsWithin
<1>3. Len(s) \in Nat /\ q * Block \in Nat
  BY <1>1
<1> DEFINE a == (k - 1) * Block
<1>4. \A i \in 1 .. Block : (s \o input)[a + i] = s[a + i]
  <2> SUFFICES ASSUME NEW i \in 1 .. Block PROVE (s \o input)[a + i] = s[a + i]
    OBVIOUS
  <2>1. a + i \in 1 .. Len(s)
    <3> DEFINE p == q * Block
    <3>1. a \in Nat /\ p \in Nat /\ a + Block <= p /\ p <= Len(s)
      BY <1>2, <1>3
    <3> HIDE DEF a, p
    <3> QED BY <1>1, <1>3, <3>1
  <2> HIDE DEF a
  <2> QED BY <2>1
<1> QED BY <1>4 DEF PieceOf

LEMMA LengthDivided ==
  ASSUME NEW n \in Nat
  PROVE  /\ n \div Block \in Nat /\ n % Block \in 0 .. Block - 1
         /\ (n \div Block) * Block \in Nat /\ n = (n \div Block) * Block + (n % Block)
<1>1. Block \in Nat \ {0} /\ n \in Int
  BY Md5Constants
<1> DEFINE b == Block
           q == n \div b
           r == n % b
<1>2. q \in Int /\ r \in 0 .. b - 1 /\ n = b * q + r
  <2>1. b \in Nat \ {0}
    BY <1>1
  <2> HIDE DEF b
  <2> QED BY <1>1, <2>1, DivMod, ModRange
<1> HIDE DEF q, r
<1>3. q \in Nat
  <2>1. ASSUME q < 0 PROVE FALSE
    <3>1. b * q <= 0 - b
      <4>1. b * (0 - q - 1) \in Nat
        <5>1. 0 - q - 1 \in Nat
          BY <1>2, <2>1
        <5> QED BY <1>1, <5>1
      <4>2. b * (0 - q - 1) = 0 - b * q - b
        BY <1>1, <1>2
      <4>3. b * q \in Int
        BY <1>1, <1>2
      <4> QED BY <1>1, <4>1, <4>2, <4>3
    <3>2. b * q \in Int
      BY <1>1, <1>2
    <3> QED BY <1>1, <1>2, <3>1, <3>2
  <2> QED BY <1>2, <2>1
<1>4. q * b \in Nat /\ q * b = b * q
  BY <1>1, <1>3
<1> QED BY <1>2, <1>3, <1>4 DEF q, r

LEMMA DividedBy ==
  ASSUME NEW q \in Nat, NEW r \in 0 .. Block - 1
  PROVE  (q * Block + r) \div Block = q /\ (q * Block + r) % Block = r /\ q * Block + r \in Nat
<1>1. Block \in Nat \ {0} /\ q \in Int /\ q * Block = Block * q /\ q * Block \in Nat
  BY Md5Constants
<1> QED BY <1>1, DivUnique

(* A piece that does not fill the block *)
LEMMA CutLess ==
  ASSUME NEW V, NEW s \in Seq(V), NEW input \in Seq(V), NEW blocks, NEW buffer, Cut(blocks, buffer, s),
         NEW x, x = Len(s) % Block, Len(input) < Block - x
  PROVE  Cut(blocks, Digest!Buffered(buffer, x, input), s \o input)
<1> DEFINE n == Len(input)
           q == Len(s) \div Block
           a == q * Block
           t == s \o input
           new == Digest!Buffered(buffer, x, input)
<1>1. Block \in Nat \ {0} /\ n \in Nat /\ Len(s) \in Nat /\ DOMAIN input = 1 .. n
  BY Md5Constants
<1>2. q \in Nat /\ x \in 0 .. Block - 1 /\ a \in Nat /\ Len(s) = a + x
  BY <1>1, LengthDivided
<1>3. Len(t) = a + (x + n) /\ x + n \in 0 .. Block - 1
  BY <1>1, <1>2
<1>4. Len(t) \div Block = q /\ Len(t) % Block = x + n
  <2>1. (a + (x + n)) \div Block = q /\ (a + (x + n)) % Block = x + n
    BY <1>2, <1>3, DividedBy
  <2> HIDE DEF t, a, n, q
  <2> QED BY <1>3, <2>1
<1>5. \A k \in 1 .. q : PieceOf(t, k) = PieceOf(s, k)
  <2>1. q * Block <= Len(s)
    BY <1>2
  <2> HIDE DEF q
  <2> QED BY <1>2, <2>1, PieceStays
<1>6. blocks = [k \in 1 .. q |-> PieceOf(s, k)]
  BY DEF Cut
<1>7. \A i \in 1 .. x : buffer[i] = s[a + i]
  BY DEF Cut
<1>8. \A i \in 1 .. x + n : new[i] = t[a + i]
  <2> SUFFICES ASSUME NEW i \in 1 .. x + n PROVE new[i] = t[a + i]
    OBVIOUS
  <2>1. i \in 1 .. Block
    BY <1>1, <1>3
  <2>2. new[i] = IF i - x \in 1 .. n THEN input[i - x] ELSE buffer[i]
    BY <1>1, <2>1 DEF Digest!Buffered
  <2>3. CASE i <= x
    <3>1. ~(i - x \in 1 .. n) /\ i \in 1 .. x /\ a + i \in 1 .. Len(s)
      BY <1>2, <2>3
    <3>2. t[a + i] = s[a + i]
      <4> HIDE DEF a
      <4> QED BY <3>1
    <3> QED BY <1>7, <2>2, <3>1, <3>2
  <2>4. CASE ~(i <= x)
    <3>1. i - x \in 1 .. n /\ a + i \in Len(s) + 1 .. Len(s) + n /\ (a + i) - Len(s) = i - x
      BY <1>1, <1>2, <2>4
    <3>2. t[a + i] = input[(a + i) - Len(s)]
      <4> HIDE DEF a
      <4> QED BY <1>1, <3>1
    <3> QED BY <2>2, <3>1, <3>2
  <2> QED BY <2>3, <2>4
<1>9. DOMAIN new = 1 .. Block
  BY DEF Digest!Buffered
<1>10. blocks = [k \in 1 .. q |-> PieceOf(t, k)]
  BY <1>5, <1>6
<1> HIDE DEF q, a, t, new, n
<1>11. /\ blocks = [k \in 1 .. Len(t) \div Block |-> PieceOf(t, k)]
       /\ \A i \in 1 .. Len(t) % Block : new[i] = t[(Len(t) \div Block) * Block + i]
  BY <1>4, <1>8, <1>10 DEF a
<1>12. Cut(blocks, new, t)
  BY <1>9, <1>11 DEF Cut
<1> QED BY <1>12 DEF new, t


LEMMA JoinedBlocks ==
  ASSUME NEW X, NEW q \in Nat, NEW w \in Nat, NEW g \in [1 .. q + 1 + w -> X],
         NEW f, f = [k \in 1 .. q |-> g[k]], NEW e, e = g[q + 1],
         NEW rest, rest = [k \in 1 .. w |-> g[q + 1 + k]]
  PROVE  Append(f, e) \o rest = g
<1>1. \A k \in 1 .. q : k \in 1 .. q + 1 + w
  OBVIOUS
<1>2. \A k \in 1 .. w : q + 1 + k \in 1 .. q + 1 + w
  OBVIOUS
<1>3. q + 1 \in 1 .. q + 1 + w
  OBVIOUS
<1>4. f \in [1 .. q -> X] /\ rest \in [1 .. w -> X] /\ e \in X
  BY <1>1, <1>2, <1>3
<1>5. f \in Seq(X) /\ Len(f) = q /\ rest \in Seq(X) /\ Len(rest) = w
  BY <1>4, FunctionIsSeq
<1> DEFINE h == Append(f, e)
<1>6. /\ h \in Seq(X) /\ Len(h) = q + 1
      /\ \A i \in 1 .. q + 1 : h[i] = IF i <= q THEN f[i] ELSE e
  BY <1>4, <1>5, AppendFacts
<1> HIDE DEF h
<1> DEFINE r == h \o rest
           l == q + 1 + w
<1>7. /\ r \in Seq(X) /\ Len(r) = Len(h) + Len(rest)
      /\ \A c \in 1 .. Len(h) : r[c] = h[c]
      /\ \A c \in Len(h) + 1 .. Len(h) + Len(rest) : r[c] = rest[c - Len(h)]
  <2>1. h \in Seq(X) /\ rest \in Seq(X)
    BY <1>5, <1>6
  <2> QED BY <2>1, JoinedAt, Zenon
<1> HIDE DEF r
<1>8. ASSUME NEW i \in 1 .. q + 1 + w
      PROVE  r[i] = g[i]
  <2>1. CASE i <= q
    <3>1. i \in 1 .. q /\ i \in 1 .. q + 1 /\ i <= q + 1
      BY <2>1
    <3> QED BY <1>6, <1>7, <2>1, <3>1
  <2>2. CASE i = q + 1
    <3>1. i \in 1 .. q + 1 /\ ~(i <= q)
      BY <2>2
    <3> QED BY <1>6, <1>7, <2>2, <3>1
  <2>3. CASE i > q + 1
    <3>1. i - (q + 1) \in 1 .. w /\ q + 1 + (i - (q + 1)) = i /\ i \in (q + 1) + 1 .. (q + 1) + w
      BY <2>3
    <3>2. r[i] = rest[i - (q + 1)]
      BY <1>5, <1>6, <1>7, <3>1
    <3> QED BY <3>1, <3>2
  <2> QED BY <2>1, <2>2, <2>3
<1>9. l \in Nat /\ Len(r) = l
  BY <1>5, <1>6, <1>7
<1>10. r = [i \in 1 .. l |-> r[i]]
  <2> HIDE DEF l
  <2> QED BY <1>7, <1>9, SeqAsFunction
<1>11. g = [i \in 1 .. l |-> g[i]]
  OBVIOUS
<1>12. r = g
  BY <1>8, <1>10, <1>11
<1> QED BY <1>12 DEF r, h

(* What bscl_md5_accumulate works out for a piece that fills the block, and *)
(* maybe others                                                            *)
Filling(s, input, buffer, x, room, n, whole, first, rest) ==
  /\ x = Len(s) % Block /\ room = Block - x /\ n = Len(input) /\ n >= room
  /\ whole = (n - room) \div Block
  /\ first = Digest!Buffered(buffer, x, SubSeq(input, 1, room))
  /\ rest = [k \in 1 .. whole |-> SubSeq(input, room + (k - 1) * Block + 1, room + k * Block)]

LEMMA CutMore ==
  ASSUME NEW V, NEW s \in Seq(V), NEW input \in Seq(V), NEW blocks, NEW buffer, Cut(blocks, buffer, s),
         NEW x, NEW room, NEW n, NEW whole, NEW first, NEW rest,
         Filling(s, input, buffer, x, room, n, whole, first, rest)
  PROVE  Cut(Append(blocks, first) \o rest,
             Digest!Buffered(first, 0, SubSeq(input, room + whole * Block + 1, n)), s \o input)
<1> DEFINE q == Len(s) \div Block
           a == q * Block
           t == s \o input
           y == (n - room) % Block
           p == whole * Block
           z == room + p
<1>1. Block \in Nat \ {0} /\ n \in Nat /\ Len(s) \in Nat /\ n = Len(input)
  <2>1. n = Len(input)
    BY DEF Filling
  <2>2. Len(input) \in Nat /\ Len(s) \in Nat
    OBVIOUS
  <2> QED BY <2>1, <2>2, Md5Constants
<1>2. q \in Nat /\ x \in 0 .. Block - 1 /\ a \in Nat /\ Len(s) = a + x
  BY <1>1, LengthDivided DEF Filling
<1>3. room \in 1 .. Block /\ n - room \in Nat /\ Len(s) + room = a + Block
  <2>1. room = Block - x /\ n >= room
    BY DEF Filling
  <2> HIDE DEF a
  <2> QED BY <1>1, <1>2, <2>1
<1>4. /\ whole \in Nat /\ y \in 0 .. Block - 1 /\ p \in Nat /\ n - room = p + y
      /\ z \in Nat /\ n = z + y
  <2>1. whole \in Nat /\ y \in 0 .. Block - 1 /\ p \in Nat /\ n - room = p + y
    BY <1>3, LengthDivided DEF Filling
  <2> HIDE DEF p, y
  <2> QED BY <1>1, <1>3, <2>1
<1>5. Len(t) = (q + 1 + whole) * Block + y
  <2>1. (q + 1 + whole) * Block = a + Block + p
    BY <1>1, <1>2, <1>4
  <2>2. Len(t) = Len(s) + n
    BY <1>1
  <2> HIDE DEF t, a, p, y, q
  <2> QED BY <1>1, <1>2, <1>3, <1>4, <2>1, <2>2
<1>6. Len(t) \div Block = q + 1 + whole /\ Len(t) % Block = y
  <2>1. q + 1 + whole \in Nat
    BY <1>2, <1>4
  <2> HIDE DEF t, q, y
  <2> QED BY <1>4, <1>5, <2>1, DividedBy
<1>7. /\ \A j \in 1 .. Len(s) : t[j] = s[j]
      /\ \A j \in 1 .. n : t[Len(s) + j] = input[j]
  <2>1. \A j \in 1 .. Len(s) : t[j] = s[j]
    OBVIOUS
  <2>2. ASSUME NEW j \in 1 .. n PROVE t[Len(s) + j] = input[j]
    <3>1. Len(s) + j \in Len(s) + 1 .. Len(s) + n /\ (Len(s) + j) - Len(s) = j
      BY <1>1
    <3> QED BY <1>1, <3>1
  <2> QED BY <2>1, <2>2
<1>8. /\ \A k \in 1 .. q : PieceOf(t, k) = PieceOf(s, k)
      /\ blocks = [k \in 1 .. q |-> PieceOf(s, k)] /\ \A i \in 1 .. x : buffer[i] = s[a + i]
  <2>1. q * Block <= Len(s)
    BY <1>2
  <2>2. \A k \in 1 .. q : PieceOf(t, k) = PieceOf(s, k)
    <3> HIDE DEF q
    <3> QED BY <1>2, <2>1, PieceStays
  <2> QED BY <2>2 DEF Cut, Filling
<1> HIDE DEF t, q, y, p, a
<1> HIDE DEF z
<1>9. first = PieceOf(t, q + 1)
  <2>1. SubSeq(input, 1, room) = [i \in 1 .. room |-> input[i]]
    <3>1. room \in 0 .. Len(input)
      <4>1. n >= room
        BY DEF Filling
      <4> QED BY <1>1, <1>3, <4>1
    <3> QED BY <3>1, PrefixFacts
  <2>2. first = [i \in 1 .. Block |-> IF i - x \in 1 .. room THEN input[i - x] ELSE buffer[i]]
    BY <2>1 DEF Digest!Buffered, Filling
  <2>3. ASSUME NEW i \in 1 .. Block
        PROVE  t[a + i] = IF i - x \in 1 .. room THEN input[i - x] ELSE buffer[i]
    <3>1. CASE i <= x
      <4>1. ~(i - x \in 1 .. room) /\ i \in 1 .. x /\ a + i \in 1 .. Len(s)
        BY <1>1, <1>2, <3>1
      <4> QED BY <1>7, <1>8, <4>1
    <3>2. CASE i > x
      <4>1. i - x \in 1 .. room /\ i - x \in 1 .. n /\ a + i = Len(s) + (i - x)
        <5>1. room = Block - x /\ n >= room
          BY DEF Filling
        <5> QED BY <1>1, <1>2, <1>3, <3>2, <5>1
      <4> QED BY <1>7, <4>1
    <3> QED BY <1>1, <1>2, <3>1, <3>2
  <2>4. ((q + 1) - 1) * Block = a
    BY <1>1, <1>2 DEF a
  <2> QED BY <2>2, <2>3, <2>4 DEF PieceOf
<1>10. ASSUME NEW k \in 1 .. whole
       PROVE  SubSeq(input, room + (k - 1) * Block + 1, room + k * Block) = PieceOf(t, q + 1 + k)
  <2> DEFINE r == (k - 1) * Block
             b == room + r
  <2>1. r \in Nat /\ r + Block <= p /\ k * Block = r + Block
    BY <1>1, <1>4, RowsWithin DEF p
  <2>2. ((q + 1 + k) - 1) * Block = a + Block + r
    BY <1>1, <1>2 DEF a
  <2> HIDE DEF r
  <2>3. b \in Nat /\ b + Block <= n /\ room + k * Block = b + Block
    BY <1>1, <1>3, <1>4, <2>1 DEF z
  <2>4. SubSeq(input, b + 1, b + Block) = [i \in 1 .. Block |-> input[b + i]]
    <3> HIDE DEF b
    <3> QED BY <1>1, <2>3, Window
  <2>5. ASSUME NEW i \in 1 .. Block PROVE t[a + Block + r + i] = input[b + i]
    <3>1. b + i \in 1 .. n /\ a + Block + r + i = Len(s) + (b + i)
      BY <1>1, <1>2, <1>3, <2>1, <2>3
    <3> QED BY <1>7, <3>1
  <2>6. SubSeq(input, room + r + 1, room + k * Block) = [i \in 1 .. Block |-> t[a + Block + r + i]]
    BY <2>3, <2>4, <2>5
  <2> QED BY <2>2, <2>6 DEF PieceOf, r
<1> DEFINE g == [k \in 1 .. q + 1 + whole |-> PieceOf(t, k)]
           X == {PieceOf(t, k) : k \in 1 .. q + 1 + whole}
<1>11. Append(blocks, first) \o rest = g
  <2>1. g \in [1 .. q + 1 + whole -> X] /\ \A k \in 1 .. q + 1 + whole : g[k] = PieceOf(t, k)
    OBVIOUS
  <2>2. \A k \in 1 .. q : k \in 1 .. q + 1 + whole
    BY <1>2, <1>4
  <2>3. \A k \in 1 .. whole : q + 1 + k \in 1 .. q + 1 + whole
    BY <1>2, <1>4
  <2>4. q + 1 \in 1 .. q + 1 + whole
    BY <1>2, <1>4
  <2> HIDE DEF g, X
  <2>5. blocks = [k \in 1 .. q |-> g[k]]
    BY <1>8, <2>1, <2>2
  <2>6. rest = [k \in 1 .. whole |-> g[q + 1 + k]]
    BY <1>10, <2>1, <2>3 DEF Filling
  <2>7. first = g[q + 1]
    BY <1>9, <2>1, <2>4
  <2> QED BY <1>2, <1>4, <2>1, <2>5, <2>6, <2>7, JoinedBlocks
<1> DEFINE new == Digest!Buffered(first, 0, SubSeq(input, z + 1, n))
<1>12. \A i \in 1 .. y : new[i] = t[(q + 1 + whole) * Block + i]
  <2>1. (q + 1 + whole) * Block = a + Block + p
    BY <1>1, <1>2, <1>4 DEF a, p
  <2> HIDE DEF z
  <2>2. SubSeq(input, z + 1, n) = [i \in 1 .. y |-> input[z + i]]
    <3>1. SubSeq(input, z + 1, z + y) = [i \in 1 .. y |-> input[z + i]]
      <4>1. y \in Nat /\ z + y <= Len(input)
        BY <1>1, <1>4
      <4> QED BY <1>4, <4>1, Window
    <3> QED BY <1>4, <3>1
  <2>3. new = [i \in 1 .. Block |-> IF i - 0 \in 1 .. y THEN input[z + (i - 0)] ELSE first[i]]
    BY <2>2 DEF Digest!Buffered
  <2> HIDE DEF new
  <2>4. ASSUME NEW i \in 1 .. y PROVE new[i] = t[a + Block + p + i]
    <3>1. i \in 1 .. Block /\ i - 0 \in 1 .. y /\ z + (i - 0) = z + i
      BY <1>1, <1>4
    <3>2. z + i \in 1 .. n /\ a + Block + p + i = Len(s) + (z + i)
      BY <1>1, <1>2, <1>3, <1>4 DEF z
    <3> QED BY <1>7, <2>3, <3>1, <3>2
  <2> QED BY <2>1, <2>4
<1>13. DOMAIN new = 1 .. Block
  BY DEF Digest!Buffered
<1> HIDE DEF new, g
<1>14. Cut(g, new, t)
  BY <1>6, <1>12, <1>13 DEF Cut, g
<1> QED BY <1>11, <1>14 DEF new, z, p, t


(* Put together again, the blocks are what they were cut from. *)
LEMMA FlattenedCut ==
  ASSUME NEW V, NEW s \in Seq(V), NEW n \in Nat, NEW blocks, blocks = [k \in 1 .. n |-> PieceOf(s, k)],
         n * Block <= Len(s)
  PROVE  Digest!FlattenSeq(blocks) = [i \in 1 .. n * Block |-> s[i]]
<1> DEFINE X == {PieceOf(s, k) : k \in 1 .. n}
           upto(k) == [i \in 1 .. k * Block |-> s[i]]
           steps(g) == [k \in 1 .. Len(blocks) |-> IF k = 1 THEN blocks[k] ELSE g[k - 1] \o blocks[k]]
           flatten == CHOOSE g : g = steps(g)
<1>1. Block \in Nat \ {0} /\ Len(s) \in Nat
  BY Md5Constants
<1>2. Len(blocks) = n /\ \A k \in 1 .. n : blocks[k] = PieceOf(s, k)
  <2>1. blocks \in [1 .. n -> X]
    OBVIOUS
  <2> HIDE DEF X
  <2>2. Len(blocks) = n
    BY <2>1, FunctionIsSeq
  <2> QED BY <2>2
<1>3. CASE n = 0
  <2>1. Len(blocks) = 0 /\ n * Block = 0
    BY <1>1, <1>2, <1>3
  <2>2. Digest!FlattenSeq(blocks) = blocks
    BY <2>1 DEF Digest!FlattenSeq
  <2>3. blocks = << >>
    BY <1>3
  <2>4. [i \in 1 .. 0 |-> s[i]] = << >>
    OBVIOUS
  <2> QED BY <2>1, <2>2, <2>3, <2>4
<1>4. CASE n # 0
  <2>1. Len(blocks) # 0
    BY <1>2, <1>4
  <2>2. Digest!FlattenSeq(blocks) = flatten[Len(blocks)]
    BY <2>1 DEF Digest!FlattenSeq
  <2>3. ASSUME NEW k \in 2 .. n PROVE upto(k - 1) \o blocks[k] = upto(k)
    <3> DEFINE r == (k - 1) * Block
               w == k * Block
               u == upto(k - 1)
               v == blocks[k]
    <3>1. r \in Nat /\ w = r + Block /\ w \in Nat /\ w <= Len(s)
      <4>1. k \in 1 .. n /\ n * Block \in Nat
        BY <1>1
      <4>2. r \in Nat /\ r + Block <= n * Block /\ w = r + Block
        BY <1>1, <4>1, RowsWithin
      <4> HIDE DEF r, w
      <4> QED BY <1>1, <4>1, <4>2
    <3>2. \A i \in 1 .. Len(s) : s[i] \in V
      OBVIOUS
    <3>3. u \in [1 .. r -> V] /\ \A i \in 1 .. r : u[i] = s[i]
      <4> HIDE DEF r
      <4>1. \A i \in 1 .. r : s[i] \in V
        BY <1>1, <3>1, <3>2
      <4> QED BY <4>1 DEF r
    <3>4. v \in [1 .. Block -> V] /\ \A i \in 1 .. Block : v[i] = s[r + i]
      <4>1. v = [i \in 1 .. Block |-> s[r + i]]
        BY <1>2 DEF PieceOf
      <4> HIDE DEF v, r
      <4>2. \A i \in 1 .. Block : r + i \in 1 .. Len(s)
        BY <1>1, <3>1
      <4> QED BY <3>2, <4>1, <4>2
    <3> HIDE DEF u, v, r, w
    <3>5. u \in Seq(V) /\ Len(u) = r /\ v \in Seq(V) /\ Len(v) = Block
      BY <1>1, <3>1, <3>3, <3>4, FunctionIsSeq
    <3> DEFINE z == u \o v
    <3>6. /\ z \in Seq(V) /\ Len(z) = Len(u) + Len(v)
          /\ \A c \in 1 .. Len(u) : z[c] = u[c]
          /\ \A c \in Len(u) + 1 .. Len(u) + Len(v) : z[c] = v[c - Len(u)]
      BY <3>5, JoinedAt, Zenon
    <3> HIDE DEF z
    <3>7. z = [i \in 1 .. w |-> z[i]]
      <4>1. Len(z) = w
        BY <1>1, <3>1, <3>5, <3>6
      <4> QED BY <3>1, <3>6, <4>1, SeqAsFunction
    <3>8. ASSUME NEW i \in 1 .. w PROVE z[i] = s[i]
      <4>1. CASE i <= r
        <5>1. i \in 1 .. r
          BY <4>1
        <5> QED BY <3>3, <3>5, <3>6, <5>1
      <4>2. CASE i > r
        <5>1. i - r \in 1 .. Block /\ r + (i - r) = i /\ i \in r + 1 .. r + Block
          BY <1>1, <3>1, <4>2
        <5> QED BY <3>4, <3>5, <3>6, <5>1
      <4> QED BY <3>1, <4>1, <4>2
    <3>9. z = [i \in 1 .. w |-> s[i]]
      BY <3>7, <3>8
    <3> QED BY <3>9 DEF z, u, v, w
  <2>4. blocks[1] = upto(1)
    <3>1. 1 \in 1 .. n /\ (1 - 1) * Block = 0 /\ 1 * Block = Block /\ \A i \in 1 .. Block : 0 + i = i
      BY <1>1, <1>4
    <3> QED BY <1>2, <3>1 DEF PieceOf
  <2> HIDE DEF upto
  <2> DEFINE f == [k \in 1 .. n |-> upto(k)]
  <2>5. f = steps(f)
    <3>1. ASSUME NEW k \in 1 .. n
          PROVE  upto(k) = IF k = 1 THEN blocks[k] ELSE f[k - 1] \o blocks[k]
      <4>1. CASE k = 1
        BY <2>4, <4>1
      <4>2. CASE k # 1
        <5>1. k \in 2 .. n /\ k - 1 \in 1 .. n
          BY <4>2
        <5>2. f[k - 1] = upto(k - 1)
          BY <5>1
        <5> QED BY <2>3, <4>2, <5>1, <5>2
      <4> QED BY <4>1, <4>2
    <3> QED BY <1>2, <3>1
  <2>6. flatten = steps(flatten)
    <3> HIDE DEF f, steps
    <3>1. \E g : g = steps(g)
      BY <2>5
    <3> QED BY <3>1
  <2> HIDE DEF flatten, f
  <2>7. \A k \in 1 .. n : flatten[k] = IF k = 1 THEN blocks[k] ELSE flatten[k - 1] \o blocks[k]
    BY <1>2, <2>6
  <2> HIDE DEF steps
  <2> DEFINE H == {k \in 0 .. n : k = 0 \/ flatten[k] = upto(k)}
  <2>8. 0 \in H
    OBVIOUS
  <2>9. ASSUME NEW k \in 1 .. n, k - 1 \in H PROVE k \in H
    <3>1. CASE k = 1
      BY <2>4, <2>7, <3>1
    <3>2. CASE k # 1
      <4>1. k \in 2 .. n /\ flatten[k - 1] = upto(k - 1)
        BY <2>9, <3>2
      <4>2. flatten[k] = flatten[k - 1] \o blocks[k]
        BY <2>7, <3>2
      <4>3. upto(k - 1) \o blocks[k] = upto(k)
        BY <2>3, <4>1
      <4>4. flatten[k] = upto(k)
        BY <4>1, <4>2, <4>3
      <4> QED BY <4>4
    <3> QED BY <3>1, <3>2
  <2> HIDE DEF H
  <2>10. 0 .. n \subseteq H
    BY <2>8, <2>9, UpTo
  <2>11. n \in H
    BY <2>10
  <2>12. flatten[n] = upto(n)
    BY <1>4, <2>11 DEF H
  <2> QED BY <1>2, <2>2, <2>12 DEF upto
<1> QED BY <1>3, <1>4

Md5Is(m, count, buffer, blocks, done) ==
  m = [count |-> count, buffer |-> buffer, blocks |-> blocks, done |-> done]

(* A call accumulates its input. *)
LEMMA AccumulatedCut ==
  ASSUME NEW V, NEW s \in Seq(V), NEW input \in Seq(V), NEW m, NEW count, NEW buffer, NEW blocks,
         NEW done, Md5Is(m, count, buffer, blocks, done), Cut(blocks, buffer, s),
         count = LengthOf(Len(s)), NEW r, r = Digest!Accumulated(m, input)
  PROVE  \E u, b : /\ Md5Is(r, LengthOf(Len(s) + Len(input)), u, b, done)
                   /\ Cut(b, u, s \o input)
<1> DEFINE n == Len(input)
           x == Digest!Index(count)
           room == Block - x
           whole == (n - room) \div Block
           first == Digest!Buffered(buffer, x, SubSeq(input, 1, room))
           rest == [k \in 1 .. whole |-> SubSeq(input, room + (k - 1) * Block + 1, room + k * Block)]
           new == Digest!Counted(count, n)
           less == Digest!Buffered(buffer, x, input)
           more == Digest!Buffered(first, 0, SubSeq(input, room + whole * Block + 1, n))
           joined == Append(blocks, first) \o rest
<1>1. x = Len(s) % Block /\ new = LengthOf(Len(s) + n) /\ n \in Nat
  <2>1. Len(s) \in Nat /\ n \in Nat
    OBVIOUS
  <2> QED BY <2>1, IndexOfLength, CountedLength
<1>2. m.count = count /\ m.buffer = buffer /\ m.blocks = blocks /\ m.done = done
  BY DEF Md5Is
<1>3. r = IF n < room THEN [[m EXCEPT !.count = new] EXCEPT !.buffer = less]
          ELSE [[m EXCEPT !.count = new] EXCEPT !.blocks = joined, !.buffer = more]
  <2>1. [m EXCEPT !.count = new].buffer = buffer /\ [m EXCEPT !.count = new].blocks = blocks
    BY <1>2 DEF Md5Is
  <2> HIDE DEF new, less, more, joined
  <2> QED BY <1>2, <2>1 DEF Digest!Accumulated, new, less, more, joined
<1> HIDE DEF new, x
<1>4. CASE n < room
  <2>1. Cut(blocks, less, s \o input)
    <3>1. n < Block - x
      BY <1>4
    <3> QED BY <1>1, <3>1, CutLess
  <2> HIDE DEF less, room
  <2>2. Md5Is(r, new, less, blocks, done)
    BY <1>3, <1>4 DEF Md5Is
  <2> QED BY <1>1, <2>1, <2>2
<1>5. CASE ~(n < room)
  <2>1. Filling(s, input, buffer, x, room, n, whole, first, rest)
    <3>1. n >= room
      <4>1. Block \in Nat \ {0} /\ Len(s) \in Nat
        BY Md5Constants
      <4>2. x \in Int
        BY <1>1, <4>1, ModRange
      <4> QED BY <1>1, <1>5, <4>1, <4>2
    <3> HIDE DEF n
    <3> QED BY <1>1, <3>1 DEF Filling, n
  <2> HIDE DEF whole, first, rest, room, n
  <2>2. Cut(joined, more, s \o input)
    BY <2>1, CutMore, Zenon
  <2> HIDE DEF joined, more
  <2>3. Md5Is(r, new, more, joined, done)
    BY <1>3, <1>5 DEF Md5Is
  <2> QED BY <1>1, <2>2, <2>3 DEF n
<1> QED BY <1>4, <1>5

(* The first n bytes of a message *)
Counting(n) == [i \in 1 .. n |-> i]

(* What is hashed of a message of n bytes *)
ZerosOf(n) == CHOOSE z \in 0 .. Block - 1 : (n + 1 + z + 2 * Word) % Block = 0
HashedOf(n) == Counting(n) \o Digest!Padding(1 + ZerosOf(n)) \o Digest!Encode(LengthOf(n))

(* The bytes there are when count is written down *)
BytesOf(count) == Int \cup {"mark", "zero"} \cup {Digest!Encode(count)[i] : i \in 1 .. 2 * Word}

LEMMA InputBytes ==
  ASSUME NEW count, NEW a \in Nat, NEW n \in Nat
  PROVE  /\ [i \in 1 .. n |-> a + i] \in Seq(BytesOf(count)) /\ Len([i \in 1 .. n |-> a + i]) = n
         /\ Counting(n) \in Seq(BytesOf(count)) /\ Len(Counting(n)) = n
         /\ Digest!Padding(n) \in Seq(BytesOf(count)) /\ Len(Digest!Padding(n)) = n
         /\ Digest!Encode(count) \in Seq(BytesOf(count)) /\ Len(Digest!Encode(count)) = 2 * Word
<1> DEFINE V == BytesOf(count)
           f == [i \in 1 .. n |-> a + i]
           g == Counting(n)
           h == Digest!Padding(n)
           e == Digest!Encode(count)
<1>1. f \in [1 .. n -> V] /\ g \in [1 .. n -> V]
  BY DEF Counting, BytesOf
<1>2. h \in [1 .. n -> V]
  BY DEF Digest!Padding, BytesOf
<1>3. e \in [1 .. 2 * Word -> V]
  <2>1. e = [i \in 1 .. 2 * Word |-> e[i]]
    BY DEF Digest!Encode
  <2>2. \A i \in 1 .. 2 * Word : e[i] \in V
    BY DEF BytesOf
  <2> HIDE DEF e, V
  <2> QED BY <2>1, <2>2
<1>4. 2 * Word \in Nat
  BY Md5Constants
<1> HIDE DEF V, f, g, h, e
<1>5. f \in Seq(V) /\ Len(f) = n /\ g \in Seq(V) /\ Len(g) = n /\ h \in Seq(V) /\ Len(h) = n
  BY <1>1, <1>2, FunctionIsSeq
<1>6. e \in Seq(V) /\ Len(e) = 2 * Word
  BY <1>3, <1>4, FunctionIsSeq
<1> QED BY <1>5, <1>6 DEF V, f, g, h, e

(* The padding leaves room for the length at the end of a block, and is as *)
(* short as that allows.                                                   *)
LEMMA Padded ==
  ASSUME NEW n \in Nat, NEW p, p = Digest!PadLen(n % Block)
  PROVE  /\ p \in 1 .. Block /\ p = 1 + ZerosOf(n)
         /\ \E k \in Nat : n + p + 2 * Word = k * Block
<1> DEFINE B == Block
           q == n \div B
           x == n % B
           w == 2 * Word
<1>1. B \in Nat \ {0} /\ w \in Nat \ {0} /\ w < B
  BY Md5Constants
<1>2. q \in Nat /\ x \in 0 .. B - 1 /\ n = q * B + x /\ q * B \in Nat
  BY LengthDivided
<1>3. p = IF x < B - w THEN B - w - x ELSE 2 * B - w - x
  BY DEF Digest!PadLen
<1> HIDE DEF q, x, w
<1>4. p \in 1 .. B
  <2> HIDE DEF B
  <2> QED BY <1>1, <1>2, <1>3
<1>5. \E k \in Nat : n + p + w = k * B
  <2> DEFINE y == q * B
  <2>1. (q + 1) * B = y + B /\ (q + 2) * B = y + 2 * B /\ y \in Nat /\ q + 1 \in Nat /\ q + 2 \in Nat
    BY <1>1, <1>2
  <2> HIDE DEF B, y
  <2>2. n + p + w = y + B \/ n + p + w = y + 2 * B
    BY <1>1, <1>2, <1>3 DEF y
  <2>3. n + p + w = (q + 1) * B \/ n + p + w = (q + 2) * B
    BY <2>1, <2>2
  <2> QED BY <2>1, <2>3
<1> DEFINE Z(z) == (n + 1 + z + w) % B = 0
<1>6. p - 1 \in 0 .. B - 1 /\ Z(p - 1)
  <2>1. PICK k \in Nat : n + p + w = k * B
    BY <1>5
  <2>2. (B * k + 0) % B = 0
    <3>1. 0 \in 0 .. B - 1 /\ k \in Int
      BY <1>1
    <3> HIDE DEF B
    <3> QED BY <1>1, <3>1, ModUnique
  <2>3. n + 1 + (p - 1) + w = B * k + 0
    <3>1. n + 1 + (p - 1) + w = n + p + w
      BY <1>1, <1>4
    <3>2. k * B = B * k + 0
      BY <1>1
    <3> QED BY <2>1, <3>1, <3>2
  <2> HIDE DEF B
  <2> QED BY <1>1, <1>4, <2>2, <2>3
<1>7. ASSUME NEW z \in 0 .. B - 1, Z(z) PROVE z = p - 1
  <2> DEFINE a == n + 1 + z + w
             j == a \div B
  <2>1. a \in Int /\ a % B = 0
    BY <1>1, <1>7
  <2>2. j \in Int /\ a = B * j
    <3> HIDE DEF a, B
    <3>1. a = B * j + (a % B) /\ j \in Int
      BY <1>1, <2>1, DivMod
    <3> HIDE DEF j
    <3>2. B * j \in Int
      BY <1>1, <3>1
    <3> QED BY <2>1, <3>1, <3>2
  <2>3. PICK k \in Nat : n + p + w = k * B
    BY <1>5
  <2> HIDE DEF j
  <2>4. B * (j - k) = z - (p - 1)
    <3>1. B * (j - k) = B * j - k * B
      BY <1>1, <2>2, <2>3
    <3>2. a = (n + p + w) + (z - (p - 1))
      BY <1>1, <1>4
    <3>3. n + p + w \in Int /\ z - (p - 1) \in Int
      BY <1>1, <1>4
    <3> DEFINE g == n + p + w
               h == z - (p - 1)
    <3>4. B * j = g + h /\ k * B = g /\ g \in Int /\ h \in Int
      BY <2>2, <2>3, <3>2, <3>3
    <3> HIDE DEF B, a, g, h
    <3>5. B * j - k * B = h
      BY <3>4
    <3> QED BY <3>1, <3>5 DEF h
  <2>5. j - k = 0
    <3> DEFINE d == j - k
    <3>1. d \in Int /\ B * d > 0 - B /\ B * d < B
      <4>1. d \in Int
        BY <2>2
      <4> HIDE DEF B, d
      <4>2. z - (p - 1) > 0 - B /\ z - (p - 1) < B
        BY <1>1, <1>4
      <4> QED BY <2>4, <4>1, <4>2 DEF d
    <3> HIDE DEF d
    <3>2. ~(d >= 1)
      <4> SUFFICES ASSUME d >= 1 PROVE FALSE
        OBVIOUS
      <4>1. B * (d - 1) \in Nat
        BY <1>1, <3>1
      <4>2. B * (d - 1) = B * d - B /\ B * d \in Int
        BY <1>1, <3>1
      <4> HIDE DEF B
      <4> QED BY <1>1, <3>1, <4>1, <4>2
    <3>3. ~(d <= 0 - 1)
      <4> SUFFICES ASSUME d <= 0 - 1 PROVE FALSE
        OBVIOUS
      <4>1. B * (0 - d - 1) \in Nat
        BY <1>1, <3>1
      <4>2. B * (0 - d - 1) = 0 - B * d - B /\ B * d \in Int
        BY <1>1, <3>1
      <4> HIDE DEF B
      <4> QED BY <1>1, <3>1, <4>1, <4>2
    <3> QED BY <3>1, <3>2, <3>3 DEF d
  <2>6. B * (j - k) = 0
    BY <1>1, <2>5
  <2> QED BY <1>4, <2>4, <2>6
<1>8. ZerosOf(n) = p - 1
  <2>1. ZerosOf(n) = CHOOSE z \in 0 .. B - 1 : Z(z)
    BY DEF ZerosOf, w
  <2> HIDE DEF Z
  <2> QED BY <1>6, <1>7, <2>1
<1> QED BY <1>4, <1>5, <1>8 DEF w

(* bscl_md5_finish: the blocks are those of the standard. *)
LEMMA Finishing ==
  ASSUME NEW n \in Nat, NEW m, NEW buffer, NEW blocks, Md5Is(m, LengthOf(n), buffer, blocks, FALSE),
         Cut(blocks, buffer, Counting(n)), NEW r, NEW l,
         r = Digest!Accumulated(m, Digest!Padding(Digest!PadLen(Digest!Index(m.count)))),
         l = Digest!Accumulated(r, Digest!Encode(m.count))
  PROVE  \E count, u, b : /\ Md5Is(l, count, u, b, FALSE)
                          /\ Digest!FlattenSeq(b) = HashedOf(n)
<1> DEFINE V == BytesOf(LengthOf(n))
           s == Counting(n)
           p == Digest!PadLen(n % Block)
           pad == Digest!Padding(p)
           code == Digest!Encode(LengthOf(n))
           t == s \o pad
           z == t \o code
           w == 2 * Word
<1>1. m.count = LengthOf(n) /\ Digest!Index(m.count) = n % Block
  BY IndexOfLength DEF Md5Is
<1>2. p \in 1 .. Block /\ p = 1 + ZerosOf(n) /\ \E k \in Nat : n + p + w = k * Block
  BY Padded
<1> HIDE DEF p
<1>3. p \in Nat /\ w \in Nat /\ Block \in Nat \ {0}
  BY <1>2, Md5Constants
<1>4. s \in Seq(V) /\ Len(s) = n /\ pad \in Seq(V) /\ Len(pad) = p /\ code \in Seq(V) /\ Len(code) = w
  BY <1>3, InputBytes
<1>5. r = Digest!Accumulated(m, pad) /\ l = Digest!Accumulated(r, code)
  BY <1>1 DEF p
<1> HIDE DEF V, s, pad, code, w
<1>6. t \in Seq(V) /\ Len(t) = n + p
  BY <1>3, <1>4
<1>7. z \in Seq(V) /\ Len(z) = n + p + w
  <2>1. z \in Seq(V) /\ Len(z) = Len(t) + Len(code)
    <3> HIDE DEF t
    <3> QED BY <1>4, <1>6, JoinedAt
  <2> HIDE DEF t, z
  <2> QED BY <1>3, <1>4, <1>6, <2>1
<1>8. \E u, b : Md5Is(r, LengthOf(Len(s) + Len(pad)), u, b, FALSE) /\ Cut(b, u, t)
  <2>1. LengthOf(n) = LengthOf(Len(s)) /\ Cut(blocks, buffer, s)
    BY <1>4 DEF s
  <2> QED BY <1>4, <1>5, <2>1, AccumulatedCut
<1>9. PICK u1, b1 : Md5Is(r, LengthOf(n + p), u1, b1, FALSE) /\ Cut(b1, u1, t)
  BY <1>4, <1>8
<1> HIDE DEF t
<1>10. \E u, b : Md5Is(l, LengthOf(Len(t) + Len(code)), u, b, FALSE) /\ Cut(b, u, z)
  <2>1. Md5Is(r, LengthOf(Len(t)), u1, b1, FALSE)
    BY <1>6, <1>9
  <2>2. LengthOf(n + p) = LengthOf(Len(t))
    BY <1>6
  <2> QED BY <1>4, <1>5, <1>6, <1>9, <2>1, <2>2, AccumulatedCut
<1>11. PICK count, u, b : Md5Is(l, count, u, b, FALSE) /\ Cut(b, u, z)
  BY <1>10
<1> HIDE DEF z
<1>12. Digest!FlattenSeq(b) = z
  <2>1. PICK k \in Nat : Len(z) = k * Block
    BY <1>2, <1>7
  <2>2. Len(z) \div Block = k
    <3>1. 0 \in 0 .. Block - 1
      BY <1>3
    <3>2. (k * Block + 0) \div Block = k
      BY <3>1, DividedBy
    <3>3. k * Block + 0 = k * Block
      BY <1>3
    <3> QED BY <2>1, <3>2, <3>3
  <2>3. b = [i \in 1 .. k |-> PieceOf(z, i)]
    BY <1>11, <2>2 DEF Cut
  <2>4. k * Block <= Len(z) /\ Len(z) \in Nat
    BY <1>7, <2>1
  <2>5. Digest!FlattenSeq(b) = [i \in 1 .. k * Block |-> z[i]]
    BY <1>7, <2>3, <2>4, FlattenedCut
  <2>6. z = [i \in 1 .. k * Block |-> z[i]]
    BY <1>7, <2>1, <2>4, SeqAsFunction
  <2> QED BY <2>5, <2>6
<1>13. z = HashedOf(n)
  BY <1>2 DEF z, t, s, pad, code, HashedOf
<1> QED BY <1>11, <1>12, <1>13

LEMMA CountingOn ==
  ASSUME NEW n \in Nat, NEW k \in Nat
  PROVE  Counting(n) \o [i \in 1 .. k |-> n + i] = Counting(n + k)
<1> DEFINE s == Counting(n)
           f == [i \in 1 .. k |-> n + i]
           V == BytesOf(0)
           t == s \o f
<1>1. s \in Seq(V) /\ Len(s) = n /\ f \in Seq(V) /\ Len(f) = k
  BY InputBytes
<1>2. (\A i \in 1 .. n : s[i] = i) /\ \A i \in 1 .. k : f[i] = n + i
  BY DEF Counting
<1> HIDE DEF s, f, V
<1>3. /\ t \in Seq(V) /\ Len(t) = Len(s) + Len(f)
      /\ \A c \in 1 .. Len(s) : t[c] = s[c]
      /\ \A c \in Len(s) + 1 .. Len(s) + Len(f) : t[c] = f[c - Len(s)]
  BY <1>1, JoinedAt, Zenon
<1> HIDE DEF t
<1>4. n + k \in Nat /\ Len(t) = n + k
  BY <1>1, <1>3
<1>5. t = [i \in 1 .. n + k |-> t[i]]
  BY <1>3, <1>4, SeqAsFunction
<1>6. ASSUME NEW i \in 1 .. n + k PROVE t[i] = i
  <2>1. CASE i <= n
    <3>1. i \in 1 .. n
      BY <2>1
    <3> QED BY <1>1, <1>2, <1>3, <3>1
  <2>2. CASE i > n
    <3>1. i \in n + 1 .. n + k /\ i - n \in 1 .. k /\ n + (i - n) = i
      BY <2>2
    <3> QED BY <1>1, <1>2, <1>3, <3>1
  <2> QED BY <2>1, <2>2
<1>7. t = Counting(n + k)
  BY <1>5, <1>6 DEF Counting
<1> QED BY <1>7 DEF t, s, f

(* The inductive invariant: until it is finished, the blocks and the buffer *)
(* are what the first n bytes are cut into.                                *)
Md5Good(m, n) ==
  \E count, buffer, blocks, done :
    /\ Md5Is(m, count, buffer, blocks, done) /\ done \in BOOLEAN /\ n \in 0 .. MaxBytes
    /\ ~done => count = LengthOf(n) /\ Cut(blocks, buffer, Counting(n))
    /\ done => Digest!FlattenSeq(blocks) = HashedOf(n)

Md5Inv == Md5Good(object, ghost)

LEMMA Md5Starts ==
  ASSUME Digest!Init
  PROVE  Md5Inv
<1> DEFINE buffer == [i \in 1 .. Block |-> "junk"]
<1>1. object = [count |-> <<0, 0>>, buffer |-> buffer, blocks |-> << >>, done |-> FALSE] /\ ghost = 0
  BY DEF Digest!Init
<1>2. Modulus \in Nat \ {0} /\ Block \in Nat \ {0} /\ 0 \in 0 .. MaxBytes
  BY Md5Constants
<1>3. <<0, 0>> = LengthOf(0)
  <2>1. 0 % Modulus = 0
    BY <1>2, ModSmall
  <2>2. 0 \div Modulus = 0
    <3>1. 0 \in 0 .. Modulus - 1 /\ Modulus * 0 + 0 = 0
      BY <1>2
    <3>2. (Modulus * 0 + 0) \div Modulus = 0
      BY <1>2, <3>1, DivUnique
    <3> QED BY <3>1, <3>2
  <2>3. 8 * 0 = 0
    OBVIOUS
  <2> QED BY <2>1, <2>2, <2>3 DEF LengthOf
<1>4. Cut(<< >>, buffer, Counting(0))
  <2>1. Len(Counting(0)) = 0
    BY InputBytes
  <2>2. 0 \div Block = 0 /\ 0 % Block = 0
    <3>1. 0 \in 0 .. Block - 1 /\ 0 * Block + 0 = 0
      BY <1>2
    <3>2. (0 * Block + 0) \div Block = 0 /\ (0 * Block + 0) % Block = 0
      BY <3>1, DividedBy
    <3> QED BY <3>1, <3>2
  <2>3. << >> = [k \in 1 .. 0 |-> PieceOf(Counting(0), k)]
    OBVIOUS
  <2> QED BY <2>1, <2>2, <2>3 DEF Cut
<1> HIDE DEF buffer
<1>5. Md5Is(object, <<0, 0>>, buffer, << >>, FALSE)
  BY <1>1 DEF Md5Is
<1>6. Md5Good(object, ghost)
  BY <1>1, <1>2, <1>3, <1>4, <1>5 DEF Md5Good
<1> QED BY <1>6 DEF Md5Inv

(* bscl_md5_accumulate *)
LEMMA Md5Accumulate ==
  ASSUME Md5Inv, NEW n \in Pieces, Digest!Accumulate(n)
  PROVE  Md5Good(object', ghost')
<1>1. PICK count, buffer, blocks, done :
        /\ Md5Is(object, count, buffer, blocks, done) /\ done \in BOOLEAN /\ ghost \in 0 .. MaxBytes
        /\ ~done => count = LengthOf(ghost) /\ Cut(blocks, buffer, Counting(ghost))
  BY DEF Md5Inv, Md5Good
<1> DEFINE input == [i \in 1 .. n |-> ghost + i]
           V == BytesOf(0)
<1>2. ~object.done /\ ghost + n <= MaxBytes /\ object' = Digest!Accumulated(object, input)
      /\ ghost' = ghost + n
  BY DEF Digest!Accumulate
<1>3. ~done
  BY <1>1, <1>2 DEF Md5Is
<1>4. n \in Nat /\ ghost \in Nat /\ ghost' \in 0 .. MaxBytes
  BY <1>1, <1>2, Md5Constants
<1>5. /\ Counting(ghost) \in Seq(V) /\ Len(Counting(ghost)) = ghost
      /\ input \in Seq(V) /\ Len(input) = n
  BY <1>4, InputBytes
<1>6. Counting(ghost) \o input = Counting(ghost')
  BY <1>2, <1>4, CountingOn
<1> HIDE DEF input, V
<1> DEFINE s == Counting(ghost)
<1>7. s \in Seq(V) /\ Len(s) = ghost /\ s \o input = Counting(ghost') /\ Cut(blocks, buffer, s)
      /\ count = LengthOf(Len(s))
  BY <1>1, <1>3, <1>5, <1>6
<1> HIDE DEF s
<1>8. PICK u, b : Md5Is(object', LengthOf(Len(s) + Len(input)), u, b, done) /\ Cut(b, u, s \o input)
  BY <1>1, <1>2, <1>5, <1>7, AccumulatedCut
<1>9. Md5Is(object', LengthOf(ghost'), u, b, done) /\ Cut(b, u, Counting(ghost'))
  BY <1>2, <1>5, <1>7, <1>8
<1> QED BY <1>1, <1>3, <1>4, <1>9 DEF Md5Good

(* bscl_md5_finish *)
LEMMA Md5Finish ==
  ASSUME Md5Inv, Digest!Finish
  PROVE  Md5Good(object', ghost')
<1>1. PICK count, buffer, blocks, done :
        /\ Md5Is(object, count, buffer, blocks, done) /\ done \in BOOLEAN /\ ghost \in 0 .. MaxBytes
        /\ ~done => count = LengthOf(ghost) /\ Cut(blocks, buffer, Counting(ghost))
  BY DEF Md5Inv, Md5Good
<1> DEFINE padded == Digest!Accumulated(object, Digest!Padding(Digest!PadLen(Digest!Index(object.count))))
           last == Digest!Accumulated(padded, Digest!Encode(object.count))
<1>2. ~object.done /\ object' = [last EXCEPT !.done = TRUE] /\ ghost' = ghost
  BY DEF Digest!Finish
<1>3. ~done /\ ghost \in Nat
  BY <1>1, <1>2, Md5Constants DEF Md5Is
<1>4. Md5Is(object, LengthOf(ghost), buffer, blocks, FALSE) /\ Cut(blocks, buffer, Counting(ghost))
  BY <1>1, <1>3
<1>5. \E c, u, b : Md5Is(last, c, u, b, FALSE) /\ Digest!FlattenSeq(b) = HashedOf(ghost)
  BY <1>3, <1>4, Finishing
<1> HIDE DEF last
<1>6. PICK c, u, b : Md5Is(last, c, u, b, FALSE) /\ Digest!FlattenSeq(b) = HashedOf(ghost)
  BY <1>5
<1>7. Md5Is(object', c, u, b, TRUE)
  BY <1>2, <1>6 DEF Md5Is
<1> QED BY <1>1, <1>2, <1>6, <1>7 DEF Md5Good

LEMMA Md5Step == Md5Inv /\ Digest!Next => Md5Inv'
<1> SUFFICES ASSUME Md5Inv, Digest!Next PROVE Md5Good(object', ghost')
  BY DEF Md5Inv
<1>1. CASE Digest!Finish
  BY <1>1, Md5Finish
<1>2. CASE \E n \in Pieces : Digest!Accumulate(n)
  BY <1>2, Md5Accumulate
<1> QED BY <1>1, <1>2 DEF Digest!Next

LEMMA Md5Implies == Md5Inv => Digest!BlocksHold
<1> SUFFICES ASSUME Md5Inv PROVE Digest!BlocksHold
  OBVIOUS
<1>1. PICK count, buffer, blocks, done :
        /\ Md5Is(object, count, buffer, blocks, done) /\ done \in BOOLEAN /\ ghost \in 0 .. MaxBytes
        /\ ~done => count = LengthOf(ghost) /\ Cut(blocks, buffer, Counting(ghost))
        /\ done => Digest!FlattenSeq(blocks) = HashedOf(ghost)
  BY DEF Md5Inv, Md5Good
<1>2. object.done = done /\ object.blocks = blocks /\ object.buffer = buffer /\ ghost \in Nat
  BY <1>1, Md5Constants DEF Md5Is
<1>3. CASE done
  <2>1. Digest!Hashed = HashedOf(ghost)
    <3>1. Digest!Length = LengthOf(ghost)
      BY Md5Constants DEF Digest!Length, LengthOf, Modulus
    <3>2. Digest!Zeros = ZerosOf(ghost)
      BY DEF Digest!Zeros, ZerosOf
    <3> QED BY <3>1, <3>2 DEF Digest!Hashed, HashedOf, Counting
  <2> QED BY <1>1, <1>2, <1>3, <2>1 DEF Digest!BlocksHold
<1>4. CASE ~done
  <2> DEFINE s == Counting(ghost)
             q == ghost \div Block
             x == ghost % Block
             a == q * Block
             V == BytesOf(0)
  <2>1. s \in Seq(V) /\ Len(s) = ghost /\ \A i \in 1 .. ghost : s[i] = i
    <3>1. s \in Seq(V) /\ Len(s) = ghost
      BY <1>2, InputBytes
    <3>2. \A i \in 1 .. ghost : s[i] = i
      BY DEF Counting
    <3> QED BY <3>1, <3>2
  <2>2. q \in Nat /\ x \in 0 .. Block - 1 /\ a \in Nat /\ ghost = a + x
    BY <1>2, LengthDivided
  <2>3. Cut(blocks, buffer, s)
    BY <1>1, <1>4
  <2> HIDE DEF s, V
  <2>4. /\ blocks = [k \in 1 .. q |-> PieceOf(s, k)]
        /\ \A i \in 1 .. x : buffer[i] = s[a + i]
    BY <2>1, <2>3 DEF Cut
  <2>5. Len(blocks) = q
    <3> DEFINE X == {PieceOf(s, k) : k \in 1 .. q}
    <3> HIDE DEF q
    <3>1. blocks \in [1 .. q -> X]
      BY <2>4
    <3> HIDE DEF X
    <3> QED BY <2>2, <3>1, FunctionIsSeq
  <2> HIDE DEF q, x
  <2>6. Digest!FlattenSeq(blocks) = [i \in 1 .. a |-> i]
    <3>1. Digest!FlattenSeq(blocks) = [i \in 1 .. a |-> s[i]]
      <4>1. a <= Len(s)
        <5> HIDE DEF a
        <5> QED BY <1>2, <2>1, <2>2
      <4>2. q * Block <= Len(s)
        BY <4>1 DEF a
      <4> HIDE DEF a
      <4>3. blocks = [k \in 1 .. q |-> PieceOf(s, k)] /\ s \in Seq(V) /\ q \in Nat
        BY <2>1, <2>2, <2>4
      <4>4. Digest!FlattenSeq(blocks) = [i \in 1 .. q * Block |-> s[i]]
        BY <4>2, <4>3, FlattenedCut
      <4> QED BY <4>4 DEF a
    <3>2. \A i \in 1 .. a : s[i] = i
      <4> HIDE DEF a
      <4> QED BY <2>1, <2>2, Md5Constants
    <3> HIDE DEF a
    <3> QED BY <3>1, <3>2
  <2> HIDE DEF a
  <2>7. ghost - a = x /\ \A i \in 1 .. x : a + i \in 1 .. ghost
    BY <2>2, Md5Constants
  <2>8. \A i \in 1 .. x : buffer[i] = a + i
    BY <2>1, <2>4, <2>7
  <2>9. Len(object.blocks) * Block = a
    BY <1>2, <2>5 DEF a
  <2>10. ghost - a \in 0 .. Block - 1
    BY <2>2, <2>7
  <2> QED BY <1>2, <1>4, <2>6, <2>7, <2>8, <2>9, <2>10 DEF Digest!BlocksHold
<1> QED BY <1>1, <1>3, <1>4

LEMMA LibraryMd5 == Spec => [](part = "md5" => Md5Inv)
<1> DEFINE Inv == part = "md5" => Md5Inv
<1>1. Init => Inv
  BY Md5Starts DEF Init
<1>2. Inv /\ [Next]_vars => Inv'
  <2> SUFFICES ASSUME Inv, [Next]_vars, part' = "md5" PROVE Md5Inv'
    OBVIOUS
  <2>1. CASE UNCHANGED vars
    <3>1. object' = object /\ ghost' = ghost /\ part = "md5"
      BY <2>1 DEF vars
    <3>2. Md5Inv
      BY <3>1
    <3> QED BY <3>1, <3>2 DEF Md5Inv
  <2>2. CASE Next
    <3>1. part' = part /\ Digest!Next
      BY <2>2 DEF Next, UseHeap, UseVector, UseTree, UseMap, UseQueue, UseTimer, UseGetopt,
         UseHttp, UseSort, UseUrl, UseMd5, UseSerial
    <3> QED BY <3>1, Md5Step
  <2> QED BY <2>1, <2>2
<1> QED BY <1>1, <1>2, PTL DEF Spec

(* Whatever the pieces bscl_md5_accumulate is called with: the blocks are  *)
(* the begin of the message and the buffer has the rest; bscl_md5_finish   *)
(* leaves the blocks of the message padded as the standard says, with its  *)
(* length in bits even where the low word of the count has wrapped.        *)
THEOREM LibraryBlocksHold == Spec => []BlocksHold
<1>1. (part = "md5" => Md5Inv) => BlocksHold
  BY Md5Implies DEF BlocksHold
<1> QED BY <1>1, LibraryMd5, PTL

-----------------------------------------------------------------------------
(* Places in order: how many of S come up to i *)
UpTill(S, i) == {j \in S : j <= i}

LEMMA UpTillOne ==
  ASSUME NEW S, IsFiniteSet(S), S \subseteq Int, NEW i \in S
  PROVE  Cardinality(UpTill(S, i)) \in 1 .. Cardinality(S)
<1>1. UpTill(S, i) \in SUBSET S /\ i \in UpTill(S, i)
  BY DEF UpTill
<1>2. /\ IsFiniteSet(UpTill(S, i)) /\ Cardinality(UpTill(S, i)) <= Cardinality(S)
      /\ Cardinality(UpTill(S, i)) \in Nat /\ Cardinality(S) \in Nat
  BY <1>1, FS_Subset, FS_CardinalityType
<1>3. Cardinality(UpTill(S, i)) # 0
  BY <1>1, <1>2, FS_EmptySet
<1> QED BY <1>2, <1>3

LEMMA UpTillLess ==
  ASSUME NEW S, IsFiniteSet(S), S \subseteq Int, NEW i \in S, NEW k \in S, i < k
  PROVE  Cardinality(UpTill(S, i)) < Cardinality(UpTill(S, k))
<1>1. /\ UpTill(S, k) \in SUBSET S /\ UpTill(S, i) \in SUBSET UpTill(S, k)
      /\ k \in UpTill(S, k) /\ k \notin UpTill(S, i)
  <2>1. i \in Int /\ k \in Int /\ k <= k /\ ~(k <= i)
    OBVIOUS
  <2>2. \A j \in S : j <= i => j <= k
    OBVIOUS
  <2> QED BY <2>1, <2>2, Zenon DEF UpTill
<1>2. IsFiniteSet(UpTill(S, k))
  BY <1>1, FS_Subset
<1>3. /\ Cardinality(UpTill(S, i)) <= Cardinality(UpTill(S, k))
      /\ Cardinality(UpTill(S, i)) # Cardinality(UpTill(S, k))
  BY <1>1, <1>2, FS_Subset
<1>4. Cardinality(UpTill(S, k)) \in Nat /\ Cardinality(UpTill(S, i)) \in Nat
  BY <1>1, <1>2, FS_Subset, FS_CardinalityType
<1> QED BY <1>3, <1>4

LEMMA InOrderAt ==
  ASSUME NEW S, IsFiniteSet(S), S \subseteq Int, NEW i \in S
  PROVE  /\ Cardinality(UpTill(S, i)) \in DOMAIN InOrder(S)
         /\ InOrder(S)[Cardinality(UpTill(S, i))] = i
<1> DEFINE c == Cardinality(UpTill(S, i))
<1>1. c \in 1 .. Cardinality(S)
  BY UpTillOne
<1>2. \A k \in S : Cardinality(UpTill(S, k)) = c => k = i
  <2> SUFFICES ASSUME NEW k \in S, Cardinality(UpTill(S, k)) = c, k # i PROVE FALSE
    OBVIOUS
  <2>1. c \in Int
    BY <1>1
  <2>2. k < i \/ i < k
    OBVIOUS
  <2>3. Cardinality(UpTill(S, k)) < c \/ c < Cardinality(UpTill(S, k))
    BY <2>2, UpTillLess
  <2> HIDE DEF c
  <2> QED BY <2>1, <2>3
<1>3. InOrder(S)[c] = CHOOSE k \in S : Cardinality(UpTill(S, k)) = c
  BY <1>1 DEF InOrder, UpTill
<1>4. (CHOOSE k \in S : Cardinality(UpTill(S, k)) = c) = i
  BY <1>2
<1>5. DOMAIN InOrder(S) = 1 .. Cardinality(S)
  BY DEF InOrder
<1> QED BY <1>1, <1>3, <1>4, <1>5

(* Each place is one in order. *)
LEMMA InOrderOnto ==
  ASSUME NEW S, IsFiniteSet(S), S \subseteq Int, NEW n \in 1 .. Cardinality(S)
  PROVE  InOrder(S)[n] \in S /\ Cardinality(UpTill(S, InOrder(S)[n])) = n
<1> DEFINE C == 1 .. Cardinality(S)
           f == [i \in S |-> Cardinality(UpTill(S, i))]
<1>1. f \in [S -> C] /\ Cardinality(S) \in Nat
  BY UpTillOne, FS_CardinalityType
<1>2. \A i, k \in S : f[i] = f[k] => i = k
  <2> SUFFICES ASSUME NEW i \in S, NEW k \in S, f[i] = f[k], i # k PROVE FALSE
    OBVIOUS
  <2>1. f[i] \in Int /\ f[k] \in Int
    BY <1>1
  <2>2. i < k \/ k < i
    OBVIOUS
  <2>3. f[i] < f[k] \/ f[k] < f[i]
    BY <2>2, UpTillLess
  <2> QED BY <2>1, <2>3
<1>3. IsFiniteSet(C) /\ Cardinality(C) = Cardinality(S)
  <2>1. 1 \in Int /\ Cardinality(S) \in Int /\ (1 > Cardinality(S) <=> Cardinality(S) = 0)
        /\ Cardinality(S) - 1 + 1 = Cardinality(S)
    BY <1>1
  <2> QED BY <2>1, FS_Interval
<1>4. f \in Surjection(S, C)
  <2>1. f \in Injection(S, C)
    BY <1>1, <1>2 DEF Injection, IsInjective
  <2> QED BY <1>3, <2>1, FS_Injection
<1>5. PICK i \in S : f[i] = n
  BY <1>4 DEF Surjection
<1> QED BY <1>5, InOrderAt

(* A place behind all others comes last. *)
LEMMA InOrderOneMore ==
  ASSUME NEW S, IsFiniteSet(S), S \subseteq Int, NEW x \in Int, \A i \in S : i < x
  PROVE  /\ Cardinality(S \union {x}) = Cardinality(S) + 1
         /\ InOrder(S \union {x}) = [n \in 1 .. Cardinality(S) + 1 |->
                                       IF n = Cardinality(S) + 1 THEN x ELSE InOrder(S)[n]]
<1> DEFINE T == S \union {x}
<1>1. x \notin S /\ T \subseteq Int
  OBVIOUS
<1>2. IsFiniteSet(T) /\ Cardinality(T) = Cardinality(S) + 1 /\ Cardinality(S) \in Nat
  BY <1>1, FS_AddElement, FS_CardinalityType
<1>3. \A i \in S : UpTill(T, i) = UpTill(S, i)
  BY DEF UpTill
<1>4. UpTill(T, x) = T
  <2>1. \A j \in T : j <= x
    OBVIOUS
  <2> HIDE DEF T
  <2> QED BY <2>1 DEF UpTill
<1>5. InOrder(T)[Cardinality(S) + 1] = x
  <2>1. x \in T
    OBVIOUS
  <2> HIDE DEF T
  <2> QED BY <1>1, <1>2, <1>4, <2>1, InOrderAt
<1>6. ASSUME NEW n \in 1 .. Cardinality(S) PROVE InOrder(T)[n] = InOrder(S)[n]
  <2> DEFINE i == InOrder(S)[n]
  <2>1. i \in S /\ Cardinality(UpTill(S, i)) = n
    BY InOrderOnto
  <2> HIDE DEF i
  <2>2. i \in T /\ UpTill(T, i) = UpTill(S, i)
    BY <1>3, <2>1
  <2> HIDE DEF T
  <2>3. InOrder(T)[n] = i
    BY <1>1, <1>2, <2>1, <2>2, InOrderAt
  <2> QED BY <2>3 DEF i
<1> HIDE DEF T
<1>7. InOrder(T) = [n \in 1 .. Cardinality(T) |-> InOrder(T)[n]]
  BY DEF InOrder
<1>8. ASSUME NEW n \in 1 .. Cardinality(S) + 1
      PROVE  InOrder(T)[n] = IF n = Cardinality(S) + 1 THEN x ELSE InOrder(S)[n]
  BY <1>2, <1>5, <1>6
<1>9. InOrder(T) = [n \in 1 .. Cardinality(S) + 1 |->
                      IF n = Cardinality(S) + 1 THEN x ELSE InOrder(S)[n]]
  BY <1>2, <1>7, <1>8, Zenon
<1> QED BY <1>2, <1>9 DEF T

-----------------------------------------------------------------------------
(* The query of a URL. *)
LEMMA QueryInOrder == \A S : Query!InOrder(S) = InOrder(S)
BY DEF Query!InOrder, InOrder, Query!Cardinality, Cardinality, Query!IsFiniteSet, IsFiniteSet

LEMMA UrlSame ==
  ASSUME ghost' = ghost
  PROVE  /\ \A c : Query!At(c)' = Query!At(c)
         /\ Query!Separators' = Query!Separators
         /\ Query!Fields' = Query!Fields
         /\ \A i : Query!EndOf(i)' = Query!EndOf(i)
         /\ \A i : Query!EqualsIn(i)' = Query!EqualsIn(i)
         /\ \A i : Query!Divided(i)' = Query!Divided(i)
         /\ Query!PathText' = Query!PathText
         /\ Query!Malformed' = Query!Malformed /\ Query!Unfit' = Query!Unfit
<1>1. \A c : Query!At(c)' = Query!At(c)
  BY DEF Query!At
<1>2. Query!Separators' = Query!Separators
  BY <1>1 DEF Query!Separators
<1>3. Query!Fields' = Query!Fields
  BY <1>1, <1>2 DEF Query!Fields
<1>4. \A i : Query!EndOf(i)' = Query!EndOf(i)
  BY <1>2 DEF Query!EndOf
<1>5. \A i : Query!EqualsIn(i)' = Query!EqualsIn(i)
  BY <1>1, <1>4 DEF Query!EqualsIn
<1>6. \A i : Query!LastEquals(i)' = Query!LastEquals(i)
  BY <1>5 DEF Query!LastEquals
<1>7. \A i : Query!Divided(i)' = Query!Divided(i)
  BY <1>4, <1>6 DEF Query!Divided
<1>8. \A i : Query!TooLong(i)' = Query!TooLong(i)
  BY <1>4, <1>5, <1>6 DEF Query!TooLong
<1>9. Query!PathText' = Query!PathText
  BY <1>1 DEF Query!PathText
<1>10. Query!Malformed' = Query!Malformed
  BY <1>1, <1>3, <1>5 DEF Query!Malformed
<1>11. Query!Unfit' = Query!Unfit
  BY <1>1, <1>3, <1>5, <1>8 DEF Query!Unfit
<1> QED BY <1>1, <1>2, <1>3, <1>4, <1>5, <1>7, <1>9, <1>10, <1>11

(* Where the fields of the query begin *)
Starts == {j + 1 : j \in Query!At("?") \union Query!Separators}

UrlType ==
  /\ ghost \in Query!Texts
  /\ object \in [phase : {"path", "query", "refused", "overrun", "done"}, at : Nat,
                 path : {Query!PathText, << >>}, key : Nat, value : Nat,
                 query : Seq({Query!Divided(i) : i \in Nat})]

(* The parser is in the field that begins last before it; the value begins *)
(* behind the last "=" of the query, in this field or in one before; the   *)
(* fields before are those that were taken, and each of them has a "=".    *)
UrlScanned(u) ==
  /\ \E q \in Query!At("?") : Query!At("?") = {q}
  /\ u.path = Query!PathText
  /\ u.value = 0 => Len(u.query) = 0
  /\ u.at <= Len(ghost) + 1
  /\ u.key \in Starts /\ u.key <= u.at
  /\ \A i \in Starts : i <= u.key \/ i > u.at
  /\ u.value # 0 => u.value - 1 \in Query!At("=") /\ u.value <= u.at
                    /\ \E i \in Starts : i < u.value
  /\ \A j \in Query!At("="), i \in Starts : i <= j /\ j < u.at => u.value # 0 /\ j < u.value
  /\ Len(u.query) + 1 = Cardinality(UpTill(Starts, u.key))
  /\ \A n \in 1 .. Len(u.query) : /\ Query!EqualsIn(Query!Fields[n]) # {}
                                  /\ u.query[n] = Query!Divided(Query!Fields[n])

UrlInv ==
  /\ UrlType
  /\ object.phase = "path" => object.query = << >> /\ object.value = 0
  /\ object.phase = "query" => UrlScanned(object)
  /\ Query!QueryHolds

LEMMA UrlText ==
  ASSUME ghost \in Query!Texts
  PROVE  /\ Len(ghost) \in Nat /\ DOMAIN ghost = 1 .. Len(ghost)
         /\ \A c : Query!At(c) \subseteq 1 .. Len(ghost)
         /\ Query!Separators \subseteq 1 .. Len(ghost)
         /\ Starts \subseteq Int /\ Starts \subseteq 1 .. Len(ghost) + 1
         /\ IsFiniteSet(Starts)
<1>1. PICK n \in 0 .. MaxText : ghost \in [1 .. n -> UrlChars \union {"?", "=", "&"}]
  BY DEF Query!Texts
<1>2. Len(ghost) = n /\ n \in Nat
  BY <1>1, FunctionIsSeq, LibraryAssumption DEF Query!UrlAssumption
<1>3. DOMAIN ghost = 1 .. Len(ghost) /\ Len(ghost) \in Nat
  BY <1>1, <1>2
<1>4. \A c : Query!At(c) \subseteq 1 .. Len(ghost)
  BY <1>3 DEF Query!At
<1>5. Query!Separators \subseteq 1 .. Len(ghost)
  BY <1>4 DEF Query!Separators
<1>6. \A i \in Starts : i \in 1 .. Len(ghost) + 1 /\ i \in Int
  <2> SUFFICES ASSUME NEW i \in Starts PROVE i \in 1 .. Len(ghost) + 1 /\ i \in Int
    OBVIOUS
  <2>1. PICK j \in 1 .. Len(ghost) : i = j + 1
    BY <1>4, <1>5 DEF Starts
  <2> QED BY <1>3, <2>1
<1>7. IsFiniteSet(1 .. Len(ghost) + 1)
  <2>1. 1 \in Int /\ Len(ghost) + 1 \in Int
    BY <1>3
  <2> QED BY <2>1, FS_Interval
<1>8. IsFiniteSet(Starts)
  BY <1>6, <1>7, FS_Subset
<1> QED BY <1>3, <1>4, <1>5, <1>6, <1>8

LEMMA UrlFields ==
  ASSUME ghost \in Query!Texts
  PROVE  /\ Query!Fields = InOrder(Starts) /\ DOMAIN Query!Fields = 1 .. Cardinality(Starts)
         /\ Cardinality(Starts) \in Nat
         /\ \A n \in 1 .. Cardinality(Starts) : Query!Fields[n] \in Starts
         /\ \A i \in Starts : /\ Cardinality(UpTill(Starts, i)) \in 1 .. Cardinality(Starts)
                              /\ Query!Fields[Cardinality(UpTill(Starts, i))] = i
<1>1. IsFiniteSet(Starts) /\ Starts \subseteq Int
  BY UrlText
<1>2. Query!Fields = InOrder(Starts)
  BY QueryInOrder DEF Query!Fields, Starts
<1>3. DOMAIN InOrder(Starts) = 1 .. Cardinality(Starts)
  BY DEF InOrder
<1> HIDE DEF Starts
<1> QED BY <1>1, <1>2, <1>3, InOrderOnto, InOrderAt, FS_CardinalityType

(* A field ends before the next one begins. *)
LEMMA FieldEnds ==
  ASSUME ghost \in Query!Texts, NEW k \in Starts, NEW i \in Nat, k <= i,
         i = Len(ghost) + 1 \/ i \in Query!Separators,
         \A s \in Starts : s <= k \/ s > i
  PROVE  /\ Query!EndOf(k) = i
         /\ Query!EqualsIn(k) = {j \in Query!At("=") : k <= j /\ j < i}
<1> DEFINE ends == {j \in Query!Separators : j >= k} \union {Len(ghost) + 1}
<1>1. /\ Len(ghost) \in Nat /\ k \in 1 .. Len(ghost) + 1 /\ i <= Len(ghost) + 1
      /\ Query!Separators \subseteq 1 .. Len(ghost)
  BY UrlText
<1>2. i \in ends
  BY <1>1
<1>3. ASSUME NEW j \in ends PROVE i <= j
  <2>1. CASE j = Len(ghost) + 1
    BY <1>1, <2>1
  <2>2. CASE j \in Query!Separators /\ j >= k
    <3>1. j + 1 \in Starts
      BY <2>2 DEF Starts
    <3>2. j + 1 <= k \/ j + 1 > i
      BY <3>1
    <3> QED BY <1>1, <2>2, <3>2
  <2> QED BY <2>1, <2>2
<1>4. ends \subseteq Nat
  <2>1. Len(ghost) + 1 \in Nat /\ \A j \in Query!Separators : j \in Nat
    BY <1>1
  <2> QED BY <2>1
<1>5. Query!EndOf(k) = CHOOSE j \in ends : \A m \in ends : j <= m
  BY DEF Query!EndOf
<1>6. Query!EndOf(k) = i
  <2> HIDE DEF ends
  <2>1. Query!EndOf(k) \in ends /\ \A m \in ends : Query!EndOf(k) <= m
    BY <1>2, <1>4, <1>5, ChosenMinimum
  <2> DEFINE e == Query!EndOf(k)
  <2>2. e \in ends /\ e <= i
    BY <1>2, <2>1
  <2> HIDE DEF e
  <2>3. e = i
    BY <1>3, <1>4, <2>2
  <2> QED BY <2>3 DEF e
<1> QED BY <1>6 DEF Query!EqualsIn

(* TakePair, at the end of a field *)
PairPut(u, i) == Append(u.query, [key |-> SubSeq(ghost, u.key, u.value - 2),
                                  value |-> SubSeq(ghost, u.value, i - 1)])

LEMMA PairTaken ==
  ASSUME UrlType, NEW u, UrlScanned(u), NEW i \in Nat,
         u.query \in Seq({Query!Divided(f) : f \in Nat}), u.key \in Nat, u.value \in Nat,
         u.at \in Nat, u.at = i, i = Len(ghost) + 1 \/ i \in Query!Separators, u.value # 0
  PROVE  /\ u.value > u.key =>
              /\ PairPut(u, i) \in Seq({Query!Divided(f) : f \in Nat})
              /\ Len(PairPut(u, i)) = Len(u.query) + 1
              /\ \A n \in 1 .. Len(PairPut(u, i)) :
                   /\ Query!EqualsIn(Query!Fields[n]) # {}
                   /\ PairPut(u, i)[n] = Query!Divided(Query!Fields[n])
         /\ Query!Overruns(u, i) => Query!Unfit
<1> DEFINE D == {Query!Divided(f) : f \in Nat}
           k == u.key
           v == u.value
           p == [key |-> SubSeq(ghost, k, v - 2), value |-> SubSeq(ghost, v, i - 1)]
           c == Cardinality(UpTill(Starts, k))
           q == PairPut(u, i)
<1>1. ghost \in Query!Texts
  BY DEF UrlType
<1>2. /\ k \in Starts /\ k <= i /\ \A s \in Starts : s <= k \/ s > i
      /\ v - 1 \in Query!At("=") /\ v <= i /\ \E s \in Starts : s < v
      /\ \A j \in Query!At("="), s \in Starts : s <= j /\ j < i => j < v
      /\ Len(u.query) + 1 = c
      /\ \A n \in 1 .. Len(u.query) : /\ Query!EqualsIn(Query!Fields[n]) # {}
                                      /\ u.query[n] = Query!Divided(Query!Fields[n])
  BY DEF UrlScanned
<1>3. /\ Query!EndOf(k) = i
      /\ Query!EqualsIn(k) = {j \in Query!At("=") : k <= j /\ j < i}
  BY <1>1, <1>2, FieldEnds
<1>4. c \in 1 .. Cardinality(Starts) /\ Query!Fields[c] = k
      /\ DOMAIN Query!Fields = 1 .. Cardinality(Starts) /\ Cardinality(Starts) \in Nat
  BY <1>1, <1>2, UrlFields
<1>5. Starts \subseteq Int /\ Query!At("=") \subseteq Int /\ IsFiniteSet(Starts)
  BY <1>1, UrlText
<1>6. Len(u.query) \in Nat
  OBVIOUS
<1>7. k \in Int /\ v \in Int /\ i \in Int
  OBVIOUS
<1>8. ASSUME v > k
      PROVE  Query!EqualsIn(k) # {} /\ Query!LastEquals(k) = v - 1
  <2>1. v - 1 \in Query!EqualsIn(k)
    BY <1>2, <1>3, <1>7, <1>8
  <2>2. \A j \in Query!EqualsIn(k) : j \in Int /\ j <= v - 1
    <3> SUFFICES ASSUME NEW j \in Query!EqualsIn(k) PROVE j \in Int /\ j <= v - 1
      OBVIOUS
    <3>1. j \in Query!At("=") /\ k <= j /\ j < i /\ j \in Int
      BY <1>3, <1>5
    <3>2. j < v
      BY <1>2, <3>1
    <3> QED BY <1>7, <3>1, <3>2
  <2> DEFINE E == Query!EqualsIn(k)
             x == v - 1
  <2>3. x \in E /\ x \in Int /\ \A j \in E : j \in Int /\ j <= x
    BY <1>7, <2>1, <2>2
  <2> HIDE DEF E, x
  <2>4. (CHOOSE j \in E : \A m \in E : m <= j) = x
    <3> DEFINE y == CHOOSE j \in E : \A m \in E : m <= j
    <3>1. y \in E /\ \A m \in E : m <= y
      <4>1. \E j \in E : \A m \in E : m <= j
        BY <2>3
      <4> QED BY <4>1
    <3> HIDE DEF y
    <3>2. y = x
      BY <2>3, <3>1
    <3> QED BY <3>2 DEF y
  <2> QED BY <2>1, <2>4 DEF Query!LastEquals, E, x
<1>9. ASSUME v > k
      PROVE  /\ q \in Seq(D) /\ Len(q) = Len(u.query) + 1
             /\ \A n \in 1 .. Len(q) : /\ Query!EqualsIn(Query!Fields[n]) # {}
                                       /\ q[n] = Query!Divided(Query!Fields[n])
  <2>1. Query!EqualsIn(k) # {} /\ Query!LastEquals(k) = v - 1
    BY <1>8, <1>9
  <2>2. p = Query!Divided(k)
    <3>1. v - 1 - 1 = v - 2 /\ v - 1 + 1 = v
      BY <1>7
    <3> QED BY <1>3, <2>1, <3>1 DEF Query!Divided
  <2>3. p \in D
    BY <2>2
  <2> HIDE DEF p, D
  <2>4. /\ q \in Seq(D) /\ Len(q) = Len(u.query) + 1
        /\ \A n \in 1 .. Len(u.query) + 1 : q[n] = IF n <= Len(u.query) THEN u.query[n] ELSE p
    <3>1. q = Append(u.query, p)
      BY DEF p, PairPut
    <3>2. u.query \in Seq(D)
      BY DEF D
    <3> HIDE DEF q
    <3> QED BY <2>3, <3>1, <3>2, AppendFacts
  <2> HIDE DEF q
  <2>5. ASSUME NEW n \in 1 .. Len(q)
        PROVE  /\ Query!EqualsIn(Query!Fields[n]) # {}
               /\ q[n] = Query!Divided(Query!Fields[n])
    <3>1. CASE n \in 1 .. Len(u.query)
      BY <1>2, <1>6, <2>4, <3>1
    <3>2. CASE n = c
      <4>1. q[n] = p
        BY <1>2, <1>6, <2>4, <3>2
      <4> HIDE DEF c, k
      <4> QED BY <1>4, <2>1, <2>2, <3>2, <4>1
    <3> QED BY <1>2, <1>6, <2>4, <3>1, <3>2
  <2> QED BY <2>4, <2>5
<1>10. ASSUME v <= k
       PROVE  \E m, n \in DOMAIN Query!Fields : m < n /\ Query!EqualsIn(Query!Fields[m]) # {}
                                                /\ Query!EqualsIn(Query!Fields[n]) = {}
  <2>1. PICK s \in Starts : s < v
    BY <1>2
  <2>2. s < k /\ s \in Int
    BY <1>5, <1>10, <2>1
  <2>3. Cardinality(UpTill(Starts, s)) < c
    BY <1>2, <1>5, <2>1, <2>2, UpTillLess
  <2>4. Cardinality(UpTill(Starts, s)) \in 1 .. Cardinality(Starts)
    BY <1>1, <2>1, UrlFields
  <2> HIDE DEF c
  <2>5. 1 \in 1 .. Len(u.query) /\ 1 < c
    BY <1>2, <1>4, <1>6, <2>3, <2>4
  <2>6. Query!EqualsIn(Query!Fields[1]) # {}
    BY <1>2, <2>5
  <2>7. Query!EqualsIn(k) = {}
    <3> SUFFICES ASSUME NEW j \in Query!EqualsIn(k) PROVE FALSE
      OBVIOUS
    <3>1. j \in Query!At("=") /\ k <= j /\ j < i /\ j \in Int
      BY <1>3, <1>5
    <3>2. j < v
      BY <1>2, <3>1
    <3> QED BY <1>10, <3>1, <3>2
  <2>8. 1 \in DOMAIN Query!Fields /\ c \in DOMAIN Query!Fields
    BY <1>4, <2>5
  <2> HIDE DEF k
  <2> QED BY <1>4, <2>5, <2>6, <2>7, <2>8
<1>11. ASSUME v > k, Len(u.query) >= QueryMax \/ v - k - 1 >= PathMax \/ i - v >= PathMax
       PROVE  \E n \in DOMAIN Query!Fields : n > QueryMax \/ Query!TooLong(Query!Fields[n])
  <2>1. Query!EqualsIn(k) # {} /\ Query!LastEquals(k) = v - 1
    BY <1>8, <1>11
  <2>2. c \in DOMAIN Query!Fields /\ QueryMax \in Nat
    BY <1>4, LibraryAssumption DEF Query!UrlAssumption
  <2>3. CASE Len(u.query) >= QueryMax
    <3> HIDE DEF c
    <3>1. c > QueryMax
      BY <1>2, <1>6, <2>2, <2>3
    <3> QED BY <2>2, <3>1
  <2>4. CASE v - k - 1 >= PathMax \/ i - v >= PathMax
    <3>1. v - 1 - k = v - k - 1 /\ i - (v - 1) - 1 = i - v
      BY <1>7
    <3>2. Query!TooLong(k)
      <4> HIDE DEF k, v
      <4> QED BY <1>3, <2>1, <2>4, <3>1 DEF Query!TooLong
    <3> HIDE DEF c, k
    <3> QED BY <1>4, <2>2, <3>2
  <2> QED BY <1>11, <2>3, <2>4
<1>12. ASSUME Query!Overruns(u, i) PROVE Query!Unfit
  <2>1. CASE v <= k
    BY <1>10, <2>1, Zenon DEF Query!Unfit
  <2>2. CASE v > k
    <3>1. \E n \in DOMAIN Query!Fields : n > QueryMax \/ Query!TooLong(Query!Fields[n])
      BY <1>7, <1>11, <1>12, <2>2 DEF Query!Overruns
    <3> QED BY <3>1, Zenon DEF Query!Unfit
  <2> QED BY <1>7, <2>1, <2>2
<1> QED BY <1>9, <1>12

UrlRecord ==
  [phase : {"path", "query", "refused", "overrun", "done"}, at : Nat,
   path : {Query!PathText, << >>}, key : Nat, value : Nat,
   query : Seq({Query!Divided(i) : i \in Nat})]

UrlDone(u) ==
  /\ u.path = Query!PathText
  /\ u.query = IF \A n \in DOMAIN Query!Fields : Query!EqualsIn(Query!Fields[n]) = {} THEN << >>
               ELSE [n \in DOMAIN Query!Fields |-> Query!Divided(Query!Fields[n])]

(* The text stays what it was. *)
LEMMA UrlAfter ==
  ASSUME UrlInv, ghost' = ghost, object' \in UrlRecord,
         object'.phase = "path" => object'.query = << >> /\ object'.value = 0,
         object'.phase = "query" => UrlScanned(object'),
         object'.phase = "done" => UrlDone(object'),
         object'.phase = "refused" => Query!Malformed,
         object'.phase = "overrun" => Query!Unfit
  PROVE  UrlInv'
<1>1. /\ \A c : Query!At(c)' = Query!At(c)
      /\ Query!Fields' = Query!Fields
      /\ \A i : Query!EqualsIn(i)' = Query!EqualsIn(i)
      /\ \A i : Query!Divided(i)' = Query!Divided(i)
      /\ Query!Separators' = Query!Separators
      /\ Query!PathText' = Query!PathText
      /\ Query!Malformed' = Query!Malformed /\ Query!Unfit' = Query!Unfit
  BY UrlSame
<1>2. Starts' = Starts
  BY <1>1 DEF Starts
<1>3. UrlRecord' = UrlRecord
  <2>1. {Query!Divided(i) : i \in Nat}' = {Query!Divided(i) : i \in Nat}
    BY <1>1
  <2> QED BY <1>1, <2>1 DEF UrlRecord
<1>4. UrlType'
  <2>1. ghost \in Query!Texts /\ Query!Texts' = Query!Texts
    BY DEF UrlInv, UrlType, Query!Texts
  <2>2. (object \in UrlRecord)'
    BY <1>3
  <2> QED BY <2>1, <2>2 DEF UrlType, UrlRecord
<1>5. (object.phase = "query" => UrlScanned(object))'
  BY <1>1, <1>2 DEF UrlScanned
<1>6. Query!QueryHolds'
  BY <1>1 DEF Query!QueryHolds, UrlDone
<1> QED BY <1>4, <1>5, <1>6 DEF UrlInv

LEMMA UrlStarts == Query!Init => UrlInv
<1> SUFFICES ASSUME Query!Init PROVE UrlInv
  OBVIOUS
<1>1. /\ ghost \in Query!Texts
      /\ object = [phase |-> "path", at |-> 1, path |-> << >>, key |-> 1, value |-> 0,
                   query |-> << >>]
  BY DEF Query!Init, Query!NoValue
<1>2. UrlType
  BY <1>1 DEF UrlType
<1> QED BY <1>1, <1>2 DEF UrlInv, Query!QueryHolds

LEMMA UrlPath ==
  ASSUME UrlInv, Query!Path
  PROVE  UrlInv'
<1> DEFINE marks == Query!At("?")
           i == CHOOSE j \in marks : TRUE
<1>1. /\ ghost' = ghost /\ object.phase = "path"
      /\ object' = IF Query!Cardinality(marks) # 1 \/ 1 \in marks
                   THEN [object EXCEPT !.phase = "refused"]
                   ELSE IF i - 1 >= PathMax THEN [object EXCEPT !.phase = "overrun"]
                   ELSE [object EXCEPT !.phase = "query", !.path = SubSeq(ghost, 1, i - 1),
                                       !.key = i + 1, !.at = i + 1]
  BY DEF Query!Path, Query!At
<1>2. /\ object \in UrlRecord /\ ghost \in Query!Texts /\ object.query = << >>
      /\ object.value = 0
  BY <1>1 DEF UrlInv, UrlType, UrlRecord
<1>3. Query!Cardinality(marks) = Cardinality(marks)
  BY DEF Query!Cardinality, Cardinality, Query!IsFiniteSet, IsFiniteSet
<1>4. CASE Query!Cardinality(marks) # 1 \/ 1 \in marks
  <2>1. object' = [object EXCEPT !.phase = "refused"]
    BY <1>1, <1>4
  <2>2. object' \in UrlRecord /\ object'.phase = "refused"
    BY <1>2, <2>1 DEF UrlRecord
  <2>3. Query!Malformed
    BY <1>4 DEF Query!Malformed
  <2> QED BY <1>1, <2>2, <2>3, UrlAfter
<1>5. CASE ~(Query!Cardinality(marks) # 1 \/ 1 \in marks)
  <2>1. marks \subseteq 1 .. Len(ghost) /\ Len(ghost) \in Nat /\ IsFiniteSet(marks)
    <3>1. marks \subseteq 1 .. Len(ghost) /\ Len(ghost) \in Nat
      BY <1>2, UrlText
    <3>2. 1 \in Int /\ Len(ghost) \in Int
      BY <3>1
    <3> HIDE DEF marks
    <3> QED BY <3>1, <3>2, FS_Interval, FS_Subset
  <2>2. PICK q : marks = {q}
    <3>1. Cardinality(marks) = 1
      BY <1>3, <1>5
    <3> HIDE DEF marks
    <3> QED BY <2>1, <3>1, FS_Singleton
  <2>3. i = q /\ q \in 1 .. Len(ghost)
    BY <2>1, <2>2
  <2>4. Query!PathText = SubSeq(ghost, 1, i - 1)
    BY DEF Query!PathText
  <2> HIDE DEF i
  <2>5. CASE i - 1 >= PathMax
    <3>1. object' = [object EXCEPT !.phase = "overrun"]
      BY <1>1, <1>5, <2>5
    <3>2. object' \in UrlRecord /\ object'.phase = "overrun"
      BY <1>2, <3>1 DEF UrlRecord
    <3>3. Query!Unfit
      <4>1. i \in Query!At("?")
        BY <2>2, <2>3
      <4> QED BY <2>5, <4>1, Zenon DEF Query!Unfit
    <3> QED BY <1>1, <3>2, <3>3, UrlAfter
  <2>6. CASE ~(i - 1 >= PathMax)
    <3>1. object' = [object EXCEPT !.phase = "query", !.path = SubSeq(ghost, 1, i - 1),
                                   !.key = i + 1, !.at = i + 1]
      BY <1>1, <1>5, <2>6
    <3>2. object' \in UrlRecord
      <4> DEFINE P == {Query!PathText, << >>}
                 D == Seq({Query!Divided(f) : f \in Nat})
      <4>1. i + 1 \in Nat
        BY <2>3
      <4>2. SubSeq(ghost, 1, i - 1) \in P
        BY <2>4
      <4>3. UrlRecord = [phase : {"path", "query", "refused", "overrun", "done"}, at : Nat,
                         path : P, key : Nat, value : Nat, query : D]
        BY DEF UrlRecord
      <4> HIDE DEF P, D
      <4> QED BY <1>2, <3>1, <4>1, <4>2, <4>3
    <3>3. /\ object'.phase = "query" /\ object'.key = q + 1 /\ object'.at = q + 1
          /\ object'.value = 0 /\ object'.query = << >> /\ object'.path = Query!PathText
      BY <1>2, <2>3, <2>4, <3>1 DEF UrlRecord
    <3>4. Query!Separators \subseteq 1 .. Len(ghost) /\ Query!At("=") \subseteq 1 .. Len(ghost)
      BY <1>2, UrlText
    <3>5. q + 1 \in Starts /\ \A s \in Starts : s \in Int /\ s >= q + 1
      <4>1. \A m \in Query!Separators : m > q
        BY <2>1, <2>2, <2>3, <3>4 DEF Query!Separators
      <4>2. \A s \in Starts : \E m \in {q} \union Query!Separators : s = m + 1
        BY <2>2 DEF Starts
      <4>3. q + 1 \in Starts
        BY <2>2 DEF Starts
      <4> QED BY <2>3, <3>4, <4>1, <4>2, <4>3
    <3>6. Cardinality(UpTill(Starts, q + 1)) = 1
      <4>1. UpTill(Starts, q + 1) = {q + 1}
        <5>1. \A s : s \in Starts /\ s <= q + 1 <=> s = q + 1
          BY <2>3, <3>5
        <5> QED BY <5>1 DEF UpTill
      <4> QED BY <4>1, FS_Singleton
    <3>7. UrlScanned(object')
      <4>1. q + 1 <= Len(ghost) + 1 /\ \A s \in Starts : s <= q + 1 \/ s > q + 1
        BY <2>3, <3>5
      <4>2. \A j \in Query!At("="), s \in Starts : ~(s <= j /\ j < q + 1)
        BY <2>3, <3>4, <3>5
      <4>3. Len(<< >>) + 1 = 1 /\ 1 .. Len(<< >>) = {} /\ Len(<< >>) = 0
        OBVIOUS
      <4> QED BY <2>2, <2>3, <3>3, <3>5, <3>6, <4>1, <4>2, <4>3 DEF UrlScanned
    <3> QED BY <1>1, <3>2, <3>3, <3>7, UrlAfter
  <2> QED BY <2>5, <2>6
<1> QED BY <1>4, <1>5

(* A separator is met without any "=" before it: the first field has none. *)
LEMMA LateRefusal ==
  ASSUME UrlInv, object.phase = "query", object.value = 0, object.at \in Query!Separators
  PROVE  Query!Malformed
<1> DEFINE i == object.at
           k == object.key
<1>1. /\ ghost \in Query!Texts /\ UrlScanned(object) /\ i \in Nat /\ k \in Nat
  BY DEF UrlInv, UrlType
<1>2. /\ k \in Starts /\ k <= i /\ \A s \in Starts : s <= k \/ s > i
      /\ \A j \in Query!At("="), s \in Starts : ~(s <= j /\ j < i)
      /\ Cardinality(UpTill(Starts, k)) = 1
  BY <1>1 DEF UrlScanned
<1>3. Query!EqualsIn(k) = {}
  <2>1. Query!EqualsIn(k) = {j \in Query!At("=") : k <= j /\ j < i}
    BY <1>1, <1>2, FieldEnds
  <2> QED BY <1>2, <2>1
<1>4. i + 1 \in Starts
  BY DEF Starts
<1>5. Starts \subseteq Int /\ IsFiniteSet(Starts)
  BY <1>1, UrlText
<1>6. /\ DOMAIN Query!Fields = 1 .. Cardinality(Starts) /\ Query!Fields[1] = k
      /\ Cardinality(UpTill(Starts, i + 1)) \in 1 .. Cardinality(Starts)
  <2> HIDE DEF i, k
  <2> QED BY <1>1, <1>2, <1>4, UrlFields
<1>7. Cardinality(UpTill(Starts, k)) < Cardinality(UpTill(Starts, i + 1))
  <2>1. k < i + 1
    BY <1>1, <1>2
  <2> HIDE DEF i, k
  <2> QED BY <1>2, <1>4, <1>5, <2>1, UpTillLess
<1> DEFINE n == Cardinality(UpTill(Starts, i + 1))
<1>8. n \in DOMAIN Query!Fields /\ n > 1
  <2>1. n \in Int
    BY <1>6
  <2> HIDE DEF i, k
  <2> QED BY <1>2, <1>6, <1>7, <2>1
<1> HIDE DEF n, k
<1> QED BY <1>3, <1>6, <1>8, Zenon DEF Query!Malformed

(* What TakePair leaves *)
LEMMA PairRecord ==
  ASSUME UrlInv, object.phase = "query", NEW i \in Nat, object.at = i, NEW a \in Nat,
         i = Len(ghost) + 1 \/ i \in Query!Separators,
         NEW u, u = Query!TakePair([object EXCEPT !.at = a], i)
  PROVE  /\ u \in UrlRecord /\ u.phase \in {"refused", "overrun", "query"} /\ u.at = a
         /\ u.phase = "refused" <=> object.value = 0
         /\ u.phase = "refused" /\ i \in Query!Separators => Query!Malformed
         /\ u.phase = "overrun" => Query!Unfit
         /\ u.phase = "query" =>
              /\ u.path = Query!PathText /\ u.value # 0
              /\ u.key = i + 1 /\ u.value = object.value /\ Len(u.query) = Len(object.query) + 1
              /\ \A n \in 1 .. Len(u.query) : /\ Query!EqualsIn(Query!Fields[n]) # {}
                                              /\ u.query[n] = Query!Divided(Query!Fields[n])
<1> DEFINE P == {Query!PathText, << >>}
           D == Seq({Query!Divided(f) : f \in Nat})
           q == PairPut(object, i)
<1>1. UrlType /\ UrlScanned(object) /\ object \in UrlRecord
  BY DEF UrlInv, UrlType, UrlRecord
<1>2. UrlRecord = [phase : {"path", "query", "refused", "overrun", "done"}, at : Nat,
                   path : P, key : Nat, value : Nat, query : D]
  BY DEF UrlRecord
<1>3. /\ object.key \in Nat /\ object.value \in Nat /\ object.query \in D
  BY <1>1, <1>2
<1>4. object.value # 0 =>
        /\ object.value > object.key =>
              /\ q \in D /\ Len(q) = Len(object.query) + 1
              /\ \A n \in 1 .. Len(q) : /\ Query!EqualsIn(Query!Fields[n]) # {}
                                        /\ q[n] = Query!Divided(Query!Fields[n])
        /\ Query!Overruns(object, i) => Query!Unfit
  <2>1. object.at \in Nat
    OBVIOUS
  <2>2. object.query \in Seq({Query!Divided(f) : f \in Nat})
    BY <1>3
  <2> QED BY <1>1, <1>3, <2>1, <2>2, PairTaken, Zenon
<1> DEFINE w == [object EXCEPT !.at = a]
           overruns == Query!Overruns(object, i)
<1>5. u = IF object.value = 0 THEN [w EXCEPT !.phase = "refused"]
          ELSE IF overruns THEN [w EXCEPT !.phase = "overrun"]
          ELSE [w EXCEPT !.query = q, !.key = i + 1]
  <2>1. w.value = object.value /\ w.key = object.key /\ w.query = object.query
    BY <1>1, <1>2
  <2> HIDE DEF w
  <2>2. Query!Overruns(w, i) = Query!Overruns(object, i)
    BY <2>1 DEF Query!Overruns
  <2>3. u = Query!TakePair(w, i)
    BY DEF w
  <2> QED BY <2>1, <2>2, <2>3 DEF Query!TakePair, Query!NoValue, PairPut
<1> HIDE DEF P, D, q, overruns
<1>6. /\ w \in UrlRecord /\ w.phase = "query" /\ w.at = a /\ w.value = object.value
      /\ w.path = Query!PathText
  BY <1>1, <1>2 DEF UrlScanned
<1> HIDE DEF w
<1>7. CASE object.value = 0
  <2>1. u = [w EXCEPT !.phase = "refused"]
    BY <1>5, <1>7
  <2>2. u \in UrlRecord /\ u.phase = "refused" /\ u.at = a
    BY <1>2, <1>6, <2>1
  <2>3. i \in Query!Separators => Query!Malformed
    BY <1>7, LateRefusal
  <2> QED BY <1>7, <2>2, <2>3
<1>8. CASE object.value # 0 /\ overruns
  <2>1. u = [w EXCEPT !.phase = "overrun"]
    BY <1>5, <1>8
  <2>2. u \in UrlRecord /\ u.phase = "overrun" /\ u.at = a
    BY <1>2, <1>6, <2>1
  <2>3. Query!Unfit
    BY <1>4, <1>8 DEF overruns
  <2> QED BY <1>8, <2>2, <2>3
<1>9. CASE object.value # 0 /\ ~overruns
  <2>1. u = [w EXCEPT !.query = q, !.key = i + 1]
    BY <1>5, <1>9
  <2>2. object.value > object.key
    <3>1. ~(object.value <= object.key)
      BY <1>9 DEF overruns, Query!Overruns
    <3> QED BY <1>3, <3>1
  <2>3. u \in UrlRecord
    <3>1. q \in D /\ i + 1 \in Nat
      BY <1>4, <1>9, <2>2
    <3> QED BY <1>2, <1>6, <2>1, <3>1
  <2>4. /\ u.phase = "query" /\ u.at = a /\ u.key = i + 1 /\ u.query = q
        /\ u.value = object.value /\ u.path = Query!PathText
    BY <1>2, <1>6, <2>1
  <2> QED BY <1>4, <1>9, <2>2, <2>3, <2>4
<1> QED BY <1>7, <1>8, <1>9

LEMMA UrlScan ==
  ASSUME UrlInv, Query!Scan
  PROVE  UrlInv'
<1> DEFINE i == object.at
           P == {Query!PathText, << >>}
           D == Seq({Query!Divided(f) : f \in Nat})
<1>1. /\ ghost' = ghost /\ object.phase = "query" /\ i <= Len(ghost)
      /\ object' = CASE ghost[i] = "=" -> [[object EXCEPT !.at = i + 1] EXCEPT !.value = i + 1]
                     [] ghost[i] = "&" -> Query!TakePair([object EXCEPT !.at = i + 1], i)
                     [] OTHER -> [object EXCEPT !.at = i + 1]
  BY DEF Query!Scan
<1>2. UrlType /\ UrlScanned(object) /\ object \in UrlRecord /\ ghost \in Query!Texts
  BY <1>1 DEF UrlInv, UrlType, UrlRecord
<1>3. UrlRecord = [phase : {"path", "query", "refused", "overrun", "done"}, at : Nat,
                   path : P, key : Nat, value : Nat, query : D]
  BY DEF UrlRecord
<1> HIDE DEF P, D
<1>4. /\ i \in Nat /\ object.key \in Nat /\ object.value \in Nat /\ object.query \in D
  BY <1>2, <1>3
<1>5. /\ DOMAIN ghost = 1 .. Len(ghost) /\ Len(ghost) \in Nat /\ Starts \subseteq Int
      /\ Starts \subseteq 1 .. Len(ghost) + 1
      /\ Query!At("=") \subseteq 1 .. Len(ghost) /\ IsFiniteSet(Starts)
  BY <1>2, UrlText
<1>6. PICK q \in Query!At("?") : Query!At("?") = {q}
  BY <1>2 DEF UrlScanned
<1>7. q \in 1 .. Len(ghost) /\ \A s \in Starts : s >= q + 1
  <2>1. q \in 1 .. Len(ghost) /\ Query!Separators \subseteq 1 .. Len(ghost)
    BY <1>2, UrlText
  <2>2. \A m \in Query!Separators : m > q
    BY <1>6, <2>1 DEF Query!Separators
  <2>3. \A s \in Starts : \E m \in {q} \union Query!Separators : s = m + 1
    BY <1>6 DEF Starts
  <2> QED BY <2>1, <2>2, <2>3
<1>8. /\ object.path = Query!PathText /\ (object.value = 0 => Len(object.query) = 0)
      /\ object.key \in Starts /\ object.key <= i
      /\ \A s \in Starts : s <= object.key \/ s > i
      /\ object.value # 0 => object.value - 1 \in Query!At("=") /\ object.value <= i
                             /\ \E s \in Starts : s < object.value
      /\ \A j \in Query!At("="), s \in Starts : s <= j /\ j < i
                                                  => object.value # 0 /\ j < object.value
      /\ Len(object.query) + 1 = Cardinality(UpTill(Starts, object.key))
      /\ \A n \in 1 .. Len(object.query) :
           /\ Query!EqualsIn(Query!Fields[n]) # {}
           /\ object.query[n] = Query!Divided(Query!Fields[n])
  BY <1>2 DEF UrlScanned
<1>9. i \in 1 .. Len(ghost) /\ i > q
  BY <1>1, <1>4, <1>7, <1>8
<1>10. ghost[i] # "?"
  BY <1>5, <1>6, <1>9 DEF Query!At
<1>11. ghost[i] # "&" => i + 1 \notin Starts
  <2> SUFFICES ASSUME ghost[i] # "&", i + 1 \in Starts PROVE FALSE
    OBVIOUS
  <2>1. PICK m \in Query!At("?") \union Query!Separators : i + 1 = m + 1
    BY DEF Starts
  <2>2. m \in Int /\ m = i
    <3>1. Query!At("?") \subseteq 1 .. Len(ghost) /\ Query!Separators \subseteq 1 .. Len(ghost)
      BY <1>2, UrlText
    <3>2. m \in 1 .. Len(ghost)
      BY <3>1
    <3> HIDE DEF i
    <3> QED BY <1>4, <2>1, <3>2
  <2>3. ghost[m] = "?" \/ ghost[m] = "&"
    BY <2>1 DEF Query!Separators, Query!At
  <2> QED BY <1>10, <2>2, <2>3
<1>12. ghost[i] # "&" => \A s \in Starts : s <= object.key \/ s > i + 1
  BY <1>4, <1>5, <1>8, <1>11
<1>13. i \in Query!At("=") <=> ghost[i] = "="
  BY <1>5, <1>9 DEF Query!At
<1> HIDE DEF i
<1>14. CASE ghost[i] = "="
  <2>1. object' = [object EXCEPT !.at = i + 1, !.value = i + 1]
    BY <1>1, <1>14
  <2>2. /\ object' \in UrlRecord /\ object'.phase = "query" /\ object'.at = i + 1
        /\ object'.value = i + 1 /\ object'.key = object.key /\ object'.query = object.query
        /\ object'.path = object.path
    <3>1. i + 1 \in Nat /\ object.phase = "query"
      BY <1>1, <1>4
    <3> QED BY <1>2, <1>3, <2>1, <3>1
  <2>3. i + 1 <= Len(ghost) + 1 /\ object.key <= i + 1 /\ i + 1 # 0 /\ i + 1 - 1 = i
        /\ i + 1 <= i + 1
    BY <1>4, <1>8, <1>9
  <2>4. \E s \in Starts : s < i + 1
    BY <1>4, <1>8
  <2>5. \A j \in Query!At("="), s \in Starts : s <= j /\ j < i + 1 => i + 1 # 0 /\ j < i + 1
    BY <1>4
  <2>6. \A s \in Starts : s <= object.key \/ s > i + 1
    BY <1>12, <1>14
  <2>7. UrlScanned(object')
    <3>1. object'.value - 1 \in Query!At("=") /\ object'.value <= object'.at
      <4>1. i \in Query!At("=")
        BY <1>13, <1>14
      <4>2. object'.value = i + 1 /\ object'.at = i + 1
        BY <2>2
      <4>3. object'.value - 1 = i /\ object'.value <= object'.at
        BY <1>4, <4>2
      <4> QED BY <4>1, <4>3
    <3>2. \E s \in Starts : s < object'.value
      BY <2>2, <2>4
    <3>3. \A j \in Query!At("="), s \in Starts : s <= j /\ j < object'.at
                                            => object'.value # 0 /\ j < object'.value
      BY <2>2, <2>5
    <3>4. object'.at <= Len(ghost) + 1 /\ object'.key <= object'.at
      BY <2>2, <2>3
    <3>5. /\ object'.path = Query!PathText /\ object'.key \in Starts
          /\ object'.value # 0 /\ Query!At("?") = {q}
      BY <1>6, <1>8, <2>2, <2>3
    <3>6. \A s \in Starts : s <= object'.key \/ s > object'.at
      BY <2>2, <2>6
    <3>7. Len(object'.query) + 1 = Cardinality(UpTill(Starts, object'.key))
      BY <1>8, <2>2
    <3>8. \A n \in 1 .. Len(object'.query) :
            /\ Query!EqualsIn(Query!Fields[n]) # {}
            /\ object'.query[n] = Query!Divided(Query!Fields[n])
      BY <1>8, <2>2
    <3> QED BY <1>6, <3>1, <3>2, <3>3, <3>4, <3>5, <3>6, <3>7, <3>8, Zenon DEF UrlScanned
  <2> QED BY <1>1, <2>2, <2>7, UrlAfter
<1>15. CASE ghost[i] = "&"
  <2>1. object' = Query!TakePair([object EXCEPT !.at = i + 1], i)
    BY <1>1, <1>15
  <2>2. i \in Query!Separators /\ i + 1 \in Nat /\ i + 1 \in Starts
    <3>1. i \in Query!Separators
      BY <1>5, <1>7, <1>9, <1>15 DEF Query!Separators, Query!At
    <3> QED BY <1>4, <3>1 DEF Starts
  <2>3. /\ object' \in UrlRecord /\ object'.phase \in {"refused", "overrun", "query"}
        /\ object'.at = i + 1
        /\ object'.phase = "refused" => Query!Malformed
        /\ object'.phase = "overrun" => Query!Unfit
        /\ object'.phase = "query" =>
              /\ object'.path = Query!PathText /\ object'.value # 0
              /\ object'.key = i + 1 /\ object'.value = object.value
              /\ Len(object'.query) = Len(object.query) + 1
              /\ \A n \in 1 .. Len(object'.query) :
                   /\ Query!EqualsIn(Query!Fields[n]) # {}
                   /\ object'.query[n] = Query!Divided(Query!Fields[n])
    <3>1. object.phase = "query" /\ object.at = i /\ i \in Nat /\ i + 1 \in Nat
      BY <1>1, <1>4 DEF i
    <3>2. (i = Len(ghost) + 1 \/ i \in Query!Separators) /\ i \in Query!Separators
      BY <2>2
    <3> HIDE DEF i
    <3> QED BY <2>1, <3>1, <3>2, PairRecord
  <2>4. ASSUME object'.phase = "query" PROVE UrlScanned(object')
    <3>1. /\ object'.key = i + 1 /\ object'.value = object.value /\ object.value # 0
          /\ object'.path = Query!PathText /\ Len(object'.query) = Len(object.query) + 1
          /\ \A n \in 1 .. Len(object'.query) :
               /\ Query!EqualsIn(Query!Fields[n]) # {}
               /\ object'.query[n] = Query!Divided(Query!Fields[n])
      BY <2>3, <2>4
    <3>2. i + 1 <= Len(ghost) + 1 /\ i + 1 <= i + 1 /\ \A s \in Starts : s <= i + 1 \/ s > i + 1
      BY <1>4, <1>5, <1>9
    <3>3. /\ object.value - 1 \in Query!At("=") /\ object.value <= i + 1
          /\ \E s \in Starts : s < object.value
      BY <1>4, <1>8, <3>1
    <3>4. \A j \in Query!At("="), s \in Starts : s <= j /\ j < i + 1 => j < object.value
      <4> SUFFICES ASSUME NEW j \in Query!At("="), NEW s \in Starts, s <= j, j < i + 1
                   PROVE  j < object.value
        OBVIOUS
      <4>1. j \in Int /\ j # i
        BY <1>5, <1>13, <1>15
      <4>2. j < i
        BY <1>4, <4>1
      <4> QED BY <1>8, <4>2
    <3>5. Len(object'.query) + 1 = Cardinality(UpTill(Starts, i + 1))
      <4>1. UpTill(Starts, i + 1) = UpTill(Starts, object.key) \union {i + 1}
        <5>1. ASSUME NEW s PROVE s \in Starts /\ s <= i + 1
                                   <=> (s \in Starts /\ s <= object.key) \/ s = i + 1
          <6>1. CASE s \in Starts
            <7>1. s \in Int /\ (s <= object.key \/ s > i)
              BY <1>5, <1>8, <6>1
            <7> QED BY <1>4, <1>8, <6>1, <7>1
          <6>2. CASE s \notin Starts
            BY <2>2, <6>2
          <6> QED BY <6>1, <6>2
        <5> QED BY <5>1 DEF UpTill
      <4>2. IsFiniteSet(UpTill(Starts, object.key)) /\ i + 1 \notin UpTill(Starts, object.key)
        <5>1. UpTill(Starts, object.key) \in SUBSET Starts
          BY DEF UpTill
        <5>2. ~(i + 1 <= object.key)
          BY <1>4, <1>8
        <5>3. i + 1 \notin UpTill(Starts, object.key)
          BY <5>2 DEF UpTill
        <5> QED BY <1>5, <5>1, <5>3, FS_Subset
      <4>3. Cardinality(UpTill(Starts, i + 1)) = Cardinality(UpTill(Starts, object.key)) + 1
        BY <4>1, <4>2, FS_AddElement
      <4> QED BY <1>8, <3>1, <4>3
    <3> QED BY <1>6, <2>2, <2>3, <3>1, <3>2, <3>3, <3>4, <3>5 DEF UrlScanned
  <2> QED BY <1>1, <2>3, <2>4, UrlAfter
<1>16. CASE ghost[i] # "=" /\ ghost[i] # "&"
  <2>1. object' = [object EXCEPT !.at = i + 1]
    BY <1>1, <1>16
  <2>2. /\ object' \in UrlRecord /\ object'.phase = "query" /\ object'.at = i + 1
        /\ object'.value = object.value /\ object'.key = object.key
        /\ object'.query = object.query /\ object'.path = object.path
    <3>1. i + 1 \in Nat /\ object.phase = "query"
      BY <1>1, <1>4
    <3> QED BY <1>2, <1>3, <2>1, <3>1
  <2>3. i + 1 <= Len(ghost) + 1 /\ object.key <= i + 1 /\ (object.value <= i => object.value <= i + 1)
    BY <1>4, <1>8, <1>9
  <2>4. \A j \in Query!At("="), s \in Starts : s <= j /\ j < i + 1
                                                => object.value # 0 /\ j < object.value
    <3> SUFFICES ASSUME NEW j \in Query!At("="), NEW s \in Starts, s <= j, j < i + 1
                 PROVE  object.value # 0 /\ j < object.value
      OBVIOUS
    <3>1. j \in Int /\ j # i
      BY <1>5, <1>13, <1>16
    <3>2. j < i
      BY <1>4, <3>1
    <3> QED BY <1>8, <3>2
  <2>5. \A s \in Starts : s <= object.key \/ s > i + 1
    BY <1>12, <1>16
  <2>6. UrlScanned(object')
    BY <1>6, <1>8, <2>2, <2>3, <2>4, <2>5 DEF UrlScanned
  <2> QED BY <1>1, <2>2, <2>6, UrlAfter
<1> QED BY <1>14, <1>15, <1>16

LEMMA UrlEnd ==
  ASSUME UrlInv, Query!End
  PROVE  UrlInv'
<1> DEFINE i == object.at
           last == IF object.value = 0 THEN object ELSE Query!TakePair(object, i)
           P == {Query!PathText, << >>}
           D == Seq({Query!Divided(f) : f \in Nat})
<1>1. /\ ghost' = ghost /\ object.phase = "query" /\ i > Len(ghost)
      /\ object' = IF last.phase = "query" THEN [last EXCEPT !.phase = "done"] ELSE last
  BY DEF Query!End, Query!NoValue
<1>2. UrlType /\ UrlScanned(object) /\ object \in UrlRecord /\ ghost \in Query!Texts
  BY <1>1 DEF UrlInv, UrlType, UrlRecord
<1>3. UrlRecord = [phase : {"path", "query", "refused", "overrun", "done"}, at : Nat,
                   path : P, key : Nat, value : Nat, query : D]
  BY DEF UrlRecord
<1>4. /\ i \in Nat /\ object.key \in Nat /\ object.value \in Nat /\ object.query \in D
  BY <1>2, <1>3
<1>5. Len(object.query) \in Nat /\ (Len(object.query) = 0 => object.query = << >>)
  BY <1>4
<1>6. /\ Len(ghost) \in Nat /\ Starts \subseteq Int /\ Starts \subseteq 1 .. Len(ghost) + 1
      /\ Query!At("=") \subseteq 1 .. Len(ghost)
  BY <1>2, UrlText
<1>7. /\ DOMAIN Query!Fields = 1 .. Cardinality(Starts) /\ Cardinality(Starts) \in Nat
      /\ \A n \in 1 .. Cardinality(Starts) : Query!Fields[n] \in Starts
  BY <1>2, UrlFields
<1> HIDE DEF P, D
<1>8. /\ object.path = Query!PathText
      /\ i <= Len(ghost) + 1 /\ object.key \in Starts
      /\ \A s \in Starts : s <= object.key \/ s > i
      /\ \A j \in Query!At("="), s \in Starts : s <= j /\ j < i
                                                  => object.value # 0 /\ j < object.value
      /\ Len(object.query) + 1 = Cardinality(UpTill(Starts, object.key))
      /\ \A n \in 1 .. Len(object.query) : Query!EqualsIn(Query!Fields[n]) # {}
  BY <1>2 DEF UrlScanned
<1> HIDE DEF i
<1>9. i = Len(ghost) + 1
  BY <1>1, <1>4, <1>6, <1>8
<1>10. Cardinality(UpTill(Starts, object.key)) = Cardinality(Starts)
  <2>1. \A s \in Starts : s <= object.key
    <3> SUFFICES ASSUME NEW s \in Starts PROVE s <= object.key
      OBVIOUS
    <3>1. s \in 1 .. Len(ghost) + 1
      BY <1>6
    <3>2. ~(s > i)
      BY <1>6, <1>9, <3>1
    <3> QED BY <1>8, <3>2
  <2>2. UpTill(Starts, object.key) = Starts
    BY <2>1 DEF UpTill
  <2> QED BY <2>2
<1>11. CASE object.value = 0
  <2>1. object' = [object EXCEPT !.phase = "done"]
    BY <1>1, <1>11
  <2>2. /\ object' \in UrlRecord /\ object'.phase = "done" /\ object'.query = object.query
        /\ object'.path = object.path
    BY <1>2, <1>3, <2>1
  <2>3. \A n \in DOMAIN Query!Fields : Query!EqualsIn(Query!Fields[n]) = {}
    <3> SUFFICES ASSUME NEW n \in 1 .. Cardinality(Starts),
                        NEW j \in Query!EqualsIn(Query!Fields[n]) PROVE FALSE
      BY <1>7
    <3>1. Query!Fields[n] \in Starts /\ Query!Fields[n] <= j /\ j \in Query!At("=")
      BY <1>7 DEF Query!EqualsIn
    <3>2. j < i
      BY <1>6, <1>9, <3>1
    <3> QED BY <1>8, <1>11, <3>1, <3>2
  <2>4. object.query = << >>
    <3>1. ASSUME Len(object.query) # 0 PROVE FALSE
      <4>1. 1 \in 1 .. Len(object.query) /\ 1 \in 1 .. Cardinality(Starts)
        BY <1>5, <1>7, <1>8, <1>10, <3>1
      <4> QED BY <1>7, <1>8, <2>3, <4>1
    <3> QED BY <1>5, <3>1
  <2>5. UrlDone(object')
    BY <1>8, <2>2, <2>3, <2>4 DEF UrlDone
  <2> QED BY <1>1, <2>2, <2>5, UrlAfter
<1>12. CASE object.value # 0
  <2>1. object = [object EXCEPT !.at = i]
    <3>1. object = [phase |-> object.phase, at |-> object.at, path |-> object.path,
                    key |-> object.key, value |-> object.value, query |-> object.query]
      BY <1>2, <1>3
    <3> QED BY <3>1 DEF i
  <2>2. last = Query!TakePair([object EXCEPT !.at = i], i)
    BY <1>12, <2>1
  <2> HIDE DEF last
  <2>3. /\ last \in UrlRecord /\ last.phase \in {"refused", "overrun", "query"}
        /\ last.phase = "refused" <=> object.value = 0
        /\ last.phase = "overrun" => Query!Unfit
        /\ last.phase = "query" =>
              /\ last.path = Query!PathText
              /\ Len(last.query) = Len(object.query) + 1
              /\ \A n \in 1 .. Len(last.query) :
                   /\ Query!EqualsIn(Query!Fields[n]) # {}
                   /\ last.query[n] = Query!Divided(Query!Fields[n])
    <3>1. object.at = i
      BY DEF i
    <3> QED BY <1>1, <1>4, <1>9, <2>2, <3>1, PairRecord
  <2>4. CASE last.phase = "query"
    <3>1. object' = [last EXCEPT !.phase = "done"]
      BY <1>1, <2>4
    <3>2. /\ object' \in UrlRecord /\ object'.phase = "done" /\ object'.query = last.query
          /\ object'.path = last.path /\ last.query \in D
      BY <1>3, <2>3, <3>1
    <3>3. Len(last.query) = Cardinality(Starts)
      BY <1>8, <1>10, <2>3, <2>4
    <3>4. last.query = [n \in 1 .. Cardinality(Starts) |-> last.query[n]]
      BY <1>7, <3>2, <3>3, SeqAsFunction DEF D
    <3>5. last.query = [n \in DOMAIN Query!Fields |-> Query!Divided(Query!Fields[n])]
      <4>1. \A n \in 1 .. Cardinality(Starts) :
              last.query[n] = Query!Divided(Query!Fields[n])
        BY <2>3, <2>4, <3>3
      <4> QED BY <1>7, <3>4, <4>1, Zenon
    <3>6. \E n \in DOMAIN Query!Fields : Query!EqualsIn(Query!Fields[n]) # {}
      <4>1. 1 \in 1 .. Cardinality(Starts)
        BY <1>5, <1>7, <1>8, <1>10
      <4> QED BY <1>7, <2>3, <2>4, <3>3, <4>1
    <3>7. UrlDone(object')
      BY <2>3, <2>4, <3>2, <3>5, <3>6 DEF UrlDone
    <3> QED BY <1>1, <3>2, <3>7, UrlAfter
  <2>5. CASE last.phase = "overrun"
    <3>1. object' = last
      BY <1>1, <2>5
    <3> QED BY <1>1, <2>3, <2>5, <3>1, UrlAfter
  <2> QED BY <1>12, <2>3, <2>4, <2>5
<1> QED BY <1>11, <1>12

LEMMA UrlStep == UrlInv /\ Query!Next => UrlInv'
BY UrlPath, UrlScan, UrlEnd DEF Query!Next

LEMMA LibraryUrl == Spec => [](part = "url" => UrlInv)
<1> DEFINE Inv == part = "url" => UrlInv
<1>1. Init => Inv
  BY UrlStarts DEF Init
<1>2. Inv /\ [Next]_vars => Inv'
  <2> SUFFICES ASSUME Inv, [Next]_vars, part' = "url" PROVE UrlInv'
    OBVIOUS
  <2>1. CASE UNCHANGED vars
    <3>1. object' = object /\ ghost' = ghost /\ part = "url"
      BY <2>1 DEF vars
    <3>2. UrlInv
      BY <3>1
    <3>3. /\ object' \in UrlRecord
          /\ object'.phase = "path" => object'.query = << >> /\ object'.value = 0
          /\ object'.phase = "query" => UrlScanned(object')
          /\ object'.phase = "done" => UrlDone(object')
          /\ object'.phase = "refused" => Query!Malformed
          /\ object'.phase = "overrun" => Query!Unfit
      BY <3>1, <3>2 DEF UrlInv, UrlType, UrlRecord, Query!QueryHolds, UrlDone
    <3> QED BY <3>1, <3>2, <3>3, UrlAfter
  <2>2. CASE Next
    <3>1. part' = part /\ Query!Next
      BY <2>2 DEF Next, UseHeap, UseVector, UseTree, UseMap, UseQueue, UseTimer, UseGetopt,
         UseHttp, UseSort, UseUrl, UseMd5, UseSerial
    <3> QED BY <3>1, UrlStep
  <2> QED BY <2>1, <2>2
<1> QED BY <1>1, <1>2, PTL DEF Spec

(* For texts of any length and arrays of any sizes: what                   *)
(* bscl_url_new_from_text takes has the path before the "?" and the query  *)
(* divided into its fields, each at its last "=", in their order; it       *)
(* refuses only a text without a path or a single "?", or one whose first  *)
(* field has no "=" though others follow; and what it copies runs over     *)
(* only where a path, a key or a value does not fit its PATH_MAX           *)
(* characters, at a field too many for the places of the query, or at one  *)
(* without a "=" behind a field that has it.                               *)
THEOREM LibraryQueryHolds == Spec => []QueryHolds
<1>1. (part = "url" => UrlInv) => QueryHolds
  BY DEF QueryHolds, UrlInv
<1> QED BY <1>1, LibraryUrl, PTL

-----------------------------------------------------------------------------
(* The command line. *)
LEMMA WordsInOrder == \A S : Words!InOrder(S) = InOrder(S)
BY DEF Words!InOrder, InOrder, Words!Cardinality, Cardinality, Words!IsFiniteSet, IsFiniteSet

(* What a sequence of words is about, as Getopt says it of its own words *)
NamedIn(w, i) == {j \in {k \in DOMAIN w : w[k].patern # NONE} : j <= i}
AboutIn(w, i) ==
  IF NamedIn(w, i) = {} THEN Plain
  ELSE w[CHOOSE j \in NamedIn(w, i) : \A k \in NamedIn(w, i) : k <= j].patern
MineIn(w, p) == {i \in DOMAIN w : AboutIn(w, i) = p /\ w[i].arg # NONE}
FirstIn(w) == {i \in DOMAIN w : \A j \in 1 .. i - 1 : AboutIn(w, j) # AboutIn(w, i)}
ArgsIn(w, p) == [n \in 1 .. Cardinality(MineIn(w, p)) |-> w[InOrder(MineIn(w, p))[n]].arg]
NthAbout(w, n) == AboutIn(w, InOrder(FirstIn(w))[n])
OptionsIn(w) == [n \in 1 .. Cardinality(FirstIn(w)) |->
                   [patern |-> NthAbout(w, n), args |-> ArgsIn(w, NthAbout(w, n))]]

LEMMA ExpectedIs == Words!Expected = OptionsIn(ghost.words)
<1> DEFINE w == ghost.words
<1>1. \A i : Words!About(i) = AboutIn(w, i)
  BY DEF Words!About, Words!Named, AboutIn, NamedIn
<1>2. \A p : Words!ArgsOf(p) = ArgsIn(w, p)
  <2> SUFFICES ASSUME NEW p PROVE Words!ArgsOf(p) = ArgsIn(w, p)
    OBVIOUS
  <2> DEFINE M == {i \in DOMAIN w : Words!About(i) = p /\ w[i].arg # NONE}
  <2>1. M = MineIn(w, p)
    BY <1>1 DEF MineIn
  <2>2. Words!ArgsOf(p) = [n \in DOMAIN Words!InOrder(M) |-> w[Words!InOrder(M)[n]].arg]
    BY DEF Words!ArgsOf
  <2> HIDE DEF M
  <2>3. Words!InOrder(M) = InOrder(M) /\ DOMAIN InOrder(M) = 1 .. Cardinality(M)
    BY WordsInOrder DEF InOrder
  <2> HIDE DEF w
  <2> QED BY <2>1, <2>2, <2>3 DEF ArgsIn
<1>3. Words!Firsts = InOrder(FirstIn(w))
  BY <1>1, WordsInOrder DEF Words!Firsts, FirstIn
<1>4. DOMAIN InOrder(FirstIn(w)) = 1 .. Cardinality(FirstIn(w))
  BY DEF InOrder
<1>5. Words!Expected = [n \in DOMAIN Words!Firsts |->
                          [patern |-> Words!About(Words!Firsts[n]),
                           args |-> Words!ArgsOf(Words!About(Words!Firsts[n]))]]
  BY DEF Words!Expected
<1> HIDE DEF w
<1> QED BY <1>1, <1>2, <1>3, <1>4, <1>5, Zenon DEF OptionsIn, NthAbout, w

LEMMA WordPlaces ==
  ASSUME NEW w \in Seq(Words!Words)
  PROVE  /\ \A p : MineIn(w, p) \subseteq 1 .. Len(w) /\ MineIn(w, p) \subseteq Int
                   /\ IsFiniteSet(MineIn(w, p)) /\ Cardinality(MineIn(w, p)) \in Nat
         /\ FirstIn(w) \subseteq 1 .. Len(w) /\ FirstIn(w) \subseteq Int
         /\ IsFiniteSet(FirstIn(w)) /\ Cardinality(FirstIn(w)) \in Nat
<1>1. DOMAIN w = 1 .. Len(w) /\ Len(w) \in Nat /\ 1 \in Int
  OBVIOUS
<1>2. IsFiniteSet(1 .. Len(w)) /\ 1 .. Len(w) \subseteq Int
  BY <1>1, FS_Interval
<1>3. \A p : MineIn(w, p) \in SUBSET (1 .. Len(w))
  BY <1>1 DEF MineIn
<1>4. FirstIn(w) \in SUBSET (1 .. Len(w))
  BY <1>1 DEF FirstIn
<1> QED BY <1>2, <1>3, <1>4, FS_Subset, FS_CardinalityType

(* One word more *)
Grows(w, x, v) == w \in Seq(Words!Words) /\ x \in Words!Words /\ v = Append(w, x)

LEMMA AboutGrows ==
  ASSUME NEW w, NEW x, NEW v, Grows(w, x, v)
  PROVE  /\ v \in Seq(Words!Words) /\ Len(v) = Len(w) + 1
         /\ \A i \in 1 .. Len(w) : v[i] = w[i] /\ AboutIn(v, i) = AboutIn(w, i)
         /\ v[Len(w) + 1] = x
         /\ AboutIn(v, Len(w) + 1) = IF x.patern # NONE THEN x.patern
                                     ELSE IF w = << >> THEN Plain ELSE AboutIn(w, Len(w))
<1>0. w \in Seq(Words!Words) /\ x \in Words!Words /\ v = Append(w, x)
  BY DEF Grows
<1>1. /\ v \in Seq(Words!Words) /\ Len(v) = Len(w) + 1 /\ Len(w) \in Nat
      /\ DOMAIN v = 1 .. Len(w) + 1 /\ DOMAIN w = 1 .. Len(w)
      /\ \A i \in 1 .. Len(w) : v[i] = w[i]
      /\ v[Len(w) + 1] = x /\ (w = << >> <=> Len(w) = 0)
  <2>1. \A i \in 1 .. Len(w) + 1 : v[i] = IF i <= Len(w) THEN w[i] ELSE x
    BY <1>0, AppendFacts
  <2>2. v \in Seq(Words!Words) /\ Len(v) = Len(w) + 1 /\ Len(w) \in Nat
    BY <1>0, AppendFacts
  <2> QED BY <2>1, <2>2
<1>2. ASSUME NEW i \in 1 .. Len(w)
      PROVE  /\ NamedIn(v, i) = NamedIn(w, i) /\ NamedIn(w, i) \subseteq 1 .. Len(w)
             /\ x.patern = NONE /\ i = Len(w) => NamedIn(v, i + 1) = NamedIn(w, i)
  <2>1. \A j : j \in NamedIn(v, i) <=> j \in NamedIn(w, i)
    BY <1>1 DEF NamedIn
  <2>2. NamedIn(w, i) \subseteq 1 .. Len(w)
    BY <1>1 DEF NamedIn
  <2>3. ASSUME x.patern = NONE, i = Len(w)
        PROVE  \A j : j \in NamedIn(v, i + 1) <=> j \in NamedIn(w, i)
    BY <1>1, <2>3 DEF NamedIn
  <2> QED BY <2>1, <2>2, <2>3
<1>3. ASSUME NEW S, S \subseteq 1 .. Len(w), S # {}
      PROVE  (CHOOSE j \in S : \A k \in S : k <= j) \in 1 .. Len(w)
  <2>1. \E j \in S : \A k \in S : k <= j
    <3>1. S \subseteq 0 .. Len(w)
      BY <1>1, <1>3
    <3> QED BY <1>1, <1>3, <3>1, Maximum
  <2> QED BY <1>3, <2>1
<1>4. ASSUME NEW i \in 1 .. Len(w) PROVE AboutIn(v, i) = AboutIn(w, i)
  <2>1. NamedIn(v, i) = NamedIn(w, i) /\ NamedIn(w, i) \subseteq 1 .. Len(w)
    BY <1>2
  <2>2. NamedIn(w, i) # {} =>
          (CHOOSE j \in NamedIn(w, i) : \A k \in NamedIn(w, i) : k <= j) \in 1 .. Len(w)
    BY <1>3, <2>1
  <2> QED BY <1>1, <2>1, <2>2 DEF AboutIn
<1>5. CASE x.patern # NONE
  <2>1. Len(w) + 1 \in NamedIn(v, Len(w) + 1)
    BY <1>1, <1>5 DEF NamedIn
  <2>2. \A k \in NamedIn(v, Len(w) + 1) : k <= Len(w) + 1 /\ k \in Int
    BY <1>1 DEF NamedIn
  <2>3. (CHOOSE j \in NamedIn(v, Len(w) + 1) : \A k \in NamedIn(v, Len(w) + 1) : k <= j)
           = Len(w) + 1
    BY <1>1, <2>1, <2>2
  <2>4. AboutIn(v, Len(w) + 1) = x.patern
    BY <1>1, <2>1, <2>3 DEF AboutIn
  <2> QED BY <1>1, <1>4, <1>5, <2>4
<1>6. CASE x.patern = NONE
  <2>1. CASE w = << >>
    <3>1. NamedIn(v, Len(w) + 1) = {}
      BY <1>1, <1>6, <2>1 DEF NamedIn
    <3>2. AboutIn(v, Len(w) + 1) = Plain
      BY <3>1 DEF AboutIn
    <3> QED BY <1>1, <1>4, <1>6, <2>1, <3>2
  <2>2. CASE w # << >>
    <3>1. Len(w) \in 1 .. Len(w)
      BY <1>1, <2>2
    <3>2. /\ NamedIn(v, Len(w) + 1) = NamedIn(w, Len(w))
          /\ NamedIn(w, Len(w)) \subseteq 1 .. Len(w)
      BY <1>2, <1>6, <3>1
    <3>3. NamedIn(w, Len(w)) # {} =>
            (CHOOSE j \in NamedIn(w, Len(w)) : \A k \in NamedIn(w, Len(w)) : k <= j)
              \in 1 .. Len(w)
      BY <1>3, <3>2
    <3>4. AboutIn(v, Len(w) + 1) = AboutIn(w, Len(w))
      <4> DEFINE S == NamedIn(w, Len(w))
                 c == CHOOSE j \in S : \A k \in S : k <= j
      <4>1. /\ AboutIn(w, Len(w)) = IF S = {} THEN Plain ELSE w[c].patern
            /\ AboutIn(v, Len(w) + 1) = IF S = {} THEN Plain ELSE v[c].patern
        <5>1. AboutIn(w, Len(w)) = IF S = {} THEN Plain ELSE w[c].patern
          BY DEF AboutIn
        <5>2. NamedIn(v, Len(w) + 1) = S
          BY <3>2
        <5>3. AboutIn(v, Len(w) + 1) = IF NamedIn(v, Len(w) + 1) = {} THEN Plain
                ELSE v[CHOOSE j \in NamedIn(v, Len(w) + 1) :
                         \A k \in NamedIn(v, Len(w) + 1) : k <= j].patern
          BY DEF AboutIn
        <5> HIDE DEF S
        <5> QED BY <5>1, <5>2, <5>3, Zenon
      <4>2. S # {} => c \in 1 .. Len(w)
        BY <3>3
      <4> HIDE DEF S, c
      <4> QED BY <1>1, <4>1, <4>2
    <3> QED BY <1>1, <1>4, <1>6, <2>2, <3>4
  <2> QED BY <2>1, <2>2
<1> QED BY <1>5, <1>6

(* The places of the arguments and of the first words, with one word more *)
LEMMA WordGrows ==
  ASSUME NEW w, NEW x, NEW v, Grows(w, x, v)
  PROVE  /\ DOMAIN v = 1 .. Len(w) + 1 /\ DOMAIN w = 1 .. Len(w) /\ Len(w) \in Nat
         /\ v[Len(w) + 1] = x
         /\ \A i \in 1 .. Len(w) : v[i] = w[i]
         /\ \A i \in 1 .. Len(w) : AboutIn(v, i) = AboutIn(w, i)
<1>1. v \in Seq(Words!Words) /\ Len(v) = Len(w) + 1 /\ v[Len(w) + 1] = x
  BY AboutGrows
<1>2. \A i \in 1 .. Len(w) : v[i] = w[i]
  BY AboutGrows
<1>3. \A i \in 1 .. Len(w) : AboutIn(v, i) = AboutIn(w, i)
  BY AboutGrows
<1>4. DOMAIN v = 1 .. Len(v) /\ DOMAIN w = 1 .. Len(w) /\ Len(w) \in Nat
  BY <1>1 DEF Grows
<1> QED BY <1>1, <1>2, <1>3, <1>4

LEMMA MineGrows ==
  ASSUME NEW w, NEW x, NEW v, Grows(w, x, v), NEW p
  PROVE  /\ AboutIn(v, Len(w) + 1) = p /\ x.arg # NONE =>
              MineIn(v, p) = MineIn(w, p) \union {Len(w) + 1}
         /\ ~(AboutIn(v, Len(w) + 1) = p /\ x.arg # NONE) => MineIn(v, p) = MineIn(w, p)
<1>0. /\ DOMAIN v = 1 .. Len(w) + 1 /\ DOMAIN w = 1 .. Len(w) /\ Len(w) \in Nat
      /\ v[Len(w) + 1] = x
  BY WordGrows
<1>1. \A i \in 1 .. Len(w) : v[i] = w[i]
  BY WordGrows
<1>2. \A i \in 1 .. Len(w) : AboutIn(v, i) = AboutIn(w, i)
  BY WordGrows
<1> DEFINE n == Len(w)
           takes == AboutIn(v, n + 1) = p /\ x.arg # NONE
<1>3. \A i \in 1 .. n : i \in MineIn(v, p) <=> i \in MineIn(w, p)
  BY <1>0, <1>1, <1>2 DEF MineIn
<1>4. n + 1 \in MineIn(v, p) <=> takes
  BY <1>0 DEF MineIn
<1>5. MineIn(v, p) \subseteq 1 .. n + 1 /\ MineIn(w, p) \subseteq 1 .. n /\ n \in Nat
  BY <1>0 DEF MineIn
<1> HIDE DEF n, takes
<1>6. \A i : i \in MineIn(v, p) <=> i \in MineIn(w, p) \/ (i = n + 1 /\ takes)
  BY <1>3, <1>4, <1>5
<1>7. /\ takes => MineIn(v, p) = MineIn(w, p) \union {n + 1}
      /\ ~takes => MineIn(v, p) = MineIn(w, p)
  BY <1>6
<1> QED BY <1>7 DEF n, takes

LEMMA FirstGrows ==
  ASSUME NEW w, NEW x, NEW v, Grows(w, x, v)
  PROVE  FirstIn(v) = IF \A j \in 1 .. Len(w) : AboutIn(w, j) # AboutIn(v, Len(w) + 1)
                      THEN FirstIn(w) \union {Len(w) + 1} ELSE FirstIn(w)
<1>0. /\ DOMAIN v = 1 .. Len(w) + 1 /\ DOMAIN w = 1 .. Len(w) /\ Len(w) \in Nat
  BY WordGrows
<1>1. \A i \in 1 .. Len(w) : AboutIn(v, i) = AboutIn(w, i)
  BY WordGrows
<1> DEFINE n == Len(w)
           fresh == \A j \in 1 .. n : AboutIn(w, j) # AboutIn(v, n + 1)
<1>2. ASSUME NEW i \in 1 .. n PROVE i \in FirstIn(v) <=> i \in FirstIn(w)
  <2>1. i \in 1 .. n + 1 /\ \A j \in 1 .. i - 1 : j \in 1 .. n
    BY <1>0
  <2>2. i \in FirstIn(v) <=> \A j \in 1 .. i - 1 : AboutIn(v, j) # AboutIn(v, i)
    BY <1>0, <2>1 DEF FirstIn
  <2>3. i \in FirstIn(w) <=> \A j \in 1 .. i - 1 : AboutIn(w, j) # AboutIn(w, i)
    BY <1>0 DEF FirstIn
  <2>4. AboutIn(v, i) = AboutIn(w, i) /\ \A j \in 1 .. i - 1 : AboutIn(v, j) = AboutIn(w, j)
    BY <1>1, <2>1
  <2> QED BY <2>2, <2>3, <2>4
<1>3. n + 1 \in FirstIn(v) <=> fresh
  <2>1. n + 1 \in 1 .. n + 1 /\ 1 .. n + 1 - 1 = 1 .. n
    BY <1>0
  <2>2. n + 1 \in FirstIn(v) <=> \A j \in 1 .. n + 1 - 1 : AboutIn(v, j) # AboutIn(v, n + 1)
    BY <1>0, <2>1 DEF FirstIn
  <2>3. n + 1 \in FirstIn(v) <=> \A j \in 1 .. n : AboutIn(v, j) # AboutIn(v, n + 1)
    <3> HIDE DEF n
    <3> QED BY <2>1, <2>2
  <2> QED BY <1>1, <2>3
<1>4. FirstIn(v) \subseteq 1 .. n + 1 /\ FirstIn(w) \subseteq 1 .. n /\ n \in Nat
  BY <1>0 DEF FirstIn
<1> HIDE DEF n, fresh
<1>5. \A i : i \in FirstIn(v) <=> i \in FirstIn(w) \/ (i = n + 1 /\ fresh)
  BY <1>2, <1>3, <1>4
<1>6. FirstIn(v) = IF fresh THEN FirstIn(w) \union {n + 1} ELSE FirstIn(w)
  BY <1>5
<1> QED BY <1>6 DEF n, fresh

(* The arguments of an option are those of its words. *)
LEMMA ArgsFacts ==
  ASSUME NEW w \in Seq(Words!Words), NEW p
  PROVE  /\ ArgsIn(w, p) \in Seq(Args) /\ Len(ArgsIn(w, p)) = Cardinality(MineIn(w, p))
<1>1. \A n \in 1 .. Cardinality(MineIn(w, p)) :
        InOrder(MineIn(w, p))[n] \in MineIn(w, p)
  BY WordPlaces, InOrderOnto
<1>2. \A i \in MineIn(w, p) : w[i].arg \in Args
  <2>1. \A i \in DOMAIN w : w[i] \in Words!Words
    OBVIOUS
  <2> QED BY <2>1 DEF MineIn, Words!Words
<1>3. ArgsIn(w, p) \in [1 .. Cardinality(MineIn(w, p)) -> Args]
  BY <1>1, <1>2 DEF ArgsIn
<1> QED BY <1>3, WordPlaces, FunctionIsSeq

LEMMA ArgsGrow ==
  ASSUME NEW w, NEW x, NEW v, Grows(w, x, v),
         NEW p
  PROVE  ArgsIn(v, p) = IF AboutIn(v, Len(w) + 1) = p /\ x.arg # NONE
                        THEN Append(ArgsIn(w, p), x.arg) ELSE ArgsIn(w, p)
<1>0. /\ AboutIn(v, Len(w) + 1) = p /\ x.arg # NONE =>
           MineIn(v, p) = MineIn(w, p) \union {Len(w) + 1}
      /\ ~(AboutIn(v, Len(w) + 1) = p /\ x.arg # NONE) => MineIn(v, p) = MineIn(w, p)
  BY MineGrows
<1> DEFINE M == MineIn(w, p)
           c == Cardinality(M)
           n == Len(w)
           a == AboutIn(v, Len(w) + 1)
<1>1. /\ v \in Seq(Words!Words) /\ v[n + 1] = x /\ n \in Nat
      /\ \A i \in 1 .. n : v[i] = w[i]
  BY WordGrows, AboutGrows
<1>2. M \subseteq 1 .. n /\ M \subseteq Int /\ IsFiniteSet(M) /\ c \in Nat
  BY WordPlaces DEF Grows
<1>3. MineIn(v, p) = IF a = p /\ x.arg # NONE THEN M \union {n + 1} ELSE M
  BY <1>0
<1>4. \A k \in 1 .. c : InOrder(M)[k] \in M
  BY <1>2, InOrderOnto
<1>5. \A k \in 1 .. c : v[InOrder(M)[k]] = w[InOrder(M)[k]]
  <2> HIDE DEF M, c, n
  <2> QED BY <1>1, <1>2, <1>4
<1>6. CASE ~(a = p /\ x.arg # NONE)
  <2>1. MineIn(v, p) = M
    BY <1>3, <1>6
  <2>2. ArgsIn(v, p) = [k \in 1 .. c |-> v[InOrder(M)[k]].arg]
    BY <2>1 DEF ArgsIn
  <2>3. ArgsIn(w, p) = [k \in 1 .. c |-> w[InOrder(M)[k]].arg]
    BY DEF ArgsIn
  <2> HIDE DEF M, c, n
  <2>4. ArgsIn(v, p) = ArgsIn(w, p)
    BY <1>5, <2>2, <2>3
  <2> QED BY <1>6, <2>4
<1>7. CASE a = p /\ x.arg # NONE
  <2>1. MineIn(v, p) = M \union {n + 1}
    BY <1>3, <1>7
  <2>2. n + 1 \in Int /\ \A i \in M : i < n + 1
    BY <1>1, <1>2
  <2>3. /\ Cardinality(M \union {n + 1}) = c + 1
        /\ InOrder(M \union {n + 1}) = [k \in 1 .. c + 1 |-> IF k = c + 1 THEN n + 1
                                                            ELSE InOrder(M)[k]]
    <3> HIDE DEF M, n
    <3> QED BY <1>2, <2>2, InOrderOneMore
  <2>4. ArgsIn(v, p) = [k \in 1 .. c + 1 |-> v[InOrder(M \union {n + 1})[k]].arg]
    BY <2>1, <2>3 DEF ArgsIn
  <2>5. ArgsIn(w, p) \in Seq(Args) /\ Len(ArgsIn(w, p)) = c
    BY ArgsFacts DEF Grows
  <2>6. ArgsIn(w, p) = [k \in 1 .. c |-> w[InOrder(M)[k]].arg]
    BY DEF ArgsIn
  <2>7. x.arg \in Args
    BY <1>7 DEF Grows, Words!Words
  <2> DEFINE s == Append(ArgsIn(w, p), x.arg)
  <2>8. /\ s \in Seq(Args) /\ Len(s) = c + 1
        /\ \A k \in 1 .. c + 1 : s[k] = IF k <= c THEN ArgsIn(w, p)[k] ELSE x.arg
    <3>1. /\ s \in Seq(Args) /\ Len(s) = Len(ArgsIn(w, p)) + 1
          /\ \A k \in 1 .. Len(ArgsIn(w, p)) + 1 :
               s[k] = IF k <= Len(ArgsIn(w, p)) THEN ArgsIn(w, p)[k] ELSE x.arg
      BY <2>5, <2>7, AppendFacts
    <3> QED BY <2>5, <3>1, Zenon
  <2> HIDE DEF M, c, n, s
  <2>9. ASSUME NEW k \in 1 .. c + 1 PROVE ArgsIn(v, p)[k] = s[k]
    <3>1. CASE k = c + 1
      <4>1. k \in 1 .. c + 1 /\ ~(k <= c)
        BY <1>2, <3>1
      <4>2. InOrder(M \union {n + 1})[k] = n + 1
        BY <2>3, <3>1
      <4>3. ArgsIn(v, p)[k] = v[n + 1].arg
        BY <2>4, <4>2
      <4> QED BY <1>1, <2>8, <4>1, <4>3
    <3>2. CASE k # c + 1
      <4>1. k \in 1 .. c /\ k <= c
        BY <1>2, <3>2
      <4>2. InOrder(M \union {n + 1})[k] = InOrder(M)[k]
        BY <2>3, <3>2
      <4>3. ArgsIn(v, p)[k] = v[InOrder(M)[k]].arg
        BY <2>4, <4>2
      <4>4. s[k] = w[InOrder(M)[k]].arg
        BY <2>6, <2>8, <4>1
      <4> QED BY <1>5, <4>1, <4>3, <4>4
    <3> QED BY <3>1, <3>2
  <2>10. s = [k \in 1 .. c + 1 |-> s[k]]
    <3>1. c + 1 \in Nat
      BY <1>2
    <3> QED BY <2>8, <3>1, SeqAsFunction
  <2>11. ArgsIn(v, p) = s
    BY <2>4, <2>9, <2>10
  <2> QED BY <1>7, <2>11 DEF s
<1> QED BY <1>6, <1>7

(* Every patern the words are about stands once among the first words. *)
Options(w) == Cardinality(FirstIn(w))

LEMMA NthPlace ==
  ASSUME NEW w \in Seq(Words!Words), NEW n \in 1 .. Options(w)
  PROVE  /\ InOrder(FirstIn(w))[n] \in FirstIn(w) /\ InOrder(FirstIn(w))[n] \in 1 .. Len(w)
         /\ Cardinality(UpTill(FirstIn(w), InOrder(FirstIn(w))[n])) = n
  BY WordPlaces, InOrderOnto DEF Options

LEMMA NthTwice ==
  ASSUME NEW w \in Seq(Words!Words), NEW n \in 1 .. Options(w), NEW m \in 1 .. Options(w),
         NthAbout(w, n) = NthAbout(w, m)
  PROVE  n = m
<1> DEFINE i == InOrder(FirstIn(w))[n]
           j == InOrder(FirstIn(w))[m]
<1>1. /\ i \in FirstIn(w) /\ i \in 1 .. Len(w) /\ Cardinality(UpTill(FirstIn(w), i)) = n
      /\ j \in FirstIn(w) /\ j \in 1 .. Len(w) /\ Cardinality(UpTill(FirstIn(w), j)) = m
  BY NthPlace
<1>2. AboutIn(w, i) = AboutIn(w, j)
  BY DEF NthAbout
<1> HIDE DEF i, j
<1>3. /\ \A h \in 1 .. i - 1 : AboutIn(w, h) # AboutIn(w, i)
      /\ \A h \in 1 .. j - 1 : AboutIn(w, h) # AboutIn(w, j)
  BY <1>1 DEF FirstIn
<1>4. ~(i < j) /\ ~(j < i)
  <2>1. i < j => i \in 1 .. j - 1
    BY <1>1
  <2>2. j < i => j \in 1 .. i - 1
    BY <1>1
  <2> QED BY <1>2, <1>3, <2>1, <2>2
<1>5. i = j
  BY <1>1, <1>4
<1> QED BY <1>1, <1>5

LEMMA NthMet ==
  ASSUME NEW w \in Seq(Words!Words), NEW i \in 1 .. Len(w)
  PROVE  \E n \in 1 .. Options(w) : NthAbout(w, n) = AboutIn(w, i)
<1> DEFINE S == {j \in 1 .. Len(w) : AboutIn(w, j) = AboutIn(w, i)}
<1>1. S \subseteq Nat /\ S # {} /\ Len(w) \in Nat
  OBVIOUS
<1>2. PICK j \in S : \A k \in S : j <= k
  <2> HIDE DEF S
  <2> QED BY <1>1, Minimum
<1>3. j \in 1 .. Len(w) /\ AboutIn(w, j) = AboutIn(w, i)
  OBVIOUS
<1>4. j \in FirstIn(w)
  <2>1. SUFFICES ASSUME NEW k \in 1 .. j - 1 PROVE AboutIn(w, k) # AboutIn(w, j)
    <3>1. DOMAIN w = 1 .. Len(w)
      OBVIOUS
    <3> QED BY <1>3, <3>1 DEF FirstIn
  <2>2. k \in 1 .. Len(w) /\ ~(j <= k)
    BY <1>1, <1>3
  <2>3. k \notin S
    <3> HIDE DEF S
    <3> QED BY <1>2, <2>2
  <2> QED BY <1>3, <2>2, <2>3
<1>5. /\ Cardinality(UpTill(FirstIn(w), j)) \in 1 .. Options(w)
      /\ InOrder(FirstIn(w))[Cardinality(UpTill(FirstIn(w), j))] = j
  <2>1. FirstIn(w) \subseteq Int /\ IsFiniteSet(FirstIn(w))
    BY WordPlaces
  <2>2. DOMAIN InOrder(FirstIn(w)) = 1 .. Options(w)
    BY DEF InOrder, Options
  <2> QED BY <1>4, <2>1, <2>2, InOrderAt
<1>6. NthAbout(w, Cardinality(UpTill(FirstIn(w), j))) = AboutIn(w, i)
  BY <1>3, <1>5 DEF NthAbout
<1> QED BY <1>5, <1>6

(* One word more gives one patern more when it is about a new one. *)
Fresh(w, p) == \A j \in 1 .. Len(w) : AboutIn(w, j) # p

LEMMA NthGrows ==
  ASSUME NEW w, NEW x, NEW v, Grows(w, x, v)
  PROVE  LET a == AboutIn(v, Len(w) + 1)
             o == Options(w)
         IN  /\ Options(v) = IF Fresh(w, a) THEN o + 1 ELSE o
             /\ \A n \in 1 .. o : NthAbout(v, n) = NthAbout(w, n)
             /\ Fresh(w, a) => NthAbout(v, o + 1) = a
             /\ o \in Nat
<1> DEFINE a == AboutIn(v, Len(w) + 1)
           o == Options(w)
           F == FirstIn(w)
<1>1. w \in Seq(Words!Words) /\ Len(w) \in Nat /\ Len(w) + 1 \in Int
  BY DEF Grows
<1>2. /\ F \subseteq 1 .. Len(w) /\ F \subseteq Int /\ IsFiniteSet(F) /\ o \in Nat
  BY <1>1, WordPlaces DEF Options
<1>3. FirstIn(v) = IF Fresh(w, a) THEN F \union {Len(w) + 1} ELSE F
  BY FirstGrows DEF Fresh
<1>4. \A n \in 1 .. o : InOrder(F)[n] \in 1 .. Len(w)
  BY <1>1, NthPlace
<1>5. \A i \in 1 .. Len(w) : AboutIn(v, i) = AboutIn(w, i)
  BY WordGrows
<1>6. \A n \in 1 .. o : AboutIn(v, InOrder(F)[n]) = NthAbout(w, n)
  BY <1>4, <1>5 DEF NthAbout
<1>7. CASE ~Fresh(w, a)
  <2>1. FirstIn(v) = F
    BY <1>3, <1>7
  <2>2. Options(v) = o
    BY <2>1 DEF Options
  <2>3. \A n \in 1 .. o : NthAbout(v, n) = AboutIn(v, InOrder(F)[n])
    BY <2>1 DEF NthAbout
  <2> HIDE DEF o, F, a
  <2>4. \A n \in 1 .. o : NthAbout(v, n) = NthAbout(w, n)
    BY <1>6, <2>3
  <2> QED BY <1>2, <1>7, <2>2, <2>4 DEF o, a
<1>8. CASE Fresh(w, a)
  <2>1. FirstIn(v) = F \union {Len(w) + 1}
    BY <1>3, <1>8
  <2>2. \A i \in F : i < Len(w) + 1
    BY <1>1, <1>2
  <2>3. /\ Cardinality(F \union {Len(w) + 1}) = Cardinality(F) + 1
        /\ InOrder(F \union {Len(w) + 1}) = [n \in 1 .. Cardinality(F) + 1 |->
             IF n = Cardinality(F) + 1 THEN Len(w) + 1 ELSE InOrder(F)[n]]
    <3> HIDE DEF F
    <3> QED BY <1>1, <1>2, <2>2, InOrderOneMore
  <2>4. o = Cardinality(F)
    BY DEF Options
  <2>5. Options(v) = o + 1
    <3>1. Options(v) = Cardinality(F \union {Len(w) + 1})
      BY <2>1 DEF Options
    <3> HIDE DEF o, F
    <3> QED BY <2>3, <2>4, <3>1
  <2>6. \A n : NthAbout(v, n) = AboutIn(v, InOrder(F \union {Len(w) + 1})[n])
    BY <2>1 DEF NthAbout
  <2> HIDE DEF o, F
  <2>7. ASSUME NEW n \in 1 .. o PROVE NthAbout(v, n) = NthAbout(w, n)
    <3>1. n \in 1 .. Cardinality(F) + 1 /\ n # Cardinality(F) + 1
      BY <1>2, <2>4
    <3>2. InOrder(F \union {Len(w) + 1})[n] = InOrder(F)[n]
      BY <2>3, <3>1
    <3> QED BY <1>6, <2>6, <3>2
  <2>8. NthAbout(v, o + 1) = a
    <3>1. o + 1 \in 1 .. Cardinality(F) + 1
      BY <1>2, <2>4
    <3>2. InOrder(F \union {Len(w) + 1})[o + 1] = Len(w) + 1
      BY <2>3, <2>4, <3>1
    <3> QED BY <2>6, <3>2
  <2> HIDE DEF a
  <2> QED BY <1>2, <1>8, <2>5, <2>7, <2>8 DEF o, a
<1> QED BY <1>7, <1>8

LEMMA FreshNth ==
  ASSUME NEW w \in Seq(Words!Words), NEW p
  PROVE  Fresh(w, p) <=> \A n \in 1 .. Options(w) : NthAbout(w, n) # p
<1>1. ASSUME Fresh(w, p), NEW n \in 1 .. Options(w) PROVE NthAbout(w, n) # p
  BY <1>1, NthPlace DEF Fresh, NthAbout
<1>2. ASSUME ~Fresh(w, p) PROVE \E n \in 1 .. Options(w) : NthAbout(w, n) = p
  BY <1>2, NthMet DEF Fresh
<1> QED BY <1>1, <1>2

(* find_option gives an option of the patern, or 0 when none has it. *)
LEMMA FindOptionIs ==
  ASSUME NEW options, Len(options) \in Nat, NEW p
  PROVE  \/ /\ Words!FindOption(options, p) = 0
            /\ \A n \in 1 .. Len(options) : options[n].patern # p
         \/ /\ Words!FindOption(options, p) \in 1 .. Len(options)
            /\ options[Words!FindOption(options, p)].patern = p
<1> DEFINE I == {i \in 1 .. Len(options) : options[i].patern = p}
           least == CHOOSE i \in I : \A k \in I : i <= k
<1>1. Words!FindOption(options, p) = IF I # {} THEN least ELSE 0
  BY DEF Words!FindOption, Words!SelectInSeq, Words!Min
<1>2. CASE I = {}
  BY <1>1, <1>2
<1>3. CASE I # {}
  <2>1. I \subseteq Nat
    OBVIOUS
  <2>2. least \in I
    <3>1. \E i \in I : \A k \in I : i <= k
      <4> HIDE DEF I
      <4> QED BY <1>3, <2>1, Minimum
    <3> HIDE DEF I
    <3> QED BY <3>1
  <2> HIDE DEF least
  <2> QED BY <1>1, <1>3, <2>2
<1> QED BY <1>2, <1>3

(* The options as they stand when words w are parsed, with k arguments of  *)
(* the i-th given out                                                      *)
Option(w, n, k) == [patern |-> NthAbout(w, n), args |-> ArgsIn(w, NthAbout(w, n)), next |-> k]
OptionsAt(w, i, k) == [n \in 1 .. Options(w) |-> Option(w, n, IF n = i THEN k ELSE 0)]

OptionRecords == [patern : Paterns \union {NONE}, args : Seq(Args), next : Nat]

LEMMA AboutPatern ==
  ASSUME NEW w \in Seq(Words!Words), NEW i \in 1 .. Len(w)
  PROVE  AboutIn(w, i) \in Paterns \union {NONE}
<1>1. Plain \in Paterns \union {NONE}
  BY LibraryAssumption DEF Words!GetoptAssumption
<1>2. CASE NamedIn(w, i) = {}
  BY <1>1, <1>2 DEF AboutIn
<1>3. CASE NamedIn(w, i) # {}
  <2> DEFINE S == NamedIn(w, i)
             c == CHOOSE j \in S : \A k \in S : k <= j
  <2>1. S \subseteq 1 .. Len(w) /\ S \subseteq 0 .. Len(w) /\ Len(w) \in Nat /\ S # {}
    BY <1>3 DEF NamedIn
  <2>2. \E j \in S : \A k \in S : k <= j
    <3> HIDE DEF S
    <3> QED BY <2>1, Maximum
  <2>3. c \in S
    <3> HIDE DEF S
    <3> QED BY <2>2
  <2>4. AboutIn(w, i) = w[c].patern
    BY <1>3 DEF AboutIn
  <2>5. c \in 1 .. Len(w)
    <3> HIDE DEF S, c
    <3> QED BY <2>1, <2>3
  <2>6. w[c] \in Words!Words
    <3> HIDE DEF c
    <3> QED BY <2>5
  <2> HIDE DEF c
  <2> QED BY <2>4, <2>6 DEF Words!Words
<1> QED BY <1>2, <1>3

LEMMA OptionsType ==
  ASSUME NEW w \in Seq(Words!Words), NEW i, NEW k \in Nat
  PROVE  /\ OptionsAt(w, i, k) \in Seq(OptionRecords) /\ Len(OptionsAt(w, i, k)) = Options(w)
         /\ Options(w) \in Nat
         /\ \A n \in 1 .. Options(w) :
              OptionsAt(w, i, k)[n] = Option(w, n, IF n = i THEN k ELSE 0)
<1>1. Options(w) \in Nat
  BY WordPlaces DEF Options
<1>2. ASSUME NEW n \in 1 .. Options(w), NEW m \in Nat PROVE Option(w, n, m) \in OptionRecords
  <2>1. NthAbout(w, n) \in Paterns \union {NONE}
    BY NthPlace, AboutPatern DEF NthAbout
  <2>2. ArgsIn(w, NthAbout(w, n)) \in Seq(Args)
    BY ArgsFacts
  <2> QED BY <2>1, <2>2 DEF Option, OptionRecords
<1>3. OptionsAt(w, i, k) \in [1 .. Options(w) -> OptionRecords]
  <2>1. \A n \in 1 .. Options(w) : Option(w, n, IF n = i THEN k ELSE 0) \in OptionRecords
    <3>1. \A n \in 1 .. Options(w) : (IF n = i THEN k ELSE 0) \in Nat
      OBVIOUS
    <3> QED BY <1>2, <3>1
  <2> QED BY <2>1 DEF OptionsAt
<1>4. \A n \in 1 .. Options(w) : OptionsAt(w, i, k)[n] = Option(w, n, IF n = i THEN k ELSE 0)
  BY DEF OptionsAt
<1> QED BY <1>1, <1>3, <1>4, FunctionIsSeq

(* Appending to an option *)
LEMMA OptionAppended ==
  ASSUME NEW w \in Seq(Words!Words), NEW p \in Paterns \union {NONE}
  PROVE  LET s == Append(OptionsAt(w, 0, 0), Words!OptionNew(p))
         IN  /\ s \in Seq(OptionRecords) /\ Len(s) = Options(w) + 1
             /\ \A n \in 1 .. Options(w) : s[n] = OptionsAt(w, 0, 0)[n]
             /\ s[Options(w) + 1] = [patern |-> p, args |-> << >>, next |-> 0]
<1> DEFINE o == OptionsAt(w, 0, 0)
           s == Append(o, Words!OptionNew(p))
<1>1. o \in Seq(OptionRecords) /\ Len(o) = Options(w) /\ Options(w) \in Nat
  BY OptionsType
<1>2. Words!OptionNew(p) = [patern |-> p, args |-> << >>, next |-> 0]
  BY DEF Words!OptionNew
<1>3. Words!OptionNew(p) \in OptionRecords
  BY <1>2 DEF OptionRecords
<1> HIDE DEF o
<1>4. /\ s \in Seq(OptionRecords) /\ Len(s) = Len(o) + 1
      /\ \A i \in 1 .. Len(o) + 1 : s[i] = IF i <= Len(o) THEN o[i] ELSE Words!OptionNew(p)
  BY <1>1, <1>3, AppendFacts
<1> HIDE DEF s
<1>5. \A n \in 1 .. Options(w) : s[n] = o[n]
  BY <1>1, <1>4
<1>6. s[Options(w) + 1] = Words!OptionNew(p)
  BY <1>1, <1>4
<1> QED BY <1>1, <1>2, <1>4, <1>5, <1>6 DEF o, s

(* One round of the parse: the option the word is about, met or added, is  *)
(* current and takes the argument.                                         *)
CurrentIn(w, k) ==
  IF w = << >> THEN k = 0 ELSE k \in 1 .. Options(w) /\ NthAbout(w, k) = AboutIn(w, Len(w))
Parsing(w, k) == [options |-> OptionsAt(w, 0, 0), current |-> k, phase |-> "parse"]

LEMMA PaternIs ==
  ASSUME NEW w, NEW x, NEW v, Grows(w, x, v), NEW k, CurrentIn(w, k),
         Words!PaternOf(Parsing(w, k), x) # NONE
  PROVE  Words!PaternOf(Parsing(w, k), x) = AboutIn(v, Len(w) + 1)
<1> DEFINE c == Parsing(w, k)
<1>1. w \in Seq(Words!Words) /\ Len(w) \in Nat
  BY DEF Grows
<1>2. AboutIn(v, Len(w) + 1) = IF x.patern # NONE THEN x.patern
                               ELSE IF w = << >> THEN Plain ELSE AboutIn(w, Len(w))
  BY AboutGrows
<1>3. Words!PaternOf(c, x) = IF x.patern # NONE THEN x.patern
                             ELSE IF x.arg = NONE THEN NONE
                             ELSE IF c.current # 0 THEN c.options[c.current].patern ELSE Plain
  BY DEF Words!PaternOf
<1>4. c.current = k /\ c.options = OptionsAt(w, 0, 0)
  BY DEF Parsing
<1>5. k # 0 => c.options[k].patern = AboutIn(w, Len(w)) /\ w # << >>
  <2>1. \A n \in 1 .. Options(w) :
          OptionsAt(w, 0, 0)[n] = Option(w, n, IF n = 0 THEN 0 ELSE 0)
    BY <1>1, OptionsType
  <2>2. ASSUME k # 0 PROVE k \in 1 .. Options(w) /\ NthAbout(w, k) = AboutIn(w, Len(w)) /\ w # << >>
    BY <2>2 DEF CurrentIn
  <2>3. \A n, m : Option(w, n, m).patern = NthAbout(w, n)
    BY DEF Option
  <2> HIDE DEF c
  <2> QED BY <1>4, <2>1, <2>2, <2>3
<1>6. k = 0 => w = << >>
  <2>1. Options(w) \in Nat
    BY <1>1, OptionsType
  <2> QED BY <2>1 DEF CurrentIn
<1> HIDE DEF c
<1>7. Words!PaternOf(c, x) = AboutIn(v, Len(w) + 1)
  BY <1>2, <1>3, <1>4, <1>5, <1>6 DEF c
<1> QED BY <1>7 DEF c

LEMMA FreshArgs ==
  ASSUME NEW w \in Seq(Words!Words), NEW p, Fresh(w, p)
  PROVE  ArgsIn(w, p) = << >>
<1>1. DOMAIN w = 1 .. Len(w)
  OBVIOUS
<1>2. MineIn(w, p) = {}
  BY <1>1 DEF MineIn, Fresh
<1>3. Len(ArgsIn(w, p)) = 0 /\ ArgsIn(w, p) \in Seq(Args)
  BY <1>2, ArgsFacts, FS_EmptySet
<1> QED BY <1>3

(* The options a word finds or adds, before it gives its argument *)
LEMMA OptionMet ==
  ASSUME NEW w, NEW x, NEW v, Grows(w, x, v),
         AboutIn(v, Len(w) + 1) \in Paterns \union {NONE}
  PROVE  LET p == AboutIn(v, Len(w) + 1)
             o == OptionsAt(w, 0, 0)
             f == Words!FindOption(o, p)
             s == IF f # 0 THEN o ELSE Append(o, Words!OptionNew(p))
             i == IF f # 0 THEN f ELSE Len(s)
         IN  /\ i \in 1 .. Options(v) /\ NthAbout(v, i) = p
             /\ s \in Seq(OptionRecords) /\ Len(s) = Options(v)
             /\ \A n \in 1 .. Options(v) :
                  s[n] = [patern |-> NthAbout(v, n), args |-> ArgsIn(w, NthAbout(v, n)), next |-> 0]
<1> DEFINE p == AboutIn(v, Len(w) + 1)
           o == OptionsAt(w, 0, 0)
           f == Words!FindOption(o, p)
           s == IF f # 0 THEN o ELSE Append(o, Words!OptionNew(p))
           i == IF f # 0 THEN f ELSE Len(s)
           m == Options(w)
<1>1. w \in Seq(Words!Words)
  BY DEF Grows
<1>2. /\ o \in Seq(OptionRecords) /\ Len(o) = m /\ m \in Nat
      /\ \A n \in 1 .. m : o[n] = Option(w, n, 0)
  <2>1. /\ o \in Seq(OptionRecords) /\ Len(o) = m /\ m \in Nat
        /\ \A n \in 1 .. m : o[n] = Option(w, n, IF n = 0 THEN 0 ELSE 0)
    BY <1>1, OptionsType
  <2> HIDE DEF o, m
  <2> QED BY <2>1
<1>3. /\ Options(v) = IF Fresh(w, p) THEN m + 1 ELSE m
      /\ \A n \in 1 .. m : NthAbout(v, n) = NthAbout(w, n)
      /\ Fresh(w, p) => NthAbout(v, m + 1) = p
  BY NthGrows
<1>4. Fresh(w, p) <=> \A n \in 1 .. m : NthAbout(w, n) # p
  BY <1>1, FreshNth
<1>5. \/ f = 0 /\ \A n \in 1 .. m : o[n].patern # p
      \/ f \in 1 .. m /\ o[f].patern = p
  <2> HIDE DEF o
  <2>1. \/ f = 0 /\ \A n \in 1 .. Len(o) : o[n].patern # p
        \/ f \in 1 .. Len(o) /\ o[f].patern = p
    BY <1>2, FindOptionIs
  <2> QED BY <1>2, <2>1
<1>6. \A n, k : Option(w, n, k) = [patern |-> NthAbout(w, n), args |-> ArgsIn(w, NthAbout(w, n)), next |-> k]
  BY DEF Option
<1>7. \A n \in 1 .. m : o[n].patern = NthAbout(w, n)
  <2> HIDE DEF o, m
  <2> QED BY <1>2, <1>6
<1>8. CASE f = 0
  <2>1. Fresh(w, p)
    <3> HIDE DEF o, m, f, p
    <3> QED BY <1>4, <1>5, <1>7, <1>8, <1>2
  <2>2. s = Append(o, Words!OptionNew(p)) /\ i = Len(s)
    BY <1>8
  <2>3. /\ s \in Seq(OptionRecords) /\ Len(s) = m + 1
        /\ \A n \in 1 .. m : s[n] = o[n]
        /\ s[m + 1] = [patern |-> p, args |-> << >>, next |-> 0]
    <3>1. LET t == Append(o, Words!OptionNew(p))
          IN  /\ t \in Seq(OptionRecords) /\ Len(t) = m + 1
              /\ \A n \in 1 .. m : t[n] = o[n]
              /\ t[m + 1] = [patern |-> p, args |-> << >>, next |-> 0]
      BY <1>1, OptionAppended
    <3> HIDE DEF o, m, s
    <3> QED BY <2>2, <3>1
  <2>4. ArgsIn(w, p) = << >>
    BY <1>1, <2>1, FreshArgs
  <2> HIDE DEF o, m, f, p, s
  <2>5. Options(v) = m + 1 /\ NthAbout(v, m + 1) = p /\ i = m + 1
    BY <1>3, <2>1, <2>2, <2>3, <1>8
  <2>6. ASSUME NEW n \in 1 .. Options(v)
        PROVE  s[n] = [patern |-> NthAbout(v, n), args |-> ArgsIn(w, NthAbout(v, n)), next |-> 0]
    <3>1. CASE n = m + 1
      BY <2>3, <2>4, <2>5, <3>1
    <3>2. CASE n # m + 1
      <4>1. n \in 1 .. m
        BY <1>2, <2>5, <3>2
      <4> QED BY <1>2, <1>3, <1>6, <2>3, <4>1
    <3> QED BY <3>1, <3>2
  <2>7. m + 1 \in 1 .. Options(v)
    BY <1>2, <2>5
  <2>8. i \in 1 .. Options(v) /\ NthAbout(v, i) = p
    BY <2>5, <2>7
  <2> HIDE DEF i
  <2> QED BY <2>3, <2>5, <2>6, <2>8 DEF o, f, p, s, i
<1>9. CASE f \in 1 .. m
  <2>1. f # 0 /\ s = o /\ i = f
    BY <1>2, <1>9
  <2> HIDE DEF o, m, f, p
  <2>2. NthAbout(w, f) = p
    BY <1>2, <1>5, <1>7, <1>9
  <2>3. ~Fresh(w, p)
    BY <1>4, <1>9, <2>2
  <2>4. Options(v) = m
    BY <1>3, <2>3
  <2>5. \A n \in 1 .. Options(v) :
          s[n] = [patern |-> NthAbout(v, n), args |-> ArgsIn(w, NthAbout(v, n)), next |-> 0]
    BY <1>2, <1>3, <1>6, <2>1, <2>4
  <2>6. i \in 1 .. Options(v) /\ NthAbout(v, i) = p
    BY <1>3, <1>9, <2>1, <2>2, <2>4
  <2>7. s \in Seq(OptionRecords) /\ Len(s) = Options(v)
    BY <1>2, <2>1, <2>4
  <2> HIDE DEF s, i
  <2> QED BY <2>5, <2>6, <2>7 DEF o, f, p, s, i
<1> HIDE DEF o, m, f, p, s, i
<1> QED BY <1>5, <1>8, <1>9

(* Setting fields of an option, and an entry of a sequence *)
LEMMA OptionSet ==
  \A p, a, k, b : [[patern |-> p, args |-> a, next |-> k] EXCEPT !.args = b]
                    = [patern |-> p, args |-> b, next |-> k]
OBVIOUS

LEMMA OptionNext ==
  \A p, a, k, b : [[patern |-> p, args |-> a, next |-> k] EXCEPT !.next = b]
                    = [patern |-> p, args |-> a, next |-> b]
OBVIOUS

LEMMA EntrySet ==
  ASSUME NEW S, NEW s \in Seq(S), NEW i \in 1 .. Len(s), NEW e \in S,
         NEW t, t = [s EXCEPT ![i] = e]
  PROVE  /\ t \in Seq(S) /\ Len(t) = Len(s)
         /\ \A n \in 1 .. Len(s) : t[n] = IF n = i THEN e ELSE s[n]
OBVIOUS

LEMMA ParsedGrows ==
  ASSUME NEW w, NEW x, NEW v, Grows(w, x, v), NEW k, CurrentIn(w, k),
         Words!PaternOf(Parsing(w, k), x) # NONE
  PROVE  \E i \in 1 .. Options(v) : CurrentIn(v, i) /\ Words!Parsed(Parsing(w, k), x) = Parsing(v, i)
<1> DEFINE c == Parsing(w, k)
           p == AboutIn(v, Len(w) + 1)
           o == OptionsAt(w, 0, 0)
           f == Words!FindOption(o, p)
           s == IF f # 0 THEN o ELSE Append(o, Words!OptionNew(p))
           i == IF f # 0 THEN f ELSE Len(s)
           t == IF x.arg = NONE THEN s ELSE [s EXCEPT ![i].args = Append(@, x.arg)]
           z == OptionsAt(v, 0, 0)
<1>1. Words!PaternOf(c, x) = p
  BY PaternIs
<1>2. Words!Parsed(c, x) = [c EXCEPT !.current = i, !.options = t]
  <2>1. c.options = o
    BY DEF Parsing
  <2> HIDE DEF c
  <2> QED BY <1>1, <2>1 DEF Words!Parsed
<1>3. /\ v \in Seq(Words!Words) /\ Len(v) = Len(w) + 1 /\ w \in Seq(Words!Words) /\ x \in Words!Words
      /\ Len(w) \in Nat /\ v # << >>
  <2>1. v \in Seq(Words!Words) /\ Len(v) = Len(w) + 1
    BY AboutGrows
  <2> QED BY <2>1 DEF Grows
<1>4. p \in Paterns \union {NONE}
  <2>1. Len(w) + 1 \in 1 .. Len(v)
    BY <1>3
  <2> QED BY <1>3, <2>1, AboutPatern
<1>5. /\ i \in 1 .. Options(v) /\ NthAbout(v, i) = p
      /\ s \in Seq(OptionRecords) /\ Len(s) = Options(v)
      /\ \A n \in 1 .. Options(v) :
           s[n] = [patern |-> NthAbout(v, n), args |-> ArgsIn(w, NthAbout(v, n)), next |-> 0]
  BY <1>4, OptionMet
<1>6. \A q : ArgsIn(v, q) = IF p = q /\ x.arg # NONE THEN Append(ArgsIn(w, q), x.arg)
                            ELSE ArgsIn(w, q)
  <2> SUFFICES ASSUME NEW q
               PROVE  ArgsIn(v, q) = IF p = q /\ x.arg # NONE THEN Append(ArgsIn(w, q), x.arg)
                                     ELSE ArgsIn(w, q)
    OBVIOUS
  <2> QED BY ArgsGrow
<1>7. /\ z \in Seq(OptionRecords) /\ Len(z) = Options(v) /\ Options(v) \in Nat
      /\ \A n \in 1 .. Options(v) :
           z[n] = [patern |-> NthAbout(v, n), args |-> ArgsIn(v, NthAbout(v, n)), next |-> 0]
  <2>1. /\ z \in Seq(OptionRecords) /\ Len(z) = Options(v) /\ Options(v) \in Nat
        /\ \A n \in 1 .. Options(v) : z[n] = Option(v, n, IF n = 0 THEN 0 ELSE 0)
    BY <1>3, OptionsType
  <2> HIDE DEF z
  <2> QED BY <2>1 DEF Option
<1> HIDE DEF o, f, s, i, z, p
<1>8. /\ t \in Seq(OptionRecords) /\ Len(t) = Options(v)
      /\ \A n \in 1 .. Options(v) :
           t[n] = IF x.arg # NONE /\ n = i THEN [s[n] EXCEPT !.args = Append(@, x.arg)] ELSE s[n]
  <2>1. CASE x.arg = NONE
    BY <1>5, <2>1
  <2>2. CASE x.arg # NONE
    <3>1. x.arg \in Args
      BY <1>3, <2>2 DEF Words!Words
    <3>2. t = [s EXCEPT ![i] = [s[i] EXCEPT !.args = Append(@, x.arg)]]
      BY <2>2
    <3>3. [s[i] EXCEPT !.args = Append(@, x.arg)] \in OptionRecords
      <4>1. s[i] \in OptionRecords
        BY <1>5
      <4> QED BY <3>1, <4>1 DEF OptionRecords
    <3> DEFINE e == [s[i] EXCEPT !.args = Append(@, x.arg)]
    <3>4. t = [s EXCEPT ![i] = e] /\ e \in OptionRecords /\ e = [s[i] EXCEPT !.args = Append(@, x.arg)]
      BY <3>2, <3>3
    <3> HIDE DEF t, e
    <3>5. /\ t \in Seq(OptionRecords) /\ Len(t) = Len(s)
          /\ \A n \in 1 .. Len(s) : t[n] = IF n = i THEN e ELSE s[n]
      BY <1>5, <3>4, EntrySet
    <3>6. ASSUME NEW n \in 1 .. Options(v)
          PROVE  t[n] = IF n = i THEN [s[n] EXCEPT !.args = Append(@, x.arg)] ELSE s[n]
      BY <1>5, <3>4, <3>5
    <3> QED BY <1>5, <2>2, <3>5, <3>6
  <2> QED BY <2>1, <2>2
<1> HIDE DEF t
<1>9. ASSUME NEW n \in 1 .. Options(v) PROVE t[n] = z[n]
  <2>1. CASE x.arg # NONE /\ n = i
    <3>1. t[n] = [s[n] EXCEPT !.args = Append(@, x.arg)]
      BY <1>8, <2>1
    <3>2. s[n] = [patern |-> NthAbout(v, n), args |-> ArgsIn(w, NthAbout(v, n)), next |-> 0]
      BY <1>5
    <3>3. t[n] = [patern |-> NthAbout(v, n), args |-> Append(ArgsIn(w, NthAbout(v, n)), x.arg),
                  next |-> 0]
      BY <3>1, <3>2, OptionSet
    <3>4. ArgsIn(v, NthAbout(v, n)) = Append(ArgsIn(w, NthAbout(v, n)), x.arg)
      BY <1>5, <1>6, <2>1
    <3> QED BY <1>7, <3>3, <3>4
  <2>2. CASE ~(x.arg # NONE /\ n = i)
    <3>1. t[n] = s[n]
      BY <1>8, <2>2
    <3>2. ArgsIn(v, NthAbout(v, n)) = ArgsIn(w, NthAbout(v, n))
      <4>1. CASE x.arg = NONE
        BY <1>6, <4>1
      <4>2. CASE n # i
        <5>1. NthAbout(v, n) # NthAbout(v, i)
          BY <1>3, <1>5, <4>2, NthTwice
        <5> QED BY <1>5, <1>6, <5>1
      <4> QED BY <2>2, <4>1, <4>2
    <3> QED BY <1>5, <1>7, <3>1, <3>2
  <2> QED BY <2>1, <2>2
<1>10. t = z
  <2>1. t = [n \in 1 .. Options(v) |-> t[n]]
    BY <1>7, <1>8, SeqAsFunction
  <2>2. z = [n \in 1 .. Options(v) |-> z[n]]
    BY <1>7, SeqAsFunction
  <2> QED BY <1>9, <2>1, <2>2
<1>11. Words!Parsed(c, x) = Parsing(v, i)
  <2>1. c = [options |-> o, current |-> k, phase |-> "parse"]
    BY DEF Parsing, o
  <2>2. [c EXCEPT !.current = i, !.options = z] = [options |-> z, current |-> i, phase |-> "parse"]
    <3> HIDE DEF c
    <3>1. [c EXCEPT !.current = i, !.options = z] = [[c EXCEPT !.current = i] EXCEPT !.options = z]
      OBVIOUS
    <3>2. [c EXCEPT !.current = i] = [options |-> o, current |-> i, phase |-> "parse"]
      BY <2>1
    <3>3. [[options |-> o, current |-> i, phase |-> "parse"] EXCEPT !.options = z]
            = [options |-> z, current |-> i, phase |-> "parse"]
      OBVIOUS
    <3> QED BY <3>1, <3>2, <3>3, Zenon
  <2>3. Parsing(v, i) = [options |-> z, current |-> i, phase |-> "parse"]
    BY DEF Parsing, z
  <2> HIDE DEF c
  <2> QED BY <1>2, <1>10, <2>2, <2>3
<1>12. CurrentIn(v, i)
  BY <1>3, <1>5 DEF CurrentIn, p
<1> QED BY <1>5, <1>11, <1>12 DEF c

-----------------------------------------------------------------------------
(* What is given out: the arguments of an option, or junk for one that has *)
(* none                                                                    *)
Full(w, n) == IF ArgsIn(w, NthAbout(w, n)) = << >> THEN <<JUNK>> ELSE ArgsIn(w, NthAbout(w, n))
Given(w, i, g) ==
  [n \in 1 .. i |-> [patern |-> NthAbout(w, n),
                     args |-> IF n = i THEN SubSeq(Full(w, n), 1, g) ELSE Full(w, n)]]
CursorsIn(w, i, k, g) ==
  IF i = 0 THEN k = 0 /\ g = 0
  ELSE g \in 0 .. Len(Full(w, i)) /\ (k = g \/ (k = 0 /\ g = Len(Full(w, i))))
Handing(w, i, k) == [options |-> OptionsAt(w, i, k), current |-> i, phase |-> "parsed"]

WordsParsing(c, h) ==
  /\ h.given = << >>
  /\ \E k \in 0 .. Options(h.words) : CurrentIn(h.words, k) /\ c = Parsing(h.words, k)
WordsHanded(c, h) ==
  \E i \in 0 .. Options(h.words) : \E k, g \in Nat :
    CursorsIn(h.words, i, k, g) /\ c = Handing(h.words, i, k) /\ h.given = Given(h.words, i, g)

Answer(w) ==
  IF w = << >> THEN << [patern |-> JUNK, args |-> << >>] >>
  ELSE [n \in 1 .. Options(w) |-> [patern |-> NthAbout(w, n), args |-> Full(w, n)]]

(* The inductive invariant *)
WordsHold(c, h) ==
  /\ h = [words |-> h.words, given |-> h.given] /\ h.words \in Seq(Words!Words)
  /\ \/ c.phase = "failed"
     \/ c.phase = "parse" /\ WordsParsing(c, h)
     \/ c.phase = "parsed" /\ WordsHanded(c, h)
     \/ c.phase = "ended" /\ h.given = Answer(h.words)
GetoptInv == WordsHold(object, ghost)

LEMMA NoOptions == OptionsAt(<< >>, 0, 0) = << >> /\ Options(<< >>) = 0
<1>1. FirstIn(<< >>) = {}
  BY DEF FirstIn
<1>2. Options(<< >>) = 0
  BY <1>1, FS_EmptySet DEF Options
<1>3. OptionsAt(<< >>, 0, 0) = [n \in 1 .. 0 |-> Option(<< >>, n, IF n = 0 THEN 0 ELSE 0)]
  BY <1>2 DEF OptionsAt
<1> QED BY <1>2, <1>3

LEMMA GetoptStarts == ASSUME Words!Init PROVE GetoptInv
<1>1. /\ object = [options |-> << >>, current |-> 0, phase |-> "parse"]
      /\ ghost = [words |-> << >>, given |-> << >>]
  BY DEF Words!Init
<1>2. ghost.words = << >> /\ ghost.given = << >> /\ object.phase = "parse"
  BY <1>1
<1>3. CurrentIn(<< >>, 0)
  BY DEF CurrentIn
<1>4. object = Parsing(<< >>, 0)
  BY <1>1, NoOptions DEF Parsing
<1>5. WordsParsing(object, ghost)
  BY <1>2, <1>3, <1>4, NoOptions DEF WordsParsing
<1>6. << >> \in Seq(Words!Words)
  OBVIOUS
<1> QED BY <1>1, <1>2, <1>5, <1>6 DEF GetoptInv, WordsHold

LEMMA GetoptParses == GetoptInv /\ (\E x \in Words!Words : Words!ParseNext(x)) => GetoptInv'
<1> SUFFICES ASSUME GetoptInv, NEW x \in Words!Words, Words!ParseNext(x)
             PROVE  WordsHold(object', ghost')
  BY DEF GetoptInv
<1> DEFINE w == ghost.words
           v == Append(w, x)
<1>1. /\ object.phase = "parse"
      /\ ghost' = [ghost EXCEPT !.words = Append(@, x)]
      /\ object' = IF Words!PaternOf(object, x) = NONE THEN [object EXCEPT !.phase = "failed"]
                   ELSE Words!Parsed(object, x)
  BY DEF Words!ParseNext
<1>2. /\ ghost = [words |-> w, given |-> ghost.given] /\ w \in Seq(Words!Words)
      /\ WordsParsing(object, ghost)
  BY <1>1 DEF GetoptInv, WordsHold
<1>3. PICK k \in 0 .. Options(w) : CurrentIn(w, k) /\ object = Parsing(w, k)
  BY <1>2 DEF WordsParsing
<1>4. ghost.given = << >>
  BY <1>2 DEF WordsParsing
<1>5. Grows(w, x, v)
  BY <1>2 DEF Grows
<1>6. v \in Seq(Words!Words)
  BY <1>5, AboutGrows
<1>7. ghost' = [words |-> v, given |-> << >>]
  <2>1. ghost' = [ghost EXCEPT !.words = v]
    BY <1>1
  <2> HIDE DEF v, w
  <2>2. [[words |-> w, given |-> << >>] EXCEPT !.words = v] = [words |-> v, given |-> << >>]
    OBVIOUS
  <2> QED BY <1>2, <1>4, <2>1, <2>2, Zenon
<1>8. ghost'.words = v /\ ghost'.given = << >>
  BY <1>7
<1> HIDE DEF v, w
<1>9. CASE Words!PaternOf(object, x) = NONE
  <2>1. object' = [object EXCEPT !.phase = "failed"]
    BY <1>1, <1>9
  <2>2. object = [options |-> OptionsAt(w, 0, 0), current |-> k, phase |-> "parse"]
    BY <1>3 DEF Parsing
  <2>3. object'.phase = "failed"
    BY <2>1, <2>2
  <2> QED BY <1>6, <1>7, <1>8, <2>3 DEF WordsHold
<1>10. CASE Words!PaternOf(object, x) # NONE
  <2>1. object' = Words!Parsed(Parsing(w, k), x) /\ Words!PaternOf(Parsing(w, k), x) # NONE
    BY <1>1, <1>3, <1>10
  <2>2. PICK i \in 1 .. Options(v) : CurrentIn(v, i) /\ object' = Parsing(v, i)
    BY <1>3, <1>5, <2>1, ParsedGrows
  <2>3. object'.phase = "parse"
    BY <2>2 DEF Parsing
  <2>4. i \in 0 .. Options(v)
    BY <2>2
  <2>5. WordsParsing(object', ghost')
    BY <1>8, <2>2, <2>4 DEF WordsParsing
  <2> QED BY <1>6, <1>7, <1>8, <2>3, <2>5 DEF WordsHold
<1> QED BY <1>9, <1>10

LEMMA GetoptParsed == GetoptInv /\ Words!ParseEnd => GetoptInv'
<1> SUFFICES ASSUME GetoptInv, Words!ParseEnd PROVE WordsHold(object', ghost')
  BY DEF GetoptInv
<1> DEFINE w == ghost.words
           o == OptionsAt(w, 0, 0)
<1>1. /\ object.phase = "parse" /\ ghost' = ghost
      /\ object' = [object EXCEPT !.current = 0, !.phase = "parsed"]
  BY DEF Words!ParseEnd
<1>2. /\ ghost = [words |-> w, given |-> ghost.given] /\ w \in Seq(Words!Words)
      /\ WordsParsing(object, ghost)
  BY <1>1 DEF GetoptInv, WordsHold
<1>3. PICK k \in 0 .. Options(w) : CurrentIn(w, k) /\ object = Parsing(w, k)
  BY <1>2 DEF WordsParsing
<1>4. ghost.given = << >>
  BY <1>2 DEF WordsParsing
<1>5. object' = Handing(w, 0, 0)
  <2>1. object = [options |-> o, current |-> k, phase |-> "parse"]
    BY <1>3 DEF Parsing
  <2>2. Handing(w, 0, 0) = [options |-> o, current |-> 0, phase |-> "parsed"]
    BY DEF Handing
  <2> HIDE DEF o, w
  <2>3. [object EXCEPT !.current = 0, !.phase = "parsed"]
          = [[object EXCEPT !.current = 0] EXCEPT !.phase = "parsed"]
    OBVIOUS
  <2>4. [object EXCEPT !.current = 0] = [options |-> o, current |-> 0, phase |-> "parse"]
    BY <2>1
  <2>5. [[options |-> o, current |-> 0, phase |-> "parse"] EXCEPT !.phase = "parsed"]
          = [options |-> o, current |-> 0, phase |-> "parsed"]
    OBVIOUS
  <2> QED BY <1>1, <2>2, <2>3, <2>4, <2>5, Zenon
<1>6. Given(w, 0, 0) = << >>
  BY DEF Given
<1>7. CursorsIn(w, 0, 0, 0)
  BY DEF CursorsIn
<1>8. 0 \in 0 .. Options(w) /\ 0 \in Nat
  <2>1. Options(w) \in Nat
    BY <1>2, WordPlaces DEF Options
  <2> QED BY <2>1
<1>9. object'.phase = "parsed"
  BY <1>5 DEF Handing
<1> HIDE DEF w, o
<1>10. ghost'.words = w /\ ghost'.given = << >>
  BY <1>1, <1>2, <1>4
<1>11. WordsHanded(object', ghost')
  BY <1>5, <1>6, <1>7, <1>8, <1>10 DEF WordsHanded
<1> QED BY <1>1, <1>2, <1>9, <1>10, <1>11 DEF WordsHold, w

(* What is given out grows by an argument or by an option. *)
GivenRecords == [patern : Paterns \union {NONE}, args : Seq(Args \union {JUNK})]

LEMMA FullFacts ==
  ASSUME NEW w \in Seq(Words!Words), NEW n
  PROVE  /\ Full(w, n) \in Seq(Args \union {JUNK}) /\ Len(Full(w, n)) \in Nat \ {0}
         /\ SubSeq(Full(w, n), 1, 0) = << >>
         /\ SubSeq(Full(w, n), 1, Len(Full(w, n))) = Full(w, n)
<1> DEFINE a == ArgsIn(w, NthAbout(w, n))
           s == Full(w, n)
<1>1. a \in Seq(Args)
  BY ArgsFacts
<1>2. s = IF a = << >> THEN <<JUNK>> ELSE a
  BY DEF Full
<1> HIDE DEF a, s
<1>3. s \in Seq(Args \union {JUNK}) /\ Len(s) \in Nat \ {0}
  <2>1. CASE a = << >>
    <3>1. <<JUNK>> \in Seq(Args \union {JUNK}) /\ Len(<<JUNK>>) = 1
      OBVIOUS
    <3> QED BY <1>2, <2>1, <3>1
  <2>2. CASE a # << >>
    <3>1. s \in Seq(Args) /\ Len(s) # 0
      BY <1>1, <1>2, <2>2
    <3> QED BY <3>1
  <2> QED BY <2>1, <2>2
<1>4. SubSeq(s, 1, 0) = << >> /\ SubSeq(s, 1, Len(s)) = s
  BY <1>3
<1> QED BY <1>3, <1>4 DEF s

LEMMA PrefixGrows ==
  ASSUME NEW S, NEW s \in Seq(S), NEW g \in 0 .. Len(s), g < Len(s)
  PROVE  Append(SubSeq(s, 1, g), s[g + 1]) = SubSeq(s, 1, g + 1)
<1> DEFINE p == SubSeq(s, 1, g)
           q == Append(p, s[g + 1])
<1>1. g \in Nat /\ Len(s) \in Nat /\ g + 1 \in 0 .. Len(s) /\ g + 1 \in 1 .. Len(s)
  OBVIOUS
<1>2. p \in Seq(S) /\ Len(p) = g /\ p = [i \in 1 .. g |-> s[i]]
  BY PrefixFacts
<1>3. SubSeq(s, 1, g + 1) = [i \in 1 .. g + 1 |-> s[i]]
  BY <1>1, PrefixFacts
<1>4. s[g + 1] \in S
  BY <1>1
<1> HIDE DEF p
<1>5. /\ q \in Seq(S) /\ Len(q) = g + 1
      /\ \A i \in 1 .. g + 1 : q[i] = IF i <= g THEN p[i] ELSE s[g + 1]
  <2>1. /\ q \in Seq(S) /\ Len(q) = Len(p) + 1
        /\ \A i \in 1 .. Len(p) + 1 : q[i] = IF i <= Len(p) THEN p[i] ELSE s[g + 1]
    BY <1>2, <1>4, AppendFacts
  <2> HIDE DEF q
  <2> QED BY <1>2, <2>1
<1> HIDE DEF q
<1>6. \A i \in 1 .. g + 1 : q[i] = s[i]
  <2> SUFFICES ASSUME NEW i \in 1 .. g + 1 PROVE q[i] = s[i]
    OBVIOUS
  <2>1. CASE i <= g
    <3>1. i \in 1 .. g
      BY <1>1, <2>1
    <3> QED BY <1>2, <1>5, <2>1, <3>1
  <2>2. CASE ~(i <= g)
    <3>1. i = g + 1
      BY <1>1, <2>2
    <3> QED BY <1>5, <2>2, <3>1
  <2> QED BY <2>1, <2>2
<1>7. q = [i \in 1 .. g + 1 |-> q[i]]
  <2>1. g + 1 \in Nat
    BY <1>1
  <2> QED BY <1>5, <2>1, SeqAsFunction
<1> QED BY <1>3, <1>6, <1>7 DEF q, p

LEMMA GivenType ==
  ASSUME NEW w \in Seq(Words!Words), NEW i \in 0 .. Options(w), NEW g \in Nat,
         i # 0 => g <= Len(Full(w, i))
  PROVE  /\ Given(w, i, g) \in Seq(GivenRecords) /\ Len(Given(w, i, g)) = i
         /\ \A n \in 1 .. i :
              Given(w, i, g)[n] = [patern |-> NthAbout(w, n),
                                   args |-> IF n = i THEN SubSeq(Full(w, n), 1, g)
                                            ELSE Full(w, n)]
<1> DEFINE E(n) == [patern |-> NthAbout(w, n),
                    args |-> IF n = i THEN SubSeq(Full(w, n), 1, g) ELSE Full(w, n)]
<1>1. Options(w) \in Nat /\ i \in Nat
  <2>1. Options(w) \in Nat
    BY WordPlaces DEF Options
  <2> QED BY <2>1
<1>2. ASSUME NEW n \in 1 .. i PROVE E(n) \in GivenRecords
  <2>1. n \in 1 .. Options(w)
    BY <1>1
  <2>2. NthAbout(w, n) \in Paterns \union {NONE}
    BY <2>1, NthPlace, AboutPatern DEF NthAbout
  <2>3. Full(w, n) \in Seq(Args \union {JUNK}) /\ Len(Full(w, n)) \in Nat
    BY FullFacts
  <2>4. n = i => SubSeq(Full(w, n), 1, g) \in Seq(Args \union {JUNK})
    <3>1. n = i => g \in 0 .. Len(Full(w, n))
      BY <1>1, <2>3
    <3> QED BY <2>3, <3>1, PrefixFacts
  <2>5. (IF n = i THEN SubSeq(Full(w, n), 1, g) ELSE Full(w, n)) \in Seq(Args \union {JUNK})
    BY <2>3, <2>4
  <2> QED BY <2>2, <2>5 DEF GivenRecords
<1>3. Given(w, i, g) = [n \in 1 .. i |-> E(n)]
  BY DEF Given
<1> HIDE DEF E
<1>4. Given(w, i, g) \in [1 .. i -> GivenRecords]
  BY <1>2, <1>3
<1>5. \A n \in 1 .. i : Given(w, i, g)[n] = E(n)
  BY <1>3
<1> QED BY <1>1, <1>4, <1>5, FunctionIsSeq DEF E

LEMMA GivenArg ==
  ASSUME NEW w \in Seq(Words!Words), NEW i \in 1 .. Options(w), NEW g \in Nat,
         g < Len(Full(w, i))
  PROVE  [Given(w, i, g) EXCEPT ![i].args = Append(@, Full(w, i)[g + 1])] = Given(w, i, g + 1)
<1> DEFINE s == Given(w, i, g)
           f == Full(w, i)
           e == [s[i] EXCEPT !.args = Append(@, f[g + 1])]
           t == [s EXCEPT ![i] = e]
           z == Given(w, i, g + 1)
<1>1. Options(w) \in Nat /\ i \in Nat /\ i \in 0 .. Options(w) /\ i \in 1 .. i
  <2>1. Options(w) \in Nat
    BY WordPlaces DEF Options
  <2> QED BY <2>1
<1>2. f \in Seq(Args \union {JUNK}) /\ Len(f) \in Nat
  BY FullFacts
<1>3. g \in 0 .. Len(f) /\ g <= Len(f) /\ g + 1 <= Len(f) /\ g + 1 \in Nat /\ g + 1 \in 1 .. Len(f)
  BY <1>2
<1>4. /\ s \in Seq(GivenRecords) /\ Len(s) = i
      /\ \A n \in 1 .. i : s[n] = [patern |-> NthAbout(w, n),
                                   args |-> IF n = i THEN SubSeq(Full(w, n), 1, g)
                                            ELSE Full(w, n)]
  BY <1>1, <1>3, GivenType
<1>5. /\ z \in Seq(GivenRecords) /\ Len(z) = i
      /\ \A n \in 1 .. i : z[n] = [patern |-> NthAbout(w, n),
                                   args |-> IF n = i THEN SubSeq(Full(w, n), 1, g + 1)
                                            ELSE Full(w, n)]
  BY <1>1, <1>3, GivenType
<1>6. Append(SubSeq(f, 1, g), f[g + 1]) = SubSeq(f, 1, g + 1)
  BY <1>2, <1>3, PrefixGrows
<1>7. [s EXCEPT ![i].args = Append(@, f[g + 1])] = t
  OBVIOUS
<1> HIDE DEF s, z
<1>8. e = [patern |-> NthAbout(w, i), args |-> SubSeq(f, 1, g + 1)]
  <2>1. s[i] = [patern |-> NthAbout(w, i), args |-> SubSeq(f, 1, g)]
    BY <1>1, <1>4
  <2> HIDE DEF f
  <2>2. \A p, a, b : [[patern |-> p, args |-> a] EXCEPT !.args = b] = [patern |-> p, args |-> b]
    OBVIOUS
  <2>3. s[i].args = SubSeq(f, 1, g)
    BY <2>1
  <2>4. e = [[patern |-> NthAbout(w, i), args |-> SubSeq(f, 1, g)] EXCEPT !.args = SubSeq(f, 1, g + 1)]
    BY <1>6, <2>1, <2>3
  <2> HIDE DEF e
  <2> QED BY <2>2, <2>4
<1>9. z[i] = e /\ e \in GivenRecords
  <2>1. z[i] = [patern |-> NthAbout(w, i), args |-> SubSeq(f, 1, g + 1)]
    BY <1>1, <1>5
  <2>2. z[i] \in GivenRecords
    BY <1>1, <1>5
  <2> HIDE DEF f, e
  <2> QED BY <1>8, <2>1, <2>2
<1> HIDE DEF e, f
<1>10. /\ t \in Seq(GivenRecords) /\ Len(t) = i
       /\ \A n \in 1 .. i : t[n] = IF n = i THEN e ELSE s[n]
  <2>1. /\ t \in Seq(GivenRecords) /\ Len(t) = Len(s)
        /\ \A n \in 1 .. Len(s) : t[n] = IF n = i THEN e ELSE s[n]
    BY <1>1, <1>4, <1>9, EntrySet
  <2> HIDE DEF t
  <2> QED BY <1>4, <2>1
<1> HIDE DEF t
<1>11. \A n \in 1 .. i : t[n] = z[n]
  BY <1>4, <1>5, <1>9, <1>10
<1>12. t = [n \in 1 .. i |-> t[n]] /\ z = [n \in 1 .. i |-> z[n]]
  BY <1>1, <1>5, <1>10, SeqAsFunction
<1>13. t = z
  BY <1>11, <1>12
<1> QED BY <1>7, <1>13 DEF s, f, z

LEMMA GivenOption ==
  ASSUME NEW w \in Seq(Words!Words), NEW i \in 0 .. Options(w), NEW g \in Nat,
         i + 1 \in 1 .. Options(w), i # 0 => g = Len(Full(w, i))
  PROVE  Append(Given(w, i, g), [patern |-> NthAbout(w, i + 1), args |-> << >>])
           = Given(w, i + 1, 0)
<1> DEFINE s == Given(w, i, g)
           e == [patern |-> NthAbout(w, i + 1), args |-> << >>]
           t == Append(s, e)
           z == Given(w, i + 1, 0)
<1>1. Options(w) \in Nat /\ i \in Nat /\ i + 1 \in 0 .. Options(w) /\ i + 1 \in Nat
  <2>1. Options(w) \in Nat
    BY WordPlaces DEF Options
  <2> QED BY <2>1
<1>2. \A n : Len(Full(w, n)) \in Nat /\ SubSeq(Full(w, n), 1, 0) = << >>
             /\ SubSeq(Full(w, n), 1, Len(Full(w, n))) = Full(w, n)
  BY FullFacts
<1>3. i # 0 => g <= Len(Full(w, i))
  BY <1>2
<1>4. /\ s \in Seq(GivenRecords) /\ Len(s) = i
      /\ \A n \in 1 .. i : s[n] = [patern |-> NthAbout(w, n), args |-> Full(w, n)]
  <2>1. /\ s \in Seq(GivenRecords) /\ Len(s) = i
        /\ \A n \in 1 .. i : s[n] = [patern |-> NthAbout(w, n),
                                     args |-> IF n = i THEN SubSeq(Full(w, n), 1, g)
                                              ELSE Full(w, n)]
    BY <1>3, GivenType
  <2> HIDE DEF s
  <2>2. \A n \in 1 .. i : (IF n = i THEN SubSeq(Full(w, n), 1, g) ELSE Full(w, n)) = Full(w, n)
    <3> SUFFICES ASSUME NEW n \in 1 .. i
                 PROVE  (IF n = i THEN SubSeq(Full(w, n), 1, g) ELSE Full(w, n)) = Full(w, n)
      OBVIOUS
    <3>1. CASE n = i
      <4>1. i # 0
        BY <1>1, <3>1
      <4>2. SubSeq(Full(w, i), 1, Len(Full(w, i))) = Full(w, i) /\ g = Len(Full(w, i))
        BY <1>2, <4>1
      <4> QED BY <3>1, <4>2
    <3> QED BY <3>1
  <2> QED BY <2>1, <2>2
<1>5. /\ z \in Seq(GivenRecords) /\ Len(z) = i + 1
      /\ \A n \in 1 .. i + 1 : z[n] = [patern |-> NthAbout(w, n),
                                       args |-> IF n = i + 1 THEN << >> ELSE Full(w, n)]
  <2>1. 0 \in Nat /\ 0 <= Len(Full(w, i + 1))
    BY <1>2
  <2>2. /\ z \in Seq(GivenRecords) /\ Len(z) = i + 1
        /\ \A n \in 1 .. i + 1 : z[n] = [patern |-> NthAbout(w, n),
                                         args |-> IF n = i + 1 THEN SubSeq(Full(w, n), 1, 0)
                                                  ELSE Full(w, n)]
    BY <1>1, <2>1, GivenType
  <2> HIDE DEF z
  <2> QED BY <1>2, <2>2
<1> HIDE DEF s, z
<1>6. e \in GivenRecords
  <2>1. NthAbout(w, i + 1) \in Paterns \union {NONE}
    BY NthPlace, AboutPatern DEF NthAbout
  <2>2. << >> \in Seq(Args \union {JUNK})
    OBVIOUS
  <2> QED BY <2>1, <2>2 DEF GivenRecords
<1> HIDE DEF e
<1>7. /\ t \in Seq(GivenRecords) /\ Len(t) = i + 1
      /\ \A n \in 1 .. i + 1 : t[n] = IF n <= i THEN s[n] ELSE e
  <2>1. /\ t \in Seq(GivenRecords) /\ Len(t) = Len(s) + 1
        /\ \A n \in 1 .. Len(s) + 1 : t[n] = IF n <= Len(s) THEN s[n] ELSE e
    BY <1>4, <1>6, AppendFacts
  <2> HIDE DEF t
  <2> QED BY <1>4, <2>1
<1> HIDE DEF t
<1>8. ASSUME NEW n \in 1 .. i + 1 PROVE t[n] = z[n]
  <2>1. CASE n <= i
    <3>1. n \in 1 .. i /\ n # i + 1
      BY <1>1, <2>1
    <3> QED BY <1>4, <1>5, <1>7, <2>1, <3>1
  <2>2. CASE ~(n <= i)
    <3>1. n = i + 1
      BY <1>1, <2>2
    <3> QED BY <1>5, <1>7, <2>2, <3>1 DEF e
  <2> QED BY <2>1, <2>2
<1>9. t = [n \in 1 .. i + 1 |-> t[n]] /\ z = [n \in 1 .. i + 1 |-> z[n]]
  BY <1>1, <1>5, <1>7, SeqAsFunction
<1>10. t = z
  BY <1>8, <1>9
<1> QED BY <1>10 DEF s, e, t, z

(* The cursor of an option moves. *)
LEMMA HandingNext ==
  ASSUME NEW w \in Seq(Words!Words), NEW i \in 1 .. Options(w), NEW k \in Nat,
         NEW m \in Nat
  PROVE  [Handing(w, i, k) EXCEPT !.options[i].next = m] = Handing(w, i, m)
<1> DEFINE o == OptionsAt(w, i, k)
           z == OptionsAt(w, i, m)
           t == [o EXCEPT ![i].next = m]
           e == [o[i] EXCEPT !.next = m]
<1>1. /\ o \in Seq(OptionRecords) /\ Len(o) = Options(w) /\ Options(w) \in Nat
      /\ \A n \in 1 .. Options(w) : o[n] = Option(w, n, IF n = i THEN k ELSE 0)
  BY OptionsType
<1>2. /\ z \in Seq(OptionRecords) /\ Len(z) = Options(w)
      /\ \A n \in 1 .. Options(w) : z[n] = Option(w, n, IF n = i THEN m ELSE 0)
  BY OptionsType
<1>3. Handing(w, i, k) = [options |-> o, current |-> i, phase |-> "parsed"]
  BY DEF Handing
<1>4. Handing(w, i, m) = [options |-> z, current |-> i, phase |-> "parsed"]
  BY DEF Handing
<1>5. t = [o EXCEPT ![i] = e]
  OBVIOUS
<1> HIDE DEF o, z
<1>6. e = z[i] /\ e \in OptionRecords
  <2>1. o[i] = Option(w, i, k) /\ z[i] = Option(w, i, m) /\ z[i] \in OptionRecords
    BY <1>1, <1>2
  <2>2. [Option(w, i, k) EXCEPT !.next = m] = Option(w, i, m)
    BY OptionNext DEF Option
  <2>3. e = [Option(w, i, k) EXCEPT !.next = m]
    BY <2>1
  <2> HIDE DEF e
  <2> QED BY <2>1, <2>2, <2>3
<1> HIDE DEF e
<1>7. /\ t \in Seq(OptionRecords) /\ Len(t) = Options(w)
      /\ \A n \in 1 .. Options(w) : t[n] = IF n = i THEN e ELSE o[n]
  <2> HIDE DEF t
  <2>1. /\ t \in Seq(OptionRecords) /\ Len(t) = Len(o)
        /\ \A n \in 1 .. Len(o) : t[n] = IF n = i THEN e ELSE o[n]
    BY <1>1, <1>5, <1>6, EntrySet
  <2> QED BY <1>1, <2>1
<1>8. [[options |-> o, current |-> i, phase |-> "parsed"] EXCEPT !.options[i].next = m]
        = [options |-> t, current |-> i, phase |-> "parsed"]
  <2>1. \A x, y, a, b : [[options |-> x, current |-> a, phase |-> b] EXCEPT !.options = y]
                          = [options |-> y, current |-> a, phase |-> b]
    OBVIOUS
  <2>2. [[options |-> o, current |-> i, phase |-> "parsed"] EXCEPT !.options[i].next = m]
          = [[options |-> o, current |-> i, phase |-> "parsed"] EXCEPT !.options = t]
    OBVIOUS
  <2> HIDE DEF t
  <2> QED BY <2>1, <2>2
<1> HIDE DEF t
<1>9. ASSUME NEW n \in 1 .. Options(w) PROVE t[n] = z[n]
  BY <1>1, <1>2, <1>6, <1>7
<1>10. t = [n \in 1 .. Options(w) |-> t[n]] /\ z = [n \in 1 .. Options(w) |-> z[n]]
  BY <1>1, <1>2, <1>7, SeqAsFunction
<1>11. t = z
  BY <1>9, <1>10
<1> QED BY <1>3, <1>4, <1>8, <1>11

(* What the program sees of the option given out last *)
LEMMA CursorFacts ==
  ASSUME NEW w \in Seq(Words!Words), NEW i \in 1 .. Options(w), NEW k \in Nat,
         NEW g \in Nat, CursorsIn(w, i, k, g)
  PROVE  /\ Handing(w, i, k).current = i
         /\ Handing(w, i, k).options[i].next = k
         /\ Handing(w, i, k).options[i].args = ArgsIn(w, NthAbout(w, i))
         /\ Given(w, i, g)[i].args = << >> <=> g = 0
         /\ g \in 0 .. Len(Full(w, i)) /\ (k = g \/ (k = 0 /\ g = Len(Full(w, i))))
<1>1. Options(w) \in Nat /\ i # 0 /\ i \in 0 .. Options(w) /\ i \in 1 .. i
  <2>1. Options(w) \in Nat
    BY WordPlaces DEF Options
  <2> QED BY <2>1
<1>2. g \in 0 .. Len(Full(w, i)) /\ (k = g \/ (k = 0 /\ g = Len(Full(w, i))))
  BY <1>1 DEF CursorsIn
<1>3. Full(w, i) \in Seq(Args \union {JUNK}) /\ Len(Full(w, i)) \in Nat
  BY FullFacts
<1>4. OptionsAt(w, i, k)[i] = Option(w, i, k)
  BY OptionsType
<1>5. Option(w, i, k).next = k /\ Option(w, i, k).args = ArgsIn(w, NthAbout(w, i))
  BY DEF Option
<1>6. Handing(w, i, k).current = i /\ Handing(w, i, k).options = OptionsAt(w, i, k)
  BY DEF Handing
<1>7. Given(w, i, g)[i].args = SubSeq(Full(w, i), 1, g)
  <2>1. g <= Len(Full(w, i))
    BY <1>2, <1>3
  <2>2. Given(w, i, g)[i] = [patern |-> NthAbout(w, i),
                             args |-> IF i = i THEN SubSeq(Full(w, i), 1, g) ELSE Full(w, i)]
    BY <1>1, <2>1, GivenType
  <2> QED BY <2>2
<1>8. Len(SubSeq(Full(w, i), 1, g)) = g /\ SubSeq(Full(w, i), 1, g) \in Seq(Args \union {JUNK})
  BY <1>2, <1>3, PrefixFacts
<1>9. SubSeq(Full(w, i), 1, g) = << >> <=> g = 0
  <2> DEFINE p == SubSeq(Full(w, i), 1, g)
  <2>1. p \in Seq(Args \union {JUNK}) /\ Len(p) = g
    BY <1>8
  <2> HIDE DEF p
  <2>2. p = << >> <=> g = 0
    BY <2>1
  <2> QED BY <2>2 DEF p
<1> QED BY <1>2, <1>4, <1>5, <1>6, <1>7, <1>9

LEMMA GetoptArg == GetoptInv /\ Words!NextArg => GetoptInv'
<1> SUFFICES ASSUME GetoptInv, Words!NextArg PROVE WordsHold(object', ghost')
  BY DEF GetoptInv
<1> DEFINE w == ghost.words
<1>1. object.phase = "parsed" /\ object.current # 0
  BY DEF Words!NextArg, Words!ArgsLeft
<1>2. /\ ghost = [words |-> w, given |-> ghost.given] /\ w \in Seq(Words!Words)
      /\ WordsHanded(object, ghost)
  BY <1>1 DEF GetoptInv, WordsHold
<1>3. PICK i \in 0 .. Options(w) : \E k, g \in Nat :
        CursorsIn(w, i, k, g) /\ object = Handing(w, i, k) /\ ghost.given = Given(w, i, g)
  BY <1>2 DEF WordsHanded
<1>4. PICK k \in Nat, g \in Nat :
        CursorsIn(w, i, k, g) /\ object = Handing(w, i, k) /\ ghost.given = Given(w, i, g)
  BY <1>3
<1>5. object.current = i
  BY <1>4 DEF Handing
<1>6. i \in 1 .. Options(w) /\ Options(w) \in Nat
  <2>1. Options(w) \in Nat
    BY <1>2, WordPlaces DEF Options
  <2> QED BY <1>1, <1>3, <1>5, <2>1
<1> DEFINE a == ArgsIn(w, NthAbout(w, i))
           f == Full(w, i)
<1>7. /\ object.options[i].next = k /\ object.options[i].args = a
      /\ ghost.given[i].args = << >> <=> g = 0
      /\ g \in 0 .. Len(f) /\ (k = g \/ (k = 0 /\ g = Len(f)))
  <2> HIDE DEF w
  <2> QED BY <1>2, <1>4, <1>6, CursorFacts
<1>8. k # 0 \/ g = 0
  BY <1>5, <1>7 DEF Words!NextArg, Words!ArgsLeft
<1>9. f \in Seq(Args \union {JUNK}) /\ Len(f) \in Nat \ {0}
  BY <1>2, FullFacts
<1>10. k = g
  <2> HIDE DEF f
  <2> QED BY <1>7, <1>8, <1>9
<1>11. a \in Seq(Args)
  BY <1>2, ArgsFacts
<1>12. f = IF a = << >> THEN <<JUNK>> ELSE a
  BY DEF Full
<1>13. (IF Len(a) = 0 THEN 1 ELSE Len(a)) = Len(f)
  <2> HIDE DEF a, f
  <2> QED BY <1>11, <1>12
<1>14. /\ k = Len(f) => object' = [object EXCEPT !.options[i].next = 0] /\ ghost' = ghost
       /\ k # Len(f) => /\ object' = [object EXCEPT !.options[i].next = k + 1]
                        /\ ghost' = [ghost EXCEPT !.given[i].args =
                                       Append(@, IF Len(a) = 0 THEN JUNK ELSE a[k + 1])]
  <2> HIDE DEF w, a, f
  <2> QED BY <1>5, <1>7, <1>13 DEF Words!NextArg
<1>15. CASE k = Len(f)
  <2>1. object' = Handing(w, i, 0)
    BY <1>2, <1>4, <1>6, <1>14, <1>15, HandingNext
  <2>2. CursorsIn(w, i, 0, g)
    BY <1>6, <1>7, <1>10, <1>15 DEF CursorsIn
  <2>3. object'.phase = "parsed"
    BY <2>1 DEF Handing
  <2>4. ghost' = ghost
    BY <1>14, <1>15
  <2> HIDE DEF w
  <2>5. ghost'.words = w /\ ghost'.given = Given(w, i, g)
    BY <1>4, <2>4 DEF w
  <2>6. WordsHanded(object', ghost')
    BY <1>3, <1>4, <2>1, <2>2, <2>5 DEF WordsHanded
  <2>7. ghost' = [words |-> ghost'.words, given |-> ghost'.given]
    BY <1>2, <2>4 DEF w
  <2> QED BY <1>2, <2>3, <2>5, <2>6, <2>7 DEF WordsHold
<1>16. CASE k # Len(f)
  <2>1. g < Len(f) /\ g + 1 \in 0 .. Len(f) /\ g + 1 \in Nat /\ k + 1 = g + 1
    <3> HIDE DEF f
    <3> QED BY <1>7, <1>9, <1>10, <1>16
  <2>2. object' = Handing(w, i, g + 1)
    <3>1. object' = [Handing(w, i, k) EXCEPT !.options[i].next = g + 1]
      BY <1>4, <1>14, <1>16, <2>1
    <3>2. [Handing(w, i, k) EXCEPT !.options[i].next = g + 1] = Handing(w, i, g + 1)
      BY <1>2, <1>6, <2>1, HandingNext
    <3> QED BY <3>1, <3>2
  <2>3. (IF Len(a) = 0 THEN JUNK ELSE a[k + 1]) = f[g + 1]
    <3> HIDE DEF a, f
    <3>1. CASE a = << >>
      <4>1. Len(f) = 1 /\ f = <<JUNK>> /\ g = 0 /\ Len(a) = 0
        BY <1>12, <2>1, <3>1
      <4> QED BY <4>1
    <3>2. CASE a # << >>
      <4>1. f = a /\ Len(a) # 0
        BY <1>11, <1>12, <3>2
      <4> QED BY <1>10, <4>1
    <3> QED BY <3>1, <3>2
  <2>4. [Given(w, i, g) EXCEPT ![i].args = Append(@, f[g + 1])] = Given(w, i, g + 1)
    BY <1>2, <1>6, <2>1, GivenArg
  <2>5. ghost' = [words |-> w, given |-> Given(w, i, g + 1)]
    <3>1. ghost' = [ghost EXCEPT !.given[i].args = Append(@, f[g + 1])]
      BY <1>14, <1>16, <2>3
    <3>2. ghost = [words |-> w, given |-> Given(w, i, g)]
      BY <1>2, <1>4
    <3> DEFINE s == Given(w, i, g)
               t == [s EXCEPT ![i].args = Append(@, f[g + 1])]
    <3>3. [ghost EXCEPT !.given[i].args = Append(@, f[g + 1])] = [ghost EXCEPT !.given = t]
      <4> HIDE DEF w, s, f
      <4>1. ghost.given = s
        BY <1>4 DEF s
      <4> QED BY <4>1
    <3>4. t = Given(w, i, g + 1)
      BY <2>4
    <3> HIDE DEF w, s, t, f
    <3>5. [[words |-> w, given |-> s] EXCEPT !.given = t] = [words |-> w, given |-> t]
      OBVIOUS
    <3>6. ghost = [words |-> w, given |-> s]
      BY <3>2 DEF s
    <3> QED BY <3>1, <3>3, <3>4, <3>5, <3>6
  <2>6. CursorsIn(w, i, g + 1, g + 1)
    BY <1>6, <2>1 DEF CursorsIn
  <2>7. object'.phase = "parsed"
    BY <2>2 DEF Handing
  <2> HIDE DEF w
  <2>8. ghost'.words = w /\ ghost'.given = Given(w, i, g + 1)
    BY <2>5
  <2>9. WordsHanded(object', ghost')
    BY <1>3, <2>1, <2>2, <2>6, <2>8 DEF WordsHanded
  <2> QED BY <1>2, <2>5, <2>7, <2>8, <2>9 DEF WordsHold
<1> QED BY <1>15, <1>16

LEMMA NoWords ==
  ASSUME NEW w \in Seq(Words!Words)
  PROVE  w = << >> <=> Options(w) = 0
<1>1. ASSUME w # << >> PROVE Options(w) # 0
  <2>1. 1 \in 1 .. Len(w)
    BY <1>1
  <2>2. PICK n \in 1 .. Options(w) : NthAbout(w, n) = AboutIn(w, 1)
    BY <2>1, NthMet
  <2>3. Options(w) \in Nat
    BY WordPlaces DEF Options
  <2> QED BY <2>2, <2>3
<1> QED BY <1>1, NoOptions

LEMMA GetoptOption == GetoptInv /\ Words!NextOption => GetoptInv'
<1> SUFFICES ASSUME GetoptInv, Words!NextOption
             PROVE  WordsHold(object', ghost')
  BY DEF GetoptInv
<1> DEFINE w == ghost.words
           N == Options(w)
<1>1. object.phase = "parsed"
  BY DEF Words!NextOption
<1>2. /\ ghost = [words |-> w, given |-> ghost.given] /\ w \in Seq(Words!Words)
      /\ WordsHanded(object, ghost)
  BY <1>1 DEF GetoptInv, WordsHold
<1>3. PICK i \in 0 .. N : \E k, g \in Nat :
        CursorsIn(w, i, k, g) /\ object = Handing(w, i, k) /\ ghost.given = Given(w, i, g)
  BY <1>2 DEF WordsHanded
<1>4. PICK k \in Nat, g \in Nat :
        CursorsIn(w, i, k, g) /\ object = Handing(w, i, k) /\ ghost.given = Given(w, i, g)
  BY <1>3
<1>5. N \in Nat /\ i \in Nat
  <2>1. N \in Nat
    BY <1>2, WordPlaces DEF Options
  <2> QED BY <1>3, <2>1
<1> DEFINE o == OptionsAt(w, i, k)
<1>6. /\ object = [options |-> o, current |-> i, phase |-> "parsed"]
      /\ object.current = i /\ object.options = o
  BY <1>4 DEF Handing
<1>7. /\ o \in Seq(OptionRecords) /\ Len(o) = N
      /\ \A n \in 1 .. N : o[n] = Option(w, n, IF n = i THEN k ELSE 0)
  BY <1>2, OptionsType
<1>8. i # 0 => k = 0 /\ g = Len(Full(w, i)) /\ i \in 1 .. N
  <2> SUFFICES ASSUME i # 0 PROVE k = 0 /\ g = Len(Full(w, i)) /\ i \in 1 .. N
    OBVIOUS
  <2>1. i \in 1 .. N
    BY <1>3, <1>5
  <2>2. /\ object.options[i].next = k
        /\ ghost.given[i].args = << >> <=> g = 0
        /\ g \in 0 .. Len(Full(w, i)) /\ (k = g \/ (k = 0 /\ g = Len(Full(w, i))))
    <3> HIDE DEF w
    <3> QED BY <1>2, <1>4, <2>1, CursorFacts
  <2>3. ~Words!ArgsLeft
    BY DEF Words!NextOption
  <2>4. k = 0 /\ g # 0
    <3>1. k = 0 /\ ghost.given[i].args # << >>
      BY <1>6, <2>2, <2>3 DEF Words!ArgsLeft
    <3> QED BY <2>2, <3>1
  <2> HIDE DEF w
  <2> QED BY <2>1, <2>2, <2>4
<1>9. IF N = 0
      THEN /\ object' = [object EXCEPT !.phase = "ended"]
           /\ ghost' = [ghost EXCEPT !.given = << [patern |-> JUNK, args |-> << >>] >>]
      ELSE IF i = N
      THEN object' = [object EXCEPT !.current = 0, !.phase = "ended"] /\ ghost' = ghost
      ELSE /\ object' = [object EXCEPT !.current = i + 1]
           /\ ghost' = [ghost EXCEPT !.given =
                          Append(@, [patern |-> o[i + 1].patern, args |-> << >>])]
  <2> HIDE DEF w, N, o
  <2> QED BY <1>6, <1>7 DEF Words!NextOption
<1> HIDE DEF o
<1>10. CASE N = 0
  <2>1. w = << >>
    BY <1>2, <1>10, NoWords
  <2>2. object' = [object EXCEPT !.phase = "ended"]
    BY <1>9, <1>10
  <2>3. ghost' = [ghost EXCEPT !.given = << [patern |-> JUNK, args |-> << >>] >>]
    BY <1>9, <1>10
  <2>4. object'.phase = "ended"
    BY <1>6, <2>2
  <2> HIDE DEF w
  <2>5. [[words |-> w, given |-> ghost.given]
           EXCEPT !.given = << [patern |-> JUNK, args |-> << >>] >>]
          = [words |-> w, given |-> << [patern |-> JUNK, args |-> << >>] >>]
    OBVIOUS
  <2>6. ghost' = [words |-> w, given |-> << [patern |-> JUNK, args |-> << >>] >>]
    BY <1>2, <2>3, <2>5, Zenon
  <2>7. /\ ghost'.words = w /\ ghost'.given = << [patern |-> JUNK, args |-> << >>] >>
        /\ ghost' = [words |-> ghost'.words, given |-> ghost'.given]
    BY <2>6
  <2>8. ghost'.given = Answer(ghost'.words)
    BY <2>1, <2>7 DEF Answer
  <2> QED BY <1>2, <2>4, <2>7, <2>8 DEF WordsHold
<1>11. CASE N # 0 /\ i = N
  <2>1. w # << >>
    BY <1>2, <1>11, NoWords
  <2>2. object' = [object EXCEPT !.current = 0, !.phase = "ended"] /\ ghost' = ghost
    BY <1>9, <1>11
  <2>3. object'.phase = "ended"
    BY <1>6, <2>2
  <2>4. Given(w, i, g) = [n \in 1 .. N |-> [patern |-> NthAbout(w, n), args |-> Full(w, n)]]
    <3>1. k = 0 /\ g = Len(Full(w, i)) /\ i \in 1 .. N
      BY <1>8, <1>11
    <3>2. SubSeq(Full(w, i), 1, Len(Full(w, i))) = Full(w, i)
      BY <1>2, FullFacts
    <3>3. Given(w, i, g) = [n \in 1 .. i |-> [patern |-> NthAbout(w, n),
             args |-> IF n = i THEN SubSeq(Full(w, n), 1, g) ELSE Full(w, n)]]
      BY DEF Given
    <3> HIDE DEF w, N
    <3>4. \A n \in 1 .. i :
            (IF n = i THEN SubSeq(Full(w, n), 1, g) ELSE Full(w, n)) = Full(w, n)
      BY <3>1, <3>2
    <3> QED BY <1>11, <3>3, <3>4
  <2>5. ghost'.given = Answer(ghost'.words)
    <3>1. ghost'.words = w /\ ghost'.given = Given(w, i, g)
      BY <1>4, <2>2
    <3>2. Answer(w) = [n \in 1 .. N |-> [patern |-> NthAbout(w, n), args |-> Full(w, n)]]
      BY <2>1 DEF Answer
    <3> HIDE DEF w, N
    <3> QED BY <2>4, <3>1, <3>2
  <2> QED BY <1>2, <2>2, <2>3, <2>5 DEF WordsHold
<1>12. CASE N # 0 /\ i # N
  <2>1. i + 1 \in 1 .. N /\ i + 1 \in 0 .. N /\ i + 1 # 0
    BY <1>3, <1>5, <1>12
  <2>2. o[i + 1].patern = NthAbout(w, i + 1)
    BY <1>7, <2>1 DEF Option
  <2>3. /\ object' = [object EXCEPT !.current = i + 1]
        /\ ghost' = [ghost EXCEPT !.given =
                       Append(@, [patern |-> NthAbout(w, i + 1), args |-> << >>])]
    BY <1>9, <1>12, <2>2
  <2>4. Append(Given(w, i, g), [patern |-> NthAbout(w, i + 1), args |-> << >>])
          = Given(w, i + 1, 0)
    BY <1>2, <1>8, <2>1, GivenOption
  <2>5. ghost' = [words |-> w, given |-> Given(w, i + 1, 0)]
    <3>1. ghost' = [ghost EXCEPT !.given = Given(w, i + 1, 0)]
      BY <1>4, <2>3, <2>4
    <3> DEFINE t == Given(w, i + 1, 0)
    <3> HIDE DEF w, t
    <3>2. [[words |-> w, given |-> ghost.given] EXCEPT !.given = t] = [words |-> w, given |-> t]
      OBVIOUS
    <3>3. ghost' = [ghost EXCEPT !.given = t]
      BY <3>1 DEF t
    <3>4. ghost' = [words |-> w, given |-> t]
      BY <1>2, <3>2, <3>3, Zenon
    <3> QED BY <3>4 DEF t
  <2>6. OptionsAt(w, i + 1, 0) = o
    <3> DEFINE z == OptionsAt(w, i + 1, 0)
    <3>1. /\ z \in Seq(OptionRecords) /\ Len(z) = N
          /\ \A n \in 1 .. N : z[n] = Option(w, n, IF n = i + 1 THEN 0 ELSE 0)
      BY <1>2, OptionsType
    <3> HIDE DEF z, w, N
    <3>2. k = 0 \/ i = 0
      BY <1>8
    <3>3. ASSUME NEW n \in 1 .. N PROVE z[n] = o[n]
      <4>1. z[n] = Option(w, n, 0)
        BY <3>1
      <4>2. (IF n = i THEN k ELSE 0) = 0
        BY <1>5, <3>2
      <4>3. o[n] = Option(w, n, 0)
        BY <1>7, <4>2
      <4> QED BY <4>1, <4>3
    <3>4. z = [n \in 1 .. N |-> z[n]] /\ o = [n \in 1 .. N |-> o[n]]
      BY <1>5, <1>7, <3>1, SeqAsFunction
    <3>5. z = o
      BY <3>3, <3>4
    <3> QED BY <3>5 DEF z
  <2>7. object' = Handing(w, i + 1, 0)
    <3>1. Handing(w, i + 1, 0) = [options |-> o, current |-> i + 1, phase |-> "parsed"]
      BY <2>6 DEF Handing
    <3> HIDE DEF w
    <3>2. [object EXCEPT !.current = i + 1]
            = [options |-> o, current |-> i + 1, phase |-> "parsed"]
      BY <1>6
    <3> QED BY <2>3, <3>1, <3>2
  <2>8. CursorsIn(w, i + 1, 0, 0)
    <3>1. Len(Full(w, i + 1)) \in Nat
      BY <1>2, FullFacts
    <3>2. 0 \in 0 .. Len(Full(w, i + 1))
      BY <3>1
    <3> QED BY <2>1, <3>2 DEF CursorsIn
  <2>9. object'.phase = "parsed"
    BY <2>7 DEF Handing
  <2>10. i + 1 \in 0 .. Options(w)
    BY <2>1
  <2> HIDE DEF w, N
  <2>11. /\ ghost'.words = w /\ ghost'.given = Given(w, i + 1, 0)
         /\ ghost' = [words |-> ghost'.words, given |-> ghost'.given]
    BY <2>5
  <2>12. WordsHanded(object', ghost')
    BY <2>7, <2>8, <2>10, <2>11 DEF WordsHanded
  <2> QED BY <1>2, <2>9, <2>11, <2>12 DEF WordsHold
<1> QED BY <1>10, <1>11, <1>12

LEMMA GetoptStep == GetoptInv /\ Words!Next => GetoptInv'
BY GetoptParses, GetoptParsed, GetoptOption, GetoptArg DEF Words!Next

LEMMA GetoptAnswers == GetoptInv => Words!CommandLine
<1> SUFFICES ASSUME GetoptInv, object.phase = "ended"
             PROVE  ghost.given = IF ghost.words = << >>
                                  THEN << [patern |-> JUNK, args |-> << >>] >>
                                  ELSE [n \in DOMAIN Words!Expected |->
                                          IF Words!Expected[n].args # << >> THEN Words!Expected[n]
                                          ELSE [Words!Expected[n] EXCEPT !.args = <<JUNK>>]]
  BY DEF Words!CommandLine
<1> DEFINE w == ghost.words
           e == Words!Expected
<1>1. ghost.given = Answer(w)
  BY DEF GetoptInv, WordsHold
<1>2. e = OptionsIn(w)
  BY ExpectedIs
<1>3. /\ DOMAIN e = 1 .. Options(w)
      /\ \A n \in 1 .. Options(w) :
           e[n] = [patern |-> NthAbout(w, n), args |-> ArgsIn(w, NthAbout(w, n))]
  <2>1. /\ DOMAIN OptionsIn(w) = 1 .. Options(w)
        /\ \A n \in 1 .. Options(w) :
             OptionsIn(w)[n] = [patern |-> NthAbout(w, n), args |-> ArgsIn(w, NthAbout(w, n))]
    BY DEF OptionsIn, Options
  <2> HIDE DEF e, w
  <2> QED BY <1>2, <2>1
<1> HIDE DEF e, w
<1>4. ASSUME NEW n \in 1 .. Options(w)
      PROVE  (IF e[n].args # << >> THEN e[n] ELSE [e[n] EXCEPT !.args = <<JUNK>>])
               = [patern |-> NthAbout(w, n), args |-> Full(w, n)]
  <2> DEFINE a == ArgsIn(w, NthAbout(w, n))
             p == NthAbout(w, n)
  <2>1. e[n] = [patern |-> p, args |-> a] /\ Full(w, n) = IF a = << >> THEN <<JUNK>> ELSE a
    BY <1>3 DEF Full
  <2> HIDE DEF a, p
  <2>2. e[n].args = a
    BY <2>1
  <2>3. [[patern |-> p, args |-> a] EXCEPT !.args = <<JUNK>>] = [patern |-> p, args |-> <<JUNK>>]
    OBVIOUS
  <2>4. (IF e[n].args # << >> THEN e[n] ELSE [e[n] EXCEPT !.args = <<JUNK>>])
          = [patern |-> p, args |-> Full(w, n)]
    BY <2>1, <2>2, <2>3
  <2> QED BY <2>4 DEF p
<1>5. w # << >> => Answer(w) = [n \in 1 .. Options(w) |->
                                  [patern |-> NthAbout(w, n), args |-> Full(w, n)]]
  BY DEF Answer
<1>6. w = << >> => Answer(w) = << [patern |-> JUNK, args |-> << >>] >>
  BY DEF Answer
<1>7. [n \in DOMAIN e |-> IF e[n].args # << >> THEN e[n] ELSE [e[n] EXCEPT !.args = <<JUNK>>]]
        = [n \in 1 .. Options(w) |-> [patern |-> NthAbout(w, n), args |-> Full(w, n)]]
  BY <1>3, <1>4
<1>8. ghost.given = IF w = << >> THEN << [patern |-> JUNK, args |-> << >>] >>
        ELSE [n \in DOMAIN e |-> IF e[n].args # << >> THEN e[n] ELSE [e[n] EXCEPT !.args = <<JUNK>>]]
  BY <1>1, <1>5, <1>6, <1>7
<1> QED BY <1>8 DEF w, e

LEMMA LibraryGetopt == Spec => [](part = "getopt" => GetoptInv)
<1> DEFINE Inv == part = "getopt" => GetoptInv
<1>1. Init => Inv
  BY GetoptStarts DEF Init
<1>2. Inv /\ [Next]_vars => Inv'
  <2> SUFFICES ASSUME Inv, [Next]_vars, part' = "getopt" PROVE GetoptInv'
    OBVIOUS
  <2>1. CASE UNCHANGED vars
    <3>1. object' = object /\ ghost' = ghost /\ part = "getopt"
      BY <2>1 DEF vars
    <3>2. WordsHold(object, ghost)
      BY <3>1 DEF GetoptInv
    <3>3. WordsHold(object', ghost')
      BY <3>1, <3>2
    <3> QED BY <3>3 DEF GetoptInv
  <2>2. CASE Next
    <3>1. part = "getopt" /\ Words!Next
      BY <2>2 DEF Next, UseHeap, UseVector, UseTree, UseMap, UseQueue, UseTimer, UseGetopt,
         UseHttp, UseSort, UseUrl, UseMd5, UseSerial
    <3> QED BY <3>1, GetoptStep
  <2> QED BY <2>1, <2>2
<1> QED BY <1>1, <1>2, PTL DEF Spec

(* For command lines of any length and any set of options: after a parse   *)
(* that succeeded, the cursors of src/bscl_getopt.c give every option on   *)
(* the command line once, in the order they came, each with all the        *)
(* arguments that followed it anywhere, and junk only in the place of what *)
(* is not there at all.                                                    *)
THEOREM LibraryCommandLine == Spec => []CommandLine
<1>1. (part = "getopt" => GetoptInv) => CommandLine
  BY GetoptAnswers DEF CommandLine
<1> QED BY <1>1, LibraryGetopt, PTL
=============================================================================
