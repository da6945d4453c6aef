----------------------------- MODULE FtpProofs -----------------------------
(***************************************************************************)
(* For any number of sessions and descriptors, any commands and failures:  *)
(* no session of src/bscl_ftpd.c loses a descriptor or closes another's,   *)
(* and its replies mean what they say.                                     *)
(***************************************************************************)
EXTENDS FtpSession, FiniteSetTheorems, SequenceTheorems, ModuloFacts, TLAPS

-----------------------------------------------------------------------------
(* Descriptors. *)
Owners == Sessions \union {NONE, SERVER, LOST}
OwnType == [Descriptors -> Owners]
MaybeFd == Descriptors \union {NONE}

(* The system gives a free descriptor. *)
LEMMA NewIsFree ==
  ASSUME NEW own \in OwnType, Free(own) # {}
  PROVE  NewFd(own) \in Descriptors /\ own[NewFd(own)] = NONE
<1>1. \E d \in Free(own) : \A e \in Free(own) : d <= e
  BY Minimum, FtpAssumption DEF Free
<1>2. NewFd(own) \in Free(own)
  BY <1>1 DEF NewFd
<1> QED BY <1>2 DEF Free

(* Session s has the descriptors c, a and f open, as far as they are not   *)
(* NONE, and no other.                                                     *)
Owns(own, s, c, a, f) ==
  /\ \A d \in Descriptors : own[d] = s <=> d \in {c, a, f}
  /\ c # NONE => c # a /\ c # f
  /\ a # NONE => a # f

(* What a step of session s may do to the descriptors of the others. *)
OthersKeep(own, next, s) ==
  \A t \in Sessions \ {s} : \A d \in Descriptors : next[d] = t <=> own[d] = t

LEMMA Opened ==
  ASSUME NEW own \in OwnType, Free(own) # {}, NEW who \in Owners
  PROVE  /\ Open(own, who) \in OwnType
         /\ OthersKeep(own, Open(own, who), who)
         /\ who \in {SERVER, LOST} =>
              \A t \in Sessions : \A d \in Descriptors : Open(own, who)[d] = t <=> own[d] = t
BY NewIsFree, FtpAssumption DEF OwnType, Owners, Open, OthersKeep

LEMMA OpenedOwn ==
  ASSUME NEW own \in OwnType, Free(own) # {}, NEW s \in Sessions,
         NEW c \in MaybeFd, NEW a \in MaybeFd, NEW f \in MaybeFd, Owns(own, s, c, a, f)
  PROVE  /\ NewFd(own) \in Descriptors
         /\ Open(own, s) \in OwnType
         /\ OthersKeep(own, Open(own, s), s)
         /\ c = NONE => Owns(Open(own, s), s, NewFd(own), a, f)
         /\ a = NONE => Owns(Open(own, s), s, c, NewFd(own), f)
         /\ f = NONE => Owns(Open(own, s), s, c, a, NewFd(own))
<1> DEFINE n == NewFd(own)
<1>1. n \in Descriptors /\ own[n] = NONE
  BY NewIsFree
<1>2. n # NONE /\ s # NONE /\ n \notin {c, a, f}
  BY <1>1, FtpAssumption DEF Owns
<1>3. Open(own, s) \in OwnType /\ OthersKeep(own, Open(own, s), s)
  BY Opened DEF Owners
<1>4. \A d \in Descriptors : Open(own, s)[d] = IF d = n THEN s ELSE own[d]
  BY DEF OwnType, Open
<1> HIDE DEF n
<1>5. c = NONE => Owns(Open(own, s), s, n, a, f)
  BY <1>1, <1>2, <1>4, FtpAssumption DEF Owns
<1>6. a = NONE => Owns(Open(own, s), s, c, n, f)
  BY <1>1, <1>2, <1>4, FtpAssumption DEF Owns
<1>7. f = NONE => Owns(Open(own, s), s, c, a, n)
  BY <1>1, <1>2, <1>4, FtpAssumption DEF Owns
<1> QED BY <1>1, <1>3, <1>5, <1>6, <1>7 DEF n

LEMMA ClosedOwn ==
  ASSUME NEW own \in OwnType, NEW s \in Sessions,
         NEW c \in MaybeFd, NEW a \in MaybeFd, NEW f \in MaybeFd, Owns(own, s, c, a, f),
         NEW x \in {c, a, f}
  PROVE  /\ Close(own, x) \in OwnType
         /\ OthersKeep(own, Close(own, x), s)
         /\ x = c => Owns(Close(own, x), s, NONE, a, f)
         /\ x = a => Owns(Close(own, x), s, c, NONE, f)
         /\ x = f => Owns(Close(own, x), s, c, a, NONE)
<1>0. NONE \notin Descriptors /\ NONE \notin Sessions
  BY FtpAssumption
<1>1. CASE x = NONE
  BY <1>0, <1>1 DEF Close, Owns, OthersKeep, MaybeFd
<1>2. CASE x # NONE
  <2>1. x \in Descriptors /\ own[x] = s
    BY <1>2 DEF MaybeFd, Owns
  <2>2. Close(own, x) \in OwnType
    BY <1>2, <2>1 DEF Close, OwnType, Owners
  <2>3. \A d \in Descriptors : Close(own, x)[d] = IF d = x THEN NONE ELSE own[d]
    BY <1>2, <2>1 DEF Close, OwnType
  <2>4. OthersKeep(own, Close(own, x), s)
    BY <1>0, <2>1, <2>3 DEF OthersKeep
  <2>5. x = c => Owns(Close(own, x), s, NONE, a, f)
    BY <1>0, <1>2, <2>3 DEF Owns
  <2>6. x = a => Owns(Close(own, x), s, c, NONE, f)
    BY <1>0, <1>2, <2>3 DEF Owns
  <2>7. x = f => Owns(Close(own, x), s, c, a, NONE)
    BY <1>0, <1>2, <2>3 DEF Owns
  <2> QED BY <2>2, <2>4, <2>5, <2>6, <2>7
<1> QED BY <1>1, <1>2

LEMMA KeepTwice ==
  ASSUME NEW s, NEW x, NEW y, NEW z, OthersKeep(x, y, s), OthersKeep(y, z, s)
  PROVE  OthersKeep(x, z, s)
BY DEF OthersKeep

-----------------------------------------------------------------------------
(* Command lines: those the clients send, and what is left of them. *)
Sent == UNION {Lines[s] : s \in Sessions}
LineSet == Sent \union {<< >>} \union {<< Upper(Head(line)) >> : line \in Sent \ {<< >>}}

LEMMA Remains ==
  ASSUME NEW line \in LineSet
  PROVE  /\ StaleLine(line) \in LineSet
         /\ Split(StaleLine(line)).cmd = Split(line).cmd
<1>1. CASE line = << >>
  BY <1>1 DEF StaleLine
<1>2. CASE line \in Sent \ {<< >>}
  <2>1. Upper(Upper(Head(line))) = Upper(Head(line))
    BY <1>2, FtpAssumption DEF Sent
  <2>2. StaleLine(line) = << Upper(Head(line)) >> /\ StaleLine(line) \in LineSet
    BY <1>2 DEF StaleLine, LineSet
  <2> QED BY <1>2, <2>1, <2>2 DEF Split
<1>3. CASE \E w \in Sent \ {<< >>} : line = << Upper(Head(w)) >>
  <2>1. PICK w \in Sent \ {<< >>} : line = << Upper(Head(w)) >>
    BY <1>3
  <2>2. Upper(Upper(Head(w))) = Upper(Head(w))
    BY <2>1, FtpAssumption DEF Sent
  <2>3. line # << >> /\ Head(line) = Upper(Head(w))
    BY <2>1
  <2>4. StaleLine(line) = line
    BY <2>1, <2>2, <2>3 DEF StaleLine
  <2> QED BY <2>4
<1> QED BY <1>1, <1>2, <1>3 DEF LineSet

(* Replies. *)
Faults == {"no", "ascii", "accept", "data", "opendir"}
LogType == [finals : 0 .. 2, begun : BOOLEAN, complete : BOOLEAN, fault : Faults]

LEMMA SingleReply ==
  ASSUME NEW l \in LogType, NEW code \in Nat
  PROVE  Replied(l, << code >>) =
           [finals |-> l.finals + (IF code >= 200 THEN 1 ELSE 0),
            begun |-> l.begun \/ code = 150,
            complete |-> l.complete \/ code = 226, fault |-> l.fault]
<1> DEFINE finals == {i \in DOMAIN << code >> : << code >>[i] >= 200}
           n == IF code >= 200 THEN 1 ELSE 0
<1>1. Cardinality(finals) = n
  <2>1. CASE code >= 200
    <3>1. finals = {1}
      BY <2>1
    <3> QED BY <2>1, <3>1, FS_Singleton
  <2>2. CASE ~(code >= 200)
    <3>1. finals = {}
      BY <2>2
    <3> QED BY <2>2, <3>1, FS_EmptySet
  <2> QED BY <2>1, <2>2
<1>2. (\E i \in DOMAIN << code >> : << code >>[i] = 150) = (code = 150)
  <2>1. CASE code = 150
    <3>1. \E i \in DOMAIN << code >> : << code >>[i] = 150
      BY <2>1
    <3> QED BY <2>1, <3>1, Zenon
  <2>2. CASE code # 150
    <3>1. ~\E i \in DOMAIN << code >> : << code >>[i] = 150
      BY <2>2
    <3> QED BY <2>2, <3>1, Zenon
  <2> QED BY <2>1, <2>2
<1>3. (\E i \in DOMAIN << code >> : << code >>[i] = 226) = (code = 226)
  <2>1. CASE code = 226
    <3>1. \E i \in DOMAIN << code >> : << code >>[i] = 226
      BY <2>1
    <3> QED BY <2>1, <3>1, Zenon
  <2>2. CASE code # 226
    <3>1. ~\E i \in DOMAIN << code >> : << code >>[i] = 226
      BY <2>2
    <3> QED BY <2>2, <3>1, Zenon
  <2> QED BY <2>1, <2>2
<1>4. Replied(l, << code >>) =
        [l EXCEPT !.finals = @ + n, !.begun = @ \/ code = 150, !.complete = @ \/ code = 226]
  BY <1>1, <1>2, <1>3, Zenon DEF Replied
<1> QED BY <1>4 DEF LogType

LEMMA NoReply ==
  ASSUME NEW l \in LogType
  PROVE  Replied(l, << >>) = l
<1> DEFINE codes == << >>
           finals == {i \in DOMAIN codes : codes[i] >= 200}
           n == 0
           no == FALSE
<1>1. Cardinality(finals) = n
  <2>1. finals = {}
    OBVIOUS
  <2> QED BY <2>1, FS_EmptySet
<1>2. /\ (\E i \in DOMAIN codes : codes[i] = 150) = no
      /\ (\E i \in DOMAIN codes : codes[i] = 226) = no
  OBVIOUS
<1> HIDE DEF codes, n, no
<1>3. Replied(l, codes) = [l EXCEPT !.finals = @ + n, !.begun = @ \/ no, !.complete = @ \/ no]
  BY <1>1, <1>2, Zenon DEF Replied
<1>4. ASSUME NEW r, r = [l EXCEPT !.finals = @ + n, !.begun = @ \/ no, !.complete = @ \/ no]
      PROVE  r = [finals |-> l.finals + n, begun |-> l.begun, complete |-> l.complete,
                  fault |-> l.fault]
  BY <1>4 DEF LogType, no, n
<1> QED BY <1>3, <1>4 DEF LogType, codes, n

LEMMA PairOfSeqs ==
  ASSUME NEW one \in Seq(Nat), NEW two \in Seq(Nat)
  PROVE  Len(one) = 1 /\ Len(two) = 1 =>
           /\ DOMAIN (one \o two) = {1, 2}
           /\ (one \o two)[1] = one[1] /\ (one \o two)[2] = two[1]
<1>1. one \o two \in Seq(Nat) /\ Len(one \o two) = Len(one) + Len(two)
  OBVIOUS
<1>2. \A i \in 1 .. Len(one) + Len(two) :
        (one \o two)[i] = IF i <= Len(one) THEN one[i] ELSE two[i - Len(one)]
  OBVIOUS
<1> DEFINE x == one \o two
<1>3. \A n, m \in Nat : n = 1 /\ m = 1 =>
        n + m = 2 /\ 1 \in 1 .. n + m /\ 2 \in 1 .. n + m /\ 1 <= n /\ ~(2 <= n) /\ 2 - n = 1
  OBVIOUS
<1>4. Len(one) \in Nat /\ Len(two) \in Nat
  OBVIOUS
<1>5. x \in Seq(Nat) => (Len(x) = 2 => DOMAIN x = {1, 2})
  <2> HIDE DEF x
  <2> QED OBVIOUS
<1> QED BY <1>1, <1>2, <1>3, <1>4, <1>5, Zenon

LEMMA TwoReplies ==
  ASSUME NEW l \in LogType
  PROVE  Replied(l, << 425 >> \o << 451 >>) =
           [finals |-> l.finals + 2, begun |-> l.begun, complete |-> l.complete,
            fault |-> l.fault]
<1> DEFINE codes == << 425 >> \o << 451 >>
           finals == {i \in DOMAIN codes : codes[i] >= 200}
<1>0. DOMAIN codes = {1, 2} /\ codes[1] = 425 /\ codes[2] = 451
  <2> DEFINE one == << 425 >>
             two == << 451 >>
  <2>1. /\ one \in Seq(Nat) /\ Len(one) = 1 /\ one[1] = 425
        /\ two \in Seq(Nat) /\ Len(two) = 1 /\ two[1] = 451
    OBVIOUS
  <2> HIDE DEF one, two
  <2>2. /\ DOMAIN (one \o two) = {1, 2}
        /\ (one \o two)[1] = 425 /\ (one \o two)[2] = 451
    BY <2>1, PairOfSeqs
  <2> QED BY <2>2 DEF one, two
<1> HIDE DEF codes
<1>1. Cardinality(finals) = 2
  <2>1. finals = {1} \union {2}
    BY <1>0
  <2>2. Cardinality({1}) = 1 /\ IsFiniteSet({1})
    BY FS_Singleton
  <2>3. 2 \notin {1}
    OBVIOUS
  <2>4. Cardinality({1} \union {2}) = Cardinality({1}) + 1
    BY <2>2, <2>3, FS_AddElement, Zenon
  <2> HIDE DEF finals
  <2> QED BY <2>1, <2>2, <2>4
<1>2. (\E i \in DOMAIN codes : codes[i] = 150) = FALSE
  BY <1>0
<1>3. (\E i \in DOMAIN codes : codes[i] = 226) = FALSE
  BY <1>0
<1> DEFINE n == 2
           no == FALSE
<1>4. /\ Cardinality(finals) = n
      /\ (\E i \in DOMAIN codes : codes[i] = 150) = no
      /\ (\E i \in DOMAIN codes : codes[i] = 226) = no
  BY <1>1, <1>2, <1>3
<1> HIDE DEF n, no
<1>5. Replied(l, codes) = [l EXCEPT !.finals = @ + n, !.begun = @ \/ no, !.complete = @ \/ no]
  BY <1>4, Zenon DEF Replied
<1>6. ASSUME NEW r, r = [l EXCEPT !.finals = @ + n, !.begun = @ \/ no, !.complete = @ \/ no]
      PROVE  r = [finals |-> l.finals + n, begun |-> l.begun, complete |-> l.complete,
                  fault |-> l.fault]
  BY <1>6 DEF LogType, no, n
<1> QED BY <1>5, <1>6 DEF LogType, codes, n

-----------------------------------------------------------------------------
(* The inductive invariant: what a session holds, and what it has replied, *)
(* at each place of its thread.                                            *)
Busy == {"accept", "retr connect", "retr wait", "retr send", "list send"}
Listing == {"list connect", "list wait", "list open", "list send"}
Places == Resting \union Busy \union Listing \union {"command", "closing"}

SessRec ==
  [at : Places, line : LineSet, left : Nat, ctrl : MaybeFd, data : MaybeFd,
   dest : Addresses \union {NONE}, fresh : BOOLEAN, mode : {"binary", "other"},
   fd : MaybeFd, sent : 0 .. Blocks, ok : BOOLEAN]

Knows(r) ==
  /\ r.at \in {"new", "ended", "lost"} => r.ctrl = NONE /\ r.data = NONE
  /\ r.fd # NONE <=> r.at \in Busy
  /\ r.at = "accept" => r.data = NONE
  /\ r.at \in Sending \union {"retr wait", "list wait"} => r.data # NONE
  /\ r.data # NONE => r.fresh

Says(r, l) ==
  /\ r.at \in {"new", "command"} => l = NoLog
  /\ r.at = "accept" => l.finals = 1 /\ ~l.begun /\ ~l.complete
  /\ r.at \in (Busy \union Listing) \ {"accept"} => l.finals = 0 /\ ~l.complete
  /\ r.at \in Listing => Split(r.line).cmd # "RETR"
  /\ r.at = "prompt" /\ l.fault = "no" => l.finals = 1 /\ (l.begun => r.data = NONE)
  /\ l.complete /\ Split(r.line).cmd = "RETR" => r.sent = Blocks

Local(s, r, l) ==
  /\ r \in SessRec /\ r.left <= MaxLines[s]
  /\ l \in LogType
  /\ Knows(r)
  /\ Says(r, l)

IInv ==
  /\ owner \in OwnType
  /\ listening \in {"start", "listen", "returned"}
  /\ sess = [s \in Sessions |-> sess[s]] /\ log = [s \in Sessions |-> log[s]]
  /\ \A s \in Sessions :
       /\ Owns(owner, s, sess[s].ctrl, sess[s].data, sess[s].fd)
       /\ Local(s, sess[s], log[s])

(* A step of one session: the others keep what they have. *)
LEMMA OneMoves ==
  ASSUME IInv, NEW s \in Sessions, NEW r, NEW l,
         sess' = [sess EXCEPT ![s] = r], log' = [log EXCEPT ![s] = l],
         listening' = listening, owner' \in OwnType, OthersKeep(owner, owner', s),
         Owns(owner', s, r.ctrl, r.data, r.fd), Local(s, r, l)
  PROVE  IInv'
<1>1. /\ sess' = [t \in Sessions |-> IF t = s THEN r ELSE sess[t]]
      /\ log' = [t \in Sessions |-> IF t = s THEN l ELSE log[t]]
  BY DEF IInv
<1>2. ASSUME NEW t \in Sessions
      PROVE  /\ Owns(owner', t, sess'[t].ctrl, sess'[t].data, sess'[t].fd)
             /\ Local(t, sess'[t], log'[t])
  <2>1. CASE t = s
    BY <1>1, <2>1
  <2>2. CASE t # s
    <3>1. sess'[t] = sess[t] /\ log'[t] = log[t]
      BY <1>1, <2>2
    <3>2. Owns(owner, t, sess[t].ctrl, sess[t].data, sess[t].fd) /\ Local(t, sess[t], log[t])
      BY DEF IInv
    <3>3. \A d \in Descriptors : owner'[d] = t <=> owner[d] = t
      BY <2>2 DEF OthersKeep
    <3>4. Owns(owner', t, sess[t].ctrl, sess[t].data, sess[t].fd)
      BY <3>2, <3>3 DEF Owns
    <3> QED BY <3>1, <3>2, <3>4
  <2> QED BY <2>1, <2>2
<1>3. sess' = [t \in Sessions |-> sess'[t]] /\ log' = [t \in Sessions |-> log'[t]]
  BY <1>1
<1>4. listening' \in {"start", "listen", "returned"}
  BY DEF IInv
<1> QED BY <1>2, <1>3, <1>4 DEF IInv

LEMMA SessFacts ==
  ASSUME IInv, NEW s \in Sessions
  PROVE  /\ owner \in OwnType /\ sess[s] \in SessRec /\ log[s] \in LogType
         /\ sess[s].ctrl \in MaybeFd /\ sess[s].data \in MaybeFd /\ sess[s].fd \in MaybeFd
         /\ Owns(owner, s, sess[s].ctrl, sess[s].data, sess[s].fd)
         /\ sess[s].left <= MaxLines[s] /\ Knows(sess[s]) /\ Says(sess[s], log[s])
         /\ log = [log EXCEPT ![s] = log[s]] /\ OthersKeep(owner, owner, s)
BY DEF IInv, Local, SessRec, OthersKeep

(* The replies to a command: one that is final, or the announcement of a   *)
(* transfer.                                                               *)
Final == [finals |-> 1, begun |-> FALSE, complete |-> FALSE, fault |-> "no"]
Begun == [finals |-> 0, begun |-> TRUE, complete |-> FALSE, fault |-> "no"]

LEMMA LogTypes == NoLog \in LogType /\ Final \in LogType /\ Begun \in LogType
BY DEF NoLog, Final, Begun, LogType, Faults

LEMMA FinalReply ==
  ASSUME NEW code \in Nat, code >= 200, code # 226
  PROVE  Replied(NoLog, << code >>) = Final
<1>1. code # 150
  OBVIOUS
<1>2. Replied(NoLog, << code >>) =
        [finals |-> NoLog.finals + (IF code >= 200 THEN 1 ELSE 0),
         begun |-> NoLog.begun \/ code = 150,
         complete |-> NoLog.complete \/ code = 226, fault |-> NoLog.fault]
  BY SingleReply, LogTypes
<1>3. /\ NoLog.finals = 0 /\ NoLog.begun = FALSE /\ NoLog.complete = FALSE
      /\ NoLog.fault = "no"
  BY DEF NoLog
<1>4. /\ NoLog.finals + (IF code >= 200 THEN 1 ELSE 0) = 1
      /\ (NoLog.begun \/ code = 150) = FALSE /\ (NoLog.complete \/ code = 226) = FALSE
  BY <1>1, <1>3
<1> QED BY <1>2, <1>3, <1>4, Zenon DEF Final

LEMMA Announcement == Replied(NoLog, << 150 >>) = Begun
<1> DEFINE code == 150
           n == NoLog.finals + (IF code >= 200 THEN 1 ELSE 0)
           b == NoLog.begun \/ code = 150
           c == NoLog.complete \/ code = 226
<1>1. Replied(NoLog, << code >>) =
        [finals |-> n, begun |-> b, complete |-> c, fault |-> NoLog.fault]
  <2>1. code \in Nat
    OBVIOUS
  <2> HIDE DEF code
  <2> QED BY <2>1, SingleReply, LogTypes
<1>2. /\ NoLog.finals = 0 /\ NoLog.begun = FALSE /\ NoLog.complete = FALSE
      /\ NoLog.fault = "no"
  BY DEF NoLog
<1>3. n = 0 /\ b = TRUE /\ c = FALSE
  BY <1>2
<1> HIDE DEF n, b, c
<1> QED BY <1>1, <1>2, <1>3 DEF Begun

LEMMA CommandFacts ==
  ASSUME IInv, NEW s \in Sessions, sess[s].at = "command"
  PROVE  log[s] = NoLog /\ sess[s].fd = NONE /\ (sess[s].data # NONE => sess[s].fresh)
BY SessFacts DEF Says, Knows, Busy

LEMMA Answer ==
  ASSUME IInv, NEW s \in Sessions, sess[s].at = "command",
         NEW code \in Nat, code >= 200, code # 226, Reply(s, << code >>)
  PROVE  log' = [log EXCEPT ![s] = Final]
<1>1. Replied(NoLog, << code >>) = Final
  BY FinalReply
<1> QED BY <1>1, CommandFacts, Zenon DEF Reply

(* A step that opens and closes nothing. *)
LEMMA NothingOpened ==
  ASSUME IInv, NEW s \in Sessions, NEW r, NEW l,
         sess' = [sess EXCEPT ![s] = r], log' = [log EXCEPT ![s] = l],
         listening' = listening, owner' = owner,
         r.ctrl = sess[s].ctrl, r.data = sess[s].data, r.fd = sess[s].fd, Local(s, r, l)
  PROVE  IInv'
BY SessFacts, OneMoves

(* Back at the prompt, after a final reply or with a fault. *)
LEMMA AtPrompt ==
  ASSUME NEW s, NEW r \in SessRec, r.at = "prompt", r.left <= MaxLines[s], r.fd = NONE,
         r.data # NONE => r.fresh
  PROVE  /\ Local(s, r, Final)
         /\ \A l \in LogType : l.fault # "no" /\ ~l.complete => Local(s, r, l)
<1>1. Knows(r)
  BY DEF Knows, Busy, Sending
<1>2. Says(r, Final)
  BY DEF Says, Final, Busy, Listing
<1>3. ASSUME NEW l \in LogType, l.fault # "no", ~l.complete
      PROVE  Says(r, l)
  BY <1>3 DEF Says, Busy, Listing
<1> QED BY <1>1, <1>2, <1>3, LogTypes DEF Local

LEMMA QuitStep ==
  ASSUME IInv, NEW s \in Sessions, Quit(s)
  PROVE  IInv'
<1>1. PICK r : sess' = [sess EXCEPT ![s] = r] /\ r = [sess[s] EXCEPT !.at = "closing"]
  BY DEF Quit, Become, At
<1>2. sess[s].at = "command" /\ owner' = owner /\ listening' = listening
  BY DEF Quit, Command, Is
<1>3. log' = [log EXCEPT ![s] = Final]
  <2>1. Reply(s, << 221 >>)
    BY DEF Quit
  <2> QED BY <1>2, <2>1, Answer
<1>4. /\ r \in SessRec /\ r.at = "closing"
      /\ r.ctrl = sess[s].ctrl /\ r.data = sess[s].data /\ r.fd = sess[s].fd
      /\ r.left = sess[s].left /\ r.fresh = sess[s].fresh
  BY <1>1, SessFacts DEF SessRec, Places
<1>5. Knows(r)
  BY <1>2, <1>4, CommandFacts DEF Knows, Busy, Sending
<1>6. Says(r, Final)
  BY <1>4 DEF Says, Final, Busy, Listing
<1>7. Local(s, r, Final)
  BY <1>4, <1>5, <1>6, LogTypes, SessFacts DEF Local
<1> QED BY <1>1, <1>2, <1>3, <1>4, <1>7, NothingOpened

(* The codes of the commands that change no session are final ones. *)
LEMMA AnswerCodes ==
  ASSUME NEW cmd, NEW args, NEW mode, NEW code \in Answers(cmd, args, mode)
  PROVE  code \in Nat /\ code >= 200 /\ code # 226
<1>1. Answers(cmd, args, mode) \subseteq {550, 213, 250, 452, 215, 230, 257, 500}
  BY DEF Answers, Denied, SizeCodes, CwdCodes, PwdCodes
<1> QED BY <1>1

(* What Prompt makes of a session. *)
LEMMA Prompted ==
  ASSUME IInv, NEW s \in Sessions, NEW q, q = Prompt(s)
  PROVE  /\ q \in SessRec /\ q.at = "prompt" /\ q.line = StaleLine(sess[s].line)
         /\ Split(q.line).cmd = Split(sess[s].line).cmd
         /\ q.ctrl = sess[s].ctrl /\ q.data = sess[s].data /\ q.fd = sess[s].fd
         /\ q.left = sess[s].left /\ q.fresh = sess[s].fresh /\ q.sent = sess[s].sent
<1>1. /\ StaleLine(sess[s].line) \in LineSet
      /\ Split(StaleLine(sess[s].line)).cmd = Split(sess[s].line).cmd
  BY Remains, SessFacts DEF SessRec
<1>2. q = [[sess[s] EXCEPT !.at = "prompt"] EXCEPT !.line = StaleLine(@)]
  BY DEF Prompt, At
<1>3. PICK p : p = [sess[s] EXCEPT !.at = "prompt"]
  OBVIOUS
<1>4. p \in SessRec /\ p.at = "prompt" /\ p.line = sess[s].line
      /\ p.ctrl = sess[s].ctrl /\ p.data = sess[s].data /\ p.fd = sess[s].fd
      /\ p.left = sess[s].left /\ p.fresh = sess[s].fresh /\ p.sent = sess[s].sent
  BY <1>3, SessFacts DEF SessRec, Places, Resting
<1>5. q = [p EXCEPT !.line = StaleLine(sess[s].line)]
  BY <1>2, <1>3, <1>4
<1> QED BY <1>1, <1>4, <1>5 DEF SessRec

LEMMA SimpleStep ==
  ASSUME IInv, NEW s \in Sessions, Simple(s)
  PROVE  IInv'
<1>1. PICK r : sess' = [sess EXCEPT ![s] = r] /\ r = Prompt(s)
  BY DEF Simple, Become
<1>2. sess[s].at = "command" /\ owner' = owner /\ listening' = listening
  BY DEF Simple, Is
<1>3. log' = [log EXCEPT ![s] = Final]
  <2>1. PICK code \in Answers(Split(sess[s].line).cmd, Args(s), sess[s].mode) :
          Reply(s, << code >>)
    BY DEF Simple
  <2>2. code \in Nat /\ code >= 200 /\ code # 226
    BY AnswerCodes
  <2> QED BY <1>2, <2>1, <2>2, Answer
<1>4. Local(s, r, Final)
  BY <1>1, <1>2, Prompted, CommandFacts, SessFacts, AtPrompt
<1>5. r.ctrl = sess[s].ctrl /\ r.data = sess[s].data /\ r.fd = sess[s].fd
  BY <1>1, Prompted
<1> QED BY <1>1, <1>2, <1>3, <1>4, <1>5, NothingOpened

LEMMA TypeStep ==
  ASSUME IInv, NEW s \in Sessions, Type(s)
  PROVE  IInv'
<1>1. PICK q : q = Prompt(s)
  OBVIOUS
<1> DEFINE arg == IF Args(s) = << >> THEN "" ELSE Head(Args(s))
           mode == IF arg = "A" THEN "other" ELSE "binary"
<1>2. PICK r : sess' = [sess EXCEPT ![s] = r] /\ r = [q EXCEPT !.mode = mode]
  BY <1>1 DEF Type, Become
<1>3. sess[s].at = "command" /\ owner' = owner /\ listening' = listening
  BY DEF Type, Command, Is
<1>4. log' = [log EXCEPT ![s] = Final]
  <2>1. PICK code \in {200, 504} : Reply(s, << code >>)
    BY DEF Type
  <2>2. code \in Nat /\ code >= 200 /\ code # 226
    OBVIOUS
  <2> QED BY <1>3, <2>1, <2>2, Answer
<1>5. /\ q \in SessRec /\ q.at = "prompt" /\ q.ctrl = sess[s].ctrl
      /\ q.data = sess[s].data /\ q.fd = sess[s].fd /\ q.left = sess[s].left
      /\ q.fresh = sess[s].fresh
  BY <1>1, Prompted
<1>6. /\ r \in SessRec /\ r.at = "prompt" /\ r.ctrl = sess[s].ctrl
      /\ r.data = sess[s].data /\ r.fd = sess[s].fd /\ r.left = sess[s].left
      /\ r.fresh = sess[s].fresh
  BY <1>2, <1>5 DEF SessRec
<1>7. Local(s, r, Final)
  BY <1>3, <1>6, CommandFacts, SessFacts, AtPrompt
<1> QED BY <1>2, <1>3, <1>4, <1>6, <1>7, NothingOpened

(* A command that closes the data connection and goes back to the prompt. *)
LEMMA DataClosed ==
  ASSUME IInv, NEW s \in Sessions, NEW r, NEW l,
         sess' = [sess EXCEPT ![s] = r], log' = [log EXCEPT ![s] = l],
         listening' = listening, owner' = Close(owner, sess[s].data),
         r.ctrl = sess[s].ctrl, r.data = NONE, r.fd = sess[s].fd, Local(s, r, l)
  PROVE  IInv'
BY SessFacts, ClosedOwn, OneMoves

LEMMA PortStep ==
  ASSUME IInv, NEW s \in Sessions, Port(s)
  PROVE  IInv'
<1>1. PICK q : q = Prompt(s)
  OBVIOUS
<1>2. Addressed(s) \in Addresses \union {NONE}
  BY SessFacts, FtpAssumption DEF Addressed, PortTakes, SessRec
<1>3. PICK r : /\ sess' = [sess EXCEPT ![s] = r]
               /\ r = [q EXCEPT !.data = NONE, !.fresh = FALSE, !.dest = Addressed(s)]
  BY <1>1 DEF Port, Become
<1>4. /\ sess[s].at = "command" /\ owner' = Close(owner, sess[s].data)
      /\ listening' = listening
  BY DEF Port, Command, Is
<1>5. log' = [log EXCEPT ![s] = Final]
  <2>1. PICK code \in {200, 425, 501} : Reply(s, << code >>)
    BY DEF Port, PortReply
  <2>2. code \in Nat /\ code >= 200 /\ code # 226
    OBVIOUS
  <2> QED BY <1>4, <2>1, <2>2, Answer
<1>6. /\ q \in SessRec /\ q.at = "prompt" /\ q.ctrl = sess[s].ctrl
      /\ q.fd = sess[s].fd /\ q.left = sess[s].left
  BY <1>1, Prompted
<1>7. /\ r \in SessRec /\ r.at = "prompt" /\ r.ctrl = sess[s].ctrl
      /\ r.data = NONE /\ r.fd = sess[s].fd /\ r.left = sess[s].left
  BY <1>2, <1>3, <1>6 DEF SessRec, MaybeFd
<1>8. Local(s, r, Final)
  BY <1>4, <1>7, CommandFacts, SessFacts, AtPrompt
<1> QED BY <1>3, <1>4, <1>5, <1>7, <1>8, DataClosed

LEMMA PasvFailsStep ==
  ASSUME IInv, NEW s \in Sessions, PasvFails(s)
  PROVE  IInv'
<1>1. PICK q : q = Prompt(s)
  OBVIOUS
<1>2. PICK r : /\ sess' = [sess EXCEPT ![s] = r]
               /\ r = [q EXCEPT !.data = NONE, !.fresh = FALSE]
  BY <1>1 DEF PasvFails, Become
<1>3. /\ sess[s].at = "command" /\ owner' = Close(owner, sess[s].data)
      /\ listening' = listening
  BY DEF PasvFails, Command, Is
<1>4. log' = [log EXCEPT ![s] = Final]
  <2>1. Reply(s, << 425 >>)
    BY DEF PasvFails
  <2> QED BY <1>3, <2>1, Answer
<1>5. /\ q \in SessRec /\ q.at = "prompt" /\ q.ctrl = sess[s].ctrl
      /\ q.fd = sess[s].fd /\ q.left = sess[s].left
  BY <1>1, Prompted
<1>6. /\ r \in SessRec /\ r.at = "prompt" /\ r.ctrl = sess[s].ctrl
      /\ r.data = NONE /\ r.fd = sess[s].fd /\ r.left = sess[s].left
  BY <1>2, <1>5 DEF SessRec, MaybeFd
<1>7. Local(s, r, Final)
  BY <1>3, <1>6, CommandFacts, SessFacts, AtPrompt
<1> QED BY <1>2, <1>3, <1>4, <1>6, <1>7, DataClosed

LEMMA PasvListensStep ==
  ASSUME IInv, NEW s \in Sessions, PasvListens(s)
  PROVE  IInv'
<1> DEFINE own == Close(owner, sess[s].data)
<1>1. /\ sess[s].at = "command" /\ Free(own) # {} /\ owner' = Open(own, s)
      /\ listening' = listening
  BY DEF PasvListens, Command, Is
<1>2. PICK r : /\ sess' = [sess EXCEPT ![s] = r]
               /\ r = [sess[s] EXCEPT !.at = "accept", !.data = NONE, !.fresh = FALSE,
                                      !.fd = NewFd(own)]
  BY DEF PasvListens, Become, At
<1>3. log' = [log EXCEPT ![s] = Final]
  <2>1. Reply(s, << 227 >>)
    BY DEF PasvListens
  <2> QED BY <1>1, <2>1, Answer
<1>4. /\ own \in OwnType /\ OthersKeep(owner, own, s)
      /\ Owns(own, s, sess[s].ctrl, NONE, NONE)
  BY <1>1, SessFacts, CommandFacts, ClosedOwn
<1> HIDE DEF own
<1>5. /\ NewFd(own) \in Descriptors /\ owner' \in OwnType /\ OthersKeep(own, owner', s)
      /\ Owns(owner', s, sess[s].ctrl, NONE, NewFd(own))
  <2>1. NONE \in MaybeFd
    BY DEF MaybeFd
  <2> QED BY <1>1, <1>4, <2>1, SessFacts, OpenedOwn
<1>6. OthersKeep(owner, owner', s)
  BY <1>4, <1>5, KeepTwice
<1>7. /\ r \in SessRec /\ r.at = "accept" /\ r.ctrl = sess[s].ctrl
      /\ r.data = NONE /\ r.fd = NewFd(own) /\ r.left = sess[s].left
  BY <1>2, <1>5, SessFacts DEF SessRec, MaybeFd, Places, Busy
<1>8. Knows(r) /\ Says(r, Final)
  BY <1>5, <1>7, FtpAssumption DEF Knows, Says, Final, Busy, Listing, Sending
<1>9. Local(s, r, Final)
  BY <1>7, <1>8, LogTypes, SessFacts DEF Local
<1> QED BY <1>1, <1>2, <1>3, <1>5, <1>6, <1>7, <1>9, OneMoves

(* What a session waiting for its data connection knows. *)
LEMMA AcceptFacts ==
  ASSUME IInv, NEW s \in Sessions, sess[s].at = "accept"
  PROVE  /\ sess[s].fd # NONE /\ sess[s].data = NONE
         /\ log[s].finals = 1 /\ ~log[s].begun /\ ~log[s].complete
BY SessFacts DEF Knows, Says, Busy

LEMMA PasvAcceptsStep ==
  ASSUME IInv, NEW s \in Sessions, PasvAccepts(s)
  PROVE  IInv'
<1> DEFINE own == Open(owner, s)
<1>1. /\ sess[s].at = "accept" /\ Free(owner) # {} /\ owner' = Close(own, sess[s].fd)
      /\ listening' = listening /\ log' = [log EXCEPT ![s] = log[s]]
  BY SessFacts DEF PasvAccepts, Is
<1>2. PICK q : q = Prompt(s)
  OBVIOUS
<1>3. PICK r : /\ sess' = [sess EXCEPT ![s] = r]
               /\ r = [q EXCEPT !.data = NewFd(owner), !.fd = NONE, !.fresh = TRUE]
  BY <1>2 DEF PasvAccepts, Become
<1>4. /\ NewFd(owner) \in Descriptors /\ own \in OwnType /\ OthersKeep(owner, own, s)
      /\ Owns(own, s, sess[s].ctrl, NewFd(owner), sess[s].fd)
  BY <1>1, SessFacts, AcceptFacts, OpenedOwn
<1> HIDE DEF own
<1>5. /\ owner' \in OwnType /\ OthersKeep(own, owner', s)
      /\ Owns(owner', s, sess[s].ctrl, NewFd(owner), NONE)
  <2>1. NewFd(owner) \in MaybeFd
    BY <1>4 DEF MaybeFd
  <2> QED BY <1>1, <1>4, <2>1, SessFacts, ClosedOwn
<1>6. OthersKeep(owner, owner', s)
  BY <1>4, <1>5, KeepTwice
<1>7. /\ q \in SessRec /\ q.at = "prompt" /\ q.ctrl = sess[s].ctrl /\ q.left = sess[s].left
  BY <1>2, Prompted
<1>8. /\ r \in SessRec /\ r.at = "prompt" /\ r.ctrl = sess[s].ctrl
      /\ r.data = NewFd(owner) /\ r.fd = NONE /\ r.left = sess[s].left /\ r.fresh = TRUE
  BY <1>3, <1>4, <1>7 DEF SessRec, MaybeFd
<1>9. Knows(r) /\ Says(r, log[s])
  BY <1>1, <1>8, AcceptFacts DEF Knows, Says, Busy, Listing, Sending
<1>10. Local(s, r, log[s])
  BY <1>8, <1>9, SessFacts DEF Local
<1> QED BY <1>1, <1>3, <1>5, <1>6, <1>8, <1>10, OneMoves

(* A reply after which the history says that there was a fault. *)
LEMMA Faulted ==
  ASSUME NEW l \in LogType, NEW fault \in Faults,
         NEW r, r = [l EXCEPT !.fault = fault]
  PROVE  /\ r \in LogType /\ r.fault = fault
         /\ r.finals = l.finals /\ r.begun = l.begun /\ r.complete = l.complete
BY DEF LogType

(* A step that closes fd and goes back to the prompt with a fault. *)
LEMMA FdClosed ==
  ASSUME IInv, NEW s \in Sessions, NEW q, q = Prompt(s), NEW r, NEW l \in LogType,
         sess' = [sess EXCEPT ![s] = r], r = [q EXCEPT !.fd = NONE],
         log' = [log EXCEPT ![s] = l], l.fault # "no", ~l.complete,
         listening' = listening, owner' = Close(owner, sess[s].fd)
  PROVE  IInv'
<1>1. /\ q \in SessRec /\ q.at = "prompt" /\ q.ctrl = sess[s].ctrl
      /\ q.data = sess[s].data /\ q.left = sess[s].left /\ q.fresh = sess[s].fresh
  BY Prompted
<1>2. /\ r \in SessRec /\ r.at = "prompt" /\ r.ctrl = sess[s].ctrl
      /\ r.data = sess[s].data /\ r.fd = NONE /\ r.left = sess[s].left
      /\ r.fresh = sess[s].fresh
  BY <1>1 DEF SessRec, MaybeFd
<1>3. Local(s, r, l)
  BY <1>2, SessFacts, AtPrompt DEF Knows
<1>4. /\ owner' \in OwnType /\ OthersKeep(owner, owner', s)
      /\ Owns(owner', s, sess[s].ctrl, sess[s].data, NONE)
  BY SessFacts, ClosedOwn
<1> QED BY <1>2, <1>3, <1>4, OneMoves

LEMMA PasvTimeoutStep ==
  ASSUME IInv, NEW s \in Sessions, PasvTimeout(s)
  PROVE  IInv'
<1>1. /\ sess[s].at = "accept" /\ owner' = Close(owner, sess[s].fd)
      /\ listening' = listening
  BY DEF PasvTimeout, Is
<1>2. PICK q : q = Prompt(s)
  OBVIOUS
<1>3. PICK r : sess' = [sess EXCEPT ![s] = r] /\ r = [q EXCEPT !.fd = NONE]
  BY <1>2 DEF PasvTimeout, Become
<1>4. PICK k : k = Replied(log[s], << 425 >>)
  OBVIOUS
<1>5. PICK l : log' = [log EXCEPT ![s] = l] /\ l = [k EXCEPT !.fault = "accept"]
  BY <1>4 DEF PasvTimeout, ReplyFault
<1>6. k \in LogType /\ ~k.complete
  <2>1. k = [finals |-> log[s].finals + (IF 425 >= 200 THEN 1 ELSE 0),
             begun |-> log[s].begun \/ 425 = 150,
             complete |-> log[s].complete \/ 425 = 226, fault |-> log[s].fault]
    BY <1>4, SessFacts, SingleReply
  <2>2. log[s].finals = 1 /\ ~log[s].complete /\ log[s] \in LogType
    BY <1>1, AcceptFacts, SessFacts
  <2> QED BY <2>1, <2>2 DEF LogType
<1>7. l \in LogType /\ l.fault = "accept" /\ ~l.complete
  <2>1. "accept" \in Faults
    BY DEF Faults
  <2> QED BY <1>5, <1>6, <2>1, Faulted
<1>8. l.fault # "no"
  BY <1>7
<1> QED BY <1>1, <1>2, <1>3, <1>5, <1>7, <1>8, FdClosed

-----------------------------------------------------------------------------
(* command_retrieve *)
LEMMA RetrRefusedStep ==
  ASSUME IInv, NEW s \in Sessions, RetrRefused(s)
  PROVE  IInv'
<1>1. sess[s].at = "command" /\ owner' = owner /\ listening' = listening
  BY DEF RetrRefused, Command, Is
<1>2. PICK r : sess' = [sess EXCEPT ![s] = r] /\ r = Prompt(s)
  BY DEF RetrRefused, Become
<1>3. Replied(log[s], << >>) = log[s]
  BY SessFacts, NoReply
<1>4. PICK l : log' = [log EXCEPT ![s] = l] /\ l = [log[s] EXCEPT !.fault = "ascii"]
  BY <1>3 DEF RetrRefused, ReplyFault
<1>5. l \in LogType /\ l.fault # "no" /\ ~l.complete
  <2>1. "ascii" \in Faults /\ "ascii" # "no"
    BY DEF Faults
  <2>2. log[s] \in LogType /\ ~log[s].complete
    BY <1>1, CommandFacts, SessFacts DEF NoLog
  <2> QED BY <1>4, <2>1, <2>2, Faulted
<1>6. /\ r \in SessRec /\ r.at = "prompt" /\ r.ctrl = sess[s].ctrl
      /\ r.data = sess[s].data /\ r.fd = sess[s].fd /\ r.left = sess[s].left
      /\ r.fresh = sess[s].fresh
  BY <1>2, Prompted
<1>7. Local(s, r, l)
  BY <1>1, <1>5, <1>6, CommandFacts, SessFacts, AtPrompt
<1> QED BY <1>1, <1>2, <1>4, <1>6, <1>7, NothingOpened

LEMMA RetrNoFileStep ==
  ASSUME IInv, NEW s \in Sessions, RetrNoFile(s)
  PROVE  IInv'
<1>1. sess[s].at = "command" /\ owner' = owner /\ listening' = listening
  BY DEF RetrNoFile, Command, Is
<1>2. PICK r : sess' = [sess EXCEPT ![s] = r] /\ r = Prompt(s)
  BY DEF RetrNoFile, Become
<1>3. log' = [log EXCEPT ![s] = Final]
  <2>1. Reply(s, << 550 >>)
    BY DEF RetrNoFile
  <2> QED BY <1>1, <2>1, Answer
<1>4. /\ r \in SessRec /\ r.at = "prompt" /\ r.ctrl = sess[s].ctrl
      /\ r.data = sess[s].data /\ r.fd = sess[s].fd /\ r.left = sess[s].left
      /\ r.fresh = sess[s].fresh
  BY <1>2, Prompted
<1>5. Local(s, r, Final)
  BY <1>1, <1>4, CommandFacts, SessFacts, AtPrompt
<1> QED BY <1>1, <1>2, <1>3, <1>4, <1>5, NothingOpened

LEMMA RetrOpensStep ==
  ASSUME IInv, NEW s \in Sessions, RetrOpens(s)
  PROVE  IInv'
<1>1. /\ sess[s].at = "command" /\ Free(owner) # {} /\ owner' = Open(owner, s)
      /\ listening' = listening
  BY DEF RetrOpens, Command, Is
<1>2. PICK r : /\ sess' = [sess EXCEPT ![s] = r]
               /\ r = [sess[s] EXCEPT !.at = "retr connect", !.fd = NewFd(owner), !.sent = 0]
  BY DEF RetrOpens, Become, At
<1>3. log' = [log EXCEPT ![s] = Begun]
  BY <1>1, CommandFacts, Announcement, Zenon DEF RetrOpens, Reply
<1>4. /\ NewFd(owner) \in Descriptors /\ owner' \in OwnType /\ OthersKeep(owner, owner', s)
      /\ Owns(owner', s, sess[s].ctrl, sess[s].data, NewFd(owner))
  BY <1>1, SessFacts, CommandFacts, OpenedOwn
<1>5. /\ r \in SessRec /\ r.at = "retr connect" /\ r.ctrl = sess[s].ctrl
      /\ r.data = sess[s].data /\ r.fd = NewFd(owner) /\ r.left = sess[s].left
      /\ r.fresh = sess[s].fresh
  <2>1. 0 \in 0 .. Blocks
    BY FtpAssumption
  <2> QED BY <1>2, <1>4, <2>1, SessFacts DEF SessRec, MaybeFd, Places, Busy
<1>6. Knows(r)
  BY <1>1, <1>4, <1>5, CommandFacts, FtpAssumption DEF Knows, Busy, Sending
<1>7. Says(r, Begun)
  BY <1>5 DEF Says, Begun, Busy, Listing
<1>8. Local(s, r, Begun)
  BY <1>5, <1>6, <1>7, LogTypes, SessFacts DEF Local
<1> QED BY <1>1, <1>2, <1>3, <1>4, <1>5, <1>8, OneMoves

(* data_socket, for either command. *)
LEMMA DataSocket ==
  ASSUME IInv, NEW s \in Sessions, NEW from, NEW next, sess[s].at = from,
         \/ from = "retr connect" /\ next \in {"retr send", "retr wait"}
         \/ from = "list connect" /\ next \in {"list open", "list wait"},
         HasData(s, next) \/ OpensSocket(s, next), UNCHANGED <<listening, log>>
  PROVE  IInv'
<1>1. /\ log' = [log EXCEPT ![s] = log[s]] /\ listening' = listening
      /\ log[s].finals = 0 /\ ~log[s].complete
      /\ from = "list connect" => Split(sess[s].line).cmd # "RETR"
      /\ sess[s].fd # NONE <=> from = "retr connect"
  BY SessFacts DEF Says, Knows, Busy, Listing
<1>2. /\ next \in {"retr send", "retr wait", "list open", "list wait"} /\ next \in Places
      /\ from = "retr connect" <=> next \in {"retr send", "retr wait"}
  BY DEF Places, Busy, Listing
<1>3. ASSUME NEW r \in SessRec, r.at = next, r.line = sess[s].line, r.fd = sess[s].fd,
             r.left = sess[s].left, r.data # NONE, r.fresh
      PROVE  Local(s, r, log[s])
  <2>1. Knows(r)
    BY <1>1, <1>2, <1>3 DEF Knows, Busy, Sending
  <2>2. Says(r, log[s])
    BY <1>1, <1>2, <1>3 DEF Says, Busy, Listing
  <2> QED BY <1>3, <2>1, <2>2, SessFacts DEF Local
<1>4. CASE HasData(s, next)
  <2>1. sess[s].data # NONE /\ owner' = owner /\ sess[s].fresh
    BY <1>4, SessFacts DEF HasData, Knows
  <2>2. PICK r : sess' = [sess EXCEPT ![s] = r] /\ r = [sess[s] EXCEPT !.at = next]
    BY <1>4 DEF HasData, Become, At
  <2>3. /\ r \in SessRec /\ r.at = next /\ r.line = sess[s].line /\ r.fd = sess[s].fd
        /\ r.ctrl = sess[s].ctrl /\ r.data = sess[s].data
        /\ r.left = sess[s].left /\ r.fresh = sess[s].fresh
    BY <1>2, <2>2, SessFacts DEF SessRec
  <2>4. Local(s, r, log[s])
    BY <1>3, <2>1, <2>3
  <2> QED BY <1>1, <2>1, <2>2, <2>3, <2>4, NothingOpened
<1>5. CASE OpensSocket(s, next)
  <2>1. sess[s].data = NONE /\ Free(owner) # {} /\ owner' = Open(owner, s)
    BY <1>5 DEF OpensSocket
  <2>2. PICK r : /\ sess' = [sess EXCEPT ![s] = r]
                 /\ r = [sess[s] EXCEPT !.at = next, !.data = NewFd(owner), !.fresh = TRUE]
    BY <1>5 DEF OpensSocket, Become, At
  <2>3. /\ NewFd(owner) \in Descriptors /\ owner' \in OwnType /\ OthersKeep(owner, owner', s)
        /\ Owns(owner', s, sess[s].ctrl, NewFd(owner), sess[s].fd)
    BY <2>1, SessFacts, OpenedOwn
  <2>4. /\ r \in SessRec /\ r.at = next /\ r.line = sess[s].line /\ r.fd = sess[s].fd
        /\ r.ctrl = sess[s].ctrl /\ r.data = NewFd(owner)
        /\ r.left = sess[s].left /\ r.fresh = TRUE
    BY <1>2, <2>2, <2>3, SessFacts DEF SessRec, MaybeFd
  <2>5. Local(s, r, log[s])
    BY <1>3, <2>3, <2>4, FtpAssumption
  <2> QED BY <1>1, <2>2, <2>3, <2>4, <2>5, OneMoves
<1> QED BY <1>4, <1>5

LEMMA RetrConnectStep ==
  ASSUME IInv, NEW s \in Sessions, RetrConnect(s)
  PROVE  IInv'
<1>1. /\ sess[s].at = "retr connect" /\ UNCHANGED <<listening, log>>
      /\ HasData(s, "retr send") \/ OpensSocket(s, "retr wait")
  BY DEF RetrConnect, Is
<1> QED BY <1>1, DataSocket

(* The connection is there, for either command. *)
LEMMA Connected ==
  ASSUME IInv, NEW s \in Sessions, NEW next,
         \/ sess[s].at = "retr wait" /\ next = "retr send"
         \/ sess[s].at = "list wait" /\ next = "list open",
         Become(s, At(s, next)), UNCHANGED <<owner, listening, log>>
  PROVE  IInv'
<1>1. /\ log' = [log EXCEPT ![s] = log[s]]
      /\ log[s].finals = 0 /\ ~log[s].complete
      /\ next = "list open" => Split(sess[s].line).cmd # "RETR"
      /\ sess[s].fd # NONE <=> next = "retr send"
      /\ sess[s].data # NONE /\ sess[s].fresh
  BY SessFacts DEF Says, Knows, Busy, Listing
<1>2. next \in {"retr send", "list open"} /\ next \in Places
  BY DEF Places, Busy, Listing
<1>3. PICK r : sess' = [sess EXCEPT ![s] = r] /\ r = [sess[s] EXCEPT !.at = next]
  BY DEF Become, At
<1>4. /\ r \in SessRec /\ r.at = next /\ r.line = sess[s].line /\ r.fd = sess[s].fd
      /\ r.ctrl = sess[s].ctrl /\ r.data = sess[s].data
      /\ r.left = sess[s].left /\ r.fresh = sess[s].fresh
  BY <1>2, <1>3, SessFacts DEF SessRec
<1>5. Knows(r)
  BY <1>1, <1>2, <1>4 DEF Knows, Busy, Sending
<1>6. Says(r, log[s])
  BY <1>1, <1>2, <1>4 DEF Says, Busy, Listing
<1>7. Local(s, r, log[s])
  BY <1>4, <1>5, <1>6, SessFacts DEF Local
<1> QED BY <1>1, <1>3, <1>4, <1>7, NothingOpened

LEMMA RetrConnectedStep ==
  ASSUME IInv, NEW s \in Sessions, RetrConnected(s)
  PROVE  IInv'
BY Connected DEF RetrConnected, Is

(* The replies when there is no data connection, of RETR and of LIST. *)
LEMMA NoDataReply ==
  ASSUME NEW k \in LogType, k.finals = 0, ~k.complete, NEW codes \in NoDataReplies
  PROVE  /\ Replied(k, codes) \in LogType /\ ~Replied(k, codes).complete
         /\ Replied(k, codes \o << 451 >>) \in LogType
         /\ ~Replied(k, codes \o << 451 >>).complete
<1>1. \A code \in {425, 451} :
        Replied(k, << code >>) \in LogType /\ ~Replied(k, << code >>).complete
  <2>1. ASSUME NEW code \in {425, 451}
        PROVE  Replied(k, << code >>) =
                 [finals |-> k.finals + (IF code >= 200 THEN 1 ELSE 0),
                  begun |-> k.begun \/ code = 150,
                  complete |-> k.complete \/ code = 226, fault |-> k.fault]
    BY SingleReply
  <2>2. ASSUME NEW code \in {425, 451}, NEW l,
               l = [finals |-> k.finals + (IF code >= 200 THEN 1 ELSE 0),
                    begun |-> k.begun \/ code = 150,
                    complete |-> k.complete \/ code = 226, fault |-> k.fault]
        PROVE  l \in LogType /\ ~l.complete
    BY <2>2 DEF LogType
  <2> QED BY <2>1, <2>2
<1>2. Replied(k, << >>) \in LogType /\ ~Replied(k, << >>).complete
  BY NoReply
<1>3. /\ Replied(k, << 425 >> \o << 451 >>) \in LogType
      /\ ~Replied(k, << 425 >> \o << 451 >>).complete
  <2>1. PICK l : l = Replied(k, << 425 >> \o << 451 >>)
    OBVIOUS
  <2>2. l = [finals |-> k.finals + 2, begun |-> k.begun, complete |-> k.complete,
             fault |-> k.fault]
    BY <2>1, TwoReplies, ZenonT(40)
  <2>3. l \in LogType /\ ~l.complete
    BY <2>2 DEF LogType
  <2> QED BY <2>1, <2>3, Zenon
<1>4. CASE codes = << 425 >>
  <2>1. Replied(k, << 425 >>) \in LogType /\ ~Replied(k, << 425 >>).complete
    BY <1>1
  <2> QED BY <1>3, <1>4, <2>1, Zenon
<1>5. CASE codes = << >>
  <2>1. Replied(k, << 451 >>) \in LogType /\ ~Replied(k, << 451 >>).complete
    BY <1>1
  <2>2. << >> \o << 451 >> = << 451 >>
    <3>1. << 451 >> \in Seq(Nat)
      OBVIOUS
    <3> QED BY <3>1, ConcatEmptySeq, Zenon
  <2> QED BY <1>2, <1>5, <2>1, <2>2, ZenonT(40)
<1> QED BY <1>4, <1>5 DEF NoDataReplies

(* fd, then the data connection are closed. *)
LEMMA BothClosed ==
  ASSUME IInv, NEW s \in Sessions, owner' = Close(Close(owner, sess[s].fd), sess[s].data)
  PROVE  /\ owner' \in OwnType /\ OthersKeep(owner, owner', s)
         /\ Owns(owner', s, sess[s].ctrl, NONE, NONE)
<1> DEFINE own == Close(owner, sess[s].fd)
<1>1. /\ own \in OwnType /\ OthersKeep(owner, own, s)
      /\ Owns(own, s, sess[s].ctrl, sess[s].data, NONE)
  BY SessFacts, ClosedOwn
<1> HIDE DEF own
<1>2. owner' = Close(own, sess[s].data)
  BY DEF own
<1>3. /\ owner' \in OwnType /\ OthersKeep(own, owner', s)
      /\ Owns(owner', s, sess[s].ctrl, NONE, NONE)
  <2>1. NONE \in MaybeFd /\ sess[s].ctrl \in MaybeFd /\ sess[s].data \in MaybeFd
    BY SessFacts DEF MaybeFd
  <2>2. PICK d : d = sess[s].data
    OBVIOUS
  <2>3. /\ Close(own, d) \in OwnType /\ OthersKeep(own, Close(own, d), s)
        /\ Owns(Close(own, d), s, sess[s].ctrl, NONE, NONE)
    BY <1>1, <2>1, <2>2, ClosedOwn
  <2> QED BY <1>2, <2>2, <2>3
<1> QED BY <1>1, <1>3, KeepTwice

LEMMA RetrNoDataStep ==
  ASSUME IInv, NEW s \in Sessions, RetrNoData(s)
  PROVE  IInv'
<1>1. /\ sess[s].at \in {"retr connect", "retr wait"}
      /\ owner' = Close(Close(owner, sess[s].fd), sess[s].data)
      /\ listening' = listening
  BY DEF RetrNoData, NoData, Is
<1>2. PICK q : q = Prompt(s)
  OBVIOUS
<1>3. PICK r : sess' = [sess EXCEPT ![s] = r] /\ r = [q EXCEPT !.fd = NONE, !.data = NONE]
  BY <1>2 DEF RetrNoData, Become
<1>4. PICK codes \in NoDataReplies : ReplyFault(s, codes \o << 451 >>, "data")
  BY DEF RetrNoData
<1>5. PICK k : k = Replied(log[s], codes \o << 451 >>)
  OBVIOUS
<1>6. PICK l : log' = [log EXCEPT ![s] = l] /\ l = [k EXCEPT !.fault = "data"]
  BY <1>4, <1>5 DEF ReplyFault
<1>7. k \in LogType /\ ~k.complete
  <2>1. log[s] \in LogType /\ log[s].finals = 0 /\ ~log[s].complete
    BY <1>1, SessFacts DEF Says, Busy, Listing
  <2>2. PICK m : m = log[s]
    OBVIOUS
  <2>3. /\ Replied(m, codes \o << 451 >>) \in LogType
        /\ ~Replied(m, codes \o << 451 >>).complete
    BY <2>1, <2>2, NoDataReply
  <2> QED BY <1>5, <2>2, <2>3, Zenon
<1>8. l \in LogType /\ l.fault # "no" /\ ~l.complete
  <2>1. "data" \in Faults /\ "data" # "no"
    BY DEF Faults
  <2> QED BY <1>6, <1>7, <2>1, Faulted
<1>9. q \in SessRec /\ q.at = "prompt" /\ q.ctrl = sess[s].ctrl /\ q.left = sess[s].left
  BY <1>2, Prompted
<1>10. /\ r \in SessRec /\ r.at = "prompt" /\ r.ctrl = sess[s].ctrl
       /\ r.data = NONE /\ r.fd = NONE /\ r.left = sess[s].left
  BY <1>3, <1>9 DEF SessRec, MaybeFd
<1>11. Local(s, r, l)
  BY <1>8, <1>10, SessFacts, AtPrompt
<1>12. /\ owner' \in OwnType /\ OthersKeep(owner, owner', s)
       /\ Owns(owner', s, sess[s].ctrl, NONE, NONE)
  BY <1>1, BothClosed
<1> QED BY <1>1, <1>3, <1>6, <1>10, <1>11, <1>12, OneMoves

(* A session that sends: what it knows, and that it may go on so. *)
LEMMA SendFacts ==
  ASSUME IInv, NEW s \in Sessions, sess[s].at \in Sending
  PROVE  /\ log[s].finals = 0 /\ ~log[s].complete /\ sess[s].data # NONE /\ sess[s].fresh
         /\ sess[s].at # "retr send" => Split(sess[s].line).cmd # "RETR"
         /\ sess[s].fd # NONE <=> sess[s].at # "list open"
BY SessFacts DEF Knows, Says, Busy, Listing, Sending

LEMMA GoesOn ==
  ASSUME IInv, NEW s \in Sessions, sess[s].at \in Sending,
         NEW r \in SessRec, r.at = sess[s].at, r.line = sess[s].line, r.left = sess[s].left,
         r.ctrl = sess[s].ctrl, r.data = sess[s].data, r.fd = sess[s].fd,
         r.fresh = sess[s].fresh,
         sess' = [sess EXCEPT ![s] = r], UNCHANGED <<owner, listening, log>>
  PROVE  IInv'
<1>1. Knows(r)
  BY SendFacts DEF Knows, Busy, Sending
<1>2. Says(r, log[s])
  BY SendFacts DEF Says, Busy, Listing, Sending
<1>3. Local(s, r, log[s])
  BY <1>1, <1>2, SessFacts DEF Local
<1>4. log' = [log EXCEPT ![s] = log[s]]
  BY SessFacts
<1> QED BY <1>3, <1>4, NothingOpened

LEMMA RetrBlockStep ==
  ASSUME IInv, NEW s \in Sessions, RetrBlock(s)
  PROVE  IInv'
<1>1. /\ sess[s].at = "retr send" /\ sess[s].sent < Blocks
      /\ UNCHANGED <<owner, listening, log>>
  BY DEF RetrBlock, Is
<1>2. PICK r : /\ sess' = [sess EXCEPT ![s] = r]
               /\ r = [sess[s] EXCEPT !.sent = sess[s].sent + 1]
  BY DEF RetrBlock, Become
<1>3. sess[s].sent + 1 \in 0 .. Blocks
  <2>1. sess[s].sent \in 0 .. Blocks /\ Blocks \in Nat
    BY SessFacts, FtpAssumption DEF SessRec
  <2>2. \A b \in Nat : \A x \in 0 .. b : x < b => x + 1 \in 0 .. b
    OBVIOUS
  <2> QED BY <1>1, <2>1, <2>2, Zenon
<1>4. /\ r \in SessRec /\ r.at = sess[s].at /\ r.line = sess[s].line
      /\ r.left = sess[s].left /\ r.ctrl = sess[s].ctrl /\ r.data = sess[s].data
      /\ r.fd = sess[s].fd /\ r.fresh = sess[s].fresh
  BY <1>2, <1>3, SessFacts DEF SessRec
<1> QED BY <1>1, <1>2, <1>4, GoesOn DEF Sending

(* The final reply after an announcement. *)
LEMMA LastShape ==
  ASSUME NEW k \in LogType, k.finals = 0, ~k.complete, NEW code \in Nat, code >= 200,
         NEW l, l = [finals |-> k.finals + (IF code >= 200 THEN 1 ELSE 0),
                     begun |-> k.begun \/ code = 150,
                     complete |-> k.complete \/ code = 226, fault |-> k.fault]
  PROVE  l \in LogType /\ l.finals = 1 /\ (l.complete => code = 226)
BY DEF LogType

LEMMA LastReply ==
  ASSUME NEW k \in LogType, k.finals = 0, ~k.complete, NEW code \in Nat, code >= 200,
         NEW l, l = Replied(k, << code >>)
  PROVE  l \in LogType /\ l.finals = 1 /\ (l.complete => code = 226)
<1>1. l = [finals |-> k.finals + (IF code >= 200 THEN 1 ELSE 0),
           begun |-> k.begun \/ code = 150,
           complete |-> k.complete \/ code = 226, fault |-> k.fault]
  BY SingleReply, Zenon
<1> QED BY <1>1, LastShape

(* 226 only after the whole of a file. *)
Truthful(s, code) == code = 226 => sess[s].at # "retr send" \/ sess[s].sent = Blocks

(* The end of a transfer: both descriptors are closed, one final reply.    *)
LEMMA TransferEnds ==
  ASSUME IInv, NEW s \in Sessions, sess[s].at \in Sending, NEW code \in Nat, code >= 200,
         Truthful(s, code),
         owner' = Close(Close(owner, sess[s].fd), sess[s].data),
         Become(s, [Prompt(s) EXCEPT !.fd = NONE, !.data = NONE]),
         Reply(s, << code >>), listening' = listening
  PROVE  IInv'
<1>1. PICK q : q = Prompt(s)
  OBVIOUS
<1>2. PICK r : /\ sess' = [sess EXCEPT ![s] = r]
               /\ r = [q EXCEPT !.fd = NONE, !.data = NONE]
  BY <1>1 DEF Become
<1>3. /\ q \in SessRec /\ q.at = "prompt" /\ Split(q.line).cmd = Split(sess[s].line).cmd
      /\ q.ctrl = sess[s].ctrl /\ q.left = sess[s].left /\ q.sent = sess[s].sent
  BY <1>1, Prompted
<1>4. /\ r \in SessRec /\ r.at = "prompt" /\ r.line = q.line /\ r.ctrl = sess[s].ctrl
      /\ r.data = NONE /\ r.fd = NONE /\ r.left = sess[s].left /\ r.sent = sess[s].sent
  BY <1>2, <1>3 DEF SessRec, MaybeFd
<1>5. PICK l : log' = [log EXCEPT ![s] = l] /\ l = Replied(log[s], << code >>)
  BY DEF Reply
<1>6. l \in LogType /\ l.finals = 1 /\ (l.complete => code = 226)
  <2>1. log[s] \in LogType /\ log[s].finals = 0 /\ ~log[s].complete
    BY SendFacts, SessFacts
  <2> QED BY <1>5, <2>1, LastReply
<1>7. Knows(r)
  BY <1>4 DEF Knows, Busy, Sending
<1>8. Says(r, l)
  <2>1. l.complete /\ Split(r.line).cmd = "RETR" => r.sent = Blocks
    <3>1. sess[s].at # "retr send" => Split(sess[s].line).cmd # "RETR"
      BY SendFacts
    <3>2. l.complete => sess[s].at # "retr send" \/ sess[s].sent = Blocks
      BY <1>6 DEF Truthful
    <3>3. Split(r.line).cmd = Split(sess[s].line).cmd
      BY <1>3, <1>4, Zenon
    <3> QED BY <1>4, <3>1, <3>2, <3>3, Zenon
  <2> QED BY <1>4, <1>6, <2>1 DEF Says, Busy, Listing
<1>9. Local(s, r, l)
  BY <1>4, <1>6, <1>7, <1>8, SessFacts DEF Local
<1>10. /\ owner' \in OwnType /\ OthersKeep(owner, owner', s)
       /\ Owns(owner', s, sess[s].ctrl, NONE, NONE)
  BY BothClosed
<1> QED BY <1>2, <1>4, <1>5, <1>9, <1>10, OneMoves

LEMMA RetrDoneStep ==
  ASSUME IInv, NEW s \in Sessions, NEW n \in {-1, 0, 1}, RetrDone(s, n)
  PROVE  IInv'
<1> DEFINE code == IF n = 0 THEN 226 ELSE 451
<1>1. Reply(s, << code >>)
  BY DEF RetrDone, RetrWhole
<1>2. /\ sess[s].at = "retr send" /\ (n = 0 => sess[s].sent = Blocks)
      /\ owner' = Close(Close(owner, sess[s].fd), sess[s].data)
      /\ Become(s, [Prompt(s) EXCEPT !.fd = NONE, !.data = NONE])
      /\ listening' = listening
  BY DEF RetrDone, Is
<1>3. code \in Nat /\ code >= 200 /\ (code = 226 => n = 0)
  OBVIOUS
<1>4. sess[s].at \in Sending
  BY <1>2 DEF Sending
<1> HIDE DEF code
<1>5. Truthful(s, code)
  BY <1>2, <1>3 DEF Truthful
<1> QED BY <1>1, <1>2, <1>3, <1>4, <1>5, TransferEnds

-----------------------------------------------------------------------------
(* command_list *)
LEMMA ListBeginsStep ==
  ASSUME IInv, NEW s \in Sessions, ListBegins(s)
  PROVE  IInv'
<1>1. /\ sess[s].at = "command" /\ Split(sess[s].line).cmd \in {"LIST", "NLST"}
      /\ owner' = owner /\ listening' = listening
  BY DEF ListBegins, Command, Is
<1>2. PICK r : /\ sess' = [sess EXCEPT ![s] = r]
               /\ r = [sess[s] EXCEPT !.at = "list connect", !.ok = TRUE]
  BY DEF ListBegins, Become, At
<1>3. log' = [log EXCEPT ![s] = Begun]
  BY <1>1, CommandFacts, Announcement, Zenon DEF ListBegins, Reply
<1>4. /\ r \in SessRec /\ r.at = "list connect" /\ r.line = sess[s].line
      /\ r.ctrl = sess[s].ctrl /\ r.data = sess[s].data /\ r.fd = sess[s].fd
      /\ r.left = sess[s].left /\ r.fresh = sess[s].fresh
  BY <1>2, SessFacts DEF SessRec, Places, Listing
<1>5. Knows(r)
  BY <1>1, <1>4, CommandFacts DEF Knows, Busy, Sending
<1>6. Says(r, Begun)
  BY <1>1, <1>4 DEF Says, Begun, Busy, Listing
<1>7. Local(s, r, Begun)
  BY <1>4, <1>5, <1>6, LogTypes, SessFacts DEF Local
<1> QED BY <1>1, <1>2, <1>3, <1>4, <1>7, NothingOpened

LEMMA ListConnectStep ==
  ASSUME IInv, NEW s \in Sessions, ListConnect(s)
  PROVE  IInv'
<1>1. /\ sess[s].at = "list connect" /\ UNCHANGED <<listening, log>>
      /\ HasData(s, "list open") \/ OpensSocket(s, "list wait")
  BY DEF ListConnect, Is
<1> QED BY <1>1, DataSocket

LEMMA ListConnectedStep ==
  ASSUME IInv, NEW s \in Sessions, ListConnected(s)
  PROVE  IInv'
BY Connected DEF ListConnected, Is

(* Back at the prompt with a fault, nothing closed. *)
LEMMA GivesUp ==
  ASSUME IInv, NEW s \in Sessions, sess[s].fd = NONE, Become(s, Prompt(s)),
         UNCHANGED <<owner, listening>>,
         NEW k \in LogType, ~k.complete, NEW fault \in Faults \ {"no"},
         log' = [log EXCEPT ![s] = [k EXCEPT !.fault = fault]]
  PROVE  IInv'
<1>1. PICK r : sess' = [sess EXCEPT ![s] = r] /\ r = Prompt(s)
  BY DEF Become
<1>2. PICK l : log' = [log EXCEPT ![s] = l] /\ l = [k EXCEPT !.fault = fault]
  OBVIOUS
<1>3. l \in LogType /\ l.fault # "no" /\ ~l.complete
  BY <1>2, Faulted
<1>4. /\ r \in SessRec /\ r.at = "prompt" /\ r.ctrl = sess[s].ctrl
      /\ r.data = sess[s].data /\ r.fd = sess[s].fd /\ r.left = sess[s].left
      /\ r.fresh = sess[s].fresh
  BY <1>1, Prompted
<1>5. Local(s, r, l)
  BY <1>3, <1>4, SessFacts, AtPrompt DEF Knows
<1> QED BY <1>1, <1>2, <1>4, <1>5, NothingOpened

LEMMA ListNoDataStep ==
  ASSUME IInv, NEW s \in Sessions, ListNoData(s)
  PROVE  IInv'
<1>1. /\ sess[s].at \in {"list connect", "list wait"}
      /\ owner' = Close(owner, sess[s].data) /\ listening' = listening
  BY DEF ListNoData, NoData, Is
<1>2. /\ log[s] \in LogType /\ log[s].finals = 0 /\ ~log[s].complete
      /\ sess[s].fd = NONE
  BY <1>1, SessFacts DEF Says, Knows, Busy, Listing
<1>3. PICK codes \in NoDataReplies : ReplyFault(s, codes, "data")
  BY DEF ListNoData
<1>4. PICK k : k = Replied(log[s], codes)
  OBVIOUS
<1>5. k \in LogType /\ ~k.complete
  <2>1. PICK m : m = log[s]
    OBVIOUS
  <2>2. Replied(m, codes) \in LogType /\ ~Replied(m, codes).complete
    BY <1>2, <2>1, NoDataReply
  <2> QED BY <1>4, <2>1, <2>2, Zenon
<1>6. PICK l : log' = [log EXCEPT ![s] = l] /\ l = [k EXCEPT !.fault = "data"]
  BY <1>3, <1>4 DEF ReplyFault
<1>7. l \in LogType /\ l.fault # "no" /\ ~l.complete
  <2>1. "data" \in Faults /\ "data" # "no"
    BY DEF Faults
  <2> QED BY <1>5, <1>6, <2>1, Faulted
<1>8. PICK q : q = Prompt(s)
  OBVIOUS
<1>9. PICK r : sess' = [sess EXCEPT ![s] = r] /\ r = [q EXCEPT !.data = NONE]
  BY <1>8 DEF ListNoData, Become
<1>10. /\ q \in SessRec /\ q.at = "prompt" /\ q.ctrl = sess[s].ctrl /\ q.fd = sess[s].fd
       /\ q.left = sess[s].left
  BY <1>8, Prompted
<1>11. /\ r \in SessRec /\ r.at = "prompt" /\ r.ctrl = sess[s].ctrl /\ r.fd = sess[s].fd
       /\ r.data = NONE /\ r.left = sess[s].left
  BY <1>9, <1>10 DEF SessRec, MaybeFd
<1>12. Local(s, r, l)
  BY <1>2, <1>7, <1>11, SessFacts, AtPrompt
<1> QED BY <1>1, <1>6, <1>9, <1>11, <1>12, DataClosed

LEMMA ListNoDirStep ==
  ASSUME IInv, NEW s \in Sessions, ListNoDir(s)
  PROVE  IInv'
<1>1. /\ sess[s].at = "list open" /\ Become(s, Prompt(s))
      /\ UNCHANGED <<owner, listening>>
  BY DEF ListNoDir, Is
<1>2. PICK k : k = log[s]
  OBVIOUS
<1>3. k \in LogType /\ ~k.complete /\ sess[s].fd = NONE
  BY <1>1, <1>2, SessFacts DEF Says, Knows, Busy, Listing
<1>4. Replied(k, << >>) = k
  BY <1>3, NoReply
<1>5. log' = [log EXCEPT ![s] = [k EXCEPT !.fault = "opendir"]]
  BY <1>2, <1>4, Zenon DEF ListNoDir, ReplyFault
<1>6. "opendir" \in Faults \ {"no"}
  BY DEF Faults
<1> QED BY <1>1, <1>3, <1>5, <1>6, GivesUp

LEMMA ListOpensDirStep ==
  ASSUME IInv, NEW s \in Sessions, ListOpensDir(s)
  PROVE  IInv'
<1>1. /\ sess[s].at = "list open" /\ Free(owner) # {} /\ owner' = Open(owner, s)
      /\ listening' = listening /\ log' = [log EXCEPT ![s] = log[s]]
  BY SessFacts DEF ListOpensDir, Is
<1>2. PICK r : /\ sess' = [sess EXCEPT ![s] = r]
               /\ r = [sess[s] EXCEPT !.at = "list send", !.fd = NewFd(owner)]
  BY DEF ListOpensDir, Become, At
<1>3. /\ log[s].finals = 0 /\ ~log[s].complete /\ sess[s].data # NONE /\ sess[s].fresh
      /\ Split(sess[s].line).cmd # "RETR" /\ sess[s].fd = NONE
  BY <1>1, SendFacts DEF Sending
<1>4. /\ NewFd(owner) \in Descriptors /\ owner' \in OwnType /\ OthersKeep(owner, owner', s)
      /\ Owns(owner', s, sess[s].ctrl, sess[s].data, NewFd(owner))
  BY <1>1, <1>3, SessFacts, OpenedOwn
<1>5. /\ r \in SessRec /\ r.at = "list send" /\ r.line = sess[s].line
      /\ r.ctrl = sess[s].ctrl /\ r.data = sess[s].data /\ r.fd = NewFd(owner)
      /\ r.left = sess[s].left /\ r.fresh = sess[s].fresh
  BY <1>2, <1>4, SessFacts DEF SessRec, MaybeFd, Places, Listing
<1>6. Knows(r)
  BY <1>3, <1>4, <1>5, FtpAssumption DEF Knows, Busy, Sending
<1>7. Says(r, log[s])
  BY <1>3, <1>5 DEF Says, Busy, Listing
<1>8. Local(s, r, log[s])
  BY <1>5, <1>6, <1>7, SessFacts DEF Local
<1> QED BY <1>1, <1>2, <1>4, <1>5, <1>8, OneMoves

LEMMA ListEntryStep ==
  ASSUME IInv, NEW s \in Sessions, ListEntry(s)
  PROVE  IInv'
<1>1. sess[s].at = "list send" /\ UNCHANGED <<owner, listening, log>>
  BY DEF ListEntry, Is
<1>2. PICK r : sess' = [sess EXCEPT ![s] = r] /\ r = [sess[s] EXCEPT !.ok = FALSE]
  BY DEF ListEntry, Become
<1>3. /\ r \in SessRec /\ r.at = sess[s].at /\ r.line = sess[s].line
      /\ r.left = sess[s].left /\ r.ctrl = sess[s].ctrl /\ r.data = sess[s].data
      /\ r.fd = sess[s].fd /\ r.fresh = sess[s].fresh
  BY <1>2, SessFacts DEF SessRec
<1> QED BY <1>1, <1>2, <1>3, GoesOn DEF Sending

LEMMA ListDoneStep ==
  ASSUME IInv, NEW s \in Sessions, ListDone(s)
  PROVE  IInv'
<1>1. PICK code \in {226, 426} : Reply(s, << code >>)
  BY DEF ListDone, ListEnd
<1>2. /\ sess[s].at \in {"list send", "list open"}
      /\ owner' = Close(Close(owner, sess[s].fd), sess[s].data)
      /\ Become(s, [Prompt(s) EXCEPT !.fd = NONE, !.data = NONE])
      /\ listening' = listening
  BY DEF ListDone, ListEnd, Is
<1>3. code \in Nat /\ code >= 200
  OBVIOUS
<1>4. sess[s].at \in Sending /\ Truthful(s, code)
  BY <1>2 DEF Sending, Truthful
<1> QED BY <1>1, <1>2, <1>3, <1>4, TransferEnds

-----------------------------------------------------------------------------
(* ftpd_run, and what comes and goes on the control connection. *)
LEMMA AcceptedStep ==
  ASSUME IInv, NEW s \in Sessions, Accepted(s)
  PROVE  IInv'
<1>1. /\ sess[s].at = "new" /\ Free(owner) # {} /\ owner' = Open(owner, s)
      /\ listening' = listening
  BY DEF Accepted, Is
<1>2. PICK q : q = Prompt(s)
  OBVIOUS
<1>3. PICK r : sess' = [sess EXCEPT ![s] = r] /\ r = [q EXCEPT !.ctrl = NewFd(owner)]
  BY <1>2 DEF Accepted, Become
<1>4. sess[s].ctrl = NONE /\ sess[s].data = NONE /\ sess[s].fd = NONE /\ log[s] = NoLog
  BY <1>1, SessFacts DEF Knows, Says, Busy
<1>5. log' = [log EXCEPT ![s] = Final]
  <2>1. Reply(s, << 220 >>)
    BY DEF Accepted
  <2>2. Replied(NoLog, << 220 >>) = Final
    BY FinalReply
  <2> QED BY <1>4, <2>1, <2>2, Zenon DEF Reply
<1>6. /\ NewFd(owner) \in Descriptors /\ owner' \in OwnType /\ OthersKeep(owner, owner', s)
      /\ Owns(owner', s, NewFd(owner), sess[s].data, sess[s].fd)
  BY <1>1, <1>4, SessFacts, OpenedOwn
<1>7. /\ q \in SessRec /\ q.at = "prompt" /\ q.data = sess[s].data /\ q.fd = sess[s].fd
      /\ q.left = sess[s].left
  BY <1>2, Prompted
<1>8. /\ r \in SessRec /\ r.at = "prompt" /\ r.ctrl = NewFd(owner)
      /\ r.data = sess[s].data /\ r.fd = sess[s].fd /\ r.left = sess[s].left
  BY <1>3, <1>6, <1>7 DEF SessRec, MaybeFd
<1>9. Local(s, r, Final)
  BY <1>4, <1>8, SessFacts, AtPrompt
<1> QED BY <1>1, <1>3, <1>5, <1>6, <1>8, <1>9, OneMoves

LEMMA AcceptLostStep ==
  ASSUME IInv, NEW s \in Sessions, AcceptLost(s)
  PROVE  IInv'
<1>1. /\ sess[s].at = "new" /\ Free(owner) # {} /\ owner' = Open(owner, LOST)
      /\ listening' = listening /\ log' = [log EXCEPT ![s] = log[s]]
  BY SessFacts DEF AcceptLost, Is
<1>2. PICK r : sess' = [sess EXCEPT ![s] = r] /\ r = [sess[s] EXCEPT !.at = "lost"]
  BY DEF AcceptLost, Become, At
<1>3. sess[s].ctrl = NONE /\ sess[s].data = NONE /\ sess[s].fd = NONE /\ log[s] = NoLog
  BY <1>1, SessFacts DEF Knows, Says, Busy
<1>4. /\ owner' \in OwnType
      /\ \A t \in Sessions : \A d \in Descriptors : owner'[d] = t <=> owner[d] = t
  BY <1>1, SessFacts, Opened DEF Owners
<1>5. OthersKeep(owner, owner', s)
  BY <1>4 DEF OthersKeep
<1>6. Owns(owner', s, sess[s].ctrl, sess[s].data, sess[s].fd)
  BY <1>4, SessFacts DEF Owns
<1>7. /\ r \in SessRec /\ r.at = "lost" /\ r.ctrl = sess[s].ctrl
      /\ r.data = sess[s].data /\ r.fd = sess[s].fd /\ r.left = sess[s].left
  BY <1>2, SessFacts DEF SessRec, Places, Resting
<1>8. Knows(r)
  BY <1>3, <1>7 DEF Knows, Busy, Sending
<1>9. Says(r, log[s])
  BY <1>3, <1>7 DEF Says, NoLog, Busy, Listing
<1>10. Local(s, r, log[s])
  BY <1>7, <1>8, <1>9, SessFacts DEF Local
<1> QED BY <1>1, <1>2, <1>4, <1>5, <1>6, <1>7, <1>10, OneMoves

(* A session that has got a line begins a command. *)
LEMMA BeginsCommand ==
  ASSUME IInv, NEW s \in Sessions, sess[s].at = "prompt", NEW r \in SessRec,
         sess' = [sess EXCEPT ![s] = r], r.at = "command", r.left <= MaxLines[s],
         r.ctrl = sess[s].ctrl, r.data = sess[s].data, r.fd = sess[s].fd,
         r.fresh = sess[s].fresh, log' = [log EXCEPT ![s] = NoLog],
         UNCHANGED <<owner, listening>>
  PROVE  IInv'
<1>1. sess[s].fd = NONE /\ (sess[s].data # NONE => sess[s].fresh)
  BY SessFacts DEF Knows, Busy
<1>2. Knows(r)
  BY <1>1 DEF Knows, Busy, Sending
<1>3. Says(r, NoLog)
  BY DEF Says, NoLog, Busy, Listing
<1>4. Local(s, r, NoLog)
  BY <1>2, <1>3, LogTypes DEF Local
<1> QED BY <1>4, NothingOpened

LEMMA MaxFacts ==
  ASSUME NEW s \in Sessions
  PROVE  MaxLines[s] \in Nat
BY FtpAssumption

LEMMA GetLineStep ==
  ASSUME IInv, NEW s \in Sessions, NEW line \in Lines[s], GetLine(s, line)
  PROVE  IInv'
<1>1. /\ sess[s].at = "prompt" /\ sess[s].left > 0 /\ UNCHANGED <<owner, listening>>
      /\ log' = [log EXCEPT ![s] = NoLog]
  BY DEF GetLine, Is
<1>2. PICK q : q = [sess[s] EXCEPT !.at = "command"]
  OBVIOUS
<1>3. /\ q \in SessRec /\ q.at = "command" /\ q.left = sess[s].left
      /\ q.ctrl = sess[s].ctrl /\ q.data = sess[s].data /\ q.fd = sess[s].fd
      /\ q.fresh = sess[s].fresh
  BY <1>2, SessFacts DEF SessRec, Places
<1>4. PICK r : sess' = [sess EXCEPT ![s] = r] /\ r = [q EXCEPT !.line = line, !.left = @ - 1]
  BY <1>2 DEF GetLine, Become, At
<1>5. line \in LineSet
  BY DEF LineSet, Sent
<1>6. sess[s].left \in Nat /\ sess[s].left - 1 \in Nat
  BY <1>1, SessFacts DEF SessRec
<1>7. /\ r \in SessRec /\ r.at = "command" /\ r.left = sess[s].left - 1
      /\ r.ctrl = sess[s].ctrl /\ r.data = sess[s].data /\ r.fd = sess[s].fd
      /\ r.fresh = sess[s].fresh
  BY <1>3, <1>4, <1>5, <1>6 DEF SessRec
<1>8. r.left <= MaxLines[s]
  BY <1>6, <1>7, SessFacts, MaxFacts
<1> QED BY <1>1, <1>4, <1>7, <1>8, BeginsCommand

LEMMA GetClosedStep ==
  ASSUME IInv, NEW s \in Sessions, GetClosed(s)
  PROVE  IInv'
<1>1. /\ sess[s].at = "prompt" /\ UNCHANGED <<owner, listening>>
      /\ log' = [log EXCEPT ![s] = NoLog]
  BY DEF GetClosed, Is
<1>2. PICK r : /\ sess' = [sess EXCEPT ![s] = r]
               /\ r = [sess[s] EXCEPT !.at = "command", !.left = 0]
  BY DEF GetClosed, Become, At
<1>3. /\ r \in SessRec /\ r.at = "command" /\ r.left = 0
      /\ r.ctrl = sess[s].ctrl /\ r.data = sess[s].data /\ r.fd = sess[s].fd
      /\ r.fresh = sess[s].fresh
  BY <1>2, SessFacts DEF SessRec, Places
<1>4. r.left <= MaxLines[s]
  BY <1>3, MaxFacts
<1> QED BY <1>1, <1>2, <1>3, <1>4, BeginsCommand

LEMMA GetErrorStep ==
  ASSUME IInv, NEW s \in Sessions, GetError(s)
  PROVE  IInv'
<1>1. /\ sess[s].at = "prompt" /\ owner' = owner /\ listening' = listening
      /\ log' = [log EXCEPT ![s] = log[s]]
  BY SessFacts DEF GetError, Is
<1>2. PICK r : /\ sess' = [sess EXCEPT ![s] = r]
               /\ r = [sess[s] EXCEPT !.at = "closing", !.left = 0]
  BY DEF GetError, Become, At
<1>3. /\ r \in SessRec /\ r.at = "closing" /\ r.left = 0 /\ r.line = sess[s].line
      /\ r.ctrl = sess[s].ctrl /\ r.data = sess[s].data /\ r.fd = sess[s].fd
      /\ r.fresh = sess[s].fresh /\ r.sent = sess[s].sent
  BY <1>2, SessFacts DEF SessRec, Places
<1>4. Knows(r)
  BY <1>1, <1>3, SessFacts DEF Knows, Busy, Sending
<1>5. Says(r, log[s])
  BY <1>1, <1>3, SessFacts DEF Says, Busy, Listing
<1>6. Local(s, r, log[s])
  BY <1>3, <1>4, <1>5, SessFacts, MaxFacts DEF Local
<1> QED BY <1>1, <1>2, <1>3, <1>6, NothingOpened

LEMMA ClosingStep ==
  ASSUME IInv, NEW s \in Sessions, Closing(s)
  PROVE  IInv'
<1> DEFINE own == Close(owner, sess[s].data)
<1>1. /\ sess[s].at = "closing" /\ owner' = Close(own, sess[s].ctrl)
      /\ listening' = listening /\ log' = [log EXCEPT ![s] = log[s]]
  BY SessFacts DEF Closing, Is
<1>2. PICK r : /\ sess' = [sess EXCEPT ![s] = r]
               /\ r = [sess[s] EXCEPT !.at = "ended", !.data = NONE, !.ctrl = NONE]
  BY DEF Closing, Become, At
<1>3. /\ own \in OwnType /\ OthersKeep(owner, own, s)
      /\ Owns(own, s, sess[s].ctrl, NONE, sess[s].fd)
  BY SessFacts, ClosedOwn
<1> HIDE DEF own
<1>4. /\ owner' \in OwnType /\ OthersKeep(own, owner', s)
      /\ Owns(owner', s, NONE, NONE, sess[s].fd)
  <2>1. NONE \in MaybeFd
    BY DEF MaybeFd
  <2> QED BY <1>1, <1>3, <2>1, SessFacts, ClosedOwn
<1>5. OthersKeep(owner, owner', s)
  BY <1>3, <1>4, KeepTwice
<1>6. /\ r \in SessRec /\ r.at = "ended" /\ r.left = sess[s].left /\ r.line = sess[s].line
      /\ r.ctrl = NONE /\ r.data = NONE /\ r.fd = sess[s].fd /\ r.sent = sess[s].sent
  BY <1>2, SessFacts DEF SessRec, MaybeFd, Places, Resting
<1>7. Knows(r)
  BY <1>1, <1>6, SessFacts DEF Knows, Busy, Sending
<1>8. Says(r, log[s])
  BY <1>1, <1>6, SessFacts DEF Says, Busy, Listing
<1>9. Local(s, r, log[s])
  BY <1>6, <1>7, <1>8, SessFacts DEF Local
<1> QED BY <1>1, <1>2, <1>4, <1>5, <1>6, <1>9, OneMoves

LEMMA StartStep ==
  ASSUME IInv, Start
  PROVE  IInv'
<1>1. /\ owner \in OwnType /\ Free(owner) # {} /\ owner' = Open(owner, SERVER)
      /\ listening' \in {"start", "listen", "returned"} /\ sess' = sess /\ log' = log
  BY DEF Start, IInv
<1>2. /\ owner' \in OwnType
      /\ \A t \in Sessions : \A d \in Descriptors : owner'[d] = t <=> owner[d] = t
  BY <1>1, Opened DEF Owners
<1>3. ASSUME NEW t \in Sessions
      PROVE  Owns(owner', t, sess'[t].ctrl, sess'[t].data, sess'[t].fd)
  <2>1. Owns(owner, t, sess[t].ctrl, sess[t].data, sess[t].fd)
    BY DEF IInv
  <2> QED BY <1>1, <1>2, <2>1 DEF Owns
<1> QED BY <1>1, <1>2, <1>3 DEF IInv

LEMMA StutterStep ==
  ASSUME IInv, UNCHANGED vars
  PROVE  IInv'
BY DEF IInv, vars

-----------------------------------------------------------------------------
(* The invariant holds from the start, and every step keeps it. *)
LEMMA InitInv == Init => IInv
<1> SUFFICES ASSUME Init PROVE IInv
  OBVIOUS
<1>1. PICK mode \in [Sessions -> {"binary", "other"}] :
        sess = [s \in Sessions |->
                 [at |-> "new", line |-> << >>, left |-> MaxLines[s],
                  ctrl |-> NONE, data |-> NONE, dest |-> NONE, fresh |-> FALSE,
                  mode |-> mode[s], fd |-> NONE, sent |-> 0, ok |-> TRUE]]
  BY DEF Init
<1>2. /\ owner = [d \in Descriptors |-> NONE] /\ listening = "start"
      /\ log = [s \in Sessions |-> NoLog]
  BY DEF Init
<1>3. ASSUME NEW s \in Sessions
      PROVE  /\ Owns(owner, s, sess[s].ctrl, sess[s].data, sess[s].fd)
             /\ Local(s, sess[s], log[s])
  <2>1. PICK r : r = sess[s]
    OBVIOUS
  <2>2. r = [at |-> "new", line |-> << >>, left |-> MaxLines[s],
             ctrl |-> NONE, data |-> NONE, dest |-> NONE, fresh |-> FALSE,
             mode |-> mode[s], fd |-> NONE, sent |-> 0, ok |-> TRUE]
    BY <1>1, <2>1
  <2>3. /\ r \in SessRec /\ r.at = "new" /\ r.left = MaxLines[s]
        /\ r.ctrl = NONE /\ r.data = NONE /\ r.fd = NONE
    <3>1. 0 \in 0 .. Blocks
      BY FtpAssumption
    <3>2. << >> \in LineSet
      BY DEF LineSet
    <3> QED BY <2>2, <3>1, <3>2, MaxFacts DEF SessRec, MaybeFd, Places, Resting
  <2>4. Owns(owner, s, r.ctrl, r.data, r.fd)
    BY <1>2, <2>3, FtpAssumption DEF Owns
  <2>5. Knows(r)
    BY <2>3 DEF Knows, Busy, Sending
  <2>6. Says(r, NoLog)
    BY <2>3 DEF Says, NoLog, Busy, Listing
  <2>7. r.left <= MaxLines[s]
    BY <2>3, MaxFacts
  <2> QED BY <1>2, <2>1, <2>3, <2>4, <2>5, <2>6, <2>7, LogTypes DEF Local
<1>4. owner \in OwnType
  BY <1>2 DEF OwnType, Owners
<1>5. sess = [s \in Sessions |-> sess[s]] /\ log = [s \in Sessions |-> log[s]]
  BY <1>1, <1>2
<1> QED BY <1>2, <1>3, <1>4, <1>5 DEF IInv

LEMMA WorkingStep ==
  ASSUME IInv, NEW s \in Sessions, Working(s)
  PROVE  IInv'
<1>1. CASE Quit(s) \/ Closing(s) \/ Simple(s) \/ Type(s) \/ Port(s)
  BY <1>1, QuitStep, ClosingStep, SimpleStep, TypeStep, PortStep
<1>2. CASE PasvFails(s) \/ PasvListens(s) \/ PasvTimeout(s)
  BY <1>2, PasvFailsStep, PasvListensStep, PasvTimeoutStep
<1>3. CASE \/ RetrRefused(s) \/ RetrNoFile(s) \/ RetrOpens(s)
           \/ RetrConnect(s) \/ RetrConnected(s) \/ RetrNoData(s)
  BY <1>3, RetrRefusedStep, RetrNoFileStep, RetrOpensStep, RetrConnectStep,
     RetrConnectedStep, RetrNoDataStep
<1>4. CASE ListBegins(s) \/ ListConnect(s) \/ ListConnected(s) \/ ListNoData(s)
  BY <1>4, ListBeginsStep, ListConnectStep, ListConnectedStep, ListNoDataStep
<1> QED BY <1>1, <1>2, <1>3, <1>4 DEF Working

LEMMA WithClientStep ==
  ASSUME IInv, NEW s \in Sessions, WithClient(s)
  PROVE  IInv'
<1>1. CASE PasvAccepts(s)
  BY <1>1, PasvAcceptsStep
<1>2. CASE RetrBlock(s)
  BY <1>2, RetrBlockStep
<1>3. CASE \E n \in {-1, 0, 1} : RetrDone(s, n)
  BY <1>3, RetrDoneStep
<1>4. CASE ListNoDir(s) \/ ListOpensDir(s) \/ ListEntry(s) \/ ListDone(s)
  BY <1>4, ListNoDirStep, ListOpensDirStep, ListEntryStep, ListDoneStep
<1> QED BY <1>1, <1>2, <1>3, <1>4 DEF WithClient

LEMMA NextInv == IInv /\ [Next]_vars => IInv'
<1> SUFFICES ASSUME IInv, [Next]_vars PROVE IInv'
  OBVIOUS
<1>1. CASE Start
  BY <1>1, StartStep
<1>2. ASSUME NEW s \in Sessions,
             \/ Accepted(s) \/ AcceptLost(s)
             \/ \E line \in Lines[s] : GetLine(s, line)
             \/ GetClosed(s) \/ GetError(s)
             \/ Working(s) \/ WithClient(s)
      PROVE  IInv'
  BY <1>2, AcceptedStep, AcceptLostStep, GetLineStep, GetClosedStep, GetErrorStep,
     WorkingStep, WithClientStep
<1>3. CASE UNCHANGED vars
  BY <1>3, StutterStep
<1> QED BY <1>1, <1>2, <1>3 DEF Next

THEOREM FtpInv == Spec => []IInv
BY InitInv, NextInv, PTL DEF Spec

-----------------------------------------------------------------------------
(* For all sessions and whatever they send: the descriptors, addresses and *)
(* counters of src/bscl_ftpd.c keep their ranges.                          *)
THEOREM FtpTypeOK == Spec => []TypeOK
<1>1. ASSUME IInv PROVE TypeOK
  <2>1. ASSUME NEW s \in Sessions
        PROVE  /\ {sess[s].ctrl, sess[s].data, sess[s].fd} \subseteq Descriptors \union {NONE}
               /\ sess[s].dest \in Addresses \union {NONE}
               /\ sess[s].sent \in 0 .. Blocks /\ sess[s].left \in 0 .. MaxLines[s]
               /\ sess[s].mode \in {"binary", "other"}
               /\ {sess[s].fresh, sess[s].ok} \subseteq BOOLEAN
               /\ log[s].finals \in 0 .. 2
    <3>1. sess[s].left \in 0 .. MaxLines[s]
      BY <1>1, SessFacts, MaxFacts DEF SessRec
    <3>2. sess[s] \in SessRec /\ log[s] \in LogType
      BY <1>1, SessFacts
    <3> QED BY <3>1, <3>2 DEF SessRec, MaybeFd, LogType
  <2>2. owner \in [Descriptors -> Sessions \union {NONE, SERVER, LOST}]
    BY <1>1 DEF IInv, OwnType, Owners
  <2>3. listening \in {"start", "listen", "returned"}
    BY <1>1 DEF IInv
  <2> QED BY <2>1, <2>2, <2>3 DEF TypeOK
<1> QED BY <1>1, FtpInv, PTL

(* No session of src/bscl_ftpd.c leaves a descriptor open that it no       *)
(* longer knows, uses one that another has, or ends with one open.         *)
THEOREM FtpNoOrphans == Spec => []NoOrphans
<1>1. ASSUME IInv PROVE NoOrphans
  <2>1. ASSUME NEW s \in Sessions
        PROVE  /\ {d \in Descriptors : owner[d] = s} = Held(s)
               /\ sess[s].at = "prompt" => sess[s].fd = NONE
               /\ sess[s].at = "ended" => Held(s) = {}
    <3>1. {d \in Descriptors : owner[d] = s} = Held(s)
      BY <1>1, SessFacts, FtpAssumption DEF Owns, Held, MaybeFd
    <3>2. sess[s].at \in {"prompt", "ended"} => sess[s].fd = NONE
      BY <1>1, SessFacts DEF Knows, Busy
    <3>3. sess[s].at = "ended" => sess[s].ctrl = NONE /\ sess[s].data = NONE
      BY <1>1, SessFacts DEF Knows
    <3> QED BY <3>1, <3>2, <3>3 DEF Held
  <2> QED BY <2>1 DEF NoOrphans
<1> QED BY <1>1, FtpInv, PTL

(* But for the faults the history marks, exec_command gives each command   *)
(* one final reply, and a transfer that was announced has closed its data  *)
(* connection when the session asks for the next command.                  *)
THEOREM FtpAnswered == Spec => []Answered
<1>1. ASSUME IInv PROVE Answered
  BY <1>1, SessFacts DEF Says, Answered
<1> QED BY <1>1, FtpInv, PTL

(* command_retrieve says "Transfer complete" of nothing but a whole file.  *)
THEOREM FtpSentWhole == Spec => []SentWhole
<1>1. ASSUME IInv PROVE SentWhole
  BY <1>1, SessFacts DEF Says, SentWhole
<1> QED BY <1>1, FtpInv, PTL

(* A transfer never uses a data connection from before the latest PASV or  *)
(* PORT command.                                                           *)
THEOREM FtpFreshData == Spec => []FreshData
<1>1. ASSUME IInv PROVE FreshData
  BY <1>1, SessFacts DEF Knows, FreshData, Sending
<1> QED BY <1>1, FtpInv, PTL
=============================================================================
