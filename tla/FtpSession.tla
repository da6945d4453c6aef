----------------------------- MODULE FtpSession -----------------------------
(***************************************************************************)
(* src/bscl_ftpd.c: ftpd_run accepts control connections and starts a      *)
(* thread for each, whose session_task reads commands and executes them.   *)
(* The sessions share the descriptors of the process.  A step of a session *)
(* ends at a call that waits for the peer (recv on the control connection, *)
(* accept, connect, send on a data connection); what lies between two such *)
(* calls is one step.  A system call or callback may fail whenever it is   *)
(* made.  The callbacks (ftpd_callback_t) are external.  While a connect   *)
(* waits, the data field of sess is the local variable of data_socket that *)
(* holds the new socket: session->data_socket is -1 there.                 *)
(***************************************************************************)
EXTENDS FtpLine, FiniteSets

CONSTANTS
  Sessions,      \* the connections clients make, one session each
  Descriptors,   \* the process's descriptors, numbers from 0
  Lines,         \* the command lines each client sends
  Addresses,     \* what a PORT command can say: six numbers up to 255
  Own,           \* those of them with the server's IP
  Blocks,        \* the blocks of a file, the entries of a directory
  MaxLines,      \* bound: the lines each client sends
  NONE           \* -1: no descriptor; nobody's

SERVER == "server"   \* the descriptor ftpd_run listens on
LOST == "lost"       \* a descriptor nobody knows any more

ASSUME FtpAssumption ==
  /\ Descriptors \subseteq Nat /\ IsFiniteSet(Descriptors)
  /\ Own \subseteq Addresses
  /\ Blocks \in Nat /\ MaxLines \in [Sessions -> Nat]
  /\ NONE \notin Descriptors /\ NONE \notin Sessions \union {SERVER, LOST}
  /\ {SERVER, LOST} \intersect Sessions = {}
  /\ \A s \in Sessions : \A line \in Lines[s] \ {<< >>} :    \* capitals are capitals
       Upper(Upper(Head(line))) = Upper(Head(line))

VARIABLES
  owner,      \* who uses each descriptor
  listening,  \* ftpd_run: "start", "listen" or "returned"
  sess,       \* the ftpd_session_t of each session, and where its thread is
  log         \* history of each session's latest command

vars == <<owner, listening, sess, log>>

-----------------------------------------------------------------------------
(* Descriptors: a new one is the lowest that is free; closing -1 is in     *)
(* vain, and closing another's descriptor would go unnoticed.              *)
Free(own) == {d \in Descriptors : own[d] = NONE}
NewFd(own) == CHOOSE d \in Free(own) : \A e \in Free(own) : d <= e
Open(own, who) == [own EXCEPT ![NewFd(own)] = who]
Close(own, d) == IF d = NONE THEN own ELSE [own EXCEPT ![d] = NONE]

Is(s, at) == sess[s].at = at
Become(s, r) == sess' = [sess EXCEPT ![s] = r]
At(s, at) == [sess[s] EXCEPT !.at = at]

(* Back at recv_line; what is left in its buffer is there still. *)
Prompt(s) == [At(s, "prompt") EXCEPT !.line = StaleLine(@)]

(* send_ctrl_reply: of the replies to a command the history keeps how many *)
(* were final (200 and above), and whether a transfer was announced (150)  *)
(* or said to be complete (226).                                           *)
NoLog == [finals |-> 0, begun |-> FALSE, complete |-> FALSE, fault |-> "no"]
Replied(l, codes) ==
  [l EXCEPT !.finals = @ + Cardinality({i \in DOMAIN codes : codes[i] >= 200}),
            !.begun = @ \/ \E i \in DOMAIN codes : codes[i] = 150,
            !.complete = @ \/ \E i \in DOMAIN codes : codes[i] = 226]
Reply(s, codes) == log' = [log EXCEPT ![s] = Replied(@, codes)]
ReplyFault(s, codes, fault) ==
  log' = [log EXCEPT ![s] = [Replied(@, codes) EXCEPT !.fault = fault]]

Init ==
  /\ owner = [d \in Descriptors |-> NONE]
  /\ listening = "start"
  /\ \E mode \in [Sessions -> {"binary", "other"}] :   \* left as malloc gave it
       sess = [s \in Sessions |->
                 [at |-> "new", line |-> << >>, left |-> MaxLines[s],
                  ctrl |-> NONE, data |-> NONE, dest |-> NONE, fresh |-> FALSE,
                  mode |-> mode[s], fd |-> NONE, sent |-> 0, ok |-> TRUE]]
  /\ log = [s \in Sessions |-> NoLog]

-----------------------------------------------------------------------------
(* ftpd_run up to its loop: socket, bind and listen. *)
Start ==
  /\ listening = "start"
  /\ Free(owner) # {} /\ owner' = Open(owner, SERVER)
  /\ listening' \in {"listen", "returned"}
  /\ UNCHANGED <<sess, log>>

(* One round of the accept loop, and the greeting of session_task; when    *)
(* malloc fails the connection is closed again.                            *)
Accepted(s) ==
  /\ listening = "listen" /\ Is(s, "new") /\ Free(owner) # {}
  /\ owner' = Open(owner, s)
  /\ Become(s, [Prompt(s) EXCEPT !.ctrl = NewFd(owner)])
  /\ Reply(s, << 220 >>)
  /\ UNCHANGED listening

(* When getsockname or the creation of the thread fails, the connection    *)
(* and the session are forgotten.                                          *)
AcceptLost(s) ==
  /\ listening = "listen" /\ Is(s, "new") /\ Free(owner) # {}
  /\ owner' = Open(owner, LOST)
  /\ Become(s, At(s, "lost"))
  /\ UNCHANGED <<listening, log>>

-----------------------------------------------------------------------------
(* recv_line: a line; a closed connection that is taken for a line, the    *)
(* one before, again and again (before the first line the buffer is not    *)
(* initialised, and what is in it is no command); or an error.             *)
GetLine(s, line) ==
  /\ Is(s, "prompt") /\ sess[s].left > 0
  /\ Become(s, [At(s, "command") EXCEPT !.line = line, !.left = @ - 1])
  /\ log' = [log EXCEPT ![s] = NoLog]
  /\ UNCHANGED <<owner, listening>>

GetClosed(s) ==
  /\ Is(s, "prompt")
  /\ Become(s, [At(s, "command") EXCEPT !.left = 0])
  /\ log' = [log EXCEPT ![s] = NoLog]
  /\ UNCHANGED <<owner, listening>>

GetError(s) ==
  /\ Is(s, "prompt")
  /\ Become(s, [At(s, "closing") EXCEPT !.left = 0])
  /\ UNCHANGED <<owner, listening, log>>

Command(s, names) ==
  Is(s, "command") /\ Split(sess[s].line).cmd \in names
Args(s) == Split(sess[s].line).args

-----------------------------------------------------------------------------
(* The end of session_task; QUIT leads there. *)
Quit(s) ==
  /\ Command(s, {"QUIT"})
  /\ Become(s, At(s, "closing"))
  /\ Reply(s, << 221 >>)
  /\ UNCHANGED <<owner, listening>>

Closing(s) ==
  /\ Is(s, "closing")
  /\ owner' = Close(Close(owner, sess[s].data), sess[s].ctrl)
  /\ Become(s, [At(s, "ended") EXCEPT !.data = NONE, !.ctrl = NONE])
  /\ UNCHANGED <<listening, log>>

(* The commands of exec_command that change no session: each gives one of  *)
(* the replies its callbacks may lead to.                                  *)
Denied == {550}
SizeCodes(mode) == IF mode = "binary" THEN {213, 550} ELSE {550}
CwdCodes == {250, 550}
PwdCodes == {250, 452}

Answers(cmd, args, mode) ==
  CASE cmd \in {"STOR", "MDTM", "MKD"} -> Denied
    [] cmd = "SIZE" -> SizeCodes(mode)
    [] cmd = "SYST" -> {215}
    [] cmd \in {"USER", "PASS"} -> {230}
    [] cmd \in {"DELE", "RMD"} -> {257, 550}
    [] cmd \in {"CWD", "CDUP"} -> CwdCodes
    [] cmd = "PWD" -> PwdCodes
    [] cmd = "SITE" -> IF Split(args).cmd = "CHMOD" THEN Denied ELSE {500}
    [] OTHER -> {500}

Stateful == {"QUIT", "TYPE", "PORT", "PASV", "RETR", "LIST", "NLST"}

Simple(s) ==
  LET cmd == Split(sess[s].line).cmd IN
  /\ Is(s, "command") /\ cmd \notin Stateful
  /\ Become(s, Prompt(s))
  /\ \E code \in Answers(cmd, Args(s), sess[s].mode) : Reply(s, << code >>)
  /\ UNCHANGED <<owner, listening>>

Type(s) ==
  LET arg == IF Args(s) = << >> THEN "" ELSE Head(Args(s)) IN
  /\ Command(s, {"TYPE"})
  /\ Become(s, [Prompt(s) EXCEPT !.mode = IF arg = "A" THEN "other" ELSE "binary"])
  /\ Reply(s, IF arg \in {"A", "I"} THEN << 200 >> ELSE << 504 >>)
  /\ UNCHANGED <<owner, listening>>
-----------------------------------------------------------------------------
PortTakesAny(args) == TRUE     \* mutant: six numbers or not

(* command_port takes an address when its IP is that of data_addr, which   *)
(* getsockname has set to the server's own.                                *)
PortTakes(args) == args \in Own

PortReply(args) ==
  IF args \in Own THEN << 200 >>
  ELSE IF args \in Addresses THEN << 425 >> ELSE << 501 >>

Addressed(s) == IF PortTakes(Args(s)) THEN Args(s) ELSE sess[s].dest

(* Mutant: PORT leaves the data connection it finds. *)
PortKeeps(s) ==
  /\ Command(s, {"PORT"})
  /\ Become(s, [Prompt(s) EXCEPT !.fresh = FALSE, !.dest = Addressed(s)])
  /\ Reply(s, PortReply(Args(s)))
  /\ UNCHANGED <<owner, listening>>

Port(s) ==
  /\ Command(s, {"PORT"})
  /\ owner' = Close(owner, sess[s].data)
  /\ Become(s, [Prompt(s) EXCEPT !.data = NONE, !.fresh = FALSE,
                                 !.dest = Addressed(s)])
  /\ Reply(s, PortReply(Args(s)))
  /\ UNCHANGED listening

(* command_pasv up to its accept, when a call fails and when none does.    *)
PasvFails(s) ==
  /\ Command(s, {"PASV"})
  /\ owner' = Close(owner, sess[s].data)
  /\ Become(s, [Prompt(s) EXCEPT !.data = NONE, !.fresh = FALSE])
  /\ Reply(s, << 425 >>)
  /\ UNCHANGED listening

PasvListens(s) ==
  LET own == Close(owner, sess[s].data) IN
  /\ Command(s, {"PASV"}) /\ Free(own) # {}
  /\ owner' = Open(own, s)
  /\ Become(s, [At(s, "accept") EXCEPT !.data = NONE, !.fresh = FALSE,
                                       !.fd = NewFd(own)])
  /\ Reply(s, << 227 >>)
  /\ UNCHANGED listening

(* The accept: a connection, or nothing within the timeout. *)
PasvAccepts(s) ==
  /\ Is(s, "accept") /\ Free(owner) # {}
  /\ owner' = Close(Open(owner, s), sess[s].fd)
  /\ Become(s, [Prompt(s) EXCEPT !.data = NewFd(owner), !.fd = NONE, !.fresh = TRUE])
  /\ UNCHANGED <<listening, log>>

(* Mutant: the socket that was listened on stays open after a timeout. *)
PasvTimeoutLeaks(s) ==
  /\ Is(s, "accept")
  /\ Become(s, [Prompt(s) EXCEPT !.fd = NONE])
  /\ ReplyFault(s, << 425 >>, "accept")
  /\ UNCHANGED <<owner, listening>>

(* Mutant: no timeout on the socket. *)
PasvNoTimeout(s) == FALSE /\ PasvTimeoutLeaks(s)

PasvTimeout(s) ==
  /\ Is(s, "accept")
  /\ owner' = Close(owner, sess[s].fd)
  /\ Become(s, [Prompt(s) EXCEPT !.fd = NONE])
  /\ ReplyFault(s, << 425 >>, "accept")
  /\ UNCHANGED listening

-----------------------------------------------------------------------------
(* data_socket: the connection there is, or a new socket, which goes on    *)
(* its way to data_addr,                                                   *)
HasData(s, next) ==
  /\ sess[s].data # NONE
  /\ Become(s, At(s, next))
  /\ UNCHANGED owner

OpensSocket(s, wait) ==
  /\ sess[s].data = NONE /\ Free(owner) # {}
  /\ owner' = Open(owner, s)
  /\ Become(s, [At(s, wait) EXCEPT !.data = NewFd(owner), !.fresh = TRUE])

(* ... or none: socket fails; or setsockopt (which is not replied), bind   *)
(* or connect, and then the socket is closed again.                        *)
NoDataReplies == {<< 425 >>, << >>}
NoData(s, connect, wait, codes) ==
  \/ Is(s, connect) /\ sess[s].data = NONE /\ codes = << 425 >>
  \/ Is(s, wait) /\ codes \in NoDataReplies

(* command_retrieve *)
RetrRefused(s) ==
  /\ Command(s, {"RETR"}) /\ sess[s].mode # "binary"
  /\ Become(s, Prompt(s))
  /\ ReplyFault(s, << >>, "ascii")
  /\ UNCHANGED <<owner, listening>>

RetrNoFile(s) ==
  /\ Command(s, {"RETR"}) /\ sess[s].mode = "binary"
  /\ Become(s, Prompt(s))
  /\ Reply(s, << 550 >>)
  /\ UNCHANGED <<owner, listening>>

RetrOpens(s) ==
  /\ Command(s, {"RETR"}) /\ sess[s].mode = "binary" /\ Free(owner) # {}
  /\ owner' = Open(owner, s)
  /\ Become(s, [At(s, "retr connect") EXCEPT !.fd = NewFd(owner), !.sent = 0])
  /\ Reply(s, << 150 >>)
  /\ UNCHANGED listening

RetrConnect(s) ==
  /\ Is(s, "retr connect")
  /\ HasData(s, "retr send") \/ OpensSocket(s, "retr wait")
  /\ UNCHANGED <<listening, log>>

RetrConnected(s) ==
  /\ Is(s, "retr wait")
  /\ Become(s, At(s, "retr send"))
  /\ UNCHANGED <<owner, listening, log>>

(* Mutant: the socket that did not connect stays open. *)
RetrNoDataLeaks(s) ==
  \E codes \in NoDataReplies :
    /\ NoData(s, "retr connect", "retr wait", codes)
    /\ owner' = Close(owner, sess[s].fd)
    /\ Become(s, [Prompt(s) EXCEPT !.fd = NONE, !.data = NONE])
    /\ ReplyFault(s, codes \o << 451 >>, "data")
    /\ UNCHANGED listening

RetrNoData(s) ==
  \E codes \in NoDataReplies :
    /\ NoData(s, "retr connect", "retr wait", codes)
    /\ owner' = Close(Close(owner, sess[s].fd), sess[s].data)
    /\ Become(s, [Prompt(s) EXCEPT !.fd = NONE, !.data = NONE])
    /\ ReplyFault(s, codes \o << 451 >>, "data")
    /\ UNCHANGED listening

(* A block read from the file and sent. *)
RetrBlock(s) ==
  /\ Is(s, "retr send") /\ sess[s].sent < Blocks
  /\ Become(s, [sess[s] EXCEPT !.sent = @ + 1])
  /\ UNCHANGED <<owner, listening, log>>

RetrWholeLoose(n) == n >= 0   \* mutant: also when a send has failed

(* n is what the last read returned: 0 at the end of the file, more when a *)
(* send failed.                                                            *)
RetrWhole(n) == n = 0

RetrDone(s, n) ==
  /\ Is(s, "retr send")
  /\ n = 0 => sess[s].sent = Blocks
  /\ n = 1 => sess[s].sent < Blocks
  /\ owner' = Close(Close(owner, sess[s].fd), sess[s].data)
  /\ Become(s, [Prompt(s) EXCEPT !.fd = NONE, !.data = NONE])
  /\ Reply(s, IF RetrWhole(n) THEN << 226 >> ELSE << 451 >>)
  /\ UNCHANGED listening

-----------------------------------------------------------------------------
(* command_list, for LIST and NLST *)
ListBegins(s) ==
  /\ Command(s, {"LIST", "NLST"})
  /\ Become(s, [At(s, "list connect") EXCEPT !.ok = TRUE])
  /\ Reply(s, << 150 >>)
  /\ UNCHANGED <<owner, listening>>

ListConnect(s) ==
  /\ Is(s, "list connect")
  /\ HasData(s, "list open") \/ OpensSocket(s, "list wait")
  /\ UNCHANGED <<listening, log>>

ListConnected(s) ==
  /\ Is(s, "list wait")
  /\ Become(s, At(s, "list open"))
  /\ UNCHANGED <<owner, listening, log>>

ListNoData(s) ==
  \E codes \in NoDataReplies :
    /\ NoData(s, "list connect", "list wait", codes)
    /\ owner' = Close(owner, sess[s].data)
    /\ Become(s, [Prompt(s) EXCEPT !.data = NONE])
    /\ ReplyFault(s, codes, "data")
    /\ UNCHANGED listening

(* opendir fails: the command just returns. *)
ListNoDir(s) ==
  /\ Is(s, "list open")
  /\ Become(s, Prompt(s))
  /\ ReplyFault(s, << >>, "opendir")
  /\ UNCHANGED <<owner, listening>>

ListOpensDir(s) ==
  /\ Is(s, "list open") /\ Free(owner) # {}
  /\ owner' = Open(owner, s)
  /\ Become(s, [At(s, "list send") EXCEPT !.fd = NewFd(owner)])
  /\ UNCHANGED <<listening, log>>

(* send_dirline: a line that is too long or not sent makes the listing     *)
(* fail; no more lines are sent then, but the directory is read to its end.*)
ListEntry(s) ==
  /\ Is(s, "list send") /\ sess[s].ok
  /\ Become(s, [sess[s] EXCEPT !.ok = FALSE])
  /\ UNCHANGED <<owner, listening, log>>

(* Mutant: the data connection stays open. *)
ListEndKeeps(s, ok) ==
  /\ owner' = Close(owner, sess[s].fd)
  /\ Become(s, [Prompt(s) EXCEPT !.fd = NONE])
  /\ Reply(s, IF ok THEN << 226 >> ELSE << 426 >>)

ListEnd(s, ok) ==
  /\ owner' = Close(Close(owner, sess[s].fd), sess[s].data)
  /\ Become(s, [Prompt(s) EXCEPT !.fd = NONE, !.data = NONE])
  /\ Reply(s, IF ok THEN << 226 >> ELSE << 426 >>)

(* A directory has been read, or the name is that of a file, whose line is *)
(* sent or not, or of nothing.                                             *)
ListDone(s) ==
  /\ \/ Is(s, "list send") /\ ListEnd(s, sess[s].ok)
     \/ Is(s, "list open") /\ \E ok \in BOOLEAN : ListEnd(s, ok)
  /\ UNCHANGED listening

-----------------------------------------------------------------------------
(* The steps of a session's thread, those that may wait for ever for the   *)
(* client (to connect, or to read what is sent) apart from the others.     *)
Working(s) ==
  \/ Quit(s) \/ Closing(s) \/ Simple(s) \/ Type(s) \/ Port(s)
  \/ PasvFails(s) \/ PasvListens(s) \/ PasvTimeout(s)
  \/ RetrRefused(s) \/ RetrNoFile(s) \/ RetrOpens(s)
  \/ RetrConnect(s) \/ RetrConnected(s) \/ RetrNoData(s)
  \/ ListBegins(s) \/ ListConnect(s) \/ ListConnected(s) \/ ListNoData(s)

WithClient(s) ==
  \/ PasvAccepts(s)
  \/ RetrBlock(s) \/ (\E n \in {-1, 0, 1} : RetrDone(s, n))
  \/ ListNoDir(s) \/ ListOpensDir(s) \/ ListEntry(s) \/ ListDone(s)

Next ==
  \/ Start
  \/ \E s \in Sessions :
       \/ Accepted(s) \/ AcceptLost(s)
       \/ \E line \in Lines[s] : GetLine(s, line)
       \/ GetClosed(s) \/ GetError(s)
       \/ Working(s) \/ WithClient(s)

(* A thread goes on unless it waits for its client: an accept ends with    *)
(* its timeout, connect with a success or an error.  Nobody has to         *)
(* connect, to send a command or to read, and a data connection has no     *)
(* timeout for its sends.                                                  *)
Fairness == \A s \in Sessions : WF_vars(Working(s))

Spec == Init /\ [][Next]_vars /\ Fairness

-----------------------------------------------------------------------------
Held(s) == {sess[s].ctrl, sess[s].data, sess[s].fd} \ {NONE}
Resting == {"new", "prompt", "ended", "lost"}

(* The types: among them, that a session's address for its data is one a   *)
(* PORT command can say (dest NONE is data_addr as getsockname filled it), *)
(* and that no command gets more than two final replies.                   *)
TypeOK ==
  /\ owner \in [Descriptors -> Sessions \union {NONE, SERVER, LOST}]
  /\ listening \in {"start", "listen", "returned"}
  /\ \A s \in Sessions :
       /\ {sess[s].ctrl, sess[s].data, sess[s].fd} \subseteq Descriptors \union {NONE}
       /\ sess[s].dest \in Addresses \union {NONE}
       /\ sess[s].sent \in 0 .. Blocks /\ sess[s].left \in 0 .. MaxLines[s]
       /\ sess[s].mode \in {"binary", "other"}
       /\ {sess[s].fresh, sess[s].ok} \subseteq BOOLEAN
       /\ log[s].finals \in 0 .. 2

(* Whatever a session has opened it still knows, and what it knows is      *)
(* still its own: on no path of a command is a listening socket, a data    *)
(* connection, a socket that does not connect or a file left open or       *)
(* closed twice (a second close would hit what another session has opened  *)
(* since), and a session that has ended has nothing open.                  *)
NoOrphans ==
  \A s \in Sessions :
    /\ {d \in Descriptors : owner[d] = s} = Held(s)
    /\ sess[s].at = "prompt" => sess[s].fd = NONE
    /\ sess[s].at = "ended" => Held(s) = {}

(* A command is answered by exactly one final reply, and the data          *)
(* connection of a transfer that was announced is closed when the session  *)
(* asks for the next command.  The cases where the code does not keep this *)
(* are those ReplyFault marks: RETR in ASCII mode and a directory that     *)
(* cannot be opened (no final reply), a failed data connection (two, or    *)
(* none), a PASV that nobody connects to (227, then 425).                  *)
Answered ==
  \A s \in Sessions :
    sess[s].at = "prompt" /\ log[s].fault = "no" =>
      /\ log[s].finals = 1
      /\ log[s].begun => sess[s].data = NONE

(* "Transfer complete" is said of a file only when all of it was sent. *)
SentWhole ==
  \A s \in Sessions :
    log[s].complete /\ Split(sess[s].line).cmd = "RETR" => sess[s].sent = Blocks

(* A transfer uses a data connection that was made after the latest PASV   *)
(* or PORT command (that made fresh FALSE), never an older one that went   *)
(* somewhere else.                                                         *)
FreshData ==
  \A s \in Sessions : sess[s].at \in {"retr send", "list open", "list send"} =>
                       sess[s].fresh

(* Every command ends, PASV without a client that connects included: the   *)
(* session gets back to its prompt or is over, unless it is sending to a   *)
(* client that does not read.                                              *)
Sending == {"retr send", "list open", "list send"}

CommandEnds ==
  \A s \in Sessions :
    ~(sess[s].at \in Resting) ~> (sess[s].at \in Resting \union Sending)
=============================================================================
