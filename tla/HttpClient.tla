----------------------------- MODULE HttpClient -----------------------------
(***************************************************************************)
(* src/bscl_http.c: a request, and the answer read piece by piece into a   *)
(* buffer from which the head is parsed.  A position is counted from the   *)
(* begin of the answer, which is also the begin of the buffer until the    *)
(* head is complete.                                                       *)
(***************************************************************************)
EXTENDS Integers, Sequences

CONSTANTS
  Answers,     \* [lines, body, extra]: the lines of the head, each [size, length, type],
               \* length telling the one with Content-Length, type the characters of a
               \* Content-Type's value; the bytes of the body, and after it
  Prefix,      \* the size of "HTTP/"
  TypeSize,    \* the size of the array a Content-Type's value is copied into
  BufSize      \* BSCL_HTTP_BUF_SIZE

(* What Library assumes of the constants *)
HttpAssumption ==
  /\ Prefix \in Nat /\ Prefix > 1 /\ TypeSize \in Nat /\ BufSize \in Nat
  /\ \A a \in Answers :
       /\ a.lines \in Seq([size : Nat, length : BOOLEAN, type : Nat])
       /\ a.body \in Nat /\ a.extra \in Nat
       /\ a.lines # << >> /\ a.lines[1].size >= Prefix + 2
       /\ \A i \in DOMAIN a.lines : a.lines[i].size > 2

VARIABLES
  client,      \* [phase, recv, parse, length, head, got]
  sent         \* [answer, seen, stale, old]: what the server sends, how much was received
               \* when the parser last began with the answer's first byte, whether the
               \* caller's response said that the head is complete already, and how many
               \* bytes must come until the buffer begins with "HTTP/": the rest may be
               \* there from an earlier request

vars == <<client, sent>>

(* The begin of a line; the empty one that ends the head comes after the   *)
(* others.                                                                 *)
LineAt(k) ==
  LET at[i \in 0 .. k] == IF i = 0 THEN 0 ELSE at[i - 1] + sent.answer.lines[i].size
  IN  at[k]

Lines == Len(sent.answer.lines)
HeadSize == LineAt(Lines) + 2
Total == HeadSize + sent.answer.body + sent.answer.extra

(* The request is written; what the writes return is not looked at, and    *)
(* the response is as the caller has left it.                              *)
Init ==
  \E a \in Answers, stale \in BOOLEAN, old \in 1 .. Prefix :
    /\ sent = [answer |-> a, seen |-> 0, stale |-> stale, old |-> old]
    /\ client = [phase |-> "head", recv |-> 0, parse |-> 0, length |-> -1,
                 head |-> stale, got |-> 0]

ParsedWhole(c, recv) ==     \* mutant: an end is seen at the end of every line
  LET k == CHOOSE i \in 0 .. Lines : LineAt(i) <= recv /\ (i = Lines \/ LineAt(i + 1) > recv) IN
  [c EXCEPT !.recv = recv, !.parse = LineAt(k) + 2, !.head = TRUE,
            !.length = sent.answer.body]

(* bscl_http_parser_header, from the position it is called with: the       *)
(* buffer has to hold "HTTP/" there each time, received or not, or the     *)
(* position is moved back by the -1 that is returned; it is not there      *)
(* again before the begin, where the descriptor stands, nor at a later     *)
(* line.  A line is taken when it is there with its end, and the value of  *)
(* a Content-Type is copied whatever its size; where there are less than   *)
(* two characters to look at, the head ends.                               *)
Parsed(c, recv) ==
  LET whole == {k \in 0 .. Lines : LineAt(k) <= recv /\ \A j \in 0 .. k - 1 : recv - LineAt(j) >= 2}
      k == CHOOSE i \in whole : \A j \in whole : j <= i
      ends == k = Lines \/ recv - LineAt(k) < 2
      length == \E i \in 1 .. k : sent.answer.lines[i].length
  IN
  IF c.parse # 0 \/ recv < sent.old
  THEN [c EXCEPT !.recv = recv, !.parse = @ - 1, !.length = -1]
  ELSE IF \E i \in 1 .. k : sent.answer.lines[i].type >= TypeSize
  THEN [c EXCEPT !.recv = recv, !.phase = "type_overrun"]
  ELSE [c EXCEPT !.recv = recv,
                 !.parse = IF ends THEN LineAt(k) + 2 ELSE LineAt(k),
                 !.head = @ \/ ends,
                 !.length = IF length THEN sent.answer.body ELSE -1]

(* bscl_http_client_request: a read into the rest of the buffer, and the   *)
(* parser's turn, *)
ReadHead(n) ==
  LET recv == client.recv + n IN
  /\ client.phase = "head" /\ recv <= BufSize /\ recv <= Total
  /\ LET c == Parsed(client, recv) IN
     client' = [c EXCEPT !.phase = IF @ = "type_overrun" THEN @
                                   ELSE IF ~c.head THEN "head"
                                   ELSE IF c.length > 0 THEN "body" ELSE "done"]
  /\ sent' = [sent EXCEPT !.seen = IF client.parse = 0 THEN recv ELSE @]

(* until the buffer is full, the connection ends, or the head is complete. *)
GiveUp ==
  /\ client.phase = "head"
  /\ client' = [client EXCEPT !.phase = "given_up"]
  /\ UNCHANGED sent

(* The begin of the body is behind the head in the buffer, unless the      *)
(* parser went further than what was received: the size is then huge.      *)
CopyBody ==
  LET len == client.recv - client.parse IN
  /\ client.phase = "body"
  /\ client' = [client EXCEPT !.phase = IF len < 0 \/ len > client.length THEN "overrun"
                                        ELSE IF len = client.length THEN "done" ELSE "rest",
                              !.got = IF len < 0 THEN 0 ELSE len]
  /\ UNCHANGED sent

(* The rest, as much as comes *)
ReadBody(n) ==
  /\ client.phase = "rest" /\ n <= BufSize /\ client.parse + client.got + n <= Total
  /\ client' = [client EXCEPT !.got = @ + n,
                              !.phase = IF client.got + n > client.length THEN "overrun"
                                        ELSE IF client.got + n = client.length THEN "done"
                                        ELSE "rest"]
  /\ UNCHANGED sent

Closed ==
  /\ client.phase = "rest"
  /\ client' = [client EXCEPT !.phase = "cut"]
  /\ UNCHANGED sent

Next ==
  \/ \E n \in 1 .. BufSize : ReadHead(n) \/ ReadBody(n)
  \/ GiveUp \/ CopyBody \/ Closed

Spec == Init /\ [][Next]_vars

-----------------------------------------------------------------------------
(* The end of a line is taken for the end of the head: what was received   *)
(* ends there or one character later, or it is one character, in front of  *)
(* what an earlier answer has left of "HTTP/".                             *)
FalseEnd ==
  \/ \E k \in 1 .. Lines : sent.seen - LineAt(k) \in {0, 1}
  \/ sent.seen = 1 /\ sent.old <= 1

(* When the response was clean: no byte of the head is ever taken into the *)
(* contents, not even where the end of a line was taken for the head's.    *)
(* Where it was not, the request succeeds only when the parser had the     *)
(* whole head before it, from the first byte, and every Content-Type fits. *)
(* The contents then begin with the first byte of the body, and are all of *)
(* it if the head says how long it is; only a server that sends more       *)
(* overruns them.                                                          *)
AnswerRead ==
  ~sent.stale =>
    /\ client.got > 0 \/ client.phase \in {"rest", "cut"} => client.parse = HeadSize
    /\ ~FalseEnd =>
         /\ client.phase \in {"body", "rest", "done", "cut", "overrun"} =>
              /\ client.parse = HeadSize /\ sent.seen >= HeadSize
              /\ \A i \in 1 .. Lines : sent.answer.lines[i].type < TypeSize
         /\ client.phase = "done" =>
              client.got = IF \E i \in 1 .. Lines : sent.answer.lines[i].length
                           THEN sent.answer.body ELSE 0
         /\ client.phase = "overrun" => sent.answer.extra > 0
         /\ client.phase = "type_overrun" =>
              \E i \in 1 .. Lines : sent.answer.lines[i].type >= TypeSize
=============================================================================
