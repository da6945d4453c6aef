------------------------------ MODULE FtpLine ------------------------------
(***************************************************************************)
(* src/bscl_ftpd.c: what recv_line, split_command and skip_options make of *)
(* a command line.  A line is the sequence of its words; the white space   *)
(* between them, of any length, is left out.                               *)
(***************************************************************************)
EXTENDS Integers, Sequences

CONSTANTS Upper(_),     \* toupper over a word
          Options,      \* the words that begin with '-', but for "--"
          EndOptions    \* "--"

(* skip_options: the words from the first that is no option, or from the   *)
(* one after "--".                                                         *)
SkipOptions(words) ==
  LET skipped == {n \in 0 .. Len(words) : \A i \in 1 .. n : words[i] \in Options}
      n == CHOOSE m \in skipped : \A k \in skipped : k <= m
      end == IF n < Len(words) /\ words[n + 1] = EndOptions THEN n + 1 ELSE n
  IN  SubSeq(words, end + 1, Len(words))

(* split_command: the first word, in capitals, and what follows the        *)
(* options.  Nothing is left of an empty line but an empty command.        *)
Split(line) ==
  IF line = << >> THEN [cmd |-> "", args |-> << >>]
  ELSE [cmd |-> Upper(Head(line)), args |-> SkipOptions(Tail(line))]

(* What is in the buffer when recv_line has taken a closed connection for  *)
(* a line: recv stores nothing, so the characters of the line before are   *)
(* still there, up to its '\n'; split_command has put a '\0' behind its    *)
(* first word, where the second split_command stops.                       *)
StaleLine(line) == IF line = << >> THEN << >> ELSE << Upper(Head(line)) >>
=============================================================================
