------------------------------- MODULE Getopt -------------------------------
(***************************************************************************)
(* src/bscl_getopt.c: the words of a command line are sorted into options  *)
(* and their arguments, and then handed out by two cursors, one over the   *)
(* options and one over the arguments of each.                             *)
(***************************************************************************)
EXTENDS Integers, Sequences, SequencesExt, FiniteSets, Places

CONSTANTS
  Paterns,     \* the options the program knows
  Plain,       \* the one without a letter, which takes the arguments before any other
  Args,
  MaxWords,    \* bound: the words of the command line
  NONE, JUNK   \* no such thing; memory that is no argument or option

(* What Library assumes of the constants *)
GetoptAssumption ==
  /\ {NONE, JUNK} \intersect (Paterns \union Args) = {} /\ NONE # JUNK
  /\ Plain \in Paterns \union {NONE} /\ MaxWords \in Nat

(* A word names a patern, gives an argument, or does both (-oARG); one    *)
(* that does neither is empty, a dash, or a name the program does not know. *)
Words == [patern : Paterns \union {NONE}, arg : Args \union {NONE}]

VARIABLES
  ctx,         \* [options, current, phase]; an option is [patern, args, next]
  past         \* history: [words, given]

vars == <<ctx, past>>

(* bscl_getopt_new; current is the index of an option or 0. *)
Init ==
  /\ ctx = [options |-> << >>, current |-> 0, phase |-> "parse"]
  /\ past = [words |-> << >>, given |-> << >>]

(* The patern of a word, NONE when there is none *)
PaternOf(c, w) ==
  IF w.patern # NONE THEN w.patern
  ELSE IF w.arg = NONE THEN NONE
  ELSE IF c.current # 0 THEN c.options[c.current].patern ELSE Plain

(* find_option *)
FindOption(options, p) == SelectInSeq(options, LAMBDA option : option.patern = p)

(* option_new *)
OptionNew(p) == [patern |-> p, args |-> << >>, next |-> 0]

ParsedNew(c, w) ==     \* mutant: an option for every word
  LET options == Append(c.options, OptionNew(PaternOf(c, w)))
      i == Len(options)
  IN  [c EXCEPT !.current = i,
         !.options = IF w.arg = NONE THEN options
                     ELSE [options EXCEPT ![i].args = Append(@, w.arg)]]

(* What bscl_getopt_parse_next does with a word it takes. *)
Parsed(c, w) ==
  LET p == PaternOf(c, w)
      found == FindOption(c.options, p)
      options == IF found # 0 THEN c.options ELSE Append(c.options, OptionNew(p))
      i == IF found # 0 THEN found ELSE Len(options)
  IN  [c EXCEPT !.current = i,
         !.options = IF w.arg = NONE THEN options
                     ELSE [options EXCEPT ![i].args = Append(@, w.arg)]]

(* bscl_getopt_parse, one round of its loop; a word it cannot take ends it *)
(* and leaves the current option where it was.                             *)
ParseNext(w) ==
  /\ ctx.phase = "parse" /\ Len(past.words) < MaxWords
  /\ past' = [past EXCEPT !.words = Append(@, w)]
  /\ ctx' = IF PaternOf(ctx, w) = NONE THEN [ctx EXCEPT !.phase = "failed"]
            ELSE Parsed(ctx, w)

(* bscl_getopt_parse_end *)
ParseEnd ==
  /\ ctx.phase = "parse"
  /\ ctx' = [ctx EXCEPT !.current = 0, !.phase = "parsed"]
  /\ UNCHANGED past

-----------------------------------------------------------------------------
(* The program asks for the arguments of an option until there are no more *)
(* and then for the next option.                                           *)
ArgsLeft ==
  /\ ctx.current # 0
  /\ \/ ctx.options[ctx.current].next # 0
     \/ past.given[ctx.current].args = << >>

(* bscl_getopt_next_option.  When there are no options the first entry of  *)
(* the list is its head, which is given out as an option; after the last   *)
(* one the cursor is where it began, and here the program stops.           *)
NextOption ==
  LET i == ctx.current
      n == Len(ctx.options)
  IN
  /\ ctx.phase = "parsed" /\ ~ArgsLeft
  /\ IF n = 0
     THEN /\ ctx' = [ctx EXCEPT !.phase = "ended"]
          /\ past' = [past EXCEPT !.given = << [patern |-> JUNK, args |-> << >>] >>]
     ELSE IF i = n THEN ctx' = [ctx EXCEPT !.current = 0, !.phase = "ended"] /\ UNCHANGED past
     ELSE /\ ctx' = [ctx EXCEPT !.current = i + 1]
          /\ past' = [past EXCEPT !.given =
                        Append(@, [patern |-> ctx.options[i + 1].patern, args |-> << >>])]

(* bscl_getopt_option_next_arg, on the option given out last, until it has *)
(* no more.  An option without arguments gives what lies behind its list   *)
(* first.                                                                  *)
NextArg ==
  LET i == ctx.current
      option == ctx.options[i]
      n == Len(option.args)
      give == IF n = 0 THEN JUNK ELSE option.args[option.next + 1]
  IN
  /\ ctx.phase = "parsed" /\ ArgsLeft
  /\ IF option.next = (IF n = 0 THEN 1 ELSE n)
     THEN ctx' = [ctx EXCEPT !.options[i].next = 0] /\ UNCHANGED past
     ELSE /\ ctx' = [ctx EXCEPT !.options[i].next = @ + 1]
          /\ past' = [past EXCEPT !.given[i].args = Append(@, give)]

Next == (\E w \in Words : ParseNext(w)) \/ ParseEnd \/ NextOption \/ NextArg

Spec == Init /\ [][Next]_vars

-----------------------------------------------------------------------------
(* The patern each word of the command line is about, from the words alone *)
Named == {i \in DOMAIN past.words : past.words[i].patern # NONE}
About(i) ==
  LET named == {j \in Named : j <= i} IN
  IF named = {} THEN Plain ELSE past.words[CHOOSE j \in named : \A k \in named : k <= j].patern

ArgsOf(p) ==
  LET mine == InOrder({i \in DOMAIN past.words : About(i) = p /\ past.words[i].arg # NONE})
  IN  [n \in DOMAIN mine |-> past.words[mine[n]].arg]

(* The paterns in the order of the first word about each *)
Firsts == InOrder({i \in DOMAIN past.words : \A j \in 1 .. i - 1 : About(j) # About(i)})

Expected == [n \in DOMAIN Firsts |->
               [patern |-> About(Firsts[n]), args |-> ArgsOf(About(Firsts[n]))]]

(* After a parse that succeeded, the cursors give every option that was on *)
(* the command line once, in the order they came, each with all arguments  *)
(* that followed it anywhere; junk comes only in the place of what is not  *)
(* there at all, the arguments of an option that has none and the options  *)
(* of a command line that has none.                                        *)
CommandLine ==
  ctx.phase = "ended" =>
    past.given = IF past.words = << >> THEN << [patern |-> JUNK, args |-> << >>] >>
                 ELSE [n \in DOMAIN Expected |->
                         IF Expected[n].args # << >> THEN Expected[n]
                         ELSE [Expected[n] EXCEPT !.args = <<JUNK>>]]
=============================================================================
