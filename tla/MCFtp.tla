------------------------------- MODULE MCFtp -------------------------------
EXTENDS FtpSession

CONSTANTS s1, s2

MCUpper(w) == CASE w = "list" -> "LIST" [] w = "site" -> "SITE" [] OTHER -> w

MCOptions == {"-l"}
MCAddresses == {<< "own" >>, << "peer" >>}
MCOwn == {<< "own" >>}

(* Every command once, with the arguments that tell its branches apart. *)
Menu ==
  {<< "QUIT" >>, << "NOOP" >>, << >>, << "SYST" >>, << "USER", "u" >>,
   << "STOR", "f" >>, << "SIZE", "f" >>, << "DELE", "f" >>, << "CWD", "d" >>,
   << "PWD" >>, << "site", "CHMOD" >>, << "site", "-l", "--", "CHMOD" >>,
   << "TYPE", "A" >>, << "TYPE", "I" >>, << "TYPE" >>,
   << "PORT", "own" >>, << "PORT", "peer" >>, << "PORT", "bad" >>,
   << "PASV" >>, << "RETR", "f" >>, << "list", "-l" >>, << "NLST" >>}

(* The first client sends three lines; the second connects and hangs up,   *)
(* and its descriptor is there to be closed by mistake.                    *)
MCLines == [s \in Sessions |-> IF s = s1 THEN Menu ELSE {}]
MCMaxLines == [s \in Sessions |-> IF s = s1 THEN 3 ELSE 0]
=============================================================================
