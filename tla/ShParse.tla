------------------------------- MODULE ShParse -------------------------------
(* The parser of src/user/sh.c.  A line is a sequence of the tokens gettoken()
   finds: symbols, and words.  The functions take the line and a position and
   return a command, the position after it, and what panic() was called with.
   argv[] and file hold the positions of words until nulterminate() has cut the
   words out of the line.                                                   *)
EXTENDS Naturals, Sequences

CONSTANTS MAXARGS     \* slots of argv[] and eargv[]

Symbols == {"<", ">", ">>", "|", "&", ";", "(", ")"}

execcmd(argv)                  == [type |-> "EXEC", argv |-> argv]
redircmd(subcmd, file, mode, fd) ==
  [type |-> "REDIR", cmd |-> subcmd, file |-> file, mode |-> mode, fd |-> fd]
pipecmd(left, right)           == [type |-> "PIPE", left |-> left, right |-> right]
listcmd(left, right)           == [type |-> "LIST", left |-> left, right |-> right]
backcmd(subcmd)                == [type |-> "BACK", cmd |-> subcmd]

(* The token at i, "" at the end of the line; peek().                       *)
gettoken(s, i)    == IF i > Len(s) THEN "" ELSE s[i]
peek(s, i, toks)  == gettoken(s, i) \in toks
Word(tok)         == tok # "" /\ tok \notin Symbols

Parsed(cmd, i)    == [cmd |-> cmd, i |-> i, panic |-> ""]
Panics(msg)       == [cmd |-> execcmd(<<>>), i |-> 1, panic |-> msg]

(* One redirection, of a command r that has been parsed up to it.           *)
Redirected(s, r, tok) ==
  IF ~Word(gettoken(s, r.i + 1)) THEN Panics("missing file for redirection")
  ELSE Parsed(CASE tok = "<"  -> redircmd(r.cmd, r.i + 1, "r", 0)
                [] tok = ">"  -> redircmd(r.cmd, r.i + 1, "create|trunc", 1)
                [] tok = ">>" -> redircmd(r.cmd, r.i + 1, "create", 1),
              r.i + 2)

RECURSIVE parseredirs(_, _)
parseredirs(s, r) ==
  IF r.panic # "" \/ ~peek(s, r.i, {"<", ">", ">>"}) THEN r
  ELSE parseredirs(s, Redirected(s, r, gettoken(s, r.i)))

(* cmd->argv[argc] = q: the EXEC command is below its redirections.         *)
RECURSIVE AddArg(_, _)
AddArg(cmd, q) ==
  IF cmd.type = "REDIR" THEN [cmd EXCEPT !.cmd = AddArg(@, q)]
  ELSE execcmd(Append(cmd.argv, q))

(* The loop of parseexec() over arguments, argc of them so far.             *)
RECURSIVE Args(_, _, _)
Args(s, r, argc) ==
  IF r.panic # "" \/ peek(s, r.i, {"|", ")", "&", ";", ""}) THEN r
  ELSE IF ~Word(gettoken(s, r.i)) THEN Panics("syntax")
  ELSE IF argc + 1 >= MAXARGS THEN Panics("too many args")
  ELSE Args(s, parseredirs(s, Parsed(AddArg(r.cmd, r.i), r.i + 1)), argc + 1)

(* The end of parseblock(): the parenthesis and the redirections after it.  *)
Closed(s, r) ==
  IF r.panic # "" THEN r
  ELSE IF ~peek(s, r.i, {")"}) THEN Panics("syntax - missing )")
  ELSE parseredirs(s, Parsed(r.cmd, r.i + 1))

RECURSIVE parseline(_, _), parsepipe(_, _), Piped(_, _), Listed(_, _), Backs(_, _)

parseexec(s, i) ==
  IF peek(s, i, {"("}) THEN Closed(s, parseline(s, i + 1))
  ELSE Args(s, parseredirs(s, Parsed(execcmd(<<>>), i)), 0)

(* A command with what follows it in a pipe, as a list, in the background.  *)
Join(r, q, cmd) == IF q.panic # "" THEN q ELSE Parsed(cmd, q.i)

Piped(s, r) ==
  IF r.panic # "" \/ ~peek(s, r.i, {"|"}) THEN r
  ELSE LET q == parsepipe(s, r.i + 1) IN Join(r, q, pipecmd(r.cmd, q.cmd))

parsepipe(s, i) == Piped(s, parseexec(s, i))

Backs(s, r) ==
  IF r.panic # "" \/ ~peek(s, r.i, {"&"}) THEN r
  ELSE Backs(s, Parsed(backcmd(r.cmd), r.i + 1))

Listed(s, r) ==
  IF r.panic # "" \/ ~peek(s, r.i, {";"}) THEN r
  ELSE LET q == parseline(s, r.i + 1) IN Join(r, q, listcmd(r.cmd, q.cmd))

parseline(s, i) == Listed(s, Backs(s, parsepipe(s, i)))

(* A position becomes the word there.                                       *)
RECURSIVE nulterminate(_, _)
nulterminate(s, cmd) ==
  CASE cmd.type = "EXEC"           -> execcmd([k \in DOMAIN cmd.argv |-> s[cmd.argv[k]]])
    [] cmd.type = "REDIR"          -> [cmd EXCEPT !.cmd = nulterminate(s, @), !.file = s[@]]
    [] cmd.type \in {"PIPE", "LIST"} -> [cmd EXCEPT !.left = nulterminate(s, @),
                                                   !.right = nulterminate(s, @)]
    [] cmd.type = "BACK"           -> [cmd EXCEPT !.cmd = nulterminate(s, @)]

(* parsecmd(): nothing may be left over.                                    *)
Finished(s, r) ==
  IF r.panic # "" THEN r
  ELSE IF r.i <= Len(s) THEN Panics("syntax")
  ELSE Parsed(nulterminate(s, r.cmd), r.i)

parsecmd(s) == Finished(s, parseline(s, 1))

-----------------------------------------------------------------------------
(* The reference: how a command is written, with parentheses where the grammar
   needs them.                                                              *)
RECURSIVE Simple(_)
Simple(t) == t.type = "EXEC" \/ (t.type = "REDIR" /\ Simple(t.cmd))

Symbol(mode) == CASE mode = "r" -> "<" [] mode = "create" -> ">>" [] OTHER -> ">"

RECURSIVE Written(_)
Block(t) == IF Simple(t) \/ t.type = "REDIR" THEN Written(t) ELSE <<"(">> \o Written(t) \o <<")">>

Written(t) ==
  CASE t.type = "EXEC"  -> t.argv
    [] t.type = "REDIR" -> Block(t.cmd) \o <<Symbol(t.mode), t.file>>
    [] t.type = "PIPE"  -> Block(t.left) \o <<"|">>
                             \o (IF t.right.type = "PIPE" THEN Written(t.right) ELSE Block(t.right))
    [] t.type = "BACK"  -> (IF t.cmd.type = "LIST" THEN Block(t.cmd) ELSE Written(t.cmd)) \o <<"&">>
    [] t.type = "LIST"  -> (IF t.left.type = "LIST" THEN Block(t.left) ELSE Written(t.left))
                             \o <<";">> \o Written(t.right)

(* Parsing undoes writing.                                                 *)
ParsesBack(t) == parsecmd(Written(t)) = Parsed(t, Len(Written(t)) + 1)
=============================================================================
