--------------------------------- MODULE Shell ---------------------------------
(***************************************************************************)
(* How the debug shell finds and calls a command (tshell/tshell.c and      *)
(* tshell_args_parser.c).  Commands form a tree; a line is a sequence of   *)
(* words, and the commands are named by their paths.  The shell keeps the  *)
(* entry to execute in its context, from one line to the next.  Editing    *)
(* the line, and printing, are left out.                                   *)
(***************************************************************************)
EXTENDS Integers, Sequences

CONSTANTS
    Words,     \* the words of the lines
    Tree,      \* the paths of the commands
    Handlers,  \* those that have a handler,
    Helped,    \* a help text,
    Numeric,   \* or a handler that takes one number (SHELL_CMD_PARSED_TYPE_FN)
    Numbers,   \* the words that are numbers within its bounds
    ArgcMax    \* CONFIG_SHELL_ARGC_MAX

HelpWord == "-h"

ASSUME ShellAssumption ==
    /\ Tree \subseteq Seq(Words) \ {<<>>}
    /\ \A p \in Tree : \A k \in 1..Len(p) : SubSeq(p, 1, k) \in Tree
    /\ Helped \subseteq Tree /\ Numeric \subseteq Handlers /\ Handlers \subseteq Tree
    /\ Numbers \subseteq Words /\ ArgcMax \in Nat \ {0}

VARIABLES
    active,   \* active_cmd, or none
    line,     \* the line that was entered, or none while the prompt is shown
    open,     \* its last word is not terminated
    called    \* the handler it called, and with which arguments

shell == <<active, line, open, called>>

NoCommand == <<>>
ShellCall == [handler : Tree \cup {NoCommand}, argv : UNION {[1..n -> Words] : n \in 0..ArgcMax}]
NoCall == [handler |-> NoCommand, argv |-> <<>>]

ShellTypeOK == active \in Tree \cup {NoCommand} /\ called \in ShellCall /\ open \in BOOLEAN

ShellInit == active = NoCommand /\ line = <<>> /\ open = FALSE /\ called = NoCall
-----------------------------------------------------------------------------
(* shell_execute: the loop over the words.                                 *)

NoWordYet(a) == [parent |-> <<>>, lost |-> FALSE, level |-> 0, active |-> a, handlerLevel |-> 0, help |-> NoCommand, helped |-> FALSE]

\* t_shell_find_cmd, skipped once a word was not found (mutant: it is not).
SearchOn(s, w) == Append(s.parent, w) \in Tree
Search(s, w) == ~s.lost /\ Append(s.parent, w) \in Tree

\* active_cmd_prepare
Prepared(s, path) ==
    [s EXCEPT !.parent = path, !.level = @ + 1,
              !.active = IF path \in Handlers THEN path ELSE @,
              !.handlerLevel = IF path \in Handlers THEN s.level ELSE @,
              !.help = IF path \in Helped THEN path ELSE @]

Word(s, w) ==
    IF s.helped THEN s
    ELSE IF s.level > 0 /\ w = HelpWord /\ s.help # NoCommand THEN [s EXCEPT !.helped = TRUE, !.active = s.help]
    ELSE IF Search(s, w) THEN Prepared(s, Append(s.parent, w))
    ELSE [s EXCEPT !.lost = TRUE, !.level = @ + 1]

\* At most ArgcMax words are looked at; an open quote stops at the last word.
LookedAt(ws, unterminated) ==
    IF Len(ws) > ArgcMax THEN ArgcMax ELSE IF unterminated THEN Len(ws) - 1 ELSE Len(ws)

\* The loop over the first n words of a line.
AfterWords(a, ws, n) ==
    LET look[i \in 0..n] == IF i = 0 THEN NoWordYet(a) ELSE Word(look[i - 1], ws[i]) IN look

Looked(ws, unterminated) ==
    LET n == LookedAt(ws, unterminated) IN AfterWords(active, ws, n)[n]

\* The handler of a number is not run for a word that is none, or out of its bounds.
Accepts(path, argv) == path \in Numeric => Len(argv) >= 2 /\ argv[2] \in Numbers

\* exec_cmd; without a handler the entry with the help text takes its place.
Execute(s, ws) ==
    LET argv == SubSeq(ws, s.handlerLevel + 1, s.level) IN
    IF s.active \in Handlers
    THEN /\ called' = IF Accepts(s.active, argv) THEN [handler |-> s.active, argv |-> argv] ELSE NoCall
         /\ active' = s.active
    ELSE called' = NoCall /\ active' = IF s.help # NoCommand THEN s.help ELSE s.active

GivenUp(s, ws) == s.helped \/ Len(ws) > ArgcMax

\* The end of a line in tshell_process_char.
Enter ==
    /\ line = <<>>
    /\ \E n \in 1..ArgcMax + 1 : line' \in [1..n -> Words]
    /\ open' \in BOOLEAN
    /\ LET s == Looked(line', open') IN
       IF GivenUp(s, line') \/ open' THEN active' = s.active /\ called' = NoCall ELSE Execute(s, line')

Prompt == line # <<>> /\ line' = <<>> /\ open' = FALSE /\ called' = NoCall /\ UNCHANGED active

ShellNext == Enter \/ Prompt
ShellSpec == ShellInit /\ [][ShellNext]_shell
-----------------------------------------------------------------------------
PathsIn(ws) == {k \in 1..Len(ws) : SubSeq(ws, 1, k) \in Tree}
Named(ws) == {k \in PathsIn(ws) : SubSeq(ws, 1, k) \in Handlers}
Calls(ws) == Len(ws) <= ArgcMax /\ ~open /\ \A i \in 2..Len(ws) : ws[i] # HelpWord

(* A line that names a command calls the deepest one it names, with the     *)
(* words after it as its arguments, whatever was called before: the words   *)
(* are looked up one by one, and the search must not resume after a word    *)
(* that is no command.                                                      *)
DeepestIsCalled ==
    line # <<>> /\ Calls(line) =>
        \A k \in Named(line) : (\A j \in Named(line) : j <= k) =>
           LET path == SubSeq(line, 1, k)
               argv == SubSeq(line, k, Len(line))
           IN called = IF Accepts(path, argv) THEN [handler |-> path, argv |-> argv] ELSE NoCall

(* "Executing the deepest found handler" (tshell.c:527): a handler is called *)
(* only if the line names its command.                                      *)
CalledIsNamed == called # NoCall => \E k \in Named(line) : SubSeq(line, 1, k) = called.handler
=============================================================================
