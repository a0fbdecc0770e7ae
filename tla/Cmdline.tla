------------------------------ MODULE Cmdline ------------------------------
(***************************************************************************)
(* cmdline.c at the level of characters: what conn_receive puts into       *)
(* pipe_stdin, the command-line thread that takes it out again through     *)
(* readline and through get_line_input, and what it does with a line.      *)
(*                                                                         *)
(* A command word is one character here: no command is the beginning of    *)
(* another, and the two passes of analyse_command only tell blanks, quotes *)
(* and other characters apart.  A stored user name or password is its      *)
(* length.  The effect of the commands on the game server and on the       *)
(* session queue is the subject of GameServer and Network.                 *)
(***************************************************************************)
EXTENDS Naturals, SequencesExt

CONSTANTS
  Word,               \* letters, digits, and the words of the commands
  Pasted,             \* what a client sends in one packet
  MAX_USERNAME_LEN,   \* config.h
  MAX_PASSWD_LEN,     \* config.h
  Slack,              \* what the input buffers are longer than these
  MaxStdin,           \* bound on the characters in pipe_stdin
  MaxTyped            \* bound on a line and the characters behind it

ASSUME CmdlineAssumption ==
  /\ Word \cap {"blank", "quote", "cr", "nl", "nul"} = {}
  /\ Pasted \subseteq Seq(Word \cup {"blank", "quote", "cr", "nl"}) \ {<<>>}
  /\ {MAX_USERNAME_LEN, MAX_PASSWD_LEN, Slack, MaxStdin, MaxTyped} \subseteq Nat \ {0}

VARIABLES
  stdin,      \* pipe_stdin
  mc_mode,    \* cmdline.c
  line,       \* what readline has read
  buf,        \* what get_line_input has read
  first,      \* passwd of cmd_server_passwd, to be typed again
  username,   \* the lengths of the configured values
  passwd,
  pasted,     \* a packet has brought a return behind other characters
  fault,      \* the invalid access that ended the process
  pc          \* where the command-line thread is

input == <<line, buf, first>>
vars == <<stdin, mc_mode, input, username, passwd, pasted, fault, pc>>

Key == Word \cup {"blank", "quote"}

\* A command that has asked for input is at its end.
Return ==
  /\ buf' = <<>> /\ first' = <<>>
  /\ pc' = [at |-> "free", prompt |-> "none"]

\* Where get_line_input was called, and the buffer it was given.
Prompt == {"username", "passwd", "again"}
Size(prompt) ==
  (IF prompt = "username" THEN MAX_USERNAME_LEN ELSE MAX_PASSWD_LEN) + Slack

Init ==
  /\ stdin = <<>>
  /\ mc_mode = FALSE
  /\ line = <<>> /\ buf = <<>> /\ first = <<>>
  /\ username = 1 /\ passwd = 1
  /\ pasted = FALSE
  /\ fault = "none"
  /\ pc = [at |-> "readline", prompt |-> "none"]

Goto(at, prompt) == pc' = [at |-> at, prompt |-> prompt]
-----------------------------------------------------------------------------
(* analyse_command                                                         *)

\* Mutant: if in place of while, one blank is skipped.
jump_space_one(cmd, i) == IF i <= Len(cmd) /\ cmd[i] = "blank" THEN i + 1 ELSE i

\* the text from position i on without the blanks it starts with
jump_space(cmd, i) ==
  LET rest == {j \in i .. Len(cmd) : cmd[j] # "blank"}
  IN  IF rest = {} THEN Len(cmd) + 1 ELSE Min(rest)

\* One step of a pass over cmd, at position s.i: a quote, the end of the argument
\* s.arg, or a character of it.
Step(cmd, s) ==
  IF s.i <= Len(cmd) /\ cmd[s.i] = "quote"
  THEN [s EXCEPT !.quoted = ~@, !.i = @ + 1]
  ELSE IF s.i > Len(cmd) \/ (cmd[s.i] = "blank" /\ ~s.quoted)
  THEN LET j == jump_space(cmd, s.i)
       IN  [s EXCEPT !.args = Append(@, s.arg), !.arg = <<>>, !.i = j,
                     !.done = j > Len(cmd)]
  ELSE [s EXCEPT !.arg = Append(@, cmd[s.i]), !.i = @ + 1]

\* A pass over cmd: the arguments that end so far, the one being copied, the
\* next position and quote_flag.
Pass(cmd, from, quoted) ==
  LET p[n \in 0 .. 2 * Len(cmd) + 1] ==
        IF n = 0 THEN [args |-> <<>>, arg |-> <<>>, i |-> from, quoted |-> quoted,
                       done |-> FALSE]
        ELSE LET s == p[n - 1] IN IF s.done THEN s ELSE Step(cmd, s)
  IN  p[2 * Len(cmd) + 1]

\* "Get arg num": the leading blanks are skipped
FirstPass(cmd) == Pass(cmd, jump_space(cmd, 1), FALSE)

\* "Split arguments": from the beginning, with the quote_flag of the first pass
SecondPass(cmd) == Pass(cmd, 1, FirstPass(cmd).quoted)

IsBlank(cmd) == jump_space(cmd, 1) > Len(cmd)
argc(cmd) == Len(FirstPass(cmd).args)
analyse_command(cmd) == SecondPass(cmd).args

\* the array has argc + 1 entries, and the last one written is the NULL
Overruns(cmd) == Len(analyse_command(cmd)) > argc(cmd)

-----------------------------------------------------------------------------
(* What the active session sends, and cmdline_write                        *)

Typed == Len(line) + Len(buf) + Len(stdin)

\* a key, in a packet of its own
conn_receive_key(k) ==
  /\ pc.at # "stopped"
  /\ Len(stdin) < MaxStdin /\ Typed < MaxTyped
  /\ stdin' = Append(stdin, k)
  /\ UNCHANGED <<mc_mode, input, username, passwd, pasted, fault, pc>>

\* Mutant: the return key becomes one character.
conn_receive_enter_short ==
  /\ pc.at # "stopped"
  /\ Len(stdin) + 1 < MaxStdin
  /\ stdin' = Append(stdin, "nl")
  /\ UNCHANGED <<mc_mode, input, username, passwd, pasted, fault, pc>>

\* a packet that starts with a return becomes the two characters of "\n"
conn_receive_enter ==
  /\ pc.at # "stopped"
  /\ Len(stdin) + 1 < MaxStdin
  /\ stdin' = stdin \o <<"nl", "nul">>
  /\ UNCHANGED <<mc_mode, input, username, passwd, pasted, fault, pc>>

\* several characters at once are passed on as they are
conn_receive_pasted(text) ==
  /\ pc.at # "stopped"
  /\ Len(stdin) + Len(text) <= MaxStdin /\ Typed < MaxTyped
  /\ stdin' = stdin \o text
  /\ pasted' = (pasted \/ \E i \in 1 .. Len(text) : text[i] \in {"cr", "nl"})
  /\ UNCHANGED <<mc_mode, input, username, passwd, fault, pc>>
-----------------------------------------------------------------------------
(* cmdline_thread: readline and execute_command                            *)

\* readline takes a character; a NUL is no part of the line
readline_char ==
  /\ pc.at = "readline" /\ stdin # <<>>
  /\ Head(stdin) \notin {"nl", "cr"}
  /\ stdin' = Tail(stdin)
  /\ line' = IF Head(stdin) = "nul" THEN line ELSE Append(line, Head(stdin))
  /\ UNCHANGED <<mc_mode, buf, first, username, passwd, pasted, fault, pc>>

readline_returns ==
  /\ pc.at = "readline" /\ stdin # <<>>
  /\ Head(stdin) \in {"nl", "cr"}
  /\ stdin' = Tail(stdin)
  /\ Goto("execute_command", "none")
  /\ UNCHANGED <<mc_mode, input, username, passwd, pasted, fault>>

\* stop is refused, exit leaves the mode, any other line goes to the game server
exec_mc_cmd ==
  /\ pc.at = "execute_command" /\ mc_mode
  /\ mc_mode' = (line # <<"exit">>)
  /\ Goto(IF line \in {<<"stop">>, <<"exit">>} THEN "readline" ELSE "game_write", "none")
  /\ line' = <<>>
  /\ UNCHANGED <<stdin, buf, first, username, passwd, pasted, fault>>

\* the game server has taken all of it (GameServer has the loop)
exec_mc_cmd_written ==
  /\ pc.at = "game_write"
  /\ Goto("readline", "none")
  /\ UNCHANGED <<stdin, mc_mode, input, username, passwd, pasted, fault>>

\* analyse_command returns NULL
execute_command_blank ==
  /\ pc.at = "execute_command" /\ ~mc_mode
  /\ IsBlank(line)
  /\ line' = <<>>
  /\ Goto("readline", "none")
  /\ UNCHANGED <<stdin, mc_mode, buf, first, username, passwd, pasted, fault>>

\* Writing more arguments than were counted may damage the heap.  The commands
\* that do not ask for input are at their end here.
exec_server_cmd ==
  /\ pc.at = "execute_command" /\ ~mc_mode
  /\ ~IsBlank(line)
  /\ fault' \in IF Overruns(line) THEN {"none", "analyse_command"} ELSE {"none"}
  /\ LET cmd == Head(analyse_command(line)) IN
       /\ mc_mode' = (cmd = <<"server">>)
       /\ CASE cmd = <<"username">> -> Goto("discard", "username")
            [] cmd = <<"passwd">>   -> Goto("discard", "passwd")
            [] OTHER                -> Goto("free", "none")
  /\ line' = <<>>
  /\ UNCHANGED <<stdin, buf, first, username, passwd, pasted>>

\* The loop that frees the arguments frees the array with the first of them and
\* reads it again: an invalid access, or the NULL that was there.
execute_command_free ==
  /\ pc.at = "free"
  /\ fault' \in {"none", "execute_command"}
  /\ Goto("readline", "none")
  /\ UNCHANGED <<stdin, mc_mode, input, username, passwd, pasted>>
-----------------------------------------------------------------------------
(* get_line_input, cmd_server_username and cmd_server_passwd               *)

\* the first character is read over
get_line_input_discard ==
  /\ pc.at = "discard" /\ stdin # <<>>
  /\ stdin' = Tail(stdin)
  /\ buf' = <<>>
  /\ Goto("input", pc.prompt)
  /\ UNCHANGED <<mc_mode, line, first, username, passwd, pasted, fault>>

\* Mutant: <= in place of < in the loop of get_line_input.
get_line_input_char_one_more ==
  /\ pc.at = "input" /\ Len(buf) <= Size(pc.prompt) /\ stdin # <<>>
  /\ Head(stdin) \in Word
  /\ stdin' = Tail(stdin)
  /\ buf' = Append(buf, Head(stdin))
  /\ UNCHANGED <<mc_mode, line, first, username, passwd, pasted, fault, pc>>

get_line_input_char ==
  /\ pc.at = "input" /\ Len(buf) < Size(pc.prompt) /\ stdin # <<>>
  /\ Head(stdin) \in Word
  /\ stdin' = Tail(stdin)
  /\ buf' = Append(buf, Head(stdin))
  /\ UNCHANGED <<mc_mode, line, first, username, passwd, pasted, fault, pc>>

get_line_input_returns ==
  /\ pc.at = "input" /\ Len(buf) < Size(pc.prompt) /\ stdin # <<>>
  /\ Head(stdin) \in {"nl", "cr"}
  /\ stdin' = Tail(stdin)
  /\ Goto("check", pc.prompt)
  /\ UNCHANGED <<mc_mode, input, username, passwd, pasted, fault>>

\* "Unknow character": the command ends, the rest of the line stays in the pipe
get_line_input_unknown ==
  /\ pc.at = "input" /\ Len(buf) < Size(pc.prompt) /\ stdin # <<>>
  /\ Head(stdin) \in {"blank", "quote", "nul"}
  /\ stdin' = Tail(stdin)
  /\ Return
  /\ UNCHANGED <<mc_mode, line, username, passwd, pasted, fault>>

\* the buffer is full, and the terminator is written behind it
get_line_input_full ==
  /\ pc.at = "input" /\ Len(buf) = Size(pc.prompt)
  /\ fault' \in {"none", "get_line_input"}
  /\ Goto("check", pc.prompt)
  /\ UNCHANGED <<stdin, mc_mode, input, username, passwd, pasted>>

cmd_server_username ==
  /\ pc = [at |-> "check", prompt |-> "username"]
  /\ username' = IF Len(buf) > MAX_USERNAME_LEN THEN username ELSE Len(buf)
  /\ Return
  /\ UNCHANGED <<stdin, mc_mode, line, passwd, pasted, fault>>

cmd_server_passwd ==
  /\ pc = [at |-> "check", prompt |-> "passwd"]
  /\ IF Len(buf) > MAX_PASSWD_LEN
     THEN Return
     ELSE Goto("discard", "again") /\ first' = buf /\ UNCHANGED buf
  /\ UNCHANGED <<stdin, mc_mode, line, username, passwd, pasted, fault>>

cmd_server_passwd_again ==
  /\ pc = [at |-> "check", prompt |-> "again"]
  /\ passwd' = IF buf = first THEN Len(first) ELSE passwd
  /\ Return
  /\ UNCHANGED <<stdin, mc_mode, line, username, pasted, fault>>
-----------------------------------------------------------------------------
(* The session changes                                                     *)

\* the thread is cancelled where it waits for input, or for the game server
cmdline_stop ==
  /\ pc.at \in {"readline", "discard", "input", "game_write"}
  /\ line' = <<>> /\ buf' = <<>> /\ first' = <<>>
  /\ Goto("stopped", "none")
  /\ UNCHANGED <<stdin, mc_mode, username, passwd, pasted, fault>>

\* what was in the pipe is still there
cmdline_start ==
  /\ pc.at = "stopped"
  /\ mc_mode' = FALSE
  /\ Goto("readline", "none")
  /\ UNCHANGED <<stdin, input, username, passwd, pasted, fault>>
-----------------------------------------------------------------------------
Receive ==
  \/ \E k \in Key : conn_receive_key(k)
  \/ conn_receive_enter
  \/ \E text \in Pasted : conn_receive_pasted(text)

GetLineInput ==
  \/ get_line_input_discard \/ get_line_input_char \/ get_line_input_returns
  \/ get_line_input_unknown \/ get_line_input_full

Execute ==
  \/ readline_char \/ readline_returns
  \/ exec_mc_cmd \/ exec_mc_cmd_written
  \/ execute_command_blank \/ exec_server_cmd \/ execute_command_free
  \/ cmd_server_username \/ cmd_server_passwd \/ cmd_server_passwd_again

\* An invalid access ends the process.
Next ==
  /\ fault = "none"
  /\ Receive \/ Execute \/ GetLineInput \/ cmdline_stop \/ cmdline_start

Spec == Init /\ [][Next]_vars
-----------------------------------------------------------------------------
(* Properties                                                              *)

Char == Key \cup {"nl", "cr", "nul"}

InputOK ==
  /\ stdin \in Seq(Char)
  /\ line \in Seq(Key)
  /\ buf \in Seq(Word) /\ first \in Seq(Word)

\* where get_line_input runs, and where no command asks for input
PromptOK ==
  \/ /\ pc.at \in {"discard", "input", "check"} /\ pc.prompt \in Prompt
     /\ Len(buf) <= Size(pc.prompt)
  \/ /\ pc.at \in {"readline", "execute_command", "game_write", "free", "stopped"}
     /\ pc.prompt = "none" /\ buf = <<>>

\* The variables keep the shapes of the C objects they stand for, and
\* get_line_input stores no character behind the buffer it was given.
TypeOK ==
  /\ InputOK
  /\ PromptOK
  /\ mc_mode \in BOOLEAN /\ pasted \in BOOLEAN
  /\ username \in Nat /\ passwd \in Nat
  /\ fault \in {"none", "analyse_command", "execute_command", "get_line_input"}

\* What get_line_input reads over is the NUL that conn_receive sent behind the
\* return that ended the line before, never a character of the answer, and no
\* such NUL is left to be taken for an unknown character; as long as every
\* return came at the beginning of a packet.
DropsOnlyNul ==
  ~pasted /\ stdin # <<>> => /\ pc.at = "discard" => Head(stdin) = "nul"
                             /\ pc.at = "input" => Head(stdin) # "nul"

\* What makes it inductive: in the pipe a NUL follows every newline and nothing
\* else, so the one behind a line that has just ended is there already.
Paired(s) ==
  /\ \A i \in 1 .. Len(s) : s[i] = "nl" => i < Len(s) /\ s[i + 1] = "nul"
  /\ \A i \in 2 .. Len(s) : s[i] = "nul" => s[i - 1] = "nl"
  /\ \A i \in 1 .. Len(s) : s[i] # "cr"

LineEnded ==
  \/ pc.at \in {"execute_command", "discard"}
  \/ pc.at = "check" /\ Len(buf) < Size(pc.prompt)

NulInv ==
  ~pasted => /\ Paired(stdin)
             /\ LineEnded => stdin # <<>> /\ Head(stdin) = "nul"
             /\ pc.at = "input" /\ stdin # <<>> => Head(stdin) # "nul"

Quotes(cmd, i) == Cardinality({j \in 1 .. i : cmd[j] = "quote"})

Splits(cmd, i) == cmd[i] = "blank" /\ Quotes(cmd, i) % 2 = 0

\* Where the arguments of a line begin: what stands between the blanks outside
\* quotes is one.
Starts(cmd) ==
  {i \in 1 .. Len(cmd) : ~Splits(cmd, i) /\ (i = 1 \/ Splits(cmd, i - 1))}

End(cmd, i) == Min({j \in i .. Len(cmd) : Splits(cmd, j)} \cup {Len(cmd) + 1})

\* The characters from i up to each position, without the quotes.
Unquoted(cmd, i) ==
  LET t[j \in i - 1 .. Len(cmd)] ==
        IF j = i - 1 THEN <<>>
        ELSE LET u == t[j - 1]
             IN  IF cmd[j] = "quote" THEN u ELSE Append(u, cmd[j])
  IN  t

\* These are the arguments of the line, in their order, and all of them.
AreWords(args, cmd) ==
  \E at \in [1 .. Len(args) -> Starts(cmd)] :
    /\ \A k, l \in 1 .. Len(args) : k < l => at[k] < at[l]
    /\ \A i \in Starts(cmd) : \E k \in 1 .. Len(args) : at[k] = i
    /\ \A k \in 1 .. Len(args) :
         args[k] = Unquoted(cmd, at[k])[End(cmd, at[k]) - 1]

WellFormed(cmd) ==
  cmd # <<>> /\ cmd[1] # "blank" /\ Quotes(cmd, Len(cmd)) % 2 = 0

\* A line that does not start with a blank and closes its quotes is split into
\* its arguments, as many of them as there is room for in the array.
SplitsAsCounted ==
  pc.at = "execute_command" /\ WellFormed(line)
    => /\ AreWords(analyse_command(line), line)
       /\ argc(line) = Len(analyse_command(line))

=============================================================================
