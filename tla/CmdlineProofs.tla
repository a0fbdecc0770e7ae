--------------------------- MODULE CmdlineProofs ---------------------------
(***************************************************************************)
(* Theorems about Cmdline, for all limits, buffers and commands.           *)
(*                                                                         *)
(* The argument: conn_receive writes a newline and a NUL with one call, so *)
(* in the pipe each of them is there only with the other.  Whoever takes   *)
(* the newline out, readline or get_line_input, leaves the NUL at the head *)
(* of the pipe, where it stays until the next get_line_input reads over it *)
(* or the next readline ignores it.  The one way to a second prompt that   *)
(* has not seen the end of a line, a full buffer, is closed by the check   *)
(* of the length, because the buffers are longer than the limits.          *)
(*                                                                         *)
(* At the end: the two passes of analyse_command over a line that does not *)
(* begin with a blank and closes its quotes are the same, and what a pass  *)
(* has split off at any position are the words that end before it.         *)
(***************************************************************************)
EXTENDS Cmdline, RecursionLemmas, FiniteSetTheorems, TLAPS

CmdInv == TypeOK /\ NulInv

USE DEF Goto, input

\* The limits are positive and the buffers are longer.
LEMMA Limits ==
  /\ MAX_USERNAME_LEN \in Nat /\ MAX_USERNAME_LEN >= 1
  /\ MAX_PASSWD_LEN \in Nat /\ MAX_PASSWD_LEN >= 1
  /\ \A p \in Prompt : Size(p) \in Nat
  /\ Size("username") \in Nat /\ Size("passwd") \in Nat /\ Size("again") \in Nat
  /\ Size("username") > MAX_USERNAME_LEN
  /\ Size("passwd") > MAX_PASSWD_LEN /\ Size("again") > MAX_PASSWD_LEN
  BY CmdlineAssumption DEF Size, Prompt

\* No key is one of the characters that end or follow a line.
LEMMA KeyIsNoEnd ==
  ASSUME NEW k \in Key
  PROVE  k # "nl" /\ k # "cr" /\ k # "nul" /\ k \in Char
  BY CmdlineAssumption DEF Key, Char

\* What is taken from the pipe is a character, and the rest is still a pipe.
LEMMA TailOfPipe ==
  ASSUME NEW s \in Seq(Char), s # <<>>
  PROVE  /\ Tail(s) \in Seq(Char) /\ Head(s) = s[1] /\ Head(s) \in Char
         /\ Len(s) \in Nat /\ Len(s) >= 1 /\ Len(Tail(s)) = Len(s) - 1
         /\ \A i \in 1 .. Len(s) - 1 : Tail(s)[i] = s[i + 1]
  OBVIOUS

\* Empty buffers are buffers.
LEMMA EmptyOK == <<>> \in Seq(Key) /\ <<>> \in Seq(Word)
  OBVIOUS

\* A pipe with a character in it is not empty.
LEMMA NotEmpty ==
  ASSUME NEW s \in Seq(Char), Len(s) >= 1
  PROVE  s # <<>>
  <1>1. Len(<<>>) = 0 OBVIOUS
  <1> QED BY <1>1

\* Taking a character out keeps the rest paired ...
LEMMA PairedTail ==
  ASSUME NEW s \in Seq(Char), s # <<>>, Paired(s)
  PROVE  Paired(Tail(s))
  BY TailOfPipe DEF Paired

\* ... behind a newline there is its NUL ...
LEMMA HeadBehindNewline ==
  ASSUME NEW s \in Seq(Char), s # <<>>, Paired(s), Head(s) = "nl"
  PROVE  Tail(s) # <<>> /\ Head(Tail(s)) = "nul"
  <1>1. 1 < Len(s) /\ s[2] = "nul"
    BY TailOfPipe DEF Paired
  <1>2. Tail(s) \in Seq(Char) /\ Len(Tail(s)) = Len(s) - 1 /\ Tail(s)[1] = s[2]
    BY <1>1, TailOfPipe
  <1>3. Len(Tail(s)) >= 1
    BY <1>1, <1>2, TailOfPipe
  <1> DEFINE t == Tail(s)
  <1> HIDE DEF t
  <1>4. t \in Seq(Char) /\ Len(t) >= 1
    BY <1>2, <1>3 DEF t
  <1>5. t # <<>>
    BY <1>4, NotEmpty
  <1> QED BY <1>1, <1>2, <1>4, <1>5, TailOfPipe DEF t

\* ... and behind any other character there is none.
LEMMA HeadBehindOther ==
  ASSUME NEW s \in Seq(Char), s # <<>>, Paired(s), Head(s) # "nl", Tail(s) # <<>>
  PROVE  Head(Tail(s)) # "nul"
  <1>1. Tail(s) \in Seq(Char) /\ Len(Tail(s)) = Len(s) - 1 /\ Len(Tail(s)) >= 1
        /\ Head(Tail(s)) = Tail(s)[1]
    BY TailOfPipe
  <1>2. Tail(s)[1] = s[2] /\ 2 \in 2 .. Len(s)
    BY <1>1, TailOfPipe
  <1> QED BY <1>1, <1>2, TailOfPipe DEF Paired

\* A key keeps the pipe paired and its head in place.
LEMMA PairedKey ==
  ASSUME NEW s \in Seq(Char), NEW k \in Key, Paired(s)
  PROVE  /\ Append(s, k) \in Seq(Char) /\ Append(s, k) # <<>> /\ Paired(Append(s, k))
         /\ s # <<>> => Head(Append(s, k)) = Head(s)
         /\ s = <<>> => Head(Append(s, k)) # "nul"
  <1>1. /\ Append(s, k) \in Seq(Char) /\ Len(Append(s, k)) = Len(s) + 1
        /\ Len(s) \in Nat /\ Append(s, k)[Len(s) + 1] = k
        /\ \A i \in 1 .. Len(s) : Append(s, k)[i] = s[i]
    BY KeyIsNoEnd
  <1>2. Paired(Append(s, k))
    BY <1>1, KeyIsNoEnd DEF Paired
  <1> DEFINE a == Append(s, k)
  <1>3. a \in Seq(Char) /\ Len(a) >= 1
    BY <1>1
  <1> HIDE DEF a
  <1>4. a # <<>> /\ Head(a) = a[1]
    BY <1>3, NotEmpty, TailOfPipe
  <1> QED BY <1>1, <1>2, <1>4, KeyIsNoEnd, TailOfPipe DEF a

\* So does a text without a return.
LEMMA PairedText ==
  ASSUME NEW s \in Seq(Char), NEW text \in Seq(Key \cup {"cr", "nl"}), text # <<>>,
         \A i \in 1 .. Len(text) : text[i] \in Key, Paired(s)
  PROVE  LET e == s \o text
         IN  /\ e # <<>> /\ Paired(e)
             /\ s # <<>> => Head(e) = Head(s)
             /\ s = <<>> => Head(e) # "nul"
  <1> DEFINE e == s \o text
  <1>1. /\ Len(text) \in Nat /\ Len(text) >= 1 /\ Len(s) \in Nat
        /\ text \in Seq(Char)
    BY DEF Char
  <1>2. /\ e \in Seq(Char) /\ Len(e) = Len(s) + Len(text)
        /\ \A i \in 1 .. Len(s) : e[i] = s[i]
        /\ \A i \in 1 .. Len(e) : i > Len(s) => e[i] = text[i - Len(s)]
    BY <1>1
  <1> HIDE DEF e
  <1>3. \A i \in 1 .. Len(e) : i > Len(s) => e[i] \in Key
    BY <1>1, <1>2
  <1>4. \A i \in 1 .. Len(e) :
          i > Len(s) => e[i] # "nl" /\ e[i] # "cr" /\ e[i] # "nul"
    BY <1>3, KeyIsNoEnd
  <1>5. Paired(e)
    <2>1. ASSUME NEW i \in 1 .. Len(e), e[i] = "nl"
          PROVE  i < Len(e) /\ e[i + 1] = "nul"
      <3>1. i \in 1 .. Len(s) /\ s[i] = "nl"
        BY <2>1, <1>1, <1>2, <1>4
      <3>2. i < Len(s) /\ s[i + 1] = "nul"
        BY <3>1 DEF Paired
      <3>3. i + 1 \in 1 .. Len(s)
        BY <3>1, <3>2, <1>1
      <3> QED BY <3>2, <3>3, <1>1, <1>2
    <2>2. ASSUME NEW i \in 2 .. Len(e), e[i] = "nul"
          PROVE  e[i - 1] = "nl"
      <3>1. i \in 2 .. Len(s) /\ s[i] = "nul"
        BY <2>2, <1>1, <1>2, <1>4
      <3>2. i - 1 \in 1 .. Len(s) /\ s[i - 1] = "nl"
        BY <3>1, <1>1 DEF Paired
      <3> QED BY <3>2, <1>2
    <2>3. ASSUME NEW i \in 1 .. Len(e)
          PROVE  e[i] # "cr"
      <3>1. i \in 1 .. Len(s) => s[i] # "cr"
        BY DEF Paired
      <3>2. i \in 1 .. Len(s) \/ i > Len(s)
        BY <1>1, <1>2
      <3> QED BY <3>1, <3>2, <1>2, <1>4
    <2> QED BY <2>1, <2>2, <2>3 DEF Paired
  <1>6. e # <<>> /\ Head(e) = e[1]
    BY <1>1, <1>2, NotEmpty, TailOfPipe
  <1>7. (s # <<>> => Head(e) = Head(s)) /\ (s = <<>> => Head(e) # "nul")
    BY <1>1, <1>2, <1>4, <1>6, TailOfPipe
  <1> QED BY <1>5, <1>6, <1>7 DEF e

\* The two characters of the return key do so too.
LEMMA PairedEnter ==
  ASSUME NEW s \in Seq(Char), Paired(s)
  PROVE  LET e == s \o <<"nl", "nul">>
         IN  /\ e \in Seq(Char) /\ e # <<>> /\ Paired(e)
             /\ s # <<>> => Head(e) = Head(s)
             /\ s = <<>> => Head(e) # "nul"
  <1> DEFINE e == s \o <<"nl", "nul">>
  <1>0. "nl" \in Char /\ "nul" \in Char
    BY DEF Char
  <1>1. /\ e \in Seq(Char) /\ Len(e) = Len(s) + 2 /\ Len(s) \in Nat
        /\ e[Len(s) + 1] = "nl" /\ e[Len(s) + 2] = "nul"
        /\ \A i \in 1 .. Len(s) : e[i] = s[i]
    BY ONLY <1>0, s \in Seq(Char)
  <1> HIDE DEF e
  <1>2. Paired(e)
    BY <1>1 DEF Paired
  <1>3. e # <<>> /\ Head(e) = e[1]
    BY <1>1, TailOfPipe
  <1>4. (s # <<>> => Head(e) = Head(s)) /\ (s = <<>> => Head(e) # "nul")
    BY <1>1, <1>3, TailOfPipe
  <1> QED BY <1>1, <1>2, <1>3, <1>4 DEF e
-----------------------------------------------------------------------------
(* What the three kinds of steps do to NulInv                              *)

\* A step that leaves the pipe alone and asks for input only at the end of a line.
LEMMA PipeStays ==
  ASSUME NulInv, stdin' = stdin, pasted' = pasted,
         LineEnded' => LineEnded, pc'.at # "input"
  PROVE  NulInv'
  BY DEF NulInv

\* A step that takes a character.
LEMMA PipeTaken ==
  ASSUME NulInv, InputOK, stdin # <<>>, stdin' = Tail(stdin), pasted' = pasted,
         LineEnded' => Head(stdin) \in {"nl", "cr"},
         ~pasted /\ pc'.at = "input" => Head(stdin) # "nl"
  PROVE  NulInv'
  <1> SUFFICES ASSUME ~pasted
               PROVE  /\ Paired(stdin')
                      /\ LineEnded' => stdin' # <<>> /\ Head(stdin') = "nul"
                      /\ pc'.at = "input" /\ stdin' # <<>> => Head(stdin') # "nul"
    BY DEF NulInv
  <1>1. Paired(stdin) /\ stdin \in Seq(Char)
    BY DEF NulInv, InputOK
  <1>2. Head(stdin) # "cr"
    BY <1>1, TailOfPipe DEF Paired
  <1>3. Paired(stdin')
    BY <1>1, PairedTail
  <1>4. LineEnded' => stdin' # <<>> /\ Head(stdin') = "nul"
    BY <1>1, <1>2, HeadBehindNewline
  <1>5. pc'.at = "input" /\ stdin' # <<>> => Head(stdin') # "nul"
    BY <1>1, HeadBehindOther
  <1> QED BY <1>3, <1>4, <1>5

\* conn_receive keeps the invariant, by a key, a return or a packet with both.
LEMMA ReceiveKeeps ==
  ASSUME CmdInv, Receive
  PROVE  CmdInv'
  <1> USE DEF CmdInv
  <1>0. stdin \in Seq(Char)
    BY DEF TypeOK, InputOK
  <1>1. /\ pc' = pc /\ buf' = buf /\ first' = first /\ line' = line
        /\ mc_mode' = mc_mode /\ username' = username /\ passwd' = passwd
        /\ fault' = fault
    BY DEF Receive, conn_receive_key, conn_receive_enter, conn_receive_pasted
  <1>2. /\ stdin' \in Seq(Char) /\ pasted' \in BOOLEAN
        /\ ~pasted' => ~pasted /\ Paired(stdin')
        /\ ~pasted' /\ stdin # <<>> => stdin' # <<>> /\ Head(stdin') = Head(stdin)
        /\ ~pasted' /\ stdin = <<>> /\ stdin' # <<>> => Head(stdin') # "nul"
    <2>1. CASE \E k \in Key : conn_receive_key(k)
      <3>1. PICK k \in Key : conn_receive_key(k) BY <2>1
      <3>2. stdin' = Append(stdin, k) /\ pasted' = pasted
        BY <3>1 DEF conn_receive_key
      <3>3. stdin' \in Seq(Char)
        BY <1>0, <3>2, KeyIsNoEnd
      <3> QED BY <1>0, <3>2, <3>3, PairedKey DEF TypeOK, NulInv
    <2>2. CASE conn_receive_enter
      <3>1. stdin' = stdin \o <<"nl", "nul">> /\ pasted' = pasted
        BY <2>2 DEF conn_receive_enter
      <3>2. stdin' \in Seq(Char)
        BY <1>0, <3>1 DEF Char
      <3> QED BY <1>0, <3>1, <3>2, PairedEnter DEF TypeOK, NulInv
    <2>3. CASE \E text \in Pasted : conn_receive_pasted(text)
      <3>1. PICK text \in Pasted : conn_receive_pasted(text) BY <2>3
      <3>2. /\ stdin' = stdin \o text
            /\ pasted' = (pasted \/ \E i \in 1 .. Len(text) : text[i] \in {"cr", "nl"})
        BY <3>1 DEF conn_receive_pasted
      <3>3. text \in Seq(Key \cup {"cr", "nl"}) /\ text # <<>>
        BY CmdlineAssumption DEF Key
      <3>4. pasted' \in BOOLEAN
        BY <3>2, Zenon DEF TypeOK
      <3>5. stdin' \in Seq(Char)
        BY <1>0, <3>2, <3>3 DEF Char
      <3>6. CASE pasted'
        BY <3>4, <3>5, <3>6
      <3>7. CASE ~pasted'
        <4>1. ~pasted /\ \A i \in 1 .. Len(text) : text[i] \notin {"cr", "nl"}
          BY <3>2, <3>7
        <4>2. \A i \in 1 .. Len(text) : text[i] \in Key
          BY <3>3, <4>1
        <4>3. Paired(stdin)
          BY <4>1 DEF NulInv
        <4> QED BY <1>0, <3>2, <3>3, <3>4, <3>5, <4>1, <4>2, <4>3, PairedText
      <3> QED BY <3>6, <3>7
    <2> QED BY <2>1, <2>2, <2>3 DEF Receive
  <1>3. TypeOK'
    BY <1>1, <1>2 DEF TypeOK, InputOK, PromptOK
  <1>4. LineEnded' = LineEnded
    BY <1>1 DEF LineEnded
  <1>5. NulInv'
    BY <1>1, <1>2, <1>4 DEF NulInv
  <1> QED BY <1>3, <1>5
-----------------------------------------------------------------------------
\* readline and the commands keep the invariant.
LEMMA ExecuteKeeps ==
  ASSUME CmdInv, Execute
  PROVE  CmdInv'
  <1> USE DEF CmdInv
  <1>0. stdin \in Seq(Char) /\ line \in Seq(Key) /\ buf \in Seq(Word) /\ first \in Seq(Word)
    BY DEF TypeOK, InputOK
  <1>1. CASE readline_char
    <2>1. /\ pc' = pc /\ pc.at = "readline" /\ stdin # <<>> /\ stdin' = Tail(stdin)
          /\ UNCHANGED <<mc_mode, buf, first, username, passwd, pasted, fault>>
          /\ Head(stdin) \notin {"nl", "cr"}
          /\ line' = IF Head(stdin) = "nul" THEN line ELSE Append(line, Head(stdin))
      BY <1>1 DEF readline_char
    <2>2. stdin' \in Seq(Char) /\ Head(stdin) \in Char
      BY <1>0, <2>1, TailOfPipe
    <2>3. line' \in Seq(Key)
      BY <1>0, <2>1, <2>2 DEF Char
    <2>4. TypeOK'
      BY <2>1, <2>2, <2>3 DEF TypeOK, InputOK, PromptOK
    <2>5. ~LineEnded' /\ pc'.at # "input"
      BY <2>1 DEF LineEnded
    <2>6. NulInv'
      BY <2>1, <2>5, PipeTaken DEF TypeOK
    <2> QED BY <2>4, <2>6
  <1>2. CASE readline_returns
    <2>1. /\ pc' = [at |-> "execute_command", prompt |-> "none"] /\ pc.at = "readline"
          /\ stdin # <<>> /\ stdin' = Tail(stdin)
          /\ UNCHANGED <<mc_mode, line, buf, first, username, passwd, pasted, fault>>
          /\ Head(stdin) \in {"nl", "cr"}
      BY <1>2 DEF readline_returns
    <2>2. stdin' \in Seq(Char)
      BY <1>0, <2>1, TailOfPipe
    <2>3. TypeOK'
      BY <2>1, <2>2 DEF TypeOK, InputOK, PromptOK
    <2>4. NulInv'
      BY <2>1, PipeTaken DEF TypeOK
    <2> QED BY <2>3, <2>4
  <1>3. CASE exec_mc_cmd \/ exec_mc_cmd_written \/ execute_command_blank
             \/ execute_command_free
    <2>1. /\ stdin' = stdin /\ pc'.at \in {"readline", "game_write"} /\ pc'.prompt = "none"
          /\ pc.at \in {"execute_command", "game_write", "free"}
          /\ UNCHANGED <<buf, first, username, passwd, pasted>>
          /\ line' \in {line, <<>>}
          /\ fault' \in {"none", "execute_command", fault}
      BY <1>3 DEF exec_mc_cmd, exec_mc_cmd_written, execute_command_blank,
         execute_command_free
    <2>m. mc_mode' \in BOOLEAN
      BY <1>3, Zenon DEF exec_mc_cmd, exec_mc_cmd_written, execute_command_blank,
         execute_command_free, TypeOK
    <2>l. line' \in Seq(Key)
      BY <1>0, <2>1, EmptyOK
    <2>2. TypeOK'
      BY <2>1, <2>m, <2>l DEF TypeOK, InputOK, PromptOK
    <2>3. ~LineEnded'
      BY <2>1 DEF LineEnded
    <2>4. NulInv'
      BY <2>1, <2>3, PipeStays
    <2> QED BY <2>2, <2>4
  <1>4. CASE exec_server_cmd
    <2>1. /\ stdin' = stdin /\ pc.at = "execute_command"
          /\ \/ pc' = [at |-> "discard", prompt |-> "username"]
             \/ pc' = [at |-> "discard", prompt |-> "passwd"]
             \/ pc' = [at |-> "free", prompt |-> "none"]
          /\ UNCHANGED <<buf, first, username, passwd, pasted>>
          /\ mc_mode' \in BOOLEAN /\ line' = <<>>
          /\ fault' \in {"none", "analyse_command"}
      BY <1>4 DEF exec_server_cmd
    <2>2. buf = <<>>
      BY <2>1 DEF TypeOK, PromptOK
    <2>3. TypeOK'
      BY <2>1, <2>2, Limits DEF TypeOK, InputOK, PromptOK, Prompt
    <2>4. LineEnded /\ pc'.at # "input"
      BY <2>1 DEF LineEnded
    <2>5. NulInv'
      BY <2>1, <2>4, PipeStays
    <2> QED BY <2>3, <2>5
  <1>5. CASE cmd_server_username \/ cmd_server_passwd_again
    <2>1. /\ stdin' = stdin /\ pc' = [at |-> "free", prompt |-> "none"]
          /\ buf' = <<>> /\ first' = <<>>
          /\ UNCHANGED <<mc_mode, line, pasted, fault>>
      BY <1>5 DEF cmd_server_username, cmd_server_passwd_again, Return
    <2>2. username' \in Nat /\ passwd' \in Nat
      <3>1. Len(buf) \in Nat /\ Len(first) \in Nat
        BY <1>0
      <3>2. CASE cmd_server_username
        BY <3>1, <3>2, Limits DEF cmd_server_username, TypeOK
      <3>3. CASE cmd_server_passwd_again
        BY <3>1, <3>3, Limits DEF cmd_server_passwd_again, TypeOK
      <3> QED BY <1>5, <3>2, <3>3
    <2>3. TypeOK'
      BY <2>1, <2>2 DEF TypeOK, InputOK, PromptOK
    <2>4. ~LineEnded'
      BY <2>1 DEF LineEnded
    <2>5. NulInv'
      BY <2>1, <2>4, PipeStays
    <2> QED BY <2>3, <2>5
  <1>6. CASE cmd_server_passwd
    <2>1. /\ pc = [at |-> "check", prompt |-> "passwd"] /\ stdin' = stdin
          /\ UNCHANGED <<mc_mode, line, username, passwd, pasted, fault>>
          /\ \/ /\ pc' = [at |-> "free", prompt |-> "none"]
                /\ buf' = <<>> /\ first' = <<>>
             \/ /\ pc' = [at |-> "discard", prompt |-> "again"]
                /\ first' = buf /\ buf' = buf /\ ~(Len(buf) > MAX_PASSWD_LEN)
      BY <1>6 DEF cmd_server_passwd, Return
    <2>2. Len(buf) \in Nat
      BY <1>0
    <2>3. InputOK'
      BY <2>1, <1>0, EmptyOK DEF InputOK
    <2>4. Len(buf) <= MAX_PASSWD_LEN
            => Len(buf) < Size("passwd") /\ Len(buf) <= Size("again")
      BY <2>2, Limits
    <2>5. PromptOK'
      BY <2>1, <2>2, <2>4, Limits DEF PromptOK, Prompt
    <2>6. TypeOK'
      BY <2>1, <2>3, <2>5 DEF TypeOK
    <2>7. LineEnded' => LineEnded
      <3>1. CASE pc'.at = "free"
        BY <3>1 DEF LineEnded
      <3>2. CASE pc'.at # "free"
        BY <2>1, <2>2, <2>4, <3>2, Limits DEF LineEnded
      <3> QED BY <3>1, <3>2
    <2>8. NulInv'
      BY <2>1, <2>7, PipeStays
    <2> QED BY <2>6, <2>8
  <1> QED BY <1>1, <1>2, <1>3, <1>4, <1>5, <1>6 DEF Execute
-----------------------------------------------------------------------------
\* get_line_input keeps the invariant.
LEMMA GetLineInputKeeps ==
  ASSUME CmdInv, GetLineInput
  PROVE  CmdInv'
  <1> USE DEF CmdInv
  <1>0. stdin \in Seq(Char) /\ line \in Seq(Key) /\ buf \in Seq(Word) /\ first \in Seq(Word)
    BY DEF TypeOK, InputOK
  <1>1. CASE get_line_input_discard
    <2>1. /\ pc.at = "discard" /\ stdin # <<>> /\ stdin' = Tail(stdin)
          /\ pc' = [at |-> "input", prompt |-> pc.prompt] /\ buf' = <<>>
          /\ UNCHANGED <<mc_mode, line, first, username, passwd, pasted, fault>>
      BY <1>1 DEF get_line_input_discard
    <2>2. stdin' \in Seq(Char) /\ pc.prompt \in Prompt
      BY <1>0, <2>1, TailOfPipe DEF TypeOK, PromptOK
    <2>3. TypeOK'
      BY <2>1, <2>2, Limits DEF TypeOK, InputOK, PromptOK
    <2>4. ~LineEnded' /\ (~pasted => Head(stdin) # "nl")
      BY <2>1 DEF LineEnded, NulInv
    <2>5. NulInv'
      BY <2>1, <2>4, PipeTaken DEF TypeOK
    <2> QED BY <2>3, <2>5
  <1>2. CASE get_line_input_char
    <2>1. /\ pc.at = "input" /\ stdin # <<>> /\ stdin' = Tail(stdin) /\ pc' = pc
          /\ Head(stdin) \in Word /\ buf' = Append(buf, Head(stdin))
          /\ Len(buf) < Size(pc.prompt)
          /\ UNCHANGED <<mc_mode, line, first, username, passwd, pasted, fault>>
      BY <1>2 DEF get_line_input_char
    <2>2. stdin' \in Seq(Char) /\ pc.prompt \in Prompt
      BY <1>0, <2>1, TailOfPipe DEF TypeOK, PromptOK
    <2>3. buf' \in Seq(Word) /\ Len(buf') = Len(buf) + 1 /\ Len(buf) \in Nat
      BY <1>0, <2>1
    <2>4. Len(buf') <= Size(pc.prompt)
      BY <2>1, <2>2, <2>3, Limits
    <2>5. TypeOK'
      BY <2>1, <2>2, <2>3, <2>4 DEF TypeOK, InputOK, PromptOK
    <2>6. ~LineEnded' /\ Head(stdin) # "nl"
      BY <2>1, KeyIsNoEnd DEF LineEnded, Key
    <2>7. NulInv'
      BY <2>1, <2>6, PipeTaken DEF TypeOK
    <2> QED BY <2>5, <2>7
  <1>3. CASE get_line_input_returns
    <2>1. /\ pc.at = "input" /\ stdin # <<>> /\ stdin' = Tail(stdin)
          /\ pc' = [at |-> "check", prompt |-> pc.prompt]
          /\ Head(stdin) \in {"nl", "cr"}
          /\ UNCHANGED <<mc_mode, line, buf, first, username, passwd, pasted, fault>>
      BY <1>3 DEF get_line_input_returns
    <2>2. stdin' \in Seq(Char) /\ pc.prompt \in Prompt
      BY <1>0, <2>1, TailOfPipe DEF TypeOK, PromptOK
    <2>3. TypeOK'
      BY <2>1, <2>2 DEF TypeOK, InputOK, PromptOK
    <2>4. NulInv'
      BY <2>1, PipeTaken DEF TypeOK
    <2> QED BY <2>3, <2>4
  <1>4. CASE get_line_input_unknown
    <2>1. /\ stdin # <<>> /\ stdin' = Tail(stdin)
          /\ pc' = [at |-> "free", prompt |-> "none"] /\ buf' = <<>> /\ first' = <<>>
          /\ UNCHANGED <<mc_mode, line, username, passwd, pasted, fault>>
      BY <1>4 DEF get_line_input_unknown, Return
    <2>2. stdin' \in Seq(Char)
      BY <1>0, <2>1, TailOfPipe
    <2>3. TypeOK'
      BY <2>1, <2>2 DEF TypeOK, InputOK, PromptOK
    <2>4. ~LineEnded'
      BY <2>1 DEF LineEnded
    <2>5. NulInv'
      BY <2>1, <2>4, PipeTaken DEF TypeOK
    <2> QED BY <2>3, <2>5
  <1>5. CASE get_line_input_full
    <2>1. /\ pc.at = "input" /\ stdin' = stdin /\ Len(buf) = Size(pc.prompt)
          /\ pc' = [at |-> "check", prompt |-> pc.prompt]
          /\ fault' \in {"none", "get_line_input"}
          /\ UNCHANGED <<mc_mode, line, buf, first, username, passwd, pasted>>
      BY <1>5 DEF get_line_input_full
    <2>2. TypeOK'
      BY <2>1 DEF TypeOK, InputOK, PromptOK
    <2>3. Len(buf) \in Nat
      BY <1>0
    <2>4. ~LineEnded'
      BY <2>1, <2>3 DEF LineEnded
    <2>5. NulInv'
      BY <2>1, <2>4, PipeStays
    <2> QED BY <2>2, <2>5
  <1> QED BY <1>1, <1>2, <1>3, <1>4, <1>5 DEF GetLineInput

\* A change of session keeps the invariant, wherever it cuts the thread off.
LEMMA SessionKeeps ==
  ASSUME CmdInv, cmdline_stop \/ cmdline_start
  PROVE  CmdInv'
  <1> USE DEF CmdInv
  <1>1. /\ stdin' = stdin /\ UNCHANGED <<username, passwd, pasted, fault>>
        /\ pc'.at \in {"stopped", "readline"} /\ pc'.prompt = "none"
        /\ \/ line' = <<>> /\ buf' = <<>> /\ first' = <<>>
           \/ UNCHANGED <<line, buf, first>> /\ pc.at = "stopped"
    BY DEF cmdline_stop, cmdline_start
  <1>m. mc_mode' \in BOOLEAN
    BY Zenon DEF cmdline_stop, cmdline_start, TypeOK
  <1>i. InputOK'
    BY <1>1, EmptyOK DEF TypeOK, InputOK
  <1>p. PromptOK'
    BY <1>1 DEF TypeOK, PromptOK
  <1>2. TypeOK'
    BY <1>1, <1>m, <1>i, <1>p DEF TypeOK
  <1>3. ~LineEnded'
    BY <1>1 DEF LineEnded
  <1>4. NulInv'
    BY <1>1, <1>3, PipeStays
  <1> QED BY <1>2, <1>4

\* The pipe is empty at first.
LEMMA CmdInit == Init => CmdInv
  <1> SUFFICES ASSUME Init PROVE CmdInv
    OBVIOUS
  <1>1. InputOK /\ PromptOK
    BY DEF Init, InputOK, PromptOK
  <1>2. TypeOK
    BY <1>1 DEF Init, TypeOK
  <1>3. NulInv
    BY DEF Init, NulInv, Paired, LineEnded
  <1> QED BY <1>2, <1>3 DEF CmdInv
-----------------------------------------------------------------------------
\* The invariant holds whatever is typed, pasted and cut off.
THEOREM CmdSpecInv == Spec => []CmdInv
  <1>1. CmdInv /\ [Next]_vars => CmdInv'
    <2>1. CmdInv /\ Next => CmdInv'
      BY ReceiveKeeps, ExecuteKeeps, GetLineInputKeeps, SessionKeeps DEF Next
    <2>2. CmdInv /\ UNCHANGED vars => CmdInv'
      BY DEF vars, CmdInv, TypeOK, InputOK, PromptOK, NulInv, LineEnded
    <2> QED BY <2>1, <2>2
  <1> QED BY <1>1, CmdInit, PTL DEF Spec

\* Every variable keeps its shape, and get_line_input stores nothing behind its
\* buffer but the terminator, whatever the limits.
THEOREM CmdTypeCorrect == Spec => []TypeOK
  <1>1. CmdInv => TypeOK BY DEF CmdInv
  <1> QED BY <1>1, CmdSpecInv, PTL

\* get_line_input reads over the NUL of the return key and nothing else, as long
\* as no return is pasted behind other characters.
THEOREM DropsTheNul == Spec => []DropsOnlyNul
  <1>1. CmdInv => DropsOnlyNul
    BY DEF CmdInv, NulInv, LineEnded, DropsOnlyNul
  <1> QED BY <1>1, CmdSpecInv, PTL

-----------------------------------------------------------------------------
(* A line is split as its arguments were counted                           *)

\* The blanks before the next other character are skipped.
LEMMA JumpIs ==
  ASSUME NEW cmd, Len(cmd) \in Nat, NEW i \in 1 .. Len(cmd) + 1
  PROVE  /\ jump_space(cmd, i) \in i .. Len(cmd) + 1
         /\ \A j \in i .. jump_space(cmd, i) - 1 : cmd[j] = "blank"
         /\ jump_space(cmd, i) <= Len(cmd) => cmd[jump_space(cmd, i)] # "blank"
  <1> DEFINE rest == {j \in i .. Len(cmd) : cmd[j] # "blank"}
  <1>1. CASE rest = {}
    <2>1. jump_space(cmd, i) = Len(cmd) + 1
      BY <1>1 DEF jump_space
    <2>2. \A j \in i .. Len(cmd) : cmd[j] = "blank"
      BY <1>1
    <2> QED BY <2>1, <2>2
  <1>2. CASE rest # {}
    <2>1. jump_space(cmd, i) = Min(rest)
      BY <1>2 DEF jump_space
    <2>2. rest \in SUBSET Nat
      OBVIOUS
    <2> DEFINE m == Min(rest)
    <2>3. m \in rest /\ \A y \in rest : m <= y
      BY <1>2, <2>2, MinIsLeast
    <2> HIDE DEF m
    <2>4. m \in i .. Len(cmd) /\ cmd[m] # "blank"
      BY <2>3
    <2>5. ASSUME NEW j \in i .. m - 1 PROVE cmd[j] = "blank"
      BY <2>3, <2>4
    <2> QED BY <2>1, <2>4, <2>5 DEF m
  <1> QED BY <1>1, <1>2

\* Every quote changes whether what follows is inside of quotes.
Inside(cmd, i) == Quotes(cmd, i) % 2 # 0

\* A quote turns it, another character does not.
LEMMA InsideIs ==
  ASSUME NEW cmd, NEW n \in Nat
  PROVE  /\ ~Inside(cmd, 0)
         /\ cmd[n + 1] = "quote" => (Inside(cmd, n + 1) <=> ~Inside(cmd, n))
         /\ cmd[n + 1] # "quote" => (Inside(cmd, n + 1) <=> Inside(cmd, n))
  <1> DEFINE Q(i) == {j \in 1 .. i : cmd[j] = "quote"}
  <1>1. \A i \in Nat : IsFiniteSet(Q(i)) /\ Cardinality(Q(i)) \in Nat
    <2> TAKE i \in Nat
    <2>1. IsFiniteSet(1 .. i)
      BY FS_Interval
    <2>2. IsFiniteSet(Q(i))
      BY <2>1, FS_Subset
    <2> QED BY <2>2, FS_CardinalityType
  <1>2. Q(0) = {}
    OBVIOUS
  <1>3. Cardinality(Q(0)) = 0
    BY <1>2, FS_EmptySet
  <1>4. cmd[n + 1] # "quote" => Q(n + 1) = Q(n)
    OBVIOUS
  <1>5. ASSUME cmd[n + 1] = "quote"
        PROVE  Cardinality(Q(n + 1)) = Cardinality(Q(n)) + 1
    <2>1. Q(n + 1) = Q(n) \cup {n + 1} /\ n + 1 \notin Q(n)
      BY <1>5
    <2> HIDE DEF Q
    <2> QED BY <1>1, <2>1, FS_AddElement
  <1>6. \A k \in Nat : (k + 1) % 2 # 0 <=> k % 2 = 0
    OBVIOUS
  <1> HIDE DEF Q
  <1>7. \A i : Quotes(cmd, i) = Cardinality(Q(i))
    BY DEF Quotes, Q
  <1> QED BY <1>1, <1>3, <1>4, <1>5, <1>6, <1>7 DEF Inside

\* Blanks are not quotes.
LEMMA InsideBlanks ==
  ASSUME NEW cmd, NEW i \in Nat, NEW j \in Nat, i <= j,
         \A k \in i + 1 .. j : cmd[k] = "blank"
  PROVE  \A k \in i .. j : Inside(cmd, k) <=> Inside(cmd, i)
  <1> DEFINE P == {k \in i .. j : Inside(cmd, k) <=> Inside(cmd, i)}
  <1>1. i \in P /\ i \in Int /\ j \in Int
    OBVIOUS
  <1>2. ASSUME NEW k \in i .. j - 1, k \in P PROVE k + 1 \in P
    <2>1. k \in Nat /\ k + 1 \in i .. j /\ cmd[k + 1] # "quote"
      BY <1>2
    <2>2. Inside(cmd, k + 1) <=> Inside(cmd, k)
      BY <2>1, InsideIs
    <2> QED BY <1>2, <2>1, <2>2
  <1> HIDE DEF P
  <1>3. i .. j \subseteq P
    BY <1>1, <1>2, IntervalInduction
  <1> QED BY <1>3 DEF P

\* The characters of an argument, one by one.
LEMMA UnquotedIs ==
  ASSUME NEW cmd \in Seq(Key), NEW i \in 1 .. Len(cmd)
  PROVE  /\ Unquoted(cmd, i)[i - 1] = <<>>
         /\ \A j \in i .. Len(cmd) :
              Unquoted(cmd, i)[j] = IF cmd[j] = "quote" THEN Unquoted(cmd, i)[j - 1]
                                    ELSE Append(Unquoted(cmd, i)[j - 1], cmd[j])
  <1> DEFINE n == Len(cmd)
             S == Seq(Key)
             F(u, j) == IF cmd[j] = "quote" THEN u ELSE Append(u, cmd[j])
             step == [j \in i .. n |-> [u \in S |-> F(u, j)]]
             Def(t) == t = [j \in i - 1 .. n |-> IF j = i - 1 THEN <<>> ELSE F(t[j - 1], j)]
             f == CHOOSE t : Def(t)
  <1>1. n \in Nat /\ i - 1 \in Int /\ i \in Int /\ i = (i - 1) + 1 /\ n \in Int /\ i - 1 <= n
        /\ \A j \in i .. n : cmd[j] \in Key
    OBVIOUS
  <1>2. step \in [i .. n -> [S -> S]]
    BY <1>1
  <1>3. <<>> \in S
    OBVIOUS
  <1>4. Unquoted(cmd, i) = f
    BY DEF Unquoted
  <1> HIDE DEF step
  <1>5. PICK a \in [i - 1 .. n -> S] : Stepwise(a, i - 1, i, n, <<>>, step)
    BY <1>1, <1>2, <1>3, StepFunction
  <1>6. ASSUME NEW j \in i .. n PROVE a[j] = F(a[j - 1], j)
    <2>1. a[j - 1] \in S
      BY <1>1
    <2> QED BY <1>5, <2>1 DEF Stepwise, step
  <1>7. Def(a)
    <2> DEFINE g == [j \in i - 1 .. n |-> IF j = i - 1 THEN <<>> ELSE F(a[j - 1], j)]
    <2>1. ASSUME NEW j \in i - 1 .. n PROVE a[j] = g[j]
      <3>1. j = i - 1 \/ j \in i .. n
        BY <1>1
      <3>2. a[i - 1] = <<>> /\ i - 1 \in i - 1 .. n
        BY <1>1, <1>5 DEF Stepwise
      <3>3. \A m \in i .. n : m # i - 1
        BY <1>1
      <3> HIDE DEF F
      <3> QED BY <1>6, <3>1, <3>2, <3>3
    <2>2. a = [j \in i - 1 .. n |-> a[j]]
      OBVIOUS
    <2> HIDE DEF F
    <2> QED BY <2>1, <2>2
  <1> HIDE DEF F
  <1>8. Def(f)
    BY <1>7, Zenon
  <1> HIDE DEF f
  <1>9. f[i - 1] = <<>>
    BY <1>1, <1>8
  <1>10. ASSUME NEW j \in i .. n PROVE f[j] = F(f[j - 1], j)
    <2>1. j \in i - 1 .. n /\ j # i - 1
      BY <1>1
    <2> QED BY <1>8, <2>1
  <1> QED BY <1>4, <1>9, <1>10 DEF F

\* What a pass over cmd works on.
PassState(cmd) ==
  [args : Seq(Seq(Key)), arg : Seq(Key), i : 1 .. Len(cmd) + 1,
   quoted : BOOLEAN, done : BOOLEAN]

Beginning == [args |-> <<>>, arg |-> <<>>, i |-> 1, quoted |-> FALSE, done |-> FALSE]

\* A step keeps it so.
LEMMA StepIs ==
  ASSUME NEW cmd \in Seq(Key), NEW s \in PassState(cmd)
  PROVE  Step(cmd, s) \in PassState(cmd)
  <1> DEFINE n == Len(cmd)
             j == jump_space(cmd, s.i)
  <1>1. n \in Nat /\ s.i \in 1 .. n + 1 /\ \A k \in 1 .. n : cmd[k] \in Key
    BY DEF PassState
  <1>2. j \in 1 .. n + 1
    <2>1. j \in s.i .. n + 1
      BY <1>1, JumpIs
    <2> QED BY <1>1, <2>1
  <1> HIDE DEF j
  <1>3. CASE s.i <= n /\ cmd[s.i] = "quote"
    <2>1. Step(cmd, s) = [s EXCEPT !.quoted = ~@, !.i = @ + 1]
      BY <1>3 DEF Step
    <2>2. s.i + 1 \in 1 .. n + 1
      BY <1>1, <1>3
    <2> QED BY <2>1, <2>2 DEF PassState
  <1>4. CASE /\ ~(s.i <= n /\ cmd[s.i] = "quote")
             /\ s.i > n \/ (cmd[s.i] = "blank" /\ ~s.quoted)
    <2>1. Step(cmd, s) = [s EXCEPT !.args = Append(@, s.arg), !.arg = <<>>, !.i = j,
                                   !.done = j > n]
      BY <1>4 DEF Step, j
    <2>2. Append(s.args, s.arg) \in Seq(Seq(Key)) /\ <<>> \in Seq(Key) /\ (j > n) \in BOOLEAN
      BY DEF PassState
    <2> QED BY <1>2, <2>1, <2>2 DEF PassState
  <1>5. CASE /\ ~(s.i <= n /\ cmd[s.i] = "quote")
             /\ ~(s.i > n \/ (cmd[s.i] = "blank" /\ ~s.quoted))
    <2>1. Step(cmd, s) = [s EXCEPT !.arg = Append(@, cmd[s.i]), !.i = @ + 1]
      BY <1>5 DEF Step
    <2>2. s.i + 1 \in 1 .. n + 1 /\ s.i \in 1 .. n
      BY <1>1, <1>5
    <2>3. Append(s.arg, cmd[s.i]) \in Seq(Key)
      BY <1>1, <2>2 DEF PassState
    <2> QED BY <2>1, <2>2, <2>3 DEF PassState
  <1> QED BY <1>3, <1>4, <1>5

\* The states of a pass from the beginning of cmd.
Passes(p, cmd) ==
  /\ p \in [0 .. 2 * Len(cmd) + 1 -> PassState(cmd)]
  /\ p[0] = Beginning
  /\ \A n \in 1 .. 2 * Len(cmd) + 1 :
       p[n] = IF p[n - 1].done THEN p[n - 1] ELSE Step(cmd, p[n - 1])

\* A pass goes through them.
LEMMA PassIs ==
  ASSUME NEW cmd \in Seq(Key)
  PROVE  \E p : Passes(p, cmd) /\ Pass(cmd, 1, FALSE) = p[2 * Len(cmd) + 1]
  <1> DEFINE m == 2 * Len(cmd) + 1
             S == PassState(cmd)
             F(s) == IF s.done THEN s ELSE Step(cmd, s)
             step == [n \in 1 .. m |-> [s \in S |-> F(s)]]
             Def(q) == q = [n \in 0 .. m |-> IF n = 0 THEN Beginning ELSE F(q[n - 1])]
             f == CHOOSE q : Def(q)
  <1>1. m \in Nat /\ 0 \in Int /\ 1 \in Int /\ 1 = 0 + 1 /\ m \in Int /\ 0 <= m
    OBVIOUS
  <1>2. Beginning \in S
    BY DEF Beginning, PassState
  <1>3. \A s \in S : F(s) \in S
    BY StepIs
  <1>4. Pass(cmd, 1, FALSE) = f[m]
    BY DEF Pass, Beginning
  <1> HIDE DEF m, S, F
  <1>5. step \in [1 .. m -> [S -> S]]
    BY <1>3
  <1> HIDE DEF step
  <1>6. PICK a \in [0 .. m -> S] : Stepwise(a, 0, 1, m, Beginning, step)
    BY <1>1, <1>2, <1>5, StepFunction
  <1>7. ASSUME NEW n \in 1 .. m PROVE a[n] = F(a[n - 1])
    <2>1. n - 1 \in 0 .. m
      BY <1>1
    <2>2. a[n - 1] \in S
      BY <2>1
    <2> QED BY <1>6, <2>2 DEF Stepwise, step
  <1>8. Def(a)
    <2> DEFINE g == [n \in 0 .. m |-> IF n = 0 THEN Beginning ELSE F(a[n - 1])]
    <2>1. ASSUME NEW n \in 0 .. m PROVE a[n] = g[n]
      <3>1. n = 0 \/ n \in 1 .. m
        BY <1>1
      <3>2. a[0] = Beginning
        BY <1>6 DEF Stepwise
      <3> QED BY <1>7, <3>1, <3>2
    <2>2. a = [n \in 0 .. m |-> a[n]]
      OBVIOUS
    <2> QED BY <2>1, <2>2
  <1>9. Def(f)
    BY <1>8, Zenon
  <1> HIDE DEF f
  <1>10. f[0] = Beginning /\ f \in [0 .. m -> S] /\ \A n \in 1 .. m : f[n] = F(f[n - 1])
    <2> DEFINE P == {n \in 0 .. m : f[n] = a[n]}
    <2>1. f[0] = Beginning
      BY <1>1, <1>9
    <2>2. ASSUME NEW n \in 1 .. m PROVE f[n] = F(f[n - 1])
      <3>1. n \in 0 .. m /\ n # 0
        OBVIOUS
      <3> QED BY <1>9, <3>1
    <2>3. 0 \in P
      BY <1>1, <1>6, <2>1 DEF Stepwise
    <2>4. ASSUME NEW n \in 0 .. m - 1, n \in P PROVE n + 1 \in P
      <3>1. n + 1 \in 1 .. m /\ (n + 1) - 1 = n /\ n + 1 \in 0 .. m
        BY <1>1
      <3>2. f[n + 1] = F(f[n]) /\ a[n + 1] = F(a[n])
        BY <1>7, <2>2, <3>1
      <3> QED BY <2>4, <3>1, <3>2
    <2> HIDE DEF P
    <2>5. 0 .. m \subseteq P
      BY <1>1, <2>3, <2>4, IntervalInduction
    <2>6. \A n \in 0 .. m : f[n] \in S
      BY <2>5 DEF P
    <2>7. f = [n \in 0 .. m |-> f[n]]
      BY <1>9
    <2> QED BY <2>1, <2>2, <2>6, <2>7
  <1>11. Passes(f, cmd)
    BY <1>10 DEF Passes, m, S, F
  <1> QED BY <1>4, <1>11 DEF m

\* The first Len(args) arguments of cmd begin at the places "at", in their order, and
\* nothing that begins before position b is left out.
SplitAt(at, args, cmd, b) ==
  /\ at \in [1 .. Len(args) -> Starts(cmd)]
  /\ \A k, l \in 1 .. Len(args) : k < l => at[k] < at[l]
  /\ \A i \in Starts(cmd) : i < b <=> \E k \in 1 .. Len(args) : at[k] = i
  /\ \A k \in 1 .. Len(args) : args[k] = Unquoted(cmd, at[k])[End(cmd, at[k]) - 1]

\* The argument that begins at b has been copied up to position i.
Copied(arg, cmd, b, i) ==
  /\ b \in Starts(cmd) /\ b <= i
  /\ \A j \in b .. i - 1 : ~Splits(cmd, j)
  /\ arg = Unquoted(cmd, b)[i - 1]

\* How far a pass has come.
Splitting(s, cmd) ==
  /\ s.quoted <=> Inside(cmd, s.i - 1)
  /\ s.done => s.i = Len(cmd) + 1 /\ \E at : SplitAt(at, s.args, cmd, Len(cmd) + 1)
  /\ ~s.done => \E at, b : SplitAt(at, s.args, cmd, b) /\ Copied(s.arg, cmd, b, s.i)

\* A character of an argument, or a quote, belongs to it.
LEMMA CopiedMore ==
  ASSUME NEW cmd \in Seq(Key), NEW arg, NEW b, NEW i \in 1 .. Len(cmd),
         Copied(arg, cmd, b, i), ~Splits(cmd, i)
  PROVE  Copied(IF cmd[i] = "quote" THEN arg ELSE Append(arg, cmd[i]), cmd, b, i + 1)
  <1>1. b \in Starts(cmd) /\ b \in 1 .. Len(cmd) /\ b <= i /\ Len(cmd) \in Nat
    BY DEF Copied, Starts
  <1>2. \A j \in b .. (i + 1) - 1 : ~Splits(cmd, j)
    <2>1. \A j \in b .. (i + 1) - 1 : j \in b .. i - 1 \/ j = i
      BY <1>1
    <2> QED BY <2>1 DEF Copied
  <1>3. i \in b .. Len(cmd) /\ (i + 1) - 1 = i /\ b <= i + 1
    BY <1>1
  <1>4. Unquoted(cmd, b)[i] = IF cmd[i] = "quote" THEN Unquoted(cmd, b)[i - 1]
                              ELSE Append(Unquoted(cmd, b)[i - 1], cmd[i])
    BY <1>1, <1>3, UnquotedIs
  <1> QED BY <1>1, <1>2, <1>3, <1>4 DEF Copied

\* An argument ends at the first blank outside of quotes, or with the line.
LEMMA ArgumentEnds ==
  ASSUME NEW cmd, Len(cmd) \in Nat, NEW arg, NEW b, NEW i \in 1 .. Len(cmd) + 1,
         Copied(arg, cmd, b, i), i = Len(cmd) + 1 \/ Splits(cmd, i)
  PROVE  End(cmd, b) = i
  <1> DEFINE T == {j \in b .. Len(cmd) : Splits(cmd, j)} \cup {Len(cmd) + 1}
             m == Min(T)
  <1>1. b \in 1 .. Len(cmd) /\ b <= i
    BY DEF Copied, Starts
  <1>2. T \in SUBSET Nat /\ T # {}
    BY <1>1
  <1>3. m \in T /\ \A y \in T : m <= y
    BY <1>2, MinIsLeast
  <1>4. i \in T
    BY <1>1
  <1>5. End(cmd, b) = m
    BY DEF End
  <1> HIDE DEF m
  <1>6. m <= i /\ m \in Nat
    BY <1>2, <1>3, <1>4
  <1>7. m >= i
    <2>1. m = Len(cmd) + 1 \/ (m \in b .. Len(cmd) /\ Splits(cmd, m))
      BY <1>3
    <2>2. m \in b .. i - 1 => ~Splits(cmd, m)
      BY DEF Copied
    <2> QED BY <1>1, <1>6, <2>1, <2>2
  <1> QED BY <1>5, <1>6, <1>7

\* Such an argument is one more, and no other begins up to the end of the blanks.
LEMMA SplitMore ==
  ASSUME NEW cmd \in Seq(Key), NEW at, NEW args \in Seq(Seq(Key)), NEW b,
         SplitAt(at, args, cmd, b), NEW arg \in Seq(Key), NEW i \in 1 .. Len(cmd) + 1,
         Copied(arg, cmd, b, i), i = Len(cmd) + 1 \/ Splits(cmd, i),
         NEW j \in i .. Len(cmd) + 1, \A k \in i .. j - 1 : Splits(cmd, k)
  PROVE  \E new : SplitAt(new, Append(args, arg), cmd, j)
  <1> DEFINE n == Len(args)
             more == Append(args, arg)
             new == [k \in 1 .. n + 1 |-> IF k = n + 1 THEN b ELSE at[k]]
  <1>1. /\ n \in Nat /\ Len(more) = n + 1 /\ more[n + 1] = arg
        /\ \A k \in 1 .. n : more[k] = args[k]
    OBVIOUS
  <1>2. b \in Starts(cmd) /\ b \in 1 .. Len(cmd) /\ b <= i /\ Len(cmd) \in Nat
    BY DEF Copied, Starts
  <1>3. /\ at \in [1 .. n -> Starts(cmd)]
        /\ \A k, l \in 1 .. n : k < l => at[k] < at[l]
        /\ \A x \in Starts(cmd) : x < b <=> \E k \in 1 .. n : at[k] = x
        /\ \A k \in 1 .. n : args[k] = Unquoted(cmd, at[k])[End(cmd, at[k]) - 1]
    BY DEF SplitAt
  <1>4. \A k \in 1 .. n + 1 : k \in 1 .. n \/ k = n + 1
    BY <1>1
  <1>5. n + 1 \in 1 .. n + 1 /\ \A k \in 1 .. n : k \in 1 .. n + 1 /\ k # n + 1 /\ k < n + 1
    BY <1>1
  <1>6. new[n + 1] = b /\ \A k \in 1 .. n : new[k] = at[k]
    BY <1>5
  <1>7. new \in [1 .. n + 1 -> Starts(cmd)]
    BY <1>2, <1>3, <1>4
  <1> HIDE DEF n, new, more
  <1>8. ASSUME NEW k \in 1 .. n + 1, NEW l \in 1 .. n + 1, k < l PROVE new[k] < new[l]
    <2>1. k \in 1 .. n
      BY <1>1, <1>8
    <2>2. CASE l \in 1 .. n
      BY <1>3, <1>6, <1>8, <2>1, <2>2
    <2>3. CASE l = n + 1
      <3>1. at[k] \in Starts(cmd) /\ at[k] < b
        BY <1>3, <2>1
      <3> QED BY <1>6, <2>1, <2>3, <3>1
    <2> QED BY <1>4, <2>2, <2>3
  <1>9. ASSUME NEW x \in Starts(cmd) PROVE x < j <=> x < b \/ x = b
    <2>1. x \in 1 .. Len(cmd) /\ ~Splits(cmd, x) /\ (x = 1 \/ Splits(cmd, x - 1))
      BY DEF Starts
    <2>2. x > b => x >= j
      <3>1. SUFFICES ASSUME x > b, x < j PROVE FALSE
        BY <1>2, <2>1
      <3>2. Splits(cmd, x - 1) /\ x - 1 >= b
        BY <1>2, <2>1, <3>1
      <3>3. x - 1 \notin b .. i - 1
        BY <3>2 DEF Copied
      <3>4. x \in i .. j - 1
        BY <1>2, <2>1, <3>1, <3>2, <3>3
      <3> QED BY <2>1, <3>4
    <2>3. b < j
      <3>1. b # i
        BY <1>2 DEF Starts
      <3> QED BY <1>2, <3>1
    <2> QED BY <1>2, <2>1, <2>2, <2>3
  <1>10. ASSUME NEW x \in Starts(cmd)
         PROVE  x < j <=> \E k \in 1 .. n + 1 : new[k] = x
    <2>1. (\E k \in 1 .. n + 1 : new[k] = x) <=> (\E k \in 1 .. n : at[k] = x) \/ x = b
      BY <1>4, <1>5, <1>6
    <2> QED BY <1>3, <1>9, <2>1
  <1>11. ASSUME NEW k \in 1 .. n + 1
         PROVE  more[k] = Unquoted(cmd, new[k])[End(cmd, new[k]) - 1]
    <2>1. CASE k \in 1 .. n
      BY <1>1, <1>3, <1>6, <2>1
    <2>2. CASE k = n + 1
      <3>1. End(cmd, b) = i
        BY <1>2, ArgumentEnds
      <3>2. arg = Unquoted(cmd, b)[i - 1]
        BY DEF Copied
      <3> QED BY <1>1, <1>6, <2>2, <3>1, <3>2
    <2> QED BY <1>4, <2>1, <2>2
  <1>12. SplitAt(new, more, cmd, j)
    BY <1>1, <1>7, <1>8, <1>10, <1>11 DEF SplitAt
  <1> QED BY <1>12 DEF more

\* A step of the pass keeps this, and moves on.
LEMMA StepSplits ==
  ASSUME NEW cmd \in Seq(Key), NEW s \in PassState(cmd), Splitting(s, cmd), ~s.done
  PROVE  LET t == Step(cmd, s) IN Splitting(t, cmd) /\ (t.done \/ t.i > s.i)
  <1> DEFINE n == Len(cmd)
             i == s.i
             j == jump_space(cmd, i)
             t == Step(cmd, s)
  <1>1. /\ n \in Nat /\ i \in 1 .. n + 1 /\ i - 1 \in Nat /\ (i - 1) + 1 = i
        /\ s.args \in Seq(Seq(Key)) /\ s.arg \in Seq(Key) /\ s.quoted \in BOOLEAN
    BY DEF PassState
  <1>2. PICK at, b : SplitAt(at, s.args, cmd, b) /\ Copied(s.arg, cmd, b, i)
    BY DEF Splitting
  <1>3. s.quoted <=> Inside(cmd, i - 1)
    BY DEF Splitting
  <1>4. \A k : Splits(cmd, k) <=> cmd[k] = "blank" /\ ~Inside(cmd, k)
    BY DEF Splits, Inside
  <1>5. /\ cmd[i] = "quote" => (Inside(cmd, i) <=> ~Inside(cmd, i - 1))
        /\ cmd[i] # "quote" => (Inside(cmd, i) <=> Inside(cmd, i - 1))
    <2>1. /\ cmd[(i - 1) + 1] = "quote"
             => (Inside(cmd, (i - 1) + 1) <=> ~Inside(cmd, i - 1))
          /\ cmd[(i - 1) + 1] # "quote"
             => (Inside(cmd, (i - 1) + 1) <=> Inside(cmd, i - 1))
      BY <1>1, InsideIs
    <2> QED BY <1>1, <2>1
  <1>6. /\ s = [args |-> s.args, arg |-> s.arg, i |-> s.i, quoted |-> s.quoted, done |-> s.done]
    BY DEF PassState
  <1>7. CASE i <= n /\ cmd[i] = "quote"
    <2>1. t = [s EXCEPT !.quoted = ~@, !.i = @ + 1]
      BY <1>7 DEF Step
    <2>2. /\ t.args = s.args /\ t.arg = s.arg /\ t.i = i + 1 /\ ~t.done
          /\ t.quoted = ~s.quoted
      BY <1>6, <2>1
    <2>3. i \in 1 .. n /\ ~Splits(cmd, i) /\ (i + 1) - 1 = i /\ i + 1 > i
      BY <1>1, <1>4, <1>7
    <2>4. Copied(s.arg, cmd, b, i + 1)
      BY <1>2, <1>7, <2>3, CopiedMore
    <2>5. t.quoted <=> Inside(cmd, t.i - 1)
      BY <1>3, <1>5, <1>7, <2>2, <2>3
    <2> HIDE DEF t
    <2>6. Splitting(t, cmd)
      BY <1>2, <2>2, <2>4, <2>5 DEF Splitting
    <2> QED BY <2>2, <2>3, <2>6 DEF t
  <1>8. CASE /\ ~(i <= n /\ cmd[i] = "quote")
             /\ ~(i > n \/ (cmd[i] = "blank" /\ ~s.quoted))
    <2>1. t = [s EXCEPT !.arg = Append(@, cmd[s.i]), !.i = @ + 1]
      BY <1>8 DEF Step
    <2>2. /\ t.args = s.args /\ t.arg = Append(s.arg, cmd[i]) /\ t.i = i + 1 /\ ~t.done
          /\ t.quoted = s.quoted
      BY <1>6, <2>1
    <2>3. i \in 1 .. n /\ cmd[i] # "quote" /\ ~Splits(cmd, i) /\ (i + 1) - 1 = i /\ i + 1 > i
      BY <1>1, <1>3, <1>4, <1>5, <1>8
    <2>4. Copied(Append(s.arg, cmd[i]), cmd, b, i + 1)
      BY <1>2, <2>3, CopiedMore
    <2>5. t.quoted <=> Inside(cmd, t.i - 1)
      BY <1>3, <1>5, <2>2, <2>3
    <2> HIDE DEF t
    <2>6. Splitting(t, cmd)
      BY <1>2, <2>2, <2>4, <2>5 DEF Splitting
    <2> QED BY <2>2, <2>3, <2>6 DEF t
  <1>9. CASE /\ ~(i <= n /\ cmd[i] = "quote")
             /\ i > n \/ (cmd[i] = "blank" /\ ~s.quoted)
    <2>1. t = [s EXCEPT !.args = Append(@, s.arg), !.arg = <<>>, !.i = j, !.done = j > n]
      BY <1>9 DEF Step
    <2>2. /\ t.args = Append(s.args, s.arg) /\ t.arg = <<>> /\ t.i = j
          /\ t.done = (j > n) /\ t.quoted = s.quoted
      <3> HIDE DEF j
      <3> QED BY <1>6, <2>1
    <2>3. /\ j \in i .. n + 1 /\ \A k \in i .. j - 1 : cmd[k] = "blank"
          /\ j <= n => cmd[j] # "blank"
      BY <1>1, JumpIs
    <2> HIDE DEF j, t
    <2>4. j \in Nat /\ j - 1 \in Nat /\ i - 1 <= j - 1 /\ j \in 1 .. n + 1
      BY <1>1, <2>3
    <2>5. \A k \in i - 1 .. j - 1 : Inside(cmd, k) <=> Inside(cmd, i - 1)
      <3>1. \A k \in (i - 1) + 1 .. j - 1 : cmd[k] = "blank"
        BY <1>1, <2>3
      <3> QED BY <1>1, <2>4, <3>1, InsideBlanks
    <2>6. t.quoted <=> Inside(cmd, t.i - 1)
      <3>1. j - 1 \in i - 1 .. j - 1
        BY <1>1, <2>3, <2>4
      <3> QED BY <1>3, <2>2, <2>5, <3>1
    <2>7. i = n + 1 \/ ~s.quoted
      BY <1>1, <1>9
    <2>8. \A k \in i .. j - 1 : Splits(cmd, k)
      <3>1. SUFFICES ASSUME NEW k \in i .. j - 1 PROVE Splits(cmd, k)
        OBVIOUS
      <3>2. k \in i - 1 .. j - 1 /\ cmd[k] = "blank" /\ i # n + 1
        BY <1>1, <2>3, <2>4
      <3> QED BY <1>3, <1>4, <2>5, <2>7, <3>2
    <2>9. i = n + 1 \/ Splits(cmd, i)
      <3>1. i # n + 1 => cmd[i] = "blank" /\ ~s.quoted
        BY <1>1, <1>9
      <3> QED BY <1>3, <1>4, <1>5, <3>1
    <2>10. PICK new : SplitAt(new, t.args, cmd, j)
      BY <1>1, <1>2, <2>2, <2>3, <2>8, <2>9, SplitMore
    <2>11. CASE j > n
      <3>1. j = n + 1 /\ t.i = n + 1 /\ t.done
        <4>1. j = n + 1 /\ (j > n) = TRUE
          BY <1>1, <2>4, <2>11
        <4>2. t.done = TRUE
          BY <2>2, <4>1, Zenon
        <4> QED BY <2>2, <4>1, <4>2, Zenon
      <3>2. Splitting(t, cmd)
        BY <2>6, <2>10, <3>1 DEF Splitting
      <3> QED BY <3>1, <3>2 DEF t
    <2>12. CASE j <= n
      <3>1. ~t.done /\ t.i = j /\ j \in 1 .. n /\ i <= n
        <4>1. (j > n) = FALSE /\ j \in 1 .. n /\ i <= n
          BY <1>1, <2>3, <2>4, <2>12
        <4>2. t.done = FALSE
          BY <2>2, <4>1, Zenon
        <4> QED BY <2>2, <4>1, <4>2, Zenon
      <3>2. j > i /\ j - 1 \in i .. j - 1
        <4>1. cmd[i] = "blank" /\ cmd[j] # "blank"
          BY <1>1, <1>9, <2>3, <3>1
        <4> QED BY <1>1, <2>3, <2>4, <4>1
      <3>3. j \in Starts(cmd)
        BY <1>4, <2>3, <2>8, <3>1, <3>2 DEF Starts
      <3>4. Copied(<<>>, cmd, j, j)
        <4>1. Unquoted(cmd, j)[j - 1] = <<>>
          BY <3>1, UnquotedIs
        <4>2. j .. j - 1 = {} /\ j <= j
          BY <3>1
        <4> QED BY <3>3, <4>1, <4>2 DEF Copied
      <3>5. Splitting(t, cmd)
        BY <2>2, <2>6, <2>10, <3>1, <3>4 DEF Splitting
      <3> QED BY <3>1, <3>2, <3>5 DEF t
    <2> QED BY <1>1, <2>4, <2>11, <2>12
  <1> QED BY <1>7, <1>8, <1>9

\* A pass ends, and it has split the whole line.
LEMMA PassSplits ==
  ASSUME NEW cmd \in Seq(Key), cmd # <<>>, cmd[1] # "blank"
  PROVE  LET s == Pass(cmd, 1, FALSE)
         IN  AreWords(s.args, cmd) /\ (s.quoted <=> Inside(cmd, Len(cmd)))
             /\ s.quoted \in BOOLEAN
  <1> DEFINE n == Len(cmd)
             m == 2 * n + 1
  <1>1. n \in Nat /\ n >= 1 /\ m \in Nat /\ 0 \in Int /\ m \in Int /\ 0 <= m
    OBVIOUS
  <1>2. PICK p : Passes(p, cmd) /\ Pass(cmd, 1, FALSE) = p[m]
    BY PassIs
  <1>3. \A k \in 0 .. m : p[k] \in PassState(cmd)
    BY <1>2 DEF Passes
  <1> DEFINE P == {k \in 0 .. m : Splitting(p[k], cmd) /\ (p[k].done \/ p[k].i >= k + 1)}
  <1>4. 0 \in P
    <2>1. p[0] = Beginning
      BY <1>2 DEF Passes
    <2>2. Beginning.i = 1 /\ ~Beginning.done /\ ~Beginning.quoted /\ Beginning.args = <<>>
          /\ Beginning.arg = <<>>
      BY DEF Beginning
    <2>3. 1 \in Starts(cmd) /\ \A x \in Starts(cmd) : x >= 1
      BY <1>1 DEF Starts, Splits
    <2>4. Copied(<<>>, cmd, 1, 1)
      <3>1. 1 \in 1 .. n /\ 1 - 1 = 0
        BY <1>1
      <3>2. Unquoted(cmd, 1)[1 - 1] = <<>>
        BY <3>1, UnquotedIs
      <3> QED BY <2>3, <3>2 DEF Copied
    <2>5. \E at : SplitAt(at, <<>>, cmd, 1)
      <3> DEFINE at == [k \in 1 .. 0 |-> 0]
      <3>1. Len(<<>>) = 0 /\ 1 .. 0 = {}
        OBVIOUS
      <3>2. at \in [1 .. 0 -> Starts(cmd)]
        BY <3>1
      <3>3. \A x \in Starts(cmd) : ~(x < 1)
        BY <2>3 DEF Starts
      <3> HIDE DEF at
      <3>4. SplitAt(at, <<>>, cmd, 1)
        BY <3>1, <3>2, <3>3 DEF SplitAt
      <3> QED BY <3>4
    <2>6. ~Inside(cmd, 1 - 1)
      <3>1. ~Inside(cmd, 0) /\ 1 - 1 = 0
        BY <1>1, InsideIs
      <3> QED BY <3>1
    <2>7. Splitting(Beginning, cmd)
      BY <2>2, <2>4, <2>5, <2>6 DEF Splitting
    <2> QED BY <1>1, <2>1, <2>2, <2>7
  <1>5. ASSUME NEW k \in 0 .. m - 1, k \in P PROVE k + 1 \in P
    <2>1. k + 1 \in 1 .. m /\ k + 1 \in 0 .. m /\ (k + 1) - 1 = k /\ k \in 0 .. m
      BY <1>1
    <2>2. p[k + 1] = IF p[k].done THEN p[k] ELSE Step(cmd, p[k])
      BY <1>2, <2>1 DEF Passes
    <2>3. CASE p[k].done
      BY <1>5, <2>1, <2>2, <2>3
    <2>4. CASE ~p[k].done
      <3> DEFINE s == p[k]
                 t == p[k + 1]
      <3>1. s \in PassState(cmd) /\ t \in PassState(cmd) /\ Splitting(s, cmd) /\ ~s.done
            /\ s.i >= k + 1 /\ t = Step(cmd, s)
        BY <1>3, <1>5, <2>1, <2>2, <2>4
      <3> HIDE DEF s, t
      <3>2. Splitting(t, cmd) /\ (t.done \/ t.i > s.i)
        BY <3>1, StepSplits
      <3>3. s.i \in Nat /\ t.i \in Nat
        BY <3>1 DEF PassState
      <3>4. t.done \/ t.i >= (k + 1) + 1
        BY <2>1, <3>1, <3>2, <3>3
      <3> QED BY <2>1, <3>2, <3>4 DEF t
    <2> QED BY <2>3, <2>4
  <1> HIDE DEF P
  <1>6. 0 .. m \subseteq P
    BY <1>1, <1>4, <1>5, IntervalInduction
  <1> DEFINE s == p[m]
  <1>7. s \in PassState(cmd) /\ Splitting(s, cmd) /\ (s.done \/ s.i >= m + 1)
    <2>1. m \in 0 .. m
      BY <1>1
    <2> QED BY <1>3, <1>6, <2>1 DEF P
  <1> HIDE DEF s
  <1>8. s.done /\ s.quoted \in BOOLEAN
    <2>1. s.i \in 1 .. n + 1 /\ s.quoted \in BOOLEAN
      BY <1>7 DEF PassState
    <2> QED BY <1>1, <1>7, <2>1
  <1>9. (s.quoted <=> Inside(cmd, n)) /\ \E at : SplitAt(at, s.args, cmd, n + 1)
    <2>1. s.i = n + 1 /\ (n + 1) - 1 = n
      BY <1>1, <1>7, <1>8 DEF Splitting
    <2> QED BY <1>7, <1>8, <2>1 DEF Splitting
  <1>10. AreWords(s.args, cmd)
    <2>1. PICK at : SplitAt(at, s.args, cmd, n + 1)
      BY <1>9
    <2>2. \A x \in Starts(cmd) : x < n + 1
      BY <1>1 DEF Starts
    <2> QED BY <2>1, <2>2 DEF SplitAt, AreWords
  <1> QED BY <1>2, <1>8, <1>9, <1>10 DEF s

\* A line that does not begin with a blank and closes its quotes is split into its
\* arguments, whatever it is, and the array has room for them.
THEOREM SplitsTheLine == Spec => []SplitsAsCounted
  <1>1. ASSUME NEW cmd \in Seq(Key), WellFormed(cmd)
        PROVE  /\ AreWords(analyse_command(cmd), cmd)
               /\ argc(cmd) = Len(analyse_command(cmd))
    <2>1. cmd # <<>> /\ cmd[1] # "blank" /\ ~Inside(cmd, Len(cmd))
      BY <1>1 DEF WellFormed, Inside
    <2>2. jump_space(cmd, 1) = 1
      <3> DEFINE j == jump_space(cmd, 1)
      <3>1. Len(cmd) \in Nat /\ 1 \in 1 .. Len(cmd) + 1
        OBVIOUS
      <3>2. j \in 1 .. Len(cmd) + 1 /\ \A k \in 1 .. j - 1 : cmd[k] = "blank"
        BY <3>1, JumpIs
      <3> HIDE DEF j
      <3>3. j = 1
        BY <2>1, <3>1, <3>2
      <3> QED BY <3>3 DEF j
    <2> DEFINE s == Pass(cmd, 1, FALSE)
    <2>3. FirstPass(cmd) = s
      BY <2>2 DEF FirstPass
    <2>4. AreWords(s.args, cmd) /\ s.quoted = FALSE
      BY <2>1, PassSplits
    <2>5. SecondPass(cmd) = s
      BY <2>3, <2>4 DEF SecondPass
    <2> QED BY <2>3, <2>4, <2>5 DEF argc, analyse_command
  <1>2. TypeOK => line \in Seq(Key)
    BY DEF TypeOK, InputOK
  <1>3. TypeOK => SplitsAsCounted
    BY <1>1, <1>2 DEF SplitsAsCounted
  <1> QED BY <1>3, CmdTypeCorrect, PTL

=============================================================================
