-------------------------- MODULE GameServerProofs --------------------------
(***************************************************************************)
(* Theorems about GameServer, for every capacity of the pipe.              *)
(*                                                                         *)
(* The argument: game_stop owns fd_mutex from the moment it clears         *)
(* running_flag to the end of its join (or for ever, when it is            *)
(* cancelled), and a server process exists only while wait_thread waits    *)
(* for it.  So whoever finds running_flag cleared and fd_mutex free finds  *)
(* the last wait_thread joined, and its server gone.                       *)
(*                                                                         *)
(* The second part is about the pipe: game_stop ends the line before it    *)
(* writes its stop, and while the command-line thread sleeps between the   *)
(* two nobody begins another line (LineInv).                               *)
(***************************************************************************)
EXTENDS GameServer, TLAPS

GameInv == TypeOK /\ StopHoldsMutex /\ WaitInv

USE DEF At, Goto

\* The three threads.
LEMMA ThreadNames ==
  /\ "main" \in Thread /\ "cmd" \in Thread /\ "wait" \in Thread
  /\ \A t \in Caller : t \in Thread /\ t # "wait" /\ (t = "main" \/ t = "cmd")
  BY DEF Thread, Caller

\* Moving one thread to a place of its own code keeps PcOK ...
LEMMA PcSet ==
  ASSUME PcOK, NEW t \in Thread, NEW l \in Label(t), pc' = [pc EXCEPT ![t] = l]
  PROVE  PcOK'
  BY DEF PcOK

\* ... and so does moving two.
LEMMA PcSet2 ==
  ASSUME PcOK, NEW t \in Thread, NEW u \in Thread, NEW l \in Label(t),
         NEW m \in Label(u), pc' = [pc EXCEPT ![t] = l, ![u] = m]
  PROVE  PcOK'
  BY DEF PcOK

\* write appends to the pipe when there is room, and keeps its bound.
LEMMA WriteKeeps ==
  ASSUME PipeOK, NEW token \in Token, Write(token)
  PROVE  PipeOK'
  BY PipeAssumption DEF PipeOK, Write

\* Reading from the pipe keeps it too.
LEMMA ReadKeeps ==
  ASSUME PipeOK, pipe_input # <<>>, pipe_input' = Tail(pipe_input)
  PROVE  PipeOK'
  <1>1. /\ Tail(pipe_input) \in Seq(Token)
        /\ Len(Tail(pipe_input)) = Len(pipe_input) - 1
        /\ Len(pipe_input) \in Nat
    BY DEF PipeOK
  <1> QED BY <1>1, PipeAssumption DEF PipeOK

\* After game_stop a caller goes on at a place of its own.
LEMMA ReturnLabel ==
  ASSUME NEW t \in Caller
  PROVE  Return(t) \in Label(t) \ {"end_line", "sleep", "join"}
  BY DEF Return, Label, Caller

\* game_start and game_stop, by either caller, keep the invariant.
LEMMA CallerKeeps ==
  ASSUME GameInv, NEW t \in Caller, CallerStep(t)
  PROVE  GameInv'
  <1>1. CASE game_start(t)
    <2>1. \A v \in Thread : pc'[v] \in Label(v)
      BY <1>1, ThreadNames DEF game_start, GameInv, TypeOK, PcOK, Label, Thread,
         Caller
    <2>2. PcOK'
      BY <1>1, <2>1 DEF game_start, GameInv, TypeOK, PcOK
    <2>3. PipeOK'
      BY <1>1 DEF game_start, GameInv, TypeOK, PipeOK
    <2>4. TypeOK'
      BY <1>1, <2>1, <2>2, <2>3 DEF game_start, GameInv, TypeOK, Caller
    <2>5. StopHoldsMutex' /\ WaitInv'
      BY <1>1, ThreadNames
      DEF game_start, GameInv, TypeOK, PcOK, StopHoldsMutex, WaitInv,
          Caller
    <2> QED BY <2>4, <2>5 DEF GameInv
  <1>2. CASE game_stop_lock(t)
    <2>1. PcOK'
      BY <1>2, PcSet, ThreadNames, ReturnLabel
      DEF game_stop_lock, GameInv, TypeOK, Label, Caller
    <2>2. PipeOK'
      BY <1>2 DEF game_stop_lock, GameInv, TypeOK, PipeOK
    <2>3. TypeOK'
      BY <1>2, <2>1, <2>2 DEF game_stop_lock, GameInv, TypeOK, Caller
    <2>4. StopHoldsMutex' /\ WaitInv'
      BY <1>2, ThreadNames, ReturnLabel
      DEF game_stop_lock, GameInv, TypeOK, PcOK, StopHoldsMutex, WaitInv,
          Caller
    <2> QED BY <2>3, <2>4 DEF GameInv
  <1>3. CASE game_stop_newline(t)
    <2>1. PcOK'
      BY <1>3, PcSet, ThreadNames DEF game_stop_newline, GameInv, TypeOK, Label
    <2>2. PipeOK'
      BY <1>3, WriteKeeps DEF game_stop_newline, GameInv, TypeOK, Token
    <2>3. TypeOK'
      BY <1>3, <2>1, <2>2 DEF game_stop_newline, GameInv, TypeOK, Caller
    <2>4. StopHoldsMutex' /\ WaitInv'
      BY <1>3, ThreadNames
      DEF game_stop_newline, GameInv, TypeOK, PcOK, StopHoldsMutex, WaitInv,
          Caller
    <2> QED BY <2>3, <2>4 DEF GameInv
  <1>4. CASE game_stop_write(t)
    <2>1. PcOK'
      BY <1>4, PcSet, ThreadNames DEF game_stop_write, GameInv, TypeOK, Label
    <2>2. PipeOK'
      BY <1>4, WriteKeeps DEF game_stop_write, GameInv, TypeOK, Token
    <2>3. TypeOK'
      BY <1>4, <2>1, <2>2 DEF game_stop_write, GameInv, TypeOK, Caller
    <2>4. StopHoldsMutex' /\ WaitInv'
      BY <1>4, ThreadNames
      DEF game_stop_write, GameInv, TypeOK, PcOK, StopHoldsMutex, WaitInv,
          Caller
    <2> QED BY <2>3, <2>4 DEF GameInv
  <1>5. CASE game_stop_joined(t)
    <2>1. "off" \in Label("wait")
      BY DEF Label
    <2>2. PcOK'
      BY <1>5, <2>1, PcSet2, ThreadNames, ReturnLabel
      DEF game_stop_joined, GameInv, TypeOK
    <2>3. PipeOK'
      BY <1>5 DEF game_stop_joined, GameInv, TypeOK, PipeOK
    <2>4. TypeOK'
      BY <1>5, <2>1, <2>2, <2>3 DEF game_stop_joined, GameInv, TypeOK, Caller
    <2>5. StopHoldsMutex' /\ WaitInv'
      BY <1>5, ThreadNames, ReturnLabel
      DEF game_stop_joined, GameInv, TypeOK, PcOK, StopHoldsMutex, WaitInv,
          Caller
    <2> QED BY <2>4, <2>5 DEF GameInv
  <1> QED BY <1>1, <1>2, <1>3, <1>4, <1>5 DEF CallerStep

\* A line in minecraft mode keeps it.
LEMMA CmdKeeps ==
  ASSUME GameInv, CmdStep
  PROVE  GameInv'
  <1>1. CASE exec_mc_cmd_text
    <2>1. PcOK'
      BY <1>1, PcSet, ThreadNames DEF exec_mc_cmd_text, GameInv, TypeOK, Label
    <2>2. PipeOK'
      BY <1>1 DEF exec_mc_cmd_text, GameInv, TypeOK, PipeOK
    <2>3. TypeOK'
      BY <1>1, <2>1, <2>2 DEF exec_mc_cmd_text, GameInv, TypeOK, Caller
    <2>4. StopHoldsMutex' /\ WaitInv'
      BY <1>1, ThreadNames
      DEF exec_mc_cmd_text, GameInv, TypeOK, PcOK, StopHoldsMutex, WaitInv,
          Caller
    <2> QED BY <2>3, <2>4 DEF GameInv
  <1>2. CASE game_write_text
    <2>1. PcOK'
      BY <1>2, PcSet, ThreadNames DEF game_write_text, GameInv, TypeOK, Label
    <2>2. PipeOK'
      BY <1>2, WriteKeeps DEF game_write_text, GameInv, TypeOK, Token
    <2>3. TypeOK'
      BY <1>2, <2>1, <2>2 DEF game_write_text, GameInv, TypeOK, Caller
    <2>4. StopHoldsMutex' /\ WaitInv'
      BY <1>2, ThreadNames
      DEF game_write_text, GameInv, TypeOK, PcOK, StopHoldsMutex, WaitInv,
          Caller
    <2> QED BY <2>3, <2>4 DEF GameInv
  <1>3. CASE exec_mc_cmd_newline
    <2>1. PcOK'
      BY <1>3, PcSet, ThreadNames DEF exec_mc_cmd_newline, GameInv, TypeOK, Label
    <2>2. PipeOK'
      BY <1>3 DEF exec_mc_cmd_newline, GameInv, TypeOK, PipeOK
    <2>3. TypeOK'
      BY <1>3, <2>1, <2>2 DEF exec_mc_cmd_newline, GameInv, TypeOK, Caller
    <2>4. StopHoldsMutex' /\ WaitInv'
      BY <1>3, ThreadNames
      DEF exec_mc_cmd_newline, GameInv, TypeOK, PcOK, StopHoldsMutex, WaitInv,
          Caller
    <2> QED BY <2>3, <2>4 DEF GameInv
  <1>4. CASE game_write_newline
    <2>1. PcOK'
      BY <1>4, PcSet, ThreadNames DEF game_write_newline, GameInv, TypeOK, Label
    <2>2. PipeOK'
      BY <1>4, WriteKeeps DEF game_write_newline, GameInv, TypeOK, Token
    <2>3. TypeOK'
      BY <1>4, <2>1, <2>2 DEF game_write_newline, GameInv, TypeOK, Caller
    <2>4. StopHoldsMutex' /\ WaitInv'
      BY <1>4, ThreadNames
      DEF game_write_newline, GameInv, TypeOK, PcOK, StopHoldsMutex, WaitInv,
          Caller
    <2> QED BY <2>3, <2>4 DEF GameInv
  <1> QED BY <1>1, <1>2, <1>3, <1>4 DEF CmdStep

\* server_destroy keeps it.
LEMMA MainKeeps ==
  ASSUME GameInv, MainStep
  PROVE  GameInv'
  <1>1. CASE main_cmdline_destroy
    <2>1. PcOK'
      BY <1>1, PcSet, ThreadNames DEF main_cmdline_destroy, GameInv, TypeOK, Label
    <2>2. PipeOK'
      BY <1>1 DEF main_cmdline_destroy, GameInv, TypeOK, PipeOK
    <2>3. TypeOK'
      BY <1>1, <2>1, <2>2 DEF main_cmdline_destroy, GameInv, TypeOK, Caller
    <2>4. StopHoldsMutex' /\ WaitInv'
      BY <1>1, ThreadNames
      DEF main_cmdline_destroy, GameInv, TypeOK, PcOK, StopHoldsMutex, WaitInv,
          Caller
    <2> QED BY <2>3, <2>4 DEF GameInv
  <1>2. CASE main_game_destroy
    <2>1. PcOK'
      BY <1>2, PcSet, ThreadNames DEF main_game_destroy, GameInv, TypeOK, Label
    <2>2. PipeOK'
      BY <1>2 DEF main_game_destroy, GameInv, TypeOK, PipeOK
    <2>3. TypeOK'
      BY <1>2, <2>1, <2>2 DEF main_game_destroy, GameInv, TypeOK, Caller
    <2>4. StopHoldsMutex' /\ WaitInv'
      BY <1>2, ThreadNames
      DEF main_game_destroy, GameInv, TypeOK, PcOK, StopHoldsMutex, WaitInv,
          Caller
    <2> QED BY <2>3, <2>4 DEF GameInv
  <1> QED BY <1>1, <1>2 DEF MainStep

\* The loop of wait_thread keeps it.
LEMMA WaitKeeps ==
  ASSUME GameInv, WaitStep
  PROVE  GameInv'
  <1>1. CASE wait_thread_loop
    <2>1. PcOK'
      BY <1>1, PcSet, ThreadNames DEF wait_thread_loop, GameInv, TypeOK, Label
    <2>2. PipeOK'
      BY <1>1 DEF wait_thread_loop, GameInv, TypeOK, PipeOK
    <2>3. TypeOK'
      BY <1>1, <2>1, <2>2 DEF wait_thread_loop, GameInv, TypeOK, Caller
    <2>4. StopHoldsMutex' /\ WaitInv'
      BY <1>1, ThreadNames
      DEF wait_thread_loop, GameInv, TypeOK, PcOK, StopHoldsMutex, WaitInv,
          Caller
    <2> QED BY <2>3, <2>4 DEF GameInv
  <1>2. CASE wait_thread_reap
    <2>1. PcOK'
      BY <1>2, PcSet, ThreadNames DEF wait_thread_reap, GameInv, TypeOK, Label
    <2>2. PipeOK'
      BY <1>2 DEF wait_thread_reap, GameInv, TypeOK, PipeOK
    <2>3. TypeOK'
      BY <1>2, <2>1, <2>2 DEF wait_thread_reap, GameInv, TypeOK, Caller
    <2>4. StopHoldsMutex' /\ WaitInv'
      BY <1>2, ThreadNames
      DEF wait_thread_reap, GameInv, TypeOK, PcOK, StopHoldsMutex, WaitInv,
          Caller
    <2> QED BY <2>3, <2>4 DEF GameInv
  <1> QED BY <1>1, <1>2 DEF WaitStep

\* Administrators, the sessions that come and go, a SIGTERM, failing forks and a
\* server that exits keep it.
LEMMA EnvironmentKeeps ==
  ASSUME GameInv, Environment
  PROVE  GameInv'
  <1>1. ASSUME NEW label \in {"start", "lock", "text"}, exec_server_cmd(label)
        PROVE  GameInv'
    <2>1. PcOK'
      BY <1>1, PcSet, ThreadNames DEF exec_server_cmd, GameInv, TypeOK, Label
    <2>2. PipeOK'
      BY <1>1 DEF exec_server_cmd, GameInv, TypeOK, PipeOK
    <2>3. TypeOK'
      BY <1>1, <2>1, <2>2 DEF exec_server_cmd, GameInv, TypeOK, Caller
    <2>4. StopHoldsMutex' /\ WaitInv'
      BY <1>1, ThreadNames
      DEF exec_server_cmd, GameInv, TypeOK, PcOK, StopHoldsMutex, WaitInv,
          Caller
    <2> QED BY <2>3, <2>4 DEF GameInv
  <1>2. CASE cmdline_stop
    <2>1. PcOK'
      BY <1>2 DEF cmdline_stop, GameInv, TypeOK, PcOK
    <2>2. PipeOK'
      BY <1>2 DEF cmdline_stop, GameInv, TypeOK, PipeOK
    <2>3. TypeOK'
      BY <1>2, <2>1, <2>2 DEF cmdline_stop, GameInv, TypeOK, Caller
    <2>4. StopHoldsMutex' /\ WaitInv'
      BY <1>2, ThreadNames
      DEF cmdline_stop, GameInv, TypeOK, PcOK, StopHoldsMutex, WaitInv,
          Caller
    <2> QED BY <2>3, <2>4 DEF GameInv
  <1>3. CASE cmdline_start
    <2>1. PcOK'
      BY <1>3, PcSet, ThreadNames DEF cmdline_start, GameInv, TypeOK, Label
    <2>2. PipeOK'
      BY <1>3 DEF cmdline_start, GameInv, TypeOK, PipeOK
    <2>3. TypeOK'
      BY <1>3, <2>1, <2>2 DEF cmdline_start, GameInv, TypeOK, Caller
    <2>4. StopHoldsMutex' /\ WaitInv'
      BY <1>3, ThreadNames
      DEF cmdline_start, GameInv, TypeOK, PcOK, StopHoldsMutex, WaitInv,
          Caller
    <2> QED BY <2>3, <2>4 DEF GameInv
  <1>4. CASE main_server_stop
    <2>1. PcOK'
      BY <1>4, PcSet, ThreadNames DEF main_server_stop, GameInv, TypeOK, Label
    <2>2. PipeOK'
      BY <1>4 DEF main_server_stop, GameInv, TypeOK, PipeOK
    <2>3. TypeOK'
      BY <1>4, <2>1, <2>2 DEF main_server_stop, GameInv, TypeOK, Caller
    <2>4. StopHoldsMutex' /\ WaitInv'
      BY <1>4, ThreadNames
      DEF main_server_stop, GameInv, TypeOK, PcOK, StopHoldsMutex, WaitInv,
          Caller
    <2> QED BY <2>3, <2>4 DEF GameInv
  <1>5. CASE run_server_fails
    <2>1. PcOK'
      BY <1>5, PcSet, ThreadNames DEF run_server_fails, GameInv, TypeOK, Label
    <2>2. PipeOK'
      BY <1>5 DEF run_server_fails, GameInv, TypeOK, PipeOK
    <2>3. TypeOK'
      BY <1>5, <2>1, <2>2 DEF run_server_fails, GameInv, TypeOK, Caller
    <2>4. StopHoldsMutex' /\ WaitInv'
      BY <1>5, ThreadNames
      DEF run_server_fails, GameInv, TypeOK, PcOK, StopHoldsMutex, WaitInv,
          Caller
    <2> QED BY <2>3, <2>4 DEF GameInv
  <1>6. CASE server_exits
    <2>1. PcOK'
      BY <1>6 DEF server_exits, GameInv, TypeOK, PcOK
    <2>2. PipeOK'
      BY <1>6 DEF server_exits, GameInv, TypeOK, PipeOK
    <2>3. TypeOK'
      BY <1>6, <2>1, <2>2 DEF server_exits, GameInv, TypeOK, Caller
    <2>4. StopHoldsMutex' /\ WaitInv'
      BY <1>6, ThreadNames
      DEF server_exits, GameInv, TypeOK, PcOK, StopHoldsMutex, WaitInv,
          Caller
    <2> QED BY <2>3, <2>4 DEF GameInv
  <1> QED BY <1>1, <1>2, <1>3, <1>4, <1>5, <1>6 DEF Environment

\* fork, cancellation and the server process keep it.
LEMMA OtherKeeps ==
  ASSUME GameInv, run_server \/ cmd_cancelled \/ server_reads
  PROVE  GameInv'
  <1>1. CASE run_server
    <2>1. PcOK'
      BY <1>1, PcSet, ThreadNames DEF run_server, GameInv, TypeOK, Label
    <2>2. PipeOK'
      BY <1>1 DEF run_server, GameInv, TypeOK, PipeOK
    <2>3. TypeOK'
      BY <1>1, <2>1, <2>2 DEF run_server, GameInv, TypeOK, Caller
    <2>4. StopHoldsMutex' /\ WaitInv'
      BY <1>1, ThreadNames
      DEF run_server, GameInv, TypeOK, PcOK, StopHoldsMutex, WaitInv,
          Caller
    <2> QED BY <2>3, <2>4 DEF GameInv
  <1>2. CASE cmd_cancelled
    <2>1. PcOK'
      BY <1>2, PcSet, ThreadNames DEF cmd_cancelled, GameInv, TypeOK, Label
    <2>2. PipeOK'
      BY <1>2 DEF cmd_cancelled, GameInv, TypeOK, PipeOK
    <2>3. TypeOK'
      BY <1>2, <2>1, <2>2 DEF cmd_cancelled, GameInv, TypeOK, Caller
    <2>4. StopHoldsMutex' /\ WaitInv'
      BY <1>2, ThreadNames
      DEF cmd_cancelled, GameInv, TypeOK, PcOK, StopHoldsMutex, WaitInv,
          Caller
    <2> QED BY <2>3, <2>4 DEF GameInv
  <1>3. CASE server_reads
    <2>1. PcOK'
      BY <1>3 DEF server_reads, GameInv, TypeOK, PcOK
    <2>2. PipeOK'
      BY <1>3, ReadKeeps DEF server_reads, GameInv, TypeOK
    <2>3. TypeOK'
      BY <1>3, <2>1, <2>2 DEF server_reads, GameInv, TypeOK, Caller
    <2>4. StopHoldsMutex' /\ WaitInv'
      BY <1>3, ThreadNames
      DEF server_reads, GameInv, TypeOK, PcOK, StopHoldsMutex, WaitInv,
          Caller
    <2> QED BY <2>3, <2>4 DEF GameInv
  <1> QED BY <1>1, <1>2, <1>3

\* The daemon starts without a server, and nothing holds fd_mutex.
LEMMA GameInit == Init => GameInv
  <1> SUFFICES ASSUME Init PROVE GameInv OBVIOUS
  <1>1. PcOK BY DEF Init, PcOK, Label, Thread, Caller
  <1>2. PipeOK BY PipeAssumption DEF Init, PipeOK
  <1>3. TypeOK BY <1>1, <1>2 DEF Init, TypeOK
  <1>4. StopHoldsMutex /\ WaitInv
    BY DEF Init, StopHoldsMutex, WaitInv, Thread, Caller
  <1> QED BY <1>3, <1>4 DEF GameInv

\* Every step preserves the invariant.
LEMMA GameNext == GameInv /\ [Next]_vars => GameInv'
  <1> SUFFICES ASSUME GameInv, [Next]_vars PROVE GameInv' OBVIOUS
  <1>1. CASE UNCHANGED vars
    BY <1>1 DEF vars, GameInv, TypeOK, PcOK, PipeOK, StopHoldsMutex, WaitInv
  <1>2. CASE Next
    BY <1>2, CallerKeeps, CmdKeeps, MainKeeps, WaitKeeps, EnvironmentKeeps,
       OtherKeeps DEF Next
  <1> QED BY <1>1, <1>2

\* The invariant holds in every run of start, stop, cancellation and crashes.
THEOREM GameSpecInv == Spec => []GameInv
  BY GameInit, GameNext, PTL DEF Spec

\* Every variable keeps its shape, and no write of game_stop or exec_mc_cmd
\* overfills the pipe, whatever its capacity.
THEOREM GameTypeCorrect == Spec => []TypeOK
  <1>1. GameInv => TypeOK BY DEF GameInv
  <1> QED BY <1>1, GameSpecInv, PTL

\* When running_flag is cleared and fd_mutex free, the server process and its
\* wait_thread are gone, although game_stop can be cancelled half way.
THEOREM StoppedIsGone == Spec => []StoppedMeansGone
  <1>1. GameInv => StoppedMeansGone
    BY DEF GameInv, TypeOK, PcOK, WaitInv, StoppedMeansGone
  <1> QED BY <1>1, GameSpecInv, PTL

\* game_start never creates a wait_thread beside another one.
THEOREM StartsOneWaitThread == Spec => OneWaitThread
  <1>1. GameInv /\ [Next]_vars
          => [~running_flag /\ running_flag' => At("wait", "off")]_vars
    <2> SUFFICES ASSUME GameInv, Next, ~running_flag, running_flag'
                 PROVE  At("wait", "off")
      OBVIOUS
    <2>1. ASSUME NEW t \in Caller, CallerStep(t) PROVE At("wait", "off")
      BY <2>1 DEF CallerStep, game_start, game_stop_lock, game_stop_newline,
         game_stop_write, game_stop_joined, GameInv, WaitInv
    <2> QED
      BY <2>1
      DEF Next, CmdStep, MainStep, WaitStep, Environment, exec_mc_cmd_text,
          game_write_text, exec_mc_cmd_newline, game_write_newline,
          main_cmdline_destroy, main_game_destroy, wait_thread_loop,
          wait_thread_reap, exec_server_cmd, cmdline_stop, cmdline_start,
          main_server_stop, run_server_fails, server_exits, run_server,
          cmd_cancelled, server_reads
  <1> QED BY <1>1, GameSpecInv, PTL DEF Spec, OneWaitThread

-----------------------------------------------------------------------------
\* The stop command is a line of its own.

\* What the pipe holds after a write ...
LEMMA Written ==
  ASSUME PipeOK, NEW token \in Token, Write(token)
  PROVE  /\ Len(pipe_input) \in Nat /\ Len(pipe_input') = Len(pipe_input) + 1
         /\ pipe_input'[Len(pipe_input')] = token
         /\ pipe_input' # <<>>
         /\ \A i \in 1 .. Len(pipe_input) : pipe_input'[i] = pipe_input[i]
         /\ pipe_input = <<>> <=> Len(pipe_input) = 0
  <1>1. /\ pipe_input \in Seq(Token) /\ Len(pipe_input) \in Nat
        /\ pipe_input' = Append(pipe_input, token)
    BY DEF PipeOK, Write
  <1>2. /\ Len(pipe_input') = Len(pipe_input) + 1
        /\ pipe_input'[Len(pipe_input) + 1] = token
        /\ \A i \in 1 .. Len(pipe_input) : pipe_input'[i] = pipe_input[i]
    BY <1>1
  <1>3. pipe_input = <<>> <=> Len(pipe_input) = 0
    BY <1>1
  <1>4. pipe_input' # <<>>
    BY <1>1
  <1> QED BY <1>1, <1>2, <1>3, <1>4

\* ... and after a read.
LEMMA ReadBack ==
  ASSUME PipeOK, pipe_input # <<>>, pipe_input' = Tail(pipe_input)
  PROVE  /\ Len(pipe_input) \in Nat /\ Len(pipe_input') = Len(pipe_input) - 1
         /\ Head(pipe_input) = pipe_input[1]
         /\ pipe_input' = <<>> <=> Len(pipe_input) = 1
         /\ \A i \in 1 .. Len(pipe_input') : pipe_input'[i] = pipe_input[i + 1]
  <1>1. pipe_input \in Seq(Token) /\ Len(pipe_input) \in Nat
    BY DEF PipeOK
  <1>2. /\ pipe_input' \in Seq(Token) /\ Len(pipe_input') = Len(pipe_input) - 1
        /\ Head(pipe_input) = pipe_input[1]
        /\ \A i \in 1 .. Len(pipe_input') : pipe_input'[i] = pipe_input[i + 1]
    BY <1>1
  <1>3. pipe_input' = <<>> <=> Len(pipe_input') = 0
    BY ONLY <1>2
  <1> QED BY <1>1, <1>2, <1>3

\* A step that leaves the pipe alone, keeps the server's place in a line or
\* starts a new server, and does not end a line.
Quiet ==
  /\ pipe_input' = pipe_input
  /\ child' = "up" => (child = "up" /\ partial' = partial) \/ ~partial'
  /\ pc'["cmd"] = "sleep" => pc["cmd"] = "sleep"

\* A write of something else than stop by a thread that does not go to sleep, or
\* a newline.
Harmless(token) ==
  /\ Write(token)
  /\ token # "stop"
  /\ pc'["cmd"] = "sleep" => token = "newline"
  /\ UNCHANGED <<child, partial>>

\* A quiet step keeps the promise that a stop is a line.
LEMMA QuietKeepsLine ==
  ASSUME StopIsALine, LineInv, Quiet, pc["main"] \in {"start", "serving"}
  PROVE  StopIsALine' /\ LineInv'
  BY DEF StopIsALine, LineInv, LineEnded, Quiet

\* So does a harmless write, which puts no stop into the pipe.
LEMMA HarmlessKeepsLine ==
  ASSUME PipeOK, StopIsALine, LineInv, pc["main"] \in {"start", "serving"},
         NEW token \in Token, Harmless(token)
  PROVE  StopIsALine' /\ LineInv'
  <1>1. UNCHANGED <<child, partial>> /\ token # "stop" /\ Write(token)
    BY DEF Harmless
  <1>2. /\ Len(pipe_input) \in Nat /\ Len(pipe_input') = Len(pipe_input) + 1
        /\ pipe_input'[Len(pipe_input')] = token
        /\ pipe_input' # <<>>
        /\ \A i \in 1 .. Len(pipe_input) : pipe_input'[i] = pipe_input[i]
    BY <1>1, Written
  <1>3. ASSUME NEW i \in 1 .. Len(pipe_input'), pipe_input'[i] = "stop"
        PROVE  IF i = 1 THEN child' = "up" => ~partial' ELSE pipe_input'[i - 1] # "text"
    <2>1. i \in 1 .. Len(pipe_input) /\ (i # 1 => i - 1 \in 1 .. Len(pipe_input))
      BY <1>1, <1>2, <1>3
    <2>2. pipe_input[i] = "stop"
      BY <1>2, <1>3, <2>1
    <2> QED BY <1>1, <1>2, <2>1, <2>2 DEF StopIsALine
  <1> QED BY <1>2, <1>3 DEF StopIsALine, LineInv, LineEnded, Harmless

\* game_stop writes its stop behind the line it has ended.
LEMMA StopKeepsLine ==
  ASSUME PipeOK, StopIsALine, LineInv, pc["main"] \in {"start", "serving"},
         At("cmd", "sleep"), Write("stop"), UNCHANGED <<child, partial>>,
         pc'["cmd"] # "sleep"
  PROVE  StopIsALine' /\ LineInv'
  <1>1. /\ Len(pipe_input) \in Nat /\ Len(pipe_input') = Len(pipe_input) + 1
        /\ \A i \in 1 .. Len(pipe_input) : pipe_input'[i] = pipe_input[i]
        /\ pipe_input = <<>> <=> Len(pipe_input) = 0
    BY Written DEF Token
  <1>2. LineEnded
    BY DEF LineInv
  <1>3. ASSUME NEW i \in 1 .. Len(pipe_input'), pipe_input'[i] = "stop"
        PROVE  IF i = 1 THEN child' = "up" => ~partial' ELSE pipe_input'[i - 1] # "text"
    <2>1. CASE i \in 1 .. Len(pipe_input)
      <3>1. pipe_input[i] = "stop" /\ (i # 1 => i - 1 \in 1 .. Len(pipe_input))
        BY <1>1, <1>3, <2>1
      <3> QED BY <1>1, <2>1, <3>1 DEF StopIsALine
    <2>2. CASE i = Len(pipe_input) + 1 /\ Len(pipe_input) = 0
      BY <1>1, <1>2, <2>2 DEF LineEnded
    <2>3. CASE i = Len(pipe_input) + 1 /\ Len(pipe_input) # 0
      <3>1. i # 1 /\ i - 1 = Len(pipe_input) /\ i - 1 \in 1 .. Len(pipe_input)
        BY <1>1, <2>3
      <3> QED BY <1>1, <1>2, <2>3, <3>1 DEF LineEnded
    <2> QED BY <1>1, <2>1, <2>2, <2>3
  <1> QED BY <1>3 DEF StopIsALine, LineInv

\* The game server has read a whole line when it comes to a stop.
LEMMA ReadingKeepsLine ==
  ASSUME PipeOK, StopIsALine, LineInv, pc["main"] \in {"start", "serving"},
         server_reads
  PROVE  StopIsALine' /\ LineInv'
  <1>1. /\ pipe_input # <<>> /\ pipe_input' = Tail(pipe_input) /\ pc' = pc
        /\ partial' = (Head(pipe_input) = "text")
    BY DEF server_reads
  <1>2. /\ Len(pipe_input) \in Nat /\ Len(pipe_input') = Len(pipe_input) - 1
        /\ Head(pipe_input) = pipe_input[1]
        /\ pipe_input' = <<>> <=> Len(pipe_input) = 1
        /\ \A i \in 1 .. Len(pipe_input') : pipe_input'[i] = pipe_input[i + 1]
    BY <1>1, ReadBack
  <1>3. Len(pipe_input) >= 1
    BY <1>1, <1>2 DEF PipeOK
  <1>4. ASSUME NEW i \in 1 .. Len(pipe_input'), pipe_input'[i] = "stop"
        PROVE  IF i = 1 THEN child' = "up" => ~partial' ELSE pipe_input'[i - 1] # "text"
    <2>1. /\ i + 1 \in 1 .. Len(pipe_input) /\ i + 1 # 1 /\ (i + 1) - 1 = i
          /\ pipe_input[i + 1] = "stop"
      BY <1>2, <1>4
    <2>2. pipe_input[i] # "text"
      BY <2>1 DEF StopIsALine
    <2>3. CASE i = 1
      BY <1>1, <1>2, <2>2, <2>3
    <2>4. CASE i # 1
      <3>1. i - 1 \in 1 .. Len(pipe_input') /\ (i - 1) + 1 = i
        BY <2>4
      <3> QED BY <1>2, <2>2, <2>4, <3>1
    <2> QED BY <2>3, <2>4
  <1>5. At("cmd", "sleep") => LineEnded'
    <2> SUFFICES ASSUME At("cmd", "sleep") PROVE LineEnded'
      OBVIOUS
    <2>1. pipe_input[Len(pipe_input)] # "text"
      BY <1>1 DEF LineInv, LineEnded
    <2>2. CASE Len(pipe_input) = 1
      BY <1>1, <1>2, <2>1, <2>2 DEF LineEnded
    <2>3. CASE Len(pipe_input) # 1
      <3>1. /\ Len(pipe_input') \in 1 .. Len(pipe_input')
            /\ Len(pipe_input') + 1 = Len(pipe_input)
        BY <1>2, <1>3, <2>3
      <3> QED BY <1>2, <2>1, <2>3, <3>1 DEF LineEnded
    <2> QED BY <2>2, <2>3
  <1> QED BY <1>1, <1>4, <1>5 DEF StopIsALine, LineInv

\* Every step of every thread keeps it: only the command-line thread writes while
\* the service is up.
LEMMA LineNext ==
  ASSUME GameInv, StopIsALine, LineInv, [Next]_vars
  PROVE  StopIsALine' /\ LineInv'
  <1>1. PipeOK /\ PcOK
    BY DEF GameInv, TypeOK
  <1>0. SUFFICES ASSUME pc'["main"] \in {"start", "serving"}
                 PROVE  StopIsALine' /\ LineInv'
    BY DEF StopIsALine, LineInv
  <1>2. CASE UNCHANGED vars
    BY <1>2 DEF vars, StopIsALine, LineInv, LineEnded
  <1>3. ASSUME NEW t \in Caller, CallerStep(t)
        PROVE  StopIsALine' /\ LineInv'
    <2>1. CASE game_start(t)
      <3>1. pc["main"] \in {"start", "serving"} /\ Quiet
        BY <1>0, <1>1, <2>1 DEF game_start, Quiet, PcOK, Thread, Caller
      <3> QED BY <3>1, QuietKeepsLine
    <2>2. CASE game_stop_lock(t)
      <3>1. pc["main"] \in {"start", "serving"} /\ Quiet
        BY <1>0, <1>1, <2>2, ReturnLabel
        DEF game_stop_lock, Quiet, PcOK, Thread, Caller, Return
      <3> QED BY <3>1, QuietKeepsLine
    <2>3. CASE game_stop_newline(t)
      <3>1. pc["main"] \in {"start", "serving"} /\ Harmless("newline")
        BY <1>0, <1>1, <2>3 DEF game_stop_newline, Harmless, PcOK, Thread, Caller
      <3> QED BY <1>1, <3>1, HarmlessKeepsLine DEF Token
    <2>4. CASE game_stop_write(t)
      <3>1. /\ pc["main"] \in {"start", "serving"} /\ t = "cmd"
            /\ pc'["cmd"] = "join"
        BY <1>0, <1>1, <2>4 DEF game_stop_write, PcOK, Thread, Caller
      <3> QED BY <1>1, <2>4, <3>1, StopKeepsLine DEF game_stop_write
    <2>5. CASE game_stop_joined(t)
      <3>1. pc["main"] \in {"start", "serving"} /\ Quiet
        BY <1>0, <1>1, <2>5, ReturnLabel
        DEF game_stop_joined, Quiet, PcOK, Thread, Caller, Return
      <3> QED BY <3>1, QuietKeepsLine
    <2> QED BY <1>3, <2>1, <2>2, <2>3, <2>4, <2>5 DEF CallerStep
  <1>4. CASE CmdStep
    <2>0. pc["main"] \in {"start", "serving"}
      BY <1>0, <1>1, <1>4
      DEF CmdStep, exec_mc_cmd_text, game_write_text, exec_mc_cmd_newline,
          game_write_newline, PcOK, Thread, Caller
    <2>1. CASE exec_mc_cmd_text \/ exec_mc_cmd_newline
      <3>1. Quiet
        BY <1>1, <2>1 DEF exec_mc_cmd_text, exec_mc_cmd_newline, Quiet, PcOK, Thread
      <3> QED BY <2>0, <3>1, QuietKeepsLine
    <2>2. CASE game_write_text
      <3>1. Harmless("text")
        BY <1>1, <2>2 DEF game_write_text, Harmless, PcOK, Thread
      <3> QED BY <1>1, <2>0, <3>1, HarmlessKeepsLine DEF Token
    <2>3. CASE game_write_newline
      <3>1. Harmless("newline")
        BY <1>1, <2>3 DEF game_write_newline, Harmless, PcOK, Thread
      <3> QED BY <1>1, <2>0, <3>1, HarmlessKeepsLine DEF Token
    <2> QED BY <1>4, <2>1, <2>2, <2>3 DEF CmdStep
  <1>5. CASE server_reads
    <2>1. pc["main"] \in {"start", "serving"}
      BY <1>0, <1>5 DEF server_reads
    <2> QED BY <1>1, <1>5, <2>1, ReadingKeepsLine
  <1>6. CASE MainStep \/ WaitStep \/ run_server \/ cmd_cancelled \/ Environment
    <2>1. pc["main"] \in {"start", "serving"} /\ Quiet
      <3>1. CASE MainStep
        BY <1>0, <1>1, <3>1
        DEF MainStep, main_cmdline_destroy, main_game_destroy, PcOK, Thread, Caller, Quiet
      <3>2. CASE WaitStep \/ run_server \/ cmd_cancelled
        BY <1>0, <1>1, <3>2
        DEF WaitStep, wait_thread_loop, wait_thread_reap, run_server, cmd_cancelled,
            PcOK, Thread, Caller, Quiet
      <3>3. CASE Environment
        BY <1>0, <1>1, <3>3
        DEF Environment, exec_server_cmd, cmdline_stop, cmdline_start, main_server_stop,
            run_server_fails, server_exits, PcOK, Thread, Caller, Quiet
      <3> QED BY <1>6, <3>1, <3>2, <3>3
    <2> QED BY <2>1, QuietKeepsLine
  <1> QED BY <1>2, <1>3, <1>4, <1>5, <1>6 DEF Next

\* The stop of an administrator reaches the server as a line of its own, for
\* every capacity of the pipe, whoever was cut off before in the middle of a
\* minecraft command.
THEOREM StopReachesServer == Spec => []StopIsALine
  <1>1. Init => StopIsALine /\ LineInv
    BY DEF Init, StopIsALine, LineInv, LineEnded, Thread, Caller
  <1>2. GameInv /\ StopIsALine /\ LineInv /\ [Next]_vars => StopIsALine' /\ LineInv'
    BY LineNext
  <1> QED BY <1>1, <1>2, GameSpecInv, PTL DEF Spec

=============================================================================
