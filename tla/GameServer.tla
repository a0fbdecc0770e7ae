----------------------------- MODULE GameServer -----------------------------
(***************************************************************************)
(* game-server.c and its callers: the start, stop and minecraft-mode       *)
(* commands of the command-line thread, server_start, server_stop and      *)
(* server_destroy of main(), the wait_thread that keeps a game server      *)
(* process running, and that process at the other end of pipe_input.       *)
(*                                                                         *)
(* A command-line thread is cancelled when its administrator leaves; the   *)
(* request acts where the thread blocks, and leaves fd_mutex as it is.     *)
(***************************************************************************)
EXTENDS Naturals, Sequences

CONSTANT PIPE_CAPACITY   \* what pipe_input holds before a write blocks

ASSUME PipeAssumption == PIPE_CAPACITY \in Nat \ {0}

VARIABLES
  running_flag,   \* game-server.c: the server is to be kept running
  fd_mutex,       \* game-server.c: the thread that holds it, or "none"
  pipe_input,     \* unread input of the game server
  child,          \* the server process: "none", "up" or "exited" (a zombie)
  partial,        \* it has read the beginning of a line
  cancel,         \* the command-line thread has been cancelled
  destroying,     \* main() is in server_destroy
  pc              \* where each thread is

vars == <<running_flag, fd_mutex, pipe_input, child, partial, cancel,
          destroying, pc>>

Caller == {"main", "cmd"}
Thread == Caller \cup {"wait"}
\* A piece of input: text without its newline, a newline, a whole stop line.
Token  == {"text", "newline", "stop"}

Init ==
  /\ running_flag = FALSE
  /\ fd_mutex = "none"
  /\ pipe_input = <<>>
  /\ child = "none"
  /\ partial = FALSE
  /\ cancel = FALSE
  /\ destroying = FALSE
  /\ pc = [t \in Thread |-> CASE t = "main" -> "start"
                              [] t = "cmd"  -> "dead"
                              [] t = "wait" -> "off"]

At(t, label)   == pc[t] = label
Goto(t, label) == pc' = [pc EXCEPT ![t] = label]

\* Where a caller goes on after game_stop.
Return(t) == CASE t = "cmd" -> "readline"
               [] t = "main" /\ destroying -> "exited"
               [] OTHER -> "cmdline_stop"

\* write(pipe_input[FD_WRITE], token), which blocks while the pipe is full
Write(token) ==
  /\ Len(pipe_input) < PIPE_CAPACITY
  /\ pipe_input' = Append(pipe_input, token)
-----------------------------------------------------------------------------
(* game_start and game_stop                                                *)

\* under fd_mutex; main() gives up when wait_thread cannot be created
game_start(t) ==
  /\ At(t, "start")
  /\ fd_mutex = "none"
  /\ \E created \in BOOLEAN :
       /\ running_flag' = (running_flag \/ created)
       /\ pc' = [pc EXCEPT
                   !["wait"] = IF ~running_flag /\ created THEN "loop" ELSE @,
                   ![t] = CASE t = "cmd" -> "readline"
                            [] t = "main" /\ running_flag' -> "serving"
                            [] OTHER -> "exited"]
  /\ UNCHANGED <<fd_mutex, pipe_input, child, partial, cancel, destroying>>

\* running_flag is cleared, and fd_mutex is kept until the join
game_stop_lock(t) ==
  /\ At(t, "lock")
  /\ fd_mutex = "none"
  /\ IF running_flag
     THEN /\ running_flag' = FALSE
          /\ fd_mutex' = t
          /\ Goto(t, "end_line")
     ELSE /\ Goto(t, Return(t))
          /\ UNCHANGED <<running_flag, fd_mutex>>
  /\ UNCHANGED <<pipe_input, child, partial, cancel, destroying>>

\* Mutant: the unfinished line is not ended.
game_stop_newline_skipped(t) ==
  /\ At(t, "end_line")
  /\ Goto(t, "sleep")
  /\ UNCHANGED <<running_flag, fd_mutex, pipe_input, child, partial, cancel,
                 destroying>>

\* a newline ends whatever was typed before ...
game_stop_newline(t) ==
  /\ At(t, "end_line")
  /\ Write("newline")
  /\ Goto(t, "sleep")
  /\ UNCHANGED <<running_flag, fd_mutex, child, partial, cancel, destroying>>

\* Mutant: fd_mutex is released before the join.
game_stop_write_unlocks(t) ==
  /\ At(t, "sleep")
  /\ Write("stop")
  /\ fd_mutex' = "none"
  /\ Goto(t, "join")
  /\ UNCHANGED <<running_flag, child, partial, cancel, destroying>>

\* ... and one second later the stop command follows
game_stop_write(t) ==
  /\ At(t, "sleep")
  /\ Write("stop")
  /\ Goto(t, "join")
  /\ UNCHANGED <<running_flag, fd_mutex, child, partial, cancel, destroying>>

game_stop_joined(t) ==
  /\ At(t, "join") /\ At("wait", "done")
  /\ fd_mutex' = "none"
  /\ pc' = [pc EXCEPT !["wait"] = "off", ![t] = Return(t)]
  /\ UNCHANGED <<running_flag, pipe_input, child, partial, cancel, destroying>>
-----------------------------------------------------------------------------
(* wait_thread and run_server                                              *)

wait_thread_loop ==
  /\ At("wait", "loop")
  /\ Goto("wait", IF running_flag THEN "fork" ELSE "done")
  /\ UNCHANGED <<running_flag, fd_mutex, pipe_input, child, partial, cancel,
                 destroying>>

\* fork under fd_mutex; the child process starts reading the shared pipe
run_server ==
  /\ At("wait", "fork")
  /\ fd_mutex = "none"
  /\ child' = "up"
  /\ partial' = FALSE
  /\ Goto("wait", "waitpid")
  /\ UNCHANGED <<running_flag, fd_mutex, pipe_input, cancel, destroying>>

\* Mutant: wait_thread tries again without unlocking fd_mutex.
run_server_fails_locked ==
  /\ At("wait", "fork")
  /\ fd_mutex = "none"
  /\ fd_mutex' = "wait"
  /\ Goto("wait", "loop")
  /\ UNCHANGED <<running_flag, pipe_input, child, partial, cancel, destroying>>

\* fork fails: wait_thread tries again at once
run_server_fails ==
  /\ At("wait", "fork")
  /\ fd_mutex = "none"
  /\ Goto("wait", "loop")
  /\ UNCHANGED <<running_flag, fd_mutex, pipe_input, child, partial, cancel,
                 destroying>>

\* Mutant: wait_thread runs the server once.
wait_thread_reap_once ==
  /\ At("wait", "waitpid")
  /\ child = "exited"
  /\ child' = "none"
  /\ Goto("wait", "done")
  /\ UNCHANGED <<running_flag, fd_mutex, pipe_input, partial, cancel, destroying>>

\* waitpid returns
wait_thread_reap ==
  /\ At("wait", "waitpid")
  /\ child = "exited"
  /\ child' = "none"
  /\ Goto("wait", "loop")
  /\ UNCHANGED <<running_flag, fd_mutex, pipe_input, partial, cancel, destroying>>

\* The game server reads its input, and exits when a line says stop.
server_reads ==
  /\ child = "up"
  /\ pipe_input # <<>>
  /\ pipe_input' = Tail(pipe_input)
  /\ partial' = (Head(pipe_input) = "text")
  /\ child' = IF Head(pipe_input) = "stop" /\ ~partial THEN "exited" ELSE "up"
  /\ UNCHANGED <<running_flag, fd_mutex, cancel, destroying, pc>>

\* It may also exit by itself, or fail to execute the configured command.
server_exits ==
  /\ child = "up"
  /\ child' = "exited"
  /\ UNCHANGED <<running_flag, fd_mutex, pipe_input, partial, cancel, destroying,
                 pc>>
-----------------------------------------------------------------------------
(* The command-line thread                                                 *)

\* readline returns start, stop (or exitserver), or a line in minecraft mode
exec_server_cmd(label) ==
  /\ At("cmd", "readline")
  /\ Goto("cmd", label)
  /\ UNCHANGED <<running_flag, fd_mutex, pipe_input, child, partial, cancel,
                 destroying>>

\* exec_mc_cmd calls game_write until the text is written: as long as
\* running_flag is false nothing is written and it calls again.
exec_mc_cmd_text ==
  /\ At("cmd", "text")
  /\ running_flag
  /\ Goto("cmd", "write_text")
  /\ UNCHANGED <<running_flag, fd_mutex, pipe_input, child, partial, cancel,
                 destroying>>

\* Mutant: what game_write has written is not added up.
game_write_text_forgotten ==
  /\ At("cmd", "write_text")
  /\ Write("text")
  /\ Goto("cmd", "text")
  /\ UNCHANGED <<running_flag, fd_mutex, child, partial, cancel, destroying>>

\* game_write holds no lock between its test of running_flag and its write
game_write_text ==
  /\ At("cmd", "write_text")
  /\ Write("text")
  /\ Goto("cmd", "newline")
  /\ UNCHANGED <<running_flag, fd_mutex, child, partial, cancel, destroying>>

\* the newline is tried once
exec_mc_cmd_newline ==
  /\ At("cmd", "newline")
  /\ Goto("cmd", IF running_flag THEN "write_newline" ELSE "readline")
  /\ UNCHANGED <<running_flag, fd_mutex, pipe_input, child, partial, cancel,
                 destroying>>

game_write_newline ==
  /\ At("cmd", "write_newline")
  /\ Write("newline")
  /\ Goto("cmd", "readline")
  /\ UNCHANGED <<running_flag, fd_mutex, child, partial, cancel, destroying>>

\* The session changes: cmdline_stop cancels the thread ...
cmdline_stop ==
  /\ At("main", "serving") /\ ~At("cmd", "dead")
  /\ cancel' = TRUE
  /\ UNCHANGED <<running_flag, fd_mutex, pipe_input, child, partial, destroying,
                 pc>>

\* Mutant: a cleanup handler unlocks fd_mutex.
cmd_cancelled_unlocks ==
  /\ cancel
  /\ pc["cmd"] \in {"readline", "sleep", "join"}
  /\ fd_mutex' = IF fd_mutex = "cmd" THEN "none" ELSE fd_mutex
  /\ Goto("cmd", "dead")
  /\ UNCHANGED <<running_flag, pipe_input, child, partial, cancel, destroying>>

\* ... which ends it where it blocks: in readline, write, sleep, pthread_join
cmd_cancelled ==
  /\ cancel
  /\ pc["cmd"] \in {"readline", "write_text", "write_newline", "end_line",
                    "sleep", "join"}
  /\ Goto("cmd", "dead")
  /\ UNCHANGED <<running_flag, fd_mutex, pipe_input, child, partial, cancel,
                 destroying>>

\* ... and cmdline_start creates the next one
cmdline_start ==
  /\ At("main", "serving") /\ At("cmd", "dead")
  /\ cancel' = FALSE
  /\ Goto("cmd", "readline")
  /\ UNCHANGED <<running_flag, fd_mutex, pipe_input, child, partial, destroying>>
-----------------------------------------------------------------------------
(* main() after network_main                                               *)

\* server_stop
main_server_stop ==
  /\ At("main", "serving")
  /\ Goto("main", "lock")
  /\ UNCHANGED <<running_flag, fd_mutex, pipe_input, child, partial, cancel,
                 destroying>>

\* server_destroy: cmdline_destroy cancels the command-line thread ...
main_cmdline_destroy ==
  /\ At("main", "cmdline_stop")
  /\ cancel' = TRUE
  /\ Goto("main", "join_cmd")
  /\ UNCHANGED <<running_flag, fd_mutex, pipe_input, child, partial, destroying>>

\* ... and joins it; game_destroy calls game_stop again
main_game_destroy ==
  /\ At("main", "join_cmd") /\ At("cmd", "dead")
  /\ destroying' = TRUE
  /\ Goto("main", "lock")
  /\ UNCHANGED <<running_flag, fd_mutex, pipe_input, child, partial, cancel>>
-----------------------------------------------------------------------------
CallerStep(t) ==
  \/ game_start(t) \/ game_stop_lock(t) \/ game_stop_newline(t)
  \/ game_stop_write(t) \/ game_stop_joined(t)

CmdStep ==
  \/ exec_mc_cmd_text \/ game_write_text
  \/ exec_mc_cmd_newline \/ game_write_newline

MainStep == main_cmdline_destroy \/ main_game_destroy

WaitStep == wait_thread_loop \/ wait_thread_reap

\* What administrators, the kernel and the game server may or may not do.
Environment ==
  \/ \E label \in {"start", "lock", "text"} : exec_server_cmd(label)
  \/ cmdline_stop \/ cmdline_start
  \/ main_server_stop
  \/ run_server_fails \/ server_exits

\* The process is there until main() returns.
Next ==
  /\ ~At("main", "exited")
  /\ \/ \E t \in Caller : CallerStep(t)
     \/ CmdStep \/ MainStep \/ WaitStep \/ run_server
     \/ cmd_cancelled \/ server_reads
     \/ Environment

Spec == Init /\ [][Next]_vars

\* Threads that can run do, the game server reads its input, and fork does not
\* fail for ever.
Fairness ==
  /\ \A t \in Caller : WF_vars(~At("main", "exited") /\ CallerStep(t))
  /\ WF_vars(~At("main", "exited") /\ CmdStep)
  /\ WF_vars(~At("main", "exited") /\ MainStep)
  /\ WF_vars(~At("main", "exited") /\ WaitStep)
  /\ SF_vars(~At("main", "exited") /\ run_server)
  /\ WF_vars(~At("main", "exited") /\ cmd_cancelled)
  /\ WF_vars(~At("main", "exited") /\ server_reads)

FairSpec == Spec /\ Fairness
-----------------------------------------------------------------------------
(* Properties                                                              *)

\* The places of each thread's code.
Label(t) ==
  CASE t = "main" -> {"start", "serving", "lock", "end_line", "sleep", "join",
                      "cmdline_stop", "join_cmd", "exited"}
    [] t = "cmd"  -> {"dead", "readline", "start", "lock", "end_line", "sleep",
                      "join", "text", "write_text", "newline", "write_newline"}
    [] t = "wait" -> {"off", "loop", "fork", "waitpid", "done"}

PcOK ==
  /\ pc = [t \in Thread |-> pc[t]]
  /\ \A t \in Thread : pc[t] \in Label(t)

PipeOK == pipe_input \in Seq(Token) /\ Len(pipe_input) <= PIPE_CAPACITY

\* The variables keep the shapes of the C objects they stand for.
TypeOK ==
  /\ running_flag \in BOOLEAN
  /\ fd_mutex \in {"none"} \cup Caller
  /\ PipeOK
  /\ child \in {"none", "up", "exited"}
  /\ partial \in BOOLEAN
  /\ cancel \in BOOLEAN
  /\ destroying \in BOOLEAN
  /\ PcOK

\* Once game_stop has let go of fd_mutex there is no server process left and no
\* wait_thread that could start one, whatever start, stop, crash and
\* cancellation went before.
StoppedMeansGone ==
  ~running_flag /\ fd_mutex = "none" => child = "none" /\ At("wait", "off")

\* game_start creates a wait_thread only when the previous one has been joined:
\* two of them would run two servers on one pipe.
OneWaitThread == [][~running_flag /\ running_flag' => At("wait", "off")]_vars

\* What makes StoppedMeansGone and OneWaitThread inductive: game_stop owns fd_mutex
\* until its join, running_flag is not set while it is owned, and a server process
\* exists only while a wait_thread waits for it.
StopHoldsMutex ==
  \A t \in Caller : pc[t] \in {"end_line", "sleep", "join"} => fd_mutex = t

WaitInv ==
  /\ running_flag => fd_mutex = "none" /\ pc["wait"] \in {"loop", "fork", "waitpid"}
  /\ ~running_flag /\ fd_mutex = "none" => At("wait", "off")
  /\ child # "none" => At("wait", "waitpid")

\* While the service is up, the stop command is a line of its own, even when
\* the last administrator was cut off in the middle of a minecraft command.
StopIsALine ==
  pc["main"] \in {"start", "serving"} =>
    \A i \in 1 .. Len(pipe_input) : pipe_input[i] = "stop" =>
      IF i = 1 THEN child = "up" => ~partial ELSE pipe_input[i - 1] # "text"

\* What makes StopIsALine inductive: the line that game_stop's newline has ended
\* stays ended until its stop is written, because only the command-line thread,
\* which then sleeps, could begin another one.
LineEnded ==
  IF pipe_input = <<>> THEN child = "up" => ~partial
                       ELSE pipe_input[Len(pipe_input)] # "text"

LineInv == pc["main"] \in {"start", "serving"} /\ At("cmd", "sleep") => LineEnded

\* A game server that exits is started again unless it is being stopped.
Restarted == child = "exited" /\ running_flag
               ~> child = "up" \/ ~running_flag \/ At("main", "exited")

\* With a game server that stays up and is not being stopped, every line typed
\* in minecraft mode gets through, also when the pipe is full: exec_mc_cmd, which
\* otherwise tries for ever, comes back.
LineGetsThrough ==
  <>[](running_flag /\ child = "up")
    => []<>(pc["cmd"] \notin {"text", "write_text", "newline", "write_newline"})

\* stop stops the minecraft server: the command comes back from game_stop.
StopEnds == At("cmd", "join") ~> ~At("cmd", "join") \/ At("main", "exited")

=============================================================================
