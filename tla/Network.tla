------------------------------ MODULE Network ------------------------------
(***************************************************************************)
(* The ssh front end of mcserverd: the accept loop of network_main, one    *)
(* session_thread per connection, gc_thread, send_thread, the command-line *)
(* thread as far as it touches the session queue, and network_quit.        *)
(*                                                                         *)
(* Threads interleave between the points where they take a lock, block or  *)
(* touch state another thread reads without a lock.  A critical section    *)
(* in which the thread cannot block is one step.  The others hold "mutex"  *)
(* over several: gc_thread and network_main join the command-line thread,  *)
(* send_thread and conn_receive write to a client, which may not read, and *)
(* network_logoff takes its channel from a thread that does not lock.      *)
(* pthread_cancel is deferred: it acts at the blocking calls of its        *)
(* target, which pthread_mutex_lock is not.                                *)
(***************************************************************************)
EXTENDS Naturals, Sequences

CONSTANTS
  Session,        \* the session_t structures, one per accepted connection
  Command,        \* the console lines that administrators type
  MAX_TRY_TIME,   \* network.c:38
  MaxInput,       \* bound on the unread lines in pipe_stdin
  SigtermSent     \* whether the daemon is sent a SIGTERM

ASSUME NetworkAssumption ==
  /\ Session \cap {"none", "main", "gc", "send", "cmd"} = {}
  /\ Command \subseteq {"exit", "exitserver", "other"}
  /\ MAX_TRY_TIME \in Nat \ {0}
  /\ MaxInput \in Nat
  /\ SigtermSent \in BOOLEAN

VARIABLES
  run_flag,       \* network.c: the service is up
  session_queue,  \* network.c: sessions in order of acceptance
  mutex,          \* network.c: the thread that holds it, or "none"
  signaled,       \* gc_thread waits on cond and has been signalled
  status,         \* session_t.status
  authed,         \* session_t.authed
  channel,        \* session_t.channel: "NULL", "open", "freed" (not yet NULL)
  heap,           \* whether the session_t is unborn, live or freed
  accepted,       \* p_session of network_main between accept and push
  leaving,        \* p_session of network_logoff
  cmd_run_flag,   \* cmdline.c: run_flag
  cmd_mutex,      \* cmdline.c: mutex
  refresh,        \* cmdline_start follows the cmdline_stop a thread is in
  stdin,          \* pipe_stdin: lines not yet read by the command line
  pending,        \* pipe_stdout holds console output
  cancel,         \* threads with a cancellation request
  term,           \* the SIGTERM handler, which runs on the main thread
  pc,             \* where each thread is
  fault           \* the invalid memory access that ended the process

sessionVars == <<status, authed, channel, heap>>
queueVars   == <<session_queue, accepted, leaving>>
lockVars    == <<mutex, signaled>>
cmdVars     == <<cmd_run_flag, cmd_mutex, refresh, stdin, pending>>
quitVars    == <<run_flag, cancel, term>>
vars == <<sessionVars, queueVars, lockVars, cmdVars, quitVars, pc, fault>>

Thread == {"main", "gc", "send", "cmd"} \cup Session
Status == {"SESSION_WAITING", "SESSION_ACTIVE", "SESSION_EXIT"}

Init ==
  /\ run_flag = TRUE
  /\ session_queue = <<>>
  /\ mutex = "none"
  /\ signaled = FALSE
  /\ status = [s \in Session |-> "SESSION_WAITING"]
  /\ authed = [s \in Session |-> FALSE]
  /\ channel = [s \in Session |-> "NULL"]
  /\ heap = [s \in Session |-> "unborn"]
  /\ accepted = "none"
  /\ leaving = "none"
  /\ cmd_run_flag = FALSE
  /\ cmd_mutex = "none"
  /\ refresh = [t \in {"main", "gc"} |-> FALSE]
  /\ stdin = <<>>
  /\ pending = FALSE
  /\ cancel = {}
  /\ term = "idle"
  /\ pc = [t \in Thread |-> CASE t = "main" -> "loop"
                              [] t = "gc"   -> "begin"
                              [] t = "send" -> "loop"
                              [] t = "cmd"  -> "off"
                              [] OTHER      -> "unborn"]
  /\ fault = "none"

At(t, label)   == pc[t] = label
Goto(t, label) == pc' = [pc EXCEPT ![t] = label]
Ended(t)       == pc[t] \in {"done", "dead"}

\* malloc; Init has given the fields of s the values that session_new sets
session_new(s) == [heap EXCEPT ![s] = "live"]

session_free(s) == [heap EXCEPT ![s] = "freed"]

\* gc_thread is working on the queue.  A thread that uses the queue at this
\* moment got past mutex because send_thread unlocked it for gc_thread.
QueueRace == IF At("gc", "clean") THEN {"queue race"} ELSE {}

\* The outcomes of dereferencing queue_front(session_queue).
FrontFault(where) ==
  IF session_queue = <<>> THEN {where}
  ELSE {"none"} \cup QueueRace
       \cup {f \in {"use after free"} : heap[Head(session_queue)] = "freed"}
-----------------------------------------------------------------------------
(* network_main: the accept loop.  The SIGTERM handler interrupts it.      *)

MainRuns == term # "kill"

\* while(run_flag)
network_main_loop ==
  /\ MainRuns /\ At("main", "loop")
  /\ Goto("main", IF run_flag THEN "listen" ELSE "join_gc")
  /\ UNCHANGED <<sessionVars, queueVars, lockVars, cmdVars, quitVars, fault>>

\* ssh_bind_listen, which may fail, and session_new: run_flag has been read and
\* ssh_bind_accept does not block yet.
network_main_listen ==
  /\ MainRuns /\ At("main", "listen")
  /\ \E ok \in BOOLEAN : Goto("main", IF ok THEN "accept" ELSE "loop")
  /\ UNCHANGED <<sessionVars, queueVars, lockVars, cmdVars, quitVars, fault>>

\* ssh_bind_accept returns a connection and pthread_create starts its thread
\* before the session is in the queue.
network_main_accept(s) ==
  /\ MainRuns /\ At("main", "accept")
  /\ heap[s] = "unborn"
  /\ heap' = session_new(s)
  /\ accepted' = s
  /\ pc' = [pc EXCEPT !["main"] = "created", ![s] = "kex"]
  /\ UNCHANGED <<status, authed, channel, session_queue, leaving, lockVars,
                 cmdVars, quitVars, fault>>

\* Mutant: the continue after a failed accept is missing.
network_main_accept_fails_pushes ==
  /\ MainRuns /\ At("main", "accept")
  /\ Goto("main", "created")
  /\ UNCHANGED <<sessionVars, queueVars, lockVars, cmdVars, quitVars, fault>>

\* accept or pthread_create fails: the new session is freed again
network_main_accept_fails ==
  /\ MainRuns /\ At("main", "accept")
  /\ Goto("main", "loop")
  /\ UNCHANGED <<sessionVars, queueVars, lockVars, cmdVars, quitVars, fault>>

\* Mutant: every session is activated, not only the first.
network_main_push_activates ==
  /\ MainRuns /\ At("main", "created")
  /\ mutex = "none"
  /\ session_queue' = Append(session_queue, accepted)
  /\ accepted' = "none"
  /\ fault' \in {"none"} \cup QueueRace
  /\ status' = [status EXCEPT ![accepted] = "SESSION_ACTIVE"]
  /\ mutex' = "main"
  /\ refresh' = [refresh EXCEPT !["main"] = TRUE]
  /\ Goto("main", "stop")
  /\ UNCHANGED <<authed, channel, heap, leaving, signaled, cmd_run_flag,
                 cmd_mutex, stdin, pending, quitVars>>

\* Mutant: the session is inserted at the other end of the list.
network_main_push_front ==
  /\ MainRuns /\ At("main", "created")
  /\ mutex = "none"
  /\ session_queue' = <<accepted>> \o session_queue
  /\ accepted' = "none"
  /\ Goto("main", "loop")
  /\ UNCHANGED <<sessionVars, leaving, lockVars, cmdVars, quitVars, fault>>

\* queue_push under mutex; the first in the queue becomes active whatever its
\* status is by now, and the mutex is kept for server_refresh.
network_main_push ==
  /\ MainRuns /\ At("main", "created")
  /\ mutex = "none"
  /\ session_queue' = Append(session_queue, accepted)
  /\ accepted' = "none"
  /\ fault' \in {"none"} \cup QueueRace
  /\ IF session_queue = <<>>
     THEN /\ status' = [status EXCEPT ![accepted] = "SESSION_ACTIVE"]
          /\ mutex' = "main"
          /\ refresh' = [refresh EXCEPT !["main"] = TRUE]
          /\ Goto("main", "stop")
     ELSE /\ Goto("main", "loop")
          /\ UNCHANGED <<status, mutex, refresh>>
  /\ UNCHANGED <<authed, channel, heap, leaving, signaled, cmd_run_flag,
                 cmd_mutex, stdin, pending, quitVars>>
-----------------------------------------------------------------------------
(* server_refresh, server_close_cmd: run by network_main and gc_thread.    *)

AfterStop(t) == IF refresh[t] THEN "start"
                ELSE IF t = "gc" THEN "check" ELSE "exited"

MainOrGcRuns(t) == t = "gc" \/ MainRuns

\* cmdline_stop up to pthread_join: the command-line thread is cancelled
cmdline_stop(t) ==
  /\ MainOrGcRuns(t) /\ At(t, "stop")
  /\ cmd_mutex = "none"
  /\ IF cmd_run_flag
     THEN /\ cmd_run_flag' = FALSE
          /\ cancel' = cancel \cup {"cmd"}
          /\ cmd_mutex' = t
          /\ Goto(t, "join")
     ELSE /\ Goto(t, AfterStop(t))
          /\ UNCHANGED <<cmd_run_flag, cancel, cmd_mutex>>
  /\ UNCHANGED <<sessionVars, queueVars, lockVars, refresh, stdin, pending,
                 run_flag, term, fault>>

\* pthread_join returns
cmdline_stop_joined(t) ==
  /\ MainOrGcRuns(t) /\ At(t, "join")
  /\ Ended("cmd")
  /\ cancel' = cancel \ {"cmd"}
  /\ cmd_mutex' = "none"
  /\ pc' = [pc EXCEPT !["cmd"] = "off", ![t] = AfterStop(t)]
  /\ UNCHANGED <<sessionVars, queueVars, lockVars, cmd_run_flag, refresh, stdin,
                 pending, run_flag, term, fault>>

\* Mutant: server_refresh unlocks mutex for every caller.
cmdline_start_unlocks(t) ==
  /\ MainOrGcRuns(t) /\ At(t, "start")
  /\ cmd_mutex = "none"
  /\ cmd_run_flag' = TRUE
  /\ pc' = [pc EXCEPT !["cmd"] = "read",
                      ![t] = IF t = "gc" THEN "check" ELSE "loop"]
  /\ mutex' = "none"
  /\ refresh' = [refresh EXCEPT ![t] = FALSE]
  /\ UNCHANGED <<sessionVars, queueVars, signaled, cmd_mutex, stdin, pending,
                 quitVars, fault>>

\* cmdline_start; its result is ignored.  network_main then unlocks mutex.
cmdline_start(t) ==
  /\ MainOrGcRuns(t) /\ At(t, "start")
  /\ cmd_mutex = "none"
  /\ \E created \in BOOLEAN :
       /\ cmd_run_flag' = (cmd_run_flag \/ created)
       /\ pc' = [pc EXCEPT
                   !["cmd"] = IF ~cmd_run_flag /\ created THEN "read" ELSE @,
                   ![t] = IF t = "gc" THEN "check" ELSE "loop"]
  /\ mutex' = IF t = "main" THEN "none" ELSE mutex
  /\ refresh' = [refresh EXCEPT ![t] = FALSE]
  /\ UNCHANGED <<sessionVars, queueVars, signaled, cmd_mutex, stdin, pending,
                 quitVars, fault>>
-----------------------------------------------------------------------------
(* session_thread and its libssh callbacks.                                *)

\* ssh_handle_key_exchange and ssh_event_add_session
session_thread_kex(s) ==
  /\ At(s, "kex")
  /\ \E ok \in BOOLEAN : Goto(s, IF ok THEN "auth" ELSE "exiting")
  /\ UNCHANGED <<sessionVars, queueVars, lockVars, cmdVars, quitVars, fault>>

\* !p_session->tried_time > MAX_TRY_TIME: C negates before it compares
TriedTooOften(tried_time) == (IF tried_time = 0 THEN 1 ELSE 0) > MAX_TRY_TIME

\* conn_auth refuses the username or the password and counts the attempt
conn_auth_denied(s) ==
  /\ At(s, "auth") /\ ~authed[s]
  /\ \E tried_time \in 1 .. MAX_TRY_TIME + 1 :
       Goto(s, IF TriedTooOften(tried_time) THEN "exiting" ELSE "auth")
  /\ UNCHANGED <<sessionVars, queueVars, lockVars, cmdVars, quitVars, fault>>

conn_auth_success(s) ==
  /\ At(s, "auth") /\ ~authed[s]
  /\ authed' = [authed EXCEPT ![s] = TRUE]
  /\ UNCHANGED <<status, channel, heap, queueVars, lockVars,
                 cmdVars, quitVars, pc, fault>>

channel_open(s) ==
  /\ At(s, "auth") /\ channel[s] = "NULL"
  /\ channel' = [channel EXCEPT ![s] = "open"]
  /\ UNCHANGED <<status, authed, heap, queueVars, lockVars,
                 cmdVars, quitVars, pc, fault>>

\* the loop ends authenticated; ssh_set_channel_callbacks may still fail
session_thread_authed(s) ==
  /\ At(s, "auth")
  /\ authed[s] /\ channel[s] # "NULL"
  /\ \E ok \in BOOLEAN : Goto(s, IF ok THEN "open" ELSE "exiting")
  /\ UNCHANGED <<sessionVars, queueVars, lockVars, cmdVars, quitVars, fault>>

\* The outcomes of a call of libssh on the channel of s: network_logoff frees it
\* and only then takes it away from the thread of s, which reads it unlocked.
ChannelFault(s) ==
  {"none"} \cup {f \in {"freed channel"} : channel[s] = "freed"}

\* ssh_event_dopoll reports an error, or the channel is no longer open
session_thread_lost(s) ==
  /\ pc[s] \in {"auth", "open"}
  /\ fault' \in IF At(s, "open") THEN ChannelFault(s) ELSE {"none"}
  /\ Goto(s, "exiting")
  /\ UNCHANGED <<sessionVars, queueVars, lockVars, cmdVars, quitVars>>

\* conn_receive of the active session: server_write passes the line on, and
\* drops it when no command line runs.
conn_receive_active(s, c) ==
  /\ At(s, "open") /\ channel[s] = "open"
  /\ status[s] = "SESSION_ACTIVE"
  /\ cmd_run_flag
  /\ Len(stdin) < MaxInput
  /\ stdin' = Append(stdin, c)
  /\ UNCHANGED <<sessionVars, queueVars, lockVars, cmd_run_flag, cmd_mutex,
                 refresh, pending, quitVars, pc, fault>>

\* conn_receive of any other session: status was read without the mutex ...
conn_receive_waiting(s) ==
  /\ At(s, "open") /\ channel[s] = "open"
  /\ status[s] # "SESSION_ACTIVE"
  /\ Goto(s, "recv")
  /\ UNCHANGED <<sessionVars, queueVars, lockVars, cmdVars, quitVars, fault>>

\* ... which it takes to write WAIT_TEXT ...
conn_receive_lock(s) ==
  /\ At(s, "recv")
  /\ mutex = "none"
  /\ mutex' = s
  /\ Goto(s, "write")
  /\ UNCHANGED <<sessionVars, queueVars, signaled, cmdVars, quitVars, fault>>

\* ... until the clients have taken what is written, to a channel that
\* network_logoff may have freed by now, and to session_queue->p_item.
conn_receive_notify(s) ==
  /\ At(s, "write")
  /\ fault' \in FrontFault("conn_receive")
                \cup {f \in {"freed channel"} : channel[s] # "open"}
  /\ mutex' = "none"
  /\ Goto(s, "open")
  /\ UNCHANGED <<sessionVars, queueVars, signaled, cmdVars, quitVars>>

\* status = SESSION_EXIT and pthread_cond_signal, under mutex
session_thread_exit(s) ==
  /\ At(s, "exiting")
  /\ mutex = "none"
  /\ status' = [status EXCEPT ![s] = "SESSION_EXIT"]
  /\ signaled' = (signaled \/ At("gc", "wait"))
  /\ Goto(s, "done")
  /\ UNCHANGED <<authed, channel, heap, queueVars, mutex, cmdVars,
                 quitVars, fault>>
-----------------------------------------------------------------------------
(* gc_thread                                                               *)

gc_thread_lock ==
  /\ At("gc", "begin")
  /\ mutex = "none"
  /\ mutex' = "gc"
  /\ Goto("gc", "check")
  /\ UNCHANGED <<sessionVars, queueVars, signaled, cmdVars, quitVars, fault>>

\* while(run_flag): pthread_cond_wait releases mutex; leaving the loop unlocks
gc_thread_check ==
  /\ At("gc", "check")
  /\ mutex' = "none"
  /\ signaled' = FALSE
  /\ Goto("gc", IF run_flag THEN "wait" ELSE "done")
  /\ UNCHANGED <<sessionVars, queueVars, cmdVars, quitVars, fault>>

\* pthread_cond_wait returns, signalled or spuriously
gc_thread_wake ==
  /\ At("gc", "wait")
  /\ mutex = "none"
  /\ mutex' = "gc"
  /\ signaled' = FALSE
  /\ Goto("gc", "clean")
  /\ UNCHANGED <<sessionVars, queueVars, cmdVars, quitVars, fault>>

\* Mutant: one session is released, and gc_thread waits again.
gc_thread_release_one ==
  /\ At("gc", "clean")
  /\ session_queue # <<>>
  /\ status[Head(session_queue)] = "SESSION_EXIT"
  /\ heap' = session_free(Head(session_queue))
  /\ session_queue' = Tail(session_queue)
  /\ Goto("gc", "check")
  /\ UNCHANGED <<status, authed, channel, accepted, leaving, lockVars,
                 cmdVars, quitVars, fault>>

\* release an exited session at the front
gc_thread_release ==
  /\ At("gc", "clean")
  /\ session_queue # <<>>
  /\ status[Head(session_queue)] = "SESSION_EXIT"
  /\ heap' = session_free(Head(session_queue))
  /\ session_queue' = Tail(session_queue)
  /\ UNCHANGED <<status, authed, channel, accepted, leaving, lockVars,
                 cmdVars, quitVars, pc, fault>>

\* activate the first session, or leave the active one alone
gc_thread_activate ==
  /\ At("gc", "clean")
  /\ session_queue # <<>>
  /\ LET s == Head(session_queue) IN
       \/ /\ status[s] = "SESSION_WAITING"
          /\ status' = [status EXCEPT ![s] = "SESSION_ACTIVE"]
          /\ refresh' = [refresh EXCEPT !["gc"] = TRUE]
          /\ Goto("gc", "stop")
       \/ /\ status[s] = "SESSION_ACTIVE"
          /\ Goto("gc", "check")
          /\ UNCHANGED <<status, refresh>>
  /\ UNCHANGED <<authed, channel, heap, queueVars, lockVars,
                 cmd_run_flag, cmd_mutex, stdin, pending, quitVars, fault>>

\* Mutant: the command line outlives its last administrator.
gc_thread_close_skipped ==
  /\ At("gc", "clean")
  /\ session_queue = <<>>
  /\ Goto("gc", "check")
  /\ UNCHANGED <<sessionVars, queueVars, lockVars, cmdVars, quitVars, fault>>

\* the queue is empty: server_close_cmd
gc_thread_close ==
  /\ At("gc", "clean")
  /\ session_queue = <<>>
  /\ Goto("gc", "stop")
  /\ UNCHANGED <<sessionVars, queueVars, lockVars, cmdVars, quitVars, fault>>
-----------------------------------------------------------------------------
(* send_thread                                                             *)

\* console output: the prompt, the echo, or the game server through read_thread
console_output ==
  /\ cmd_run_flag /\ ~pending
  /\ pending' = TRUE
  /\ UNCHANGED <<sessionVars, queueVars, lockVars, cmd_run_flag, cmd_mutex,
                 refresh, stdin, quitVars, pc, fault>>

send_thread_loop ==
  /\ At("send", "loop")
  /\ Goto("send", IF run_flag THEN "read" ELSE "done")
  /\ UNCHANGED <<sessionVars, queueVars, lockVars, cmdVars, quitVars, fault>>

send_thread_read ==
  /\ At("send", "read")
  /\ pending
  /\ pending' = FALSE
  /\ Goto("send", "lock")
  /\ UNCHANGED <<sessionVars, queueVars, lockVars, cmd_run_flag, cmd_mutex,
                 refresh, stdin, quitVars, fault>>

\* The front session can be written to.
Deliverable ==
  /\ session_queue # <<>>
  /\ status[Head(session_queue)] # "SESSION_EXIT"
  /\ authed[Head(session_queue)]

\* under mutex: write to the front session, or unlock and go and poll for one
send_thread_deliver ==
  /\ At("send", "lock")
  /\ mutex = "none"
  /\ fault' \in IF session_queue = <<>> THEN {"none"} ELSE FrontFault("send_thread")
  /\ IF Deliverable
     THEN mutex' = "send" /\ Goto("send", "write")
     ELSE mutex' = "none" /\ Goto("send", "poll")
  /\ UNCHANGED <<sessionVars, queueVars, signaled, cmdVars, quitVars>>

\* ssh_channel_write returns once the client has taken the output; unlock
send_thread_written ==
  /\ At("send", "write")
  /\ mutex' = "none"
  /\ Goto("send", "loop")
  /\ UNCHANGED <<sessionVars, queueVars, signaled, cmdVars, quitVars, fault>>

\* with mutex released: leave the loop once run_flag is gone, else nanosleep
send_thread_poll ==
  /\ At("send", "poll")
  /\ Goto("send", IF run_flag THEN "nap" ELSE "broke")
  /\ UNCHANGED <<sessionVars, queueVars, lockVars, cmdVars, quitVars, fault>>

send_thread_nap ==
  /\ At("send", "nap")
  /\ Goto("send", "lock")
  /\ UNCHANGED <<sessionVars, queueVars, lockVars, cmdVars, quitVars, fault>>

\* after the break: writes to the front session without the mutex, and then
\* unlocks a mutex it does not hold (a plain pthread mutex becomes free)
send_thread_broke ==
  /\ At("send", "broke")
  /\ fault' \in FrontFault("send_thread")
  /\ mutex' = "none"
  /\ Goto("send", "loop")
  /\ UNCHANGED <<sessionVars, queueVars, signaled, cmdVars, quitVars>>
-----------------------------------------------------------------------------
(* The command-line thread: readline, exit, exitserver.                    *)

cmdline_thread_read ==
  /\ At("cmd", "read")
  /\ stdin # <<>>
  /\ stdin' = Tail(stdin)
  /\ Goto("cmd", CASE Head(stdin) = "exit"       -> "logoff"
                   [] Head(stdin) = "exitserver" -> "game_stop"
                   [] Head(stdin) = "other"      -> "loop")
  /\ UNCHANGED <<sessionVars, queueVars, lockVars, cmd_run_flag, cmd_mutex,
                 refresh, pending, quitVars, fault>>

\* the command has been executed: execute_command frees its arguments in a
\* loop that reads the array it has already freed; then while(run_flag)
cmdline_thread_loop ==
  /\ At("cmd", "loop")
  /\ fault' \in {"none", "execute_command"}
  /\ Goto("cmd", IF cmd_run_flag THEN "read" ELSE "done")
  /\ UNCHANGED <<sessionVars, queueVars, lockVars, cmdVars, quitVars>>

\* network_logoff: under mutex, frees the channel of whichever session is at the
\* front ...
network_logoff ==
  /\ At("cmd", "logoff")
  /\ mutex = "none"
  /\ mutex' = "cmd"
  /\ fault' \in FrontFault("network_logoff")
  /\ IF session_queue = <<>> THEN UNCHANGED <<channel, leaving>>
     ELSE LET s == Head(session_queue) IN
            /\ leaving' = s
            /\ channel' = [channel EXCEPT
                             ![s] = IF @ = "open" THEN "freed" ELSE @]
  /\ Goto("cmd", "null")
  /\ UNCHANGED <<status, authed, heap, session_queue, accepted, signaled,
                 cmdVars, quitVars>>

\* ... and only then sets it to NULL, which session_thread looks at unlocked
network_logoff_null ==
  /\ At("cmd", "null")
  /\ channel' = [channel EXCEPT ![leaving] = "NULL"]
  /\ fault' \in {"none"}
                \cup {f \in {"use after free"} : heap[leaving] = "freed"}
  /\ leaving' = "none"
  /\ mutex' = "none"
  /\ Goto("cmd", "loop")
  /\ UNCHANGED <<status, authed, heap, session_queue, accepted, signaled,
                 cmdVars, quitVars>>
-----------------------------------------------------------------------------
(* network_quit, called by exitserver and by the SIGTERM handler.          *)

\* cmd_server_exitserver: game_stop() returns, and network_quit begins with
\* run_flag = false
cmd_server_exitserver ==
  /\ At("cmd", "game_stop")
  /\ run_flag' = FALSE
  /\ Goto("cmd", "kill")
  /\ UNCHANGED <<sessionVars, queueVars, lockVars, cmdVars, cancel, term, fault>>

\* SIGTERM arrives and the kernel runs sigterm() on the main thread
sigterm_arrives ==
  /\ SigtermSent /\ term = "idle"
  /\ run_flag' = FALSE
  /\ term' = "kill"
  /\ UNCHANGED <<sessionVars, queueVars, lockVars, cmdVars, cancel, pc, fault>>

\* pthread_kill(main_thread, SIGCONT) interrupts an accept that blocks already:
\* one that reaches network_main in ssh_bind_listen is lost.
AfterSignal == IF pc["main"] = "accept" THEN "loop" ELSE pc["main"]

\* network_main has joined gc_thread, whose id network_quit still uses
GcJoined ==
  \/ pc["main"] \in {"join_send", "destroy", "join_session", "unlink"}
  \/ pc["main"] \in {"stop", "join"} /\ ~refresh["main"]

\* the rest of network_quit: pthread_kill, and pthread_cancel of gc_thread and
\* send_thread, where a thread that has been joined may be gone
QuitKill ==
  /\ cancel' = cancel \cup {"gc", "send"}
  /\ fault' \in {"none"} \cup {f \in {"joined thread"} : GcJoined}

network_quit_kill ==
  /\ At("cmd", "kill")
  /\ QuitKill
  /\ pc' = [pc EXCEPT !["cmd"] = "loop", !["main"] = AfterSignal]
  /\ UNCHANGED <<sessionVars, queueVars, lockVars, cmdVars, run_flag, term>>

sigterm_kill ==
  /\ term = "kill"
  /\ QuitKill
  /\ Goto("main", AfterSignal)
  /\ term' = "done"
  /\ UNCHANGED <<sessionVars, queueVars, lockVars, cmdVars, run_flag>>

\* Where a thread blocks in a cancellation point holding nothing.
CancelPoint(t) == CASE t = "send" -> {"read", "nap", "broke"}
                    [] t = "cmd"  -> {"read", "game_stop"}
                    [] t \in Session -> {"kex", "auth", "open"}
                    [] OTHER -> {}

cancel_thread(t) ==
  /\ t \in cancel
  /\ pc[t] \in CancelPoint(t)
  /\ Goto(t, "done")
  /\ UNCHANGED <<sessionVars, queueVars, lockVars, cmdVars, quitVars, fault>>

\* Cancelled where the thread holds mutex, which nobody unlocks afterwards:
\* gc_thread in pthread_cond_wait (which takes mutex back first) and in
\* pthread_join, the others while ssh_channel_write waits for the client.
cancel_holding(t) ==
  /\ t \in cancel
  /\ \/ t = "gc" /\ At(t, "wait") /\ mutex = "none" /\ mutex' = "gc"
     \/ t = "gc" /\ At(t, "join") /\ mutex' = mutex
     \/ t # "gc" /\ At(t, "write") /\ mutex' = mutex
  /\ Goto(t, "dead")
  /\ UNCHANGED <<sessionVars, queueVars, signaled, cmdVars, quitVars, fault>>
-----------------------------------------------------------------------------
(* network_main after the loop, and the exit path of main().               *)

network_main_join_gc ==
  /\ MainRuns /\ At("main", "join_gc") /\ Ended("gc")
  /\ Goto("main", "join_send")
  /\ UNCHANGED <<sessionVars, queueVars, lockVars, cmdVars, quitVars, fault>>

network_main_join_send ==
  /\ MainRuns /\ At("main", "join_send") /\ Ended("send")
  /\ Goto("main", "destroy")
  /\ UNCHANGED <<sessionVars, queueVars, lockVars, cmdVars, quitVars, fault>>

\* session_destroy_callback, without mutex: cancel the thread ...
session_destroy_cancel ==
  /\ MainRuns /\ At("main", "destroy")
  /\ session_queue # <<>>
  /\ LET s == Head(session_queue) IN
       cancel' = IF status[s] # "SESSION_EXIT" THEN cancel \cup {s} ELSE cancel
  /\ Goto("main", "join_session")
  /\ UNCHANGED <<sessionVars, queueVars, lockVars, cmdVars, run_flag, term,
                 fault>>

\* Mutant: the session is freed without joining its thread.
session_destroy_free_early ==
  /\ MainRuns /\ At("main", "join_session")
  /\ heap' = session_free(Head(session_queue))
  /\ Goto("main", "unlink")
  /\ UNCHANGED <<status, authed, channel, queueVars, lockVars,
                 cmdVars, quitVars, fault>>

\* ... join it and free the session ...
session_destroy_free ==
  /\ MainRuns /\ At("main", "join_session")
  /\ Ended(Head(session_queue))
  /\ heap' = session_free(Head(session_queue))
  /\ Goto("main", "unlink")
  /\ UNCHANGED <<status, authed, channel, queueVars, lockVars,
                 cmdVars, quitVars, fault>>

\* ... and only then does list_destroy remove the node.
list_destroy_remove ==
  /\ MainRuns /\ At("main", "unlink")
  /\ session_queue' = Tail(session_queue)
  /\ Goto("main", "destroy")
  /\ UNCHANGED <<sessionVars, accepted, leaving, lockVars, cmdVars, quitVars,
                 fault>>

\* the queue is gone; server_destroy goes on to cmdline_stop
network_main_return ==
  /\ MainRuns /\ At("main", "destroy")
  /\ session_queue = <<>>
  /\ Goto("main", "stop")
  /\ UNCHANGED <<sessionVars, queueVars, lockVars, cmdVars, quitVars, fault>>
-----------------------------------------------------------------------------
\* The process exists: main() has not returned, nothing has crashed it.
ProcessUp == pc["main"] # "exited" /\ fault = "none"

MainStep ==
  \/ network_main_loop \/ network_main_listen \/ network_main_push
  \/ cmdline_stop("main") \/ cmdline_stop_joined("main") \/ cmdline_start("main")
  \/ network_main_join_gc \/ network_main_join_send
  \/ session_destroy_cancel \/ session_destroy_free \/ list_destroy_remove
  \/ network_main_return

GcStep ==
  \/ gc_thread_lock \/ gc_thread_check \/ gc_thread_release
  \/ gc_thread_activate \/ gc_thread_close
  \/ cmdline_stop("gc") \/ cmdline_stop_joined("gc") \/ cmdline_start("gc")

SendStep ==
  \/ send_thread_loop \/ send_thread_read \/ send_thread_deliver
  \/ send_thread_poll \/ send_thread_nap

CmdStep ==
  \/ cmdline_thread_read \/ cmdline_thread_loop
  \/ network_logoff \/ network_logoff_null
  \/ cmd_server_exitserver \/ network_quit_kill

SessionStep(s) == conn_receive_lock(s) \/ session_thread_exit(s)

CancelStep(t) == cancel_thread(t) \/ cancel_holding(t)

\* ssh_channel_write comes back when a client has read what was sent to it.
ClientReads ==
  \/ send_thread_written \/ send_thread_broke
  \/ \E s \in Session : conn_receive_notify(s)

\* What clients, the game server and the kernel may or may not do.
Environment ==
  \/ \E s \in Session :
       \/ network_main_accept(s)
       \/ session_thread_kex(s)
       \/ conn_auth_denied(s) \/ conn_auth_success(s) \/ channel_open(s)
       \/ session_thread_authed(s) \/ session_thread_lost(s)
       \/ \E c \in Command : conn_receive_active(s, c)
       \/ conn_receive_waiting(s)
  \/ network_main_accept_fails
  \/ ClientReads
  \/ console_output
  \/ sigterm_arrives

Next ==
  /\ ProcessUp
  /\ \/ MainStep \/ GcStep \/ gc_thread_wake \/ SendStep \/ CmdStep \/ sigterm_kill
     \/ \E s \in Session : SessionStep(s)
     \/ \E t \in Thread : CancelStep(t)
     \/ Environment

Spec == Init /\ [][Next]_vars

\* The scheduler runs every thread that can run, a signalled condition variable
\* wakes its waiter, a pending cancellation is delivered, and a thread that waits
\* for mutex gets it if it is free again and again.  Nothing is assumed of the
\* clients (that they read least of all), the network and the game server.
Fairness ==
  /\ WF_vars(ProcessUp /\ MainStep)
  /\ WF_vars(ProcessUp /\ GcStep)
  /\ SF_vars(ProcessUp /\ signaled /\ gc_thread_wake)
  /\ WF_vars(ProcessUp /\ SendStep)
  /\ WF_vars(ProcessUp /\ CmdStep)
  /\ WF_vars(ProcessUp /\ sigterm_kill)
  /\ \A s \in Session : SF_vars(ProcessUp /\ SessionStep(s))
  /\ \A t \in Thread : WF_vars(ProcessUp /\ CancelStep(t))

FairSpec == Spec /\ Fairness

-----------------------------------------------------------------------------
(* Properties                                                              *)

InQueue(s) == \E i \in 1 .. Len(session_queue) : session_queue[i] = s

\* The places of each thread's code.
Label(t) ==
  CASE t = "main" -> {"loop", "listen", "accept", "created", "stop", "join",
                      "start", "join_gc", "join_send", "destroy",
                      "join_session", "unlink", "exited"}
    [] t = "gc"   -> {"begin", "start", "check", "wait", "clean", "stop", "join",
                      "done", "dead"}
    [] t = "send" -> {"loop", "read", "lock", "write", "poll", "nap", "broke",
                      "done", "dead"}
    [] t = "cmd"  -> {"off", "read", "loop", "logoff", "null", "game_stop",
                      "kill", "done"}
    [] OTHER      -> {"unborn", "kex", "auth", "open", "recv", "write",
                      "exiting", "done", "dead"}

\* Every thread is at a place of its own code ...
PcOK ==
  /\ pc = [t \in Thread |-> pc[t]]
  /\ \A t \in Thread : pc[t] \in Label(t)

SessionOK ==
  /\ status \in [Session -> Status]
  /\ authed \in [Session -> BOOLEAN]
  /\ channel \in [Session -> {"NULL", "open", "freed"}]
  /\ heap \in [Session -> {"unborn", "live", "freed"}]

QueueOK ==
  /\ session_queue \in Seq(Session)
  /\ accepted \in {"none"} \cup Session
  /\ leaving \in {"none"} \cup Session

LockOK ==
  /\ mutex \in {"none"} \cup Thread
  /\ signaled \in BOOLEAN

CmdOK ==
  /\ cmd_run_flag \in BOOLEAN
  /\ cmd_mutex \in {"none", "main", "gc"}
  /\ refresh \in [{"main", "gc"} -> BOOLEAN]
  /\ stdin \in Seq(Command)
  /\ pending \in BOOLEAN

QuitOK ==
  /\ run_flag \in BOOLEAN
  /\ cancel \subseteq Thread
  /\ term \in {"idle", "kill", "done"}

FaultOK ==
  fault \in {"none", "conn_receive", "send_thread", "network_logoff",
            "execute_command", "freed channel", "joined thread",
            "use after free", "queue race"}

\* ... and the variables keep the shapes of the C objects they stand for.
TypeOK == SessionOK /\ QueueOK /\ LockOK /\ CmdOK /\ QuitOK /\ PcOK /\ FaultOK

\* At most one administrator is active, and it is the one at the front of
\* session_queue, whatever the accept loop and gc_thread do to the queue.
OneActiveAtFront ==
  \A s \in Session :
    status[s] = "SESSION_ACTIVE" /\ heap[s] = "live" => s = Head(session_queue)
                                                     /\ session_queue # <<>>

\* The front of the queue is never left waiting: it is active or has exited,
\* except while gc_thread is in the pass that will activate it, and while the
\* queue is being destroyed.
FrontNotLeftWaiting ==
  session_queue # <<>> /\ status[Head(session_queue)] = "SESSION_WAITING"
    => At("gc", "clean") \/ pc["main"] \in {"destroy", "join_session", "unlink"}

\* While the service is up, the only invalid access to the queue is the one of
\* conn_receive in a session that network_main has not queued yet: neither
\* network_logoff nor send_thread meets an empty queue, nobody uses a freed
\* session, and nobody touches the queue while gc_thread works on it.  (The other
\* two are no accesses to the queue: execute_command's to its arguments, and a
\* session_thread's to its channel while network_logoff takes that away.)
FaultsWhileUp ==
  run_flag => \/ fault \in {"none", "execute_command", "freed channel"}
              \/ fault = "conn_receive" /\ accepted # "none"

\* A session_t is freed only after its thread has finished with it, by
\* gc_thread (which does not join) as well as by session_destroy_callback, and
\* it is freed once: a freed one is out of the queue, but for the moment
\* between the two steps of list_destroy.
FreedIsFinished ==
  \A s \in Session : heap[s] = "freed" =>
    /\ Ended(s)
    /\ InQueue(s) => At("main", "unlink") /\ s = Head(session_queue)

\* The command line belongs to an administrator: while the service is up it
\* runs only if a session is queued, or gc_thread is about to stop it.
CommandLineHasOwner ==
  run_flag /\ pc["cmd"] \notin {"off", "done"}
    => session_queue # <<>> \/ pc["gc"] \in {"clean", "stop", "join"}

\* Each thread that keeps mutex over several steps is inside its critical section
\* exactly while it owns mutex, as long as the service is up: nobody else gets in,
\* and none of the ways out leaves it locked.
MutexDiscipline ==
  run_flag =>
    /\ mutex = "gc" <=> pc["gc"] \in {"check", "clean", "stop", "join", "start"}
    /\ mutex = "main" <=> pc["main"] \in {"stop", "join", "start"}
    /\ mutex = "send" <=> At("send", "write")
    /\ mutex = "cmd" <=> At("cmd", "null")
    /\ \A s \in Session : mutex = s <=> At(s, "write")

\* What makes MutexDiscipline inductive: while the service is up nothing of the
\* shutdown has begun, and network_main stops the command line only to restart
\* it.
UpInv ==
  run_flag =>
    /\ cancel \subseteq {"cmd"}
    /\ ~At("cmd", "kill") /\ term \notin {"kill", "done"} /\ ~At("send", "broke")
    /\ pc["main"] \in {"loop", "listen", "accept", "created", "stop", "join", "start"}
    /\ pc["main"] \in {"stop", "join", "start"} => refresh["main"]

\* What makes FreedIsFinished, OneActiveAtFront and TurnSpec inductive: nobody is
\* queued twice, the accepted session is new to the queue, ...
NoDuplicates ==
  \A j, k \in 1 .. Len(session_queue) :
    session_queue[j] = session_queue[k] => j = k

AcceptedIsNew ==
  At("main", "created") =>
    accepted \in Session /\ ~InQueue(accepted) /\ heap[accepted] = "live"

UnbornIsFresh ==
  \A s \in Session : heap[s] = "unborn" =>
    status[s] = "SESSION_WAITING" /\ At(s, "unborn") /\ ~InQueue(s)

\* ... a session that has exited is done with its thread, and the queue is
\* destroyed only after gc_thread has ended.
ExitIsDone ==
  \A s \in Session : status[s] = "SESSION_EXIT" => At(s, "done")

DestroyedLast ==
  /\ pc["main"] \in {"join_send", "destroy", "join_session", "unlink"}
       => Ended("gc")
  /\ pc["main"] \in {"join_session", "unlink"} => session_queue # <<>>
  /\ At("main", "unlink") => heap[Head(session_queue)] = "freed"

\* What makes CommandLineHasOwner inductive: the command line is started only for a
\* queued session, gc_thread forgets in every pass whether it had one, and a
\* command line that has been stopped is joined before cmdline.c's mutex is free.
CommandLineInv ==
  run_flag =>
    /\ ~cmd_run_flag /\ cmd_mutex = "none" => At("cmd", "off")
    /\ pc["main"] \in {"stop", "join", "start"} => session_queue # <<>>
    /\ refresh["gc"] \/ At("gc", "start") => session_queue # <<>>
    /\ pc["gc"] \in {"begin", "check", "wait", "clean"} => ~refresh["gc"]

\* What makes FaultsWhileUp inductive: a session whose thread runs is in the queue
\* or in the hands of network_main, which has one only between accept and push.
SessionsAccounted ==
  /\ \A s \in Session :
       pc[s] \in {"kex", "auth", "open", "recv", "write", "exiting"}
         => InQueue(s) \/ accepted = s
  /\ accepted # "none" => At("main", "created")

\* ... and the session that is being logged off stays at the front meanwhile.
LeavingIsFront ==
  run_flag /\ At("cmd", "null")
    => session_queue # <<>> /\ leaving = Head(session_queue)

QueueInv ==
  /\ NoDuplicates /\ AcceptedIsNew /\ UnbornIsFresh /\ ExitIsDone
  /\ DestroyedLast /\ OneActiveAtFront /\ FreedIsFinished

\* The queue gives the administrators their turns as AdminTurn says.
Turn == INSTANCE AdminTurn WITH
          line   <- session_queue,
          served <- {s \in Session : status[s] = "SESSION_ACTIVE" /\ InQueue(s)}

TurnSpec == Turn!TurnSpec

\* Every write under mutex comes to its end: the clients read.
ClientsRead ==
  \A t \in {"send"} \cup Session : []<>~At(t, "write")


\* WAIT_TEXT tells the others to wait until the administrator has logged off:
\* a queued session whose thread has logged off does not hold the console.
LoggedOffLosesConsole ==
  run_flag => \A s \in Session :
                InQueue(s) /\ At(s, "done") => status[s] # "SESSION_ACTIVE"

\* exitserver ends the daemon: once network_main has left its loop the process
\* ends, if the clients read.
QuitEnds == ClientsRead => (At("main", "join_gc") ~> ~ProcessUp)

\* exit logs the administrator off: the command, once read, is carried out.
ExitLogsOff == At("cmd", "logoff") ~> ~At("cmd", "logoff") \/ ~ProcessUp

=============================================================================
