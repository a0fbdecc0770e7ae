--------------------------- MODULE NetworkProofs ---------------------------
(***************************************************************************)
(* Theorems about Network, for every set of sessions, every set of console *)
(* lines and every bound.                                                  *)
(*                                                                         *)
(* Inv == TypeOK /\ QueueInv is inductive.  The parts of QueueInv other    *)
(* than the two safety properties say why those are preserved: the queue   *)
(* has no duplicates, a session enters it once and new, a session that has *)
(* exited has finished with its thread, and the queue is destroyed after   *)
(* gc_thread.  The mutex discipline has an invariant of its own, UpInv.    *)
(*                                                                         *)
(* On top of these, OwnerInv adds CommandLineInv, which makes the owner of *)
(* the command line inductive, and SessionsAccounted says where a running  *)
(* session is; together they bound the invalid accesses of the service.    *)
(***************************************************************************)
EXTENDS Network, TLAPS

\* The four daemon threads and the session threads are threads, and no session
\* has the name of one of the daemon's.
LEMMA ThreadNames ==
  /\ "main" \in Thread /\ "gc" \in Thread /\ "send" \in Thread /\ "cmd" \in Thread
  /\ \A s \in Session :
       s \in Thread /\ s \notin {"none", "main", "gc", "send", "cmd"}
  BY NetworkAssumption DEF Thread

\* Moving one thread to a place of its own code keeps PcOK ...
LEMMA PcSet ==
  ASSUME PcOK, NEW t \in Thread, NEW l \in Label(t), pc' = [pc EXCEPT ![t] = l]
  PROVE  PcOK'
  BY DEF PcOK

\* ... and so does moving two.
LEMMA PcSet2 ==
  ASSUME PcOK, NEW t \in Thread, NEW u \in Thread, NEW l \in Label(t),
         NEW m \in Label(u), pc' = [pc EXCEPT ![t] = l, ![u] = m]
  PROVE  PcOK'
  BY DEF PcOK

\* What a step leaves alone keeps its type.
LEMMA Unchanged ==
  ASSUME TypeOK
  PROVE  /\ UNCHANGED sessionVars => SessionOK'
         /\ UNCHANGED queueVars => QueueOK'
         /\ UNCHANGED lockVars => LockOK'
         /\ UNCHANGED cmdVars => CmdOK'
         /\ UNCHANGED quitVars => QuitOK'
         /\ UNCHANGED pc => PcOK'
         /\ UNCHANGED fault => FaultOK'
  <1> USE DEF TypeOK
  <1>1. UNCHANGED sessionVars => SessionOK' BY DEF sessionVars, SessionOK
  <1>2. UNCHANGED queueVars => QueueOK' BY DEF queueVars, QueueOK
  <1>3. UNCHANGED lockVars => LockOK' BY DEF lockVars, LockOK
  <1>4. UNCHANGED cmdVars => CmdOK' BY DEF cmdVars, CmdOK
  <1>5. UNCHANGED quitVars => QuitOK' BY DEF quitVars, QuitOK
  <1>6. UNCHANGED pc => PcOK' BY DEF PcOK
  <1>7. UNCHANGED fault => FaultOK' BY DEF FaultOK
  <1> QED BY <1>1, <1>2, <1>3, <1>4, <1>5, <1>6, <1>7

USE DEF At, Goto, Ended, MainRuns, session_new, session_free

\* The steps of network_main and server_destroy keep the types.
LEMMA TypeMain ==
  ASSUME TypeOK, QueueInv,
         MainStep
  PROVE  TypeOK'
  <1>1. CASE network_main_loop
    <2>1. PcOK' BY <1>1, PcSet, ThreadNames DEF network_main_loop, Label, TypeOK
    <2> QED BY <1>1, <2>1, Unchanged DEF network_main_loop, TypeOK
  <1>0. CASE network_main_listen
    <2>1. PcOK' BY <1>0, PcSet, ThreadNames DEF network_main_listen, Label, TypeOK
    <2> QED BY <1>0, <2>1, Unchanged DEF network_main_listen, TypeOK
  <1>2. CASE network_main_push
    <2>1. PcOK' BY <1>2, PcSet, ThreadNames DEF network_main_push, Label, TypeOK
    <2>2. SessionOK' BY <1>2 DEF network_main_push, SessionOK, TypeOK, Status
    <2>3. accepted \in Session
      BY <1>2 DEF network_main_push, QueueInv, AcceptedIsNew
    <2>4. QueueOK' BY <1>2, <2>3 DEF network_main_push, QueueOK, TypeOK
    <2>5. LockOK' BY <1>2, ThreadNames DEF network_main_push, LockOK, TypeOK
    <2>6. CmdOK' BY <1>2 DEF network_main_push, CmdOK, TypeOK
    <2>7. FaultOK' BY <1>2 DEF network_main_push, FaultOK, TypeOK, QueueRace
    <2> QED
      BY <1>2, <2>1, <2>2, <2>4, <2>5, <2>6, <2>7, Unchanged
      DEF network_main_push, TypeOK
  <1>3. CASE cmdline_stop("main")
    <2>1. AfterStop("main") \in Label("main") BY DEF AfterStop, Label
    <2>2. PcOK'
      BY <1>3, <2>1, PcSet, ThreadNames DEF cmdline_stop, Label, TypeOK
    <2>3. CmdOK' BY <1>3 DEF cmdline_stop, CmdOK, TypeOK
    <2>4. QuitOK' BY <1>3, ThreadNames DEF cmdline_stop, QuitOK, TypeOK
    <2> QED BY <1>3, <2>2, <2>3, <2>4, Unchanged DEF cmdline_stop, TypeOK
  <1>4. CASE cmdline_stop_joined("main")
    <2>1. AfterStop("main") \in Label("main") /\ "off" \in Label("cmd")
      BY DEF AfterStop, Label
    <2>2. PcOK'
      BY <1>4, <2>1, PcSet2, ThreadNames DEF cmdline_stop_joined, TypeOK
    <2>3. CmdOK' BY <1>4 DEF cmdline_stop_joined, CmdOK, TypeOK
    <2>4. QuitOK' BY <1>4, ThreadNames DEF cmdline_stop_joined, QuitOK, TypeOK
    <2> QED BY <1>4, <2>2, <2>3, <2>4, Unchanged DEF cmdline_stop_joined, TypeOK
  <1>5. CASE cmdline_start("main")
    <2>1. PICK l \in Label("cmd") :
            pc' = [pc EXCEPT !["cmd"] = l, !["main"] = "loop"]
      BY <1>5, ThreadNames DEF cmdline_start, PcOK, Label, TypeOK
    <2>2. "loop" \in Label("main") BY DEF Label
    <2>3. PcOK' BY <2>1, <2>2, PcSet2, ThreadNames DEF TypeOK
    <2>4. CmdOK' BY <1>5 DEF cmdline_start, CmdOK, TypeOK
    <2>5. LockOK' BY <1>5, ThreadNames DEF cmdline_start, LockOK, TypeOK
    <2> QED BY <1>5, <2>3, <2>4, <2>5, Unchanged DEF cmdline_start, TypeOK
  <1>6. CASE network_main_join_gc
    <2>1. PcOK'
      BY <1>6, PcSet, ThreadNames DEF network_main_join_gc, Label, TypeOK
    <2> QED BY <1>6, <2>1, Unchanged DEF network_main_join_gc, TypeOK
  <1>7. CASE network_main_join_send
    <2>1. PcOK'
      BY <1>7, PcSet, ThreadNames DEF network_main_join_send, Label, TypeOK
    <2> QED BY <1>7, <2>1, Unchanged DEF network_main_join_send, TypeOK
  <1>8. CASE session_destroy_cancel
    <2>1. PcOK'
      BY <1>8, PcSet, ThreadNames DEF session_destroy_cancel, Label, TypeOK
    <2>2. Head(session_queue) \in Session
      BY <1>8 DEF session_destroy_cancel, QueueOK, TypeOK
    <2>3. QuitOK'
      BY <1>8, <2>2, ThreadNames DEF session_destroy_cancel, QuitOK, TypeOK
    <2> QED BY <1>8, <2>1, <2>3, Unchanged DEF session_destroy_cancel, TypeOK
  <1>9. CASE session_destroy_free
    <2>1. PcOK'
      BY <1>9, PcSet, ThreadNames DEF session_destroy_free, Label, TypeOK
    <2>2. SessionOK' BY <1>9 DEF session_destroy_free, SessionOK, TypeOK
    <2> QED BY <1>9, <2>1, <2>2, Unchanged DEF session_destroy_free, TypeOK
  <1>10. CASE list_destroy_remove
    <2>1. PcOK'
      BY <1>10, PcSet, ThreadNames DEF list_destroy_remove, Label, TypeOK
    <2>2. session_queue # <<>>
      BY <1>10 DEF list_destroy_remove, QueueInv, DestroyedLast
    <2>3. QueueOK' BY <1>10, <2>2 DEF list_destroy_remove, QueueOK, TypeOK
    <2> QED BY <1>10, <2>1, <2>3, Unchanged DEF list_destroy_remove, TypeOK
  <1>11. CASE network_main_return
    <2>1. PcOK'
      BY <1>11, PcSet, ThreadNames DEF network_main_return, Label, TypeOK
    <2> QED BY <1>11, <2>1, Unchanged DEF network_main_return, TypeOK
  <1> QED
    BY <1>0, <1>1, <1>2, <1>3, <1>4, <1>5, <1>6, <1>7, <1>8, <1>9, <1>10, <1>11
    DEF MainStep

\* The steps of gc_thread keep the types.
LEMMA TypeGc ==
  ASSUME TypeOK, QueueInv,
         GcStep \/ gc_thread_wake
  PROVE  TypeOK'
  <1>1. CASE gc_thread_lock
    <2>1. PcOK' BY <1>1, PcSet, ThreadNames DEF gc_thread_lock, Label, TypeOK
    <2>2. LockOK' BY <1>1, ThreadNames DEF gc_thread_lock, LockOK, TypeOK
    <2> QED BY <1>1, <2>1, <2>2, Unchanged DEF gc_thread_lock, TypeOK
  <1>2. CASE gc_thread_check
    <2>1. PcOK' BY <1>2, PcSet, ThreadNames DEF gc_thread_check, Label, TypeOK
    <2>2. LockOK' BY <1>2, ThreadNames DEF gc_thread_check, LockOK, TypeOK
    <2> QED BY <1>2, <2>1, <2>2, Unchanged DEF gc_thread_check, TypeOK
  <1>3. CASE gc_thread_release
    <2>1. SessionOK' BY <1>3 DEF gc_thread_release, SessionOK, TypeOK
    <2>2. QueueOK' BY <1>3 DEF gc_thread_release, QueueOK, TypeOK
    <2> QED BY <1>3, <2>1, <2>2, Unchanged DEF gc_thread_release, TypeOK
  <1>4. CASE gc_thread_activate
    <2>1. PcOK'
      BY <1>4, PcSet, ThreadNames DEF gc_thread_activate, Label, TypeOK
    <2>2. SessionOK' BY <1>4 DEF gc_thread_activate, SessionOK, TypeOK, Status
    <2>3. CmdOK' BY <1>4 DEF gc_thread_activate, CmdOK, TypeOK
    <2> QED BY <1>4, <2>1, <2>2, <2>3, Unchanged DEF gc_thread_activate, TypeOK
  <1>5. CASE gc_thread_close
    <2>1. PcOK' BY <1>5, PcSet, ThreadNames DEF gc_thread_close, Label, TypeOK
    <2> QED BY <1>5, <2>1, Unchanged DEF gc_thread_close, TypeOK
  <1>6. CASE cmdline_stop("gc")
    <2>1. AfterStop("gc") \in Label("gc") BY DEF AfterStop, Label
    <2>2. PcOK'
      BY <1>6, <2>1, PcSet, ThreadNames DEF cmdline_stop, Label, TypeOK
    <2>3. CmdOK' BY <1>6 DEF cmdline_stop, CmdOK, TypeOK
    <2>4. QuitOK' BY <1>6, ThreadNames DEF cmdline_stop, QuitOK, TypeOK
    <2> QED BY <1>6, <2>2, <2>3, <2>4, Unchanged DEF cmdline_stop, TypeOK
  <1>7. CASE cmdline_stop_joined("gc")
    <2>1. AfterStop("gc") \in Label("gc") /\ "off" \in Label("cmd")
      BY DEF AfterStop, Label
    <2>2. PcOK'
      BY <1>7, <2>1, PcSet2, ThreadNames DEF cmdline_stop_joined, TypeOK
    <2>3. CmdOK' BY <1>7 DEF cmdline_stop_joined, CmdOK, TypeOK
    <2>4. QuitOK' BY <1>7, ThreadNames DEF cmdline_stop_joined, QuitOK, TypeOK
    <2> QED BY <1>7, <2>2, <2>3, <2>4, Unchanged DEF cmdline_stop_joined, TypeOK
  <1>8. CASE cmdline_start("gc")
    <2>1. PICK l \in Label("cmd") :
            pc' = [pc EXCEPT !["cmd"] = l, !["gc"] = "check"]
      BY <1>8, ThreadNames DEF cmdline_start, PcOK, Label, TypeOK
    <2>2. "check" \in Label("gc") BY DEF Label
    <2>3. PcOK' BY <2>1, <2>2, PcSet2, ThreadNames DEF TypeOK
    <2>4. CmdOK' BY <1>8 DEF cmdline_start, CmdOK, TypeOK
    <2>5. LockOK' BY <1>8, ThreadNames DEF cmdline_start, LockOK, TypeOK
    <2> QED BY <1>8, <2>3, <2>4, <2>5, Unchanged DEF cmdline_start, TypeOK
  <1>9. CASE gc_thread_wake
    <2>1. PcOK' BY <1>9, PcSet, ThreadNames DEF gc_thread_wake, Label, TypeOK
    <2>2. LockOK' BY <1>9, ThreadNames DEF gc_thread_wake, LockOK, TypeOK
    <2> QED BY <1>9, <2>1, <2>2, Unchanged DEF gc_thread_wake, TypeOK
  <1> QED BY <1>1, <1>2, <1>3, <1>4, <1>5, <1>6, <1>7, <1>8, <1>9 DEF GcStep

\* The steps of send_thread keep the types.
LEMMA TypeSend ==
  ASSUME TypeOK, QueueInv,
         SendStep
  PROVE  TypeOK'
  <1>1. CASE send_thread_loop
    <2>1. PcOK' BY <1>1, PcSet, ThreadNames DEF send_thread_loop, Label, TypeOK
    <2> QED BY <1>1, <2>1, Unchanged DEF send_thread_loop, TypeOK
  <1>2. CASE send_thread_read
    <2>1. PcOK' BY <1>2, PcSet, ThreadNames DEF send_thread_read, Label, TypeOK
    <2>2. CmdOK' BY <1>2 DEF send_thread_read, CmdOK, TypeOK
    <2> QED BY <1>2, <2>1, <2>2, Unchanged DEF send_thread_read, TypeOK
  <1>3. CASE send_thread_deliver
    <2>1. PcOK'
      BY <1>3, PcSet, ThreadNames DEF send_thread_deliver, Label, TypeOK
    <2>2. FaultOK'
      BY <1>3 DEF send_thread_deliver, FaultOK, TypeOK, FrontFault, QueueRace
    <2>3. LockOK' BY <1>3, ThreadNames DEF send_thread_deliver, LockOK, TypeOK
    <2> QED BY <1>3, <2>1, <2>2, <2>3, Unchanged DEF send_thread_deliver, TypeOK
  <1>4. CASE send_thread_poll
    <2>1. PcOK' BY <1>4, PcSet, ThreadNames DEF send_thread_poll, Label, TypeOK
    <2> QED BY <1>4, <2>1, Unchanged DEF send_thread_poll, TypeOK
  <1>5. CASE send_thread_nap
    <2>1. PcOK' BY <1>5, PcSet, ThreadNames DEF send_thread_nap, Label, TypeOK
    <2> QED BY <1>5, <2>1, Unchanged DEF send_thread_nap, TypeOK
  <1> QED BY <1>1, <1>2, <1>3, <1>4, <1>5 DEF SendStep

\* The steps of the command-line thread keep the types.
LEMMA TypeCmd ==
  ASSUME TypeOK, QueueInv,
         CmdStep
  PROVE  TypeOK'
  <1>1. CASE cmdline_thread_read
    <2>1. Head(stdin) \in {"exit", "exitserver", "other"}
      BY <1>1, NetworkAssumption DEF cmdline_thread_read, TypeOK, CmdOK
    <2>2. PcOK'
      BY <1>1, <2>1, PcSet, ThreadNames DEF cmdline_thread_read, Label, TypeOK
    <2>3. CmdOK' BY <1>1 DEF cmdline_thread_read, CmdOK, TypeOK
    <2> QED BY <1>1, <2>2, <2>3, Unchanged DEF cmdline_thread_read, TypeOK
  <1>2. CASE cmdline_thread_loop
    <2>1. PcOK'
      BY <1>2, PcSet, ThreadNames DEF cmdline_thread_loop, Label, TypeOK
    <2>2. FaultOK' BY <1>2 DEF cmdline_thread_loop, FaultOK, TypeOK
    <2> QED BY <1>2, <2>1, <2>2, Unchanged DEF cmdline_thread_loop, TypeOK
  <1>3. CASE network_logoff
    <2>1. PcOK' BY <1>3, PcSet, ThreadNames DEF network_logoff, Label, TypeOK
    <2>2. SessionOK' BY <1>3 DEF network_logoff, SessionOK, TypeOK
    <2>3. FaultOK'
      BY <1>3 DEF network_logoff, FaultOK, TypeOK, FrontFault, QueueRace
    <2>4. QueueOK' BY <1>3 DEF network_logoff, QueueOK, TypeOK
    <2>5. LockOK' BY <1>3, ThreadNames DEF network_logoff, LockOK, TypeOK
    <2> QED
      BY <1>3, <2>1, <2>2, <2>3, <2>4, <2>5, Unchanged DEF network_logoff, TypeOK
  <1>4. CASE network_logoff_null
    <2>1. PcOK' BY <1>4, PcSet, ThreadNames DEF network_logoff_null, Label, TypeOK
    <2>2. SessionOK' BY <1>4 DEF network_logoff_null, SessionOK, TypeOK
    <2>3. FaultOK' BY <1>4 DEF network_logoff_null, FaultOK, TypeOK
    <2>4. QueueOK' BY <1>4 DEF network_logoff_null, QueueOK, TypeOK
    <2>5. LockOK' BY <1>4, ThreadNames DEF network_logoff_null, LockOK, TypeOK
    <2> QED
      BY <1>4, <2>1, <2>2, <2>3, <2>4, <2>5, Unchanged
      DEF network_logoff_null, TypeOK
  <1>5. CASE cmd_server_exitserver
    <2>1. PcOK'
      BY <1>5, PcSet, ThreadNames DEF cmd_server_exitserver, Label, TypeOK
    <2>2. QuitOK' BY <1>5, ThreadNames DEF cmd_server_exitserver, QuitOK, TypeOK
    <2> QED BY <1>5, <2>1, <2>2, Unchanged DEF cmd_server_exitserver, TypeOK
  <1>6. CASE network_quit_kill
    <2>1. AfterSignal \in Label("main") /\ "loop" \in Label("cmd")
      BY ThreadNames DEF AfterSignal, Label, TypeOK, PcOK
    <2>2. PcOK' BY <1>6, <2>1, PcSet2, ThreadNames DEF network_quit_kill, TypeOK
    <2>3. QuitOK'
      BY <1>6, ThreadNames DEF network_quit_kill, QuitKill, QuitOK, TypeOK
    <2>4. FaultOK' BY <1>6 DEF network_quit_kill, QuitKill, FaultOK, TypeOK
    <2> QED BY <1>6, <2>2, <2>3, <2>4, Unchanged DEF network_quit_kill, TypeOK
  <1> QED BY <1>1, <1>2, <1>3, <1>4, <1>5, <1>6 DEF CmdStep

\* Which threads can end at a cancellation that keeps mutex: each of them has
\* "dead" among its places, and neither network_main nor an ended thread is one.
LEMMA CancelHolding ==
  ASSUME TypeOK, NEW t \in Thread, cancel_holding(t)
  PROVE  /\ "dead" \in Label(t) /\ t \notin {"main", "cmd"}
         /\ pc[t] \in {"wait", "join", "write"}
  <1>1. pc[t] \in {"wait", "join", "write"} BY DEF cancel_holding
  <1>2. pc[t] \in Label(t) BY DEF TypeOK, PcOK
  <1>3. t # "main"
    <2>1. ASSUME t = "main" PROVE FALSE
      <3>1. pc["main"] = "write" BY <2>1 DEF cancel_holding
      <3>2. "write" \notin Label("main") BY DEF Label
      <3> QED BY <1>2, <2>1, <3>1, <3>2
    <2> QED BY <2>1
  <1>4. t # "cmd"
    <2>1. ASSUME t = "cmd" PROVE FALSE
      <3>1. pc["cmd"] = "write" BY <2>1 DEF cancel_holding
      <3>2. "write" \notin Label("cmd") BY DEF Label
      <3> QED BY <1>2, <2>1, <3>1, <3>2
    <2> QED BY <2>1
  <1>5. "dead" \in Label(t) BY <1>3, <1>4, ThreadNames DEF Label, Thread
  <1> QED BY <1>1, <1>3, <1>4, <1>5

\* The steps of the SIGTERM handler and cancellation keep the types.
LEMMA TypeQuit ==
  ASSUME TypeOK, QueueInv,
         sigterm_kill \/ \E t \in Thread : CancelStep(t)
  PROVE  TypeOK'
  <1>2. CASE sigterm_kill
    <2>1. AfterSignal \in Label("main")
      BY ThreadNames DEF AfterSignal, Label, TypeOK, PcOK
    <2>2. PcOK' BY <1>2, <2>1, PcSet, ThreadNames DEF sigterm_kill, TypeOK
    <2>3. QuitOK' BY <1>2, ThreadNames DEF sigterm_kill, QuitKill, QuitOK, TypeOK
    <2>4. FaultOK' BY <1>2 DEF sigterm_kill, QuitKill, FaultOK, TypeOK
    <2> QED BY <1>2, <2>2, <2>3, <2>4, Unchanged DEF sigterm_kill, TypeOK
  <1>3. ASSUME NEW t \in Thread, cancel_thread(t) PROVE TypeOK'
    <2>1. "done" \in Label(t)
      BY <1>3, ThreadNames DEF cancel_thread, CancelPoint, Label, Thread
    <2>2. PcOK' BY <1>3, <2>1, PcSet, ThreadNames DEF cancel_thread, TypeOK
    <2> QED BY <1>3, <2>2, Unchanged DEF cancel_thread, TypeOK
  <1>4. ASSUME NEW t \in Thread, cancel_holding(t) PROVE TypeOK'
    <2>1. "dead" \in Label(t) BY <1>4, CancelHolding
    <2>2. PcOK' BY <1>4, <2>1, PcSet, ThreadNames DEF cancel_holding, TypeOK
    <2>3. LockOK' BY <1>4, ThreadNames DEF cancel_holding, LockOK, TypeOK
    <2> QED BY <1>4, <2>2, <2>3, Unchanged DEF cancel_holding, TypeOK
  <1> QED BY <1>2, <1>3, <1>4 DEF CancelStep

\* The steps of session_thread keep the types.
LEMMA TypeSession ==
  ASSUME TypeOK, QueueInv, NEW s \in Session,
         SessionStep(s)
  PROVE  TypeOK'
  <1>1. CASE conn_receive_lock(s)
    <2>1. PcOK'
      BY <1>1, PcSet, ThreadNames DEF conn_receive_lock, Label, TypeOK
    <2>2. LockOK' BY <1>1, ThreadNames DEF conn_receive_lock, LockOK, TypeOK
    <2> QED BY <1>1, <2>1, <2>2, Unchanged DEF conn_receive_lock, TypeOK
  <1>2. CASE session_thread_exit(s)
    <2>1. PcOK'
      BY <1>2, PcSet, ThreadNames DEF session_thread_exit, Label, TypeOK
    <2>2. SessionOK' BY <1>2 DEF session_thread_exit, SessionOK, TypeOK, Status
    <2>3. LockOK' BY <1>2, ThreadNames DEF session_thread_exit, LockOK, TypeOK
    <2> QED BY <1>2, <2>1, <2>2, <2>3, Unchanged DEF session_thread_exit, TypeOK
  <1> QED BY <1>1, <1>2 DEF SessionStep

\* The ends of the writes under mutex keep the types.
LEMMA TypeReads ==
  ASSUME TypeOK, ClientReads
  PROVE  TypeOK'
  <1>1. CASE send_thread_written
    <2>1. PcOK'
      BY <1>1, PcSet, ThreadNames DEF send_thread_written, Label, TypeOK
    <2>2. LockOK' BY <1>1, ThreadNames DEF send_thread_written, LockOK, TypeOK
    <2> QED BY <1>1, <2>1, <2>2, Unchanged DEF send_thread_written, TypeOK
  <1>2. CASE send_thread_broke
    <2>1. PcOK' BY <1>2, PcSet, ThreadNames DEF send_thread_broke, Label, TypeOK
    <2>2. LockOK' BY <1>2, ThreadNames DEF send_thread_broke, LockOK, TypeOK
    <2>3. FaultOK'
      BY <1>2 DEF send_thread_broke, FaultOK, TypeOK, FrontFault, QueueRace
    <2> QED BY <1>2, <2>1, <2>2, <2>3, Unchanged DEF send_thread_broke, TypeOK
  <1>3. ASSUME NEW s \in Session, conn_receive_notify(s) PROVE TypeOK'
    <2>1. PcOK'
      BY <1>3, PcSet, ThreadNames DEF conn_receive_notify, Label, TypeOK
    <2>2. FaultOK'
      BY <1>3 DEF conn_receive_notify, FaultOK, TypeOK, FrontFault, QueueRace
    <2>3. LockOK' BY <1>3, ThreadNames DEF conn_receive_notify, LockOK, TypeOK
    <2> QED BY <1>3, <2>1, <2>2, <2>3, Unchanged DEF conn_receive_notify, TypeOK
  <1> QED BY <1>1, <1>2, <1>3 DEF ClientReads

\* The steps of clients, the game server and the kernel keep the types.
LEMMA TypeEnvironment ==
  ASSUME TypeOK, QueueInv,
         Environment
  PROVE  TypeOK'
  <1>1. ASSUME NEW s \in Session, network_main_accept(s) PROVE TypeOK'
    <2>1. PcOK'
      BY <1>1, PcSet2, ThreadNames DEF network_main_accept, Label, TypeOK
    <2>2. SessionOK' BY <1>1 DEF network_main_accept, SessionOK, TypeOK
    <2>3. QueueOK' BY <1>1 DEF network_main_accept, QueueOK, TypeOK
    <2> QED BY <1>1, <2>1, <2>2, <2>3, Unchanged DEF network_main_accept, TypeOK
  <1>2. ASSUME NEW s \in Session, session_thread_kex(s) PROVE TypeOK'
    <2>1. PcOK'
      BY <1>2, PcSet, ThreadNames DEF session_thread_kex, Label, TypeOK
    <2> QED BY <1>2, <2>1, Unchanged DEF session_thread_kex, TypeOK
  <1>3. ASSUME NEW s \in Session, conn_auth_denied(s) PROVE TypeOK'
    <2>1. PcOK' BY <1>3, PcSet, ThreadNames DEF conn_auth_denied, Label, TypeOK
    <2> QED BY <1>3, <2>1, Unchanged DEF conn_auth_denied, TypeOK
  <1>4. ASSUME NEW s \in Session, conn_auth_success(s) PROVE TypeOK'
    <2>1. SessionOK' BY <1>4 DEF conn_auth_success, SessionOK, TypeOK
    <2> QED BY <1>4, <2>1, Unchanged DEF conn_auth_success, TypeOK
  <1>5. ASSUME NEW s \in Session, channel_open(s) PROVE TypeOK'
    <2>1. SessionOK' BY <1>5 DEF channel_open, SessionOK, TypeOK
    <2> QED BY <1>5, <2>1, Unchanged DEF channel_open, TypeOK
  <1>6. ASSUME NEW s \in Session, session_thread_authed(s) PROVE TypeOK'
    <2>1. PcOK'
      BY <1>6, PcSet, ThreadNames DEF session_thread_authed, Label, TypeOK
    <2> QED BY <1>6, <2>1, Unchanged DEF session_thread_authed, TypeOK
  <1>7. ASSUME NEW s \in Session, session_thread_lost(s) PROVE TypeOK'
    <2>1. PcOK'
      BY <1>7, PcSet, ThreadNames DEF session_thread_lost, Label, TypeOK
    <2>2. FaultOK' BY <1>7 DEF session_thread_lost, ChannelFault, FaultOK, TypeOK
    <2> QED BY <1>7, <2>1, <2>2, Unchanged DEF session_thread_lost, TypeOK
  <1>8. ASSUME NEW s \in Session, NEW c \in Command, conn_receive_active(s, c)
        PROVE  TypeOK'
    <2>1. CmdOK' BY <1>8 DEF conn_receive_active, CmdOK, TypeOK
    <2> QED BY <1>8, <2>1, Unchanged DEF conn_receive_active, TypeOK
  <1>9. ASSUME NEW s \in Session, conn_receive_waiting(s) PROVE TypeOK'
    <2>1. PcOK'
      BY <1>9, PcSet, ThreadNames DEF conn_receive_waiting, Label, TypeOK
    <2> QED BY <1>9, <2>1, Unchanged DEF conn_receive_waiting, TypeOK
  <1>10. CASE network_main_accept_fails
    <2>1. PcOK'
      BY <1>10, PcSet, ThreadNames DEF network_main_accept_fails, Label, TypeOK
    <2> QED BY <1>10, <2>1, Unchanged DEF network_main_accept_fails, TypeOK
  <1>11. CASE console_output
    <2>1. CmdOK' BY <1>11 DEF console_output, CmdOK, TypeOK
    <2> QED BY <1>11, <2>1, Unchanged DEF console_output, TypeOK
  <1>12. CASE sigterm_arrives
    <2>1. QuitOK' BY <1>12, ThreadNames DEF sigterm_arrives, QuitOK, TypeOK
    <2> QED BY <1>12, <2>1, Unchanged DEF sigterm_arrives, TypeOK
  <1>13. CASE ClientReads BY <1>13, TypeReads
  <1> QED
    BY <1>1, <1>2, <1>3, <1>4, <1>5, <1>6, <1>7, <1>8, <1>9, <1>10, <1>11, <1>12,
       <1>13
    DEF Environment
-----------------------------------------------------------------------------
(* The queue                                                               *)

\* A step that touches neither the queue nor the sessions in it, leaves the
\* ended threads ended and does not move network_main towards the queue.
Quiet ==
  /\ UNCHANGED <<session_queue, accepted, status, heap>>
  /\ \/ pc'["main"] = pc["main"]
     \/ /\ pc["main"] # "unlink"
        /\ pc'["main"] \in {"loop", "listen", "accept", "stop", "join", "start",
                            "join_gc", "exited"}
  /\ Ended("gc") => Ended("gc")'
  /\ \A s \in Session : pc[s] \in {"unborn", "done", "dead"} => pc'[s] = pc[s]

\* Such a step keeps the invariant of the queue.
LEMMA QuietKeeps ==
  ASSUME QueueInv, Quiet PROVE QueueInv'
  <1> USE DEF Quiet
  <1>1. NoDuplicates' BY DEF QueueInv, NoDuplicates
  <1>2. AcceptedIsNew' BY DEF QueueInv, AcceptedIsNew, InQueue
  <1>3. UnbornIsFresh' BY DEF QueueInv, UnbornIsFresh, InQueue
  <1>4. ExitIsDone' BY DEF QueueInv, ExitIsDone
  <1>5. DestroyedLast' BY DEF QueueInv, DestroyedLast
  <1>6. OneActiveAtFront' BY DEF QueueInv, OneActiveAtFront
  <1>7. FreedIsFinished' BY DEF QueueInv, FreedIsFinished, InQueue
  <1> QED BY <1>1, <1>2, <1>3, <1>4, <1>5, <1>6, <1>7 DEF QueueInv

\* queue_push appends a session that was not in the queue.
LEMMA QueuePush ==
  ASSUME TypeOK, QueueInv, network_main_push PROVE QueueInv'
  <1> DEFINE q == session_queue
  <1> USE DEF network_main_push
  <1>1. /\ accepted \in Session /\ heap[accepted] = "live"
        /\ \A k \in 1 .. Len(q) : q[k] # accepted
    BY DEF QueueInv, AcceptedIsNew, InQueue
  <1>2. /\ q \in Seq(Session)
        /\ q' = Append(q, accepted) /\ q' # <<>>
        /\ Len(q') = Len(q) + 1 /\ q'[Len(q) + 1] = accepted
        /\ \A k \in 1 .. Len(q) : q'[k] = q[k]
        /\ q # <<>> => Head(q') = Head(q)
        /\ q = <<>> => Head(q') = accepted
    BY <1>1 DEF TypeOK, QueueOK
  <1>3. /\ pc'["main"] \in {"stop", "loop"}
        /\ pc'["gc"] = pc["gc"]
        /\ \A s \in Session : pc'[s] = pc[s]
    BY ThreadNames DEF TypeOK, PcOK
  <1>4. /\ heap' = heap
        /\ \A s \in Session \ {accepted} : status'[s] = status[s]
        /\ status'[accepted] = IF q = <<>> THEN "SESSION_ACTIVE" ELSE status[accepted]
    BY <1>1 DEF TypeOK, SessionOK
  <1>5. \A s \in Session : InQueue(s)' <=> InQueue(s) \/ s = accepted
    BY <1>1, <1>2 DEF InQueue
  <1>6. NoDuplicates' BY <1>1, <1>2 DEF QueueInv, NoDuplicates
  <1>7. AcceptedIsNew' BY <1>3 DEF AcceptedIsNew
  <1>8. UnbornIsFresh' BY <1>1, <1>3, <1>4, <1>5 DEF QueueInv, UnbornIsFresh
  <1>9. ExitIsDone' BY <1>1, <1>3, <1>4 DEF QueueInv, ExitIsDone
  <1>10. DestroyedLast' BY <1>3 DEF DestroyedLast
  <1>11. OneActiveAtFront'
    BY <1>1, <1>2, <1>4 DEF QueueInv, OneActiveAtFront
  <1>12. FreedIsFinished'
    BY <1>1, <1>3, <1>4, <1>5 DEF QueueInv, FreedIsFinished
  <1> QED BY <1>6, <1>7, <1>8, <1>9, <1>10, <1>11, <1>12 DEF QueueInv

\* The front session is a session of the queue.
LEMMA FrontInQueue ==
  ASSUME TypeOK, session_queue # <<>>
  PROVE  Head(session_queue) \in Session /\ InQueue(Head(session_queue))
  BY DEF TypeOK, QueueOK, InQueue

\* Removing the front session leaves the others in their places.
LEMMA QueueTail ==
  ASSUME TypeOK, NoDuplicates, session_queue # <<>>,
         session_queue' = Tail(session_queue)
  PROVE  /\ Head(session_queue) \in Session
         /\ NoDuplicates'
         /\ \A s \in Session :
              InQueue(s)' <=> InQueue(s) /\ s # Head(session_queue)
  <1> DEFINE q == session_queue
  <1>1. /\ q \in Seq(Session) /\ Len(q) \in Nat \ {0}
        /\ Head(q) = q[1] /\ Head(q) \in Session
        /\ Len(q') = Len(q) - 1
        /\ \A k \in 1 .. Len(q') : q'[k] = q[k + 1]
    BY DEF TypeOK, QueueOK
  <1>2. NoDuplicates' BY <1>1 DEF NoDuplicates
  <1>3. ASSUME NEW s \in Session, InQueue(s)'
        PROVE  InQueue(s) /\ s # Head(q)
    <2>1. PICK k \in 1 .. Len(q') : q'[k] = s BY <1>3 DEF InQueue
    <2>2. k + 1 \in 1 .. Len(q) /\ q[k + 1] = s BY <1>1, <2>1
    <2> QED BY <1>1, <2>2 DEF InQueue, NoDuplicates
  <1>4. ASSUME NEW s \in Session, InQueue(s), s # Head(q)
        PROVE  InQueue(s)'
    <2>1. PICK k \in 1 .. Len(q) : q[k] = s BY <1>4 DEF InQueue
    <2>2. k # 1 BY <1>1, <1>4, <2>1
    <2>3. k - 1 \in 1 .. Len(q') /\ q'[k - 1] = s BY <1>1, <2>1, <2>2
    <2> QED BY <2>3 DEF InQueue
  <1> QED BY <1>1, <1>2, <1>3, <1>4

\* network_main and server_destroy keep the invariant of the queue: they append
\* to it while the service is up and take it apart at the end.
LEMMA QueueMain ==
  ASSUME TypeOK, QueueInv, MainStep PROVE QueueInv'
  <1> USE ThreadNames DEF TypeOK, PcOK
  <1>1. CASE network_main_loop \/ network_main_listen
    BY <1>1, QuietKeeps
    DEF network_main_loop, network_main_listen, Quiet, queueVars, sessionVars
  <1>2. CASE network_main_push BY <1>2, QueuePush
  <1>3. CASE cmdline_stop("main")
    BY <1>3, QuietKeeps DEF cmdline_stop, AfterStop, Quiet, queueVars, sessionVars
  <1>4. CASE cmdline_stop_joined("main")
    BY <1>4, QuietKeeps
    DEF cmdline_stop_joined, AfterStop, Quiet, queueVars, sessionVars
  <1>5. CASE cmdline_start("main")
    BY <1>5, QuietKeeps DEF cmdline_start, Quiet, queueVars, sessionVars
  <1>6. CASE network_main_join_gc \/ network_main_join_send \/ session_destroy_cancel
    <2>1. /\ UNCHANGED <<session_queue, accepted, status, heap>>
          /\ pc'["main"] \in {"join_send", "destroy", "join_session"}
          /\ Ended("gc") /\ Ended("gc")'
          /\ pc'["main"] = "join_session" => session_queue # <<>>
          /\ \A s \in Session : pc'[s] = pc[s]
      BY <1>6 DEF network_main_join_gc, network_main_join_send, sessionVars,
                  session_destroy_cancel, queueVars, QueueInv, DestroyedLast
    <2>2. NoDuplicates' BY <2>1 DEF QueueInv, NoDuplicates
    <2>3. AcceptedIsNew' BY <2>1 DEF AcceptedIsNew
    <2>4. UnbornIsFresh' BY <2>1 DEF QueueInv, UnbornIsFresh, InQueue
    <2>5. ExitIsDone' BY <2>1 DEF QueueInv, ExitIsDone
    <2>6. DestroyedLast' BY <2>1 DEF DestroyedLast
    <2>7. OneActiveAtFront' BY <2>1 DEF QueueInv, OneActiveAtFront
    <2>8. FreedIsFinished'
      BY <1>6, <2>1
      DEF network_main_join_gc, network_main_join_send, session_destroy_cancel,
          QueueInv, FreedIsFinished, InQueue
    <2> QED BY <2>2, <2>3, <2>4, <2>5, <2>6, <2>7, <2>8 DEF QueueInv
  <1>7. CASE session_destroy_free
    <2> DEFINE h == Head(session_queue)
    <2>0. session_queue # <<>> /\ h \in Session /\ InQueue(h) /\ Ended(h)
      BY <1>7, FrontInQueue DEF session_destroy_free, QueueInv, DestroyedLast
    <2>1. /\ session_queue # <<>> /\ h \in Session /\ InQueue(h) /\ Ended(h)
          /\ UNCHANGED <<session_queue, accepted, status>>
          /\ pc["main"] = "join_session" /\ pc'["main"] = "unlink"
          /\ pc'["gc"] = pc["gc"]
          /\ \A s \in Session : pc'[s] = pc[s]
          /\ \A s \in Session : heap'[s] = IF s = h THEN "freed" ELSE heap[s]
      BY <1>7, <2>0 DEF session_destroy_free, queueVars, SessionOK
    <2>2. NoDuplicates' BY <2>1 DEF QueueInv, NoDuplicates
    <2>3. AcceptedIsNew' BY <2>1 DEF AcceptedIsNew
    <2>4. UnbornIsFresh' BY <2>1 DEF QueueInv, UnbornIsFresh, InQueue
    <2>5. ExitIsDone' BY <2>1 DEF QueueInv, ExitIsDone
    <2>6. DestroyedLast' BY <2>1 DEF QueueInv, DestroyedLast
    <2>7. OneActiveAtFront' BY <2>1 DEF QueueInv, OneActiveAtFront
    <2>8. FreedIsFinished' BY <2>1 DEF QueueInv, FreedIsFinished, InQueue
    <2> QED BY <2>2, <2>3, <2>4, <2>5, <2>6, <2>7, <2>8 DEF QueueInv
  <1>8. CASE list_destroy_remove
    <2> DEFINE h == Head(session_queue)
    <2>1. /\ session_queue # <<>> /\ session_queue' = Tail(session_queue)
          /\ heap[h] = "freed"
          /\ UNCHANGED <<accepted, status, heap>>
          /\ pc["main"] = "unlink" /\ pc'["main"] = "destroy"
          /\ Ended("gc") /\ Ended("gc")'
          /\ \A s \in Session : pc'[s] = pc[s]
      BY <1>8 DEF list_destroy_remove, sessionVars, QueueInv, DestroyedLast
    <2>2. /\ h \in Session /\ NoDuplicates'
          /\ \A s \in Session : InQueue(s)' <=> InQueue(s) /\ s # h
      BY <2>1, QueueTail DEF QueueInv
    <2>3. AcceptedIsNew' BY <2>1 DEF AcceptedIsNew
    <2>4. UnbornIsFresh' BY <2>1, <2>2 DEF QueueInv, UnbornIsFresh
    <2>5. ExitIsDone' BY <2>1 DEF QueueInv, ExitIsDone
    <2>6. DestroyedLast' BY <2>1 DEF DestroyedLast
    <2>7. OneActiveAtFront' BY <2>1 DEF QueueInv, OneActiveAtFront
    <2>8. FreedIsFinished' BY <2>1, <2>2 DEF QueueInv, FreedIsFinished
    <2> QED BY <2>2, <2>3, <2>4, <2>5, <2>6, <2>7, <2>8 DEF QueueInv
  <1>9. CASE network_main_return
    BY <1>9, QuietKeeps DEF network_main_return, Quiet, queueVars, sessionVars
  <1> QED BY <1>1, <1>2, <1>3, <1>4, <1>5, <1>6, <1>7, <1>8, <1>9 DEF MainStep

\* gc_thread keeps the invariant of the queue: it removes only exited sessions,
\* and activates the front session only.
LEMMA QueueGc ==
  ASSUME TypeOK, QueueInv, GcStep \/ gc_thread_wake PROVE QueueInv'
  <1> USE ThreadNames DEF TypeOK, PcOK
  <1>1. CASE gc_thread_lock \/ gc_thread_check \/ gc_thread_close \/ gc_thread_wake
    BY <1>1, QuietKeeps
    DEF gc_thread_lock, gc_thread_check, gc_thread_close, gc_thread_wake, Quiet,
        queueVars, sessionVars
  <1>2. CASE cmdline_stop("gc")
    BY <1>2, QuietKeeps DEF cmdline_stop, AfterStop, Quiet, queueVars, sessionVars
  <1>3. CASE cmdline_stop_joined("gc")
    BY <1>3, QuietKeeps
    DEF cmdline_stop_joined, AfterStop, Quiet, queueVars, sessionVars
  <1>4. CASE cmdline_start("gc")
    BY <1>4, QuietKeeps DEF cmdline_start, Quiet, queueVars, sessionVars
  <1>5. CASE gc_thread_release
    <2> DEFINE h == Head(session_queue)
    <2>1. /\ session_queue # <<>> /\ session_queue' = Tail(session_queue)
          /\ status[h] = "SESSION_EXIT" /\ ~Ended("gc")
          /\ UNCHANGED <<accepted, status, pc>>
      BY <1>5 DEF gc_thread_release
    <2>2. /\ h \in Session /\ NoDuplicates'
          /\ \A s \in Session : InQueue(s)' <=> InQueue(s) /\ s # h
      BY <2>1, QueueTail DEF QueueInv
    <2>3. \A s \in Session : heap'[s] = IF s = h THEN "freed" ELSE heap[s]
      BY <1>5, <2>2 DEF gc_thread_release, SessionOK
    <2>4. InQueue(h) BY <2>1, FrontInQueue
    <2>5. AcceptedIsNew'
      BY <2>1, <2>2, <2>3, <2>4 DEF QueueInv, AcceptedIsNew
    <2>6. UnbornIsFresh' BY <2>1, <2>2, <2>3 DEF QueueInv, UnbornIsFresh
    <2>7. ExitIsDone' BY <2>1 DEF QueueInv, ExitIsDone
    <2>8. DestroyedLast' BY <2>1 DEF QueueInv, DestroyedLast
    <2>9. OneActiveAtFront' BY <2>1, <2>2, <2>3 DEF QueueInv, OneActiveAtFront
    <2>10. FreedIsFinished'
      BY <2>1, <2>2, <2>3 DEF QueueInv, FreedIsFinished, ExitIsDone, DestroyedLast
    <2> QED BY <2>2, <2>5, <2>6, <2>7, <2>8, <2>9, <2>10 DEF QueueInv
  <1>6. CASE gc_thread_activate
    <2> DEFINE h == Head(session_queue)
    <2>0. session_queue # <<>> /\ h \in Session /\ InQueue(h)
      BY <1>6, FrontInQueue DEF gc_thread_activate
    <2>1. /\ session_queue # <<>> /\ h \in Session /\ InQueue(h)
          /\ UNCHANGED <<session_queue, accepted, heap>>
          /\ pc'["main"] = pc["main"] /\ ~Ended("gc")
          /\ \A s \in Session : pc'[s] = pc[s]
          /\ \A s \in Session \ {h} : status'[s] = status[s]
          /\ status'[h] = "SESSION_ACTIVE"
      BY <1>6, <2>0 DEF gc_thread_activate, queueVars, SessionOK
    <2>2. NoDuplicates' BY <2>1 DEF QueueInv, NoDuplicates
    <2>3. AcceptedIsNew' BY <2>1 DEF QueueInv, AcceptedIsNew, InQueue
    <2>4. UnbornIsFresh' BY <2>1 DEF QueueInv, UnbornIsFresh, InQueue
    <2>5. ExitIsDone' BY <2>1 DEF QueueInv, ExitIsDone
    <2>6. DestroyedLast' BY <2>1 DEF QueueInv, DestroyedLast
    <2>7. OneActiveAtFront' BY <2>1 DEF QueueInv, OneActiveAtFront
    <2>8. FreedIsFinished' BY <2>1 DEF QueueInv, FreedIsFinished, InQueue
    <2> QED BY <2>2, <2>3, <2>4, <2>5, <2>6, <2>7, <2>8 DEF QueueInv
  <1> QED BY <1>1, <1>2, <1>3, <1>4, <1>5, <1>6 DEF GcStep

\* A session that exits gives up the console and is done with its thread.
LEMMA QueueExit ==
  ASSUME TypeOK, QueueInv, NEW s \in Session, session_thread_exit(s)
  PROVE  QueueInv'
  <1>1. /\ pc[s] = "exiting" /\ pc'[s] = "done"
        /\ UNCHANGED <<session_queue, accepted, heap>>
        /\ pc'["main"] = pc["main"] /\ pc'["gc"] = pc["gc"]
        /\ \A r \in Session \ {s} : pc'[r] = pc[r] /\ status'[r] = status[r]
        /\ status'[s] = "SESSION_EXIT"
    BY ThreadNames DEF session_thread_exit, queueVars, TypeOK, PcOK, SessionOK
  <1>2. NoDuplicates' BY <1>1 DEF QueueInv, NoDuplicates
  <1>3. AcceptedIsNew' BY <1>1 DEF QueueInv, AcceptedIsNew, InQueue
  <1>4. UnbornIsFresh' BY <1>1 DEF QueueInv, UnbornIsFresh, InQueue
  <1>5. ExitIsDone' BY <1>1 DEF QueueInv, ExitIsDone
  <1>6. DestroyedLast' BY <1>1 DEF QueueInv, DestroyedLast
  <1>7. OneActiveAtFront' BY <1>1 DEF QueueInv, OneActiveAtFront
  <1>8. FreedIsFinished' BY <1>1 DEF QueueInv, FreedIsFinished, InQueue
  <1> QED BY <1>2, <1>3, <1>4, <1>5, <1>6, <1>7, <1>8 DEF QueueInv

\* An accepted connection gets a session that was not there before.
LEMMA QueueAccept ==
  ASSUME TypeOK, QueueInv, NEW s \in Session, network_main_accept(s)
  PROVE  QueueInv'
  <1>1. /\ heap[s] = "unborn" /\ heap'[s] = "live" /\ accepted' = s
        /\ pc["main"] = "accept" /\ pc'["main"] = "created"
        /\ pc'["gc"] = pc["gc"] /\ pc'[s] = "kex"
        /\ UNCHANGED <<session_queue, status>>
        /\ \A r \in Session \ {s} : pc'[r] = pc[r] /\ heap'[r] = heap[r]
    BY ThreadNames DEF network_main_accept, TypeOK, PcOK, SessionOK
  <1>2. NoDuplicates' BY <1>1 DEF QueueInv, NoDuplicates
  <1>3. AcceptedIsNew'
    BY <1>1 DEF QueueInv, AcceptedIsNew, UnbornIsFresh, InQueue
  <1>4. UnbornIsFresh' BY <1>1 DEF QueueInv, UnbornIsFresh, InQueue
  <1>5. ExitIsDone' BY <1>1 DEF QueueInv, ExitIsDone, UnbornIsFresh
  <1>6. DestroyedLast' BY <1>1 DEF QueueInv, DestroyedLast
  <1>7. OneActiveAtFront' BY <1>1 DEF QueueInv, OneActiveAtFront, UnbornIsFresh
  <1>8. FreedIsFinished' BY <1>1 DEF QueueInv, FreedIsFinished, InQueue
  <1> QED BY <1>2, <1>3, <1>4, <1>5, <1>6, <1>7, <1>8 DEF QueueInv

\* The other threads never touch the queue.
LEMMA QueueSend ==
  ASSUME TypeOK, QueueInv, SendStep PROVE QueueInv'
  BY QuietKeeps, ThreadNames
  DEF SendStep, send_thread_loop, send_thread_read, send_thread_deliver,
      send_thread_poll, send_thread_nap, Quiet, queueVars, sessionVars, TypeOK,
      PcOK

\* The steps of the command-line thread keep QueueInv: they touch neither the
\* queue nor a status.
LEMMA QueueCmd ==
  ASSUME TypeOK, QueueInv, CmdStep PROVE QueueInv'
  <1> USE QuietKeeps, ThreadNames DEF Quiet, queueVars, sessionVars, TypeOK, PcOK
  <1>1. CASE cmdline_thread_read BY <1>1 DEF cmdline_thread_read
  <1>2. CASE cmdline_thread_loop BY <1>2 DEF cmdline_thread_loop
  <1>3. CASE network_logoff BY <1>3 DEF network_logoff
  <1>4. CASE network_logoff_null BY <1>4 DEF network_logoff_null
  <1>5. CASE cmd_server_exitserver BY <1>5 DEF cmd_server_exitserver
  <1>6. CASE network_quit_kill BY <1>6 DEF network_quit_kill, QuitKill, AfterSignal
  <1> QED BY <1>1, <1>2, <1>3, <1>4, <1>5, <1>6 DEF CmdStep

\* So do the SIGTERM handler and cancellation, which ends no thread twice.
LEMMA QueueQuit ==
  ASSUME TypeOK, QueueInv, sigterm_kill \/ \E t \in Thread : CancelStep(t)
  PROVE  QueueInv'
  <1> USE QuietKeeps, ThreadNames DEF Quiet, queueVars, sessionVars, TypeOK, PcOK
  <1>2. CASE sigterm_kill BY <1>2 DEF sigterm_kill, QuitKill, AfterSignal
  <1>3. ASSUME NEW t \in Thread, cancel_thread(t) PROVE QueueInv'
    <2>1. pc[t] \notin {"unborn", "done", "dead"} /\ t # "main"
      BY <1>3 DEF cancel_thread, CancelPoint
    <2> QED BY <1>3, <2>1 DEF cancel_thread
  <1>4. ASSUME NEW t \in Thread, cancel_holding(t) PROVE QueueInv'
    <2>1. pc[t] \notin {"unborn", "done", "dead"} /\ t # "main"
      BY <1>4, CancelHolding
    <2> QED BY <1>4, <2>1 DEF cancel_holding
  <1> QED BY <1>2, <1>3, <1>4 DEF CancelStep

\* So do the steps of session_thread, the exit under mutex included.
LEMMA QueueSession ==
  ASSUME TypeOK, QueueInv, NEW s \in Session, SessionStep(s) PROVE QueueInv'
  <1>1. CASE conn_receive_lock(s)
    BY <1>1, QuietKeeps, ThreadNames
    DEF conn_receive_lock, Quiet, queueVars, sessionVars, TypeOK, PcOK
  <1>2. CASE session_thread_exit(s) BY <1>2, QueueExit
  <1> QED BY <1>1, <1>2 DEF SessionStep

\* So do the clients, the game server and the kernel; accept makes a session
\* that is new to the queue.
LEMMA QueueEnvironment ==
  ASSUME TypeOK, QueueInv, Environment PROVE QueueInv'
  <1> USE ThreadNames DEF Quiet, queueVars, sessionVars, TypeOK, PcOK
  <1>1. ASSUME NEW s \in Session, network_main_accept(s) PROVE QueueInv'
    BY <1>1, QueueAccept
  <1>2. ASSUME NEW s \in Session,
               \/ session_thread_kex(s) \/ session_thread_authed(s)
               \/ session_thread_lost(s) \/ conn_receive_waiting(s)
        PROVE  QueueInv'
    BY <1>2, QuietKeeps
    DEF session_thread_kex, session_thread_authed, session_thread_lost,
        conn_receive_waiting
  <1>3. ASSUME NEW s \in Session, conn_auth_denied(s) PROVE QueueInv'
    BY <1>3, QuietKeeps DEF conn_auth_denied
  <1>4. ASSUME NEW s \in Session, conn_auth_success(s) \/ channel_open(s)
        PROVE  QueueInv'
    BY <1>4, QuietKeeps DEF conn_auth_success, channel_open
  <1>5. ASSUME NEW s \in Session, NEW c \in Command, conn_receive_active(s, c)
        PROVE  QueueInv'
    BY <1>5, QuietKeeps DEF conn_receive_active
  <1>6. CASE network_main_accept_fails
    BY <1>6, QuietKeeps DEF network_main_accept_fails
  <1>7. CASE console_output \/ sigterm_arrives
    BY <1>7, QuietKeeps DEF console_output, sigterm_arrives
  <1>8. CASE ClientReads
    BY <1>8, QuietKeeps
    DEF ClientReads, send_thread_written, send_thread_broke, conn_receive_notify
  <1> QED BY <1>1, <1>2, <1>3, <1>4, <1>5, <1>6, <1>7, <1>8 DEF Environment

-----------------------------------------------------------------------------
(* The theorems                                                            *)

Inv == TypeOK /\ QueueInv

\* The daemon starts in a state of the inductive invariant: the service has just
\* come up, nobody has connected.
LEMMA InitInv == Init => Inv
  <1> SUFFICES ASSUME Init PROVE Inv OBVIOUS
  <1>1. \A t \in Thread : pc[t] \in Label(t)
    BY DEF Init, Label, Thread
  <1>2. PcOK BY <1>1 DEF Init, PcOK
  <1>3. SessionOK BY NetworkAssumption DEF Init, SessionOK, Status
  <1>5. /\ session_queue = <<>> /\ accepted = "none" /\ leaving = "none"
        /\ mutex = "none"
        /\ signaled = FALSE /\ cancel = {} /\ run_flag = TRUE /\ term = "idle"
        /\ fault = "none" /\ cmd_run_flag = FALSE /\ cmd_mutex = "none"
        /\ refresh = [t \in {"main", "gc"} |-> FALSE]
        /\ stdin = <<>> /\ pending = FALSE
    BY DEF Init
  <1>6. QueueOK /\ FaultOK BY <1>5 DEF QueueOK, FaultOK
  <1>7. LockOK /\ QuitOK BY <1>5 DEF LockOK, QuitOK
  <1>8. refresh \in [{"main", "gc"} -> BOOLEAN] BY <1>5
  <1>9. stdin \in Seq(Command) BY <1>5
  <1>10. CmdOK BY <1>5, <1>8, <1>9, Zenon DEF CmdOK
  <1>4. QueueInv
    BY ThreadNames
    DEF Init, QueueInv, NoDuplicates, AcceptedIsNew, UnbornIsFresh, ExitIsDone,
        DestroyedLast, OneActiveAtFront, FreedIsFinished, InQueue
  <1> QED BY <1>2, <1>3, <1>4, <1>6, <1>7, <1>10 DEF Inv, TypeOK

\* Every step of every thread, and of the environment, preserves it.
LEMMA NextInv == Inv /\ [Next]_vars => Inv'
  <1> SUFFICES ASSUME Inv, [Next]_vars PROVE Inv' OBVIOUS
  <1>1. TypeOK /\ QueueInv BY DEF Inv
  <1>2. CASE MainStep BY <1>1, <1>2, TypeMain, QueueMain DEF Inv
  <1>3. CASE GcStep \/ gc_thread_wake BY <1>1, <1>3, TypeGc, QueueGc DEF Inv
  <1>4. CASE SendStep BY <1>1, <1>4, TypeSend, QueueSend DEF Inv
  <1>5. CASE CmdStep BY <1>1, <1>5, TypeCmd, QueueCmd DEF Inv
  <1>6. CASE sigterm_kill \/ \E t \in Thread : CancelStep(t)
    BY <1>1, <1>6, TypeQuit, QueueQuit DEF Inv
  <1>7. ASSUME NEW s \in Session, SessionStep(s) PROVE Inv'
    BY <1>1, <1>7, TypeSession, QueueSession DEF Inv
  <1>8. CASE Environment BY <1>1, <1>8, TypeEnvironment, QueueEnvironment DEF Inv
  <1>9. CASE UNCHANGED vars
    <2>1. TypeOK' BY <1>1, <1>9, Unchanged DEF vars, TypeOK
    <2>2. Quiet
      BY <1>9 DEF vars, Quiet, sessionVars, queueVars
    <2> QED BY <1>1, <2>1, <2>2, QuietKeeps DEF Inv
  <1> QED BY <1>2, <1>3, <1>4, <1>5, <1>6, <1>7, <1>8, <1>9 DEF Next

\* The inductive invariant holds for every number of sessions and every bound.
THEOREM SpecInv == Spec => []Inv
  BY InitInv, NextInv, PTL DEF Spec

\* Every variable keeps its shape and every thread stays within its own code,
\* for any set of sessions.
THEOREM TypeCorrect == Spec => []TypeOK
  BY SpecInv, PTL DEF Inv

\* Whatever the accept loop, gc_thread and the shutdown do, an administrator who
\* has the console is the one at the front of session_queue: network_main and
\* gc_thread never activate two.
THEOREM ActiveAtFront == Spec => []OneActiveAtFront
  <1>1. Inv => OneActiveAtFront BY DEF Inv, QueueInv
  <1> QED BY <1>1, SpecInv, PTL

\* gc_thread frees a session_t without joining its thread, and
\* session_destroy_callback frees what list_destroy still holds; no session_t is
\* freed under a running thread, and none is freed twice.
THEOREM FreedAfterUse == Spec => []FreedIsFinished
  <1>1. Inv => FreedIsFinished BY DEF Inv, QueueInv
  <1> QED BY <1>1, SpecInv, PTL

-----------------------------------------------------------------------------
(* Network implements AdminTurn.                                           *)

\* The refinement mapping of "served".
Served == {s \in Session : status[s] = "SESSION_ACTIVE" /\ InQueue(s)}

\* A step that changes neither the queue nor a status is a stuttering step.
LEMMA TurnStutter ==
  ASSUME UNCHANGED <<session_queue, status>>
  PROVE  UNCHANGED Turn!turnVars
  BY DEF Turn!turnVars, InQueue

\* Only the front session is served.
LEMMA ServedIsFront ==
  ASSUME Inv, NEW s \in Served
  PROVE  session_queue # <<>> /\ s = Head(session_queue)
  <1>1. s \in Session /\ status[s] = "SESSION_ACTIVE" /\ InQueue(s) BY DEF Served
  <1>2. heap[s] \in {"unborn", "live", "freed"}
    BY <1>1 DEF Inv, TypeOK, SessionOK
  <1>3. session_queue # <<>> BY <1>1 DEF InQueue
  <1>4. CASE heap[s] = "unborn"
    BY <1>1, <1>4 DEF Inv, QueueInv, UnbornIsFresh
  <1>5. CASE heap[s] = "live"
    BY <1>1, <1>5 DEF Inv, QueueInv, OneActiveAtFront
  <1>6. CASE heap[s] = "freed"
    BY <1>1, <1>3, <1>6 DEF Inv, QueueInv, FreedIsFinished
  <1> QED BY <1>2, <1>4, <1>5, <1>6

\* network_main's queue_push is Join.
LEMMA TurnPush ==
  ASSUME Inv, network_main_push
  PROVE  Turn!Join(accepted) /\ accepted \in Session
  <1> DEFINE q == session_queue
  <1>1. /\ accepted \in Session /\ ~InQueue(accepted) /\ heap[accepted] = "live"
    BY DEF Inv, QueueInv, AcceptedIsNew, network_main_push
  <1>2. /\ q \in Seq(Session) /\ q' = Append(q, accepted)
        /\ Len(q') = Len(q) + 1 /\ q'[Len(q) + 1] = accepted
        /\ \A k \in 1 .. Len(q) : q'[k] = q[k]
    BY <1>1 DEF Inv, TypeOK, QueueOK, network_main_push
  <1>3. \A s \in Session : InQueue(s)' <=> InQueue(s) \/ s = accepted
    BY <1>2 DEF InQueue
  <1>4. CASE q = <<>>
    <2>1. status' = [status EXCEPT ![accepted] = "SESSION_ACTIVE"]
      BY <1>4 DEF network_main_push
    <2>2. \A s \in Session : ~InQueue(s) BY <1>4 DEF InQueue
    <2>3. Served' = {accepted}
      BY <1>1, <1>3, <2>1, <2>2 DEF Served, Inv, TypeOK, SessionOK
    <2> QED BY <1>1, <1>2, <1>4, <2>3 DEF Turn!Join, Served, InQueue
  <1>5. CASE q # <<>>
    <2>1. status' = status BY <1>5 DEF network_main_push
    <2>2. status[accepted] # "SESSION_ACTIVE"
      BY <1>1, FrontInQueue, <1>5 DEF Inv, QueueInv, OneActiveAtFront
    <2>3. Served' = Served BY <1>3, <2>1, <2>2 DEF Served
    <2> QED BY <1>1, <1>2, <1>5, <2>3 DEF Turn!Join, Served, InQueue
  <1> QED BY <1>1, <1>4, <1>5

\* Taking the front session out of the queue is Leave.
LEMMA TurnTail ==
  ASSUME Inv, session_queue # <<>>, session_queue' = Tail(session_queue),
         UNCHANGED status
  PROVE  Turn!Leave
  <1>1. /\ Head(session_queue) \in Session
        /\ \A s \in Session :
             InQueue(s)' <=> InQueue(s) /\ s # Head(session_queue)
    BY QueueTail DEF Inv, QueueInv
  <1>2. Served' = Served \ {Head(session_queue)} BY <1>1 DEF Served
  <1> QED BY <1>2 DEF Turn!Leave, Served

\* A session thread that exits logs the served administrator off, or is not the
\* served one and changes nothing that AdminTurn sees.
LEMMA TurnExit ==
  ASSUME Inv, NEW s \in Session, session_thread_exit(s)
  PROVE  Turn!LogOff \/ UNCHANGED Turn!turnVars
  <1>1. /\ status' = [status EXCEPT ![s] = "SESSION_EXIT"]
        /\ session_queue' = session_queue
        /\ \A r \in Session : InQueue(r)' <=> InQueue(r)
    BY DEF session_thread_exit, queueVars, InQueue
  <1>2. Served' = Served \ {s} BY <1>1 DEF Served, Inv, TypeOK, SessionOK
  <1>3. CASE s \in Served
    <2>1. \A r \in Served : r = s BY <1>3, ServedIsFront
    <2>2. Served' = {} BY <1>2, <2>1
    <2> QED BY <1>1, <1>3, <2>2 DEF Turn!LogOff, Served
  <1>4. CASE s \notin Served
    BY <1>1, <1>2, <1>4 DEF Turn!turnVars, Served
  <1> QED BY <1>3, <1>4

\* gc_thread's activation is Promote, or finds the front already served.
LEMMA TurnActivate ==
  ASSUME Inv, gc_thread_activate
  PROVE  Turn!Promote \/ UNCHANGED Turn!turnVars
  <1> DEFINE h == Head(session_queue)
  <1>1. session_queue # <<>> /\ h \in Session /\ InQueue(h)
    BY FrontInQueue DEF gc_thread_activate, Inv
  <1>2. session_queue' = session_queue BY DEF gc_thread_activate, queueVars
  <1>3. CASE status[h] = "SESSION_WAITING"
    <2>1. status' = [status EXCEPT ![h] = "SESSION_ACTIVE"]
      BY <1>3 DEF gc_thread_activate
    <2>2. Served = {} BY <1>3, ServedIsFront DEF Served
    <2>3. Served' = {h}
      BY <1>1, <1>2, <2>1, <2>2 DEF Served, InQueue, Inv, TypeOK, SessionOK
    <2> QED BY <1>1, <1>2, <2>2, <2>3 DEF Turn!Promote, Served
  <1>4. CASE status[h] # "SESSION_WAITING"
    BY <1>2, <1>4, TurnStutter DEF gc_thread_activate
  <1> QED BY <1>3, <1>4

\* Every step of the daemon is a step of AdminTurn or leaves it alone.
LEMMA TurnStep ==
  ASSUME Inv, [Next]_vars
  PROVE  [Turn!TurnNext]_(Turn!turnVars)
  <1> USE DEF sessionVars, queueVars
  <1>1. CASE network_main_push
    <2>1. \E s \in Session : Turn!Join(s) BY <1>1, TurnPush DEF Turn!Join
    <2> QED BY <2>1 DEF Turn!TurnNext
  <1>2. CASE list_destroy_remove
    <2>1. session_queue # <<>>
      BY <1>2 DEF Inv, QueueInv, DestroyedLast, list_destroy_remove
    <2> QED BY <1>2, <2>1, TurnTail DEF list_destroy_remove, Turn!TurnNext
  <1>3. CASE gc_thread_release
    BY <1>3, TurnTail DEF gc_thread_release, Turn!TurnNext
  <1>4. CASE gc_thread_activate BY <1>4, TurnActivate DEF Turn!TurnNext
  <1>5. ASSUME NEW s \in Session, session_thread_exit(s)
        PROVE  [Turn!TurnNext]_(Turn!turnVars)
    BY <1>5, TurnExit DEF Turn!TurnNext
  <1>6. CASE UNCHANGED <<session_queue, status>> BY <1>6, TurnStutter
  <1>7. CASE UNCHANGED vars BY <1>6, <1>7 DEF vars
  <1>8. CASE MainStep
    BY <1>1, <1>2, <1>6, <1>8
    DEF MainStep, network_main_loop, network_main_listen, cmdline_stop,
        cmdline_stop_joined, cmdline_start, network_main_join_gc,
        network_main_join_send, session_destroy_cancel, session_destroy_free,
        network_main_return
  <1>9. CASE GcStep \/ gc_thread_wake
    BY <1>3, <1>4, <1>6, <1>9
    DEF GcStep, gc_thread_lock, gc_thread_check, gc_thread_close, gc_thread_wake,
        cmdline_stop, cmdline_stop_joined, cmdline_start
  <1>10. CASE SendStep
    BY <1>6, <1>10
    DEF SendStep, send_thread_loop, send_thread_read, send_thread_deliver,
        send_thread_poll, send_thread_nap
  <1>11. CASE CmdStep
    BY <1>6, <1>11
    DEF CmdStep, cmdline_thread_read, cmdline_thread_loop, network_logoff,
        network_logoff_null, cmd_server_exitserver, network_quit_kill
  <1>12. CASE sigterm_kill \/ \E t \in Thread : CancelStep(t)
    BY <1>6, <1>12
    DEF CancelStep, sigterm_kill, cancel_thread, cancel_holding
  <1>13. ASSUME NEW s \in Session, SessionStep(s)
         PROVE  [Turn!TurnNext]_(Turn!turnVars)
    BY <1>5, <1>6, <1>13 DEF SessionStep, conn_receive_lock
  <1>14. CASE Environment
    BY <1>6, <1>14
    DEF Environment, network_main_accept, session_thread_kex, conn_auth_denied,
        conn_auth_success, channel_open, session_thread_authed,
        session_thread_lost, conn_receive_active, conn_receive_waiting,
        network_main_accept_fails, console_output, sigterm_arrives, ClientReads,
        send_thread_written, send_thread_broke, conn_receive_notify
  <1> QED BY <1>7, <1>8, <1>9, <1>10, <1>11, <1>12, <1>13, <1>14 DEF Next

\* The queue, as network_main, session_thread, gc_thread and the destructor
\* work on it, gives the administrators their turns as AdminTurn says, for any
\* number of them.
THEOREM ImplementsAdminTurn == Spec => TurnSpec
  <1>1. Init => Turn!TurnInit
    BY DEF Init, Turn!TurnInit, InQueue
  <1>2. Inv /\ [Next]_vars => [Turn!TurnNext]_(Turn!turnVars) BY TurnStep
  <1> QED BY <1>1, <1>2, SpecInv, PTL DEF Spec, TurnSpec, Turn!TurnSpec

-----------------------------------------------------------------------------
(* The mutex                                                               *)

\* The inductive invariant of the mutex discipline.
MutexInv == TypeOK /\ UpInv /\ MutexDiscipline

\* The steps of network_main keep the mutex discipline: queue_push keeps mutex
\* only on its way to server_refresh.
LEMMA MutexMain ==
  ASSUME MutexInv, MainStep PROVE UpInv' /\ MutexDiscipline'
  <1> USE ThreadNames DEF MutexInv, UpInv, MutexDiscipline, TypeOK, PcOK, LockOK,
                          CmdOK, QuitOK, lockVars, cmdVars, quitVars
  <1>0. CASE network_main_listen BY <1>0 DEF network_main_listen
  <1>1. CASE network_main_loop BY <1>1 DEF network_main_loop
  <1>2. CASE network_main_push BY <1>2 DEF network_main_push
  <1>3. CASE cmdline_stop("main") BY <1>3 DEF cmdline_stop, AfterStop
  <1>4. CASE cmdline_stop_joined("main") BY <1>4 DEF cmdline_stop_joined, AfterStop
  <1>5. CASE cmdline_start("main") BY <1>5 DEF cmdline_start
  <1>6. CASE network_main_join_gc BY <1>6 DEF network_main_join_gc
  <1>7. CASE network_main_join_send BY <1>7 DEF network_main_join_send
  <1>8. CASE session_destroy_cancel BY <1>8 DEF session_destroy_cancel
  <1>9. CASE session_destroy_free BY <1>9 DEF session_destroy_free
  <1>10. CASE list_destroy_remove BY <1>10 DEF list_destroy_remove
  <1>11. CASE network_main_return BY <1>11 DEF network_main_return
  <1> QED BY <1>0, <1>1, <1>2, <1>3, <1>4, <1>5, <1>6, <1>7, <1>8, <1>9,
         <1>10, <1>11 DEF MainStep

\* The steps of gc_thread keep it: every way out of a pass releases mutex.
LEMMA MutexGc ==
  ASSUME MutexInv, GcStep \/ gc_thread_wake PROVE UpInv' /\ MutexDiscipline'
  <1> USE ThreadNames DEF MutexInv, UpInv, MutexDiscipline, TypeOK, PcOK, LockOK,
                          CmdOK, QuitOK, lockVars, cmdVars, quitVars
  <1>1. CASE gc_thread_lock BY <1>1 DEF gc_thread_lock
  <1>2. CASE gc_thread_check BY <1>2 DEF gc_thread_check
  <1>3. CASE gc_thread_release BY <1>3 DEF gc_thread_release
  <1>4. CASE gc_thread_activate BY <1>4 DEF gc_thread_activate
  <1>5. CASE gc_thread_close BY <1>5 DEF gc_thread_close
  <1>6. CASE cmdline_stop("gc") BY <1>6 DEF cmdline_stop, AfterStop
  <1>7. CASE cmdline_stop_joined("gc") BY <1>7 DEF cmdline_stop_joined, AfterStop
  <1>8. CASE cmdline_start("gc") BY <1>8 DEF cmdline_start
  <1>9. CASE gc_thread_wake BY <1>9 DEF gc_thread_wake
  <1> QED BY <1>1, <1>2, <1>3, <1>4, <1>5, <1>6, <1>7, <1>8, <1>9 DEF GcStep

\* The steps of send_thread keep it: it unlocks what it does not hold only after
\* run_flag is gone.
LEMMA MutexSend ==
  ASSUME MutexInv, SendStep PROVE UpInv' /\ MutexDiscipline'
  <1> USE ThreadNames DEF MutexInv, UpInv, MutexDiscipline, TypeOK, PcOK, LockOK,
                          CmdOK, QuitOK, lockVars, cmdVars, quitVars
  <1>1. CASE send_thread_loop BY <1>1 DEF send_thread_loop
  <1>2. CASE send_thread_read BY <1>2 DEF send_thread_read
  <1>3. CASE send_thread_deliver BY <1>3 DEF send_thread_deliver
  <1>4. CASE send_thread_poll BY <1>4 DEF send_thread_poll
  <1>5. CASE send_thread_nap BY <1>5 DEF send_thread_nap
  <1> QED BY <1>1, <1>2, <1>3, <1>4, <1>5 DEF SendStep

\* The steps of the command-line thread keep it.
LEMMA MutexCmd ==
  ASSUME MutexInv, CmdStep PROVE UpInv' /\ MutexDiscipline'
  <1> USE ThreadNames DEF MutexInv, UpInv, MutexDiscipline, TypeOK, PcOK, LockOK,
                          CmdOK, QuitOK, lockVars, cmdVars, quitVars
  <1>1. CASE cmdline_thread_read
    <2>1. Head(stdin) \in {"exit", "exitserver", "other"}
      BY <1>1, NetworkAssumption DEF cmdline_thread_read
    <2>2. pc'["cmd"] \in {"logoff", "game_stop", "loop"}
      BY <1>1, <2>1 DEF cmdline_thread_read
    <2> QED BY <1>1, <2>2 DEF cmdline_thread_read
  <1>2. CASE cmdline_thread_loop BY <1>2 DEF cmdline_thread_loop
  <1>3. CASE network_logoff BY <1>3 DEF network_logoff
  <1>4. CASE network_logoff_null BY <1>4 DEF network_logoff_null
  <1>5. CASE cmd_server_exitserver BY <1>5 DEF cmd_server_exitserver
  <1>6. CASE network_quit_kill BY <1>6 DEF network_quit_kill, QuitKill, AfterSignal
  <1> QED BY <1>1, <1>2, <1>3, <1>4, <1>5, <1>6 DEF CmdStep

\* The SIGTERM handler and cancellation keep it: only the command-line thread can
\* be cancelled while the service is up.
LEMMA MutexQuit ==
  ASSUME MutexInv, sigterm_kill \/ \E t \in Thread : CancelStep(t)
  PROVE  UpInv' /\ MutexDiscipline'
  <1> USE ThreadNames DEF MutexInv, UpInv, MutexDiscipline, TypeOK, PcOK, LockOK,
                          CmdOK, QuitOK, lockVars, cmdVars, quitVars
  <1>2. CASE sigterm_kill BY <1>2 DEF sigterm_kill
  <1>3. ASSUME NEW t \in Thread, cancel_thread(t)
        PROVE  UpInv' /\ MutexDiscipline'
    BY <1>3 DEF cancel_thread, CancelPoint
  <1>4. ASSUME NEW t \in Thread, cancel_holding(t)
        PROVE  UpInv' /\ MutexDiscipline'
    BY <1>4 DEF cancel_holding
  <1> QED BY <1>2, <1>3, <1>4 DEF CancelStep

\* The steps of session_thread keep it.
LEMMA MutexSession ==
  ASSUME MutexInv, NEW s \in Session, SessionStep(s)
  PROVE  UpInv' /\ MutexDiscipline'
  <1> USE ThreadNames DEF MutexInv, UpInv, MutexDiscipline, TypeOK, PcOK, LockOK,
                          CmdOK, QuitOK, lockVars, cmdVars, quitVars
  <1>1. CASE conn_receive_lock(s) BY <1>1 DEF conn_receive_lock
  <1>2. CASE session_thread_exit(s) BY <1>2 DEF session_thread_exit
  <1> QED BY <1>1, <1>2 DEF SessionStep

\* The steps of the clients, the game server and the kernel keep it.
LEMMA MutexEnvironment ==
  ASSUME MutexInv, UnbornIsFresh, Environment PROVE UpInv' /\ MutexDiscipline'
  <1> USE ThreadNames DEF MutexInv, UpInv, MutexDiscipline, TypeOK, PcOK, LockOK,
                          CmdOK, QuitOK, lockVars, cmdVars, quitVars
  <1>1. ASSUME NEW s \in Session, network_main_accept(s)
        PROVE  UpInv' /\ MutexDiscipline'
    <2>1. pc["main"] = "accept" /\ pc["main"]' = "created" /\ pc'[s] = "kex"
      BY <1>1 DEF network_main_accept
    <2>2. \A t \in Thread \ {"main", s} : pc'[t] = pc[t]
      BY <1>1 DEF network_main_accept
    <2>3. UNCHANGED <<run_flag, cancel, term, refresh, mutex>>
      BY <1>1 DEF network_main_accept
    <2>4. pc[s] = "unborn" BY <1>1 DEF network_main_accept, UnbornIsFresh
    <2> QED BY <2>1, <2>2, <2>3, <2>4
  <1>2. ASSUME NEW s \in Session,
               \/ session_thread_kex(s) \/ conn_auth_denied(s)
               \/ conn_auth_success(s) \/ channel_open(s)
               \/ session_thread_authed(s) \/ session_thread_lost(s)
               \/ conn_receive_waiting(s)
        PROVE  UpInv' /\ MutexDiscipline'
    <2>1. CASE session_thread_kex(s) BY <2>1 DEF session_thread_kex
    <2>2. CASE conn_auth_denied(s) BY <2>2 DEF conn_auth_denied
    <2>3. CASE conn_auth_success(s) BY <2>3 DEF conn_auth_success
    <2>4. CASE channel_open(s) BY <2>4 DEF channel_open
    <2>5. CASE session_thread_authed(s) BY <2>5 DEF session_thread_authed
    <2>6. CASE session_thread_lost(s) BY <2>6 DEF session_thread_lost
    <2>7. CASE conn_receive_waiting(s) BY <2>7 DEF conn_receive_waiting
    <2> QED BY <1>2, <2>1, <2>2, <2>3, <2>4, <2>5, <2>6, <2>7
  <1>3. ASSUME NEW s \in Session, NEW c \in Command, conn_receive_active(s, c)
        PROVE  UpInv' /\ MutexDiscipline'
    BY <1>3 DEF conn_receive_active
  <1>4. CASE network_main_accept_fails BY <1>4 DEF network_main_accept_fails
  <1>5. CASE console_output BY <1>5 DEF console_output
  <1>6. CASE sigterm_arrives BY <1>6 DEF sigterm_arrives
  <1>7. CASE send_thread_written BY <1>7 DEF send_thread_written
  <1>8. CASE send_thread_broke BY <1>8 DEF send_thread_broke
  <1>9. ASSUME NEW s \in Session, conn_receive_notify(s)
        PROVE  UpInv' /\ MutexDiscipline'
    BY <1>9 DEF conn_receive_notify
  <1> QED BY <1>1, <1>2, <1>3, <1>4, <1>5, <1>6, <1>7, <1>8, <1>9
      DEF Environment, ClientReads

\* Every step keeps the mutex discipline.
LEMMA MutexNext ==
  TypeOK /\ UnbornIsFresh /\ UpInv /\ MutexDiscipline /\ [Next]_vars
    => (UpInv /\ MutexDiscipline)'
  <1>1. ASSUME TypeOK, UpInv, MutexDiscipline, UNCHANGED vars
        PROVE  (UpInv /\ MutexDiscipline)'
    BY <1>1 DEF UpInv, MutexDiscipline, vars, lockVars, cmdVars, quitVars
  <1>2. ASSUME MutexInv, UnbornIsFresh, Next PROVE (UpInv /\ MutexDiscipline)'
    BY <1>2, MutexMain, MutexGc, MutexSend, MutexCmd, MutexQuit,
       MutexSession, MutexEnvironment DEF Next
  <1> QED BY <1>1, <1>2 DEF MutexInv

\* The mutex discipline and its invariant hold with those of the queue.
LEMMA SpecMutex == Spec => [](Inv /\ UpInv /\ MutexDiscipline)
  <1>1. Init => UpInv /\ MutexDiscipline
    BY ThreadNames DEF Init, UpInv, MutexDiscipline
  <1>2. Inv /\ UpInv /\ MutexDiscipline /\ [Next]_vars
          => (UpInv /\ MutexDiscipline)'
    BY MutexNext DEF Inv, QueueInv
  <1> QED BY <1>1, <1>2, SpecInv, PTL DEF Spec

\* While the service is up, mutex is held by gc_thread and by network_main exactly
\* in their critical sections, through the join of the command-line thread too.
THEOREM MutexHeld == Spec => []MutexDiscipline
  BY SpecMutex, PTL

-----------------------------------------------------------------------------
(* The front of the queue                                                  *)

\* Where network_main is while it takes the queue apart.
Destroying == {"destroy", "join_session", "unlink"}

\* A step that leaves the queue and every status alone, and takes neither
\* gc_thread out of its pass nor network_main out of the destruction, keeps
\* FrontNotLeftWaiting.
LEMMA QuietKeepsFront ==
  ASSUME FrontNotLeftWaiting, UNCHANGED <<session_queue, status>>,
         pc["gc"] = "clean" => pc'["gc"] = "clean",
         pc["main"] \in Destroying => pc'["main"] \in Destroying
  PROVE  FrontNotLeftWaiting'
  BY DEF FrontNotLeftWaiting, Destroying

\* network_main activates a session that it puts at the front, and destroys the
\* queue to the end.
LEMMA FrontMain ==
  ASSUME Inv, FrontNotLeftWaiting, MainStep PROVE FrontNotLeftWaiting'
  <1> USE ThreadNames, QuietKeepsFront
      DEF Inv, TypeOK, PcOK, Destroying, sessionVars, queueVars
  <1>0. CASE network_main_listen BY <1>0 DEF network_main_listen
  <1>1. CASE network_main_loop BY <1>1 DEF network_main_loop
  <1>2. CASE network_main_push
    <2> DEFINE q == session_queue
    <2>1. accepted \in Session BY <1>2 DEF network_main_push, QueueInv, AcceptedIsNew
    <2>2. q \in Seq(Session) /\ q' = Append(q, accepted)
      BY <1>2 DEF QueueOK, network_main_push
    <2>3. CASE q = <<>>
      <3>1. Head(q') = accepted BY <2>1, <2>2, <2>3
      <3>2. status'[accepted] = "SESSION_ACTIVE"
        BY <1>2, <2>1, <2>3 DEF network_main_push, SessionOK
      <3> QED BY <3>1, <3>2 DEF FrontNotLeftWaiting
    <2>4. CASE q # <<>>
      <3>1. Head(q') = Head(q) BY <2>1, <2>2, <2>4
      <3>2. status' = status /\ pc'["gc"] = pc["gc"] /\ pc["main"] = "created"
        BY <1>2, <2>4 DEF network_main_push
      <3> QED BY <2>4, <3>1, <3>2 DEF FrontNotLeftWaiting
    <2> QED BY <2>3, <2>4
  <1>3. CASE cmdline_stop("main") BY <1>3 DEF cmdline_stop, AfterStop
  <1>4. CASE cmdline_stop_joined("main") BY <1>4 DEF cmdline_stop_joined, AfterStop
  <1>5. CASE cmdline_start("main") BY <1>5 DEF cmdline_start
  <1>6. CASE network_main_join_gc BY <1>6 DEF network_main_join_gc
  <1>7. CASE network_main_join_send BY <1>7 DEF network_main_join_send
  <1>8. CASE session_destroy_cancel BY <1>8 DEF session_destroy_cancel
  <1>9. CASE session_destroy_free BY <1>9 DEF session_destroy_free
  <1>10. CASE list_destroy_remove
    BY <1>10 DEF list_destroy_remove, FrontNotLeftWaiting
  <1>11. CASE network_main_return
    BY <1>11 DEF network_main_return, FrontNotLeftWaiting
  <1> QED BY <1>0, <1>1, <1>2, <1>3, <1>4, <1>5, <1>6, <1>7, <1>8, <1>9,
         <1>10, <1>11 DEF MainStep

\* gc_thread leaves its pass only when the queue is empty or its front has the
\* console.
LEMMA FrontGc ==
  ASSUME Inv, FrontNotLeftWaiting, GcStep \/ gc_thread_wake
  PROVE  FrontNotLeftWaiting'
  <1> USE ThreadNames, QuietKeepsFront
      DEF Inv, TypeOK, PcOK, Destroying, sessionVars, queueVars
  <1>1. CASE gc_thread_lock BY <1>1 DEF gc_thread_lock
  <1>2. CASE gc_thread_check BY <1>2 DEF gc_thread_check
  <1>3. CASE gc_thread_release
    BY <1>3 DEF gc_thread_release, FrontNotLeftWaiting
  <1>4. CASE gc_thread_activate
    <2>1. Head(session_queue) \in Session
      BY <1>4, FrontInQueue DEF gc_thread_activate
    <2>2. /\ session_queue' = session_queue
          /\ status'[Head(session_queue)] = "SESSION_ACTIVE"
      BY <1>4, <2>1 DEF gc_thread_activate, SessionOK
    <2> QED BY <2>2 DEF FrontNotLeftWaiting
  <1>5. CASE gc_thread_close BY <1>5 DEF gc_thread_close, FrontNotLeftWaiting
  <1>6. CASE cmdline_stop("gc") BY <1>6 DEF cmdline_stop, AfterStop
  <1>7. CASE cmdline_stop_joined("gc") BY <1>7 DEF cmdline_stop_joined, AfterStop
  <1>8. CASE cmdline_start("gc") BY <1>8 DEF cmdline_start
  <1>9. CASE gc_thread_wake BY <1>9 DEF gc_thread_wake
  <1> QED BY <1>1, <1>2, <1>3, <1>4, <1>5, <1>6, <1>7, <1>8, <1>9 DEF GcStep

\* No other thread takes a session out of the queue or makes one wait; a
\* session that exits is no longer waiting.
LEMMA FrontOthers ==
  ASSUME Inv, FrontNotLeftWaiting,
         \/ SendStep \/ CmdStep \/ sigterm_kill \/ Environment
         \/ \E s \in Session : SessionStep(s)
         \/ \E t \in Thread : CancelStep(t)
  PROVE  FrontNotLeftWaiting'
  <1> USE ThreadNames, QuietKeepsFront
      DEF Inv, TypeOK, PcOK, Destroying, sessionVars, queueVars
  <1>1. CASE SendStep
    <2>1. CASE send_thread_loop BY <2>1 DEF send_thread_loop
    <2>2. CASE send_thread_read BY <2>2 DEF send_thread_read
    <2>3. CASE send_thread_deliver BY <2>3 DEF send_thread_deliver
    <2>4. CASE send_thread_poll BY <2>4 DEF send_thread_poll
    <2>5. CASE send_thread_nap BY <2>5 DEF send_thread_nap
    <2> QED BY <1>1, <2>1, <2>2, <2>3, <2>4, <2>5 DEF SendStep
  <1>2. CASE CmdStep
    BY <1>2 DEF CmdStep, cmdline_thread_read, cmdline_thread_loop,
       network_logoff, network_logoff_null, cmd_server_exitserver,
       network_quit_kill, QuitKill, AfterSignal
  <1>3. CASE sigterm_kill
    BY <1>3 DEF sigterm_kill, QuitKill, AfterSignal
  <1>4. ASSUME NEW s \in Session, conn_receive_lock(s)
        PROVE  FrontNotLeftWaiting'
    BY <1>4 DEF conn_receive_lock
  <1>5. ASSUME NEW s \in Session, session_thread_exit(s)
        PROVE  FrontNotLeftWaiting'
    <2>1. /\ session_queue' = session_queue
          /\ pc'["gc"] = pc["gc"] /\ pc'["main"] = pc["main"]
          /\ status'[s] = "SESSION_EXIT"
          /\ \A r \in Session \ {s} : status'[r] = status[r]
      BY <1>5 DEF session_thread_exit, SessionOK
    <2>2. session_queue # <<>> => Head(session_queue) \in Session
      BY FrontInQueue
    <2> QED BY <2>1, <2>2 DEF FrontNotLeftWaiting
  <1>6. ASSUME NEW t \in Thread, cancel_thread(t) PROVE FrontNotLeftWaiting'
    <2>1. pc[t] # "clean" /\ t # "main"
      BY <1>6 DEF cancel_thread, CancelPoint
    <2> QED BY <1>6, <2>1 DEF cancel_thread
  <1>7. ASSUME NEW t \in Thread, cancel_holding(t) PROVE FrontNotLeftWaiting'
    <2>1. pc[t] # "clean" /\ t # "main" BY <1>7, CancelHolding DEF Inv
    <2> QED BY <1>7, <2>1 DEF cancel_holding
  <1>8. CASE Environment
    BY <1>8
    DEF Environment, network_main_accept, session_thread_kex, conn_auth_denied,
        conn_auth_success, channel_open, session_thread_authed,
        session_thread_lost, conn_receive_active, conn_receive_waiting,
        network_main_accept_fails, console_output, sigterm_arrives, ClientReads,
        send_thread_written, send_thread_broke, conn_receive_notify
  <1> QED BY <1>1, <1>2, <1>3, <1>4, <1>5, <1>6, <1>7, <1>8
      DEF SessionStep, CancelStep

\* The front of the queue is never left waiting: whoever gets there, by being
\* the first to connect or because those before have gone, is activated by
\* network_main or by the pass of gc_thread that brought it there.
THEOREM FrontIsServed == Spec => []FrontNotLeftWaiting
  <1>1. Init => FrontNotLeftWaiting BY DEF Init, FrontNotLeftWaiting
  <1>2. Inv /\ FrontNotLeftWaiting /\ [Next]_vars => FrontNotLeftWaiting'
    <2>1. ASSUME Inv, FrontNotLeftWaiting, UNCHANGED vars
          PROVE  FrontNotLeftWaiting'
      BY <2>1 DEF FrontNotLeftWaiting, vars, sessionVars, queueVars
    <2>2. ASSUME Inv, FrontNotLeftWaiting, Next PROVE FrontNotLeftWaiting'
      BY <2>2, FrontMain, FrontGc, FrontOthers DEF Next
    <2> QED BY <2>1, <2>2
  <1> QED BY <1>1, <1>2, SpecInv, PTL DEF Spec

-----------------------------------------------------------------------------
(* The owner of the command line                                           *)

\* The inductive invariant of the command line's owner.
OwnerInv == Inv /\ UpInv /\ MutexDiscipline /\ CommandLineInv /\ CommandLineHasOwner

\* What network_main does keeps it: the command line is restarted for the
\* session that has just been pushed, and the queue is destroyed only after
\* run_flag is gone.
LEMMA OwnerMain ==
  ASSUME OwnerInv, MainStep PROVE CommandLineInv' /\ CommandLineHasOwner'
  <1> USE ThreadNames
      DEF OwnerInv, UpInv, MutexDiscipline, CommandLineInv, CommandLineHasOwner,
          Inv, TypeOK, PcOK, LockOK, CmdOK, QueueOK, QuitOK, lockVars, cmdVars,
          quitVars, queueVars
  <1>0. CASE network_main_listen BY <1>0 DEF network_main_listen
  <1>1. CASE network_main_loop BY <1>1 DEF network_main_loop
  <1>2. CASE network_main_push
    <2>1. accepted \in Session BY <1>2 DEF network_main_push, QueueInv, AcceptedIsNew
    <2>2. session_queue' # <<>> BY <1>2, <2>1 DEF network_main_push
    <2> QED BY <1>2, <2>2 DEF network_main_push
  <1>3. CASE cmdline_stop("main") BY <1>3 DEF cmdline_stop, AfterStop
  <1>4. CASE cmdline_stop_joined("main") BY <1>4 DEF cmdline_stop_joined, AfterStop
  <1>5. CASE cmdline_start("main") BY <1>5 DEF cmdline_start
  <1>6. CASE network_main_join_gc BY <1>6 DEF network_main_join_gc
  <1>7. CASE network_main_join_send BY <1>7 DEF network_main_join_send
  <1>8. CASE session_destroy_cancel BY <1>8 DEF session_destroy_cancel
  <1>9. CASE session_destroy_free BY <1>9 DEF session_destroy_free
  <1>10. CASE list_destroy_remove BY <1>10 DEF list_destroy_remove
  <1>11. CASE network_main_return BY <1>11 DEF network_main_return
  <1> QED BY <1>0, <1>1, <1>2, <1>3, <1>4, <1>5, <1>6, <1>7, <1>8, <1>9,
         <1>10, <1>11 DEF MainStep

\* What gc_thread does keeps it: it forgets its refresh before the next pass can
\* empty the queue, and joins the command line of an empty queue.
LEMMA OwnerGc ==
  ASSUME OwnerInv, GcStep \/ gc_thread_wake
  PROVE  CommandLineInv' /\ CommandLineHasOwner'
  <1> USE ThreadNames
      DEF OwnerInv, UpInv, MutexDiscipline, CommandLineInv, CommandLineHasOwner,
          Inv, TypeOK, PcOK, LockOK, CmdOK, QueueOK, QuitOK, lockVars, cmdVars,
          quitVars, queueVars
  <1>1. CASE gc_thread_lock BY <1>1 DEF gc_thread_lock
  <1>2. CASE gc_thread_check BY <1>2 DEF gc_thread_check
  <1>3. CASE gc_thread_release BY <1>3 DEF gc_thread_release
  <1>4. CASE gc_thread_activate BY <1>4 DEF gc_thread_activate
  <1>5. CASE gc_thread_close BY <1>5 DEF gc_thread_close
  <1>6. CASE cmdline_stop("gc") BY <1>6 DEF cmdline_stop, AfterStop
  <1>7. CASE cmdline_stop_joined("gc") BY <1>7 DEF cmdline_stop_joined, AfterStop
  <1>8. CASE cmdline_start("gc") BY <1>8 DEF cmdline_start
  <1>9. CASE gc_thread_wake BY <1>9 DEF gc_thread_wake
  <1> QED BY <1>1, <1>2, <1>3, <1>4, <1>5, <1>6, <1>7, <1>8, <1>9 DEF GcStep

\* The other threads start no command line and take nobody out of the queue.
LEMMA OwnerOthers ==
  ASSUME OwnerInv,
         \/ SendStep \/ CmdStep \/ sigterm_kill \/ Environment
         \/ \E s \in Session : SessionStep(s)
         \/ \E t \in Thread : CancelStep(t)
  PROVE  CommandLineInv' /\ CommandLineHasOwner'
  <1> USE ThreadNames
      DEF OwnerInv, UpInv, MutexDiscipline, CommandLineInv, CommandLineHasOwner,
          Inv, TypeOK, PcOK, LockOK, CmdOK, QueueOK, QuitOK, lockVars, cmdVars,
          quitVars, queueVars
  <1>1. CASE SendStep
    <2>1. CASE send_thread_loop BY <2>1 DEF send_thread_loop
    <2>2. CASE send_thread_read BY <2>2 DEF send_thread_read
    <2>3. CASE send_thread_deliver BY <2>3 DEF send_thread_deliver
    <2>4. CASE send_thread_poll BY <2>4 DEF send_thread_poll
    <2>5. CASE send_thread_nap BY <2>5 DEF send_thread_nap
    <2> QED BY <1>1, <2>1, <2>2, <2>3, <2>4, <2>5 DEF SendStep
  <1>2. CASE CmdStep
    <2>1. CASE cmdline_thread_read BY <2>1 DEF cmdline_thread_read
    <2>2. CASE cmdline_thread_loop BY <2>2 DEF cmdline_thread_loop
    <2>3. CASE network_logoff BY <2>3 DEF network_logoff
    <2>4. CASE network_logoff_null BY <2>4 DEF network_logoff_null
    <2>5. CASE cmd_server_exitserver BY <2>5 DEF cmd_server_exitserver
    <2>6. CASE network_quit_kill BY <2>6 DEF network_quit_kill, QuitKill, AfterSignal
    <2> QED BY <1>2, <2>1, <2>2, <2>3, <2>4, <2>5, <2>6 DEF CmdStep
  <1>3. CASE sigterm_kill
    BY <1>3 DEF sigterm_kill, QuitKill, AfterSignal
  <1>4. ASSUME NEW s \in Session, SessionStep(s)
        PROVE  CommandLineInv' /\ CommandLineHasOwner'
    BY <1>4 DEF SessionStep, conn_receive_lock, session_thread_exit
  <1>5. ASSUME NEW t \in Thread, cancel_thread(t)
        PROVE  CommandLineInv' /\ CommandLineHasOwner'
    BY <1>5 DEF cancel_thread, CancelPoint
  <1>6. ASSUME NEW t \in Thread, cancel_holding(t)
        PROVE  CommandLineInv' /\ CommandLineHasOwner'
    <2>1. t \notin {"main", "cmd"} BY <1>6, CancelHolding DEF Inv
    <2> QED BY <1>6, <2>1 DEF cancel_holding
  <1>7. ASSUME Environment, ~\E s \in Session : network_main_accept(s)
        PROVE  CommandLineInv' /\ CommandLineHasOwner'
    <2> DEFINE Idle ==
          /\ UNCHANGED <<session_queue, refresh, cmd_run_flag, cmd_mutex>>
          /\ pc'["gc"] = pc["gc"] /\ pc'["cmd"] = pc["cmd"]
          /\ run_flag' => run_flag
          /\ pc'["main"] = pc["main"] \/ pc'["main"] = "loop"
    <2>1. ASSUME NEW s \in Session, session_thread_kex(s) PROVE Idle
      BY <2>1 DEF session_thread_kex
    <2>2. ASSUME NEW s \in Session, conn_auth_denied(s) PROVE Idle
      BY <2>2 DEF conn_auth_denied
    <2>3. ASSUME NEW s \in Session, conn_auth_success(s) PROVE Idle
      BY <2>3 DEF conn_auth_success
    <2>4. ASSUME NEW s \in Session, channel_open(s) PROVE Idle
      BY <2>4 DEF channel_open
    <2>5. ASSUME NEW s \in Session, session_thread_authed(s) PROVE Idle
      BY <2>5 DEF session_thread_authed
    <2>6. ASSUME NEW s \in Session, session_thread_lost(s) PROVE Idle
      BY <2>6 DEF session_thread_lost
    <2>7. ASSUME NEW s \in Session, conn_receive_waiting(s) PROVE Idle
      BY <2>7 DEF conn_receive_waiting
    <2>8. ASSUME NEW s \in Session, conn_receive_notify(s) PROVE Idle
      BY <2>8 DEF conn_receive_notify
    <2>9. ASSUME NEW s \in Session, NEW c \in Command, conn_receive_active(s, c)
          PROVE  Idle
      BY <2>9 DEF conn_receive_active
    <2>10. ASSUME network_main_accept_fails PROVE Idle
      BY <2>10 DEF network_main_accept_fails
    <2>11. ASSUME console_output PROVE Idle BY <2>11 DEF console_output
    <2>12. ASSUME sigterm_arrives PROVE Idle BY <2>12 DEF sigterm_arrives
    <2>13. ASSUME send_thread_written PROVE Idle
      BY <2>13 DEF send_thread_written
    <2>14. ASSUME send_thread_broke PROVE Idle
      BY <2>14 DEF send_thread_broke
    <2>15. Idle
      BY <1>7, <2>1, <2>2, <2>3, <2>4, <2>5, <2>6, <2>7, <2>8, <2>9, <2>10, <2>11,
         <2>12, <2>13, <2>14 DEF Environment, ClientReads
    <2> QED BY <2>15
  <1>8. ASSUME NEW s \in Session, network_main_accept(s)
        PROVE  CommandLineInv' /\ CommandLineHasOwner'
    BY <1>8 DEF network_main_accept
  <1> QED BY <1>1, <1>2, <1>3, <1>4, <1>5, <1>6, <1>7, <1>8 DEF CancelStep

\* The inductive invariant holds in every state of the daemon.
LEMMA SpecOwner == Spec => []OwnerInv
  <1>1. Init => CommandLineInv /\ CommandLineHasOwner
    BY ThreadNames DEF Init, CommandLineInv, CommandLineHasOwner
  <1>2. OwnerInv /\ [Next]_vars => CommandLineInv' /\ CommandLineHasOwner'
    <2>1. ASSUME OwnerInv, UNCHANGED vars
          PROVE  CommandLineInv' /\ CommandLineHasOwner'
      BY <2>1 DEF OwnerInv, CommandLineInv, CommandLineHasOwner, vars, cmdVars,
                  quitVars, queueVars
    <2>2. ASSUME OwnerInv, Next
          PROVE  CommandLineInv' /\ CommandLineHasOwner'
      BY <2>2, OwnerMain, OwnerGc, OwnerOthers DEF Next
    <2> QED BY <2>1, <2>2
  <1> QED BY <1>1, <1>2, SpecMutex, PTL DEF Spec, OwnerInv

\* While the service is up, the command line runs only for a queued session: the
\* last administrator's command line does not survive it, and no stopped one
\* runs on beside its successor.
THEOREM OwnedCommandLine == Spec => []CommandLineHasOwner
  <1>1. OwnerInv => CommandLineHasOwner BY DEF OwnerInv
  <1> QED BY <1>1, SpecOwner, PTL

-----------------------------------------------------------------------------
(* Invalid accesses                                                        *)

\* Where a session thread is while it runs.
Running == {"kex", "auth", "open", "recv", "write", "exiting"}

\* A step that leaves the queue and network_main's session alone and starts no
\* session thread keeps SessionsAccounted.
LEMMA QuietKeepsAccounts ==
  ASSUME SessionsAccounted, UNCHANGED <<session_queue, accepted>>,
         pc["main"] = "created" => pc'["main"] = "created",
         \A s \in Session : pc'[s] \in Running => pc[s] \in Running
  PROVE  SessionsAccounted'
  BY DEF SessionsAccounted, Running, InQueue

\* network_main hands its session over to the queue, and takes out of it only
\* sessions that have been freed, whose threads have ended.
LEMMA AccountsMain ==
  ASSUME Inv, SessionsAccounted, MainStep PROVE SessionsAccounted'
  <1> USE ThreadNames, QuietKeepsAccounts
      DEF Inv, TypeOK, PcOK, Running, queueVars
  <1>0. CASE network_main_listen BY <1>0 DEF network_main_listen
  <1>1. CASE network_main_loop BY <1>1 DEF network_main_loop
  <1>2. CASE network_main_push
    <2> DEFINE q == session_queue
    <2>1. accepted \in Session BY <1>2 DEF network_main_push, QueueInv, AcceptedIsNew
    <2>2. /\ q \in Seq(Session) /\ q' = Append(q, accepted)
          /\ Len(q') = Len(q) + 1 /\ q'[Len(q) + 1] = accepted
          /\ \A k \in 1 .. Len(q) : q'[k] = q[k]
      BY <1>2, <2>1 DEF QueueOK, network_main_push
    <2>3. \A s \in Session : InQueue(s) \/ s = accepted => InQueue(s)'
      BY <2>2 DEF InQueue
    <2>4. accepted' = "none" /\ \A s \in Session : pc'[s] = pc[s]
      BY <1>2 DEF network_main_push
    <2> QED BY <2>3, <2>4 DEF SessionsAccounted
  <1>3. CASE cmdline_stop("main") BY <1>3 DEF cmdline_stop, AfterStop
  <1>4. CASE cmdline_stop_joined("main") BY <1>4 DEF cmdline_stop_joined, AfterStop
  <1>5. CASE cmdline_start("main") BY <1>5 DEF cmdline_start
  <1>6. CASE network_main_join_gc BY <1>6 DEF network_main_join_gc
  <1>7. CASE network_main_join_send BY <1>7 DEF network_main_join_send
  <1>8. CASE session_destroy_cancel
    BY <1>8 DEF session_destroy_cancel
  <1>9. CASE session_destroy_free BY <1>9 DEF session_destroy_free
  <1>10. CASE list_destroy_remove
    <2> DEFINE h == Head(session_queue)
    <2>1. /\ session_queue # <<>> /\ heap[h] = "freed"
          /\ session_queue' = Tail(session_queue)
          /\ accepted' = accepted /\ pc["main"] = "unlink"
          /\ \A s \in Session : pc'[s] = pc[s]
      BY <1>10 DEF list_destroy_remove, QueueInv, DestroyedLast
    <2>2. /\ h \in Session
          /\ \A s \in Session : InQueue(s)' <=> InQueue(s) /\ s # h
      BY <2>1, QueueTail DEF QueueInv
    <2>3. pc[h] \in {"done", "dead"}
      BY <2>1, <2>2 DEF QueueInv, FreedIsFinished
    <2> QED BY <2>1, <2>2, <2>3 DEF SessionsAccounted
  <1>11. CASE network_main_return BY <1>11 DEF network_main_return
  <1> QED BY <1>0, <1>1, <1>2, <1>3, <1>4, <1>5, <1>6, <1>7, <1>8, <1>9,
         <1>10, <1>11 DEF MainStep

\* gc_thread takes out of the queue only sessions that have exited.
LEMMA AccountsGc ==
  ASSUME Inv, SessionsAccounted, GcStep \/ gc_thread_wake
  PROVE  SessionsAccounted'
  <1> USE ThreadNames, QuietKeepsAccounts
      DEF Inv, TypeOK, PcOK, Running, queueVars
  <1>1. CASE gc_thread_lock BY <1>1 DEF gc_thread_lock
  <1>2. CASE gc_thread_check BY <1>2 DEF gc_thread_check
  <1>3. CASE gc_thread_release
    <2> DEFINE h == Head(session_queue)
    <2>1. /\ session_queue # <<>> /\ status[h] = "SESSION_EXIT"
          /\ session_queue' = Tail(session_queue)
          /\ UNCHANGED <<accepted, pc>>
      BY <1>3 DEF gc_thread_release
    <2>2. /\ h \in Session
          /\ \A s \in Session : InQueue(s)' <=> InQueue(s) /\ s # h
      BY <2>1, QueueTail DEF QueueInv
    <2>3. pc[h] = "done" BY <2>1, <2>2 DEF QueueInv, ExitIsDone
    <2> QED BY <2>1, <2>2, <2>3 DEF SessionsAccounted
  <1>4. CASE gc_thread_activate BY <1>4 DEF gc_thread_activate
  <1>5. CASE gc_thread_close BY <1>5 DEF gc_thread_close
  <1>6. CASE cmdline_stop("gc") BY <1>6 DEF cmdline_stop, AfterStop
  <1>7. CASE cmdline_stop_joined("gc") BY <1>7 DEF cmdline_stop_joined, AfterStop
  <1>8. CASE cmdline_start("gc") BY <1>8 DEF cmdline_start
  <1>9. CASE gc_thread_wake BY <1>9 DEF gc_thread_wake
  <1> QED BY <1>1, <1>2, <1>3, <1>4, <1>5, <1>6, <1>7, <1>8, <1>9 DEF GcStep

\* An accepted session starts in the hands of network_main; no other step of the
\* other threads starts a session thread.
LEMMA AccountsOthers ==
  ASSUME Inv, SessionsAccounted,
         \/ SendStep \/ CmdStep \/ sigterm_kill \/ Environment
         \/ \E s \in Session : SessionStep(s)
         \/ \E t \in Thread : CancelStep(t)
  PROVE  SessionsAccounted'
  <1> USE ThreadNames, QuietKeepsAccounts
      DEF Inv, TypeOK, PcOK, Running, queueVars
  <1>1. CASE SendStep
    <2>1. CASE send_thread_loop BY <2>1 DEF send_thread_loop
    <2>2. CASE send_thread_read BY <2>2 DEF send_thread_read
    <2>3. CASE send_thread_deliver BY <2>3 DEF send_thread_deliver
    <2>4. CASE send_thread_poll BY <2>4 DEF send_thread_poll
    <2>5. CASE send_thread_nap BY <2>5 DEF send_thread_nap
    <2> QED BY <1>1, <2>1, <2>2, <2>3, <2>4, <2>5 DEF SendStep
  <1>2. CASE CmdStep
    <2>1. CASE cmdline_thread_read BY <2>1 DEF cmdline_thread_read
    <2>2. CASE cmdline_thread_loop BY <2>2 DEF cmdline_thread_loop
    <2>3. CASE network_logoff BY <2>3 DEF network_logoff
    <2>4. CASE network_logoff_null BY <2>4 DEF network_logoff_null
    <2>5. CASE cmd_server_exitserver BY <2>5 DEF cmd_server_exitserver
    <2>6. CASE network_quit_kill BY <2>6 DEF network_quit_kill, QuitKill, AfterSignal
    <2> QED BY <1>2, <2>1, <2>2, <2>3, <2>4, <2>5, <2>6 DEF CmdStep
  <1>3. CASE sigterm_kill
    BY <1>3 DEF sigterm_kill, QuitKill, AfterSignal
  <1>4. ASSUME NEW s \in Session, SessionStep(s) PROVE SessionsAccounted'
    BY <1>4 DEF SessionStep, conn_receive_lock, session_thread_exit
  <1>5. ASSUME NEW t \in Thread, cancel_thread(t) PROVE SessionsAccounted'
    <2>1. t # "main" BY <1>5 DEF cancel_thread, CancelPoint
    <2> QED BY <1>5, <2>1 DEF cancel_thread
  <1>6. ASSUME NEW t \in Thread, cancel_holding(t) PROVE SessionsAccounted'
    <2>1. t # "main" BY <1>6, CancelHolding DEF Inv
    <2> QED BY <1>6, <2>1 DEF cancel_holding
  <1>7. ASSUME NEW s \in Session, network_main_accept(s)
        PROVE  SessionsAccounted'
    BY <1>7 DEF network_main_accept, SessionsAccounted, InQueue
  <1>8. ASSUME NEW s \in Session,
               \/ session_thread_kex(s) \/ conn_auth_denied(s)
               \/ session_thread_authed(s) \/ session_thread_lost(s)
               \/ conn_receive_waiting(s)
        PROVE  SessionsAccounted'
    BY <1>8 DEF session_thread_kex, conn_auth_denied, session_thread_authed,
                session_thread_lost, conn_receive_waiting
  <1>9. ASSUME NEW s \in Session,
               \/ conn_auth_success(s) \/ channel_open(s)
               \/ \E c \in Command : conn_receive_active(s, c)
        PROVE  SessionsAccounted'
    BY <1>9 DEF conn_auth_success, channel_open, conn_receive_active
  <1>10. CASE network_main_accept_fails \/ console_output \/ sigterm_arrives
    BY <1>10 DEF network_main_accept_fails, console_output, sigterm_arrives
  <1>12. CASE send_thread_written \/ send_thread_broke
    BY <1>12 DEF send_thread_written, send_thread_broke
  <1>13. ASSUME NEW s \in Session, conn_receive_notify(s)
         PROVE  SessionsAccounted'
    BY <1>13 DEF conn_receive_notify
  <1>11. CASE Environment
    BY <1>7, <1>8, <1>9, <1>10, <1>11, <1>12, <1>13 DEF Environment, ClientReads
  <1> QED BY <1>1, <1>2, <1>3, <1>4, <1>5, <1>6, <1>11 DEF CancelStep

\* Whoever has mutex while the service is up, gc_thread apart, meets nobody at
\* the queue, and finds a live session at its front.
LEMMA FrontIsSafe ==
  ASSUME OwnerInv, run_flag, mutex # "gc", NEW where
  PROVE  /\ QueueRace = {}
         /\ session_queue # <<>> =>
              /\ FrontFault(where) = {"none"}
              /\ heap[Head(session_queue)] # "freed"
  <1>1. /\ ~At("gc", "clean") /\ ~At("main", "unlink")
    BY DEF OwnerInv, MutexDiscipline, UpInv
  <1>2. QueueRace = {} BY <1>1 DEF QueueRace
  <1>3. ASSUME session_queue # <<>> PROVE heap[Head(session_queue)] # "freed"
    BY <1>1, <1>3, FrontInQueue DEF OwnerInv, Inv, QueueInv, FreedIsFinished
  <1> QED BY <1>2, <1>3 DEF FrontFault

\* While the service is up, the session that network_logoff works on stays at the
\* front: gc_thread waits for mutex, and network_main appends at the other end.
LEMMA LeavingNext ==
  ASSUME OwnerInv, LeavingIsFront, [Next]_vars
  PROVE  LeavingIsFront'
  <1> SUFFICES ASSUME run_flag', pc'["cmd"] = "null"
               PROVE  session_queue' # <<>> /\ leaving' = Head(session_queue')
    BY DEF LeavingIsFront
  <1> USE ThreadNames DEF OwnerInv, Inv, TypeOK, PcOK
  <1>1. CASE network_logoff
    <2>1. run_flag /\ pc["cmd"] = "logoff" /\ mutex = "none"
      BY <1>1 DEF network_logoff, quitVars
    <2>2. session_queue # <<>>
      BY <2>1 DEF CommandLineHasOwner, MutexDiscipline
    <2> QED BY <1>1, <2>2 DEF network_logoff
  <1>2. ASSUME run_flag, pc["cmd"] = "null",
               UNCHANGED <<session_queue, leaving>>
        PROVE  session_queue' # <<>> /\ leaving' = Head(session_queue')
    BY <1>2 DEF LeavingIsFront
  <1>3. run_flag /\ pc["cmd"] = "null" => mutex = "cmd"
    BY DEF MutexDiscipline
  <1>4. CASE MainStep
    <2>1. run_flag /\ pc["cmd"] = "null"
      BY <1>4 DEF MainStep, network_main_loop, network_main_listen,
         network_main_push, cmdline_stop, cmdline_stop_joined, cmdline_start,
         network_main_join_gc, network_main_join_send, session_destroy_cancel,
         session_destroy_free, list_destroy_remove, network_main_return, quitVars
    <2>2. ~network_main_push /\ ~list_destroy_remove
      BY <1>3, <2>1 DEF network_main_push, list_destroy_remove, UpInv
    <2>3. UNCHANGED <<session_queue, leaving>>
      BY <1>4, <2>2 DEF MainStep, network_main_loop, network_main_listen,
         cmdline_stop, cmdline_stop_joined, cmdline_start,
         network_main_join_gc, network_main_join_send, session_destroy_cancel,
         session_destroy_free, network_main_return, queueVars
    <2> QED BY <1>2, <2>1, <2>3
  <1>5. CASE GcStep \/ gc_thread_wake
    <2>1. run_flag /\ pc["cmd"] = "null"
      BY <1>5 DEF GcStep, gc_thread_lock, gc_thread_check, gc_thread_release,
         gc_thread_activate, gc_thread_close, gc_thread_wake, cmdline_stop,
         cmdline_stop_joined, cmdline_start, quitVars
    <2>2. ~gc_thread_release
      BY <1>3, <2>1 DEF gc_thread_release, MutexDiscipline
    <2>3. UNCHANGED <<session_queue, leaving>>
      BY <1>5, <2>2 DEF GcStep, gc_thread_lock, gc_thread_check,
         gc_thread_activate, gc_thread_close, gc_thread_wake, cmdline_stop,
         cmdline_stop_joined, cmdline_start, queueVars
    <2> QED BY <1>2, <2>1, <2>3
  <1>6. CASE SendStep
    <2> USE <1>2 DEF queueVars, quitVars
    <2>1. CASE send_thread_loop BY <2>1 DEF send_thread_loop
    <2>2. CASE send_thread_read BY <2>2 DEF send_thread_read
    <2>3. CASE send_thread_deliver BY <2>3 DEF send_thread_deliver
    <2>4. CASE send_thread_poll BY <2>4 DEF send_thread_poll
    <2>5. CASE send_thread_nap BY <2>5 DEF send_thread_nap
    <2> QED BY <1>6, <2>1, <2>2, <2>3, <2>4, <2>5 DEF SendStep
  <1>7. CASE CmdStep
    <2>1. CASE cmdline_thread_read
      <3>1. Head(stdin) \in {"exit", "exitserver", "other"}
        BY <2>1, NetworkAssumption DEF cmdline_thread_read, CmdOK
      <3>2. pc'["cmd"] # "null" BY <2>1, <3>1 DEF cmdline_thread_read
      <3> QED BY <3>2
    <2>2. CASE cmdline_thread_loop BY <2>2 DEF cmdline_thread_loop
    <2>3. CASE network_logoff_null BY <2>3 DEF network_logoff_null
    <2>4. CASE cmd_server_exitserver BY <2>4 DEF cmd_server_exitserver
    <2>5. CASE network_quit_kill BY <2>5 DEF network_quit_kill
    <2> QED BY <1>1, <1>7, <2>1, <2>2, <2>3, <2>4, <2>5 DEF CmdStep
  <1>8. CASE sigterm_kill \/ \E t \in Thread : CancelStep(t)
    BY <1>2, <1>8 DEF CancelStep, sigterm_kill, cancel_thread, cancel_holding,
                      AfterSignal, queueVars, quitVars
  <1>9. ASSUME NEW s \in Session, SessionStep(s)
        PROVE  session_queue' # <<>> /\ leaving' = Head(session_queue')
    BY <1>2, <1>9 DEF SessionStep, conn_receive_lock, session_thread_exit,
                      queueVars, quitVars
  <1>10. CASE Environment
    BY <1>2, <1>10
    DEF Environment, network_main_accept, session_thread_kex, conn_auth_denied,
        conn_auth_success, channel_open, session_thread_authed,
        session_thread_lost, conn_receive_active, conn_receive_waiting,
        network_main_accept_fails, console_output, sigterm_arrives, ClientReads,
        send_thread_written, send_thread_broke, conn_receive_notify, queueVars,
        quitVars
  <1>11. CASE UNCHANGED vars BY <1>2, <1>11 DEF vars, queueVars, quitVars
  <1> QED BY <1>4, <1>5, <1>6, <1>7, <1>8, <1>9, <1>10, <1>11 DEF Next

\* A step of a running service makes no other invalid access than the one of a
\* session that network_main has not queued yet.
LEMMA FaultNext ==
  ASSUME OwnerInv, SessionsAccounted, LeavingIsFront, Next
  PROVE  FaultsWhileUp'
  <1> DEFINE Excused == {"none", "execute_command", "freed channel"}
  <1> SUFFICES ASSUME run_flag'
               PROVE  \/ fault' \in Excused
                      \/ fault' = "conn_receive" /\ accepted' # "none"
    BY DEF FaultsWhileUp
  <1> USE ThreadNames
  <1>1. fault = "none" BY DEF Next, ProcessUp
  <1>2. CASE network_main_push
    <2>1. run_flag /\ mutex = "none" BY <1>2 DEF network_main_push, quitVars
    <2> QED BY <1>2, <2>1, FrontIsSafe DEF network_main_push
  <1>3. ASSUME NEW s \in Session, conn_receive_notify(s)
        PROVE  \/ fault' \in Excused
               \/ fault' = "conn_receive" /\ accepted' # "none"
    <2>1. /\ run_flag /\ accepted' = accepted /\ pc[s] = "write"
          /\ fault' \in FrontFault("conn_receive") \cup {"freed channel"}
      BY <1>3 DEF conn_receive_notify, quitVars, queueVars
    <2>2. mutex # "gc" BY <2>1 DEF OwnerInv, MutexDiscipline
    <2>3. CASE session_queue # <<>> BY <2>1, <2>2, <2>3, FrontIsSafe
    <2>4. CASE session_queue = <<>>
      <3>1. ~InQueue(s) BY <2>4 DEF InQueue
      <3>2. accepted = s BY <2>1, <3>1 DEF SessionsAccounted
      <3> QED BY <2>1, <2>4, <3>2 DEF FrontFault
    <2> QED BY <2>3, <2>4
  <1>4. CASE send_thread_deliver
    <2>1. run_flag /\ mutex = "none" BY <1>4 DEF send_thread_deliver, quitVars
    <2> QED BY <1>4, <2>1, FrontIsSafe DEF send_thread_deliver
  <1>5. ~send_thread_broke
    BY DEF send_thread_broke, quitVars, OwnerInv, UpInv
  <1>6. CASE network_logoff
    <2>1. /\ run_flag /\ mutex = "none" /\ pc["cmd"] = "logoff"
          /\ fault' \in FrontFault("network_logoff")
      BY <1>6 DEF network_logoff, quitVars
    <2>2. session_queue # <<>>
      BY <2>1 DEF OwnerInv, CommandLineHasOwner, MutexDiscipline
    <2> QED BY <2>1, <2>2, FrontIsSafe
  <1>7. CASE network_logoff_null
    <2>1. run_flag /\ pc["cmd"] = "null"
      BY <1>7 DEF network_logoff_null, quitVars
    <2>2. mutex # "gc" BY <2>1 DEF OwnerInv, MutexDiscipline
    <2>3. heap[leaving] # "freed" BY <2>1, <2>2, FrontIsSafe DEF LeavingIsFront
    <2> QED BY <1>7, <2>3 DEF network_logoff_null
  <1>8. CASE MainStep
    BY <1>1, <1>2, <1>8
    DEF MainStep, network_main_loop, network_main_listen, cmdline_stop,
        cmdline_stop_joined, cmdline_start, network_main_join_gc,
        network_main_join_send, session_destroy_cancel, session_destroy_free,
        list_destroy_remove, network_main_return
  <1>9. CASE GcStep \/ gc_thread_wake
    BY <1>1, <1>9
    DEF GcStep, gc_thread_lock, gc_thread_check, gc_thread_close, gc_thread_wake,
        gc_thread_release, gc_thread_activate, cmdline_stop,
        cmdline_stop_joined, cmdline_start
  <1>10. CASE SendStep
    BY <1>1, <1>4, <1>10
    DEF SendStep, send_thread_loop, send_thread_read, send_thread_poll,
        send_thread_nap
  <1>11. ~network_quit_kill /\ ~sigterm_kill
    BY DEF network_quit_kill, sigterm_kill, OwnerInv, UpInv
  <1>12. CASE CmdStep
    BY <1>1, <1>6, <1>7, <1>11, <1>12
    DEF CmdStep, cmdline_thread_read, cmdline_thread_loop, cmd_server_exitserver
  <1>13. CASE \E t \in Thread : CancelStep(t)
    BY <1>1, <1>13 DEF CancelStep, cancel_thread, cancel_holding
  <1>14. CASE \E s \in Session : SessionStep(s)
    BY <1>1, <1>14 DEF SessionStep, conn_receive_lock, session_thread_exit
  <1>15. CASE Environment
    BY <1>1, <1>3, <1>5, <1>15
    DEF Environment, network_main_accept, session_thread_kex, conn_auth_denied,
        conn_auth_success, channel_open, session_thread_authed, ChannelFault,
        session_thread_lost, conn_receive_active, conn_receive_waiting,
        network_main_accept_fails, console_output, sigterm_arrives, ClientReads,
        send_thread_written
  <1> QED BY <1>8, <1>9, <1>10, <1>11, <1>12, <1>13, <1>14, <1>15 DEF Next

\* While the service is up, no thread meets an empty queue where it expects a
\* session, uses a freed one or works on the queue beside gc_thread, but for
\* conn_receive in a session whose thread is ahead of network_main's push (and
\* for execute_command, which does not look at the queue).
THEOREM OnlyKnownFaults == Spec => []FaultsWhileUp
  <1>1. Init => SessionsAccounted /\ FaultsWhileUp /\ LeavingIsFront
    <2>1. Init => \A s \in Session : pc[s] = "unborn"
      BY ThreadNames DEF Init
    <2>2. Init => pc["cmd"] = "off" BY ThreadNames DEF Init
    <2> QED
      BY <2>1, <2>2 DEF Init, SessionsAccounted, FaultsWhileUp, LeavingIsFront
  <1>2. Inv /\ SessionsAccounted /\ [Next]_vars => SessionsAccounted'
    <2>1. ASSUME Inv, SessionsAccounted, UNCHANGED vars
          PROVE  SessionsAccounted'
      BY <2>1, QuietKeepsAccounts DEF vars, queueVars
    <2>2. ASSUME Inv, SessionsAccounted, Next PROVE SessionsAccounted'
      BY <2>2, AccountsMain, AccountsGc, AccountsOthers DEF Next
    <2> QED BY <2>1, <2>2
  <1>3. OwnerInv /\ SessionsAccounted /\ LeavingIsFront /\ FaultsWhileUp
          /\ [Next]_vars => FaultsWhileUp'
    <2>1. FaultsWhileUp /\ UNCHANGED vars => FaultsWhileUp'
      BY DEF FaultsWhileUp, vars, quitVars, queueVars
    <2> QED BY <2>1, FaultNext
  <1>4. OwnerInv /\ LeavingIsFront /\ [Next]_vars => LeavingIsFront'
    BY LeavingNext
  <1> QED BY <1>1, <1>2, <1>3, <1>4, SpecInv, SpecOwner, PTL DEF Spec
=============================================================================
