------------------------------- MODULE Daemon -------------------------------
(***************************************************************************)
(* main.c and config.c: instances of the daemon that start, serve and exit *)
(* on one configuration file and one lock file.                            *)
(*                                                                         *)
(* The lock is taken after the configuration is read, and the              *)
(* configuration is written back on every way out after that, also by an   *)
(* instance that does not get the lock.  An instance can die anywhere; the *)
(* kernel then releases its lock.  The file is smaller than a stdio        *)
(* buffer, so ini_sync truncates it with one call and writes it with one.  *)
(***************************************************************************)
EXTENDS Ini, FiniteSets

CONSTANTS
  Instance,     \* processes; a process that has exited may start again
  Value,        \* what administrators set username and password to
  KeySize,      \* the size of the line that carries such a value
  Files,        \* configuration files the first instance may find
  MaxFailures,  \* bound on instances that die and on failing writes
  MaxTorn       \* bound on the torn lines of a file that is loaded

ASSUME DaemonAssumption ==
  /\ "none" \notin Instance
  /\ KeySize \in [Value -> Nat]
  /\ \A f \in Files : f \in Seq([type : STRING, name : STRING, value : STRING, size : Nat])
  \* "none" marks what is not a key
  /\ "none" \notin Value
  /\ \A f \in Files : \A i \in 1 .. Len(f) : f[i].type = "key" => f[i].value # "none"
  /\ MaxFailures \in Nat
  /\ MaxTorn \in Nat

VARIABLES
  file,        \* the lines of CFG_FILE
  lock,        \* the instance that has locked LOCK_FILE, or "none"
  sections,    \* p_cfg_file->sections of each instance
  username,    \* config.c: the cached values
  passwd,
  game,        \* the instances that have a game server
  orphans,     \* game servers whose daemon has died
  failures,    \* failures and failed writes so far
  overlapped,  \* two instances have been there at the same time
  set,         \* the values that the last serving instance has set
  pc           \* where main() of each instance is

config == <<sections, username, passwd>>
vars == <<file, lock, config, game, orphans, failures, overlapped, set, pc>>

\* The keys that cfg_init asks for.
Required ==
  {<<"minecraft", "workdir">>, <<"minecraft", "server-file">>,
   <<"minecraft", "command">>, <<"ssh", "port">>, <<"ssh", "username">>,
   <<"ssh", "password">>, <<"ssh", "max_connection">>,
   <<"log", "log-file-size">>, <<"log", "log-file-num">>}

\* cfg_init returns true on this file
Loadable(f) ==
  LET a == ini_open(f)
  IN  a.ok /\ \A k \in Required :
                ini_get_key_value(a.sections, k[1], k[2]) # NoValue

UserOf(s)   == ini_get_key_value(s, "ssh", "username")
PasswdOf(s) == ini_get_key_value(s, "ssh", "password")

Init ==
  /\ file \in {f \in Files : Loadable(f)}
  /\ lock = "none"
  /\ sections = [p \in Instance |-> <<>>]
  /\ username = [p \in Instance |-> NoValue]
  /\ passwd = [p \in Instance |-> NoValue]
  /\ game = {}
  /\ orphans = 0
  /\ failures = 0
  /\ overlapped = FALSE
  /\ set = [username |-> UserOf(ini_open(file).sections),
            password |-> PasswdOf(ini_open(file).sections)]
  /\ pc = [p \in Instance |-> "off"]

At(p, label)   == pc[p] = label
Goto(p, label) == pc' = [pc EXCEPT ![p] = label]

\* A death or a failed call is counted.
Fails == failures < MaxFailures /\ failures' = failures + 1

\* The process is gone, with its memory and its lock.
Ends(p) ==
  /\ Goto(p, "off")
  /\ lock' = IF lock = p THEN "none" ELSE lock
  /\ sections' = [sections EXCEPT ![p] = <<>>]
  /\ username' = [username EXCEPT ![p] = NoValue]
  /\ passwd' = [passwd EXCEPT ![p] = NoValue]
-----------------------------------------------------------------------------
(* main() up to server_start                                               *)

\* cfg_init; where it fails main() returns and nothing has changed
cfg_init(p) ==
  /\ At(p, "off")
  /\ Loadable(file)
  /\ Len(SelectSeq(file, LAMBDA l : l.name = "torn")) <= MaxTorn
  /\ LET s == ini_open(file).sections IN
       /\ sections' = [sections EXCEPT ![p] = s]
       /\ username' = [username EXCEPT ![p] = UserOf(s)]
       /\ passwd' = [passwd EXCEPT ![p] = PasswdOf(s)]
  /\ overlapped' = (overlapped \/ \E q \in Instance : ~At(q, "off"))
  /\ Goto(p, "log_init")
  /\ UNCHANGED <<file, lock, game, orphans, failures, set>>

\* log_init and daemon()
main_daemon(p) ==
  /\ At(p, "log_init")
  /\ Goto(p, "lockf")
  /\ UNCHANGED <<file, lock, config, game, orphans, failures, overlapped, set>>

\* Mutant: the lock is taken, but not checked.
main_lockf_ignored(p) ==
  /\ At(p, "lockf")
  /\ lock' = IF lock = "none" THEN p ELSE lock
  /\ Goto(p, "server_start")
  /\ UNCHANGED <<file, config, game, orphans, failures, overlapped, set>>

\* lockf(lock_fd, F_TLOCK, 0)
main_lockf(p) ==
  /\ At(p, "lockf")
  /\ lock' = IF lock = "none" THEN p ELSE lock
  /\ Goto(p, IF lock = "none" THEN "server_start" ELSE "cfg_destroy")
  /\ UNCHANGED <<file, config, game, orphans, failures, overlapped, set>>

\* server_init and server_start
main_server_start(p) ==
  /\ At(p, "server_start")
  /\ game' = game \cup {p}
  /\ Goto(p, "network_main")
  /\ UNCHANGED <<file, lock, config, orphans, failures, overlapped, set>>

\* log_init, daemon(), server_init or server_start fails
main_fails(p) ==
  /\ pc[p] \in {"log_init", "server_start"}
  /\ Goto(p, "cfg_destroy")
  /\ UNCHANGED <<file, lock, config, game, orphans, failures, overlapped, set>>
-----------------------------------------------------------------------------
(* While the instance serves                                               *)

\* cfg_set_username, from the command line, which lives until server_destroy
cfg_set_username(p, v) ==
  /\ pc[p] \in {"network_main", "server_stop"}
  /\ LET new == ini_set_key_value(sections[p], "ssh",
                                  Line("key", "username", v, KeySize[v]))
     IN  /\ sections' = [sections EXCEPT ![p] = new]
         /\ username' = [username EXCEPT ![p] = [value |-> v, more |-> <<>>]]
         /\ set' = [username |-> username'[p], password |-> passwd[p]]
  /\ UNCHANGED <<file, lock, passwd, game, orphans, failures, overlapped, pc>>

\* Mutant: only the cached value changes.
cfg_set_passwd_cached(p, v) ==
  /\ pc[p] \in {"network_main", "server_stop"}
  /\ passwd' = [passwd EXCEPT ![p] = [value |-> v, more |-> <<>>]]
  /\ set' = [username |-> username[p], password |-> passwd'[p]]
  /\ UNCHANGED <<file, lock, sections, username, game, orphans, failures,
                 overlapped, pc>>

cfg_set_passwd(p, v) ==
  /\ pc[p] \in {"network_main", "server_stop"}
  /\ LET new == ini_set_key_value(sections[p], "ssh",
                                  Line("key", "password", v, KeySize[v]))
     IN  /\ sections' = [sections EXCEPT ![p] = new]
         /\ passwd' = [passwd EXCEPT ![p] = [value |-> v, more |-> <<>>]]
         /\ set' = [username |-> username[p], password |-> passwd'[p]]
  /\ UNCHANGED <<file, lock, username, game, orphans, failures, overlapped, pc>>

\* network_main returns: exitserver, SIGTERM, or it could not start to listen
network_main_returns(p) ==
  /\ At(p, "network_main")
  /\ Goto(p, "server_stop")
  /\ UNCHANGED <<file, lock, config, game, orphans, failures, overlapped, set>>
-----------------------------------------------------------------------------
(* The ways out                                                            *)

\* server_stop and server_destroy
main_server_stop(p) ==
  /\ At(p, "server_stop")
  /\ game' = game \ {p}
  /\ Goto(p, "cfg_destroy")
  /\ UNCHANGED <<file, lock, config, orphans, failures, overlapped, set>>

\* Mutant: cfg_destroy without cfg_write.
cfg_destroy_truncate_skipped(p) ==
  /\ At(p, "cfg_destroy")
  /\ Goto(p, "unlock")
  /\ UNCHANGED <<file, lock, config, game, orphans, failures, overlapped, set>>

\* cfg_write, ini_sync: freopen(path, "w+") truncates the file, or fails
cfg_destroy_truncate(p) ==
  /\ At(p, "cfg_destroy")
  /\ \/ file' = <<>> /\ Goto(p, "write") /\ UNCHANGED failures
     \/ Fails /\ UNCHANGED file /\ Goto(p, "unlock")
  /\ UNCHANGED <<lock, config, game, orphans, overlapped, set>>

\* Where the lines of a file end: the characters of its first i lines.
Offset(f) ==
  LET n[i \in 0 .. Len(f)] == IF i = 0 THEN 0 ELSE n[i - 1] + f[i].size + 1
  IN  n

Size(f) == Offset(f)[Len(f)]

\* What is left of file f behind its first n characters: the end of the line they
\* end in, without its newline, and the lines behind it.  The end of a line is a key
\* that nobody asks for if it has an '=' behind its first character, and else a line
\* that analyse_line refuses: "size=2MB" and "MB" of "log-file-size=2MB".
Remainder(f, n, type) ==
  LET Start(i) == Offset(f)[i - 1]
      next == Min({i \in 1 .. Len(f) : Start(i) >= n} \cup {Len(f) + 1})
      left == (Start(next) - 1) - n
      torn == IF n < Start(next)
              THEN <<IF left = 0 THEN Line("blank", "", "none", 0)
                                 ELSE Line(type, "torn", "torn", left)>>
              ELSE <<>>
  IN  torn \o SubSeq(f, next, Len(f))

\* fprintf into the buffer and fflush, at the offset of this instance's stream:
\* another instance may have written the file since the truncation
cfg_destroy_write(p) ==
  /\ At(p, "write")
  /\ \/ /\ LET text == ini_sync(sections[p])
           IN  \E type \in {"key", "bad"} :
                 file' = text \o Remainder(file, Size(text), type)
        /\ UNCHANGED failures
     \/ Fails /\ UNCHANGED file
  /\ Goto(p, "unlock")
  /\ UNCHANGED <<lock, config, game, orphans, overlapped, set>>

\* Mutant: the exit path forgets the lock.
main_unlock_skipped(p) ==
  /\ At(p, "unlock")
  /\ Goto(p, "off")
  /\ UNCHANGED <<file, lock, config, game, orphans, failures, overlapped, set>>

\* lockf(lock_fd, F_ULOCK, 0), close, and main() returns; the lists are freed
main_unlock(p) ==
  /\ At(p, "unlock")
  /\ Ends(p)
  /\ UNCHANGED <<file, game, orphans, failures, overlapped, set>>

\* The process dies: killed, out of memory, an invalid access, a SIGTERM before
\* network_main has installed its handler.  Its game server lives on.
dies(p) ==
  /\ ~At(p, "off")
  /\ Fails
  /\ Ends(p)
  /\ orphans' = orphans + Cardinality(game \cap {p})
  /\ game' = game \ {p}
  /\ UNCHANGED <<file, overlapped, set>>
-----------------------------------------------------------------------------
InstanceStep(p) ==
  \/ cfg_init(p) \/ main_daemon(p) \/ main_lockf(p) \/ main_server_start(p)
  \/ main_fails(p)
  \/ \E v \in Value : cfg_set_username(p, v) \/ cfg_set_passwd(p, v)
  \/ network_main_returns(p) \/ main_server_stop(p)
  \/ cfg_destroy_truncate(p) \/ cfg_destroy_write(p) \/ main_unlock(p)
  \/ dies(p)

Next == \E p \in Instance : InstanceStep(p)

Spec == Init /\ [][Next]_vars
-----------------------------------------------------------------------------
(* Properties                                                              *)

Label == {"off", "log_init", "lockf", "server_start", "network_main",
          "server_stop", "cfg_destroy", "write", "unlock"}

\* The variables keep the shapes of the objects they stand for, and the lock is
\* owned by a process that exists.
TypeOK ==
  /\ lock \in {"none"} \cup {p \in Instance : pc[p] # "off"}
  /\ game \subseteq Instance
  /\ orphans \in Nat /\ failures \in 0 .. MaxFailures
  /\ overlapped \in BOOLEAN
  /\ pc \in [Instance -> Label]

\* However instances start, fail to get the lock, exit and die, at most one of
\* them runs a game server: the lock covers server_start to server_stop.
OneGameServer == \A p, q \in game : p = q

\* What makes it inductive: an instance with a game server owns the lock.
LockInv ==
  /\ \A p \in Instance : pc[p] \in {"server_start", "network_main", "server_stop"}
                           => lock = p
  /\ \A p \in game : pc[p] \in {"network_main", "server_stop"}

\* Administrators log in with what will be saved: the cached user name and
\* password are those of the lists that cfg_destroy writes.
CacheIsSaved ==
  \A p \in Instance : ~At(p, "off") => /\ username[p] = UserOf(sections[p])
                                       /\ passwd[p] = PasswdOf(sections[p])

\* What administrators set is there for the next daemon, through any number of
\* starts and orderly exits, as long as no instance died, no write failed and
\* no two instances were there at the same time.
SettingsDurable ==
  /\ failures = 0 /\ ~overlapped
  /\ \A p \in Instance : At(p, "off")
  => LET s == ini_open(file).sections
     IN  UserOf(s) = set.username /\ PasswdOf(s) = set.password

\* A death, a failed write or two instances that save at the same time leave an
\* empty file, or one in which every key that cfg_init asks for stands, never half
\* of the settings.  As long as no two instances were there at the same time, and no
\* line exceeds the buffer, cfg_init loads it; else a torn line may be refused.
EmptyOrWhole == file # <<>> =>
  /\ \A k \in Required : LastValue(file, k[1], k[2]) # NoValue
  /\ FitsBuffer(file) /\ ~overlapped => Loadable(file)

\* ini_open reads every key as it stands in the file, the last one where a
\* section or a key is there twice, if no line exceeds the line buffer.
ReadsLastValue ==
  FitsBuffer(file) /\ ini_open(file).ok => \A k \in Required :
    ini_get_key_value(ini_open(file).sections, k[1], k[2]) = LastValue(file, k[1], k[2])

\* Saving changes nothing but what was set: what ini_sync would write of a file
\* that was accepted, and whose lines fit the buffer, is accepted and reads as the
\* same lists again, comments, blank lines and merged sections included.
ReadsBack == FitsBuffer(file) /\ ini_open(file).ok =>
  LET s == ini_open(file).sections
      again == ini_open(ini_sync(s))
  IN  again.ok /\ again.sections = s

=============================================================================
