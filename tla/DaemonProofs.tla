---------------------------- MODULE DaemonProofs ----------------------------
(***************************************************************************)
(* Theorems about Daemon, for any set of instances and any configuration   *)
(* file.                                                                   *)
(*                                                                         *)
(* The argument: between server_start and server_stop an instance owns the *)
(* lock, and only there it has a game server.  The lock has one owner, and *)
(* is given up by unlock, which main() reaches only behind server_stop,    *)
(* and by death, which takes the instance off the list of those that have  *)
(* a game server: the process that is left then is an orphan.              *)
(*                                                                         *)
(* From "What is read line by line" on they are about the file that        *)
(* cfg_destroy writes, for configurations whose lines all fit the line     *)
(* buffer: what is saved is read back.                                     *)
(***************************************************************************)
EXTENDS Daemon, IniProofs, FiniteSetTheorems, TLAPS

LockTypeOK == lock \in {"none"} \cup {p \in Instance : pc[p] # "off"}

DaemonInv == TypeOK /\ LockInv

USE DEF At, Goto

\* The instance that dies leaves one orphan, or none.
LEMMA OrphanCount ==
  ASSUME NEW S, NEW p
  PROVE  Cardinality(S \cap {p}) \in Nat
  <1>1. IsFiniteSet({p}) BY FS_Singleton
  <1>2. IsFiniteSet(S \cap {p}) BY <1>1, FS_Subset, Zenon
  <1> QED BY <1>2, FS_CardinalityType

\* A process that ends gives up the lock if it has it, and nothing else.
LEMMA EndsKeeps ==
  ASSUME TypeOK, LockInv, NEW p \in Instance, Ends(p), game' = game \ {p},
         p \in game => lock = p
  PROVE  /\ pc' \in [Instance -> Label] /\ game' \subseteq Instance
         /\ LockTypeOK' /\ LockInv'
  <1>1. pc' = [pc EXCEPT ![p] = "off"] /\ pc \in [Instance -> Label]
    BY DEF Ends, TypeOK
  <1>2. pc' \in [Instance -> Label]
    BY <1>1 DEF Label
  <1>3. \A q \in Instance : q # p => pc'[q] = pc[q]
    BY <1>1
  <1>4. lock' = IF lock = p THEN "none" ELSE lock
    BY DEF Ends
  <1>5. LockTypeOK'
    BY <1>3, <1>4 DEF LockTypeOK, TypeOK
  <1>6. LockInv'
    BY <1>1, <1>3, <1>4 DEF LockInv, TypeOK
  <1> QED BY <1>2, <1>5, <1>6 DEF TypeOK

\* Moving an instance that exists to a place of main() that the lock does not cover.
LEMMA MoveKeeps ==
  ASSUME TypeOK, LockInv, NEW p \in Instance,
         NEW l \in Label \ {"off", "server_start", "network_main", "server_stop"},
         pc' = [pc EXCEPT ![p] = l], lock' = lock, game' \subseteq game \ {p}
  PROVE  pc' \in [Instance -> Label] /\ LockTypeOK' /\ LockInv'
  <1>1. pc \in [Instance -> Label]
    BY DEF TypeOK
  <1>2. pc'[p] = l /\ \A q \in Instance : q # p => pc'[q] = pc[q]
    BY <1>1
  <1>3. pc' \in [Instance -> Label]
    BY <1>1
  <1>4. LockTypeOK'
    BY <1>2 DEF LockTypeOK, TypeOK
  <1>5. LockInv'
    BY <1>2 DEF LockInv, TypeOK
  <1> QED BY <1>3, <1>4, <1>5

\* No instance has started, and nobody has the lock.
LEMMA DaemonInit == Init => DaemonInv
  <1> SUFFICES ASSUME Init PROVE DaemonInv
    OBVIOUS
  <1>1. /\ lock = "none" /\ game = {} /\ orphans = 0 /\ failures = 0
        /\ overlapped = FALSE /\ pc = [p \in Instance |-> "off"]
    BY DEF Init
  <1>2. pc \in [Instance -> Label]
    BY <1>1 DEF Label
  <1>3. failures \in 0 .. MaxFailures
    BY <1>1, DaemonAssumption
  <1>4. TypeOK
    BY <1>1, <1>2, <1>3 DEF TypeOK
  <1>5. LockInv
    BY <1>1 DEF LockInv
  <1> QED BY <1>4, <1>5 DEF DaemonInv

\* Every step of an instance keeps the invariant.
LEMMA InstanceKeeps ==
  ASSUME DaemonInv, NEW p \in Instance, InstanceStep(p)
  PROVE  DaemonInv'
  <1> USE DEF DaemonInv
  <1>0. /\ pc \in [Instance -> Label] /\ game \subseteq Instance
        /\ orphans \in Nat /\ failures \in 0 .. MaxFailures
        /\ overlapped \in BOOLEAN /\ LockTypeOK /\ MaxFailures \in Nat
    BY DaemonAssumption DEF TypeOK, LockTypeOK
  <1>fail. Fails => failures' \in 0 .. MaxFailures
    BY <1>0 DEF Fails
  <1>fold. /\ orphans' \in Nat /\ failures' \in 0 .. MaxFailures
           /\ overlapped' \in BOOLEAN /\ game' \subseteq Instance
           /\ pc' \in [Instance -> Label] /\ LockTypeOK' /\ LockInv'
           => DaemonInv'
    BY DEF TypeOK, LockTypeOK
  <1>out. pc[p] \notin {"network_main", "server_stop"} => p \notin game
    BY DEF LockInv
  <1>1. CASE cfg_init(p)
    <2>1. overlapped' \in BOOLEAN
      BY <1>1 DEF cfg_init
    <2>2. UNCHANGED <<lock, game, orphans, failures>> /\ pc' = [pc EXCEPT ![p] = "log_init"]
          /\ pc[p] = "off"
      BY <1>1 DEF cfg_init
    <2>3. pc' \in [Instance -> Label] /\ LockTypeOK' /\ LockInv'
      BY <2>2, <1>out, MoveKeeps DEF Label
    <2> QED BY <2>1, <2>2, <2>3, <1>0, <1>fold
  <1>2. CASE main_daemon(p)
    <2>1. UNCHANGED <<lock, game, orphans, failures, overlapped>>
          /\ pc' = [pc EXCEPT ![p] = "lockf"] /\ pc[p] = "log_init"
      BY <1>2 DEF main_daemon
    <2>2. pc' \in [Instance -> Label] /\ LockTypeOK' /\ LockInv'
      BY <2>1, <1>out, MoveKeeps DEF Label
    <2> QED BY <2>1, <2>2, <1>0, <1>fold
  <1>3. CASE main_lockf(p)
    <2>1. UNCHANGED <<game, orphans, failures, overlapped>> /\ pc[p] = "lockf"
      BY <1>3 DEF main_lockf
    <2>2. CASE lock = "none"
      <3>1. lock' = p /\ pc' = [pc EXCEPT ![p] = "server_start"]
        BY <1>3, <2>2 DEF main_lockf
      <3>2. pc' \in [Instance -> Label] /\ LockTypeOK'
        BY <3>1, <1>0 DEF Label, LockTypeOK
      <3>3. LockInv'
        BY <3>1, <2>1, <2>2, <1>0, DaemonAssumption DEF LockInv
      <3> QED BY <2>1, <3>2, <3>3, <1>0, <1>fold
    <2>3. CASE lock # "none"
      <3>1. lock' = lock /\ pc' = [pc EXCEPT ![p] = "cfg_destroy"]
        BY <1>3, <2>3 DEF main_lockf
      <3>2. pc' \in [Instance -> Label] /\ LockTypeOK' /\ LockInv'
        BY <3>1, <2>1, <1>out, MoveKeeps DEF Label
      <3> QED BY <2>1, <3>2, <1>0, <1>fold
    <2> QED BY <2>2, <2>3
  <1>4. CASE main_server_start(p)
    <2>1. /\ UNCHANGED <<lock, orphans, failures, overlapped>> /\ pc[p] = "server_start"
          /\ pc' = [pc EXCEPT ![p] = "network_main"] /\ game' = game \cup {p}
      BY <1>4 DEF main_server_start
    <2>2. pc' \in [Instance -> Label] /\ LockTypeOK' /\ LockInv'
      BY <2>1, <1>0 DEF Label, LockTypeOK, LockInv
    <2> QED BY <2>1, <2>2, <1>0, <1>fold
  <1>5. CASE main_fails(p)
    <2>1. UNCHANGED <<lock, game, orphans, failures, overlapped>>
          /\ pc' = [pc EXCEPT ![p] = "cfg_destroy"] /\ pc[p] \in {"log_init", "server_start"}
      BY <1>5 DEF main_fails
    <2>2. p \notin game
      BY <2>1, <1>out
    <2>3. "cfg_destroy" \in Label \ {"off", "server_start", "network_main", "server_stop"}
      BY DEF Label
    <2>4. /\ TypeOK /\ LockInv /\ p \in Instance
          /\ pc' = [pc EXCEPT ![p] = "cfg_destroy"] /\ lock' = lock /\ game' \subseteq game \ {p}
      BY <2>1, <2>2
    <2>5. pc' \in [Instance -> Label] /\ LockTypeOK' /\ LockInv'
      BY ONLY <2>3, <2>4, MoveKeeps
    <2> QED BY <2>1, <2>5, <1>0, <1>fold
  <1>6. CASE \E v \in Value : cfg_set_username(p, v) \/ cfg_set_passwd(p, v)
    <2>1. UNCHANGED <<lock, game, orphans, failures, overlapped, pc>>
      BY <1>6 DEF cfg_set_username, cfg_set_passwd
    <2> QED BY <2>1, <1>0, <1>fold DEF LockInv, LockTypeOK
  <1>7. CASE network_main_returns(p)
    <2>1. /\ UNCHANGED <<lock, game, orphans, failures, overlapped>> /\ pc[p] = "network_main"
          /\ pc' = [pc EXCEPT ![p] = "server_stop"]
      BY <1>7 DEF network_main_returns
    <2>2. pc' \in [Instance -> Label] /\ LockTypeOK' /\ LockInv'
      BY <2>1, <1>0 DEF Label, LockTypeOK, LockInv
    <2> QED BY <2>1, <2>2, <1>0, <1>fold
  <1>8. CASE main_server_stop(p)
    <2>1. /\ UNCHANGED <<lock, orphans, failures, overlapped>> /\ pc[p] = "server_stop"
          /\ pc' = [pc EXCEPT ![p] = "cfg_destroy"] /\ game' = game \ {p}
      BY <1>8 DEF main_server_stop
    <2>2. pc' \in [Instance -> Label] /\ LockTypeOK' /\ LockInv'
      BY <2>1, MoveKeeps DEF Label
    <2> QED BY <2>1, <2>2, <1>0, <1>fold
  <1>9. CASE cfg_destroy_truncate(p)
    <2>1. /\ UNCHANGED <<lock, game, orphans, overlapped>> /\ pc[p] = "cfg_destroy"
          /\ failures' = failures \/ Fails
          /\ pc' = [pc EXCEPT ![p] = "write"] \/ pc' = [pc EXCEPT ![p] = "unlock"]
      BY <1>9 DEF cfg_destroy_truncate
    <2>2. pc' \in [Instance -> Label] /\ LockTypeOK' /\ LockInv'
      BY <2>1, <1>out, MoveKeeps DEF Label
    <2> QED BY <2>1, <2>2, <1>0, <1>fail, <1>fold
  <1>10. CASE cfg_destroy_write(p)
    <2>1. /\ UNCHANGED <<lock, game, orphans, overlapped>> /\ pc[p] = "write"
          /\ failures' = failures \/ Fails
          /\ pc' = [pc EXCEPT ![p] = "unlock"]
      BY <1>10 DEF cfg_destroy_write
    <2>2. pc' \in [Instance -> Label] /\ LockTypeOK' /\ LockInv'
      BY <2>1, <1>out, MoveKeeps DEF Label
    <2> QED BY <2>1, <2>2, <1>0, <1>fail, <1>fold
  <1>11. CASE main_unlock(p)
    <2>1. /\ UNCHANGED <<orphans, failures, overlapped>> /\ Ends(p) /\ game' = game
          /\ pc[p] = "unlock"
      BY <1>11 DEF main_unlock
    <2>2. game' = game \ {p} /\ p \notin game
      BY <2>1, <1>out
    <2>3. pc' \in [Instance -> Label] /\ game' \subseteq Instance /\ LockTypeOK' /\ LockInv'
      BY <2>1, <2>2, EndsKeeps
    <2> QED BY <2>1, <2>3, <1>0, <1>fold
  <1>12. CASE dies(p)
    <2>1. /\ Ends(p) /\ game' = game \ {p} /\ Fails /\ overlapped' = overlapped
          /\ orphans' = orphans + Cardinality(game \cap {p})
      BY <1>12 DEF dies
    <2>2. p \in game => lock = p
      BY DEF LockInv
    <2>3. pc' \in [Instance -> Label] /\ game' \subseteq Instance /\ LockTypeOK' /\ LockInv'
      BY <2>1, <2>2, EndsKeeps
    <2>4. orphans' \in Nat
      <3>1. Cardinality(game \cap {p}) \in Nat
        BY OrphanCount
      <3>2. orphans' = orphans + Cardinality(game \cap {p})
        BY <2>1
      <3>3. orphans \in Nat
        BY <1>0
      <3> QED BY <3>1, <3>2, <3>3
    <2> QED BY <2>1, <2>3, <2>4, <1>0, <1>fail, <1>fold
  <1> QED
    BY <1>1, <1>2, <1>3, <1>4, <1>5, <1>6, <1>7, <1>8, <1>9, <1>10, <1>11, <1>12
    DEF InstanceStep

\* The lock covers the game server in every run of starts, exits and deaths.
THEOREM DaemonSpecInv == Spec => []DaemonInv
  <1>1. DaemonInv /\ [Next]_vars => DaemonInv'
    <2>1. DaemonInv /\ Next => DaemonInv'
      BY InstanceKeeps DEF Next
    <2>2. DaemonInv /\ UNCHANGED vars => DaemonInv'
      BY DEF vars, DaemonInv, TypeOK, LockInv
    <2> QED BY <2>1, <2>2
  <1> QED BY <1>1, DaemonInit, PTL DEF Spec

\* The lock is always free or with a process that exists, however main() exits
\* and wherever it dies.
THEOREM DaemonTypeCorrect == Spec => []TypeOK
  <1>1. DaemonInv => TypeOK BY DEF DaemonInv
  <1> QED BY <1>1, DaemonSpecInv, PTL

\* At most one daemon runs a game server, for any number of instances.
THEOREM OneServer == Spec => []OneGameServer
  <1>1. DaemonInv => OneGameServer
    BY DEF DaemonInv, TypeOK, LockInv, OneGameServer
  <1> QED BY <1>1, DaemonSpecInv, PTL
-----------------------------------------------------------------------------
(* What is cached is what will be saved                                    *)

\* The end of a sequence is a sequence.
LEMMA TailIs ==
  ASSUME NEW s, IsSeq(s), NEW m \in 1 .. Len(s) + 1
  PROVE  IsSeq(SubSeq(s, m, Len(s)))
  <1>1. PICK S : s \in Seq(S)
    BY ElementsOf, Zenon
  <1> DEFINE u == SubSeq(s, m, Len(s))
  <1>2. u \in Seq(S)
    BY <1>1, SubSeqProperties
  <1> HIDE DEF u
  <1>3. IsSeq(u)
    BY <1>2 DEF IsSeq
  <1> QED BY <1>3 DEF u

\* So is what is left of a file when its first n characters are overwritten.
LEMMA RemainderIs ==
  ASSUME NEW f, IsSeq(f), NEW n, NEW type
  PROVE  IsSeq(Remainder(f, n, type))
  <1> DEFINE Start(i) == Offset(f)[i - 1]
             I == {i \in 1 .. Len(f) : Start(i) >= n} \cup {Len(f) + 1}
             next == Min(I)
             left == (Start(next) - 1) - n
             line == IF left = 0 THEN Line("blank", "", "none", 0)
                                 ELSE Line(type, "torn", "torn", left)
             torn == IF n < Start(next) THEN <<line>> ELSE <<>>
  <1>1. Len(f) \in Nat
    BY DEF IsSeq
  <1>2. I \in SUBSET Nat /\ I # {} /\ I \subseteq 1 .. Len(f) + 1
    BY <1>1
  <1>3. Remainder(f, n, type) = torn \o SubSeq(f, next, Len(f))
    BY DEF Remainder
  <1> HIDE DEF I
  <1>4. next \in 1 .. Len(f) + 1
    BY <1>2, MinIsLeast
  <1> HIDE DEF next, left, line
  <1>5. IsSeq(torn)
    <2>1. <<line>> = [i \in 1 .. 1 |-> line] /\ Len(<<line>>) = 1
      OBVIOUS
    <2>2. IsSeq(<<line>>)
      BY <2>1 DEF IsSeq
    <2> QED BY <2>2, NoneIs
  <1> HIDE DEF torn
  <1>6. IsSeq(SubSeq(f, next, Len(f)))
    BY <1>4, TailIs
  <1> QED BY <1>3, <1>5, <1>6, JoinIs

\* The lists have a section [ssh], and u and w are the user name and password in them.
Cached(s, u, w) ==
  /\ SectionsOK(s) /\ Find(s, "section", "ssh") # 0
  /\ u = UserOf(s) /\ w = PasswdOf(s)

\* cfg_init has found the two keys, so there is a section [ssh].
LEMMA LoadedIsCached ==
  ASSUME NEW f, IsSeq(f), Loadable(f)
  PROVE  LET s == ini_open(f).sections IN Cached(s, UserOf(s), PasswdOf(s))
  <1> DEFINE s == ini_open(f).sections
  <1>1. SectionsOK(s)
    BY ListsAre
  <1>2. ini_get_key_value(s, "ssh", "username") # NoValue
    BY DEF Loadable, Required
  <1> HIDE DEF s
  <1>3. Find(s, "section", "ssh") # 0
    BY <1>2 DEF ini_get_key_value
  <1> QED BY <1>1, <1>3 DEF Cached, s

\* cfg_set_username and cfg_set_passwd change the value and what is cached of it.
LEMMA SetIsCached ==
  ASSUME NEW s, NEW u, NEW w, Cached(s, u, w), NEW v, NEW n
  PROVE  LET new == [value |-> v, more |-> <<>>]
         IN  /\ Cached(ini_set_key_value(s, "ssh", Line("key", "username", v, n)), new, w)
             /\ Cached(ini_set_key_value(s, "ssh", Line("key", "password", v, n)), u, new)
  <1>1. ASSUME NEW k
        PROVE  LET line == Line("key", k, v, n)
                   t == ini_set_key_value(s, "ssh", line)
               IN  /\ SectionsOK(t) /\ Find(t, "section", "ssh") # 0
                   /\ ini_get_key_value(t, "ssh", k) = [value |-> v, more |-> <<>>]
                   /\ \A name : name # k => ini_get_key_value(t, "ssh", name)
                                              = ini_get_key_value(s, "ssh", name)
    <2> DEFINE line == Line("key", k, v, n)
    <2>1. line.type = "key" /\ line.name = k /\ line.value = v
      BY DEF Line
    <2>2. SectionsOK(s) /\ Find(s, "section", "ssh") # 0
      BY DEF Cached
    <2> HIDE DEF line
    <2> DEFINE t == ini_set_key_value(s, "ssh", line)
    <2>3. /\ SectionsOK(t) /\ Find(t, "section", "ssh") # 0
          /\ ini_get_key_value(t, "ssh", line.name) = [value |-> line.value, more |-> <<>>]
          /\ \A name : name # line.name => ini_get_key_value(t, "ssh", name)
                                             = ini_get_key_value(s, "ssh", name)
      <3>1. SectionsOK(s) /\ Find(s, "section", "ssh") # 0 /\ line.type = "key"
        BY <2>1, <2>2
      <3> QED BY <3>1, SetThenGet
    <2> QED BY <2>1, <2>3 DEF line
  <1>2. u = ini_get_key_value(s, "ssh", "username")
        /\ w = ini_get_key_value(s, "ssh", "password")
    BY DEF Cached, UserOf, PasswdOf
  <1>3. "username" # "password"
    OBVIOUS
  <1> QED BY <1>1, <1>2, <1>3 DEF Cached, UserOf, PasswdOf

\* A value for each instance.
PerInstance(f) == f = [p \in Instance |-> f[p]]

\* What makes CacheIsSaved inductive: the file is a sequence of lines, and the
\* lists of every instance that exists are well formed and have a section [ssh].
CacheInv ==
  /\ IsSeq(file)
  /\ PerInstance(sections) /\ PerInstance(username) /\ PerInstance(passwd)
  /\ \A p \in Instance : ~At(p, "off") => Cached(sections[p], username[p], passwd[p])

\* A step that changes one instance has to keep the invariant for this one only.
LEMMA OneChanges ==
  ASSUME CacheInv, TypeOK, NEW p \in Instance, IsSeq(file'),
         NEW l, pc' = [pc EXCEPT ![p] = l],
         NEW s, Replaced(sections', sections, p, s),
         NEW u, Replaced(username', username, p, u),
         NEW w, Replaced(passwd', passwd, p, w),
         l # "off" => Cached(s, u, w)
  PROVE  CacheInv'
  <1>1. ASSUME NEW f, NEW x, NEW g, PerInstance(f), Replaced(g, f, p, x)
        PROVE  PerInstance(g) /\ \A q \in Instance : g[q] = IF q = p THEN x ELSE f[q]
    BY <1>1 DEF PerInstance, Replaced
  <1>2. /\ PerInstance(sections) /\ PerInstance(username) /\ PerInstance(passwd)
        /\ \A q \in Instance : pc[q] # "off" => Cached(sections[q], username[q], passwd[q])
    BY DEF CacheInv
  <1>3. PerInstance(sections') /\ \A q \in Instance : sections'[q] = IF q = p THEN s ELSE sections[q]
    BY <1>1, <1>2
  <1>4. PerInstance(username') /\ \A q \in Instance : username'[q] = IF q = p THEN u ELSE username[q]
    BY <1>1, <1>2
  <1>5. PerInstance(passwd') /\ \A q \in Instance : passwd'[q] = IF q = p THEN w ELSE passwd[q]
    BY <1>1, <1>2
  <1>6. \A q \in Instance : pc'[q] = IF q = p THEN l ELSE pc[q]
    BY DEF TypeOK
  <1>7. \A q \in Instance : pc'[q] # "off" => Cached(sections'[q], username'[q], passwd'[q])
    BY <1>2, <1>3, <1>4, <1>5, <1>6
  <1>8. IsSeq(file') /\ PerInstance(sections') /\ PerInstance(username') /\ PerInstance(passwd')
    BY <1>3, <1>4, <1>5
  <1> QED BY <1>7, <1>8 DEF CacheInv, PerInstance, IsSeq

\* So does a step that moves an instance that exists, and may change the file.
LEMMA OneMoves ==
  ASSUME CacheInv, TypeOK, NEW p \in Instance, ~At(p, "off"), UNCHANGED config,
         IsSeq(file'), NEW l, pc' = [pc EXCEPT ![p] = l]
  PROVE  CacheInv'
  <1>1. UNCHANGED <<sections, username, passwd>>
    BY DEF config
  <1>2. \A q \in Instance : q # p => pc'[q] = pc[q]
    BY DEF TypeOK
  <1>3. \A q \in Instance : pc'[q] # "off" => Cached(sections'[q], username'[q], passwd'[q])
    BY <1>1, <1>2 DEF CacheInv
  <1> QED BY <1>1, <1>3 DEF CacheInv, PerInstance, IsSeq

\* A file that may be there is a sequence of lines.
LEMMA FilesAre ==
  ASSUME NEW f \in Files
  PROVE  IsSeq(f)
  <1>1. PICK S : f \in Seq(S)
    BY DaemonAssumption, Zenon
  <1> QED BY <1>1 DEF IsSeq

\* Nothing is cached yet, and the file is one of Files.
LEMMA CacheInit == Init => CacheInv
  <1> SUFFICES ASSUME Init PROVE CacheInv
    OBVIOUS
  <1>1. /\ file \in Files /\ pc = [p \in Instance |-> "off"]
        /\ sections = [p \in Instance |-> <<>>]
        /\ username = [p \in Instance |-> NoValue]
        /\ passwd = [p \in Instance |-> NoValue]
    BY DEF Init
  <1>2. IsSeq(file)
    BY <1>1, FilesAre
  <1>3. PerInstance(sections) /\ PerInstance(username) /\ PerInstance(passwd)
    BY <1>1 DEF PerInstance
  <1> QED BY <1>1, <1>2, <1>3 DEF CacheInv

\* Every step of an instance keeps the invariant.
LEMMA CacheKeeps ==
  ASSUME CacheInv, TypeOK, NEW p \in Instance, InstanceStep(p)
  PROVE  CacheInv'
  <1>0. IsSeq(file)
    BY DEF CacheInv
  <1>move. ASSUME ~At(p, "off"), UNCHANGED <<file, config>>, NEW l, Goto(p, l)
           PROVE  CacheInv'
    <2>1. IsSeq(file')
      BY <1>0, <1>move
    <2>2. ~At(p, "off") /\ UNCHANGED config /\ pc' = [pc EXCEPT ![p] = l]
      BY <1>move
    <2> QED BY <2>1, <2>2, OneMoves
  <1>ends. ASSUME ~At(p, "off"), UNCHANGED file, Ends(p)
           PROVE  CacheInv'
    <2>1. /\ IsSeq(file') /\ pc' = [pc EXCEPT ![p] = "off"]
          /\ Replaced(sections', sections, p, <<>>)
          /\ Replaced(username', username, p, NoValue)
          /\ Replaced(passwd', passwd, p, NoValue)
      BY <1>0, <1>ends DEF Ends, Replaced
    <2> QED BY <2>1, OneChanges
  <1>1. CASE cfg_init(p)
    <2> DEFINE s == ini_open(file).sections
    <2>1. Cached(s, UserOf(s), PasswdOf(s))
      BY <1>0, <1>1, LoadedIsCached DEF cfg_init
    <2>2. /\ IsSeq(file') /\ pc' = [pc EXCEPT ![p] = "log_init"]
          /\ Replaced(sections', sections, p, s)
          /\ Replaced(username', username, p, UserOf(s))
          /\ Replaced(passwd', passwd, p, PasswdOf(s))
      BY <1>0, <1>1 DEF cfg_init, Replaced
    <2> HIDE DEF s
    <2> QED BY <2>1, <2>2, OneChanges
  <1>2. CASE main_daemon(p)
    BY <1>2, <1>move DEF main_daemon
  <1>3. CASE main_lockf(p)
    BY <1>3, <1>move DEF main_lockf
  <1>4. CASE main_server_start(p)
    BY <1>4, <1>move DEF main_server_start
  <1>5. CASE main_fails(p)
    BY <1>5, <1>move DEF main_fails
  <1>6. ASSUME NEW v \in Value, cfg_set_username(p, v) \/ cfg_set_passwd(p, v)
        PROVE  CacheInv'
    <2> DEFINE s == sections[p]
               value == [value |-> v, more |-> <<>>]
               user == ini_set_key_value(s, "ssh", Line("key", "username", v, KeySize[v]))
               pw == ini_set_key_value(s, "ssh", Line("key", "password", v, KeySize[v]))
    <2>1. ~At(p, "off") /\ UNCHANGED <<file, pc>>
      BY <1>6 DEF cfg_set_username, cfg_set_passwd
    <2>2. Cached(s, username[p], passwd[p])
      BY <2>1 DEF CacheInv
    <2>3. Cached(user, value, passwd[p]) /\ Cached(pw, username[p], value)
      BY <2>2, SetIsCached
    <2>4. /\ IsSeq(file') /\ pc' = [pc EXCEPT ![p] = pc[p]]
          /\ PerInstance(username) /\ PerInstance(passwd)
      BY <1>0, <2>1 DEF CacheInv, TypeOK
    <2>5. CASE cfg_set_username(p, v)
      <3>1. Replaced(sections', sections, p, user) /\ Replaced(username', username, p, value)
            /\ passwd' = passwd
        BY <2>5 DEF cfg_set_username, Replaced
      <3>2. Replaced(passwd', passwd, p, passwd[p])
        BY <2>4, <3>1 DEF Replaced, PerInstance
      <3> HIDE DEF user, pw, value, s
      <3> QED BY <2>3, <2>4, <3>1, <3>2, OneChanges
    <2>6. CASE cfg_set_passwd(p, v)
      <3>1. Replaced(sections', sections, p, pw) /\ Replaced(passwd', passwd, p, value)
            /\ username' = username
        BY <2>6 DEF cfg_set_passwd, Replaced
      <3>2. Replaced(username', username, p, username[p])
        BY <2>4, <3>1 DEF Replaced, PerInstance
      <3> HIDE DEF user, pw, value, s
      <3> QED BY <2>3, <2>4, <3>1, <3>2, OneChanges
    <2> QED BY <1>6, <2>5, <2>6
  <1>7. CASE network_main_returns(p)
    BY <1>7, <1>move DEF network_main_returns
  <1>8. CASE main_server_stop(p)
    BY <1>8, <1>move DEF main_server_stop
  <1>9. CASE cfg_destroy_truncate(p)
    <2>1. ~At(p, "off") /\ UNCHANGED config
          /\ \/ file' = <<>> /\ pc' = [pc EXCEPT ![p] = "write"]
             \/ file' = file /\ pc' = [pc EXCEPT ![p] = "unlock"]
      BY <1>9 DEF cfg_destroy_truncate
    <2>2. IsSeq(file')
      BY <1>0, <2>1, NoneIs
    <2> QED BY <2>1, <2>2, OneMoves
  <1>10. CASE cfg_destroy_write(p)
    <2> DEFINE text == ini_sync(sections[p])
               rest(type) == Remainder(file, Size(text), type)
    <2>1. /\ ~At(p, "off") /\ UNCHANGED config /\ pc' = [pc EXCEPT ![p] = "unlock"]
          /\ (\E type \in {"key", "bad"} : file' = text \o rest(type)) \/ file' = file
      BY <1>10 DEF cfg_destroy_write
    <2>2. SectionsOK(sections[p])
      BY <2>1 DEF CacheInv, Cached
    <2>3. IsSeq(text) /\ \A type : IsSeq(rest(type))
      BY <1>0, <2>2, SyncIs, RemainderIs
    <2> HIDE DEF text, rest
    <2>4. \A type : IsSeq(text \o rest(type))
      BY <2>3, JoinIs
    <2>5. IsSeq(file')
      BY <1>0, <2>1, <2>4
    <2> QED BY <2>1, <2>5, OneMoves
  <1>11. CASE main_unlock(p)
    BY <1>11, <1>ends DEF main_unlock
  <1>12. CASE dies(p)
    BY <1>12, <1>ends DEF dies
  <1> QED
    BY <1>1, <1>2, <1>3, <1>4, <1>5, <1>6, <1>7, <1>8, <1>9, <1>10, <1>11, <1>12
    DEF InstanceStep

\* However the file is read, changed and written, it is a sequence of lines, and the
\* lists in memory are well formed.
THEOREM CacheSpecInv == Spec => []CacheInv
  <1>1. CacheInv /\ TypeOK /\ [Next]_vars => CacheInv'
    <2>1. CacheInv /\ TypeOK /\ Next => CacheInv'
      BY CacheKeeps DEF Next
    <2>2. CacheInv /\ UNCHANGED vars => CacheInv'
      BY DEF vars, config, CacheInv, PerInstance, IsSeq
    <2> QED BY <2>1, <2>2
  <1> QED BY <1>1, CacheInit, DaemonTypeCorrect, PTL DEF Spec

\* What administrators log in with is what cfg_destroy will write, whatever file
\* the daemon has found and however often the values were set.
THEOREM SavedIsCached == Spec => []CacheIsSaved
  <1>1. CacheInv => CacheIsSaved
    BY DEF CacheInv, Cached, CacheIsSaved
  <1> QED BY <1>1, CacheSpecInv, PTL

\* Every key has the value of its last line in the file, after any number of
\* instances have written it, as long as no line exceeds the buffer.
THEOREM LastValueIsRead == Spec => []ReadsLastValue
  <1>1. CacheInv => ReadsLastValue
    <2>1. SUFFICES ASSUME IsSeq(file), FitsBuffer(file), ini_open(file).ok
                   PROVE  \A k \in Required :
                            ini_get_key_value(ini_open(file).sections, k[1], k[2])
                              = LastValue(file, k[1], k[2])
      BY DEF CacheInv, ReadsLastValue
    <2>2. \A name, key : ini_get_key_value(ini_open(file).sections, name, key)
                           = LastValue(file, name, key)
      BY <2>1, OpenReadsLast
    <2> QED BY <2>2
  <1> QED BY <1>1, CacheSpecInv, PTL

-----------------------------------------------------------------------------
(* What is read line by line: ini_open                                     *)

\* What it builds of a file does not depend on the lines behind it.
LEMMA FoldsAgree ==
  ASSUME NEW f, NEW g, Len(g) \in Nat, Len(f) \in Nat, Len(g) <= Len(f),
         \A i \in 1 .. Len(g) : g[i] = f[i],
         NEW r, Folds(r, f), NEW q, Folds(q, g)
  PROVE  q[Len(g)] = r[Len(g)]
  <1> DEFINE P == {i \in 0 .. Len(g) : q[i] = r[i]}
  <1>1. 0 \in P /\ 0 \in Int /\ Len(g) \in Int /\ 0 <= Len(g)
    BY DEF Folds
  <1>2. ASSUME NEW i \in 0 .. Len(g) - 1, i \in P PROVE i + 1 \in P
    <2>1. i + 1 \in 1 .. Len(g) /\ i + 1 \in 1 .. Len(f) /\ (i + 1) - 1 = i /\ q[i] = r[i]
      BY <1>2
    <2>2. q[i + 1] = analyse_line(q[i], Item(g[i + 1]))
      BY <2>1 DEF Folds
    <2>3. r[i + 1] = analyse_line(r[i], Item(f[i + 1]))
      BY <2>1 DEF Folds
    <2> QED BY <2>1, <2>2, <2>3
  <1> HIDE DEF P
  <1>3. 0 .. Len(g) \subseteq P
    BY <1>1, <1>2, IntervalInduction
  <1> QED BY <1>3 DEF P

\* The lines of g are the first ones of f.
Begins(g, f) ==
  /\ IsSeq(g) /\ Len(g) <= Len(f)
  /\ \A i \in 1 .. Len(g) : g[i] = f[i]

\* Every beginning of a file is read on the way.
LEMMA OpenBegins ==
  ASSUME NEW f, IsSeq(f), FitsBuffer(f), NEW r, Folds(r, f), NEW g, Begins(g, f)
  PROVE  FitsBuffer(g) /\ ini_open(g) = r[Len(g)]
  <1>1. /\ Len(f) \in Nat /\ Len(g) \in Nat /\ Len(g) <= Len(f) /\ IsSeq(g)
        /\ \A i \in 1 .. Len(g) : g[i] = f[i]
    BY DEF IsSeq, Begins
  <1>2. FitsBuffer(g)
    BY <1>1 DEF FitsBuffer
  <1>3. PICK q : Folds(q, g) /\ ini_open(g) = q[Len(g)]
    BY <1>1, <1>2, OpenFolds
  <1>4. q[Len(g)] = r[Len(g)]
    BY <1>1, <1>3, FoldsAgree
  <1> QED BY <1>2, <1>3, <1>4

\* One more line is one more call of analyse_line.
LEMMA OpenAppend ==
  ASSUME NEW t, IsSeq(t), NEW line, FitsBuffer(t), line.size < BufLen - 1
  PROVE  /\ IsSeq(Append(t, line)) /\ FitsBuffer(Append(t, line))
         /\ ini_open(Append(t, line)) = analyse_line(ini_open(t), Item(line))
  <1> DEFINE f == Append(t, line)
  <1>1. /\ IsSeq(f) /\ Len(f) = Len(t) + 1 /\ f[Len(t) + 1] = line
        /\ \A i \in 1 .. Len(t) : f[i] = t[i]
    BY AppendIs
  <1>2. Len(t) \in Nat
    BY DEF IsSeq
  <1> HIDE DEF f
  <1>3. FitsBuffer(f)
    <2>1. \A i \in 1 .. Len(f) : i \in 1 .. Len(t) \/ i = Len(t) + 1
      BY <1>1, <1>2
    <2> QED BY <1>1, <2>1 DEF FitsBuffer
  <1>4. PICK r : Folds(r, f) /\ ini_open(f) = r[Len(f)]
    BY <1>1, <1>3, OpenFolds
  <1>5. Begins(t, f)
    BY <1>1, <1>2 DEF Begins
  <1>6. ini_open(t) = r[Len(t)]
    BY <1>1, <1>3, <1>4, <1>5, OpenBegins
  <1>7. Len(t) + 1 \in 1 .. Len(f) /\ (Len(t) + 1) - 1 = Len(t)
    BY <1>1, <1>2
  <1>8. r[Len(t) + 1] = analyse_line(r[Len(t)], Item(f[Len(t) + 1]))
    BY <1>4, <1>7 DEF Folds
  <1> QED BY <1>1, <1>3, <1>4, <1>6, <1>8 DEF f

\* The empty file has no lists.
LEMMA OpenEmpty == FitsBuffer(<<>>) /\ ini_open(<<>>) = ListStart
  <1>1. FitsBuffer(<<>>)
    BY NoneIs DEF FitsBuffer
  <1>2. PICK r : Folds(r, <<>>) /\ ini_open(<<>>) = r[Len(<<>>)]
    BY <1>1, NoneIs, OpenFolds
  <1> QED BY <1>1, <1>2, NoneIs DEF Folds

-----------------------------------------------------------------------------
(* The lists that ini_open builds when all lines fit                       *)

\* A line that fits the buffer.  A key has a value, which may be empty.
Fits(line) ==
  /\ line.size \in Nat /\ line.size < BufLen - 1
  /\ line.type = "key" => line.value # "none"

\* Two items of this type have different names.
Unique(s, type) ==
  \A i, j \in 1 .. Len(s) :
    i # j /\ s[i].line.type = type /\ s[j].line.type = type
    => s[i].line.name # s[j].line.name

\* A key, or a line between keys.
KeyItem(x) ==
  x = Item(x.line) /\ Fits(x.line) /\ x.line.type \in Filler \cup {"key"}

CanonKeys(k) ==
  /\ IsSeq(k)
  /\ \A j \in 1 .. Len(k) : KeyItem(k[j])
  /\ Unique(k, "key")

\* A section and its keys, or a line before the first section.
CanonSection(x) ==
  /\ x = [line |-> x.line, more |-> <<>>, keys |-> x.keys]
  /\ Fits(x.line) /\ CanonKeys(x.keys)
  /\ \/ x.line.type = "section"
     \/ x.line.type \in Filler /\ x.keys = <<>>

Canon(s) ==
  /\ IsSeq(s)
  /\ \A i \in 1 .. Len(s) : CanonSection(s[i])
  /\ Unique(s, "section")
  /\ \A i, j \in 1 .. Len(s) :
       i < j /\ s[i].line.type = "section" => s[j].line.type = "section"

\* They are well formed.
LEMMA CanonIsOK ==
  /\ \A k : CanonKeys(k) => ItemsOK(k)
  /\ \A s : Canon(s) => SectionsOK(s)
  <1>1. ASSUME NEW k, CanonKeys(k) PROVE ItemsOK(k)
    <2>1. IsSeq(k) /\ \A j \in 1 .. Len(k) : k[j] = Item(k[j].line)
      BY <1>1 DEF CanonKeys, KeyItem
    <2>2. \A j \in 1 .. Len(k) : ItemOK(k[j])
      BY <2>1, NoneIs, ItemIs DEF Item
    <2> QED BY <2>1, <2>2 DEF ItemsOK
  <1>2. ASSUME NEW s, Canon(s) PROVE SectionsOK(s)
    <2>1. ASSUME NEW i \in 1 .. Len(s) PROVE SectionOK(s[i])
      <3> DEFINE x == s[i]
      <3>1. x = [line |-> x.line, more |-> <<>>, keys |-> x.keys] /\ CanonKeys(x.keys)
        BY <1>2 DEF Canon, CanonSection
      <3>2. ItemsOK(x.keys)
        BY <1>1, <3>1
      <3>3. SectionOK([line |-> x.line, more |-> <<>>, keys |-> x.keys])
        BY <3>2, NoneIs, SectionIs
      <3> QED BY <3>1, <3>3
    <2> QED BY <1>2, <2>1 DEF Canon, SectionsOK
  <1> QED BY <1>1, <1>2

\* An item with a new name may be appended.
LEMMA UniqueAppended ==
  ASSUME NEW s, IsSeq(s), NEW type, Unique(s, type), NEW x,
         x.line.type = type => Find(s, type, x.line.name) = 0
  PROVE  Unique(Append(s, x), type)
  <1> DEFINE t == Append(s, x)
  <1>1. /\ Len(t) = Len(s) + 1 /\ t[Len(s) + 1] = x
        /\ \A i \in 1 .. Len(s) : t[i] = s[i]
    BY AppendIs
  <1>2. Len(s) \in Nat /\ \A i \in 1 .. Len(t) : i \in 1 .. Len(s) \/ i = Len(s) + 1
    BY <1>1 DEF IsSeq
  <1>3. ASSUME NEW i \in 1 .. Len(s), x.line.type = type, s[i].line.type = type
        PROVE  s[i].line.name # x.line.name
    <2>1. ~Matches(s[i], type, x.line.name)
      BY <1>3, FindIs
    <2> QED BY <1>3, <2>1 DEF Matches
  <1> HIDE DEF t
  <1>4. ASSUME NEW i \in 1 .. Len(t), NEW j \in 1 .. Len(t), i # j,
               t[i].line.type = type, t[j].line.type = type
        PROVE  t[i].line.name # t[j].line.name
    <2>1. CASE i \in 1 .. Len(s) /\ j \in 1 .. Len(s)
      BY <1>1, <1>4, <2>1 DEF Unique
    <2>2. CASE i \in 1 .. Len(s) /\ j = Len(s) + 1
      BY <1>1, <1>3, <1>4, <2>2
    <2>3. CASE j \in 1 .. Len(s) /\ i = Len(s) + 1
      BY <1>1, <1>3, <1>4, <2>3
    <2> QED BY <1>2, <1>4, <2>1, <2>2, <2>3
  <1>5. Unique(t, type)
    BY <1>4 DEF Unique
  <1> QED BY <1>5 DEF t

\* So may a comment or a key with a new name.
LEMMA KeyAppended ==
  ASSUME NEW k, CanonKeys(k), NEW x, KeyItem(x),
         x.line.type = "key" => Find(k, "key", x.line.name) = 0
  PROVE  CanonKeys(Append(k, x))
  <1> DEFINE t == Append(k, x)
  <1>1. IsSeq(k) /\ Unique(k, "key") /\ Len(k) \in Nat
        /\ \A j \in 1 .. Len(k) : KeyItem(k[j])
    BY DEF CanonKeys, IsSeq
  <1>2. /\ IsSeq(t) /\ Len(t) = Len(k) + 1 /\ t[Len(k) + 1] = x
        /\ \A j \in 1 .. Len(k) : t[j] = k[j]
    BY <1>1, AppendIs
  <1>3. Unique(t, "key")
    BY <1>1, UniqueAppended
  <1> HIDE DEF t
  <1>4. \A j \in 1 .. Len(t) : j \in 1 .. Len(k) \/ j = Len(k) + 1
    BY <1>1, <1>2
  <1>5. \A j \in 1 .. Len(t) : KeyItem(t[j])
    BY <1>1, <1>2, <1>4
  <1>6. CanonKeys(t)
    BY <1>2, <1>3, <1>5 DEF CanonKeys
  <1> QED BY <1>6 DEF t

\* get_key keeps the names different.
LEMMA KeySetCanon ==
  ASSUME NEW k, CanonKeys(k), NEW x, KeyItem(x), x.line.type = "key"
  PROVE  CanonKeys(get_key(k, x))
  <1> DEFINE j == Find(k, "key", x.line.name)
             t == get_key(k, x)
  <1>1. IsSeq(k) /\ Unique(k, "key") /\ Len(k) \in Nat
        /\ \A i \in 1 .. Len(k) : KeyItem(k[i])
    BY DEF CanonKeys, IsSeq
  <1>2. CASE j = 0
    <2>1. t = Append(k, x)
      BY <1>2 DEF get_key
    <2> QED BY <1>2, <2>1, KeyAppended
  <1>3. CASE j # 0
    <2>1. j \in 1 .. Len(k) /\ Matches(k[j], "key", x.line.name)
      BY <1>1, <1>3, FindIs
    <2>2. Replaced(t, k, j, x)
      BY <1>3 DEF get_key, Replaced
    <2> HIDE DEF t, j
    <2>3. /\ IsSeq(t) /\ Len(t) = Len(k)
          /\ \A i \in 1 .. Len(k) : t[i] = IF i = j THEN x ELSE k[i]
      BY <1>1, <2>1, <2>2, ReplaceIs
    <2>4. \A i \in 1 .. Len(k) : /\ t[i].line.type = k[i].line.type
                                 /\ t[i].line.type = "key" => t[i].line.name = k[i].line.name
      BY <2>1, <2>3 DEF Matches
    <2>5. Unique(t, "key")
      BY <1>1, <2>3, <2>4 DEF Unique
    <2>6. CanonKeys(t)
      BY <1>1, <2>3, <2>5 DEF CanonKeys
    <2> QED BY <2>6 DEF t
  <1> QED BY <1>2, <1>3

\* A new section, or a line before the first one.
LEMMA SectionAppended ==
  ASSUME NEW s, Canon(s), NEW line, Fits(line),
         \/ line.type = "section" /\ Find(s, "section", line.name) = 0
         \/ line.type \in Filler /\ \A i \in 1 .. Len(s) : s[i].line.type # "section"
  PROVE  Canon(Append(s, NewSection(line)))
  <1> DEFINE x == NewSection(line)
             t == Append(s, x)
  <1>1. /\ IsSeq(s) /\ Unique(s, "section") /\ Len(s) \in Nat
        /\ \A i \in 1 .. Len(s) : CanonSection(s[i])
    BY DEF Canon, IsSeq
  <1>2. x.line = line /\ x.keys = <<>> /\ x = [line |-> x.line, more |-> <<>>, keys |-> x.keys]
    BY DEF NewSection
  <1>3. CanonKeys(<<>>)
    BY NoneIs DEF CanonKeys, Unique
  <1> HIDE DEF x
  <1>4. CanonSection(x)
    BY <1>2, <1>3 DEF CanonSection
  <1>5. /\ IsSeq(t) /\ Len(t) = Len(s) + 1 /\ t[Len(s) + 1] = x
        /\ \A i \in 1 .. Len(s) : t[i] = s[i]
    BY <1>1, AppendIs
  <1>6. Unique(t, "section")
    <2>1. x.line.type = "section" => Find(s, "section", x.line.name) = 0
      BY <1>2 DEF Filler
    <2> QED BY <1>1, <2>1, UniqueAppended
  <1> HIDE DEF t
  <1>7. \A i \in 1 .. Len(t) : i \in 1 .. Len(s) \/ i = Len(s) + 1
    BY <1>1, <1>5
  <1>8. \A i \in 1 .. Len(t) : CanonSection(t[i])
    BY <1>1, <1>4, <1>5, <1>7
  <1>9. ASSUME NEW i \in 1 .. Len(t), NEW j \in 1 .. Len(t), i < j,
               t[i].line.type = "section"
        PROVE  t[j].line.type = "section"
    <2>1. i \in 1 .. Len(s) /\ s[i].line.type = "section"
      BY <1>1, <1>5, <1>7, <1>9
    <2>2. CASE j \in 1 .. Len(s)
      BY <1>5, <1>9, <2>1, <2>2 DEF Canon
    <2>3. CASE j = Len(s) + 1
      BY <1>2, <1>5, <2>1, <2>3
    <2> QED BY <1>7, <2>2, <2>3
  <1>10. Canon(t)
    BY <1>5, <1>6, <1>8, <1>9 DEF Canon
  <1> QED BY <1>10 DEF t, x

\* The keys of a section change.
LEMMA KeysChanged ==
  ASSUME NEW s, Canon(s), NEW i \in 1 .. Len(s), s[i].line.type = "section",
         NEW keys, CanonKeys(keys),
         NEW new, Replaced(new, s, i, [s[i] EXCEPT !.keys = keys])
  PROVE  /\ Canon(new) /\ Len(new) = Len(s)
         /\ \A j \in 1 .. Len(s) : new[j].line = s[j].line
  <1> DEFINE x == [s[i] EXCEPT !.keys = keys]
  <1>1. /\ IsSeq(s) /\ Unique(s, "section")
        /\ \A j \in 1 .. Len(s) : CanonSection(s[j])
    BY DEF Canon
  <1>2. /\ s[i] = [line |-> s[i].line, more |-> <<>>, keys |-> s[i].keys]
        /\ Fits(s[i].line)
    BY <1>1 DEF CanonSection
  <1>3. x = [line |-> s[i].line, more |-> <<>>, keys |-> keys]
    BY <1>2
  <1>4. Replaced(new, s, i, x)
    OBVIOUS
  <1> HIDE DEF x
  <1>5. x.line = s[i].line /\ x.keys = keys
    BY <1>3
  <1>6. CanonSection(x)
    BY <1>2, <1>3, <1>5 DEF CanonSection
  <1>7. /\ IsSeq(new) /\ Len(new) = Len(s)
        /\ \A j \in 1 .. Len(s) : new[j] = IF j = i THEN x ELSE s[j]
    BY <1>1, <1>4, ReplaceIs
  <1>8. \A j \in 1 .. Len(s) : new[j].line = s[j].line
    BY <1>5, <1>7
  <1>9. Unique(new, "section")
    BY <1>1, <1>7, <1>8 DEF Unique
  <1>10. \A j \in 1 .. Len(new) : CanonSection(new[j])
    BY <1>1, <1>6, <1>7
  <1>11. \A m, j \in 1 .. Len(new) :
           m < j /\ new[m].line.type = "section" => new[j].line.type = "section"
    BY <1>7, <1>8 DEF Canon
  <1> QED BY <1>7, <1>8, <1>9, <1>10, <1>11 DEF Canon

\* The lists, and the section that is being read: none before the first one.
CanonAt(a) ==
  /\ Fields(a) /\ Canon(a.sections)
  /\ a.cur # 0 => a.cur \in 1 .. Len(a.sections) /\ a.sections[a.cur].line.type = "section"
  /\ a.cur = 0 => \A i \in 1 .. Len(a.sections) : a.sections[i].line.type # "section"

\* One line keeps them so.
LEMMA LineCanon ==
  ASSUME NEW a, CanonAt(a), NEW line, Fits(line),
         NEW b, Fields(b), LineDone(a, b, line)
  PROVE  CanonAt(b)
  <1> DEFINE s == a.sections
             c == a.cur
             x == NewSection(line)
  <1>1. /\ Canon(s) /\ IsSeq(s) /\ Len(s) \in Nat
        /\ c # 0 => c \in 1 .. Len(s) /\ s[c].line.type = "section"
        /\ c = 0 => \A i \in 1 .. Len(s) : s[i].line.type # "section"
    BY DEF CanonAt, Canon, IsSeq
  <1>2. x.line = line
    BY DEF NewSection
  <1>3. c # 0 => CanonKeys(s[c].keys)
    BY <1>1 DEF Canon, CanonSection
  <1>4. /\ Len(Append(s, x)) = Len(s) + 1 /\ Append(s, x)[Len(s) + 1] = x
        /\ \A i \in 1 .. Len(s) : Append(s, x)[i] = s[i]
        /\ \A i \in 1 .. Len(Append(s, x)) : i \in 1 .. Len(s) \/ i = Len(s) + 1
    BY <1>1, AppendIs
  <1>k. Item(line).line = line /\ Item(line) = Item(Item(line).line)
    BY DEF Item
  <1> HIDE DEF s, c, x
  <1>change. ASSUME NEW keys, CanonKeys(keys), c # 0, b.cur = c,
                    Replaced(b.sections, s, c, [s[c] EXCEPT !.keys = keys])
             PROVE  CanonAt(b)
    <2> DEFINE new == b.sections
    <2>1. Replaced(new, s, c, [s[c] EXCEPT !.keys = keys])
      BY <1>change
    <2>2. c \in 1 .. Len(s) /\ s[c].line.type = "section"
      BY <1>1, <1>change
    <2> HIDE DEF new
    <2>3. Canon(new) /\ Len(new) = Len(s) /\ \A j \in 1 .. Len(s) : new[j].line = s[j].line
      BY <1>1, <1>change, <2>1, <2>2, KeysChanged
    <2> QED BY <1>change, <2>2, <2>3 DEF CanonAt, new
  <1>5. CASE b.sections = s /\ b.cur = c
    BY <1>1, <1>5 DEF CanonAt
  <1>6. CASE line.type \in Filler /\ c = 0 /\ b.cur = 0 /\ b.sections = Append(s, x)
    <2>1. Canon(Append(s, x)) /\ line.type # "section"
      BY <1>1, <1>6, SectionAppended DEF x, Filler
    <2>2. \A i \in 1 .. Len(b.sections) : b.sections[i].line.type # "section"
      BY <1>1, <1>2, <1>4, <1>6, <2>1
    <2> QED BY <1>6, <2>1, <2>2 DEF CanonAt
  <1>7. CASE /\ line.type \in Filler /\ c # 0 /\ b.cur = c
             /\ \E item : /\ item = Item(line)
                          /\ Replaced(b.sections, s, c,
                               [s[c] EXCEPT !.keys = Append(s[c].keys, item)])
    <2>1. PICK item : /\ item = Item(line)
                      /\ Replaced(b.sections, s, c,
                           [s[c] EXCEPT !.keys = Append(s[c].keys, item)])
      BY <1>7, Zenon
    <2> DEFINE keys == Append(s[c].keys, item)
    <2>2. KeyItem(item) /\ item.line.type # "key"
      BY <1>7, <1>k, <2>1 DEF KeyItem, Filler
    <2>3. CanonKeys(keys)
      BY <1>3, <1>7, <2>2, KeyAppended
    <2>4. Replaced(b.sections, s, c, [s[c] EXCEPT !.keys = keys])
      BY <2>1
    <2> HIDE DEF keys
    <2> QED BY <1>7, <1>change, <2>3, <2>4
  <1>8. CASE /\ line.type = "section" /\ b.cur # 0 /\ b.sections = s
             /\ b.cur = Find(s, "section", line.name)
    <2>1. b.cur \in 1 .. Len(s) /\ Matches(s[b.cur], "section", line.name)
      BY <1>1, <1>8, FindIs
    <2> QED BY <1>1, <1>8, <2>1 DEF CanonAt, Matches
  <1>9. CASE /\ line.type = "section" /\ Find(s, "section", line.name) = 0
             /\ b.cur = Len(s) + 1 /\ b.sections = Append(s, x)
    <2>1. Canon(Append(s, x))
      BY <1>1, <1>9, SectionAppended DEF x
    <2>2. b.cur \in 1 .. Len(b.sections) /\ b.sections[b.cur] = x /\ b.cur # 0
      BY <1>1, <1>4, <1>9
    <2> QED BY <1>2, <1>9, <2>1, <2>2 DEF CanonAt
  <1>10. CASE /\ line.type = "key" /\ c # 0 /\ b.cur = c
              /\ Replaced(b.sections, s, c,
                   [s[c] EXCEPT !.keys = get_key(s[c].keys, Item(line))])
    <2> DEFINE keys == get_key(s[c].keys, Item(line))
    <2>1. KeyItem(Item(line)) /\ Item(line).line.type = "key"
      BY <1>10, <1>k DEF KeyItem
    <2>2. CanonKeys(keys)
      BY <1>3, <1>10, <2>1, KeySetCanon
    <2>3. Replaced(b.sections, s, c, [s[c] EXCEPT !.keys = keys])
      BY <1>10
    <2> HIDE DEF keys
    <2> QED BY <1>10, <1>change, <2>2, <2>3
  <1> QED BY <1>5, <1>6, <1>7, <1>8, <1>9, <1>10 DEF LineDone, s, c, x

\* All lines of a file fit.
AllFit(f) == IsSeq(f) /\ \A i \in 1 .. Len(f) : Fits(f[i])

\* The lists of such a file are in the form in which they are written, whether
\* or not ini_open refuses the file.
LEMMA OpenCanon ==
  ASSUME NEW f, AllFit(f)
  PROVE  CanonAt(ini_open(f)) /\ FitsBuffer(f)
  <1>1. IsSeq(f) /\ Len(f) \in Nat /\ \A i \in 1 .. Len(f) : Fits(f[i])
    BY DEF AllFit, IsSeq
  <1>2. FitsBuffer(f)
    BY <1>1 DEF FitsBuffer, Fits
  <1>3. PICK r : Folds(r, f) /\ ini_open(f) = r[Len(f)]
    BY <1>1, <1>2, OpenFolds
  <1> DEFINE P == {i \in 0 .. Len(f) : CanonAt(r[i])}
  <1>4. 0 \in P /\ 0 \in Int /\ Len(f) \in Int /\ 0 <= Len(f)
    <2>1. CanonAt(ListStart)
      <3>1. Fields(ListStart) /\ ListStart.sections = <<>> /\ ListStart.cur = 0
        BY DEF Fields, ListStart
      <3>2. Canon(<<>>)
        BY NoneIs DEF Canon, Unique
      <3> QED BY <3>1, <3>2, NoneIs DEF CanonAt
    <2>2. r[0] = ListStart
      BY <1>3 DEF Folds
    <2> QED BY <1>1, <2>1, <2>2
  <1>5. ASSUME NEW i \in 0 .. Len(f) - 1, i \in P PROVE i + 1 \in P
    <2> DEFINE a == r[i]
               b == analyse_line(a, Item(f[i + 1]))
    <2>1. i + 1 \in 1 .. Len(f) /\ i + 1 \in 0 .. Len(f) /\ (i + 1) - 1 = i /\ CanonAt(a)
      BY <1>1, <1>5
    <2>2. r[i + 1] = b
      BY <1>3, <2>1 DEF Folds
    <2>3. Fields(a) /\ Fits(f[i + 1])
      BY <1>1, <2>1 DEF CanonAt
    <2>4. Fields(b) /\ LineDone(a, b, f[i + 1])
      BY <2>3, LineIsDone
    <2> HIDE DEF a, b
    <2>5. CanonAt(b)
      BY <2>1, <2>3, <2>4, LineCanon
    <2> QED BY <2>1, <2>2, <2>5
  <1> HIDE DEF P
  <1>6. 0 .. Len(f) \subseteq P
    BY <1>4, <1>5, IntervalInduction
  <1>7. CanonAt(r[Len(f)])
    BY <1>1, <1>6 DEF P
  <1> QED BY <1>2, <1>3, <1>7

-----------------------------------------------------------------------------
(* Writing and reading again                                               *)

\* FlattenSeq goes on by one sequence at a time.
LEMMA FlattenFrom ==
  ASSUME NEW n \in Nat, NEW q, q = [i \in 1 .. n |-> q[i]], \A i \in 1 .. n : IsSeq(q[i])
  PROVE  \E f : /\ f[0] = <<>> /\ \A i \in 0 .. n : IsSeq(f[i])
                /\ \A i \in 1 .. n : f[i] = f[i - 1] \o q[i]
                /\ FlattenSeq(q) = f[n]
  <1>1. CASE n = 0
    <2>1. Len(q) = 0
      BY <1>1, MakeSeq
    <2>2. FlattenSeq(q) = <<>>
      BY <2>1 DEF FlattenSeq
    <2> DEFINE f == [i \in 0 .. 0 |-> <<>>]
    <2>3. f[0] = <<>> /\ \A i \in 0 .. 0 : IsSeq(f[i])
      BY NoneIs
    <2>4. \A i \in 1 .. n : f[i] = f[i - 1] \o q[i]
      BY <1>1
    <2>5. f[n] = <<>> /\ 0 .. n = 0 .. 0
      BY <1>1
    <2> HIDE DEF f
    <2>6. /\ f[0] = <<>> /\ \A i \in 0 .. n : IsSeq(f[i])
          /\ \A i \in 1 .. n : f[i] = f[i - 1] \o q[i]
          /\ FlattenSeq(q) = f[n]
      BY <2>2, <2>3, <2>4, <2>5
    <2> QED BY <2>6, Zenon
  <1>2. CASE n # 0
    <2> DEFINE X == UNION {{q[i][j] : j \in 1 .. Len(q[i])} : i \in 1 .. n}
    <2>1. ASSUME NEW i \in 1 .. n PROVE q[i] \in Seq(X)
      <3> DEFINE s == q[i]
      <3>1. Len(s) \in Nat /\ s = [j \in 1 .. Len(s) |-> s[j]]
        BY DEF IsSeq
      <3>2. \A j \in 1 .. Len(s) : s[j] \in X
        OBVIOUS
      <3> HIDE DEF s, X
      <3>3. s \in [1 .. Len(s) -> X]
        BY <3>1, <3>2
      <3>4. s \in Seq(X)
        BY <3>1, <3>3
      <3> QED BY <3>4 DEF s
    <2> HIDE DEF X
    <2>2. q \in [1 .. n -> Seq(X)] /\ n \in Nat \ {0}
      BY <1>2, <2>1
    <2>3. PICK g \in [1 .. n -> Seq(X)] : Concatenates(g, n, q) /\ FlattenSeq(q) = g[n]
      BY <2>2, FlattenSteps
    <2> DEFINE f == [i \in 0 .. n |-> IF i = 0 THEN <<>> ELSE g[i]]
    <2>4. f[0] = <<>> /\ f[n] = g[n] /\ \A i \in 1 .. n : f[i] = g[i]
      BY <1>2
    <2> HIDE DEF f
    <2>5. ASSUME NEW i \in 0 .. n PROVE f[i] \in Seq(X)
      <3>1. CASE i = 0
        <4>1. <<>> \in Seq(X)
          BY EmptySeq
        <4> QED BY <2>4, <3>1, <4>1
      <3>2. CASE i # 0
        <4>1. i \in 1 .. n
          BY <3>2
        <4>2. g[i] \in Seq(X)
          BY <4>1
        <4> QED BY <2>4, <4>1, <4>2
      <3> QED BY <3>1, <3>2
    <2>6. ASSUME NEW i \in 0 .. n PROVE IsSeq(f[i])
      <3> DEFINE u == f[i]
      <3>1. u \in Seq(X)
        BY <2>5
      <3> HIDE DEF u
      <3>2. IsSeq(u)
        BY <3>1 DEF IsSeq
      <3> QED BY <3>2 DEF u
    <2>7. ASSUME NEW i \in 1 .. n PROVE f[i] = f[i - 1] \o q[i]
      <3>1. CASE i = 1
        <4>1. 1 \in 1 .. n /\ i - 1 = 0
          BY <3>1
        <4>2. g[1] = q[1] /\ q[1] \in Seq(X) /\ f[1] = g[1]
          BY <2>1, <2>3, <2>4, <4>1 DEF Concatenates
        <4>3. <<>> \o q[1] = q[1]
          BY <4>2, ConcatEmptySeq
        <4> QED BY <2>4, <3>1, <4>1, <4>2, <4>3
      <3>2. CASE i # 1
        <4>1. i - 1 \in 1 .. n - 1 /\ i - 1 \in 1 .. n /\ (i - 1) + 1 = i
          BY <3>2
        <4>2. g[(i - 1) + 1] = g[i - 1] \o q[(i - 1) + 1]
          BY <2>3, <4>1 DEF Concatenates
        <4> QED BY <2>4, <4>1, <4>2
      <3> QED BY <3>1, <3>2
    <2> QED BY <2>3, <2>4, <2>6, <2>7
  <1> QED BY <1>1, <1>2

\* A sequence of one element.
LEMMA OneIs == \A x : IsSeq(<<x>>)
  <1> SUFFICES ASSUME NEW x PROVE IsSeq(<<x>>)
    OBVIOUS
  <1> DEFINE w == <<x>>
  <1>1. Len(w) = 1 /\ w = [m \in 1 .. 1 |-> w[m]]
    OBVIOUS
  <1> HIDE DEF w
  <1>2. IsSeq(w)
    BY <1>1 DEF IsSeq
  <1> QED BY <1>2 DEF w

\* Appending is concatenating, and may be done first or last.
LEMMA AppendJoined ==
  ASSUME NEW s, IsSeq(s), NEW t, IsSeq(t), NEW x
  PROVE  /\ s \o <<x>> = Append(s, x) /\ s \o <<>> = s
         /\ s \o Append(t, x) = Append(s \o t, x)
  <1>1. PICK S : s \in Seq(S)
    BY ElementsOf, Zenon
  <1>2. PICK T : t \in Seq(T)
    BY ElementsOf, Zenon
  <1> DEFINE U == S \cup T \cup {x}
  <1>3. s \in Seq(U) /\ t \in Seq(U) /\ x \in U
    BY <1>1, <1>2, SeqMonotonic
  <1> HIDE DEF U
  <1>4. <<x>> \in Seq(U) /\ s \o t \in Seq(U)
    BY <1>3
  <1>5. /\ Append(s, x) = s \o <<x>> /\ Append(t, x) = t \o <<x>>
        /\ Append(s \o t, x) = (s \o t) \o <<x>>
    BY <1>3, <1>4, AppendIsConcat
  <1>6. (s \o t) \o <<x>> = s \o (t \o <<x>>)
    BY <1>3, <1>4, ConcatAssociative
  <1>7. s \o <<>> = s
    BY <1>3, ConcatEmptySeq
  <1> QED BY <1>5, <1>6, <1>7

\* A concatenation of three may be read from either side.
LEMMA JoinAssociates ==
  ASSUME NEW s, IsSeq(s), NEW t, IsSeq(t), NEW u, IsSeq(u)
  PROVE  (s \o t) \o u = s \o (t \o u)
  <1>1. PICK S : s \in Seq(S)
    BY ElementsOf, Zenon
  <1>2. PICK T : t \in Seq(T)
    BY ElementsOf, Zenon
  <1>3. PICK V : u \in Seq(V)
    BY ElementsOf, Zenon
  <1> DEFINE U == S \cup T \cup V
  <1>4. s \in Seq(U) /\ t \in Seq(U) /\ u \in Seq(U)
    BY <1>1, <1>2, <1>3, SeqMonotonic
  <1> HIDE DEF U
  <1> QED BY <1>4, ConcatAssociative

\* The lists are the first i entries of s, and are being read behind them.
Holds(a, s, i) ==
  /\ Fields(a) /\ a.ok
  /\ IsSeq(a.sections) /\ Len(a.sections) = i
  /\ \A m \in 1 .. i : a.sections[m] = s[m]
  /\ a.cur = IF i = 0 THEN 0 ELSE IF s[i].line.type = "section" THEN i ELSE 0

\* x is y with its first j keys.
FirstKeys(x, y, j) ==
  /\ x = [line |-> y.line, more |-> <<>>, keys |-> x.keys]
  /\ IsSeq(x.keys) /\ Len(x.keys) = j
  /\ \A m \in 1 .. j : x.keys[m] = y.keys[m]

\* The lists are the first i entries of s, the last one with its first j keys.
HoldsKeys(a, s, i, j) ==
  /\ Fields(a) /\ a.ok
  /\ IsSeq(a.sections) /\ Len(a.sections) = i
  /\ \A m \in 1 .. i - 1 : a.sections[m] = s[m]
  /\ FirstKeys(a.sections[i], s[i], j)
  /\ a.cur = IF s[i].line.type = "section" THEN i ELSE 0

\* The first line of an entry: the names of sections differ, so it is appended.
LEMMA EntryBegins ==
  ASSUME NEW s, Canon(s), NEW i \in 1 .. Len(s), NEW a, Holds(a, s, i - 1)
  PROVE  HoldsKeys(analyse_line(a, Item(s[i].line)), s, i, 0)
  <1> DEFINE line == s[i].line
             b == analyse_line(a, Item(line))
             x == NewSection(line)
             u == a.sections
  <1>1. Len(s) \in Nat /\ i \in Nat /\ i - 1 \in Nat /\ CanonSection(s[i])
    BY DEF Canon, IsSeq
  <1>2. /\ Fields(a) /\ a.ok /\ IsSeq(u) /\ Len(u) = i - 1
        /\ \A m \in 1 .. i - 1 : u[m] = s[m]
        /\ a.cur = IF i - 1 = 0 THEN 0 ELSE IF s[i - 1].line.type = "section" THEN i - 1 ELSE 0
    BY DEF Holds
  <1>3. Fields(b) /\ LineDone(a, b, line)
    BY <1>2, LineIsDone
  <1>4. line.type \in Filler \cup {"section"}
    BY <1>1 DEF CanonSection
  <1>5. line.type \in Filler => a.cur = 0
    <2>1. ASSUME a.cur # 0 PROVE line.type = "section"
      <3>1. i - 1 \in 1 .. Len(s) /\ i - 1 < i /\ s[i - 1].line.type = "section"
        BY <1>1, <1>2, <2>1
      <3> QED BY <3>1 DEF Canon
    <2> QED BY <2>1 DEF Filler
  <1>6. line.type = "section" => Find(u, "section", line.name) = 0
    <2>1. ASSUME line.type = "section", NEW m \in 1 .. Len(u)
          PROVE  ~Matches(u[m], "section", line.name)
      <3>1. m \in 1 .. Len(s) /\ m # i /\ u[m] = s[m]
        BY <1>1, <1>2
      <3>2. s[m].line.type = "section" => s[m].line.name # line.name
        BY <2>1, <3>1 DEF Canon, Unique
      <3> QED BY <3>1, <3>2 DEF Matches
    <2> QED BY <1>2, <2>1, FoundNone
  <1> HIDE DEF b, line, u
  <1>7. b.ok = a.ok /\ b.sections = Append(u, x)
        /\ b.cur = IF line.type = "section" THEN i ELSE 0
    <2>1. CASE line.type \in Filler
      <3>1. line.type \notin {"section", "key"} /\ a.cur = 0
        BY <1>5, <2>1 DEF Filler
      <3>2. b.ok = a.ok /\ b.cur = a.cur /\ b.sections = Append(u, x)
        BY <1>3, <2>1, <3>1, Zenon DEF LineDone, u
      <3> QED BY <3>1, <3>2
    <2>2. CASE line.type = "section"
      <3>1. line.type \notin Filler /\ Find(u, "section", line.name) = 0 /\ (i - 1) + 1 = i
        BY <1>1, <1>6, <2>2 DEF Filler
      <3>2. /\ b.ok = a.ok /\ b.sections = Append(u, x)
            /\ b.cur = Len(u) + 1
        BY <1>3, <2>2, <3>1, Zenon DEF LineDone, u
      <3> QED BY <1>2, <2>2, <3>1, <3>2
    <2> QED BY <1>4, <2>1, <2>2
  <1>8. /\ IsSeq(b.sections) /\ Len(b.sections) = i /\ b.sections[i] = x
        /\ \A m \in 1 .. i - 1 : b.sections[m] = s[m]
    <2>1. (i - 1) + 1 = i
      BY <1>1
    <2> HIDE DEF x
    <2> DEFINE t == Append(u, x)
    <2>2. /\ IsSeq(t) /\ Len(t) = Len(u) + 1 /\ t[Len(u) + 1] = x
          /\ \A m \in 1 .. Len(u) : t[m] = u[m]
      BY <1>2, AppendIs
    <2> HIDE DEF t
    <2>3. b.sections = t
      BY <1>7 DEF t
    <2>4. Len(u) = i - 1 /\ \A m \in 1 .. i - 1 : u[m] = s[m]
      BY <1>2
    <2> QED BY ONLY <2>1, <2>2, <2>3, <2>4
  <1>9. FirstKeys(x, s[i], 0)
    <2>1. x.keys = <<>> /\ x = [line |-> line, more |-> <<>>, keys |-> x.keys]
      BY DEF NewSection
    <2> HIDE DEF x
    <2> QED BY <2>1, NoneIs DEF FirstKeys, line
  <1> QED BY <1>2, <1>3, <1>7, <1>8, <1>9 DEF HoldsKeys, b, line

\* The line of a key: the names of keys differ, so it is appended, too.
LEMMA EntryGoesOn ==
  ASSUME NEW s, Canon(s), NEW i \in 1 .. Len(s), NEW j \in 0 .. Len(s[i].keys) - 1,
         NEW a, HoldsKeys(a, s, i, j)
  PROVE  HoldsKeys(analyse_line(a, Item(s[i].keys[j + 1].line)), s, i, j + 1)
  <1> DEFINE k == s[i].keys
             line == k[j + 1].line
             b == analyse_line(a, Item(line))
             u == a.sections
             x == u[i]
             t == Append(x.keys, Item(line))
  <1>1. /\ CanonSection(s[i]) /\ CanonKeys(k) /\ IsSeq(k) /\ Len(k) \in Nat
        /\ i \in Nat /\ i # 0 /\ j + 1 \in 1 .. Len(k) /\ j \in Nat
    BY DEF Canon, CanonSection, CanonKeys, IsSeq
  <1>2. /\ Fields(a) /\ a.ok /\ IsSeq(u) /\ Len(u) = i
        /\ \A m \in 1 .. i - 1 : u[m] = s[m]
        /\ FirstKeys(x, s[i], j)
        /\ a.cur = IF s[i].line.type = "section" THEN i ELSE 0
    BY DEF HoldsKeys
  <1>3. s[i].line.type = "section"
    BY <1>1, NoneIs DEF CanonSection
  <1>4. a.cur = i /\ i \in 1 .. Len(u)
    BY <1>1, <1>2, <1>3
  <1>5. /\ x = [line |-> s[i].line, more |-> <<>>, keys |-> x.keys]
        /\ IsSeq(x.keys) /\ Len(x.keys) = j
        /\ \A m \in 1 .. j : x.keys[m] = k[m]
    BY <1>2 DEF FirstKeys
  <1>6. k[j + 1] = Item(line) /\ line.type \in Filler \cup {"key"}
    BY <1>1 DEF CanonKeys, KeyItem
  <1>7. Fields(b) /\ LineDone(a, b, line)
    BY <1>2, LineIsDone
  <1>8. line.type = "key" => Find(x.keys, "key", line.name) = 0
    <2>1. ASSUME line.type = "key", NEW m \in 1 .. Len(x.keys)
          PROVE  ~Matches(x.keys[m], "key", line.name)
      <3>1. m \in 1 .. Len(k) /\ m # j + 1 /\ x.keys[m] = k[m]
        BY <1>1, <1>5
      <3>2. k[m].line.type = "key" => k[m].line.name # line.name
        BY <1>1, <2>1, <3>1 DEF CanonKeys, Unique
      <3> QED BY <3>1, <3>2 DEF Matches
    <2> QED BY <1>5, <2>1, FoundNone
  <1>9. line.type = "key" => get_key(x.keys, Item(line)) = t
    <2>1. Item(line).line = line
      BY DEF Item
    <2> QED BY <1>8, <2>1 DEF get_key
  <1> HIDE DEF b, line, u, x, k
  <1>10. b.ok = a.ok /\ b.cur = i /\ Replaced(b.sections, u, i, [x EXCEPT !.keys = t])
    <2>1. CASE line.type \in Filler
      <3>1. line.type \notin {"section", "key"} /\ a.cur # 0
        BY <1>1, <1>4, <2>1 DEF Filler
      <3>2. b.ok = a.ok /\ b.cur = a.cur /\
            \E item : /\ item = Item(line)
                      /\ Replaced(b.sections, u, a.cur,
                           [u[a.cur] EXCEPT !.keys = Append(u[a.cur].keys, item)])
        BY <1>7, <2>1, <3>1 DEF LineDone, u
      <3>3. PICK item : /\ item = Item(line)
                        /\ Replaced(b.sections, u, a.cur,
                             [u[a.cur] EXCEPT !.keys = Append(u[a.cur].keys, item)])
        BY <3>2, Zenon
      <3> QED BY <1>4, <3>2, <3>3 DEF x
    <2>2. CASE line.type = "key"
      <3>1. line.type \notin Filler \cup {"section"} /\ a.cur # 0
        BY <1>1, <1>4, <2>2 DEF Filler
      <3>2. /\ b.ok = a.ok /\ b.cur = a.cur
            /\ Replaced(b.sections, u, a.cur,
                 [u[a.cur] EXCEPT !.keys = get_key(u[a.cur].keys, Item(line))])
        BY <1>7, <2>2, <3>1 DEF LineDone, u
      <3> QED BY <1>4, <1>9, <2>2, <3>2 DEF x
    <2> QED BY <1>6, <2>1, <2>2
  <1>11. /\ IsSeq(t) /\ Len(t) = j + 1 /\ t[j + 1] = k[j + 1]
         /\ \A m \in 1 .. j : t[m] = k[m]
    BY <1>5, <1>6, AppendIs
  <1>12. \A m \in 1 .. j + 1 : m \in 1 .. j \/ m = j + 1
    BY <1>1
  <1> HIDE DEF t
  <1> DEFINE y == [x EXCEPT !.keys = t]
  <1>13. y = [line |-> s[i].line, more |-> <<>>, keys |-> t]
    BY <1>5
  <1>14. Replaced(b.sections, u, i, y)
    BY <1>10
  <1> HIDE DEF y
  <1>15. FirstKeys(y, s[i], j + 1)
    <2>1. y.keys = t
      BY <1>13
    <2> QED BY <1>11, <1>12, <1>13, <2>1 DEF FirstKeys, k
  <1>16. /\ IsSeq(b.sections) /\ Len(b.sections) = i /\ b.sections[i] = y
         /\ \A m \in 1 .. i - 1 : b.sections[m] = s[m]
    <2>1. \A m \in 1 .. i - 1 : m \in 1 .. i /\ m # i
      BY <1>1
    <2>2. /\ IsSeq(b.sections) /\ Len(b.sections) = Len(u)
          /\ \A m \in 1 .. Len(u) : b.sections[m] = IF m = i THEN y ELSE u[m]
      BY <1>2, <1>4, <1>14, ReplaceIs
    <2>3. i \in 1 .. i /\ Len(u) = i /\ \A m \in 1 .. i - 1 : u[m] = s[m]
      BY <1>1, <1>2
    <2> QED BY ONLY <2>1, <2>2, <2>3
  <1> QED BY <1>2, <1>3, <1>7, <1>10, <1>15, <1>16 DEF HoldsKeys, b, line, k

\* Behind its last key the entry is complete.
LEMMA EntryEnds ==
  ASSUME NEW s, Canon(s), NEW i \in 1 .. Len(s),
         NEW a, HoldsKeys(a, s, i, Len(s[i].keys))
  PROVE  Holds(a, s, i)
  <1> DEFINE x == a.sections[i]
             y == s[i]
  <1>1. y = [line |-> y.line, more |-> <<>>, keys |-> y.keys] /\ IsSeq(y.keys)
    BY DEF Canon, CanonSection, CanonKeys
  <1>2. FirstKeys(x, y, Len(y.keys))
    BY DEF HoldsKeys
  <1>3. x.keys = y.keys
    <2> DEFINE k == x.keys
               l == y.keys
    <2>1. IsSeq(k) /\ IsSeq(l) /\ Len(k) = Len(l) /\ \A m \in 1 .. Len(l) : k[m] = l[m]
      BY <1>1, <1>2 DEF FirstKeys
    <2> HIDE DEF k, l
    <2>2. k = l
      BY <2>1 DEF IsSeq
    <2> QED BY <2>2 DEF k, l
  <1>4. x = y
    BY <1>1, <1>2, <1>3 DEF FirstKeys
  <1>5. i # 0 /\ \A m \in 1 .. i : m \in 1 .. i - 1 \/ m = i
    OBVIOUS
  <1>6. \A m \in 1 .. i : a.sections[m] = s[m]
    BY <1>4, <1>5 DEF HoldsKeys
  <1> QED BY <1>5, <1>6 DEF Holds, HoldsKeys

\* A line that ini_open has taken before: no other kind is written.
Sound(line) == Fits(line) /\ line.type \in Filler \cup {"section", "key"}

SoundFile(f) == IsSeq(f) /\ \A i \in 1 .. Len(f) : Sound(f[i])

\* A line of an entry is read behind the lines before it.
LEMMA SoundAppend ==
  ASSUME NEW t, SoundFile(t), NEW line, Sound(line)
  PROVE  /\ SoundFile(Append(t, line))
         /\ ini_open(Append(t, line)) = analyse_line(ini_open(t), Item(line))
  <1> DEFINE f == Append(t, line)
  <1>1. IsSeq(t) /\ Len(t) \in Nat /\ FitsBuffer(t) /\ line.size < BufLen - 1
    BY DEF SoundFile, Sound, Fits, FitsBuffer, IsSeq
  <1>2. IsSeq(f) /\ ini_open(f) = analyse_line(ini_open(t), Item(line))
    BY <1>1, OpenAppend
  <1>3. /\ Len(f) = Len(t) + 1 /\ f[Len(t) + 1] = line
        /\ \A i \in 1 .. Len(t) : f[i] = t[i]
    BY <1>1, AppendIs
  <1> HIDE DEF f
  <1>4. \A i \in 1 .. Len(f) : i \in 1 .. Len(t) \/ i = Len(t) + 1
    BY <1>1, <1>3
  <1>5. SoundFile(f)
    BY <1>2, <1>3, <1>4 DEF SoundFile
  <1> QED BY <1>2, <1>5 DEF f

\* The lines of an entry: its own, and those of its keys.
KeyTexts(x) == [j \in 1 .. Len(x.keys) |-> Printed(x.keys[j])]

EntryText(x) == Printed(x) \o FlattenSeq(KeyTexts(x))

\* They are a sequence.
LEMMA EntryTextIs ==
  ASSUME NEW s, SectionsOK(s), NEW i \in 1 .. Len(s)
  PROVE  IsSeq(EntryText(s[i]))
  <1> DEFINE k == s[i].keys
             p == KeyTexts(s[i])
  <1>1. IsSeq(s[i].more) /\ ItemsOK(k)
    BY SectionHas DEF SectionsOK
  <1>2. Len(k) \in Nat /\ \A j \in 1 .. Len(k) : ItemOK(k[j])
    BY <1>1 DEF ItemsOK, IsSeq
  <1>3. p = [j \in 1 .. Len(k) |-> p[j]] /\ \A j \in 1 .. Len(k) : p[j] = Printed(k[j])
    BY DEF KeyTexts
  <1>4. \A j \in 1 .. Len(k) : IsSeq(Printed(k[j]))
    BY <1>2, ItemHas, PrintedIs DEF Printed
  <1> HIDE DEF k, p
  <1>5. IsSeq(FlattenSeq(p))
    BY <1>2, <1>3, <1>4, FlattenIs
  <1>6. IsSeq(Printed(s[i]))
    BY <1>1, PrintedIs DEF Printed
  <1>7. IsSeq(Printed(s[i]) \o FlattenSeq(p))
    BY <1>5, <1>6, JoinIs
  <1> QED BY <1>7 DEF EntryText, p

\* t is a text that is read as the first i entries of s.
TextOf(t, s, i) == SoundFile(t) /\ Holds(ini_open(t), s, i)

\* One more entry is read behind them.
LEMMA EntryIsRead ==
  ASSUME NEW s, Canon(s), NEW i \in 1 .. Len(s), NEW t, TextOf(t, s, i - 1)
  PROVE  TextOf(t \o EntryText(s[i]), s, i)
  <1> DEFINE x == s[i]
             k == x.keys
             n == Len(k)
             q == KeyTexts(x)
             start == Append(t, x.line)
  <1>1. /\ x = [line |-> x.line, more |-> <<>>, keys |-> k] /\ Fits(x.line)
        /\ x.line.type \in Filler \cup {"section"}
        /\ IsSeq(k) /\ n \in Nat /\ 0 \in Int /\ n \in Int /\ 0 <= n
        /\ \A j \in 1 .. n : KeyItem(k[j])
    BY DEF Canon, CanonSection, CanonKeys, IsSeq
  <1>2. /\ \A j \in 1 .. n : Sound(k[j].line) /\ k[j] = Item(k[j].line)
        /\ Sound(x.line)
    BY <1>1 DEF KeyItem, Sound
  <1>3. SoundFile(t) /\ IsSeq(t) /\ Holds(ini_open(t), s, i - 1)
    BY DEF TextOf, SoundFile
  <1>4. /\ SoundFile(start) /\ IsSeq(start)
        /\ HoldsKeys(ini_open(start), s, i, 0)
    <2>1. SoundFile(start) /\ ini_open(start) = analyse_line(ini_open(t), Item(x.line))
      BY <1>2, <1>3, SoundAppend
    <2>2. HoldsKeys(analyse_line(ini_open(t), Item(x.line)), s, i, 0)
      BY <1>3, EntryBegins
    <2> QED BY <2>1, <2>2 DEF SoundFile
  <1>5. /\ q = [j \in 1 .. n |-> q[j]]
        /\ \A j \in 1 .. n : q[j] = <<k[j].line>>
    <2>1. q = [j \in 1 .. n |-> Printed(k[j])]
      BY DEF KeyTexts
    <2>2. ASSUME NEW j \in 1 .. n PROVE Printed(k[j]) = <<k[j].line>>
      <3> DEFINE line == k[j].line
      <3>0. Item(line).more = <<>>
        BY DEF Item
      <3>1. k[j].more = <<>>
        BY <1>2, <3>0
      <3>2. <<k[j].line>> \o <<>> = <<k[j].line>>
        OBVIOUS
      <3> QED BY <3>1, <3>2 DEF Printed
    <2> QED BY <2>1, <2>2
  <1>6. Printed(x) = <<x.line>>
    <2>1. x.more = <<>> /\ <<x.line>> \o <<>> = <<x.line>>
      BY <1>1
    <2> QED BY <2>1 DEF Printed
  <1> HIDE DEF q
  <1>7. \A j \in 1 .. n : IsSeq(q[j])
    BY <1>5, OneIs
  <1>8. PICK f : /\ f[0] = <<>> /\ \A j \in 0 .. n : IsSeq(f[j])
                 /\ \A j \in 1 .. n : f[j] = f[j - 1] \o q[j]
                 /\ FlattenSeq(q) = f[n]
    BY <1>1, <1>5, <1>7, FlattenFrom
  <1> DEFINE Read(j) == /\ SoundFile(start \o f[j])
                        /\ HoldsKeys(ini_open(start \o f[j]), s, i, j)
             P == {j \in 0 .. n : Read(j)}
  <1>9. 0 \in P
    <2>1. start \o f[0] = start
      BY <1>4, <1>8, AppendJoined
    <2>2. Read(0)
      BY <1>4, <2>1
    <2> HIDE DEF Read
    <2> QED BY <1>1, <2>2
  <1>10. ASSUME NEW j \in 0 .. n - 1, j \in P PROVE j + 1 \in P
    <2> DEFINE u == start \o f[j]
               line == k[j + 1].line
    <2>1. j \in 0 .. n /\ j + 1 \in 0 .. n /\ j + 1 \in 1 .. n /\ (j + 1) - 1 = j
      BY <1>1
    <2>2. f[j + 1] = Append(f[j], line)
      <3>1. f[j + 1] = f[j] \o <<line>> /\ IsSeq(f[j])
        BY <1>5, <1>8, <2>1
      <3> HIDE DEF line
      <3> QED BY <3>1, AppendJoined
    <2>3. start \o f[j + 1] = Append(u, line)
      <3> DEFINE g == f[j]
      <3>1. IsSeq(start) /\ IsSeq(g)
        BY <1>4, <1>8, <2>1
      <3> HIDE DEF start, g, line
      <3>2. start \o Append(g, line) = Append(start \o g, line)
        BY <3>1, AppendJoined
      <3> QED BY <2>2, <3>2 DEF g
    <2>4. SoundFile(u) /\ HoldsKeys(ini_open(u), s, i, j) /\ Sound(line)
      BY <1>2, <1>10, <2>1
    <2>5. HoldsKeys(analyse_line(ini_open(u), Item(line)), s, i, j + 1)
      BY <2>4, EntryGoesOn
    <2> HIDE DEF u, line
    <2>6. SoundFile(Append(u, line)) /\ HoldsKeys(ini_open(Append(u, line)), s, i, j + 1)
      BY <2>4, <2>5, SoundAppend
    <2>7. Read(j + 1)
      BY <2>3, <2>6 DEF u, line
    <2> HIDE DEF Read
    <2> QED BY <2>1, <2>7
  <1>11. n \in P
    <2> HIDE DEF P
    <2>1. 0 .. n \subseteq P
      BY <1>1, <1>9, <1>10, IntervalInduction
    <2> QED BY <1>1, <2>1
  <1>12. SoundFile(start \o f[n]) /\ Holds(ini_open(start \o f[n]), s, i)
    BY <1>11, EntryEnds
  <1>13. EntryText(x) = <<x.line>> \o f[n]
    BY <1>6, <1>8 DEF EntryText, q
  <1>14. t \o EntryText(x) = start \o f[n]
    <2> DEFINE g == f[n]
               line == x.line
               w == <<line>>
    <2>1. IsSeq(g)
      BY <1>1, <1>8
    <2>2. IsSeq(w)
      BY OneIs
    <2> HIDE DEF g, line
    <2>3. t \o w = Append(t, line)
      BY <1>3, AppendJoined
    <2> HIDE DEF w
    <2>4. (t \o w) \o g = t \o (w \o g)
      BY <1>3, <2>1, <2>2, JoinAssociates
    <2> QED BY <1>13, <2>3, <2>4 DEF g, line, w
  <1> QED BY <1>12, <1>14 DEF TextOf

\* The text that ini_sync writes is read as the lists it was written from.
LEMMA SyncIsRead ==
  ASSUME NEW s, Canon(s)
  PROVE  /\ SoundFile(ini_sync(s)) /\ ini_open(ini_sync(s)).ok
         /\ ini_open(ini_sync(s)).sections = s
         /\ Holds(ini_open(ini_sync(s)), s, Len(s))
  <1> DEFINE n == Len(s)
             q == [i \in 1 .. n |-> EntryText(s[i])]
  <1>1. n \in Nat /\ 0 \in Int /\ n \in Int /\ 0 <= n /\ IsSeq(s)
    BY DEF Canon, IsSeq
  <1>2. TextOf(<<>>, s, 0)
    <2>1. SoundFile(<<>>)
      BY NoneIs DEF SoundFile
    <2>2. Holds(ListStart, s, 0)
      <3>1. /\ Fields(ListStart) /\ ListStart.sections = <<>> /\ ListStart.cur = 0
            /\ ListStart.ok
        BY DEF ListStart, Fields
      <3> QED BY <3>1, NoneIs DEF Holds
    <2> QED BY <2>1, <2>2, OpenEmpty DEF TextOf
  <1>3. ini_sync(s) = FlattenSeq(q)
    BY DEF ini_sync, EntryText, KeyTexts
  <1>4. q = [i \in 1 .. n |-> q[i]] /\ \A i \in 1 .. n : q[i] = EntryText(s[i])
    OBVIOUS
  <1>5. \A i \in 1 .. n : IsSeq(q[i])
    <2>1. SectionsOK(s)
      BY CanonIsOK
    <2>2. ASSUME NEW i \in 1 .. n PROVE IsSeq(EntryText(s[i]))
      BY <2>1, EntryTextIs
    <2> QED BY <1>4, <2>2
  <1> HIDE DEF q
  <1>6. PICK f : /\ f[0] = <<>> /\ \A i \in 0 .. n : IsSeq(f[i])
                 /\ \A i \in 1 .. n : f[i] = f[i - 1] \o q[i]
                 /\ FlattenSeq(q) = f[n]
    BY <1>1, <1>4, <1>5, FlattenFrom
  <1> DEFINE P == {i \in 0 .. n : TextOf(f[i], s, i)}
  <1>7. 0 \in P
    BY <1>1, <1>2, <1>6
  <1>8. ASSUME NEW i \in 0 .. n - 1, i \in P PROVE i + 1 \in P
    <2>1. i + 1 \in 1 .. n /\ i + 1 \in 0 .. n /\ (i + 1) - 1 = i /\ TextOf(f[i], s, i)
      BY <1>1, <1>8
    <2>2. f[i + 1] = f[i] \o EntryText(s[i + 1])
      BY <1>4, <1>6, <2>1
    <2>3. TextOf(f[i] \o EntryText(s[i + 1]), s, i + 1)
      <3> DEFINE m == i + 1
      <3>1. m \in 1 .. Len(s) /\ TextOf(f[i], s, m - 1)
        BY <2>1
      <3> HIDE DEF m
      <3>2. TextOf(f[i] \o EntryText(s[m]), s, m)
        BY <3>1, EntryIsRead
      <3> QED BY <3>2 DEF m
    <2> QED BY <2>1, <2>2, <2>3
  <1> HIDE DEF P
  <1>9. 0 .. n \subseteq P
    BY <1>1, <1>7, <1>8, IntervalInduction
  <1>10. TextOf(ini_sync(s), s, n)
    BY <1>1, <1>3, <1>6, <1>9 DEF P
  <1> DEFINE a == ini_open(ini_sync(s))
             u == a.sections
  <1>11. SoundFile(ini_sync(s)) /\ Holds(a, s, n)
    BY <1>10 DEF TextOf
  <1>12. u = s
    <2>1. IsSeq(u) /\ Len(u) = n /\ \A i \in 1 .. n : u[i] = s[i]
      BY <1>11 DEF Holds
    <2> HIDE DEF u
    <2> QED BY <1>1, <2>1 DEF IsSeq
  <1>13. a.ok
    BY <1>11 DEF Holds
  <1> QED BY <1>11, <1>12, <1>13

-----------------------------------------------------------------------------
(* A text and what is left of another one behind it                        *)

\* The lines of both.
LEMMA JoinedIs ==
  ASSUME NEW t, IsSeq(t), NEW u, IsSeq(u)
  PROVE  /\ IsSeq(t \o u) /\ Len(t \o u) = Len(t) + Len(u)
         /\ \A i \in 1 .. Len(t) : (t \o u)[i] = t[i]
         /\ \A i \in 1 .. Len(u) : (t \o u)[Len(t) + i] = u[i]
         /\ \A i \in 1 .. Len(t \o u) :
              i \in 1 .. Len(t) \/ \E j \in 1 .. Len(u) : i = Len(t) + j
  <1>1. PICK S : t \in Seq(S)
    BY ElementsOf, Zenon
  <1>2. PICK T : u \in Seq(T)
    BY ElementsOf, Zenon
  <1> DEFINE U == S \cup T
             f == t \o u
  <1>3. t \in Seq(U) /\ u \in Seq(U)
    BY <1>1, <1>2, SeqMonotonic
  <1> HIDE DEF U
  <1>4. /\ Len(f) = Len(t) + Len(u) /\ Len(t) \in Nat /\ Len(u) \in Nat
        /\ \A i \in 1 .. Len(t) + Len(u) : f[i] = IF i <= Len(t) THEN t[i] ELSE u[i - Len(t)]
    BY <1>3, ConcatProperties, LenProperties
  <1>5. IsSeq(f)
    BY JoinIs
  <1> HIDE DEF f
  <1>6. \A i \in 1 .. Len(t) : f[i] = t[i]
    BY <1>4
  <1>7. ASSUME NEW i \in 1 .. Len(u) PROVE f[Len(t) + i] = u[i]
    <2>1. Len(t) + i \in 1 .. Len(t) + Len(u) /\ ~(Len(t) + i <= Len(t))
          /\ (Len(t) + i) - Len(t) = i
      BY <1>4
    <2> QED BY <1>4, <2>1
  <1>8. ASSUME NEW i \in 1 .. Len(f), i \notin 1 .. Len(t)
        PROVE  \E j \in 1 .. Len(u) : i = Len(t) + j
    <2>1. i - Len(t) \in 1 .. Len(u) /\ i = Len(t) + (i - Len(t))
      BY <1>4, <1>8
    <2> QED BY <2>1
  <1> QED BY <1>4, <1>5, <1>6, <1>7, <1>8 DEF f

\* Two texts whose lines fit.
LEMMA FitJoined ==
  ASSUME NEW t, AllFit(t), NEW u, AllFit(u)
  PROVE  AllFit(t \o u)
  <1> DEFINE f == t \o u
  <1>1. IsSeq(t) /\ IsSeq(u)
    BY DEF AllFit
  <1>2. /\ IsSeq(f)
        /\ \A i \in 1 .. Len(t) : f[i] = t[i]
        /\ \A i \in 1 .. Len(u) : f[Len(t) + i] = u[i]
        /\ \A i \in 1 .. Len(f) :
             i \in 1 .. Len(t) \/ \E j \in 1 .. Len(u) : i = Len(t) + j
    BY <1>1, JoinedIs
  <1> HIDE DEF f
  <1>3. \A i \in 1 .. Len(f) : Fits(f[i])
    BY <1>2 DEF AllFit
  <1>4. AllFit(f)
    BY <1>2, <1>3 DEF AllFit
  <1> QED BY <1>4 DEF f

\* The keys that cfg_init asks for are in the lists ...
HasRequired(s) == \A k \in Required : ini_get_key_value(s, k[1], k[2]) # NoValue

\* ... or stand in the file.
Keyed(f) == \A k \in Required : LastValue(f, k[1], k[2]) # NoValue

\* What cfg_init loads is complete.
LEMMA LoadableIsKeyed ==
  ASSUME NEW f, AllFit(f), Loadable(f)
  PROVE  Keyed(f)
  <1>1. IsSeq(f) /\ FitsBuffer(f) /\ ini_open(f).ok
    BY DEF AllFit, Fits, FitsBuffer, Loadable
  <1>2. \A name, key : ini_get_key_value(ini_open(f).sections, name, key)
                         = LastValue(f, name, key)
    BY <1>1, OpenReadsLast
  <1> QED BY <1>2 DEF Loadable, Keyed

\* Whatever is left behind a text, no key of the text is lost.
LEMMA JoinedIsKeyed ==
  ASSUME NEW t, AllFit(t), NEW u, AllFit(u), Loadable(t)
  PROVE  Keyed(t \o u)
  <1> DEFINE f == t \o u
             m == Len(t)
             n == Len(f)
  <1>1. /\ AllFit(f) /\ IsSeq(f) /\ IsSeq(t) /\ m \in Nat /\ n \in Nat /\ m <= n
        /\ \A i \in 1 .. m : f[i] = t[i]
    <2>1. IsSeq(t) /\ IsSeq(u) /\ Len(t) \in Nat /\ Len(u) \in Nat
      BY DEF AllFit, IsSeq
    <2>2. IsSeq(f) /\ Len(f) = Len(t) + Len(u) /\ \A i \in 1 .. Len(t) : f[i] = t[i]
      BY <2>1, JoinedIs
    <2>3. AllFit(f)
      BY FitJoined
    <2> HIDE DEF f
    <2> QED BY <2>1, <2>2, <2>3
  <1> HIDE DEF f
  <1>2. FitsBuffer(t) /\ FitsBuffer(f)
    BY <1>1 DEF AllFit, Fits, FitsBuffer
  <1>3. PICK r : Folds(r, f) /\ ini_open(f) = r[n]
    BY <1>1, <1>2, OpenFolds
  <1>4. ini_open(t) = r[m]
    <2>1. Begins(t, f)
      BY <1>1 DEF Begins
    <2> QED BY <1>1, <1>2, <1>3, <2>1, OpenBegins
  <1>5. Says(r[m], f, m)
    <2>1. r[m].ok /\ m \in 0 .. n
      BY <1>1, <1>4 DEF Loadable
    <2> QED BY <1>1, <1>3, <2>1, SaysAll
  <1>6. ASSUME NEW k \in Required
        PROVE  LastValue(f, k[1], k[2]) # NoValue
    <2>1. ValueIn(f, m, k[1], k[2]) # NoValue
      <3>1. ini_get_key_value(r[m].sections, k[1], k[2]) # NoValue
        BY <1>4 DEF Loadable
      <3> QED BY <1>5, <3>1 DEF Says
    <2> DEFINE I == KeyLines(f, n, k[1], k[2])
    <2>2. KeyLines(f, m, k[1], k[2]) # {}
      BY <2>1 DEF ValueIn
    <2>3. KeyLines(f, m, k[1], k[2]) \subseteq I
      BY <1>1 DEF KeyLines
    <2>4. I # {} /\ I \in SUBSET (0 .. n)
      BY <2>2, <2>3 DEF KeyLines
    <2>5. Max(I) \in I
      BY <1>1, <2>4, MaxIsGreatest
    <2>6. Max(I) \in 1 .. n /\ f[Max(I)].type = "key"
      BY <2>5 DEF KeyLines
    <2>7. f[Max(I)].value # "none"
      BY <1>1, <2>6 DEF AllFit, Fits
    <2>8. ValueIn(f, n, k[1], k[2]) = [value |-> f[Max(I)].value, more |-> <<>>]
      BY <2>4 DEF ValueIn
    <2>9. LastValue(f, k[1], k[2]) = ValueIn(f, n, k[1], k[2])
      BY DEF ValueIn, KeyLines, LastValue
    <2> HIDE DEF I
    <2>10. LastValue(f, k[1], k[2]).value # "none"
      BY <2>7, <2>8, <2>9
    <2>11. NoValue.value = "none"
      BY DEF NoValue
    <2> QED BY <2>10, <2>11
  <1>7. Keyed(f)
    BY <1>6 DEF Keyed
  <1> QED BY <1>7 DEF f

\* Where the lines of a file end.
LEMMA OffsetIs ==
  ASSUME NEW f, AllFit(f)
  PROVE  /\ Offset(f)[0] = 0
         /\ \A i \in 0 .. Len(f) : Offset(f)[i] \in Nat
         /\ \A i \in 1 .. Len(f) : Offset(f)[i] = Offset(f)[i - 1] + f[i].size + 1
  <1> DEFINE n == Len(f)
             Def(a) == a = [i \in 0 .. n |-> IF i = 0 THEN 0 ELSE a[i - 1] + f[i].size + 1]
             step == [i \in 1 .. n |-> [x \in Nat |-> x + f[i].size + 1]]
             g == CHOOSE a : Def(a)
  <1>1. n \in Nat /\ \A i \in 1 .. n : f[i].size \in Nat
    BY DEF AllFit, Fits, IsSeq
  <1>2. PICK a \in [0 .. n -> Nat] : Stepwise(a, 0, 1, n, 0, step)
    <2>1. step \in [1 .. n -> [Nat -> Nat]]
      BY <1>1
    <2> HIDE DEF step
    <2>2. 0 \in Int /\ 1 \in Int /\ 1 = 0 + 1 /\ n \in Int /\ 0 <= n /\ 0 \in Nat
      BY <1>1
    <2> QED BY <2>1, <2>2, StepFunction
  <1>3. Def(a)
    <2>1. ASSUME NEW i \in 1 .. n PROVE a[i] = a[i - 1] + f[i].size + 1
      <3>1. a[i] = step[i][a[i - 1]]
        BY <1>2 DEF Stepwise
      <3>2. i - 1 \in 0 .. n /\ a[i - 1] \in Nat
        BY <1>1
      <3> QED BY <3>1, <3>2
    <2>2. a[0] = 0
      BY <1>2 DEF Stepwise
    <2>3. \A i \in 0 .. n : a[i] = IF i = 0 THEN 0 ELSE a[i - 1] + f[i].size + 1
      <3>1. \A i \in 0 .. n : i = 0 \/ i \in 1 .. n
        OBVIOUS
      <3> HIDE DEF step, n
      <3> QED BY <2>1, <2>2, <3>1
    <2> QED BY <2>3
  <1>4. Def(g)
    BY <1>3, Zenon
  <1>5. Offset(f) = g
    BY DEF Offset
  <1> HIDE DEF g
  <1>6. g[0] = 0 /\ \A i \in 1 .. n : g[i] = g[i - 1] + f[i].size + 1
    <2>1. \A i \in 1 .. n : i \in 0 .. n /\ i # 0
      OBVIOUS
    <2>2. 0 \in 0 .. n
      BY <1>1
    <2> QED BY <1>4, <2>1, <2>2
  <1> DEFINE P == {i \in 0 .. n : g[i] \in Nat}
  <1>7. 0 \in P
    BY <1>1, <1>6
  <1>8. ASSUME NEW i \in 0 .. n - 1, i \in P PROVE i + 1 \in P
    <2>1. i + 1 \in 1 .. n /\ i + 1 \in 0 .. n /\ (i + 1) - 1 = i /\ g[i] \in Nat
      BY <1>1, <1>8
    <2>2. g[i + 1] = g[i] + f[i + 1].size + 1 /\ f[i + 1].size \in Nat
      BY <1>1, <1>6, <2>1
    <2>3. g[i + 1] \in Nat
      BY <2>1, <2>2
    <2> QED BY <2>1, <2>3
  <1> HIDE DEF P
  <1>9. 0 .. n \subseteq P
    <2>1. 0 \in Int /\ n \in Int /\ 0 <= n
      BY <1>1
    <2> QED BY <2>1, <1>7, <1>8, IntervalInduction
  <1> QED BY <1>5, <1>6, <1>9 DEF P

\* What is left of a line fits the buffer as the line did.
LEMMA RemainderFits ==
  ASSUME NEW f, AllFit(f), NEW n \in Nat, NEW type \in {"key", "bad"}
  PROVE  AllFit(Remainder(f, n, type))
  <1> DEFINE Start(i) == Offset(f)[i - 1]
             I == {i \in 1 .. Len(f) : Start(i) >= n} \cup {Len(f) + 1}
             next == Min(I)
             left == (Start(next) - 1) - n
             line == IF left = 0 THEN Line("blank", "", "none", 0)
                                 ELSE Line(type, "torn", "torn", left)
             torn == IF n < Start(next) THEN <<line>> ELSE <<>>
             rest == SubSeq(f, next, Len(f))
  <1>1. Len(f) \in Nat /\ IsSeq(f) /\ \A i \in 1 .. Len(f) : Fits(f[i])
    BY DEF AllFit, IsSeq
  <1>2. I \in SUBSET Nat /\ I # {} /\ I \subseteq 1 .. Len(f) + 1
    BY <1>1
  <1>3. Remainder(f, n, type) = torn \o rest
    BY DEF Remainder
  <1>4. \A i \in 1 .. Len(f) : i \notin I => Start(i) < n
    <2>1. \A i \in 1 .. Len(f) : i - 1 \in 0 .. Len(f)
      BY <1>1
    <2>2. \A i \in 1 .. Len(f) : Start(i) \in Nat
      BY <2>1, OffsetIs
    <2> QED BY <2>2
  <1> HIDE DEF I
  <1>5. next \in 1 .. Len(f) + 1 /\ next \in I /\ \A i \in I : next <= i
    BY <1>2, MinIsLeast
  <1> HIDE DEF next
  <1>6. AllFit(torn)
    <2>1. CASE n < Start(next)
      <3>1. next # 1
        BY <2>1, OffsetIs
      <3> DEFINE j == next - 1
      <3>2. j \in 1 .. Len(f) /\ j - 1 \in 0 .. Len(f) /\ j \in Nat /\ j < next
        BY <1>1, <1>5, <3>1
      <3>3. Start(j) < n
        <4>1. j \notin I
          BY <1>5, <3>2
        <4> QED BY <1>4, <3>2, <4>1
      <3>4. Offset(f)[j] = Offset(f)[j - 1] + f[j].size + 1 /\ Offset(f)[j - 1] \in Nat
        BY <3>2, OffsetIs
      <3>5. Start(next) = Offset(f)[j] /\ Start(j) = Offset(f)[j - 1]
        OBVIOUS
      <3>6. f[j].size \in Nat /\ f[j].size < BufLen - 1
        BY <1>1, <3>2 DEF Fits
      <3> DEFINE before == Offset(f)[j - 1]
                 size == f[j].size
      <3>7. /\ before \in Nat /\ before < n /\ size \in Nat
            /\ Start(next) = before + size + 1 /\ n < before + size + 1
        BY <2>1, <3>3, <3>4, <3>5, <3>6
      <3>8. left = before + size - n
        BY <3>7
      <3> HIDE DEF before, left
      <3>9. left \in Nat /\ left < size
        BY <3>7, <3>8
      <3>10. left < BufLen - 1
        BY <3>6, <3>9, IniAssumption
      <3>11. line.size = left /\ (line.type = "key" => line.value = "torn")
        BY DEF Line
      <3> HIDE DEF line
      <3>12. Fits(line)
        BY <3>9, <3>10, <3>11 DEF Fits
      <3>13. AllFit(<<line>>)
        <4> DEFINE w == <<line>>
        <4>1. IsSeq(w) /\ Len(w) = 1 /\ w[1] = line
          BY OneIs
        <4> HIDE DEF w
        <4>2. AllFit(w)
          BY <3>12, <4>1 DEF AllFit
        <4> QED BY <4>2 DEF w
      <3> QED BY <2>1, <3>13
    <2>2. CASE ~(n < Start(next))
      BY <2>2, NoneIs DEF AllFit
    <2> QED BY <2>1, <2>2
  <1> HIDE DEF torn
  <1>7. AllFit(rest)
    <2>1. PICK S : f \in Seq(S)
      BY <1>1, ElementsOf, Zenon
    <2>2. \A i \in next .. Len(f) : f[i] \in S /\ next \in Int /\ Len(f) \in Int
      BY <1>1, <1>5, <2>1
    <2>3. /\ Len(rest) = IF next <= Len(f) THEN Len(f) - next + 1 ELSE 0
          /\ \A i \in 1 .. Len(f) - next + 1 : rest[i] = f[next + i - 1]
      BY <1>1, <1>5, <2>2, SubSeqProperties
    <2>4. IsSeq(rest)
      BY <1>1, <1>5, TailIs
    <2> HIDE DEF rest
    <2>5. ASSUME NEW i \in 1 .. Len(rest) PROVE Fits(rest[i])
      <3>1. i \in 1 .. Len(f) - next + 1 /\ next + i - 1 \in 1 .. Len(f)
        BY <1>1, <1>5, <2>3
      <3> QED BY <1>1, <2>3, <3>1
    <2> QED BY <2>4, <2>5 DEF AllFit
  <1> HIDE DEF rest
  <1> QED BY <1>3, <1>6, <1>7, FitJoined

\* Behind the end of an empty file nothing is left.
LEMMA NothingRemains ==
  ASSUME NEW n \in Nat, NEW type
  PROVE  Remainder(<<>>, n, type) = <<>>
  <1> DEFINE f == <<>>
             Start(i) == Offset(f)[i - 1]
             I == {i \in 1 .. Len(f) : Start(i) >= n} \cup {Len(f) + 1}
             next == Min(I)
             left == (Start(next) - 1) - n
             line == IF left = 0 THEN Line("blank", "", "none", 0)
                                 ELSE Line(type, "torn", "torn", left)
             torn == IF n < Start(next) THEN <<line>> ELSE <<>>
  <1>1. I = {1} /\ Len(f) = 0
    BY NoneIs
  <1>2. next = 1
    <2> HIDE DEF I
    <2>1. I \in SUBSET Nat /\ I # {}
      BY <1>1
    <2>2. next \in I
      BY <2>1, MinIsLeast
    <2> QED BY <1>1, <2>2
  <1>3. AllFit(f)
    BY NoneIs DEF AllFit
  <1>4. Remainder(f, n, type) = torn \o SubSeq(f, next, Len(f))
    BY DEF Remainder
  <1> HIDE DEF I, next, f, line
  <1>5. Start(next) = 0
    BY <1>2, <1>3, OffsetIs
  <1>6. torn = <<>>
    BY <1>5
  <1> HIDE DEF torn
  <1>7. SubSeq(f, next, Len(f)) = <<>>
    BY <1>1, <1>2, SubSeqEmpty
  <1> DEFINE rest == SubSeq(f, next, Len(f))
  <1>8. Remainder(f, n, type) = torn \o rest /\ torn = <<>> /\ rest = <<>>
    BY <1>4, <1>6, <1>7
  <1>9. <<>> \o <<>> = <<>>
    OBVIOUS
  <1> HIDE DEF rest
  <1>10. Remainder(f, n, type) = <<>>
    BY <1>8, <1>9, Zenon
  <1> QED BY <1>10 DEF f

-----------------------------------------------------------------------------
(* The file and the lists of every instance                                *)

\* No line of the configuration exceeds the buffer, and none that administrators
\* set does.
FilesFit ==
  /\ \A f \in Files : FitsBuffer(f)
  /\ \A v \in Value : KeySize[v] < BufLen - 1

\* As long as no two instances were there at the same time, the file that is written
\* is the one that was truncated.
AloneInv == ~overlapped =>
  /\ \A p, q \in Instance : pc[p] # "off" /\ pc[q] # "off" => p = q
  /\ \A p \in Instance : pc[p] = "write" => file = <<>>

\* What makes EmptyOrWhole and ReadsBack inductive: the lines of the file fit, every
\* key stands in it, and the lists in memory are as ini_open builds them, with the
\* keys that cfg_init has found.
FileInv ==
  /\ AllFit(file)
  /\ file # <<>> => Keyed(file) /\ (~overlapped => Loadable(file))

SaveInv ==
  /\ FileInv
  /\ \A p \in Instance : ~At(p, "off") => Canon(sections[p]) /\ HasRequired(sections[p])

\* A step of the only instance has to keep this for the instance.
LEMMA AloneStays ==
  ASSUME AloneInv, TypeOK, NEW p \in Instance, ~overlapped',
         ~overlapped, \A q \in Instance : q # p => pc[q] = "off",
         NEW l, pc' = [pc EXCEPT ![p] = l], l = "write" => file' = <<>>
  PROVE  AloneInv'
  <1>1. \A q \in Instance : pc'[q] = IF q = p THEN l ELSE "off"
    BY DEF TypeOK
  <1> QED BY <1>1 DEF AloneInv

\* Every step of an instance keeps it.
LEMMA AloneKeeps ==
  ASSUME AloneInv, TypeOK, NEW p \in Instance, InstanceStep(p)
  PROVE  AloneInv'
  <1> SUFFICES ASSUME ~overlapped' PROVE AloneInv'
    BY DEF AloneInv
  <1>1. /\ pc[p] # "off" => overlapped' = overlapped
        /\ pc[p] = "off" => cfg_init(p)
    BY DEF InstanceStep, cfg_init, main_daemon, main_lockf, main_server_start, main_fails,
        cfg_set_username, cfg_set_passwd, network_main_returns, main_server_stop,
        cfg_destroy_truncate, cfg_destroy_write, main_unlock, dies, At
  <1>2. ~overlapped /\ \A q \in Instance : q # p => pc[q] = "off"
    <2>1. CASE pc[p] = "off"
      BY <1>1, <2>1 DEF cfg_init, At
    <2>2. CASE pc[p] # "off"
      BY <1>1, <2>2 DEF AloneInv
    <2> QED BY <2>1, <2>2
  <1>3. \E l : pc' = [pc EXCEPT ![p] = l] /\ (l = "write" => file' = <<>>)
    <2>1. CASE pc' = pc
      <3>1. pc' = [pc EXCEPT ![p] = pc[p]]
        BY <2>1 DEF TypeOK
      <3>2. pc[p] = "write" => file' = file
        BY <2>1
        DEF InstanceStep, cfg_init, main_daemon, main_lockf, main_server_start, main_fails,
            cfg_set_username, cfg_set_passwd, network_main_returns, main_server_stop,
            cfg_destroy_truncate, cfg_destroy_write, main_unlock, dies, At, Goto, Ends,
            TypeOK, Label
      <3>3. pc[p] = "write" => file = <<>>
        BY <1>2 DEF AloneInv
      <3> QED BY <3>1, <3>2, <3>3
    <2>2. CASE cfg_destroy_truncate(p)
      BY <2>2 DEF cfg_destroy_truncate, Goto
    <2>3. CASE \E l \in Label \ {"write"} : pc' = [pc EXCEPT ![p] = l]
      BY <2>3
    <2> QED
      BY <2>1, <2>2, <2>3
      DEF InstanceStep, cfg_init, main_daemon, main_lockf, main_server_start, main_fails,
          cfg_set_username, cfg_set_passwd, network_main_returns, main_server_stop,
          cfg_destroy_write, main_unlock, dies, At, Goto, Ends, Label
  <1> QED BY <1>2, <1>3, AloneStays

\* Two instances that are there at the same time are noticed.
LEMMA AloneInvariant == Spec => []AloneInv
  <1>1. Init => AloneInv
    BY DEF Init, AloneInv
  <1>2. AloneInv /\ TypeOK /\ [Next]_vars => AloneInv'
    <2>1. AloneInv /\ TypeOK /\ Next => AloneInv'
      BY AloneKeeps DEF Next
    <2>2. AloneInv /\ UNCHANGED vars => AloneInv'
      BY DEF vars, AloneInv
    <2> QED BY <2>1, <2>2
  <1> QED BY <1>1, <1>2, DaemonTypeCorrect, PTL DEF Spec

\* cfg_set_username and cfg_set_passwd keep the lists so.
LEMMA SetKeepsLists ==
  ASSUME NEW s, Canon(s), HasRequired(s), NEW k, NEW v, v # "none",
         NEW n \in Nat, n < BufLen - 1
  PROVE  LET t == ini_set_key_value(s, "ssh", Line("key", k, v, n))
         IN  Canon(t) /\ HasRequired(t)
  <1> DEFINE line == Line("key", k, v, n)
             i == Find(s, "section", "ssh")
             keys == get_key(s[i].keys, Item(line))
             t == ini_set_key_value(s, "ssh", line)
  <1>1. /\ line.type = "key" /\ line.name = k /\ line.value = v /\ line.size = n
        /\ Item(line).line = line
    BY DEF Line, Item
  <1>2. i \in 1 .. Len(s) /\ s[i].line.type = "section"
    <2>1. ini_get_key_value(s, "ssh", "username") # NoValue
      BY DEF HasRequired, Required
    <2>2. i # 0
      BY <2>1, GetIs
    <2> QED BY <2>2, FindIs DEF Canon, Matches
  <1>3. CanonKeys(s[i].keys) /\ SectionsOK(s) /\ ItemsOK(s[i].keys)
    BY <1>2, CanonIsOK DEF Canon, CanonSection
  <1>4. Replaced(t, s, i, [s[i] EXCEPT !.keys = keys])
    BY DEF ini_set_key_value, Replaced
  <1> HIDE DEF line, t
  <1>5. KeyItem(Item(line)) /\ Item(line).line.type = "key"
    BY <1>1 DEF KeyItem, Fits
  <1>6. CanonKeys(keys) /\ ItemsOK(keys)
    BY <1>3, <1>5, KeySetCanon, CanonIsOK
  <1>7. \A name : KeyValue(keys, name) =
          IF name = line.name THEN [value |-> line.value, more |-> <<>>]
          ELSE KeyValue(s[i].keys, name)
    BY <1>1, <1>3, KeyValueSet
  <1> HIDE DEF keys
  <1>8. Canon(t)
    BY <1>2, <1>4, <1>6, KeysChanged
  <1>9. \A name, key : ini_get_key_value(t, name, key) =
          IF Find(s, "section", name) = i THEN KeyValue(keys, key)
          ELSE ini_get_key_value(s, name, key)
    BY <1>2, <1>3, <1>4, <1>6, ValuesOfOthers
  <1>10. ASSUME NEW r \in Required
         PROVE  ini_get_key_value(t, r[1], r[2]) # NoValue
    <2>1. ini_get_key_value(s, r[1], r[2]) # NoValue
      BY DEF HasRequired
    <2>2. ini_get_key_value(s, r[1], r[2]) =
            IF Find(s, "section", r[1]) = 0 THEN NoValue
            ELSE KeyValue(s[Find(s, "section", r[1])].keys, r[2])
      BY GetIs
    <2>3. [value |-> line.value, more |-> <<>>] # NoValue
      <3> DEFINE x == [value |-> line.value, more |-> <<>>]
      <3>1. x.value = v /\ NoValue.value = "none"
        BY <1>1 DEF NoValue
      <3> HIDE DEF x
      <3>2. x # NoValue
        BY <3>1
      <3> QED BY <3>2 DEF x
    <2> DEFINE new == [value |-> line.value, more |-> <<>>]
    <2>4. KeyValue(keys, r[2]) = IF r[2] = line.name THEN new ELSE KeyValue(s[i].keys, r[2])
      BY <1>7
    <2>5. i # 0
      BY <1>2
    <2> HIDE DEF new, i
    <2> QED BY <1>9, <2>1, <2>2, <2>3, <2>4, <2>5 DEF new
  <1> QED BY <1>8, <1>10 DEF HasRequired, t, line

\* A configuration file that the first instance may find.
LEMMA FirstFile ==
  ASSUME FilesFit, NEW f \in Files
  PROVE  AllFit(f)
  <1>1. IsSeq(f)
    BY FilesAre
  <1>2. ASSUME NEW i \in 1 .. Len(f) PROVE Fits(f[i])
    <2>1. f[i].type = "key" => f[i].value # "none"
      BY DaemonAssumption
    <2>2. f[i].size < BufLen - 1
      BY DEF FilesFit, FitsBuffer
    <2>3. f[i].size \in Nat
      <3> DEFINE L == [type : STRING, name : STRING, value : STRING, size : Nat]
      <3>1. f \in Seq(L)
        BY DaemonAssumption
      <3>2. f[i] \in L
        <4> HIDE DEF L
        <4> QED BY <3>1, ElementOfSeq
      <3> QED BY <3>2
    <2> QED BY <2>1, <2>2, <2>3 DEF Fits
  <1> QED BY <1>1, <1>2 DEF AllFit

\* A step that changes one instance has to keep the invariant for this one, and
\* for the file.
LEMMA SaveOfOne ==
  ASSUME SaveInv, CacheInv, TypeOK, NEW p \in Instance,
         NEW l, pc' = [pc EXCEPT ![p] = l],
         NEW s, Replaced(sections', sections, p, s),
         l # "off" => Canon(s) /\ HasRequired(s),
         FileInv'
  PROVE  SaveInv'
  <1>1. /\ PerInstance(sections)
        /\ \A q \in Instance : pc[q] # "off" => Canon(sections[q]) /\ HasRequired(sections[q])
    BY DEF CacheInv, SaveInv, At
  <1>2. \A q \in Instance : sections'[q] = IF q = p THEN s ELSE sections[q]
    BY <1>1 DEF PerInstance, Replaced
  <1>3. \A q \in Instance : pc'[q] = IF q = p THEN l ELSE pc[q]
    BY DEF TypeOK
  <1>4. \A q \in Instance : pc'[q] # "off" => Canon(sections'[q]) /\ HasRequired(sections'[q])
    BY <1>1, <1>2, <1>3
  <1> QED BY <1>4 DEF SaveInv, At

\* So does a step that moves an instance that exists, and may change the file.
LEMMA SaveMoves ==
  ASSUME SaveInv, CacheInv, TypeOK, NEW p \in Instance, ~At(p, "off"),
         sections' = sections, NEW l, pc' = [pc EXCEPT ![p] = l],
         FileInv'
  PROVE  SaveInv'
  <1>1. Replaced(sections', sections, p, sections[p])
    BY DEF CacheInv, PerInstance, Replaced
  <1>2. Canon(sections[p]) /\ HasRequired(sections[p])
    BY DEF SaveInv
  <1> QED BY <1>1, <1>2, SaveOfOne

\* What ini_open has taken, and cfg_init has found complete.
LEMMA LoadedIsCanon ==
  ASSUME NEW f, AllFit(f), Loadable(f)
  PROVE  Canon(ini_open(f).sections) /\ HasRequired(ini_open(f).sections)
  <1> QED BY OpenCanon DEF CanonAt, Loadable, HasRequired

\* What cfg_destroy writes at the beginning of the file: cfg_init can load it.
LEMMA SavedLoads ==
  ASSUME NEW s, Canon(s), HasRequired(s)
  PROVE  LET t == ini_sync(s)
         IN  /\ AllFit(t) /\ Loadable(t)
             /\ ini_open(t).sections = s /\ Size(t) \in Nat
  <1> DEFINE t == ini_sync(s)
             a == ini_open(t)
  <1>1. SoundFile(t) /\ a.ok /\ a.sections = s
    BY SyncIsRead
  <1> HIDE DEF t
  <1>2. AllFit(t)
    BY <1>1 DEF SoundFile, Sound, AllFit
  <1>3. Loadable(t)
    BY <1>1 DEF Loadable, HasRequired
  <1>4. Size(t) \in Nat
    <2>1. Len(t) \in 0 .. Len(t)
      BY <1>1 DEF SoundFile, IsSeq
    <2> QED BY <1>2, <2>1, OffsetIs DEF Size
  <1> QED BY <1>1, <1>2, <1>3, <1>4 DEF t

\* No instance has started, and cfg_init can load the file.
LEMMA SaveInit ==
  ASSUME FilesFit, Init
  PROVE  SaveInv
  <1>1. file \in Files /\ Loadable(file) /\ \A p \in Instance : pc[p] = "off"
    BY DEF Init
  <1>2. AllFit(file) /\ Keyed(file)
    BY <1>1, FirstFile, LoadableIsKeyed
  <1> QED BY <1>1, <1>2 DEF SaveInv, FileInv, At

\* Every step of an instance keeps the invariant.
LEMMA SaveKeeps ==
  ASSUME FilesFit, SaveInv, AloneInv, CacheInv, TypeOK, NEW p \in Instance, InstanceStep(p)
  PROVE  SaveInv'
  <1>0. FileInv
    BY DEF SaveInv
  <1>same. ASSUME UNCHANGED <<file, overlapped>>
           PROVE  FileInv'
    BY <1>0, <1>same DEF FileInv, Keyed
  <1>move. ASSUME ~At(p, "off"), UNCHANGED <<file, overlapped, config>>, NEW l, Goto(p, l)
           PROVE  SaveInv'
    <2>1. sections' = sections /\ pc' = [pc EXCEPT ![p] = l]
      BY <1>move DEF config, Goto
    <2>2. FileInv'
      BY <1>same, <1>move
    <2> QED BY <1>move, <2>1, <2>2, SaveMoves
  <1>ends. ASSUME ~At(p, "off"), UNCHANGED <<file, overlapped>>, Ends(p)
           PROVE  SaveInv'
    <2>1. pc' = [pc EXCEPT ![p] = "off"] /\ Replaced(sections', sections, p, <<>>)
      BY <1>ends DEF Ends, Replaced, Goto
    <2>2. FileInv'
      BY <1>same, <1>ends
    <2> QED BY <2>1, <2>2, SaveOfOne
  <1>1. CASE cfg_init(p)
    <2> DEFINE s == ini_open(file).sections
    <2>1. Canon(s) /\ HasRequired(s)
      BY <1>0, <1>1, LoadedIsCanon DEF cfg_init, FileInv
    <2>2. pc' = [pc EXCEPT ![p] = "log_init"] /\ Replaced(sections', sections, p, s)
          /\ file' = file /\ Loadable(file)
      BY <1>1 DEF cfg_init, Replaced, Goto
    <2> HIDE DEF s
    <2>3. FileInv'
      BY <1>0, <2>2 DEF FileInv, Keyed
    <2> QED BY <2>1, <2>2, <2>3, SaveOfOne
  <1>2. CASE main_daemon(p)
    BY <1>2, <1>move DEF main_daemon, At
  <1>3. CASE main_lockf(p)
    BY <1>3, <1>move DEF main_lockf, At
  <1>4. CASE main_server_start(p)
    BY <1>4, <1>move DEF main_server_start, At
  <1>5. CASE main_fails(p)
    BY <1>5, <1>move DEF main_fails, At
  <1>6. ASSUME NEW v \in Value, cfg_set_username(p, v) \/ cfg_set_passwd(p, v)
        PROVE  SaveInv'
    <2> DEFINE s == sections[p]
               user == ini_set_key_value(s, "ssh", Line("key", "username", v, KeySize[v]))
               pw == ini_set_key_value(s, "ssh", Line("key", "password", v, KeySize[v]))
    <2>1. ~At(p, "off") /\ UNCHANGED <<file, overlapped, pc>>
      BY <1>6 DEF cfg_set_username, cfg_set_passwd, At
    <2>2. Canon(s) /\ HasRequired(s)
      BY <2>1 DEF SaveInv
    <2>3. v # "none" /\ KeySize[v] \in Nat /\ KeySize[v] < BufLen - 1
      BY DaemonAssumption DEF FilesFit
    <2>4. Canon(user) /\ HasRequired(user) /\ Canon(pw) /\ HasRequired(pw)
      BY <2>2, <2>3, SetKeepsLists
    <2>5. pc' = [pc EXCEPT ![p] = pc[p]]
      BY <2>1 DEF TypeOK
    <2>6. Replaced(sections', sections, p, user) \/ Replaced(sections', sections, p, pw)
      BY <1>6 DEF cfg_set_username, cfg_set_passwd, Replaced
    <2>7. FileInv'
      BY <1>same, <2>1
    <2> HIDE DEF user, pw, s
    <2> QED BY <2>4, <2>5, <2>6, <2>7, SaveOfOne
  <1>7. CASE network_main_returns(p)
    BY <1>7, <1>move DEF network_main_returns, At
  <1>8. CASE main_server_stop(p)
    BY <1>8, <1>move DEF main_server_stop, At
  <1>9. CASE cfg_destroy_truncate(p)
    <2>1. /\ ~At(p, "off") /\ sections' = sections /\ overlapped' = overlapped
          /\ \/ file' = <<>> /\ pc' = [pc EXCEPT ![p] = "write"]
             \/ file' = file /\ pc' = [pc EXCEPT ![p] = "unlock"]
      BY <1>9 DEF cfg_destroy_truncate, config, At, Goto
    <2>2. AllFit(<<>>)
      BY NoneIs DEF AllFit
    <2>3. FileInv'
      BY <1>same, <2>1, <2>2 DEF FileInv
    <2> QED BY <2>1, <2>3, SaveMoves
  <1>10. CASE cfg_destroy_write(p)
    <2> DEFINE text == ini_sync(sections[p])
               rest(type) == Remainder(file, Size(text), type)
    <2>1. /\ ~At(p, "off") /\ sections' = sections /\ pc' = [pc EXCEPT ![p] = "unlock"]
          /\ overlapped' = overlapped /\ pc[p] = "write"
          /\ \/ \E type \in {"key", "bad"} : file' = text \o rest(type)
             \/ file' = file
      BY <1>10 DEF cfg_destroy_write, config, At, Goto
    <2>2. Canon(sections[p]) /\ HasRequired(sections[p])
      BY <2>1 DEF SaveInv
    <2>3. AllFit(text) /\ Loadable(text) /\ Size(text) \in Nat
      BY <2>2, SavedLoads
    <2> HIDE DEF text
    <2>4. ASSUME NEW type \in {"key", "bad"}, file' = text \o rest(type)
          PROVE  FileInv'
      <3>1. AllFit(rest(type))
        BY <1>0, <2>3, RemainderFits DEF FileInv
      <3>2. ~overlapped => rest(type) = <<>>
        BY <2>1, <2>3, NothingRemains DEF AloneInv
      <3> HIDE DEF rest
      <3>3. AllFit(file') /\ Keyed(file')
        BY <2>3, <2>4, <3>1, FitJoined, JoinedIsKeyed
      <3>4. ~overlapped => file' = text
        BY <2>3, <2>4, <3>2, AppendJoined DEF AllFit
      <3> QED BY <2>1, <2>3, <3>3, <3>4 DEF FileInv, Keyed
    <2>5. FileInv'
      BY <1>same, <2>1, <2>4
    <2> QED BY <2>1, <2>5, SaveMoves
  <1>11. CASE main_unlock(p)
    BY <1>11, <1>ends DEF main_unlock, At
  <1>12. CASE dies(p)
    BY <1>12, <1>ends DEF dies
  <1> QED
    BY <1>1, <1>2, <1>3, <1>4, <1>5, <1>6, <1>7, <1>8, <1>9, <1>10, <1>11, <1>12
    DEF InstanceStep

\* However instances are interleaved, die or fail to write, the file stays one that
\* can be read, and the lists of every instance are as the file was read and as the
\* administrators have changed them.
THEOREM SaveSpecInv == FilesFit => (Spec => []SaveInv)
  <1> SUFFICES ASSUME FilesFit PROVE Spec => []SaveInv
    OBVIOUS
  <1>1. Init => SaveInv
    BY SaveInit
  <1>2. SaveInv /\ AloneInv /\ CacheInv /\ TypeOK /\ [Next]_vars => SaveInv'
    <2>1. SaveInv /\ AloneInv /\ CacheInv /\ TypeOK /\ Next => SaveInv'
      BY SaveKeeps DEF Next
    <2>2. SaveInv /\ UNCHANGED vars => SaveInv'
      BY DEF vars, config, SaveInv, FileInv, Keyed, At
    <2> QED BY <2>1, <2>2
  <1> QED
    BY <1>1, <1>2, AloneInvariant, CacheSpecInv, DaemonTypeCorrect, PTL DEF Spec

\* The file is empty, or every key that cfg_init asks for stands in it: no
\* interleaving of two instances that save, no death and no failed write leaves half
\* of the settings.  Only the torn line that two instances leave at its end can make
\* cfg_init refuse it.
THEOREM FileIsEmptyOrWhole == FilesFit => (Spec => []EmptyOrWhole)
  <1> SUFFICES ASSUME FilesFit PROVE Spec => []EmptyOrWhole
    OBVIOUS
  <1>1. SaveInv => EmptyOrWhole
    BY DEF SaveInv, FileInv, Keyed, EmptyOrWhole
  <1> QED BY <1>1, SaveSpecInv, PTL

\* Whatever file of lines that fit the file has become, if it is accepted, writing
\* what was read of it changes nothing that is read.
THEOREM FileReadsBack == FilesFit => (Spec => []ReadsBack)
  <1> SUFFICES ASSUME FilesFit PROVE Spec => []ReadsBack
    OBVIOUS
  <1>1. ASSUME NEW f, AllFit(f)
        PROVE  LET s == ini_open(f).sections
                   again == ini_open(ini_sync(s))
               IN  again.ok /\ again.sections = s
    <2>1. Canon(ini_open(f).sections)
      BY <1>1, OpenCanon DEF CanonAt
    <2> QED BY <2>1, SyncIsRead
  <1>2. SaveInv => ReadsBack
    BY <1>1 DEF SaveInv, FileInv, ReadsBack
  <1> QED BY <1>2, SaveSpecInv, PTL

-----------------------------------------------------------------------------
(* What is set is still there when the next daemon starts                  *)

\* No instance has died, no write has failed, and no two instances were there at
\* the same time.
Clean == failures = 0 /\ ~overlapped

\* File f holds what was set last.
Keeps(f, last) ==
  LET s == ini_open(f).sections
  IN  UserOf(s) = last.username /\ PasswdOf(s) = last.password

\* What makes SettingsDurable inductive: one instance at a time; what was set is in
\* the file while there is none, in what it has cached until it has saved, and in the
\* file again behind that.
DurableInv == Clean =>
  /\ \A p, q \in Instance : pc[p] # "off" /\ pc[q] # "off" => p = q
  /\ (\A p \in Instance : pc[p] = "off") => Keeps(file, set)
  /\ \A p \in Instance :
       /\ pc[p] \notin {"off", "unlock"} => /\ username[p] = set.username
                                            /\ passwd[p] = set.password
       /\ pc[p] = "write" => file = <<>>
       /\ pc[p] = "unlock" => Keeps(file, set)

\* A step does not undo a failure or forget that two instances were there.
LEMMA CleanBefore ==
  ASSUME TypeOK, NEW p \in Instance, InstanceStep(p), Clean'
  PROVE  Clean /\ ~Fails
  <1>1. failures \in Nat /\ overlapped \in BOOLEAN
    BY DaemonAssumption DEF TypeOK
  <1>2. failures' = 0 /\ ~overlapped'
    BY DEF Clean
  <1>3. ~Fails
    BY <1>1, <1>2 DEF Fails
  <1>4. failures' = failures /\ (overlapped' \/ overlapped' = overlapped)
    BY <1>1, <1>2, <1>3
    DEF InstanceStep, cfg_init, main_daemon, main_lockf, main_server_start, main_fails,
        cfg_set_username, cfg_set_passwd, network_main_returns, main_server_stop,
        cfg_destroy_truncate, cfg_destroy_write, main_unlock, dies
  <1> QED BY <1>1, <1>2, <1>3, <1>4 DEF Clean

\* A step of the only instance has to keep the invariant for this one.
LEMMA DurableOfOne ==
  ASSUME TypeOK, NEW p \in Instance, \A q \in Instance : q # p => pc[q] = "off",
         NEW l, pc' = [pc EXCEPT ![p] = l],
         l \notin {"off", "unlock"} => username'[p] = set'.username
                                       /\ passwd'[p] = set'.password,
         l = "write" => file' = <<>>,
         l \in {"off", "unlock"} => Keeps(file', set')
  PROVE  DurableInv'
  <1>1. \A q \in Instance : pc'[q] = IF q = p THEN l ELSE "off"
    BY DEF TypeOK
  <1>2. \A q, r \in Instance : pc'[q] # "off" /\ pc'[r] # "off" => q = r
    BY <1>1
  <1>3. (\A q \in Instance : pc'[q] = "off") => Keeps(file', set')
    BY <1>1
  <1>4. ASSUME NEW q \in Instance
        PROVE  /\ pc'[q] \notin {"off", "unlock"} => /\ username'[q] = set'.username
                                                     /\ passwd'[q] = set'.password
               /\ pc'[q] = "write" => file' = <<>>
               /\ pc'[q] = "unlock" => Keeps(file', set')
    BY <1>1
  <1> QED BY <1>2, <1>3, <1>4 DEF DurableInv

\* What is written on the truncated file holds what is cached.
LEMMA WrittenIsCached ==
  ASSUME NEW s, Canon(s), HasRequired(s), NEW u, NEW w, Cached(s, u, w),
         NEW last, u = last.username, w = last.password
  PROVE  LET t == ini_sync(s)
         IN  \A type : Keeps(t \o Remainder(<<>>, Size(t), type), last)
  <1> DEFINE t == ini_sync(s)
  <1>1. AllFit(t) /\ ini_open(t).sections = s /\ Size(t) \in Nat
    BY SavedLoads
  <1> HIDE DEF t
  <1>2. \A type : Remainder(<<>>, Size(t), type) = <<>>
    BY <1>1, NothingRemains
  <1>3. t \o <<>> = t
    BY <1>1, AppendJoined DEF AllFit
  <1>4. Keeps(t, last)
    BY <1>1 DEF Keeps, Cached
  <1> QED BY <1>2, <1>3, <1>4 DEF t

\* The first instance finds what counts as set.
LEMMA DurableInit == Init => DurableInv
  <1> SUFFICES ASSUME Init PROVE DurableInv
    OBVIOUS
  <1>1. /\ \A p \in Instance : pc[p] = "off"
        /\ set = [username |-> UserOf(ini_open(file).sections),
                  password |-> PasswdOf(ini_open(file).sections)]
    BY DEF Init
  <1>2. Keeps(file, set)
    BY <1>1 DEF Keeps
  <1> QED BY <1>1, <1>2 DEF DurableInv

\* Every step of an instance keeps the invariant.
LEMMA DurableKeeps ==
  ASSUME DurableInv, SaveInv, CacheInv, TypeOK, NEW p \in Instance, InstanceStep(p)
  PROVE  DurableInv'
  <1> SUFFICES ASSUME Clean' PROVE DurableInv'
    BY DEF DurableInv
  <1>clean. Clean /\ ~Fails
    BY CleanBefore
  <1>0. /\ \A q, r \in Instance : pc[q] # "off" /\ pc[r] # "off" => q = r
        /\ (\A q \in Instance : pc[q] = "off") => Keeps(file, set)
        /\ pc[p] \notin {"off", "unlock"} => /\ username[p] = set.username
                                             /\ passwd[p] = set.password
        /\ pc[p] = "write" => file = <<>>
        /\ pc[p] = "unlock" => Keeps(file, set)
    BY <1>clean DEF DurableInv
  <1>only. pc[p] # "off" => \A q \in Instance : q # p => pc[q] = "off"
    BY <1>0
  <1>move. ASSUME pc[p] \notin {"off", "unlock"}, UNCHANGED <<config, set>>,
                  NEW l, l \notin {"off", "write", "unlock"}, Goto(p, l)
           PROVE  DurableInv'
    <2>1. pc' = [pc EXCEPT ![p] = l] /\ username' = username /\ passwd' = passwd /\ set' = set
      BY <1>move DEF Goto, config
    <2>2. username'[p] = set'.username /\ passwd'[p] = set'.password
      BY <1>0, <1>move, <2>1
    <2>3. \A q \in Instance : q # p => pc[q] = "off"
      BY <1>only, <1>move
    <2> QED BY <1>move, <2>1, <2>2, <2>3, DurableOfOne
  <1>1. CASE cfg_init(p)
    <2> DEFINE u == UserOf(ini_open(file).sections)
               w == PasswdOf(ini_open(file).sections)
    <2>1. \A q \in Instance : pc[q] = "off"
      BY <1>1 DEF cfg_init, Clean, At
    <2>2. Keeps(file, set)
      BY <1>0, <2>1
    <2>3. /\ pc' = [pc EXCEPT ![p] = "log_init"] /\ set' = set
          /\ Replaced(username', username, p, u) /\ Replaced(passwd', passwd, p, w)
      BY <1>1 DEF cfg_init, Replaced, Goto
    <2>4. PerInstance(username) /\ PerInstance(passwd)
      BY DEF CacheInv
    <2>5. u = set.username /\ w = set.password
      BY <2>2 DEF Keeps
    <2> HIDE DEF u, w
    <2>6. username'[p] = set'.username /\ passwd'[p] = set'.password
      BY <2>3, <2>4, <2>5 DEF Replaced, PerInstance
    <2> QED BY <2>1, <2>3, <2>6, DurableOfOne
  <1>2. CASE main_daemon(p)
    BY <1>2, <1>move DEF main_daemon, At
  <1>3. CASE main_lockf(p)
    BY <1>3, <1>move DEF main_lockf, At
  <1>4. CASE main_server_start(p)
    BY <1>4, <1>move DEF main_server_start, At
  <1>5. CASE main_fails(p)
    BY <1>5, <1>move DEF main_fails, At
  <1>6. ASSUME NEW v \in Value, cfg_set_username(p, v) \/ cfg_set_passwd(p, v)
        PROVE  DurableInv'
    <2>1. pc[p] \in {"network_main", "server_stop"} /\ pc' = [pc EXCEPT ![p] = pc[p]]
      BY <1>6 DEF cfg_set_username, cfg_set_passwd, TypeOK
    <2>2. username'[p] = set'.username /\ passwd'[p] = set'.password
      BY <1>6 DEF cfg_set_username, cfg_set_passwd
    <2>3. \A q \in Instance : q # p => pc[q] = "off"
      BY <1>only, <2>1
    <2> QED BY <2>1, <2>2, <2>3, DurableOfOne
  <1>7. CASE network_main_returns(p)
    BY <1>7, <1>move DEF network_main_returns, At
  <1>8. CASE main_server_stop(p)
    BY <1>8, <1>move DEF main_server_stop, At
  <1>9. CASE cfg_destroy_truncate(p)
    <2>1. /\ pc[p] = "cfg_destroy" /\ UNCHANGED <<config, set>>
          /\ file' = <<>> /\ pc' = [pc EXCEPT ![p] = "write"]
      BY <1>9, <1>clean DEF cfg_destroy_truncate, At, Goto
    <2>2. username' = username /\ passwd' = passwd /\ set' = set
      BY <2>1 DEF config
    <2>3. username'[p] = set'.username /\ passwd'[p] = set'.password
      BY <1>0, <2>1, <2>2
    <2>4. \A q \in Instance : q # p => pc[q] = "off"
      BY <1>only, <2>1
    <2> QED BY <2>1, <2>3, <2>4, DurableOfOne
  <1>10. CASE cfg_destroy_write(p)
    <2> DEFINE s == sections[p]
               text == ini_sync(s)
    <2>1. /\ pc[p] = "write" /\ pc' = [pc EXCEPT ![p] = "unlock"] /\ set' = set
          /\ \E type \in {"key", "bad"} : file' = text \o Remainder(file, Size(text), type)
      BY <1>10, <1>clean DEF cfg_destroy_write, At, Goto
    <2>2. Canon(s) /\ HasRequired(s)
      BY <2>1 DEF SaveInv, At
    <2>3. Cached(s, username[p], passwd[p])
      BY <2>1 DEF CacheInv, At
    <2>4. username[p] = set.username /\ passwd[p] = set.password /\ file = <<>>
      BY <1>0, <2>1
    <2> HIDE DEF s
    <2>5. \A type : Keeps(text \o Remainder(<<>>, Size(text), type), set)
      BY <2>2, <2>3, <2>4, WrittenIsCached
    <2>6. Keeps(file', set')
      BY <2>1, <2>4, <2>5
    <2>7. \A q \in Instance : q # p => pc[q] = "off"
      BY <1>only, <2>1
    <2> QED BY <2>1, <2>6, <2>7, DurableOfOne
  <1>11. CASE main_unlock(p)
    <2>1. /\ pc[p] = "unlock" /\ pc' = [pc EXCEPT ![p] = "off"]
          /\ file' = file /\ set' = set
      BY <1>11 DEF main_unlock, Ends, At, Goto
    <2>2. Keeps(file', set')
      BY <1>0, <2>1
    <2>3. \A q \in Instance : q # p => pc[q] = "off"
      BY <1>only, <2>1
    <2> QED BY <2>1, <2>2, <2>3, DurableOfOne
  <1>12. CASE dies(p)
    BY <1>12, <1>clean DEF dies
  <1> QED
    BY <1>1, <1>2, <1>3, <1>4, <1>5, <1>6, <1>7, <1>8, <1>9, <1>10, <1>11, <1>12
    DEF InstanceStep

\* What administrators set is there for the next daemon, through any number of
\* starts and orderly exits, for any values and any file whose lines fit the buffer.
THEOREM SettingsSurvive == FilesFit => (Spec => []SettingsDurable)
  <1> SUFFICES ASSUME FilesFit PROVE Spec => []SettingsDurable
    OBVIOUS
  <1>1. DurableInv /\ SaveInv /\ CacheInv /\ TypeOK /\ [Next]_vars => DurableInv'
    <2>1. DurableInv /\ SaveInv /\ CacheInv /\ TypeOK /\ Next => DurableInv'
      BY DurableKeeps DEF Next
    <2>2. DurableInv /\ UNCHANGED vars => DurableInv'
      BY DEF vars, config, DurableInv, Clean
    <2> QED BY <2>1, <2>2
  <1>2. DurableInv => SettingsDurable
    BY DEF DurableInv, Clean, Keeps, SettingsDurable, At
  <1> QED
    BY <1>1, <1>2, DurableInit, SaveSpecInv, CacheSpecInv, DaemonTypeCorrect, PTL DEF Spec

=============================================================================
