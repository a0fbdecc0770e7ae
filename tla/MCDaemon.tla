------------------------------ MODULE MCDaemon ------------------------------
(***************************************************************************)
(* Daemon for TLC: two instances, and the configuration file of conf/ as   *)
(* it is shipped and as administrators may have edited it.                 *)
(***************************************************************************)
EXTENDS Daemon, TLC

CONSTANTS p1, p2

Symmetry == Permutations(Instance)

Key(name, value, size) == Line("key", name, value, size)
Blank == Line("blank", "", "none", 0)

MCKeySize == [v \in Value |-> IF v = "long" THEN 24 ELSE 12]

Minecraft(commandSize) ==
  <<Line("section", "minecraft", "none", 11), Key("workdir", "/", 9),
    Key("server-file", "jar", 32), Key("command", "java", commandSize), Blank>>

Ssh ==
  <<Line("section", "ssh", "none", 5), Key("port", "2048", 9),
    Key("username", "admin", 14), Key("password", "admin", 14),
    Key("max_connection", "5", 16), Blank>>

Log ==
  <<Line("section", "log", "none", 5), Key("log-file-size", "2MB", 17),
    Key("log-file-num", "10", 15)>>

\* as shipped
Shipped == Minecraft(64) \o Ssh \o Log

\* a command that does not fit the line buffer, before the last key and a blank
LongCommand == Minecraft(300) \o Ssh \o Log

\* comments, and a second [ssh] that changes the password and the port
Edited ==
  <<Line("comment", "", "none", 20)>> \o Shipped
  \o <<Line("comment", "", "none", 30), Line("section", "ssh", "none", 5),
       Key("password", "secret", 15), Key("port", "22", 7)>>

\* two such commands: the second takes the place of the first with its buffer, and
\* the file that is saved swallows the keys behind the command when it is read
TwoLongCommands ==
  <<Line("section", "minecraft", "none", 11), Key("command", "java", 300), Blank,
    Key("command", "java", 300), Key("workdir", "/", 9),
    Key("server-file", "jar", 32), Blank>> \o Ssh \o Log

MCFiles == {Shipped, LongCommand, TwoLongCommands, Edited}

=============================================================================
