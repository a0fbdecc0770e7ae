----------------------------- MODULE AdminTurn -----------------------------
(***************************************************************************)
(* What the session queue promises to the administrators: they stand in    *)
(* line in the order in which they were accepted, at most one of them is   *)
(* served at a time, and it is always the one at the head of the line.     *)
(*                                                                         *)
(* "served" is a set so that the promise "at most one" is a consequence of *)
(* the steps below and not of the representation.  Network implements this *)
(* module: line is session_queue, served the sessions of the queue whose   *)
(* status is SESSION_ACTIVE.                                               *)
(***************************************************************************)
EXTENDS Naturals, Sequences

CONSTANT Session    \* the administrators' connections

VARIABLES line,     \* the sessions in line, head first
          served    \* the sessions that own the console

turnVars == <<line, served>>

TurnInit ==
  /\ line = <<>>
  /\ served = {}

\* A session gets in line; it is served at once when nobody is before it.
Join(s) ==
  /\ \A i \in 1 .. Len(line) : line[i] # s
  /\ line' = Append(line, s)
  /\ served' = IF line = <<>> THEN {s} ELSE served

\* The served session logs off and keeps its place until it is cleared away.
LogOff ==
  /\ served # {}
  /\ served' = {}
  /\ line' = line

\* The head of the line leaves it.
Leave ==
  /\ line # <<>>
  /\ line' = Tail(line)
  /\ served' = served \ {Head(line)}

\* The console is handed to the head of the line.
Promote ==
  /\ line # <<>>
  /\ served = {}
  /\ served' = {Head(line)}
  /\ line' = line

TurnNext ==
  \/ \E s \in Session : Join(s)
  \/ LogOff
  \/ Leave
  \/ Promote

TurnSpec == TurnInit /\ [][TurnNext]_turnVars

=============================================================================
