---------------------------- MODULE LogRotation ----------------------------
(***************************************************************************)
(* log.c: one of the two logs (they share the code and nothing else), its  *)
(* numbered files, and the daemon that writes, rotates, dies and restarts. *)
(* printlog runs under the log's mutex, so its callers form one sequence.  *)
(* A line is its number in the order of writing, and counts as one unit of *)
(* max_size.  System calls on the files are steps of their own, because    *)
(* the daemon can die between any two of them.                             *)
(***************************************************************************)
EXTENDS Integers, SequencesExt

CONSTANTS
  max_num,            \* log.c: the configured number of log files
  max_size,           \* log.c: the configured size of a file, in lines
  MaxLines,           \* bound on the lines in the files
  RotationMayBreak    \* whether a rename can fail, or the daemon die before it

ASSUME LogAssumption ==
  /\ max_num \in Nat \ {0}
  /\ max_size \in Nat \ {0}
  /\ MaxLines \in Nat
  /\ RotationMayBreak \in BOOLEAN

VARIABLES
  present,    \* the numbers of the files that exist
  content,    \* their lines
  p_num,      \* ssh_log_num or mc_log_num
  p_size,     \* ssh_size or mc_size
  i,          \* next_log: the file to be renamed next
  error,      \* ferror of the open log: a write to it has failed
  logged,     \* the number of lines that have reached the files
  pc          \* where log_init or printlog is

vars == <<present, content, p_num, p_size, i, error, logged, pc>>

FileNum == 0 .. max_num

Init ==
  /\ present = {}
  /\ content = [f \in FileNum |-> <<>>]
  /\ p_num = 0
  /\ p_size = 0
  /\ i = 0
  /\ error = FALSE
  /\ logged = 0
  /\ pc = "open"
-----------------------------------------------------------------------------
\* fprintf, vfprintf, fflush, and the test whether the file is full, which closes
\* it.  Any of the three can fail (a full disk): the line is lost, and *p_size
\* still grows if only fflush saw it; or the line is there and not counted, as
\* vfprintf failed late.  stdio drops what it could not write.
printlog ==
  /\ pc = "idle"
  /\ logged < MaxLines
  /\ \E written, counted \in BOOLEAN :
       /\ IF written
          THEN /\ logged' = logged + 1
               /\ content' = [content EXCEPT ![p_num] = Append(@, logged')]
          ELSE UNCHANGED <<content, logged>>
       /\ p_size' = IF counted THEN p_size + 1 ELSE p_size
       /\ pc' = IF p_size' >= max_size THEN "open" ELSE "idle"
       /\ error' = (pc' = "idle" /\ (error \/ ~written \/ ~counted))
  /\ UNCHANGED <<present, p_num, i>>

\* open_log_file, "Get last log file": the scan goes up from *p_num to the last
\* file before a missing one, or to max_num without looking whether that exists
LastLog ==
  LET missing == {n \in p_num .. max_num - 1 : n \notin present}
  IN  IF missing = {} THEN max_num
      ELSE LET m == Min(missing) IN IF m > 0 THEN m - 1 ELSE 0

\* Mutant: next_log tests *p_num > max_num.
open_log_file_one_more ==
  /\ pc = "open"
  /\ LET n == LastLog
         full == n \in present /\ Len(content[n]) >= max_size
     IN  /\ p_num' = IF full /\ n <= max_num THEN n + 1 ELSE n
         /\ pc' = IF full /\ n > max_num THEN "unlink" ELSE "fopen"
  /\ UNCHANGED <<present, content, p_size, i, error, logged>>

\* Mutant: when all numbers are taken open_log_file returns NULL.
open_log_file_gives_up ==
  /\ pc = "open"
  /\ LET n == LastLog
         full == n \in present /\ Len(content[n]) >= max_size
     IN  /\ p_num' = IF full /\ n < max_num THEN n + 1 ELSE n
         /\ pc' = IF full /\ n >= max_num THEN "open" ELSE "fopen"
  /\ UNCHANGED <<present, content, p_size, i, error, logged>>

\* the scan, the test of st_size, and next_log where it only counts up
open_log_file ==
  /\ pc = "open"
  /\ LET n == LastLog
         full == n \in present /\ Len(content[n]) >= max_size
     IN  /\ p_num' = IF full /\ n < max_num THEN n + 1 ELSE n
         /\ pc' = IF full /\ n >= max_num THEN "unlink" ELSE "fopen"
  /\ UNCHANGED <<present, content, p_size, i, error, logged>>

\* stat fails, but not because the file is missing: open_log_file returns NULL
\* after its scan, printlog goes round its loop and log_init gives up
open_log_file_stat_fails ==
  /\ pc = "open"
  /\ p_num' = LastLog
  /\ UNCHANGED <<present, content, p_size, i, error, logged, pc>>

\* next_log, "Remove oldest file"; a failure leaves everything as it is
next_log_unlink ==
  /\ pc = "unlink"
  /\ \/ /\ present' = present \ {0}
        /\ content' = [content EXCEPT ![0] = <<>>]
        /\ i' = 1
        /\ pc' = "rename"
     \/ /\ pc' = "fopen"
        /\ UNCHANGED <<present, content, i>>
  /\ UNCHANGED <<p_num, p_size, error, logged>>

\* Mutant: the loop ends before the last file, i < *p_num.
next_log_rename_short ==
  /\ pc = "rename"
  /\ present' = (present \ {i}) \cup {i - 1}
  /\ content' = [content EXCEPT ![i - 1] = content[i], ![i] = <<>>]
  /\ i' = IF i + 1 < p_num THEN i + 1 ELSE 0
  /\ pc' = IF i + 1 < p_num THEN "rename" ELSE "fopen"
  /\ UNCHANGED <<p_num, p_size, error, logged>>

\* next_log, "Rename files": one turn of the loop, its result ignored
next_log_rename ==
  /\ pc = "rename"
  /\ \E ok \in IF RotationMayBreak THEN BOOLEAN ELSE {TRUE} :
       IF ok /\ i \in present
       THEN /\ present' = (present \ {i}) \cup {i - 1}
            /\ content' = [content EXCEPT ![i - 1] = content[i], ![i] = <<>>]
       ELSE UNCHANGED <<present, content>>
  /\ i' = IF i < p_num THEN i + 1 ELSE 0
  /\ pc' = IF i < p_num THEN "rename" ELSE "fopen"
  /\ UNCHANGED <<p_num, p_size, error, logged>>

\* Mutant: the size of the opened file is not read.
open_log_file_append_keeps_size ==
  /\ pc = "fopen"
  /\ present' = present \cup {p_num}
  /\ pc' = "idle"
  /\ UNCHANGED <<content, p_num, p_size, i, error, logged>>

\* fopen(name, "a") and ftell
open_log_file_append ==
  /\ pc = "fopen"
  /\ present' = present \cup {p_num}
  /\ p_size' = Len(content[p_num])
  /\ pc' = "idle"
  /\ UNCHANGED <<content, p_num, i, error, logged>>

\* fopen fails: the same
open_log_file_fails ==
  /\ pc = "fopen"
  /\ pc' = "open"
  /\ UNCHANGED <<present, content, p_num, p_size, i, error, logged>>

\* log_close or a crash, and log_init of the next daemon
log_init ==
  /\ RotationMayBreak \/ pc # "rename"
  /\ p_num' = 0
  /\ p_size' = 0
  /\ i' = 0
  /\ error' = FALSE
  /\ pc' = "open"
  /\ UNCHANGED <<present, content, logged>>

Next ==
  \/ printlog \/ open_log_file \/ open_log_file_stat_fails
  \/ next_log_unlink \/ next_log_rename
  \/ open_log_file_append \/ open_log_file_fails
  \/ log_init

Spec == Init /\ [][Next]_vars

\* The loop of printlog goes on, stat and fopen do not fail for ever, and the
\* daemon is not killed every time.
Fairness ==
  /\ SF_vars(open_log_file)
  /\ SF_vars(next_log_unlink)
  /\ SF_vars(next_log_rename)
  /\ SF_vars(open_log_file_append)

FairSpec == Spec /\ Fairness
-----------------------------------------------------------------------------
(* Properties                                                              *)

\* The variables keep the shapes of the C objects they stand for; no file
\* beyond max_num is ever opened or left behind.
TypeOK ==
  /\ present \subseteq FileNum
  /\ content \in [FileNum -> Seq(1 .. MaxLines)]
  /\ p_num \in FileNum
  /\ p_size \in 0 .. MaxLines + max_size
  /\ i \in FileNum
  /\ error \in BOOLEAN
  /\ logged \in 0 .. MaxLines
  /\ pc \in {"idle", "open", "unlink", "rename", "fopen"}

\* p_size is the size of the file being written, after any rotation, failed
\* rotation or restart, unless a write to this file has failed: what failing
\* writes did to p_size is over when the file is opened anew.
SizeIsCurrent ==
  pc = "idle" => /\ p_num \in present
                 /\ ~error => p_size = Len(content[p_num])

\* What makes TypeOK inductive: no file runs ahead of the lines that were written,
\* p_size does so only by lines whose writing failed, and files are renamed only
\* when the last number is taken.
BoundsInv ==
  /\ \A f \in FileNum : Len(content[f]) <= logged
  /\ p_size <= logged + max_size
  /\ pc = "idle" => p_size <= logged \/ p_size < max_size
  /\ pc \in {"unlink", "rename"} => p_num = max_num
  /\ pc = "rename" => i > 0

\* The log comes back: a printlog that has closed a full file finds, whatever
\* failed and however full the directory is, one to go on with; until then it
\* keeps the log's mutex, and every thread that logs waits.
LogReopens == pc # "idle" ~> pc = "idle"

\* The lines that can be read, the files taken in the order of their numbers.
AllLines == FlattenSeq([n \in 1 .. max_num + 1 |-> content[n - 1]])

\* The files are the history of the log.  Rotation leaves at least max_num - 1
\* full files: a restart may have left one file short for good.
History == INSTANCE LogHistory WITH
             kept <- AllLines, last <- logged, Keep <- (max_num - 1) * max_size

HistorySpec == History!HistorySpec

\* What makes HistorySpec an invariant of the steps, as long as no rotation breaks.
\* The numbers in use are 0 .. k - 1, but for the hole that rotation moves up ...
NumbersInv ==
  /\ \A f \in FileNum \ present : content[f] = <<>>
  /\ pc = "rename" => present = FileNum \ {i - 1}
  /\ pc # "rename" => \E k \in 0 .. max_num + 1 :
       /\ present = 0 .. k - 1
       /\ pc = "idle" => p_num = k - 1
       /\ pc = "open" => p_num <= k
       /\ pc = "unlink" => k = max_num + 1
       /\ pc = "fopen" => p_num \in {k - 1, k}

\* ... each file holds the lines from one cut to the next ...
Lines(a, z) == [k \in 1 .. z - a |-> a + k]

CutAt(b) ==
  /\ b[max_num + 1] = logged
  /\ \A f, g \in 0 .. max_num + 1 : f <= g => b[f] <= b[g]
  /\ \A f \in FileNum : content[f] = Lines(b[f], b[f + 1])

CutsInv == \E b \in [0 .. max_num + 1 -> 0 .. logged] : CutAt(b)

\* ... and all files are full but the last and file s, which a restart left
\* short when the daemon went on with number max_num.
Full(f) == Len(content[f]) >= max_size

FullInv == \E s \in FileNum :
  /\ \A f \in present \ {s, max_num} : Full(f)
  /\ pc # "rename" /\ max_num - 1 \notin present => s + 1 \notin present
  /\ pc \in {"unlink", "rename"} => \A f \in present \ {s} : Full(f)
  /\ pc = "fopen" /\ p_num \notin present /\ p_num \in 1 .. max_num - 1
       => Full(p_num - 1)

\* "Remove oldest file": the file that next_log removes, number 0, never holds
\* a line that is newer than one in another file.
OldestIsFirst ==
  \A f, g \in FileNum : f < g =>
    \A a \in 1 .. Len(content[f]), b \in 1 .. Len(content[g]) :
      content[f][a] < content[g][b]

=============================================================================
