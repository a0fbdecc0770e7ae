----------------------------- MODULE LogHistory -----------------------------
(***************************************************************************)
(* What the log promises to whoever reads /var/log/mcserverd: the files,   *)
(* read in the order of their numbers, are the lines that reached a file,  *)
(* in the order in which they were written, none missing between the first *)
(* that is left and the last; and old lines are given up only while enough *)
(* recent ones stay.  A line that could not be written was never promised. *)
(***************************************************************************)
EXTENDS Naturals, Sequences

CONSTANT Keep       \* lines that discarding leaves

VARIABLES kept,     \* the lines that can be read, oldest first
          last      \* the number of the last line that was written

HistoryInit ==
  /\ kept = <<>>
  /\ last = 0

\* A line is written after all others.
Log ==
  /\ last' = last + 1
  /\ kept' = Append(kept, last')

\* The oldest k lines are given up.
Discard(k) ==
  /\ Len(kept) - k >= Keep
  /\ kept' = SubSeq(kept, k + 1, Len(kept))
  /\ last' = last

HistoryNext == Log \/ \E k \in 1 .. Len(kept) : Discard(k)

HistorySpec == HistoryInit /\ [][HistoryNext]_<<kept, last>>

=============================================================================
