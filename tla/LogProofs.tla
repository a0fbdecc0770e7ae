----------------------------- MODULE LogProofs -----------------------------
(***************************************************************************)
(* Theorems about LogRotation, for every number and size of files.         *)
(*                                                                         *)
(* The files, from the oldest to the one that is open, hold consecutive    *)
(* lines: there are cuts in the sequence of all lines between which each   *)
(* file lies (CutsInv).  The numbers of the files have no hole outside a   *)
(* rotation (NumbersInv), and a file that is not the open one is full, or  *)
(* there was a restart (FullInv).  LogInv holds all of it together.        *)
(***************************************************************************)
EXTENDS LogRotation, RecursionLemmas

LogTypeInv == TypeOK /\ SizeIsCurrent /\ BoundsInv

\* The scan ends at a number that open_log_file may use.
LEMMA LastLogInRange ==
  ASSUME TypeOK
  PROVE  LastLog \in FileNum
  <1> DEFINE missing == {n \in p_num .. max_num - 1 : n \notin present}
  <1>1. p_num \in Nat /\ max_num \in Nat /\ p_num <= max_num
    BY LogAssumption DEF TypeOK, FileNum
  <1>2. CASE missing = {}
    BY <1>1, <1>2 DEF LastLog, FileNum
  <1>3. CASE missing # {}
    <2>1. missing \in SUBSET Nat
      BY <1>1
    <2>2. Min(missing) \in missing
      BY <1>3, <2>1, MinIsLeast
    <2>3. Min(missing) \in 0 .. max_num - 1
      BY <1>1, <2>2
    <2>4. LastLog = IF Min(missing) > 0 THEN Min(missing) - 1 ELSE 0
      BY <1>3 DEF LastLog
    <2> QED BY <1>1, <2>3, <2>4 DEF FileNum
  <1> QED BY <1>2, <1>3

\* A file that is gone has no lines.
LEMMA EmptyFile ==
  /\ \A S : <<>> \in Seq(S)
  /\ Len(<<>>) = 0
  OBVIOUS

\* What printlog does: a line more in the open file, or none.
LEMMA PrintlogIs ==
  ASSUME printlog
  PROVE  /\ pc = "idle" /\ logged < MaxLines
         /\ pc' = IF p_size' >= max_size THEN "open" ELSE "idle"
         /\ UNCHANGED <<present, p_num, i>>
         /\ p_size' \in {p_size, p_size + 1} /\ error' \in BOOLEAN
         /\ \/ UNCHANGED <<content, logged>>
            \/ /\ logged' = logged + 1
               /\ content' = [content EXCEPT ![p_num] = Append(@, logged')]
         /\ pc' = "idle" /\ ~error'
              => ~error /\ p_size' = p_size + 1 /\ logged' = logged + 1
                 /\ content' = [content EXCEPT ![p_num] = Append(@, logged')]
  BY DEF printlog

\* The steps keep the types, the sizes and their bounds.
LEMMA LogTypeNext == LogTypeInv /\ [Next]_vars => LogTypeInv'
  <1> SUFFICES ASSUME LogTypeInv, [Next]_vars PROVE LogTypeInv'
    OBVIOUS
  <1> USE DEF LogTypeInv
  <1>0. /\ max_num \in Nat /\ max_num >= 1 /\ max_size \in Nat /\ max_size >= 1
        /\ MaxLines \in Nat /\ p_num \in FileNum /\ logged \in Nat /\ p_size \in Nat
        /\ content \in [FileNum -> Seq(1 .. MaxLines)]
        /\ \A f \in FileNum : Len(content[f]) \in Nat
    BY LogAssumption DEF TypeOK
  <1>1. CASE printlog
    <2>1. /\ pc = "idle" /\ logged < MaxLines
          /\ pc' = IF p_size' >= max_size THEN "open" ELSE "idle"
          /\ UNCHANGED <<present, p_num, i>>
          /\ p_size' \in {p_size, p_size + 1} /\ error' \in BOOLEAN
      BY <1>1, PrintlogIs
    <2>2. p_num \in present /\ (~error => p_size = Len(content[p_num]))
      BY <2>1 DEF SizeIsCurrent
    <2>3. CASE UNCHANGED <<content, logged>>
      <3>1. ~(pc' = "idle" /\ ~error')
        <4>1. pc' = "idle" /\ ~error' => logged' = logged + 1
          BY <1>1, PrintlogIs
        <4> QED BY <1>0, <2>3, <4>1
      <3>2. BoundsInv'
        BY <1>0, <2>1, <2>3 DEF BoundsInv
      <3>3. TypeOK'
        BY <1>0, <2>1, <2>3, <3>2 DEF TypeOK, BoundsInv
      <3>4. SizeIsCurrent'
        BY <2>1, <2>2, <3>1 DEF SizeIsCurrent, TypeOK
      <3> QED BY <3>2, <3>3, <3>4
    <2>4. CASE /\ logged' = logged + 1
               /\ content' = [content EXCEPT ![p_num] = Append(@, logged')]
      <3>1. logged' \in 1 .. MaxLines
        BY <1>0, <2>1, <2>4
      <3>2. /\ content' \in [FileNum -> Seq(1 .. MaxLines)]
            /\ content'[p_num] = Append(content[p_num], logged')
            /\ \A f \in FileNum \ {p_num} : content'[f] = content[f]
        BY <1>0, <2>4, <3>1
      <3>3. Len(content'[p_num]) = Len(content[p_num]) + 1
        BY <1>0, <3>1, <3>2
      <3>4. BoundsInv'
        <4>1. \A f \in FileNum : Len(content'[f]) <= logged'
          BY <1>0, <2>4, <3>2, <3>3 DEF BoundsInv
        <4>2. /\ p_size' <= logged' + max_size
              /\ pc' = "idle" => p_size' <= logged' \/ p_size' < max_size
          BY <1>0, <2>1, <2>4 DEF BoundsInv
        <4> QED BY <2>1, <4>1, <4>2 DEF BoundsInv
      <3>5. TypeOK'
        BY <1>0, <2>1, <2>4, <3>1, <3>2, <3>4 DEF TypeOK, BoundsInv
      <3>6. SizeIsCurrent'
        <4>1. pc' = "idle" /\ ~error' => ~error /\ p_size' = p_size + 1
          BY <1>1, PrintlogIs
        <4> QED BY <2>1, <2>2, <3>3, <4>1 DEF SizeIsCurrent
      <3> QED BY <3>4, <3>5, <3>6
    <2> QED BY <1>1, <2>3, <2>4, PrintlogIs
  <1>2. CASE open_log_file
    <2>1. /\ p_num' \in FileNum /\ pc' \in {"unlink", "fopen"}
          /\ pc' = "unlink" => p_num' = max_num
          /\ UNCHANGED <<present, content, p_size, i, error, logged>>
      <3> DEFINE full == LastLog \in present /\ Len(content[LastLog]) >= max_size
      <3>1. /\ p_num' = IF full /\ LastLog < max_num THEN LastLog + 1 ELSE LastLog
            /\ pc' = IF full /\ LastLog >= max_num THEN "unlink" ELSE "fopen"
        BY <1>2 DEF open_log_file
      <3>2. LastLog \in 0 .. max_num
        BY LastLogInRange DEF FileNum
      <3> HIDE DEF full
      <3> QED BY <1>0, <1>2, <3>1, <3>2 DEF FileNum, open_log_file
    <2> QED BY <2>1 DEF TypeOK, SizeIsCurrent, BoundsInv
  <1>3. CASE open_log_file_stat_fails
    BY <1>3, LastLogInRange
    DEF open_log_file_stat_fails, TypeOK, SizeIsCurrent, BoundsInv
  <1>4. CASE next_log_unlink
    <2>1. /\ pc' \in {"rename", "fopen"} /\ p_num' = p_num /\ p_num = max_num
          /\ UNCHANGED <<p_size, error, logged>>
          /\ present' \subseteq present
          /\ i' \in FileNum /\ (pc' = "rename" => i' > 0)
      BY <1>0, <1>4 DEF next_log_unlink, TypeOK, BoundsInv, FileNum
    <2>2. content' = [content EXCEPT ![0] = <<>>] \/ content' = content
      BY <1>4 DEF next_log_unlink
    <2>3. /\ content' \in [FileNum -> Seq(1 .. MaxLines)]
          /\ \A f \in FileNum : content'[f] = content[f] \/ Len(content'[f]) = 0
      BY <1>0, <2>2, EmptyFile
    <2>4. BoundsInv'
      BY <1>0, <2>1, <2>3 DEF BoundsInv
    <2> QED BY <2>1, <2>3, <2>4 DEF TypeOK, SizeIsCurrent
  <1>5. CASE next_log_rename
    <2>1. /\ p_num = max_num /\ i \in 1 .. max_num
          /\ UNCHANGED <<p_num, p_size, error, logged>>
          /\ pc' \in {"rename", "fopen"}
          /\ i' \in FileNum /\ (pc' = "rename" => i' > 0)
      BY <1>0, <1>5 DEF next_log_rename, TypeOK, BoundsInv, FileNum
    <2>2. i \in FileNum /\ i - 1 \in FileNum
      BY <1>0, <2>1 DEF FileNum
    <2>3. \/ UNCHANGED <<present, content>>
          \/ /\ present' = (present \ {i}) \cup {i - 1}
             /\ content' = [content EXCEPT ![i - 1] = content[i], ![i] = <<>>]
      BY <1>5 DEF next_log_rename
    <2>4. /\ present' \subseteq FileNum
          /\ content' \in [FileNum -> Seq(1 .. MaxLines)]
          /\ \A f \in FileNum : \/ content'[f] = content[f]
                                \/ content'[f] = content[i]
                                \/ Len(content'[f]) = 0
      <3>1. CASE UNCHANGED <<present, content>>
        BY <1>0, <3>1 DEF TypeOK
      <3>2. CASE /\ present' = (present \ {i}) \cup {i - 1}
                 /\ content' = [content EXCEPT ![i - 1] = content[i], ![i] = <<>>]
        <4>1. present' \subseteq FileNum
          BY <2>2, <3>2 DEF TypeOK
        <4>2. content' \in [FileNum -> Seq(1 .. MaxLines)]
          BY <1>0, <2>2, <3>2, EmptyFile
        <4>3. \A f \in FileNum :
                content'[f] = IF f = i THEN <<>>
                              ELSE IF f = i - 1 THEN content[i] ELSE content[f]
          BY <1>0, <2>2, <3>2
        <4> QED BY <4>1, <4>2, <4>3, EmptyFile
      <3> QED BY <2>3, <3>1, <3>2
    <2>5. \A f \in FileNum : Len(content'[f]) <= logged'
      <3>1. /\ \A f \in FileNum : Len(content[f]) <= logged
            /\ logged \in Nat /\ logged' = logged
        BY <1>0, <2>1 DEF BoundsInv
      <3> QED BY ONLY <2>2, <2>4, <3>1
    <2>6. BoundsInv'
      BY <2>1, <2>5 DEF BoundsInv
    <2> QED BY <2>1, <2>4, <2>6 DEF TypeOK, SizeIsCurrent
  <1>6. CASE open_log_file_append
    BY <1>0, <1>6 DEF open_log_file_append, TypeOK, SizeIsCurrent, BoundsInv
  <1>7. CASE open_log_file_fails
    BY <1>7 DEF open_log_file_fails, TypeOK, SizeIsCurrent, BoundsInv
  <1>8. CASE log_init
    <2>1. TypeOK'
      BY <1>0, <1>8 DEF log_init, TypeOK, FileNum
    <2>2. SizeIsCurrent'
      BY <1>8 DEF log_init, SizeIsCurrent
    <2>3. BoundsInv'
      BY <1>0, <1>8 DEF log_init, BoundsInv
    <2> QED BY <2>1, <2>2, <2>3
  <1>9. CASE UNCHANGED vars
    BY <1>9 DEF vars, TypeOK, SizeIsCurrent, BoundsInv
  <1> QED
    BY <1>1, <1>2, <1>3, <1>4, <1>5, <1>6, <1>7, <1>8, <1>9 DEF Next

\* The log directory starts out empty.
LEMMA LogTypeInit == Init => LogTypeInv
  BY LogAssumption DEF Init, LogTypeInv, TypeOK, SizeIsCurrent, BoundsInv, FileNum

\* The invariant holds through any failures of the system calls and restarts.
THEOREM LogTypeInvariant == Spec => []LogTypeInv
  BY LogTypeInit, LogTypeNext, PTL DEF Spec

\* No file beyond max_num is opened or left behind, whatever the number and the
\* size of the files, failing renames and deaths in a rotation included.
THEOREM LogTypeCorrect == Spec => []TypeOK
  <1>1. LogTypeInv => TypeOK BY DEF LogTypeInv
  <1> QED BY <1>1, LogTypeInvariant, PTL

\* Where printlog writes, its size is the size of the file, unless a write to
\* this file has failed; whatever failing writes and flushes did to the size of
\* one file is over with the next.
THEOREM LogSizeCurrent == Spec => []SizeIsCurrent
  <1>1. LogTypeInv => SizeIsCurrent BY DEF LogTypeInv
  <1> QED BY <1>1, LogTypeInvariant, PTL
-----------------------------------------------------------------------------
\* The history of the log, as long as renames do not fail and no daemon dies
\* between two of them.

\* What the types say of the constants and of the lines in the files.
LEMMA Limits ==
  ASSUME LogTypeInv
  PROVE  /\ max_num \in Nat /\ max_num >= 1 /\ max_size \in Nat /\ max_size >= 1
         /\ MaxLines \in Nat /\ logged \in Nat /\ p_num \in 0 .. max_num
         /\ content \in [FileNum -> Seq(1 .. MaxLines)]
         /\ \A f \in FileNum : Len(content[f]) \in Nat
         /\ FileNum = 0 .. max_num
  BY LogAssumption DEF LogTypeInv, TypeOK, FileNum

\* What the scan finds, where the numbers in use are 0 .. k - 1.
LEMMA LastLogIs ==
  ASSUME LogTypeInv, NEW k \in 0 .. max_num + 1, present = 0 .. k - 1, p_num <= k
  PROVE  LastLog = IF k >= max_num THEN max_num ELSE IF k = 0 THEN 0 ELSE k - 1
  <1> DEFINE missing == {n \in p_num .. max_num - 1 : n \notin present}
  <1>1. missing = {} => LastLog = max_num
    BY DEF LastLog
  <1>2. missing # {}
          => LastLog = IF Min(missing) > 0 THEN Min(missing) - 1 ELSE 0
    BY DEF LastLog
  <1>3. CASE k >= max_num
    <2>1. missing = {}
      BY <1>3, Limits
    <2> QED BY <1>1, <1>3, <2>1
  <1>4. CASE k < max_num
    <2>1. k \in missing /\ missing \in SUBSET Nat /\ \A n \in missing : n >= k
      BY <1>4, Limits
    <2>2. Min(missing) \in missing /\ \A n \in missing : Min(missing) <= n
      BY <2>1, MinIsLeast
    <2>3. Min(missing) = k
      BY <2>1, <2>2
    <2>4. missing # {}
      BY <2>1
    <2> HIDE DEF missing
    <2>5. LastLog = IF k > 0 THEN k - 1 ELSE 0
      BY <1>2, <2>3, <2>4
    <2> QED BY <1>4, <2>5, Limits
  <1> QED BY <1>3, <1>4, Limits

\* A rotation that began goes on to its end.
LEMMA RotationWhole ==
  ASSUME LogTypeInv, NumbersInv, ~RotationMayBreak, next_log_rename
  PROVE  /\ pc = "rename" /\ p_num = max_num /\ i \in 1 .. max_num
         /\ present = FileNum \ {i - 1}
         /\ present' = FileNum \ {i}
         /\ content' = [content EXCEPT ![i - 1] = content[i], ![i] = <<>>]
         /\ content'[i - 1] = content[i] /\ content'[i] = <<>>
         /\ \A f \in FileNum \ {i - 1, i} : content'[f] = content[f]
         /\ IF i < max_num THEN i' = i + 1 /\ pc' = "rename"
                           ELSE i' = 0 /\ pc' = "fopen"
         /\ UNCHANGED <<p_num, logged>>
  <1>1. /\ pc = "rename" /\ p_num = max_num /\ i \in 1 .. max_num
        /\ present = FileNum \ {i - 1}
    <2>1. pc = "rename" /\ p_num = max_num /\ i \in FileNum /\ i > 0
      BY DEF next_log_rename, LogTypeInv, TypeOK, BoundsInv
    <2>2. present = FileNum \ {i - 1}
      BY <2>1 DEF NumbersInv
    <2> QED BY <2>1, <2>2, Limits
  <1>2. i \in present /\ i \in FileNum /\ i - 1 \in FileNum /\ i # i - 1
    BY <1>1, Limits
  <1>3. /\ present' = (present \ {i}) \cup {i - 1}
        /\ content' = [content EXCEPT ![i - 1] = content[i], ![i] = <<>>]
    BY <1>2 DEF next_log_rename
  <1>4. /\ present' = FileNum \ {i}
        /\ content'[i - 1] = content[i] /\ content'[i] = <<>>
        /\ \A f \in FileNum \ {i - 1, i} : content'[f] = content[f]
    BY <1>1, <1>2, <1>3, Limits
  <1>5. /\ IF i < max_num THEN i' = i + 1 /\ pc' = "rename"
                          ELSE i' = 0 /\ pc' = "fopen"
        /\ UNCHANGED <<p_num, logged>>
    BY <1>1 DEF next_log_rename
  <1> QED BY <1>1, <1>3, <1>4, <1>5

\* The numbers in use stay without a gap.
LEMMA NumbersNext ==
  ASSUME LogTypeInv, NumbersInv, ~RotationMayBreak, [Next]_vars
  PROVE  NumbersInv'
  <1> USE Limits
  <1>k. ASSUME pc # "rename"
        PROVE  \E k \in 0 .. max_num + 1 :
                 /\ present = 0 .. k - 1
                 /\ pc = "idle" => p_num = k - 1
                 /\ pc = "open" => p_num <= k
                 /\ pc = "unlink" => k = max_num + 1
                 /\ pc = "fopen" => p_num \in {k - 1, k}
    BY <1>k DEF NumbersInv
  <1>c. \A f \in FileNum \ present : content[f] = <<>>
    BY DEF NumbersInv
  <1>1. CASE printlog
    <2>1. PICK k \in 0 .. max_num + 1 : present = 0 .. k - 1 /\ p_num = k - 1
      BY <1>1, <1>k DEF printlog
    <2>2. \A f \in FileNum \ present' : content'[f] = <<>>
      <3>1. present' = present
        BY <1>1, PrintlogIs
      <3>2. \A f \in FileNum \ {p_num} : content'[f] = content[f]
        BY <1>1, PrintlogIs
      <3> QED BY <1>c, <2>1, <3>1, <3>2
    <2>3. present' = 0 .. k - 1 /\ p_num' = k - 1 /\ pc' \in {"open", "idle"}
      BY <1>1, <2>1, PrintlogIs
    <2> QED BY <2>2, <2>3 DEF NumbersInv
  <1>2. CASE open_log_file
    <2>1. PICK k \in 0 .. max_num + 1 : present = 0 .. k - 1 /\ p_num <= k
      BY <1>2, <1>k DEF open_log_file
    <2> DEFINE full == LastLog \in present /\ Len(content[LastLog]) >= max_size
    <2>2. /\ p_num' = IF full /\ LastLog < max_num THEN LastLog + 1 ELSE LastLog
          /\ pc' = IF full /\ LastLog >= max_num THEN "unlink" ELSE "fopen"
          /\ UNCHANGED <<present, content>>
      BY <1>2 DEF open_log_file
    <2>3. LastLog = IF k >= max_num THEN max_num ELSE IF k = 0 THEN 0 ELSE k - 1
      BY <2>1, LastLogIs
    <2>4. full => LastLog \in present
      OBVIOUS
    <2> HIDE DEF full
    <2>5. /\ pc' \in {"unlink", "fopen"}
          /\ pc' = "unlink" => k = max_num + 1
          /\ pc' = "fopen" => p_num' \in {k - 1, k}
      BY <2>1, <2>2, <2>3, <2>4
    <2>6. \A f \in FileNum \ present' : content'[f] = <<>>
      BY <1>c, <2>2
    <2> QED BY <2>1, <2>2, <2>5, <2>6 DEF NumbersInv
  <1>3. CASE open_log_file_stat_fails
    <2>1. PICK k \in 0 .. max_num + 1 : present = 0 .. k - 1 /\ p_num <= k
      BY <1>3, <1>k DEF open_log_file_stat_fails
    <2>2. p_num' <= k
      BY <1>3, <2>1, LastLogIs DEF open_log_file_stat_fails
    <2> QED BY <1>3, <1>c, <2>1, <2>2 DEF open_log_file_stat_fails, NumbersInv
  <1>4. CASE next_log_unlink
    <2>1. present = 0 .. max_num
      BY <1>4, <1>k DEF next_log_unlink
    <2>2. CASE pc' = "rename"
      <3>1. present' = FileNum \ {0} /\ content' = [content EXCEPT ![0] = <<>>] /\ i' = 1
        BY <1>4, <2>1, <2>2 DEF next_log_unlink
      <3> QED BY <2>2, <3>1 DEF NumbersInv
    <2>3. CASE pc' # "rename"
      <3>1. pc' = "fopen" /\ UNCHANGED <<present, content, p_num>> /\ p_num = max_num
        BY <1>4, <2>3 DEF next_log_unlink, LogTypeInv, BoundsInv
      <3> QED BY <1>c, <2>1, <3>1 DEF NumbersInv
    <2> QED BY <2>2, <2>3
  <1>5. CASE next_log_rename
    <2>1. \A f \in FileNum \ present' : content'[f] = <<>>
      BY <1>5, RotationWhole
    <2>2. CASE i < max_num
      BY <1>5, <2>1, <2>2, RotationWhole DEF NumbersInv
    <2>3. CASE ~(i < max_num)
      <3>1. /\ i = max_num /\ present' = FileNum \ {max_num}
            /\ pc' = "fopen" /\ p_num' = max_num
        BY <1>5, <2>3, RotationWhole
      <3>2. FileNum = 0 .. max_num /\ max_num \in Nat
        BY Limits
      <3>3. FileNum \ {max_num} = 0 .. max_num - 1
        BY ONLY <3>2
      <3>4. /\ max_num \in 0 .. max_num + 1
            /\ present' = 0 .. max_num - 1
            /\ p_num' \in {max_num - 1, max_num}
        BY ONLY <3>1, <3>2, <3>3
      <3> QED BY <2>1, <3>1, <3>4 DEF NumbersInv
    <2> QED BY <2>2, <2>3
  <1>6. CASE open_log_file_append
    <2>1. PICK k \in 0 .. max_num + 1 : present = 0 .. k - 1 /\ p_num \in {k - 1, k}
      BY <1>6, <1>k DEF open_log_file_append
    <2>2. present' = 0 .. p_num /\ p_num' = p_num /\ content' = content /\ pc' = "idle"
      BY <1>6, <2>1 DEF open_log_file_append
    <2>3. \A f \in FileNum \ present' : content'[f] = <<>>
      BY <1>c, <2>1, <2>2
    <2>4. p_num + 1 \in 0 .. max_num + 1 /\ present' = 0 .. (p_num + 1) - 1
          /\ p_num' = (p_num + 1) - 1
      BY <2>2
    <2> QED BY <2>2, <2>3, <2>4 DEF NumbersInv
  <1>7. CASE open_log_file_fails
    <2>1. PICK k \in 0 .. max_num + 1 : present = 0 .. k - 1 /\ p_num \in {k - 1, k}
      BY <1>7, <1>k DEF open_log_file_fails
    <2> QED BY <1>7, <1>c, <2>1 DEF open_log_file_fails, NumbersInv
  <1>8. CASE log_init
    <2>1. PICK k \in 0 .. max_num + 1 : present = 0 .. k - 1
      BY <1>8, <1>k DEF log_init
    <2> QED BY <1>8, <1>c, <2>1 DEF log_init, NumbersInv
  <1>9. CASE UNCHANGED vars
    BY <1>9 DEF vars, NumbersInv
  <1> QED
    BY <1>1, <1>2, <1>3, <1>4, <1>5, <1>6, <1>7, <1>8, <1>9 DEF Next

\* All files but the last and one stay full.
LEMMA FullNext ==
  ASSUME LogTypeInv, NumbersInv, FullInv, ~RotationMayBreak, [Next]_vars
  PROVE  FullInv'
  <1> USE Limits
  <1>s. PICK s \in FileNum :
          /\ \A f \in present \ {s, max_num} : Full(f)
          /\ pc # "rename" /\ max_num - 1 \notin present => s + 1 \notin present
          /\ pc \in {"unlink", "rename"} => \A f \in present \ {s} : Full(f)
          /\ pc = "fopen" /\ p_num \notin present /\ p_num \in 1 .. max_num - 1
               => Full(p_num - 1)
    BY DEF FullInv
  <1>k. ASSUME pc # "rename"
        PROVE  \E k \in 0 .. max_num + 1 :
                 /\ present = 0 .. k - 1
                 /\ pc = "idle" => p_num = k - 1
                 /\ pc = "open" => p_num <= k
                 /\ pc = "unlink" => k = max_num + 1
                 /\ pc = "fopen" => p_num \in {k - 1, k}
    BY <1>k DEF NumbersInv
  <1>1. CASE printlog
    <2>1. /\ present' = present /\ p_num' = p_num /\ pc = "idle"
          /\ pc' \in {"open", "idle"}
          /\ \/ content' = content
             \/ /\ logged < MaxLines /\ logged' = logged + 1
                /\ content' = [content EXCEPT ![p_num] = Append(@, logged')]
      BY <1>1, PrintlogIs
    <2>2. \A f \in FileNum : Len(content'[f]) >= Len(content[f])
      <3> SUFFICES ASSUME content' # content
                   PROVE  \A f \in FileNum : Len(content'[f]) >= Len(content[f])
        OBVIOUS
      <3>1. logged' \in 1 .. MaxLines
        BY <2>1
      <3>2. Len(Append(content[p_num], logged')) = Len(content[p_num]) + 1
        BY <3>1
      <3>3. \A f \in FileNum :
              content'[f] = IF f = p_num THEN Append(content[p_num], logged')
                            ELSE content[f]
        BY <2>1
      <3>4. \A f \in FileNum : Len(content[f]) \in Nat
        BY Limits
      <3> SUFFICES ASSUME NEW f \in FileNum PROVE Len(content'[f]) >= Len(content[f])
        OBVIOUS
      <3>5. CASE f = p_num
        <4>1. content'[f] = Append(content[p_num], logged')
          BY ONLY <3>3, <3>5, f \in FileNum
        <4>2. Len(content'[f]) = Len(content[f]) + 1
          BY ONLY <3>2, <3>5, <4>1
        <4>3. Len(content[f]) \in Nat
          BY <3>4
        <4> QED BY ONLY <4>2, <4>3
      <3>6. CASE f # p_num
        <4>1. content'[f] = content[f]
          BY ONLY <3>3, <3>6, f \in FileNum
        <4>2. Len(content[f]) \in Nat
          BY <3>4
        <4> QED BY ONLY <4>1, <4>2
      <3> QED BY <3>5, <3>6
    <2>3. \A f \in FileNum : Full(f) => Full(f)'
      BY <2>2 DEF Full
    <2>4. present \subseteq FileNum
      BY DEF LogTypeInv, TypeOK
    <2> QED BY <1>s, <2>1, <2>3, <2>4 DEF FullInv
  <1>2. CASE open_log_file
    <2>1. PICK k \in 0 .. max_num + 1 : present = 0 .. k - 1 /\ p_num <= k
      BY <1>2, <1>k DEF open_log_file
    <2>2. /\ p_num' = IF LastLog \in present /\ Full(LastLog) /\ LastLog < max_num
                      THEN LastLog + 1 ELSE LastLog
          /\ pc' = IF LastLog \in present /\ Full(LastLog) /\ LastLog >= max_num
                   THEN "unlink" ELSE "fopen"
          /\ UNCHANGED <<present, content>> /\ pc = "open"
      BY <1>2 DEF open_log_file, Full
    <2>3. LastLog = IF k >= max_num THEN max_num ELSE IF k = 0 THEN 0 ELSE k - 1
      BY <2>1, LastLogIs
    <2>4. \A f : Full(f)' = Full(f)
      BY <2>2 DEF Full
    <2>5. pc' # "rename" /\ (pc' = "unlink" => Full(max_num))
      BY <2>2, <2>3, <2>1
    <2>6. pc' = "fopen" /\ p_num' \notin present /\ p_num' \in 1 .. max_num - 1
            => Full(p_num' - 1)
      <3> SUFFICES ASSUME pc' = "fopen", p_num' \notin present,
                          p_num' \in 1 .. max_num - 1
                   PROVE  Full(p_num' - 1)
        OBVIOUS
      <3>1. LastLog \in present /\ Full(LastLog) /\ p_num' = LastLog + 1
        BY <2>1, <2>2, <2>3
      <3>2. p_num' - 1 = LastLog
        BY <2>1, <2>3, <3>1
      <3> QED BY <3>1, <3>2
    <2>7. \A f \in present' \ {s, max_num} : Full(f)'
      BY <1>s, <2>2, <2>4
    <2>8. pc' \in {"unlink", "rename"} => \A f \in present' \ {s} : Full(f)'
      BY <2>4, <2>5, <2>7
    <2>9. max_num - 1 \notin present' => s + 1 \notin present'
      BY <1>s, <2>2
    <2>10. pc' = "fopen" /\ p_num' \notin present' /\ p_num' \in 1 .. max_num - 1
             => Full(p_num - 1)'
      BY <2>2, <2>6 DEF Full
    <2> QED BY <2>7, <2>8, <2>9, <2>10 DEF FullInv
  <1>3. CASE open_log_file_stat_fails \/ open_log_file_fails \/ log_init
    <2>1. pc # "rename" /\ pc' = "open" /\ UNCHANGED <<present, content>>
      BY <1>3 DEF open_log_file_stat_fails, open_log_file_fails, log_init
    <2>2. \A f : Full(f)' = Full(f)
      BY <2>1 DEF Full
    <2> QED BY <1>s, <2>1, <2>2 DEF FullInv
  <1>4. CASE next_log_unlink
    <2>1. present = 0 .. max_num /\ pc = "unlink"
      BY <1>4, <1>k DEF next_log_unlink
    <2>2. CASE pc' = "rename"
      <3>1. present' = FileNum \ {0} /\ content' = [content EXCEPT ![0] = <<>>]
        BY <1>4, <2>1, <2>2 DEF next_log_unlink
      <3>2. \A f \in present' : f \in present /\ Full(f)' = Full(f)
        BY <2>1, <3>1 DEF Full
      <3> QED BY <1>s, <2>1, <2>2, <3>2 DEF FullInv
    <2>3. CASE pc' # "rename"
      <3>1. pc' = "fopen" /\ UNCHANGED <<present, content, p_num>>
        BY <1>4, <2>3 DEF next_log_unlink
      <3>2. \A f : Full(f)' = Full(f)
        BY <3>1 DEF Full
      <3>3. max_num - 1 \in present' /\ p_num' \in present'
        BY <2>1, <3>1
      <3> QED BY <1>s, <3>1, <3>2, <3>3 DEF FullInv
    <2> QED BY <2>2, <2>3
  <1>5. CASE next_log_rename
    <2> DEFINE t == IF s = i THEN i - 1 ELSE s
    <2>1. /\ pc = "rename" /\ i \in 1 .. max_num /\ p_num' = max_num
          /\ present = FileNum \ {i - 1} /\ present' = FileNum \ {i}
          /\ content'[i - 1] = content[i]
          /\ \A f \in FileNum \ {i - 1, i} : content'[f] = content[f]
          /\ pc' = "fopen" => i = max_num
          /\ pc' \in {"rename", "fopen"}
      BY <1>5, RotationWhole
    <2>2. t \in FileNum
      BY <2>1
    <2>3. ASSUME NEW f \in present' \ {t} PROVE Full(f)'
      <3>1. CASE f = i - 1
        <4>1. s # i /\ Full(i)
          BY <1>s, <2>1, <3>1
        <4> QED BY <2>1, <3>1, <4>1 DEF Full
      <3>2. CASE f # i - 1
        <4>1. f \in FileNum \ {i - 1, i} /\ f # s
          BY <2>1, <2>3, <3>2
        <4>2. Full(f)
          BY <1>s, <2>1, <4>1
        <4> QED BY <2>1, <4>1, <4>2 DEF Full
      <3> QED BY <3>1, <3>2
    <2>4. pc' = "fopen" => max_num - 1 \in present'
      BY <2>1
    <2> HIDE DEF t
    <2>5. \A f \in present' \ {t, max_num} : Full(f)'
      BY <2>3
    <2>6. p_num' \notin 1 .. max_num - 1 /\ pc' \in {"rename", "fopen"}
      BY <2>1
    <2> QED BY <2>2, <2>3, <2>4, <2>5, <2>6 DEF FullInv
  <1>6. CASE open_log_file_append
    <2>1. PICK k \in 0 .. max_num + 1 : present = 0 .. k - 1 /\ p_num \in {k - 1, k}
      BY <1>6, <1>k DEF open_log_file_append
    <2>2. /\ present' = present \cup {p_num} /\ UNCHANGED <<content, p_num>>
          /\ pc = "fopen" /\ pc' = "idle"
      BY <1>6 DEF open_log_file_append
    <2>3. \A f : Full(f)' = Full(f)
      BY <2>2 DEF Full
    <2>4. CASE p_num \in present
      <3>1. present' = present
        BY <2>2, <2>4
      <3> QED BY <1>s, <2>2, <2>3, <3>1 DEF FullInv
    <2>5. CASE p_num \notin present /\ p_num = max_num
      <3>1. max_num - 1 \in present' /\ present' \ {s, max_num} \subseteq present \ {s, max_num}
        BY <2>1, <2>2, <2>5
      <3> QED BY <1>s, <2>2, <2>3, <3>1 DEF FullInv
    <2>6. CASE p_num \notin present /\ p_num < max_num
      <3>1. p_num = k /\ present' = 0 .. k /\ k \in FileNum
        BY <2>1, <2>2, <2>6
      <3>2. ASSUME NEW f \in 0 .. k - 1 PROVE Full(f)
        <4>1. CASE f = k - 1
          BY <1>s, <2>2, <2>6, <3>1, <4>1
        <4>2. CASE f < k - 1
          <5>1. s + 1 \notin present
            BY <1>s, <2>1, <2>2, <2>6, <3>1
          <5>2. f # s /\ f # max_num /\ f \in present
            BY <2>1, <2>6, <3>1, <4>2, <5>1
          <5> QED BY <1>s, <5>2
        <4> QED BY <4>1, <4>2
      <3>3. k + 1 \notin present' /\ present' \ {k, max_num} \subseteq 0 .. k - 1
        BY <3>1
      <3> QED BY <2>2, <2>3, <3>1, <3>2, <3>3 DEF FullInv
    <2> QED BY <2>4, <2>5, <2>6
  <1>9. CASE UNCHANGED vars
    <2>1. \A f : Full(f)' = Full(f)
      BY <1>9 DEF vars, Full
    <2> QED BY <1>9, <2>1 DEF vars, FullInv
  <1> QED
    BY <1>1, <1>2, <1>3, <1>4, <1>5, <1>6, <1>9 DEF Next

\* Lines(a, z), the lines after a up to z: its type, its length, a line more ...
LEMMA LinesAre ==
  ASSUME NEW a \in Nat, NEW z \in Nat, a <= z
  PROVE  /\ Lines(a, z) \in Seq(Nat)
         /\ Len(Lines(a, z)) = z - a
         /\ \A k \in 1 .. z - a : Lines(a, z)[k] = a + k
         /\ Append(Lines(a, z), z + 1) = Lines(a, z + 1)
  <1>1. z - a \in Nat /\ \A k \in 1 .. z - a : a + k \in Nat
    OBVIOUS
  <1>2. Lines(a, z) \in [1 .. z - a -> Nat]
    BY <1>1 DEF Lines
  <1>3. Lines(a, z) \in Seq(Nat) /\ Len(Lines(a, z)) = z - a
    BY <1>1, <1>2
  <1>4. Append(Lines(a, z), z + 1) = Lines(a, z + 1)
    <2>1. (z + 1) - a = (z - a) + 1
      OBVIOUS
    <2>2. Append(Lines(a, z), z + 1)
            = [k \in 1 .. (z - a) + 1 |-> IF k = (z - a) + 1 THEN z + 1 ELSE Lines(a, z)[k]]
      BY <1>3
    <2>3. \A k \in 1 .. (z - a) + 1 :
            (IF k = (z - a) + 1 THEN z + 1 ELSE Lines(a, z)[k]) = a + k
      BY <1>1 DEF Lines
    <2> QED BY <2>1, <2>2, <2>3 DEF Lines
  <1> QED BY <1>3, <1>4 DEF Lines

\* ... no lines ...
LEMMA NoLines ==
  ASSUME NEW a \in Nat
  PROVE  Lines(a, a) = <<>>
  <1> DEFINE s == Lines(a, a)
  <1>1. s \in Seq(Nat) /\ Len(s) = a - a
    <2>1. a <= a
      OBVIOUS
    <2> QED BY <2>1, LinesAre
  <1> HIDE DEF s
  <1>2. s = <<>>
    BY <1>1
  <1> QED BY <1>2 DEF s

\* What the concatenation of two sequences is.
LEMMA ConcatIs ==
  ASSUME NEW p \in Seq(Nat), NEW q \in Seq(Nat)
  PROVE  /\ p \o q \in Seq(Nat)
         /\ Len(p \o q) = Len(p) + Len(q)
         /\ \A k \in 1 .. Len(p) + Len(q) :
              (p \o q)[k] = IF k <= Len(p) THEN p[k] ELSE q[k - Len(p)]
  OBVIOUS

\* ... two ranges that meet, and a range without its first lines.
LEMMA LinesJoin ==
  ASSUME NEW a \in Nat, NEW m \in Nat, NEW z \in Nat, a <= m, m <= z
  PROVE  /\ Lines(a, m) \o Lines(m, z) = Lines(a, z)
         /\ SubSeq(Lines(a, z), (m - a) + 1, z - a) = Lines(m, z)
  <1>1. Lines(a, m) \in Seq(Nat) /\ Len(Lines(a, m)) = m - a
    BY LinesAre
  <1>2. Lines(m, z) \in Seq(Nat) /\ Len(Lines(m, z)) = z - m
    BY LinesAre
  <1>0. Lines(a, z) \in Seq(Nat) /\ Len(Lines(a, z)) = z - a
    <2>1. a <= z
      OBVIOUS
    <2> QED BY <2>1, LinesAre
  <1>3. Lines(a, m) \o Lines(m, z) = Lines(a, z)
    <2> DEFINE s == Lines(a, m) \o Lines(m, z)
    <2>1. s \in Seq(Nat) /\ Len(s) = z - a
      <3>1. s \in Seq(Nat) /\ Len(s) = Len(Lines(a, m)) + Len(Lines(m, z))
        BY <1>1, <1>2, ConcatIs
      <3>2. (m - a) + (z - m) = z - a
        OBVIOUS
      <3> HIDE DEF s
      <3> QED BY <1>1, <1>2, <3>1, <3>2
    <2>2. ASSUME NEW k \in 1 .. z - a
          PROVE  s[k] = a + k
      <3>0. k \in 1 .. (m - a) + (z - m)
        OBVIOUS
      <3>1. s[k] = IF k <= m - a THEN Lines(a, m)[k] ELSE Lines(m, z)[k - (m - a)]
        <4> DEFINE p == Lines(a, m)
                   q == Lines(m, z)
        <4>1. p \in Seq(Nat) /\ q \in Seq(Nat) /\ Len(p) = m - a /\ Len(q) = z - m
          BY <1>1, <1>2
        <4> HIDE DEF p, q
        <4>2. (p \o q)[k] = IF k <= m - a THEN p[k] ELSE q[k - (m - a)]
          BY <3>0, <4>1, ConcatIs
        <4> QED BY <4>2 DEF p, q
      <3> HIDE DEF s
      <3>2. CASE k <= m - a
        BY <3>1, <3>2 DEF Lines
      <3>3. CASE k > m - a
        <4>1. k - (m - a) \in 1 .. z - m /\ m + (k - (m - a)) = a + k
          BY <3>3
        <4>2. Lines(m, z)[k - (m - a)] = m + (k - (m - a))
          BY <4>1 DEF Lines
        <4>3. s[k] = Lines(m, z)[k - (m - a)]
          BY <3>1, <3>3
        <4> QED BY <4>1, <4>2, <4>3
      <3> QED BY <3>2, <3>3
    <2> HIDE DEF s
    <2>3. s = [k \in 1 .. z - a |-> s[k]]
      BY <2>1
    <2>4. s = Lines(a, z)
      BY <2>2, <2>3 DEF Lines
    <2> QED BY <2>4 DEF s
  <1>4. SubSeq(Lines(a, z), (m - a) + 1, z - a) = Lines(m, z)
    <2>1. SubSeq(Lines(a, z), (m - a) + 1, z - a)
            = [k \in 1 .. (1 + (z - a)) - ((m - a) + 1) |-> Lines(a, z)[k + (m - a)]]
      BY <1>0
    <2>2. (1 + (z - a)) - ((m - a) + 1) = z - m
      OBVIOUS
    <2>3. ASSUME NEW k \in 1 .. z - m
          PROVE  Lines(a, z)[k + (m - a)] = m + k
      <3>1. k + (m - a) \in 1 .. z - a /\ a + (k + (m - a)) = m + k
        OBVIOUS
      <3> QED BY <3>1 DEF Lines
    <2> QED BY <2>1, <2>2, <2>3 DEF Lines
  <1> QED BY <1>3, <1>4

\* What a cut says of two files.
LEMMA CutIs ==
  ASSUME LogTypeInv, NEW b \in [0 .. max_num + 1 -> 0 .. logged], CutAt(b)
  PROVE  /\ \A f \in 0 .. max_num + 1 : b[f] \in Nat /\ b[f] <= logged
         /\ \A f \in FileNum :
              /\ b[f] \in Nat /\ b[f + 1] \in Nat /\ b[f] <= b[f + 1]
              /\ content[f] = Lines(b[f], b[f + 1])
              /\ Len(content[f]) = b[f + 1] - b[f]
         /\ b[max_num + 1] = logged
  <1> USE Limits
  <1>1. \A f \in 0 .. max_num + 1 : b[f] \in Nat /\ b[f] <= logged
    OBVIOUS
  <1>2. ASSUME NEW f \in FileNum
        PROVE  /\ b[f] \in Nat /\ b[f + 1] \in Nat /\ b[f] <= b[f + 1]
               /\ content[f] = Lines(b[f], b[f + 1])
               /\ Len(content[f]) = b[f + 1] - b[f]
    <2>1. f \in 0 .. max_num + 1 /\ f + 1 \in 0 .. max_num + 1 /\ f <= f + 1
      OBVIOUS
    <2>2. b[f] \in Nat /\ b[f + 1] \in Nat /\ b[f] <= b[f + 1]
      BY <1>1, <2>1 DEF CutAt
    <2>3. content[f] = Lines(b[f], b[f + 1])
      BY DEF CutAt
    <2> QED BY <2>2, <2>3, LinesAre
  <1> QED BY <1>1, <1>2 DEF CutAt

\* The files, read in the order of their numbers, are the lines from the first
\* cut to the last.
LEMMA AllLinesAre ==
  ASSUME LogTypeInv, NEW b \in [0 .. max_num + 1 -> 0 .. logged], CutAt(b)
  PROVE  AllLines = Lines(b[0], logged) /\ b[0] \in Nat /\ b[0] <= logged
  <1> DEFINE n == max_num + 1
             seqs == [k \in 1 .. n |-> content[k - 1]]
  <1>1. n \in Nat \ {0} /\ n \in Int /\ 1 \in Int /\ 1 <= n /\ n = max_num + 1
    BY Limits
  <1>2. /\ \A f \in 0 .. n : b[f] \in Nat /\ b[0] <= b[f]
        /\ \A k \in 1 .. n : /\ content[k - 1] = Lines(b[k - 1], b[k])
                            /\ b[k - 1] \in Nat /\ b[k] \in Nat /\ b[k - 1] <= b[k]
    <2>1. ASSUME NEW f \in 0 .. n
          PROVE  b[f] \in Nat /\ b[0] <= b[f]
      <3>1. f \in 0 .. max_num + 1 /\ 0 \in 0 .. max_num + 1 /\ 0 <= f
        BY Limits
      <3>2. b[f] \in Nat
        BY <3>1, CutIs
      <3>3. b[0] <= b[f]
        BY <3>1 DEF CutAt
      <3> QED BY <3>2, <3>3
    <2>2. ASSUME NEW k \in 1 .. n
          PROVE  /\ content[k - 1] = Lines(b[k - 1], b[k])
                 /\ b[k - 1] \in Nat /\ b[k] \in Nat /\ b[k - 1] <= b[k]
      <3>1. k - 1 \in FileNum /\ (k - 1) + 1 = k
        BY Limits
      <3> QED BY <3>1, CutIs
    <2> QED BY <2>1, <2>2
  <1>3. seqs \in [1 .. n -> Seq(Nat)]
    <2>1. ASSUME NEW k \in 1 .. n PROVE content[k - 1] \in Seq(Nat)
      BY <1>2, LinesAre
    <2> HIDE DEF n
    <2> QED BY ONLY <2>1
  <1>4. AllLines = FlattenSeq(seqs)
    BY DEF AllLines
  <1>5. \A k \in 1 .. n : seqs[k] = Lines(b[k - 1], b[k])
    BY <1>2
  <1> HIDE DEF seqs, n
  <1>6. PICK f \in [1 .. n -> Seq(Nat)] :
          /\ f[1] = seqs[1]
          /\ \A k \in 1 .. n - 1 : f[k + 1] = f[k] \o seqs[k + 1]
          /\ FlattenSeq(seqs) = f[n]
    <2> DEFINE X == Nat
    <2>1. seqs \in [1 .. n -> Seq(X)]
      BY <1>3
    <2> HIDE DEF X
    <2>2. \E f \in [1 .. n -> Seq(X)] :
            Concatenates(f, n, seqs) /\ FlattenSeq(seqs) = f[n]
      BY <1>1, <2>1, FlattenSteps
    <2> QED BY <2>2 DEF X, Concatenates
  <1> DEFINE P == {k \in 1 .. n : f[k] = Lines(b[0], b[k])}
  <1>7. 1 \in P
    BY <1>1, <1>5, <1>6
  <1>8. ASSUME NEW k \in 1 .. n - 1, k \in P PROVE k + 1 \in P
    <2>1. k \in 0 .. n /\ k + 1 \in 1 .. n /\ (k + 1) - 1 = k /\ 0 \in 0 .. n
      BY <1>1
    <2>2. f[k + 1] = Lines(b[0], b[k]) \o Lines(b[k], b[k + 1])
      BY <1>5, <1>6, <1>8, <2>1
    <2>3. /\ b[0] \in Nat /\ b[k] \in Nat /\ b[k + 1] \in Nat
          /\ b[0] <= b[k] /\ b[k] <= b[k + 1]
      BY <1>2, <2>1
    <2>4. f[k + 1] = Lines(b[0], b[k + 1])
      BY <2>2, <2>3, LinesJoin
    <2> QED BY <2>1, <2>4
  <1> HIDE DEF P
  <1>9. 1 .. n \subseteq P
    BY <1>1, <1>7, <1>8, IntervalInduction
  <1>10. f[n] = Lines(b[0], b[n])
    BY <1>1, <1>9 DEF P
  <1>11. b[n] = logged /\ b[0] \in Nat /\ b[0] <= logged
    <2>1. b[max_num + 1] = logged
      BY CutIs
    <2> QED BY <1>1, <1>2, <2>1
  <1> QED BY <1>4, <1>6, <1>10, <1>11

\* A line that printlog writes goes to the last file that has lines: all cuts behind it move up.
LEMMA CutWhenLogged ==
  ASSUME LogTypeInv, NumbersInv, printlog, logged' # logged,
         NEW b \in [0 .. max_num + 1 -> 0 .. logged], CutAt(b)
  PROVE  \E d \in [0 .. max_num + 1 -> 0 .. logged'] : CutAt(d)' /\ d[0] = b[0]
  <1> USE Limits
  <1>1. /\ logged' = logged + 1 /\ pc = "idle"
        /\ content' = [content EXCEPT ![p_num] = Append(@, logged')]
    BY PrintlogIs
  <1>2. \A f \in FileNum : f > p_num => content[f] = <<>>
    BY <1>1 DEF NumbersInv
  <1>b. /\ \A f \in 0 .. max_num + 1 : b[f] \in Nat /\ b[f] <= logged
        /\ \A f \in FileNum : /\ b[f] \in Nat /\ b[f + 1] \in Nat /\ b[f] <= b[f + 1]
                             /\ content[f] = Lines(b[f], b[f + 1])
                             /\ Len(content[f]) = b[f + 1] - b[f]
        /\ b[max_num + 1] = logged
    BY CutIs
  <1> DEFINE P == {f \in p_num + 1 .. max_num + 1 : b[f] = b[p_num + 1]}
  <1>3. p_num + 1 \in P
    OBVIOUS
  <1>4. ASSUME NEW f \in p_num + 1 .. (max_num + 1) - 1, f \in P PROVE f + 1 \in P
    <2>1. f \in FileNum /\ f > p_num /\ f + 1 \in p_num + 1 .. max_num + 1
      OBVIOUS
    <2>2. Len(content[f]) = 0
      BY <1>2, <2>1, EmptyFile
    <2>3. b[f] \in Nat /\ b[f + 1] \in Nat /\ Len(content[f]) = b[f + 1] - b[f]
      BY <2>1, <1>b
    <2>4. b[f + 1] = b[f]
      BY <2>2, <2>3
    <2> QED BY <1>4, <2>1, <2>4
  <1> HIDE DEF P
  <1>5. p_num + 1 .. max_num + 1 \subseteq P
    <2> DEFINE m == p_num + 1
               n == max_num + 1
    <2>1. m \in Int /\ n \in Int /\ m \in P
      BY <1>3
    <2>2. \A f \in m .. n - 1 : f \in P => f + 1 \in P
      BY <1>4
    <2> HIDE DEF m, n
    <2>3. m .. n \subseteq P
      BY <2>1, <2>2, IntervalInduction
    <2> QED BY <2>3 DEF m, n
  <1>6. \A f \in p_num + 1 .. max_num + 1 : b[f] = logged
    <2>1. max_num + 1 \in p_num + 1 .. max_num + 1
      OBVIOUS
    <2> QED BY <1>5, <2>1, <1>b DEF P
  <1> DEFINE d == [f \in 0 .. max_num + 1 |-> IF f > p_num THEN logged + 1 ELSE b[f]]
  <1>7. d \in [0 .. max_num + 1 -> 0 .. logged']
    BY <1>1
  <1>d. \A f \in 0 .. max_num + 1 : d[f] = IF f > p_num THEN logged + 1 ELSE b[f]
    OBVIOUS
  <1> HIDE DEF d
  <1>8. ASSUME NEW f \in FileNum
        PROVE  content'[f] = Lines(d[f], d[f + 1])
    <2>0. f \in 0 .. max_num + 1 /\ f + 1 \in 0 .. max_num + 1
      OBVIOUS
    <2>1. CASE f = p_num
      <3>1. content[f] = Lines(b[f], logged) /\ b[f] \in Nat /\ b[f] <= logged
        BY <1>6, <2>0, <2>1, <1>b
      <3>2. content'[f] = Append(Lines(b[f], logged), logged + 1)
        BY <1>1, <2>1, <3>1
      <3>3. content'[f] = Lines(b[f], logged + 1)
        BY <3>1, <3>2, LinesAre
      <3>4. d[f] = b[f] /\ d[f + 1] = logged + 1
        BY <1>d, <2>0, <2>1
      <3> QED BY <3>3, <3>4
    <2>2. CASE f < p_num
      <3>1. d[f] = b[f] /\ d[f + 1] = b[f + 1] /\ content'[f] = content[f]
        BY <1>1, <1>d, <2>0, <2>2
      <3> QED BY <3>1, <1>b
    <2>3. CASE f > p_num
      <3>0. f \in Nat /\ p_num \in Nat /\ f + 1 > p_num
        BY <2>0, <2>3
      <3>1. d[f] = logged + 1 /\ d[f + 1] = logged + 1
        BY ONLY <1>d, <2>0, <2>3, <3>0
      <3>2. content'[f] = <<>>
        BY <1>1, <1>2, <2>3
      <3>3. Lines(logged + 1, logged + 1) = <<>>
        BY NoLines
      <3> QED BY <3>1, <3>2, <3>3
    <2> QED BY <2>1, <2>2, <2>3
  <1>9. \A f, g \in 0 .. max_num + 1 : f <= g => d[f] <= d[g]
    <2> SUFFICES ASSUME NEW f \in 0 .. max_num + 1, NEW g \in 0 .. max_num + 1, f <= g
                 PROVE  d[f] <= d[g]
      OBVIOUS
    <2>1. b[f] <= b[g] /\ b[f] \in Nat /\ b[f] <= logged
      BY <1>b DEF CutAt
    <2>2. CASE g > p_num
      <3>1. d[g] = logged + 1 /\ d[f] \in {b[f], logged + 1}
        BY <1>d, <2>2
      <3> QED BY <2>1, <3>1
    <2>3. CASE ~(g > p_num)
      <3>1. d[g] = b[g] /\ d[f] = b[f]
        BY <1>d, <2>3
      <3> QED BY <2>1, <3>1
    <2> QED BY <2>2, <2>3
  <1>10. d[max_num + 1] = logged' /\ d[0] = b[0]
    <2>1. /\ max_num + 1 \in 0 .. max_num + 1 /\ max_num + 1 > p_num
          /\ 0 \in 0 .. max_num + 1 /\ ~(0 > p_num)
      OBVIOUS
    <2> QED BY ONLY <1>1, <1>d, <2>1
  <1>11. PICK e \in [0 .. max_num + 1 -> 0 .. logged'] : e = d
    BY <1>7
  <1>12. CutAt(e)'
    BY <1>8, <1>9, <1>10, <1>11 DEF CutAt
  <1> QED BY <1>10, <1>11, <1>12

\* next_log removes the oldest file: the first cut moves up to the second.
LEMMA CutWhenRemoved ==
  ASSUME LogTypeInv, next_log_unlink, pc' = "rename",
         NEW b \in [0 .. max_num + 1 -> 0 .. logged], CutAt(b)
  PROVE  \E d \in [0 .. max_num + 1 -> 0 .. logged'] : CutAt(d)' /\ d[0] = b[1]
  <1> USE Limits
  <1>1. content' = [content EXCEPT ![0] = <<>>] /\ logged' = logged
    BY DEF next_log_unlink
  <1>b. /\ \A f \in 0 .. max_num + 1 : b[f] \in Nat /\ b[f] <= logged
        /\ \A f \in FileNum : content[f] = Lines(b[f], b[f + 1])
        /\ b[max_num + 1] = logged
    BY CutIs
  <1>m. \A f, g \in 0 .. max_num + 1 : f <= g => b[f] <= b[g]
    BY DEF CutAt
  <1> DEFINE d == [b EXCEPT ![0] = b[1]]
  <1>2. /\ d \in [0 .. max_num + 1 -> 0 .. logged']
        /\ d[0] = b[1] /\ \A f \in 1 .. max_num + 1 : d[f] = b[f]
    BY <1>1
  <1> HIDE DEF d
  <1>3. ASSUME NEW f \in FileNum
        PROVE  content'[f] = Lines(d[f], d[f + 1])
    <2>1. CASE f = 0
      <3>1. content'[f] = <<>> /\ d[f] = b[1] /\ d[f + 1] = b[1] /\ b[1] \in Nat
        BY <1>1, <1>2, <1>b, <2>1
      <3> QED BY <3>1, NoLines
    <2>2. CASE f # 0
      <3>1. content'[f] = content[f] /\ d[f] = b[f] /\ d[f + 1] = b[f + 1]
        BY <1>1, <1>2, <2>2
      <3> QED BY <1>b, <3>1
    <2> QED BY <2>1, <2>2
  <1>4. \A f, g \in 0 .. max_num + 1 : f <= g => d[f] <= d[g]
    <2> SUFFICES ASSUME NEW f \in 0 .. max_num + 1, NEW g \in 0 .. max_num + 1, f <= g
                 PROVE  d[f] <= d[g]
      OBVIOUS
    <2>1. CASE f # 0
      BY <1>2, <1>m, <2>1
    <2>2. CASE f = 0 /\ g = 0
      BY <1>2, <1>b, <2>2
    <2>3. CASE f = 0 /\ g # 0
      <3>1. 1 <= g /\ g \in 1 .. max_num + 1 /\ 1 \in 0 .. max_num + 1
        BY <2>3
      <3> QED BY <1>2, <1>m, <2>3, <3>1
    <2> QED BY <2>1, <2>2, <2>3
  <1>5. d[max_num + 1] = logged'
    BY <1>1, <1>2, <1>b
  <1>6. CutAt(d)'
    BY <1>2, <1>3, <1>4, <1>5 DEF CutAt
  <1> QED BY <1>2, <1>6

\* next_log renames file i to i - 1, which is gone: the cut between them moves
\* behind the lines of the file.
LEMMA CutWhenRenamed ==
  ASSUME LogTypeInv, NumbersInv, ~RotationMayBreak, next_log_rename,
         NEW b \in [0 .. max_num + 1 -> 0 .. logged], CutAt(b)
  PROVE  \E d \in [0 .. max_num + 1 -> 0 .. logged'] : CutAt(d)' /\ d[0] = b[0]
  <1> USE Limits
  <1>1. /\ i \in 1 .. max_num /\ logged' = logged
        /\ pc = "rename" /\ present = FileNum \ {i - 1}
        /\ content'[i - 1] = content[i] /\ content'[i] = <<>>
        /\ \A f \in FileNum \ {i - 1, i} : content'[f] = content[f]
    BY RotationWhole
  <1>b. /\ \A f \in 0 .. max_num + 1 : b[f] \in Nat /\ b[f] <= logged
        /\ \A f \in FileNum : /\ content[f] = Lines(b[f], b[f + 1])
                             /\ Len(content[f]) = b[f + 1] - b[f]
        /\ b[max_num + 1] = logged
    BY CutIs
  <1>m. \A f, g \in 0 .. max_num + 1 : f <= g => b[f] <= b[g]
    BY DEF CutAt
  <1>2. b[i - 1] = b[i]
    <2>1. i - 1 \in FileNum /\ i - 1 \notin present /\ (i - 1) + 1 = i
      BY <1>1
    <2>2. Len(content[i - 1]) = 0
      BY <2>1, EmptyFile DEF NumbersInv
    <2>3. i \in 0 .. max_num + 1 /\ i - 1 \in 0 .. max_num + 1
      BY <1>1
    <2>4. b[i] \in Nat /\ b[i - 1] \in Nat
      BY ONLY <1>b, <2>3
    <2>5. Len(content[i - 1]) = b[i] - b[i - 1]
      BY ONLY <1>b, <2>1
    <2> QED BY ONLY <2>2, <2>4, <2>5
  <1> DEFINE e == [b EXCEPT ![i] = b[i + 1]]
  <1>3. e \in [0 .. max_num + 1 -> 0 .. logged']
    <2>1. i + 1 \in 0 .. max_num + 1
      BY <1>1
    <2> QED BY ONLY <1>1, <2>1, b \in [0 .. max_num + 1 -> 0 .. logged]
  <1>4. PICK d \in [0 .. max_num + 1 -> 0 .. logged'] : d = e
    BY <1>3
  <1>5. \A f \in 0 .. max_num + 1 : d[f] = IF f = i THEN b[i + 1] ELSE b[f]
    BY <1>1, <1>4
  <1> HIDE DEF e
  <1>6. ASSUME NEW f \in FileNum
        PROVE  content'[f] = Lines(d[f], d[f + 1])
    <2>0. f \in 0 .. max_num + 1 /\ f + 1 \in 0 .. max_num + 1 /\ f # f + 1
      OBVIOUS
    <2>1. CASE f = i
      <3>1. content'[f] = <<>> /\ d[f] = b[i + 1] /\ d[f + 1] = b[i + 1] /\ b[i + 1] \in Nat
        BY <1>1, <1>5, <1>b, <2>0, <2>1
      <3> QED BY <3>1, NoLines
    <2>2. CASE f = i - 1
      <3>1. content'[f] = content[i] /\ f + 1 = i
        BY <1>1, <2>2
      <3>2. d[f] = b[i] /\ d[f + 1] = b[i + 1]
        BY <1>1, <1>2, <1>5, <2>0, <2>2, <3>1
      <3>3. content[i] = Lines(b[i], b[i + 1])
        <4>1. i \in FileNum
          BY <1>1
        <4> QED BY <1>b, <4>1
      <3> QED BY <3>1, <3>2, <3>3
    <2>3. CASE f \notin {i - 1, i}
      <3>1. content'[f] = content[f] /\ d[f] = b[f] /\ d[f + 1] = b[f + 1]
        <4>0. f \in Nat /\ i \in Nat
          BY <1>1
        <4>1. f # i /\ f + 1 # i
          BY ONLY <2>3, <4>0
        <4> QED BY <1>1, <1>5, <2>0, <2>3, <4>1
      <3> QED BY <1>b, <3>1
    <2> QED BY <2>1, <2>2, <2>3
  <1>7. \A f, g \in 0 .. max_num + 1 : f <= g => d[f] <= d[g]
    <2> SUFFICES ASSUME NEW f \in 0 .. max_num + 1, NEW g \in 0 .. max_num + 1, f <= g
                 PROVE  d[f] <= d[g]
      OBVIOUS
    <2>1. CASE f # i /\ g # i
      BY <1>5, <1>m, <2>1
    <2>2. CASE f = i /\ g = i
      <3>1. d[f] = b[i + 1] /\ d[g] = b[i + 1] /\ b[i + 1] \in Nat
        BY <1>1, <1>5, <1>b, <2>2
      <3> QED BY <3>1
    <2>3. CASE f = i /\ g # i
      <3>1. i + 1 <= g /\ i + 1 \in 0 .. max_num + 1 /\ d[g] = b[g]
        BY <1>1, <1>5, <2>3
      <3> QED BY <1>5, <1>m, <2>3, <3>1
    <2>4. CASE f # i /\ g = i
      <3>1. f <= i + 1 /\ i + 1 \in 0 .. max_num + 1 /\ d[f] = b[f]
        BY <1>1, <1>5, <2>4
      <3> QED BY <1>5, <1>m, <2>4, <3>1
    <2> QED BY <2>1, <2>2, <2>3, <2>4
  <1>8. d[max_num + 1] = logged' /\ d[0] = b[0]
    BY <1>1, <1>5, <1>b
  <1>9. CutAt(d)'
    BY <1>6, <1>7, <1>8 DEF CutAt
  <1> QED BY <1>8, <1>9

\* The lines of all files and of all files but one.
LEMMA OneFileLess ==
  ASSUME NEW n \in Nat, n >= 1, NEW m \in Nat
  PROVE  (n - 1) * m \in Nat /\ n * m = (n - 1) * m + m
  OBVIOUS

\* When next_log removes the oldest file, all others but one are full.
LEMMA RemovalLeavesEnough ==
  ASSUME LogTypeInv, NumbersInv, FullInv, pc = "unlink",
         NEW b \in [0 .. max_num + 1 -> 0 .. logged], CutAt(b)
  PROVE  logged - b[1] >= (max_num - 1) * max_size
  <1> USE Limits
  <1>1. PICK s \in FileNum : \A f \in present \ {s} : Full(f)
    BY DEF FullInv
  <1>2. present = FileNum
    BY DEF NumbersInv
  <1>b. /\ \A f \in 0 .. max_num + 1 : b[f] \in Nat /\ b[f] <= logged
        /\ \A f \in FileNum : b[f] <= b[f + 1] /\ Len(content[f]) = b[f + 1] - b[f]
        /\ b[max_num + 1] = logged
    BY CutIs
  <1> DEFINE n == max_num + 1
             low(f) == IF s \in 1 .. f - 1 THEN f - 2 ELSE f - 1
             P == {f \in 1 .. n : b[f] - b[1] >= low(f) * max_size}
  <1>3. 1 \in P
    <2>1. 1 \in 1 .. n /\ b[1] \in Nat /\ low(1) = 0 /\ 0 * max_size = 0
      BY <1>b
    <2>2. b[1] - b[1] >= 0
      BY <2>1
    <2> HIDE DEF low
    <2> QED BY <2>1, <2>2
  <1>4. ASSUME NEW f \in 1 .. n - 1, f \in P PROVE f + 1 \in P
    <2>1. /\ f \in FileNum /\ f \in 1 .. n /\ f + 1 \in 1 .. n
          /\ f \in 0 .. max_num + 1 /\ f + 1 \in 0 .. max_num + 1
          /\ 1 \in 0 .. max_num + 1
      OBVIOUS
    <2>2. b[1] \in Nat /\ b[f] \in Nat /\ b[f + 1] \in Nat /\ b[f] <= b[f + 1]
      BY <1>b, <2>1
    <2>3. b[f] - b[1] >= low(f) * max_size
      BY <1>4
    <2>4. /\ low(f) \in Nat
          /\ low(f + 1) = IF f = s THEN low(f) ELSE low(f) + 1
      BY <2>1
    <2> HIDE DEF low, n
    <2>5. CASE f = s
      <3>1. low(f) * max_size \in Nat
        BY <2>4
      <3>2. low(f + 1) = low(f)
        BY <2>4, <2>5
      <3>3. b[f + 1] - b[1] >= low(f) * max_size
        BY ONLY <2>2, <2>3, <3>1
      <3> QED BY <2>1, <3>2, <3>3
    <2>6. CASE f # s
      <3>1. low(f) * max_size \in Nat
        BY <2>4
      <3>2. (low(f) + 1) * max_size = low(f) * max_size + max_size
        BY <2>4
      <3>3. f \in present \ {s}
        BY <1>2, <2>1, <2>6
      <3>4. Len(content[f]) >= max_size /\ Len(content[f]) = b[f + 1] - b[f]
        BY <1>1, <1>b, <2>1, <3>3 DEF Full
      <3>m. max_size \in Nat
        BY Limits
      <3>5. b[f + 1] - b[1] >= low(f) * max_size + max_size
        BY ONLY <2>2, <2>3, <3>m, <3>1, <3>4
      <3>7. low(f + 1) = low(f) + 1
        BY <2>4, <2>6
      <3>6. b[f + 1] - b[1] >= low(f + 1) * max_size
        BY ONLY <3>2, <3>5, <3>7
      <3> QED BY <2>1, <3>6
    <2> QED BY <2>5, <2>6
  <1>5. n \in Int /\ 1 \in Int /\ 1 <= n
    OBVIOUS
  <1>6. low(n) \in {max_num - 1, max_num}
    <2>1. max_num \in Nat
      OBVIOUS
    <2>2. (max_num + 1) - 2 = max_num - 1 /\ (max_num + 1) - 1 = max_num
      BY ONLY <2>1
    <2> QED BY <2>2
  <1> HIDE DEF P
  <1>7. n \in P
    <2> HIDE DEF n
    <2>1. 1 .. n \subseteq P
      BY <1>3, <1>4, <1>5, IntervalInduction
    <2> QED BY <1>5, <2>1
  <1>8. logged - b[1] >= low(n) * max_size
    BY <1>7, <1>b DEF P
  <1> HIDE DEF low, n
  <1>9. CASE low(n) = max_num - 1
    BY <1>8, <1>9
  <1>10. CASE low(n) = max_num
    <2> DEFINE less == (max_num - 1) * max_size
    <2>1. max_num * max_size = less + max_size
      BY OneFileLess
    <2>2. less \in Nat /\ max_size \in Nat
      BY OneFileLess
    <2>3. logged - b[1] \in Int
      <3>1. 1 \in 0 .. max_num + 1
        OBVIOUS
      <3> QED BY <1>b, <3>1
    <2>4. logged - b[1] >= less + max_size
      BY <1>8, <1>10, <2>1
    <2> HIDE DEF less
    <2>5. logged - b[1] >= less
      BY ONLY <2>2, <2>3, <2>4
    <2> QED BY <2>5 DEF less
  <1> QED BY <1>6, <1>9, <1>10

LogInv == LogTypeInv /\ NumbersInv /\ FullInv /\ CutsInv

\* AllLinesAre, as a fact about a state.
AllLinesCut ==
  \A b \in [0 .. max_num + 1 -> 0 .. logged] :
    CutAt(b) => AllLines = Lines(b[0], logged) /\ b[0] \in Nat /\ b[0] <= logged

\* In every state of the right types the files hold the lines between the cuts ...
LEMMA AllLinesAreNow == LogTypeInv => AllLinesCut
  BY AllLinesAre DEF AllLinesCut

\* ... and in the state after a step as well.
LEMMA AllLinesAreThen == LogTypeInv' => AllLinesCut'
  BY AllLinesAreNow, PTL

\* Every step of the log is a line logged, a number of the oldest lines given
\* up, or nothing that a reader of the files can tell.
LEMMA HistoryStep ==
  ASSUME LogInv, ~RotationMayBreak, [Next]_vars
  PROVE  CutsInv' /\ [History!HistoryNext]_<<AllLines, logged>>
  <1> USE DEF LogInv
  <1>b. PICK b \in [0 .. max_num + 1 -> 0 .. logged] : CutAt(b)
    BY DEF CutsInv
  <1>1. AllLines = Lines(b[0], logged) /\ b[0] \in Nat /\ b[0] <= logged
    BY <1>b, AllLinesAre
  <1>2. logged \in Nat
    BY Limits
  <1>3. LogTypeInv'
    BY LogTypeNext
  <1>4. ASSUME NEW d \in [0 .. max_num + 1 -> 0 .. logged'], CutAt(d)'
        PROVE  CutsInv' /\ AllLines' = Lines(d[0], logged')
    BY <1>3, <1>4, AllLinesAreThen DEF AllLinesCut, CutsInv
  <1>5. CASE printlog /\ logged' # logged
    <2>1. PICK d \in [0 .. max_num + 1 -> 0 .. logged'] : CutAt(d)' /\ d[0] = b[0]
      BY <1>5, <1>b, CutWhenLogged
    <2>2. logged' = logged + 1
      BY <1>5, PrintlogIs
    <2>3. AllLines' = Append(AllLines, logged')
      BY <1>1, <1>2, <1>4, <2>1, <2>2, LinesAre
    <2> QED BY <1>4, <2>1, <2>2, <2>3 DEF History!HistoryNext, History!Log
  <1>6. CASE next_log_unlink /\ pc' = "rename"
    <2>1. PICK d \in [0 .. max_num + 1 -> 0 .. logged'] : CutAt(d)' /\ d[0] = b[1]
      BY <1>6, <1>b, CutWhenRemoved
    <2>2. logged' = logged /\ pc = "unlink"
      BY <1>6 DEF next_log_unlink
    <2>3. b[1] \in Nat /\ b[0] <= b[1] /\ b[1] <= logged
      <3>1. 0 \in FileNum /\ 1 \in 0 .. max_num + 1 /\ 0 + 1 = 1
        BY Limits
      <3> QED BY <1>b, <3>1, CutIs
    <2> DEFINE k == b[1] - b[0]
    <2>4. AllLines' = Lines(b[1], logged) /\ Len(AllLines) = logged - b[0]
      BY <1>1, <1>2, <1>4, <2>1, <2>2, LinesAre
    <2>5. AllLines' = SubSeq(AllLines, k + 1, Len(AllLines)) /\ Len(AllLines) = logged - b[0]
      <3>1. SubSeq(Lines(b[0], logged), (b[1] - b[0]) + 1, logged - b[0]) = Lines(b[1], logged)
        BY <1>1, <1>2, <2>3, LinesJoin
      <3> QED BY <1>1, <2>4, <3>1
    <2>6. CASE k = 0
      <3>1. b[1] = b[0]
        BY <1>1, <2>3, <2>6
      <3> QED BY <1>1, <1>4, <2>1, <2>2, <2>4, <3>1
    <2>7. CASE k # 0
      <3>1. logged - b[1] >= (max_num - 1) * max_size
        BY <1>b, <2>2, RemovalLeavesEnough
      <3>2. Len(AllLines) - k = logged - b[1] /\ k \in 1 .. Len(AllLines)
        <4>1. Len(AllLines) = logged - b[0]
          BY <2>5
        <4> QED BY ONLY <1>1, <1>2, <2>3, <2>7, <4>1
      <3>3. History!Discard(k)
        BY <2>2, <2>5, <3>1, <3>2 DEF History!Discard
      <3> QED BY <1>4, <2>1, <3>2, <3>3 DEF History!HistoryNext
    <2> QED BY <2>6, <2>7
  <1>7. CASE next_log_rename
    <2>1. PICK d \in [0 .. max_num + 1 -> 0 .. logged'] : CutAt(d)' /\ d[0] = b[0]
      BY <1>7, <1>b, CutWhenRenamed
    <2>2. logged' = logged
      BY <1>7 DEF next_log_rename
    <2> QED BY <1>1, <1>4, <2>1, <2>2
  <1>8. CASE UNCHANGED <<content, logged>>
    <2>1. AllLines' = AllLines
      BY <1>8 DEF AllLines
    <2>2. CutsInv'
      BY <1>8 DEF CutsInv, CutAt
    <2> QED BY <1>8, <2>1, <2>2
  <1>9. CASE next_log_unlink /\ pc' # "rename"
    BY <1>8, <1>9 DEF next_log_unlink
  <1>10. CASE printlog /\ logged' = logged
    <2>1. UNCHANGED <<content, logged>>
      BY <1>2, <1>10, PrintlogIs
    <2> QED BY <1>8, <2>1
  <1> QED
    BY <1>5, <1>6, <1>7, <1>8, <1>9, <1>10
    DEF Next, vars, open_log_file, open_log_file_stat_fails, open_log_file_append,
        open_log_file_fails, log_init

\* Before the first line all cuts are 0.
LEMMA LogInit == Init => LogInv /\ History!HistoryInit
  <1> SUFFICES ASSUME Init PROVE LogInv /\ History!HistoryInit
    OBVIOUS
  <1>1. LogTypeInv
    BY LogTypeInit
  <1>2. /\ present = {} /\ content = [f \in FileNum |-> <<>>] /\ p_num = 0
        /\ logged = 0 /\ pc = "open"
    BY DEF Init
  <1>3. NumbersInv
    <2>1. 0 \in 0 .. max_num + 1 /\ present = 0 .. 0 - 1 /\ p_num <= 0
      BY <1>1, <1>2, Limits
    <2> QED BY <1>2, <2>1 DEF NumbersInv
  <1>4. FullInv
    <2>1. 0 \in FileNum
      BY <1>1, Limits
    <2> QED BY <1>2, <2>1 DEF FullInv
  <1> DEFINE b == [f \in 0 .. max_num + 1 |-> 0]
  <1>5. b \in [0 .. max_num + 1 -> 0 .. logged]
    BY <1>2
  <1>6. CutAt(b)
    <2>1. \A f \in FileNum : b[f] = 0 /\ b[f + 1] = 0
      BY <1>1, Limits
    <2>2. b[max_num + 1] = 0 /\ \A f \in 0 .. max_num + 1 : b[f] = 0
      BY <1>1, Limits
    <2>3. Lines(0, 0) = <<>>
      BY NoLines
    <2> HIDE DEF b
    <2> QED BY <1>2, <2>1, <2>2, <2>3 DEF CutAt
  <1>7. b[0] = 0
    BY <1>1, Limits
  <1> HIDE DEF b
  <1>8. AllLines = Lines(0, 0)
    BY <1>1, <1>2, <1>5, <1>6, <1>7, AllLinesAre
  <1>9. CutsInv
    BY <1>5, <1>6 DEF CutsInv
  <1> QED
    BY <1>1, <1>2, <1>3, <1>4, <1>8, <1>9, NoLines DEF LogInv, History!HistoryInit

\* The invariant behind the two theorems holds as long as no rotation breaks.
LEMMA LogInvariant == ~RotationMayBreak => (Spec => []LogInv)
  <1> SUFFICES ASSUME ~RotationMayBreak PROVE Spec => []LogInv
    OBVIOUS
  <1>1. LogInv /\ [Next]_vars => LogInv'
    BY LogTypeNext, NumbersNext, FullNext, HistoryStep DEF LogInv
  <1> QED BY <1>1, LogInit, PTL DEF Spec

\* Where renames do not fail and the daemon does not die between two of them,
\* the log keeps the promise of LogHistory, for every number and size of files:
\* nothing is lost, doubled or out of order behind the oldest line that is left,
\* and at least max_num - 1 files' worth of lines is kept.
THEOREM LogKeepsHistory == ~RotationMayBreak => (Spec => HistorySpec)
  <1> SUFFICES ASSUME ~RotationMayBreak PROVE Spec => HistorySpec
    OBVIOUS
  <1>1. Init => History!HistoryInit
    BY LogInit
  <1>2. LogInv /\ [Next]_vars => [History!HistoryNext]_<<AllLines, logged>>
    BY HistoryStep
  <1>3. Spec => []LogInv
    BY LogInvariant
  <1> QED BY <1>1, <1>2, <1>3, PTL DEF Spec, HistorySpec, History!HistorySpec

\* Under the same condition the file that rotation removes is the oldest.
THEOREM LogRemovesOldest == ~RotationMayBreak => (Spec => []OldestIsFirst)
  <1> SUFFICES ASSUME ~RotationMayBreak PROVE Spec => []OldestIsFirst
    OBVIOUS
  <1>1. ASSUME LogInv PROVE OldestIsFirst
    <2>1. PICK b \in [0 .. max_num + 1 -> 0 .. logged] : CutAt(b)
      BY <1>1 DEF LogInv, CutsInv
    <2>2. LogTypeInv
      BY <1>1 DEF LogInv
    <2> SUFFICES ASSUME NEW f \in FileNum, NEW g \in FileNum, f < g,
                        NEW x \in 1 .. Len(content[f]), NEW y \in 1 .. Len(content[g])
                 PROVE  content[f][x] < content[g][y]
      BY DEF OldestIsFirst
    <2>3. /\ content[f] = Lines(b[f], b[f + 1]) /\ content[g] = Lines(b[g], b[g + 1])
          /\ b[f] \in Nat /\ b[f + 1] \in Nat /\ b[f] <= b[f + 1]
          /\ b[g] \in Nat /\ b[g + 1] \in Nat /\ b[g] <= b[g + 1]
          /\ Len(content[f]) = b[f + 1] - b[f] /\ Len(content[g]) = b[g + 1] - b[g]
      BY <2>1, <2>2, CutIs
    <2>4. b[f + 1] <= b[g]
      <3>0. FileNum = 0 .. max_num /\ max_num \in Nat
        BY <2>2, Limits
      <3>1. f + 1 \in 0 .. max_num + 1 /\ g \in 0 .. max_num + 1 /\ f + 1 <= g
        BY ONLY <3>0, f \in FileNum, g \in FileNum, f < g
      <3> QED BY <2>1, <3>1 DEF CutAt
    <2>5. content[f][x] = b[f] + x /\ content[g][y] = b[g] + y
      BY <2>3 DEF Lines
    <2>6. /\ x \in 1 .. b[f + 1] - b[f] /\ y \in 1 .. b[g + 1] - b[g]
          /\ b[f] \in Nat /\ b[f + 1] \in Nat /\ b[g] \in Nat /\ b[g + 1] \in Nat
      BY <2>3
    <2>7. b[f] + x <= b[f + 1] /\ b[g] < b[g] + y
      BY ONLY <2>6
    <2>8. b[f] + x < b[g] + y
      BY ONLY <2>4, <2>6, <2>7
    <2> QED BY <2>5, <2>8
  <1>2. Spec => []LogInv
    BY LogInvariant
  <1> QED BY <1>1, <1>2, PTL

=============================================================================
