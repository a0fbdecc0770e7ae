-------------------------------- MODULE Ini --------------------------------
(***************************************************************************)
(* ini.c: a file of lines is read into lists of sections and their keys,   *)
(* with the comments and blank lines between them, changed in memory and   *)
(* written back.                                                           *)
(*                                                                         *)
(* A line is its kind, the name and the value it carries, and its size in  *)
(* characters without the newline.  "bad" is a line that analyse_line      *)
(* refuses: it is none of the others, as a key without its '='.  An item   *)
(* of a list is a line and the lines that read_buf_line has taken for a    *)
(* part of its text.  Lists are sequences: ini.c only appends              *)
(* (list_insert_after with a NULL position), walks and destroys them.      *)
(***************************************************************************)
EXTENDS Naturals, SequencesExt

CONSTANT BufLen      \* the line buffer that ini_open allocates

ASSUME IniAssumption == BufLen \in Nat /\ BufLen > 2

Line(type, name, value, size) ==
  [type |-> type, name |-> name, value |-> value, size |-> size]

Item(line) == [line |-> line, more |-> <<>>]
-----------------------------------------------------------------------------
(* read_buf_line                                                           *)

\* A line of which "rest" characters are left after a piece that filled the
\* buffer: the buffer doubles and fgets reads the next piece, until a piece
\* starts with the newline.  closed: that was so; otherwise the newline came
\* inside a piece, went unnoticed, and the loop is still reading.
Pieces[rest \in Nat, len \in Nat] ==
  IF rest = 0 THEN [closed |-> TRUE, len |-> 2 * len]
  ELSE IF rest < len - 1 THEN [closed |-> FALSE, len |-> 2 * len]
  ELSE Pieces[rest - (len - 1), 2 * len]

\* The lines read so far and one more line of the file.
ReadNext(r, line) ==
  LET n == Len(r.items)
      grow == IF r.open THEN [r EXCEPT !.items[n].more = Append(@, line)]
              ELSE [r EXCEPT !.items = Append(@, Item(line))]
      taken == r.len - 1
  IN  IF ~r.open /\ line.size < taken THEN grow
      ELSE IF r.open /\ line.size = 0 THEN [grow EXCEPT !.open = FALSE, !.len = 2 * @]
      ELSE IF r.open /\ line.size < taken THEN [grow EXCEPT !.len = 2 * @]
      ELSE LET p == Pieces[line.size - taken, IF r.open THEN 2 * r.len ELSE r.len]
           IN  [grow EXCEPT !.open = ~p.closed, !.len = p.len]

\* the loop of ini_open over read_buf_line
read_buf_line(file) ==
  LET r[i \in 0 .. Len(file)] ==
        IF i = 0 THEN [items |-> <<>>, open |-> FALSE, len |-> BufLen]
        ELSE ReadNext(r[i - 1], file[i])
  IN  r[Len(file)].items
-----------------------------------------------------------------------------
(* analyse_line, get_section and get_key                                   *)

\* the first item of a list with this type and name, or 0
Find(list, type, name) ==
  SelectInSeq(list, LAMBDA x : x.line.type = type /\ x.line.name = name)

Section(item) == [line |-> item.line, more |-> <<>>, keys |-> <<>>]

\* get_section(name, true): found, or appended to the list of sections
get_section(a, item) ==
  LET i == Find(a.sections, "section", item.line.name)
  IN  IF i # 0 THEN [a EXCEPT !.cur = i]
      ELSE [a EXCEPT !.sections = Append(@, Section(item)),
                     !.cur = Len(a.sections) + 1]

\* Mutant: a key that is there already is added once more.
get_key_appends(keys, item) == Append(keys, item)

\* get_key(name, true), and the value is set
get_key(keys, item) ==
  LET j == Find(keys, "key", item.line.name)
  IN  IF j # 0 THEN [keys EXCEPT ![j] = item] ELSE Append(keys, item)

\* comments and blank lines belong to the section before them, if there is one
add_line(a, item) ==
  IF a.cur = 0
  THEN [a EXCEPT !.sections = Append(@, [line |-> item.line, more |-> item.more,
                                         keys |-> <<>>])]
  ELSE [a EXCEPT !.sections[a.cur].keys = Append(@, item)]

\* one line; a key needs a section, and what is neither is refused
analyse_line(a, item) ==
  CASE item.line.type \in {"blank", "comment"} -> add_line(a, item)
    [] item.line.type = "section" -> get_section(a, item)
    [] item.line.type = "key" /\ a.cur # 0 ->
         [a EXCEPT !.sections[a.cur].keys = get_key(@, item)]
    [] OTHER -> [a EXCEPT !.ok = FALSE]

\* the lists that ini_open builds; ok is FALSE where it returns NULL
ini_open(file) ==
  LET items == read_buf_line(file)
      a[i \in 0 .. Len(items)] ==
        IF i = 0 THEN [sections |-> <<>>, cur |-> 0, ok |-> TRUE]
        ELSE analyse_line(a[i - 1], items[i])
  IN  a[Len(items)]
-----------------------------------------------------------------------------
(* The operations on the lists                                             *)

NoValue == [value |-> "none", more |-> <<>>]

\* the value of a key, newlines and swallowed lines included; NoValue stands
\* for the length 0 that says there is none
ini_get_key_value(sections, s, k) ==
  LET i == Find(sections, "section", s)
      j == IF i = 0 THEN 0 ELSE Find(sections[i].keys, "key", k)
  IN  IF j = 0 THEN NoValue
      ELSE [value |-> sections[i].keys[j].line.value,
            more  |-> sections[i].keys[j].more]

\* of a key that exists: its value is replaced
ini_set_key_value(sections, s, line) ==
  LET i == Find(sections, "section", s)
  IN  [sections EXCEPT ![i].keys = get_key(@, Item(line))]

\* the text of an item as ini_sync prints it
Printed(item) == <<item.line>> \o item.more

\* Mutant: the loop over the sections ends before the last one.
ini_sync_short(sections) ==
  FlattenSeq([i \in 1 .. Len(sections) - 1 |->
    Printed(sections[i]) \o
    FlattenSeq([j \in 1 .. Len(sections[i].keys) |-> Printed(sections[i].keys[j])])])

\* Mutant: what stands before the first section is not written.
ini_sync_sections_only(sections) ==
  LET s == SelectSeq(sections, LAMBDA x : x.line.type = "section")
  IN  FlattenSeq([i \in 1 .. Len(s) |->
        Printed(s[i]) \o
        FlattenSeq([j \in 1 .. Len(s[i].keys) |-> Printed(s[i].keys[j])])])

\* all of it: each section, and behind it its keys, comments and blank lines
ini_sync(sections) ==
  FlattenSeq([i \in 1 .. Len(sections) |->
    Printed(sections[i]) \o
    FlattenSeq([j \in 1 .. Len(sections[i].keys) |-> Printed(sections[i].keys[j])])])
-----------------------------------------------------------------------------
(* What a reader of a file expects                                         *)

FitsBuffer(f) == \A i \in 1 .. Len(f) : f[i].size < BufLen - 1

\* The name of the section that line i of a file stands in.
SectionOf(f, i) ==
  f[Max({j \in 1 .. i : f[j].type = "section"})].name

\* The value that a reader of the file would say key k has.
LastValue(f, s, k) ==
  LET I == {i \in 1 .. Len(f) : /\ f[i].type = "key" /\ f[i].name = k
                                /\ SectionOf(f, i) = s}
  IN  IF I = {} THEN NoValue ELSE [value |-> f[Max(I)].value, more |-> <<>>]

=============================================================================
