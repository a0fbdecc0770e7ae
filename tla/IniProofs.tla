----------------------------- MODULE IniProofs -----------------------------
(***************************************************************************)
(* Lemmas about ini.c, for every file: the lists that ini_open builds are  *)
(* well formed, what the searches in them find, that a key that was set is *)
(* found with its new value, and every other one with its old, and that    *)
(* ini_open reads what a reader of the file would.                         *)
(***************************************************************************)
EXTENDS Ini, RecursionLemmas, SequenceTheorems

\* A sequence, of whatever elements.
IsSeq(s) == Len(s) \in Nat /\ s = [i \in 1 .. Len(s) |-> s[i]]

\* What read_buf_line has read: a line and the lines behind it.
ItemOK(x) == \E l, m : x = [line |-> l, more |-> m] /\ IsSeq(m)

\* A list of them.
ItemsOK(s) == IsSeq(s) /\ \A i \in 1 .. Len(s) : ItemOK(s[i])

\* A section and its keys; so do the comments before the first section look.
SectionOK(x) ==
  \E l, m, k : x = [line |-> l, more |-> m, keys |-> k] /\ IsSeq(m) /\ ItemsOK(k)

\* The list of sections.
SectionsOK(s) == IsSeq(s) /\ \A i \in 1 .. Len(s) : SectionOK(s[i])

\* A function on 1 .. n is a sequence.
LEMMA MakeSeq ==
  ASSUME NEW n \in Nat, NEW f, f = [i \in 1 .. n |-> f[i]]
  PROVE  IsSeq(f) /\ Len(f) = n
  <1> DEFINE S == {f[i] : i \in 1 .. n}
  <1>1. f \in [1 .. n -> S]
    OBVIOUS
  <1> HIDE DEF S
  <1>2. f \in Seq(S) /\ Len(f) = n
    BY <1>1
  <1> QED BY <1>2 DEF IsSeq

\* Conversely, a sequence has elements of some set.
LEMMA ElementsOf ==
  ASSUME NEW s, IsSeq(s)
  PROVE  \E S : s \in Seq(S)
  <1> DEFINE S == {s[i] : i \in 1 .. Len(s)}
  <1>1. s \in [1 .. Len(s) -> S] /\ Len(s) \in Nat
    BY DEF IsSeq
  <1> HIDE DEF S
  <1>2. s \in Seq(S)
    BY <1>1
  <1> QED BY <1>2, Zenon

\* Appending to a sequence ...
LEMMA AppendIs ==
  ASSUME NEW s, IsSeq(s), NEW x
  PROVE  /\ IsSeq(Append(s, x)) /\ Len(Append(s, x)) = Len(s) + 1
         /\ \A i \in 1 .. Len(s) : Append(s, x)[i] = s[i]
         /\ Append(s, x)[Len(s) + 1] = x
  <1>1. PICK S : s \in Seq(S)
    BY ElementsOf, Zenon
  <1> DEFINE T == S \cup {x}
  <1>2. s \in Seq(T) /\ x \in T
    BY <1>1, SeqMonotonic
  <1> HIDE DEF T
  <1> DEFINE u == Append(s, x)
  <1>3. /\ u \in Seq(T) /\ Len(u) = Len(s) + 1
        /\ \A i \in 1 .. Len(s) : u[i] = s[i]
        /\ u[Len(s) + 1] = x
    BY <1>2, AppendProperties
  <1> HIDE DEF u
  <1>4. IsSeq(u)
    BY <1>3 DEF IsSeq
  <1> QED BY <1>3, <1>4 DEF u

\* t is s with x in place of its element i.
Replaced(t, s, i, x) == t = [s EXCEPT ![i] = x]

\* ... replacing an element ...
LEMMA ReplaceIs ==
  ASSUME NEW s, IsSeq(s), NEW i \in 1 .. Len(s), NEW x,
         NEW t, Replaced(t, s, i, x)
  PROVE  /\ IsSeq(t) /\ Len(t) = Len(s)
         /\ \A j \in 1 .. Len(s) : t[j] = IF j = i THEN x ELSE s[j]
  <1> USE DEF Replaced
  <1>1. Len(s) \in Nat /\ DOMAIN s = 1 .. Len(s)
    BY DEF IsSeq
  <1>2. t = [j \in 1 .. Len(s) |-> t[j]]
    BY <1>1
  <1>3. \A j \in 1 .. Len(s) : t[j] = IF j = i THEN x ELSE s[j]
    BY <1>1
  <1>4. IsSeq(t) /\ Len(t) = Len(s)
    BY <1>1, <1>2, MakeSeq
  <1> QED BY <1>3, <1>4

\* ... and concatenating two.
LEMMA JoinIs ==
  ASSUME NEW s, IsSeq(s), NEW t, IsSeq(t)
  PROVE  IsSeq(s \o t)
  <1>1. PICK S : s \in Seq(S)
    BY ElementsOf, Zenon
  <1>2. PICK T : t \in Seq(T)
    BY ElementsOf, Zenon
  <1> DEFINE U == S \cup T
  <1>3. s \in Seq(U) /\ t \in Seq(U)
    BY <1>1, <1>2, SeqMonotonic
  <1> HIDE DEF U
  <1> DEFINE u == s \o t
  <1>4. u \in Seq(U)
    BY <1>3
  <1> HIDE DEF u
  <1>5. IsSeq(u)
    BY <1>4 DEF IsSeq
  <1> QED BY <1>5 DEF u

\* The empty list.
LEMMA NoneIs == IsSeq(<<>>) /\ Len(<<>>) = 0
  BY DEF IsSeq
-----------------------------------------------------------------------------
(* Searching                                                               *)

Matches(x, type, name) == x.line.type = type /\ x.line.name = name

\* Find returns the first item that matches, or 0.
LEMMA FindIs ==
  ASSUME NEW s, IsSeq(s), NEW type, NEW name
  PROVE  \/ /\ Find(s, type, name) = 0
            /\ \A i \in 1 .. Len(s) : ~Matches(s[i], type, name)
         \/ /\ Find(s, type, name) \in 1 .. Len(s)
            /\ Matches(s[Find(s, type, name)], type, name)
            /\ \A i \in 1 .. Find(s, type, name) - 1 : ~Matches(s[i], type, name)
  <1> DEFINE I == {i \in 1 .. Len(s) : s[i].line.type = type /\ s[i].line.name = name}
  <1>1. Find(s, type, name) = IF I # {} THEN Min(I) ELSE 0
    BY DEF Find, SelectInSeq
  <1>2. Len(s) \in Nat
    BY DEF IsSeq
  <1>3. I \in SUBSET Nat
    BY <1>2
  <1>4. CASE I = {}
    BY <1>1, <1>4 DEF Matches
  <1>5. CASE I # {}
    <2> DEFINE f == Min(I)
    <2>1. f \in I /\ \A i \in I : f <= i
      BY <1>3, <1>5, MinIsLeast
    <2>2. Find(s, type, name) = f
      BY <1>1, <1>5
    <2> HIDE DEF f
    <2>3. f \in 1 .. Len(s) /\ Matches(s[f], type, name)
      BY <2>1 DEF Matches
    <2>4. ASSUME NEW i \in 1 .. f - 1, Matches(s[i], type, name) PROVE FALSE
      <3>1. i \in 1 .. Len(s) /\ ~(f <= i)
        BY <1>2, <2>3
      <3> QED BY <2>1, <2>4, <3>1 DEF Matches
    <2> QED BY <2>2, <2>3, <2>4
  <1> QED BY <1>4, <1>5

\* The first item that matches is what Find returns.
LEMMA FoundFirst ==
  ASSUME NEW s, IsSeq(s), NEW type, NEW name, NEW j \in 1 .. Len(s),
         Matches(s[j], type, name),
         \A i \in 1 .. j - 1 : ~Matches(s[i], type, name)
  PROVE  Find(s, type, name) = j
  <1> DEFINE f == Find(s, type, name)
  <1>1. Len(s) \in Nat
    BY DEF IsSeq
  <1>2. /\ f \in 1 .. Len(s) /\ Matches(s[f], type, name)
        /\ \A i \in 1 .. f - 1 : ~Matches(s[i], type, name)
    BY FindIs
  <1> HIDE DEF f
  <1>3. ~(f < j) /\ ~(j < f)
    BY <1>1, <1>2
  <1> QED BY <1>1, <1>2, <1>3 DEF f

\* Where nothing matches, Find returns 0.
LEMMA FoundNone ==
  ASSUME NEW s, IsSeq(s), NEW type, NEW name,
         \A i \in 1 .. Len(s) : ~Matches(s[i], type, name)
  PROVE  Find(s, type, name) = 0
  BY FindIs

\* After get_key the key is there with the new item, the other keys are found
\* where they were, and the list is well formed.
LEMMA KeyIsSet ==
  ASSUME NEW keys, ItemsOK(keys), NEW item, ItemOK(item), item.line.type = "key"
  PROVE  LET new == get_key(keys, item)
             j == Find(new, "key", item.line.name)
         IN  /\ ItemsOK(new)
             /\ j # 0 /\ new[j] = item
             /\ \A name : name # item.line.name =>
                  /\ Find(new, "key", name) = Find(keys, "key", name)
                  /\ Find(keys, "key", name) # 0 =>
                       new[Find(keys, "key", name)] = keys[Find(keys, "key", name)]
  <1> DEFINE k == item.line.name
             new == get_key(keys, item)
             j == Find(keys, "key", k)
  <1>k. IsSeq(keys) /\ Len(keys) \in Nat /\ \A i \in 1 .. Len(keys) : ItemOK(keys[i])
    BY DEF ItemsOK, IsSeq
  <1>j. \/ j = 0 /\ \A i \in 1 .. Len(keys) : ~Matches(keys[i], "key", k)
        \/ /\ j \in 1 .. Len(keys) /\ Matches(keys[j], "key", k)
           /\ \A i \in 1 .. j - 1 : ~Matches(keys[i], "key", k)
    BY <1>k, FindIs
  <1>n. new = IF j # 0 THEN [keys EXCEPT ![j] = item] ELSE Append(keys, item)
    BY DEF get_key
  <1>m. Matches(item, "key", k) /\ \A name : name # k => ~Matches(item, "key", name)
    BY DEF Matches
  \* the place of the item
  <1> DEFINE p == IF j # 0 THEN j ELSE Len(keys) + 1
  <1> HIDE DEF k, new, j
  <1>1. /\ IsSeq(new) /\ Len(new) = (IF j # 0 THEN Len(keys) ELSE Len(keys) + 1)
        /\ p \in 1 .. Len(new) /\ new[p] = item
        /\ \A i \in 1 .. Len(keys) : i # p => new[i] = keys[i]
    <2>1. CASE j # 0
      <3>1. j \in 1 .. Len(keys) /\ Replaced(new, keys, j, item)
        BY <1>j, <1>n, <2>1 DEF Replaced
      <3>2. /\ IsSeq(new) /\ Len(new) = Len(keys)
            /\ \A i \in 1 .. Len(keys) : new[i] = IF i = j THEN item ELSE keys[i]
        BY <1>k, <3>1, ReplaceIs
      <3> QED BY <2>1, <3>1, <3>2
    <2>2. CASE j = 0
      <3>1. new = Append(keys, item)
        BY <1>n, <2>2
      <3> QED BY <1>k, <2>2, <3>1, AppendIs
    <2> QED BY <2>1, <2>2
  <1>2. \A i \in 1 .. Len(new) : i # p => i \in 1 .. Len(keys)
    BY <1>k, <1>1
  <1>3. \A i \in 1 .. p - 1 : i \in 1 .. Len(keys) /\ ~Matches(keys[i], "key", k)
    BY <1>j, <1>k
  <1>p. p \in Nat /\ (p \in 1 .. Len(keys) => Matches(keys[p], "key", k))
    BY <1>j, <1>k
  <1> HIDE DEF p
  <1>4. ItemsOK(new)
    BY <1>k, <1>1, <1>2 DEF ItemsOK
  <1>5. Find(new, "key", k) = p
    <2>1. \A i \in 1 .. p - 1 : i # p /\ ~Matches(new[i], "key", k)
      BY <1>1, <1>3, <1>p
    <2> QED BY <1>1, <1>m, <2>1, FoundFirst
  <1>6. ASSUME NEW name, name # k
        PROVE  /\ Find(new, "key", name) = Find(keys, "key", name)
               /\ Find(keys, "key", name) # 0 =>
                    new[Find(keys, "key", name)] = keys[Find(keys, "key", name)]
    <2> DEFINE f == Find(keys, "key", name)
    <2>1. \/ f = 0 /\ \A i \in 1 .. Len(keys) : ~Matches(keys[i], "key", name)
          \/ /\ f \in 1 .. Len(keys) /\ Matches(keys[f], "key", name)
             /\ \A i \in 1 .. f - 1 : ~Matches(keys[i], "key", name)
      BY <1>k, FindIs
    <2> HIDE DEF f
    <2>0. ~Matches(item, "key", name)
      BY <1>6, <1>m
    <2>2. CASE f = 0
      <3>1. \A i \in 1 .. Len(new) : ~Matches(new[i], "key", name)
        BY <1>1, <1>2, <2>0, <2>1, <2>2
      <3>2. Find(new, "key", name) = 0
        BY <1>1, <3>1, FoundNone
      <3> QED BY <2>2, <3>2 DEF f
    <2>3. CASE f # 0
      <3>1. /\ f \in 1 .. Len(keys) /\ Matches(keys[f], "key", name)
            /\ \A i \in 1 .. f - 1 : ~Matches(keys[i], "key", name)
        BY <2>1, <2>3
      <3>2. f # p
        BY <1>6, <1>p, <3>1 DEF Matches
      <3>3. f \in 1 .. Len(new) /\ new[f] = keys[f]
        BY <1>k, <1>1, <3>1, <3>2
      <3>4. \A i \in 1 .. f - 1 : ~Matches(new[i], "key", name)
        BY <1>k, <1>1, <2>0, <3>1
      <3>5. Find(new, "key", name) = f
        BY <1>1, <3>1, <3>3, <3>4, FoundFirst
      <3> QED BY <3>3, <3>5 DEF f
    <2> QED BY <2>2, <2>3
  <1>7. p # 0
    BY <1>1
  <1> QED BY <1>1, <1>4, <1>5, <1>6, <1>7 DEF new, k

\* A section is well formed when its lines and keys are.
LEMMA SectionIs ==
  ASSUME NEW l, NEW m, NEW k, IsSeq(m), ItemsOK(k)
  PROVE  SectionOK([line |-> l, more |-> m, keys |-> k])
  BY Zenon DEF SectionOK

\* What there is in a section.
LEMMA SectionHas ==
  ASSUME NEW x, SectionOK(x)
  PROVE  /\ x = [line |-> x.line, more |-> x.more, keys |-> x.keys]
         /\ IsSeq(x.more) /\ ItemsOK(x.keys)
  <1>1. PICK l, m, k : x = [line |-> l, more |-> m, keys |-> k] /\ IsSeq(m) /\ ItemsOK(k)
    BY Zenon DEF SectionOK
  <1>2. x.line = l /\ x.more = m /\ x.keys = k
    BY <1>1
  <1> QED BY <1>1, <1>2

\* Changing the keys of a section leaves the sections where they are.
LEMMA SectionStays ==
  ASSUME NEW s, SectionsOK(s), NEW i \in 1 .. Len(s), NEW keys, ItemsOK(keys),
         NEW new, Replaced(new, s, i, [s[i] EXCEPT !.keys = keys])
  PROVE  /\ SectionsOK(new) /\ Len(new) = Len(s)
         /\ \A type, name : Find(new, type, name) = Find(s, type, name)
         /\ new[i].keys = keys
  <1> DEFINE x == [s[i] EXCEPT !.keys = keys]
  <1>1. IsSeq(s) /\ Len(s) \in Nat /\ \A j \in 1 .. Len(s) : SectionOK(s[j])
    BY DEF SectionsOK, IsSeq
  <1>2. /\ s[i] = [line |-> s[i].line, more |-> s[i].more, keys |-> s[i].keys]
        /\ IsSeq(s[i].more) /\ ItemsOK(s[i].keys)
    BY <1>1, SectionHas
  <1>3. x = [line |-> s[i].line, more |-> s[i].more, keys |-> keys]
    BY <1>2
  <1>5. Replaced(new, s, i, x)
    OBVIOUS
  <1> HIDE DEF x
  <1>4. SectionOK(x) /\ x.line = s[i].line /\ x.keys = keys /\ ItemsOK(s[i].keys)
    <2>1. SectionOK([line |-> s[i].line, more |-> s[i].more, keys |-> keys])
      BY <1>2, SectionIs
    <2> QED BY <1>2, <1>3, <2>1
  <1>6. /\ IsSeq(new) /\ Len(new) = Len(s)
        /\ \A j \in 1 .. Len(s) : new[j] = IF j = i THEN x ELSE s[j]
    BY <1>1, <1>5, ReplaceIs
  <1>7. SectionsOK(new)
    BY <1>1, <1>4, <1>6 DEF SectionsOK
  <1>8. \A j \in 1 .. Len(s) : new[j].line = s[j].line
    BY <1>4, <1>6
  <1>9. ASSUME NEW type, NEW name PROVE Find(new, type, name) = Find(s, type, name)
    <2>1. \A j \in 1 .. Len(s) : Matches(new[j], type, name) <=> Matches(s[j], type, name)
      BY <1>8 DEF Matches
    <2> DEFINE f == Find(s, type, name)
    <2>2. \/ f = 0 /\ \A j \in 1 .. Len(s) : ~Matches(s[j], type, name)
          \/ /\ f \in 1 .. Len(s) /\ Matches(s[f], type, name)
             /\ \A j \in 1 .. f - 1 : ~Matches(s[j], type, name)
      BY <1>1, FindIs
    <2> HIDE DEF f
    <2>3. CASE f = 0
      BY <1>6, <2>1, <2>2, <2>3, FoundNone DEF f
    <2>4. CASE f # 0
      <3>1. f \in 1 .. Len(new) /\ Matches(new[f], type, name)
        BY <1>6, <2>1, <2>2, <2>4
      <3>2. \A j \in 1 .. f - 1 : ~Matches(new[j], type, name)
        BY <1>1, <2>1, <2>2, <2>4
      <3> QED BY <1>6, <3>1, <3>2, FoundFirst DEF f
    <2> QED BY <2>3, <2>4
  <1> QED BY <1>4, <1>6, <1>7, <1>9

\* What ini_set_key_value sets ini_get_key_value gets, and nothing else changes.
LEMMA SetThenGet ==
  ASSUME NEW s, SectionsOK(s), NEW section, Find(s, "section", section) # 0,
         NEW line, line.type = "key"
  PROVE  LET new == ini_set_key_value(s, section, line)
         IN  /\ SectionsOK(new) /\ Find(new, "section", section) # 0
             /\ ini_get_key_value(new, section, line.name)
                  = [value |-> line.value, more |-> <<>>]
             /\ \A name : name # line.name =>
                  ini_get_key_value(new, section, name)
                    = ini_get_key_value(s, section, name)
  <1> DEFINE i == Find(s, "section", section)
             item == Item(line)
             keys == get_key(s[i].keys, item)
             new == ini_set_key_value(s, section, line)
  <1>1. i \in 1 .. Len(s)
    BY FindIs DEF SectionsOK
  <1>2. ItemsOK(s[i].keys)
    BY <1>1, SectionHas DEF SectionsOK
  <1>3. item = [line |-> line, more |-> <<>>] /\ ItemOK(item)
    BY NoneIs DEF Item, ItemOK
  <1>4. item.line.type = "key" /\ item.line.name = line.name
    BY <1>3
  <1>5. Replaced(new, s, i, [s[i] EXCEPT !.keys = keys])
    BY DEF ini_set_key_value, Replaced
  <1> HIDE DEF new, item, i
  <1> DEFINE j == Find(keys, "key", line.name)
  <1>6. /\ ItemsOK(keys) /\ j # 0 /\ keys[j] = item
        /\ \A name : name # line.name =>
             /\ Find(keys, "key", name) = Find(s[i].keys, "key", name)
             /\ Find(s[i].keys, "key", name) # 0 =>
                  keys[Find(s[i].keys, "key", name)]
                    = s[i].keys[Find(s[i].keys, "key", name)]
    BY <1>2, <1>3, <1>4, KeyIsSet
  <1> HIDE DEF keys
  <1>7. /\ SectionsOK(new) /\ new[i].keys = keys
        /\ \A type, name : Find(new, type, name) = Find(s, type, name)
    BY <1>1, <1>5, <1>6, SectionStays
  <1>8. i # 0 /\ Find(new, "section", section) = i /\ Find(s, "section", section) = i
    BY <1>7 DEF i
  <1>9. ini_get_key_value(new, section, line.name) = [value |-> line.value, more |-> <<>>]
    BY <1>3, <1>6, <1>7, <1>8 DEF ini_get_key_value
  <1>10. ASSUME NEW name, name # line.name
         PROVE  ini_get_key_value(new, section, name) = ini_get_key_value(s, section, name)
    BY <1>6, <1>7, <1>8, <1>10 DEF ini_get_key_value
  <1> QED BY <1>7, <1>8, <1>9, <1>10 DEF new
-----------------------------------------------------------------------------
(* Reading                                                                 *)

\* What read_buf_line has read so far.
ReaderOK(r) == "items" \in DOMAIN r /\ ItemsOK(r.items)

\* An item is well formed when what was taken for a part of its line is a sequence.
LEMMA ItemIs ==
  ASSUME NEW l, NEW m, IsSeq(m)
  PROVE  ItemOK([line |-> l, more |-> m])
  BY Zenon DEF ItemOK

\* Conversely, what there is in an item.
LEMMA ItemHas ==
  ASSUME NEW x, ItemOK(x)
  PROVE  x = [line |-> x.line, more |-> x.more] /\ IsSeq(x.more)
  <1>1. PICK l, m : x = [line |-> l, more |-> m] /\ IsSeq(m)
    BY Zenon DEF ItemOK
  <1>2. x.line = l /\ x.more = m
    BY <1>1
  <1> QED BY <1>1, <1>2

\* Whatever the buffer does to a line, it goes behind the item that is open, or
\* becomes an item.
LEMMA ReadNextKeeps ==
  ASSUME NEW r, ReaderOK(r), NEW line
  PROVE  ReaderOK(ReadNext(r, line))
  <1> DEFINE n == Len(r.items)
             grow == IF r.open THEN [r EXCEPT !.items[n].more = Append(@, line)]
                     ELSE [r EXCEPT !.items = Append(@, Item(line))]
  <1>1. "items" \in DOMAIN r /\ ItemsOK(r.items) /\ IsSeq(r.items) /\ n \in Nat
    BY DEF ReaderOK, ItemsOK, IsSeq
  <1>2. ReaderOK(grow)
    <2>1. CASE ~r.open
      <3>1. ItemOK(Item(line))
        BY NoneIs, ItemIs DEF Item
      <3> DEFINE t == Append(r.items, Item(line))
      <3>2. /\ IsSeq(t) /\ Len(t) = n + 1 /\ t[n + 1] = Item(line)
            /\ \A j \in 1 .. n : t[j] = r.items[j]
        BY <1>1, AppendIs
      <3>3. "items" \in DOMAIN grow /\ grow.items = t
        BY <1>1, <2>1
      <3> HIDE DEF t, grow
      <3>4. ItemsOK(t)
        BY <1>1, <3>1, <3>2 DEF ItemsOK
      <3> QED BY <3>3, <3>4 DEF ReaderOK
    <2>2. CASE r.open
      <3> DEFINE it == r.items
                 x == [it[n] EXCEPT !.more = Append(@, line)]
                 t == [it EXCEPT ![n] = x]
      <3>1. "items" \in DOMAIN grow /\ grow.items = t
        BY <1>1, <2>2
      <3> HIDE DEF grow
      <3>2. ItemsOK(t)
        <4>1. CASE n = 0
          <5>1. DOMAIN it = 1 .. 0
            BY <1>1, <4>1 DEF IsSeq
          <5>2. n \notin DOMAIN it /\ it = [j \in DOMAIN it |-> it[j]]
            BY <1>1, <4>1, <5>1 DEF IsSeq
          <5>3. ItemsOK(it)
            BY <1>1
          <5> HIDE DEF n, it, x
          <5>4. t = it
            BY <5>2
          <5> HIDE DEF t
          <5> QED BY <5>3, <5>4
        <4>2. CASE n # 0
          <5>1. ItemOK(it[n]) /\ n \in 1 .. n
            BY <1>1, <4>2 DEF ItemsOK
          <5> DEFINE y == it[n]
                     m == Append(y.more, line)
          <5>2. y = [line |-> y.line, more |-> y.more] /\ IsSeq(y.more)
            BY <5>1, ItemHas
          <5>3. x = [y EXCEPT !.more = m]
            OBVIOUS
          <5>4. IsSeq(m)
            BY <5>2, AppendIs
          <5>5. Replaced(t, it, n, x) /\ IsSeq(it) /\ n = Len(it) /\ ItemsOK(it)
            BY <1>1 DEF Replaced
          <5> HIDE DEF x, t, n, it, y, m
          <5>6. [y EXCEPT !.more = m] = [line |-> y.line, more |-> m]
            BY <5>2
          <5>7. ItemOK(x)
            BY <5>3, <5>4, <5>6, ItemIs
          <5> QED BY <5>1, <5>5, <5>7, ReplaceIs DEF ItemsOK
        <4> QED BY <4>1, <4>2
      <3> HIDE DEF t
      <3> QED BY <3>1, <3>2 DEF ReaderOK
    <2> QED BY <2>1, <2>2
  <1> DEFINE taken == r.len - 1
             p == Pieces[line.size - taken, IF r.open THEN 2 * r.len ELSE r.len]
  <1>3. ReadNext(r, line) =
          IF ~r.open /\ line.size < taken THEN grow
          ELSE IF r.open /\ line.size = 0 THEN [grow EXCEPT !.open = FALSE, !.len = 2 * @]
          ELSE IF r.open /\ line.size < taken THEN [grow EXCEPT !.len = 2 * @]
          ELSE [grow EXCEPT !.open = ~p.closed, !.len = p.len]
    BY DEF ReadNext
  <1> HIDE DEF p, taken, grow
  <1>4. "items" \in DOMAIN grow
    BY <1>2 DEF ReaderOK
  <1>5. /\ "items" \in DOMAIN [grow EXCEPT !.open = FALSE, !.len = 2 * @]
        /\ [grow EXCEPT !.open = FALSE, !.len = 2 * @].items = grow.items
    BY <1>4
  <1>6. /\ "items" \in DOMAIN [grow EXCEPT !.len = 2 * @]
        /\ [grow EXCEPT !.len = 2 * @].items = grow.items
    BY <1>4
  <1>7. /\ "items" \in DOMAIN [grow EXCEPT !.open = ~p.closed, !.len = p.len]
        /\ [grow EXCEPT !.open = ~p.closed, !.len = p.len].items = grow.items
    BY <1>4
  <1>8. "items" \in DOMAIN ReadNext(r, line) /\ ReadNext(r, line).items = grow.items
    BY <1>3, <1>4, <1>5, <1>6, <1>7
  <1> QED BY <1>2, <1>8 DEF ReaderOK

\* The reader after k lines of the file.
ReadStart == [items |-> <<>>, open |-> FALSE, len |-> BufLen]

Reads(r, file, k) ==
  r = [i \in 0 .. k |-> IF i = 0 THEN ReadStart ELSE ReadNext(r[i - 1], file[i])]

\* read_buf_line takes the file line by line.
LEMMA ReadSteps ==
  ASSUME NEW file, IsSeq(file)
  PROVE  \E r : Reads(r, file, Len(file)) /\ read_buf_line(file) = r[Len(file)].items
  <1> DEFINE n == Len(file)
             P == {k \in 0 .. n : \E r : Reads(r, file, k)}
  <1>0. n \in Nat /\ 0 \in Int /\ n \in Int /\ 0 <= n
    BY DEF IsSeq
  <1>1. 0 \in P
    <2> DEFINE r == [i \in 0 .. 0 |-> ReadStart]
    <2>1. Reads(r, file, 0)
      BY DEF Reads
    <2> HIDE DEF r
    <2> QED BY <1>0, <2>1
  <1>2. ASSUME NEW k \in 0 .. n - 1, k \in P PROVE k + 1 \in P
    <2>1. PICK r : Reads(r, file, k)
      BY <1>2
    <2> DEFINE next == ReadNext(r[k], file[k + 1])
               b == [i \in 0 .. k + 1 |-> IF i = k + 1 THEN next ELSE r[i]]
    <2>2. k \in Nat /\ k + 1 \in 0 .. n
      BY <1>0
    <2>3. ASSUME NEW i \in 0 .. k + 1
          PROVE  b[i] = IF i = 0 THEN ReadStart ELSE ReadNext(b[i - 1], file[i])
      <3>1. CASE i = k + 1
        <4>1. i - 1 = k /\ k \in 0 .. k + 1 /\ k # k + 1 /\ i # 0
          BY <2>2, <3>1
        <4> QED BY <3>1, <4>1
      <3>2. CASE i # k + 1 /\ i # 0
        <4>1. i \in 0 .. k /\ i - 1 \in 0 .. k + 1 /\ i - 1 # k + 1
          BY <2>2, <3>2
        <4>2. b[i] = r[i] /\ b[i - 1] = r[i - 1]
          BY <3>2, <4>1
        <4>3. r[i] = ReadNext(r[i - 1], file[i])
          BY <2>1, <3>2, <4>1 DEF Reads
        <4> HIDE DEF b
        <4> QED BY <3>2, <4>2, <4>3
      <3>3. CASE i = 0
        <4>1. 0 # k + 1 /\ 0 \in 0 .. k
          BY <2>2
        <4>2. b[0] = r[0]
          BY <2>2, <4>1
        <4>3. r[0] = ReadStart
          BY <2>1, <4>1 DEF Reads
        <4> HIDE DEF b
        <4> QED BY <3>3, <4>2, <4>3
      <3> QED BY <2>2, <3>1, <3>2, <3>3
    <2>4. b = [i \in 0 .. k + 1 |-> b[i]]
      OBVIOUS
    <2> HIDE DEF b, next
    <2>5. Reads(b, file, k + 1)
      BY <2>3, <2>4 DEF Reads
    <2> QED BY <2>2, <2>5
  <1> HIDE DEF P
  <1>3. 0 .. n \subseteq P
    BY <1>0, <1>1, <1>2, IntervalInduction
  <1>4. \E r : Reads(r, file, n)
    BY <1>0, <1>3 DEF P
  <1> DEFINE r == CHOOSE r : Reads(r, file, n)
  <1>5. Reads(r, file, n)
    BY <1>4, Zenon
  <1>6. read_buf_line(file) = r[n].items
    BY DEF read_buf_line, Reads, ReadStart
  <1> HIDE DEF r
  <1> QED BY <1>5, <1>6

\* It reads well formed items.
LEMMA ReadItems ==
  ASSUME NEW file, IsSeq(file)
  PROVE  ItemsOK(read_buf_line(file))
  <1> DEFINE n == Len(file)
  <1>0. n \in Nat /\ 0 \in Int /\ n \in Int /\ 0 <= n
    BY DEF IsSeq
  <1>1. PICK r : Reads(r, file, n) /\ read_buf_line(file) = r[n].items
    BY ReadSteps
  <1> DEFINE P == {i \in 0 .. n : ReaderOK(r[i])}
  <1>2. 0 \in P
    <2>1. r[0] = ReadStart
      BY <1>0, <1>1 DEF Reads
    <2>2. ReaderOK(ReadStart)
      BY NoneIs DEF ReadStart, ReaderOK, ItemsOK
    <2> QED BY <1>0, <2>1, <2>2
  <1>3. ASSUME NEW i \in 0 .. n - 1, i \in P PROVE i + 1 \in P
    <2>1. i + 1 \in 0 .. n /\ i + 1 # 0 /\ (i + 1) - 1 = i
      BY <1>0
    <2>2. r[i + 1] = ReadNext(r[i], file[i + 1])
      BY <1>1, <2>1 DEF Reads
    <2> QED BY <1>3, <2>1, <2>2, ReadNextKeeps
  <1> HIDE DEF P
  <1>4. 0 .. n \subseteq P
    BY <1>0, <1>2, <1>3, IntervalInduction
  <1>5. ReaderOK(r[n])
    BY <1>0, <1>4 DEF P
  <1> QED BY <1>1, <1>5 DEF ReaderOK
-----------------------------------------------------------------------------
(* Building the lists                                                      *)

\* The lists, and the section that the next key goes to.
ListsOK(a) ==
  /\ "sections" \in DOMAIN a /\ "cur" \in DOMAIN a
  /\ SectionsOK(a.sections) /\ a.cur \in 0 .. Len(a.sections)

\* Adding a section without keys.
LEMMA SectionAdded ==
  ASSUME NEW s, SectionsOK(s), NEW item, ItemOK(item), NEW x,
         x = [line |-> item.line, more |-> item.more, keys |-> <<>>]
             \/ x = [line |-> item.line, more |-> <<>>, keys |-> <<>>]
  PROVE  /\ SectionsOK(Append(s, x)) /\ Len(Append(s, x)) = Len(s) + 1
         /\ Len(s) \in Nat
  <1>1. IsSeq(s) /\ Len(s) \in Nat /\ \A j \in 1 .. Len(s) : SectionOK(s[j])
    BY DEF SectionsOK, IsSeq
  <1>2. IsSeq(item.more) /\ ItemsOK(<<>>) /\ IsSeq(<<>>)
    BY ItemHas, NoneIs DEF ItemsOK
  <1>3. SectionOK(x)
    <2>1. /\ SectionOK([line |-> item.line, more |-> item.more, keys |-> <<>>])
          /\ SectionOK([line |-> item.line, more |-> <<>>, keys |-> <<>>])
      BY <1>2, SectionIs
    <2> QED BY <2>1
  <1> DEFINE t == Append(s, x)
  <1>4. /\ IsSeq(t) /\ Len(t) = Len(s) + 1 /\ t[Len(s) + 1] = x
        /\ \A j \in 1 .. Len(s) : t[j] = s[j]
    BY <1>1, AppendIs
  <1> HIDE DEF t
  <1>5. SectionsOK(t)
    BY <1>1, <1>3, <1>4 DEF SectionsOK
  <1> QED BY <1>1, <1>4, <1>5 DEF t

\* Adding an item to the keys of the current section.
LEMMA ItemAdded ==
  ASSUME NEW k, ItemsOK(k), NEW item, ItemOK(item)
  PROVE  ItemsOK(Append(k, item))
  <1>1. IsSeq(k) /\ Len(k) \in Nat /\ \A j \in 1 .. Len(k) : ItemOK(k[j])
    BY DEF ItemsOK, IsSeq
  <1> DEFINE t == Append(k, item)
  <1>2. /\ IsSeq(t) /\ Len(t) = Len(k) + 1 /\ t[Len(k) + 1] = item
        /\ \A j \in 1 .. Len(k) : t[j] = k[j]
    BY <1>1, AppendIs
  <1> HIDE DEF t
  <1>3. ItemsOK(t)
    BY <1>1, <1>2 DEF ItemsOK
  <1> QED BY <1>3 DEF t

\* Replacing the keys of the current section.
LEMMA KeysReplaced ==
  ASSUME NEW a, ListsOK(a), a.cur # 0, NEW keys, ItemsOK(keys), NEW b,
         "sections" \in DOMAIN b, "cur" \in DOMAIN b, b.cur = a.cur,
         Replaced(b.sections, a.sections, a.cur, [a.sections[a.cur] EXCEPT !.keys = keys])
  PROVE  ListsOK(b)
  <1>1. SectionsOK(a.sections) /\ a.cur \in 1 .. Len(a.sections)
    BY DEF ListsOK, SectionsOK, IsSeq
  <1>2. SectionsOK(b.sections) /\ Len(b.sections) = Len(a.sections)
    BY <1>1, SectionStays
  <1> QED BY <1>1, <1>2 DEF ListsOK

\* Every line keeps the lists well formed.
LEMMA LineKeeps ==
  ASSUME NEW a, ListsOK(a), NEW item, ItemOK(item)
  PROVE  ListsOK(analyse_line(a, item))
  <1> DEFINE s == a.sections
             c == a.cur
             type == item.line.type
  <1>1. /\ "sections" \in DOMAIN a /\ "cur" \in DOMAIN a
        /\ SectionsOK(s) /\ c \in 0 .. Len(s) /\ Len(s) \in Nat
    BY DEF ListsOK, SectionsOK, IsSeq
  <1>c. c # 0 => ItemsOK(s[c].keys)
    <2>1. c # 0 => c \in 1 .. Len(s)
      BY <1>1
    <2> QED BY <1>1, <2>1, SectionHas DEF SectionsOK
  <1>2. ListsOK(add_line(a, item))
    <2> DEFINE b == add_line(a, item)
    <2>1. CASE c = 0
      <3> DEFINE x == [line |-> item.line, more |-> item.more, keys |-> <<>>]
                 t == Append(s, x)
      <3>1. SectionsOK(t) /\ Len(t) = Len(s) + 1
        BY <1>1, SectionAdded
      <3>2. b = [a EXCEPT !.sections = t]
        BY <2>1 DEF add_line
      <3> HIDE DEF t, b
      <3>3. "sections" \in DOMAIN b /\ "cur" \in DOMAIN b /\ b.sections = t /\ b.cur = c
        BY <1>1, <3>2
      <3>4. ListsOK(b)
        BY <1>1, <3>1, <3>3 DEF ListsOK
      <3> QED BY <3>4 DEF b
    <2>2. CASE c # 0
      <3> DEFINE keys == Append(s[c].keys, item)
                 x == [s[c] EXCEPT !.keys = keys]
                 t == [s EXCEPT ![c] = x]
      <3>1. ItemsOK(keys)
        BY <1>c, <2>2, ItemAdded
      <3>2. b = [a EXCEPT !.sections = t]
        BY <2>2 DEF add_line
      <3>3. Replaced(t, s, c, x)
        BY DEF Replaced
      <3> HIDE DEF t, b
      <3>4. "sections" \in DOMAIN b /\ "cur" \in DOMAIN b /\ b.sections = t /\ b.cur = c
        BY <1>1, <3>2
      <3> HIDE DEF keys
      <3>5. ListsOK(b)
        BY <2>2, <3>1, <3>3, <3>4, KeysReplaced
      <3> QED BY <3>5 DEF b
    <2> QED BY <2>1, <2>2
  <1>3. ListsOK(get_section(a, item))
    <2> DEFINE b == get_section(a, item)
               f == Find(s, "section", item.line.name)
    <2>0. f \in 0 .. Len(s)
      BY <1>1, FindIs DEF SectionsOK
    <2>1. CASE f # 0
      <3>1. b = [a EXCEPT !.cur = f]
        BY <2>1 DEF get_section
      <3> HIDE DEF b, f
      <3>2. "sections" \in DOMAIN b /\ "cur" \in DOMAIN b /\ b.sections = s /\ b.cur = f
        BY <1>1, <3>1
      <3>3. ListsOK(b)
        BY <1>1, <2>0, <3>2 DEF ListsOK
      <3> QED BY <3>3 DEF b
    <2>2. CASE f = 0
      <3> DEFINE x == Section(item)
                 t == Append(s, x)
      <3>1. SectionsOK(t) /\ Len(t) = Len(s) + 1
        BY <1>1, SectionAdded DEF Section
      <3>2. b = [a EXCEPT !.sections = t, !.cur = Len(s) + 1]
        BY <2>2 DEF get_section
      <3> HIDE DEF t, b
      <3>3. /\ "sections" \in DOMAIN b /\ "cur" \in DOMAIN b
            /\ b.sections = t /\ b.cur = Len(s) + 1
        BY <1>1, <3>2
      <3>4. ListsOK(b)
        BY <1>1, <3>1, <3>3 DEF ListsOK
      <3> QED BY <3>4 DEF b
    <2> QED BY <2>1, <2>2
  <1>4. ASSUME type = "key", c # 0
        PROVE  ListsOK([a EXCEPT !.sections[a.cur].keys = get_key(@, item)])
    <2> DEFINE keys == get_key(s[c].keys, item)
               x == [s[c] EXCEPT !.keys = keys]
               t == [s EXCEPT ![c] = x]
               b == [a EXCEPT !.sections[a.cur].keys = get_key(@, item)]
    <2>1. ItemsOK(keys)
      BY <1>c, <1>4, KeyIsSet
    <2>2. Replaced(t, s, c, x)
      BY DEF Replaced
    <2>3. b = [a EXCEPT !.sections = t]
      OBVIOUS
    <2> HIDE DEF t, b
    <2>4. "sections" \in DOMAIN b /\ "cur" \in DOMAIN b /\ b.sections = t /\ b.cur = c
      BY <1>1, <2>3
    <2> HIDE DEF keys
    <2>5. ListsOK(b)
      BY <1>4, <2>1, <2>2, <2>4, KeysReplaced
    <2> QED BY <2>5 DEF b
  <1>5. ListsOK([a EXCEPT !.ok = FALSE])
    <2> DEFINE b == [a EXCEPT !.ok = FALSE]
    <2>1. "sections" \in DOMAIN b /\ "cur" \in DOMAIN b /\ b.sections = s /\ b.cur = c
      BY <1>1
    <2> HIDE DEF b
    <2>2. ListsOK(b)
      BY <1>1, <2>1 DEF ListsOK
    <2> QED BY <2>2 DEF b
  <1> QED BY <1>2, <1>3, <1>4, <1>5 DEF analyse_line

\* The lists after k items.
ListStart == [sections |-> <<>>, cur |-> 0, ok |-> TRUE]

Builds(r, items, k) ==
  r = [i \in 0 .. k |-> IF i = 0 THEN ListStart ELSE analyse_line(r[i - 1], items[i])]

\* ini_open takes them one by one.
LEMMA BuildSteps ==
  ASSUME NEW file, IsSeq(read_buf_line(file))
  PROVE  \E r : /\ Builds(r, read_buf_line(file), Len(read_buf_line(file)))
                /\ ini_open(file) = r[Len(read_buf_line(file))]
  <1> DEFINE items == read_buf_line(file)
             n == Len(items)
             P == {k \in 0 .. n : \E r : Builds(r, items, k)}
  <1>0. n \in Nat /\ 0 \in Int /\ n \in Int /\ 0 <= n
    BY DEF IsSeq
  <1>1. 0 \in P
    <2> DEFINE r == [i \in 0 .. 0 |-> ListStart]
    <2>1. Builds(r, items, 0)
      BY DEF Builds
    <2> HIDE DEF r
    <2> QED BY <1>0, <2>1
  <1>2. ASSUME NEW k \in 0 .. n - 1, k \in P PROVE k + 1 \in P
    <2>1. PICK r : Builds(r, items, k)
      BY <1>2
    <2> DEFINE next == analyse_line(r[k], items[k + 1])
               b == [i \in 0 .. k + 1 |-> IF i = k + 1 THEN next ELSE r[i]]
    <2>2. k \in Nat /\ k + 1 \in 0 .. n
      BY <1>0
    <2>3. ASSUME NEW i \in 0 .. k + 1
          PROVE  b[i] = IF i = 0 THEN ListStart ELSE analyse_line(b[i - 1], items[i])
      <3>1. CASE i = k + 1
        <4>1. i - 1 = k /\ k \in 0 .. k + 1 /\ k # k + 1 /\ i # 0
          BY <2>2, <3>1
        <4> QED BY <3>1, <4>1
      <3>2. CASE i # k + 1 /\ i # 0
        <4>1. i \in 0 .. k /\ i - 1 \in 0 .. k + 1 /\ i - 1 # k + 1
          BY <2>2, <3>2
        <4>2. b[i] = r[i] /\ b[i - 1] = r[i - 1]
          BY <3>2, <4>1
        <4>3. r[i] = analyse_line(r[i - 1], items[i])
          BY <2>1, <3>2, <4>1 DEF Builds
        <4> HIDE DEF b
        <4> QED BY <3>2, <4>2, <4>3
      <3>3. CASE i = 0
        <4>1. 0 # k + 1 /\ 0 \in 0 .. k
          BY <2>2
        <4>2. b[0] = r[0]
          BY <2>2, <4>1
        <4>3. r[0] = ListStart
          BY <2>1, <4>1 DEF Builds
        <4> HIDE DEF b
        <4> QED BY <3>3, <4>2, <4>3
      <3> QED BY <2>2, <3>1, <3>2, <3>3
    <2>4. b = [i \in 0 .. k + 1 |-> b[i]]
      OBVIOUS
    <2> HIDE DEF b, next
    <2>5. Builds(b, items, k + 1)
      BY <2>3, <2>4 DEF Builds
    <2> QED BY <2>2, <2>5
  <1> HIDE DEF P
  <1>3. 0 .. n \subseteq P
    BY <1>0, <1>1, <1>2, IntervalInduction
  <1>4. \E r : Builds(r, items, n)
    BY <1>0, <1>3 DEF P
  <1> DEFINE r == CHOOSE r : Builds(r, items, n)
  <1>5. Builds(r, items, n)
    BY <1>4, Zenon
  <1>6. ini_open(file) = r[n]
    BY DEF ini_open, Builds, ListStart
  <1> HIDE DEF r
  <1> QED BY <1>5, <1>6

\* The lists of a file are well formed, whatever is in it and whether or not
\* ini_open refuses it.
LEMMA ListsAre ==
  ASSUME NEW file, IsSeq(file)
  PROVE  SectionsOK(ini_open(file).sections)
  <1> DEFINE items == read_buf_line(file)
             n == Len(items)
  <1>0. /\ n \in Nat /\ 0 \in Int /\ n \in Int /\ 0 <= n /\ IsSeq(items)
        /\ \A i \in 1 .. n : ItemOK(items[i])
    BY ReadItems DEF ItemsOK, IsSeq
  <1>1. PICK r : Builds(r, items, n) /\ ini_open(file) = r[n]
    BY <1>0, BuildSteps
  <1> HIDE DEF items
  <1> DEFINE P == {i \in 0 .. n : ListsOK(r[i])}
  <1>2. 0 \in P
    <2>1. r[0] = ListStart
      BY <1>0, <1>1 DEF Builds
    <2>2. ListsOK(ListStart)
      BY NoneIs DEF ListStart, ListsOK, SectionsOK
    <2> QED BY <1>0, <2>1, <2>2
  <1>3. ASSUME NEW i \in 0 .. n - 1, i \in P PROVE i + 1 \in P
    <2>1. i + 1 \in 0 .. n /\ i + 1 \in 1 .. n /\ i + 1 # 0 /\ (i + 1) - 1 = i
      BY <1>0
    <2>2. r[i + 1] = analyse_line(r[i], items[i + 1])
      BY <1>1, <2>1 DEF Builds
    <2> QED BY <1>0, <1>3, <2>1, <2>2, LineKeeps
  <1> HIDE DEF P
  <1>4. 0 .. n \subseteq P
    BY <1>0, <1>2, <1>3, IntervalInduction
  <1>5. ListsOK(r[n])
    BY <1>0, <1>4 DEF P
  <1> QED BY <1>1, <1>5 DEF ListsOK
-----------------------------------------------------------------------------
(* Printing                                                                *)

\* The concatenation of sequences is a sequence.
LEMMA FlattenIs ==
  ASSUME NEW n \in Nat, NEW q, q = [i \in 1 .. n |-> q[i]], \A i \in 1 .. n : IsSeq(q[i])
  PROVE  IsSeq(FlattenSeq(q))
  <1>1. CASE n = 0
    <2>1. Len(q) = 0
      BY <1>1, MakeSeq
    <2>2. FlattenSeq(q) = <<>>
      BY <2>1 DEF FlattenSeq
    <2> QED BY <2>2, NoneIs
  <1>2. CASE n # 0
    <2> DEFINE X == UNION {{q[i][j] : j \in 1 .. Len(q[i])} : i \in 1 .. n}
    <2>1. ASSUME NEW i \in 1 .. n PROVE q[i] \in Seq(X)
      <3> DEFINE s == q[i]
      <3>1. Len(s) \in Nat /\ s = [j \in 1 .. Len(s) |-> s[j]]
        BY DEF IsSeq
      <3>2. \A j \in 1 .. Len(s) : s[j] \in X
        OBVIOUS
      <3> HIDE DEF s, X
      <3>3. s \in [1 .. Len(s) -> X]
        BY <3>1, <3>2
      <3>4. s \in Seq(X)
        BY <3>1, <3>3
      <3> QED BY <3>4 DEF s
    <2> HIDE DEF X
    <2>2. q \in [1 .. n -> Seq(X)] /\ n \in Nat \ {0}
      BY <1>2, <2>1
    <2>3. PICK f \in [1 .. n -> Seq(X)] : Concatenates(f, n, q) /\ FlattenSeq(q) = f[n]
      BY <2>2, FlattenSteps
    <2>4. f[n] \in Seq(X)
      BY <2>2
    <2> DEFINE u == FlattenSeq(q)
    <2>5. u \in Seq(X)
      BY <2>3, <2>4
    <2> HIDE DEF u
    <2>6. IsSeq(u)
      BY <2>5 DEF IsSeq
    <2> QED BY <2>6 DEF u
  <1> QED BY <1>1, <1>2

\* An item and a section are printed as a sequence of lines ...
LEMMA PrintedIs ==
  ASSUME NEW line, NEW more, IsSeq(more)
  PROVE  IsSeq(<<line>> \o more)
  <1> DEFINE s == <<line>>
  <1>1. Len(s) = 1 /\ s = [i \in 1 .. 1 |-> s[i]]
    OBVIOUS
  <1> HIDE DEF s
  <1>2. IsSeq(s)
    BY <1>1 DEF IsSeq
  <1>3. IsSeq(s \o more)
    BY <1>2, JoinIs
  <1> QED BY <1>3 DEF s

\* ... and so are the lists.
LEMMA SyncIs ==
  ASSUME NEW s, SectionsOK(s)
  PROVE  IsSeq(ini_sync(s))
  <1> DEFINE keys(i) == [j \in 1 .. Len(s[i].keys) |-> Printed(s[i].keys[j])]
             q == [i \in 1 .. Len(s) |-> Printed(s[i]) \o FlattenSeq(keys(i))]
  <1>0. Len(s) \in Nat /\ \A i \in 1 .. Len(s) : SectionOK(s[i])
    BY DEF SectionsOK, IsSeq
  <1>1. ASSUME NEW i \in 1 .. Len(s) PROVE IsSeq(Printed(s[i]) \o FlattenSeq(keys(i)))
    <2>1. IsSeq(s[i].more) /\ ItemsOK(s[i].keys)
      BY <1>0, SectionHas
    <2> DEFINE k == s[i].keys
               p == keys(i)
    <2>2. Len(k) \in Nat /\ \A j \in 1 .. Len(k) : ItemOK(k[j])
      BY <2>1 DEF ItemsOK, IsSeq
    <2>3. p = [j \in 1 .. Len(k) |-> p[j]] /\ \A j \in 1 .. Len(k) : p[j] = Printed(k[j])
      OBVIOUS
    <2>4. \A j \in 1 .. Len(k) : IsSeq(Printed(k[j]))
      BY <2>2, ItemHas, PrintedIs DEF Printed
    <2> HIDE DEF k, p
    <2>5. IsSeq(FlattenSeq(p))
      BY <2>2, <2>3, <2>4, FlattenIs
    <2>6. IsSeq(Printed(s[i]))
      BY <2>1, PrintedIs DEF Printed
    <2>7. IsSeq(Printed(s[i]) \o FlattenSeq(p))
      BY <2>5, <2>6, JoinIs
    <2> QED BY <2>7 DEF p
  <1>2. q = [i \in 1 .. Len(s) |-> q[i]] /\ \A i \in 1 .. Len(s) : IsSeq(q[i])
    BY <1>1
  <1>3. ini_sync(s) = FlattenSeq(q)
    BY DEF ini_sync
  <1> HIDE DEF q
  <1> QED BY <1>0, <1>2, <1>3, FlattenIs
-----------------------------------------------------------------------------
(* What is read                                                            *)

\* The reader with the items s, between two lines and with the buffer as it was allocated.
Fresh(r, s) ==
  /\ {"items", "open", "len"} \subseteq DOMAIN r
  /\ r.items = s /\ ~r.open /\ r.len = BufLen

\* A line that fits the buffer becomes an item of its own.
LEMMA ReadFits ==
  ASSUME NEW r, NEW s, Fresh(r, s), NEW line, line.size < BufLen - 1
  PROVE  Fresh(ReadNext(r, line), Append(s, Item(line)))
  <1> DEFINE t == Append(s, Item(line))
             q == [r EXCEPT !.items = t]
  <1>1. q = [r EXCEPT !.items = Append(@, Item(line))]
    BY DEF Fresh
  <1>2. ReadNext(r, line) = [r EXCEPT !.items = Append(@, Item(line))]
    BY DEF ReadNext, Fresh
  <1>3. Fresh(q, t)
    <2> HIDE DEF t
    <2>1. DOMAIN q = DOMAIN r /\ q.items = t /\ q.open = r.open /\ q.len = r.len
      BY DEF Fresh
    <2> HIDE DEF q
    <2> QED BY <2>1 DEF Fresh
  <1> QED BY <1>1, <1>2, <1>3

\* If all lines fit, the items are the lines.
LEMMA ReadAll ==
  ASSUME NEW file, IsSeq(file), FitsBuffer(file)
  PROVE  LET items == read_buf_line(file)
         IN  /\ IsSeq(items) /\ Len(items) = Len(file)
             /\ \A i \in 1 .. Len(file) : items[i] = Item(file[i])
  <1> DEFINE n == Len(file)
             Upto(s, k) == /\ IsSeq(s) /\ Len(s) = k
                           /\ \A i \in 1 .. k : s[i] = Item(file[i])
  <1>0. n \in Nat /\ 0 \in Int /\ n \in Int /\ 0 <= n
    BY DEF IsSeq
  <1>1. PICK r : Reads(r, file, n) /\ read_buf_line(file) = r[n].items
    BY ReadSteps
  <1> DEFINE P == {k \in 0 .. n : \E s : Fresh(r[k], s) /\ Upto(s, k)}
  <1>2. 0 \in P
    <2>1. Fresh(r[0], <<>>)
      <3>1. r[0] = ReadStart
        BY <1>0, <1>1 DEF Reads
      <3> QED BY <3>1 DEF ReadStart, Fresh
    <2>2. Upto(<<>>, 0)
      BY NoneIs
    <2> HIDE DEF Upto
    <2>3. \E s : Fresh(r[0], s) /\ Upto(s, 0)
      BY <2>1, <2>2, Zenon
    <2> QED BY <1>0, <2>3
  <1>3. ASSUME NEW k \in 0 .. n - 1, k \in P PROVE k + 1 \in P
    <2>1. k + 1 \in 0 .. n /\ k + 1 \in 1 .. n /\ k + 1 # 0 /\ (k + 1) - 1 = k /\ k \in Nat
      BY <1>0
    <2>2. PICK s : Fresh(r[k], s) /\ Upto(s, k)
      BY <1>3, Zenon
    <2> DEFINE t == Append(s, Item(file[k + 1]))
    <2>3. r[k + 1] = ReadNext(r[k], file[k + 1])
      BY <1>1, <2>1 DEF Reads
    <2>4. Fresh(r[k + 1], t)
      <3>1. file[k + 1].size < BufLen - 1
        BY <2>1 DEF FitsBuffer
      <3>2. Fresh(ReadNext(r[k], file[k + 1]), t)
        BY <2>2, <3>1, ReadFits
      <3> QED BY <2>3, <3>2
    <2>5. /\ IsSeq(t) /\ Len(t) = k + 1 /\ t[k + 1] = Item(file[k + 1])
          /\ \A i \in 1 .. k : t[i] = s[i]
      BY <2>2, AppendIs
    <2>6. Upto(t, k + 1)
      <3> HIDE DEF t
      <3>1. ASSUME NEW i \in 1 .. k + 1 PROVE t[i] = Item(file[i])
        <4>1. i \in 1 .. k \/ i = k + 1
          BY <2>1
        <4> QED BY <2>2, <2>5, <4>1
      <3> QED BY <2>5, <3>1
    <2> HIDE DEF Upto, t
    <2>7. \E u : Fresh(r[k + 1], u) /\ Upto(u, k + 1)
      BY <2>4, <2>6, Zenon
    <2> QED BY <2>1, <2>7
  <1>4. n \in P
    <2> HIDE DEF P
    <2>1. 0 .. n \subseteq P
      BY <1>0, <1>2, <1>3, IntervalInduction
    <2> QED BY <1>0, <2>1
  <1>5. PICK s : Fresh(r[n], s) /\ Upto(s, n)
    BY <1>4, Zenon
  <1>6. r[n].items = s
    BY <1>5 DEF Fresh
  <1> QED BY <1>1, <1>5, <1>6

\* Max of a set of naturals that has an upper bound is its greatest element.
LEMMA MaxIsGreatest ==
  ASSUME NEW n \in Nat, NEW T \in SUBSET (0 .. n), T # {}
  PROVE  Max(T) \in T /\ \A y \in T : y <= Max(T)
  <1> DEFINE D == {n - x : x \in T}
  <1>1. D \in SUBSET Nat /\ D # {}
    OBVIOUS
  <1>2. PICK d \in D : \A e \in D : d <= e
    BY <1>1, LeastNatural
  <1>3. n - d \in T /\ \A y \in T : n - d >= y
    <2>1. PICK x \in T : d = n - x
      OBVIOUS
    <2>2. n - d = x /\ n \in Int /\ \A y \in T : y \in Int /\ n - y \in D
      BY <2>1
    <2>3. \A y \in T : d <= n - y
      BY <1>2, <2>2
    <2> HIDE DEF D
    <2> QED BY <2>1, <2>2, <2>3
  <1>4. \E x \in T : \A y \in T : x >= y
    BY <1>3
  <1>5. Max(T) \in T /\ \A y \in T : Max(T) >= y
    BY <1>4 DEF Max
  <1> QED BY <1>5

\* The section of a line that does not begin one is that of the line before it.
LEMMA SectionGoesOn ==
  ASSUME NEW f, NEW n \in Nat, f[n + 1].type # "section"
  PROVE  SectionOf(f, n + 1) = SectionOf(f, n)
  <1> DEFINE S(i) == {j \in 1 .. i : f[j].type = "section"}
  <1>1. ASSUME NEW j \in 1 .. n + 1, f[j].type = "section" PROVE j \in 1 .. n
    <2>1. j # n + 1
      BY <1>1
    <2> QED BY <2>1
  <1>2. S(n + 1) = S(n)
    BY <1>1
  <1> QED BY <1>2 DEF SectionOf

\* A line that begins one is in it.
LEMMA SectionBegins ==
  ASSUME NEW f, NEW n \in Nat, f[n + 1].type = "section"
  PROVE  SectionOf(f, n + 1) = f[n + 1].name
  <1> DEFINE S == {j \in 1 .. n + 1 : f[j].type = "section"}
  <1>1. n + 1 \in S /\ S \in SUBSET (0 .. n + 1) /\ n + 1 \in Nat
    OBVIOUS
  <1>2. Max(S) \in S /\ \A y \in S : y <= Max(S)
    BY <1>1, MaxIsGreatest
  <1>3. Max(S) = n + 1
    BY <1>1, <1>2
  <1> QED BY <1>3 DEF SectionOf

\* The value of a key in the first n lines.
KeyLines(f, n, s, k) ==
  {i \in 1 .. n : f[i].type = "key" /\ f[i].name = k /\ SectionOf(f, i) = s}

ValueIn(f, n, s, k) ==
  LET I == KeyLines(f, n, s, k)
  IN  IF I = {} THEN NoValue ELSE [value |-> f[Max(I)].value, more |-> <<>>]

\* Only a line of the key can change it ...
LEMMA ValueStays ==
  ASSUME NEW f, NEW n \in Nat, NEW s, NEW k,
         ~(f[n + 1].type = "key" /\ f[n + 1].name = k /\ SectionOf(f, n + 1) = s)
  PROVE  ValueIn(f, n + 1, s, k) = ValueIn(f, n, s, k)
  <1>1. ASSUME NEW i \in KeyLines(f, n + 1, s, k) PROVE i \in KeyLines(f, n, s, k)
    <2>1. i # n + 1 /\ i \in 1 .. n + 1
      BY DEF KeyLines
    <2>2. i \in 1 .. n
      BY <2>1
    <2> QED BY <2>2 DEF KeyLines
  <1>2. KeyLines(f, n, s, k) \subseteq KeyLines(f, n + 1, s, k)
    BY DEF KeyLines
  <1>3. KeyLines(f, n + 1, s, k) = KeyLines(f, n, s, k)
    BY <1>1, <1>2
  <1> QED BY <1>3 DEF ValueIn

\* ... and it does.
LEMMA ValueChanges ==
  ASSUME NEW f, NEW n \in Nat, NEW s, NEW k,
         f[n + 1].type = "key" /\ f[n + 1].name = k /\ SectionOf(f, n + 1) = s
  PROVE  ValueIn(f, n + 1, s, k) = [value |-> f[n + 1].value, more |-> <<>>]
  <1> DEFINE I == KeyLines(f, n + 1, s, k)
  <1>1. n + 1 \in I /\ I \in SUBSET (0 .. n + 1) /\ n + 1 \in Nat /\ I \subseteq 1 .. n + 1
    BY DEF KeyLines
  <1> HIDE DEF I
  <1>2. Max(I) \in I /\ \A y \in I : y <= Max(I)
    BY <1>1, MaxIsGreatest
  <1>3. Max(I) = n + 1 /\ I # {}
    <2>1. n + 1 <= Max(I) /\ Max(I) \in 1 .. n + 1
      BY <1>1, <1>2
    <2> QED BY <1>1, <2>1
  <1> QED BY <1>3 DEF ValueIn, I

\* An item that was appended is found where no other one matches.
LEMMA FindAppended ==
  ASSUME NEW s, IsSeq(s), NEW x, NEW type, NEW name
  PROVE  Find(Append(s, x), type, name) =
           IF Find(s, type, name) # 0 THEN Find(s, type, name)
           ELSE IF Matches(x, type, name) THEN Len(s) + 1 ELSE 0
  <1> DEFINE f == Find(s, type, name)
             t == Append(s, x)
  <1>1. \/ f = 0 /\ \A i \in 1 .. Len(s) : ~Matches(s[i], type, name)
        \/ /\ f \in 1 .. Len(s) /\ Matches(s[f], type, name)
           /\ \A i \in 1 .. f - 1 : ~Matches(s[i], type, name)
    BY FindIs
  <1>2. /\ IsSeq(t) /\ Len(t) = Len(s) + 1 /\ t[Len(s) + 1] = x
        /\ \A i \in 1 .. Len(s) : t[i] = s[i]
    BY AppendIs
  <1>3. Len(s) \in Nat
    BY DEF IsSeq
  <1> HIDE DEF f, t
  <1>4. CASE f # 0
    <2>1. /\ f \in 1 .. Len(t) /\ Matches(t[f], type, name)
          /\ \A i \in 1 .. f - 1 : ~Matches(t[i], type, name)
      BY <1>1, <1>2, <1>3, <1>4
    <2>2. Find(t, type, name) = f
      BY <1>2, <2>1, FoundFirst
    <2> QED BY <1>4, <2>2 DEF f, t
  <1>5. CASE f = 0
    <2>1. \A i \in 1 .. Len(s) : ~Matches(t[i], type, name)
      BY <1>1, <1>2, <1>5
    <2>2. CASE Matches(x, type, name)
      <3>1. Len(s) + 1 \in 1 .. Len(t) /\ Matches(t[Len(s) + 1], type, name)
            /\ (Len(s) + 1) - 1 = Len(s)
        BY <1>2, <1>3, <2>2
      <3>2. Find(t, type, name) = Len(s) + 1
        BY <1>2, <2>1, <3>1, FoundFirst
      <3> QED BY <1>5, <2>2, <3>2 DEF f, t
    <2>3. CASE ~Matches(x, type, name)
      <3>1. ASSUME NEW i \in 1 .. Len(t) PROVE ~Matches(t[i], type, name)
        <4>1. i \in 1 .. Len(s) \/ i = Len(s) + 1
          BY <1>2, <1>3
        <4> QED BY <1>2, <2>1, <2>3, <4>1
      <3>2. Find(t, type, name) = 0
        BY <1>2, <3>1, FoundNone
      <3> QED BY <1>5, <2>3, <3>2 DEF f, t
    <2> QED BY <2>2, <2>3
  <1> QED BY <1>4, <1>5

\* The value of a key in the list of a section.
KeyValue(keys, k) ==
  LET j == Find(keys, "key", k)
  IN  IF j = 0 THEN NoValue ELSE [value |-> keys[j].line.value, more |-> keys[j].more]

\* ini_get_key_value looks into the first section of the name.
LEMMA GetIs ==
  ASSUME NEW s, NEW name, NEW k
  PROVE  ini_get_key_value(s, name, k) =
           IF Find(s, "section", name) = 0 THEN NoValue
           ELSE KeyValue(s[Find(s, "section", name)].keys, k)
  BY DEF ini_get_key_value, KeyValue

\* A key is set, and the others are not.
LEMMA KeyValueSet ==
  ASSUME NEW keys, ItemsOK(keys), NEW line, line.type = "key", NEW k
  PROVE  KeyValue(get_key(keys, Item(line)), k) =
           IF k = line.name THEN [value |-> line.value, more |-> <<>>] ELSE KeyValue(keys, k)
  <1> DEFINE item == Item(line)
             new == get_key(keys, item)
             j == Find(new, "key", item.line.name)
  <1>1. item.line = line /\ item.more = <<>>
    BY DEF Item
  <1>2. ItemOK(item)
    BY NoneIs, ItemIs DEF Item
  <1>3. item.line.type = "key"
    BY <1>1
  <1> HIDE DEF item
  <1>4. /\ j # 0 /\ new[j] = item
        /\ \A name : name # item.line.name =>
             /\ Find(new, "key", name) = Find(keys, "key", name)
             /\ Find(keys, "key", name) # 0 =>
                  new[Find(keys, "key", name)] = keys[Find(keys, "key", name)]
    BY <1>2, <1>3, KeyIsSet
  <1> HIDE DEF new
  <1>5. KeyValue(new, k) = IF k = line.name THEN [value |-> line.value, more |-> <<>>]
                           ELSE KeyValue(keys, k)
    BY <1>1, <1>4 DEF KeyValue
  <1> QED BY <1>5 DEF new, item

\* A comment or a blank line changes no value.
LEMMA KeyValueKept ==
  ASSUME NEW keys, ItemsOK(keys), NEW item, item.line.type # "key", NEW k
  PROVE  KeyValue(Append(keys, item), k) = KeyValue(keys, k)
  <1> DEFINE t == Append(keys, item)
             f == Find(keys, "key", k)
  <1>1. IsSeq(keys) /\ ~Matches(item, "key", k)
    BY DEF ItemsOK, Matches
  <1>2. Find(t, "key", k) = f
    BY <1>1, FindAppended
  <1>3. f # 0 => f \in 1 .. Len(keys)
    BY <1>1, FindIs
  <1>4. \A i \in 1 .. Len(keys) : t[i] = keys[i]
    BY <1>1, AppendIs
  <1> HIDE DEF t, f
  <1>5. KeyValue(t, k) = KeyValue(keys, k)
    BY <1>2, <1>3, <1>4 DEF KeyValue, f
  <1> QED BY <1>5 DEF t

\* Changing the keys of one section changes what is found in it only.
LEMMA ValuesOfOthers ==
  ASSUME NEW s, SectionsOK(s), NEW i \in 1 .. Len(s), NEW keys, ItemsOK(keys),
         NEW new, Replaced(new, s, i, [s[i] EXCEPT !.keys = keys])
  PROVE  /\ \A name : Find(new, "section", name) = Find(s, "section", name)
         /\ \A name, k : ini_get_key_value(new, name, k) =
              IF Find(s, "section", name) = i THEN KeyValue(keys, k)
              ELSE ini_get_key_value(s, name, k)
  <1>1. /\ \A type, name : Find(new, type, name) = Find(s, type, name)
        /\ new[i].keys = keys
    BY SectionStays
  <1>2. \A j \in 1 .. Len(s) : j # i => new[j] = s[j]
    <2> DEFINE x == [s[i] EXCEPT !.keys = keys]
    <2>1. Replaced(new, s, i, x) /\ IsSeq(s)
      BY DEF SectionsOK
    <2> HIDE DEF x
    <2> QED BY <2>1, ReplaceIs
  <1>3. ASSUME NEW name, NEW k
        PROVE  ini_get_key_value(new, name, k) =
                 IF Find(s, "section", name) = i THEN KeyValue(keys, k)
                 ELSE ini_get_key_value(s, name, k)
    <2> DEFINE f == Find(s, "section", name)
    <2>1. Find(new, "section", name) = f /\ (f # 0 => f \in 1 .. Len(s)) /\ 0 \notin 1 .. Len(s)
      BY <1>1, FindIs DEF SectionsOK
    <2>2. /\ ini_get_key_value(new, name, k) =
               IF f = 0 THEN NoValue ELSE KeyValue(new[f].keys, k)
          /\ ini_get_key_value(s, name, k) =
               IF f = 0 THEN NoValue ELSE KeyValue(s[f].keys, k)
      BY <2>1, GetIs
    <2> HIDE DEF f
    <2>3. ini_get_key_value(new, name, k) =
            IF f = i THEN KeyValue(keys, k) ELSE ini_get_key_value(s, name, k)
      BY <1>1, <1>2, <2>1, <2>2
    <2> QED BY <2>3 DEF f
  <1> QED BY <1>1, <1>3

\* Appending a section without keys changes no value, and it is found by its
\* name, if it has one.
LEMMA ValuesBefore ==
  ASSUME NEW s, SectionsOK(s), NEW x, x.keys = <<>>,
         x.line.type = "section" => Find(s, "section", x.line.name) = 0
  PROVE  /\ \A name : Find(Append(s, x), "section", name) =
              IF Matches(x, "section", name) THEN Len(s) + 1 ELSE Find(s, "section", name)
         /\ \A name, k : ini_get_key_value(Append(s, x), name, k)
                           = ini_get_key_value(s, name, k)
  <1> DEFINE t == Append(s, x)
  <1>1. IsSeq(s) /\ Len(s) \in Nat
    BY DEF SectionsOK, IsSeq
  <1>2. t[Len(s) + 1] = x /\ \A i \in 1 .. Len(s) : t[i] = s[i]
    BY <1>1, AppendIs
  <1>3. ASSUME NEW name
        PROVE  /\ Find(t, "section", name) = IF Matches(x, "section", name) THEN Len(s) + 1
                                             ELSE Find(s, "section", name)
               /\ Matches(x, "section", name) => Find(s, "section", name) = 0
    <2>1. Matches(x, "section", name) => Find(s, "section", name) = 0
      BY DEF Matches
    <2> QED BY <1>1, <2>1, FindAppended
  <1>4. ASSUME NEW name, NEW k
        PROVE  ini_get_key_value(t, name, k) = ini_get_key_value(s, name, k)
    <2> DEFINE f == Find(s, "section", name)
               g == Find(t, "section", name)
    <2>1. g = (IF Matches(x, "section", name) THEN Len(s) + 1 ELSE f)
          /\ (Matches(x, "section", name) => f = 0) /\ (f # 0 => f \in 1 .. Len(s))
      BY <1>1, <1>3, FindIs
    <2>2. /\ ini_get_key_value(t, name, k) =
               IF g = 0 THEN NoValue ELSE KeyValue(t[g].keys, k)
          /\ ini_get_key_value(s, name, k) =
               IF f = 0 THEN NoValue ELSE KeyValue(s[f].keys, k)
      BY GetIs
    <2>3. KeyValue(x.keys, k) = NoValue
      <3>1. IsSeq(x.keys) /\ Len(x.keys) = 0
        BY NoneIs
      <3>2. Find(x.keys, "key", k) = 0
        BY <3>1, FoundNone
      <3> QED BY <3>2 DEF KeyValue
    <2> HIDE DEF f, g, t
    <2>4. CASE Matches(x, "section", name)
      <3>1. g = Len(s) + 1 /\ f = 0 /\ g # 0 /\ t[g] = x
        BY <1>1, <1>2, <2>1, <2>4
      <3> QED BY <2>2, <2>3, <3>1
    <2>5. CASE ~Matches(x, "section", name)
      <3>1. g = f /\ (f # 0 => t[f] = s[f])
        BY <1>2, <2>1, <2>5
      <3> QED BY <2>2, <3>1
    <2> QED BY <2>4, <2>5
  <1> QED BY <1>3, <1>4

\* The lines that stand between sections and keys.
Filler == {"blank", "comment"}

\* A section, or a line before the first one, as it enters the list.
NewSection(line) == [line |-> line, more |-> <<>>, keys |-> <<>>]

\* What analyse_line makes of one line, in terms of the lists, the section that is
\* being read, and ok.
LineDone(a, b, line) ==
  \/ /\ ~b.ok /\ b.sections = a.sections /\ b.cur = a.cur
     /\ line.type \notin Filler \cup {"section"} /\ (line.type = "key" => a.cur = 0)
  \/ /\ b.ok = a.ok
     /\ \/ /\ line.type \in Filler /\ a.cur = 0 /\ b.cur = 0
           /\ b.sections = Append(a.sections, NewSection(line))
        \/ /\ line.type \in Filler /\ a.cur # 0 /\ b.cur = a.cur
           /\ \E item : /\ item = Item(line)
                        /\ Replaced(b.sections, a.sections, a.cur,
                             [a.sections[a.cur] EXCEPT !.keys = Append(a.sections[a.cur].keys, item)])
        \/ /\ line.type = "section" /\ b.cur # 0 /\ b.sections = a.sections
           /\ b.cur = Find(a.sections, "section", line.name)
        \/ /\ line.type = "section" /\ Find(a.sections, "section", line.name) = 0
           /\ b.cur = Len(a.sections) + 1
           /\ b.sections = Append(a.sections, NewSection(line))
        \/ /\ line.type = "key" /\ a.cur # 0 /\ b.cur = a.cur
           /\ Replaced(b.sections, a.sections, a.cur,
                [a.sections[a.cur] EXCEPT !.keys = get_key(a.sections[a.cur].keys, Item(line))])

Fields(a) == {"sections", "cur", "ok"} \subseteq DOMAIN a

\* There are no other ways.
LEMMA LineIsDone ==
  ASSUME NEW a, Fields(a), NEW line
  PROVE  LET b == analyse_line(a, Item(line)) IN Fields(b) /\ LineDone(a, b, line)
  <1> DEFINE item == Item(line)
             s == a.sections
             c == a.cur
             b == analyse_line(a, item)
  <1>1. item.line = line /\ item.more = <<>>
    BY DEF Item
  <1> HIDE DEF item
  <1>2. CASE line.type \in {"blank", "comment"}
    <2>1. b = add_line(a, item) /\ line.type \in Filler
      BY <1>1, <1>2 DEF analyse_line, Filler
    <2>2. CASE c = 0
      <3> DEFINE x == [line |-> item.line, more |-> item.more, keys |-> <<>>]
                 t == Append(s, x)
      <3>1. b = [a EXCEPT !.sections = t]
        BY <2>1, <2>2 DEF add_line
      <3>2. x = NewSection(line)
        BY <1>1 DEF NewSection
      <3> HIDE DEF b, t
      <3>3. Fields(b) /\ b.sections = t /\ b.cur = c /\ b.ok = a.ok
        BY <3>1 DEF Fields
      <3> HIDE DEF x
      <3>4. b.sections = Append(s, NewSection(line))
        BY <3>2, <3>3 DEF t
      <3>5. LineDone(a, b, line)
        BY <2>1, <2>2, <3>3, <3>4 DEF LineDone
      <3> QED BY <3>3, <3>5 DEF b, item
    <2>3. CASE c # 0
      <3> DEFINE x == [s[c] EXCEPT !.keys = Append(s[c].keys, item)]
                 t == [s EXCEPT ![c] = x]
      <3>1. b = [a EXCEPT !.sections = t]
        BY <2>1, <2>3 DEF add_line
      <3>2. Replaced(t, s, c, x)
        BY DEF Replaced
      <3> HIDE DEF b, t
      <3>3. Fields(b) /\ b.sections = t /\ b.cur = c /\ b.ok = a.ok
        BY <3>1 DEF Fields
      <3>4. \E i : i = Item(line) /\ Replaced(b.sections, s, c, [s[c] EXCEPT !.keys = Append(s[c].keys, i)])
        BY <3>2, <3>3, Zenon DEF item
      <3>5. LineDone(a, b, line)
        BY <2>1, <2>3, <3>3, <3>4 DEF LineDone
      <3> QED BY <3>3, <3>5 DEF b, item
    <2> QED BY <2>2, <2>3
  <1>3. CASE line.type = "section"
    <2> DEFINE f == Find(s, "section", line.name)
    <2>1. b = get_section(a, item)
      BY <1>1, <1>3 DEF analyse_line
    <2>2. CASE f # 0
      <3>1. b = [a EXCEPT !.cur = f]
        BY <1>1, <2>1, <2>2 DEF get_section
      <3> HIDE DEF b, f
      <3>2. Fields(b) /\ b.sections = s /\ b.cur = f /\ b.ok = a.ok
        BY <3>1 DEF Fields
      <3>3. LineDone(a, b, line)
        BY <1>3, <2>2, <3>2 DEF LineDone, f
      <3> QED BY <3>2, <3>3 DEF b, item
    <2>3. CASE f = 0
      <3> DEFINE x == Section(item)
                 t == Append(s, x)
      <3>1. b = [a EXCEPT !.sections = t, !.cur = Len(s) + 1]
        BY <1>1, <2>1, <2>3 DEF get_section
      <3>2. x = NewSection(line)
        BY <1>1 DEF Section, NewSection
      <3> HIDE DEF b, t
      <3>3. Fields(b) /\ b.sections = t /\ b.cur = Len(s) + 1 /\ b.ok = a.ok
        BY <3>1 DEF Fields
      <3> HIDE DEF x
      <3>4. b.sections = Append(s, NewSection(line))
        BY <3>2, <3>3 DEF t
      <3>5. LineDone(a, b, line)
        BY <1>3, <2>3, <3>3, <3>4 DEF LineDone
      <3> QED BY <3>3, <3>5 DEF b, item
    <2> QED BY <2>2, <2>3
  <1>4. CASE line.type = "key" /\ c # 0
    <2> DEFINE x == [s[c] EXCEPT !.keys = get_key(s[c].keys, item)]
               t == [s EXCEPT ![c] = x]
    <2>1. b = [a EXCEPT !.sections = t]
      BY <1>1, <1>4 DEF analyse_line
    <2>2. Replaced(t, s, c, x)
      BY DEF Replaced
    <2> HIDE DEF b, t
    <2>3. Fields(b) /\ b.sections = t /\ b.cur = c /\ b.ok = a.ok
      BY <2>1 DEF Fields
    <2>4. LineDone(a, b, line)
      BY <1>4, <2>2, <2>3 DEF LineDone, item
    <2> QED BY <2>3, <2>4 DEF b, item
  <1>5. CASE /\ line.type \notin {"blank", "comment", "section"}
             /\ ~(line.type = "key" /\ c # 0)
    <2>1. b = [a EXCEPT !.ok = FALSE]
      BY <1>1, <1>5 DEF analyse_line
    <2> HIDE DEF b
    <2>2. Fields(b) /\ ~b.ok /\ b.sections = s /\ b.cur = c
      BY <2>1 DEF Fields
    <2>3. LineDone(a, b, line)
      BY <1>5, <2>2 DEF LineDone, Filler
    <2> QED BY <2>2, <2>3 DEF b, item
  <1> QED BY <1>2, <1>3, <1>4, <1>5

\* The lists say of the first n lines what their reader would: the current section
\* is the one that is found by its name, and the keys have their last values.
Says(a, f, n) ==
  /\ a.cur # 0 => Find(a.sections, "section", SectionOf(f, n)) = a.cur
  /\ \A name, k : ini_get_key_value(a.sections, name, k) = ValueIn(f, n, name, k)

\* So they do with the next one.
LEMMA SaysMore ==
  ASSUME NEW a, ListsOK(a), NEW f, NEW n \in Nat, Says(a, f, n),
         NEW b, b.ok, NEW line, line = f[n + 1], LineDone(a, b, line)
  PROVE  Says(b, f, n + 1)
  <1> DEFINE s == a.sections
             c == a.cur
             here == SectionOf(f, n + 1)
  <1>1. /\ SectionsOK(s) /\ IsSeq(s) /\ Len(s) \in Nat /\ (c # 0 => c \in 1 .. Len(s))
    BY DEF ListsOK, SectionsOK, IsSeq
  <1>2. /\ c # 0 => Find(s, "section", SectionOf(f, n)) = c
        /\ \A name, k : ini_get_key_value(s, name, k) = ValueIn(f, n, name, k)
    BY DEF Says
  <1>k. c # 0 => ItemsOK(s[c].keys)
    BY <1>1, SectionHas DEF SectionsOK
  <1>3. line.type # "key" => \A name, k : ValueIn(f, n + 1, name, k) = ValueIn(f, n, name, k)
    BY ValueStays
  <1>4. line.type # "section" => here = SectionOf(f, n)
    BY SectionGoesOn
  <1>5. line.type = "section" => here = line.name
    BY SectionBegins
  <1> HIDE DEF s, c, here
  <1> DEFINE x == NewSection(line)
  <1>x. x.line = line /\ x.keys = <<>>
    BY DEF NewSection
  <1> HIDE DEF x
  <1>6. CASE /\ line.type \in Filler /\ c = 0 /\ b.cur = 0
             /\ b.sections = Append(s, x)
    <2>1. x.line = line /\ x.keys = <<>> /\ b.sections = Append(s, x)
          /\ line.type \notin {"section", "key"}
      BY <1>x, <1>6 DEF Filler
    <2>2. x.line.type # "section"
      BY <1>6, <2>1
    <2>3. \A name, k : ini_get_key_value(Append(s, x), name, k) = ini_get_key_value(s, name, k)
      BY <1>1, <2>1, <2>2, ValuesBefore
    <2> QED BY <1>2, <1>3, <1>6, <2>1, <2>3 DEF Says
  <1>7. CASE /\ line.type \in Filler /\ c # 0 /\ b.cur = c
             /\ \E item : /\ item = Item(line)
                          /\ Replaced(b.sections, s, c,
                               [s[c] EXCEPT !.keys = Append(s[c].keys, item)])
    <2>1. PICK item : /\ item = Item(line)
                      /\ Replaced(b.sections, s, c,
                           [s[c] EXCEPT !.keys = Append(s[c].keys, item)])
      BY <1>7, Zenon
    <2> DEFINE keys == Append(s[c].keys, item)
    <2>2. item.line = line /\ ItemOK(item) /\ line.type \notin {"section", "key"}
      BY <1>7, <2>1, NoneIs, ItemIs DEF Item, Filler
    <2>3. ItemsOK(keys)
      BY <1>k, <1>7, <2>2, ItemAdded
    <2>4. Replaced(b.sections, s, c, [s[c] EXCEPT !.keys = keys])
      BY <2>1
    <2>5. \A k : KeyValue(keys, k) = KeyValue(s[c].keys, k)
      BY <1>k, <1>7, <2>2, KeyValueKept
    <2> HIDE DEF keys
    <2>6. /\ \A name : Find(b.sections, "section", name) = Find(s, "section", name)
          /\ \A name, k : ini_get_key_value(b.sections, name, k) =
               IF Find(s, "section", name) = c THEN KeyValue(keys, k)
               ELSE ini_get_key_value(s, name, k)
      BY <1>1, <1>7, <2>3, <2>4, ValuesOfOthers
    <2>7. ASSUME NEW name, NEW k
          PROVE  ini_get_key_value(b.sections, name, k) = ini_get_key_value(s, name, k)
      <3>1. ini_get_key_value(s, name, k) =
              IF Find(s, "section", name) = 0 THEN NoValue
              ELSE KeyValue(s[Find(s, "section", name)].keys, k)
        BY GetIs
      <3> QED BY <1>7, <2>5, <2>6, <3>1
    <2> QED BY <1>2, <1>3, <1>4, <1>7, <2>2, <2>6, <2>7 DEF Says, here
  <1>8. CASE /\ line.type = "section" /\ b.cur # 0 /\ b.sections = s
             /\ b.cur = Find(s, "section", line.name)
    BY <1>2, <1>3, <1>5, <1>8 DEF Says, here
  <1>9. CASE /\ line.type = "section" /\ Find(s, "section", line.name) = 0
             /\ b.cur = Len(s) + 1
             /\ b.sections = Append(s, x)
    <2>1. x.line = line /\ x.keys = <<>> /\ b.sections = Append(s, x)
      BY <1>x, <1>9
    <2>2. Find(s, "section", x.line.name) = 0 /\ Matches(x, "section", line.name)
      BY <1>9, <2>1 DEF Matches
    <2>3. /\ \A name : Find(Append(s, x), "section", name) =
               IF Matches(x, "section", name) THEN Len(s) + 1 ELSE Find(s, "section", name)
          /\ \A name, k : ini_get_key_value(Append(s, x), name, k) = ini_get_key_value(s, name, k)
      BY <1>1, <2>1, <2>2, ValuesBefore
    <2>4. Find(b.sections, "section", here) = b.cur
      BY <1>5, <1>9, <2>1, <2>2, <2>3
    <2> QED BY <1>2, <1>3, <1>9, <2>1, <2>3, <2>4 DEF Says, here
  <1>10. CASE /\ line.type = "key" /\ c # 0 /\ b.cur = c
              /\ Replaced(b.sections, s, c,
                   [s[c] EXCEPT !.keys = get_key(s[c].keys, Item(line))])
    <2> DEFINE keys == get_key(s[c].keys, Item(line))
    <2>1. ItemsOK(keys)
      <3>1. ItemOK(Item(line)) /\ Item(line).line = line
        BY NoneIs, ItemIs DEF Item
      <3> QED BY <1>k, <1>10, <3>1, KeyIsSet
    <2>2. \A k : KeyValue(keys, k) = IF k = line.name THEN [value |-> line.value, more |-> <<>>]
                                     ELSE KeyValue(s[c].keys, k)
      BY <1>k, <1>10, KeyValueSet
    <2>3. Replaced(b.sections, s, c, [s[c] EXCEPT !.keys = keys])
      BY <1>10
    <2> HIDE DEF keys
    <2>4. /\ \A name : Find(b.sections, "section", name) = Find(s, "section", name)
          /\ \A name, k : ini_get_key_value(b.sections, name, k) =
               IF Find(s, "section", name) = c THEN KeyValue(keys, k)
               ELSE ini_get_key_value(s, name, k)
      BY <1>1, <1>10, <2>1, <2>3, ValuesOfOthers
    <2>5. here = SectionOf(f, n) /\ Find(s, "section", here) = c
      BY <1>2, <1>4, <1>10
    <2>6. ASSUME NEW name
          PROVE  Find(s, "section", name) = c <=> name = here
      <3>1. ASSUME Find(s, "section", name) = c PROVE name = here
        <4>1. Matches(s[c], "section", name) /\ Matches(s[c], "section", here)
          BY <1>1, <1>10, <2>5, <3>1, FindIs
        <4> QED BY <4>1 DEF Matches
      <3> QED BY <2>5, <3>1
    <2>7. ASSUME NEW name, NEW k
          PROVE  ini_get_key_value(b.sections, name, k) = ValueIn(f, n + 1, name, k)
      <3>1. ini_get_key_value(s, name, k) =
              IF Find(s, "section", name) = 0 THEN NoValue
              ELSE KeyValue(s[Find(s, "section", name)].keys, k)
        BY GetIs
      <3>2. CASE name = here /\ k = line.name
        <4>1. ValueIn(f, n + 1, name, k) = [value |-> line.value, more |-> <<>>]
          BY <1>10, <3>2, ValueChanges DEF here
        <4> QED BY <2>2, <2>4, <2>6, <3>2, <4>1
      <3>3. CASE ~(name = here /\ k = line.name)
        <4>1. ValueIn(f, n + 1, name, k) = ValueIn(f, n, name, k)
          BY <3>3, ValueStays DEF here
        <4>2. ini_get_key_value(b.sections, name, k) = ini_get_key_value(s, name, k)
          BY <1>10, <2>2, <2>4, <2>6, <3>1, <3>3
        <4> QED BY <1>2, <4>1, <4>2
      <3> QED BY <3>2, <3>3
    <2> QED BY <1>10, <2>4, <2>5, <2>7 DEF Says, here
  <1> QED BY <1>6, <1>7, <1>8, <1>9, <1>10 DEF LineDone, s, c, x

\* r is what ini_open has built after each line of a file.
Folds(r, f) ==
  /\ r[0] = ListStart
  /\ \A i \in 1 .. Len(f) : r[i] = analyse_line(r[i - 1], Item(f[i]))

\* A file whose lines fit is analysed line by line.
LEMMA OpenFolds ==
  ASSUME NEW f, IsSeq(f), FitsBuffer(f)
  PROVE  \E r : Folds(r, f) /\ ini_open(f) = r[Len(f)]
  <1> DEFINE items == read_buf_line(f)
             n == Len(items)
  <1>0. /\ n \in Nat /\ IsSeq(items) /\ n = Len(f)
        /\ \A i \in 1 .. n : items[i] = Item(f[i])
    BY ReadAll DEF IsSeq
  <1>1. PICK r : Builds(r, items, n) /\ ini_open(f) = r[n]
    BY <1>0, BuildSteps
  <1> HIDE DEF items
  <1>2. r[0] = ListStart
    BY <1>0, <1>1 DEF Builds
  <1>3. ASSUME NEW i \in 1 .. Len(f) PROVE r[i] = analyse_line(r[i - 1], Item(f[i]))
    <2>1. i \in 0 .. n /\ i # 0
      BY <1>0
    <2> QED BY <1>0, <1>1, <2>1 DEF Builds
  <1>4. Folds(r, f)
    BY <1>2, <1>3 DEF Folds
  <1> QED BY <1>0, <1>1, <1>4, Zenon

\* After every line the lists are well formed, and say what a reader of the file
\* would.
LEMMA SaysAll ==
  ASSUME NEW f, Len(f) \in Nat, NEW r, Folds(r, f), NEW k \in 0 .. Len(f)
  PROVE  ListsOK(r[k]) /\ Fields(r[k]) /\ (r[k].ok => Says(r[k], f, k))
  <1> DEFINE n == Len(f)
             Good(a, i) == ListsOK(a) /\ Fields(a) /\ (a.ok => Says(a, f, i))
             P == {i \in 0 .. n : Good(r[i], i)}
  <1>1. n \in Nat /\ 0 \in Int /\ n \in Int /\ 0 <= n
    OBVIOUS
  <1>2. 0 \in P
    <2>1. r[0] = ListStart
      BY DEF Folds
    <2>2. ListsOK(ListStart) /\ Fields(ListStart) /\ ListStart.sections = <<>> /\ ListStart.cur = 0
      BY NoneIs DEF ListStart, ListsOK, SectionsOK, Fields
    <2>3. ASSUME NEW s, NEW j PROVE ini_get_key_value(<<>>, s, j) = ValueIn(f, 0, s, j)
      <3>1. Find(<<>>, "section", s) = 0
        BY NoneIs, FoundNone
      <3>2. KeyLines(f, 0, s, j) = {}
        BY DEF KeyLines
      <3> QED BY <3>1, <3>2 DEF ini_get_key_value, ValueIn
    <2> QED BY <1>1, <2>1, <2>2, <2>3 DEF Says
  <1>3. ASSUME NEW i \in 0 .. n - 1, i \in P PROVE i + 1 \in P
    <2>1. i + 1 \in 0 .. n /\ i + 1 \in 1 .. n /\ i + 1 # 0 /\ (i + 1) - 1 = i /\ i \in Nat
      BY <1>1
    <2> DEFINE b == analyse_line(r[i], Item(f[i + 1]))
    <2>2. r[i + 1] = b
      BY <2>1 DEF Folds
    <2>3. ListsOK(r[i]) /\ Fields(r[i]) /\ (r[i].ok => Says(r[i], f, i))
      BY <1>3
    <2>4. ItemOK(Item(f[i + 1]))
      BY NoneIs, ItemIs DEF Item
    <2>5. ListsOK(b)
      BY <2>3, <2>4, LineKeeps
    <2>6. Fields(b) /\ LineDone(r[i], b, f[i + 1])
      BY <2>3, LineIsDone
    <2> HIDE DEF b
    <2>7. ASSUME b.ok PROVE Says(b, f, i + 1)
      <3> DEFINE a == r[i]
      <3>1. a.ok
        BY <2>6, <2>7 DEF LineDone
      <3>2. ListsOK(a) /\ Says(a, f, i) /\ LineDone(a, b, f[i + 1]) /\ i \in Nat
        BY <2>1, <2>3, <2>6, <3>1
      <3> HIDE DEF a
      <3> QED BY <2>7, <3>2, SaysMore
    <2>8. Good(b, i + 1)
      BY <2>5, <2>6, <2>7
    <2> HIDE DEF Good
    <2> QED BY <2>1, <2>2, <2>8
  <1> HIDE DEF P
  <1>4. 0 .. n \subseteq P
    BY <1>1, <1>2, <1>3, IntervalInduction
  <1> QED BY <1>4 DEF P

\* ini_open reads every key of every section as its last line in the file has it,
\* if no line exceeds the buffer.
LEMMA OpenReadsLast ==
  ASSUME NEW file, IsSeq(file), FitsBuffer(file), ini_open(file).ok, NEW name, NEW k
  PROVE  ini_get_key_value(ini_open(file).sections, name, k) = LastValue(file, name, k)
  <1> DEFINE n == Len(file)
  <1>1. n \in Nat /\ n \in 0 .. n
    BY DEF IsSeq
  <1>2. PICK r : Folds(r, file) /\ ini_open(file) = r[n]
    BY OpenFolds
  <1>3. Says(r[n], file, n)
    BY <1>1, <1>2, SaysAll
  <1>4. ValueIn(file, Len(file), name, k) = LastValue(file, name, k)
    BY DEF ValueIn, KeyLines, LastValue
  <1> QED BY <1>2, <1>3, <1>4 DEF Says

=============================================================================
