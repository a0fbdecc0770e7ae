---------------------------- MODULE ItemSequence ----------------------------
(***************************************************************************)
(* What list.h and queue.h promise to their callers: a sequence of items,  *)
(* each under a handle, the node that the caller can name.  "op" is the    *)
(* call that returned last and "ret" what it returned, so that the steps   *)
(* below say of every call where it puts, finds or takes an item.  List    *)
(* implements this module.                                                 *)
(***************************************************************************)
EXTENDS Naturals, Sequences, SequencesExt

CONSTANTS Node,     \* handles
          Item,     \* what is in the sequence
          NULL      \* no handle, no item

VARIABLES entries,  \* the sequence: records of a node and its item
          op,       \* the last call
          ret       \* what it returned

Called(name, h, x) == op' = [name |-> name, position |-> h, p_item |-> x]

SequenceInit ==
  /\ entries = <<>>
  /\ op = [name |-> "list_init", position |-> NULL, p_item |-> NULL]
  /\ ret = NULL

\* x gets the place k under a new handle, or there is no memory for it.
Put(x, k) ==
  \/ \E n \in Node :
       /\ \A i \in 1 .. Len(entries) : entries[i].node # n
       /\ entries' = InsertAt(entries, k, [node |-> n, item |-> x])
       /\ ret' = n
  \/ ret' = NULL /\ entries' = entries

\* At the start without a position, else before it.
InsertBefore(h, x) ==
  /\ Called("list_insert_before", h, x)
  /\ \/ h = NULL /\ Put(x, 1)
     \/ \E k \in 1 .. Len(entries) : entries[k].node = h /\ Put(x, k)

\* At the end without a position, else behind it.
InsertAfter(h, x) ==
  /\ Called("list_insert_after", h, x)
  /\ \/ h = NULL /\ Put(x, Len(entries) + 1)
     \/ \E k \in 1 .. Len(entries) : entries[k].node = h /\ Put(x, k + 1)

RemoveNode(h) ==
  /\ Called("list_remove", h, NULL)
  /\ \/ entries = <<>> /\ entries' = entries
     \/ \E k \in 1 .. Len(entries) :
          entries[k].node = h /\ entries' = RemoveAt(entries, k)
  /\ ret' = NULL

\* The first node with item x, if there is one.
Find(x) ==
  /\ Called("list_get_node_by_item", NULL, x)
  /\ \/ \E k \in 1 .. Len(entries) :
          /\ entries[k].item = x
          /\ \A i \in 1 .. k - 1 : entries[i].item # x
          /\ ret' = entries[k].node
     \/ (\A i \in 1 .. Len(entries) : entries[i].item # x) /\ ret' = NULL
  /\ entries' = entries

FirstItem == IF entries = <<>> THEN NULL ELSE entries[1].item
LastItem  == IF entries = <<>> THEN NULL ELSE entries[Len(entries)].item

Look ==
  /\ \/ Called("queue_front", NULL, NULL) /\ ret' = FirstItem
     \/ Called("queue_back", NULL, NULL) /\ ret' = LastItem
  /\ entries' = entries

Pop ==
  /\ Called("queue_pop", NULL, NULL)
  /\ ret' = FirstItem
  /\ entries' = IF entries = <<>> THEN entries ELSE Tail(entries)

\* Destroying gives the items to the callback, first to last, and ends when
\* none is left.
Destroy ==
  \/ /\ entries # <<>>
     /\ Called("callback", NULL, FirstItem)
     /\ ret' = NULL
     /\ entries' = Tail(entries)
  \/ /\ entries = <<>>
     /\ Called("list_destroy", NULL, NULL)
     /\ ret' = NULL
     /\ entries' = entries

SequenceNext ==
  \/ \E h \in Node \cup {NULL}, x \in Item : InsertBefore(h, x) \/ InsertAfter(h, x)
  \/ \E h \in Node \cup {NULL} : RemoveNode(h)
  \/ \E x \in Item : Find(x)
  \/ Look
  \/ Pop
  \/ Destroy

SequenceSpec == SequenceInit /\ [][SequenceNext]_<<entries, op, ret>>

=============================================================================
