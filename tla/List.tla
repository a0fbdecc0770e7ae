-------------------------------- MODULE List --------------------------------
(***************************************************************************)
(* list.c and queue.h: one list, its nodes in a heap and the links between *)
(* them.  *p_list is the first node; p_next and p_prev go round in a ring, *)
(* and nothing but *p_list says where the ring begins.                     *)
(*                                                                         *)
(* One thread at a time uses a list (session_queue under mutex, the lists  *)
(* of ini.c from one thread), so that a call is one step; the two loops,   *)
(* of list_get_node_by_item and of list_destroy, are a step per turn.  The *)
(* callers are the environment: a position is a node of the list, as every *)
(* caller got it from the list.                                            *)
(***************************************************************************)
EXTENDS Naturals, FiniteSets, Sequences

CONSTANTS
  Node,           \* the addresses that malloc can return
  Item,           \* the items of the callers
  NULL

ASSUME ListAssumption ==
  /\ IsFiniteSet(Node)
  /\ NULL \notin Node \cup Item

VARIABLES
  allocated,      \* the nodes between malloc and free
  p_list,         \* *p_list, the first node
  p_prev, p_next, \* the links of each node, NULL where it is not allocated
  p_item,         \* the item of each node, likewise
  pc,             \* the loop that is running, or "idle"
  p_node,         \* where the search is
  sought,         \* the item it looks for
  op, ret         \* the call that returned last and what it returned

heapVars == <<allocated, p_list, p_prev, p_next, p_item>>
loopVars == <<pc, p_node, sought>>
vars == <<heapVars, loopVars, op, ret>>

Pointer == Node \cup {NULL}

Init ==
  /\ allocated = {}
  /\ p_list = NULL
  /\ p_prev = [n \in Node |-> NULL]
  /\ p_next = [n \in Node |-> NULL]
  /\ p_item = [n \in Node |-> NULL]
  /\ pc = "idle" /\ p_node = NULL /\ sought = NULL
  /\ op = [name |-> "list_init", position |-> NULL, p_item |-> NULL]
  /\ ret = NULL

\* A call returns r.
Return(name, position, item, r) ==
  /\ op' = [name |-> name, position |-> position, p_item |-> item]
  /\ ret' = r

\* malloc returns n, whose fields get an item and links between two nodes.
Link(n, item, before, after) ==
  /\ allocated' = allocated \cup {n}
  /\ p_item' = [p_item EXCEPT ![n] = item]
  /\ p_prev' = [p_prev EXCEPT ![n] = before, ![after] = n]
  /\ p_next' = [p_next EXCEPT ![n] = after, ![before] = n]

\* The first node of a list is linked with itself.
LinkFirst(n, item) ==
  /\ Link(n, item, n, n)
  /\ p_list' = n

\* malloc returns NULL: nothing is changed.
NoMemory(name, position, item) ==
  /\ Return(name, position, item, NULL)
  /\ UNCHANGED <<heapVars, loopVars>>

\* A position that a caller can have.
Position == allocated \cup {NULL}
-----------------------------------------------------------------------------
\* Mutant: the first node stays where it is when one is put at the start.
list_insert_before_keeps_first(position, item) ==
  /\ pc = "idle"
  /\ \E n \in Node \ allocated :
       /\ \/ p_list = NULL /\ LinkFirst(n, item)
          \/ /\ p_list # NULL
             /\ LET p == IF position = NULL THEN p_list ELSE position
                IN  Link(n, item, p_prev[p], p)
             /\ p_list' = p_list
       /\ Return("list_insert_before", position, item, n)
  /\ UNCHANGED loopVars

\* Without a position the new node becomes the first.  Before a position
\* *p_list stays, even when the position is the first node.
list_insert_before(position, item) ==
  /\ pc = "idle"
  /\ \E n \in Node \ allocated :
       /\ \/ p_list = NULL /\ LinkFirst(n, item)
          \/ /\ p_list # NULL /\ position = NULL
             /\ Link(n, item, p_prev[p_list], p_list)
             /\ p_list' = n
          \/ /\ p_list # NULL /\ position # NULL
             /\ Link(n, item, p_prev[position], position)
             /\ p_list' = p_list
       /\ Return("list_insert_before", position, item, n)
  /\ UNCHANGED loopVars

\* Mutant: p_next of the node behind the new one is set instead of its p_prev.
LinkBehind_one_way(n, item, p) ==
  /\ allocated' = allocated \cup {n}
  /\ p_item' = [p_item EXCEPT ![n] = item]
  /\ p_prev' = [p_prev EXCEPT ![n] = p]
  /\ p_next' = [p_next EXCEPT ![n] = p_next[p], ![p] = n]

LinkBehind(n, item, p) == Link(n, item, p, p_next[p])

\* queue_push is this without a position.
list_insert_after(position, item) ==
  /\ pc = "idle"
  /\ \E n \in Node \ allocated :
       /\ \/ p_list = NULL /\ LinkFirst(n, item)
          \/ /\ p_list # NULL
             /\ LinkBehind(n, item, IF position = NULL THEN p_prev[p_list] ELSE position)
             /\ p_list' = p_list
       /\ Return("list_insert_after", position, item, n)
  /\ UNCHANGED loopVars

\* What free leaves of a node is never looked at.
Free(n) ==
  /\ allocated' = allocated \ {n}
  /\ p_item' = [p_item EXCEPT ![n] = NULL]

\* Mutant: *p_list is left where it was.
Unlink_keeps_first(n) ==
  /\ Free(n)
  /\ p_list' = IF p_prev[n] = n THEN NULL ELSE p_list
  /\ p_next' = [p_next EXCEPT ![p_prev[n]] = p_next[n], ![n] = NULL]
  /\ p_prev' = [p_prev EXCEPT ![p_next[n]] = p_prev[n], ![n] = NULL]

\* Taking n out of a list that is not empty.
Unlink(n) ==
  /\ Free(n)
  /\ p_list' = IF p_list # n THEN p_list
               ELSE IF p_prev[n] = n THEN NULL ELSE p_next[n]
  /\ p_next' = [p_next EXCEPT ![p_prev[n]] = p_next[n], ![n] = NULL]
  /\ p_prev' = [p_prev EXCEPT ![p_next[n]] = p_prev[n], ![n] = NULL]

list_remove(n) ==
  /\ pc = "idle"
  /\ \/ p_list = NULL /\ UNCHANGED heapVars
     \/ p_list # NULL /\ n # NULL /\ Unlink(n)
  /\ Return("list_remove", n, NULL, NULL)
  /\ UNCHANGED loopVars
-----------------------------------------------------------------------------
queue_front == IF p_list = NULL THEN NULL ELSE p_item[p_list]
queue_back  == IF p_list = NULL THEN NULL ELSE p_item[p_prev[p_list]]

queue_look ==
  /\ pc = "idle"
  /\ \/ Return("queue_front", NULL, NULL, queue_front)
     \/ Return("queue_back", NULL, NULL, queue_back)
  /\ UNCHANGED <<heapVars, loopVars>>

queue_pop ==
  /\ pc = "idle"
  /\ \/ p_list = NULL /\ UNCHANGED heapVars
     \/ p_list # NULL /\ Unlink(p_list)
  /\ Return("queue_pop", NULL, NULL, queue_front)
  /\ UNCHANGED loopVars
-----------------------------------------------------------------------------
list_get_node_by_item(item) ==
  /\ pc = "idle"
  /\ \/ /\ p_list = NULL
        /\ Return("list_get_node_by_item", NULL, item, NULL)
        /\ UNCHANGED loopVars
     \/ /\ p_list # NULL
        /\ pc' = "search" /\ p_node' = p_list /\ sought' = item
        /\ UNCHANGED <<op, ret>>
  /\ UNCHANGED heapVars

SearchReturns(r) ==
  /\ pc' = "idle" /\ p_node' = NULL /\ sought' = NULL
  /\ Return("list_get_node_by_item", NULL, sought, r)

\* Mutant: the loop waits for a NULL at the end of the list.
search_turn_to_null ==
  /\ pc = "search"
  /\ \/ p_item[p_node] = sought /\ SearchReturns(p_node)
     \/ /\ p_item[p_node] # sought
        /\ p_node' = p_next[p_node]
        /\ UNCHANGED <<pc, sought, op, ret>>
  /\ UNCHANGED heapVars

\* One turn of its loop.
search_turn ==
  /\ pc = "search"
  /\ \/ p_item[p_node] = sought /\ SearchReturns(p_node)
     \/ /\ p_item[p_node] # sought /\ p_next[p_node] = p_list
        /\ SearchReturns(NULL)
     \/ /\ p_item[p_node] # sought /\ p_next[p_node] # p_list
        /\ p_node' = p_next[p_node]
        /\ UNCHANGED <<pc, sought, op, ret>>
  /\ UNCHANGED heapVars
-----------------------------------------------------------------------------
list_destroy ==
  /\ pc = "idle"
  /\ pc' = "destroy"
  /\ UNCHANGED <<heapVars, p_node, sought, op, ret>>

\* The first node's item goes to the callback (callers that have none only
\* do not see it), then the node is removed.
destroy_turn ==
  /\ pc = "destroy"
  /\ p_list # NULL
  /\ Return("callback", NULL, p_item[p_list], NULL)
  /\ Unlink(p_list)
  /\ UNCHANGED loopVars

destroy_ends ==
  /\ pc = "destroy"
  /\ p_list = NULL
  /\ pc' = "idle"
  /\ Return("list_destroy", NULL, NULL, NULL)
  /\ UNCHANGED <<heapVars, p_node, sought>>
-----------------------------------------------------------------------------
Inserts(position, item) ==
  \/ list_insert_before(position, item)
  \/ list_insert_after(position, item)
  \/ /\ pc = "idle"
     /\ \E name \in {"list_insert_before", "list_insert_after"} :
          NoMemory(name, position, item)

Next ==
  \/ \E position \in Position, item \in Item : Inserts(position, item)
  \/ \E n \in Position : list_remove(n)
  \/ queue_look
  \/ queue_pop
  \/ \E item \in Item : list_get_node_by_item(item)
  \/ search_turn
  \/ list_destroy
  \/ destroy_turn
  \/ destroy_ends

\* A loop goes on: nothing in it waits.
Fairness == WF_vars(search_turn) /\ WF_vars(destroy_turn) /\ WF_vars(destroy_ends)

Spec == Init /\ [][Next]_vars /\ Fairness
-----------------------------------------------------------------------------
(* Properties                                                              *)

\* The ring holds the nodes that are allocated, each with an item, and a
\* search is at one of them.
TypeOK ==
  /\ allocated \subseteq Node
  /\ p_list \in Position /\ (p_list = NULL <=> allocated = {})
  /\ p_prev \in [Node -> Pointer] /\ p_next \in [Node -> Pointer]
  /\ p_item \in [Node -> Item \cup {NULL}]
  /\ \A n \in Node : p_item[n] = NULL <=> n \notin allocated
  /\ pc \in {"idle", "search", "destroy"}
  /\ p_node \in Position /\ sought \in Item \cup {NULL}
  /\ p_node # NULL <=> pc = "search"
  /\ sought # NULL <=> pc = "search"

Size == Cardinality(allocated)

\* s is the nodes in the order of the list: each allocated node once, the
\* first at *p_list, and p_next and p_prev lead around and back.
IsOrder(s) ==
  /\ \A n \in allocated : \E i \in 1 .. Size : s[i] = n
  /\ \A i, j \in 1 .. Size : s[i] = s[j] => i = j
  /\ Size # 0 => p_list = s[1]
  /\ \A i \in 1 .. Size :
       LET j == IF i = Size THEN 1 ELSE i + 1
       IN  p_next[s[i]] = s[j] /\ p_prev[s[j]] = s[i]

Orders == [1 .. Size -> allocated]

\* list_insert_before, list_insert_after and list_remove keep one ring of all
\* nodes that have been allocated and not freed, the same in both directions:
\* no node is lost, none is left in the list when it is freed.
OneRing == \E s \in Orders : IsOrder(s)

Order == CHOOSE s \in Orders : IsOrder(s)

Entries == LET s == Order
           IN  [i \in 1 .. Size |-> [node |-> s[i], item |-> p_item[s[i]]]]

Sequence == INSTANCE ItemSequence WITH entries <- Entries

\* The one call that does not: what list_insert_before is to put before the
\* first node of a list becomes the last, against its comment "Insert the new
\* item before position" (list.c:53).
GoesLast(item) ==
  /\ p_list # NULL
  /\ Sequence!Called("list_insert_before", p_list, item)
  /\ Sequence!Put(item, Size + 1)

\* list.c and queue.h implement the sequence of items that their callers rely
\* on, that one call apart: every call puts, finds, returns or takes the item
\* that it should.
SequenceSpec ==
  /\ Sequence!SequenceInit
  /\ [][Sequence!SequenceNext \/ \E item \in Item : GoesLast(item)]_<<Entries, op, ret>>

\* The loops of list_get_node_by_item and list_destroy come to their end.
LoopsEnd == (pc # "idle") ~> (pc = "idle")

=============================================================================
