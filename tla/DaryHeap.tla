------------------------------ MODULE DaryHeap ------------------------------
(***************************************************************************)
(* dasynq's priority queue (dasynq/daryheap.h): a vector in which node p   *)
(* has the N children p*N+1 .. p*N+N.  Every node names a handle, and the  *)
(* handle keeps the node's position, -1 when it is in no node.  A heap is  *)
(* the record [vec, idx] of the vector and of the handles' positions.      *)
(* Positions count from 0, as in the source.                               *)
(***************************************************************************)
EXTENDS Integers, Sequences

CONSTANTS Handles, N

EmptyHeap == [vec |-> << >>, idx |-> [h \in Handles |-> -1]]

Node(h, prio) == [prio |-> prio, hnd |-> h]
At(heap, pos) == heap.vec[pos + 1]
Root(heap) == At(heap, 0)
IsQueued(heap, h) == heap.idx[h] # -1
Queued(heap) == {heap.vec[i].hnd : i \in DOMAIN heap.vec}
Parent(pos) == (pos - 1) \div N

(* hvec[pos] = node, with the handle's heap_index brought up to date. *)
Place(heap, pos, node) ==
  [vec |-> [heap.vec EXCEPT ![pos + 1] = node],
   idx |-> [heap.idx EXCEPT ![node.hnd] = pos]]

(* Move a node towards the root, past every parent it comes before. *)
RECURSIVE bubble_down(_, _, _)
bubble_down(heap, pos, node) ==
  IF pos > 0 /\ node.prio < At(heap, Parent(pos)).prio
  THEN bubble_down(Place(heap, pos, At(heap, Parent(pos))), Parent(pos), node)
  ELSE Place(heap, pos, node)

(* The child bubble_up compares with: the least of lchild .. rchild-1, the *)
(* first of equals.  rchild never passes rmax, the last position.          *)
SelectedChild(heap, pos) ==
  LET rmax   == Len(heap.vec) - 1
      lchild == pos * N + 1
      rchild == IF lchild + N < rmax THEN lchild + N ELSE rmax
      cand   == {lchild} \cup (lchild + 1)..(rchild - 1)
      least  == {i \in cand : \A j \in cand : At(heap, i).prio <= At(heap, j).prio}
  IN  CHOOSE i \in least : \A j \in least : i <= j

(* Move a node away from the root, past every selected child before it. *)
RECURSIVE SiftUp(_, _, _)
SiftUp(heap, pos, node) ==
  LET rmax == Len(heap.vec) - 1
      sel  == SelectedChild(heap, pos)
  IN  IF pos <= (rmax - 1) \div N /\ At(heap, sel).prio < node.prio
      THEN SiftUp(Place(heap, pos, At(heap, sel)), sel, node)
      ELSE Place(heap, pos, node)
bubble_up(heap, pos, node) ==
  IF Len(heap.vec) = 1 THEN heap ELSE SiftUp(heap, pos, node)

insert(heap, h, prio) ==
  bubble_down([heap EXCEPT !.vec = Append(@, Node(h, prio))], Len(heap.vec), Node(h, prio))
BecameRoot(heap, h) == heap.idx[h] = 0

DropLast(heap) == [heap EXCEPT !.vec = SubSeq(@, 1, Len(@) - 1)]

(* The removed node's place is taken by the last one, which only ever      *)
(* moves away from the root.                                               *)
remove_h(heap, pos) ==
  LET gone == [heap EXCEPT !.idx[At(heap, pos).hnd] = -1]
      last == Len(heap.vec) - 1
  IN  IF pos = last THEN DropLast(gone) ELSE DropLast(bubble_up(gone, pos, At(heap, last)))
remove(heap, h) == remove_h(heap, heap.idx[h])
pull_root(heap) == remove_h(heap, 0)

(* set_priority's result: a later priority never reports a new root. *)
set_priority(heap, h, prio) ==
  LET pos == heap.idx[h]
      set == [heap EXCEPT !.vec[pos + 1].prio = prio]
  IN  IF At(heap, pos).prio < prio THEN bubble_up(set, pos, Node(h, prio))
      ELSE bubble_down(set, pos, Node(h, prio))
RootReported(heap, h, prio) ==
  /\ prio <= At(heap, heap.idx[h]).prio
  /\ BecameRoot(set_priority(heap, h, prio), h)
=============================================================================
