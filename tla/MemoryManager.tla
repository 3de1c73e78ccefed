---------------------------- MODULE MemoryManager ----------------------------
(***************************************************************************)
(* manager.c: the linked list in which both programs register what they    *)
(* allocate, and through which they free it.  A heap is a record: "list"   *)
(* holds the registered addresses in the order of the nodes, "live" the    *)
(* addresses malloc has handed out, "manager" is "none", "live" or         *)
(* "freed", and "broken" whether the program has freed memory it does not  *)
(* own, used a manager that is gone or walked off the end of the list.     *)
(* The nodes themselves are not in "live", and allocating one never fails. *)
(***************************************************************************)
EXTENDS Integers, SequencesExt

CONSTANTS
    Addrs,   \* bound: the addresses malloc hands out
    NULL     \* the null pointer, which both programs register and free as well

ASSUME NullIsNoAddress == NULL \notin Addrs /\ Addrs \subseteq Nat

EmptyHeap == [list |-> <<>>, live |-> {}, manager |-> "none", broken |-> FALSE]

init_memory_manager(heap) == [heap EXCEPT !.manager = "live", !.list = <<>>]

\* malloc may hand out any of these.
FreeAddrs(heap) == Addrs \ heap.live

\* malloc and free().  Null is ignored, and whatever is not live must not be
\* freed.
Allocated(heap, a) == [heap EXCEPT !.live = @ \cup {a}]
Freed(heap, a) ==
    [heap EXCEPT !.live = @ \ {a}, !.broken = @ \/ (a # NULL /\ a \notin heap.live)]

\* Mutant: the object obtained last is forgotten.
ForgetsTheLast(objs, n) == {objs[i] : i \in 1 .. n - 1}

\* What both programs give back when n of the objs of a connection or of the
\* set-up could be had, and the next could not.
GivenBack(objs, n) == {objs[i] : i \in 1 .. n}

\* They do so with free(), since nothing has been registered by then.
AllocatedInVain(heap, objs, n) ==
    LET obtained == heap.live \cup {objs[i] : i \in 1 .. n}
        returned == GivenBack(objs, n)
    IN  [heap EXCEPT !.live = obtained \ returned,
                     !.broken = @ \/ ~(returned \subseteq obtained)]

\* Mutant: the loop stops one node early and the new node replaces the last.
DropsLastNode(heap, a) ==
    [heap EXCEPT !.list = IF Len(@) > 1 THEN Append(Front(@), a) ELSE Append(@, a)]

\* The loop that looks for the address ends before it compares the last node.
mm_add(heap, a) ==
    IF heap.list # <<>> /\ a \in ToSet(Front(heap.list))
    THEN heap
    ELSE [heap EXCEPT !.list = Append(@, a), !.broken = @ \/ heap.manager # "live"]

\* The loop tests ma->addr before ma, so an address that is not registered is
\* not reported: the program dereferences the null pointer that ends the list.
mm_free(heap, a) ==
    IF a \in ToSet(heap.list)
    THEN Freed([heap EXCEPT !.list = RemoveFirst(@, a)], a)
    ELSE [heap EXCEPT !.broken = TRUE]

\* mm_free_recurse frees the address of every node, from the last to the first:
\* one that is listed again further on has been freed by then.
mm_free_all(heap) ==
    LET owned(i) == /\ heap.list[i] \in heap.live
                    /\ \A j \in DOMAIN heap.list : j > i => heap.list[j] # heap.list[i]
    IN  [heap EXCEPT
            !.list = <<>>,
            !.live = @ \ ToSet(heap.list),
            !.broken = @ \/ \E i \in DOMAIN heap.list : heap.list[i] # NULL /\ ~owned(i)]

\* There is nothing to free without a manager, and nothing twice.
free_memory_manager(heap) ==
    CASE heap.manager = "none"  -> heap
      [] heap.manager = "live"  -> [mm_free_all(heap) EXCEPT !.manager = "freed"]
      [] heap.manager = "freed" -> [heap EXCEPT !.broken = TRUE]

\* How both programs obtain memory: allocate, then register.
Obtain(heap, a) == mm_add(Allocated(heap, a), a)

\* The four objects of a connection or of the client's set-up, registered and
\* freed one after the other.
ObtainAll(heap, objs) ==
    Obtain(Obtain(Obtain(Obtain(heap, objs[1]), objs[2]), objs[3]), objs[4])
ReleaseAll(heap, objs) ==
    mm_free(mm_free(mm_free(mm_free(heap, objs[1]), objs[2]), objs[3]), objs[4])

=============================================================================
