-------------------------------- MODULE Fifo --------------------------------
(***************************************************************************)
(* The linked list of src/fifo.c on a heap of cells.  Each cell points to  *)
(* the one added after it (prev) and before it (next); the head points to  *)
(* the newest cell (first) and the oldest (last).  queued is a history of  *)
(* the cells added and not yet taken, oldest first: the list must agree.   *)
(*                                                                         *)
(* fifo_get is called only when fifo_count is not 0, as in the loop of     *)
(* information_frame (busmail.c:347).                                      *)
(***************************************************************************)
EXTENDS Integers, Sequences

CONSTANTS Objects, Cells, NULL

ASSUME NullAssumption == NULL \notin Cells \cup Objects

VARIABLES head,        \* fifo_head_t
          heap,        \* fifo_t at each address, also after free
          allocated,   \* addresses of the cells not freed
          queued,      \* history
          returned     \* by the last fifo_get

fifo_vars == <<head, heap, allocated, queued, returned>>

Cell == [prev : Cells \cup {NULL}, next : Cells \cup {NULL},
         obj : Objects \cup {NULL}]
Zeroed == [prev |-> NULL, next |-> NULL, obj |-> NULL]

\* fifo_new; what calloc will hand out starts as zeros.
FifoInit == /\ head = [first |-> NULL, last |-> NULL, count |-> 0]
            /\ heap = [c \in Cells |-> Zeroed]
            /\ allocated = {}
            /\ queued = << >>
            /\ returned = NULL

fifo_count == head.count

\* The heap with o in the new cell c, the older and the newer cell linked.
Linked(c, o) ==
    LET fresh == [prev |-> NULL, next |-> head.first, obj |-> o]
    IN  [a \in Cells |-> IF a = c THEN fresh
                         ELSE IF a = head.first THEN [heap[a] EXCEPT !.prev = c]
                         ELSE heap[a]]

fifo_add(o) ==
    \E c \in Cells \ allocated :
        /\ allocated' = allocated \cup {c}
        /\ heap' = Linked(c, o)
        /\ head' = [first |-> c,
                    last |-> IF head.first # NULL THEN head.last ELSE c,
                    count |-> head.count + 1]
        /\ queued' = Append(queued, c)
        /\ UNCHANGED returned

\* Mistake: first still points to the cell taken.
Without_keeps_first(last) ==
    [head EXCEPT !.last = heap[last].prev, !.count = @ - 1]

\* The head once its last cell is taken.
Without(last) ==
    IF heap[last].prev # NULL
    THEN [head EXCEPT !.last = heap[last].prev, !.count = @ - 1]
    ELSE [first |-> NULL, last |-> NULL, count |-> head.count - 1]

\* Mistake: the cell is not freed.
fifo_get_leaks ==
    /\ fifo_count > 0
    /\ head' = Without(head.last)
    /\ returned' = heap[head.last].obj
    /\ queued' = Tail(queued)
    /\ UNCHANGED <<heap, allocated>>

\* Mistake: the newest object is returned.
fifo_get_newest ==
    /\ fifo_count > 0
    /\ head' = Without(head.last)
    /\ returned' = heap[head.first].obj
    /\ allocated' = allocated \ {head.last}
    /\ queued' = Tail(queued)
    /\ UNCHANGED heap

fifo_get ==
    /\ fifo_count > 0
    /\ head' = Without(head.last)
    /\ returned' = heap[head.last].obj
    /\ allocated' = allocated \ {head.last}
    /\ queued' = Tail(queued)
    /\ UNCHANGED heap

FifoNext == fifo_get \/ \E o \in Objects : fifo_add(o)

FifoSpec == FifoInit /\ [][FifoNext]_fifo_vars
-----------------------------------------------------------------------------
\* The count is never negative and pointers point to cells.
FifoTypeOK == /\ head \in [first : Cells \cup {NULL}, last : Cells \cup {NULL},
                           count : Nat]
              /\ heap \in [Cells -> Cell]
              /\ allocated \in SUBSET Cells
              /\ queued \in Seq(Cells)
              /\ returned \in Objects \cup {NULL}

\* The head and the prev pointers lead through the cells queued, oldest to
\* newest, and stop there: no pointer that is followed leads to a freed cell
\* or round in a circle, and an empty list forgets its last cell.
LinkedAsQueued ==
    /\ head.first = IF queued = << >> THEN NULL ELSE queued[Len(queued)]
    /\ head.last = IF queued = << >> THEN NULL ELSE queued[1]
    /\ \A i \in 1 .. Len(queued) :
          heap[queued[i]].prev = IF i = Len(queued) THEN NULL ELSE queued[i + 1]

\* The cells allocated are those of the objects still queued, each of them
\* once, and fifo_count says how many: none is leaked or freed twice.
NothingLeaked ==
    /\ allocated = {queued[i] : i \in 1 .. Len(queued)}
    /\ \A i, j \in 1 .. Len(queued) : queued[i] = queued[j] => i = j
    /\ fifo_count = Len(queued)

Q == INSTANCE Queue WITH
        queue <- [i \in 1 .. Len(queued) |-> heap[queued[i]].obj]

\* fifo_add and fifo_get are the operations of a queue.
ImplementsQueue == Q!Spec
=============================================================================
