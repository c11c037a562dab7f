-------------------------------- MODULE List --------------------------------
(***************************************************************************)
(* Intrusive doubly linked lists (kernel/list.c, list.h).  A heap h has    *)
(* h.next and h.prev, functions from nodes to nodes; a node is the header  *)
(* of a list or the link field of a struct, and an empty list is a header  *)
(* that points at itself.  The operators have the names of the source.     *)
(***************************************************************************)
EXTENDS Naturals, Sequences, FiniteSets

CONSTANT NULL

LIST_INIT(h, l)      == [h EXCEPT !.next[l] = l, !.prev[l] = l]
list_elem_init(h, e) == [h EXCEPT !.prev[e] = NULL, !.next[e] = NULL]

\* The new element does not learn its predecessor.
Bug_list_insert(h, p, n, e) == [h EXCEPT !.next[e] = n, !.prev[n] = e, !.next[p] = e]

list_insert(h, p, n, e) ==
    [h EXCEPT !.prev[e] = p, !.next[e] = n, !.prev[n] = e, !.next[p] = e]

list_push_back(h, l, e) == list_insert(h, h.prev[l], l, e)

list_is_linked(h, e) == h.next[e] # NULL

\* The removed element keeps its links.
Bug_list_remove(h, e) ==
    IF list_is_linked(h, e)
    THEN [h EXCEPT !.next[h.prev[e]] = h.next[e], !.prev[h.next[e]] = h.prev[e]]
    ELSE h

list_remove(h, e) ==
    IF list_is_linked(h, e)
    THEN list_elem_init([h EXCEPT !.next[h.prev[e]] = h.next[e], !.prev[h.next[e]] = h.prev[e]], e)
    ELSE h

list_head(h, l) == IF h.next[l] = l THEN NULL ELSE h.next[l]
list_tail(h, l) == IF h.prev[l] = l THEN NULL ELSE h.prev[l]

\* list_pop_tail: what is popped is list_tail; its own links stay as they are.
list_pop_tail(h, l) ==
    LET tail == h.prev[l] IN
    IF tail = l THEN h
    ELSE [h EXCEPT !.next[h.prev[tail]] = h.next[tail], !.prev[l] = h.prev[tail]]

\* The nodes from l along the links f, up to l or NULL.
Walk(f, l) ==
    LET from[k \in Nat] ==
            [e \in DOMAIN f \cup {NULL} |->
                IF k = 0 \/ e \in {l, NULL} THEN <<>> ELSE <<e>> \o from[k - 1][f[e]]]
    IN from[Cardinality(DOMAIN f)][f[l]]

\* LIST_FOR_EACH: the next element is saved before the body runs.
LIST_FOR_EACH(h, l, body(_, _)) ==
    LET loop[k \in 0..Cardinality(DOMAIN h.next)] ==
            IF k = 0 THEN [h |-> h, elem |-> h.next[l]]
            ELSE LET s == loop[k - 1]
                 IN IF s.elem = l \/ s.h.next[s.elem] = NULL THEN s
                    ELSE [h |-> body(s.h, s.elem), elem |-> s.h.next[s.elem]]
    IN loop[Cardinality(DOMAIN h.next)].h
=============================================================================
