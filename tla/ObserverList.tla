---------------------------- MODULE ObserverList ----------------------------
(***************************************************************************)
(* The lists of observers of observer.c.  An observer that is added to a   *)
(* list belongs to it until it is removed: observer_list_delete() frees    *)
(* the observers that are left.  What LIST_INSERT_HEAD and LIST_REMOVE do  *)
(* to the links is checked in Idler.                                       *)
(***************************************************************************)
EXTENDS Bytes

CONSTANTS
    Observers,      \* the memory an observer may have
    Lists,          \* the memory a list may have
    Watched,        \* objects, NULL among them
    NotifyTypes,    \* the types; 0 is any type when an observer is looked for
    Handlers        \* functions, NULL among them

ASSUME ObserverAssumption == NULL \in Watched /\ NULL \in Handlers /\ NotifyTypes \subseteq Nat

VARIABLES
    observer,       \* what each observer that exists holds, else NULL
    items,          \* the observers of each list that exists, else NULL
    added           \* the observers in the order they were added, each with its list

observerVars == <<observer, items, added>>

FitsSearch(o, object, type, handler) ==
    /\ observer[o].object = object
    /\ type > 0 => observer[o].notify_type = type
    /\ handler # NULL => observer[o].notify_handler = handler

\* Mutation of ListFind: an observer of the right object that fails the other tests
\* ends the search.
ListFindFirst(l, object, type, handler) ==
    LET found == {i \in DOMAIN items[l] : observer[items[l][i]].object = object}
    IN  IF found = {} THEN NULL
        ELSE LET o == items[l][CHOOSE i \in found : \A j \in found : i <= j]
             IN  IF FitsSearch(o, object, type, handler) THEN o ELSE NULL

\* observer_list_find_observer
ListFind(l, object, type, handler) ==
    LET found == {i \in DOMAIN items[l] : FitsSearch(items[l][i], object, type, handler)}
    IN  IF found = {} THEN NULL ELSE items[l][CHOOSE i \in found : \A j \in found : i <= j]

ListOf(o) == {l \in Lists : items[l] # NULL /\ \E i \in DOMAIN items[l] : items[l][i] = o}

-----------------------------------------------------------------------------
ObserversInit ==
    /\ observer = [o \in Observers |-> NULL]
    /\ items = [l \in Lists |-> NULL]
    /\ added = <<>>

\* observer_create
ObserverCreate(o, object, type, handler) ==
    /\ observer[o] = NULL
    /\ observer' = [observer EXCEPT
            ![o] = [object |-> object, notify_type |-> type, notify_handler |-> handler]]
    /\ UNCHANGED <<items, added>>

\* observer_delete, of one that is in no list
ObserverDelete(o) ==
    /\ observer[o] # NULL /\ ListOf(o) = {}
    /\ observer' = [observer EXCEPT ![o] = NULL]
    /\ UNCHANGED <<items, added>>

\* observer_list_new
ListNew(l) ==
    /\ items[l] = NULL
    /\ items' = [items EXCEPT ![l] = <<>>]
    /\ UNCHANGED <<observer, added>>

\* observer_list_add_observer, of one that is in no list
ListAdd(l, o) ==
    /\ items[l] # NULL /\ observer[o] # NULL /\ ListOf(o) = {}
    /\ items' = [items EXCEPT ![l] = <<o>> \o @]
    /\ added' = Append(added, <<l, o>>)
    /\ UNCHANGED observer

\* observer_list_remove_observer: the list it is given is not used.
ListRemove(l, o) ==
    /\ items[l] # NULL
    /\ \E k \in ListOf(o) : items' = [items EXCEPT ![k] = SelectSeq(@, LAMBDA other : other # o)]
    /\ added' = SelectSeq(added, LAMBDA entry : entry[2] # o)
    /\ UNCHANGED observer

\* observer_list_delete
ListDelete(l) ==
    /\ items[l] # NULL
    /\ observer' = [o \in Observers |-> IF l \in ListOf(o) THEN NULL ELSE observer[o]]
    /\ items' = [items EXCEPT ![l] = NULL]
    /\ added' = SelectSeq(added, LAMBDA entry : entry[1] # l)

ObserversNext ==
    \/ \E o \in Observers :
        \/ \E object \in Watched, type \in NotifyTypes, handler \in Handlers :
            ObserverCreate(o, object, type, handler)
        \/ ObserverDelete(o)
        \/ \E l \in Lists : ListAdd(l, o) \/ ListRemove(l, o)
    \/ \E l \in Lists : ListNew(l) \/ ListDelete(l)

-----------------------------------------------------------------------------
(* Properties.                                                             *)

\* observer_list_find_observer: what it finds is, of the observers that were added
\* to this list and are not removed, the last one that fits; and it exists.
FoundIsNewest ==
    \A l \in Lists, object \in Watched, type \in NotifyTypes, handler \in Handlers :
        items[l] # NULL =>
        LET fits == {i \in DOMAIN added :
                        /\ added[i][1] = l /\ observer[added[i][2]] # NULL
                        /\ observer[added[i][2]].object = object
                        /\ observer[added[i][2]].notify_type = type \/ type = 0
                        /\ observer[added[i][2]].notify_handler = handler \/ handler = NULL}
            found == ListFind(l, object, type, handler)
        IN  IF fits = {} THEN found = NULL
            ELSE found = added[CHOOSE i \in fits : \A j \in fits : j <= i][2]

=============================================================================
