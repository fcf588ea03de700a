----------------------------- MODULE Dictionary -----------------------------
(***************************************************************************)
(* The encoder's dictionary as dictionary.rs builds it: two hash maps and  *)
(* a doubly linked list threaded through the entries of one of them, most  *)
(* recently used entry at the head.                                        *)
(*                                                                         *)
(* The variable `dictionary` is the struct, field by field; the operators  *)
(* are its methods, taking and returning the struct.                       *)
(***************************************************************************)
EXTENDS ActiveLru, FiniteSets, Functions

CONSTANTS Base,      \* the bases callers ask for
          Panic,     \* the answer of a call that panicked
          None       \* Option::None

ASSUME NoneAssumption == None \notin Nat

VARIABLES dictionary,
          answer     \* what the last call returned: <<id, is_new>> or Panic

vars == <<dictionary, answer>>

New == [active_ids_by_base |-> <<>>,   \* HashMap<PackedBits, u32>
        active_bases_by_id |-> <<>>,   \* HashMap<u32, ActiveBase>
        head |-> None,
        tail |-> None,
        next_id |-> 0]

----------------------------------------------------------------------------
(* The linked list.                                                        *)

AttachFront(d, id) ==
  LET placed == [d.active_bases_by_id EXCEPT ![id].previous = None, ![id].next = d.head]
  IN  IF d.head # None
      THEN [d EXCEPT !.active_bases_by_id = [placed EXCEPT ![d.head].previous = id],
                     !.head = id]
      ELSE [d EXCEPT !.active_bases_by_id = placed, !.head = id, !.tail = id]

(* Faulty variant: the back link is left behind.                           *)
DetachKeepsBackLink(d, id) ==
  LET previous == d.active_bases_by_id[id].previous
      next     == d.active_bases_by_id[id].next
      entries  == [i \in DOMAIN d.active_bases_by_id |->
                     [d.active_bases_by_id[i] EXCEPT
                        !.next = IF i = previous THEN next ELSE @]]
  IN  [d EXCEPT !.active_bases_by_id = entries,
                !.head = IF previous = None THEN next ELSE @,
                !.tail = IF next = None THEN previous ELSE @]

Detach(d, id) ==
  LET previous == d.active_bases_by_id[id].previous
      next     == d.active_bases_by_id[id].next
      entries  == [i \in DOMAIN d.active_bases_by_id |->
                     LET entry == d.active_bases_by_id[i]
                     IN  IF i = id
                         THEN [entry EXCEPT !.previous = None, !.next = None]
                         ELSE [entry EXCEPT
                                 !.next     = IF i = previous THEN next ELSE @,
                                 !.previous = IF i = next THEN previous ELSE @]]
  IN  [d EXCEPT !.active_bases_by_id = entries,
                !.head = IF previous = None THEN next ELSE @,
                !.tail = IF next = None THEN previous ELSE @]

(* Faulty variant: a hit does not move its entry (first in, first out).    *)
TouchNothing(d, id) == d

Touch(d, id) == IF d.head = id THEN d ELSE AttachFront(Detach(d, id), id)

----------------------------------------------------------------------------
(* Eviction: `while active_bases_by_id.len() > max_active_bases`, one turn *)
(* of the loop, and as many turns as there are entries.                    *)

(* Faulty variant: the most recent entry is evicted.                       *)
EvictHead(d) ==
  LET detached == Detach(d, d.head)
  IN  [detached EXCEPT
         !.active_bases_by_id = Restrict(@, DOMAIN @ \ {d.head}),
         !.active_ids_by_base = Restrict(@, DOMAIN @ \ {d.active_bases_by_id[d.head].base})]

EvictTail(d) ==
  LET detached == Detach(d, d.tail)
  IN  [detached EXCEPT
         !.active_bases_by_id = Restrict(@, DOMAIN @ \ {d.tail}),
         !.active_ids_by_base = Restrict(@, DOMAIN @ \ {d.active_bases_by_id[d.tail].base})]

EnforceCap(d) ==
  LET turns == Cardinality(DOMAIN d.active_bases_by_id)
      OverCap(e) == /\ ~ WithinCap(Cardinality(DOMAIN e.active_bases_by_id))
                    /\ e.tail # None
      after[n \in 0..turns] ==
        IF n = 0 THEN d
        ELSE IF OverCap(after[n - 1]) THEN EvictTail(after[n - 1]) ELSE after[n - 1]
  IN  after[turns]

----------------------------------------------------------------------------
With(f, key, value) == [k \in DOMAIN f \cup {key} |-> IF k = key THEN value ELSE f[k]]

(* Faulty variant: an ID is the number of active bases, so that eviction   *)
(* brings old IDs back.                                                    *)
InsertByCount(d, base) ==
  LET id == Cardinality(DOMAIN d.active_bases_by_id)
      entry == [base |-> base, previous |-> None, next |-> None]
      inserted == [d EXCEPT !.next_id = id + 1,
                            !.active_ids_by_base = With(@, base, id),
                            !.active_bases_by_id = With(@, id, entry)]
  IN  EnforceCap(AttachFront(inserted, id))

Insert(d, base) ==
  LET id == d.next_id
      entry == [base |-> base, previous |-> None, next |-> None]
      inserted == [d EXCEPT !.next_id = id + 1,
                            !.active_ids_by_base = With(@, base, id),
                            !.active_bases_by_id = With(@, id, entry)]
  IN  EnforceCap(AttachFront(inserted, id))

Known(base) == base \in DOMAIN dictionary.active_ids_by_base

(* get_or_insert, on a base that is active, ...                            *)
Hit(base) ==
  /\ answer # Panic
  /\ Known(base)
  /\ LET id == dictionary.active_ids_by_base[base]
     IN  dictionary' = Touch(dictionary, id) /\ answer' = <<id, FALSE>>

(* ... on one that is not, ...                                             *)
Miss(base) ==
  /\ answer # Panic
  /\ ~ Known(base)
  /\ dictionary.next_id < MaxId
  /\ dictionary' = Insert(dictionary, base)
  /\ answer' = <<dictionary.next_id, TRUE>>

(* ... and on one that is not when next_id cannot grow: the panic comes    *)
(* before anything is assigned.                                            *)
Exhausted(base) ==
  /\ answer # Panic
  /\ ~ Known(base)
  /\ dictionary.next_id = MaxId
  /\ answer' = Panic
  /\ UNCHANGED dictionary

Init == dictionary = New /\ answer = <<>>

Next == \E base \in Base : Hit(base) \/ Miss(base) \/ Exhausted(base)

Spec == Init /\ [][Next]_vars

----------------------------------------------------------------------------
(* The list read from the head along `next`, and from the tail along       *)
(* `previous`: as many links as there are entries.                         *)

Size == Cardinality(DOMAIN dictionary.active_bases_by_id)

Follow(id, link) ==
  IF id \in DOMAIN dictionary.active_bases_by_id
  THEN dictionary.active_bases_by_id[id][link] ELSE None

Walk(start, link) ==
  LET ids[i \in 1..Size] == IF i = 1 THEN start ELSE Follow(ids[i - 1], link)
  IN  [i \in 1..Size |-> ids[i]]

(* The list of ActiveLru this list implements.                             *)
ActiveList ==
  [i \in 1..Size |->
     LET id == Walk(dictionary.head, "next")[i]
     IN  [id |-> id, base |-> IF id \in DOMAIN dictionary.active_bases_by_id
                              THEN dictionary.active_bases_by_id[id].base ELSE None]]

Abstract == INSTANCE LruDictionary
              WITH lru <- [active |-> ActiveList, next_id |-> dictionary.next_id]

(* The two maps and the list keep the promise of ActiveLru: every call     *)
(* answers as the plain recency list does, and evicts what it evicts.      *)
ImplementsLru == Abstract!LruSpec

(* The two maps are inverse to each other, the list reaches every entry    *)
(* once from either end, and no more than the cap is retained              *)
(* (dictionary.rs:154, "retained state is bounded").  Every expect() of    *)
(* touch, attach_front and detach relies on it.                            *)
ListAndMapsAgree ==
  LET ids == DOMAIN dictionary.active_bases_by_id
      forward == Walk(dictionary.head, "next")
      backward == Walk(dictionary.tail, "previous")
  IN  /\ \A base \in DOMAIN dictionary.active_ids_by_base :
            LET id == dictionary.active_ids_by_base[base]
            IN  id \in ids /\ dictionary.active_bases_by_id[id].base = base
      /\ Cardinality(DOMAIN dictionary.active_ids_by_base) = Size
      /\ Range(forward) = ids
      /\ \A i \in 1..Size : backward[i] = forward[Size + 1 - i]
      /\ Follow(dictionary.tail, "next") = None
      /\ Follow(dictionary.head, "previous") = None
      /\ Size = 0 => dictionary.head = None /\ dictionary.tail = None
      /\ WithinCap(Size)

=============================================================================
