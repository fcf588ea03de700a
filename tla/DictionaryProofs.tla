-------------------------- MODULE DictionaryProofs --------------------------
(***************************************************************************)
(* The linked dictionary is a recency list, for every configuration, cap   *)
(* and set of bases.                                                       *)
(*                                                                         *)
(* The maps and links of dictionary.rs always stand for one list of active *)
(* bases (StandsFor), which is the list that ActiveLru describes.  Each    *)
(* method is shown to turn what stands for a list into what stands for the *)
(* list ActiveLru has then.  Between detach and attach_front, and between  *)
(* detach and remove, one entry is in the maps and not in the list         *)
(* (StandsApart).                                                          *)
(***************************************************************************)
EXTENDS MCDictionary, OperatorProofs, FiniteSetTheorems

(* An active base as ActiveLru has it, and as the code keeps it.           *)
ListEntry == [id : Nat, base : Base]

Link == Nat \cup {None}

ActiveBase == [base : Base, previous : Link, next : Link]

IdAt(list, i) == IF i \in 1..Len(list) THEN list[i].id ELSE None

Ids(list) == {list[i].id : i \in 1..Len(list)}

Bases(list) == {list[i].base : i \in 1..Len(list)}

Distinct(list) ==
  \A i, j \in 1..Len(list) :
     i # j => list[i].id # list[j].id /\ list[i].base # list[j].base

(* The struct, from its fields.                                            *)
Struct(ids, entries, head, tail, next_id) ==
  [active_ids_by_base |-> ids, active_bases_by_id |-> entries,
   head |-> head, tail |-> tail, next_id |-> next_id]

(* An entry of active_bases_by_id, from its fields.                        *)
Node(base, previous, next) == [base |-> base, previous |-> previous, next |-> next]

(* The entries of a list, linked to their neighbours.                      *)
Linked(entries, list) ==
  \A i \in 1..Len(list) :
     entries[list[i].id] = Node(list[i].base, IdAt(list, i - 1), IdAt(list, i + 1))

Mapped(ids, list) == \A i \in 1..Len(list) : ids[list[i].base] = list[i].id

StandsFor(d, list, next_id) ==
  /\ list \in Seq(ListEntry) /\ Distinct(list)
  /\ \E ids \in [Bases(list) -> Nat], entries \in [Ids(list) -> ActiveBase] :
       /\ Mapped(ids, list)
       /\ Linked(entries, list)
       /\ d = Struct(ids, entries, IdAt(list, 1), IdAt(list, Len(list)), next_id)

(* One entry is in the maps and not in the list.                           *)
StandsApart(d, list, apart, next_id) ==
  /\ list \in Seq(ListEntry) /\ Distinct(list)
  /\ apart \in ListEntry /\ apart.id \notin Ids(list) /\ apart.base \notin Bases(list)
  /\ \E ids \in [Bases(list) \cup {apart.base} -> Nat],
        entries \in [Ids(list) \cup {apart.id} -> ActiveBase] :
       /\ Mapped(ids, list) /\ ids[apart.base] = apart.id
       /\ Linked(entries, list)
       /\ entries[apart.id] = Node(apart.base, None, None)
       /\ d = Struct(ids, entries, IdAt(list, 1), IdAt(list, Len(list)), next_id)

----------------------------------------------------------------------------
(* Lists with an entry more or less.                                       *)

Prepended(list, entry) ==
  [i \in 1..(Len(list) + 1) |-> IF i = 1 THEN entry ELSE list[i - 1]]

Without(list, place) ==
  [i \in 1..(Len(list) - 1) |-> IF i < place THEN list[i] ELSE list[i + 1]]

(* An entry with an ID and a base of its own may be put in front.          *)
LEMMA PrependedList ==
  ASSUME NEW list \in Seq(ListEntry), Distinct(list),
         NEW entry \in ListEntry, entry.id \notin Ids(list), entry.base \notin Bases(list)
  PROVE  /\ Prepended(list, entry) \in Seq(ListEntry) /\ Distinct(Prepended(list, entry))
         /\ Len(Prepended(list, entry)) = Len(list) + 1
         /\ Ids(Prepended(list, entry)) = Ids(list) \cup {entry.id}
         /\ Bases(Prepended(list, entry)) = Bases(list) \cup {entry.base}
<1> DEFINE longer == Prepended(list, entry)
           n == Len(list)
<1>1. n \in Nat /\ \A i \in 1..n : list[i] \in ListEntry
  OBVIOUS
<1>2. longer \in [1..(n + 1) -> ListEntry]
  BY <1>1 DEF Prepended
<1>3. longer \in Seq(ListEntry) /\ Len(longer) = n + 1
  BY <1>1, <1>2, FunctionIsSequence
<1>4. longer[1] = entry /\ \A i \in 1..n : longer[i + 1] = list[i]
  BY <1>1 DEF Prepended
<1>5. \A i \in 1..(n + 1) : i = 1 \/ (i - 1 \in 1..n /\ longer[i] = list[i - 1])
  BY <1>1, <1>4
<1> HIDE DEF longer
<1>6. Distinct(longer)
  <2>1. ASSUME NEW i \in 1..n
        PROVE  list[i].id # entry.id /\ list[i].base # entry.base
    BY DEF Ids, Bases
  <2>2. ASSUME NEW i \in 1..(n + 1), NEW j \in 1..(n + 1), i # j
        PROVE  longer[i].id # longer[j].id /\ longer[i].base # longer[j].base
    <3>1. CASE i = 1
      BY <1>4, <1>5, <2>1, <2>2, <3>1
    <3>2. CASE j = 1
      BY <1>4, <1>5, <2>1, <2>2, <3>2
    <3>3. CASE i # 1 /\ j # 1
      <4>1. i - 1 \in 1..n /\ j - 1 \in 1..n /\ i - 1 # j - 1
        BY <1>5, <2>2, <3>3
      <4> QED BY <1>5, <3>3, <4>1 DEF Distinct
    <3> QED BY <3>1, <3>2, <3>3
  <2> QED BY <1>3, <2>2 DEF Distinct
<1>7. Ids(longer) = Ids(list) \cup {entry.id}
  <2>1. ASSUME NEW i \in 1..(n + 1) PROVE longer[i].id \in Ids(list) \cup {entry.id}
    BY <1>4, <1>5 DEF Ids
  <2>2. ASSUME NEW i \in 1..n PROVE list[i].id \in Ids(longer)
    <3>1. i + 1 \in 1..Len(longer) /\ longer[i + 1].id = list[i].id
      BY <1>1, <1>3, <1>4
    <3> QED BY <3>1 DEF Ids
  <2>3. entry.id \in Ids(longer)
    <3>1. 1 \in 1..Len(longer) /\ longer[1].id = entry.id
      BY <1>1, <1>3, <1>4
    <3> QED BY <3>1 DEF Ids
  <2>4. \A i \in 1..Len(longer) : longer[i].id \in Ids(list) \cup {entry.id}
    BY <1>3, <2>1
  <2> QED BY <2>2, <2>3, <2>4 DEF Ids
<1>8. Bases(longer) = Bases(list) \cup {entry.base}
  <2>1. ASSUME NEW i \in 1..(n + 1) PROVE longer[i].base \in Bases(list) \cup {entry.base}
    BY <1>4, <1>5 DEF Bases
  <2>2. ASSUME NEW i \in 1..n PROVE list[i].base \in Bases(longer)
    <3>1. i + 1 \in 1..Len(longer) /\ longer[i + 1].base = list[i].base
      BY <1>1, <1>3, <1>4
    <3> QED BY <3>1 DEF Bases
  <2>3. entry.base \in Bases(longer)
    <3>1. 1 \in 1..Len(longer) /\ longer[1].base = entry.base
      BY <1>1, <1>3, <1>4
    <3> QED BY <3>1 DEF Bases
  <2>4. \A i \in 1..Len(longer) : longer[i].base \in Bases(list) \cup {entry.base}
    BY <1>3, <2>1
  <2> QED BY <2>2, <2>3, <2>4 DEF Bases
<1> QED BY <1>3, <1>6, <1>7, <1>8 DEF longer

(* An entry taken out leaves the others, and is not among them.            *)
LEMMA WithoutList ==
  ASSUME NEW list \in Seq(ListEntry), Distinct(list), NEW place \in 1..Len(list)
  PROVE  /\ Without(list, place) \in Seq(ListEntry) /\ Distinct(Without(list, place))
         /\ Len(Without(list, place)) = Len(list) - 1
         /\ list[place] \in ListEntry
         /\ list[place].id \notin Ids(Without(list, place))
         /\ list[place].base \notin Bases(Without(list, place))
         /\ Ids(list) = Ids(Without(list, place)) \cup {list[place].id}
         /\ Bases(list) = Bases(Without(list, place)) \cup {list[place].base}
<1> DEFINE shorter == Without(list, place)
           n == Len(list)
<1>1. n \in Nat /\ n - 1 \in Nat /\ \A i \in 1..n : list[i] \in ListEntry
  OBVIOUS
<1>2. shorter \in [1..(n - 1) -> ListEntry]
  BY <1>1 DEF Without
<1>3. shorter \in Seq(ListEntry) /\ Len(shorter) = n - 1
  BY <1>1, <1>2, FunctionIsSequence
<1>4. \A i \in 1..(n - 1) : \E j \in 1..n :
         /\ j = IF i < place THEN i ELSE i + 1
         /\ shorter[i] = list[j]
  BY <1>1 DEF Without
<1>5. \A j \in 1..n : j # place =>
         \E i \in 1..(n - 1) : i = (IF j < place THEN j ELSE j - 1) /\ shorter[i] = list[j]
  BY <1>1 DEF Without
<1> HIDE DEF shorter
<1>6. Distinct(shorter)
  <2>1. ASSUME NEW i \in 1..(n - 1), NEW k \in 1..(n - 1), i # k
        PROVE  shorter[i].id # shorter[k].id /\ shorter[i].base # shorter[k].base
    <3>1. PICK x \in 1..n : x = (IF i < place THEN i ELSE i + 1) /\ shorter[i] = list[x]
      BY ONLY <1>4, i \in 1..(n - 1)
    <3>2. PICK y \in 1..n : y = (IF k < place THEN k ELSE k + 1) /\ shorter[k] = list[y]
      BY ONLY <1>4, k \in 1..(n - 1)
    <3>3. x # y
      BY <3>1, <3>2, <2>1
    <3>4. list[x].id # list[y].id /\ list[x].base # list[y].base
      BY <3>3, Zenon DEF Distinct
    <3> QED BY ONLY <3>1, <3>2, <3>4, Zenon
  <2> QED BY ONLY <1>3, <2>1 DEF Distinct
<1>7. list[place].id \notin Ids(shorter) /\ list[place].base \notin Bases(shorter)
  <2>1. ASSUME NEW i \in 1..Len(shorter)
        PROVE  shorter[i].id # list[place].id /\ shorter[i].base # list[place].base
    <3>1. PICK j \in 1..n : j = (IF i < place THEN i ELSE i + 1) /\ shorter[i] = list[j]
      BY <1>3, <1>4
    <3>2. j # place
      BY <3>1
    <3> QED BY <3>1, <3>2 DEF Distinct
  <2> QED BY <2>1 DEF Ids, Bases
<1>10. \A i \in 1..Len(shorter) : \E j \in 1..n : shorter[i] = list[j]
  BY <1>3, <1>4
<1>11. \A j \in 1..n : j # place => \E i \in 1..Len(shorter) : shorter[i] = list[j]
  BY <1>3, <1>5
<1>8. Ids(list) = Ids(shorter) \cup {list[place].id}
  <2>1. ASSUME NEW i \in 1..Len(shorter) PROVE shorter[i].id \in Ids(list)
    BY <1>10 DEF Ids
  <2>2. ASSUME NEW j \in 1..n PROVE list[j].id \in Ids(shorter) \cup {list[place].id}
    BY <1>11 DEF Ids
  <2>3. list[place].id \in Ids(list)
    BY DEF Ids
  <2> QED BY <2>1, <2>2, <2>3 DEF Ids
<1>9. Bases(list) = Bases(shorter) \cup {list[place].base}
  <2>1. ASSUME NEW i \in 1..Len(shorter) PROVE shorter[i].base \in Bases(list)
    BY <1>10 DEF Bases
  <2>2. ASSUME NEW j \in 1..n PROVE list[j].base \in Bases(shorter) \cup {list[place].base}
    BY <1>11 DEF Bases
  <2>3. list[place].base \in Bases(list)
    BY DEF Bases
  <2> QED BY <2>1, <2>2, <2>3 DEF Bases
<1> QED BY <1>1, <1>3, <1>6, <1>7, <1>8, <1>9 DEF shorter

(* Places in a longer and in a shorter list.                               *)
LEMMA PrependedIds ==
  ASSUME NEW list \in Seq(ListEntry), NEW entry \in ListEntry, NEW i \in Nat
  PROVE  IdAt(Prepended(list, entry), i + 1) = IF i = 0 THEN entry.id ELSE IdAt(list, i)
<1>1. Len(list) \in Nat /\ \A k \in 1..Len(list) : list[k] \in ListEntry
  OBVIOUS
<1>2. Prepended(list, entry) \in [1..(Len(list) + 1) -> ListEntry]
  BY <1>1 DEF Prepended
<1>3. Len(Prepended(list, entry)) = Len(list) + 1
  BY <1>1, <1>2, FunctionIsSequence
<1>4. i + 1 \in 1..(Len(list) + 1) =>
        Prepended(list, entry)[i + 1] = IF i = 0 THEN entry ELSE list[i]
  BY <1>1 DEF Prepended
<1> QED BY <1>1, <1>3, <1>4 DEF IdAt

(* ... and in a list without one of its entries.                           *)
LEMMA WithoutIds ==
  ASSUME NEW list \in Seq(ListEntry), NEW place \in 1..Len(list), NEW i \in Nat
  PROVE  IdAt(Without(list, place), i)
           = IF i < place THEN IdAt(list, i) ELSE IdAt(list, i + 1)
<1>1. /\ Len(list) \in Nat /\ Len(list) - 1 \in Nat
      /\ \A k \in 1..Len(list) : list[k] \in ListEntry
  OBVIOUS
<1>2. Without(list, place) \in [1..(Len(list) - 1) -> ListEntry]
  BY <1>1 DEF Without
<1>3. Len(Without(list, place)) = Len(list) - 1
  BY <1>1, <1>2, FunctionIsSequence
<1>4. i \in 1..(Len(list) - 1) =>
        Without(list, place)[i] = IF i < place THEN list[i] ELSE list[i + 1]
  BY <1>1 DEF Without
<1> QED BY <1>1, <1>3, <1>4 DEF IdAt

(* A link is None exactly outside the list, ...                            *)
LEMMA LinkType ==
  ASSUME NEW list \in Seq(ListEntry), NEW i \in Int
  PROVE  /\ IdAt(list, i) \in Ids(list) \cup {None}
         /\ IdAt(list, i) \in Link
         /\ IdAt(list, i) = None <=> i \notin 1..Len(list)
<1>1. \A k \in 1..Len(list) : list[k] \in ListEntry
  OBVIOUS
<1>2. \A k \in 1..Len(list) : list[k].id \in Nat /\ list[k].id \in Ids(list)
  BY <1>1 DEF ListEntry, Ids
<1> QED BY <1>2, NoneAssumption DEF IdAt, Link

(* ... and leads to one place.                                             *)
LEMMA LinkLeads ==
  ASSUME NEW list \in Seq(ListEntry), Distinct(list), NEW i \in 1..Len(list), NEW k \in Int
  PROVE  list[i].id = IdAt(list, k) <=> k = i
<1>1. list[i] \in ListEntry
  OBVIOUS
<1>2. list[i].id \in Nat
  BY <1>1 DEF ListEntry
<1> QED BY <1>2, NoneAssumption DEF IdAt, Distinct

----------------------------------------------------------------------------
(* attach_front and detach, field by field.                                *)

(* An entry has the fields it was made from, ...                           *)
LEMMA EntryFields ==
  ASSUME NEW base, NEW previous, NEW next, NEW other
  PROVE  /\ Node(base, previous, next).base = base
         /\ Node(base, previous, next).previous = previous
         /\ Node(base, previous, next).next = next
         /\ [Node(base, previous, next) EXCEPT !.previous = other] = Node(base, other, next)
         /\ [Node(base, previous, next) EXCEPT !.next = other] = Node(base, previous, other)
         /\ base \in Base /\ previous \in Link /\ next \in Link
              => Node(base, previous, next) \in ActiveBase
BY DEF Node, ActiveBase

(* ... and is made from the fields it has.                                 *)
LEMMA EntryIsItsFields ==
  ASSUME NEW entry \in ActiveBase
  PROVE  /\ entry = Node(entry.base, entry.previous, entry.next)
         /\ entry.base \in Base /\ entry.previous \in Link /\ entry.next \in Link
BY DEF Node, ActiveBase

AttachedEntry(entries, i, id, head) ==
  Node(entries[i].base, IF i = head THEN id ELSE entries[i].previous, entries[i].next)

AttachesFront(d, id, ids, entries, head, tail, next_id) ==
  \E after \in [DOMAIN entries -> ActiveBase] :
    /\ AttachFront(d, id)
         = Struct(ids, after, id, IF head = None THEN id ELSE tail, next_id)
    /\ after[id] = Node(entries[id].base, None, head)
    /\ \A i \in DOMAIN entries \ {id} : after[i] = AttachedEntry(entries, i, id, head)

(* attach_front, field by field: the entry in front, the head before it    *)
(* linked back to it.                                                      *)
LEMMA AttachFrontFields ==
  ASSUME NEW S \in SUBSET Nat, NEW entries \in [S -> ActiveBase], NEW id \in S,
         NEW ids, NEW head \in S \cup {None}, head # id, NEW tail, NEW next_id
  PROVE  AttachesFront(Struct(ids, entries, head, tail, next_id), id,
                       ids, entries, head, tail, next_id)
<1> DEFINE d == Struct(ids, entries, head, tail, next_id)
           attached == [[entries[id] EXCEPT !.previous = None] EXCEPT !.next = head]
           placed == [entries EXCEPT ![id].previous = None, ![id].next = head]
           relinked == [placed EXCEPT ![head].previous = id]
<1>1. /\ d.head = head /\ d.active_bases_by_id = entries
  BY DEF Struct
<1>2. \A i \in S : /\ entries[i] = Node(entries[i].base, entries[i].previous, entries[i].next)
                   /\ entries[i].base \in Base
                   /\ entries[i].previous \in Link /\ entries[i].next \in Link
  BY EntryIsItsFields
<1>3. id \in Link /\ None \in Link /\ head \in Link
  BY DEF Link
<1>4. attached = Node(entries[id].base, None, head) /\ attached \in ActiveBase
  <2>1. /\ [entries[id] EXCEPT !.previous = None] = Node(entries[id].base, None, entries[id].next)
        /\ [Node(entries[id].base, None, entries[id].next) EXCEPT !.next = head]
             = Node(entries[id].base, None, head)
        /\ Node(entries[id].base, None, head) \in ActiveBase
    BY <1>2, <1>3, EntryFields
  <2> QED BY <2>1, Zenon
<1>5. /\ placed \in [S -> ActiveBase]
      /\ placed[id] = Node(entries[id].base, None, head)
      /\ \A i \in S \ {id} : placed[i] = entries[i]
  <2>1. placed = [entries EXCEPT ![id] = attached]
    OBVIOUS
  <2> HIDE DEF placed, attached
  <2> QED BY <1>4, <2>1
<1> HIDE DEF placed, attached
<1>6. DOMAIN entries = S
  OBVIOUS
<1>7. ASSUME head # None
      PROVE  AttachesFront(d, id, ids, entries, head, tail, next_id)
  <2>1. head \in S /\ head # id
    BY <1>7
  <2>2. /\ placed[head] = entries[head]
        /\ [entries[head] EXCEPT !.previous = id] = Node(entries[head].base, id, entries[head].next)
        /\ Node(entries[head].base, id, entries[head].next) \in ActiveBase
    BY <1>2, <1>3, <1>5, <2>1, EntryFields
  <2>3. relinked = [placed EXCEPT ![head] = Node(entries[head].base, id, entries[head].next)]
    BY <2>2, Zenon
  <2>4. AttachFront(d, id) = [d EXCEPT !.active_bases_by_id = relinked, !.head = id]
    BY <1>1, <1>7, Zenon DEF AttachFront, placed, relinked
  <2> HIDE DEF relinked
  <2>5. /\ relinked \in [S -> ActiveBase]
        /\ relinked[head] = Node(entries[head].base, id, entries[head].next)
        /\ \A i \in S \ {head} : relinked[i] = placed[i]
    BY <1>5, <2>1, <2>2, <2>3
  <2>6. AttachFront(d, id)
          = Struct(ids, relinked, id, IF head = None THEN id ELSE tail, next_id)
    BY <1>7, <2>4 DEF Struct
  <2>7. relinked[id] = Node(entries[id].base, None, head)
    BY <1>5, <2>1, <2>5
  <2>8. ASSUME NEW i \in S \ {id} PROVE relinked[i] = AttachedEntry(entries, i, id, head)
    BY <1>2, <1>5, <2>1, <2>5 DEF AttachedEntry
  <2> HIDE DEF d
  <2> QED BY <1>6, <2>5, <2>6, <2>7, <2>8, Zenon DEF AttachesFront
<1>8. ASSUME head = None
      PROVE  AttachesFront(d, id, ids, entries, head, tail, next_id)
  <2>1. AttachFront(d, id) = [d EXCEPT !.active_bases_by_id = placed, !.head = id, !.tail = id]
    BY <1>1, <1>8, Zenon DEF AttachFront, placed
  <2>2. AttachFront(d, id)
          = Struct(ids, placed, id, IF head = None THEN id ELSE tail, next_id)
    BY <1>8, <2>1 DEF Struct
  <2>3. ASSUME NEW i \in S \ {id} PROVE placed[i] = AttachedEntry(entries, i, id, head)
    <3>1. i # head
      BY <1>8, NoneAssumption
    <3> QED BY <1>2, <1>5, <3>1 DEF AttachedEntry
  <2> HIDE DEF d
  <2> QED BY <1>5, <1>6, <2>2, <2>3, Zenon DEF AttachesFront
<1> QED BY <1>7, <1>8, Zenon DEF d

DetachedEntry(entries, i, previous, next) ==
  Node(entries[i].base, IF i = next THEN previous ELSE entries[i].previous,
        IF i = previous THEN next ELSE entries[i].next)

Detaches(d, id, ids, entries, head, tail, next_id, previous, next) ==
  \E after \in [DOMAIN entries -> ActiveBase] :
    /\ Detach(d, id) = Struct(ids, after, IF previous = None THEN next ELSE head,
                              IF next = None THEN previous ELSE tail, next_id)
    /\ after[id] = Node(entries[id].base, None, None)
    /\ \A i \in DOMAIN entries \ {id} : after[i] = DetachedEntry(entries, i, previous, next)

(* detach, field by field: the entry on its own, its neighbours linked to  *)
(* each other.                                                             *)
LEMMA DetachFields ==
  ASSUME NEW S \in SUBSET Nat, NEW entries \in [S -> ActiveBase], NEW id \in S,
         NEW ids, NEW head, NEW tail, NEW next_id
  PROVE  Detaches(Struct(ids, entries, head, tail, next_id), id,
                  ids, entries, head, tail, next_id, entries[id].previous, entries[id].next)
<1> DEFINE d == Struct(ids, entries, head, tail, next_id)
           previous == entries[id].previous
           next == entries[id].next
           after == [i \in S |->
                       LET entry == entries[i]
                       IN  IF i = id
                           THEN [entry EXCEPT !.previous = None, !.next = None]
                           ELSE [entry EXCEPT
                                   !.next     = IF i = previous THEN next ELSE @,
                                   !.previous = IF i = next THEN previous ELSE @]]
<1>1. d.active_bases_by_id = entries /\ DOMAIN entries = S
  BY DEF Struct
<1>2. \A i \in S : /\ entries[i] = Node(entries[i].base, entries[i].previous, entries[i].next)
                   /\ entries[i].base \in Base
                   /\ entries[i].previous \in Link /\ entries[i].next \in Link
  BY EntryIsItsFields
<1>3. previous \in Link /\ next \in Link /\ None \in Link
  BY <1>2 DEF Link
<1>4. Detach(d, id) = [d EXCEPT !.active_bases_by_id = after,
                                !.head = IF previous = None THEN next ELSE @,
                                !.tail = IF next = None THEN previous ELSE @]
  BY <1>1, Zenon DEF Detach, after
<1>5. after[id] = [[entries[id] EXCEPT !.previous = None] EXCEPT !.next = None]
  BY Zenon
<1>6. \A i \in S \ {id} :
        after[i] = [[entries[i] EXCEPT
                       !.next     = IF i = previous THEN next ELSE entries[i].next] EXCEPT
                       !.previous = IF i = next THEN previous ELSE entries[i].previous]
  OBVIOUS
<1>7. after = [i \in S |-> after[i]]
  OBVIOUS
<1> HIDE DEF after, previous, next
<1>8. after[id] = Node(entries[id].base, None, None) /\ after[id] \in ActiveBase
  <2>1. /\ [entries[id] EXCEPT !.previous = None] = Node(entries[id].base, None, entries[id].next)
        /\ [Node(entries[id].base, None, entries[id].next) EXCEPT !.next = None]
             = Node(entries[id].base, None, None)
        /\ Node(entries[id].base, None, None) \in ActiveBase
    BY <1>2, <1>3, EntryFields
  <2> DEFINE first == [entries[id] EXCEPT !.previous = None]
  <2>2. after[id] = [first EXCEPT !.next = None]
    BY <1>5, Zenon
  <2>3. first = Node(entries[id].base, None, entries[id].next)
    BY <2>1, Zenon
  <2> HIDE DEF first
  <2>4. after[id] = Node(entries[id].base, None, None)
    BY <2>1, <2>2, <2>3, Zenon
  <2> QED BY <2>1, <2>4, Zenon
<1>9. ASSUME NEW i \in S \ {id}
      PROVE  after[i] = DetachedEntry(entries, i, previous, next) /\ after[i] \in ActiveBase
  <2> DEFINE n == IF i = previous THEN next ELSE entries[i].next
             p == IF i = next THEN previous ELSE entries[i].previous
  <2>1. after[i] = [[entries[i] EXCEPT !.next = n] EXCEPT !.previous = p]
    BY <1>6, Zenon
  <2>2. n \in Link /\ p \in Link
    BY <1>2, <1>3
  <2>3. DetachedEntry(entries, i, previous, next) = Node(entries[i].base, p, n)
    BY DEF DetachedEntry
  <2> HIDE DEF n, p
  <2>4. /\ [entries[i] EXCEPT !.next = n] = Node(entries[i].base, entries[i].previous, n)
        /\ [Node(entries[i].base, entries[i].previous, n) EXCEPT !.previous = p]
             = Node(entries[i].base, p, n)
        /\ Node(entries[i].base, p, n) \in ActiveBase
    BY <1>2, <2>2, EntryFields
  <2> DEFINE first == [entries[i] EXCEPT !.next = n]
  <2>5. after[i] = [first EXCEPT !.previous = p]
    BY <2>1, Zenon
  <2>6. first = Node(entries[i].base, entries[i].previous, n)
    BY <2>4, Zenon
  <2> HIDE DEF first
  <2>7. after[i] = Node(entries[i].base, p, n)
    BY <2>4, <2>5, <2>6, Zenon
  <2> QED BY <2>3, <2>4, <2>7, Zenon
<1>10. after \in [S -> ActiveBase]
  <2>1. \A i \in S : after[i] \in ActiveBase
    BY <1>8, <1>9
  <2> QED BY <1>7, <2>1
<1>11. Detach(d, id) = Struct(ids, after, IF previous = None THEN next ELSE head,
                              IF next = None THEN previous ELSE tail, next_id)
  BY <1>4 DEF Struct
<1> HIDE DEF d
<1>12. Detaches(d, id, ids, entries, head, tail, next_id, previous, next)
  BY <1>1, <1>8, <1>9, <1>10, <1>11, Zenon DEF Detaches
<1> QED BY <1>12 DEF d, previous, next

----------------------------------------------------------------------------
(* The methods, on lists.                                                  *)

(* attach_front puts an entry that is in the maps only in front.           *)
LEMMA AttachFrontKeeps ==
  ASSUME NEW d, NEW list, NEW apart, NEW next_id, StandsApart(d, list, apart, next_id)
  PROVE  StandsFor(AttachFront(d, apart.id), Prepended(list, apart), next_id)
<1> DEFINE longer == Prepended(list, apart)
           S == Ids(list) \cup {apart.id}
           n == Len(list)
           head == IdAt(list, 1)
           tail == IdAt(list, n)
<1>1. /\ list \in Seq(ListEntry) /\ Distinct(list) /\ n \in Nat
      /\ apart \in ListEntry /\ apart.id \notin Ids(list) /\ apart.base \notin Bases(list)
  BY DEF StandsApart
<1>2. PICK ids \in [Bases(list) \cup {apart.base} -> Nat], entries \in [S -> ActiveBase] :
        /\ Mapped(ids, list) /\ ids[apart.base] = apart.id
        /\ Linked(entries, list)
        /\ entries[apart.id] = Node(apart.base, None, None)
        /\ d = Struct(ids, entries, head, tail, next_id)
  BY Zenon DEF StandsApart
<1>3. /\ longer \in Seq(ListEntry) /\ Distinct(longer) /\ Len(longer) = n + 1
      /\ Ids(longer) = S /\ Bases(longer) = Bases(list) \cup {apart.base}
  BY <1>1, PrependedList
<1>4. \A i \in 1..n : list[i] \in ListEntry
  BY <1>1
<1>5. S \in SUBSET Nat /\ apart.id \in S
  BY <1>1, <1>4 DEF Ids, ListEntry
<1>6. head \in S \cup {None} /\ head # apart.id
  <2>1. head \in Ids(list) \cup {None}
    BY <1>1, LinkType
  <2>2. apart.id # None
    BY <1>5, NoneAssumption
  <2> QED BY <1>1, <2>1, <2>2
<1>7. AttachesFront(d, apart.id, ids, entries, head, tail, next_id)
  BY <1>2, <1>5, <1>6, AttachFrontFields
<1>8. DOMAIN entries = S
  BY <1>2
<1>9. PICK after \in [S -> ActiveBase] :
        /\ AttachFront(d, apart.id)
             = Struct(ids, after, apart.id, IF head = None THEN apart.id ELSE tail, next_id)
        /\ after[apart.id] = Node(entries[apart.id].base, None, head)
        /\ \A i \in S \ {apart.id} : after[i] = AttachedEntry(entries, i, apart.id, head)
  BY <1>7, <1>8, Zenon DEF AttachesFront
<1>10. \A i \in Nat : IdAt(longer, i + 1) = IF i = 0 THEN apart.id ELSE IdAt(list, i)
  BY <1>1, PrependedIds
<1>11. longer[1] = apart /\ \A i \in 1..n : longer[i + 1] = list[i]
  BY <1>1 DEF Prepended
<1> HIDE DEF longer
<1>12. IdAt(longer, 0) = None
  BY DEF IdAt
<1>13. apart.id = IdAt(longer, 1)
  BY <1>10
<1>14. (IF head = None THEN apart.id ELSE tail) = IdAt(longer, Len(longer))
  <2>1. head = None <=> n = 0
    BY <1>1, LinkType
  <2> QED BY <1>1, <1>3, <1>10, <2>1
<1>15. Linked(after, longer)
  <2>1. after[longer[1].id] = Node(longer[1].base, IdAt(longer, 0), IdAt(longer, 2))
    <3>1. IdAt(longer, 2) = head
      BY <1>10
    <3>2. entries[apart.id].base = apart.base
      BY <1>2, EntryFields
    <3> QED BY <1>9, <1>11, <1>12, <3>1, <3>2
  <2>2. ASSUME NEW i \in 1..n
        PROVE  after[longer[i + 1].id]
                 = Node(longer[i + 1].base, IdAt(longer, i), IdAt(longer, i + 2))
    <3> DEFINE id == list[i].id
    <3>1. id \in Ids(list) /\ id \in S \ {apart.id}
      BY <1>1 DEF Ids
    <3>2. entries[id] = Node(list[i].base, IdAt(list, i - 1), IdAt(list, i + 1))
      BY <1>2 DEF Linked
    <3>3. after[id] = AttachedEntry(entries, id, apart.id, head)
      BY <1>9, <3>1
    <3>4. id = head <=> i = 1
      BY <1>1, LinkLeads
    <3>5. IdAt(longer, i + 2) = IdAt(list, i + 1)
      BY <1>1, <1>10
    <3>6. IdAt(longer, i) = IF i = 1 THEN apart.id ELSE IdAt(list, i - 1)
      <4>1. i - 1 \in Nat /\ (i - 1) + 1 = i /\ (i - 1 = 0 <=> i = 1)
        BY <1>1
      <4>2. IdAt(longer, (i - 1) + 1) = IF i - 1 = 0 THEN apart.id ELSE IdAt(list, i - 1)
        BY <1>10, <4>1
      <4> QED BY <4>1, <4>2
    <3> HIDE DEF id
    <3>7. after[id] = Node(list[i].base, IF i = 1 THEN apart.id ELSE IdAt(list, i - 1),
                            IdAt(list, i + 1))
      BY <3>2, <3>3, <3>4, EntryFields DEF AttachedEntry
    <3> QED BY <1>11, <3>5, <3>6, <3>7 DEF id
  <2>3. ASSUME NEW i \in 1..Len(longer)
        PROVE  after[longer[i].id] = Node(longer[i].base, IdAt(longer, i - 1), IdAt(longer, i + 1))
    <3>1. CASE i = 1
      BY <2>1, <3>1
    <3>2. CASE i # 1
      <4>1. i - 1 \in 1..n /\ (i - 1) + 1 = i /\ (i - 1) + 2 = i + 1
        BY <1>1, <1>3, <3>2
      <4> QED BY <2>2, <4>1
    <3> QED BY <3>1, <3>2
  <2> QED BY <2>3 DEF Linked
<1>16. Mapped(ids, longer)
  <2>1. ids[longer[1].base] = longer[1].id
    BY <1>2, <1>11
  <2>2. ASSUME NEW i \in 1..n PROVE ids[longer[i + 1].base] = longer[i + 1].id
    BY <1>2, <1>11 DEF Mapped
  <2>3. ASSUME NEW i \in 1..Len(longer) PROVE ids[longer[i].base] = longer[i].id
    <3>1. i = 1 \/ (i - 1 \in 1..n /\ (i - 1) + 1 = i)
      BY <1>1, <1>3
    <3> QED BY <2>1, <2>2, <3>1
  <2> QED BY <2>3 DEF Mapped
<1>17. AttachFront(d, apart.id)
         = Struct(ids, after, IdAt(longer, 1), IdAt(longer, Len(longer)), next_id)
  BY <1>9, <1>13, <1>14, Zenon
<1>18. ids \in [Bases(longer) -> Nat] /\ after \in [Ids(longer) -> ActiveBase]
  BY <1>2, <1>3, <1>9
<1> HIDE DEF S, n, head, tail
<1>19. StandsFor(AttachFront(d, apart.id), longer, next_id)
  BY <1>3, <1>15, <1>16, <1>17, <1>18, Zenon DEF StandsFor
<1> QED BY <1>19 DEF longer

(* detach takes an entry out of the list and leaves it in the maps.        *)
LEMMA DetachKeeps ==
  ASSUME NEW d, NEW list, NEW next_id, StandsFor(d, list, next_id), NEW place \in 1..Len(list)
  PROVE  StandsApart(Detach(d, list[place].id), Without(list, place), list[place], next_id)
<1> DEFINE shorter == Without(list, place)
           S == Ids(list)
           n == Len(list)
           head == IdAt(list, 1)
           tail == IdAt(list, n)
           apart == list[place]
           previous == IdAt(list, place - 1)
           next == IdAt(list, place + 1)
<1>1. list \in Seq(ListEntry) /\ Distinct(list) /\ n \in Nat /\ apart \in ListEntry
  BY DEF StandsFor
<1>2. PICK ids \in [Bases(list) -> Nat], entries \in [S -> ActiveBase] :
        /\ Mapped(ids, list) /\ Linked(entries, list)
        /\ d = Struct(ids, entries, head, tail, next_id)
  BY Zenon DEF StandsFor
<1>3. /\ shorter \in Seq(ListEntry) /\ Distinct(shorter) /\ Len(shorter) = n - 1
      /\ apart.id \notin Ids(shorter) /\ apart.base \notin Bases(shorter)
      /\ S = Ids(shorter) \cup {apart.id} /\ Bases(list) = Bases(shorter) \cup {apart.base}
  BY <1>1, WithoutList
<1>4. \A i \in 1..n : list[i] \in ListEntry
  BY <1>1
<1>5. S \in SUBSET Nat /\ apart.id \in S
  BY <1>3, <1>4 DEF Ids, ListEntry
<1>6. entries[apart.id] = Node(apart.base, previous, next)
  BY <1>2 DEF Linked
<1>7. /\ entries[apart.id].base = apart.base
      /\ entries[apart.id].previous = previous /\ entries[apart.id].next = next
  BY <1>6, EntryFields
<1> HIDE DEF previous, next, head, tail
<1>8. Detaches(d, apart.id, ids, entries, head, tail, next_id, previous, next)
  <2>1. Detaches(Struct(ids, entries, head, tail, next_id), apart.id, ids, entries, head, tail,
                 next_id, entries[apart.id].previous, entries[apart.id].next)
    BY <1>2, <1>5, DetachFields
  <2> QED BY <1>2, <1>7, <2>1, Zenon
<1>9. DOMAIN entries = S
  BY <1>2
<1>10. PICK after \in [S -> ActiveBase] :
         /\ Detach(d, apart.id) = Struct(ids, after, IF previous = None THEN next ELSE head,
                                         IF next = None THEN previous ELSE tail, next_id)
         /\ after[apart.id] = Node(entries[apart.id].base, None, None)
         /\ \A i \in S \ {apart.id} : after[i] = DetachedEntry(entries, i, previous, next)
  BY <1>8, <1>9, Zenon DEF Detaches
<1>11. \A i \in Nat : IdAt(shorter, i) = IF i < place THEN IdAt(list, i) ELSE IdAt(list, i + 1)
  BY <1>1, WithoutIds
<1>12. \A i \in 1..(n - 1) : shorter[i] = IF i < place THEN list[i] ELSE list[i + 1]
  BY <1>1 DEF Without
<1> HIDE DEF shorter
<1>13. (IF previous = None THEN next ELSE head) = IdAt(shorter, 1)
  <2>1. previous = None <=> place = 1
    BY <1>1, LinkType DEF previous
  <2>2. IdAt(shorter, 1) = IF 1 < place THEN IdAt(list, 1) ELSE IdAt(list, 2)
    BY <1>11
  <2> QED BY <1>1, <2>1, <2>2 DEF next, head
<1>14. (IF next = None THEN previous ELSE tail) = IdAt(shorter, Len(shorter))
  <2>1. next = None <=> place = n
    BY <1>1, LinkType DEF next
  <2>2. n - 1 \in Nat /\ (n - 1) + 1 = n /\ (n - 1 < place <=> place = n)
    BY <1>1
  <2>3. IdAt(shorter, n - 1) = IF n - 1 < place THEN IdAt(list, n - 1) ELSE IdAt(list, (n - 1) + 1)
    BY <1>11, <2>2
  <2> QED BY <1>3, <2>1, <2>2, <2>3 DEF previous, tail
<1>15. Linked(after, shorter)
  <2>1. ASSUME NEW k \in 1..(n - 1)
        PROVE  after[shorter[k].id]
                 = Node(shorter[k].base, IdAt(shorter, k - 1), IdAt(shorter, k + 1))
    <3> DEFINE j == IF k < place THEN k ELSE k + 1
               id == list[j].id
    <3>1. j \in 1..n /\ j # place /\ j \in Int /\ shorter[k] = list[j]
      BY <1>1, <1>12
    <3>2. id \in S \ {apart.id}
      BY <1>1, <3>1 DEF Ids, Distinct
    <3>3. entries[id] = Node(list[j].base, IdAt(list, j - 1), IdAt(list, j + 1))
      BY <1>2, <3>1 DEF Linked
    <3>4. after[id] = DetachedEntry(entries, id, previous, next)
      BY <1>10, <3>2
    <3>5. (id = previous <=> j = place - 1) /\ (id = next <=> j = place + 1)
      <4>1. place - 1 \in Int /\ place + 1 \in Int
        BY <1>1
      <4>2. list[j].id = IdAt(list, place - 1) <=> place - 1 = j
        BY <1>1, <3>1, <4>1, LinkLeads
      <4>3. list[j].id = IdAt(list, place + 1) <=> place + 1 = j
        BY <1>1, <3>1, <4>1, LinkLeads
      <4> QED BY <4>2, <4>3 DEF previous, next
    <3>6. IdAt(shorter, k - 1) = IF j = place + 1 THEN previous ELSE IdAt(list, j - 1)
      <4>1. k - 1 \in Nat /\ (k - 1) + 1 = k
        BY <1>1
      <4>2. IdAt(shorter, k - 1)
              = IF k - 1 < place THEN IdAt(list, k - 1) ELSE IdAt(list, (k - 1) + 1)
        BY <1>11, <4>1
      <4>3. CASE k < place
        BY <4>2, <4>3 DEF previous
      <4>4. CASE k = place
        BY <4>2, <4>4 DEF previous
      <4>5. CASE k > place
        BY <4>1, <4>2, <4>5 DEF previous
      <4> QED BY <4>3, <4>4, <4>5
    <3>7. IdAt(shorter, k + 1) = IF j = place - 1 THEN next ELSE IdAt(list, j + 1)
      <4>1. k + 1 \in Nat
        BY <1>1
      <4>2. IdAt(shorter, k + 1)
              = IF k + 1 < place THEN IdAt(list, k + 1) ELSE IdAt(list, (k + 1) + 1)
        BY <1>11, <4>1
      <4>3. CASE k + 1 < place
        BY <4>2, <4>3 DEF next
      <4>4. CASE k + 1 = place
        BY <4>2, <4>4 DEF next
      <4>5. CASE k + 1 > place
        BY <4>1, <4>2, <4>5 DEF next
      <4> QED BY <4>3, <4>4, <4>5
    <3>8. entries[id].base = list[j].base /\ entries[id].previous = IdAt(list, j - 1)
                                          /\ entries[id].next = IdAt(list, j + 1)
      BY <3>3, EntryFields
    <3> HIDE DEF id, j
    <3>9. after[id] = Node(list[j].base, IF j = place + 1 THEN previous ELSE IdAt(list, j - 1),
                            IF j = place - 1 THEN next ELSE IdAt(list, j + 1))
      BY <3>4, <3>5, <3>8 DEF DetachedEntry
    <3> QED BY <3>1, <3>6, <3>7, <3>9 DEF id
  <2> QED BY <1>3, <2>1 DEF Linked
<1>16. Mapped(ids, shorter) /\ ids[apart.base] = apart.id
  <2>1. ASSUME NEW k \in 1..(n - 1) PROVE ids[shorter[k].base] = shorter[k].id
    <3>1. k \in 1..n /\ k + 1 \in 1..n
      BY <1>1
    <3>2. shorter[k] = list[k] \/ shorter[k] = list[k + 1]
      BY <1>12
    <3> QED BY <1>2, <3>1, <3>2 DEF Mapped
  <2>2. place \in 1..n
    OBVIOUS
  <2> QED BY <1>2, <1>3, <2>1, <2>2 DEF Mapped
<1>17. Detach(d, apart.id)
         = Struct(ids, after, IdAt(shorter, 1), IdAt(shorter, Len(shorter)), next_id)
  BY <1>10, <1>13, <1>14, Zenon
<1>18. after[apart.id] = Node(apart.base, None, None)
  BY <1>7, <1>10, Zenon
<1>19. /\ ids \in [Bases(shorter) \cup {apart.base} -> Nat]
       /\ after \in [Ids(shorter) \cup {apart.id} -> ActiveBase]
  BY <1>2, <1>3, <1>10
<1> HIDE DEF S, n, apart
<1>20. StandsApart(Detach(d, apart.id), shorter, apart, next_id)
  BY <1>1, <1>3, <1>15, <1>16, <1>17, <1>18, <1>19, Zenon DEF StandsApart
<1> QED BY <1>20 DEF shorter, apart

(* remove, from both maps, of an entry that is in the maps only.           *)
Removed(d, id, base) ==
  [d EXCEPT !.active_bases_by_id = Restrict(@, DOMAIN @ \ {id}),
            !.active_ids_by_base = Restrict(@, DOMAIN @ \ {base})]

(* remove, from both maps, of the entry that is in the maps and not in     *)
(* the list.                                                               *)
LEMMA RemovedKeeps ==
  ASSUME NEW d, NEW list, NEW apart, NEW next_id, StandsApart(d, list, apart, next_id)
  PROVE  StandsFor(Removed(d, apart.id, apart.base), list, next_id)
<1> DEFINE head == IdAt(list, 1)
           tail == IdAt(list, Len(list))
<1>1. /\ list \in Seq(ListEntry) /\ Distinct(list)
      /\ apart.id \notin Ids(list) /\ apart.base \notin Bases(list)
  BY DEF StandsApart
<1>2. PICK ids \in [Bases(list) \cup {apart.base} -> Nat],
           entries \in [Ids(list) \cup {apart.id} -> ActiveBase] :
        /\ Mapped(ids, list) /\ Linked(entries, list)
        /\ d = Struct(ids, entries, head, tail, next_id)
  BY Zenon DEF StandsApart
<1> DEFINE ids2 == [base \in Bases(list) |-> ids[base]]
           entries2 == [id \in Ids(list) |-> entries[id]]
<1> HIDE DEF head, tail
<1>3. /\ DOMAIN entries \ {apart.id} = Ids(list)
      /\ DOMAIN ids \ {apart.base} = Bases(list)
  BY <1>1, <1>2
<1>4. /\ Restrict(entries, Ids(list)) = entries2
      /\ Restrict(ids, Bases(list)) = ids2
  BY DEF Restrict
<1>5. ids2 \in [Bases(list) -> Nat] /\ entries2 \in [Ids(list) -> ActiveBase]
  BY <1>2
<1>6. Mapped(ids2, list)
  BY <1>2 DEF Mapped, Bases
<1>7. Linked(entries2, list)
  BY <1>2 DEF Linked, Ids
<1> HIDE DEF ids2, entries2
<1>8. Removed(d, apart.id, apart.base)
        = [d EXCEPT !.active_bases_by_id = Restrict(entries, DOMAIN entries \ {apart.id}),
                    !.active_ids_by_base = Restrict(ids, DOMAIN ids \ {apart.base})]
  BY <1>2 DEF Removed, Struct
<1>9. Removed(d, apart.id, apart.base) = Struct(ids2, entries2, head, tail, next_id)
  BY <1>2, <1>3, <1>4, <1>8 DEF Struct
<1> QED BY <1>1, <1>5, <1>6, <1>7, <1>9, Zenon DEF StandsFor, head, tail

(* One turn of enforce_cap drops the last entry.                           *)
LEMMA EvictTailKeeps ==
  ASSUME NEW d, NEW list, NEW next_id, StandsFor(d, list, next_id), list # <<>>
  PROVE  StandsFor(EvictTail(d), Without(list, Len(list)), next_id)
<1> DEFINE n == Len(list)
           last == list[n]
<1>1. list \in Seq(ListEntry) /\ Distinct(list) /\ n \in 1..n /\ n \in Nat
  BY DEF StandsFor
<1>2. PICK ids \in [Bases(list) -> Nat], entries \in [Ids(list) -> ActiveBase] :
        /\ Linked(entries, list)
        /\ d = Struct(ids, entries, IdAt(list, 1), IdAt(list, n), next_id)
  BY Zenon DEF StandsFor
<1>3. d.tail = last.id
  BY <1>1, <1>2 DEF Struct, IdAt
<1>4. d.active_bases_by_id[last.id].base = last.base
  <2>1. entries[last.id] = Node(last.base, IdAt(list, n - 1), IdAt(list, n + 1))
    BY <1>1, <1>2 DEF Linked
  <2>2. d.active_bases_by_id = entries
    BY <1>2 DEF Struct
  <2> QED BY <2>1, <2>2, EntryFields
<1>5. StandsApart(Detach(d, last.id), Without(list, n), last, next_id)
  BY <1>1, DetachKeeps
<1>6. StandsFor(Removed(Detach(d, last.id), last.id, last.base), Without(list, n), next_id)
  BY <1>5, RemovedKeeps
<1>7. EvictTail(d) = Removed(Detach(d, last.id), last.id, last.base)
  BY <1>3, <1>4, Zenon DEF EvictTail, Removed
<1> QED BY <1>6, <1>7, Zenon

(* A list moved to the front is ActiveLru's touched list.                  *)
LEMMA MovedIsTouched ==
  ASSUME NEW list \in Seq(ListEntry), NEW place \in 1..Len(list)
  PROVE  Prepended(Without(list, place), list[place]) = Touched(list, place)
<1> DEFINE n == Len(list)
           moved == Prepended(Without(list, place), list[place])
<1>1. n \in Nat /\ n - 1 \in Nat /\ \A i \in 1..n : list[i] \in ListEntry
  OBVIOUS
<1>2. Without(list, place) \in [1..(n - 1) -> ListEntry]
  BY <1>1 DEF Without
<1>3. Len(Without(list, place)) = n - 1
  BY <1>1, <1>2, FunctionIsSequence
<1>4. moved = [i \in 1..n |-> IF i = 1 THEN list[place] ELSE Without(list, place)[i - 1]]
  <2>1. (n - 1) + 1 = n
    BY <1>1
  <2> QED BY <1>3, <2>1, Zenon DEF Prepended
<1>5. ASSUME NEW i \in 1..n, i # 1
      PROVE  Without(list, place)[i - 1] = IF i <= place THEN list[i - 1] ELSE list[i]
  <2>1. i - 1 \in 1..(n - 1) /\ (i - 1) + 1 = i /\ (i - 1 < place <=> i <= place)
    BY <1>1, <1>5
  <2>2. Without(list, place)[i - 1]
          = IF i - 1 < place THEN list[i - 1] ELSE list[(i - 1) + 1]
    BY <2>1 DEF Without
  <2> QED BY <2>1, <2>2
<1>6. Touched(list, place)
        = [i \in 1..n |-> IF i = 1 THEN list[place]
                          ELSE IF i <= place THEN list[i - 1] ELSE list[i]]
  BY DEF Touched
<1> HIDE DEF moved
<1> QED BY <1>4, <1>5, <1>6 DEF moved

(* touch.                                                                  *)
LEMMA TouchKeeps ==
  ASSUME NEW d, NEW list, NEW next_id, StandsFor(d, list, next_id), NEW place \in 1..Len(list)
  PROVE  StandsFor(Touch(d, list[place].id), Touched(list, place), next_id)
<1> DEFINE id == list[place].id
           moved == Prepended(Without(list, place), list[place])
<1>1. list \in Seq(ListEntry) /\ Distinct(list) /\ 1 \in 1..Len(list)
  BY DEF StandsFor
<1>2. d.head = IdAt(list, 1)
  BY DEF StandsFor, Struct
<1>3. CASE place = 1
  <2>1. d.head = id
    BY <1>1, <1>2, <1>3 DEF IdAt
  <2>2. Touched(list, place) = list
    <3>1. list = [i \in 1..Len(list) |-> list[i]]
      BY <1>1
    <3>2. \A i \in 1..Len(list) : (IF i = 1 THEN list[place]
                                   ELSE IF i <= place THEN list[i - 1] ELSE list[i]) = list[i]
      BY <1>3
    <3> QED BY <3>1, <3>2 DEF Touched
  <2> QED BY <2>1, <2>2, Zenon DEF Touch
<1>4. CASE place # 1
  <2>1. d.head # id
    <3>1. id = IdAt(list, 1) <=> 1 = place
      BY <1>1, LinkLeads
    <3> QED BY <1>2, <1>4, <3>1
  <2>2. StandsApart(Detach(d, id), Without(list, place), list[place], next_id)
    BY DetachKeeps
  <2>3. StandsFor(AttachFront(Detach(d, id), id), moved, next_id)
    BY <2>2, AttachFrontKeeps
  <2>4. moved = Touched(list, place)
    BY <1>1, MovedIsTouched
  <2> QED BY <2>1, <2>3, <2>4, Zenon DEF Touch
<1> QED BY <1>3, <1>4

----------------------------------------------------------------------------
(* The cap.                                                                *)

(* The cap is a number or there is none.                                   *)
LEMMA CapType == MaxActiveBases \in Nat \/ MaxActiveBases = Unlimited
<1>1. CASE MaxActiveDictionaryBytes = Unlimited
  BY <1>1 DEF MaxActiveBases
<1>2. CASE MaxActiveDictionaryBytes # Unlimited
  <2>1. MaxActiveDictionaryBytes \in Nat
    BY <1>2, ConfigAssumption, SMTT(30)
  <2>2. BitsPerSample \in Nat /\ SamplesPerChunk \in Nat
    BY ConfigAssumption, SMTT(30)
  <2>3. ChunkBitLen \in Nat
    BY <2>2 DEF ChunkBitLen
  <2>4. ChunkByteLen \in Nat
    BY <2>3 DEF ChunkByteLen, CeilDiv
  <2>5. MaxActiveDictionaryBytes \div (ChunkByteLen + 4) \in Nat
    BY <2>1, <2>4
  <2> QED BY <1>2, <2>5 DEF MaxActiveBases
<1> QED BY <1>1, <1>2

(* What fits below a number that fits, fits.                               *)
LEMMA LessIsWithinCap ==
  ASSUME NEW more \in Nat, NEW less \in Nat, less <= more, WithinCap(more)
  PROVE  WithinCap(less)
BY CapType DEF WithinCap

(* A list has as many IDs and as many bases as entries.                    *)
LEMMA ListIsCounted ==
  ASSUME NEW list \in Seq(ListEntry), Distinct(list)
  PROVE  Cardinality(Ids(list)) = Len(list) /\ Cardinality(Bases(list)) = Len(list)
<1> DEFINE n == Len(list)
           f == [i \in 1..n |-> list[i].id]
           g == [i \in 1..n |-> list[i].base]
<1>1. n \in Nat /\ IsFiniteSet(1..n) /\ Cardinality(1..n) = n
  <2>1. n \in Nat /\ n \in Int /\ 1 \in Int
    OBVIOUS
  <2>2. IsFiniteSet(1..n) /\ Cardinality(1..n) = IF 1 > n THEN 0 ELSE n - 1 + 1
    BY <2>1, FS_Interval, Zenon
  <2> QED BY <2>1, <2>2
<1>2. f \in Bijection(1..n, Ids(list))
  BY DEF Bijection, Injection, Surjection, IsInjective, Ids, Distinct
<1>3. g \in Bijection(1..n, Bases(list))
  BY DEF Bijection, Injection, Surjection, IsInjective, Bases, Distinct
<1>4. ExistsBijection(1..n, Ids(list)) /\ ExistsBijection(1..n, Bases(list))
  BY <1>2, <1>3 DEF ExistsBijection
<1> QED BY <1>1, <1>4, FS_Bijection

(* What stands for a list has its IDs and bases as keys, as many as the    *)
(* list has entries, and its first and last ID at the ends.                *)
LEMMA SizeOfList ==
  ASSUME NEW d, NEW list, NEW next_id, StandsFor(d, list, next_id)
  PROVE  /\ Len(list) \in Nat
         /\ DOMAIN d.active_bases_by_id = Ids(list)
         /\ Cardinality(DOMAIN d.active_bases_by_id) = Len(list)
         /\ DOMAIN d.active_ids_by_base = Bases(list)
         /\ Cardinality(DOMAIN d.active_ids_by_base) = Len(list)
         /\ d.head = IdAt(list, 1) /\ d.tail = IdAt(list, Len(list)) /\ d.next_id = next_id
<1>1. list \in Seq(ListEntry) /\ Distinct(list)
  BY DEF StandsFor
<1>2. PICK ids \in [Bases(list) -> Nat], entries \in [Ids(list) -> ActiveBase] :
        d = Struct(ids, entries, IdAt(list, 1), IdAt(list, Len(list)), next_id)
  BY Zenon DEF StandsFor
<1>3. /\ d.active_bases_by_id = entries /\ d.active_ids_by_base = ids
      /\ d.head = IdAt(list, 1) /\ d.tail = IdAt(list, Len(list)) /\ d.next_id = next_id
  BY <1>2 DEF Struct
<1> QED BY <1>1, <1>2, <1>3, ListIsCounted

(* enforce_cap on a list that is one entry too long at most: what the loop *)
(* leaves is what one turn leaves.                                         *)
Turn(d) ==
  IF /\ ~ WithinCap(Cardinality(DOMAIN d.active_bases_by_id))
     /\ d.tail # None
  THEN EvictTail(d) ELSE d

(* The loop of enforce_cap: when a second turn would change nothing, all   *)
(* of its turns do what the first one does.                                *)
LEMMA LoopSettles ==
  ASSUME NEW d, Turn(Turn(d)) = Turn(d),
         Cardinality(DOMAIN d.active_bases_by_id) \in Nat \ {0}
  PROVE  EnforceCap(d) = Turn(d)
<1> DEFINE turns == Cardinality(DOMAIN d.active_bases_by_id)
           once == Turn(d)
           g == [n \in 0..turns |-> IF n = 0 THEN d ELSE once]
           Loops(f) ==
             f = [n \in 0..turns |->
                    IF n = 0 THEN d
                    ELSE IF /\ ~ WithinCap(Cardinality(DOMAIN f[n - 1].active_bases_by_id))
                            /\ f[n - 1].tail # None
                         THEN EvictTail(f[n - 1]) ELSE f[n - 1]]
           Turns(f) == f = [n \in 0..turns |-> IF n = 0 THEN d ELSE Turn(f[n - 1])]
<1>1. turns \in Nat /\ turns # 0
  OBVIOUS
<1> HIDE DEF turns
<1>2. \A f : Loops(f) <=> Turns(f)
  BY DEF Turn
<1>3. EnforceCap(d) = (CHOOSE f : Loops(f))[turns]
  BY DEF EnforceCap, turns
<1> HIDE DEF Loops
<1>4. Turns(g)
  <2>1. \A n \in 0..turns : g[n] = IF n = 0 THEN d ELSE Turn(g[n - 1])
    <3>1. ASSUME NEW n \in 0..turns, n # 0
          PROVE  g[n] = Turn(g[n - 1])
      <4>1. n - 1 \in 0..turns /\ g[n] = once /\ g[n - 1] = IF n - 1 = 0 THEN d ELSE once
        BY <1>1, <3>1
      <4> QED BY <4>1
    <3>2. g[0] = d
      BY <1>1
    <3> QED BY <3>1, <3>2
  <2>2. g = [n \in 0..turns |-> g[n]]
    OBVIOUS
  <2> HIDE DEF g
  <2> QED BY <2>1, <2>2
<1> HIDE DEF g
<1> DEFINE after == CHOOSE f : Loops(f)
<1>5. Turns(after)
  BY <1>2, <1>4, Zenon
<1> HIDE DEF after
<1>6. \A n \in 0..turns : after[n] = IF n = 0 THEN d ELSE Turn(after[n - 1])
  BY <1>5
<1> HIDE DEF Turns
<1> DEFINE Bad == {n \in Nat : n \in 1..turns /\ after[n] # once}
<1>7. Bad = {}
  <2>1. SUFFICES ASSUME Bad # {} PROVE FALSE
    OBVIOUS
  <2>2. PICK m \in Bad : \A k \in Bad : m <= k
    BY <2>1, LeastElement
  <2>3. m \in 0..turns /\ m # 0 /\ m - 1 \in Nat /\ m - 1 \notin Bad /\ 0 \in 0..turns
    BY <1>1, <2>2
  <2>4. after[m] = Turn(after[m - 1]) /\ after[0] = d
    BY <1>6, <2>3
  <2>5. CASE m = 1
    BY <2>2, <2>4, <2>5
  <2>6. CASE m # 1
    <3>1. m - 1 \in 1..turns
      BY <1>1, <2>3, <2>6
    <3>2. after[m - 1] = once
      BY <2>3, <3>1
    <3> QED BY <2>2, <2>4, <3>2
  <2> QED BY <2>5, <2>6
<1>8. after[turns] = once
  BY <1>1, <1>7
<1> QED BY <1>3, <1>8 DEF after

Capped(list) == IF WithinCap(Len(list)) THEN list ELSE Without(list, Len(list))

(* enforce_cap, on a list at most one over the cap.                        *)
LEMMA EnforceCapKeeps ==
  ASSUME NEW d, NEW list, NEW next_id, StandsFor(d, list, next_id), list # <<>>,
         WithinCap(Len(list) - 1)
  PROVE  StandsFor(EnforceCap(d), Capped(list), next_id)
<1> DEFINE n == Len(list)
           kept == Capped(list)
           once == Turn(d)
<1>1. list \in Seq(ListEntry) /\ Distinct(list) /\ n \in Nat \ {0}
  BY DEF StandsFor
<1>2. Cardinality(DOMAIN d.active_bases_by_id) = n /\ d.tail = IdAt(list, n)
  BY SizeOfList
<1>3. d.tail # None
  BY <1>1, <1>2, LinkType
<1>4. StandsFor(once, kept, next_id) /\ WithinCap(Len(kept)) /\ Len(kept) \in Nat
  <2>1. CASE WithinCap(n)
    BY <1>1, <1>2, <2>1 DEF Turn, Capped
  <2>2. CASE ~ WithinCap(n)
    <3>1. once = EvictTail(d) /\ kept = Without(list, n)
      BY <1>2, <1>3, <2>2 DEF Turn, Capped
    <3>2. StandsFor(EvictTail(d), Without(list, n), next_id)
      BY EvictTailKeeps
    <3>3. Len(Without(list, n)) = n - 1 /\ n - 1 \in Nat
      BY <1>1, WithoutList
    <3> QED BY <3>1, <3>2, <3>3
  <2> QED BY <2>1, <2>2
<1>5. Turn(once) = once
  <2>1. Cardinality(DOMAIN once.active_bases_by_id) = Len(kept)
    BY <1>4, SizeOfList
  <2> QED BY <1>4, <2>1 DEF Turn
<1>6. EnforceCap(d) = once
  BY <1>1, <1>2, <1>5, LoopSettles
<1> QED BY <1>4, <1>6

(* The list with a new entry, capped, is ActiveLru's.                      *)
LEMMA CappedIsAttached ==
  ASSUME NEW list \in Seq(ListEntry), NEW entry \in ListEntry, WithinCap(Len(list))
  PROVE  Capped(Prepended(list, entry)) = Attached(list, entry)
<1> DEFINE n == Len(list)
           longer == Prepended(list, entry)
<1>1. n \in Nat /\ \A i \in 1..n : list[i] \in ListEntry
  OBVIOUS
<1>2. longer \in [1..(n + 1) -> ListEntry]
  BY <1>1 DEF Prepended
<1>3. Len(longer) = n + 1
  BY <1>1, <1>2, FunctionIsSequence
<1>4. CASE WithinCap(n + 1)
  BY <1>3, <1>4, Zenon DEF Capped, Attached, Prepended
<1>5. CASE ~ WithinCap(n + 1)
  <2>1. MaxActiveBases = n
    BY <1>1, <1>5, CapType DEF WithinCap
  <2>2. Capped(longer) = [i \in 1..((n + 1) - 1) |->
                            IF i < n + 1 THEN longer[i] ELSE longer[i + 1]]
    BY <1>3, <1>5, Zenon DEF Capped, Without
  <2>3. (n + 1) - 1 = n /\ \A i \in 1..n : i < n + 1 /\ longer[i] = IF i = 1 THEN entry ELSE list[i - 1]
    BY <1>1 DEF Prepended
  <2>4. Attached(list, entry) = [i \in 1..n |-> IF i = 1 THEN entry ELSE list[i - 1]]
    BY <1>5, <2>1, Zenon DEF Attached
  <2> HIDE DEF longer, n
  <2>5. Capped(longer) = [i \in 1..n |-> IF i = 1 THEN entry ELSE list[i - 1]]
    BY <2>2, <2>3
  <2> QED BY <2>4, <2>5 DEF longer
<1> QED BY <1>4, <1>5

(* get_or_insert of a base that is not active.                             *)
LEMMA InsertKeeps ==
  ASSUME NEW d, NEW list, NEW next_id \in Nat, StandsFor(d, list, next_id),
         WithinCap(Len(list)), \A i \in 1..Len(list) : list[i].id < next_id,
         NEW base \in Base, base \notin Bases(list)
  PROVE  StandsFor(Insert(d, base), Attached(list, [id |-> next_id, base |-> base]), next_id + 1)
<1> DEFINE n == Len(list)
           apart == [id |-> next_id, base |-> base]
           entry == Node(base, None, None)
           head == IdAt(list, 1)
           tail == IdAt(list, n)
           inserted == [d EXCEPT !.next_id = next_id + 1,
                                 !.active_ids_by_base = With(@, base, next_id),
                                 !.active_bases_by_id = With(@, next_id, entry)]
<1>1. list \in Seq(ListEntry) /\ Distinct(list) /\ n \in Nat
  BY DEF StandsFor
<1>2. PICK ids \in [Bases(list) -> Nat], entries \in [Ids(list) -> ActiveBase] :
        /\ Mapped(ids, list) /\ Linked(entries, list)
        /\ d = Struct(ids, entries, head, tail, next_id)
  BY Zenon DEF StandsFor
<1>3. apart \in ListEntry /\ apart.id = next_id /\ apart.base = base
  BY DEF ListEntry
<1>4. next_id \notin Ids(list) /\ base \notin Bases(list)
  BY <1>1 DEF Ids, ListEntry
<1> DEFINE ids2 == With(ids, base, next_id)
           entries2 == With(entries, next_id, entry)
<1> HIDE DEF apart, head, tail
<1>5. entry \in ActiveBase
  <2>1. None \in Link
    BY DEF Link
  <2> QED BY <2>1, EntryFields
<1>6. /\ ids2 \in [Bases(list) \cup {base} -> Nat]
      /\ ids2[base] = next_id /\ \A b \in Bases(list) : ids2[b] = ids[b]
  BY <1>4 DEF With
<1> HIDE DEF entry
<1>7. /\ entries2 \in [Ids(list) \cup {next_id} -> ActiveBase]
      /\ entries2[next_id] = entry /\ \A i \in Ids(list) : entries2[i] = entries[i]
  BY <1>4, <1>5 DEF With
<1> HIDE DEF ids2, entries2
<1>8. Mapped(ids2, list)
  BY <1>2, <1>6 DEF Mapped, Bases
<1>9. Linked(entries2, list)
  BY <1>2, <1>7 DEF Linked, Ids
<1>10. inserted = Struct(ids2, entries2, head, tail, next_id + 1)
  <2>1. d.active_ids_by_base = ids /\ d.active_bases_by_id = entries
    BY <1>2 DEF Struct
  <2>2. inserted = [d EXCEPT !.next_id = next_id + 1, !.active_ids_by_base = ids2,
                             !.active_bases_by_id = entries2]
    BY <2>1, Zenon DEF ids2, entries2
  <2>3. d = Struct(ids, entries, head, tail, next_id)
    BY <1>2
  <2> HIDE DEF inserted
  <2> QED BY <2>2, <2>3 DEF Struct
<1> HIDE DEF inserted
<1>11. StandsApart(inserted, list, apart, next_id + 1)
  BY <1>1, <1>3, <1>4, <1>6, <1>7, <1>8, <1>9, <1>10, Zenon DEF StandsApart, entry, head, tail
<1>12. StandsFor(AttachFront(inserted, next_id), Prepended(list, apart), next_id + 1)
  BY <1>3, <1>11, AttachFrontKeeps
<1>13. /\ Len(Prepended(list, apart)) = n + 1 /\ (n + 1) - 1 = n
       /\ Prepended(list, apart) # <<>>
  <2>1. Len(Prepended(list, apart)) = n + 1
    BY <1>1, <1>3, <1>4, PrependedList
  <2> QED BY <1>1, <2>1
<1>14. StandsFor(EnforceCap(AttachFront(inserted, next_id)), Capped(Prepended(list, apart)),
                 next_id + 1)
  BY <1>12, <1>13, EnforceCapKeeps
<1>15. Capped(Prepended(list, apart)) = Attached(list, apart)
  BY <1>1, <1>3, CappedIsAttached
<1>16. d.next_id = next_id
  BY <1>2 DEF Struct
<1>17. Insert(d, base) = EnforceCap(AttachFront(inserted, next_id))
  BY <1>16, Zenon DEF Insert, inserted, entry, Node
<1> QED BY <1>14, <1>15, <1>17, Zenon DEF apart

----------------------------------------------------------------------------
(* The invariant: the struct stands for a list of entries, capped, whose   *)
(* IDs have been assigned.                                                 *)
Keeps(list) ==
  /\ StandsFor(dictionary, list, dictionary.next_id)
  /\ WithinCap(Len(list))
  /\ \A i \in 1..Len(list) : list[i].id < dictionary.next_id

DictionaryInv == dictionary.next_id \in Nat /\ \E list : Keeps(list)

(* An active base is found in the list, ...                                *)
LEMMA KnownIsActive ==
  ASSUME NEW list, Keeps(list), NEW base
  PROVE  /\ Known(base) <=> base \in Bases(list)
         /\ \A place \in 1..Len(list) :
              list[place].base = base
                => dictionary.active_ids_by_base[base] = list[place].id
<1>1. PICK ids \in [Bases(list) -> Nat], entries \in [Ids(list) -> ActiveBase] :
        /\ Mapped(ids, list)
        /\ dictionary = Struct(ids, entries, IdAt(list, 1), IdAt(list, Len(list)),
                               dictionary.next_id)
  BY Zenon DEF Keeps, StandsFor
<1>2. dictionary.active_ids_by_base = ids
  BY <1>1 DEF Struct
<1> QED BY <1>1, <1>2 DEF Known, Mapped

(* ... and a call of get_or_insert does to the list what ActiveLru says.   *)
LEMMA HitKeeps ==
  ASSUME NEW list, Keeps(list), NEW base, Hit(base), dictionary.next_id \in Nat
  PROVE  \E place \in 1..Len(list) :
           /\ list[place].base = base
           /\ Keeps(Touched(list, place))'
           /\ dictionary'.next_id = dictionary.next_id
           /\ answer' = <<list[place].id, FALSE>>
<1>1. base \in Bases(list)
  BY KnownIsActive DEF Hit
<1>2. PICK place \in 1..Len(list) : list[place].base = base
  BY <1>1 DEF Bases
<1>3. dictionary.active_ids_by_base[base] = list[place].id
  BY <1>2, KnownIsActive
<1>4. dictionary' = Touch(dictionary, list[place].id) /\ answer' = <<list[place].id, FALSE>>
  BY <1>3, Zenon DEF Hit
<1> DEFINE moved == Touched(list, place)
<1>5. StandsFor(dictionary', moved, dictionary.next_id)
  BY <1>4, TouchKeeps DEF Keeps
<1>6. dictionary'.next_id = dictionary.next_id
  BY <1>5, SizeOfList
<1>7. list \in Seq(ListEntry) /\ Len(list) \in Nat
  BY DEF Keeps, StandsFor
<1>8. \A i \in 1..Len(list) : list[i] \in ListEntry
  BY <1>7
<1>9. moved \in [1..Len(list) -> ListEntry]
  BY <1>7, <1>8 DEF Touched
<1>10. Len(moved) = Len(list)
  BY <1>7, <1>9, FunctionIsSequence
<1>11. \A i \in 1..Len(list) : moved[i].id < dictionary.next_id
  BY <1>7 DEF Touched, Keeps
<1> HIDE DEF moved
<1>12. Keeps(moved)'
  BY <1>5, <1>6, <1>10, <1>11 DEF Keeps
<1> QED BY <1>2, <1>4, <1>6, <1>12 DEF moved

(* ... and one that is not becomes the first of the list, with the next    *)
(* ID.                                                                     *)
LEMMA MissKeeps ==
  ASSUME NEW list, Keeps(list), NEW base \in Base, Miss(base),
         NEW next_id \in Nat, dictionary.next_id = next_id
  PROVE  /\ base \notin Bases(list)
         /\ Keeps(Attached(list, [id |-> next_id, base |-> base]))'
         /\ dictionary'.next_id = next_id + 1
         /\ answer' = <<next_id, TRUE>>
<1> DEFINE entry == [id |-> next_id, base |-> base]
           longer == Attached(list, entry)
           n == Len(list)
<1>1. base \notin Bases(list)
  BY KnownIsActive DEF Miss
<1>2. dictionary' = Insert(dictionary, base) /\ answer' = <<next_id, TRUE>>
  BY DEF Miss
<1>3. StandsFor(dictionary', longer, next_id + 1)
  BY <1>1, <1>2, InsertKeeps DEF Keeps
<1>4. dictionary'.next_id = next_id + 1
  BY <1>3, SizeOfList
<1>5. list \in Seq(ListEntry) /\ n \in Nat /\ WithinCap(n)
  BY DEF Keeps, StandsFor
<1>6. \A i \in 1..n : list[i] \in ListEntry /\ list[i].id < next_id
  BY <1>5 DEF Keeps
<1>7. entry \in ListEntry
  BY DEF ListEntry
<1> DEFINE m == IF WithinCap(n + 1) THEN n + 1 ELSE MaxActiveBases
<1>8. m \in 0..(n + 1) /\ WithinCap(m) /\ m \in Nat
  BY <1>5, CapType DEF WithinCap
<1>9. longer = [i \in 1..m |-> IF i = 1 THEN entry ELSE list[i - 1]]
  BY Zenon DEF Attached
<1> HIDE DEF m, longer, entry
<1>10. \A i \in 1..m : i # 1 => i - 1 \in 1..n
  BY <1>5, <1>8
<1>11. longer \in [1..m -> ListEntry]
  BY <1>6, <1>7, <1>9, <1>10
<1>12. Len(longer) = m
  BY <1>8, <1>11, FunctionIsSequence
<1>13. ASSUME NEW i \in 1..m PROVE longer[i].id < dictionary'.next_id
  <2>1. CASE i = 1
    <3>1. longer[i].id = next_id
      BY <1>9, <2>1 DEF entry
    <3> QED BY <1>4, <3>1
  <2>2. CASE i # 1
    <3>1. longer[i] = list[i - 1] /\ i - 1 \in 1..n
      BY <1>9, <1>10, <2>2
    <3>2. list[i - 1].id < next_id /\ list[i - 1].id \in Nat
      BY <1>6, <3>1 DEF ListEntry
    <3> QED BY <1>4, <3>1, <3>2
  <2> QED BY <2>1, <2>2
<1>14. Keeps(longer)'
  BY <1>3, <1>4, <1>8, <1>12, <1>13 DEF Keeps
<1> QED BY <1>1, <1>2, <1>4, <1>14 DEF longer, entry

(* A new dictionary stands for the empty list.                             *)
LEMMA InitKeeps == Init => dictionary.next_id = 0 /\ Keeps(<<>>)
<1> SUFFICES ASSUME Init PROVE dictionary.next_id = 0 /\ Keeps(<<>>)
  OBVIOUS
<1>1. dictionary = Struct(<<>>, <<>>, None, None, 0) /\ dictionary.next_id = 0
  BY DEF Init, New, Struct
<1>2. Len(<<>>) = 0 /\ <<>> \in Seq(ListEntry) /\ 1..0 = {}
  OBVIOUS
<1>3. Ids(<<>>) = {} /\ Bases(<<>>) = {} /\ IdAt(<<>>, 1) = None /\ IdAt(<<>>, Len(<<>>)) = None
  BY <1>2 DEF Ids, Bases, IdAt
<1>4. <<>> \in [{} -> Nat] /\ <<>> \in [{} -> ActiveBase]
  OBVIOUS
<1>5. Distinct(<<>>) /\ Mapped(<<>>, <<>>) /\ Linked(<<>>, <<>>)
  BY <1>2 DEF Distinct, Mapped, Linked
<1>6. StandsFor(dictionary, <<>>, dictionary.next_id)
  BY <1>1, <1>2, <1>3, <1>4, <1>5, Zenon DEF StandsFor
<1>7. WithinCap(0)
  BY CapType DEF WithinCap
<1> QED BY <1>1, <1>2, <1>6, <1>7 DEF Keeps

(* Every call leaves the struct standing for a list.                       *)
LEMMA DictionaryNext == DictionaryInv /\ [Next]_vars => DictionaryInv'
<1> SUFFICES ASSUME DictionaryInv, [Next]_vars PROVE DictionaryInv'
  OBVIOUS
<1>1. dictionary.next_id \in Nat
  BY DEF DictionaryInv
<1>2. PICK list : Keeps(list)
  BY DEF DictionaryInv
<1>3. ASSUME NEW base \in Base, Hit(base) PROVE DictionaryInv'
  <2>1. PICK place \in 1..Len(list) :
          Keeps(Touched(list, place))' /\ dictionary'.next_id = dictionary.next_id
    BY <1>1, <1>2, <1>3, HitKeeps
  <2> QED BY <1>1, <2>1, Zenon DEF DictionaryInv
<1>4. ASSUME NEW base \in Base, Miss(base) PROVE DictionaryInv'
  <2>1. PICK next_id \in Nat : dictionary.next_id = next_id
    BY <1>1
  <2>2. /\ Keeps(Attached(list, [id |-> next_id, base |-> base]))'
        /\ dictionary'.next_id = next_id + 1
    BY <1>2, <1>4, <2>1, MissKeeps
  <2>3. next_id + 1 \in Nat
    BY <2>1
  <2> QED BY <2>2, <2>3, Zenon DEF DictionaryInv
<1>5. CASE UNCHANGED dictionary
  BY <1>5 DEF DictionaryInv, Keeps
<1>6. ASSUME NEW base \in Base, Exhausted(base) PROVE UNCHANGED dictionary
  BY <1>6 DEF Exhausted
<1> QED BY <1>3, <1>4, <1>5, <1>6, Zenon DEF Next, vars

(* The maps and the links of the dictionary stand for a list of entries at *)
(* every moment, whatever is asked for (get_or_insert and all it calls).   *)
THEOREM LinksStandForAList == Spec => []DictionaryInv
<1>1. Init => DictionaryInv
  <2> SUFFICES ASSUME Init PROVE DictionaryInv
    OBVIOUS
  <2>1. dictionary.next_id = 0 /\ Keeps(<<>>)
    BY InitKeeps
  <2>2. dictionary.next_id \in Nat
    BY <2>1
  <2> QED BY <2>1, <2>2, Zenon DEF DictionaryInv
<1>2. DictionaryInv /\ [Next]_vars => DictionaryInv'
  BY DictionaryNext
<1> QED BY <1>1, <1>2, PTL DEF Spec

----------------------------------------------------------------------------
(* Reading the list.                                                       *)

(* A walk is what satisfies its equation.                                  *)
WalksAlong(g, n, start, link) ==
  /\ g = [i \in 1..n |-> g[i]]
  /\ \A i \in 1..n : g[i] = IF i = 1 THEN start ELSE Follow(g[i - 1], link)

(* Every sequence that follows the links is the walk.                      *)
LEMMA WalkIs ==
  ASSUME NEW start, NEW link, NEW g, NEW n \in Nat, Size = n, WalksAlong(g, n, start, link)
  PROVE  Walk(start, link) = g
<1> DEFINE Reads(f) == f = [i \in 1..n |-> IF i = 1 THEN start ELSE Follow(f[i - 1], link)]
           ids == CHOOSE f : Reads(f)
<1>1. Walk(start, link) = [i \in 1..n |-> ids[i]]
  BY DEF Walk
<1>2. n \in Nat /\ g = [i \in 1..n |-> g[i]]
  BY DEF WalksAlong
<1>3. \A i \in 1..n : g[i] = IF i = 1 THEN start ELSE Follow(g[i - 1], link)
  BY DEF WalksAlong
<1>4. Reads(g)
  BY <1>2, <1>3
<1>5. Reads(ids)
  BY <1>4, Zenon
<1> HIDE DEF ids
<1>6. \A i \in 1..n : ids[i] = IF i = 1 THEN start ELSE Follow(ids[i - 1], link)
  BY <1>5
<1> HIDE DEF Reads
<1> DEFINE Bad == {i \in Nat : i \in 1..n /\ ids[i] # g[i]}
<1>7. Bad = {}
  <2>1. SUFFICES ASSUME Bad # {} PROVE FALSE
    OBVIOUS
  <2>2. PICK m \in Bad : \A k \in Bad : m <= k
    BY <2>1, LeastElement
  <2>3. m \in 1..n /\ m - 1 \in Nat /\ m - 1 \notin Bad
    <3>1. m \in Nat /\ m \in 1..n /\ m - 1 \in Nat
      BY <1>2, <2>2
    <3>2. ~ (m <= m - 1)
      BY <3>1
    <3> QED BY <2>2, <3>1, <3>2
  <2>4. CASE m = 1
    BY <1>3, <1>6, <2>2, <2>3, <2>4
  <2>5. CASE m # 1
    <3>1. m - 1 \in 1..n
      BY <1>2, <2>3, <2>5
    <3>2. ids[m - 1] = g[m - 1]
      BY <2>3, <3>1
    <3>3. ids[m] = Follow(ids[m - 1], link) /\ g[m] = Follow(g[m - 1], link)
      BY <1>3, <1>6, <2>3, <2>5
    <3> QED BY <2>2, <3>2, <3>3
  <2> QED BY <2>4, <2>5
<1>8. ASSUME NEW i \in 1..n PROVE ids[i] = g[i]
  <2>1. i \in Nat
    BY <1>2
  <2>2. i \notin Bad
    <3> HIDE DEF Bad
    <3> QED BY <1>7
  <2> QED BY <2>1, <2>2
<1> QED BY <1>1, <1>2, <1>8

(* Links lead from entry to entry.                                         *)
LEMMA FollowList ==
  ASSUME NEW list, Keeps(list), NEW i \in 1..Len(list)
  PROVE  /\ list[i].id \in DOMAIN dictionary.active_bases_by_id
         /\ dictionary.active_bases_by_id[list[i].id].base = list[i].base
         /\ Follow(list[i].id, "next") = IdAt(list, i + 1)
         /\ Follow(list[i].id, "previous") = IdAt(list, i - 1)
<1>1. PICK ids \in [Bases(list) -> Nat], entries \in [Ids(list) -> ActiveBase] :
        /\ Linked(entries, list)
        /\ dictionary = Struct(ids, entries, IdAt(list, 1), IdAt(list, Len(list)),
                               dictionary.next_id)
  BY Zenon DEF Keeps, StandsFor
<1>2. dictionary.active_bases_by_id = entries /\ DOMAIN entries = Ids(list)
  BY <1>1 DEF Struct
<1>3. entries[list[i].id] = Node(list[i].base, IdAt(list, i - 1), IdAt(list, i + 1))
  BY <1>1 DEF Linked
<1>4. list[i].id \in Ids(list)
  BY DEF Ids
<1>5. /\ entries[list[i].id].base = list[i].base
      /\ entries[list[i].id].previous = IdAt(list, i - 1)
      /\ entries[list[i].id].next = IdAt(list, i + 1)
  BY <1>3, EntryFields
<1> QED BY <1>2, <1>4, <1>5 DEF Follow

(* The maps are as large as the list is long.                              *)
LEMMA SizeIs ==
  ASSUME NEW list, Keeps(list)
  PROVE  Size = Len(list) /\ Len(list) \in Nat /\ list \in Seq(ListEntry)
         /\ list = [i \in 1..Len(list) |-> list[i]]
<1>1. Size = Len(list) /\ Len(list) \in Nat
  BY SizeOfList DEF Size, Keeps
<1>2. list \in Seq(ListEntry)
  BY DEF Keeps, StandsFor
<1> QED BY <1>1, <1>2

(* The walk along `next` from the head is the list, ...                    *)
LEMMA WalkForwards ==
  ASSUME NEW list, Keeps(list)
  PROVE  Walk(dictionary.head, "next") = [i \in 1..Len(list) |-> list[i].id]
<1> DEFINE n == Len(list)
           g == [i \in 1..n |-> list[i].id]
<1>1. Size = n /\ n \in Nat
  BY SizeIs
<1>2. dictionary.head = IdAt(list, 1)
  BY SizeOfList DEF Keeps
<1>3. ASSUME NEW i \in 1..n
      PROVE  g[i] = IF i = 1 THEN dictionary.head ELSE Follow(g[i - 1], "next")
  <2>1. CASE i = 1
    BY <1>2, <2>1 DEF IdAt
  <2>2. CASE i # 1
    <3>1. i - 1 \in 1..n /\ (i - 1) + 1 = i /\ g[i - 1] = list[i - 1].id
      BY <1>1, <2>2
    <3>2. Follow(list[i - 1].id, "next") = IdAt(list, i)
      BY <3>1, FollowList
    <3>3. IdAt(list, i) = list[i].id
      BY DEF IdAt
    <3> QED BY <2>2, <3>1, <3>2, <3>3
  <2> QED BY <2>1, <2>2
<1>4. g = [i \in 1..n |-> g[i]]
  OBVIOUS
<1>5. \A i \in 1..n : g[i] = IF i = 1 THEN dictionary.head ELSE Follow(g[i - 1], "next")
  BY <1>3, Zenon
<1> HIDE DEF g, n
<1>6. WalksAlong(g, n, dictionary.head, "next")
  BY <1>4, <1>5, Zenon DEF WalksAlong
<1>7. Walk(dictionary.head, "next") = g
  BY <1>1, <1>6, WalkIs
<1> QED BY <1>7 DEF g, n

(* ... and along `previous` from the tail: the list backwards.             *)
LEMMA WalkBackwards ==
  ASSUME NEW list, Keeps(list)
  PROVE  Walk(dictionary.tail, "previous") = [i \in 1..Len(list) |-> list[Len(list) + 1 - i].id]
<1> DEFINE n == Len(list)
           g == [i \in 1..n |-> list[n + 1 - i].id]
<1>1. Size = n /\ n \in Nat
  BY SizeIs
<1>2. dictionary.tail = IdAt(list, n)
  BY SizeOfList DEF Keeps
<1>3. ASSUME NEW i \in 1..n
      PROVE  g[i] = IF i = 1 THEN dictionary.tail ELSE Follow(g[i - 1], "previous")
  <2>1. CASE i = 1
    <3>1. n \in 1..n /\ n + 1 - i = n
      BY <1>1, <2>1
    <3> QED BY <1>2, <2>1, <3>1 DEF IdAt
  <2>2. CASE i # 1
    <3>1. /\ i - 1 \in 1..n /\ n + 1 - (i - 1) \in 1..n /\ n + 1 - (i - 1) - 1 = n + 1 - i
          /\ n + 1 - i \in 1..n
          /\ g[i - 1] = list[n + 1 - (i - 1)].id
      BY <1>1, <2>2
    <3>2. Follow(list[n + 1 - (i - 1)].id, "previous") = IdAt(list, n + 1 - i)
      BY <3>1, FollowList
    <3>3. IdAt(list, n + 1 - i) = list[n + 1 - i].id
      BY <3>1 DEF IdAt
    <3> QED BY <2>2, <3>1, <3>2, <3>3
  <2> QED BY <2>1, <2>2
<1>4. g = [i \in 1..n |-> g[i]]
  OBVIOUS
<1>5. \A i \in 1..n : g[i] = IF i = 1 THEN dictionary.tail ELSE Follow(g[i - 1], "previous")
  BY <1>3, Zenon
<1> HIDE DEF g, n
<1>6. WalksAlong(g, n, dictionary.tail, "previous")
  BY <1>4, <1>5, Zenon DEF WalksAlong
<1>7. Walk(dictionary.tail, "previous") = g
  BY <1>1, <1>6, WalkIs
<1> QED BY <1>7 DEF g, n

(* The list of ActiveLru is the list the struct stands for.                *)
LEMMA ActiveListIs ==
  ASSUME NEW list, Keeps(list)
  PROVE  ActiveList = list
<1> DEFINE n == Len(list)
<1>1. /\ Size = n /\ n \in Nat /\ list \in Seq(ListEntry)
      /\ list = [i \in 1..n |-> list[i]]
  BY SizeIs
<1>2. ASSUME NEW i \in 1..n
      PROVE  /\ Walk(dictionary.head, "next")[i] = list[i].id
             /\ list[i].id \in DOMAIN dictionary.active_bases_by_id
             /\ dictionary.active_bases_by_id[list[i].id].base = list[i].base
             /\ list[i] = [id |-> list[i].id, base |-> list[i].base]
  <2>1. Walk(dictionary.head, "next")[i] = list[i].id
    BY WalkForwards
  <2>2. list[i] \in ListEntry
    BY <1>1
  <2>3. list[i] = [id |-> list[i].id, base |-> list[i].base]
    BY <2>2 DEF ListEntry
  <2> QED BY <2>1, <2>3, FollowList
<1>3. ActiveList =
        [i \in 1..n |->
           [id |-> Walk(dictionary.head, "next")[i],
            base |-> IF Walk(dictionary.head, "next")[i] \in DOMAIN dictionary.active_bases_by_id
                     THEN dictionary.active_bases_by_id[Walk(dictionary.head, "next")[i]].base
                     ELSE None]]
  BY <1>1, Zenon DEF ActiveList
<1>4. ASSUME NEW i \in 1..n
      PROVE  [id |-> Walk(dictionary.head, "next")[i],
            base |-> IF Walk(dictionary.head, "next")[i] \in DOMAIN dictionary.active_bases_by_id
                     THEN dictionary.active_bases_by_id[Walk(dictionary.head, "next")[i]].base
                     ELSE None] = list[i]
  BY <1>2, Zenon
<1>5. ActiveList = [i \in 1..n |-> list[i]]
  BY <1>3, <1>4, Zenon
<1> QED BY <1>1, <1>5, Zenon

(* So the maps and the links agree, from either end.                       *)
LEMMA InvariantAgrees == DictionaryInv => ListAndMapsAgree
<1> SUFFICES ASSUME DictionaryInv PROVE ListAndMapsAgree
  OBVIOUS
<1>1. PICK list : Keeps(list)
  BY DEF DictionaryInv
<1> DEFINE n == Len(list)
           forward == Walk(dictionary.head, "next")
           backward == Walk(dictionary.tail, "previous")
           by_id == dictionary.active_bases_by_id
           by_base == dictionary.active_ids_by_base
<1>2. Size = n /\ n \in Nat /\ list \in Seq(ListEntry)
  BY <1>1, SizeIs
<1>3. /\ DOMAIN by_id = Ids(list) /\ DOMAIN by_base = Bases(list)
      /\ Cardinality(DOMAIN by_base) = n
      /\ dictionary.head = IdAt(list, 1) /\ dictionary.tail = IdAt(list, n)
  BY <1>1, SizeOfList DEF Keeps
<1>4. ASSUME NEW base \in DOMAIN by_base
      PROVE  by_base[base] \in DOMAIN by_id /\ by_id[by_base[base]].base = base
  <2>1. PICK place \in 1..n : list[place].base = base
    BY <1>3 DEF Bases
  <2>2. by_base[base] = list[place].id
    BY <1>1, <2>1, KnownIsActive
  <2> QED BY <1>1, <2>1, <2>2, FollowList
<1>5. Range(forward) = DOMAIN by_id
  <2>1. forward = [i \in 1..n |-> list[i].id]
    BY <1>1, WalkForwards
  <2> HIDE DEF forward
  <2> QED BY <1>3, <2>1 DEF Range, Ids
<1>6. ASSUME NEW i \in 1..Size PROVE backward[i] = forward[Size + 1 - i]
  <2>1. i \in 1..n /\ n + 1 - i \in 1..n
    BY <1>2
  <2>2. backward[i] = list[n + 1 - i].id
    BY <1>1, <2>1, WalkBackwards
  <2>3. forward[n + 1 - i] = list[n + 1 - i].id
    BY <1>1, <2>1, WalkForwards
  <2> QED BY <1>2, <2>2, <2>3
<1>7. n = 0 => dictionary.head = None /\ dictionary.tail = None
  BY <1>3 DEF IdAt
<1>8. Follow(dictionary.tail, "next") = None /\ Follow(dictionary.head, "previous") = None
  <2>1. CASE n = 0
    <3>1. None \notin DOMAIN by_id
      BY <1>2, <1>3, <2>1 DEF Ids
    <3> QED BY <1>7, <2>1, <3>1 DEF Follow
  <2>2. CASE n # 0
    <3>1. 1 \in 1..n /\ n \in 1..n /\ dictionary.head = list[1].id /\ dictionary.tail = list[n].id
      BY <1>2, <1>3, <2>2 DEF IdAt
    <3>2. Follow(list[n].id, "next") = IdAt(list, n + 1) /\ IdAt(list, n + 1) = None
      BY <1>1, <1>2, <3>1, FollowList DEF IdAt
    <3>3. Follow(list[1].id, "previous") = IdAt(list, 1 - 1) /\ IdAt(list, 1 - 1) = None
      BY <1>1, <1>2, <3>1, FollowList DEF IdAt
    <3> QED BY <3>1, <3>2, <3>3
  <2> QED BY <2>1, <2>2
<1>9. WithinCap(Size)
  BY <1>1, <1>2 DEF Keeps
<1> HIDE DEF forward, backward
<1>10. /\ \A base \in DOMAIN by_base :
            by_base[base] \in DOMAIN by_id /\ by_id[by_base[base]].base = base
       /\ Cardinality(DOMAIN by_base) = Size
       /\ \A i \in 1..Size : backward[i] = forward[Size + 1 - i]
       /\ Size = 0 => dictionary.head = None /\ dictionary.tail = None
  BY <1>2, <1>3, <1>4, <1>6, <1>7, Zenon
<1> QED BY <1>5, <1>8, <1>9, <1>10, Zenon DEF ListAndMapsAgree, forward, backward

(* The two maps are inverse to each other, the list reaches every entry    *)
(* once from either end, and no more than the cap is retained: no expect() *)
(* of touch, attach_front or detach can fail.                              *)
THEOREM ListAlwaysAgrees == Spec => []ListAndMapsAgree
BY LinksStandForAList, InvariantAgrees, PTL

----------------------------------------------------------------------------
(* The refinement.                                                         *)

(* The operators of ActiveLru, as LruDictionary instantiates them.         *)
LEMMA SameOperators ==
  /\ Abstract!MaxId = MaxId
  /\ \A lru, base : Abstract!IsActive(lru, base) <=> IsActive(lru, base)
  /\ \A lru, base : Abstract!IdsExhausted(lru, base) <=> IdsExhausted(lru, base)
  /\ \A lru, base : Abstract!GetOrInsert(lru, base) = GetOrInsert(lru, base)
<1>1. Abstract!Pow2 = Pow2
  BY Zenon DEF Abstract!Pow2, Pow2
<1>2. Abstract!MaxId = MaxId
  BY <1>1, Zenon DEF Abstract!MaxId, MaxId
<1>3. Abstract!MaxActiveBases = MaxActiveBases
  BY Zenon DEF Abstract!MaxActiveBases, MaxActiveBases, Abstract!ChunkByteLen, ChunkByteLen,
               Abstract!ChunkBitLen, ChunkBitLen, Abstract!CeilDiv, CeilDiv
<1>4. \A lru, base : Abstract!IsActive(lru, base) <=> IsActive(lru, base)
  BY Zenon DEF Abstract!IsActive, IsActive
<1>5. \A lru, base : Abstract!IdsExhausted(lru, base) <=> IdsExhausted(lru, base)
  BY <1>2, <1>4, Zenon DEF Abstract!IdsExhausted, IdsExhausted
<1>6. \A lru, base : Abstract!PlaceOf(lru, base) = PlaceOf(lru, base)
  BY Zenon DEF Abstract!PlaceOf, PlaceOf
<1>7. \A active, place : Abstract!Touched(active, place) = Touched(active, place)
  BY Zenon DEF Abstract!Touched, Touched
<1>8. \A active, entry : Abstract!Attached(active, entry) = Attached(active, entry)
  BY <1>3, Zenon DEF Abstract!Attached, Attached, Abstract!WithinCap, WithinCap
<1>9. \A lru, base : Abstract!GetOrInsert(lru, base) = GetOrInsert(lru, base)
  BY <1>4, <1>6, <1>7, <1>8, Zenon DEF Abstract!GetOrInsert, GetOrInsert
<1> QED BY <1>2, <1>4, <1>5, <1>9

(* The list read off the links is the list they stand for, before ...      *)
LEMMA ActiveListNow == \A list : Keeps(list) => ActiveList = list
BY ActiveListIs

(* ... and after every step.                                               *)
LEMMA ActiveListNext == (\A list : Keeps(list) => ActiveList = list)'
BY ActiveListNow, PTL

(* ActiveLru's view of a base that is active.                              *)
LEMMA PlaceIs ==
  ASSUME NEW list \in Seq(ListEntry), Distinct(list), NEW next_id,
         NEW place \in 1..Len(list), NEW base, list[place].base = base
  PROVE  /\ IsActive([active |-> list, next_id |-> next_id], base)
         /\ PlaceOf([active |-> list, next_id |-> next_id], base) = place
<1> DEFINE lru == [active |-> list, next_id |-> next_id]
<1>1. lru.active = list
  OBVIOUS
<1>2. \A i \in 1..Len(list) : list[i].base = base <=> i = place
  BY DEF Distinct
<1> HIDE DEF lru
<1>3. IsActive(lru, base)
  BY <1>1, <1>2 DEF IsActive
<1>4. PlaceOf(lru, base) = place
  BY <1>1, <1>2 DEF PlaceOf
<1> QED BY <1>3, <1>4 DEF lru

(* A hit is what the recency list does, ...                                *)
LEMMA HitIsLru ==
  ASSUME DictionaryInv, NEW base \in Base, Hit(base)
  PROVE  Abstract!LruGetOrInsert(base)
<1> DEFINE next_id == dictionary.next_id
<1>1. PICK list : Keeps(list)
  BY DEF DictionaryInv
<1>2. next_id \in Nat
  BY DEF DictionaryInv
<1>3. PICK place \in 1..Len(list) :
        /\ list[place].base = base
        /\ Keeps(Touched(list, place))'
        /\ dictionary'.next_id = next_id
        /\ answer' = <<list[place].id, FALSE>>
  BY <1>1, <1>2, HitKeeps
<1>4. list \in Seq(ListEntry) /\ Distinct(list)
  BY <1>1 DEF Keeps, StandsFor
<1>5. ActiveList = list
  BY <1>1, ActiveListNow
<1>6. ActiveList' = Touched(list, place)
  BY <1>3, ActiveListNext
<1> DEFINE lru == [active |-> list, next_id |-> next_id]
<1>7. IsActive(lru, base) /\ PlaceOf(lru, base) = place
  BY <1>3, <1>4, PlaceIs
<1>8. GetOrInsert(lru, base)
        = [dictionary |-> [active |-> Touched(list, place), next_id |-> next_id],
           id |-> list[place].id, is_new |-> FALSE]
  BY <1>7 DEF GetOrInsert
<1>9. ~ IdsExhausted(lru, base)
  BY <1>7, Zenon DEF IdsExhausted
<1>10. answer # Panic
  BY DEF Hit
<1>11. [active |-> ActiveList, next_id |-> dictionary.next_id] = lru
  BY <1>5, Zenon
<1>12. /\ [active |-> ActiveList, next_id |-> dictionary.next_id]' = GetOrInsert(lru, base).dictionary
       /\ answer' = <<GetOrInsert(lru, base).id, GetOrInsert(lru, base).is_new>>
  <2> DEFINE got == GetOrInsert(lru, base)
  <2>1. /\ got.dictionary = [active |-> Touched(list, place), next_id |-> next_id]
        /\ got.id = list[place].id /\ got.is_new = FALSE
    BY <1>8
  <2>2. [active |-> ActiveList, next_id |-> dictionary.next_id]'
          = [active |-> Touched(list, place), next_id |-> next_id]
    BY <1>3, <1>6, Zenon
  <2> HIDE DEF got
  <2>3. answer' = <<got.id, got.is_new>>
    BY <1>3, <2>1, Zenon
  <2> QED BY <2>1, <2>2, <2>3, Zenon DEF got
<1> HIDE DEF lru
<1> QED BY <1>9, <1>10, <1>11, <1>12, SameOperators, Zenon DEF Abstract!LruGetOrInsert

(* ... so is a miss, ...                                                   *)
LEMMA MissIsLru ==
  ASSUME DictionaryInv, NEW base \in Base, Miss(base)
  PROVE  Abstract!LruGetOrInsert(base)
<1>1. PICK list : Keeps(list)
  BY DEF DictionaryInv
<1>2. PICK next_id \in Nat : dictionary.next_id = next_id
  BY DEF DictionaryInv
<1> DEFINE longer == Attached(list, [id |-> next_id, base |-> base])
<1>3. /\ base \notin Bases(list)
      /\ Keeps(longer)'
      /\ dictionary'.next_id = next_id + 1
      /\ answer' = <<next_id, TRUE>>
  BY <1>1, <1>2, MissKeeps
<1>4. ActiveList = list
  BY <1>1, ActiveListNow
<1>5. ActiveList' = longer
  BY <1>3, ActiveListNext
<1> DEFINE lru == [active |-> list, next_id |-> next_id]
<1>6. ~ IsActive(lru, base)
  BY <1>3 DEF IsActive, Bases
<1> DEFINE got == GetOrInsert(lru, base)
<1>7. /\ got.dictionary = [active |-> longer, next_id |-> next_id + 1]
      /\ got.id = next_id /\ got.is_new = TRUE
  BY <1>6 DEF GetOrInsert
<1>8. next_id # MaxId
  <2>1. dictionary.next_id < MaxId
    BY DEF Miss
  <2> QED BY <1>2, <2>1
<1>9. ~ IdsExhausted(lru, base)
  BY <1>8 DEF IdsExhausted
<1>10. answer # Panic
  BY DEF Miss
<1>11. [active |-> ActiveList, next_id |-> dictionary.next_id] = lru
  BY <1>2, <1>4, Zenon
<1>12. [active |-> ActiveList, next_id |-> dictionary.next_id]'
         = [active |-> longer, next_id |-> next_id + 1]
  BY <1>3, <1>5, Zenon
<1> HIDE DEF got, lru, longer
<1>13. /\ [active |-> ActiveList, next_id |-> dictionary.next_id]' = got.dictionary
       /\ answer' = <<got.id, got.is_new>>
  BY <1>3, <1>7, <1>12, Zenon
<1> QED BY <1>9, <1>10, <1>11, <1>13, SameOperators, Zenon DEF Abstract!LruGetOrInsert, got

(* The panic of get_or_insert.                                             *)
LEMMA ExhaustedIsLru ==
  ASSUME DictionaryInv, NEW base \in Base, Exhausted(base)
  PROVE  Abstract!LruExhausted(base)
<1>1. PICK list : Keeps(list)
  BY DEF DictionaryInv
<1>2. ActiveList = list /\ ActiveList' = ActiveList
  <2>1. Keeps(list)'
    BY <1>1 DEF Exhausted, Keeps
  <2> QED BY <1>1, <2>1, ActiveListNow, ActiveListNext
<1> DEFINE lru == [active |-> list, next_id |-> dictionary.next_id]
<1>3. ~ IsActive(lru, base)
  <2>1. base \notin Bases(list)
    BY <1>1, KnownIsActive DEF Exhausted
  <2> QED BY <2>1 DEF IsActive, Bases
<1>4. IdsExhausted(lru, base)
  BY <1>3 DEF IdsExhausted, Exhausted
<1>5. [active |-> ActiveList, next_id |-> dictionary.next_id] = lru
  BY <1>2, Zenon
<1>6. [active |-> ActiveList, next_id |-> dictionary.next_id]'
        = [active |-> ActiveList, next_id |-> dictionary.next_id]
  BY <1>2, Zenon DEF Exhausted
<1>7. answer # Panic /\ answer' = Panic
  BY DEF Exhausted
<1> HIDE DEF lru
<1> QED BY <1>4, <1>5, <1>6, <1>7, SameOperators, Zenon DEF Abstract!LruExhausted

(* Every step of the linked dictionary is a step of the list, or none.     *)
LEMMA NextIsLruNext ==
  DictionaryInv /\ [Next]_vars => [Abstract!LruNext]_(Abstract!lruVars)
<1> SUFFICES ASSUME DictionaryInv, [Next]_vars
             PROVE  [Abstract!LruNext]_(Abstract!lruVars)
  OBVIOUS
<1>1. ASSUME NEW base \in Base, Hit(base) \/ Miss(base) \/ Exhausted(base)
      PROVE  Abstract!LruNext
  <2>1. Abstract!LruGetOrInsert(base) \/ Abstract!LruExhausted(base)
    BY <1>1, HitIsLru, MissIsLru, ExhaustedIsLru
  <2> QED BY <2>1, Zenon DEF Abstract!LruNext
<1>2. CASE UNCHANGED vars
  <2>1. dictionary' = dictionary /\ answer' = answer
    BY <1>2 DEF vars
  <2>2. PICK list : Keeps(list)
    BY DEF DictionaryInv
  <2>3. Keeps(list)'
    BY <2>1, <2>2 DEF Keeps
  <2>4. ActiveList' = ActiveList
    BY <2>2, <2>3, ActiveListNow, ActiveListNext
  <2> QED BY <2>1, <2>4, Zenon DEF Abstract!lruVars
<1> QED BY <1>1, <1>2, Zenon DEF Next

(* A new dictionary is an empty recency list.                              *)
LEMMA InitIsLruInit == Init => Abstract!LruInit
<1> SUFFICES ASSUME Init PROVE Abstract!LruInit
  OBVIOUS
<1>1. dictionary.next_id = 0 /\ Keeps(<<>>)
  BY InitKeeps
<1>2. ActiveList = <<>>
  BY <1>1, ActiveListNow
<1>3. answer = <<>>
  BY DEF Init
<1> QED BY <1>1, <1>2, <1>3, Zenon DEF Abstract!LruInit, Abstract!NewDictionary

(* Every call of get_or_insert answers as a plain recency list does, and   *)
(* evicts what it evicts, for every cap and any number of IDs: the linked  *)
(* dictionary implements the list that the encoder's model is built on.    *)
THEOREM DictionaryIsLru == Spec => ImplementsLru
<1>1. Init => Abstract!LruInit
  BY InitIsLruInit
<1>2. DictionaryInv /\ [Next]_vars => [Abstract!LruNext]_(Abstract!lruVars)
  BY NextIsLruNext
<1> QED BY <1>1, <1>2, LinksStandForAList, PTL DEF Spec, ImplementsLru, Abstract!LruSpec

----------------------------------------------------------------------------
(* What was asked for, and what IDs denote.                                *)

Unlike(s) == \A i, j \in 1..Len(s) : i # j => s[i] # s[j]

(* A base asked for again moves to the front, ...                          *)
LEMMA AskedAgain ==
  ASSUME NEW s \in Seq(Base), Unlike(s), NEW place \in 1..Len(s), NEW base, s[place] = base
  PROVE  <<base>> \o RemoveFirst(s, base) = Touched(s, place)
<1> DEFINE n == Len(s)
           front == SubSeq(s, 1, place - 1)
           back == SubSeq(s, place + 1, n)
           rest == front \o back
<1>1. n \in Nat /\ place \in 1..n /\ \A i \in 1..n : s[i] \in Base
  OBVIOUS
<1>2. {i \in 1..n : s[i] = base} = {place}
  BY DEF Unlike
<1>3. (CHOOSE x \in {place} : \A y \in {place} : x <= y) = place
  BY <1>1
<1>4. SelectInSeq(s, LAMBDA v : v = base) = place
  BY <1>2, <1>3, Zenon DEF SelectInSeq, Min
<1>5. RemoveFirst(s, base) = rest
  BY <1>1, <1>4, Zenon DEF RemoveFirst, RemoveAt
<1>6. /\ front \in Seq(Base) /\ Len(front) = place - 1
      /\ \A i \in 1..(place - 1) : front[i] = s[i]
  BY <1>1
<1>7. /\ back \in Seq(Base) /\ Len(back) = n - place
      /\ \A i \in 1..(n - place) : back[i] = s[place + i]
  BY <1>1
<1> HIDE DEF front, back
<1>8. /\ rest \in Seq(Base) /\ Len(rest) = n - 1
      /\ \A i \in 1..(n - 1) : rest[i] = IF i < place THEN s[i] ELSE s[i + 1]
  <2>1. rest \in Seq(Base) /\ Len(rest) = n - 1
    <3>1. rest \in Seq(Base) /\ Len(rest) = Len(front) + Len(back)
      BY <1>6, <1>7
    <3> QED BY <1>1, <1>6, <1>7, <3>1
  <2>2. ASSUME NEW i \in 1..(n - 1)
        PROVE  rest[i] = IF i < place THEN s[i] ELSE s[i + 1]
    <3>1. CASE i < place
      <4>1. i \in 1..(place - 1)
        BY <1>1, <3>1
      <4>2. rest[i] = front[i]
        BY <1>6, <1>7, <4>1
      <4> QED BY <1>6, <3>1, <4>1, <4>2
    <3>2. CASE ~ (i < place)
      <4>1. /\ i - (place - 1) \in 1..(n - place) /\ place + (i - (place - 1)) = i + 1
            /\ i > place - 1
        BY <1>1, <3>2
      <4>2. rest[i] = back[i - (place - 1)]
        BY <1>1, <1>6, <1>7, <4>1
      <4> QED BY <1>7, <3>2, <4>1, <4>2
    <3> QED BY <3>1, <3>2
  <2> QED BY <2>1, <2>2
<1> HIDE DEF rest
<1> DEFINE moved == <<base>> \o rest
<1>9. base \in Base
  BY <1>1
<1>10. /\ moved \in Seq(Base) /\ Len(moved) = n /\ moved[1] = base
       /\ \A i \in 1..(n - 1) : moved[i + 1] = rest[i]
  BY <1>1, <1>8, <1>9
<1> HIDE DEF moved
<1>11. ASSUME NEW i \in 1..n
       PROVE  moved[i] = IF i = 1 THEN s[place] ELSE IF i <= place THEN s[i - 1] ELSE s[i]
  <2>1. CASE i = 1
    BY <1>10, <2>1
  <2>2. CASE i # 1
    <3>1. i - 1 \in 1..(n - 1) /\ (i - 1) + 1 = i /\ (i - 1 < place <=> i <= place)
      BY <1>1, <2>2
    <3>2. moved[i] = rest[i - 1] /\ rest[i - 1] = IF i - 1 < place THEN s[i - 1] ELSE s[(i - 1) + 1]
      BY <1>8, <1>10, <3>1
    <3> QED BY <2>2, <3>1, <3>2
  <2> QED BY <2>1, <2>2
<1>12. moved = [i \in 1..n |-> moved[i]]
  BY <1>10
<1>13. moved = Touched(s, place)
  BY <1>11, <1>12 DEF Touched
<1> QED BY <1>5, <1>13, Zenon DEF moved

(* ... where it is the only one of its kind.                               *)
LEMMA TouchedUnlike ==
  ASSUME NEW s \in Seq(Base), Unlike(s), NEW place \in 1..Len(s)
  PROVE  /\ Touched(s, place) \in Seq(Base) /\ Unlike(Touched(s, place))
         /\ Len(Touched(s, place)) = Len(s)
<1> DEFINE n == Len(s)
           From(i) == IF i = 1 THEN place ELSE IF i <= place THEN i - 1 ELSE i
           moved == Touched(s, place)
<1>1. n \in Nat /\ \A i \in 1..n : s[i] \in Base
  OBVIOUS
<1>2. \A i \in 1..n : From(i) \in 1..n
  BY <1>1
<1>3. \A i, j \in 1..n : i # j => From(i) # From(j)
  BY <1>1
<1>4. \A i \in 1..n : moved[i] = s[From(i)]
  BY DEF Touched
<1>5. moved = [i \in 1..n |-> moved[i]]
  BY DEF Touched
<1> HIDE DEF moved, From
<1>6. moved \in [1..n -> Base]
  BY <1>1, <1>2, <1>4, <1>5
<1>7. moved \in Seq(Base) /\ Len(moved) = n
  BY <1>1, <1>6, FunctionIsSequence
<1>8. Unlike(moved)
  BY <1>2, <1>3, <1>4, <1>7 DEF Unlike
<1> QED BY <1>7, <1>8 DEF moved

(* A base asked for the first time is put in front.                        *)
LEMMA AskedFirst ==
  ASSUME NEW s \in Seq(Base), Unlike(s), NEW base \in Base,
         \A i \in 1..Len(s) : s[i] # base
  PROVE  LET more == <<base>> \o RemoveFirst(s, base)
         IN  /\ more \in Seq(Base) /\ Unlike(more) /\ Len(more) = Len(s) + 1
             /\ more[1] = base /\ \A i \in 1..Len(s) : more[i + 1] = s[i]
<1> DEFINE n == Len(s)
           more == <<base>> \o s
<1>1. RemoveFirst(s, base) = s
  BY Zenon DEF RemoveFirst
<1>2. n \in Nat /\ more \in Seq(Base) /\ Len(more) = n + 1
  OBVIOUS
<1>3. more[1] = base /\ \A i \in 1..n : more[i + 1] = s[i]
  OBVIOUS
<1> HIDE DEF more
<1>4. ASSUME NEW i \in 1..(n + 1), NEW j \in 1..(n + 1), i # j
      PROVE  more[i] # more[j]
  <2>1. \A k \in 1..(n + 1) : k = 1 \/ (k - 1 \in 1..n /\ (k - 1) + 1 = k)
    BY <1>2
  <2>2. \A k \in 1..(n + 1) : k = 1 \/ (k - 1 \in 1..n /\ more[k] = s[k - 1])
    BY <1>3, <2>1
  <2>3. CASE i = 1 \/ j = 1
    BY <1>3, <1>4, <2>2, <2>3
  <2>4. CASE i # 1 /\ j # 1
    <3>1. i - 1 \in 1..n /\ j - 1 \in 1..n /\ i - 1 # j - 1
      BY <1>4, <2>1, <2>4
    <3> QED BY <2>2, <2>4, <3>1 DEF Unlike
  <2> QED BY <2>3, <2>4
<1>5. Unlike(more)
  BY <1>2, <1>4 DEF Unlike
<1> QED BY <1>1, <1>2, <1>3, <1>5, Zenon DEF more

----------------------------------------------------------------------------
(* The invariant with its histories: the list is what has been asked for   *)
(* most recently, as far as the cap allows, and its IDs are places in the  *)
(* sequence of all bases that were ever new.                               *)
MostRecent(list) ==
  /\ recent \in Seq(Base) /\ Unlike(recent)
  /\ Len(list) <= Len(recent)
  /\ \A i \in 1..Len(list) : list[i].base = recent[i]
  /\ \A i \in 1..Len(recent) : WithinCap(i) => i <= Len(list)

Denotes(list) ==
  /\ persisted \in Seq(Base) /\ Len(persisted) = dictionary.next_id
  /\ \A i \in 1..Len(list) : persisted[list[i].id + 1] = list[i].base

AnswerDenotes ==
  answer \notin {Panic, <<>>} => persisted[answer[1] + 1] = recent[1]

HistoryInv ==
  /\ dictionary.next_id \in Nat
  /\ AnswerDenotes
  /\ \E list : Keeps(list) /\ MostRecent(list) /\ Denotes(list)

(* An active base is asked for.                                            *)
LEMMA HitHistory ==
  ASSUME HistoryInv, NEW base \in Base, MCHit(base)
  PROVE  HistoryInv'
<1>1. PICK list : Keeps(list) /\ MostRecent(list) /\ Denotes(list)
  BY DEF HistoryInv
<1>2. dictionary.next_id \in Nat
  BY DEF HistoryInv
<1>3. PICK place \in 1..Len(list) :
        /\ list[place].base = base
        /\ Keeps(Touched(list, place))'
        /\ dictionary'.next_id = dictionary.next_id
        /\ answer' = <<list[place].id, FALSE>>
  BY <1>1, <1>2, HitKeeps DEF MCHit
<1>4. list \in Seq(ListEntry) /\ Len(list) \in Nat /\ WithinCap(Len(list))
  BY <1>1 DEF Keeps, StandsFor
<1> DEFINE n == Len(list)
           moved == Touched(list, place)
<1>5. /\ recent \in Seq(Base) /\ Unlike(recent) /\ Len(recent) \in Nat /\ n <= Len(recent)
      /\ \A i \in 1..n : list[i].base = recent[i]
      /\ \A i \in 1..Len(recent) : WithinCap(i) => i <= n
  BY <1>1 DEF MostRecent
<1>6. place \in 1..Len(recent) /\ recent[place] = base
  BY <1>3, <1>4, <1>5
<1>7. recent' = Touched(recent, place)
  BY <1>5, <1>6, AskedAgain DEF MCHit, Asked
<1>8. recent' \in Seq(Base) /\ Unlike(recent') /\ Len(recent') = Len(recent)
  BY <1>5, <1>6, <1>7, TouchedUnlike
<1>9. Len(moved) = n
  <2>1. \A i \in 1..n : list[i] \in ListEntry
    BY <1>4
  <2>2. moved \in [1..n -> ListEntry]
    BY <1>4, <2>1 DEF Touched
  <2> QED BY <1>4, <2>2, FunctionIsSequence
<1>10. \A i \in 1..n : moved[i].base = recent'[i]
  <2>1. ASSUME NEW i \in 1..n PROVE moved[i].base = recent'[i]
    <3>1. i \in 1..Len(recent)
      BY <1>4, <1>5
    <3>2. recent'[i] = IF i = 1 THEN recent[place]
                       ELSE IF i <= place THEN recent[i - 1] ELSE recent[i]
      BY <1>7, <3>1 DEF Touched
    <3>3. moved[i] = IF i = 1 THEN list[place]
                     ELSE IF i <= place THEN list[i - 1] ELSE list[i]
      BY DEF Touched
    <3>4. i # 1 => i - 1 \in 1..n
      BY <1>4
    <3> HIDE DEF moved
    <3> QED BY <1>5, <3>2, <3>3, <3>4
  <2> QED BY <2>1
<1>11. persisted' = persisted
  BY DEF MCHit
<1>12. \A i \in 1..n : persisted[moved[i].id + 1] = moved[i].base
  <2>1. \A i \in 1..n : persisted[list[i].id + 1] = list[i].base
    BY <1>1 DEF Denotes
  <2>2. \A i \in 1..n : i # 1 => i - 1 \in 1..n
    BY <1>4
  <2> QED BY <2>1, <2>2 DEF Touched
<1>13. /\ persisted \in Seq(Base) /\ Len(persisted) = dictionary.next_id
       /\ persisted[list[place].id + 1] = base
  BY <1>1, <1>3 DEF Denotes
<1>14. recent'[1] = base
  <2>1. 1 \in 1..Len(recent)
    BY <1>6
  <2> QED BY <1>6, <1>7, <2>1 DEF Touched
<1> HIDE DEF moved
<1>15. MostRecent(moved)'
  BY <1>5, <1>8, <1>9, <1>10 DEF MostRecent
<1>16. Denotes(moved)'
  BY <1>3, <1>9, <1>11, <1>12, <1>13 DEF Denotes
<1>17. AnswerDenotes'
  BY <1>3, <1>11, <1>13, <1>14 DEF AnswerDenotes
<1>18. Keeps(moved)' /\ dictionary'.next_id \in Nat
  BY <1>2, <1>3 DEF moved
<1> QED BY <1>15, <1>16, <1>17, <1>18, Zenon DEF HistoryInv

(* A base is asked for that is not active, perhaps for the first time.     *)
LEMMA MissHistory ==
  ASSUME HistoryInv, NEW base \in Base, MCMiss(base)
  PROVE  HistoryInv'
<1>1. PICK list : Keeps(list) /\ MostRecent(list) /\ Denotes(list)
  BY DEF HistoryInv
<1>2. PICK next_id \in Nat : dictionary.next_id = next_id
  BY DEF HistoryInv
<1> DEFINE n == Len(list)
           entry == [id |-> next_id, base |-> base]
           longer == Attached(list, entry)
           m == IF WithinCap(n + 1) THEN n + 1 ELSE MaxActiveBases
<1>3. /\ base \notin Bases(list) /\ Keeps(longer)'
      /\ dictionary'.next_id = next_id + 1 /\ answer' = <<next_id, TRUE>>
  BY <1>1, <1>2, MissKeeps DEF MCMiss
<1>4. list \in Seq(ListEntry) /\ n \in Nat /\ WithinCap(n)
  BY <1>1 DEF Keeps, StandsFor
<1>5. \A i \in 1..n : list[i] \in ListEntry /\ list[i].id \in Nat /\ list[i].id < next_id
  <2>1. \A i \in 1..n : list[i] \in ListEntry
    BY <1>4
  <2> QED BY <1>1, <1>2, <2>1 DEF Keeps, ListEntry
<1>6. /\ recent \in Seq(Base) /\ Unlike(recent) /\ Len(recent) \in Nat /\ n <= Len(recent)
      /\ \A i \in 1..n : list[i].base = recent[i]
      /\ \A i \in 1..Len(recent) : WithinCap(i) => i <= n
  BY <1>1 DEF MostRecent
<1>7. m \in Nat /\ m <= n + 1 /\ WithinCap(m)
  BY <1>4, CapType DEF WithinCap
<1>8. /\ longer = [i \in 1..m |-> IF i = 1 THEN entry ELSE list[i - 1]]
      /\ \A i \in 1..m : longer[i] = IF i = 1 THEN entry ELSE list[i - 1]
  BY DEF Attached
<1>9. \A i \in 1..m : i # 1 => i - 1 \in 1..n
  BY <1>4, <1>7
<1> HIDE DEF longer, m
<1>10. Len(longer) = m
  <2>1. entry \in ListEntry
    BY <1>2 DEF ListEntry
  <2>2. longer \in [1..m -> ListEntry]
    BY <1>5, <1>8, <1>9, <2>1
  <2> QED BY <1>7, <2>2, FunctionIsSequence
<1>11. recent' = <<base>> \o RemoveFirst(recent, base)
  BY DEF MCMiss, Asked
<1>12. /\ recent' \in Seq(Base) /\ Unlike(recent') /\ recent'[1] = base
       /\ Len(recent') \in Nat /\ m <= Len(recent') /\ Len(recent') <= Len(recent) + 1
       /\ \A i \in 1..m : i # 1 => recent'[i] = recent[i - 1]
  <2>1. CASE \A i \in 1..Len(recent) : recent[i] # base
    <3>1. /\ recent' \in Seq(Base) /\ Unlike(recent') /\ Len(recent') = Len(recent) + 1
          /\ recent'[1] = base /\ \A i \in 1..Len(recent) : recent'[i + 1] = recent[i]
      BY <1>6, <1>11, <2>1, AskedFirst
    <3>2. ASSUME NEW i \in 1..m, i # 1 PROVE recent'[i] = recent[i - 1]
      <4>1. i - 1 \in 1..Len(recent) /\ (i - 1) + 1 = i
        BY <1>4, <1>6, <1>9, <1>7, <3>2
      <4>2. recent'[(i - 1) + 1] = recent[i - 1]
        BY <3>1, <4>1
      <4> QED BY <4>1, <4>2
    <3>3. Len(recent') \in Nat /\ m <= Len(recent') /\ Len(recent') <= Len(recent) + 1
      BY <1>4, <1>6, <1>7, <3>1
    <3> QED BY <3>1, <3>2, <3>3
  <2>2. ASSUME NEW place \in 1..Len(recent), recent[place] = base
        PROVE  /\ recent' \in Seq(Base) /\ Unlike(recent') /\ recent'[1] = base
               /\ Len(recent') \in Nat /\ m <= Len(recent') /\ Len(recent') <= Len(recent) + 1
               /\ \A i \in 1..m : i # 1 => recent'[i] = recent[i - 1]
    <3>1. place > n
      <4>1. \A i \in 1..n : recent[i] # base
        BY <1>3, <1>6 DEF Bases
      <4> QED BY <1>4, <1>6, <2>2, <4>1
    <3>2. recent' = Touched(recent, place)
      BY <1>6, <1>11, <2>2, AskedAgain
    <3>3. recent' \in Seq(Base) /\ Unlike(recent') /\ Len(recent') = Len(recent)
      BY <1>6, <2>2, <3>2, TouchedUnlike
    <3>4. \A i \in 1..Len(recent) :
            recent'[i] = IF i = 1 THEN recent[place]
                         ELSE IF i <= place THEN recent[i - 1] ELSE recent[i]
      BY <3>2 DEF Touched
    <3>5. m <= place /\ place <= Len(recent) /\ 1 \in 1..Len(recent)
      BY <1>4, <1>6, <1>7, <3>1
    <3>6. ASSUME NEW i \in 1..m, i # 1 PROVE recent'[i] = recent[i - 1]
      <4>1. i \in 1..Len(recent) /\ i <= place
        BY <1>6, <1>7, <3>5
      <4> QED BY <3>4, <3>6, <4>1
    <3>7. Len(recent') \in Nat /\ m <= Len(recent') /\ Len(recent') <= Len(recent) + 1
      BY <1>6, <1>7, <3>3, <3>5
    <3>8. recent'[1] = base
      BY <2>2, <3>4, <3>5
    <3> QED BY <3>3, <3>6, <3>7, <3>8
  <2> QED BY <2>1, <2>2
<1>13. ASSUME NEW i \in 1..Len(recent'), WithinCap(i) PROVE i <= m
  <2>1. i \in Nat /\ i <= Len(recent) + 1
    BY <1>6, <1>12
  <2>2. i <= n + 1
    <3> SUFFICES ASSUME i > n + 1 PROVE FALSE
      BY <1>4, <2>1
    <3>1. n + 1 \in 1..Len(recent) /\ WithinCap(n + 1)
      BY <1>4, <1>6, <1>13, <2>1, LessIsWithinCap
    <3> QED BY <1>4, <1>6, <3>1
  <2>3. CASE WithinCap(n + 1)
    BY <2>2, <2>3 DEF m
  <2>4. CASE ~ WithinCap(n + 1)
    BY <1>13, <2>4 DEF m, WithinCap
  <2> QED BY <2>3, <2>4
<1>14. \A i \in 1..m : longer[i].base = recent'[i]
  BY <1>6, <1>8, <1>9, <1>12
<1>15. MostRecent(longer)'
  BY <1>10, <1>12, <1>13, <1>14 DEF MostRecent
<1>16. /\ persisted \in Seq(Base) /\ Len(persisted) = next_id
       /\ \A i \in 1..n : persisted[list[i].id + 1] = list[i].base
  BY <1>1, <1>2 DEF Denotes
<1>17. persisted' = Append(persisted, base)
  BY DEF MCMiss
<1>18. /\ persisted' \in Seq(Base) /\ Len(persisted') = next_id + 1
       /\ persisted'[next_id + 1] = base
       /\ \A id \in 1..next_id : persisted'[id] = persisted[id]
  BY <1>2, <1>16, <1>17
<1>19. \A i \in 1..m : persisted'[longer[i].id + 1] = longer[i].base
  <2>1. \A i \in 1..n : list[i].id + 1 \in 1..next_id
    BY <1>2, <1>5
  <2>2. \A i \in 1..n : persisted'[list[i].id + 1] = list[i].base
    BY <1>16, <1>18, <2>1
  <2>3. ASSUME NEW i \in 1..m PROVE persisted'[longer[i].id + 1] = longer[i].base
    <3>1. CASE i = 1
      BY <1>8, <1>18, <3>1
    <3>2. CASE i # 1
      BY <1>8, <1>9, <2>2, <3>2
    <3> QED BY <3>1, <3>2
  <2> QED BY <2>3
<1>20. Denotes(longer)'
  BY <1>3, <1>10, <1>18, <1>19 DEF Denotes
<1>21. AnswerDenotes'
  BY <1>3, <1>12, <1>18 DEF AnswerDenotes
<1>22. dictionary'.next_id \in Nat
  BY <1>2, <1>3
<1>23. Keeps(longer)'
  BY <1>3
<1> QED BY <1>15, <1>20, <1>21, <1>22, <1>23, Zenon DEF HistoryInv

(* Every step of the dictionary keeps the invariant with its histories.    *)
LEMMA HistoryNext == HistoryInv /\ [MCNext]_mcVars => HistoryInv'
<1> SUFFICES ASSUME HistoryInv, [MCNext]_mcVars PROVE HistoryInv'
  OBVIOUS
<1>1. ASSUME NEW base \in Base, MCHit(base) PROVE HistoryInv'
  BY <1>1, HitHistory
<1>2. ASSUME NEW base \in Base, MCMiss(base) PROVE HistoryInv'
  BY <1>2, MissHistory
<1>3. ASSUME UNCHANGED <<dictionary, recent, persisted>>, answer' \in {Panic, answer}
      PROVE  HistoryInv'
  BY <1>3 DEF HistoryInv, Keeps, MostRecent, Denotes, AnswerDenotes
<1>4. ASSUME NEW base \in Base, MCExhausted(base) PROVE HistoryInv'
  BY <1>3, <1>4 DEF MCExhausted, Exhausted
<1>5. ASSUME UNCHANGED mcVars PROVE HistoryInv'
  BY <1>3, <1>5 DEF mcVars, vars
<1> QED BY <1>1, <1>2, <1>4, <1>5 DEF MCNext

(* The invariant with its histories holds of every behaviour.              *)
THEOREM ListIsItsHistory == MCSpec => []HistoryInv
<1>1. MCInit => HistoryInv
  <2> SUFFICES ASSUME MCInit PROVE HistoryInv
    OBVIOUS
  <2>1. dictionary.next_id = 0 /\ Keeps(<<>>)
    BY InitKeeps DEF MCInit
  <2>2. MostRecent(<<>>)
    BY DEF MCInit, MostRecent, Unlike
  <2>3. Denotes(<<>>)
    BY <2>1 DEF MCInit, Denotes
  <2>4. AnswerDenotes
    BY DEF MCInit, Init, AnswerDenotes
  <2>5. dictionary.next_id \in Nat
    BY <2>1
  <2> QED BY <2>1, <2>2, <2>3, <2>4, <2>5, Zenon DEF HistoryInv
<1>2. HistoryInv /\ [MCNext]_mcVars => HistoryInv'
  BY HistoryNext
<1> QED BY <1>1, <1>2, PTL DEF MCSpec

(* IDs denote persisted bases: an active ID is the place of its base in    *)
(* the sequence of all bases that were ever new, which decoders index.     *)
THEOREM IdsAlwaysDenoteBases == MCSpec => []IdsDenotePersistedBases
<1>1. HistoryInv => IdsDenotePersistedBases
  <2> SUFFICES ASSUME HistoryInv PROVE IdsDenotePersistedBases
    OBVIOUS
  <2>1. PICK list : Keeps(list) /\ Denotes(list)
    BY DEF HistoryInv
  <2>2. AnswerDenotes
    BY DEF HistoryInv
  <2>3. DOMAIN dictionary.active_bases_by_id = Ids(list)
    BY <2>1, SizeOfList DEF Keeps
  <2>4. ASSUME NEW id \in DOMAIN dictionary.active_bases_by_id
        PROVE  persisted[id + 1] = dictionary.active_bases_by_id[id].base
    <3>1. PICK i \in 1..Len(list) : list[i].id = id
      BY <2>3 DEF Ids
    <3>2. dictionary.active_bases_by_id[list[i].id].base = list[i].base
      BY <2>1, FollowList
    <3>3. persisted[list[i].id + 1] = list[i].base
      BY <2>1 DEF Denotes
    <3> QED BY <3>1, <3>2, <3>3
  <2>5. Len(persisted) = dictionary.next_id
    BY <2>1 DEF Denotes
  <2> QED BY <2>2, <2>4, <2>5 DEF AnswerDenotes, IdsDenotePersistedBases
<1> QED BY <1>1, ListIsItsHistory, PTL

(* Least recently used means it: the active bases are the most recently    *)
(* asked for, as many as the cap allows, in order.                         *)
THEOREM ActiveIsAlwaysRecent == MCSpec => []ActiveIsMostRecent
<1>1. HistoryInv => ActiveIsMostRecent
  <2> SUFFICES ASSUME HistoryInv,
                      NEW i \in 1..Len(recent)
               PROVE  IF WithinCap(i) THEN i <= Size /\ ActiveList[i].base = recent[i]
                                      ELSE i > Size
    BY DEF ActiveIsMostRecent
  <2>1. PICK list : Keeps(list) /\ MostRecent(list)
    BY DEF HistoryInv
  <2>2. ActiveList = list /\ Size = Len(list) /\ Len(list) \in Nat /\ WithinCap(Len(list))
    BY <2>1, ActiveListIs, SizeIs DEF Keeps
  <2>3. i \in Nat /\ i >= 1
    BY <2>1 DEF MostRecent
  <2>4. CASE WithinCap(i)
    <3>1. i <= Len(list)
      BY <2>1, <2>4 DEF MostRecent
    <3>2. list[i].base = recent[i]
      BY <2>1, <2>2, <2>3, <3>1 DEF MostRecent
    <3> QED BY <2>2, <2>4, <3>1, <3>2
  <2>5. CASE ~ WithinCap(i)
    BY <2>2, <2>3, <2>5, LessIsWithinCap
  <2> QED BY <2>4, <2>5
<1> QED BY <1>1, ListIsItsHistory, PTL

=============================================================================
