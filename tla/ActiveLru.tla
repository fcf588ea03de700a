----------------------------- MODULE ActiveLru ------------------------------
(***************************************************************************)
(* What the encoder's dictionary promises (dictionary.rs), without the     *)
(* linked list that keeps the promise: the active bases with their IDs,    *)
(* most recently used first, and the next ID to assign.                    *)
(*                                                                         *)
(*   [active |-> <<[id |-> ..., base |-> ...], ...>>, next_id |-> ...]     *)
(*                                                                         *)
(* Module Dictionary is the implementation; the encoder is built on this   *)
(* one.                                                                    *)
(***************************************************************************)
EXTENDS SampleStream

MaxId == Pow2[IdBits] - 1          \* u32::MAX

NewDictionary == [active |-> <<>>, next_id |-> 0]

(* max_active_bases, where None keeps everything.                          *)
WithinCap(count) == MaxActiveBases = Unlimited \/ count <= MaxActiveBases

IsActive(dictionary, base) ==
  \E i \in 1..Len(dictionary.active) : dictionary.active[i].base = base

PlaceOf(dictionary, base) ==
  CHOOSE i \in 1..Len(dictionary.active) : dictionary.active[i].base = base

(* touch: the entry at `place` becomes the most recent one.                *)
Touched(active, place) ==
  [i \in 1..Len(active) |->
     IF i = 1 THEN active[place]
     ELSE IF i <= place THEN active[i - 1] ELSE active[i]]

(* attach_front, then enforce_cap: one entry more than the cap allows      *)
(* evicts the least recently used one, which for a cap of 0 is the new one.*)
Attached(active, entry) ==
  [i \in 1..(IF WithinCap(Len(active) + 1) THEN Len(active) + 1 ELSE MaxActiveBases) |->
     IF i = 1 THEN entry ELSE active[i - 1]]

(* Faulty variant: next_id is not checked.                                 *)
IdsNeverExhausted(dictionary, base) == FALSE

(* The panic of get_or_insert: next_id.checked_add(1) overflows.  The ID   *)
(* u32::MAX is therefore never assigned.                                   *)
IdsExhausted(dictionary, base) ==
  ~ IsActive(dictionary, base) /\ dictionary.next_id = MaxId

(* get_or_insert: the dictionary afterwards, the base's ID and whether it  *)
(* is a new one.                                                           *)
GetOrInsert(dictionary, base) ==
  IF IsActive(dictionary, base)
  THEN LET place == PlaceOf(dictionary, base)
       IN  [dictionary |-> [active  |-> Touched(dictionary.active, place),
                            next_id |-> dictionary.next_id],
            id         |-> dictionary.active[place].id,
            is_new     |-> FALSE]
  ELSE [dictionary |-> [active  |-> Attached(dictionary.active,
                                             [id |-> dictionary.next_id, base |-> base]),
                        next_id |-> dictionary.next_id + 1],
        id         |-> dictionary.next_id,
        is_new     |-> TRUE]

----------------------------------------------------------------------------
(* Types: the encoders' bases are packed chunks.                           *)

Entry == [id : Nat, base : PackedBase]

DictionaryState == [active : Seq(Entry), next_id : 0..MaxId]

=============================================================================
