---------------------------- MODULE MCDictionary ----------------------------
(***************************************************************************)
(* Model checking of Dictionary, with two history variables that no code   *)
(* keeps: what was asked for, and what every ID was assigned to.           *)
(***************************************************************************)
EXTENDS Dictionary, SequencesExt

VARIABLES recent,     \* every base asked for so far, most recent first
          persisted   \* the base of every ID assigned so far

mcVars == <<vars, recent, persisted>>

MCInit == Init /\ recent = <<>> /\ persisted = <<>>

Asked(base) ==
  recent' = <<base>> \o RemoveFirst(recent, base)

MCHit(base) == Hit(base) /\ Asked(base) /\ UNCHANGED persisted

MCMiss(base) ==
  Miss(base) /\ Asked(base) /\ persisted' = Append(persisted, base)

MCExhausted(base) == Exhausted(base) /\ UNCHANGED <<recent, persisted>>

MCNext == \E base \in Base : MCHit(base) \/ MCMiss(base) \/ MCExhausted(base)

MCSpec == MCInit /\ [][MCNext]_mcVars

----------------------------------------------------------------------------
(* Least recently used means it: the active bases are the most recently    *)
(* asked for of all bases ever seen, as many as the cap allows, in order.  *)
ActiveIsMostRecent ==
  \A i \in 1..Len(recent) :
     IF WithinCap(i)
     THEN i <= Size /\ ActiveList[i].base = recent[i]
     ELSE i > Size

(* An ID, once assigned, denotes one base for good: an active ID is at the *)
(* place of its base in the persisted dictionary, which is what decoders   *)
(* index, and IDs are assigned without gaps (the debug_assert of           *)
(* compress_samples; file-format.md:82, "monotonically assigned").         *)
IdsDenotePersistedBases ==
  /\ Len(persisted) = dictionary.next_id
  /\ \A id \in DOMAIN dictionary.active_bases_by_id :
        persisted[id + 1] = dictionary.active_bases_by_id[id].base
  /\ answer \notin {Panic, <<>>} => persisted[answer[1] + 1] = recent[1]

=============================================================================
