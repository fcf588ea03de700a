--------------------------- MODULE LruDictionary ----------------------------
(***************************************************************************)
(* The abstract specification of the dictionary as a component: callers    *)
(* look up bases one at a time and get answers.                            *)
(***************************************************************************)
EXTENDS ActiveLru

CONSTANTS Base,      \* the bases callers ask for
          Panic      \* the answer of a call that panicked

VARIABLES lru,       \* the dictionary, as ActiveLru describes it
          answer     \* what the last call returned: <<id, is_new>> or Panic

lruVars == <<lru, answer>>

LruInit == lru = NewDictionary /\ answer = <<>>

LruGetOrInsert(base) ==
  /\ answer # Panic
  /\ ~ IdsExhausted(lru, base)
  /\ LET got == GetOrInsert(lru, base)
     IN  lru' = got.dictionary /\ answer' = <<got.id, got.is_new>>

LruExhausted(base) ==
  /\ answer # Panic
  /\ IdsExhausted(lru, base)
  /\ answer' = Panic
  /\ UNCHANGED lru

LruNext == \E base \in Base : LruGetOrInsert(base) \/ LruExhausted(base)

LruSpec == LruInit /\ [][LruNext]_lruVars

=============================================================================
