------------------------------ MODULE TtlCache ------------------------------
(***************************************************************************)
(* The in-memory cache of provider answers (common/cache/ttl-cache.ts): a  *)
(* sequence of entries [key, value, expiresAt], least recently used first. *)
(* Coalescing of loads is in the modules that use it.                      *)
(***************************************************************************)
LOCAL INSTANCE Naturals
LOCAL INSTANCE Sequences
INSTANCE SequencesExt

LOCAL Without(entries, key) == SelectSeq(entries, LAMBDA e : e.key # key)

\* get: an entry past its expiry is a miss.
Live(entries, key, now) == {e \in ToSet(entries) : e.key = key /\ e.expiresAt > now}
Hit(entries, key, now) == Live(entries, key, now) # {}
Cached(entries, key, now) == (CHOOSE e \in Live(entries, key, now) : TRUE).value

\* What a get leaves behind: the entry becomes the newest, an expired one is deleted.
Touched(entries, key, now) ==
  Without(entries, key) \o SetToSeq(Live(entries, key, now))

\* set: the newest entry; beyond maxEntries the least recently used go.
Stored(entries, key, value, expiresAt, maxEntries) ==
  LET all == Append(Without(entries, key), [key |-> key, value |-> value, expiresAt |-> expiresAt]) IN
  IF Len(all) <= maxEntries THEN all ELSE SubSeq(all, Len(all) - maxEntries + 1, Len(all))
=============================================================================
