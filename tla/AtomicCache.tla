---------------------------- MODULE AtomicCache ----------------------------
(***************************************************************************)
(* What the completion cache of cobrust-llm-router promises its callers:   *)
(* a map from cache keys to completions.  A lookup returns what the map    *)
(* held at one instant of the call, a store takes effect at one instant or *)
(* not at all, and no lookup is ever answered with anything but a miss or  *)
(* a completion some caller stored under that very key.                    *)
(*                                                                         *)
(* LlmCache, the file protocol of cache.rs, is shown to implement this     *)
(* specification as long as no two stores of one key overlap.              *)
(***************************************************************************)
CONSTANTS
  Tasks,   \* callers of the cache
  Keys,    \* cache keys, CacheKey in the code
  Texts,   \* completions
  None     \* no value

VARIABLES
  store,   \* store[k]: the completion held under k, or None
  busy,    \* busy[t]: kind, key and completion of the call t is inside
  out      \* out[t]: what t's last call returned, or None

vars == <<store, busy, out>>

Idle == <<"idle", None, None>>

Init ==
  /\ store = [k \in Keys |-> None]
  /\ busy = [t \in Tasks |-> Idle]
  /\ out = [t \in Tasks |-> None]

Finish(t, result) ==
  /\ busy' = [busy EXCEPT ![t] = Idle]
  /\ out' = [out EXCEPT ![t] = result]

\* A lookup that finds nothing returns at once.
Miss(t, k) ==
  /\ busy[t] = Idle
  /\ store[k] = None
  /\ Finish(t, "miss")
  /\ UNCHANGED store

\* A lookup that finds a completion has decided its answer at this instant.
Find(t, k) ==
  /\ busy[t] = Idle
  /\ store[k] # None
  /\ busy' = [busy EXCEPT ![t] = <<"get", None, store[k]>>]
  /\ out' = [out EXCEPT ![t] = None]
  /\ UNCHANGED store

ReturnHit(t) ==
  \E x \in Texts :
    /\ busy[t] = <<"get", None, x>>
    /\ Finish(t, x)
    /\ UNCHANGED store

Begin(t, k, x) ==
  /\ busy[t] = Idle
  /\ busy' = [busy EXCEPT ![t] = <<"put", k, x>>]
  /\ out' = [out EXCEPT ![t] = None]
  /\ UNCHANGED store

Commit(t) ==
  \E k \in Keys, x \in Texts :
    /\ busy[t] = <<"put", k, x>>
    /\ store' = [store EXCEPT ![k] = x]
    /\ Finish(t, "stored")

\* A call that fails or whose caller dies leaves the map as it was.
Abandon(t) ==
  /\ busy[t] # Idle
  /\ \E result \in {"failed", None} : Finish(t, result)
  /\ UNCHANGED store

Next ==
  \E t \in Tasks :
    \/ \E k \in Keys : Miss(t, k) \/ Find(t, k)
    \/ \E k \in Keys, x \in Texts : Begin(t, k, x)
    \/ ReturnHit(t)
    \/ Commit(t)
    \/ Abandon(t)

Spec == Init /\ [][Next]_vars
=============================================================================
