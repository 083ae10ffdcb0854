------------------------------ MODULE PromptCache ------------------------------
(* The registry of prompts as threads share it (agent/prompts/_registry.py):*)
(* get_default_registry makes it once, get keeps what it has read, and      *)
(* clear_cache and reset_default_registry forget, while an operator edits   *)
(* the template's file.  A template is the edition of its file.             *)
EXTENDS Integers, FiniteSets
CONSTANTS None, Threads, MaxEdition, MaxMade

VARIABLES edition,    \* of the file
          registry,   \* _DEFAULT_REGISTRY: the number of the object, or None
          made,       \* registries made
          resets,
          cache,      \* per registry, what is cached
          lock,       \* _DEFAULT_LOCK
          thread,     \* where each thread is
          using,      \* the registry it got
          loaded,     \* what it read
          forgotten,  \* per registry, the edition at its last clear
          flying      \* the threads that were between lookup and store then

vars == <<edition, registry, made, resets, cache, lock, thread, using, loaded, forgotten, flying>>

Init ==
    /\ edition = 0 /\ registry = None /\ made = 0 /\ resets = 0
    /\ cache = [r \in 1 .. MaxMade |-> None]
    /\ lock = None /\ thread = [t \in Threads |-> "idle"]
    /\ using = [t \in Threads |-> None] /\ loaded = [t \in Threads |-> None]
    /\ forgotten = [r \in 1 .. MaxMade |-> 0] /\ flying = [r \in 1 .. MaxMade |-> {}]

Go(t, place) == thread' = [thread EXCEPT ![t] = place]

\* get_default_registry: looked at before the lock and once more under it.
Enter(t) ==
    /\ thread[t] = "idle"
    /\ Go(t, IF registry = None THEN "wait" ELSE "return")
    /\ UNCHANGED <<edition, registry, made, resets, cache, lock, using, loaded, forgotten, flying>>

Acquire(t) ==
    /\ thread[t] = "wait" /\ lock = None
    /\ lock' = t /\ Go(t, "inside")
    /\ UNCHANGED <<edition, registry, made, resets, cache, using, loaded, forgotten, flying>>

\* The global is read again when it is returned, after the lock is released.
MakeOnce(t) ==
    /\ thread[t] = "inside"
    /\ IF registry = None THEN registry' = made + 1 /\ made' = made + 1
       ELSE UNCHANGED <<registry, made>>
    /\ lock' = None /\ Go(t, "return")
    /\ UNCHANGED <<edition, resets, cache, using, loaded, forgotten, flying>>

Return(t) ==
    /\ thread[t] = "return"
    /\ using' = [using EXCEPT ![t] = registry]
    /\ Go(t, IF registry = None THEN "none" ELSE "lookup")
    /\ UNCHANGED <<edition, registry, made, resets, cache, lock, loaded, forgotten, flying>>

\* reset_default_registry: for tests.
Reset ==
    /\ lock = None /\ registry # None /\ made < MaxMade
    /\ registry' = None /\ resets' = resets + 1
    /\ UNCHANGED <<edition, made, cache, lock, thread, using, loaded, forgotten, flying>>

-----------------------------------------------------------------------------
\* get: the cache under its lock, the file without, the cache again.
Lookup(t) ==
    /\ thread[t] = "lookup"
    /\ IF cache[using[t]] # None
       THEN Go(t, "answer") /\ loaded' = [loaded EXCEPT ![t] = cache[using[t]]]
       ELSE Go(t, "load") /\ UNCHANGED loaded
    /\ UNCHANGED <<edition, registry, made, resets, cache, lock, using, forgotten, flying>>

LoadFile(t) ==
    /\ thread[t] = "load"
    /\ loaded' = [loaded EXCEPT ![t] = edition] /\ Go(t, "store")
    /\ UNCHANGED <<edition, registry, made, resets, cache, lock, using, forgotten, flying>>

Store(t) ==
    /\ thread[t] = "store"
    /\ cache' = [cache EXCEPT ![using[t]] = loaded[t]] /\ Go(t, "answer")
    /\ UNCHANGED <<edition, registry, made, resets, lock, using, loaded, forgotten, flying>>

Answer(t) ==
    /\ thread[t] \in {"answer", "none"}
    /\ Go(t, "idle")
    /\ using' = [using EXCEPT ![t] = None] /\ loaded' = [loaded EXCEPT ![t] = None]
    /\ UNCHANGED <<edition, registry, made, resets, cache, lock, forgotten, flying>>

ClearCache(r) ==
    /\ r <= made /\ cache[r] # None
    /\ cache' = [cache EXCEPT ![r] = None]
    /\ forgotten' = [forgotten EXCEPT ![r] = edition]
    /\ flying' = [flying EXCEPT ![r] = {t \in Threads : using[t] = r /\ thread[t] = "store"}]
    /\ UNCHANGED <<edition, registry, made, resets, lock, thread, using, loaded>>

Edit ==
    /\ edition < MaxEdition /\ edition' = edition + 1
    /\ UNCHANGED <<registry, made, resets, cache, lock, thread, using, loaded, forgotten, flying>>

Next ==
    \/ \E t \in Threads :
         \/ Enter(t) \/ Acquire(t) \/ MakeOnce(t) \/ Return(t)
         \/ Lookup(t) \/ LoadFile(t) \/ Store(t) \/ Answer(t)
    \/ \E r \in 1 .. MaxMade : ClearCache(r)
    \/ Reset \/ Edit

Spec == Init /\ [][Next]_vars

-----------------------------------------------------------------------------
TypeOK ==
    /\ edition \in 0 .. MaxEdition /\ made \in 0 .. MaxMade
    /\ registry \in {None} \union 1 .. made /\ lock \in {None} \union Threads
    /\ \A t \in Threads : thread[t] \in {"lookup", "load", "store"} => using[t] \in 1 .. made

(* A template that the cache gives is of the file as it was at the last     *)
(* clear_cache or later, unless a thread had read it before the clear and   *)
(* stored it after.                                                         *)
ClearedIsReadAgain ==
    \A r \in 1 .. made :
      cache[r] # None /\ cache[r] < forgotten[r] => flying[r] # {}

(* However many threads ask first, they share one registry: another is made *)
(* only after a reset.                                                      *)
RegistryIsShared ==
    /\ made <= resets + 1
    /\ \A t, u \in Threads : using[t] # None /\ using[u] # None /\ using[t] # using[u] => resets > 0
    /\ \A t \in Threads : thread[t] = "none" => resets > 0
=============================================================================
