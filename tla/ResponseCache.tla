---------------------------- MODULE ResponseCache ----------------------------
(***************************************************************************)
(* The in-process cache of src/utils/cache.py around one GET handler of     *)
(* main.py.  Calls are coroutines of one event loop: they interleave only   *)
(* where the wrapper awaits the handler.  The database behind the handler   *)
(* is a history of versions for each scope and question; it changes when an *)
(* insight is generated or deleted, or when "yesterday" becomes another day.*)
(***************************************************************************)
EXTENDS Integers, FiniteSets, SequencesExt

CONSTANTS Calls,       \* the calls that may be in flight at once
          Scopes,      \* the values of api_key: company ids, or ALL_COMPANIES
          Questions,   \* the other arguments of the handler
          Ttl,         \* ttl_seconds, in ticks of the clock
          MaxEntries,  \* MAX_ENTRIES
          MaxClock,    \* bound: the last tick of time.monotonic
          MaxChanges   \* bound: versions of an answer

ASSUME CacheAssumption == /\ Ttl \in Nat \ {0}
                          /\ MaxEntries \in Nat \ {0}
                          /\ MaxClock \in Nat
                          /\ MaxChanges \in Nat \ {0}

Keys == Scopes \X Questions

VARIABLES clock,    \* time.monotonic()
          history,  \* history[k]: when each version of the answer to k appeared
          entry,    \* entry[k]: store[k], a value and its time, or Nothing
          order,    \* the keys of store, the least recently used first
          pc,       \* pc[c]: where call c stands
          asked,    \* asked[c]: the scope and question of c
          now,      \* now[c]: the clock c read before the lookup
          result,   \* result[c]: what the handler returned to the wrapper
          answer    \* answer[c]: what c returned, if it did, when, and whether a hit

store == <<entry, order>>
call == <<pc, asked, now, result>>
vars == <<clock, history, store, call, answer>>

Nothing == [of |-> <<>>, version |-> 0, at |-> 0]
NoAnswer == [of |-> <<>>, version |-> 0, at |-> 0, hit |-> FALSE]

\* MUTANT of Key: api_key is left out of the key, as the Request is.
KeyWithoutScope(k) == <<CHOOSE s \in Scopes : TRUE, k[2]>>

\* The hash of the arguments that are not in _SKIP.
Key(k) == k

Init == /\ clock = 0
        /\ history = [k \in Keys |-> <<0>>]
        /\ entry = [k \in Keys |-> Nothing]
        /\ order = <<>>
        /\ pc = [c \in Calls |-> "idle"]
        /\ asked \in [Calls -> Keys]
        /\ now = [c \in Calls |-> 0]
        /\ result = [c \in Calls |-> Nothing]
        /\ answer = [c \in Calls |-> NoAnswer]

Tick == /\ clock < MaxClock
        /\ clock' = clock + 1
        /\ UNCHANGED <<history, store, call, answer>>

Change(k) == /\ Len(history[k]) < MaxChanges
             /\ history' = [history EXCEPT ![k] = Append(@, clock)]
             /\ UNCHANGED <<clock, store, call, answer>>

\* store.move_to_end(k), which puts a new key there too.
MoveToEnd(k) == Append(RemoveFirst(order, k), k)

Return(c, value, hit) ==
    /\ pc' = [pc EXCEPT ![c] = "idle"]
    /\ answer' = [answer EXCEPT ![c] = [of |-> value.of, version |-> value.version,
                                        at |-> clock, hit |-> hit]]

\* A live entry: it is returned, and becomes the most recently used one.
Hit(c) == \E k \in Keys :
    /\ pc[c] = "idle"
    /\ entry[Key(k)] # Nothing
    /\ clock - entry[Key(k)].at < Ttl
    /\ asked' = [asked EXCEPT ![c] = k]
    /\ order' = MoveToEnd(Key(k))
    /\ Return(c, entry[Key(k)], TRUE)
    /\ UNCHANGED <<clock, history, entry, now, result>>

Miss(c) == \E k \in Keys :
    /\ pc[c] = "idle"
    /\ entry[Key(k)] # Nothing => clock - entry[Key(k)].at >= Ttl
    /\ asked' = [asked EXCEPT ![c] = k]
    /\ now' = [now EXCEPT ![c] = clock]
    /\ pc' = [pc EXCEPT ![c] = "await"]
    /\ answer' = [answer EXCEPT ![c] = NoAnswer]
    /\ UNCHANGED <<clock, history, store, result>>

\* The handler's query answers; other calls run before the wrapper resumes.
Load(c) == /\ pc[c] = "await"
           /\ result' = [result EXCEPT ![c] = [of |-> asked[c],
                                               version |-> Len(history[asked[c]]),
                                               at |-> now[c]]]
           /\ pc' = [pc EXCEPT ![c] = "loaded"]
           /\ UNCHANGED <<clock, history, store, asked, now, answer>>

\* 404, or a failed query: the exception passes the wrapper, nothing is stored.
Raise(c) == /\ pc[c] = "await"
            /\ pc' = [pc EXCEPT ![c] = "idle"]
            /\ UNCHANGED <<clock, history, store, asked, now, result, answer>>

\* MUTANT of Stamp: the time is taken when the result is stored.
StampLate(c) == clock

\* MUTANT of Stamp: the entry carries the time it expires.
StampExpiry(c) == now[c] + Ttl

Stamp(c) == now[c]

\* MUTANT of Evict: the bound is tested before the new entry is counted.
EvictTooLate(keys, entries) ==
    IF Len(keys) > MaxEntries + 1
    THEN order' = Tail(keys) /\ entry' = [entries EXCEPT ![Head(keys)] = Nothing]
    ELSE order' = keys /\ entry' = entries

\* while len(store) > MAX_ENTRIES: store.popitem(last=False)
Evict(keys, entries) ==
    IF Len(keys) > MaxEntries
    THEN order' = Tail(keys) /\ entry' = [entries EXCEPT ![Head(keys)] = Nothing]
    ELSE order' = keys /\ entry' = entries

Put(c) == LET k == Key(asked[c])
          IN  /\ pc[c] = "loaded"
              /\ Evict(MoveToEnd(k), [entry EXCEPT ![k] = [result[c] EXCEPT !.at = Stamp(c)]])
              /\ Return(c, result[c], FALSE)
              /\ result' = [result EXCEPT ![c] = Nothing]
              /\ UNCHANGED <<clock, history, asked, now>>

Next == \/ Tick
        \/ \E k \in Keys : Change(k)
        \/ \E c \in Calls : Hit(c) \/ Miss(c) \/ Load(c) \/ Raise(c) \/ Put(c)

Spec == Init /\ [][Next]_vars

-----------------------------------------------------------------------------
(* The properties. *)

\* The type invariant; order lists the keys of the entries, each once.
TypeOK ==
    /\ clock \in 0 .. MaxClock
    /\ \A k \in Keys : history[k] \in Seq(0 .. MaxClock) /\ Len(history[k]) \in 1 .. MaxChanges
    /\ \A k \in Keys : entry[k] = Nothing \/ entry[k].at \in 0 .. clock
    /\ {order[i] : i \in 1 .. Len(order)} = {k \in Keys : entry[k] # Nothing}
    /\ Cardinality({k \in Keys : entry[k] # Nothing}) = Len(order)
    /\ pc \in [Calls -> {"idle", "await", "loaded"}]
    /\ asked \in [Calls -> Keys]
    /\ now \in [Calls -> 0 .. MaxClock]

\* The cache is bounded, however many calls miss at the same time.
Bounded == Cardinality({k \in Keys : entry[k] # Nothing}) <= MaxEntries

\* "Tenants never see each other's cached responses" (cache.py:11): a call is
\* answered with the data of the scope and question it asked with.
TenantsApart ==
    \A c \in Calls : answer[c] # NoAnswer => answer[c].of = asked[c]

\* The cache as its callers see it: a call has been asked since it was looked up.
Reads == INSTANCE StaleReads WITH since <- [c \in Calls |-> IF pc[c] = "idle" THEN -1 ELSE now[c]]

\* Whatever the store does, every call is answered with a version of what it
\* asked for itself ("Tenants never see each other's cached responses",
\* cache.py:11) that was the present one during the call or, of a hit, less than
\* Ttl before it: neither another call's load nor an eviction shows.
KeepsReads == Reads!Spec

\* A hit is less than Ttl behind the database: the version it returns was still
\* the present one less than Ttl before the call, however long the handler that
\* loaded it took and whichever of several concurrent loads was stored last.
StaleByTtlAtMost ==
    \A c \in Calls :
        LET a == answer[c]
        IN  a.hit /\ a.version < Len(history[a.of])
                => history[a.of][a.version + 1] > a.at - Ttl
=============================================================================
