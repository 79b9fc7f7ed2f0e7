----------------------------- MODULE ResolverFlight -----------------------------
(***************************************************************************)
(* UniversalResolver (auth/resolver/universal.rs, cache.rs): concurrent    *)
(* callers resolve a DID through one cache and one request in flight.  A   *)
(* step ends at an await or at the end of a critical section; a caller's   *)
(* future can be dropped at any await.  The watch channel of a leader is   *)
(* the value in the in-flight entry, and what each follower has heard of   *)
(* it.  A cached document is [until, good], good when it is the requested  *)
(* DID's.                                                                  *)
(***************************************************************************)
EXTENDS Naturals, FiniteSets

CONSTANTS Clients, DIDs, Supported, TTL, MaxTime, Nil

ASSUME FlightAssumption ==
    /\ Nil \notin DIDs /\ Nil # "result" /\ Nil # "closed"
    /\ \A c \in Clients, v \in {Nil, "result"} : Nil # [leader |-> c, value |-> v]

VARIABLES clock,     \* the clock
          cache,     \* cache[d]: CachedResolution or Nil
          entries,   \* entries[d]: [leader, value] while d is in flight, or Nil
          caller     \* caller[c]: where c is in resolve_single_flight

flightVars == <<clock, cache, entries, caller>>

Resting == [at |-> "idle", did |-> Nil, heard |-> Nil]
Move(c, step) == caller' = [caller EXCEPT ![c].at = step]
Answer(c) == caller' = [caller EXCEPT ![c] = Resting]

is_fresh_at(entry, t) == t < entry.until

(* A document whose own expiry comes first is kept until then. *)
cache_fresh_until(expires, t) ==
    IF expires # Nil /\ expires < t + TTL THEN expires ELSE t + TTL

resolve_single_flight(c, d) ==
    /\ caller[c] = Resting
    /\ caller' = [caller EXCEPT ![c] = [at |-> "lookup", did |-> d, heard |-> Nil]]
    /\ UNCHANGED <<clock, cache, entries>>

(* A fresh document answers; a fresh one of another DID is invalidated.    *)
cached_resolution(c, found, missed) ==
    LET d == caller[c].did
        fresh == cache[d] # Nil /\ is_fresh_at(cache[d], clock)
    IN  /\ IF fresh /\ cache[d].good THEN found ELSE missed
        /\ cache' = IF fresh /\ ~cache[d].good THEN [cache EXCEPT ![d] = Nil] ELSE cache

Lookup(c) ==
    /\ caller[c].at = "lookup"
    /\ cached_resolution(c, Answer(c), Move(c, "join"))
    /\ UNCHANGED <<clock, entries>>

(* A follower subscribes, and hears at once a value that was already sent. *)
join(c) ==
    LET d == caller[c].did
    IN  /\ caller[c].at = "join"
        /\ IF entries[d] # Nil
           THEN /\ caller' = [caller EXCEPT ![c].at = "wait", ![c].heard = entries[d].value]
                /\ UNCHANGED entries
           ELSE /\ Move(c, "recheck")
                /\ entries' = [entries EXCEPT ![d] = [leader |-> c, value |-> Nil]]
        /\ UNCHANGED <<clock, cache>>

Recheck(c) ==
    /\ caller[c].at = "recheck"
    /\ cached_resolution(c, Move(c, "publish"), Move(c, "fetch"))
    /\ UNCHANGED <<clock, entries>>

(* The method resolver answers: a document, which is cached when it is the *)
(* requested one and not already out of date, or an error.  A method       *)
(* without resolver is an error at once.                                   *)
resolve_and_cache(c) ==
    LET d == caller[c].did
    IN  /\ caller[c].at = "fetch"
        /\ \/ UNCHANGED cache
           \/ /\ d \in Supported
              /\ \E expires \in (0 .. MaxTime) \cup {Nil} :
                    /\ cache_fresh_until(expires, clock) > clock
                    /\ cache' = [cache EXCEPT ![d] = [until |-> cache_fresh_until(expires, clock),
                                                      good |-> TRUE]]
        /\ Move(c, "publish")
        /\ UNCHANGED <<clock, entries>>

Waiting(f, d) == caller[f].at = "wait" /\ caller[f].did = d /\ caller[f].heard = Nil

(* The result, an error too, goes to every follower. *)
finish(c) ==
    LET d == caller[c].did
    IN  /\ caller[c].at = "publish"
        /\ entries' = [entries EXCEPT ![d].value = "result"]
        /\ caller' = [f \in Clients |-> IF f = c THEN [caller[c] EXCEPT !.at = "drop"]
                                        ELSE IF Waiting(f, d)
                                        THEN [caller[f] EXCEPT !.heard = "result"]
                                        ELSE caller[f]]
        /\ UNCHANGED <<clock, cache>>

(* InFlightLeader::drop: the entry goes, and a channel closed without a    *)
(* value sends its followers back to the loop.                             *)

(* Mutant: the entry is removed by finish's caller and not by Drop. *)
LeaderDrop_Finished(c) ==
    LET d == caller[c].did
    IN  /\ entries' = IF caller[c].at = "drop" THEN [entries EXCEPT ![d] = Nil] ELSE entries
        /\ caller' = [caller EXCEPT ![c] = Resting]

LeaderDrop(c) ==
    LET d == caller[c].did
    IN  /\ entries' = [entries EXCEPT ![d] = Nil]
        /\ caller' = [f \in Clients |-> IF f = c THEN Resting
                                        ELSE IF Waiting(f, d)
                                        THEN [caller[f] EXCEPT !.heard = "closed"]
                                        ELSE caller[f]]

EndLead(c) ==
    /\ caller[c].at = "drop"
    /\ LeaderDrop(c)
    /\ UNCHANGED <<clock, cache>>

wait(c) ==
    /\ caller[c].at = "wait" /\ caller[c].heard # Nil
    /\ caller' = [caller EXCEPT ![c] =
                     IF caller[c].heard = "result" THEN Resting
                     ELSE [at |-> "lookup", did |-> caller[c].did, heard |-> Nil]]
    /\ UNCHANGED <<clock, cache, entries>>

(* The caller's future is dropped at an await. *)
Cancel(c) ==
    /\ caller[c].at \in {"lookup", "wait", "recheck", "fetch"}
    /\ IF caller[c].at \in {"recheck", "fetch"} THEN LeaderDrop(c)
       ELSE Answer(c) /\ UNCHANGED entries
    /\ UNCHANGED <<clock, cache>>

Tick ==
    /\ clock < MaxTime
    /\ clock' = clock + 1
    /\ UNCHANGED <<cache, entries, caller>>

(* A cache backend that outlives the process may hold another DID's        *)
(* document.                                                               *)
FlightInit ==
    /\ clock = 0
    /\ cache \in [DIDs -> {Nil, [until |-> 1, good |-> FALSE]}]
    /\ entries = [d \in DIDs |-> Nil]
    /\ caller = [c \in Clients |-> Resting]

FlightNext ==
    \/ Tick
    \/ \E c \in Clients :
          \/ \E d \in DIDs : resolve_single_flight(c, d)
          \/ Lookup(c) \/ join(c) \/ Recheck(c) \/ resolve_and_cache(c) \/ finish(c) \/ EndLead(c)
          \/ wait(c) \/ Cancel(c)

FlightSpec == FlightInit /\ [][FlightNext]_flightVars

-----------------------------------------------------------------------------
Leading(c) == caller[c].at \in {"recheck", "fetch", "publish", "drop"}

(* Concurrent misses of one DID make one request, and a caller that waits  *)
(* for another's request always waits for one that is being made: however  *)
(* leaders are cancelled, no caller is left waiting on a request nobody    *)
(* makes (join, finish and InFlightLeader::drop).                          *)
OneFlight ==
    \A d \in DIDs :
        /\ Cardinality({c \in Clients : Leading(c) /\ caller[c].did = d}) =< 1
        /\ \A f \in Clients : Waiting(f, d) =>
              \E c \in Clients : Leading(c) /\ caller[c].did = d /\ entries[d].leader = c

================================================================================
