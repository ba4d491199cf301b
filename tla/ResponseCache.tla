---------------------------- MODULE ResponseCache ----------------------------
(***************************************************************************)
(* One entry of the response cache: middleware/cache.js over               *)
(* cacheService.js over Redis (external, reached over a client that        *)
(* reconnects; any command may fail).  cacheService catches every error,   *)
(* so that a failing cache is a miss.  A response is represented by the    *)
(* time its route handler read the data.                                   *)
(***************************************************************************)
EXTENDS Integers

CONSTANTS
  Requests,   \* GET requests of the cached route, and requests that clear it
  TTL,        \* seconds given to the cache, in ticks
  Slow,       \* ticks between the read of the data and the store at most
  MaxTime,    \* bound: the clock
  Null

VARIABLES
  entry,      \* [at, expires] under the key of the request, or Null
  request,    \* the requests in progress
  answered,   \* the last answer of each request: the time of its data, or Null
  now

vars == <<entry, request, answered, now>>

\* Redis refuses to set an entry that expires at once.
TimesAssumption == TTL \in Nat \ {0} /\ Slow \in Nat /\ MaxTime \in Nat

Times == 0 .. MaxTime
Idle == [step |-> "idle"]
At(r, step) == request[r].step = step
Goes(r, step, at) == request' = [request EXCEPT ![r] = [step |-> step, at |-> at]]

\* The key is looked up.  A failing get answers as a miss.
Get(r) ==
  /\ request[r] = Idle
  /\ \/ /\ entry # Null
        /\ answered' = [answered EXCEPT ![r] = [at |-> entry.at, age |-> now - entry.at]]
        /\ UNCHANGED request
     \/ Goes(r, "handler", now) /\ UNCHANGED answered
  /\ UNCHANGED <<entry, now>>

\* The route handler reads and calls res.json, whatever status it has set.
Handle(r) ==
  /\ At(r, "handler") /\ Goes(r, "set", now)
  /\ UNCHANGED <<entry, answered, now>>

Stored(at) == [at |-> at, expires |-> now + TTL]

\* The response is stored, or not when Redis fails, and then sent.
Set(r) ==
  /\ At(r, "set")
  /\ entry' \in {entry, Stored(request[r].at)}
  /\ answered' = [answered EXCEPT ![r] = [at |-> request[r].at, age |-> now - request[r].at]]
  /\ request' = [request EXCEPT ![r] = Idle]
  /\ UNCHANGED now

\* clearCache: KEYS, then DEL of the keys that were there, or a failure of either.
Clear(r) ==
  /\ request[r] = Idle
  /\ Goes(r, IF entry = Null THEN "cleared" ELSE "del", now)
  /\ UNCHANGED <<entry, answered, now>>

Delete(r) ==
  \/ At(r, "del") /\ entry' \in {entry, Null} /\ Goes(r, "cleared", now)
       /\ UNCHANGED <<answered, now>>
  \/ At(r, "cleared") /\ request' = [request EXCEPT ![r] = Idle]
       /\ UNCHANGED <<entry, answered, now>>

\* Time; Redis drops an entry that expires.
Tick ==
  /\ now < MaxTime /\ \A r \in Requests : At(r, "set") => now - request[r].at < Slow
  /\ now' = now + 1
  /\ entry' = IF entry # Null /\ entry.expires <= now' THEN Null ELSE entry
  /\ UNCHANGED <<request, answered>>

Init ==
  /\ entry = Null /\ request = [r \in Requests |-> Idle]
  /\ answered = [r \in Requests |-> Null] /\ now = 0

Next == (\E r \in Requests : Get(r) \/ Handle(r) \/ Set(r) \/ Clear(r) \/ Delete(r)) \/ Tick

Spec == Init /\ [][Next]_vars

-----------------------------------------------------------------------------
\* Type invariant.
TypeOK ==
  /\ entry \in [at : Times, expires : 0 .. MaxTime + TTL] \cup {Null}
  /\ \A r \in Requests :
       request[r] = Idle \/ request[r] \in
         [step : {"handler", "set", "del", "cleared"}, at : Times]
  /\ answered \in [Requests -> [at : Times, age : Times] \cup {Null}] /\ now \in Times

\* An answer is never older than the time to live and the slowest store
\* together, however stores, clears and failures of Redis interleave (a store
\* that is late puts back what a clear removed, and no longer than that).
StaleOnlyForTTL ==
  \A r \in Requests : answered[r] # Null => answered[r].age < TTL + Slow
=============================================================================
