----------------------------- MODULE AtomicClaim -----------------------------
(***************************************************************************)
(* LeaseManager and AtomicClaimManager of sochdb-kernel/src/atomic_claim.rs: *)
(* workers claim tasks for a lease, extend and release them with a token.  *)
(*                                                                         *)
(* Each call reads the time before it waits for the lock of the task, so   *)
(* the decision under the lock uses a time that may be in the past.        *)
(* Workers crash, and a release or an extend may be sent again with a      *)
(* token its worker has already given up.                                  *)
(***************************************************************************)
EXTENDS Naturals

CONSTANTS
    Workers,       \* owners; a worker has one call in progress at a time
    Tasks,         \* (queue_id, task_id) pairs
    Leases,        \* the durations clamp() can return
    MaxExtensions, \* config.max_extensions
    NoClaim,       \* no entry in the map, no token: not a claim
    MaxClock,      \* bound on the clock; no lease beyond it is extended
    MaxInstance    \* bound on the instance counter

ASSUME ClaimAssumption ==
    /\ Leases \subseteq Nat \ {0}
    /\ MaxExtensions \in Nat /\ MaxClock \in Nat /\ MaxInstance \in Nat
    /\ NoClaim \notin [owner : Workers, instance : Nat, expires : Nat]

VARIABLES
    clock,            \* current_time_millis
    claims,           \* the entry of each task
    instanceCounter,
    extensionCounts,  \* of LeaseManager, per task
    held,             \* the token each worker relies on, per task
    retired,          \* instances each worker has given up, per task
    call              \* the local variables of each worker's call

vars == <<clock, claims, instanceCounter, extensionCounts, held, retired, call>>

\* An entry, and the token to_token makes of it.
ClaimEntries == [owner : Workers, instance : Nat, expires : Nat]

Labels == {"idle", "sweep", "now", "claim", "get", "release", "extend", "count"}

Locals == [at : Labels, then : Labels, task : Tasks, lease : Nat, now : Nat, instance : Nat]

Init ==
    /\ clock = 0 /\ instanceCounter = 1
    /\ claims = [task \in Tasks |-> NoClaim]
    /\ extensionCounts = [task \in Tasks |-> 0]
    /\ held = [w \in Workers |-> [task \in Tasks |-> NoClaim]]
    /\ retired = [w \in Workers |-> [task \in Tasks |-> {}]]
    /\ call \in [Workers -> [at : {"idle"}, then : {"idle"}, task : Tasks,
                             lease : {0}, now : {0}, instance : {0}]]

In(w, label)      == call[w].at = label
Become(w, locals) == call' = [call EXCEPT ![w] = locals]
Goto(w, label)    == Become(w, [call[w] EXCEPT !.at = label])
Return(w)         == Become(w, [at |-> "idle", then |-> "idle", task |-> call[w].task,
                                lease |-> 0, now |-> 0, instance |-> 0])

\* Mutant: the boundary is a tick too early.
IsExpiredEarly(entry, now) == now + 1 >= entry.expires

IsExpired(entry, now) == now >= entry.expires

\* Mutant: any token of the owner will do.
MatchesOwner(entry, w, instance) == entry # NoClaim /\ entry.owner = w

\* The ownership test of release and extend.
Matches(entry, w, instance) ==
    entry # NoClaim /\ entry.instance = instance /\ entry.owner = w

-----------------------------------------------------------------------------
(* LeaseManager::acquire: maybe_cleanup, then claim.                       *)

\* Whether cleanup_interval_ms has passed is not modelled: either may be.
Acquire(w, task) ==
    /\ In(w, "idle")
    /\ \E lease \in Leases :
          \/ Become(w, [call[w] EXCEPT !.at = "now", !.then = "claim",
                                       !.task = task, !.lease = lease])
          \/ Become(w, [call[w] EXCEPT !.at = "sweep", !.then = "claim",
                                       !.task = task, !.lease = lease, !.now = clock])
    /\ UNCHANGED <<clock, claims, instanceCounter, extensionCounts, held, retired>>

\* LeaseManager::cleanup: the time, then the write lock of the map.
Cleanup(w) ==
    /\ In(w, "idle")
    /\ Become(w, [call[w] EXCEPT !.at = "sweep", !.now = clock])
    /\ UNCHANGED <<clock, claims, instanceCounter, extensionCounts, held, retired>>

CleanupExpired(w) ==
    /\ In(w, "sweep")
    /\ claims' = [task \in Tasks |->
                    IF claims[task] # NoClaim /\ IsExpired(claims[task], call[w].now)
                    THEN NoClaim ELSE claims[task]]
    /\ IF call[w].then = "claim" THEN Goto(w, "now") ELSE Return(w)
    /\ UNCHANGED <<clock, instanceCounter, extensionCounts, held, retired>>

\* let now = current_time_millis()
ReadNow(w) ==
    /\ In(w, "now")
    /\ Become(w, [call[w] EXCEPT !.at = call[w].then, !.now = clock])
    /\ UNCHANGED <<clock, claims, instanceCounter, extensionCounts, held, retired>>

\* claim under the task's lock: no claim, one's own claim (whatever its
\* lease), or an expired claim of another worker.
ClaimGranted(w) ==
    LET task == call[w].task
        entry == [owner |-> w, instance |-> instanceCounter,
                  expires |-> call[w].now + call[w].lease]
    IN  /\ In(w, "claim") /\ instanceCounter < MaxInstance
        /\ \/ claims[task] = NoClaim
           \/ claims[task] # NoClaim /\ claims[task].owner = w
           \/ claims[task] # NoClaim /\ IsExpired(claims[task], call[w].now)
        /\ instanceCounter' = instanceCounter + 1
        /\ claims' = [claims EXCEPT ![task] = entry]
        /\ held' = [held EXCEPT ![w][task] = entry]
        /\ Return(w)
        /\ UNCHANGED <<clock, extensionCounts, retired>>

AlreadyClaimed(w) ==
    LET entry == claims[call[w].task]
    IN  /\ In(w, "claim")
        /\ entry # NoClaim /\ entry.owner # w /\ ~IsExpired(entry, call[w].now)
        /\ Return(w)
        /\ UNCHANGED <<clock, claims, instanceCounter, extensionCounts, held, retired>>

\* get_token: how a worker that restarted finds the claim it had.
GetToken(w, task) ==
    /\ In(w, "idle")
    /\ Become(w, [call[w] EXCEPT !.at = "now", !.then = "get", !.task = task])
    /\ UNCHANGED <<clock, claims, instanceCounter, extensionCounts, held, retired>>

GetTokenRead(w) ==
    LET task == call[w].task
        entry == claims[task]
    IN  /\ In(w, "get")
        /\ held' = IF entry # NoClaim /\ entry.owner = w /\ ~IsExpired(entry, call[w].now)
                   THEN [held EXCEPT ![w][task] = entry] ELSE held
        /\ Return(w)
        /\ UNCHANGED <<clock, claims, instanceCounter, extensionCounts, retired>>

-----------------------------------------------------------------------------
(* LeaseManager::release and extend.  The instance comes from the token in *)
(* hand, or from one given up earlier: the call is a retry.                *)

MayUse(w, task, instance) ==
    \/ held[w][task] # NoClaim /\ held[w][task].instance = instance
    \/ instance \in retired[w][task]

GivesUp(w, task, instance) ==
    held' = IF held[w][task] # NoClaim /\ held[w][task].instance = instance
            THEN [held EXCEPT ![w][task] = NoClaim] ELSE held

\* The extension count is cleared before the token is looked at.
Release(w, task, instance) ==
    /\ In(w, "idle") /\ MayUse(w, task, instance)
    /\ extensionCounts' = [extensionCounts EXCEPT ![task] = 0]
    /\ GivesUp(w, task, instance)
    /\ retired' = [retired EXCEPT ![w][task] = @ \cup {instance}]
    /\ Become(w, [call[w] EXCEPT !.at = "release", !.task = task, !.instance = instance])
    /\ UNCHANGED <<clock, claims, instanceCounter>>

ReleaseClaim(w) ==
    LET task == call[w].task
    IN  /\ In(w, "release")
        /\ claims' = IF Matches(claims[task], w, call[w].instance)
                     THEN [claims EXCEPT ![task] = NoClaim] ELSE claims
        /\ Return(w)
        /\ UNCHANGED <<clock, instanceCounter, extensionCounts, held, retired>>

\* The extension limit is checked and counted in two critical sections, and
\* the lease is extended between them.
Extend(w, task, instance) ==
    /\ In(w, "idle") /\ MayUse(w, task, instance)
    /\ extensionCounts[task] < MaxExtensions
    /\ \E additional \in Leases :
           Become(w, [call[w] EXCEPT !.at = "extend", !.task = task,
                                     !.instance = instance, !.lease = additional])
    /\ UNCHANGED <<clock, claims, instanceCounter, extensionCounts, held, retired>>

\* An expired lease nobody has taken over is extended as well, from when it
\* expired.
ExtendClaim(w) ==
    LET task == call[w].task
        entry == [claims[task] EXCEPT !.expires = @ + call[w].lease]
    IN  /\ In(w, "extend") /\ Matches(claims[task], w, call[w].instance)
        /\ claims[task].expires <= MaxClock
        /\ claims' = [claims EXCEPT ![task] = entry]
        /\ held' = IF held[w][task] # NoClaim THEN [held EXCEPT ![w][task] = entry] ELSE held
        /\ Goto(w, "count")
        /\ UNCHANGED <<clock, instanceCounter, extensionCounts, retired>>

\* "Stale claim token", "Not claim owner" or "Claim not found": the worker
\* stops relying on the token.
ExtendRefused(w) ==
    /\ In(w, "extend") /\ ~Matches(claims[call[w].task], w, call[w].instance)
    /\ GivesUp(w, call[w].task, call[w].instance)
    /\ Return(w)
    /\ UNCHANGED <<clock, claims, instanceCounter, extensionCounts, retired>>

CountExtension(w) ==
    /\ In(w, "count")
    /\ extensionCounts' = [extensionCounts EXCEPT ![call[w].task] = @ + 1]
    /\ Return(w)
    /\ UNCHANGED <<clock, claims, instanceCounter, held, retired>>

-----------------------------------------------------------------------------
\* The worker loses its tokens and abandons its call.  The claims stay.
WorkerCrash(w) ==
    /\ held' = [held EXCEPT ![w] = [task \in Tasks |-> NoClaim]]
    /\ Return(w)
    /\ UNCHANGED <<clock, claims, instanceCounter, extensionCounts, retired>>

Tick ==
    /\ clock < MaxClock /\ clock' = clock + 1
    /\ UNCHANGED <<claims, instanceCounter, extensionCounts, held, retired, call>>

WorkerStep(w) ==
    \/ Cleanup(w) \/ CleanupExpired(w) \/ ReadNow(w)
    \/ ClaimGranted(w) \/ AlreadyClaimed(w) \/ GetTokenRead(w)
    \/ ReleaseClaim(w) \/ ExtendClaim(w) \/ ExtendRefused(w) \/ CountExtension(w)
    \/ WorkerCrash(w)
    \/ \E task \in Tasks :
          \/ Acquire(w, task) \/ GetToken(w, task)
          \/ \E instance \in 1..instanceCounter :
                Release(w, task, instance) \/ Extend(w, task, instance)

Next == (\E w \in Workers : WorkerStep(w)) \/ Tick

Spec == Init /\ [][Next]_vars

-----------------------------------------------------------------------------
(* Properties                                                              *)

TypeOK ==
    /\ clock \in Nat /\ instanceCounter \in Nat
    /\ claims \in [Tasks -> ClaimEntries \cup {NoClaim}]
    /\ extensionCounts \in [Tasks -> Nat]
    /\ held \in [Workers -> [Tasks -> ClaimEntries \cup {NoClaim}]]
    /\ retired \in [Workers -> [Tasks -> SUBSET Nat]]
    /\ call \in [Workers -> Locals]

\* is_valid, as the worker that holds the token judges it.
HoldsValid(w, task) == held[w][task] # NoClaim /\ clock < held[w][task].expires

\* No two workers hold tokens for the same task that both consider valid,
\* although claims, takeovers and cleanups decide with times read earlier and
\* releases and extensions are repeated late.
ExclusiveLease ==
    \A task \in Tasks : \A v, w \in Workers :
        HoldsValid(v, task) /\ HoldsValid(w, task) => v = w

\* The token w holds is that of the claim in the map, or an earlier lease of it.
Backed(w, task) ==
    /\ claims[task] # NoClaim /\ claims[task].owner = w
    /\ claims[task].instance = held[w][task].instance
    /\ held[w][task].expires <= claims[task].expires

\* Why leases are exclusive: a token its holder considers valid is that of the
\* claim in the map, a call never works with a time in the future, and a
\* worker that is about to release a claim has given up its token before.
ClaimInv ==
    /\ \A w \in Workers : \A task \in Tasks : HoldsValid(w, task) => Backed(w, task)
    /\ \A w \in Workers :
          /\ call[w].now <= clock
          /\ call[w].then \in {"idle", "claim", "get"}
          /\ In(w, "release") /\ held[w][call[w].task] # NoClaim =>
                held[w][call[w].task].instance # call[w].instance

\* The step is the release of the task by w with the token of that claim, or
\* w claiming the task again.
OwnerEnds(w, task, instance) ==
    /\ call[w].task = task
    /\ \/ In(w, "release") /\ call[w].instance = instance
       \/ In(w, "claim")

\* An unexpired claim ends only by a call of its owner, and only by a release
\* that presents this very claim's token: a late release of an earlier claim
\* never ends a later one, the owner's own included.
LeaseEndsOnlyByOwner ==
    [][\A task \in Tasks :
          LET old == claims[task] new == claims'[task]
          IN  /\ old # NoClaim /\ clock < old.expires
              /\ new = NoClaim \/ new.instance # old.instance
              => OwnerEnds(old.owner, task, old.instance)]_vars
=============================================================================
