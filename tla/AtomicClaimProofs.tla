-------------------------- MODULE AtomicClaimProofs --------------------------
(***************************************************************************)
(* Leases of AtomicClaim are exclusive, for any workers, tasks, lease      *)
(* durations and clock.  The invariant is ClaimInv; one lemma per action   *)
(* that can disturb it.                                                    *)
(***************************************************************************)
EXTENDS AtomicClaim, TLAPS

\* The calls that only change their own local variables: the shared state the
\* invariant relates stays.
Quiet == UNCHANGED <<clock, claims, held>>

IInv == TypeOK /\ ClaimInv

LEMMA EntryIsClaim == \A e \in ClaimEntries : e # NoClaim
  BY ClaimAssumption DEF ClaimEntries

LEMMA LabelsAreLabels == {"idle", "claim", "get"} \subseteq Labels
  BY DEF Labels

\* The initial state.
LEMMA InitInv == Init => IInv
  <1>1. Init => TypeOK
    BY DEF Init, TypeOK, Locals, Labels
  <1>2. Init => ClaimInv
    BY DEF Init, ClaimInv, HoldsValid, In
  <1> QED BY <1>1, <1>2 DEF IInv

\* A call keeps its local variables typed.
LEMMA BecomeType ==
    ASSUME TypeOK, NEW w \in Workers, NEW locals \in Locals, Become(w, locals)
    PROVE  call' \in [Workers -> Locals]
  BY DEF TypeOK, Become

LEMMA ReturnType == ASSUME TypeOK, NEW w \in Workers, Return(w) PROVE call' \in [Workers -> Locals]
  <1>1. [at |-> "idle", then |-> "idle", task |-> call[w].task, lease |-> 0, now |-> 0,
         instance |-> 0] \in Locals
    BY DEF TypeOK, Locals, Labels
  <1> QED BY <1>1, BecomeType DEF Return

LEMMA GotoType ==
    ASSUME TypeOK, NEW w \in Workers, NEW label \in Labels, Goto(w, label)
    PROVE  call' \in [Workers -> Locals]
  <1>1. [call[w] EXCEPT !.at = label] \in Locals
    BY DEF TypeOK, Locals
  <1> QED BY <1>1, BecomeType DEF Goto

\* Types.
LEMMA TypeStep == TypeOK /\ [Next]_vars => TypeOK'
  <1> SUFFICES ASSUME TypeOK, [Next]_vars PROVE TypeOK'
    OBVIOUS
  <1> USE ClaimAssumption, EntryIsClaim
  <1>0. /\ {"idle", "sweep", "now", "claim", "get", "release", "extend", "count"} = Labels
        /\ \A w \in Workers : call[w] \in Locals
    BY DEF Labels, TypeOK
  <1>1. ASSUME NEW w \in Workers, NEW task \in Tasks, Acquire(w, task) PROVE TypeOK'
    <2> PICK lease \in Leases :
          \/ Become(w, [call[w] EXCEPT !.at = "now", !.then = "claim",
                                       !.task = task, !.lease = lease])
          \/ Become(w, [call[w] EXCEPT !.at = "sweep", !.then = "claim",
                                       !.task = task, !.lease = lease, !.now = clock])
      BY <1>1 DEF Acquire
    <2>1. /\ [call[w] EXCEPT !.at = "now", !.then = "claim",
                             !.task = task, !.lease = lease] \in Locals
          /\ [call[w] EXCEPT !.at = "sweep", !.then = "claim",
                             !.task = task, !.lease = lease, !.now = clock] \in Locals
      BY <1>0 DEF TypeOK, Locals
    <2>2. call' \in [Workers -> Locals]
      BY <2>1, BecomeType
    <2> QED BY <1>1, <2>2 DEF TypeOK, Acquire
  <1>2. ASSUME NEW w \in Workers, Cleanup(w) PROVE TypeOK'
    <2>1. [call[w] EXCEPT !.at = "sweep", !.now = clock] \in Locals
      BY <1>0 DEF TypeOK, Locals
    <2>2. call' \in [Workers -> Locals]
      BY <1>2, <2>1, BecomeType DEF Cleanup
    <2> QED BY <1>2, <2>2 DEF TypeOK, Cleanup
  <1>3. ASSUME NEW w \in Workers, CleanupExpired(w) PROVE TypeOK'
    <2>1. call' \in [Workers -> Locals]
      BY <1>0, <1>3, GotoType, ReturnType DEF CleanupExpired
    <2> QED BY <1>3, <2>1 DEF TypeOK, CleanupExpired
  <1>4. ASSUME NEW w \in Workers, ReadNow(w) PROVE TypeOK'
    <2>1. [call[w] EXCEPT !.at = call[w].then, !.now = clock] \in Locals
      BY <1>0 DEF TypeOK, Locals
    <2>2. call' \in [Workers -> Locals]
      BY <1>4, <2>1, BecomeType DEF ReadNow
    <2> QED BY <1>4, <2>2 DEF TypeOK, ReadNow
  <1>5. ASSUME NEW w \in Workers, ClaimGranted(w) PROVE TypeOK'
    <2> DEFINE entry == [owner |-> w, instance |-> instanceCounter,
                         expires |-> call[w].now + call[w].lease]
    <2>1. entry \in ClaimEntries /\ call[w].task \in Tasks
      BY <1>0 DEF TypeOK, Locals, ClaimEntries
    <2>2. call' \in [Workers -> Locals]
      BY <1>5, ReturnType DEF ClaimGranted
    <2> HIDE DEF entry
    <2>3. /\ claims' = [claims EXCEPT ![call[w].task] = entry]
          /\ held' = [held EXCEPT ![w][call[w].task] = entry]
          /\ instanceCounter' = instanceCounter + 1
          /\ UNCHANGED <<clock, extensionCounts, retired>>
      BY <1>5 DEF ClaimGranted, entry
    <2> QED BY <2>1, <2>2, <2>3 DEF TypeOK
  <1>6. ASSUME NEW w \in Workers, AlreadyClaimed(w) PROVE TypeOK'
    BY <1>6, ReturnType DEF TypeOK, AlreadyClaimed
  <1>7. ASSUME NEW w \in Workers, NEW task \in Tasks, GetToken(w, task) PROVE TypeOK'
    <2>1. [call[w] EXCEPT !.at = "now", !.then = "get", !.task = task] \in Locals
      BY <1>0 DEF TypeOK, Locals
    <2>2. call' \in [Workers -> Locals]
      BY <1>7, <2>1, BecomeType DEF GetToken
    <2> QED BY <1>7, <2>2 DEF TypeOK, GetToken
  <1>8. ASSUME NEW w \in Workers, GetTokenRead(w) PROVE TypeOK'
    <2>1. call[w].task \in Tasks
      BY <1>0 DEF Locals
    <2> QED BY <1>8, <2>1, ReturnType DEF TypeOK, GetTokenRead
  <1>9. ASSUME NEW w \in Workers, NEW task \in Tasks, NEW instance \in 1..instanceCounter,
               Release(w, task, instance) PROVE TypeOK'
    <2>1. instance \in Nat /\ instance \in 1..instanceCounter
      BY DEF TypeOK
    <2>2. [call[w] EXCEPT !.at = "release", !.task = task, !.instance = instance] \in Locals
      BY <1>0, <2>1 DEF TypeOK, Locals
    <2>3. call' \in [Workers -> Locals]
      BY <1>9, <2>2, BecomeType DEF Release
    <2> DEFINE given == retired[w][task] \cup {instance}
    <2>5. given \in SUBSET Nat
      BY <2>1 DEF TypeOK
    <2>6. retired' = [retired EXCEPT ![w][task] = given]
      BY <1>9 DEF Release, TypeOK
    <2> HIDE DEF given
    <2>4. retired' \in [Workers -> [Tasks -> SUBSET Nat]]
      BY <2>5, <2>6 DEF TypeOK
    <2> QED BY <1>9, <2>3, <2>4 DEF TypeOK, Release, GivesUp
  <1>10. ASSUME NEW w \in Workers, ReleaseClaim(w) PROVE TypeOK'
    <2>1. call[w].task \in Tasks
      BY <1>0 DEF Locals
    <2> QED BY <1>10, <2>1, ReturnType DEF TypeOK, ReleaseClaim
  <1>11. ASSUME NEW w \in Workers, NEW task \in Tasks, NEW instance \in 1..instanceCounter,
                Extend(w, task, instance) PROVE TypeOK'
    <2> PICK additional \in Leases :
          Become(w, [call[w] EXCEPT !.at = "extend", !.task = task,
                                    !.instance = instance, !.lease = additional])
      BY <1>11 DEF Extend
    <2>0. instance \in Nat /\ additional \in Nat
      BY DEF TypeOK
    <2>1. [call[w] EXCEPT !.at = "extend", !.task = task,
                          !.instance = instance, !.lease = additional] \in Locals
      BY <1>0, <2>0 DEF Locals
    <2>2. call' \in [Workers -> Locals]
      BY <2>1, BecomeType
    <2> QED BY <1>11, <2>2 DEF TypeOK, Extend
  <1>12. ASSUME NEW w \in Workers, ExtendClaim(w) PROVE TypeOK'
    <2> DEFINE task == call[w].task
               entry == [claims[task] EXCEPT !.expires = @ + call[w].lease]
    <2>1. call[w].task \in Tasks /\ call[w].lease \in Nat
      BY <1>0 DEF Locals
    <2>2. claims[task] \in ClaimEntries
      BY <1>12, <2>1 DEF ExtendClaim, Matches, TypeOK
    <2>3. entry \in ClaimEntries
      BY <2>1, <2>2 DEF ClaimEntries
    <2>4. call' \in [Workers -> Locals]
      BY <1>0, <1>12, GotoType DEF ExtendClaim
    <2> HIDE DEF entry
    <2>5. /\ claims' = [claims EXCEPT ![task] = entry]
          /\ held' = IF held[w][task] # NoClaim THEN [held EXCEPT ![w][task] = entry] ELSE held
          /\ UNCHANGED <<clock, instanceCounter, extensionCounts, retired>>
      BY <1>12 DEF ExtendClaim, entry
    <2> QED BY <2>1, <2>3, <2>4, <2>5 DEF TypeOK
  <1>13. ASSUME NEW w \in Workers, ExtendRefused(w) PROVE TypeOK'
    <2>1. call[w].task \in Tasks
      BY <1>0 DEF Locals
    <2> QED BY <1>13, <2>1, ReturnType DEF TypeOK, ExtendRefused, GivesUp
  <1>14. ASSUME NEW w \in Workers, CountExtension(w) PROVE TypeOK'
    <2>1. call[w].task \in Tasks
      BY <1>0 DEF Locals
    <2> QED BY <1>14, <2>1, ReturnType DEF TypeOK, CountExtension
  <1>15. ASSUME NEW w \in Workers, WorkerCrash(w) PROVE TypeOK'
    BY <1>15, ReturnType DEF TypeOK, WorkerCrash
  <1>16. CASE Tick
    BY <1>16 DEF TypeOK, Tick
  <1>17. CASE UNCHANGED vars
    BY <1>17 DEF TypeOK, vars
  <1> QED
    BY <1>1, <1>2, <1>3, <1>4, <1>5, <1>6, <1>7, <1>8, <1>9, <1>10, <1>11, <1>12, <1>13,
       <1>14, <1>15, <1>16, <1>17 DEF Next, WorkerStep

-----------------------------------------------------------------------------
(* ClaimInv                                                                *)

\* The local part: what a step makes of the call of w itself.
CallSound(u) ==
    /\ call[u].now <= clock
    /\ call[u].then \in {"idle", "claim", "get"}
    /\ In(u, "release") /\ held[u][call[u].task] # NoClaim =>
          held[u][call[u].task].instance # call[u].instance

LEMMA ReturnSound ==
    ASSUME TypeOK, NEW w \in Workers, Return(w), clock' \in Nat
    PROVE  /\ CallSound(w)'
           /\ \A u \in Workers \ {w} : call'[u] = call[u]
  BY DEF TypeOK, Return, Become, CallSound, In

\* A step that leaves the claims and the tokens alone.
LEMMA QuietStep ==
    ASSUME IInv, Quiet, NEW w \in Workers, CallSound(w)',
           \A u \in Workers \ {w} : call'[u] = call[u]
    PROVE  ClaimInv'
  <1>1. \A u \in Workers : \A task \in Tasks : HoldsValid(u, task)' => Backed(u, task)'
    BY DEF IInv, ClaimInv, Quiet, HoldsValid, Backed
  <1>2. \A u \in Workers \ {w} : CallSound(u)'
    BY DEF IInv, ClaimInv, Quiet, CallSound, In
  <1> QED
    BY <1>1, <1>2 DEF ClaimInv, CallSound

\* Calls that only set local variables.
LEMMA LocalSteps ==
    ASSUME IInv, NEW w \in Workers,
           \/ Cleanup(w) \/ ReadNow(w) \/ AlreadyClaimed(w) \/ CountExtension(w)
           \/ \E task \in Tasks : Acquire(w, task) \/ GetToken(w, task)
           \/ \E task \in Tasks : \E instance \in 1..instanceCounter : Extend(w, task, instance)
    PROVE  ClaimInv'
  <1> USE DEF IInv
  <1>0. call[w] \in Locals /\ call \in [Workers -> Locals] /\ clock \in Nat /\ CallSound(w)
    BY DEF TypeOK, ClaimInv, CallSound
  <1>1. CASE Cleanup(w)
    <2>1. Quiet /\ CallSound(w)' /\ \A u \in Workers \ {w} : call'[u] = call[u]
      BY <1>0, <1>1 DEF Cleanup, Become, CallSound, In, Quiet, Locals
    <2> QED BY <2>1, QuietStep
  <1>2. CASE ReadNow(w)
    <2>1. Quiet /\ CallSound(w)' /\ \A u \in Workers \ {w} : call'[u] = call[u]
      BY <1>0, <1>2 DEF ReadNow, Become, CallSound, In, Quiet, Locals
    <2> QED BY <2>1, QuietStep
  <1>3. CASE AlreadyClaimed(w) \/ CountExtension(w)
    BY <1>0, <1>3, ReturnSound, QuietStep DEF AlreadyClaimed, CountExtension, Quiet
  <1>4. ASSUME NEW task \in Tasks, Acquire(w, task) PROVE ClaimInv'
    <2> PICK lease \in Leases :
          \/ Become(w, [call[w] EXCEPT !.at = "now", !.then = "claim",
                                       !.task = task, !.lease = lease])
          \/ Become(w, [call[w] EXCEPT !.at = "sweep", !.then = "claim",
                                       !.task = task, !.lease = lease, !.now = clock])
      BY <1>4 DEF Acquire
    <2>0. Quiet /\ clock' = clock
      BY <1>4 DEF Acquire, Quiet
    <2>1. Quiet /\ CallSound(w)' /\ \A u \in Workers \ {w} : call'[u] = call[u]
      <3>1. CASE Become(w, [call[w] EXCEPT !.at = "now", !.then = "claim",
                                           !.task = task, !.lease = lease])
        BY <1>0, <2>0, <3>1 DEF Become, CallSound, In, Locals
      <3>2. CASE Become(w, [call[w] EXCEPT !.at = "sweep", !.then = "claim",
                                           !.task = task, !.lease = lease, !.now = clock])
        BY <1>0, <2>0, <3>2 DEF Become, CallSound, In, Locals
      <3> QED BY <3>1, <3>2
    <2> QED BY <2>1, QuietStep
  <1>5. ASSUME NEW task \in Tasks, GetToken(w, task) PROVE ClaimInv'
    <2>1. Quiet /\ CallSound(w)' /\ \A u \in Workers \ {w} : call'[u] = call[u]
      BY <1>0, <1>5 DEF GetToken, Become, CallSound, In, Quiet, Locals
    <2> QED BY <2>1, QuietStep
  <1>6. ASSUME NEW task \in Tasks, NEW instance \in 1..instanceCounter, Extend(w, task, instance)
        PROVE ClaimInv'
    <2> PICK additional \in Leases :
          Become(w, [call[w] EXCEPT !.at = "extend", !.task = task,
                                    !.instance = instance, !.lease = additional])
      BY <1>6 DEF Extend
    <2>1. Quiet /\ CallSound(w)' /\ \A u \in Workers \ {w} : call'[u] = call[u]
      BY <1>0, <1>6 DEF Extend, Become, CallSound, In, Quiet, Locals
    <2> QED BY <2>1, QuietStep
  <1> QED BY <1>1, <1>2, <1>3, <1>4, <1>5, <1>6

\* What is valid of a step that changes claims or tokens of one task only.
LEMMA SweepStep == ASSUME IInv, NEW w \in Workers, CleanupExpired(w) PROVE ClaimInv'
  <1> USE DEF IInv
  <1>0. /\ call[w] \in Locals /\ call \in [Workers -> Locals] /\ clock \in Nat /\ clock' = clock
        /\ call[w].now <= clock /\ call[w].now \in Nat /\ held' = held
    BY DEF TypeOK, ClaimInv, Locals, CleanupExpired
  <1>1. CallSound(w)' /\ \A u \in Workers \ {w} : call'[u] = call[u]
    <2>1. CASE Return(w)
      BY <1>0, <2>1, ReturnSound
    <2>2. CASE Goto(w, "now")
      BY <1>0, <2>2 DEF Goto, Become, CallSound, In, Locals, ClaimInv
    <2> QED BY <2>1, <2>2 DEF CleanupExpired
  <1>2. ASSUME NEW u \in Workers, NEW task \in Tasks, HoldsValid(u, task)' PROVE Backed(u, task)'
    <2>1. HoldsValid(u, task) /\ Backed(u, task)
      BY <1>0, <1>2 DEF HoldsValid, ClaimInv
    <2>2. held[u][task] \in ClaimEntries /\ claims[task] \in ClaimEntries
      BY <2>1 DEF HoldsValid, Backed, TypeOK
    <2>3. ~IsExpired(claims[task], call[w].now)
      BY <1>0, <2>1, <2>2 DEF IsExpired, Backed, HoldsValid, ClaimEntries
    <2>4. claims'[task] = claims[task]
      BY <2>3 DEF CleanupExpired
    <2> QED BY <1>0, <2>1, <2>4 DEF Backed
  <1>3. \A u \in Workers \ {w} : CallSound(u)'
    BY <1>0, <1>1 DEF ClaimInv, CallSound, In
  <1> QED
    BY <1>1, <1>2, <1>3 DEF ClaimInv, CallSound

\* A claim is granted: no other worker holds a valid token for the task.
LEMMA ClaimStep == ASSUME IInv, NEW w \in Workers, ClaimGranted(w) PROVE ClaimInv'
  <1> USE DEF IInv
  <1> DEFINE mine == call[w].task
             entry == [owner |-> w, instance |-> instanceCounter,
                       expires |-> call[w].now + call[w].lease]
  <1>0. /\ mine \in Tasks /\ clock \in Nat /\ clock' = clock
        /\ call[w].now <= clock /\ call[w].now \in Nat /\ call[w].lease \in Nat
    BY DEF TypeOK, ClaimInv, Locals, ClaimGranted
  <1>1. entry \in ClaimEntries /\ entry # NoClaim /\ entry.owner = w /\ entry.expires \in Nat
    BY <1>0, EntryIsClaim DEF ClaimEntries, TypeOK
  <1>2. CallSound(w)' /\ \A u \in Workers \ {w} : call'[u] = call[u]
    BY <1>0, ReturnSound DEF ClaimGranted
  <1> HIDE DEF entry
  <1>3. /\ claims' = [claims EXCEPT ![mine] = entry]
        /\ held' = [held EXCEPT ![w][mine] = entry]
        /\ \/ claims[mine] = NoClaim
           \/ claims[mine] # NoClaim /\ claims[mine].owner = w
           \/ claims[mine] # NoClaim /\ IsExpired(claims[mine], call[w].now)
    BY DEF ClaimGranted, entry
  <1>4. ASSUME NEW u \in Workers, NEW task \in Tasks, HoldsValid(u, task)' PROVE Backed(u, task)'
    <2>1. CASE u = w /\ task = mine
      BY <1>0, <1>1, <1>3, <2>1 DEF Backed, TypeOK
    <2>2. CASE ~(u = w /\ task = mine)
      <3>1. held'[u][task] = held[u][task]
        BY <1>3, <2>2 DEF TypeOK
      <3>2. HoldsValid(u, task) /\ Backed(u, task)
        BY <1>0, <1>4, <3>1 DEF HoldsValid, ClaimInv
      <3>3. held[u][task] \in ClaimEntries /\ claims[task] \in ClaimEntries
        BY <3>2 DEF HoldsValid, Backed, TypeOK
      <3>4. task # mine
        BY <1>0, <1>3, <2>2, <3>2, <3>3 DEF IsExpired, Backed, HoldsValid, ClaimEntries
      <3>5. claims'[task] = claims[task]
        BY <1>3, <3>4 DEF TypeOK
      <3> QED BY <3>1, <3>2, <3>5 DEF Backed
    <2> QED BY <2>1, <2>2
  <1>5. \A u \in Workers \ {w} : held'[u] = held[u]
    BY <1>3 DEF TypeOK
  <1>6. \A u \in Workers \ {w} : CallSound(u)'
    BY <1>0, <1>2, <1>5 DEF ClaimInv, CallSound, In
  <1> QED
    BY <1>2, <1>4, <1>6 DEF ClaimInv, CallSound

LEMMA GetTokenStep == ASSUME IInv, NEW w \in Workers, GetTokenRead(w) PROVE ClaimInv'
  <1> USE DEF IInv
  <1> DEFINE mine == call[w].task
  <1>0. /\ mine \in Tasks /\ clock \in Nat /\ clock' = clock /\ claims' = claims
        /\ claims[mine] \in ClaimEntries \cup {NoClaim}
    BY DEF TypeOK, Locals, GetTokenRead
  <1>1. CallSound(w)' /\ \A u \in Workers \ {w} : call'[u] = call[u]
    BY <1>0, ReturnSound DEF GetTokenRead
  <1>2. \/ held' = held
        \/ /\ claims[mine] # NoClaim /\ claims[mine].owner = w
           /\ held' = [held EXCEPT ![w][mine] = claims[mine]]
    BY DEF GetTokenRead
  <1>3. ASSUME NEW u \in Workers, NEW task \in Tasks, HoldsValid(u, task)' PROVE Backed(u, task)'
    <2>1. CASE held'[u][task] = held[u][task]
      BY <1>0, <1>3, <2>1 DEF HoldsValid, Backed, ClaimInv
    <2>2. CASE held'[u][task] # held[u][task]
      <3>1. u = w /\ task = mine /\ claims[mine] \in ClaimEntries /\ held'[u][task] = claims[mine]
            /\ claims[mine] # NoClaim /\ claims[mine].owner = w
        BY <1>0, <1>2, <2>2 DEF TypeOK
      <3> QED BY <1>0, <3>1 DEF Backed, ClaimEntries
    <2> QED BY <2>1, <2>2
  <1>4. \A u \in Workers \ {w} : held'[u] = held[u]
    BY <1>2 DEF TypeOK
  <1>5. \A u \in Workers \ {w} : CallSound(u)'
    BY <1>0, <1>1, <1>4 DEF ClaimInv, CallSound, In
  <1> QED
    BY <1>1, <1>3, <1>5 DEF ClaimInv, CallSound

\* A step after which every token is one that was held before, or none.
Fewer == \A u \in Workers : \A task \in Tasks :
            held'[u][task] = held[u][task] \/ held'[u][task] = NoClaim

LEMMA FewerTokens ==
    ASSUME IInv, clock' = clock, claims' = claims, Fewer,
           NEW u \in Workers, NEW task \in Tasks, HoldsValid(u, task)'
    PROVE  Backed(u, task)'
  BY DEF IInv, ClaimInv, Fewer, HoldsValid, Backed

\* release gives the token up before it asks for the task's lock, ...
LEMMA ReleaseStep ==
    ASSUME IInv, NEW w \in Workers, NEW task \in Tasks, NEW instance \in 1..instanceCounter,
           Release(w, task, instance)
    PROVE  ClaimInv'
  <1> USE DEF IInv
  <1>0. /\ call[w] \in Locals /\ call \in [Workers -> Locals] /\ clock' = clock
        /\ claims' = claims /\ CallSound(w)
    BY DEF TypeOK, Release, ClaimInv, CallSound
  <1>1. Fewer /\ \A u \in Workers \ {w} : held'[u] = held[u]
    BY DEF Release, GivesUp, Fewer, TypeOK
  <1>2. held'[w][task] # NoClaim => held'[w][task].instance # instance
    BY DEF Release, GivesUp, TypeOK
  <1>3. /\ call'[w] = [call[w] EXCEPT !.at = "release", !.task = task, !.instance = instance]
        /\ \A u \in Workers \ {w} : call'[u] = call[u]
    BY <1>0 DEF Release, Become
  <1>4. CallSound(w)'
    BY <1>0, <1>2, <1>3 DEF CallSound, In, Locals
  <1>5. \A u \in Workers : \A other \in Tasks : HoldsValid(u, other)' => Backed(u, other)'
    BY <1>0, <1>1, FewerTokens
  <1>6. \A u \in Workers \ {w} : CallSound(u)'
    BY <1>0, <1>1, <1>3 DEF ClaimInv, CallSound, In
  <1> QED
    BY <1>4, <1>5, <1>6 DEF ClaimInv, CallSound

\* ... so the claim it then removes is none its worker relies on.
LEMMA ReleaseClaimStep == ASSUME IInv, NEW w \in Workers, ReleaseClaim(w) PROVE ClaimInv'
  <1> USE DEF IInv
  <1> DEFINE mine == call[w].task
  <1>0. /\ mine \in Tasks /\ clock \in Nat /\ clock' = clock /\ held' = held /\ In(w, "release")
    BY DEF TypeOK, Locals, ReleaseClaim
  <1>1. CallSound(w)' /\ \A u \in Workers \ {w} : call'[u] = call[u]
    BY <1>0, ReturnSound DEF ReleaseClaim
  <1>2. ASSUME NEW u \in Workers, NEW task \in Tasks, HoldsValid(u, task)' PROVE Backed(u, task)'
    <2>1. HoldsValid(u, task) /\ Backed(u, task)
      BY <1>0, <1>2 DEF HoldsValid, ClaimInv
    <2>2. ~(task = mine /\ Matches(claims[mine], w, call[w].instance))
      BY <1>0, <2>1 DEF Matches, Backed, HoldsValid, ClaimInv
    <2>3. claims'[task] = claims[task]
      BY <1>0, <2>2 DEF ReleaseClaim, TypeOK
    <2> QED BY <1>0, <2>1, <2>3 DEF Backed
  <1>3. \A u \in Workers \ {w} : CallSound(u)'
    BY <1>0, <1>1 DEF ClaimInv, CallSound, In
  <1> QED
    BY <1>1, <1>2, <1>3 DEF ClaimInv, CallSound

LEMMA ExtendStep == ASSUME IInv, NEW w \in Workers, ExtendClaim(w) PROVE ClaimInv'
  <1> USE DEF IInv
  <1> DEFINE mine == call[w].task
             entry == [claims[mine] EXCEPT !.expires = @ + call[w].lease]
  <1>0. /\ mine \in Tasks /\ clock \in Nat /\ clock' = clock /\ call[w].lease \in Nat
        /\ call[w] \in Locals /\ call \in [Workers -> Locals] /\ CallSound(w)
    BY DEF TypeOK, Locals, ExtendClaim, ClaimInv, CallSound
  <1>1. claims[mine] \in ClaimEntries /\ claims[mine].owner = w
    BY <1>0 DEF ExtendClaim, Matches, TypeOK
  <1>2. /\ entry \in ClaimEntries /\ entry # NoClaim /\ entry.owner = w
        /\ entry.expires \in Nat
    BY <1>0, <1>1, EntryIsClaim DEF ClaimEntries
  <1> HIDE DEF entry
  <1>3. /\ claims' = [claims EXCEPT ![mine] = entry]
        /\ held' = IF held[w][mine] # NoClaim THEN [held EXCEPT ![w][mine] = entry] ELSE held
    BY DEF ExtendClaim, entry
  <1>4. CallSound(w)' /\ \A u \in Workers \ {w} : call'[u] = call[u]
    <2>1. call' = [call EXCEPT ![w] = [call[w] EXCEPT !.at = "count"]]
      BY DEF ExtendClaim, Goto, Become
    <2>2. call'[w].at = "count" /\ call'[w].now = call[w].now /\ call'[w].then = call[w].then
      BY <1>0, <2>1 DEF Locals
    <2> QED BY <1>0, <2>1, <2>2 DEF CallSound, In
  <1>5. ASSUME NEW u \in Workers, NEW task \in Tasks, HoldsValid(u, task)' PROVE Backed(u, task)'
    <2>1. CASE u = w /\ task = mine
      <3>1. held[w][mine] # NoClaim
        BY <1>0, <1>3, <1>5, <2>1 DEF HoldsValid
      <3> QED BY <1>0, <1>2, <1>3, <2>1, <3>1 DEF Backed, TypeOK
    <2>2. CASE ~(u = w /\ task = mine)
      <3>1. held'[u][task] = held[u][task]
        BY <1>3, <2>2 DEF TypeOK
      <3>2. HoldsValid(u, task) /\ Backed(u, task)
        BY <1>0, <1>5, <3>1 DEF HoldsValid, ClaimInv
      <3>3. task # mine
        BY <1>1, <2>2, <3>2 DEF Backed
      <3>4. claims'[task] = claims[task]
        BY <1>3, <3>3 DEF TypeOK
      <3> QED BY <3>1, <3>2, <3>4 DEF Backed
    <2> QED BY <2>1, <2>2
  <1>6. \A u \in Workers \ {w} : held'[u] = held[u]
    BY <1>3 DEF TypeOK
  <1>7. \A u \in Workers \ {w} : CallSound(u)'
    BY <1>0, <1>4, <1>6 DEF ClaimInv, CallSound, In
  <1> QED
    BY <1>4, <1>5, <1>7 DEF ClaimInv, CallSound

LEMMA GiveUpStep ==
    ASSUME IInv, NEW w \in Workers, ExtendRefused(w) \/ WorkerCrash(w)
    PROVE  ClaimInv'
  <1> USE DEF IInv
  <1>0. clock \in Nat /\ clock' = clock /\ claims' = claims
    BY DEF TypeOK, ExtendRefused, WorkerCrash
  <1>1. CallSound(w)' /\ \A u \in Workers \ {w} : call'[u] = call[u]
    BY <1>0, ReturnSound DEF ExtendRefused, WorkerCrash
  <1>2. call[w].task \in Tasks
    BY DEF TypeOK, Locals
  <1>3. Fewer /\ \A u \in Workers \ {w} : held'[u] = held[u]
    <2>1. CASE ExtendRefused(w)
      BY <1>2, <2>1 DEF ExtendRefused, GivesUp, Fewer, TypeOK
    <2>2. CASE WorkerCrash(w)
      BY <2>2 DEF WorkerCrash, Fewer, TypeOK
    <2> QED BY <2>1, <2>2
  <1>4. \A u \in Workers \ {w} : CallSound(u)'
    BY <1>0, <1>1, <1>3 DEF ClaimInv, CallSound, In
  <1>5. \A u \in Workers : \A task \in Tasks : HoldsValid(u, task)' => Backed(u, task)'
    BY <1>0, <1>3, FewerTokens
  <1> QED
    BY <1>1, <1>4, <1>5 DEF ClaimInv, CallSound

LEMMA TickStep == ASSUME IInv, Tick PROVE ClaimInv'
  <1> USE DEF IInv
  <1>1. ASSUME NEW u \in Workers, NEW task \in Tasks, HoldsValid(u, task)' PROVE Backed(u, task)'
    <2>1. held[u][task] # NoClaim /\ held[u][task] \in ClaimEntries
      BY <1>1 DEF Tick, HoldsValid, TypeOK
    <2>2. HoldsValid(u, task)
      BY <1>1, <2>1 DEF Tick, HoldsValid, TypeOK, ClaimEntries
    <2> QED BY <2>2 DEF ClaimInv, Backed, Tick
  <1>2. \A u \in Workers : call[u].now \in Nat
    BY DEF TypeOK, Locals
  <1> QED
    BY <1>1, <1>2 DEF ClaimInv, Tick, In, TypeOK

LEMMA Inductive == IInv /\ [Next]_vars => IInv'
  <1> SUFFICES ASSUME IInv, [Next]_vars PROVE ClaimInv'
    BY TypeStep DEF IInv
  <1>1. ASSUME NEW w \in Workers, WorkerStep(w) PROVE ClaimInv'
    BY <1>1, LocalSteps, SweepStep, ClaimStep, GetTokenStep, ReleaseStep, ReleaseClaimStep,
       ExtendStep, GiveUpStep DEF WorkerStep
  <1>2. CASE Tick
    BY <1>2, TickStep
  <1>3. CASE UNCHANGED vars
    BY <1>3 DEF vars, IInv, ClaimInv, HoldsValid, Backed, In
  <1> QED BY <1>1, <1>2, <1>3 DEF Next

-----------------------------------------------------------------------------
\* The reason for exclusive leases is an invariant of atomic_claim.rs as
\* modelled: valid tokens are backed by the map, times are never in the future.
THEOREM ClaimInvariant == Spec => []ClaimInv
  <1>1. IInv => ClaimInv
    BY DEF IInv
  <1> QED BY InitInv, Inductive, <1>1, PTL DEF Spec

\* No two workers ever hold tokens of one task that both consider valid, for
\* any number of workers, tasks, restarts and repeated calls.
THEOREM LeasesExclusive == Spec => []ExclusiveLease
  <1>1. IInv => ExclusiveLease
    BY DEF IInv, ClaimInv, ExclusiveLease, Backed
  <1> QED BY InitInv, Inductive, <1>1, PTL DEF Spec

\* The lease part of the step: the claim of a task ends or is replaced.
EndsByOwner ==
    \A task \in Tasks :
        LET old == claims[task] new == claims'[task]
        IN  /\ old # NoClaim /\ clock < old.expires
            /\ new = NoClaim \/ new.instance # old.instance
            => OwnerEnds(old.owner, task, old.instance)

LEMMA EndsByOwnerStep == IInv /\ [Next]_vars => EndsByOwner
  <1> SUFFICES ASSUME IInv, [Next]_vars, NEW task \in Tasks,
                      claims[task] # NoClaim, clock < claims[task].expires,
                      claims'[task] = NoClaim \/ claims'[task].instance # claims[task].instance
               PROVE  OwnerEnds(claims[task].owner, task, claims[task].instance)
    BY DEF EndsByOwner
  <1> USE DEF IInv
  <1>0. /\ claims[task] \in ClaimEntries /\ clock \in Nat /\ claims[task].expires \in Nat
        /\ \A w \in Workers : /\ call[w].now \in Nat /\ call[w].now <= clock
                              /\ call[w].task \in Tasks
                              /\ ~IsExpired(claims[task], call[w].now)
    BY DEF TypeOK, ClaimEntries, Locals, ClaimInv, IsExpired
  <1>1. claims'[task] # claims[task]
    BY <1>0
  <1>2. ASSUME NEW w \in Workers, CleanupExpired(w) PROVE FALSE
    BY <1>0, <1>1, <1>2 DEF CleanupExpired
  <1>3. ASSUME NEW w \in Workers, ClaimGranted(w)
        PROVE  OwnerEnds(claims[task].owner, task, claims[task].instance)
    <2>1. call[w].task = task
      BY <1>0, <1>1, <1>3 DEF ClaimGranted, TypeOK
    <2> QED BY <1>0, <1>3, <2>1 DEF ClaimGranted, OwnerEnds
  <1>4. ASSUME NEW w \in Workers, ReleaseClaim(w)
        PROVE  OwnerEnds(claims[task].owner, task, claims[task].instance)
    BY <1>0, <1>1, <1>4 DEF ReleaseClaim, Matches, OwnerEnds, TypeOK
  <1>5. ASSUME NEW w \in Workers, ExtendClaim(w) PROVE FALSE
    <2>1. call[w].task = task
      BY <1>0, <1>1, <1>5 DEF ExtendClaim, TypeOK
    <2>2. claims'[task] = [claims[task] EXCEPT !.expires = @ + call[w].lease]
      BY <1>5, <2>1 DEF ExtendClaim, TypeOK
    <2>3. claims'[task].instance = claims[task].instance /\ claims'[task] \in ClaimEntries
      BY <1>0, <1>5, <2>2, TypeStep DEF ClaimEntries, TypeOK, Locals
    <2> QED BY <2>3, EntryIsClaim
  <1>6. ASSUME UNCHANGED claims PROVE FALSE
    BY <1>1, <1>6
  <1>7. ASSUME NEW w \in Workers, WorkerStep(w), ~ClaimGranted(w), ~ReleaseClaim(w) PROVE FALSE
    BY <1>7, <1>2, <1>5, <1>6
       DEF WorkerStep, Cleanup, ReadNow, AlreadyClaimed, GetTokenRead, ExtendRefused,
           CountExtension, WorkerCrash, Acquire, GetToken, Release, Extend
  <1> QED BY <1>3, <1>4, <1>6, <1>7 DEF Next, Tick, vars

\* An unexpired claim ends only by its owner, with the token of that claim.
THEOREM OwnerEndsLease == Spec => LeaseEndsOnlyByOwner
  <1>1. IInv /\ [Next]_vars => [EndsByOwner]_vars
    BY EndsByOwnerStep
  <1> QED BY InitInv, Inductive, <1>1, PTL DEF Spec, LeaseEndsOnlyByOwner, EndsByOwner
=============================================================================
