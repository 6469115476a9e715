---------------------------- MODULE DatabaseLock -----------------------------
(***************************************************************************)
(* DatabaseLock of sochdb-storage/src/lock.rs, which DurableStorage holds  *)
(* for as long as a database is open: an flock on the file .lock, whose    *)
(* name is removed when the lock is dropped and when its holder seems to   *)
(* be dead.  An flock belongs to the file, not to its name, so the state   *)
(* tells the two apart.                                                    *)
(***************************************************************************)
EXTENDS Naturals

CONSTANTS
    Pids,     \* processes
    MaxFiles  \* bound: lock files created

Files  == 1..MaxFiles
NoFile == 0

VARIABLES
    name,     \* the file .lock names, or NoFile
    created,  \* how many lock files have been created
    flocked,  \* who has the flock on each file: at most one process
    written,  \* the pid in each file, if any
    file,     \* the file each process has open
    at        \* where each process is in acquire and drop

vars == <<name, created, flocked, written, file, at>>

Labels == {"idle", "open", "flock", "writePid", "stale", "held", "unlink", "dead"}

Goto(p, label) == at' = [at EXCEPT ![p] = label]

Init ==
    /\ name = NoFile /\ created = 0
    /\ flocked = [f \in Files |-> {}]
    /\ written = [f \in Files |-> {}]
    /\ file = [p \in Pids |-> NoFile]
    /\ at = [p \in Pids |-> "idle"]

-----------------------------------------------------------------------------
(* acquire_with_config                                                     *)

Acquire(p) == at[p] = "idle" /\ Goto(p, "open") /\ UNCHANGED <<name, created, flocked, written, file>>

\* OpenOptions::create: the named file, or a new one under that name.
OpenFile(p) ==
    /\ at[p] = "open"
    /\ \/ name # NoFile /\ UNCHANGED <<name, created>>
       \/ name = NoFile /\ created < MaxFiles
          /\ created' = created + 1 /\ name' = created'
    /\ file' = [file EXCEPT ![p] = name']
    /\ Goto(p, "flock")
    /\ UNCHANGED <<flocked, written>>

FlockGranted(p) ==
    /\ at[p] = "flock" /\ flocked[file[p]] = {}
    /\ flocked' = [flocked EXCEPT ![file[p]] = {p}]
    /\ Goto(p, "writePid")
    /\ UNCHANGED <<name, created, written, file>>

\* write_pid, and acquire returns Ok.
WritePid(p) ==
    /\ at[p] = "writePid"
    /\ written' = [written EXCEPT ![file[p]] = {p}]
    /\ Goto(p, "held")
    /\ UNCHANGED <<name, created, flocked, file>>

\* The pid in the file is that of a process that no longer exists.
HolderIsDead(f) == \E q \in written[f] : at[q] = "dead"

\* EWOULDBLOCK: take the lock file away from a dead holder, ...
FlockStale(p) ==
    /\ at[p] = "flock" /\ flocked[file[p]] # {}
    /\ HolderIsDead(file[p])
    /\ Goto(p, "stale")
    /\ file' = [file EXCEPT ![p] = NoFile]
    /\ UNCHANGED <<name, created, flocked, written>>

\* ... whatever file the name stands for by now (when it stands for none the
\* loop goes on as with a live holder), ...
RemoveStale(p) ==
    /\ at[p] = "stale"
    /\ name' = NoFile
    /\ Goto(p, "open") \/ (name = NoFile /\ Goto(p, "idle"))
    /\ UNCHANGED <<created, flocked, written, file>>

\* ... or sleep and try again until the deadline: Timeout.
FlockBusy(p) ==
    /\ at[p] = "flock" /\ flocked[file[p]] # {}
    /\ ~HolderIsDead(file[p])
    /\ Goto(p, "open") \/ Goto(p, "idle")
    /\ file' = [file EXCEPT ![p] = NoFile]
    /\ UNCHANGED <<name, created, flocked, written>>

-----------------------------------------------------------------------------
(* Drop: unlock, then remove the name.                                     *)

Unlock(p) ==
    /\ at[p] = "held"
    /\ flocked' = [flocked EXCEPT ![file[p]] = {}]
    /\ Goto(p, "unlink")
    /\ UNCHANGED <<name, created, written, file>>

Unlink(p) ==
    /\ at[p] = "unlink"
    /\ name' = NoFile
    /\ file' = [file EXCEPT ![p] = NoFile]
    /\ Goto(p, "idle")
    /\ UNCHANGED <<created, flocked, written>>

\* The kernel releases the flock; the name and the pid in the file stay.
Crash(p) ==
    /\ at[p] # "dead"
    /\ flocked' = [f \in Files |-> flocked[f] \ {p}]
    /\ file' = [file EXCEPT ![p] = NoFile]
    /\ Goto(p, "dead")
    /\ UNCHANGED <<name, created, written>>

Next ==
    \E p \in Pids :
        \/ Acquire(p) \/ OpenFile(p) \/ FlockGranted(p) \/ WritePid(p)
        \/ FlockStale(p) \/ RemoveStale(p) \/ FlockBusy(p)
        \/ Unlock(p) \/ Unlink(p) \/ Crash(p)

Spec == Init /\ [][Next]_vars

-----------------------------------------------------------------------------
\* No two processes have the database open: the lock gives "Single-process
\* exclusive access to database files" (lock.rs:36).
SingleHolder == \A p, q \in Pids : at[p] = "held" /\ at[q] = "held" => p = q
=============================================================================
