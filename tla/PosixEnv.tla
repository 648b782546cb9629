------------------------------ MODULE PosixEnv ------------------------------
(***************************************************************************)
(* Two services of util/env_posix.cc that work across threads: the lock on *)
(* a database's LOCK file, and the background thread that runs what        *)
(* Schedule is given.  The kernel keeps one fcntl lock per file and        *)
(* process, and drops it when the process closes any descriptor of the     *)
(* file (POSIX); mu_ makes Schedule and each pass of BGThread one step.    *)
(***************************************************************************)
EXTENDS Integers, Sequences, FiniteSets

CONSTANTS
    Processes,
    Callers,    \* threads of each process that lock or unlock the file
    MaxItems,   \* Schedule is called at most this often
    NoProcess

ASSUME NoProcessAssumption == NoProcess \notin Processes

VARIABLES
    owner,          \* the process the kernel has given the lock to
    locked_files_,  \* per process: the file is in its PosixLockTable
    caller,         \* caller[p][t]: how far LockFile or UnlockFile has got
    lost,           \* lost[p][t]: the kernel lock of a holder was dropped
    queue_,
    bgthread_,      \* "none", "ready" (about to look), "waiting" or "running"
    given, done     \* items ever scheduled, and in the order they were run

lockVars == <<owner, locked_files_, caller, lost>>
bgVars   == <<queue_, bgthread_, given, done>>

LockInit ==
    /\ owner = NoProcess
    /\ locked_files_ = [p \in Processes |-> FALSE]
    /\ caller = [p \in Processes |-> [t \in Callers |-> "idle"]]
    /\ lost = [p \in Processes |-> [t \in Callers |-> FALSE]]

BgInit ==
    /\ queue_ = <<>>
    /\ bgthread_ = "none"
    /\ given = 0
    /\ done = <<>>

----------------------------------------------------------------------------
(* LockFile and UnlockFile                                                 *)

Goes(p, t, from, to) ==
    /\ caller[p][t] = from
    /\ caller' = [caller EXCEPT ![p][t] = to]

(* close(fd): the kernel drops the lock of the whole process. *)
Close(p) ==
    /\ owner' = IF owner = p THEN NoProcess ELSE owner
    /\ lost' = [lost EXCEPT ![p] = [t \in Callers |-> @[t] \/ caller[p][t] = "holding"]]

OpenLockFile(p, t) == Goes(p, t, "idle", "opened") /\ UNCHANGED <<owner, locked_files_, lost>>

NeverListed(p) == FALSE                                     \* variant of AlreadyHeld
AlreadyHeld(p) == locked_files_[p]

(* locks_.Insert; "already held by process" otherwise. *)
InsertLock(p, t) ==
    IF AlreadyHeld(p)
    THEN Goes(p, t, "opened", "refused") /\ UNCHANGED <<owner, locked_files_, lost>>
    ELSE /\ Goes(p, t, "opened", "inserted")
         /\ locked_files_' = [locked_files_ EXCEPT ![p] = TRUE]
         /\ UNCHANGED <<owner, lost>>
CloseRefused(p, t) == Goes(p, t, "refused", "idle") /\ Close(p) /\ UNCHANGED locked_files_

(* LockOrUnlock(fd, true). *)
Fcntl(p, t) ==
    IF owner \in {NoProcess, p}
    THEN /\ Goes(p, t, "inserted", "holding")
         /\ owner' = p
         /\ lost' = [lost EXCEPT ![p][t] = FALSE]
         /\ UNCHANGED locked_files_
    ELSE Goes(p, t, "inserted", "failed") /\ UNCHANGED <<owner, locked_files_, lost>>
CloseFailed(p, t) == Goes(p, t, "failed", "closed") /\ Close(p) /\ UNCHANGED locked_files_
RemoveFailed(p, t) ==
    /\ Goes(p, t, "closed", "idle")
    /\ locked_files_' = [locked_files_ EXCEPT ![p] = FALSE]
    /\ UNCHANGED <<owner, lost>>

(* UnlockFile: LockOrUnlock(fd, false), locks_.Remove, close. *)
FcntlUnlock(p, t) ==
    /\ Goes(p, t, "holding", "unlocked")
    /\ owner' = IF owner = p THEN NoProcess ELSE owner
    /\ UNCHANGED <<locked_files_, lost>>
RemoveUnlocked(p, t) ==
    /\ Goes(p, t, "unlocked", "removed")
    /\ locked_files_' = [locked_files_ EXCEPT ![p] = FALSE]
    /\ UNCHANGED <<owner, lost>>
CloseUnlocked(p, t) == Goes(p, t, "removed", "idle") /\ Close(p) /\ UNCHANGED locked_files_

(* A process ends: the kernel closes its files, its tables are gone. *)
Exit(p) ==
    /\ owner' = IF owner = p THEN NoProcess ELSE owner
    /\ locked_files_' = [locked_files_ EXCEPT ![p] = FALSE]
    /\ caller' = [caller EXCEPT ![p] = [t \in Callers |-> "idle"]]
    /\ lost' = [lost EXCEPT ![p] = [t \in Callers |-> FALSE]]

LockStep(p, t) ==
    \/ OpenLockFile(p, t) \/ InsertLock(p, t) \/ CloseRefused(p, t)
    \/ Fcntl(p, t) \/ CloseFailed(p, t) \/ RemoveFailed(p, t)
    \/ FcntlUnlock(p, t) \/ RemoveUnlocked(p, t) \/ CloseUnlocked(p, t)

LockNext == \E p \in Processes : Exit(p) \/ \E t \in Callers : LockStep(p, t)

----------------------------------------------------------------------------
(* Schedule and BGThread                                                   *)

SignalsWhenBusy == queue_ /= <<>>                           \* variant of Signals
Signals == queue_ = <<>>

(* Schedule: start the thread the first time; wake it if the queue was     *)
(* empty; push.                                                            *)
Schedule ==
    /\ given < MaxItems
    /\ given' = given + 1
    /\ bgthread_' = IF bgthread_ = "none" \/ (bgthread_ = "waiting" /\ Signals)
                    THEN "ready" ELSE bgthread_
    /\ queue_' = Append(queue_, given')
    /\ UNCHANGED done

(* BGThread: wait while the queue is empty (a wait may end for no reason), *)
(* otherwise take the front item, and run it without the lock.             *)
LookForWork ==
    /\ bgthread_ = "ready"
    /\ IF queue_ = <<>>
       THEN bgthread_' = "waiting" /\ UNCHANGED <<queue_, done>>
       ELSE /\ bgthread_' = "running"
            /\ done' = Append(done, Head(queue_))
            /\ queue_' = Tail(queue_)
    /\ UNCHANGED given
SpuriousWakeup == bgthread_ = "waiting" /\ bgthread_' = "ready" /\ UNCHANGED <<queue_, given, done>>
ItemDone == bgthread_ = "running" /\ bgthread_' = "ready" /\ UNCHANGED <<queue_, given, done>>

BgNext == Schedule \/ LookForWork \/ SpuriousWakeup \/ ItemDone

(* The two share nothing but the process: each is followed by itself. *)
LockSpec == LockInit /\ [][LockNext]_lockVars
BgSpec   == BgInit /\ [][BgNext]_bgVars

----------------------------------------------------------------------------
(* Properties                                                              *)

(* LockFile keeps a database to one user: two threads of a process never   *)
(* hold the lock together, and two processes do only after the kernel lock *)
(* of one was dropped behind its back, by a close in the same process:     *)
(* that of a refused LockFile, or the last step of an earlier UnlockFile.  *)
OneLockHolder ==
    \A p, q \in Processes, t, u \in Callers :
        caller[p][t] = "holding" /\ caller[q][u] = "holding" /\ <<p, t>> /= <<q, u>>
            => p /= q /\ (lost[p][t] \/ lost[q][u])

(* No wakeup of BGThread is lost: it never waits while there is work, and  *)
(* what Schedule was given is run or queued, each item once and in order.  *)
BackgroundWorkIsRun ==
    /\ bgthread_ \in {"none", "waiting"} => queue_ = <<>>
    /\ done \o queue_ = [i \in 1 .. given |-> i]
=============================================================================
