-------------------------------- MODULE Flock --------------------------------
(***************************************************************************)
(* The lock around `config reload` and `config load_minigraph`             *)
(* (utilities_common/flock.py): try_lock opens the lock file, takes        *)
(* flock(2) on it, keeps a record of the owner in the file while the       *)
(* decorated function runs, and a caller that is refused reads the record  *)
(* to say who has the lock.  Every call is a process with an open file of  *)
(* its own; the kernel frees the lock of a process that dies.              *)
(***************************************************************************)
EXTENDS Integers

CONSTANTS
    Processes,   \* calls of functions that are decorated for one lock file
    Bypass,      \* those with bypass_lock
    Timeout,     \* call -> its timeout, in sleeps of 0.2 seconds; negative: wait for ever
    Nobody       \* no owner, no record

ASSUME ProcessesAssumption ==
    /\ Nobody \notin Processes
    /\ Bypass \subseteq Processes
    /\ Timeout \in [Processes -> Int]

VARIABLES
    pc,       \* call -> where it stands
    lock,     \* the process that has the flock
    record,   \* whose name the lock file holds
    waited,   \* call -> time of its next attempt
    blamed    \* call -> what it logs as the owner when it is refused

vars == <<pc, lock, record, waited, blamed>>

Goto(p, label) == pc' = [pc EXCEPT ![p] = label]

-----------------------------------------------------------------------------
Init ==
    /\ pc = [p \in Processes |-> "new"]
    /\ lock = Nobody
    /\ record = Nobody
    /\ waited = [p \in Processes |-> 0]
    /\ blamed = [p \in Processes |-> Nobody]

\* Mutant: the owner is recorded as soon as the file is open.
CallRecordsFirst(p) ==
    /\ pc[p] = "new"
    /\ Goto(p, IF p \in Bypass THEN "run" ELSE "attempt")
    /\ record' = IF p \in Bypass THEN record ELSE p
    /\ UNCHANGED <<lock, waited, blamed>>

(* _wrapper: with bypass_lock straight to the function, else os.open. *)
Call(p) ==
    /\ pc[p] = "new"
    /\ Goto(p, IF p \in Bypass THEN "run" ELSE "attempt")
    /\ UNCHANGED <<lock, record, waited, blamed>>

\* Mutant: LOCK_SH in place of LOCK_EX.
AcquireShared(p) ==
    /\ pc[p] = "attempt"
    /\ lock' = p
    /\ Goto(p, "acquired")
    /\ UNCHANGED <<record, waited, blamed>>

(* acquire_flock: fcntl.flock succeeds. *)
Acquire(p) ==
    /\ pc[p] = "attempt"
    /\ lock = Nobody
    /\ lock' = p
    /\ Goto(p, "acquired")
    /\ UNCHANGED <<record, waited, blamed>>

\* Mutant: the clock is read only once, before the loop.
AttemptFailsForEver(p) ==
    /\ pc[p] = "attempt"
    /\ lock # Nobody
    /\ Timeout[p] >= 0
    /\ UNCHANGED <<lock, record, pc, waited, blamed>>

(* acquire_flock: LOCK_NB, and someone else has the lock.  The clock is read    *)
(* before the sleep, so an attempt after the deadline is possible; without a    *)
(* timeout the clock has moved when it is read and there is no second attempt.  *)
AttemptFails(p) ==
    /\ pc[p] = "attempt"
    /\ lock # Nobody
    /\ Timeout[p] >= 0
    /\ \/ /\ Goto(p, "refused")
          /\ UNCHANGED waited
       \/ \E now \in waited[p]..Timeout[p] :
             /\ Timeout[p] # 0
             /\ waited' = [waited EXCEPT ![p] = now + 1]
             /\ UNCHANGED pc
    /\ UNCHANGED <<lock, record, blamed>>

(* os.truncate(fd, 0) under the lock ... *)
ClearRecord(p) ==
    /\ pc[p] = "acquired"
    /\ record' = Nobody
    /\ Goto(p, "cleared")
    /\ UNCHANGED <<lock, waited, blamed>>

(* ... and os.write of the function's name and the pid. *)
WriteRecord(p) ==
    /\ pc[p] = "cleared"
    /\ record' = p
    /\ Goto(p, "run")
    /\ UNCHANGED <<lock, waited, blamed>>

(* The function returns or raises. *)
Return(p) ==
    /\ pc[p] = "run"
    /\ Goto(p, IF p \in Bypass THEN "done" ELSE "returned")
    /\ UNCHANGED <<lock, record, waited, blamed>>

(* finally: release_flock ... *)
Release(p) ==
    /\ pc[p] = "returned"
    /\ lock' = Nobody
    /\ Goto(p, "released")
    /\ UNCHANGED <<record, waited, blamed>>

(* ... and then os.truncate and os.close. *)
TruncateRecord(p) ==
    /\ pc[p] = "released"
    /\ record' = Nobody
    /\ Goto(p, "done")
    /\ UNCHANGED <<lock, waited, blamed>>

(* The caller that is refused reads the record and exits. *)
ReadOwner(p) ==
    /\ pc[p] = "refused"
    /\ blamed' = [blamed EXCEPT ![p] = record]
    /\ Goto(p, "done")
    /\ UNCHANGED <<lock, record, waited>>

(* The process is killed: its open file is closed, the record stays. *)
Kill(p) ==
    /\ pc[p] \notin {"new", "done"}
    /\ Goto(p, "done")
    /\ lock' = IF lock = p THEN Nobody ELSE lock
    /\ UNCHANGED <<record, waited, blamed>>

\* What a call does by itself, the decorated function aside.
Step(p) ==
    \/ Call(p) \/ Acquire(p) \/ AttemptFails(p) \/ ClearRecord(p) \/ WriteRecord(p)
    \/ Release(p) \/ TruncateRecord(p) \/ ReadOwner(p)

AllDone == (\A p \in Processes : pc[p] = "done") /\ UNCHANGED vars

Next == (\E p \in Processes : Step(p) \/ Return(p) \/ Kill(p)) \/ AllDone

Spec == Init /\ [][Next]_vars
FairSpec == Spec /\ \A p \in Processes : WF_vars(Step(p))

-----------------------------------------------------------------------------
(* Properties *)

Labels == {"new", "attempt", "acquired", "cleared", "run", "returned", "released", "refused", "done"}

TypeOK ==
    /\ pc \in [Processes -> Labels]
    /\ lock \in Processes \cup {Nobody}
    /\ record \in Processes \cup {Nobody}
    /\ waited \in [Processes -> Nat]
    /\ blamed \in [Processes -> Processes \cup {Nobody}]

\* Between the flock and its release.
Holds(p) == pc[p] \in {"acquired", "cleared", "returned"} \/ (pc[p] = "run" /\ p \notin Bypass)

(* No two calls are between taking and releasing the lock, whoever dies where: *)
(* two reloads that did not ask to bypass the lock never run together.         *)
MutualExclusion == \A p, q \in Processes : Holds(p) /\ Holds(q) => p = q

(* While a function runs under the lock, the lock file names nobody else: what *)
(* an earlier owner left behind is gone by then.                               *)
RecordNamesNobodyElse ==
    \A p \in Processes : pc[p] = "run" /\ p \notin Bypass => record \in {p, Nobody}

(* A call with a timeout gets the lock or gives up even if the function of the *)
(* owner never returns.                                                        *)
WaitIsBounded ==
    \A p \in Processes : Timeout[p] >= 0 => (pc[p] = "attempt" ~> pc[p] # "attempt")

(* "Write pid and the function name to the lock file as a record": while a     *)
(* function runs under the lock, the file says so.                             *)
RecordNamesOwner ==
    \A p \in Processes : pc[p] = "run" /\ p \notin Bypass => record = p
=============================================================================
