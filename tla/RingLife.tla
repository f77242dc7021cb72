------------------------------ MODULE RingLife ------------------------------
(***************************************************************************)
(* The life of a ring buffer's shared memory (src/lnf_ringbuf.c): its name *)
(* is created, attached to, removed; its mutex is initialised, taken, and  *)
(* given up on when it cannot be had.  What a process does with the ring   *)
(* between lnf_ring_init and lnf_ring_free is RingBuf's part: here it is   *)
(* a critical section.                                                     *)
(*                                                                         *)
(* One name.  Every system call and every access to the segment is a step; *)
(* a process may be killed between any two of them.                        *)
(***************************************************************************)
EXTENDS Integers

CONSTANTS
  Procs,       \* processes
  Forcing,     \* those that pass LNF_RING_FORCE_INIT
  StuckLimit,  \* LNF_RING_STUCK_LIMIT
  MaxInits,    \* bound: calls of lnf_ring_init, all processes together
  MaxUses,     \* bound: critical sections between init and free, all together
  MaxCrashes   \* bound: processes killed

NoProc == "nobody"

ASSUME LifeAssumption == /\ Forcing \subseteq Procs
                         /\ StuckLimit \in Nat /\ MaxInits \in Nat /\ MaxUses \in Nat /\ MaxCrashes \in Nat
ASSUME NobodyAssumption == NoProc \notin Procs

None == 0
Segments == 1 .. MaxInits     \* in the order they are created

VARIABLES
  name,       \* the segment the name stands for, or None
  \* the segments
  created,    \* how many there have been
  sized,      \* those that ftruncate has given their size
  holder,     \* per segment: who holds shm->lock
  conn_count,
  \* the processes
  pc, shm, counter, tmp, stuck,
  cont,       \* what comes after lnf_ring_lock
  inits, uses, crashes,
  \* history
  attached,   \* per segment: processes counted in conn_count, killed ones too
  others,     \* per process: who else was, when it took itself off
  spoilt,     \* segments whose lock has been entered by force or initialised while held
  split       \* the name has been taken from a segment that was in use

segvars == <<name, created, sized, holder, conn_count>>
procvars == <<pc, shm, counter, tmp, stuck, cont>>
history == <<attached, others, spoilt, split>>
vars == <<segvars, procvars, inits, uses, crashes, history>>

Init ==
  /\ name = None /\ created = 0 /\ sized = {}
  /\ holder = [s \in Segments |-> NoProc]
  /\ conn_count = [s \in Segments |-> 0]
  /\ pc = [p \in Procs |-> "idle"]
  /\ shm = [p \in Procs |-> None]
  /\ counter = [p \in Procs |-> 0]
  /\ tmp = [p \in Procs |-> 0]
  /\ stuck = [p \in Procs |-> 0]
  /\ cont = [p \in Procs |-> "count"]
  /\ inits = 0 /\ uses = 0 /\ crashes = 0
  /\ attached = [s \in Segments |-> {}]
  /\ others = [p \in Procs |-> {}]
  /\ spoilt = {} /\ split = FALSE

Goto(p, l) == pc' = [pc EXCEPT ![p] = l]

\* the live processes that have the segment open or mapped
Users(s) == {p \in Procs : shm[p] = s}
-----------------------------------------------------------------------------
(***************************************************************************)
(* lnf_ring_lock                                                           *)
(***************************************************************************)

CallLock(p, after) ==
  /\ Goto(p, "lock")
  /\ counter' = [counter EXCEPT ![p] = 0]
  /\ cont' = [cont EXCEPT ![p] = after]

\* Locals are reset when they are dead.
EndLock(p) ==
  /\ Goto(p, cont[p])
  /\ counter' = [counter EXCEPT ![p] = 0]
  /\ cont' = [cont EXCEPT ![p] = "count"]

\* The segment has no size yet: the access kills the process.
Faulted(p) == shm[p] \notin sized

\* mutant of Taken: that the mutex is busy is not noticed
TakenNever(p) == FALSE

Taken(p) == holder[shm[p]] # NoProc

TryLock(p) ==
  /\ pc[p] = "lock" /\ ~ Faulted(p) /\ ~ Taken(p)
  /\ holder' = [holder EXCEPT ![shm[p]] = p]
  /\ EndLock(p)
  /\ UNCHANGED <<name, created, sized, conn_count, shm, tmp, stuck,
                 inits, uses, crashes, history>>

\* mutant of TriesLeft: the mutex is waited for
TriesLeftAlways(p) == TRUE

TriesLeft(p) == counter[p] <= StuckLimit

Poll(p) ==
  /\ pc[p] = "lock" /\ ~ Faulted(p) /\ Taken(p)
  /\ TriesLeft(p)
  /\ counter' = [counter EXCEPT ![p] = IF @ <= StuckLimit THEN @ + 1 ELSE @]
  /\ UNCHANGED <<segvars, pc, shm, tmp, stuck, cont, inits, uses, crashes, history>>

\* No caller looks at the result: the critical section is entered without the lock.
GiveUp(p) ==
  /\ pc[p] = "lock" /\ ~ Faulted(p) /\ Taken(p)
  /\ ~ TriesLeft(p)
  /\ stuck' = [stuck EXCEPT ![p] = @ + 1]
  /\ EndLock(p)
  /\ spoilt' = spoilt \cup {shm[p]}
  /\ UNCHANGED <<segvars, shm, tmp, inits, uses, crashes, attached, others, split>>

\* pthread_mutex_unlock does not ask who holds the lock.
Unlocked(p) == [holder EXCEPT ![shm[p]] = NoProc]
-----------------------------------------------------------------------------
(***************************************************************************)
(* lnf_ring_init                                                           *)
(***************************************************************************)

\* With LNF_RING_FORCE_INIT the name is removed, whoever uses the segment.
InitCall(p) ==
  /\ pc[p] = "idle" /\ inits < MaxInits
  /\ inits' = inits + 1
  /\ IF p \in Forcing
     THEN /\ name' = None
          /\ split' = (split \/ (name # None /\ Users(name) # {}))
     ELSE UNCHANGED <<name, split>>
  /\ Goto(p, "create")
  /\ UNCHANGED <<created, sized, holder, conn_count, shm, counter, tmp, stuck, cont,
                 uses, crashes, attached, others, spoilt>>

\* shm_open with O_CREAT | O_EXCL
Create(p) ==
  /\ pc[p] = "create"
  /\ IF name = None
     THEN /\ created' = created + 1
          /\ name' = created'
          /\ shm' = [shm EXCEPT ![p] = created']
          /\ Goto(p, "truncate")
     ELSE /\ Goto(p, "open")
          /\ UNCHANGED <<name, created, shm>>
  /\ UNCHANGED <<sized, holder, conn_count, counter, tmp, stuck, cont, inits, uses, crashes, history>>

Truncate(p) ==
  /\ pc[p] = "truncate"
  /\ sized' = sized \cup {shm[p]}
  /\ Goto(p, "mutex")
  /\ UNCHANGED <<name, created, holder, conn_count, shm, counter, tmp, stuck, cont,
                 inits, uses, crashes, history>>

\* shm_open without O_CREAT: the name may have gone again, LNF_ERR_OTHER_MSG.
Open(p) ==
  /\ pc[p] = "open"
  /\ IF name = None
     THEN Goto(p, "idle") /\ UNCHANGED <<shm, counter, cont>>
     ELSE /\ shm' = [shm EXCEPT ![p] = name]
          /\ CallLock(p, "count")
  /\ UNCHANGED <<segvars, tmp, stuck, inits, uses, crashes, history>>

\* pthread_mutex_init, by the process that has created the segment
MutexInit(p) ==
  /\ pc[p] = "mutex"
  /\ holder' = [holder EXCEPT ![shm[p]] = NoProc]
  /\ spoilt' = IF Taken(p) THEN spoilt \cup {shm[p]} ELSE spoilt
  /\ CallLock(p, "count")
  /\ UNCHANGED <<name, created, sized, conn_count, shm, tmp, stuck,
                 inits, uses, crashes, attached, others, split>>

\* conn_count++ : read, then written
Count(p) ==
  /\ pc[p] = "count"
  /\ tmp' = [tmp EXCEPT ![p] = conn_count[shm[p]]]
  /\ Goto(p, "counted")
  /\ UNCHANGED <<segvars, shm, counter, stuck, cont, inits, uses, crashes, history>>

InitReturn(p) ==
  /\ pc[p] = "counted"
  /\ conn_count' = [conn_count EXCEPT ![shm[p]] = tmp[p] + 1]
  /\ attached' = [attached EXCEPT ![shm[p]] = @ \cup {p}]
  /\ holder' = Unlocked(p)
  /\ tmp' = [tmp EXCEPT ![p] = 0]
  /\ Goto(p, "ready")
  /\ UNCHANGED <<name, created, sized, shm, counter, stuck, cont,
                 inits, uses, crashes, others, spoilt, split>>
-----------------------------------------------------------------------------
(***************************************************************************)
(* lnf_ring_read and lnf_ring_write: a critical section                    *)
(***************************************************************************)

Use(p) ==
  /\ pc[p] = "ready" /\ uses < MaxUses
  /\ uses' = uses + 1
  /\ CallLock(p, "use")
  /\ UNCHANGED <<segvars, shm, tmp, stuck, inits, crashes, history>>

UseReturn(p) ==
  /\ pc[p] = "use"
  /\ holder' = Unlocked(p)
  /\ Goto(p, "ready")
  /\ UNCHANGED <<name, created, sized, conn_count, shm, counter, tmp, stuck, cont,
                 inits, uses, crashes, history>>
-----------------------------------------------------------------------------
(***************************************************************************)
(* lnf_ring_free.  LNF_RING_FORCE_RELEASE is noted in the handle and never *)
(* looked at.                                                              *)
(***************************************************************************)

FreeCall(p) ==
  /\ pc[p] = "ready"
  /\ CallLock(p, "leave")
  /\ UNCHANGED <<segvars, shm, tmp, stuck, inits, uses, crashes, history>>

Leave(p) ==
  /\ pc[p] = "leave"
  /\ tmp' = [tmp EXCEPT ![p] = conn_count[shm[p]] - 1]
  /\ Goto(p, "left")
  /\ UNCHANGED <<segvars, shm, counter, stuck, cont, inits, uses, crashes, history>>

\* mutant of LastOne: the first to go removes the name
LastOneAny(n) == TRUE

LastOne(n) == n <= 0

\* The count is written, the lock released and the segment unmapped.
Left(p) ==
  /\ pc[p] = "left"
  /\ conn_count' = [conn_count EXCEPT ![shm[p]] = tmp[p]]
  /\ attached' = [attached EXCEPT ![shm[p]] = @ \ {p}]
  /\ others' = [others EXCEPT ![p] = IF LastOne(tmp[p]) THEN attached[shm[p]] \ {p} ELSE {}]
  /\ holder' = Unlocked(p)
  /\ shm' = [shm EXCEPT ![p] = None]
  /\ tmp' = [tmp EXCEPT ![p] = 0]
  /\ stuck' = [stuck EXCEPT ![p] = 0]
  /\ Goto(p, IF LastOne(tmp[p]) THEN "unlink" ELSE "idle")
  /\ UNCHANGED <<name, created, sized, counter, cont,
                 inits, uses, crashes, spoilt, split>>

\* shm_unlink, of whatever segment has the name by now
Unlink(p) ==
  /\ pc[p] = "unlink"
  /\ name' = None
  /\ split' = (split \/ (name # None /\ Users(name) \ others[p] # {}))
  /\ others' = [others EXCEPT ![p] = {}]
  /\ Goto(p, "idle")
  /\ UNCHANGED <<created, sized, holder, conn_count, shm, counter, tmp, stuck, cont,
                 inits, uses, crashes, attached, spoilt>>
-----------------------------------------------------------------------------
\* Killed, by somebody or by an access to a segment without a size: the
\* kernel unmaps the segment; count and mutex stay as they are.
Die(p) ==
  /\ Goto(p, "dead")
  /\ shm' = [shm EXCEPT ![p] = None]
  /\ counter' = [counter EXCEPT ![p] = 0]
  /\ tmp' = [tmp EXCEPT ![p] = 0]
  /\ stuck' = [stuck EXCEPT ![p] = 0]
  /\ cont' = [cont EXCEPT ![p] = "count"]
  /\ others' = [others EXCEPT ![p] = {}]
  /\ UNCHANGED <<segvars, inits, uses, attached, spoilt, split>>

BusError(p) ==
  /\ pc[p] = "lock" /\ Faulted(p)
  /\ Die(p)
  /\ UNCHANGED crashes

Crash(p) ==
  /\ pc[p] \notin {"idle", "dead"} /\ crashes < MaxCrashes
  /\ crashes' = crashes + 1
  /\ Die(p)

\* A process inside one of the calls goes on; whether it calls is its own affair.
Runs(p) == \/ TryLock(p) \/ Poll(p) \/ GiveUp(p) \/ Create(p) \/ Truncate(p) \/ Open(p)
           \/ MutexInit(p) \/ Count(p) \/ InitReturn(p) \/ UseReturn(p)
           \/ Leave(p) \/ Left(p) \/ Unlink(p) \/ BusError(p)

Calls(p) == InitCall(p) \/ Use(p) \/ FreeCall(p)

Next == \E p \in Procs : Runs(p) \/ Calls(p) \/ Crash(p)

Spec == Init /\ [][Next]_vars
FairSpec == Spec /\ \A p \in Procs : WF_vars(Runs(p))
-----------------------------------------------------------------------------
(***************************************************************************)
(* Properties                                                              *)
(***************************************************************************)

Inside(s) == {p \in Procs : shm[p] = s /\ pc[p] \in {"count", "counted", "use", "leave", "left"}}

\* Two processes are in critical sections of the same ring only after one of
\* them, or one before them, has given up waiting for the mutex, or after the
\* creator has initialised a mutex that a process faster than it already
\* held: being removed, forced and created anew never mixes up the locks.
LockExclusive == \A s \in Segments \ spoilt : \A p, q \in Inside(s) : p = q

\* Processes that are attached at the same time share one ring, and so the
\* records written: unless a mutex was spoilt, no process takes the name from
\* a ring that others were counted into when it left.  (Not so when a forced
\* initialisation, a process that left an older ring, or one that left just
\* before somebody came removes the name of a ring in use: see split.)
OneRing ==
  spoilt = {} /\ ~ split =>
    \A p, q \in Procs : {pc[p], pc[q]} \subseteq {"ready", "use"} => shm[p] = shm[q]

\* Every call returns, also when the holder of the mutex has been killed;
\* or the process is killed itself.
CallsReturn == \A p \in Procs : pc[p] \notin {"idle", "ready", "dead"} ~> pc[p] \in {"idle", "ready", "dead"}
=============================================================================
