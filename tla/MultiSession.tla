---------------------------- MODULE MultiSession ----------------------------
(***************************************************************************)
(* MultiSessionRunner: the sessions of a manifest, one after the other or   *)
(* each in a worker thread that takes the locks of its resources first.     *)
(*                                                                         *)
(* All sessions of the process share the attributes of the pytest module,   *)
(* of which pytest.products is kept here: MyPytest.runner assigns it and    *)
(* everything that follows, in this session or in another, reads it.       *)
(*                                                                         *)
(*  waiting -> locking -> check -> init -> start -> test -> stop -> mark    *)
(*                          -> unlock -> done                              *)
(***************************************************************************)
EXTENDS Naturals

CONSTANTS
    N,      \* number of sessions in the manifest
    L       \* number of resources they name

ASSUME NumberAssumption == N \in Nat /\ L \in Nat

VARIABLES
    phase,      \* of MultiSessionRunner.run
    options,    \* of the manifest
    resources,  \* the locks of each session's resources
    stage,      \* of each session
    held,       \* locks each session's worker holds
    code,       \* result of each session
    failEvent,  \* fail_event is set
    owner,      \* whose products pytest.products holds
    exit        \* exit code of run()

manifest == <<options, resources>>
vars == <<phase, manifest, stage, held, code, failEvent, owner, exit>>

Sessions == 1..N
Locks    == 1..L     \* one lock per resource, numbered in the order of id()
Working  == {"init", "start", "test", "stop", "mark"}
Stages   == {"waiting", "locking", "check", "unlock", "done"} \cup Working
Codes    == {"none", "passed", "failed", "skipped", "raised"}

Parallel == options.parallel
Overlap(s, t) == resources[s] \cap resources[t] # {}

TypeOK ==
    /\ phase \in {"build", "test", "report", "done", "aborted"}
    /\ options \in [parallel : BOOLEAN, failFast : BOOLEAN]
    /\ resources \in [Sessions -> SUBSET Locks]
    /\ stage \in [Sessions -> Stages]
    /\ held \in [Sessions -> SUBSET Locks]
    /\ \A s \in Sessions : held[s] \subseteq resources[s]
    /\ code \in [Sessions -> Codes]
    /\ failEvent \in BOOLEAN
    /\ owner \in Sessions \cup {0}
    /\ exit \in {"none", "ok", "error"}

Init ==
    /\ phase = "build"
    /\ options \in [parallel : BOOLEAN, failFast : BOOLEAN]
    /\ resources \in [Sessions -> SUBSET Locks]
    /\ stage = [s \in Sessions |-> "waiting"]
    /\ held = [s \in Sessions |-> {}]
    /\ code = [s \in Sessions |-> "none"]
    /\ failEvent = FALSE
    /\ owner = 0
    /\ exit = "none"

-----------------------------------------------------------------------------
(* The main thread. *)

\* _phase_build: a build that fails ends the run before any test.
Build ==
    /\ phase = "build"
    /\ \/ phase' = "test" /\ UNCHANGED exit
       \/ phase' = "done" /\ exit' = "error"
    /\ UNCHANGED <<manifest, stage, held, code, failEvent, owner>>

Finished == {s \in Sessions : stage[s] = "done"}
Raised   == {s \in Sessions : code[s] = "raised"}

\* A failure that fail_fast stops the loop of _run_sequential at.
Stopped == /\ ~Parallel /\ options.failFast
           /\ \E s \in Finished : code[s] = "failed"

\* Mutant: a future that raised is dropped.
CollectUnchecked ==
    /\ phase = "test"
    /\ \/ Finished = Sessions
       \/ Stopped
       \/ ~Parallel /\ Raised \cap Finished # {}
    /\ phase' = "report"
    /\ UNCHANGED <<manifest, stage, held, code, failEvent, owner, exit>>

(* All results are in, or the sequential loop has broken off.  An exception *)
(* of a session leaves run(), in parallel mode once every worker is done.   *)
Collect ==
    /\ phase = "test"
    /\ \/ Finished = Sessions
       \/ Stopped
       \/ ~Parallel /\ Raised \cap Finished # {}
    /\ phase' = IF Raised = {} THEN "report" ELSE "aborted"
    /\ UNCHANGED <<manifest, stage, held, code, failEvent, owner, exit>>

\* Any result but a pass, a skipped session's -1 included, makes the run fail.
Report ==
    /\ phase = "report"
    /\ phase' = "done"
    /\ exit' = IF \A s \in Finished \ Raised : code[s] = "passed"
                 THEN "ok" ELSE "error"
    /\ UNCHANGED <<manifest, stage, held, code, failEvent, owner>>

-----------------------------------------------------------------------------
(* One session. *)

Goes(s, next) == stage' = [stage EXCEPT ![s] = next]

\* Mutant: the pytest environment is set up before the locks are taken.
BeginEager(s) ==
    /\ phase = "test"
    /\ stage[s] = "waiting"
    /\ \/ Parallel /\ Goes(s, "locking")
       \/ /\ ~Parallel /\ ~Stopped /\ Raised = {}
          /\ \A t \in 1..(s - 1) : stage[t] = "done"
          /\ Goes(s, "check")
    /\ owner' = s
    /\ UNCHANGED <<phase, manifest, held, code, failEvent, exit>>

\* The pool has a worker for each session; the loop runs them in order.
Begin(s) ==
    /\ phase = "test"
    /\ stage[s] = "waiting"
    /\ \/ Parallel /\ Goes(s, "locking")
       \/ /\ ~Parallel /\ ~Stopped /\ Raised = {}
          /\ \A t \in 1..(s - 1) : stage[t] = "done"
          /\ Goes(s, "check")
    /\ UNCHANGED <<phase, manifest, held, code, failEvent, owner, exit>>

Free(l) == \A t \in Sessions : l \notin held[t]

Take(s, l) ==
    /\ held' = [held EXCEPT ![s] = @ \cup {l}]
    /\ UNCHANGED <<phase, manifest, stage, code, failEvent, owner, exit>>

\* Mutant: the locks are taken in the order the manifest names them.
AcquireUnsorted(s) ==
    /\ stage[s] = "locking"
    /\ \E l \in resources[s] \ held[s] : Free(l) /\ Take(s, l)

\* Mutant: the locks of all resources are taken, not those of the session.
AcquireEvery(s) ==
    /\ stage[s] = "locking"
    /\ \E l \in Locks \ held[s] :
          /\ \A k \in Locks \ held[s] : l <= k
          /\ Free(l)
          /\ Take(s, l)

\* Mutant: each session has locks of its own.
AcquireOwn(s) ==
    /\ stage[s] = "locking"
    /\ \E l \in resources[s] \ held[s] : Take(s, l)

\* The least lock not held yet, when nobody holds it.
Acquire(s) ==
    /\ stage[s] = "locking"
    /\ \E l \in resources[s] \ held[s] :
          /\ \A k \in resources[s] \ held[s] : l <= k
          /\ Free(l)
          /\ Take(s, l)

AllAcquired(s) ==
    /\ stage[s] = "locking"
    /\ resources[s] \subseteq held[s]
    /\ Goes(s, "check")
    /\ UNCHANGED <<phase, manifest, held, code, failEvent, owner, exit>>

\* The event exists in parallel mode only.
CheckFailFast(s) ==
    /\ stage[s] = "check"
    /\ IF failEvent
         THEN Goes(s, "unlock") /\ code' = [code EXCEPT ![s] = "skipped"]
         ELSE Goes(s, "init") /\ UNCHANGED code
    /\ UNCHANGED <<phase, manifest, held, failEvent, owner, exit>>

\* _init_pytest; a product that cannot be created leaves the attribute alone.
InitPytest(s) ==
    /\ stage[s] = "init"
    /\ \/ owner' = s /\ Goes(s, "start") /\ UNCHANGED code
       \/ /\ Goes(s, "unlock") /\ code' = [code EXCEPT ![s] = "raised"]
          /\ UNCHANGED owner
    /\ UNCHANGED <<phase, manifest, held, failEvent, exit>>

(* _device_start works on whatever pytest.products is by now; a session     *)
(* whose start raises stops nothing.                                       *)
StartDevices(s) ==
    /\ stage[s] = "start"
    /\ \/ Goes(s, "test") /\ UNCHANGED code
       \/ Goes(s, "unlock") /\ code' = [code EXCEPT ![s] = "raised"]
    /\ UNCHANGED <<phase, manifest, held, failEvent, owner, exit>>

\* pytest.main: the test bodies use pytest.product.
RunTests(s) ==
    /\ stage[s] = "test"
    /\ \E c \in {"passed", "failed", "raised"} : code' = [code EXCEPT ![s] = c]
    /\ Goes(s, "stop")
    /\ UNCHANGED <<phase, manifest, held, failEvent, owner, exit>>

\* The finally clause of runner.
StopDevices(s) ==
    /\ stage[s] = "stop"
    /\ Goes(s, IF code[s] = "raised" THEN "unlock" ELSE "mark")
    /\ UNCHANGED <<phase, manifest, held, code, failEvent, owner, exit>>

\* Mutant: a failure is announced once the worker has let its locks go.
MarkFailureLate(s) ==
    /\ stage[s] \in {"mark", "done"}
    /\ failEvent' = (failEvent \/ (stage[s] = "done" /\ options.failFast
                                     /\ Parallel /\ code[s] = "failed"))
    /\ IF stage[s] = "mark" THEN Goes(s, "unlock") ELSE UNCHANGED stage
    /\ UNCHANGED <<phase, manifest, held, code, owner, exit>>

MarkFailure(s) ==
    /\ stage[s] = "mark"
    /\ failEvent' = (failEvent \/ (Parallel /\ options.failFast
                                     /\ code[s] = "failed"))
    /\ Goes(s, "unlock")
    /\ UNCHANGED <<phase, manifest, held, code, owner, exit>>

\* Mutant: a session that raised keeps its locks.
ReleaseUnlessRaised(s) ==
    /\ stage[s] = "unlock"
    /\ code[s] # "raised"
    /\ \E l \in held[s] :
          /\ \A k \in held[s] : l <= k
          /\ held' = [held EXCEPT ![s] = @ \ {l}]
    /\ UNCHANGED <<phase, manifest, stage, code, failEvent, owner, exit>>

Release(s) ==
    /\ stage[s] = "unlock"
    /\ \E l \in held[s] :
          /\ \A k \in held[s] : l <= k
          /\ held' = [held EXCEPT ![s] = @ \ {l}]
    /\ UNCHANGED <<phase, manifest, stage, code, failEvent, owner, exit>>

AllReleased(s) ==
    /\ stage[s] = "unlock"
    /\ held[s] = {}
    /\ Goes(s, "done")
    /\ UNCHANGED <<phase, manifest, held, code, failEvent, owner, exit>>

SessionStep(s) ==
    \/ Begin(s) \/ Acquire(s) \/ AllAcquired(s) \/ CheckFailFast(s)
    \/ InitPytest(s) \/ StartDevices(s) \/ RunTests(s) \/ StopDevices(s)
    \/ MarkFailure(s) \/ Release(s) \/ AllReleased(s)

MainStep == Build \/ Collect \/ Report

Next == MainStep \/ \E s \in Sessions : SessionStep(s)

Spec == Init /\ [][Next]_vars

(* Threads are scheduled, and a session ends (TestSession's SessionEnds).   *)
FairSpec == Spec /\ WF_vars(MainStep)
                 /\ \A s \in Sessions : WF_vars(SessionStep(s))

-----------------------------------------------------------------------------
(* Properties. *)

(* "only one session holding a given resource can run at a time"            *)
(* (_run_parallel), from its check of the event to the last release.        *)
ResourceExclusive ==
    \A s, t \in Sessions :
        /\ Parallel /\ s # t
        /\ stage[s] \in Working /\ stage[t] \in Working
        => ~Overlap(s, t)

(* Locks make up for the shared module attributes: a session acts on the    *)
(* products of another only in parallel mode and only if the two share no  *)
(* resource (MyPytest._init_pytest, _device_start, _device_stop).          *)
CrossUseOnlyIfDisjoint ==
    \A s \in Sessions :
        stage[s] \in {"start", "test", "stop"} /\ owner # s
            => Parallel /\ ~Overlap(s, owner)

(* fail_fast: when a session failed, none that shares a resource with it    *)
(* and has not yet ended begins any more (_run_session).                   *)
FailFastStopsSharers ==
    \A s, t \in Sessions :
        /\ Parallel /\ options.failFast /\ s # t /\ Overlap(s, t)
        /\ code[s] = "failed" /\ stage[s] \in {"unlock", "done"}
        => stage[t] \notin Working

(* run() answers 0 only if every session of the manifest ran and passed,    *)
(* whichever were skipped, broken off or raised.                           *)
OkMeansAllPassed ==
    exit = "ok" => \A s \in Sessions : code[s] = "passed"

Blocked(s) ==
    /\ stage[s] = "locking"
    /\ \E l \in resources[s] \ held[s] :
          /\ \A k \in resources[s] \ held[s] : l <= k
          /\ ~Free(l)

(* "Resource locks are acquired in a consistent order ... to prevent        *)
(* deadlocks": while a session is not done some session is not waiting for  *)
(* a lock (_run_parallel).                                                 *)
NoCircularWait ==
    (\E s \in Sessions : stage[s] # "done")
        => \E s \in Sessions : stage[s] # "done" /\ ~Blocked(s)

(* Whatever the sessions share and whichever fail or raise, the run ends.   *)
RunEnds == <>(phase \in {"done", "aborted"})

(* "Sessions with no resources run fully in parallel"                       *)
(* (Documentation/multi-session.rst): the tests of a session run on its own *)
(* products.                                                               *)
SessionsIsolated ==
    \A s \in Sessions : stage[s] = "test" => owner = s
=============================================================================
