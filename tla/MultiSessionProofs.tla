------------------------- MODULE MultiSessionProofs -------------------------
(***************************************************************************)
(* Theorems about MultiSession, for every number of sessions and resources  *)
(* and every manifest.                                                     *)
(***************************************************************************)
EXTENDS MultiSession, WellFoundedInduction, TLAPS

-----------------------------------------------------------------------------
(* Type correctness. *)

(* Every step keeps every variable in its type, and no worker ever holds a  *)
(* lock its session does not name.                                         *)
LEMMA TypeStep ==
    ASSUME TypeOK, [Next]_vars
    PROVE  TypeOK'
<1> USE DEF TypeOK, Stages, Working, Codes, manifest, Goes
<1>1. CASE MainStep
  BY <1>1 DEF MainStep, Build, Collect, Report
<1>2. ASSUME NEW s \in Sessions, Begin(s) PROVE TypeOK'
  BY <1>2 DEF Begin
<1>3. ASSUME NEW s \in Sessions, Acquire(s) PROVE TypeOK'
  BY <1>3 DEF Acquire, Take
<1>4. ASSUME NEW s \in Sessions, AllAcquired(s) \/ CheckFailFast(s)
      PROVE  TypeOK'
  BY <1>4 DEF AllAcquired, CheckFailFast
<1>5. ASSUME NEW s \in Sessions, InitPytest(s) \/ StartDevices(s)
      PROVE  TypeOK'
  BY <1>5 DEF InitPytest, StartDevices
<1>6. ASSUME NEW s \in Sessions, RunTests(s) \/ StopDevices(s)
      PROVE  TypeOK'
  BY <1>6 DEF RunTests, StopDevices
<1>7. ASSUME NEW s \in Sessions, MarkFailure(s) PROVE TypeOK'
  BY <1>7 DEF MarkFailure, Parallel
<1>8. ASSUME NEW s \in Sessions, Release(s) \/ AllReleased(s) PROVE TypeOK'
  BY <1>8 DEF Release, AllReleased
<1>9. CASE UNCHANGED vars
  BY <1>9 DEF vars
<1> QED BY <1>1, <1>2, <1>3, <1>4, <1>5, <1>6, <1>7, <1>8, <1>9
        DEF Next, SessionStep

(* Every run of a manifest is well typed. *)
THEOREM MultiTypeCorrect == Spec => []TypeOK
<1>1. Init => TypeOK
  BY DEF Init, TypeOK, Stages, Codes
<1>2. TypeOK /\ [Next]_vars => TypeOK'
  BY TypeStep
<1> QED BY <1>1, <1>2, PTL DEF Spec

-----------------------------------------------------------------------------
(* The locks. *)

\* A lock has one holder; a session past its acquisition holds all it needs.
LockInv ==
    /\ \A s, t \in Sessions : s # t => held[s] \cap held[t] = {}
    /\ \A s \in Sessions :
          /\ Parallel /\ stage[s] \in Working \cup {"check"}
                => held[s] = resources[s]
          /\ stage[s] \in {"waiting", "done"} => held[s] = {}
          /\ stage[s] = "locking" =>
                \A l \in held[s], k \in resources[s] \ held[s] : l < k
    /\ ~Parallel => \A s \in Sessions : held[s] = {} /\ stage[s] # "locking"

(* The steps that neither take nor release a lock keep the lock invariant. *)
LEMMA LockFrame ==
    ASSUME TypeOK, LockInv, NEW s \in Sessions, UNCHANGED <<manifest, held>>,
           NEW next \in Stages, Goes(s, next),
           \/ next \in Working \cup {"check"} /\ stage[s] \in Working \cup {"check"}
           \/ next = "unlock"
           \/ next \in {"check", "done"} /\ held[s] = {} /\ ~Parallel
           \/ next = "done" /\ held[s] = {}
           \/ next = "check" /\ held[s] = resources[s]
           \/ next = "locking" /\ held[s] = {} /\ Parallel
    PROVE  LockInv'
BY DEF LockInv, TypeOK, Goes, manifest, Parallel, Stages, Working

(* Taking the least missing lock keeps the locks below the missing ones;   *)
(* releasing one gives up what nobody else holds.                          *)
LEMMA LockStep ==
    ASSUME TypeOK, LockInv, [Next]_vars
    PROVE  LockInv'
<1> USE DEF Stages, Working
<1>1. CASE MainStep \/ UNCHANGED vars
  BY <1>1 DEF MainStep, Build, Collect, Report, LockInv, vars, manifest, Parallel
<1>2. ASSUME NEW s \in Sessions, Begin(s) PROVE LockInv'
  <2>1. held[s] = {}
    BY <1>2 DEF Begin, LockInv
  <2>2. CASE Parallel /\ Goes(s, "locking")
    BY <1>2, <2>1, <2>2, LockFrame DEF Begin
  <2>3. CASE ~Parallel /\ Goes(s, "check")
    BY <1>2, <2>1, <2>3, LockFrame DEF Begin
  <2> QED BY <1>2, <2>2, <2>3 DEF Begin
<1>3. ASSUME NEW s \in Sessions, Acquire(s) PROVE LockInv'
  <2>1. PICK l \in resources[s] \ held[s] :
          /\ \A k \in resources[s] \ held[s] : l <= k
          /\ Free(l)
          /\ Take(s, l)
    BY <1>3 DEF Acquire
  <2>2. /\ held' = [held EXCEPT ![s] = @ \cup {l}]
        /\ UNCHANGED <<manifest, stage>>
    BY <2>1 DEF Take, manifest
  <2>3. \A t \in Sessions : l \notin held[t]
    BY <2>1 DEF Free
  <2>4. \A t, u \in Sessions : t # u => held'[t] \cap held'[u] = {}
    BY <2>2, <2>3 DEF LockInv, TypeOK
  <2>5. stage[s] = "locking" /\ Parallel
    BY <1>3 DEF Acquire, LockInv
  <2>6. \A j \in held'[s], k \in resources[s] \ held'[s] : j < k
    <3>1. resources[s] \subseteq Nat /\ held[s] \subseteq Nat
      BY NumberAssumption DEF TypeOK, Locks
    <3>2. held'[s] = held[s] \cup {l}
      BY <2>2 DEF TypeOK
    <3> QED BY <2>1, <2>5, <3>1, <3>2 DEF LockInv
  <2> QED BY <2>2, <2>4, <2>5, <2>6 DEF LockInv, TypeOK, manifest, Parallel
<1>4. ASSUME NEW s \in Sessions, AllAcquired(s) PROVE LockInv'
  <2>1. held[s] = resources[s]
    BY <1>4 DEF AllAcquired, TypeOK
  <2> QED BY <1>4, <2>1, LockFrame DEF AllAcquired
<1>5. ASSUME NEW s \in Sessions,
             \/ CheckFailFast(s) \/ InitPytest(s) \/ StartDevices(s)
             \/ RunTests(s) \/ StopDevices(s) \/ MarkFailure(s)
      PROVE  LockInv'
  <2>1. /\ stage[s] \in Working \cup {"check"}
        /\ UNCHANGED <<manifest, held>>
    BY <1>5 DEF CheckFailFast, InitPytest, StartDevices, RunTests, StopDevices,
                MarkFailure, manifest
  <2>2. \E next \in Working \cup {"unlock"} : Goes(s, next)
    BY <1>5 DEF CheckFailFast, InitPytest, StartDevices, RunTests, StopDevices,
                MarkFailure
  <2> QED BY <2>1, <2>2, LockFrame
<1>6. ASSUME NEW s \in Sessions, Release(s) PROVE LockInv'
  <2>1. PICK l \in held[s] : held' = [held EXCEPT ![s] = @ \ {l}]
    BY <1>6 DEF Release
  <2>2. stage[s] = "unlock" /\ UNCHANGED <<manifest, stage>>
    BY <1>6 DEF Release, manifest
  <2> QED BY <2>1, <2>2 DEF LockInv, TypeOK, manifest, Parallel
<1>7. ASSUME NEW s \in Sessions, AllReleased(s) PROVE LockInv'
  BY <1>7, LockFrame DEF AllReleased
<1> QED BY <1>1, <1>2, <1>3, <1>4, <1>5, <1>6, <1>7 DEF Next, SessionStep

(* The lock invariant holds of every run. *)
LEMMA LockInvariant == Spec => []LockInv
<1>1. Init => LockInv
  BY DEF Init, LockInv, Working
<1>2. TypeOK /\ LockInv /\ [Next]_vars => LockInv'
  BY LockStep
<1> QED BY <1>1, <1>2, MultiTypeCorrect, PTL DEF Spec

(* At any moment at most one session holding a given resource runs          *)
(* (_run_parallel).                                                        *)
THEOREM ResourcesExclude == Spec => []ResourceExclusive
<1>1. LockInv => ResourceExclusive
  BY DEF LockInv, ResourceExclusive, Overlap
<1> QED BY <1>1, LockInvariant, PTL

-----------------------------------------------------------------------------
(* No deadlock. *)

(* A non-empty set of naturals has a least element. *)
LEMMA LeastNat ==
    ASSUME NEW T \in SUBSET Nat, T # {}
    PROVE  \E x \in T : \A y \in T : x <= y
<1> DEFINE R == OpToRel(<, Nat)
<1>1. IsWellFoundedOn(R, Nat)
  BY NatLessThanWellFounded, Zenon
<1>2. PICK x \in T : \A y \in T : <<y, x>> \notin R
  BY <1>1, WFMin, Zenon
<1>3. \A y \in T : ~(y < x)
  BY <1>2, Zenon DEF OpToRel
<1> QED BY <1>3

(* A non-empty set of locks has a greatest element. *)
LEMMA GreatestLock ==
    ASSUME NEW T \in SUBSET Locks, T # {}
    PROVE  \E x \in T : \A y \in T : y <= x
<1> DEFINE D == {L - x : x \in T}
<1>1. D \in SUBSET Nat /\ D # {}
  <2>1. ASSUME NEW x \in T PROVE L - x \in Nat
    BY NumberAssumption DEF Locks
  <2>2. D \in SUBSET Nat
    BY <2>1
  <2>3. PICK x \in T : TRUE
    OBVIOUS
  <2>4. L - x \in D
    BY <2>3
  <2> QED BY <2>2, <2>4
<1>2. PICK d \in D : \A e \in D : d <= e
  <2> HIDE DEF D
  <2> QED BY <1>1, LeastNat
<1>3. PICK x \in T : d = L - x
  BY <1>2
<1>4. ASSUME NEW y \in T PROVE y <= x
  <2>1. L - y \in D
    OBVIOUS
  <2>2. L - x <= L - y
    BY <1>2, <1>3, <2>1
  <2>3. x \in Nat /\ y \in Nat
    BY NumberAssumption DEF Locks
  <2> QED BY <2>2, <2>3, NumberAssumption
<1> QED BY <1>4

(* While some session is not done, some session that is not done does not   *)
(* wait for a lock (_run_parallel: the locks are taken in one order).       *)
(* Otherwise take the session that waits for the greatest lock: the holder  *)
(* of that lock waits too, and what it waits for is greater than all it     *)
(* holds.                                                                  *)
THEOREM LocksNeverCircular == Spec => []NoCircularWait
<1>1. TypeOK /\ LockInv => NoCircularWait
  <2> SUFFICES ASSUME TypeOK, LockInv,
                      NEW s0 \in Sessions, stage[s0] # "done",
                      \A s \in Sessions : stage[s] # "done" => Blocked(s)
               PROVE  FALSE
    BY DEF NoCircularWait
  <2> DEFINE Waits(s, l) == /\ stage[s] = "locking"
                            /\ l \in resources[s] \ held[s]
                            /\ \A k \in resources[s] \ held[s] : l <= k
                            /\ ~Free(l)
             Wanted == {l \in Locks : \E s \in Sessions : Waits(s, l)}
  <2>1. \A s \in Sessions : stage[s] # "done" => \E l \in Locks : Waits(s, l)
    BY DEF Blocked, TypeOK
  <2>2. Wanted # {}
    BY <2>1
  <2>3. PICK top \in Wanted : \A l \in Wanted : l <= top
    <3>1. Wanted \in SUBSET Locks
      OBVIOUS
    <3> HIDE DEF Wanted
    <3> QED BY <2>2, <3>1, GreatestLock
  <2>4. PICK t \in Sessions : top \in held[t]
    BY <2>3 DEF Free
  <2>5. stage[t] # "done"
    BY <2>4 DEF LockInv
  <2>6. PICK next \in Locks : Waits(t, next)
    BY <2>1, <2>5
  <2>7. top < next
    BY <2>4, <2>6 DEF LockInv
  <2>8. next <= top
    BY <2>3, <2>6
  <2> QED BY <2>3, <2>7, <2>8, NumberAssumption DEF Locks
<1> QED BY <1>1, MultiTypeCorrect, LockInvariant, PTL

-----------------------------------------------------------------------------
(* The order of the sequential mode, and the shared attributes. *)

(* A step of a session that is not done changes the stage and the result of *)
(* that session only, and nothing the main thread decides.                 *)
LEMMA LocalStep ==
    ASSUME TypeOK, NEW s \in Sessions, SessionStep(s)
    PROVE  /\ stage[s] # "done" /\ stage'[s] # "waiting"
           /\ stage' \in [Sessions -> Stages]
           /\ \A t \in Sessions \ {s} :
                  stage'[t] = stage[t] /\ code'[t] = code[t]
           /\ UNCHANGED <<phase, manifest, exit>>
           /\ stage[s] = "waiting" => phase = "test" /\ code' = code
<1> USE DEF TypeOK, Stages, Working, Codes, Goes, manifest
<1>1. CASE Begin(s)
  BY <1>1 DEF Begin
<1>2. CASE Acquire(s) \/ AllAcquired(s) \/ CheckFailFast(s)
  BY <1>2 DEF Acquire, Take, AllAcquired, CheckFailFast
<1>3. CASE InitPytest(s) \/ StartDevices(s)
  BY <1>3 DEF InitPytest, StartDevices
<1>4. CASE RunTests(s) \/ StopDevices(s) \/ MarkFailure(s)
  BY <1>4 DEF RunTests, StopDevices, MarkFailure
<1>5. CASE Release(s) \/ AllReleased(s)
  BY <1>5 DEF Release, AllReleased
<1> QED BY <1>1, <1>2, <1>3, <1>4, <1>5 DEF SessionStep

\* Without workers the sessions begin in order, each after the one before it
\* ended well; outside the test phase none is under way.
OrderInv ==
    /\ ~Parallel =>
          \A s, t \in Sessions :
              s < t /\ stage[t] # "waiting" =>
                  /\ stage[s] = "done" /\ code[s] # "raised"
                  /\ options.failFast => code[s] # "failed"
    /\ phase # "test" => \A s \in Sessions : stage[s] \in {"waiting", "done"}

(* The sessions after the one that steps have not begun, those before it    *)
(* are done; a break of the loop or an exception finds the last one done.   *)
LEMMA OrderStep ==
    ASSUME TypeOK, OrderInv, [Next]_vars
    PROVE  OrderInv'
<1>1. CASE Build \/ Report \/ UNCHANGED vars
  BY <1>1 DEF Build, Report, vars, OrderInv, manifest, Parallel
<1>2. CASE Collect
  <2>1. UNCHANGED <<manifest, stage, code>> /\ phase = "test"
    BY <1>2 DEF Collect, manifest
  <2>2. \A s \in Sessions : stage[s] \in {"waiting", "done"}
    <3>1. CASE Finished = Sessions
      BY <3>1 DEF Finished
    <3>2. CASE Stopped \/ (~Parallel /\ Raised \cap Finished # {})
      <4>1. PICK s \in Sessions :
              /\ stage[s] = "done" /\ ~Parallel
              /\ \/ code[s] = "raised"
                 \/ options.failFast /\ code[s] = "failed"
        BY <3>2 DEF Stopped, Finished, Raised
      <4>2. ASSUME NEW t \in Sessions PROVE stage[t] \in {"waiting", "done"}
        <5>1. t = s \/ t < s \/ s < t
          BY NumberAssumption DEF Sessions
        <5> QED BY <4>1, <5>1 DEF OrderInv
      <4> QED BY <4>2
    <3> QED BY <1>2, <3>1, <3>2 DEF Collect
  <2> QED BY <2>1, <2>2 DEF OrderInv, manifest, Parallel
<1>3. ASSUME NEW s \in Sessions, SessionStep(s) PROVE OrderInv'
  <2>1. /\ stage[s] # "done" /\ stage'[s] # "waiting"
        /\ \A t \in Sessions \ {s} :
              stage'[t] = stage[t] /\ code'[t] = code[t]
        /\ UNCHANGED <<phase, manifest>>
        /\ stage[s] = "waiting" => phase = "test" /\ code' = code
    BY <1>3, LocalStep DEF manifest
  <2>2. phase = "test"
    BY <2>1 DEF OrderInv
  <2>3. ASSUME ~Parallel, NEW t \in Sessions, NEW u \in Sessions,
               t < u, stage'[u] # "waiting"
        PROVE  /\ stage'[t] = "done" /\ code'[t] # "raised"
               /\ options.failFast => code'[t] # "failed"
    <3>1. CASE u # s
      BY <2>1, <2>3, <3>1 DEF OrderInv
    <3>2. CASE u = s /\ stage[s] # "waiting"
      <4>1. t # s
        BY <2>3, <3>2, NumberAssumption DEF Sessions
      <4> QED BY <2>1, <2>3, <3>2, <4>1 DEF OrderInv
    <3>3. CASE u = s /\ stage[s] = "waiting"
      <4>1. t # s /\ t \in 1..(s - 1)
        BY <2>3, <3>3, NumberAssumption DEF Sessions
      <4>2. Begin(s)
        BY <1>3, <3>3 DEF SessionStep, Acquire, AllAcquired, CheckFailFast,
             InitPytest, StartDevices, RunTests, StopDevices, MarkFailure,
             Release, AllReleased
      <4>3. ~Stopped /\ Raised = {} /\ stage[t] = "done"
        BY <2>3, <4>1, <4>2 DEF Begin
      <4> QED BY <2>1, <2>3, <4>1, <4>3 DEF Stopped, Raised, Finished
    <3> QED BY <3>1, <3>2, <3>3
  <2> QED BY <2>1, <2>2, <2>3 DEF OrderInv, Parallel, manifest
<1> QED BY <1>1, <1>2, <1>3 DEF Next, MainStep

LEMMA OrderInvariant == Spec => []OrderInv
<1>1. Init => OrderInv
  BY DEF Init, OrderInv
<1>2. TypeOK /\ OrderInv /\ [Next]_vars => OrderInv'
  BY OrderStep
<1> QED BY <1>1, <1>2, MultiTypeCorrect, PTL DEF Spec

\* A session uses products of its own or of one it shares no resource with.
UseInv ==
    \A s \in Sessions :
        stage[s] \in {"start", "test", "stop"} /\ owner # s
            => Parallel /\ owner \in Sessions /\ ~Overlap(s, owner)

(* Only InitPytest changes the owner: in sequential mode no other session   *)
(* is under way then, in parallel mode the others hold their own locks.     *)
LEMMA UseStep ==
    ASSUME TypeOK, LockInv, OrderInv, UseInv, [Next]_vars
    PROVE  UseInv'
<1> USE DEF Stages, Working
<1>1. CASE MainStep \/ UNCHANGED vars
  BY <1>1 DEF MainStep, Build, Collect, Report, vars, UseInv, manifest,
              Parallel, Overlap
<1>2. ASSUME NEW s \in Sessions, InitPytest(s), owner' = s PROVE UseInv'
  <2>1. /\ owner' = s /\ stage[s] = "init" /\ UNCHANGED manifest
        /\ \A t \in Sessions \ {s} : stage'[t] = stage[t]
    BY <1>2 DEF InitPytest, Goes, TypeOK, manifest
  <2>2. ASSUME NEW t \in Sessions, t # s,
               stage[t] \in {"start", "test", "stop"}
        PROVE  Parallel /\ ~Overlap(t, s)
    <3>1. Parallel
      <4>1. t < s \/ s < t
        BY <2>2, NumberAssumption DEF Sessions
      <4> QED BY <2>1, <2>2, <4>1 DEF OrderInv
    <3>2. held[s] = resources[s] /\ held[t] = resources[t]
      BY <2>1, <2>2, <3>1 DEF LockInv
    <3> QED BY <2>2, <3>1, <3>2 DEF LockInv, Overlap
  <2> QED BY <2>1, <2>2 DEF UseInv, Overlap, Parallel, manifest
<1>3. ASSUME NEW s \in Sessions, SessionStep(s),
             InitPytest(s) => owner' # s
      PROVE  UseInv'
  <2>1. UNCHANGED owner
    BY <1>3 DEF SessionStep, Begin, Acquire, Take, AllAcquired, CheckFailFast,
         InitPytest, StartDevices, RunTests, StopDevices, MarkFailure, Release,
         AllReleased
  <2>2. stage'[s] \in {"start", "test", "stop"}
            => stage[s] \in {"start", "test", "stop"}
    BY <1>3 DEF SessionStep, Begin, Acquire, Take, AllAcquired, CheckFailFast,
         InitPytest, StartDevices, RunTests, StopDevices, MarkFailure, Release,
         AllReleased, Goes, TypeOK
  <2>3. /\ UNCHANGED manifest
        /\ \A t \in Sessions \ {s} : stage'[t] = stage[t]
    BY <1>3, LocalStep DEF manifest
  <2> QED BY <2>1, <2>2, <2>3 DEF UseInv, Overlap, Parallel, manifest
<1> QED BY <1>1, <1>2, <1>3 DEF Next

(* A session acts on the products of another only in parallel mode and only *)
(* if the two share no resource (MyPytest._init_pytest, _device_start).     *)
THEOREM UseOfOthers == Spec => []CrossUseOnlyIfDisjoint
<1>1. Init => UseInv
  BY DEF Init, UseInv
<1>2. TypeOK /\ LockInv /\ OrderInv /\ UseInv /\ [Next]_vars => UseInv'
  BY UseStep
<1>3. UseInv => CrossUseOnlyIfDisjoint
  BY DEF UseInv, CrossUseOnlyIfDisjoint
<1> QED BY <1>1, <1>2, <1>3, MultiTypeCorrect, LockInvariant, OrderInvariant,
           PTL DEF Spec

-----------------------------------------------------------------------------
(* Fail-fast. *)

\* A failure is announced before its session lets the first lock go.
FailInv ==
    /\ FailFastStopsSharers
    /\ \A s \in Sessions :
          Parallel /\ options.failFast /\ code[s] = "failed"
            /\ stage[s] \in {"unlock", "done"} => failEvent

(* MarkFailure finds no sharer at work, because of the locks, and           *)
(* CheckFailFast lets none begin afterwards, because of the event.          *)
LEMMA FailStep ==
    ASSUME TypeOK, LockInv, FailInv, [Next]_vars
    PROVE  FailInv'
<1> USE DEF Stages, Working
<1>1. CASE MainStep \/ UNCHANGED vars
  BY <1>1 DEF MainStep, Build, Collect, Report, vars, FailInv, manifest,
              FailFastStopsSharers, Parallel, Overlap
<1>2. ASSUME NEW s \in Sessions, SessionStep(s) PROVE FailInv'
  <2>1. /\ UNCHANGED manifest
        /\ \A t \in Sessions \ {s} :
              stage'[t] = stage[t] /\ code'[t] = code[t]
    BY <1>2, LocalStep DEF manifest
  <2>2. failEvent => failEvent'
    BY <1>2 DEF SessionStep, Begin, Acquire, Take, AllAcquired, CheckFailFast,
         InitPytest, StartDevices, RunTests, StopDevices, MarkFailure, Release,
         AllReleased
  <2>3. \/ /\ stage[s] \in {"unlock", "done"} /\ code'[s] = code[s]
           /\ stage'[s] \in {"unlock", "done"}
        \/ stage[s] = "mark" /\ MarkFailure(s)
        \/ code'[s] # "failed" \/ stage'[s] \notin {"unlock", "done"}
    BY <1>2 DEF SessionStep, Begin, Acquire, Take, AllAcquired, CheckFailFast,
         InitPytest, StartDevices, RunTests, StopDevices, MarkFailure, Release,
         AllReleased, Goes, TypeOK
  <2>4. \A t \in Sessions :
            Parallel /\ options.failFast /\ code'[t] = "failed"
              /\ stage'[t] \in {"unlock", "done"} => failEvent'
    BY <2>1, <2>2, <2>3 DEF FailInv, MarkFailure
  <2>5. stage'[s] \in Working => stage[s] \in Working \/ ~failEvent
    BY <1>2 DEF SessionStep, Begin, Acquire, Take, AllAcquired, CheckFailFast,
         InitPytest, StartDevices, RunTests, StopDevices, MarkFailure, Release,
         AllReleased, Goes, TypeOK
  <2>6. ASSUME NEW t \in Sessions, NEW u \in Sessions, t # u,
               Parallel, options.failFast, Overlap(t, u),
               code'[t] = "failed", stage'[t] \in {"unlock", "done"},
               stage'[u] \in Working
        PROVE  FALSE
    <3>1. CASE t # s
      <4>1. failEvent /\ stage[u] \notin Working
        BY <2>1, <2>6, <3>1 DEF FailInv, FailFastStopsSharers
      <4> QED BY <2>1, <2>5, <2>6, <4>1
    <3>2. CASE t = s /\ stage[s] \in {"unlock", "done"} /\ code'[s] = code[s]
      BY <2>1, <2>6, <3>2 DEF FailInv, FailFastStopsSharers
    <3>3. CASE t = s /\ stage[s] = "mark"
      <4>1. held[s] = resources[s] /\ held[u] = resources[u]
        BY <2>1, <2>6, <3>3 DEF LockInv
      <4> QED BY <2>6, <3>3, <4>1 DEF LockInv, Overlap
    <3> QED BY <2>3, <2>6, <3>1, <3>2, <3>3
  <2> QED BY <2>1, <2>4, <2>6
          DEF FailInv, FailFastStopsSharers, Overlap, Parallel, manifest
<1> QED BY <1>1, <1>2 DEF Next

(* With fail_fast, a session that failed stops every one that shares a      *)
(* resource with it and is not yet done (_run_session, _run_parallel).      *)
THEOREM FailureStopsSharers == Spec => []FailFastStopsSharers
<1>1. Init => FailInv
  BY DEF Init, FailInv, FailFastStopsSharers
<1>2. TypeOK /\ LockInv /\ FailInv /\ [Next]_vars => FailInv'
  BY FailStep
<1>3. FailInv => FailFastStopsSharers
  BY DEF FailInv
<1> QED BY <1>1, <1>2, <1>3, MultiTypeCorrect, LockInvariant, PTL DEF Spec

-----------------------------------------------------------------------------
(* The exit code. *)

\* A report covers all sessions, or the failed one that ended the loop.
ExitInv ==
    /\ phase = "report" =>
          /\ Raised = {}
          /\ Finished = Sessions
                \/ \E s \in Finished : code[s] = "failed"
    /\ exit = "ok" => phase = "done" /\ OkMeansAllPassed

(* No session is under way when the results are collected, so none changes  *)
(* its result afterwards.                                                  *)
LEMMA ExitStep ==
    ASSUME TypeOK, OrderInv, ExitInv, [Next]_vars
    PROVE  ExitInv'
<1> USE DEF ExitInv, OkMeansAllPassed
<1>1. CASE Build \/ UNCHANGED vars
  BY <1>1 DEF Build, vars, Raised, Finished
<1>2. CASE Collect
  BY <1>2 DEF Collect, Stopped, Raised, Finished
<1>3. CASE Report
  <2>1. phase = "report" /\ phase' = "done" /\ UNCHANGED code
    BY <1>3 DEF Report
  <2>2. ASSUME \A s \in Finished \ Raised : code[s] = "passed"
        PROVE  \A s \in Sessions : code[s] = "passed"
    BY <2>1, <2>2 DEF Finished
  <2> QED BY <1>3, <2>1, <2>2 DEF Report
<1>4. ASSUME NEW s \in Sessions, SessionStep(s) PROVE ExitInv'
  <2>1. /\ stage[s] # "done" /\ UNCHANGED <<phase, exit>>
        /\ stage[s] = "waiting" => phase = "test"
    BY <1>4, LocalStep
  <2>2. phase = "test"
    BY <2>1 DEF OrderInv
  <2> QED BY <2>1, <2>2
<1> QED BY <1>1, <1>2, <1>3, <1>4 DEF Next, MainStep

(* run() answers 0 only if every session of the manifest ran and passed     *)
(* (MultiSessionRunner.run).                                               *)
THEOREM SuccessMeansAllPassed == Spec => []OkMeansAllPassed
<1>1. Init => ExitInv
  BY DEF Init, ExitInv
<1>2. TypeOK /\ OrderInv /\ ExitInv /\ [Next]_vars => ExitInv'
  BY ExitStep
<1>3. ExitInv => OkMeansAllPassed
  BY DEF ExitInv, OkMeansAllPassed
<1> QED BY <1>1, <1>2, <1>3, MultiTypeCorrect, OrderInvariant, PTL DEF Spec
=============================================================================
