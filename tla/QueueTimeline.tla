--------------------------- MODULE QueueTimeline ---------------------------
(***************************************************************************)
(* The native multi-queue layer (src/src/queue.cyr and the queue, timeline *)
(* and IB-staging functions of src/src/backend_native.cyr): one logical    *)
(* queue per kind, each with a hardware ring and a persistent timeline     *)
(* syncobj, and one indirect-buffer BO cut into slices that every          *)
(* submission stages its packet stream into.                               *)
(*                                                                         *)
(* The CPU side is single-threaded.  The rings run beside it: a submission *)
(* the kernel accepted is a job that starts when it is the oldest of its   *)
(* ring and its in-CS wait is satisfied, and that signals its timeline     *)
(* point when it retires.  The kernel and the rings are modelled from how  *)
(* the code uses them.                                                     *)
(***************************************************************************)
EXTENDS RGSchedule

CONSTANTS
  Slots,    \* _NATIVE_IB_SLOTS: slices of the cached IB BO
  Faults    \* which calls may fail: a subset of FaultKinds

FaultKinds == {"get", "submit", "wait"}

ASSUME SlotsAssumption == Slots \in Nat \ {0}
ASSUME FaultsAssumption == Faults \subseteq FaultKinds

VARIABLES
  live,       \* kinds whose Queue struct (and syncobj) exists on the context
  point,      \* Queue.timeline_point, per kind
  pendOn,     \* Queue.pending_wait_syncobj: the kind whose syncobj it is
  pendPt,     \* Queue.pending_wait_point
  cursor,     \* the IB slice cursor of the context
  current,    \* the "current queue" stash of the context
  ib,         \* per slice, the stream staged there: <<kind, point>>
  submitted,  \* per syncobj, the highest point a fence was installed for
  started,    \* per ring, the point of the job it last started
  signalled,  \* per syncobj, the highest point signalled
  inflight    \* accepted jobs that have not retired

cpuVars  == <<live, point, pendOn, pendPt, cursor, current, ib>>
gpuVars  == <<submitted, started, signalled, inflight>>
timelineVars == <<cpuVars, gpuVars>>

SliceIds == 0 .. Slots - 1

\* A stream is named by the submission it was built for; a slice nothing is
\* staged in (or only cleared) holds NoStream.
NoStream == <<NoQueue, 0>>
Streams  == (QueueKinds \cup {NoQueue}) \X Nat

\* An accepted submission: ring and point, the in-CS wait, its IB slice.
Jobs == [q : QueueKinds, pt : Nat, on : QueueKinds \cup {NoQueue}, wpt : Nat,
         slice : SliceIds]

TimelineTypeOK ==
  /\ live \subseteq QueueKinds
  /\ point \in [QueueKinds -> Nat]
  /\ pendOn \in [QueueKinds -> QueueKinds \cup {NoQueue}]
  /\ pendPt \in [QueueKinds -> Nat]
  /\ cursor \in SliceIds
  /\ current \in QueueKinds \cup {NoQueue}
  /\ ib \in [SliceIds -> Streams]
  /\ submitted \in [QueueKinds -> Nat]
  /\ started \in [QueueKinds -> Nat]
  /\ signalled \in [QueueKinds -> Nat]
  /\ inflight \subseteq Jobs

TimelineInit ==
  /\ live = {}
  /\ point = [k \in QueueKinds |-> 0]
  /\ pendOn = [k \in QueueKinds |-> NoQueue]
  /\ pendPt = [k \in QueueKinds |-> 0]
  /\ cursor = 0
  /\ current = NoQueue
  /\ ib = [s \in SliceIds |-> NoStream]
  /\ submitted = [k \in QueueKinds |-> 0]
  /\ started = [k \in QueueKinds |-> 0]
  /\ signalled = [k \in QueueKinds |-> 0]
  /\ inflight = {}

-----------------------------------------------------------------------------
(* CPU operations.  Each is an action formula over the variables it names; *)
(* the composing module says what the rest of its state does.              *)

\* _backend_native_queue_get: the cached queue, or a new one with its syncobj.
QueueGet(k) ==
  /\ live' = live \cup {k}
  /\ UNCHANGED <<point, pendOn, pendPt, cursor, current, ib, gpuVars>>

\* native_syncobj_create refused it: no queue, nothing changes.
QueueGetFails(k) ==
  /\ "get" \in Faults
  /\ k \notin live
  /\ UNCHANGED timelineVars

\* Mutant: the barrier waits for the point before the producer's.
QueueBarrierEarly(src, dst) ==
  /\ pendOn' = [pendOn EXCEPT ![dst] = src]
  /\ pendPt' = [pendPt EXCEPT ![dst] = IF point[src] = 0 THEN 0 ELSE point[src] - 1]
  /\ UNCHANGED <<live, point, cursor, current, ib, gpuVars>>

\* Mutant: the barrier waits for a point the producer has not submitted yet.
QueueBarrierLate(src, dst) ==
  /\ pendOn' = [pendOn EXCEPT ![dst] = src]
  /\ pendPt' = [pendPt EXCEPT ![dst] = point[src] + 1]
  /\ UNCHANGED <<live, point, cursor, current, ib, gpuVars>>

\* _backend_native_queue_barrier: one pending-wait slot per queue, so a
\* barrier replaces the one before it; a source that never submitted is a no-op.
QueueBarrier(src, dst) ==
  /\ IF point[src] = 0
       THEN UNCHANGED <<pendOn, pendPt>>
       ELSE /\ pendOn' = [pendOn EXCEPT ![dst] = src]
            /\ pendPt' = [pendPt EXCEPT ![dst] = point[src]]
  /\ UNCHANGED <<live, point, cursor, current, ib, gpuVars>>

\* Mutant: the cursor wraps one slice too late.
NextSlotOverrun(c) == IF c + 1 > Slots THEN 0 ELSE c + 1

\* native_ctx_ib_advance.
NextSlot(c) == IF c + 1 >= Slots THEN 0 ELSE c + 1

\* The kernel resolves the in-CS wait before it accepts a submission; the
\* point must have a fence (nobody else can install one meanwhile: the only
\* CPU thread is in this call).
WaitResolves(q) == pendOn[q] # NoQueue => pendPt[q] <= submitted[pendOn[q]]

\* Mutant: the point is handed to the kernel but never stored.
StageAndBumpForgets(q) ==
  /\ ib' = [ib EXCEPT ![cursor] = <<q, point[q] + 1>>]
  /\ pendOn' = [pendOn EXCEPT ![q] = NoQueue]
  /\ pendPt' = [pendPt EXCEPT ![q] = 0]
  /\ UNCHANGED point

\* The common tail of the *_timeline drivers: stage the stream into the active
\* slice, read and clear the pending wait, bump the point, submit.  All of it
\* but the job happens whether or not the kernel accepts.
StageAndBump(q) ==
  /\ ib' = [ib EXCEPT ![cursor] = <<q, point[q] + 1>>]
  /\ pendOn' = [pendOn EXCEPT ![q] = NoQueue]
  /\ pendPt' = [pendPt EXCEPT ![q] = 0]
  /\ point' = [point EXCEPT ![q] = @ + 1]

\* Mutant: the pending wait is cleared before it is read into the chunk.
SubmitAcceptedUnordered(q) ==
  /\ WaitResolves(q)
  /\ StageAndBump(q)
  /\ submitted' = [submitted EXCEPT ![q] = point[q] + 1]
  /\ inflight' = inflight \cup
       {[q |-> q, pt |-> point[q] + 1, on |-> NoQueue, wpt |-> 0, slice |-> cursor]}
  /\ UNCHANGED <<started, signalled>>

SubmitAccepted(q) ==
  /\ WaitResolves(q)
  /\ StageAndBump(q)
  /\ submitted' = [submitted EXCEPT ![q] = point[q] + 1]
  /\ inflight' = inflight \cup
       {[q |-> q, pt |-> point[q] + 1, on |-> pendOn[q], wpt |-> pendPt[q],
         slice |-> cursor]}
  /\ UNCHANGED <<started, signalled>>

SubmitRefused(q) ==
  /\ "submit" \in Faults \/ ~WaitResolves(q)
  /\ StageAndBump(q)
  /\ UNCHANGED gpuVars

\* The SDMA chain builder found the copy too large for one slice: the slice is
\* cleared and the driver returns before it touches the queue.
ClearSlice ==
  /\ ib' = [ib EXCEPT ![cursor] = NoStream]
  /\ UNCHANGED <<point, pendOn, pendPt, gpuVars>>

\* Mutant: wait_idle compares with the point before the last one.
WaitSucceedsEarly(q) == point[q] = 0 \/ signalled[q] >= point[q] - 1

\* _backend_native_queue_wait_idle returns 0: nothing was ever bumped, or the
\* current point is signalled (and no context reset is reported).
WaitSucceeds(q) == point[q] = 0 \/ signalled[q] >= point[q]

\* ... or an error: the deadline passed or the context was reset, which may
\* happen at any time, and must happen when no fence carries the point.
WaitFails(q) == point[q] # 0 /\ ("wait" \in Faults \/ point[q] > submitted[q])

-----------------------------------------------------------------------------
(* The rings (external).                                                   *)

\* The oldest accepted job of ring q that has not retired.
Oldest(j) == \A o \in inflight : o.q = j.q => j.pt <= o.pt

RingStart(q) ==
  /\ started[q] = signalled[q]
  /\ \E j \in inflight :
       /\ j.q = q
       /\ Oldest(j)
       /\ j.on # NoQueue => signalled[j.on] >= j.wpt
       /\ started' = [started EXCEPT ![q] = j.pt]
  /\ UNCHANGED <<cpuVars, submitted, signalled, inflight>>

RingRetire(q) ==
  /\ started[q] # signalled[q]
  /\ signalled' = [signalled EXCEPT ![q] = started[q]]
  /\ inflight' = {j \in inflight : ~(j.q = q /\ j.pt = started[q])}
  /\ UNCHANGED <<cpuVars, submitted, started>>

-----------------------------------------------------------------------------
(* The timeline of a queue never runs ahead of itself: what is signalled   *)
(* was started, what was started was accepted, what was accepted was       *)
(* bumped; the jobs in flight are exactly between signalled and submitted, *)
(* at most one per point.                                                  *)
TimelineOrder ==
  /\ \A k \in QueueKinds : /\ signalled[k] <= started[k]
                           /\ started[k] <= submitted[k]
                           /\ submitted[k] <= point[k]
  /\ \A j \in inflight : signalled[j.q] < j.pt /\ j.pt <= submitted[j.q]
  /\ \A j, o \in inflight : j.q = o.q /\ j.pt = o.pt => j = o
  /\ \A k \in QueueKinds :
       signalled[k] < submitted[k] =>
         \E j \in inflight : j.q = k /\ j.pt = submitted[k]

\* A stream is not rewritten between its submission and its retirement.
StagedStreamIntact ==
  \A j \in inflight : ib[j.slice] = <<j.q, j.pt>>
=============================================================================
