------------------------------ MODULE HccSlots ------------------------------
(***************************************************************************)
(* The slots that bound the concurrent requests to HCC, a counter and a    *)
(* queue of waiters global to the process (src/server/hcc-client.ts).      *)
(*                                                                         *)
(*  1. A call takes a slot when one is free, otherwise it queues up.       *)
(*  2. A call that ends passes its slot to the first waiter, whose         *)
(*     continuation runs later; the counter stays as it is meanwhile.      *)
(*  3. The signal of a call may fire at any time: before the call, while   *)
(*     it waits, after it was handed a slot but before it resumed, or      *)
(*     during its request.                                                 *)
(*                                                                         *)
(* JavaScript runs a handler to its next await, so each action is atomic.  *)
(* A caller makes one call after another, each with a signal of its own.   *)
(* An invocation the platform cancels, whose `finally' never runs, is not  *)
(* modelled.                                                               *)
(***************************************************************************)
EXTENDS Integers, Sequences, SequencesExt, FiniteSets

CONSTANTS
    Requests,   \* callers of fetchInfringements
    Capacity    \* BACKFILL_HCC_CONCURRENCY

ASSUME SlotsAssumption ==
    /\ IsFiniteSet(Requests)
    /\ Capacity \in Nat \ {0}

VARIABLES
    inFlight,   \* hccInFlight
    waiters,    \* hccWaiters: the callers whose wake functions are queued
    pc,         \* where each call is
    aborted     \* the calls whose signal has fired

vars == <<inFlight, waiters, pc, aborted>>

(***************************************************************************)
(* "granted": acquireHccSlot has resolved to true, but the continuation    *)
(* that looks at the signal again has not run.                             *)
(***************************************************************************)
Stages == {"idle", "waiting", "granted", "fetching"}

Holders == {r \in Requests : pc[r] \in {"granted", "fetching"}}

TypeOK ==
    /\ inFlight \in 0 .. Capacity
    /\ waiters \in Seq(Requests)
    /\ pc \in [Requests -> Stages]
    /\ aborted \subseteq Requests

Init ==
    /\ inFlight = 0
    /\ waiters = <<>>
    /\ pc = [r \in Requests |-> "idle"]
    /\ aborted = {}

-----------------------------------------------------------------------------
(* acquireHccSlot                                                          *)

\* Mutant: the limit test stops one call too early.
HasFreeSlotBelow == inFlight + 1 < Capacity

HasFreeSlot == inFlight < Capacity

\* Mutant: a waiter is put at the head of the queue.
EnqueuedFirst(r) == <<r>> \o waiters

Enqueued(r) == Append(waiters, r)

Dequeued(i) == RemoveAt(waiters, i)

\* The signal had fired before the call: it returns "cancelled" at once.
RefuseCall(r) ==
    /\ pc[r] = "idle"
    /\ r \in aborted
    /\ aborted' = aborted \ {r}
    /\ UNCHANGED <<inFlight, waiters, pc>>

\* The call finds a free slot.
TakeSlot(r) ==
    /\ pc[r] = "idle"
    /\ r \notin aborted
    /\ HasFreeSlot
    /\ inFlight' = inFlight + 1
    /\ pc' = [pc EXCEPT ![r] = "granted"]
    /\ UNCHANGED <<waiters, aborted>>

\* The call finds none, pushes its wake function and listens for the signal.
JoinQueue(r) ==
    /\ pc[r] = "idle"
    /\ r \notin aborted
    /\ ~HasFreeSlot
    /\ waiters' = Enqueued(r)
    /\ pc' = [pc EXCEPT ![r] = "waiting"]
    /\ UNCHANGED <<inFlight, aborted>>

\* onAbort of a waiter: it leaves the queue and the call ends as "cancelled".
AbortWaiter(r) ==
    /\ pc[r] = "waiting"
    /\ \E i \in DOMAIN waiters : waiters[i] = r /\ waiters' = Dequeued(i)
    /\ pc' = [pc EXCEPT ![r] = "idle"]
    /\ UNCHANGED <<inFlight, aborted>>

\* The signal fires while nobody listens on behalf of the queue.
Abort(r) ==
    /\ pc[r] # "waiting"
    /\ r \notin aborted
    /\ aborted' = aborted \cup {r}
    /\ UNCHANGED <<inFlight, waiters, pc>>

-----------------------------------------------------------------------------
(* releaseHccSlot, in the `finally' of fetchInfringements                  *)

\* Mutant: a release never wakes a waiter.
SomeoneWaitsIgnored == FALSE

SomeoneWaits == waiters # <<>>

\* Mutant: the slot is handed over and given back too.
HandOverAndFree(r) ==
    /\ waiters' = Tail(waiters)
    /\ pc' = [pc EXCEPT ![r] = "idle", ![Head(waiters)] = "granted"]
    /\ inFlight' = inFlight - 1

HandOver(r) ==
    /\ waiters' = Tail(waiters)
    /\ pc' = [pc EXCEPT ![r] = "idle", ![Head(waiters)] = "granted"]
    /\ UNCHANGED inFlight

FreeSlot(r) ==
    /\ inFlight' = inFlight - 1
    /\ pc' = [pc EXCEPT ![r] = "idle"]
    /\ UNCHANGED waiters

Release(r) ==
    /\ \/ SomeoneWaits /\ HandOver(r)
       \/ ~SomeoneWaits /\ FreeSlot(r)
    /\ aborted' = aborted \ {r}

-----------------------------------------------------------------------------
(* fetchInfringements                                                      *)

\* The call resumes with its slot and sends the request.
Resume(r) ==
    /\ pc[r] = "granted"
    /\ r \notin aborted
    /\ pc' = [pc EXCEPT ![r] = "fetching"]
    /\ UNCHANGED <<inFlight, waiters, aborted>>

\* The signal fired between the grant and the continuation.
ResumeAborted(r) ==
    /\ pc[r] = "granted"
    /\ r \in aborted
    /\ Release(r)

\* The request is answered, fails, or is cancelled by its signal.
Settle(r) ==
    /\ pc[r] = "fetching"
    /\ Release(r)

Proceed(r) == Resume(r) \/ ResumeAborted(r) \/ Settle(r)

Next ==
    \E r \in Requests :
        \/ RefuseCall(r) \/ TakeSlot(r) \/ JoinQueue(r)
        \/ AbortWaiter(r) \/ Abort(r)
        \/ Proceed(r)

Spec == Init /\ [][Next]_vars

(***************************************************************************)
(* A resolved promise runs its continuation, and a request to HCC ends:    *)
(* the code sets no timeout of its own, the runtime bounds a subrequest.   *)
(* Nothing obliges a caller to call or a signal to fire.                   *)
(***************************************************************************)
FairSpec == Spec /\ \A r \in Requests : WF_vars(Proceed(r))

-----------------------------------------------------------------------------
(***************************************************************************)
(* hccInFlight counts the calls that hold a slot, those handed one whose   *)
(* continuation has not run included: no abort, at whatever moment, leaks  *)
(* a slot or gives one back twice, so HCC never sees more than             *)
(* BACKFILL_HCC_CONCURRENCY requests at once.                              *)
(***************************************************************************)
CountIsExact == inFlight = Cardinality(Holders)

(***************************************************************************)
(* The queue of wake functions holds every waiting call once, and no other *)
(* call: a slot is never handed to a call that has gone, where it would be *)
(* lost, nor twice to one call.                                            *)
(***************************************************************************)
QueueIsExact ==
    /\ \A i, j \in DOMAIN waiters : waiters[i] = waiters[j] => i = j
    /\ \A r \in Requests :
          pc[r] = "waiting" <=> \E i \in DOMAIN waiters : waiters[i] = r

(***************************************************************************)
(* No call waits while a slot is free: releaseHccSlot decrements only when *)
(* nobody waits, so no wake-up is missed.                                  *)
(***************************************************************************)
NoIdleSlot == waiters # <<>> => inFlight = Capacity

\* r waits, and s does not wait ahead of it.
WaitsBefore(r, s) ==
    \E i \in DOMAIN waiters :
        waiters[i] = r /\ \A j \in 1 .. i - 1 : waiters[j] # s

(***************************************************************************)
(* First come, first served: while r waits, a call that was not ahead of   *)
(* it neither gets ahead of it in the queue nor is granted a slot, not     *)
(* even a new call that arrives while a slot changes hands.                *)
(***************************************************************************)
NoOvertaking ==
    [][\A r, s \in Requests :
          WaitsBefore(r, s) =>
              \/ pc'[r] # "waiting"
              \/ /\ WaitsBefore(r, s)'
                 /\ pc'[s] = "granted" => pc[s] = "granted"]_vars

(***************************************************************************)
(* A waiting call is handed a slot, or aborted, at last: the page a window *)
(* of a backfill waits for is fetched however busy the other windows are.  *)
(***************************************************************************)
NobodyStarves == \A r \in Requests : pc[r] = "waiting" ~> pc[r] # "waiting"
=============================================================================
