------------------------ MODULE MCMarketOperationLive ------------------------
(***************************************************************************)
(* What must eventually happen to an operation.  Crashes, database failures,*)
(* leases that a live worker fails to renew in time and administrator       *)
(* requests get no fairness and a bounded number of occurrences; worker     *)
(* processes keep running and are started again, and the lease of an ended  *)
(* process runs out.                                                        *)
(***************************************************************************)
EXTENDS MCMarketOperationWorker

CONSTANTS MaxFaults, MaxRequests    \* bounds of this instance

VARIABLES faults, requests

liveVars == <<vars, faults, requests>>

LiveInit == Init /\ faults = 0 /\ requests = 0

WorkerRuns(w) == (Boot(w) \/ WorkerStep(w)) /\ UNCHANGED <<faults, requests>>
OrphanExpires(o) == row[o].owner = Gone /\ Expire(o) /\ UNCHANGED <<faults, requests>>

Fault == /\ faults < MaxFaults
         /\ \/ \E w \in Workers : Crash(w) \/ DatabaseStep(w)
            \/ \E o \in Ops : row[o].owner \in Workers /\ Expire(o)
         /\ faults' = faults + 1
         /\ UNCHANGED requests

Request == /\ requests < MaxRequests
           /\ \E o \in Ops : AdminStep(o)
           /\ requests' = requests + 1
           /\ UNCHANGED faults

LiveNext == \/ \E w \in Workers : WorkerRuns(w)
            \/ \E o \in Ops : OrphanExpires(o)
            \/ \E o \in Ops : SubmitStep(o) /\ UNCHANGED <<faults, requests>>
            \/ Fault
            \/ Request

BoundedSpec == LiveInit /\ [][LiveNext]_liveVars

LiveSpec == /\ BoundedSpec
            /\ \A w \in Workers : WF_liveVars(WorkerRuns(w))
            /\ \A o \in Ops : WF_liveVars(OrphanExpires(o))

\* A queued operation is eventually claimed or withdrawn: neither a crashed
\* predecessor on its dataset nor a lost race keeps it queued for ever.
PendingIsServed == \A o \in Ops : row[o].status = "PENDING" ~> row[o].status # "PENDING"

=============================================================================
