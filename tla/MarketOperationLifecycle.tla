---------------------- MODULE MarketOperationLifecycle ----------------------
(***************************************************************************)
(* What the queue promises, whoever works on it: the transition graph,     *)
(* monotone progress and lease rules that the trigger                      *)
(* protect_market_data_operation and the unique indexes enforce, together  *)
(* with the evidence an outcome needs.  There are no workers, sessions,    *)
(* local jobs or files here: only rows and the chunks committed for them.  *)
(***************************************************************************)
EXTENDS Integers

CONSTANTS Ops, DatasetOf, Chunks

VARIABLES
    status,     \* status[o], "ABSENT" before o is inserted
    leased,     \* leased[o]: lease_owner is not null
    done,       \* done[o]: chunks_completed
    durable     \* durable[o]: chunks committed with a receipt

lifecycleVars == <<status, leased, done, durable>>

Controls == {"PAUSE_REQUESTED", "CANCEL_REQUESTED"}
Terminal == {"COMPLETED", "FAILED", "CANCELLED"}
Executing == {"CLAIMED", "RUNNING"}

Busy(d) == \E o \in Ops : DatasetOf[o] = d /\ (leased[o] \/ status[o] \in Executing)

Init ==
    /\ status = [o \in Ops |-> "ABSENT"]
    /\ leased = [o \in Ops |-> FALSE]
    /\ done = [o \in Ops |-> 0]
    /\ durable = [o \in Ops |-> 0]

\* One update of row o.
Update(o, s, l, n) ==
    /\ status' = [status EXCEPT ![o] = s]
    /\ leased' = [leased EXCEPT ![o] = l]
    /\ done' = [done EXCEPT ![o] = n]
    /\ UNCHANGED durable

Insert(o) == status[o] = "ABSENT" /\ Update(o, "PENDING", FALSE, 0)

Claim(o) == /\ status[o] = "PENDING"
            /\ ~Busy(DatasetOf[o])
            /\ Update(o, "CLAIMED", TRUE, done[o])

\* A control that nobody holds is leased only to be settled.
HoldControl(o) == /\ status[o] \in Controls /\ ~leased[o]
                  /\ ~Busy(DatasetOf[o])
                  /\ Update(o, status[o], TRUE, done[o])

Start(o) == status[o] = "CLAIMED" /\ Update(o, "RUNNING", TRUE, done[o])

\* Administrators ask; the lease stays where it is.
Request(o, s) ==
    /\ \/ s = "PAUSE_REQUESTED" /\ status[o] \in {"PENDING"} \cup Executing
       \/ s = "CANCEL_REQUESTED" /\ status[o] \in {"PENDING", "PAUSED"} \cup Executing
       \/ s = "PENDING" /\ status[o] = "PAUSED"
    /\ Update(o, s, leased[o], done[o])

Commit(o) == /\ durable[o] < Chunks
             /\ durable' = [durable EXCEPT ![o] = @ + 1]
             /\ UNCHANGED <<status, leased, done>>

\* Progress is published while leased, never beyond what is durable.
Publish(o, n) == /\ leased[o]
                 /\ done[o] <= n /\ n <= durable[o]
                 /\ Update(o, status[o], TRUE, n)

\* The worker's answer to a request, or its failure, ends the lease.
Acknowledge(o, s) ==
    /\ \/ s = "PAUSED" /\ status[o] = "PAUSE_REQUESTED"
       \/ s = "CANCELLED" /\ status[o] = "CANCEL_REQUESTED"
       \/ s = "FAILED" /\ leased[o] /\ status[o] \in Executing \cup Controls
    /\ Update(o, s, FALSE, done[o])

Complete(o) == /\ leased[o]
               /\ status[o] \in {"RUNNING"} \cup Controls
               /\ done[o] = Chunks /\ durable[o] = Chunks
               /\ Update(o, "COMPLETED", FALSE, Chunks)

\* Only a leased row can be taken over ...
TakeOver(o) == leased[o] /\ Update(o, "RECOVERING", TRUE, done[o])

\* ... and whoever took it over says where it stands.
Resolve(o, s, n) ==
    /\ status[o] = "RECOVERING"
    /\ s \in {"RUNNING", "PAUSED"} \cup Terminal
    /\ done[o] <= n /\ n <= durable[o]
    /\ s = "COMPLETED" => n = Chunks
    /\ Update(o, s, s = "RUNNING", n)

Next == \E o \in Ops :
    \/ Insert(o) \/ Claim(o) \/ HoldControl(o) \/ Start(o) \/ Commit(o)
    \/ Complete(o) \/ TakeOver(o)
    \/ \E s \in Controls \cup {"PENDING"} : Request(o, s)
    \/ \E s \in {"PAUSED"} \cup Terminal : Acknowledge(o, s)
    \/ \E n \in 0..Chunks : Publish(o, n)
    \/ \E s \in {"RUNNING", "PAUSED"} \cup Terminal, n \in 0..Chunks : Resolve(o, s, n)

Spec == Init /\ [][Next]_lifecycleVars
=============================================================================
