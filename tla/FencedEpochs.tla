----------------------------- MODULE FencedEpochs -----------------------------
(***************************************************************************)
(* The contract between administrators and workers about a sequence of     *)
(* operational epochs, as the tables' triggers and both decision records   *)
(* state it: administrators say what they desire, one worker at a time     *)
(* holds an epoch under a fence, and only the holder of the present fence, *)
(* before its lease runs out, settles what was desired.                    *)
(*                                                                         *)
(* CollectorWorkers and PaperRunWorkers implement it.                      *)
(***************************************************************************)
EXTENDS Naturals

CONSTANT Epochs     \* epoch ids, in order of their start

VARIABLE contract   \* contract[e]: what every party may rely on

Over == {"STOPPED", "FAILED"}
Live(e) == contract[e].phase \notin Over \cup {"NONE"}

Init == contract = [e \in Epochs |-> [desired |-> "RUNNING", phase |-> "NONE",
                                      fence |-> 0, expired |-> FALSE]]

\* A new epoch begins when no other is under way.
Start(e) == /\ contract[e].phase = "NONE"
            /\ \A f \in Epochs : ~Live(f)
            /\ contract' = [contract EXCEPT ![e].phase = "OPEN"]

Command(e) == /\ Live(e)
              /\ contract[e].desired # "STOPPED"
              /\ \E d \in {"RUNNING", "PAUSED", "STOPPED"} \ {contract[e].desired} :
                    contract' = [contract EXCEPT ![e].desired = d]

\* A worker takes an epoch nobody holds, under the next fence.
Take(e) == /\ contract[e].phase \in {"OPEN", "PAUSED"}
           /\ contract[e].desired = "RUNNING"
           /\ contract' = [contract EXCEPT ![e].phase = "HELD", ![e].fence = @ + 1]

LeaseEnds(e) == /\ contract[e].phase = "HELD"
                /\ contract' = [contract EXCEPT ![e].expired = TRUE]

\* Only an expired lease is taken over, and always under the next fence.
TakeOver(e) == /\ contract[e].phase = "HELD"
               /\ contract[e].expired
               /\ contract' = [contract EXCEPT ![e].fence = @ + 1, ![e].expired = FALSE]

\* The holder, or anybody when there is none, settles what is desired.
Settle(e) == /\ contract[e].phase \in {"OPEN", "HELD", "PAUSED"}
             /\ ~contract[e].expired
             /\ contract[e].desired \in {"PAUSED", "STOPPED"}
             /\ contract' = [contract EXCEPT ![e].phase = contract[e].desired]

Fail(e) == /\ Live(e)
           /\ ~contract[e].expired
           /\ contract' = [contract EXCEPT ![e].phase = "FAILED"]

Next == \E e \in Epochs : \/ Start(e) \/ Command(e) \/ Take(e) \/ LeaseEnds(e)
                          \/ TakeOver(e) \/ Settle(e) \/ Fail(e)

Spec == Init /\ [][Next]_contract
===============================================================================
