--------------------------- MODULE CapitalAuthority ---------------------------
(***************************************************************************)
(* The authority a paper session runs on, from simulated money to its       *)
(* settlement: simulation and ledger, capital authorizations (they reserve  *)
(* money), materializations (they publish the local configuration),         *)
(* activations (they permit runs), official eras and session settlements.   *)
(*                                                                         *)
(* Every repository call is one transaction, and every insert's trigger     *)
(* locks the simulation first, then the rows of the chain in one order; so  *)
(* each is one step here. What happens outside a transaction is a step of   *)
(* its own: publishing the configuration file, reading the evidence a       *)
(* settlement posts, and the cycles of a worker (PaperRunWorkers has their  *)
(* leases; here an epoch runs, stops or fails, and a cycle of a worker that *)
(* lost its lease may end after it). A START carries the time at which it   *)
(* was asked for, and waits in validation before it is inserted.            *)
(***************************************************************************)
EXTENDS Naturals, Integers, Sequences, FiniteSets, FiniteSetsExt

CONSTANTS
    SessionProfiles,           \* session profiles (OperationalDocuments)
    Content,            \* Content[p]: what profile p says of the session
    Simulations,        \* simulation ids
    Clients,            \* service calls under way at the same time
    InitialCapital,     \* what a simulation begins with
    Capitals,           \* bound: the capitals that are authorized
    Amounts,            \* bound: sizes of deposits and withdrawals
    MaxMovements, MaxAuthorizations, MaxActivations, MaxStarts,  \* bounds
    None                \* no session, no settlement, no evidence

ASSUME ContentAssumption == DOMAIN Content = SessionProfiles
ASSUME AmountsAssumption == /\ InitialCapital \in Nat \ {0}
                            /\ Capitals \subseteq 1..InitialCapital
                            /\ Amounts \subseteq Nat \ {0}
ASSUME BoundsAssumption ==
    {MaxMovements, MaxAuthorizations, MaxActivations, MaxStarts} \subseteq Nat

VARIABLES
    approved,   \* the profiles that are APPROVED, on an APPROVED mandate
    sim,        \* sim[s]: status of the simulation
    era,        \* the simulations designated as official capital eras
    ledger,     \* capital_movements, in order
    auth,       \* the capital authorizations, in order of created_at
    mat,        \* mat[a]: materialization of authorization a
    config,     \* the sessions whose local configuration is published
    act,        \* the activations, in order
    starts,     \* the STARTs asked for, in order of requested_at: activations
    epoch,      \* the run epochs, in the order in which they are inserted
    evidence,   \* evidence[x]: the local state of session x
    settled,    \* settled[x]: the settlement of session x
    call        \* call[c]: a service call between two of its steps

vars == <<approved, sim, era, ledger, auth, mat, config, act, starts, epoch,
          evidence, settled, call>>
financial == <<sim, era, ledger, settled>>
chain == <<auth, mat, config, act>>
running == <<starts, epoch, evidence>>

-----------------------------------------------------------------------------
(* Identities *)

\* paper_session_id: equal configurations are one session. The capital is the
\* authorization's.
Sessions == {Content[p] : p \in SessionProfiles} \X Capitals
SessionOf(a) == <<Content[auth[a].profile], auth[a].capital>>
SessionOfEpoch(e) == SessionOf(act[epoch[e].act].auth)
SimOfEpoch(e) == auth[act[epoch[e].act].auth].sim
EpochsOf(x) == {e \in DOMAIN epoch : SessionOfEpoch(e) = x}
Live(e) == epoch[e].state = "LIVE"

(* Money *)

MovementsOf(s) == {i \in DOMAIN ledger : ledger[i].sim = s}
Balance(s) == SumFunctionOnSet([i \in DOMAIN ledger |-> ledger[i].amount], MovementsOf(s))
Reservations(s) == {a \in DOMAIN auth : auth[a].sim = s /\ auth[a].state = "AUTHORIZED"}
Reserved(s) == SumFunctionOnSet([a \in DOMAIN auth |-> auth[a].capital], Reservations(s))
Available(s) == Balance(s) - Reserved(s)

\* The trigger of capital_movements, for a movement that is not the first.
\* (mutant) only the sign of the balance is looked at.
MovementAdmitted_BySign(s, amount, reserved) == Balance(s) + amount >= 0
MovementAdmitted(s, amount, reserved) == /\ Balance(s) + amount >= 0
                                         /\ Balance(s) + amount >= reserved
Posted(s, amount, x) == Append(ledger, [sim |-> s, amount |-> amount, session |-> x])

-----------------------------------------------------------------------------
(* Simulations and the ledger *)

CreateSimulation(s) ==
    /\ sim[s] = "ABSENT"
    /\ \A t \in Simulations : sim[t] # "ACTIVE"      \* the partial unique index
    /\ Len(ledger) < MaxMovements
    /\ sim' = [sim EXCEPT ![s] = "ACTIVE"]
    /\ ledger' = Posted(s, InitialCapital, None)
    /\ UNCHANGED <<approved, era, chain, running, settled, call>>

CreateMovement(s, amount) ==
    /\ sim[s] = "ACTIVE" /\ Len(ledger) < MaxMovements
    /\ MovementAdmitted(s, amount, Reserved(s))
    /\ ledger' = Posted(s, amount, None)
    /\ UNCHANGED <<approved, sim, era, chain, running, settled, call>>

\* The finality guard of an official simulation.
\* (mutant) a session whose epoch FAILED is taken for settled.
FinalityAllows_FailedIsOver(s) ==
    s \in era => \A e \in DOMAIN epoch : SimOfEpoch(e) = s =>
        epoch[e].state = "FAILED" \/ settled[SessionOfEpoch(e)] # None
FinalityAllows(s) ==
    s \in era => \A e \in DOMAIN epoch : SimOfEpoch(e) = s =>
        /\ ~Live(e)
        /\ settled[SessionOfEpoch(e)] # None /\ settled[SessionOfEpoch(e)].sim = s

\* complete and cancel.
Transition(s) ==
    /\ sim[s] = "ACTIVE"
    /\ Reservations(s) = {}
    /\ FinalityAllows(s)
    /\ sim' = [sim EXCEPT ![s] = "TERMINAL"]
    /\ UNCHANGED <<approved, era, ledger, chain, running, settled, call>>

\* Nothing but the opening movement has happened.
Unused(s) == /\ Cardinality(MovementsOf(s)) = 1
             /\ \A a \in DOMAIN auth : auth[a].sim # s
Designate(s) ==
    /\ sim[s] = "ACTIVE" /\ s \notin era
    /\ Unused(s)
    /\ era' = era \cup {s}
    /\ UNCHANGED <<approved, sim, ledger, chain, running, settled, call>>

-----------------------------------------------------------------------------
(* Authorizations *)

\* A profile, or its mandate, is archived; it never comes back.
ArchiveDocuments(p) ==
    /\ p \in approved
    /\ approved' = approved \ {p}
    /\ UNCHANGED <<financial, chain, running, call>>

CapitalIsThere(s, c) == Available(s) >= c
Authorize(p, s, c) ==
    /\ Len(auth) < MaxAuthorizations
    /\ sim[s] = "ACTIVE" /\ p \in approved
    /\ \A a \in DOMAIN auth : auth[a].profile = p => auth[a].state # "AUTHORIZED"
    /\ CapitalIsThere(s, c)
    /\ auth' = Append(auth, [state |-> "AUTHORIZED", profile |-> p, sim |-> s, capital |-> c])
    /\ mat' = Append(mat, "ABSENT")
    /\ UNCHANGED <<approved, financial, config, act, running, call>>

RevokeAuthorization(a) ==
    /\ auth[a].state = "AUTHORIZED"
    /\ auth' = [auth EXCEPT ![a].state = "REVOKED"]
    /\ UNCHANGED <<approved, financial, mat, config, act, running, call>>

-----------------------------------------------------------------------------
(* Materializations: prepare, publish the file, mark *)

Idle == [at |-> "IDLE"]
SetCall(c, r) == call' = [call EXCEPT ![c] = r]

Backed(a) == /\ sim[auth[a].sim] = "ACTIVE"
             /\ auth[a].state = "AUTHORIZED"
             /\ auth[a].profile \in approved

\* prepare inserts, or finds what an earlier call left.
Prepare(c, a) ==
    /\ call[c] = Idle
    /\ \/ mat[a] = "ABSENT" /\ Backed(a) /\ mat' = [mat EXCEPT ![a] = "PREPARED"]
       \/ mat[a] = "PREPARED" /\ UNCHANGED mat
    /\ SetCall(c, [at |-> "PREPARED", auth |-> a])
    /\ UNCHANGED <<approved, financial, auth, config, act, running>>
\* paper_repository.create: the same configuration may be there already.
CreateConfig(c) ==
    /\ call[c].at = "PREPARED"
    /\ config' = config \cup {SessionOf(call[c].auth)}
    /\ SetCall(c, [call[c] EXCEPT !.at = "CREATED"])
    /\ UNCHANGED <<approved, financial, auth, mat, act, running>>
ReadyToMark == {"CREATED"}
\* The authority of the chain is not looked at again; another call may have
\* marked it first.
MarkMaterialized(c) ==
    /\ call[c].at \in ReadyToMark
    /\ mat' = [mat EXCEPT ![call[c].auth] = "MATERIALIZED"]
    /\ SetCall(c, Idle)
    /\ UNCHANGED <<approved, financial, auth, config, act, running>>
\* The call fails or its process ends, between any two steps.
Abandon(c) ==
    /\ call[c] # Idle
    /\ SetCall(c, Idle)
    /\ UNCHANGED <<approved, financial, chain, running>>

-----------------------------------------------------------------------------
(* Activations and run epochs *)

\* authorize: what it reads outside the transaction never changes again.
Activate(a) ==
    /\ Len(act) < MaxActivations
    /\ mat[a] = "MATERIALIZED" /\ SessionOf(a) \in config
    /\ Backed(a)
    /\ \A i \in DOMAIN act : act[i].auth = a => act[i].state # "AUTHORIZED"
    /\ act' = Append(act, [state |-> "AUTHORIZED", auth |-> a])
    /\ UNCHANGED <<approved, financial, auth, mat, config, running, call>>
RevokeActivation(i) ==
    /\ act[i].state = "AUTHORIZED"
    /\ act' = [act EXCEPT ![i].state = "REVOKED"]
    /\ UNCHANGED <<approved, financial, auth, mat, config, running, call>>

\* What a start, a resume and every cycle of a run ask for.
Authority(i) == /\ act[i].state = "AUTHORIZED"
                /\ mat[act[i].auth] = "MATERIALIZED"
                /\ Backed(act[i].auth)

MayStart(x) == /\ settled[x] = None
               /\ \A e \in EpochsOf(x) : ~Live(e)
\* A START is asked for: its time is taken before anything is validated. The
\* authority only ever goes, so that to ask for it here loses nothing.
RequestStart(i) ==
    /\ Len(starts) < MaxStarts
    /\ Authority(i)
    /\ starts' = Append(starts, i)
    /\ UNCHANGED <<approved, financial, chain, epoch, evidence, call>>
\* It is inserted, with that time, whatever was asked for and inserted since.
Start(k) ==
    /\ \A e \in DOMAIN epoch : epoch[e].asked # k
    /\ Authority(starts[k])
    /\ MayStart(SessionOf(act[starts[k]].auth))
    /\ epoch' = Append(epoch, [state |-> "LIVE", act |-> starts[k], asked |-> k])
    /\ UNCHANGED <<approved, financial, chain, starts, evidence, call>>

\* A cycle ends flat, with a loss of everything or with what it had,
\* or with an open position; quote cash never goes below zero.
Outcomes(c) == [cash : {0, c}, flat : {TRUE}] \cup {[cash |-> 0, flat |-> FALSE]}
\* A cycle checks Authority when it begins; when it ends, the lease, the
\* epoch and the authority may be gone (PaperRunWorkers).
RunCycle(x) ==
    /\ EpochsOf(x) # {}
    /\ \E ev \in Outcomes(x[2]) : evidence' = [evidence EXCEPT ![x] = ev]
    /\ UNCHANGED <<approved, financial, chain, starts, epoch, call>>
\* The worker stops or fails the epoch.
EndEpoch(e) ==
    /\ Live(e)
    /\ \E s \in {"STOPPED", "FAILED"} : epoch' = [epoch EXCEPT ![e].state = s]
    /\ UNCHANGED <<approved, financial, chain, starts, evidence, call>>

-----------------------------------------------------------------------------
(* Settlements: read the evidence, then one transaction *)

ReadEvidence(c, e) ==
    /\ call[c] = Idle
    /\ epoch[e].state = "STOPPED"
    /\ settled[SessionOfEpoch(e)] = None
    /\ evidence[SessionOfEpoch(e)] # None
    /\ SetCall(c, [at |-> "SETTLING", epoch |-> e, read |-> evidence[SessionOfEpoch(e)],
                   epochs |-> EpochsOf(SessionOfEpoch(e))])
    /\ UNCHANGED <<approved, financial, chain, running>>

\* (mutant) an epoch is settled whatever was asked for after it.
Eligible_Earlier(e, ev) ==
    /\ sim[SimOfEpoch(e)] = "ACTIVE"
    /\ settled[SessionOfEpoch(e)] = None
    /\ SimOfEpoch(e) \in era
    /\ auth[act[epoch[e].act].auth].state = "AUTHORIZED"
    /\ ev.flat
\* The order is that of the requests; that no epoch is live is not asked.
Eligible(e, ev) ==
    /\ sim[SimOfEpoch(e)] = "ACTIVE"
    /\ \A f \in EpochsOf(SessionOfEpoch(e)) \ {e} : epoch[f].asked < epoch[e].asked
    /\ settled[SessionOfEpoch(e)] = None
    /\ SimOfEpoch(e) \in era
    /\ auth[act[epoch[e].act].auth].state = "AUTHORIZED"
    /\ ev.flat

Delta(e, ev) == ev.cash - auth[act[epoch[e].act].auth].capital
\* The reservation is released before the movement is posted.
ReservedBySettlement(e) == Reserved(SimOfEpoch(e)) - auth[act[epoch[e].act].auth].capital

LedgerAdmits(e, ev) ==
    \/ Delta(e, ev) = 0
    \/ MovementAdmitted(SimOfEpoch(e), Delta(e, ev), ReservedBySettlement(e))
Consumed(a) == [auth EXCEPT ![a].state = "REVOKED"]
Settle(c) ==
    /\ call[c].at = "SETTLING"
    /\ LET e == call[c].epoch
           ev == call[c].read
           a == act[epoch[e].act].auth
           d == Delta(e, ev)
       IN /\ Eligible(e, ev)
          /\ LedgerAdmits(e, ev)
          /\ d # 0 => Len(ledger) < MaxMovements
          /\ auth' = Consumed(a)
          /\ ledger' = IF d = 0 THEN ledger ELSE Posted(auth[a].sim, d, SessionOfEpoch(e))
          /\ settled' = [settled EXCEPT ![SessionOfEpoch(e)] =
                [sim |-> auth[a].sim, auth |-> a, delta |-> d, epoch |-> e,
                 epochs |-> call[c].epochs]]
    /\ SetCall(c, Idle)
    /\ UNCHANGED <<approved, sim, era, mat, config, act, running>>

-----------------------------------------------------------------------------
(* The records, without names, checksums and times *)

Authorizations == [state : {"AUTHORIZED", "REVOKED"}, profile : SessionProfiles,
                   sim : Simulations, capital : Capitals]
Materializations == {"ABSENT", "PREPARED", "MATERIALIZED"}
Activations == [state : {"AUTHORIZED", "REVOKED"}, auth : DOMAIN auth]
\* REQUESTED to STOPPING are one state here.
Epochs == [state : {"LIVE", "STOPPED", "FAILED"}, act : DOMAIN act, asked : DOMAIN starts]
Movements == [sim : Simulations, amount : Int, session : Sessions \cup {None}]
Settlements == [sim : era, auth : DOMAIN auth, delta : Int, epoch : DOMAIN epoch,
                epochs : SUBSET DOMAIN epoch]
Evidences == [cash : Nat, flat : BOOLEAN]

\* None is no session, no settlement and no evidence.
ASSUME NoneAssumption ==
    None \notin Sessions \cup Evidences
              \cup [sim : Simulations, auth : Nat, delta : Int, epoch : Nat, epochs : SUBSET Nat]

Init == /\ approved = SessionProfiles
        /\ sim = [s \in Simulations |-> "ABSENT"]
        /\ era = {} /\ ledger = <<>> /\ auth = <<>> /\ mat = <<>>
        /\ config = {} /\ act = <<>> /\ starts = <<>> /\ epoch = <<>>
        /\ evidence = [x \in Sessions |-> None]
        /\ settled = [x \in Sessions |-> None]
        /\ call = [c \in Clients |-> Idle]

(* The calls of the API and of the workers *)

Money == \E s \in Simulations : \/ CreateSimulation(s) \/ Transition(s) \/ Designate(s)
                                \/ \E m \in Amounts : CreateMovement(s, m) \/ CreateMovement(s, -m)
Grants == \/ \E p \in SessionProfiles : \/ ArchiveDocuments(p)
                                        \/ \E s \in Simulations, c \in Capitals : Authorize(p, s, c)
          \/ \E a \in DOMAIN auth : RevokeAuthorization(a)
Uses == \/ \E a \in DOMAIN auth : Activate(a)
        \/ \E i \in DOMAIN act : RevokeActivation(i) \/ RequestStart(i)
        \/ \E k \in DOMAIN starts : Start(k)
Calls == \E c \in Clients : \/ \E a \in DOMAIN auth : Prepare(c, a)
                            \/ CreateConfig(c) \/ MarkMaterialized(c)
                            \/ \E e \in DOMAIN epoch : ReadEvidence(c, e)
                            \/ Settle(c) \/ Abandon(c)
Runs == \/ \E e \in DOMAIN epoch : EndEpoch(e)
        \/ \E x \in Sessions : RunCycle(x)

Next == Money \/ Grants \/ Uses \/ Calls \/ Runs

Spec == Init /\ [][Next]_vars

-----------------------------------------------------------------------------
(* Properties *)

TypeOK ==
    /\ approved \subseteq SessionProfiles /\ era \subseteq Simulations
    /\ sim \in [Simulations -> {"ABSENT", "ACTIVE", "TERMINAL"}]
    /\ ledger \in Seq(Movements) /\ auth \in Seq(Authorizations)
    /\ mat \in Seq(Materializations) /\ DOMAIN mat = DOMAIN auth
    /\ act \in Seq(Activations) /\ starts \in Seq(DOMAIN act) /\ epoch \in Seq(Epochs)
    /\ settled \in [Sessions -> Settlements \cup {None}]
    /\ config \subseteq Sessions
    /\ \A c \in Clients : call[c].at \in {"IDLE", "PREPARED", "CREATED", "SETTLING"}

\* Money that one session may spend is not promised to another, nor taken out:
\* authorizations, withdrawals, losses and settlements meet in one balance.
ReservationsAreCovered == \A s \in Simulations : Reserved(s) <= Balance(s)

\* The ledger never refuses what a settlement may post: a session cannot lose
\* more than the capital it gives back in the same transaction.
SettlementsFit ==
    \A c \in Clients : call[c].at = "SETTLING" =>
        (Eligible(call[c].epoch, call[c].read) => LedgerAdmits(call[c].epoch, call[c].read))

\* A START that waited: f is inserted after e, though it was asked for before.
Overtaken(f, e) == e < f /\ epoch[f].asked < epoch[e].asked
\* The settlement of x speaks for each of its other epochs, and none runs.
AreOver(x) == \A f \in EpochsOf(x) :
    Overtaken(f, settled[x].epoch) \/ (~Live(f) /\ f \in settled[x].epochs)

\* A settled session is over: nothing is reserved for it under the settled
\* authorization, the ledger has its result exactly once, nothing runs, and the
\* evidence posted covers every epoch, though reading and posting are two steps.
\* The exception is the code's: a START that waited in validation while the
\* settled epoch was asked for and inserted may be live, before and after.
SettledIsFinal ==
    \A x \in Sessions : settled[x] # None =>
        /\ AreOver(x)
        /\ auth[settled[x].auth].state = "REVOKED"
        /\ LET own == {i \in DOMAIN ledger : ledger[i].session = x}
           IN IF settled[x].delta = 0 THEN own = {}
              ELSE \E i \in own : own = {i} /\ ledger[i].amount = settled[x].delta
                                           /\ ledger[i].sim = settled[x].sim

\* A closed official era has no open account: no reservation, no live epoch,
\* no session without its settlement.
ClosedEraIsSettled ==
    \A s \in era : sim[s] = "TERMINAL" =>
        /\ Reservations(s) = {}
        /\ \A e \in DOMAIN epoch : SimOfEpoch(e) = s =>
              ~Live(e) /\ settled[SessionOfEpoch(e)] # None

\* Whatever call was interrupted between the row and the file, a session that
\* may be activated has its configuration.
MaterializedHasConfig ==
    \A a \in DOMAIN mat : mat[a] = "MATERIALIZED" => SessionOf(a) \in config

\* What every call may rely on: the balance covers what is promised, so that a
\* settlement can be posted, and a session that is marked can be run.
CapitalIsCovered ==
    TypeOK /\ ReservationsAreCovered /\ SettlementsFit /\ MaterializedHasConfig
===============================================================================
