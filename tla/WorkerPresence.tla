---------------------------- MODULE WorkerPresence ----------------------------
(***************************************************************************)
(* The persistent worker loop around MarketOperationWorker.run_once, and     *)
(* what it tells administrators: a runtime row per process, its activity,   *)
(* and an event for every operation it settled.  The row is written before  *)
(* and after a poll and when the process ends; a settlement is recorded in  *)
(* a transaction of its own, after the one that settled the operation.      *)
(***************************************************************************)
EXTENDS MarketOperationWorker, Sequences

VARIABLES
    runtime,   \* runtime[w]: row of the process that runs, or ran last, as w
    events,    \* events[o]: OPERATION_SETTLED events of o, PAUSED ones left out
    session    \* session[w]: where the loop of w stands

presenceVars == <<runtime, events, session>>
allVars == <<vars, presenceVars>>

Terminal == {"COMPLETED", "FAILED", "CANCELLED"}
SETTLED_OPERATION_STATES == Terminal \cup {"PAUSED"}

NoRuntime == [state |-> "NONE", activity |-> "IDLE"]
Closed == [at |-> "down", op |-> NoOwner, state |-> "NONE"]

-----------------------------------------------------------------------------
(* The rows *)

\* The constraints of the table, and of the object read from it.
ValidRuntime(r) == r.state \in {"STOPPED", "FAILED"} => r.activity = "IDLE"

StartRuntime(w) ==
    runtime' = [runtime EXCEPT ![w] = [state |-> "RUNNING", activity |-> "IDLE"]]

Terminalize(w, state) ==
    /\ runtime[w].state = "RUNNING"
    /\ runtime' = [runtime EXCEPT ![w] = [state |-> state, activity |-> "IDLE"]]

\* heartbeat, as set_activity calls it.
WriteActivity(w, activity) ==
    /\ runtime[w].state = "RUNNING" /\ ValidRuntime(runtime[w])
    /\ runtime' = [runtime EXCEPT ![w].activity = activity]

InsertEvent(o, state) ==
    events' = [events EXCEPT ![o] = IF state \in Terminal THEN Append(@, state) ELSE @]

-----------------------------------------------------------------------------
(* The loop *)

GoTo(w, at) == session' = [session EXCEPT ![w] = [Closed EXCEPT !.at = at]]

\* start_persistent_observability
Open(w) ==
    /\ session[w].at = "down"
    /\ Boot(w)
    /\ StartRuntime(w)
    /\ GoTo(w, "ready")
    /\ UNCHANGED events

BeginPoll(w) ==
    /\ session[w].at = "ready"
    /\ WriteActivity(w, "ACTIVE")
    /\ GoTo(w, "poll")
    /\ UNCHANGED <<vars, events>>

\* (mutant) an idle poll leaves the last operation settled in place.
Settled_Last(w) == {o \in Ops : row'[o].status \in SETTLED_OPERATION_STATES}
\* The snapshot run_once returns: of the operation its last write settled.
Settled(w) ==
    {o \in Ops : row'[o].status # row[o].status /\ row'[o].status \in SETTLED_OPERATION_STATES}

\* A step of run_once: under way, returned, or left with an exception.
RunPoll(w) ==
    /\ session[w].at = "poll"
    /\ WorkerStep(w) \/ DatabaseStep(w)
    /\ session' = [session EXCEPT ![w] =
                     CASE wk'[w].pc = "down" -> [at |-> "ending", op |-> NoOwner, state |-> "FAILED"]
                       [] wk'[w].pc = "idle" /\ Settled(w) # {} ->
                            LET o == CHOOSE o \in Settled(w) : TRUE
                            IN  [at |-> "record", op |-> o, state |-> row'[o].status]
                       [] wk'[w].pc = "idle" /\ Settled(w) = {} -> [Closed EXCEPT !.at = "rest"]
                       [] OTHER -> @]
    /\ UNCHANGED <<runtime, events>>

\* The process gives up: its poll is cancelled, its locks are freed.
GiveUp(w, outcome) ==
    /\ Exit(w)
    /\ session' = [session EXCEPT ![w] = [at |-> "ending", op |-> NoOwner, state |-> outcome]]
    /\ UNCHANGED <<runtime, events>>

\* record_operation_settled: refused when the operation is in that state no longer.
RecordSettled(w) ==
    LET s == session[w]
    IN  /\ s.at = "record"
        /\ \/ /\ runtime[w].state = "RUNNING" /\ row[s.op].status = s.state
              /\ InsertEvent(s.op, s.state)
              /\ GoTo(w, "rest")
              /\ UNCHANGED <<vars, runtime>>
           \/ row[s.op].status # s.state /\ GiveUp(w, "FAILED")

EndPoll(w) ==
    /\ session[w].at = "rest"
    /\ WriteActivity(w, "IDLE")
    /\ GoTo(w, "ready")
    /\ UNCHANGED <<vars, events>>

\* A presence write fails, of the loop or of the heartbeat beside it: the
\* database, or a clock behind the last heartbeat.
PresenceFails(w) ==
    session[w].at \in {"ready", "poll", "record", "rest"} /\ GiveUp(w, "FAILED")

\* A signal, or the last cycle asked for.
RequestStop(w) ==
    session[w].at \in {"ready", "poll", "record", "rest"} /\ GiveUp(w, "STOPPED")

\* What is left of the poll writes IDLE, then stop or fail does; a stop that fails
\* becomes a failure, and any of these writes may fail.
EndRuntime(w) ==
    /\ session[w].at = "ending"
    /\ \/ \E state \in {session[w].state, "FAILED"} : Terminalize(w, state)
       \/ WriteActivity(w, "IDLE")
       \/ UNCHANGED runtime
    /\ GoTo(w, "down")
    /\ UNCHANGED <<vars, events>>

\* Killed, or cancelled from outside: the runtime row goes stale.
Kill(w) ==
    /\ session[w].at # "down"
    /\ Exit(w)
    /\ GoTo(w, "down")
    /\ UNCHANGED <<runtime, events>>

-----------------------------------------------------------------------------
PresenceInit ==
    /\ Init
    /\ runtime = [w \in Workers |-> NoRuntime]
    /\ events = [o \in Ops |-> <<>>]
    /\ session = [w \in Workers |-> Closed]

Others(o) == /\ SubmitStep(o) \/ AdminStep(o) \/ Expire(o) \/ CliPause(o) \/ CliCancel(o)
             /\ UNCHANGED presenceVars

PresenceNext ==
    \/ \E w \in Workers : Open(w) \/ BeginPoll(w) \/ RunPoll(w) \/ RecordSettled(w) \/ EndPoll(w)
    \/ \E w \in Workers : PresenceFails(w) \/ RequestStop(w) \/ EndRuntime(w) \/ Kill(w)
    \/ \E o \in Ops : Others(o)

PresenceSpec == PresenceInit /\ [][PresenceNext]_allVars

-----------------------------------------------------------------------------
(* Properties *)

\* What a runtime row says of a process that runs is so: ACTIVE while it has an
\* operation in hand, and STOPPED or FAILED, and readable, only once it has none.
PresenceIsTrue ==
    \A w \in Workers :
      /\ ValidRuntime(runtime[w])
      /\ wk[w].pc \notin {"down", "idle"} => runtime[w] = [state |-> "RUNNING", activity |-> "ACTIVE"]
      /\ runtime[w].state \in {"STOPPED", "FAILED"} => wk[w].pc = "down"

\* Two workers may have had an operation in hand, one of them without knowing that
\* it lost it: its end is reported once, and as what it is.
SettledOnce ==
    \A o \in Ops : events[o] # <<>> => events[o] = <<row[o].status>>

\* record_operation_settled is refused, and the worker process ends FAILED, only
\* when an administrator resumed or cancelled a pause before the worker recorded it.
OnlyResumesRefuse ==
    \A w \in Workers :
      LET s == session[w]
      IN  s.at = "record" /\ row[s.op].status # s.state => s.state = "PAUSED"

\* What an administrator is told, of processes and of operations, is so.
ReportsAreTrue == PresenceIsTrue /\ SettledOnce
=============================================================================
