--------------------------- MODULE SimulateSession ---------------------------
(***************************************************************************)
(* The session of `cre workflow simulate`: the loop that fires the trigger *)
(* and waits for the execution, the HTTP server that queues requests for   *)
(* it in --listen mode, the hooks the workflow engine calls from its own   *)
(* goroutines, and Ctrl+C.                                                 *)
(*                                                                         *)
(* The loop waits for "an execution has finished" on a channel that holds  *)
(* one signal and carries no identity, and gives up after a timeout that   *)
(* does not stop the execution.                                            *)
(***************************************************************************)
EXTENDS Integers, Sequences, FiniteSets

CONSTANTS
    Events,     \* what may fire the trigger: HTTP requests, chain logs, ticks
    NoEvent,    \* the loop has no event at hand
    QueueSize   \* capacity of the queue of HTTP requests, 16 in the code

ASSUME EventsAssumption == IsFiniteSet(Events) /\ NoEvent \notin Events
ASSUME QueueAssumption  == QueueSize \in Nat \ {0}

VARIABLES
    mode,         \* "http" and "chain" listen for events, "once" runs one
    pc,           \* where the loop is
    cur,          \* the event of the current round
    at,           \* where each event is
    verdict,      \* how the wait for each event ended
    queue,        \* payloadCh
    signal,       \* executionFinishedCh holds a signal
    cancelled,    \* hookCtx is done
    lifecycleErr, \* what stopped the session, for run to return
    resultErr,    \* executionResultErr
    ender,        \* history: what cancelled the session first
    ret           \* what run returned

loopVars == <<pc, cur, verdict, ret>>
vars == <<mode, pc, cur, at, verdict, queue, signal, cancelled, lifecycleErr,
          resultErr, ender, ret>>

Listening == mode # "once"   \* the variable listen

Places   == {"new", "queued", "refused", "taken", "skipped",
             "inbox", "running", "value", "error", "crashed"}
Active   == {e \in Events : at[e] \in {"inbox", "running"}}
Reported == {e \in Events : at[e] \in {"value", "error"}}
Told     == {e \in Events : verdict[e] = "finished"}
Lapsed   == {e \in Events : verdict[e] = "timeout"}

TypeOK ==
    /\ mode \in {"http", "chain", "once"}
    /\ pc \in {"init", "idle", "trigger", "wait", "ended", "returned"}
    /\ cur \in Events \cup {NoEvent}
    /\ at \in [Events -> Places]
    /\ verdict \in [Events -> {"none", "finished", "timeout"}]
    /\ queue \in Seq(Events) /\ Len(queue) <= QueueSize
    /\ signal \in BOOLEAN
    /\ cancelled \in BOOLEAN
    /\ lifecycleErr \in {"none", "init", "trigger"}
    /\ resultErr \in {"none", "error", "fatal"}
    /\ ender \in {"none", "interrupt", "init", "trigger", "fatal"}
    /\ ret \in {"none", "ok", "init", "trigger", "error", "fatal"}

\* --http-payload gives the loop its first event.
Init ==
    /\ mode \in {"http", "chain", "once"}
    /\ pc = "init"
    /\ cur \in IF mode = "chain" THEN {NoEvent} ELSE Events \cup {NoEvent}
    /\ at = [e \in Events |-> IF e = cur THEN "taken" ELSE "new"]
    /\ verdict = [e \in Events |-> "none"]
    /\ queue = <<>>
    /\ signal = FALSE
    /\ cancelled = FALSE
    /\ lifecycleErr = "none"
    /\ resultErr = "none"
    /\ ender = "none"
    /\ ret = "none"

Move(e, place) == at' = [at EXCEPT ![e] = place]

Cancel(cause) ==
    /\ cancelled' = TRUE
    /\ ender' = IF cancelled THEN ender ELSE cause

\* The first error of a hook is kept, and everything that waits is woken.
setLifecycleErr(cause) ==
    /\ lifecycleErr' = IF lifecycleErr = "none" THEN cause ELSE lifecycleErr
    /\ Cancel(cause)

----------------------------------------------------------------------------
(* The start of the session, and its end.                                  *)

\* The hooks before the loop fail: no trigger, a bad --trigger-index, a
\* capability that does not start, an engine that does not initialize.
InitFails ==
    /\ pc = "init"
    /\ setLifecycleErr("init")
    /\ UNCHANGED <<mode, loopVars, at, queue, signal, resultErr>>

Initialized ==
    /\ pc = "init"
    /\ lifecycleErr = "none"
    /\ pc' = IF cur = NoEvent THEN "idle" ELSE "trigger"
    /\ UNCHANGED <<mode, cur, at, verdict, queue, signal, cancelled, lifecycleErr,
                   resultErr, ender, ret>>

\* Ctrl+C cancels the context the session was started with.
Interrupt ==
    /\ pc \notin {"ended", "returned"}
    /\ ~cancelled
    /\ Cancel("interrupt")
    /\ UNCHANGED <<mode, loopVars, at, queue, signal, lifecycleErr, resultErr>>

StopNotIdle ==
    /\ cancelled
    /\ pc \in {"init", "wait"}
    /\ pc' = "ended"
    /\ UNCHANGED <<mode, cur, at, verdict, queue, signal, cancelled, lifecycleErr,
                   resultErr, ender, ret>>

\* The loop waits for the engine, a request or an execution when it is woken.
Stop ==
    /\ cancelled
    /\ pc \in {"init", "wait"} \/ (pc = "idle" /\ mode = "http")
    /\ pc' = "ended"
    /\ UNCHANGED <<mode, cur, at, verdict, queue, signal, cancelled, lifecycleErr,
                   resultErr, ender, ret>>

\* The services are closed and run returns the first error there is.
Return ==
    /\ pc = "ended"
    /\ pc' = "returned"
    /\ ret' = IF lifecycleErr # "none" THEN lifecycleErr
              ELSE IF resultErr # "none" THEN resultErr ELSE "ok"
    /\ UNCHANGED <<mode, cur, at, verdict, queue, signal, cancelled, lifecycleErr,
                   resultErr, ender>>

----------------------------------------------------------------------------
(* The HTTP server of --listen.                                            *)

ServerUp == mode = "http" /\ pc \in {"idle", "trigger", "wait"}

PostNeverRefused(e) ==
    /\ ServerUp
    /\ at[e] = "new"
    /\ Move(e, "queued")
    /\ queue' = IF Len(queue) < QueueSize THEN Append(queue, e) ELSE queue
    /\ UNCHANGED <<mode, loopVars, signal, cancelled, lifecycleErr, resultErr, ender>>

PostUnbounded(e) ==
    /\ ServerUp
    /\ at[e] = "new"
    /\ Move(e, "queued")
    /\ queue' = Append(queue, e)
    /\ UNCHANGED <<mode, loopVars, signal, cancelled, lifecycleErr, resultErr, ender>>

\* POST /trigger: 200 once the payload is queued, 429 when the queue is full.
Post(e) ==
    /\ ServerUp
    /\ at[e] = "new"
    /\ \/ Len(queue) < QueueSize /\ Move(e, "queued") /\ queue' = Append(queue, e)
       \/ Len(queue) >= QueueSize /\ Move(e, "refused") /\ UNCHANGED queue
    /\ UNCHANGED <<mode, loopVars, signal, cancelled, lifecycleErr, resultErr, ender>>

----------------------------------------------------------------------------
(* The loop.                                                               *)

NextRoundOnce == "ended"

\* After a round: a listening session goes on, another one is over.
NextRound == IF Listening THEN "idle" ELSE "ended"

\* http: the next payload of the queue.
TakePayload ==
    /\ mode = "http"
    /\ pc = "idle"
    /\ queue # <<>>
    /\ cur' = Head(queue)
    /\ queue' = Tail(queue)
    /\ Move(Head(queue), "taken")
    /\ pc' = "trigger"
    /\ UNCHANGED <<mode, verdict, signal, cancelled, lifecycleErr, resultErr, ender, ret>>

\* chain and once: a stale signal is thrown away before the trigger is armed.
Arm ==
    /\ mode # "http"
    /\ pc = "idle"
    /\ cur' = NoEvent
    /\ signal' = FALSE
    /\ pc' = "trigger"
    /\ UNCHANGED <<mode, at, verdict, queue, cancelled, lifecycleErr, resultErr, ender, ret>>

\* chain and once: the trigger sees an event (a log, a tick, a request).
Observe(e) ==
    /\ pc = "trigger"
    /\ cur = NoEvent
    /\ at[e] = "new"
    /\ cur' = e
    /\ Move(e, "taken")
    /\ UNCHANGED <<mode, pc, verdict, queue, signal, cancelled, lifecycleErr,
                   resultErr, ender, ret>>

\* The event is handed to the engine.  The HTTP trigger has a channel of one
\* event and blocks while it is full; a chain trigger delivers on its own
\* goroutine and does not.
InboxFree == \A e \in Events : at[e] # "inbox"

Deliver ==
    /\ pc = "trigger"
    /\ cur # NoEvent
    /\ mode = "http" => InboxFree
    /\ Move(cur, "inbox")
    /\ pc' = "wait"
    /\ UNCHANGED <<mode, cur, verdict, queue, signal, cancelled, lifecycleErr,
                   resultErr, ender, ret>>

\* The rate limit drops the event.  The HTTP trigger then reports it and the
\* round is over; a chain trigger goes on listening.
RateLimited ==
    /\ pc = "trigger"
    /\ cur # NoEvent
    /\ Move(cur, "skipped")
    /\ cur' = NoEvent
    /\ pc' = IF mode = "chain" THEN "trigger" ELSE NextRound
    /\ UNCHANGED <<mode, verdict, queue, signal, cancelled, lifecycleErr, resultErr,
                   ender, ret>>

\* The trigger returns an error, that of a cancelled context included.
TriggerFails ==
    /\ pc = "trigger"
    /\ setLifecycleErr("trigger")
    /\ pc' = "ended"
    /\ UNCHANGED <<mode, cur, at, verdict, queue, signal, resultErr, ret>>

EndWait(what) ==
    /\ pc = "wait"
    /\ verdict' = [verdict EXCEPT ![cur] = what]
    /\ pc' = NextRound
    /\ UNCHANGED <<mode, cur, at, queue, cancelled, lifecycleErr, resultErr, ender, ret>>

FinishedSignalKept == signal /\ EndWait("finished") /\ UNCHANGED signal

Finished == signal /\ EndWait("finished") /\ signal' = FALSE

\* WorkflowExecutionTimeout has passed: a warning, and the execution goes on.
TimedOut == EndWait("timeout") /\ UNCHANGED signal

----------------------------------------------------------------------------
(* The engine and its hooks (the engine itself is external).               *)

Take(e) ==
    /\ pc # "returned"
    /\ at[e] = "inbox"
    /\ Move(e, "running")
    /\ UNCHANGED <<mode, loopVars, queue, signal, cancelled, lifecycleErr, resultErr, ender>>

\* A chain trigger's delivery gives up when the session is cancelled.
Abandon(e) ==
    /\ mode = "chain"
    /\ cancelled
    /\ at[e] = "inbox"
    /\ Move(e, "skipped")
    /\ UNCHANGED <<mode, loopVars, queue, signal, cancelled, lifecycleErr, resultErr, ender>>

ResultErrUnset(place) == resultErr

\* An error the workflow returned ends a single run and is only shown by a
\* listening one.
ResultErr(place) ==
    IF place = "error" /\ ~Listening THEN "error" ELSE resultErr

\* OnResultReceived; a signal that finds the channel full is dropped.
ResultReceived(e) ==
    /\ pc # "returned"
    /\ at[e] = "running"
    /\ \E place \in {"value", "error"} :
          /\ Move(e, place)
          /\ resultErr' = ResultErr(place)
    /\ signal' = TRUE
    /\ UNCHANGED <<mode, loopVars, queue, cancelled, lifecycleErr, ender>>

\* OnExecutionError: fatal also to a listening session.
ExecutionError(e) ==
    /\ pc # "returned"
    /\ at[e] = "running"
    /\ Move(e, "crashed")
    /\ resultErr' = "fatal"
    /\ Cancel("fatal")
    /\ UNCHANGED <<mode, loopVars, queue, signal, lifecycleErr>>

Loop ==
    \/ Stop \/ Return
    \/ TakePayload \/ Arm
    \/ Deliver
    \/ Finished \/ TimedOut

Next ==
    \/ Loop \/ RateLimited \/ TriggerFails
    \/ InitFails \/ Initialized \/ Interrupt
    \/ \E e \in Events : \/ Post(e) \/ Observe(e)
                         \/ Take(e) \/ Abandon(e)
                         \/ ResultReceived(e) \/ ExecutionError(e)

Spec == Init /\ [][Next]_vars

\* The loop runs whenever it can, its timer fires, a trigger notices that its
\* context is cancelled, and the engine takes what is delivered to it.
Fairness ==
    /\ WF_vars(Loop)
    /\ WF_vars(cancelled /\ TriggerFails)
    /\ \A e \in Events : WF_vars(Take(e))

LiveSpec == Spec /\ Fairness

----------------------------------------------------------------------------
(* Properties.                                                             *)

\* Executions overlap by no more than one for each wait that timed out: the
\* loop never runs ahead of the engine otherwise, although a signal does not
\* say whose it is, and may be dropped or be taken for that of a later event.
BoundedOverlap == Cardinality(Active) <= Cardinality(Lapsed) + 1

\* --listen goes on until somebody stops it or the harness breaks: no result
\* of a single request ends the session.
ListenGoesOn == Listening /\ pc \in {"ended", "returned"} => ender # "none"

\* The command succeeds only if nothing it got to know of has failed: not the
\* execution, when there is a single one, nor the engine, nor the trigger.
SuccessIsEarned ==
    pc = "returned" /\ ret = "ok" =>
        /\ \A e \in Events : at[e] # "crashed"
        /\ ~Listening => \A e \in Events : at[e] # "error"
        /\ ender \in {"none", "interrupt"}

\* A request that was answered with 200 gets its turn, unless the session ends
\* first.
AcceptedGetsTurn ==
    \A e \in Events : at[e] = "queued" ~> at[e] # "queued" \/ pc = "returned"

\* A cancelled session ends, wherever the loop was waiting.
CancelEnds == cancelled ~> pc = "returned"

\* "Drain any stale completion signal so we wait for the new run's result"
\* (simulate.go:645): in the loop that drains, a wait that ends with the signal
\* is over only when its own execution is.
WaitsForItsOwn ==
    mode = "chain" => \A e \in Events : verdict[e] = "finished" => e \notin Active

\* "root.go prints the returned error once after cleanup" (simulate.go:733): when
\* an execution error stopped the session, that error is the one returned.
FatalIsReturned == pc = "returned" /\ ender = "fatal" => ret = "fatal"

----------------------------------------------------------------------------
(* Inductive invariant of BoundedOverlap.                                  *)

\* Every wait that ended with a signal, and the signal at hand, had a result.
SignalsAreResults ==
    Cardinality(Told) + (IF signal THEN 1 ELSE 0) <= Cardinality(Reported)

\* Everything with the engine has been waited for, or is the current event.
Accounted ==
    /\ Active \cup Reported \subseteq Told \cup Lapsed \cup {cur}
    /\ pc = "idle" => Active \cup Reported \subseteq Told \cup Lapsed

\* The event of a round is the engine's after it was delivered, and only then
\* is there a verdict on it.
Undelivered == {"new", "queued", "taken"}

RoundIsOrdered ==
    /\ pc \in {"init", "trigger"} /\ cur # NoEvent => at[cur] = "taken"
    /\ pc = "wait" => cur # NoEvent /\ at[cur] \notin Undelivered /\ verdict[cur] = "none"
    /\ \A e \in Events : at[e] \in Undelivered => verdict[e] = "none"

\* A request is in the queue once, and nowhere else.
QueueIsOfQueued ==
    /\ \A i \in 1..Len(queue) : at[queue[i]] = "queued"
    /\ \A i, j \in 1..Len(queue) : queue[i] = queue[j] => i = j

OverlapInv ==
    TypeOK /\ SignalsAreResults /\ Accounted /\ RoundIsOrdered /\ QueueIsOfQueued

=============================================================================
