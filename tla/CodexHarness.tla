---------------------------- MODULE CodexHarness ----------------------------
(***************************************************************************)
(* The Basic Codex harness (packages/basic-codex-harness): one session's   *)
(* durable state and what its handler does with each event.                *)
(*                                                                         *)
(* The platform calls the handler with one event at a time and commits the *)
(* state, the history and the staged operations of the outcome together    *)
(* (module SessionInbox), and completes every operation once (module       *)
(* OperationDispatch).  Completions of independent operations arrive in    *)
(* any order, so the arrival of a completion and its handling are one step *)
(* here.  A handler error leaves the event at the head of the inbox, where *)
(* every retry meets the same state: the session stays blocked.            *)
(*                                                                         *)
(* Every operation has a name that says what it is for:                    *)
(*   <<"llm", n, 0>>             the session's n-th model request          *)
(*   <<step, <<n, i>>, pages, p>>  a step of call i of response n          *)
(*   <<"withdraw", o, 0>>  <<"llm_cancel", o, attempt>>                    *)
(*   <<"interrupt", p, 0>>  <<"terminate", p, attempt>>  <<"list", k, 0>>  *)
(* A process p is named by the operation that started it, a turn by its    *)
(* first model request.                                                    *)
(***************************************************************************)
EXTENDS ToolPlan

CONSTANTS
    Plans,          \* the tool calls a response may ask for: sequences of
                    \* [tool, sess, args]
    MaxMessages,    \* user messages sent to the session
    MaxCancels,     \* cancellation requests sent to the session
    MaxRounds,      \* responses that ask for tools or pause the turn
    MaxPages        \* MAX_OUTPUT_PAGES_PER_CALL

ASSUME BoundsAssumption ==
    /\ MaxMessages \in Nat
    /\ MaxCancels \in Nat
    /\ MaxRounds \in Nat
    /\ MaxPages \in Nat \ {0}

\* Only write_stdin names a shell session.
ASSUME PlansAssumption ==
    \A asked \in Plans :
        /\ asked \in Seq([tool : Tools, sess : Nat, args : {"ok", "schema", "prepare"}])
        /\ \A i \in DOMAIN asked : asked[i].tool # "write_stdin" => asked[i].sess = NoSess

VARIABLES
    turn,           \* active_turn: phase and what the phase waits for
    plan,           \* the ToolPlanState of an executing_tools phase
    history,        \* context_window.model_history
    executions,     \* the tracked shell sessions: {[sess, proc]}
    nextSess,       \* next_execution_session_id, counted from 1
    cancel,         \* the CancellationState
    failed,         \* terminal_failure is set
    status,         \* the session's public status
    error,          \* the handler refuses the event at the head of the inbox
    requests,       \* model requests staged so far
    open,           \* operations staged and not completed
    performed,      \* completed starts, inputs and file mutations
    withdrawn,      \* targets the store withdrew, until that is known
    listing,        \* what the machine answered to the open discovery
    launched,       \* processes the machine has started
    running,        \* processes alive on the machine
    told,           \* processes an outcome has reported active
    received,       \* messages handled by a live session, in order
    inputs          \* what clients and the model may still ask for

platform == <<withdrawn, listing, launched, running>>

session == <<turn, plan, history, executions, nextSess, cancel, failed, status, error,
             requests, open, performed, told, received, inputs>>

vars == <<session, platform>>

MaxCleanupAttempts == 2

MaxLlmRetries == 1

NoTurn == [phase |-> "none", id |-> 0, op |-> None, attempt |-> 0, input |-> <<>>,
           source |-> <<>>, retries |-> 0, steering |-> <<>>]

NoPlan == [assistant |-> 0, calls |-> <<>>, segments |-> <<>>, active |-> 1]

NoCancel == [requested |-> FALSE, turn |-> 0, targets |-> <<>>, processes |-> <<>>,
             discovery |-> None, attempt |-> 0, listings |-> 0, failures |-> {}]

NoListing == [answered |-> FALSE, procs |-> {}]

Llm(n) == <<"llm", n, 0>>

ExecutionKinds == {"start", "interact", "observe", "read", "mutate", "reconcile"}

ProcessKinds == {"start", "interact", "observe"}

WorkKinds == {"start", "interact", "mutate"}

Init ==
    /\ turn = NoTurn
    /\ plan = NoPlan
    /\ history = <<>>
    /\ executions = {}
    /\ nextSess = 1
    /\ cancel = NoCancel
    /\ failed = FALSE
    /\ status = "idle"
    /\ error = FALSE
    /\ requests = 0
    /\ open = {} /\ performed = {} /\ withdrawn = {}
    /\ listing = NoListing
    /\ launched = {} /\ running = {} /\ told = {}
    /\ received = <<>>
    /\ inputs = [messages |-> MaxMessages, cancels |-> MaxCancels, rounds |-> MaxRounds]

-----------------------------------------------------------------------------
(* Items of the model projection.                                          *)

Users(messages) == [i \in DOMAIN messages |-> <<"user", messages[i], 0>>]

IsUser(item) == item[1] = "user"

UserPlaces(h) == {n \in DOMAIN h : IsUser(h[n])}

\* The number of the user item at place n, from the oldest on.
Rank(h, n) == Cardinality({m \in UserPlaces(h) : m <= n})

\* retained_user_messages, before the token budget: the user items, oldest first.
UserItems(h) ==
    [k \in 1 .. Cardinality(UserPlaces(h)) |-> h[CHOOSE n \in UserPlaces(h) : Rank(h, n) = k]]

Results(p) == [i \in DOMAIN p.calls |-> <<"result", p.assistant, i>>]

-----------------------------------------------------------------------------
(* The handler's dispatch.                                                 *)

Live == ~error /\ ~failed /\ ~cancel.requested

Cancelling == ~error /\ ~failed /\ cancel.requested

\* The event of operation o (None: of no operation) is handled and the
\* operations of new are staged.
Complete(o, new) ==
    /\ open' = (open \ {o}) \cup new
    /\ performed' = performed \cup {x \in open : x = o /\ x[1] \in WorkKinds}

\* An operation whose completion event can reach the handler: the store posts
\* a withdrawn target's completion before the withdrawal's own.
Completes(o) ==
    /\ o \in open
    /\ o[1] = "withdraw" /\ o[2] \in withdrawn => o[2] \notin open

\* The completion of LLM work is the one the active turn awaits.
AwaitsLlm(o, phase) == Live /\ Completes(o) /\ turn.phase = phase /\ turn.op = o

\* The submitted call an execution completion belongs to.
CallOf(o) == {i \in DOMAIN plan.calls : plan.calls[i].status = "submitted" /\ plan.calls[i].op = o}

\* The control operation a target or a process waits for (target_for_control,
\* process_for_control).
ControlOf(x, record) ==
    CASE record.control = "withdraw"   -> <<"withdraw", x, 0>>
      [] record.control = "llm_cancel" -> <<"llm_cancel", x, record.attempt>>
      [] record.control = "interrupt"  -> <<"interrupt", x, 0>>
      [] record.control = "terminate"  -> <<"terminate", x, record.attempt>>
      [] OTHER                         -> None

IsControl(o) == \E t \in DOMAIN cancel.targets : ControlOf(t, cancel.targets[t]) = o

IsProcessControl(o) == \E p \in DOMAIN cancel.processes : ControlOf(p, cancel.processes[p]) = o

Expected(o) ==
    IF cancel.requested
    THEN IF o[1] \in {"withdraw", "llm_cancel"} THEN IsControl(o)
         ELSE IsProcessControl(o) \/ cancel.discovery = o \/ o \in DOMAIN cancel.targets
    ELSE CASE o[1] = "llm" ->
                /\ turn.phase \in {"awaiting_llm", "compacting"}
                /\ turn.op = o
                /\ turn.phase = "compacting" => history = turn.source
           [] o[1] \in ExecutionKinds -> turn.phase = "executing_tools" /\ CallOf(o) # {}
           [] OTHER -> FALSE

\* Every correlation check that fails is a HandlerError.
RefuseCompletion(o) ==
    /\ ~error /\ ~failed
    /\ Completes(o)
    /\ ~Expected(o)
    /\ error' = TRUE
    /\ UNCHANGED <<turn, plan, history, executions, nextSess, cancel, failed, status,
                   requests, open, performed, told, received, inputs, platform>>

-----------------------------------------------------------------------------
(* Steps the handlers share.                                               *)

\* request_llm: the next model request, which completes operation o.
RequestLlm(o) ==
    /\ requests' = requests + 1
    /\ Complete(o, {Llm(requests + 1)})
    /\ status' = "running"

\* stage_after_boundary: compaction first, with the steering left queued, or
\* else the steering joins the projection and the next request is staged.
StageAfterBoundary(o, h) ==
    /\ RequestLlm(o)
    /\ plan' = NoPlan
    /\ \/ /\ history' = h
          /\ turn' = [turn EXCEPT !.phase = "compacting", !.op = Llm(requests + 1),
                                  !.attempt = 1, !.input = <<>>, !.source = h]
       \/ /\ history' = h \o Users(turn.steering)
          /\ turn' = [turn EXCEPT !.phase = "awaiting_llm", !.op = Llm(requests + 1),
                                  !.steering = <<>>]
    /\ UNCHANGED <<cancel, failed, error, received, platform>>

\* failure::terminal.
FailSession(o, h) ==
    /\ Complete(o, {})
    /\ history' = h
    /\ turn' = NoTurn
    /\ plan' = NoPlan
    /\ failed' = TRUE
    /\ status' = "failed"
    /\ UNCHANGED <<executions, nextSess, cancel, error, requests, told, received, inputs, platform>>

\* schedule_ready and finish_completed_tool_plan: submit what can be submitted;
\* a plan with nothing left appends its results in call order.
RunPlan(o, p, tracked, h) ==
    LET s == Schedule(p, tracked)
        q == Submit(s.plan, s.prepared, tracked)
    IN  \/ /\ IsComplete(q)
           /\ StageAfterBoundary(o, h \o Results(q))
        \/ /\ ~IsComplete(q)
           /\ Complete(o, {q.calls[i].op : i \in s.prepared})
           /\ plan' = q
           /\ history' = h
           /\ turn' = [turn EXCEPT !.phase = "executing_tools", !.op = None]
           /\ status' = "running"
           /\ UNCHANGED <<cancel, failed, error, requests, received, platform>>

-----------------------------------------------------------------------------
(* User messages.                                                          *)

NextMessage == MaxMessages - inputs.messages + 1

SendMessage ==
    /\ ~error
    /\ inputs.messages > 0
    /\ inputs' = [inputs EXCEPT !.messages = @ - 1]

\* handle_user_message with an active turn: the message is steering.
Steer ==
    /\ SendMessage
    /\ Live
    /\ turn.phase # "none"
    /\ turn' = [turn EXCEPT !.steering = Append(@, NextMessage)]
    /\ received' = Append(received, NextMessage)
    /\ UNCHANGED <<plan, history, executions, nextSess, cancel, failed, status, error,
                   requests, open, performed, told, platform>>

\* handle_user_message of an idle session: the message opens a turn, and is
\* held outside the projection when that must be compacted first.
StartTurn ==
    LET opened == [NoTurn EXCEPT !.id = requests + 1, !.op = Llm(requests + 1)] IN
    /\ SendMessage
    /\ Live
    /\ turn.phase = "none"
    /\ RequestLlm(None)
    /\ received' = Append(received, NextMessage)
    /\ \/ /\ turn' = [opened EXCEPT !.phase = "compacting", !.attempt = 1,
                                    !.input = <<NextMessage>>, !.source = history]
          /\ UNCHANGED history
       \/ /\ turn' = [opened EXCEPT !.phase = "awaiting_llm"]
          /\ history' = history \o Users(<<NextMessage>>)
    /\ UNCHANGED <<plan, executions, nextSess, cancel, failed, error, told, platform>>

\* handle, after a terminal failure or a cancellation: the event leaves the
\* session as it is, apart from its status.
RestateStatus ==
    /\ failed \/ cancel.requested
    /\ status' = IF failed THEN "failed"
                 ELSE IF turn.phase # "none" THEN "cancelling" ELSE "cancelled"
    /\ UNCHANGED <<turn, plan, history, executions, nextSess, cancel, failed, error,
                   requests, open, performed, told, received, platform>>

\* A message then is only saved for audit.
IgnoreMessage == SendMessage /\ RestateStatus

-----------------------------------------------------------------------------
(* handle_llm_outcome.                                                     *)

Said(o) == Append(history, <<"assistant", o[2], 0>>)

\* Stop or Refusal without tool calls: the turn ends unless steering waits.
LlmStops(o) ==
    /\ AwaitsLlm(o, "awaiting_llm")
    /\ \/ /\ turn.steering # <<>>
          /\ StageAfterBoundary(o, Said(o))
       \/ /\ turn.steering = <<>>
          /\ turn' = NoTurn
          /\ history' = Said(o)
          /\ status' = "idle"
          /\ Complete(o, {})
          /\ UNCHANGED <<plan, cancel, failed, error, requests, received, platform>>
    /\ UNCHANGED <<executions, nextSess, told, inputs>>

\* PauseTurn stages another request at once.
LlmPauses(o) ==
    /\ AwaitsLlm(o, "awaiting_llm")
    /\ inputs.rounds > 0
    /\ inputs' = [inputs EXCEPT !.rounds = @ - 1]
    /\ StageAfterBoundary(o, Said(o))
    /\ UNCHANGED <<executions, nextSess, told>>

\* ToolUse: the plan is saved and its first segment submitted.
LlmAsksForTools(o) ==
    /\ AwaitsLlm(o, "awaiting_llm")
    /\ inputs.rounds > 0
    /\ inputs' = [inputs EXCEPT !.rounds = @ - 1]
    /\ \E asked \in Plans :
           RunPlan(o, ParsePlan(o[2], asked), executions,
                   Append(history, <<"calls", o[2], Len(asked)>>))
    /\ UNCHANGED <<executions, nextSess, told>>

\* A plan that cannot be parsed, a Length or a ContentFilter stop: the
\* response is kept and the session fails.
LlmResponseRejected(o) ==
    /\ AwaitsLlm(o, "awaiting_llm")
    /\ FailSession(o, Said(o))

\* A malformed response, a definitive failure, a cancellation nobody asked
\* for, or an unknown outcome once the turn's retry is spent.
LlmFails(o) ==
    /\ AwaitsLlm(o, "awaiting_llm")
    /\ FailSession(o, history)

\* Mutant of LlmUnknown: the turn goes on waiting for the first request.
LlmUnknownUnrecorded(o) ==
    /\ AwaitsLlm(o, "awaiting_llm")
    /\ turn.retries < MaxLlmRetries
    /\ RequestLlm(o)
    /\ turn' = [turn EXCEPT !.retries = @ + 1]
    /\ UNCHANGED <<plan, history, executions, nextSess, cancel, failed, error, told,
                   received, inputs, platform>>

\* Unknown: the same projection is requested again, once in a turn.
LlmUnknown(o) ==
    /\ AwaitsLlm(o, "awaiting_llm")
    /\ turn.retries < MaxLlmRetries
    /\ RequestLlm(o)
    /\ turn' = [turn EXCEPT !.op = Llm(requests + 1), !.retries = @ + 1]
    /\ UNCHANGED <<plan, history, executions, nextSess, cancel, failed, error, told,
                   received, inputs, platform>>

-----------------------------------------------------------------------------
(* handle_compaction_outcome.                                              *)

\* Mutant of CompactionSucceeds: the message that opened the turn is lost.
CompactionForgetsInput(o) ==
    /\ AwaitsLlm(o, "compacting")
    /\ history = turn.source
    /\ history' = UserItems(history) \o <<<<"compaction", o[2], 0>>>> \o Users(turn.steering)
    /\ RequestLlm(o)
    /\ turn' = [turn EXCEPT !.phase = "awaiting_llm", !.op = Llm(requests + 1), !.attempt = 0,
                            !.input = <<>>, !.source = <<>>, !.steering = <<>>]
    /\ UNCHANGED <<plan, executions, nextSess, cancel, failed, error, told, received,
                   inputs, platform>>

\* The compacted projection is the retained user messages, the newest within
\* the token budget, and the provider's item; the input that was held and the
\* steering come after it.
CompactionSucceeds(o) ==
    LET users == UserItems(history) IN
    /\ AwaitsLlm(o, "compacting")
    /\ history = turn.source
    /\ \E dropped \in 0 .. Len(users) :
           history' = SubSeq(users, dropped + 1, Len(users)) \o <<<<"compaction", o[2], 0>>>>
                      \o Users(turn.input) \o Users(turn.steering)
    /\ RequestLlm(o)
    /\ turn' = [turn EXCEPT !.phase = "awaiting_llm", !.op = Llm(requests + 1), !.attempt = 0,
                            !.input = <<>>, !.source = <<>>, !.steering = <<>>]
    /\ UNCHANGED <<plan, executions, nextSess, cancel, failed, error, told, received,
                   inputs, platform>>

\* Unknown is reissued once; everything else fails the session.
CompactionUnknown(o) ==
    /\ AwaitsLlm(o, "compacting")
    /\ turn.attempt < 2
    /\ RequestLlm(o)
    /\ turn' = [turn EXCEPT !.op = Llm(requests + 1), !.attempt = @ + 1]
    /\ UNCHANGED <<plan, history, executions, nextSess, cancel, failed, error, told,
                   received, inputs, platform>>

CompactionFails(o) ==
    /\ AwaitsLlm(o, "compacting")
    /\ FailSession(o, history)

-----------------------------------------------------------------------------
(* handle_execution_completion.  ApplyCompletion sets one call, advances   *)
(* the plan and runs it on.                                                *)

ApplyCompletion(o, i, call, tracked) ==
    /\ Live /\ Completes(o) /\ turn.phase = "executing_tools"
    /\ RunPlan(o, AdvanceCompletedSegments([plan EXCEPT !.calls[i] = call]), tracked, history)
    /\ UNCHANGED inputs

\* shell_tools::apply_response.  An active process gets a session and is
\* tracked; a finished one is forgotten once its output is read; more output
\* is drained up to the page limit.
ShellResponds(o) ==
    \E i \in CallOf(o), active, more \in BOOLEAN :
        LET call == plan.calls[i]
            sess == IF active /\ call.sess = NoSess THEN nextSess ELSE call.sess
            others == {x \in executions : x.sess # sess}
            tracked == IF active THEN others \cup {[sess |-> sess, proc |-> call.proc]}
                       ELSE IF more THEN executions ELSE others
            read == [call EXCEPT !.sess = sess, !.pages = @ + 1]
        IN  /\ IsShell(call.tool)
            /\ IF active THEN call.proc \in running ELSE call.proc \in launched \ running
            /\ executions' = tracked
            /\ nextSess' = IF sess = nextSess THEN nextSess + 1 ELSE nextSess
            /\ told' = IF active THEN told \cup {call.proc} ELSE told
            /\ ApplyCompletion(o, i,
                   IF more /\ read.pages < MaxPages
                   THEN [read EXCEPT !.status = "ready", !.step = "observe"]
                   ELSE [read EXCEPT !.status = "completed"],
                   tracked)

\* Mutant of PatchContinues: a mutation whose outcome is unknown is sent again.
PatchRetries(o) ==
    \E i \in CallOf(o) :
        /\ plan.calls[i].tool = "apply_patch"
        /\ plan.calls[i].step # "reconcile"
        /\ ApplyCompletion(o, i, [plan.calls[i] EXCEPT !.status = "ready", !.step = "mutate"], executions)
        /\ UNCHANGED <<executions, nextSess, told>>

\* filesystem_tools::apply_patch_response and apply_unknown: the reads of a
\* patch lead to its mutation, and a mutation whose outcome is unknown to the
\* reads that reconcile it.
PatchContinues(o) ==
    \E i \in CallOf(o) :
        LET call == plan.calls[i] IN
        /\ call.tool = "apply_patch"
        /\ call.step # "reconcile"
        /\ ApplyCompletion(o, i,
               [call EXCEPT !.status = "ready",
                            !.step = IF @ = "read" THEN "mutate" ELSE "reconcile"],
               executions)
        /\ UNCHANGED <<executions, nextSess, told>>

\* The call is over: a file result, or for every tool an error result (an
\* error response, a failed or cancelled operation, or an unknown outcome that
\* is not a mutation's).  Nothing is submitted again.
CallEnds(o) ==
    \E i \in CallOf(o) :
        /\ ApplyCompletion(o, i, [plan.calls[i] EXCEPT !.status = "completed"], executions)
        /\ UNCHANGED <<executions, nextSess, told>>

-----------------------------------------------------------------------------
(* Cancellation (cancellation.rs).                                         *)

\* begin: the work in flight becomes the cancellation's targets.
InFlight ==
    IF turn.phase \in {"awaiting_llm", "compacting"} THEN {turn.op}
    ELSE {plan.calls[i].op : i \in {j \in DOMAIN plan.calls : plan.calls[j].status = "submitted"}}

\* stage_interrupt for each process found, with the shell session it is tracked
\* under if any, unless its cleanup is under way or over.
StageInterrupts(processes, found) ==
    [p \in DOMAIN processes \cup {x.proc : x \in found} |->
        IF p \in DOMAIN processes THEN processes[p]
        ELSE [sess |-> (CHOOSE x \in found : x.proc = p).sess, control |-> "interrupt", attempt |-> 0]]

Interrupts(processes, found) ==
    {<<"interrupt", p, 0>> : p \in {x.proc : x \in found} \ DOMAIN processes}

Untracked(procs) == [sess : {NoSess}, proc : procs]

\* cancellation_complete.
CancellationComplete(c) ==
    /\ c.discovery = None
    /\ \A t \in DOMAIN c.targets :
           \/ c.targets[t].control = "settled"
           \/ c.targets[t].completed /\ c.targets[t].control = "completion"
    /\ \A p \in DOMAIN c.processes : c.processes[p].control = "settled"

\* set_lifecycle_status, with the tracked sessions left after the event.
SetLifecycleStatus(c, t, tracked) ==
    /\ cancel' = c
    /\ IF CancellationComplete(c)
       THEN turn' = NoTurn /\ executions' = {} /\ status' = "cancelled"
       ELSE turn' = t /\ executions' = tracked /\ status' = "cancelling"
    /\ plan' = NoPlan
    /\ UNCHANGED <<history, nextSess, failed, error, requests, received, launched, running>>

SendCancel ==
    /\ ~error
    /\ inputs.cancels > 0
    /\ inputs' = [inputs EXCEPT !.cancels = @ - 1]

\* begin: withdraw what is in flight, interrupt every tracked process.
BeginCancellation ==
    /\ SendCancel
    /\ Live
    /\ Complete(None, {<<"withdraw", t, 0>> : t \in InFlight} \cup Interrupts(<<>>, executions))
    /\ SetLifecycleStatus(
          [NoCancel EXCEPT
              !.requested = TRUE, !.turn = turn.id,
              !.targets = [t \in InFlight |->
                              [completed |-> FALSE, control |-> "withdraw", attempt |-> 0]],
              !.processes = StageInterrupts(<<>>, executions)],
          IF turn.phase = "none" THEN NoTurn
          ELSE [NoTurn EXCEPT !.phase = "cancelling", !.id = turn.id],
          executions)
    /\ UNCHANGED <<told, withdrawn, listing>>

\* handle: another request, or one after a failure.
IgnoreCancel == SendCancel /\ RestateStatus

\* handle_withdrawal.
WithdrawalCompletes(o) ==
    LET t == o[2]
        Set(control, attempt, completed) ==
            SetLifecycleStatus(
                [cancel EXCEPT !.targets[t] = [completed |-> completed, control |-> control,
                                               attempt |-> attempt]],
                turn, executions)
    IN  /\ Cancelling /\ Completes(o)
        /\ o[1] = "withdraw" /\ IsControl(o)
        /\ \/ /\ t \in withdrawn
              /\ Complete(o, {})
              /\ Set("settled", 0, TRUE)
           \/ /\ t \notin withdrawn
              /\ t[1] = "llm"
              /\ Complete(o, {<<"llm_cancel", t, 1>>})
              /\ Set("llm_cancel", 1, cancel.targets[t].completed)
           \/ /\ t \notin withdrawn
              /\ t[1] # "llm"
              /\ Complete(o, {})
              /\ Set(IF cancel.targets[t].completed THEN "settled" ELSE "completion", 0,
                     cancel.targets[t].completed)
        /\ withdrawn' = withdrawn \ {t}
        /\ UNCHANGED <<told, inputs, listing>>

\* handle_llm_cancellation.
LlmCancellationCompletes(o) ==
    \E succeeded \in BOOLEAN :
        LET t == o[2]
            retry == ~succeeded /\ cancel.targets[t].attempt < MaxCleanupAttempts
            next == IF retry THEN cancel.targets[t].attempt + 1 ELSE 0
        IN  /\ Cancelling /\ Completes(o)
            /\ o[1] = "llm_cancel" /\ IsControl(o)
            /\ Complete(o, IF retry THEN {<<"llm_cancel", t, next>>} ELSE {})
            /\ SetLifecycleStatus(
                  [cancel EXCEPT
                      !.failures = IF succeeded THEN @ ELSE @ \cup {o},
                      !.targets[t] = [@ EXCEPT !.attempt = next,
                                               !.control = IF retry THEN "llm_cancel"
                                                           ELSE "settled"]],
                  turn, executions)
            /\ UNCHANGED <<told, inputs, withdrawn, listing>>

\* The process an execution operation concerns.
ProcessOf(o) == IF o[1] = "start" THEN o ELSE o[4]

\* What the completion of work in flight may report about its process.  A
\* rejected or cancelled start has no process; a batch that writes input before
\* it observes is not read for one; an unknown outcome may carry no response.
Report(o, outcome) ==
    LET p == ProcessOf(o)
        seen == IF p \notin launched THEN {}
                ELSE IF p \in running THEN {"active"} ELSE {"finished"}
        silent == IF o[1] = "start" /\ p \in launched THEN {} ELSE {"none"}
    IN  CASE o[1] \notin ProcessKinds -> {"none"}
          [] outcome = "unknown"      -> {"none"} \cup seen
          [] outcome = "cancelled"    -> silent
          [] OTHER                    -> silent \cup seen

\* handle_original_completion: late work is consumed for cleanup only.  A
\* process it reports active is interrupted; an execution whose outcome is
\* unknown waits for a discovery, the one under way if there is one.
OriginalCompletes(o) ==
    \E outcome \in IF o \in withdrawn THEN {"cancelled"}
                   ELSE {"succeeded", "failed", "unknown", "cancelled"} :
    \E report \in Report(o, outcome) :
        LET found == Untracked(IF report = "active" THEN {ProcessOf(o)} ELSE {})
            uncertain == o[1] # "llm" /\ outcome = "unknown" /\ report = "none"
            discover == uncertain /\ cancel.discovery = None
            next == <<"list", cancel.listings + 1, 0>>
            control == cancel.targets[o].control
        IN  /\ Cancelling /\ Completes(o)
            /\ o \in DOMAIN cancel.targets
            /\ Complete(o, Interrupts(cancel.processes, found) \cup (IF discover THEN {next} ELSE {}))
            /\ told' = told \cup {x.proc : x \in found}
            /\ SetLifecycleStatus(
                  [cancel EXCEPT
                      !.processes = StageInterrupts(@, found),
                      !.discovery = IF discover THEN next ELSE @,
                      !.attempt = IF discover THEN 1 ELSE @,
                      !.listings = IF discover THEN @ + 1 ELSE @,
                      !.targets[o] =
                          [@ EXCEPT !.completed = TRUE,
                                    !.control = IF uncertain THEN "discovery"
                                                ELSE IF control = "completion" THEN "settled"
                                                ELSE control]],
                  turn, executions)
            /\ UNCHANGED <<inputs, withdrawn, listing>>

\* settle_process: its tracked session, if it has one, is dropped.
Settle(tracked, process) ==
    {x \in tracked : process.sess = NoSess \/ x.sess # process.sess}

\* Mutant of InterruptCompletes: any answer to the interrupt settles the process.
InterruptSuffices(o) ==
    /\ Cancelling /\ Completes(o)
    /\ o[1] = "interrupt" /\ IsProcessControl(o)
    /\ Complete(o, {})
    /\ SetLifecycleStatus([cancel EXCEPT !.processes[o[2]].control = "settled"], turn,
                          Settle(executions, cancel.processes[o[2]]))
    /\ UNCHANGED <<told, inputs, withdrawn, listing>>

\* handle_process_control: an interrupt that did not finish the process is
\* followed by a termination, which is repeated once when it fails.
InterruptCompletes(o) ==
    \E reported \in BOOLEAN :
        LET p == o[2]
            finished == reported /\ p \notin running
        IN  /\ Cancelling /\ Completes(o)
            /\ o[1] = "interrupt" /\ IsProcessControl(o)
            /\ Complete(o, IF finished THEN {} ELSE {<<"terminate", p, 1>>})
            /\ SetLifecycleStatus(
                  [cancel EXCEPT !.processes[p] =
                      [@ EXCEPT !.control = IF finished THEN "settled" ELSE "terminate",
                                !.attempt = IF finished THEN 0 ELSE 1]],
                  turn,
                  IF finished THEN Settle(executions, cancel.processes[p]) ELSE executions)
            /\ UNCHANGED <<told, inputs, withdrawn, listing>>

\* Mutant of TerminateCompletes: attempts are not counted, so that a third one
\* bears the name of the first again.
TerminateForEver(o) ==
    \E succeeded \in BOOLEAN :
        LET p == o[2] IN
        /\ Cancelling /\ Completes(o)
        /\ o[1] = "terminate" /\ IsProcessControl(o)
        /\ succeeded => p \notin running
        /\ Complete(o, IF succeeded THEN {} ELSE {<<"terminate", p, 3 - o[3]>>})
        /\ SetLifecycleStatus(
              [cancel EXCEPT !.processes[p] =
                  [@ EXCEPT !.attempt = 3 - o[3],
                            !.control = IF succeeded THEN "settled" ELSE "terminate"]],
              turn,
              IF succeeded THEN Settle(executions, cancel.processes[p]) ELSE executions)
        /\ UNCHANGED <<told, inputs, withdrawn, listing>>

TerminateCompletes(o) ==
    \E succeeded \in BOOLEAN :
        LET p == o[2]
            retry == ~succeeded /\ cancel.processes[p].attempt < MaxCleanupAttempts
            next == IF retry THEN cancel.processes[p].attempt + 1 ELSE 0
        IN  /\ Cancelling /\ Completes(o)
            /\ o[1] = "terminate" /\ IsProcessControl(o)
            /\ succeeded => p \notin running
            /\ Complete(o, IF retry THEN {<<"terminate", p, next>>} ELSE {})
            /\ SetLifecycleStatus(
                  [cancel EXCEPT
                      !.failures = IF succeeded THEN @ ELSE @ \cup {o},
                      !.processes[p] = [@ EXCEPT !.attempt = next,
                                                 !.control = IF retry THEN "terminate"
                                                             ELSE "settled"]],
                  turn,
                  IF retry THEN executions ELSE Settle(executions, cancel.processes[p]))
            /\ UNCHANGED <<told, inputs, withdrawn, listing>>

\* handle_discovery: a failed listing is repeated once; then every target that
\* waited for it is settled and the processes it found are interrupted.
DiscoveryCompletes(o) ==
    LET retry == ~listing.answered /\ cancel.attempt < MaxCleanupAttempts
        next == <<"list", cancel.listings + 1, 0>>
        settled == [t \in DOMAIN cancel.targets |->
                       [cancel.targets[t] EXCEPT !.control = IF @ = "discovery" THEN "settled" ELSE @]]
    IN  /\ Cancelling /\ Completes(o)
        /\ cancel.discovery = o
        /\ Complete(o, IF retry THEN {next} ELSE Interrupts(cancel.processes, Untracked(listing.procs)))
        /\ told' = told \cup listing.procs
        /\ listing' = NoListing
        /\ SetLifecycleStatus(
              IF retry
              THEN [cancel EXCEPT !.discovery = next, !.attempt = @ + 1, !.listings = @ + 1,
                                  !.failures = @ \cup {o}]
              ELSE [cancel EXCEPT !.discovery = None, !.attempt = 0, !.targets = settled,
                                  !.processes = StageInterrupts(@, Untracked(listing.procs))],
              turn, executions)
        /\ UNCHANGED <<inputs, withdrawn>>

-----------------------------------------------------------------------------
(* The platform and the execution machine, as far as an outcome shows them.*)

\* complete_withdrawal of a target that no dispatcher has claimed: it is
\* cancelled, and its completion is posted before the withdrawal's.
Withdraw(o) ==
    /\ o[1] = "withdraw"
    /\ o[2] \in open
    /\ o[2] \notin withdrawn \cup launched
    /\ withdrawn' = withdrawn \cup {o[2]}
    /\ UNCHANGED <<session, listing, launched, running>>

\* The machine starts the process of a start operation.
Launch(o) ==
    /\ o[1] = "start"
    /\ o \notin withdrawn \cup launched
    /\ launched' = launched \cup {o}
    /\ running' = running \cup {o}
    /\ UNCHANGED <<session, withdrawn, listing>>

\* A process ends, on its own or because it was interrupted or terminated.
Exit(p) ==
    /\ running' = running \ {p}
    /\ UNCHANGED <<session, withdrawn, listing, launched>>

\* The machine answers a discovery: the active processes of the turn's label.
List(o) ==
    /\ o[1] = "list" /\ ~listing.answered
    /\ listing' = [answered |-> TRUE, procs |-> {p \in running : p[2][1] >= cancel.turn}]
    /\ UNCHANGED <<session, withdrawn, launched, running>>

-----------------------------------------------------------------------------
Handle(o) ==
    \/ LlmStops(o) \/ LlmPauses(o) \/ LlmAsksForTools(o) \/ LlmResponseRejected(o)
    \/ LlmFails(o) \/ LlmUnknown(o)
    \/ CompactionSucceeds(o) \/ CompactionUnknown(o) \/ CompactionFails(o)
    \/ ShellResponds(o) \/ PatchContinues(o) \/ CallEnds(o)
    \/ WithdrawalCompletes(o) \/ LlmCancellationCompletes(o) \/ OriginalCompletes(o)
    \/ InterruptCompletes(o) \/ TerminateCompletes(o) \/ DiscoveryCompletes(o)
    \/ RefuseCompletion(o)

Next ==
    \/ Steer \/ StartTurn \/ IgnoreMessage
    \/ BeginCancellation \/ IgnoreCancel
    \/ \E o \in open : Handle(o) \/ Withdraw(o) \/ Launch(o) \/ List(o)
    \/ \E p \in running : Exit(p)

Spec == Init /\ [][Next]_vars

\* OperationDispatch completes every operation and SessionInbox hands every
\* completion to the handler: weak fairness of handling, with what enables it
\* (a completion that can arrive at a session that is not blocked) and what it
\* does (the operation is open no more) written out.
CanHandle == ~error /\ \E o \in open : Completes(o)

FairSpec == Spec /\ ([]<>~CanHandle \/ []<><<\E o \in open : o \notin open'>>_vars)

-----------------------------------------------------------------------------
(* Properties.                                                             *)

CallType ==
    [tool : Tools,
     args : {"ok", "schema", "prepare"}, step : ExecutionKinds,
     status : {"pending", "ready", "submitted", "completed"}]

\* The types of the durable state, with the two facts every handler relies on:
\* a plan exists exactly while tools execute, and the status of a session with a
\* turn says whether the turn is being cancelled.  (state/turn.rs, state/tool.rs)
TypeOK ==
    /\ turn.phase \in {"none", "awaiting_llm", "executing_tools", "compacting", "cancelling"}
    /\ turn.id \in 0 .. requests /\ turn.attempt \in 0 .. 2 /\ turn.retries \in 0 .. MaxLlmRetries
    /\ \A i \in DOMAIN plan.calls :
           [f \in {"tool", "args", "step", "status"} |-> plan.calls[i][f]] \in CallType
    /\ (plan # NoPlan) = (turn.phase = "executing_tools")
    /\ executions \subseteq [sess : 1 .. nextSess - 1, proc : launched]
    /\ cancel.requested \in BOOLEAN /\ failed \in BOOLEAN /\ error \in BOOLEAN
    /\ status \in {"idle", "running", "cancelling", "cancelled", "failed"}
    /\ turn.phase # "none" => status = IF cancel.requested THEN "cancelling" ELSE "running"
    /\ running \subseteq launched /\ launched \subseteq open \cup performed

\* A withdrawal that is still to complete although its target's outcome was
\* unknown: the target no longer records it as its control.
LateWithdrawal(o) ==
    /\ o[1] = "withdraw"
    /\ o[2] \in DOMAIN cancel.targets
    /\ cancel.targets[o[2]].completed
    /\ ~IsControl(o)

\* The operations in flight are exactly those the state waits for, so that no
\* completion is refused and nothing is waited for that cannot come: one
\* request of a model phase, the submitted calls of a plan, none after a
\* failure, the targets and controls of a cancellation.  The one exception is
\* a late withdrawal.  (handler.rs, handle; cancellation.rs, handle_completion)
OperationsAreAwaited ==
    /\ TypeOK
    /\ failed => open = {}
    /\ Live => open = InFlight
    /\ Cancelling =>
           /\ \A o \in open : Expected(o) \/ LateWithdrawal(o)
           /\ \A t \in DOMAIN cancel.targets :
                  /\ ControlOf(t, cancel.targets[t]) \in open \cup {None}
                  /\ t \notin open => cancel.targets[t].completed
                  /\ cancel.targets[t].control = "discovery" => cancel.discovery # None
           /\ \A p \in DOMAIN cancel.processes :
                  ControlOf(p, cancel.processes[p]) \in open \cup {None}
           /\ cancel.discovery \in open \cup {None}

\* A plan is never stuck and runs in order: some call is submitted, every
\* submitted or ready call is of the active segment, everything before it is
\* complete, and no shell session serves two submitted calls.
\* (tool_execution.rs, schedule_ready; tool_plan.rs, advance_completed_segments)
PlanRunsInOrder ==
    turn.phase = "executing_tools" =>
        LET busy == {i \in DOMAIN plan.calls : plan.calls[i].status \in {"submitted", "ready"}}
        IN  /\ \E i \in busy : plan.calls[i].status = "submitted"
            /\ \A i \in busy : i \in plan.segments[plan.active]
            /\ \A k \in 1 .. plan.active - 1 : SegmentComplete(plan, k)
            /\ \A i, j \in busy :
                   i # j /\ plan.calls[i].sess = plan.calls[j].sess => plan.calls[i].sess = NoSess

ResultsFollowTheirCalls ==
    turn.phase \in {"awaiting_llm", "compacting"} =>
        \A n \in DOMAIN history :
            /\ history[n][1] = "calls" =>
                   \A i \in 1 .. history[n][3] :
                       n + i \in DOMAIN history /\ history[n + i] = <<"result", history[n][2], i>>
            /\ history[n][1] = "result" =>
                   \E m \in 1 .. n - 1 :
                       history[m][1] = "calls" /\ n = m + history[n][3] /\ history[m][2] = history[n][2]

MessagesKeepTheirOrder ==
    LET users == UserItems(history)
    IN  Live => IsSuffix([n \in DOMAIN users |-> users[n][2]] \o turn.input \o turn.steering, received)

\* The projection is in order.  No request is staged with a tool call whose results
\* are missing, out of order or separated from it, by steering or by a compaction
\* (handler.rs, finish_completed_tool_plan and stage_after_boundary).  Every
\* message a live session accepted is in the projection, held for it or queued as
\* steering, once and in order; only compaction drops any, the oldest
\* (handler.rs, handle_user_message; compaction.rs).
ProjectionInOrder == ResultsFollowTheirCalls /\ MessagesKeepTheirOrder

\* A command is not started, input not written and a patch not applied twice
\* for one tool call, whatever outcomes were unknown.
\* (DESIGN.md: "Commands are never automatically repeated.")
WorkIsNotRepeated == open \cap performed = {}

\* A cancellation loses track of nothing.  While it runs, every target and control is
\* awaited (OperationsAreAwaited); once it is complete, no process is running that an
\* outcome reported active, unless both its terminations are recorded as failures.
\* (cancellation.rs, handle_completion and cancellation_complete)
CancellationLosesNothing ==
    /\ OperationsAreAwaited
    /\ cancel.requested /\ CancellationComplete(cancel) =>
        \A p \in told \cap running, n \in 1 .. MaxCleanupAttempts :
            <<"terminate", p, n>> \in cancel.failures

\* The session is cancelled only once its cleanup has settled, and stays so.
\* (harness-integration.md: "The session remains `cancelling` until cleanup
\* capable of leaving external work running has settled; afterwards it remains
\* `cancelled` permanently.")
CancelledMeansSettled == status = "cancelled" => CancellationComplete(cancel)

\* A cancellation ends, unless a late withdrawal blocks the session.
CancellationEnds == cancel.requested ~> (status = "cancelled" /\ CancellationComplete(cancel)) \/ error

\* A turn ends when the model stops asking for more: it goes idle, fails or is
\* cancelled.  (No plan, compaction or retry waits for ever: that every turn ends
\* is that again and again there is none.)
TurnsEnd == []<>(turn.phase = "none" \/ error)
=============================================================================
