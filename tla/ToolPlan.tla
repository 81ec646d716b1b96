------------------------------ MODULE ToolPlan ------------------------------
(***************************************************************************)
(* The ordered tool plan of the Basic Codex harness, as pure operators     *)
(* over its durable state (state/tool.rs): parsing the calls of a response *)
(* into contiguous segments (tool_plan.rs), and choosing the calls of the  *)
(* current segment to submit (tool_execution.rs, schedule_ready).          *)
(*                                                                         *)
(* A call asked for by the model is [tool, sess, args]: the shell session  *)
(* a write_stdin names (NoSess for the other tools), and whether its       *)
(* arguments pass ("ok"), fail the schema when the response is parsed      *)
(* ("schema"), or fail only when the call is prepared ("prepare").         *)
(***************************************************************************)
EXTENDS Naturals, Sequences, FiniteSets, SequencesExt

\* No shell session: the Option<i32> of ShellCallState.session_id is None.
NoSess == 0

\* No operation, and no process.
None == <<>>

\* A call's operations are named by the step, the call's place in the response
\* that asked for it, the output pages read so far and the process it talks to.
CallOperation(assistant, i, call, proc) == <<call.step, <<assistant, i>>, call.pages, proc>>

Tools == {"exec_command", "write_stdin", "apply_patch", "view_image"}

\* tool_catalog.rs: apply_patch is exclusive, the other three parallel-safe.
ParallelSafe(tool) == tool # "apply_patch"

IsShell(tool) == tool \in {"exec_command", "write_stdin"}

\* The first execution operation a call submits.
FirstStep(tool) ==
    CASE tool = "exec_command" -> "start"
      [] tool = "write_stdin"  -> "interact"
      [] OTHER                 -> "read"

\* tool_plan::parse on one callable item: invalid arguments of a known tool
\* are a completed call with an error result.
ParsedCall(c) ==
    [tool |-> c.tool, sess |-> c.sess, args |-> c.args, step |-> FirstStep(c.tool),
     pages |-> 0, op |-> None, proc |-> None,
     status |-> IF c.args = "schema" THEN "completed" ELSE "pending"]

\* build_segments: the pending calls in contiguous parallel-safe groups, in order;
\* an exclusive call is a segment of its own.
BuildSegments(calls) ==
    LET queued == {i \in DOMAIN calls : calls[i].status = "pending"}
        Earlier(i) == {j \in queued : j < i}
        Opens(i) == \/ Earlier(i) = {}
                    \/ ~ParallelSafe(calls[i].tool)
                    \/ ~ParallelSafe(calls[Max(Earlier(i))].tool)
        Opened(i) == {j \in queued : j <= i /\ Opens(j)}
    IN  [k \in 1 .. Cardinality({j \in queued : Opens(j)}) |->
            {i \in queued : Cardinality(Opened(i)) = k}]

\* tool_plan::parse of the tool_use response number n.
ParsePlan(n, asked) ==
    LET calls == [i \in DOMAIN asked |-> ParsedCall(asked[i])]
    IN  [assistant |-> n, calls |-> calls, segments |-> BuildSegments(calls), active |-> 1]

IsComplete(plan) == \A i \in DOMAIN plan.calls : plan.calls[i].status = "completed"

SegmentComplete(plan, k) ==
    \A i \in plan.segments[k] : plan.calls[i].status = "completed"

\* advance_completed_segments: move to the first segment from the active one
\* on that still has an incomplete call.
AdvanceCompletedSegments(plan) ==
    [plan EXCEPT !.active =
        CHOOSE k \in plan.active .. Len(plan.segments) + 1 :
            /\ \A j \in plan.active .. k - 1 : SegmentComplete(plan, j)
            /\ k \in DOMAIN plan.segments => ~SegmentComplete(plan, k)]

\* submitted_resources: the shell sessions a submitted call is using.
SubmittedResources(calls) ==
    {calls[i].sess : i \in {j \in DOMAIN calls :
        calls[j].status = "submitted" /\ IsShell(calls[j].tool)}} \ {NoSess}

\* Mutant of Busy: the session a pending write_stdin names is overlooked.
BusyUnlessPending(call, resources) ==
    IsShell(call.tool) /\ call.status \in {"ready", "submitted"} /\ call.sess \in resources

\* resource_session_id of a call that is not completed.
Busy(call, resources) ==
    IsShell(call.tool) /\ call.status # "completed" /\ call.sess \in resources

\* shell_tools::prepare_new and filesystem_tools::prepare_new: arguments the
\* schema could not refuse, and the session a write_stdin names, which must be
\* tracked.  A ready call (a page to drain, a patch phase) can be prepared.
CanPrepare(call, tracked) ==
    call.status = "pending" =>
        /\ call.args = "ok"
        /\ call.tool = "write_stdin" => \E x \in tracked : x.sess = call.sess

\* The calls the loop of schedule_ready may do something about.
IsOpen(call) == call.status \in {"pending", "ready"}

\* busy_resources when the loop over segment k comes to call i: the sessions of the
\* submitted calls and of the calls before i.  (Of these one that cannot be prepared
\* takes no session, one that waits names a session that is in use already.)
ResourcesBefore(plan, k, i, tracked) ==
    SubmittedResources(plan.calls) \cup
    ({plan.calls[j].sess : j \in {j \in plan.segments[k] :
        j < i /\ IsOpen(plan.calls[j]) /\ CanPrepare(plan.calls[j], tracked)}} \ {NoSess})

\* A call of a busy session waits.
Considered(plan, k, tracked) ==
    {i \in plan.segments[k] : /\ IsOpen(plan.calls[i])
                              /\ ~Busy(plan.calls[i], ResourcesBefore(plan, k, i, tracked))}

\* Of the others, one that cannot be prepared completes with an error result.
Prepared(plan, k, tracked) ==
    {i \in Considered(plan, k, tracked) : CanPrepare(plan.calls[i], tracked)}

Refused(plan, k, tracked) ==
    {i \in Considered(plan, k, tracked) : ~CanPrepare(plan.calls[i], tracked)}

\* Nothing of segment k is left to submit or to await.
PassedOver(plan, k, tracked) ==
    \A i \in plan.segments[k] :
        plan.calls[i].status = "completed" \/ i \in Refused(plan, k, tracked)

\* The plan once the segments up to k have been considered, and what is prepared.
Arrive(plan, k, tracked) ==
    LET met == (plan.active .. k) \cap DOMAIN plan.segments
        refused == UNION {Refused(plan, j, tracked) : j \in met}
    IN  [plan |-> [plan EXCEPT !.active = k,
                               !.calls = [i \in DOMAIN plan.calls |->
                                   IF i \in refused THEN [plan.calls[i] EXCEPT !.status = "completed"]
                                   ELSE plan.calls[i]]],
         prepared |-> IF k \in DOMAIN plan.segments THEN Prepared(plan, k, tracked) ELSE {}]

\* Mutant of Schedule: the loop does not go on to the next segment when every
\* call of the current one was refused.
ScheduleOnce(plan, tracked) == Arrive(plan, plan.active, tracked)

\* schedule_ready's loop: segments whose calls all complete at once are passed
\* over; the loop ends at the first one with something to submit or to await.
Schedule(plan, tracked) ==
    Arrive(plan,
           CHOOSE k \in plan.active .. Len(plan.segments) + 1 :
               /\ \A j \in plan.active .. k - 1 : PassedOver(plan, j, tracked)
               /\ k \in DOMAIN plan.segments => ~PassedOver(plan, k, tracked),
           tracked)

\* The process a prepared call talks to; a start has none yet.
Peer(call, tracked) ==
    IF call.step = "interact"
    THEN (CHOOSE x \in tracked : x.sess = call.sess).proc
    ELSE call.proc

\* A prepared call once it is submitted.  The process a start brings about is named
\* by the start.
SubmittedCall(assistant, i, call, tracked) ==
    LET op == CallOperation(assistant, i, call, Peer(call, tracked))
    IN  [call EXCEPT !.status = "submitted", !.op = op,
                     !.proc = IF call.step = "start" THEN op ELSE op[4]]

Submit(plan, prepared, tracked) ==
    [plan EXCEPT !.calls = [i \in DOMAIN plan.calls |->
        IF i \in prepared THEN SubmittedCall(plan.assistant, i, plan.calls[i], tracked)
        ELSE plan.calls[i]]]
=============================================================================
