---------------------------- MODULE ServerProcess ----------------------------
(***************************************************************************)
(* The server process: run_listener (agent-server/src/lib.rs) supervises   *)
(* the HTTP server and the runtime loops and takes them down together.     *)
(* The completion runtime and the notification listener are composed in    *)
(* detail; the scheduler, the dispatcher and the other workers are one     *)
(* abstract loop that runs, stops when told to, or fails.                  *)
(***************************************************************************)
EXTENDS CompletionLoop

CONSTANT MaxFaults  \* bound: failures, lost notifications, locked rows

ASSUME ServerAssumption == MaxFaults \in Nat

VARIABLES
    main,       \* the select! of run_listener and what follows it
    accepting,  \* Readiness
    http,       \* axum::serve
    open,       \* a request is being served
    others,     \* the loops that are not composed
    faults      \* faults so far, for the bound MaxFaults

serverVars == <<main, accepting, http, open, others>>
vars == <<stop, loopVars, serverVars, faults>>

MainState == [pc : {"running", "draining", "exited"},
              branch : {"none", "shutdown", "runtime", "server"},
              result : {"none", "ok", "timed_out", "io", "worker", "runtime_stopped"}]

TypeOK ==
    /\ stop \in BOOLEAN
    /\ main \in MainState
    /\ accepting \in BOOLEAN /\ open \in BOOLEAN
    /\ http \in {"serving", "closed", "failed"}
    /\ others \in {"running", "ended", "failed", "dropped"}
    /\ faults \in 0..MaxFaults

Init ==
    /\ stop = FALSE
    /\ LoopInit
    /\ main = [pc |-> "running", branch |-> "none", result |-> "none"]
    /\ accepting = TRUE /\ http = "serving" /\ open = FALSE
    /\ others = "running"
    /\ faults = 0

Running == main.pc # "exited"
Fault == faults < MaxFaults /\ faults' = faults + 1

-----------------------------------------------------------------------------
(* The HTTP server *)

\* admit; a request that is not admitted is answered at once.
RequestOpens ==
    /\ Running /\ accepting
    /\ http = "serving" /\ ~open
    /\ open' = TRUE
    /\ UNCHANGED <<stop, loopVars, main, accepting, http, others, faults>>

RequestCloses ==
    /\ Running /\ open
    /\ open' = FALSE
    /\ UNCHANGED <<stop, loopVars, main, accepting, http, others, faults>>

\* with_graceful_shutdown: the requests under way are finished first.
HttpCloses ==
    /\ Running /\ stop
    /\ http = "serving" /\ ~open
    /\ http' = "closed"
    /\ UNCHANGED <<stop, loopVars, main, accepting, open, others, faults>>

HttpFails ==
    /\ Running /\ http = "serving"
    /\ Fault
    /\ http' = "failed"
    /\ UNCHANGED <<stop, loopVars, main, accepting, open, others>>

-----------------------------------------------------------------------------
(* The runtime: try_join! of the loops *)

OthersStop ==
    /\ stop /\ others = "running"
    /\ others' = "ended"
    /\ UNCHANGED <<stop, loopVars, main, accepting, http, open, faults>>

OthersFail ==
    /\ others = "running"
    /\ Fault
    /\ others' = "failed"
    /\ UNCHANGED <<stop, loopVars, main, accepting, http, open>>

LoopsEnded == loop.pc = "ended" /\ listener = "ended" /\ others = "ended"
LoopsFailed == "failed" \in {loop.pc, others}

DropLoops ==
    /\ DropLoop
    /\ others' = IF others = "running" THEN "dropped" ELSE others

\* The first loop to fail ends try_join!, which drops the others where they are.
RuntimeFails ==
    /\ LoopsFailed
    /\ listener \notin {"ended", "dropped"}
       \/ others = "running" \/ loop.pc \notin Finished
    /\ DropLoops
    /\ UNCHANGED <<stop, main, accepting, http, open, faults>>

-----------------------------------------------------------------------------
(* run_listener *)

\* begin_draining, stop.cancel
Drain(branch) ==
    /\ main.pc = "running"
    /\ main' = [main EXCEPT !.pc = "draining", !.branch = branch]
    /\ accepting' = FALSE /\ stop' = TRUE
    /\ UNCHANGED <<loopVars, http, open, others, faults>>

\* SIGTERM or Ctrl-C; a later one is not looked at.
SelectShutdown == Drain("shutdown")

\* Mutant of SelectRuntime: only loops that have all ended are noticed.
SelectEndedRuntime == LoopsEnded /\ Drain("runtime")

SelectRuntime == (LoopsFailed \/ LoopsEnded) /\ Drain("runtime")

SelectServer == http # "serving" /\ Drain("server")

\* Mutant of Awaited: whichever ends first is enough.
EitherEnded(branch) == http # "serving" \/ LoopsFailed \/ LoopsEnded

\* What each branch waits for.
Awaited(branch) ==
    /\ branch # "server" => http # "serving"
    /\ branch # "runtime" => LoopsFailed \/ LoopsEnded

\* What run_listener returns.
Result(branch) ==
    LET io == http = "failed" IN
    IF LoopsFailed /\ ~(branch = "shutdown" /\ io) THEN "worker"
    ELSE IF io THEN "io"
    ELSE IF branch = "runtime" THEN "runtime_stopped" ELSE "ok"

\* The process returns, and what it still runs is dropped.
Exit(result) ==
    /\ main.pc = "draining"
    /\ main' = [main EXCEPT !.pc = "exited", !.result = result]
    /\ DropLoops
    /\ UNCHANGED <<stop, accepting, http, open, faults>>

DrainCompletes == Awaited(main.branch) /\ Exit(Result(main.branch))

\* shutdown_grace passes first.
GracePasses == ~Awaited(main.branch) /\ Exit("timed_out")

-----------------------------------------------------------------------------
(* The composition *)

LoopActs ==
    /\ \/ LoopNext /\ UNCHANGED faults
       \/ Running /\ WorkArrives /\ UNCHANGED faults
       \/ Running /\ LoopFault /\ Fault
    /\ UNCHANGED <<stop, serverVars>>

MainStep == SelectRuntime \/ SelectServer \/ DrainCompletes \/ GracePasses

Next ==
    \/ LoopActs
    \/ RequestOpens \/ RequestCloses \/ HttpCloses \/ HttpFails
    \/ OthersStop \/ OthersFail \/ RuntimeFails
    \/ SelectShutdown \/ MainStep

Spec == Init /\ [][Next]_vars

\* Nothing makes a request end, a receipt arrive or the signal come.
FairSpec ==
    /\ Spec
    /\ LoopFairness
    /\ WF_vars(MainStep) /\ WF_vars(RuntimeFails)

-----------------------------------------------------------------------------
(* Properties *)

\* The process reports success only after a signal, when every admitted request has
\* been answered and every loop has returned by itself.  A loop may then have aborted
\* tasks after a grace of its own: what they worked on keeps its lease and its place,
\* so that the next process claims it.  Without a failed HTTP server only the deadline
\* cuts a request off (run_listener, CompletionRuntime::run).
CleanExitIsEarned ==
    /\ TypeOK
    /\ main.result = "ok" =>
        /\ main.branch = "shutdown" /\ http = "closed" /\ ~open /\ LoopsEnded
        /\ \A i \in Items : item[i] \in {"leased", "abandoned"} =>
                              \E k \in 1..Len(queue) : queue[k] = i
    /\ main.result \in {"ok", "worker"} /\ http # "failed" => ~open
    /\ accepting => ~stop

\* After a signal, or when a loop or the HTTP server fails, the process exits, even
\* if the others hang (run_listener).
ServerExits == stop \/ LoopsFailed \/ http = "failed" ~> main.pc = "exited"
=============================================================================
