---------------------------- MODULE GatewayClient ----------------------------
(***************************************************************************)
(* What the HTTP gateway client makes of a gateway's documents and what    *)
(* the callback verifier makes of a gateway's callbacks                    *)
(* (agent-gateways/src/lib.rs).                                            *)
(*                                                                         *)
(* A document is a record of the fields the client looks at, or Null where *)
(* the body is not JSON of the expected shape; a field is Null where it is *)
(* missing.  Whether a nested value parses (typed), and whether an error   *)
(* object has a code and a message ("complete"), is part of the data.      *)
(***************************************************************************)
EXTENDS Integers, Sequences

CONSTANT Null        \* a missing field, an unreadable body

\* An error that is missing is not one that is there.
ASSUME NullAssumption == Null \notin {"complete", "incomplete"}

-----------------------------------------------------------------------------
(* Job statuses *)

Pending(kind) ==
    IF kind = "llm" THEN {"queued", "running", "retry_wait"}
    ELSE {"queued", "dispatching", "waiting_response"}

\* LlmJobStatus::parse, ExecutionJobStatus::parse
Statuses(kind) ==
    Pending(kind) \cup {"succeeded", "failed"}
                  \cup (IF kind = "llm" THEN {"cancelled"} ELSE {"unknown"})

-----------------------------------------------------------------------------
(* Acknowledgements and lookups *)

\* acknowledgement
Acknowledges(kind, doc) == doc.id # Null /\ doc.status \in Statuses(kind)

\* find_by_idempotency_key: jobs is the array of the answer.  An empty one means
\* the gateway has no such job; anything but one job under the key is uncertain.
LookupAdopts(kind, key, jobs) ==
    /\ jobs # Null
    /\ Len(jobs) = 1
    /\ jobs[1].key = key
    /\ Acknowledges(kind, jobs[1])

-----------------------------------------------------------------------------
(* get_job *)

\* valid_terminal_error
ValidTerminalError(error) == error = "complete"

\* execution::VERSION
ProtocolVersion == "current"

\* Mutant of ValidateExecutionResponse: whose answer it is is not looked at.
TypedResponse(id, doc, succeeded) == doc.response.typed

\* validate_execution_response
ValidateExecutionResponse(id, doc, succeeded) ==
    /\ doc.machine # Null
    /\ doc.generation # Null
    /\ doc.response.typed
    /\ doc.response.version = ProtocolVersion
    /\ doc.response.request = id
    /\ doc.response.generation = doc.generation
    /\ doc.response.succeeded = succeeded

\* What a document of each status must carry, and must not.
OutcomeFits(kind, id, doc) ==
    \/ doc.status \in Pending(kind) /\ doc.response = Null /\ doc.error = Null
    \/ /\ doc.status = "succeeded"
       /\ doc.error = Null /\ doc.response # Null
       /\ IF kind = "llm" THEN doc.response.typed
          ELSE ValidateExecutionResponse(id, doc, TRUE)
    \/ /\ doc.status = "failed"
       /\ IF kind = "execution" /\ doc.response # Null
            THEN doc.error = Null /\ ValidateExecutionResponse(id, doc, FALSE)
            ELSE doc.response = Null /\ ValidTerminalError(doc.error)
    \/ doc.status = "cancelled" /\ doc.response = Null /\ doc.error = Null
    \/ /\ doc.status = "unknown"
       /\ doc.response = Null /\ ValidTerminalError(doc.error)
       /\ doc.generation # Null

\* get_job returns a job for this document; every other one is uncertain.
ValidJob(kind, id, doc) ==
    /\ doc # Null
    /\ doc.id = id
    /\ doc.status \in Statuses(kind)
    /\ kind = "execution" => doc.machine # Null
    /\ OutcomeFits(kind, id, doc)

\* GatewayJob::validate_execution_identity
ValidateExecutionIdentity(doc, machine, expected) ==
    /\ doc.machine = machine
    /\ expected # Null /\ doc.generation # Null => doc.generation = expected

-----------------------------------------------------------------------------
(* CallbackVerifierRegistry::verify *)

CallbackTypes(kind) ==
    {"job.succeeded", "job.failed", IF kind = "llm" THEN "job.cancelled" ELSE "job.unknown"}

\* A verifier is configured for the connection and of this kind, the headers are
\* well formed, the timestamp is at most the tolerance away, one of the secrets
\* made the signature, and the payload names the event of the header.
Verify(verifier, kind, callback, tolerance) ==
    /\ verifier # Null
    /\ verifier.kind = kind
    /\ callback.event # Null
    /\ callback.skew \in -tolerance..tolerance
    /\ callback.secret \in verifier.secrets
    /\ callback.type \in CallbackTypes(kind)
    /\ kind = "execution" => callback.version = 2
    /\ callback.payload = callback.event
=============================================================================
