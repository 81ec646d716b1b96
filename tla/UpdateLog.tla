----------------------------- MODULE UpdateLog ------------------------------
(***************************************************************************)
(* The durable change feed of one session and a client that follows it:    *)
(* emit_update, update_cursor, updates and prune_updates                   *)
(* (agent-store/src/inspection.rs), the session routes that give a client  *)
(* its first snapshot (agent-server/src/routes/sessions.rs) and the update *)
(* routes (agent-server/src/routes/updates.rs).                            *)
(*                                                                         *)
(* What clients can see of the session is abstracted to a version that     *)
(* every committed transaction advances; an update announces the version   *)
(* of the transaction that emitted it.  Updates get created_at from the    *)
(* clock while the session row is locked, so their age follows their       *)
(* sequence: those below `horizon` are older than the retention.           *)
(*                                                                         *)
(* The client is external: it does what README.md tells it to do.          *)
(***************************************************************************)
EXTENDS Integers, FiniteSets

CONSTANTS Clients,
          PageSize,    \* limit of a page
          PruneBatch,  \* updates one prune transaction looks at
          MaxUpdates,  \* bound: updates of the session
          MaxFaults    \* bound: lost connections and drained servers

ASSUME SizesAssumption == PageSize \in Nat \ {0} /\ PruneBatch \in Nat \ {0}
ASSUME BoundsAssumption == MaxUpdates \in Nat /\ MaxFaults \in Nat

VARIABLES
    version,    \* version of the session's visible state, 0 before it exists
    next,       \* next_update_sequence
    retained,   \* retained_update_sequence
    log,        \* sequences stored in session_updates
    announces,  \* announces[q]: the version update q announces
    horizon,    \* updates with a lower sequence are older than the retention
    client,     \* clients
    draining,   \* the server is shutting down
    faults      \* faults so far, for the bound MaxFaults

vars == <<version, next, retained, log, announces, horizon, client, draining, faults>>
logVars == <<version, next, retained, log, announces, horizon>>

-----------------------------------------------------------------------------
UpdateSeq == 1..MaxUpdates
Versions == 0..(MaxUpdates + 1)

\* known is the version the client has seen, cursor the last sequence it has
\* covered (its Last-Event-ID), seen the updates its snapshot covers or it has
\* received.  stream is the cursor of the server's end of an SSE connection,
\* page what the server has read and not sent, wire what it has sent and the
\* client has not received.
Client == [pc : {"new", "snapshot", "idle", "streaming", "resnapshot"},
           known : Versions, cursor : 0..MaxUpdates, seen : SUBSET UpdateSeq,
           stream : 0..MaxUpdates, page : SUBSET UpdateSeq, wire : SUBSET UpdateSeq]

NewClient == [pc |-> "new", known |-> 0, cursor |-> 0, seen |-> {}, stream |-> 0,
              page |-> {}, wire |-> {}]

\* Types, and that the log is exactly the part of the feed from
\* retained_update_sequence on: no sequence number is skipped and none below the
\* advertised floor survives, so that the floor can be compared with a cursor
\* (emit_update, prune_updates).
TypeOK ==
    /\ version \in Versions
    /\ next \in 1..(MaxUpdates + 1)
    /\ retained \in 1..(MaxUpdates + 1)
    /\ log = retained..(next - 1)
    /\ announces \in [UpdateSeq -> Versions]
    /\ horizon \in 1..(MaxUpdates + 1)
    /\ client \in [Clients -> Client]
    /\ draining \in BOOLEAN
    /\ faults \in 0..MaxFaults

Init ==
    /\ version = 0
    /\ next = 1
    /\ retained = 1
    /\ log = {}
    /\ announces = [q \in UpdateSeq |-> 0]
    /\ horizon = 1
    /\ client = [c \in Clients |-> NewClient]
    /\ draining = FALSE
    /\ faults = 0

-----------------------------------------------------------------------------
(* Writers *)

\* create_session inserts the row with its defaults: no update is emitted.
CreateSession ==
    /\ version = 0
    /\ version' = 1
    /\ UNCHANGED <<next, retained, log, announces, horizon, client, draining, faults>>

\* emit_update, n times in one transaction that makes the session's version v.
EmitUpdates(n, v) ==
    /\ next' = next + n
    /\ log' = log \cup next..(next + n - 1)
    /\ announces' = [q \in UpdateSeq |-> IF q \in next..(next + n - 1) THEN v ELSE announces[q]]

\* Any store transaction that changes what clients see.
ChangeSession(n) ==
    /\ version > 0
    /\ next + n <= MaxUpdates + 1
    /\ version' = version + 1
    /\ EmitUpdates(n, version + 1)
    /\ UNCHANGED <<retained, horizon, client, draining, faults>>

-----------------------------------------------------------------------------
(* Retention *)

\* The retention passes for the oldest update that is younger.
UpdateAges ==
    /\ horizon < next
    /\ horizon' = horizon + 1
    /\ UNCHANGED <<version, next, retained, log, announces, client, draining, faults>>

\* GREATEST(retained_update_sequence, maximum + 1)
RetainedAfter(maximum) == IF retained < maximum + 1 THEN maximum + 1 ELSE retained

\* prune_updates for one session.
PruneUpdates ==
    LET old == {q \in log : q < horizon}
        batch == {q \in old : Cardinality({p \in old : p < q}) < PruneBatch} IN
    /\ batch # {}
    /\ \E maximum \in batch :
        /\ \A q \in batch : q <= maximum
        /\ log' = {q \in log : q > maximum}
        /\ retained' = RetainedAfter(maximum)
    /\ UNCHANGED <<version, next, announces, horizon, client, draining, faults>>

-----------------------------------------------------------------------------
(* A client's first snapshot *)

\* Mutant of DetailOrder: the snapshot is taken first.
SnapshotFirst == <<"session", "cursor">>

\* GET and PATCH /sessions/{id} read update_cursor before the session.
DetailOrder == <<"cursor", "session">>

Read(row, what) ==
    CASE what = "cursor" -> [row EXCEPT !.cursor = next - 1, !.seen = 1..(next - 1)]
      [] what = "session" -> [row EXCEPT !.known = version]

\* detail and update (whose PATCH is a change like another): two reads.
BeginSnapshot(c) ==
    /\ client[c].pc \in {"new", "resnapshot"}
    /\ version > 0 /\ ~draining
    /\ client' = [client EXCEPT ![c] = Read([NewClient EXCEPT !.pc = "snapshot"], DetailOrder[1])]
    /\ UNCHANGED <<logVars, draining, faults>>

FinishSnapshot(c) ==
    /\ client[c].pc = "snapshot"
    /\ client' = [client EXCEPT ![c] = Read([@ EXCEPT !.pc = "idle"], DetailOrder[2])]
    /\ UNCHANGED <<logVars, draining, faults>>

\* create: the row is read after the insert and answered with cursor 0.
CreatorSnapshot(c) ==
    /\ client[c].pc = "new"
    /\ version > 0 /\ ~draining
    /\ client' = [client EXCEPT ![c] = Read([NewClient EXCEPT !.pc = "idle"], "session")]
    /\ UNCHANGED <<logVars, draining, faults>>

-----------------------------------------------------------------------------
(* Reading updates *)

\* Mutant of Expired: off by one.
ExpiredLate(after) == after < retained - 2

\* StoreError::UpdateCursorExpired
Expired(after) == after < retained - 1

\* updates(after, None, limit): one REPEATABLE READ snapshot, up to the current end.
Page(after) ==
    LET rows == {q \in log : q > after} IN
    {q \in rows : Cardinality({p \in rows : p < q}) < PageSize}

\* The client covers the updates in qs: it looks at what they refer to, which is
\* at least as new as they are.
Learn(row, qs) ==
    [row EXCEPT !.cursor = CHOOSE q \in qs : \A p \in qs : p <= q,
                !.known = CHOOSE v \in {row.known} \cup {announces[q] : q \in qs} :
                            /\ v >= row.known
                            /\ \A q \in qs : v >= announces[q],
                !.seen = row.seen \cup qs]

\* GET /updates: a page at a time.
ListUpdates(c) ==
    /\ client[c].pc = "idle" /\ ~draining
    /\ ~Expired(client[c].cursor)
    /\ Page(client[c].cursor) # {}
    /\ client' = [client EXCEPT ![c] = Learn(client[c], Page(client[c].cursor))]
    /\ UNCHANGED <<logVars, draining, faults>>

\* 410 resnapshot_required, from GET /updates or the first read of a stream.
CursorRejected(c) ==
    /\ client[c].pc = "idle" /\ ~draining
    /\ Expired(client[c].cursor)
    /\ client' = [client EXCEPT ![c] = [@ EXCEPT !.pc = "resnapshot"]]
    /\ UNCHANGED <<logVars, draining, faults>>

\* GET /updates/stream with the client's own cursor.
OpenStream(c) ==
    /\ client[c].pc = "idle" /\ ~draining
    /\ ~Expired(client[c].cursor)
    /\ client' = [client EXCEPT ![c] = [@ EXCEPT !.pc = "streaming",
                                                 !.stream = client[c].cursor]]
    /\ UNCHANGED <<logVars, draining, faults>>

\* update_stream reads the next page once the last one is sent ...
StreamReads(c) ==
    /\ client[c].pc = "streaming" /\ client[c].page = {}
    /\ ~draining
    /\ ~Expired(client[c].stream)
    /\ Page(client[c].stream) # {}
    /\ client' = [client EXCEPT ![c] = [@ EXCEPT !.page = Page(client[c].stream)]]
    /\ UNCHANGED <<logVars, draining, faults>>

\* ... and sends it update by update.
StreamSends(c) ==
    /\ client[c].pc = "streaming" /\ ~draining
    /\ \E q \in client[c].page :
        /\ \A p \in client[c].page : q <= p
        /\ client' = [client EXCEPT ![c] = [@ EXCEPT !.page = client[c].page \ {q},
                                                     !.stream = q,
                                                     !.wire = client[c].wire \cup {q}]]
    /\ UNCHANGED <<logVars, draining, faults>>

\* The client receives what was sent, in order.
ClientReceives(c) ==
    /\ client[c].pc = "streaming"
    /\ \E q \in client[c].wire :
        /\ \A p \in client[c].wire : q <= p
        /\ client' = [client EXCEPT ![c] = Learn([@ EXCEPT !.wire = client[c].wire \ {q}], {q})]
    /\ UNCHANGED <<logVars, draining, faults>>

\* The server's cursor has expired: the event resnapshot_required follows what was
\* sent before and ends the stream.
StreamExpires(c) ==
    /\ client[c].pc = "streaming" /\ client[c].page = {} /\ client[c].wire = {}
    /\ ~draining
    /\ Expired(client[c].stream)
    /\ client' = [client EXCEPT ![c] = [@ EXCEPT !.pc = "resnapshot"]]
    /\ UNCHANGED <<logVars, draining, faults>>

\* The stream is over; what was not received is lost, the client keeps its cursor.
Disconnect(c) ==
    client' = [client EXCEPT ![c] = [@ EXCEPT !.pc = "idle", !.page = {}, !.wire = {}]]

\* The connection breaks, or the stream's database read fails.
StreamLost(c) ==
    /\ client[c].pc = "streaming"
    /\ faults < MaxFaults
    /\ faults' = faults + 1
    /\ Disconnect(c)
    /\ UNCHANGED <<logVars, draining>>

-----------------------------------------------------------------------------
(* Shutdown *)

\* The server begins to drain and refuses new requests.
BeginDrain ==
    /\ ~draining
    /\ faults < MaxFaults
    /\ faults' = faults + 1
    /\ draining' = TRUE
    /\ UNCHANGED <<logVars, client>>

\* Mutant of SeesDrain: only a stream that is sending looks at the token.
SeesDrainWhileSending(c) == draining /\ client[c].page # {}

\* update_stream checks the draining token before every read and send and while it
\* sleeps.
SeesDrain(c) == draining

StreamDrains(c) ==
    /\ client[c].pc = "streaming"
    /\ SeesDrain(c)
    /\ Disconnect(c)
    /\ UNCHANGED <<logVars, draining, faults>>

\* The server exits once its connections are closed; another one starts.
Restart ==
    /\ draining
    /\ \A c \in Clients : client[c].pc # "streaming"
    /\ draining' = FALSE
    /\ UNCHANGED <<logVars, client, faults>>

-----------------------------------------------------------------------------
\* What a client and its stream do to stay up to date.
FollowStep(c) ==
    \/ client[c].pc # "new" /\ BeginSnapshot(c)
    \/ FinishSnapshot(c)
    \/ CursorRejected(c)
    \/ OpenStream(c)
    \/ StreamReads(c)
    \/ StreamSends(c)
    \/ ClientReceives(c)
    \/ StreamExpires(c)
    \/ StreamDrains(c)

Next ==
    \/ CreateSession
    \/ \E n \in 1..2 : ChangeSession(n)
    \/ UpdateAges
    \/ PruneUpdates
    \/ \E c \in Clients : client[c].pc = "new" /\ BeginSnapshot(c)
    \/ \E c \in Clients : CreatorSnapshot(c)
    \/ \E c \in Clients : ListUpdates(c)
    \/ \E c \in Clients : FollowStep(c)
    \/ \E c \in Clients : StreamLost(c)
    \/ BeginDrain
    \/ Restart

Spec == Init /\ [][Next]_vars

\* Streams poll every 250 ms, a client that started to follow keeps doing so, a
\* drained server exits.
Fairness ==
    /\ \A c \in Clients : WF_vars(FollowStep(c))
    /\ WF_vars(Restart)

FairSpec == Spec /\ Fairness

-----------------------------------------------------------------------------
(* Properties *)

Following(c) == client[c].pc \in {"idle", "streaming"}

\* Replay "can duplicate a visible change but cannot miss one" (README.md): what a
\* client's cursor covers it has seen, through its snapshot or an update, whatever
\* commits between the two reads of its bootstrap (detail, update).
NoMissedChange ==
    /\ TypeOK
    /\ \A c \in Clients : Following(c) =>
        \A q \in 1..client[c].cursor : client[c].known >= announces[q]

\* Replay has no gaps: between its snapshot and its cursor a client has received
\* every update, across lost connections, restarts and concurrent pruning
\* (updates, update_stream).
ReplayIsGapless ==
    \A c \in Clients : Following(c) => client[c].seen = 1..client[c].cursor

\* A client that follows the session catches up with it, although its connections
\* break, its cursor expires and servers drain.
FollowersCatchUp ==
    \A c \in Clients : []<>(client[c].pc # "new" => client[c].known = version)

\* "SSE subscriptions stop promptly when the server begins draining" (README.md):
\* no stream keeps a draining server from exiting.
DrainCompletes == draining ~> ~draining
=============================================================================
