---------------------------- MODULE RequestPipeline ----------------------------
(***************************************************************************)
(* What every HTTP request passes: the body limit of request_limits.py     *)
(* (the outer middleware), the correlation id and metrics of the           *)
(* middleware in application.py, and the handlers for what an endpoint     *)
(* raises.  Requests run in tasks of one event loop: each step below is    *)
(* what one does between two awaits.                                       *)
(***************************************************************************)
EXTENDS Values, Integers, Sequences, SequencesExt

CONSTANTS
  Requests,    \* requests in flight at once
  Ids,         \* X-Correlation-ID values that are safe to keep
  Limit,       \* max_request_body_bytes
  ChunkSizes,  \* the sizes of the pieces in which a body arrives
  MaxChunks    \* bound: the pieces a client sends

ASSUME PipelineAssumption == /\ Limit \in Nat \ {0} /\ ChunkSizes \subseteq Nat
                             /\ MaxChunks \in Nat /\ NULL \notin Ids \cup Nat

VARIABLES
  request,   \* per request: where it is, its header fields, body and answer
  context,   \* per task: the ContextVar CORRELATION_ID
  counted,   \* per request: the status classes added to http_requests_total
  trail      \* the audit events' correlation ids, with the request

pipelineVars == <<request, context, counted, trail>>

Chunk(n, more) == [size |-> n, more |-> more]
Disconnect == [size |-> NULL, more |-> FALSE]
Total(messages) == FoldSeq(LAMBDA m, n : m.size + n, 0, messages)

NewRequest == [at |-> "new", id |-> NULL, sent |-> <<>>, buffer |-> <<>>,
               body |-> <<>>, status |-> NULL, header |-> NULL]

(* What the ContextVar holds outside of a request: "unknown". *)
DefaultId == <<"unknown">>

PipelineInit == /\ request = [q \in Requests |-> NewRequest]
        /\ context = [q \in Requests |-> DefaultId]
        /\ counted = [q \in Requests |-> <<>>]
        /\ trail = {}

Set(q, row) == request' = [request EXCEPT ![q] = row]

(* select_correlation_id: a safe value is kept, else a new one is made. *)
SelectedId(q, supplied) == IF supplied \in Ids THEN supplied ELSE <<"uuid4", q>>

(* The headers have arrived; a length that is no number counts as none. *)
Arrive(q, supplied, length) ==
  /\ request[q].at = "new"
  /\ Set(q, [NewRequest EXCEPT !.id = SelectedId(q, supplied),
               !.at = IF length # NULL /\ length > Limit THEN "reject" ELSE "buffer"])
  /\ UNCHANGED <<context, counted, trail>>

(* The loop in __call__: pieces are kept until the last has come, or more  *)
(* bytes than the limit allows ...                                         *)
ReceiveChunk(q, n, more) ==
  LET m == Chunk(n, more)
  IN  /\ request[q].at = "buffer"
      /\ Len(request[q].sent) < MaxChunks
      /\ Set(q, [request[q] EXCEPT
                   !.sent = Append(@, m), !.buffer = Append(@, m),
                   !.at = IF Total(Append(request[q].sent, m)) <= Limit
                          THEN IF more THEN "buffer" ELSE "enter"
                          ELSE "reject"])
      /\ UNCHANGED <<context, counted, trail>>

(* ... or the client has gone. *)
ReceiveDisconnect(q) ==
  /\ request[q].at = "buffer"
  /\ Set(q, [request[q] EXCEPT !.buffer = Append(@, Disconnect), !.at = "enter"])
  /\ UNCHANGED <<context, counted, trail>>

Count(q, status) == counted' = [counted EXCEPT ![q] = Append(@, status)]

(* The response is on its way, or there will be none. *)
Leave(q, at, status, header) ==
  Set(q, [NewRequest EXCEPT !.at = at, !.id = request[q].id, !.status = status,
                            !.header = header])

(* _reject: 413, counted before it is sent. *)
Reject(q) ==
  /\ request[q].at = "reject"
  /\ Count(q, 413)
  /\ Leave(q, "answered", 413, request[q].id)
  /\ UNCHANGED <<context, trail>>

(* Mutant: a variable of the module instead of a ContextVar. *)
SetGlobally(q) == context' = [r \in Requests |-> request[q].id]

SetCorrelationId(q) == context' = [context EXCEPT ![q] = request[q].id]

(* correlation_id_middleware calls the routed application, in whose task   *)
(* the context is a copy.                                                  *)
EnterApplication(q) ==
  /\ request[q].at = "enter"
  /\ SetCorrelationId(q)
  /\ Set(q, [request[q] EXCEPT !.at = "read"])
  /\ UNCHANGED <<counted, trail>>

(* Mutant: messages are taken from the wrong end. *)
ReplayLast(q) == Last(request[q].buffer)

(* replay_receive: popleft. *)
Replay(q) == Head(request[q].buffer)

(* An endpoint with a body gets it piece by piece; a client that has gone  *)
(* before the end is a 400, and the endpoint does not run.                 *)
ReadBody(q) ==
  LET m == Replay(q)
  IN  /\ request[q].at = "read" /\ request[q].buffer # <<>>
      /\ Set(q, IF m = Disconnect
                THEN [request[q] EXCEPT !.at = "respond", !.status = 400]
                ELSE [request[q] EXCEPT !.body = Append(@, m), !.buffer = Tail(@),
                                        !.at = IF m.more THEN "read" ELSE "endpoint"])
      /\ UNCHANGED <<context, counted, trail>>

(* A route without a body reads none. *)
SkipBody(q) ==
  /\ request[q].at = "read" /\ request[q].body = <<>>
  /\ Set(q, [request[q] EXCEPT !.at = "bodiless"])
  /\ UNCHANGED <<context, counted, trail>>

(* The token or the body is refused: http_problem and validation_problem   *)
(* answer, or FastAPI itself where there is no such route.                 *)
Refuse(q, status) ==
  /\ request[q].at \in {"bodiless", "endpoint"}
  /\ Set(q, [request[q] EXCEPT !.at = "respond", !.status = status])
  /\ UNCHANGED <<context, counted, trail>>

(* The endpoint runs its transaction, and its audit event takes the id     *)
(* from the context.                                                       *)
RunEndpoint(q, status) ==
  /\ request[q].at \in {"bodiless", "endpoint"}
  /\ trail' = trail \cup {<<q, context[q]>>}
  /\ Set(q, [request[q] EXCEPT !.at = IF status = 500 THEN "raised" ELSE "respond",
                               !.status = status])
  /\ UNCHANGED <<context, counted>>

ResetCorrelationId(q) == context' = [context EXCEPT ![q] = DefaultId]

(* The response has started: its header is set and it is counted. *)
Respond(q) ==
  /\ request[q].at = "respond"
  /\ ResetCorrelationId(q)
  /\ Count(q, request[q].status)
  /\ Leave(q, "answered", request[q].status, request[q].id)
  /\ UNCHANGED trail

(* Mutant: an exception leaves the middleware uncounted. *)
FailUncounted(q) ==
  /\ request[q].at = "raised"
  /\ ResetCorrelationId(q)
  /\ Leave(q, "answered", 500, NULL)
  /\ UNCHANGED <<counted, trail>>

(* An exception is counted and raised again; the server answers it with a  *)
(* plain 500.                                                              *)
Fail(q) ==
  /\ request[q].at = "raised"
  /\ ResetCorrelationId(q)
  /\ Count(q, 500)
  /\ Leave(q, "answered", 500, NULL)
  /\ UNCHANGED trail

(* The server stops, and cancels the task. *)
Cancel(q) ==
  /\ request[q].at \notin {"new", "answered", "cancelled"}
  /\ ResetCorrelationId(q)
  /\ Leave(q, "cancelled", NULL, NULL)
  /\ UNCHANGED <<counted, trail>>

RequestStep(q) ==
  \/ \E supplied \in Ids \cup {NULL}, length \in {NULL, Limit, Limit + 1} :
       Arrive(q, supplied, length)
  \/ \E n \in ChunkSizes, more \in BOOLEAN : ReceiveChunk(q, n, more)
  \/ ReceiveDisconnect(q) \/ Reject(q) \/ EnterApplication(q) \/ ReadBody(q) \/ SkipBody(q)
  \/ \E status \in {401, 422} : Refuse(q, status)
  \/ \E status \in {200, 409, 500} : RunEndpoint(q, status)
  \/ Respond(q) \/ Fail(q) \/ Cancel(q)

PipelineNext == \E q \in Requests : RequestStep(q)

PipelineSpec == PipelineInit /\ [][PipelineNext]_pipelineVars

-------------------------------------------------------------------------------

AnyId == Ids \cup {<<"uuid4", q>> : q \in Requests} \cup {NULL}
Statuses == {NULL, 200, 400, 401, 409, 413, 422, 500}
Phases == {"new", "buffer", "reject", "enter", "read", "bodiless", "endpoint", "respond",
           "raised", "answered", "cancelled"}
Messages == [size : Nat \cup {NULL}, more : BOOLEAN]

RequestRows == [at : Phases, id : AnyId, sent : Seq(Messages), buffer : Seq(Messages),
                body : Seq(Messages), status : Statuses, header : AnyId]

(* Every variable has its type. *)
PipelineTypeOK == /\ request \in [Requests -> RequestRows]
                  /\ context \in [Requests -> AnyId \cup {DefaultId}]
                  /\ counted \in [Requests -> Seq(Statuses)]
                  /\ trail \subseteq Requests \X AnyId

(* An endpoint that runs has got the whole body the client sent, in order, *)
(* and no more of it than the limit, whether or not the client announced   *)
(* its length and whenever it goes away (RequestBodyLimitMiddleware).      *)
EndpointGetsBody ==
  \A q \in Requests : request[q].at = "endpoint" =>
    /\ request[q].body = request[q].sent
    /\ ~Last(request[q].body).more
    /\ Total(request[q].body) <= Limit

(* An answered request is counted once, by the middleware that answered it *)
(* and with the status the client gets; a cancelled one is counted at most *)
(* once (record_http_request in both middlewares).                         *)
CountedOnce ==
  \A q \in Requests :
    /\ Len(counted[q]) <= 1
    /\ request[q].at = "answered" => counted[q] = <<request[q].status>>

(* The events and the answer of a request carry its id and no other's,     *)
(* however requests take turns (request_context.py, record_audit_event).   *)
CorrelationKept ==
  /\ \A e \in trail : e[2] = request[e[1]].id
  /\ \A q \in Requests :
       request[q].at = "answered" /\ request[q].status # 500 => request[q].header = request[q].id
===============================================================================
