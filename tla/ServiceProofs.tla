----------------------------- MODULE ServiceProofs -----------------------------
(***************************************************************************)
(* Theorems about what surrounds the handlers of requests: RequestPipeline *)
(* and WorkerTelemetry, for any number of requests and of worker           *)
(* processes, and RateLimit, for any number of subjects and of attempts    *)
(* that overlap.                                                           *)
(***************************************************************************)
EXTENDS MCService, SequenceTheorems, FiniteSetTheorems, TLAPS

(* A body of which all pieces but the last announce another, and one whose *)
(* last piece has not come.                                                *)
OnlyLastEnds(s) == s # <<>> /\ \A i \in 1..Len(s) : s[i].more <=> i < Len(s)
NeverEnds(s) == \A i \in 1..Len(s) : s[i].more

(* What has been replayed and what is left are together what was sent ...  *)
Complete(r) == /\ r.body \o r.buffer = r.sent
               /\ OnlyLastEnds(r.sent)
               /\ Total(r.sent) <= Limit

(* ... or end in a disconnection that the endpoint's reader will find. *)
CutOff(r) == /\ r.body \o r.buffer = Append(r.sent, Disconnect)
             /\ NeverEnds(r.sent)

BodyKept(r) ==
  /\ r.at = "buffer" => r.body = <<>> /\ r.buffer = r.sent /\ NeverEnds(r.sent)
  /\ r.at \in {"enter", "read"} => Complete(r) \/ CutOff(r)
  /\ r.at = "endpoint" => /\ r.body = r.sent
                          /\ OnlyLastEnds(r.sent)
                          /\ Total(r.sent) <= Limit

CountKept(r, c) == c = IF r.at = "answered" THEN <<r.status>> ELSE <<>>

IdKept(r, c) ==
  /\ r.at \in {"read", "bodiless", "endpoint", "respond", "raised"} => c = r.id
  /\ r.at = "answered" /\ r.status # 500 => r.header = r.id

(* Where a request is once its endpoint has run. *)
Settled == {"respond", "raised", "answered", "cancelled"}

TrailKept == \A e \in trail : /\ e[1] \in Requests
                              /\ request[e[1]].at \in Settled
                              /\ e[2] = request[e[1]].id

PipelineInv ==
  /\ PipelineTypeOK
  /\ \A q \in Requests : /\ BodyKept(request[q])
                         /\ CountKept(request[q], counted[q])
                         /\ IdKept(request[q], context[q])
  /\ TrailKept

(* What a worker knows while it has the lock file, and what the file tells. *)
WorkerKnows(p) ==
  LET w == loop[p]
  IN  /\ w.at # "down" => w.rev # NULL
      /\ w.at \in {"load", "write"} => flock = p
      /\ w.at = "write" => w.base = LoadedBy(w.rev)
      /\ w.at \in {"lock", "load", "write"} => sweeps > 0
      /\ w.n > 0 => w.outcome = "success"

FileTells(f) == /\ f.lastSuccess <= sweeps /\ f.lastFailure <= sweeps
                /\ f.lastSuccess > 0 <=> f.success > 0

TelemetryInv == /\ TelemetryTypeOK
                /\ \A p \in Processes : WorkerKnows(p)
                /\ FileTells(file)

-------------------------------------------------------------------------------

(***************************************************************************)
(* What every step of a request is: a new row, and perhaps a new context,  *)
(* count and event of the same request.                                    *)
(***************************************************************************)
LEMMA OneRequestMoves ==
  ASSUME PipelineInv, NEW q \in Requests, NEW row \in RequestRows, Set(q, row),
         NEW id \in AnyId \cup {DefaultId}, context' = [context EXCEPT ![q] = id],
         NEW c \in Seq(Statuses), counted' = [counted EXCEPT ![q] = c],
         BodyKept(row), CountKept(row, c), IdKept(row, id),
         request[q].at \in Settled => row.at \in Settled /\ row.id = request[q].id,
         \/ trail' = trail
         \/ trail' = trail \cup {<<q, row.id>>} /\ row.at \in Settled
  PROVE  PipelineInv'
<1>1. PipelineTypeOK'
  <2>1. trail' \subseteq Requests \X AnyId
    BY DEF PipelineInv, PipelineTypeOK, RequestRows
  <2> QED BY <2>1 DEF PipelineInv, PipelineTypeOK, Set
<1>2. ASSUME NEW p \in Requests
      PROVE  /\ BodyKept(request'[p])
             /\ CountKept(request'[p], counted'[p])
             /\ IdKept(request'[p], context'[p])
  <2>1. CASE p = q
    <3>1. request'[p] = row /\ counted'[p] = c /\ context'[p] = id
      BY <2>1 DEF PipelineInv, PipelineTypeOK, Set
    <3> QED BY <3>1
  <2>2. CASE p # q
    <3>1. request'[p] = request[p] /\ counted'[p] = counted[p] /\ context'[p] = context[p]
      BY <2>2 DEF PipelineInv, PipelineTypeOK, Set
    <3>2. /\ BodyKept(request[p])
          /\ CountKept(request[p], counted[p])
          /\ IdKept(request[p], context[p])
      BY DEF PipelineInv
    <3> QED BY <3>1, <3>2
  <2> QED BY <2>1, <2>2
<1>3. TrailKept'
  <2> SUFFICES ASSUME NEW e \in trail'
               PROVE  /\ e[1] \in Requests
                      /\ request'[e[1]].at \in Settled
                      /\ e[2] = request'[e[1]].id
    BY DEF TrailKept, Settled
  <2>1. request'[q] = row /\ \A p \in Requests \ {q} : request'[p] = request[p]
    BY DEF PipelineInv, PipelineTypeOK, Set
  <2>2. CASE e \in trail
    <3>1. /\ e[1] \in Requests
          /\ request[e[1]].at \in Settled
          /\ e[2] = request[e[1]].id
      BY <2>2 DEF PipelineInv, TrailKept, Settled
    <3> QED BY <2>1, <3>1
  <2>3. CASE e = <<q, row.id>> /\ row.at \in Settled
    BY <2>1, <2>3
  <2> QED BY <2>2, <2>3
<1>4. \A p \in Requests : /\ BodyKept(request[p])'
                          /\ CountKept(request[p], counted[p])'
                          /\ IdKept(request[p], context[p])'
  BY <1>2 DEF BodyKept, CountKept, IdKept, Complete, CutOff
<1> QED BY <1>1, <1>3, <1>4 DEF PipelineInv

LEMMA RowType ==
  ASSUME PipelineInv, NEW q \in Requests
  PROVE  /\ request[q] \in RequestRows
         /\ context[q] \in AnyId \cup {DefaultId}
         /\ counted[q] \in Seq(Statuses)
         /\ context = [context EXCEPT ![q] = context[q]]
         /\ counted = [counted EXCEPT ![q] = counted[q]]
         /\ BodyKept(request[q])
         /\ CountKept(request[q], counted[q])
         /\ IdKept(request[q], context[q])
BY DEF PipelineInv, PipelineTypeOK

(* A row with other values in some of its fields. *)
LEMMA RowFields ==
  ASSUME NEW r \in RequestRows
  PROVE  /\ r.at \in Phases /\ r.id \in AnyId /\ r.status \in Statuses /\ r.header \in AnyId
         /\ r.sent \in Seq(Messages) /\ r.buffer \in Seq(Messages) /\ r.body \in Seq(Messages)
BY DEF RequestRows

LEMMA NewRequestTyped ==
  /\ NewRequest \in RequestRows
  /\ NewRequest.at = "new" /\ NewRequest.id = NULL
  /\ NewRequest.status = NULL /\ NewRequest.header = NULL
  /\ NewRequest.sent = <<>> /\ NewRequest.buffer = <<>> /\ NewRequest.body = <<>>
<1>1. "new" \in Phases /\ NULL \in Statuses
  BY DEF Phases, Statuses
<1>2. NULL \in AnyId
  BY DEF AnyId
<1>3. <<>> \in Seq(Messages)
  OBVIOUS
<1> QED BY <1>1, <1>2, <1>3 DEF NewRequest, RequestRows

(* A piece after pieces that announce another. *)
LEMMA NextPiece ==
  ASSUME NEW s \in Seq(Messages), NEW m \in Messages, NeverEnds(s)
  PROVE  /\ Append(s, m) \in Seq(Messages)
         /\ m.more => NeverEnds(Append(s, m))
         /\ ~m.more => OnlyLastEnds(Append(s, m))
<1>1. /\ Append(s, m) \in Seq(Messages)
      /\ Len(Append(s, m)) = Len(s) + 1 /\ Len(s) \in Nat
      /\ Append(s, m)[Len(s) + 1] = m
      /\ \A i \in 1..Len(s) : Append(s, m)[i] = s[i]
  BY AppendProperties, LenProperties
<1>2. \A i \in 1..Len(s) : s[i].more
  BY DEF NeverEnds
<1>3. Append(s, m) # <<>>
  BY <1>1, EmptySeq
<1> DEFINE all == Append(s, m)
<1> HIDE DEF all
<1>4. /\ Len(all) = Len(s) + 1 /\ Len(s) \in Nat
      /\ all[Len(s) + 1] = m
      /\ \A i \in 1..Len(s) : all[i] = s[i]
  BY <1>1 DEF all
<1>5. \A i \in 1..Len(all) : i \in 1..Len(s) \/ i = Len(s) + 1
  BY <1>4
<1>6. m.more => \A i \in 1..Len(all) : all[i].more
  BY <1>2, <1>4, <1>5
<1>7. ~m.more => \A i \in 1..Len(all) : all[i].more <=> i < Len(all)
  <2> SUFFICES ASSUME ~m.more, NEW i \in 1..Len(all)
               PROVE  all[i].more <=> i < Len(all)
    OBVIOUS
  <2>1. CASE i \in 1..Len(s)
    <3>1. all[i] = s[i] /\ s[i].more /\ i < Len(all)
      BY <1>2, <1>4, <2>1
    <3> QED BY <3>1
  <2>2. CASE i = Len(s) + 1
    <3>1. all[i] = m /\ ~(i < Len(all))
      BY <1>4, <2>2
    <3> QED BY <3>1
  <2> QED BY <1>5, <2>1, <2>2
<1> QED BY <1>1, <1>3, <1>6, <1>7 DEF NeverEnds, OnlyLastEnds, all

-------------------------------------------------------------------------------

LEMMA ArriveKeeps ==
  ASSUME PipelineInv, NEW q \in Requests, NEW supplied \in Ids \cup {NULL}, NEW length,
         Arrive(q, supplied, length)
  PROVE  PipelineInv'
<1> DEFINE next == IF length # NULL /\ length > Limit THEN "reject" ELSE "buffer"
<1>1. PICK at : at = next
  OBVIOUS
<1>2. PICK id : id = SelectedId(q, supplied)
  OBVIOUS
<1>3. PICK row : row = [NewRequest EXCEPT !.id = id, !.at = at]
  OBVIOUS
<1>4. request[q].at = "new" /\ Set(q, row) /\ UNCHANGED <<context, counted, trail>>
  BY <1>1, <1>2, <1>3 DEF Arrive
<1>5. at \in {"reject", "buffer"}
  BY <1>1
<1>6. /\ row \in RequestRows
      /\ row.at = at /\ row.id = id /\ row.status = NULL /\ row.header = NULL
      /\ row.sent = <<>> /\ row.buffer = <<>> /\ row.body = <<>>
  <2>1. id \in AnyId
    BY <1>2 DEF SelectedId, AnyId
  <2>2. at \in Phases
    BY <1>5 DEF Phases
  <2> QED BY <1>3, <2>1, <2>2, NewRequestTyped DEF RequestRows
<1>7. BodyKept(row)
  BY <1>5, <1>6, EmptySeq DEF BodyKept, NeverEnds
<1>8. CountKept(row, counted[q]) /\ IdKept(row, context[q])
  <2>1. CountKept(request[q], counted[q])
    BY RowType
  <2> QED BY <1>4, <1>5, <1>6, <2>1 DEF CountKept, IdKept
<1>9. request[q].at \notin Settled
  BY <1>4 DEF Settled
<1> QED BY <1>4, <1>6, <1>7, <1>8, <1>9, RowType, OneRequestMoves

LEMMA ReceiveChunkKeeps ==
  ASSUME PipelineInv, NEW q \in Requests, NEW n \in ChunkSizes, NEW more \in BOOLEAN,
         ReceiveChunk(q, n, more)
  PROVE  PipelineInv'
<1> DEFINE m == Chunk(n, more)
           r == request[q]
           all == Append(r.sent, m)
           at == IF Total(all) <= Limit THEN IF more THEN "buffer" ELSE "enter" ELSE "reject"
           row == [r EXCEPT !.sent = all, !.buffer = Append(r.buffer, m), !.at = at]
<1>1. /\ r.at = "buffer" /\ Set(q, row)
      /\ UNCHANGED <<context, counted, trail>>
  BY DEF ReceiveChunk
<1>2. r \in RequestRows
  BY RowType
<1>3. m \in Messages /\ m.more = more
  BY PipelineAssumption DEF Chunk, Messages
<1>4. /\ r.sent \in Seq(Messages) /\ r.buffer = r.sent /\ r.body = <<>> /\ NeverEnds(r.sent)
  BY <1>1, <1>2, RowType, RowFields DEF BodyKept
<1>5. all \in Seq(Messages) /\ Append(r.buffer, m) = all
  BY <1>3, <1>4
<1>6. row \in RequestRows
  <2>1. at \in Phases
    BY DEF Phases
  <2> HIDE DEF at, all, m
  <2> QED BY <1>2, <1>5, <2>1 DEF RequestRows
<1>7. /\ row.at = at /\ row.sent = all /\ row.buffer = all /\ row.body = <<>>
      /\ row.id = r.id /\ row.header = r.header /\ row.status = r.status
  BY <1>2, <1>4, <1>5 DEF RequestRows
<1>8. BodyKept(row)
  <2>1. CASE at = "buffer"
    <3>1. more
      BY <2>1
    <3>2. NeverEnds(all)
      BY <1>3, <1>4, <3>1, NextPiece
    <3> QED BY <1>7, <2>1, <3>2 DEF BodyKept
  <2>2. CASE at = "enter"
    <3>1. ~more /\ Total(all) <= Limit
      BY <2>2
    <3>2. OnlyLastEnds(all)
      BY <1>3, <1>4, <3>1, NextPiece
    <3>3. <<>> \o all = all
      BY <1>5
    <3> QED BY <1>7, <2>2, <3>1, <3>2, <3>3 DEF BodyKept, Complete
  <2>3. CASE at = "reject"
    BY <1>7, <2>3 DEF BodyKept
  <2> QED BY <2>1, <2>2, <2>3
<1>9. CountKept(row, counted[q]) /\ IdKept(row, context[q])
  <2>1. row.at \in {"buffer", "enter", "reject"}
    BY <1>7
  <2>2. CountKept(r, counted[q])
    BY RowType
  <2> QED BY <1>1, <2>1, <2>2 DEF CountKept, IdKept
<1>10. r.at \notin Settled
  BY <1>1 DEF Settled
<1> HIDE DEF row, r
<1> QED BY <1>1, <1>6, <1>8, <1>9, <1>10, RowType, OneRequestMoves DEF r

LEMMA ReceiveDisconnectKeeps ==
  ASSUME PipelineInv, NEW q \in Requests, ReceiveDisconnect(q)
  PROVE  PipelineInv'
<1> DEFINE r == request[q]
           all == Append(r.buffer, Disconnect)
           row == [r EXCEPT !.buffer = all, !.at = "enter"]
<1>1. r.at = "buffer" /\ Set(q, row) /\ UNCHANGED <<context, counted, trail>>
  BY DEF ReceiveDisconnect
<1>2. r \in RequestRows
  BY RowType
<1>3. /\ r.sent \in Seq(Messages) /\ r.buffer = r.sent /\ r.body = <<>> /\ NeverEnds(r.sent)
  BY <1>1, <1>2, RowType, RowFields DEF BodyKept
<1>4. all \in Seq(Messages) /\ <<>> \o all = all
  <2>1. Disconnect \in Messages
    BY DEF Disconnect, Messages
  <2> QED BY <1>3, <2>1
<1>5. row \in RequestRows
  <2>1. "enter" \in Phases
    BY DEF Phases
  <2> HIDE DEF all
  <2> QED BY <1>2, <1>4, <2>1 DEF RequestRows
<1>6. /\ row.at = "enter" /\ row.sent = r.sent /\ row.buffer = all /\ row.body = <<>>
      /\ row.id = r.id /\ row.status = r.status
  BY <1>2, <1>3 DEF RequestRows
<1>7. BodyKept(row)
  BY <1>3, <1>4, <1>6 DEF BodyKept, CutOff
<1>8. CountKept(row, counted[q]) /\ IdKept(row, context[q])
  <2>1. CountKept(r, counted[q])
    BY RowType
  <2> QED BY <1>1, <1>6, <2>1 DEF CountKept, IdKept
<1>9. r.at \notin Settled
  BY <1>1 DEF Settled
<1> HIDE DEF row, r
<1> QED BY <1>1, <1>5, <1>7, <1>8, <1>9, RowType, OneRequestMoves DEF r

(* A step that only changes where a request is and its status. *)
LEMMA MoveOn ==
  ASSUME PipelineInv, NEW q \in Requests, NEW at \in Phases, NEW status \in Statuses,
         request[q].at \notin {"new", "answered", "cancelled"},
         at \in {"read", "bodiless", "respond", "raised"},
         at = "read" => request[q].at = "enter",
         Set(q, [request[q] EXCEPT !.at = at, !.status = status]),
         context' = [context EXCEPT ![q] = request[q].id], UNCHANGED counted,
         request[q].at \in Settled => at \in Settled,
         \/ trail' = trail
         \/ trail' = trail \cup {<<q, request[q].id>>} /\ at \in Settled
  PROVE  PipelineInv'
<1> DEFINE r == request[q]
           row == [r EXCEPT !.at = at, !.status = status]
<1>1. r \in RequestRows
  BY RowType
<1>2. PICK id \in AnyId \cup {DefaultId} : id = r.id /\ context' = [context EXCEPT ![q] = id]
  BY <1>1, RowFields
<1>3. row \in RequestRows
  BY <1>1 DEF RequestRows
<1>4. /\ row.at = at /\ row.sent = r.sent /\ row.buffer = r.buffer /\ row.body = r.body
      /\ row.id = r.id /\ row.status = status
  BY <1>1 DEF RequestRows
<1>5. BodyKept(row)
  <2>1. BodyKept(r)
    BY RowType
  <2>2. at = "read" => Complete(r) \/ CutOff(r)
    BY <2>1 DEF BodyKept
  <2>3. at = "read" => Complete(row) \/ CutOff(row)
    BY <1>4, <2>2 DEF Complete, CutOff
  <2> QED BY <1>4, <2>3 DEF BodyKept
<1>6. CountKept(row, counted[q])
  <2>1. CountKept(r, counted[q])
    BY RowType
  <2> QED BY <1>4, <2>1 DEF CountKept
<1>7. IdKept(row, id)
  BY <1>4, <1>2 DEF IdKept
<1>8. \/ trail' = trail
      \/ trail' = trail \cup {<<q, row.id>>} /\ row.at \in Settled
  BY <1>4
<1>9. r.at \in Settled => row.at \in Settled /\ row.id = r.id
  BY <1>4
<1> HIDE DEF row, r
<1>10. Set(q, row)
  BY DEF row, r
<1> QED BY <1>3, <1>5, <1>6, <1>7, <1>8, <1>9, <1>10, <1>2, RowType, OneRequestMoves DEF r

(* A step that ends a request; its body is dropped. *)
LEMMA LeaveKeeps ==
  ASSUME PipelineInv, NEW q \in Requests, request[q].at # "answered",
         NEW at, NEW status, NEW header, Leave(q, at, status, header),
         at \in {"answered", "cancelled"}, status \in Statuses, header \in AnyId,
         IF at = "answered" THEN Count(q, status) ELSE UNCHANGED counted,
         at = "answered" /\ status # 500 => header = request[q].id,
         ResetCorrelationId(q) \/ UNCHANGED context, UNCHANGED trail
  PROVE  PipelineInv'
<1>11. PICK id \in AnyId \cup {DefaultId} : context' = [context EXCEPT ![q] = id]
  <2>1. context = [context EXCEPT ![q] = context[q]] /\ context[q] \in AnyId \cup {DefaultId}
    BY RowType
  <2> QED BY <2>1 DEF ResetCorrelationId
<1> DEFINE r == request[q]
           c == IF at = "answered" THEN <<status>> ELSE <<>>
<1>1. r \in RequestRows /\ r.id \in AnyId
  BY RowType, RowFields
<1>2. PICK row : row = [NewRequest EXCEPT !.at = at, !.id = r.id, !.status = status,
                                          !.header = header]
  OBVIOUS
<1>3. /\ row \in RequestRows
      /\ row.at = at /\ row.id = r.id /\ row.status = status /\ row.header = header
  <2>1. at \in Phases
    BY DEF Phases
  <2> HIDE DEF r
  <2> QED BY <1>1, <1>2, <2>1, NewRequestTyped DEF RequestRows
<1>10. Set(q, row)
  BY <1>2 DEF Leave
<1>4. counted[q] = <<>>
  <2>1. CountKept(r, counted[q])
    BY RowType
  <2> QED BY <2>1 DEF CountKept
<1>5. c \in Seq(Statuses) /\ counted' = [counted EXCEPT ![q] = c]
  <2>1. CASE at = "answered"
    <3>1. counted' = [counted EXCEPT ![q] = Append(counted[q], status)]
      BY <2>1 DEF Count
    <3>2. Append(counted[q], status) = <<status>>
      BY <1>4
    <3> QED BY <2>1, <3>1, <3>2
  <2>2. CASE at # "answered"
    BY <1>4, <2>2, RowType
  <2> QED BY <2>1, <2>2
<1>6. BodyKept(row)
  BY <1>3 DEF BodyKept
<1>7. CountKept(row, c)
  BY <1>3 DEF CountKept
<1>8. IdKept(row, id)
  BY <1>3 DEF IdKept
<1>9. row.at \in Settled /\ row.id = r.id
  BY <1>3 DEF Settled
<1> HIDE DEF r, c
<1> QED BY <1>3, <1>5, <1>6, <1>7, <1>8, <1>9, <1>10, <1>11, OneRequestMoves DEF r

LEMMA RejectKeeps ==
  ASSUME PipelineInv, NEW q \in Requests, Reject(q)
  PROVE  PipelineInv'
<1>1. /\ request[q].at = "reject" /\ Count(q, 413)
      /\ Leave(q, "answered", 413, request[q].id) /\ UNCHANGED <<context, trail>>
  BY DEF Reject
<1>2. request[q].id \in AnyId /\ 413 \in Statuses
  BY RowType, RowFields DEF Statuses
<1> QED BY <1>1, <1>2, LeaveKeeps

LEMMA RespondKeeps ==
  ASSUME PipelineInv, NEW q \in Requests, Respond(q)
  PROVE  PipelineInv'
<1>1. PICK status : status = request[q].status
  OBVIOUS
<1>2. /\ request[q].at = "respond" /\ Count(q, status)
      /\ Leave(q, "answered", status, request[q].id)
      /\ ResetCorrelationId(q) /\ UNCHANGED trail
  BY <1>1 DEF Respond
<1>3. request[q].id \in AnyId /\ status \in Statuses
  BY <1>1, RowType, RowFields
<1> QED BY <1>2, <1>3, LeaveKeeps

LEMMA FailKeeps ==
  ASSUME PipelineInv, NEW q \in Requests, Fail(q)
  PROVE  PipelineInv'
<1>1. /\ request[q].at = "raised" /\ Count(q, 500) /\ Leave(q, "answered", 500, NULL)
      /\ ResetCorrelationId(q) /\ UNCHANGED trail
  BY DEF Fail
<1>2. NULL \in AnyId
  BY DEF AnyId
<1>3. 500 \in Statuses
  BY DEF Statuses
<1> QED BY <1>1, <1>2, <1>3, LeaveKeeps

LEMMA CancelKeeps ==
  ASSUME PipelineInv, NEW q \in Requests, Cancel(q)
  PROVE  PipelineInv'
<1>1. /\ request[q].at # "answered" /\ Leave(q, "cancelled", NULL, NULL)
      /\ ResetCorrelationId(q) /\ UNCHANGED <<counted, trail>>
  BY DEF Cancel
<1>2. NULL \in AnyId
  BY DEF AnyId
<1>3. NULL \in Statuses
  BY DEF Statuses
<1> QED BY <1>1, <1>2, <1>3, LeaveKeeps

(* An EXCEPT that leaves the status as it is is one that sets it so. *)
LEMMA SameStatus ==
  ASSUME PipelineInv, NEW q \in Requests, NEW at,
         Set(q, [request[q] EXCEPT !.at = at])
  PROVE  /\ Set(q, [request[q] EXCEPT !.at = at, !.status = request[q].status])
         /\ request[q].status \in Statuses
<1>1. PICK r \in RequestRows : r = request[q]
  BY RowType
<1>2. [r EXCEPT !.at = at] = [r EXCEPT !.at = at, !.status = r.status]
  BY DEF RequestRows
<1>3. r.status \in Statuses
  BY RowFields
<1> QED BY <1>1, <1>2, <1>3

LEMMA EnterKeeps ==
  ASSUME PipelineInv, NEW q \in Requests, EnterApplication(q)
  PROVE  PipelineInv'
<1>1. /\ request[q].at = "enter" /\ context' = [context EXCEPT ![q] = request[q].id]
      /\ Set(q, [request[q] EXCEPT !.at = "read"]) /\ UNCHANGED <<counted, trail>>
  BY DEF EnterApplication, SetCorrelationId
<1>2. "read" \in Phases
  BY DEF Phases
<1>3. "enter" \notin Settled
  BY DEF Settled
<1>4. PICK status \in Statuses : status = request[q].status
  BY <1>1, SameStatus
<1>5. Set(q, [request[q] EXCEPT !.at = "read", !.status = status])
  BY <1>1, <1>4, SameStatus
<1> QED BY <1>1, <1>2, <1>3, <1>5, MoveOn

(* From the application's middleware to the response the context has the id. *)
LEMMA InContext ==
  ASSUME PipelineInv, NEW q \in Requests,
         request[q].at \in {"read", "bodiless", "endpoint", "respond", "raised"},
         UNCHANGED context
  PROVE  /\ context[q] = request[q].id
         /\ context[q] \in AnyId \cup {DefaultId}
         /\ context' = [context EXCEPT ![q] = context[q]]
         /\ context' = [context EXCEPT ![q] = request[q].id]
BY RowType DEF IdKept

LEMMA SkipBodyKeeps ==
  ASSUME PipelineInv, NEW q \in Requests, SkipBody(q)
  PROVE  PipelineInv'
<1>1. /\ request[q].at = "read" /\ Set(q, [request[q] EXCEPT !.at = "bodiless"])
      /\ UNCHANGED <<context, counted, trail>>
  BY DEF SkipBody
<1>2. context' = [context EXCEPT ![q] = request[q].id]
  BY <1>1, InContext
<1>3. "bodiless" \in Phases
  BY DEF Phases
<1>4. "read" \notin Settled
  BY DEF Settled
<1>5. PICK status \in Statuses : status = request[q].status
  BY <1>1, SameStatus
<1>6. Set(q, [request[q] EXCEPT !.at = "bodiless", !.status = status])
  BY <1>1, <1>5, SameStatus
<1> QED BY <1>1, <1>2, <1>3, <1>4, <1>6, MoveOn

LEMMA RefuseKeeps ==
  ASSUME PipelineInv, NEW q \in Requests, NEW code \in {401, 422}, Refuse(q, code)
  PROVE  PipelineInv'
<1>1. /\ request[q].at \in {"bodiless", "endpoint"}
      /\ Set(q, [request[q] EXCEPT !.at = "respond", !.status = code])
      /\ UNCHANGED <<context, counted, trail>>
  BY DEF Refuse
<1>2. context' = [context EXCEPT ![q] = request[q].id]
  BY <1>1, InContext
<1>3. PICK at \in Phases : at = "respond"
  BY DEF Phases
<1>4. PICK status \in Statuses : status = code
  BY DEF Statuses
<1>5. /\ request[q].at \notin {"new", "answered", "cancelled"}
      /\ at \in {"read", "bodiless", "respond", "raised"}
      /\ at = "read" => request[q].at = "enter"
      /\ request[q].at \in Settled => at \in Settled
  BY <1>1, <1>3 DEF Settled
<1>6. Set(q, [request[q] EXCEPT !.at = at, !.status = status])
  BY <1>1, <1>3, <1>4
<1>7. trail' = trail /\ UNCHANGED counted
  BY <1>1
<1> QED BY <1>2, <1>5, <1>6, <1>7, MoveOn

LEMMA RunEndpointKeeps ==
  ASSUME PipelineInv, NEW q \in Requests, NEW code \in {200, 409, 500},
         RunEndpoint(q, code)
  PROVE  PipelineInv'
<1>1. PICK at \in Phases : at = IF code = 500 THEN "raised" ELSE "respond"
  BY DEF Phases
<1>2. PICK status \in Statuses : status = code
  BY DEF Statuses
<1>3. /\ request[q].at \in {"bodiless", "endpoint"}
      /\ trail' = trail \cup {<<q, context[q]>>}
      /\ Set(q, [request[q] EXCEPT !.at = at, !.status = status])
      /\ UNCHANGED <<context, counted>>
  BY <1>1, <1>2 DEF RunEndpoint
<1>4. context' = [context EXCEPT ![q] = request[q].id]
  BY <1>3, InContext
<1>5. context[q] = request[q].id
  BY <1>3, InContext
<1>6. /\ request[q].at \notin {"new", "answered", "cancelled"}
      /\ at \in {"read", "bodiless", "respond", "raised"}
      /\ at = "read" => request[q].at = "enter"
      /\ request[q].at \in Settled => at \in Settled
  BY <1>1, <1>3 DEF Settled
<1>7. trail' = trail \cup {<<q, request[q].id>>} /\ at \in Settled
  BY <1>1, <1>3, <1>5 DEF Settled
<1>8. Set(q, [request[q] EXCEPT !.at = at, !.status = status]) /\ UNCHANGED counted
  BY <1>3
<1> QED BY <1>4, <1>6, <1>7, <1>8, MoveOn

-------------------------------------------------------------------------------

(* Replaying a message moves it from what is left to what was replayed. *)
LEMMA Replaying ==
  ASSUME NEW body \in Seq(Messages), NEW buffer \in Seq(Messages), buffer # <<>>
  PROVE  /\ Head(buffer) \in Messages /\ Tail(buffer) \in Seq(Messages)
         /\ Append(body, Head(buffer)) \in Seq(Messages)
         /\ Append(body, Head(buffer)) \o Tail(buffer) = body \o buffer
         /\ Len(body) \in Nat /\ Len(Tail(buffer)) \in Nat
         /\ \A all : all = body \o buffer =>
                       /\ Len(all) = Len(body) + 1 + Len(Tail(buffer))
                       /\ all[Len(body) + 1] = Head(buffer)
<1>1. /\ Head(buffer) \in Messages /\ Tail(buffer) \in Seq(Messages)
      /\ Append(body, Head(buffer)) \in Seq(Messages)
      /\ Len(body) \in Nat /\ Len(Tail(buffer)) \in Nat
      /\ Len(buffer) = 1 + Len(Tail(buffer))
      /\ buffer[1] = Head(buffer)
  BY HeadTailProperties, EmptySeq, LenProperties, AppendProperties
<1>2. Append(body, Head(buffer)) \o Tail(buffer) = body \o buffer
  BY HeadTailAppend
<1>3. ASSUME NEW all, all = body \o buffer
      PROVE  /\ Len(all) = Len(body) + 1 + Len(Tail(buffer))
             /\ all[Len(body) + 1] = Head(buffer)
  BY <1>1, <1>3, ConcatProperties
<1> QED BY <1>1, <1>2, <1>3

(* The message that ends a complete body is the last of what was sent. *)
LEMMA LastReplayed ==
  ASSUME NEW body \in Seq(Messages), NEW buffer \in Seq(Messages), buffer # <<>>,
         NEW sent, body \o buffer = sent, OnlyLastEnds(sent), ~Head(buffer).more
  PROVE  Append(body, Head(buffer)) = sent
<1>1. /\ Len(body) \in Nat /\ Len(Tail(buffer)) \in Nat
      /\ Len(sent) = Len(body) + 1 + Len(Tail(buffer))
      /\ sent[Len(body) + 1] = Head(buffer)
  BY Replaying
<1>2. Len(body) + 1 \in 1..Len(sent)
  BY <1>1
<1>3. ~(Len(body) + 1 < Len(sent))
  <2>1. sent[Len(body) + 1].more <=> Len(body) + 1 < Len(sent)
    BY <1>2 DEF OnlyLastEnds
  <2>2. ~sent[Len(body) + 1].more
    BY <1>1
  <2> QED BY <2>1, <2>2
<1>4. PICK rest : rest = Tail(buffer)
  OBVIOUS
<1>5. /\ rest \in Seq(Messages) /\ Append(body, Head(buffer)) \in Seq(Messages)
      /\ Append(body, Head(buffer)) \o rest = sent
  BY <1>4, Replaying
<1>6. rest = <<>>
  <2>1. \A b, l \in Nat : ~(b + 1 < b + 1 + l) => l = 0
    OBVIOUS
  <2>2. Len(rest) = 0
    BY <1>1, <1>3, <1>4, <2>1
  <2> QED BY <1>5, <2>2, EmptySeq
<1> QED BY <1>5, <1>6, ConcatEmptySeq

(* The first message left of a body cut off announces another, or is the   *)
(* disconnection.                                                          *)
LEMMA CutOffReplayed ==
  ASSUME NEW body \in Seq(Messages), NEW buffer \in Seq(Messages), buffer # <<>>,
         NEW sent \in Seq(Messages), body \o buffer = Append(sent, Disconnect),
         NeverEnds(sent), Head(buffer) # Disconnect
  PROVE  Head(buffer).more
<1>1. PICK all : all = Append(sent, Disconnect)
  OBVIOUS
<1>2. /\ Len(body) \in Nat /\ Len(Tail(buffer)) \in Nat
      /\ Len(all) = Len(body) + 1 + Len(Tail(buffer))
      /\ all[Len(body) + 1] = Head(buffer)
  BY <1>1, Replaying
<1>3. /\ Len(sent) \in Nat /\ Len(all) = Len(sent) + 1 /\ all[Len(sent) + 1] = Disconnect
      /\ \A i \in 1..Len(sent) : all[i] = sent[i]
  <2>1. Disconnect \in Messages
    BY DEF Disconnect, Messages
  <2> QED BY <1>1, <2>1, LenProperties, AppendProperties
<1>4. Len(body) # Len(sent)
  BY <1>2, <1>3
<1>5. Len(body) + 1 \in 1..Len(sent)
  BY <1>2, <1>3, <1>4
<1>6. Head(buffer) = sent[Len(body) + 1]
  BY <1>2, <1>3, <1>5
<1> QED BY <1>5, <1>6 DEF NeverEnds

LEMMA ReadBodyKeeps ==
  ASSUME PipelineInv, NEW q \in Requests, ReadBody(q)
  PROVE  PipelineInv'
<1>1. PICK r \in RequestRows : r = request[q]
  BY RowType
<1>2. PICK m : m = Head(r.buffer)
  OBVIOUS
<1>3. /\ r.at = "read" /\ r.buffer # <<>> /\ UNCHANGED <<context, counted, trail>>
      /\ Set(q, IF m = Disconnect
                THEN [r EXCEPT !.at = "respond", !.status = 400]
                ELSE [r EXCEPT !.body = Append(r.body, m), !.buffer = Tail(r.buffer),
                               !.at = IF m.more THEN "read" ELSE "endpoint"])
  BY <1>1, <1>2 DEF ReadBody, Replay
<1>4. PICK id \in AnyId \cup {DefaultId} : id = context[q]
  BY <1>1, <1>3, InContext
<1>5. id = r.id /\ context' = [context EXCEPT ![q] = id]
  BY <1>1, <1>3, <1>4, InContext
<1>6. CASE m = Disconnect
  <2>1. Set(q, [request[q] EXCEPT !.at = "respond", !.status = 400])
    BY <1>1, <1>3, <1>6
  <2>2. "respond" \in Phases /\ 400 \in Statuses /\ "respond" \in Settled
    BY DEF Phases, Statuses, Settled
  <2> QED BY <1>1, <1>3, <1>5, <2>1, <2>2, MoveOn
<1>7. CASE m # Disconnect
  <2> DEFINE next == IF m.more THEN "read" ELSE "endpoint"
  <2>1. PICK at \in {"read", "endpoint"} : at = next
    OBVIOUS
  <2>2. PICK body : body = Append(r.body, m)
    OBVIOUS
  <2>3. PICK buffer : buffer = Tail(r.buffer)
    OBVIOUS
  <2>4. PICK row : row = [r EXCEPT !.body = body, !.buffer = buffer, !.at = at]
    OBVIOUS
  <2>5. Set(q, row)
    BY <1>3, <1>7, <2>1, <2>2, <2>3, <2>4
  <2>6. /\ r.body \in Seq(Messages) /\ r.buffer \in Seq(Messages) /\ r.sent \in Seq(Messages)
    BY RowFields
  <2>7. /\ body \in Seq(Messages) /\ buffer \in Seq(Messages)
        /\ body \o buffer = r.body \o r.buffer
    BY <1>2, <1>3, <2>2, <2>3, <2>6, Replaying
  <2>8. /\ row \in RequestRows
        /\ row.at = at /\ row.body = body /\ row.buffer = buffer /\ row.sent = r.sent
        /\ row.id = r.id /\ row.status = r.status
    <3>1. at \in Phases
      BY DEF Phases
    <3> QED BY <2>4, <2>7, <3>1 DEF RequestRows
  <2>9. Complete(r) \/ CutOff(r)
    BY <1>1, <1>3, RowType DEF BodyKept
  <2>10. BodyKept(row)
    <3>1. CASE at = "read"
      BY <2>7, <2>8, <2>9, <3>1 DEF BodyKept, Complete, CutOff
    <3>2. CASE at = "endpoint"
      <4>1. ~m.more
        BY <2>1, <3>2
      <4>2. ~CutOff(r)
        BY <1>2, <1>3, <1>7, <2>6, <4>1, CutOffReplayed DEF CutOff
      <4>3. body = r.sent
        BY <1>2, <1>3, <2>2, <2>6, <2>9, <4>1, <4>2, LastReplayed DEF Complete
      <4> QED BY <2>8, <2>9, <3>2, <4>2, <4>3 DEF BodyKept, Complete
    <3> QED BY <3>1, <3>2
  <2>11. CountKept(row, counted[q]) /\ IdKept(row, id)
    <3>1. CountKept(r, counted[q])
      BY <1>1, RowType
    <3> QED BY <1>3, <1>5, <2>1, <2>8, <3>1 DEF CountKept, IdKept
  <2>12. request[q].at \notin Settled
    BY <1>1, <1>3 DEF Settled
  <2> QED BY <1>3, <1>5, <2>5, <2>8, <2>10, <2>11, <2>12, RowType, OneRequestMoves
<1> QED BY <1>6, <1>7
-------------------------------------------------------------------------------

LEMMA PipelineStarts == PipelineInit => PipelineInv
<1> SUFFICES ASSUME PipelineInit PROVE PipelineInv
  OBVIOUS
<1>1. /\ request = [q \in Requests |-> NewRequest]
      /\ context = [q \in Requests |-> DefaultId]
      /\ counted = [q \in Requests |-> <<>>]
      /\ trail = {}
  BY DEF PipelineInit
<1>2. PipelineTypeOK
  <2>1. NewRequest \in RequestRows
    BY NewRequestTyped
  <2>2. <<>> \in Seq(Statuses)
    OBVIOUS
  <2> QED BY <1>1, <2>1, <2>2 DEF PipelineTypeOK
<1>3. ASSUME NEW q \in Requests
      PROVE  /\ BodyKept(request[q])
             /\ CountKept(request[q], counted[q])
             /\ IdKept(request[q], context[q])
  <2>1. request[q] = NewRequest /\ counted[q] = <<>> /\ NewRequest.at = "new"
    BY <1>1, NewRequestTyped
  <2> QED BY <2>1 DEF BodyKept, CountKept, IdKept
<1>4. TrailKept
  BY <1>1 DEF TrailKept
<1> QED BY <1>2, <1>3, <1>4 DEF PipelineInv

LEMMA PipelineSteps == PipelineInv /\ [PipelineNext]_pipelineVars => PipelineInv'
<1> SUFFICES ASSUME PipelineInv, [PipelineNext]_pipelineVars PROVE PipelineInv'
  OBVIOUS
<1>1. CASE UNCHANGED pipelineVars
  <2>1. UNCHANGED <<request, context, counted, trail>>
    BY <1>1 DEF pipelineVars
  <2>2. PipelineTypeOK'
    BY <2>1 DEF PipelineInv, PipelineTypeOK
  <2>3. ASSUME NEW q \in Requests
        PROVE  (BodyKept(request[q]) /\ CountKept(request[q], counted[q])
                  /\ IdKept(request[q], context[q]))'
    <3>1. /\ BodyKept(request[q])
          /\ CountKept(request[q], counted[q])
          /\ IdKept(request[q], context[q])
      BY DEF PipelineInv
    <3> QED BY <2>1, <3>1
  <2>4. TrailKept'
    BY <2>1 DEF PipelineInv, TrailKept
  <2> QED BY <2>2, <2>3, <2>4 DEF PipelineInv
<1>2. CASE PipelineNext
  <2> PICK q \in Requests : RequestStep(q)
    BY <1>2 DEF PipelineNext
  <2>1. CASE \E supplied \in Ids \cup {NULL}, length \in {NULL, Limit, Limit + 1} :
               Arrive(q, supplied, length)
    BY <2>1, ArriveKeeps
  <2>2. CASE \E n \in ChunkSizes, more \in BOOLEAN : ReceiveChunk(q, n, more)
    BY <2>2, ReceiveChunkKeeps
  <2>3. CASE ReceiveDisconnect(q)
    BY <2>3, ReceiveDisconnectKeeps
  <2>4. CASE Reject(q)
    BY <2>4, RejectKeeps
  <2>5. CASE EnterApplication(q)
    BY <2>5, EnterKeeps
  <2>6. CASE ReadBody(q)
    BY <2>6, ReadBodyKeeps
  <2>7. CASE SkipBody(q)
    BY <2>7, SkipBodyKeeps
  <2>8. CASE \E status \in {401, 422} : Refuse(q, status)
    BY <2>8, RefuseKeeps
  <2>9. CASE \E status \in {200, 409, 500} : RunEndpoint(q, status)
    BY <2>9, RunEndpointKeeps
  <2>10. CASE Respond(q)
    BY <2>10, RespondKeeps
  <2>11. CASE Fail(q)
    BY <2>11, FailKeeps
  <2>12. CASE Cancel(q)
    BY <2>12, CancelKeeps
  <2> QED BY <2>1, <2>2, <2>3, <2>4, <2>5, <2>6, <2>7, <2>8, <2>9, <2>10, <2>11, <2>12
          DEF RequestStep
<1> QED BY <1>1, <1>2

(* The inductive invariant of a request: what was replayed and what is     *)
(* left make up what was sent, the context carries its id while it is in   *)
(* the application, and it is uncounted until it is answered.              *)
THEOREM PipelineAlways == PipelineSpec => []PipelineInv
<1>1. PipelineInit => PipelineInv
  BY PipelineStarts
<1>2. PipelineInv /\ [PipelineNext]_pipelineVars => PipelineInv'
  BY PipelineSteps
<1> QED BY <1>1, <1>2, PTL DEF PipelineSpec

(* Every answered request has been counted exactly once, with the status   *)
(* the client got, by the middleware that answered it; a request that is   *)
(* under way or cancelled has been counted at most once.                   *)
THEOREM RequestsCountedOnce == PipelineSpec => []CountedOnce
<1>1. PipelineInv => CountedOnce
  <2> SUFFICES ASSUME PipelineInv, NEW q \in Requests
               PROVE  /\ Len(counted[q]) <= 1
                      /\ request[q].at = "answered" => counted[q] = <<request[q].status>>
    BY DEF CountedOnce
  <2>1. counted[q] = IF request[q].at = "answered" THEN <<request[q].status>> ELSE <<>>
    BY DEF PipelineInv, CountKept
  <2> QED BY <2>1
<1> QED BY <1>1, PipelineAlways, PTL

(* No event or answer carries another request's correlation id, however    *)
(* requests take turns at their awaits.                                    *)
THEOREM CorrelationNeverMixed == PipelineSpec => []CorrelationKept
<1>1. PipelineInv => CorrelationKept
  BY DEF PipelineInv, TrailKept, IdKept, CorrelationKept
<1> QED BY <1>1, PipelineAlways, PTL

(* An endpoint that runs has the whole body, in order and within the       *)
(* limit, for any number of pieces and any limit.                          *)
THEOREM BodiesAreWhole == PipelineSpec => []EndpointGetsBody
<1>1. PipelineInv => EndpointGetsBody
  <2> SUFFICES ASSUME PipelineInv, NEW q \in Requests, request[q].at = "endpoint"
               PROVE  /\ request[q].body = request[q].sent
                      /\ ~Last(request[q].body).more
                      /\ Total(request[q].body) <= Limit
    BY DEF EndpointGetsBody
  <2>1. PICK s : s = request[q].sent
    OBVIOUS
  <2>2. request[q].body = s /\ OnlyLastEnds(s) /\ Total(s) <= Limit /\ s \in Seq(Messages)
    BY <2>1, RowType, RowFields DEF BodyKept
  <2>3. Len(s) \in 1..Len(s)
    BY <2>2, EmptySeq, LenProperties DEF OnlyLastEnds
  <2>4. ~s[Len(s)].more
    <3>1. s[Len(s)].more <=> Len(s) < Len(s)
      BY <2>2, <2>3 DEF OnlyLastEnds
    <3>2. ~(Len(s) < Len(s))
      BY <2>3
    <3> QED BY <3>1, <3>2
  <2> QED BY <2>1, <2>2, <2>4 DEF Last
<1> QED BY <1>1, PipelineAlways, PTL
-------------------------------------------------------------------------------

LEMMA WorkerFields ==
  ASSUME NEW w \in WorkerLocals
  PROVE  /\ w.at \in {"down", "sweep", "lock", "load", "write"}
         /\ w.rev \in Revisions \cup {NULL} /\ w.outcome \in {"success", "failure"}
         /\ w.n \in 0..BatchSize /\ w.base \in Snapshots
BY DEF WorkerLocals

LEMMA SnapshotFields ==
  ASSUME NEW f \in Snapshots
  PROVE  /\ f.rev \in Revisions \cup {NULL} /\ f.success \in Nat /\ f.failure \in Nat
         /\ f.expired \in Nat /\ f.lastSuccess \in Nat /\ f.lastFailure \in Nat
BY DEF Snapshots

LEMMA EmptyRows ==
  /\ NoSnapshot \in Snapshots /\ NoSnapshot.rev = NULL
  /\ NoSnapshot.success = 0 /\ NoSnapshot.failure = 0 /\ NoSnapshot.expired = 0
  /\ NoSnapshot.lastSuccess = 0 /\ NoSnapshot.lastFailure = 0
  /\ Down \in WorkerLocals
  /\ Down.at = "down" /\ Down.n = 0 /\ Down.outcome = "success" /\ Down.rev = NULL
<1>1. NoSnapshot \in Snapshots
  BY DEF NoSnapshot, Snapshots
<1>2. 0 \in 0..BatchSize
  BY TelemetryAssumption
<1>3. Down \in WorkerLocals
  BY <1>1, <1>2 DEF Down, WorkerLocals
<1> QED BY <1>1, <1>3 DEF NoSnapshot, Down

LEMMA LoopType ==
  ASSUME TelemetryInv, NEW p \in Processes
  PROVE  loop[p] \in WorkerLocals /\ WorkerKnows(p)
BY DEF TelemetryInv, TelemetryTypeOK

(* What a worker knows stays so when another moves: the other neither has  *)
(* the lock file nor replaces the state file.                              *)
OthersStay(p) ==
  \A o \in Processes \ {p} :
    loop[o].at \in {"load", "write"} =>
      flock' = flock /\ (loop[o].at = "write" => file' = file)

LEMMA OneWorkerMoves ==
  ASSUME TelemetryInv, NEW p \in Processes, NEW row \in WorkerLocals, Move(p, row),
         OthersStay(p), sweeps' \in Nat, sweeps' >= sweeps,
         row.at # "down" => row.rev # NULL,
         row.at \in {"load", "write"} => flock' = p,
         row.at = "write" => row.base = LoadedBy(row.rev)',
         row.at \in {"lock", "load", "write"} => sweeps' > 0,
         row.n > 0 => row.outcome = "success"
  PROVE  /\ loop' \in [Processes -> WorkerLocals]
         /\ \A o \in Processes : WorkerKnows(o)'
<1>1. /\ loop' \in [Processes -> WorkerLocals] /\ loop'[p] = row
      /\ \A o \in Processes \ {p} : loop'[o] = loop[o]
  BY DEF TelemetryInv, TelemetryTypeOK, Move
<1>2. WorkerKnows(p)'
  BY <1>1 DEF WorkerKnows, LoadedBy
<1>3. ASSUME NEW o \in Processes, o # p PROVE WorkerKnows(o)'
  <2>1. PICK w \in WorkerLocals : w = loop[o]
    BY LoopType
  <2>2. loop'[o] = w
    BY <1>1, <1>3, <2>1
  <2>3. /\ w.at # "down" => w.rev # NULL
        /\ w.at \in {"load", "write"} => flock = o
        /\ w.at = "write" => w.base = LoadedBy(w.rev)
        /\ w.at \in {"lock", "load", "write"} => sweeps > 0
        /\ w.n > 0 => w.outcome = "success"
    BY <2>1, LoopType DEF WorkerKnows
  <2>4. w.at \in {"load", "write"} => flock' = flock /\ (w.at = "write" => file' = file)
    BY <1>3, <2>1 DEF OthersStay
  <2>5. sweeps > 0 => sweeps' > 0
    BY DEF TelemetryInv, TelemetryTypeOK
  <2>6. w.at = "write" => w.base = LoadedBy(w.rev)'
    BY <2>3, <2>4 DEF LoadedBy
  <2> QED BY <2>2, <2>3, <2>4, <2>5, <2>6 DEF WorkerKnows, LoadedBy
<1> QED BY <1>1, <1>2, <1>3

(* A worker that has opened the lock file keeps the others out of it. *)
LEMMA Alone ==
  ASSUME TelemetryInv, NEW p \in Processes, loop[p].at \in {"load", "write"},
         NEW o \in Processes \ {p}
  PROVE  loop[o].at \notin {"load", "write"}
BY LoopType DEF WorkerKnows

LEMMA FileStays ==
  ASSUME TelemetryInv, UNCHANGED file, sweeps' \in Nat, sweeps' >= sweeps
  PROVE  file' \in Snapshots /\ FileTells(file)'
<1>1. file \in Snapshots /\ sweeps \in Nat /\ FileTells(file)
  BY DEF TelemetryInv, TelemetryTypeOK
<1> QED BY <1>1, SnapshotFields DEF FileTells

-------------------------------------------------------------------------------

LEMMA StartKeeps ==
  ASSUME TelemetryInv, NEW p \in Processes, NEW r \in Revisions, StartWorker(p, r)
  PROVE  TelemetryInv'
<1>1. PICK row : row = [Down EXCEPT !.at = "sweep", !.rev = r]
  OBVIOUS
<1>2. Move(p, row) /\ UNCHANGED <<file, flock, sweeps, done, lost>>
  BY <1>1 DEF StartWorker
<1>3. /\ row \in WorkerLocals /\ row.at = "sweep" /\ row.rev = r
      /\ row.n = 0
  BY <1>1, EmptyRows DEF WorkerLocals
<1>4. r # NULL
  BY TelemetryAssumption
<1>5. OthersStay(p)
  BY <1>2 DEF OthersStay
<1>6. sweeps \in Nat
  BY DEF TelemetryInv, TelemetryTypeOK
<1>7. /\ loop' \in [Processes -> WorkerLocals]
      /\ \A o \in Processes : WorkerKnows(o)'
  BY <1>2, <1>3, <1>4, <1>5, <1>6, OneWorkerMoves
<1>8. file' \in Snapshots /\ FileTells(file)'
  BY <1>2, <1>6, FileStays
<1> QED BY <1>2, <1>7, <1>8 DEF TelemetryInv, TelemetryTypeOK

LEMMA SweepKeeps ==
  ASSUME TelemetryInv, NEW p \in Processes, NEW n \in 0..BatchSize,
         Expire(p, n) \/ FailSweep(p, n)
  PROVE  TelemetryInv'
<1>1. PICK outcome \in {"success", "failure"}, told \in 0..BatchSize :
        /\ Move(p, [loop[p] EXCEPT !.at = "lock", !.outcome = outcome, !.n = told])
        /\ told > 0 => outcome = "success"
  <2>1. CASE Expire(p, n)
    <3>1. Move(p, [loop[p] EXCEPT !.at = "lock", !.outcome = "success", !.n = n])
      BY <2>1 DEF Expire
    <3> QED BY <3>1
  <2>2. CASE FailSweep(p, n)
    <3>1. Move(p, [loop[p] EXCEPT !.at = "lock", !.outcome = "failure", !.n = 0])
      BY <2>2 DEF FailSweep
    <3>2. ~(0 > 0) /\ 0 \in 0..BatchSize
      BY TelemetryAssumption
    <3> QED BY <3>1, <3>2
  <2> QED BY <2>1, <2>2
<1>2. PICK row : row = [loop[p] EXCEPT !.at = "lock", !.outcome = outcome, !.n = told]
  OBVIOUS
<1>3. PICK w \in WorkerLocals : w = loop[p]
  BY LoopType
<1>4. /\ w.at = "sweep" /\ sweeps' = sweeps + 1
      /\ UNCHANGED <<file, flock>>
      /\ done' = [done EXCEPT ![w.rev] = @ + n]
      /\ lost' = lost \/ lost' = [lost EXCEPT ![w.rev] = @ + n]
  BY <1>3 DEF Expire, FailSweep
<1>5. /\ row \in WorkerLocals /\ row.at = "lock" /\ row.rev = w.rev /\ row.n = told
      /\ row.outcome = outcome
  BY <1>2, <1>3 DEF WorkerLocals
<1>6. w.rev # NULL /\ w.rev \in Revisions
  BY <1>3, <1>4, LoopType, WorkerFields DEF WorkerKnows
<1>7. OthersStay(p)
  BY <1>4 DEF OthersStay
<1>8. sweeps \in Nat /\ sweeps' \in Nat /\ sweeps' >= sweeps /\ sweeps' > 0
  BY <1>4 DEF TelemetryInv, TelemetryTypeOK
<1>9. Move(p, row)
  BY <1>1, <1>2
<1>10. /\ loop' \in [Processes -> WorkerLocals]
       /\ \A o \in Processes : WorkerKnows(o)'
  BY <1>1, <1>5, <1>6, <1>7, <1>8, <1>9, OneWorkerMoves
<1>11. file' \in Snapshots /\ FileTells(file)'
  BY <1>4, <1>8, FileStays
<1>12. done' \in [Revisions -> Nat] /\ lost' \in [Revisions -> Nat]
  <2>1. n \in Nat
    BY TelemetryAssumption
  <2> QED BY <1>4, <1>6, <2>1 DEF TelemetryInv, TelemetryTypeOK
<1> QED BY <1>4, <1>8, <1>10, <1>11, <1>12 DEF TelemetryInv, TelemetryTypeOK

LEMMA LockFileKeeps ==
  ASSUME TelemetryInv, NEW p \in Processes, LockFile(p)
  PROVE  TelemetryInv'
<1>1. PICK row : row = [loop[p] EXCEPT !.at = "load"]
  OBVIOUS
<1>2. PICK w \in WorkerLocals : w = loop[p]
  BY LoopType
<1>3. /\ w.at = "lock" /\ flock = NULL /\ flock' = p /\ Move(p, row)
      /\ UNCHANGED <<file, sweeps, done, lost>>
  BY <1>1, <1>2 DEF LockFile
<1>4. /\ row \in WorkerLocals /\ row.at = "load" /\ row.rev = w.rev /\ row.n = w.n
      /\ row.outcome = w.outcome
  BY <1>1, <1>2 DEF WorkerLocals
<1>5. w.rev # NULL /\ sweeps > 0 /\ (w.n > 0 => w.outcome = "success")
  BY <1>2, <1>3, LoopType DEF WorkerKnows
<1>6. OthersStay(p)
  <2>1. \A o \in Processes \ {p} : loop[o].at \notin {"load", "write"}
    BY <1>3, LoopType, TelemetryAssumption DEF WorkerKnows
  <2> QED BY <2>1 DEF OthersStay
<1>7. sweeps \in Nat
  BY DEF TelemetryInv, TelemetryTypeOK
<1>8. /\ loop' \in [Processes -> WorkerLocals]
      /\ \A o \in Processes : WorkerKnows(o)'
  BY <1>3, <1>4, <1>5, <1>6, <1>7, OneWorkerMoves
<1>9. file' \in Snapshots /\ FileTells(file)'
  BY <1>3, <1>7, FileStays
<1> QED BY <1>3, <1>8, <1>9 DEF TelemetryInv, TelemetryTypeOK

LEMMA LoadFileKeeps ==
  ASSUME TelemetryInv, NEW p \in Processes, LoadFile(p)
  PROVE  TelemetryInv'
<1>1. PICK w \in WorkerLocals : w = loop[p]
  BY LoopType
<1>2. PICK base : base = LoadedBy(w.rev)
  OBVIOUS
<1>3. PICK row : row = [loop[p] EXCEPT !.at = "write", !.base = base]
  OBVIOUS
<1>4. w.at = "load" /\ Move(p, row) /\ UNCHANGED <<file, flock, sweeps, done, lost>>
  BY <1>1, <1>2, <1>3 DEF LoadFile
<1>5. base \in Snapshots
  BY <1>2, EmptyRows DEF LoadedBy, TelemetryInv, TelemetryTypeOK
<1>6. /\ row \in WorkerLocals /\ row.at = "write" /\ row.rev = w.rev /\ row.n = w.n
      /\ row.outcome = w.outcome /\ row.base = base
  BY <1>1, <1>3, <1>5 DEF WorkerLocals
<1>7. w.rev # NULL /\ sweeps > 0 /\ flock = p /\ (w.n > 0 => w.outcome = "success")
  BY <1>1, <1>4, LoopType DEF WorkerKnows
<1>8. OthersStay(p)
  BY <1>4 DEF OthersStay
<1>9. sweeps \in Nat
  BY DEF TelemetryInv, TelemetryTypeOK
<1>10. row.base = LoadedBy(row.rev)'
  BY <1>2, <1>4, <1>6 DEF LoadedBy
<1>11. /\ loop' \in [Processes -> WorkerLocals]
       /\ \A o \in Processes : WorkerKnows(o)'
  BY <1>4, <1>6, <1>7, <1>8, <1>9, <1>10, OneWorkerMoves
<1>12. file' \in Snapshots /\ FileTells(file)'
  BY <1>4, <1>9, FileStays
<1> QED BY <1>4, <1>11, <1>12 DEF TelemetryInv, TelemetryTypeOK

(* The row a worker has after its loop: of a running or a stopped process. *)
LEMMA Idle ==
  ASSUME NEW r \in Revisions, NEW row, row = Down \/ row = [Down EXCEPT !.at = "sweep", !.rev = r]
  PROVE  /\ row \in WorkerLocals /\ row.at \in {"down", "sweep"} /\ row.n = 0
         /\ row.at # "down" => row.rev # NULL
<1>1. r # NULL
  BY TelemetryAssumption
<1>2. CASE row = Down
  BY <1>2, EmptyRows
<1>3. CASE row = [Down EXCEPT !.at = "sweep", !.rev = r]
  BY <1>1, <1>3, EmptyRows DEF WorkerLocals
<1> QED BY <1>2, <1>3

(* A worker ends its loop, dies or is stopped, with the file as it may be. *)
LEMMA LoopEnds ==
  ASSUME TelemetryInv, NEW p \in Processes, NEW r \in Revisions, r = loop[p].rev,
         NEW row, row = Down \/ row = [Down EXCEPT !.at = "sweep", !.rev = r], Move(p, row),
         flock' = IF flock = p THEN NULL ELSE flock,
         UNCHANGED <<sweeps, done>>, lost' \in [Revisions -> Nat],
         file' \in Snapshots, FileTells(file)',
         file' = file \/ loop[p].at = "write"
  PROVE  TelemetryInv'
<1>1. /\ row \in WorkerLocals /\ row.at \in {"down", "sweep"} /\ row.n = 0
      /\ row.at # "down" => row.rev # NULL
  BY Idle
<1>2. OthersStay(p)
  <2> SUFFICES ASSUME NEW o \in Processes \ {p}, loop[o].at \in {"load", "write"}
               PROVE  flock' = flock /\ (loop[o].at = "write" => file' = file)
    BY DEF OthersStay
  <2>1. flock = o
    BY LoopType DEF WorkerKnows
  <2>2. loop[p].at # "write"
    BY Alone
  <2> QED BY <2>1, <2>2
<1>3. sweeps \in Nat /\ sweeps' = sweeps
  BY DEF TelemetryInv, TelemetryTypeOK
<1>4. /\ loop' \in [Processes -> WorkerLocals]
      /\ \A o \in Processes : WorkerKnows(o)'
  BY <1>1, <1>2, <1>3, OneWorkerMoves
<1>5. flock' \in Processes \cup {NULL}
  BY DEF TelemetryInv, TelemetryTypeOK
<1>6. done' \in [Revisions -> Nat]
  BY DEF TelemetryInv, TelemetryTypeOK
<1> QED BY <1>3, <1>4, <1>5, <1>6 DEF TelemetryInv, TelemetryTypeOK

(* What was not published is lost. *)
LEMMA Losing ==
  ASSUME TelemetryInv, NEW r \in Revisions, NEW n \in Nat,
         lost' = lost \/ lost' = [lost EXCEPT ![r] = @ + n]
  PROVE  lost' \in [Revisions -> Nat]
BY DEF TelemetryInv, TelemetryTypeOK

LEMMA Running ==
  ASSUME TelemetryInv, NEW p \in Processes, loop[p].at # "down"
  PROVE  loop[p].rev \in Revisions /\ loop[p].n \in Nat /\ sweeps \in Nat
<1>1. loop[p].n \in 0..BatchSize /\ BatchSize \in Nat /\ loop[p].rev \in Revisions \cup {NULL}
  BY LoopType, WorkerFields, TelemetryAssumption
<1>2. loop[p].rev # NULL
  BY LoopType DEF WorkerKnows
<1> QED BY <1>1, <1>2 DEF TelemetryInv, TelemetryTypeOK

LEMMA PublishFailsKeeps ==
  ASSUME TelemetryInv, NEW p \in Processes, PublishFails(p)
  PROVE  TelemetryInv'
<1>1. loop[p].at \in {"lock", "load", "write"} /\ UNCHANGED <<file, sweeps, done>>
      /\ flock' = IF flock = p THEN NULL ELSE flock
  BY DEF PublishFails, EndPublish
<1>2. PICK r \in Revisions : r = loop[p].rev
  BY <1>1, Running
<1>3. PICK n \in Nat : n = loop[p].n
  BY <1>1, Running
<1>4. lost' = [lost EXCEPT ![r] = @ + n]
  BY <1>2, <1>3 DEF PublishFails
<1>5. PICK row : /\ row = Down \/ row = [Down EXCEPT !.at = "sweep", !.rev = r]
                 /\ Move(p, row)
  <2>1. Move(p, IF loop[p].outcome = "failure" THEN Down
                ELSE [Down EXCEPT !.at = "sweep", !.rev = r])
    BY <1>2 DEF PublishFails, EndPublish
  <2> QED BY <2>1
<1>6. lost' \in [Revisions -> Nat]
  BY <1>4, Losing
<1>7. file' \in Snapshots /\ FileTells(file)' /\ sweeps' = sweeps
  <2>1. sweeps \in Nat /\ sweeps' = sweeps /\ sweeps' >= sweeps
    BY <1>1, Running
  <2> QED BY <1>1, <2>1, FileStays
<1>8. file' = file
  BY <1>1
<1> QED BY <1>1, <1>2, <1>5, <1>6, <1>7, <1>8, LoopEnds

LEMMA KillKeeps ==
  ASSUME TelemetryInv, NEW p \in Processes, KillWorker(p)
  PROVE  TelemetryInv'
<1>1. loop[p].at # "down" /\ UNCHANGED <<file, sweeps, done>> /\ Move(p, Down)
      /\ flock' = IF flock = p THEN NULL ELSE flock
  BY DEF KillWorker
<1>2. PICK r \in Revisions : r = loop[p].rev
  BY <1>1, Running
<1>3. PICK n \in Nat : n = loop[p].n
  BY <1>1, Running
<1>4. lost' = [lost EXCEPT ![r] = @ + n]
  BY <1>2, <1>3 DEF KillWorker
<1>5. lost' \in [Revisions -> Nat]
  BY <1>4, Losing
<1>6. file' \in Snapshots /\ FileTells(file)'
  <2>1. sweeps \in Nat /\ sweeps' = sweeps /\ sweeps' >= sweeps
    BY <1>1, Running
  <2> QED BY <1>1, <2>1, FileStays
<1>7. file' = file
  BY <1>1
<1>8. PICK row : row = Down
  OBVIOUS
<1>9. Move(p, row) /\ row = Down
  BY <1>1, <1>8
<1> QED BY <1>1, <1>2, <1>5, <1>6, <1>7, <1>9, LoopEnds

-------------------------------------------------------------------------------

(* What the file tells after a worker has written it. *)
LEMMA WrittenFile ==
  ASSUME TelemetryInv, NEW p \in Processes, loop[p].at = "write",
         NEW base \in Snapshots, base = loop[p].base, NEW r \in Revisions, r = loop[p].rev,
         NEW n \in Nat, n = loop[p].n
  PROVE  /\ Payload(p) \in Snapshots
         /\ Payload(p).rev = r
         /\ Payload(p).success + Payload(p).failure = base.success + base.failure + 1
         /\ Payload(p).success = base.success + (IF loop[p].outcome = "success" THEN 1 ELSE 0)
         /\ Payload(p).expired = base.expired + n
         /\ Payload(p).lastSuccess
              = IF loop[p].outcome = "success" THEN sweeps ELSE base.lastSuccess
         /\ Payload(p).lastFailure
              = IF loop[p].outcome = "failure" THEN sweeps ELSE base.lastFailure
<1>1. PICK outcome \in {"success", "failure"} : outcome = loop[p].outcome
  BY LoopType, WorkerFields
<1>2. /\ base.success \in Nat /\ base.failure \in Nat /\ base.expired \in Nat
      /\ base.lastSuccess \in Nat /\ base.lastFailure \in Nat
  BY SnapshotFields
<1>3. sweeps \in Nat
  BY DEF TelemetryInv, TelemetryTypeOK
<1>4. Payload(p) =
        [rev |-> r, success |-> base.success + (IF outcome = "success" THEN 1 ELSE 0),
         failure |-> base.failure + (IF outcome = "failure" THEN 1 ELSE 0),
         expired |-> base.expired + n,
         lastSuccess |-> IF outcome = "success" THEN sweeps ELSE base.lastSuccess,
         lastFailure |-> IF outcome = "failure" THEN sweeps ELSE base.lastFailure]
  BY <1>1 DEF Payload
<1>5. CASE outcome = "success"
  BY <1>1, <1>2, <1>3, <1>4, <1>5 DEF Snapshots
<1>6. CASE outcome = "failure"
  BY <1>1, <1>2, <1>3, <1>4, <1>6 DEF Snapshots
<1> QED BY <1>1, <1>5, <1>6

(* A base is an empty snapshot or the file. *)
LEMMA Base ==
  ASSUME TelemetryInv, NEW p \in Processes, loop[p].at = "write"
  PROVE  /\ loop[p].base \in Snapshots
         /\ loop[p].base = IF file.rev = loop[p].rev THEN file ELSE NoSnapshot
         /\ FileTells(loop[p].base)
         /\ sweeps > 0 /\ sweeps \in Nat
         /\ loop[p].n > 0 => loop[p].outcome = "success"
<1>1. /\ loop[p].base = IF file.rev = loop[p].rev THEN file ELSE NoSnapshot
      /\ sweeps > 0 /\ (loop[p].n > 0 => loop[p].outcome = "success")
  BY LoopType DEF WorkerKnows, LoadedBy
<1>2. file \in Snapshots /\ FileTells(file) /\ sweeps \in Nat
  BY DEF TelemetryInv, TelemetryTypeOK
<1>3. FileTells(NoSnapshot)
  BY <1>2, EmptyRows DEF FileTells
<1> QED BY <1>1, <1>2, <1>3, EmptyRows

LEMMA ReplaceKeeps ==
  ASSUME TelemetryInv, NEW p \in Processes, ReplaceFile(p)
  PROVE  TelemetryInv'
<1>1. /\ loop[p].at = "write" /\ file' = Payload(p) /\ UNCHANGED <<sweeps, done>>
      /\ flock' = IF flock = p THEN NULL ELSE flock
  BY DEF ReplaceFile, EndPublish
<1>2. PICK r \in Revisions : r = loop[p].rev
  BY <1>1, Running
<1>3. PICK n \in Nat : n = loop[p].n
  BY <1>1, Running
<1>4. PICK base \in Snapshots : base = loop[p].base
  BY <1>1, Base
<1>5. PICK row : /\ row = Down \/ row = [Down EXCEPT !.at = "sweep", !.rev = r]
                 /\ Move(p, row)
  <2>1. Move(p, IF loop[p].outcome = "failure" THEN Down
                ELSE [Down EXCEPT !.at = "sweep", !.rev = r])
    BY <1>2 DEF ReplaceFile, EndPublish
  <2> QED BY <2>1
<1>6. lost' \in [Revisions -> Nat]
  <2>1. PICK f \in Snapshots : f = file
    BY DEF TelemetryInv, TelemetryTypeOK
  <2>2. f.rev \in Revisions \cup {NULL} /\ f.expired \in Nat
    BY SnapshotFields
  <2>3. lost' = IF f.rev \in {NULL, loop[p].rev} THEN lost
                ELSE [lost EXCEPT ![f.rev] = @ + f.expired]
    BY <2>1 DEF ReplaceFile
  <2>4. CASE f.rev \in Revisions
    <3>1. lost' = lost \/ lost' = [lost EXCEPT ![f.rev] = @ + f.expired]
      BY <2>3
    <3> QED BY <2>2, <2>4, <3>1, Losing
  <2>5. CASE f.rev = NULL
    BY <2>3, <2>5 DEF TelemetryInv, TelemetryTypeOK
  <2> QED BY <2>2, <2>4, <2>5
<1>7. file' \in Snapshots
  BY <1>1, <1>2, <1>3, <1>4, WrittenFile
<1>8. FileTells(file)'
  <2>1. PICK new \in Snapshots : new = Payload(p)
    BY <1>1, <1>2, <1>3, <1>4, WrittenFile
  <2>2. /\ new.success = base.success + (IF loop[p].outcome = "success" THEN 1 ELSE 0)
        /\ new.lastSuccess = IF loop[p].outcome = "success" THEN sweeps ELSE base.lastSuccess
        /\ new.lastFailure = IF loop[p].outcome = "failure" THEN sweeps ELSE base.lastFailure
    BY <1>1, <1>2, <1>3, <1>4, <2>1, WrittenFile
  <2>3. /\ base.lastSuccess <= sweeps /\ base.lastFailure <= sweeps
        /\ base.lastSuccess > 0 <=> base.success > 0
        /\ sweeps > 0 /\ sweeps \in Nat
    BY <1>1, <1>4, Base DEF FileTells
  <2>4. base.success \in Nat /\ base.lastSuccess \in Nat /\ base.lastFailure \in Nat
    BY SnapshotFields
  <2>5. /\ new.lastSuccess <= sweeps /\ new.lastFailure <= sweeps
        /\ new.lastSuccess > 0 <=> new.success > 0
    BY <2>2, <2>3, <2>4
  <2>6. file' = new /\ sweeps' = sweeps
    BY <1>1, <2>1
  <2> QED BY <2>5, <2>6 DEF FileTells
<1>9. loop[p].at = "write" /\ r = loop[p].rev
  BY <1>1, <1>2
<1> QED BY <1>1, <1>5, <1>6, <1>7, <1>8, <1>9, LoopEnds

LEMMA RemoveKeeps ==
  ASSUME TelemetryInv, RemoveFile
  PROVE  TelemetryInv'
<1>1. PICK f \in Snapshots : f = file
  BY DEF TelemetryInv, TelemetryTypeOK
<1>2. /\ f.rev # NULL /\ \A p \in Processes : loop[p].at = "down"
      /\ lost' = [lost EXCEPT ![f.rev] = @ + f.expired]
      /\ file' = NoSnapshot /\ UNCHANGED <<flock, loop, sweeps, done>>
  BY <1>1 DEF RemoveFile
<1>3. lost' \in [Revisions -> Nat]
  <2>1. f.rev \in Revisions /\ f.expired \in Nat
    BY <1>2, SnapshotFields
  <2> QED BY <1>2, <2>1, Losing
<1>4. sweeps \in Nat /\ sweeps' = sweeps
  BY <1>2 DEF TelemetryInv, TelemetryTypeOK
<1>5. FileTells(file)'
  BY <1>2, <1>4, EmptyRows DEF FileTells
<1>6. ASSUME NEW p \in Processes PROVE WorkerKnows(p)'
  <2>1. PICK w \in WorkerLocals : w = loop[p]
    BY LoopType
  <2>2. loop'[p] = w /\ w.at = "down" /\ (w.n > 0 => w.outcome = "success")
    BY <1>2, <2>1, LoopType DEF WorkerKnows
  <2> QED BY <2>2 DEF WorkerKnows
<1> QED BY <1>2, <1>3, <1>5, <1>6, EmptyRows DEF TelemetryInv, TelemetryTypeOK
-------------------------------------------------------------------------------

LEMMA TelemetryStarts == TelemetryInit => TelemetryInv
<1> SUFFICES ASSUME TelemetryInit PROVE TelemetryInv
  OBVIOUS
<1>1. /\ file = NoSnapshot /\ flock = NULL /\ loop = [p \in Processes |-> Down] /\ sweeps = 0
      /\ done = [r \in Revisions |-> 0] /\ lost = [r \in Revisions |-> 0]
  BY DEF TelemetryInit
<1>2. TelemetryTypeOK
  BY <1>1, EmptyRows DEF TelemetryTypeOK
<1>3. ASSUME NEW p \in Processes PROVE WorkerKnows(p)
  <2>1. loop[p] = Down
    BY <1>1
  <2> QED BY <2>1, EmptyRows DEF WorkerKnows
<1>4. FileTells(file)
  BY <1>1, EmptyRows DEF FileTells
<1> QED BY <1>2, <1>3, <1>4 DEF TelemetryInv

LEMMA TelemetrySteps == TelemetryInv /\ [TelemetryNext]_telemetryVars => TelemetryInv'
<1> SUFFICES ASSUME TelemetryInv, [TelemetryNext]_telemetryVars PROVE TelemetryInv'
  OBVIOUS
<1>1. CASE UNCHANGED telemetryVars
  BY <1>1 DEF telemetryVars, TelemetryInv, TelemetryTypeOK, WorkerKnows, LoadedBy, FileTells
<1>2. CASE RemoveFile
  BY <1>2, RemoveKeeps
<1>3. ASSUME NEW p \in Processes, ProcessStep(p) PROVE TelemetryInv'
  <2>1. CASE \E r \in Revisions : StartWorker(p, r)
    BY <2>1, StartKeeps
  <2>2. CASE \E n \in 0..BatchSize : Expire(p, n) \/ FailSweep(p, n)
    BY <2>2, SweepKeeps
  <2>3. CASE LockFile(p)
    BY <2>3, LockFileKeeps
  <2>4. CASE LoadFile(p)
    BY <2>4, LoadFileKeeps
  <2>5. CASE ReplaceFile(p)
    BY <2>5, ReplaceKeeps
  <2>6. CASE PublishFails(p)
    BY <2>6, PublishFailsKeeps
  <2>7. CASE KillWorker(p)
    BY <2>7, KillKeeps
  <2> QED BY <1>3, <2>1, <2>2, <2>3, <2>4, <2>5, <2>6, <2>7 DEF ProcessStep
<1> QED BY <1>1, <1>2, <1>3 DEF TelemetryNext

(* The inductive invariant of the workers: only the one with the lock file *)
(* is between its reading and its writing of the state file, and what it   *)
(* has read is what the file holds.                                        *)
THEOREM TelemetryAlways == TelemetrySpec => []TelemetryInv
<1>1. TelemetryInit => TelemetryInv
  BY TelemetryStarts
<1>2. TelemetryInv /\ [TelemetryNext]_telemetryVars => TelemetryInv'
  BY TelemetrySteps
<1> QED BY <1>1, <1>2, PTL DEF TelemetrySpec

LEMMA WritesGrow == TelemetryInv /\ [TelemetryNext]_telemetryVars => [GrowingWrite]_file
<1> SUFFICES ASSUME TelemetryInv, TelemetryNext, file' # file, file'.rev = file.rev
             PROVE  /\ file'.success + file'.failure = file.success + file.failure + 1
                    /\ file'.expired > file.expired => file'.success > file.success
                    /\ file'.expired >= file.expired
                    /\ file'.lastSuccess >= file.lastSuccess
                    /\ file'.lastFailure >= file.lastFailure
                    /\ file'.lastSuccess > 0 <=> file'.success > 0
  BY DEF GrowingWrite, telemetryVars
<1>1. ~RemoveFile
  BY EmptyRows DEF RemoveFile
<1>2. PICK p \in Processes : ReplaceFile(p)
  BY <1>1 DEF TelemetryNext, ProcessStep, StartWorker, Expire, FailSweep, LockFile, LoadFile,
              PublishFails, KillWorker
<1>3. loop[p].at = "write" /\ file' = Payload(p)
  BY <1>2 DEF ReplaceFile
<1>4. PICK r \in Revisions : r = loop[p].rev
  BY <1>3, Running
<1>5. PICK n \in Nat : n = loop[p].n
  BY <1>3, Running
<1>6. PICK base \in Snapshots : base = loop[p].base
  BY <1>3, Base
<1>7. PICK new \in Snapshots : new = Payload(p)
  BY <1>3, <1>4, <1>5, <1>6, WrittenFile
<1>8. base = file
  BY <1>3, <1>4, <1>5, <1>6, Base, WrittenFile
<1>9. PICK outcome \in {"success", "failure"} : outcome = loop[p].outcome
  BY LoopType, WorkerFields
<1>10. /\ new.success + new.failure = base.success + base.failure + 1
       /\ new.success = base.success + (IF outcome = "success" THEN 1 ELSE 0)
       /\ new.expired = base.expired + n
       /\ new.lastSuccess = IF outcome = "success" THEN sweeps ELSE base.lastSuccess
       /\ new.lastFailure = IF outcome = "failure" THEN sweeps ELSE base.lastFailure
  BY <1>3, <1>4, <1>5, <1>6, <1>7, <1>9, WrittenFile
<1>11. /\ base.lastSuccess <= sweeps /\ base.lastFailure <= sweeps
       /\ base.lastSuccess > 0 <=> base.success > 0
       /\ sweeps > 0 /\ sweeps \in Nat
       /\ n > 0 => outcome = "success"
  BY <1>3, <1>5, <1>6, <1>9, Base DEF FileTells
<1>12. /\ base.success \in Nat /\ base.failure \in Nat /\ base.expired \in Nat
       /\ base.lastSuccess \in Nat /\ base.lastFailure \in Nat
  BY SnapshotFields
<1>13. /\ new.expired > base.expired => new.success > base.success
       /\ new.expired >= base.expired
       /\ new.lastSuccess >= base.lastSuccess
       /\ new.lastFailure >= base.lastFailure
       /\ new.lastSuccess > 0 <=> new.success > 0
  BY <1>10, <1>11, <1>12
<1> QED BY <1>3, <1>7, <1>8, <1>10, <1>13

(* A write that leaves the file's revision as it is lowers no counter and  *)
(* no time and counts one loop, for any number of workers, images, crashes *)
(* and failed writes; a worker of another image starts from nothing.       *)
THEOREM CountersOnlyGrow == TelemetrySpec => CountersGrow
<1>1. TelemetryInv /\ [TelemetryNext]_telemetryVars => [GrowingWrite]_file
  BY WritesGrow
<1> QED BY <1>1, TelemetryAlways, PTL DEF TelemetrySpec, CountersGrow

(***************************************************************************)
(* The balance of the leases ended, published, lost, and held by workers:  *)
(* a step of one worker moves what it holds.                               *)
(***************************************************************************)
HeldBy(w, r) == IF w.rev = r THEN w.n ELSE 0

PendingIn(l, r) == {x \in Processes \X (1..BatchSize) : l[x[1]].rev = r /\ x[2] <= l[x[1]].n}
PendingElse(l, p, r) == {x \in PendingIn(l, r) : x[1] # p}

LEMMA OwnPending ==
  ASSUME NEW p, NEW n \in Nat
  PROVE  IsFiniteSet({p} \X (1..n)) /\ Cardinality({p} \X (1..n)) = n
<1>1. IsFiniteSet({p}) /\ Cardinality({p}) = 1
  BY FS_Singleton
<1>2. IsFiniteSet(1..n) /\ Cardinality(1..n) = n
  BY FS_Interval
<1>3. /\ IsFiniteSet({p} \X (1..n))
      /\ Cardinality({p} \X (1..n)) = Cardinality({p}) * Cardinality(1..n)
  BY <1>1, <1>2, FS_Product
<1> QED BY <1>1, <1>2, <1>3

LEMMA PendingSplit ==
  ASSUME NEW l \in [Processes -> WorkerLocals], NEW p \in Processes, NEW r
  PROVE  /\ IsFiniteSet(PendingIn(l, r)) /\ Cardinality(PendingIn(l, r)) \in Nat
         /\ Cardinality(PendingElse(l, p, r)) \in Nat
         /\ HeldBy(l[p], r) \in Nat
         /\ Cardinality(PendingIn(l, r))
              = Cardinality(PendingElse(l, p, r)) + HeldBy(l[p], r)
<1> DEFINE all == PendingIn(l, r)
           rest == PendingElse(l, p, r)
           n == HeldBy(l[p], r)
           own == {p} \X (1..n)
<1>1. BatchSize \in Nat
  BY TelemetryAssumption
<1>2. l[p].n \in 0..BatchSize
  BY WorkerFields
<1>3. n \in Nat /\ n <= BatchSize /\ (l[p].rev = r => n = l[p].n) /\ (l[p].rev # r => n = 0)
  BY <1>1, <1>2 DEF HeldBy
<1>4. IsFiniteSet(Processes \X (1..BatchSize))
  <2>1. IsFiniteSet(1..BatchSize)
    BY <1>1, FS_Interval
  <2> QED BY <2>1, TelemetryAssumption, FS_Product
<1>5. IsFiniteSet(all) /\ IsFiniteSet(rest)
  <2>1. all \in SUBSET (Processes \X (1..BatchSize))
    BY DEF PendingIn
  <2>2. IsFiniteSet(all)
    BY <1>4, <2>1, FS_Subset
  <2>3. rest \in SUBSET all
    BY DEF PendingElse
  <2> QED BY <2>2, <2>3, FS_Subset
<1> HIDE DEF n
<1>6. IsFiniteSet(own) /\ Cardinality(own) = n
  BY <1>3, OwnPending
<1>7. all = rest \cup own
  <2>1. ASSUME NEW x \in all, x[1] = p PROVE x \in own
    <3>1. /\ x \in Processes \X (1..BatchSize)
          /\ l[p].rev = r /\ x[2] <= l[p].n
      BY <2>1 DEF PendingIn
    <3>2. x[2] \in 1..n /\ x = <<p, x[2]>>
      BY <1>1, <1>3, <2>1, <3>1
    <3> QED BY <3>2
  <2>2. ASSUME NEW k \in 1..n PROVE <<p, k>> \in all
    <3>1. k \in 1..BatchSize /\ l[p].rev = r /\ k <= l[p].n
      BY <1>1, <1>3, <2>2
    <3> QED BY <3>1 DEF PendingIn
  <2>3. own \subseteq all
    BY <2>2
  <2>4. \A x \in all : x \in rest \/ x[1] = p
    BY DEF PendingElse
  <2>5. rest \subseteq all
    BY DEF PendingElse
  <2> QED BY <2>1, <2>3, <2>4, <2>5
<1>8. rest \cap own = {}
  BY DEF PendingElse
<1> HIDE DEF all, rest, own
<1>9. /\ Cardinality(rest \cup own)
           = Cardinality(rest) + Cardinality(own) - Cardinality(rest \cap own)
  BY <1>5, <1>6, FS_Union
<1>10. Cardinality(rest \cap own) = 0
  BY <1>8, FS_EmptySet
<1>11. Cardinality(all) \in Nat /\ Cardinality(rest) \in Nat
  BY <1>5, FS_CardinalityType
<1>12. Cardinality(all) = Cardinality(rest) + n
  BY <1>3, <1>6, <1>7, <1>9, <1>10, <1>11
<1> QED BY <1>3, <1>5, <1>11, <1>12 DEF all, rest, n

LEMMA PendingMoves ==
  ASSUME TelemetryTypeOK, NEW p \in Processes, NEW row \in WorkerLocals, Move(p, row),
         NEW r \in Revisions
  PROVE  /\ Unpublished(r) \in Nat /\ Unpublished(r)' \in Nat
         /\ HeldBy(loop[p], r) \in Nat /\ HeldBy(row, r) \in Nat
         /\ Unpublished(r)' + HeldBy(loop[p], r) = Unpublished(r) + HeldBy(row, r)
<1>1. PICK l \in [Processes -> WorkerLocals] : l = loop
  BY DEF TelemetryTypeOK
<1>2. PICK m : m = [l EXCEPT ![p] = row]
  OBVIOUS
<1>3. m \in [Processes -> WorkerLocals] /\ m[p] = row /\ \A o \in Processes \ {p} : m[o] = l[o]
  BY <1>2
<1>4. Unpublished(r) = Cardinality(PendingIn(l, r)) /\ loop' = m
  BY <1>1, <1>2 DEF Unpublished, Pending, PendingIn, Move
<1>5. Unpublished(r)' = Cardinality(PendingIn(m, r))
  BY <1>4 DEF Unpublished, Pending, PendingIn
<1>6. PendingElse(l, p, r) = PendingElse(m, p, r)
  BY <1>3 DEF PendingElse, PendingIn
<1>7. /\ Cardinality(PendingIn(l, r)) \in Nat /\ HeldBy(l[p], r) \in Nat
      /\ Cardinality(PendingElse(l, p, r)) \in Nat
      /\ Cardinality(PendingIn(l, r)) = Cardinality(PendingElse(l, p, r)) + HeldBy(l[p], r)
  BY PendingSplit
<1>8. /\ Cardinality(PendingIn(m, r)) \in Nat /\ HeldBy(m[p], r) \in Nat
      /\ Cardinality(PendingIn(m, r)) = Cardinality(PendingElse(m, p, r)) + HeldBy(m[p], r)
  BY <1>3, PendingSplit
<1>9. HeldBy(loop[p], r) = HeldBy(l[p], r) /\ HeldBy(row, r) = HeldBy(m[p], r)
  BY <1>1, <1>3
<1> QED BY <1>4, <1>5, <1>6, <1>7, <1>8, <1>9

Told(r) == LoadedBy(r).expired

(* A worker between two sweeps holds nothing. *)
Rested(p) == loop[p].at \in {"down", "sweep"} => loop[p].n = 0

BalanceInv == EveryExpirationCounted /\ \A p \in Processes : Rested(p)

LEMMA BalanceTypes ==
  ASSUME TelemetryTypeOK, NEW r \in Revisions
  PROVE  Told(r) \in Nat /\ lost[r] \in Nat /\ done[r] \in Nat
<1>1. PICK f \in Snapshots : f = LoadedBy(r)
  BY EmptyRows DEF LoadedBy, TelemetryTypeOK
<1> QED BY <1>1, SnapshotFields DEF Told, TelemetryTypeOK

LEMMA Balanced ==
  ASSUME TelemetryTypeOK, TelemetryTypeOK', BalanceInv, NEW p \in Processes,
         NEW row \in WorkerLocals, Move(p, row), row.at \in {"down", "sweep"} => row.n = 0,
         \A r \in Revisions : Told(r)' + HeldBy(row, r) + lost'[r] + done[r]
                                = Told(r) + HeldBy(loop[p], r) + lost[r] + done'[r]
  PROVE  BalanceInv'
<1>1. ASSUME NEW r \in Revisions
      PROVE  LoadedBy(r)'.expired + Unpublished(r)' + lost'[r] = done'[r]
  <2> DEFINE told == Told(r)
             told1 == Told(r)'
             held == HeldBy(loop[p], r)
             held1 == HeldBy(row, r)
             kept == Unpublished(r)
             kept1 == Unpublished(r)'
             gone == lost[r]
             gone1 == lost'[r]
             ended == done[r]
             ended1 == done'[r]
  <2>1. told \in Nat /\ gone \in Nat /\ ended \in Nat
    BY BalanceTypes
  <2>2. told1 \in Nat
    <3>1. PICK f \in Snapshots : f = LoadedBy(r)'
      BY EmptyRows DEF LoadedBy, TelemetryTypeOK
    <3> QED BY <3>1, SnapshotFields DEF Told
  <2>3. gone1 \in Nat /\ ended1 \in Nat
    BY DEF TelemetryTypeOK
  <2>4. /\ kept \in Nat /\ kept1 \in Nat /\ held \in Nat /\ held1 \in Nat
        /\ kept1 + held = kept + held1
    BY PendingMoves
  <2>5. told + kept + gone = ended
    BY DEF BalanceInv, EveryExpirationCounted, Told
  <2>6. told1 + held1 + gone1 + ended = told + held + gone + ended1
    OBVIOUS
  <2> HIDE DEF told, told1, held, held1, kept, kept1, gone, gone1, ended, ended1
  <2>7. told1 + kept1 + gone1 = ended1
    BY <2>1, <2>2, <2>3, <2>4, <2>5, <2>6
  <2> QED BY <2>7 DEF told1, kept1, gone1, ended1, Told
<1>2. EveryExpirationCounted'
  BY <1>1 DEF EveryExpirationCounted
<1>3. ASSUME NEW o \in Processes PROVE Rested(o)'
  <2>1. loop'[o] = IF o = p THEN row ELSE loop[o]
    BY DEF Move, TelemetryTypeOK
  <2> QED BY <2>1 DEF BalanceInv, Rested
<1> QED BY <1>2, <1>3 DEF BalanceInv

LEMMA BalanceStarts == TelemetryInit => BalanceInv
<1> SUFFICES ASSUME TelemetryInit PROVE BalanceInv
  OBVIOUS
<1>1. /\ file = NoSnapshot /\ loop = [p \in Processes |-> Down]
      /\ done = [r \in Revisions |-> 0] /\ lost = [r \in Revisions |-> 0]
  BY DEF TelemetryInit
<1>2. \A p \in Processes : loop[p].n = 0
  BY <1>1, EmptyRows
<1>3. \A p \in Processes : Rested(p)
  BY <1>2 DEF Rested
<1>4. ASSUME NEW r \in Revisions PROVE LoadedBy(r).expired + Unpublished(r) + lost[r] = done[r]
  <2>1. Pending(r) = {}
    <3>1. \A x \in Processes \X (1..BatchSize) : ~(x[2] <= loop[x[1]].n)
      BY <1>2, TelemetryAssumption
    <3> QED BY <3>1 DEF Pending
  <2>2. Unpublished(r) = 0
    BY <2>1, FS_EmptySet DEF Unpublished
  <2>3. LoadedBy(r).expired = 0 /\ lost[r] = 0 /\ done[r] = 0
    BY <1>1, EmptyRows DEF LoadedBy
  <2> QED BY <2>2, <2>3
<1> QED BY <1>3, <1>4 DEF BalanceInv, EveryExpirationCounted

(* A step that changes neither the file nor a count moves nothing. *)
LEMMA BalanceRests ==
  ASSUME TelemetryInv, TelemetryTypeOK', BalanceInv, NEW p \in Processes,
         NEW row \in WorkerLocals, Move(p, row), row.rev = loop[p].rev \/ loop[p].n = 0,
         row.n = loop[p].n, row.at \in {"down", "sweep"} => row.n = 0,
         UNCHANGED <<file, done, lost>>
  PROVE  BalanceInv'
<1>1. ASSUME NEW r \in Revisions
      PROVE  Told(r)' + HeldBy(row, r) + lost'[r] + done[r]
               = Told(r) + HeldBy(loop[p], r) + lost[r] + done'[r]
  <2>1. Told(r)' = Told(r) /\ lost'[r] = lost[r] /\ done'[r] = done[r]
    BY DEF Told, LoadedBy
  <2>2. HeldBy(row, r) = HeldBy(loop[p], r)
    BY DEF HeldBy
  <2> QED BY <2>1, <2>2
<1> QED BY <1>1, Balanced DEF TelemetryInv

LEMMA StartBalances ==
  ASSUME TelemetryInv, TelemetryTypeOK', BalanceInv, NEW p \in Processes,
         NEW r \in Revisions, StartWorker(p, r)
  PROVE  BalanceInv'
<1>1. PICK row : row = [Down EXCEPT !.at = "sweep", !.rev = r]
  OBVIOUS
<1>2. loop[p].at = "down" /\ Move(p, row) /\ UNCHANGED <<file, done, lost>>
  BY <1>1 DEF StartWorker
<1>3. row \in WorkerLocals /\ row.n = 0
  BY <1>1, Idle
<1>4. loop[p].n = 0
  BY <1>2 DEF BalanceInv, Rested
<1> QED BY <1>2, <1>3, <1>4, BalanceRests

LEMMA LockedBalances ==
  ASSUME TelemetryInv, TelemetryTypeOK', BalanceInv, NEW p \in Processes,
         LockFile(p) \/ LoadFile(p)
  PROVE  BalanceInv'
<1>1. PICK w \in WorkerLocals : w = loop[p]
  BY LoopType
<1>2. PICK base \in Snapshots, at \in {"load", "write"} :
        Move(p, [w EXCEPT !.at = at, !.base = base])
  <2>1. CASE LockFile(p)
    <3>1. Move(p, [w EXCEPT !.at = "load"])
      BY <1>1, <2>1 DEF LockFile
    <3>2. [w EXCEPT !.at = "load"] = [w EXCEPT !.at = "load", !.base = w.base]
      BY DEF WorkerLocals
    <3>3. w.base \in Snapshots
      BY WorkerFields
    <3> QED BY <3>1, <3>2, <3>3
  <2>2. CASE LoadFile(p)
    <3>1. Move(p, [w EXCEPT !.at = "write", !.base = LoadedBy(w.rev)])
      BY <1>1, <2>2 DEF LoadFile
    <3>2. LoadedBy(w.rev) \in Snapshots
      BY EmptyRows DEF LoadedBy, TelemetryInv, TelemetryTypeOK
    <3> QED BY <3>1, <3>2
  <2> QED BY <2>1, <2>2
<1>3. PICK row : row = [w EXCEPT !.at = at, !.base = base]
  OBVIOUS
<1>4. row \in WorkerLocals /\ row.rev = w.rev /\ row.n = w.n /\ row.at \in {"load", "write"}
  BY <1>3 DEF WorkerLocals
<1>5. UNCHANGED <<file, done, lost>>
  BY DEF LockFile, LoadFile
<1> QED BY <1>1, <1>2, <1>3, <1>4, <1>5, BalanceRests

(* The ended leases are in the hands of the worker that has ended them, or *)
(* lost if it does not know that they have ended.                          *)
LEMMA SweepBalances ==
  ASSUME TelemetryInv, TelemetryTypeOK', BalanceInv, NEW p \in Processes,
         NEW n \in 0..BatchSize, Expire(p, n) \/ FailSweep(p, n)
  PROVE  BalanceInv'
<1>1. PICK w \in WorkerLocals : w = loop[p]
  BY LoopType
<1>2. w.at = "sweep" /\ UNCHANGED file
  BY <1>1 DEF Expire, FailSweep
<1>3. w.rev \in Revisions /\ w.n = 0
  BY <1>1, <1>2, Running DEF BalanceInv, Rested
<1>4. n \in Nat
  BY TelemetryAssumption
<1>5. done \in [Revisions -> Nat] /\ lost \in [Revisions -> Nat]
  BY DEF TelemetryInv, TelemetryTypeOK
<1>6. PICK outcome \in {"success", "failure"}, told \in Nat, untold \in Nat :
        /\ told \in 0..BatchSize /\ told + untold = n
        /\ Move(p, [w EXCEPT !.at = "lock", !.outcome = outcome, !.n = told])
        /\ lost' = [lost EXCEPT ![w.rev] = @ + untold]
  <2>1. CASE Expire(p, n)
    <3>1. Move(p, [w EXCEPT !.at = "lock", !.outcome = "success", !.n = n])
      BY <1>1, <2>1 DEF Expire
    <3>2. lost' = [lost EXCEPT ![w.rev] = @ + 0]
      BY <1>3, <1>5, <2>1 DEF Expire
    <3>3. n + 0 = n
      BY <1>4
    <3> QED BY <1>4, <3>1, <3>2, <3>3
  <2>2. CASE FailSweep(p, n)
    <3>1. Move(p, [w EXCEPT !.at = "lock", !.outcome = "failure", !.n = 0])
      BY <1>1, <2>2 DEF FailSweep
    <3>2. lost' = [lost EXCEPT ![w.rev] = @ + n]
      BY <1>1, <2>2 DEF FailSweep
    <3>3. 0 + n = n /\ 0 \in 0..BatchSize
      BY <1>4, TelemetryAssumption
    <3> QED BY <1>4, <3>1, <3>2, <3>3
  <2> QED BY <2>1, <2>2
<1>7. \A r \in Revisions :
        /\ done'[r] = IF r = w.rev THEN done[r] + n ELSE done[r]
        /\ lost'[r] = IF r = w.rev THEN lost[r] + untold ELSE lost[r]
  <2>1. done' = [done EXCEPT ![w.rev] = @ + n]
    BY <1>1 DEF Expire, FailSweep
  <2> QED BY <1>5, <1>6, <2>1
<1>8. PICK row : row = [w EXCEPT !.at = "lock", !.outcome = outcome, !.n = told]
  OBVIOUS
<1>9. row \in WorkerLocals /\ row.rev = w.rev /\ row.n = told /\ row.at = "lock"
  BY <1>6, <1>8 DEF WorkerLocals
<1>10. ASSUME NEW r \in Revisions
       PROVE  Told(r)' + HeldBy(row, r) + lost'[r] + done[r]
                = Told(r) + HeldBy(loop[p], r) + lost[r] + done'[r]
  <2>1. Told(r)' = Told(r)
    BY <1>2 DEF Told, LoadedBy
  <2>2. Told(r) \in Nat /\ lost[r] \in Nat /\ done[r] \in Nat
    BY BalanceTypes DEF TelemetryInv
  <2>3. HeldBy(loop[p], r) = 0
    BY <1>1, <1>3 DEF HeldBy
  <2>4. HeldBy(row, r) = IF r = w.rev THEN told ELSE 0
    BY <1>9 DEF HeldBy
  <2> QED BY <1>4, <1>6, <1>7, <2>1, <2>2, <2>3, <2>4
<1> QED BY <1>6, <1>8, <1>9, <1>10, Balanced DEF TelemetryInv

(* What a worker holds when it is killed or cannot write is lost. *)
LEMMA LosingBalances ==
  ASSUME TelemetryInv, TelemetryTypeOK', BalanceInv, NEW p \in Processes,
         PublishFails(p) \/ KillWorker(p)
  PROVE  BalanceInv'
<1>1. loop[p].at # "down" /\ UNCHANGED <<file, done>>
  BY DEF PublishFails, KillWorker, EndPublish
<1>2. PICK n \in Nat : n = loop[p].n
  BY <1>1, Running
<1>3. PICK r \in Revisions : r = loop[p].rev
  BY <1>1, Running
<1>4. lost' = [lost EXCEPT ![r] = @ + n] /\ lost \in [Revisions -> Nat]
  BY <1>2, <1>3 DEF PublishFails, KillWorker, TelemetryInv, TelemetryTypeOK
<1>5. PICK row : /\ row = Down \/ row = [Down EXCEPT !.at = "sweep", !.rev = r]
                 /\ Move(p, row)
  <2>1. \/ Move(p, Down)
        \/ Move(p, IF loop[p].outcome = "failure" THEN Down
                   ELSE [Down EXCEPT !.at = "sweep", !.rev = r])
    BY <1>3 DEF PublishFails, EndPublish, KillWorker
  <2> QED BY <2>1
<1>6. row \in WorkerLocals /\ row.n = 0
  BY <1>5, Idle
<1>7. ASSUME NEW q \in Revisions
      PROVE  Told(q)' + HeldBy(row, q) + lost'[q] + done[q]
               = Told(q) + HeldBy(loop[p], q) + lost[q] + done'[q]
  <2>1. Told(q)' = Told(q) /\ done'[q] = done[q]
    BY <1>1 DEF Told, LoadedBy
  <2>2. Told(q) \in Nat /\ lost[q] \in Nat /\ done[q] \in Nat
    BY BalanceTypes DEF TelemetryInv
  <2>3. HeldBy(row, q) = 0
    BY <1>6 DEF HeldBy
  <2>4. HeldBy(loop[p], q) = IF q = r THEN n ELSE 0
    BY <1>2, <1>3 DEF HeldBy
  <2>5. lost'[q] = IF q = r THEN lost[q] + n ELSE lost[q]
    BY <1>4
  <2> QED BY <1>2, <2>1, <2>2, <2>3, <2>4, <2>5
<1> QED BY <1>5, <1>6, <1>7, Balanced DEF TelemetryInv

(* A worker adds what it holds to what its image has published; what       *)
(* another image has published is lost.                                    *)
LEMMA ReplaceBalances ==
  ASSUME TelemetryInv, TelemetryTypeOK', BalanceInv, NEW p \in Processes, ReplaceFile(p)
  PROVE  BalanceInv'
<1>1. loop[p].at = "write" /\ file' = Payload(p) /\ UNCHANGED done
  BY DEF ReplaceFile, EndPublish
<1>2. PICK n \in Nat : n = loop[p].n
  BY <1>1, Running
<1>3. PICK r \in Revisions : r = loop[p].rev
  BY <1>1, Running
<1>4. PICK base \in Snapshots : base = loop[p].base
  BY <1>1, Base
<1>5. base = LoadedBy(r)
  BY <1>1, <1>3, <1>4, Base DEF LoadedBy
<1>6. file'.rev = r /\ file'.expired = base.expired + n
  BY <1>1, <1>2, <1>3, <1>4, WrittenFile
<1>7. PICK row : /\ row = Down \/ row = [Down EXCEPT !.at = "sweep", !.rev = r]
                 /\ Move(p, row)
  <2>1. Move(p, IF loop[p].outcome = "failure" THEN Down
                ELSE [Down EXCEPT !.at = "sweep", !.rev = r])
    BY <1>3 DEF ReplaceFile, EndPublish
  <2> QED BY <2>1
<1>8. row \in WorkerLocals /\ row.n = 0
  BY <1>7, Idle
<1>9. PICK f \in Snapshots : f = file
  BY DEF TelemetryInv, TelemetryTypeOK
<1>10. /\ lost \in [Revisions -> Nat] /\ f.expired \in Nat
       /\ lost' = IF f.rev \in {NULL, r} THEN lost ELSE [lost EXCEPT ![f.rev] = @ + f.expired]
  BY <1>3, <1>9, SnapshotFields DEF ReplaceFile, TelemetryInv, TelemetryTypeOK
<1>11. r # NULL
  BY TelemetryAssumption
<1>12. ASSUME NEW q \in Revisions
       PROVE  Told(q)' + HeldBy(row, q) + lost'[q] + done[q]
                = Told(q) + HeldBy(loop[p], q) + lost[q] + done'[q]
  <2>1. HeldBy(row, q) = 0
    BY <1>8 DEF HeldBy
  <2>2. HeldBy(loop[p], q) = IF q = r THEN n ELSE 0
    BY <1>2, <1>3 DEF HeldBy
  <2>3. Told(q) \in Nat /\ lost[q] \in Nat /\ done[q] \in Nat /\ done'[q] = done[q]
    BY <1>1, BalanceTypes DEF TelemetryInv
  <2>4. CASE q = r
    <3>1. Told(q)' = Told(q) + n
      BY <1>5, <1>6, <2>4 DEF Told, LoadedBy
    <3>2. lost'[q] = lost[q]
      BY <1>10, <2>4
    <3> QED BY <1>2, <2>1, <2>2, <2>3, <2>4, <3>1, <3>2
  <2>5. CASE q # r
    <3>1. Told(q)' = 0
      BY <1>6, <2>5, EmptyRows DEF Told, LoadedBy
    <3>2. Told(q) = IF f.rev = q THEN f.expired ELSE 0
      BY <1>9, EmptyRows DEF Told, LoadedBy
    <3>3. lost'[q] = IF f.rev = q THEN lost[q] + f.expired ELSE lost[q]
      BY <1>10, <2>5, TelemetryAssumption
    <3> QED BY <1>10, <2>1, <2>2, <2>3, <2>5, <3>1, <3>2, <3>3
  <2> QED BY <2>4, <2>5
<1> QED BY <1>7, <1>8, <1>12, Balanced DEF TelemetryInv

LEMMA RemoveBalances ==
  ASSUME TelemetryInv, BalanceInv, RemoveFile
  PROVE  BalanceInv'
<1>1. PICK f \in Snapshots : f = file
  BY DEF TelemetryInv, TelemetryTypeOK
<1>2. /\ f.rev # NULL /\ lost' = [lost EXCEPT ![f.rev] = @ + f.expired]
      /\ file' = NoSnapshot /\ UNCHANGED <<loop, done>>
  BY <1>1 DEF RemoveFile
<1>3. f.expired \in Nat /\ lost \in [Revisions -> Nat]
  BY SnapshotFields DEF TelemetryInv, TelemetryTypeOK
<1>4. ASSUME NEW r \in Revisions
      PROVE  LoadedBy(r)'.expired + Unpublished(r)' + lost'[r] = done'[r]
  <2>1. Told(r) + Unpublished(r) + lost[r] = done[r]
    BY DEF BalanceInv, EveryExpirationCounted, Told
  <2>2. Unpublished(r)' = Unpublished(r) /\ done'[r] = done[r]
    BY <1>2 DEF Unpublished, Pending
  <2>3. LoadedBy(r)'.expired = 0
    BY <1>2, EmptyRows DEF LoadedBy
  <2>4. Told(r) = IF f.rev = r THEN f.expired ELSE 0
    BY <1>1, EmptyRows DEF Told, LoadedBy
  <2>5. lost'[r] = IF f.rev = r THEN lost[r] + f.expired ELSE lost[r]
    BY <1>2, <1>3
  <2>6. Unpublished(r) \in Nat /\ lost[r] \in Nat
    <3>1. PICK l \in [Processes -> WorkerLocals] : l = loop
      BY DEF TelemetryInv, TelemetryTypeOK
    <3>2. Unpublished(r) = Cardinality(PendingIn(l, r))
      BY <3>1 DEF Unpublished, Pending, PendingIn
    <3>3. CASE Processes = {}
      <4>1. PendingIn(l, r) = {}
        BY <3>3 DEF PendingIn
      <4> QED BY <1>3, <3>2, <4>1, FS_EmptySet
    <3>4. ASSUME NEW p \in Processes PROVE Cardinality(PendingIn(l, r)) \in Nat
      BY PendingSplit
    <3> QED BY <1>3, <3>2, <3>3, <3>4
  <2> QED BY <1>3, <2>1, <2>2, <2>3, <2>4, <2>5, <2>6
<1>5. \A p \in Processes : Rested(p)'
  BY <1>2 DEF BalanceInv, Rested
<1> QED BY <1>4, <1>5 DEF BalanceInv, EveryExpirationCounted

LEMMA BalanceSteps ==
  TelemetryInv /\ BalanceInv /\ [TelemetryNext]_telemetryVars => BalanceInv'
<1> SUFFICES ASSUME TelemetryInv, BalanceInv, [TelemetryNext]_telemetryVars PROVE BalanceInv'
  OBVIOUS
<1>1. TelemetryTypeOK'
  BY TelemetrySteps DEF TelemetryInv
<1>2. CASE UNCHANGED telemetryVars
  BY <1>2 DEF telemetryVars, BalanceInv, EveryExpirationCounted, Rested, LoadedBy, Unpublished,
              Pending
<1>3. CASE RemoveFile
  BY <1>3, RemoveBalances
<1>4. ASSUME NEW p \in Processes, ProcessStep(p) PROVE BalanceInv'
  <2>1. CASE \E r \in Revisions : StartWorker(p, r)
    BY <1>1, <2>1, StartBalances
  <2>2. CASE \E n \in 0..BatchSize : Expire(p, n) \/ FailSweep(p, n)
    BY <1>1, <2>2, SweepBalances
  <2>3. CASE LockFile(p) \/ LoadFile(p)
    BY <1>1, <2>3, LockedBalances
  <2>4. CASE ReplaceFile(p)
    BY <1>1, <2>4, ReplaceBalances
  <2>5. CASE PublishFails(p) \/ KillWorker(p)
    BY <1>1, <2>5, LosingBalances
  <2> QED BY <1>4, <2>1, <2>2, <2>3, <2>4, <2>5 DEF ProcessStep
<1> QED BY <1>2, <1>3, <1>4 DEF TelemetryNext

(* Every lease that a worker has ended is counted once, is still to be     *)
(* counted by that worker, or has been lost in one of the ways named, for  *)
(* any number of overlapping workers and of images (update_worker_metrics).*)
THEOREM ExpirationsAreCounted == TelemetrySpec => []EveryExpirationCounted
<1>1. TelemetrySpec => []BalanceInv
  <2>1. TelemetryInv /\ BalanceInv /\ [TelemetryNext]_telemetryVars => BalanceInv'
    BY BalanceSteps
  <2> QED BY <2>1, BalanceStarts, TelemetryAlways, PTL DEF TelemetrySpec
<1>2. BalanceInv => EveryExpirationCounted
  BY DEF BalanceInv
<1> QED BY <1>1, <1>2, PTL

-------------------------------------------------------------------------------
(* The limiter of authentication attempts *)

(* A window's row and the attempts it has counted tell the same; without a *)
(* row the last window has run out.                                        *)
RowTells(s) ==
  LET n == Len(history[s])
  IN  /\ windows[s] # NULL => /\ n > 0
                              /\ windows[s].attempts = history[s][n].number
                              /\ windows[s].expires = history[s][n].expires
      /\ windows[s] = NULL /\ n > 0 => history[s][n].expires <= clock

(* What an attempt has found, and locked, stays so until it commits. *)
FoundExpired(t) ==
  \A x \in lim[t].todo :
    /\ x[2] <= Len(history[x[1]])
    /\ windows[x[1]] # NULL /\ x[2] = Len(history[x[1]])
         => windows[x[1]].expires <= lim[t].now

HoldsDropped(t) ==
  \A s \in lim[t].dropped : /\ holder[s] = t
                            /\ windows[s] # NULL
                            /\ windows[s].expires <= lim[t].now

FreshRow(now) == [started |-> now, expires |-> now + Window, attempts |-> 1]

HoldsCounted(t) ==
  LET s == lim[t].subject
      now == lim[t].now
  IN  lim[t].at = "commit" =>
        /\ holder[s] = t
        /\ lim[t].row = IF windows[s] = NULL \/ windows[s].expires <= now
                        THEN FreshRow(now)
                        ELSE [windows[s] EXCEPT !.attempts = windows[s].attempts + 1]

Underway(t) ==
  lim[t].at # "idle" => lim[t].subject \in Subjects /\ lim[t].now <= clock

AttemptKnows(t) == Underway(t) /\ FoundExpired(t) /\ HoldsDropped(t) /\ HoldsCounted(t)

LimiterInv ==
  /\ LimiterTypeOK
  /\ \A s \in Subjects : RowTells(s)
  /\ \A t \in Attempts : AttemptKnows(t)
  /\ EveryAttemptCounted

-------------------------------------------------------------------------------

LEMMA LimiterInitially == LimiterInit => LimiterInv
<1> SUFFICES ASSUME LimiterInit PROVE LimiterInv
  OBVIOUS
<1> USE LimitsAssumption, RateNullAssumption DEF LimiterInit, IdleAttempt
<1>1. LimiterTypeOK
  BY DEF LimiterTypeOK, LimiterLocals
<1>2. \A s \in Subjects : RowTells(s)
  BY DEF RowTells
<1>3. \A t \in Attempts : AttemptKnows(t)
  BY DEF AttemptKnows, Underway, FoundExpired, HoldsDropped, HoldsCounted
<1>4. EveryAttemptCounted
  BY DEF EveryAttemptCounted
<1> QED
  BY <1>1, <1>2, <1>3, <1>4 DEF LimiterInv

(* The steps that change neither a window nor a lock: what the others know *)
(* is left alone.                                                          *)
LEMMA TickKeeps ==
  ASSUME LimiterInv, Tick PROVE LimiterInv'
<1> USE LimitsAssumption, RateNullAssumption DEF LimiterInv, Tick
<1>1. LimiterTypeOK'
  BY DEF LimiterTypeOK
<1>2. ASSUME NEW s \in Subjects PROVE RowTells(s)'
  <2> DEFINE n == Len(history[s])
  <2>1. RowTells(s)
    OBVIOUS
  <2>2. history[s] \in Seq(Counted) /\ n \in Nat
    BY DEF LimiterTypeOK
  <2>3. n > 0 => history[s][n].expires \in Nat
    <3> SUFFICES ASSUME n > 0 PROVE history[s][n].expires \in Nat
      OBVIOUS
    <3>1. history[s][n] \in Counted
      BY <2>2, ElementOfSeq
    <3> QED
      BY <3>1 DEF Counted
  <2>4. clock \in Nat /\ clock' = clock + 1 /\ UNCHANGED <<windows, history>>
    BY DEF LimiterTypeOK
  <2> QED
    BY <2>1, <2>2, <2>3, <2>4 DEF RowTells
<1>3. \A t \in Attempts : AttemptKnows(t)'
  BY DEF AttemptKnows, Underway, FoundExpired, HoldsDropped, HoldsCounted, FreshRow,
         LimiterTypeOK, LimiterLocals
<1>4. EveryAttemptCounted'
  BY DEF EveryAttemptCounted
<1> QED
  BY <1>1, <1>2, <1>3, <1>4

(* An attempt's step leaves alone what another one knows, if it moves      *)
(* neither the rows that the other has locked nor a row without a count.   *)
LEMMA OthersKnow ==
  ASSUME LimiterInv, NEW t \in Attempts, \E row : lim' = [lim EXCEPT ![t] = row],
         UNCHANGED clock,
         \A s \in Subjects :
           /\ holder[s] \notin {NULL, t} => holder'[s] = holder[s] /\ windows'[s] = windows[s]
           /\ Len(history'[s]) \in Nat /\ Len(history'[s]) >= Len(history[s])
           /\ windows'[s] # NULL /\ Len(history'[s]) = Len(history[s]) => windows'[s] = windows[s]
  PROVE  \A u \in Attempts \ {t} : AttemptKnows(u)'
<1> TAKE u \in Attempts \ {t}
<1>1. AttemptKnows(u) /\ lim'[u] = lim[u]
  BY DEF LimiterInv, LimiterTypeOK
<1>2. lim[u] \in LimiterLocals /\ u # NULL
  BY RateNullAssumption DEF LimiterInv, LimiterTypeOK
<1>3. Underway(u)'
  BY <1>1 DEF AttemptKnows, Underway
<1>4. FoundExpired(u)'
  <2> SUFFICES ASSUME NEW x \in lim[u].todo
               PROVE  /\ x[2] <= Len(history'[x[1]])
                      /\ windows'[x[1]] # NULL /\ x[2] = Len(history'[x[1]])
                           => windows'[x[1]].expires <= lim[u].now
    BY <1>1 DEF FoundExpired
  <2>1. x[1] \in Subjects /\ x[2] \in Nat
    BY <1>2 DEF LimiterLocals
  <2>2. /\ x[2] <= Len(history[x[1]])
        /\ windows[x[1]] # NULL /\ x[2] = Len(history[x[1]])
             => windows[x[1]].expires <= lim[u].now
    BY <1>1 DEF AttemptKnows, FoundExpired
  <2>3. Len(history[x[1]]) \in Nat
    BY <2>1 DEF LimiterInv, LimiterTypeOK
  <2> QED
    BY <2>1, <2>2, <2>3
<1>5. HoldsDropped(u)'
  <2>1. lim[u].dropped \in SUBSET Subjects
    BY <1>2 DEF LimiterLocals
  <2> QED
    BY <1>1, <1>2, <2>1 DEF AttemptKnows, HoldsDropped
<1>6. HoldsCounted(u)'
  BY <1>1, <1>2 DEF AttemptKnows, Underway, HoldsCounted
<1> QED
  BY <1>3, <1>4, <1>5, <1>6 DEF AttemptKnows

LEMMA OthersAlone ==
  ASSUME LimiterInv, NEW t \in Attempts, \E row : lim' = [lim EXCEPT ![t] = row],
         UNCHANGED <<clock, windows, holder, history>>
  PROVE  \A u \in Attempts \ {t} : AttemptKnows(u)'
<1>1. \A s \in Subjects : Len(history[s]) \in Nat
  BY DEF LimiterInv, LimiterTypeOK
<1>2. \A s \in Subjects :
        /\ holder[s] \notin {NULL, t} => holder'[s] = holder[s] /\ windows'[s] = windows[s]
        /\ Len(history'[s]) \in Nat /\ Len(history'[s]) >= Len(history[s])
        /\ windows'[s] # NULL /\ Len(history'[s]) = Len(history[s]) => windows'[s] = windows[s]
  BY <1>1
<1> QED
  BY <1>2, OthersKnow

LEMMA BeginKeeps ==
  ASSUME LimiterInv, NEW t \in Attempts, NEW s \in Subjects, BeginAttempt(t, s)
  PROVE  LimiterInv'
<1> DEFINE mine == [IdleAttempt EXCEPT !.at = "select", !.subject = s, !.now = clock]
<1>1. IdleAttempt \in LimiterLocals
  BY DEF IdleAttempt, LimiterLocals
<1>2. clock \in Nat
  BY DEF LimiterInv, LimiterTypeOK
<1>3. mine \in LimiterLocals
  BY <1>1, <1>2, Zenon DEF LimiterLocals
<1>4. lim' = [lim EXCEPT ![t] = mine] /\ UNCHANGED <<clock, windows, holder, history>>
  BY DEF BeginAttempt
<1> HIDE DEF mine
<1>5. LimiterTypeOK'
  BY <1>3, <1>4 DEF LimiterInv, LimiterTypeOK
<1>6. \A u \in Subjects : RowTells(u)'
  BY <1>4 DEF LimiterInv, RowTells
<1>7. AttemptKnows(t)'
  <2>1. lim'[t] = mine
    BY <1>4 DEF LimiterInv, LimiterTypeOK
  <2>2. /\ mine.at = "select" /\ mine.subject = s /\ mine.now = clock
        /\ mine.todo = {} /\ mine.dropped = {}
    BY <1>1 DEF mine, IdleAttempt, LimiterLocals
  <2> QED
    BY <1>2, <1>4, <2>1, <2>2
       DEF AttemptKnows, Underway, FoundExpired, HoldsDropped, HoldsCounted
<1>8. \A u \in Attempts \ {t} : AttemptKnows(u)'
  BY <1>4, OthersAlone DEF LimiterInv
<1>9. EveryAttemptCounted'
  BY <1>4 DEF LimiterInv, EveryAttemptCounted
<1> QED
  BY <1>5, <1>6, <1>7, <1>8, <1>9 DEF LimiterInv

(* What the subquery finds has run out, in the version it has found. *)
LEMMA SelectKeeps ==
  ASSUME LimiterInv, NEW t \in Attempts, SelectExpired(t)
  PROVE  LimiterInv'
<1> USE LimitsAssumption, RateNullAssumption DEF LimiterInv
<1>1. PICK S \in SUBSET RunOut(t) :
        lim' = [lim EXCEPT ![t] = [lim[t] EXCEPT
                  !.at = "delete", !.todo = {<<s, Version(s)>> : s \in S}]]
  BY DEF SelectExpired
<1> DEFINE found == {<<s, Version(s)>> : s \in S}
           mine == [lim[t] EXCEPT !.at = "delete", !.todo = found]
<1>2. UNCHANGED <<clock, windows, holder, history>> /\ lim[t].at = "select"
  BY DEF SelectExpired
<1>3. \A x \in found : /\ x[1] \in Subjects /\ x[2] = Len(history[x[1]])
                       /\ windows[x[1]] # NULL /\ windows[x[1]].expires <= lim[t].now
  BY DEF RunOut, Version
<1>4. found \in SUBSET (Subjects \X Nat)
  BY <1>1 DEF RunOut, Version, LimiterTypeOK
<1>5. lim[t] \in LimiterLocals
  BY DEF LimiterTypeOK
<1> HIDE DEF found
<1>6. mine \in LimiterLocals
  BY <1>4, <1>5, Zenon DEF LimiterLocals
<1>7. /\ mine.at = "delete" /\ mine.todo = found
      /\ mine.subject = lim[t].subject /\ mine.now = lim[t].now
      /\ mine.dropped = lim[t].dropped
  BY <1>5 DEF LimiterLocals
<1>8. lim' = [lim EXCEPT ![t] = mine]
  BY <1>1 DEF found
<1> HIDE DEF mine
<1>9. LimiterTypeOK'
  BY <1>2, <1>6, <1>8 DEF LimiterTypeOK
<1>10. \A u \in Subjects : RowTells(u)'
  BY <1>2 DEF RowTells
<1>11. AttemptKnows(t)'
  <2>1. lim'[t] = mine
    BY <1>8 DEF LimiterTypeOK
  <2>2. Underway(t) /\ HoldsDropped(t)
    BY DEF AttemptKnows
  <2>3. \A x \in found : x[2] <= Len(history[x[1]])
    BY <1>3, <1>4 DEF LimiterTypeOK
  <2> QED
    BY <1>2, <1>3, <1>7, <2>1, <2>2, <2>3
       DEF AttemptKnows, Underway, FoundExpired, HoldsDropped, HoldsCounted
<1>12. \A u \in Attempts \ {t} : AttemptKnows(u)'
  BY <1>2, <1>8, OthersAlone
<1>13. EveryAttemptCounted'
  BY <1>2 DEF EveryAttemptCounted
<1> QED
  BY <1>9, <1>10, <1>11, <1>12, <1>13

(* A window that is deleted is one that has run out: it is the version     *)
(* that was found.                                                         *)
LEMMA DeleteKeeps ==
  ASSUME LimiterInv, NEW t \in Attempts, NEW s \in Subjects, DeleteWindow(t, s)
  PROVE  LimiterInv'
<1>1. PICK version \in {x[2] : x \in {y \in lim[t].todo : y[1] = s}} :
        /\ lim' = [lim EXCEPT ![t] = [lim[t] EXCEPT
                     !.todo = lim[t].todo \ {<<s, version>>},
                     !.dropped = IF StillThere(s, version) THEN lim[t].dropped \cup {s}
                                 ELSE lim[t].dropped]]
        /\ holder' = IF StillThere(s, version) THEN [holder EXCEPT ![s] = t] ELSE holder
  BY DEF DeleteWindow
<1>2. /\ lim[t].at = "delete" /\ Unlocked(t, s)
      /\ UNCHANGED <<clock, windows, history>>
  BY DEF DeleteWindow
<1>3. PICK x \in lim[t].todo : x[1] = s /\ x[2] = version
  BY <1>1
<1> DEFINE todo == lim[t].todo \ {<<s, version>>}
           dropped == IF StillThere(s, version) THEN lim[t].dropped \cup {s}
                      ELSE lim[t].dropped
           mine == [lim[t] EXCEPT !.todo = todo, !.dropped = dropped]
<1>4. lim[t] \in LimiterLocals
  BY DEF LimiterInv, LimiterTypeOK
<1>5. todo \in SUBSET (Subjects \X Nat) /\ dropped \in SUBSET Subjects
  BY <1>4 DEF LimiterLocals
<1>6. lim' = [lim EXCEPT ![t] = mine]
  BY <1>1
<1>7. \A r \in dropped : (r = s /\ StillThere(s, version)) \/ r \in lim[t].dropped
  OBVIOUS
<1>8. todo \subseteq lim[t].todo
  OBVIOUS
<1> HIDE DEF todo, dropped
<1>9. mine \in LimiterLocals
  BY <1>4, <1>5, Zenon DEF LimiterLocals
<1>10. /\ mine.at = "delete" /\ mine.todo = todo /\ mine.dropped = dropped
       /\ mine.subject = lim[t].subject /\ mine.now = lim[t].now
  BY <1>2, <1>4 DEF LimiterLocals
<1> HIDE DEF mine
<1>11. LimiterTypeOK'
  BY <1>1, <1>2, <1>6, <1>9 DEF LimiterInv, LimiterTypeOK
<1>12. \A r \in Subjects : RowTells(r)'
  BY <1>2 DEF LimiterInv, RowTells
<1>13. AttemptKnows(t)'
  <2>1. lim'[t] = mine
    BY <1>6 DEF LimiterInv, LimiterTypeOK
  <2>2. AttemptKnows(t)
    BY DEF LimiterInv
  <2>3. StillThere(s, version) =>
          /\ windows[s] # NULL /\ windows[s].expires <= lim[t].now
          /\ holder'[s] = t
    BY <1>1, <1>3, <2>2
       DEF AttemptKnows, FoundExpired, StillThere, Version, LimiterInv, LimiterTypeOK
  <2>4. \A r \in Subjects : holder[r] = t => holder'[r] = t
    BY <1>1 DEF LimiterInv, LimiterTypeOK
  <2>5. HoldsDropped(t)'
    <3> SUFFICES ASSUME NEW r \in dropped
                 PROVE  /\ holder'[r] = t /\ windows'[r] # NULL
                        /\ windows'[r].expires <= lim[t].now
      BY <1>10, <2>1 DEF HoldsDropped
    <3>1. CASE r = s /\ StillThere(s, version)
      BY <1>2, <2>3, <3>1
    <3>2. CASE r \in lim[t].dropped
      <4>1. r \in Subjects
        BY <1>5
      <4> QED
        BY <1>2, <2>2, <2>4, <3>2, <4>1 DEF AttemptKnows, HoldsDropped
    <3> QED
      BY <1>7, <3>1, <3>2
  <2> QED
    BY <1>2, <1>8, <1>10, <2>1, <2>2, <2>5
       DEF AttemptKnows, Underway, FoundExpired, HoldsCounted
<1>14. \A u \in Attempts \ {t} : AttemptKnows(u)'
  <2>1. \A r \in Subjects : holder[r] \notin {NULL, t} => holder'[r] = holder[r]
    BY <1>1, <1>2 DEF Unlocked, LimiterInv, LimiterTypeOK
  <2>2. \A r \in Subjects : Len(history[r]) \in Nat
    BY DEF LimiterInv, LimiterTypeOK
  <2>3. \A r \in Subjects :
          /\ holder[r] \notin {NULL, t} => holder'[r] = holder[r] /\ windows'[r] = windows[r]
          /\ Len(history'[r]) \in Nat /\ Len(history'[r]) >= Len(history[r])
          /\ windows'[r] # NULL /\ Len(history'[r]) = Len(history[r])
               => windows'[r] = windows[r]
    BY <1>2, <2>1, <2>2
  <2> QED
    BY <1>2, <1>6, <2>3, OthersKnow
<1>15. EveryAttemptCounted'
  BY <1>2 DEF LimiterInv, EveryAttemptCounted
<1> QED
  BY <1>11, <1>12, <1>13, <1>14, <1>15 DEF LimiterInv

(* The count is made of the row as it is, under its lock. *)
LEMMA CountKeeps ==
  ASSUME LimiterInv, NEW t \in Attempts, CountAttempt(t)
  PROVE  LimiterInv'
<1> DEFINE s == lim[t].subject
           now == lim[t].now
           row == CountedRow(t)
           mine == [lim[t] EXCEPT !.at = "commit", !.row = row]
<1>1. /\ lim[t].at = "delete" /\ Unlocked(t, s)
      /\ holder' = [holder EXCEPT ![s] = t]
      /\ lim' = [lim EXCEPT ![t] = mine]
      /\ UNCHANGED <<clock, windows, history>>
  BY DEF CountAttempt
<1>2. AttemptKnows(t) /\ LimiterTypeOK
  BY DEF LimiterInv
<1>3. lim[t] \in LimiterLocals
  BY <1>2 DEF LimiterTypeOK
<1>4. s \in Subjects /\ now \in Nat /\ now + Window \in Nat
  BY <1>1, <1>2, <1>3, LimitsAssumption DEF AttemptKnows, Underway, LimiterLocals
<1>5. row = IF windows[s] = NULL \/ windows[s].expires <= now THEN FreshRow(now)
            ELSE [windows[s] EXCEPT !.attempts = windows[s].attempts + 1]
  BY <1>2 DEF CountedRow, FreshRow, AttemptKnows, HoldsDropped
<1>6. FreshRow(now) \in WindowRow
  BY <1>4 DEF FreshRow, WindowRow
<1>7. windows[s] # NULL => [windows[s] EXCEPT !.attempts = windows[s].attempts + 1] \in WindowRow
  <2> SUFFICES ASSUME windows[s] # NULL
               PROVE  [windows[s] EXCEPT !.attempts = windows[s].attempts + 1] \in WindowRow
    OBVIOUS
  <2>1. windows[s] \in WindowRow
    BY <1>2, <1>4 DEF LimiterTypeOK
  <2> DEFINE n == windows[s].attempts + 1
  <2>2. n \in Nat \ {0}
    BY <2>1 DEF WindowRow
  <2> HIDE DEF n
  <2>3. [windows[s] EXCEPT !.attempts = n] \in WindowRow
    BY <2>1, <2>2, Zenon DEF WindowRow
  <2> QED
    BY <2>3 DEF n
<1>8. row \in WindowRow
  BY <1>5, <1>6, <1>7
<1> HIDE DEF row
<1>9. mine \in LimiterLocals
  BY <1>3, <1>8, Zenon DEF LimiterLocals
<1>10. /\ mine.at = "commit" /\ mine.row = row /\ mine.todo = lim[t].todo
       /\ mine.dropped = lim[t].dropped /\ mine.subject = s /\ mine.now = now
  BY <1>3 DEF LimiterLocals
<1> HIDE DEF mine
<1>11. LimiterTypeOK'
  BY <1>1, <1>2, <1>4, <1>9 DEF LimiterTypeOK
<1>12. \A r \in Subjects : RowTells(r)'
  BY <1>1 DEF LimiterInv, RowTells
<1>13. AttemptKnows(t)'
  <2>1. lim'[t] = mine
    BY <1>1, <1>2 DEF LimiterTypeOK
  <2>2. \A r \in Subjects : holder[r] = t => holder'[r] = t
    BY <1>1, <1>2 DEF LimiterTypeOK
  <2>3. holder'[s] = t
    BY <1>1, <1>2, <1>4 DEF LimiterTypeOK
  <2>4. HoldsDropped(t)'
    <3>1. lim[t].dropped \in SUBSET Subjects
      BY <1>3 DEF LimiterLocals
    <3> QED
      BY <1>1, <1>2, <1>10, <2>1, <2>2, <3>1 DEF AttemptKnows, HoldsDropped
  <2>5. HoldsCounted(t)'
    BY <1>1, <1>5, <1>10, <2>1, <2>3 DEF HoldsCounted
  <2> QED
    BY <1>1, <1>2, <1>10, <2>1, <2>4, <2>5 DEF AttemptKnows, Underway, FoundExpired
<1>14. \A u \in Attempts \ {t} : AttemptKnows(u)'
  <2>1. \A r \in Subjects : holder[r] \notin {NULL, t} => holder'[r] = holder[r]
    BY <1>1, <1>2 DEF Unlocked, LimiterTypeOK
  <2>2. \A r \in Subjects : Len(history[r]) \in Nat
    BY <1>2 DEF LimiterTypeOK
  <2>3. \A r \in Subjects :
          /\ holder[r] \notin {NULL, t} => holder'[r] = holder[r] /\ windows'[r] = windows[r]
          /\ Len(history'[r]) \in Nat /\ Len(history'[r]) >= Len(history[r])
          /\ windows'[r] # NULL /\ Len(history'[r]) = Len(history[r])
               => windows'[r] = windows[r]
    BY <1>1, <2>1, <2>2
  <2> QED
    BY <1>1, <2>3, OthersKnow
<1>15. EveryAttemptCounted'
  BY <1>1 DEF LimiterInv, EveryAttemptCounted
<1> QED
  BY <1>11, <1>12, <1>13, <1>14, <1>15 DEF LimiterInv

(* An attempt that has ended knows nothing any more. *)
LEMMA EndedKnowsNothing ==
  ASSUME LimiterInv, NEW t \in Attempts, EndAttempt(t)
  PROVE  AttemptKnows(t)'
<1>1. lim'[t] = IdleAttempt
  BY DEF EndAttempt, LimiterInv, LimiterTypeOK
<1> QED
  BY <1>1 DEF IdleAttempt, AttemptKnows, Underway, FoundExpired, HoldsDropped, HoldsCounted

LEMMA EndTypes ==
  ASSUME LimiterInv, NEW t \in Attempts, EndAttempt(t)
  PROVE  /\ clock' \in Nat
         /\ holder' \in [Subjects -> Attempts \cup {NULL}]
         /\ lim' \in [Attempts -> LimiterLocals]
<1>1. IdleAttempt \in LimiterLocals
  BY DEF IdleAttempt, LimiterLocals
<1> QED
  BY <1>1 DEF EndAttempt, LimiterInv, LimiterTypeOK

LEMMA AbortKeeps ==
  ASSUME LimiterInv, NEW t \in Attempts, AbortAttempt(t)
  PROVE  LimiterInv'
<1>1. EndAttempt(t) /\ UNCHANGED <<windows, history, clock>>
  BY DEF AbortAttempt, EndAttempt
<1>2. LimiterTypeOK'
  BY <1>1, EndTypes DEF LimiterInv, LimiterTypeOK
<1>3. \A r \in Subjects : RowTells(r)'
  BY <1>1 DEF LimiterInv, RowTells
<1>4. \A u \in Attempts \ {t} : AttemptKnows(u)'
  <2>1. \A r \in Subjects :
          /\ holder[r] \notin {NULL, t} => holder'[r] = holder[r] /\ windows'[r] = windows[r]
          /\ Len(history'[r]) \in Nat /\ Len(history'[r]) >= Len(history[r])
          /\ windows'[r] # NULL /\ Len(history'[r]) = Len(history[r])
               => windows'[r] = windows[r]
    BY <1>1 DEF EndAttempt, LimiterInv, LimiterTypeOK
  <2> QED
    BY <1>1, <2>1, OthersKnow DEF EndAttempt
<1>5. EveryAttemptCounted'
  BY <1>1 DEF LimiterInv, EveryAttemptCounted
<1> QED
  BY <1>1, <1>2, <1>3, <1>4, <1>5, EndedKnowsNothing DEF LimiterInv

(* The commit appends an attempt that is the next of its window, or the    *)
(* first of a new one; the windows it deletes have run out.                *)
LEMMA CommitKeeps ==
  ASSUME LimiterInv, NEW t \in Attempts, CommitAttempt(t)
  PROVE  LimiterInv'
<1> DEFINE s == lim[t].subject
           row == lim[t].row
           now == lim[t].now
           n == Len(history[s])
           entry == [number |-> row.attempts, expires |-> row.expires, at |-> clock]
<1>1. /\ lim[t].at = "commit"
      /\ windows' = [u \in Subjects |-> IF u = s THEN row
                                        ELSE IF u \in lim[t].dropped THEN NULL ELSE windows[u]]
      /\ history' = [history EXCEPT ![s] = Append(history[s], entry)]
      /\ EndAttempt(t)
  BY DEF CommitAttempt
<1>2. AttemptKnows(t) /\ LimiterTypeOK
  BY DEF LimiterInv
<1>3. clock' = clock /\ clock \in Nat
  BY <1>1, <1>2 DEF EndAttempt, LimiterTypeOK
<1>4. lim[t] \in LimiterLocals
  BY <1>2 DEF LimiterTypeOK
<1>5. s \in Subjects /\ now \in Nat /\ now <= clock /\ now + Window \in Nat
  BY <1>1, <1>2, <1>4, LimitsAssumption DEF AttemptKnows, Underway, LimiterLocals
<1>6. /\ holder[s] = t
      /\ row = IF windows[s] = NULL \/ windows[s].expires <= now THEN FreshRow(now)
               ELSE [windows[s] EXCEPT !.attempts = windows[s].attempts + 1]
  BY <1>1, <1>2 DEF AttemptKnows, HoldsCounted
<1>7. windows[s] # NULL => windows[s] \in WindowRow
  BY <1>2, <1>5 DEF LimiterTypeOK
<1>8. \/ /\ windows[s] = NULL \/ windows[s].expires <= now
         /\ row.attempts = 1 /\ row.expires = now + Window
      \/ /\ windows[s] # NULL
         /\ row.attempts = windows[s].attempts + 1 /\ row.expires = windows[s].expires
  BY <1>6, <1>7 DEF FreshRow, WindowRow
<1>9. row \in WindowRow
  <2>1. CASE windows[s] = NULL \/ windows[s].expires <= now
    BY <1>5, <1>6, <2>1 DEF FreshRow, WindowRow
  <2>2. CASE ~(windows[s] = NULL \/ windows[s].expires <= now)
    <3> DEFINE more == windows[s].attempts + 1
    <3>1. more \in Nat \ {0}
      BY <1>7, <2>2 DEF WindowRow
    <3> HIDE DEF more
    <3>2. [windows[s] EXCEPT !.attempts = more] \in WindowRow
      BY <1>7, <2>2, <3>1, Zenon DEF WindowRow
    <3> QED
      BY <1>6, <2>2, <3>2 DEF more
  <2> QED
    BY <2>1, <2>2
<1>10. row.attempts \in Nat \ {0} /\ row.expires \in Nat
  BY <1>9 DEF WindowRow
<1>11. entry \in Counted
  BY <1>3, <1>10 DEF Counted
<1>12. \A u \in Subjects : history[u] \in Seq(Counted) /\ Len(history[u]) \in Nat
  BY <1>2 DEF LimiterTypeOK
<1>13. RowTells(s)
  BY <1>5 DEF LimiterInv
<1> HIDE DEF row
<1>14. /\ history'[s] = Append(history[s], entry) /\ Len(history'[s]) = n + 1
       /\ history'[s][n + 1] = entry
       /\ \A j \in 1..n : history'[s][j] = history[s][j]
  <2>1. history'[s] = Append(history[s], entry)
    BY <1>1, <1>2, <1>5 DEF LimiterTypeOK
  <2> HIDE DEF entry
  <2> QED
    BY <1>5, <1>11, <1>12, <2>1
<1>15. \A u \in Subjects \ {s} : history'[u] = history[u]
  BY <1>1, <1>2 DEF LimiterTypeOK
<1>16. n > 0 => history[s][n].expires \in Nat
  <2> SUFFICES ASSUME n > 0 PROVE history[s][n].expires \in Nat
    OBVIOUS
  <2>1. history[s][n] \in Counted
    BY <1>5, <1>12, ElementOfSeq
  <2> QED
    BY <2>1 DEF Counted
<1>17. LimiterTypeOK'
  <2>1. windows' \in [Subjects -> WindowRow \cup {NULL}]
    BY <1>1, <1>2, <1>9 DEF LimiterTypeOK, row
  <2>2. Append(history[s], entry) \in Seq(Counted)
    BY <1>5, <1>11, <1>12, AppendProperties
  <2>3. history' \in [Subjects -> Seq(Counted)]
    BY <1>1, <1>2, <2>2, Zenon DEF LimiterTypeOK
  <2> QED
    BY <1>1, <2>1, <2>3, EndTypes DEF LimiterTypeOK
<1>18. ASSUME NEW u \in Subjects, u = s PROVE RowTells(u)'
  <2>1. windows'[u] = row /\ row # NULL
    BY <1>1, <1>5, <1>9, <1>18, RateNullAssumption DEF row
  <2>2. Len(history'[u]) > 0 /\ history'[u][Len(history'[u])] = entry
    BY <1>5, <1>12, <1>14, <1>18
  <2>3. row.attempts = entry.number /\ row.expires = entry.expires
    OBVIOUS
  <2> HIDE DEF entry
  <2> QED
    BY <2>1, <2>2, <2>3 DEF RowTells
<1>19. ASSUME NEW u \in Subjects \ {s} PROVE RowTells(u)'
  <2>1. RowTells(u) /\ history'[u] = history[u]
    BY <1>15 DEF LimiterInv
  <2>2. CASE u \notin lim[t].dropped
    <3>1. windows'[u] = windows[u]
      BY <1>1, <2>2
    <3> QED
      BY <1>3, <2>1, <3>1 DEF RowTells
  <2>3. CASE u \in lim[t].dropped
    <3>1. windows'[u] = NULL
      BY <1>1, <2>3
    <3>2. windows[u] # NULL /\ windows[u].expires <= now
      BY <1>2, <2>3 DEF AttemptKnows, HoldsDropped
    <3>3. windows[u].expires \in Nat
      BY <1>2, <3>2 DEF LimiterTypeOK, WindowRow
    <3> QED
      BY <1>3, <1>5, <2>1, <3>1, <3>2, <3>3 DEF RowTells
  <2> QED
    BY <2>2, <2>3
<1>20. \A u \in Attempts \ {t} : AttemptKnows(u)'
  <2>1. \A r \in Subjects : holder[r] \notin {NULL, t} =>
          holder'[r] = holder[r] /\ windows'[r] = windows[r]
    <3>1. \A r \in lim[t].dropped : holder[r] = t
      BY <1>2 DEF AttemptKnows, HoldsDropped
    <3>2. \A r \in Subjects : holder[r] # t => holder'[r] = holder[r]
      BY <1>1 DEF EndAttempt
    <3> QED
      BY <1>1, <1>6, <3>1, <3>2
  <2>2. ASSUME NEW r \in Subjects, windows'[r] # NULL, Len(history'[r]) = Len(history[r])
        PROVE  windows'[r] = windows[r]
    <3>1. r # s
      BY <1>5, <1>12, <1>14, <2>2
    <3> QED
      BY <1>1, <2>2, <3>1
  <2>3. ASSUME NEW r \in Subjects
        PROVE  Len(history'[r]) \in Nat /\ Len(history'[r]) >= Len(history[r])
    <3>1. CASE r = s
      BY <1>5, <1>12, <1>14, <3>1
    <3>2. CASE r # s
      BY <1>12, <1>15, <3>2
    <3> QED
      BY <3>1, <3>2
  <2>4. \A r \in Subjects :
          /\ holder[r] \notin {NULL, t} => holder'[r] = holder[r] /\ windows'[r] = windows[r]
          /\ Len(history'[r]) \in Nat /\ Len(history'[r]) >= Len(history[r])
          /\ windows'[r] # NULL /\ Len(history'[r]) = Len(history[r])
               => windows'[r] = windows[r]
    BY <2>1, <2>2, <2>3
  <2> QED
    BY <1>1, <1>3, <2>4, OthersKnow DEF EndAttempt
<1>21. EveryAttemptCounted'
  <2> SUFFICES ASSUME NEW u \in Subjects, NEW j \in 2..Len(history'[u])
               PROVE  LET last == history'[u][j - 1]
                          next == history'[u][j]
                      IN  \/ next.number = last.number + 1 /\ next.expires = last.expires
                          \/ next.number = 1 /\ last.expires <= next.at
    BY DEF EveryAttemptCounted
  <2>1. CASE u # s
    <3>1. history'[u] = history[u]
      BY <1>15, <2>1
    <3> QED
      BY <3>1 DEF LimiterInv, EveryAttemptCounted
  <2>2. CASE u = s /\ j \in 2..n
    <3>1. j \in 1..n /\ j - 1 \in 1..n
      BY <1>5, <1>12, <2>2
    <3>2. history'[u][j] = history[s][j] /\ history'[u][j - 1] = history[s][j - 1]
      <4> HIDE DEF entry
      <4> QED
        BY <1>14, <2>2, <3>1
    <3>3. LET last == history[s][j - 1]
              next == history[s][j]
          IN  \/ next.number = last.number + 1 /\ next.expires = last.expires
              \/ next.number = 1 /\ last.expires <= next.at
      BY <1>5, <2>2 DEF LimiterInv, EveryAttemptCounted
    <3> QED
      BY <3>2, <3>3
  <2>3. CASE u = s /\ j \notin 2..n
    <3>1. j = n + 1 /\ n > 0 /\ j - 1 = n /\ n \in 1..n
      BY <1>5, <1>12, <1>14, <2>3
    <3>2. history'[s][n + 1] = entry /\ history'[s][n] = history[s][n]
      <4> HIDE DEF entry
      <4> QED
        BY <1>14, <3>1
    <3>3. /\ history'[u][j].number = row.attempts
          /\ history'[u][j].expires = row.expires
          /\ history'[u][j].at = clock
          /\ history'[u][j - 1] = history[s][n]
      BY <2>3, <3>1, <3>2
    <3>4. \/ /\ row.attempts = 1 /\ history[s][n].expires <= clock
          \/ /\ row.attempts = history[s][n].number + 1
             /\ row.expires = history[s][n].expires
      BY <1>3, <1>5, <1>8, <1>13, <1>16, <3>1 DEF RowTells
    <3> HIDE DEF entry, n, s
    <3> QED
      BY <3>3, <3>4
  <2> QED
    BY <2>1, <2>2, <2>3
<1>22. \A u \in Subjects : RowTells(u)'
  BY <1>18, <1>19
<1>23. AttemptKnows(t)'
  BY <1>1, EndedKnowsNothing
<1>24. \A u \in Attempts : AttemptKnows(u)'
  BY <1>20, <1>23
<1> HIDE DEF s, row, now, n, entry
<1> QED
  BY <1>17, <1>21, <1>22, <1>24 DEF LimiterInv

-------------------------------------------------------------------------------

LEMMA LimiterKeeps == LimiterInv /\ [LimiterNext]_limiterVars => LimiterInv'
<1> SUFFICES ASSUME LimiterInv, [LimiterNext]_limiterVars PROVE LimiterInv'
  OBVIOUS
<1>1. ASSUME UNCHANGED limiterVars PROVE LimiterInv'
  BY <1>1 DEF limiterVars, LimiterInv, LimiterTypeOK, RowTells, AttemptKnows, Underway,
              FoundExpired, HoldsDropped, HoldsCounted, EveryAttemptCounted
<1>2. ASSUME NEW t \in Attempts, NEW s \in Subjects, BeginAttempt(t, s) PROVE LimiterInv'
  BY <1>2, BeginKeeps
<1>3. ASSUME NEW t \in Attempts, NEW s \in Subjects, DeleteWindow(t, s) PROVE LimiterInv'
  BY <1>3, DeleteKeeps
<1> QED
  BY <1>1, <1>2, <1>3, TickKeeps, SelectKeeps, CountKeeps, CommitKeeps, AbortKeeps
     DEF LimiterNext

LEMMA LimiterAlways == LimiterSpec => []LimiterInv
<1> QED
  BY LimiterInitially, LimiterKeeps, PTL DEF LimiterSpec

(* Every variable of the limiter has its type, for every instance. *)
THEOREM LimiterTypes == LimiterSpec => []LimiterTypeOK
<1>1. LimiterInv => LimiterTypeOK
  BY DEF LimiterInv
<1> QED
  BY <1>1, LimiterAlways, PTL

(* However many attempts and cleanups overlap, each attempt is the next of *)
(* its window or the first of a window after the last (enforce_rate_limit).*)
THEOREM AttemptsAreCounted == LimiterSpec => []EveryAttemptCounted
<1>1. LimiterInv => EveryAttemptCounted
  BY DEF LimiterInv
<1> QED
  BY <1>1, LimiterAlways, PTL

(* No cleanup deletes a window that is still running (enforce_rate_limit). *)
THEOREM LiveWindowsStay == LimiterSpec => []LiveWindowStays
<1>1. LimiterInv => LiveWindowStays
  <2> SUFFICES ASSUME LimiterInv, NEW s \in Subjects, Len(history[s]) > 0,
                      history[s][Len(history[s])].expires > clock
               PROVE  /\ windows[s] # NULL
                      /\ windows[s].attempts = history[s][Len(history[s])].number
    BY DEF LiveWindowStays
  <2>1. RowTells(s) /\ clock \in Nat /\ history[s] \in Seq(Counted)
    BY DEF LimiterInv, LimiterTypeOK
  <2>2. history[s][Len(history[s])] \in Counted
    BY <2>1, ElementOfSeq
  <2> QED
    BY <2>1, <2>2 DEF RowTells, Counted
<1> QED
  BY <1>1, LimiterAlways, PTL
-------------------------------------------------------------------------------

(***************************************************************************)
(* How the attempts of a subject are spread over windows: two of them are  *)
(* in one window, or the window of the second ends a window's length after *)
(* the first, less the delay of a transaction; so does the window of the   *)
(* attempt that opens it.                                                  *)
(***************************************************************************)
SameWindow(h, i, j) == /\ h[i].expires = h[j].expires
                       /\ h[j].number = h[i].number + (j - i)

LaterWindow(h, i, j) == /\ h[i].expires <= h[j].at
                        /\ h[i].at + Window <= h[j].expires + MaxDelay

Spaced(h) == \A j \in 1..Len(h) : \A i \in 1..(j - 1) :
               /\ h[i].at <= h[j].at
               /\ SameWindow(h, i, j) \/ LaterWindow(h, i, j)

Past(h, time) == \A j \in 1..Len(h) : h[j].at <= time

Opening(e) == e.number = 1 => e.at + Window <= e.expires + MaxDelay

Opened(h) == \A j \in 1..Len(h) : Opening(h[j])

(* The next attempt of the last window, or the first of a new one. *)
Follows(h, e) ==
  Len(h) > 0 =>
    LET last == h[Len(h)]
    IN  \/ e.expires = last.expires /\ e.number = last.number + 1
        \/ last.expires <= e.at /\ e.at + Window <= e.expires + MaxDelay

Lasting(t) == lim[t].at # "idle" => clock <= lim[t].now + MaxDelay

SpacingInv == /\ \A t \in Attempts : Lasting(t)
              /\ \A s \in Subjects : /\ Spaced(history[s]) /\ Past(history[s], clock)
                                     /\ Opened(history[s])

LEMMA CountedFields ==
  ASSUME NEW h \in Seq(Counted)
  PROVE  /\ Len(h) \in Nat
         /\ \A j \in 1..Len(h) : /\ h[j].number \in Nat \ {0}
                                 /\ h[j].expires \in Nat
                                 /\ h[j].at \in Nat
<1>1. Len(h) \in Nat
  OBVIOUS
<1>2. ASSUME NEW j \in 1..Len(h)
      PROVE  h[j].number \in Nat \ {0} /\ h[j].expires \in Nat /\ h[j].at \in Nat
  <2>1. h[j] \in Counted
    BY ElementOfSeq
  <2> QED
    BY <2>1 DEF Counted
<1> QED
  BY <1>1, <1>2

(* An attempt that follows the last one is spaced from all before it. *)
LEMMA SpacedAppend ==
  ASSUME NEW h \in Seq(Counted), NEW e \in Counted,
         Spaced(h), Past(h, e.at), Follows(h, e)
  PROVE  Spaced(Append(h, e)) /\ Past(Append(h, e), e.at)
<1> DEFINE n == Len(h)
           longer == Append(h, e)
<1>1. /\ n \in Nat /\ Len(longer) = n + 1 /\ longer[n + 1] = e
      /\ \A j \in 1..n : longer[j] = h[j]
  BY AppendProperties, LenProperties
<1>2. e.number \in Nat \ {0} /\ e.expires \in Nat /\ e.at \in Nat
  BY DEF Counted
<1>3. \A j \in 1..n : h[j].number \in Nat \ {0} /\ h[j].expires \in Nat /\ h[j].at \in Nat
  BY CountedFields
<1>4. Window \in Nat /\ MaxDelay \in Nat
  BY LimitsAssumption
<1> HIDE DEF n, longer
<1>5. ASSUME NEW i \in 1..n
      PROVE  /\ h[i].at <= e.at
             /\ \/ h[i].expires = e.expires /\ e.number = h[i].number + (n + 1 - i)
                \/ h[i].expires <= e.at /\ h[i].at + Window <= e.expires + MaxDelay
  <2> DEFINE last == h[n]
  <2>1. n \in 1..n
    BY <1>1
  <2>2. \/ e.expires = last.expires /\ e.number = last.number + 1
        \/ last.expires <= e.at /\ e.at + Window <= e.expires + MaxDelay
    BY <1>1, <2>1 DEF Follows, n
  <2>3. h[i].at <= e.at /\ last.at <= e.at
    BY <2>1 DEF Past, n
  <2>4. i # n => \/ h[i].expires = last.expires /\ last.number = h[i].number + (n - i)
                 \/ h[i].expires <= last.at /\ h[i].at + Window <= last.expires + MaxDelay
    <3> SUFFICES ASSUME i # n
                 PROVE  \/ h[i].expires = last.expires /\ last.number = h[i].number + (n - i)
                        \/ /\ h[i].expires <= last.at
                           /\ h[i].at + Window <= last.expires + MaxDelay
      OBVIOUS
    <3>1. i \in 1..(n - 1)
      BY <1>1
    <3> QED
      BY <2>1, <3>1 DEF Spaced, SameWindow, LaterWindow, n
  <2>5. /\ h[i].expires \in Nat /\ h[i].number \in Nat /\ h[i].at \in Nat
        /\ last.expires \in Nat /\ last.number \in Nat /\ last.at \in Nat
    BY <1>3, <2>1
  <2>6. CASE i = n
    <3>1. h[i] = last /\ n + 1 - i = 1
      BY <1>1, <2>6
    <3> HIDE DEF last
    <3>2. \/ h[i].expires = e.expires /\ e.number = h[i].number + 1
          \/ h[i].expires <= e.at /\ h[i].at + Window <= e.expires + MaxDelay
      <4>1. last.expires <= e.at /\ e.at + Window <= e.expires + MaxDelay
              => last.at + Window <= e.expires + MaxDelay
        <5> DEFINE a == last.at
                   c == e.at
                   z == e.expires
        <5>1. a \in Nat /\ c \in Nat /\ z \in Nat /\ a <= c
          BY <1>2, <2>3, <2>5
        <5> HIDE DEF a, c, z
        <5>2. c + Window <= z + MaxDelay => a + Window <= z + MaxDelay
          BY <1>4, <5>1
        <5> QED
          BY <5>2 DEF a, c, z
      <4> QED
        BY <2>2, <3>1, <4>1
    <3> QED
      BY <2>3, <3>1, <3>2
  <2>7. CASE i # n
    <3> DEFINE a == h[i].at
               x == h[i].expires
               k == h[i].number
               b == last.at
               y == last.expires
               l == last.number
               c == e.at
               z == e.expires
               m == e.number
    <3>1. /\ a \in Nat /\ x \in Nat /\ k \in Nat
          /\ b \in Nat /\ y \in Nat /\ l \in Nat
          /\ c \in Nat /\ z \in Nat /\ m \in Nat
      BY <1>2, <2>5
    <3>2. a <= c /\ b <= c
      BY <2>3
    <3>3. \/ x = y /\ l = k + (n - i)
          \/ x <= b /\ a + Window <= y + MaxDelay
      BY <2>4, <2>7
    <3>4. \/ z = y /\ m = l + 1
          \/ y <= c /\ c + Window <= z + MaxDelay
      BY <2>2
    <3> HIDE DEF a, b, c, x, y, z, k, l, m, last
    <3>5. \/ x = z /\ m = k + (n + 1 - i)
          \/ x <= c /\ a + Window <= z + MaxDelay
      BY <1>1, <1>4, <3>1, <3>2, <3>3, <3>4
    <3> QED
      BY <3>2, <3>5 DEF a, c, x, z, k, m
  <2> QED
    BY <2>6, <2>7
<1>6. ASSUME NEW j \in 1..(n + 1), NEW i \in 1..(j - 1)
      PROVE  /\ longer[i].at <= longer[j].at
             /\ SameWindow(longer, i, j) \/ LaterWindow(longer, i, j)
  <2>1. i \in 1..n
    BY <1>1
  <2>2. CASE j \in 1..n
    <3>1. h[i].at <= h[j].at /\ (SameWindow(h, i, j) \/ LaterWindow(h, i, j))
      BY <2>2 DEF Spaced, n
    <3> QED
      BY <1>1, <2>1, <2>2, <3>1 DEF SameWindow, LaterWindow
  <2>3. CASE j = n + 1
    <3>1. longer[j] = e /\ longer[i] = h[i]
      BY <1>1, <2>1, <2>3
    <3>2. /\ h[i].at <= e.at
          /\ \/ h[i].expires = e.expires /\ e.number = h[i].number + (n + 1 - i)
             \/ h[i].expires <= e.at /\ h[i].at + Window <= e.expires + MaxDelay
      BY <1>5, <2>1
    <3>3. n + 1 - i = j - i
      BY <1>1, <2>3
    <3> QED
      BY <3>1, <3>2, <3>3, Zenon DEF SameWindow, LaterWindow
  <2> QED
    BY <1>1, <2>2, <2>3
<1>7. \A j \in 1..(n + 1) : longer[j].at <= e.at
  BY <1>1, <1>2, <1>5
<1> QED
  BY <1>1, <1>6, <1>7 DEF Spaced, Past, longer

(* A commit counts an attempt that follows the last one of its subject. *)
LEMMA NextCounted ==
  ASSUME LimiterInv, NEW t \in Attempts, CommitAttempt(t), Lasting(t)
  PROVE  \E s \in Subjects, e \in Counted :
           /\ history' = [history EXCEPT ![s] = Append(history[s], e)]
           /\ e.at = clock
           /\ Follows(history[s], e) /\ Opening(e)
<1> DEFINE s == lim[t].subject
           row == lim[t].row
           now == lim[t].now
           e == [number |-> row.attempts, expires |-> row.expires, at |-> clock]
<1>1. /\ lim[t].at = "commit"
      /\ history' = [history EXCEPT ![s] = Append(history[s], e)]
  BY DEF CommitAttempt
<1>2. AttemptKnows(t) /\ LimiterTypeOK
  BY DEF LimiterInv
<1>3. lim[t] \in LimiterLocals
  BY <1>2 DEF LimiterTypeOK
<1>4. s \in Subjects /\ now \in Nat /\ clock \in Nat /\ clock <= now + MaxDelay
  BY <1>1, <1>2, <1>3 DEF AttemptKnows, Underway, LimiterLocals, LimiterTypeOK, Lasting
<1>5. /\ row = IF windows[s] = NULL \/ windows[s].expires <= now THEN FreshRow(now)
               ELSE [windows[s] EXCEPT !.attempts = windows[s].attempts + 1]
      /\ now <= clock
  BY <1>1, <1>2 DEF AttemptKnows, HoldsCounted, Underway
<1>6. windows[s] # NULL => windows[s] \in WindowRow
  BY <1>2, <1>4 DEF LimiterTypeOK
<1>7. \/ /\ windows[s] = NULL \/ windows[s].expires <= now
         /\ row.attempts = 1 /\ row.expires = now + Window
      \/ /\ windows[s] # NULL
         /\ row.attempts = windows[s].attempts + 1 /\ row.expires = windows[s].expires
  BY <1>5, <1>6 DEF FreshRow, WindowRow
<1>8. row.attempts \in Nat \ {0} /\ row.expires \in Nat
  BY <1>4, <1>6, <1>7, LimitsAssumption DEF WindowRow
<1>9. e \in Counted
  BY <1>4, <1>8 DEF Counted
<1>10. /\ e.number = row.attempts /\ e.expires = row.expires /\ e.at = clock
  OBVIOUS
<1>11. RowTells(s) /\ history[s] \in Seq(Counted)
  BY <1>2, <1>4 DEF LimiterInv, LimiterTypeOK
<1> HIDE DEF e, row
<1>12. ASSUME Len(history[s]) > 0
       PROVE  LET last == history[s][Len(history[s])]
              IN  \/ e.expires = last.expires /\ e.number = last.number + 1
                  \/ last.expires <= e.at /\ e.at + Window <= e.expires + MaxDelay
  <2> DEFINE last == history[s][Len(history[s])]
  <2>1. last.expires \in Nat
    <3>1. last \in Counted
      BY <1>11, <1>12, ElementOfSeq
    <3> QED
      BY <3>1 DEF Counted
  <2>2. CASE /\ windows[s] = NULL \/ windows[s].expires <= now
             /\ row.attempts = 1 /\ row.expires = now + Window
    <3>1. last.expires <= clock
      BY <1>4, <1>5, <1>11, <1>12, <2>1, <2>2 DEF RowTells
    <3> HIDE DEF last, s, now
    <3>2. clock + Window <= now + Window + MaxDelay
      BY <1>4, LimitsAssumption
    <3> QED
      BY <1>10, <2>2, <3>1, <3>2 DEF last
  <2>3. CASE /\ windows[s] # NULL
             /\ row.attempts = windows[s].attempts + 1 /\ row.expires = windows[s].expires
    BY <1>10, <1>11, <1>12, <2>3 DEF RowTells
  <2> QED
    BY <1>7, <2>2, <2>3
<1>13. Follows(history[s], e)
  BY <1>12 DEF Follows
<1>14. Opening(e)
  <2> SUFFICES ASSUME row.attempts = 1
               PROVE  clock + Window <= row.expires + MaxDelay
    BY <1>10 DEF Opening
  <2>1. row.expires = now + Window
    <3>1. windows[s] # NULL => windows[s].attempts \in Nat \ {0}
      BY <1>6 DEF WindowRow
    <3> QED
      BY <1>7, <3>1
  <2> HIDE DEF now
  <2> QED
    BY <1>4, <2>1, LimitsAssumption
<1> QED
  BY <1>1, <1>4, <1>9, <1>10, <1>13, <1>14

LEMMA SpacingStarts == LimiterInit => SpacingInv
<1> SUFFICES ASSUME LimiterInit PROVE SpacingInv
  OBVIOUS
<1>1. \A t \in Attempts : Lasting(t)
  BY DEF LimiterInit, IdleAttempt, Lasting
<1>2. \A s \in Subjects : history[s] = <<>>
  BY DEF LimiterInit
<1> QED
  BY <1>1, <1>2 DEF SpacingInv, Spaced, Past, Opened

(* Attempts whose histories rest, beside one that moves. *)
LEMMA SpacingRests ==
  ASSUME LimiterTypeOK, SpacingInv, UNCHANGED <<clock, history>>,
         NEW t \in Attempts, NEW row, lim' = [lim EXCEPT ![t] = row],
         row.at # "idle" => clock <= row.now + MaxDelay
  PROVE  SpacingInv'
<1>1. \A u \in Attempts : lim'[u] = IF u = t THEN row ELSE lim[u]
  BY DEF LimiterTypeOK
<1>2. \A u \in Attempts : Lasting(u)'
  BY <1>1 DEF SpacingInv, Lasting
<1>3. \A s \in Subjects : /\ Spaced(history'[s]) /\ Past(history'[s], clock')
                         /\ Opened(history'[s])
  BY DEF SpacingInv
<1> QED
  BY <1>2, <1>3 DEF SpacingInv, Spaced, Past, Opened, Opening, SameWindow, LaterWindow

LEMMA SpacingTicks ==
  ASSUME LimiterTypeOK, SpacingInv, Tick
  PROVE  SpacingInv'
<1>1. clock \in Nat /\ clock' = clock + 1 /\ lim' = lim /\ history' = history
  BY DEF Tick, LimiterTypeOK
<1>2. \A t \in Attempts : Lasting(t)'
  <2> SUFFICES ASSUME NEW t \in Attempts, lim[t].at # "idle"
               PROVE  clock + 1 <= lim[t].now + MaxDelay
    BY <1>1 DEF Lasting
  <2>1. lim[t].now \in Nat /\ clock < lim[t].now + MaxDelay
    BY DEF Tick, LimiterTypeOK, LimiterLocals
  <2> QED
    BY <1>1, <2>1, LimitsAssumption
<1>3. ASSUME NEW s \in Subjects
      PROVE  Spaced(history'[s]) /\ Past(history'[s], clock') /\ Opened(history'[s])
  <2>1. /\ Spaced(history[s]) /\ Past(history[s], clock) /\ Opened(history[s])
        /\ history[s] \in Seq(Counted)
    BY DEF SpacingInv, LimiterTypeOK
  <2>2. Past(history[s], clock + 1)
    BY <1>1, <2>1, CountedFields DEF Past
  <2> QED
    BY <1>1, <2>1, <2>2
<1> QED
  BY <1>2, <1>3 DEF SpacingInv, Spaced, Past, Opened, Opening, SameWindow, LaterWindow

LEMMA SpacingCommits ==
  ASSUME LimiterInv, SpacingInv, NEW t \in Attempts, CommitAttempt(t)
  PROVE  SpacingInv'
<1>1. Lasting(t)
  BY DEF SpacingInv
<1>2. PICK s \in Subjects, e \in Counted :
        /\ history' = [history EXCEPT ![s] = Append(history[s], e)]
        /\ e.at = clock
        /\ Follows(history[s], e) /\ Opening(e)
  BY <1>1, NextCounted
<1>3. history \in [Subjects -> Seq(Counted)] /\ clock' = clock
  BY DEF LimiterInv, LimiterTypeOK, CommitAttempt, EndAttempt
<1>4. lim' = [lim EXCEPT ![t] = IdleAttempt] /\ lim \in [Attempts -> LimiterLocals]
  BY DEF LimiterInv, LimiterTypeOK, CommitAttempt, EndAttempt
<1>5. \A u \in Attempts : Lasting(u)'
  BY <1>3, <1>4 DEF SpacingInv, Lasting, IdleAttempt
<1>6. ASSUME NEW u \in Subjects
      PROVE  Spaced(history'[u]) /\ Past(history'[u], clock') /\ Opened(history'[u])
  <2>1. /\ Spaced(history[u]) /\ Past(history[u], clock) /\ Opened(history[u])
        /\ history[u] \in Seq(Counted)
    BY <1>3 DEF SpacingInv
  <2>2. CASE u = s
    <3>1. history'[u] = Append(history[s], e)
      BY <1>2, <1>3, <2>2
    <3>2. Opened(Append(history[s], e))
      BY <1>2, <2>1, <2>2, AppendProperties, LenProperties DEF Opened
    <3> QED
      BY <1>2, <1>3, <2>1, <2>2, <3>1, <3>2, SpacedAppend
  <2>3. CASE u # s
    <3>1. history'[u] = history[u]
      BY <1>2, <1>3, <2>3
    <3> QED
      BY <1>3, <2>1, <3>1
  <2> QED
    BY <2>2, <2>3
<1> QED
  BY <1>5, <1>6 DEF SpacingInv, Spaced, Past, Opened, Opening, SameWindow, LaterWindow

LEMMA SpacingSteps == LimiterInv /\ SpacingInv /\ [LimiterNext]_limiterVars => SpacingInv'
<1> SUFFICES ASSUME LimiterInv, SpacingInv, [LimiterNext]_limiterVars PROVE SpacingInv'
  OBVIOUS
<1>1. LimiterTypeOK /\ \A t \in Attempts : Lasting(t)
  BY DEF LimiterInv, SpacingInv
<1>2. ASSUME UNCHANGED limiterVars PROVE SpacingInv'
  BY <1>2 DEF limiterVars, SpacingInv, Lasting, Spaced, Past, Opened, Opening,
               SameWindow, LaterWindow
<1>3. ASSUME NEW t \in Attempts, NEW s \in Subjects, BeginAttempt(t, s) PROVE SpacingInv'
  <2> DEFINE mine == [IdleAttempt EXCEPT !.at = "select", !.subject = s, !.now = clock]
  <2>1. mine.now = clock /\ clock \in Nat
    BY <1>1 DEF IdleAttempt, LimiterTypeOK
  <2>2. lim' = [lim EXCEPT ![t] = mine] /\ UNCHANGED <<clock, history>>
    BY <1>3 DEF BeginAttempt
  <2> HIDE DEF mine
  <2>3. clock <= mine.now + MaxDelay
    BY <2>1, LimitsAssumption
  <2> QED
    BY <1>1, <2>2, <2>3, SpacingRests
<1>4. ASSUME NEW t \in Attempts, \/ SelectExpired(t) \/ CountAttempt(t)
                                 \/ \E s \in Subjects : DeleteWindow(t, s)
      PROVE  SpacingInv'
  <2>1. lim[t] \in LimiterLocals
    BY <1>1 DEF LimiterTypeOK
  <2>2. lim[t].at # "idle" /\ UNCHANGED <<clock, history>>
    BY <1>4 DEF SelectExpired, CountAttempt, DeleteWindow
  <2>3. \E row : lim' = [lim EXCEPT ![t] = row] /\ row.now = lim[t].now
    <3>1. CASE SelectExpired(t)
      <4>1. PICK S : lim' = [lim EXCEPT ![t] = [lim[t] EXCEPT
                                !.at = "delete", !.todo = {<<s, Version(s)>> : s \in S}]]
        BY <3>1 DEF SelectExpired
      <4>2. \A T : [lim[t] EXCEPT !.at = "delete", !.todo = T].now = lim[t].now
        BY <2>1 DEF LimiterLocals
      <4> QED
        BY <4>1, <4>2
    <3>2. CASE CountAttempt(t)
      <4>1. lim' = [lim EXCEPT ![t] = [lim[t] EXCEPT !.at = "commit", !.row = CountedRow(t)]]
        BY <3>2 DEF CountAttempt
      <4>2. \A x : [lim[t] EXCEPT !.at = "commit", !.row = x].now = lim[t].now
        BY <2>1 DEF LimiterLocals
      <4> QED
        BY <4>1, <4>2
    <3>3. ASSUME NEW s \in Subjects, DeleteWindow(t, s)
          PROVE  \E row : lim' = [lim EXCEPT ![t] = row] /\ row.now = lim[t].now
      <4>1. PICK T, D : lim' = [lim EXCEPT ![t] = [lim[t] EXCEPT !.todo = T, !.dropped = D]]
        BY <3>3 DEF DeleteWindow
      <4>2. [lim[t] EXCEPT !.todo = T, !.dropped = D].now = lim[t].now
        BY <2>1 DEF LimiterLocals
      <4> QED
        BY <4>1, <4>2
    <3> QED
      BY <1>4, <3>1, <3>2, <3>3
  <2>4. clock <= lim[t].now + MaxDelay
    BY <1>1, <2>2 DEF Lasting
  <2> QED
    BY <1>1, <2>2, <2>3, <2>4, SpacingRests
<1>5. ASSUME NEW t \in Attempts, AbortAttempt(t) PROVE SpacingInv'
  <2>1. lim' = [lim EXCEPT ![t] = IdleAttempt] /\ UNCHANGED <<clock, history>>
    BY <1>5 DEF AbortAttempt, EndAttempt
  <2>2. IdleAttempt.at = "idle"
    BY DEF IdleAttempt
  <2> QED
    BY <1>1, <2>1, <2>2, SpacingRests
<1> QED
  BY <1>1, <1>2, <1>3, <1>4, <1>5, SpacingTicks, SpacingCommits DEF LimiterNext

-------------------------------------------------------------------------------

(***************************************************************************)
(* The first attempt admitted within a span and the first one of another   *)
(* window: all the others are in one of their two windows, and the first   *)
(* one has not opened its window.                                          *)
(***************************************************************************)
LEMMA LeastNatural ==
  ASSUME NEW S \in SUBSET Nat, S # {}
  PROVE  \E x \in S : \A y \in S : x <= y
<1>1. PICK x \in S : \A y \in S : <<y, x>> \notin OpToRel(<, Nat)
  BY NatLessThanWellFounded, WFMin
<1>2. \A y \in S : ~(y < x)
  BY <1>1 DEF OpToRel
<1>3. \A y \in S : x <= y
  BY <1>2
<1> QED
  BY <1>3

Admitted(h, from, length) ==
  {j \in 1..Len(h) : /\ h[j].number <= Allowed
                     /\ from <= h[j].at /\ h[j].at < from + length}

(* The places of the attempts admitted in a window, from one of them on,   *)
(* and those of a window whose opener is left out.                         *)
Places(first) == first..(first + Allowed - 1)

LaterPlaces(first) == first..(first + Allowed - 2)

LEMMA PlacesCount ==
  ASSUME NEW a \in Nat, NEW b \in Nat,
         NEW S \in SUBSET (LaterPlaces(a) \cup Places(b))
  PROVE  Cardinality(S) < 2 * Allowed
<1>1. Allowed \in Nat \ {0}
  BY LimitsAssumption
<1> DEFINE A == LaterPlaces(a)
           B == Places(b)
<1>2. IsFiniteSet(A) /\ Cardinality(A) = Allowed - 1
  BY <1>1, FS_Interval DEF LaterPlaces
<1>3. IsFiniteSet(B) /\ Cardinality(B) = Allowed
  BY <1>1, FS_Interval DEF Places
<1> HIDE DEF A, B
<1>4. /\ IsFiniteSet(A \cup B)
      /\ Cardinality(A \cup B) = Cardinality(A) + Cardinality(B) - Cardinality(A \cap B)
  BY <1>2, <1>3, FS_Union
<1>5. Cardinality(A \cap B) \in Nat
  <2>1. IsFiniteSet(A \cap B)
    BY <1>2, FS_Subset
  <2> QED
    BY <2>1, FS_CardinalityType
<1>6. IsFiniteSet(S) /\ Cardinality(S) <= Cardinality(A \cup B)
  BY <1>4, FS_Subset DEF A, B
<1>7. Cardinality(S) \in Nat
  BY <1>6, FS_CardinalityType
<1> QED
  BY <1>1, <1>2, <1>3, <1>4, <1>5, <1>6, <1>7

(* The attempts of one window that are admitted have neighbouring places.  *)
LEMMA AdmittedTogether ==
  ASSUME NEW h \in Seq(Counted), NEW i \in 1..Len(h), NEW j \in 1..Len(h), i <= j,
         i # j => SameWindow(h, i, j), h[j].number <= Allowed
  PROVE  j \in Places(i) /\ (h[i].number # 1 => j \in LaterPlaces(i))
<1>1. /\ Len(h) \in Nat /\ h[i].number \in Nat \ {0} /\ h[j].number \in Nat \ {0}
      /\ Allowed \in Nat \ {0}
  BY CountedFields, LimitsAssumption
<1> DEFINE k == h[i].number
           l == h[j].number
<1>2. /\ i # j => l = k + (j - i)
      /\ i = j => l = k
  BY DEF SameWindow
<1>3. l <= Allowed /\ k \in Nat \ {0} /\ l \in Nat \ {0} /\ Allowed \in Nat \ {0}
  BY <1>1
<1>4. i \in Nat /\ j \in Nat
  BY <1>1
<1> HIDE DEF k, l
<1>5. j <= i + Allowed - 1 /\ (k # 1 => j <= i + Allowed - 2)
  BY <1>2, <1>3, <1>4
<1> QED
  BY <1>3, <1>4, <1>5 DEF Places, LaterPlaces, k

LEMMA AdmittedIsBounded ==
  ASSUME NEW h \in Seq(Counted), Spaced(h), Opened(h), NEW from \in Nat
  PROVE  Cardinality(Admitted(h, from, Window - MaxDelay)) < 2 * Allowed
<1> DEFINE S == Admitted(h, from, Window - MaxDelay)
           n == Len(h)
<1>1. /\ n \in Nat
      /\ \A j \in 1..n : /\ h[j].number \in Nat \ {0}
                         /\ h[j].expires \in Nat
                         /\ h[j].at \in Nat
  BY CountedFields
<1>2. Allowed \in Nat \ {0} /\ Window \in Nat /\ MaxDelay \in Nat
  BY LimitsAssumption
<1>3. \A j \in S : /\ j \in 1..n /\ h[j].number <= Allowed
                   /\ from <= h[j].at /\ h[j].at < from + (Window - MaxDelay)
  BY DEF Admitted
<1>4. S \in SUBSET Nat
  BY <1>1, <1>3
<1>5. \A j \in 1..n, i \in 1..n : i < j => SameWindow(h, i, j) \/ LaterWindow(h, i, j)
  BY <1>1 DEF Spaced
<1> HIDE DEF S, n
<1>6. CASE S = {}
  <2>1. S \in SUBSET (LaterPlaces(0) \cup Places(0))
    BY <1>6
  <2> QED
    BY <2>1, PlacesCount DEF S
<1>7. CASE S # {}
  <2>1. PICK a \in S : \A j \in S : a <= j
    BY <1>4, <1>7, LeastNatural
  <2> DEFINE others == {j \in S : a < j /\ ~SameWindow(h, a, j)}
  <2>2. CASE others = {}
    <3>1. \A j \in S : j \in Places(a)
      BY <1>1, <1>3, <1>4, <2>1, <2>2, AdmittedTogether DEF n
    <3>2. S \in SUBSET (LaterPlaces(a) \cup Places(a)) /\ a \in Nat
      BY <1>4, <3>1
    <3> QED
      BY <3>2, PlacesCount DEF S
  <2>3. CASE others # {}
    <3>1. others \in SUBSET Nat
      BY <1>4
    <3>2. PICK b \in others : \A j \in others : b <= j
      BY <2>3, <3>1, LeastNatural
    <3>3. /\ a \in 1..n /\ b \in 1..n /\ a < b /\ a \in S /\ b \in S
          /\ LaterWindow(h, a, b)
      BY <1>3, <1>5, <3>2
    <3>4. ASSUME NEW j \in others PROVE j \in Places(b)
      <4>1. j \in S /\ j \in 1..n /\ b <= j
        BY <1>3, <3>2
      <4>2. b # j => ~LaterWindow(h, b, j)
        <5> SUFFICES ASSUME LaterWindow(h, b, j) PROVE FALSE
          OBVIOUS
        <5>1. h[a].at + Window <= h[b].expires + MaxDelay /\ h[b].expires <= h[j].at
          BY <3>3 DEF LaterWindow
        <5>2. from <= h[a].at /\ h[j].at < from + (Window - MaxDelay)
          BY <1>3, <3>3, <4>1
        <5> DEFINE x == h[a].at
                   y == h[b].expires
                   z == h[j].at
        <5>3. x \in Nat /\ y \in Nat /\ z \in Nat
          BY <1>1, <3>3, <4>1
        <5>4. /\ x + Window <= y + MaxDelay /\ y <= z
              /\ from <= x /\ z < from + (Window - MaxDelay)
          BY <5>1, <5>2
        <5> HIDE DEF x, y, z
        <5> QED
          BY <1>2, <5>3, <5>4
      <4>3. b # j => SameWindow(h, b, j)
        <5>1. b # j => b < j
          BY <1>1, <3>3, <4>1
        <5> QED
          BY <1>5, <3>3, <4>1, <4>2, <5>1
      <4> QED
        BY <1>3, <3>3, <4>1, <4>3, AdmittedTogether DEF n
    <3>5. h[a].number # 1
      <4> SUFFICES ASSUME h[a].number = 1 PROVE FALSE
        OBVIOUS
      <4>1. h[a].at + Window <= h[a].expires + MaxDelay /\ h[a].expires <= h[b].at
        BY <3>3 DEF LaterWindow, Opened, Opening, n
      <4>2. from <= h[a].at /\ h[b].at < from + (Window - MaxDelay)
        BY <1>3, <3>3
      <4> DEFINE x == h[a].at
                 y == h[a].expires
                 z == h[b].at
      <4>3. x \in Nat /\ y \in Nat /\ z \in Nat
        BY <1>1, <3>3
      <4>4. /\ x + Window <= y + MaxDelay /\ y <= z
            /\ from <= x /\ z < from + (Window - MaxDelay)
        BY <4>1, <4>2
      <4> HIDE DEF x, y, z
      <4> QED
        BY <1>2, <4>3, <4>4
    <3>6. ASSUME NEW j \in S, j \notin others PROVE j \in LaterPlaces(a)
      <4>1. a <= j /\ a \in Nat /\ j \in Nat /\ j \in 1..n
        BY <1>3, <1>4, <2>1, <3>3
      <4>2. a # j => a < j
        BY <4>1
      <4>3. a # j => SameWindow(h, a, j)
        BY <3>6, <4>2, Zenon
      <4> QED
        BY <1>3, <3>3, <3>5, <4>1, <4>3, AdmittedTogether DEF n
    <3> HIDE DEF others
    <3>7. S \in SUBSET (LaterPlaces(a) \cup Places(b))
      <4>1. \A j \in S : j \in LaterPlaces(a) \/ j \in Places(b)
        BY <3>4, <3>6, Zenon
      <4> QED
        BY <4>1, Zenon
    <3>8. a \in Nat /\ b \in Nat
      BY <1>1, <3>3
    <3> QED
      BY <3>7, <3>8, PlacesCount DEF S
  <2> QED
    BY <2>2, <2>3
<1> QED
  BY <1>6, <1>7 DEF S

(* However many attempts overlap, in any number of windows, a subject gets *)
(* fewer than twice the allowed attempts within a window's length less the *)
(* delay of a transaction (enforce_rate_limit).                            *)
THEOREM TwiceAllowedAtMost == LimiterSpec => []AtMostTwoWindows
<1>1. LimiterInv /\ SpacingInv => AtMostTwoWindows
  <2> SUFFICES ASSUME LimiterInv, SpacingInv, NEW s \in Subjects, NEW from \in 0..clock
               PROVE  Cardinality(AdmittedIn(s, from, Window - MaxDelay)) < 2 * Allowed
    BY DEF AtMostTwoWindows
  <2>1. history[s] \in Seq(Counted) /\ clock \in Nat
    BY DEF LimiterInv, LimiterTypeOK
  <2>2. AdmittedIn(s, from, Window - MaxDelay) = Admitted(history[s], from, Window - MaxDelay)
    BY <2>1 DEF AdmittedIn, Admitted
  <2>3. Spaced(history[s]) /\ Opened(history[s]) /\ from \in Nat
    BY <2>1 DEF SpacingInv
  <2> QED
    BY <2>1, <2>2, <2>3, AdmittedIsBounded
<1>2. LimiterSpec => []SpacingInv
  <2>1. LimiterInv /\ SpacingInv /\ [LimiterNext]_limiterVars => SpacingInv'
    BY SpacingSteps
  <2> QED
    BY <2>1, SpacingStarts, LimiterAlways, PTL DEF LimiterSpec
<1> QED
  BY <1>1, <1>2, LimiterAlways, PTL
-------------------------------------------------------------------------------

(***************************************************************************)
(* The run of the three parts together: whatever one of them does the      *)
(* others rest, so that each behaves as it is specified.                   *)
(***************************************************************************)
LEMMA EachPartRuns == ServiceSpec => LimiterSpec /\ TelemetrySpec /\ PipelineSpec
<1>1. ServiceInit => LimiterInit /\ TelemetryInit /\ PipelineInit
  BY DEF ServiceInit
<1>2. [ServiceNext]_serviceVars => [LimiterNext]_limiterVars
  <2> SUFFICES ASSUME [ServiceNext]_serviceVars PROVE [LimiterNext]_limiterVars
    OBVIOUS
  <2>1. CASE ServiceNext
    BY <2>1 DEF ServiceNext
  <2>2. CASE UNCHANGED serviceVars
    BY <2>2 DEF serviceVars
  <2> QED
    BY <2>1, <2>2
<1>3. [ServiceNext]_serviceVars => [TelemetryNext]_telemetryVars
  <2> SUFFICES ASSUME [ServiceNext]_serviceVars PROVE [TelemetryNext]_telemetryVars
    OBVIOUS
  <2>1. CASE ServiceNext
    BY <2>1 DEF ServiceNext
  <2>2. CASE UNCHANGED serviceVars
    BY <2>2 DEF serviceVars
  <2> QED
    BY <2>1, <2>2
<1>4. [ServiceNext]_serviceVars => [PipelineNext]_pipelineVars
  <2> SUFFICES ASSUME [ServiceNext]_serviceVars PROVE [PipelineNext]_pipelineVars
    OBVIOUS
  <2>1. CASE ServiceNext
    BY <2>1 DEF ServiceNext
  <2>2. CASE UNCHANGED serviceVars
    BY <2>2 DEF serviceVars
  <2> QED
    BY <2>1, <2>2
<1> QED
  BY <1>1, <1>2, <1>3, <1>4, PTL DEF ServiceSpec, LimiterSpec, TelemetrySpec, PipelineSpec

(* Every variable of the three parts has its type when they run together:  *)
(* the rows and locks of the limiter, the workers and their file, and the  *)
(* requests, their contexts, counts and events.                            *)
THEOREM ServiceTypes == ServiceSpec => []ServiceTypeOK
<1>1. LimiterTypeOK /\ TelemetryInv /\ PipelineInv /\ running \in Parts => ServiceTypeOK
  BY DEF ServiceTypeOK, TelemetryInv, PipelineInv
<1>2. ServiceSpec => [](running \in Parts)
  <2>1. ServiceInit => running \in Parts
    BY DEF ServiceInit
  <2>2. running \in Parts /\ [ServiceNext]_serviceVars => (running \in Parts)'
    <3> SUFFICES ASSUME running \in Parts, [ServiceNext]_serviceVars
                 PROVE  (running \in Parts)'
      OBVIOUS
    <3>1. running' = running
      BY DEF ServiceNext, serviceVars
    <3> QED
      BY <3>1
  <2> QED
    BY <2>1, <2>2, PTL DEF ServiceSpec
<1> QED
  BY <1>1, <1>2, EachPartRuns, LimiterTypes, TelemetryAlways, PipelineAlways, PTL
===============================================================================
