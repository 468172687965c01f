------------------------------ MODULE BidiRead ------------------------------
(***************************************************************************)
(* Multiplexed ranged reads of the storage client (storage/src/storage/    *)
(* bidi): ObjectDescriptorTransport and the RangeReaders it hands out, the *)
(* Worker that serves them all from one stream, its Connector, and, from   *)
(* how they use it, the service.                                           *)
(*                                                                         *)
(* A reader stands for one read_range call and its range.  The object is   *)
(* the bytes 1..Size, the byte at offset o being o + 1; a negative offset  *)
(* is a tail range, whose start the service works out from the end.  Each  *)
(* reader has a bounded channel, whose sender lives in the ActiveRead; a   *)
(* reader whose channel is empty and has no sender left reports a normal   *)
(* end.                                                                    *)
(***************************************************************************)
EXTENDS Integers, Sequences, FiniteSets

CONSTANTS
    Readers,
    Offset(_), Limit(_),  \* the RequestedRange of a reader; limit 0: to the end
    Size,                 \* bytes in the object
    ChannelSize,          \* capacity of a reader's channel
    ResumeLimit,          \* attempt limit of the read resume policy
    MaxChunk,             \* bound: bytes in one response
    MaxResponses,         \* bound: responses on their way
    MaxFaults             \* bound: faults of the service and the network

ASSUME BidiReadAssumption ==
    /\ Size \in Nat /\ ChannelSize \in Nat \ {0} /\ ResumeLimit \in Nat
    /\ MaxChunk \in Nat \ {0} /\ MaxResponses \in Nat \ {0} /\ MaxFaults \in Nat
    /\ \A r \in Readers : \/ Offset(r) \in 0..(Size - 1) /\ Limit(r) \in 0..(Size - Offset(r))
                          \/ Offset(r) \in (-Size)..(-1) /\ Limit(r) = 0

VARIABLES
    \* the application
    outcome,        \* of each reader: "none", "open", "eof", "error", "dropped"
    seen,           \* the bytes it received
    held,           \* the ObjectDescriptor is alive
    panicked,       \* read_range panicked (transport.rs:138)
    \* the channels
    inbox,          \* of each reader: chunks, or <<0>> for an error
    requests,       \* ObjectDescriptorTransport::tx
    \* the worker and its connector
    pc,             \* "run", "send", "connect", "closing", "err", "ok"
    out,            \* the Handler being sent: <<reader, chunk>>, or <<>>
    ranges,         \* Worker::ranges
    next_range_id,
    reconnect_attempts,
    notify,         \* close_readers: the readers still to be told
    todo,           \* handle_ranges: how many of resps are the rest of the response in hand
    failed,         \* handle_ranges captured an error
    \* the stream and the service
    stream,         \* "open", or how it ended
    reqs, resps,    \* in flight
    serving,        \* the ranges the service works on
    faults,
    \* history
    closed,         \* the service closed the stream
    bad,            \* the readers whose data was dropped for its checksum
    cut             \* and those of them whose range_end was handled all the same

app     == <<outcome, seen, held, panicked>>
worker  == <<pc, out, ranges, next_range_id, reconnect_attempts, notify, todo, failed>>
net     == <<stream, reqs, resps, serving, faults>>
history == <<closed, bad, cut>>
vars    == <<app, inbox, requests, worker, net, history>>

Unbounded == Size + 1
Error     == <<0>>
Bytes(m, n) == [i \in 1..(n - m) |-> m + i]

\* The service's reading of a range, as its start and its end.
Start(offset) == IF offset < 0 THEN Size + offset ELSE offset
End(offset, length) == IF length = 0 THEN Size ELSE offset + length
From(r) == Start(Offset(r))
UpTo(r) == End(Offset(r), Limit(r))

\* ActiveRead: the RemainingRange, which starts as the RequestedRange.
ActiveRead(id, r) == [id |-> id, r |-> r, offset |-> Offset(r),
                      length |-> IF Limit(r) = 0 THEN Unbounded ELSE Limit(r)]

\* Mutant: a resumed read asks for its whole range again.
as_proto_requested(a) == [id |-> a.id, offset |-> Offset(a.r), length |-> Limit(a.r)]

\* as_proto: a length of 0 asks for everything to the end of the object.
as_proto(a) == [id |-> a.id, offset |-> a.offset,
                length |-> IF a.length = Unbounded THEN 0 ELSE a.length]

\* ObjectDescriptorTransport::new with no initial ranges.
Init ==
    /\ outcome = [r \in Readers |-> "none"]
    /\ seen = [r \in Readers |-> <<>>]
    /\ held = TRUE
    /\ panicked = FALSE
    /\ inbox = [r \in Readers |-> <<>>]
    /\ requests = <<>>
    /\ pc = "run"
    /\ out = <<>>
    /\ ranges = {}
    /\ next_range_id = 0
    /\ reconnect_attempts = 0
    /\ notify = {}
    /\ todo = 0
    /\ failed = FALSE
    /\ stream = "open"
    /\ reqs = <<>>
    /\ resps = <<>>
    /\ serving = {}
    /\ faults = 0
    /\ closed = FALSE
    /\ bad = {}
    /\ cut = {}

-----------------------------------------------------------------------------
(* The application: reads may run in any number of tasks.                  *)

\* The receiver of requests lives until the worker returns.
WorkerReturned == pc = "ok"

read_range(r) ==
    /\ held /\ ~panicked
    /\ outcome[r] = "none"
    /\ IF WorkerReturned
         THEN panicked' = TRUE /\ UNCHANGED <<outcome, requests>>
         ELSE /\ requests' = Append(requests, r)
              /\ outcome' = [outcome EXCEPT ![r] = "open"]
              /\ UNCHANGED panicked
    /\ UNCHANGED <<seen, held, inbox, worker, net, history>>

\* Someone may still send to the reader.
HasSender(r) ==
    \/ \E a \in ranges : a.r = r
    \/ \E i \in DOMAIN requests : requests[i] = r
    \/ pc = "send" /\ out[1] = r

\* RangeReader::next.
next(r) ==
    /\ outcome[r] = "open"
    /\ \/ /\ inbox[r] # <<>>
          /\ inbox' = [inbox EXCEPT ![r] = Tail(@)]
          /\ IF Head(inbox[r]) = Error
               THEN outcome' = [outcome EXCEPT ![r] = "error"] /\ UNCHANGED seen
               ELSE seen' = [seen EXCEPT ![r] = @ \o Head(inbox[r])] /\ UNCHANGED outcome
       \/ /\ inbox[r] = <<>> /\ ~HasSender(r)
          /\ outcome' = [outcome EXCEPT ![r] = "eof"]
          /\ UNCHANGED <<seen, inbox>>
    /\ UNCHANGED <<held, panicked, requests, worker, net, history>>

DropReader(r) ==
    /\ outcome[r] \in {"open", "eof", "error"}
    /\ outcome' = [outcome EXCEPT ![r] = "dropped"]
    /\ inbox' = [inbox EXCEPT ![r] = <<>>]
    /\ UNCHANGED <<seen, held, panicked, requests, worker, net, history>>

DropDescriptor ==
    /\ held
    /\ held' = FALSE
    /\ UNCHANGED <<outcome, seen, panicked, inbox, requests, worker, net, history>>

-----------------------------------------------------------------------------
(* The worker.                                                             *)

\* The worker waits in select!, with no response in hand.
Selecting == pc = "run" /\ todo = 0 /\ ~failed

Sent(s) == IF stream = "open" THEN Append(reqs, s) ELSE reqs

\* insert_ranges, for all the requests that are queued.
insert_ranges ==
    /\ Selecting /\ requests # <<>>
    /\ LET new == {ActiveRead(next_range_id + i - 1, requests[i]) : i \in DOMAIN requests} IN
         /\ ranges' = ranges \cup new
         /\ reqs' = Sent({as_proto(a) : a \in new})
    /\ next_range_id' = next_range_id + Len(requests)
    /\ requests' = <<>>
    /\ UNCHANGED <<app, inbox, pc, out, reconnect_attempts, notify, todo, failed, stream, resps,
                   serving, faults, history>>

\* Every sender is gone: the descriptor and all the readers.
NobodyLeft == requests = <<>> /\ ~held /\ \A r \in Readers : outcome[r] \in {"none", "dropped"}

\* run drops its end of the stream when it leaves the loop.
Disconnect ==
    /\ stream' = "closed"
    /\ reqs' = <<>> /\ resps' = <<>> /\ serving' = {}
    /\ UNCHANGED faults

\* The worker returns and drops what it has.
Returns ==
    /\ pc' = "ok"
    /\ ranges' = {}
    /\ requests' = <<>>
    /\ Disconnect
    /\ UNCHANGED <<app, inbox, out, next_range_id, reconnect_attempts, notify, todo, failed, history>>

RequestsClosed == (Selecting \/ pc = "err") /\ NobodyLeft /\ Returns

\* RemainingRange::update: the response must continue the range and not exceed
\* it; normalize takes the offset of a tail range from its first response.
InOrder(a, d) ==
    /\ a.offset >= 0 => d.offset = a.offset
    /\ a.length = Unbounded \/ Len(d.data) <= a.length
update(a, d) == [a EXCEPT !.offset = d.offset + Len(d.data),
                          !.length = IF @ = Unbounded THEN @ ELSE @ - Len(d.data)]

\* ActiveRead::handle_data: a response without data that ends the range early is
\* a ShortRead, data with the wrong checksum a ChecksumMismatch.
Valid(a, d) ==
    /\ InOrder(a, d)
    /\ d.data = <<>> /\ d.end => update(a, d).length \in {0, Unbounded}
    /\ d.intact

\* The error branches of handle_response_success and reconnect.
CloseReaders ==
    /\ notify' = {a.r : a \in ranges}
    /\ pc' = "closing"
    /\ UNCHANGED ranges

\* The n items at the head of resps are a response, or what is left of the one in
\* hand.  How the service groups the data it sends into responses is its own
\* affair: any prefix of what is on its way may be the next one.
InHand(n) == n \in 1..Len(resps) /\ (n = todo \/ Selecting)

\* handle_response, and the loop of handle_ranges, one turn at a time.  range_end
\* removes the ActiveRead before its data is looked at; otherwise the state is
\* advanced before the checksum is looked at.  After an error the loop goes on with
\* the rest of the response.
handle_range_data(n) ==
    /\ pc = "run" /\ InHand(n)
    /\ todo' = n - 1
    /\ resps' = Tail(resps)
    /\ LET d       == Head(resps)
           here    == {a \in ranges : a.id = d.id}
           rest    == ranges \ here
           ok      == here # {} /\ \A a \in here : Valid(a, d)
           dropped == {a \in here : InOrder(a, d) /\ ~d.intact} IN
         /\ ranges' = IF d.end THEN rest
                      ELSE rest \cup {IF InOrder(a, d) THEN update(a, d) ELSE a : a \in here}
         /\ failed' = (failed \/ ~ok)
         /\ bad' = bad \cup {a.r : a \in dropped}
         /\ cut' = cut \cup {a.r : a \in {b \in here : d.end /\ b.r \in bad'}}
         /\ IF ok /\ d.data # <<>>
              THEN pc' = "send" /\ \E a \in here : out' = <<a.r, d.data>>
              ELSE UNCHANGED <<pc, out>>
    /\ UNCHANGED <<app, inbox, requests, next_range_id, reconnect_attempts, notify, stream, reqs,
                   serving, faults, closed>>

\* handle_ranges returns the error it captured.
RangesFailed ==
    /\ pc = "run" /\ todo = 0 /\ failed
    /\ CloseReaders
    /\ failed' = FALSE
    /\ UNCHANGED <<app, inbox, requests, out, next_range_id, reconnect_attempts, todo, net, history>>

\* Mutant: try_send, which loses data for a reader that is slow.
HandlerSend_trySend ==
    /\ pc = "send"
    /\ inbox' = IF outcome[out[1]] = "dropped" \/ Len(inbox[out[1]]) >= ChannelSize
                  THEN inbox ELSE [inbox EXCEPT ![out[1]] = Append(@, out[2])]
    /\ pc' = "run"
    /\ out' = <<>>
    /\ UNCHANGED <<app, requests, ranges, next_range_id, reconnect_attempts, notify, todo, failed, net,
                   history>>

\* Handler::send waits for room in the reader's channel, whatever else there is
\* to do; data for a dropped reader is discarded.
HandlerSend ==
    /\ pc = "send"
    /\ IF outcome[out[1]] = "dropped"
         THEN UNCHANGED inbox
         ELSE /\ Len(inbox[out[1]]) < ChannelSize
              /\ inbox' = [inbox EXCEPT ![out[1]] = Append(@, out[2])]
    /\ pc' = "run"
    /\ out' = <<>>
    /\ UNCHANGED <<app, requests, ranges, next_range_id, reconnect_attempts, notify, todo, failed, net,
                   history>>

\* close_readers: all the sends at once, then the map is cleared.
close_reader(r) ==
    /\ pc = "closing" /\ r \in notify
    /\ IF outcome[r] = "dropped"
         THEN UNCHANGED inbox
         ELSE /\ Len(inbox[r]) < ChannelSize
              /\ inbox' = [inbox EXCEPT ![r] = Append(@, Error)]
    /\ notify' = notify \ {r}
    /\ UNCHANGED <<app, requests, pc, out, ranges, next_range_id, reconnect_attempts, todo, failed, net,
                   history>>

ReadersClosed ==
    /\ pc = "closing" /\ notify = {}
    /\ ranges' = {}
    /\ pc' = "err"
    /\ Disconnect
    /\ UNCHANGED <<app, inbox, requests, out, next_range_id, reconnect_attempts, notify, todo, failed,
                   history>>

\* After an error, readers that come later are told at once.
FutureReader ==
    /\ pc = "err" /\ requests # <<>>
    /\ inbox' = [inbox EXCEPT ![Head(requests)] =
                    IF outcome[Head(requests)] = "dropped" THEN @ ELSE Append(@, Error)]
    /\ requests' = Tail(requests)
    /\ UNCHANGED <<app, worker, net, history>>

\* Ok(None): the service ended the stream.
StreamClosed == Selecting /\ resps = <<>> /\ stream = "closed" /\ Returns

\* Connector::reconnect consults the resume policy; a redirect always goes on.
Reconnect ==
    /\ Selecting /\ resps = <<>>
    /\ stream \in {"transient", "redirect", "permanent"}
    /\ reconnect_attempts' = reconnect_attempts + 1
    /\ IF \/ stream = "redirect"
          \/ stream = "transient" /\ reconnect_attempts' < ResumeLimit
         THEN pc' = "connect" /\ UNCHANGED <<ranges, notify>>
         ELSE CloseReaders
    /\ UNCHANGED <<app, inbox, requests, out, next_range_id, todo, failed, net, history>>

\* Mutant: the new stream does not ask for the reads of the old one.
ConnectOk_empty ==
    /\ pc = "connect"
    /\ pc' = "run"
    /\ stream' = "open"
    /\ reqs' = <<>>
    /\ UNCHANGED <<app, inbox, requests, out, ranges, next_range_id, reconnect_attempts,
                   notify, todo, failed, resps, serving, faults, history>>

\* The new stream opens with everything that remains to be read.
ConnectOk ==
    /\ pc = "connect"
    /\ pc' = "run"
    /\ stream' = "open"
    /\ reqs' = <<{as_proto(a) : a \in ranges}>>
    /\ UNCHANGED <<app, inbox, requests, out, ranges, next_range_id, reconnect_attempts,
                   notify, todo, failed, resps, serving, faults, history>>

ConnectFails ==
    /\ pc = "connect" /\ faults < MaxFaults
    /\ faults' = faults + 1
    /\ CloseReaders
    /\ UNCHANGED <<app, inbox, requests, out, next_range_id, reconnect_attempts, todo, failed, stream,
                   reqs, resps, serving, history>>
-----------------------------------------------------------------------------
(* The service, external to the repository.                                *)

client == <<app, inbox, requests, worker>>
Live   == stream = "open" /\ pc \in {"run", "send"}

TakeRequest ==
    /\ Live /\ reqs # <<>>
    /\ serving' = serving \cup
         {[id |-> p.id, offset |-> Start(p.offset), upto |-> End(p.offset, p.length)] :
            p \in Head(reqs)}
    /\ reqs' = Tail(reqs)
    /\ UNCHANGED <<client, stream, resps, faults, history>>

Data(s, n, end, intact) ==
    [id |-> s.id, offset |-> s.offset, data |-> Bytes(s.offset, s.offset + n),
     end |-> end, intact |-> intact]

\* The last data of a range may carry range_end, or leave it to an item of its
\* own.
Respond(s, n, end, intact) ==
    /\ Live /\ Len(resps) < MaxResponses
    /\ n <= s.upto - s.offset /\ (n = 0 => end)
    /\ end => n = s.upto - s.offset
    /\ resps' = Append(resps, Data(s, n, end, intact))
    /\ serving' = (serving \ {s}) \cup
         (IF end THEN {} ELSE {[s EXCEPT !.offset = @ + n]})
    /\ UNCHANGED <<client, stream, reqs, history>>

Serve(s, n, end) == Respond(s, n, end, TRUE) /\ UNCHANGED faults

\* Data damaged on the way, which its checksum shows; the service knows nothing
\* of it.
Corrupt(s, n, end) ==
    /\ faults < MaxFaults
    /\ faults' = faults + 1
    /\ n > 0 /\ Respond(s, n, end, FALSE)

\* The stream ends; what is on its way may be lost with it, but not the response
\* that the worker has in hand.
Break(kind) ==
    /\ Live /\ faults < MaxFaults
    /\ faults' = faults + 1
    /\ stream' = kind
    /\ closed' = (closed \/ kind = "closed")
    /\ reqs' = <<>>
    /\ serving' = {}
    /\ resps' \in {resps, SubSeq(resps, 1, todo)}
    /\ UNCHANGED <<client, bad, cut>>

-----------------------------------------------------------------------------
WorkerSteps ==
    \/ insert_ranges \/ RequestsClosed
    \/ (\E n \in 1..MaxResponses : handle_range_data(n)) \/ HandlerSend \/ RangesFailed
    \/ (\E r \in Readers : close_reader(r)) \/ ReadersClosed \/ FutureReader
    \/ StreamClosed \/ Reconnect \/ ConnectOk
ServiceSteps ==
    \/ TakeRequest
    \/ \E s \in serving, n \in 0..MaxChunk, end \in BOOLEAN : Serve(s, n, end)
Faults ==
    \/ ConnectFails
    \/ \E s \in serving, n \in 1..MaxChunk, end \in BOOLEAN : Corrupt(s, n, end)
    \/ \E kind \in {"closed", "transient", "redirect", "permanent"} : Break(kind)
Next ==
    \/ \E r \in Readers : read_range(r) \/ next(r) \/ DropReader(r)
    \/ DropDescriptor \/ WorkerSteps \/ ServiceSteps \/ Faults

Spec == Init /\ [][Next]_vars

\* The worker's task runs, the service serves a stream that does not break, and
\* every reader is read, as by a task of its own.
FairSpec ==
    /\ Spec
    /\ WF_vars(WorkerSteps) /\ WF_vars(ServiceSteps)
    /\ \A r \in Readers : WF_vars(next(r))

-----------------------------------------------------------------------------
(* Properties.                                                             *)

Reads     == [id : Nat, r : Readers, offset : Int, length : Nat]
Protos    == [id : Nat, offset : Int, length : Nat]
Responses == [id : Nat, offset : Nat, data : Seq(Nat), end : BOOLEAN, intact : BOOLEAN]
Served    == [id : Nat, offset : Nat, upto : Nat]

\* Every variable keeps its type; no channel is overfilled, whatever the worker
\* sends to it.
TypeOK ==
    /\ outcome \in [Readers -> {"none", "open", "eof", "error", "dropped"}]
    /\ seen \in [Readers -> Seq(Nat)]
    /\ held \in BOOLEAN /\ panicked \in BOOLEAN
    /\ inbox \in [Readers -> Seq(Seq(Nat))]
    /\ \A r \in Readers : Len(inbox[r]) <= ChannelSize
    /\ requests \in Seq(Readers)
    /\ pc \in {"run", "send", "connect", "closing", "err", "ok"}
    /\ IF pc = "send" THEN out \in Readers \X Seq(Nat) ELSE out = <<>>
    /\ ranges \subseteq Reads
    /\ next_range_id \in Nat /\ reconnect_attempts \in Nat
    /\ \A a \in ranges : a.id < next_range_id /\ a.offset \in (-Size)..Size
    /\ notify \subseteq Readers
    /\ stream \in {"open", "closed", "transient", "redirect", "permanent"}
    /\ reqs \in Seq(SUBSET Protos) /\ resps \in Seq(Responses) /\ serving \subseteq Served
    /\ todo \in 0..Len(resps) /\ failed \in BOOLEAN
    /\ todo > 0 \/ failed => pc \in {"run", "send"}
    /\ faults \in 0..MaxFaults /\ closed \in BOOLEAN
    /\ bad \subseteq Readers /\ cut \subseteq bad

\* A reader sees bytes of its own range, in order and none twice, and, unless the
\* worker dropped some of its data for a checksum, from the start of the range
\* without a gap, no matter how often the stream was resumed.  Data is dropped only
\* in a response after which every reader that is left is told of the error.  A
\* normal end means that the reader has seen all of its range, unless the service
\* itself ended the stream, or its range_end came in the response of the dropped
\* data: to that reader the hole does not show.
ReadIsExact ==
    \A r \in Readers :
      LET n == Len(seen[r]) IN
      /\ \A i \in 1..n : From(r) + i <= seen[r][i] /\ seen[r][i] <= UpTo(r)
      /\ \A i, j \in 1..n : i < j => seen[r][i] < seen[r][j]
      /\ r \notin bad => seen[r] = Bytes(From(r), From(r) + n)
      /\ r \in bad /\ (\E a \in ranges : a.r = r) => failed \/ pc = "closing"
      /\ outcome[r] = "eof" => n = UpTo(r) - From(r) \/ closed \/ r \in cut

\* The responses on the way for a read id, the first and the last of them, and
\* where the data of one ends.
Coming(id) == {k \in DOMAIN resps : resps[k].id = id}
IsFirst(k) == \A j \in Coming(resps[k].id) : k <= j
IsLast(k)  == \A j \in Coming(resps[k].id) : j <= k
EndOf(d)   == d.offset + Len(d.data)

\* What the stream holds for a read: requests and ranges being served.
Asked(id) == {p \in UNION {reqs[i] : i \in DOMAIN reqs} : p.id = id}
Busy(id)  == {s \in serving : s.id = id}

\* While the stream is up, each active read is in exactly one place, asked for,
\* being served or completely answered, and there its data continues what the
\* ActiveRead has; ranges inserted while the stream was breaking too.  Nothing
\* else is on the stream: no response has an unknown read id.  Read ids are not
\* shared, however many streams there were.
EveryActiveReadIsServed ==
    /\ \A a, b \in ranges : a.id = b.id \/ a.r = b.r => a = b
    /\ (pc \in {"run", "send"} /\ stream = "open" /\ ~failed) =>
      /\ \A a \in ranges :
           LET data == Coming(a.id) IN
             /\ \A k \in data : IsFirst(k) => resps[k].offset = Start(a.offset)
             /\ \/ /\ data = {} /\ Busy(a.id) = {}
                   /\ \E p \in Asked(a.id) : Asked(a.id) = {p} /\ Start(p.offset) = Start(a.offset)
                \/ /\ Asked(a.id) = {}
                   /\ \E s \in Busy(a.id) :
                        /\ Busy(a.id) = {s}
                        /\ data = {} => s.offset = Start(a.offset)
                        /\ \A k \in data : IsLast(k) => ~resps[k].end /\ s.offset = EndOf(resps[k])
                \/ /\ Asked(a.id) = {} /\ Busy(a.id) = {}
                   /\ \E k \in data : IsLast(k) /\ resps[k].end
      /\ {s.id : s \in serving} \cup {resps[i].id : i \in DOMAIN resps}
           \subseteq {a.id : a \in ranges}

\* Every read that the application goes on reading ends, with its data or with
\* an error: no reader is forgotten when a stream is replaced or given up.
EveryReadEnds == \A r \in Readers : (outcome[r] = "open") ~> (outcome[r] # "open")

\* remaining_range.rs:26 says that a normalized range must be usable to resume
\* connections: what a resumed stream asks for lies within the reader's range.
ResumesWithinRange ==
    \A i \in DOMAIN reqs : \A p \in reqs[i] : \A a \in ranges :
      a.id = p.id => End(p.offset, p.length) <= UpTo(a.r)

=============================================================================
