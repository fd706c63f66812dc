----------------------------- MODULE RunStream ------------------------------
(***************************************************************************)
(* A run watched over server-sent events: streamRun of the Hunter, which   *)
(* admits the run, replays its stored events from the client's             *)
(* Last-Event-ID and then polls the store; and useAgentStream of the       *)
(* browser, whose EventSource reconnects by itself.  Messages on a         *)
(* connection that is lost are lost with it.                               *)
(***************************************************************************)
EXTENDS Naturals, Sequences, FiniteSets

CONSTANTS
  MaxTrace,      \* bound on the events of the run
  MaxDrops,      \* bound on connections lost or refused
  AnyReplica     \* runManager.distributed: any replica may follow the run

ASSUME StreamAssumption == MaxTrace \in Nat /\ MaxDrops \in Nat /\ AnyReplica \in BOOLEAN

VARIABLES
  saved,     \* the durable run: status, number of events, the run_failed event
             \* among them (0 for none), executed by this process
  es,        \* the EventSource: readyState, Last-Event-ID, has the page stopped it
  feed,      \* the handler of its connection: open or ended, events sent, bytes in flight
  shown,     \* the events on the page, by number
  view,      \* StreamState.status
  drops

streamVars == <<saved, es, feed, shown, view, drops>>

NoId == MaxTrace + 2                    \* a message without an id field
StreamMessage == [kind : {"ready", "trace", "done", "error"}, id : 0..NoId]
NoFeed == [open |-> FALSE, sent |-> 0, wire |-> <<>>]
SavedRun == [status : {"absent", "running", "completed", "failed", "cancelled"},
             len : 0..MaxTrace, failedAt : 0..MaxTrace, here : BOOLEAN]

StreamInit ==
  /\ saved = [status |-> "absent", len |-> 0, failedAt |-> 0, here |-> FALSE]
  /\ es = [state |-> "none", lastId |-> 0, stopped |-> FALSE]
  /\ feed = NoFeed
  /\ shown = <<>> /\ view = "IDLE" /\ drops = 0

(***************************************************************************)
(* The run, as the store shows it                                          *)
(***************************************************************************)
RunAppends ==
  /\ saved.status = "running" /\ (saved.here \/ AnyReplica) /\ saved.len < MaxTrace
  /\ \E failure \in BOOLEAN :
       saved' = [saved EXCEPT !.len = @ + 1,
                   !.failedAt = IF failure /\ @ = 0 THEN saved.len + 1 ELSE @]
  /\ UNCHANGED <<es, feed, shown, view, drops>>

RunEnds ==
  /\ saved.status = "running" /\ (saved.here \/ AnyReplica)
  /\ \E s \in {"completed", "failed", "cancelled"} : saved' = [saved EXCEPT !.status = s]
  /\ UNCHANGED <<es, feed, shown, view, drops>>

\* A failed run whose audit was paid for and delivered is completed later,
\* with the events of the delivery added to its log.
RunRecovered ==
  /\ saved.status = "failed"
  /\ \E n \in (saved.len + 1)..MaxTrace :
       saved' = [saved EXCEPT !.status = "completed", !.len = n]
  /\ UNCHANGED <<es, feed, shown, view, drops>>

(***************************************************************************)
(* streamRun                                                               *)
(***************************************************************************)
\* submit admits the run or finds it; the first message always has id 0.
StreamOpens ==
  /\ es.state = "connecting"
  /\ saved' = IF saved.status = "absent"
                THEN [saved EXCEPT !.status = "running", !.here = TRUE] ELSE saved
  /\ feed' = [open |-> TRUE, sent |-> es.lastId, wire |-> <<[kind |-> "ready", id |-> 0]>>]
  /\ es' = [es EXCEPT !.state = "open"]
  /\ UNCHANGED <<shown, view, drops>>

\* A response that is not 200 (the store cannot admit, the key conflicts, the
\* token is wrong) ends an EventSource for good; its plain Event is ignored.
StreamRefused ==
  /\ es.state = "connecting" /\ drops < MaxDrops
  /\ es' = [es EXCEPT !.state = "closed"]
  /\ drops' = drops + 1
  /\ UNCHANGED <<saved, feed, shown, view>>

TraceIdLate(n) == n + 1                   \* variant: the id counts from one
TraceId(n) == n

Traces(from, to) ==
  [i \in 1..(IF from < to THEN to - from ELSE 0) |->
     [kind |-> "trace", id |-> TraceId(from + i)]]

\* One turn of the loop: new events, then the outcome or the loss of the run.
StreamPolls ==
  /\ feed.open
  /\ LET traces == Traces(feed.sent, saved.len)
         end    == [kind |-> IF saved.status = "completed" THEN "done" ELSE "error",
                    id   |-> IF saved.status = "running" THEN NoId ELSE saved.len + 1]
         ends   == saved.status # "running" \/ (~saved.here /\ ~AnyReplica)
     IN /\ traces # <<>> \/ ends
        /\ feed' = [open |-> ~ends,
                    sent |-> feed.sent + Len(traces),
                    wire |-> feed.wire \o traces \o (IF ends THEN <<end>> ELSE <<>>)]
  /\ UNCHANGED <<saved, es, shown, view, drops>>

(***************************************************************************)
(* useAgentStream                                                          *)
(***************************************************************************)
StreamStarts ==
  /\ es.state = "none"
  /\ es' = [es EXCEPT !.state = "connecting"]
  /\ view' = "RUNNING"
  /\ UNCHANGED <<saved, feed, shown, drops>>

\* The number of the event in the trace message at the head of the wire.
EventAtHead ==
  feed.sent + 1 - Cardinality({i \in 1..Len(feed.wire) : feed.wire[i].kind = "trace"})

\* The browser keeps the id of the last message it dispatched.  The page closes
\* its EventSource at the outcome, and already at a run_failed event.
Dispatch ==
  /\ es.state = "open" /\ feed.wire # <<>>
  /\ LET msg   == Head(feed.wire)
         fails == msg.kind = "error" \/ (msg.kind = "trace" /\ EventAtHead = saved.failedAt)
         ends  == fails \/ msg.kind = "done"
     IN /\ es' = [es EXCEPT !.lastId = IF msg.id = NoId THEN @ ELSE msg.id,
                            !.state = IF ends THEN "closed" ELSE @]
        /\ shown' = IF msg.kind = "trace" THEN Append(shown, EventAtHead) ELSE shown
        /\ view' = CASE msg.kind = "done" -> "COMPLETED"
                     [] fails             -> "ERROR"
                     [] OTHER             -> view
        /\ feed' = IF ends THEN NoFeed ELSE [feed EXCEPT !.wire = Tail(@)]
  /\ UNCHANGED <<saved, drops>>

\* The network, a proxy or the server drops the connection.
StreamLost ==
  /\ es.state = "open" /\ drops < MaxDrops
  /\ es' = [es EXCEPT !.state = "connecting"]
  /\ feed' = NoFeed
  /\ drops' = drops + 1
  /\ UNCHANGED <<saved, shown, view>>

\* The process that executes the run ends, and the connection with it.
HunterRestarts ==
  /\ saved.status = "running" /\ saved.here /\ drops < MaxDrops
  /\ saved' = [saved EXCEPT !.here = FALSE]
  /\ es' = [es EXCEPT !.state = IF @ = "open" THEN "connecting" ELSE @]
  /\ feed' = NoFeed
  /\ drops' = drops + 1
  /\ UNCHANGED <<shown, view>>

\* stopRun, and cancelRun, which then asks the Hunter to cancel (RunEnds).
PageStops ==
  /\ es.state \in {"connecting", "open"}
  /\ es' = [es EXCEPT !.state = "closed", !.stopped = TRUE]
  /\ feed' = NoFeed
  /\ UNCHANGED <<saved, shown, view, drops>>

StreamNext ==
  \/ RunAppends \/ RunEnds \/ RunRecovered
  \/ StreamOpens \/ StreamRefused \/ StreamPolls
  \/ StreamStarts \/ Dispatch \/ StreamLost \/ HunterRestarts \/ PageStops

StreamSpec == StreamInit /\ [][StreamNext]_streamVars

(***************************************************************************)
(* Properties                                                              *)
(***************************************************************************)
\* However often the connection is lost, the page never shows an event before
\* all earlier ones, and a page that shows a result shows every event of the
\* run (an event may be shown again: the ready message resets the id).
NothingSkipped ==
  /\ \A i \in 1..Len(shown) : \A n \in 1..(shown[i] - 1) : \E j \in 1..(i - 1) : shown[j] = n
  /\ view = "COMPLETED" => \A n \in 1..saved.len : \E i \in 1..Len(shown) : shown[i] = n
=============================================================================
