---------------------------- MODULE ProgressStream ----------------------------
(***************************************************************************)
(* How the progress of one bulk transfer reaches a page that shows it: the *)
(* job in the memory of the replica that runs it and its subscribers       *)
(* (lib/transferWorker.ts), the last snapshot in table transfer_progress   *)
(* (lib/transferProgressStore.ts), the event stream and the plain request  *)
(* that serve them (routes/transfers.ts), and the hook in the page, which  *)
(* falls back from the stream to polling (client useTransferProgress.ts).  *)
(*                                                                         *)
(* A snapshot is whether the run goes on and its bytes: COMPLETED, FAILED  *)
(* and CANCELED are treated alike everywhere here. A viewer is one run of  *)
(* the hook's effect. Any request may reach any replica. Not modelled: the *)
(* heartbeat, speed and ETA, and a transfer started again after its end.   *)
(***************************************************************************)
EXTENDS Naturals, Sequences, FiniteSets

CONSTANTS
  Viewer,
  Proc,        \* replicas
  Nowhere,     \* no replica
  MaxBytes,    \* bound: bytes of the transfer
  MaxWire,     \* bound: messages on their way to a viewer
  MaxReads,    \* bound: polls under way at a time, of a stream and of a viewer
  MaxLosses,   \* bound: lines that drop, queries and requests that fail
  MaxCrashes   \* bound: replicas that die with the running job

ASSUME StreamAssumption ==
  /\ Nowhere \notin Proc
  /\ {MaxBytes, MaxWire, MaxReads} \subseteq Nat \ {0}
  /\ {MaxLosses, MaxCrashes} \subseteq Nat

VARIABLES
  job,      \* job[p]: the snapshot of the job in the memory of replica p
  host,     \* the replica whose job runs, or ran to its end
  row,      \* the row of transfer_progress
  writes,   \* upserts of the row that are not awaited
  subs,     \* subs[p]: the subscribers of the job in replica p
  stream,   \* stream[v]: the request for the event stream of viewer v
  wire,     \* wire[v]: the messages on their way to v
  line,     \* line[v]: the connection of that stream
  view,     \* view[v]: the hook of viewer v
  losses, crashes

streamVars ==
  <<job, host, row, writes, subs, stream, wire, line, view, losses, crashes>>

source == <<job, host, row, writes, crashes>>

Snapshot == [state : {"RUNNING", "ENDED"}, bytes : 0..MaxBytes]
Nothing == [state |-> "NONE", bytes |-> 0]
Ended(s) == s.state = "ENDED"

(* early: the stream was closed before its handler had hold of what a      *)
(* close has to release (the unsubscribe function, the timer).             *)
NoStream == [at |-> Nowhere, pc |-> "none", closed |-> FALSE, unsub |-> FALSE,
             timer |-> FALSE, reads |-> {}, early |-> FALSE]
NewView == [es |-> TRUE, poll |-> FALSE, gets |-> {}, max |-> 0, shown |-> Nothing,
            stopped |-> FALSE]

StreamTypeOK ==
  /\ job \in [Proc -> Snapshot \cup {Nothing}]
  /\ host \in Proc \cup {Nowhere}
  /\ row \in Snapshot \cup {Nothing} /\ writes \subseteq Snapshot
  /\ subs \in [Proc -> SUBSET Viewer]
  /\ stream \in [Viewer -> [at : Proc \cup {Nowhere}, pc : {"none", "reading", "done"},
                            closed : BOOLEAN, unsub : BOOLEAN, timer : BOOLEAN,
                            reads : SUBSET Snapshot, early : BOOLEAN]]
  /\ wire \in [Viewer -> Seq(Snapshot)] /\ line \in [Viewer -> {"up", "down"}]
  /\ view \in [Viewer -> [es : BOOLEAN, poll : BOOLEAN, gets : SUBSET Snapshot,
                          max : 0..MaxBytes, shown : Snapshot \cup {Nothing},
                          stopped : BOOLEAN]]
  /\ losses \in 0..MaxLosses /\ crashes \in 0..MaxCrashes

StreamInit ==
  /\ host \in Proc
  /\ job = [p \in Proc |-> IF p = host THEN [state |-> "RUNNING", bytes |-> 0] ELSE Nothing]
  /\ row = Nothing /\ writes = {}
  /\ subs = [p \in Proc |-> {}]
  /\ stream = [v \in Viewer |-> NoStream]
  /\ wire = [v \in Viewer |-> <<>>]
  /\ line = [v \in Viewer |-> "up"]
  /\ view = [v \in Viewer |-> NewView]
  /\ losses = 0 /\ crashes = 0

(* A step that is a loss.                                                  *)
Loss == losses < MaxLosses /\ losses' = losses + 1

----------------------------------------------------------------------------
(***************************************************************************)
(* The stream, server side                                                 *)
(***************************************************************************)

(* What is written to a line whose other end is closed goes nowhere.       *)
Sent(v, s) == IF view[v].es /\ line[v] = "up" THEN Append(wire[v], s) ELSE wire[v]

(* cleanup(): no more is sent, the timer is cleared, and the stream is     *)
(* unsubscribed ...                                                        *)
Cleaned(c) == [c EXCEPT !.closed = TRUE, !.timer = FALSE]

(* Seeded fault: a close leaves the subscriber behind.                     *)
LeftBehind(c) == FALSE

(* ... if the handler has the function for that by then.                   *)
Unsubscribes(c) == c.unsub

Silent(c) == c.closed

(* emit: the row is written without being awaited, and each subscriber is  *)
(* told; its stream closes with the end of the job.                        *)
Emit(p, s) ==
  LET told == {v \in subs[p] : ~stream[v].closed} IN
  /\ \A v \in told : Len(wire[v]) < MaxWire
  /\ writes' = writes \cup {s}
  /\ wire' = [v \in Viewer |-> IF v \in told THEN Sent(v, s) ELSE wire[v]]
  /\ stream' = [v \in Viewer |-> IF v \in told /\ Ended(s) THEN Cleaned(stream[v])
                                 ELSE stream[v]]
  /\ subs' = IF Ended(s) THEN [subs EXCEPT ![p] = @ \ {v \in told : Unsubscribes(stream[v])}]
             ELSE subs

(* The request arrives at replica p, which has the job: subscribe calls    *)
(* back at once, so the stream of a job that has ended is closed before    *)
(* the handler has its unsubscribe function.                               *)
Subscribe(v, p) ==
  /\ stream[v].pc = "none" /\ job[p] # Nothing
  /\ wire' = [wire EXCEPT ![v] = Sent(v, job[p])]
  /\ subs' = [subs EXCEPT ![p] = @ \cup {v}]
  /\ stream' = [stream EXCEPT ![v] = [NoStream EXCEPT !.at = p, !.pc = "done", !.unsub = TRUE,
                                        !.closed = Ended(job[p]), !.early = Ended(job[p])]]
  /\ UNCHANGED <<source, line, view, losses>>

(* ... or which does not: the handler waits for the row.                   *)
AwaitRow(v, p) ==
  /\ stream[v].pc = "none" /\ job[p] = Nothing
  /\ stream' = [stream EXCEPT ![v] = [NoStream EXCEPT !.at = p, !.pc = "reading"]]
  /\ UNCHANGED <<source, subs, wire, line, view, losses>>

Missing(s) == s = Nothing

(* The first row is sent, without a look at whether the stream was closed  *)
(* meanwhile; and unless it is the end, the timer is set.                  *)
FirstRow(v) ==
  LET c == stream[v] IN
  /\ c.pc = "reading"
  /\ wire' = IF Missing(row) THEN wire ELSE [wire EXCEPT ![v] = Sent(v, row)]
  /\ stream' = [stream EXCEPT ![v] =
       IF Ended(row) THEN [Cleaned(c) EXCEPT !.pc = "done"]
       ELSE [c EXCEPT !.pc = "done", !.timer = TRUE, !.early = c.closed]]
  /\ UNCHANGED <<source, subs, line, view, losses>>

(* A first row that cannot be read ends the connection.                    *)
FirstRowFails(v) ==
  /\ stream[v].pc = "reading" /\ Loss
  /\ stream' = [stream EXCEPT ![v].pc = "done"]
  /\ line' = [line EXCEPT ![v] = "down"]
  /\ UNCHANGED <<source, subs, wire, view>>

(* The timer: a query each second, whether or not the last one has been    *)
(* answered, so the answers may come in any order. One that fails is       *)
(* forgotten.                                                              *)
Query(v) ==
  LET c == stream[v] IN
  /\ c.timer /\ ~c.closed /\ ~Missing(row)
  /\ Cardinality(c.reads) < MaxReads
  /\ stream' = [stream EXCEPT ![v].reads = @ \cup {row}]
  /\ UNCHANGED <<source, subs, wire, line, view, losses>>

Reply(v, s) ==
  LET c == [stream[v] EXCEPT !.reads = @ \ {s}] IN
  /\ s \in stream[v].reads
  /\ Silent(c) \/ Len(wire[v]) < MaxWire
  /\ wire' = IF Silent(c) THEN wire ELSE [wire EXCEPT ![v] = Sent(v, s)]
  /\ stream' = [stream EXCEPT ![v] = IF ~Silent(c) /\ Ended(s) THEN Cleaned(c) ELSE c]
  /\ UNCHANGED <<source, subs, line, view, losses>>

(* The server learns that the connection is closed.                        *)
Hangup(v) ==
  LET c == stream[v] IN
  /\ c.pc # "none" /\ ~c.closed /\ (~view[v].es \/ line[v] = "down")
  /\ stream' = [stream EXCEPT ![v] = Cleaned(c)]
  /\ subs' = IF Unsubscribes(c) THEN [subs EXCEPT ![c.at] = @ \ {v}] ELSE subs
  /\ UNCHANGED <<source, wire, line, view, losses>>

----------------------------------------------------------------------------
(***************************************************************************)
(* The job                                                                 *)
(***************************************************************************)

Running == host # Nowhere /\ job[host].state = "RUNNING"

(* onBytes of the uploader.                                                *)
Load ==
  /\ Running /\ job[host].bytes < MaxBytes
  /\ job' = [job EXCEPT ![host].bytes = @ + 1]
  /\ UNCHANGED <<host, row, writes, crashes, subs, stream, wire, line, view, losses>>

(* The tick of the job, and its begin.                                     *)
Report ==
  /\ Running /\ Emit(host, job[host])
  /\ UNCHANGED <<job, host, row, crashes, line, view, losses>>

(* The end of runJob.                                                      *)
End ==
  /\ Running
  /\ job' = [job EXCEPT ![host].state = "ENDED"]
  /\ Emit(host, job'[host])
  /\ UNCHANGED <<host, row, crashes, line, view, losses>>

(* The timer, a minute after the end.                                      *)
Forget(p) ==
  /\ Ended(job[p])
  /\ job' = [job EXCEPT ![p] = Nothing]
  /\ UNCHANGED <<host, row, writes, crashes, subs, stream, wire, line, view, losses>>

(* persistSnapshot: an upsert arrives, in any order, or fails.             *)
Persist(s) ==
  /\ s \in writes
  /\ writes' = writes \ {s}
  /\ row' = s
  /\ UNCHANGED <<job, host, crashes, subs, stream, wire, line, view, losses>>

PersistFails(s) ==
  /\ s \in writes /\ Loss
  /\ writes' = writes \ {s}
  /\ UNCHANGED <<job, host, row, crashes, subs, stream, wire, line, view>>

(* The replica dies with the running job and everything in its memory ...  *)
Die ==
  /\ Running /\ crashes < MaxCrashes /\ crashes' = crashes + 1
  /\ job' = [job EXCEPT ![host] = Nothing]
  /\ subs' = [subs EXCEPT ![host] = {}]
  /\ stream' = [v \in Viewer |-> IF stream[v].at = host
                 THEN [Cleaned(stream[v]) EXCEPT !.pc = "done"] ELSE stream[v]]
  /\ line' = [v \in Viewer |-> IF stream[v].at = host THEN "down" ELSE line[v]]
  /\ host' = Nowhere
  /\ UNCHANGED <<row, writes, wire, view, losses>>

(* ... and a replica that boots takes the transfer over, counting from     *)
(* nothing again.                                                          *)
TakeOver(p) ==
  /\ host = Nowhere /\ host' = p
  /\ job' = [job EXCEPT ![p] = [state |-> "RUNNING", bytes |-> 0]]
  /\ UNCHANGED <<row, writes, crashes, subs, stream, wire, line, view, losses>>

----------------------------------------------------------------------------
(***************************************************************************)
(* The hook in the page                                                    *)
(***************************************************************************)

(* A run that goes on, with fewer bytes than were shown before.            *)
Less(w, s) == ~Ended(s) /\ s.bytes < w.max

(* apply.                                                                  *)
Applied(w, s) ==
  IF Less(w, s) THEN [w EXCEPT !.shown = [s EXCEPT !.bytes = w.max]]
  ELSE [w EXCEPT !.shown = s, !.max = IF s.bytes > @ THEN s.bytes ELSE @]

(* onmessage: the stream is closed once it has brought the end.            *)
Receive(v) ==
  /\ view[v].es /\ wire[v] # <<>>
  /\ LET s == Head(wire[v]) IN
       /\ view' = [view EXCEPT ![v] = [Applied(@, s) EXCEPT !.es = ~Ended(s)]]
       /\ wire' = [wire EXCEPT ![v] = IF Ended(s) THEN <<>> ELSE Tail(@)]
  /\ UNCHANGED <<source, subs, stream, line, losses>>

(* Seeded fault: the page gives up when its stream breaks.                 *)
GivesUp(w) == FALSE

(* Whether the hook goes on by polling.                                    *)
Polls(w) == ~w.stopped

(* onerror: the connection is lost, or the server has closed it.           *)
Lost(v) ==
  /\ view[v].es
  /\ line[v] = "down" \/ (stream[v].closed /\ wire[v] = <<>>)
  /\ view' = [view EXCEPT ![v].es = FALSE, ![v].poll = Polls(view[v])]
  /\ wire' = [wire EXCEPT ![v] = <<>>]
  /\ UNCHANGED <<source, subs, stream, line, losses>>

(* A line that drops takes what is on it along, or not.                    *)
LineDrops(v) ==
  /\ line[v] = "up" /\ Loss
  /\ line' = [line EXCEPT ![v] = "down"]
  /\ UNCHANGED <<source, subs, stream, wire, view>>

(* A poll is answered by any replica, from the job in its memory or from   *)
(* the row; a 404 or an error changes nothing. Answers may overlap.        *)
Poll(v, p) ==
  LET s == IF job[p] # Nothing THEN job[p] ELSE row IN
  /\ view[v].poll /\ ~Missing(s)
  /\ Cardinality(view[v].gets) < MaxReads
  /\ view' = [view EXCEPT ![v].gets = @ \cup {s}]
  /\ UNCHANGED <<source, subs, stream, wire, line, losses>>

Polled(v, s) ==
  LET w == [view[v] EXCEPT !.gets = @ \ {s}] IN
  /\ s \in view[v].gets
  /\ view' = [view EXCEPT ![v] =
       IF w.stopped THEN w
       ELSE [Applied(w, s) EXCEPT !.poll = @ /\ ~Ended(s)]]
  /\ UNCHANGED <<source, subs, stream, wire, line, losses>>

(* The page is left.                                                       *)
Leave(v) ==
  /\ ~view[v].stopped
  /\ view' = [view EXCEPT ![v].stopped = TRUE, ![v].es = FALSE, ![v].poll = FALSE]
  /\ wire' = [wire EXCEPT ![v] = <<>>]
  /\ UNCHANGED <<source, subs, stream, line, losses>>

----------------------------------------------------------------------------
(* The request for a stream, and the first row, which it may need.         *)
Accept(v) ==
  \/ \E p \in Proc : Subscribe(v, p) \/ AwaitRow(v, p)
  \/ FirstRow(v)

StreamNext ==
  \/ Load \/ Report \/ End \/ Die
  \/ \E p \in Proc : Forget(p) \/ TakeOver(p)
  \/ \E s \in Snapshot : Persist(s) \/ PersistFails(s)
  \/ \E v \in Viewer :
       \/ Accept(v) \/ FirstRowFails(v) \/ Query(v) \/ Hangup(v)
       \/ Receive(v) \/ Lost(v) \/ LineDrops(v) \/ Leave(v)
       \/ \E p \in Proc : Poll(v, p)
       \/ \E s \in Snapshot : Reply(v, s) \/ Polled(v, s)

StreamSpec == StreamInit /\ [][StreamNext]_streamVars

----------------------------------------------------------------------------
(***************************************************************************)
(* Properties                                                              *)
(***************************************************************************)

(* The end is the last message of a stream, although the queries behind a  *)
(* stream overlap and one that was sent before may be answered after       *)
(* (transfers.ts:674-680).                                                 *)
EndIsLast ==
  \A v \in Viewer : \A i \in 1..Len(wire[v]) : Ended(wire[v][i]) => i = Len(wire[v])

(* A closed stream leaves a subscriber or a timer behind only when it was  *)
(* closed before its handler had hold of it: by the end of the job within  *)
(* subscribe, or by a page that was left while the first row was read      *)
(* (transfers.ts:646-683).                                                 *)
LeftoversKnown ==
  \A v \in Viewer : LET c == stream[v] IN
    c.closed /\ (c.timer \/ \E p \in Proc : v \in subs[p]) => c.early

(* Whoever looks on is shown the end, if it gets into the row for good:    *)
(* whichever replica serves the stream, whether it has the job, has        *)
(* forgotten it or dies, and whenever the line drops.                      *)
EndShown ==
  \A v \in Viewer :
    <>[](Ended(row)) => <>(Ended(view[v].shown) \/ view[v].stopped)

(* The streams as a whole: nothing follows the end, and what is left       *)
(* behind is accounted for (transfers.ts:646-683), in every state of       *)
(* streams and pages.                                                      *)
StreamInv == StreamTypeOK /\ EndIsLast /\ LeftoversKnown

=============================================================================
