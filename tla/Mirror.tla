------------------------------- MODULE Mirror -------------------------------
(***************************************************************************)
(* The console page follows the panel: the device publishes the statement  *)
(* behind each change on /events, and the page replays it on its own       *)
(* arbiter, the same code compiled to WebAssembly (ArbiterOps).  /status   *)
(* places the replica at the start, while the stream is down, and when a   *)
(* statement did not land on the revision it carries (panel-v2/index.html, *)
(* panel-v2/sim-wasm.js, wasm_main.zig).                                   *)
(*                                                                         *)
(* The page is one thread: its handlers are steps, and every await is a    *)
(* place where other handlers and frames run.  The mirror plays statements *)
(* 750 ms late, longer than a statement takes to arrive: see OnTime.       *)
(*                                                                         *)
(* Left out: what follows the scene's own parameters (seed, brightness,    *)
(* power, ip, canvas), streamed frames (they change no revision and are in *)
(* no statement), overlays the page itself sent, the page's own menu, and  *)
(* a device that stops answering altogether.                               *)
(***************************************************************************)
EXTENDS ArbiterOps, FiniteSets

CONSTANTS
    Packets,       \* what the renderer is sent: sequences of commands
    DefaultStyle,  \* the clock style of an arbiter nobody told another
    Adversity,     \* what may go wrong, a subset of Adversities
    MaxRevision    \* bound: revisions the device may reach

Adversities ==
    {"late subscription",  \* the device changes before the stream is open
     "lost statements",    \* a full socket between renderer, supervisor and netd
     "reconnects",         \* netd drops the stream, EventSource opens another
     "delays",             \* a resync, or the wait for a frame, outlasts the
                           \* mirror's 750 ms or the poll's second
     "failed answers"}     \* a resync fails

ASSUME MirrorAssumption ==
    /\ Packets \subseteq Seq({c \in Commands : c.op \notin {"stream", "overlay_expired"}})
    /\ DefaultStyle \in Styles
    /\ Adversity \subseteq Adversities
    /\ MaxRevision \in Nat

VARIABLES
    device,       \* the renderer's arbiter
    said,         \* said[r]: the device at revision r, and which statement told of it
    snapshot,     \* the supervisor's picture of the device: what /status answers
    subscribed,   \* netd holds this page's stream
    stream,       \* statements between the device and the page
    pending,      \* statements the page queued until the mirror's clock gets there
    streamState,  \* "connecting", "live", "retrying"
    status,       \* STATUS, the last answer of /status
    poll,         \* answers of the once-a-second poll on their way
    resync,       \* where resyncFromState is: "none", "status", "config"
    answer,       \* the answer to it on its way
    snapshotDue,  \* the snapshot has not gone in since the last reset
    replica,      \* the page's arbiter
    applied,      \* what applyStatus pushed last: sets of at most one value
    unbroken      \* history: nothing was lost, refused or reset so far

device_vars == <<device, said, snapshot>>
stream_vars == <<subscribed, stream, pending, streamState>>
answer_vars == <<status, poll, resync, answer>>
mirror_vars == <<snapshotDue, replica, applied>>
vars == <<device_vars, stream_vars, answer_vars, mirror_vars, unbroken>>

-----------------------------------------------------------------------------
(* The device *)

Scene(a)   == [base |-> a.base, generator |-> a.generator, style |-> a.style]
Overlay(a) == [kind |-> a.kind, note |-> a.note, waiting |-> a.waiting]

\* a frame was drawn: transitions and timers are not what the mirror is about
Drawn(a) == [a EXCEPT !.dirty = FALSE, !.pending = FALSE, !.outgoing = FALSE,
                      !.since = 0, !.left = 0]

Statements == [revision : Nat, command : Commands]
NoCommand  == [op |-> "adjust"]

Pictures == [base : Bases, generator : Generators, style : Styles,
             revision : Nat, frame : BOOLEAN]

\* heartbeat and onHeartbeat: one packet, one picture
Picture(a) == [base |-> a.base, generator |-> a.generator, style |-> a.style,
               revision |-> a.revision, frame |-> a.kind = "raw"]

Entry(a, told) == [scene |-> Scene(a), overlay |-> Overlay(a), told |-> told]

\* the commands of a packet, one after the other: what each change made of the
\* arbiter, and the last that was a change, which is the packet's statement
Handle(a, p) ==
    LET after[i \in 0..Len(p)] ==
            IF i = 0 THEN [arb |-> a, made |-> <<>>, command |-> NoCommand]
            ELSE LET before == after[i - 1]
                     next   == Drawn(ApplyWith(before.arb, p[i]))
                 IN  IF next.revision = before.arb.revision THEN before
                     ELSE [arb |-> next, made |-> Append(before.made, next), command |-> p[i]]
    IN  after[Len(p)]

\* renderer, supervisor and netd pass a statement on, or one of them cannot
Publish(statement) ==
    \/ /\ stream' = IF subscribed THEN Append(stream, statement) ELSE stream
       /\ unbroken' = (unbroken /\ subscribed)
    \/ /\ "lost statements" \in Adversity
       /\ subscribed
       /\ unbroken' = FALSE
       /\ UNCHANGED stream

\* the device goes through the states of `made`, of which one statement tells
Changes(made, command) ==
    LET top == device.revision + Len(made)
    IN  /\ made # <<>> /\ top <= MaxRevision
        /\ subscribed \/ Adversity \cap {"late subscription", "reconnects"} # {}
        /\ device' = made[Len(made)]
        /\ said' = [v \in 0..top |-> IF v <= device.revision THEN said[v]
                                     ELSE Entry(made[v - device.revision], top)]
        /\ Publish([revision |-> top, command |-> command])
        /\ UNCHANGED <<snapshot, subscribed, pending, streamState, answer_vars, mirror_vars>>

DeviceHandles(p) ==
    LET r == Handle(device, p) IN Changes(r.made, r.command)

DeviceExpires ==
    /\ Timed(device)
    /\ Changes(<<Drawn(ExpireOverlay(device))>>, [op |-> "overlay_expired"])

Heartbeat ==
    /\ snapshot # Picture(device)
    /\ snapshot' = Picture(device)
    /\ UNCHANGED <<device, said, stream_vars, answer_vars, mirror_vars, unbroken>>

-----------------------------------------------------------------------------
(* The stream *)

\* beginStream, for the EventSource's first request or one of its retries
Subscribe ==
    /\ ~subscribed /\ streamState # "live"
    /\ subscribed' = TRUE
    /\ UNCHANGED <<device_vars, stream, pending, streamState, answer_vars, mirror_vars, unbroken>>

\* onopen
Open ==
    /\ subscribed /\ streamState # "live"
    /\ streamState' = "live"
    /\ UNCHANGED <<device_vars, subscribed, stream, pending, answer_vars, mirror_vars, unbroken>>

\* onmessage
Message ==
    /\ streamState = "live" /\ stream # <<>>
    /\ pending' = Append(pending, Head(stream))
    /\ stream' = Tail(stream)
    /\ UNCHANGED <<device_vars, subscribed, streamState, answer_vars, mirror_vars, unbroken>>

\* netd closes a stream that cannot keep up: what it had not sent is gone
Dropped ==
    /\ "reconnects" \in Adversity
    /\ subscribed /\ subscribed' = FALSE
    /\ \E n \in 0..Len(stream) :
        /\ streamState # "live" => n = 0
        /\ stream' = SubSeq(stream, 1, n)
    /\ unbroken' = FALSE
    /\ UNCHANGED <<device_vars, pending, streamState, answer_vars, mirror_vars>>

\* onerror
Retry ==
    /\ streamState = "live" /\ ~subscribed /\ stream = <<>>
    /\ streamState' = "retrying"
    /\ UNCHANGED <<device_vars, subscribed, stream, pending, answer_vars, mirror_vars, unbroken>>

-----------------------------------------------------------------------------
(* Answers of /status *)

PollAnswered ==
    /\ poll = {} /\ poll' = {snapshot}
    /\ UNCHANGED <<device_vars, stream_vars, status, resync, answer, mirror_vars, unbroken>>

\* refreshStatus after its await
PollReturns ==
    /\ poll # {} /\ poll' = {}
    /\ snapshotDue => "delays" \in Adversity
    /\ status' \in poll
    /\ UNCHANGED <<device_vars, stream_vars, resync, answer, mirror_vars, unbroken>>

ResyncAnswered ==
    /\ resync = "status"
    /\ answer = {} /\ answer' = {snapshot}
    /\ UNCHANGED <<device_vars, stream_vars, status, poll, resync, mirror_vars, unbroken>>

NothingApplied == [base |-> {}, generator |-> {}, style |-> {}]

\* reset and setRevision: a new arbiter at the revision of the picture
Reset(picture) ==
    [Drawn(ArbiterInit(picture.base, picture.generator, DefaultStyle, TRUE))
        EXCEPT !.revision = picture.revision]

\* resyncFromState after its first await: the replica starts over
ResyncReturns ==
    /\ answer # {} /\ answer' = {}
    /\ status' \in answer
    /\ resync' = "config"
    /\ replica' = Reset(status')
    /\ applied' = NothingApplied
    /\ snapshotDue' = TRUE
    /\ UNCHANGED <<device_vars, stream_vars, poll, unbroken>>

\* resyncFromState after its last
ResyncEnds ==
    /\ resync = "config" /\ resync' = "none"
    /\ UNCHANGED <<device_vars, stream_vars, status, poll, answer, mirror_vars, unbroken>>

\* its catch: the replica stays as it is
ResyncFails ==
    /\ "failed answers" \in Adversity
    /\ resync # "none" /\ resync' = "none"
    /\ answer' = {}
    /\ UNCHANGED <<device_vars, stream_vars, status, poll, mirror_vars, unbroken>>

-----------------------------------------------------------------------------
(* A frame of the page *)

\* the replica has not ended by itself what this statement ends
NotYetExpired(a, revision) == a.revision = revision - 1

\* mutant: a statement that does not say that its notification was queued
SummaryUnstacked(c) ==
    IF c.op = "notify" THEN [c EXCEPT !.note.doc = FALSE, !.stack = FALSE] ELSE c

\* a notification travels as its summary: the document stays behind
Summary(c) == IF c.op = "notify" THEN [c EXCEPT !.note.doc = FALSE] ELSE c

\* STATEMENTS: what a statement does to the replica; the pixels of a raw frame
\* are not on the stream
Replayed(a, s) ==
    CASE s.command.op = "raw" -> a
      [] s.command.op = "overlay_expired" ->
            IF NotYetExpired(a, s.revision) THEN Drawn(ExpireOverlay(a)) ELSE a
      [] OTHER -> Drawn(ApplyWith(a, Summary(s.command)))

\* mutant: a replica that fell behind is not noticed
LandsBelow(a, s) == s.command.op # "raw" /\ a.revision <= s.revision

\* applyStatement's verdict
Lands(a, s) == s.command.op # "raw" /\ a.revision = s.revision

\* drainEvents: statements are played until one does not land
Drained(statements) ==
    LET played[i \in 0..Len(statements)] ==
            IF i = 0 THEN [arb |-> replica, ok |-> TRUE]
            ELSE LET before == played[i - 1]
                     a      == Replayed(before.arb, statements[i])
                 IN  IF before.ok THEN [arb |-> a, ok |-> Lands(a, statements[i])] ELSE before
    IN  played[Len(statements)]

\* applyStatus: a field goes in if it is not the one that went in last
Placed(a) ==
    LET based == IF applied.base = {status.base} THEN a ELSE SetBase(a, status.base)
        drawn == IF applied.generator = {status.generator} THEN based
                 ELSE SelectGenerator(based, status.generator)
    IN  Drawn(IF applied.style = {status.style} THEN drawn ELSE SetStyle(drawn, status.style))

\* setRevision after a snapshot went in
Stamped(a, follows) == IF follows THEN a ELSE [a EXCEPT !.revision = status.revision]

\* The mirror runs 750 ms behind the device, which ends an overlay in time: by
\* the replica's clock an overlay is due only when the device is past it, and the
\* statement that tells of it has been played unless it is this expiry, or lost.
OnTime(a, rest) ==
    /\ Timed(a)
    /\ a.revision < device.revision
    /\ \A i \in DOMAIN rest :
          rest[i].revision = said[a.revision + 1].told => rest[i].command.op = "overlay_expired"

\* Statements are played 750 ms after they were made: heartbeats are 250 ms apart,
\* so the supervisor's picture has caught up.  A snapshot that is due goes in
\* before that too, the next frame being a few milliseconds away, unless a resync
\* or a frame is slow.
InTime(n) ==
    n > 0 =>
        /\ \A i \in 1..n : pending[i].revision <= snapshot.revision
        /\ "delays" \notin Adversity => ~snapshotDue /\ resync = "none"

\* draw: drain the first n statements, compose, stamp
Draw(n, expires) ==
    LET drained == Drained(SubSeq(pending, 1, n))
        rest    == IF drained.ok THEN SubSeq(pending, n + 1, Len(pending)) ELSE <<>>
        follows == streamState = "live" /\ ~snapshotDue
        placed  == IF follows \/ status.frame THEN drained.arb ELSE Placed(drained.arb)
    IN  /\ InTime(n)
        /\ expires => ~status.frame /\ OnTime(placed, rest \o stream)
        /\ replica' = Stamped(IF expires THEN Drawn(ExpireOverlay(placed)) ELSE placed, follows)
        /\ applied' = IF follows \/ status.frame THEN applied
                      ELSE [base |-> {status.base}, generator |-> {status.generator},
                            style |-> {status.style}]
        /\ snapshotDue' = FALSE
        /\ pending' = rest
        /\ resync' = IF ~drained.ok /\ resync = "none" THEN "status" ELSE resync
        /\ unbroken' = (/\ unbroken /\ drained.ok
                        /\ follows \/ (n = 0 /\ status = Picture(replica) /\ replica.kind = "none"))
        /\ UNCHANGED <<device_vars, subscribed, stream, streamState, status, poll, answer>>

-----------------------------------------------------------------------------
\* loadAll has read /status and put the replica there
Init ==
    /\ \E b \in Bases, g \in Generators, s \in Styles :
          device = Drawn(ArbiterInit(b, g, s, TRUE))
    /\ said = [v \in {0} |-> Entry(device, 0)]
    /\ snapshot = Picture(device)
    /\ subscribed = FALSE /\ stream = <<>> /\ pending = <<>> /\ streamState = "connecting"
    /\ status = Picture(device) /\ answer = {}
    /\ poll = {} /\ resync = "none"
    /\ snapshotDue = TRUE
    /\ replica = Reset(Picture(device))
    /\ applied = NothingApplied
    /\ unbroken = TRUE

\* the frame once everything queued is due
DrawAll == \E n \in {IF snapshotDue THEN 0 ELSE Len(pending)} : Draw(n, FALSE)

Next ==
    \/ \E p \in Packets : DeviceHandles(p)
    \/ DeviceExpires \/ Heartbeat
    \/ Subscribe \/ Open \/ Message \/ Dropped \/ Retry
    \/ PollAnswered \/ PollReturns
    \/ ResyncAnswered \/ ResyncReturns \/ ResyncEnds \/ ResyncFails
    \/ \E n \in 0..Len(pending), expires \in BOOLEAN : Draw(n, expires)

\* Heartbeats come every 250 ms, the poll every second, frames as long as the
\* page is in view; requests are answered and EventSource retries on its own.
Fairness ==
    /\ WF_vars(Heartbeat)
    /\ WF_vars(Subscribe \/ Open \/ Message \/ Retry)
    /\ WF_vars(PollAnswered \/ PollReturns)
    /\ WF_vars(ResyncAnswered \/ ResyncReturns \/ ResyncEnds)
    /\ WF_vars(DrawAll)

Spec == Init /\ [][Next]_vars /\ Fairness

-----------------------------------------------------------------------------
(* Properties *)

\* The variables; the two arbiters are states of ArbiterOps.
TypeOK ==
    /\ device \in ArbiterState /\ replica \in ArbiterState
    /\ DOMAIN said = 0..device.revision
    /\ {snapshot, status} \cup poll \cup answer \subseteq Pictures
    /\ stream \in Seq(Statements) /\ pending \in Seq(Statements)
    /\ subscribed \in BOOLEAN /\ snapshotDue \in BOOLEAN /\ unbroken \in BOOLEAN
    /\ streamState \in {"connecting", "live", "retrying"}
    /\ resync \in {"none", "status", "config"}
    /\ applied \in [base : SUBSET Bases, generator : SUBSET Generators, style : SUBSET Styles]

Following == streamState = "live" /\ ~snapshotDue /\ resync = "none"

\* While the page says it follows at revision r, it shows the scene the device
\* had at revision r: whatever was lost on the way, no statement is ever played
\* on another state than the one it was made on without a resync.
InStep ==
    Following => /\ replica.revision \in DOMAIN said
                 /\ Scene(replica) = said[replica.revision].scene

Summarised(o) ==
    [kind |-> o.kind, note |-> [o.note EXCEPT !.doc = FALSE],
     waiting |-> [i \in DOMAIN o.waiting |-> [o.waiting[i] EXCEPT !.doc = FALSE]]]

\* As long as nothing was lost, refused or reset, the overlay and the queue
\* behind it are the device's too, documents aside: replica and device end the
\* same notification once, whichever of the replica's clock and the device's
\* statement comes first.
OverlayInStep ==
    Following /\ unbroken /\ replica.revision \in DOMAIN said =>
        Overlay(replica) = Summarised(said[replica.revision].overlay)

\* When the device comes to rest, the page ends up showing what it shows.
CatchesUp ==
    <>[](Scene(replica) = Scene(device) /\ replica.revision = device.revision)
=============================================================================
