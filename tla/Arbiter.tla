------------------------------- MODULE Arbiter -------------------------------
(***************************************************************************)
(* The renderer's loop (tc002d_main.zig) around the arbiter: packets and   *)
(* buttons apply commands and publish the statement each one was, redraws  *)
(* advance time, expire the overlay that is due and run the transitions.   *)
(*                                                                         *)
(* Left out: the settings menu and its previews, the canvas documents, the *)
(* power fade, the panel transfer, epochs and duplicate requests           *)
(* (CommandRelay).                                                         *)
(***************************************************************************)
EXTENDS ArbiterOps

CONSTANTS
    Posts,          \* notifications clients send, a subset of Notes
    ScenePackets,   \* set_base packets: [base, generator, seed, style], each
                    \* of the last three a set of at most one value
    MaxRevision,    \* bound: revisions the arbiter may reach
    MaxFrames       \* bound: stream frames received

ASSUME InputAssumption ==
    /\ Posts \subseteq Notes
    /\ ScenePackets \subseteq [base : Bases, generator : SUBSET Generators,
                               seed : SUBSET {"seed"}, style : SUBSET Styles]
    /\ MaxRevision \in Nat /\ MaxFrames \in Nat

VARIABLES
    arb,         \* the arbiter
    sent,        \* the statement last published: [revision, command]
    unrevealed,  \* nothing has been on the panel yet
    crossing,    \* the fader runs an effect
    frames       \* stream frames received so far

vars == <<arb, sent, unrevealed, crossing, frames>>

Nothing == [revision |-> 0, command |-> [op |-> "adjust"]]

\* The variables, and what of the arbiter is never out of its range.
TypeOK ==
    /\ arb \in ArbiterState
    /\ sent \in [revision : Nat, command : Commands]
    /\ unrevealed \in BOOLEAN /\ crossing \in BOOLEAN
    /\ frames \in 0..MaxFrames

\* --start-dark: the panel stays black until the supervisor sends power on
Init ==
    /\ \E b \in Bases, g \in Generators, s \in Styles : arb = ArbiterInit(b, g, s, FALSE)
    /\ sent = Nothing
    /\ unrevealed = TRUE /\ crossing = FALSE /\ frames = 0

\* mutant: published with the redraw, which a queued notification does not need
PublishWhenDrawn(before, after, c) ==
    IF after.revision = before.revision \/ ~after.dirty THEN sent
    ELSE [revision |-> after.revision, command |-> c]

\* takeApplied and send: the statement behind the newest revision, if there is
\* a new one.  What an earlier command of the same packet stated is lost.
Publish(before, after, c) ==
    IF after.revision = before.revision THEN sent
    ELSE [revision |-> after.revision, command |-> c]

\* a packet, a press or a turn of the dial that is one command
Apply(c) ==
    /\ arb.revision < MaxRevision
    /\ arb' = ApplyWith(arb, c)
    /\ sent' = Publish(arb, arb', c)
    /\ UNCHANGED <<unrevealed, crossing, frames>>

\* a set_base packet: the base and what the request named beside it, each a
\* command of its own; a generator and a seed count for the art base only
Optional(a, cs) == IF cs = {} THEN a ELSE ApplyWith(a, CHOOSE c \in cs : TRUE)

ScenePacket(p) ==
    LET based == ApplyWith(arb, [op |-> "set_base", base |-> p.base])
        drawn == IF p.base # "art" THEN based
                 ELSE Optional(Optional(based,
                        [op : {"select_generator"}, generator : p.generator]),
                        IF p.seed = {} THEN {} ELSE [op : {"adjust"}])
        after == Optional(drawn, [op : {"set_clock_style"}, style : p.style])
        last  == IF after # drawn THEN [op |-> "set_clock_style", style |-> after.style]
                 ELSE IF drawn = based THEN [op |-> "set_base", base |-> p.base]
                 ELSE IF p.seed # {} THEN [op |-> "adjust"]
                 ELSE [op |-> "select_generator", generator |-> after.generator]
    IN  /\ arb.revision < MaxRevision
        /\ arb' = after
        /\ sent' = Publish(arb, after, last)
        /\ UNCHANGED <<unrevealed, crossing, frames>>

\* a stream frame: no revision, no reply
StreamPacket(dur) ==
    /\ frames < MaxFrames
    /\ frames' = frames + 1
    /\ arb' = ApplyWith(arb, [op |-> "stream", dur |-> dur])
    /\ UNCHANGED <<sent, unrevealed, crossing>>

\* time_corrected, ip_changed: a redraw and no statement
Correct ==
    /\ arb' = [arb EXCEPT !.dirty = TRUE]
    /\ UNCHANGED <<sent, unrevealed, crossing, frames>>

-----------------------------------------------------------------------------
\* mutant: a redraw that does not forget the layer of a cut
KeepsLayer(t, runs, dark) == t.outgoing /\ ~(t.pending /\ (dark \/ crossing))

\* the old layer stays while the effect that leaves it runs, and only if that
\* effect did not start over another one
HoldsLayer(t, runs, dark) == runs /\ t.outgoing /\ ~(t.pending /\ (dark \/ crossing))

\* redraw: tick, then take the transition and run or finish the effect.
\* `runs`: an effect is under way when the frame is composed; a wanted one may
\* be a cut, a running one may have ended.
Redraw ==
    /\ arb.dirty \/ Due(arb) \/ crossing
    /\ LET clean == [arb EXCEPT !.dirty = FALSE]
           t     == IF Due(clean) THEN ExpireOverlay(clean) ELSE clean
           dark  == unrevealed /\ ~t.power
       IN  /\ unrevealed' = dark
           /\ \E runs \in BOOLEAN :
                /\ runs => crossing \/ (t.pending /\ ~dark)
                /\ crossing' = runs
                /\ arb' = [t EXCEPT !.pending = FALSE, !.outgoing = HoldsLayer(t, runs, dark)]
           /\ sent' = Publish(arb, t, [op |-> "overlay_expired"])
    /\ UNCHANGED frames

\* the clock of the panel's process
Pass == arb' = Later(arb) /\ arb' # arb /\ UNCHANGED <<sent, unrevealed, crossing, frames>>

Next ==
    \/ \E b \in Bases : Apply([op |-> "set_base", base |-> b])
    \/ \E g \in Generators : Apply([op |-> "select_generator", generator |-> g])
    \/ \E n \in Posts, stack \in BOOLEAN : Apply([op |-> "notify", note |-> n, stack |-> stack])
    \/ \E n \in Names \cup {NoName} : Apply([op |-> "dismiss_notify", name |-> n])
    \/ \E d \in 1..MaxDuration, soft \in BOOLEAN : Apply([op |-> "raw", dur |-> d, soft |-> soft])
    \/ \E on \in BOOLEAN : Apply([op |-> "power", on |-> on])
    \/ \E s \in Styles : Apply([op |-> "set_clock_style", style |-> s])
    \/ \E op \in {"adjust", "arm_stream"} : Apply([op |-> op])
    \/ \E p \in ScenePackets : ScenePacket(p)
    \/ \E d \in 1..MaxDuration : StreamPacket(d)
    \/ Correct
    \/ Redraw
    \/ Pass

\* The loop wakes at the next expiry and, while an effect runs, every frame; an
\* effect is bounded in time.
Fairness == WF_vars(Pass) /\ WF_vars(Redraw) /\ SF_vars(Redraw /\ ~crossing')

Spec == Init /\ [][Next]_vars /\ Fairness

-----------------------------------------------------------------------------
(* Properties *)

\* Notifications wait only behind a notification, and the document drawn is the
\* one of the notification showing: a command that takes the overlay slot and
\* forgets either leaves entries that surface later, or a document drawn over
\* what replaced it.
SlotConsistent ==
    /\ arb.waiting # <<>> => arb.kind = "notify"
    /\ arb.document <=> (arb.kind = "notify" /\ arb.note.doc)
    /\ arb.kind # "notify" => arb.note = NoNote

\* A transition that waits has its old layer, and an old layer is held only for
\* one that waits or runs: across cuts, effects started over running effects,
\* and changes made before the panel was revealed.
LayerHeld ==
    /\ arb.pending => arb.outgoing
    /\ arb.outgoing => arb.pending \/ crossing

\* Every revision the arbiter reaches is the revision of a published statement
\* by the time the loop sleeps, an expiry inside a redraw included.
Announced == sent.revision = arb.revision

Expired == sent' # sent /\ sent'.command.op = "overlay_expired"

\* A notification ends by itself only after its whole duration on the panel,
\* counted from when it was shown and not from when it was queued.
FullTurn == [][Expired /\ arb.kind = "notify" => arb.since >= arb.note.dur]_vars

\* The active entry and the seven slots behind it are one bounded queue.
Queue == INSTANCE NotificationQueue WITH
    Notifications <- Posts,
    Capacity      <- Waiting + 1,
    queue         <- IF arb.kind = "notify" THEN <<arb.note>> \o arb.waiting ELSE <<>>

QueueSpec == Queue!Spec

\* Once nobody sends anything, whatever has a deadline leaves the panel, and
\* what waited behind it has its turn.
OverlaysEnd == Timed(arb) ~> ~Timed(arb)

\* RUNTIME.md on /events: a gap in the revisions means a statement was missed.
NoGaps == [][sent' # sent => sent'.revision = sent.revision + 1]_vars
=============================================================================
