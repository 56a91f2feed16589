----------------------------- MODULE ArbiterOps -----------------------------
(***************************************************************************)
(* The scene arbiter of scene/arbiter.zig as functions of its state: what  *)
(* `applyWith` makes of a command, what `expireOverlay` makes of an        *)
(* overlay whose time has come.  The device's renderer and the console's   *)
(* replica (wasm_main.zig) both run this one implementation.               *)
(*                                                                         *)
(* Instants are kept as distances: `left` is the time the overlay has yet  *)
(* to show (0: due), `since` how long the notification has been up.  The   *)
(* pixels, texts, colours and the kind of transition are left out; what is *)
(* left of a transition is whether one is wanted (`pending`) and whether   *)
(* the scene it leaves is still held (`outgoing`).                         *)
(***************************************************************************)
EXTENDS Naturals, Sequences, SequencesExt

CONSTANTS
    Names,        \* names a notification may carry; NoName is not one
    Bases,        \* {"clock", "art", "canvas"}
    Generators,   \* the art scene's generators
    Styles,       \* the clock's styles
    Waiting,      \* slots for waiting notifications (7)
    MaxDuration,  \* the longest an overlay is asked to stay
    ArmingWait    \* how long an armed stream waits for its first frame

NoName == ""
NoNote == [name |-> NoName, doc |-> FALSE, hold |-> FALSE, dur |-> 1]

ASSUME ArbiterAssumption ==
    /\ NoName \notin Names
    /\ "clock" \in Bases
    /\ Waiting \in Nat \ {0} /\ MaxDuration \in Nat \ {0}
    /\ ArmingWait \in 1..MaxDuration

\* what a notification is, once its text, colour and effect are left out
Notes == [name : Names \cup {NoName}, doc : BOOLEAN, hold : BOOLEAN, dur : 1..MaxDuration]

ArbiterState ==
    [base : Bases, generator : Generators, style : Styles, power : BOOLEAN,
     kind : {"none", "notify", "raw", "arming"},
     note : Notes,             \* the notification showing (NoNote when none is)
     left : 0..MaxDuration, since : 0..MaxDuration,
     soft : BOOLEAN,           \* the raw frame named an effect
     waiting : BoundedSeq(Notes, Waiting),
     document : BOOLEAN,       \* notify_canvas holds a document
     revision : Nat, dirty : BOOLEAN,
     pending : BOOLEAN, outgoing : BOOLEAN]

ArbiterInit(base, generator, style, power) ==
    [base |-> base, generator |-> generator, style |-> style, power |-> power,
     kind |-> "none", note |-> NoNote, left |-> 0, since |-> 0, soft |-> FALSE,
     waiting |-> <<>>, document |-> FALSE, revision |-> 0, dirty |-> TRUE,
     pending |-> FALSE, outgoing |-> FALSE]

Bump(a) == [a EXCEPT !.revision = @ + 1, !.dirty = TRUE]

-----------------------------------------------------------------------------
(* The overlay slot *)

\* mutant: the waiting notifications survive what takes the slot
TakeSlotKeepingQueue(a, kind, left, soft) ==
    [a EXCEPT !.kind = kind, !.note = NoNote, !.left = left, !.since = 0,
              !.soft = soft, !.document = FALSE]

\* whatever is not a notification takes the slot, and the queue with it
TakeSlot(a, kind, left, soft) ==
    [a EXCEPT !.kind = kind, !.note = NoNote, !.left = left, !.since = 0,
              !.soft = soft, !.waiting = <<>>, !.document = FALSE]

\* mutant: a promoted notification keeps the deadline of the one before it
ShowWithoutTime(a, n) ==
    [a EXCEPT !.kind = "notify", !.note = n, !.since = 0, !.soft = FALSE, !.document = n.doc]

\* activateNotification with the times its callers give the entry
Show(a, n) ==
    [a EXCEPT !.kind = "notify", !.note = n, !.left = n.dur, !.since = 0,
              !.soft = FALSE, !.document = n.doc]

\* mutant: the latest entry is promoted
AdvanceNewest(a) ==
    IF a.waiting # <<>>
    THEN [Show(a, Last(a.waiting)) EXCEPT !.waiting = Front(a.waiting), !.pending = TRUE]
    ELSE [TakeSlot(a, "none", 0, FALSE) EXCEPT !.pending = TRUE]

\* advanceNotification: the next waiting entry, timed from now, or nothing
Advance(a) ==
    IF a.waiting # <<>>
    THEN [Show(a, Head(a.waiting)) EXCEPT !.waiting = Tail(a.waiting), !.pending = TRUE]
    ELSE [TakeSlot(a, "none", 0, FALSE) EXCEPT !.pending = TRUE]

\* the document showing, posted again under its name
UpdatesInPlace(a, n, stack) ==
    /\ ~stack /\ n.doc /\ n.name # NoName
    /\ a.kind = "notify" /\ a.note.doc /\ a.note.name = n.name

QueueFull(a, stack) == stack /\ a.kind = "notify" /\ Len(a.waiting) = Waiting

Notify(a, n, stack) ==
    IF UpdatesInPlace(a, n, stack) THEN Bump([a EXCEPT !.note = n, !.left = n.dur])
    ELSE IF QueueFull(a, stack)    THEN a
    ELSE IF stack /\ a.kind = "notify"
         THEN [a EXCEPT !.waiting = Append(@, n), !.revision = @ + 1]
         ELSE Bump([Show(a, n) EXCEPT !.pending = TRUE])

\* the first waiting entry of that name leaves the queue without a redraw
DismissWaiting(a, name) ==
    IF \E i \in DOMAIN a.waiting : a.waiting[i].name = name
    THEN [a EXCEPT !.waiting = RemoveFirstMatch(@, LAMBDA n : n.name = name),
                   !.revision = @ + 1]
    ELSE a

Dismiss(a, name) ==
    IF a.kind = "notify" /\ name \in {NoName, a.note.name} THEN Bump(Advance(a))
    ELSE IF name = NoName THEN a ELSE DismissWaiting(a, name)

RawFrame(a, dur, soft) ==
    Bump([TakeSlot(a, "raw", dur, soft) EXCEPT !.pending = @ \/ soft])

\* a stream frame takes the slot without being a change of state
StreamFrame(a, dur) == [TakeSlot(a, "raw", dur, FALSE) EXCEPT !.dirty = TRUE]

ArmStream(a) == Bump(TakeSlot(a, "arming", ArmingWait, FALSE))

-----------------------------------------------------------------------------
(* The scene under it *)

SetBase(a, b) ==
    Bump([TakeSlot(a, "none", 0, FALSE) EXCEPT
            !.base = b, !.pending = @ \/ b # a.base \/ a.kind # "none"])

SelectGenerator(a, g) ==
    Bump([a EXCEPT !.generator = g, !.pending = @ \/ g # a.generator])

\* power, clock style: a change that changes nothing is no statement
SetPower(a, on) == IF on = a.power THEN a ELSE Bump([a EXCEPT !.power = on])

SetStyle(a, s) ==
    IF s = a.style THEN a
    ELSE Bump([a EXCEPT !.style = s, !.pending = @ \/ (a.base = "clock" /\ a.kind = "none")])

\* brightness and seed: always a statement, no matter the value
Adjust(a) == Bump(a)

-----------------------------------------------------------------------------
(* applyWith and expireOverlay *)

Commands ==
         [op : {"set_base"}, base : Bases]
    \cup [op : {"select_generator"}, generator : Generators]
    \cup [op : {"notify"}, note : Notes, stack : BOOLEAN]
    \cup [op : {"dismiss_notify"}, name : Names \cup {NoName}]
    \cup [op : {"raw"}, dur : 1..MaxDuration, soft : BOOLEAN]
    \cup [op : {"stream"}, dur : 1..MaxDuration]
    \cup [op : {"power"}, on : BOOLEAN]
    \cup [op : {"set_clock_style"}, style : Styles]
    \cup [op : {"adjust", "arm_stream", "overlay_expired"}]

Inner(a, c) ==
    CASE c.op = "set_base"         -> SetBase(a, c.base)
      [] c.op = "select_generator" -> SelectGenerator(a, c.generator)
      [] c.op = "notify"           -> Notify(a, c.note, c.stack)
      [] c.op = "dismiss_notify"   -> Dismiss(a, c.name)
      [] c.op = "raw"              -> RawFrame(a, c.dur, c.soft)
      [] c.op = "stream"           -> StreamFrame(a, c.dur)
      [] c.op = "power"            -> SetPower(a, c.on)
      [] c.op = "set_clock_style"  -> SetStyle(a, c.style)
      [] c.op = "adjust"           -> Adjust(a)
      [] c.op = "arm_stream"       -> ArmStream(a)

\* what was showing is held from the change that first wants a transition
Holding(before, after) ==
    IF ~before.pending /\ after.pending THEN [after EXCEPT !.outgoing = TRUE] ELSE after

ApplyWith(a, c) == Holding(a, Inner(a, c))

\* mutant: a stream that never sends a frame keeps the panel
ExpireOverlayShown(a) ==
    IF a.kind \in {"none", "arming"} THEN a
    ELSE Holding(a, Bump(
           IF a.kind = "notify" THEN Advance(a)
           ELSE [TakeSlot(a, "none", 0, FALSE) EXCEPT !.pending = @ \/ a.soft]))

\* an overlay that ends by itself; a cut frame ends without an effect
ExpireOverlay(a) ==
    IF a.kind = "none" THEN a
    ELSE Holding(a, Bump(
           IF a.kind = "notify" THEN Advance(a)
           ELSE [TakeSlot(a, "none", 0, FALSE) EXCEPT !.pending = @ \/ a.soft]))

\* tick's question, and nextExpiryNs: a held notification is never due
Timed(a) == a.kind \in {"raw", "arming"} \/ (a.kind = "notify" /\ ~a.note.hold)
Due(a)   == Timed(a) /\ a.left = 0

\* one tick of the monotonic clock
Later(a) ==
    [a EXCEPT !.left = IF @ = 0 THEN 0 ELSE @ - 1,
              !.since = IF a.kind = "notify" /\ @ < MaxDuration THEN @ + 1 ELSE @]
=============================================================================
