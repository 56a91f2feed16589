--------------------------- MODULE ArbiterProofs ---------------------------
(***************************************************************************)
(* Arbiter for any names, notifications, scenes and durations, any number  *)
(* of slots and any bounds: its types, what the overlay slot, the layer    *)
(* that is left and the published revision promise, the turn every         *)
(* notification has, and the queue it implements.                          *)
(***************************************************************************)
EXTENDS Arbiter, SequenceTheorems, WellFoundedInduction, TLAPS

-----------------------------------------------------------------------------
(* Notifications that wait *)

Queues == BoundedSeq(Notes, Waiting)

\* The waiting entries are a sequence of at most as many as there are slots.
LEMMA WaitingSeq ==
    ASSUME NEW s
    PROVE  s \in Queues <=> s \in Seq(Notes) /\ Len(s) <= Waiting
  <1>1. Waiting \in Nat
    BY ArbiterAssumption DEF ArbiterAssumption
  <1>2. ASSUME s \in Queues
        PROVE  s \in Seq(Notes) /\ Len(s) <= Waiting
    <2>1. PICK m \in 0..Waiting : s \in [1..m -> Notes]
      BY <1>2 DEF Queues, BoundedSeq, SeqOf
    <2>2. s \in Seq(Notes)
      BY <2>1, <1>1, SeqDef
    <2>3. Len(s) = m
      BY <2>1, <2>2, <1>1, LenProperties
    <2> QED
      BY <2>1, <2>2, <2>3, <1>1
  <1>3. ASSUME s \in Seq(Notes), Len(s) <= Waiting
        PROVE  s \in Queues
    <2>1. Len(s) \in 0..Waiting /\ s \in [1..Len(s) -> Notes]
      BY <1>1, <1>3, LenProperties
    <2> QED
      BY <2>1 DEF Queues, BoundedSeq, SeqOf
  <1> QED
    BY <1>2, <1>3

\* A set of numbers that has one has a least one.
LEMMA LeastOf ==
    ASSUME NEW I, I # {}, I \subseteq Nat
    PROVE  Min(I) \in I /\ \A y \in I : Min(I) <= y
  <1> DEFINE R == OpToRel(<, Nat)
  <1>1. IsWellFoundedOn(R, Nat)
    BY NatLessThanWellFounded
  <1>2. \A x, y \in Nat : <<y, x>> \in R <=> y < x
    BY DEF OpToRel
  <1> HIDE DEF R
  <1>3. PICK x \in I : \A y \in I : ~(<<y, x>> \in R)
    BY <1>1, WFMin
  <1>4. ASSUME NEW y \in I
        PROVE  x <= y
    <2>1. x \in Nat /\ y \in Nat /\ ~(y < x)
      BY <1>2, <1>3
    <2> QED
      BY <2>1
  <1> QED
    BY <1>4 DEF Min

\* The search for a name finds the place of an entry that carries it.
Without(s, name) == RemoveAt(s, Min({i \in 1..Len(s) : s[i].name = name}))

LEMMA FirstPlace ==
    ASSUME NEW s \in Seq(Notes), NEW name,
           \E i \in 1..Len(s) : s[i].name = name
    PROVE  \E i \in 1..Len(s) : Without(s, name) = RemoveAt(s, i)
  <1> DEFINE I == {i \in 1..Len(s) : s[i].name = name}
  <1>1. I # {} /\ I \subseteq Nat
    BY LenProperties
  <1>2. Min(I) \in I
    BY <1>1, LeastOf
  <1> QED
    BY <1>2 DEF Without

\* A dismissal of a waiting name takes out the first entry that has it.
LEMMA DismissWaitingIs ==
    ASSUME NEW a, a.waiting \in Seq(Notes), NEW name,
           \E i \in 1..Len(a.waiting) : a.waiting[i].name = name
    PROVE  DismissWaiting(a, name) =
              [a EXCEPT !.waiting = Without(a.waiting, name), !.revision = a.revision + 1]
  <1>1. DOMAIN a.waiting = 1..Len(a.waiting)
    BY LenProperties
  <1> QED
    BY <1>1 DEF DismissWaiting, RemoveFirstMatch, SelectInSeq, Without

\* What leaves takes its place with it, and everything else moves up.
LEMMA Removed ==
    ASSUME NEW S, NEW s \in Seq(S), NEW i \in 1..Len(s)
    PROVE  /\ RemoveAt(s, i) \in Seq(S)
           /\ Len(RemoveAt(s, i)) = Len(s) - 1
           /\ \A j \in 1..Len(s) - 1 : RemoveAt(s, i)[j] = IF j < i THEN s[j] ELSE s[j + 1]
  <1> DEFINE left == SubSeq(s, 1, i - 1)
             right == SubSeq(s, i + 1, Len(s))
  <1>1. Len(s) \in Nat /\ \A j \in 1..Len(s) : s[j] \in S
    BY LenProperties, ElementOfSeq
  <1>2. /\ left \in Seq(S) /\ Len(left) = i - 1
        /\ \A j \in 1..i - 1 : left[j] = s[j]
    <2>1. \A j \in 1..i - 1 : s[j] \in S
      BY <1>1
    <2>2. 1 \in Int /\ i - 1 \in Int
      BY <1>1
    <2> HIDE DEF left
    <2>3. /\ left \in Seq(S) /\ Len(left) = (IF 1 <= i - 1 THEN i - 1 - 1 + 1 ELSE 0)
          /\ \A j \in 1..i - 1 - 1 + 1 : left[j] = s[1 + j - 1]
      BY <2>1, <2>2, SubSeqProperties DEF left
    <2> QED
      BY <2>3, <1>1
  <1>3. /\ right \in Seq(S) /\ Len(right) = Len(s) - i
        /\ \A j \in 1..Len(s) - i : right[j] = s[i + j]
    <2>1. \A j \in i + 1..Len(s) : s[j] \in S
      BY <1>1
    <2>2. i + 1 \in Int /\ Len(s) \in Int
      BY <1>1
    <2> HIDE DEF right
    <2>3. /\ right \in Seq(S)
          /\ Len(right) = (IF i + 1 <= Len(s) THEN Len(s) - (i + 1) + 1 ELSE 0)
          /\ \A j \in 1..Len(s) - (i + 1) + 1 : right[j] = s[i + 1 + j - 1]
      BY <2>1, <2>2, SubSeqProperties DEF right
    <2> QED
      BY <2>3, <1>1
  <1> HIDE DEF left, right
  <1>4. /\ left \o right \in Seq(S)
        /\ Len(left \o right) = Len(left) + Len(right)
        /\ \A j \in 1..Len(left) + Len(right) : (left \o right)[j] =
                IF j <= Len(left) THEN left[j] ELSE right[j - Len(left)]
    BY <1>2, <1>3, ConcatProperties
  <1>5. RemoveAt(s, i) = left \o right
    BY DEF RemoveAt, left, right
  <1>6. Len(RemoveAt(s, i)) = Len(s) - 1 /\ i \in Nat
    BY <1>1, <1>2, <1>3, <1>4, <1>5
  <1>7. ASSUME NEW j \in 1..Len(s) - 1, j < i
        PROVE  RemoveAt(s, i)[j] = s[j]
    BY <1>1, <1>2, <1>3, <1>4, <1>5, <1>7
  <1>8. ASSUME NEW j \in 1..Len(s) - 1, ~(j < i)
        PROVE  RemoveAt(s, i)[j] = s[j + 1]
    <2>1. RemoveAt(s, i)[j] = right[j - (i - 1)]
      BY <1>1, <1>2, <1>3, <1>4, <1>5, <1>8
    <2>2. j - (i - 1) \in 1..Len(s) - i /\ i + (j - (i - 1)) = j + 1
      BY <1>1, <1>6, <1>8
    <2> QED
      BY <2>1, <2>2, <1>3
  <1> QED
    BY <1>4, <1>5, <1>6, <1>7, <1>8

\* No entry, all but the first, one more while there is room, all but one of a
\* name: still the waiting entries.
LEMMA WaitingKept ==
    ASSUME NEW w \in Queues
    PROVE  /\ w \in Seq(Notes) /\ Len(w) \in Nat /\ Len(w) <= Waiting
           /\ DOMAIN w = 1..Len(w)
           /\ w # <<>> => Head(w) \in Notes /\ Tail(w) \in Queues
           /\ \A n \in Notes : Len(w) # Waiting => Append(w, n) \in Queues
           /\ \A name : (\E i \in 1..Len(w) : w[i].name = name) => Without(w, name) \in Queues
  <1>1. w \in Seq(Notes) /\ Len(w) \in Nat /\ Len(w) <= Waiting /\ DOMAIN w = 1..Len(w)
    BY WaitingSeq, LenProperties
  <1>2. Waiting \in Nat
    BY ArbiterAssumption DEF ArbiterAssumption
  <1>4. ASSUME w # <<>>
        PROVE  Head(w) \in Notes /\ Tail(w) \in Queues
    <2>1. Head(w) \in Notes /\ Tail(w) \in Seq(Notes) /\ Len(Tail(w)) = Len(w) - 1
      BY <1>1, <1>4, HeadTailProperties
    <2>2. Len(Tail(w)) <= Waiting
      BY <2>1, <1>1, <1>2
    <2> QED
      BY <2>1, <2>2, WaitingSeq
  <1>5. ASSUME NEW n \in Notes, Len(w) # Waiting
        PROVE  Append(w, n) \in Queues
    <2>1. Append(w, n) \in Seq(Notes) /\ Len(Append(w, n)) = Len(w) + 1
      BY <1>1, AppendProperties
    <2> DEFINE k == Len(w)
    <2>2. k \in Nat /\ k <= Waiting /\ k # Waiting
      BY <1>1, <1>5
    <2> HIDE DEF k
    <2>3. k + 1 <= Waiting
      BY <2>2, <1>2
    <2> QED
      BY <2>1, <2>3, WaitingSeq DEF k
  <1>6. ASSUME NEW name, \E i \in 1..Len(w) : w[i].name = name
        PROVE  Without(w, name) \in Queues
    <2>1. PICK i \in 1..Len(w) : Without(w, name) = RemoveAt(w, i)
      BY <1>1, <1>6, FirstPlace
    <2>2. RemoveAt(w, i) \in Seq(Notes) /\ Len(RemoveAt(w, i)) = Len(w) - 1
      BY <1>1, Removed
    <2>3. Len(RemoveAt(w, i)) <= Waiting
      BY <2>2, <1>1, <1>2
    <2> QED
      BY <2>1, <2>2, <2>3, WaitingSeq
  <1> QED
    BY <1>1, <1>4, <1>5, <1>6

LEMMA NothingWaits == <<>> \in Queues
  <1> DEFINE e == <<>>
  <1>1. e \in [1..0 -> Notes]
    OBVIOUS
  <1>2. 0 \in 0..Waiting
    BY ArbiterAssumption DEF ArbiterAssumption
  <1> HIDE DEF e
  <1>3. e \in Queues
    BY <1>1, <1>2 DEF Queues, BoundedSeq, SeqOf
  <1> QED
    BY <1>3 DEF e

LEMMA NoNoteIsNote == NoNote \in Notes
  BY ArbiterAssumption DEF ArbiterAssumption, NoNote, Notes

-----------------------------------------------------------------------------
(* States of the arbiter *)

\* SlotConsistent, of any state.
Slot(a) ==
    /\ a.waiting # <<>> => a.kind = "notify"
    /\ a.document <=> (a.kind = "notify" /\ a.note.doc)
    /\ a.kind # "notify" => a.note = NoNote

\* The types, the slot, and that the time a notification has been up and the
\* time it has left make its whole duration.
Sound(a) ==
    /\ a \in ArbiterState
    /\ Slot(a)
    /\ a.kind = "notify" => a.since + a.left >= a.note.dur

\* No command ends a transition that waits or touches the layer that is left.
Passed(a, b) == b.outgoing = a.outgoing /\ (a.pending => b.pending)

LEMMA SoundFields ==
    ASSUME NEW a, Sound(a)
    PROVE  /\ a.note \in Notes /\ a.waiting \in Queues
           /\ a.revision \in Nat /\ a.left \in Nat /\ a.since \in Nat
           /\ a.pending \in BOOLEAN /\ a.outgoing \in BOOLEAN /\ a.power \in BOOLEAN
  BY ArbiterAssumption DEF ArbiterAssumption, Sound, ArbiterState, Queues

\* Whatever leaves the slot alone and only adds to the transitions wanted.
SameSlot(a, b) ==
    /\ b.kind = a.kind /\ b.note = a.note /\ b.waiting = a.waiting
    /\ b.left = a.left /\ b.since = a.since /\ b.document = a.document

LEMMA SameSlotSound ==
    ASSUME NEW a, Sound(a), NEW b \in ArbiterState, SameSlot(a, b)
    PROVE  Sound(b)
  <1>1. Slot(b)
    BY DEF Sound, Slot, SameSlot
  <1> QED
    BY <1>1 DEF Sound, SameSlot

LEMMA BumpSound ==
    ASSUME NEW a, Sound(a)
    PROVE  Sound(Bump(a)) /\ Passed(a, Bump(a)) /\ SameSlot(a, Bump(a))
  <1> DEFINE t == Bump(a)
  <1>1. a.revision + 1 \in Nat
    BY DEF Sound, ArbiterState
  <1>2. t \in ArbiterState
    BY <1>1 DEF Sound, ArbiterState, Bump
  <1>3. SameSlot(a, t)
    BY DEF Sound, ArbiterState, Bump, SameSlot
  <1>4. Passed(a, t)
    BY DEF Sound, ArbiterState, Bump, Passed
  <1> HIDE DEF t
  <1> QED
    BY <1>2, <1>3, <1>4, SameSlotSound DEF t

\* The scene under the slot, and a transition that is wanted from here on.
Scene(a, base, g, s, on, more) ==
    [a EXCEPT !.base = base, !.generator = g, !.style = s, !.power = on,
              !.pending = a.pending \/ more]

LEMMA SceneSound ==
    ASSUME NEW a, Sound(a), NEW base \in Bases, NEW g \in Generators, NEW s \in Styles,
           NEW on \in BOOLEAN, NEW more \in BOOLEAN
    PROVE  /\ Sound(Scene(a, base, g, s, on, more))
           /\ Passed(a, Scene(a, base, g, s, on, more))
           /\ SameSlot(a, Scene(a, base, g, s, on, more))
  <1> DEFINE b == Scene(a, base, g, s, on, more)
  <1>1. (a.pending \/ more) \in BOOLEAN
    OBVIOUS
  <1>2. b \in ArbiterState
    BY <1>1 DEF Sound, ArbiterState, Scene
  <1>3. SameSlot(a, b)
    BY DEF Sound, ArbiterState, SameSlot, Scene
  <1>4. b.outgoing = a.outgoing /\ (a.pending => b.pending)
    BY DEF Sound, ArbiterState, Scene
  <1> HIDE DEF b
  <1>5. Sound(b) /\ Passed(a, b) /\ SameSlot(a, b)
    BY <1>2, <1>3, <1>4, SameSlotSound DEF Passed
  <1> QED
    BY <1>5 DEF b

LEMMA TakeSlotSound ==
    ASSUME NEW a, Sound(a), NEW kind \in {"none", "raw", "arming"},
           NEW left \in 0..MaxDuration, NEW soft \in BOOLEAN
    PROVE  /\ Sound(TakeSlot(a, kind, left, soft)) /\ Passed(a, TakeSlot(a, kind, left, soft))
           /\ TakeSlot(a, kind, left, soft).revision = a.revision
           /\ TakeSlot(a, kind, left, soft).kind = kind
  <1> DEFINE t == TakeSlot(a, kind, left, soft)
  <1>1. 0 \in 0..MaxDuration
    BY ArbiterAssumption DEF ArbiterAssumption
  <1>2. t \in ArbiterState
    BY <1>1, NothingWaits, NoNoteIsNote DEF Sound, ArbiterState, TakeSlot, Queues
  <1>3. /\ t.kind = kind /\ t.note = NoNote /\ t.waiting = <<>>
        /\ t.document = FALSE /\ t.revision = a.revision
    BY DEF Sound, ArbiterState, TakeSlot
  <1>4. t.pending = a.pending /\ t.outgoing = a.outgoing
    BY DEF Sound, ArbiterState, TakeSlot
  <1> HIDE DEF t
  <1>5. Slot(t) /\ t.kind # "notify"
    BY <1>3 DEF Slot
  <1>6. Sound(t) /\ Passed(a, t)
    BY <1>2, <1>4, <1>5 DEF Sound, Passed
  <1> QED
    BY <1>3, <1>6 DEF t

LEMMA NoSlotSound ==
    ASSUME NEW a, Sound(a), NEW base \in Bases, NEW more \in BOOLEAN
    PROVE  LET t == [TakeSlot(a, "none", 0, FALSE) EXCEPT !.base = base,
                                                          !.pending = @ \/ more]
           IN  Sound(t) /\ Passed(a, t) /\ t.kind = "none"
  <1> DEFINE u == TakeSlot(a, "none", 0, FALSE)
             t == [u EXCEPT !.base = base, !.pending = @ \/ more]
  <1>1. 0 \in 0..MaxDuration
    BY ArbiterAssumption DEF ArbiterAssumption
  <1>2. Sound(u) /\ Passed(a, u) /\ u.kind = "none"
    BY <1>1, TakeSlotSound
  <1> HIDE DEF u
  <1>3. u.generator \in Generators /\ u.style \in Styles /\ u.power \in BOOLEAN
    BY <1>2 DEF Sound, ArbiterState
  <1>4. t = Scene(u, base, u.generator, u.style, u.power, more)
    BY <1>2 DEF Sound, ArbiterState, Scene
  <1> HIDE DEF t
  <1>5. Sound(t) /\ Passed(u, t) /\ SameSlot(u, t)
    BY <1>2, <1>3, <1>4, SceneSound
  <1>6. Passed(a, t) /\ t.kind = "none"
    BY <1>2, <1>5 DEF Passed, SameSlot
  <1> QED
    BY <1>5, <1>6 DEF t, u

\* A notification that is shown.
LEMMA ShowSound ==
    ASSUME NEW a, Sound(a), NEW n \in Notes, NEW w \in Queues
    PROVE  /\ Sound([Show(a, n) EXCEPT !.waiting = w, !.pending = TRUE])
           /\ Passed(a, [Show(a, n) EXCEPT !.waiting = w, !.pending = TRUE])
  <1> DEFINE t == [Show(a, n) EXCEPT !.waiting = w, !.pending = TRUE]
  <1>1. 0 \in 0..MaxDuration /\ n.dur \in 0..MaxDuration /\ n.doc \in BOOLEAN
    BY ArbiterAssumption DEF ArbiterAssumption, Notes
  <1>2. t \in ArbiterState
    BY <1>1 DEF Sound, ArbiterState, Show, Queues
  <1>3. /\ t.kind = "notify" /\ t.note = n /\ t.left = n.dur /\ t.since = 0
        /\ t.document = n.doc /\ t.pending = TRUE /\ t.outgoing = a.outgoing
    BY DEF Sound, ArbiterState, Show
  <1> HIDE DEF t
  <1>4. Slot(t)
    BY <1>3 DEF Slot
  <1>5. n.dur \in Nat
    BY ArbiterAssumption DEF ArbiterAssumption, Notes
  <1>6. t.since + t.left >= t.note.dur
    BY <1>3, <1>5
  <1>7. Sound(t) /\ Passed(a, t)
    BY <1>2, <1>3, <1>4, <1>6 DEF Sound, Passed
  <1> QED
    BY <1>7 DEF t

LEMMA AdvanceSound ==
    ASSUME NEW a, Sound(a)
    PROVE  Sound(Advance(a)) /\ Passed(a, Advance(a))
  <1>1. a.waiting \in Queues
    BY SoundFields
  <1>2. CASE a.waiting # <<>>
    <2>1. Head(a.waiting) \in Notes /\ Tail(a.waiting) \in Queues
      BY <1>1, <1>2, WaitingKept
    <2> QED
      BY <1>2, <2>1, ShowSound DEF Advance
  <1>3. CASE ~(a.waiting # <<>>)
    <2> DEFINE u == TakeSlot(a, "none", 0, FALSE)
               t == [u EXCEPT !.base = u.base, !.pending = @ \/ TRUE]
    <2>0. 0 \in 0..MaxDuration
      BY ArbiterAssumption DEF ArbiterAssumption
    <2>1a. Sound(u)
      BY <2>0, TakeSlotSound
    <2>1. Sound(u) /\ u.base \in Bases
      BY <2>1a DEF Sound, ArbiterState
    <2>2. Sound(t) /\ Passed(a, t)
      BY <2>1, NoSlotSound
    <2> HIDE DEF u
    <2>3. [u EXCEPT !.pending = TRUE] = t
      BY <2>1 DEF Sound, ArbiterState
    <2> QED
      BY <1>3, <2>2, <2>3 DEF Advance, u
  <1> QED
    BY <1>2, <1>3

-----------------------------------------------------------------------------
(* The notifications as one queue *)

QueueOf(a) == IF a.kind = "notify" THEN <<a.note>> \o a.waiting ELSE <<>>

\* A step of NotificationQueue, or none.
Moved(q, r) ==
    \/ r = q \/ r = <<>>
    \/ \E n \in Posts :
        \/ r = IF q = <<>> THEN <<n>> ELSE <<n>> \o Tail(q)
        \/ Len(q) < Waiting + 1 /\ r = Append(q, n)
    \/ \E i \in DOMAIN q : r = RemoveAt(q, i)

\* What holds of the state a command or an expiry leaves.
Effect(a, b) == Sound(b) /\ Passed(a, b) /\ Moved(QueueOf(a), QueueOf(b))

\* One entry and what waits behind it: its places, its head and its rest.
LEMMA Lined ==
    ASSUME NEW n \in Notes, NEW w \in Seq(Notes)
    PROVE  /\ <<n>> \o w \in Seq(Notes) /\ <<n>> \o w # <<>>
           /\ Len(<<n>> \o w) = Len(w) + 1 /\ Len(w) \in Nat
           /\ DOMAIN (<<n>> \o w) = 1..Len(w) + 1
           /\ (<<n>> \o w)[1] = n
           /\ \A i \in 1..Len(w) : (<<n>> \o w)[i + 1] = w[i]
  <1> DEFINE one == <<n>>
             q == one \o w
  <1>1. one \in Seq(Notes) /\ Len(one) = 1 /\ one[1] = n
    OBVIOUS
  <1>2. Len(w) \in Nat
    BY LenProperties
  <1> HIDE DEF one
  <1>3. /\ q \in Seq(Notes) /\ Len(q) = Len(one) + Len(w)
        /\ \A i \in 1..Len(one) + Len(w) :
              q[i] = IF i <= Len(one) THEN one[i] ELSE w[i - Len(one)]
    BY <1>1, ConcatProperties
  <1> HIDE DEF q
  <1>4. q \in Seq(Notes) /\ Len(q) = Len(w) + 1 /\ DOMAIN q = 1..Len(w) + 1
    BY <1>1, <1>2, <1>3, LenProperties
  <1>5. q # <<>>
    BY <1>2, <1>4, EmptySeq
  <1>6. q[1] = n
    BY <1>1, <1>2, <1>3
  <1>7. ASSUME NEW i \in 1..Len(w)
        PROVE  q[i + 1] = w[i]
    <2>1. i + 1 \in 1..1 + Len(w) /\ ~(i + 1 <= 1) /\ i + 1 - 1 = i
      BY <1>2
    <2> QED
      BY <2>1, <1>1, <1>3
  <1> QED
    BY <1>2, <1>4, <1>5, <1>6, <1>7 DEF q, one

LEMMA LinedRest ==
    ASSUME NEW n \in Notes, NEW w \in Seq(Notes)
    PROVE  Tail(<<n>> \o w) = w
  <1> DEFINE q == <<n>> \o w
  <1>1. /\ q \in Seq(Notes) /\ q # <<>> /\ Len(q) = Len(w) + 1 /\ Len(w) \in Nat
        /\ \A i \in 1..Len(w) : q[i + 1] = w[i]
    BY Lined
  <1> HIDE DEF q
  <1>2. /\ Tail(q) \in Seq(Notes) /\ Len(Tail(q)) = Len(q) - 1
        /\ \A i \in 1..Len(Tail(q)) : Tail(q)[i] = q[i + 1]
    BY <1>1, HeadTailProperties
  <1>3. Len(Tail(q)) = Len(w)
    BY <1>1, <1>2
  <1>4. Tail(q) = w
    BY <1>1, <1>2, <1>3, SeqEqual
  <1> QED
    BY <1>4 DEF q

\* The head leaves: what waited is the queue.
LEMMA HeadRemoved ==
    ASSUME NEW n \in Notes, NEW w \in Seq(Notes)
    PROVE  RemoveAt(<<n>> \o w, 1) = w
  <1> DEFINE q == <<n>> \o w
  <1>1. /\ q \in Seq(Notes) /\ Len(q) = Len(w) + 1 /\ Len(w) \in Nat
        /\ \A i \in 1..Len(w) : q[i + 1] = w[i]
    BY Lined
  <1> HIDE DEF q
  <1>2. 1 \in 1..Len(q)
    BY <1>1
  <1> DEFINE r == RemoveAt(q, 1)
  <1>3. /\ r \in Seq(Notes) /\ Len(r) = Len(q) - 1
        /\ \A j \in 1..Len(q) - 1 : r[j] = IF j < 1 THEN q[j] ELSE q[j + 1]
    BY <1>1, <1>2, Removed
  <1> HIDE DEF r
  <1>4. Len(r) = Len(w)
    BY <1>1, <1>3
  <1>5. \A j \in 1..Len(r) : r[j] = w[j]
    BY <1>1, <1>3, <1>4
  <1>6. r = w
    BY <1>3, <1>4, <1>5, SeqEqual
  <1> QED
    BY <1>6 DEF r, q

\* What waits, taken apart and put together.
LEMMA LinedBack ==
    ASSUME NEW w \in Seq(Notes), w # <<>>
    PROVE  <<Head(w)>> \o Tail(w) = w
  <1> DEFINE p == <<Head(w)>> \o Tail(w)
  <1>1. /\ Head(w) \in Notes /\ Tail(w) \in Seq(Notes) /\ Len(Tail(w)) = Len(w) - 1
        /\ \A i \in 1..Len(Tail(w)) : Tail(w)[i] = w[i + 1]
    BY HeadTailProperties
  <1>2. Len(w) \in Nat \ {0} /\ Head(w) = w[1]
    BY EmptySeq
  <1>3. /\ p \in Seq(Notes) /\ Len(p) = Len(Tail(w)) + 1 /\ p[1] = Head(w)
        /\ \A i \in 1..Len(Tail(w)) : p[i + 1] = Tail(w)[i]
    BY <1>1, Lined
  <1> HIDE DEF p
  <1>4. ASSUME NEW j \in 1..Len(p)
        PROVE  p[j] = w[j]
    <2>1. CASE j = 1
      BY <2>1, <1>2, <1>3
    <2>2. CASE j # 1
      <3>1. j - 1 \in 1..Len(Tail(w)) /\ (j - 1) + 1 = j
        BY <2>2, <1>1, <1>2, <1>3
      <3> QED
        BY <3>1, <1>1, <1>3
    <2> QED
      BY <2>1, <2>2
  <1>5. Len(p) = Len(w)
    BY <1>1, <1>2, <1>3
  <1>6. p = w
    BY <1>3, <1>4, <1>5, SeqEqual
  <1> QED
    BY <1>6 DEF p

\* A waiting entry leaves: the place behind the head is counted with it.
LEMMA WaitingRemoved ==
    ASSUME NEW n \in Notes, NEW w \in Seq(Notes), NEW i \in 1..Len(w)
    PROVE  /\ i + 1 \in DOMAIN (<<n>> \o w)
           /\ RemoveAt(<<n>> \o w, i + 1) = <<n>> \o RemoveAt(w, i)
  <1> DEFINE q == <<n>> \o w
             v == RemoveAt(w, i)
             p == <<n>> \o v
             r == RemoveAt(q, i + 1)
  <1>1. /\ q \in Seq(Notes) /\ Len(q) = Len(w) + 1 /\ Len(w) \in Nat
        /\ DOMAIN q = 1..Len(w) + 1 /\ q[1] = n
        /\ \A j \in 1..Len(w) : q[j + 1] = w[j]
    BY Lined
  <1>2. /\ v \in Seq(Notes) /\ Len(v) = Len(w) - 1
        /\ \A j \in 1..Len(w) - 1 : v[j] = IF j < i THEN w[j] ELSE w[j + 1]
    BY Removed
  <1> HIDE DEF q, v
  <1>3. /\ p \in Seq(Notes) /\ Len(p) = Len(v) + 1 /\ p[1] = n
        /\ \A j \in 1..Len(v) : p[j + 1] = v[j]
    BY <1>2, Lined
  <1>4. i + 1 \in 1..Len(q) /\ i \in Nat
    BY <1>1
  <1>5. /\ r \in Seq(Notes) /\ Len(r) = Len(q) - 1
        /\ \A j \in 1..Len(q) - 1 : r[j] = IF j < i + 1 THEN q[j] ELSE q[j + 1]
    BY <1>1, <1>4, Removed
  <1> HIDE DEF p, r
  <1>6. Len(r) = Len(p) /\ Len(r) = Len(w)
    BY <1>1, <1>2, <1>3, <1>5
  <1>7. ASSUME NEW j \in 1..Len(r)
        PROVE  r[j] = p[j]
    <2>1. CASE j = 1
      BY <2>1, <1>1, <1>3, <1>4, <1>5, <1>6
    <2>2. CASE j # 1
      <3> DEFINE k == j - 1
      <3>1. k \in 1..Len(w) - 1 /\ j = k + 1 /\ k + 1 \in 1..Len(w) /\ k \in 1..Len(w)
        BY <2>2, <1>1, <1>6
      <3> HIDE DEF k
      <3>2. p[j] = v[k]
        BY <3>1, <1>2, <1>3
      <3>3. r[j] = IF k < i THEN q[k + 1] ELSE q[(k + 1) + 1]
        BY <3>1, <1>1, <1>4, <1>5, <1>6
      <3> QED
        BY <3>1, <3>2, <3>3, <1>1, <1>2
    <2> QED
      BY <2>1, <2>2
  <1>8. r = p
    BY <1>3, <1>5, <1>6, <1>7, SeqEqual
  <1> QED
    BY <1>1, <1>4, <1>8 DEF r, p, q, v

\* A notification behind the others is one more at the end.
LEMMA LinedMore ==
    ASSUME NEW n \in Notes, NEW w \in Seq(Notes), NEW m \in Notes
    PROVE  <<n>> \o Append(w, m) = Append(<<n>> \o w, m)
  <1> DEFINE one == <<n>>
             last == <<m>>
  <1>1. one \in Seq(Notes) /\ last \in Seq(Notes)
    OBVIOUS
  <1>2. Append(w, m) = w \o last
    BY AppendIsConcat
  <1>3. one \o w \in Seq(Notes)
    BY <1>1, ConcatProperties
  <1>4. Append(one \o w, m) = (one \o w) \o last
    BY <1>3, AppendIsConcat
  <1> HIDE DEF one, last
  <1>5. (one \o w) \o last = one \o (w \o last)
    BY <1>1, ConcatAssociative
  <1> QED
    BY <1>2, <1>4, <1>5 DEF one

-----------------------------------------------------------------------------
(* Commands and expiries *)

LEMMA QuietEffect ==
    ASSUME NEW a, NEW b, Sound(b), Passed(a, b), SameSlot(a, b)
    PROVE  Effect(a, b)
  BY DEF Effect, QueueOf, Moved, SameSlot

LEMMA ClearEffect ==
    ASSUME NEW a, NEW b, Sound(b), Passed(a, b), b.kind # "notify"
    PROVE  Effect(a, b)
  BY DEF Effect, QueueOf, Moved

\* A new revision is no change of any of it.
LEMMA BumpEffect ==
    ASSUME NEW a, NEW b, Effect(a, b)
    PROVE  Effect(a, Bump(b))
  <1>1. Sound(b) /\ Passed(a, b) /\ Moved(QueueOf(a), QueueOf(b))
    BY DEF Effect
  <1>2. Sound(Bump(b)) /\ Passed(b, Bump(b)) /\ SameSlot(b, Bump(b))
    BY <1>1, BumpSound
  <1>3. QueueOf(Bump(b)) = QueueOf(b)
    BY <1>2 DEF QueueOf, SameSlot
  <1> QED
    BY <1>1, <1>2, <1>3 DEF Effect, Passed

\* The next entry has its turn: the head has left the queue.
LEMMA AdvanceEffect ==
    ASSUME NEW a, Sound(a), a.kind = "notify"
    PROVE  Effect(a, Advance(a))
  <1> DEFINE b == Advance(a)
  <1>1. Sound(b) /\ Passed(a, b)
    BY AdvanceSound
  <1>2. a.note \in Notes /\ a.waiting \in Queues /\ a.waiting \in Seq(Notes)
    BY SoundFields, WaitingKept
  <1>3. QueueOf(b) = a.waiting
    <2>1. CASE a.waiting # <<>>
      <3>1. b.kind = "notify" /\ b.note = Head(a.waiting) /\ b.waiting = Tail(a.waiting)
        BY <2>1 DEF Advance, Show, Sound, ArbiterState
      <3>2. Head(a.waiting) \in Notes /\ Tail(a.waiting) \in Seq(Notes)
        BY <1>2, <2>1, HeadTailProperties
      <3> HIDE DEF b
      <3>3. QueueOf(b) = <<Head(a.waiting)>> \o Tail(a.waiting)
        BY <3>1 DEF QueueOf
      <3> QED
        BY <3>3, <1>2, <2>1, LinedBack
    <2>2. CASE ~(a.waiting # <<>>)
      <3>1. b.kind = "none"
        BY <2>2 DEF Advance, TakeSlot, Sound, ArbiterState
      <3> HIDE DEF b
      <3> QED
        BY <2>2, <3>1 DEF QueueOf
    <2> QED
      BY <2>1, <2>2
  <1>4. RemoveAt(QueueOf(a), 1) = a.waiting /\ 1 \in DOMAIN QueueOf(a)
    <2>1. QueueOf(a) = <<a.note>> \o a.waiting
      BY DEF QueueOf
    <2>2. DOMAIN QueueOf(a) = 1..Len(a.waiting) + 1 /\ Len(a.waiting) \in Nat
      BY <1>2, <2>1, Lined
    <2> QED
      BY <1>2, <2>1, <2>2, HeadRemoved
  <1> HIDE DEF b
  <1>5. Moved(QueueOf(a), QueueOf(b))
    BY <1>3, <1>4 DEF Moved
  <1>6. Effect(a, b)
    BY <1>1, <1>5 DEF Effect
  <1> QED
    BY <1>6 DEF b

LEMMA SetBaseEffect ==
    ASSUME NEW a, Sound(a), NEW base \in Bases
    PROVE  Effect(a, SetBase(a, base)) /\ SetBase(a, base).kind # "notify"
  <1> DEFINE more == (base # a.base \/ a.kind # "none")
             u == TakeSlot(a, "none", 0, FALSE)
             t == [u EXCEPT !.base = base, !.pending = @ \/ more]
  <1>1. Sound(t) /\ Passed(a, t) /\ t.kind = "none"
    BY NoSlotSound
  <1>2. SetBase(a, base) = Bump(t)
    BY DEF SetBase
  <1> HIDE DEF t
  <1>3. Effect(a, Bump(t))
    BY <1>1, ClearEffect, BumpEffect
  <1>4. Bump(t).kind = "none"
    BY <1>1, BumpSound DEF SameSlot
  <1> QED
    BY <1>2, <1>3, <1>4

LEMMA SetBaseKind ==
    ASSUME NEW a, Sound(a), NEW base \in Bases
    PROVE  SetBase(a, base).kind = "none"
  BY DEF SetBase, TakeSlot, Bump, Sound, ArbiterState

LEMMA SelectGeneratorEffect ==
    ASSUME NEW a, Sound(a), NEW g \in Generators
    PROVE  Effect(a, SelectGenerator(a, g)) /\ SameSlot(a, SelectGenerator(a, g))
  <1> DEFINE t == Scene(a, a.base, g, a.style, a.power, g # a.generator)
  <1>1. /\ a.base \in Bases /\ a.style \in Styles /\ a.power \in BOOLEAN
        /\ (g # a.generator) \in BOOLEAN
    BY DEF Sound, ArbiterState
  <1>2. SelectGenerator(a, g) = Bump(t)
    BY DEF SelectGenerator, Scene, Sound, ArbiterState
  <1>3. Sound(t) /\ Passed(a, t) /\ SameSlot(a, t)
    BY <1>1, SceneSound
  <1> HIDE DEF t
  <1>4. Effect(a, Bump(t)) /\ SameSlot(t, Bump(t))
    BY <1>3, QuietEffect, BumpEffect, BumpSound
  <1> QED
    BY <1>2, <1>3, <1>4 DEF SameSlot

LEMMA SameEffect ==
    ASSUME NEW a, Sound(a)
    PROVE  Effect(a, a) /\ SameSlot(a, a)
  BY QuietEffect DEF Passed, SameSlot

LEMMA SetPowerEffect ==
    ASSUME NEW a, Sound(a), NEW on \in BOOLEAN
    PROVE  Effect(a, SetPower(a, on))
  <1> DEFINE t == Scene(a, a.base, a.generator, a.style, on, FALSE)
  <1>1. a.base \in Bases /\ a.style \in Styles /\ a.generator \in Generators
    BY DEF Sound, ArbiterState
  <1>2. SetPower(a, on) = IF on = a.power THEN a ELSE Bump([a EXCEPT !.power = on])
    BY DEF SetPower
  <1>3. [a EXCEPT !.power = on] = t
    BY DEF Scene, Sound, ArbiterState
  <1>4. Sound(t) /\ Passed(a, t) /\ SameSlot(a, t)
    BY <1>1, SceneSound
  <1> HIDE DEF t
  <1>5. Effect(a, Bump(t)) /\ Effect(a, a)
    BY <1>4, QuietEffect, BumpEffect, SameEffect
  <1> QED
    BY <1>2, <1>3, <1>5

LEMMA SetStyleEffect ==
    ASSUME NEW a, Sound(a), NEW s \in Styles
    PROVE  Effect(a, SetStyle(a, s)) /\ SameSlot(a, SetStyle(a, s))
  <1> DEFINE more == (a.base = "clock" /\ a.kind = "none")
             t == Scene(a, a.base, a.generator, s, a.power, more)
             u == [a EXCEPT !.style = s, !.pending = @ \/ more]
  <1>1. a.base \in Bases /\ a.generator \in Generators /\ a.power \in BOOLEAN
    BY DEF Sound, ArbiterState
  <1>2. SetStyle(a, s) = IF s = a.style THEN a ELSE Bump(u)
    BY DEF SetStyle
  <1>3. u = t
    BY DEF Scene, Sound, ArbiterState
  <1>3a. more \in BOOLEAN
    OBVIOUS
  <1> HIDE DEF u, more
  <1>4. Sound(t) /\ Passed(a, t) /\ SameSlot(a, t)
    BY <1>1, <1>3a, SceneSound
  <1> HIDE DEF t
  <1>5. Effect(a, Bump(t)) /\ Effect(a, a) /\ SameSlot(t, Bump(t)) /\ SameSlot(a, a)
    BY <1>4, QuietEffect, BumpEffect, SameEffect, BumpSound
  <1> QED
    BY <1>2, <1>3, <1>4, <1>5 DEF SameSlot

LEMMA AdjustEffect ==
    ASSUME NEW a, Sound(a)
    PROVE  Effect(a, Adjust(a)) /\ SameSlot(a, Adjust(a))
  BY SameEffect, BumpEffect, BumpSound DEF Adjust

LEMMA RawFrameEffect ==
    ASSUME NEW a, Sound(a), NEW dur \in 1..MaxDuration, NEW soft \in BOOLEAN
    PROVE  Effect(a, RawFrame(a, dur, soft))
  <1> DEFINE u == TakeSlot(a, "raw", dur, soft)
             t == [u EXCEPT !.pending = @ \/ soft]
  <1>1. dur \in 0..MaxDuration
    BY ArbiterAssumption DEF ArbiterAssumption
  <1>2. Sound(u) /\ Passed(a, u) /\ u.kind = "raw"
    BY <1>1, TakeSlotSound
  <1>3. RawFrame(a, dur, soft) = Bump(t)
    BY DEF RawFrame
  <1> HIDE DEF u
  <1>4. t = Scene(u, u.base, u.generator, u.style, u.power, soft)
    BY <1>2 DEF Scene, Sound, ArbiterState
  <1> HIDE DEF t
  <1>5. Sound(t) /\ Passed(u, t) /\ SameSlot(u, t)
    BY <1>2, <1>4, SceneSound DEF Sound, ArbiterState
  <1>6. Passed(a, t) /\ t.kind # "notify"
    BY <1>2, <1>5 DEF Passed, SameSlot
  <1> QED
    BY <1>3, <1>5, <1>6, ClearEffect, BumpEffect

LEMMA StreamFrameEffect ==
    ASSUME NEW a, Sound(a), NEW dur \in 1..MaxDuration
    PROVE  /\ Effect(a, StreamFrame(a, dur))
           /\ StreamFrame(a, dur).revision = a.revision
  <1> DEFINE u == TakeSlot(a, "raw", dur, FALSE)
             t == [u EXCEPT !.dirty = TRUE]
  <1>1. dur \in 0..MaxDuration
    BY ArbiterAssumption DEF ArbiterAssumption
  <1>2. Sound(u) /\ Passed(a, u) /\ u.kind = "raw" /\ u.revision = a.revision
    BY <1>1, TakeSlotSound
  <1>3. StreamFrame(a, dur) = t
    BY DEF StreamFrame
  <1> HIDE DEF u
  <1>4. t \in ArbiterState /\ SameSlot(u, t) /\ t.revision = u.revision
    BY <1>2 DEF Sound, ArbiterState, SameSlot
  <1>5. Passed(u, t)
    BY <1>2 DEF Sound, ArbiterState, Passed
  <1> HIDE DEF t
  <1>6. Sound(t) /\ Passed(a, t) /\ t.kind # "notify"
    BY <1>2, <1>4, <1>5, SameSlotSound DEF Passed, SameSlot
  <1> QED
    BY <1>2, <1>3, <1>4, <1>6, ClearEffect

LEMMA ArmStreamEffect ==
    ASSUME NEW a, Sound(a)
    PROVE  Effect(a, ArmStream(a))
  <1> DEFINE u == TakeSlot(a, "arming", ArmingWait, FALSE)
  <1>1. ArmingWait \in 0..MaxDuration
    BY ArbiterAssumption DEF ArbiterAssumption
  <1>2. Sound(u) /\ Passed(a, u) /\ u.kind = "arming"
    BY <1>1, TakeSlotSound
  <1> HIDE DEF u
  <1>3. Effect(a, Bump(u))
    BY <1>2, ClearEffect, BumpEffect
  <1> QED
    BY <1>3 DEF ArmStream, u

LEMMA NotifyEffect ==
    ASSUME NEW a, Sound(a), NEW n \in Posts, NEW stack \in BOOLEAN
    PROVE  Effect(a, Notify(a, n, stack))
  <1>1. n \in Notes /\ a.note \in Notes /\ a.waiting \in Queues
    BY InputAssumption, SoundFields DEF InputAssumption
  <1>2. /\ a.waiting \in Seq(Notes) /\ Len(a.waiting) \in Nat /\ Len(a.waiting) <= Waiting
        /\ Waiting \in Nat
    BY <1>1, WaitingKept, ArbiterAssumption DEF ArbiterAssumption
  <1>3. CASE UpdatesInPlace(a, n, stack)
    <2> DEFINE t == [a EXCEPT !.note = n, !.left = n.dur]
    <2>1. a.kind = "notify" /\ a.note.doc /\ n.doc
      BY <1>3 DEF UpdatesInPlace
    <2>2. n.dur \in 0..MaxDuration /\ n.dur \in Nat
      BY <1>1, ArbiterAssumption DEF Notes, ArbiterAssumption
    <2>3. t \in ArbiterState
      BY <1>1, <2>2 DEF Sound, ArbiterState
    <2>4. /\ t.kind = "notify" /\ t.note = n /\ t.waiting = a.waiting
          /\ t.left = n.dur /\ t.since = a.since /\ t.document = a.document
      BY <2>1 DEF Sound, ArbiterState
    <2>5. Passed(a, t)
      BY DEF Sound, ArbiterState, Passed
    <2>6. a.document /\ a.since \in Nat
      BY <2>1, SoundFields DEF Sound, Slot
    <2> HIDE DEF t
    <2>7. Slot(t)
      BY <2>1, <2>4, <2>6 DEF Slot
    <2>8. t.since + t.left >= t.note.dur
      BY <2>2, <2>4, <2>6
    <2>9. Sound(t)
      BY <2>3, <2>7, <2>8 DEF Sound
    <2>10. QueueOf(a) = <<a.note>> \o a.waiting /\ QueueOf(t) = <<n>> \o a.waiting
      BY <2>1, <2>4 DEF QueueOf
    <2>11. QueueOf(a) # <<>> /\ Tail(QueueOf(a)) = a.waiting
      BY <2>10, <1>1, <1>2, Lined, LinedRest
    <2>12. Moved(QueueOf(a), QueueOf(t))
      BY <2>10, <2>11 DEF Moved
    <2>13. Effect(a, Bump(t))
      BY <2>5, <2>9, <2>12, BumpEffect DEF Effect
    <2> QED
      BY <2>13, <1>3 DEF Notify, t
  <1>4. CASE ~UpdatesInPlace(a, n, stack) /\ QueueFull(a, stack)
    BY <1>4, SameEffect DEF Notify
  <1>5. CASE /\ ~UpdatesInPlace(a, n, stack) /\ ~QueueFull(a, stack)
             /\ stack /\ a.kind = "notify"
    <2> DEFINE w == Append(a.waiting, n)
               t == [a EXCEPT !.waiting = Append(@, n), !.revision = @ + 1]
    <2>1. Len(a.waiting) # Waiting
      BY <1>5 DEF QueueFull
    <2>2. w \in Queues
      BY <1>1, <2>1, WaitingKept
    <2>3. a.revision + 1 \in Nat
      BY SoundFields
    <2>4. t = [a EXCEPT !.waiting = w, !.revision = a.revision + 1]
      OBVIOUS
    <2> HIDE DEF w
    <2>5. t \in ArbiterState
      BY <2>2, <2>3, <2>4 DEF Sound, ArbiterState, Queues
    <2>6. /\ t.kind = a.kind /\ t.note = a.note /\ t.waiting = w
          /\ t.left = a.left /\ t.since = a.since /\ t.document = a.document
      BY <2>4 DEF Sound, ArbiterState
    <2>7. Passed(a, t)
      BY <2>4 DEF Sound, ArbiterState, Passed
    <2> HIDE DEF t
    <2>8. Slot(t)
      BY <1>5, <2>6 DEF Sound, Slot
    <2>9. Sound(t)
      BY <2>5, <2>6, <2>8 DEF Sound
    <2>10. QueueOf(a) = <<a.note>> \o a.waiting /\ QueueOf(t) = <<a.note>> \o w
      BY <1>5, <2>6 DEF QueueOf
    <2>11. QueueOf(t) = Append(QueueOf(a), n)
      BY <2>10, <1>1, <1>2, LinedMore DEF w
    <2>12. Len(QueueOf(a)) = Len(a.waiting) + 1
      BY <2>10, <1>1, <1>2, Lined
    <2> DEFINE k == Len(a.waiting)
    <2>13. k \in Nat /\ k <= Waiting /\ k # Waiting
      BY <1>2, <2>1
    <2> HIDE DEF k
    <2>14. k + 1 < Waiting + 1
      BY <1>2, <2>13
    <2>15. Moved(QueueOf(a), QueueOf(t))
      BY <2>11, <2>12, <2>14 DEF Moved, k
    <2>16. Effect(a, t)
      BY <2>7, <2>9, <2>15 DEF Effect
    <2> QED
      BY <2>16, <1>5 DEF Notify, t
  <1>6. CASE /\ ~UpdatesInPlace(a, n, stack) /\ ~QueueFull(a, stack)
             /\ ~(stack /\ a.kind = "notify")
    <2> DEFINE t == [Show(a, n) EXCEPT !.waiting = a.waiting, !.pending = TRUE]
    <2>1. [Show(a, n) EXCEPT !.pending = TRUE] = t
      BY DEF Show, Sound, ArbiterState
    <2>2. Sound(t) /\ Passed(a, t)
      BY <1>1, ShowSound
    <2>3. t.kind = "notify" /\ t.note = n /\ t.waiting = a.waiting
      BY DEF Show, Sound, ArbiterState
    <2> HIDE DEF t
    <2>4. QueueOf(t) = <<n>> \o a.waiting
      BY <2>3 DEF QueueOf
    <2>5. QueueOf(t) = IF QueueOf(a) = <<>> THEN <<n>> ELSE <<n>> \o Tail(QueueOf(a))
      <3>1. CASE a.kind = "notify"
        <4>1. QueueOf(a) = <<a.note>> \o a.waiting
          BY <3>1 DEF QueueOf
        <4>2. QueueOf(a) # <<>> /\ Tail(QueueOf(a)) = a.waiting
          BY <4>1, <1>1, <1>2, Lined, LinedRest
        <4> QED
          BY <4>2, <2>4
      <3>2. CASE a.kind # "notify"
        <4>1. QueueOf(a) = <<>> /\ a.waiting = <<>>
          BY <3>2 DEF QueueOf, Sound, Slot
        <4>2. <<n>> \o <<>> = <<n>>
          BY <1>1, ConcatEmptySeq
        <4> QED
          BY <4>1, <4>2, <2>4
      <3> QED
        BY <3>1, <3>2
    <2>6. Moved(QueueOf(a), QueueOf(t))
      BY <2>5 DEF Moved
    <2>7. Effect(a, Bump(t))
      BY <2>2, <2>6, BumpEffect DEF Effect
    <2> QED
      BY <2>1, <2>7, <1>6 DEF Notify
  <1> QED
    BY <1>3, <1>4, <1>5, <1>6

LEMMA DismissEffect ==
    ASSUME NEW a, Sound(a), NEW name
    PROVE  Effect(a, Dismiss(a, name))
  <1>1. a.note \in Notes /\ a.waiting \in Queues
    BY SoundFields
  <1>2. a.waiting \in Seq(Notes) /\ Len(a.waiting) \in Nat /\ DOMAIN a.waiting = 1..Len(a.waiting)
    BY <1>1, WaitingKept
  <1>3. CASE a.kind = "notify" /\ name \in {NoName, a.note.name}
    BY <1>3, AdvanceEffect, BumpEffect DEF Dismiss
  <1>4. CASE ~(a.kind = "notify" /\ name \in {NoName, a.note.name}) /\ name = NoName
    BY <1>4, SameEffect DEF Dismiss
  <1>5. CASE ~(a.kind = "notify" /\ name \in {NoName, a.note.name}) /\ name # NoName
    <2>1. Dismiss(a, name) = DismissWaiting(a, name)
      BY <1>5 DEF Dismiss
    <2>2. CASE ~\E i \in DOMAIN a.waiting : a.waiting[i].name = name
      BY <2>1, <2>2, SameEffect DEF DismissWaiting
    <2>3. CASE \E i \in DOMAIN a.waiting : a.waiting[i].name = name
      <3> DEFINE w == Without(a.waiting, name)
                 t == [a EXCEPT !.waiting = w, !.revision = a.revision + 1]
      <3>1. \E i \in 1..Len(a.waiting) : a.waiting[i].name = name
        BY <1>2, <2>3
      <3>2. DismissWaiting(a, name) = t
        BY <1>2, <3>1, DismissWaitingIs
      <3>3. w \in Queues
        BY <1>1, <3>1, WaitingKept
      <3>4. PICK i \in 1..Len(a.waiting) : w = RemoveAt(a.waiting, i)
        BY <1>2, <3>1, FirstPlace
      <3>5. a.revision + 1 \in Nat
        BY SoundFields
      <3> HIDE DEF w
      <3>6. t \in ArbiterState
        BY <3>3, <3>5 DEF Sound, ArbiterState, Queues
      <3>7. /\ t.kind = a.kind /\ t.note = a.note /\ t.waiting = w
            /\ t.left = a.left /\ t.since = a.since /\ t.document = a.document
        BY DEF Sound, ArbiterState
      <3>8. Passed(a, t)
        BY DEF Sound, ArbiterState, Passed
      <3> HIDE DEF t
      <3>9. a.waiting # <<>>
        BY <3>1, <1>2, EmptySeq
      <3>10. a.kind = "notify"
        BY <3>9 DEF Sound, Slot
      <3>11. Slot(t)
        BY <3>7, <3>10 DEF Sound, Slot
      <3>12. Sound(t)
        BY <3>6, <3>7, <3>11 DEF Sound
      <3>13. QueueOf(a) = <<a.note>> \o a.waiting /\ QueueOf(t) = <<a.note>> \o w
        BY <3>7, <3>10 DEF QueueOf
      <3>14. i + 1 \in DOMAIN QueueOf(a) /\ QueueOf(t) = RemoveAt(QueueOf(a), i + 1)
        BY <3>4, <3>13, <1>1, <1>2, WaitingRemoved
      <3>15. Moved(QueueOf(a), QueueOf(t))
        BY <3>14 DEF Moved
      <3>16. Effect(a, t)
        BY <3>8, <3>12, <3>15 DEF Effect
      <3> QED
        BY <2>1, <3>2, <3>16
    <2> QED
      BY <2>2, <2>3
  <1> QED
    BY <1>3, <1>4, <1>5

\* What holds once the layer that is left is taken care of.
Change(a, b) ==
    /\ Sound(b) /\ Moved(QueueOf(a), QueueOf(b))
    /\ b.pending => b.outgoing
    /\ b.outgoing => a.outgoing \/ b.pending
    /\ a.pending => b.pending

LEMMA HoldingChange ==
    ASSUME NEW a, Sound(a), a.pending => a.outgoing, NEW b, Effect(a, b)
    PROVE  Change(a, Holding(a, b)) /\ Holding(a, b).revision = b.revision
           /\ SameSlot(b, Holding(a, b))
  <1>1. Sound(b) /\ Passed(a, b) /\ Moved(QueueOf(a), QueueOf(b))
    BY DEF Effect
  <1>2. CASE ~a.pending /\ b.pending
    <2> DEFINE t == [b EXCEPT !.outgoing = TRUE]
    <2>1. t \in ArbiterState /\ SameSlot(b, t) /\ t.revision = b.revision
      BY <1>1 DEF Sound, ArbiterState, SameSlot
    <2>2. t.outgoing = TRUE /\ t.pending = b.pending
      BY <1>1 DEF Sound, ArbiterState
    <2> HIDE DEF t
    <2>3. Sound(t) /\ QueueOf(t) = QueueOf(b)
      BY <1>1, <2>1, SameSlotSound DEF QueueOf, SameSlot
    <2>4. Change(a, t)
      BY <1>1, <1>2, <2>2, <2>3 DEF Change
    <2> QED
      BY <1>2, <2>1, <2>4 DEF Holding, t
  <1>3. CASE ~(~a.pending /\ b.pending)
    <2>1. Holding(a, b) = b /\ SameSlot(b, b)
      BY <1>3 DEF Holding, SameSlot
    <2>2. Change(a, b)
      BY <1>1, <1>3 DEF Change, Passed
    <2> QED
      BY <2>1, <2>2
  <1> QED
    BY <1>2, <1>3

\* An overlay that ends by itself.
LEMMA ExpireChange ==
    ASSUME NEW a, Sound(a), a.pending => a.outgoing
    PROVE  Change(a, ExpireOverlay(a))
  <1>1. CASE a.kind = "none"
    BY <1>1, SameEffect DEF ExpireOverlay, Change, Effect
  <1>2. CASE a.kind = "notify"
    <2>1. Effect(a, Bump(Advance(a)))
      BY <1>2, AdvanceEffect, BumpEffect
    <2> QED
      BY <1>2, <2>1, HoldingChange DEF ExpireOverlay
  <1>3. CASE a.kind # "none" /\ a.kind # "notify"
    <2> DEFINE u == TakeSlot(a, "none", 0, FALSE)
               t == [u EXCEPT !.pending = @ \/ a.soft]
    <2>1. 0 \in 0..MaxDuration /\ a.soft \in BOOLEAN
      BY ArbiterAssumption DEF ArbiterAssumption, Sound, ArbiterState
    <2>2. Sound(u) /\ Passed(a, u) /\ u.kind = "none"
      BY <2>1, TakeSlotSound
    <2>3. ExpireOverlay(a) = Holding(a, Bump(t))
      BY <1>3 DEF ExpireOverlay
    <2> HIDE DEF u
    <2>4. t = Scene(u, u.base, u.generator, u.style, u.power, a.soft)
      BY <2>2 DEF Scene, Sound, ArbiterState
    <2> HIDE DEF t
    <2>5. Sound(t) /\ Passed(u, t) /\ SameSlot(u, t)
      BY <2>1, <2>2, <2>4, SceneSound DEF Sound, ArbiterState
    <2>6. Passed(a, t) /\ t.kind # "notify"
      BY <2>2, <2>5 DEF Passed, SameSlot
    <2>7. Effect(a, Bump(t))
      BY <2>5, <2>6, ClearEffect, BumpEffect
    <2> QED
      BY <2>3, <2>7, HoldingChange
  <1> QED
    BY <1>1, <1>2, <1>3

\* A tick of the clock adds to the time up what it takes from the time left.
LEMMA LaterSound ==
    ASSUME NEW a, Sound(a)
    PROVE  /\ Sound(Later(a)) /\ QueueOf(Later(a)) = QueueOf(a)
           /\ Later(a).pending = a.pending /\ Later(a).outgoing = a.outgoing
           /\ Later(a).revision = a.revision
  <1> DEFINE t == Later(a)
             l == IF a.left = 0 THEN 0 ELSE a.left - 1
             s == IF a.kind = "notify" /\ a.since < MaxDuration THEN a.since + 1 ELSE a.since
  <1>1. a.left \in 0..MaxDuration /\ a.since \in 0..MaxDuration /\ MaxDuration \in Nat
    BY ArbiterAssumption DEF ArbiterAssumption, Sound, ArbiterState
  <1>2. l \in 0..MaxDuration /\ s \in 0..MaxDuration
    BY <1>1
  <1>3. t = [a EXCEPT !.left = l, !.since = s]
    BY DEF Later
  <1>4. ASSUME a.kind = "notify"
        PROVE  s + l >= a.note.dur
    <2>1. a.note.dur \in 1..MaxDuration /\ a.since + a.left >= a.note.dur
      BY <1>4, SoundFields DEF Sound, Notes
    <2> QED
      BY <1>1, <1>4, <2>1
  <1> HIDE DEF l, s
  <1>5. t \in ArbiterState
    BY <1>2, <1>3 DEF Sound, ArbiterState
  <1>6. /\ t.kind = a.kind /\ t.note = a.note /\ t.waiting = a.waiting
        /\ t.left = l /\ t.since = s /\ t.revision = a.revision
    BY <1>3 DEF Sound, ArbiterState
  <1>7. t.document = a.document /\ t.pending = a.pending /\ t.outgoing = a.outgoing
    BY <1>3 DEF Sound, ArbiterState
  <1> HIDE DEF t
  <1>8. Slot(t)
    BY <1>6, <1>7 DEF Sound, Slot
  <1>9. Sound(t)
    BY <1>4, <1>5, <1>6, <1>8 DEF Sound
  <1>10. QueueOf(t) = QueueOf(a)
    BY <1>6 DEF QueueOf
  <1> QED
    BY <1>6, <1>7, <1>9, <1>10 DEF t

-----------------------------------------------------------------------------
(* The inductive invariant *)

Inv ==
    /\ Sound(arb)
    /\ LayerHeld
    /\ Announced
    /\ sent \in [revision : Nat, command : Commands]
    /\ unrevealed \in BOOLEAN /\ crossing \in BOOLEAN
    /\ frames \in 0..MaxFrames

\* What a step may do: keep the invariant, make a step of the queue, and end a
\* notification only after its turn.
Step ==
    /\ Inv'
    /\ Moved(QueueOf(arb), QueueOf(arb'))
    /\ Expired /\ arb.kind = "notify" => arb.since >= arb.note.dur

LEMMA Initially == Init => Inv
  <1> SUFFICES ASSUME Init PROVE Inv
    OBVIOUS
  <1>1. PICK b \in Bases, g \in Generators, s \in Styles : arb = ArbiterInit(b, g, s, FALSE)
    BY DEF Init
  <1>2. 0 \in 0..MaxDuration /\ 0 \in 0..MaxFrames
    BY ArbiterAssumption, InputAssumption DEF ArbiterAssumption, InputAssumption
  <1>3. arb \in ArbiterState
    BY <1>1, <1>2, NothingWaits, NoNoteIsNote DEF ArbiterInit, ArbiterState, Queues
  <1>4. /\ arb.kind = "none" /\ arb.note = NoNote /\ arb.waiting = <<>>
        /\ arb.revision = 0
    BY <1>1 DEF ArbiterInit
  <1>5. arb.document = FALSE /\ arb.pending = FALSE /\ arb.outgoing = FALSE
    BY <1>1 DEF ArbiterInit
  <1>6. Sound(arb)
    BY <1>3, <1>4, <1>5 DEF Sound, Slot
  <1>7. LayerHeld
    BY <1>5 DEF LayerHeld
  <1>8. sent \in [revision : Nat, command : Commands] /\ sent.revision = 0
    BY DEF Init, Nothing, Commands
  <1> QED
    BY <1>2, <1>4, <1>6, <1>7, <1>8 DEF Init, Inv, Announced

\* The statement published is the one of the revision reached.
LEMMA PublishKeeps ==
    ASSUME NEW s, s \in [revision : Nat, command : Commands],
           NEW a, NEW b, a.revision = s.revision, b.revision \in Nat,
           NEW c \in Commands, NEW t,
           t = IF b.revision = a.revision THEN s ELSE [revision |-> b.revision, command |-> c]
    PROVE  /\ t \in [revision : Nat, command : Commands]
           /\ t.revision = b.revision
           /\ t # s => b.revision # a.revision /\ t.command = c
  OBVIOUS

\* A packet, a press or a turn of the dial.
LEMMA ApplyStep ==
    ASSUME Inv, NEW c \in Commands, c.op # "overlay_expired",
           Effect(arb, Inner(arb, c)), Apply(c)
    PROVE  Step
  <1>1. Sound(arb) /\ (arb.pending => arb.outgoing) /\ (arb.outgoing => arb.pending \/ crossing)
    BY DEF Inv, LayerHeld
  <1>2. Change(arb, arb')
    BY <1>1, HoldingChange DEF Apply, ApplyWith
  <1>3. sent' = IF arb'.revision = arb.revision THEN sent
                ELSE [revision |-> arb'.revision, command |-> c]
    BY DEF Apply, Publish
  <1>4. arb.revision = sent.revision /\ arb'.revision \in Nat
    BY <1>2, SoundFields DEF Inv, Announced, Change
  <1>5. /\ sent' \in [revision : Nat, command : Commands]
        /\ sent'.revision = arb'.revision
        /\ sent' # sent => sent'.command = c
    BY <1>3, <1>4, PublishKeeps DEF Inv
  <1>6. LayerHeld'
    BY <1>1, <1>2 DEF LayerHeld, Change, Apply
  <1>7. Inv'
    BY <1>2, <1>5, <1>6 DEF Inv, Announced, Change, Apply
  <1>8. ~Expired
    BY <1>5 DEF Expired
  <1> QED
    BY <1>2, <1>7, <1>8 DEF Step, Change

\* A set_base packet: what was named beside the base changes the scene alone.
Quiet(a) == Sound(a) /\ a.kind = "none" /\ (a.pending => a.outgoing)

Beside == [op : {"select_generator"}, generator : Generators] \cup [op : {"adjust"}]
            \cup [op : {"set_clock_style"}, style : Styles]

LEMMA OptionalQuiet ==
    ASSUME NEW a, Quiet(a), NEW cs, cs \subseteq Beside
    PROVE  /\ Quiet(Optional(a, cs))
           /\ a.pending => Optional(a, cs).pending
           /\ Optional(a, cs).outgoing => a.outgoing \/ Optional(a, cs).pending
  <1>1. CASE cs = {}
    BY <1>1 DEF Optional
  <1>2. CASE cs # {}
    <2> DEFINE c == CHOOSE x \in cs : TRUE
               b == Inner(a, c)
    <2>1. c \in Beside
      BY <1>2
    <2>2. Sound(a) /\ (a.pending => a.outgoing)
      BY DEF Quiet
    <2> HIDE DEF c
    <2>3. Effect(a, b) /\ SameSlot(a, b)
      <3>1. CASE c \in [op : {"select_generator"}, generator : Generators]
        <4>1. b = SelectGenerator(a, c.generator) /\ c.generator \in Generators
          BY <3>1 DEF Inner
        <4> QED
          BY <4>1, <2>2, SelectGeneratorEffect
      <3>2. CASE c \in [op : {"adjust"}]
        <4>1. b = Adjust(a)
          BY <3>2 DEF Inner
        <4> QED
          BY <4>1, <2>2, AdjustEffect
      <3>3. CASE c \in [op : {"set_clock_style"}, style : Styles]
        <4>1. b = SetStyle(a, c.style) /\ c.style \in Styles
          BY <3>3 DEF Inner
        <4> QED
          BY <4>1, <2>2, SetStyleEffect
      <3> QED
        BY <2>1, <3>1, <3>2, <3>3 DEF Beside
    <2>4. Optional(a, cs) = Holding(a, b)
      BY <1>2 DEF Optional, ApplyWith, c
    <2> HIDE DEF b
    <2>5. Change(a, Holding(a, b)) /\ SameSlot(b, Holding(a, b))
      BY <2>2, <2>3, HoldingChange
    <2> QED
      BY <2>3, <2>4, <2>5 DEF Quiet, Change, SameSlot
  <1> QED
    BY <1>1, <1>2

LEMMA SceneStep ==
    ASSUME Inv, NEW p \in ScenePackets, ScenePacket(p)
    PROVE  Step
  <1> DEFINE based == ApplyWith(arb, [op |-> "set_base", base |-> p.base])
             gens  == [op : {"select_generator"}, generator : p.generator]
             seeds == IF p.seed = {} THEN {} ELSE [op : {"adjust"}]
             stys  == [op : {"set_clock_style"}, style : p.style]
             mid   == Optional(based, gens)
             art   == Optional(mid, seeds)
             drawn == IF p.base # "art" THEN based ELSE art
             after == Optional(drawn, stys)
             last  == IF after # drawn THEN [op |-> "set_clock_style", style |-> after.style]
                      ELSE IF drawn = based THEN [op |-> "set_base", base |-> p.base]
                      ELSE IF p.seed # {} THEN [op |-> "adjust"]
                      ELSE [op |-> "select_generator", generator |-> after.generator]
  <1>1. /\ p.base \in Bases /\ p.generator \subseteq Generators /\ p.style \subseteq Styles
    BY InputAssumption DEF InputAssumption
  <1>2. Sound(arb) /\ (arb.pending => arb.outgoing) /\ (arb.outgoing => arb.pending \/ crossing)
    BY DEF Inv, LayerHeld
  <1>3. arb' = after /\ sent' = Publish(arb, after, last)
        /\ UNCHANGED <<unrevealed, crossing, frames>>
    BY DEF ScenePacket
  <1>4. gens \subseteq Beside /\ seeds \subseteq Beside /\ stys \subseteq Beside
    BY <1>1 DEF Beside
  <1> DEFINE set == SetBase(arb, p.base)
  <1>5. based = Holding(arb, set)
    BY DEF ApplyWith, Inner
  <1>6. Effect(arb, set) /\ set.kind # "notify"
    BY <1>1, <1>2, SetBaseEffect
  <1>6a. set.kind = "none"
    BY <1>1, <1>2, SetBaseKind
  <1> HIDE DEF set, based
  <1>7. /\ Quiet(based) /\ (arb.pending => based.pending)
        /\ (based.outgoing => arb.outgoing \/ based.pending)
    BY <1>2, <1>5, <1>6, <1>6a, HoldingChange DEF Quiet, Change, SameSlot
  <1> HIDE DEF gens, seeds, stys, mid, art
  <1>8. /\ Quiet(mid) /\ (based.pending => mid.pending)
        /\ (mid.outgoing => based.outgoing \/ mid.pending)
    BY <1>4, <1>7, OptionalQuiet DEF mid
  <1>9. /\ Quiet(art) /\ (mid.pending => art.pending)
        /\ (art.outgoing => mid.outgoing \/ art.pending)
    BY <1>4, <1>8, OptionalQuiet DEF art
  <1>10. /\ Quiet(drawn) /\ (arb.pending => drawn.pending)
         /\ (drawn.outgoing => arb.outgoing \/ drawn.pending)
    <2>1. CASE p.base # "art"
      BY <2>1, <1>7
    <2>2. CASE ~(p.base # "art")
      BY <2>2, <1>7, <1>8, <1>9
    <2> QED
      BY <2>1, <2>2
  <1> HIDE DEF drawn, after, last
  <1>11. /\ Quiet(after) /\ (drawn.pending => after.pending)
         /\ (after.outgoing => drawn.outgoing \/ after.pending)
    BY <1>4, <1>10, OptionalQuiet DEF after
  <1>12. last \in Commands /\ last.op # "overlay_expired"
    <2>1. after.style \in Styles /\ after.generator \in Generators
      BY <1>11 DEF Quiet, Sound, ArbiterState
    <2> QED
      BY <1>1, <2>1 DEF last, Commands
  <1>13. arb.revision = sent.revision /\ after.revision \in Nat
    BY <1>11, SoundFields DEF Inv, Announced, Quiet
  <1>14. sent' = IF after.revision = arb.revision THEN sent
                 ELSE [revision |-> after.revision, command |-> last]
    BY <1>3 DEF Publish
  <1>15. /\ sent' \in [revision : Nat, command : Commands]
         /\ sent'.revision = after.revision
         /\ sent' # sent => sent'.command = last
    BY <1>12, <1>13, <1>14, PublishKeeps DEF Inv
  <1>16. LayerHeld'
    BY <1>2, <1>3, <1>10, <1>11 DEF LayerHeld, Quiet
  <1>17. Inv'
    BY <1>3, <1>11, <1>15, <1>16 DEF Inv, Announced, Quiet
  <1>18. Moved(QueueOf(arb), QueueOf(arb'))
    BY <1>3, <1>11 DEF Moved, QueueOf, Quiet
  <1>19. ~Expired
    BY <1>12, <1>15 DEF Expired
  <1> QED
    BY <1>17, <1>18, <1>19 DEF Step

LEMMA StreamStep ==
    ASSUME Inv, NEW d \in 1..MaxDuration, StreamPacket(d)
    PROVE  Step
  <1> DEFINE b == StreamFrame(arb, d)
  <1>1. Sound(arb) /\ (arb.pending => arb.outgoing) /\ (arb.outgoing => arb.pending \/ crossing)
    BY DEF Inv, LayerHeld
  <1>2. arb' = Holding(arb, b)
    BY DEF StreamPacket, ApplyWith, Inner
  <1>3. Effect(arb, b) /\ b.revision = arb.revision
    BY <1>1, StreamFrameEffect
  <1> HIDE DEF b
  <1>4. Change(arb, arb') /\ arb'.revision = arb.revision
    BY <1>1, <1>2, <1>3, HoldingChange
  <1>5. LayerHeld'
    BY <1>1, <1>4 DEF LayerHeld, Change, StreamPacket
  <1>6. frames' \in 0..MaxFrames
    BY InputAssumption DEF InputAssumption, Inv, StreamPacket
  <1>7. Inv'
    BY <1>4, <1>5, <1>6 DEF Inv, Announced, Change, StreamPacket
  <1> QED
    BY <1>4, <1>7 DEF Step, Change, Expired, StreamPacket

LEMMA CorrectStep ==
    ASSUME Inv, Correct
    PROVE  Step
  <1>1. Sound(arb)
    BY DEF Inv
  <1>2. arb' \in ArbiterState /\ SameSlot(arb, arb') /\ arb'.revision = arb.revision
    BY <1>1 DEF Correct, Sound, ArbiterState, SameSlot
  <1>3. arb'.pending = arb.pending /\ arb'.outgoing = arb.outgoing
    BY <1>1 DEF Correct, Sound, ArbiterState
  <1>4. Sound(arb')
    BY <1>1, <1>2, SameSlotSound
  <1>5. Inv'
    BY <1>2, <1>3, <1>4 DEF Inv, LayerHeld, Announced, Correct
  <1>6. Moved(QueueOf(arb), QueueOf(arb'))
    BY <1>2 DEF SameSlot, QueueOf, Moved
  <1> QED
    BY <1>5, <1>6 DEF Step, Expired, Correct

LEMMA PassStep ==
    ASSUME Inv, Pass
    PROVE  Step
  <1>1. Sound(arb) /\ arb' = Later(arb)
    BY DEF Inv, Pass
  <1>2. /\ Sound(arb') /\ QueueOf(arb') = QueueOf(arb) /\ arb'.revision = arb.revision
        /\ arb'.pending = arb.pending /\ arb'.outgoing = arb.outgoing
    BY <1>1, LaterSound
  <1>3. Inv'
    BY <1>2 DEF Inv, LayerHeld, Announced, Pass
  <1> QED
    BY <1>2, <1>3 DEF Step, Moved, Expired, Pass

LEMMA RedrawStep ==
    ASSUME Inv, Redraw
    PROVE  Step
  <1> DEFINE clean == [arb EXCEPT !.dirty = FALSE]
             t     == IF Due(clean) THEN ExpireOverlay(clean) ELSE clean
             dark  == unrevealed /\ ~t.power
             c     == [op |-> "overlay_expired"]
  <1>1. Sound(arb) /\ (arb.pending => arb.outgoing) /\ (arb.outgoing => arb.pending \/ crossing)
    BY DEF Inv, LayerHeld
  <1>2. clean \in ArbiterState /\ SameSlot(arb, clean) /\ clean.revision = arb.revision
    BY <1>1 DEF Sound, ArbiterState, SameSlot
  <1>3. clean.pending = arb.pending /\ clean.outgoing = arb.outgoing
    BY <1>1 DEF Sound, ArbiterState
  <1>4. PICK runs \in BOOLEAN :
          /\ crossing' = runs
          /\ arb' = [t EXCEPT !.pending = FALSE, !.outgoing = HoldsLayer(t, runs, dark)]
    BY DEF Redraw
  <1>5. unrevealed' = dark /\ sent' = Publish(arb, t, c) /\ frames' = frames
    BY DEF Redraw
  <1> HIDE DEF clean
  <1>6. Sound(clean) /\ QueueOf(clean) = QueueOf(arb)
    BY <1>1, <1>2, SameSlotSound DEF QueueOf, SameSlot
  <1>7. Sound(t) /\ Moved(QueueOf(arb), QueueOf(t))
    <2>1. CASE Due(clean)
      BY <2>1, <1>1, <1>3, <1>6, ExpireChange DEF Change
    <2>2. CASE ~Due(clean)
      BY <2>2, <1>6 DEF Moved
    <2> QED
      BY <2>1, <2>2
  <1>8. t.revision # arb.revision => Due(clean)
    BY <1>2
  <1> HIDE DEF t, dark
  <1> DEFINE held == HoldsLayer(t, runs, dark)
  <1>9. held \in BOOLEAN /\ (held => runs)
    BY <1>1, <1>4, <1>7, SoundFields DEF HoldsLayer
  <1>10. arb' = [t EXCEPT !.pending = FALSE, !.outgoing = held]
    BY <1>4
  <1> HIDE DEF held
  <1>11. arb' \in ArbiterState /\ SameSlot(t, arb') /\ arb'.revision = t.revision
    BY <1>7, <1>9, <1>10 DEF Sound, ArbiterState, SameSlot
  <1>12. arb'.pending = FALSE /\ arb'.outgoing = held
    BY <1>7, <1>10 DEF Sound, ArbiterState
  <1>13. Sound(arb') /\ QueueOf(arb') = QueueOf(t)
    BY <1>7, <1>11, SameSlotSound DEF QueueOf, SameSlot
  <1>14. LayerHeld'
    BY <1>4, <1>9, <1>12 DEF LayerHeld
  <1>15. c \in Commands
    BY DEF Commands
  <1>16. arb.revision = sent.revision /\ t.revision \in Nat
    BY <1>7, SoundFields DEF Inv, Announced
  <1> HIDE DEF c
  <1>17. sent' = IF t.revision = arb.revision THEN sent
                 ELSE [revision |-> t.revision, command |-> c]
    BY <1>5 DEF Publish
  <1>18. /\ sent' \in [revision : Nat, command : Commands]
         /\ sent'.revision = t.revision
         /\ sent' # sent => t.revision # arb.revision
    BY <1>15, <1>16, <1>17, PublishKeeps DEF Inv
  <1>19. unrevealed' \in BOOLEAN
    BY <1>5, <1>7, SoundFields DEF dark, Inv
  <1>20. Inv'
    BY <1>4, <1>5, <1>11, <1>13, <1>14, <1>18, <1>19 DEF Inv, Announced
  <1>21. ASSUME Expired, arb.kind = "notify"
         PROVE  arb.since >= arb.note.dur
    <2>1. Due(clean)
      BY <1>8, <1>18, <1>21 DEF Expired
    <2>2. clean.kind = "notify" /\ clean.left = 0
      BY <2>1, <1>2, <1>21 DEF Due, Timed, SameSlot
    <2>3. arb.left = 0
      BY <2>2, <1>2 DEF SameSlot
    <2>4. arb.since + arb.left >= arb.note.dur /\ arb.since \in Nat
      BY <1>1, <1>21, SoundFields DEF Sound
    <2> QED
      BY <2>3, <2>4
  <1> QED
    BY <1>7, <1>13, <1>20, <1>21 DEF Step

LEMMA Steps ==
    ASSUME Inv, Next
    PROVE  Step
  <1>0. Sound(arb)
    BY DEF Inv
  <1>1. ASSUME NEW b \in Bases, Apply([op |-> "set_base", base |-> b])
        PROVE  Step
    <2> DEFINE c == [op |-> "set_base", base |-> b]
    <2>1. c \in Commands /\ c.op # "overlay_expired" /\ Inner(arb, c) = SetBase(arb, b)
      BY DEF Commands, Inner
    <2>2. Effect(arb, Inner(arb, c))
      BY <1>0, <2>1, SetBaseEffect
    <2> HIDE DEF c
    <2> QED
      BY <1>1, <2>1, <2>2, ApplyStep DEF c
  <1>2. ASSUME NEW g \in Generators, Apply([op |-> "select_generator", generator |-> g])
        PROVE  Step
    <2> DEFINE c == [op |-> "select_generator", generator |-> g]
    <2>1. c \in Commands /\ c.op # "overlay_expired" /\ Inner(arb, c) = SelectGenerator(arb, g)
      BY DEF Commands, Inner
    <2>2. Effect(arb, Inner(arb, c))
      BY <1>0, <2>1, SelectGeneratorEffect
    <2> HIDE DEF c
    <2> QED
      BY <1>2, <2>1, <2>2, ApplyStep DEF c
  <1>3. ASSUME NEW n \in Posts, NEW stack \in BOOLEAN,
               Apply([op |-> "notify", note |-> n, stack |-> stack])
        PROVE  Step
    <2> DEFINE c == [op |-> "notify", note |-> n, stack |-> stack]
    <2>1. c \in Commands /\ c.op # "overlay_expired" /\ Inner(arb, c) = Notify(arb, n, stack)
      BY InputAssumption DEF Commands, Inner, InputAssumption
    <2>2. Effect(arb, Inner(arb, c))
      BY <1>0, <2>1, NotifyEffect
    <2> HIDE DEF c
    <2> QED
      BY <1>3, <2>1, <2>2, ApplyStep DEF c
  <1>4. ASSUME NEW n \in Names \cup {NoName}, Apply([op |-> "dismiss_notify", name |-> n])
        PROVE  Step
    <2> DEFINE c == [op |-> "dismiss_notify", name |-> n]
    <2>1. c \in Commands /\ c.op # "overlay_expired" /\ Inner(arb, c) = Dismiss(arb, n)
      BY DEF Commands, Inner
    <2>2. Effect(arb, Inner(arb, c))
      BY <1>0, <2>1, DismissEffect
    <2> HIDE DEF c
    <2> QED
      BY <1>4, <2>1, <2>2, ApplyStep DEF c
  <1>5. ASSUME NEW d \in 1..MaxDuration, NEW soft \in BOOLEAN,
               Apply([op |-> "raw", dur |-> d, soft |-> soft])
        PROVE  Step
    <2> DEFINE c == [op |-> "raw", dur |-> d, soft |-> soft]
    <2>1. c \in Commands /\ c.op # "overlay_expired" /\ Inner(arb, c) = RawFrame(arb, d, soft)
      BY DEF Commands, Inner
    <2>2. Effect(arb, Inner(arb, c))
      BY <1>0, <2>1, RawFrameEffect
    <2> HIDE DEF c
    <2> QED
      BY <1>5, <2>1, <2>2, ApplyStep DEF c
  <1>6. ASSUME NEW on \in BOOLEAN, Apply([op |-> "power", on |-> on])
        PROVE  Step
    <2> DEFINE c == [op |-> "power", on |-> on]
    <2>1. c \in Commands /\ c.op # "overlay_expired" /\ Inner(arb, c) = SetPower(arb, on)
      BY DEF Commands, Inner
    <2>2. Effect(arb, Inner(arb, c))
      BY <1>0, <2>1, SetPowerEffect
    <2> HIDE DEF c
    <2> QED
      BY <1>6, <2>1, <2>2, ApplyStep DEF c
  <1>7. ASSUME NEW s \in Styles, Apply([op |-> "set_clock_style", style |-> s])
        PROVE  Step
    <2> DEFINE c == [op |-> "set_clock_style", style |-> s]
    <2>1. c \in Commands /\ c.op # "overlay_expired" /\ Inner(arb, c) = SetStyle(arb, s)
      BY DEF Commands, Inner
    <2>2. Effect(arb, Inner(arb, c))
      BY <1>0, <2>1, SetStyleEffect
    <2> HIDE DEF c
    <2> QED
      BY <1>7, <2>1, <2>2, ApplyStep DEF c
  <1>8. ASSUME NEW op \in {"adjust", "arm_stream"}, Apply([op |-> op])
        PROVE  Step
    <2> DEFINE c == [op |-> op]
    <2>1. c \in Commands /\ c.op # "overlay_expired" /\ c.op = op
      BY DEF Commands
    <2>2. Inner(arb, c) = Adjust(arb) \/ Inner(arb, c) = ArmStream(arb)
      BY <2>1 DEF Inner
    <2>3. Effect(arb, Inner(arb, c))
      BY <1>0, <2>2, AdjustEffect, ArmStreamEffect
    <2> HIDE DEF c
    <2> QED
      BY <1>8, <2>1, <2>3, ApplyStep DEF c
  <1>9. ASSUME NEW p \in ScenePackets, ScenePacket(p)
        PROVE  Step
    BY <1>9, SceneStep
  <1>10. ASSUME NEW d \in 1..MaxDuration, StreamPacket(d)
         PROVE  Step
    BY <1>10, StreamStep
  <1> QED
    BY <1>1, <1>2, <1>3, <1>4, <1>5, <1>6, <1>7, <1>8, <1>9, <1>10,
       CorrectStep, RedrawStep, PassStep DEF Next

LEMMA Stuttering ==
    ASSUME Inv, UNCHANGED vars
    PROVE  Step
  BY DEF Inv, Sound, LayerHeld, Announced, Step, Moved, Expired, vars

LEMMA Invariance == Spec => []Inv
  <1>1. Inv /\ [Next]_vars => Inv'
    BY Steps, Stuttering DEF Step
  <1> QED
    BY Initially, <1>1, PTL DEF Spec

-----------------------------------------------------------------------------
(* Theorems *)

\* The variables have their types in every reachable state: the arbiter's
\* record (arbiter.zig) and what the loop of tc002d_main.zig keeps beside it.
THEOREM TypeCorrect == Spec => []TypeOK
  <1>1. Inv => TypeOK
    BY DEF Inv, Sound, TypeOK
  <1> QED
    BY Invariance, <1>1, PTL

\* Notifications wait only behind a notification and the document drawn is the
\* one showing, after any sequence of commands, expiries and scene packets.
THEOREM SlotIsConsistent == Spec => []SlotConsistent
  <1>1. Inv => SlotConsistent
    BY DEF Inv, Sound, Slot, SlotConsistent
  <1> QED
    BY Invariance, <1>1, PTL

\* A transition that waits has the layer it leaves, and the layer is let go
\* when no transition waits or runs.
THEOREM LayerIsHeld == Spec => []LayerHeld
  <1>1. Inv => LayerHeld
    BY DEF Inv
  <1> QED
    BY Invariance, <1>1, PTL

\* Every revision reached is the revision of a statement that was published.
THEOREM RevisionAnnounced == Spec => []Announced
  <1>1. Inv => Announced
    BY DEF Inv
  <1> QED
    BY Invariance, <1>1, PTL

\* A notification that ends by itself has been up for its whole duration.
THEOREM NotificationsHaveTheirTurn == Spec => FullTurn
  <1>1. Inv /\ [Next]_vars => [Expired /\ arb.kind = "notify" => arb.since >= arb.note.dur]_vars
    BY Steps DEF Step
  <1> QED
    BY Invariance, <1>1, PTL DEF Spec, FullTurn

\* The active notification and the slots behind it implement the bounded queue
\* of NotificationQueue.
THEOREM ImplementsQueue == Spec => QueueSpec
  <1>1. Init => Queue!Init
    BY DEF Init, ArbiterInit, Queue!Init
  <1>2. Moved(QueueOf(arb), QueueOf(arb')) =>
          [Queue!Next]_(IF arb.kind = "notify" THEN <<arb.note>> \o arb.waiting ELSE <<>>)
    <2> DEFINE q == IF arb.kind = "notify" THEN <<arb.note>> \o arb.waiting ELSE <<>>
    <2>1. QueueOf(arb) = q /\ QueueOf(arb') = q'
      BY DEF QueueOf
    <2>2. \A n \in Posts :
            Queue!Post(n) <=> q' = IF q = <<>> THEN <<n>> ELSE <<n>> \o Tail(q)
      BY DEF Queue!Post
    <2>3. \A n \in Posts :
            Queue!Stack(n) <=> Len(q) < Waiting + 1 /\ q' = Append(q, n)
      BY DEF Queue!Stack
    <2>4. \A i : Queue!Leave(i) <=> q' = RemoveAt(q, i)
      BY DEF Queue!Leave, Queue!RemoveAt, RemoveAt
    <2>5. Queue!Clear <=> q' = <<>>
      BY DEF Queue!Clear
    <2>6. Queue!Next <=> \/ \E n \in Posts : Queue!Post(n) \/ Queue!Stack(n)
                         \/ \E i \in DOMAIN q : Queue!Leave(i)
                         \/ Queue!Clear
      BY DEF Queue!Next
    <2> HIDE DEF q
    <2>7. Moved(q, q') => [Queue!Next]_q
      BY <2>2, <2>3, <2>4, <2>5, <2>6 DEF Moved
    <2> QED
      BY <2>1, <2>7 DEF q
  <1>3. Inv /\ [Next]_vars =>
          [Queue!Next]_(IF arb.kind = "notify" THEN <<arb.note>> \o arb.waiting ELSE <<>>)
    BY <1>2, Steps, Stuttering DEF Step
  <1> QED
    BY Invariance, <1>1, <1>3, PTL DEF Spec, QueueSpec, Queue!Spec
=============================================================================
