------------------------- MODULE CommandRelayProofs -------------------------
(***************************************************************************)
(* CommandRelay for any number of clients, relays, remembered ids, retries *)
(* and restarts, and sockets of any size.                                  *)
(***************************************************************************)
EXTENDS CommandRelay, FiniteSetTheorems, SequenceTheorems, TLAPS

-----------------------------------------------------------------------------
(* Sockets *)

\* What a send adds to a socket is the packet.
LEMMA AppendRange ==
    ASSUME NEW S, NEW s \in Seq(S), NEW e \in S
    PROVE  Append(s, e) \in Seq(S) /\ Range(Append(s, e)) \subseteq Range(s) \cup {e}
  <1>1. /\ Append(s, e) \in Seq(S) /\ Len(Append(s, e)) = Len(s) + 1
        /\ \A i \in 1..Len(s) : Append(s, e)[i] = s[i]
        /\ Append(s, e)[Len(s) + 1] = e
    BY AppendProperties
  <1>2. /\ Len(s) \in Nat /\ DOMAIN s = 1..Len(s)
        /\ DOMAIN Append(s, e) = 1..Len(Append(s, e))
    BY <1>1, LenProperties
  <1>3. ASSUME NEW i \in DOMAIN Append(s, e)
        PROVE  Append(s, e)[i] \in Range(s) \cup {e}
    <2>1. i \in 1..Len(s) \/ i = Len(s) + 1
      BY <1>1, <1>2, <1>3
    <2> QED
      BY <2>1, <1>1, <1>2 DEF Range
  <1> QED
    BY <1>1, <1>3 DEF Range

LEMMA CommandSent ==
    ASSUME NEW s \in Seq(Command), NEW p \in Command
    PROVE  Append(s, p) \in Seq(Command) /\ Range(Append(s, p)) \subseteq Range(s) \cup {p}
  BY AppendRange

\* A read takes the first packet and leaves others that were there.
LEMMA TailRange ==
    ASSUME NEW S, NEW s \in Seq(S), s # <<>>
    PROVE  /\ Tail(s) \in Seq(S) /\ Range(Tail(s)) \subseteq Range(s)
           /\ Head(s) \in S /\ Head(s) \in Range(s)
  <1>1. /\ Head(s) \in S /\ Tail(s) \in Seq(S) /\ Len(Tail(s)) = Len(s) - 1
        /\ \A i \in 1..Len(Tail(s)) : Tail(s)[i] = s[i + 1]
    BY HeadTailProperties
  <1>2. /\ Len(s) \in Nat \ {0} /\ DOMAIN s = 1..Len(s)
        /\ DOMAIN Tail(s) = 1..Len(Tail(s))
    BY <1>1, LenProperties, EmptySeq
  <1>3. Head(s) = s[1] /\ 1 \in DOMAIN s
    BY <1>2
  <1>4. ASSUME NEW i \in DOMAIN Tail(s)
        PROVE  Tail(s)[i] \in Range(s)
    <2>1. i + 1 \in DOMAIN s
      BY <1>1, <1>2, <1>4
    <2> QED
      BY <2>1, <1>1, <1>2, <1>4 DEF Range
  <1> QED
    BY <1>1, <1>3, <1>4 DEF Range

\* Sends that do not wait add some of their packets and nothing else.
LEMMA SentRange ==
    ASSUME NEW S, NEW s \in Seq(S), NEW t \in Seq(S)
    PROVE  Sent(s, t) \in Seq(S) /\ Range(Sent(s, t)) \subseteq Range(s) \cup Range(t)
  <1> DEFINE all == s \o t
  <1>1. all \in Seq(S) /\ Range(all) = Range(s) \cup Range(t)
    BY ConcatProperties, RangeConcatenation
  <1>2. Len(all) \in Nat /\ DOMAIN all = 1..Len(all)
    BY <1>1, LenProperties
  <1> HIDE DEF all
  <1>3. CASE Len(all) <= SocketRoom
    BY <1>1, <1>3 DEF Sent, all
  <1>4. CASE ~(Len(all) <= SocketRoom)
    <2> DEFINE cut == SubSeq(all, 1, SocketRoom)
    <2>1. SocketRoom \in Nat
      BY BoundsAssumption DEF BoundsAssumption
    <2>2. \A i \in 1..SocketRoom : i \in DOMAIN all /\ all[i] \in S
      BY <2>1, <1>1, <1>2, <1>4, ElementOfSeq
    <2>3. /\ cut \in Seq(S) /\ Len(cut) = SocketRoom
          /\ \A i \in 1..SocketRoom : cut[i] = all[i]
      BY <2>1, <2>2, SubSeqProperties
    <2>4. DOMAIN cut = 1..SocketRoom
      BY <2>3, LenProperties
    <2> HIDE DEF cut
    <2>5. Range(cut) \subseteq Range(all)
      BY <2>2, <2>3, <2>4 DEF Range
    <2> QED
      BY <1>1, <1>4, <2>3, <2>5 DEF Sent, all, cut
  <1> QED
    BY <1>3, <1>4

-----------------------------------------------------------------------------
(* The inductive invariant *)

\* What the steps below need of the types; the whole of TypeOK is proved at the end.
Types ==
    /\ tries \in [Commands -> Nat] /\ named \in [Commands -> Nat]
    /\ minted \in Nat /\ epoch \in Nat /\ shownEpoch \in Nat
    /\ ownSeq \in Nat /\ ntfySeq \in Nat
    /\ DOMAIN relays = 1..RelayMax
    /\ toSup \in Seq(Command) /\ toRen \in Seq(Command)
    /\ IsFiniteSet(window)

\* packets that are on their way to a decision
Carried == Range(toSup) \cup Range(toRen)

\* A packet of a client that has an id carries that id.
CarriesOwnId == \A p \in Carried : p.cmd \in DOMAIN OwnId => p.id = OwnId[p.cmd]

\* A guarded packet names what its client named; past the supervisor, an epoch.
CarriesNamed ==
    /\ \A p \in Range(toSup) : p.cmd \in Guarded => p.epoch = named[p.cmd]
    /\ \A p \in Range(toRen) : p.cmd \in Guarded => named[p.cmd] \in {0, p.epoch}

\* Nothing is under way or decided for a command nobody has sent.
UntriedUnknown ==
    \A c \in Commands : tries[c] = 0 =>
        (\A p \in Carried : p.cmd # c) /\ (\A o \in done : o.cmd # c)

NothingFromTheFuture == \A o \in done : o.epoch \in Nat /\ o.epoch <= epoch

\* No delivery of the command is left.
Spent(c) == tries[c] = MaxTries /\ \A p \in Carried : p.cmd # c

Remembered(c) == \E e \in window : e.id = OwnId[c]

\* What the running renderer decided it remembers, or it will not be asked again.
DecidedRemembered ==
    Alive => \A o \in done : o.cmd \in DOMAIN OwnId /\ o.epoch = epoch =>
                Remembered(o.cmd) \/ Spent(o.cmd)

IInv ==
    /\ Types
    /\ CarriesOwnId /\ CarriesNamed /\ UntriedUnknown /\ NothingFromTheFuture
    /\ DecidedRemembered
    /\ AtMostOnce /\ Fenced /\ RelaysLive

LEMMA ConstantTypes ==
    /\ DOMAIN OwnId \subseteq Commands /\ OwnId \in [DOMAIN OwnId -> Id]
    /\ Guarded \subseteq Commands
    /\ "ntfy" \notin Commands /\ "push" \notin Commands
    /\ {SocketRoom, RelayMax, WindowMax} \subseteq Nat \ {0}
    /\ {Pushes, MaxTries, MaxEpoch, MaxNetd, MaxNtfy} \subseteq Nat
  BY CommandsAssumption, BoundsAssumption DEF CommandsAssumption, BoundsAssumption

LEMMA InitEstablishes == Init => IInv
  <1> SUFFICES ASSUME Init PROVE IInv
    OBVIOUS
  <1>1. Range(toSup) = {} /\ Range(toRen) = {}
    BY DEF Init, Range
  <1>2. Types
    BY FS_EmptySet, EmptySeq DEF Init, Types
  <1>3. CarriesOwnId /\ CarriesNamed /\ UntriedUnknown
    BY <1>1 DEF Init, CarriesOwnId, CarriesNamed, UntriedUnknown, Carried
  <1>4. NothingFromTheFuture /\ DecidedRemembered /\ AtMostOnce /\ Fenced
    BY DEF Init, NothingFromTheFuture, DecidedRemembered, AtMostOnce, Once, Fenced
  <1>5. RelaysLive
    BY DEF Init, RelaysLive
  <1> QED
    BY <1>2, <1>3, <1>4, <1>5 DEF IInv

\* A step that decides nothing and puts nothing of a client's in a socket,
\* except what was in one, leaves what is said of packets and decisions true.
LEMMA QuietStep ==
    ASSUME IInv, Types', UNCHANGED <<tries, named, epoch, window, done>>, Alive' => Alive,
           \A p \in Range(toSup') : p \in Range(toSup),
           \A p \in Range(toRen') :
              \/ p.cmd \notin Commands
              \/ p \in Range(toRen)
              \/ \E q \in Range(toSup) :
                   /\ q.cmd = p.cmd /\ q.id = p.id
                   /\ q.epoch \in {0, p.epoch}
    PROVE  /\ CarriesOwnId' /\ CarriesNamed' /\ UntriedUnknown' /\ NothingFromTheFuture'
           /\ DecidedRemembered' /\ AtMostOnce' /\ Fenced'
  <1> USE ConstantTypes DEF IInv
  <1>1. \A p \in Carried' : p.cmd \in Commands =>
            \E q \in Carried : q.cmd = p.cmd /\ q.id = p.id
    BY DEF Carried
  <1>2. CarriesOwnId'
    BY <1>1 DEF CarriesOwnId
  <1>3. CarriesNamed'
    BY DEF CarriesNamed
  <1>4. UntriedUnknown'
    BY <1>1 DEF UntriedUnknown
  <1>5. \A c \in Commands : Spent(c) => Spent(c)'
    BY <1>1 DEF Spent
  <1>6. DecidedRemembered'
    BY <1>5 DEF DecidedRemembered, Remembered
  <1>7. NothingFromTheFuture' /\ AtMostOnce' /\ Fenced'
    BY DEF NothingFromTheFuture, AtMostOnce, Once, Fenced
  <1> QED
    BY <1>2, <1>3, <1>4, <1>6, <1>7

-----------------------------------------------------------------------------
(* One lemma for each action that touches what the invariant speaks of *)

LEMMA SubmitPreserves ==
    ASSUME IInv, NEW c \in Commands, Submit(c)
    PROVE  IInv'
  <1> USE ConstantTypes DEF IInv
  <1> DEFINE id == IF c \in Minted THEN <<"high", minted'>> ELSE OwnId[c]
             p == [cmd |-> c, id |-> id, epoch |-> named'[c]]
  <1>1. /\ tries' = [tries EXCEPT ![c] = @ + 1] /\ tries[c] \in Nat
        /\ \A b \in Commands : b # c => named'[b] = named[b]
        /\ named'[c] = named[c] \/ (tries[c] = 0 /\ c \in Guarded)
        /\ c \in DOMAIN OwnId => tries[c] < MaxTries
    BY DEF Submit, Types, Minted
  <1>2. /\ UNCHANGED <<epoch, shownEpoch, ownSeq, ntfySeq, relays, toRen, window, done, process,
                       life, netd>>
        /\ named' \in [Commands -> Nat] /\ tries' \in [Commands -> Nat] /\ minted' \in Nat \ {0}
    <2>1. UNCHANGED <<epoch, shownEpoch, ownSeq, ntfySeq, relays, toRen, window, done, process,
                      life, netd>>
      BY DEF Submit, supervisor, renderer
    <2>2. minted' = minted + 1 /\ minted \in Nat /\ tries \in [Commands -> Nat]
      BY DEF Submit, Types
    <2>3. PICK seen \in 0..shownEpoch :
            named' = IF c \in Guarded /\ tries[c] = 0 THEN [named EXCEPT ![c] = seen] ELSE named
      BY DEF Submit
    <2>4. named' \in [Commands -> Nat]
      BY <2>3 DEF Types
    <2> QED
      BY <1>1, <2>1, <2>2, <2>4
  <1>3. id \in Id /\ (c \in DOMAIN OwnId => id = OwnId[c])
    <2>1. CASE c \in Minted
      BY <1>2, <2>1 DEF Minted, Id
    <2>2. CASE c \notin Minted
      BY <2>2 DEF Minted
    <2> QED
      BY <2>1, <2>2
  <1> HIDE DEF id
  <1>4. p \in Command
    BY <1>2, <1>3 DEF Command, Senders
  <1>5. /\ toSup' = toSup \/ toSup' = Append(toSup, p)
        /\ p.cmd = c /\ p.id = id /\ p.epoch = named'[c]
    BY DEF Submit, id
  <1> HIDE DEF p
  <1>6. toSup' \in Seq(Command) /\ Range(toSup') \subseteq Range(toSup) \cup {p}
    <2>1. toSup \in Seq(Command)
      BY DEF Types
    <2> QED
      <3>1. Append(toSup, p) \in Seq(Command) /\ Range(Append(toSup, p)) \subseteq Range(toSup) \cup {p}
        BY <2>1, <1>4, <1>5, CommandSent, Zenon
      <3> QED
        BY <2>1, <1>4, <1>5, <3>1, Zenon
  <1>7. Types'
    BY <1>2, <1>6 DEF Types
  <1>8. CarriesOwnId'
    BY <1>2, <1>3, <1>5, <1>6 DEF CarriesOwnId, Carried
  <1>9. CarriesNamed'
    <2>1. ASSUME NEW q \in Range(toSup'), q.cmd \in Guarded
          PROVE  q.epoch = named'[q.cmd]
      BY <1>1, <1>2, <1>5, <1>6, <2>1 DEF CarriesNamed, UntriedUnknown, Carried
    <2>2. ASSUME NEW q \in Range(toRen'), q.cmd \in Guarded
          PROVE  named'[q.cmd] \in {0, q.epoch}
      BY <1>1, <1>2, <2>2 DEF CarriesNamed, UntriedUnknown, Carried
    <2> QED
      BY <2>1, <2>2 DEF CarriesNamed
  <1>10. UntriedUnknown'
    <2>1. ASSUME NEW b \in Commands, tries'[b] = 0
          PROVE  b # c /\ tries[b] = 0
      BY <1>1, <2>1 DEF Types
    <2> QED
      BY <1>2, <1>5, <1>6, <2>1 DEF UntriedUnknown, Carried
  <1>11. \A b \in DOMAIN OwnId : Spent(b) => Spent(b)'
    <2>1. ASSUME NEW b \in DOMAIN OwnId, Spent(b)
          PROVE  b # c /\ tries'[b] = tries[b]
      BY <1>1, <2>1 DEF Spent, Types
    <2> QED
      BY <1>2, <1>5, <1>6, <2>1 DEF Spent, Carried
  <1>12. DecidedRemembered'
    BY <1>2, <1>11 DEF DecidedRemembered, Remembered, Alive
  <1>13. Fenced'
    BY <1>1, <1>2 DEF Fenced, UntriedUnknown
  <1>14. NothingFromTheFuture' /\ AtMostOnce' /\ RelaysLive'
    BY <1>2 DEF NothingFromTheFuture, AtMostOnce, Once, RelaysLive
  <1> QED
    BY <1>7, <1>8, <1>9, <1>10, <1>12, <1>13, <1>14

LEMMA RelayPreserves ==
    ASSUME IInv, Relay
    PROVE  IInv'
  <1> USE ConstantTypes DEF IInv
  <1> DEFINE p == Head(toSup)
             passed == [p EXCEPT !.epoch = EpochFor(@)]
  <1>1. /\ toSup' = Tail(toSup) /\ netd # "none"
        /\ UNCHANGED <<tries, named, minted, epoch, shownEpoch, ownSeq, ntfySeq, window, done,
                       process, life, netd>>
        /\ \/ UNCHANGED <<relays, toRen>>
           \/ /\ life = "running"
              /\ toRen' = Append(toRen, passed)
              /\ relays' = [relays EXCEPT ![FirstFree] = [id |-> p.id, ntfy |-> FALSE]]
    BY DEF Relay, clients, network, renderer
  <1>2. toSup' \in Seq(Command) /\ Range(toSup') \subseteq Range(toSup)
        /\ p \in Command /\ p \in Range(toSup)
    BY <1>1, TailRange DEF Types, Relay
  <1>3. /\ passed.cmd = p.cmd /\ passed.id = p.id /\ p.epoch \in {0, passed.epoch}
        /\ passed \in Command
    BY <1>2 DEF Command, EpochFor, Types
  <1> HIDE DEF passed
  <1>4. toRen' \in Seq(Command) /\ Range(toRen') \subseteq Range(toRen) \cup {passed}
    <2>1. toRen \in Seq(Command)
      BY DEF Types
    <2> QED
      <3>1. Append(toRen, passed) \in Seq(Command) /\ Range(Append(toRen, passed)) \subseteq Range(toRen) \cup {passed}
        BY <2>1, <1>1, <1>3, CommandSent, Zenon
      <3> QED
        BY <2>1, <1>1, <1>3, <3>1, Zenon
  <1>5. Types'
    BY <1>1, <1>2, <1>4 DEF Types
  <1>6. RelaysLive'
    BY <1>1 DEF RelaysLive, Types
  <1> QED
    BY <1>1, <1>2, <1>3, <1>4, <1>5, <1>6, QuietStep DEF Alive

LEMMA RelayNtfyPreserves ==
    ASSUME IInv, RelayNtfy
    PROVE  IInv'
  <1> USE ConstantTypes DEF IInv
  <1> DEFINE p == [cmd |-> "ntfy", id |-> NtfyId, epoch |-> epoch]
  <1>1. /\ life = "running" /\ ntfySeq' = ntfySeq + 1
        /\ UNCHANGED <<tries, named, minted, epoch, shownEpoch, ownSeq, window, done, process,
                       life, netd, toSup>>
        /\ \/ UNCHANGED <<relays, toRen>>
           \/ /\ toRen' = Append(toRen, p)
              /\ relays' = [relays EXCEPT ![FirstFree] = [id |-> NtfyId, ntfy |-> TRUE]]
    BY DEF RelayNtfy, clients, network, renderer
  <1>2. p \in Command
    BY DEF Command, Senders, NtfyId, Id, Types
  <1>3. toRen' \in Seq(Command) /\ Range(toRen') \subseteq Range(toRen) \cup {p}
    <2>1. toRen \in Seq(Command)
      BY DEF Types
    <2> HIDE DEF p
    <2> QED
      <3>1. Append(toRen, p) \in Seq(Command) /\ Range(Append(toRen, p)) \subseteq Range(toRen) \cup {p}
        BY <2>1, <1>1, <1>2, CommandSent, Zenon
      <3> QED
        BY <2>1, <1>1, <1>2, <3>1, Zenon
  <1>4. Types'
    BY <1>1, <1>3 DEF Types
  <1>5. RelaysLive'
    BY <1>1 DEF RelaysLive, Types
  <1> QED
    BY <1>1, <1>3, <1>4, <1>5, QuietStep DEF Alive

LEMMA PushType ==
    ASSUME Types
    PROVE  PushCommands \in Seq(Command) /\ \A p \in Range(PushCommands) : p.cmd = "push"
  <1> USE ConstantTypes
  <1>1. \A i \in 1..Pushes :
            [cmd |-> "push", id |-> <<"low", ownSeq + i>>, epoch |-> epoch] \in Command
    BY DEF Command, Senders, Id, Types
  <1>2. PushCommands \in [1..Pushes -> Command]
    BY <1>1 DEF PushCommands
  <1> QED
    BY <1>2, SeqDef DEF PushCommands, Range

LEMMA ReadRendererPreserves ==
    ASSUME IInv, ReadRenderer
    PROVE  IInv'
  <1> USE ConstantTypes DEF IInv
  <1>1. /\ UNCHANGED <<tries, named, minted, epoch, ntfySeq, window, done, process, netd, toSup>>
        /\ life' = life \/ (life = "starting" /\ life' = "running")
        /\ DOMAIN relays' = 1..RelayMax
        /\ \A s \in 1..RelayMax : relays'[s] \in {relays[s], NoRelay}
        /\ toRen' = toRen \/ toRen' = Sent(toRen, PushCommands)
        /\ ownSeq' \in {ownSeq, ownSeq + Pushes} /\ shownEpoch' \in {shownEpoch, epoch}
    <2> DEFINE p == Head(fromRen)
    <2>1. UNCHANGED <<tries, named, minted, epoch, ntfySeq, window, done, process, netd, toSup>>
      BY DEF ReadRenderer, clients, network, renderer
    <2>2. CASE p.status = "ready"
      BY <2>1, <2>2 DEF ReadRenderer, NoRelays
    <2>3. CASE p.status # "ready"
      <3>1. UNCHANGED <<life, ownSeq, toRen, shownEpoch>>
        BY <2>3 DEF ReadRenderer
      <3>2. CASE Ids(p.id) = {}
        BY <2>1, <2>3, <3>1, <3>2 DEF ReadRenderer, Types
      <3>3. CASE Ids(p.id) # {}
        <4> DEFINE s == CHOOSE s \in Ids(p.id) : \A t \in Ids(p.id) : s <= t
        <4>1. relays' = [relays EXCEPT ![s] = NoRelay]
          BY <2>3, <3>3 DEF ReadRenderer
        <4> HIDE DEF s
        <4> QED
          BY <2>1, <3>1, <4>1 DEF Types
      <3> QED
        BY <3>2, <3>3
    <2> QED
      BY <2>2, <2>3
  <1>2. /\ PushCommands \in Seq(Command) /\ toRen \in Seq(Command)
        /\ \A p \in Range(PushCommands) : p.cmd = "push"
    BY PushType DEF Types
  <1>3. /\ toRen' \in Seq(Command)
        /\ \A p \in Range(toRen') : p.cmd \notin Commands \/ p \in Range(toRen)
    BY <1>1, <1>2, SentRange
  <1>4. Types'
    BY <1>1, <1>3 DEF Types
  <1>5. RelaysLive'
    BY <1>1 DEF RelaysLive
  <1> QED
    BY <1>1, <1>3, <1>4, <1>5, QuietStep DEF Alive

\* netd's own steps: reads, time-outs, deaths and starts.
LEMMA NetworkStepPreserves ==
    ASSUME IInv, NetdReads \/ (\E c \in Commands : GivesUp(c)) \/ NetdDies \/ SpawnNetd
    PROVE  IInv'
  <1> USE DEF IInv
  <1>1. /\ UNCHANGED <<tries, named, epoch, shownEpoch, ownSeq, ntfySeq, relays, toSup, toRen,
                       window, done, process, life>>
        /\ minted' \in {minted, 0} /\ (netd' = netd \/ netd' # "none")
    <2> USE DEF clients, network, supervisor, renderer, sockets
    <2>1. CASE NetdReads
      BY <2>1 DEF NetdReads
    <2>2. CASE \E c \in Commands : GivesUp(c)
      BY <2>2 DEF GivesUp
    <2>3. CASE NetdDies
      BY <2>3 DEF NetdDies
    <2>4. CASE SpawnNetd
      BY <2>4 DEF SpawnNetd
    <2> QED
      BY <2>1, <2>2, <2>3, <2>4
  <1>2. Types'
    BY <1>1 DEF Types
  <1>3. RelaysLive'
    BY <1>1 DEF RelaysLive
  <1> QED
    BY <1>1, <1>2, <1>3, QuietStep DEF Alive

\* The supervisor lets go of relays and of packets nobody will read.
LEMMA SupervisorStepPreserves ==
    ASSUME IInv,
           (\E s \in 1..RelayMax : ExpireRelay(s)) \/ ReapNetd \/ Reap \/ RequestStop
    PROVE  IInv'
  <1> USE ConstantTypes DEF IInv
  <1>1. /\ UNCHANGED <<tries, named, minted, epoch, shownEpoch, ownSeq, ntfySeq, window, done,
                       process>>
        /\ toSup' \in {toSup, <<>>} /\ toRen' \in {toRen, <<>>}
        /\ DOMAIN relays' = 1..RelayMax
        /\ \A s \in 1..RelayMax : relays'[s] \in {relays[s], NoRelay}
        /\ \/ relays' = NoRelays
           \/ netd' = netd /\ (life' = life \/ life' = "stopping")
              /\ (life' # life => life \in {"starting", "running"})
    BY DEF ExpireRelay, ReapNetd, Reap, RequestStop, AnsweredByReap, NoRelays, clients, network,
           supervisor, renderer, sockets, Types
  <1>2. \A S : <<>> \in Seq(S) /\ Range(<<>>) = {}
    BY EmptySeq DEF Range
  <1>3. Types'
    BY <1>1, <1>2 DEF Types
  <1>4. RelaysLive'
    BY <1>1 DEF RelaysLive, NoRelays
  <1> QED
    BY <1>1, <1>2, <1>3, <1>4, QuietStep DEF Alive

\* A renderer says it is ready, or dies.
LEMMA RendererStepPreserves ==
    ASSUME IInv, SendReady \/ RendererDies
    PROVE  IInv'
  <1> USE DEF IInv
  <1>1. /\ UNCHANGED <<tries, named, minted, epoch, shownEpoch, ownSeq, ntfySeq, relays, toSup,
                       toRen, window, done, life, netd>>
        /\ Alive' => Alive
    BY DEF SendReady, RendererDies, Alive, clients, network, supervisor, sockets
  <1>2. Types'
    BY <1>1 DEF Types
  <1>3. RelaysLive'
    BY <1>1 DEF RelaysLive
  <1> QED
    BY <1>1, <1>2, <1>3, QuietStep

\* The next renderer knows nothing, and nothing has been decided in its epoch.
LEMMA SpawnPreserves ==
    ASSUME IInv, Spawn
    PROVE  IInv'
  <1> USE DEF IInv
  <1>1. /\ UNCHANGED <<tries, named, minted, shownEpoch, ownSeq, ntfySeq, relays, toSup, toRen,
                       done, netd>>
        /\ life = "none" /\ epoch' = epoch + 1 /\ window' = {}
    BY DEF Spawn, clients, network, sockets
  <1>2. Types'
    BY <1>1, FS_EmptySet DEF Types
  <1>3. CarriesOwnId' /\ CarriesNamed' /\ UntriedUnknown' /\ AtMostOnce' /\ Fenced'
    BY <1>1 DEF CarriesOwnId, CarriesNamed, UntriedUnknown, Carried, AtMostOnce, Once, Fenced
  <1>4. \A o \in done : o.epoch \in Nat /\ o.epoch < epoch'
    BY <1>1 DEF NothingFromTheFuture, Types
  <1>5. NothingFromTheFuture' /\ DecidedRemembered'
    BY <1>1, <1>4 DEF NothingFromTheFuture, DecidedRemembered, Types
  <1>6. RelaysLive'
    BY <1>1 DEF RelaysLive
  <1> QED
    BY <1>2, <1>3, <1>5, <1>6

\* What is forgotten is forgotten because nobody will ask for it again.
LEMMA ForgetPreserves ==
    ASSUME IInv, Forget
    PROVE  IInv'
  <1> USE ConstantTypes DEF IInv
  <1>1. /\ UNCHANGED <<tries, named, minted, epoch, shownEpoch, ownSeq, ntfySeq, relays, toSup,
                       toRen, done, process, life, netd>>
        /\ Alive
    BY DEF Forget, clients, network, supervisor, sockets
  <1>2. PICK e \in window :
            /\ \A c \in DOMAIN OwnId : OwnId[c] = e.id => tries[c] = MaxTries
            /\ \A p \in Carried : p.id # e.id
            /\ window' = window \ {e}
    BY DEF Forget, Carried
  <1>3. Types'
    BY <1>1, <1>2, FS_RemoveElement DEF Types
  <1>4. /\ CarriesOwnId' /\ CarriesNamed' /\ UntriedUnknown' /\ NothingFromTheFuture'
        /\ AtMostOnce' /\ Fenced' /\ RelaysLive'
    BY <1>1 DEF CarriesOwnId, CarriesNamed, UntriedUnknown, NothingFromTheFuture, Carried,
                AtMostOnce, Once, Fenced, RelaysLive
  <1>5. ASSUME NEW c \in DOMAIN OwnId, Remembered(c) \/ Spent(c)
        PROVE  Remembered(c)' \/ Spent(c)'
    <2>1. CASE OwnId[c] = e.id
      <3>1. tries[c] = MaxTries /\ \A p \in Carried : p.cmd # c
        BY <1>2, <2>1 DEF CarriesOwnId
      <3> QED
        BY <3>1, <1>1 DEF Spent, Carried
    <2>2. CASE OwnId[c] # e.id
      BY <1>1, <1>2, <1>5, <2>2 DEF Remembered, Spent, Carried
    <2> QED
      BY <2>1, <2>2
  <1>6. DecidedRemembered'
    BY <1>1, <1>5 DEF DecidedRemembered
  <1> QED
    BY <1>3, <1>4, <1>6

\* A command is decided when nothing is known of its id: a client's, with an id
\* of its own, was then not decided by this renderer before.
LEMMA HandlePreserves ==
    ASSUME IInv, Handle
    PROVE  IInv'
  <1> USE ConstantTypes DEF IInv
  <1> DEFINE p == Head(toRen)
  <1>1. /\ UNCHANGED <<tries, named, minted, epoch, shownEpoch, ownSeq, ntfySeq, relays, toSup,
                       process, life, netd>>
        /\ Alive /\ toRen # <<>> /\ toRen' = Tail(toRen)
    BY DEF Handle, clients, network, supervisor
  <1>2. /\ toRen' \in Seq(Command) /\ Range(toRen') \subseteq Range(toRen)
        /\ p \in Command /\ p \in Range(toRen)
    BY <1>1, TailRange DEF Types
  <1>3. CASE UNCHANGED <<window, done>>
    <2>1. Types' /\ RelaysLive'
      BY <1>1, <1>2, <1>3 DEF Types, RelaysLive
    <2> QED
      BY <1>1, <1>2, <1>3, <2>1, QuietStep DEF Alive
  <1>4. CASE ~UNCHANGED <<window, done>>
    <2>1. /\ p.epoch = epoch /\ CanRemember /\ \A e \in window : e.id # p.id
          /\ \E status \in Decided :
               /\ window' = IF Cardinality(window) = WindowMax THEN window
                            ELSE window \cup {[id |-> p.id, status |-> status,
                                               revision |-> revision']}
               /\ done' = done \cup {[cmd |-> p.cmd, epoch |-> epoch, status |-> status,
                                      revision |-> revision']}
      BY <1>4 DEF Handle
    <2>2. PICK status \in Decided :
               /\ window' = IF Cardinality(window) = WindowMax THEN window
                            ELSE window \cup {[id |-> p.id, status |-> status,
                                               revision |-> revision']}
               /\ done' = done \cup {[cmd |-> p.cmd, epoch |-> epoch, status |-> status,
                                      revision |-> revision']}
      BY <2>1
    <2> DEFINE e == [id |-> p.id, status |-> status, revision |-> revision']
               o == [cmd |-> p.cmd, epoch |-> epoch, status |-> status, revision |-> revision']
    <2>3. window' = window \cup {e} /\ IsFiniteSet(window')
      <3>1. IsFiniteSet(window) /\ Cardinality(window) \in Nat
        BY FS_CardinalityType DEF Types
      <3>2. Cardinality(window) # WindowMax
        BY <2>1, <3>1 DEF CanRemember
      <3> QED
        BY <2>2, <3>1, <3>2, FS_AddElement
    <2>4. done' = done \cup {o} /\ e.id = p.id /\ o.cmd = p.cmd /\ o.epoch = epoch
      BY <2>2
    <2> HIDE DEF e, o, p
    <2>5. Types' /\ RelaysLive'
      BY <1>1, <1>2, <2>3 DEF Types, RelaysLive
    <2>6. CarriesOwnId' /\ CarriesNamed'
      BY <1>1, <1>2 DEF CarriesOwnId, CarriesNamed, Carried
    <2>7. UntriedUnknown'
      BY <1>1, <1>2, <2>4 DEF UntriedUnknown, Carried
    <2>8. NothingFromTheFuture'
      BY <1>1, <2>4 DEF NothingFromTheFuture, Types
    <2>9. \A c \in DOMAIN OwnId :
              Remembered(c) \/ Spent(c) => Remembered(c)' \/ Spent(c)'
      BY <1>1, <1>2, <2>3 DEF Remembered, Spent, Carried
    <2>10. \A c \in DOMAIN OwnId : c = o.cmd => Remembered(c)'
      BY <1>1, <1>2, <2>3, <2>4 DEF Remembered, CarriesOwnId, Carried
    <2>11. DecidedRemembered'
      BY <1>1, <2>4, <2>9, <2>10 DEF DecidedRemembered
    <2>12. ASSUME p.cmd \in DOMAIN OwnId, NEW q \in done, q.cmd = p.cmd, q.epoch = epoch
           PROVE  FALSE
      <3>1. ~Remembered(p.cmd)
        BY <1>2, <2>1, <2>12 DEF Remembered, CarriesOwnId, Carried
      <3>2. ~Spent(p.cmd)
        BY <1>2 DEF Spent, Carried
      <3> QED
        BY <1>1, <2>12, <3>1, <3>2 DEF DecidedRemembered
    <2>13. AtMostOnce'
      BY <2>4, <2>12 DEF AtMostOnce, Once
    <2>14. Fenced'
      BY <1>1, <1>2, <2>1, <2>4 DEF Fenced, CarriesNamed
    <2> QED
      BY <2>5, <2>6, <2>7, <2>8, <2>11, <2>13, <2>14
  <1> QED
    BY <1>3, <1>4

-----------------------------------------------------------------------------
LEMMA StepPreserves == IInv /\ [Next]_vars => IInv'
  <1> SUFFICES ASSUME IInv, [Next]_vars PROVE IInv'
    OBVIOUS
  <1>1. CASE Next
    BY <1>1, SubmitPreserves, RelayPreserves, RelayNtfyPreserves, ReadRendererPreserves,
       NetworkStepPreserves, SupervisorStepPreserves, RendererStepPreserves, SpawnPreserves,
       ForgetPreserves, HandlePreserves DEF Next
  <1>2. CASE UNCHANGED vars
    <2>1. /\ UNCHANGED <<tries, named, minted, epoch, shownEpoch, ownSeq, ntfySeq, relays, toSup,
                         toRen, window, done, process, life, netd>>
      BY <1>2 DEF vars, clients, network, supervisor, renderer, sockets
    <2>2. Types' /\ RelaysLive'
      BY <2>1 DEF IInv, Types, RelaysLive
    <2> QED
      BY <2>1, <2>2, QuietStep DEF IInv, Alive
  <1> QED
    BY <1>1, <1>2

\* The invariant holds in every state: what sockets, netd, the relay table and
\* the renderer's window hold of a client's command agrees (drainNetd,
\* handlePacket, Cache).
THEOREM Invariance == Spec => []IInv
  <1> QED
    BY InitEstablishes, StepPreserves, PTL DEF Spec

\* One renderer decides a command that carries an id of its client's once,
\* however often the packet is delivered, whatever was lost, and however often
\* netd was restarted (handlePacket, dedup.zig).
THEOREM DecidedAtMostOnce == Spec => []AtMostOnce
  <1>1. IInv => AtMostOnce
    BY DEF IInv
  <1> QED
    BY <1>1, Invariance, PTL

\* A command that names an epoch is decided by the renderer of that epoch or by
\* none (drainNetd's relay, handlePacket).
THEOREM EpochFences == Spec => []Fenced
  <1>1. IInv => Fenced
    BY DEF IInv
  <1> QED
    BY <1>1, Invariance, PTL

\* A relay in flight has a renderer to wait for and a netd to answer to (reap,
\* reapNetd, the ready of drainIpc).
THEOREM RelaysHaveEnds == Spec => []RelaysLive
  <1>1. IInv => RelaysLive
    BY DEF IInv
  <1> QED
    BY <1>1, Invariance, PTL

-----------------------------------------------------------------------------
(* What clients are told *)

\* Clients choose different ids, in the half that is left to them ("minted ids
\* have the top bit set, a range reserved for the device").
DifferentIds ==
    /\ \A c, d \in DOMAIN OwnId : OwnId[c] = OwnId[d] => c = d
    /\ \A c \in DOMAIN OwnId : OwnId[c][1] = "low"

\* The supervisor numbers its own commands 2, 3, ... in that half too: no client
\* has chosen a number it has come to.
KeepApart == \A c \in DOMAIN OwnId : \A n \in 2..ownSeq : OwnId[c] # <<"low", n>>

Entry == [id : Id, status : Decided, revision : Nat]

AnswerTypes ==
    /\ conn \in [Commands -> Id \cup {NoId}]
    /\ revision \in Nat /\ ownSeq \in Nat \ {0}
    /\ window \subseteq Entry
    /\ fromRen \in Seq(Result \cup {Ready})
    /\ toNetd \in Seq(Range(toNetd))
    /\ \A a \in Range(toNetd) : a.status \in Decided => a.id \in Id

\* What is said under a client's id was decided about its command.
Backed(r, e) ==
    \A c \in DOMAIN OwnId : r.id = OwnId[c] /\ r.status \in Decided =>
        [cmd |-> c, epoch |-> e, status |-> r.status, revision |-> r.revision] \in done

\* A client's id is on its command and its connection alone.
OwnIdsOwn ==
    /\ \A p \in Carried : \A c \in DOMAIN OwnId : p.id = OwnId[c] => p.cmd = c
    /\ \A c \in DOMAIN OwnId : conn[c] \in {NoId, OwnId[c]}

AllBacked ==
    /\ \A e \in window : Backed(e, epoch)
    /\ \A r \in Range(fromRen) : Backed(r, epoch)
    /\ \A a \in Range(toNetd) : Backed(a, a.epoch)

\* The next renderer starts with nothing of the last one's to read.
NobodyLeft == life = "none" => ~Alive /\ fromRen = <<>>

AInv == AnswerTypes /\ OwnIdsOwn /\ AllBacked /\ NobodyLeft /\ TrueAnswer

LEMMA AnswersStart == Init => AInv
  <1> SUFFICES ASSUME Init PROVE AInv
    OBVIOUS
  <1>1. /\ Range(toSup) = {} /\ Range(toRen) = {} /\ Range(toNetd) = {} /\ Range(fromRen) = {}
        /\ window = {} /\ fromRen = <<>> /\ process = "none" /\ told = {}
        /\ conn = [c \in Commands |-> NoId]
    BY DEF Init, Range
  <1>2. AnswerTypes
    BY <1>1, EmptySeq DEF Init, AnswerTypes
  <1>3. OwnIdsOwn /\ AllBacked /\ NobodyLeft /\ TrueAnswer
    BY <1>1, ConstantTypes DEF OwnIdsOwn, AllBacked, NobodyLeft, TrueAnswer, Carried, Alive
  <1> QED
    BY <1>2, <1>3 DEF AInv

\* The order of slots is a sequence, and one result is too.
LEMMA OneAnswer ==
    ASSUME NEW S, NEW r \in S
    PROVE  <<r>> \in Seq(S) /\ Range(<<r>>) = {r}
  <1>1. <<r>> \in Seq(S) /\ Len(<<r>>) = 1 /\ <<r>>[1] = r /\ DOMAIN <<r>> = 1..1
    OBVIOUS
  <1> QED
    BY <1>1 DEF Range

\* A step that adds to what is known of a command and says nothing more of it
\* than the renderer did.
LEMMA NothingNewSaid ==
    ASSUME AInv, AnswerTypes', NobodyLeft', done \subseteq done',
           UNCHANGED <<epoch, told>>,
           \A c \in DOMAIN OwnId : conn'[c] \in {conn[c], NoId, OwnId[c]},
           \A p \in Carried' : \A c \in DOMAIN OwnId :
              p.id = OwnId[c] => p \in Carried \/ p.cmd = c,
           \A e \in window' : e \in window \/ Backed(e, epoch)',
           \A r \in Range(fromRen') : r \in Range(fromRen) \/ Backed(r, epoch)',
           \A a \in Range(toNetd') :
              \/ a \in Range(toNetd)
              \/ a.status \notin Decided
              \/ \E r \in Range(fromRen) :
                   a.id = r.id /\ a.status = r.status /\ a.revision = r.revision /\ a.epoch = epoch
    PROVE  AInv'
  <1>1. \A r, e : Backed(r, e) => Backed(r, e)'
    BY DEF Backed
  <1>2. OwnIdsOwn'
    BY DEF AInv, OwnIdsOwn
  <1>3. \A e \in window' : Backed(e, epoch)'
    BY <1>1 DEF AInv, AllBacked
  <1>4. \A r \in Range(fromRen') : Backed(r, epoch)'
    BY <1>1 DEF AInv, AllBacked
  <1>5. ASSUME NEW a \in Range(toNetd') PROVE Backed(a, a.epoch)'
    <2>1. CASE a \in Range(toNetd)
      BY <1>1, <2>1 DEF AInv, AllBacked
    <2>2. CASE a.status \notin Decided
      BY <2>2 DEF Backed
    <2>3. CASE \E r \in Range(fromRen) :
                   a.id = r.id /\ a.status = r.status /\ a.revision = r.revision /\ a.epoch = epoch
      <3>1. PICK r \in Range(fromRen) :
                   a.id = r.id /\ a.status = r.status /\ a.revision = r.revision /\ a.epoch = epoch
        BY <2>3
      <3>2. Backed(r, epoch)
        BY DEF AInv, AllBacked
      <3> QED
        BY <3>1, <3>2 DEF Backed
    <2> QED
      BY <2>1, <2>2, <2>3
  <1>6. TrueAnswer'
    BY DEF AInv, TrueAnswer
  <1> QED
    BY <1>2, <1>3, <1>4, <1>5, <1>6 DEF AInv, AllBacked

LEMMA OwnRange ==
    ASSUME NEW S, NEW s \in Seq(S)
    PROVE  s \in Seq(Range(s))
  <1>1. Len(s) \in Nat /\ DOMAIN s = 1..Len(s) /\ s \in [1..Len(s) -> S]
    BY LenProperties
  <1>2. s \in [1..Len(s) -> Range(s)]
    BY <1>1 DEF Range
  <1> QED
    BY <1>1, <1>2, SeqDef

\* What the supervisor sends netd is added to what is in the socket, or lost.
LEMMA AnswersAdd ==
    ASSUME AnswerTypes, NEW S, NEW results \in Seq(S), Answers(results)
    PROVE  /\ toNetd' \in Seq(Range(toNetd'))
           /\ Range(toNetd') \subseteq Range(toNetd) \cup Range(results)
  <1> DEFINE T == Range(toNetd) \cup Range(results)
  <1>1. toNetd \in Seq(Range(toNetd)) /\ results \in Seq(Range(results))
    BY OwnRange DEF AnswerTypes
  <1>2. toNetd \in Seq(T) /\ results \in Seq(T)
    <2>1. Range(toNetd) \subseteq T /\ Range(results) \subseteq T
      OBVIOUS
    <2> HIDE DEF T
    <2> QED
      BY <1>1, <2>1, SeqDef
  <1>3. toNetd' = toNetd \/ toNetd' = Sent(toNetd, results)
    BY DEF Answers
  <1> HIDE DEF T
  <1>4. toNetd' \in Seq(T) /\ Range(toNetd') \subseteq Range(toNetd) \cup Range(results)
    BY <1>2, <1>3, SentRange
  <1> QED
    BY <1>4, OwnRange

\* the supervisor refuses one command
LEMMA OneRefused ==
    ASSUME AnswerTypes, NEW id, NEW status, status \notin Decided, Answers(<<Refusal(id, status)>>)
    PROVE  /\ toNetd' \in Seq(Range(toNetd'))
           /\ \A a \in Range(toNetd') : a \in Range(toNetd) \/ a.status \notin Decided
  <1> DEFINE r == Refusal(id, status)
  <1>1. r.status = status
    BY DEF Refusal, Answer
  <1> HIDE DEF r
  <1>2. <<r>> \in Seq({r}) /\ Range(<<r>>) = {r}
    BY OneAnswer
  <1>3. Answers(<<r>>)
    BY DEF r
  <1> QED
    BY <1>1, <1>2, <1>3, AnswersAdd

\* Types of what no one but the renderer and netd touch.
LEMMA TypesStay ==
    ASSUME AnswerTypes, UNCHANGED <<revision, window, fromRen>>,
           conn' \in [Commands -> Id \cup {NoId}], ownSeq' \in Nat \ {0},
           toNetd' \in Seq(Range(toNetd')),
           \A a \in Range(toNetd') : a \in Range(toNetd) \/ a.status \notin Decided
    PROVE  AnswerTypes'
  BY DEF AnswerTypes

\* A request goes out under its client's id, or under one of the other half.
LEMMA SubmitAnswers ==
    ASSUME IInv, AInv, DifferentIds, NEW c \in Commands, Submit(c)
    PROVE  AInv'
  <1> USE ConstantTypes
  <1> DEFINE id == IF c \in Minted THEN <<"high", minted'>> ELSE OwnId[c]
             p == [cmd |-> c, id |-> id, epoch |-> named'[c]]
  <1>1. /\ UNCHANGED <<epoch, told, done, life, process, ownSeq, revision, window, fromRen, toNetd,
                       toRen>>
        /\ minted' = minted + 1 /\ minted \in Nat
        /\ toSup' = toSup \/ toSup' = Append(toSup, p)
        /\ conn' = conn \/ conn' = [conn EXCEPT ![c] = id]
        /\ toSup \in Seq(Command)
    BY DEF Submit, supervisor, renderer, IInv, Types
  <1>2. /\ id \in Id
        /\ \A b \in DOMAIN OwnId : id = OwnId[b] => b = c
        /\ c \in DOMAIN OwnId => id = OwnId[c]
    <2>1. CASE c \in Minted
      <3>1. id = <<"high", minted'>> /\ id[1] = "high" /\ id \in Id
        BY <1>1, <2>1 DEF Id
      <3> HIDE DEF id
      <3> QED
        BY <2>1, <3>1 DEF DifferentIds, Minted
    <2>2. CASE c \notin Minted
      BY <2>2 DEF DifferentIds, Minted
    <2> QED
      BY <2>1, <2>2
  <1> HIDE DEF id
  <1>3. p \in Command /\ p.cmd = c /\ p.id = id
    <2>1. IInv' BY SubmitPreserves
    <2>2. named'[c] \in Nat
      BY <2>1 DEF IInv, Types
    <2> QED
      BY <1>2, <2>2 DEF Command, Senders
  <1> HIDE DEF p
  <1>4. Range(toSup') \subseteq Range(toSup) \cup {p}
    BY <1>1, <1>3, CommandSent
  <1>5. conn' \in [Commands -> Id \cup {NoId}]
        /\ \A b \in DOMAIN OwnId : conn'[b] \in {conn[b], NoId, OwnId[b]}
    BY <1>1, <1>2 DEF AInv, AnswerTypes
  <1>6. AnswerTypes' /\ NobodyLeft'
    BY <1>1, <1>5 DEF AInv, AnswerTypes, NobodyLeft, Alive
  <1>7. \A q \in Carried' : \A b \in DOMAIN OwnId :
            q.id = OwnId[b] => q \in Carried \/ q.cmd = b
    BY <1>1, <1>2, <1>3, <1>4 DEF Carried
  <1> QED
    BY <1>1, <1>5, <1>6, <1>7, NothingNewSaid

\* netd tells a client what the packet with its id says.
LEMMA ReadAnswers ==
    ASSUME IInv, AInv, DifferentIds, NetdReads
    PROVE  AInv'
  <1> USE ConstantTypes
  <1> DEFINE p == Head(toNetd)
  <1>1. /\ UNCHANGED <<epoch, done, life, process, ownSeq, revision, window, fromRen, toSup, toRen>>
        /\ toNetd # <<>> /\ toNetd' = Tail(toNetd) /\ toNetd \in Seq(Range(toNetd))
    BY DEF NetdReads, supervisor, renderer, AInv, AnswerTypes
  <1>2. /\ toNetd' \in Seq(Range(toNetd')) /\ Range(toNetd') \subseteq Range(toNetd)
        /\ p \in Range(toNetd)
    BY <1>1, TailRange, OwnRange
  <1>3. /\ Backed(p, p.epoch)
        /\ p.status \in Decided => p.id \in Id
    BY <1>2 DEF AInv, AllBacked, AnswerTypes
  <1>4. \/ UNCHANGED <<conn, told>>
        \/ \E c \in Commands :
             /\ conn[c] = p.id /\ conn' = [conn EXCEPT ![c] = NoId]
             /\ told' = IF p.status \notin Decided THEN told
                        ELSE told \cup {[cmd |-> c, epoch |-> p.epoch, status |-> p.status,
                                         revision |-> p.revision]}
    BY DEF NetdReads, Waits
  <1> HIDE DEF p
  <1>5. /\ conn' \in [Commands -> Id \cup {NoId}]
        /\ \A b \in DOMAIN OwnId : conn'[b] \in {conn[b], NoId, OwnId[b]}
    BY <1>4 DEF AInv, AnswerTypes
  <1>6. NoId \notin Id
    BY DEF NoId, Id
  <1>7. TrueAnswer'
    <2>1. CASE UNCHANGED <<conn, told>>
      BY <1>1, <2>1 DEF AInv, TrueAnswer
    <2>2. CASE \E c \in Commands :
             /\ conn[c] = p.id
             /\ told' = IF p.status \notin Decided THEN told
                        ELSE told \cup {[cmd |-> c, epoch |-> p.epoch, status |-> p.status,
                                         revision |-> p.revision]}
      <3>1. PICK c \in Commands :
             /\ conn[c] = p.id
             /\ told' = IF p.status \notin Decided THEN told
                        ELSE told \cup {[cmd |-> c, epoch |-> p.epoch, status |-> p.status,
                                         revision |-> p.revision]}
        BY <2>2
      <3> DEFINE o == [cmd |-> c, epoch |-> p.epoch, status |-> p.status, revision |-> p.revision]
      <3>2. o.cmd = c
        OBVIOUS
      <3>3. ASSUME p.status \in Decided, c \in DOMAIN OwnId
            PROVE  o \in done
        <4>1. p.id = OwnId[c]
          BY <1>3, <1>6, <3>1, <3>3 DEF AInv, OwnIdsOwn
        <4> QED
          BY <1>3, <3>3, <4>1 DEF Backed
      <3>4. told' = told \/ (p.status \in Decided /\ told' = told \cup {o})
        BY <3>1
      <3> HIDE DEF o
      <3> QED
        BY <1>1, <3>2, <3>3, <3>4 DEF AInv, TrueAnswer
    <2> QED
      BY <1>4, <2>1, <2>2
  <1>8. AnswerTypes' /\ NobodyLeft'
    BY <1>1, <1>2, <1>5 DEF AInv, AnswerTypes, NobodyLeft, Alive
  <1>9. OwnIdsOwn'
    BY <1>1, <1>5 DEF AInv, OwnIdsOwn, Carried
  <1>10. AllBacked'
    BY <1>1, <1>2 DEF AInv, AllBacked, Backed
  <1> QED
    BY <1>7, <1>8, <1>9, <1>10 DEF AInv

\* Steps of netd and the supervisor that say nothing, or refuse.
LEMMA SilentStep ==
    ASSUME AInv, UNCHANGED <<epoch, told, done, ownSeq, revision, window, fromRen>>,
           conn' = conn \/ conn' = [c \in Commands |-> NoId]
             \/ \E c \in Commands : conn' = [conn EXCEPT ![c] = NoId],
           life' = "none" => life = "none", Alive' => Alive,
           toNetd' \in Seq(Range(toNetd')),
           \A a \in Range(toNetd') : a \in Range(toNetd) \/ a.status \notin Decided,
           \A p \in Carried' : \A c \in DOMAIN OwnId :
              p.id = OwnId[c] => \E q \in Carried : q.cmd = p.cmd /\ q.id = p.id
    PROVE  AInv'
  <1> USE ConstantTypes
  <1>1. /\ conn' \in [Commands -> Id \cup {NoId}]
        /\ \A b \in DOMAIN OwnId : conn'[b] \in {conn[b], NoId, OwnId[b]}
    BY DEF AInv, AnswerTypes
  <1>2. AnswerTypes' /\ NobodyLeft'
    BY <1>1, TypesStay DEF AInv, NobodyLeft, AnswerTypes
  <1>3. \A p \in Carried' : \A c \in DOMAIN OwnId : p.id = OwnId[c] => p.cmd = c
    BY DEF AInv, OwnIdsOwn
  <1> QED
    BY <1>1, <1>2, <1>3, NothingNewSaid

LEMMA NetworkAnswers ==
    ASSUME IInv, AInv, (\E c \in Commands : GivesUp(c)) \/ NetdDies \/ SpawnNetd \/ RequestStop
    PROVE  AInv'
  <1>1. /\ UNCHANGED <<epoch, told, done, ownSeq, revision, window, fromRen, process, toSup, toRen,
                       toNetd>>
        /\ \/ conn' = conn \/ conn' = [c \in Commands |-> NoId]
           \/ \E c \in Commands : conn' = [conn EXCEPT ![c] = NoId]
        /\ life' = "none" => life = "none"
    BY DEF GivesUp, NetdDies, SpawnNetd, RequestStop, clients, network, supervisor, renderer, sockets
  <1> QED
    BY <1>1, SilentStep DEF Alive, Carried, AInv, AnswerTypes

LEMMA RelayAnswers ==
    ASSUME IInv, AInv, Relay
    PROVE  AInv'
  <1> USE ConstantTypes
  <1> DEFINE p == Head(toSup)
             passed == [p EXCEPT !.epoch = EpochFor(@)]
  <1>1. /\ UNCHANGED <<epoch, told, conn, done, ownSeq, revision, window, fromRen, process, life>>
        /\ toSup # <<>> /\ toSup' = Tail(toSup)
        /\ toSup \in Seq(Command) /\ toRen \in Seq(Command)
    BY DEF Relay, clients, renderer, IInv, Types
  <1>2. Range(toSup') \subseteq Range(toSup) /\ p \in Command /\ p \in Range(toSup)
    BY <1>1, TailRange
  <1>3. \/ toRen' = toRen /\ Answers(<<Refusal(p.id, "unavailable")>>)
        \/ toRen' = toRen /\ Answers(<<Refusal(p.id, "overload")>>)
        \/ toRen' = Append(toRen, passed) /\ toNetd' = toNetd
    BY DEF Relay
  <1>4. passed \in Command /\ passed.cmd = p.cmd /\ passed.id = p.id
    BY <1>1, <1>2 DEF Command, EpochFor, IInv, Types
  <1> HIDE DEF passed, p
  <1>5. Range(toRen') \subseteq Range(toRen) \cup {passed}
    BY <1>1, <1>3, <1>4, CommandSent
  <1>6. /\ toNetd' \in Seq(Range(toNetd'))
        /\ \A a \in Range(toNetd') : a \in Range(toNetd) \/ a.status \notin Decided
    <2>1. "unavailable" \notin Decided /\ "overload" \notin Decided
      BY DEF Decided
    <2> QED
      BY <1>3, <2>1, OneRefused DEF AInv, AnswerTypes
  <1>7. \A q \in Carried' : \E r \in Carried : r.cmd = q.cmd /\ r.id = q.id
    BY <1>2, <1>4, <1>5 DEF Carried
  <1> QED
    BY <1>1, <1>6, <1>7, SilentStep DEF Alive

LEMMA NtfyAnswers ==
    ASSUME IInv, AInv, DifferentIds, RelayNtfy
    PROVE  AInv'
  <1> USE ConstantTypes
  <1> DEFINE p == [cmd |-> "ntfy", id |-> NtfyId, epoch |-> epoch]
  <1>1. /\ UNCHANGED <<epoch, told, conn, done, ownSeq, revision, window, fromRen, process, life,
                       toSup, toNetd>>
        /\ toRen' = toRen \/ toRen' = Append(toRen, p)
        /\ toRen \in Seq(Command)
    BY DEF RelayNtfy, clients, renderer, IInv, Types
  <1>2. p \in Command /\ p.id = NtfyId /\ NtfyId[1] = "high"
    BY DEF Command, Senders, NtfyId, Id, IInv, Types
  <1> HIDE DEF p
  <1>3. Range(toRen') \subseteq Range(toRen) \cup {p}
    BY <1>1, <1>2, CommandSent
  <1>4. \A c \in DOMAIN OwnId : p.id # OwnId[c]
    BY <1>2 DEF DifferentIds
  <1>5. \A q \in Carried' : \A c \in DOMAIN OwnId : q.id = OwnId[c] => q \in Carried
    BY <1>1, <1>3, <1>4 DEF Carried
  <1> QED
    BY <1>1, <1>5, SilentStep DEF Alive, AInv, AnswerTypes

LEMMA ExpiryAnswers ==
    ASSUME IInv, AInv, (\E s \in 1..RelayMax : ExpireRelay(s)) \/ ReapNetd
    PROVE  AInv'
  <1>1. /\ UNCHANGED <<epoch, told, conn, done, ownSeq, revision, window, fromRen, process, life,
                       toRen>>
        /\ toSup' = toSup \/ toSup' = <<>>
        /\ toNetd' = <<>> \/ \E s \in 1..RelayMax : Answers(<<Refusal(relays[s].id, "timeout")>>)
    BY DEF ExpireRelay, ReapNetd, clients, network, supervisor, renderer
  <1>2. <<>> \in Seq(Range(<<>>)) /\ Range(<<>>) = {}
    BY EmptySeq DEF Range
  <1>3. "timeout" \notin Decided
    BY DEF Decided
  <1>4. /\ toNetd' \in Seq(Range(toNetd'))
        /\ \A a \in Range(toNetd') : a \in Range(toNetd) \/ a.status \notin Decided
    BY <1>1, <1>2, <1>3, OneRefused DEF AInv
  <1> QED
    BY <1>1, <1>2, <1>4, SilentStep DEF Alive, Carried

\* All relays are refused, and nothing of this renderer's is left to read.
LEMMA ReapAnswers ==
    ASSUME IInv, AInv, Reap
    PROVE  AInv'
  <1> USE ConstantTypes
  <1> DEFINE nth(i) == CHOOSE s \in InFlight : Cardinality({t \in InFlight : t < s}) = i - 1
             refusals == [i \in 1..Cardinality(InFlight) |-> Refusal(relays[nth(i)].id, "unavailable")]
  <1>1. /\ UNCHANGED <<epoch, told, conn, done, ownSeq, revision, window, process, toSup>>
        /\ toRen' = <<>> /\ fromRen' = <<>> /\ ~Alive
        /\ Answers(refusals)
    BY DEF Reap, AnsweredByReap, clients, renderer
  <1>2. Cardinality(InFlight) \in Nat
    <2>1. 1 \in Int /\ RelayMax \in Int
      OBVIOUS
    <2>2. IsFiniteSet(1..RelayMax)
      BY ONLY <2>1, FS_Interval, Zenon
    <2>3. IsFiniteSet(InFlight)
      BY <2>2, FS_Subset DEF InFlight
    <2> QED
      BY <2>3, FS_CardinalityType
  <1> HIDE DEF nth
  <1>3. refusals \in Seq(Range(refusals)) /\ \A a \in Range(refusals) : a.status = "unavailable"
    <2>1. \A i \in 1..Cardinality(InFlight) : refusals[i].status = "unavailable"
      BY DEF Refusal, Answer
    <2>2. refusals \in [1..Cardinality(InFlight) -> Range(refusals)]
          /\ DOMAIN refusals = 1..Cardinality(InFlight)
      BY DEF Range
    <2>3. Range(refusals) = {refusals[i] : i \in 1..Cardinality(InFlight)}
      BY <2>2 DEF Range
    <2> HIDE DEF refusals
    <2>4. refusals \in Seq(Range(refusals))
      BY ONLY <1>2, <2>2, SeqDef
    <2> QED
      BY ONLY <2>1, <2>3, <2>4
  <1> HIDE DEF refusals
  <1>4. /\ toNetd' \in Seq(Range(toNetd'))
        /\ \A a \in Range(toNetd') : a \in Range(toNetd) \/ a.status \notin Decided
    BY <1>1, <1>3, AnswersAdd DEF AInv, Decided
  <1>5. <<>> \in Seq(Result \cup {Ready}) /\ Range(<<>>) = {}
    BY EmptySeq DEF Range
  <1>6. AnswerTypes' /\ NobodyLeft'
    BY <1>1, <1>4, <1>5 DEF AInv, AnswerTypes, NobodyLeft, Alive
  <1>7. \A p \in Carried' : p \in Carried
    BY <1>1, <1>5 DEF Carried
  <1> QED
    BY <1>1, <1>4, <1>5, <1>6, <1>7, NothingNewSaid

\* The relay that waits is answered with what the renderer said, in its epoch.
LEMMA ResultAnswers ==
    ASSUME IInv, AInv, KeepApart', ReadRenderer
    PROVE  AInv'
  <1> USE ConstantTypes
  <1> DEFINE p == Head(fromRen)
  <1>1. /\ UNCHANGED <<epoch, told, conn, done, revision, window, process, toSup>>
        /\ fromRen # <<>> /\ fromRen' = Tail(fromRen) /\ fromRen \in Seq(Result \cup {Ready})
        /\ toRen \in Seq(Command) /\ ownSeq \in Nat \ {0}
    BY DEF ReadRenderer, clients, renderer, IInv, Types, AInv, AnswerTypes
  <1>2. /\ fromRen' \in Seq(Result \cup {Ready}) /\ Range(fromRen') \subseteq Range(fromRen)
        /\ p \in Range(fromRen) /\ p \in Result \cup {Ready}
    BY <1>1, TailRange
  <1>3. life' = "none" => life = "none"
    BY DEF ReadRenderer
  <1>4. CASE p.status = "ready"
    <2>1. /\ ownSeq' = ownSeq + Pushes /\ toNetd' = toNetd
          /\ toRen' = toRen \/ toRen' = Sent(toRen, PushCommands)
      BY <1>4 DEF ReadRenderer
    <2>2. PushCommands \in Seq(Command) /\ ownSeq' \in Nat \ {0}
      BY <1>1, <2>1, PushType DEF IInv
    <2>3. Range(toRen') \subseteq Range(toRen) \cup Range(PushCommands)
      BY <1>1, <2>1, <2>2, SentRange
    <2>4. ASSUME NEW q \in Range(PushCommands), NEW c \in DOMAIN OwnId
          PROVE  q.id # OwnId[c]
      <3>1. PICK i \in 1..Pushes : q = [cmd |-> "push", id |-> <<"low", ownSeq + i>>, epoch |-> epoch]
        BY DEF PushCommands, Range
      <3>2. ownSeq + i \in 2..ownSeq'
        BY <1>1, <2>1
      <3> QED
        BY <3>1, <3>2 DEF KeepApart
    <2>5. \A q \in Carried' : \A c \in DOMAIN OwnId : q.id = OwnId[c] => q \in Carried
      BY <1>1, <2>3, <2>4 DEF Carried
    <2>6. AnswerTypes' /\ NobodyLeft'
      BY <1>1, <1>2, <1>3, <2>1, <2>2 DEF AInv, AnswerTypes, NobodyLeft, Alive
    <2> QED
      BY <1>1, <1>2, <2>1, <2>5, <2>6, NothingNewSaid
  <1>5. CASE p.status # "ready"
    <2>1. /\ UNCHANGED <<life, ownSeq, toRen>>
          /\ toNetd' = toNetd \/ Answers(<<Answer(p.id, p.status, p.revision)>>)
      BY <1>5 DEF ReadRenderer
    <2>2. p.id \in Id
      BY <1>2, <1>5 DEF Result, Ready
    <2> DEFINE a == Answer(p.id, p.status, p.revision)
    <2>3. a.id = p.id /\ a.status = p.status /\ a.revision = p.revision /\ a.epoch = epoch
      BY DEF Answer
    <2>4. Answers(<<a>>) => Answers(<<Answer(p.id, p.status, p.revision)>>)
      OBVIOUS
    <2>5. toNetd' = toNetd \/ Answers(<<a>>)
      BY <2>1
    <2> HIDE DEF a
    <2>6. <<a>> \in Seq({a}) /\ Range(<<a>>) = {a}
      BY OneAnswer
    <2>7. toNetd' \in Seq(Range(toNetd')) /\ Range(toNetd') \subseteq Range(toNetd) \cup {a}
      BY <2>5, <2>6, AnswersAdd DEF AInv, AnswerTypes
    <2>8. AnswerTypes' /\ NobodyLeft'
      BY <1>1, <1>2, <1>3, <2>1, <2>2, <2>3, <2>7 DEF AInv, AnswerTypes, NobodyLeft, Alive
    <2>9. \A q \in Carried' : q \in Carried
      BY <1>1, <2>1 DEF Carried
    <2>10. \A b \in Range(toNetd') :
              \/ b \in Range(toNetd)
              \/ \E r \in Range(fromRen) :
                   b.id = r.id /\ b.status = r.status /\ b.revision = r.revision /\ b.epoch = epoch
      BY <1>2, <2>3, <2>7
    <2> HIDE DEF p
    <2> QED
      BY <1>1, <1>2, <2>8, <2>9, <2>10, NothingNewSaid
  <1> QED
    BY <1>4, <1>5

\* The next renderer remembers nothing, and has said nothing.
LEMMA SpawnAnswers ==
    ASSUME IInv, AInv, Spawn
    PROVE  AInv'
  <1>1. /\ UNCHANGED <<told, conn, done, ownSeq, fromRen, toSup, toRen, toNetd>>
        /\ life = "none" /\ life' = "starting" /\ window' = {} /\ revision' = 0
    BY DEF Spawn, clients, network, sockets
  <1>2. fromRen = <<>> /\ Range(fromRen) = {}
    BY <1>1 DEF AInv, NobodyLeft, Range
  <1>3. AnswerTypes' /\ NobodyLeft' /\ OwnIdsOwn' /\ TrueAnswer'
    BY <1>1 DEF AInv, AnswerTypes, NobodyLeft, OwnIdsOwn, Carried, TrueAnswer
  <1>4. AllBacked'
    BY <1>1, <1>2 DEF AInv, AllBacked, Backed
  <1> QED
    BY <1>3, <1>4 DEF AInv

\* What the renderer says adds one packet to its socket, or is lost.
LEMMA ReplyAdds ==
    ASSUME AInv, NEW r \in Result \cup {Ready}, fromRen' = Sent(fromRen, <<r>>)
    PROVE  /\ fromRen' \in Seq(Result \cup {Ready})
           /\ Range(fromRen') \subseteq Range(fromRen) \cup {r}
  <1>1. fromRen \in Seq(Result \cup {Ready})
    BY DEF AInv, AnswerTypes
  <1> DEFINE T == Result \cup {Ready}
  <1>2. fromRen \in Seq(T) /\ r \in T
    BY <1>1
  <1> HIDE DEF T
  <1>3. <<r>> \in Seq(T) /\ Range(<<r>>) = {r}
    BY <1>2, OneAnswer
  <1>4. fromRen' \in Seq(T) /\ Range(fromRen') \subseteq Range(fromRen) \cup Range(<<r>>)
    BY <1>2, <1>3, SentRange
  <1> QED
    BY <1>3, <1>4 DEF T

LEMMA ReadyAnswers ==
    ASSUME IInv, AInv, SendReady \/ RendererDies \/ Forget
    PROVE  AInv'
  <1>1. /\ UNCHANGED <<epoch, told, conn, done, ownSeq, revision, toSup, toRen, toNetd, life>>
        /\ Alive /\ window' \subseteq window
        /\ fromRen' = fromRen \/ fromRen' = Sent(fromRen, <<Ready>>)
    BY DEF SendReady, RendererDies, Forget, Alive, clients, network, supervisor, sockets
  <1>2. Ready \in Result \cup {Ready} /\ \A c \in DOMAIN OwnId : Ready.status \notin Decided
    BY DEF Ready, Decided
  <1>3. /\ fromRen' \in Seq(Result \cup {Ready})
        /\ Range(fromRen') \subseteq Range(fromRen) \cup {Ready}
    BY <1>1, <1>2, ReplyAdds DEF AInv, AnswerTypes
  <1>4. AnswerTypes' /\ NobodyLeft'
    BY <1>1, <1>3 DEF AInv, AnswerTypes, NobodyLeft
  <1>5. \A r \in Range(fromRen') : r \in Range(fromRen) \/ Backed(r, epoch)'
    BY <1>2, <1>3 DEF Backed
  <1>6. \A q \in Carried' : q \in Carried
    BY <1>1 DEF Carried
  <1> QED
    BY <1>1, <1>4, <1>5, <1>6, NothingNewSaid

\* The renderer decides and remembers, answers from memory, or refuses.
LEMMA HandleAnswers ==
    ASSUME IInv, AInv, Handle
    PROVE  AInv'
  <1> USE ConstantTypes
  <1> DEFINE p == Head(toRen)
  <1>1. /\ UNCHANGED <<epoch, told, conn, ownSeq, toSup, toNetd, life>>
        /\ Alive /\ toRen # <<>> /\ toRen' = Tail(toRen) /\ toRen \in Seq(Command)
        /\ revision \in Nat
    BY DEF Handle, clients, network, supervisor, IInv, Types, AInv, AnswerTypes
  <1>2. Range(toRen') \subseteq Range(toRen) /\ p \in Command /\ p \in Range(toRen)
    BY <1>1, TailRange
  <1>3. p.id \in Id /\ \A c \in DOMAIN OwnId : p.id = OwnId[c] => p.cmd = c
    BY <1>2 DEF Command, AInv, OwnIdsOwn, Carried
  <1>4. \A q \in Carried' : q \in Carried
    BY <1>1, <1>2 DEF Carried
  <1>5. ASSUME UNCHANGED <<revision, window, done>>, NEW status \in Statuses, NEW rev \in Nat,
               Reply(p.id, status, rev),
               \/ status \notin Decided
               \/ [id |-> p.id, status |-> status, revision |-> rev] \in window
        PROVE  AInv'
    <2>0. PICK r : r = [id |-> p.id, status |-> status, revision |-> rev]
      OBVIOUS
    <2>1. r \in Result \cup {Ready} /\ r.status = status
      BY <1>3, <2>0 DEF Result
    <2>2. fromRen' = Sent(fromRen, <<r>>) /\ (status \notin Decided \/ r \in window)
      BY <1>5, <2>0 DEF Reply
    <2>3. /\ fromRen' \in Seq(Result \cup {Ready})
          /\ Range(fromRen') \subseteq Range(fromRen) \cup {r}
      BY <2>1, <2>2, ReplyAdds
    <2>4. Backed(r, epoch)'
      <3>1. CASE status \notin Decided
        BY <2>1, <3>1 DEF Backed
      <3>2. CASE r \in window
        BY <1>1, <1>5, <3>2 DEF AInv, AllBacked, Backed
      <3> QED
        BY <2>2, <3>1, <3>2
    <2>5. AnswerTypes' /\ NobodyLeft'
      BY <1>1, <1>5, <2>3 DEF AInv, AnswerTypes, NobodyLeft
    <2> QED
      BY <1>1, <1>4, <1>5, <2>3, <2>4, <2>5, NothingNewSaid
  <1>6. ASSUME NEW status \in Decided, NEW rev, revision' = rev,
               rev = IF status = "applied" THEN revision + 1 ELSE revision,
               window' = window \/ window' = window \cup {[id |-> p.id, status |-> status,
                                                           revision |-> rev]},
               done' = done \cup {[cmd |-> p.cmd, epoch |-> epoch, status |-> status,
                                   revision |-> rev]},
               Reply(p.id, status, rev)
        PROVE  AInv'
    <2>0. PICK r : r = [id |-> p.id, status |-> status, revision |-> rev]
      OBVIOUS
    <2>1. /\ revision' \in Nat /\ r \in Entry /\ r \in Result \cup {Ready}
          /\ r.id = p.id /\ r.status = status /\ r.revision = rev
      BY <1>1, <1>3, <1>6, <2>0 DEF Result, Entry, Statuses
    <2>2. /\ fromRen' = Sent(fromRen, <<r>>)
          /\ window' \subseteq window \cup {r}
      BY <1>6, <2>0 DEF Reply
    <2>3. /\ fromRen' \in Seq(Result \cup {Ready})
          /\ Range(fromRen') \subseteq Range(fromRen) \cup {r}
      BY <2>1, <2>2, ReplyAdds
    <2>4. Backed(r, epoch)'
      BY <1>1, <1>3, <1>6, <2>1 DEF Backed
    <2>5. AnswerTypes' /\ NobodyLeft'
      BY <1>1, <2>1, <2>2, <2>3 DEF AInv, AnswerTypes, NobodyLeft
    <2>6. done \subseteq done'
      BY <1>6
    <2> QED
      BY <1>1, <1>4, <2>2, <2>3, <2>4, <2>5, <2>6, NothingNewSaid
  <1> DEFINE known == {e \in window : e.id = p.id}
  <1>7. CASE Reply(p.id, "stale_epoch", revision) /\ UNCHANGED <<revision, window, done>>
    BY <1>1, <1>5, <1>7 DEF Statuses, Decided
  <1>8. CASE (\E e \in known : Reply(p.id, e.status, e.revision)) /\ UNCHANGED <<revision, window, done>>
    <2>1. PICK e \in window : e.id = p.id /\ Reply(p.id, e.status, e.revision)
      BY <1>8
    <2>2. e \in Entry
      BY DEF AInv, AnswerTypes
    <2>3. /\ e.status \in Statuses /\ e.revision \in Nat
          /\ e = [id |-> p.id, status |-> e.status, revision |-> e.revision]
      BY <2>1, <2>2 DEF Entry, Statuses
    <2> QED
      BY <1>5, <1>8, <2>1, <2>3
  <1>9. CASE Reply(p.id, "overload", revision) /\ UNCHANGED <<revision, window, done>>
    BY <1>1, <1>5, <1>9 DEF Statuses, Decided
  <1>10. CASE \E status \in Decided :
               /\ revision' = IF status = "applied" THEN revision + 1 ELSE revision
               /\ window' = IF Cardinality(window) = WindowMax THEN window
                            ELSE window \cup {[id |-> p.id, status |-> status,
                                               revision |-> revision']}
               /\ done' = done \cup {[cmd |-> p.cmd, epoch |-> epoch, status |-> status,
                                      revision |-> revision']}
               /\ Reply(p.id, status, revision')
    <2>1. PICK status \in Decided :
               /\ revision' = IF status = "applied" THEN revision + 1 ELSE revision
               /\ window' = IF Cardinality(window) = WindowMax THEN window
                            ELSE window \cup {[id |-> p.id, status |-> status,
                                               revision |-> revision']}
               /\ done' = done \cup {[cmd |-> p.cmd, epoch |-> epoch, status |-> status,
                                      revision |-> revision']}
               /\ Reply(p.id, status, revision')
      BY <1>10
    <2> HIDE DEF p
    <2> QED
      BY <1>6, <2>1
  <1> QED
    BY <1>7, <1>8, <1>9, <1>10 DEF Handle

LEMMA AnswersStep == DifferentIds /\ IInv /\ AInv /\ KeepApart' /\ [Next]_vars => AInv'
  <1> SUFFICES ASSUME DifferentIds, IInv, AInv, KeepApart', [Next]_vars PROVE AInv'
    OBVIOUS
  <1>1. CASE Next
    BY <1>1, SubmitAnswers, ReadAnswers, NetworkAnswers, RelayAnswers, NtfyAnswers, ExpiryAnswers,
       ReapAnswers, ResultAnswers, SpawnAnswers, ReadyAnswers, HandleAnswers DEF Next
  <1>2. CASE UNCHANGED vars
    <2>1. UNCHANGED <<epoch, told, conn, done, ownSeq, revision, window, fromRen, process, life,
                      toSup, toRen, toNetd>>
      BY <1>2 DEF vars, clients, network, supervisor, renderer, sockets
    <2> QED
      BY <2>1 DEF AInv, AnswerTypes, OwnIdsOwn, AllBacked, Backed, NobodyLeft, TrueAnswer, Carried,
                  Alive
  <1> QED
    BY <1>1, <1>2

\* A client is told what was decided about its command and by whom, never what
\* was decided about another's, as long as clients choose different ids outside
\* the device's half and no number the supervisor has come to (drainNetd,
\* handlePacket, drainIpc, onResult).
THEOREM AnswersAreTrue ==
    ASSUME DifferentIds
    PROVE  Spec /\ []KeepApart => []TrueAnswer
  <1>1. IInv /\ AInv /\ KeepApart' /\ [Next]_vars => AInv'
    BY AnswersStep
  <1>2. AInv => TrueAnswer
    BY DEF AInv
  <1> QED
    BY <1>1, <1>2, AnswersStart, Invariance, PTL DEF Spec

-----------------------------------------------------------------------------
(* Types, and the bounds of sockets, window and table *)

ToNetd == [id : Id, status : Statuses, revision : Nat, epoch : Nat]
Relays == {NoRelay} \cup [id : Id, ntfy : BOOLEAN]

ClientTypes ==
    /\ tries \in [Commands -> 0..MaxTries \cup {1}] /\ named \in [Commands -> 0..MaxEpoch]
    /\ conn \in [Commands -> Id \cup {NoId}]
    /\ told \subseteq Outcome
NetdTypes ==
    netd \in {"up", "dead", "none"} /\ minted \in Nat /\ netds \in 0..MaxNetd
SupervisorTypes ==
    /\ life \in {"none", "starting", "running", "stopping"} /\ epoch \in 0..MaxEpoch
    /\ ownSeq \in Nat /\ ntfySeq \in 0..MaxNtfy
    /\ relays \in [1..RelayMax -> Relays]
    /\ shownEpoch \in 0..MaxEpoch
RendererTypes ==
    /\ process \in {"none", "booting", "up"} /\ revision \in Nat
    /\ window \subseteq Result /\ IsFiniteSet(window) /\ Cardinality(window) <= WindowMax
    /\ done \subseteq Outcome
Fits(socket, S) == socket \in Seq(S) /\ Len(socket) <= SocketRoom
SocketTypes ==
    /\ Fits(toSup, Command) /\ Fits(toRen, Command)
    /\ Fits(toNetd, ToNetd) /\ Fits(fromRen, Result \cup {Ready})

\* TypeOK, and that the window is a finite set
TInv == ClientTypes /\ NetdTypes /\ SupervisorTypes /\ RendererTypes /\ SocketTypes

LEMMA TInvSuffices == TInv => TypeOK
  BY DEF TInv, TypeOK, ClientTypes, NetdTypes, SupervisorTypes, RendererTypes, SocketTypes, Fits,
         ToNetd, Relays

LEMMA TypesStart == Init => TInv
  <1> SUFFICES ASSUME Init PROVE TInv
    OBVIOUS
  <1> USE ConstantTypes
  <1>1. \A S : Fits(<<>>, S)
    BY EmptySeq DEF Fits
  <1>2. SocketTypes
    BY <1>1 DEF Init, SocketTypes
  <1>3. ClientTypes /\ NetdTypes /\ SupervisorTypes
    BY DEF Init, ClientTypes, NetdTypes, SupervisorTypes, Relays
  <1>4. RendererTypes
    BY FS_EmptySet DEF Init, RendererTypes
  <1> QED
    BY <1>2, <1>3, <1>4 DEF TInv

\* Sends, of one packet where there is room and of any number, and reads.
LEMMA OneMoreFits ==
    ASSUME NEW S, NEW s, Fits(s, S), HasRoom(s), NEW e \in S
    PROVE  Fits(Append(s, e), S)
  <1>1. Append(s, e) \in Seq(S) /\ Len(Append(s, e)) = Len(s) + 1 /\ Len(s) \in Nat
    BY AppendProperties, LenProperties DEF Fits
  <1> QED
    BY <1>1, ConstantTypes DEF Fits, HasRoom

LEMMA OneLessFits ==
    ASSUME NEW S, NEW s, Fits(s, S), s # <<>>
    PROVE  Fits(Tail(s), S) /\ Head(s) \in S
  <1>1. /\ Head(s) \in S /\ Tail(s) \in Seq(S) /\ Len(Tail(s)) = Len(s) - 1 /\ Len(s) \in Nat
    BY HeadTailProperties, LenProperties DEF Fits
  <1> QED
    BY <1>1, ConstantTypes DEF Fits

LEMMA SentFits ==
    ASSUME NEW S, NEW s, Fits(s, S), NEW t \in Seq(S)
    PROVE  Fits(Sent(s, t), S)
  <1> DEFINE all == s \o t
  <1>1. all \in Seq(S) /\ Len(all) \in Nat /\ SocketRoom \in Nat
    BY ConcatProperties, LenProperties, ConstantTypes DEF Fits
  <1>2. Sent(s, t) = IF Len(all) <= SocketRoom THEN all ELSE SubSeq(all, 1, SocketRoom)
    BY DEF Sent
  <1> HIDE DEF all
  <1>3. ~(Len(all) <= SocketRoom) =>
            /\ SubSeq(all, 1, SocketRoom) \in Seq(S)
            /\ Len(SubSeq(all, 1, SocketRoom)) = SocketRoom
    <2>1. ~(Len(all) <= SocketRoom) => \A i \in 1..SocketRoom : all[i] \in S
      BY <1>1, ElementOfSeq
    <2> QED
      BY <1>1, <2>1, SubSeqProperties
  <1> QED
    BY <1>1, <1>2, <1>3 DEF Fits

LEMMA NoneFits == \A S : Fits(<<>>, S)
  BY EmptySeq, ConstantTypes DEF Fits

LEMMA SomeAnswered ==
    ASSUME TInv, NEW results \in Seq(ToNetd), Answers(results)
    PROVE  Fits(toNetd, ToNetd)'
  <1>1. Fits(toNetd', ToNetd)
    BY SentFits DEF TInv, SocketTypes, Answers
  <1> QED
    BY <1>1 DEF Fits

LEMMA OneAnswered ==
    ASSUME TInv, NEW id \in Id, NEW status \in Statuses, NEW rev \in Nat,
           Answers(<<Answer(id, status, rev)>>)
    PROVE  Fits(toNetd, ToNetd)'
  <1> DEFINE r == Answer(id, status, rev)
  <1>1. r \in ToNetd
    BY ConstantTypes DEF ToNetd, Answer, TInv, SupervisorTypes
  <1> HIDE DEF r
  <1>2. <<r>> \in Seq(ToNetd)
    BY <1>1
  <1>3. Answers(<<r>>)
    BY DEF r
  <1> QED
    BY <1>2, <1>3, SomeAnswered

-----------------------------------------------------------------------------
(* Every step keeps the types *)

LEMMA ClientTyped ==
    ASSUME TInv, NEW c \in Commands, Submit(c) \/ GivesUp(c)
    PROVE  TInv'
  <1> USE ConstantTypes
  <1>1. CASE GivesUp(c)
    <2>1. UNCHANGED <<tries, named, told, network, supervisor, renderer, sockets, done>>
          /\ conn' = [conn EXCEPT ![c] = NoId]
      BY <1>1 DEF GivesUp
    <2>2. ClientTypes'
      BY <2>1 DEF TInv, ClientTypes
    <2> QED
      BY <2>1, <2>2 DEF TInv, NetdTypes, SupervisorTypes, RendererTypes, SocketTypes, Fits, network,
         supervisor, renderer, sockets
  <1>2. CASE Submit(c)
    <2> DEFINE id == IF c \in Minted THEN <<"high", minted'>> ELSE OwnId[c]
               p == [cmd |-> c, id |-> id, epoch |-> named'[c]]
    <2>1. /\ UNCHANGED <<told, netd, netds, supervisor, renderer, toNetd, toRen, fromRen, done>>
          /\ minted' = minted + 1 /\ minted \in Nat
          /\ tries' = [tries EXCEPT ![c] = @ + 1]
          /\ tries[c] < IF c \in Minted THEN 1 ELSE MaxTries
          /\ \E seen \in 0..shownEpoch :
               named' = IF c \in Guarded /\ tries[c] = 0 THEN [named EXCEPT ![c] = seen] ELSE named
          /\ \/ UNCHANGED <<toSup, conn>>
             \/ /\ HasRoom(toSup) /\ toSup' = Append(toSup, p)
                /\ conn' = [conn EXCEPT ![c] = id]
      BY <1>2 DEF Submit, TInv, NetdTypes
    <2>2. id \in Id
      BY <2>1 DEF Id, Minted
    <2> HIDE DEF id
    <2>3. tries' \in [Commands -> 0..MaxTries \cup {1}]
      <3>1. tries[c] + 1 \in 0..MaxTries \cup {1}
        BY <2>1 DEF TInv, ClientTypes
      <3> QED
        BY <2>1, <3>1 DEF TInv, ClientTypes
    <2>4. named' \in [Commands -> 0..MaxEpoch]
      <3>1. 0..shownEpoch \subseteq 0..MaxEpoch
        BY DEF TInv, SupervisorTypes
      <3> QED
        BY <2>1, <3>1 DEF TInv, ClientTypes
    <2>5. conn' \in [Commands -> Id \cup {NoId}]
      BY <2>1, <2>2 DEF TInv, ClientTypes
    <2>6. ClientTypes' /\ NetdTypes'
      BY <2>1, <2>3, <2>4, <2>5 DEF TInv, ClientTypes, NetdTypes
    <2>7. p \in Command
      BY <2>2, <2>4 DEF Command, Senders
    <2> HIDE DEF p
    <2>8. Fits(toSup', Command)
      <3>1. Fits(toSup, Command) /\ (toSup' = toSup \/ (HasRoom(toSup) /\ toSup' = Append(toSup, p)))
        BY <2>1 DEF TInv, SocketTypes
      <3> QED
        BY <2>7, <3>1, OneMoreFits
    <2> QED
      BY <2>1, <2>6, <2>8 DEF TInv, SupervisorTypes, RendererTypes, SocketTypes, Fits, supervisor,
         renderer
  <1> QED
    BY <1>1, <1>2

LEMMA NetdTyped ==
    ASSUME TInv, NetdReads \/ NetdDies \/ SpawnNetd \/ ReapNetd
    PROVE  TInv'
  <1> USE ConstantTypes
  <1>1. CASE NetdReads
    <2> DEFINE p == Head(toNetd)
    <2>1. /\ UNCHANGED <<tries, named, network, supervisor, renderer, toSup, toRen, fromRen, done>>
          /\ toNetd # <<>> /\ toNetd' = Tail(toNetd)
          /\ \/ UNCHANGED <<conn, told>>
             \/ \E c \in Commands :
                  /\ conn' = [conn EXCEPT ![c] = NoId]
                  /\ told' = IF p.status \notin Decided THEN told
                             ELSE told \cup {[cmd |-> c, epoch |-> p.epoch, status |-> p.status,
                                              revision |-> p.revision]}
      BY <1>1 DEF NetdReads
    <2>2. Fits(toNetd', ToNetd) /\ p \in ToNetd
      BY <2>1, OneLessFits DEF TInv, SocketTypes
    <2> HIDE DEF p
    <2>3. conn' \in [Commands -> Id \cup {NoId}]
      BY <2>1 DEF TInv, ClientTypes
    <2>4. told' \subseteq Outcome
      BY <2>1, <2>2 DEF TInv, ClientTypes, Outcome, Senders, ToNetd
    <2>5. ClientTypes'
      BY <2>1, <2>3, <2>4 DEF TInv, ClientTypes
    <2>6. NetdTypes' /\ SupervisorTypes' /\ RendererTypes'
      BY <2>1 DEF TInv, NetdTypes, SupervisorTypes, RendererTypes, network, supervisor, renderer
    <2>7. SocketTypes'
      BY <2>1, <2>2 DEF TInv, SocketTypes, Fits
    <2> QED
      BY <2>5, <2>6, <2>7 DEF TInv
  <1>2. CASE NetdDies
    <2>1. /\ UNCHANGED <<tries, named, told, minted, supervisor, renderer, sockets, done>>
          /\ netds < MaxNetd /\ netd' = "dead" /\ netds' = netds + 1
          /\ conn' = [c \in Commands |-> NoId]
      BY <1>2 DEF NetdDies
    <2>2. ClientTypes' /\ NetdTypes'
      BY <2>1 DEF TInv, ClientTypes, NetdTypes
    <2> QED
      BY <2>1, <2>2 DEF TInv, SupervisorTypes, RendererTypes, SocketTypes, Fits, supervisor,
         renderer, sockets
  <1>3. CASE SpawnNetd
    BY <1>3 DEF SpawnNetd, TInv, ClientTypes, NetdTypes, SupervisorTypes, RendererTypes, SocketTypes,
       Fits, clients, supervisor, renderer, sockets
  <1>4. CASE ReapNetd
    <2>1. /\ UNCHANGED <<clients, minted, netds, life, epoch, ownSeq, ntfySeq, shownEpoch, renderer,
                         toRen, fromRen, done>>
          /\ netd' = "none" /\ toSup' = <<>> /\ toNetd' = <<>> /\ relays' = NoRelays
      BY <1>4 DEF ReapNetd
    <2>2. Fits(toSup', Command) /\ Fits(toNetd', ToNetd)
      BY <2>1, NoneFits
    <2> QED
      BY <2>1, <2>2 DEF TInv, ClientTypes, NetdTypes, SupervisorTypes, RendererTypes, SocketTypes,
         Fits, clients, renderer, NoRelays, Relays
  <1> QED
    BY <1>1, <1>2, <1>3, <1>4

LEMMA RelayTyped ==
    ASSUME TInv, Relay
    PROVE  TInv'
  <1> USE ConstantTypes
  <1> DEFINE p == Head(toSup)
  <1>1. /\ UNCHANGED <<clients, network, life, epoch, ownSeq, ntfySeq, shownEpoch, renderer, fromRen,
                       done>>
        /\ toSup # <<>> /\ toSup' = Tail(toSup)
        /\ \/ /\ Answers(<<Refusal(p.id, "unavailable")>>)
              /\ UNCHANGED <<relays, toRen>>
           \/ /\ Answers(<<Refusal(p.id, "overload")>>)
              /\ UNCHANGED <<relays, toRen>>
           \/ /\ FreeSlots # {} /\ HasRoom(toRen)
              /\ toRen' = Append(toRen, [p EXCEPT !.epoch = EpochFor(@)])
              /\ relays' = [relays EXCEPT ![FirstFree] = [id |-> p.id, ntfy |-> FALSE]]
              /\ UNCHANGED toNetd
    BY DEF Relay, Reaches
  <1>2. Fits(toSup', Command) /\ p \in Command
    BY <1>1, OneLessFits DEF TInv, SocketTypes
  <1> HIDE DEF p
  <1>3. Fits(toNetd', ToNetd) /\ Fits(toRen', Command) /\ relays' \in [1..RelayMax -> Relays]
    <2>1. CASE \E status \in {"unavailable", "overload"} :
                 Answers(<<Refusal(p.id, status)>>) /\ UNCHANGED <<relays, toRen>>
      <3>1. PICK status \in {"unavailable", "overload"} :
                 Answers(<<Refusal(p.id, status)>>) /\ UNCHANGED <<relays, toRen>>
        BY <2>1
      <3>2. Answers(<<Answer(p.id, status, 0)>>) /\ p.id \in Id /\ status \in Statuses
        BY <1>2, <3>1 DEF Refusal, Command, Statuses
      <3>3. Fits(toNetd, ToNetd)'
        BY <3>2, OneAnswered
      <3> QED
        BY <3>1, <3>3 DEF TInv, SocketTypes, SupervisorTypes, Fits
    <2>2. CASE /\ FreeSlots # {} /\ HasRoom(toRen)
               /\ toRen' = Append(toRen, [p EXCEPT !.epoch = EpochFor(@)])
               /\ relays' = [relays EXCEPT ![FirstFree] = [id |-> p.id, ntfy |-> FALSE]]
               /\ UNCHANGED toNetd
      <3> DEFINE q == [p EXCEPT !.epoch = EpochFor(@)]
      <3>1. EpochFor(p.epoch) \in Nat
        BY <1>2 DEF EpochFor, Command, TInv, SupervisorTypes
      <3>2. q \in Command
        BY <1>2, <3>1 DEF Command
      <3> HIDE DEF q
      <3>3. Fits(toRen', Command)
        BY <2>2, <3>2, OneMoreFits DEF TInv, SocketTypes, q
      <3>4. [id |-> p.id, ntfy |-> FALSE] \in Relays
        BY <1>2 DEF Command, Relays
      <3>5. relays' \in [1..RelayMax -> Relays]
        BY <2>2, <3>4 DEF TInv, SupervisorTypes
      <3> QED
        BY <2>2, <3>3, <3>5 DEF TInv, SocketTypes, Fits
    <2> QED
      BY <1>1, <2>1, <2>2
  <1> QED
    BY <1>1, <1>2, <1>3 DEF TInv, ClientTypes, NetdTypes, SupervisorTypes, RendererTypes, SocketTypes,
       Fits, clients, network, renderer

LEMMA NtfyTyped ==
    ASSUME TInv, RelayNtfy
    PROVE  TInv'
  <1> USE ConstantTypes
  <1> DEFINE p == [cmd |-> "ntfy", id |-> NtfyId, epoch |-> epoch]
  <1>1. /\ UNCHANGED <<clients, network, life, epoch, ownSeq, shownEpoch, renderer, toSup, toNetd,
                       fromRen, done>>
        /\ ntfySeq < MaxNtfy /\ ntfySeq' = ntfySeq + 1
        /\ \/ UNCHANGED <<toRen, relays>>
           \/ /\ FreeSlots # {} /\ HasRoom(toRen)
              /\ toRen' = Append(toRen, p)
              /\ relays' = [relays EXCEPT ![FirstFree] = [id |-> NtfyId, ntfy |-> TRUE]]
    BY DEF RelayNtfy, Reaches
  <1>2. NtfyId \in Id /\ epoch \in Nat
    BY DEF NtfyId, Id, TInv, SupervisorTypes
  <1>3. p \in Command /\ [id |-> NtfyId, ntfy |-> TRUE] \in Relays
    BY <1>2 DEF Command, Senders, Relays
  <1> HIDE DEF p
  <1>4. Fits(toRen', Command)
    <2>1. Fits(toRen, Command) /\ (toRen' = toRen \/ (HasRoom(toRen) /\ toRen' = Append(toRen, p)))
      BY <1>1 DEF TInv, SocketTypes
    <2> QED
      BY <1>3, <2>1, OneMoreFits
  <1>5. relays' \in [1..RelayMax -> Relays]
    BY <1>1, <1>3 DEF TInv, SupervisorTypes
  <1>6. SupervisorTypes'
    BY <1>1, <1>5 DEF TInv, SupervisorTypes
  <1>7. SocketTypes'
    BY <1>1, <1>4 DEF TInv, SocketTypes, Fits
  <1> QED
    BY <1>1, <1>6, <1>7 DEF TInv, ClientTypes, NetdTypes, RendererTypes, clients, network, renderer

LEMMA RendererRead ==
    ASSUME TInv, ReadRenderer
    PROVE  TInv'
  <1> USE ConstantTypes
  <1> DEFINE p == Head(fromRen)
  <1>1. /\ UNCHANGED <<clients, network, epoch, ntfySeq, renderer, toSup, done>>
        /\ fromRen # <<>> /\ fromRen' = Tail(fromRen)
        /\ \/ /\ life' = IF life = "starting" THEN "running" ELSE life
              /\ ownSeq' = ownSeq + Pushes
              /\ toRen' = IF Alive THEN Sent(toRen, PushCommands) ELSE toRen
              /\ shownEpoch' = epoch
              /\ relays' = NoRelays
              /\ UNCHANGED toNetd
           \/ /\ p.status # "ready"
              /\ \/ UNCHANGED <<relays, toNetd>>
                 \/ /\ \E s \in 1..RelayMax \cup {CHOOSE s \in Ids(p.id) : \A t \in Ids(p.id) : s <= t} :
                          relays' = [relays EXCEPT ![s] = NoRelay]
                    /\ UNCHANGED toNetd \/ Answers(<<Answer(p.id, p.status, p.revision)>>)
              /\ UNCHANGED <<life, ownSeq, toRen, shownEpoch>>
    BY DEF ReadRenderer
  <1>2. Fits(fromRen', Result \cup {Ready}) /\ p \in Result \cup {Ready}
    BY <1>1, OneLessFits DEF TInv, SocketTypes
  <1>3. p.status # "ready" => p.id \in Id /\ p.status \in Statuses /\ p.revision \in Nat
    BY <1>2 DEF Result, Ready
  <1> HIDE DEF p
  <1>4. Fits(toNetd', ToNetd)
    <2>1. CASE p.status # "ready" /\ Answers(<<Answer(p.id, p.status, p.revision)>>)
      <3>1. Fits(toNetd, ToNetd)'
        BY <1>3, <2>1, OneAnswered
      <3> QED
        BY <3>1 DEF Fits
    <2>2. CASE UNCHANGED toNetd
      BY <2>2 DEF TInv, SocketTypes
    <2> QED
      BY <1>1, <2>1, <2>2
  <1>5. Fits(toRen', Command)
    <2>1. PushCommands \in Seq(Command)
      <3>1. \A i \in 1..Pushes :
                [cmd |-> "push", id |-> <<"low", ownSeq + i>>, epoch |-> epoch] \in Command
        BY DEF Command, Senders, Id, TInv, SupervisorTypes
      <3>2. PushCommands \in [1..Pushes -> Command]
        BY <3>1 DEF PushCommands
      <3> QED
        BY <3>2, SeqDef
    <2> QED
      BY <1>1, <2>1, SentFits DEF TInv, SocketTypes
  <1>6. relays' \in [1..RelayMax -> Relays]
    BY <1>1 DEF TInv, SupervisorTypes, NoRelays, Relays
  <1>7. SupervisorTypes'
    BY <1>1, <1>6 DEF TInv, SupervisorTypes
  <1> QED
    BY <1>1, <1>2, <1>4, <1>5, <1>7 DEF TInv, ClientTypes, NetdTypes, RendererTypes, SocketTypes,
       Fits, clients, network, renderer

\* reap takes the relays in flight one by one: there is a first, a second, and so on
\* to as many as there are.
LEMMA NthInFlight ==
    /\ Cardinality(InFlight) \in Nat
    /\ \A i \in 1..Cardinality(InFlight) :
          \E s \in InFlight : Cardinality({t \in InFlight : t < s}) = i - 1
  <1> DEFINE S == InFlight
             Below(s) == {t \in S : t < s}
             n == Cardinality(S)
             rank == [s \in S |-> Cardinality(Below(s)) + 1]
  <1>1. S \subseteq 1..RelayMax /\ RelayMax \in Nat
    BY ConstantTypes DEF InFlight
  <1>2. IsFiniteSet(S) /\ n \in Nat
    <2>1. IsFiniteSet(1..RelayMax)
      BY <1>1, FS_Interval
    <2> HIDE DEF S
    <2>2. IsFiniteSet(S)
      BY <1>1, <2>1, FS_Subset
    <2> QED
      BY <2>2, FS_CardinalityType
  <1>3. \A s \in S : /\ Below(s) \subseteq S /\ s \notin Below(s)
                     /\ \A t \in S : s < t => Below(s) \subseteq Below(t) /\ s \in Below(t)
    <2>1. \A s \in S : s \in Nat
      BY <1>1
    <2> HIDE DEF S
    <2> QED
      BY <2>1
  <1> HIDE DEF S
  <1>4. \A s \in S : IsFiniteSet(Below(s)) /\ Cardinality(Below(s)) \in Nat /\ Cardinality(Below(s)) < n
    <2> TAKE s \in S
    <2>1. Below(s) \subseteq S /\ Below(s) # S
      BY <1>3
    <2> HIDE DEF Below
    <2>2. IsFiniteSet(Below(s)) /\ Cardinality(Below(s)) <= n /\ Cardinality(Below(s)) # n
      BY <1>2, <2>1, FS_Subset
    <2>3. Cardinality(Below(s)) \in Nat
      BY <2>2, FS_CardinalityType
    <2> QED
      BY <1>2, <2>2, <2>3
  <1>5. \A s, t \in S : s < t => Cardinality(Below(s)) < Cardinality(Below(t))
    <2> TAKE s, t \in S
    <2>1. SUFFICES ASSUME s < t PROVE Cardinality(Below(s)) < Cardinality(Below(t))
      OBVIOUS
    <2>2. Below(s) \subseteq Below(t) /\ Below(s) # Below(t)
      BY <1>3, <2>1
    <2> HIDE DEF Below
    <2>3. Cardinality(Below(s)) <= Cardinality(Below(t)) /\ Cardinality(Below(s)) # Cardinality(Below(t))
      BY <1>4, <2>2, FS_Subset
    <2> QED
      BY <1>4, <2>3
  <1>6. rank \in Injection(S, 1..n)
    <2> HIDE DEF Below, n
    <2>1. rank \in [S -> 1..n]
      BY <1>2, <1>4
    <2>2. \A s, t \in S : s = t \/ s < t \/ t < s
      BY <1>1 DEF S
    <2>3. \A s, t \in S : rank[s] = rank[t] => s = t
      BY <1>4, <1>5, <2>2
    <2> QED
      BY <2>1, <2>3 DEF Injection, IsInjective
  <1>7. IsFiniteSet(1..n) /\ Cardinality(1..n) = n
    BY <1>2, FS_Interval
  <1>8. rank \in Surjection(S, 1..n)
    <2> DEFINE T == 1..n
    <2>1. rank \in Injection(S, T) /\ IsFiniteSet(T) /\ Cardinality(S) = Cardinality(T)
      BY <1>6, <1>7
    <2> HIDE DEF T, rank
    <2>2. rank \in Surjection(S, T)
      BY <2>1, FS_Injection
    <2> QED
      BY <2>2 DEF T
  <1>9. \A i \in 1..n : \E s \in S : Cardinality(Below(s)) = i - 1
    <2> TAKE i \in 1..n
    <2>1. PICK s \in S : rank[s] = i
      BY <1>8 DEF Surjection
    <2> HIDE DEF Below, n
    <2>2. Cardinality(Below(s)) + 1 = i
      BY <2>1
    <2> QED
      BY <1>2, <1>4, <2>2
  <1> QED
    BY <1>2, <1>9 DEF S

LEMMA ReapTyped ==
    ASSUME TInv, Reap
    PROVE  TInv'
  <1> USE ConstantTypes
  <1> DEFINE nth(i) == CHOOSE s \in InFlight : Cardinality({t \in InFlight : t < s}) = i - 1
             results == [i \in 1..Cardinality(InFlight) |-> Refusal(relays[nth(i)].id, "unavailable")]
  <1>1. /\ UNCHANGED <<clients, network, epoch, ownSeq, ntfySeq, shownEpoch, renderer, toSup, done>>
        /\ life' = "none" /\ toRen' = <<>> /\ fromRen' = <<>> /\ relays' = NoRelays
        /\ Answers(results)
    BY DEF Reap, AnsweredByReap
  <1>2. \A i \in 1..Cardinality(InFlight) : nth(i) \in InFlight
    BY NthInFlight
  <1> HIDE DEF nth
  <1>3. \A s \in InFlight : relays[s].id \in Id
    <2>1. \A s \in InFlight : s \in 1..RelayMax /\ relays[s] # NoRelay
      BY DEF InFlight, FreeSlots
    <2> QED
      BY <2>1 DEF TInv, SupervisorTypes, Relays
  <1>4. \A i \in 1..Cardinality(InFlight) : Refusal(relays[nth(i)].id, "unavailable") \in ToNetd
    BY <1>2, <1>3 DEF Refusal, Answer, ToNetd, Statuses, TInv, SupervisorTypes
  <1>5. results \in Seq(ToNetd)
    <2> DEFINE n == Cardinality(InFlight)
    <2>1. n \in Nat
      BY NthInFlight
    <2>2. results \in [1..n -> ToNetd]
      BY <1>4
    <2> HIDE DEF n, results
    <2> QED
      BY <2>1, <2>2, SeqDef
  <1> HIDE DEF results
  <1>6. Fits(toNetd, ToNetd)'
    BY <1>1, <1>5, SomeAnswered
  <1>7. Fits(toRen', Command) /\ Fits(fromRen', Result \cup {Ready})
    BY <1>1, NoneFits
  <1> QED
    BY <1>1, <1>6, <1>7 DEF TInv, ClientTypes, NetdTypes, SupervisorTypes, RendererTypes, SocketTypes,
       Fits, clients, network, renderer, NoRelays, Relays

LEMMA SupervisorTyped ==
    ASSUME TInv, RequestStop \/ Spawn \/ \E s \in 1..RelayMax : ExpireRelay(s)
    PROVE  TInv'
  <1> USE ConstantTypes
  <1>1. CASE RequestStop
    BY <1>1 DEF RequestStop, TInv, ClientTypes, NetdTypes, SupervisorTypes, RendererTypes,
       SocketTypes, Fits, clients, network, renderer, sockets
  <1>2. CASE Spawn
    <2>1. /\ UNCHANGED <<clients, network, ownSeq, ntfySeq, relays, shownEpoch, sockets, done>>
          /\ epoch < MaxEpoch /\ life' = "starting" /\ epoch' = epoch + 1
          /\ process' = "booting" /\ revision' = 0 /\ window' = {}
      BY <1>2 DEF Spawn
    <2>2. RendererTypes'
      BY <2>1, FS_EmptySet DEF TInv, RendererTypes
    <2>3. SupervisorTypes'
      BY <2>1 DEF TInv, SupervisorTypes
    <2> QED
      BY <2>1, <2>2, <2>3 DEF TInv, ClientTypes, NetdTypes, SocketTypes, Fits, clients, network,
         sockets
  <1>3. ASSUME NEW s \in 1..RelayMax, ExpireRelay(s)
        PROVE  TInv'
    <2>1. /\ UNCHANGED <<clients, network, life, epoch, ownSeq, ntfySeq, shownEpoch, renderer, toSup,
                         toRen, fromRen, done>>
          /\ relays[s] # NoRelay /\ relays' = [relays EXCEPT ![s] = NoRelay]
          /\ Answers(<<Answer(relays[s].id, "timeout", 0)>>)
      BY <1>3 DEF ExpireRelay, Refusal
    <2>2. relays[s].id \in Id /\ "timeout" \in Statuses
      BY <2>1 DEF TInv, SupervisorTypes, Relays, Statuses
    <2>3. Fits(toNetd, ToNetd)'
      BY <2>1, <2>2, OneAnswered
    <2>4. SupervisorTypes'
      BY <2>1 DEF TInv, SupervisorTypes, Relays
    <2>5. SocketTypes'
      BY <2>1, <2>3 DEF TInv, SocketTypes, Fits
    <2> QED
      BY <2>1, <2>4, <2>5 DEF TInv, ClientTypes, NetdTypes, RendererTypes, clients, network, renderer
  <1> QED
    BY <1>1, <1>2, <1>3

LEMMA Replied ==
    ASSUME TInv, NEW id \in Id, NEW status \in Statuses, NEW rev \in Nat, Reply(id, status, rev)
    PROVE  Fits(fromRen', Result \cup {Ready})
  <1> DEFINE r == [id |-> id, status |-> status, revision |-> rev]
  <1>1. r \in Result \cup {Ready} /\ fromRen' = Sent(fromRen, <<r>>)
    BY DEF Result, Reply
  <1> HIDE DEF r
  <1>2. <<r>> \in Seq(Result \cup {Ready})
    BY <1>1
  <1> QED
    BY <1>1, <1>2, SentFits DEF TInv, SocketTypes

LEMMA HandleTyped ==
    ASSUME TInv, Handle
    PROVE  TInv'
  <1> USE ConstantTypes
  <1> DEFINE p == Head(toRen)
             known == {e \in window : e.id = p.id}
  <1>1. /\ UNCHANGED <<clients, network, supervisor, process, toSup, toNetd>>
        /\ toRen # <<>> /\ toRen' = Tail(toRen)
        /\ \/ /\ \E status \in {"stale_epoch", "overload"} : Reply(p.id, status, revision)
              /\ UNCHANGED <<revision, window, done>>
           \/ /\ \E e \in known : Reply(p.id, e.status, e.revision)
              /\ UNCHANGED <<revision, window, done>>
           \/ /\ CanRemember
              /\ \E status \in Decided :
                   /\ revision' = IF status = "applied" THEN revision + 1 ELSE revision
                   /\ window' = IF Cardinality(window) = WindowMax THEN window
                                ELSE window \cup {[id |-> p.id, status |-> status,
                                                   revision |-> revision']}
                   /\ done' = done \cup {[cmd |-> p.cmd, epoch |-> epoch, status |-> status,
                                          revision |-> revision']}
                   /\ Reply(p.id, status, revision')
    BY DEF Handle
  <1>2. Fits(toRen', Command) /\ p \in Command
    BY <1>1, OneLessFits DEF TInv, SocketTypes
  <1>3. p.id \in Id /\ p.cmd \in Senders
    BY <1>2 DEF Command
  <1>4. /\ revision \in Nat /\ epoch \in Nat /\ window \subseteq Result
        /\ \A e \in known : e.status \in Statuses /\ e.revision \in Nat
    BY DEF TInv, RendererTypes, SupervisorTypes, Result
  <1> HIDE DEF p, known
  <1>5. RendererTypes' /\ Fits(fromRen', Result \cup {Ready})
    <2>1. ASSUME NEW status \in {"stale_epoch", "overload"}, Reply(p.id, status, revision),
                 UNCHANGED <<revision, window, done>>
          PROVE  RendererTypes' /\ Fits(fromRen', Result \cup {Ready})
      <3>1. status \in Statuses
        BY DEF Statuses
      <3> QED
        BY <1>1, <1>3, <1>4, <2>1, <3>1, Replied DEF TInv, RendererTypes
    <2>2. ASSUME NEW e \in known, Reply(p.id, e.status, e.revision),
                 UNCHANGED <<revision, window, done>>
          PROVE  RendererTypes' /\ Fits(fromRen', Result \cup {Ready})
      BY <1>1, <1>3, <1>4, <2>2, Replied DEF TInv, RendererTypes
    <2>3. ASSUME CanRemember, NEW status \in Decided,
                 revision' = IF status = "applied" THEN revision + 1 ELSE revision,
                 window' = IF Cardinality(window) = WindowMax THEN window
                           ELSE window \cup {[id |-> p.id, status |-> status, revision |-> revision']},
                 done' = done \cup {[cmd |-> p.cmd, epoch |-> epoch, status |-> status,
                                     revision |-> revision']},
                 Reply(p.id, status, revision')
          PROVE  RendererTypes' /\ Fits(fromRen', Result \cup {Ready})
      <3> DEFINE e == [id |-> p.id, status |-> status, revision |-> revision']
                 d == [cmd |-> p.cmd, epoch |-> epoch, status |-> status, revision |-> revision']
      <3>1. revision' \in Nat /\ status \in Statuses
        BY <1>4, <2>3 DEF Statuses
      <3>2. e \in Result /\ d \in Outcome
        BY <1>3, <1>4, <3>1 DEF Result, Outcome
      <3>3. done' = done \cup {d} /\ (window' = window \/ window' = window \cup {e})
        BY <2>3
      <3> HIDE DEF e, d
      <3>4. /\ IsFiniteSet(window') /\ Cardinality(window') <= WindowMax
            /\ window' \subseteq Result /\ done' \subseteq Outcome
        <4>1. /\ IsFiniteSet(window) /\ Cardinality(window) \in Nat /\ Cardinality(window) < WindowMax
              /\ window \subseteq Result /\ done \subseteq Outcome
          BY <2>3, FS_CardinalityType DEF TInv, RendererTypes, CanRemember
        <4>2. IsFiniteSet(window \cup {e}) /\ Cardinality(window \cup {e}) <= Cardinality(window) + 1
          BY <4>1, FS_AddElement
        <4>3. Cardinality(window \cup {e}) \in Nat
          BY <4>2, FS_CardinalityType
        <4> QED
          BY <3>2, <3>3, <4>1, <4>2, <4>3
      <3>5. Fits(fromRen', Result \cup {Ready})
        BY <1>3, <2>3, <3>1, Replied
      <3> QED
        BY <1>1, <3>1, <3>4, <3>5 DEF TInv, RendererTypes
    <2> QED
      BY <1>1, <2>1, <2>2, <2>3
  <1> QED
    BY <1>1, <1>2, <1>5 DEF TInv, ClientTypes, NetdTypes, SupervisorTypes, SocketTypes, Fits, clients,
       network, supervisor

LEMMA RendererTyped ==
    ASSUME TInv, SendReady \/ Forget \/ RendererDies
    PROVE  TInv'
  <1> USE ConstantTypes
  <1>1. CASE SendReady
    <2>1. /\ UNCHANGED <<clients, network, supervisor, revision, window, toSup, toNetd, toRen, done>>
          /\ process' = "up" /\ fromRen' = Sent(fromRen, <<Ready>>)
      BY <1>1 DEF SendReady
    <2>2. <<Ready>> \in Seq(Result \cup {Ready})
      OBVIOUS
    <2>3. Fits(fromRen', Result \cup {Ready})
      BY <2>1, <2>2, SentFits DEF TInv, SocketTypes
    <2> QED
      BY <2>1, <2>3 DEF TInv, ClientTypes, NetdTypes, SupervisorTypes, RendererTypes, SocketTypes,
         Fits, clients, network, supervisor
  <1>2. CASE Forget
    <2>1. /\ UNCHANGED <<clients, network, supervisor, process, revision, sockets, done>>
          /\ window' \in SUBSET window
      BY <1>2 DEF Forget
    <2>2. /\ IsFiniteSet(window') /\ Cardinality(window') <= Cardinality(window)
          /\ Cardinality(window) \in Nat /\ Cardinality(window') \in Nat
      BY <2>1, FS_Subset, FS_CardinalityType DEF TInv, RendererTypes
    <2>3. RendererTypes'
      BY <2>1, <2>2 DEF TInv, RendererTypes
    <2> QED
      BY <2>1, <2>3 DEF TInv, ClientTypes, NetdTypes, SupervisorTypes, SocketTypes, Fits, clients,
         network, supervisor, sockets
  <1>3. CASE RendererDies
    BY <1>3 DEF RendererDies, TInv, ClientTypes, NetdTypes, SupervisorTypes, RendererTypes,
       SocketTypes, Fits, clients, network, supervisor, sockets
  <1> QED
    BY <1>1, <1>2, <1>3

LEMMA TypesStep == TInv /\ [Next]_vars => TInv'
  <1> SUFFICES ASSUME TInv, [Next]_vars PROVE TInv'
    OBVIOUS
  <1>1. CASE UNCHANGED vars
    BY <1>1 DEF vars, TInv, ClientTypes, NetdTypes, SupervisorTypes, RendererTypes, SocketTypes, Fits,
       clients, network, supervisor, renderer, sockets
  <1>2. CASE Next
    BY <1>2, ClientTyped, NetdTyped, RelayTyped, NtfyTyped, RendererRead, ReapTyped, SupervisorTyped,
       HandleTyped, RendererTyped DEF Next
  <1> QED
    BY <1>1, <1>2

\* Sockets, the table of relays and the window of ids stay within their sizes, whatever is
\* sent without waiting (sendNetd, relayResult, reap's answers to every relay, Cache), and
\* no packet, result or outcome is of another kind than its reader takes it for.
THEOREM TypeCorrect == Spec => []TypeOK
  BY TypesStart, TypesStep, TInvSuffices, PTL DEF Spec
=============================================================================
