----------------------------- MODULE CommandRelay -----------------------------
(***************************************************************************)
(* A discrete command on its way from an http client through netd and the  *)
(* supervisor to the renderer, and its result on the way back: request     *)
(* ids, epochs, the supervisor's table of relays, the renderer's window of *)
(* completed ids, over packet sockets whose sends never wait (a full       *)
(* socket loses the packet), with netd and the renderer dying at any point *)
(* and being started again.                                                *)
(*                                                                         *)
(* Time is left out: a relay or a connection may time out at any moment.   *)
(* What the renderer does with a command is Arbiter's; what is kept of it  *)
(* is whether it was applied or rejected, and the revision.                *)
(***************************************************************************)
EXTENDS Integers, Sequences, FiniteSets, SequencesExt

CONSTANTS
    Commands,     \* what clients want done, each one command
    OwnId,        \* [those whose client sends a request_id -> that id]
    Guarded,      \* those whose client sends the epoch it read from /status
    SocketRoom,   \* packets a socket holds
    RelayMax,     \* slots in the supervisor's table (32)
    WindowMax,    \* completed ids the renderer remembers (128)
    Pushes,       \* commands of its own the supervisor sends when one is ready
    MaxTries,     \* bound: deliveries of a command with an id of its own
    MaxEpoch,     \* bound: renderers started
    MaxNetd,      \* bound: netd restarts
    MaxNtfy       \* bound: notifications arriving over ntfy

\* The 64-bit id space: the half with the top bit, and the one without.
Id     == {"high", "low"} \X (Nat \ {0})
NoId   == <<"none", 0>>
Minted == Commands \ DOMAIN OwnId

ASSUME CommandsAssumption ==
    /\ DOMAIN OwnId \subseteq Commands /\ OwnId \in [DOMAIN OwnId -> Id]
    /\ Guarded \subseteq Commands
    /\ "ntfy" \notin Commands /\ "push" \notin Commands
ASSUME BoundsAssumption ==
    /\ {SocketRoom, RelayMax, WindowMax} \subseteq Nat \ {0}
    /\ {Pushes, MaxTries, MaxEpoch, MaxNetd, MaxNtfy} \subseteq Nat

VARIABLES
    \* the clients, and netd's side of their connections
    tries,      \* requests sent for a command
    named,      \* the epoch a guarded command names: 0 for none
    conn,       \* the id its connection waits for
    told,       \* the outcomes clients were told
    \* netd
    netd,       \* "up", "dead" (not reaped), "none"
    minted,     \* next_id, from where this netd started
    netds,      \* netd restarts so far
    \* the supervisor
    life,       \* of the lifecycle: "none", "starting", "running", "stopping"
    epoch,
    ownSeq,     \* request_id: the last id of a push
    ntfySeq,
    relays,     \* [1..RelayMax -> NoRelay or a relay in flight]
    shownEpoch, \* snapshot.epoch: the epoch in /status
    \* the renderer
    process,    \* its process: "none" or gone, "booting", "up" (has been ready)
    revision,
    window,     \* completed ids: [id, status, revision]
    \* the sockets: packets sent and not read
    toSup, toNetd, toRen, fromRen,
    \* history: what renderers did, by command and epoch
    done

clients    == <<tries, named, conn, told>>
network    == <<netd, minted, netds>>
supervisor == <<life, epoch, ownSeq, ntfySeq, relays, shownEpoch>>
renderer   == <<process, revision, window>>
sockets    == <<toSup, toNetd, toRen, fromRen>>
vars       == <<clients, network, supervisor, renderer, sockets, done>>

Senders  == Commands \cup {"ntfy", "push"}
Decided  == {"applied", "rejected"}
Statuses == Decided \cup {"overload", "stale_epoch", "unavailable", "timeout"}

NoRelay == [id |-> NoId, ntfy |-> FALSE]
Command == [cmd : Senders, id : Id, epoch : Nat]
Result  == [id : Id, status : Statuses, revision : Nat]
Ready   == [id |-> NoId, status |-> "ready", revision |-> 0]
Outcome == [cmd : Senders, epoch : Nat, status : Decided, revision : Nat]

\* The variables, and what sockets, table and window may hold.
TypeOK ==
    /\ tries \in [Commands -> 0..MaxTries \cup {1}] /\ named \in [Commands -> 0..MaxEpoch]
    /\ conn \in [Commands -> Id \cup {NoId}]
    /\ told \subseteq Outcome /\ done \subseteq Outcome
    /\ netd \in {"up", "dead", "none"} /\ minted \in Nat /\ netds \in 0..MaxNetd
    /\ life \in {"none", "starting", "running", "stopping"} /\ epoch \in 0..MaxEpoch
    /\ ownSeq \in Nat /\ ntfySeq \in 0..MaxNtfy
    /\ relays \in [1..RelayMax -> {NoRelay} \cup [id : Id, ntfy : BOOLEAN]]
    /\ shownEpoch \in 0..MaxEpoch
    /\ process \in {"none", "booting", "up"} /\ revision \in Nat
    /\ window \subseteq Result /\ Cardinality(window) <= WindowMax
    /\ toSup \in Seq(Command) /\ toRen \in Seq(Command)
    /\ toNetd \in Seq([id : Id, status : Statuses, revision : Nat, epoch : Nat])
    /\ fromRen \in Seq(Result \cup {Ready})
    /\ \A socket \in {toSup, toRen, toNetd, fromRen} : Len(socket) <= SocketRoom

Init ==
    /\ tries = [c \in Commands |-> 0] /\ named = [c \in Commands |-> 0]
    /\ conn = [c \in Commands |-> NoId] /\ told = {}
    /\ netd = "up" /\ minted = 0 /\ netds = 0
    /\ life = "none" /\ epoch = 0 /\ ownSeq = 1 /\ ntfySeq = 0
    /\ relays = [s \in 1..RelayMax |-> NoRelay]
    /\ shownEpoch = 0
    /\ process = "none" /\ revision = 0 /\ window = {}
    /\ toSup = <<>> /\ toNetd = <<>> /\ toRen = <<>> /\ fromRen = <<>>
    /\ done = {}

-----------------------------------------------------------------------------
(* The sockets *)

\* what a socket holds after sends that do not wait
Sent(socket, packets) ==
    LET all == socket \o packets
    IN  IF Len(all) <= SocketRoom THEN all ELSE SubSeq(all, 1, SocketRoom)

HasRoom(socket) == Len(socket) < SocketRoom

\* relayResult and sendNetd: the packet carries the lifecycle's epoch, and is
\* lost when no netd is behind the socket
Answers(results) ==
    toNetd' = IF netd = "up" THEN Sent(toNetd, results) ELSE toNetd

Answer(id, status, rev) ==
    [id |-> id, status |-> status, revision |-> rev, epoch |-> epoch]

\* an answer that is the supervisor's own; its revision tells nobody anything
Refusal(id, status) == Answer(id, status, 0)

-----------------------------------------------------------------------------
(* Clients and netd *)

\* dispatch and relay: every request costs an id, a request that brings its own
\* included.  A guarded command names an epoch its client read in /status before
\* the first try, the latest or an older one; 0, from before the first renderer
\* was ready, means whichever runs.
Submit(c) ==
    /\ netd = "up" /\ conn[c] = NoId
    /\ tries[c] < IF c \in Minted THEN 1 ELSE MaxTries
    /\ tries' = [tries EXCEPT ![c] = @ + 1]
    /\ minted' = minted + 1
    /\ \E seen \in 0..shownEpoch :
         named' = IF c \in Guarded /\ tries[c] = 0 THEN [named EXCEPT ![c] = seen] ELSE named
    /\ LET id == IF c \in Minted THEN <<"high", minted'>> ELSE OwnId[c]
       IN  IF HasRoom(toSup)
           THEN /\ toSup' = Append(toSup, [cmd |-> c, id |-> id, epoch |-> named'[c]])
                /\ conn' = [conn EXCEPT ![c] = id]
           ELSE UNCHANGED <<toSup, conn>>            \* 503 at once
    /\ UNCHANGED <<told, netd, netds, supervisor, renderer, toNetd, toRen, fromRen, done>>

\* mutant: the answer goes to the oldest connection that waits
AnyWaiting(c, id) == conn[c] # NoId

\* findConn
Waits(c, id) == conn[c] = id

\* drainSupervisor and onResult: nobody may be waiting any more.  What is told
\* is kept with the epoch in the answer's header, the one it was decided in; the
\* epoch in the http body is that of netd's last status, and left out.
NetdReads ==
    /\ netd = "up" /\ toNetd # <<>>
    /\ toNetd' = Tail(toNetd)
    /\ LET p == Head(toNetd) IN
       \/ /\ ~\E c \in Commands : Waits(c, p.id)
          /\ UNCHANGED <<conn, told>>
       \/ \E c \in Commands :
            /\ Waits(c, p.id)
            /\ conn' = [conn EXCEPT ![c] = NoId]
            /\ told' = IF p.status \notin Decided THEN told
                       ELSE told \cup {[cmd |-> c, epoch |-> p.epoch, status |-> p.status,
                                        revision |-> p.revision]}
    /\ UNCHANGED <<tries, named, network, supervisor, renderer, toSup, toRen, fromRen, done>>

\* tick: 504, or the client hung up
GivesUp(c) ==
    /\ conn[c] # NoId
    /\ conn' = [conn EXCEPT ![c] = NoId]
    /\ UNCHANGED <<tries, named, told, network, supervisor, renderer, sockets, done>>

NetdDies ==
    /\ netd = "up" /\ netds < MaxNetd
    /\ netd' = "dead" /\ netds' = netds + 1
    /\ conn' = [c \in Commands |-> NoId]
    /\ UNCHANGED <<tries, named, told, minted, supervisor, renderer, sockets, done>>

\* pollNetd -> spawnNetd, and the new netd's next_id
SpawnNetd ==
    /\ netd = "none"
    /\ netd' = "up" /\ minted' = 0
    /\ UNCHANGED <<clients, netds, supervisor, renderer, sockets, done>>

-----------------------------------------------------------------------------
(* The supervisor *)

NoRelays == [s \in 1..RelayMax |-> NoRelay]

Alive == process # "none"

FreeSlots == {s \in 1..RelayMax : relays[s] = NoRelay}
FirstFree == CHOOSE s \in FreeSlots : \A t \in FreeSlots : s <= t

\* sendRenderer can hand the packet over
Reaches == Alive /\ HasRoom(toRen)

\* mutant: every command is sent on as if it were for this renderer
AlwaysCurrent(named_) == epoch

EpochFor(named_) == IF named_ = 0 THEN epoch ELSE named_

\* drainNetd on a command for the renderer
Relay ==
    /\ toSup # <<>> /\ netd # "none"
    /\ toSup' = Tail(toSup)
    /\ LET p == Head(toSup) IN
       \/ /\ life # "running"
          /\ Answers(<<Refusal(p.id, "unavailable")>>)
          /\ UNCHANGED <<relays, toRen>>
       \/ /\ life = "running" /\ (FreeSlots = {} \/ ~Reaches)
          /\ Answers(<<Refusal(p.id, "overload")>>)
          /\ UNCHANGED <<relays, toRen>>
       \/ /\ life = "running" /\ FreeSlots # {} /\ Reaches
          /\ toRen' = Append(toRen, [p EXCEPT !.epoch = EpochFor(@)])
          /\ relays' = [relays EXCEPT ![FirstFree] = [id |-> p.id, ntfy |-> FALSE]]
          /\ UNCHANGED toNetd
    /\ UNCHANGED <<clients, network, life, epoch, ownSeq, ntfySeq, shownEpoch, renderer, fromRen,
                   done>>

NtfyId == <<"high", ntfySeq + 1>>

\* drainNtfy: a notification with an id of the supervisor's
RelayNtfy ==
    /\ ntfySeq < MaxNtfy
    /\ life = "running" /\ FreeSlots # {}
    /\ ntfySeq' = ntfySeq + 1
    /\ IF Reaches
       THEN /\ toRen' = Append(toRen, [cmd |-> "ntfy", id |-> NtfyId, epoch |-> epoch])
            /\ relays' = [relays EXCEPT ![FirstFree] = [id |-> NtfyId, ntfy |-> TRUE]]
       ELSE UNCHANGED <<toRen, relays>>
    /\ UNCHANGED <<clients, network, life, epoch, ownSeq, shownEpoch, renderer, toSup, toNetd,
                   fromRen, done>>

\* the saved state goes to a renderer that is ready, under ids of the supervisor's
PushCommands == [i \in 1..Pushes |-> [cmd |-> "push", id |-> <<"low", ownSeq + i>>, epoch |-> epoch]]

Ids(id) == {s \in 1..RelayMax : relays[s].id = id}

\* drainIpc
ReadRenderer ==
    /\ life # "none" /\ fromRen # <<>>
    /\ fromRen' = Tail(fromRen)
    /\ LET p == Head(fromRen) IN
       \/ /\ p.status = "ready"
          /\ life' = IF life = "starting" THEN "running" ELSE life
          /\ ownSeq' = ownSeq + Pushes
          /\ toRen' = IF Alive THEN Sent(toRen, PushCommands) ELSE toRen
          /\ shownEpoch' = epoch
          /\ relays' = NoRelays
          /\ UNCHANGED toNetd
       \/ /\ p.status # "ready"
          /\ IF Ids(p.id) = {} THEN UNCHANGED <<relays, toNetd>>
             ELSE LET s == CHOOSE s \in Ids(p.id) : \A t \in Ids(p.id) : s <= t IN
                  /\ relays' = [relays EXCEPT ![s] = NoRelay]
                  /\ IF relays[s].ntfy THEN UNCHANGED toNetd
                     ELSE Answers(<<Answer(p.id, p.status, p.revision)>>)
          /\ UNCHANGED <<life, ownSeq, toRen, shownEpoch>>
    /\ UNCHANGED <<clients, network, epoch, ntfySeq, renderer, toSup, done>>

\* expireRelays
ExpireRelay(s) ==
    /\ relays[s] # NoRelay
    /\ relays' = [relays EXCEPT ![s] = NoRelay]
    /\ Answers(<<Refusal(relays[s].id, "timeout")>>)
    /\ UNCHANGED <<clients, network, life, epoch, ownSeq, ntfySeq, shownEpoch, renderer, toSup,
                   toRen, fromRen, done>>

\* reapNetd: what was in its sockets is lost
ReapNetd ==
    /\ netd = "dead"
    /\ netd' = "none"
    /\ toSup' = <<>> /\ toNetd' = <<>>
    /\ relays' = NoRelays
    /\ UNCHANGED <<clients, minted, netds, life, epoch, ownSeq, ntfySeq, shownEpoch, renderer, toRen,
                   fromRen, done>>

\* mutant: the relays of the renderer that is gone are not answered
ForgottenByReap == UNCHANGED <<relays, toNetd>>

InFlight == (1..RelayMax) \ FreeSlots

\* reap answers every relay in flight, in the order of their slots
AnsweredByReap ==
    /\ relays' = NoRelays
    /\ Answers([i \in 1..Cardinality(InFlight) |->
                   LET nth == CHOOSE s \in InFlight :
                                Cardinality({t \in InFlight : t < s}) = i - 1
                   IN  Refusal(relays[nth].id, "unavailable")])

Reap ==
    /\ life # "none" /\ ~Alive
    /\ life' = "none"
    /\ toRen' = <<>> /\ fromRen' = <<>>
    /\ AnsweredByReap
    /\ UNCHANGED <<clients, network, epoch, ownSeq, ntfySeq, shownEpoch, renderer, toSup, done>>

\* poll's request_stop: nothing is relayed to a renderer that is being stopped
RequestStop ==
    /\ life \in {"starting", "running"}
    /\ life' = "stopping"
    /\ UNCHANGED <<clients, network, epoch, ownSeq, ntfySeq, relays, shownEpoch, renderer, sockets,
                   done>>

\* spawn: the renderer, empty, under the next epoch
Spawn ==
    /\ life = "none" /\ epoch < MaxEpoch
    /\ life' = "starting" /\ epoch' = epoch + 1
    /\ process' = "booting" /\ revision' = 0 /\ window' = {}
    /\ UNCHANGED <<clients, network, ownSeq, ntfySeq, relays, shownEpoch, sockets, done>>

-----------------------------------------------------------------------------
(* The renderer *)

\* a reply is dropped when the supervisor is behind
Reply(id, status, rev) ==
    fromRen' = Sent(fromRen, <<[id |-> id, status |-> status, revision |-> rev]>>)

\* the first transfer to the panel
SendReady ==
    /\ process = "booting"
    /\ process' = "up"
    /\ fromRen' = Sent(fromRen, <<Ready>>)
    /\ UNCHANGED <<clients, network, supervisor, revision, window, toSup, toNetd, toRen, done>>

\* mutant: applied without a record when the window is full
AlwaysRoom == TRUE

\* Cache.available
CanRemember == Cardinality(window) < WindowMax

\* handlePacket on a discrete command: epoch, window, room, and then it is
\* applied, remembered and answered
Handle ==
    /\ Alive /\ toRen # <<>>
    /\ toRen' = Tail(toRen)
    /\ LET p == Head(toRen)
           known == {e \in window : e.id = p.id} IN
       \/ /\ p.epoch # epoch
          /\ Reply(p.id, "stale_epoch", revision)
          /\ UNCHANGED <<revision, window, done>>
       \/ /\ p.epoch = epoch
          /\ \E e \in known : Reply(p.id, e.status, e.revision)
          /\ UNCHANGED <<revision, window, done>>
       \/ /\ p.epoch = epoch /\ known = {} /\ ~CanRemember
          /\ Reply(p.id, "overload", revision)
          /\ UNCHANGED <<revision, window, done>>
       \/ /\ p.epoch = epoch /\ known = {} /\ CanRemember
          /\ \E status \in Decided :
               /\ revision' = IF status = "applied" THEN revision + 1 ELSE revision
               /\ window' = IF Cardinality(window) = WindowMax THEN window
                            ELSE window \cup {[id |-> p.id, status |-> status,
                                               revision |-> revision']}
               /\ done' = done \cup {[cmd |-> p.cmd, epoch |-> epoch, status |-> status,
                                      revision |-> revision']}
               /\ Reply(p.id, status, revision')
    /\ UNCHANGED <<clients, network, supervisor, process, toSup, toNetd>>

\* sixty seconds have passed.  A client that counts on its id stops retrying
\* before, and no packet stays in a socket that long.
Forget ==
    /\ Alive
    /\ \E e \in window :
         /\ \A c \in DOMAIN OwnId :
              OwnId[c] = e.id => tries[c] = MaxTries /\ conn[c] = NoId
         /\ \A p \in Range(toSup) \cup Range(toRen) : p.id # e.id
         /\ window' = window \ {e}
    /\ UNCHANGED <<clients, network, supervisor, process, revision, sockets, done>>

RendererDies ==
    /\ Alive
    /\ process' = "none"
    /\ UNCHANGED <<clients, network, supervisor, revision, window, sockets, done>>

Next ==
    \/ \E c \in Commands : Submit(c) \/ GivesUp(c)
    \/ NetdReads \/ NetdDies \/ SpawnNetd
    \/ Relay \/ RelayNtfy \/ ReadRenderer \/ ReapNetd \/ Reap \/ RequestStop \/ Spawn
    \/ \E s \in 1..RelayMax : ExpireRelay(s)
    \/ SendReady \/ Handle \/ Forget \/ RendererDies

Spec == Init /\ [][Next]_vars

-----------------------------------------------------------------------------
(* Properties *)

Once(outcomes) == \A o, p \in outcomes : o.cmd = p.cmd /\ o.epoch = p.epoch => o = p

\* One renderer decides a command that has an id of its own once, however often
\* it is delivered: through lost replies, timeouts at either hop, retries that
\* overtake them, a full window and netd restarts.
AtMostOnce == Once({o \in done : o.cmd \in DOMAIN OwnId})

\* What its client is told was decided, is what was decided about that command
\* by the renderer of that epoch, and never what was decided about another.
TrueAnswer == {o \in told : o.cmd \in DOMAIN OwnId} \subseteq done

\* A command that names an epoch is decided under no other.
Fenced == \A o \in done : o.cmd \in Guarded => named[o.cmd] \in {0, o.epoch}

\* A relay waits for a renderer that exists, and if it is a client's, for a
\* netd that can be answered: no result crosses a restart of either.
RelaysLive ==
    \A s \in 1..RelayMax : relays[s] # NoRelay =>
        /\ life \in {"running", "stopping"}
        /\ relays[s].ntfy \/ netd # "none"

\* RUNTIME.md: "omit the id and the device mints a fresh one per request, so
\* the window has nothing to match on": what a client without an id of its own
\* is told was decided, was decided about its command.
MintedTrueAnswer == {o \in told : o.cmd \in Minted} \subseteq done
=============================================================================
