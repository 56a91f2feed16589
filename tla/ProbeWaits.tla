---------------------------- MODULE ProbeWaits -----------------------------
(***************************************************************************)
(* tc002-devices.py: how long the two probes wait that listen for packets. *)
(* listen_broadcasts hears stock clocks, which broadcast about once a      *)
(* second; mdns_query asks twice for runtimes, which answer or announce    *)
(* themselves.  Each is one loop over recvfrom with a time-out, and looks  *)
(* at the clock when that returns.                                         *)
(*                                                                         *)
(* Packets are lost; a question goes unanswered also when the answer is    *)
(* withheld, because somebody else was answered a moment ago, or is read   *)
(* from the shared port by the daemon.  Clocks come, go and change their   *)
(* firmware.  Times are in tenths of a second.                             *)
(***************************************************************************)
EXTENDS Integers

CONSTANTS Devices,
          Period,       \* a stock clock's broadcast interval: about 1 s
          AnswerDelay,  \* how long a runtime takes to answer mdns
          ListenFor, ListenQuiet,            \* listen_broadcasts: 1.5 s, 1.2 s
          QueryFor, QueryQuiet, RecvTimeout, \* mdns_query: 2.0 s, 0.3 s; 0.2 s
          MaxChatter,   \* bound: other packets a query hears, its own among them
          MaxTurns      \* bound: clocks that come, go or change their firmware

Never   == -1
Unheard == [c \in Devices |-> Never]

ASSUME Durations == /\ {ListenFor, ListenQuiet, QueryFor, RecvTimeout} \subseteq Nat \ {0}
                    /\ QueryQuiet \in Nat /\ MaxChatter \in Nat /\ MaxTurns \in Nat
                    /\ ListenQuiet <= ListenFor
                    /\ Period \subseteq 1..ListenQuiet
                    /\ AnswerDelay \subseteq Nat \ {0} /\ AnswerDelay # {}

VARIABLES
    firmware, \* per clock: "stock", "runtime", or "off"
    at,       \* "start"; "listening", "listened"; "querying", "queried"; "failed"
    time,     \* the probe's clock, since it started
    quiet,    \* time since its last find, or Never
    waited,   \* time spent in this recvfrom
    due,      \* per clock: time until its packet arrives, or Never
    found,    \* clocks it found
    resent,   \* it asked again
    chatter,  \* other packets
    turns,
    steady,   \* history: clocks that have not come, gone or changed since it started
    lost,     \* history: clocks a broadcast of which was lost
    missed    \* history, per clock: questions it did not answer

wait_vars    == <<time, quiet, waited, due, found>>
history_vars == <<steady, lost, missed>>
probe_vars   == <<firmware, at, wait_vars, resent, chatter, turns, history_vars>>

Running(kind) == {c \in Devices : firmware[c] = kind}

ProbeInit ==
    /\ firmware \in [Devices -> {"stock", "runtime", "off"}]
    /\ at = "start"
    /\ time = 0 /\ quiet = Never /\ waited = 0 /\ due = Unheard /\ found = {}
    /\ resent = FALSE /\ chatter = 0 /\ turns = 0
    /\ steady = Devices /\ lost = {} /\ missed = [c \in Devices |-> 0]

\* a tenth of a second of recvfrom, which returns with a packet or times out
Waits(packet, new) ==
    /\ time' = time + 1
    /\ waited' = IF packet \/ waited + 1 >= RecvTimeout THEN 0 ELSE waited + 1
    /\ quiet' = IF new THEN 0 ELSE IF quiet = Never THEN Never ELSE quiet + 1

\* the time left, a tenth later
Later(c) == IF due[c] \in {Never, 1} THEN Never ELSE due[c] - 1

Arriving == {c \in Devices : due[c] = 1}

-----------------------------------------------------------------------------
(* listen_broadcasts *)

\* mutant: as soon done as mdns_query
BriefQuiet == QueryQuiet

Quiet == ListenQuiet

Listening == time < ListenFor /\ ~(quiet # Never /\ quiet > Quiet)

StartListening ==
    /\ at = "start"
    /\ at' = "listening"
    /\ \E first \in [Running("stock") -> UNION {1..p : p \in Period}] :
         due' = [c \in Devices |-> IF c \in Running("stock") THEN first[c] ELSE Never]
    /\ UNCHANGED <<firmware, time, quiet, waited, found, resent, chatter, turns, history_vars>>

(* A broadcast arrives or is lost on the way; the next is a period later.   *)
(* Something else may arrive on the port.                                   *)
ListenTick ==
    /\ at = "listening" /\ (waited = 0 => Listening)
    /\ \E drop \in SUBSET Arriving, other \in BOOLEAN, next \in [Arriving -> Period] :
         LET came == Arriving \ drop
         IN  /\ Waits(came # {} \/ other, ~(came \subseteq found))
             /\ due' = [c \in Devices |-> IF c \in Arriving THEN next[c] ELSE Later(c)]
             /\ found' = found \cup came
             /\ lost' = lost \cup drop
    /\ UNCHANGED <<firmware, at, resent, chatter, turns, steady, missed>>

ListenEnds ==
    /\ at = "listening" /\ waited = 0 /\ ~Listening
    /\ at' = "listened"
    /\ UNCHANGED <<firmware, wait_vars, resent, chatter, turns, history_vars>>

-----------------------------------------------------------------------------
(* mdns_query *)

(* ask: a runtime answers, or it does not.  An answer that is on its way    *)
(* already stands for both.                                                 *)
Ask(waiting) ==
    \E silent \in SUBSET Running("runtime"), delay \in [Devices -> AnswerDelay] :
       LET asked == {c \in Running("runtime") : waiting[c] = Never}
       IN  /\ due' = [c \in Devices |-> IF c \in asked \ silent THEN delay[c] ELSE waiting[c]]
           /\ missed' = [c \in Devices |-> missed[c] + IF c \in asked \cap silent THEN 1 ELSE 0]

StartQuery ==
    /\ at = "start"
    /\ at' = "querying"
    /\ Ask(Unheard)
    /\ UNCHANGED <<firmware, time, quiet, waited, found, resent, chatter, turns, steady, lost>>

Querying == time < QueryFor /\ ~(quiet # Never /\ quiet > QueryQuiet)

\* mutant: one query has to do
AskOnce(timedOut) == FALSE

Again(timedOut) == timedOut /\ ~resent

(* A packet is of a runtime, in answer to this question or to somebody      *)
(* else's, or it is passed over: a question, or of another responder.  The  *)
(* first time that nothing comes the question is asked again.               *)
QueryTick ==
    /\ at = "querying" /\ (waited = 0 => Querying)
    /\ \E unasked \in SUBSET Running("runtime"), other \in BOOLEAN :
         LET came     == Arriving \cup unasked
             timedOut == came = {} /\ ~other /\ waited + 1 >= RecvTimeout
             waiting  == [c \in Devices |-> Later(c)]
         IN  /\ other => chatter < MaxChatter
             /\ chatter' = chatter + IF other THEN 1 ELSE 0
             /\ Waits(came # {} \/ other, came # {})
             /\ found' = found \cup came
             /\ IF Again(timedOut)
                THEN resent' = TRUE /\ Ask(waiting)
                ELSE due' = waiting /\ UNCHANGED <<resent, missed>>
    /\ UNCHANGED <<firmware, at, turns, steady, lost>>

QueryEnds ==
    /\ at = "querying" /\ waited = 0 /\ ~Querying
    /\ at' = "queried"
    /\ UNCHANGED <<firmware, wait_vars, resent, chatter, turns, history_vars>>

-----------------------------------------------------------------------------
(* Either of them *)

(* An OSError: of the socket, a bind or a send, and nothing is found; or of *)
(* recvfrom, and the probe ends with what it found.                         *)
ProbeFails ==
    /\ at \in {"start", "listening", "querying"}
    /\ at' = "failed"
    /\ UNCHANGED <<firmware, wait_vars, resent, chatter, turns, history_vars>>

(* A clock comes, goes or changes its firmware; the new one broadcasts      *)
(* within a period, or announces itself.                                    *)
Turn ==
    /\ at \in {"listening", "querying"} /\ turns < MaxTurns
    /\ \E c \in Devices, kind \in {"stock", "runtime", "off"} :
         /\ kind # firmware[c]
         /\ firmware' = [firmware EXCEPT ![c] = kind]
         /\ \E first \in CASE at = "listening" /\ kind = "stock"  -> UNION {1..p : p \in Period}
                           [] at = "querying" /\ kind = "runtime" -> AnswerDelay \cup {Never}
                           [] OTHER                               -> {Never} :
              due' = [due EXCEPT ![c] = first]
         /\ steady' = steady \ {c}
    /\ turns' = turns + 1
    /\ UNCHANGED <<at, time, quiet, waited, found, resent, chatter, lost, missed>>

ProbeNext == \/ StartListening \/ ListenTick \/ ListenEnds
             \/ StartQuery \/ QueryTick \/ QueryEnds
             \/ ProbeFails \/ Turn

ProbeSpec == ProbeInit /\ [][ProbeNext]_probe_vars

-----------------------------------------------------------------------------
(* The waits are long enough.  A listener that was not cut short has heard  *)
(* every clock that ran stock firmware all along and lost none of its       *)
(* broadcasts, however they fell; and if mdns_query was not cut short and   *)
(* says that there is nobody, every clock that ran the runtime all along    *)
(* was asked twice, and answered neither time.                              *)
ProbesHear ==
    /\ at = "listened" => (steady \cap Running("stock")) \ lost \subseteq found
    /\ at = "queried" /\ found = {} => \A c \in steady \cap Running("runtime") : missed[c] = 2
=============================================================================
