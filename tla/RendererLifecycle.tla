------------------------- MODULE RendererLifecycle -------------------------
(***************************************************************************)
(* The supervisor's care of the one renderer process: the pure state       *)
(* machine `Lifecycle` (supervisor/child.zig) driven by the supervisor's   *)
(* loop (spawn, reap, drainSignals, drainIpc, pollLifecycle of             *)
(* supervisor_main.zig), against a renderer that may become ready, beat,   *)
(* hang, crash or leave, over a packet socket that may drop what is sent.  *)
(*                                                                         *)
(* Time.  The code compares one monotonic clock with stored instants.      *)
(* Every stored instant is kept here as its distance to the present: a     *)
(* deadline as the ticks left to it (0: reached), an instant in the past   *)
(* as its age, which stops growing at the only bound it is compared with.  *)
(* The behaviours are infinite and the states finite, without a horizon.   *)
(*                                                                         *)
(* Left out: the epoch (CommandRelay), the panel wait before the first     *)
(* spawn (a delay of the first Spawn, which may be any), logging.          *)
(***************************************************************************)
EXTENDS Naturals, Sequences

CONSTANTS
    ReadyTimeout,      \* spawn to `ready`                       (10 s)
    HeartbeatTimeout,  \* silence before a stop is requested      (2 s)
    StopTimeout,       \* stop request to SIGKILL                 (2 s)
    Healthy,           \* age at which a run confirms its slot   (60 s)
    Window,            \* failures are counted within            (60 s)
    Delay,             \* <<first, second, later>> restart delays (1, 2, 5 s)
    MaxSignals         \* bound: shutdown requests the supervisor receives

ASSUME TimesAssumption ==
    /\ {ReadyTimeout, HeartbeatTimeout, StopTimeout, Healthy, Window} \subseteq Nat \ {0}
    /\ Delay \in [1..3 -> Nat \ {0}]
    /\ MaxSignals \in Nat

VARIABLES
    state, slot, deadline, age, confirmed, attempt, killSent, requested,
    failures,   \* ages of the last three failures, oldest first
    failureCount,
    shuttingDown, signals,
    child,      \* the process behind child_pid
    term,       \* a stop packet or SIGTERM has reached the child
    mail,       \* kinds of packets from the child not read yet
    lockHeld,   \* somebody else holds panel.lock
    shown       \* snapshot.renderer_state = 2

life  == <<state, slot, deadline, age, confirmed, attempt, killSent, requested,
           failures, failureCount>>
super == <<shuttingDown, signals, shown>>
env   == <<child, term, mail, lockHeld>>
vars  == <<life, super, env>>

States     == {"idle", "starting", "running", "stopping", "waiting_restart", "halted", "stopped"}
Alive      == {"booting", "beating", "hung"}
Supervised == {"starting", "running", "stopping"}   \* states with a process to wait for
NoFailures == [i \in 1..3 |-> 0]                     \* what is beyond the count is never read

\* The fields of Lifecycle stay in their ranges: ages saturate at the bound
\* they are compared with, and the ring holds three failures.
TypeOK ==
    /\ state \in States /\ slot \in {"candidate", "embedded"}
    /\ deadline \in Nat /\ age \in 0..Healthy
    /\ confirmed \in BOOLEAN /\ killSent \in BOOLEAN /\ requested \in BOOLEAN
    /\ attempt \in 0..3
    /\ failures \in [1..3 -> 0..Window] /\ failureCount \in 0..3
    /\ shuttingDown \in BOOLEAN /\ signals \in 0..MaxSignals /\ shown \in BOOLEAN
    /\ child \in Alive \cup {"none", "exited"} /\ term \in BOOLEAN
    /\ mail \subseteq {"ready", "heartbeat"}
    /\ lockHeld \in BOOLEAN

Init ==
    /\ state = "idle" /\ slot = "candidate" /\ deadline = 0 /\ age = 0
    /\ confirmed = FALSE /\ attempt = 0 /\ killSent = FALSE /\ requested = FALSE
    /\ failures = NoFailures /\ failureCount = 0
    /\ shuttingDown = FALSE /\ signals = 0 /\ shown = FALSE
    /\ child = "none" /\ term = FALSE /\ mail = {} /\ lockHeld \in BOOLEAN

-----------------------------------------------------------------------------
(* Time *)

Older(a, cap) == IF a < cap THEN a + 1 ELSE a

Tick ==
    /\ deadline' = IF deadline = 0 THEN 0 ELSE deadline - 1
    /\ age' = Older(age, Healthy)
    /\ failures' = [i \in 1..3 |-> IF i <= failureCount THEN Older(failures[i], Window) ELSE 0]
    /\ UNCHANGED <<state, slot, confirmed, attempt, killSent, requested, failureCount, super, env>>

-----------------------------------------------------------------------------
(* What the supervisor's loop does *)

\* mutant: the arm of `waiting_restart` missing
SpawnDueOnlyFirst == state = "idle"

\* poll's two reasons to answer `spawn`
SpawnDue == state = "idle" \/ (state = "waiting_restart" /\ deadline = 0)

\* mutant: kill_sent not reset
KeepKillSent == requested' = FALSE /\ UNCHANGED killSent

\* onSpawned clears what the last run left
ForgetLastStop == killSent' = FALSE /\ requested' = FALSE

\* pollLifecycle -> spawn -> onSpawned; refused while the panel lock is held,
\* and then asked again by the next poll
Spawn ==
    /\ SpawnDue
    /\ ~shuttingDown
    /\ ~lockHeld
    /\ state' = "starting" /\ deadline' = ReadyTimeout /\ age' = 0
    /\ ForgetLastStop
    /\ child' = "booting" /\ term' = FALSE /\ mail' = {}
    /\ UNCHANGED <<slot, confirmed, attempt, failures, failureCount, super, lockHeld>>

\* drainIpc: one packet.  Both kinds mark the status, and `ready` pushes the saved
\* state, whatever the lifecycle's state is; only `starting` counts a `ready`,
\* only `running` a heartbeat (the loop beats from its first turn, before the
\* first transfer makes it ready).
ReadPacket ==
    /\ child # "none"
    /\ shown' = TRUE
    /\ \/ /\ "ready" \in mail
          /\ mail' = mail \ {"ready"}
          /\ IF state = "starting"
             THEN state' = "running" /\ deadline' = HeartbeatTimeout
             ELSE UNCHANGED <<state, deadline>>
       \/ /\ "heartbeat" \in mail
          /\ mail' = mail \ {"heartbeat"}
          /\ deadline' = IF state = "running" THEN HeartbeatTimeout ELSE deadline
          /\ UNCHANGED state
    /\ UNCHANGED <<slot, age, confirmed, attempt, killSent, requested, failures, failureCount,
                   shuttingDown, signals, child, term, lockHeld>>

\* mutant: no deadline for `ready`
UnheardRunning == state = "running" /\ deadline = 0

Unheard == state \in {"starting", "running"} /\ deadline = 0

\* poll: `starting` past its deadline, or `running` without a heartbeat.  The
\* supervisor sends `stop` (which may be dropped) and SIGTERM (which is not).
RequestStopOnTimeout ==
    /\ Unheard
    /\ state' = "stopping" /\ deadline' = StopTimeout
    /\ term' = TRUE
    /\ UNCHANGED <<slot, age, confirmed, attempt, killSent, requested, failures, failureCount,
                   super, child, mail, lockHeld>>

\* poll: one healthy run confirms the slot, once
Confirm ==
    /\ state = "running" /\ deadline > 0
    /\ ~confirmed /\ age = Healthy
    /\ confirmed' = TRUE /\ attempt' = 0
    /\ failures' = NoFailures /\ failureCount' = 0
    /\ UNCHANGED <<state, slot, deadline, age, killSent, requested, super, env>>

\* poll: the stop was not heeded.  SIGKILL always ends the process.
Kill ==
    /\ state = "stopping" /\ ~killSent /\ deadline = 0
    /\ killSent' = TRUE
    /\ child' = "exited"
    /\ UNCHANGED <<state, slot, deadline, age, confirmed, attempt, requested, failures,
                   failureCount, super, term, mail, lockHeld>>

\* mutant: the ring is overwritten at its end instead of shifted
RecordedUnshifted ==
    IF failureCount < 3 THEN [failures EXCEPT ![failureCount + 1] = 0] ELSE [failures EXCEPT ![3] = 0]

\* recordFailure: the ring with the new failure in it
Recorded ==
    IF failureCount < 3
    THEN [failures EXCEPT ![failureCount + 1] = 0]
    ELSE [i \in 1..3 |-> IF i = 3 THEN 0 ELSE failures[i + 1]]

RecordedCount == IF failureCount < 3 THEN failureCount + 1 ELSE 3

\* mutant: off by one at the edge of the window
ThirdInShorterWindow == RecordedCount = 3 /\ Recorded[1] < Window - 1

\* recordFailure's answer: three failures fell inside the window
ThirdInWindow == RecordedCount = 3 /\ Recorded[1] < Window

RestartDelay(n) == Delay[IF n <= 1 THEN 1 ELSE IF n = 2 THEN 2 ELSE 3]

\* mutant: += for +|=
NextAttemptWrapping(n) == n + 1

\* attempt +|= 1, saturated here at 3: the delay tells no more apart
NextAttempt(n) == IF n < 3 THEN n + 1 ELSE n

WaitRestart(n) ==
    /\ state' = "waiting_restart"
    /\ attempt' = NextAttempt(n)
    /\ deadline' = RestartDelay(NextAttempt(n))

\* onExit of an exit nobody asked for
Failed ==
    \/ /\ ~ThirdInWindow
       /\ failures' = Recorded /\ failureCount' = RecordedCount
       /\ WaitRestart(attempt)
       /\ UNCHANGED slot
    \/ /\ ThirdInWindow
       /\ failures' = NoFailures /\ failureCount' = 0
       /\ \/ /\ slot = "candidate"
             /\ slot' = "embedded"
             /\ WaitRestart(0)
          \/ /\ slot = "embedded"
             /\ state' = "halted" /\ attempt' = 0
             /\ UNCHANGED <<slot, deadline>>

\* reap -> onExit
Reap ==
    /\ child = "exited"
    /\ child' = "none" /\ mail' = {} /\ shown' = FALSE
    /\ \/ /\ state \notin Supervised
          /\ UNCHANGED <<state, slot, deadline, attempt, requested, failures, failureCount>>
       \/ /\ state \in Supervised /\ requested
          /\ state' = "stopped" /\ requested' = FALSE
          /\ UNCHANGED <<slot, deadline, attempt, failures, failureCount>>
       \/ /\ state \in Supervised /\ ~requested
          /\ Failed
          /\ UNCHANGED requested
    /\ UNCHANGED <<age, confirmed, killSent, shuttingDown, signals, term, lockHeld>>

\* mutant: waiting_restart not among them
NothingToStopButWait == state \in {"idle", "halted", "stopped"}

\* requestStop: the states it turns straight into `stopped`
NothingToStop == state \in {"idle", "halted", "waiting_restart", "stopped"}

\* drainSignals on SIGTERM or SIGINT, and pollNoNetworkHandback: requestStop and
\* a `stop` packet, which the socket may drop.  A further request while stopping
\* moves the kill deadline.
Shutdown ==
    /\ signals < MaxSignals
    /\ signals' = signals + 1
    /\ shuttingDown' = TRUE
    /\ \/ /\ NothingToStop
          /\ state' = "stopped"
          /\ UNCHANGED <<deadline, requested, term>>
       \/ /\ ~NothingToStop
          /\ state' = "stopping" /\ requested' = TRUE /\ deadline' = StopTimeout
          /\ \E heard \in BOOLEAN : term' = (term \/ heard)
    /\ UNCHANGED <<slot, age, confirmed, attempt, killSent, failures, failureCount,
                   shown, child, mail, lockHeld>>

-----------------------------------------------------------------------------
(* What the renderer process and its surroundings do *)

\* the first transfer to the panel
ChildReady ==
    /\ child = "booting"
    /\ child' = "beating" /\ mail' = mail \cup {"ready"}
    /\ UNCHANGED <<life, super, term, lockHeld>>

\* dropped when the supervisor is behind, which is as if it was not sent
ChildBeats ==
    /\ child \in {"booting", "beating"}
    /\ mail' = mail \cup {"heartbeat"}
    /\ UNCHANGED <<life, super, child, term, lockHeld>>

ChildHangs ==
    /\ child \in {"booting", "beating"}
    /\ child' = "hung"
    /\ UNCHANGED <<life, super, term, mail, lockHeld>>

\* a crash, or the orderly exit of a renderer that was told to stop
ChildExits ==
    /\ child \in Alive
    /\ child' = "exited"
    /\ UNCHANGED <<life, super, term, mail, lockHeld>>

ChildObeys ==
    /\ child \in Alive \ {"hung"} /\ term
    /\ ChildExits

LockChanges ==
    /\ lockHeld' = ~lockHeld
    /\ UNCHANGED <<life, super, child, term, mail>>

Next ==
    \/ Tick
    \/ Spawn \/ ReadPacket \/ RequestStopOnTimeout \/ Confirm \/ Kill \/ Reap \/ Shutdown
    \/ ChildReady \/ ChildBeats \/ ChildHangs \/ ChildExits \/ LockChanges

\* The clock advances and the loop, woken by its timer and by SIGCHLD, keeps
\* polling.  A renderer that can hear a stop leaves.  Nothing is assumed of
\* its health, of the lock or of when a shutdown is asked for.
Fairness ==
    /\ WF_vars(Tick)
    /\ WF_vars(Spawn) /\ WF_vars(RequestStopOnTimeout) /\ WF_vars(Kill) /\ WF_vars(Reap)
    /\ WF_vars(ChildObeys)

Spec == Init /\ [][Next]_vars /\ Fairness

-----------------------------------------------------------------------------
(* Properties *)

\* The supervisor has a renderer process exactly in the states that wait for
\* one (spawn never starts a second beside a live or unreaped one, and reap never
\* leaves a state that waits for a process nobody has); the status claims a
\* renderer only while there is one; and a shutdown leaves only states from
\* which nothing is spawned.
OneRenderer ==
    /\ (child # "none") <=> (state \in Supervised)
    /\ shown => child # "none"
    /\ shuttingDown => state = "stopped" \/ (state = "stopping" /\ requested)
    /\ requested => state = "stopping"

\* The failures counted towards a fallback never reach three inside the window
\* without the fallback having been taken (recordFailure, onExit), although the
\* counter is reset by a confirmation and by the fallback itself.
NoUnansweredCrashLoop == ~(failureCount = 3 /\ failures[1] < Window)

\* The failures that still count: those that have not outlived the window, and
\* the oldest do first.
Outlived == CHOOSE n \in 0..failureCount :
                \A i \in 1..failureCount : (i <= n) <=> (failures[i] >= Window)
Within   == [i \in 1..(failureCount - Outlived) |-> failures[i + Outlived]]

\* The ring of three instants with its count, the attempt counter and the two
\* flags implement the policy RUNTIME.md states: the third failure inside one
\* window, and no other, takes the slot down a level.
Policy == INSTANCE RestartPolicy WITH
    level    <- IF shuttingDown THEN "released" ELSE IF state = "halted" THEN "halted" ELSE slot,
    up       <- child # "none",
    forgiven <- confirmed,
    recent   <- Within

PolicySpec == Policy!Spec

\* A shutdown always ends with the renderer gone, hung or deaf as it may be.
ShutdownEnds == shuttingDown ~> child = "none"

\* A renderer that stops answering never stays on the panel: either it is heard
\* again or it is gone.
HangEnds == (child = "hung") ~> (child # "hung")

\* After a failure the renderer is started again, unless the lock is kept.
Restarts == <>[]~lockHeld => (state = "waiting_restart" ~> state \in {"starting", "stopped"})
=============================================================================
