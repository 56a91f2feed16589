---------------------- MODULE RendererLifecycleProofs ----------------------
(***************************************************************************)
(* RendererLifecycle for every timeout, window and restart delay.          *)
(***************************************************************************)
EXTENDS RendererLifecycle, TLAPS

\* The delay drawn from the table is a time, whichever attempt it is for.
LEMMA RestartDelayType ==
    ASSUME NEW n \in 0..3
    PROVE  RestartDelay(n) \in Nat
  BY TimesAssumption DEF RestartDelay, TimesAssumption

LEMMA TimesAreNaturals ==
    /\ ReadyTimeout \in Nat /\ HeartbeatTimeout \in Nat /\ StopTimeout \in Nat
    /\ Healthy \in Nat /\ Window \in Nat /\ MaxSignals \in Nat
    /\ 0 \in 0..Healthy /\ 0 \in 0..Window /\ 0 \in 0..MaxSignals
  BY TimesAssumption DEF TimesAssumption

LEMMA NoFailuresType == NoFailures \in [1..3 -> 0..Window]
  BY TimesAreNaturals DEF NoFailures

\* Recording a failure keeps the ring a ring of ages.
LEMMA RecordedType ==
    ASSUME Window \in Nat, failures \in [1..3 -> 0..Window], failureCount \in 0..3
    PROVE  /\ Recorded \in [1..3 -> 0..Window]
           /\ RecordedCount \in 0..3
  BY DEF Recorded, RecordedCount

IInv == TypeOK /\ OneRenderer /\ NoUnansweredCrashLoop

LEMMA InitEstablishes == Init => IInv
  <1> SUFFICES ASSUME Init PROVE IInv
    OBVIOUS
  <1>1. failures \in [1..3 -> 0..Window] /\ failureCount \in 0..3
    BY NoFailuresType DEF Init
  <1>2. age \in 0..Healthy /\ signals \in 0..MaxSignals /\ deadline \in Nat /\ attempt \in 0..3
    BY TimesAreNaturals DEF Init
  <1>3. TypeOK
    BY <1>1, <1>2 DEF Init, TypeOK, States, Alive
  <1>4. OneRenderer /\ NoUnansweredCrashLoop
    BY DEF Init, OneRenderer, NoUnansweredCrashLoop, Supervised
  <1> QED
    BY <1>3, <1>4 DEF IInv

\* One step of the clock, the loop, the renderer or its surroundings.
LEMMA StepPreserves == IInv /\ [Next]_vars => IInv'
  <1> SUFFICES ASSUME IInv, [Next]_vars PROVE IInv'
    OBVIOUS
  <1> USE TimesAreNaturals, NoFailuresType DEF IInv, TypeOK, OneRenderer,
          NoUnansweredCrashLoop, States, Alive, Supervised
  <1>1. CASE Tick
    <2>1. deadline' \in Nat /\ age' \in 0..Healthy /\ failures' \in [1..3 -> 0..Window]
      BY <1>1 DEF Tick, Older
    <2>2. ~(failureCount' = 3 /\ failures'[1] < Window)
      BY <1>1 DEF Tick, Older
    <2> QED
      BY <1>1, <2>1, <2>2 DEF Tick, super, env
  <1>2. CASE Spawn
    BY <1>2 DEF Spawn, SpawnDue, ForgetLastStop, super
  <1>3. CASE ReadPacket
    <2>1. mail' \subseteq {"ready", "heartbeat"} /\ shown' = TRUE /\ child # "none"
      BY <1>3 DEF ReadPacket
    <2>2. /\ deadline' \in Nat
          /\ state' = state \/ (state = "starting" /\ state' = "running")
      BY <1>3 DEF ReadPacket
    <2>3. UNCHANGED <<slot, age, confirmed, attempt, killSent, requested, failures,
                      failureCount, shuttingDown, signals, child, term, lockHeld>>
      BY <1>3 DEF ReadPacket
    <2> QED
      BY <2>1, <2>2, <2>3
  <1>4. CASE RequestStopOnTimeout
    BY <1>4 DEF RequestStopOnTimeout, Unheard, super
  <1>5. CASE Confirm
    <2>1. failures' \in [1..3 -> 0..Window] /\ failureCount' = 0 /\ attempt' = 0 /\ confirmed' = TRUE
      BY <1>5 DEF Confirm
    <2>2. UNCHANGED <<state, slot, deadline, age, killSent, requested, super, env>>
      BY <1>5 DEF Confirm
    <2> QED
      BY <2>1, <2>2 DEF super, env
  <1>6. CASE Kill
    BY <1>6 DEF Kill, super
  <1>7. CASE Reap
    <2>1. RestartDelay(NextAttempt(attempt)) \in Nat /\ RestartDelay(NextAttempt(0)) \in Nat
          /\ NextAttempt(attempt) \in 0..3 /\ NextAttempt(0) \in 0..3
      BY RestartDelayType DEF NextAttempt
    <2>2. Recorded \in [1..3 -> 0..Window] /\ RecordedCount \in 0..3
      BY RecordedType
    <2>3. /\ state \in Supervised
          /\ child' = "none" /\ mail' = {} /\ shown' = FALSE
          /\ UNCHANGED <<age, confirmed, killSent, shuttingDown, signals, term, lockHeld>>
      BY <1>7 DEF Reap
    <2>4. CASE requested
      BY <1>7, <2>3, <2>4 DEF Reap
    <2>5. CASE ~requested /\ ~ThirdInWindow
      <3>1. failures' = Recorded /\ failureCount' = RecordedCount /\ state' = "waiting_restart"
            /\ attempt' = NextAttempt(attempt) /\ deadline' = RestartDelay(NextAttempt(attempt))
            /\ UNCHANGED <<slot, requested>>
        BY <1>7, <2>3, <2>5 DEF Reap, Failed, WaitRestart
      <3>2. ~(failureCount' = 3 /\ failures'[1] < Window)
        BY <2>5, <3>1 DEF ThirdInWindow
      <3> QED
        BY <2>1, <2>2, <2>3, <2>5, <3>1, <3>2
    <2>6. CASE ~requested /\ ThirdInWindow
      <3>1. failures' = NoFailures /\ failureCount' = 0 /\ slot' \in {"candidate", "embedded"}
            /\ deadline' \in Nat /\ attempt' \in 0..3
            /\ state' \in {"waiting_restart", "halted"} /\ UNCHANGED requested
        BY <1>7, <2>1, <2>3, <2>6 DEF Reap, Failed, WaitRestart
      <3>2. failures' \in [1..3 -> 0..Window]
        BY <3>1
      <3>3. ~shuttingDown' /\ ~requested' /\ state' \notin Supervised
        BY <2>3, <2>6, <3>1
      <3>4. OneRenderer' /\ NoUnansweredCrashLoop'
        BY <2>3, <3>1, <3>3
      <3>5. state' \in States /\ child' \in Alive \cup {"none", "exited"} /\ failureCount' \in 0..3
        BY <2>3, <3>1
      <3>6. TypeOK'
        BY <2>3, <3>1, <3>2, <3>5
      <3> QED
        BY <3>4, <3>6
    <2> QED
      BY <2>4, <2>5, <2>6
  <1>8. CASE Shutdown
    <2>1. signals' \in 0..MaxSignals /\ deadline' \in Nat /\ term' \in BOOLEAN /\ shuttingDown' = TRUE
      BY <1>8 DEF Shutdown
    <2>2. CASE NothingToStop
      BY <1>8, <2>1, <2>2 DEF Shutdown, NothingToStop
    <2>3. CASE ~NothingToStop
      BY <1>8, <2>1, <2>3 DEF Shutdown, NothingToStop
    <2> QED
      BY <2>2, <2>3
  <1>9. CASE ChildReady \/ ChildBeats \/ ChildHangs \/ ChildExits \/ LockChanges
    <2>1. UNCHANGED <<life, super>>
      BY <1>9 DEF ChildReady, ChildBeats, ChildHangs, ChildExits, LockChanges
    <2>2. child' \in Alive \cup {"exited"} \/ child' = child
      BY <1>9 DEF ChildReady, ChildBeats, ChildHangs, ChildExits, LockChanges
    <2>3. child' # child => child # "none" /\ child' # "none"
      BY <1>9 DEF ChildReady, ChildBeats, ChildHangs, ChildExits, LockChanges
    <2>4. term' \in BOOLEAN /\ lockHeld' \in BOOLEAN /\ mail' \subseteq {"ready", "heartbeat"}
      BY <1>9 DEF ChildReady, ChildBeats, ChildHangs, ChildExits, LockChanges
    <2> QED
      BY <2>1, <2>2, <2>3, <2>4 DEF life, super
  <1>10. CASE UNCHANGED vars
    BY <1>10 DEF vars, life, super, env
  <1> QED
    BY <1>1, <1>2, <1>3, <1>4, <1>5, <1>6, <1>7, <1>8, <1>9, <1>10 DEF Next

\* Every variable keeps to its range: the attempt counter never outgrows the
\* delay table, the ring never holds a fourth failure.
THEOREM TypeCorrect == Spec => []TypeOK
  <1>1. IInv => TypeOK
    BY DEF IInv
  <1> QED
    BY <1>1, InitEstablishes, StepPreserves, PTL DEF Spec

\* There is a renderer process exactly in the states that wait for one, so none
\* is ever spawned beside another and none is forgotten; after a shutdown began
\* only the wait for its end is left.
THEOREM AtMostOneRenderer == Spec => []OneRenderer
  <1>1. IInv => OneRenderer
    BY DEF IInv
  <1> QED
    BY <1>1, InitEstablishes, StepPreserves, PTL DEF Spec

\* Three failures within one window never stand without the fallback (or the
\* halt) they call for.
THEOREM CrashLoopAnswered == Spec => []NoUnansweredCrashLoop
  <1>1. IInv => NoUnansweredCrashLoop
    BY DEF IInv
  <1> QED
    BY <1>1, InitEstablishes, StepPreserves, PTL DEF Spec

-----------------------------------------------------------------------------
(* The policy *)

\* The ring is oldest first, and a stop is asked for by a shutdown alone.
Ordered(f, n) == \A i, j \in 1..n : i < j => f[i] >= f[j]
PInv == IInv /\ Ordered(failures, failureCount) /\ (requested => shuttingDown)

\* How many failures of a ring have outlived the window.
Gone(f, n, k) == k \in 0..n /\ \A i \in 1..n : (i <= k) <=> (f[i] >= Window)

LEMMA SomeGone ==
    ASSUME NEW f \in [1..3 -> 0..Window], NEW n \in 0..3, Ordered(f, n)
    PROVE  \E k \in 0..n : Gone(f, n, k)
  <1>1. \A i \in 1..3 : f[i] \in Nat
    BY TimesAreNaturals
  <1>2. CASE n = 0
    BY <1>2 DEF Gone
  <1>3. CASE n = 1
    <2>1. f[1] >= Window => Gone(f, n, 1)
      BY <1>3 DEF Gone
    <2>2. ~(f[1] >= Window) => Gone(f, n, 0)
      BY <1>3 DEF Gone
    <2> QED
      BY <1>3, <2>1, <2>2
  <1>4. CASE n = 2
    <2>1. f[1] >= f[2]
      BY <1>4 DEF Ordered
    <2>2. f[2] >= Window => Gone(f, n, 2)
      BY <1>1, <1>4, <2>1, TimesAreNaturals DEF Gone
    <2>3. f[1] >= Window /\ ~(f[2] >= Window) => Gone(f, n, 1)
      BY <1>4 DEF Gone
    <2>4. ~(f[1] >= Window) => Gone(f, n, 0)
      BY <1>1, <1>4, <2>1, TimesAreNaturals DEF Gone
    <2> QED
      BY <1>4, <2>2, <2>3, <2>4
  <1>5. CASE n = 3
    <2>1. f[1] >= f[2] /\ f[2] >= f[3]
      BY <1>5 DEF Ordered
    <2>2. f[3] >= Window => Gone(f, n, 3)
      BY <1>1, <1>5, <2>1, TimesAreNaturals DEF Gone
    <2>3. f[2] >= Window /\ ~(f[3] >= Window) => Gone(f, n, 2)
      BY <1>1, <1>5, <2>1, TimesAreNaturals DEF Gone
    <2>4. f[1] >= Window /\ ~(f[2] >= Window) => Gone(f, n, 1)
      BY <1>1, <1>5, <2>1, TimesAreNaturals DEF Gone
    <2>5. ~(f[1] >= Window) => Gone(f, n, 0)
      BY <1>1, <1>5, <2>1, TimesAreNaturals DEF Gone
    <2> QED
      BY <1>5, <2>2, <2>3, <2>4, <2>5
  <1> QED
    BY <1>2, <1>3, <1>4, <1>5

LEMMA OneGone ==
    ASSUME NEW f, NEW n \in 0..3, NEW k, Gone(f, n, k), NEW m, Gone(f, n, m)
    PROVE  k = m
  <1>1. k \in 0..n /\ m \in 0..n
    BY DEF Gone
  <1>2. ASSUME k < m
        PROVE  FALSE
    <2>1. m \in 1..n /\ m <= m /\ ~(m <= k)
      BY <1>1, <1>2
    <2> QED
      BY <2>1 DEF Gone
  <1>3. ASSUME m < k
        PROVE  FALSE
    <2>1. k \in 1..n /\ k <= k /\ ~(k <= m)
      BY <1>1, <1>3
    <2> QED
      BY <2>1 DEF Gone
  <1> QED
    BY <1>1, <1>2, <1>3

Counted(f, n, k) == [i \in 1..(n - k) |-> f[i + k]]

LEMMA WithinIs ==
    ASSUME failureCount \in 0..3, NEW k, Gone(failures, failureCount, k)
    PROVE  Within = Counted(failures, failureCount, k)
  <1>1. Outlived \in 0..failureCount /\ Gone(failures, failureCount, Outlived)
    BY DEF Outlived, Gone
  <1>2. Outlived = k
    BY <1>1, OneGone
  <1> QED
    BY <1>2 DEF Within, Counted

\* The same after a step.
LEMMA WithinNext ==
    ASSUME failureCount' \in 0..3, NEW k, Gone(failures', failureCount', k)
    PROVE  Within' = Counted(failures', failureCount', k)
  <1>1. Outlived' \in 0..failureCount' /\ Gone(failures', failureCount', Outlived')
    BY DEF Outlived, Gone
  <1>2. Outlived' = k
    BY <1>1, OneGone
  <1> QED
    BY <1>2 DEF Within, Counted

LEMMA PolicyInvariant == Init => PInv
  BY InitEstablishes DEF Init, PInv, Ordered

LEMMA PolicyKept == PInv /\ [Next]_vars => PInv'
  <1> SUFFICES ASSUME PInv, [Next]_vars PROVE PInv'
    OBVIOUS
  <1>1. IInv /\ IInv'
    BY StepPreserves DEF PInv
  <1>2. /\ failures \in [1..3 -> 0..Window] /\ failureCount \in 0..3
        /\ Ordered(failures, failureCount) /\ (requested => shuttingDown)
    BY <1>1 DEF PInv, IInv, TypeOK
  <1>3. \A i \in 1..3 : failures[i] \in Nat /\ failures[i] <= Window
    BY <1>2, TimesAreNaturals
  <1>4. CASE Tick
    <2>1. /\ failureCount' = failureCount
          /\ \A i \in 1..failureCount : failures'[i] = Older(failures[i], Window)
          /\ UNCHANGED <<requested, shuttingDown>>
      BY <1>2, <1>4 DEF Tick, super
    <2>2. \A x, y \in 0..Window : x >= y => Older(x, Window) >= Older(y, Window)
      BY TimesAreNaturals DEF Older
    <2>3. Ordered(failures', failureCount')
      BY <1>2, <2>1, <2>2 DEF Ordered
    <2> QED
      BY <1>1, <1>2, <2>1, <2>3 DEF PInv
  <1>5. CASE Confirm
    BY <1>1, <1>2, <1>5 DEF PInv, Confirm, Ordered, super
  <1>6. CASE Reap
    <2>1. UNCHANGED shuttingDown /\ (requested' => requested)
      BY <1>6 DEF Reap, Failed
    <2>2. \/ UNCHANGED <<failures, failureCount>>
          \/ failures' = Recorded /\ failureCount' = RecordedCount
          \/ failures' = NoFailures /\ failureCount' = 0
      BY <1>6 DEF Reap, Failed
    <2>3. Ordered(Recorded, RecordedCount)
      <3>1. CASE failureCount < 3
        <4>1. /\ RecordedCount = failureCount + 1 /\ Recorded[failureCount + 1] = 0
              /\ \A i \in 1..failureCount : Recorded[i] = failures[i]
          BY <1>2, <3>1 DEF Recorded, RecordedCount
        <4>2. \A i \in 1..(failureCount + 1) : i \in 1..failureCount \/ i = failureCount + 1
          BY <1>2
        <4>3. \A i \in 1..failureCount : i \in 1..3
          BY <1>2
        <4> SUFFICES ASSUME NEW i \in 1..RecordedCount, NEW j \in 1..RecordedCount, i < j
                     PROVE  Recorded[i] >= Recorded[j]
          BY DEF Ordered
        <4>4. i \in 1..failureCount
          BY <1>2, <4>1
        <4> QED
          BY <1>2, <1>3, <4>1, <4>2, <4>3, <4>4 DEF Ordered
      <3>2. CASE failureCount = 3
        <4>1. /\ RecordedCount = 3 /\ Recorded[3] = 0
              /\ Recorded[1] = failures[2] /\ Recorded[2] = failures[3]
          BY <1>2, <3>2 DEF Recorded, RecordedCount
        <4>2. failures[2] >= failures[3]
          BY <1>2, <3>2 DEF Ordered
        <4>3. \A i \in 1..3 : i = 1 \/ i = 2 \/ i = 3
          OBVIOUS
        <4> QED
          BY <1>3, <4>1, <4>2, <4>3 DEF Ordered
      <3> QED
        BY <1>2, <3>1, <3>2
    <2>4. Ordered(failures', failureCount')
      BY <1>2, <2>2, <2>3 DEF Ordered
    <2> QED
      BY <1>1, <1>2, <2>1, <2>4 DEF PInv
  <1>7. CASE Shutdown
    BY <1>1, <1>2, <1>7 DEF PInv, Shutdown, Ordered
  <1>8. CASE Spawn \/ ReadPacket \/ RequestStopOnTimeout \/ Kill
    <2>1. UNCHANGED <<failures, failureCount, shuttingDown>> /\ (requested' => requested)
      BY <1>1, <1>8 DEF Spawn, ForgetLastStop, ReadPacket, RequestStopOnTimeout, Kill, super
    <2> QED
      BY <1>1, <1>2, <2>1 DEF PInv
  <1>9. CASE \/ ChildReady \/ ChildBeats \/ ChildHangs \/ ChildExits \/ LockChanges
             \/ UNCHANGED vars
    <2>1. UNCHANGED <<failures, failureCount, shuttingDown, requested>>
      BY <1>9 DEF ChildReady, ChildBeats, ChildHangs, ChildExits, LockChanges, life, super, vars
    <2> QED
      BY <1>1, <1>2, <2>1 DEF PInv
  <1> QED
    BY <1>4, <1>5, <1>6, <1>7, <1>8, <1>9 DEF Next

-----------------------------------------------------------------------------
(* What each step is to the policy *)

Level == IF shuttingDown THEN "released" ELSE IF state = "halted" THEN "halted" ELSE slot

\* Steps that neither start nor end a renderer, and count nothing
LEMMA NothingForPolicy ==
    ASSUME UNCHANGED <<shuttingDown, slot, confirmed, failures, failureCount>>,
           (state = "halted") <=> (state' = "halted"),
           (child # "none") <=> (child' # "none")
    PROVE  UNCHANGED Policy!pvars
  <1>1. Within' = Within
    BY DEF Within, Outlived
  <1> QED
    BY <1>1 DEF Policy!pvars

LEMMA PassIsPass ==
    ASSUME PInv, Tick
    PROVE  Policy!Pass
  <1>1. /\ failures \in [1..3 -> 0..Window] /\ failureCount \in 0..3
        /\ Ordered(failures, failureCount)
    BY DEF PInv, IInv, TypeOK
  <1>2. /\ failures' \in [1..3 -> 0..Window] /\ failureCount' = failureCount
        /\ Ordered(failures', failureCount')
        /\ \A i \in 1..failureCount : failures'[i] = Older(failures[i], Window)
        /\ UNCHANGED <<state, slot, confirmed, shuttingDown, child>>
    <2>1. PInv'
      BY PolicyKept DEF Next
    <2> QED
      BY <1>1, <2>1 DEF PInv, IInv, TypeOK, Tick, super, env
  <1>3. PICK k \in 0..failureCount : Gone(failures, failureCount, k)
    BY <1>1, SomeGone
  <1>4. PICK m \in 0..failureCount : Gone(failures', failureCount, m)
    BY <1>1, <1>2, SomeGone
  <1>5. /\ Within = Counted(failures, failureCount, k)
        /\ Within' = Counted(failures', failureCount, m)
    BY <1>1, <1>2, <1>3, <1>4, WithinIs, WithinNext
  <1>6. \A i \in 1..failureCount : /\ failures[i] \in Nat /\ failures[i] <= Window
                                   /\ i \in Nat
    BY <1>1, TimesAreNaturals
  <1>7. \A i \in 1..failureCount :
           /\ failures[i] >= Window => failures'[i] >= Window
           /\ ~(failures[i] >= Window) => failures'[i] = failures[i] + 1
    BY <1>2, <1>6, TimesAreNaturals DEF Older
  <1>8. k <= m
    <2>1. ASSUME m < k
          PROVE  FALSE
      <3>1. k \in 1..failureCount /\ ~(k <= m) /\ k <= k
        BY <1>1, <2>1
      <3>2. failures[k] >= Window /\ ~(failures'[k] >= Window)
        BY <1>3, <1>4, <3>1 DEF Gone
      <3> QED
        BY <1>7, <3>1, <3>2
    <2> QED
      BY <2>1
  <1> DEFINE n == m - k
  <1>9. n \in 0..(failureCount - k) /\ failureCount - k \in Nat
    BY <1>1, <1>8
  <1>10. DOMAIN Within = 1..(failureCount - k) /\ Len(Within) = failureCount - k
    BY <1>5, <1>9 DEF Counted
  <1>11. ASSUME NEW i \in 1..(failureCount - k)
         PROVE  /\ i + k \in 1..failureCount /\ Within[i] = failures[i + k]
                /\ failures'[i + k] = Within[i] + 1
                /\ (i <= n) <=> (Within[i] + 1 >= Window)
    <2>1. i + k \in 1..failureCount /\ ~(i + k <= k) /\ ((i + k <= m) <=> (i <= n))
      BY <1>1
    <2>2. Within[i] = failures[i + k]
      BY <1>5 DEF Counted
    <2>3. ~(failures[i + k] >= Window)
      BY <1>3, <2>1 DEF Gone
    <2>4. failures'[i + k] = failures[i + k] + 1
      BY <1>7, <2>1, <2>3
    <2>5. (i + k <= m) <=> (failures'[i + k] >= Window)
      BY <1>4, <2>1 DEF Gone
    <2> QED
      BY <2>1, <2>2, <2>4, <2>5
  <1>12. Within' = [i \in 1..(Len(Within) - n) |-> Within[i + n] + 1]
    <2>1. failureCount - k - n = failureCount - m
      BY <1>1
    <2>2. ASSUME NEW i \in 1..(failureCount - m)
          PROVE  failures'[i + m] = Within[i + n] + 1
      <3>1. i + n \in 1..(failureCount - k) /\ (i + n) + k = i + m
        BY <1>1, <1>8
      <3> QED
        BY <1>11, <3>1
    <2> QED
      BY <1>5, <1>10, <2>1, <2>2 DEF Counted
  <1>13. UNCHANGED <<Level, child # "none", confirmed>>
    BY <1>2 DEF Level
  <1> HIDE DEF n
  <1>14. \E x \in 0..Len(Within) :
            /\ \A i \in DOMAIN Within : (i <= x) <=> (Within[i] + 1 >= Window)
            /\ Within' = [i \in 1..(Len(Within) - x) |-> Within[i + x] + 1]
    BY <1>9, <1>10, <1>11, <1>12
  <1> QED
    BY <1>13, <1>14 DEF Policy!Pass, Level

LEMMA SeqIsFunction ==
    ASSUME NEW s \in Seq(Nat), NEW n, Len(s) = n
    PROVE  s = [i \in 1..n |-> s[i]]
  OBVIOUS

\* An exit nobody asked for, short of the third in the window
LEMMA CountIsFail ==
    ASSUME PInv, Reap, state \in Supervised, ~requested, ~ThirdInWindow
    PROVE  Policy!Fail
  <1>1. /\ failures \in [1..3 -> 0..Window] /\ failureCount \in 0..3
        /\ Ordered(failures, failureCount) /\ NoUnansweredCrashLoop /\ OneRenderer
        /\ slot \in {"candidate", "embedded"}
    BY DEF PInv, IInv, TypeOK
  <1>2. /\ failures' = Recorded /\ failureCount' = RecordedCount /\ state' = "waiting_restart"
        /\ child' = "none" /\ UNCHANGED <<slot, confirmed, shuttingDown>>
    BY DEF Reap, Failed, WaitRestart
  <1>3. child # "none" /\ ~shuttingDown /\ state # "halted"
    BY <1>1 DEF OneRenderer, Supervised
  <1>4. PICK k \in 0..failureCount : Gone(failures, failureCount, k)
    BY <1>1, SomeGone
  <1>5. Within = Counted(failures, failureCount, k)
    BY <1>1, <1>4, WithinIs
  <1>6. \A i \in 1..3 : failures[i] \in Nat /\ failures[i] <= Window
    BY <1>1, TimesAreNaturals
  <1>7. Window \in Nat /\ Window > 0
    BY TimesAssumption DEF TimesAssumption
  <1>8. \E m \in 0..failureCount' : Gone(failures', failureCount', m)
                                  /\ failureCount - k < 2
                                  /\ failureCount' - m = failureCount - k + 1
                                  /\ failures'[failureCount'] = 0
                                  /\ \A i \in 1..(failureCount - k) : failures'[i + m] = failures[i + k]
    <2>1. CASE failureCount < 3
      <3>1. /\ failureCount' = failureCount + 1 /\ failures'[failureCount + 1] = 0
            /\ \A i \in 1..failureCount : failures'[i] = failures[i]
        BY <1>1, <1>2, <2>1 DEF Recorded, RecordedCount
      <3>2. Gone(failures', failureCount', k)
        <4>1. k \in 0..(failureCount + 1)
          BY <1>1, <1>4
        <4>2. ASSUME NEW i \in 1..(failureCount + 1)
              PROVE  (i <= k) <=> (failures'[i] >= Window)
          <5>1. CASE i \in 1..failureCount
            BY <1>4, <3>1, <5>1 DEF Gone
          <5>2. CASE i = failureCount + 1
            <6>1. ~(i <= k) /\ ~(failures'[i] >= Window)
              BY <1>1, <1>4, <1>7, <3>1, <5>2
            <6> QED
              BY <6>1
          <5> QED
            BY <1>1, <5>1, <5>2
        <4> QED
          BY <3>1, <4>1, <4>2 DEF Gone
      <3>3. failureCount - k < 2
        <4>1. ASSUME failureCount = 2, k = 0
              PROVE  FALSE
          <5>1. ~(failures[1] >= Window)
            BY <1>4, <4>1 DEF Gone
          <5>2. RecordedCount = 3 /\ Recorded[1] = failures[1]
            BY <1>1, <4>1 DEF Recorded, RecordedCount
          <5> QED
            BY <1>6, <1>7, <5>1, <5>2 DEF ThirdInWindow
        <4> QED
          BY <1>1, <2>1, <4>1
      <3>4. \A i \in 1..(failureCount - k) : i + k \in 1..failureCount
        BY <1>1
      <3>5. k \in 0..failureCount' /\ failureCount' - k = failureCount - k + 1
        BY <1>1, <3>1
      <3> QED
        BY <3>1, <3>2, <3>3, <3>4, <3>5
    <2>2. CASE failureCount = 3
      <3>1. /\ failureCount' = 3 /\ failures'[3] = 0 /\ RecordedCount = 3
            /\ failures'[1] = failures[2] /\ failures'[2] = failures[3]
            /\ Recorded[1] = failures[2]
        BY <1>1, <1>2, <2>2 DEF Recorded, RecordedCount
      <3>2. failures[1] >= Window /\ failures[2] >= Window
        BY <1>1, <1>6, <1>7, <2>2, <3>1 DEF NoUnansweredCrashLoop, ThirdInWindow
      <3>3. k \in 2..3
        BY <1>4, <2>2, <3>2 DEF Gone
      <3>4. (3 <= k) <=> (failures[3] >= Window)
        BY <1>4, <2>2 DEF Gone
      <3>5. Gone(failures', 3, k - 1)
        <4>1. ~(0 >= Window)
          BY <1>7
        <4>2. k - 1 \in 0..3 /\ (1 <= k - 1) /\ ((2 <= k - 1) <=> (3 <= k)) /\ ~(3 <= k - 1)
          BY <3>3
        <4>3. \A i \in 1..3 : i = 1 \/ i = 2 \/ i = 3
          OBVIOUS
        <4> QED
          BY <3>1, <3>2, <3>4, <4>1, <4>2, <4>3 DEF Gone
      <3>6. /\ k - 1 \in 0..3 /\ failureCount - k < 2
            /\ 3 - (k - 1) = failureCount - k + 1
        BY <2>2, <3>3
      <3>7. \A i \in 1..(failureCount - k) : failures'[i + (k - 1)] = failures[i + k]
        <4> TAKE i \in 1..(failureCount - k)
        <4>1. k = 2 /\ i = 1 /\ i + (k - 1) = 2 /\ i + k = 3
          BY <2>2, <3>3
        <4> QED
          BY <3>1, <4>1
      <3> QED
        BY <3>1, <3>5, <3>6, <3>7
    <2> QED
      BY <1>1, <2>1, <2>2
  <1>9. PICK m \in 0..failureCount' : /\ Gone(failures', failureCount', m)
                                     /\ failureCount - k < 2
                                     /\ failureCount' - m = failureCount - k + 1
                                     /\ failures'[failureCount'] = 0
                                     /\ \A i \in 1..(failureCount - k) :
                                           failures'[i + m] = failures[i + k]
    BY <1>8
  <1>10. failureCount' \in 0..3 /\ Within' = Counted(failures', failureCount', m)
    <2>1. failureCount' \in 0..3
      BY <1>1, <1>2, RecordedType, TimesAreNaturals
    <2> QED
      BY <1>9, <2>1, WithinNext
  <1> DEFINE n == failureCount - k
  <1>11. n \in Nat /\ n < 2
    BY <1>1, <1>9
  <1>12. Within \in Seq(Nat) /\ Len(Within) = n /\ \A i \in 1..n : Within[i] = failures[i + k]
    <2>1. \A i \in 1..n : i + k \in 1..3
      BY <1>1
    <2> HIDE DEF n
    <2>2. Within = [i \in 1..n |-> failures[i + k]]
      BY <1>5 DEF Counted, n
    <2> QED
      BY <1>6, <1>11, <2>1, <2>2
  <1>13. Within' = [i \in 1..(n + 1) |-> failures'[i + m]]
    BY <1>9, <1>10 DEF Counted
  <1>14. n + 1 + m = failureCount' /\ failures'[failureCount'] = 0
    <2>1. /\ failureCount' - m = n + 1 /\ failureCount' \in Nat /\ m \in Nat
          /\ failures'[failureCount'] = 0
      BY <1>9, <1>10
    <2>2. \A a, b, c \in Nat : a - b = c + 1 => c + 1 + b = a
      OBVIOUS
    <2> HIDE DEF n
    <2>3. n + 1 + m = failureCount'
      BY <1>11, <2>1, <2>2
    <2> QED
      BY <2>1, <2>3
  <1>15. \A i \in 1..n : failures'[i + m] = failures[i + k]
    BY <1>9
  <1> HIDE DEF n
  <1>16. Within' = Append(Within, 0)
    <2>1. /\ Append(Within, 0) \in Seq(Nat) /\ Len(Append(Within, 0)) = n + 1
          /\ Append(Within, 0)[n + 1] = 0
          /\ \A i \in 1..n : Append(Within, 0)[i] = Within[i]
      BY <1>12
    <2>2. ASSUME NEW i \in 1..(n + 1)
          PROVE  failures'[i + m] = Append(Within, 0)[i]
      <3>1. CASE i \in 1..n
        <4>1. failures'[i + m] = failures[i + k]
          BY <1>15, <3>1
        <4>2. Append(Within, 0)[i] = Within[i] /\ Within[i] = failures[i + k]
          BY <1>12, <2>1, <3>1
        <4> QED
          BY <4>1, <4>2
      <3>2. CASE i = n + 1
        <4>1. i + m = failureCount'
          BY <1>14, <3>2
        <4>2. failures'[i + m] = 0
          BY <1>14, <4>1
        <4>3. Append(Within, 0)[i] = 0
          BY <2>1, <3>2
        <4> QED
          BY <4>2, <4>3
      <3>3. i \in 1..n \/ i = n + 1
        BY <1>11
      <3> QED
        BY <3>1, <3>2, <3>3
    <2>3. Append(Within, 0) = [i \in 1..(n + 1) |-> Append(Within, 0)[i]]
      BY <2>1, SeqIsFunction
    <2> QED
      BY <1>13, <2>2, <2>3
  <1> QED
    BY <1>1, <1>2, <1>3, <1>11, <1>12, <1>16 DEF Policy!Fail

\* The third failure in the window
LEMMA ThirdIsFail ==
    ASSUME PInv, Reap, state \in Supervised, ~requested, ThirdInWindow
    PROVE  Policy!Fail
  <1>1. /\ failures \in [1..3 -> 0..Window] /\ failureCount \in 0..3
        /\ Ordered(failures, failureCount) /\ NoUnansweredCrashLoop /\ OneRenderer
        /\ slot \in {"candidate", "embedded"}
    BY DEF PInv, IInv, TypeOK
  <1>2. /\ failures' = NoFailures /\ failureCount' = 0 /\ child' = "none"
        /\ UNCHANGED <<confirmed, shuttingDown>>
        /\ \/ slot = "candidate" /\ slot' = "embedded" /\ state' = "waiting_restart"
           \/ slot = "embedded" /\ slot' = slot /\ state' = "halted"
    BY DEF Reap, Failed, WaitRestart
  <1>3. child # "none" /\ ~shuttingDown /\ state # "halted"
    BY <1>1 DEF OneRenderer, Supervised
  <1>4. PICK k \in 0..failureCount : Gone(failures, failureCount, k)
    BY <1>1, SomeGone
  <1>5. Within = Counted(failures, failureCount, k)
    BY <1>1, <1>4, WithinIs
  <1>6. \A i \in 1..3 : failures[i] \in Nat
    BY <1>1, TimesAreNaturals
  <1>7. failureCount - k = 2
    <2>1. CASE failureCount < 3
      <3>1. failureCount = 2 /\ failures[1] < Window
        BY <1>1, <2>1 DEF ThirdInWindow, Recorded, RecordedCount
      <3>2. ~(1 <= k)
        BY <1>4, <1>6, <3>1, TimesAreNaturals DEF Gone
      <3> QED
        BY <1>4, <3>1, <3>2
    <2>2. CASE failureCount = 3
      <3>1. failures[2] < Window
        BY <1>1, <2>2 DEF ThirdInWindow, Recorded, RecordedCount
      <3>2. ~(failures[1] < Window)
        BY <1>1, <2>2 DEF NoUnansweredCrashLoop
      <3>3. (1 <= k) /\ ~(2 <= k)
        BY <1>4, <1>6, <2>2, <3>1, <3>2, TimesAreNaturals DEF Gone
      <3> QED
        BY <1>4, <2>2, <3>3
    <2> QED
      BY <1>1, <2>1, <2>2
  <1>8. Len(Within) = 2
    BY <1>5, <1>7 DEF Counted
  <1>9. Within' = << >>
    <2>1. Gone(failures', failureCount', 0) /\ failureCount' \in 0..3
      BY <1>2 DEF Gone
    <2> QED
      BY <1>2, <2>1, WithinNext DEF Counted
  <1> QED
    BY <1>1, <1>2, <1>3, <1>8, <1>9 DEF Policy!Fail

LEMMA ReapMaps ==
    ASSUME PInv, Reap
    PROVE  Policy!Fail \/ Policy!End
  <1>1. OneRenderer /\ (requested => shuttingDown)
    BY DEF PInv, IInv
  <1>2. child = "exited" /\ state \in Supervised /\ child' = "none"
    BY <1>1 DEF Reap, OneRenderer
  <1>3. CASE requested
    <2>1. /\ shuttingDown /\ shuttingDown'
          /\ UNCHANGED <<slot, confirmed, failures, failureCount>>
      BY <1>1, <1>2, <1>3 DEF Reap
    <2>2. Within' = Within
      BY <2>1 DEF Within, Outlived
    <2> QED
      BY <1>2, <2>1, <2>2 DEF Policy!End
  <1>4. CASE ~requested
    BY <1>2, <1>4, CountIsFail, ThirdIsFail
  <1> QED
    BY <1>3, <1>4

LEMMA PolicySteps == PInv /\ [Next]_vars => [Policy!Next]_(Policy!pvars)
  <1> SUFFICES ASSUME PInv, [Next]_vars PROVE Policy!Next \/ UNCHANGED Policy!pvars
    OBVIOUS
  <1>1. TypeOK /\ OneRenderer
    BY DEF PInv, IInv
  <1>2. CASE Tick
    BY <1>2, PassIsPass DEF Policy!Next
  <1>3. CASE Spawn
    <2>1. /\ ~shuttingDown /\ ~shuttingDown' /\ state # "halted" /\ state' # "halted"
          /\ child = "none" /\ child' # "none"
          /\ UNCHANGED <<slot, confirmed, failures, failureCount>>
          /\ slot \in {"candidate", "embedded"}
      BY <1>1, <1>3 DEF Spawn, SpawnDue, TypeOK, OneRenderer, Supervised, super
    <2>2. Within' = Within
      BY <2>1 DEF Within, Outlived
    <2>3. Policy!Start
      BY <2>1, <2>2 DEF Policy!Start
    <2> QED
      BY <2>3 DEF Policy!Next
  <1>4. CASE ReadPacket
    <2>1. UNCHANGED <<shuttingDown, slot, confirmed, failures, failureCount, child>>
      BY <1>4 DEF ReadPacket
    <2>2. (state = "halted") <=> (state' = "halted")
      BY <1>4 DEF ReadPacket
    <2> QED
      BY <2>1, <2>2, NothingForPolicy
  <1>5. CASE RequestStopOnTimeout
    BY <1>5, NothingForPolicy DEF RequestStopOnTimeout, Unheard, super
  <1>6. CASE Kill
    <2>1. child # "none"
      BY <1>1, <1>6 DEF Kill, OneRenderer, Supervised
    <2> QED
      BY <1>6, <2>1, NothingForPolicy DEF Kill, super
  <1>7. CASE Confirm
    <2>1. /\ failureCount' = 0 /\ confirmed' = TRUE /\ ~confirmed /\ child # "none"
          /\ UNCHANGED <<slot, state, child, shuttingDown>>
      BY <1>1, <1>7 DEF Confirm, OneRenderer, Supervised, super, env
    <2>2. Within' = << >>
      <3>1. Gone(failures', failureCount', 0) /\ failureCount' \in 0..3
        BY <2>1 DEF Gone
      <3> QED
        BY <2>1, <3>1, WithinNext DEF Counted
    <2>3. Policy!Forgive
      BY <2>1, <2>2 DEF Policy!Forgive
    <2> QED
      BY <2>3 DEF Policy!Next
  <1>8. CASE Reap
    BY <1>8, ReapMaps DEF Policy!Next
  <1>9. CASE Shutdown
    <2>1. shuttingDown' = TRUE /\ UNCHANGED <<child, confirmed, failures, failureCount>>
      BY <1>9 DEF Shutdown
    <2>2. Within' = Within
      BY <2>1 DEF Within, Outlived
    <2>3. Policy!Release
      BY <2>1, <2>2 DEF Policy!Release
    <2> QED
      BY <2>3 DEF Policy!Next
  <1>10. CASE ChildReady \/ ChildBeats \/ ChildHangs \/ ChildExits \/ LockChanges
    <2>1. UNCHANGED <<shuttingDown, slot, confirmed, failures, failureCount, state>>
      BY <1>10 DEF ChildReady, ChildBeats, ChildHangs, ChildExits, LockChanges, life, super
    <2>2. (child # "none") <=> (child' # "none")
      BY <1>10 DEF ChildReady, ChildBeats, ChildHangs, ChildExits, LockChanges, Alive
    <2> QED
      BY <2>1, <2>2, NothingForPolicy
  <1>11. CASE UNCHANGED vars
    BY <1>11, NothingForPolicy DEF vars, life, super, env
  <1> QED
    BY <1>2, <1>3, <1>4, <1>5, <1>6, <1>7, <1>8, <1>9, <1>10, <1>11 DEF Next

(* The ring of ages with its count, the attempt counter and the two flags   *)
(* do what RUNTIME.md promises and nothing else: the third failure inside   *)
(* one window, and no other, takes the slot down a level, one healthy run   *)
(* forgives, and after a shutdown nothing is counted or started.            *)
THEOREM ImplementsPolicy == Spec => PolicySpec
  <1>1. Init => Policy!Init
    <2> SUFFICES ASSUME Init PROVE Policy!Init
      OBVIOUS
    <2>1. Gone(failures, failureCount, 0) /\ failureCount \in 0..3 /\ failureCount = 0
      BY DEF Init, Gone
    <2>2. Within = << >>
      BY <2>1, WithinIs DEF Counted
    <2> QED
      BY <2>2 DEF Init, Policy!Init
  <1> QED
    BY <1>1, PolicyInvariant, PolicyKept, PolicySteps, PTL DEF Spec, PolicySpec, Policy!Spec
=============================================================================
