--------------------------- MODULE DiscoveryProofs ---------------------------
(***************************************************************************)
(* ProbeWaits: the two probes that listen wait long enough, for any clocks,*)
(* any times at which they send, and packets lost on the way.  Discovery:  *)
(* what is merged from the rows of all four probes is of one clock only if *)
(* they found one, and says of each what any of its rows says.             *)
(*                                                                         *)
(* merge_rows folds the rows into a table.  No induction over the rows is  *)
(* cited: a least number that breaks a claim is met instead (Climb), and   *)
(* that there is such a table after each row is proved from it (Fold).     *)
(***************************************************************************)
EXTENDS Discovery, ProbeWaits, SequenceTheorems, FiniteSetTheorems, WellFoundedInduction, TLAPS

\* The query lasts longer than it takes to ask twice and be answered: each
\* packet of another responder may put off the second question by a time-out.
QueryOutlasts == \A d \in AnswerDelay : RecvTimeout * (MaxChatter + 1) + d <= QueryFor

-----------------------------------------------------------------------------
(* The inductive invariant of the probes *)

Clocked ==
    /\ time \in Nat /\ waited \in Nat /\ chatter \in 0..MaxChatter
    /\ quiet \in Int /\ quiet <= time
    /\ DOMAIN due = Devices
    /\ \A c \in Devices : due[c] \in Int /\ (due[c] # Never => due[c] >= 1)
    /\ missed \in [Devices -> Nat]
    /\ DOMAIN firmware = Devices

\* A probe starts with nothing.
Fresh == /\ time = 0 /\ quiet = Never /\ waited = 0 /\ found = {} /\ resent = FALSE /\ chatter = 0
         /\ \A c \in Devices : missed[c] = 0

\* A stock clock not yet heard, though it could be, sends before the quiet is over.
AllSend ==
    \A c \in (steady \cap Running("stock")) \ (found \cup lost) :
        due[c] # Never /\ time + due[c] <= ListenQuiet

\* The answer of this clock is on its way.
Coming(c) == due[c] # Never

\* Until somebody answers: the second question is not long in coming, answers that
\* are on their way come before the query ends, and a clock with none on its way
\* has left every question unanswered.
AllAsked ==
    /\ quiet = Never
    /\ waited < RecvTimeout
    /\ ~resent => time <= RecvTimeout * chatter + waited
    /\ \A c \in steady : Coming(c) => time + due[c] <= QueryFor
    /\ \A c \in steady \cap Running("runtime") : Coming(c) \/ missed[c] = IF resent THEN 2 ELSE 1

HInv ==
    /\ Clocked
    /\ steady \subseteq Devices
    /\ at = "start" => Fresh
    /\ at = "listening" => AllSend
    /\ at = "querying" /\ found = {} => AllAsked
    /\ ProbesHear

\* The constants, as numbers.
LEMMA Times ==
    /\ ListenFor \in Nat /\ ListenQuiet \in Nat /\ QueryFor \in Nat /\ RecvTimeout \in Nat \ {0}
    /\ MaxChatter \in Nat /\ ListenQuiet <= ListenFor
    /\ \A p \in Period : p \in Nat /\ 1 <= p /\ p <= ListenQuiet
    /\ \A d \in AnswerDelay : d \in Nat /\ 1 <= d
    /\ AnswerDelay # {}
  BY Durations DEF Durations

LEMMA HearingStarts == ProbeInit => HInv
  <1> SUFFICES ASSUME ProbeInit PROVE HInv
    OBVIOUS
  <1>1. Clocked
    BY Times DEF ProbeInit, Clocked, Unheard, Never
  <1>2. Fresh /\ at = "start" /\ steady = Devices
    BY DEF ProbeInit, Fresh
  <1> QED
    BY <1>1, <1>2 DEF HInv, ProbesHear

-----------------------------------------------------------------------------
(* The listener *)

LEMMA ListenStarts ==
    ASSUME HInv, StartListening
    PROVE  HInv'
  <1>1. /\ UNCHANGED <<firmware, time, quiet, found, waited, chatter, steady, lost, missed>>
        /\ Fresh /\ Clocked /\ at' = "listening" /\ steady \subseteq Devices
    BY DEF StartListening, history_vars, HInv
  <1>2. PICK first \in [Running("stock") -> UNION {1..p : p \in Period}] :
            due' = [c \in Devices |-> IF c \in Running("stock") THEN first[c] ELSE Never]
    BY DEF StartListening
  <1>3. ASSUME NEW c \in Running("stock")
        PROVE  c \in Devices /\ first[c] \in Nat /\ 1 <= first[c] /\ first[c] <= ListenQuiet
    <2>1. PICK p \in Period : first[c] \in 1..p
      BY <1>2
    <2> QED
      BY <2>1, Times DEF Running
  <1>4. DOMAIN due' = Devices /\ \A c \in Devices :
            /\ due'[c] \in Int
            /\ due'[c] # Never => due'[c] >= 1
            /\ c \in Running("stock") => due'[c] # Never /\ due'[c] <= ListenQuiet
    BY <1>2, <1>3 DEF Never
  <1>5. Clocked'
    BY <1>1, <1>4 DEF Clocked
  <1>6. AllSend'
    <2>1. Running("stock")' = Running("stock") /\ \A c \in Running("stock") : c \in Devices
      BY <1>1 DEF Running
    <2> QED
      BY <1>1, <1>4, <2>1, Times DEF AllSend, Fresh
  <1> QED
    BY <1>1, <1>5, <1>6 DEF HInv, ProbesHear

LEMMA ListenGoesOn ==
    ASSUME HInv, ListenTick
    PROVE  HInv'
  <1>1. /\ UNCHANGED <<firmware, at, chatter, steady, missed>> /\ at = "listening"
        /\ Clocked /\ AllSend /\ steady \subseteq Devices
    BY DEF ListenTick, HInv
  <1>2. PICK drop \in SUBSET Arriving, other \in BOOLEAN, next \in [Arriving -> Period] :
         /\ Waits(Arriving \ drop # {} \/ other, ~(Arriving \ drop \subseteq found))
         /\ due' = [c \in Devices |-> IF c \in Arriving THEN next[c] ELSE Later(c)]
         /\ found' = found \cup (Arriving \ drop)
         /\ lost' = lost \cup drop
    BY DEF ListenTick
  <1>3. /\ time' = time + 1 /\ waited' \in Nat /\ quiet' \in Int /\ quiet' <= time'
    BY <1>1, <1>2 DEF Waits, Clocked, Never
  <1>4. \A c \in Arriving : next[c] \in Nat /\ 1 <= next[c]
    BY <1>2, Times
  <1>5. DOMAIN due' = Devices /\ \A c \in Devices :
            /\ due'[c] \in Int
            /\ due'[c] # Never => due'[c] >= 1
            /\ c \notin Arriving /\ due[c] # Never => due'[c] = due[c] - 1 /\ due'[c] # Never
    BY <1>1, <1>2, <1>4 DEF Clocked, Later, Arriving, Never
  <1>6. Clocked'
    BY <1>1, <1>3, <1>5 DEF Clocked
  <1>7. Running("stock")' = Running("stock")
    BY <1>1 DEF Running
  <1>8. ASSUME NEW c \in steady \cap Running("stock"), c \notin found', c \notin lost'
        PROVE  due'[c] # Never /\ time' + due'[c] <= ListenQuiet
    <2>1. c \notin Arriving /\ c \notin found /\ c \notin lost
      BY <1>2, <1>8
    <2>2. c \in Devices /\ due[c] # Never /\ due[c] \in Int /\ time + due[c] <= ListenQuiet
      BY <1>1, <2>1 DEF AllSend, Clocked
    <2> QED
      BY <1>1, <1>3, <1>5, <2>1, <2>2, Times DEF Clocked
  <1>9. AllSend'
    BY <1>1, <1>7, <1>8 DEF AllSend
  <1> QED
    BY <1>1, <1>6, <1>9 DEF HInv, ProbesHear

\* When the listener has waited long enough it has heard them all.
LEMMA ListenedEnough ==
    ASSUME HInv, ListenEnds
    PROVE  HInv'
  <1>1. /\ Clocked /\ AllSend /\ ~Listening /\ at' = "listened"
        /\ UNCHANGED <<firmware, time, quiet, waited, due, found, chatter, steady, lost, missed>>
    BY DEF HInv, ListenEnds, wait_vars, history_vars
  <1>2. time > ListenQuiet \/ time >= ListenFor
    BY <1>1, Times DEF Listening, Quiet, Clocked
  <1>3. ASSUME NEW c \in (steady \cap Running("stock")) \ lost, c \notin found
        PROVE  FALSE
    <2>1. c \in Devices /\ due[c] # Never /\ time + due[c] <= ListenQuiet
      BY <1>1, <1>3 DEF AllSend, Running
    <2>2. due[c] \in Int /\ due[c] >= 1
      BY <1>1, <2>1 DEF Clocked
    <2> QED
      BY <1>1, <1>2, <2>1, <2>2, Times DEF Clocked
  <1>4. Clocked' /\ steady' \subseteq Devices
    BY <1>1 DEF Clocked, HInv
  <1>5. ProbesHear'
    BY <1>1, <1>3 DEF ProbesHear, Running
  <1> QED
    BY <1>1, <1>4, <1>5 DEF HInv

-----------------------------------------------------------------------------
(* The query *)

\* What a question leaves due: an answer, or what was due and one more unanswered.
LEMMA Asked ==
    ASSUME NEW waiting, Ask(waiting), missed \in [Devices -> Nat]
    PROVE  /\ DOMAIN due' = Devices /\ missed' \in [Devices -> Nat]
           /\ \A c \in Devices : due'[c] = waiting[c] \/ due'[c] \in AnswerDelay
           /\ \A c \in Running("runtime") : waiting[c] = Never =>
                  due'[c] \in AnswerDelay \/ missed'[c] = missed[c] + 1
           /\ \A c \in Devices : waiting[c] # Never => due'[c] = waiting[c]
  <1>1. PICK silent \in SUBSET Running("runtime"), delay \in [Devices -> AnswerDelay] :
            LET asked == {c \in Running("runtime") : waiting[c] = Never}
            IN  /\ due' = [c \in Devices |-> IF c \in asked \ silent THEN delay[c] ELSE waiting[c]]
                /\ missed' = [c \in Devices |-> missed[c] + IF c \in asked \cap silent THEN 1 ELSE 0]
    BY DEF Ask
  <1>2. \A c \in Running("runtime") : c \in Devices
    BY DEF Running
  <1> QED
    BY <1>1, <1>2

LEMMA QueryStarts ==
    ASSUME QueryOutlasts, HInv, StartQuery
    PROVE  HInv'
  <1>1. /\ UNCHANGED <<firmware, time, quiet, found, waited, resent, chatter, steady, lost>>
        /\ Fresh /\ Clocked /\ at' = "querying" /\ Ask(Unheard) /\ steady \subseteq Devices
    BY DEF StartQuery, HInv
  <1>2. /\ DOMAIN due' = Devices /\ missed' \in [Devices -> Nat]
        /\ \A c \in Devices : due'[c] = Never \/ due'[c] \in AnswerDelay
        /\ \A c \in Running("runtime") : due'[c] \in AnswerDelay \/ missed'[c] = 1
    <2>1. \A c \in Devices : Unheard[c] = Never
      BY DEF Unheard
    <2>2. \A c \in Running("runtime") : c \in Devices /\ missed[c] = 0
      BY <1>1 DEF Running, Fresh
    <2> QED
      BY <1>1, <2>1, <2>2, Asked DEF Clocked
  <1>3. \A d \in AnswerDelay : d <= QueryFor /\ d # Never
    <2> DEFINE long == RecvTimeout * (MaxChatter + 1)
    <2>1. long \in Nat /\ \A d \in AnswerDelay : long + d <= QueryFor
      BY Times DEF QueryOutlasts
    <2> HIDE DEF long
    <2> QED
      BY <2>1, Times DEF Never
  <1>4. Clocked'
    BY <1>1, <1>2, Times DEF Clocked, Never
  <1>5. Running("runtime")' = Running("runtime") /\ \A c \in Running("runtime") : c \in Devices
    BY <1>1 DEF Running
  <1>6. quiet' = Never /\ waited' = 0 /\ time' = 0 /\ resent' = FALSE /\ chatter' = 0
    BY <1>1 DEF Fresh
  <1>7. /\ \A c \in Running("runtime") : Coming(c)' \/ missed'[c] = 1
        /\ \A c \in Devices : Coming(c)' => time' + due'[c] <= QueryFor
    BY <1>2, <1>3, <1>5, <1>6, Times DEF Coming
  <1>8. AllAsked'
    <2>1. RecvTimeout * 0 + 0 = 0
      BY Times
    <2> QED
      BY <1>1, <1>5, <1>6, <1>7, <2>1, Times DEF AllAsked
  <1> QED
    BY <1>1, <1>4, <1>8 DEF HInv, ProbesHear

LEMMA QueryGoesOn ==
    ASSUME QueryOutlasts, HInv, QueryTick
    PROVE  HInv'
  <1> DEFINE waiting == [c \in Devices |-> Later(c)]
  <1>1. /\ UNCHANGED <<firmware, at, steady, lost>> /\ at = "querying"
        /\ Clocked /\ steady \subseteq Devices
    BY DEF QueryTick, HInv
  <1>2. PICK unasked \in SUBSET Running("runtime"), other \in BOOLEAN :
         LET came     == Arriving \cup unasked
             timedOut == came = {} /\ ~other /\ waited + 1 >= RecvTimeout
         IN  /\ other => chatter < MaxChatter
             /\ chatter' = chatter + IF other THEN 1 ELSE 0
             /\ Waits(came # {} \/ other, came # {})
             /\ found' = found \cup came
             /\ IF Again(timedOut)
                THEN resent' = TRUE /\ Ask(waiting)
                ELSE due' = waiting /\ UNCHANGED <<resent, missed>>
    BY DEF QueryTick
  <1>3. /\ DOMAIN waiting = Devices
        /\ \A c \in Devices : /\ waiting[c] \in Int
                              /\ waiting[c] # Never => waiting[c] >= 1 /\ due[c] # Never
                              /\ due[c] # Never /\ c \notin Arriving =>
                                     waiting[c] = due[c] - 1 /\ waiting[c] # Never
    BY <1>1 DEF Clocked, Never, Later, Arriving
  <1> HIDE DEF waiting
  <1>4. time' = time + 1 /\ waited' \in Nat /\ chatter' \in 0..MaxChatter
        /\ quiet' \in Int /\ quiet' <= time'
    BY <1>1, <1>2, Times DEF Waits, Clocked, Never
  <1>5. /\ DOMAIN due' = Devices /\ missed' \in [Devices -> Nat]
        /\ \A c \in Devices : due'[c] = waiting[c] \/ due'[c] \in AnswerDelay
    BY <1>1, <1>2, <1>3, Asked DEF Clocked
  <1>6. Clocked'
    <2>1. \A c \in Devices : due'[c] \in Int /\ (due'[c] # Never => due'[c] >= 1)
      BY <1>3, <1>5, Times
    <2> QED
      BY <1>1, <1>4, <1>5, <2>1 DEF Clocked
  <1>7. CASE found' # {}
    BY <1>1, <1>6, <1>7 DEF HInv, ProbesHear
  <1>8. CASE found' = {}
    <2>1. found = {} /\ Arriving = {} /\ unasked = {} /\ AllAsked
      BY <1>1, <1>2, <1>8 DEF HInv
    <2>2. quiet' = Never
      BY <1>2, <2>1 DEF AllAsked, Waits
    <2>3. /\ other => chatter' = chatter + 1 /\ waited' = 0
          /\ ~other => chatter' = chatter
          /\ ~other /\ ~(waited + 1 >= RecvTimeout) => waited' = waited + 1
          /\ waited' < RecvTimeout /\ waited \in Nat /\ chatter \in Nat /\ time \in Nat
      BY <1>1, <1>2, <2>1, Times DEF AllAsked, Clocked, Waits
    <2>4. \/ due' = waiting /\ UNCHANGED <<resent, missed>>
          \/ ~resent /\ resent' = TRUE /\ Ask(waiting) /\ ~other /\ waited + 1 >= RecvTimeout
      BY <1>2, <2>1 DEF Again
    <2>5. ~resent' => ~resent /\ ~(~other /\ waited + 1 >= RecvTimeout)
      BY <1>2, <2>1 DEF Again
    <2> DEFINE spent == RecvTimeout * chatter
    <2>6. /\ spent \in Nat /\ RecvTimeout * (chatter + 1) = spent + RecvTimeout
          /\ spent + RecvTimeout <= RecvTimeout * (MaxChatter + 1)
      <3>1. chatter <= MaxChatter /\ chatter \in Nat
        BY <1>1 DEF Clocked
      <3>2. RecvTimeout * (MaxChatter + 1)
              = RecvTimeout * (chatter + 1) + RecvTimeout * (MaxChatter - chatter)
        BY <3>1, Times
      <3>3. /\ RecvTimeout * (MaxChatter - chatter) >= 0
            /\ RecvTimeout * (chatter + 1) = RecvTimeout * chatter + RecvTimeout
        BY <3>1, Times
      <3> QED
        BY <3>1, <3>2, <3>3, Times
    <2>7. ~resent => time <= spent + waited
      BY <2>1 DEF AllAsked
    <2>8. /\ chatter' = chatter + 1 => RecvTimeout * chatter' = spent + RecvTimeout
          /\ chatter' = chatter => RecvTimeout * chatter' = spent
      BY <2>6
    <2> HIDE DEF spent
    <2>9. waited < RecvTimeout
      BY <2>1 DEF AllAsked
    <2>10. ~resent' => time' <= RecvTimeout * chatter' + waited'
      <3> DEFINE spent2 == RecvTimeout * chatter'
      <3>0. /\ time \in Nat /\ waited \in Nat /\ spent \in Nat /\ waited < RecvTimeout
            /\ RecvTimeout \in Nat /\ time' = time + 1 /\ (~resent' => time <= spent + waited)
        BY <1>4, <2>3, <2>5, <2>6, <2>7, <2>9, Times
      <3>1. /\ other => spent2 = spent + RecvTimeout /\ waited' = 0
            /\ ~other => spent2 = spent /\ (~resent' => waited' = waited + 1)
        BY <2>3, <2>5, <2>8
      <3>2. ~resent' => time' <= spent2 + waited'
        <4> HIDE DEF spent2
        <4>1. CASE other
          BY <3>0, <3>1, <4>1
        <4>2. CASE ~other
          BY <3>0, <3>1, <4>2
        <4> QED
          BY <4>1, <4>2
      <3> QED
        BY <3>2
    <2>11. \A c \in steady :
              /\ waiting[c] # Never => time' + waiting[c] <= QueryFor
              /\ Coming(c) => waiting[c] # Never
      <3> SUFFICES ASSUME NEW c \in steady
                   PROVE  /\ waiting[c] # Never => time' + waiting[c] <= QueryFor
                          /\ Coming(c) => waiting[c] # Never
        OBVIOUS
      <3>1. /\ waiting[c] # Never => Coming(c)
            /\ Coming(c) => waiting[c] = due[c] - 1 /\ waiting[c] # Never
            /\ Coming(c) => due[c] \in Int /\ time + due[c] <= QueryFor
        BY <1>1, <1>3, <2>1 DEF Coming, Clocked, AllAsked
      <3> QED
        BY <1>4, <2>3, <3>1, Times
    <2>12. due' = waiting \/ \A d \in AnswerDelay : time' + d <= QueryFor
      <3>1. CASE due' = waiting
        BY <3>1
      <3>2. CASE ~resent
        <4>1. time' <= spent + RecvTimeout
          BY <1>4, <2>3, <2>6, <2>7, <2>9, <3>2, Times
        <4> DEFINE long == RecvTimeout * (MaxChatter + 1)
        <4>2. /\ long \in Nat /\ spent + RecvTimeout <= long
              /\ \A d \in AnswerDelay : d \in Nat /\ long + d <= QueryFor
          BY <2>6, Times DEF QueryOutlasts
        <4> HIDE DEF long
        <4> QED
          BY <1>4, <2>3, <2>6, <4>1, <4>2, Times
      <3> QED
        BY <2>4, <3>1, <3>2
    <2>13. ASSUME NEW c \in steady, Coming(c)'
           PROVE  time' + due'[c] <= QueryFor
      BY <1>1, <1>5, <2>11, <2>12, <2>13 DEF Coming
    <2>14. Running("runtime")' = Running("runtime")
      BY <1>1 DEF Running
    <2>15. ASSUME NEW c \in steady \cap Running("runtime")
           PROVE  Coming(c)' \/ missed'[c] = IF resent' THEN 2 ELSE 1
      <3>1. c \in Devices /\ (Coming(c) \/ missed[c] = IF resent THEN 2 ELSE 1)
        BY <1>1, <2>1 DEF AllAsked
      <3>2. CASE due' = waiting /\ UNCHANGED <<resent, missed>>
        BY <2>11, <3>1, <3>2 DEF Coming
      <3>3. CASE ~resent /\ resent' = TRUE /\ Ask(waiting)
        <4>1. CASE waiting[c] # Never
          BY <1>1, <3>1, <3>3, <4>1, Asked DEF Coming, Clocked
        <4>2. CASE waiting[c] = Never
          <5>1. missed[c] = 1
            BY <2>11, <3>1, <3>3, <4>2
          <5>2. due'[c] \in AnswerDelay \/ missed'[c] = missed[c] + 1
            BY <1>1, <3>3, <4>2, Asked DEF Clocked
          <5> QED
            BY <3>3, <5>1, <5>2, Times DEF Coming, Never
        <4> QED
          BY <4>1, <4>2
      <3> QED
        BY <2>4, <3>2, <3>3
    <2>16. AllAsked'
      BY <1>1, <2>2, <2>3, <2>10, <2>13, <2>14, <2>15 DEF AllAsked
    <2> QED
      BY <1>1, <1>6, <2>16 DEF HInv, ProbesHear
  <1> QED
    BY <1>7, <1>8

\* When the query ends without an answer, everybody was asked twice.
LEMMA QueriedEnough ==
    ASSUME QueryOutlasts, HInv, QueryEnds
    PROVE  HInv'
  <1>1. /\ Clocked /\ ~Querying /\ at = "querying" /\ at' = "queried" /\ steady \subseteq Devices
        /\ UNCHANGED <<firmware, time, quiet, waited, due, found, chatter, steady, lost, missed>>
    BY DEF HInv, QueryEnds, wait_vars, history_vars
  <1>2. Clocked' /\ steady' \subseteq Devices
    BY <1>1 DEF Clocked
  <1>3. ASSUME found = {}, NEW c \in steady \cap Running("runtime")
        PROVE  missed[c] = 2
    <2>1. AllAsked
      BY <1>1, <1>3 DEF HInv
    <2>2. time \in Nat /\ time >= QueryFor
      BY <1>1, <2>1, Times DEF Querying, AllAsked, Clocked
    <2>3. resent
      <3> DEFINE spent == RecvTimeout * chatter
                 long  == RecvTimeout * (MaxChatter + 1)
      <3>1. PICK d \in AnswerDelay : d \in Nat /\ 1 <= d
        BY Times
      <3>2. chatter <= MaxChatter /\ chatter \in Nat
        BY <1>1 DEF Clocked
      <3>3. long = spent + RecvTimeout + RecvTimeout * (MaxChatter - chatter)
            /\ RecvTimeout * (MaxChatter - chatter) >= 0
        BY <3>2, Times
      <3>4. long \in Nat /\ spent \in Nat /\ spent + RecvTimeout <= long /\ long + d <= QueryFor
        BY <3>2, <3>3, Times DEF QueryOutlasts
      <3>5. waited < RecvTimeout /\ (resent \/ time <= spent + waited) /\ waited \in Nat
        BY <1>1, <2>1 DEF AllAsked, Clocked
      <3> HIDE DEF spent, long
      <3> QED
        BY <2>2, <3>1, <3>4, <3>5, Times
    <2>4. ~Coming(c)
      <3>1. Coming(c) => due[c] \in Int /\ due[c] >= 1 /\ time + due[c] <= QueryFor
        BY <1>1, <2>1 DEF Coming, Clocked, AllAsked
      <3> QED
        BY <2>2, <3>1, Times
    <2> QED
      BY <2>1, <2>3, <2>4 DEF AllAsked
  <1>4. ProbesHear'
    BY <1>1, <1>3 DEF ProbesHear, Running
  <1> QED
    BY <1>1, <1>2, <1>4 DEF HInv

-----------------------------------------------------------------------------
(* Theorem: the probes wait long enough *)

LEMMA Fails ==
    ASSUME HInv, ProbeFails
    PROVE  HInv'
  <1>1. /\ at' = "failed" /\ steady' = steady
        /\ UNCHANGED <<firmware, time, quiet, waited, due, chatter, missed>>
    BY DEF ProbeFails, wait_vars, history_vars
  <1> QED
    BY <1>1 DEF HInv, Clocked, ProbesHear

\* A clock that comes, goes or changes is not steady.
LEMMA Turns ==
    ASSUME HInv, Turn
    PROVE  HInv'
  <1>1. /\ at \in {"listening", "querying"}
        /\ UNCHANGED <<at, time, quiet, waited, found, resent, chatter, lost, missed>>
        /\ Clocked /\ steady \subseteq Devices
    BY DEF Turn, HInv
  <1>2. PICK c \in Devices, kind \in {"stock", "runtime", "off"}, first \in Int :
          /\ firmware' = [firmware EXCEPT ![c] = kind]
          /\ due' = [due EXCEPT ![c] = first] /\ (first # Never => first >= 1)
          /\ steady' = steady \ {c}
    <2>1. PICK c \in Devices, kind \in {"stock", "runtime", "off"} :
          /\ firmware' = [firmware EXCEPT ![c] = kind]
          /\ \E first \in CASE at = "listening" /\ kind = "stock"  -> UNION {1..p : p \in Period}
                            [] at = "querying" /\ kind = "runtime" -> AnswerDelay \cup {Never}
                            [] OTHER                               -> {Never} :
               due' = [due EXCEPT ![c] = first]
          /\ steady' = steady \ {c}
      BY DEF Turn
    <2>2. \A x \in UNION {1..p : p \in Period} : x \in Int /\ x >= 1
      BY Times
    <2>3. \A x \in AnswerDelay \cup {Never} : x \in Int /\ (x # Never => x >= 1)
      BY Times DEF Never
    <2>4. PICK first \in CASE at = "listening" /\ kind = "stock"  -> UNION {1..p : p \in Period}
                            [] at = "querying" /\ kind = "runtime" -> AnswerDelay \cup {Never}
                            [] OTHER                               -> {Never} :
               due' = [due EXCEPT ![c] = first]
      BY <2>1
    <2>5. first \in Int /\ (first # Never => first >= 1)
      BY <2>2, <2>3, <2>4
    <2> QED
      BY <2>1, <2>4, <2>5
  <1>3. /\ DOMAIN due' = Devices /\ DOMAIN firmware' = Devices
        /\ \A d \in Devices : due'[d] \in Int /\ (due'[d] # Never => due'[d] >= 1)
        /\ \A d \in steady' : d \in steady /\ due'[d] = due[d]
        /\ \A k, d : d \in steady' \cap Running(k)' => d \in steady \cap Running(k)
    BY <1>1, <1>2 DEF Clocked, Running
  <1>4. Clocked'
    BY <1>1, <1>3 DEF Clocked
  <1>5. at = "listening" => AllSend'
    BY <1>1, <1>3 DEF HInv, AllSend
  <1>6. at = "querying" /\ found = {} => AllAsked'
    BY <1>1, <1>3 DEF HInv, AllAsked, Coming
  <1> QED
    BY <1>1, <1>3, <1>4, <1>5, <1>6 DEF HInv, ProbesHear

LEMMA HearingStep == QueryOutlasts /\ HInv /\ [ProbeNext]_probe_vars => HInv'
  <1> SUFFICES ASSUME QueryOutlasts, HInv, [ProbeNext]_probe_vars PROVE HInv'
    OBVIOUS
  <1>1. CASE UNCHANGED probe_vars
    BY <1>1 DEF probe_vars, wait_vars, history_vars, HInv, Clocked, Fresh, AllSend, AllAsked, Coming,
       ProbesHear, Running
  <1> QED
    BY <1>1, ListenStarts, ListenGoesOn, ListenedEnough, QueryStarts, QueryGoesOn, QueriedEnough,
       Fails, Turns DEF ProbeNext

\* A listener that was not cut short has heard every clock that ran stock firmware all
\* along and lost no broadcast, and a query that was not cut short and found nobody was
\* left unanswered twice by every clock that ran the runtime all along
\* (listen_broadcasts, mdns_query), if the query lasts long enough for the second question.
THEOREM WaitsLongEnough ==
    ASSUME QueryOutlasts
    PROVE  ProbeSpec => []ProbesHear
  <1>1. HInv /\ [ProbeNext]_probe_vars => HInv'
    BY HearingStep
  <1>2. HInv => ProbesHear
    BY DEF HInv
  <1> QED
    BY <1>1, <1>2, HearingStarts, PTL DEF ProbeSpec

-----------------------------------------------------------------------------
(* Least numbers, which take the place of induction *)

\* A set of numbers that has one has a least one.
LEMMA Least ==
    ASSUME NEW I, I # {}, I \subseteq Nat
    PROVE  \E x \in I : \A y \in I : x <= y
  <1> DEFINE R == OpToRel(<, Nat)
  <1>1. IsWellFoundedOn(R, Nat)
    BY NatLessThanWellFounded
  <1>2. \A x, y \in Nat : <<y, x>> \in R <=> y < x
    BY DEF OpToRel
  <1> HIDE DEF R
  <1>3. \E m \in I : \A y \in I : ~(<<y, m>> \in R)
    BY <1>1, WFMin
  <1>4. ASSUME NEW m \in I, \A y \in I : ~(<<y, m>> \in R)
        PROVE  \A y \in I : m <= y
    <2>1. SUFFICES ASSUME NEW y \in I
                   PROVE  m <= y
      OBVIOUS
    <2>2. m \in Nat /\ y \in Nat /\ ~(y < m)
      BY <1>2, <1>4
    <2> QED
      BY <2>2
  <1> QED
    BY <1>3, <1>4

\* The numbers 0..n, of which S has the first, and the next to each it has.
LEMMA Climb ==
    ASSUME NEW n \in Nat, NEW S, 0 \in S, \A i \in 1..n : i - 1 \in S => i \in S
    PROVE  \A i \in 0..n : i \in S
  <1> DEFINE I == {i \in 0..n : i \notin S}
  <1>1. CASE I # {}
    <2>0. I \subseteq Nat
      OBVIOUS
    <2> HIDE DEF I
    <2>1. PICK x \in I : \A y \in I : x <= y
      BY <1>1, <2>0, Least
    <2> USE DEF I
    <2>2. x \in 1..n /\ x - 1 \in 0..n /\ ~(x <= x - 1)
      BY <2>1
    <2>3. x - 1 \in S
      BY <2>1, <2>2
    <2> QED
      BY <2>1, <2>2, <2>3
  <1>2. CASE I = {}
    BY <1>2
  <1> QED
    BY <1>1, <1>2

Stays(n, D, G) == \A i \in 1..n, x \in D : G[<<i, x>>] \in D

Folds(n, D, start, G, f) == /\ f \in [0..n -> D] /\ f[0] = start
                            /\ \A i \in 1..n : f[i] = G[<<i, f[i - 1]>>]

\* What is made step by step out of what was made before.
LEMMA Fold ==
    ASSUME NEW n \in Nat, NEW D, NEW start, start \in D, NEW G, Stays(n, D, G)
    PROVE  \E f : Folds(n, D, start, G, f)
  <1> DEFINE Made(k, f) == Folds(k, D, start, G, f)
             S == {k \in 0..n : \E f : Made(k, f)}
  <1> USE DEF Folds
  <1>1. 0 \in S
    <2>1. Made(0, [i \in 0..0 |-> start])
      OBVIOUS
    <2> HIDE DEF Made
    <2> QED
      BY <2>1
  <1>2. ASSUME NEW k \in 1..n, k - 1 \in S
        PROVE  k \in S
    <2>1. PICK f : Made(k - 1, f)
      BY <1>2
    <2> DEFINE g == [i \in 0..k |-> IF i < k THEN f[i] ELSE G[<<k, f[k - 1]>>]]
    <2>2. k - 1 \in 0..k - 1 /\ f[k - 1] \in D
      BY <2>1
    <2>3. G[<<k, f[k - 1]>>] \in D
      BY <2>2 DEF Stays
    <2>4. \A i \in 0..k : i < k => i \in 0..k - 1 /\ f[i] \in D
      BY <2>1
    <2>5. g \in [0..k -> D]
      BY <2>3, <2>4
    <2>6. g[0] = start
      BY <2>1
    <2>7. ASSUME NEW i \in 1..k
          PROVE  g[i] = G[<<i, g[i - 1]>>]
      <3>1. g[i - 1] = f[i - 1]
        OBVIOUS
      <3>2. CASE i < k
        <4>1. i \in 1..k - 1
          BY <3>2
        <4>2. f[i] = G[<<i, f[i - 1]>>]
          BY <2>1, <4>1
        <4>3. g[i] = f[i]
          BY <3>2
        <4> HIDE DEF g
        <4> QED
          BY <3>1, <4>2, <4>3
      <3>3. CASE i = k
        <4>1. g[k] = G[<<k, f[k - 1]>>]
          OBVIOUS
        <4> HIDE DEF g
        <4> QED
          BY <3>1, <3>3, <4>1
      <3>4. i < k \/ i = k
        BY <1>2, <2>7
      <3> HIDE DEF g
      <3> QED
        BY <3>2, <3>3, <3>4
    <2>8. Made(k, g)
      BY <2>5, <2>6, <2>7
    <2> HIDE DEF Made
    <2> QED
      BY <2>8
  <1>3. n \in S
    <2>1. \A k \in 1..n : k - 1 \in S => k \in S
      BY <1>2
    <2> HIDE DEF S
    <2> QED
      BY <1>1, <2>1, Climb
  <1> HIDE DEF Folds
  <1> QED
    BY <1>3

-----------------------------------------------------------------------------
(* Rows, and what is merged from them *)

RowSet == [transport : Transports, ip : Clocks \cup {None}, mac : Clocks \cup {None},
           kind : {"stock", "runtime"}, name : Clocks \cup {None}]

\* A row is about one clock: the one its transport leads to.
About(r)  == r.transport.of
OfOne(r)  == r.ip \in {About(r), None} /\ r.mac \in {About(r), None}
Keys      == Clocks \cup Transports

LEMMA KeyIs ==
    ASSUME NEW r \in RowSet, OfOne(r)
    PROVE  /\ MergeKey(r) \in Keys /\ About(r) \in Clocks
           /\ r.ip # None => MergeKey(r) = r.ip /\ r.ip = About(r)
           /\ \A q \in RowSet : OfOne(q) /\ MergeKey(q) = MergeKey(r) =>
                 About(q) = About(r) /\ (q.ip = r.ip) /\ (r.ip = None => q.transport = r.transport)
  BY Identities DEF Identities, RowSet, Transports, About, OfOne, Keys, MergeKey

LEMMA FilledIs ==
    ASSUME NEW keep \in RowSet, NEW r \in RowSet
    PROVE  LET first == IF r.mac # None /\ keep.mac = None THEN r ELSE keep
               other == IF first = r THEN keep ELSE r
           IN  Filled(keep, r) = [transport |-> first.transport,
                                  ip |-> IF first.ip # None THEN first.ip ELSE other.ip,
                                  mac |-> IF first.mac # None THEN first.mac ELSE other.mac,
                                  kind |-> first.kind,
                                  name |-> IF first.name # None THEN first.name ELSE other.name]
  <1> DEFINE first == IF r.mac # None /\ keep.mac = None THEN r ELSE keep
             other == IF first = r THEN keep ELSE r
  <1>1. first \in RowSet /\ other \in RowSet
    OBVIOUS
  <1>2. Filled(keep, r) = [f \in DOMAIN keep |-> IF f = "transport" \/ first[f] # None THEN first[f]
                                                  ELSE other[f]]
    BY DEF Filled
  <1>3. DOMAIN keep = {"transport", "ip", "mac", "kind", "name"}
    BY DEF RowSet
  <1> HIDE DEF first, other
  <1>4. first.kind # None
    BY <1>1 DEF RowSet, None
  <1> QED
    BY <1>1, <1>2, <1>3, <1>4 DEF first, other

LEMMA CombineIs ==
    ASSUME NEW keep \in RowSet, NEW r \in RowSet, OfOne(keep), OfOne(r), MergeKey(keep) = MergeKey(r)
    PROVE  LET c == Combine(keep, r)
           IN  /\ c \in RowSet /\ OfOne(c) /\ MergeKey(c) = MergeKey(keep)
               /\ About(c) = About(keep) /\ About(c) = About(r)
               /\ "runtime" \in {keep.kind, r.kind} => c.kind = "runtime"
               /\ keep.mac # None \/ r.mac # None => c.mac # None
  <1> DEFINE first == IF r.mac # None /\ keep.mac = None THEN r ELSE keep
             other == IF first = r THEN keep ELSE r
             filled == Filled(keep, r)
             c == Combine(keep, r)
  <1>1. /\ About(keep) = About(r) /\ keep.ip = r.ip
        /\ keep.ip = None => keep.transport = r.transport
    BY KeyIs
  <1>2. /\ first \in RowSet /\ other \in RowSet /\ OfOne(first) /\ OfOne(other)
        /\ About(first) = About(keep) /\ About(other) = About(keep)
        /\ first.ip = keep.ip /\ other.ip = keep.ip
        /\ keep.ip = None => first.transport = keep.transport
        /\ first.kind \in {keep.kind, r.kind}
        /\ keep.mac # None \/ r.mac # None => first.mac # None
    BY <1>1
  <1>3. filled = [transport |-> first.transport,
                  ip |-> IF first.ip # None THEN first.ip ELSE other.ip,
                  mac |-> IF first.mac # None THEN first.mac ELSE other.mac,
                  kind |-> first.kind,
                  name |-> IF first.name # None THEN first.name ELSE other.name]
    BY FilledIs
  <1>4. c = IF "runtime" \in {keep.kind, r.kind} THEN [filled EXCEPT !.kind = "runtime"] ELSE filled
    BY DEF Combine
  <1> HIDE DEF first, other, filled, c
  <1>5. /\ filled \in RowSet /\ OfOne(filled) /\ About(filled) = About(keep)
        /\ filled.ip = keep.ip /\ (keep.ip = None => filled.transport = keep.transport)
        /\ first.mac # None => filled.mac # None
    BY <1>2, <1>3 DEF RowSet, About, OfOne
  <1>6. /\ c \in RowSet /\ c.ip = filled.ip /\ c.transport = filled.transport /\ c.mac = filled.mac
        /\ "runtime" \in {keep.kind, r.kind} => c.kind = "runtime"
    BY <1>4, <1>5 DEF RowSet
  <1>7. OfOne(c) /\ About(c) = About(keep) /\ MergeKey(c) = MergeKey(keep)
    BY <1>5, <1>6 DEF OfOne, About, MergeKey
  <1> QED
    BY <1>1, <1>2, <1>5, <1>6, <1>7 DEF c

\* Tables of rows by key.
Keyed(t) == \A k \in DOMAIN t : OfOne(t[k]) /\ MergeKey(t[k]) = k
Tables   == {t \in UNION {[K -> RowSet] : K \in SUBSET Keys} : Keyed(t)}

\* merge_rows, row by row.
LEMMA MergedIs ==
    ASSUME rows \in Seq(RowSet), \A i \in 1..Len(rows) : OfOne(rows[i])
    PROVE  \E f \in [0..Len(rows) -> Tables] :
              /\ f[0] = <<>>
              /\ \A i \in 1..Len(rows) : f[i] = Merged(f[i - 1], rows[i])
              /\ MergeRows = Range(f[Len(rows)])
  <1> DEFINE n == Len(rows)
             D == Tables
             G == [x \in (1..n) \X D |-> Merged(x[2], rows[x[1]])]
             Body(f, i) == IF i = 0 THEN <<>> ELSE Merged(f[i - 1], rows[i])
             merged == CHOOSE f : f = [i \in 0..n |-> Body(f, i)]
  <1>1. n \in Nat /\ \A i \in 1..n : rows[i] \in RowSet /\ OfOne(rows[i])
    BY LenProperties, ElementOfSeq
  <1>2. <<>> \in D
    <2>1. DOMAIN <<>> = {} /\ <<>> \in [{} -> RowSet]
      OBVIOUS
    <2> QED
      BY <2>1 DEF Tables, Keyed
  <1>3. \A t \in D, i \in 1..n : Merged(t, rows[i]) \in D
    <2> TAKE t \in D, i \in 1..n
    <2> DEFINE r == rows[i]
               key == MergeKey(r)
               u == Merged(t, r)
    <2>1. r \in RowSet /\ OfOne(r) /\ key \in Keys
      BY <1>1, KeyIs
    <2>2. PICK K \in SUBSET Keys : t \in [K -> RowSet]
      BY DEF Tables
    <2> HIDE DEF r
    <2>3. u = [k \in K \cup {key} |-> IF k # key THEN t[k] ELSE IF key \in K THEN Combine(t[key], r) ELSE r]
      BY <2>2 DEF Merged
    <2>4. \A k \in K : t[k] \in RowSet /\ OfOne(t[k]) /\ MergeKey(t[k]) = k
      BY <2>2 DEF Tables, Keyed
    <2>5. key \in K => Combine(t[key], r) \in RowSet /\ OfOne(Combine(t[key], r))
                       /\ MergeKey(Combine(t[key], r)) = key
      BY <2>1, <2>4, CombineIs
    <2> HIDE DEF u, key
    <2>6. K \cup {key} \in SUBSET Keys /\ DOMAIN u = K \cup {key}
      BY <2>1, <2>3
    <2>7. \A k \in K \cup {key} : u[k] \in RowSet /\ OfOne(u[k]) /\ MergeKey(u[k]) = k
      <3> TAKE k \in K \cup {key}
      <3>1. CASE k # key
        BY <2>3, <2>4, <3>1
      <3>2. CASE k = key /\ key \in K
        BY <2>3, <2>5, <3>2
      <3>3. CASE k = key /\ key \notin K
        BY <2>1, <2>3, <3>3 DEF key
      <3> QED
        BY <3>1, <3>2, <3>3
    <2>8. u \in [K \cup {key} -> RowSet]
      BY <2>3, <2>6, <2>7
    <2>9. u \in Tables
      BY <2>6, <2>7, <2>8 DEF Tables, Keyed
    <2> QED
      BY <2>9 DEF u, r
  <1>4. \A i \in 1..n, t \in D : G[<<i, t>>] = Merged(t, rows[i])
    OBVIOUS
  <1>5. Stays(n, D, G)
    BY <1>3, <1>4 DEF Stays
  <1> HIDE DEF G, n, D
  <1>6. PICK f : f \in [0..n -> D] /\ f[0] = <<>> /\ \A i \in 1..n : f[i] = G[<<i, f[i - 1]>>]
    <2>1. \E f : Folds(n, D, <<>>, G, f)
      BY <1>1, <1>2, <1>5, Fold
    <2> QED
      BY <2>1 DEF Folds
  <1>7. \A i \in 1..n : f[i] = Merged(f[i - 1], rows[i])
    <2> TAKE i \in 1..n
    <2>1. f[i - 1] \in D
      BY <1>1, <1>6
    <2> QED
      BY <1>4, <1>6, <2>1
  <1>8. f = [i \in 0..n |-> Body(f, i)]
    <2>1. \A i \in 0..n : f[i] = Body(f, i)
      BY <1>1, <1>6, <1>7
    <2> QED
      BY <1>6, <2>1
  <1>9. merged = [i \in 0..n |-> Body(merged, i)]
    <2> HIDE DEF Body
    <2> QED
      BY <1>8
  <1> HIDE DEF merged
  <1>10. \A i \in 0..n : merged[i] = f[i]
    <2> DEFINE S == {i \in 0..n : merged[i] = f[i]}
    <2>1. 0 \in S
      BY <1>1, <1>6, <1>9
    <2>2. ASSUME NEW i \in 1..n, i - 1 \in S
          PROVE  i \in S
      <3>1. i \in 0..n /\ i # 0 /\ merged[i - 1] = f[i - 1]
        BY <1>1, <2>2
      <3> QED
        BY <1>7, <1>9, <3>1
    <2> HIDE DEF S
    <2>3. \A i \in 0..n : i \in S
      BY <1>1, <2>1, <2>2, Climb
    <2> QED
      BY <2>3 DEF S
  <1>11. MergeRows = Range(merged[n])
    BY DEF MergeRows, n, merged
  <1>12. f \in [0..n -> Tables] /\ n \in 0..n
    BY <1>1, <1>6 DEF D
  <1> QED
    BY <1>1, <1>6, <1>7, <1>10, <1>11, <1>12 DEF n

\* A merged row is of a clock that has a row, of every row's clock there is one, and the
\* one at the address of a row of the runtime is of the runtime, and has a mac if a row of
\* that address has one.
LEMMA MergeRowsIs ==
    ASSUME rows \in Seq(RowSet), \A i \in 1..Len(rows) : OfOne(rows[i])
    PROVE  /\ \A m \in MergeRows : /\ m \in RowSet /\ OfOne(m)
                                   /\ \E i \in 1..Len(rows) : About(rows[i]) = About(m)
           /\ \A i \in 1..Len(rows) : \E m \in MergeRows : About(m) = About(rows[i])
           /\ \A m \in MergeRows, i \in 1..Len(rows) :
                 m.ip # None /\ rows[i].ip = m.ip =>
                    /\ rows[i].kind = "runtime" => m.kind = "runtime"
                    /\ rows[i].mac # None => m.mac # None
           /\ IsFiniteSet(MergeRows)
  <1> DEFINE n == Len(rows)
             K(i) == {MergeKey(rows[j]) : j \in 1..i}
  <1>1. n \in Nat /\ \A i \in 1..n : rows[i] \in RowSet /\ OfOne(rows[i])
    BY LenProperties, ElementOfSeq
  <1>2. PICK f \in [0..n -> Tables] :
              /\ f[0] = <<>>
              /\ \A i \in 1..n : f[i] = Merged(f[i - 1], rows[i])
              /\ MergeRows = Range(f[n])
    BY MergedIs
  <1>3. \A i \in 0..n : \A k \in DOMAIN f[i] : f[i][k] \in RowSet /\ OfOne(f[i][k]) /\ MergeKey(f[i][k]) = k
    <2> TAKE i \in 0..n
    <2>1. f[i] \in Tables
      BY <1>2
    <2>2. PICK Q : f[i] \in [Q -> RowSet]
      BY <2>1 DEF Tables
    <2> QED
      BY <2>1, <2>2 DEF Tables, Keyed
  <1>4. \A i \in 1..n, j \in 1..n : MergeKey(rows[j]) = MergeKey(rows[i]) => About(rows[j]) = About(rows[i])
    BY <1>1, KeyIs
  <1> DEFINE Right(i) ==
                 /\ DOMAIN f[i] = K(i)
                 /\ \A j \in 1..i : /\ About(f[i][MergeKey(rows[j])]) = About(rows[j])
                                    /\ rows[j].kind = "runtime" => f[i][MergeKey(rows[j])].kind = "runtime"
                                    /\ rows[j].mac # None => f[i][MergeKey(rows[j])].mac # None
             S == {i \in 0..n : Right(i)}
  <1>5. 0 \in S
    <2>1. K(0) = {} /\ DOMAIN f[0] = {} /\ 1..0 = {}
      BY <1>2
    <2> QED
      BY <1>1, <2>1
  <1>6. ASSUME NEW i \in 1..n, i - 1 \in S
        PROVE  i \in S
    <2> DEFINE r == rows[i]
               key == MergeKey(r)
               t == f[i - 1]
               u == f[i]
    <2>1. i - 1 \in 0..n /\ i \in 0..n /\ r \in RowSet /\ OfOne(r) /\ Right(i - 1) /\ i \in 1..i
      BY <1>1, <1>6
    <2>2. \A j \in 1..i : j \in 1..n /\ (j \in 1..(i - 1) \/ j = i)
      BY <1>1
    <2>3. u = [k \in DOMAIN t \cup {key} |->
                  IF k # key THEN t[k] ELSE IF key \in DOMAIN t THEN Combine(t[key], r) ELSE r]
      BY <1>2 DEF Merged
    <2>4. K(i) = K(i - 1) \cup {key}
      <3>1. 1..i = 1..(i - 1) \cup {i}
        BY <1>1
      <3> QED
        BY <3>1
    <2>5. DOMAIN t = K(i - 1)
          /\ \A k \in DOMAIN t : t[k] \in RowSet /\ OfOne(t[k]) /\ MergeKey(t[k]) = k
      BY <1>3, <2>1
    <2>6. key \in DOMAIN t => About(Combine(t[key], r)) = About(r)
                              /\ ("runtime" \in {t[key].kind, r.kind} => Combine(t[key], r).kind = "runtime")
                              /\ (t[key].mac # None \/ r.mac # None => Combine(t[key], r).mac # None)
      BY <2>1, <2>5, CombineIs
    <2>7. \A j \in 1..(i - 1) : /\ MergeKey(rows[j]) \in DOMAIN t
                                /\ About(t[MergeKey(rows[j])]) = About(rows[j])
                                /\ rows[j].kind = "runtime" => t[MergeKey(rows[j])].kind = "runtime"
                                /\ rows[j].mac # None => t[MergeKey(rows[j])].mac # None
      BY <2>1, <2>5
    <2>8. \A j \in 1..i : MergeKey(rows[j]) = key => About(rows[j]) = About(r)
      BY <1>4, <2>2
    <2> HIDE DEF K, t, u, key, S
    <2>9. ASSUME NEW j \in 1..i
          PROVE  /\ About(u[MergeKey(rows[j])]) = About(rows[j])
                 /\ rows[j].kind = "runtime" => u[MergeKey(rows[j])].kind = "runtime"
                 /\ rows[j].mac # None => u[MergeKey(rows[j])].mac # None
      <3>1. CASE MergeKey(rows[j]) # key
        <4>1. j \in 1..(i - 1)
          BY <2>2, <3>1 DEF key
        <4>2. u[MergeKey(rows[j])] = t[MergeKey(rows[j])]
          BY <2>3, <2>7, <3>1, <4>1
        <4> QED
          BY <2>7, <4>1, <4>2
      <3>2. CASE MergeKey(rows[j]) = key /\ key \in DOMAIN t
        <4>1. u[key] = Combine(t[key], r)
          BY <2>3, <3>2
        <4>2. /\ rows[j].kind = "runtime" => "runtime" \in {t[key].kind, r.kind}
              /\ rows[j].mac # None => t[key].mac # None \/ r.mac # None
          BY <2>2, <2>7, <3>2
        <4> QED
          BY <2>6, <2>8, <3>2, <4>1, <4>2
      <3>3. CASE MergeKey(rows[j]) = key /\ key \notin DOMAIN t
        <4>1. u[key] = r /\ j = i
          BY <2>2, <2>3, <2>7, <3>3
        <4> QED
          BY <3>3, <4>1
      <3> QED
        BY <3>1, <3>2, <3>3
    <2>10. DOMAIN u = K(i)
      BY <2>3, <2>4, <2>5
    <2> QED
      BY <2>1, <2>9, <2>10 DEF S, u
  <1>7. Right(n)
    <2> HIDE DEF S
    <2>1. \A i \in 0..n : i \in S
      BY <1>1, <1>5, <1>6, Climb
    <2>2. n \in S
      BY <1>1, <2>1
    <2> QED
      BY <2>2 DEF S
  <1> DEFINE u == f[n]
  <1>8. /\ DOMAIN u = K(n) /\ MergeRows = {u[k] : k \in DOMAIN u}
        /\ \A j \in 1..n : /\ About(u[MergeKey(rows[j])]) = About(rows[j])
                           /\ rows[j].kind = "runtime" => u[MergeKey(rows[j])].kind = "runtime"
                           /\ rows[j].mac # None => u[MergeKey(rows[j])].mac # None
        /\ \A k \in DOMAIN u : u[k] \in RowSet /\ OfOne(u[k]) /\ MergeKey(u[k]) = k
    BY <1>1, <1>2, <1>3, <1>7 DEF Range
  <1> HIDE DEF u, Right, S
  <1>9. ASSUME NEW m \in MergeRows
        PROVE  /\ m \in RowSet /\ OfOne(m)
               /\ \E i \in 1..n : About(rows[i]) = About(m)
    <2>1. PICK k \in DOMAIN u : m = u[k]
      BY <1>8
    <2>2. PICK j \in 1..n : k = MergeKey(rows[j])
      BY <1>8
    <2> HIDE DEF n
    <2> QED
      BY <1>8, <2>1, <2>2
  <1>10. ASSUME NEW i \in 1..n
         PROVE  \E m \in MergeRows : About(m) = About(rows[i])
    <2>1. MergeKey(rows[i]) \in DOMAIN u
      BY <1>8
    <2> QED
      BY <1>8, <2>1
  <1>11. ASSUME NEW m \in MergeRows, NEW i \in 1..n, m.ip # None, rows[i].ip = m.ip
         PROVE  /\ rows[i].kind = "runtime" => m.kind = "runtime"
                /\ rows[i].mac # None => m.mac # None
    <2>1. PICK k \in DOMAIN u : m = u[k]
      BY <1>8
    <2>2. MergeKey(m) = k /\ MergeKey(m) = m.ip /\ MergeKey(rows[i]) = m.ip
      BY <1>8, <1>11, <2>1 DEF MergeKey
    <2> QED
      BY <1>8, <1>11, <2>1, <2>2
  <1>12. IsFiniteSet(MergeRows)
    <2> DEFINE g == [j \in 1..n |-> u[MergeKey(rows[j])]]
    <2>1. \A j \in 1..n : MergeKey(rows[j]) \in DOMAIN u
      BY <1>8
    <2>2. g \in [1..n -> MergeRows]
      BY <1>8, <2>1
    <2>3. \A m \in MergeRows : \E j \in 1..n : g[j] = m
      <3> TAKE m \in MergeRows
      <3>1. PICK k \in DOMAIN u : m = u[k]
        BY <1>8
      <3>2. PICK j \in 1..n : k = MergeKey(rows[j])
        BY <1>8
      <3> QED
        BY <3>1, <3>2
    <2> HIDE DEF g, n
    <2>4. g \in Surjection(1..n, MergeRows)
      BY <2>2, <2>3 DEF Surjection
    <2>5. IsFiniteSet(1..n)
      BY <1>1, FS_Interval
    <2> QED
      BY <2>4, <2>5, FS_Surjection
  <1> QED
    BY <1>9, <1>10, <1>11, <1>12

-----------------------------------------------------------------------------
(* What is in the rows, and what has been found *)

\* A clock that a probe found has a row, and one at its address that says so when the
\* runtime answered.
Has(s) == \E i \in 1..Len(rows) :
             /\ About(rows[i]) = s[1]
             /\ s[2] = "runtime" => rows[i].ip = s[1] /\ rows[i].kind = "runtime"

\* Or main has yet to add its row.
Pending(s) == \/ s[2] = "stock" /\ s[1] \in heard
              \/ s[2] = "runtime" /\ s[1] \in named

Known ==
    /\ rows \in Seq(RowSet)
    /\ \A i \in 1..Len(rows) : OfOne(rows[i]) /\ \E s \in seen : s[1] = About(rows[i])
    /\ \A s \in seen : s[1] \in Clocks /\ (Has(s) \/ Pending(s))
    /\ \A c \in heard : <<c, "stock">> \in seen
    /\ \A c \in named : <<c, "runtime">> \in seen

\* Only adb replaces a row; it does so before any other row is added.
RowsInv ==
    /\ Known
    /\ todo \subseteq Transports
    /\ pc \in {"start", "adb"} => \A s \in seen : s[2] = "runtime" => s[1] \in named
    /\ pc \in {"mdns", "done"} => listener = "ended" /\ heard = {}
    /\ pc = "done" => mdns = "ended" /\ named = {}
    /\ mdns = "browse" => named = {}

LEMMA RowsStart == Init => RowsInv
  BY EmptySeq DEF Init, RowsInv, Known

\* The rows, after one more.
LEMMA Appended ==
    ASSUME rows \in Seq(RowSet), NEW row \in RowSet, rows' = Append(rows, row)
    PROVE  /\ rows' \in Seq(RowSet)
           /\ \A i \in 1..Len(rows) : i \in 1..Len(rows') /\ rows'[i] = rows[i]
           /\ \A i \in 1..Len(rows') : rows'[i] = row \/ (i \in 1..Len(rows) /\ rows'[i] = rows[i])
           /\ \E i \in 1..Len(rows') : rows'[i] = row
  <1> DEFINE n == Len(rows)
  <1>1. n \in Nat
    BY LenProperties
  <1>2. /\ rows' \in Seq(RowSet) /\ Len(rows') = n + 1
        /\ \A i \in 1..n : rows'[i] = rows[i]
        /\ rows'[n + 1] = row
    BY AppendProperties
  <1> HIDE DEF n
  <1>3. \A i \in 1..(n + 1) : i \in 1..n \/ i = n + 1
    BY <1>1
  <1>4. n + 1 \in 1..(n + 1) /\ \A i \in 1..n : i \in 1..(n + 1)
    BY <1>1
  <1> QED
    BY <1>2, <1>3, <1>4 DEF n

\* A row is added of a clock that was found.
LEMMA Adds ==
    ASSUME rows \in Seq(RowSet),
           \A i \in 1..Len(rows) : OfOne(rows[i]) /\ \E s \in seen : s[1] = About(rows[i]),
           NEW row \in RowSet, OfOne(row), rows' = Append(rows, row),
           seen \subseteq seen', \E s \in seen' : s[1] = About(row)
    PROVE  /\ rows' \in Seq(RowSet)
           /\ \A i \in 1..Len(rows') : OfOne(rows'[i]) /\ \E s \in seen' : s[1] = About(rows'[i])
           /\ \A s \in seen' : Has(s) => Has(s)'
           /\ \A s \in seen' : /\ About(row) = s[1]
                               /\ s[2] = "runtime" => row.ip = s[1] /\ row.kind = "runtime"
                               => Has(s)'
  <1>1. /\ rows' \in Seq(RowSet)
        /\ \A i \in 1..Len(rows) : i \in 1..Len(rows') /\ rows'[i] = rows[i]
        /\ \A i \in 1..Len(rows') : rows'[i] = row \/ (i \in 1..Len(rows) /\ rows'[i] = rows[i])
        /\ \E i \in 1..Len(rows') : rows'[i] = row
    BY Appended
  <1>2. \A i \in 1..Len(rows') : OfOne(rows'[i]) /\ \E s \in seen' : s[1] = About(rows'[i])
    BY <1>1
  <1>3. \A s \in seen' : Has(s) => Has(s)'
    BY <1>1 DEF Has
  <1>4. ASSUME NEW s \in seen', About(row) = s[1],
               s[2] = "runtime" => row.ip = s[1] /\ row.kind = "runtime"
        PROVE  Has(s)'
    BY <1>1, <1>4 DEF Has
  <1> QED
    BY <1>1, <1>2, <1>3, <1>4

\* The rows at an address.
LEMMA RowIs ==
    ASSUME NEW c \in Clocks, NEW mac \in {c, None}, NEW kind \in {"stock", "runtime"},
           NEW name \in {c, None}
    PROVE  LET row == Row(Tcp(c), c, mac, kind, name)
           IN  /\ row \in RowSet /\ OfOne(row) /\ About(row) = c
               /\ row.ip = c /\ row.kind = kind
  BY DEF Row, Tcp, RowSet, Transports, OfOne, About

-----------------------------------------------------------------------------
(* The steps *)

\* An address of the sweep tells what is there.
LEMMA ToldRows ==
    ASSUME Known, NEW c \in Clocks, NEW mac \in {c, None}, NEW kind \in {"stock", "runtime"},
           kind = "runtime" => mac = None,
           Told(c, mac, kind), UNCHANGED <<heard, named>>
    PROVE  Known'
  <1> DEFINE row == Row(Tcp(c), c, mac, kind, None)
             new == <<c, kind>>
  <1>1. /\ row \in RowSet /\ OfOne(row) /\ About(row) = c /\ row.ip = c /\ row.kind = kind
    BY RowIs
  <1>2. /\ rows' = IF \E i \in DOMAIN rows : mac # None /\ rows[i].mac = mac THEN rows
                   ELSE Append(rows, row)
        /\ seen' = seen \cup {new}
    BY DEF Told
  <1>3. new[1] = c /\ new[2] = kind /\ new \in seen'
    BY <1>2
  <1> HIDE DEF row, new
  <1>4. CASE \E i \in DOMAIN rows : mac # None /\ rows[i].mac = mac
    <2>1. rows' = rows
      BY <1>2, <1>4
    <2>2. /\ DOMAIN rows = 1..Len(rows)
          /\ \A i \in 1..Len(rows) : rows[i] \in RowSet /\ OfOne(rows[i])
      BY LenProperties, ElementOfSeq DEF Known
    <2>3. PICK i \in 1..Len(rows) : mac # None /\ rows[i].mac = mac
      BY <1>4, <2>2
    <2>4. About(rows[i]) = c /\ kind # "runtime"
      BY <2>2, <2>3, Identities DEF OfOne, Identities
    <2>5. Has(new)'
      BY <1>3, <2>1, <2>4 DEF Has
    <2>6. \A s \in seen : /\ Has(s) => Has(s)'
                          /\ Pending(s) => Pending(s)'
      BY <2>1 DEF Has, Pending
    <2> QED
      BY <1>2, <1>3, <2>1, <2>5, <2>6 DEF Known
  <1>5. CASE ~ \E i \in DOMAIN rows : mac # None /\ rows[i].mac = mac
    <2>1. rows' = Append(rows, row)
      BY <1>2, <1>5
    <2>2. \E s \in seen' : s[1] = About(row)
      BY <1>1, <1>3
    <2>3. /\ rows' \in Seq(RowSet)
          /\ \A i \in 1..Len(rows') : OfOne(rows'[i]) /\ \E s \in seen' : s[1] = About(rows'[i])
          /\ \A s \in seen' : Has(s) => Has(s)'
          /\ Has(new)'
      BY <1>1, <1>2, <1>3, <2>1, <2>2, Adds DEF Known
    <2>4. \A s \in seen : Pending(s) => Pending(s)'
      BY DEF Pending
    <2> QED
      BY <1>2, <1>3, <2>3, <2>4 DEF Known
  <1> QED
    BY <1>4, <1>5

LEMMA SweepRows ==
    ASSUME RowsInv, NEW c \in Clocks, GetBase(c) \/ GetStatus(c)
    PROVE  RowsInv'
  <1>1. pc = "sweep" /\ pc' = "sweep" /\ UNCHANGED <<todo, listener, mdns, heard, named>>
    BY DEF GetBase, GetStatus
  <1>2. CASE UNCHANGED <<rows, seen>>
    BY <1>1, <1>2 DEF RowsInv, Known, Has, Pending
  <1>3. CASE \E mac \in {c, None} : Told(c, mac, "stock")
    BY <1>1, <1>3, ToldRows DEF RowsInv
  <1>4. CASE Told(c, None, "runtime")
    BY <1>1, <1>4, ToldRows DEF RowsInv
  <1> QED
    BY <1>2, <1>3, <1>4 DEF GetBase, GetStatus

\* A clock is found beside main.
LEMMA FoundRows ==
    ASSUME RowsInv, NEW c \in Clocks, NEW kind \in {"stock", "runtime"},
           UNCHANGED <<rows, pc, todo, listener, mdns>>, seen' = seen \cup {<<c, kind>>},
           kind = "stock" => listener = "listening" /\ heard' = heard \cup {c} /\ named' = named,
           kind = "runtime" => mdns = "query" /\ named' = named \cup {c} /\ heard' = heard
    PROVE  RowsInv'
  <1> DEFINE new == <<c, kind>>
  <1>1. UNCHANGED <<rows, pc, todo, listener, mdns>> /\ seen' = seen \cup {new}
    OBVIOUS
  <1>2. /\ heard \subseteq heard' /\ named \subseteq named'
        /\ kind = "stock" => listener = "listening" /\ heard' = heard \cup {c} /\ named' = named
        /\ kind = "runtime" => mdns = "query" /\ named' = named \cup {c} /\ heard' = heard
    OBVIOUS
  <1>3. new[1] = c /\ new[2] = kind
    OBVIOUS
  <1>4. Pending(new)'
    BY <1>2, <1>3 DEF Pending
  <1>5. \A s \in seen : (Has(s) => Has(s)') /\ (Pending(s) => Pending(s)')
    BY <1>1, <1>2 DEF Has, Pending
  <1>6. /\ \A d \in heard' : <<d, "stock">> \in seen'
        /\ \A d \in named' : <<d, "runtime">> \in seen'
    BY <1>1, <1>2 DEF RowsInv, Known
  <1> HIDE DEF new
  <1>7. Known'
    BY <1>1, <1>3, <1>4, <1>5, <1>6 DEF RowsInv, Known
  <1>8. pc' \in {"start", "adb"} => \A s \in seen' : s[2] = "runtime" => s[1] \in named'
    BY <1>1, <1>2, <1>3 DEF RowsInv
  <1> QED
    BY <1>1, <1>2, <1>7, <1>8 DEF RowsInv

LEMMA HearRows ==
    ASSUME RowsInv, NEW c \in Clocks, Hear(c) \/ Answer(c)
    PROVE  RowsInv'
  <1>1. CASE Hear(c)
    BY <1>1, FoundRows DEF Hear, place_vars
  <1>2. CASE Answer(c)
    BY <1>2, FoundRows DEF Answer, place_vars
  <1> QED
    BY <1>1, <1>2

\* The daemon knows some.
LEMMA BrowseRows ==
    ASSUME RowsInv, Browse
    PROVE  RowsInv'
  <1>1. PICK cached \in SUBSET Clocks :
         /\ named' = cached /\ seen' = seen \cup {<<c, "runtime">> : c \in cached}
         /\ mdns' = IF cached = {} THEN "query" ELSE "ended"
    BY DEF Browse
  <1>2. mdns = "browse" /\ named = {} /\ UNCHANGED <<pc, todo, listener, rows, heard>>
    BY DEF Browse, RowsInv
  <1>3. \A s \in seen : (Has(s) => Has(s)') /\ (Pending(s) => Pending(s)')
    BY <1>2 DEF Has, Pending
  <1>4. ASSUME NEW s \in seen', s \notin seen
        PROVE  s[1] \in cached /\ s[2] = "runtime"
    <2>1. PICK c \in cached : s = <<c, "runtime">>
      BY <1>1, <1>4
    <2> QED
      BY <2>1
  <1>5. \A c \in cached : <<c, "runtime">> \in seen'
    BY <1>1
  <1>6. Known'
    <2>1. \A s \in seen' : s[1] \in Clocks /\ (Has(s)' \/ Pending(s)')
      BY <1>1, <1>3, <1>4 DEF RowsInv, Known, Pending
    <2>2. seen \subseteq seen'
      BY <1>1
    <2> QED
      BY <1>1, <1>2, <1>5, <2>1, <2>2 DEF RowsInv, Known
  <1>7. /\ pc # "done" /\ mdns' # "browse"
        /\ pc \in {"start", "adb"} => \A s \in seen' : s[2] = "runtime" => s[1] \in named'
    BY <1>1, <1>2, <1>4 DEF RowsInv
  <1> QED
    BY <1>2, <1>6, <1>7 DEF RowsInv

\* Main takes the result of one that ran beside it.
LEMMA AddedRows ==
    ASSUME RowsInv, NEW c \in Clocks, NEW mac \in {c, None}, NEW kind \in {"stock", "runtime"},
           NEW name \in {c, None}, pc \in {"listen", "mdns"},
           rows' = Append(rows, Row(Tcp(c), c, mac, kind, name)),
           UNCHANGED <<pc, todo, listener, mdns, seen>>,
           kind = "stock" => heard' = heard \ {c} /\ c \in heard /\ named' = named,
           kind = "runtime" => named' = named \ {c} /\ c \in named /\ heard' = heard
    PROVE  RowsInv'
  <1> DEFINE row == Row(Tcp(c), c, mac, kind, name)
             new == <<c, kind>>
  <1>1. /\ UNCHANGED <<pc, todo, listener, mdns, seen>> /\ rows' = Append(rows, row)
        /\ pc \in {"listen", "mdns"}
    OBVIOUS
  <1>2. /\ kind = "stock" => heard' = heard \ {c} /\ c \in heard /\ named' = named
        /\ kind = "runtime" => named' = named \ {c} /\ c \in named /\ heard' = heard
    OBVIOUS
  <1>3. row \in RowSet /\ OfOne(row) /\ About(row) = c /\ row.ip = c /\ row.kind = kind
    BY RowIs
  <1>4. /\ new[1] = c /\ new[2] = kind /\ new \in seen
        /\ \A s \in seen : s[1] = c /\ s[2] = kind => Has(s)'
    <2>1. new \in seen
      BY <1>2 DEF RowsInv, Known
    <2>2. new[1] = c /\ new[2] = kind
      OBVIOUS
    <2> HIDE DEF row, new
    <2>3. \E s \in seen' : s[1] = About(row)
      BY <1>1, <1>3, <2>1, <2>2
    <2> QED
      BY <1>1, <1>3, <2>1, <2>2, <2>3, Adds DEF RowsInv, Known
  <1> HIDE DEF row, new
  <1>5. \E s \in seen' : s[1] = About(row)
    BY <1>1, <1>3, <1>4
  <1>6. /\ rows' \in Seq(RowSet)
        /\ \A i \in 1..Len(rows') : OfOne(rows'[i]) /\ \E s \in seen' : s[1] = About(rows'[i])
        /\ \A s \in seen' : Has(s) => Has(s)'
    BY <1>1, <1>3, <1>5, Adds DEF RowsInv, Known
  <1>7. \A s \in seen : Pending(s) => Pending(s)' \/ (s[1] = c /\ s[2] = kind)
    BY <1>2 DEF Pending
  <1>8. heard' \subseteq heard /\ named' \subseteq named
    BY <1>2
  <1>9. Known'
    BY <1>1, <1>4, <1>6, <1>7, <1>8 DEF RowsInv, Known
  <1> QED
    BY <1>1, <1>8, <1>9 DEF RowsInv

LEMMA TakenRows ==
    ASSUME RowsInv, NEW c \in Clocks, BroadcastRow(c) \/ MdnsRow(c)
    PROVE  RowsInv'
  <1>1. CASE BroadcastRow(c)
    BY <1>1, AddedRows DEF BroadcastRow, place_vars
  <1>2. CASE MdnsRow(c)
    BY <1>2, AddedRows DEF MdnsRow, place_vars
  <1> QED
    BY <1>1, <1>2

\* A clock described by adb has the row that was its, or one more.
LEMMA AdbRows ==
    ASSUME RowsInv, DescribeAdb
    PROVE  RowsInv'
  <1>1. PICK t \in todo, mac \in Sh, address \in Sh, listing \in Sh :
         LET kind == IF listing /\ lan[t.of].binaries THEN "runtime" ELSE "stock"
         IN  /\ todo' = todo \ {t}
             /\ IF mac
                THEN /\ PutByMac(Row(t, IF address THEN t.of ELSE None, t.of, kind, None))
                     /\ seen' = seen \cup {<<t.of, "adb">>}
                ELSE UNCHANGED <<rows, seen>>
    BY DEF DescribeAdb
  <1> DEFINE kind == IF listing /\ lan[t.of].binaries THEN "runtime" ELSE "stock"
             row == Row(t, IF address THEN t.of ELSE None, t.of, kind, None)
             same == {i \in DOMAIN rows : rows[i].mac = row.mac}
  <1>2. /\ pc = "adb" /\ UNCHANGED <<pc, listener, mdns, heard, named>>
        /\ todo' \subseteq Transports
        /\ t \in Transports /\ t.of \in Clocks
    BY <1>1 DEF DescribeAdb, RowsInv, Transports
  <1>3. row \in RowSet /\ OfOne(row) /\ About(row) = t.of /\ row.mac = t.of
    BY <1>2 DEF Row, RowSet, OfOne, About
  <1>4. /\ rows \in Seq(RowSet) /\ DOMAIN rows = 1..Len(rows) /\ Len(rows) \in Nat
        /\ \A i \in 1..Len(rows) : /\ rows[i] \in RowSet /\ OfOne(rows[i])
                                   /\ \E s \in seen : s[1] = About(rows[i])
    BY LenProperties, ElementOfSeq DEF RowsInv, Known
  <1>5. \A s \in seen : /\ s[1] \in Clocks /\ (s[2] = "runtime" => s[1] \in named)
                        /\ Pending(s) \/ (s[2] # "runtime" /\ Has(s))
    BY <1>2 DEF RowsInv, Known, Pending
  <1>6. CASE ~mac
    <2>1. UNCHANGED <<rows, seen>>
      BY <1>1, <1>6
    <2> QED
      BY <1>2, <2>1 DEF RowsInv, Known, Has, Pending
  <1>7. CASE mac
    <2>1. PutByMac(row) /\ seen' = seen \cup {<<t.of, "adb">>}
      BY <1>1, <1>7
    <2>2. \A i \in same : About(rows[i]) = t.of
      BY <1>2, <1>3, <1>4, Identities DEF OfOne, Identities
    <2>3. rows' = IF same = {} THEN Append(rows, row)
                  ELSE [i \in DOMAIN rows |-> IF i \in same THEN row ELSE rows[i]]
      BY <2>1 DEF PutByMac
    <2> DEFINE n == Len(rows)
    <2> HIDE DEF row
    <2>5. /\ rows' \in Seq(RowSet) /\ \A i \in 1..n : i \in 1..Len(rows')
          /\ \A i \in 1..Len(rows') : rows'[i] = row \/ (i \in 1..n /\ rows'[i] = rows[i])
          /\ \A i \in 1..n : About(rows'[i]) = About(rows[i])
          /\ \E i \in 1..Len(rows') : rows'[i] = row
      <3>1. CASE same = {}
        <4>1. rows' = Append(rows, row)
          BY <2>3, <3>1
        <4> QED
          BY <1>3, <1>4, <4>1, Appended
      <3>2. CASE same # {}
        <4>1. rows' = [i \in 1..n |-> IF i \in same THEN row ELSE rows[i]]
          BY <1>4, <2>3, <3>2
        <4>2. same \subseteq 1..n
          BY <1>4
        <4>3. /\ n \in Nat /\ \A i \in 1..n : rows[i] \in RowSet
              /\ row \in RowSet /\ About(row) = t.of
          BY <1>3, <1>4
        <4> HIDE DEF same, n
        <4>4. rows' \in [1..n -> RowSet]
          BY <4>1, <4>3
        <4>5. rows' \in Seq(RowSet) /\ Len(rows') = n
          BY <4>3, <4>4
        <4>6. \A i \in 1..n : rows'[i] = IF i \in same THEN row ELSE rows[i]
          BY <4>1
        <4>7. \E i \in 1..n : rows'[i] = row
          BY <3>2, <4>2, <4>6
        <4>8. \A i \in 1..n : About(rows'[i]) = About(rows[i])
          BY <2>2, <4>3, <4>6
        <4>9. \A i \in 1..n : rows'[i] = row \/ (i \in 1..n /\ rows'[i] = rows[i])
          BY <4>6
        <4> QED
          BY <4>3, <4>5, <4>7, <4>8, <4>9
      <3> QED
        BY <3>1, <3>2
    <2> HIDE DEF same
    <2>6. \A i \in 1..Len(rows') : OfOne(rows'[i]) /\ \E s \in seen' : s[1] = About(rows'[i])
      <3>1. \E s \in seen' : s[1] = t.of
        <4>1. <<t.of, "adb">> \in seen' /\ <<t.of, "adb">>[1] = t.of
          BY <2>1
        <4> QED
          BY <4>1
      <3> QED
        BY <1>3, <1>4, <2>1, <2>5, <3>1
    <2>7. ASSUME NEW s \in seen'
          PROVE  /\ s[1] \in Clocks /\ (Has(s)' \/ Pending(s)')
                 /\ s[2] = "runtime" => s[1] \in named'
      <3>1. CASE s \in seen /\ Pending(s)
        BY <1>2, <1>5, <3>1 DEF Pending
      <3>2. CASE s \in seen /\ s[2] # "runtime" /\ Has(s)
        <4>1. PICK i \in 1..n : About(rows[i]) = s[1]
          BY <3>2 DEF Has
        <4>2. i \in 1..Len(rows') /\ About(rows'[i]) = s[1]
          BY <2>5, <4>1
        <4> HIDE DEF n
        <4> QED
          BY <1>5, <3>2, <4>2 DEF Has
      <3>3. CASE s = <<t.of, "adb">>
        <4>1. s[1] = t.of /\ s[2] # "runtime"
          BY <3>3
        <4> QED
          BY <1>2, <1>3, <2>5, <4>1 DEF Has
      <3> QED
        BY <1>5, <2>1, <3>1, <3>2, <3>3
    <2>8. Known'
      BY <1>2, <2>1, <2>5, <2>6, <2>7 DEF RowsInv, Known
    <2> QED
      BY <1>2, <2>7, <2>8 DEF RowsInv
  <1> QED
    BY <1>6, <1>7 DEF Sh

\* Main goes on, or a probe ends; no row comes and nothing is found.
LEMMA OtherRows ==
    ASSUME RowsInv,
           \/ AdbTransports \/ AdbEnds \/ SweepEnds \/ Listened \/ Browsed
           \/ ListenerEnds \/ MdnsEnds \/ (\E c \in Clocks : Switch(c)) \/ UNCHANGED vars
    PROVE  RowsInv'
  <1>1. UNCHANGED <<rows, heard, named, seen>>
    BY DEF AdbTransports, AdbEnds, SweepEnds, Listened, Browsed, ListenerEnds, MdnsEnds, Switch,
       vars, found_vars
  <1>2. Known'
    BY <1>1 DEF RowsInv, Known, Has, Pending
  <1>3. CASE AdbTransports
    <2>1. pc = "start" /\ pc' = "adb" /\ todo' \subseteq Transports /\ UNCHANGED <<listener, mdns>>
      BY <1>3 DEF AdbTransports
    <2> QED
      BY <1>1, <1>2, <2>1 DEF RowsInv
  <1>4. CASE AdbEnds \/ SweepEnds
    <2>1. pc' \in {"sweep", "listen"} /\ UNCHANGED <<todo, listener, mdns>>
      BY <1>4 DEF AdbEnds, SweepEnds
    <2> QED
      BY <1>1, <1>2, <2>1 DEF RowsInv
  <1>5. CASE Listened \/ Browsed
    BY <1>1, <1>2, <1>5 DEF RowsInv, Listened, Browsed
  <1>6. CASE ListenerEnds \/ MdnsEnds
    BY <1>1, <1>2, <1>6 DEF RowsInv, ListenerEnds, MdnsEnds
  <1>7. CASE (\E c \in Clocks : Switch(c)) \/ UNCHANGED vars
    <2>1. UNCHANGED <<pc, todo, listener, mdns>>
      BY <1>7 DEF Switch, vars, place_vars
    <2> QED
      BY <1>1, <1>2, <2>1 DEF RowsInv
  <1> QED
    BY <1>3, <1>4, <1>5, <1>6, <1>7

LEMMA RowsStep == RowsInv /\ [Next]_vars => RowsInv'
  <1> SUFFICES ASSUME RowsInv, [Next]_vars PROVE RowsInv'
    OBVIOUS
  <1> QED
    BY OtherRows, AdbRows, SweepRows, HearRows, BrowseRows, TakenRows DEF Next

-----------------------------------------------------------------------------
(* Theorem: one means one *)

LEMMA OneIsIt == RowsInv => OneMeansOne
  <1> SUFFICES ASSUME RowsInv, pc = "done"
               PROVE  /\ One # None => {s[1] : s \in seen} = {One}
                      /\ \A r \in MergeRows :
                           /\ <<r.ip, "runtime">> \in seen => r.kind = "runtime"
                           /\ r.mac = None /\ r.ip # None =>
                                \A i \in DOMAIN rows : rows[i].ip = r.ip => rows[i].mac = None
    BY DEF OneMeansOne
  <1>1. /\ rows \in Seq(RowSet)
        /\ \A i \in 1..Len(rows) : OfOne(rows[i]) /\ \E s \in seen : s[1] = About(rows[i])
        /\ \A s \in seen : s[1] \in Clocks /\ Has(s)
    BY DEF RowsInv, Known, Pending
  <1>2. /\ \A m \in MergeRows : /\ m \in RowSet /\ OfOne(m)
                                /\ \E i \in 1..Len(rows) : About(rows[i]) = About(m)
        /\ \A i \in 1..Len(rows) : \E m \in MergeRows : About(m) = About(rows[i])
        /\ \A m \in MergeRows, i \in 1..Len(rows) :
              m.ip # None /\ rows[i].ip = m.ip =>
                 /\ rows[i].kind = "runtime" => m.kind = "runtime"
                 /\ rows[i].mac # None => m.mac # None
        /\ IsFiniteSet(MergeRows)
    BY <1>1, MergeRowsIs
  <1>3. ASSUME One # None
        PROVE  {s[1] : s \in seen} = {One}
    <2>1. Cardinality(MergeRows) = 1
      BY <1>3 DEF One, ExactlyOne
    <2>2. PICK x : MergeRows = {x}
      BY <1>2, <2>1, FS_Singleton
    <2>3. One = IF x.transport.via = "tcp" THEN x.transport.of ELSE x.ip
      BY <2>1, <2>2 DEF One, ExactlyOne
    <2>4. x \in RowSet /\ OfOne(x) /\ \E i \in 1..Len(rows) : About(rows[i]) = About(x)
      BY <1>2, <2>2
    <2>5. One = About(x)
      BY <1>3, <2>3, <2>4 DEF About, OfOne
    <2>6. \E s \in seen : s[1] = About(x)
      BY <1>1, <2>4
    <2>7. ASSUME NEW s \in seen
          PROVE  s[1] = About(x)
      <3>1. PICK i \in 1..Len(rows) : About(rows[i]) = s[1]
        BY <1>1 DEF Has
      <3>2. \E m \in MergeRows : About(m) = About(rows[i])
        BY <1>2
      <3> QED
        BY <2>2, <3>1, <3>2
    <2> HIDE DEF One
    <2> QED
      BY <2>5, <2>6, <2>7
  <1>4. ASSUME NEW r \in MergeRows, <<r.ip, "runtime">> \in seen
        PROVE  r.kind = "runtime"
    <2>1. r.ip \in Clocks /\ Has(<<r.ip, "runtime">>)
      BY <1>1, <1>4
    <2>2. /\ r.ip \in Clocks
          /\ \E i \in 1..Len(rows) : rows[i].ip = r.ip /\ rows[i].kind = "runtime"
      BY <2>1 DEF Has
    <2>3. r.ip # None
      BY <2>1, Identities DEF Identities
    <2> QED
      BY <1>2, <2>2, <2>3
  <1>5. ASSUME NEW r \in MergeRows, r.mac = None, r.ip # None, NEW i \in DOMAIN rows, rows[i].ip = r.ip,
               rows[i].mac # None
        PROVE  FALSE
    <2>1. i \in 1..Len(rows) /\ rows[i] \in RowSet
      BY <1>1, LenProperties, ElementOfSeq
    <2> QED
      BY <1>2, <1>5, <2>1
  <1> QED
    BY <1>3, <1>4, <1>5

\* An address is printed only when the probes, whichever of them failed, found one clock,
\* and it is that clock's; a clock that any of them found to run the runtime is listed as
\* a runtime at its address, and with its mac if a row of that address has one (merge_rows,
\* --one): for any clocks and adb transports, any order in which the probes find things,
\* and clocks that change their firmware meanwhile.
THEOREM OneIsTheOne == Spec => []OneMeansOne
  BY RowsStart, RowsStep, OneIsIt, PTL DEF Spec
=============================================================================
