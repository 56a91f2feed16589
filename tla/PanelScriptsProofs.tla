------------------------- MODULE PanelScriptsProofs -------------------------
(***************************************************************************)
(* AgentLock and the scripts that run under it, for any lines, sprites,    *)
(* slots, flips and faults.  That a holder is seen holds for any number of *)
(* agents; that one agent at a time has the device, and with it that the   *)
(* scripts put the panel back, for two.                                    *)
(***************************************************************************)
EXTENDS PanelScripts, SequenceTheorems, WellFoundedInduction, TLAPS

-----------------------------------------------------------------------------
(* The lines of the file *)

\* A set of numbers that has one has a least one.
LEMMA LeastOf ==
    ASSUME NEW I, I # {}, I \subseteq Nat
    PROVE  Min(I) \in I /\ \A y \in I : Min(I) <= y
  <1> DEFINE R == OpToRel(<, Nat)
  <1>1. IsWellFoundedOn(R, Nat)
    BY NatLessThanWellFounded
  <1>2. \A x, y \in Nat : <<y, x>> \in R <=> y < x
    BY DEF OpToRel
  <1> HIDE DEF R
  <1>3. PICK x \in I : \A y \in I : ~(<<y, x>> \in R)
    BY <1>1, WFMin
  <1>4. ASSUME NEW y \in I
        PROVE  x <= y
    <2>1. x \in Nat /\ y \in Nat /\ ~(y < x)
      BY <1>2, <1>3
    <2> QED
      BY <2>1
  <1> QED
    BY <1>4 DEF Min

\* A set of places in a sequence that has one has a last one.
LEMMA GreatestOf ==
    ASSUME NEW n \in Nat, NEW I, I # {}, I \subseteq 1..n
    PROVE  Max(I) \in I
  <1> DEFINE J == {n - i : i \in I}
  <1>1. J # {} /\ J \subseteq Nat
    <2>1. \A i \in I : n - i \in Nat
      OBVIOUS
    <2> QED
      BY <2>1
  <1>2. Min(J) \in J /\ \A y \in J : Min(J) <= y
    BY <1>1, LeastOf
  <1>3. PICK m \in I : Min(J) = n - m
    BY <1>2
  <1>4. ASSUME NEW i \in I
        PROVE  m >= i
    <2>1. n - i \in J /\ i \in Nat /\ m \in Nat
      OBVIOUS
    <2>2. n - m <= n - i
      BY <1>2, <1>3, <2>1
    <2> QED
      BY <2>1, <2>2
  <1> QED
    BY <1>4 DEF Max

Lines == [agent : Agents, kind : {"ACQUIRE", "RELEASE"}]

\* The places of the releases, and of the claims since the last one.
Releases(s) == {i \in 1..Len(s) : s[i].kind = "RELEASE"}
LastOf(s)   == IF Releases(s) # {} THEN Max(Releases(s)) ELSE 0
Claims(s)   == {i \in LastOf(s) + 1..Len(s) : s[i].kind = "ACQUIRE"}
FirstOf(s)  == IF Claims(s) # {} THEN {s[Min(Claims(s))].agent} ELSE {}

LEMMA EarliestIs == log \in Seq(Lines) => Earliest = FirstOf(log)
  <1> SUFFICES ASSUME log \in Seq(Lines) PROVE Earliest = FirstOf(log)
    OBVIOUS
  <1>1. LastRelease = LastOf(log)
    BY DEF LastRelease, LastOf, SelectLastInSeq, Releases
  <1>2. Releases(log) \subseteq 1..Len(log) /\ Len(log) \in Nat
    BY LenProperties DEF Releases
  <1>3. LastOf(log) \in Nat
    BY <1>2, GreatestOf DEF LastOf
  <1>4. SelectInSubSeq(log, LastRelease + 1, Len(log), LAMBDA l : l.kind = "ACQUIRE")
          = IF Claims(log) # {} THEN Min(Claims(log)) ELSE 0
    BY <1>1 DEF SelectInSubSeq, Claims
  <1>5. Claims(log) # {} => Min(Claims(log)) # 0
    <2>1. Claims(log) \subseteq Nat \ {0}
      BY <1>2, <1>3 DEF Claims
    <2> QED
      BY <2>1, LeastOf
  <1> QED
    BY <1>4, <1>5 DEF Earliest, FirstOf

\* The same of the lines after a step.
LEMMA EarliestAfter == (log \in Seq(Lines) => Earliest = FirstOf(log))'
  BY EarliestIs, PTL

\* Lines that stay leave whose was first.
LEMMA EarliestStays ==
    ASSUME log \in Seq(Lines), log' = log
    PROVE  Earliest' = Earliest
  <1>1. Earliest' = FirstOf(log')
    BY EarliestAfter
  <1> QED
    BY <1>1, EarliestIs

\* A claim behind another changes nothing of whose was first.
LEMMA ClaimBehind ==
    ASSUME NEW s \in Seq(Lines), FirstOf(s) # {}, NEW e \in Lines, e.kind = "ACQUIRE"
    PROVE  FirstOf(Append(s, e)) = FirstOf(s)
  <1> DEFINE t == Append(s, e)
  <1>1. /\ Len(t) = Len(s) + 1 /\ Len(s) \in Nat /\ t[Len(s) + 1] = e
        /\ \A i \in 1..Len(s) : t[i] = s[i]
    BY AppendProperties, LenProperties
  <1> HIDE DEF t
  <1>2. Releases(t) = Releases(s)
    BY <1>1 DEF Releases
  <1>3. LastOf(t) = LastOf(s)
    BY <1>2 DEF LastOf
  <1>4. LastOf(s) \in Nat /\ LastOf(s) <= Len(s)
    <2>1. Releases(s) \subseteq 1..Len(s)
      BY DEF Releases
    <2>2. Releases(s) # {} => Max(Releases(s)) \in 1..Len(s)
      BY <1>1, <2>1, GreatestOf
    <2> QED
      BY <1>1, <2>2 DEF LastOf
  <1>5. Claims(t) = Claims(s) \cup {Len(s) + 1}
    BY <1>1, <1>3, <1>4 DEF Claims
  <1>6. Claims(s) # {} /\ Claims(s) \subseteq 1..Len(s)
    <2>1. Claims(s) # {}
      BY DEF FirstOf
    <2> DEFINE l == LastOf(s)
               n == Len(s)
    <2>2. l \in Nat /\ n \in Nat
      BY <1>1, <1>4
    <2> HIDE DEF l, n
    <2>3. l + 1..n \subseteq 1..n
      BY <2>2
    <2>4. Claims(s) \subseteq l + 1..n
      BY DEF Claims, l, n
    <2> QED
      BY <2>1, <2>3, <2>4 DEF n
  <1>7. Min(Claims(s)) \in Claims(s) /\ \A y \in Claims(s) : Min(Claims(s)) <= y
    BY <1>6, LeastOf
  <1>8. Min(Claims(t)) \in Claims(t) /\ \A y \in Claims(t) : Min(Claims(t)) <= y
    BY <1>1, <1>5, <1>6, LeastOf
  <1>9. Min(Claims(t)) = Min(Claims(s))
    <2> DEFINE k == Min(Claims(s))
               m == Min(Claims(t))
    <2>1. k \in 1..Len(s) /\ k \in Claims(t)
      BY <1>5, <1>6, <1>7
    <2>2. m \in Claims(s) \cup {Len(s) + 1} /\ m <= k
      BY <1>5, <1>8, <2>1
    <2>3. m \in 1..Len(s) \/ m = Len(s) + 1
      BY <1>6, <2>2
    <2>4. k \in Nat /\ k <= Len(s) /\ m \in Nat /\ m <= k
      BY <1>1, <2>1, <2>2, <2>3
    <2>5. m \in Claims(s)
      BY <1>1, <1>5, <1>8, <2>4
    <2>6. k <= m
      BY <1>7, <2>5
    <2> HIDE DEF k, m
    <2>7. m = k
      BY <2>4, <2>6
    <2> QED
      BY <2>7 DEF k, m
  <1>10. t[Min(Claims(t))] = s[Min(Claims(s))]
    BY <1>1, <1>6, <1>7, <1>9
  <1> QED
    BY <1>5, <1>6, <1>10 DEF FirstOf, t

Holding(s) ==
    {a \in Agents : \E i \in DOMAIN s :
        /\ s[i] = [agent |-> a, kind |-> "ACQUIRE"]
        /\ \A j \in DOMAIN s : j > i => s[j].agent # a}

\* A line is about its agent alone, who holds the device after an ACQUIRE.
LEMMA HoldersAfter ==
    ASSUME NEW s \in Seq(Lines), NEW a \in Agents, NEW kind \in {"ACQUIRE", "RELEASE"}
    PROVE  Holding(Append(s, [agent |-> a, kind |-> kind])) =
              IF kind = "ACQUIRE" THEN Holding(s) \cup {a} ELSE Holding(s) \ {a}
  <1> DEFINE e == [agent |-> a, kind |-> kind]
             t == Append(s, e)
  <1>1. e \in Lines /\ e.agent = a /\ e.kind = kind
    BY DEF Lines
  <1> HIDE DEF e
  <1>2. /\ t \in Seq(Lines) /\ Len(t) = Len(s) + 1 /\ Len(s) \in Nat /\ t[Len(s) + 1] = e
        /\ \A i \in 1..Len(s) : t[i] = s[i]
    BY <1>1, AppendProperties, LenProperties
  <1> HIDE DEF t
  <1>3. DOMAIN t = 1..Len(s) + 1 /\ DOMAIN s = 1..Len(s)
    BY <1>2, LenProperties
  <1>4. ASSUME NEW b \in Agents, b # a
        PROVE  b \in Holding(t) <=> b \in Holding(s)
    <2>1. ASSUME b \in Holding(t) PROVE b \in Holding(s)
      <3>1. PICK i \in DOMAIN t : /\ t[i] = [agent |-> b, kind |-> "ACQUIRE"]
                                  /\ \A j \in DOMAIN t : j > i => t[j].agent # b
        BY <2>1 DEF Holding
      <3>2. i # Len(s) + 1
        BY <1>1, <1>2, <1>4, <3>1
      <3>3. i \in 1..Len(s) /\ t[i] = s[i]
        BY <1>2, <1>3, <3>2
      <3>4. \A j \in DOMAIN s : j > i => s[j].agent # b
        BY <1>2, <1>3, <3>1
      <3> QED
        BY <1>3, <3>1, <3>3, <3>4 DEF Holding
    <2>2. ASSUME b \in Holding(s) PROVE b \in Holding(t)
      <3>1. PICK i \in DOMAIN s : /\ s[i] = [agent |-> b, kind |-> "ACQUIRE"]
                                  /\ \A j \in DOMAIN s : j > i => s[j].agent # b
        BY <2>2 DEF Holding
      <3>2. i \in DOMAIN t /\ t[i] = s[i]
        BY <1>2, <1>3
      <3>3. ASSUME NEW j \in DOMAIN t, j > i PROVE t[j].agent # b
        <4>1. CASE j = Len(s) + 1
          BY <4>1, <1>1, <1>2, <1>4
        <4>2. CASE j # Len(s) + 1
          BY <4>2, <1>2, <1>3, <3>1, <3>3
        <4> QED
          BY <4>1, <4>2
      <3> QED
        BY <3>1, <3>2, <3>3 DEF Holding
    <2> QED
      BY <2>1, <2>2
  <1>5. ASSUME kind = "ACQUIRE" PROVE a \in Holding(t)
    <2>1. Len(s) + 1 \in DOMAIN t /\ t[Len(s) + 1] = [agent |-> a, kind |-> "ACQUIRE"]
      BY <1>2, <1>3, <1>5 DEF e
    <2>2. \A j \in DOMAIN t : ~(j > Len(s) + 1)
      BY <1>2, <1>3
    <2> QED
      BY <2>1, <2>2 DEF Holding
  <1>6. ASSUME kind # "ACQUIRE" PROVE a \notin Holding(t)
    <2> SUFFICES ASSUME NEW i \in DOMAIN t, t[i] = [agent |-> a, kind |-> "ACQUIRE"],
                        \A j \in DOMAIN t : j > i => t[j].agent # a
                 PROVE  FALSE
      BY DEF Holding
    <2>1. i # Len(s) + 1
      BY <1>1, <1>2, <1>6
    <2>2. Len(s) + 1 \in DOMAIN t /\ Len(s) + 1 > i
      BY <1>2, <1>3, <2>1
    <2> QED
      BY <1>1, <1>2, <2>2
  <1>7. Holding(t) \subseteq Agents /\ Holding(s) \subseteq Agents
    BY DEF Holding
  <1>8. Holding(t) = IF kind = "ACQUIRE" THEN Holding(s) \cup {a} ELSE Holding(s) \ {a}
    BY <1>4, <1>5, <1>6, <1>7
  <1> QED
    BY <1>8 DEF t, e

-----------------------------------------------------------------------------
(* The lock *)

Steps == {"idle", "reading", "appending", "arbitrating", "backing_off", "holding"}

LockType == log \in Seq(Lines) /\ at \in [Agents -> Steps]

\* The file shows exactly those who have claimed and not let go.
Shown ==
    \A a \in Agents :
        a \in Holding(log) <=> at[a] \in {"arbitrating", "backing_off", "holding"}

LockInv == LockType /\ Shown

\* The file holds nothing, and nobody has claimed.
LEMMA LockInit == Init => LockInv
  <1> SUFFICES ASSUME Init PROVE LockInv
    OBVIOUS
  <1>1. log \in Seq(Lines) /\ Len(log) = 0 /\ DOMAIN log = 1..0
    BY EmptySeq, LenProperties DEF Init
  <1>2. Holding(log) = {}
    BY <1>1 DEF Holding
  <1> QED
    BY <1>1, <1>2 DEF Init, LockInv, LockType, Shown, Steps

\* A line appended is the agent's, and shows what its step says of it.
LEMMA LockAppends ==
    ASSUME LockInv, NEW a \in Agents, NEW kind \in {"ACQUIRE", "RELEASE"},
           Appends(a, kind), NEW step \in Steps, Goes(a, step),
           kind = "ACQUIRE" <=> step \in {"arbitrating", "backing_off", "holding"}
    PROVE  LockInv'
  <1> DEFINE e == [agent |-> a, kind |-> kind]
  <1>1. e \in Lines
    BY DEF Lines
  <1>2. log' \in Seq(Lines)
    BY <1>1, AppendProperties DEF Appends, LockInv, LockType
  <1>3. Holding(log') = IF kind = "ACQUIRE" THEN Holding(log) \cup {a} ELSE Holding(log) \ {a}
    BY HoldersAfter DEF Appends, LockInv, LockType
  <1>4. at' = [at EXCEPT ![a] = step] /\ at \in [Agents -> Steps]
    BY DEF Goes, LockInv, LockType
  <1>5. Shown'
    BY <1>3, <1>4 DEF Shown, LockInv
  <1> QED
    BY <1>2, <1>4, <1>5 DEF LockInv, LockType

\* A step that writes nothing shows the same holders.
LEMMA LockReads ==
    ASSUME LockInv, NEW a \in Agents, NEW step \in Steps, Goes(a, step), UNCHANGED log,
           at[a] \in {"arbitrating", "backing_off", "holding"}
             <=> step \in {"arbitrating", "backing_off", "holding"}
    PROVE  LockInv'
  BY DEF LockInv, LockType, Shown, Goes

\* Each step of the script keeps the file in agreement with where it is.
LEMMA LockStep ==
    ASSUME LockInv, [Next]_vars
    PROVE  LockInv'
  <1>1. ASSUME NEW a \in Agents, Start(a)
        PROVE  LockInv'
    BY <1>1, LockReads DEF Start, Steps
  <1>2. ASSUME NEW a \in Agents, Read(a)
        PROVE  LockInv'
    BY <1>2, LockReads DEF Read, Steps
  <1>3. ASSUME NEW a \in Agents, Claim(a)
        PROVE  LockInv'
    BY <1>3, LockAppends DEF Claim, Steps
  <1>4. ASSUME NEW a \in Agents, Arbitrate(a)
        PROVE  LockInv'
    BY <1>4, LockReads DEF Arbitrate, Steps
  <1>5. ASSUME NEW a \in Agents, BackOff(a)
        PROVE  LockInv'
    BY <1>5, LockAppends DEF BackOff, Steps
  <1>6. ASSUME NEW a \in Agents, Release(a)
        PROVE  LockInv'
    BY <1>6, LockAppends DEF Release, Steps
  <1>7. CASE UNCHANGED vars
    BY <1>7 DEF vars, LockInv, LockType, Shown
  <1> QED
    BY <1>1, <1>2, <1>3, <1>4, <1>5, <1>6, <1>7 DEF Next

\* The file shows a holder as one.
LEMMA LockShows == LockInv => HolderVisible
  BY DEF LockInv, Shown, HolderVisible, Holders, Holding

\* With two agents there is no third whose RELEASE hides who was first.
AtMostTwo == \A a, b, c \in Agents : a = b \/ b = c \/ a = c

\* While one holds, the other has not read since, and its claim comes second.
HolderFirst ==
    \A a, b \in Agents :
        a # b /\ at[a] = "holding" /\ at[b] \in {"appending", "arbitrating"} => Earliest = {a}

Alone == MutualExclusion /\ HolderFirst

LEMMA AloneInit == Init => Alone
  BY DEF Init, Alone, MutualExclusion, HolderFirst

\* A step that writes nothing, by one who does not come to hold.
LEMMA AloneReads ==
    ASSUME LockInv, Alone, NEW a \in Agents, NEW step \in Steps, Goes(a, step), UNCHANGED log,
           step # "holding",
           step \in {"appending", "arbitrating"} =>
              at[a] = step \/ \A b \in Agents : at[b] = "holding" => b = a
    PROVE  Alone'
  <1>1. at' = [at EXCEPT ![a] = step] /\ at \in [Agents -> Steps]
    BY DEF Goes, LockInv, LockType
  <1>2. Earliest' = Earliest
    BY EarliestStays DEF LockInv, LockType
  <1>3. MutualExclusion'
    BY <1>1 DEF Alone, MutualExclusion
  <1>4. HolderFirst'
    BY <1>1, <1>2 DEF Alone, HolderFirst
  <1> QED
    BY <1>3, <1>4 DEF Alone

\* Of two agents, one holds the device at a time.
LEMMA AloneStep ==
    ASSUME AtMostTwo, LockInv, Alone, [Next]_vars
    PROVE  Alone'
  <1>0. log \in Seq(Lines) /\ at \in [Agents -> Steps]
    BY DEF LockInv, LockType
  <1>1. ASSUME NEW a \in Agents, Start(a)
        PROVE  Alone'
    BY <1>1, AloneReads DEF Start, Steps
  <1>2. ASSUME NEW a \in Agents, Read(a)
        PROVE  Alone'
    <2>1. CASE Holders \ {a} = {}
      <3>1. \A b \in Agents : at[b] = "holding" => b = a
        BY <2>1, LockShows DEF HolderVisible
      <3> QED
        BY <1>2, <2>1, <3>1, AloneReads DEF Read, Steps
    <2>2. CASE Holders \ {a} # {}
      BY <1>2, <2>2, AloneReads DEF Read, Steps
    <2> QED
      BY <2>1, <2>2
  <1>3. ASSUME NEW a \in Agents, Claim(a)
        PROVE  Alone'
    <2> DEFINE e == [agent |-> a, kind |-> "ACQUIRE"]
    <2>1. /\ log' = Append(log, e) /\ at' = [at EXCEPT ![a] = "arbitrating"]
          /\ at[a] = "appending" /\ e \in Lines /\ e.kind = "ACQUIRE"
      BY <1>3 DEF Claim, Appends, Goes, Lines
    <2> HIDE DEF e
    <2>2. ASSUME NEW b \in Agents, b # a, at[b] = "holding"
          PROVE  Earliest' = {b}
      <3>1. Earliest = {b} /\ Earliest = FirstOf(log)
        BY <1>0, <2>1, <2>2, EarliestIs DEF Alone, HolderFirst
      <3>2. log' \in Seq(Lines)
        BY <1>0, <2>1, AppendProperties
      <3>3. Earliest' = FirstOf(log')
        BY <3>2, EarliestAfter
      <3>4. FirstOf(log') = FirstOf(log)
        BY <1>0, <2>1, <3>1, ClaimBehind
      <3> QED
        BY <3>1, <3>3, <3>4
    <2>3. MutualExclusion'
      BY <1>0, <2>1 DEF Alone, MutualExclusion
    <2>4. HolderFirst'
      <3> SUFFICES ASSUME NEW b \in Agents, NEW c \in Agents, b # c, at'[b] = "holding",
                          at'[c] \in {"appending", "arbitrating"}
                   PROVE  Earliest' = {b}
        BY DEF HolderFirst
      <3>1. b # a /\ at[b] = "holding"
        BY <1>0, <2>1
      <3> QED
        BY <2>2, <3>1
    <2> QED
      BY <2>3, <2>4 DEF Alone
  <1>4. ASSUME NEW a \in Agents, Arbitrate(a)
        PROVE  Alone'
    <2>1. CASE Earliest = {a}
      <3>1. /\ at' = [at EXCEPT ![a] = "holding"] /\ log' = log /\ at[a] = "arbitrating"
        BY <1>4, <2>1 DEF Arbitrate, Goes
      <3>2. Earliest' = Earliest
        BY <1>0, <3>1, EarliestStays
      <3>3. \A b \in Agents : b # a => at[b] # "holding"
        BY <2>1, <3>1 DEF Alone, HolderFirst
      <3>4. MutualExclusion'
        BY <1>0, <3>1, <3>3 DEF MutualExclusion
      <3>5. HolderFirst'
        BY <1>0, <2>1, <3>1, <3>2, <3>3 DEF HolderFirst
      <3> QED
        BY <3>4, <3>5 DEF Alone
    <2>2. CASE Earliest # {a}
      BY <1>4, <2>2, AloneReads DEF Arbitrate, Steps
    <2> QED
      BY <2>1, <2>2
  <1>5. ASSUME NEW a \in Agents, NEW step \in {"idle", "reading"}, Goes(a, step),
               at[a] \in {"backing_off", "holding"}
        PROVE  Alone'
    <2>1. at' = [at EXCEPT ![a] = step]
      BY <1>5 DEF Goes
    <2>2. MutualExclusion'
      BY <1>0, <2>1, <1>5 DEF Alone, MutualExclusion
    <2>3. HolderFirst'
      <3> SUFFICES ASSUME NEW b \in Agents, NEW c \in Agents, b # c, at'[b] = "holding",
                          at'[c] \in {"appending", "arbitrating"}
                   PROVE  FALSE
        BY DEF HolderFirst
      <3>1. b # a /\ c # a
        BY <1>0, <1>5, <2>1
      <3> QED
        BY <3>1 DEF AtMostTwo
    <2> QED
      BY <2>2, <2>3 DEF Alone
  <1>6. ASSUME NEW a \in Agents, BackOff(a)
        PROVE  Alone'
    BY <1>5, <1>6 DEF BackOff
  <1>7. ASSUME NEW a \in Agents, Release(a)
        PROVE  Alone'
    BY <1>5, <1>7 DEF Release
  <1>8. CASE UNCHANGED vars
    <2>1. Earliest' = Earliest /\ at' = at
      BY <1>0, <1>8, EarliestStays DEF vars
    <2> QED
      BY <2>1 DEF Alone, MutualExclusion, HolderFirst
  <1> QED
    BY <1>1, <1>2, <1>3, <1>4, <1>6, <1>7, <1>8 DEF Next

-----------------------------------------------------------------------------
(* The stages *)

\* Where no stage comes twice, the one that follows is the one in the next place.
LEMMA FollowingIs ==
    ASSUME NEW kind, NEW n \in Nat \ {0}, Len(Stages[kind]) = n, DOMAIN Stages[kind] = 1..n,
           \A i, j \in 1..n : Stages[kind][i] = Stages[kind][j] => i = j,
           NEW i \in 1..n
    PROVE  Following(kind, Stages[kind][i]) = IF i = n THEN "ended" ELSE Stages[kind][i + 1]
  <1> DEFINE o == Stages[kind]
             here == CHOOSE k \in DOMAIN o : o[k] = o[i]
  <1>1. here \in 1..n /\ o[here] = o[i]
    OBVIOUS
  <1>2. here = i
    BY <1>1
  <1> QED
    BY <1>2 DEF Following

\* The demos, in order.
LEMMA ReelStages ==
    /\ Following("reel", "settle") = "status" /\ Following("reel", "status") = "document"
    /\ Following("reel", "document") = "show" /\ Following("reel", "show") = "play"
    /\ Following("reel", "play") = "base" /\ Following("reel", "base") = "restore"
    /\ Following("reel", "restore") = "rest" /\ Following("reel", "rest") = "ended"
    /\ Head(Stages["reel"]) = "settle"
  <1> DEFINE o == Stages["reel"]
  <1>1. o = <<"settle", "status", "document", "show", "play", "base", "restore", "rest">>
    BY DEF Stages
  <1>2. Len(o) = 8 /\ DOMAIN o = 1..8 /\ Head(o) = "settle"
    BY <1>1
  <1>3. /\ o[1] = "settle" /\ o[2] = "status" /\ o[3] = "document" /\ o[4] = "show"
        /\ o[5] = "play" /\ o[6] = "base" /\ o[7] = "restore" /\ o[8] = "rest"
    BY <1>1
  <1> HIDE DEF o
  <1>4. \A i, j \in 1..8 : o[i] = o[j] => i = j
    BY <1>3
  <1>5. ASSUME NEW i \in 1..8
        PROVE  Following("reel", o[i]) = IF i = 8 THEN "ended" ELSE o[i + 1]
    <2>1. 8 \in Nat \ {0}
      OBVIOUS
    <2> QED
      BY <1>2, <1>4, <2>1, FollowingIs DEF o
  <1> QED
    BY <1>2, <1>3, <1>5 DEF o

\* The demo that uploads its sprites, in order.
LEMMA PicturesStages ==
    /\ Following("pictures", "settle") = "status" /\ Following("pictures", "status") = "document"
    /\ Following("pictures", "document") = "setup" /\ Following("pictures", "setup") = "show"
    /\ Following("pictures", "show") = "play" /\ Following("pictures", "play") = "listing"
    /\ Following("pictures", "listing") = "delete" /\ Following("pictures", "delete") = "base"
    /\ Following("pictures", "base") = "restore" /\ Following("pictures", "restore") = "rest"
    /\ Following("pictures", "rest") = "ended"
    /\ Head(Stages["pictures"]) = "settle"
  <1> DEFINE o == Stages["pictures"]
  <1>1. o = <<"settle", "status", "document", "setup", "show", "play",
             "listing", "delete", "base", "restore", "rest">>
    BY DEF Stages
  <1>2. Len(o) = 11 /\ DOMAIN o = 1..11 /\ Head(o) = "settle"
    BY <1>1
  <1>3. /\ o[1] = "settle" /\ o[2] = "status" /\ o[3] = "document" /\ o[4] = "setup"
        /\ o[5] = "show" /\ o[6] = "play" /\ o[7] = "listing" /\ o[8] = "delete"
        /\ o[9] = "base" /\ o[10] = "restore" /\ o[11] = "rest"
    BY <1>1
  <1> HIDE DEF o
  <1>4. \A i, j \in 1..11 : o[i] = o[j] => i = j
    BY <1>3
  <1>5. ASSUME NEW i \in 1..11
        PROVE  Following("pictures", o[i]) = IF i = 11 THEN "ended" ELSE o[i + 1]
    <2>1. 11 \in Nat \ {0}
      OBVIOUS
    <2> QED
      BY <1>2, <1>4, <2>1, FollowingIs DEF o
  <1> QED
    BY <1>2, <1>3, <1>5 DEF o

\* The pictures of the documentation, in order.
LEMMA DocsInOrder ==
    /\ Following("docs", "status") = "document" /\ Following("docs", "document") = "setup"
    /\ Following("docs", "setup") = "show" /\ Following("docs", "show") = "play"
    /\ Following("docs", "play") = "base" /\ Following("docs", "base") = "restore"
    /\ Following("docs", "restore") = "listing" /\ Following("docs", "listing") = "delete"
    /\ Following("docs", "delete") = "ended"
    /\ Head(Stages["docs"]) = "status"
  <1> DEFINE o == Stages["docs"]
  <1>1. o = <<"status", "document", "setup", "show", "play",
             "base", "restore", "listing", "delete">>
    BY DEF Stages, DocsStages
  <1>2. Len(o) = 9 /\ DOMAIN o = 1..9 /\ Head(o) = "status"
    BY <1>1
  <1>3. /\ o[1] = "status" /\ o[2] = "document" /\ o[3] = "setup" /\ o[4] = "show"
        /\ o[5] = "play" /\ o[6] = "base" /\ o[7] = "restore" /\ o[8] = "listing"
        /\ o[9] = "delete"
    BY <1>1
  <1> HIDE DEF o
  <1>4. \A i, j \in 1..9 : o[i] = o[j] => i = j
    BY <1>3
  <1>5. ASSUME NEW i \in 1..9
        PROVE  Following("docs", o[i]) = IF i = 9 THEN "ended" ELSE o[i + 1]
    <2>1. 9 \in Nat \ {0}
      OBVIOUS
    <2> QED
      BY <1>2, <1>4, <2>1, FollowingIs DEF o
  <1> QED
    BY <1>2, <1>3, <1>5 DEF o

\* The transitions, in order.
LEMMA TransitionsInOrder ==
    /\ Following("transitions", "status") = "play" /\ Following("transitions", "play") = "base"
    /\ Following("transitions", "base") = "ended"
    /\ Head(Stages["transitions"]) = "status"
  <1> DEFINE o == Stages["transitions"]
  <1>1. o = <<"status", "play", "base">>
    BY DEF Stages, TransitionsStages
  <1>2. Len(o) = 3 /\ DOMAIN o = 1..3 /\ Head(o) = "status"
    BY <1>1
  <1>3. /\ o[1] = "status" /\ o[2] = "play" /\ o[3] = "base"
    BY <1>1
  <1> HIDE DEF o
  <1>4. \A i, j \in 1..3 : o[i] = o[j] => i = j
    BY <1>3
  <1>5. ASSUME NEW i \in 1..3
        PROVE  Following("transitions", o[i]) = IF i = 3 THEN "ended" ELSE o[i + 1]
    <2>1. 3 \in Nat \ {0}
      OBVIOUS
    <2> QED
      BY <1>2, <1>4, <2>1, FollowingIs DEF o
  <1> QED
    BY <1>2, <1>3, <1>5 DEF o
-----------------------------------------------------------------------------
(* What a script knows of the panel, stage by stage *)

Shows   == Bases \cup {"none"}
Docs    == {"empty", "own", "drawn", "none"}
Panels  == [base : Shows, doc : Docs, sprites : SUBSET (Mine \cup {"own"})]

Jobs ==
    [kind : {"reel", "pictures", "docs", "transitions"},
     at : Asks \cup {"settle", "rest", "ended"}, beat : BOOLEAN,
     was : Shows, wasDoc : Docs, outer : Shows, inner : Shows,
     flips : Int, pass : Int, todo : SUBSET Mine, next : Mine \cup {"none"},
     faults : Int, clean : BOOLEAN, found : Panels, fresh : BOOLEAN]

\* A script is at one of its own stages.
InOrder(j) ==
    /\ j.kind = "reel" => j.at \in {"settle", "status", "document", "show", "play", "base",
                                    "restore", "rest", "ended"}
    /\ j.kind = "pictures" => j.at \in {"settle", "status", "document", "setup", "show", "play",
                                        "listing", "delete", "base", "restore", "rest", "ended"}
    /\ j.kind = "docs" => j.at \in {"status", "document", "setup", "show", "play", "base",
                                    "restore", "listing", "delete", "ended"}
    /\ j.kind = "transitions" => j.at \in {"status", "play", "base", "ended"}

\* The sprite that is asked for is one of those to do.
InHand(j) == j.at \in {"setup", "delete"} => j.next \in j.todo

\* Before anything is changed: the panel is as it was found.
Untouched(j, p, t) ==
    /\ j.at \in {"settle", "status", "document"} => p = j.found
    /\ j.at = "settle" /\ j.beat => t = p.base
    /\ j.at = "status" => t = p.base

\* What is to be restored is what was found.
Saved(j) ==
    /\ j.at \notin {"settle", "status"} => j.was = j.found.base
    /\ j.at \notin {"settle", "status", "document"} /\ j.kind # "transitions"
         => j.wasDoc = j.found.doc

\* The sprites that are not the script's are never touched; its own are gone
\* when it has been through its listing.
SpritesKept(j, p) ==
    /\ j.kind \in {"reel", "transitions"} => p.sprites = j.found.sprites
    /\ j.kind \in {"pictures", "docs"} => p.sprites \ Mine = j.found.sprites \ Mine
    /\ j.at = "delete" => Mine \cap p.sprites \subseteq j.todo
    /\ \/ j.kind = "pictures" /\ j.at \in {"base", "restore", "rest", "ended"}
       \/ j.kind = "docs" /\ j.at = "ended"
       => Mine \cap p.sprites = {}

\* The transitions know the base they have gone to.
BaseKnown(j, p) ==
    /\ j.kind = "transitions" => p.doc = j.found.doc
    /\ j.kind = "transitions" /\ j.at = "play" => p.base = j.inner
    /\ j.kind = "transitions" /\ j.at = "base" => p.base = j.outer

\* The base is back when the stage that restores it is past, and the document.
Restored(j, p) ==
    /\ \/ j.kind = "docs" /\ j.at \in {"restore", "listing", "delete", "ended"}
       \/ j.kind \in {"reel", "pictures"} /\ j.at \in {"restore", "rest", "ended"}
       \/ j.kind = "transitions" /\ j.at = "ended"
       => p.base = j.found.base
    /\ \/ j.kind = "docs" /\ j.at \in {"listing", "delete", "ended"}
       \/ j.kind \in {"reel", "pictures"} /\ j.at \in {"rest", "ended"}
       => p.doc = j.found.doc

StageOf(j, p, t) ==
    /\ Untouched(j, p, t) /\ Saved(j) /\ SpritesKept(j, p)
    /\ BaseKnown(j, p) /\ Restored(j, p)

\* faults in the try alone, and a status that was fresh where none is waited for
Trusted(j) == j.clean /\ (j.kind \in {"docs", "transitions"} => j.fresh)

JobOk(j, p, t) ==
    /\ InOrder(j) /\ InHand(j)
    /\ j.at = "restore" => p.base = j.was
    /\ Trusted(j) => StageOf(j, p, t)

\* What the panel is asked in any stage leaves a panel.
LEMMA DonePanel ==
    ASSUME panel \in Panels, NEW j \in Jobs, j.at \in Asks, ~Quiet(j), InHand(j)
    PROVE  Done(j) \in Panels
  <1>1. CASE j.at = "show"
    BY <1>1 DEF Done, Panels, Shows, Bases
  <1>2. CASE j.at = "play" /\ j.kind = "transitions"
    <2>1. j.inner \in {"clock", "art", "ip"}
      BY <1>2 DEF Quiet, OtherBase
    <2>2. OtherBase[j.inner] \in Shows
      BY <2>1 DEF OtherBase, Shows, Bases
    <2> QED
      BY <1>2, <2>2 DEF Done, Panels
  <1>3. CASE j.at = "play" /\ j.kind # "transitions"
    BY <1>3 DEF Done, Panels, Docs
  <1>4. CASE j.at = "setup"
    <2>1. j.next \in Mine
      BY <1>4 DEF InHand, Jobs
    <2> QED
      BY <1>4, <2>1 DEF Done, Panels
  <1>5. CASE j.at = "delete"
    BY <1>5 DEF Done, Panels
  <1>6. CASE j.at = "base"
    BY <1>6 DEF Done, Panels, Jobs
  <1>7. CASE j.at = "restore"
    BY <1>7 DEF Done, Panels, Jobs
  <1>8. CASE j.at \in {"status", "document", "listing"}
    BY <1>8 DEF Done
  <1> QED
    BY <1>1, <1>2, <1>3, <1>4, <1>5, <1>6, <1>7, <1>8 DEF Asks

\* What leaves a stage for the next keeps everything the script knows.
Same(j, k) ==
    /\ k.kind = j.kind /\ k.was = j.was /\ k.wasDoc = j.wasDoc
    /\ k.outer = j.outer /\ k.inner = j.inner /\ k.todo = j.todo /\ k.next = j.next
    /\ k.clean = j.clean /\ k.found = j.found /\ k.fresh = j.fresh

LEMMA OnwardsIs ==
    ASSUME NEW j \in Jobs, InOrder(j), j.at # "ended"
    PROVE  /\ Onwards(j) \in Jobs /\ Same(j, Onwards(j)) /\ Onwards(j).beat = FALSE
           /\ Onwards(j).at = Following(j.kind, j.at)
  <1> DEFINE f == Following(j.kind, j.at)
  <1>1. f \in Asks \cup {"settle", "rest", "ended"}
    <2>1. CASE j.kind = "reel"
      BY <2>1, ReelStages DEF InOrder, Asks
    <2>2. CASE j.kind = "pictures"
      BY <2>2, PicturesStages DEF InOrder, Asks
    <2>3. CASE j.kind = "docs"
      BY <2>3, DocsInOrder DEF InOrder, Asks
    <2>4. CASE j.kind = "transitions"
      BY <2>4, TransitionsInOrder DEF InOrder, Asks
    <2> QED
      BY <2>1, <2>2, <2>3, <2>4 DEF Jobs
  <1>2. Onwards(j) = [j EXCEPT !.at = f, !.beat = FALSE]
    BY DEF Onwards
  <1> HIDE DEF f
  <1>3. Onwards(j) \in Jobs /\ Onwards(j).beat = FALSE /\ Onwards(j).at = f
    BY <1>1, <1>2 DEF Jobs
  <1>4. Same(j, Onwards(j))
    BY <1>2 DEF Jobs, Same
  <1> QED
    BY <1>3, <1>4 DEF f

\* The status: what it says of the base is what is put back.
LEMMA StatusHeard ==
    ASSUME panel \in Panels, told \in Shows, NEW j \in Jobs, JobOk(j, panel, told),
           j.at = "status"
    PROVE  Heard(j) \in Jobs /\ JobOk(Heard(j), panel, told)
  <1> DEFINE k == [j EXCEPT !.was = told, !.outer = told, !.inner = told]
             l == Onwards(k)
  <1>1. Heard(j) = l
    BY DEF Heard
  <1>2. k \in Jobs /\ k.at = "status" /\ k.was = told /\ k.outer = told /\ k.inner = told
    BY DEF Jobs
  <1>3. /\ k.kind = j.kind /\ k.wasDoc = j.wasDoc /\ k.todo = j.todo /\ k.next = j.next
        /\ k.found = j.found /\ k.clean = j.clean /\ k.fresh = j.fresh
    BY DEF Jobs
  <1> HIDE DEF k
  <1>4. InOrder(k)
    BY <1>2, <1>3 DEF InOrder, JobOk
  <1>5. l \in Jobs /\ Same(k, l) /\ l.at = Following(k.kind, "status")
    BY <1>2, <1>4, OnwardsIs
  <1> HIDE DEF l
  <1>6. l.at = IF j.kind = "transitions" THEN "play" ELSE "document"
    BY <1>3, <1>5, ReelStages, PicturesStages, DocsInOrder, TransitionsInOrder DEF Jobs
  <1>7. InOrder(l)
    BY <1>4, <1>5, <1>6, <1>3 DEF InOrder, Same, Jobs, JobOk
  <1>8. ASSUME Trusted(l) PROVE StageOf(l, panel, told)
    <2>1. panel = j.found /\ told = panel.base
      BY <1>3, <1>5, <1>8 DEF Trusted, Same, JobOk, StageOf, Untouched
    <2>2. l.found = panel /\ l.was = panel.base /\ l.inner = panel.base
      BY <1>2, <1>3, <1>5, <2>1 DEF Same
    <2>3. l.kind = j.kind
      BY <1>3, <1>5 DEF Same
    <2> QED
      BY <1>6, <2>2, <2>3 DEF StageOf, Untouched, Saved, SpritesKept, BaseKnown, Restored
  <1>9. l.at # "restore" /\ InHand(l)
    BY <1>6 DEF InHand
  <1> QED
    BY <1>1, <1>5, <1>7, <1>8, <1>9 DEF JobOk

\* The document: what it is is what is put back.
LEMMA DocumentHeard ==
    ASSUME panel \in Panels, told \in Shows, NEW j \in Jobs, JobOk(j, panel, told),
           j.at = "document"
    PROVE  Heard(j) \in Jobs /\ JobOk(Heard(j), panel, told)
  <1> DEFINE k == [j EXCEPT !.wasDoc = panel.doc, !.todo = Mine, !.next = NextOf(Mine)]
             l == Onwards(k)
  <1>0. NextOf(Mine) \in Mine
    BY SpritesAssumption DEF NextOf, SpritesAssumption
  <1>1. Heard(j) = l
    BY DEF Heard
  <1>2. k \in Jobs /\ k.at = "document" /\ k.wasDoc = panel.doc /\ k.todo = Mine /\ k.next \in Mine
    BY <1>0 DEF Jobs, Panels
  <1>3. /\ k.kind = j.kind /\ k.was = j.was /\ k.found = j.found
        /\ k.clean = j.clean /\ k.fresh = j.fresh
    BY DEF Jobs
  <1> HIDE DEF k
  <1>4. InOrder(k)
    BY <1>2, <1>3 DEF InOrder, JobOk
  <1>5. l \in Jobs /\ Same(k, l) /\ l.at = Following(k.kind, "document")
    BY <1>2, <1>4, OnwardsIs
  <1> HIDE DEF l
  <1>6. j.kind # "transitions"
    BY DEF JobOk, InOrder
  <1>7. l.at = IF j.kind = "reel" THEN "show" ELSE "setup"
    BY <1>3, <1>5, <1>6, ReelStages, PicturesStages, DocsInOrder DEF Jobs
  <1>8. InOrder(l)
    BY <1>2, <1>3, <1>5, <1>6, <1>7 DEF InOrder, Same, Jobs
  <1>9. ASSUME Trusted(l) PROVE StageOf(l, panel, told)
    <2>1. panel = j.found /\ j.was = j.found.base
      BY <1>3, <1>5, <1>9 DEF Trusted, Same, JobOk, StageOf, Untouched, Saved
    <2>2. l.found = panel /\ l.was = panel.base /\ l.wasDoc = panel.doc /\ l.kind = j.kind
      BY <1>2, <1>3, <1>5, <2>1 DEF Same
    <2> QED
      BY <1>6, <1>7, <2>2 DEF StageOf, Untouched, Saved, SpritesKept, BaseKnown, Restored
  <1>10. l.at # "restore" /\ InHand(l)
    BY <1>2, <1>5, <1>7 DEF InHand, Same
  <1> QED
    BY <1>1, <1>5, <1>8, <1>9, <1>10 DEF JobOk

\* A stage that is one request: the panel shows the canvas, has its base back,
\* or its document.
LEMMA OneRequestHeard ==
    ASSUME panel \in Panels, told \in Shows, NEW j \in Jobs, JobOk(j, panel, told),
           j.at \in {"show", "base", "restore"},
           NEW p \in Panels, p = Done(j)
    PROVE  Onwards(j) \in Jobs /\ JobOk(Onwards(j), p, told)
  <1> DEFINE l == Onwards(j)
  <1>1. InOrder(j)
    BY DEF JobOk
  <1>2. l \in Jobs /\ Same(j, l) /\ l.at = Following(j.kind, j.at)
    BY <1>1, OnwardsIs
  <1> HIDE DEF l
  <1>3. /\ l.kind = j.kind /\ l.was = j.was /\ l.wasDoc = j.wasDoc /\ l.found = j.found
        /\ l.outer = j.outer /\ (Trusted(l) <=> Trusted(j))
    BY <1>2 DEF Same, Trusted
  <1>4. CASE j.at = "show"
    <2>1. p.base = "canvas" /\ p.doc = panel.doc /\ p.sprites = panel.sprites
      BY <1>4 DEF Done, Panels
    <2>2. l.at = "play" /\ j.kind # "transitions"
      BY <1>1, <1>2, <1>4, ReelStages, PicturesStages, DocsInOrder DEF InOrder, Jobs
    <2>3. InOrder(l)
      BY <1>3, <2>2 DEF InOrder, Jobs
    <2>4. ASSUME Trusted(l) PROVE StageOf(l, p, told)
      <3>1. StageOf(j, panel, told)
        BY <1>3, <2>4 DEF JobOk
      <3> QED
        BY <1>3, <1>4, <2>1, <2>2, <3>1
           DEF StageOf, Untouched, Saved, SpritesKept, BaseKnown, Restored
    <2> QED
      BY <1>2, <2>2, <2>3, <2>4 DEF JobOk, InHand, l
  <1>5. CASE j.at = "base"
    <2>1. p.base = j.was /\ p.doc = panel.doc /\ p.sprites = panel.sprites
      BY <1>5 DEF Done, Panels
    <2>2. l.at = IF j.kind = "transitions" THEN "ended" ELSE "restore"
      BY <1>1, <1>2, <1>5, ReelStages, PicturesStages, DocsInOrder, TransitionsInOrder DEF Jobs
    <2>3. InOrder(l)
      BY <1>3, <2>2, <1>2 DEF InOrder, Jobs
    <2>4. ASSUME Trusted(l) PROVE StageOf(l, p, told)
      <3>1. StageOf(j, panel, told)
        BY <1>3, <2>4 DEF JobOk
      <3> QED
        BY <1>2, <1>3, <1>5, <2>1, <2>2, <3>1
           DEF StageOf, Untouched, Saved, SpritesKept, BaseKnown, Restored, Jobs
    <2> QED
      BY <1>2, <1>3, <2>1, <2>2, <2>3, <2>4 DEF JobOk, InHand, l
  <1>6. CASE j.at = "restore"
    <2>1. p.base = panel.base /\ p.doc = j.wasDoc /\ p.sprites = panel.sprites
      BY <1>6 DEF Done, Panels
    <2>2. l.at = (IF j.kind = "docs" THEN "listing" ELSE "rest") /\ j.kind # "transitions"
      BY <1>1, <1>2, <1>6, ReelStages, PicturesStages, DocsInOrder DEF InOrder, Jobs
    <2>3. InOrder(l)
      BY <1>3, <2>2, <1>2 DEF InOrder, Jobs
    <2>4. ASSUME Trusted(l) PROVE StageOf(l, p, told)
      <3>1. StageOf(j, panel, told)
        BY <1>3, <2>4 DEF JobOk
      <3> QED
        BY <1>2, <1>3, <1>6, <2>1, <2>2, <3>1
           DEF StageOf, Untouched, Saved, SpritesKept, BaseKnown, Restored, Jobs
    <2> QED
      BY <1>2, <2>2, <2>3, <2>4 DEF JobOk, InHand, l
  <1> QED
    BY <1>4, <1>5, <1>6

\* The sprites one after the other: the next is one of those left.
LEMMA WorkingIs ==
    ASSUME NEW j \in Jobs, NEW todo \in SUBSET Mine, todo # {}
    PROVE  /\ Working(j, todo) \in Jobs /\ Working(j, todo).at = j.at
           /\ Working(j, todo).todo = todo /\ Working(j, todo).next \in todo
           /\ Working(j, todo).kind = j.kind /\ Working(j, todo).was = j.was
           /\ Working(j, todo).wasDoc = j.wasDoc /\ Working(j, todo).found = j.found
           /\ Working(j, todo).clean = j.clean /\ Working(j, todo).fresh = j.fresh
  <1> DEFINE n == NextOf(todo)
             w == [j EXCEPT !.todo = todo, !.next = n]
  <1>1. n \in todo
    BY DEF NextOf
  <1>2. Working(j, todo) = w
    BY DEF Working
  <1> HIDE DEF n
  <1>3. /\ w \in Jobs /\ w.at = j.at /\ w.todo = todo /\ w.next = n /\ w.kind = j.kind
        /\ w.was = j.was /\ w.wasDoc = j.wasDoc /\ w.found = j.found
        /\ w.clean = j.clean /\ w.fresh = j.fresh
    BY <1>1 DEF Jobs
  <1> QED
    BY <1>1, <1>2, <1>3

\* The sprites of the script are all its own.
Uploads(j, l) ==
    /\ l.kind = j.kind /\ l.was = j.was /\ l.wasDoc = j.wasDoc /\ l.found = j.found
    /\ (Trusted(l) <=> Trusted(j))

LEMMA SetupHeard ==
    ASSUME panel \in Panels, told \in Shows, NEW j \in Jobs, JobOk(j, panel, told),
           j.at = "setup", NEW p \in Panels, p = Done(j)
    PROVE  Heard(j) \in Jobs /\ JobOk(Heard(j), p, told)
  <1> DEFINE rest == j.todo \ {j.next}
             l == Heard(j)
  <1>1. j.next \in Mine /\ j.next \in j.todo /\ rest \in SUBSET Mine
    BY DEF JobOk, InHand, Jobs
  <1>2. /\ p.base = panel.base /\ p.doc = panel.doc
        /\ p.sprites = panel.sprites \cup {j.next}
    BY DEF Done, Panels
  <1>3. InOrder(j) /\ j.kind \in {"pictures", "docs"}
    BY DEF JobOk, InOrder, Jobs
  <1>4. l = Working(j, rest)
    BY DEF Heard
  <1> HIDE DEF rest
  <1>5. l \in Jobs /\ Uploads(j, l) /\ l.at \in {"show", "setup"} /\ InHand(l)
    <2>1. CASE rest = {}
      <3>1. l = Onwards(j)
        BY <1>4, <2>1 DEF Working
      <3> HIDE DEF l
      <3>2. l \in Jobs /\ Same(j, l) /\ l.at = Following(j.kind, "setup")
        BY <1>3, <3>1, OnwardsIs
      <3>3. l.at = "show"
        BY <1>3, <3>2, PicturesStages, DocsInOrder
      <3> QED
        BY <3>2, <3>3 DEF Uploads, Same, Trusted, InHand
    <2>2. CASE rest # {}
      <3> HIDE DEF l
      <3> QED
        BY <1>1, <1>4, <2>2, WorkingIs DEF Uploads, Trusted, InHand
    <2> QED
      BY <2>1, <2>2
  <1> HIDE DEF l
  <1>6. InOrder(l)
    BY <1>3, <1>5 DEF InOrder, Uploads
  <1>7. ASSUME Trusted(l) PROVE StageOf(l, p, told)
    <2>1. StageOf(j, panel, told)
      BY <1>5, <1>7 DEF JobOk, Uploads
    <2>2. p.sprites \ Mine = panel.sprites \ Mine
      BY <1>1, <1>2
    <2> QED
      BY <1>2, <1>3, <1>5, <2>1, <2>2
         DEF StageOf, Untouched, Saved, SpritesKept, BaseKnown, Restored, Uploads
  <1>8. l.at # "restore"
    BY <1>5
  <1> QED
    BY <1>5, <1>6, <1>7, <1>8 DEF JobOk, l

LEMMA DeleteHeard ==
    ASSUME panel \in Panels, told \in Shows, NEW j \in Jobs, JobOk(j, panel, told),
           j.at = "delete", NEW p \in Panels, p = Done(j)
    PROVE  Heard(j) \in Jobs /\ JobOk(Heard(j), p, told)
  <1> DEFINE rest == j.todo \ {j.next}
             l == Heard(j)
  <1>1. j.next \in Mine /\ j.next \in j.todo /\ rest \in SUBSET Mine
    BY DEF JobOk, InHand, Jobs
  <1>2. /\ p.base = panel.base /\ p.doc = panel.doc
        /\ p.sprites = panel.sprites \ {j.next}
    BY DEF Done, Panels
  <1>3. InOrder(j) /\ j.kind \in {"pictures", "docs"}
    BY DEF JobOk, InOrder, Jobs
  <1>4. l = Working(j, rest)
    BY DEF Heard
  <1>5. /\ l \in Jobs /\ Uploads(j, l) /\ InHand(l)
        /\ \/ l.at = "delete" /\ l.todo = rest
           \/ rest = {} /\ l.at = IF j.kind = "docs" THEN "ended" ELSE "base"
    <2> HIDE DEF rest
    <2>1. CASE rest = {}
      <3>1. l = Onwards(j)
        BY <1>4, <2>1 DEF Working
      <3> HIDE DEF l
      <3>2. l \in Jobs /\ Same(j, l) /\ l.at = Following(j.kind, "delete")
        BY <1>3, <3>1, OnwardsIs
      <3>3. l.at = IF j.kind = "docs" THEN "ended" ELSE "base"
        BY <1>3, <3>2, PicturesStages, DocsInOrder
      <3> QED
        BY <2>1, <3>2, <3>3 DEF Uploads, Same, Trusted, InHand
    <2>2. CASE rest # {}
      <3> HIDE DEF l
      <3> QED
        BY <1>1, <1>4, <2>2, WorkingIs DEF Uploads, Trusted, InHand
    <2> QED
      BY <2>1, <2>2
  <1> HIDE DEF l
  <1>6. InOrder(l)
    BY <1>3, <1>5 DEF InOrder, Uploads
  <1>7. ASSUME Trusted(l) PROVE StageOf(l, p, told)
    <2>1. StageOf(j, panel, told)
      BY <1>5, <1>7 DEF JobOk, Uploads
    <2>2. p.sprites \ Mine = panel.sprites \ Mine
      BY <1>1, <1>2
    <2>3. Mine \cap p.sprites \subseteq rest
      BY <1>2, <2>1 DEF StageOf, SpritesKept
    <2> HIDE DEF rest
    <2>4. SpritesKept(l, p)
      BY <1>3, <1>5, <2>1, <2>2, <2>3 DEF StageOf, SpritesKept, Uploads
    <2> QED
      BY <1>2, <1>3, <1>5, <2>1, <2>4
         DEF StageOf, Untouched, Saved, BaseKnown, Restored, Uploads
  <1>8. l.at # "restore"
    BY <1>5
  <1> QED
    BY <1>5, <1>6, <1>7, <1>8 DEF JobOk, l

LEMMA ListingHeard ==
    ASSUME panel \in Panels, told \in Shows, NEW j \in Jobs, JobOk(j, panel, told),
           j.at = "listing"
    PROVE  Heard(j) \in Jobs /\ JobOk(Heard(j), panel, told)
  <1> DEFINE held == Mine \cap panel.sprites
             n == Onwards(j)
             l == Heard(j)
  <1>1. InOrder(j) /\ j.kind \in {"pictures", "docs"}
    BY DEF JobOk, InOrder, Jobs
  <1>2. l = IF held = {} THEN Onwards(n) ELSE Working(n, held)
    BY DEF Heard
  <1>3. n \in Jobs /\ Same(j, n) /\ n.at = Following(j.kind, "listing")
    BY <1>1, OnwardsIs
  <1> HIDE DEF n
  <1>4. n.at = "delete"
    BY <1>1, <1>3, PicturesStages, DocsInOrder
  <1>5. InOrder(n) /\ Uploads(j, n) /\ n.kind = j.kind
    BY <1>1, <1>3, <1>4 DEF InOrder, Same, Uploads, Trusted
  <1>6. /\ l \in Jobs /\ Uploads(j, l) /\ InHand(l)
        /\ \/ l.at = "delete" /\ l.todo = held
           \/ held = {} /\ l.at = IF j.kind = "docs" THEN "ended" ELSE "base"
    <2>0. held \in SUBSET Mine
      OBVIOUS
    <2> HIDE DEF held
    <2>1. CASE held = {}
      <3>1. l = Onwards(n)
        BY <1>2, <2>1
      <3> HIDE DEF l
      <3>2. l \in Jobs /\ Same(n, l) /\ l.at = Following(n.kind, "delete")
        BY <1>3, <1>4, <1>5, <3>1, OnwardsIs
      <3>3. l.at = IF j.kind = "docs" THEN "ended" ELSE "base"
        BY <1>1, <1>5, <3>2, PicturesStages, DocsInOrder
      <3> QED
        BY <1>5, <2>1, <3>2, <3>3 DEF Uploads, Same, Trusted, InHand
    <2>2. CASE held # {}
      <3> HIDE DEF l
      <3>1. l = Working(n, held)
        BY <1>2, <2>2
      <3> QED
        BY <1>3, <1>4, <1>5, <2>0, <2>2, <3>1, WorkingIs DEF Uploads, Trusted, InHand
    <2> QED
      BY <2>1, <2>2
  <1> HIDE DEF l
  <1>7. InOrder(l)
    BY <1>1, <1>6 DEF InOrder, Uploads
  <1>8. ASSUME Trusted(l) PROVE StageOf(l, panel, told)
    <2>1. StageOf(j, panel, told)
      BY <1>6, <1>8 DEF JobOk, Uploads
    <2>2. SpritesKept(l, panel)
      BY <1>1, <1>6, <2>1 DEF StageOf, SpritesKept, Uploads
    <2> QED
      BY <1>1, <1>6, <2>1, <2>2
         DEF StageOf, Untouched, Saved, BaseKnown, Restored, Uploads
  <1>9. l.at # "restore"
    BY <1>6
  <1> QED
    BY <1>6, <1>7, <1>8, <1>9 DEF JobOk, l

\* A frame of the reel, or a change of scene.
LEMMA PlayHeard ==
    ASSUME panel \in Panels, told \in Shows, NEW j \in Jobs, JobOk(j, panel, told),
           j.at = "play", ~Quiet(j), NEW p \in Panels, p = Done(j)
    PROVE  Heard(j) \in Jobs /\ JobOk(Heard(j), p, told)
  <1> DEFINE l == Heard(j)
  <1>1. InOrder(j)
    BY DEF JobOk
  <1>2. CASE j.kind # "transitions"
    <2>1. l = j
      BY <1>2 DEF Heard
    <2>2. p.base = panel.base /\ p.sprites = panel.sprites
      BY <1>2 DEF Done, Panels
    <2> HIDE DEF l
    <2>3. ASSUME Trusted(j) PROVE StageOf(j, p, told)
      BY <1>2, <2>2, <2>3
         DEF JobOk, StageOf, Untouched, Saved, SpritesKept, BaseKnown, Restored
    <2>4. j \in Jobs /\ JobOk(j, p, told)
      BY <2>3 DEF JobOk
    <2> QED
      BY <2>1, <2>4 DEF l
  <1>3. CASE j.kind = "transitions"
    <2> DEFINE other == OtherBase[j.inner]
    <2>1. j.inner \in {"clock", "art", "ip"}
      BY <1>3 DEF Quiet, OtherBase
    <2>2. other \in Shows
      BY <2>1 DEF OtherBase, Shows, Bases
    <2>3. p.base = other /\ p.doc = panel.doc /\ p.sprites = panel.sprites
      BY <1>3, <2>2 DEF Done, Panels
    <2>4. l = [j EXCEPT !.inner = other, !.flips = j.flips - 1]
      BY <1>3 DEF Heard
    <2> HIDE DEF l, other
    <2>5. j.flips - 1 \in Int
      BY DEF Jobs
    <2>6. l \in Jobs /\ l.inner = other /\ l.at = "play" /\ l.kind = "transitions"
      BY <1>3, <2>2, <2>4, <2>5 DEF Jobs
    <2>7. Uploads(j, l)
      BY <2>4 DEF Jobs, Uploads, Trusted
    <2>8. ASSUME Trusted(l) PROVE StageOf(l, p, told)
      <3>1. StageOf(j, panel, told)
        BY <2>7, <2>8 DEF JobOk, Uploads
      <3> QED
        BY <1>3, <2>3, <2>6, <2>7, <3>1
           DEF StageOf, Untouched, Saved, SpritesKept, BaseKnown, Restored, Uploads
    <2>9. InOrder(l) /\ InHand(l)
      BY <2>6 DEF InOrder, InHand
    <2>10. l \in Jobs /\ JobOk(l, p, told)
      BY <2>6, <2>8, <2>9 DEF JobOk
    <2> QED
      BY <2>10 DEF l
  <1> QED
    BY <1>2, <1>3

\* An answered request leaves the script knowing what it needs.
LEMMA HeardOk ==
    ASSUME panel \in Panels, told \in Shows, NEW j \in Jobs, JobOk(j, panel, told),
           j.at \in Asks, ~Quiet(j)
    PROVE  Done(j) \in Panels /\ Heard(j) \in Jobs /\ JobOk(Heard(j), Done(j), told)
  <1> DEFINE p == Done(j)
  <1>1. p \in Panels
    BY DonePanel DEF JobOk
  <1>2. CASE j.at \in {"status", "document", "listing"}
    <2>1. p = panel
      BY <1>2 DEF Done
    <2> HIDE DEF p
    <2>2. Heard(j) \in Jobs /\ JobOk(Heard(j), p, told)
      BY <1>2, <2>1, StatusHeard, DocumentHeard, ListingHeard
    <2> QED
      BY <1>1, <2>2 DEF p
  <1>3. CASE j.at \in {"show", "base", "restore"}
    <2>1. Heard(j) = Onwards(j)
      BY <1>3 DEF Heard
    <2> QED
      BY <1>1, <1>3, <2>1, OneRequestHeard
  <1>4. CASE j.at = "setup"
    BY <1>1, <1>4, SetupHeard
  <1>5. CASE j.at = "delete"
    BY <1>1, <1>5, DeleteHeard
  <1>6. CASE j.at = "play"
    BY <1>1, <1>6, PlayHeard
  <1> QED
    BY <1>2, <1>3, <1>4, <1>5, <1>6 DEF Asks

-----------------------------------------------------------------------------
(* What else a script does *)

\* From its try a script goes on with its finally.
LEMMA CleanupIs ==
    ASSUME NEW j \in Jobs
    PROVE  /\ Cleanup(j.kind) = IF j.kind = "pictures" THEN "listing" ELSE "base"
           /\ Following("pictures", "delete") = "base"
  BY ReelStages, PicturesStages, DocsInOrder, TransitionsInOrder DEF Cleanup, Jobs

\* A script that is still trusted after a fault was in its try, and not the transitions.
LEMMA RaiseIs ==
    ASSUME NEW j \in Jobs, NEW how
    PROVE  LET l == Raise(j, how)
           IN  /\ l \in Jobs
               /\ l.at \in {"listing", "base", "ended"}
               /\ l.at = "listing" => j.kind = "pictures"
               /\ Trusted(l) => /\ Trusted(j) /\ j.kind # "transitions" /\ j.at \in Tried(j.kind)
                                /\ l.at = IF j.kind = "pictures" THEN "listing" ELSE "base"
               /\ l.kind = j.kind /\ l.was = j.was /\ l.wasDoc = j.wasDoc /\ l.found = j.found
  <1> DEFINE next == CASE j.at \in Tried(j.kind) -> Cleanup(j.kind)
                       [] j.kind = "pictures" /\ j.at \in {"listing", "delete"} /\ how = "refused"
                            -> Following("pictures", "delete")
                       [] OTHER -> "ended"
             clean == j.clean /\ j.at \in Tried(j.kind) /\ j.kind # "transitions"
             l == [j EXCEPT !.at = next, !.faults = j.faults + 1, !.clean = clean]
  <1>1. Raise(j, how) = l
    BY DEF Raise
  <1>2. /\ next \in {"listing", "base", "ended"}
        /\ next = "listing" => j.kind = "pictures"
        /\ j.at \in Tried(j.kind) => next = IF j.kind = "pictures" THEN "listing" ELSE "base"
    <2>1. CASE j.at \in Tried(j.kind)
      <3>1. next = Cleanup(j.kind)
        BY <2>1 DEF Tried
      <3> HIDE DEF next
      <3> QED
        BY <2>1, <3>1, CleanupIs
    <2>2. CASE j.at \notin Tried(j.kind)
      BY <2>2, CleanupIs
    <2> QED
      BY <2>1, <2>2
  <1>3. clean \in BOOLEAN /\ j.faults + 1 \in Int
    BY DEF Jobs
  <1>4. clean => j.clean /\ j.at \in Tried(j.kind) /\ j.kind # "transitions"
    OBVIOUS
  <1> HIDE DEF next, clean
  <1>5. /\ l \in Jobs /\ l.at = next /\ l.clean = clean
        /\ l.kind = j.kind /\ l.was = j.was /\ l.wasDoc = j.wasDoc /\ l.found = j.found
        /\ l.fresh = j.fresh
    BY <1>2, <1>3 DEF Jobs, Asks
  <1> HIDE DEF l
  <1>6. Trusted(l) => Trusted(j) /\ j.kind # "transitions" /\ j.at \in Tried(j.kind)
    BY <1>4, <1>5 DEF Trusted
  <1> QED
    BY <1>1, <1>2, <1>5, <1>6


\* A fault leaves the script knowing what its finally needs, whether the panel
\* did what it was asked or not.
LEMMA RaiseOk ==
    ASSUME panel \in Panels, told \in Shows, NEW j \in Jobs, JobOk(j, panel, told), NEW how,
           NEW p \in Panels, p = panel \/ p = Done(j)
    PROVE  Raise(j, how) \in Jobs /\ JobOk(Raise(j, how), p, told)
  <1> DEFINE l == Raise(j, how)
  <1>1. /\ l \in Jobs
        /\ l.at \in {"listing", "base", "ended"}
        /\ l.at = "listing" => j.kind = "pictures"
        /\ Trusted(l) => /\ Trusted(j) /\ j.kind # "transitions" /\ j.at \in Tried(j.kind)
                         /\ l.at = IF j.kind = "pictures" THEN "listing" ELSE "base"
        /\ l.kind = j.kind /\ l.was = j.was /\ l.wasDoc = j.wasDoc /\ l.found = j.found
    BY RaiseIs
  <1> HIDE DEF l
  <1>2. InOrder(l) /\ InHand(l) /\ l.at # "restore"
    <2>1. l.at = "base" \/ l.at = "ended" \/ (l.at = "listing" /\ l.kind = "pictures")
      BY <1>1
    <2> QED
      BY <2>1 DEF InOrder, InHand
  <1>3. ASSUME Trusted(l) PROVE StageOf(l, p, told)
    <2>1. StageOf(j, panel, told) /\ InOrder(j) /\ InHand(j)
      BY <1>1, <1>3 DEF JobOk
    <2>2. j.kind \in {"reel", "pictures", "docs"} /\ j.at \in {"setup", "show", "play"}
      BY <1>1, <1>3 DEF Tried, Jobs
    <2>3. j.at = "setup" => j.next \in Mine /\ j.kind # "reel"
      BY <2>1, <2>2 DEF InHand, InOrder, Jobs
    <2>4. p.sprites \in {panel.sprites, panel.sprites \cup {j.next}} /\ (j.at # "setup" => p.sprites = panel.sprites)
      BY <2>2 DEF Done, Panels
    <2>5. Saved(l)
      BY <1>1, <2>1, <2>2 DEF StageOf, Saved
    <2>6. p.sprites \ Mine = panel.sprites \ Mine
      BY <2>3, <2>4
    <2>7. SpritesKept(l, p)
      BY <1>1, <1>3, <2>1, <2>2, <2>3, <2>4, <2>6 DEF StageOf, SpritesKept
    <2> QED
      BY <1>1, <1>3, <2>2, <2>5, <2>7 DEF StageOf, Untouched, BaseKnown, Restored
  <1> QED
    BY <1>1, <1>2, <1>3 DEF JobOk, l

\* The reel ends, or the transitions come to the end of a pass.
LEMMA EndPlayOk ==
    ASSUME panel \in Panels, told \in Shows, NEW j \in Jobs, JobOk(j, panel, told), j.at = "play",
           NEW l,
           \/ j.kind # "transitions" /\ l = [j EXCEPT !.at = Cleanup(j.kind)]
           \/ j.kind = "transitions" /\ l = [j EXCEPT !.at = Cleanup(j.kind), !.outer = j.inner]
           \/ j.kind = "transitions" /\ l = [j EXCEPT !.flips = j.pass, !.outer = j.inner]
    PROVE  l \in Jobs /\ JobOk(l, panel, told)
  <1> DEFINE c == Cleanup(j.kind)
  <1>1. c = IF j.kind = "pictures" THEN "listing" ELSE "base"
    BY CleanupIs
  <1>2. \/ j.kind # "transitions" /\ l = [j EXCEPT !.at = c]
        \/ j.kind = "transitions" /\ l = [j EXCEPT !.at = c, !.outer = j.inner]
        \/ j.kind = "transitions" /\ l = [j EXCEPT !.flips = j.pass, !.outer = j.inner]
    OBVIOUS
  <1> HIDE DEF c
  <1>3. /\ l \in Jobs
        /\ l.kind = j.kind /\ l.was = j.was /\ l.wasDoc = j.wasDoc /\ l.found = j.found
        /\ l.clean = j.clean /\ l.fresh = j.fresh /\ l.inner = j.inner
        /\ \/ l.at = c
           \/ l.at = "play" /\ j.kind = "transitions"
        /\ j.kind = "transitions" => l.outer = j.inner
    <2>1. CASE j.kind # "transitions" /\ l = [j EXCEPT !.at = c]
      BY <1>1, <2>1 DEF Jobs, Asks
    <2>2. CASE j.kind = "transitions" /\ l = [j EXCEPT !.at = c, !.outer = j.inner]
      BY <1>1, <2>2 DEF Jobs, Asks
    <2>3. CASE j.kind = "transitions" /\ l = [j EXCEPT !.flips = j.pass, !.outer = j.inner]
      BY <2>3 DEF Jobs
    <2> QED
      BY <1>2, <2>1, <2>2, <2>3
  <1>4. /\ l.at \in {"listing", "base", "play"} /\ (l.at = "listing" => j.kind = "pictures")
        /\ j.kind \in {"reel", "pictures", "docs", "transitions"}
        /\ j.kind \in {"reel", "docs"} => l.at = "base"
        /\ j.kind = "pictures" => l.at = "listing"
    BY <1>1, <1>3 DEF Jobs
  <1>5. InOrder(l) /\ InHand(l) /\ l.at # "restore"
    BY <1>3, <1>4 DEF InOrder, InHand
  <1>6. ASSUME Trusted(l) PROVE StageOf(l, panel, told)
    <2>1. StageOf(j, panel, told)
      BY <1>3, <1>6 DEF JobOk, Trusted
    <2> QED
      BY <1>3, <1>4, <2>1 DEF StageOf, Untouched, Saved, SpritesKept, BaseKnown, Restored
  <1> QED
    BY <1>3, <1>5, <1>6 DEF JobOk

\* What was waited for, or needs nothing done.
LEMMA PassedOk ==
    ASSUME panel \in Panels, told \in Shows, NEW j \in Jobs, JobOk(j, panel, told),
           \/ j.at \in {"settle", "rest"} /\ j.beat
           \/ j.at = "base" /\ Quiet(j)
    PROVE  Onwards(j) \in Jobs /\ JobOk(Onwards(j), panel, told)
  <1> DEFINE l == Onwards(j)
  <1>1. InOrder(j) /\ j.at # "ended"
    BY DEF JobOk
  <1>2. l \in Jobs /\ Same(j, l) /\ l.at = Following(j.kind, j.at)
    BY <1>1, OnwardsIs
  <1> HIDE DEF l
  <1>3. /\ l.kind = j.kind /\ l.was = j.was /\ l.wasDoc = j.wasDoc /\ l.found = j.found
        /\ l.outer = j.outer /\ (Trusted(l) <=> Trusted(j))
    BY <1>2 DEF Same, Trusted
  <1>4. CASE j.at = "settle" /\ j.beat
    <2>1. l.at = "status" /\ j.kind \in {"reel", "pictures"}
      BY <1>1, <1>2, <1>4, ReelStages, PicturesStages DEF InOrder, Jobs
    <2>2. InOrder(l)
      BY <1>3, <2>1 DEF InOrder
    <2>3. ASSUME Trusted(l) PROVE StageOf(l, panel, told)
      <3>1. StageOf(j, panel, told)
        BY <1>3, <2>3 DEF JobOk
      <3> QED
        BY <1>3, <1>4, <2>1, <3>1
           DEF StageOf, Untouched, Saved, SpritesKept, BaseKnown, Restored
    <2> QED
      BY <1>2, <2>1, <2>2, <2>3 DEF JobOk, InHand, l
  <1>5. CASE j.at = "rest"
    <2>1. l.at = "ended" /\ j.kind \in {"reel", "pictures"}
      BY <1>1, <1>2, <1>5, ReelStages, PicturesStages DEF InOrder, Jobs
    <2>2. InOrder(l)
      BY <1>3, <2>1 DEF InOrder
    <2>3. ASSUME Trusted(l) PROVE StageOf(l, panel, told)
      <3>1. StageOf(j, panel, told)
        BY <1>3, <2>3 DEF JobOk
      <3> QED
        BY <1>3, <1>5, <2>1, <3>1
           DEF StageOf, Untouched, Saved, SpritesKept, BaseKnown, Restored
    <2> QED
      BY <1>2, <2>1, <2>2, <2>3 DEF JobOk, InHand, l
  <1>6. CASE j.at = "base" /\ Quiet(j)
    <2>1. j.kind = "transitions" /\ j.outer = j.was
      BY <1>6 DEF Quiet
    <2>2. l.at = "ended"
      BY <1>2, <1>6, <2>1, TransitionsInOrder
    <2>3. InOrder(l)
      BY <1>3, <2>1, <2>2 DEF InOrder
    <2>4. ASSUME Trusted(l) PROVE StageOf(l, panel, told)
      <3>1. StageOf(j, panel, told)
        BY <1>3, <2>4 DEF JobOk
      <3> QED
        BY <1>3, <1>6, <2>1, <2>2, <3>1
           DEF StageOf, Untouched, Saved, SpritesKept, BaseKnown, Restored
    <2> QED
      BY <1>2, <2>2, <2>3, <2>4 DEF JobOk, InHand, l
  <1> QED
    BY <1>4, <1>5, <1>6

\* A script that starts knows the panel as it is.
LEMMA BeginOk ==
    ASSUME panel \in Panels, told \in Shows, NEW kind \in DOMAIN Stages, NEW flips \in 0..MaxFlips,
           NEW l, l = [kind |-> kind, at |-> Head(Stages[kind]), beat |-> FALSE,
                       was |-> "none", wasDoc |-> "none", outer |-> "none", inner |-> "none",
                       flips |-> flips, pass |-> flips, todo |-> {}, next |-> "none",
                       faults |-> 0, clean |-> TRUE,
                       found |-> panel, fresh |-> told = panel.base]
    PROVE  l \in Jobs /\ JobOk(l, panel, told)
  <1>1. kind \in {"reel", "pictures", "docs", "transitions"}
    BY DEF Stages
  <1>2. Head(Stages[kind]) = IF kind \in {"reel", "pictures"} THEN "settle" ELSE "status"
    BY <1>1, ReelStages, PicturesStages, DocsInOrder, TransitionsInOrder
  <1> DEFINE h == Head(Stages[kind])
             f == told = panel.base
  <1>3. h = "settle" \/ (h = "status" /\ kind \in {"docs", "transitions"})
    BY <1>1, <1>2
  <1>4. f \in BOOLEAN /\ flips \in Int
    BY FlipsAssumption DEF FlipsAssumption
  <1>5. /\ l.kind = kind /\ l.at = h /\ l.beat = FALSE /\ l.found = panel
        /\ l.fresh = f
    OBVIOUS
  <1>6. l \in Jobs
    <2> HIDE DEF h, f
    <2>1. l = [kind |-> kind, at |-> h, beat |-> FALSE,
                       was |-> "none", wasDoc |-> "none", outer |-> "none", inner |-> "none",
                       flips |-> flips, pass |-> flips, todo |-> {}, next |-> "none",
                       faults |-> 0, clean |-> TRUE,
                       found |-> panel, fresh |-> f]
      BY DEF h, f
    <2> QED
      BY <1>1, <1>3, <1>4, <2>1 DEF Jobs, Asks, Shows, Docs
  <1> HIDE DEF h
  <1>7. InOrder(l) /\ InHand(l) /\ l.at # "restore"
    BY <1>1, <1>2, <1>5 DEF InOrder, InHand, h
  <1>8. ASSUME Trusted(l) PROVE StageOf(l, panel, told)
    <2>1. l.at = "status" => told = panel.base
      BY <1>3, <1>5, <1>8 DEF Trusted
    <2> QED
      BY <1>3, <1>5, <2>1 DEF StageOf, Untouched, Saved, SpritesKept, BaseKnown, Restored
  <1> QED
    BY <1>6, <1>7, <1>8 DEF JobOk

\* A heartbeat tells what the panel shows.
LEMMA BeatOk ==
    ASSUME panel \in Panels, told \in Shows, NEW j \in Jobs, JobOk(j, panel, told),
           NEW l, \/ l = j
                  \/ j.at \in {"settle", "rest"} /\ l = [j EXCEPT !.beat = TRUE]
    PROVE  l \in Jobs /\ JobOk(l, panel, panel.base)
  <1>1. /\ l \in Jobs /\ l.at = j.at
        /\ l.kind = j.kind /\ l.was = j.was /\ l.wasDoc = j.wasDoc /\ l.found = j.found
        /\ l.clean = j.clean /\ l.fresh = j.fresh /\ l.inner = j.inner /\ l.outer = j.outer
        /\ l.todo = j.todo /\ l.next = j.next
    BY DEF Jobs
  <1>2. InOrder(l) /\ InHand(l) /\ (l.at = "restore" => panel.base = l.was)
    BY <1>1 DEF JobOk, InOrder, InHand
  <1>3. ASSUME Trusted(l) PROVE StageOf(l, panel, panel.base)
    <2>1. StageOf(j, panel, told)
      BY <1>1, <1>3 DEF JobOk, Trusted
    <2> QED
      BY <1>1, <2>1 DEF StageOf, Untouched, Saved, SpritesKept, BaseKnown, Restored
  <1> QED
    BY <1>1, <1>2, <1>3 DEF JobOk


-----------------------------------------------------------------------------
(* The scripts of two agents *)

\* Who runs a script has the device, and the script knows the panel.
JobsOk ==
    /\ panel \in Panels /\ told \in Shows
    /\ job \in [Agents -> Jobs \cup {NoJob}]
    /\ \A a \in Agents : job[a] # NoJob => at[a] = "holding" /\ JobOk(job[a], panel, told)

PanelInv == LockInv /\ Alone /\ JobsOk

\* A job is at a stage, and no job at none.
LEMMA JobIs ==
    ASSUME JobsOk, NEW a \in Agents
    PROVE  /\ job[a].at # "none" <=> job[a] # NoJob
           /\ job[a] # NoJob => job[a] \in Jobs /\ JobOk(job[a], panel, told)
           /\ NoJob.at = "none" /\ NoJob \notin Jobs
  <1>1. NoJob.at = "none"
    BY DEF NoJob
  <1>2. NoJob \notin Jobs
    BY <1>1 DEF Jobs, Asks
  <1>3. job[a] \in Jobs \cup {NoJob}
    BY DEF JobsOk
  <1>4. job[a] \in Jobs => job[a].at # "none"
    BY DEF Jobs, Asks
  <1> QED
    BY <1>1, <1>2, <1>3, <1>4 DEF JobsOk

\* The panel is somebody's own, and no script runs.
LEMMA PanelStarts == PanelInit => PanelInv
  <1> SUFFICES ASSUME PanelInit PROVE PanelInv
    OBVIOUS
  <1>1. panel \in Panels /\ told \in Shows
    <2>1. /\ panel \in [base : {"clock"}, doc : {"empty", "own"},
                        sprites : {{}, {"own"}} \cup {{m} : m \in Mine}]
          /\ told = panel.base
      BY DEF PanelInit
    <2> QED
      BY <2>1 DEF Panels, Shows, Bases, Docs
  <1>2. job \in [Agents -> Jobs \cup {NoJob}] /\ \A a \in Agents : job[a] = NoJob
    BY DEF PanelInit
  <1>3. LockInv /\ Alone
    BY LockInit, AloneInit DEF PanelInit
  <1> QED
    BY <1>1, <1>2, <1>3 DEF PanelInv, JobsOk

\* The scripts leave the lock alone.
LEMMA PanelLocks ==
    ASSUME [PanelNext]_allVars
    PROVE  [Next]_vars
  BY DEF PanelNext, allVars, Locking, Begin, Settle, Request, NoRoom, Fault, EndPlay, AsItWas,
         Exit, ByHand, Heartbeat, Next, vars

\* What an agent's script does to the panel is for its agent to know: the others
\* run nothing.
LEMMA JobSteps ==
    ASSUME PanelInv, UNCHANGED at, NEW a \in Agents, job[a] # NoJob \/ at[a] = "holding",
           panel' \in Panels, told' = told, NEW j \in Jobs \cup {NoJob}, Becomes(a, j),
           j # NoJob => JobOk(j, panel', told)
    PROVE  JobsOk'
  <1>1. at[a] = "holding"
    BY DEF PanelInv, JobsOk
  <1>2. job \in [Agents -> Jobs \cup {NoJob}] /\ told \in Shows
    BY DEF PanelInv, JobsOk
  <1>3. job' = [job EXCEPT ![a] = j] /\ at' = at
    BY DEF Becomes
  <1>4. \A b \in Agents : b # a => job'[b] = NoJob
    <2>1. \A b \in Agents : b # a => at[b] # "holding"
      BY <1>1 DEF PanelInv, Alone, MutualExclusion
    <2>2. \A b \in Agents : b # a => job[b] = NoJob
      BY <2>1 DEF PanelInv, JobsOk
    <2> QED
      BY <1>2, <1>3, <2>2
  <1>5. job'[a] = j /\ job' \in [Agents -> Jobs \cup {NoJob}]
    BY <1>2, <1>3
  <1>6. ASSUME NEW b \in Agents, job'[b] # NoJob
        PROVE  at'[b] = "holding" /\ JobOk(job'[b], panel', told')
    BY <1>1, <1>3, <1>4, <1>5, <1>6
  <1> QED
    BY <1>2, <1>5, <1>6 DEF JobsOk

\* Each step of the scripts, the agents or the device keeps it so.
LEMMA JobsStep ==
    ASSUME PanelInv, [PanelNext]_allVars
    PROVE  JobsOk'
  <1>0. /\ panel \in Panels /\ told \in Shows /\ JobsOk
        /\ job \in [Agents -> Jobs \cup {NoJob}]
        /\ at \in [Agents -> Steps]
    BY DEF PanelInv, JobsOk, LockInv, LockType
  <1>1. ASSUME NEW a \in Agents, Locking(a)
        PROVE  JobsOk'
    <2>1. panel' = panel /\ told' = told /\ job' = job
      BY <1>1 DEF Locking, panelVars
    <2>2. PICK step : at' = [at EXCEPT ![a] = step] /\ (at[a] # "holding" \/ job[a] = NoJob)
      BY <1>1 DEF Locking, Start, Read, Claim, Arbitrate, BackOff, Release, Goes
    <2>3. \A b \in Agents : job[b] # NoJob => at'[b] = "holding"
      BY <1>0, <2>2 DEF JobsOk
    <2> QED
      BY <1>0, <2>1, <2>3 DEF JobsOk
  <1>2. ASSUME NEW a \in Agents, Begin(a)
        PROVE  JobsOk'
    <2>1. PICK kind \in DOMAIN Stages, flips \in 0..MaxFlips :
             Becomes(a, [kind |-> kind, at |-> Head(Stages[kind]), beat |-> FALSE,
                        was |-> "none", wasDoc |-> "none", outer |-> "none", inner |-> "none",
                        flips |-> flips, pass |-> flips, todo |-> {}, next |-> "none",
                        faults |-> 0, clean |-> TRUE,
                        found |-> panel, fresh |-> told = panel.base])
      BY <1>2 DEF Begin
    <2> DEFINE l == [kind |-> kind, at |-> Head(Stages[kind]), beat |-> FALSE,
                     was |-> "none", wasDoc |-> "none", outer |-> "none", inner |-> "none",
                     flips |-> flips, pass |-> flips, todo |-> {}, next |-> "none",
                     faults |-> 0, clean |-> TRUE,
                     found |-> panel, fresh |-> told = panel.base]
    <2>2. l \in Jobs /\ JobOk(l, panel, told)
      BY <1>0, BeginOk
    <2>3. Becomes(a, l)
      BY <2>1
    <2> HIDE DEF l
    <2>4. at[a] = "holding" /\ at' = at /\ panel' = panel /\ told' = told
      BY <1>2 DEF Begin
    <2> QED
      BY <1>0, <2>2, <2>3, <2>4, JobSteps
  <1>3. ASSUME NEW a \in Agents, Settle(a)
        PROVE  JobsOk'
    <2>1. job[a] # NoJob /\ job[a] \in Jobs /\ JobOk(job[a], panel, told)
      BY <1>0, <1>3, JobIs DEF Settle
    <2>2. /\ job[a].at \in {"settle", "rest"} /\ job[a].beat /\ Becomes(a, Onwards(job[a]))
          /\ at' = at /\ panel' = panel /\ told' = told
      BY <1>3 DEF Settle, Settled
    <2>3. Onwards(job[a]) \in Jobs /\ JobOk(Onwards(job[a]), panel, told)
      BY <1>0, <2>1, <2>2, PassedOk
    <2> QED
      BY <1>0, <2>1, <2>2, <2>3, JobSteps
  <1>4. ASSUME NEW a \in Agents, Request(a)
        PROVE  JobsOk'
    <2>1. job[a] # NoJob /\ job[a].at \in Asks /\ ~Quiet(job[a])
      BY <1>4 DEF Request, Asking
    <2>2. /\ panel' = Done(job[a]) /\ Becomes(a, Heard(job[a])) /\ at' = at /\ told' = told
      BY <1>4 DEF Request
    <2>3. job[a] \in Jobs /\ JobOk(job[a], panel, told)
      BY <1>0, <2>1, JobIs
    <2>4. /\ Done(job[a]) \in Panels /\ Heard(job[a]) \in Jobs
          /\ JobOk(Heard(job[a]), Done(job[a]), told)
      BY <1>0, <2>1, <2>3, HeardOk
    <2> QED
      BY <1>0, <2>1, <2>2, <2>4, JobSteps
  <1>5. ASSUME NEW a \in Agents, NoRoom(a)
        PROVE  JobsOk'
    <2>1. /\ job[a] # NoJob /\ Becomes(a, Raise(job[a], "refused"))
          /\ at' = at /\ panel' = panel /\ told' = told
      BY <1>5 DEF NoRoom, Asking
    <2>2. job[a] \in Jobs /\ JobOk(job[a], panel, told)
      BY <1>0, <2>1, JobIs
    <2>3. Raise(job[a], "refused") \in Jobs /\ JobOk(Raise(job[a], "refused"), panel, told)
      BY <1>0, <2>2, RaiseOk
    <2> QED
      BY <1>0, <2>1, <2>3, JobSteps
  <1>6. ASSUME NEW a \in Agents, Fault(a)
        PROVE  JobsOk'
    <2>1. job[a] # NoJob /\ at' = at /\ told' = told
      BY <1>6 DEF Fault
    <2>2. PICK how \in {"refused", "lost", "late"} :
             /\ ~Asking(a) => how = "lost"
             /\ panel' = IF how = "late" /\ ~Full(job[a]) THEN Done(job[a]) ELSE panel
             /\ Becomes(a, Raise(job[a], how))
      BY <1>6 DEF Fault
    <2>3. job[a] \in Jobs /\ JobOk(job[a], panel, told)
      BY <1>0, <2>1, JobIs
    <2>4. panel' \in Panels /\ (panel' = panel \/ panel' = Done(job[a]))
      <3>1. CASE panel' = panel
        BY <1>0, <3>1
      <3>2. CASE how = "late" /\ panel' = Done(job[a])
        <4>1. job[a].at \in Asks /\ ~Quiet(job[a])
          BY <2>2, <3>2 DEF Asking
        <4>2. Done(job[a]) \in Panels
          BY <1>0, <2>3, <4>1, DonePanel DEF JobOk
        <4> QED
          BY <3>2, <4>2
      <3> QED
        BY <2>2, <3>1, <3>2
    <2>5. Raise(job[a], how) \in Jobs /\ JobOk(Raise(job[a], how), panel', told)
      BY <1>0, <2>3, <2>4, RaiseOk
    <2> QED
      BY <1>0, <2>1, <2>2, <2>4, <2>5, JobSteps
  <1>7. ASSUME NEW a \in Agents, EndPlay(a)
        PROVE  JobsOk'
    <2>1. job[a].at = "play" /\ at' = at /\ panel' = panel /\ told' = told
      BY <1>7 DEF EndPlay
    <2>2. job[a] # NoJob /\ job[a] \in Jobs /\ JobOk(job[a], panel, told)
      BY <1>0, <2>1, JobIs
    <2>3. PICK l : /\ Becomes(a, l)
                   /\ \/ l = Raise(job[a], "lost")
                      \/ job[a].kind # "transitions" /\ l = [job[a] EXCEPT !.at = Cleanup(job[a].kind)]
                      \/ /\ job[a].kind = "transitions"
                         /\ l = [job[a] EXCEPT !.at = Cleanup(job[a].kind), !.outer = job[a].inner]
                      \/ /\ job[a].kind = "transitions"
                         /\ l = [job[a] EXCEPT !.flips = job[a].pass, !.outer = job[a].inner]
      BY <1>7 DEF EndPlay
    <2>4. l \in Jobs /\ JobOk(l, panel, told)
      <3>1. CASE l = Raise(job[a], "lost")
        BY <1>0, <2>2, <3>1, RaiseOk
      <3>2. CASE l # Raise(job[a], "lost")
        BY <1>0, <2>1, <2>2, <2>3, <3>2, EndPlayOk
      <3> QED
        BY <3>1, <3>2
    <2> QED
      BY <1>0, <2>1, <2>2, <2>3, <2>4, JobSteps
  <1>8. ASSUME NEW a \in Agents, AsItWas(a)
        PROVE  JobsOk'
    <2>1. /\ job[a].at = "base" /\ Quiet(job[a]) /\ Becomes(a, Onwards(job[a]))
          /\ at' = at /\ panel' = panel /\ told' = told
      BY <1>8 DEF AsItWas
    <2>2. job[a] # NoJob /\ job[a] \in Jobs /\ JobOk(job[a], panel, told)
      BY <1>0, <2>1, JobIs
    <2>3. Onwards(job[a]) \in Jobs /\ JobOk(Onwards(job[a]), panel, told)
      BY <1>0, <2>1, <2>2, PassedOk
    <2> QED
      BY <1>0, <2>1, <2>2, <2>3, JobSteps
  <1>9. ASSUME NEW a \in Agents, Exit(a)
        PROVE  JobsOk'
    <2>1. job[a].at = "ended" /\ Becomes(a, NoJob) /\ at' = at /\ panel' = panel /\ told' = told
      BY <1>9 DEF Exit
    <2>2. job[a] # NoJob
      BY <1>0, <2>1, JobIs
    <2> QED
      BY <1>0, <2>1, <2>2, JobSteps
  <1>10. ASSUME NEW a \in Agents, ByHand(a)
         PROVE  JobsOk'
    <2>1. /\ at[a] = "holding" /\ job[a] = NoJob /\ at' = at /\ told' = told /\ job' = job
      BY <1>10 DEF ByHand
    <2>2. panel' \in Panels
      <3>1. PICK b \in Bases, d \in {"empty", "own"} : panel' = [panel EXCEPT !.base = b, !.doc = d]
        BY <1>10 DEF ByHand
      <3> QED
        BY <1>0, <3>1 DEF Panels, Shows, Docs
    <2>3. Becomes(a, NoJob)
      BY <1>0, <2>1 DEF Becomes
    <2> QED
      BY <2>1, <2>2, <2>3, JobSteps
  <1>11. CASE Heartbeat
    <2>1. /\ told' = panel.base /\ panel' = panel /\ at' = at
          /\ job' = [a \in Agents |-> IF job[a].at \in {"settle", "rest"}
                                      THEN [job[a] EXCEPT !.beat = TRUE] ELSE job[a]]
      BY <1>11 DEF Heartbeat
    <2>2. panel.base \in Shows
      BY <1>0 DEF Panels
    <2>3. ASSUME NEW a \in Agents
          PROVE  /\ job'[a] \in Jobs \cup {NoJob}
                 /\ job'[a] # NoJob => at'[a] = "holding" /\ JobOk(job'[a], panel', told')
      <3>1. CASE job[a] = NoJob
        BY <2>1, <3>1 DEF NoJob
      <3>2. CASE job[a] # NoJob
        <4>1. job[a] \in Jobs /\ JobOk(job[a], panel, told) /\ at[a] = "holding"
          BY <1>0, <3>2, JobIs DEF JobsOk
        <4>2. \/ job'[a] = job[a]
              \/ job[a].at \in {"settle", "rest"} /\ job'[a] = [job[a] EXCEPT !.beat = TRUE]
          BY <2>1
        <4>3. job'[a] \in Jobs /\ JobOk(job'[a], panel, panel.base)
          BY <1>0, <4>1, <4>2, BeatOk
        <4> QED
          BY <2>1, <4>1, <4>3
      <3> QED
        BY <3>1, <3>2
    <2>4. job' \in [Agents -> Jobs \cup {NoJob}]
      BY <2>1, <2>3
    <2> QED
      BY <1>0, <2>1, <2>2, <2>3, <2>4 DEF JobsOk
  <1>12. CASE UNCHANGED allVars
    BY <1>0, <1>12 DEF allVars, JobsOk
  <1> QED
    BY <1>1, <1>2, <1>3, <1>4, <1>5, <1>6, <1>7, <1>8, <1>9, <1>10, <1>11, <1>12 DEF PanelNext


\* The scripts of two agents keep what they know of the panel.
LEMMA PanelStep ==
    ASSUME AtMostTwo, PanelInv, [PanelNext]_allVars
    PROVE  PanelInv'
  <1>1. [Next]_vars
    BY PanelLocks
  <1>2. LockInv' /\ Alone'
    BY <1>1, LockStep, AloneStep DEF PanelInv
  <1>3. JobsOk'
    BY JobsStep
  <1> QED
    BY <1>2, <1>3 DEF PanelInv

\* A script that is over and to be trusted has put the panel back.
LEMMA KnownIsPutBack ==
    ASSUME panel \in Panels, NEW j \in Jobs, JobOk(j, panel, told), Trusted(j), j.at = "ended"
    PROVE  PutBack(j)
  <1> DEFINE f == j.found
             kept == IF j.kind \in {"pictures", "docs"} THEN f.sprites \ Mine ELSE f.sprites
  <1>1. StageOf(j, panel, told) /\ j.kind \in {"reel", "pictures", "docs", "transitions"}
    BY DEF JobOk, Jobs
  <1>2. f \in Panels
    BY DEF Jobs
  <1>3. panel.base = f.base /\ panel.doc = f.doc
    BY <1>1 DEF StageOf, Restored, BaseKnown
  <1>4. panel.sprites = kept
    <2>1. CASE j.kind \in {"pictures", "docs"}
      <3>1. panel.sprites \ Mine = f.sprites \ Mine /\ Mine \cap panel.sprites = {}
        BY <1>1, <2>1 DEF StageOf, SpritesKept
      <3> QED
        BY <2>1, <3>1
    <2>2. CASE j.kind \notin {"pictures", "docs"}
      BY <1>1, <2>2 DEF StageOf, SpritesKept
    <2> QED
      BY <2>1, <2>2
  <1> HIDE DEF f, kept
  <1>5. panel = [f EXCEPT !.sprites = kept]
    BY <1>2, <1>3, <1>4 DEF Panels
  <1> QED
    BY <1>5 DEF PutBack, f, kept

-----------------------------------------------------------------------------
(* Theorems *)

\* However many agents work on the device: the file shows who holds it as a
\* holder (tc002-lock.sh: current_holder).
THEOREM HolderIsSeen == PanelSpec => []HolderVisible
  <1>1. PanelInit => LockInv
    BY LockInit DEF PanelInit
  <1>2. LockInv /\ [PanelNext]_allVars => LockInv'
    BY LockStep, PanelLocks
  <1> QED
    BY <1>1, <1>2, LockShows, PTL DEF PanelSpec

\* Of two agents one at a time has the device (tc002-lock.sh: "the earlier line
\* wins").  Of three it is not so: the RELEASE of one that backs off hides from
\* the third whose line was first.
THEOREM OneHoldsTheDevice ==
    ASSUME AtMostTwo
    PROVE  PanelSpec => []MutualExclusion
  <1>1. PanelInv => MutualExclusion
    BY DEF PanelInv, Alone
  <1> QED
    BY <1>1, PanelStarts, PanelStep, PTL DEF PanelSpec

\* A script whose faults fell into its try leaves the panel as it found it
\* (tc002demo.run and its kin: restore_state in their finally).
THEOREM PanelIsPutBack ==
    ASSUME AtMostTwo
    PROVE  PanelSpec => []PanelPutBack
  <1>1. ASSUME PanelInv, NEW a \in Agents, job[a].at = "ended" /\ job[a].clean,
               job[a].kind \in {"docs", "transitions"} => job[a].fresh
        PROVE  PutBack(job[a])
    <2>1. job[a] \in Jobs /\ JobOk(job[a], panel, told) /\ panel \in Panels
      BY <1>1, JobIs DEF PanelInv, JobsOk
    <2> QED
      BY <1>1, <2>1, KnownIsPutBack DEF Trusted
  <1>2. PanelInv => PanelPutBack
    BY <1>1 DEF PanelPutBack
  <1> QED
    BY <1>2, PanelStarts, PanelStep, PTL DEF PanelSpec

\* The document is tidied away behind a base that does not show it
\* (tc002demo.restore_state: "hand the panel back first, then tidy the document").
THEOREM TidiedBehindTheBase ==
    ASSUME AtMostTwo
    PROVE  PanelSpec => RestoreUnseen
  <1> DEFINE Unseen ==
        \A a \in Agents : job[a].at = "restore" /\ panel'.doc # panel.doc /\ panel.base = "canvas"
                         => job[a].was = "canvas"
  <1>1. ASSUME PanelInv PROVE Unseen
    <2> SUFFICES ASSUME NEW a \in Agents, job[a].at = "restore" PROVE panel.base = job[a].was
      OBVIOUS
    <2>1. JobOk(job[a], panel, told)
      BY <1>1, JobIs DEF PanelInv
    <2> QED
      BY <2>1 DEF JobOk
  <1>2. PanelInv /\ [PanelNext]_allVars => [Unseen]_allVars
    BY <1>1
  <1>3. PanelSpec => [][Unseen]_allVars
    <2> HIDE DEF Unseen
    <2> QED
      BY <1>2, PanelStarts, PanelStep, PTL DEF PanelSpec
  <1> QED
    BY <1>3 DEF RestoreUnseen
=============================================================================
