------------------------------ MODULE AgentLock ------------------------------
(***************************************************************************)
(* runtime/tools/tc002-lock.sh: the advisory lock of those who work on one *)
(* device, an append-only file of ACQUIRE and RELEASE lines.  Appends are  *)
(* atomic; between a read and the append it leads to, anything may happen. *)
(*                                                                         *)
(* Left out: NOTE lines (ignored by every reader), lines that do not       *)
(* parse, the thirty minutes after which an ACQUIRE is stale (nobody here  *)
(* works that long, or dies) and the time-out of the one who waits.        *)
(***************************************************************************)
EXTENDS Naturals, Sequences, SequencesExt

CONSTANTS
    Agents,
    MaxLines    \* bound: lines in the file when an agent last starts over

ASSUME AgentsAssumption == Agents # {} /\ MaxLines \in Nat

VARIABLES
    log,        \* the file: [agent, kind]
    at          \* where each agent is in the script: "idle", "reading", "appending",
                \* "arbitrating", "backing_off", "holding"

vars == <<log, at>>

Init == log = <<>> /\ at = [a \in Agents |-> "idle"]

-----------------------------------------------------------------------------
\* mutant: by the last line of the file alone
HolderLast == {a \in Agents : log # <<>> /\ Last(log) = [agent |-> a, kind |-> "ACQUIRE"]}

\* holders: those whose last line is an ACQUIRE
Holders ==
    {a \in Agents : \E i \in DOMAIN log :
        /\ log[i] = [agent |-> a, kind |-> "ACQUIRE"]
        /\ \A j \in DOMAIN log : j > i => log[j].agent # a}

\* 0 when there is none
LastRelease == SelectLastInSeq(log, LAMBDA line : line.kind = "RELEASE")

\* mutant: the later line wins
Latest ==
    LET line == SelectLastInSubSeq(log, LastRelease + 1, Len(log), LAMBDA l : l.kind = "ACQUIRE")
    IN  IF line = 0 THEN {} ELSE {log[line].agent}

\* the agent of the first ACQUIRE after the last RELEASE: nobody's, or one
Earliest ==
    LET line == SelectInSubSeq(log, LastRelease + 1, Len(log), LAMBDA l : l.kind = "ACQUIRE")
    IN  IF line = 0 THEN {} ELSE {log[line].agent}

Goes(a, step) == at' = [at EXCEPT ![a] = step]
Appends(a, kind) == log' = Append(log, [agent |-> a, kind |-> kind])

Start(a) ==
    /\ at[a] = "idle" /\ Len(log) < MaxLines
    /\ Goes(a, "reading")
    /\ UNCHANGED log

\* sleeps and reads again while another is seen to hold it
Read(a) ==
    /\ at[a] = "reading"
    /\ Goes(a, IF Holders \ {a} = {} THEN "appending" ELSE "reading")
    /\ UNCHANGED log

Claim(a) ==
    /\ at[a] = "appending"
    /\ Appends(a, "ACQUIRE") /\ Goes(a, "arbitrating")

\* a second later: whose line was first
Arbitrate(a) ==
    /\ at[a] = "arbitrating"
    /\ Goes(a, IF Earliest = {a} THEN "holding" ELSE "backing_off")
    /\ UNCHANGED log

BackOff(a) ==
    /\ at[a] = "backing_off"
    /\ Appends(a, "RELEASE") /\ Goes(a, IF Len(log) < MaxLines THEN "reading" ELSE "idle")

Release(a) ==
    /\ at[a] = "holding"
    /\ Appends(a, "RELEASE") /\ Goes(a, "idle")

Next == \E a \in Agents :
    Start(a) \/ Read(a) \/ Claim(a) \/ Arbitrate(a) \/ BackOff(a) \/ Release(a)

Spec == Init /\ [][Next]_vars

-----------------------------------------------------------------------------
(* Properties *)

\* The script's comment: "if another agent appended an ACQUIRE between our read
\* and our append, the earlier line wins": one agent at a time has the device.
MutualExclusion == \A a, b \in Agents : at[a] = "holding" /\ at[b] = "holding" => a = b

\* The file shows a holder as one, whatever its rivals wrote while backing off:
\* who reads after it was granted waits.
HolderVisible == \A a \in Agents : at[a] = "holding" => a \in Holders
=============================================================================
