--------------------------- MODULE RestartPolicy ---------------------------
(***************************************************************************)
(* What the supervisor promises about restarting the renderer, as          *)
(* RUNTIME.md ("renderer lifecycle") puts it, without the timers and the   *)
(* process protocol that bring it about.                                   *)
(***************************************************************************)
EXTENDS Naturals, Sequences

CONSTANT Window     \* ticks within which failures are counted together

VARIABLES
    level,      \* what runs: "candidate", "embedded", "halted", "released"
    up,         \* a renderer process exists
    forgiven,   \* the one healthy run that clears the count has happened
    recent      \* ages of the failures counted, oldest first, all younger than Window

pvars == <<level, up, forgiven, recent>>

Init == level = "candidate" /\ up = FALSE /\ forgiven = FALSE /\ recent = <<>>

Start ==
    /\ level \in {"candidate", "embedded"} /\ ~up
    /\ up' = TRUE
    /\ UNCHANGED <<level, forgiven, recent>>

\* an exit nobody asked for: the third one inside the window costs a level
Fail ==
    /\ level \in {"candidate", "embedded"} /\ up
    /\ up' = FALSE
    /\ \/ /\ Len(recent) < 2
          /\ recent' = Append(recent, 0) /\ UNCHANGED level
       \/ /\ Len(recent) = 2
          /\ recent' = <<>>
          /\ level' = IF level = "candidate" THEN "embedded" ELSE "halted"
    /\ UNCHANGED forgiven

Forgive ==
    /\ up /\ ~forgiven
    /\ forgiven' = TRUE /\ recent' = <<>>
    /\ UNCHANGED <<level, up>>

\* all grow older, and the oldest of them leave the window
Pass ==
    /\ \E n \in 0..Len(recent) :
         /\ \A i \in DOMAIN recent : (i <= n) <=> (recent[i] + 1 >= Window)
         /\ recent' = [i \in 1..(Len(recent) - n) |-> recent[i + n] + 1]
    /\ UNCHANGED <<level, up, forgiven>>

\* the supervisor shuts down: what runs ends, nothing is counted or started
Release == level' = "released" /\ UNCHANGED <<up, forgiven, recent>>
End     == level = "released" /\ up /\ up' = FALSE /\ UNCHANGED <<level, forgiven, recent>>

Next == Start \/ Fail \/ Forgive \/ Pass \/ Release \/ End

Spec == Init /\ [][Next]_pvars
=============================================================================
