----------------------------- MODULE PanelScripts -----------------------------
(***************************************************************************)
(* The scripts that draw on a real device over the api and put it back as  *)
(* they found it, run by the agents of AgentLock while they hold the       *)
(* device (RUNTIME.md: "every device-mutating step in the scripts above    *)
(* runs under it"):                                                        *)
(*   reel         tc002demo.run, the shape of the demos                    *)
(*   pictures     tc002demo.run with the set-up and teardown of            *)
(*                tc002-demo-images.py, which uploads sprites              *)
(*   docs         tc002-canvas-docs.py                                     *)
(*   transitions  tc002-demo-transitions.py                                *)
(*                                                                         *)
(* A request is one step: it may be refused (the script exits, which is an *)
(* exception of its own kind), may not arrive, or may arrive and lose its  *)
(* answer; ctrl-c comes between two requests.  The base in /status is the  *)
(* one of the last heartbeat, the document and the sprites are read as they*)
(* are.  Left out: what is drawn, notifications, and people at the buttons.*)
(***************************************************************************)
EXTENDS AgentLock, FiniteSets

CONSTANTS
    Mine,        \* the sprites a script uploads
    Slots,       \* sprites a device holds
    MaxFlips,    \* bound: scene changes in one pass of the transitions
    MaxFaults    \* bound: faults in one script

\* a script that uploads sprites has one to upload
ASSUME SpritesAssumption == Mine # {}

ASSUME FlipsAssumption == MaxFlips \in Nat

VARIABLES
    panel,       \* the device: [base, doc, sprites]
    told,        \* the base /status has
    job          \* what each agent runs

panelVars == <<panel, told, job>>
allVars   == <<log, at, panel, told, job>>

Bases  == {"clock", "art", "canvas"}
NoJob  == [at |-> "none"]

\* the base a transition goes to; there is none from the canvas
OtherBase == [clock |-> "art", art |-> "clock", ip |-> "clock"]

PanelInit ==
    /\ Init
    /\ panel \in [base : {"clock"}, doc : {"empty", "own"}, sprites : {{}, {"own"}} \cup {{m} : m \in Mine}]
    /\ told = panel.base
    /\ job = [a \in Agents |-> NoJob]

-----------------------------------------------------------------------------
(* The stages of a script, in order.  Those from Cleanup on are its finally,*)
(* and Tried its try.                                                       *)
DocsStages == <<"status", "document", "setup", "show", "play", "base", "restore", "listing", "delete">>

TransitionsStages == <<"status", "play", "base">>

\* mutant: the document first, then the panel
TidyFirst ==
    [reel        |-> <<"settle", "status", "document", "show", "play", "restore", "base", "rest">>,
     pictures    |-> <<"settle", "status", "document", "setup", "show", "play", "listing",
                       "delete", "restore", "base", "rest">>,
     docs        |-> DocsStages,
     transitions |-> TransitionsStages]

Stages ==
    [reel        |-> <<"settle", "status", "document", "show", "play", "base", "restore", "rest">>,
     pictures    |-> <<"settle", "status", "document", "setup", "show", "play", "listing",
                       "delete", "base", "restore", "rest">>,
     docs        |-> DocsStages,
     transitions |-> TransitionsStages]

Following(kind, stage) ==
    LET order == Stages[kind]
        here  == CHOOSE i \in DOMAIN order : order[i] = stage
    IN  IF here = Len(order) THEN "ended" ELSE order[here + 1]

Tried(kind)   == IF kind \in {"reel", "pictures"} THEN {"setup", "show", "play"} ELSE {"play"}
Cleanup(kind) == Following(kind, "play")

Onwards(j) == [j EXCEPT !.at = Following(j.kind, j.at), !.beat = FALSE]

(* What a fault does to the script: it goes on with the finally, or dies.   *)
(* The teardown of the pictures is allowed to be refused, and no more.      *)
Raise(j, how) ==
    LET next == CASE j.at \in Tried(j.kind) -> Cleanup(j.kind)
                  [] j.kind = "pictures" /\ j.at \in {"listing", "delete"} /\ how = "refused"
                       -> Following("pictures", "delete")
                  [] OTHER -> "ended"
    IN  [j EXCEPT !.at = next, !.faults = @ + 1,
                  !.clean = @ /\ j.at \in Tried(j.kind) /\ j.kind # "transitions"]

-----------------------------------------------------------------------------
(* A request: what the device is after it, and what the script makes of the *)
(* answer.                                                                  *)
Asks == {"status", "document", "setup", "show", "play", "listing", "delete", "base", "restore"}

Full(j) == j.at = "setup" /\ Cardinality(panel.sprites \cup {j.next}) > Slots

Done(j) ==
    CASE j.at = "show" -> [panel EXCEPT !.base = "canvas"]
      [] j.at = "play" -> IF j.kind = "transitions" THEN [panel EXCEPT !.base = OtherBase[j.inner]]
                                                    ELSE [panel EXCEPT !.doc = "drawn"]
      [] j.at = "setup"   -> [panel EXCEPT !.sprites = @ \cup {j.next}]
      [] j.at = "delete"  -> [panel EXCEPT !.sprites = @ \ {j.next}]
      [] j.at = "base"    -> [panel EXCEPT !.base = j.was]
      [] j.at = "restore" -> [panel EXCEPT !.doc = j.wasDoc]
      [] OTHER            -> panel

\* the sprites one after the other
NextOf(todo) == IF todo = {} THEN "none" ELSE CHOOSE m \in todo : TRUE
Working(j, todo) == IF todo = {} THEN Onwards(j) ELSE [j EXCEPT !.todo = todo, !.next = NextOf(todo)]

Heard(j) ==
    CASE j.at = "status" -> Onwards([j EXCEPT !.was = told, !.outer = told, !.inner = told])
      [] j.at = "document" ->
           Onwards([j EXCEPT !.wasDoc = panel.doc, !.todo = Mine, !.next = NextOf(Mine)])
      [] j.at = "listing" -> LET held == Mine \cap panel.sprites
                             IN  IF held = {} THEN Onwards(Onwards(j)) ELSE Working(Onwards(j), held)
      [] j.at \in {"setup", "delete"} -> Working(j, j.todo \ {j.next})
      [] j.at = "play" /\ j.kind = "transitions" ->
           [j EXCEPT !.inner = OtherBase[j.inner], !.flips = @ - 1]
      [] j.at = "play" /\ j.kind # "transitions" -> j
      [] OTHER -> Onwards(j)

\* the stages that ask nothing just now
Quiet(j) == \/ j.at = "play" /\ j.kind = "transitions" /\ (j.flips = 0 \/ j.inner \notin DOMAIN OtherBase)
            \/ j.at = "base" /\ j.kind = "transitions" /\ j.outer = j.was

Asking(a) == job[a] # NoJob /\ job[a].at \in Asks /\ ~Quiet(job[a])

Becomes(a, j) == job' = [job EXCEPT ![a] = j]

-----------------------------------------------------------------------------
(* A script starts while its agent has the device.                          *)
Begin(a) ==
    /\ at[a] = "holding" /\ job[a] = NoJob
    /\ \E kind \in DOMAIN Stages, flips \in 0..MaxFlips :
         /\ kind # "transitions" => flips = 0
         /\ Becomes(a, [kind |-> kind, at |-> Head(Stages[kind]), beat |-> FALSE,
                        was |-> "none", wasDoc |-> "none", outer |-> "none", inner |-> "none",
                        flips |-> flips, pass |-> flips, todo |-> {}, next |-> "none",
                        faults |-> 0, clean |-> TRUE,
                        found |-> panel, fresh |-> told = panel.base])
    /\ UNCHANGED <<log, at, panel, told>>

\* mutant: does not wait for the device
AtOnce(j) == TRUE

\* the settle time is longer than the time from one heartbeat to the next
Settled(j) == j.beat

Settle(a) ==
    /\ job[a].at \in {"settle", "rest"} /\ Settled(job[a])
    /\ Becomes(a, Onwards(job[a]))
    /\ UNCHANGED <<log, at, panel, told>>

Request(a) ==
    /\ Asking(a) /\ ~Full(job[a])
    /\ panel' = Done(job[a])
    /\ Becomes(a, Heard(job[a]))
    /\ UNCHANGED <<log, at, told>>

(* A sprite refused when the slots are taken.                               *)
NoRoom(a) ==
    /\ Asking(a) /\ Full(job[a])
    /\ Becomes(a, Raise(job[a], "refused"))
    /\ UNCHANGED <<log, at, panel, told>>

Fault(a) ==
    /\ job[a] # NoJob /\ job[a].at # "ended" /\ job[a].faults < MaxFaults
    /\ \E how \in {"refused", "lost", "late"} :
         /\ ~Asking(a) => how = "lost"
         /\ panel' = IF how = "late" /\ ~Full(job[a]) THEN Done(job[a]) ELSE panel
         /\ Becomes(a, Raise(job[a], how))
    /\ UNCHANGED <<log, at, told>>

(* The reel is over; with --loop the transitions go round again.  The base  *)
(* is known outside play only when a pass has returned, and from a base that*)
(* has no other the pass does not return.                                   *)
EndPlay(a) ==
    LET j == job[a]
    IN  /\ j.at = "play"
        /\ IF j.kind # "transitions" THEN Becomes(a, [j EXCEPT !.at = Cleanup(j.kind)])
           ELSE IF j.flips > 0 THEN j.inner \notin DOMAIN OtherBase /\ Becomes(a, Raise(j, "lost"))
           ELSE \/ Becomes(a, [j EXCEPT !.at = Cleanup(j.kind), !.outer = j.inner])
                \/ Becomes(a, [j EXCEPT !.flips = j.pass, !.outer = j.inner])
        /\ UNCHANGED <<log, at, panel, told>>

AsItWas(a) ==
    /\ job[a].at = "base" /\ Quiet(job[a])
    /\ Becomes(a, Onwards(job[a]))
    /\ UNCHANGED <<log, at, panel, told>>

Exit(a) ==
    /\ job[a].at = "ended"
    /\ Becomes(a, NoJob)
    /\ UNCHANGED <<log, at, panel, told>>

(* The agent changes something itself, between two scripts.                 *)
ByHand(a) ==
    /\ at[a] = "holding" /\ job[a] = NoJob
    /\ \E b \in Bases, d \in {"empty", "own"} : panel' = [panel EXCEPT !.base = b, !.doc = d]
    /\ UNCHANGED <<log, at, told, job>>

(* onHeartbeat: the renderer says what it shows.                            *)
Heartbeat ==
    /\ told # panel.base \/ \E a \in Agents : job[a].at \in {"settle", "rest"} /\ ~job[a].beat
    /\ told' = panel.base
    /\ job' = [a \in Agents |-> IF job[a].at \in {"settle", "rest"} THEN [job[a] EXCEPT !.beat = TRUE]
                                                                    ELSE job[a]]
    /\ UNCHANGED <<log, at, panel>>

Locking(a) ==
    /\ \/ Start(a) \/ Read(a) \/ Claim(a) \/ Arbitrate(a) \/ BackOff(a)
       \/ job[a] = NoJob /\ Release(a)
    /\ UNCHANGED panelVars

PanelNext ==
    \/ \E a \in Agents :
          \/ Locking(a)
          \/ Begin(a) \/ Settle(a) \/ Request(a) \/ NoRoom(a) \/ Fault(a)
          \/ EndPlay(a) \/ AsItWas(a) \/ Exit(a) \/ ByHand(a)
    \/ Heartbeat

PanelSpec == PanelInit /\ [][PanelNext]_allVars

-----------------------------------------------------------------------------
(* Properties *)

\* A script whose faults all fell into its try (the transitions: that had none)
\* leaves the panel as it found it: the base, the document and all sprites but
\* those with the names of its own.  The docs and the transitions read the base
\* without waiting, so for them the status has to be fresh when they start; the
\* demos wait ("saving a stale base means restoring the wrong one").
PutBack(j) ==
    panel = [j.found EXCEPT !.sprites = IF j.kind \in {"pictures", "docs"} THEN @ \ Mine ELSE @]

PanelPutBack ==
    \A a \in Agents :
        /\ job[a].at = "ended" /\ job[a].clean
        /\ job[a].kind \in {"docs", "transitions"} => job[a].fresh
        => PutBack(job[a])

\* The document is tidied away only when the panel no longer shows it, or showed
\* it before: "hand the panel back first, then tidy the document".
RestoreUnseen ==
    [][\A a \in Agents : job[a].at = "restore" /\ panel'.doc # panel.doc /\ panel.base = "canvas"
                         => job[a].was = "canvas"]_allVars
=============================================================================
