----------------------------- MODULE MockDevice -----------------------------
(***************************************************************************)
(* The stand-in device as a server: one thread for every request, one      *)
(* lock around the Device (panel-v2/mock-device.py, Handler._handle).  A   *)
(* handler looks at the bearer token before it takes the lock, and reads   *)
(* the body of the request while it holds it; /mock/persist reads its body *)
(* before.  A client sends the body whole, or goes away in the middle or   *)
(* before it has sent any.                                                 *)
(*                                                                         *)
(* Beside the requests there is a client that follows the log the way      *)
(* tc002ctl does, a page at a time from where the last one ended, and time,*)
(* which ends overlays.                                                    *)
(***************************************************************************)
EXTENDS DeviceOps

CONSTANTS Handlers,    \* threads that may serve at once
          Requests,    \* what the clients may ask
          MaxRequests, \* bound: requests in a behaviour
          Free         \* the lock is not held

VARIABLES dev,     \* the Device
          lock,    \* Device.lock: the handler that holds it
          pc,      \* per handler: where it is
          req,     \* per handler: its request
          body,    \* per handler: what came of the body
          cursor,  \* the follower's place in the log
          served,  \* requests so far
          got,     \* history: the lines the follower was given
          given,   \* history: <<epoch, revision>> of each command answered as applied
          shown    \* history: the settings documents given out

vars == <<dev, lock, pc, req, body, cursor, served, got, given, shown>>

NoRequest == [op |-> "none"]

Init == /\ dev = NewDevice
        /\ lock = Free
        /\ pc = [t \in Handlers |-> "idle"]
        /\ req = [t \in Handlers |-> NoRequest]
        /\ body = [t \in Handlers |-> "whole"]
        /\ cursor = 0
        /\ served = 0
        /\ got = {}
        /\ given = << >>
        /\ shown = {}

-----------------------------------------------------------------------------
(* _handle: the two /mock routes ask for no token.  A request comes to the  *)
(* operation of its route.                                                  *)
MockRoutes == At("POST", {<<"mock", "restart">>, <<"mock", "persist">>})
Open       == {"restart", "persist"}
OpOf(path) == IF path \in MockRoutes THEN path[2][2] ELSE Op(path[1], path[2])

(* The bearer token: the console's requests carry the one its server picks. *)
Bearer(r) == IF r.by = "console" THEN TokenFor(r.path[1], r.path[2]) ELSE r.by

(* The control or the admin token with rank enough, on a route that is      *)
(* there; streams are not.  A named client's token is found and then no role*)
(* is found with it: the handler dies of that.                              *)
Admitted(r) ==
    LET need == RouteLookup(r.path[1], r.path[2])
    IN  \/ r.path \in MockRoutes
        \/ /\ need # None /\ r.path[2][1] # "streams"
           /\ Bearer(r) \in DOMAIN Authorities /\ Suffices(Bearer(r), need)

(* A request that is let in, with the operation it comes to; a valid action *)
(* is one of the four, since Device.action refuses any other.               *)
Asked(r)   == With(r, "op", OpOf(r.path))
Operations == Open \cup Bodiless \cup Writes \cup {"script_put", "script_run", "frame"}
Actions    == {"brightness", "power", "reseed", "arm_stream"}

ASSUME RequestsAssumption ==
    \A r \in {Asked(q) : q \in {x \in Requests : Admitted(x)}} :
        r.op \in Operations /\ (r.op = "action" /\ r.valid => r.action \in Actions)

TurnedAway(t) ==
    /\ pc[t] = "idle" /\ served < MaxRequests
    /\ \E r \in Requests : ~Admitted(r)
    /\ served' = served + 1
    /\ UNCHANGED <<dev, lock, pc, req, body, cursor, got, given, shown>>

Arrive(t) ==
    /\ pc[t] = "idle" /\ served < MaxRequests
    /\ \E r \in Requests :
         /\ Admitted(r)
         /\ LET op == OpOf(r.path)
            IN  /\ req' = [req EXCEPT ![t] = Asked(r)]
                /\ body' = [body EXCEPT ![t] = IF op \in Bodiless \cup {"restart"} THEN "whole"
                                                                                  ELSE "coming"]
                /\ pc' = [pc EXCEPT ![t] = IF op = "persist" THEN "before" ELSE "waiting"]
    /\ served' = served + 1
    /\ UNCHANGED <<dev, lock, cursor, got, given, shown>>

(* The client's side of rfile.read: nothing in the server bounds the wait.  *)
SendBody(t) ==
    /\ pc[t] # "idle" /\ body[t] = "coming"
    /\ \E b \in {"whole", "cut", "empty"} : body' = [body EXCEPT ![t] = b]
    /\ UNCHANGED <<dev, lock, pc, req, cursor, served, got, given, shown>>

(* /mock/persist reads its body outside the lock, and outside the try: a    *)
(* body that is not json kills the handler.                                 *)
ReadBefore(t) ==
    /\ pc[t] = "before" /\ body[t] # "coming"
    /\ pc' = [pc EXCEPT ![t] = IF body[t] = "whole" THEN "waiting" ELSE "idle"]
    /\ req' = [req EXCEPT ![t] = IF body[t] = "whole" THEN @ ELSE NoRequest]
    /\ body' = [body EXCEPT ![t] = "whole"]
    /\ UNCHANGED <<dev, lock, cursor, served, got, given, shown>>

TakeLock(t) ==
    /\ pc[t] = "waiting" /\ lock = Free
    /\ lock' = t
    /\ pc' = [pc EXCEPT ![t] = "holding"]
    /\ UNCHANGED <<dev, req, body, cursor, served, got, given, shown>>

(* What a settings document says, the revision that names it aside.         *)
Content(d) == [config |-> [d.config EXCEPT !.saved = 0], mqtt |-> d.mqtt, ntfy |-> d.ntfy]

Outcome(t) ==
    LET r == req[t]
    IN  CASE r.op = "restart" -> Doc(Restart(dev))
          [] r.op = "persist" -> Doc(SetPersist(dev, r))
          [] r.op \notin Open -> Serve(dev, r, body[t])

(* The lock is let go however the handler ends.  The two /mock routes       *)
(* answer after that, from the device as it is by then.                     *)
Finish(t) ==
    /\ pc[t] = "holding" /\ body[t] # "coming"
    /\ LET o == Outcome(t)
       IN  /\ dev' = o.dev
           /\ lock' = Free
           /\ given' = IF o.told = "applied"
                       THEN Append(given, <<o.dev.epoch, o.dev.revision>>) ELSE given
           /\ shown' = IF o.told = "doc" /\ req[t].op \in {"config", "patch"}
                       THEN shown \cup {<<o.dev.config.revision, Content(o.dev)>>} ELSE shown
    /\ pc' = [pc EXCEPT ![t] = IF req[t].op \in Open THEN "answering" ELSE "idle"]
    /\ req' = [req EXCEPT ![t] = NoRequest]
    /\ body' = [body EXCEPT ![t] = "whole"]
    /\ UNCHANGED <<cursor, served, got>>

Answer(t) ==
    /\ pc[t] = "answering"
    /\ pc' = [pc EXCEPT ![t] = "idle"]
    /\ UNCHANGED <<dev, lock, req, body, cursor, served, got, given, shown>>

(* GET /logs?after=, again and again; it has no body to wait for.           *)
Follow ==
    /\ lock = Free
    /\ LET page == Page(dev, cursor)
       IN  /\ page # << >>
           /\ cursor' = NextAfter(page, cursor)
           /\ got' = got \cup ToSet(page)
    /\ UNCHANGED <<dev, lock, pc, req, body, served, given, shown>>

(* The time of an overlay runs out.                                         *)
Lapse ==
    /\ dev.overlay # None /\ ~dev.lapsed
    /\ dev' = [dev EXCEPT !.lapsed = TRUE]
    /\ UNCHANGED <<lock, pc, req, body, cursor, served, got, given, shown>>

(* All was asked and answered; any other state without a step is a deadlock.*)
Served == /\ served = MaxRequests
          /\ \A t \in Handlers : pc[t] = "idle"
          /\ UNCHANGED vars

Next == \/ \E t \in Handlers :
              \/ TurnedAway(t) \/ Arrive(t) \/ SendBody(t)
              \/ ReadBefore(t) \/ TakeLock(t) \/ Finish(t) \/ Answer(t)
        \/ Follow
        \/ Lapse
        \/ Served

Spec == Init /\ [][Next]_vars

-----------------------------------------------------------------------------
(* The token the console's server picks for a route, and the one the command*)
(* line picks for a command, are enough for what the stand-in asks there,   *)
(* for the names it has stored as well: token_for, admin_commands and       *)
(* route_lookup are three hand-kept tables of one thing, and a route missing*)
(* from one is a 403 on one button.                                         *)
TokensSuffice ==
    /\ AllAllowed
    /\ \A m \in Methods :
         /\ \A n \in DOMAIN dev.clients : ConsoleAllowed(m, <<"tokens", n>>)
         /\ \A n \in DOMAIN dev.scripts : ConsoleAllowed(m, <<"berry", "scripts", n>>)

(* An answer "applied" names one state of the renderer: no two of them have *)
(* the same epoch and revision, whatever restarts and ended overlays come   *)
(* between (bump, restart, tick).                                           *)
AnswersDistinct == IsInjective(given)

(* A settings revision names one content, whoever wrote in between: what an *)
(* expected_revision guards is the document its client read (put_mqtt and   *)
(* put_ntfy count too).                                                     *)
RevisionNames == \A x, y \in shown : x[1] = y[1] => x = y

(* While writes to flash succeed, the saved revision is the revision, also  *)
(* when they have failed before (persist_settings, /mock/persist).          *)
SavedFollows == dev.persist => dev.config.saved = dev.config.revision

(* The follower has had every line that is behind its place, as long as the *)
(* line is still there: only the ring loses lines, never the paging.        *)
LinesKept == \A s \in ToSet(dev.lines) : s <= cursor => s \in got

(* What a handler does before it refuses or dies stays on the panel: the    *)
(* settings, their revision, the tokens, the scripts and the revision that   *)
(* commands are answered with are as they were.                              *)
Ends(t, how) == pc[t] = "holding" /\ pc'[t] # "holding" /\ Outcome(t).told \in how

Kept(d) == <<d.config, d.mqtt, d.ntfy, d.clients, d.scripts, d.epoch, d.revision>>

RefusalsStayOut ==
    [][\A t \in Handlers : Ends(t, {"refused", "nothing"}) => Kept(dev') = Kept(dev)]_vars

(* "a rejected patch changes nothing" (panel-v2/test_serve.py): a request   *)
(* that is refused leaves the device as it was.                             *)
RefusedLeavesAlone ==
    [][\A t \in Handlers : Ends(t, {"refused"}) => dev' = dev]_vars
=============================================================================
