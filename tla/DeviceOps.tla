------------------------------ MODULE DeviceOps ------------------------------
(***************************************************************************)
(* The stand-in device of the console, panel-v2/mock-device.py: what each  *)
(* request does to the one Device object, as an outcome made from the      *)
(* device and the request.  An outcome says what is left of the device and *)
(* what the client is told.  Every operation runs whole, under the         *)
(* device's lock; MockDevice has the threads.                              *)
(*                                                                         *)
(* A request is a record: op names the operation, and valid is FALSE when  *)
(* one of the fields that are not modelled fails its check; those that are *)
(* modelled are checked here, in the order of the code where something has *)
(* been written by then.  Not kept: the seed of the art, the texts of      *)
(* messages and log lines, the counter of presented frames, minted ids,    *)
(* transitions and the position of the sun.                                *)
(***************************************************************************)
EXTENDS Integers, FiniteSets, Functions, TLC, Routes

CONSTANTS SeedLines,   \* lines in the log of a device that just started
          LogMax,      \* lines the log holds
          LogPage,     \* lines in one answer of GET /logs
          MaxClients,  \* named tokens
          ScriptMax,   \* bytes of a script
          BerryBudget, \* bytes of all scripts
          Generators,  \* GENERATORS, in the order the wheel has them
          Parameters,  \* GENERATOR_PARAMS: <<generator, name>> -> its kind and range
          MaxParams    \* MAX_PARAMS_PER_PATCH

ASSUME LogAssumption == SeedLines \in Nat /\ LogPage \in Nat

\* an optional number is a set of at most one; an optional result too

(* param_default, in the shape a patch may send it back                     *)
ParamDefault(p) == CASE p.kind = "choice" -> p.choices[p.default]
                     [] p.kind = "toggle" -> IF p.default THEN "on" ELSE "off"
                     [] p.kind \in {"colour", "number"} -> p.default

\* two of the fields of a clock style, an enumeration and a flag
DefaultClock == [font |-> "block", fade |-> FALSE]
ClockFonts   == {"block", "mini"}

(* Device.__init__ *)
NewConfig == [revision |-> 0, saved |-> 0, brightness |-> 100, base |-> "art",
              generator |-> Generators[1], clock |-> DefaultClock, ip |-> "lines",
              night |-> FALSE, rest |-> 0,
              generators |-> [x \in DOMAIN Parameters |-> ParamDefault(Parameters[x])]]

NewDevice ==
    [epoch |-> 1, revision |-> 0, persist |-> TRUE, config |-> NewConfig,
     mqtt |-> [enabled |-> FALSE, host |-> None, tls |-> FALSE, ca |-> None],
     ntfy |-> [enabled |-> FALSE, url |-> None, topic |-> None],
     base |-> "art", generator |-> Generators[1], brightness |-> 100, power |-> TRUE,
     clock |-> DefaultClock, ip |-> "lines", overlay |-> None, lapsed |-> FALSE, held |-> FALSE,
     clients |-> << >>, secrets |-> 0, scripts |-> << >>, canvas |-> << >>,
     seq |-> SeedLines, lines |-> [i \in 1..SeedLines |-> i]]

(* bump; _append_log, which drops the oldest line; persist_settings *)
Bump(d) == [d EXCEPT !.revision = @ + 1]

Log(d) == LET all == Append(d.lines, d.seq + 1)
          IN  [d EXCEPT !.seq = @ + 1,
                        !.lines = IF Len(all) > LogMax THEN Tail(all) ELSE all]

Persist(d) == IF d.persist THEN [d EXCEPT !.config.saved = d.config.revision] ELSE d

(* What a client is told: an applied command's revision, a document, or a   *)
(* refusal; or nothing, when the handler dies of an exception of its own.   *)
Applied(d) == [dev |-> d, told |-> "applied"]
Doc(d)     == [dev |-> d, told |-> "doc"]
Refused(d) == [dev |-> d, told |-> "refused"]
Crashed(d) == [dev |-> d, told |-> "nothing"]

(* check_epoch *)
Stale(d, r) == ~(r.epoch \subseteq {d.epoch})

Uncovered(d)        == [d EXCEPT !.overlay = None, !.lapsed = FALSE]
SetOverlay(d, kind) == Bump([d EXCEPT !.overlay = kind, !.lapsed = FALSE])

(* status, whose tick ends the overlay that has had its time *)
Status(d) == Doc(IF d.overlay # None /\ d.lapsed THEN Bump(Uncovered(d)) ELSE d)

\* mutant: goes on after a line that was not sent
NextAfterSkips(page, after) == IF page = << >> THEN after ELSE Last(page) + 1

(* logs: a page of the lines after one, and where to go on from.  The ring  *)
(* is in the order of its numbers, so they are those from the first of them. *)
Page(d, after) ==
    LET first == SelectInSeq(d.lines, LAMBDA s : s > after)
        left  == Len(d.lines) - first + 1
    IN  IF first = 0 THEN << >>
        ELSE SubSeq(d.lines, first, first - 1 + (IF left < LogPage THEN left ELSE LogPage))
NextAfter(page, after) == IF page = << >> THEN after ELSE Last(page)

\* mutant: the renderer's revision starts over in the same epoch
RestartInEpoch(d) == [Uncovered(d) EXCEPT !.revision = 0,
                                          !.clock = d.config.clock, !.ip = d.config.ip]

(* restart: a fresh renderer gets the durable style. *)
Restart(d) == [Uncovered(d) EXCEPT !.epoch = @ + 1, !.revision = 0,
                                   !.clock = d.config.clock, !.ip = d.config.ip]

\* mutant: what was not saved meanwhile is not saved now
SetPersistOnly(d, r) == [d EXCEPT !.persist = r.on]

(* /mock/persist *)
SetPersist(d, r) == Persist([d EXCEPT !.persist = r.on])

\* the fields that are there, as a change has them; one entry put in a table
Over(new, old) == [x \in DOMAIN old |-> IF x \in DOMAIN new THEN new[x] ELSE old[x]]
With(f, x, y)  == [z \in DOMAIN f \cup {x} |-> IF z = x THEN y ELSE f[z]]

(* parse_clock_style: all of the fields, or none.                           *)
ParseClockStyle(fields) ==
    IF /\ DOMAIN fields \subseteq DOMAIN DefaultClock
       /\ "font" \in DOMAIN fields => fields.font \in ClockFonts
       /\ "fade" \in DOMAIN fields => fields.fade \in BOOLEAN
    THEN {fields} ELSE {}

(* set_scene: the style is merged over the one that shows, and the ip block *)
(* is checked when the rest has been set.                                   *)
SetScene(d, r) ==
    LET style == ParseClockStyle(r.clock)
        shown == [Uncovered(d) EXCEPT
                     !.base = r.base,
                     !.generator = IF r.base = "art" /\ r.generator # None THEN r.generator ELSE @,
                     !.clock = Over(CHOOSE y \in style : TRUE, @)]
    IN  IF ~r.valid \/ style = {} \/ Stale(d, r) THEN Refused(d)
        ELSE IF r.ip = "invalid" THEN Refused(shown)
        ELSE Applied(Bump(Log([shown EXCEPT !.ip = IF r.ip # None THEN r.ip ELSE @])))

(* action: one of four. *)
Action(d, r) ==
    IF ~r.valid \/ Stale(d, r) THEN Refused(d)
    ELSE Applied(CASE r.action = "brightness" ->
                        Bump(Log([d EXCEPT !.brightness = r.value, !.held = TRUE]))
                   [] r.action = "power" -> Bump(Log([d EXCEPT !.power = r.value]))
                   [] r.action = "reseed" -> Bump(Log(d))
                   [] r.action = "arm_stream" -> SetOverlay(Log(d), "stream_arming"))

(* CONTROL_EVENTS *)
Presses       == {"press", "release", "click", "long"}
ControlEvents == [left |-> Presses, middle |-> Presses, right |-> Presses, knob |-> Presses,
                  rotary |-> {"cw", "ccw"}]

(* The wheel turns the generator or, off the art, the brightness.           *)
Turn(d, event, steps) ==
    LET by == IF event = "cw" THEN steps ELSE -steps
        at == CHOOSE i \in DOMAIN Generators : Generators[i] = d.generator
        lit == d.brightness + 5 * by
    IN  IF d.base = "art"
        THEN [d EXCEPT !.generator = Generators[((at - 1 + by) % Len(Generators)) + 1]]
        ELSE [d EXCEPT !.brightness = CASE lit < 1 -> 1 [] lit > 100 -> 100 [] OTHER -> lit]

(* input: a long press arms the stream, and letting a button go picks its   *)
(* base.                                                                    *)
Input(d, r) ==
    LET heard == Log(d)
    IN  IF r.event \notin ControlEvents[r.control] \/ ~r.valid \/ Stale(d, r) THEN Refused(d)
        ELSE Applied(
               CASE r.event = "long" -> SetOverlay(heard, "stream_arming")
                 [] r.event \in {"click", "release"} /\ r.control # "knob" ->
                      Bump([Uncovered(heard) EXCEPT
                              !.base = [left |-> "art", middle |-> "clock", right |-> "ip"][r.control]])
                 [] r.event \in {"cw", "ccw"} -> Bump(Turn(heard, r.event, r.steps))
                 [] OTHER -> Bump(heard))

(* notify and frame *)
Notify(d, r) ==
    IF ~r.valid \/ Stale(d, r) THEN Refused(d) ELSE Applied(SetOverlay(Log(d), "notify"))
Frame(d, r) ==
    IF ~r.valid \/ Stale(d, r) THEN Refused(d) ELSE Applied(SetOverlay(Log(d), "frame"))

(* parse_param_value and resolve_generator_params: a list is looked through *)
(* before anything is written, and the last entry for a parameter counts.   *)
ParseParamValue(p, value) ==
    CASE p.kind = "choice" -> {value} \cap ToSet(p.choices)
      [] p.kind = "toggle" -> CASE value \in {"on", "true"} -> {"on"}
                                [] value \in {"off", "false"} -> {"off"}
                                [] OTHER -> {}
      [] p.kind = "colour" -> {value} \cap p.colours
      [] p.kind = "number" -> {value} \cap p.min..p.max

Fits(e) == /\ <<e.scene, e.name>> \in DOMAIN Parameters
           /\ ParseParamValue(Parameters[<<e.scene, e.name>>], e.value) # {}

ResolveGeneratorParams(entries) ==
    IF Len(entries) > MaxParams \/ \E i \in DOMAIN entries : ~Fits(entries[i]) THEN {}
    ELSE {[x \in {<<entries[i].scene, entries[i].name>> : i \in DOMAIN entries} |->
             LET i == SelectLastInSeq(entries, LAMBDA e : <<e.scene, e.name>> = x)
             IN  CHOOSE v \in ParseParamValue(Parameters[x], entries[i].value) : TRUE]}

(* patch_config.  The fields are checked one by one, and ip_mode is live as *)
(* soon as its turn has come; the rest takes effect when all are good.      *)
Conflict(d, r) == ~(r.want \subseteq {d.config.revision})

Patched(c, r, params, style) ==
    [Over(r.set, c) EXCEPT !.revision = c.revision + 1, !.generators = Over(params, @),
                           !.clock = Over(style, @)]

LiveEffects(d, c, n) ==
    LET lit   == IF n.brightness # c.brightness THEN Bump([d EXCEPT !.brightness = n.brightness])
                                                ELSE d
        based == IF n.base # c.base \/ n.generator # c.generator
                 THEN Bump([Uncovered(lit) EXCEPT !.base = n.base, !.generator = n.generator])
                 ELSE lit
        freed == IF n.night # c.night THEN [based EXCEPT !.held = FALSE] ELSE based
    IN  IF n.clock # c.clock THEN Bump([freed EXCEPT !.clock = n.clock]) ELSE freed

\* mutant: the fields are set as they are checked
PatchInPlace(d, r) ==
    LET live   == IF "ip" \in DOMAIN r.set THEN [d EXCEPT !.ip = r.set["ip"]] ELSE d
        params == ResolveGeneratorParams(r.params)
        style  == ParseClockStyle(r.clock)
        n      == Patched(d.config, r, CHOOSE x \in params : TRUE, CHOOSE y \in style : TRUE)
    IN  IF Conflict(d, r) \/ ~r.valid THEN Refused(d)
        ELSE IF params = {} \/ style = {} THEN Refused([live EXCEPT !.config = Over(r.set, @)])
        ELSE Doc(Log(Persist(LiveEffects([live EXCEPT !.config = n], d.config, n))))

PatchConfig(d, r) ==
    LET live   == IF "ip" \in DOMAIN r.set THEN [d EXCEPT !.ip = r.set["ip"]] ELSE d
        params == ResolveGeneratorParams(r.params)
        style  == ParseClockStyle(r.clock)
        n      == Patched(d.config, r, CHOOSE x \in params : TRUE, CHOOSE y \in style : TRUE)
    IN  IF Conflict(d, r) \/ ~r.valid THEN Refused(d)
        ELSE IF params = {} \/ style = {} THEN Refused(live)
        ELSE Doc(Log(Persist(LiveEffects([live EXCEPT !.config = n], d.config, n))))

(* save_config, put_mqtt, put_ntfy *)
SaveConfig(d, r) ==
    IF Conflict(d, r) THEN Refused(d) ELSE Doc(Log([d EXCEPT !.config.saved = d.config.revision]))

(* What is enabled needs somewhere to go.                                   *)
\* mutant: the broker's settings are no part of the revision
PutMqttUncounted(d, r) ==
    LET m == Over(r.set, d.mqtt)
    IN  IF ~r.valid \/ (m.enabled /\ m.host = None) THEN Refused(d)
        ELSE Doc(Log([d EXCEPT !.mqtt = m]))

PutMqtt(d, r) ==
    LET m == Over(r.set, d.mqtt)
    IN  IF ~r.valid \/ (m.enabled /\ m.host = None) THEN Refused(d)
        ELSE Doc(Log(Persist([d EXCEPT !.mqtt = m, !.config.revision = @ + 1])))

PutNtfy(d, r) ==
    LET n == Over(r.set, d.ntfy)
    IN  IF ~r.valid \/ (n.enabled /\ None \in {n.url, n.topic}) THEN Refused(d)
        ELSE Doc(Log(Persist([d EXCEPT !.ntfy = n, !.config.revision = @ + 1])))

(* check_scopes: at least one, and tokens is the admin's alone.             *)
Scopes == {"status", "display", "tokens"}
CheckScopes(scopes) == scopes # {} /\ scopes \subseteq Scopes \ {"tokens"}

(* client_add, client_rotate, client_remove.  A secret is the number of its *)
(* minting; a rotation may leave the scopes as they are.                    *)
Issue(d, name, scopes) ==
    Doc(Log([d EXCEPT !.secrets = @ + 1,
                      !.clients = With(@, name, [secret |-> d.secrets + 1, scopes |-> scopes])]))

ClientAdd(d, r) ==
    IF \/ ~r.valid \/ ~CheckScopes(r.scopes)
       \/ r.name \in DOMAIN d.clients \/ Cardinality(DOMAIN d.clients) >= MaxClients
    THEN Refused(d) ELSE Issue(d, r.name, r.scopes)

ClientRotate(d, r) ==
    IF \/ ~r.valid \/ (r.scopes # None /\ ~CheckScopes(r.scopes))
       \/ r.name \notin DOMAIN d.clients
    THEN Refused(d)
    ELSE Issue(d, r.name, IF r.scopes = None THEN d.clients[r.name].scopes ELSE r.scopes)

ClientRemove(d, r) ==
    IF r.name \notin DOMAIN d.clients THEN Refused(d)
    ELSE Doc(Log([d EXCEPT !.clients = Restrict(@, DOMAIN @ \ {r.name})]))

(* berry_get, berry_put, berry_delete, berry_run.  A script is its number of*)
(* bytes; one whose source was cut off is stored as far as it came.         *)
Used(d, names) == FoldFunctionOnSet(+, 0, d.scripts, names)

BerryPut(d, r, body) ==
    LET size == CASE body = "whole" -> r.size [] body = "cut" -> r.size - 1 [] body = "empty" -> 0
    IN  IF ~r.valid \/ size > ScriptMax
              \/ Used(d, DOMAIN d.scripts \ {r.name}) + size > BerryBudget
        THEN Refused(d) ELSE Doc(Log([d EXCEPT !.scripts = With(@, r.name, size)]))

BerryGet(d, r) == IF r.name \in DOMAIN d.scripts THEN Doc(d) ELSE Refused(d)

BerryDelete(d, r) ==
    IF r.name \notin DOMAIN d.scripts THEN Refused(d)
    ELSE Doc(Log([d EXCEPT !.scripts = Restrict(@, DOMAIN @ \ {r.name})]))

\* berry_enabled is FALSE and nothing sets it
BerryRun(d, r) == Refused(d)

(* The canvas, put whole, cleared, or patched element by element; a value   *)
(* that is not an object kills the handler when its turn comes, and those   *)
(* before it have been merged by then.                                      *)
CanvasPut(d, r) ==
    IF ~r.valid THEN Refused(d)
    ELSE Applied(Bump(Log([d EXCEPT !.canvas = [e \in r.elements |-> r.value]])))

CanvasDelete(d) == Applied(Bump(Log([d EXCEPT !.canvas = << >>])))

CanvasPatch(d, r) ==
    LET merged == [d EXCEPT !.canvas = [e \in DOMAIN @ |-> IF e \in r.elements THEN r.value
                                                                             ELSE @[e]]]
    IN  IF ~r.valid THEN Refused(d)
        ELSE IF r.late = "invalid" /\ d.canvas # << >> THEN Crashed(merged)
        ELSE Applied(Bump(Log(merged)))

(* The operations that read no body.                                        *)
Documents == {"scenes", "config", "mqtt_get", "mqtt_status", "ntfy_get", "canvas_get",
              "token_list", "berry", "script_list"}
Bodiless  == Documents \cup {"status", "canvas_delete", "token_remove", "script_get",
                             "script_delete"}

(* _json_body: the request as its body says it, or nothing.  What was cut   *)
(* off is not json.  A save may come without a body, and one whose body got *)
(* lost is taken for such a one.                                            *)
JsonBody(r, body) ==
    CASE body = "whole" -> {r}
      [] body = "empty" /\ r.op = "save" -> {[r EXCEPT !.want = {}]}
      [] OTHER -> {}

(* The operations on a json body.                                           *)
Writes == {"scene", "action", "input", "notify", "patch", "save", "mqtt", "ntfy", "token_add",
           "token_rotate", "canvas_put", "canvas_patch"}

Write(d, r) ==
    CASE r.op = "scene"        -> SetScene(d, r)
      [] r.op = "action"       -> Action(d, r)
      [] r.op = "input"        -> Input(d, r)
      [] r.op = "notify"       -> Notify(d, r)
      [] r.op = "patch"        -> PatchConfig(d, r)
      [] r.op = "save"         -> SaveConfig(d, r)
      [] r.op = "mqtt"         -> PutMqtt(d, r)
      [] r.op = "ntfy"         -> PutNtfy(d, r)
      [] r.op = "token_add"    -> ClientAdd(d, r)
      [] r.op = "token_rotate" -> ClientRotate(d, r)
      [] r.op = "canvas_put"   -> CanvasPut(d, r)
      [] r.op = "canvas_patch" -> CanvasPatch(d, r)

(* _handle, under the lock: what is served without a body, or with a body   *)
(* of another kind, or from json.                                           *)
Serve(d, r, body) ==
    CASE r.op = "status"        -> Status(d)
      [] r.op = "script_put"    -> BerryPut(d, r, body)
      [] r.op = "script_get"    -> BerryGet(d, r)
      [] r.op = "script_delete" -> BerryDelete(d, r)
      [] r.op = "script_run"    -> BerryRun(d, r)
      [] r.op = "token_remove"  -> ClientRemove(d, r)
      [] r.op = "canvas_delete" -> CanvasDelete(d)
      [] r.op = "frame"         -> IF body = "whole" THEN Frame(d, r) ELSE Refused(d)
      [] r.op \in Documents      -> Doc(d)
      [] OTHER -> IF JsonBody(r, body) = {} THEN Refused(d)
                  ELSE Write(d, CHOOSE x \in JsonBody(r, body) : TRUE)
=============================================================================
