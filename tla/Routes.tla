------------------------------- MODULE Routes -------------------------------
(***************************************************************************)
(* The routes of /api/v1 as the three programs on the bench see them: what *)
(* the stand-in device asks and does for one (panel-v2/mock-device.py),    *)
(* which of its two tokens the console's server adds (panel-v2/serve.py),  *)
(* and what the command line sends (runtime/tools/tc002ctl.py).  Each has  *)
(* a table of its own.                                                     *)
(*                                                                         *)
(* A path is the sequence of its segments below /api/v1; one that ends in  *)
(* a slash has the empty segment last.                                     *)
(***************************************************************************)
EXTENDS Naturals, SequencesExt

None == "none"   \* what is absent

Authorities == [read |-> 0, control |-> 1, admin |-> 2]

At(method, paths)     == {<<method, path>> : path \in paths}
Under(prefix, path)   == IsStrictPrefix(prefix, path)
Rest(prefix, path)    == SubSeq(path, Len(prefix) + 1, Len(path))
Granted(table, method) == IF method \in DOMAIN table THEN table[method] ELSE None

-----------------------------------------------------------------------------
(* ROUTES: the authority a route asks for.                                  *)
Table ==
    [read    |-> At("GET", {<<"status">>, <<"scenes">>, <<"config">>, <<"mqtt", "status">>,
                            <<"canvas">>}),
     control |-> At("PUT", {<<"scene">>}) \cup At("POST", {<<"action">>, <<"input">>, <<"notify">>,
                                                            <<"frame">>})
                 \cup At("GET", {<<"logs">>, <<"berry">>, <<"berry", "scripts">>})
                 \cup At("PATCH", {<<"canvas">>}) \cup At("DELETE", {<<"canvas">>}),
     admin   |-> At("PATCH", {<<"config">>}) \cup At("POST", {<<"config", "save">>, <<"tokens">>})
                 \cup At("GET", {<<"mqtt">>, <<"ntfy">>, <<"tokens">>})
                 \cup At("PUT", {<<"mqtt">>, <<"ntfy">>, <<"canvas">>})]

(* route_lookup: the families of paths first.                               *)
ScriptNeed(method, rest) ==
    CASE Len(rest) = 1 /\ rest[1] # "" ->
           Granted([GET |-> "control", PUT |-> "admin", DELETE |-> "admin"], method)
      [] Len(rest) = 2 /\ rest[2] = "run" -> Granted([POST |-> "admin"], method)
      [] OTHER -> None

TokenNeed(method, rest) ==
    CASE Len(rest) = 1 /\ rest[1] # "" -> Granted([DELETE |-> "admin"], method)
      [] Len(rest) = 2 /\ rest[2] = "rotate" -> Granted([POST |-> "admin"], method)
      [] OTHER -> None

StreamNeed(method, rest) ==
    CASE Len(rest) = 0 -> Granted([POST |-> "control"], method)
      [] Len(rest) = 1 -> Granted([DELETE |-> "control"], method)
      [] Len(rest) > 1 /\ Last(rest) = "palette" -> Granted([PUT |-> "control"], method)
      [] OTHER -> None

TableNeed(method, path) ==
    IF \E a \in DOMAIN Table : <<method, path>> \in Table[a]
    THEN CHOOSE a \in DOMAIN Table : <<method, path>> \in Table[a]
    ELSE None

RouteLookup(method, path) ==
    CASE Under(<<"berry", "scripts">>, path) -> ScriptNeed(method, Rest(<<"berry", "scripts">>, path))
      [] Under(<<"tokens">>, path) -> TokenNeed(method, Rest(<<"tokens">>, path))
      [] path[1] = "streams"       -> StreamNeed(method, Tail(path))
      [] OTHER                     -> TableNeed(method, path)

(* _handle: the operation a route that is let in comes to.                  *)
ScriptOp(method, rest) ==
    CASE method = "GET" -> "script_get"
      [] method = "POST" /\ Last(rest) = "run" -> "script_run"
      [] method = "DELETE" -> "script_delete"
      [] method = "PUT"    -> "script_put"

Op(method, path) ==
    CASE path[1] = "streams" -> "stream"
      [] path = <<"berry">>  -> "berry"
      [] path = <<"berry", "scripts">> -> "script_list"
      [] Under(<<"berry", "scripts">>, path) -> ScriptOp(method, Rest(<<"berry", "scripts">>, path))
      [] path = <<"tokens">> -> [GET |-> "token_list", POST |-> "token_add"][method]
      [] Under(<<"tokens">>, path) -> [POST |-> "token_rotate", DELETE |-> "token_remove"][method]
      [] path = <<"canvas">> -> [GET |-> "canvas_get", PUT |-> "canvas_put",
                                 PATCH |-> "canvas_patch", DELETE |-> "canvas_delete"][method]
      [] path = <<"config">> -> [GET |-> "config", PATCH |-> "patch"][method]
      [] path = <<"mqtt">>   -> [GET |-> "mqtt_get", PUT |-> "mqtt"][method]
      [] path = <<"ntfy">>   -> [GET |-> "ntfy_get", PUT |-> "ntfy"][method]
      [] path = <<"config", "save">> -> "save"
      [] path = <<"mqtt", "status">> -> "mqtt_status"
      [] OTHER -> path[1]

-----------------------------------------------------------------------------
(* serve.py.  PATH_RE: no segment is empty or starts with a dot, so a name  *)
(* cannot climb out of the api.  Every method is passed on.                 *)
Rewrites(path) == path # << >> /\ \A i \in DOMAIN path : path[i] \notin {"", "..", ".hidden"}

AdminRoutes == At("PATCH", {<<"config">>}) \cup At("POST", {<<"config", "save">>})
               \cup At("GET", {<<"mqtt">>, <<"ntfy">>})
               \cup At("PUT", {<<"mqtt">>, <<"ntfy">>, <<"canvas">>})

\* mutant: before scripts and tokens had families of their own
TokenForTable(method, path) == IF <<method, path>> \in AdminRoutes THEN "admin" ELSE "control"

(* token_for *)
TokenFor(method, path) ==
    IF \/ Under(<<"berry", "scripts">>, path)
       \/ Under(<<"sprites">>, path) /\ method \in {"PUT", "DELETE"}
       \/ path[1] = "tokens"
       \/ <<method, path>> \in AdminRoutes
    THEN "admin" ELSE "control"

-----------------------------------------------------------------------------
(* tc002ctl.py: what each command sends; x is the name it was given.        *)
Ctl(command, method, path) == [command |-> command, method |-> method, path |-> path]

CtlRequests ==
    { Ctl("status", "GET", <<"status">>), Ctl("tokens", "GET", <<"tokens">>),
      Ctl("scenes", "GET", <<"scenes">>), Ctl("screen", "GET", <<"screen">>),
      Ctl("logs", "GET", <<"logs">>), Ctl("config", "GET", <<"config">>),
      Ctl("mqtt", "GET", <<"mqtt">>), Ctl("ntfy", "GET", <<"ntfy">>),
      Ctl("mqtt-status", "GET", <<"mqtt", "status">>),
      Ctl("brightness", "POST", <<"action">>), Ctl("reseed", "POST", <<"action">>),
      Ctl("arm-stream", "POST", <<"action">>), Ctl("power", "POST", <<"action">>),
      Ctl("input", "POST", <<"input">>), Ctl("notify", "POST", <<"notify">>),
      Ctl("dismiss", "POST", <<"notify", "dismiss">>), Ctl("frame", "POST", <<"frame">>),
      Ctl("token-new", "POST", <<"tokens">>), Ctl("token-rotate", "POST", <<"tokens", "x", "rotate">>),
      Ctl("token-revoke", "DELETE", <<"tokens", "x">>), Ctl("scene", "PUT", <<"scene">>),
      Ctl("config-set", "PATCH", <<"config">>), Ctl("config-save", "POST", <<"config", "save">>),
      Ctl("reboot", "POST", <<"reboot">>), Ctl("ntfy-set", "PUT", <<"ntfy">>),
      Ctl("mqtt-set", "PUT", <<"mqtt">>) }

AdminCommands == {"config-set", "config-save", "mqtt", "mqtt-set", "ntfy", "ntfy-set", "reboot",
                  "tokens", "token-new", "token-rotate", "token-revoke"}

\* load_token, from a token file with both
CtlToken(command) == IF command \in AdminCommands THEN "admin" ELSE "control"

-----------------------------------------------------------------------------
(* Every method on every route and on what a family of routes may look like.*)
Methods == {"GET", "PUT", "POST", "PATCH", "DELETE"}
Words   == {"x", "run", "rotate", "palette", ""}
Endpoints ==
    {e[2] : e \in UNION {Table[a] : a \in DOMAIN Table}}
    \cup {stem \o tail : stem \in {<<"streams">>, <<"tokens">>, <<"berry", "scripts">>},
                         tail \in UNION {[1..n -> Words] : n \in 0..2}}

Suffices(have, need) == need = None \/ Authorities[have] >= Authorities[need]

\* the token picked for a request is enough for what the stand-in asks there
ConsoleAllowed(method, path) ==
    Rewrites(path) => Suffices(TokenFor(method, path), RouteLookup(method, path))
CommandLineAllowed(q) == Suffices(CtlToken(q.command), RouteLookup(q.method, q.path))

AllAllowed == /\ \A m \in Methods, e \in Endpoints : ConsoleAllowed(m, e)
              /\ \A q \in CtlRequests : CommandLineAllowed(q)
=============================================================================
