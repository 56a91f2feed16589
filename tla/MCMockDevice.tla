---------------------------- MODULE MCMockDevice ----------------------------
(* MockDevice with a request or two of every kind.                         *)
EXTENDS MockDevice, TLC

TwoGenerators == <<"popsquares", "plasma">>
SomeParameters ==
    <<"plasma", "palette">> :> [kind |-> "choice", choices |-> <<"fire", "ice">>, default |-> 1]
    @@ <<"plasma", "speed">> :> [kind |-> "number", min |-> 1, max |-> 3, default |-> 2]
    @@ <<"popsquares", "glow">> :> [kind |-> "toggle", default |-> FALSE]
    @@ <<"popsquares", "tint">> :> [kind |-> "colour", colours |-> {"red"}, default |-> "red"]

Ask(who, method, path, fields) == [by |-> who, path |-> <<method, path>>] @@ fields

Command(method, path, fields) ==
    Ask("control", method, path, fields @@ [valid |-> TRUE, epoch |-> {}])
Fenced(method, path, fields) == [Command(method, path, fields) EXCEPT !.epoch = {1}]
Setting(method, path, fields) == Ask("console", method, path, fields @@ [valid |-> TRUE])

Commands ==
    { Fenced("PUT", <<"scene">>, [base |-> "clock", generator |-> None, ip |-> "big",
                                  clock |-> [font |-> "mini"]]),
      Command("PUT", <<"scene">>, [base |-> "art", generator |-> "plasma", ip |-> "invalid",
                                   clock |-> << >>]),
      Command("POST", <<"action">>, [action |-> "arm_stream"]),
      Command("POST", <<"input">>, [control |-> "rotary", event |-> "ccw", steps |-> 3]),
      Fenced("POST", <<"notify">>, << >>),
      Command("PATCH", <<"canvas">>, [elements |-> {"e"}, value |-> 2, late |-> "invalid"]),
      Command("DELETE", <<"canvas">>, << >>) }

\* the other actions and inputs, which differ in what they set
MoreCommands ==
    { Command("POST", <<"action">>, [action |-> "brightness", value |-> 50]),
      Command("POST", <<"action">>, [action |-> "power", value |-> FALSE]),
      Command("POST", <<"action">>, [action |-> "reseed"]),
      Command("POST", <<"input">>, [control |-> "knob", event |-> "long", steps |-> 1]),
      Command("POST", <<"input">>, [control |-> "middle", event |-> "click", steps |-> 1]),
      Command("POST", <<"input">>, [control |-> "rotary", event |-> "press", steps |-> 1]),
      Command("POST", <<"frame">>, << >>) }

Entry(scene, name, value) == [scene |-> scene, name |-> name, value |-> value]
Patch(set, want, params, clock) ==
    Setting("PATCH", <<"config">>, [set |-> set, want |-> want, params |-> params, clock |-> clock])

Settings ==
    { Patch("brightness" :> 42 @@ "night" :> TRUE, {0},
            <<Entry("plasma", "speed", 1), Entry("plasma", "speed", 3)>>, [font |-> "mini"]),
      Patch("base" :> "clock" @@ "rest" :> 1, {}, << >>, << >>),
      Patch("ip" :> "big", {}, <<Entry("popsquares", "glow", "on"), Entry("plasma", "speed", 4)>>,
            << >>),
      Setting("POST", <<"config", "save">>, [want |-> {0}]),
      Setting("PUT", <<"mqtt">>, [set |-> "enabled" :> TRUE @@ "host" :> "broker"]),
      Setting("PUT", <<"mqtt">>, [set |-> "host" :> None @@ "tls" :> TRUE]),
      Setting("PUT", <<"ntfy">>, [set |-> "enabled" :> TRUE @@ "url" :> "u"]),
      Setting("PUT", <<"ntfy">>, [set |-> "topic" :> "t"]),
      Setting("PUT", <<"canvas">>, [elements |-> {"e", "f"}, value |-> 1]) }

Stores ==
    { Setting("POST", <<"tokens">>, [name |-> "app", scopes |-> {"status"}]),
      Setting("POST", <<"tokens">>, [name |-> "app", scopes |-> {"tokens"}]),
      Setting("POST", <<"tokens", "app", "rotate">>, [name |-> "app", scopes |-> None]),
      Setting("DELETE", <<"tokens", "app">>, [name |-> "app"]),
      Setting("PUT", <<"berry", "scripts", "hello">>, [name |-> "hello", size |-> 2]),
      Setting("PUT", <<"berry", "scripts", "more">>, [name |-> "more", size |-> 2]),
      Setting("GET", <<"berry", "scripts", "hello">>, [name |-> "hello"]),
      Setting("POST", <<"berry", "scripts", "hello", "run">>, [name |-> "hello"]),
      Setting("DELETE", <<"berry", "scripts", "hello">>, [name |-> "hello"]) }

Others ==
    { Ask("control", "GET", <<"status">>, << >>),
      Ask("console", "GET", <<"config">>, << >>),
      Ask("nobody", "POST", <<"mock", "restart">>, << >>),
      Ask("nobody", "POST", <<"mock", "persist">>, [on |-> FALSE]),
      Ask("nobody", "POST", <<"mock", "persist">>, [on |-> TRUE]),
      Ask("a named client", "GET", <<"status">>, << >>),
      Ask("control", "PATCH", <<"tokens">>, << >>) }

AllRequests == Commands \cup MoreCommands \cup Settings \cup Stores \cup Others

Interchangeable == Permutations(Handlers)
=============================================================================
