-------------------------- MODULE MockDeviceProofs --------------------------
(***************************************************************************)
(* MockDevice for any number of threads and requests, any sizes of log and *)
(* page and any generators.                                                *)
(***************************************************************************)
EXTENDS MockDevice, SequenceTheorems, WellFoundedInduction, TLAPS

-----------------------------------------------------------------------------
(* The device *)

Fields == {"epoch", "revision", "persist", "config", "mqtt", "ntfy", "base", "generator",
           "brightness", "power", "clock", "ip", "overlay", "lapsed", "held", "clients",
           "secrets", "scripts", "canvas", "seq", "lines"}

Typed(d) == /\ Fields \subseteq DOMAIN d
            /\ {"revision", "saved"} \subseteq DOMAIN d.config
            /\ d.epoch \in Nat
            /\ d.revision \in Nat
            /\ d.config.revision \in Nat
            /\ d.seq \in Nat
            /\ d.lines \in Seq(Nat)

\* What a step may leave alone: the settings, the stores, the log.
Settings(d) == <<d.epoch, d.persist, d.config, d.mqtt, d.ntfy>>
Stores(d)   == <<d.clients, d.scripts>>
Lines(d)    == <<d.seq, d.lines>>

\* An edit of what only shows.
Same(d, e) == /\ Typed(e)
              /\ Settings(e) = Settings(d)
              /\ Stores(e) = Stores(d)
              /\ Lines(e) = Lines(d)
              /\ e.revision = d.revision

LEMMA BumpIs ==
    ASSUME NEW d, Typed(d)
    PROVE  /\ Typed(Bump(d))
           /\ Settings(Bump(d)) = Settings(d)
           /\ Stores(Bump(d)) = Stores(d)
           /\ Lines(Bump(d)) = Lines(d)
           /\ Bump(d).revision = d.revision + 1
  BY DEF Typed, Bump, Fields, Settings, Stores, Lines

LEMMA UncoveredIs ==
    ASSUME NEW d, Typed(d)
    PROVE  Same(d, Uncovered(d))
  BY DEF Typed, Uncovered, Same, Fields, Settings, Stores, Lines

LEMMA LogIs ==
    ASSUME NEW d, Typed(d)
    PROVE  /\ Typed(Log(d))
           /\ Settings(Log(d)) = Settings(d)
           /\ Stores(Log(d)) = Stores(d)
           /\ Log(d).revision = d.revision
           /\ Log(d).seq = d.seq + 1
           /\ Log(d).lines \in {Append(d.lines, d.seq + 1), Tail(Append(d.lines, d.seq + 1))}
  <1> DEFINE all   == Append(d.lines, d.seq + 1)
             lines == IF Len(all) > LogMax THEN Tail(all) ELSE all
  <1>1. all \in Seq(Nat) /\ all # << >>
    BY DEF Typed
  <1>2. Tail(all) \in Seq(Nat)
    BY <1>1
  <1>3. lines \in Seq(Nat) /\ lines \in {all, Tail(all)}
    BY <1>1, <1>2
  <1>4. Log(d) = [d EXCEPT !.seq = @ + 1, !.lines = lines]
    BY DEF Log
  <1> HIDE DEF lines, all
  <1>5. /\ Typed(Log(d))
        /\ Settings(Log(d)) = Settings(d)
        /\ Stores(Log(d)) = Stores(d)
        /\ Log(d).revision = d.revision
        /\ Log(d).seq = d.seq + 1
        /\ Log(d).lines = lines
    BY <1>3, <1>4 DEF Typed, Fields, Settings, Stores
  <1> QED
    BY <1>3, <1>5 DEF all

-----------------------------------------------------------------------------
(* What an operation may do *)

Logged(d, e) == /\ e.seq = d.seq + 1
                /\ e.lines \in {Append(d.lines, d.seq + 1), Tail(Append(d.lines, d.seq + 1))}

\* The panel may have changed, and nothing else; a line may have been written.
Drawn(d, e) == /\ Typed(e)
               /\ Settings(e) = Settings(d)
               /\ Stores(e) = Stores(d)
               /\ Lines(e) = Lines(d) \/ Logged(d, e)
               /\ e.revision >= d.revision

\* The revision of the settings is that of their content, and is saved.
Ahead(d, e)   == \/ e.epoch > d.epoch
                 \/ e.epoch = d.epoch /\ e.revision >= d.revision
Counted(d, e) == \/ e.config.revision > d.config.revision
                 \/ e.config.revision = d.config.revision /\ Content(e) = Content(d)
Follows(d)    == d.persist => d.config.saved = d.config.revision

Sound(d, o) ==
    /\ Typed(o.dev)
    /\ Lines(o.dev) = Lines(d) \/ Logged(d, o.dev)
    /\ Ahead(d, o.dev)
    /\ Counted(d, o.dev)
    /\ Follows(d) => Follows(o.dev)
    /\ o.told = "applied" => o.dev.epoch = d.epoch /\ o.dev.revision > d.revision
    /\ o.told \in {"refused", "nothing"} => Kept(o.dev) = Kept(d)

LEMMA SameIsDrawn ==
    ASSUME NEW d, Typed(d), NEW e, Same(d, e)
    PROVE  Drawn(d, e)
  BY DEF Same, Drawn, Typed

LEMMA DrawnOn ==
    ASSUME NEW d, Typed(d), NEW e, Drawn(d, e), NEW f, Same(e, f)
    PROVE  Drawn(d, f)
  BY DEF Same, Drawn, Typed, Lines, Logged

LEMMA LogDrawn ==
    ASSUME NEW d, Typed(d), NEW e, Same(d, e)
    PROVE  Drawn(d, Log(e))
  <1>1. Typed(e) /\ e.seq = d.seq /\ e.lines = d.lines /\ e.revision = d.revision
    BY DEF Same, Lines
  <1>2. Settings(e) = Settings(d) /\ Stores(e) = Stores(d)
    BY DEF Same
  <1>3. /\ Typed(Log(e)) /\ Log(e).revision = d.revision
        /\ Settings(Log(e)) = Settings(d) /\ Stores(Log(e)) = Stores(d)
    BY <1>1, <1>2, LogIs
  <1>4. Logged(d, Log(e))
    BY <1>1, LogIs DEF Logged
  <1>5. d.revision \in Nat
    BY DEF Typed
  <1> QED
    BY <1>3, <1>4, <1>5 DEF Drawn

LEMMA BumpDrawn ==
    ASSUME NEW d, Typed(d), NEW e, Drawn(d, e)
    PROVE  Drawn(d, Bump(e)) /\ Bump(e).revision > d.revision
  <1>1. Typed(e) /\ d.revision \in Nat /\ e.revision \in Nat
    BY DEF Typed, Drawn
  <1>2. Lines(Bump(e)) = Lines(e) /\ Bump(e).revision = e.revision + 1 /\ Typed(Bump(e))
    BY <1>1, BumpIs
  <1>3. Settings(Bump(e)) = Settings(d) /\ Stores(Bump(e)) = Stores(d)
    BY <1>1, BumpIs DEF Drawn
  <1>4. Lines(Bump(e)) = Lines(d) \/ Logged(d, Bump(e))
    BY <1>2 DEF Drawn, Lines, Logged
  <1>5. Bump(e).revision > d.revision /\ Bump(e).revision >= d.revision
    BY <1>1, <1>2 DEF Drawn
  <1> QED
    BY <1>2, <1>3, <1>4, <1>5 DEF Drawn

LEMMA OverlayDrawn ==
    ASSUME NEW d, Typed(d), NEW e, Drawn(d, e), NEW kind
    PROVE  Drawn(d, SetOverlay(e, kind)) /\ SetOverlay(e, kind).revision > d.revision
  <1>1. Typed(e)
    BY DEF Drawn
  <1>2. Same(e, [e EXCEPT !.overlay = kind, !.lapsed = FALSE])
    BY <1>1 DEF Typed, Same, Fields, Settings, Stores, Lines
  <1> QED
    BY <1>2, DrawnOn, BumpDrawn DEF SetOverlay

\* What the client is told
LEMMA DrawnSound ==
    ASSUME NEW d, Typed(d), NEW e, Drawn(d, e)
    PROVE  /\ Typed(e)
           /\ Lines(e) = Lines(d) \/ Logged(d, e)
           /\ Ahead(d, e)
           /\ Counted(d, e)
           /\ Follows(d) => Follows(e)
           /\ e.epoch = d.epoch
  BY DEF Drawn, Typed, Ahead, Counted, Follows, Settings, Content

LEMMA DocSound ==
    ASSUME NEW d, Typed(d), NEW e, Drawn(d, e)
    PROVE  Sound(d, Doc(e))
  BY DrawnSound DEF Sound, Doc

LEMMA AppliedSound ==
    ASSUME NEW d, Typed(d), NEW e, Drawn(d, e), e.revision > d.revision
    PROVE  Sound(d, Applied(e))
  BY DrawnSound DEF Sound, Applied

LEMMA RefusedSound ==
    ASSUME NEW d, Typed(d), NEW e, Same(d, e)
    PROVE  Sound(d, Refused(e)) /\ Sound(d, Crashed(e))
  <1>1. Drawn(d, e)
    BY SameIsDrawn
  <1>2. Kept(e) = Kept(d)
    BY DEF Same, Kept, Settings, Stores
  <1> QED
    BY <1>1, <1>2, DrawnSound DEF Sound, Refused, Crashed

LEMMA NothingDone ==
    ASSUME NEW d, Typed(d)
    PROVE  Same(d, d)
  BY DEF Same

-----------------------------------------------------------------------------
(* Commands *)

LEMMA SetSceneSound ==
    ASSUME NEW d, Typed(d), NEW r
    PROVE  Sound(d, SetScene(d, r))
  <1> DEFINE style == ParseClockStyle(r.clock)
             seen == [Uncovered(d) EXCEPT
                         !.base = r.base,
                         !.generator = IF r.base = "art" /\ r.generator # None
                                       THEN r.generator ELSE @,
                         !.clock = Over(CHOOSE y \in style : TRUE, @)]
             whole == [seen EXCEPT !.ip = IF r.ip # None THEN r.ip ELSE @]
  <1>1. Same(d, Uncovered(d))
    BY UncoveredIs
  <1>2. Same(Uncovered(d), seen)
    BY <1>1 DEF Typed, Same, Fields, Settings, Stores, Lines
  <1> HIDE DEF seen
  <1>3. Same(seen, whole)
    BY <1>2 DEF Typed, Same, Fields, Settings, Stores, Lines
  <1> HIDE DEF whole
  <1>4. Same(d, seen) /\ Same(d, whole)
    BY <1>1, <1>2, <1>3 DEF Same
  <1>5. Sound(d, Applied(Bump(Log(whole))))
    BY <1>4, LogDrawn, BumpDrawn, AppliedSound
  <1>6. Sound(d, Refused(d)) /\ Sound(d, Refused(seen))
    BY <1>4, NothingDone, RefusedSound
  <1> QED
    BY <1>5, <1>6 DEF SetScene, seen, whole, style

LEMMA ActionSound ==
    ASSUME NEW d, Typed(d), NEW r,
           r.valid => r.action \in {"brightness", "power", "reseed", "arm_stream"}
    PROVE  Sound(d, Action(d, r))
  <1> DEFINE lit == [d EXCEPT !.brightness = r.value, !.held = TRUE]
             on  == [d EXCEPT !.power = r.value]
  <1>1. Same(d, lit) /\ Same(d, on) /\ Same(d, d)
    BY DEF Typed, Same, Fields, Settings, Stores, Lines
  <1>2. /\ Sound(d, Applied(Bump(Log(lit)))) /\ Sound(d, Applied(Bump(Log(on))))
        /\ Sound(d, Applied(Bump(Log(d)))) /\ Sound(d, Applied(SetOverlay(Log(d), "stream_arming")))
    BY <1>1, LogDrawn, BumpDrawn, OverlayDrawn, AppliedSound
  <1>3. Sound(d, Refused(d))
    BY <1>1, RefusedSound
  <1> HIDE DEF lit, on
  <1> QED
    BY <1>2, <1>3 DEF Action, lit, on

LEMMA InputSound ==
    ASSUME NEW d, Typed(d), NEW r
    PROVE  Sound(d, Input(d, r))
  <1> DEFINE heard == Log(d)
             based == [Uncovered(heard) EXCEPT
                         !.base = [left |-> "art", middle |-> "clock", right |-> "ip"][r.control]]
             turned == Turn(heard, r.event, r.steps)
  <1>1. Same(d, d) /\ Drawn(d, heard) /\ Typed(heard)
    BY NothingDone, LogDrawn DEF Drawn
  <1>2. Same(heard, Uncovered(heard))
    BY <1>1, UncoveredIs
  <1> HIDE DEF heard
  <1>3. Same(Uncovered(heard), based)
    BY <1>2 DEF Typed, Same, Fields, Settings, Stores, Lines
  <1>4. Same(heard, turned)
    <2>1. ASSUME NEW x
          PROVE  Same(heard, [heard EXCEPT !.generator = x]) /\ Same(heard, [heard EXCEPT !.brightness = x])
      BY <1>1 DEF Typed, Same, Fields, Settings, Stores, Lines
    <2> QED
      BY <2>1 DEF Turn
  <1> HIDE DEF turned, based
  <1>5. Same(heard, based)
    BY <1>2, <1>3 DEF Same
  <1>6. Drawn(d, based) /\ Drawn(d, turned)
    BY <1>1, <1>4, <1>5, DrawnOn
  <1>7. /\ Sound(d, Applied(Bump(based))) /\ Sound(d, Applied(Bump(turned)))
        /\ Sound(d, Applied(Bump(heard))) /\ Sound(d, Applied(SetOverlay(heard, "stream_arming")))
    BY <1>1, <1>6, BumpDrawn, OverlayDrawn, AppliedSound
  <1>8. Sound(d, Refused(d))
    BY <1>1, RefusedSound
  <1> QED
    BY <1>7, <1>8 DEF Input, heard, based, turned

LEMMA NotifySound ==
    ASSUME NEW d, Typed(d), NEW r
    PROVE  Sound(d, Notify(d, r)) /\ Sound(d, Frame(d, r))
  <1>1. Same(d, d)
    BY NothingDone
  <1>2. ASSUME NEW kind
        PROVE  Sound(d, Applied(SetOverlay(Log(d), kind)))
    BY <1>1, LogDrawn, OverlayDrawn, AppliedSound
  <1> QED
    BY <1>1, <1>2, RefusedSound DEF Notify, Frame

\* The overlay that has had its time goes with a bump.
LEMMA StatusSound ==
    ASSUME NEW d, Typed(d)
    PROVE  Sound(d, Status(d))
  <1>1. Drawn(d, d) /\ Drawn(d, Uncovered(d))
    BY NothingDone, UncoveredIs, SameIsDrawn
  <1> QED
    BY <1>1, BumpDrawn, DocSound DEF Status

LEMMA CanvasSound ==
    ASSUME NEW d, Typed(d), NEW r
    PROVE  Sound(d, CanvasPut(d, r)) /\ Sound(d, CanvasDelete(d)) /\ Sound(d, CanvasPatch(d, r))
  <1>1. ASSUME NEW x
        PROVE  Same(d, [d EXCEPT !.canvas = x])
    BY DEF Typed, Same, Fields, Settings, Stores, Lines
  <1>2. ASSUME NEW x
        PROVE  /\ Sound(d, Applied(Bump(Log([d EXCEPT !.canvas = x]))))
               /\ Sound(d, Crashed([d EXCEPT !.canvas = x]))
    BY <1>1, LogDrawn, BumpDrawn, AppliedSound, RefusedSound
  <1>3. Sound(d, Refused(d))
    BY NothingDone, RefusedSound
  <1> QED
    BY <1>2, <1>3 DEF CanvasPut, CanvasDelete, CanvasPatch

-----------------------------------------------------------------------------
(* Settings and stores *)

LEMMA WrittenSound ==
    ASSUME NEW d, Typed(d), NEW e, Typed(e), Lines(e) = Lines(d), Ahead(d, e), Counted(d, e),
           Follows(d) => Follows(e)
    PROVE  Sound(d, Doc(Log(e)))
  <1>1. /\ Typed(Log(e)) /\ Log(e).revision = e.revision /\ Settings(Log(e)) = Settings(e)
    BY LogIs
  <1>2. Logged(d, Log(e))
    <2>1. e.seq = d.seq /\ e.lines = d.lines
      BY DEF Lines
    <2> QED
      BY <2>1, LogIs DEF Logged
  <1>3. Ahead(d, Log(e)) /\ Counted(d, Log(e)) /\ (Follows(d) => Follows(Log(e)))
    BY <1>1 DEF Settings, Ahead, Counted, Follows, Content
  <1> QED
    BY <1>1, <1>2, <1>3 DEF Sound, Doc

LEMMA PersistIs ==
    ASSUME NEW d, Typed(d)
    PROVE  /\ Typed(Persist(d))
           /\ Follows(Persist(d))
           /\ Persist(d).config.revision = d.config.revision
           /\ Content(Persist(d)) = Content(d)
           /\ Persist(d).epoch = d.epoch /\ Persist(d).revision = d.revision
           /\ Lines(Persist(d)) = Lines(d)
  <1> DEFINE saved == [d.config EXCEPT !.saved = d.config.revision]
  <1>1. /\ {"revision", "saved"} \subseteq DOMAIN saved
        /\ saved.revision = d.config.revision /\ saved.saved = d.config.revision
        /\ [saved EXCEPT !.saved = 0] = [d.config EXCEPT !.saved = 0]
    BY DEF Typed
  <1>2. [d EXCEPT !.config.saved = d.config.revision] = [d EXCEPT !.config = saved]
    OBVIOUS
  <1> HIDE DEF saved
  <1>3. CASE d.persist
    <2> DEFINE e == [d EXCEPT !.config = saved]
    <2>1. /\ Fields \subseteq DOMAIN e /\ e.config = saved /\ e.epoch = d.epoch
          /\ e.revision = d.revision /\ e.persist = d.persist /\ e.mqtt = d.mqtt
          /\ e.ntfy = d.ntfy /\ e.seq = d.seq /\ e.lines = d.lines
      BY DEF Typed, Fields
    <2>2. Persist(d) = e
      BY <1>2, <1>3 DEF Persist
    <2> HIDE DEF e
    <2> QED
      BY <1>1, <2>1, <2>2 DEF Typed, Follows, Content, Lines
  <1>4. CASE ~d.persist
    BY <1>4 DEF Persist, Follows
  <1> QED
    BY <1>3, <1>4

\* What is counted and saved in one go
LEMMA PersistSound ==
    ASSUME NEW d, Typed(d), NEW e, Typed(e), Lines(e) = Lines(d), Ahead(d, e),
           e.config.revision > d.config.revision
    PROVE  Sound(d, Doc(Log(Persist(e))))
  <1>1. /\ Typed(Persist(e)) /\ Follows(Persist(e)) /\ Lines(Persist(e)) = Lines(d)
        /\ Persist(e).config.revision > d.config.revision
        /\ Persist(e).epoch = e.epoch /\ Persist(e).revision = e.revision
    BY PersistIs
  <1>2. Ahead(d, Persist(e)) /\ Counted(d, Persist(e))
    BY <1>1 DEF Ahead, Counted
  <1> QED
    BY <1>1, <1>2, WrittenSound

LEMMA PutSound ==
    ASSUME NEW d, Typed(d), NEW r
    PROVE  Sound(d, PutMqtt(d, r)) /\ Sound(d, PutNtfy(d, r))
  <1> DEFINE counted == [d.config EXCEPT !.revision = @ + 1]
             mqtt(x) == [d EXCEPT !.mqtt = x, !.config.revision = @ + 1]
             ntfy(x) == [d EXCEPT !.ntfy = x, !.config.revision = @ + 1]
  <1>1. /\ {"revision", "saved"} \subseteq DOMAIN counted
        /\ counted.revision = d.config.revision + 1
    BY DEF Typed
  <1>2. ASSUME NEW x
        PROVE  /\ mqtt(x) = [d EXCEPT !.mqtt = x, !.config = counted]
               /\ ntfy(x) = [d EXCEPT !.ntfy = x, !.config = counted]
    BY DEF Typed, Fields
  <1> HIDE DEF counted
  <1>3. ASSUME NEW x, NEW e \in {[d EXCEPT !.mqtt = x, !.config = counted],
                                 [d EXCEPT !.ntfy = x, !.config = counted]}
        PROVE  /\ Typed(e) /\ Lines(e) = Lines(d) /\ Ahead(d, e)
               /\ e.config.revision > d.config.revision
    <2>1. /\ Fields \subseteq DOMAIN e /\ e.config = counted /\ e.epoch = d.epoch
          /\ e.revision = d.revision /\ e.seq = d.seq /\ e.lines = d.lines
      BY <1>3 DEF Typed, Fields
    <2> HIDE <1>3
    <2> QED
      BY <1>1, <2>1 DEF Typed, Lines, Ahead
  <1>4. ASSUME NEW x
        PROVE  Sound(d, Doc(Log(Persist(mqtt(x))))) /\ Sound(d, Doc(Log(Persist(ntfy(x)))))
    BY <1>2, <1>3, PersistSound
  <1>5. Sound(d, Refused(d))
    BY NothingDone, RefusedSound
  <1> QED
    BY <1>4, <1>5 DEF PutMqtt, PutNtfy

LEMMA SaveConfigSound ==
    ASSUME NEW d, Typed(d), NEW r
    PROVE  Sound(d, SaveConfig(d, r))
  <1> DEFINE saved == [d.config EXCEPT !.saved = d.config.revision]
             e == [d EXCEPT !.config.saved = d.config.revision]
  <1>1. /\ {"revision", "saved"} \subseteq DOMAIN saved
        /\ saved.revision = d.config.revision /\ saved.saved = d.config.revision
        /\ [saved EXCEPT !.saved = 0] = [d.config EXCEPT !.saved = 0]
    BY DEF Typed
  <1>2. e = [d EXCEPT !.config = saved]
    OBVIOUS
  <1> HIDE DEF saved, e
  <1>3. /\ Fields \subseteq DOMAIN e /\ e.config = saved /\ e.epoch = d.epoch
        /\ e.revision = d.revision /\ e.mqtt = d.mqtt /\ e.ntfy = d.ntfy
        /\ e.seq = d.seq /\ e.lines = d.lines
    BY <1>2 DEF Typed, Fields
  <1>4. Typed(e) /\ Lines(e) = Lines(d) /\ Ahead(d, e) /\ Counted(d, e) /\ Follows(e)
    BY <1>1, <1>3 DEF Typed, Lines, Ahead, Counted, Follows, Content
  <1>5. Sound(d, Doc(Log(e)))
    BY <1>4, WrittenSound
  <1>6. Sound(d, Refused(d))
    BY NothingDone, RefusedSound
  <1> QED
    BY <1>5, <1>6 DEF SaveConfig, e

\* A patch takes effect on the panel too, which the settings do not notice.
LEMMA LiveEffectsIs ==
    ASSUME NEW d, Typed(d), NEW c, NEW n
    PROVE  LET e == LiveEffects(d, c, n)
           IN  /\ Typed(e) /\ Settings(e) = Settings(d) /\ Lines(e) = Lines(d)
               /\ e.revision >= d.revision
  <1> DEFINE Still(e) == /\ Typed(e) /\ Settings(e) = Settings(d) /\ Lines(e) = Lines(d)
                         /\ e.revision >= d.revision
             lit == IF n.brightness # c.brightness
                    THEN Bump([d EXCEPT !.brightness = n.brightness]) ELSE d
             based == IF n.base # c.base \/ n.generator # c.generator
                      THEN Bump([Uncovered(lit) EXCEPT !.base = n.base,
                                                       !.generator = n.generator])
                      ELSE lit
             freed == IF n.night # c.night THEN [based EXCEPT !.held = FALSE] ELSE based
  <1>1. ASSUME NEW e, Still(e), NEW f, Same(e, f)
        PROVE  Still(f) /\ Still(Bump(f))
    <2>1. Still(f) /\ Typed(f)
      BY <1>1 DEF Same
    <2>2. f.revision \in Nat /\ d.revision \in Nat /\ f.revision >= d.revision
      BY <2>1 DEF Typed
    <2>3. /\ Typed(Bump(f)) /\ Settings(Bump(f)) = Settings(f) /\ Lines(Bump(f)) = Lines(f)
          /\ Bump(f).revision = f.revision + 1
      BY <2>1, BumpIs
    <2> QED
      BY <2>1, <2>2, <2>3
  <1>2. Still(d) /\ Same(d, [d EXCEPT !.brightness = n.brightness])
    BY DEF Typed, Same, Fields, Settings, Stores, Lines
  <1> HIDE DEF Still
  <1>3. Still(lit) /\ Typed(lit)
    BY <1>1, <1>2 DEF Still
  <1> HIDE DEF lit
  <1>4. Still(based) /\ Typed(based)
    <2>1. Same(lit, Uncovered(lit))
      BY <1>3, UncoveredIs
    <2>2. Same(Uncovered(lit), [Uncovered(lit) EXCEPT !.base = n.base, !.generator = n.generator])
      BY <2>1 DEF Typed, Same, Fields, Settings, Stores, Lines
    <2>3. Same(lit, [Uncovered(lit) EXCEPT !.base = n.base, !.generator = n.generator])
      BY <2>1, <2>2 DEF Same
    <2> QED
      BY <1>1, <1>3, <2>3 DEF Still
  <1> HIDE DEF based
  <1>5. Still(freed) /\ Typed(freed)
    <2>1. Same(based, [based EXCEPT !.held = FALSE]) /\ Same(based, based)
      BY <1>4 DEF Typed, Same, Fields, Settings, Stores, Lines
    <2> QED
      BY <1>1, <1>4, <2>1 DEF Still
  <1> HIDE DEF freed
  <1>6. Still(Bump([freed EXCEPT !.clock = n.clock]))
    <2>1. Same(freed, [freed EXCEPT !.clock = n.clock])
      BY <1>5 DEF Typed, Same, Fields, Settings, Stores, Lines
    <2> QED
      BY <1>1, <1>5, <2>1
  <1>7. LiveEffects(d, c, n) = IF n.clock # c.clock THEN Bump([freed EXCEPT !.clock = n.clock])
                                                    ELSE freed
    BY DEF LiveEffects, freed, based, lit
  <1> QED
    BY <1>5, <1>6, <1>7 DEF Still

LEMMA PatchedIs ==
    ASSUME NEW d, Typed(d), NEW r, NEW params, NEW style
    PROVE  LET n == Patched(d.config, r, params, style)
           IN  {"revision", "saved"} \subseteq DOMAIN n /\ n.revision = d.config.revision + 1
  <1> DEFINE m == Over(r.set, d.config)
  <1>1. {"revision", "saved"} \subseteq DOMAIN m
    BY DEF Over, Typed
  <1> HIDE DEF m
  <1>2. ASSUME NEW g, NEW k
        PROVE  LET n == [m EXCEPT !.revision = d.config.revision + 1, !.generators = g, !.clock = k]
               IN  {"revision", "saved"} \subseteq DOMAIN n /\ n.revision = d.config.revision + 1
    BY <1>1
  <1>3. PICK g, k : Patched(d.config, r, params, style)
                      = [m EXCEPT !.revision = d.config.revision + 1, !.generators = g, !.clock = k]
    BY DEF Patched, m
  <1> QED
    BY <1>2, <1>3

LEMMA PatchConfigSound ==
    ASSUME NEW d, Typed(d), NEW r
    PROVE  Sound(d, PatchConfig(d, r))
  <1> DEFINE live == IF "ip" \in DOMAIN r.set THEN [d EXCEPT !.ip = r.set["ip"]] ELSE d
             params == ResolveGeneratorParams(r.params)
             style  == ParseClockStyle(r.clock)
             n == Patched(d.config, r, CHOOSE x \in params : TRUE, CHOOSE y \in style : TRUE)
             e == LiveEffects([live EXCEPT !.config = n], d.config, n)
  <1>1. Same(d, live) /\ Same(d, d)
    BY DEF Typed, Same, Fields, Settings, Stores, Lines
  <1>2. {"revision", "saved"} \subseteq DOMAIN n /\ n.revision = d.config.revision + 1
    BY PatchedIs
  <1>3. Sound(d, Refused(live)) /\ Sound(d, Refused(d))
    BY <1>1, RefusedSound
  <1> HIDE DEF live, n
  <1> DEFINE f == [live EXCEPT !.config = n]
  <1>4. /\ Fields \subseteq DOMAIN f /\ f.config = n /\ f.epoch = d.epoch
        /\ f.revision = d.revision /\ f.seq = d.seq /\ f.lines = d.lines
    BY <1>1 DEF Typed, Fields, Same, Settings, Lines
  <1> HIDE DEF f
  <1>5. Typed(f) /\ Lines(f) = Lines(d)
    BY <1>2, <1>4 DEF Typed, Lines
  <1>6. e = LiveEffects(f, d.config, n)
    BY DEF f
  <1> HIDE DEF e
  <1>7. /\ Typed(e) /\ Settings(e) = Settings(f) /\ Lines(e) = Lines(d) /\ e.revision >= d.revision
    BY <1>4, <1>5, <1>6, LiveEffectsIs
  <1>8. e.config.revision > d.config.revision /\ e.epoch = d.epoch
    <2>1. e.config = n /\ e.epoch = d.epoch
      BY <1>4, <1>7 DEF Settings
    <2> QED
      BY <1>2, <2>1 DEF Typed
  <1>9. Sound(d, Doc(Log(Persist(e))))
    BY <1>7, <1>8, PersistSound DEF Ahead
  <1> QED
    BY <1>3, <1>9 DEF PatchConfig, live, n, e

LEMMA StoresSound ==
    ASSUME NEW d, Typed(d), NEW r, NEW b
    PROVE  /\ Sound(d, ClientAdd(d, r)) /\ Sound(d, ClientRotate(d, r))
           /\ Sound(d, ClientRemove(d, r))
           /\ Sound(d, BerryPut(d, r, b)) /\ Sound(d, BerryGet(d, r))
           /\ Sound(d, BerryDelete(d, r)) /\ Sound(d, BerryRun(d, r))
  <1>1. ASSUME NEW e, Typed(e), Settings(e) = Settings(d), Lines(e) = Lines(d),
               e.revision = d.revision
        PROVE  Sound(d, Doc(Log(e)))
    <2>1. /\ e.epoch = d.epoch /\ e.persist = d.persist /\ e.config = d.config
          /\ e.mqtt = d.mqtt /\ e.ntfy = d.ntfy /\ e.revision = d.revision
      BY <1>1 DEF Settings
    <2>2. Ahead(d, e) /\ Counted(d, e) /\ (Follows(d) => Follows(e))
      BY <2>1 DEF Typed, Ahead, Counted, Follows, Content
    <2> QED
      BY <1>1, <2>2, WrittenSound
  <1>2. ASSUME NEW x, NEW y
        PROVE  /\ Sound(d, Doc(Log([d EXCEPT !.secrets = x, !.clients = y])))
               /\ Sound(d, Doc(Log([d EXCEPT !.clients = y])))
               /\ Sound(d, Doc(Log([d EXCEPT !.scripts = y])))
    <2>1. ASSUME NEW e \in {[d EXCEPT !.secrets = x, !.clients = y], [d EXCEPT !.clients = y],
                            [d EXCEPT !.scripts = y]}
          PROVE  /\ Typed(e) /\ Settings(e) = Settings(d) /\ Lines(e) = Lines(d)
                 /\ e.revision = d.revision
      BY <2>1 DEF Typed, Fields, Settings, Lines
    <2> QED
      BY <1>1, <2>1
  <1>3. ASSUME NEW name, NEW scopes
        PROVE  Sound(d, Issue(d, name, scopes))
    BY <1>2 DEF Issue
  <1>4. Sound(d, Refused(d)) /\ Sound(d, Doc(d))
    BY NothingDone, RefusedSound, SameIsDrawn, DocSound
  <1>5. Sound(d, ClientAdd(d, r)) /\ Sound(d, ClientRotate(d, r)) /\ Sound(d, ClientRemove(d, r))
    BY <1>2, <1>3, <1>4 DEF ClientAdd, ClientRotate, ClientRemove
  <1>6. Sound(d, BerryPut(d, r, b)) /\ Sound(d, BerryGet(d, r))
    BY <1>2, <1>4 DEF BerryPut, BerryGet
  <1>7. Sound(d, BerryDelete(d, r)) /\ Sound(d, BerryRun(d, r))
    BY <1>2, <1>4 DEF BerryDelete, BerryRun
  <1> QED
    BY <1>5, <1>6, <1>7

-----------------------------------------------------------------------------
(* The routes of the stand-in itself *)

LEMMA RestartSound ==
    ASSUME NEW d, Typed(d)
    PROVE  Sound(d, Doc(Restart(d)))
  <1> DEFINE e == Restart(d)
  <1>1. Same(d, Uncovered(d))
    BY UncoveredIs
  <1>2. /\ Fields \subseteq DOMAIN e /\ e.config = d.config /\ e.epoch = d.epoch + 1
        /\ e.revision = 0 /\ e.persist = d.persist /\ e.mqtt = d.mqtt /\ e.ntfy = d.ntfy
        /\ Lines(e) = Lines(d)
    BY <1>1 DEF Restart, Same, Typed, Fields, Settings, Lines
  <1> HIDE DEF e
  <1>3. Typed(e) /\ Ahead(d, e) /\ Counted(d, e) /\ (Follows(d) => Follows(e))
    BY <1>2 DEF Typed, Lines, Ahead, Counted, Follows, Content
  <1> QED
    BY <1>2, <1>3 DEF Sound, Doc, e

LEMMA SetPersistSound ==
    ASSUME NEW d, Typed(d), NEW r
    PROVE  Sound(d, Doc(SetPersist(d, r)))
  <1> DEFINE on == [d EXCEPT !.persist = r.on]
             e  == Persist(on)
  <1>1. /\ Typed(on) /\ Lines(on) = Lines(d) /\ Content(on) = Content(d)
        /\ on.epoch = d.epoch /\ on.revision = d.revision
        /\ on.config.revision = d.config.revision
    BY DEF Typed, Fields, Lines, Content
  <1> HIDE DEF on
  <1>2. /\ Typed(e) /\ Lines(e) = Lines(d) /\ Content(e) = Content(d) /\ Follows(e)
        /\ e.epoch = d.epoch /\ e.revision = d.revision
        /\ e.config.revision = d.config.revision
    BY <1>1, PersistIs
  <1>3. Ahead(d, e) /\ Counted(d, e)
    BY <1>2 DEF Ahead, Counted, Typed
  <1> HIDE DEF e
  <1> QED
    BY <1>2, <1>3 DEF Sound, Doc, SetPersist, on, e

-----------------------------------------------------------------------------
(* Whatever is asked *)

Request == {Asked(q) : q \in {x \in Requests : Admitted(x)}}

LEMMA WriteSound ==
    ASSUME NEW d, Typed(d), NEW r, r.op \in Writes,
           r.op = "action" /\ r.valid => r.action \in Actions
    PROVE  Sound(d, Write(d, r))
  <1>1. CASE r.op \in {"scene", "action", "input", "notify"}
    <2>1. r.op = "action" => Sound(d, Action(d, r))
      BY ActionSound DEF Actions
    <2> QED
      BY <1>1, <2>1, SetSceneSound, InputSound, NotifySound DEF Write
  <1>2. CASE r.op \in {"patch", "save", "mqtt", "ntfy"}
    BY <1>2, PatchConfigSound, SaveConfigSound, PutSound DEF Write
  <1>3. CASE r.op \in {"token_add", "token_rotate", "canvas_put", "canvas_patch"}
    BY <1>3, StoresSound, CanvasSound DEF Write
  <1> QED
    BY <1>1, <1>2, <1>3 DEF Writes

\* A body that is missing may change what a save asks, and nothing else.
LEMMA BodySound ==
    ASSUME NEW r \in Request, NEW b, JsonBody(r, b) # {}
    PROVE  LET x == CHOOSE y \in JsonBody(r, b) : TRUE
           IN  x.op = r.op /\ (x.op = "action" /\ x.valid => x.action \in Actions)
  <1> DEFINE x == CHOOSE y \in JsonBody(r, b) : TRUE
  <1>1. "op" \in DOMAIN r /\ (r.op = "action" /\ r.valid => r.action \in Actions)
    BY RequestsAssumption DEF Request, Asked, With
  <1>2. x = r \/ (r.op = "save" /\ x = [r EXCEPT !.want = {}])
    BY DEF JsonBody
  <1> HIDE DEF x
  <1>3. x.op = r.op
    BY <1>1, <1>2
  <1>4. x.op = "action" => x = r
    BY <1>2, <1>3
  <1> QED
    BY <1>1, <1>3, <1>4 DEF x

LEMMA ServeSound ==
    ASSUME NEW d, Typed(d), NEW r \in Request, r.op \notin Open, NEW b
    PROVE  Sound(d, Serve(d, r, b))
  <1>1. r.op \in Operations
    BY RequestsAssumption DEF Request
  <1>2. Sound(d, Refused(d)) /\ Sound(d, Doc(d))
    BY NothingDone, RefusedSound, SameIsDrawn, DocSound
  <1>3. CASE r.op \in {"status", "script_put", "script_get", "script_delete", "script_run",
                       "token_remove", "canvas_delete", "frame"}
    <2>1. CASE r.op \in {"status", "token_remove", "canvas_delete", "frame"}
      BY <1>2, <2>1, StatusSound, StoresSound, CanvasSound, NotifySound DEF Serve, Documents
    <2>2. CASE r.op \in {"script_put", "script_get", "script_delete", "script_run"}
      BY <2>2, StoresSound DEF Serve, Documents
    <2> QED
      BY <1>3, <2>1, <2>2
  <1>4. CASE r.op \in Documents
    BY <1>2, <1>4 DEF Serve, Documents
  <1>5. CASE r.op \in Writes
    <2>1. Serve(d, r, b) = IF JsonBody(r, b) = {} THEN Refused(d)
                              ELSE Write(d, CHOOSE x \in JsonBody(r, b) : TRUE)
      BY <1>5 DEF Serve, Writes, Documents
    <2>2. ASSUME JsonBody(r, b) # {}
          PROVE  Sound(d, Write(d, CHOOSE x \in JsonBody(r, b) : TRUE))
      BY <1>5, <2>2, BodySound, WriteSound
    <2> QED
      BY <1>2, <2>1, <2>2
  <1> QED
    BY <1>1, <1>3, <1>4, <1>5 DEF Operations, Bodiless, Open

LEMMA OutcomeSound ==
    ASSUME Typed(dev), NEW t \in Handlers, req[t] \in Request
    PROVE  Sound(dev, Outcome(t))
  <1>1. CASE req[t].op = "restart"
    BY <1>1, RestartSound DEF Outcome, Open
  <1>2. CASE req[t].op = "persist"
    BY <1>2, SetPersistSound DEF Outcome, Open
  <1>3. CASE req[t].op \notin Open
    BY <1>3, ServeSound DEF Outcome, Open
  <1> QED
    BY <1>1, <1>2, <1>3 DEF Open

-----------------------------------------------------------------------------
(* The invariant *)

Control == /\ pc \in [Handlers -> {"idle", "before", "waiting", "holding", "answering"}]
           /\ req \in [Handlers -> Request \cup {NoRequest}]
           /\ \A t \in Handlers :
                 pc[t] \in {"before", "waiting", "holding"} => req[t] \in Request

\* An answer given is behind the renderer as it is now.
Answers == /\ given \in Seq(Nat \X Nat)
           /\ \A i \in 1..Len(given) : \/ given[i][1] < dev.epoch
                                       \/ given[i][1] = dev.epoch /\ given[i][2] <= dev.revision
           /\ AnswersDistinct

\* A document shown is one before this, or this.
DocumentsShown ==
    /\ \A x \in shown : /\ x = <<x[1], x[2]>> /\ x[1] \in Nat
                        /\ x[1] <= dev.config.revision
                        /\ x[1] = dev.config.revision => x[2] = Content(dev)
    /\ RevisionNames

\* The ring is in order and ends with the last line; the follower is not before it.
InOrder(s) == \A i, j \in 1..Len(s) : i < j => s[i] < s[j]
Ring == /\ InOrder(dev.lines)
        /\ \A i \in 1..Len(dev.lines) : dev.lines[i] <= dev.seq
        /\ cursor \in Nat
        /\ cursor <= dev.seq
        /\ LinesKept

Inv == Typed(dev) /\ Control /\ SavedFollows /\ Answers /\ DocumentsShown /\ Ring

-----------------------------------------------------------------------------
(* What a step does to each part of it *)

LEMMA AnswersStay ==
    ASSUME Typed(dev), Answers, Typed(dev'), Ahead(dev, dev'), UNCHANGED given
    PROVE  Answers'
  <1>1. \A i \in 1..Len(given) : given[i][1] \in Nat /\ given[i][2] \in Nat
    BY DEF Answers
  <1>2. /\ dev.epoch \in Nat /\ dev.revision \in Nat /\ dev'.epoch \in Nat
        /\ dev'.revision \in Nat
    BY DEF Typed
  <1>3. \A i \in 1..Len(given) : \/ given[i][1] < dev'.epoch
                                 \/ given[i][1] = dev'.epoch /\ given[i][2] <= dev'.revision
    <2> TAKE i \in 1..Len(given)
    <2>1. given[i][1] \in Nat /\ given[i][2] \in Nat
      BY <1>1
    <2>2. \/ given[i][1] < dev.epoch
          \/ given[i][1] = dev.epoch /\ given[i][2] <= dev.revision
      BY DEF Answers
    <2>3. \/ dev'.epoch > dev.epoch
          \/ dev'.epoch = dev.epoch /\ dev'.revision >= dev.revision
      BY DEF Ahead
    <2> QED
      BY <1>2, <2>1, <2>2, <2>3
  <1> QED
    BY <1>3 DEF Answers, AnswersDistinct

LEMMA AnswerGiven ==
    ASSUME Typed(dev), Answers, Typed(dev'), dev'.epoch = dev.epoch, dev'.revision > dev.revision,
           given' = Append(given, <<dev'.epoch, dev'.revision>>)
    PROVE  Answers'
  <1> DEFINE new == <<dev'.epoch, dev'.revision>>
             n   == Len(given)
  <1>1. given \in Seq(Nat \X Nat) /\ new \in Nat \X Nat /\ n \in Nat
    BY DEF Typed, Answers
  <1>2. /\ given' \in Seq(Nat \X Nat) /\ Len(given') = n + 1 /\ given'[n + 1] = new
        /\ \A i \in 1..n : given'[i] = given[i]
    BY <1>1
  <1>3. /\ dev.epoch \in Nat /\ dev.revision \in Nat /\ dev'.revision \in Nat
        /\ dev'.epoch = dev.epoch /\ dev'.revision > dev.revision
    BY DEF Typed
  <1>4. \A i \in 1..n : given[i] \in Nat \X Nat
    BY <1>1
  <1>5. ASSUME NEW i \in 1..n
        PROVE  /\ \/ given'[i][1] < dev'.epoch
                  \/ given'[i][1] = dev'.epoch /\ given'[i][2] < dev'.revision
               /\ given'[i] # new
    <2>1. given'[i] = given[i] /\ given[i][1] \in Nat /\ given[i][2] \in Nat
      BY <1>2, <1>4
    <2>2. \/ given[i][1] < dev.epoch
          \/ given[i][1] = dev.epoch /\ given[i][2] <= dev.revision
      BY DEF Answers
    <2>3. \/ given[i][1] < dev'.epoch
          \/ given[i][1] = dev'.epoch /\ given[i][2] < dev'.revision
      BY <1>3, <2>1, <2>2
    <2> QED
      BY <1>3, <2>1, <2>3
  <1>6. \A i, j \in 1..n : given'[i] = given'[j] => i = j
    BY <1>1, <1>2 DEF Answers, AnswersDistinct, IsInjective
  <1>7. DOMAIN given' = 1..(n + 1)
    BY <1>2
  <1>8. AnswersDistinct'
    <2>1. ASSUME NEW i \in 1..(n + 1), NEW j \in 1..(n + 1), given'[i] = given'[j]
          PROVE  i = j
      <3>1. (i \in 1..n \/ i = n + 1) /\ (j \in 1..n \/ j = n + 1)
        BY <1>1
      <3> HIDE DEF new
      <3>2. (i = n + 1 => given'[i] = new) /\ (j = n + 1 => given'[j] = new)
        BY <1>2 DEF new
      <3> QED
        BY <1>5, <1>6, <2>1, <3>1, <3>2
    <2> QED
      BY <1>7, <2>1 DEF AnswersDistinct, IsInjective
  <1>9. \A i \in 1..Len(given') : \/ given'[i][1] < dev'.epoch
                                  \/ given'[i][1] = dev'.epoch /\ given'[i][2] <= dev'.revision
    <2> TAKE i \in 1..Len(given')
    <2>1. CASE i \in 1..n
      BY <1>2, <1>3, <1>4, <1>5, <2>1
    <2>2. CASE i = n + 1
      BY <1>2, <1>3, <2>2
    <2> QED
      BY <1>1, <1>2, <2>1, <2>2
  <1> QED
    BY <1>2, <1>8, <1>9 DEF Answers

LEMMA DocumentsStay ==
    ASSUME Typed(dev), DocumentsShown, Typed(dev'), Counted(dev, dev'),
           shown' \in {shown, shown \cup {<<dev'.config.revision, Content(dev')>>}}
    PROVE  DocumentsShown'
  <1> DEFINE new == <<dev'.config.revision, Content(dev')>>
             n == dev.config.revision
             m == dev'.config.revision
  <1>1. n \in Nat /\ m \in Nat /\ m >= n /\ (m = n => Content(dev') = Content(dev))
    BY DEF Typed, Counted
  <1>2. new = <<new[1], new[2]>> /\ new[1] = m /\ new[2] = Content(dev')
    OBVIOUS
  <1>3. Content(dev)' = Content(dev')
    BY DEF Content
  <1> HIDE DEF new
  <1>4. ASSUME NEW x \in shown'
        PROVE  /\ x = <<x[1], x[2]>> /\ x[1] \in Nat
               /\ x[1] <= m
               /\ x[1] = m => x[2] = Content(dev')
    <2>1. CASE x \in shown
      <3>1. /\ x = <<x[1], x[2]>> /\ x[1] \in Nat /\ x[1] <= n
            /\ x[1] = n => x[2] = Content(dev)
        BY <2>1 DEF DocumentsShown
      <3>2. x[1] <= m /\ (x[1] = m => m = n /\ x[1] = n)
        BY <1>1, <3>1
      <3> QED
        BY <1>1, <3>1, <3>2
    <2>2. CASE x = new
      BY <1>1, <1>2, <2>2
    <2> QED
      BY <2>1, <2>2 DEF new
  <1>5. ASSUME NEW x \in shown', NEW y \in shown', x[1] = y[1]
        PROVE  x = y
    <2>1. CASE x \in shown /\ y \in shown
      BY <1>5, <2>1 DEF DocumentsShown, RevisionNames
    <2>2. CASE x = new \/ y = new
      <3>1. x[1] = m /\ y[1] = m
        BY <1>2, <1>5, <2>2
      <3> QED
        BY <1>4, <3>1
    <2> QED
      BY <2>1, <2>2 DEF new
  <1> QED
    BY <1>3, <1>4, <1>5 DEF DocumentsShown, RevisionNames

\* A new line has a number of its own, and the follower has not been there.
LEMMA RingStays ==
    ASSUME Typed(dev), Ring, Typed(dev'), UNCHANGED <<cursor, got>>,
           Lines(dev') = Lines(dev) \/ Logged(dev, dev')
    PROVE  Ring'
  <1> DEFINE s == dev.lines
             n == Len(s)
             all == Append(s, dev.seq + 1)
  <1>1. s \in Seq(Nat) /\ n \in Nat /\ dev.seq \in Nat /\ cursor \in Nat /\ cursor <= dev.seq
    BY DEF Typed, Ring
  <1>2. /\ \A i, j \in 1..n : i < j => s[i] < s[j]
        /\ \A i \in 1..n : s[i] \in Nat /\ s[i] <= dev.seq /\ (s[i] <= cursor => s[i] \in got)
    BY <1>1 DEF Ring, InOrder, LinesKept, ToSet
  <1>3. CASE Lines(dev') = Lines(dev)
    <2>1. dev'.lines = dev.lines /\ dev'.seq = dev.seq
      BY <1>3 DEF Lines
    <2> QED
      BY <2>1 DEF Ring, LinesKept
  <1>4. CASE Logged(dev, dev')
    <2>1. /\ all \in Seq(Nat) /\ Len(all) = n + 1 /\ all[n + 1] = dev.seq + 1
          /\ \A i \in 1..n : all[i] = s[i]
      BY <1>1
    <2> HIDE DEF all
    <2>2. /\ \A i, j \in 1..(n + 1) : i < j => all[i] < all[j]
          /\ \A i \in 1..(n + 1) : /\ all[i] \in Nat /\ all[i] <= dev.seq + 1
                                   /\ all[i] <= cursor => all[i] \in got
      <3>1. ASSUME NEW i \in 1..n
            PROVE  /\ all[i] \in Nat /\ all[i] < dev.seq + 1 /\ (all[i] <= cursor => all[i] \in got)
        <4>1. all[i] = s[i]
          BY <2>1
        <4>2. s[i] \in Nat /\ s[i] <= dev.seq /\ (s[i] <= cursor => s[i] \in got)
          BY <1>2
        <4> QED
          BY <1>1, <4>1, <4>2
      <3>2. \A i \in 1..(n + 1) : i \in 1..n \/ i = n + 1
        BY <1>1
      <3>3. ~(dev.seq + 1 <= cursor) /\ dev.seq + 1 \in Nat /\ dev.seq + 1 <= dev.seq + 1
        BY <1>1
      <3>4. ASSUME NEW i \in 1..(n + 1), NEW j \in 1..(n + 1), i < j
            PROVE  all[i] < all[j]
        <4>1. i \in 1..n
          BY <1>1, <3>4
        <4>2. CASE j \in 1..n
          BY <1>2, <2>1, <3>4, <4>1, <4>2
        <4>3. CASE j = n + 1
          BY <2>1, <3>1, <4>1, <4>3
        <4> QED
          BY <3>2, <4>2, <4>3
      <3>5. ASSUME NEW i \in 1..(n + 1)
            PROVE  all[i] \in Nat /\ all[i] <= dev.seq + 1 /\ (all[i] <= cursor => all[i] \in got)
        <4>1. CASE i \in 1..n
          BY <1>1, <3>1, <4>1
        <4>2. CASE i = n + 1
          BY <2>1, <3>3, <4>2
        <4> QED
          BY <3>2, <4>1, <4>2
      <3> QED
        BY <3>4, <3>5
    <2>3. /\ dev'.seq = dev.seq + 1 /\ dev'.lines \in {all, Tail(all)}
      BY <1>4 DEF Logged, all
    <2>4. CASE dev'.lines = all
      <3>1. Len(dev'.lines) = n + 1 /\ DOMAIN dev'.lines = 1..(n + 1)
        BY <2>1, <2>4
      <3> QED
        BY <1>1, <2>2, <2>3, <2>4, <3>1 DEF Ring, InOrder, LinesKept, ToSet
    <2>5. CASE dev'.lines = Tail(all)
      <3>1. /\ Len(dev'.lines) = n /\ DOMAIN dev'.lines = 1..n
            /\ \A i \in 1..n : i + 1 \in 1..(n + 1) /\ dev'.lines[i] = all[i + 1]
        BY <1>1, <2>1, <2>5
      <3>2. \A i, j \in 1..n : i < j => dev'.lines[i] < dev'.lines[j]
        <4> TAKE i \in 1..n, j \in 1..n
        <4> HAVE i < j
        <4>1. i + 1 < j + 1
          BY <1>1
        <4> QED
          BY <2>2, <3>1, <4>1
      <3>3. \A i \in 1..n : /\ dev'.lines[i] <= dev.seq + 1
                            /\ dev'.lines[i] <= cursor => dev'.lines[i] \in got
        BY <2>2, <3>1
      <3>4. cursor <= dev.seq + 1
        BY <1>1
      <3> QED
        BY <1>1, <2>3, <3>1, <3>2, <3>3, <3>4 DEF Ring, InOrder, LinesKept, ToSet
    <2> QED
      BY <2>3, <2>4, <2>5
  <1> QED
    BY <1>3, <1>4

-----------------------------------------------------------------------------
(* The log, a page at a time *)

\* A set of numbers that has one has a least one.
LEMMA LeastOf ==
    ASSUME NEW I, I # {}, I \subseteq Nat
    PROVE  Min(I) \in I /\ \A y \in I : Min(I) <= y
  <1> DEFINE R == OpToRel(<, Nat)
  <1>1. IsWellFoundedOn(R, Nat)
    BY NatLessThanWellFounded
  <1>2. \A x, y \in Nat : <<y, x>> \in R <=> y < x
    BY DEF OpToRel
  <1> HIDE DEF R
  <1>3. PICK x \in I : \A y \in I : ~(<<y, x>> \in R)
    BY <1>1, WFMin
  <1>4. \A y \in I : x <= y
    <2> TAKE y \in I
    <2>1. x \in Nat /\ y \in Nat /\ ~(y < x)
      BY <1>2, <1>3
    <2> QED
      BY <2>1
  <1> QED
    BY <1>4 DEF Min

\* A page that has a line begins with the first that is newer.
LEMMA PageIs ==
    ASSUME NEW d, d.lines \in Seq(Nat), NEW after \in Nat, Page(d, after) # << >>
    PROVE  \E first, last \in 1..Len(d.lines) :
              /\ first <= last
              /\ \A i \in 1..Len(d.lines) : i < first => d.lines[i] <= after
              /\ Page(d, after) = SubSeq(d.lines, first, last)
  <1> DEFINE n == Len(d.lines)
             I == {i \in 1..n : d.lines[i] > after}
             first == IF I # {} THEN Min(I) ELSE 0
             left  == n - first + 1
             size  == IF left < LogPage THEN left ELSE LogPage
             last  == first - 1 + size
  <1>1. SelectInSeq(d.lines, LAMBDA s : s > after) = first
    BY DEF SelectInSeq
  <1>2. Page(d, after) = IF first = 0 THEN << >> ELSE SubSeq(d.lines, first, last)
    BY <1>1 DEF Page
  <1>3. n \in Nat /\ \A i \in 1..n : d.lines[i] \in Nat
    OBVIOUS
  <1>4. first # 0
    BY <1>2
  <1>5. I # {} /\ I \subseteq Nat /\ first = Min(I)
    BY <1>4
  <1>6. first \in I /\ \A i \in I : first <= i
    BY <1>5, LeastOf
  <1>7. first \in 1..n
    BY <1>6
  <1>8. \A i \in 1..n : i < first => d.lines[i] <= after
    <2> TAKE i \in 1..n
    <2> HAVE i < first
    <2> HIDE DEF first, I
    <2>1. i \notin I
      BY <1>3, <1>6, <1>7
    <2> USE DEF I
    <2>2. ~(d.lines[i] > after) /\ d.lines[i] \in Nat
      BY <1>3, <2>1
    <2> QED
      BY <2>2
  <1> HIDE DEF first, n
  <1>9. left \in Nat /\ size \in Nat /\ size <= left
    BY <1>3, <1>7, LogAssumption
  <1> HIDE DEF size
  <1>10. last \in Int /\ last <= n
    BY <1>3, <1>7, <1>9
  <1>11. first <= last
    <2>1. ASSUME ~(first <= last)
          PROVE  FALSE
      <3>1. SubSeq(d.lines, first, last) = << >>
        BY <1>7, <1>10, <2>1, SubSeqProperties
      <3> QED
        BY <1>2, <1>4, <3>1
    <2> QED
      BY <2>1
  <1>12. last \in 1..n
    BY <1>3, <1>7, <1>10, <1>11
  <1> HIDE DEF last
  <1> QED
    BY <1>2, <1>4, <1>7, <1>8, <1>11, <1>12 DEF n

LEMMA FollowKeeps ==
    ASSUME Typed(dev), Ring, Follow
    PROVE  Ring'
  <1> DEFINE s == dev.lines
             n == Len(s)
             page == Page(dev, cursor)
  <1>1. s \in Seq(Nat) /\ n \in Nat /\ cursor \in Nat /\ DOMAIN s = 1..n
    BY DEF Typed, Ring
  <1>2. page # << >> /\ cursor' = Last(page) /\ got' = got \cup ToSet(page) /\ dev' = dev
    BY DEF Follow, NextAfter
  <1>3. PICK first \in 1..n, last \in 1..n :
              /\ first <= last
              /\ \A i \in 1..n : i < first => s[i] <= cursor
              /\ page = SubSeq(s, first, last)
    BY <1>1, <1>2, PageIs
  <1>4. /\ Len(page) = last - first + 1 /\ DOMAIN page = 1..(last - first + 1)
        /\ \A i \in 1..(last - first + 1) : page[i] = s[first + i - 1]
    BY <1>1, <1>3
  <1> HIDE DEF page
  <1>5. last - first + 1 \in 1..(last - first + 1) /\ first + (last - first + 1) - 1 = last
    BY <1>1, <1>3
  <1>6. cursor' = s[last]
    BY <1>2, <1>4, <1>5 DEF Last
  <1>7. cursor' \in Nat /\ cursor' <= dev.seq
    BY <1>1, <1>6 DEF Ring
  <1>8. ASSUME NEW i \in 1..n, s[i] <= cursor'
        PROVE  s[i] \in got'
    <2>1. i <= last
      <3>1. last < i => s[last] < s[i]
        BY DEF Ring, InOrder
      <3>2. s[last] \in Nat /\ s[i] \in Nat
        BY <1>1
      <3> QED
        BY <1>1, <1>6, <1>8, <3>1, <3>2
    <2>2. CASE i < first
      BY <1>1, <1>2, <1>3, <2>2 DEF Ring, LinesKept, ToSet
    <2>3. CASE first <= i
      <3>1. i - first + 1 \in 1..(last - first + 1) /\ first + (i - first + 1) - 1 = i
        BY <1>1, <2>1, <2>3
      <3>2. page[i - first + 1] = s[i]
        BY <1>4, <3>1
      <3> QED
        BY <1>2, <1>4, <3>1, <3>2 DEF ToSet
    <2> QED
      BY <1>1, <2>2, <2>3
  <1>9. LinesKept'
    BY <1>1, <1>2, <1>8 DEF LinesKept, ToSet
  <1> QED
    BY <1>2, <1>7, <1>9 DEF Ring, InOrder

-----------------------------------------------------------------------------
(* The steps *)

LEMMA Initially == Init => Inv
  <1> SUFFICES ASSUME Init PROVE Inv
    OBVIOUS
  <1>1. /\ dev = NewDevice /\ pc = [t \in Handlers |-> "idle"]
        /\ req = [t \in Handlers |-> NoRequest] /\ cursor = 0 /\ got = {}
        /\ given = << >> /\ shown = {}
    BY DEF Init
  <1>2. /\ Fields \subseteq DOMAIN dev /\ dev.epoch = 1 /\ dev.revision = 0
        /\ dev.config = NewConfig /\ dev.seq = SeedLines
        /\ dev.lines = [i \in 1..SeedLines |-> i]
    BY <1>1 DEF NewDevice, Fields
  <1>3. /\ {"revision", "saved"} \subseteq DOMAIN dev.config
        /\ dev.config.revision = 0 /\ dev.config.saved = 0
    BY <1>2 DEF NewConfig
  <1>4. /\ dev.lines \in Seq(Nat) /\ Len(dev.lines) = SeedLines /\ SeedLines \in Nat
        /\ DOMAIN dev.lines = 1..SeedLines
        /\ \A i \in 1..SeedLines : dev.lines[i] = i
    BY <1>2, LogAssumption
  <1>5. Typed(dev)
    BY <1>2, <1>3, <1>4 DEF Typed
  <1>6. Control
    BY <1>1 DEF Control
  <1>7. SavedFollows
    BY <1>3 DEF SavedFollows
  <1>8. Answers
    BY <1>1 DEF Answers, AnswersDistinct, IsInjective
  <1>9. DocumentsShown
    BY <1>1 DEF DocumentsShown, RevisionNames
  <1>10. Ring
    <2>1. InOrder(dev.lines) /\ \A i \in 1..Len(dev.lines) : dev.lines[i] <= dev.seq
      BY <1>2, <1>4 DEF InOrder
    <2>2. \A s \in ToSet(dev.lines) : ~(s <= cursor)
      BY <1>1, <1>4 DEF ToSet
    <2>3. 0 <= SeedLines
      BY <1>4
    <2> QED
      BY <1>1, <1>2, <2>1, <2>2, <2>3 DEF Ring, LinesKept
  <1> QED
    BY <1>5, <1>6, <1>7, <1>8, <1>9, <1>10 DEF Inv

\* A step that leaves the device alone and what was learnt of it
LEMMA QuietStep ==
    ASSUME Inv, Control', UNCHANGED <<dev, cursor, got, given, shown>>
    PROVE  Inv'
  <1>1. Typed(dev) /\ SavedFollows /\ Answers /\ DocumentsShown /\ Ring
    BY DEF Inv
  <1>2. Typed(dev') /\ SavedFollows'
    BY <1>1 DEF SavedFollows
  <1>3. Answers' /\ DocumentsShown' /\ Ring'
    BY <1>1 DEF Answers, AnswersDistinct, DocumentsShown, RevisionNames, Ring, LinesKept, Content
  <1>4. Typed(dev)'
    BY <1>2 DEF Typed
  <1> QED
    BY <1>2, <1>3, <1>4 DEF Inv

LEMMA ArriveControl ==
    ASSUME Control, NEW t \in Handlers, Arrive(t)
    PROVE  Control'
  <1>1. PICK r \in Requests :
              /\ Admitted(r)
              /\ req' = [req EXCEPT ![t] = Asked(r)]
              /\ pc' = [pc EXCEPT ![t] = IF OpOf(r.path) = "persist" THEN "before" ELSE "waiting"]
    BY DEF Arrive
  <1>2. Asked(r) \in Request
    BY <1>1 DEF Request
  <1> QED
    BY <1>1, <1>2 DEF Control

\* What is asked of the device when the lock is let go
LEMMA FinishKeeps ==
    ASSUME Inv, NEW t \in Handlers, Finish(t)
    PROVE  Inv'
  <1> DEFINE o == Outcome(t)
  <1>1. Typed(dev) /\ Control /\ SavedFollows /\ Answers /\ DocumentsShown /\ Ring
    BY DEF Inv
  <1>2. /\ pc[t] = "holding" /\ dev' = o.dev
        /\ given' = IF o.told = "applied"
                    THEN Append(given, <<o.dev.epoch, o.dev.revision>>) ELSE given
        /\ shown' = IF o.told = "doc" /\ req[t].op \in {"config", "patch"}
                    THEN shown \cup {<<o.dev.config.revision, Content(o.dev)>>} ELSE shown
        /\ pc' = [pc EXCEPT ![t] = IF req[t].op \in Open THEN "answering" ELSE "idle"]
        /\ req' = [req EXCEPT ![t] = NoRequest]
        /\ UNCHANGED <<cursor, got>>
    BY DEF Finish
  <1>3. Sound(dev, o)
    BY <1>1, <1>2, OutcomeSound DEF Control
  <1> HIDE DEF o
  <1>4. Typed(dev') /\ Ahead(dev, dev') /\ Counted(dev, dev') /\ (Follows(dev) => Follows(dev'))
    BY <1>2, <1>3 DEF Sound
  <1>5. Typed(dev)'
    BY <1>4 DEF Typed
  <1>6. Control'
    BY <1>1, <1>2 DEF Control
  <1>7. SavedFollows'
    BY <1>1, <1>4 DEF SavedFollows, Follows
  <1>8. Answers'
    <2>1. CASE o.told = "applied"
      BY <1>1, <1>2, <1>3, <1>4, <2>1, AnswerGiven DEF Sound
    <2>2. CASE o.told # "applied"
      BY <1>1, <1>2, <1>4, <2>2, AnswersStay
    <2> QED
      BY <2>1, <2>2
  <1>9. DocumentsShown'
    BY <1>1, <1>2, <1>4, DocumentsStay
  <1>10. Ring'
    BY <1>1, <1>2, <1>3, <1>4, RingStays DEF Sound
  <1> QED
    BY <1>5, <1>6, <1>7, <1>8, <1>9, <1>10 DEF Inv

LEMMA LapseKeeps ==
    ASSUME Inv, Lapse
    PROVE  Inv'
  <1>1. Typed(dev) /\ Control /\ SavedFollows /\ Answers /\ DocumentsShown /\ Ring
    BY DEF Inv
  <1>2. /\ dev' = [dev EXCEPT !.lapsed = TRUE]
        /\ UNCHANGED <<pc, req, cursor, got, given, shown>>
    BY DEF Lapse
  <1>3. Same(dev, dev')
    BY <1>1, <1>2 DEF Typed, Same, Fields, Settings, Stores, Lines
  <1>4. /\ Typed(dev') /\ Ahead(dev, dev') /\ Counted(dev, dev') /\ (Follows(dev) => Follows(dev'))
        /\ Lines(dev') = Lines(dev)
    BY <1>1, <1>3, SameIsDrawn, DrawnSound DEF Same
  <1>5. Typed(dev)'
    BY <1>4 DEF Typed
  <1>6. Control'
    BY <1>1, <1>2 DEF Control
  <1>7. SavedFollows'
    BY <1>1, <1>4 DEF SavedFollows, Follows
  <1>8. Answers' /\ DocumentsShown' /\ Ring'
    BY <1>1, <1>2, <1>4, AnswersStay, DocumentsStay, RingStays
  <1> QED
    BY <1>5, <1>6, <1>7, <1>8 DEF Inv

LEMMA Steps == Inv /\ [Next]_vars => Inv'
  <1> SUFFICES ASSUME Inv, [Next]_vars PROVE Inv'
    OBVIOUS
  <1>1. Control /\ Typed(dev) /\ Ring
    BY DEF Inv
  <1>2. ASSUME NEW t \in Handlers, TurnedAway(t)
        PROVE  Inv'
    BY <1>1, <1>2, QuietStep DEF TurnedAway, Control
  <1>3. ASSUME NEW t \in Handlers, Arrive(t)
        PROVE  Inv'
    BY <1>1, <1>3, ArriveControl, QuietStep DEF Arrive
  <1>4. ASSUME NEW t \in Handlers, SendBody(t)
        PROVE  Inv'
    BY <1>1, <1>4, QuietStep DEF SendBody, Control
  <1>5. ASSUME NEW t \in Handlers, ReadBefore(t)
        PROVE  Inv'
    <2>1. Control'
      BY <1>1, <1>5 DEF ReadBefore, Control
    <2> QED
      BY <1>5, <2>1, QuietStep DEF ReadBefore
  <1>6. ASSUME NEW t \in Handlers, TakeLock(t)
        PROVE  Inv'
    <2>1. Control'
      BY <1>1, <1>6 DEF TakeLock, Control
    <2> QED
      BY <1>6, <2>1, QuietStep DEF TakeLock
  <1>7. ASSUME NEW t \in Handlers, Finish(t)
        PROVE  Inv'
    BY <1>7, FinishKeeps
  <1>8. ASSUME NEW t \in Handlers, Answer(t)
        PROVE  Inv'
    <2>1. Control'
      BY <1>1, <1>8 DEF Answer, Control
    <2> QED
      BY <1>8, <2>1, QuietStep DEF Answer
  <1>9. CASE Follow
    <2>1. Ring' /\ UNCHANGED <<dev, pc, req, given, shown>>
      BY <1>1, <1>9, FollowKeeps DEF Follow
    <2>2. Typed(dev)' /\ Control' /\ SavedFollows'
      BY <2>1 DEF Inv, Typed, Control, SavedFollows
    <2>3. Answers' /\ DocumentsShown'
      BY <2>1 DEF Inv, Answers, AnswersDistinct, DocumentsShown, RevisionNames, Content
    <2> QED
      BY <2>1, <2>2, <2>3 DEF Inv
  <1>10. CASE Lapse
    BY <1>10, LapseKeeps
  <1>11. CASE Served \/ UNCHANGED vars
    <2>1. UNCHANGED vars
      BY <1>11 DEF Served
    <2>2. Control' /\ UNCHANGED <<dev, cursor, got, given, shown>>
      BY <1>1, <2>1 DEF vars, Control
    <2> QED
      BY <2>2, QuietStep
  <1> QED
    BY <1>2, <1>3, <1>4, <1>5, <1>6, <1>7, <1>8, <1>9, <1>10, <1>11 DEF Next

LEMMA Invariance == Spec => []Inv
  BY Initially, Steps, PTL DEF Spec

-----------------------------------------------------------------------------
(* An answer names one state of the renderer: no two commands are answered  *)
(* as applied with one epoch and revision, after any number of restarts and *)
(* ended overlays.                                                          *)
THEOREM AppliedOnce == Spec => []AnswersDistinct
  <1>1. Inv => AnswersDistinct
    BY DEF Inv, Answers
  <1> QED
    BY <1>1, Invariance, PTL

(* What expected_revision guards is one document: a settings revision never *)
(* names two contents, whichever of the four writers was in between.        *)
THEOREM OneContentPerRevision == Spec => []RevisionNames
  <1>1. Inv => RevisionNames
    BY DEF Inv, DocumentsShown
  <1> QED
    BY <1>1, Invariance, PTL

(* While writes to flash succeed what is saved is what is set, also after a *)
(* time in which they failed.                                               *)
THEOREM SavedIsCurrent == Spec => []SavedFollows
  <1>1. Inv => SavedFollows
    BY DEF Inv
  <1> QED
    BY <1>1, Invariance, PTL

(* A client that pages through the log loses no line that the ring still    *)
(* has, for any size of ring and page.                                      *)
THEOREM PagingLosesNothing == Spec => []LinesKept
  <1>1. Inv => LinesKept
    BY DEF Inv, Ring
  <1> QED
    BY <1>1, Invariance, PTL

(* A handler that refuses or dies has kept to the panel: the settings, the  *)
(* stores and the revision of the renderer are as they were.                *)
THEOREM RefusalsKeepOut == Spec => RefusalsStayOut
  <1>1. Inv /\ [Next]_vars
          => [\A t \in Handlers : Ends(t, {"refused", "nothing"}) => Kept(dev') = Kept(dev)]_vars
    <2> SUFFICES ASSUME Inv, Next, NEW t \in Handlers, Ends(t, {"refused", "nothing"})
                 PROVE  Kept(dev') = Kept(dev)
      OBVIOUS
    <2>1. Typed(dev) /\ Control
      BY DEF Inv
    <2>2. pc[t] = "holding" /\ pc'[t] # "holding" /\ Outcome(t).told \in {"refused", "nothing"}
      BY DEF Ends
    <2>3. Sound(dev, Outcome(t))
      BY <2>1, <2>2, OutcomeSound DEF Control
    <2>4. CASE Finish(t)
      BY <2>2, <2>3, <2>4 DEF Finish, Sound
    <2>5. CASE \E u \in Handlers : \/ TurnedAway(u) \/ Arrive(u) \/ SendBody(u)
                                   \/ ReadBefore(u) \/ TakeLock(u) \/ Answer(u)
      BY <2>5 DEF TurnedAway, Arrive, SendBody, ReadBefore, TakeLock, Answer, Kept
    <2>6. CASE \E u \in Handlers \ {t} : Finish(u)
      BY <2>1, <2>2, <2>6 DEF Finish, Control
    <2>7. CASE Follow \/ Lapse \/ Served
      BY <2>2, <2>7 DEF Follow, Lapse, Served, vars
    <2> QED
      BY <2>4, <2>5, <2>6, <2>7 DEF Next
  <1> QED
    BY <1>1, Invariance, PTL DEF Spec, RefusalsStayOut

-----------------------------------------------------------------------------
(* The tokens: what a route asks for is never more than what is sent there, *)
(* on any path, and the endpoints of the runs are some of them.             *)

Needs == {None, "read", "control", "admin"}

LEMMA NeedIs ==
    ASSUME NEW method, NEW path
    PROVE  RouteLookup(method, path) \in Needs
  <1>1. ASSUME NEW rest
        PROVE  ScriptNeed(method, rest) \in Needs
    <2>1. /\ Granted([GET |-> "control", PUT |-> "admin", DELETE |-> "admin"], method) \in Needs
          /\ Granted([POST |-> "admin"], method) \in Needs
      BY DEF Granted, Needs
    <2> QED
      BY <2>1 DEF ScriptNeed, Needs
  <1>2. ASSUME NEW rest
        PROVE  TokenNeed(method, rest) \in Needs
    <2>1. /\ Granted([DELETE |-> "admin"], method) \in Needs
          /\ Granted([POST |-> "admin"], method) \in Needs
      BY DEF Granted, Needs
    <2> QED
      BY <2>1 DEF TokenNeed, Needs
  <1>3. ASSUME NEW rest
        PROVE  StreamNeed(method, rest) \in Needs
    BY DEF StreamNeed, Granted, Needs
  <1>4. TableNeed(method, path) \in Needs
    BY DEF TableNeed, Table, Needs
  <1> QED
    BY <1>1, <1>2, <1>3, <1>4 DEF RouteLookup

LEMMA Enough ==
    ASSUME NEW have, NEW need \in Needs, have = "admin" \/ (have = "control" /\ need # "admin")
    PROVE  Suffices(have, need)
  BY DEF Suffices, Authorities, Needs

\* Outside of the families of paths the admin's routes are those of the table.
LEMMA NotTheAdmins ==
    ASSUME NEW method, NEW path, path[1] # "tokens", ~Under(<<"berry", "scripts">>, path),
           <<method, path>> \notin Table.admin
    PROVE  RouteLookup(method, path) # "admin"
  <1>1. ~Under(<<"tokens">>, path)
    BY DEF Under, IsStrictPrefix, IsPrefix
  <1>2. ASSUME NEW rest
        PROVE  StreamNeed(method, rest) # "admin"
    BY DEF StreamNeed, Granted, None
  <1>3. TableNeed(method, path) # "admin"
    BY DEF TableNeed, Table, None
  <1> QED
    BY <1>1, <1>2, <1>3 DEF RouteLookup

LEMMA ConsoleHasEnough ==
    ASSUME NEW method, NEW path
    PROVE  ConsoleAllowed(method, path)
  <1>1. CASE TokenFor(method, path) = "admin"
    BY <1>1, NeedIs, Enough DEF ConsoleAllowed
  <1>2. CASE TokenFor(method, path) # "admin"
    <2>1. /\ ~Under(<<"berry", "scripts">>, path) /\ path[1] # "tokens"
          /\ <<method, path>> \notin AdminRoutes /\ TokenFor(method, path) = "control"
      BY <1>2 DEF TokenFor
    <2>2. <<method, path>> \notin Table.admin
      BY <2>1 DEF Table, AdminRoutes, At
    <2> QED
      BY <2>1, <2>2, NeedIs, NotTheAdmins, Enough DEF ConsoleAllowed
  <1> QED
    BY <1>1, <1>2

LEMMA CommandLineHasEnough == \A q \in CtlRequests : CommandLineAllowed(q)
  <1>1. ASSUME NEW q \in CtlRequests, q.command \notin AdminCommands
        PROVE  /\ q.path[1] \notin {"tokens", "berry"}
               /\ <<q.method, q.path>> \notin Table.admin
    <2>1. q.path[1] \notin {"tokens", "berry"}
      BY <1>1 DEF CtlRequests, Ctl, AdminCommands
    <2>2. <<q.method, q.path>> \notin Table.admin
      BY <1>1 DEF CtlRequests, Ctl, AdminCommands, Table, At
    <2> QED
      BY <2>1, <2>2
  <1>2. ASSUME NEW q \in CtlRequests, q.command \notin AdminCommands
        PROVE  RouteLookup(q.method, q.path) # "admin"
    <2>1. q.path[1] \notin {"tokens", "berry"} /\ <<q.method, q.path>> \notin Table.admin
      BY <1>1, <1>2
    <2>2. ~Under(<<"berry", "scripts">>, q.path)
      BY <2>1 DEF Under, IsStrictPrefix, IsPrefix
    <2> QED
      BY <2>1, <2>2, NotTheAdmins
  <1>3. ASSUME NEW q \in CtlRequests
        PROVE  CommandLineAllowed(q)
    <2>1. RouteLookup(q.method, q.path) \in Needs
      BY NeedIs
    <2>2. CASE q.command \in AdminCommands
      BY <2>1, <2>2, Enough DEF CommandLineAllowed, CtlToken
    <2>3. CASE q.command \notin AdminCommands
      BY <1>2, <2>1, <2>3, Enough DEF CommandLineAllowed, CtlToken
    <2> QED
      BY <2>2, <2>3
  <1> QED
    BY <1>3

(* The three tables of routes agree where they must: no button of the       *)
(* console and no command is refused for want of authority, on any route    *)
(* and for any name that is stored.                                         *)
THEOREM NoButtonIsRefused == Spec => []TokensSuffice
  <1>1. TokensSuffice
    BY ConsoleHasEnough, CommandLineHasEnough DEF TokensSuffice, AllAllowed
  <1> QED
    BY <1>1, PTL
=============================================================================
