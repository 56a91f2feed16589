---------------------------- MODULE ConsoleProofs ----------------------------
(***************************************************************************)
(* The console, its local server and its page.                             *)
(*                                                                         *)
(* The server (ConsoleProxy), for any number of handlers, clocks, writes   *)
(* and ticks.  TokenStore's cache: a pair read is never kept under the     *)
(* mtime of another.  The streams: one whose page left is given up.  The   *)
(* list of clocks: what it names was there not long ago.                   *)
(*                                                                         *)
(* The page (Mirror), for any packets, names, durations and revisions.     *)
(* What a statement does to a replica depends on what it shows, no more;   *)
(* what the device did is told by statements, one to a packet; so a replica*)
(* that lands on a statement's revision went through what the device went  *)
(* through.  The modules share no state and are in one file because their  *)
(* system is one.                                                          *)
(***************************************************************************)
EXTENDS ConsoleProxy, Mirror, SequenceTheorems, WellFoundedInduction, TLAPS

-----------------------------------------------------------------------------
(* The server: the token store                                             *)

(* What a handler has in hand between the look at the mtime, the read and   *)
(* the store.  A write that began since the look has a later mtime, and     *)
(* nothing is read while it lasts.                                          *)
InHand(t) ==
    /\ pc[t] = "loading" => loc[t].mtime \in Int /\ loc[t].mtime <= file.mtime
    /\ pc[t] = "keeping" =>
         /\ loc[t].mtime \in Int /\ loc[t].pair \in Int
         /\ loc[t].mtime <= file.mtime
         /\ loc[t].mtime = file.mtime => file.state # "partial" /\ loc[t].pair = file.pair

Places == {"idle", "hit", "probing", "scanning", "dropping", "listed", "storing", "given", "died",
           "loading", "keeping", "calling", "streaming"}

PcType      == pc \in [Handlers -> Places]
LocFunction == loc = [t \in Handlers |-> loc[t]]

StoreTypes ==
    /\ now \in Int
    /\ file \in [state : {"absent", "partial", "whole"}, mtime : Int, pair : Int]
    /\ kept \in [mtime : Int, pair : Int]

InStore ==
    /\ file.mtime <= now
    /\ kept.mtime <= file.mtime
    /\ kept.mtime = file.mtime => file.state # "partial" /\ kept.pair = file.pair

TokenInv == /\ PcType /\ LocFunction /\ StoreTypes
            /\ InStore /\ \A t \in Handlers : InHand(t)

-----------------------------------------------------------------------------
LEMMA TokenInit == ServerInit => TokenInv
<1>. SUFFICES ASSUME ServerInit PROVE TokenInv OBVIOUS
<1>1. PcType BY DEF ServerInit, PcType, Places
<1>2. StoreTypes BY DEF ServerInit, StoreTypes
<1>3. loc = [t \in Handlers |-> None] BY DEF ServerInit
<1>4. LocFunction BY <1>3, Zenon DEF LocFunction
<1>5. InStore /\ \A t \in Handlers : InHand(t) BY DEF ServerInit, InStore, InHand
<1>. QED BY <1>1, <1>2, <1>4, <1>5 DEF TokenInv

(* A handler that leaves the file and the store alone and does not go into  *)
(* the middle of TokenStore: it goes somewhere else, with other locals.     *)
LEMMA ElsewhereStep ==
  ASSUME TokenInv, NEW t \in Handlers,
         \/ Pick(t) \/ AnswerCall(t)
         \/ OpenStream(t) \/ BreakPipe(t) \/ ReadTimesOut(t) \/ DeviceEnds(t)
  PROVE  TokenInv'
<1>. USE DEF Go, Return, Places
<1>1. UNCHANGED <<now, file, kept>>
  BY DEF Pick, CacheHit, ReadRows, StartProbe, EndProbe, Scan, Drop, List, StoreAt, StoreRows,
         HandOut, Bury, AnswerCall, OpenStream, BreakPipe, ReadTimesOut, DeviceEnds, world, picker, tokens
<1>2. PICK place \in Places : /\ pc' = [pc EXCEPT ![t] = place]
                              /\ place \notin {"loading", "keeping"}
  BY DEF Pick, CacheHit, ReadRows, StartProbe, EndProbe, Scan, Drop, List, StoreAt, StoreRows,
         HandOut, Bury, AnswerCall, OpenStream, BreakPipe, ReadTimesOut, DeviceEnds
<1>3. PICK locals : loc' = [loc EXCEPT ![t] = locals]
  BY DEF Pick, CacheHit, ReadRows, StartProbe, EndProbe, Scan, Drop, List, StoreAt, StoreRows,
         HandOut, Bury, AnswerCall, OpenStream, BreakPipe, ReadTimesOut, DeviceEnds
<1>4. PcType' /\ pc'[t] = place BY <1>2 DEF TokenInv, PcType
<1>5. LocFunction'              BY <1>3 DEF TokenInv, LocFunction
<1>6. StoreTypes' /\ InStore'   BY <1>1 DEF TokenInv, StoreTypes, InStore
<1>7. ASSUME NEW u \in Handlers PROVE InHand(u)'
  <2>1. CASE u = t BY <2>1, <1>2, <1>4 DEF InHand
  <2>2. CASE u # t
    <3>1. pc'[u] = pc[u]   BY <2>2, <1>2 DEF TokenInv, PcType
    <3>2. loc'[u] = loc[u] BY <2>2, <1>3 DEF TokenInv, LocFunction
    <3>. QED BY <3>1, <3>2, <1>1 DEF TokenInv, InHand
  <2>. QED BY <2>1, <2>2
<1>. QED BY <1>4, <1>5, <1>6, <1>7 DEF TokenInv

(* One that notes something about its stream.                               *)
LEMMA StreamingStep ==
  ASSUME TokenInv, NEW t \in Handlers, BrowserLeaves(t) \/ PumpChunk(t)
  PROVE  TokenInv'
<1>1. UNCHANGED <<now, file, kept, pc>> /\ pc[t] = "streaming"
  BY DEF BrowserLeaves, PumpChunk, world, picker, tokens
<1>2. LocFunction' BY DEF TokenInv, LocFunction, BrowserLeaves, PumpChunk
<1>3. \A u \in Handlers \ {t} : loc'[u] = loc[u]
  BY DEF TokenInv, LocFunction, BrowserLeaves, PumpChunk
<1>4. PcType' /\ StoreTypes' /\ InStore' BY <1>1 DEF TokenInv, PcType, StoreTypes, InStore
<1>5. ASSUME NEW u \in Handlers PROVE InHand(u)'
  BY <1>1, <1>3 DEF TokenInv, InHand
<1>. QED BY <1>2, <1>4, <1>5 DEF TokenInv

(* for_host: what is in hand is as old as the mtime it came with.           *)
LEMMA TokenStoreStep ==
  ASSUME TokenInv, NEW t \in Handlers, Stat(t) \/ Load(t) \/ Keep(t)
  PROVE  TokenInv'
<1>. USE DEF Go, Return, Places
<1>1. now' = now /\ file' = file BY DEF Stat, Load, Keep, world, tokens
<1>2. PcType'      BY DEF TokenInv, PcType, Stat, Load, Keep
<1>3. LocFunction'
  <2>1. PICK locals : loc' = [loc EXCEPT ![t] = locals] BY DEF Stat, Load, Keep
  <2>. QED BY <2>1 DEF TokenInv, LocFunction
<1>4. \A u \in Handlers \ {t} : pc'[u] = pc[u]
  BY DEF TokenInv, PcType, Stat, Load, Keep
<1>5. \A u \in Handlers \ {t} : loc'[u] = loc[u]
  BY DEF TokenInv, LocFunction, Stat, Load, Keep
<1>6. StoreTypes' /\ InStore'
  <2>1. CASE Keep(t)
    BY <1>1, <2>1 DEF Keep, MtimeFor, TokenInv, StoreTypes, InStore, InHand
  <2>2. CASE kept' = kept
    BY <1>1, <2>2 DEF TokenInv, StoreTypes, InStore
  <2>. QED BY <2>1, <2>2 DEF Stat, Load, tokens
<1>7. InHand(t)'
  <2>1. CASE Stat(t)
    <3>1. CASE pc'[t] = "loading"
      <4>1. loc'[t] = [mtime |-> file.mtime]
        BY <2>1, <3>1 DEF Stat, TokenInv, PcType, LocFunction
      <4>. QED BY <1>1, <3>1, <4>1 DEF TokenInv, StoreTypes, InHand
    <3>2. CASE pc'[t] # "loading"
      <4>1. pc'[t] = "calling" BY <2>1, <3>2 DEF Stat, TokenInv, PcType
      <4>. QED BY <4>1 DEF InHand
    <3>. QED BY <3>1, <3>2
  <2>2. CASE Load(t)
    <3>1. CASE file.state = "whole"
      <4>1. pc'[t] = "keeping" /\ pc[t] = "loading" BY <2>2, <3>1 DEF Load, TokenInv, PcType
      <4>2. loc'[t] = [mtime |-> loc[t].mtime, pair |-> file.pair]
        BY <2>2, <3>1 DEF Load, TokenInv, LocFunction
      <4>. QED BY <1>1, <3>1, <4>1, <4>2 DEF TokenInv, StoreTypes, InHand
    <3>2. CASE file.state # "whole"
      <4>1. pc'[t] = "idle" BY <2>2, <3>2 DEF Load, TokenInv, PcType
      <4>. QED BY <4>1 DEF InHand
    <3>. QED BY <3>1, <3>2
  <2>3. CASE Keep(t)
    <3>1. pc'[t] = "calling" BY <2>3 DEF Keep, TokenInv, PcType
    <3>. QED BY <3>1 DEF InHand
  <2>. QED BY <2>1, <2>2, <2>3
<1>8. ASSUME NEW u \in Handlers PROVE InHand(u)'
  <2>1. CASE u # t BY <1>1, <1>4, <1>5, <2>1 DEF TokenInv, InHand
  <2>. QED BY <1>7, <2>1
<1>. QED BY <1>2, <1>3, <1>6, <1>8 DEF TokenInv

(* The writer: a write begins under an mtime nobody has seen yet, and ends  *)
(* under that or a later one with nothing of it in anybody's hand.          *)
LEMMA WriterStep ==
  ASSUME TokenInv, StartWrite \/ EndWrite
  PROVE  TokenInv'
<1>1. CASE StartWrite
  BY <1>1 DEF StartWrite, world, TokenInv, PcType, LocFunction, StoreTypes, InStore, InHand
<1>2. CASE EndWrite
  BY <1>2 DEF EndWrite, world, TokenInv, PcType, LocFunction, StoreTypes, InStore, InHand
<1>. QED BY <1>1, <1>2

LEMMA WorldStep ==
  ASSUME TokenInv, DeviceDies \/ Tick \/ \E c \in Clocks : Leave(c) \/ Come(c)
  PROVE  TokenInv'
<1>1. /\ UNCHANGED <<tokens, pc, loc>>
      /\ now' \in Int /\ now <= now'
  BY DEF TokenInv, PcType, LocFunction, StoreTypes, DeviceDies, Tick, Leave, Come
<1>. QED BY <1>1 DEF tokens, TokenInv, PcType, LocFunction, StoreTypes, InStore, InHand

(* What is kept of the token file under the file's own mtime is what the    *)
(* file says (TokenStore.for_host).                                         *)
THEOREM TokensFresh == ServerSpec => []NoStaleToken
<1>1. ServerInit => TokenInv BY TokenInit
<1>2. TokenInv /\ [ServerNext]_server_vars => TokenInv'
  <2>. SUFFICES ASSUME TokenInv, [ServerNext]_server_vars PROVE TokenInv' OBVIOUS
  <2>1. CASE UNCHANGED server_vars
    BY <2>1 DEF server_vars, TokenInv, PcType, LocFunction, StoreTypes, InStore, InHand
  <2>2. ASSUME NEW t \in Handlers, Pick(t) \/ Proxy(t) \/ Stream(t) PROVE TokenInv'
    BY <2>2, ElsewhereStep, StreamingStep, TokenStoreStep DEF Proxy, Stream
  <2>3. CASE StartWrite \/ EndWrite BY <2>3, WriterStep
  <2>4. CASE DeviceDies \/ Tick \/ \E c \in Clocks : Leave(c) \/ Come(c)
    BY <2>4, WorldStep
  <2>. QED BY <2>1, <2>2, <2>3, <2>4 DEF ServerNext
<1>3. TokenInv => NoStaleToken BY DEF TokenInv, InStore, NoStaleToken
<1>. QED BY <1>1, <1>2, <1>3, PTL DEF ServerSpec

-----------------------------------------------------------------------------
\* What a handler does is its own, and takes no time.
LEMMA HandlerStep ==
  ASSUME PcType, LocFunction, NEW t \in Handlers, Pick(t) \/ Proxy(t) \/ Stream(t)
  PROVE  /\ PcType' /\ LocFunction' /\ UNCHANGED <<now, lan, alive>>
         /\ \A u \in Handlers \ {t} : pc'[u] = pc[u] /\ loc'[u] = loc[u]
<1>. USE DEF Go, Return, Places, PcType, LocFunction, world
<1>1. CASE BrowserLeaves(t) \/ PumpChunk(t) BY <1>1 DEF BrowserLeaves, PumpChunk
<1>2. CASE \/ Pick(t) \/ Proxy(t) \/ OpenStream(t) \/ BreakPipe(t) \/ ReadTimesOut(t)
           \/ DeviceEnds(t)
  <2>1. PICK place \in Places : pc' = [pc EXCEPT ![t] = place]
    BY <1>2 DEF Pick, CacheHit, ReadRows, StartProbe, EndProbe, Scan, Drop, List,
       StoreAt, StoreRows, HandOut, Bury, Proxy, Stat, Load, Keep,
       AnswerCall, OpenStream, BreakPipe, ReadTimesOut, DeviceEnds
  <2>2. PICK locals : loc' = [loc EXCEPT ![t] = locals]
    BY <1>2 DEF Pick, CacheHit, ReadRows, StartProbe, EndProbe, Scan, Drop, List,
       StoreAt, StoreRows, HandOut, Bury, Proxy, Stat, Load, Keep,
       AnswerCall, OpenStream, BreakPipe, ReadTimesOut, DeviceEnds
  <2>3. UNCHANGED <<now, lan, alive>>
    BY <1>2 DEF Pick, CacheHit, ReadRows, StartProbe, EndProbe, Scan, Drop, List,
       StoreAt, StoreRows, HandOut, Bury, Proxy, Stat, Load, Keep,
       AnswerCall, OpenStream, BreakPipe, ReadTimesOut, DeviceEnds
  <2>. QED BY <2>1, <2>2, <2>3
<1>. QED BY <1>1, <1>2 DEF Stream

\* Time passes only when nobody has to be done by now.
LEMMA TickWaits ==
  ASSUME PcType, Tick
  PROVE  /\ UNCHANGED <<alive, picker, pc, loc>> /\ now' = now + 1
         /\ \A t \in Handlers :
              /\ pc[t] \notin {"scanning", "dropping", "listed", "storing"}
              /\ pc[t] = "probing" => ~(now - loc[t].asked >= ProbeTimeout)
              /\ pc[t] = "streaming" => ~Quiet(t) /\ (alive => ~(now - loc[t].heard >= KeepAlive))
<1>1. UNCHANGED <<alive, picker, pc, loc>> /\ now' = now + 1 BY DEF Tick
<1>2. ASSUME NEW t \in Handlers
      PROVE  /\ pc[t] \notin {"scanning", "dropping", "listed", "storing"}
             /\ pc[t] = "probing" => ~(now - loc[t].asked >= ProbeTimeout)
             /\ pc[t] = "streaming" => ~Quiet(t) /\ (alive => ~(now - loc[t].heard >= KeepAlive))
  <2>1. ~Pending(t) BY DEF Tick
  <2>2. CASE pc[t] = "probing" BY <2>1, <2>2 DEF Pending
  <2>3. CASE pc[t] = "streaming"
    <3>1. Pending(t) = (\/ alive /\ now - loc[t].heard >= KeepAlive
                        \/ Quiet(t))
      BY <2>3 DEF Pending
    <3>. QED BY <2>1, <2>3, <3>1
  <2>4. CASE pc[t] \in {"scanning", "dropping", "listed", "storing"} BY <2>1, <2>4 DEF Pending
  <2>. QED BY <2>2, <2>3, <2>4
<1>. QED BY <1>1, <1>2

-----------------------------------------------------------------------------
(* What a stream has behind it: its last chunk was there within the read    *)
(* timeout, and within a keepalive while the device is there; a page that   *)
(* left took one more chunk at most.                                        *)
StreamKnown(t) ==
    pc[t] = "streaming" =>
        /\ loc[t] \in [heard : Int, browser : {"here", "left", "reset"}, left : Int]
        /\ loc[t].heard <= now /\ now - loc[t].heard <= StreamTimeout
        /\ alive => now - loc[t].heard <= KeepAlive
        /\ loc[t].browser = "left" => loc[t].heard <= loc[t].left
        /\ loc[t].browser = "reset" => loc[t].heard - loc[t].left <= KeepAlive

StreamInv == PcType /\ LocFunction /\ now \in Int /\ \A t \in Handlers : StreamKnown(t)

LEMMA StreamInit == ServerInit => StreamInv
<1>. SUFFICES ASSUME ServerInit PROVE StreamInv OBVIOUS
<1>1. PcType BY DEF ServerInit, PcType, Places
<1>2. loc = [t \in Handlers |-> None] BY DEF ServerInit
<1>3. LocFunction BY <1>2, Zenon DEF LocFunction
<1>4. now \in Int /\ \A t \in Handlers : StreamKnown(t) BY DEF ServerInit, StreamKnown
<1>. QED BY <1>1, <1>3, <1>4 DEF StreamInv

\* A step of one handler is about its own stream.
LEMMA OwnStream ==
  ASSUME StreamInv, NEW t \in Handlers, Pick(t) \/ Proxy(t) \/ Stream(t), StreamKnown(t)'
  PROVE  StreamInv'
<1>1. /\ PcType' /\ LocFunction' /\ UNCHANGED <<now, alive>>
      /\ \A u \in Handlers \ {t} : pc'[u] = pc[u] /\ loc'[u] = loc[u]
  BY HandlerStep DEF StreamInv
<1>2. \A u \in Handlers \ {t} : StreamKnown(u)' BY <1>1 DEF StreamInv, StreamKnown
<1>. QED BY <1>1, <1>2 DEF StreamInv

\* A stream is opened, a chunk comes, or its page is closed.
LEMMA StreamStep ==
  ASSUME StreamInv, NEW t \in Handlers, Pick(t) \/ Proxy(t) \/ Stream(t)
  PROVE  StreamInv'
<1>0. /\ now \in Int /\ StreamKnown(t) /\ now' = now /\ alive' = alive
      /\ pc \in [Handlers -> Places] /\ loc = [u \in Handlers |-> loc[u]]
      /\ KeepAlive \in Nat /\ StreamTimeout \in Nat
  BY HandlerStep, Durations DEF StreamInv, PcType, LocFunction, Durations
<1>1. CASE OpenStream(t)
  <2>1. loc'[t] = [heard |-> now, browser |-> "here", left |-> 0]
    BY <1>0, <1>1 DEF OpenStream, Go
  <2>2. StreamKnown(t)' BY <1>0, <2>1 DEF StreamKnown
  <2>. QED BY <1>1, <2>2, OwnStream
<1>2. CASE BrowserLeaves(t)
  <2>1. /\ pc[t] = "streaming" /\ pc' = pc
        /\ loc' = [loc EXCEPT ![t].browser = "left", ![t].left = now]
    BY <1>2 DEF BrowserLeaves
  <2>2. loc'[t] = [loc[t] EXCEPT !.browser = "left", !.left = now] BY <1>0, <2>1
  <2>3. loc[t] \in [heard : Int, browser : {"here", "left", "reset"}, left : Int]
    BY <1>0, <2>1 DEF StreamKnown
  <2>4. /\ loc'[t] \in [heard : Int, browser : {"here", "left", "reset"}, left : Int]
        /\ loc'[t].heard = loc[t].heard /\ loc'[t].browser = "left" /\ loc'[t].left = now
    BY <1>0, <2>2, <2>3
  <2>5. StreamKnown(t)' BY <1>0, <2>1, <2>4 DEF StreamKnown
  <2>. QED BY <1>2, <2>5, OwnStream
<1>3. CASE PumpChunk(t)
  <2>1. /\ pc[t] = "streaming" /\ pc' = pc /\ alive /\ loc[t].browser \in {"here", "left"}
        /\ loc' = [loc EXCEPT ![t].heard = now,
                              ![t].browser = IF @ = "left" THEN "reset" ELSE @]
    BY <1>3 DEF PumpChunk, Writable
  <2> DEFINE b == IF loc[t].browser = "left" THEN "reset" ELSE loc[t].browser
  <2>2. loc'[t] = [loc[t] EXCEPT !.heard = now, !.browser = b] BY <1>0, <2>1
  <2>3. loc[t] \in [heard : Int, browser : {"here", "left", "reset"}, left : Int]
    BY <1>0, <2>1 DEF StreamKnown
  <2>4. /\ loc'[t] \in [heard : Int, browser : {"here", "left", "reset"}, left : Int]
        /\ loc'[t].heard = now /\ loc'[t].left = loc[t].left
        /\ loc'[t].browser # "left" /\ (loc'[t].browser = "reset" => loc[t].browser = "left")
    BY <1>0, <2>1, <2>2, <2>3
  <2>5. loc[t].browser = "left" => now - loc[t].left <= KeepAlive
    <3>1. loc[t].heard \in Int /\ loc[t].left \in Int BY <2>3
    <3>2. now - loc[t].heard <= KeepAlive BY <1>0, <2>1 DEF StreamKnown
    <3>3. loc[t].browser = "left" => loc[t].heard <= loc[t].left BY <1>0, <2>1 DEF StreamKnown
    <3>. QED BY <1>0, <3>1, <3>2, <3>3
  <2>6. StreamKnown(t)' BY <1>0, <2>1, <2>4, <2>5 DEF StreamKnown
  <2>. QED BY <1>3, <2>6, OwnStream
<1>4. CASE ~(OpenStream(t) \/ BrowserLeaves(t) \/ PumpChunk(t))
  <2>1. pc'[t] # "streaming"
    BY <1>0, <1>4 DEF Pick, Proxy, Stream, CacheHit, ReadRows, StartProbe, EndProbe, Scan, Drop, List,
       StoreAt, StoreRows, HandOut, Bury, Stat, Load, Keep, AnswerCall, BreakPipe, ReadTimesOut,
       DeviceEnds, Go, Return
  <2>2. StreamKnown(t)' BY <2>1 DEF StreamKnown
  <2>. QED BY <2>2, OwnStream
<1>. QED BY <1>1, <1>2, <1>3, <1>4

\* Time passes, or somebody else does something.
LEMMA StreamWaits ==
  ASSUME StreamInv,
         \/ StartWrite \/ EndWrite \/ DeviceDies \/ Tick \/ UNCHANGED server_vars
         \/ \E c \in Clocks : Leave(c) \/ Come(c)
  PROVE  StreamInv'
<1>1. CASE Tick
  <2>1. /\ alive' = alive /\ pc' = pc /\ loc' = loc /\ now' = now + 1
        /\ \A t \in Handlers : pc[t] = "streaming" =>
               ~Quiet(t) /\ (alive => ~(now - loc[t].heard >= KeepAlive))
    BY <1>1, TickWaits DEF StreamInv
  <2>2. ASSUME NEW t \in Handlers PROVE StreamKnown(t)'
    <3>. SUFFICES ASSUME pc[t] = "streaming" PROVE StreamKnown(t)' BY <2>1 DEF StreamKnown
    <3>1. /\ loc[t] \in [heard : Int, browser : {"here", "left", "reset"}, left : Int]
          /\ loc[t].heard <= now /\ now \in Int
          /\ KeepAlive \in Nat /\ StreamTimeout \in Nat
      BY Durations DEF StreamInv, StreamKnown, Durations
    <3>2. /\ ~(now - loc[t].heard >= StreamTimeout)
          /\ alive => ~(now - loc[t].heard >= KeepAlive)
      BY <2>1 DEF Quiet
    <3> DEFINE h == loc[t].heard
    <3>3. h \in Int BY <3>1
    <3>4. now + 1 - h <= StreamTimeout /\ (alive => now + 1 - h <= KeepAlive) /\ h <= now + 1
      <4>. HIDE DEF h
      <4>1. h <= now /\ ~(now - h >= StreamTimeout) /\ (alive => ~(now - h >= KeepAlive))
        BY <3>1, <3>2 DEF h
      <4>2. ~(now - h >= StreamTimeout) => now + 1 - h <= StreamTimeout BY <3>1, <3>3
      <4>3. ~(now - h >= KeepAlive) => now + 1 - h <= KeepAlive BY <3>1, <3>3
      <4>4. h <= now => h <= now + 1 BY <3>1, <3>3
      <4>. QED BY <4>1, <4>2, <4>3, <4>4
    <3>5. /\ loc[t].browser = "left" => loc[t].heard <= loc[t].left
          /\ loc[t].browser = "reset" => loc[t].heard - loc[t].left <= KeepAlive
      BY DEF StreamInv, StreamKnown
    <3>. QED BY <2>1, <3>1, <3>4, <3>5 DEF StreamKnown
  <2>. QED BY <2>1, <2>2 DEF StreamInv, PcType, LocFunction
<1>2. CASE ~Tick
  <2>1. UNCHANGED <<now, pc, loc>> /\ (alive' => alive)
    BY <1>2 DEF StartWrite, EndWrite, DeviceDies, Leave, Come, world, server_vars
  <2>. QED BY <2>1 DEF StreamInv, PcType, LocFunction, StreamKnown
<1>. QED BY <1>1, <1>2

LEMMA StreamPreserved == StreamInv /\ [ServerNext]_server_vars => StreamInv'
<1>. SUFFICES ASSUME StreamInv, [ServerNext]_server_vars PROVE StreamInv' OBVIOUS
<1>. QED BY StreamStep, StreamWaits DEF ServerNext

(* A page that left does not hold one of the device's slots for longer than *)
(* a keepalive and a read timeout (_proxy_stream).                          *)
THEOREM SlotsComeFree == ServerSpec => []SlotFreed
<1>1. ASSUME StreamInv, NEW t \in Handlers, pc[t] = "streaming" /\ loc[t].browser # "here"
      PROVE  now - loc[t].left <= KeepAlive + StreamTimeout
  <2>1. /\ loc[t] \in [heard : Int, browser : {"here", "left", "reset"}, left : Int]
        /\ now - loc[t].heard <= StreamTimeout /\ now \in Int
        /\ loc[t].browser = "left" => loc[t].heard <= loc[t].left
        /\ loc[t].browser = "reset" => loc[t].heard - loc[t].left <= KeepAlive
    BY <1>1 DEF StreamInv, StreamKnown
  <2>2. KeepAlive \in Nat /\ StreamTimeout \in Nat BY Durations DEF Durations
  <2>3. loc[t].heard - loc[t].left <= KeepAlive
    BY <1>1, <2>1, <2>2
  <2>. QED BY <2>1, <2>2, <2>3
<1>2. StreamInv => SlotFreed BY <1>1 DEF SlotFreed
<1>. QED BY <1>2, StreamInit, StreamPreserved, PTL DEF ServerSpec

-----------------------------------------------------------------------------
(* What the probes have seen, and what a handler makes of it.  No time      *)
(* passes between the end of a probe and its list; what another handler's   *)
(* probe puts in meanwhile is stamped with a start not longer ago than a    *)
(* probe may take, and that is not longer than a clock is remembered.       *)
SeenBefore ==
    /\ DOMAIN seen \subseteq Clocks
    /\ \A c \in DOMAIN seen : seen[c] \in Int /\ seen[c] <= lan[c]

\* Between two stores "at" may be newer than "rows" by any time.
Storing == \E t \in Handlers : pc[t] = "storing"

MemoBefore ==
    /\ memo \in [at : Int, rows : SUBSET Clocks] /\ memo.at <= now
    /\ ~Storing => \A c \in memo.rows : memo.at - lan[c] <= Remember + ProbeTimeout

Dropping == [asked : Int, expired : SUBSET Clocks]

Probed(t) ==
    /\ pc[t] \in {"probing", "scanning", "dropping", "listed", "storing"} =>
         loc[t].asked \in Int /\ loc[t].asked <= now /\ now - loc[t].asked <= ProbeTimeout
    /\ pc[t] = "dropping" =>
         /\ loc[t] \in Dropping
         /\ \A c \in DOMAIN seen \ loc[t].expired : loc[t].asked - seen[c] <= Remember
    /\ pc[t] \in {"listed", "storing"} =>
         /\ loc[t].rows \subseteq Clocks
         /\ \A c \in loc[t].rows : loc[t].asked - lan[c] <= Remember

LanBefore == now \in Int /\ \A c \in Clocks : lan[c] \in Int /\ lan[c] <= now

PickerInv ==
    /\ PcType /\ LocFunction /\ LanBefore /\ SeenBefore /\ MemoBefore
    /\ \A t \in Handlers : Probed(t)

LEMMA Times ==
  /\ Cache \in Nat /\ ProbeTimeout \in Nat /\ Remember \in Nat
  /\ ProbeTimeout <= Remember
  BY Durations DEF Durations

LEMMA PickerInit == ServerInit => PickerInv
<1>. SUFFICES ASSUME ServerInit PROVE PickerInv OBVIOUS
<1>1. PcType BY DEF ServerInit, PcType, Places
<1>2. loc = [t \in Handlers |-> None] BY DEF ServerInit
<1>3. LocFunction BY <1>2, Zenon DEF LocFunction
<1>4. LanBefore /\ SeenBefore BY DEF ServerInit, LanBefore, SeenBefore
<1>5. MemoBefore BY Times DEF ServerInit, MemoBefore
<1>6. \A t \in Handlers : Probed(t) BY DEF ServerInit, Probed
<1>. QED BY <1>1, <1>3, <1>4, <1>5, <1>6 DEF PickerInv

\* What a step of a handler may do to what was seen: forget, or stamp with a
\* start that is not longer ago than a probe may take.
SeenStep ==
    \A c \in DOMAIN seen' : \/ c \in DOMAIN seen /\ seen'[c] = seen[c]
                            \/ seen'[c] \in Int /\ now - seen'[c] <= ProbeTimeout

LEMMA OwnProbe ==
  ASSUME PickerInv, NEW t \in Handlers, Pick(t) \/ Proxy(t) \/ Stream(t),
         SeenBefore', SeenStep, Probed(t)',
         MemoBefore' \/ (memo' = memo /\ pc[t] # "storing")
  PROVE  PickerInv'
<1>1. /\ PcType' /\ LocFunction' /\ UNCHANGED <<now, lan>>
      /\ \A u \in Handlers \ {t} : pc'[u] = pc[u] /\ loc'[u] = loc[u]
  BY HandlerStep DEF PickerInv
<1>2. ASSUME NEW u \in Handlers \ {t} PROVE Probed(u)'
  <2>1. pc'[u] = pc[u] /\ loc'[u] = loc[u] /\ Probed(u) BY <1>1 DEF PickerInv
  <2>2. ASSUME pc[u] = "dropping", NEW c \in DOMAIN seen' \ loc[u].expired
        PROVE  loc[u].asked - seen'[c] <= Remember
    <3>1. loc[u].asked \in Int /\ loc[u].asked <= now /\ now \in Int
      BY <2>1, <2>2 DEF PickerInv, LanBefore, Probed
    <3>2. CASE c \in DOMAIN seen /\ seen'[c] = seen[c] BY <2>1, <2>2, <3>2 DEF Probed
    <3>3. CASE seen'[c] \in Int /\ now - seen'[c] <= ProbeTimeout
      BY <3>1, <3>3, Times
    <3>. QED BY <3>2, <3>3 DEF SeenStep
  <2>. QED BY <1>1, <2>1, <2>2 DEF Probed
<1>3. LanBefore' BY <1>1 DEF PickerInv, LanBefore
<1>4. MemoBefore'
  <2>1. CASE memo' = memo /\ pc[t] # "storing"
    <3>1. Storing => Storing' BY <1>1, <2>1 DEF Storing
    <3>. QED BY <1>1, <2>1, <3>1 DEF PickerInv, MemoBefore
  <2>. QED BY <2>1
<1>. QED BY <1>1, <1>2, <1>3, <1>4 DEF PickerInv

\* discover_clocks, from the probe to the list that is kept.
LEMMA PickStep ==
  ASSUME PickerInv, NEW t \in Handlers, Pick(t)
  PROVE  PickerInv'
<1>0. /\ now \in Int /\ Probed(t) /\ now' = now /\ lan' = lan
      /\ pc \in [Handlers -> Places] /\ loc = [u \in Handlers |-> loc[u]]
      /\ \A c \in Clocks : lan[c] \in Int
  BY HandlerStep DEF PickerInv, PcType, LocFunction, LanBefore
<1>1. CASE seen' = seen /\ memo' = memo /\ pc[t] # "storing"
  <2>1. SeenBefore' /\ SeenStep
    BY <1>0, <1>1 DEF PickerInv, SeenBefore, SeenStep
  <2>2. CASE CacheHit(t) \/ ReadRows(t)
    <3>1. pc'[t] \in {"hit", "given"} BY <1>0, <2>2 DEF CacheHit, ReadRows, Go
    <3>2. Probed(t)' BY <3>1 DEF Probed
    <3>. QED BY <1>1, <2>1, <3>2, OwnProbe
  <2>3. CASE StartProbe(t)
    <3>1. pc'[t] = "probing" /\ loc'[t] = [asked |-> now] BY <1>0, <2>3 DEF StartProbe, Go
    <3>2. Probed(t)' BY <1>0, <3>1, Times DEF Probed
    <3>. QED BY <1>1, <2>1, <3>2, OwnProbe
  <2>4. CASE Scan(t)
    <3>1. CASE pc'[t] = "died"
      <4>1. Probed(t)' BY <3>1 DEF Probed
      <4>. QED BY <1>1, <2>1, <4>1, OwnProbe
    <3>2. CASE pc'[t] # "died"
      <4>1. /\ pc[t] = "scanning" /\ pc'[t] = "dropping"
            /\ loc'[t] = [asked |-> loc[t].asked, expired |-> Expired(loc[t].asked)]
        BY <1>0, <2>4, <3>2 DEF Scan, Go
      <4>2. Expired(loc[t].asked) \subseteq Clocks
        BY DEF Expired, PickerInv, SeenBefore
      <4>3. loc[t].asked \in Int /\ loc[t].asked <= now /\ now - loc[t].asked <= ProbeTimeout
        BY <1>0, <4>1 DEF Probed
      <4>4. ASSUME NEW c \in DOMAIN seen \ Expired(loc[t].asked)
            PROVE  loc[t].asked - seen[c] <= Remember
        <5>1. seen[c] \in Int BY DEF PickerInv, SeenBefore
        <5>2. ~(loc[t].asked - seen[c] > Remember) BY <4>4 DEF Expired
        <5>. QED BY <4>3, <5>1, <5>2, Times
      <4>5. /\ loc'[t] \in Dropping /\ loc'[t].asked = loc[t].asked
            /\ loc'[t].expired = Expired(loc[t].asked)
        BY <4>1, <4>2, <4>3 DEF Dropping
      <4>6. Probed(t)' BY <1>0, <1>1, <4>1, <4>3, <4>4, <4>5 DEF Probed
      <4>. QED BY <1>1, <2>1, <4>6, OwnProbe
    <3>. QED BY <3>1, <3>2
  <2>5. CASE Drop(t)
    <3>1. pc'[t] = "died" \/ (pc[t] = "dropping" /\ \E c \in loc[t].expired : c \in DOMAIN seen
                                /\ seen' = Restrict(seen, DOMAIN seen \ {c}))
      BY <1>0, <2>5 DEF Drop, Go
    <3>2. CASE pc'[t] = "died"
      <4>1. Probed(t)' BY <3>2 DEF Probed
      <4>. QED BY <1>1, <2>1, <4>1, OwnProbe
    <3>3. CASE \E c \in DOMAIN seen : seen' = Restrict(seen, DOMAIN seen \ {c})
      BY <1>1, <3>3 DEF Restrict
    <3>. QED BY <3>1, <3>2, <3>3
  <2>6. CASE List(t)
    <3>1. /\ pc[t] = "dropping" /\ loc[t].expired = {} /\ pc'[t] = "listed"
          /\ loc'[t] = [asked |-> loc[t].asked, rows |-> DOMAIN seen]
      BY <1>0, <2>6 DEF List, Go
    <3>2. /\ loc[t].asked \in Int /\ loc[t].asked <= now /\ now - loc[t].asked <= ProbeTimeout
          /\ \A c \in DOMAIN seen : loc[t].asked - seen[c] <= Remember
      BY <1>0, <3>1 DEF Probed
    <3>3. ASSUME NEW c \in DOMAIN seen PROVE c \in Clocks /\ loc[t].asked - lan[c] <= Remember
      <4>1. c \in Clocks /\ seen[c] \in Int /\ seen[c] <= lan[c] BY DEF PickerInv, SeenBefore
      <4>2. loc[t].asked - seen[c] <= Remember BY <3>2
      <4>. QED BY <1>0, <3>2, <4>1, <4>2, Times
    <3>4. Probed(t)' BY <1>0, <3>1, <3>2, <3>3 DEF Probed
    <3>. QED BY <1>1, <2>1, <3>4, OwnProbe
  <2>7. CASE Bury(t) \/ HandOut(t)
    <3>1. pc'[t] = "idle" BY <1>0, <2>7 DEF Bury, HandOut, Return, Go
    <3>2. Probed(t)' BY <3>1 DEF Probed
    <3>. QED BY <1>1, <2>1, <3>2, OwnProbe
  <2>8. CASE EndProbe(t)
    <3>1. /\ pc[t] = "probing" /\ pc'[t] = "scanning" /\ loc'[t].asked = loc[t].asked
      BY <1>0, <2>8 DEF EndProbe, Go
    <3>2. Probed(t)' BY <1>0, <3>1 DEF Probed
    <3>. QED BY <1>1, <2>1, <3>2, OwnProbe
  <2>9. CASE StoreAt(t)
    <3>1. /\ pc[t] = "listed" /\ pc'[t] = "storing" /\ loc'[t] = loc[t]
      BY <1>0, <2>9 DEF StoreAt, Go
    <3>2. Probed(t)' BY <1>0, <3>1 DEF Probed
    <3>. QED BY <1>1, <2>1, <3>2, OwnProbe
  <2>. QED BY <1>1, <2>2, <2>3, <2>4, <2>5, <2>6, <2>7, <2>8, <2>9 DEF Pick, StoreRows
<1>2. CASE EndProbe(t)
  <2>1. /\ pc[t] = "probing" /\ pc'[t] = "scanning" /\ loc'[t].asked = loc[t].asked
        /\ memo' = memo
    BY <1>0, <1>2 DEF EndProbe, Go
  <2>2. loc[t].asked \in Int /\ loc[t].asked <= now /\ now - loc[t].asked <= ProbeTimeout
    BY <1>0, <2>1 DEF Probed
  <2>3. PICK rows \in SUBSET Found(t) :
          seen' = [c \in DOMAIN seen \cup rows |-> IF c \in rows THEN loc[t].asked ELSE seen[c]]
    BY <1>2 DEF EndProbe
  <2>4. \A c \in rows : c \in Clocks /\ lan[c] >= loc[t].asked BY DEF Found
  <2>5. SeenBefore'
    <3>1. DOMAIN seen' = DOMAIN seen \cup rows BY <2>3
    <3>2. ASSUME NEW c \in DOMAIN seen' PROVE c \in Clocks /\ seen'[c] \in Int /\ seen'[c] <= lan[c]
      <4>1. CASE c \in rows
        <5>1. seen'[c] = loc[t].asked BY <2>3, <4>1
        <5>. QED BY <1>0, <2>2, <2>4, <4>1, <5>1
      <4>2. CASE c \notin rows
        <5>1. c \in DOMAIN seen /\ seen'[c] = seen[c] BY <2>3, <3>1, <4>2
        <5>. QED BY <5>1 DEF PickerInv, SeenBefore
      <4>. QED BY <4>1, <4>2
    <3>. QED BY <1>0, <3>2 DEF SeenBefore
  <2>6. SeenStep BY <2>2, <2>3 DEF SeenStep
  <2>8. Probed(t)' BY <1>0, <2>1, <2>2 DEF Probed
  <2>. QED BY <2>1, <2>5, <2>6, <2>8, OwnProbe
<1>3. CASE Drop(t)
  <2>1. CASE seen' = seen BY <1>1, <1>3, <2>1 DEF Drop
  <2>2. CASE seen' # seen
    <3>1. PICK c \in loc[t].expired :
            /\ c \in DOMAIN seen
            /\ seen' = Restrict(seen, DOMAIN seen \ {c})
            /\ Go(t, "dropping", [loc[t] EXCEPT !.expired = @ \ {c}])
      BY <1>3, <2>2 DEF Drop
    <3>2. /\ pc[t] = "dropping" /\ pc'[t] = "dropping" /\ memo' = memo
          /\ loc'[t] = [loc[t] EXCEPT !.expired = @ \ {c}]
      BY <1>0, <1>3, <3>1 DEF Drop, Go
    <3>3. /\ DOMAIN seen' = DOMAIN seen \ {c}
          /\ \A d \in DOMAIN seen \ {c} : seen'[d] = seen[d]
      BY <3>1 DEF Restrict
    <3>4. /\ loc[t] \in Dropping /\ loc[t].asked <= now /\ now - loc[t].asked <= ProbeTimeout
          /\ \A d \in DOMAIN seen \ loc[t].expired : loc[t].asked - seen[d] <= Remember
      BY <1>0, <3>2 DEF Probed
    <3>5. /\ loc'[t] \in Dropping /\ loc'[t].asked = loc[t].asked
          /\ loc'[t].expired = loc[t].expired \ {c}
      BY <3>2, <3>4 DEF Dropping
    <3>6. \A d \in DOMAIN seen' \ loc'[t].expired : loc'[t].asked - seen'[d] <= Remember
      BY <3>3, <3>4, <3>5
    <3>7. loc'[t].asked \in Int BY <3>4, <3>5 DEF Dropping
    <3>8. Probed(t)' BY <1>0, <3>2, <3>4, <3>5, <3>6, <3>7 DEF Probed
    <3>9. SeenBefore' /\ SeenStep
      BY <1>0, <3>2, <3>3 DEF PickerInv, SeenBefore, SeenStep
    <3>. QED BY <3>2, <3>8, <3>9, OwnProbe
  <2>. QED BY <2>1, <2>2
<1>4. CASE StoreAt(t)
  <2>1. /\ pc[t] = "listed" /\ pc'[t] = "storing" /\ loc'[t] = loc[t] /\ seen' = seen
        /\ memo' = [memo EXCEPT !.at = loc[t].asked]
    BY <1>0, <1>4 DEF StoreAt, Go
  <2>2. loc[t].asked \in Int /\ loc[t].asked <= now BY <1>0, <2>1 DEF Probed
  <2>3. memo' \in [at : Int, rows : SUBSET Clocks] /\ memo'.at <= now'
    BY <1>0, <2>1, <2>2 DEF PickerInv, MemoBefore
  <2>4. Storing' BY <2>1 DEF Storing
  <2>5. SeenBefore' /\ SeenStep BY <1>0, <2>1 DEF PickerInv, SeenBefore, SeenStep
  <2>6. Probed(t)' BY <1>0, <2>1 DEF Probed
  <2>. QED BY <2>3, <2>4, <2>5, <2>6, OwnProbe DEF MemoBefore
<1>5. CASE StoreRows(t)
  <2>1. /\ pc[t] = "storing" /\ pc'[t] = "given" /\ seen' = seen
        /\ memo' = [memo EXCEPT !.rows = loc[t].rows]
    BY <1>0, <1>5 DEF StoreRows, Go
  <2>2. /\ loc[t].asked \in Int /\ now - loc[t].asked <= ProbeTimeout
        /\ loc[t].rows \subseteq Clocks
        /\ \A c \in loc[t].rows : loc[t].asked - lan[c] <= Remember
    BY <1>0, <2>1 DEF Probed
  <2>3. /\ memo' \in [at : Int, rows : SUBSET Clocks] /\ memo'.at = memo.at
        /\ memo.at \in Int /\ memo.at <= now /\ memo'.rows = loc[t].rows
    BY <2>1, <2>2 DEF PickerInv, MemoBefore
  <2>4. ASSUME NEW c \in loc[t].rows PROVE memo.at - lan[c] <= Remember + ProbeTimeout
    <3>1. c \in Clocks /\ loc[t].asked - lan[c] <= Remember BY <2>2
    <3>. QED BY <1>0, <2>2, <2>3, <3>1, Times
  <2>5. MemoBefore' BY <1>0, <2>3, <2>4 DEF MemoBefore
  <2>6. SeenBefore' /\ SeenStep BY <1>0, <2>1 DEF PickerInv, SeenBefore, SeenStep
  <2>7. Probed(t)' BY <2>1 DEF Probed
  <2>. QED BY <2>5, <2>6, <2>7, OwnProbe
<1>6. \/ seen' = seen /\ memo' = memo /\ pc[t] # "storing"
      \/ EndProbe(t) \/ Drop(t) \/ StoreAt(t) \/ StoreRows(t)
  BY DEF Pick, CacheHit, ReadRows, StartProbe, Scan, List, HandOut, Bury, picker
<1>. QED BY <1>1, <1>2, <1>3, <1>4, <1>5, <1>6

\* The calls and the streams have nothing to do with the list.
LEMMA ProxyStep ==
  ASSUME PickerInv, NEW t \in Handlers, Proxy(t) \/ Stream(t)
  PROVE  PickerInv'
<1>0. /\ lan' = lan /\ pc \in [Handlers -> Places]
      /\ seen' = seen /\ memo' = memo /\ pc[t] # "storing"
  BY HandlerStep DEF PickerInv, PcType, Proxy, Stream, Stat, Load, Keep, AnswerCall, OpenStream,
     BrowserLeaves, PumpChunk, BreakPipe, ReadTimesOut, DeviceEnds, picker
<1>1. pc'[t] \notin {"probing", "scanning", "dropping", "listed", "storing"}
  BY <1>0 DEF Proxy, Stream, Stat, Load, Keep, AnswerCall, OpenStream, BrowserLeaves, PumpChunk,
     BreakPipe, ReadTimesOut, DeviceEnds, Go, Return
<1>2. Probed(t)' BY <1>1 DEF Probed
<1>3. SeenBefore' /\ SeenStep
  BY <1>0 DEF PickerInv, SeenBefore, SeenStep
<1>. QED BY <1>0, <1>2, <1>3, OwnProbe

\* A clock that comes, or time that passes, only makes it later that it was there.
LEMMA LaterStep ==
  ASSUME PickerInv, UNCHANGED <<seen, memo, pc, loc>>, LanBefore',
         \A c \in Clocks : lan[c] <= lan'[c],
         \/ now' = now
         \/ /\ now' = now + 1
            /\ \A t \in Handlers :
                 /\ pc[t] \notin {"scanning", "dropping", "listed", "storing"}
                 /\ pc[t] = "probing" => ~(now - loc[t].asked >= ProbeTimeout)
  PROVE  PickerInv'
<1>0. /\ \A c \in Clocks : lan[c] \in Int /\ lan'[c] \in Int /\ lan[c] <= lan'[c]
      /\ now \in Int
  BY DEF PickerInv, LanBefore
<1>1. PcType' /\ LocFunction' BY DEF PickerInv, PcType, LocFunction
<1>2. \A x, y, z \in Int :
        /\ x <= y => (z - x <= Remember => z - y <= Remember)
        /\ x <= y => (z - x <= Remember + ProbeTimeout => z - y <= Remember + ProbeTimeout)
        /\ z <= x /\ x <= y => z <= y
  BY Times
<1>3. SeenBefore'
  <2>1. ASSUME NEW c \in DOMAIN seen PROVE c \in Clocks /\ seen[c] \in Int /\ seen[c] <= lan'[c]
    <3>1. c \in Clocks /\ seen[c] \in Int /\ seen[c] <= lan[c] BY DEF PickerInv, SeenBefore
    <3>. QED BY <1>0, <1>2, <3>1
  <2>. QED BY <2>1 DEF SeenBefore
<1>4. MemoBefore'
  <2>1. ASSUME ~Storing, NEW c \in memo.rows
        PROVE  memo.at - lan'[c] <= Remember + ProbeTimeout
    <3>1. c \in Clocks /\ memo.at \in Int /\ memo.at - lan[c] <= Remember + ProbeTimeout
      BY <2>1 DEF PickerInv, MemoBefore
    <3>. QED BY <1>0, <1>2, <3>1
  <2>2. memo \in [at : Int, rows : SUBSET Clocks] /\ memo.at <= now BY DEF PickerInv, MemoBefore
  <2>3. memo.at <= now' BY <1>0, <2>2
  <2>. QED BY <2>1, <2>2, <2>3 DEF MemoBefore, Storing
<1>5. ASSUME NEW t \in Handlers PROVE Probed(t)'
  <2>0. Probed(t) BY DEF PickerInv
  <2>1. CASE pc[t] = "probing"
    <3>1. loc[t].asked \in Int /\ loc[t].asked <= now /\ now - loc[t].asked <= ProbeTimeout
      BY <2>0, <2>1 DEF Probed
    <3> DEFINE a == loc[t].asked
    <3>2. a <= now' /\ now' - a <= ProbeTimeout
      <4>1. CASE now' = now BY <3>1, <4>1
      <4>2. CASE now' = now + 1 /\ ~(now - a >= ProbeTimeout)
        <5>1. a \in Int /\ a <= now BY <3>1
        <5>. HIDE DEF a
        <5>. QED BY <1>0, <4>2, <5>1, Times
      <4>. QED BY <2>1, <4>1, <4>2
    <3>. QED BY <2>1, <3>1, <3>2 DEF Probed
  <2>2. CASE pc[t] \in {"scanning", "dropping", "listed", "storing"}
    <3>1. now' = now BY <2>2
    <3>2. pc[t] \in {"listed", "storing"} =>
            \A c \in loc[t].rows : loc[t].asked - lan'[c] <= Remember
      <4>. SUFFICES ASSUME pc[t] \in {"listed", "storing"}, NEW c \in loc[t].rows
                    PROVE  loc[t].asked - lan'[c] <= Remember
        OBVIOUS
      <4>1. c \in Clocks /\ loc[t].asked \in Int /\ loc[t].asked - lan[c] <= Remember
        BY <2>0 DEF Probed
      <4>. QED BY <1>0, <1>2, <4>1
    <3>. QED BY <2>0, <3>1, <3>2 DEF Probed
  <2>3. CASE pc[t] \notin {"probing", "scanning", "dropping", "listed", "storing"}
    BY <2>3 DEF Probed
  <2>. QED BY <2>1, <2>2, <2>3
<1>. QED BY <1>1, <1>3, <1>4, <1>5 DEF PickerInv

LEMMA LanStep ==
  ASSUME PickerInv,
         \/ StartWrite \/ EndWrite \/ DeviceDies \/ Tick \/ UNCHANGED server_vars
         \/ \E c \in Clocks : Leave(c) \/ Come(c)
  PROVE  PickerInv'
<1>0. now \in Int /\ \A c \in Clocks : lan[c] \in Int /\ lan[c] <= now
  BY DEF PickerInv, LanBefore
<1>1. CASE Tick
  <2>1. /\ UNCHANGED <<seen, memo, pc, loc>> /\ now' = now + 1
        /\ \A t \in Handlers :
             /\ pc[t] \notin {"scanning", "dropping", "listed", "storing"}
             /\ pc[t] = "probing" => ~(now - loc[t].asked >= ProbeTimeout)
    BY <1>1, TickWaits DEF PickerInv, picker
  <2>2. \A c \in Clocks : lan'[c] \in {lan[c], now + 1} BY <1>1 DEF Tick
  <2>3. LanBefore' /\ \A c \in Clocks : lan[c] <= lan'[c]
    BY <1>0, <2>1, <2>2 DEF LanBefore
  <2>. QED BY <2>1, <2>3, LaterStep
<1>2. ASSUME NEW c \in Clocks, Come(c) PROVE PickerInv'
  <2>1. UNCHANGED <<seen, memo, pc, loc>> /\ now' = now
    BY <1>2 DEF Come, picker
  <2>2. lan' = [lan EXCEPT ![c] = now] BY <1>2 DEF Come
  <2>3. \A d \in Clocks : lan'[d] \in {lan[d], now}
    BY <1>0, <2>2
  <2>4. LanBefore' /\ \A d \in Clocks : lan[d] <= lan'[d]
    BY <1>0, <2>1, <2>3 DEF LanBefore
  <2>. QED BY <2>1, <2>4, LaterStep
<1>3. CASE StartWrite \/ EndWrite \/ DeviceDies \/ (UNCHANGED server_vars) \/ \E c \in Clocks : Leave(c)
  <2>1. UNCHANGED <<seen, memo, pc, loc, now, lan>>
    BY <1>3 DEF StartWrite, EndWrite, DeviceDies, Leave, world, picker, server_vars
  <2>2. LanBefore' /\ \A c \in Clocks : lan[c] <= lan'[c] BY <1>0, <2>1 DEF LanBefore
  <2>. QED BY <2>1, <2>2, LaterStep
<1>. QED BY <1>1, <1>2, <1>3

LEMMA PickerPreserved == PickerInv /\ [ServerNext]_server_vars => PickerInv'
<1>. SUFFICES ASSUME PickerInv, [ServerNext]_server_vars PROVE PickerInv' OBVIOUS
<1>. QED BY PickStep, ProxyStep, LanStep DEF ServerNext

(* What a list names was there not longer ago than clocks are remembered    *)
(* and a probe takes; and what is kept of a list, whenever nobody is between *)
(* its two stores, not longer than the cache adds (discover_clocks).        *)
THEOREM ListsAreRecent == ServerSpec => []ListedRecently
<1>1. ASSUME PickerInv, NEW t \in Handlers, pc[t] \in {"listed", "storing"}, NEW c \in loc[t].rows
      PROVE  now - lan[c] <= Remember + ProbeTimeout
  <2>1. /\ c \in Clocks /\ loc[t].asked \in Int /\ now - loc[t].asked <= ProbeTimeout
        /\ loc[t].asked - lan[c] <= Remember
    BY <1>1 DEF PickerInv, Probed
  <2>2. now \in Int /\ lan[c] \in Int BY <1>1, <2>1 DEF PickerInv, LanBefore
  <2>. QED BY <2>1, <2>2, Times
<1>2. ASSUME PickerInv, ~Storing, now - memo.at < Cache, NEW c \in memo.rows
      PROVE  now - lan[c] <= Remember + ProbeTimeout + Cache
  <2>1. c \in Clocks /\ memo.at \in Int /\ memo.at - lan[c] <= Remember + ProbeTimeout
    BY <1>2 DEF PickerInv, MemoBefore
  <2>2. now \in Int /\ lan[c] \in Int BY <1>2, <2>1 DEF PickerInv, LanBefore
  <2>. QED BY <1>2, <2>1, <2>2, Times
<1>3. PickerInv => ListedRecently BY <1>1, <1>2 DEF ListedRecently, Storing
<1>. QED BY <1>3, PickerInit, PickerPreserved, PTL DEF ServerSpec

-----------------------------------------------------------------------------
(* Least numbers, which take the place of induction *)

\* A set of numbers that has one has a least one.
LEMMA Least ==
    ASSUME NEW I, I # {}, I \subseteq Nat
    PROVE  \E x \in I : \A y \in I : x <= y
  <1> DEFINE R == OpToRel(<, Nat)
  <1>1. IsWellFoundedOn(R, Nat)
    BY NatLessThanWellFounded
  <1>2. \A x, y \in Nat : <<y, x>> \in R <=> y < x
    BY DEF OpToRel
  <1> HIDE DEF R
  <1>3. \E m \in I : \A y \in I : ~(<<y, m>> \in R)
    BY <1>1, WFMin
  <1>4. ASSUME NEW m \in I, \A y \in I : ~(<<y, m>> \in R)
        PROVE  \A y \in I : m <= y
    <2>1. SUFFICES ASSUME NEW y \in I
                   PROVE  m <= y
      OBVIOUS
    <2>2. m \in Nat /\ y \in Nat /\ ~(y < m)
      BY <1>2, <1>4
    <2> QED
      BY <2>2
  <1> QED
    BY <1>3, <1>4

\* The numbers 0..n, of which S has the first, and the next to each it has.
LEMMA Climb ==
    ASSUME NEW n \in Nat, NEW S, 0 \in S, \A i \in 1..n : i - 1 \in S => i \in S
    PROVE  \A i \in 0..n : i \in S
  <1> DEFINE I == {i \in 0..n : i \notin S}
  <1>1. CASE I # {}
    <2>0. I \subseteq Nat
      OBVIOUS
    <2> HIDE DEF I
    <2>1. PICK x \in I : \A y \in I : x <= y
      BY <1>1, <2>0, Least
    <2> USE DEF I
    <2>2. x \in 1..n /\ x - 1 \in 0..n /\ ~(x <= x - 1)
      BY <2>1
    <2>3. x - 1 \in S
      BY <2>1, <2>2
    <2> QED
      BY <2>1, <2>2, <2>3
  <1>2. CASE I = {}
    BY <1>2
  <1> QED
    BY <1>1, <1>2

-----------------------------------------------------------------------------
(* Notifications that wait *)

\* An arbiter; how many notifications may wait is of no matter here.
Arb ==
    [base : Bases, generator : Generators, style : Styles, power : BOOLEAN,
     kind : {"none", "notify", "raw", "arming"}, note : Notes, left : Nat, since : Nat,
     soft : BOOLEAN, waiting : Seq(Notes), document : BOOLEAN, revision : Nat,
     dirty : BOOLEAN, pending : BOOLEAN, outgoing : BOOLEAN]

\* What leaves takes its place with it, and everything else moves up.
LEMMA Removed ==
    ASSUME NEW s \in Seq(Notes), NEW i \in 1..Len(s)
    PROVE  /\ RemoveAt(s, i) \in Seq(Notes)
           /\ Len(RemoveAt(s, i)) = Len(s) - 1
           /\ \A j \in 1..Len(s) - 1 : RemoveAt(s, i)[j] = IF j < i THEN s[j] ELSE s[j + 1]
  <1> DEFINE left == SubSeq(s, 1, i - 1)
             right == SubSeq(s, i + 1, Len(s))
  <1>1. Len(s) \in Nat /\ \A j \in 1..Len(s) : s[j] \in Notes
    BY LenProperties, ElementOfSeq
  <1>2. /\ left \in Seq(Notes) /\ Len(left) = i - 1
        /\ \A j \in 1..i - 1 : left[j] = s[j]
    <2>1. \A j \in 1..i - 1 : s[j] \in Notes
      BY <1>1
    <2>2. 1 \in Int /\ i - 1 \in Int
      BY <1>1
    <2> HIDE DEF left
    <2>3. /\ left \in Seq(Notes) /\ Len(left) = (IF 1 <= i - 1 THEN i - 1 - 1 + 1 ELSE 0)
          /\ \A j \in 1..i - 1 - 1 + 1 : left[j] = s[1 + j - 1]
      BY <2>1, <2>2, SubSeqProperties DEF left
    <2> QED
      BY <2>3, <1>1
  <1>3. /\ right \in Seq(Notes) /\ Len(right) = Len(s) - i
        /\ \A j \in 1..Len(s) - i : right[j] = s[i + j]
    <2>1. \A j \in i + 1..Len(s) : s[j] \in Notes
      BY <1>1
    <2>2. i + 1 \in Int /\ Len(s) \in Int
      BY <1>1
    <2> HIDE DEF right
    <2>3. /\ right \in Seq(Notes)
          /\ Len(right) = (IF i + 1 <= Len(s) THEN Len(s) - (i + 1) + 1 ELSE 0)
          /\ \A j \in 1..Len(s) - (i + 1) + 1 : right[j] = s[i + 1 + j - 1]
      BY <2>1, <2>2, SubSeqProperties DEF right
    <2> QED
      BY <2>3, <1>1
  <1> HIDE DEF left, right
  <1>4. /\ left \o right \in Seq(Notes)
        /\ Len(left \o right) = Len(left) + Len(right)
        /\ \A j \in 1..Len(left) + Len(right) : (left \o right)[j] =
                IF j <= Len(left) THEN left[j] ELSE right[j - Len(left)]
    BY <1>2, <1>3, ConcatProperties
  <1>5. RemoveAt(s, i) = left \o right
    BY DEF RemoveAt, left, right
  <1>6. Len(RemoveAt(s, i)) = Len(s) - 1 /\ i \in Nat
    BY <1>1, <1>2, <1>3, <1>4, <1>5
  <1>7. ASSUME NEW j \in 1..Len(s) - 1, j < i
        PROVE  RemoveAt(s, i)[j] = s[j]
    BY <1>1, <1>2, <1>3, <1>4, <1>5, <1>7
  <1>8. ASSUME NEW j \in 1..Len(s) - 1, ~(j < i)
        PROVE  RemoveAt(s, i)[j] = s[j + 1]
    <2>1. RemoveAt(s, i)[j] = right[j - (i - 1)]
      BY <1>1, <1>2, <1>3, <1>4, <1>5, <1>8
    <2>2. j - (i - 1) \in 1..Len(s) - i /\ i + (j - (i - 1)) = j + 1
      BY <1>1, <1>6, <1>8
    <2> QED
      BY <2>1, <2>2, <1>3
  <1> QED
    BY <1>4, <1>5, <1>6, <1>7, <1>8

Named(s, name)   == {i \in 1..Len(s) : s[i].name = name}
Without(s, name) == RemoveAt(s, Min(Named(s, name)))

\* The first of a name that leaves has a place.
LEMMA FirstNamed ==
    ASSUME NEW s \in Seq(Notes), NEW name, Named(s, name) # {}
    PROVE  Min(Named(s, name)) \in 1..Len(s)
  <1>1. Named(s, name) \subseteq Nat
    BY LenProperties DEF Named
  <1>2. \E x \in Named(s, name) : \A y \in Named(s, name) : x <= y
    BY <1>1, Least
  <1>3. Min(Named(s, name)) \in Named(s, name)
    BY <1>2 DEF Min
  <1> QED
    BY <1>3 DEF Named

LEMMA FirstMatchIs ==
    ASSUME NEW s \in Seq(Notes), NEW name, \E i \in DOMAIN s : s[i].name = name
    PROVE  /\ RemoveFirstMatch(s, LAMBDA n : n.name = name) = Without(s, name)
           /\ Named(s, name) # {}
  <1>1. DOMAIN s = 1..Len(s)
    BY LenProperties
  <1> QED
    BY <1>1 DEF RemoveFirstMatch, SelectInSeq, Without, Named

-----------------------------------------------------------------------------
(* What a statement says of scene and overlay *)

Overlays == [kind : {"none", "notify", "raw", "arming"}, note : Notes, waiting : Seq(Notes)]
Pictured == [base : Bases, generator : Generators, style : Styles]

\* The commands of packets, and what ends by itself.
Said    == {c \in Commands : c.op \notin {"stream", "overlay_expired"}}
Expiry == [op |-> "overlay_expired"]
Told    == Said \cup {Expiry}

SceneAfter(sc, c) ==
    CASE c.op = "set_base"         -> [sc EXCEPT !.base = c.base]
      [] c.op = "select_generator" -> [sc EXCEPT !.generator = c.generator]
      [] c.op = "set_clock_style"  -> [sc EXCEPT !.style = c.style]
      [] OTHER                     -> sc

Bare(kind) == [kind |-> kind, note |-> NoNote, waiting |-> <<>>]

Showing(n, w) == [kind |-> "notify", note |-> n, waiting |-> w]

NextUp(o) == IF o.waiting = <<>> THEN Bare("none") ELSE Showing(Head(o.waiting), Tail(o.waiting))

Lined(o, n) == IF Len(o.waiting) = Waiting THEN o ELSE Showing(o.note, Append(o.waiting, n))

Dismissed(o, name) ==
    IF o.kind = "notify" /\ name \in {NoName, o.note.name} THEN NextUp(o)
    ELSE IF name # NoName /\ Named(o.waiting, name) # {}
         THEN [o EXCEPT !.waiting = Without(o.waiting, name)]
         ELSE o

OverlayAfter(o, c) ==
    CASE c.op = "set_base"        -> Bare("none")
      [] c.op = "raw"             -> Bare("raw")
      [] c.op = "arm_stream"      -> Bare("arming")
      [] c.op = "overlay_expired" -> IF o.kind = "notify" THEN NextUp(o) ELSE Bare("none")
      [] c.op = "notify"          -> IF c.stack /\ o.kind = "notify" THEN Lined(o, c.note)
                                     ELSE Showing(c.note, o.waiting)
      [] c.op = "dismiss_notify"  -> Dismissed(o, c.name)
      [] OTHER                    -> o

\* From arbiter a, b is one revision on with this scene and overlay, or the same.
Yields(a, b, sc, o) ==
    /\ b \in Arb /\ Scene(b) = sc /\ Overlay(b) = o
    /\ \/ b.revision = a.revision + 1
       \/ b.revision = a.revision /\ Scene(b) = Scene(a) /\ Overlay(b) = Overlay(a)

LEMMA Constants ==
    /\ NoNote \in Notes /\ <<>> \in Seq(Notes) /\ ArmingWait \in Nat /\ NoNote.doc = FALSE
    /\ \A n \in Notes : /\ n.dur \in Nat /\ n.doc \in BOOLEAN
                        /\ n = [name |-> n.name, doc |-> n.doc, hold |-> n.hold, dur |-> n.dur]
    /\ \A d \in 1..MaxDuration : d \in Nat
  BY ArbiterAssumption DEF ArbiterAssumption, NoNote, Notes

\* What a frame leaves, and that a layer is held, is on no stream.
LEMMA FrameYields ==
    ASSUME NEW a \in Arb, NEW b, NEW sc, NEW o, Yields(a, b, sc, o)
    PROVE  Yields(a, Drawn(Holding(a, b)), sc, o)
  <1> DEFINE h == Holding(a, b)
  <1>1. h \in Arb /\ Scene(h) = sc /\ Overlay(h) = o /\ h.revision = b.revision
    BY DEF Yields, Holding, Arb, Scene, Overlay
  <1> HIDE DEF h
  <1>2. /\ Drawn(h) \in Arb /\ Scene(Drawn(h)) = sc /\ Overlay(Drawn(h)) = o
        /\ Drawn(h).revision = b.revision
    BY <1>1 DEF Drawn, Arb, Scene, Overlay
  <1> QED
    BY <1>1, <1>2 DEF Yields, h

LEMMA TakeSlotIs ==
    ASSUME NEW a \in Arb, NEW kind \in {"none", "raw", "arming"}, NEW left \in Nat,
           NEW soft \in BOOLEAN
    PROVE  /\ TakeSlot(a, kind, left, soft) \in Arb
           /\ Scene(TakeSlot(a, kind, left, soft)) = Scene(a)
           /\ Overlay(TakeSlot(a, kind, left, soft)) = Bare(kind)
           /\ TakeSlot(a, kind, left, soft).revision = a.revision
  BY Constants DEF TakeSlot, Arb, Scene, Overlay, Bare

LEMMA ShowIs ==
    ASSUME NEW a \in Arb, NEW n \in Notes
    PROVE  /\ Show(a, n) \in Arb /\ Scene(Show(a, n)) = Scene(a)
           /\ Overlay(Show(a, n)) = Showing(n, a.waiting)
           /\ Show(a, n).revision = a.revision
  BY Constants DEF Show, Arb, Scene, Overlay, Showing

LEMMA AdvanceIs ==
    ASSUME NEW a \in Arb
    PROVE  /\ Advance(a) \in Arb /\ Scene(Advance(a)) = Scene(a)
           /\ Overlay(Advance(a)) = NextUp(Overlay(a)) /\ Advance(a).revision = a.revision
  <1>1. CASE a.waiting # <<>>
    <2>1. Head(a.waiting) \in Notes /\ Tail(a.waiting) \in Seq(Notes)
      BY <1>1, HeadTailProperties DEF Arb
    <2> DEFINE b == Show(a, Head(a.waiting))
    <2>2. b \in Arb /\ Scene(b) = Scene(a) /\ b.revision = a.revision
          /\ b.kind = "notify" /\ b.note = Head(a.waiting)
      BY <2>1, ShowIs DEF Overlay, Showing
    <2>3. Advance(a) = [b EXCEPT !.waiting = Tail(a.waiting), !.pending = TRUE]
      BY <1>1 DEF Advance
    <2> HIDE DEF b
    <2>4. /\ Advance(a) \in Arb /\ Scene(Advance(a)) = Scene(b) /\ Advance(a).revision = b.revision
          /\ Overlay(Advance(a)) = Showing(Head(a.waiting), Tail(a.waiting))
      BY <2>1, <2>2, <2>3 DEF Arb, Scene, Overlay, Showing
    <2> QED
      BY <1>1, <2>2, <2>4 DEF NextUp, Overlay
  <1>2. CASE a.waiting = <<>>
    <2> DEFINE b == TakeSlot(a, "none", 0, FALSE)
    <2>1. b \in Arb /\ Scene(b) = Scene(a) /\ Overlay(b) = Bare("none") /\ b.revision = a.revision
      BY TakeSlotIs
    <2>2. Advance(a) = [b EXCEPT !.pending = TRUE]
      BY <1>2 DEF Advance
    <2> HIDE DEF b
    <2>3. /\ Advance(a) \in Arb /\ Scene(Advance(a)) = Scene(b) /\ Overlay(Advance(a)) = Overlay(b)
          /\ Advance(a).revision = b.revision
      BY <2>1, <2>2 DEF Arb, Scene, Overlay
    <2> QED
      BY <1>2, <2>1, <2>3 DEF NextUp, Overlay
  <1> QED
    BY <1>1, <1>2

\* What is changed and bumped.
LEMMA BumpYields ==
    ASSUME NEW a \in Arb, NEW b \in Arb, b.revision = a.revision
    PROVE  Yields(a, Bump(b), Scene(b), Overlay(b))
  <1>1. b.revision \in Nat /\ b.revision + 1 \in Nat
    BY DEF Arb
  <1>2. Bump(b) = [b EXCEPT !.revision = b.revision + 1, !.dirty = TRUE]
    BY DEF Bump
  <1>3. /\ Bump(b) \in Arb /\ Scene(Bump(b)) = Scene(b) /\ Overlay(Bump(b)) = Overlay(b)
        /\ Bump(b).revision = b.revision + 1
    BY <1>1, <1>2 DEF Arb, Scene, Overlay
  <1> QED
    BY <1>3 DEF Yields

LEMMA SameYields ==
    ASSUME NEW a \in Arb
    PROVE  Yields(a, a, Scene(a), Overlay(a))
  BY DEF Yields

\* The fields of the scene, each by itself.
LEMMA Refitted ==
    ASSUME NEW a \in Arb, NEW base \in Bases, NEW g \in Generators, NEW s \in Styles,
           NEW more \in BOOLEAN
    PROVE  /\ [a EXCEPT !.base = base, !.pending = more] \in Arb
           /\ [a EXCEPT !.generator = g, !.pending = more] \in Arb
           /\ [a EXCEPT !.style = s, !.pending = more] \in Arb
  BY DEF Arb

LEMMA SetBaseYields ==
    ASSUME NEW a \in Arb, NEW base \in Bases
    PROVE  Yields(a, SetBase(a, base), [Scene(a) EXCEPT !.base = base], Bare("none"))
  <1> DEFINE u == TakeSlot(a, "none", 0, FALSE)
             more == u.pending \/ base # a.base \/ a.kind # "none"
             b == [u EXCEPT !.base = base, !.pending = more]
  <1>1. u \in Arb /\ Scene(u) = Scene(a) /\ Overlay(u) = Bare("none") /\ u.revision = a.revision
    BY TakeSlotIs
  <1>3. SetBase(a, base) = Bump(b)
    BY DEF SetBase
  <1>a. more \in BOOLEAN
    BY <1>1 DEF Arb
  <1> HIDE DEF u, more
  <1>2. /\ b \in Arb /\ Scene(b) = [Scene(u) EXCEPT !.base = base] /\ Overlay(b) = Overlay(u)
        /\ b.revision = u.revision
    <2>1. b \in Arb
      BY <1>1, <1>a, Refitted DEF Arb
    <2>2. Scene(b) = [Scene(u) EXCEPT !.base = base]
      BY <1>1 DEF Arb, Scene
    <2>3. Overlay(b) = Overlay(u) /\ b.revision = u.revision
      BY <1>1 DEF Arb, Overlay
    <2> QED
      BY <2>1, <2>2, <2>3
  <1> HIDE DEF b
  <1>4. Yields(a, Bump(b), Scene(b), Overlay(b))
    BY <1>1, <1>2, BumpYields
  <1> QED
    BY <1>1, <1>2, <1>3, <1>4

LEMMA SelectGeneratorYields ==
    ASSUME NEW a \in Arb, NEW g \in Generators
    PROVE  Yields(a, SelectGenerator(a, g), [Scene(a) EXCEPT !.generator = g], Overlay(a))
  <1> DEFINE more == a.pending \/ g # a.generator
             b == [a EXCEPT !.generator = g, !.pending = more]
  <1>3. SelectGenerator(a, g) = Bump(b)
    BY DEF SelectGenerator
  <1>4. more \in BOOLEAN
    BY DEF Arb
  <1> HIDE DEF more
  <1>1. /\ b \in Arb /\ Scene(b) = [Scene(a) EXCEPT !.generator = g] /\ Overlay(b) = Overlay(a)
        /\ b.revision = a.revision
    <2>1. b \in Arb
      BY <1>4, Refitted DEF Arb
    <2>2. Scene(b) = [Scene(a) EXCEPT !.generator = g]
      BY DEF Arb, Scene
    <2>3. Overlay(b) = Overlay(a) /\ b.revision = a.revision
      BY DEF Arb, Overlay
    <2> QED
      BY <2>1, <2>2, <2>3
  <1> HIDE DEF b
  <1>2. Yields(a, Bump(b), Scene(b), Overlay(b))
    BY <1>1, BumpYields
  <1> QED
    BY <1>1, <1>2, <1>3

LEMMA SetStyleYields ==
    ASSUME NEW a \in Arb, NEW s \in Styles
    PROVE  Yields(a, SetStyle(a, s), [Scene(a) EXCEPT !.style = s], Overlay(a))
  <1> DEFINE more == a.pending \/ (a.base = "clock" /\ a.kind = "none")
             b == [a EXCEPT !.style = s, !.pending = more]
  <1>2. SetStyle(a, s) = IF s = a.style THEN a ELSE Bump(b)
    BY DEF SetStyle
  <1>5. more \in BOOLEAN
    BY DEF Arb
  <1> HIDE DEF more
  <1>1. /\ b \in Arb /\ Scene(b) = [Scene(a) EXCEPT !.style = s] /\ Overlay(b) = Overlay(a)
        /\ b.revision = a.revision
    <2>1. b \in Arb
      BY <1>5, Refitted DEF Arb
    <2>2. Scene(b) = [Scene(a) EXCEPT !.style = s]
      BY DEF Arb, Scene
    <2>3. Overlay(b) = Overlay(a) /\ b.revision = a.revision
      BY DEF Arb, Overlay
    <2> QED
      BY <2>1, <2>2, <2>3
  <1> HIDE DEF b
  <1>3. Yields(a, Bump(b), Scene(b), Overlay(b))
    BY <1>1, BumpYields
  <1>4. s = a.style => Scene(a) = [Scene(a) EXCEPT !.style = s]
    BY DEF Scene
  <1> QED
    BY <1>1, <1>2, <1>3, <1>4, SameYields

LEMMA SetPowerYields ==
    ASSUME NEW a \in Arb, NEW on \in BOOLEAN
    PROVE  Yields(a, SetPower(a, on), Scene(a), Overlay(a))
  <1> DEFINE b == [a EXCEPT !.power = on]
  <1>1. b \in Arb /\ Scene(b) = Scene(a) /\ Overlay(b) = Overlay(a) /\ b.revision = a.revision
    BY DEF Arb, Scene, Overlay
  <1>2. SetPower(a, on) = IF on = a.power THEN a ELSE Bump(b)
    BY DEF SetPower
  <1> HIDE DEF b
  <1> QED
    BY <1>1, <1>2, BumpYields, SameYields

LEMMA RawYields ==
    ASSUME NEW a \in Arb, NEW dur \in Nat, NEW soft \in BOOLEAN
    PROVE  Yields(a, RawFrame(a, dur, soft), Scene(a), Bare("raw"))
  <1> DEFINE u == TakeSlot(a, "raw", dur, soft)
             b == [u EXCEPT !.pending = @ \/ soft]
  <1>1. u \in Arb /\ Scene(u) = Scene(a) /\ Overlay(u) = Bare("raw") /\ u.revision = a.revision
    BY TakeSlotIs
  <1> HIDE DEF u
  <1>2. b \in Arb /\ Scene(b) = Scene(u) /\ Overlay(b) = Overlay(u) /\ b.revision = u.revision
    BY <1>1 DEF Arb, Scene, Overlay
  <1>3. RawFrame(a, dur, soft) = Bump(b)
    BY DEF RawFrame, u
  <1> HIDE DEF b
  <1> QED
    BY <1>1, <1>2, <1>3, BumpYields

LEMMA ArmYields ==
    ASSUME NEW a \in Arb
    PROVE  Yields(a, ArmStream(a), Scene(a), Bare("arming"))
  <1> DEFINE u == TakeSlot(a, "arming", ArmingWait, FALSE)
  <1>1. u \in Arb /\ Scene(u) = Scene(a) /\ Overlay(u) = Bare("arming") /\ u.revision = a.revision
    BY Constants, TakeSlotIs
  <1> HIDE DEF u
  <1>2. Yields(a, Bump(u), Scene(u), Overlay(u))
    BY <1>1, BumpYields
  <1> QED
    BY <1>1, <1>2 DEF ArmStream, u

LEMMA NotifyYields ==
    ASSUME NEW a \in Arb, NEW n \in Notes, NEW stack \in BOOLEAN
    PROVE  Yields(a, Notify(a, n, stack), Scene(a),
                  IF stack /\ a.kind = "notify" THEN Lined(Overlay(a), n) ELSE Showing(n, a.waiting))
  <1>1. CASE UpdatesInPlace(a, n, stack)
    <2> DEFINE b == [a EXCEPT !.note = n, !.left = n.dur]
    <2>1. ~stack /\ a.kind = "notify"
      BY <1>1 DEF UpdatesInPlace
    <2>2. /\ b \in Arb /\ Scene(b) = Scene(a) /\ Overlay(b) = Showing(n, a.waiting)
          /\ b.revision = a.revision
      BY <2>1, Constants DEF Arb, Scene, Overlay, Showing
    <2>3. Notify(a, n, stack) = Bump(b)
      BY <1>1 DEF Notify
    <2> HIDE DEF b
    <2>4. Yields(a, Bump(b), Scene(b), Overlay(b))
      BY <2>2, BumpYields
    <2> QED
      BY <2>1, <2>2, <2>3, <2>4
  <1>2. CASE ~UpdatesInPlace(a, n, stack) /\ stack /\ a.kind = "notify" /\ Len(a.waiting) = Waiting
    <2>1. Notify(a, n, stack) = a /\ Lined(Overlay(a), n) = Overlay(a)
      BY <1>2 DEF Notify, QueueFull, Lined, Overlay
    <2> QED
      BY <1>2, <2>1, SameYields
  <1>3. CASE ~UpdatesInPlace(a, n, stack) /\ stack /\ a.kind = "notify" /\ Len(a.waiting) # Waiting
    <2> DEFINE w == Append(a.waiting, n)
               b == [a EXCEPT !.waiting = w, !.revision = a.revision + 1]
    <2>1. Notify(a, n, stack) = b
      BY <1>3 DEF Notify, QueueFull
    <2>2. w \in Seq(Notes) /\ a.revision + 1 \in Nat
      BY AppendProperties DEF Arb
    <2>5. Lined(Overlay(a), n) = Showing(a.note, w)
      BY <1>3 DEF Lined, Overlay
    <2> HIDE DEF w
    <2>3. b \in Arb /\ Scene(b) = Scene(a) /\ b.revision = a.revision + 1
      BY <2>2 DEF Arb, Scene
    <2>4. Overlay(b) = Showing(a.note, w)
      BY <1>3 DEF Arb, Overlay, Showing
    <2> HIDE DEF b
    <2> QED
      BY <1>3, <2>1, <2>3, <2>4, <2>5 DEF Yields
  <1>4. CASE ~UpdatesInPlace(a, n, stack) /\ ~(stack /\ a.kind = "notify")
    <2> DEFINE u == Show(a, n)
               b == [u EXCEPT !.pending = TRUE]
    <2>1. /\ u \in Arb /\ Scene(u) = Scene(a) /\ Overlay(u) = Showing(n, a.waiting)
          /\ u.revision = a.revision
      BY ShowIs
    <2> HIDE DEF u
    <2>2. b \in Arb /\ Scene(b) = Scene(u) /\ Overlay(b) = Overlay(u) /\ b.revision = u.revision
      BY <2>1 DEF Arb, Scene, Overlay
    <2>3. Notify(a, n, stack) = Bump(b)
      BY <1>4 DEF Notify, QueueFull, u
    <2> HIDE DEF b
    <2>4. Yields(a, Bump(b), Scene(b), Overlay(b))
      BY <2>1, <2>2, BumpYields
    <2> QED
      BY <1>4, <2>1, <2>2, <2>3, <2>4
  <1> QED
    BY <1>1, <1>2, <1>3, <1>4

LEMMA DismissYields ==
    ASSUME NEW a \in Arb, NEW name
    PROVE  Yields(a, Dismiss(a, name), Scene(a), Dismissed(Overlay(a), name))
  <1>1. CASE a.kind = "notify" /\ name \in {NoName, a.note.name}
    <2>1. Yields(a, Bump(Advance(a)), Scene(Advance(a)), Overlay(Advance(a)))
      BY AdvanceIs, BumpYields
    <2>2. Dismissed(Overlay(a), name) = NextUp(Overlay(a))
      BY <1>1 DEF Dismissed, Overlay
    <2> QED
      BY <1>1, <2>1, <2>2, AdvanceIs DEF Dismiss
  <1>2. CASE ~(a.kind = "notify" /\ name \in {NoName, a.note.name})
             /\ (name = NoName \/ Named(a.waiting, name) = {})
    <2>1. Dismissed(Overlay(a), name) = Overlay(a)
      BY <1>2 DEF Dismissed, Overlay
    <2>2. DOMAIN a.waiting = 1..Len(a.waiting)
      BY LenProperties DEF Arb
    <2>3. Dismiss(a, name) = a
      BY <1>2, <2>2 DEF Dismiss, DismissWaiting, Named
    <2> QED
      BY <2>1, <2>3, SameYields
  <1>3. CASE ~(a.kind = "notify" /\ name \in {NoName, a.note.name})
             /\ name # NoName /\ Named(a.waiting, name) # {}
    <2> DEFINE w == Without(a.waiting, name)
               b == [a EXCEPT !.waiting = w, !.revision = a.revision + 1]
    <2>1. a.waiting \in Seq(Notes) /\ DOMAIN a.waiting = 1..Len(a.waiting)
      BY LenProperties DEF Arb
    <2>2. \E i \in DOMAIN a.waiting : a.waiting[i].name = name
      BY <1>3, <2>1 DEF Named
    <2>3. Dismiss(a, name) = b
      BY <1>3, <2>1, <2>2, FirstMatchIs DEF Dismiss, DismissWaiting
    <2>4. w \in Seq(Notes)
      BY <1>3, <2>1, FirstNamed, Removed DEF Without
    <2>5. Dismissed(Overlay(a), name) = [Overlay(a) EXCEPT !.waiting = w]
      BY <1>3 DEF Dismissed, Overlay
    <2>8. a.revision + 1 \in Nat
      BY DEF Arb
    <2> HIDE DEF w
    <2>6. b \in Arb /\ Scene(b) = Scene(a) /\ b.revision = a.revision + 1
      BY <2>4, <2>8 DEF Arb, Scene
    <2>7. Overlay(b) = [Overlay(a) EXCEPT !.waiting = w]
      BY DEF Arb, Overlay
    <2> HIDE DEF b
    <2> QED
      BY <2>3, <2>5, <2>6, <2>7 DEF Yields
  <1> QED
    BY <1>1, <1>2, <1>3

\* What the commands of a packet make of scene and overlay.
LEMMA Applied ==
    ASSUME NEW a \in Arb, NEW c \in Said
    PROVE  Yields(a, Drawn(ApplyWith(a, c)), SceneAfter(Scene(a), c), OverlayAfter(Overlay(a), c))
  <1> SUFFICES Yields(a, Inner(a, c), SceneAfter(Scene(a), c), OverlayAfter(Overlay(a), c))
    BY FrameYields DEF ApplyWith
  <1>1. CASE c \in [op : {"set_base"}, base : Bases]
    <2>1. c.base \in Bases /\ c.op = "set_base"
      BY <1>1
    <2>2. Yields(a, SetBase(a, c.base), [Scene(a) EXCEPT !.base = c.base], Bare("none"))
      BY <2>1, SetBaseYields
    <2> QED
      BY <2>1, <2>2 DEF Inner, SceneAfter, OverlayAfter
  <1>2. CASE c \in [op : {"select_generator"}, generator : Generators]
    <2>1. c.generator \in Generators /\ c.op = "select_generator"
      BY <1>2
    <2>2. Yields(a, SelectGenerator(a, c.generator),
                 [Scene(a) EXCEPT !.generator = c.generator], Overlay(a))
      BY <2>1, SelectGeneratorYields
    <2> QED
      BY <2>1, <2>2 DEF Inner, SceneAfter, OverlayAfter
  <1>3. CASE c \in [op : {"notify"}, note : Notes, stack : BOOLEAN]
    <2>1. c.note \in Notes /\ c.stack \in BOOLEAN /\ c.op = "notify"
      BY <1>3
    <2>2. Yields(a, Notify(a, c.note, c.stack), Scene(a),
                 IF c.stack /\ a.kind = "notify" THEN Lined(Overlay(a), c.note)
                 ELSE Showing(c.note, a.waiting))
      BY <2>1, NotifyYields
    <2>3. Overlay(a).kind = a.kind /\ Overlay(a).waiting = a.waiting
      BY DEF Overlay
    <2>4. SceneAfter(Scene(a), c) = Scene(a) /\ Inner(a, c) = Notify(a, c.note, c.stack)
      BY <2>1 DEF Inner, SceneAfter
    <2>5. OverlayAfter(Overlay(a), c) = IF c.stack /\ a.kind = "notify" THEN Lined(Overlay(a), c.note)
                                        ELSE Showing(c.note, a.waiting)
      BY <2>1, <2>3 DEF OverlayAfter
    <2> QED
      BY <2>2, <2>4, <2>5
  <1>4. CASE c \in [op : {"dismiss_notify"}, name : Names \cup {NoName}]
    <2>1. c.op = "dismiss_notify"
      BY <1>4
    <2>2. Yields(a, Dismiss(a, c.name), Scene(a), Dismissed(Overlay(a), c.name))
      BY DismissYields
    <2> QED
      BY <2>1, <2>2 DEF Inner, SceneAfter, OverlayAfter
  <1>5. CASE c \in [op : {"raw"}, dur : 1..MaxDuration, soft : BOOLEAN]
    <2>1. c.op = "raw" /\ c.dur \in Nat /\ c.soft \in BOOLEAN
      BY <1>5, Constants
    <2>2. Yields(a, RawFrame(a, c.dur, c.soft), Scene(a), Bare("raw"))
      BY <2>1, RawYields
    <2> QED
      BY <2>1, <2>2 DEF Inner, SceneAfter, OverlayAfter
  <1>6. CASE c \in [op : {"power"}, on : BOOLEAN]
    <2>1. c.op = "power" /\ c.on \in BOOLEAN
      BY <1>6
    <2>2. Yields(a, SetPower(a, c.on), Scene(a), Overlay(a))
      BY <2>1, SetPowerYields
    <2> QED
      BY <2>1, <2>2 DEF Inner, SceneAfter, OverlayAfter
  <1>7. CASE c \in [op : {"set_clock_style"}, style : Styles]
    <2>1. c.op = "set_clock_style" /\ c.style \in Styles
      BY <1>7
    <2>2. Yields(a, SetStyle(a, c.style), [Scene(a) EXCEPT !.style = c.style], Overlay(a))
      BY <2>1, SetStyleYields
    <2> QED
      BY <2>1, <2>2 DEF Inner, SceneAfter, OverlayAfter
  <1>8. CASE c.op = "adjust"
    <2>1. Yields(a, Bump(a), Scene(a), Overlay(a))
      BY BumpYields
    <2> QED
      BY <1>8, <2>1 DEF Inner, Adjust, SceneAfter, OverlayAfter
  <1>9. CASE c.op = "arm_stream"
    BY <1>9, ArmYields DEF Inner, SceneAfter, OverlayAfter
  <1> QED
    BY <1>1, <1>2, <1>3, <1>4, <1>5, <1>6, <1>7, <1>8, <1>9 DEF Said, Commands

\* What ends by itself is one revision on.
LEMMA Ended ==
    ASSUME NEW a \in Arb
    PROVE  /\ Drawn(ExpireOverlay(a)) \in Arb /\ Scene(Drawn(ExpireOverlay(a))) = Scene(a)
           /\ a.kind # "none" =>
                /\ Overlay(Drawn(ExpireOverlay(a))) = OverlayAfter(Overlay(a), Expiry)
                /\ Drawn(ExpireOverlay(a)).revision = a.revision + 1
           /\ a.kind = "none" =>
                /\ Overlay(Drawn(ExpireOverlay(a))) = Overlay(a)
                /\ Drawn(ExpireOverlay(a)).revision = a.revision
  <1>1. CASE a.kind = "none"
    <2>1. ExpireOverlay(a) = a
      BY <1>1 DEF ExpireOverlay
    <2>2. /\ Drawn(a) \in Arb /\ Scene(Drawn(a)) = Scene(a) /\ Overlay(Drawn(a)) = Overlay(a)
          /\ Drawn(a).revision = a.revision
      BY DEF Drawn, Arb, Scene, Overlay
    <2> QED
      BY <1>1, <2>1, <2>2
  <1>2. ASSUME NEW b \in Arb, Scene(b) = Scene(a), b.revision = a.revision,
               ExpireOverlay(a) = Holding(a, Bump(b)),
               Overlay(b) = OverlayAfter(Overlay(a), Expiry), a.kind # "none"
        PROVE  /\ Drawn(ExpireOverlay(a)) \in Arb /\ Scene(Drawn(ExpireOverlay(a))) = Scene(a)
               /\ Overlay(Drawn(ExpireOverlay(a))) = OverlayAfter(Overlay(a), Expiry)
               /\ Drawn(ExpireOverlay(a)).revision = a.revision + 1
    <2> DEFINE h == Holding(a, Bump(b))
    <2>0. b.revision \in Nat /\ b.revision + 1 \in Nat
      BY DEF Arb
    <2>1. /\ Bump(b) \in Arb /\ Scene(Bump(b)) = Scene(a) /\ Overlay(Bump(b)) = Overlay(b)
          /\ Bump(b).revision = a.revision + 1
      BY <1>2, <2>0 DEF Bump, Arb, Scene, Overlay
    <2>2. h \in Arb /\ Scene(h) = Scene(a) /\ Overlay(h) = Overlay(b) /\ h.revision = a.revision + 1
      BY <2>1 DEF Holding, Arb, Scene, Overlay
    <2> HIDE DEF h
    <2>3. /\ Drawn(h) \in Arb /\ Scene(Drawn(h)) = Scene(h) /\ Overlay(Drawn(h)) = Overlay(h)
          /\ Drawn(h).revision = h.revision
      BY <2>2 DEF Drawn, Arb, Scene, Overlay
    <2> QED
      BY <1>2, <2>2, <2>3 DEF h
  <1>3. CASE a.kind = "notify"
    <2>1. ExpireOverlay(a) = Holding(a, Bump(Advance(a)))
      BY <1>3 DEF ExpireOverlay
    <2>2. OverlayAfter(Overlay(a), Expiry) = NextUp(Overlay(a))
      BY <1>3 DEF OverlayAfter, Expiry, Overlay
    <2> QED
      BY <1>2, <1>3, <2>1, <2>2, AdvanceIs
  <1>4. CASE a.kind \notin {"none", "notify"}
    <2> DEFINE u == TakeSlot(a, "none", 0, FALSE)
               more == u.pending \/ a.soft
               b == [u EXCEPT !.pending = more]
    <2>1. ExpireOverlay(a) = Holding(a, Bump(b))
      BY <1>4 DEF ExpireOverlay
    <2>2. u \in Arb /\ Scene(u) = Scene(a) /\ Overlay(u) = Bare("none") /\ u.revision = a.revision
      BY TakeSlotIs
    <2>3. more \in BOOLEAN
      BY <2>2 DEF Arb
    <2> HIDE DEF u, more
    <2>4. b \in Arb
      BY <2>2, <2>3, Refitted DEF Arb
    <2>5. Scene(b) = Scene(u) /\ Overlay(b) = Overlay(u) /\ b.revision = u.revision
      BY <2>2 DEF Arb, Scene, Overlay
    <2>6. OverlayAfter(Overlay(a), Expiry) = Bare("none")
      BY <1>4 DEF OverlayAfter, Expiry, Overlay
    <2> HIDE DEF b
    <2> QED
      BY <1>2, <1>4, <2>1, <2>2, <2>4, <2>5, <2>6
  <1> QED
    BY <1>1, <1>2, <1>3, <1>4

-----------------------------------------------------------------------------
(* Overlays and their summaries *)

SlottedIs(o) == o.kind # "notify" => o.note = NoNote /\ o.waiting = <<>>

LEMMA OverlayIs ==
    ASSUME NEW a \in Arb
    PROVE  /\ Overlay(a) \in Overlays /\ Overlay(a).kind = a.kind
           /\ Scene(a) \in Pictured
  BY DEF Overlay, Overlays, Scene, Pictured, Arb

LEMMA NextUpIs ==
    ASSUME NEW o \in Overlays
    PROVE  NextUp(o) \in Overlays /\ SlottedIs(NextUp(o)) /\ NextUp(o).kind \in {"none", "notify"}
           /\ (o.waiting # <<>> => NextUp(o).kind = "notify")
  <1>1. CASE o.waiting = <<>>
    BY <1>1, Constants DEF NextUp, Bare, Overlays, SlottedIs
  <1>2. CASE o.waiting # <<>>
    <2>1. Head(o.waiting) \in Notes /\ Tail(o.waiting) \in Seq(Notes)
      BY <1>2, HeadTailProperties DEF Overlays
    <2> QED
      BY <1>2, <2>1 DEF NextUp, Showing, Overlays, SlottedIs
  <1> QED
    BY <1>1, <1>2

\* Only a notification has others behind it.
LEMMA OverlayAfterIs ==
    ASSUME NEW o \in Overlays, NEW c \in Told
    PROVE  /\ OverlayAfter(o, c) \in Overlays
           /\ SlottedIs(o) => SlottedIs(OverlayAfter(o, c))
           /\ c.op # "raw" /\ o.kind # "raw" => OverlayAfter(o, c).kind # "raw"
           /\ c.op \notin {"raw", "notify", "arm_stream"} /\ o.kind = "none"
                => OverlayAfter(o, c).kind = "none"
  <1>1. CASE c.op \in {"set_base", "raw", "arm_stream"}
    BY <1>1, Constants DEF OverlayAfter, Bare, Overlays, SlottedIs
  <1>2. CASE c.op = "overlay_expired"
    <2>1. OverlayAfter(o, c) = IF o.kind = "notify" THEN NextUp(o) ELSE Bare("none")
      BY <1>2 DEF OverlayAfter
    <2>2. Bare("none") \in Overlays /\ SlottedIs(Bare("none")) /\ Bare("none").kind = "none"
      BY Constants DEF Bare, Overlays, SlottedIs
    <2> QED
      BY <2>1, <2>2, NextUpIs
  <1>3. CASE c.op = "notify"
    <2>1. c.note \in Notes
      BY <1>3 DEF Told, Said, Expiry, Commands
    <2>2. Append(o.waiting, c.note) \in Seq(Notes)
      BY <2>1, AppendProperties DEF Overlays
    <2>3. /\ Showing(c.note, o.waiting) \in Overlays /\ Showing(c.note, o.waiting).kind = "notify"
          /\ Showing(o.note, Append(o.waiting, c.note)) \in Overlays
          /\ Showing(o.note, Append(o.waiting, c.note)).kind = "notify"
      BY <2>1, <2>2 DEF Showing, Overlays
    <2>4. OverlayAfter(o, c) \in {o, Showing(c.note, o.waiting),
                                  Showing(o.note, Append(o.waiting, c.note))}
      BY <1>3 DEF OverlayAfter, Lined
    <2> QED
      BY <1>3, <2>3, <2>4 DEF SlottedIs
  <1>4. CASE c.op = "dismiss_notify"
    <2>1. OverlayAfter(o, c) = Dismissed(o, c.name)
      BY <1>4 DEF OverlayAfter
    <2>2. CASE o.kind = "notify" /\ c.name \in {NoName, o.note.name}
      BY <2>1, <2>2, NextUpIs DEF Dismissed
    <2>3. CASE ~(o.kind = "notify" /\ c.name \in {NoName, o.note.name})
               /\ ~(c.name # NoName /\ Named(o.waiting, c.name) # {})
      BY <2>1, <2>3 DEF Dismissed
    <2>4. CASE ~(o.kind = "notify" /\ c.name \in {NoName, o.note.name})
               /\ c.name # NoName /\ Named(o.waiting, c.name) # {}
      <3> DEFINE w == Without(o.waiting, c.name)
      <3>1. o.waiting \in Seq(Notes) /\ o.waiting # <<>>
        BY <2>4, LenProperties DEF Overlays, Named
      <3>2. w \in Seq(Notes)
        BY <2>4, <3>1, FirstNamed, Removed DEF Without
      <3>3. OverlayAfter(o, c) = [o EXCEPT !.waiting = w]
        BY <2>1, <2>4 DEF Dismissed
      <3> HIDE DEF w
      <3>4. OverlayAfter(o, c) \in Overlays /\ OverlayAfter(o, c).kind = o.kind
        BY <3>2, <3>3 DEF Overlays
      <3> QED
        BY <3>1, <3>4 DEF SlottedIs
    <2> QED
      BY <2>2, <2>3, <2>4
  <1>5. CASE c.op \notin {"set_base", "raw", "arm_stream", "overlay_expired", "notify",
                          "dismiss_notify"}
    BY <1>5 DEF OverlayAfter
  <1> QED
    BY <1>1, <1>2, <1>3, <1>4, <1>5

Sm(n) == [n EXCEPT !.doc = FALSE]

LEMMA SmIs ==
    ASSUME NEW n \in Notes
    PROVE  Sm(n) \in Notes /\ Sm(n).name = n.name /\ Sm(n).hold = n.hold
  BY DEF Sm, Notes

Sms(w) == [i \in DOMAIN w |-> Sm(w[i])]

\* The waiting notifications without their documents, one for one.
LEMMA SmsIs ==
    ASSUME NEW w \in Seq(Notes)
    PROVE  /\ Sms(w) \in Seq(Notes) /\ Len(Sms(w)) = Len(w) /\ DOMAIN Sms(w) = 1..Len(w)
           /\ \A i \in 1..Len(w) : Sms(w)[i] = Sm(w[i]) /\ w[i] \in Notes
           /\ Sms(w) = <<>> <=> w = <<>>
  <1>1. Len(w) \in Nat /\ DOMAIN w = 1..Len(w) /\ \A i \in 1..Len(w) : w[i] \in Notes
    BY LenProperties, ElementOfSeq
  <1>2. \A i \in 1..Len(w) : Sm(w[i]) \in Notes
    BY <1>1, SmIs
  <1>3. Sms(w) \in [1..Len(w) -> Notes]
    BY <1>1, <1>2 DEF Sms
  <1>4. Sms(w) \in Seq(Notes) /\ Len(Sms(w)) = Len(w)
    BY <1>1, <1>3, LenProperties
  <1> QED
    BY <1>1, <1>3, <1>4, EmptySeq DEF Sms

LEMMA SummarisedIs ==
    ASSUME NEW o \in Overlays
    PROVE  /\ Summarised(o) = [kind |-> o.kind, note |-> Sm(o.note), waiting |-> Sms(o.waiting)]
           /\ Summarised(o) \in Overlays
  <1>1. Summarised(o) = [kind |-> o.kind, note |-> Sm(o.note), waiting |-> Sms(o.waiting)]
    BY DEF Summarised, Sm, Sms
  <1>2. Sm(o.note) \in Notes /\ Sms(o.waiting) \in Seq(Notes)
    BY SmIs, SmsIs DEF Overlays
  <1> QED
    BY <1>1, <1>2 DEF Overlays

LEMMA SmsAppend ==
    ASSUME NEW w \in Seq(Notes), NEW n \in Notes
    PROVE  Sms(Append(w, n)) = Append(Sms(w), Sm(n))
  <1> DEFINE x == Append(w, n)
             y == Append(Sms(w), Sm(n))
  <1>1. x \in Seq(Notes) /\ Len(x) = Len(w) + 1 /\ Len(w) \in Nat
        /\ \A i \in 1..Len(w) + 1 : x[i] = IF i <= Len(w) THEN w[i] ELSE n
    <2>1. x \in Seq(Notes) /\ Len(x) = Len(w) + 1 /\ (\A i \in 1..Len(w) : x[i] = w[i])
          /\ x[Len(w) + 1] = n /\ Len(w) \in Nat
      BY AppendProperties, LenProperties
    <2> QED
      BY <2>1
  <1>2. y \in Seq(Notes) /\ Len(y) = Len(w) + 1
        /\ \A i \in 1..Len(w) + 1 : y[i] = IF i <= Len(w) THEN Sm(w[i]) ELSE Sm(n)
    <2>1. Sms(w) \in Seq(Notes) /\ Len(Sms(w)) = Len(w) /\ Sm(n) \in Notes
          /\ \A i \in 1..Len(w) : Sms(w)[i] = Sm(w[i])
      BY SmsIs, SmIs
    <2>2. y \in Seq(Notes) /\ Len(y) = Len(Sms(w)) + 1 /\ (\A i \in 1..Len(Sms(w)) : y[i] = Sms(w)[i])
          /\ y[Len(Sms(w)) + 1] = Sm(n)
      BY <2>1, AppendProperties
    <2> QED
      BY <1>1, <2>1, <2>2
  <1> HIDE DEF x, y
  <1>3. Sms(x) \in Seq(Notes) /\ Len(Sms(x)) = Len(w) + 1
        /\ \A i \in 1..Len(w) + 1 : Sms(x)[i] = Sm(x[i])
    BY <1>1, SmsIs
  <1>4. \A i \in 1..Len(w) + 1 : Sms(x)[i] = y[i]
    BY <1>1, <1>2, <1>3
  <1>5. Sms(x) = y
    BY <1>2, <1>3, <1>4, SeqEqual
  <1> QED
    BY <1>5 DEF x, y

LEMMA SmsTail ==
    ASSUME NEW w \in Seq(Notes), w # <<>>
    PROVE  /\ Sms(Tail(w)) = Tail(Sms(w))
           /\ Sm(Head(w)) = Head(Sms(w))
  <1> DEFINE x == Tail(w)
             u == Sms(w)
  <1>1. x \in Seq(Notes) /\ Len(x) = Len(w) - 1 /\ Len(w) \in Nat \ {0}
        /\ (\A i \in 1..Len(w) - 1 : x[i] = w[i + 1]) /\ Head(w) = w[1]
    BY HeadTailProperties, LenProperties, EmptySeq
  <1>2. u \in Seq(Notes) /\ Len(u) = Len(w) /\ u # <<>>
        /\ \A i \in 1..Len(w) : u[i] = Sm(w[i])
    BY SmsIs
  <1> HIDE DEF x, u
  <1>3. Tail(u) \in Seq(Notes) /\ Len(Tail(u)) = Len(w) - 1
        /\ (\A i \in 1..Len(w) - 1 : Tail(u)[i] = u[i + 1]) /\ Head(u) = u[1]
    BY <1>2, HeadTailProperties
  <1>4. Sms(x) \in Seq(Notes) /\ Len(Sms(x)) = Len(w) - 1
        /\ \A i \in 1..Len(w) - 1 : Sms(x)[i] = Sm(x[i])
    BY <1>1, SmsIs
  <1>5. ASSUME NEW i \in 1..Len(w) - 1
        PROVE  Sms(x)[i] = Tail(u)[i]
    <2>1. i + 1 \in 1..Len(w)
      BY <1>1
    <2>2. Sms(x)[i] = Sm(w[i + 1])
      BY <1>1, <1>4
    <2>3. Tail(u)[i] = Sm(w[i + 1])
      BY <1>2, <1>3, <2>1
    <2> QED
      BY <2>2, <2>3
  <1>6. Sms(x) = Tail(u)
    BY <1>3, <1>4, <1>5, SeqEqual
  <1>7. Sm(Head(w)) = Head(u)
    BY <1>1, <1>2, <1>3
  <1> QED
    BY <1>6, <1>7 DEF x, u

LEMMA SmsWithout ==
    ASSUME NEW w \in Seq(Notes), NEW name
    PROVE  /\ Named(Sms(w), name) = Named(w, name)
           /\ Named(w, name) # {} => Sms(Without(w, name)) = Without(Sms(w), name)
  <1> DEFINE u == Sms(w)
  <1>1. u \in Seq(Notes) /\ Len(u) = Len(w) /\ Len(w) \in Nat
        /\ \A i \in 1..Len(w) : u[i] = Sm(w[i]) /\ w[i] \in Notes
    BY SmsIs, LenProperties
  <1> HIDE DEF u
  <1>2. \A i \in 1..Len(w) : u[i].name = w[i].name
    BY <1>1, SmIs
  <1>3. Named(u, name) = Named(w, name)
    BY <1>1, <1>2 DEF Named
  <1>4. ASSUME Named(w, name) # {}
        PROVE  Sms(Without(w, name)) = Without(u, name)
    <2> DEFINE m == Min(Named(w, name))
               x == RemoveAt(w, m)
               y == RemoveAt(u, m)
    <2>1. m \in 1..Len(w)
      BY <1>4, FirstNamed
    <2>2. Without(w, name) = x /\ Without(u, name) = y
      BY <1>3 DEF Without
    <2> HIDE DEF m
    <2>3. x \in Seq(Notes) /\ Len(x) = Len(w) - 1
          /\ \A j \in 1..Len(w) - 1 : x[j] = IF j < m THEN w[j] ELSE w[j + 1]
      BY <2>1, Removed
    <2>4. y \in Seq(Notes) /\ Len(y) = Len(w) - 1
          /\ \A j \in 1..Len(w) - 1 : y[j] = IF j < m THEN u[j] ELSE u[j + 1]
      BY <1>1, <2>1, Removed
    <2> HIDE DEF x, y
    <2>5. Sms(x) \in Seq(Notes) /\ Len(Sms(x)) = Len(w) - 1
          /\ \A j \in 1..Len(w) - 1 : Sms(x)[j] = Sm(x[j])
      BY <2>3, SmsIs
    <2>6. \A j \in 1..Len(w) - 1 : Sms(x)[j] = y[j]
      BY <1>1, <2>3, <2>4, <2>5
    <2>7. Sms(x) = y
      BY <2>4, <2>5, <2>6, SeqEqual
    <2> QED
      BY <2>2, <2>7
  <1> QED
    BY <1>3, <1>4 DEF u

\* A statement says of a summary what it says of what it sums up.
LEMMA SummaryFollows ==
    ASSUME NEW o \in Overlays, NEW c \in Told
    PROVE  /\ Summary(c) \in Told /\ Summary(c).op = c.op
           /\ \A sc : SceneAfter(sc, Summary(c)) = SceneAfter(sc, c)
           /\ Summarised(OverlayAfter(o, c)) = OverlayAfter(Summarised(o), Summary(c))
  <1> DEFINE u == Summarised(o)
  <1>1. /\ u.kind = o.kind /\ u.note = Sm(o.note) /\ u.waiting = Sms(o.waiting) /\ u \in Overlays
        /\ u = [kind |-> o.kind, note |-> Sm(o.note), waiting |-> Sms(o.waiting)]
        /\ o.note \in Notes /\ o.waiting \in Seq(Notes)
    BY SummarisedIs DEF Overlays
  <1>2. \A n \in Notes, w \in Seq(Notes) :
            Showing(n, w) \in Overlays /\ Summarised(Showing(n, w)) = Showing(Sm(n), Sms(w))
    <2> TAKE n \in Notes, w \in Seq(Notes)
    <2>1. Showing(n, w) \in Overlays
      BY DEF Showing, Overlays
    <2> QED
      BY <2>1, SummarisedIs DEF Showing
  <1>3. \A kind \in {"none", "raw", "arming"} : Summarised(Bare(kind)) = Bare(kind)
    <2> TAKE kind \in {"none", "raw", "arming"}
    <2>1. Bare(kind) \in Overlays
      BY Constants DEF Bare, Overlays
    <2>2. Sm(NoNote) = NoNote
      BY Constants DEF Sm
    <2>3. Sms(<<>>) = <<>>
      BY Constants, SmsIs
    <2> QED
      BY <2>1, <2>2, <2>3, SummarisedIs DEF Bare
  <1>4. Summarised(NextUp(o)) = NextUp(u)
    <2>1. CASE o.waiting = <<>>
      BY <1>1, <1>3, <2>1, SmsIs DEF NextUp
    <2>2. CASE o.waiting # <<>>
      <3>1. Head(o.waiting) \in Notes /\ Tail(o.waiting) \in Seq(Notes)
        BY <1>1, <2>2, HeadTailProperties
      <3>2. Summarised(NextUp(o)) = Showing(Sm(Head(o.waiting)), Sms(Tail(o.waiting)))
        BY <1>2, <2>2, <3>1 DEF NextUp
      <3>3. NextUp(u) = Showing(Head(u.waiting), Tail(u.waiting))
        BY <1>1, <2>2, SmsIs DEF NextUp
      <3> QED
        BY <1>1, <2>2, <3>2, <3>3, SmsTail
    <2> QED
      BY <2>1, <2>2
  <1>5. CASE c.op = "notify"
    <2>1. c \in [op : {"notify"}, note : Notes, stack : BOOLEAN]
      BY <1>5 DEF Told, Said, Expiry, Commands
    <2>2. Summary(c) = [c EXCEPT !.note = Sm(c.note)]
      BY <1>5 DEF Summary, Sm
    <2>3. Sm(c.note) \in Notes /\ c.note \in Notes
      BY <2>1, SmIs
    <2>4. /\ Summary(c) \in [op : {"notify"}, note : Notes, stack : BOOLEAN]
          /\ Summary(c).note = Sm(c.note) /\ Summary(c).stack = c.stack
          /\ Summary(c).op = "notify"
      BY <2>1, <2>2, <2>3
    <2>5. Summary(c) \in Told
      BY <2>4 DEF Told, Said, Commands
    <2>6. \A sc : SceneAfter(sc, Summary(c)) = SceneAfter(sc, c)
      BY <1>5, <2>4 DEF SceneAfter
    <2> SUFFICES Summarised(OverlayAfter(o, c)) = OverlayAfter(u, Summary(c))
      BY <1>5, <2>4, <2>5, <2>6
    <2> HIDE DEF u
    <2>7. CASE c.stack /\ o.kind = "notify"
      <3>1. OverlayAfter(o, c) = Lined(o, c.note)
            /\ OverlayAfter(u, Summary(c)) = Lined(u, Sm(c.note))
        BY <1>1, <1>5, <2>4, <2>7 DEF OverlayAfter
      <3>2. CASE Len(o.waiting) = Waiting
        BY <1>1, <3>1, <3>2, SmsIs DEF Lined, u
      <3>3. CASE Len(o.waiting) # Waiting
        <4>1. Append(o.waiting, c.note) \in Seq(Notes)
          BY <1>1, <2>3, AppendProperties
        <4>2. OverlayAfter(o, c) = Showing(o.note, Append(o.waiting, c.note))
          BY <3>1, <3>3 DEF Lined
        <4>3. OverlayAfter(u, Summary(c)) = Showing(Sm(o.note), Append(Sms(o.waiting), Sm(c.note)))
          BY <1>1, <3>1, <3>3, SmsIs DEF Lined
        <4>4. Summarised(OverlayAfter(o, c)) = Showing(Sm(o.note), Sms(Append(o.waiting, c.note)))
          BY <1>1, <1>2, <4>1, <4>2
        <4> QED
          BY <1>1, <2>3, <4>3, <4>4, SmsAppend
      <3> QED
        BY <3>2, <3>3
    <2>8. CASE ~(c.stack /\ o.kind = "notify")
      <3>1. OverlayAfter(o, c) = Showing(c.note, o.waiting)
            /\ OverlayAfter(u, Summary(c)) = Showing(Sm(c.note), u.waiting)
        BY <1>1, <1>5, <2>4, <2>8 DEF OverlayAfter
      <3> QED
        BY <1>1, <1>2, <2>3, <3>1
    <2> QED
      BY <2>7, <2>8
  <1>6. CASE c.op # "notify"
    <2>1. Summary(c) = c
      BY <1>6 DEF Summary
    <2> SUFFICES Summarised(OverlayAfter(o, c)) = OverlayAfter(u, c)
      BY <2>1
    <2> HIDE DEF u
    <2>2. CASE c.op = "dismiss_notify"
      <3>1. OverlayAfter(o, c) = Dismissed(o, c.name) /\ OverlayAfter(u, c) = Dismissed(u, c.name)
        BY <2>2 DEF OverlayAfter
      <3>2. u.note.name = o.note.name /\ Named(u.waiting, c.name) = Named(o.waiting, c.name)
        BY <1>1, SmIs, SmsWithout
      <3>3. CASE o.kind = "notify" /\ c.name \in {NoName, o.note.name}
        BY <1>1, <1>4, <3>1, <3>2, <3>3 DEF Dismissed, u
      <3>4. CASE ~(o.kind = "notify" /\ c.name \in {NoName, o.note.name})
                 /\ ~(c.name # NoName /\ Named(o.waiting, c.name) # {})
        BY <1>1, <3>1, <3>2, <3>4 DEF Dismissed, u
      <3>5. CASE ~(o.kind = "notify" /\ c.name \in {NoName, o.note.name})
                 /\ c.name # NoName /\ Named(o.waiting, c.name) # {}
        <4> DEFINE w == Without(o.waiting, c.name)
                   x == Without(u.waiting, c.name)
                   q == [o EXCEPT !.waiting = w]
        <4>1. w \in Seq(Notes)
          BY <1>1, <3>5, FirstNamed, Removed DEF Without
        <4>2. Sms(w) = x
          BY <1>1, <3>5, SmsWithout
        <4>3. OverlayAfter(o, c) = q /\ OverlayAfter(u, c) = [u EXCEPT !.waiting = x]
          BY <1>1, <3>1, <3>2, <3>5 DEF Dismissed
        <4> HIDE DEF w, x
        <4>4. q \in Overlays /\ q.kind = o.kind /\ q.note = o.note /\ q.waiting = w
          BY <4>1 DEF Overlays
        <4>5. Summarised(q) = [kind |-> o.kind, note |-> Sm(o.note), waiting |-> Sms(w)]
          BY <4>4, SummarisedIs
        <4>6. [u EXCEPT !.waiting = x] = [kind |-> o.kind, note |-> Sm(o.note), waiting |-> x]
          BY <1>1
        <4> QED
          BY <4>2, <4>3, <4>5, <4>6
      <3> QED
        BY <3>3, <3>4, <3>5
    <2>3. CASE c.op \in {"set_base", "raw", "arm_stream"}
      BY <1>3, <2>3 DEF OverlayAfter
    <2>4. CASE c.op = "overlay_expired"
      BY <1>1, <1>3, <1>4, <2>4 DEF OverlayAfter, u
    <2>5. CASE c.op \notin {"set_base", "raw", "arm_stream", "overlay_expired", "dismiss_notify"}
      BY <1>6, <2>5 DEF OverlayAfter, u
    <2> QED
      BY <2>2, <2>3, <2>4, <2>5
  <1> QED
    BY <1>5, <1>6

-----------------------------------------------------------------------------
(* One command, or one statement, after the other *)

Stays(n, D, G) == \A i \in 1..n, x \in D : G[<<i, x>>] \in D

Folds(n, D, start, G, f) == /\ f \in [0..n -> D] /\ f[0] = start
                            /\ \A i \in 1..n : f[i] = G[<<i, f[i - 1]>>]

\* What is made step by step out of what was made before.
LEMMA Fold ==
    ASSUME NEW n \in Nat, NEW D, NEW start, start \in D, NEW G, Stays(n, D, G)
    PROVE  \E f : Folds(n, D, start, G, f)
  <1> DEFINE Made(k, f) == Folds(k, D, start, G, f)
             S == {k \in 0..n : \E f : Made(k, f)}
  <1> USE DEF Folds
  <1>1. 0 \in S
    <2>1. Made(0, [i \in 0..0 |-> start])
      OBVIOUS
    <2> HIDE DEF Made
    <2> QED
      BY <2>1
  <1>2. ASSUME NEW k \in 1..n, k - 1 \in S
        PROVE  k \in S
    <2>1. PICK f : Made(k - 1, f)
      BY <1>2
    <2> DEFINE g == [i \in 0..k |-> IF i < k THEN f[i] ELSE G[<<k, f[k - 1]>>]]
    <2>2. k - 1 \in 0..k - 1 /\ f[k - 1] \in D
      BY <2>1
    <2>3. G[<<k, f[k - 1]>>] \in D
      BY <2>2 DEF Stays
    <2>4. \A i \in 0..k : i < k => i \in 0..k - 1 /\ f[i] \in D
      BY <2>1
    <2>5. g \in [0..k -> D]
      BY <2>3, <2>4
    <2>6. g[0] = start
      BY <2>1
    <2>7. ASSUME NEW i \in 1..k
          PROVE  g[i] = G[<<i, g[i - 1]>>]
      <3>1. g[i - 1] = f[i - 1]
        OBVIOUS
      <3>2. CASE i < k
        <4>1. i \in 1..k - 1
          BY <3>2
        <4>2. f[i] = G[<<i, f[i - 1]>>]
          BY <2>1, <4>1
        <4>3. g[i] = f[i]
          BY <3>2
        <4> HIDE DEF g
        <4> QED
          BY <3>1, <4>2, <4>3
      <3>3. CASE i = k
        <4>1. g[k] = G[<<k, f[k - 1]>>]
          OBVIOUS
        <4> HIDE DEF g
        <4> QED
          BY <3>1, <3>3, <4>1
      <3>4. i < k \/ i = k
        BY <1>2, <2>7
      <3> HIDE DEF g
      <3> QED
        BY <3>2, <3>3, <3>4
    <2>8. Made(k, g)
      BY <2>5, <2>6, <2>7
    <2> HIDE DEF Made
    <2> QED
      BY <2>8
  <1>3. n \in S
    <2>1. \A k \in 1..n : k - 1 \in S => k \in S
      BY <1>2
    <2> HIDE DEF S
    <2> QED
      BY <1>1, <2>1, Climb
  <1> HIDE DEF Folds
  <1> QED
    BY <1>3

Handling == [arb : Arb, made : Seq(Arb), command : Said]

Handled(before, c) ==
    LET next == Drawn(ApplyWith(before.arb, c))
    IN  IF next.revision = before.arb.revision THEN before
        ELSE [arb |-> next, made |-> Append(before.made, next), command |-> c]

\* A packet, command by command.
LEMMA HandleIs ==
    ASSUME NEW a \in Arb, NEW p \in Seq(Said)
    PROVE  \E f \in [0..Len(p) -> Handling] :
              /\ f[0] = [arb |-> a, made |-> <<>>, command |-> NoCommand]
              /\ \A i \in 1..Len(p) : f[i] = Handled(f[i - 1], p[i])
              /\ Handle(a, p) = f[Len(p)]
  <1> DEFINE n     == Len(p)
             start == [arb |-> a, made |-> <<>>, command |-> NoCommand]
             G     == [x \in (1..n) \X Handling |-> Handled(x[2], p[x[1]])]
             Body(f, i) == IF i = 0 THEN start ELSE Handled(f[i - 1], p[i])
             after == CHOOSE f : f = [i \in 0..n |-> Body(f, i)]
  <1>1. n \in Nat /\ \A i \in 1..n : p[i] \in Said
    BY LenProperties, ElementOfSeq
  <1>2. start \in Handling
    <2>1. NoCommand \in Said /\ <<>> \in Seq(Arb)
      BY EmptySeq DEF NoCommand, Said, Commands
    <2> QED
      BY <2>1 DEF Handling
  <1>3. \A r \in Handling, c \in Said : Handled(r, c) \in Handling
    <2> TAKE r \in Handling, c \in Said
    <2> DEFINE next == Drawn(ApplyWith(r.arb, c))
    <2>1. r.arb \in Arb /\ r.made \in Seq(Arb)
      BY DEF Handling
    <2>2. next \in Arb
      BY <2>1, Applied DEF Yields
    <2>3. Handled(r, c) = IF next.revision = r.arb.revision THEN r
                          ELSE [arb |-> next, made |-> Append(r.made, next), command |-> c]
      BY DEF Handled
    <2> HIDE DEF next
    <2>4. Append(r.made, next) \in Seq(Arb)
      BY <2>1, <2>2, AppendProperties
    <2> QED
      BY <2>2, <2>3, <2>4 DEF Handling
  <1>4. \A i \in 1..n, r \in Handling : G[<<i, r>>] = Handled(r, p[i])
    OBVIOUS
  <1>5. \A i \in 1..n, r \in Handling : G[<<i, r>>] \in Handling
    BY <1>1, <1>3, <1>4
  <1> HIDE DEF G, start, n
  <1>6. PICK f \in [0..n -> Handling] : /\ f[0] = start
                                        /\ \A i \in 1..n : f[i] = G[<<i, f[i - 1]>>]
    <2>1. \E f : Folds(n, Handling, start, G, f)
      BY <1>1, <1>2, <1>5, Fold DEF Stays
    <2> QED
      BY <2>1 DEF Folds
  <1>7. \A i \in 1..n : f[i] = Handled(f[i - 1], p[i])
    <2> TAKE i \in 1..n
    <2>1. f[i - 1] \in Handling
      BY <1>1, <1>6
    <2> QED
      BY <1>4, <1>6, <2>1
  <1>8. f = [i \in 0..n |-> Body(f, i)]
    <2>1. \A i \in 0..n : f[i] = Body(f, i)
      BY <1>1, <1>6, <1>7
    <2> QED
      BY <1>6, <2>1
  <1>9. after = [i \in 0..n |-> Body(after, i)]
    <2> HIDE DEF Body
    <2> QED
      BY <1>8
  <1> HIDE DEF after
  <1>10. \A i \in 0..n : after[i] = f[i]
    <2> DEFINE S == {i \in 0..n : after[i] = f[i]}
    <2>1. 0 \in S
      BY <1>1, <1>6, <1>9
    <2>2. ASSUME NEW i \in 1..n, i - 1 \in S
          PROVE  i \in S
      <3>1. i \in 0..n /\ i # 0 /\ after[i - 1] = f[i - 1]
        BY <1>1, <2>2
      <3> QED
        BY <1>7, <1>9, <3>1
    <2> HIDE DEF S
    <2>3. \A i \in 0..n : i \in S
      BY <1>1, <2>1, <2>2, Climb
    <2> QED
      BY <2>3 DEF S
  <1>11. Handle(a, p) = after[n]
    BY DEF Handle, Handled, start, n, after
  <1> QED
    BY <1>1, <1>6, <1>7, <1>10, <1>11 DEF start, n

Keeps(O, Cs) == /\ Cs \subseteq Said
                /\ \A o \in O, c \in Cs : OverlayAfter(o, c) \in O

Before(a, made) == IF Len(made) = 1 THEN a ELSE made[Len(made) - 1]

\* The states a packet went through, the last of them by this command.
Tally(a, Cs, O, made, command) ==
    /\ made \in Seq(Arb)
    /\ \A k \in 1..Len(made) : made[k].revision = a.revision + k /\ Overlay(made[k]) \in O
    /\ made # <<>> =>
         /\ command \in Cs
         /\ Scene(made[Len(made)]) = SceneAfter(Scene(Before(a, made)), command)
         /\ Overlay(made[Len(made)]) = OverlayAfter(Overlay(Before(a, made)), command)

\* Every change of a packet is one revision.
LEMMA PacketIs ==
    ASSUME NEW a \in Arb, NEW Cs, NEW O, Keeps(O, Cs), Overlay(a) \in O, NEW p \in Seq(Cs)
    PROVE  Tally(a, Cs, O, Handle(a, p).made, Handle(a, p).command)
  <1> DEFINE Fine(r) == /\ Tally(a, Cs, O, r.made, r.command)
                        /\ r.arb = IF r.made = <<>> THEN a ELSE r.made[Len(r.made)]
             n == Len(p)
  <1>1. p \in Seq(Said) /\ n \in Nat /\ \A i \in 1..n : p[i] \in Cs /\ p[i] \in Said
    BY SeqMonotonic, LenProperties, ElementOfSeq DEF Keeps
  <1>2. PICK f \in [0..n -> Handling] :
              /\ f[0] = [arb |-> a, made |-> <<>>, command |-> NoCommand]
              /\ \A i \in 1..n : f[i] = Handled(f[i - 1], p[i])
              /\ Handle(a, p) = f[n]
    BY <1>1, HandleIs
  <1>3. Fine(f[0])
    <2>1. <<>> \in Seq(Arb) /\ Len(<<>>) = 0
      BY EmptySeq
    <2> QED
      BY <1>2, <2>1 DEF Tally
  <1>4. ASSUME NEW r \in Handling, NEW c \in Cs, Fine(r)
        PROVE  Fine(Handled(r, c))
    <2> DEFINE next == Drawn(ApplyWith(r.arb, c))
               m    == Len(r.made)
               made == Append(r.made, next)
    <2>1. r.arb \in Arb /\ r.made \in Seq(Arb) /\ c \in Said /\ m \in Nat
      BY <1>4, LenProperties DEF Handling, Keeps
    <2>2. Yields(r.arb, next, SceneAfter(Scene(r.arb), c), OverlayAfter(Overlay(r.arb), c))
      BY <2>1, Applied
    <2>3. Handled(r, c) = IF next.revision = r.arb.revision THEN r
                          ELSE [arb |-> next, made |-> made, command |-> c]
      BY DEF Handled
    <2> HIDE DEF next
    <2>4. CASE next.revision = r.arb.revision
      BY <1>4, <2>3, <2>4
    <2>5. CASE next.revision # r.arb.revision
      <3>1. next \in Arb /\ next.revision = r.arb.revision + 1
        BY <2>2, <2>5 DEF Yields
      <3>2. /\ made \in Seq(Arb) /\ Len(made) = m + 1 /\ made[m + 1] = next
            /\ \A k \in 1..m : made[k] = r.made[k]
        BY <2>1, <3>1, AppendProperties
      <3>3. m = 0 <=> r.made = <<>>
        BY <2>1, EmptySeq
      <3> HIDE DEF made, m
      <3>4. Before(a, made) = r.arb
        <4>1. CASE m = 0
          BY <1>4, <3>2, <3>3, <4>1 DEF Before
        <4>2. CASE m # 0
          <5>1. m \in 1..m /\ m + 1 # 1 /\ m + 1 - 1 = m
            BY <2>1, <4>2 DEF m
          <5>2. Before(a, made) = made[m]
            BY <3>2, <5>1 DEF Before
          <5>3. r.arb = r.made[m]
            BY <1>4, <3>3, <4>2 DEF m
          <5> QED
            BY <3>2, <5>1, <5>2, <5>3
        <4> QED
          BY <4>1, <4>2
      <3>5. r.arb.revision = a.revision + m /\ a.revision \in Nat /\ Overlay(r.arb) \in O
        <4>1. CASE m = 0
          BY <1>4, <3>3, <4>1 DEF Arb
        <4>2. CASE m # 0
          <5>1. m \in 1..m
            BY <2>1, <4>2
          <5> QED
            BY <1>4, <3>3, <4>2, <5>1 DEF Tally, Arb, m
        <4> QED
          BY <4>1, <4>2
      <3>6. Overlay(next) \in O
        BY <2>2, <3>5 DEF Yields, Keeps
      <3>7. ASSUME NEW k \in 1..Len(made)
            PROVE  made[k].revision = a.revision + k /\ Overlay(made[k]) \in O
        <4>1. CASE k = m + 1
          <5>1. made[k] = next
            BY <3>2, <4>1
          <5>2. next.revision = a.revision + k
            <6>1. m \in Nat
              BY <2>1 DEF m
            <6> QED
              BY <3>1, <3>5, <4>1, <6>1
          <5> QED
            BY <3>6, <5>1, <5>2
        <4>2. CASE k # m + 1
          <5>1. k \in 1..m
            BY <2>1, <3>2, <4>2
          <5> QED
            BY <1>4, <3>2, <5>1 DEF Tally, m
        <4> QED
          BY <4>1, <4>2
      <3>8. made # <<>>
        BY <2>1, <3>2, EmptySeq
      <3>9. Tally(a, Cs, O, made, c)
        BY <2>1, <2>2, <3>2, <3>4, <3>7 DEF Tally, Yields
      <3> QED
        BY <2>3, <2>5, <3>2, <3>8, <3>9
    <2> QED
      BY <2>4, <2>5
  <1> DEFINE S == {i \in 0..n : Fine(f[i])}
  <1> HIDE DEF Fine
  <1>5. 0 \in S
    BY <1>1, <1>3
  <1>6. \A i \in 1..n : i - 1 \in S => i \in S
    <2> SUFFICES ASSUME NEW i \in 1..n, i - 1 \in S
                 PROVE  i \in S
      OBVIOUS
    <2>1. f[i - 1] \in Handling /\ Fine(f[i - 1]) /\ p[i] \in Cs
      BY <1>1, <1>2
    <2>2. Fine(Handled(f[i - 1], p[i]))
      BY <1>4, <2>1
    <2> QED
      BY <1>1, <1>2, <2>2
  <1> HIDE DEF S
  <1>7. \A i \in 0..n : i \in S
    <2> HIDE DEF n
    <2> QED
      BY <1>1, <1>5, <1>6, Climb
  <1>8. n \in S
    BY <1>1, <1>7
  <1> QED
    BY <1>2, <1>8 DEF S, Fine

-----------------------------------------------------------------------------
(* What the page plays *)

Sayings == [revision : Nat, command : Told]

\* A statement that lands was made on the revision before, or is one the replica
\* has the outcome of already.
LEMMA ReplayIs ==
    ASSUME NEW a \in Arb, NEW s \in Sayings
    PROVE  /\ Replayed(a, s) \in Arb
           /\ \/ Overlay(Replayed(a, s)) = Overlay(a)
              \/ /\ s.command.op # "raw"
                 /\ Overlay(Replayed(a, s)) = OverlayAfter(Overlay(a), Summary(s.command))
           /\ Lands(Replayed(a, s), s) =>
                \/ /\ a.revision = s.revision
                   /\ Scene(Replayed(a, s)) = Scene(a) /\ Overlay(Replayed(a, s)) = Overlay(a)
                \/ /\ a.revision + 1 = s.revision
                   /\ Scene(Replayed(a, s)) = SceneAfter(Scene(a), s.command)
                   /\ Overlay(Replayed(a, s)) = OverlayAfter(Overlay(a), Summary(s.command))
  <1> DEFINE b == Replayed(a, s)
             c == s.command
  <1>1. c \in Told /\ s.revision \in Nat /\ a.revision \in Nat
    BY DEF Sayings, Arb
  <1>2. CASE c.op = "raw"
    BY <1>2 DEF Replayed, Lands
  <1>3. CASE c.op = "overlay_expired"
    <2>1. c = Expiry /\ Summary(c) = c
      BY <1>1, <1>3 DEF Told, Said, Summary
    <2>2. \A sc : SceneAfter(sc, c) = sc
      BY <1>3 DEF SceneAfter
    <2>3. b = IF a.revision = s.revision - 1 THEN Drawn(ExpireOverlay(a)) ELSE a
      BY <1>3 DEF Replayed, NotYetExpired
    <2>4. CASE a.revision # s.revision - 1
      BY <2>3, <2>4 DEF Lands
    <2>5. CASE a.revision = s.revision - 1 /\ a.kind = "none"
      <3>1. b \in Arb /\ Overlay(b) = Overlay(a) /\ b.revision # s.revision
        BY <1>1, <2>3, <2>5, Ended
      <3> QED
        BY <3>1 DEF Lands
    <2>6. CASE a.revision = s.revision - 1 /\ a.kind # "none"
      <3>1. /\ b \in Arb /\ Scene(b) = Scene(a) /\ Overlay(b) = OverlayAfter(Overlay(a), Expiry)
            /\ a.revision + 1 = s.revision
        BY <1>1, <2>3, <2>6, Ended
      <3> HIDE DEF b
      <3> QED
        BY <1>3, <2>1, <2>2, <3>1 DEF b
    <2> QED
      BY <2>4, <2>5, <2>6
  <1>4. CASE c.op \notin {"raw", "overlay_expired"}
    <2>1. c \in Said
      BY <1>1, <1>4 DEF Told, Expiry
    <2>2. Summary(c) \in Told /\ Summary(c).op = c.op /\ \A sc : SceneAfter(sc, Summary(c)) = SceneAfter(sc, c)
      BY <1>1, OverlayIs, SummaryFollows
    <2>3. Summary(c) \in Said
      BY <1>4, <2>2 DEF Told, Expiry
    <2>4. b = Drawn(ApplyWith(a, Summary(c)))
      BY <1>4 DEF Replayed
    <2>5. Yields(a, b, SceneAfter(Scene(a), c), OverlayAfter(Overlay(a), Summary(c)))
      BY <2>2, <2>3, <2>4, Applied
    <2> HIDE DEF b
    <2>6. b.revision = s.revision =>
             \/ a.revision = s.revision /\ Scene(b) = Scene(a) /\ Overlay(b) = Overlay(a)
             \/ /\ a.revision + 1 = s.revision /\ Scene(b) = SceneAfter(Scene(a), c)
                /\ Overlay(b) = OverlayAfter(Overlay(a), Summary(c))
      BY <2>5 DEF Yields
    <2> QED
      BY <1>4, <2>5, <2>6 DEF Yields, Lands, b
  <1> QED
    BY <1>2, <1>3, <1>4

Drainings == [arb : Arb, ok : BOOLEAN]

Played(before, s) ==
    IF before.ok THEN [arb |-> Replayed(before.arb, s), ok |-> Lands(Replayed(before.arb, s), s)]
    ELSE before

\* Statements, one by one.
LEMMA DrainIs ==
    ASSUME replica \in Arb, NEW w \in Seq(Sayings)
    PROVE  \E f \in [0..Len(w) -> Drainings] :
              /\ f[0] = [arb |-> replica, ok |-> TRUE]
              /\ \A i \in 1..Len(w) : f[i] = Played(f[i - 1], w[i])
              /\ Drained(w) = f[Len(w)]
  <1> DEFINE n     == Len(w)
             start == [arb |-> replica, ok |-> TRUE]
             G     == [x \in (1..n) \X Drainings |-> Played(x[2], w[x[1]])]
             Body(f, i) == IF i = 0 THEN start ELSE Played(f[i - 1], w[i])
             after == CHOOSE f : f = [i \in 0..n |-> Body(f, i)]
  <1>1. n \in Nat /\ \A i \in 1..n : w[i] \in Sayings
    BY LenProperties, ElementOfSeq
  <1>2. start \in Drainings
    BY DEF Drainings
  <1>3. \A r \in Drainings, s \in Sayings : Played(r, s) \in Drainings
    <2> TAKE r \in Drainings, s \in Sayings
    <2> DEFINE b == Replayed(r.arb, s)
               l == Lands(b, s)
    <2>1. b \in Arb
      BY ReplayIs DEF Drainings
    <2>2. l \in BOOLEAN
      BY DEF Lands
    <2>3. Played(r, s) = IF r.ok THEN [arb |-> b, ok |-> l] ELSE r
      BY DEF Played
    <2> HIDE DEF b, l
    <2> QED
      BY <2>1, <2>2, <2>3 DEF Drainings
  <1>4. \A i \in 1..n, r \in Drainings : G[<<i, r>>] = Played(r, w[i])
    OBVIOUS
  <1>5. \A i \in 1..n, r \in Drainings : G[<<i, r>>] \in Drainings
    BY <1>1, <1>3, <1>4
  <1> HIDE DEF G, start, n
  <1>6. PICK f \in [0..n -> Drainings] : /\ f[0] = start
                                         /\ \A i \in 1..n : f[i] = G[<<i, f[i - 1]>>]
    <2>1. \E f : Folds(n, Drainings, start, G, f)
      BY <1>1, <1>2, <1>5, Fold DEF Stays
    <2> QED
      BY <2>1 DEF Folds
  <1>7. \A i \in 1..n : f[i] = Played(f[i - 1], w[i])
    <2> TAKE i \in 1..n
    <2>1. f[i - 1] \in Drainings
      BY <1>1, <1>6
    <2> QED
      BY <1>4, <1>6, <2>1
  <1>8. f = [i \in 0..n |-> Body(f, i)]
    <2>1. \A i \in 0..n : f[i] = Body(f, i)
      BY <1>1, <1>6, <1>7
    <2> QED
      BY <1>6, <2>1
  <1>9. after = [i \in 0..n |-> Body(after, i)]
    <2> HIDE DEF Body
    <2> QED
      BY <1>8
  <1> HIDE DEF after
  <1>10. \A i \in 0..n : after[i] = f[i]
    <2> DEFINE S == {i \in 0..n : after[i] = f[i]}
    <2>1. 0 \in S
      BY <1>1, <1>6, <1>9
    <2>2. ASSUME NEW i \in 1..n, i - 1 \in S
          PROVE  i \in S
      <3>1. i \in 0..n /\ i # 0 /\ after[i - 1] = f[i - 1]
        BY <1>1, <2>2
      <3> QED
        BY <1>7, <1>9, <3>1
    <2> HIDE DEF S
    <2>3. \A i \in 0..n : i \in S
      BY <1>1, <2>1, <2>2, Climb
    <2> QED
      BY <2>3 DEF S
  <1>11. Drained(w) = after[n]
    BY DEF Drained, Played, start, n, after
  <1>12. Drained(w) = f[n]
    BY <1>1, <1>10, <1>11
  <1>13. f[0] = [arb |-> replica, ok |-> TRUE]
    BY <1>6 DEF start
  <1> QED
    BY <1>6, <1>7, <1>12, <1>13 DEF n

-----------------------------------------------------------------------------
(* The device's history, and the statements that tell of it *)

Entries == [scene : Pictured, overlay : Overlays, told : Nat]

Recorded ==
    /\ said \in [0..device.revision -> Entries]
    /\ said[device.revision].scene = Scene(device)
    /\ said[device.revision].overlay = Overlay(device)
    /\ \A v \in 0..device.revision : SlottedIs(said[v].overlay)
    /\ \A v \in 1..device.revision : said[v].told \in v..device.revision

\* A statement tells of the step to its revision; one of an overlay that ended by
\* itself tells of that step alone.
Tells(h, top, s) ==
    /\ s.revision \in 1..top
    /\ h[s.revision].scene = SceneAfter(h[s.revision - 1].scene, s.command)
    /\ h[s.revision].overlay = OverlayAfter(h[s.revision - 1].overlay, s.command)
    /\ s.command.op = "overlay_expired" =>
          /\ h[s.revision - 1].overlay.kind # "none"
          /\ \A v \in 1..top : h[v].told = s.revision => v = s.revision

\* A picture is of a revision the device had.
ShownIs(p) ==
    /\ p.revision \in 0..device.revision
    /\ said[p.revision].scene = [base |-> p.base, generator |-> p.generator, style |-> p.style]

Typed ==
    /\ device \in Arb /\ replica \in Arb
    /\ stream \in Seq(Sayings) /\ pending \in Seq(Sayings)
    /\ snapshot \in Pictures /\ status \in Pictures
    /\ poll \subseteq Pictures /\ answer \subseteq Pictures

Historic ==
    /\ Typed /\ Recorded
    /\ \A i \in 1..Len(stream) : Tells(said, device.revision, stream[i])
    /\ \A i \in 1..Len(pending) : Tells(said, device.revision, pending[i])
    /\ ShownIs(snapshot) /\ ShownIs(status)
    /\ \A p \in poll \cup answer : ShownIs(p)
    /\ answer # {} => resync = "status"

\* In w, behind its first k, is a statement of revision x.
Awaits(w, k, x) == \E i \in k + 1..Len(w) : w[i].revision = x

\* Whatever the device did after revision r is told by a statement that is still to
\* be played, the first k of the queue aside.
Covered(k, r) ==
    \A v \in r + 1..device.revision :
        Awaits(pending, k, said[v].told) \/ Awaits(stream, 0, said[v].told)

SceneShown(a)   == a.revision \in 0..device.revision /\ Scene(a) = said[a.revision].scene
OverlayShown(a) == /\ a.revision \in 0..device.revision
                   /\ Overlay(a) = Summarised(said[a.revision].overlay)

Harmless(K, c) ==
    c.op # "raw" =>
        \A o \in Overlays : o.kind \in K => OverlayAfter(o, Summary(c)).kind \in K

\* A statement that lands brings what is in step to the revision it tells of.
LEMMA LandsInStep ==
    ASSUME Historic, NEW a \in Arb, NEW s \in Sayings, Tells(said, device.revision, s), Lands(Replayed(a, s), s)
    PROVE  /\ Replayed(a, s).revision = s.revision
           /\ a.revision \in {s.revision, s.revision - 1}
           /\ SceneShown(a) => SceneShown(Replayed(a, s))
           /\ OverlayShown(a) => OverlayShown(Replayed(a, s))
  <1> DEFINE b == Replayed(a, s)
  <1>1. s.revision \in 1..device.revision /\ a.revision \in Nat /\ device.revision \in Nat
        /\ s.command \in Told
    BY DEF Historic, Typed, Tells, Arb, Sayings
  <1>2. b.revision = s.revision
    BY DEF Lands
  <1>3. CASE a.revision = s.revision /\ Scene(b) = Scene(a) /\ Overlay(b) = Overlay(a)
    <2> HIDE DEF b
    <2> QED
      BY <1>2, <1>3 DEF SceneShown, OverlayShown, b
  <1>4. CASE /\ a.revision + 1 = s.revision
             /\ Scene(b) = SceneAfter(Scene(a), s.command)
             /\ Overlay(b) = OverlayAfter(Overlay(a), Summary(s.command))
    <2>1. a.revision = s.revision - 1 /\ s.revision \in 0..device.revision
          /\ s.revision - 1 \in 0..device.revision
      BY <1>1, <1>4
    <2>2. said[s.revision - 1].overlay \in Overlays
      BY <2>1 DEF Historic, Recorded, Entries
    <2>3. Summarised(OverlayAfter(said[s.revision - 1].overlay, s.command))
            = OverlayAfter(Summarised(said[s.revision - 1].overlay), Summary(s.command))
      BY <1>1, <2>2, SummaryFollows
    <2> HIDE DEF b
    <2>4. SceneShown(a) => SceneShown(b)
      BY <1>2, <1>4, <2>1 DEF SceneShown, Tells
    <2>5. OverlayShown(a) => OverlayShown(b)
      BY <1>2, <1>4, <2>1, <2>3 DEF OverlayShown, Tells
    <2> QED
      BY <1>2, <2>1, <2>4, <2>5 DEF b
  <1> QED
    BY <1>3, <1>4, ReplayIs

\* What is played of the queue, one after the other, until a statement does not land.
LEMMA PlayIs ==
    ASSUME Historic, NEW n \in 0..Len(pending), NEW K, replica.kind \in K,
           \A i \in 1..n : Harmless(K, pending[i].command)
    PROVE  LET d == Drained(SubSeq(pending, 1, n))
           IN  /\ d.arb \in Arb /\ d.arb.kind \in K
               /\ n = 0 => d = [arb |-> replica, ok |-> TRUE]
               /\ d.ok => /\ n > 0 => d.arb.revision = pending[n].revision
                          /\ SceneShown(replica) => SceneShown(d.arb)
                          /\ OverlayShown(replica) => OverlayShown(d.arb)
                          /\ Covered(0, replica.revision) => Covered(n, d.arb.revision)
  <1> DEFINE w == SubSeq(pending, 1, n)
             Fine(i, r) == /\ r.arb \in Arb /\ r.arb.kind \in K
                           /\ r.ok => /\ i > 0 => r.arb.revision = pending[i].revision
                                      /\ SceneShown(replica) => SceneShown(r.arb)
                                      /\ OverlayShown(replica) => OverlayShown(r.arb)
                                      /\ Covered(0, replica.revision) => Covered(i, r.arb.revision)
  <1>1. pending \in Seq(Sayings) /\ Len(pending) \in Nat /\ n \in Nat /\ n <= Len(pending)
        /\ \A i \in 1..Len(pending) : pending[i] \in Sayings /\ Tells(said, device.revision, pending[i])
    <2>1. pending \in Seq(Sayings)
      BY DEF Historic, Typed
    <2> QED
      BY <2>1, LenProperties, ElementOfSeq DEF Historic
  <1>2. w \in Seq(Sayings) /\ Len(w) = n /\ \A i \in 1..n : w[i] = pending[i]
    <2>1. 1 \in Int /\ n \in Int /\ \A i \in 1..n : pending[i] \in Sayings
      BY <1>1
    <2> HIDE DEF w
    <2>2. w \in Seq(Sayings) /\ Len(w) = (IF 1 <= n THEN n - 1 + 1 ELSE 0)
          /\ \A i \in 1..n - 1 + 1 : w[i] = pending[1 + i - 1]
      BY <2>1, SubSeqProperties DEF w
    <2> QED
      BY <1>1, <2>2
  <1> HIDE DEF w
  <1>3. PICK f \in [0..n -> Drainings] :
              /\ f[0] = [arb |-> replica, ok |-> TRUE]
              /\ \A i \in 1..n : f[i] = Played(f[i - 1], w[i])
              /\ Drained(w) = f[n]
    <2>1. replica \in Arb
      BY DEF Historic, Typed
    <2> QED
      BY <1>2, <2>1, DrainIs
  <1>4. Fine(0, f[0])
    BY <1>3 DEF Historic, Typed
  <1>5. ASSUME NEW i \in 1..n, NEW r \in Drainings, Fine(i - 1, r)
        PROVE  Fine(i, Played(r, w[i]))
    <2> DEFINE s == pending[i]
               b == Replayed(r.arb, s)
    <2>1. s \in Sayings /\ Tells(said, device.revision, s) /\ r.arb \in Arb /\ w[i] = s /\ Harmless(K, s.command)
          /\ i \in 1..Len(pending)
      BY <1>1, <1>2, <1>5
    <2>2. CASE ~r.ok
      BY <1>5, <2>2 DEF Played
    <2>3. CASE r.ok
      <3>1. Played(r, w[i]) = [arb |-> b, ok |-> Lands(b, s)]
        BY <2>1, <2>3 DEF Played
      <3>2. b \in Arb /\ b.kind \in K
        <4>1. b \in Arb /\ (\/ Overlay(b) = Overlay(r.arb)
                            \/ /\ s.command.op # "raw"
                               /\ Overlay(b) = OverlayAfter(Overlay(r.arb), Summary(s.command)))
          BY <2>1, ReplayIs
        <4>2. Overlay(b).kind = b.kind /\ Overlay(r.arb).kind = r.arb.kind /\ Overlay(r.arb) \in Overlays
          BY <2>1, <4>1, OverlayIs
        <4> HIDE DEF b, s
        <4> QED
          BY <1>5, <2>1, <4>1, <4>2 DEF Harmless
      <3>3. ASSUME Lands(b, s)
            PROVE  /\ b.revision = pending[i].revision
                   /\ SceneShown(replica) => SceneShown(b)
                   /\ OverlayShown(replica) => OverlayShown(b)
                   /\ Covered(0, replica.revision) => Covered(i, b.revision)
        <4>1. /\ b.revision = s.revision /\ r.arb.revision \in {s.revision, s.revision - 1}
              /\ SceneShown(r.arb) => SceneShown(b)
              /\ OverlayShown(r.arb) => OverlayShown(b)
          BY <2>1, <3>3, LandsInStep
        <4>2. ASSUME Covered(i - 1, r.arb.revision)
              PROVE  Covered(i, b.revision)
          <5> SUFFICES ASSUME NEW v \in b.revision + 1..device.revision
                       PROVE  Awaits(pending, i, said[v].told) \/ Awaits(stream, 0, said[v].told)
            BY DEF Covered
          <5>1. s.revision \in 1..device.revision /\ device.revision \in Nat
            BY <2>1 DEF Tells, Historic, Typed, Arb
          <5>2. v \in r.arb.revision + 1..device.revision /\ v \in 1..device.revision
                /\ s.revision < v
            BY <4>1, <5>1
          <5>3. said[v].told \in v..device.revision
            BY <5>2 DEF Historic, Recorded
          <5>4. Awaits(pending, i - 1, said[v].told) \/ Awaits(stream, 0, said[v].told)
            BY <4>2, <5>2 DEF Covered
          <5>5. s.revision # said[v].told
            BY <5>1, <5>2, <5>3
          <5> HIDE DEF b
          <5>6. Awaits(pending, i - 1, said[v].told) => Awaits(pending, i, said[v].told)
            BY <1>1, <5>5 DEF Awaits
          <5> QED
            BY <5>4, <5>6
        <4> HIDE DEF b
        <4> QED
          BY <1>5, <2>3, <4>1, <4>2
      <3> HIDE DEF b, s
      <3>4. ASSUME NEW l, l = Lands(b, s)
            PROVE  Fine(i, [arb |-> b, ok |-> l])
        BY <3>2, <3>3, <3>4 DEF s
      <3> QED
        BY <3>1, <3>4
    <2> QED
      BY <2>2, <2>3
  <1> DEFINE S == {i \in 0..n : Fine(i, f[i])}
  <1> HIDE DEF Fine
  <1>6. 0 \in S
    BY <1>1, <1>4
  <1>7. \A i \in 1..n : i - 1 \in S => i \in S
    <2> SUFFICES ASSUME NEW i \in 1..n, i - 1 \in S
                 PROVE  i \in S
      OBVIOUS
    <2>1. f[i - 1] \in Drainings /\ Fine(i - 1, f[i - 1])
      BY <1>1, <1>3
    <2>2. Fine(i, Played(f[i - 1], w[i]))
      BY <1>5, <2>1
    <2> QED
      BY <1>1, <1>3, <2>2
  <1> HIDE DEF S
  <1>8. \A i \in 0..n : i \in S
    BY <1>1, <1>6, <1>7, Climb
  <1>9. Fine(n, f[n])
    BY <1>1, <1>8 DEF S
  <1> QED
    BY <1>3, <1>9 DEF Fine, w

-----------------------------------------------------------------------------
(* The device changes *)

LEMMA AppendAwaits ==
    ASSUME NEW w \in Seq(Sayings), NEW s \in Sayings, NEW k \in 0..Len(w), NEW x
    PROVE  /\ Awaits(w, k, x) => Awaits(Append(w, s), k, x)
           /\ Awaits(Append(w, s), k, s.revision)
           /\ Append(w, s) \in Seq(Sayings) /\ Len(Append(w, s)) = Len(w) + 1
           /\ Append(w, s)[Len(w) + 1] = s /\ \A i \in 1..Len(w) : Append(w, s)[i] = w[i]
  <1> DEFINE u == Append(w, s)
  <1>1. /\ u \in Seq(Sayings) /\ Len(u) = Len(w) + 1 /\ u[Len(w) + 1] = s
        /\ \A i \in 1..Len(w) : u[i] = w[i]
    BY AppendProperties
  <1>2. Len(w) \in Nat
    BY LenProperties
  <1> HIDE DEF u
  <1>3. Len(w) + 1 \in k + 1..Len(u) /\ \A i \in k + 1..Len(w) : i \in 1..Len(w) /\ i \in k + 1..Len(u)
    BY <1>1, <1>2
  <1>4. Awaits(w, k, x) => Awaits(u, k, x)
    BY <1>1, <1>3 DEF Awaits
  <1>5. Awaits(u, k, s.revision)
    BY <1>1, <1>3 DEF Awaits
  <1> QED
    BY <1>1, <1>4, <1>5 DEF u

\* What the device went through, and what it says of it.
Chronicle(made, command) ==
    /\ made \in Seq(Arb) /\ made # <<>> /\ command \in Told
    /\ \A k \in 1..Len(made) : /\ made[k].revision = device.revision + k
                               /\ SlottedIs(Overlay(made[k]))
    /\ Scene(made[Len(made)]) = SceneAfter(Scene(Before(device, made)), command)
    /\ Overlay(made[Len(made)]) = OverlayAfter(Overlay(Before(device, made)), command)
    /\ command.op = "overlay_expired" => Len(made) = 1 /\ device.kind # "none"

LEMMA ChangesHistoric ==
    ASSUME Historic, NEW made, NEW command, Chronicle(made, command), Changes(made, command)
    PROVE  /\ Historic'
           /\ device'.revision = device.revision + Len(made) /\ Len(made) \in Nat \ {0}
           /\ \A v \in 0..device.revision : said'[v] = said[v]
           /\ \A v \in device.revision + 1..device'.revision : said'[v].told = device'.revision
           /\ device'.revision \in Nat /\ device' = made[Len(made)]
  <1> DEFINE m   == Len(made)
             top == device.revision + m
             s   == [revision |-> top, command |-> command]
  <1>1. m \in Nat \ {0} /\ made \in Seq(Arb) /\ \A k \in 1..m : made[k] \in Arb
    BY EmptySeq, ElementOfSeq DEF Chronicle
  <1>2. device.revision \in Nat /\ top \in Nat /\ device.revision < top
    <2>1. device.revision \in Nat
      BY DEF Historic, Typed, Arb
    <2> HIDE DEF m
    <2> QED
      BY <1>1, <2>1
  <1>3. device' = made[m] /\ device' \in Arb /\ device'.revision = top
    <2>0. device' = made[m]
      BY DEF Changes
    <2>1. device' = made[m] /\ m \in 1..m
      <3> HIDE DEF m
      <3> QED
        BY <1>1, <2>0
    <2>2. made[m].revision = top /\ made[m] \in Arb
      BY <1>1, <2>1 DEF Chronicle
    <2> QED
      BY <2>1, <2>2
  <1>4. said' = [v \in 0..top |-> IF v <= device.revision THEN said[v]
                                  ELSE Entry(made[v - device.revision], top)]
    BY DEF Changes
  <1>5. /\ stream' = stream \/ stream' = Append(stream, s)
        /\ UNCHANGED <<snapshot, pending, status, poll, answer, resync, replica>>
    BY DEF Changes, Publish, stream_vars, answer_vars, mirror_vars
  <1>6. s \in Sayings
    BY <1>2 DEF Chronicle, Sayings
  <1> HIDE DEF m
  <1>7. \A v \in 0..device.revision : v \in 0..top /\ said'[v] = said[v]
    BY <1>2, <1>4
  <1>8. ASSUME NEW v \in device.revision + 1..top
        PROVE  /\ v - device.revision \in 1..m
               /\ said'[v] = Entry(made[v - device.revision], top)
    <2>1. v \in 0..top /\ ~(v <= device.revision) /\ v - device.revision \in 1..m
      BY <1>1, <1>2
    <2> QED
      BY <1>4, <2>1
  <1>9. \A v \in device.revision + 1..top :
            said'[v] \in Entries /\ said'[v].told = top /\ SlottedIs(said'[v].overlay)
    <2> TAKE v \in device.revision + 1..top
    <2> DEFINE k == v - device.revision
    <2>1. k \in 1..m /\ said'[v] = Entry(made[k], top) /\ made[k] \in Arb
      BY <1>1, <1>8
    <2> HIDE DEF k
    <2>2. Scene(made[k]) \in Pictured /\ Overlay(made[k]) \in Overlays /\ SlottedIs(Overlay(made[k]))
      BY <2>1, OverlayIs DEF Chronicle, m
    <2> HIDE DEF top
    <2> QED
      BY <1>2, <2>1, <2>2 DEF Entry, Entries
  <1> HIDE DEF top, s
  <1>10. \A v \in 0..top : v \in 0..device.revision \/ v \in device.revision + 1..top
    BY <1>1, <1>2 DEF top
  <1>11. said' \in [0..top -> Entries]
    <2>1. \A v \in 0..top : said'[v] \in Entries
      BY <1>7, <1>9, <1>10 DEF Historic, Recorded
    <2>2. DOMAIN said' = 0..top
      BY <1>4 DEF top
    <2>3. said' = [v \in 0..top |-> said'[v]]
      BY <1>4 DEF top
    <2> QED
      BY <2>1, <2>3
  <1>12. /\ said'[top].scene = Scene(made[m]) /\ said'[top].overlay = Overlay(made[m])
         /\ top \in device.revision + 1..top
    <2>1. top \in device.revision + 1..top
      BY <1>2
    <2>2. top - device.revision = m
      BY <1>1, <1>2 DEF top
    <2>3. said'[top] = Entry(made[m], top)
      BY <1>8, <2>1, <2>2 DEF top
    <2> HIDE DEF top
    <2> QED
      BY <2>1, <2>3 DEF Entry
  <1>13. /\ top - 1 \in 0..top
         /\ said'[top - 1].scene = Scene(Before(device, made))
         /\ said'[top - 1].overlay = Overlay(Before(device, made))
    <2>1. CASE m = 1
      <3>1. top - 1 = device.revision /\ device.revision \in 0..device.revision
        BY <1>2, <2>1 DEF top
      <3>2. Before(device, made) = device
        BY <2>1 DEF Before, m
      <3> QED
        BY <1>2, <1>7, <3>1, <3>2 DEF Historic, Recorded
    <2>2. CASE m # 1
      <3>1. top - 1 \in device.revision + 1..top /\ (top - 1) - device.revision = m - 1
        BY <1>1, <1>2, <2>2 DEF top
      <3>2. Before(device, made) = made[m - 1]
        BY <2>2 DEF Before, m
      <3>3. said'[top - 1] = Entry(made[m - 1], top)
        BY <1>8, <3>1 DEF top
      <3> QED
        BY <1>2, <3>1, <3>2, <3>3 DEF Entry
    <2> QED
      BY <2>1, <2>2
  <1>14. Recorded'
    <2>1. \A v \in 0..top : SlottedIs(said'[v].overlay)
      BY <1>7, <1>9, <1>10 DEF Historic, Recorded
    <2>2. \A v \in 1..top : said'[v].told \in v..top
      <3> TAKE v \in 1..top
      <3>1. CASE v \in 0..device.revision
        <4>1. v \in 1..device.revision
          BY <1>2, <3>1
        <4>2. said'[v].told \in v..device.revision
          BY <1>7, <3>1, <4>1 DEF Historic, Recorded
        <4> QED
          BY <1>2, <4>2
      <3>2. CASE v \in device.revision + 1..top
        BY <1>2, <1>9, <3>2
      <3> QED
        BY <1>2, <1>10, <3>1, <3>2
    <2> QED
      BY <1>3, <1>11, <1>12, <2>1, <2>2 DEF Recorded, m
  <1>15. ASSUME NEW t, Tells(said, device.revision, t)
         PROVE  Tells(said', top, t)
    <2>1. t.revision \in 1..device.revision /\ t.revision \in 1..top
          /\ t.revision \in 0..device.revision /\ t.revision - 1 \in 0..device.revision
          /\ t.revision < top
      BY <1>2, <1>15 DEF Tells
    <2>2. said'[t.revision] = said[t.revision] /\ said'[t.revision - 1] = said[t.revision - 1]
      BY <1>7, <2>1
    <2>3. ASSUME NEW v \in 1..top, t.command.op = "overlay_expired", said'[v].told = t.revision
          PROVE  v = t.revision
      <3>1. v \in 0..device.revision
        BY <1>2, <1>9, <1>10, <2>1, <2>3
      <3>2. v \in 1..device.revision /\ said'[v] = said[v]
        BY <1>2, <1>7, <2>3, <3>1
      <3> QED
        BY <1>15, <2>3, <3>2 DEF Tells
    <2> QED
      BY <1>3, <1>15, <2>1, <2>2, <2>3 DEF Tells
  <1>16. Tells(said', top, s)
    <2>1. s.revision = top /\ s.command = command
      BY DEF s
    <2>2. ASSUME command.op = "overlay_expired"
          PROVE  /\ said'[top - 1].overlay.kind # "none"
                 /\ \A v \in 1..top : said'[v].told = top => v = top
      <3>1. m = 1 /\ device.kind # "none"
        BY <2>2 DEF Chronicle, m
      <3>2. Before(device, made) = device /\ Overlay(device).kind = device.kind
            /\ top = device.revision + 1
        BY <3>1 DEF Before, Overlay, m, top
      <3>3. \A v \in 1..device.revision : said'[v].told # top
        <4> TAKE v \in 1..device.revision
        <4>1. said[v].told \in v..device.revision /\ said'[v] = said[v]
          BY <1>2, <1>7 DEF Historic, Recorded
        <4> QED
          BY <1>2, <4>1
      <3>4. \A v \in 1..top : v = top \/ v \in 1..device.revision
        BY <1>2, <3>2
      <3> QED
        BY <1>13, <3>1, <3>2, <3>3, <3>4
    <2>3. top \in 1..top
      BY <1>2
    <2> QED
      BY <1>3, <1>12, <1>13, <2>1, <2>2, <2>3 DEF Tells, Chronicle, m
  <1>17. \A i \in 1..Len(stream') : Tells(said', top, stream'[i])
    <2>1. stream \in Seq(Sayings) /\ Len(stream) \in Nat
      BY LenProperties DEF Historic, Typed
    <2>2. CASE stream' = stream
      <3>1. \A i \in 1..Len(stream) : Tells(said', top, stream[i])
        BY <1>15, <2>2 DEF Historic
      <3> QED
        BY <2>2, <3>1
    <2>3. CASE stream' = Append(stream, s)
      <3>1. /\ Len(stream') = Len(stream) + 1 /\ stream'[Len(stream) + 1] = s
            /\ \A i \in 1..Len(stream) : stream'[i] = stream[i]
        BY <1>6, <2>1, <2>3, AppendProperties
      <3> TAKE i \in 1..Len(stream')
      <3>2. CASE i = Len(stream) + 1
        BY <1>16, <3>1, <3>2
      <3>3. CASE i # Len(stream) + 1
        <4>1. i \in 1..Len(stream) /\ stream'[i] = stream[i]
          BY <2>1, <3>1, <3>3
        <4> QED
          BY <1>15, <4>1 DEF Historic
      <3> QED
        BY <3>2, <3>3
    <2> QED
      BY <1>5, <2>2, <2>3
  <1>18. \A i \in 1..Len(pending) : Tells(said', top, pending[i])
    BY <1>15 DEF Historic
  <1>19. \A p \in Pictures : ShownIs(p) => ShownIs(p)'
    <2> TAKE p \in Pictures
    <2>1. ASSUME ShownIs(p)
          PROVE  p.revision \in 0..top /\ said'[p.revision] = said[p.revision]
      BY <1>7, <2>1 DEF ShownIs
    <2> QED
      BY <1>3, <2>1 DEF ShownIs
  <1>20. Typed'
    <2>1. stream' \in Seq(Sayings)
      BY <1>5, <1>6, AppendProperties DEF Historic, Typed
    <2> QED
      BY <1>3, <1>5, <2>1 DEF Historic, Typed
  <1>21. ShownIs(snapshot)' /\ ShownIs(status)' /\ \A p \in poll \cup answer : ShownIs(p)'
    BY <1>5, <1>19 DEF Historic, Typed, ShownIs
  <1>22. Historic'
    BY <1>3, <1>5, <1>14, <1>17, <1>18, <1>20, <1>21 DEF Historic
  <1> QED
    BY <1>1, <1>2, <1>3, <1>7, <1>9, <1>22 DEF top, m

\* What had a statement to come still has, and what a statement tells of has one.
LEMMA ChangesCovered ==
    ASSUME Historic, NEW made, NEW command, Chronicle(made, command), Changes(made, command),
           stream' = Append(stream, [revision |-> device.revision + Len(made), command |-> command]),
           NEW k \in 0..Len(pending), NEW r \in 0..device.revision, Covered(k, r)
    PROVE  Covered(k, r)'
  <1> DEFINE top == device.revision + Len(made)
             s   == [revision |-> top, command |-> command]
  <1>1. /\ device'.revision = top /\ top \in Nat /\ device.revision \in Nat
        /\ \A v \in 0..device.revision : said'[v] = said[v]
        /\ \A v \in device.revision + 1..top : said'[v].told = top
    BY ChangesHistoric DEF Historic, Typed, Arb
  <1>2. stream \in Seq(Sayings) /\ s \in Sayings /\ 0 \in 0..Len(stream)
    BY <1>1, LenProperties DEF Historic, Typed, Chronicle, Sayings
  <1>3. pending' = pending
    BY DEF Changes
  <1>4. s.revision = top /\ stream' = Append(stream, s)
    OBVIOUS
  <1> HIDE DEF top, s
  <1>5. ASSUME NEW v \in r + 1..top
        PROVE  Awaits(pending, k, said'[v].told) \/ Awaits(stream', 0, said'[v].told)
    <2>1. CASE v <= device.revision
      <3>1. v \in r + 1..device.revision /\ said'[v] = said[v]
        BY <1>1, <2>1
      <3>2. Awaits(pending, k, said[v].told) \/ Awaits(stream, 0, said[v].told)
        BY <3>1 DEF Covered
      <3> QED
        BY <1>2, <1>4, <3>1, <3>2, AppendAwaits
    <2>2. CASE ~(v <= device.revision)
      <3>1. v \in device.revision + 1..top
        BY <1>1, <2>2
      <3> QED
        BY <1>1, <1>2, <1>4, <3>1, AppendAwaits
    <2> QED
      BY <2>1, <2>2
  <1> QED
    BY <1>1, <1>3, <1>5 DEF Covered

\* The overlays of the device, and the commands of its packets, as far as the
\* notifications that wait are concerned.
SlottedOverlays == {o \in Overlays : SlottedIs(o)}

LEMMA SaidKeepsSlots == Keeps(SlottedOverlays, Said)
  BY OverlayAfterIs DEF Keeps, SlottedOverlays, Told

LEMMA PacketChronicle ==
    ASSUME Historic, NEW Cs, NEW O, Keeps(O, Cs), O \subseteq SlottedOverlays, Overlay(device) \in O,
           NEW p \in Seq(Cs), Handle(device, p).made # <<>>
    PROVE  /\ Chronicle(Handle(device, p).made, Handle(device, p).command)
           /\ Tally(device, Cs, O, Handle(device, p).made, Handle(device, p).command)
  <1> DEFINE made == Handle(device, p).made
             command == Handle(device, p).command
  <1>1. device \in Arb
    BY DEF Historic, Typed
  <1>2. Tally(device, Cs, O, made, command)
    BY <1>1, PacketIs
  <1> HIDE DEF made, command
  <1>3. command \in Said /\ command.op # "overlay_expired"
    BY <1>2 DEF Tally, Keeps, Said, made
  <1>4. Chronicle(made, command)
    BY <1>2, <1>3 DEF Tally, Chronicle, SlottedOverlays, Told, made
  <1> QED
    BY <1>2, <1>4 DEF made, command

LEMMA ExpiryChronicle ==
    ASSUME Historic, Timed(device)
    PROVE  Chronicle(<<Drawn(ExpireOverlay(device))>>, [op |-> "overlay_expired"])
  <1> DEFINE b == Drawn(ExpireOverlay(device))
             made == <<b>>
  <1>1. device \in Arb /\ device.kind # "none"
    BY DEF Historic, Typed, Timed
  <1>2. b \in Arb /\ Scene(b) = Scene(device) /\ Overlay(b) = OverlayAfter(Overlay(device), Expiry)
        /\ b.revision = device.revision + 1
    BY <1>1, Ended
  <1>3. SlottedIs(Overlay(b))
    <2>1. Overlay(device) \in Overlays /\ SlottedIs(Overlay(device)) /\ Expiry \in Told
          /\ device.revision \in 0..device.revision
      BY <1>1, OverlayIs DEF Historic, Recorded, Told, Arb
    <2> HIDE DEF b
    <2> QED
      BY <1>2, <2>1, OverlayAfterIs
  <1> HIDE DEF b
  <1>4. made \in Seq(Arb) /\ Len(made) = 1 /\ made[1] = b /\ made # <<>>
    BY <1>2
  <1>5. Before(device, made) = device
    BY <1>4 DEF Before
  <1> HIDE DEF made
  <1>6. \A k \in 1..Len(made) : made[k].revision = device.revision + k /\ SlottedIs(Overlay(made[k]))
    BY <1>2, <1>3, <1>4
  <1>7. \A sc : SceneAfter(sc, Expiry) = sc
    BY DEF SceneAfter, Expiry
  <1>8. Chronicle(made, Expiry)
    BY <1>1, <1>2, <1>4, <1>5, <1>6, <1>7 DEF Chronicle, Told
  <1> QED
    BY <1>8 DEF made, b, Expiry

-----------------------------------------------------------------------------
(* What a picture makes of the replica *)

LEMMA DrawnIs ==
    ASSUME NEW a \in Arb
    PROVE  /\ Drawn(a) \in Arb /\ Scene(Drawn(a)) = Scene(a) /\ Overlay(Drawn(a)) = Overlay(a)
           /\ Drawn(a).revision = a.revision
  BY DEF Drawn, Arb, Scene, Overlay

SceneOf(p) == [base |-> p.base, generator |-> p.generator, style |-> p.style]

LEMMA ResetIs ==
    ASSUME NEW p \in Pictures
    PROVE  /\ Reset(p) \in Arb /\ Reset(p).kind = "none" /\ Overlay(Reset(p)) = Bare("none")
           /\ Reset(p).revision = p.revision
           /\ p.style = DefaultStyle => Scene(Reset(p)) = SceneOf(p)
  <1> DEFINE a == ArbiterInit(p.base, p.generator, DefaultStyle, TRUE)
             b == Drawn(a)
  <1>1. a \in Arb /\ Overlay(a) = Bare("none")
        /\ Scene(a) = [base |-> p.base, generator |-> p.generator, style |-> DefaultStyle]
    BY Constants, MirrorAssumption
       DEF MirrorAssumption, ArbiterInit, Arb, Overlay, Bare, Scene, Pictures
  <1> HIDE DEF a
  <1>2. b \in Arb /\ Scene(b) = Scene(a) /\ Overlay(b) = Overlay(a)
    BY <1>1, DrawnIs
  <1>3. Reset(p) = [b EXCEPT !.revision = p.revision] /\ p.revision \in Nat
    BY DEF Reset, a, Pictures
  <1> HIDE DEF b
  <1>4. /\ Reset(p) \in Arb /\ Scene(Reset(p)) = Scene(b) /\ Overlay(Reset(p)) = Overlay(b)
        /\ Reset(p).revision = p.revision
    BY <1>2, <1>3 DEF Arb, Scene, Overlay
  <1>5. Overlay(Reset(p)).kind = Reset(p).kind
    BY DEF Overlay
  <1> QED
    BY <1>1, <1>2, <1>4, <1>5 DEF Bare, SceneOf

\* Fields that did not go in before, or that are there already, make a picture's scene.
LEMMA PlacedIs ==
    ASSUME NEW a \in Arb, status \in Pictures
    PROVE  /\ Placed(a) \in Arb
           /\ Overlay(Placed(a)) \in {Overlay(a), Bare("none")}
           /\ /\ applied.base \subseteq {a.base} /\ applied.generator \subseteq {a.generator}
              /\ applied.style \subseteq {a.style}
              => Scene(Placed(a)) = SceneOf(status)
  <1> DEFINE b == IF applied.base = {status.base} THEN a ELSE SetBase(a, status.base)
             g == IF applied.generator = {status.generator} THEN b
                  ELSE SelectGenerator(b, status.generator)
             s == IF applied.style = {status.style} THEN g ELSE SetStyle(g, status.style)
  <1>1. status.base \in Bases /\ status.generator \in Generators /\ status.style \in Styles
    BY DEF Pictures
  <1>2. /\ b \in Arb /\ Overlay(b) \in {Overlay(a), Bare("none")}
        /\ Scene(b).generator = a.generator /\ Scene(b).style = a.style
        /\ applied.base \subseteq {a.base} => Scene(b).base = status.base
    <2>1. Yields(a, SetBase(a, status.base), [Scene(a) EXCEPT !.base = status.base], Bare("none"))
      BY <1>1, SetBaseYields
    <2> QED
      BY <2>1 DEF Yields, Scene
  <1> HIDE DEF b
  <1>3. /\ g \in Arb /\ Overlay(g) = Overlay(b)
        /\ Scene(g).base = Scene(b).base /\ Scene(g).style = Scene(b).style
        /\ applied.generator \subseteq {Scene(b).generator} => Scene(g).generator = status.generator
    <2>1. Yields(b, SelectGenerator(b, status.generator),
                 [Scene(b) EXCEPT !.generator = status.generator], Overlay(b))
      BY <1>1, <1>2, SelectGeneratorYields
    <2> QED
      BY <1>2, <2>1 DEF Yields, Scene
  <1> HIDE DEF g
  <1>4. /\ s \in Arb /\ Overlay(s) = Overlay(g)
        /\ Scene(s).base = Scene(g).base /\ Scene(s).generator = Scene(g).generator
        /\ applied.style \subseteq {Scene(g).style} => Scene(s).style = status.style
    <2>1. Yields(g, SetStyle(g, status.style), [Scene(g) EXCEPT !.style = status.style], Overlay(g))
      BY <1>1, <1>3, SetStyleYields
    <2> QED
      BY <1>3, <2>1 DEF Yields, Scene
  <1>5. Placed(a) = Drawn(s)
    BY DEF Placed, s, g, b
  <1> HIDE DEF s
  <1>6. Placed(a) \in Arb /\ Scene(Placed(a)) = Scene(s) /\ Overlay(Placed(a)) = Overlay(s)
    BY <1>4, <1>5, DrawnIs
  <1>7. Scene(s) = [base |-> Scene(s).base, generator |-> Scene(s).generator, style |-> Scene(s).style]
    BY DEF Scene
  <1> QED
    BY <1>2, <1>3, <1>4, <1>6, <1>7 DEF SceneOf

-----------------------------------------------------------------------------
(* Statements that stay in the queue *)

LEMMA RestIs ==
    ASSUME NEW w \in Seq(Sayings), NEW n \in 0..Len(w)
    PROVE  LET u == SubSeq(w, n + 1, Len(w))
           IN  /\ u \in Seq(Sayings) /\ Len(u) = Len(w) - n
               /\ \A i \in 1..Len(u) : u[i] = w[n + i] /\ n + i \in 1..Len(w)
               /\ \A k \in 0..Len(u) : \A x : Awaits(w, n + k, x) => Awaits(u, k, x)
  <1> DEFINE u == SubSeq(w, n + 1, Len(w))
  <1>1. Len(w) \in Nat /\ n \in Nat /\ n <= Len(w) /\ \A i \in 1..Len(w) : w[i] \in Sayings
    BY LenProperties, ElementOfSeq
  <1>2. /\ u \in Seq(Sayings) /\ Len(u) = Len(w) - n
        /\ \A i \in 1..Len(w) - n : u[i] = w[n + i] /\ n + i \in 1..Len(w)
    <2>1. \A i \in n + 1..Len(w) : w[i] \in Sayings
      BY <1>1
    <2>2. n + 1 \in Int /\ Len(w) \in Int
      BY <1>1
    <2> HIDE DEF u
    <2>3. /\ u \in Seq(Sayings)
          /\ Len(u) = (IF n + 1 <= Len(w) THEN Len(w) - (n + 1) + 1 ELSE 0)
          /\ \A i \in 1..Len(w) - (n + 1) + 1 : u[i] = w[n + 1 + i - 1]
      BY <2>1, <2>2, SubSeqProperties DEF u
    <2>4. Len(u) = Len(w) - n /\ Len(w) - (n + 1) + 1 = Len(w) - n
      BY <1>1, <2>3
    <2>5. ASSUME NEW i \in 1..Len(w) - n
          PROVE  u[i] = w[n + i] /\ n + i \in 1..Len(w)
      <3>1. n + 1 + i - 1 = n + i /\ n + i \in 1..Len(w)
        BY <1>1
      <3> QED
        BY <2>3, <2>4, <3>1
    <2> QED
      BY <2>3, <2>4, <2>5
  <1> HIDE DEF u
  <1>3. ASSUME NEW k \in 0..Len(u), NEW x, Awaits(w, n + k, x)
        PROVE  Awaits(u, k, x)
    <2>1. PICK i \in n + k + 1..Len(w) : w[i].revision = x
      BY <1>3 DEF Awaits
    <2>2. i - n \in k + 1..Len(u) /\ i - n \in 1..Len(w) - n /\ n + (i - n) = i
      BY <1>1, <1>2, <2>1
    <2>3. u[i - n] = w[i]
      BY <1>2, <2>2
    <2> QED
      BY <2>1, <2>2, <2>3 DEF Awaits
  <1> QED
    BY <1>2, <1>3 DEF u

\* What the replica ends by its own clock, the device ended by its own.
LEMMA EndsOnTime ==
    ASSUME Historic, NEW n \in 0..Len(pending), NEW a \in Arb,
           OnTime(a, SubSeq(pending, n + 1, Len(pending)) \o stream), Covered(n, a.revision)
    PROVE  LET b == Drawn(ExpireOverlay(a))
           IN  /\ SceneShown(a) => SceneShown(b)
               /\ OverlayShown(a) => OverlayShown(b)
               /\ Covered(n, b.revision)
  <1> DEFINE b == Drawn(ExpireOverlay(a))
             u == SubSeq(pending, n + 1, Len(pending))
             rest == u \o stream
             v == a.revision + 1
             t == said[v].told
  <1>1. /\ pending \in Seq(Sayings) /\ stream \in Seq(Sayings) /\ device.revision \in Nat
        /\ a.revision \in Nat /\ Len(stream) \in Nat
    BY LenProperties DEF Historic, Typed, Arb
  <1>2. a.kind # "none" /\ v \in 1..device.revision /\ v \in v..device.revision
        /\ \A i \in DOMAIN rest : rest[i].revision = t => rest[i].command.op = "overlay_expired"
    BY <1>1 DEF OnTime, Timed
  <1>3. /\ b \in Arb /\ Scene(b) = Scene(a) /\ Overlay(b) = OverlayAfter(Overlay(a), Expiry)
        /\ b.revision = v
    BY <1>2, Ended
  <1>4. /\ u \in Seq(Sayings) /\ Len(u) \in Nat
        /\ \A i \in 1..Len(u) : u[i] = pending[n + i] /\ n + i \in 1..Len(pending)
        /\ \A x : Awaits(pending, n, x) => Awaits(u, 0, x)
    <2>1. Len(u) \in Nat /\ n + 0 = n
      BY <1>1, RestIs, LenProperties
    <2> HIDE DEF u
    <2>2. 0 \in 0..Len(u)
      BY <2>1
    <2> QED
      BY <1>1, <2>1, <2>2, RestIs DEF u
  <1> HIDE DEF b, u
  <1>5. /\ DOMAIN rest = 1..Len(u) + Len(stream)
        /\ \A i \in 1..Len(u) + Len(stream) : rest[i] = IF i <= Len(u) THEN u[i] ELSE stream[i - Len(u)]
    BY <1>1, <1>4, ConcatProperties, LenProperties
  <1> HIDE DEF rest, t
  <1>6. \E s : /\ s.revision = t /\ s.command.op = "overlay_expired" /\ s.command \in Told
               /\ Tells(said, device.revision, s)
    <2>1. Awaits(u, 0, t) \/ Awaits(stream, 0, t)
      BY <1>2, <1>4 DEF Covered, t
    <2>2. CASE Awaits(u, 0, t)
      <3>1. PICK i \in 1..Len(u) : u[i].revision = t
        BY <2>2 DEF Awaits
      <3>2. i \in DOMAIN rest /\ rest[i] = u[i]
        BY <1>1, <1>4, <1>5, <3>1
      <3>3. u[i].command \in Told /\ Tells(said, device.revision, u[i])
        <4>1. u[i] \in Sayings
          BY <1>4, ElementOfSeq
        <4> QED
          BY <1>4, <4>1 DEF Historic, Sayings
      <3> QED
        BY <1>2, <3>1, <3>2, <3>3
    <2>3. CASE Awaits(stream, 0, t)
      <3>1. PICK i \in 1..Len(stream) : stream[i].revision = t
        BY <2>3 DEF Awaits
      <3>2. Len(u) + i \in DOMAIN rest /\ rest[Len(u) + i] = stream[i]
        <4>1. Len(u) + i \in 1..Len(u) + Len(stream) /\ ~(Len(u) + i <= Len(u))
              /\ (Len(u) + i) - Len(u) = i
          BY <1>1, <1>4
        <4> QED
          BY <1>5, <4>1
      <3>3. stream[i].command \in Told /\ Tells(said, device.revision, stream[i])
        <4>1. stream[i] \in Sayings
          BY <1>1, ElementOfSeq
        <4> QED
          BY <4>1 DEF Historic, Sayings
      <3> QED
        BY <1>2, <3>1, <3>2, <3>3
    <2> QED
      BY <2>1, <2>2, <2>3
  <1>7. PICK s : /\ s.revision = t /\ s.command.op = "overlay_expired" /\ s.command \in Told
                 /\ Tells(said, device.revision, s)
    BY <1>6
  <1>8. s.command = Expiry /\ s.revision = v /\ v - 1 = a.revision
    <2>1. s.command = Expiry
      BY <1>7 DEF Told, Said
    <2>2. s.revision = v
      BY <1>2, <1>7 DEF Tells, t
    <2> QED
      BY <1>1, <2>1, <2>2
  <1>9. /\ said[v].scene = said[a.revision].scene
        /\ said[v].overlay = OverlayAfter(said[a.revision].overlay, Expiry)
        /\ v \in 0..device.revision /\ a.revision \in 0..device.revision
    BY <1>1, <1>2, <1>7, <1>8 DEF Tells, SceneAfter, Expiry
  <1>10. SceneShown(a) => SceneShown(b)
    BY <1>3, <1>9 DEF SceneShown
  <1>11. OverlayShown(a) => OverlayShown(b)
    <2>1. said[a.revision].overlay \in Overlays /\ Expiry \in Told /\ Summary(Expiry) = Expiry
      BY <1>9 DEF Historic, Recorded, Entries, Told, Summary, Expiry
    <2> QED
      BY <1>3, <1>9, <2>1, SummaryFollows DEF OverlayShown
  <1>12. Covered(n, b.revision)
    <2>1. \A x \in v + 1..device.revision : x \in a.revision + 1..device.revision
      BY <1>1
    <2> QED
      BY <1>3, <2>1 DEF Covered
  <1> QED
    BY <1>10, <1>11, <1>12 DEF b

LEMMA Received ==
    ASSUME NEW w \in Seq(Sayings), NEW u \in Seq(Sayings), u # <<>>
    PROVE  /\ Append(w, Head(u)) \in Seq(Sayings) /\ Tail(u) \in Seq(Sayings)
           /\ Len(Append(w, Head(u))) = Len(w) + 1 /\ Append(w, Head(u))[Len(w) + 1] = u[1]
           /\ \A i \in 1..Len(w) : Append(w, Head(u))[i] = w[i]
           /\ Len(Tail(u)) = Len(u) - 1
           /\ \A i \in 1..Len(Tail(u)) : Tail(u)[i] = u[i + 1] /\ i + 1 \in 1..Len(u)
           /\ 1 \in 1..Len(u) /\ Len(w) \in Nat /\ Len(u) \in Nat
           /\ \A k \in 0..Len(w) : \A x :
                 Awaits(w, k, x) \/ Awaits(u, 0, x)
                    => Awaits(Append(w, Head(u)), k, x) \/ Awaits(Tail(u), 0, x)
           /\ \A k \in 0..Len(u) - 1 : \A x : Awaits(u, k + 1, x) => Awaits(Tail(u), k, x)
  <1> DEFINE a == Append(w, Head(u))
             t == Tail(u)
  <1>1. Len(w) \in Nat /\ Len(u) \in Nat \ {0} /\ Head(u) = u[1] /\ Head(u) \in Sayings
    BY LenProperties, EmptySeq, HeadTailProperties
  <1>2. /\ a \in Seq(Sayings) /\ Len(a) = Len(w) + 1 /\ a[Len(w) + 1] = u[1]
        /\ \A i \in 1..Len(w) : a[i] = w[i]
    BY <1>1, AppendProperties
  <1>3. /\ t \in Seq(Sayings) /\ Len(t) = Len(u) - 1 /\ \A i \in 1..Len(t) : t[i] = u[i + 1]
    BY HeadTailProperties
  <1> HIDE DEF a, t
  <1>4. \A i \in 1..Len(t) : i + 1 \in 1..Len(u)
    BY <1>1, <1>3
  <1>5. ASSUME NEW k \in 0..Len(u) - 1, NEW x, Awaits(u, k + 1, x)
        PROVE  Awaits(t, k, x)
    <2>1. PICK i \in k + 1 + 1..Len(u) : u[i].revision = x
      BY <1>5 DEF Awaits
    <2>2. i - 1 \in k + 1..Len(t) /\ i - 1 \in 1..Len(t) /\ (i - 1) + 1 = i
      BY <1>1, <1>3, <2>1
    <2>3. t[i - 1] = u[i]
      BY <1>3, <2>2
    <2> QED
      BY <2>1, <2>2, <2>3 DEF Awaits
  <1>6. ASSUME NEW k \in 0..Len(w), NEW x, Awaits(w, k, x) \/ Awaits(u, 0, x)
        PROVE  Awaits(a, k, x) \/ Awaits(t, 0, x)
    <2>1. CASE Awaits(w, k, x)
      <3>1. PICK i \in k + 1..Len(w) : w[i].revision = x
        BY <2>1 DEF Awaits
      <3>2. i \in k + 1..Len(a) /\ a[i] = w[i]
        BY <1>1, <1>2, <3>1
      <3> QED
        BY <3>1, <3>2 DEF Awaits
    <2>2. CASE Awaits(u, 0, x)
      <3>1. PICK i \in 1..Len(u) : u[i].revision = x
        BY <2>2 DEF Awaits
      <3>2. CASE i = 1
        <4>1. Len(w) + 1 \in k + 1..Len(a)
          BY <1>1, <1>2
        <4> QED
          BY <1>2, <3>1, <3>2, <4>1 DEF Awaits
      <3>3. CASE i # 1
        <4>1. i \in 1 + 1..Len(u) /\ 0 \in 0..Len(u) - 1 /\ 0 + 1 = 1
          BY <1>1, <3>1, <3>3
        <4>2. Awaits(u, 1, x)
          BY <3>1, <4>1 DEF Awaits
        <4> QED
          BY <1>5, <4>1, <4>2
      <3> QED
        BY <3>2, <3>3
    <2> QED
      BY <1>6, <2>1, <2>2
  <1> QED
    BY <1>1, <1>2, <1>3, <1>4, <1>5, <1>6 DEF a, t

\* What a frame plays is an arbiter.
LEMMA DrawTyped ==
    ASSUME Historic, NEW n \in 0..Len(pending), NEW expires \in BOOLEAN, Draw(n, expires),
           NEW K, replica.kind \in K, "none" \in K,
           \A i \in 1..n : Harmless(K, pending[i].command), Harmless(K, Expiry)
    PROVE  replica' \in Arb /\ replica'.kind \in K
  <1> DEFINE d == Drained(SubSeq(pending, 1, n))
             follows == streamState = "live" /\ ~snapshotDue
             placed == IF follows \/ status.frame THEN d.arb ELSE Placed(d.arb)
             b == IF expires THEN Drawn(ExpireOverlay(placed)) ELSE placed
  <1>1. d.arb \in Arb /\ d.arb.kind \in K
    BY PlayIs
  <1>2. status \in Pictures /\ status.revision \in Nat
    BY DEF Historic, Typed, Pictures
  <1>3. replica' = Stamped(b, follows)
    BY DEF Draw
  <1> HIDE DEF d
  <1>4. placed \in Arb /\ placed.kind \in K
    <2>1. Placed(d.arb) \in Arb /\ Overlay(Placed(d.arb)) \in {Overlay(d.arb), Bare("none")}
      BY <1>1, <1>2, PlacedIs
    <2>2. Placed(d.arb).kind \in {d.arb.kind, "none"}
      BY <2>1 DEF Overlay, Bare
    <2> QED
      BY <1>1, <2>1, <2>2
  <1> HIDE DEF placed
  <1>5. b \in Arb /\ b.kind \in K
    <2> DEFINE e == Drawn(ExpireOverlay(placed))
    <2>1. e \in Arb /\ Overlay(e) \in {Overlay(placed), OverlayAfter(Overlay(placed), Expiry)}
      BY <1>4, Ended
    <2>2. Overlay(placed) \in Overlays /\ Overlay(placed).kind = placed.kind /\ Overlay(e).kind = e.kind
      BY <1>4, <2>1, OverlayIs
    <2>3. OverlayAfter(Overlay(placed), Expiry).kind \in K
      BY <1>4, <2>2 DEF Harmless, Expiry, Summary
    <2> HIDE DEF e
    <2>4. e.kind \in K
      BY <1>4, <2>1, <2>2, <2>3
    <2> QED
      BY <1>4, <2>1, <2>4 DEF e
  <1> HIDE DEF b
  <1> QED
    BY <1>2, <1>3, <1>5 DEF Stamped, Arb

AllKinds == {"none", "notify", "raw", "arming"}

LEMMA AllHarmless ==
    ASSUME NEW c \in Told
    PROVE  Harmless(AllKinds, c)
  <1>1. \A o \in Overlays : OverlayAfter(o, Summary(c)) \in Overlays
    <2>1. Bare("none") \in Overlays
      BY Constants DEF Bare, Overlays
    <2>2. Summary(c) \in Told
      BY <2>1, SummaryFollows
    <2> QED
      BY <2>2, OverlayAfterIs
  <1> QED
    BY <1>1 DEF Harmless, AllKinds, Overlays

LEMMA PendingIs ==
    ASSUME Historic
    PROVE  /\ pending \in Seq(Sayings) /\ stream \in Seq(Sayings)
           /\ Len(pending) \in Nat /\ Len(stream) \in Nat
           /\ \A i \in 1..Len(pending) : pending[i] \in Sayings /\ pending[i].command \in Told
           /\ \A i \in 1..Len(stream) : stream[i] \in Sayings /\ stream[i].command \in Told
  <1>1. pending \in Seq(Sayings) /\ stream \in Seq(Sayings)
    BY DEF Historic, Typed
  <1>2. /\ \A i \in 1..Len(pending) : pending[i] \in Sayings
        /\ \A i \in 1..Len(stream) : stream[i] \in Sayings
    BY <1>1, ElementOfSeq
  <1> QED
    BY <1>1, <1>2, LenProperties DEF Sayings

-----------------------------------------------------------------------------
(* The history is kept by every step *)

LEMMA HistoricInit ==
    ASSUME Init
    PROVE  Historic /\ device.kind = "none" /\ device.revision = 0 /\ Overlay(device) = Bare("none")
  <1>1. PICK base \in Bases, g \in Generators, s \in Styles :
            device = Drawn(ArbiterInit(base, g, s, TRUE))
    BY DEF Init
  <1> DEFINE a == ArbiterInit(base, g, s, TRUE)
  <1>2. a \in Arb /\ Overlay(a) = Bare("none") /\ a.revision = 0
    BY Constants DEF ArbiterInit, Arb, Overlay, Bare
  <1> HIDE DEF a
  <1>3. device \in Arb /\ Overlay(device) = Bare("none") /\ device.revision = 0
    BY <1>1, <1>2, DrawnIs DEF a
  <1>4. device.kind = "none"
    <2>1. Overlay(device).kind = device.kind
      BY DEF Overlay
    <2> QED
      BY <1>3, <2>1 DEF Bare
  <1>5. Picture(device) \in Pictures /\ Picture(device).revision = 0
        /\ SceneOf(Picture(device)) = Scene(device)
    BY <1>3 DEF Picture, Pictures, Arb, Scene, SceneOf
  <1>6. said = [v \in {0} |-> Entry(device, 0)] /\ Entry(device, 0) \in Entries
        /\ Entry(device, 0).scene = Scene(device) /\ Entry(device, 0).overlay = Overlay(device)
    BY <1>3, OverlayIs DEF Init, Entry, Entries
  <1>7. Recorded
    <2>1. 0..device.revision = {0} /\ 1..device.revision = {} /\ 0 \in {0}
      BY <1>3
    <2>2. said[0] = Entry(device, 0)
      BY <1>6
    <2>3. said \in [{0} -> Entries]
      BY <1>6
    <2>4. SlottedIs(said[0].overlay)
      BY <1>3, <1>6, <2>2 DEF SlottedIs, Bare
    <2> QED
      BY <1>3, <1>6, <2>1, <2>2, <2>3, <2>4 DEF Recorded
  <1>8. ShownIs(Picture(device))
    <2>1. 0 \in 0..device.revision /\ said[0] = Entry(device, 0)
      BY <1>3, <1>6
    <2> QED
      BY <1>5, <1>6, <2>1 DEF ShownIs, SceneOf
  <1>9. Reset(Picture(device)) \in Arb
    BY <1>5, ResetIs
  <1>10. Typed
    <2>1. stream \in Seq(Sayings) /\ pending \in Seq(Sayings)
      BY EmptySeq DEF Init
    <2>2. /\ snapshot = Picture(device) /\ status = Picture(device) /\ poll = {} /\ answer = {}
          /\ replica = Reset(Picture(device))
      BY DEF Init
    <2> QED
      BY <1>3, <1>5, <1>9, <2>1, <2>2 DEF Typed
  <1>11. 1..Len(stream) = {} /\ 1..Len(pending) = {} /\ poll \cup answer = {} /\ answer = {}
    BY DEF Init
  <1>12. ShownIs(snapshot) /\ ShownIs(status)
    BY <1>8 DEF Init, ShownIs
  <1> QED
    BY <1>3, <1>4, <1>7, <1>10, <1>11, <1>12 DEF Historic

LEMMA HandledChronicle ==
    ASSUME Historic, NEW p \in Packets, DeviceHandles(p)
    PROVE  Chronicle(Handle(device, p).made, Handle(device, p).command)
  <1>1. Handle(device, p).made # <<>>
    BY DEF DeviceHandles, Changes
  <1>2. p \in Seq(Said)
    BY MirrorAssumption DEF MirrorAssumption, Said
  <1>3. Overlay(device) \in SlottedOverlays
    <2>1. device \in Arb /\ device.revision \in 0..device.revision
      BY DEF Historic, Typed, Arb
    <2> QED
      BY <2>1, OverlayIs DEF Historic, Recorded, SlottedOverlays
  <1> QED
    BY <1>1, <1>2, <1>3, SaidKeepsSlots, PacketChronicle

LEMMA HistoricNext ==
    ASSUME Historic, [Next]_vars
    PROVE  Historic'
  <1>1. ASSUME NEW p \in Packets, DeviceHandles(p)
        PROVE  Historic'
    <2> DEFINE made == Handle(device, p).made
               command == Handle(device, p).command
    <2>1. Changes(made, command)
      BY <1>1 DEF DeviceHandles
    <2>2. Chronicle(made, command)
      BY <1>1, HandledChronicle
    <2> HIDE DEF made, command
    <2> QED
      BY <2>1, <2>2, ChangesHistoric
  <1>2. CASE DeviceExpires
    BY <1>2, ExpiryChronicle, ChangesHistoric DEF DeviceExpires
  <1>3. CASE Heartbeat
    <2>1. Picture(device) \in Pictures /\ ShownIs(Picture(device))
      BY DEF Historic, Typed, Recorded, Picture, Pictures, Arb, ShownIs, Scene
    <2> QED
      BY <1>3, <2>1 DEF Heartbeat, Historic, Typed, Recorded, ShownIs, stream_vars, answer_vars,
                        mirror_vars
  <1>4. CASE Subscribe \/ Open \/ Retry
    BY <1>4 DEF Subscribe, Open, Retry, Historic, Typed, Recorded, ShownIs, device_vars,
                answer_vars, mirror_vars
  <1>5. CASE Message
    <2>1. /\ pending' = Append(pending, Head(stream)) /\ stream' = Tail(stream) /\ stream # <<>>
          /\ UNCHANGED <<device_vars, answer_vars, mirror_vars>>
      BY <1>5 DEF Message
    <2>2. pending \in Seq(Sayings) /\ stream \in Seq(Sayings)
      BY DEF Historic, Typed
    <2>3. /\ pending' \in Seq(Sayings) /\ stream' \in Seq(Sayings)
          /\ Len(pending') = Len(pending) + 1 /\ pending'[Len(pending) + 1] = stream[1]
          /\ \A i \in 1..Len(pending) : pending'[i] = pending[i]
          /\ \A i \in 1..Len(stream') : stream'[i] = stream[i + 1] /\ i + 1 \in 1..Len(stream)
          /\ 1 \in 1..Len(stream) /\ Len(pending) \in Nat
      BY <2>1, <2>2, Received
    <2>4. \A i \in 1..Len(stream') : Tells(said, device.revision, stream'[i])
      BY <2>3 DEF Historic
    <2>5. \A i \in 1..Len(pending') : Tells(said, device.revision, pending'[i])
      <3> TAKE i \in 1..Len(pending')
      <3>1. i \in 1..Len(pending) \/ i = Len(pending) + 1
        BY <2>3
      <3> QED
        BY <2>3, <3>1 DEF Historic
    <2> QED
      BY <2>1, <2>3, <2>4, <2>5 DEF Historic, Typed, Recorded, ShownIs, device_vars,
                                    answer_vars, mirror_vars
  <1>6. CASE Dropped
    <2>1. PICK n \in 0..Len(stream) : stream' = SubSeq(stream, 1, n)
      BY <1>6 DEF Dropped
    <2>2. Len(stream) \in Nat /\ \A i \in 1..Len(stream) : stream[i] \in Sayings
      BY PendingIs
    <2>3. stream' \in Seq(Sayings) /\ \A i \in 1..Len(stream') : i \in 1..Len(stream) /\ stream'[i] = stream[i]
      <3>1. 1 \in Int /\ n \in Int /\ \A i \in 1..n : stream[i] \in Sayings /\ i \in 1..Len(stream)
        BY <2>2
      <3>2. /\ stream' \in Seq(Sayings) /\ Len(stream') = (IF 1 <= n THEN n - 1 + 1 ELSE 0)
            /\ \A i \in 1..n - 1 + 1 : stream'[i] = stream[1 + i - 1]
        BY <2>1, <3>1, SubSeqProperties
      <3> QED
        BY <2>2, <3>1, <3>2
    <2>4. \A i \in 1..Len(stream') : Tells(said, device.revision, stream'[i])
      BY <2>3 DEF Historic
    <2> QED
      BY <1>6, <2>3, <2>4 DEF Dropped, Historic, Typed, Recorded, ShownIs, device_vars,
                              answer_vars, mirror_vars
  <1>7. CASE PollAnswered \/ PollReturns \/ ResyncAnswered \/ ResyncEnds \/ ResyncFails
    BY <1>7 DEF PollAnswered, PollReturns, ResyncAnswered, ResyncEnds, ResyncFails, Historic, Typed,
                Recorded, ShownIs, device_vars, stream_vars, mirror_vars
  <1>8. CASE ResyncReturns
    <2>1. status' \in Pictures /\ replica' = Reset(status')
      BY <1>8 DEF ResyncReturns, Historic, Typed
    <2>2. replica' \in Arb
      BY <2>1, ResetIs
    <2> QED
      BY <1>8, <2>1, <2>2 DEF ResyncReturns, Historic, Typed, Recorded, ShownIs, device_vars,
                              stream_vars
  <1>9. ASSUME NEW n \in 0..Len(pending), NEW expires \in BOOLEAN, Draw(n, expires)
        PROVE  Historic'
    <2>1. /\ UNCHANGED <<device_vars, subscribed, stream, streamState, status, poll, answer>>
          /\ pending' \in {SubSeq(pending, n + 1, Len(pending)), <<>>}
          /\ resync = "status" => resync' = "status"
      BY <1>9 DEF Draw
    <2>2. replica' \in Arb
      <3>1. \A i \in 1..n : pending[i].command \in Told
        BY PendingIs
      <3>2. Expiry \in Told /\ replica.kind \in AllKinds /\ "none" \in AllKinds
        BY DEF Told, Historic, Typed, Arb, AllKinds
      <3> QED
        BY <1>9, <3>1, <3>2, AllHarmless, DrawTyped
    <2>3. pending' \in Seq(Sayings) /\ \A i \in 1..Len(pending') : Tells(said, device.revision, pending'[i])
      <3>1. CASE pending' = <<>>
        BY <3>1
      <3>2. CASE pending' = SubSeq(pending, n + 1, Len(pending))
        <4>1. pending' \in Seq(Sayings)
              /\ \A i \in 1..Len(pending') : pending'[i] = pending[n + i] /\ n + i \in 1..Len(pending)
          BY <3>2, PendingIs, RestIs
        <4> QED
          BY <4>1 DEF Historic
      <3> QED
        BY <2>1, <3>1, <3>2
    <2> QED
      BY <2>1, <2>2, <2>3 DEF Historic, Typed, Recorded, ShownIs, device_vars
  <1>10. CASE UNCHANGED vars
    BY <1>10 DEF vars, Historic, Typed, Recorded, ShownIs, device_vars, stream_vars, answer_vars,
                 mirror_vars
  <1> QED
    BY <1>1, <1>2, <1>3, <1>4, <1>5, <1>6, <1>7, <1>8, <1>9, <1>10 DEF Next

-----------------------------------------------------------------------------
(* As long as nothing was lost, refused or reset *)

Faithful ==
    unbroken =>
        /\ resync = "none"
        /\ subscribed \/ device.revision = 0
        /\ OverlayShown(replica)
        /\ Covered(0, replica.revision)

LEMMA BareSummarised == Summarised(Bare("none")) = Bare("none")
  <1>1. Bare("none") \in Overlays /\ Expiry \in Told
    BY Constants DEF Bare, Overlays, Told
  <1>2. OverlayAfter(Bare("none"), Expiry) = Bare("none") /\ Summary(Expiry) = Expiry
    BY DEF OverlayAfter, Expiry, Bare, Summary
  <1>3. Summarised(Bare("none")) = OverlayAfter(Summarised(Bare("none")), Expiry)
    BY <1>1, <1>2, SummaryFollows
  <1>4. Summarised(Bare("none")).kind = "none"
    BY DEF Summarised, Bare
  <1> QED
    BY <1>3, <1>4 DEF OverlayAfter, Expiry

LEMMA FaithfulInit ==
    ASSUME Init
    PROVE  Faithful
  <1>1. Historic /\ device.revision = 0 /\ Overlay(device) = Bare("none")
    BY HistoricInit
  <1>2. replica = Reset(snapshot) /\ snapshot = Picture(device) /\ snapshot \in Pictures
    BY <1>1 DEF Init, Historic, Typed
  <1>3. replica.revision = 0 /\ Overlay(replica) = Bare("none")
    BY <1>1, <1>2, ResetIs DEF Picture
  <1>4. said[0].overlay = Bare("none") /\ 0 \in 0..device.revision /\ 1..device.revision = {}
    BY <1>1 DEF Historic, Recorded
  <1>5. Summarised(Bare("none")) = Bare("none")
    BY BareSummarised
  <1>6. OverlayShown(replica)
    BY <1>3, <1>4, <1>5 DEF OverlayShown
  <1>7. Covered(0, replica.revision)
    <2>1. replica.revision + 1..device.revision = {}
      BY <1>1, <1>3
    <2> QED
      BY <2>1 DEF Covered
  <1> QED
    BY <1>1, <1>6, <1>7 DEF Faithful, Init

LEMMA ChangesFaithful ==
    ASSUME Historic, Faithful, NEW made, NEW command, Chronicle(made, command), Changes(made, command)
    PROVE  Faithful'
  <1> SUFFICES ASSUME unbroken'
               PROVE  /\ resync' = "none"
                      /\ subscribed' \/ device'.revision = 0
                      /\ OverlayShown(replica)'
                      /\ Covered(0, replica.revision)'
    BY DEF Faithful
  <1>1. /\ unbroken /\ subscribed
        /\ stream' = Append(stream, [revision |-> device.revision + Len(made), command |-> command])
        /\ UNCHANGED <<pending, subscribed, replica, resync>>
    BY DEF Changes, Publish, answer_vars, mirror_vars
  <1>2. resync = "none" /\ OverlayShown(replica) /\ Covered(0, replica.revision)
        /\ replica.revision \in 0..device.revision
    BY <1>1 DEF Faithful, OverlayShown
  <1>3. 0 \in 0..Len(pending)
    BY PendingIs
  <1>4. \A r \in 0..device.revision : Covered(0, r) => Covered(0, r)'
    BY <1>1, <1>3, ChangesCovered
  <1>5. Covered(0, replica.revision)'
    BY <1>1, <1>2, <1>4 DEF Covered
  <1>6. said'[replica.revision] = said[replica.revision] /\ replica.revision \in 0..device'.revision
    <2>1. device'.revision = device.revision + Len(made) /\ Len(made) \in Nat
          /\ said'[replica.revision] = said[replica.revision] /\ device.revision \in Nat
      BY <1>2, ChangesHistoric DEF Historic, Typed, Arb
    <2> QED
      BY <1>2, <2>1
  <1>7. OverlayShown(replica)'
    BY <1>1, <1>2, <1>6 DEF OverlayShown
  <1> QED
    BY <1>1, <1>2, <1>5, <1>7

\* A frame that leaves the page faithful.
LEMMA DrawFaithful ==
    ASSUME Historic, Faithful, NEW n \in 0..Len(pending), NEW expires \in BOOLEAN, Draw(n, expires)
    PROVE  Faithful'
  <1> SUFFICES ASSUME unbroken'
               PROVE  /\ resync' = "none"
                      /\ subscribed' \/ device'.revision = 0
                      /\ OverlayShown(replica)'
                      /\ Covered(0, replica.revision)'
    BY DEF Faithful
  <1> DEFINE d == Drained(SubSeq(pending, 1, n))
             u == SubSeq(pending, n + 1, Len(pending))
             rest == IF d.ok THEN u ELSE <<>>
             follows == streamState = "live" /\ ~snapshotDue
             placed == IF follows \/ status.frame THEN d.arb ELSE Placed(d.arb)
             e == Drawn(ExpireOverlay(placed))
  <1>1. /\ UNCHANGED <<device, said, subscribed, stream>>
        /\ unbroken /\ d.ok /\ (follows \/ (n = 0 /\ status = Picture(replica) /\ replica.kind = "none"))
        /\ pending' = rest
        /\ resync' = IF ~d.ok /\ resync = "none" THEN "status" ELSE resync
        /\ expires => OnTime(placed, rest \o stream)
        /\ replica' = Stamped(IF expires THEN e ELSE placed, follows)
    BY DEF Draw, device_vars
  <1>2. /\ resync = "none" /\ (subscribed \/ device.revision = 0)
        /\ OverlayShown(replica) /\ Covered(0, replica.revision)
    BY <1>1 DEF Faithful
  <1>3. /\ d.arb \in Arb /\ OverlayShown(d.arb) /\ Covered(n, d.arb.revision)
        /\ n = 0 => d.arb = replica
    <2>1. \A i \in 1..n : Harmless(AllKinds, pending[i].command)
      BY PendingIs, AllHarmless
    <2>2. replica.kind \in AllKinds
      BY DEF Historic, Typed, Arb, AllKinds
    <2> QED
      BY <1>1, <1>2, <2>1, <2>2, PlayIs
  <1>4. rest = u
    BY <1>1
  <1> HIDE DEF d, u, rest
  <1>5. PICK r : /\ r = replica'
                 /\ OverlayShown(r) /\ Covered(n, r.revision)
    <2>1. CASE follows
      <3>1. placed = d.arb
        BY <2>1
      <3>2. replica' = IF expires THEN e ELSE d.arb
        BY <1>1, <2>1, <3>1 DEF Stamped
      <3>3. expires => OverlayShown(e) /\ Covered(n, e.revision)
        BY <1>1, <1>3, <1>4, <3>1, EndsOnTime DEF u
      <3> HIDE DEF e, placed
      <3> QED
        BY <1>3, <3>2, <3>3
    <2>2. CASE ~follows
      <3>1. n = 0 /\ status = Picture(replica) /\ replica.kind = "none" /\ d.arb = replica
        BY <1>1, <1>3, <2>2
      <3>2. Overlay(replica) = Bare("none")
        <4>1. replica.revision \in 0..device.revision
              /\ Overlay(replica) = Summarised(said[replica.revision].overlay)
          BY <1>2 DEF OverlayShown
        <4>2. said[replica.revision].overlay \in Overlays
              /\ SlottedIs(said[replica.revision].overlay)
          BY <4>1 DEF Historic, Recorded, Entries
        <4>3. Overlay(replica).kind = "none"
          BY <3>1 DEF Overlay
        <4>4. said[replica.revision].overlay = Bare("none")
          BY <4>1, <4>2, <4>3, SummarisedIs DEF SlottedIs, Overlays, Bare
        <4>5. Summarised(Bare("none")) = Bare("none")
          BY BareSummarised
        <4> QED
          BY <4>1, <4>4, <4>5
      <3>3. placed \in Arb /\ Overlay(placed) = Bare("none")
        <4>1. replica \in Arb /\ status \in Pictures
          BY DEF Historic, Typed
        <4> QED
          BY <3>1, <3>2, <4>1, PlacedIs
      <3>4. ~expires
        <4>1. placed.kind = "none"
          BY <3>3 DEF Overlay, Bare
        <4> HIDE DEF placed
        <4> QED
          BY <1>1, <4>1 DEF OnTime, Timed
      <3>5. replica' = [placed EXCEPT !.revision = replica.revision]
        BY <1>1, <2>2, <3>1, <3>4 DEF Stamped, Picture
      <3> HIDE DEF placed
      <3>6. replica'.revision = replica.revision /\ Overlay(replica') = Overlay(placed)
        BY <3>3, <3>5 DEF Arb, Overlay
      <3> QED
        BY <1>2, <3>1, <3>2, <3>3, <3>6 DEF OverlayShown
    <2> QED
      BY <2>1, <2>2
  <1>6. ASSUME NEW v \in r.revision + 1..device.revision
        PROVE  Awaits(pending', 0, said[v].told) \/ Awaits(stream, 0, said[v].told)
    <2>1. Awaits(pending, n, said[v].told) \/ Awaits(stream, 0, said[v].told)
      BY <1>5 DEF Covered
    <2>2. Awaits(pending, n, said[v].told) => Awaits(u, 0, said[v].told)
      <3>1. Len(u) \in Nat /\ n + 0 = n
        BY PendingIs, RestIs, LenProperties DEF u
      <3>2. 0 \in 0..Len(u)
        BY <3>1
      <3> QED
        BY <3>1, <3>2, PendingIs, RestIs DEF u
    <2> QED
      BY <1>1, <1>4, <2>1, <2>2
  <1>7. OverlayShown(replica)'
    BY <1>1, <1>5 DEF OverlayShown
  <1>8. Covered(0, replica.revision)'
    BY <1>1, <1>5, <1>6 DEF Covered
  <1>9. resync' = "none" /\ (subscribed' \/ device'.revision = 0)
    <2>1. resync' = resync
      BY <1>1
    <2>2. subscribed' = subscribed /\ device' = device
      BY <1>1
    <2> QED
      BY <1>2, <2>1, <2>2
  <1> QED
    BY <1>7, <1>8, <1>9

LEMMA FaithfulNext ==
    ASSUME Historic, Faithful, [Next]_vars
    PROVE  Faithful'
  <1>1. ASSUME NEW p \in Packets, DeviceHandles(p)
        PROVE  Faithful'
    <2> DEFINE made == Handle(device, p).made
               command == Handle(device, p).command
    <2>1. Changes(made, command)
      BY <1>1 DEF DeviceHandles
    <2>2. Chronicle(made, command)
      BY <1>1, HandledChronicle
    <2> HIDE DEF made, command
    <2> QED
      BY <2>1, <2>2, ChangesFaithful
  <1>2. CASE DeviceExpires
    BY <1>2, ExpiryChronicle, ChangesFaithful DEF DeviceExpires
  <1>3. CASE Heartbeat \/ Open \/ Retry \/ PollAnswered \/ PollReturns
    BY <1>3 DEF Heartbeat, Open, Retry, PollAnswered, PollReturns, Faithful, OverlayShown, Covered,
                device_vars, stream_vars, answer_vars, mirror_vars
  <1>4. CASE Subscribe
    BY <1>4 DEF Subscribe, Faithful, OverlayShown, Covered, device_vars, answer_vars, mirror_vars
  <1>5. CASE Message
    <2>1. /\ pending' = Append(pending, Head(stream)) /\ stream' = Tail(stream) /\ stream # <<>>
          /\ UNCHANGED <<device_vars, subscribed, answer_vars, mirror_vars, unbroken>>
      BY <1>5 DEF Message
    <2>2. pending \in Seq(Sayings) /\ stream \in Seq(Sayings) /\ 0 \in 0..Len(pending)
      BY PendingIs
    <2>3. \A x : Awaits(pending, 0, x) \/ Awaits(stream, 0, x)
                    => Awaits(pending', 0, x) \/ Awaits(stream', 0, x)
      BY <2>1, <2>2, Received
    <2> QED
      BY <2>1, <2>3 DEF Faithful, OverlayShown, Covered, device_vars, answer_vars, mirror_vars
  <1>6. CASE Dropped
    BY <1>6 DEF Dropped, Faithful
  <1>7. CASE ResyncAnswered \/ ResyncReturns \/ ResyncEnds \/ ResyncFails
    BY <1>7 DEF ResyncAnswered, ResyncReturns, ResyncEnds, ResyncFails, Faithful, Historic
  <1>8. ASSUME NEW n \in 0..Len(pending), NEW expires \in BOOLEAN, Draw(n, expires)
        PROVE  Faithful'
    BY <1>8, DrawFaithful
  <1>9. CASE UNCHANGED vars
    BY <1>9 DEF vars, Faithful, OverlayShown, Covered, device_vars, stream_vars, answer_vars,
                mirror_vars
  <1> QED
    BY <1>1, <1>2, <1>3, <1>4, <1>5, <1>6, <1>7, <1>8, <1>9 DEF Next

\* As long as nothing was lost, refused or reset, the page ends, queues and shows the
\* device's notifications as the device did, documents aside, whatever is sent to the
\* device and whatever goes wrong later.
THEOREM OverlaysStayInStep == Spec => []OverlayInStep
  <1>1. Init => Historic /\ Faithful
    BY HistoricInit, FaithfulInit
  <1>2. Historic /\ Faithful /\ [Next]_vars => (Historic /\ Faithful)'
    BY HistoricNext, FaithfulNext
  <1>3. Historic /\ Faithful => OverlayInStep
    BY DEF Faithful, OverlayInStep, OverlayShown
  <1> QED
    BY <1>1, <1>2, <1>3, PTL DEF Spec

-----------------------------------------------------------------------------
(* While the page follows *)

Lossy == "lost statements" \in Adversity

\* What packets may hold for the page to stay in step: no frame, whose pixels are on
\* no stream, and, if statements may be lost, nothing that lasts a while.
Harmonious == {c \in Said : c.op # "raw" /\ (Lossy => c.op \notin {"notify", "arm_stream"})}

\* No stream is opened a second time, no answer is late, none fails.
Orderly ==
    /\ Adversity \subseteq {"late subscription", "lost statements"}
    /\ Packets \subseteq Seq(Harmonious)

Spoken == Harmonious \cup {Expiry}
Kinds  == IF Lossy THEN {"none"} ELSE {"none", "notify", "arming"}

Unframed ==
    /\ device.kind \in Kinds /\ replica.kind \in Kinds
    /\ ~snapshot.frame /\ ~status.frame /\ \A p \in poll \cup answer : ~p.frame
    /\ \A i \in 1..Len(stream) : stream[i].command \in Spoken
    /\ \A i \in 1..Len(pending) : pending[i].command \in Spoken

AppliedFits ==
    /\ applied.base \subseteq {replica.base} /\ applied.generator \subseteq {replica.generator}
    /\ applied.style \subseteq {replica.style}

\* Nothing is queued, resynced or shown on top of the scene before the stream is open;
\* and a replica that starts over has been pushed nothing.
Connected ==
    /\ streamState \in {"connecting", "live"}
    /\ streamState = "live" => subscribed
    /\ ~subscribed => stream = <<>>
    /\ streamState # "live" =>
          pending = <<>> /\ resync = "none" /\ replica.kind = "none" /\ AppliedFits
    /\ snapshotDue => applied = NothingApplied /\ replica.kind = "none"

\* If no statement is lost, whatever is behind one on the stream tells the rest.
Complete ==
    ~Lossy =>
        /\ \A k \in 1..Len(pending) : Covered(k, pending[k].revision)
        /\ \A k \in 1..Len(stream) :
              \A v \in stream[k].revision + 1..device.revision : Awaits(stream, k, said[v].told)
        /\ replica.kind # "none" /\ resync # "status" => Covered(0, replica.revision)

Settled ==
    /\ Unframed /\ Connected /\ Complete
    /\ ~snapshotDue /\ resync # "status" => SceneShown(replica)

LEMMA KindsHarmless ==
    /\ Harmonious \subseteq Said /\ Spoken \subseteq Told
    /\ \A c \in Spoken : Harmless(Kinds, c)
    /\ Keeps({o \in SlottedOverlays : o.kind \in Kinds}, Harmonious)
  <1>1. Harmonious \subseteq Said /\ Spoken \subseteq Told
    BY DEF Harmonious, Spoken, Told
  <1>2. ASSUME NEW c \in Told, c.op # "raw", Lossy => c.op \notin {"notify", "arm_stream"},
               NEW o \in Overlays, o.kind \in Kinds
        PROVE  OverlayAfter(o, c).kind \in Kinds
    <2>1. OverlayAfter(o, c) \in Overlays
      BY OverlayAfterIs
    <2>2. CASE Lossy
      BY <1>2, <2>2, OverlayAfterIs DEF Kinds
    <2>3. CASE ~Lossy
      <3>1. o.kind # "raw"
        BY <1>2, <2>3 DEF Kinds
      <3>2. OverlayAfter(o, c).kind # "raw"
        BY <1>2, <3>1, OverlayAfterIs
      <3> QED
        BY <2>1, <2>3, <3>2 DEF Kinds, Overlays
    <2> QED
      BY <2>2, <2>3
  <1>3. \A c \in Spoken : c.op # "raw" /\ (Lossy => c.op \notin {"notify", "arm_stream"})
    BY DEF Spoken, Harmonious, Expiry
  <1>4. Bare("none") \in Overlays
    BY Constants DEF Bare, Overlays
  <1>5. ASSUME NEW c \in Spoken
        PROVE  Harmless(Kinds, c)
    <2>1. Summary(c) \in Told /\ Summary(c).op = c.op
      BY <1>1, <1>4, SummaryFollows
    <2> QED
      BY <1>2, <1>3, <2>1 DEF Harmless
  <1>6. ASSUME NEW o \in SlottedOverlays, o.kind \in Kinds, NEW c \in Harmonious
        PROVE  OverlayAfter(o, c) \in SlottedOverlays /\ OverlayAfter(o, c).kind \in Kinds
    <2>1. c \in Told /\ c \in Spoken /\ o \in Overlays /\ SlottedIs(o)
      BY <1>1 DEF Told, Spoken, SlottedOverlays
    <2> QED
      BY <1>2, <1>3, <1>6, <2>1, OverlayAfterIs DEF SlottedOverlays
  <1> QED
    BY <1>1, <1>5, <1>6 DEF Keeps

LEMMA SettledInit ==
    ASSUME Init
    PROVE  Settled
  <1>1. Historic /\ device.kind = "none" /\ "none" \in Kinds
    BY HistoricInit DEF Kinds
  <1>2. replica = Reset(snapshot) /\ snapshot = Picture(device) /\ snapshot \in Pictures
        /\ status = Picture(device)
    BY <1>1 DEF Init, Historic, Typed
  <1>3. replica.kind = "none" /\ ~Picture(device).frame
    BY <1>1, <1>2, ResetIs DEF Picture
  <1>4. 1..Len(stream) = {} /\ 1..Len(pending) = {} /\ poll \cup answer = {}
        /\ stream = <<>> /\ pending = <<>>
    BY DEF Init
  <1>5. Unframed
    BY <1>1, <1>2, <1>3, <1>4 DEF Unframed
  <1>6. Connected
    BY <1>3, <1>4 DEF Init, Connected, AppliedFits, NothingApplied
  <1>7. Complete
    BY <1>3, <1>4 DEF Complete
  <1> QED
    BY <1>5, <1>6, <1>7 DEF Settled, Init

LEMMA ChangesSettled ==
    ASSUME Orderly, Historic, Settled, NEW made, NEW command,
           Chronicle(made, command), Changes(made, command),
           command \in Spoken, device'.kind \in Kinds
    PROVE  Settled'
  <1> DEFINE top == device.revision + Len(made)
             s   == [revision |-> top, command |-> command]
  <1>1. /\ device'.revision = top /\ top \in Nat /\ device.revision \in Nat
        /\ \A v \in 0..device.revision : said'[v] = said[v] /\ v \in 0..top
        /\ \A v \in device.revision + 1..top : said'[v].told = top
    <2>1. device.revision \in Nat
      BY DEF Historic, Typed, Arb
    <2>2. /\ device'.revision = top /\ Len(made) \in Nat
          /\ \A v \in 0..device.revision : said'[v] = said[v]
          /\ \A v \in device.revision + 1..device'.revision : said'[v].told = device'.revision
      BY ChangesHistoric
    <2> QED
      BY <2>1, <2>2
  <1>2. /\ UNCHANGED <<snapshot, subscribed, pending, streamState, status, poll, resync, answer,
                       snapshotDue, replica, applied>>
        /\ stream' = stream \/ (subscribed /\ stream' = Append(stream, s))
        /\ ~Lossy /\ subscribed => stream' = Append(stream, s)
    BY DEF Changes, Publish, answer_vars, mirror_vars, Lossy
  <1>3. s.revision = top /\ s.command = command /\ s \in Sayings
    BY <1>1 DEF Chronicle, Sayings
  <1>4. stream \in Seq(Sayings) /\ Len(stream) \in Nat
    BY PendingIs
  <1>5. Unframed'
    <2>1. \A i \in 1..Len(stream') : stream'[i].command \in Spoken
      <3>1. CASE stream' = stream
        BY <3>1 DEF Settled, Unframed
      <3>2. CASE stream' = Append(stream, s)
        <4>1. 0 \in 0..Len(stream)
          BY <1>4
        <4>2. Len(stream') = Len(stream) + 1 /\ stream'[Len(stream) + 1] = s
              /\ \A i \in 1..Len(stream) : stream'[i] = stream[i]
          BY <1>3, <1>4, <3>2, <4>1, AppendAwaits
        <4> HIDE DEF s
        <4> TAKE i \in 1..Len(stream')
        <4>3. i \in 1..Len(stream) \/ i = Len(stream) + 1
          BY <1>4, <4>2
        <4> QED
          BY <1>3, <4>2, <4>3 DEF Settled, Unframed
      <3> QED
        BY <1>2, <3>1, <3>2
    <2> QED
      BY <1>2, <2>1 DEF Settled, Unframed
  <1>6. Connected'
    BY <1>2 DEF Settled, Connected, AppliedFits
  <1>7. Complete'
    <2> SUFFICES ASSUME ~Lossy
                 PROVE  /\ \A k \in 1..Len(pending) : Covered(k, pending[k].revision)'
                        /\ \A k \in 1..Len(stream') :
                              \A v \in stream'[k].revision + 1..top : Awaits(stream', k, said'[v].told)
                        /\ replica.kind # "none" /\ resync # "status" => Covered(0, replica.revision)'
      BY <1>1, <1>2 DEF Complete, Covered
    <2>1. CASE ~subscribed
      <3>1. stream = <<>> /\ stream' = stream /\ pending = <<>> /\ replica.kind = "none"
        BY <1>2, <2>1 DEF Settled, Connected
      <3> QED
        BY <3>1
    <2>2. CASE subscribed
      <3>1. stream' = Append(stream, s)
        BY <1>2, <2>2
      <3>2. ASSUME NEW k \in 0..Len(pending), NEW r \in 0..device.revision, Covered(k, r)
            PROVE  Covered(k, r)'
        BY <3>1, <3>2, ChangesCovered
      <3>3. ASSUME NEW k \in 1..Len(pending)
            PROVE  Covered(k, pending[k].revision)'
        <4>1. Covered(k, pending[k].revision) /\ pending[k].revision \in 0..device.revision
              /\ k \in 0..Len(pending)
          BY <1>1, PendingIs DEF Settled, Complete, Historic, Tells
        <4>2. PICK r \in 0..device.revision : r = pending[k].revision
          BY <4>1
        <4>3. Covered(k, r)'
          BY <3>2, <4>1, <4>2
        <4>4. pending'[k].revision = r
          BY <1>2, <4>2
        <4> QED
          BY <4>3, <4>4 DEF Covered
      <3>4. ASSUME NEW k \in 1..Len(stream'), NEW v \in stream'[k].revision + 1..top
            PROVE  Awaits(stream', k, said'[v].told)
        <4>1. /\ Len(stream') = Len(stream) + 1 /\ stream'[Len(stream) + 1] = s
              /\ \A i \in 1..Len(stream) : stream'[i] = stream[i]
              /\ \A i \in 0..Len(stream) : \A x : Awaits(stream, i, x) => Awaits(stream', i, x)
              /\ \A i \in 0..Len(stream) : Awaits(stream', i, top)
          <5>1. 0 \in 0..Len(stream)
            BY <1>4
          <5> HIDE DEF s, top
          <5> QED
            BY <1>3, <1>4, <3>1, <5>1, AppendAwaits
        <4> HIDE DEF s, top
        <4>2. CASE k = Len(stream) + 1
          BY <1>1, <1>3, <3>4, <4>1, <4>2
        <4>3. CASE k # Len(stream) + 1
          <5>1. k \in 1..Len(stream) /\ k \in 0..Len(stream)
            BY <1>4, <4>1, <4>3
          <5>2. stream'[k] = stream[k] /\ stream[k].revision \in 1..device.revision
            BY <4>1, <5>1 DEF Historic, Tells
          <5>3. CASE v <= device.revision
            <6>1. v \in stream[k].revision + 1..device.revision /\ said'[v] = said[v]
              BY <1>1, <3>4, <5>2, <5>3
            <6>2. Awaits(stream, k, said[v].told)
              BY <5>1, <6>1 DEF Settled, Complete
            <6> QED
              BY <4>1, <5>1, <6>1, <6>2
          <5>4. CASE ~(v <= device.revision)
            <6>1. v \in device.revision + 1..top
              BY <1>1, <3>4, <5>2, <5>4
            <6> QED
              BY <1>1, <4>1, <5>1, <6>1
          <5> QED
            BY <5>3, <5>4
        <4> QED
          BY <4>2, <4>3
      <3>5. ASSUME replica.kind # "none", resync # "status"
            PROVE  Covered(0, replica.revision)'
        <4>1. Covered(0, replica.revision) /\ 0 \in 0..Len(pending)
          BY <3>5, PendingIs DEF Settled, Complete
        <4>2. replica.revision \in 0..device.revision
          <5>1. ~snapshotDue
            BY <3>5 DEF Settled, Connected
          <5> QED
            BY <3>5, <5>1 DEF Settled, SceneShown
        <4>3. PICK r \in 0..device.revision : r = replica.revision
          BY <4>2
        <4>4. Covered(0, r)' /\ replica'.revision = r
          BY <1>2, <3>2, <4>1, <4>3
        <4> QED
          BY <4>4 DEF Covered
      <3> QED
        BY <3>3, <3>4, <3>5
    <2> QED
      BY <2>1, <2>2
  <1>8. ~snapshotDue' /\ resync' # "status" => SceneShown(replica)'
    BY <1>1, <1>2 DEF Settled, SceneShown
  <1> QED
    BY <1>5, <1>6, <1>7, <1>8 DEF Settled

LEMMA NothingElseGoesWrong ==
    ASSUME Orderly
    PROVE  Adversity \cap {"reconnects", "delays", "failed answers"} = {}
  <1>1. Adversity \subseteq {"late subscription", "lost statements"}
    BY Zenon DEF Orderly
  <1> QED
    BY <1>1, Zenon

LEMMA MessageSettled ==
    ASSUME Historic, Settled, Message
    PROVE  Settled'
  <1>1. /\ pending' = Append(pending, Head(stream)) /\ stream' = Tail(stream) /\ stream # <<>>
        /\ streamState = "live" /\ subscribed
        /\ UNCHANGED <<device, said, snapshot, subscribed, streamState, status, poll, resync, answer,
                       snapshotDue, replica, applied>>
    BY DEF Message, device_vars, answer_vars, mirror_vars, Settled, Connected
  <1>2. pending \in Seq(Sayings) /\ stream \in Seq(Sayings)
    BY PendingIs
  <1>3. /\ Len(pending') = Len(pending) + 1 /\ pending'[Len(pending) + 1] = stream[1]
        /\ \A i \in 1..Len(pending) : pending'[i] = pending[i]
        /\ Len(stream') = Len(stream) - 1
        /\ \A i \in 1..Len(stream') : stream'[i] = stream[i + 1] /\ i + 1 \in 1..Len(stream)
        /\ 1 \in 1..Len(stream) /\ Len(pending) \in Nat /\ Len(stream) \in Nat
    BY <1>1, <1>2, Received
  <1>4. \A k \in 0..Len(pending) : \A x :
            Awaits(pending, k, x) \/ Awaits(stream, 0, x) => Awaits(pending', k, x) \/ Awaits(stream', 0, x)
    BY <1>1, <1>2, Received
  <1>5. \A k \in 0..Len(stream) - 1 : \A x : Awaits(stream, k + 1, x) => Awaits(stream', k, x)
    BY <1>1, <1>2, Received
  <1>6. ASSUME NEW k \in 1..Len(pending')
        PROVE  k \in 1..Len(pending) \/ k = Len(pending) + 1
    BY <1>3
  <1>7. Unframed'
    <2>1. \A i \in 1..Len(stream') : stream'[i].command \in Spoken
      BY <1>3 DEF Settled, Unframed
    <2>2. \A i \in 1..Len(pending') : pending'[i].command \in Spoken
      BY <1>3, <1>6 DEF Settled, Unframed
    <2> QED
      BY <1>1, <2>1, <2>2 DEF Settled, Unframed
  <1>8. Connected'
    BY <1>1 DEF Settled, Connected
  <1>9. Complete'
    <2> SUFFICES ASSUME ~Lossy
                 PROVE  /\ \A k \in 1..Len(pending') :
                              \A v \in pending'[k].revision + 1..device.revision :
                                 Awaits(pending', k, said[v].told) \/ Awaits(stream', 0, said[v].told)
                        /\ \A k \in 1..Len(stream') :
                              \A v \in stream'[k].revision + 1..device.revision :
                                 Awaits(stream', k, said[v].told)
                        /\ replica.kind # "none" /\ resync # "status" =>
                              \A v \in replica.revision + 1..device.revision :
                                 Awaits(pending', 0, said[v].told) \/ Awaits(stream', 0, said[v].told)
      BY <1>1 DEF Complete, Covered
    <2>1. ASSUME NEW k \in 1..Len(pending'), NEW v \in pending'[k].revision + 1..device.revision
          PROVE  Awaits(pending', k, said[v].told) \/ Awaits(stream', 0, said[v].told)
      <3>1. CASE k \in 1..Len(pending)
        <4>1. Covered(k, pending[k].revision) /\ pending'[k] = pending[k] /\ k \in 0..Len(pending)
          BY <1>3, <3>1 DEF Settled, Complete
        <4>2. Awaits(pending, k, said[v].told) \/ Awaits(stream, 0, said[v].told)
          BY <2>1, <4>1 DEF Covered
        <4> QED
          BY <1>4, <4>1, <4>2
      <3>2. CASE k = Len(pending) + 1
        <4>1. Awaits(stream, 0 + 1, said[v].told) /\ 0 \in 0..Len(stream) - 1
          BY <1>3, <2>1, <3>2 DEF Settled, Complete
        <4> QED
          BY <1>5, <4>1
      <3> QED
        BY <1>6, <3>1, <3>2
    <2>2. ASSUME NEW k \in 1..Len(stream'), NEW v \in stream'[k].revision + 1..device.revision
          PROVE  Awaits(stream', k, said[v].told)
      <3>1. Awaits(stream, k + 1, said[v].told) /\ k \in 0..Len(stream) - 1
        BY <1>3, <2>2 DEF Settled, Complete
      <3> QED
        BY <1>5, <3>1
    <2>3. ASSUME replica.kind # "none", resync # "status", NEW v \in replica.revision + 1..device.revision
          PROVE  Awaits(pending', 0, said[v].told) \/ Awaits(stream', 0, said[v].told)
      <3>1. Awaits(pending, 0, said[v].told) \/ Awaits(stream, 0, said[v].told)
        BY <2>3 DEF Settled, Complete, Covered
      <3>2. 0 \in 0..Len(pending)
        BY <1>3
      <3> QED
        BY <1>4, <3>1, <3>2
    <2> QED
      BY <2>1, <2>2, <2>3
  <1>10. ~snapshotDue' /\ resync' # "status" => SceneShown(replica)'
    BY <1>1 DEF Settled, SceneShown
  <1> QED
    BY <1>7, <1>8, <1>9, <1>10 DEF Settled

\* A picture is pushed to a replica that shows no overlay, and puts it in step.
LEMMA PictureSettled ==
    ASSUME Orderly, Historic, Settled, NEW n \in 0..Len(pending), NEW expires \in BOOLEAN,
           Draw(n, expires), ~(streamState = "live" /\ ~snapshotDue)
    PROVE  /\ n = 0 /\ replica'.kind = "none" /\ SceneShown(replica)' /\ AppliedFits'
           /\ resync' = resync /\ (streamState # "live" => pending' = <<>>)
  <1> DEFINE placed == Placed(replica)
             u == SubSeq(pending, n + 1, Len(pending))
  <1>1. Len(pending) \in Nat /\ "delays" \notin Adversity
    <2>1. "delays" \notin Adversity
      BY NothingElseGoesWrong, Zenon
    <2> QED
      BY <2>1, PendingIs
  <1>2. n = 0
    <2>1. CASE streamState # "live"
      <3>1. Len(pending) = 0
        BY <2>1 DEF Settled, Connected
      <3> QED
        BY <3>1
    <2>2. CASE snapshotDue
      <3>1. ~(n > 0)
        BY <1>1, <2>2 DEF Draw, InTime
      <3> QED
        BY <1>1, <3>1
    <2> QED
      BY <2>1, <2>2
  <1>3. replica.kind = "none" /\ AppliedFits
    BY DEF Settled, Connected, AppliedFits, NothingApplied
  <1>4. replica \in Arb /\ status \in Pictures /\ ~status.frame /\ status.revision \in Nat
    BY DEF Historic, Typed, Settled, Unframed, Pictures
  <1>5. Drained(SubSeq(pending, 1, n)) = [arb |-> replica, ok |-> TRUE]
    <2>1. \A i \in 1..n : Harmless(AllKinds, pending[i].command)
      BY PendingIs, AllHarmless
    <2>2. replica.kind \in AllKinds
      BY <1>3 DEF AllKinds
    <2> QED
      BY <1>2, <2>1, <2>2, PlayIs
  <1>6. /\ placed \in Arb /\ Overlay(placed) \in {Overlay(replica), Bare("none")}
        /\ Scene(placed) = SceneOf(status)
    BY <1>3, <1>4, PlacedIs DEF AppliedFits
  <1>7. placed.kind = "none"
    BY <1>3, <1>6 DEF Overlay, Bare
  <1>8. /\ replica' = Stamped(IF expires THEN Drawn(ExpireOverlay(placed)) ELSE placed, FALSE)
        /\ expires => Timed(placed)
        /\ applied' = [base |-> {status.base}, generator |-> {status.generator},
                       style |-> {status.style}]
        /\ pending' = u /\ resync' = resync
        /\ UNCHANGED <<device, said, status>>
    <2> DEFINE d == Drained(SubSeq(pending, 1, n))
               follows == streamState = "live" /\ ~snapshotDue
               start == IF follows \/ status.frame THEN d.arb ELSE Placed(d.arb)
               rest == IF d.ok THEN u ELSE <<>>
    <2>1. /\ replica' = Stamped(IF expires THEN Drawn(ExpireOverlay(start)) ELSE start, follows)
          /\ expires => OnTime(start, rest \o stream)
          /\ applied' = IF follows \/ status.frame THEN applied
                        ELSE [base |-> {status.base}, generator |-> {status.generator},
                              style |-> {status.style}]
          /\ pending' = rest
          /\ resync' = IF ~d.ok /\ resync = "none" THEN "status" ELSE resync
          /\ UNCHANGED <<device, said, status>>
      BY DEF Draw, device_vars
    <2>2. d.arb = replica /\ d.ok /\ follows = FALSE
      BY <1>5
    <2>3. start = placed /\ rest = u
      BY <1>4, <2>2
    <2>4. expires => Timed(start)
      BY <2>1 DEF OnTime
    <2> HIDE DEF d, start, rest, u, placed, follows
    <2> QED
      BY <1>4, <2>1, <2>2, <2>3, <2>4
  <1> HIDE DEF placed, u
  <1>9. ~expires
    BY <1>7, <1>8 DEF Timed
  <1>10. replica' = [placed EXCEPT !.revision = status.revision]
    BY <1>8, <1>9 DEF Stamped
  <1>11. replica'.kind = "none" /\ replica'.revision = status.revision
         /\ replica'.base = status.base /\ replica'.generator = status.generator
         /\ replica'.style = status.style
    BY <1>4, <1>6, <1>7, <1>10 DEF Arb, Scene, SceneOf
  <1>12. SceneShown(replica)'
    BY <1>8, <1>11 DEF SceneShown, Historic, ShownIs, Scene
  <1>13. AppliedFits'
    BY <1>8, <1>11 DEF AppliedFits
  <1>14. streamState # "live" => pending' = <<>>
    <2> SUFFICES ASSUME streamState # "live"
                 PROVE  pending' = <<>>
      OBVIOUS
    <2>1. Len(pending) = 0
      BY DEF Settled, Connected
    <2>2. Len(u) = 0 /\ u \in Seq(Sayings)
      BY <1>2, <2>1, PendingIs, RestIs DEF u
    <2> QED
      BY <1>8, <2>2, EmptySeq
  <1> QED
    BY <1>2, <1>8, <1>11, <1>12, <1>13, <1>14

\* A frame of a page that follows.
LEMMA FollowedSettled ==
    ASSUME Orderly, Historic, Settled, NEW n \in 0..Len(pending), NEW expires \in BOOLEAN,
           Draw(n, expires), streamState = "live", ~snapshotDue
    PROVE  resync' # "status" =>
              /\ Drained(SubSeq(pending, 1, n)).ok
              /\ SceneShown(replica)'
              /\ ~Lossy /\ replica'.kind # "none" => Covered(n, replica'.revision)
  <1> DEFINE d == Drained(SubSeq(pending, 1, n))
             u == SubSeq(pending, n + 1, Len(pending))
             rest == IF d.ok THEN u ELSE <<>>
             e == Drawn(ExpireOverlay(d.arb))
  <1> SUFFICES ASSUME resync' # "status"
               PROVE  /\ d.ok /\ SceneShown(replica)'
                      /\ ~Lossy /\ replica'.kind # "none" => Covered(n, replica'.revision)
    OBVIOUS
  <1>1. n \in Nat /\ "delays" \notin Adversity
    <2>1. "delays" \notin Adversity
      BY NothingElseGoesWrong, Zenon
    <2> QED
      BY <2>1, PendingIs
  <1>2. n > 0 => resync = "none"
    BY <1>1 DEF Draw, InTime
  <1>3. /\ resync' = IF ~d.ok /\ resync = "none" THEN "status" ELSE resync
        /\ expires => OnTime(d.arb, rest \o stream)
        /\ replica' = IF expires THEN e ELSE d.arb
        /\ UNCHANGED <<device, said>>
    BY DEF Draw, Stamped, device_vars
  <1>4. /\ d.arb \in Arb /\ d.arb.kind \in Kinds
        /\ n = 0 => d = [arb |-> replica, ok |-> TRUE]
        /\ d.ok => /\ n > 0 => d.arb.revision = pending[n].revision
                   /\ SceneShown(replica) => SceneShown(d.arb)
    <2>1. \A i \in 1..n : Harmless(Kinds, pending[i].command)
      <3>1. \A i \in 1..n : i \in 1..Len(pending)
        BY PendingIs
      <3> QED
        BY <3>1, KindsHarmless DEF Settled, Unframed
    <2>2. replica.kind \in Kinds
      BY DEF Settled, Unframed
    <2> QED
      BY <2>1, <2>2, PlayIs
  <1> HIDE DEF d
  <1>5. d.ok /\ resync # "status"
    BY <1>1, <1>2, <1>3, <1>4
  <1>6. SceneShown(d.arb)
    BY <1>4, <1>5 DEF Settled
  <1>7. ~Lossy /\ d.arb.kind # "none" => Covered(n, d.arb.revision)
    <2>1. CASE n = 0
      BY <1>4, <1>5, <2>1 DEF Settled, Complete
    <2>2. CASE n # 0
      <3>1. n \in 1..Len(pending) /\ d.arb.revision = pending[n].revision
        BY <1>1, <1>4, <1>5, <2>2, PendingIs
      <3> QED
        BY <3>1 DEF Settled, Complete
    <2> QED
      BY <2>1, <2>2
  <1>8. CASE ~expires
    <2>1. replica' = d.arb
      BY <1>3, <1>8
    <2> QED
      BY <1>3, <1>5, <1>6, <1>7, <2>1 DEF SceneShown
  <1>9. CASE expires
    <2>1. OnTime(d.arb, u \o stream) /\ d.arb.kind # "none"
      BY <1>3, <1>5, <1>9 DEF OnTime, Timed
    <2>2. ~Lossy
      BY <1>4, <2>1 DEF Kinds
    <2>3. Covered(n, d.arb.revision)
      BY <1>7, <2>1, <2>2
    <2>4. SceneShown(e) /\ Covered(n, e.revision)
      BY <1>4, <1>6, <2>1, <2>3, EndsOnTime DEF u
    <2>5. replica' = e
      BY <1>3, <1>9
    <2> HIDE DEF e
    <2> QED
      BY <1>3, <1>5, <2>4, <2>5 DEF SceneShown
  <1> QED
    BY <1>8, <1>9

LEMMA DrawSettled ==
    ASSUME Orderly, Historic, Settled, NEW n \in 0..Len(pending), NEW expires \in BOOLEAN,
           Draw(n, expires)
    PROVE  Settled'
  <1> DEFINE u == SubSeq(pending, n + 1, Len(pending))
             follows == streamState = "live" /\ ~snapshotDue
  <1>1. /\ UNCHANGED <<device, said, snapshot, subscribed, stream, streamState, status, poll, answer>>
        /\ pending' \in {u, <<>>}
        /\ ~snapshotDue'
        /\ resync = "status" => resync' = "status"
    BY DEF Draw, device_vars
  <1>2. n \in Nat /\ Len(pending) \in Nat
    BY PendingIs
  <1>3. /\ u \in Seq(Sayings) /\ Len(u) = Len(pending) - n /\ Len(u) \in Nat
        /\ \A i \in 1..Len(u) : u[i] = pending[n + i] /\ n + i \in 1..Len(pending)
        /\ \A k \in 0..Len(u) : \A x : Awaits(pending, n + k, x) => Awaits(u, k, x)
        /\ \A x : Awaits(pending, n, x) => Awaits(u, 0, x)
    <2>1. /\ u \in Seq(Sayings) /\ Len(u) = Len(pending) - n
          /\ \A i \in 1..Len(u) : u[i] = pending[n + i] /\ n + i \in 1..Len(pending)
          /\ \A k \in 0..Len(u) : \A x : Awaits(pending, n + k, x) => Awaits(u, k, x)
      BY PendingIs, RestIs
    <2>2. Len(u) \in Nat /\ n + 0 = n
      BY <1>2, <2>1, LenProperties
    <2>3. 0 \in 0..Len(u)
      BY <2>2
    <2>4. \A x : Awaits(pending, n, x) => Awaits(u, 0, x)
      BY <2>2, <2>3, PendingIs, RestIs
    <2> HIDE DEF u
    <2> QED
      BY <2>1, <2>2, <2>4
  <1>4. replica'.kind \in Kinds
    <2>1. \A i \in 1..n : i \in 1..Len(pending)
      BY <1>2
    <2>2. \A i \in 1..n : Harmless(Kinds, pending[i].command)
      BY <2>1, KindsHarmless DEF Settled, Unframed
    <2>3. Harmless(Kinds, Expiry)
      BY KindsHarmless DEF Spoken
    <2>4. replica.kind \in Kinds /\ "none" \in Kinds
      BY DEF Settled, Unframed, Kinds
    <2> QED
      BY <2>2, <2>3, <2>4, DrawTyped
  <1>5. ~follows => /\ n = 0 /\ replica'.kind = "none" /\ SceneShown(replica)' /\ AppliedFits'
                    /\ resync' = resync /\ (streamState # "live" => pending' = <<>>)
    BY PictureSettled
  <1>6. follows /\ resync' # "status" =>
              /\ Drained(SubSeq(pending, 1, n)).ok /\ SceneShown(replica)'
              /\ ~Lossy /\ replica'.kind # "none" => Covered(n, replica'.revision)
    BY FollowedSettled
  <1> HIDE DEF u
  <1>7. Unframed'
    <2>1. \A i \in 1..Len(pending') : pending'[i].command \in Spoken
      <3>1. CASE pending' = u
        BY <1>3, <3>1 DEF Settled, Unframed
      <3>2. CASE pending' = <<>>
        BY <3>2
      <3> QED
        BY <1>1, <3>1, <3>2
    <2> QED
      BY <1>1, <1>4, <2>1 DEF Settled, Unframed
  <1>8. Connected'
    BY <1>1, <1>5 DEF Settled, Connected
  <1>9. Complete'
    <2> SUFFICES ASSUME ~Lossy
                 PROVE  /\ \A k \in 1..Len(pending') :
                              \A v \in pending'[k].revision + 1..device.revision :
                                 Awaits(pending', k, said[v].told) \/ Awaits(stream, 0, said[v].told)
                        /\ replica'.kind # "none" /\ resync' # "status" =>
                              \A v \in replica'.revision + 1..device.revision :
                                 Awaits(pending', 0, said[v].told) \/ Awaits(stream, 0, said[v].told)
      BY <1>1 DEF Settled, Complete, Covered
    <2>1. ASSUME NEW k \in 1..Len(pending'), NEW v \in pending'[k].revision + 1..device.revision
          PROVE  Awaits(pending', k, said[v].told) \/ Awaits(stream, 0, said[v].told)
      <3>1. pending' = u
        <4>1. CASE pending' = <<>>
          BY <2>1, <4>1
        <4> QED
          BY <1>1, <4>1
      <3>2. u[k] = pending[n + k] /\ n + k \in 1..Len(pending) /\ k \in 0..Len(u)
        BY <1>3, <2>1, <3>1
      <3>3. Awaits(pending, n + k, said[v].told) \/ Awaits(stream, 0, said[v].told)
        BY <2>1, <3>1, <3>2 DEF Settled, Complete, Covered
      <3> QED
        BY <1>3, <3>1, <3>2, <3>3
    <2>2. ASSUME replica'.kind # "none", resync' # "status",
                 NEW v \in replica'.revision + 1..device.revision
          PROVE  Awaits(pending', 0, said[v].told) \/ Awaits(stream, 0, said[v].told)
      <3>1. follows
        BY <1>5, <2>2
      <3>2. Awaits(pending, n, said[v].told) \/ Awaits(stream, 0, said[v].told)
        BY <1>6, <2>2, <3>1 DEF Covered
      <3>3. pending' = u
        <4>1. Drained(SubSeq(pending, 1, n)).ok
          BY <1>6, <2>2, <3>1
        <4> QED
          BY <4>1 DEF Draw, u
      <3> QED
        BY <1>3, <3>2, <3>3
    <2> QED
      BY <2>1, <2>2
  <1>10. ~snapshotDue' /\ resync' # "status" => SceneShown(replica)'
    BY <1>5, <1>6
  <1> QED
    BY <1>7, <1>8, <1>9, <1>10 DEF Settled

LEMMA SettledNext ==
    ASSUME Orderly, Historic, Settled, [Next]_vars
    PROVE  Settled'
  <1>1. ASSUME NEW p \in Packets, DeviceHandles(p)
        PROVE  Settled'
    <2> DEFINE O == {o \in SlottedOverlays : o.kind \in Kinds}
               made == Handle(device, p).made
               command == Handle(device, p).command
    <2>1. Changes(made, command)
      BY <1>1 DEF DeviceHandles
    <2>2. p \in Seq(Harmonious)
      BY Zenon DEF Orderly
    <2>3. Keeps(O, Harmonious) /\ O \subseteq SlottedOverlays
      BY KindsHarmless
    <2>4. Overlay(device) \in O
      <3>1. device \in Arb /\ device.revision \in 0..device.revision /\ device.kind \in Kinds
        BY DEF Historic, Typed, Arb, Settled, Unframed
      <3>2. Overlay(device) \in Overlays /\ Overlay(device).kind = device.kind /\ SlottedIs(Overlay(device))
        BY <3>1, OverlayIs DEF Historic, Recorded
      <3> QED
        BY <3>1, <3>2 DEF SlottedOverlays
    <2> HIDE DEF O, made, command
    <2>5. made # <<>>
      BY <2>1, Zenon DEF Changes
    <2>6. Chronicle(made, command) /\ Tally(device, Harmonious, O, made, command)
      BY <2>2, <2>3, <2>4, <2>5, PacketChronicle DEF made, command
    <2>7. command \in Spoken
      BY <2>5, <2>6 DEF Tally, Spoken
    <2>8. device'.kind \in Kinds
      <3>1. Len(made) \in 1..Len(made)
        BY <2>5, <2>6, LenProperties, EmptySeq DEF Tally
      <3>2. Overlay(made[Len(made)]) \in O
        BY <2>6, <3>1 DEF Tally
      <3>3. device' = made[Len(made)]
        BY <2>1, <2>6, ChangesHistoric
      <3> QED
        BY <3>2, <3>3 DEF Overlay, O
    <2> QED
      BY <2>1, <2>6, <2>7, <2>8, ChangesSettled
  <1>2. CASE DeviceExpires
    <2> DEFINE b == Drawn(ExpireOverlay(device))
               made == <<b>>
    <2>1. Timed(device) /\ Changes(made, Expiry)
      BY <1>2 DEF DeviceExpires, Expiry
    <2>2. Chronicle(made, Expiry)
      BY <2>1, ExpiryChronicle DEF Expiry
    <2>3. Expiry \in Spoken
      BY DEF Spoken
    <2>4. device'.kind \in Kinds
      <3>1. device \in Arb /\ device.kind \in Kinds /\ device.kind # "none"
        BY <2>1 DEF Historic, Typed, Settled, Unframed, Timed
      <3>2. Overlay(device) \in Overlays /\ Overlay(device).kind = device.kind
        BY <3>1, OverlayIs
      <3>3. Overlay(b) = OverlayAfter(Overlay(device), Expiry) /\ Overlay(b).kind = b.kind
        BY <3>1, Ended DEF Overlay
      <3>4. Harmless(Kinds, Expiry)
        BY <2>3, KindsHarmless
      <3>5. OverlayAfter(Overlay(device), Expiry).kind \in Kinds
        BY <3>1, <3>2, <3>4 DEF Harmless, Expiry, Summary
      <3>6. device' = made[Len(made)]
        BY <2>1, <2>2, ChangesHistoric
      <3> HIDE DEF b
      <3>7. device' = b
        BY <3>6
      <3> QED
        BY <3>3, <3>5, <3>7
    <2> HIDE DEF made, b
    <2> QED
      BY <2>1, <2>2, <2>3, <2>4, ChangesSettled
  <1>3. CASE Heartbeat
    <2>1. /\ UNCHANGED <<device, said, subscribed, stream, pending, streamState, status, poll, resync,
                         answer, snapshotDue, replica, applied>>
          /\ snapshot' = Picture(device)
      BY <1>3 DEF Heartbeat, stream_vars, answer_vars, mirror_vars
    <2>2. ~Picture(device).frame
      BY DEF Settled, Unframed, Kinds, Picture
    <2> QED
      BY <2>1, <2>2 DEF Settled, Unframed, Connected, Complete, AppliedFits, SceneShown, Covered
  <1>4. CASE Subscribe \/ Open
    BY <1>4 DEF Subscribe, Open, Settled, Unframed, Connected, Complete, AppliedFits, SceneShown,
                Covered, device_vars, answer_vars, mirror_vars
  <1>5. CASE Message
    BY <1>5, MessageSettled
  <1>6. CASE Dropped \/ Retry \/ ResyncFails
    <2>1. ~Dropped
      BY NothingElseGoesWrong, Zenon DEF Dropped
    <2>2. ~ResyncFails
      BY NothingElseGoesWrong, Zenon DEF ResyncFails
    <2>3. ~Retry
      BY DEF Retry, Settled, Connected
    <2> QED
      BY <1>6, <2>1, <2>2, <2>3
  <1>7. CASE PollAnswered \/ PollReturns \/ ResyncAnswered
    BY <1>7 DEF PollAnswered, PollReturns, ResyncAnswered, Settled, Unframed, Connected, Complete,
                AppliedFits, SceneShown, Covered, device_vars, stream_vars, mirror_vars
  <1>8. CASE ResyncReturns
    <2>1. /\ status' \in answer /\ answer' = {} /\ resync' = "config"
          /\ replica' = Reset(status') /\ applied' = NothingApplied /\ snapshotDue'
          /\ UNCHANGED <<device, said, snapshot, subscribed, stream, pending, streamState, poll>>
      BY <1>8 DEF ResyncReturns, device_vars, stream_vars
    <2>2. replica'.kind = "none"
      BY <2>1, ResetIs DEF Historic, Typed
    <2>3. streamState = "live"
      BY <2>1 DEF Historic, Settled, Connected
    <2>4. "none" \in Kinds /\ ~status'.frame
      BY <2>1 DEF Kinds, Settled, Unframed
    <2>5. Unframed'
      BY <2>1, <2>2, <2>4 DEF Settled, Unframed
    <2>6. Connected'
      BY <2>1, <2>2, <2>3 DEF Settled, Connected
    <2>7. Complete'
      BY <2>1, <2>2 DEF Settled, Complete, Covered
    <2> QED
      BY <2>1, <2>5, <2>6, <2>7 DEF Settled
  <1>9. CASE ResyncEnds
    BY <1>9 DEF ResyncEnds, Settled, Unframed, Connected, Complete, AppliedFits, SceneShown, Covered,
                device_vars, stream_vars, mirror_vars
  <1>10. ASSUME NEW n \in 0..Len(pending), NEW expires \in BOOLEAN, Draw(n, expires)
         PROVE  Settled'
    BY <1>10, DrawSettled
  <1>11. CASE UNCHANGED vars
    BY <1>11 DEF vars, Settled, Unframed, Connected, Complete, AppliedFits, SceneShown, Covered,
                 device_vars, stream_vars, answer_vars, mirror_vars
  <1> QED
    BY <1>1, <1>2, <1>3, <1>4, <1>5, <1>6, <1>7, <1>8, <1>9, <1>10, <1>11 DEF Next

\* Whatever statements are lost, and whenever the stream is first opened, the page that
\* says it follows at revision r shows the scene the device had at revision r: a
\* statement played on another state than the one it was made on does not land, and what
\* follows is a resync.  The hypothesis is Orderly: packets without raw frames (without
\* notifications and stream arming too if statements may be lost), no second opening of
\* the stream, no answer that is late or fails.
THEOREM StaysInStep ==
    ASSUME Orderly
    PROVE  Spec => []InStep
  <1>1. Init => Historic /\ Settled
    BY HistoricInit, SettledInit
  <1>2. Historic /\ Settled /\ [Next]_vars => (Historic /\ Settled)'
    BY HistoricNext, SettledNext
  <1>3. Historic /\ Settled => InStep
    BY DEF Historic, Recorded, Settled, InStep, Following, SceneShown
  <1> QED
    BY <1>1, <1>2, <1>3, PTL DEF Spec
=============================================================================
