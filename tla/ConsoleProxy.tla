---------------------------- MODULE ConsoleProxy ----------------------------
(***************************************************************************)
(* The console's local server, panel-v2/serve.py: a thread for every       *)
(* request, and three things the threads share without a lock.             *)
(*                                                                         *)
(*   GET /devices   discover_clocks: what the last probe of the lan found, *)
(*                  kept for Cache, and every clock seen by any probe, kept*)
(*                  for Remember.                                          *)
(*   /api/...       _proxy: one call to the clock with a token from        *)
(*                  TokenStore.for_host, which keeps what it read of a     *)
(*                  token file under the file's mtime.  The file is        *)
(*                  written by tc002-update.sh, beside the server.         *)
(*   .../events     _proxy_stream: the clock's event stream, pumped until  *)
(*                  one of its ends is gone.                               *)
(*                                                                         *)
(* The three share nothing but the threads, so a behaviour need not have   *)
(* all of them.  Time is in ticks; what takes no time in the code lets none*)
(* pass here.                                                              *)
(* One clock's token file is modelled, a pair of tokens being the number   *)
(* of the write that brought it, and 0 the pair the server started with.   *)
(***************************************************************************)
EXTENDS Integers, FiniteSets, Functions

CONSTANTS Handlers,      \* threads
          Sessions,      \* what browsers may ask for in a behaviour, see asks
          Clocks,        \* runtime clocks there may be on the lan
          Cache,         \* DISCOVERY_CACHE_S
          ProbeTimeout,  \* DISCOVERY_TIMEOUT_S
          Remember,      \* DISCOVERY_REMEMBER_S
          StreamTimeout, \* STREAM_TIMEOUT_S
          KeepAlive,     \* the device writes on a stream at least so often
          MaxTime,       \* bound: ticks
          MaxWrites      \* bound: writes of the token file

ASSUME Durations == /\ {Cache, ProbeTimeout, Remember, StreamTimeout, KeepAlive} \subseteq Nat
                    /\ ProbeTimeout <= Remember

VARIABLES asks,    \* what is asked for: "devices", "calls", "events"
          now,
          lan,     \* clock -> the last time it was there
          gone,    \* the clocks that are not there any more
          seen,    \* cache["seen"]: clock -> the start of a probe that saw it
          memo,    \* cache["at"], cache["rows"]
          file,    \* the token file: its state, mtime and contents
          kept,    \* TokenStore._cache of that file
          alive,   \* the device answers
          pc, loc  \* per handler: where it is, and its locals

server_vars == <<asks, now, lan, gone, seen, memo, file, kept, alive, pc, loc>>
picker == <<seen, memo>>
tokens == <<file, kept>>
world  == <<asks, now, lan, gone, alive>>

None == [none |-> TRUE]

ServerInit == /\ asks \in Sessions
        /\ now = 0
        /\ lan = [c \in Clocks |-> 0]
        /\ gone = {}
        /\ seen = << >>
        /\ memo = [at |-> -2 * Cache, rows |-> {}]
        /\ file = [state |-> "absent", mtime |-> -1, pair |-> 0]
        /\ kept = [mtime |-> -2, pair |-> 0]
        /\ alive = TRUE
        /\ pc = [t \in Handlers |-> "idle"]
        /\ loc = [t \in Handlers |-> None]

Go(t, place, locals) == /\ pc' = [pc EXCEPT ![t] = place]
                        /\ loc' = [loc EXCEPT ![t] = locals]
Return(t) == Go(t, "idle", None)

-----------------------------------------------------------------------------
(* discover_clocks *)

\* a list not older than Cache is handed out as it is: a look at "at", then
\* one at "rows"
CacheHit(t) ==
    /\ pc[t] = "idle" /\ "devices" \in asks /\ now - memo.at < Cache
    /\ Go(t, "hit", None)
    /\ UNCHANGED <<world, picker, tokens>>

ReadRows(t) ==
    /\ pc[t] = "hit"
    /\ Go(t, "given", [rows |-> memo.rows])
    /\ UNCHANGED <<world, picker, tokens>>

StartProbe(t) ==
    /\ pc[t] = "idle" /\ "devices" \in asks /\ now - memo.at >= Cache
    /\ Go(t, "probing", [asked |-> now])
    /\ UNCHANGED <<world, picker, tokens>>

(* The probe is lossy: it finds some of the clocks that were there while it *)
(* ran, and nothing when it fails.  What it found is stamped with the time  *)
(* it was started.                                                          *)
Found(t) == {c \in Clocks : lan[c] >= loc[t].asked}

EndProbe(t) ==
    /\ pc[t] = "probing"
    /\ \E rows \in SUBSET Found(t) :
         seen' = [c \in DOMAIN seen \cup rows |-> IF c \in rows THEN loc[t].asked ELSE seen[c]]
    /\ Go(t, "scanning", [asked |-> loc[t].asked, size |-> Cardinality(DOMAIN seen')])
    /\ UNCHANGED <<world, memo, tokens>>

\* mutant: measured from the last list that was made
ExpiredSince(asked) == {c \in DOMAIN seen : memo.at - seen[c] > Remember}

Expired(asked) == {c \in DOMAIN seen : asked - seen[c] > Remember}

(* Going through the dictionary fails when another handler changed its size.*)
Scan(t) ==
    /\ pc[t] = "scanning"
    /\ IF Cardinality(DOMAIN seen) # loc[t].size
       THEN Go(t, "died", None)
       ELSE Go(t, "dropping", [asked |-> loc[t].asked, expired |-> Expired(loc[t].asked)])
    /\ UNCHANGED <<world, picker, tokens>>

\* del, which fails when another handler has deleted it
Drop(t) ==
    /\ pc[t] = "dropping"
    /\ \E c \in loc[t].expired :
         IF c \in DOMAIN seen
         THEN /\ seen' = Restrict(seen, DOMAIN seen \ {c})
              /\ Go(t, "dropping", [loc[t] EXCEPT !.expired = @ \ {c}])
         ELSE /\ Go(t, "died", None)
              /\ UNCHANGED seen
    /\ UNCHANGED <<world, memo, tokens>>

List(t) ==
    /\ pc[t] = "dropping" /\ loc[t].expired = {}
    /\ Go(t, "listed", [asked |-> loc[t].asked, rows |-> DOMAIN seen])
    /\ UNCHANGED <<world, picker, tokens>>

\* one store after the other
StoreAt(t) ==
    /\ pc[t] = "listed"
    /\ memo' = [memo EXCEPT !.at = loc[t].asked]
    /\ Go(t, "storing", loc[t])
    /\ UNCHANGED <<world, seen, tokens>>

StoreRows(t) ==
    /\ pc[t] = "storing"
    /\ memo' = [memo EXCEPT !.rows = loc[t].rows]
    /\ Go(t, "given", [rows |-> loc[t].rows])
    /\ UNCHANGED <<world, seen, tokens>>

\* the list goes to the browser
HandOut(t) == pc[t] = "given" /\ Return(t) /\ UNCHANGED <<world, picker, tokens>>

\* the exception ends the thread, and the browser's connection with it
Bury(t) == pc[t] = "died" /\ Return(t) /\ UNCHANGED <<world, picker, tokens>>

-----------------------------------------------------------------------------
(* TokenStore.for_host: the mtime first, then the file if that is new.      *)
Stat(t) ==
    /\ pc[t] = "idle" /\ "calls" \in asks
    /\ IF file.state = "absent"
       THEN Go(t, "calling", [pair |-> 0])
       ELSE IF kept.mtime = file.mtime
       THEN Go(t, "calling", [pair |-> kept.pair])
       ELSE Go(t, "loading", [mtime |-> file.mtime])
    /\ UNCHANGED <<world, picker, tokens>>

\* mutant: the mtime of what was just read
MtimeAfter(t) == file.mtime

MtimeFor(t) == loc[t].mtime

(* A file that is not there or not whole is a 503 of the server's own.      *)
Load(t) ==
    /\ pc[t] = "loading"
    /\ IF file.state = "whole" THEN Go(t, "keeping", [mtime |-> loc[t].mtime, pair |-> file.pair])
                               ELSE Return(t)
    /\ UNCHANGED <<world, picker, tokens>>

Keep(t) ==
    /\ pc[t] = "keeping"
    /\ kept' = [mtime |-> MtimeFor(t), pair |-> loc[t].pair]
    /\ Go(t, "calling", [pair |-> loc[t].pair])
    /\ UNCHANGED <<world, picker, file>>

(* _proxy: the clock's answer, or a 502.                                    *)
AnswerCall(t) ==
    /\ pc[t] = "calling"
    /\ Return(t)
    /\ UNCHANGED <<world, picker, tokens>>

(* The writer: the file is emptied or made, then filled.  Two files do not  *)
(* get the same mtime.                                                      *)
StartWrite ==
    /\ "calls" \in asks /\ file.state # "partial" /\ file.pair < MaxWrites /\ file.mtime < now
    /\ file' = [state |-> "partial", mtime |-> now, pair |-> file.pair]
    /\ UNCHANGED <<world, picker, kept, pc, loc>>

EndWrite ==
    /\ file.state = "partial"
    /\ file' = [state |-> "whole", mtime |-> now, pair |-> file.pair + 1]
    /\ UNCHANGED <<world, picker, kept, pc, loc>>

-----------------------------------------------------------------------------
(* _proxy_stream *)
OpenStream(t) ==
    /\ pc[t] = "calling" /\ "events" \in asks /\ alive
    /\ Go(t, "streaming", [heard |-> now, browser |-> "here", left |-> 0])
    /\ UNCHANGED <<world, picker, tokens>>

\* the page is closed; nothing tells the server
BrowserLeaves(t) ==
    /\ pc[t] = "streaming" /\ loc[t].browser = "here"
    /\ loc' = [loc EXCEPT ![t].browser = "left", ![t].left = now]
    /\ UNCHANGED <<world, picker, tokens, pc>>

(* A chunk comes and is written on.  The first write to a browser that left *)
(* may still be taken; what comes back for it breaks the next.              *)
Writable(l) == l.browser \in {"here", "left"}
Broken(l)   == l.browser \in {"left", "reset"}

PumpChunk(t) ==
    /\ pc[t] = "streaming" /\ alive /\ Writable(loc[t])
    /\ loc' = [loc EXCEPT ![t].heard = now,
                          ![t].browser = IF @ = "left" THEN "reset" ELSE @]
    /\ UNCHANGED <<world, picker, tokens, pc>>

BreakPipe(t) ==
    /\ pc[t] = "streaming" /\ alive /\ Broken(loc[t])
    /\ Return(t)
    /\ UNCHANGED <<world, picker, tokens>>

\* mutant: no read timeout
NeverQuiet(t) == FALSE

Quiet(t) == now - loc[t].heard >= StreamTimeout

ReadTimesOut(t) ==
    /\ pc[t] = "streaming" /\ Quiet(t)
    /\ Return(t)
    /\ UNCHANGED <<world, picker, tokens>>

\* the device ends the stream, or the connection breaks
DeviceEnds(t) ==
    /\ pc[t] = "streaming" /\ alive
    /\ Return(t)
    /\ UNCHANGED <<world, picker, tokens>>

(* The device loses power, and nothing is heard of it any more.             *)
DeviceDies == "events" \in asks /\ alive /\ alive' = FALSE
              /\ UNCHANGED <<asks, now, lan, gone, picker, tokens, pc, loc>>

-----------------------------------------------------------------------------
(* A clock leaves the lan, or comes back.                                   *)
Leave(c) == "devices" \in asks /\ c \notin gone /\ gone' = gone \cup {c}
            /\ UNCHANGED <<asks, now, lan, alive, picker, tokens, pc, loc>>
Come(c)  == c \in gone /\ gone' = gone \ {c} /\ lan' = [lan EXCEPT ![c] = now]
            /\ UNCHANGED <<asks, now, alive, picker, tokens, pc, loc>>

(* What has to be done by now: a probe ends within its timeout, handlers    *)
(* that only compute do it, a device that is there writes its keepalive,    *)
(* and a read that is over its timeout returns.                             *)
Pending(t) == CASE pc[t] = "probing"   -> now - loc[t].asked >= ProbeTimeout
                [] pc[t] = "streaming" -> \/ alive /\ now - loc[t].heard >= KeepAlive
                                          \/ Quiet(t)
                [] pc[t] \in {"hit", "scanning", "dropping", "listed", "storing", "given", "died",
                             "keeping"} -> TRUE
                [] pc[t] \in {"idle", "loading", "calling"} -> FALSE

Tick ==
    /\ now < MaxTime
    /\ \A t \in Handlers : ~Pending(t)
    /\ now' = now + 1
    /\ lan' = [c \in Clocks |-> IF c \in gone THEN lan[c] ELSE now + 1]
    /\ UNCHANGED <<asks, gone, alive, picker, tokens, pc, loc>>

Pick(t)   == \/ CacheHit(t) \/ ReadRows(t)
             \/ StartProbe(t) \/ EndProbe(t) \/ Scan(t) \/ Drop(t) \/ List(t)
             \/ StoreAt(t) \/ StoreRows(t) \/ HandOut(t) \/ Bury(t)
Proxy(t)  == Stat(t) \/ Load(t) \/ Keep(t) \/ AnswerCall(t)
Stream(t) == \/ OpenStream(t) \/ BrowserLeaves(t) \/ PumpChunk(t) \/ BreakPipe(t)
             \/ ReadTimesOut(t) \/ DeviceEnds(t)

ServerNext == \/ \E t \in Handlers : Pick(t) \/ Proxy(t) \/ Stream(t)
        \/ StartWrite \/ EndWrite \/ DeviceDies \/ Tick
        \/ \E c \in Clocks : Leave(c) \/ Come(c)

ServerSpec == ServerInit /\ [][ServerNext]_server_vars

-----------------------------------------------------------------------------
(* Two caches are between the lan and the page.  A list that is made names  *)
(* clocks that were there not longer ago than they are remembered and a     *)
(* probe takes; and so does the list that is kept, unless a thread is just  *)
(* between its two stores, though those of two threads may alternate.       *)
ListedRecently ==
    /\ \A t \in Handlers : pc[t] \in {"listed", "storing"} =>
           \A c \in loc[t].rows : now - lan[c] <= Remember + ProbeTimeout
    /\ (\A t \in Handlers : pc[t] # "storing") /\ now - memo.at < Cache =>
           \A c \in memo.rows : now - lan[c] <= Remember + ProbeTimeout + Cache

(* "how long a clock stays listed after the last probe that saw it"         *)
(* (DISCOVERY_REMEMBER_S): what a browser is given names nothing that was   *)
(* gone for longer than that, with what the cache and a probe may add.      *)
GivenRecently ==
    \A t \in Handlers : pc[t] = "given" =>
        \A c \in loc[t].rows : now - lan[c] <= Remember + ProbeTimeout + Cache

(* TokenStore never serves an old pair for good: what it keeps under the    *)
(* mtime the file has is what the file says, although the file may be       *)
(* written between the look at its mtime and the read of it.                *)
NoStaleToken ==
    file.state = "whole" /\ kept.mtime = file.mtime => kept.pair = file.pair

(* A page that left does not hold one of the device's slots for good: the   *)
(* next chunks break the pipe, and without chunks the read times out.       *)
SlotFreed ==
    \A t \in Handlers : pc[t] = "streaming" /\ loc[t].browser # "here"
                        => now - loc[t].left <= KeepAlive + StreamTimeout

(* "every failure is an empty list" (discover_clocks): a request for the    *)
(* list is answered.                                                        *)
PickerAnswers == \A t \in Handlers : pc[t] # "died"
=============================================================================
