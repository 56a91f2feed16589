----------------------------- MODULE Discovery -----------------------------
(***************************************************************************)
(* tc002-devices.py: which clocks this machine can reach.  Four probes see *)
(* a clock in four ways: adb tells its mac, a sweep asks every address over*)
(* http, stock firmware broadcasts itself on udp/55555, the custom runtime *)
(* answers mdns by name.  Their rows are merged by address, and --one      *)
(* prints an address only if there is one clock.                           *)
(*                                                                         *)
(* The mdns probe and the listener are submitted first and run beside adb  *)
(* and the sweep, whose addresses are asked beside one another; main takes *)
(* their results in a fixed order.  A probe may find less than there is,   *)
(* and end at any time: how long the listener and the query wait is in     *)
(* ProbeWaits.  A clock's identity stands for its address, its mac and its *)
(* name alike; a clock keeps its address.                                  *)
(***************************************************************************)
EXTENDS Integers, FiniteSets, Sequences, Functions

CONSTANTS Clocks,
          Setups,       \* how a clock may be found: subsets of AllSetups
          Requests,     \* what is asked for: subsets of AllProbes
          MaxSwitches   \* bound: clocks that change their firmware meanwhile

AllProbes == {"adb", "sweep", "listen", "mdns"}
None      == "none"

\* its firmware, the runtime's binaries, adb transports; or it is not there
AllSetups == [kind : {"stock", "runtime", None}, binaries : BOOLEAN, adb : SUBSET {"tcp", "usb"}]

VARIABLES
    lan,       \* the setup of each clock
    request,   \* the probes of this run
    pc,        \* what main is doing
    todo,      \* adb transports not yet described
    http,      \* what each address of the sweep is asked next, or "told"
    rows,      \* rows so far, in the order of main's dict
    listener, heard, \* is it listening; clocks it heard that have no row yet
    mdns, named,     \* what it is doing; clocks it heard of that have no row yet
    switches,
    seen       \* history: <<clock, firmware a probe found it run, or "adb">>

found_vars == <<rows, heard, named, seen>>
lan_vars   == <<lan, request, switches>>
place_vars == <<pc, todo, http, listener, mdns>>
vars       == <<lan_vars, place_vars, found_vars>>

Transports == [of : Clocks, via : {"tcp", "usb"}]

\* an address is neither missing nor the serial of a usb transport
ASSUME Identities == IsFiniteSet(Clocks) /\ None \notin Clocks /\ Clocks \cap Transports = {}
ASSUME Choices    == Setups \subseteq AllSetups /\ Requests \subseteq SUBSET AllProbes
                     /\ MaxSwitches \in Nat

Row(transport, ip, mac, kind, name) ==
    [transport |-> transport, ip |-> ip, mac |-> mac, kind |-> kind, name |-> name]

Tcp(c) == [of |-> c, via |-> "tcp"]

\* A probe that is not asked for has ended, with nothing.
Init ==
    /\ lan \in [Clocks -> Setups] /\ switches = 0
    /\ request \in Requests
    /\ pc = "start" /\ todo = {} /\ rows = <<>> /\ seen = {}
    /\ http = [c \in Clocks |-> "getBase"]
    /\ listener = IF "listen" \in request THEN "listening" ELSE "ended"
    /\ mdns = IF "mdns" \in request THEN "browse" ELSE "ended"
    /\ heard = {} /\ named = {}

-----------------------------------------------------------------------------
(* The listener and the mdns probe, beside main *)

(* listen_broadcasts: a stock clock's broadcast arrives.                    *)
Hear(c) ==
    /\ listener = "listening" /\ lan[c].kind = "stock" /\ c \notin heard
    /\ heard' = heard \cup {c} /\ seen' = seen \cup {<<c, "stock">>}
    /\ UNCHANGED <<lan_vars, place_vars, rows, named>>

(* It has waited long enough, or its socket failed: "the port is optional". *)
ListenerEnds ==
    /\ listener = "listening"
    /\ listener' = "ended"
    /\ UNCHANGED <<lan_vars, pc, todo, http, mdns, found_vars>>

(* mdns_discover: the daemon's cache, if it has one, of clocks that may have*)
(* left, each with its address or left out; if that is empty, the lan.      *)
Browse ==
    /\ mdns = "browse"
    /\ \E cached \in SUBSET Clocks :
         /\ named' = cached /\ seen' = seen \cup {<<c, "runtime">> : c \in cached}
         /\ mdns' = IF cached = {} THEN "query" ELSE "ended"
    /\ UNCHANGED <<lan_vars, pc, todo, http, listener, rows, heard>>

(* mdns_query: a runtime's answer arrives.                                  *)
Answer(c) ==
    /\ mdns = "query" /\ lan[c].kind = "runtime" /\ c \notin named
    /\ named' = named \cup {c} /\ seen' = seen \cup {<<c, "runtime">>}
    /\ UNCHANGED <<lan_vars, place_vars, rows, heard>>

MdnsEnds ==
    /\ mdns = "query"
    /\ mdns' = "ended"
    /\ UNCHANGED <<lan_vars, pc, todo, http, listener, found_vars>>

-----------------------------------------------------------------------------
(* Main: adb *)

(* adb_transports: those that say "device".                                 *)
AdbTransports ==
    /\ pc = "start"
    /\ pc' = "adb"
    /\ todo' = IF "adb" \in request
               THEN {t \in Transports : t.via \in lan[t.of].adb}
               ELSE {}
    /\ UNCHANGED <<lan_vars, http, listener, mdns, found_vars>>

\* rows[mac] = d: a clock that is on two transports has one row
PutByMac(row) ==
    LET same == {i \in DOMAIN rows : rows[i].mac = row.mac}
    IN  rows' = IF same = {} THEN Append(rows, row)
                ELSE [i \in DOMAIN rows |-> IF i \in same THEN row ELSE rows[i]]

\* sh: what a command said, or nothing
Sh == BOOLEAN

(* describe_adb: three adb calls, each of which may come to nothing.  The   *)
(* kind is told by the runtime's binaries, running or not.                  *)
DescribeAdb ==
    /\ pc = "adb" /\ todo # {}
    /\ \E t \in todo, mac, address, listing \in Sh :
         LET kind == IF listing /\ lan[t.of].binaries THEN "runtime" ELSE "stock"
         IN  /\ todo' = todo \ {t}
             /\ IF mac
                THEN /\ PutByMac(Row(t, IF address THEN t.of ELSE None, t.of, kind, None))
                     /\ seen' = seen \cup {<<t.of, "adb">>}
                ELSE UNCHANGED <<rows, seen>>
    /\ UNCHANGED <<lan_vars, pc, http, listener, mdns, heard, named>>

AdbEnds ==
    /\ pc = "adb" /\ todo = {}
    /\ pc' = IF "sweep" \in request THEN "sweep" ELSE "listen"
    /\ UNCHANGED <<lan_vars, todo, http, listener, mdns, found_vars>>

-----------------------------------------------------------------------------
(* Main: the sweep.  A row is added when its address has told what it is;   *)
(* main adds them by address, but rows of two addresses never meet.         *)

\* One adb has given a row of that mac already gets none, nor an address: its row
\* has the field, empty.
Told(c, mac, kind) ==
    /\ rows' = IF \E i \in DOMAIN rows : mac # None /\ rows[i].mac = mac THEN rows
               ELSE Append(rows, Row(Tcp(c), c, mac, kind, None))
    /\ seen' = seen \cup {<<c, kind>>}
    /\ http' = [http EXCEPT ![c] = "told"]

(* identify: stock firmware answers /getBase, with its mac if the body can  *)
(* be read.                                                                 *)
GetBase(c) ==
    /\ pc = "sweep" /\ http[c] = "getBase"
    /\ \/ lan[c].kind = "stock" /\ \E mac \in {c, None} : Told(c, mac, "stock")
       \/ http' = [http EXCEPT ![c] = "status"] /\ UNCHANGED <<rows, seen>>
    /\ UNCHANGED <<lan_vars, pc, todo, listener, mdns, heard, named>>

(* Of whoever did not, the runtime says 401 to /api/v1/status.              *)
GetStatus(c) ==
    /\ pc = "sweep" /\ http[c] = "status"
    /\ \/ lan[c].kind = "runtime" /\ Told(c, None, "runtime")
       \/ http' = [http EXCEPT ![c] = "told"] /\ UNCHANGED <<rows, seen>>
    /\ UNCHANGED <<lan_vars, pc, todo, listener, mdns, heard, named>>

SweepEnds ==
    /\ pc = "sweep" /\ \A c \in Clocks : http[c] = "told"
    /\ pc' = "listen"
    /\ UNCHANGED <<lan_vars, todo, http, listener, mdns, found_vars>>

-----------------------------------------------------------------------------
(* Main: the results of the two that ran beside it *)

BroadcastRow(c) ==
    /\ pc = "listen" /\ listener = "ended" /\ c \in heard
    /\ rows' = Append(rows, Row(Tcp(c), c, c, "stock", None)) /\ heard' = heard \ {c}
    /\ UNCHANGED <<lan_vars, place_vars, named, seen>>

Listened ==
    /\ pc = "listen" /\ listener = "ended" /\ heard = {}
    /\ pc' = "mdns"
    /\ UNCHANGED <<lan_vars, todo, http, listener, mdns, found_vars>>

MdnsRow(c) ==
    /\ pc = "mdns" /\ mdns = "ended" /\ c \in named
    /\ rows' = Append(rows, Row(Tcp(c), c, None, "runtime", c)) /\ named' = named \ {c}
    /\ UNCHANGED <<lan_vars, place_vars, heard, seen>>

Browsed ==
    /\ pc = "mdns" /\ mdns = "ended" /\ named = {}
    /\ pc' = "done"
    /\ UNCHANGED <<lan_vars, todo, http, listener, mdns, found_vars>>

(* Meanwhile a clock is flashed, or its runtime is started from /tmp, or it *)
(* is back at the stock firmware, with or without the runtime's binaries.   *)
Switch(c) ==
    /\ switches < MaxSwitches /\ pc # "done"
    /\ \/ lan[c].kind = "stock"
          /\ lan' = [lan EXCEPT ![c].kind = "runtime", ![c].binaries = TRUE]
       \/ lan[c].kind = "runtime"
          /\ \E left \in BOOLEAN :
               lan' = [lan EXCEPT ![c].kind = "stock", ![c].binaries = left]
    /\ switches' = switches + 1
    /\ UNCHANGED <<request, place_vars, found_vars>>

Next == \/ AdbTransports \/ DescribeAdb \/ AdbEnds \/ SweepEnds \/ Listened \/ Browsed
        \/ ListenerEnds \/ Browse \/ MdnsEnds
        \/ \E c \in Clocks : \/ Hear(c) \/ Answer(c) \/ GetBase(c) \/ GetStatus(c)
                             \/ BroadcastRow(c) \/ MdnsRow(c) \/ Switch(c)

Spec == Init /\ [][Next]_vars

-----------------------------------------------------------------------------
(* merge_rows: one row per address; the one with a mac first, and what it   *)
(* lacks from the other.                                                    *)
MergeKey(r) == IF r.ip = None THEN r.transport ELSE r.ip

Filled(keep, r) ==
    LET first == IF r.mac # None /\ keep.mac = None THEN r ELSE keep
        other == IF first = r THEN keep ELSE r
    IN  [f \in DOMAIN keep |-> IF f = "transport" \/ first[f] # None THEN first[f]
                                   ELSE other[f]]

\* mutant: the last row says which firmware it is
LastTells(keep, r) == [Filled(keep, r) EXCEPT !.kind = r.kind]

Combine(keep, r) ==
    IF "runtime" \in {keep.kind, r.kind} THEN [Filled(keep, r) EXCEPT !.kind = "runtime"]
                                         ELSE Filled(keep, r)

\* merged, after one more row
Merged(table, r) ==
    LET key == MergeKey(r)
    IN  [k \in DOMAIN table \cup {key} |->
            IF k # key THEN table[k] ELSE IF key \in DOMAIN table THEN Combine(table[key], r) ELSE r]

MergeRows ==
    LET merged[i \in 0..Len(rows)] == IF i = 0 THEN <<>> ELSE Merged(merged[i - 1], rows[i])
    IN  Range(merged[Len(rows)])

\* mutant: the first of the table will do
FirstOf(table) == table # {}

ExactlyOne(table) == Cardinality(table) = 1

(* --one: the address it prints, or None with exit code 2; None also stands *)
(* for the ":5555" of a clock on usb of which no address is known.          *)
One == IF ~ExactlyOne(MergeRows) THEN None
       ELSE LET r == CHOOSE row \in MergeRows : TRUE
            IN  IF r.transport.via = "tcp" THEN r.transport.of ELSE r.ip

-----------------------------------------------------------------------------
(* An address is printed only when the probes, whichever of them failed,    *)
(* found one clock, and it is that clock's.  A clock that any of them found *)
(* to run the runtime is listed as a runtime at its address, and with its   *)
(* mac if a row of that address has one, whichever of its rows came first:  *)
(* also a clock that was stock before that, or is again.                    *)
OneMeansOne ==
    pc = "done" =>
        /\ One # None => {s[1] : s \in seen} = {One}
        /\ \A r \in MergeRows :
             /\ <<r.ip, "runtime">> \in seen => r.kind = "runtime"
             /\ r.mac = None /\ r.ip # None =>
                  \A i \in DOMAIN rows : rows[i].ip = r.ip => rows[i].mac = None
=============================================================================
