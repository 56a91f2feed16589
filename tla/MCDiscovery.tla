---------------------------- MODULE MCDiscovery ----------------------------
(* The clock lister, for two clocks.  A behaviour looks at one of two things,   *)
(* which share nothing: at the rows that its probes give and the merge makes of *)
(* them (Discovery), or at how long one probe waits, in tenths of a second      *)
(* (ProbeWaits); the other stays as it was.                                     *)
(*                                                                              *)
(* Of the rows: all four probes are asked for.  Each may come to nothing, and   *)
(* so may each adb transport: a clock that is on one transport, or not there at *)
(* all, is one of which the rest finds nothing.  The clocks may be exchanged:   *)
(* in which order a probe's rows of different clocks come makes no difference   *)
(* to the rows of one.                                                          *)
EXTENDS Discovery, ProbeWaits, TLC

CONSTANTS c1, c2

MCClocks   == {c1, c2}
MCSetups   == [kind : {"stock", "runtime"}, binaries : BOOLEAN, adb : {{"tcp", "usb"}}]
MCRequests == {AllProbes}
MCPeriod   == {9, 11}
MCDelay    == 1..2
Interchangeable == Permutations(Clocks)

VARIABLE look

SomeSetup == CHOOSE s \in Setups : TRUE

MCInit == /\ Init /\ ProbeInit
          /\ \/ look = "rows"  /\ firmware = [c \in Devices |-> "off"]
             \/ look = "waits" /\ lan = [c \in Clocks |-> SomeSetup]

MCNext == /\ \/ look = "rows"  /\ Next /\ UNCHANGED probe_vars
             \/ look = "waits" /\ ProbeNext /\ UNCHANGED vars
          /\ UNCHANGED look

MCSpec == MCInit /\ [][MCNext]_<<look, vars, probe_vars>>
=============================================================================
