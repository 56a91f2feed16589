------------------------------ MODULE MCArbiter ------------------------------
(* Arbiter with a handful of notifications: unnamed text, a named document,  *)
(* a named text that is held.                                                *)
EXTENDS Arbiter

Note(name, doc, hold, dur) == [name |-> name, doc |-> doc, hold |-> hold, dur |-> dur]

MCPosts == {Note(NoName, FALSE, FALSE, 1), Note("a", TRUE, FALSE, 2), Note("a", FALSE, TRUE, 1)}

Packet(b, g, seed, s) == [base |-> b, generator |-> g, seed |-> seed, style |-> s]

MCScenePackets == {Packet("art", {"g2"}, {}, {}), Packet("clock", {}, {}, {"s2"})}
=============================================================================
