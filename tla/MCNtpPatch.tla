----------------------------- MODULE MCNtpPatch -----------------------------
(* NtpPatch for a device of a build the tool knows, and one of another.        *)
EXTENDS NtpPatch

\* another period, and two servers for three slots
MCWishes == {[period |-> <<"10 min">>, servers |-> << >>],
             [period |-> << >>, servers |-> <<"10.0.0.5", "10.0.0.6">>]}
=============================================================================
