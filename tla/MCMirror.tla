------------------------------ MODULE MCMirror ------------------------------
EXTENDS Mirror

Base(b)  == [op |-> "set_base", base |-> b]
Style(s) == [op |-> "set_clock_style", style |-> s]
Note(n, hold, doc, stack) ==
    [op |-> "notify", note |-> [name |-> n, doc |-> doc, hold |-> hold, dur |-> 1], stack |-> stack]

\* one change to a packet
Single == {<<Base(b)>> : b \in Bases} \cup {<<Style(s)>> : s \in Styles}

\* a scene with its style
Scenes == {<<Base(b), Style(s)>> : b \in Bases, s \in Styles}

Changing == Single \cup Scenes

Overlays ==
    {<<Note("a", FALSE, FALSE, TRUE)>>, <<Note("b", FALSE, TRUE, TRUE)>>,
     <<[op |-> "dismiss_notify", name |-> "b"]>>, <<Base("art")>>}

\* a scene with its style, and bases alone
Bursts == {<<Base("art"), Style("other")>>} \cup {<<Base(b)>> : b \in Bases}

\* raw frames between changes: see "How far InStep reaches" in README.md
Framed == Single \cup {<<[op |-> "raw", dur |-> 1, soft |-> FALSE]>>}

\* a notification that ends by a change which may be lost: the same
Masked == {<<Base("art")>>, <<Note("a", FALSE, FALSE, FALSE)>>}
=============================================================================
