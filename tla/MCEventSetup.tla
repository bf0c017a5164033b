----------------------------- MODULE MCEventSetup -----------------------------
\* Instances of EventSetup for TLC.
EXTENDS EventSetup, TLC

CONSTANTS t1, t2, t3, r1, r2, k1, g1, c1, c2

\* t2 is a template for the event alone, the others are for all events.
MCScopeOf == (t1 :> "all") @@ (t2 :> "event") @@ (t3 :> "all")

Unmade == [DeletedTemplate EXCEPT !.state = "unmade"]
NoRule == [DeletedRule EXCEPT !.state = "unmade"]

T(c, active, default) ==
    [state |-> "stored", code |-> c, active |-> active, default |-> default]
R(t, n, ks) == [state |-> "stored", template |-> t, priority |-> n, types |-> ks]

\* Two templates, one of them with a rule, and room for more; a template for either
\* reason not to be deleted, the default inactive, and two rules.
MCStarts ==
    { [template |-> (t1 :> T(c1, TRUE, TRUE)) @@ (t2 :> T(c2, TRUE, FALSE)) @@ (t3 :> Unmade),
       rule |-> (r1 :> R(t1, 0, { k1 })) @@ (r2 :> NoRule),
       types |-> { k1 }, setting |-> NoTemplate, users |-> {}, badge |-> g1 :> NoTemplate],
      [template |-> (t1 :> T(c1, FALSE, TRUE)) @@ (t2 :> DeletedTemplate) @@ (t3 :> T(c2, TRUE, FALSE)),
       rule |-> (r1 :> R(t3, 2, { k1 })) @@ (r2 :> R(t3, 0, {})),
       types |-> { k1 }, setting |-> t1, users |-> Users, badge |-> g1 :> t3] }

MCPatches ==
    { <<TRUE, Undefined>>, <<FALSE, FALSE>> }

=============================================================================
