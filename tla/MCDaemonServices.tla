-------------------------- MODULE MCDaemonServices ---------------------------
EXTENDS DaemonServices, TLC

CONSTANTS r1, r2, r3, tick, dashboard, w1, w2, w3, w4, e1, e2,
          s1, s2, k1, k2, i1, g1, g2, plan1, plan2, key, tool

MCRecords == {r1, r2, r3}
MCSpoolers == {tick, dashboard}
MCWorkers == {w1, w2}
MCPhaseWorkers == {w1, w2, w3, w4}
MCEvents == {e1, e2}
MCLimits == {1, 2, 3}
MCOrder == <<s1, s2, k1, k2, i1>>
MCChildren == (s1 :> {k1, k2}) @@ [s \in {s2, k1, k2, i1} |-> {}]
MCIssueOf == (s1 :> {i1}) @@ [s \in {s2, k1, k2, i1} |-> {}]
MCRulings ==
    (s1 :> {"split_story", "repo_issue", "patch_acceptance"})
    @@ (s2 :> {"mark_done", "escalate_model"})
    @@ [s \in {k1, k2, i1} |-> {}]
MCMaxGrades == [s \in {s1, s2} |-> 1] @@ [s \in {k1, k2, i1} |-> 0]
MCGraded == {g1, g2}
MCPlanOf == (g1 :> plan1) @@ (g2 :> plan2)
MCKeyOf == [s \in MCGraded |-> key]
MCMaxRounds == (g1 :> 2) @@ (g2 :> 1)
MCCallers == {tick, tool}
MCPlans == {plan1, plan2}
MCStoryKeys == {key}
MCEdited == {plan1}
=============================================================================
