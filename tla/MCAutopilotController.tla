----------------------- MODULE MCAutopilotController -----------------------
\* Small instances of the controllers over one run.
EXTENDS AutopilotRefinement, TLC

OwnerSymmetry == Permutations(Owners)

\* A plan that needs the host to add its validation, and a discovery plan
\* with its own.
FewPlans == {<<"validate">>}
AllPlans == {<<"validate">>, <<"inspect", "validate">>,
             <<"research", "implement", "report">>}

FewReplans == {<<"implement">>}
AllReplans == {<<"implement">>, <<"inspect", "validate">>}

\* No run stays in execution for ever, and every invocation returns or dies
\* (RunsAreReleased, InvocationsEnd of AutopilotController).
RunsComeToRest == RunsAreReleased /\ InvocationsEnd
=============================================================================
