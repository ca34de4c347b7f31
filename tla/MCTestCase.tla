----------------------------- MODULE MCTestCase -----------------------------
EXTENDS TestCase

Of(p, l, pr, rq, s, f) == [peer |-> p, lead |-> l, probe |-> pr, requires |-> rq,
                           steps |-> s, finally |-> f]

\* Like the bundled scenarios: with and without a leading wait, a loop in front
\* of another step, an optional step in the middle, none to two finally steps.
MCScripts == {Of(TRUE, TRUE, FALSE, TRUE, <<"step", "each", "step">>, 2),
              Of(TRUE, FALSE, FALSE, FALSE, <<"step", "optional", "each">>, 1),
              Of(FALSE, TRUE, FALSE, FALSE, <<"each", "step">>, 1),
              Of(TRUE, TRUE, TRUE, FALSE, <<"step">>, 0)}
MCShort == {Of(TRUE, TRUE, FALSE, TRUE, <<"step", "each">>, 1)}
=============================================================================
