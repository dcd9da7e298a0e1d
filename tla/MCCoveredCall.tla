--------------------------- MODULE MCCoveredCall ---------------------------
\* Two openers and a roll of the first one; one thread sells and closes the
\* first call, the other one sells the second, rolls the first and continues.
EXTENDS CoveredCall, TLC

CONSTANTS o1, o2, r1, w1, w2

MCOpens == {o1, o2}
MCRolls == {r1}
MCSource == r1 :> o1
MCThreads == {w1, w2}
MCAsked ==
    w1 :> {<<"approve", o1>>, <<"open", o1>>, <<"close", o1>>, <<"approve", r1>>}
    @@ w2 :> {<<"approve", o2>>, <<"open", o2>>, <<"roll", r1>>,
              <<"continue", r1>>}
=============================================================================
