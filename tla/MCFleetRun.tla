----------------------------- MODULE MCFleetRun -----------------------------
EXTENDS FleetRun

\* Two machines; a1 and a2 are two sessions on one of them.
CheckoutsDef == {"A", "B"}
RunsDef == {"a1", "a2", "b1"}
AtDef == [r \in RunsDef |-> IF r = "b1" THEN "B" ELSE "A"]
ProjectsDef == {"p", "q"}
BoxesDef == {"x"}
BoxOfDef == [p \in ProjectsDef |-> "x"]
PinsDef == 0..2

Up(members, pin) == [kind |-> "up", members |-> members, pin |-> pin, takeOver |-> FALSE]
Plain(kind) == [kind |-> kind, members |-> {}, pin |-> 0, takeOver |-> FALSE]
Back(p) == [kind |-> "rollback", members |-> {p}, pin |-> 0, takeOver |-> FALSE]
JobsDef == [r \in RunsDef |->
    IF r = "a1" THEN {Up({"p"}, 1)}
    ELSE IF r = "a2" THEN {Back("p"), Plain("push")}
    ELSE {[Up({"p"}, 2) EXCEPT !.takeOver = TRUE], Up({"q"}, 1)}]

\* The runs that make no claim: bay deploy, a route-only up, bay fleet push.
PlaysJobsDef == [r \in RunsDef |->
    IF r = "a1" THEN {Up({"p"}, 1)}
    ELSE IF r = "a2" THEN {Plain("deploy")} ELSE {Plain("routes"), Plain("push")}]

\* One session per machine.
PairDef == {"a1", "b1"}
PairAtDef == [r \in PairDef |-> AtDef[r]]
PairJobsDef == [r \in PairDef |-> {Up({"p"}, 1)}]
=============================================================================
