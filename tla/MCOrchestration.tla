--------------------------- MODULE MCOrchestration ---------------------------
(* Instances of Orchestration for TLC.                                      *)
EXTENDS Orchestration

Command(c) == [cmd |-> c, mode |-> "mo", otel |-> FALSE, crypt |-> FALSE, inArgs |-> FALSE]
RunWith(mode, otel, crypt) ==
    [cmd |-> "run", mode |-> mode, otel |-> otel, crypt |-> crypt, inArgs |-> FALSE]

TwoPorts == {27017, 27018}
Everyday == {RunWith("mo", TRUE, TRUE), RunWith("runner", FALSE, TRUE),
             RunWith("atlas", FALSE, FALSE), Command("start"), Command("stop")}
Everything == Everyday \cup {RunWith("atlas", TRUE, FALSE), Command("clean"),
             Command("lbstart"), Command("lbstop"), Command("teardown"),
             [Command("stop") EXCEPT !.inArgs = TRUE]}

Balancing == {Command("lbstart"), Command("teardown")}
=============================================================================
