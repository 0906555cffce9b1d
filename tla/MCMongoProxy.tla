---------------------------- MODULE MCMongoProxy ----------------------------
(* Instances of MongoProxy for TLC.                                         *)
EXTENDS MongoProxy

CONSTANT c1

OneConn == {c1}

Delay == [delay |-> TRUE, bytes |-> 0, all |-> FALSE]
Bytes(n) == [delay |-> FALSE, bytes |-> n, all |-> FALSE]
All == [delay |-> FALSE, bytes |-> 0, all |-> TRUE]

Command(test, actions) ==
    [form |-> "body", test |-> test, actions |-> actions, answered |-> TRUE]
Plain == Command("none", <<>>)
(* The README's example; one action that does all at once, cut at the end;  *)
(* more bytes than the reply has, then a pause.                             *)
OneByteThenAll == Command("actions", <<Bytes(1), Delay, All>>)
TwoSteps == Command("actions", <<Bytes(1), [delay |-> TRUE, bytes |-> 1, all |-> FALSE], Delay>>)
TooMany == Command("actions", <<Bytes(9), Delay>>)
Unacknowledged == [Plain EXCEPT !.answered = FALSE]

AnyCommand == {Plain, OneByteThenAll, TwoSteps, TooMany, Unacknowledged,
               Command("noactions", <<>>), Command("bad", <<>>), [Plain EXCEPT !.form = "other"]}
=============================================================================
