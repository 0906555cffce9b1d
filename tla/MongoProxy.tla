----------------------------- MODULE MongoProxy -----------------------------
(***************************************************************************)
(* mongoproxy: a TCP proxy between a MongoDB driver and a server.  For each *)
(* accepted connection one goroutine (the "up" side, proxyClientToMongo)    *)
(* forwards commands and strips the proxyTest field, remembering its        *)
(* instruction in pendingMap; the other (the "down" side,                   *)
(* proxyMongoToClient) takes the instruction when it has read a reply and   *)
(* doles that reply out as told, then copies the rest of the stream.        *)
(*                                                                         *)
(* A message is the number of its command; a reply is ReplyLen             *)
(* units <<id, offset>>, so a sendBytes of any size can be told apart.      *)
(***************************************************************************)
EXTENDS Integers, Sequences

CONSTANTS Conns,        (* the client connections                          *)
          Templates,    (* the commands the client may send                *)
          ReplyLen,     (* units per reply                                 *)
          MaxRequests   (* bound: commands per connection                  *)

None == [actions |-> <<>>, from |-> 0]

(* What an action does: sleep, send some bytes, send all that is left.      *)
Action == [delay : BOOLEAN, bytes : Nat, all : BOOLEAN]

(* form "body": an OP_MSG whose first section is the command document, the  *)
(* only one that is looked into; anything else is "other".  test: no         *)
(* proxyTest field, one with actions, one without, or one that does not      *)
(* parse.  answered: the server replies (FALSE for an unacknowledged write). *)
Template == [form : {"body", "other"}, test : {"none", "actions", "noactions", "bad"},
             actions : Seq(Action), answered : BOOLEAN]

ASSUME TemplatesOK ==
    /\ Templates \subseteq Template
    /\ \A t \in Templates : t.test # "actions" => t.actions = <<>>
    /\ ReplyLen \in Nat \ {0}
    /\ MaxRequests \in Nat

VARIABLES
    patient,    (* [Conns -> BOOLEAN]: waits for a reply before it sends   *)
    asked,      (* [Conns -> Seq(template)]: the commands sent so far      *)
    toProxy,    (* [Conns -> Seq(id)]: on their way to the proxy           *)
    toServer,   (* [Conns -> Seq(id)]: on their way to the server          *)
    fromServer, (* [Conns -> Seq(id)]: replies on their way to the proxy   *)
    toClient,   (* [Conns -> Seq(unit)]: everything written to the client  *)
    pendingMap, (* [Conns -> instruction]                                  *)
    up,         (* [Conns -> {"reading", "writing", "done"}]               *)
    held,       (* [Conns -> Seq(id)]: stripped, not yet written           *)
    down,       (* [Conns -> the down side's step]                         *)
    buf,        (* [Conns -> Seq(unit)]: the reply being doled out         *)
    acts,       (* [Conns -> Seq(action)]: the actions left to perform     *)
    due,        (* [Conns -> Nat]: history, units the actions released     *)
    applied,    (* [Conns -> set of <<instruction's id, reply's id>>]      *)
    clientOpen, (* [Conns -> BOOLEAN]: the client has not closed           *)
    serverOpen  (* [Conns -> BOOLEAN]: the server has not closed           *)

upVars == <<up, held>>
downVars == <<down, buf, acts, due, applied>>
vars == <<patient, asked, toProxy, toServer, fromServer, toClient, pendingMap, up,
          held, down, buf, acts, due, applied, clientOpen, serverOpen>>

Units(id) == [i \in 1 .. ReplyLen |-> <<id, i>>]
Concat(ids) == [k \in 1 .. ReplyLen * Len(ids) |->
                  <<ids[((k - 1) \div ReplyLen) + 1], ((k - 1) % ReplyLen) + 1>>]
AtMost(n, m) == IF n < m THEN n ELSE m
Put(f, c, x) == [f EXCEPT ![c] = Append(@, x)]
Pop(f, c) == [f EXCEPT ![c] = Tail(@)]

Ids == 1 .. MaxRequests
Unit == Ids \X (1 .. ReplyLen)

TypeOK ==
    /\ patient \in [Conns -> BOOLEAN]
    /\ asked \in [Conns -> Seq(Templates)]
    /\ toProxy \in [Conns -> Seq(Ids)] /\ toServer \in [Conns -> Seq(Ids)]
    /\ fromServer \in [Conns -> Seq(Ids)] /\ held \in [Conns -> Seq(Ids)]
    /\ toClient \in [Conns -> Seq(Unit)] /\ buf \in [Conns -> Seq(Unit)]
    /\ pendingMap \in [Conns -> [actions : Seq(Action), from : Ids] \cup {None}]
    /\ up \in [Conns -> {"reading", "writing", "done"}]
    /\ down \in [Conns -> {"reading", "taking", "acting", "paused", "copying", "done"}]
    /\ acts \in [Conns -> Seq(Action)] /\ due \in [Conns -> 0 .. ReplyLen]
    /\ applied \in [Conns -> SUBSET (Ids \X Ids)]
    /\ clientOpen \in [Conns -> BOOLEAN] /\ serverOpen \in [Conns -> BOOLEAN]
    /\ \A c \in Conns :
         /\ Len(asked[c]) <= MaxRequests
         /\ Len(held[c]) = (IF up[c] = "writing" THEN 1 ELSE 0)
         /\ acts[c] # <<>> => down[c] \in {"acting", "paused"}

Init ==
    /\ patient \in [Conns -> BOOLEAN]
    /\ asked = [c \in Conns |-> <<>>]
    /\ toProxy = [c \in Conns |-> <<>>]
    /\ toServer = [c \in Conns |-> <<>>]
    /\ fromServer = [c \in Conns |-> <<>>]
    /\ toClient = [c \in Conns |-> <<>>]
    /\ pendingMap = [c \in Conns |-> None]
    /\ up = [c \in Conns |-> "reading"]
    /\ held = [c \in Conns |-> <<>>]
    /\ down = [c \in Conns |-> "reading"]
    /\ buf = [c \in Conns |-> <<>>]
    /\ acts = [c \in Conns |-> <<>>]
    /\ due = [c \in Conns |-> 0]
    /\ applied = [c \in Conns |-> {}]
    /\ clientOpen = [c \in Conns |-> TRUE]
    /\ serverOpen = [c \in Conns |-> TRUE]

-----------------------------------------------------------------------------
(* The client: a driver that is patient sends one command at a time, which  *)
(* has a well-formed instruction only if it is answered, or unacknowledged   *)
(* writes; any other client sends what it likes when it likes.               *)

Received(c, i) == \E k \in DOMAIN toClient[c] : toClient[c][k] = <<i, ReplyLen>>
Waiting(c) == \E i \in DOMAIN asked[c] : asked[c][i].answered /\ ~Received(c, i)

Send(c) ==
    /\ clientOpen[c] /\ down[c] # "done"
    /\ Len(asked[c]) < MaxRequests
    /\ patient[c] => ~Waiting(c)
    /\ \E t \in Templates :
         /\ patient[c] => t.test # "bad" /\ (t.test = "actions" => t.answered)
         /\ asked' = Put(asked, c, t)
    /\ toProxy' = Put(toProxy, c, Len(asked[c]) + 1)
    /\ UNCHANGED <<toServer, fromServer, toClient, pendingMap, upVars, downVars,
                   clientOpen, serverOpen>>

CloseClient(c) ==
    /\ clientOpen[c]
    /\ clientOpen' = [clientOpen EXCEPT ![c] = FALSE]
    /\ UNCHANGED <<asked, toProxy, toServer, fromServer, toClient, pendingMap,
                   upVars, downVars, serverOpen>>

-----------------------------------------------------------------------------
(* proxyClientToMongo.                                                     *)

(* dst.Write: errors are ignored, a closed server just gets nothing.       *)
Forward(c, id) ==
    toServer' = IF serverOpen[c] THEN Put(toServer, c, id) ELSE toServer

(* A field without actions, or where nobody looks, stays in the message.   *)
ForwardAsIs(c) ==
    LET id == Head(toProxy[c])
        t == asked[c][id]
    IN /\ t.form = "other" \/ t.test \in {"none", "noactions"}
       /\ Forward(c, id)
       /\ UNCHANGED <<pendingMap, upVars>>

StripInstruction(c) ==
    LET id == Head(toProxy[c])
        t == asked[c][id]
    IN /\ t.form = "body" /\ t.test = "actions"
       /\ pendingMap' = [pendingMap EXCEPT ![c] = [actions |-> t.actions, from |-> id]]
       /\ held' = Put(held, c, id)
       /\ up' = [up EXCEPT ![c] = "writing"]
       /\ UNCHANGED toServer

(* parseProxy fails: the goroutine returns, nothing is forwarded or closed. *)
RejectInstruction(c) ==
    LET t == asked[c][Head(toProxy[c])]
    IN /\ t.form = "body" /\ t.test = "bad"
       /\ up' = [up EXCEPT ![c] = "done"]
       /\ UNCHANGED <<toServer, pendingMap, held>>

ReadRequest(c) ==
    /\ up[c] = "reading" /\ down[c] # "done"
    /\ toProxy[c] # <<>>
    /\ ForwardAsIs(c) \/ StripInstruction(c) \/ RejectInstruction(c)
    /\ toProxy' = Pop(toProxy, c)
    /\ UNCHANGED <<asked, fromServer, toClient, downVars, clientOpen, serverOpen>>

WriteStripped(c) ==
    /\ up[c] = "writing"
    /\ Forward(c, Head(held[c]))
    /\ held' = Pop(held, c)
    /\ up' = [up EXCEPT ![c] = "reading"]
    /\ UNCHANGED <<asked, toProxy, fromServer, toClient, pendingMap, downVars,
                   clientOpen, serverOpen>>

(* The client closed, or handleConnection returned and closed both ends.   *)
ReadFails(c) ==
    /\ up[c] = "reading"
    /\ (toProxy[c] = <<>> /\ ~clientOpen[c]) \/ down[c] = "done"
    /\ up' = [up EXCEPT ![c] = "done"]
    /\ UNCHANGED <<asked, toProxy, toServer, fromServer, toClient, pendingMap, held,
                   downVars, clientOpen, serverOpen>>

(* Mutant: the stripped command is written before its instruction is set.  *)
UpWriteFirst(c) ==
    \/ /\ up[c] = "reading" /\ down[c] # "done" /\ toProxy[c] # <<>>
       /\ asked[c][Head(toProxy[c])].test = "actions"
       /\ Forward(c, Head(toProxy[c]))
       /\ held' = Put(held, c, Head(toProxy[c]))
       /\ up' = [up EXCEPT ![c] = "writing"]
       /\ toProxy' = Pop(toProxy, c)
       /\ UNCHANGED <<asked, fromServer, toClient, pendingMap, downVars, clientOpen, serverOpen>>
    \/ /\ up[c] = "writing"
       /\ pendingMap' = [pendingMap EXCEPT ![c] =
              [actions |-> asked[c][Head(held[c])].actions, from |-> Head(held[c])]]
       /\ held' = Pop(held, c)
       /\ up' = [up EXCEPT ![c] = "reading"]
       /\ UNCHANGED <<asked, toProxy, toServer, fromServer, toClient, downVars,
                      clientOpen, serverOpen>>
    \/ ReadRequest(c) /\ UNCHANGED held
    \/ ReadFails(c)

Up(c) == ReadRequest(c) \/ WriteStripped(c) \/ ReadFails(c)

-----------------------------------------------------------------------------
(* The server.                                                             *)

Answer(c) ==
    /\ serverOpen[c]
    /\ toServer[c] # <<>>
    /\ fromServer' = IF asked[c][Head(toServer[c])].answered
                     THEN Put(fromServer, c, Head(toServer[c])) ELSE fromServer
    /\ toServer' = Pop(toServer, c)
    /\ UNCHANGED <<asked, toProxy, toClient, pendingMap, upVars, downVars,
                   clientOpen, serverOpen>>

CloseServer(c) ==
    /\ serverOpen[c]
    /\ serverOpen' = [serverOpen EXCEPT ![c] = FALSE]
    /\ toServer' = [toServer EXCEPT ![c] = <<>>]
    /\ UNCHANGED <<asked, toProxy, fromServer, toClient, pendingMap, upVars, downVars,
                   clientOpen>>

-----------------------------------------------------------------------------
(* proxyMongoToClient.                                                     *)

ReadReply(c) ==
    /\ down[c] = "reading"
    /\ fromServer[c] # <<>>
    /\ buf' = [buf EXCEPT ![c] = Units(Head(fromServer[c]))]
    /\ fromServer' = Pop(fromServer, c)
    /\ down' = [down EXCEPT ![c] = "taking"]
    /\ UNCHANGED <<asked, toProxy, toServer, toClient, pendingMap, upVars, acts, due,
                   applied, clientOpen, serverOpen>>

(* dst.Write of the first n units of the buffer.                           *)
Dole(c, n) ==
    /\ toClient' = [toClient EXCEPT ![c] = @ \o SubSeq(buf[c], 1, n)]
    /\ buf' = [buf EXCEPT ![c] = SubSeq(@, n + 1, Len(@))]

Take(c) ==
    /\ down[c] = "taking"
    /\ pendingMap' = [pendingMap EXCEPT ![c] = None]
    /\ \/ /\ pendingMap[c] = None
          /\ Dole(c, Len(buf[c]))
          /\ down' = [down EXCEPT ![c] = "reading"]
          /\ UNCHANGED <<acts, due, applied>>
       \/ /\ pendingMap[c] # None
          /\ down' = [down EXCEPT ![c] = "acting"]
          /\ acts' = [acts EXCEPT ![c] = pendingMap[c].actions]
          /\ due' = [due EXCEPT ![c] = 0]
          /\ applied' = [applied EXCEPT ![c] = @ \cup {<<pendingMap[c].from, buf[c][1][1]>>}]
          /\ UNCHANGED <<toClient, buf>>
    /\ UNCHANGED <<asked, toProxy, toServer, fromServer, upVars, clientOpen, serverOpen>>

(* delayMs: the goroutine sleeps before the rest of the action.            *)
Pause(c) ==
    /\ down[c] = "acting"
    /\ acts[c] # <<>> /\ Head(acts[c]).delay
    /\ down' = [down EXCEPT ![c] = "paused"]
    /\ UNCHANGED <<asked, toProxy, toServer, fromServer, toClient, pendingMap, upVars,
                   buf, acts, due, applied, clientOpen, serverOpen>>

(* Mutant: sendBytes is cut one short of the end.                          *)
PerformCutShort(c) ==
    /\ acts[c] # <<>>
    /\ down[c] = "paused" \/ (down[c] = "acting" /\ ~Head(acts[c]).delay)
    /\ LET a == Head(acts[c])
           n == IF a.all \/ buf[c] = <<>> THEN Len(buf[c]) ELSE AtMost(a.bytes, Len(buf[c]) - 1)
       IN /\ Dole(c, n)
          /\ due' = [due EXCEPT ![c] = IF a.all THEN ReplyLen ELSE AtMost(@ + a.bytes, ReplyLen)]
    /\ acts' = Pop(acts, c)
    /\ down' = [down EXCEPT ![c] = "acting"]
    /\ UNCHANGED <<asked, toProxy, toServer, fromServer, pendingMap, upVars, applied,
                   clientOpen, serverOpen>>

(* Mutant: sendAll does not empty the buffer.                              *)
PerformAllAgain(c) ==
    /\ acts[c] # <<>>
    /\ down[c] = "paused" \/ (down[c] = "acting" /\ ~Head(acts[c]).delay)
    /\ LET a == Head(acts[c])
           n == IF a.all THEN Len(buf[c]) ELSE AtMost(a.bytes, Len(buf[c]))
       IN /\ toClient' = [toClient EXCEPT ![c] = @ \o SubSeq(buf[c], 1, n)]
          /\ buf' = IF a.all THEN buf ELSE [buf EXCEPT ![c] = SubSeq(@, n + 1, Len(@))]
          /\ due' = [due EXCEPT ![c] = IF a.all THEN ReplyLen ELSE AtMost(@ + a.bytes, ReplyLen)]
    /\ acts' = Pop(acts, c)
    /\ down' = [down EXCEPT ![c] = "acting"]
    /\ UNCHANGED <<asked, toProxy, toServer, fromServer, pendingMap, upVars, applied,
                   clientOpen, serverOpen>>

(* sendBytes, cut to what is left, then sendAll.                           *)
Perform(c) ==
    /\ acts[c] # <<>>
    /\ down[c] = "paused" \/ (down[c] = "acting" /\ ~Head(acts[c]).delay)
    /\ LET a == Head(acts[c])
           n == IF a.all THEN Len(buf[c]) ELSE AtMost(a.bytes, Len(buf[c]))
       IN /\ Dole(c, n)
          /\ due' = [due EXCEPT ![c] = IF a.all THEN ReplyLen ELSE AtMost(@ + a.bytes, ReplyLen)]
    /\ acts' = Pop(acts, c)
    /\ down' = [down EXCEPT ![c] = "acting"]
    /\ UNCHANGED <<asked, toProxy, toServer, fromServer, pendingMap, upVars, applied,
                   clientOpen, serverOpen>>

(* Mutant: what the actions left over is dropped.                          *)
FinishDropping(c) ==
    /\ down[c] = "acting"
    /\ acts[c] = <<>>
    /\ buf' = [buf EXCEPT ![c] = <<>>]
    /\ down' = [down EXCEPT ![c] = "copying"]
    /\ UNCHANGED <<asked, toProxy, toServer, fromServer, toClient, pendingMap, upVars, acts,
                   due, applied, clientOpen, serverOpen>>

(* Mutant: the loop over the actions ends with the reply, the rest is kept. *)
FinishEarly(c) ==
    /\ down[c] = "acting"
    /\ acts[c] = <<>> \/ buf[c] = <<>>
    /\ Dole(c, Len(buf[c]))
    /\ down' = [down EXCEPT ![c] = "copying"]
    /\ UNCHANGED <<asked, toProxy, toServer, fromServer, pendingMap, upVars, acts, due,
                   applied, clientOpen, serverOpen>>

(* What the actions left over is sent, then the stream is copied as it is. *)
FinishActions(c) ==
    /\ down[c] = "acting"
    /\ acts[c] = <<>>
    /\ Dole(c, Len(buf[c]))
    /\ down' = [down EXCEPT ![c] = "copying"]
    /\ UNCHANGED <<asked, toProxy, toServer, fromServer, pendingMap, upVars, acts, due,
                   applied, clientOpen, serverOpen>>

CopyRest(c) ==
    /\ down[c] = "copying"
    /\ fromServer[c] # <<>>
    /\ toClient' = [toClient EXCEPT ![c] = @ \o Units(Head(fromServer[c]))]
    /\ fromServer' = Pop(fromServer, c)
    /\ UNCHANGED <<asked, toProxy, toServer, pendingMap, upVars, downVars,
                   clientOpen, serverOpen>>

(* handleConnection returns and closes both connections: the server closed, *)
(* or io.Copy could not write to a client that is gone.                     *)
ReturnDown(c) ==
    /\ \/ down[c] \in {"reading", "copying"} /\ fromServer[c] = <<>> /\ ~serverOpen[c]
       \/ down[c] = "copying" /\ fromServer[c] # <<>> /\ ~clientOpen[c]
    /\ down' = [down EXCEPT ![c] = "done"]
    /\ serverOpen' = [serverOpen EXCEPT ![c] = FALSE]
    /\ toServer' = [toServer EXCEPT ![c] = <<>>]
    /\ UNCHANGED <<asked, toProxy, fromServer, toClient, pendingMap, upVars,
                   buf, acts, due, applied, clientOpen>>

Down(c) ==
    \/ ReadReply(c) \/ Take(c) \/ Pause(c) \/ Perform(c) \/ FinishActions(c)
    \/ CopyRest(c) \/ ReturnDown(c)

Next ==
    /\ \E c \in Conns :
         \/ Send(c) \/ CloseClient(c)
         \/ Up(c) \/ Down(c)
         \/ Answer(c) \/ CloseServer(c)
    /\ UNCHANGED patient

(* The Go scheduler runs every goroutine that can run, and a server that is *)
(* up answers what it has read.  Nobody has to send or to close.            *)
Fairness == \A c \in Conns : 
    /\ WF_vars(Up(c) /\ UNCHANGED patient)
    /\ WF_vars(Down(c) /\ UNCHANGED patient)
    /\ WF_vars(Answer(c) /\ UNCHANGED patient)

Spec == Init /\ [][Next]_vars
FairSpec == Spec /\ Fairness

-----------------------------------------------------------------------------
(* An instruction shapes the reply to the command that carried it, never    *)
(* another one's, although Take only knows that some reply has arrived.     *)
InstructionMeetsItsReply ==
    \A c \in Conns : patient[c] => \A m \in applied[c] : m[1] = m[2]

(* While replies are still looked at, a command whose instruction is pending *)
(* has not been answered as far as the client can see: the instruction is    *)
(* there before its reply can be read, and gone before any of it is sent.    *)
PendingIsOutstanding ==
    \A c \in Conns : patient[c] /\ pendingMap[c] # None /\ down[c] \in {"reading", "taking"} =>
        \A i \in DOMAIN toClient[c] : toClient[c][i][1] # pendingMap[c].from

(* Instruction, command and reply belong together from the moment the       *)
(* instruction is stripped to the moment its reply is shaped.               *)
InstructionsPaired == InstructionMeetsItsReply /\ PendingIsOutstanding

(* While the proxy sleeps in an action the client has been given exactly    *)
(* the units the actions before released: sendBytes cut to the reply's      *)
(* length, all of them after a sendAll.                                     *)
ShowsExactly(s, id, n) ==
    /\ n <= Len(s)
    /\ \A k \in DOMAIN s :
         IF k > Len(s) - n THEN s[k] = <<id, k - (Len(s) - n)>> ELSE s[k][1] # id

PauseShowsExactly ==
    \A c \in Conns : down[c] = "paused" =>
        \A m \in applied[c] : ShowsExactly(toClient[c], m[2], due[c])

(* The server's stream, seen from the client: replies doled out, forwarded  *)
(* and copied are one stream without a hole, a repetition or a swap.        *)
Stream == INSTANCE BytePipe WITH
    Pipes <- Conns,
    sent <- [c \in Conns |-> toClient[c] \o buf[c] \o Concat(fromServer[c])],
    delivered <- toClient

RepliesInOrder == Stream!PipeSpec

(* A client that waits gets its whole reply unless somebody closes.        *)
CommandsComplete ==
    \A c \in Conns : patient[c] /\ Waiting(c) ~> ~Waiting(c) \/ ~clientOpen[c] \/ ~serverOpen[c]
=============================================================================
