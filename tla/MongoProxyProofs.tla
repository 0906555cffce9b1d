------------------------- MODULE MongoProxyProofs ---------------------------
(***************************************************************************)
(* Theorems about the shaping proxy, for any connections, commands, reply   *)
(* length and number of commands: an instruction shapes the reply to the    *)
(* command that carried it, what a pause shows is what was released, and    *)
(* the replies are one stream.                                              *)
(***************************************************************************)
EXTENDS MongoProxy, SequenceTheorems, TLAPS

In(s) == {s[k] : k \in DOMAIN s}
Rising(s) == \A j, k \in DOMAIN s : j < k => s[j] < s[k]
Below(S, T) == \A i \in S, j \in T : i < j

(* What is left of a reply after its first n units.                        *)
Rest(id, n) == [i \in 1 .. ReplyLen - n |-> <<id, n + i>>]

(* The commands on their way overtake nobody: the replies (f) are ahead of  *)
(* the commands the server has (t), those of the one the proxy holds (h),   *)
(* and so on; what the client has got (w) is ahead of them all.  n were sent. *)
Ordered(f, t, h, p, n, w) ==
    /\ Rising(f) /\ Rising(t) /\ Rising(p)
    /\ Below(In(f), In(t) \cup In(h) \cup In(p)) /\ Below(In(t), In(h) \cup In(p))
    /\ Below(In(h), In(p))
    /\ In(f) \cup In(t) \cup In(h) \cup In(p) \subseteq 1 .. n
    /\ \A k \in DOMAIN w : w[k][1] \in 1 .. n
    /\ \A k \in DOMAIN w : Below({w[k][1]}, In(f) \cup In(t) \cup In(h) \cup In(p))

Behind(c) == In(fromServer[c]) \cup In(toServer[c]) \cup In(held[c]) \cup In(toProxy[c])
OrderOf(c) ==
    Ordered(fromServer[c], toServer[c], held[c], toProxy[c], Len(asked[c]), toClient[c])
OrderInv == \A c \in Conns : OrderOf(c)

(* The client has the first n units of the reply, and before them units of  *)
(* earlier replies.                                                        *)
Showing(s, id, n) ==
    /\ n <= Len(s)
    /\ \A k \in DOMAIN s :
         IF k > Len(s) - n THEN s[k] = <<id, k - (Len(s) - n)>> ELSE s[k][1] < id

(* The reply in the buffer, and how much of it was sent.                   *)
Doling(c, id, n) ==
    /\ n \in 0 .. ReplyLen
    /\ buf[c] = Rest(id, n)
    /\ id \in 1 .. Len(asked[c]) /\ asked[c][id].answered
    /\ Below({id}, Behind(c))
    /\ Showing(toClient[c], id, n)
ReplyOf(c) ==
    /\ \A i \in In(fromServer[c]) : asked[c][i].answered
    /\ down[c] \notin {"taking", "acting", "paused"} => buf[c] = <<>>
    /\ down[c] \in {"reading", "taking"} => applied[c] = {}
    /\ down[c] = "taking" => \E id \in Ids : Doling(c, id, 0)
    /\ down[c] \in {"acting", "paused"} =>
        \E m \in Ids \X Ids : applied[c] = {m} /\ Doling(c, m[2], due[c])
ReplyInv == \A c \in Conns : ReplyOf(c)

(* A patient client waits for at most the last of its commands, and the     *)
(* instruction that is pending is that one's.                              *)
PatientOf(c) ==
    /\ \A i \in DOMAIN asked[c] :
         /\ asked[c][i].test = "actions" => asked[c][i].answered
         /\ asked[c][i].answered /\ i # Len(asked[c]) => Received(c, i)
    /\ \A m \in applied[c] : m[1] = m[2]
    /\ pendingMap[c] # None /\ down[c] \in {"reading", "taking"} =>
         /\ pendingMap[c].from \in DOMAIN asked[c] /\ asked[c][pendingMap[c].from].answered
         /\ \A k \in DOMAIN toClient[c] : toClient[c][k][1] # pendingMap[c].from
PatientInv == \A c \in Conns : patient[c] => PatientOf(c)

IInv == TypeOK /\ OrderInv /\ ReplyInv /\ PatientInv

-----------------------------------------------------------------------------
(* What Append and Tail do to the elements and to their order.              *)
LEMMA TailIn ==
    ASSUME NEW S, NEW s \in Seq(S), s # <<>>
    PROVE  /\ Tail(s) \in Seq(S) /\ Head(s) \in S
           /\ Head(s) \in In(s) /\ In(Tail(s)) \subseteq In(s)
<1>1. Len(s) \in Nat \ {0} /\ DOMAIN s = 1 .. Len(s) /\ Head(s) = s[1]
    BY EmptySeq
<1>2. Tail(s) \in Seq(S) /\ DOMAIN Tail(s) = 1 .. Len(s) - 1
      /\ \A k \in 1 .. Len(s) - 1 : Tail(s)[k] = s[k + 1]
    BY <1>1, HeadTailProperties
<1> QED
    BY <1>1, <1>2, HeadTailProperties DEF In

(* The first element of a rising sequence is below the others.            *)
LEMMA TailRises ==
    ASSUME NEW s \in Seq(Nat), s # <<>>, Rising(s)
    PROVE  Rising(Tail(s)) /\ Below({Head(s)}, In(Tail(s)))
<1>1. Len(s) \in Nat \ {0} /\ DOMAIN s = 1 .. Len(s) /\ Head(s) = s[1]
    BY EmptySeq
<1>2. Tail(s) \in Seq(Nat) /\ DOMAIN Tail(s) = 1 .. Len(s) - 1
      /\ \A k \in 1 .. Len(s) - 1 : Tail(s)[k] = s[k + 1]
    BY <1>1, HeadTailProperties
<1>3. ASSUME NEW j \in 1 .. Len(s) - 1, NEW k \in 1 .. Len(s) - 1, j < k
      PROVE  s[j + 1] < s[k + 1]
    BY <1>1, <1>3 DEF Rising
<1>4. ASSUME NEW k \in 1 .. Len(s) - 1
      PROVE  s[1] < s[k + 1]
    BY <1>1 DEF Rising
<1>5. Rising(Tail(s))
    BY <1>2, <1>3 DEF Rising
<1> QED
    BY <1>1, <1>2, <1>4, <1>5 DEF In, Below

(* Append adds one element ...                                            *)
LEMMA AppendIn ==
    ASSUME NEW S, NEW s \in Seq(S), NEW x \in S
    PROVE  Append(s, x) \in Seq(S) /\ In(Append(s, x)) = In(s) \cup {x}
<1>1. /\ Append(s, x) \in Seq(S) /\ Len(Append(s, x)) = Len(s) + 1 /\ Len(s) \in Nat
      /\ \A k \in 1 .. Len(s) : Append(s, x)[k] = s[k]
      /\ Append(s, x)[Len(s) + 1] = x
    BY AppendProperties
<1>2. DOMAIN Append(s, x) = 1 .. Len(s) + 1 /\ DOMAIN s = 1 .. Len(s)
    BY <1>1
<1> QED
    BY <1>1, <1>2 DEF In

(* ... and keeps a sequence rising when the element is above all others.  *)
LEMMA AppendRises ==
    ASSUME NEW s \in Seq(Nat), NEW x \in Nat, Rising(s), Below(In(s), {x})
    PROVE  Rising(Append(s, x))
<1>1. /\ Append(s, x) \in Seq(Nat) /\ Len(Append(s, x)) = Len(s) + 1 /\ Len(s) \in Nat
      /\ \A k \in 1 .. Len(s) : Append(s, x)[k] = s[k]
      /\ Append(s, x)[Len(s) + 1] = x
    BY AppendProperties
<1>2. DOMAIN Append(s, x) = 1 .. Len(s) + 1 /\ DOMAIN s = 1 .. Len(s)
    BY <1>1
<1>3. \A j \in DOMAIN s : s[j] < x
    BY DEF In, Below
<1> QED
    BY <1>1, <1>2, <1>3 DEF Rising

(* The rest of a reply is a sequence of units.                            *)
LEMMA RestIsSeq ==
    ASSUME NEW id \in Ids, NEW n \in 0 .. ReplyLen
    PROVE  Rest(id, n) \in Seq(Unit) /\ Len(Rest(id, n)) = ReplyLen - n
<1>1. ReplyLen - n \in Nat /\ \A i \in 1 .. ReplyLen - n : n + i \in 1 .. ReplyLen
    BY TemplatesOK
<1>2. Rest(id, n) \in [1 .. ReplyLen - n -> Unit]
    BY <1>1 DEF Rest, Unit
<1> QED
    BY <1>1, <1>2

(* Doling out splits what is left in two.                                  *)
LEMMA RestSplits ==
    ASSUME NEW id \in Ids, NEW n \in 0 .. ReplyLen, NEW m \in 0 .. ReplyLen - n
    PROVE  /\ SubSeq(Rest(id, n), 1, m) \in Seq(Unit)
           /\ Len(SubSeq(Rest(id, n), 1, m)) = m
           /\ \A k \in 1 .. m : SubSeq(Rest(id, n), 1, m)[k] = <<id, n + k>>
           /\ SubSeq(Rest(id, n), m + 1, Len(Rest(id, n))) = Rest(id, n + m)
<1> DEFINE s == Rest(id, n)
<1>1. s \in Seq(Unit) /\ Len(s) = ReplyLen - n
    BY RestIsSeq
<1>2. ReplyLen \in Nat /\ n \in Nat /\ m \in Nat /\ n + m \in 0 .. ReplyLen
    BY TemplatesOK
<1>3. SubSeq(s, 1, m) = [i \in 1 .. m |-> s[i]]
    BY <1>1, <1>2
<1>4. \A k \in 1 .. m : s[k] = <<id, n + k>> /\ s[k] \in Unit
    BY SMTT(20), <1>1, <1>2 DEF Rest
<1>5. SubSeq(s, 1, m) \in [1 .. m -> Unit]
    BY <1>3, <1>4
<1>6. SubSeq(s, m + 1, Len(s)) = [i \in 1 .. (ReplyLen - n) - m |-> s[i + m]]
    BY <1>1, <1>2
<1>7. \A i \in 1 .. (ReplyLen - n) - m : s[i + m] = <<id, (n + m) + i>>
    BY <1>1, <1>2 DEF Rest
<1>8. Rest(id, n + m) = [i \in 1 .. (ReplyLen - n) - m |-> <<id, (n + m) + i>>]
    BY <1>2 DEF Rest
<1>9. SubSeq(s, m + 1, Len(s)) = Rest(id, n + m)
    BY <1>6, <1>7, <1>8
<1> QED
    BY <1>2, <1>3, <1>4, <1>5, <1>9

(* And what was shown grows by the units that are sent.                    *)
LEMMA ShowingGrows ==
    ASSUME NEW id \in Ids, NEW n \in 0 .. ReplyLen, NEW m \in 0 .. ReplyLen - n,
           NEW s \in Seq(Unit), Showing(s, id, n), NEW t \in Seq(Unit),
           Len(t) = m, \A k \in 1 .. m : t[k] = <<id, n + k>>
    PROVE  s \o t \in Seq(Unit) /\ Showing(s \o t, id, n + m)
<1>1. /\ s \o t \in Seq(Unit) /\ Len(s \o t) = Len(s) + m /\ Len(s) \in Nat /\ m \in Nat
      /\ \A k \in 1 .. Len(s) + m : (s \o t)[k] = IF k <= Len(s) THEN s[k] ELSE t[k - Len(s)]
  <2>1. ReplyLen \in Nat
      BY TemplatesOK
  <2>2. s \o t \in Seq(Unit) /\ Len(s \o t) = Len(s) + Len(t)
        /\ \A k \in 1 .. Len(s) + Len(t) :
             (s \o t)[k] = IF k <= Len(s) THEN s[k] ELSE t[k - Len(s)]
      BY ConcatProperties
  <2> QED
      BY <2>1, <2>2
<1>2. DOMAIN s = 1 .. Len(s) /\ DOMAIN (s \o t) = 1 .. Len(s) + m /\ n \in Nat
    BY <1>1
<1>3. \A k \in 1 .. Len(s) + m :
        IF k > Len(s) - n THEN (s \o t)[k] = <<id, k - (Len(s) - n)>> ELSE (s \o t)[k][1] < id
  <2> TAKE k \in 1 .. Len(s) + m
  <2>1. CASE k <= Len(s)
      BY <1>1, <1>2, <2>1 DEF Showing
  <2>2. CASE k > Len(s)
    <3>1. (s \o t)[k] = <<id, n + (k - Len(s))>>
        BY <1>1, <2>2
    <3>2. n + (k - Len(s)) = k - (Len(s) - n)
        BY <1>1, <1>2
    <3> QED
        BY <1>1, <1>2, <2>2, <3>1, <3>2
  <2> QED
      BY <1>1, <2>1, <2>2
<1>4. (Len(s) + m) - (n + m) = Len(s) - n
    BY <1>1, <1>2
<1> QED
    BY <1>1, <1>2, <1>3, <1>4 DEF Showing

-----------------------------------------------------------------------------
ConnStep(c) == Send(c) \/ CloseClient(c) \/ Up(c) \/ Down(c) \/ Answer(c) \/ CloseServer(c)

(* Every variable a step changes is a function of the connection.          *)
Shaped ==
    /\ DOMAIN asked = Conns /\ DOMAIN toProxy = Conns /\ DOMAIN toServer = Conns
    /\ DOMAIN fromServer = Conns /\ DOMAIN toClient = Conns /\ DOMAIN held = Conns
    /\ DOMAIN pendingMap = Conns /\ DOMAIN down = Conns /\ DOMAIN buf = Conns
    /\ DOMAIN due = Conns /\ DOMAIN applied = Conns /\ DOMAIN acts = Conns /\ DOMAIN up = Conns

(* Well typed variables are functions of the connection.                  *)
LEMMA TypeShaped == ASSUME TypeOK PROVE Shaped
BY Zenon DEF TypeOK, Shaped

Same(g) ==
    /\ asked'[g] = asked[g] /\ toProxy'[g] = toProxy[g] /\ toServer'[g] = toServer[g]
    /\ fromServer'[g] = fromServer[g] /\ toClient'[g] = toClient[g] /\ held'[g] = held[g]
    /\ pendingMap'[g] = pendingMap[g] /\ down'[g] = down[g] /\ buf'[g] = buf[g]
    /\ due'[g] = due[g] /\ applied'[g] = applied[g]

(* A step of one connection leaves the others alone.                       *)
LEMMA OthersKeep ==
    ASSUME Shaped, NEW c \in Conns, NEW g \in Conns, g # c, ConnStep(c)
    PROVE  Same(g)
<1> USE DEF Put, Pop, Forward, Dole, upVars, downVars, Shaped, Same
<1>1. CASE Send(c)
    BY <1>1 DEF Send
<1>2. CASE CloseClient(c)
    BY <1>2 DEF CloseClient
<1>3. CASE ReadRequest(c)
    BY <1>3 DEF ReadRequest, ForwardAsIs, StripInstruction, RejectInstruction
<1>4. CASE WriteStripped(c)
    BY <1>4 DEF WriteStripped
<1>5. CASE ReadFails(c)
    BY <1>5 DEF ReadFails
<1>6. CASE Answer(c)
    BY <1>6 DEF Answer
<1>7. CASE CloseServer(c)
    BY <1>7 DEF CloseServer
<1>8. CASE ReadReply(c)
    BY <1>8 DEF ReadReply
<1>9. CASE Take(c)
    BY <1>9 DEF Take
<1>10. CASE Pause(c)
    BY <1>10 DEF Pause
<1>11. CASE Perform(c)
    BY <1>11 DEF Perform
<1>12. CASE FinishActions(c)
    BY <1>12 DEF FinishActions
<1>13. CASE CopyRest(c)
    BY <1>13 DEF CopyRest
<1>14. CASE ReturnDown(c)
    BY <1>14 DEF ReturnDown
<1> QED
    BY <1>1, <1>2, <1>3, <1>4, <1>5, <1>6, <1>7, <1>8, <1>9, <1>10, <1>11, <1>12, <1>13, <1>14
       DEF ConnStep, Up, Down

(* What is in front of the buffer's sends.                                 *)
LEMMA DoleType ==
    ASSUME TypeOK, NEW c \in Conns, NEW n \in 0 .. Len(buf[c]), Dole(c, n)
    PROVE  toClient' \in [Conns -> Seq(Unit)] /\ buf' \in [Conns -> Seq(Unit)]
<1>1. toClient[c] \in Seq(Unit) /\ buf[c] \in Seq(Unit) /\ Len(buf[c]) \in Nat
    BY DEF TypeOK
<1>2. SubSeq(buf[c], 1, n) \in Seq(Unit) /\ SubSeq(buf[c], n + 1, Len(buf[c])) \in Seq(Unit)
    BY <1>1
<1>3. toClient[c] \o SubSeq(buf[c], 1, n) \in Seq(Unit)
    BY <1>1, <1>2
<1> QED
    BY <1>2, <1>3 DEF Dole, TypeOK

(* A step of one connection keeps all variables well typed.               *)
LEMMA TypeStep ==
    ASSUME TypeOK, OrderInv, ReplyInv, NEW c \in Conns, ConnStep(c), UNCHANGED patient
    PROVE  TypeOK'
<1> USE TemplatesOK DEF TypeOK, Put, Pop, upVars, downVars
<1>1. CASE Send(c)
  <2>1. PICK t \in Templates : asked' = [asked EXCEPT ![c] = Append(@, t)]
      BY <1>1 DEF Send
  <2>2. Len(asked[c]) + 1 \in Ids
      BY <1>1 DEF Send, Ids
  <2>3. Append(asked[c], t) \in Seq(Templates) /\ Len(Append(asked[c], t)) = Len(asked[c]) + 1
        /\ Append(toProxy[c], Len(asked[c]) + 1) \in Seq(Ids)
      BY <2>2, AppendProperties
  <2> QED
      BY SMTT(20), <1>1, <2>1, <2>2, <2>3 DEF Send, Ids
<1>2. CASE CloseClient(c)
    BY <1>2 DEF CloseClient
<1>3. CASE ReadRequest(c)
  <2>1. /\ Head(toProxy[c]) \in Ids /\ Tail(toProxy[c]) \in Seq(Ids)
        /\ Head(toProxy[c]) \in DOMAIN asked[c]
    <3>1. toProxy[c] \in Seq(Ids) /\ toProxy[c] # <<>>
        BY <1>3 DEF ReadRequest
    <3>2. Head(toProxy[c]) \in In(toProxy[c])
        BY <3>1, TailIn
    <3>3. In(toProxy[c]) \subseteq 1 .. Len(asked[c])
        BY DEF OrderInv, OrderOf, Ordered
    <3>4. DOMAIN asked[c] = 1 .. Len(asked[c])
        OBVIOUS
    <3> QED
        BY <3>1, <3>2, <3>3, <3>4, TailIn
  <2>2. Append(toServer[c], Head(toProxy[c])) \in Seq(Ids)
        /\ Append(held[c], Head(toProxy[c])) \in Seq(Ids)
        /\ Len(Append(held[c], Head(toProxy[c]))) = Len(held[c]) + 1
      BY <2>1, AppendProperties
  <2>3. asked[c][Head(toProxy[c])] \in Template
      BY <2>1
  <2>4. CASE ForwardAsIs(c)
      BY <1>3, <2>1, <2>2, <2>4 DEF ReadRequest, ForwardAsIs, Forward
  <2>5. CASE StripInstruction(c)
    <3>1. [actions |-> asked[c][Head(toProxy[c])].actions, from |-> Head(toProxy[c])]
            \in [actions : Seq(Action), from : Ids]
        BY <2>1, <2>3 DEF Template
    <3>2. pendingMap' \in [Conns -> [actions : Seq(Action), from : Ids] \cup {None}]
        BY <2>5, <3>1 DEF StripInstruction
    <3>3. /\ up' = [up EXCEPT ![c] = "writing"] /\ toServer' = toServer /\ up[c] = "reading"
          /\ held' = [held EXCEPT ![c] = Append(@, Head(toProxy[c]))]
          /\ toProxy' = [toProxy EXCEPT ![c] = Tail(@)]
          /\ UNCHANGED <<asked, fromServer, toClient, down, buf, acts, due, applied, clientOpen,
                         serverOpen>>
        BY <1>3, <2>5 DEF ReadRequest, StripInstruction
    <3>4. held' \in [Conns -> Seq(Ids)] /\ toProxy' \in [Conns -> Seq(Ids)]
        BY <2>1, <2>2, <3>3
    <3>5. \A g \in Conns : Len(held'[g]) = (IF up'[g] = "writing" THEN 1 ELSE 0)
      <4>1. Len(held'[c]) = 1 /\ up'[c] = "writing"
          BY <2>2, <3>3
      <4>2. \A g \in Conns \ {c} : held'[g] = held[g] /\ up'[g] = up[g]
          BY <3>3
      <4> QED
          BY <4>1, <4>2
    <3>6. up' \in [Conns -> {"reading", "writing", "done"}]
        BY <3>3
    <3> QED
        BY <3>2, <3>3, <3>4, <3>5, <3>6
  <2>6. CASE RejectInstruction(c)
      BY <1>3, <2>1, <2>6 DEF ReadRequest, RejectInstruction
  <2> QED
      BY <1>3, <2>4, <2>5, <2>6 DEF ReadRequest
<1>4. CASE WriteStripped(c)
  <2>1. held[c] # <<>> /\ Head(held[c]) \in Ids /\ Tail(held[c]) \in Seq(Ids)
        /\ Len(Tail(held[c])) = Len(held[c]) - 1
      BY <1>4, HeadTailProperties DEF WriteStripped
  <2>2. Append(toServer[c], Head(held[c])) \in Seq(Ids)
      BY <2>1
  <2>3. /\ held' = [held EXCEPT ![c] = Tail(@)] /\ up' = [up EXCEPT ![c] = "reading"]
        /\ toServer' = (IF serverOpen[c] THEN [toServer EXCEPT ![c] = Append(@, Head(held[c]))]
                        ELSE toServer)
        /\ UNCHANGED <<asked, toProxy, fromServer, toClient, pendingMap, down, buf, acts, due,
                       applied, clientOpen, serverOpen>>
      BY <1>4 DEF WriteStripped, Forward
  <2>4. up[c] = "writing" /\ Len(held[c]) = 1
      BY <1>4 DEF WriteStripped
  <2>5. toServer' \in [Conns -> Seq(Ids)] /\ held' \in [Conns -> Seq(Ids)]
      BY <2>1, <2>2, <2>3
  <2>6. \A g \in Conns : Len(held'[g]) = (IF up'[g] = "writing" THEN 1 ELSE 0)
    <3>1. Len(held'[c]) = 0 /\ up'[c] = "reading"
        BY <2>1, <2>3, <2>4
    <3>2. \A g \in Conns \ {c} : held'[g] = held[g] /\ up'[g] = up[g]
        BY <2>3
    <3> QED
        BY <3>1, <3>2
  <2>7. up' \in [Conns -> {"reading", "writing", "done"}]
      BY <2>3
  <2> QED
      BY <2>3, <2>5, <2>6, <2>7
<1>5. CASE ReadFails(c)
    BY <1>5 DEF ReadFails
<1>6. CASE Answer(c)
  <2>1. Tail(toServer[c]) \in Seq(Ids) /\ Append(fromServer[c], Head(toServer[c])) \in Seq(Ids)
      BY <1>6, TailIn, AppendProperties DEF Answer
  <2> QED
      BY <1>6, <2>1 DEF Answer
<1>7. CASE CloseServer(c)
    BY <1>7 DEF CloseServer
<1>8. CASE ReadReply(c)
  <2>1. Tail(fromServer[c]) \in Seq(Ids) /\ Units(Head(fromServer[c])) \in Seq(Unit)
    <3>1. Head(fromServer[c]) \in Ids /\ Tail(fromServer[c]) \in Seq(Ids)
        BY <1>8, TailIn DEF ReadReply
    <3>2. Units(Head(fromServer[c])) \in [1 .. ReplyLen -> Unit]
        BY <3>1 DEF Units, Unit
    <3> QED
        BY <3>1, <3>2
  <2> QED
      BY <1>8, <2>1 DEF ReadReply
<1>9. CASE Take(c)
  <2>1. PICK id \in Ids : buf[c] = Rest(id, 0)
      BY ZenonT(30), <1>9 DEF Take, ReplyInv, ReplyOf, Doling
  <2>2. buf[c][1][1] \in Ids
      BY <2>1 DEF Rest
  <2>3. CASE pendingMap[c] = None
    <3>1. toClient' \in [Conns -> Seq(Unit)] /\ buf' \in [Conns -> Seq(Unit)]
        BY <1>9, <2>3, DoleType DEF Take
    <3> QED
        BY <1>9, <2>3, <3>1 DEF Take
  <2>4. CASE pendingMap[c] # None
    <3>1. pendingMap[c] \in [actions : Seq(Action), from : Ids]
        BY <2>4
    <3>2. applied[c] \cup {<<pendingMap[c].from, buf[c][1][1]>>} \in SUBSET (Ids \X Ids)
        BY <2>2, <3>1
    <3>3. /\ pendingMap' = [pendingMap EXCEPT ![c] = None] /\ down' = [down EXCEPT ![c] = "acting"]
          /\ acts' = [acts EXCEPT ![c] = pendingMap[c].actions] /\ due' = [due EXCEPT ![c] = 0]
          /\ applied' = [applied EXCEPT ![c] = @ \cup {<<pendingMap[c].from, buf[c][1][1]>>}]
          /\ UNCHANGED <<asked, toProxy, toServer, fromServer, up, held, toClient, buf, clientOpen,
                         serverOpen>>
        BY <1>9, <2>4 DEF Take
    <3>4. pendingMap' \in [Conns -> [actions : Seq(Action), from : Ids] \cup {None}]
        BY <3>3
    <3>5. applied' \in [Conns -> SUBSET (Ids \X Ids)]
        BY <3>2, <3>3
    <3>6. acts' \in [Conns -> Seq(Action)] /\ due' \in [Conns -> 0 .. ReplyLen]
        BY <3>1, <3>3
    <3>7. /\ down' \in [Conns -> {"reading", "taking", "acting", "paused", "copying", "done"}]
          /\ \A g \in Conns : acts'[g] # <<>> => down'[g] \in {"acting", "paused"}
        BY <3>3
    <3> QED
        BY <3>3, <3>4, <3>5, <3>6, <3>7
  <2> QED
      BY <2>3, <2>4
<1>10. CASE Pause(c)
    BY <1>10 DEF Pause
<1>11. CASE Perform(c)
  <2>1. PICK n \in 0 .. Len(buf[c]) : Dole(c, n)
    <3>1. Head(acts[c]) \in Action
        BY <1>11, TailIn DEF Perform
    <3> QED
        BY <1>11, <3>1 DEF Perform, AtMost, Action
  <2>2. toClient' \in [Conns -> Seq(Unit)] /\ buf' \in [Conns -> Seq(Unit)]
      BY <2>1, DoleType
  <2>3. Head(acts[c]) \in Action /\ Tail(acts[c]) \in Seq(Action)
      BY <1>11, TailIn DEF Perform
  <2>4. due' \in [Conns -> 0 .. ReplyLen]
    <3>1. (IF Head(acts[c]).all THEN ReplyLen ELSE AtMost(due[c] + Head(acts[c]).bytes, ReplyLen))
            \in 0 .. ReplyLen
        BY <2>3 DEF AtMost, Action
    <3> QED
        BY <1>11, <3>1 DEF Perform
  <2> QED
      BY <1>11, <2>2, <2>3, <2>4 DEF Perform
<1>12. CASE FinishActions(c)
  <2>1. toClient' \in [Conns -> Seq(Unit)] /\ buf' \in [Conns -> Seq(Unit)]
    <3>1. Len(buf[c]) \in 0 .. Len(buf[c])
        OBVIOUS
    <3> QED
        BY <1>12, <3>1, DoleType DEF FinishActions
  <2> QED
      BY <1>12, <2>1 DEF FinishActions
<1>13. CASE CopyRest(c)
  <2>1. Tail(fromServer[c]) \in Seq(Ids) /\ toClient[c] \o Units(Head(fromServer[c])) \in Seq(Unit)
    <3>1. Head(fromServer[c]) \in Ids /\ Tail(fromServer[c]) \in Seq(Ids)
        BY <1>13, TailIn DEF CopyRest
    <3>2. Units(Head(fromServer[c])) \in [1 .. ReplyLen -> Unit]
        BY <3>1 DEF Units, Unit
    <3> QED
        BY <3>1, <3>2
  <2> QED
      BY <1>13, <2>1 DEF CopyRest
<1>14. CASE ReturnDown(c)
    BY <1>14 DEF ReturnDown
<1> QED
    BY <1>1, <1>2, <1>3, <1>4, <1>5, <1>6, <1>7, <1>8, <1>9, <1>10, <1>11, <1>12, <1>13, <1>14
       DEF ConnStep, Up, Down

-----------------------------------------------------------------------------
(* One command moves from a pipe to the next: the order stays.             *)
LEMMA IdsAreNat == ASSUME NEW s \in Seq(Ids) PROVE s \in Seq(Nat) /\ In(s) \subseteq Nat
<1>1. Ids \subseteq Nat
    BY TemplatesOK DEF Ids
<1>2. Len(s) \in Nat /\ s \in [1 .. Len(s) -> Nat] /\ DOMAIN s = 1 .. Len(s)
    BY <1>1, LenProperties, ElementOfSeq
<1> QED
    BY <1>2 DEF In

(* An empty pipe holds nothing.                                           *)
LEMMA NothingIn == In(<<>>) = {} /\ Rising(<<>>)
BY DEF In, Rising

(* A command that is sent goes behind all others.                         *)
LEMMA OrderedSend ==
    ASSUME NEW f \in Seq(Ids), NEW t \in Seq(Ids), NEW h \in Seq(Ids), NEW p \in Seq(Ids),
           NEW n \in Nat, n + 1 \in Ids, NEW w \in Seq(Unit), Ordered(f, t, h, p, n, w)
    PROVE  Ordered(f, t, h, Append(p, n + 1), n + 1, w)
<1>1. In(Append(p, n + 1)) = In(p) \cup {n + 1}
    BY AppendIn
<1>2. Below(In(f) \cup In(t) \cup In(h) \cup In(p), {n + 1})
    BY IdsAreNat DEF Below, Ordered
<1>3. Rising(Append(p, n + 1))
  <2>1. Below(In(p), {n + 1}) /\ Rising(p) /\ p \in Seq(Nat) /\ n + 1 \in Nat
      BY <1>2, IdsAreNat DEF Ordered, Below
  <2> QED
      BY <2>1, AppendRises
<1>4. \A k \in DOMAIN w : w[k][1] \in 1 .. n + 1 /\ Below({w[k][1]}, {n + 1})
    BY DEF Below, Ordered
<1> QED
    BY <1>1, <1>2, <1>3, <1>4 DEF Below, Ordered

(* The proxy reads a command, and forwards, drops or holds it.            *)
LEMMA OrderedForward ==
    ASSUME NEW f \in Seq(Ids), NEW t \in Seq(Ids), NEW h \in Seq(Ids), NEW p \in Seq(Ids),
           NEW n \in Nat, NEW w \in Seq(Unit), Ordered(f, t, h, p, n, w), p # <<>>, In(h) = {}
    PROVE  /\ Ordered(f, Append(t, Head(p)), h, Tail(p), n, w)
           /\ Ordered(f, t, h, Tail(p), n, w)
           /\ Ordered(f, t, Append(h, Head(p)), Tail(p), n, w)
<1>1. /\ Head(p) \in In(p) /\ In(Tail(p)) \subseteq In(p) /\ Head(p) \in Ids
      /\ Rising(Tail(p)) /\ Below({Head(p)}, In(Tail(p)))
    BY TailIn, TailRises, IdsAreNat DEF Ordered
<1>2. In(Append(t, Head(p))) = In(t) \cup {Head(p)}
    BY <1>1, AppendIn
<1>a. In(Append(h, Head(p))) = In(h) \cup {Head(p)}
    BY <1>1, AppendIn
<1>3. Rising(Append(t, Head(p)))
    BY <1>1, AppendRises, IdsAreNat DEF Ordered, Below
<1> QED
    BY <1>1, <1>2, <1>a, <1>3 DEF Ordered, Below

(* The proxy writes the command it held.                                  *)
LEMMA OrderedWrite ==
    ASSUME NEW f \in Seq(Ids), NEW t \in Seq(Ids), NEW h \in Seq(Ids), NEW p \in Seq(Ids),
           NEW n \in Nat, NEW w \in Seq(Unit), Ordered(f, t, h, p, n, w), Len(h) = 1
    PROVE  /\ Ordered(f, Append(t, Head(h)), Tail(h), p, n, w)
           /\ Ordered(f, t, Tail(h), p, n, w)
<1>1. h # <<>> /\ Tail(h) = <<>>
  <2>1. h # <<>>
    <3>1. Len(<<>>) # 1
        BY EmptySeq
    <3> QED
        BY Zenon, <3>1
  <2>2. Tail(h) \in Seq(Ids) /\ Len(Tail(h)) = 0
      BY <2>1, HeadTailProperties
  <2> QED
      BY <2>1, <2>2, EmptySeq
<1>2. Head(h) \in In(h) /\ Head(h) \in Ids
    BY <1>1, TailIn
<1>3. In(Append(t, Head(h))) = In(t) \cup {Head(h)} /\ In(Tail(h)) = {}
  <2>1. In(Append(t, Head(h))) = In(t) \cup {Head(h)}
      BY <1>2, AppendIn
  <2> QED
      BY Zenon, <1>1, <2>1, NothingIn
<1>4. Rising(Append(t, Head(h)))
    BY <1>2, AppendRises, IdsAreNat DEF Ordered, Below
<1> QED
    BY <1>2, <1>3, <1>4 DEF Ordered, Below

(* The server reads a command, and answers it or not, or is gone.         *)
LEMMA OrderedAnswer ==
    ASSUME NEW f \in Seq(Ids), NEW t \in Seq(Ids), NEW h \in Seq(Ids), NEW p \in Seq(Ids),
           NEW n \in Nat, NEW w \in Seq(Unit), Ordered(f, t, h, p, n, w), t # <<>>
    PROVE  /\ Ordered(Append(f, Head(t)), Tail(t), h, p, n, w)
           /\ Ordered(f, Tail(t), h, p, n, w)
           /\ Ordered(f, <<>>, h, p, n, w)
<1>1. /\ Head(t) \in In(t) /\ In(Tail(t)) \subseteq In(t) /\ Head(t) \in Ids
      /\ Rising(Tail(t)) /\ Below({Head(t)}, In(Tail(t)))
    BY TailIn, TailRises, IdsAreNat DEF Ordered
<1>2. In(Append(f, Head(t))) = In(f) \cup {Head(t)} /\ In(<<>>) = {} /\ Rising(<<>>)
    BY <1>1, AppendIn, NothingIn
<1>3. Rising(Append(f, Head(t)))
    BY <1>1, AppendRises, IdsAreNat DEF Ordered, Below
<1> QED
    BY <1>1, <1>2, <1>3 DEF Ordered, Below

(* A reply that is read is behind whatever stays.                          *)
LEMMA OrderedRead ==
    ASSUME NEW f \in Seq(Ids), NEW t \in Seq(Ids), NEW h \in Seq(Ids), NEW p \in Seq(Ids),
           NEW n \in Nat, NEW w \in Seq(Unit), Ordered(f, t, h, p, n, w), f # <<>>
    PROVE  /\ Ordered(Tail(f), t, h, p, n, w)
           /\ Below({Head(f)}, In(Tail(f)) \cup In(t) \cup In(h) \cup In(p))
           /\ Head(f) \in 1 .. n /\ In(Tail(f)) \subseteq In(f) /\ Head(f) \in In(f)
           /\ \A k \in DOMAIN w : w[k][1] < Head(f)
<1>1. /\ Head(f) \in In(f) /\ In(Tail(f)) \subseteq In(f)
      /\ Rising(Tail(f)) /\ Below({Head(f)}, In(Tail(f)))
    BY TailIn, TailRises, IdsAreNat DEF Ordered
<1> QED
    BY <1>1 DEF Ordered, Below

(* The client may be given units of a reply that is ahead of all others.   *)
LEMMA OrderedGive ==
    ASSUME NEW f, NEW t, NEW h, NEW p, NEW n \in Nat, NEW w \in Seq(Unit),
           Ordered(f, t, h, p, n, w), NEW u \in Seq(Unit), NEW id \in 1 .. n,
           Below({id}, In(f) \cup In(t) \cup In(h) \cup In(p)),
           \A k \in DOMAIN u : u[k][1] = id
    PROVE  Ordered(f, t, h, p, n, w \o u)
<1>1. \A k \in DOMAIN (w \o u) : (w \o u)[k][1] = id \/ \E j \in DOMAIN w : (w \o u)[k] = w[j]
  <2>1. /\ Len(w \o u) = Len(w) + Len(u) /\ w \o u \in Seq(Unit)
        /\ \A k \in 1 .. Len(w) + Len(u) :
             (w \o u)[k] = IF k <= Len(w) THEN w[k] ELSE u[k - Len(w)]
      BY ConcatProperties
  <2> TAKE k \in DOMAIN (w \o u)
  <2>2. k \in 1 .. Len(w) + Len(u) /\ Len(w) \in Nat /\ Len(u) \in Nat
      BY <2>1
  <2>3. CASE k <= Len(w)
      BY <2>1, <2>2, <2>3
  <2>4. CASE k > Len(w)
      BY <2>1, <2>2, <2>4
  <2> QED
      BY <2>2, <2>3, <2>4
<1> QED
    BY <1>1 DEF Ordered

(* A connection that keeps its state keeps its order.                     *)
LEMMA OthersOrder ==
    ASSUME NEW g, Same(g), OrderOf(g) PROVE OrderOf(g)'
BY Zenon DEF Same, OrderOf

(* What a send leaves in the buffer and gives the client.                  *)
LEMMA DoleOrder ==
    ASSUME TypeOK, NEW c \in Conns, OrderOf(c), NEW id \in 1 .. Len(asked[c]), id \in Ids,
           NEW n \in 0 .. ReplyLen, buf[c] = Rest(id, n), Below({id}, Behind(c)),
           NEW m \in 0 .. Len(buf[c]), Dole(c, m),
           Behind(c)' = Behind(c), UNCHANGED <<asked, fromServer, toServer, held, toProxy>>
    PROVE  OrderOf(c)'
<1>1. m \in 0 .. ReplyLen - n
    BY RestIsSeq
<1> DEFINE u == SubSeq(buf[c], 1, m)
<1>2. u \in Seq(Unit) /\ \A k \in DOMAIN u : u[k][1] = id
  <2> DEFINE v == SubSeq(Rest(id, n), 1, m)
  <2>1. v \in Seq(Unit) /\ Len(v) = m /\ \A k \in 1 .. m : v[k] = <<id, n + k>>
      BY <1>1, RestSplits
  <2>2. \A k \in DOMAIN v : v[k][1] = id
      BY <2>1
  <2>3. u = v
      OBVIOUS
  <2> QED
      BY <2>1, <2>2, <2>3
<1>3. toClient'[c] = toClient[c] \o u
    BY DEF Dole, TypeOK
<1>4. toClient[c] \in Seq(Unit) /\ Len(asked[c]) \in Nat
    BY DEF TypeOK
<1>5. Ordered(fromServer[c], toServer[c], held[c], toProxy[c], Len(asked[c]), toClient[c] \o u)
    BY <1>2, <1>4, OrderedGive DEF OrderOf, Behind
<1> QED
    BY Zenon, <1>3, <1>5 DEF OrderOf

(* A step of a connection keeps its commands and replies in order.        *)
LEMMA OrderStep ==
    ASSUME TypeOK, OrderInv, ReplyInv, NEW c \in Conns, ConnStep(c)
    PROVE  OrderOf(c)'
<1> DEFINE f == fromServer[c]  t == toServer[c]  h == held[c]  p == toProxy[c]
           n == Len(asked[c])  w == toClient[c]
<1>a. /\ f \in Seq(Ids) /\ t \in Seq(Ids) /\ h \in Seq(Ids) /\ p \in Seq(Ids)
      /\ n \in Nat /\ w \in Seq(Unit) /\ asked[c] \in Seq(Templates)
    BY DEF TypeOK
<1>b. Ordered(f, t, h, p, n, w) /\ Shaped
    BY TypeShaped DEF OrderInv, OrderOf
<1> USE DEF Put, Pop, upVars, downVars
<1>1. CASE Send(c)
  <2>1. n + 1 \in Ids
      BY <1>1, <1>a, TemplatesOK DEF Send, Ids
  <2>2. Ordered(f, t, h, Append(p, n + 1), n + 1, w)
      BY <1>a, <1>b, <2>1, OrderedSend
  <2>3. /\ toProxy'[c] = Append(p, n + 1) /\ fromServer' = fromServer /\ toServer' = toServer
        /\ held' = held /\ toClient' = toClient
      BY <1>1, <1>b DEF Send, Shaped
  <2>4. Len(asked'[c]) = n + 1
    <3>1. PICK x \in Templates : asked' = [asked EXCEPT ![c] = Append(@, x)]
        BY <1>1 DEF Send
    <3>2. asked'[c] = Append(asked[c], x)
        BY <1>b, <3>1 DEF Shaped
    <3> QED
        BY <1>a, <3>2, AppendProperties
  <2> QED
      BY Zenon, <2>2, <2>3, <2>4 DEF OrderOf
<1>2. CASE CloseClient(c) \/ ReadFails(c) \/ Pause(c)
    BY Zenon, <1>2, <1>b DEF CloseClient, ReadFails, Pause, OrderOf
<1>3. CASE ReadRequest(c)
  <2>1. In(h) = {} /\ p # <<>> /\ toProxy'[c] = Tail(p)
    <3>1. Len(h) = 0
        BY <1>3 DEF ReadRequest, TypeOK
    <3>2. In(h) = {}
        BY <1>a, <3>1 DEF In
    <3> QED
        BY <1>3, <1>b, <3>2 DEF ReadRequest, Shaped
  <2>2. /\ Ordered(f, Append(t, Head(p)), h, Tail(p), n, w)
        /\ Ordered(f, t, h, Tail(p), n, w)
        /\ Ordered(f, t, Append(h, Head(p)), Tail(p), n, w)
      BY <1>a, <1>b, <2>1, OrderedForward
  <2>3. UNCHANGED <<asked, fromServer, toClient>>
      BY <1>3 DEF ReadRequest
  <2>4. \/ toServer'[c] \in {t, Append(t, Head(p))} /\ held' = held
        \/ held'[c] = Append(h, Head(p)) /\ toServer' = toServer
    <3>1. CASE ForwardAsIs(c)
        BY <1>b, <3>1 DEF ForwardAsIs, Forward, Shaped
    <3>2. CASE StripInstruction(c)
        BY <1>b, <3>2 DEF StripInstruction, Shaped
    <3>3. CASE RejectInstruction(c)
        BY <1>b, <3>3 DEF RejectInstruction, Shaped
    <3> QED
        BY <1>3, <3>1, <3>2, <3>3 DEF ReadRequest
  <2> QED
      BY Zenon, <2>1, <2>2, <2>3, <2>4 DEF OrderOf
<1>4. CASE WriteStripped(c)
  <2>1. Len(h) = 1
      BY <1>4 DEF WriteStripped, TypeOK
  <2>2. /\ Ordered(f, Append(t, Head(h)), Tail(h), p, n, w)
        /\ Ordered(f, t, Tail(h), p, n, w)
      BY <1>a, <1>b, <2>1, OrderedWrite
  <2>3. /\ UNCHANGED <<asked, fromServer, toClient, toProxy>> /\ held'[c] = Tail(h)
        /\ toServer'[c] \in {t, Append(t, Head(h))}
      BY <1>4, <1>b DEF WriteStripped, Forward, Shaped
  <2> QED
      BY Zenon, <2>2, <2>3 DEF OrderOf
<1>5. CASE Answer(c)
  <2>1. t # <<>>
      BY <1>5 DEF Answer
  <2>2. /\ Ordered(Append(f, Head(t)), Tail(t), h, p, n, w)
        /\ Ordered(f, Tail(t), h, p, n, w)
      BY <1>a, <1>b, <2>1, OrderedAnswer
  <2>3. /\ UNCHANGED <<asked, toProxy, toClient, held>> /\ toServer'[c] = Tail(t)
        /\ fromServer'[c] \in {f, Append(f, Head(t))}
      BY <1>5, <1>b DEF Answer, Shaped
  <2> QED
      BY Zenon, <2>2, <2>3 DEF OrderOf
<1>6. CASE CloseServer(c) \/ ReturnDown(c)
  <2>1. Ordered(f, <<>>, h, p, n, w)
      BY <1>b, NothingIn DEF Ordered, Below
  <2>2. UNCHANGED <<asked, toProxy, toClient, held, fromServer>> /\ toServer'[c] = <<>>
      BY <1>6, <1>b DEF CloseServer, ReturnDown, Shaped
  <2> QED
      BY Zenon, <2>1, <2>2 DEF OrderOf
<1>7. CASE ReadReply(c)
  <2>1. f # <<>>
      BY <1>7 DEF ReadReply
  <2>2. Ordered(Tail(f), t, h, p, n, w)
      BY <1>a, <1>b, <2>1, OrderedRead
  <2>3. /\ UNCHANGED <<asked, toProxy, toClient, held, toServer>> /\ fromServer'[c] = Tail(f)
      BY <1>7, <1>b DEF ReadReply, Shaped
  <2> QED
      BY Zenon, <2>2, <2>3 DEF OrderOf
<1>8. CASE CopyRest(c)
  <2>1. f # <<>>
      BY <1>8 DEF CopyRest
  <2>2. /\ Ordered(Tail(f), t, h, p, n, w)
        /\ Below({Head(f)}, In(Tail(f)) \cup In(t) \cup In(h) \cup In(p))
        /\ Head(f) \in 1 .. n /\ Head(f) \in Ids /\ Tail(f) \in Seq(Ids)
      BY <1>a, <1>b, <2>1, OrderedRead, TailIn
  <2>3. /\ Units(Head(f)) \in Seq(Unit)
        /\ \A k \in DOMAIN Units(Head(f)) : Units(Head(f))[k][1] = Head(f)
      BY <2>2, TemplatesOK DEF Units, Unit
  <2>4. Ordered(Tail(f), t, h, p, n, w \o Units(Head(f)))
      BY <1>a, <2>2, <2>3, OrderedGive
  <2>5. /\ UNCHANGED <<asked, toProxy, held, toServer>> /\ fromServer'[c] = Tail(f)
        /\ toClient'[c] = w \o Units(Head(f))
      BY <1>8, <1>b DEF CopyRest, Shaped
  <2> QED
      BY Zenon, <2>4, <2>5 DEF OrderOf
<1>9. CASE Take(c)
  <2>1. PICK id \in Ids : Doling(c, id, 0)
      BY <1>9 DEF Take, ReplyInv, ReplyOf
  <2>2. UNCHANGED <<asked, fromServer, toServer, held, toProxy>>
      BY <1>9 DEF Take
  <2>3. CASE Dole(c, Len(buf[c]))
    <3>1. Len(buf[c]) \in 0 .. Len(buf[c])
        BY DEF TypeOK
    <3> QED
        BY <1>b, <2>1, <2>2, <2>3, <3>1, DoleOrder DEF Doling, OrderOf, Behind
  <2>4. CASE toClient' = toClient
      BY Zenon, <1>b, <2>2, <2>4 DEF OrderOf
  <2> QED
      BY <1>9, <2>3, <2>4 DEF Take
<1>10. CASE Perform(c) \/ FinishActions(c)
  <2>1. PICK m \in Ids \X Ids : Doling(c, m[2], due[c])
    <3>1. down[c] \in {"acting", "paused"}
        BY <1>10 DEF Perform, FinishActions
    <3> QED
        BY <3>1 DEF ReplyInv, ReplyOf
  <2>2. UNCHANGED <<asked, fromServer, toServer, held, toProxy>>
      BY <1>10 DEF Perform, FinishActions
  <2>3. PICK k \in 0 .. Len(buf[c]) : Dole(c, k)
    <3>1. Len(buf[c]) \in Nat /\ acts[c] \in Seq(Action)
        BY DEF TypeOK
    <3>2. CASE FinishActions(c)
        BY <3>1, <3>2 DEF FinishActions
    <3>3. CASE Perform(c)
      <4>1. Head(acts[c]) \in Action
          BY <3>1, <3>3, TailIn DEF Perform
      <4> QED
          BY <3>1, <3>3, <4>1 DEF Perform, AtMost, Action
    <3> QED
        BY <1>10, <3>2, <3>3
  <2> QED
      BY <1>b, <2>1, <2>2, <2>3, DoleOrder DEF Doling, OrderOf, Behind
<1> QED
    BY <1>1, <1>2, <1>3, <1>4, <1>5, <1>6, <1>7, <1>8, <1>9, <1>10 DEF ConnStep, Up, Down

-----------------------------------------------------------------------------
(* What every step keeps of a connection: the commands sent and what the   *)
(* client has got are only added to, and only a send puts a command behind. *)
Grows(c) ==
    /\ Len(asked[c]) <= Len(asked'[c])
    /\ \A i \in 1 .. Len(asked[c]) : asked'[c][i] = asked[c][i]
    /\ Behind(c)' \subseteq Behind(c) \cup {Len(asked[c]) + 1}
    /\ \A k \in DOMAIN toClient[c] :
         k \in DOMAIN toClient'[c] /\ toClient'[c][k] = toClient[c][k]

(* A write to the client only adds to what it has.                         *)
LEMMA GivenStays ==
    ASSUME NEW w \in Seq(Unit), NEW u \in Seq(Unit), NEW k \in DOMAIN w
    PROVE  k \in DOMAIN (w \o u) /\ (w \o u)[k] = w[k]
<1>1. /\ Len(w \o u) = Len(w) + Len(u) /\ w \o u \in Seq(Unit)
      /\ \A j \in 1 .. Len(w) + Len(u) :
           (w \o u)[j] = IF j <= Len(w) THEN w[j] ELSE u[j - Len(w)]
    BY ConcatProperties
<1>2. k \in 1 .. Len(w) /\ k \in 1 .. Len(w) + Len(u)
    OBVIOUS
<1> QED
    BY <1>1, <1>2

(* A whole reply is what is left of it after no unit.                     *)
LEMMA UnitsType ==
    ASSUME NEW id \in Ids
    PROVE  Units(id) \in Seq(Unit) /\ Units(id) = Rest(id, 0)
<1>1. Units(id) \in [1 .. ReplyLen -> Unit]
    BY TemplatesOK DEF Units, Unit
<1>2. Units(id) = Rest(id, 0)
    BY TemplatesOK DEF Units, Rest
<1> QED
    BY <1>1, <1>2, TemplatesOK

(* How much of the buffer an action sends.                                 *)
LEMMA PerformDoles ==
    ASSUME TypeOK, NEW c \in Conns, Perform(c)
    PROVE  \E n \in 0 .. Len(buf[c]) :
             /\ Dole(c, n)
             /\ due[c] + Len(buf[c]) = ReplyLen => due'[c] = due[c] + n
<1>1. Len(buf[c]) \in Nat /\ acts[c] \in Seq(Action) /\ acts[c] # <<>> /\ due[c] \in 0 .. ReplyLen
    BY DEF TypeOK, Perform
<1> DEFINE a == Head(acts[c])
           n == IF a.all THEN Len(buf[c]) ELSE AtMost(a.bytes, Len(buf[c]))
<1>2. a \in Action
    BY <1>1, TailIn
<1>3. n \in 0 .. Len(buf[c])
    BY <1>1, <1>2 DEF AtMost, Action
<1>4. Dole(c, n)
    BY DEF Perform
<1>5. due'[c] = IF a.all THEN ReplyLen ELSE AtMost(due[c] + a.bytes, ReplyLen)
    BY TypeShaped DEF Perform, Shaped
<1>6. due[c] + Len(buf[c]) = ReplyLen => due'[c] = due[c] + n
    BY <1>1, <1>2, <1>5, TemplatesOK DEF AtMost, Action
<1> QED
    BY <1>3, <1>4, <1>6

(* What the down side does to what the client has.                         *)
LEMMA DownGives ==
    ASSUME TypeOK, NEW c \in Conns, Down(c)
    PROVE  \E u \in Seq(Unit) : toClient'[c] = toClient[c] \o u
<1>1. toClient[c] \in Seq(Unit) /\ buf[c] \in Seq(Unit) /\ Len(buf[c]) \in Nat
    BY DEF TypeOK
<1>2. ASSUME NEW n \in 0 .. Len(buf[c]), Dole(c, n)
      PROVE  \E u \in Seq(Unit) : toClient'[c] = toClient[c] \o u
  <2>1. SubSeq(buf[c], 1, n) \in Seq(Unit)
      BY <1>1
  <2>2. toClient'[c] = toClient[c] \o SubSeq(buf[c], 1, n)
      BY <1>2, TypeShaped DEF Dole, Shaped
  <2> QED
      BY <2>1, <2>2
<1>3. ASSUME toClient' = toClient
      PROVE  \E u \in Seq(Unit) : toClient'[c] = toClient[c] \o u
    BY <1>1, <1>3, ConcatEmptySeq, EmptySeq
<1>4. Len(buf[c]) \in 0 .. Len(buf[c])
    BY <1>1
<1>5. CASE ReadReply(c) \/ Pause(c) \/ ReturnDown(c)
    BY <1>3, <1>5 DEF ReadReply, Pause, ReturnDown
<1>6. CASE Take(c)
    BY <1>2, <1>3, <1>4, <1>6 DEF Take
<1>7. CASE Perform(c)
    BY <1>2, <1>7, PerformDoles
<1>8. CASE FinishActions(c)
    BY <1>2, <1>4, <1>8 DEF FinishActions
<1>9. CASE CopyRest(c)
  <2>1. Units(Head(fromServer[c])) \in Seq(Unit)
    <3>1. fromServer[c] \in Seq(Ids) /\ fromServer[c] # <<>>
        BY <1>9 DEF CopyRest, TypeOK
    <3> QED
        BY <3>1, TailIn, UnitsType
  <2>2. toClient'[c] = toClient[c] \o Units(Head(fromServer[c]))
      BY <1>9, TypeShaped DEF CopyRest, Shaped
  <2> QED
      BY <2>1, <2>2
<1> QED
    BY <1>5, <1>6, <1>7, <1>8, <1>9 DEF Down

(* Every step of a connection only adds to it, in the sense of Grows.     *)
LEMMA StepGrows ==
    ASSUME TypeOK, NEW c \in Conns, ConnStep(c)
    PROVE  Grows(c)
<1> DEFINE f == fromServer[c]  t == toServer[c]  h == held[c]  p == toProxy[c]
           n == Len(asked[c])  w == toClient[c]
<1>a. /\ f \in Seq(Ids) /\ t \in Seq(Ids) /\ h \in Seq(Ids) /\ p \in Seq(Ids)
      /\ n \in Nat /\ w \in Seq(Unit) /\ asked[c] \in Seq(Templates)
    BY DEF TypeOK
<1>b. Shaped
    BY TypeShaped
<1>c. \A k \in DOMAIN w : k \in DOMAIN toClient'[c] /\ toClient'[c][k] = w[k]
  <2>1. CASE Down(c)
      BY ZenonT(30), <1>a, <2>1, DownGives, GivenStays
  <2>2. CASE ~Down(c)
    <3>1. toClient' = toClient
        BY <2>2 DEF ConnStep, Send, CloseClient, Up, ReadRequest, WriteStripped, ReadFails, Answer,
           CloseServer
    <3> QED
        BY <3>1
  <2> QED
      BY <2>1, <2>2
<1>d. ASSUME asked' = asked, Behind(c)' \subseteq Behind(c)
      PROVE  Grows(c)
    BY <1>a, <1>c, <1>d DEF Grows
<1> USE DEF Put, Pop, upVars, downVars
<1>1. CASE Send(c)
  <2>1. n + 1 \in Ids
      BY <1>1, <1>a, TemplatesOK DEF Send, Ids
  <2>2. /\ toProxy'[c] = Append(p, n + 1) /\ fromServer' = fromServer /\ toServer' = toServer
        /\ held' = held
      BY <1>1, <1>b DEF Send, Shaped
  <2>3. In(Append(p, n + 1)) = In(p) \cup {n + 1}
      BY <1>a, <2>1, AppendIn
  <2>4. Behind(c)' = Behind(c) \cup {n + 1}
      BY <2>2, <2>3 DEF Behind
  <2>5. PICK x \in Templates : asked' = [asked EXCEPT ![c] = Append(@, x)]
      BY <1>1 DEF Send
  <2>6. asked'[c] = Append(asked[c], x)
      BY <1>b, <2>5 DEF Shaped
  <2>7. Len(asked'[c]) = n + 1 /\ \A i \in 1 .. n : asked'[c][i] = asked[c][i]
      BY <1>a, <2>6, AppendProperties
  <2> QED
      BY <1>a, <1>c, <2>4, <2>7 DEF Grows
<1>2. CASE CloseClient(c) \/ ReadFails(c) \/ Pause(c) \/ Take(c) \/ Perform(c) \/ FinishActions(c)
  <2>1. UNCHANGED <<asked, fromServer, toServer, held, toProxy>>
      BY <1>2 DEF CloseClient, ReadFails, Pause, Take, Perform, FinishActions
  <2> QED
      BY <1>d, <2>1 DEF Behind
<1>3. CASE ReadRequest(c)
  <2>1. p # <<>> /\ toProxy'[c] = Tail(p) /\ UNCHANGED <<asked, fromServer>>
      BY <1>3, <1>b DEF ReadRequest, Shaped
  <2>2. \/ toServer'[c] \in {t, Append(t, Head(p))} /\ held' = held
        \/ held'[c] = Append(h, Head(p)) /\ toServer' = toServer
    <3>1. CASE ForwardAsIs(c)
        BY <1>b, <3>1 DEF ForwardAsIs, Forward, Shaped
    <3>2. CASE StripInstruction(c)
        BY <1>b, <3>2 DEF StripInstruction, Shaped
    <3>3. CASE RejectInstruction(c)
        BY <1>b, <3>3 DEF RejectInstruction, Shaped
    <3> QED
        BY <1>3, <3>1, <3>2, <3>3 DEF ReadRequest
  <2>3. Head(p) \in Ids /\ Head(p) \in In(p) /\ In(Tail(p)) \subseteq In(p)
      BY <1>a, <2>1, TailIn
  <2>4. In(Append(t, Head(p))) = In(t) \cup {Head(p)}
      BY <1>a, <2>3, AppendIn
  <2>5. In(Append(h, Head(p))) = In(h) \cup {Head(p)}
      BY <1>a, <2>3, AppendIn
  <2> QED
      BY <1>d, <2>1, <2>2, <2>3, <2>4, <2>5 DEF Behind
<1>4. CASE WriteStripped(c)
  <2>1. h # <<>>
    <3>1. Len(h) = 1
        BY <1>4 DEF WriteStripped, TypeOK
    <3>2. Len(<<>>) # 1
        BY EmptySeq
    <3> QED
        BY Zenon, <3>1, <3>2
  <2>2. /\ UNCHANGED <<asked, fromServer, toProxy>> /\ held'[c] = Tail(h)
        /\ toServer'[c] \in {t, Append(t, Head(h))}
      BY <1>4, <1>b DEF WriteStripped, Forward, Shaped
  <2>3. Head(h) \in Ids /\ Head(h) \in In(h) /\ In(Tail(h)) \subseteq In(h)
      BY <1>a, <2>1, TailIn
  <2>4. In(Append(t, Head(h))) = In(t) \cup {Head(h)}
      BY <1>a, <2>3, AppendIn
  <2> QED
      BY <1>d, <2>2, <2>3, <2>4 DEF Behind
<1>5. CASE Answer(c)
  <2>1. /\ t # <<>> /\ UNCHANGED <<asked, toProxy, held>> /\ toServer'[c] = Tail(t)
        /\ fromServer'[c] \in {f, Append(f, Head(t))}
      BY <1>5, <1>b DEF Answer, Shaped
  <2>2. Head(t) \in Ids /\ Head(t) \in In(t) /\ In(Tail(t)) \subseteq In(t)
      BY <1>a, <2>1, TailIn
  <2>3. In(Append(f, Head(t))) = In(f) \cup {Head(t)}
      BY <1>a, <2>2, AppendIn
  <2> QED
      BY <1>d, <2>1, <2>2, <2>3 DEF Behind
<1>6. CASE CloseServer(c) \/ ReturnDown(c)
  <2>1. UNCHANGED <<asked, toProxy, held, fromServer>> /\ toServer'[c] = <<>>
      BY <1>6, <1>b DEF CloseServer, ReturnDown, Shaped
  <2> QED
      BY <1>d, <2>1, NothingIn DEF Behind
<1>7. CASE ReadReply(c) \/ CopyRest(c)
  <2>1. /\ f # <<>> /\ UNCHANGED <<asked, toProxy, held, toServer>> /\ fromServer'[c] = Tail(f)
      BY <1>7, <1>b DEF ReadReply, CopyRest, Shaped
  <2>2. In(Tail(f)) \subseteq In(f)
      BY <1>a, <2>1, TailIn
  <2> QED
      BY <1>d, <2>1, <2>2 DEF Behind
<1> QED
    BY <1>1, <1>2, <1>3, <1>4, <1>5, <1>6, <1>7 DEF ConnStep, Up, Down

-----------------------------------------------------------------------------
(* A connection that keeps its state keeps its reply.                     *)
LEMMA OthersReply ==
    ASSUME NEW g, Same(g), ReplyOf(g) PROVE ReplyOf(g)'
<1>1. \A id, n : Doling(g, id, n) => Doling(g, id, n)'
    BY Zenon DEF Same, Doling, Behind
<1> QED
    BY <1>1 DEF Same, ReplyOf

(* A reply in the buffer stays as it is while the down side does not send.  *)
LEMMA DolingKeeps ==
    ASSUME TypeOK, NEW c \in Conns, Grows(c), NEW id, NEW n, Doling(c, id, n),
           buf'[c] = buf[c], toClient'[c] = toClient[c]
    PROVE  Doling(c, id, n)'
<1>1. Len(asked[c]) \in Nat
    BY DEF TypeOK
<1>2. Below({id}, Behind(c)')
    BY <1>1 DEF Grows, Doling, Below
<1>3. id \in 1 .. Len(asked'[c]) /\ asked'[c][id].answered
  <2>1. Len(asked'[c]) >= id
      BY <1>1 DEF Grows, Doling
  <2> QED
      BY <1>1, <2>1 DEF Grows, Doling
<1> QED
    BY Zenon, <1>2, <1>3 DEF Doling

(* One send of m units.                                                    *)
LEMMA DolingSends ==
    ASSUME TypeOK, NEW c \in Conns, Grows(c), NEW id \in Ids, NEW n, Doling(c, id, n),
           NEW m \in 0 .. Len(buf[c]), Dole(c, m)
    PROVE  /\ n + Len(buf[c]) = ReplyLen
           /\ Doling(c, id, n + m)'
<1>1. n \in 0 .. ReplyLen /\ ReplyLen \in Nat /\ Len(buf[c]) = ReplyLen - n
    BY RestIsSeq, TemplatesOK DEF Doling
<1>2. m \in 0 .. ReplyLen - n /\ n + m \in 0 .. ReplyLen
    BY <1>1
<1> DEFINE v == SubSeq(Rest(id, n), 1, m)
<1>3. /\ v \in Seq(Unit) /\ Len(v) = m /\ \A k \in 1 .. m : v[k] = <<id, n + k>>
      /\ SubSeq(Rest(id, n), m + 1, Len(Rest(id, n))) = Rest(id, n + m)
    BY <1>1, <1>2, RestSplits
<1>4. buf[c] = Rest(id, n) /\ Showing(toClient[c], id, n)
    BY DEF Doling
<1>5. toClient'[c] = toClient[c] \o v /\ buf'[c] = Rest(id, n + m)
    BY <1>3, <1>4, TypeShaped DEF Dole, Shaped
<1>6. toClient[c] \in Seq(Unit) /\ Len(asked[c]) \in Nat
    BY DEF TypeOK
<1>7. Showing(toClient[c] \o v, id, n + m)
    BY <1>1, <1>2, <1>3, <1>4, <1>6, ShowingGrows
<1>8. Below({id}, Behind(c)')
    BY <1>6 DEF Grows, Doling, Below
<1>9. id \in 1 .. Len(asked'[c]) /\ asked'[c][id].answered
  <2>1. Len(asked'[c]) >= id
      BY <1>6 DEF Grows, Doling
  <2> QED
      BY <1>6, <2>1 DEF Grows, Doling
<1>10. Doling(c, id, n + m)'
    BY Zenon, <1>2, <1>5, <1>7, <1>8, <1>9 DEF Doling
<1> QED
    BY <1>1, <1>10

(* The reply that is read is not sent yet.                                 *)
LEMMA ReadDoles ==
    ASSUME TypeOK, NEW c \in Conns, OrderOf(c), Grows(c), ReplyOf(c), ReadReply(c)
    PROVE  \E id \in Ids : Doling(c, id, 0)'
<1> DEFINE f == fromServer[c]
<1>1. /\ f \in Seq(Ids) /\ f # <<>> /\ Len(asked[c]) \in Nat /\ toClient[c] \in Seq(Unit)
      /\ toServer[c] \in Seq(Ids) /\ held[c] \in Seq(Ids) /\ toProxy[c] \in Seq(Ids)
    BY DEF ReadReply, TypeOK
<1>2. /\ Below({Head(f)}, In(Tail(f)) \cup In(toServer[c]) \cup In(held[c]) \cup In(toProxy[c]))
      /\ Head(f) \in 1 .. Len(asked[c]) /\ Head(f) \in In(f)
      /\ \A k \in DOMAIN toClient[c] : toClient[c][k][1] < Head(f)
    BY <1>1, OrderedRead DEF OrderOf
<1>3. Head(f) \in Ids
    BY <1>1, TailIn
<1>4. /\ fromServer'[c] = Tail(f) /\ buf'[c] = Units(Head(f))
      /\ UNCHANGED <<asked, toServer, held, toProxy, toClient>>
    BY TypeShaped DEF ReadReply, Pop, Shaped, upVars
<1>5. Below({Head(f)}, Behind(c)')
    BY Zenon, <1>2, <1>4 DEF Behind
<1>6. buf'[c] = Rest(Head(f), 0)
    BY <1>3, <1>4, UnitsType
<1>7. asked'[c][Head(f)].answered /\ Head(f) \in 1 .. Len(asked'[c])
    BY <1>2, <1>4 DEF ReplyOf
<1>8. Showing(toClient'[c], Head(f), 0)
    BY <1>1, <1>2, <1>4 DEF Showing
<1>9. 0 \in 0 .. ReplyLen
    BY TemplatesOK
<1> QED
    BY <1>3, <1>5, <1>6, <1>7, <1>8, <1>9 DEF Doling

(* Replies on their way are replies to commands that have one.             *)
LEMMA AnsweredStep ==
    ASSUME TypeOK, NEW c \in Conns, OrderOf(c), Grows(c), ReplyOf(c), ConnStep(c)
    PROVE  \A i \in In(fromServer'[c]) : asked'[c][i].answered
<1> DEFINE f == fromServer[c]  t == toServer[c]
<1>1. f \in Seq(Ids) /\ t \in Seq(Ids)
    BY DEF TypeOK
<1>2. \A i \in In(f) : i \in 1 .. Len(asked[c]) /\ asked'[c][i].answered
    BY DEF OrderOf, Ordered, Grows, ReplyOf
<1>3. CASE Answer(c)
  <2>1. t # <<>> /\ fromServer'[c] = (IF asked[c][Head(t)].answered THEN Append(f, Head(t)) ELSE f)
        /\ asked' = asked
      BY <1>3, TypeShaped DEF Answer, Put, Shaped
  <2>2. Head(t) \in Ids
      BY <1>1, <2>1, TailIn
  <2>3. In(Append(f, Head(t))) = In(f) \cup {Head(t)}
      BY <1>1, <2>2, AppendIn
  <2> QED
      BY <1>2, <2>1, <2>3
<1>4. CASE ReadReply(c) \/ CopyRest(c)
  <2>1. f # <<>> /\ fromServer'[c] = Tail(f)
      BY <1>4, TypeShaped DEF ReadReply, CopyRest, Pop, Shaped
  <2>2. In(Tail(f)) \subseteq In(f)
      BY <1>1, <2>1, TailIn
  <2> QED
      BY <1>2, <2>1, <2>2
<1>5. CASE ~(Answer(c) \/ ReadReply(c) \/ CopyRest(c))
  <2>1. fromServer' = fromServer
      BY <1>5 DEF ConnStep, Send, CloseClient, Up, ReadRequest, WriteStripped, ReadFails, Down,
         Take, Pause, Perform, FinishActions, ReturnDown, CloseServer
  <2> QED
      BY <1>2, <2>1
<1> QED
    BY <1>3, <1>4, <1>5

(* A step keeps the buffer the rest of the reply that is being doled out. *)
LEMMA ReplyStep ==
    ASSUME TypeOK, OrderInv, ReplyInv, NEW c \in Conns, ConnStep(c)
    PROVE  ReplyOf(c)'
<1>a. Grows(c) /\ OrderOf(c) /\ ReplyOf(c) /\ Shaped
    BY StepGrows, TypeShaped DEF OrderInv, ReplyInv
<1>b. \A i \in In(fromServer'[c]) : asked'[c][i].answered
    BY <1>a, AnsweredStep
<1>c. PICK l \in 0 .. Len(buf[c]) : l = Len(buf[c])
    BY DEF TypeOK
<1>d. PICK d \in 0 .. ReplyLen : d = due[c]
    BY DEF TypeOK
<1>e. \A id : Rest(id, ReplyLen) = <<>>
    BY TemplatesOK DEF Rest
<1>1. CASE Send(c) \/ CloseClient(c) \/ Up(c) \/ Answer(c) \/ CloseServer(c)
  <2>1. UNCHANGED <<down, buf, toClient, due, applied>>
      BY <1>1 DEF Send, CloseClient, Up, ReadRequest, WriteStripped, ReadFails, Answer, CloseServer,
         downVars
  <2>2. \A id, n : Doling(c, id, n) => Doling(c, id, n)'
      BY <1>a, <2>1, DolingKeeps
  <2> QED
      BY <1>a, <1>b, <2>1, <2>2 DEF ReplyOf
<1>2. CASE ReadReply(c)
  <2>1. \E id \in Ids : Doling(c, id, 0)'
      BY <1>2, <1>a, ReadDoles
  <2>2. down[c] = "reading" /\ down'[c] = "taking" /\ applied'[c] = applied[c]
      BY <1>2, <1>a DEF ReadReply, Shaped
  <2> QED
      BY <1>a, <1>b, <2>1, <2>2 DEF ReplyOf
<1>3. CASE Take(c)
  <2>1. PICK id \in Ids : Doling(c, id, 0)
      BY <1>3, <1>a DEF Take, ReplyOf
  <2>2. applied[c] = {}
      BY <1>3, <1>a DEF Take, ReplyOf
  <2>3. CASE pendingMap[c] = None
    <3>1. Dole(c, Len(buf[c])) /\ down'[c] = "reading" /\ applied' = applied
        BY <1>3, <1>a, <2>3 DEF Take, Shaped
    <3>2. Doling(c, id, 0 + l)' /\ 0 + l = ReplyLen
        BY <1>a, <1>c, <2>1, <3>1, DolingSends
    <3>3. buf'[c] = <<>>
        BY <1>e, <3>2 DEF Doling
    <3> QED
        BY <1>b, <2>2, <3>1, <3>3 DEF ReplyOf
  <2>4. CASE pendingMap[c] # None
    <3>1. /\ down'[c] = "acting" /\ due'[c] = 0 /\ UNCHANGED <<toClient, buf>>
          /\ applied'[c] = applied[c] \cup {<<pendingMap[c].from, buf[c][1][1]>>}
        BY <1>3, <1>a, <2>4 DEF Take, Shaped
    <3>2. buf[c][1][1] = id
        BY <2>1, TemplatesOK DEF Doling, Rest
    <3>3. pendingMap[c].from \in Ids
        BY <2>4 DEF TypeOK
    <3>4. Doling(c, id, 0)'
        BY <1>a, <2>1, <3>1, DolingKeeps
    <3>5. <<pendingMap[c].from, id>> \in Ids \X Ids /\ applied'[c] = {<<pendingMap[c].from, id>>}
        BY <2>1, <2>2, <3>1, <3>2, <3>3
    <3>6. \E m \in Ids \X Ids : applied'[c] = {m} /\ Doling(c, m[2], due[c])'
      <4>1. Doling(c, id, due[c])'
          BY <3>1, <3>4
      <4> QED
          BY <3>5, <4>1
    <3> QED
        BY <1>b, <3>1, <3>6 DEF ReplyOf
  <2> QED
      BY <2>3, <2>4
<1>4. CASE Pause(c)
  <2>1. down[c] = "acting" /\ down'[c] = "paused" /\ UNCHANGED <<toClient, buf, due, applied>>
      BY <1>4, <1>a DEF Pause, Shaped
  <2>2. \A id, n : Doling(c, id, n) => Doling(c, id, n)'
      BY <1>a, <2>1, DolingKeeps
  <2> QED
      BY <1>a, <1>b, <2>1, <2>2 DEF ReplyOf
<1>5. CASE Perform(c)
  <2>1. down[c] \in {"acting", "paused"} /\ down'[c] = "acting" /\ applied' = applied
      BY <1>5, <1>a DEF Perform, Shaped
  <2>2. PICK m \in Ids \X Ids : applied[c] = {m} /\ Doling(c, m[2], due[c])
      BY <1>a, <2>1 DEF ReplyOf
  <2>3. PICK n \in 0 .. Len(buf[c]) :
             Dole(c, n) /\ (due[c] + Len(buf[c]) = ReplyLen => due'[c] = due[c] + n)
      BY <1>5, PerformDoles
  <2>4. due[c] + Len(buf[c]) = ReplyLen /\ Doling(c, m[2], d + n)'
    <3>1. m[2] \in Ids
        OBVIOUS
    <3> QED
        BY <1>a, <1>d, <2>2, <2>3, <3>1, DolingSends
  <2>5. \E k \in Ids \X Ids : applied'[c] = {k} /\ Doling(c, k[2], due[c])'
    <3>1. Doling(c, m[2], due[c])'
        BY <1>d, <2>3, <2>4
    <3> QED
        BY <2>1, <2>2, <3>1
  <2> QED
      BY <1>b, <2>1, <2>5 DEF ReplyOf
<1>6. CASE FinishActions(c)
  <2>1. down[c] = "acting" /\ down'[c] = "copying" /\ Dole(c, Len(buf[c]))
      BY <1>6, <1>a DEF FinishActions, Shaped
  <2>2. PICK m \in Ids \X Ids : applied[c] = {m} /\ Doling(c, m[2], due[c])
      BY <1>a, <2>1 DEF ReplyOf
  <2>3. d + l = ReplyLen /\ Doling(c, m[2], d + l)'
    <3>1. m[2] \in Ids
        OBVIOUS
    <3> QED
        BY <1>a, <1>c, <1>d, <2>1, <2>2, <3>1, DolingSends
  <2>4. buf'[c] = <<>>
      BY <1>e, <2>3 DEF Doling
  <2> QED
      BY <1>b, <2>1, <2>4 DEF ReplyOf
<1>7. CASE CopyRest(c)
  <2>1. down[c] = "copying" /\ UNCHANGED <<down, buf, applied>>
      BY <1>7 DEF CopyRest, downVars
  <2> QED
      BY <1>a, <1>b, <2>1 DEF ReplyOf
<1>8. CASE ReturnDown(c)
  <2>1. down[c] \in {"reading", "copying"} /\ down'[c] = "done" /\ UNCHANGED <<buf, applied>>
      BY <1>8, <1>a DEF ReturnDown, Shaped
  <2> QED
      BY <1>a, <1>b, <2>1 DEF ReplyOf
<1> QED
    BY <1>1, <1>2, <1>3, <1>4, <1>5, <1>6, <1>7, <1>8 DEF ConnStep, Down

-----------------------------------------------------------------------------
(* A connection that keeps its state keeps its instructions paired.       *)
LEMMA OthersPatient ==
    ASSUME NEW g, Same(g), PatientOf(g) PROVE PatientOf(g)'
<1>1. \A i : Received(g, i)' <=> Received(g, i)
    BY Zenon DEF Same, Received
<1> QED
    BY <1>1 DEF Same, PatientOf

(* Of the commands that have a reply only the last may still wait for it.   *)
LEMMA LastOneWaits ==
    ASSUME NEW c \in Conns, PatientOf(c), NEW i \in DOMAIN asked[c], asked[c][i].answered,
           \A k \in DOMAIN toClient[c] : toClient[c][k][1] # i
    PROVE  i = Len(asked[c])
<1>1. <<i, ReplyLen>>[1] = i
    OBVIOUS
<1>2. ~Received(c, i)
    BY <1>1 DEF Received
<1> QED
    BY <1>2 DEF PatientOf

(* A client that waits before it sends leaves nothing unanswered behind.    *)
LEMMA WaitsItsTurn ==
    ASSUME TypeOK, NEW c \in Conns, Grows(c), PatientOf(c), patient[c], ConnStep(c)
    PROVE  \A i \in DOMAIN asked'[c] :
             /\ asked'[c][i].test = "actions" => asked'[c][i].answered
             /\ asked'[c][i].answered /\ i # Len(asked'[c]) => Received(c, i)'
<1> DEFINE n == Len(asked[c])
<1>1. asked[c] \in Seq(Templates) /\ n \in Nat /\ DOMAIN asked[c] = 1 .. n
    BY DEF TypeOK
<1>2. \A i : Received(c, i) => Received(c, i)'
    BY DEF Grows, Received
<1>3. CASE Send(c)
  <2>1. PICK t \in Templates : asked' = [asked EXCEPT ![c] = Append(@, t)]
                               /\ (t.test = "actions" => t.answered)
      BY <1>3 DEF Send, Put
  <2>2. asked'[c] = Append(asked[c], t)
      BY <2>1, TypeShaped DEF Shaped
  <2>3. /\ Len(asked'[c]) = n + 1 /\ DOMAIN asked'[c] = 1 .. n + 1 /\ asked'[c][n + 1] = t
        /\ \A i \in 1 .. n : asked'[c][i] = asked[c][i]
      BY <1>1, <2>2, AppendProperties
  <2>4. \A i \in 1 .. n : asked[c][i].answered => Received(c, i)
      BY <1>1, <1>3 DEF Send, Waiting
  <2> QED
      BY <1>1, <1>2, <2>1, <2>3, <2>4 DEF PatientOf
<1>4. CASE ~Send(c)
  <2>1. asked' = asked
      BY <1>4 DEF ConnStep, CloseClient, Up, ReadRequest, WriteStripped, ReadFails, Answer,
         CloseServer, Down, ReadReply, Take, Pause, Perform, FinishActions, CopyRest, ReturnDown
  <2> QED
      BY <1>2, <2>1 DEF PatientOf
<1> QED
    BY <1>3, <1>4

(* The instruction that is taken and the reply in the buffer belong to the  *)
(* last command, the only one the client still waits for.                  *)
LEMMA TakesItsOwn ==
    ASSUME TypeOK, NEW c \in Conns, ReplyOf(c), PatientOf(c), Take(c), pendingMap[c] # None
    PROVE  pendingMap[c].from = buf[c][1][1]
<1>1. down[c] = "taking" /\ pendingMap[c].from \in DOMAIN asked[c]
    BY DEF Take, PatientOf
<1>2. pendingMap[c].from = Len(asked[c])
    BY <1>1, LastOneWaits DEF PatientOf
<1>3. PICK id \in Ids : Doling(c, id, 0)
    BY <1>1 DEF ReplyOf
<1>4. buf[c][1][1] = id
    BY <1>3, TemplatesOK DEF Doling, Rest
<1>5. toClient[c] \in Seq(Unit) /\ asked[c] \in Seq(Templates)
    BY DEF TypeOK
<1>6. \A k \in DOMAIN toClient[c] : toClient[c][k][1] # id
  <2> TAKE k \in DOMAIN toClient[c]
  <2>1. k <= Len(toClient[c]) /\ Len(toClient[c]) \in Nat /\ k \in Nat
      BY <1>5
  <2>2. ~(k > Len(toClient[c]) - 0)
      BY <2>1
  <2>3. toClient[c][k][1] < id
      BY <1>3, <2>2 DEF Doling, Showing
  <2>4. toClient[c][k][1] \in Ids
      BY <1>5 DEF Unit
  <2> QED
      BY <2>3, <2>4 DEF Ids
<1>7. id \in DOMAIN asked[c] /\ asked[c][id].answered
    BY <1>3, <1>5 DEF Doling
<1>8. id = Len(asked[c])
    BY <1>6, <1>7, LastOneWaits
<1> QED
    BY <1>2, <1>4, <1>8

(* The instruction that is pending, after a step.                          *)
LEMMA PendingStep ==
    ASSUME TypeOK, NEW c \in Conns, OrderOf(c), Grows(c), PatientOf(c), ConnStep(c),
           pendingMap'[c] # None, down'[c] \in {"reading", "taking"}
    PROVE  /\ pendingMap'[c].from \in DOMAIN asked'[c]
           /\ asked'[c][pendingMap'[c].from].answered
           /\ \A k \in DOMAIN toClient'[c] : toClient'[c][k][1] # pendingMap'[c].from
<1>1. asked[c] \in Seq(Templates) /\ Shaped
    BY TypeShaped DEF TypeOK
<1>a. toClient[c] \in Seq(Unit) /\ toProxy[c] \in Seq(Ids)
    BY DEF TypeOK
<1>2. CASE StripInstruction(c) /\ ReadRequest(c)
  <2> DEFINE i == Head(toProxy[c])
  <2>1. toProxy[c] # <<>> /\ asked' = asked /\ toClient' = toClient
      BY <1>2 DEF ReadRequest
  <2>2. pendingMap'[c] = [actions |-> asked[c][i].actions, from |-> i]
        /\ asked[c][i].test = "actions"
      BY <1>1, <1>2 DEF StripInstruction, Shaped
  <2>3. i \in In(toProxy[c]) /\ i \in Ids
      BY <1>a, <2>1, TailIn
  <2>4. i \in 1 .. Len(asked[c])
      BY <2>3 DEF OrderOf, Ordered
  <2>5. i \in DOMAIN asked[c] /\ asked[c][i].answered
      BY <1>1, <2>2, <2>4 DEF PatientOf
  <2>6. \A k \in DOMAIN toClient[c] : toClient[c][k][1] < i
      BY <2>3 DEF OrderOf, Ordered, Below
  <2>7. \A k \in DOMAIN toClient[c] : toClient[c][k][1] # i
      BY <2>3, <2>6 DEF Ids
  <2> QED
      BY <2>1, <2>2, <2>5, <2>7
<1>3. CASE ~(StripInstruction(c) /\ ReadRequest(c))
  <2>1. pendingMap'[c] = pendingMap[c] /\ down[c] \in {"reading", "taking"} /\ toClient' = toClient
    <3>1. CASE Send(c) \/ CloseClient(c) \/ Answer(c) \/ CloseServer(c)
        BY <3>1 DEF Send, CloseClient, Answer, CloseServer, downVars
    <3>2. CASE WriteStripped(c) \/ ReadFails(c)
        BY <3>2 DEF WriteStripped, ReadFails, downVars
    <3>3. CASE ReadRequest(c)
        BY <1>3, <3>3 DEF ReadRequest, ForwardAsIs, RejectInstruction, downVars
    <3>4. CASE ReadReply(c)
        BY <3>4 DEF ReadReply
    <3>5. CASE Take(c)
        BY <1>1, <3>5 DEF Take, Shaped
    <3>6. CASE Pause(c) \/ Perform(c) \/ FinishActions(c) \/ ReturnDown(c)
        BY <1>1, <3>6 DEF Pause, Perform, FinishActions, ReturnDown, Shaped
    <3>7. CASE CopyRest(c)
        BY <3>7 DEF CopyRest, downVars
    <3> QED
        BY <3>1, <3>2, <3>3, <3>4, <3>5, <3>6, <3>7 DEF ConnStep, Up, Down
  <2>2. /\ pendingMap[c].from \in DOMAIN asked[c] /\ asked[c][pendingMap[c].from].answered
        /\ \A k \in DOMAIN toClient[c] : toClient[c][k][1] # pendingMap[c].from
      BY <2>1 DEF PatientOf
  <2>3. /\ pendingMap[c].from \in DOMAIN asked'[c]
        /\ asked'[c][pendingMap[c].from] = asked[c][pendingMap[c].from]
    <3>1. DOMAIN asked[c] = 1 .. Len(asked[c]) /\ Len(asked[c]) \in Nat
        BY <1>1
    <3>2. CASE Send(c)
      <4>1. PICK t \in Templates : asked' = [asked EXCEPT ![c] = Append(@, t)]
          BY <3>2 DEF Send, Put
      <4>2. asked'[c] = Append(asked[c], t)
          BY <1>1, <4>1 DEF Shaped
      <4>3. DOMAIN asked'[c] = 1 .. Len(asked[c]) + 1
          BY <1>1, <4>2, AppendProperties
      <4> QED
          BY <2>2, <3>1, <4>3 DEF Grows
    <3>3. CASE ~Send(c)
      <4>1. asked' = asked
          BY <3>3 DEF ConnStep, CloseClient, Up, ReadRequest, WriteStripped, ReadFails, Answer,
             CloseServer, Down, ReadReply, Take, Pause, Perform, FinishActions, CopyRest, ReturnDown
      <4> QED
          BY <2>2, <4>1
    <3> QED
        BY <3>2, <3>3
  <2> QED
      BY <2>1, <2>2, <2>3
<1> QED
    BY <1>2, <1>3

(* A step of a patient client's connection keeps its instructions paired. *)
LEMMA PatientStep ==
    ASSUME TypeOK, OrderInv, ReplyInv, NEW c \in Conns, patient[c], PatientOf(c), ConnStep(c)
    PROVE  PatientOf(c)'
<1>1. Grows(c) /\ OrderOf(c) /\ ReplyOf(c) /\ Shaped
    BY StepGrows, TypeShaped DEF OrderInv, ReplyInv
<1>2. \A m \in applied'[c] : m[1] = m[2]
  <2>1. CASE Take(c) /\ pendingMap[c] # None
    <3>1. applied'[c] = applied[c] \cup {<<pendingMap[c].from, buf[c][1][1]>>}
        BY <1>1, <2>1 DEF Take, Shaped
    <3> QED
        BY <1>1, <2>1, <3>1, TakesItsOwn DEF PatientOf
  <2>2. CASE ~(Take(c) /\ pendingMap[c] # None)
    <3>1. applied' = applied
      <4>1. CASE Take(c)
          BY <2>2, <4>1 DEF Take
      <4>2. CASE ~Take(c)
          BY <4>2 DEF ConnStep, Send, CloseClient, Up, ReadRequest, WriteStripped, ReadFails, Answer,
             CloseServer, Down, ReadReply, Pause, Perform, FinishActions, CopyRest, ReturnDown,
             downVars
      <4> QED
          BY <4>1, <4>2
    <3> QED
        BY <3>1 DEF PatientOf
  <2> QED
      BY <2>1, <2>2
<1>3. \A i \in DOMAIN asked'[c] :
             /\ asked'[c][i].test = "actions" => asked'[c][i].answered
             /\ asked'[c][i].answered /\ i # Len(asked'[c]) => Received(c, i)'
    BY <1>1, WaitsItsTurn
<1>4. pendingMap'[c] # None /\ down'[c] \in {"reading", "taking"} =>
             /\ pendingMap'[c].from \in DOMAIN asked'[c]
             /\ asked'[c][pendingMap'[c].from].answered
             /\ \A k \in DOMAIN toClient'[c] : toClient'[c][k][1] # pendingMap'[c].from
    BY <1>1, PendingStep
<1> QED
    BY <1>2, <1>3, <1>4 DEF PatientOf, None

-----------------------------------------------------------------------------
(* The invariant holds when the proxy starts ...                          *)
LEMMA InitInv == ASSUME Init PROVE IInv
<1>1. TypeOK
  <2>1. \A S : <<>> \in Seq(S) /\ Len(<<>>) = 0
      BY EmptySeq
  <2> QED
      BY <2>1, TemplatesOK DEF Init, TypeOK
<1>2. OrderInv
  <2>1. Ordered(<<>>, <<>>, <<>>, <<>>, 0, <<>>)
      BY NothingIn DEF Ordered, Below
  <2>2. Len(<<>>) = 0
      BY EmptySeq
  <2> QED
      BY <2>1, <2>2 DEF Init, OrderInv, OrderOf
<1>3. ReplyInv
    BY NothingIn DEF Init, ReplyInv, ReplyOf
<1>4. PatientInv
    BY DEF Init, PatientInv, PatientOf
<1> QED
    BY <1>1, <1>2, <1>3, <1>4 DEF IInv

(* ... every step keeps it ...                                            *)
LEMMA NextInv == ASSUME IInv, Next PROVE IInv'
<1>1. PICK c \in Conns : ConnStep(c)
    BY Zenon DEF Next, ConnStep
<1>2. UNCHANGED patient /\ TypeOK /\ OrderInv /\ ReplyInv /\ PatientInv /\ Shaped
    BY TypeShaped DEF Next, IInv
<1>3. \A g \in Conns \ {c} : Same(g)
    BY <1>1, <1>2, OthersKeep
<1>4. TypeOK'
    BY <1>1, <1>2, TypeStep
<1>5. ASSUME NEW g \in Conns
      PROVE  OrderOf(g)' /\ ReplyOf(g)' /\ (patient'[g] => PatientOf(g)')
  <2>1. OrderOf(g) /\ ReplyOf(g) /\ (patient[g] => PatientOf(g)) /\ patient'[g] = patient[g]
      BY <1>2 DEF OrderInv, ReplyInv, PatientInv
  <2>2. CASE g = c
      BY <1>1, <1>2, <2>1, <2>2, OrderStep, ReplyStep, PatientStep
  <2>3. CASE g # c
      BY <1>3, <2>1, <2>3, OthersOrder, OthersReply, OthersPatient
  <2> QED
      BY <2>2, <2>3
<1> QED
    BY <1>4, <1>5 DEF IInv, OrderInv, ReplyInv, PatientInv

(* ... and so does doing nothing.                                         *)
LEMMA StutterInv == ASSUME IInv, UNCHANGED vars PROVE IInv'
<1>1. \A g \in Conns : Same(g) /\ patient'[g] = patient[g]
    BY DEF vars, downVars, upVars, Same
<1>2. TypeOK'
    BY DEF IInv, TypeOK, vars
<1>3. OrderInv' /\ ReplyInv'
    BY <1>1, OthersOrder, OthersReply DEF IInv, OrderInv, ReplyInv
<1>4. PatientInv'
    BY <1>1, OthersPatient DEF IInv, PatientInv
<1> QED
    BY <1>2, <1>3, <1>4 DEF IInv

(* The inductive invariant: what is on its way is in the order of the       *)
(* commands, the buffer is the rest of the reply being doled out, and a     *)
(* patient client waits for one reply at a time.                           *)
THEOREM Invariant == Spec => []IInv
<1>1. Init => IInv
    BY InitInv
<1>2. IInv /\ [Next]_vars => IInv'
    BY NextInv, StutterInv
<1> QED
    BY <1>1, <1>2, PTL DEF Spec

(* Every pipe holds commands, every stream units of replies, and the up     *)
(* side holds a command exactly while it writes one.                       *)
THEOREM TypeCorrect == Spec => []TypeOK
<1>1. IInv => TypeOK
    BY DEF IInv
<1> QED
    BY <1>1, Invariant, PTL

(* An instruction shapes the reply to the command that carried it, and is   *)
(* gone before the client sees any of that reply.                          *)
THEOREM Paired == Spec => []InstructionsPaired
<1>1. IInv => InstructionsPaired
    BY DEF IInv, PatientInv, PatientOf, InstructionsPaired, InstructionMeetsItsReply,
       PendingIsOutstanding
<1> QED
    BY <1>1, Invariant, PTL

(* While the proxy sleeps in an action the client has been given what the   *)
(* actions before released, no unit more and no unit less.                 *)
THEOREM PausesShow == Spec => []PauseShowsExactly
<1>1. ASSUME IInv PROVE PauseShowsExactly
  <2> SUFFICES ASSUME NEW c \in Conns, down[c] = "paused", NEW m \in applied[c]
               PROVE  ShowsExactly(toClient[c], m[2], due[c])
      BY DEF PauseShowsExactly
  <2>1. m \in Ids \X Ids /\ Doling(c, m[2], due[c])
      BY <1>1 DEF IInv, ReplyInv, ReplyOf
  <2>2. toClient[c] \in Seq(Unit)
      BY <1>1 DEF IInv, TypeOK
  <2>3. \A k \in DOMAIN toClient[c] : toClient[c][k][1] < m[2] => toClient[c][k][1] # m[2]
      BY <2>1, <2>2 DEF Unit, Ids
  <2> QED
      BY <2>1, <2>3 DEF Doling, Showing, ShowsExactly
<1> QED
    BY <1>1, Invariant, PTL

-----------------------------------------------------------------------------
(* Division of a position by the length of a reply.                        *)
LEMMA Division ==
    ASSUME NEW R \in Nat \ {0}, NEW x \in Nat
    PROVE  /\ x \div R \in Nat /\ x % R \in 0 .. R - 1
           /\ x = R * (x \div R) + (x % R)
OBVIOUS

(* A larger quotient makes a product larger by the divisor at least.      *)
LEMMA Products ==
    ASSUME NEW R \in Nat \ {0}, NEW p \in Nat, NEW q \in Nat, p < q
    PROVE  R * p + R <= R * q
<1>1. PICK d \in Nat : q = p + 1 + d
    BY q - p - 1 \in Nat
<1>2. R * q = R * p + R + R * d
    BY <1>1
<1>3. R * d \in Nat /\ R * p \in Nat
    OBVIOUS
<1> QED
    BY <1>2, <1>3

(* Quotient and remainder are the only ones.                              *)
LEMMA DivisionIsUnique ==
    ASSUME NEW R \in Nat \ {0}, NEW p \in Nat, NEW q \in Nat,
           NEW r \in 0 .. R - 1, NEW s \in 0 .. R - 1, R * p + r = R * q + s
    PROVE  p = q /\ r = s
<1>1. R * p \in Nat /\ R * q \in Nat
    OBVIOUS
<1>2. CASE p < q
    BY <1>1, <1>2, Products
<1>3. CASE q < p
    BY <1>1, <1>3, Products
<1>4. CASE p = q
    BY <1>1, <1>4
<1> QED
    BY <1>2, <1>3, <1>4

(* A divisor more makes the quotient one more.                            *)
LEMMA DivisionByOneMore ==
    ASSUME NEW R \in Nat \ {0}, NEW x \in Nat
    PROVE  (x + R) \div R = x \div R + 1 /\ (x + R) % R = x % R
<1> DEFINE q == x \div R  r == x % R  u == (x + R) \div R  v == (x + R) % R
<1>1. q \in Nat /\ r \in 0 .. R - 1 /\ x = R * q + r
    BY Division
<1>a. x + R \in Nat
    OBVIOUS
<1>b. u \in Nat /\ v \in 0 .. R - 1 /\ x + R = R * u + v
    BY <1>a, Division
<1> HIDE DEF q, r, u, v
<1>2. R * (q + 1) = R * q + R /\ q + 1 \in Nat /\ R * q \in Nat
    BY <1>1
<1>3. R * u + v = R * (q + 1) + r
    BY <1>1, <1>b, <1>2
<1>4. u = q + 1 /\ v = r
    BY <1>1, <1>b, <1>2, <1>3, DivisionIsUnique
<1> QED
    BY <1>4 DEF q, r, u, v

(* What is below a multiple has a quotient below its factor.              *)
LEMMA DivisionOfLess ==
    ASSUME NEW R \in Nat \ {0}, NEW x \in Nat
    PROVE  /\ x < R => x \div R = 0 /\ x % R = x
           /\ \A n \in Nat : x < R * n => x \div R < n
<1> DEFINE q == x \div R  r == x % R
<1>1. q \in Nat /\ r \in 0 .. R - 1 /\ x = R * q + r
    BY Division
<1> HIDE DEF q, r
<1>2. x < R => q = 0 /\ r = x
  <2> HAVE x < R
  <2>1. R * 0 = 0 /\ x \in 0 .. R - 1
      OBVIOUS
  <2> QED
      BY <1>1, <2>1, DivisionIsUnique
<1>3. ASSUME NEW n \in Nat, x < R * n
      PROVE  q < n
  <2>1. CASE n < q
    <3>1. R * n + R <= R * q
        BY <1>1, <2>1, Products
    <3>2. R * n \in Nat /\ R * q \in Nat
        BY <1>1
    <3> QED
        BY <1>1, <1>3, <3>1, <3>2
  <2>2. CASE n = q
    <3>1. R * q \in Nat
        BY <1>1
    <3> QED
        BY <1>1, <1>3, <2>2, <3>1
  <2> QED
      BY <1>1, <2>1, <2>2
<1> QED
    BY <1>2, <1>3 DEF q, r

-----------------------------------------------------------------------------
(* A function on 1 .. n is a sequence of length n.                        *)
LEMMA ArrayIsSeq ==
    ASSUME NEW n \in Nat, NEW S, NEW s \in [1 .. n -> S]
    PROVE  s \in Seq(S) /\ Len(s) = n
OBVIOUS

(* The unit at a position of a row of replies.                            *)
LEMMA ConcatType ==
    ASSUME NEW f \in Seq(Ids)
    PROVE  /\ Concat(f) \in Seq(Unit) /\ Len(Concat(f)) = ReplyLen * Len(f)
           /\ ReplyLen * Len(f) \in Nat
           /\ \A x \in Nat : x < ReplyLen * Len(f) =>
                /\ (x \div ReplyLen) + 1 \in 1 .. Len(f)
                /\ Concat(f)[x + 1] = <<f[(x \div ReplyLen) + 1], (x % ReplyLen) + 1>>
<1>1. Len(f) \in Nat /\ ReplyLen \in Nat \ {0} /\ ReplyLen * Len(f) \in Nat
    BY TemplatesOK
<1>2. ASSUME NEW x \in Nat, x < ReplyLen * Len(f)
      PROVE  (x \div ReplyLen) + 1 \in 1 .. Len(f) /\ (x % ReplyLen) + 1 \in 1 .. ReplyLen
  <2>1. x \div ReplyLen < Len(f) /\ x \div ReplyLen \in Nat /\ x % ReplyLen \in 0 .. ReplyLen - 1
      BY <1>1, <1>2, Division, DivisionOfLess
  <2> QED
      BY <1>1, <2>1
<1>3. ASSUME NEW k \in 1 .. ReplyLen * Len(f)
      PROVE  <<f[((k - 1) \div ReplyLen) + 1], ((k - 1) % ReplyLen) + 1>> \in Unit
  <2>1. k - 1 \in Nat /\ k - 1 < ReplyLen * Len(f)
      BY <1>1
  <2>2. ((k - 1) \div ReplyLen) + 1 \in 1 .. Len(f) /\ ((k - 1) % ReplyLen) + 1 \in 1 .. ReplyLen
      BY <1>2, <2>1
  <2>3. \A j \in 1 .. Len(f) : f[j] \in Ids
      OBVIOUS
  <2> QED
      BY <2>2, <2>3 DEF Unit
<1>4. Concat(f) \in [1 .. ReplyLen * Len(f) -> Unit]
    BY <1>3 DEF Concat
<1>5. Concat(f) \in Seq(Unit) /\ Len(Concat(f)) = ReplyLen * Len(f)
    BY <1>1, <1>4
<1>6. ASSUME NEW x \in Nat, x < ReplyLen * Len(f)
      PROVE  Concat(f)[x + 1] = <<f[(x \div ReplyLen) + 1], (x % ReplyLen) + 1>>
  <2>1. x + 1 \in 1 .. ReplyLen * Len(f) /\ (x + 1) - 1 = x
      BY <1>1, <1>6
  <2> QED
      BY <2>1 DEF Concat
<1> QED
    BY <1>1, <1>2, <1>5, <1>6

(* The replies on their way start with the first.                          *)
LEMMA ConcatHead ==
    ASSUME NEW f \in Seq(Ids), f # <<>>
    PROVE  Concat(f) = Units(Head(f)) \o Concat(Tail(f))
<1> DEFINE u == Units(Head(f))  t == Tail(f)  v == Concat(t)  R == ReplyLen
<1>1. /\ R \in Nat \ {0} /\ Len(f) \in Nat \ {0} /\ Head(f) = f[1] /\ Head(f) \in Ids
      /\ t \in Seq(Ids) /\ Len(t) = Len(f) - 1 /\ \A k \in 1 .. Len(t) : t[k] = f[k + 1]
    BY TemplatesOK, EmptySeq, HeadTailProperties
<1>2. u \in Seq(Unit) /\ Len(u) = R /\ \A k \in 1 .. R : u[k] = <<Head(f), k>>
    BY <1>1, UnitsType DEF Units
<1>3. v \in Seq(Unit) /\ Len(v) = R * Len(t) /\ R * Len(t) \in Nat
    BY <1>1, ConcatType
<1>4. Concat(f) \in Seq(Unit) /\ Len(Concat(f)) = R * Len(f)
    BY ConcatType
<1>5. R * Len(f) = R + R * Len(t)
    BY <1>1
<1>a. v = Concat(t) /\ u = Units(Head(f))
    OBVIOUS
<1> HIDE DEF u, v, t
<1>6. /\ u \o v \in Seq(Unit) /\ Len(u \o v) = R + R * Len(t)
      /\ \A k \in 1 .. R + R * Len(t) : (u \o v)[k] = IF k <= R THEN u[k] ELSE v[k - R]
  <2>1. /\ u \o v \in Seq(Unit) /\ Len(u \o v) = Len(u) + Len(v)
        /\ \A k \in 1 .. Len(u) + Len(v) :
             (u \o v)[k] = IF k <= Len(u) THEN u[k] ELSE v[k - Len(u)]
      BY <1>2, <1>3, ConcatProperties
  <2> QED
      BY <1>2, <1>3, <2>1
<1>7. ASSUME NEW k \in 1 .. R * Len(f)
      PROVE  Concat(f)[k] = (u \o v)[k]
  <2>1. CASE k <= R
    <3>1. k - 1 \in Nat /\ k - 1 < R /\ k - 1 < R * Len(f) /\ (k - 1) + 1 = k
        BY <1>1, <1>3, <1>5, <2>1
    <3>2. (k - 1) \div R = 0 /\ (k - 1) % R = k - 1
        BY <1>1, <3>1, DivisionOfLess
    <3>3. Concat(f)[(k - 1) + 1] = <<f[((k - 1) \div R) + 1], ((k - 1) % R) + 1>>
        BY <3>1, ConcatType
    <3>4. Concat(f)[k] = <<f[1], k>>
        BY <3>1, <3>2, <3>3
    <3>5. (u \o v)[k] = u[k] /\ k \in 1 .. R
        BY <1>1, <1>3, <1>5, <1>6, <2>1
    <3> QED
        BY <1>1, <1>2, <3>4, <3>5
  <2>2. CASE k > R
    <3> DEFINE x == (k - R) - 1
    <3>1. /\ x \in Nat /\ x < R * Len(t) /\ x + 1 = k - R /\ x + R = k - 1
          /\ k - 1 \in Nat /\ k - 1 < R * Len(f) /\ (k - 1) + 1 = k
        BY <1>1, <1>3, <1>5, <2>2
    <3> HIDE DEF x
    <3>2. /\ (x \div R) + 1 \in 1 .. Len(t)
          /\ v[x + 1] = <<t[(x \div R) + 1], (x % R) + 1>>
        BY <1>1, <1>a, <3>1, ConcatType
    <3>3. Concat(f)[(k - 1) + 1] = <<f[((k - 1) \div R) + 1], ((k - 1) % R) + 1>>
        BY <3>1, ConcatType
    <3>4. (k - 1) \div R = (x \div R) + 1 /\ (k - 1) % R = x % R
        BY <1>1, <3>1, DivisionByOneMore
    <3>5. t[(x \div R) + 1] = f[((x \div R) + 1) + 1]
        BY <1>1, <3>2
    <3>6. Concat(f)[k] = v[x + 1]
        BY <3>1, <3>2, <3>3, <3>4, <3>5
    <3>7. (u \o v)[k] = v[k - R]
        BY <1>1, <1>3, <1>5, <1>6, <2>2
    <3> QED
        BY <3>1, <3>6, <3>7
  <2>3. k <= R \/ k > R
      BY <1>1, <1>3, <1>5
  <2> QED
      BY Zenon, <2>1, <2>2, <2>3
<1>8. Concat(f) = u \o v
    BY <1>4, <1>5, <1>6, <1>7, SeqEqual
<1> QED
    BY <1>8, <1>a DEF t

(* A reply that is answered comes after them.                              *)
LEMMA ConcatAppend ==
    ASSUME NEW f \in Seq(Ids), NEW x \in Ids
    PROVE  \E u \in Seq(Unit) : Concat(Append(f, x)) = Concat(f) \o u
<1> DEFINE g == Append(f, x)  R == ReplyLen  n == R * Len(f)  s == Concat(g)
           u == SubSeq(s, n + 1, Len(s))
<1>1. /\ R \in Nat \ {0} /\ Len(f) \in Nat /\ g \in Seq(Ids) /\ Len(g) = Len(f) + 1
      /\ \A k \in 1 .. Len(f) : g[k] = f[k]
    BY TemplatesOK, AppendProperties
<1>2. /\ s \in Seq(Unit) /\ Len(s) = R * Len(g) /\ R * Len(g) \in Nat
      /\ Concat(f) \in Seq(Unit) /\ Len(Concat(f)) = n /\ n \in Nat
    BY <1>1, ConcatType
<1>3. n <= Len(s)
    BY <1>1, <1>2
<1>4. ASSUME NEW k \in 1 .. n
      PROVE  s[k] = Concat(f)[k]
  <2>1. k - 1 \in Nat /\ k - 1 < n /\ k - 1 < R * Len(g) /\ (k - 1) + 1 = k
      BY <1>2, <1>3
  <2>2. /\ Concat(f)[(k - 1) + 1] = <<f[((k - 1) \div R) + 1], ((k - 1) % R) + 1>>
        /\ ((k - 1) \div R) + 1 \in 1 .. Len(f)
      BY <2>1, ConcatType
  <2>3. s[(k - 1) + 1] = <<g[((k - 1) \div R) + 1], ((k - 1) % R) + 1>>
      BY <1>1, <2>1, ConcatType
  <2> QED
      BY <1>1, <2>1, <2>2, <2>3
<1> HIDE DEF s, n, g
<1>5. /\ u \in Seq(Unit) /\ Len(u) = Len(s) - n
      /\ \A j \in 1 .. Len(s) - n : u[j] = s[n + j]
  <2>1. u = [j \in 1 .. Len(s) - n |-> s[j + n]]
      BY <1>2, <1>3
  <2>2. \A j \in 1 .. Len(s) - n : s[j + n] \in Unit /\ j + n = n + j
      BY <1>2, <1>3
  <2>3. Len(s) - n \in Nat
      BY <1>2, <1>3
  <2>4. u \in [1 .. Len(s) - n -> Unit]
      BY <2>1, <2>2
  <2>5. u \in Seq(Unit) /\ Len(u) = Len(s) - n
      BY <2>3, <2>4, ArrayIsSeq
  <2>6. \A j \in 1 .. Len(s) - n : u[j] = s[n + j]
      BY <2>1, <2>2
  <2> QED
      BY <2>5, <2>6
<1> HIDE DEF u
<1>6. /\ Concat(f) \o u \in Seq(Unit) /\ Len(Concat(f) \o u) = Len(s)
      /\ \A k \in 1 .. Len(s) : (Concat(f) \o u)[k] = IF k <= n THEN Concat(f)[k] ELSE u[k - n]
  <2> DEFINE c == Concat(f)
  <2>1. /\ c \o u \in Seq(Unit) /\ Len(c \o u) = Len(c) + Len(u)
        /\ \A k \in 1 .. Len(c) + Len(u) :
              (c \o u)[k] = IF k <= Len(c) THEN c[k] ELSE u[k - Len(c)]
      BY <1>2, <1>5, ConcatProperties
  <2>2. Len(c) = n /\ n + (Len(s) - n) = Len(s)
      BY <1>2
  <2> HIDE DEF c
  <2>3. /\ c \o u \in Seq(Unit) /\ Len(c \o u) = Len(s)
        /\ \A k \in 1 .. Len(s) : (c \o u)[k] = IF k <= n THEN c[k] ELSE u[k - n]
      BY <1>5, <2>1, <2>2
  <2> QED
      BY <2>3 DEF c
<1>7. ASSUME NEW k \in 1 .. Len(s)
      PROVE  s[k] = (Concat(f) \o u)[k]
  <2>1. CASE k <= n
    <3>1. k \in 1 .. n
        BY <1>2, <2>1
    <3>2. (Concat(f) \o u)[k] = Concat(f)[k]
        BY <1>6, <2>1
    <3> QED
        BY <1>4, <3>1, <3>2
  <2>2. CASE k > n
    <3>1. (Concat(f) \o u)[k] = u[k - n] /\ k - n \in 1 .. Len(s) - n /\ n + (k - n) = k
        BY <1>2, <1>6, <2>2
    <3> QED
        BY <1>5, <3>1
  <2>3. k <= n \/ k > n
      BY <1>2
  <2> QED
      BY Zenon, <2>1, <2>2, <2>3
<1>8. s = Concat(f) \o u
    BY <1>2, <1>6, <1>7, SeqEqual
<1> QED
    BY <1>5, <1>8 DEF s, g

-----------------------------------------------------------------------------
(* The server's stream: what the client has, what the buffer has left, and  *)
(* the replies on their way.                                               *)
Sent(c) == toClient[c] \o buf[c] \o Concat(fromServer[c])

(* Joining sequences of units is associative.                             *)
LEMMA Joined ==
    \A s, t, u \in Seq(Unit) : s \o t \in Seq(Unit) /\ (s \o t) \o u = s \o (t \o u)
<1> TAKE s, t, u \in Seq(Unit)
<1>1. s \o t \in Seq(Unit)
    BY ConcatProperties
<1>2. (s \o t) \o u = s \o (t \o u)
    BY ConcatAssociative
<1> QED
    BY <1>1, <1>2

(* A stream is the start of what is added to it.                          *)
LEMMA StartOfConcat ==
    ASSUME NEW s \in Seq(Unit), NEW t \in Seq(Unit)
    PROVE  Stream!IsStartOf(s, s \o t)
<1>1. /\ s \o t \in Seq(Unit) /\ Len(s \o t) = Len(s) + Len(t) /\ Len(s) \in Nat /\ Len(t) \in Nat
      /\ \A k \in 1 .. Len(s) + Len(t) : (s \o t)[k] = IF k <= Len(s) THEN s[k] ELSE t[k - Len(s)]
    BY ConcatProperties
<1> DEFINE w == s \o t
<1> HIDE DEF w
<1>2. /\ w \in Seq(Unit) /\ Len(s) <= Len(w) /\ Len(w) \in Nat
      /\ \A k \in 1 .. Len(s) : w[k] = s[k]
    BY <1>1 DEF w
<1>3. SubSeq(w, 1, Len(s)) = [k \in 1 .. Len(s) |-> w[k]]
    BY <1>1, <1>2
<1>4. s = [k \in 1 .. Len(s) |-> s[k]]
    OBVIOUS
<1>5. SubSeq(w, 1, Len(s)) = s
    BY <1>2, <1>3, <1>4
<1> QED
    BY <1>2, <1>5 DEF Stream!IsStartOf, w

(* An answer is what the server writes: it goes to the end of the stream.   *)
LEMMA AnswerWrites ==
    ASSUME TypeOK, NEW c \in Conns, Answer(c)
    PROVE  Stream!IsStartOf(Sent(c), Sent(c)') /\ toClient' = toClient
<1> DEFINE f == fromServer[c]  w == toClient[c] \o buf[c]  i == Head(toServer[c])
<1>1. /\ f \in Seq(Ids) /\ toClient[c] \in Seq(Unit) /\ buf[c] \in Seq(Unit) /\ w \in Seq(Unit)
      /\ toServer[c] \in Seq(Ids) /\ toServer[c] # <<>>
    BY ConcatProperties DEF TypeOK, Answer
<1>2. i \in Ids /\ Concat(f) \in Seq(Unit)
    BY <1>1, TailIn, ConcatType
<1>3. /\ UNCHANGED <<toClient, buf>> /\ fromServer'[c] \in {f, Append(f, i)}
    BY TypeShaped DEF Answer, Put, Shaped, downVars
<1>4. PICK u \in Seq(Unit) : Concat(fromServer'[c]) = Concat(f) \o u
  <2>1. CASE fromServer'[c] = f
      BY <1>2, <2>1, ConcatEmptySeq, EmptySeq
  <2>2. CASE fromServer'[c] = Append(f, i)
      BY <1>1, <1>2, <2>2, ConcatAppend
  <2> QED
      BY <1>3, <2>1, <2>2
<1>5. w \o (Concat(f) \o u) = (w \o Concat(f)) \o u /\ w \o Concat(f) \in Seq(Unit)
    BY Zenon, <1>1, <1>2, Joined
<1>6. Stream!IsStartOf(w \o Concat(f), (w \o Concat(f)) \o u)
    BY <1>5, StartOfConcat
<1>7. Sent(c) = w \o Concat(f) /\ Sent(c)' = w \o (Concat(f) \o u)
    BY <1>3, <1>4 DEF Sent
<1> QED
    BY Zenon, <1>3, <1>5, <1>6, <1>7

(* The client is given the next units of a stream that stays as it is.     *)
Delivers(c) ==
    /\ Sent(c)' = Sent(c)
    /\ \E u, v \in Seq(Unit) :
         toClient'[c] = toClient[c] \o u /\ Sent(c) = (toClient[c] \o u) \o v

(* A write of the buffer's first units moves them within the stream.      *)
LEMMA DoleDelivers ==
    ASSUME TypeOK, NEW c \in Conns, NEW n \in 0 .. Len(buf[c]), Dole(c, n),
           fromServer' = fromServer
    PROVE  Delivers(c)
<1> DEFINE w == toClient[c]  b == buf[c]  u == SubSeq(b, 1, n)  v == SubSeq(b, n + 1, Len(b))
           r == Concat(fromServer[c])
<1>1. w \in Seq(Unit) /\ b \in Seq(Unit) /\ Len(b) \in Nat /\ fromServer[c] \in Seq(Ids)
    BY DEF TypeOK
<1>2. u \in Seq(Unit) /\ v \in Seq(Unit) /\ r \in Seq(Unit)
    BY <1>1, ConcatType
<1>3. u \o v = b
  <2>1. Len(u) = n /\ \A k \in 1 .. n : u[k] = b[k]
      BY <1>1
  <2>2. Len(v) = Len(b) - n /\ \A k \in 1 .. Len(b) - n : v[k] = b[n + k]
    <3>1. v = [k \in 1 .. Len(b) - n |-> b[k + n]]
        BY <1>1
    <3>2. Len(v) = Len(b) - n
        BY <1>1, <3>1
    <3>3. \A k \in 1 .. Len(b) - n : k + n = n + k
        BY <1>1
    <3> QED
        BY <3>1, <3>2, <3>3
  <2> HIDE DEF u, v, b
  <2>3. /\ u \o v \in Seq(Unit) /\ Len(u \o v) = Len(u) + Len(v)
        /\ \A k \in 1 .. Len(u) + Len(v) : (u \o v)[k] = IF k <= Len(u) THEN u[k] ELSE v[k - Len(u)]
      BY <1>2, ConcatProperties
  <2>4. Len(u \o v) = Len(b)
      BY <1>1, <2>1, <2>2, <2>3 DEF b
  <2>5. ASSUME NEW k \in 1 .. Len(b)
        PROVE  (u \o v)[k] = b[k]
    <3>1. n \in Nat /\ k \in 1 .. Len(u) + Len(v)
        BY <1>1, <2>3, <2>4 DEF b
    <3>2. CASE k <= n
        BY <2>1, <2>3, <3>1, <3>2
    <3>3. CASE k > n
      <4>1. k - n \in 1 .. Len(b) - n /\ n + (k - n) = k
          BY <1>1, <3>1, <3>3
      <4>2. (u \o v)[k] = v[k - n]
          BY <2>1, <2>3, <3>1, <3>3
      <4> QED
          BY <2>2, <4>1, <4>2
    <3>4. k <= n \/ k > n
        BY <3>1
    <3> QED
        BY Zenon, <3>2, <3>3, <3>4
  <2> QED
      BY <1>1, <2>3, <2>4, <2>5, SeqEqual
<1>4. toClient'[c] = w \o u /\ buf'[c] = v /\ fromServer'[c] = fromServer[c]
    BY TypeShaped DEF Dole, Shaped
<1> HIDE DEF u, v, b, w, r
<1>5. (w \o u) \o v = w \o b
  <2>1. (w \o u) \o v = w \o (u \o v)
      BY SMTT(20), <1>1, <1>2, Joined
  <2> QED
      BY <1>3, <2>1
<1>6. (w \o b) \o r = (w \o u) \o (v \o r) /\ v \o r \in Seq(Unit)
  <2>1. w \o u \in Seq(Unit) /\ v \o r \in Seq(Unit)
      BY <1>1, <1>2, ConcatProperties
  <2>2. ((w \o u) \o v) \o r = (w \o u) \o (v \o r)
      BY SMTT(20), <1>2, <2>1, ConcatAssociative
  <2> QED
      BY <1>5, <2>1, <2>2
<1>7. Sent(c) = (w \o b) \o r /\ Sent(c)' = ((w \o u) \o v) \o r
    BY Zenon, <1>4 DEF Sent, w, b, r
<1>8. toClient'[c] = toClient[c] \o u
    BY <1>4 DEF w
<1> QED
    BY <1>2, <1>5, <1>6, <1>7, <1>8 DEF Delivers, w

(* The next reply of the stream is given to the client as it is.           *)
LEMMA CopyDelivers ==
    ASSUME TypeOK, NEW c \in Conns, CopyRest(c), buf[c] = <<>>
    PROVE  Delivers(c)
<1> DEFINE w == toClient[c]  f == fromServer[c]  u == Units(Head(f))  v == Concat(Tail(f))
<1>1. w \in Seq(Unit) /\ f \in Seq(Ids) /\ f # <<>>
    BY DEF TypeOK, CopyRest
<1>2. Head(f) \in Ids /\ Tail(f) \in Seq(Ids)
    BY <1>1, TailIn
<1>3. u \in Seq(Unit) /\ v \in Seq(Unit) /\ Concat(f) = u \o v
    BY <1>1, <1>2, UnitsType, ConcatType, ConcatHead
<1>4. toClient'[c] = w \o u /\ buf'[c] = <<>> /\ fromServer'[c] = Tail(f)
    BY TypeShaped DEF CopyRest, Pop, Shaped, downVars
<1> HIDE DEF u, v
<1>5. w \o u \in Seq(Unit) /\ w \o (u \o v) = (w \o u) \o v
    BY Zenon, <1>1, <1>3, Joined
<1>6. w \o <<>> = w /\ (w \o u) \o <<>> = w \o u
    BY <1>1, <1>5, ConcatEmptySeq
<1>7. Sent(c) = w \o (u \o v) /\ Sent(c)' = (w \o u) \o v
  <2>1. Sent(c) = (w \o <<>>) \o (u \o v)
      BY Zenon, <1>3 DEF Sent
  <2>2. Sent(c)' = ((w \o u) \o <<>>) \o v
      BY Zenon, <1>4 DEF Sent, v
  <2> QED
      BY <1>6, <2>1, <2>2
<1> QED
    BY <1>3, <1>4, <1>5, <1>7 DEF Delivers

(* Reading a reply into the buffer moves it within the stream.             *)
LEMMA ReadKeepsSent ==
    ASSUME TypeOK, NEW c \in Conns, ReadReply(c), buf[c] = <<>>
    PROVE  Sent(c)' = Sent(c) /\ toClient' = toClient
<1> DEFINE w == toClient[c]  f == fromServer[c]  u == Units(Head(f))  v == Concat(Tail(f))
<1>1. w \in Seq(Unit) /\ f \in Seq(Ids) /\ f # <<>>
    BY DEF TypeOK, ReadReply
<1>2. Head(f) \in Ids /\ Tail(f) \in Seq(Ids)
    BY <1>1, TailIn
<1>3. u \in Seq(Unit) /\ v \in Seq(Unit) /\ Concat(f) = u \o v
    BY <1>1, <1>2, UnitsType, ConcatType, ConcatHead
<1>4. toClient' = toClient /\ buf'[c] = u /\ fromServer'[c] = Tail(f)
    BY TypeShaped DEF ReadReply, Pop, Shaped
<1> HIDE DEF u, v
<1>5. w \o (u \o v) = (w \o u) \o v
    BY Zenon, <1>1, <1>3, Joined
<1>a. w \o <<>> = w
    BY <1>1, ConcatEmptySeq
<1>6. Sent(c) = (w \o <<>>) \o (u \o v)
    BY Zenon, <1>3 DEF Sent
<1>7. Sent(c)' = (w \o u) \o v
    BY Zenon, <1>4 DEF Sent, v
<1> QED
    BY <1>4, <1>5, <1>a, <1>6, <1>7

(* A step writes to the stream, delivers from it, or leaves it alone.     *)
LEMMA StreamStep ==
    ASSUME TypeOK, ReplyInv, NEW c \in Conns, ConnStep(c)
    PROVE  \/ Stream!IsStartOf(Sent(c), Sent(c)') /\ toClient' = toClient
           \/ Delivers(c)
           \/ Sent(c)' = Sent(c) /\ toClient' = toClient
<1>a. Len(buf[c]) \in 0 .. Len(buf[c])
    BY DEF TypeOK
<1>1. CASE Answer(c)
    BY <1>1, AnswerWrites
<1>2. CASE ReadReply(c)
  <2>1. buf[c] = <<>>
      BY <1>2 DEF ReadReply, ReplyInv, ReplyOf
  <2> QED
      BY <1>2, <2>1, ReadKeepsSent
<1>3. CASE Take(c)
  <2>1. fromServer' = fromServer
      BY <1>3 DEF Take
  <2>2. CASE Dole(c, Len(buf[c]))
      BY <1>a, <2>1, <2>2, DoleDelivers
  <2>3. CASE UNCHANGED <<toClient, buf>>
      BY <2>1, <2>3 DEF Sent
  <2> QED
      BY <1>3, <2>2, <2>3 DEF Take
<1>4. CASE Perform(c)
  <2>1. fromServer' = fromServer
      BY <1>4 DEF Perform
  <2> QED
      BY <1>4, <2>1, PerformDoles, DoleDelivers
<1>5. CASE FinishActions(c)
  <2>1. fromServer' = fromServer /\ Dole(c, Len(buf[c]))
      BY <1>5 DEF FinishActions
  <2> QED
      BY <1>a, <2>1, DoleDelivers
<1>6. CASE CopyRest(c)
  <2>1. buf[c] = <<>>
      BY <1>6 DEF CopyRest, ReplyInv, ReplyOf
  <2> QED
      BY <1>6, <2>1, CopyDelivers
<1>7. CASE ~(Answer(c) \/ ReadReply(c) \/ Take(c) \/ Perform(c) \/ FinishActions(c) \/ CopyRest(c))
  <2>1. UNCHANGED <<toClient, buf, fromServer>>
      BY <1>7 DEF ConnStep, Send, CloseClient, Up, ReadRequest, WriteStripped, ReadFails, Down,
         Pause, ReturnDown, CloseServer, downVars
  <2> QED
      BY <2>1 DEF Sent
<1> QED
    BY <1>1, <1>2, <1>3, <1>4, <1>5, <1>6, <1>7

(* The replies doled out, forwarded and copied are one stream: the proxy    *)
(* implements BytePipe, from the server's writes to the client's reads.     *)
THEOREM OneStream == Spec => RepliesInOrder
<1> DEFINE sent == [c \in Conns |-> Sent(c)]
<1>1. Init => Stream!PipeInit
  <2> HAVE Init
  <2>1. Concat(<<>>) = <<>>
    <3>1. Len(<<>>) = 0 /\ ReplyLen * 0 = 0
        BY EmptySeq, TemplatesOK
    <3> QED
        BY <3>1 DEF Concat
  <2>2. <<>> \o <<>> \o <<>> = <<>>
      BY ConcatEmptySeq, EmptySeq
  <2> QED
      BY <2>1, <2>2 DEF Init, Stream!PipeInit
<1>2. ASSUME IInv, [Next]_vars
      PROVE  [\E c \in Conns : Stream!Write(c) \/ Stream!Deliver(c)]_<<sent, toClient>>
  <2>0. TypeOK /\ ReplyInv /\ Shaped
      BY <1>2, TypeShaped DEF IInv
  <2>1. CASE UNCHANGED vars
    <3>1. UNCHANGED <<toClient, buf, fromServer>>
        BY <2>1 DEF vars, downVars
    <3> QED
        BY <3>1 DEF Sent
  <2>2. ASSUME Next
        PROVE  [\E c \in Conns : Stream!Write(c) \/ Stream!Deliver(c)]_<<sent, toClient>>
    <3>1. PICK c \in Conns : ConnStep(c)
        BY Zenon, <2>2 DEF Next, ConnStep
    <3>2. \A g \in Conns \ {c} : Sent(g)' = Sent(g) /\ toClient'[g] = toClient[g]
        BY <2>0, <3>1, OthersKeep DEF Same, Sent
    <3>3. sent' = [sent EXCEPT ![c] = sent'[c]]
        BY <3>2
    <3>4. toClient' = [toClient EXCEPT ![c] = toClient'[c]]
      <4>1. toClient \in [Conns -> Seq(Unit)] /\ toClient' \in [Conns -> Seq(Unit)]
          BY <1>2, <2>2, NextInv DEF IInv, TypeOK
      <4> QED
          BY <3>2, <4>1
    <3>5. CASE Stream!IsStartOf(Sent(c), Sent(c)') /\ toClient' = toClient
        BY <3>3, <3>5 DEF Stream!Write, Sent
    <3>6. CASE Delivers(c)
      <4>1. PICK u \in Seq(Unit), v \in Seq(Unit) :
                   toClient'[c] = toClient[c] \o u /\ Sent(c) = (toClient[c] \o u) \o v
          BY <3>6 DEF Delivers
      <4>2. toClient[c] \in Seq(Unit) /\ toClient[c] \o u \in Seq(Unit)
          BY <2>0, ConcatProperties DEF TypeOK
      <4>3. Stream!IsStartOf(toClient[c], toClient'[c]) /\ Stream!IsStartOf(toClient'[c], Sent(c))
          BY <4>1, <4>2, StartOfConcat
      <4>4. sent' = sent
          BY <3>2, <3>6 DEF Delivers
      <4> QED
          BY <3>4, <4>3, <4>4 DEF Stream!Deliver, Sent
    <3>7. CASE Sent(c)' = Sent(c) /\ toClient' = toClient
        BY <3>2, <3>7
    <3> QED
        BY <2>0, <3>1, <3>5, <3>6, <3>7, StreamStep
  <2> QED
      BY <1>2, <2>1, <2>2
<1>3. sent = [c \in Conns |-> toClient[c] \o buf[c] \o Concat(fromServer[c])]
    BY DEF Sent
<1> QED
    BY <1>1, <1>2, Invariant, PTL DEF Spec, RepliesInOrder, Stream!PipeSpec, Sent
=============================================================================
