----------------------------- MODULE TunnelProofs -----------------------------
(* What holds of every tunnel, whatever fits into the sockets, however many *)
(* addresses are tried and however much is sent.                            *)
EXTENDS Tunnel, TLAPS

(* Nothing is lost or doubled, not even when the piping is over.           *)
Balance == \A s \in Sides : sent[s] = got[Peer(s)] + InTransit(s)

(* Only a TLS socket holds bytes of its own.                               *)
PendingInTls == ~proxy.tls => pending = 0

(* A tunnel that ended with the end of one side has emptied that side.     *)
EndedDry ==
    ended # "no" =>
        /\ pc = "done"
        /\ ended \in Sides => wire[ended] = 0 /\ hold = 0 /\ (ended = "client" => pending = 0)

(* A client that has to show a password and has not is in the dialogue.    *)
StrangerWaits ==
    proxy.auth /\ ~known =>
        /\ pc \in {"greeting", "password", "done"}
        /\ link = "none" /\ out["upstream"] = 0 /\ got["upstream"] = 0

IInv == TypeOK /\ Balance /\ PendingInTls /\ EndedDry /\ StrangerWaits

-----------------------------------------------------------------------------
(* A tunnel starts with nothing sent.                                      *)
LEMMA InitInv == Init => IInv
<1> SUFFICES ASSUME Init PROVE IInv
    OBVIOUS
<1> USE ProxiesOK DEF Init, Sides, Bytes
<1>1. TypeOK
  <2>1. /\ pc \in {"greeting", "request"} /\ left \in 0 .. Addresses
        /\ 0 \in 0 .. Chunk /\ 0 \in 0 .. Record /\ 0 \in Bytes
        /\ 0 \in 0 .. Capacity /\ 0 \in 0 .. Room
      OBVIOUS
  <2>2. /\ sent \in [Sides -> Bytes] /\ got \in [Sides -> Bytes]
        /\ wire \in [Sides -> 0 .. Capacity] /\ out \in [Sides -> 0 .. Room]
      BY <2>1
  <2>3. proxy \in Proxies /\ from \in Sides /\ ended = "no" /\ known \in BOOLEAN
      OBVIOUS
  <2> QED
      BY <2>1, <2>2, <2>3 DEF TypeOK
<1>2. Balance
    BY DEF Balance, InTransit, Peer
<1>3. PendingInTls /\ EndedDry
    BY DEF PendingInTls, EndedDry
<1>4. StrangerWaits
    BY DEF StrangerWaits, Proxy
<1> QED
    BY <1>1, <1>2, <1>3, <1>4 DEF IInv

-----------------------------------------------------------------------------
(* The dialogue moves no bytes: what it may disturb is the step it is at.   *)
LEMMA DialogueInv ==
    ASSUME IInv, Dialogue
    PROVE  IInv'
<1> USE DEF IInv
<1>1. UNCHANGED <<proxy, ready, from, hold, pending, wire, out, ends, ended>>
    BY DEF Dialogue, HangUp, RefuseMethods, Greet, CheckPassword, Ask, TryAddress, GiveUp,
           Accept, Refuse, Return, Continue, dialogue
<1>2. TypeOK'
  <2>1. /\ known' \in BOOLEAN /\ left' \in 0 .. Addresses
        /\ link' \in {"none", "closed", "open"} /\ reply' \in {"none", "refused", "success"}
    <3>1. CASE HangUp \/ RefuseMethods \/ Greet \/ CheckPassword \/ Ask \/ GiveUp \/ Accept
        BY <3>1 DEF HangUp, RefuseMethods, Greet, CheckPassword, Ask, GiveUp, Accept, Refuse,
           TypeOK, dialogue
    <3>2. CASE TryAddress
      <4>1. left \in 1 .. Addresses /\ Addresses \in Nat
          BY <3>2, ProxiesOK DEF TryAddress, TypeOK
      <4> QED
          BY <3>2, <4>1 DEF TryAddress, TypeOK
    <3> QED
        BY <3>1, <3>2 DEF Dialogue
  <2>2. /\ pc # "send" /\ pc # "done" /\ pc # "recv" /\ pc' # "recv"
        /\ pc' \in {"password", "request", "connect", "reply", "select", "done"}
      BY DEF Dialogue, HangUp, RefuseMethods, Greet, CheckPassword, Ask, TryAddress, GiveUp,
         Accept, Refuse, Return, Continue, Goto
  <2>3. ~(hold > 0)
      BY <2>2 DEF TypeOK
  <2> QED
      BY <1>1, <2>1, <2>2, <2>3 DEF TypeOK, ends
<1>3. Balance'
    BY <1>1 DEF Balance, InTransit, ends
<1>4. PendingInTls'
    BY <1>1 DEF PendingInTls
<1>5. EndedDry'
    BY <1>1 DEF Dialogue, HangUp, RefuseMethods, Greet, CheckPassword, Ask, TryAddress, GiveUp,
           Accept, Refuse, Return, Continue, Goto, EndedDry
<1>6. StrangerWaits'
    BY <1>1 DEF Dialogue, HangUp, RefuseMethods, Greet, CheckPassword, Ask, TryAddress, GiveUp,
           Accept, Refuse, Return, Continue, Goto, StrangerWaits, dialogue, ends, TypeOK
<1> QED
    BY <1>2, <1>3, <1>4, <1>5, <1>6

(* A tunnel that stops in error, or because there is nothing more of a side *)
(* to forward, leaves the bytes where they are.                             *)
LEMMA StopInv ==
    ASSUME IInv, NEW why \in {"error"} \cup Sides, Stop(why), UNCHANGED dialogue,
           why \in Sides =>
               wire[why] = 0 /\ hold = 0 /\ (why = "client" => pending = 0)
    PROVE  IInv'
<1> USE DEF IInv, Stop, Return, Goto, dialogue, ends
<1>1. TypeOK'
    BY DEF TypeOK
<1>2. Balance'
    BY DEF Balance, InTransit
<1>3. PendingInTls' /\ EndedDry'
    BY DEF PendingInTls, EndedDry
<1>4. StrangerWaits'
    BY DEF StrangerWaits
<1> QED
    BY <1>1, <1>2, <1>3, <1>4

(* select only looks.                                                      *)
LEMMA SelectInv ==
    ASSUME IInv, Select
    PROVE  IInv'
<1> USE DEF IInv, Select, Goto, dialogue, ends
<1>1. TypeOK'
    BY DEF TypeOK, Sides
<1>2. Balance'
    BY DEF Balance, InTransit
<1>3. PendingInTls' /\ EndedDry'
    BY DEF PendingInTls, EndedDry
<1>4. StrangerWaits'
    BY DEF StrangerWaits
<1> QED
    BY <1>1, <1>2, <1>3, <1>4

(* A recv is from one side that is ready: taken bytes leave the wire, n are  *)
(* handed to the thread, the rest stays inside TLS.                         *)
LEMMA RecvTakes ==
    ASSUME IInv, Recv
    PROVE  \E s \in ready, taken, n \in Nat :
              /\ taken <= wire[s] /\ n <= Chunk /\ hold = 0 /\ pc = "recv"
              /\ Wrapped(s) => pending + taken - n \in 0 .. Record
              /\ ~Wrapped(s) => taken = n
              /\ \/ /\ n = 0 /\ Stop(s)
                    /\ wire[s] = 0 /\ (s = "client" => pending = 0)
                 \/ /\ n > 0
                    /\ wire' = [wire EXCEPT ![s] = @ - taken]
                    /\ pending' = IF Wrapped(s) THEN pending + taken - n ELSE pending
                    /\ from' = s /\ hold' = n /\ ready' = ready \ {s} /\ pc' = "send"
                    /\ UNCHANGED <<ended, out, ends>>
<1> DEFINE s == Next1
           taken == IF ~Wrapped(s) THEN AtMost(Chunk, wire[s])
                    ELSE IF pending > 0 THEN 0 ELSE AtMost(Record, wire[s])
           n == IF Wrapped(s) THEN AtMost(Chunk, pending + taken) ELSE taken
<1>1. pc = "recv" /\ hold = 0 /\ s \in ready /\ s \in Sides
  <2>1. pc = "recv"
      BY Zenon DEF Recv
  <2>2. ready # {} /\ ready \subseteq {"client", "upstream"}
      BY <2>1 DEF IInv, TypeOK, Sides
  <2>3. hold \in 0 .. Chunk /\ ~(hold > 0) /\ Chunk \in Nat
      BY <2>1, ProxiesOK DEF IInv, TypeOK
  <2>4. hold = 0
      BY <2>3
  <2>5. s \in ready
      BY <2>2 DEF Next1
  <2> QED
      BY <2>1, <2>2, <2>4, <2>5 DEF Sides
<1>2. wire[s] \in Nat /\ wire[s] <= Capacity /\ pending \in Nat /\ pending <= Record
    BY <1>1, ProxiesOK DEF IInv, TypeOK
<1>3. Chunk \in Nat \ {0} /\ Record \in Nat \ {0}
    BY ProxiesOK
<1>4. /\ taken \in Nat /\ taken <= wire[s]
      /\ n \in Nat /\ n <= Chunk
      /\ Wrapped(s) => pending + taken - n \in 0 .. Record
      /\ ~Wrapped(s) => taken = n
    BY <1>2, <1>3 DEF AtMost
<1>5. n = 0 => wire[s] = 0 /\ (Wrapped(s) => pending = 0)
    BY <1>2, <1>3 DEF AtMost
<1>6. s = "client" /\ ~Wrapped(s) => pending = 0
    BY DEF IInv, PendingInTls, Wrapped
<1>7. \/ n = 0 /\ Stop(s)
      \/ /\ n > 0
         /\ wire' = [wire EXCEPT ![s] = @ - taken]
         /\ pending' = IF Wrapped(s) THEN pending + taken - n ELSE pending
         /\ from' = s /\ hold' = n /\ ready' = ready \ {s}
         /\ Goto("send")
         /\ UNCHANGED <<ended, out, ends>>
    BY Zenon DEF Recv
<1> HIDE DEF s, taken, n
<1> QED
    BY <1>1, <1>4, <1>5, <1>6, <1>7 DEF Goto

(* What recv takes from the socket, or from TLS, the thread holds.          *)
LEMMA RecvInv ==
    ASSUME IInv, Recv
    PROVE  IInv'
<1>1. PICK s \in ready, taken, n \in Nat :
          /\ taken <= wire[s] /\ n <= Chunk /\ hold = 0 /\ pc = "recv"
          /\ Wrapped(s) => pending + taken - n \in 0 .. Record
          /\ ~Wrapped(s) => taken = n
          /\ \/ /\ n = 0 /\ Stop(s)
                /\ wire[s] = 0 /\ (s = "client" => pending = 0)
             \/ /\ n > 0
                /\ wire' = [wire EXCEPT ![s] = @ - taken]
                /\ pending' = IF Wrapped(s) THEN pending + taken - n ELSE pending
                /\ from' = s /\ hold' = n /\ ready' = ready \ {s} /\ pc' = "send"
                /\ UNCHANGED <<ended, out, ends>>
    BY RecvTakes
<1>2. UNCHANGED dialogue /\ s \in Sides
    BY DEF Recv, IInv, TypeOK
<1>3. CASE n = 0
  <2>1. Stop(s) /\ wire[s] = 0 /\ (s = "client" => pending = 0)
      BY <1>1, <1>3
  <2>2. hold = 0
      BY <1>1
  <2> QED
      BY <1>2, <2>1, <2>2, StopInv
<1>4. CASE n > 0
  <2> USE <1>1, <1>2, <1>4 DEF IInv, dialogue, ends
  <2>0. /\ wire' = [wire EXCEPT ![s] = @ - taken]
        /\ pending' = IF Wrapped(s) THEN pending + taken - n ELSE pending
        /\ from' = s /\ hold' = n /\ ready' = ready \ {s} /\ pc' = "send"
        /\ UNCHANGED <<ended, out, ends, dialogue>>
      OBVIOUS
  <2>1. TypeOK'
    <3>1. wire' \in [Sides -> 0 .. Capacity]
        BY <2>0, ProxiesOK DEF TypeOK
    <3>2. pending' \in 0 .. Record /\ hold' \in 0 .. Chunk
        BY <2>0, ProxiesOK DEF TypeOK
    <3> QED
        BY <2>0, <3>1, <3>2 DEF TypeOK
  <2>2. Balance'
    <3>1. ASSUME NEW t \in Sides PROVE sent'[t] = got'[Peer(t)] + InTransit(t)'
      <4>1. sent[t] = got[Peer(t)] + InTransit(t) /\ Peer(t) \in Sides
          BY DEF Balance, Peer, Sides
      <4>2. /\ got[Peer(t)] \in Nat /\ out[Peer(t)] \in Nat /\ wire[t] \in Nat
            /\ sent[t] \in Nat /\ pending \in Nat
            /\ wire'[t] = IF t = s THEN wire[t] - taken ELSE wire[t]
          BY <2>0, <4>1, ProxiesOK DEF TypeOK, Bytes
      <4>3. CASE t = s
          BY <2>0, <4>1, <4>2, <4>3 DEF InTransit, Wrapped
      <4>4. CASE t # s
          BY <2>0, <4>1, <4>2, <4>4 DEF InTransit, Wrapped
      <4> QED
          BY <4>3, <4>4
    <3> QED
        BY <3>1 DEF Balance
  <2>3. PendingInTls'
      BY <2>0 DEF PendingInTls, Wrapped
  <2>4. EndedDry'
      BY <2>0 DEF EndedDry
  <2>5. StrangerWaits'
      BY <2>0 DEF StrangerWaits
  <2> QED
      BY <2>1, <2>2, <2>3, <2>4, <2>5
<1> QED
    BY <1>3, <1>4

(* What sendall gets rid of is in the peer's buffer.                        *)
LEMMA SendInv ==
    ASSUME IInv, Send
    PROVE  IInv'
<1> DEFINE to == Peer(from)
           n == AtMost(hold, Room - out[to])
<1> USE DEF IInv
<1>1. /\ pc = "send" /\ n > 0 /\ out' = [out EXCEPT ![to] = @ + n] /\ hold' = hold - n
      /\ pc' = IF hold = n THEN Sent ELSE "send"
      /\ UNCHANGED <<dialogue, ready, from, pending, ended, wire, ends>>
    BY DEF Send, Goto
<1>2. from \in Sides /\ to \in Sides /\ to # from /\ Peer(to) = from
    BY DEF TypeOK, Sides, Peer
<1>3. hold \in Nat /\ hold <= Chunk /\ out[to] \in Nat /\ out[to] <= Room
    BY <1>2, ProxiesOK DEF TypeOK
<1>4. n \in Nat /\ n <= hold /\ out[to] + n \in 0 .. Room
    BY <1>3, ProxiesOK DEF AtMost
<1> HIDE DEF to, n
<1> USE DEF dialogue, ends
<1>5. TypeOK'
  <2>1. out' \in [Sides -> 0 .. Room]
      BY <1>1, <1>2, <1>4 DEF TypeOK
  <2>2. hold' \in 0 .. Chunk /\ (hold' > 0 => pc' = "send")
      BY <1>1, <1>3, <1>4, ProxiesOK
  <2>3. pc' \in {"select", "recv", "send"} /\ (pc' = "recv" => ready' # {})
      BY <1>1 DEF Sent
  <2> QED
      BY <1>1, <2>1, <2>2, <2>3 DEF TypeOK
<1>6. Balance'
  <2>1. ASSUME NEW t \in Sides PROVE sent'[t] = got'[Peer(t)] + InTransit(t)'
    <3>1. sent[t] = got[Peer(t)] + InTransit(t) /\ Peer(t) \in Sides
        BY DEF Balance, Peer, Sides
    <3>2. /\ got[Peer(t)] \in Nat /\ out[Peer(t)] \in Nat /\ wire[t] \in Nat
          /\ sent[t] \in Nat /\ pending \in Nat
          /\ out'[Peer(t)] = IF t = from THEN out[Peer(t)] + n ELSE out[Peer(t)]
        BY <1>1, <1>2, <3>1, ProxiesOK DEF TypeOK, Bytes, Sides, Peer, to
    <3> QED
        BY <1>1, <1>3, <1>4, <3>1, <3>2 DEF InTransit
  <2> QED
      BY <2>1 DEF Balance
<1>7. PendingInTls' /\ EndedDry'
    BY <1>1 DEF PendingInTls, EndedDry
<1>8. StrangerWaits'
    BY <1>1 DEF StrangerWaits
<1> QED
    BY <1>5, <1>6, <1>7, <1>8

-----------------------------------------------------------------------------
(* A byte that is written is on the wire.                                  *)
LEMMA WriteInv ==
    ASSUME IInv, NEW s \in Sides, Write(s)
    PROVE  IInv'
<1> USE DEF IInv, Write, dialogue, ends
<1>1. TypeOK'
    BY ProxiesOK DEF TypeOK, Bytes
<1>2. Balance'
  <2>1. /\ sent \in [Sides -> Nat] /\ got \in [Sides -> Nat] /\ out \in [Sides -> Nat]
        /\ wire \in [Sides -> Nat] /\ hold \in Nat /\ pending \in Nat
      BY ProxiesOK DEF TypeOK, Bytes
  <2>2. ASSUME NEW t \in Sides PROVE sent'[t] = got'[Peer(t)] + InTransit(t)'
    <3>1. sent[t] = got[Peer(t)] + InTransit(t) /\ Peer(t) \in Sides
        BY DEF Balance, Peer, Sides
    <3> QED
        BY <2>1, <3>1 DEF InTransit
  <2> QED
      BY <2>2 DEF Balance
<1>3. PendingInTls' /\ EndedDry'
    BY DEF PendingInTls, EndedDry
<1>4. StrangerWaits'
    BY DEF StrangerWaits
<1> QED
    BY <1>1, <1>2, <1>3, <1>4

(* A byte that is read was in the buffer.                                  *)
LEMMA ReadInv ==
    ASSUME IInv, NEW s \in Sides, Read(s)
    PROVE  IInv'
<1> USE DEF IInv, Read, dialogue, ends
<1>1. /\ sent \in [Sides -> Nat] /\ got \in [Sides -> Nat] /\ out \in [Sides -> Nat]
      /\ wire \in [Sides -> Nat] /\ hold \in Nat /\ pending \in Nat
    BY ProxiesOK DEF TypeOK, Bytes
<1>2. got'[s] <= MaxBytes
  <2>1. Peer(s) \in Sides /\ Peer(Peer(s)) = s
      BY DEF Sides, Peer
  <2>2. sent[Peer(s)] = got[s] + InTransit(Peer(s)) /\ sent[Peer(s)] <= MaxBytes
      BY <2>1, ProxiesOK DEF Balance, TypeOK, Bytes
  <2>3. /\ got[s] \in Nat /\ out[s] \in Nat /\ out[s] > 0 /\ wire[Peer(s)] \in Nat
        /\ sent[Peer(s)] \in Nat /\ got'[s] = got[s] + 1 /\ MaxBytes \in Nat
      BY <1>1, <2>1, ProxiesOK
  <2>4. got[s] + out[s] <= sent[Peer(s)]
      BY <1>1, <2>1, <2>2, <2>3 DEF InTransit
  <2> QED
      BY <2>2, <2>3, <2>4
<1>3. TypeOK'
    BY <1>1, <1>2, ProxiesOK DEF TypeOK, Bytes
<1>4. Balance'
  <2>1. ASSUME NEW t \in Sides PROVE sent'[t] = got'[Peer(t)] + InTransit(t)'
    <3>1. sent[t] = got[Peer(t)] + InTransit(t) /\ Peer(t) \in Sides
        BY DEF Balance, Peer, Sides
    <3> QED
        BY <1>1, <3>1 DEF InTransit
  <2> QED
      BY <2>1 DEF Balance
<1>5. PendingInTls' /\ EndedDry'
    BY DEF PendingInTls, EndedDry
<1>6. StrangerWaits'
    BY <1>1 DEF StrangerWaits
<1> QED
    BY <1>3, <1>4, <1>5, <1>6

(* A close moves nothing.                                                  *)
LEMMA CloseInv ==
    ASSUME IInv, NEW s \in Sides, Close(s)
    PROVE  IInv'
<1> USE DEF IInv, Close, dialogue
<1>1. TypeOK'
    BY DEF TypeOK
<1>2. Balance'
    BY DEF Balance, InTransit
<1>3. PendingInTls' /\ EndedDry'
    BY DEF PendingInTls, EndedDry
<1>4. StrangerWaits'
    BY DEF StrangerWaits
<1> QED
    BY <1>1, <1>2, <1>3, <1>4

(* Every step keeps the invariant.                                         *)
LEMMA NextInv == IInv /\ [Next]_vars => IInv'
<1> SUFFICES ASSUME IInv, [Next]_vars PROVE IInv'
    OBVIOUS
<1>1. CASE Dialogue
    BY <1>1, DialogueInv
<1>2. CASE Select
    BY <1>2, SelectInv
<1>3. CASE Recv
    BY <1>3, RecvInv
<1>4. CASE Send
    BY <1>4, SendInv
<1>5. CASE SelectFails \/ RecvFails \/ SendFails \/ SendTimesOut
  <2>1. Stop("error") /\ UNCHANGED dialogue /\ "error" \notin Sides
      BY <1>5 DEF SelectFails, RecvFails, SendFails, SendTimesOut, Sides
  <2> QED
      BY <2>1, StopInv
<1>6. CASE \E s \in Sides : Write(s) \/ Read(s) \/ Close(s)
    BY <1>6, WriteInv, ReadInv, CloseInv
<1>7. CASE UNCHANGED vars
    BY <1>7 DEF vars, dialogue, ends, IInv, TypeOK, Balance, InTransit, PendingInTls, EndedDry,
                StrangerWaits
<1> QED
    BY <1>1, <1>2, <1>3, <1>4, <1>5, <1>6, <1>7 DEF Next, Piping

(* The inductive invariant holds of every behaviour.                       *)
LEMMA Invariant == Spec => []IInv
<1> QED
    BY InitInv, NextInv, PTL DEF Spec

-----------------------------------------------------------------------------
(* Every variable has its type: no buffer is overrun, no side reads more    *)
(* than was sent to it, recv is reached only with something to receive.     *)
THEOREM TypeCorrect == Spec => []TypeOK
<1>1. IInv => TypeOK
    BY DEF IInv
<1> QED
    BY <1>1, Invariant, PTL

(* raw_proxy and _tunnel neither lose nor repeat a byte.                    *)
THEOREM NoByteLost == Spec => []NothingLost
<1>1. IInv => NothingLost
    BY DEF IInv, Balance, NothingLost
<1> QED
    BY <1>1, Invariant, PTL

(* When the piping ends with the end of one side, the other side has been   *)
(* given all that side wrote.                                               *)
THEOREM LastWords == Spec => []LastWordsForwarded
<1>1. IInv => LastWordsForwarded
  <2> SUFFICES ASSUME IInv, ended \in Sides
               PROVE  sent[ended] = got[Peer(ended)] + out[Peer(ended)]
      BY DEF LastWordsForwarded
  <2>1. /\ wire[ended] = 0 /\ hold = 0 /\ (ended = "client" => pending = 0)
        /\ sent[ended] = got[Peer(ended)] + InTransit(ended)
      BY DEF IInv, EndedDry, Balance, Sides
  <2>2. out[Peer(ended)] \in Nat
      BY ProxiesOK DEF IInv, TypeOK, Peer, Sides
  <2> QED
      BY <2>1, <2>2 DEF InTransit
<1> QED
    BY <1>1, Invariant, PTL

(* With a password set, nothing reaches a target for a client that has not  *)
(* shown it.                                                                *)
THEOREM Guarded == Spec => []OnlyForTheKnown
<1>1. IInv => OnlyForTheKnown
    BY DEF IInv, StrangerWaits, OnlyForTheKnown
<1> QED
    BY <1>1, Invariant, PTL
=============================================================================
