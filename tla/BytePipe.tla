------------------------------ MODULE BytePipe ------------------------------
(***************************************************************************)
(* A one-way byte stream per connection: what was delivered is always a     *)
(* prefix of what was sent, both only grow, and nothing is lost, repeated   *)
(* or reordered.  The proxies of this repository promise it per direction.  *)
(***************************************************************************)
EXTENDS Integers, Sequences

CONSTANT Pipes

VARIABLES sent,      (* [Pipes -> Seq(byte)]: what the sender wrote        *)
          delivered  (* [Pipes -> Seq(byte)]: what the receiver was given  *)

IsStartOf(s, t) == Len(s) <= Len(t) /\ SubSeq(t, 1, Len(s)) = s

PipeInit == sent = [c \in Pipes |-> <<>>] /\ delivered = sent

Write(c) ==
    /\ IsStartOf(sent[c], sent'[c])
    /\ sent' = [sent EXCEPT ![c] = sent'[c]]
    /\ UNCHANGED delivered

Deliver(c) ==
    /\ IsStartOf(delivered[c], delivered'[c])
    /\ IsStartOf(delivered'[c], sent[c])
    /\ delivered' = [delivered EXCEPT ![c] = delivered'[c]]
    /\ UNCHANGED sent

PipeSpec == PipeInit /\ [][\E c \in Pipes : Write(c) \/ Deliver(c)]_<<sent, delivered>>
=============================================================================
