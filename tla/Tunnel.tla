-------------------------------- MODULE Tunnel --------------------------------
(***************************************************************************)
(* One connection through the SOCKS5 proxy (socks5srv.py) or through the    *)
(* CONNECT method of the KMS proxy (csfle/kms_http_proxy.py): a dialogue    *)
(* with the client, a connection to its target, then one thread that pipes  *)
(* bytes both ways with select, recv and a blocking sendall.                *)
(*                                                                         *)
(* Bytes are counted: the thread moves them in order or not at all.  A      *)
(* socket holds Capacity bytes that were received and Room bytes to be sent, *)
(* a recv returns at most Chunk, and a TLS record, which is decrypted as a   *)
(* whole, has at most Record.                                               *)
(***************************************************************************)
EXTENDS Integers

CONSTANTS Proxies,    (* the proxies a connection may go through           *)
          Chunk, Record, Capacity, Room,
          Addresses,  (* bound: addresses the target resolves to           *)
          MaxBytes    (* bound: bytes each side sends                      *)

(* auth: --auth is given; tls: the client's socket is wrapped in TLS.      *)
Proxy == [kind : {"socks5", "connect"}, auth : BOOLEAN, tls : BOOLEAN]

ASSUME ProxiesOK ==
    /\ Proxies \subseteq Proxy /\ Proxies # {}
    /\ \A x \in Proxies : (x.kind = "socks5" => ~x.tls) /\ (x.kind = "connect" => ~x.auth)
    /\ Chunk \in Nat \ {0} /\ Record \in Nat \ {0} /\ Capacity \in Nat \ {0}
    /\ Room \in Nat \ {0}
    /\ Addresses \in Nat /\ MaxBytes \in Nat

VARIABLES
    proxy,    (* the proxy                                                 *)
    pc,       (* the thread's next step                                    *)
    known,    (* the client has shown the right password                   *)
    left,     (* the addresses not yet tried                               *)
    link,     (* the upstream socket: "none", "closed" or "open"           *)
    reply,    (* what the client was told                                  *)
    ready,    (* what select returned and is not handled yet               *)
    from,     (* the side whose bytes are being forwarded                  *)
    hold,     (* bytes received and not yet written                        *)
    pending,  (* the client's bytes that are decrypted but not received    *)
    ended,    (* why the piping ended                                      *)
    sent,     (* [Sides -> bytes that side wrote]                          *)
    wire,     (* [Sides -> bytes from that side in the proxy's socket]     *)
    out,      (* [Sides -> bytes written to that side, not read by it yet] *)
    got,      (* [Sides -> bytes that side read]                           *)
    fin,      (* the sides that have closed their writing end              *)
    gone      (* the sides that have closed altogether                     *)

Sides == {"client", "upstream"}
Peer(s) == IF s = "client" THEN "upstream" ELSE "client"

dialogue == <<proxy, known, left, link, reply>>
ends == <<sent, got, fin, gone>>
vars == <<dialogue, pc, ready, from, hold, pending, ended, wire, out, ends>>

AtMost(n, m) == IF n < m THEN n ELSE m
Bytes == 0 .. MaxBytes

TypeOK ==
    /\ proxy \in Proxies
    /\ pc \in {"greeting", "password", "request", "connect", "reply", "select", "recv",
               "send", "done"}
    /\ known \in BOOLEAN /\ left \in 0 .. Addresses
    /\ link \in {"none", "closed", "open"} /\ reply \in {"none", "refused", "success"}
    /\ ready \in SUBSET Sides /\ (pc = "recv" => ready # {})
    /\ from \in Sides /\ hold \in 0 .. Chunk /\ (hold > 0 => pc \in {"send", "done"})
    /\ pending \in 0 .. Record
    /\ ended \in {"no", "error"} \cup Sides
    /\ sent \in [Sides -> Bytes] /\ got \in [Sides -> Bytes]
    /\ wire \in [Sides -> 0 .. Capacity] /\ out \in [Sides -> 0 .. Room]
    /\ gone \subseteq fin /\ fin \subseteq Sides

Init ==
    /\ proxy \in Proxies
    /\ pc = IF proxy.kind = "socks5" THEN "greeting" ELSE "request"
    /\ known = FALSE /\ left \in 0 .. Addresses
    /\ link = "none" /\ reply = "none"
    /\ ready = {} /\ from = "client" /\ hold = 0 /\ pending = 0 /\ ended = "no"
    /\ sent = [s \in Sides |-> 0] /\ got = sent /\ wire = sent /\ out = sent
    /\ fin = {} /\ gone = {}

-----------------------------------------------------------------------------
(* The dialogue.                                                           *)

Goto(step) == pc' = step
Return == Goto("done") /\ UNCHANGED <<ready, from, hold, pending, wire, out, ends>>
Continue(step) ==
    Goto(step) /\ UNCHANGED <<ready, from, hold, pending, ended, wire, out, ends>>
Refuse == Return /\ reply' = "refused" /\ UNCHANGED ended

(* A client that closes, or says anything the proxy does not understand; in  *)
(* socks5srv also a name that does not resolve, which raises.               *)
HangUp ==
    /\ \/ pc \in {"greeting", "password", "request"}
       \/ pc = "connect" /\ proxy.kind = "socks5" /\ link = "none" /\ left = 0
    /\ Return
    /\ UNCHANGED <<dialogue, ended>>

(* The client offers no method that is acceptable.                         *)
RefuseMethods ==
    /\ pc = "greeting"
    /\ Refuse
    /\ UNCHANGED <<proxy, known, left, link>>

(* Mutant: the method that was chosen is not followed.                     *)
GreetWithoutPassword ==
    /\ pc = "greeting"
    /\ Continue("request")
    /\ UNCHANGED dialogue

Greet ==
    /\ pc = "greeting"
    /\ Continue(IF proxy.auth THEN "password" ELSE "request")
    /\ UNCHANGED dialogue

CheckPassword ==
    /\ pc = "password"
    /\ known' = TRUE
    /\ Continue("request")
    /\ UNCHANGED <<proxy, left, link, reply>>

(* A CONNECT target that is not host:port is answered.                     *)
Ask ==
    /\ pc = "request"
    /\ \/ Continue("connect") /\ UNCHANGED reply
       \/ proxy.kind = "connect" /\ Refuse
    /\ UNCHANGED <<proxy, known, left, link>>

(* The addresses are tried in turn; each attempt leaves its own socket.    *)
TryAddress ==
    /\ pc = "connect"
    /\ left > 0
    /\ \/ link' = "open" /\ left' = 0 /\ Continue("reply")
       \/ /\ link' \in {"closed", link} /\ left' = left - 1
          /\ Continue("connect")
    /\ UNCHANGED <<proxy, known, reply>>

(* socks5srv returns the last socket it made, even a closed one.           *)
GiveUp ==
    /\ pc = "connect"
    /\ left = 0
    /\ IF proxy.kind = "socks5" /\ link = "closed"
       THEN Continue("reply") /\ UNCHANGED reply
       ELSE Refuse
    /\ UNCHANGED <<proxy, known, left, link>>

Accept ==
    /\ pc = "reply"
    /\ reply' = "success"
    /\ Continue("select")
    /\ UNCHANGED <<proxy, known, left, link>>

Dialogue ==
    HangUp \/ RefuseMethods \/ Greet \/ CheckPassword \/ Ask \/ TryAddress \/ GiveUp \/ Accept

-----------------------------------------------------------------------------
(* raw_proxy and _tunnel.                                                  *)

Stop(why) == ended' = why /\ Return

(* The kernel does not know of bytes that TLS has already taken from it.   *)
Readable(s) == wire[s] > 0 \/ s \in fin

Select ==
    /\ pc = "select"
    /\ link = "open"
    /\ ready' = {s \in Sides : Readable(s)}
    /\ ready' # {}
    /\ Goto("recv")
    /\ UNCHANGED <<dialogue, from, hold, pending, ended, wire, out, ends>>

(* select() on a closed socket raises.                                     *)
SelectFails ==
    /\ pc = "select"
    /\ link = "closed"
    /\ Stop("error")
    /\ UNCHANGED dialogue

Next1 == IF "client" \in ready THEN "client" ELSE "upstream"
Wrapped(s) == proxy.tls /\ s = "client"

(* Mutant: a record is received as a whole.                                *)
RecvRecord ==
    LET s == Next1
        taken == AtMost(Record, wire[s])
    IN /\ pc = "recv"
       /\ \/ taken = 0 /\ Stop(s)
          \/ /\ taken > 0
             /\ wire' = [wire EXCEPT ![s] = @ - taken]
             /\ from' = s /\ hold' = taken /\ ready' = ready \ {s}
             /\ Goto("send")
             /\ UNCHANGED <<pending, ended, out, ends>>
       /\ UNCHANGED dialogue

(* Mutant: a side that has closed is not read from any more.               *)
RecvUnlessClosed ==
    LET s == Next1
        n == AtMost(Chunk, wire[s])
    IN /\ pc = "recv"
       /\ \/ s \in fin /\ Stop(s)
          \/ /\ s \notin fin
             /\ wire' = [wire EXCEPT ![s] = @ - n]
             /\ from' = s /\ hold' = n /\ ready' = ready \ {s}
             /\ Goto("send")
             /\ UNCHANGED <<pending, ended, out, ends>>
       /\ UNCHANGED dialogue

(* An empty recv is the end; a TLS socket takes a record when it has none.  *)
Recv ==
    LET s == Next1
        taken == IF ~Wrapped(s) THEN AtMost(Chunk, wire[s])
                 ELSE IF pending > 0 THEN 0 ELSE AtMost(Record, wire[s])
        n == IF Wrapped(s) THEN AtMost(Chunk, pending + taken) ELSE taken
    IN /\ pc = "recv"
       /\ \/ n = 0 /\ Stop(s)
          \/ /\ n > 0
             /\ wire' = [wire EXCEPT ![s] = @ - taken]
             /\ pending' = IF Wrapped(s) THEN pending + taken - n ELSE pending
             /\ from' = s /\ hold' = n /\ ready' = ready \ {s}
             /\ Goto("send")
             /\ UNCHANGED <<ended, out, ends>>
       /\ UNCHANGED dialogue

(* recv from an end that has gone may raise, whatever it wrote before.      *)
RecvFails ==
    /\ pc = "recv" /\ Next1 \in gone
    /\ Stop("error")
    /\ UNCHANGED dialogue

Sent == IF ready = {} THEN "select" ELSE "recv"

(* Mutant: send for sendall: what does not fit is forgotten.               *)
SendOnce ==
    LET to == Peer(from)
        n == AtMost(hold, Room - out[to])
    IN /\ pc = "send" /\ to \notin gone
       /\ n > 0
       /\ out' = [out EXCEPT ![to] = @ + n]
       /\ hold' = 0
       /\ Goto(Sent)
       /\ UNCHANGED <<dialogue, ready, from, pending, ended, wire, ends>>

(* sendall: as much as fits, until nothing is left.                        *)
Send ==
    LET to == Peer(from)
        n == AtMost(hold, Room - out[to])
    IN /\ pc = "send" /\ to \notin gone
       /\ n > 0
       /\ out' = [out EXCEPT ![to] = @ + n]
       /\ hold' = hold - n
       /\ Goto(IF hold = n THEN Sent ELSE "send")
       /\ UNCHANGED <<dialogue, ready, from, pending, ended, wire, ends>>

SendFails ==
    /\ pc = "send" /\ Peer(from) \in gone
    /\ Stop("error")
    /\ UNCHANGED dialogue

(* create_connection's ten seconds stay with the upstream socket.          *)
SendTimesOut ==
    /\ pc = "send" /\ proxy.kind = "connect"
    /\ from = "client" /\ out["upstream"] = Room
    /\ Stop("error")
    /\ UNCHANGED dialogue

Piping == Select \/ SelectFails \/ Recv \/ RecvFails \/ Send \/ SendFails \/ SendTimesOut

-----------------------------------------------------------------------------
(* The two ends.                                                           *)

Talking(s) == IF s = "client" THEN reply = "success" ELSE link = "open"

Write(s) ==
    /\ Talking(s) /\ pc # "done" /\ s \notin fin
    /\ sent[s] < MaxBytes /\ wire[s] < Capacity
    /\ sent' = [sent EXCEPT ![s] = @ + 1]
    /\ wire' = [wire EXCEPT ![s] = @ + 1]
    /\ UNCHANGED <<dialogue, pc, ready, from, hold, pending, ended, out, got, fin, gone>>

Read(s) ==
    /\ out[s] > 0 /\ s \notin gone
    /\ out' = [out EXCEPT ![s] = @ - 1]
    /\ got' = [got EXCEPT ![s] = @ + 1]
    /\ UNCHANGED <<dialogue, pc, ready, from, hold, pending, ended, wire, sent, fin, gone>>

(* shutdown of the writing end, or close.                                  *)
Close(s) ==
    /\ Talking(s) /\ s \notin gone
    /\ fin' = fin \cup {s}
    /\ \/ s \notin fin /\ UNCHANGED gone
       \/ gone' = gone \cup {s}
    /\ UNCHANGED <<dialogue, pc, ready, from, hold, pending, ended, wire, out, sent, got>>

Next ==
    \/ Dialogue \/ Piping
    \/ \E s \in Sides : Write(s) \/ Read(s) \/ Close(s)

(* The thread runs, and an end that is there reads what it was sent; nobody *)
(* has to write or to close, and no write has to time out.                  *)
Fairness ==
    /\ WF_vars(Dialogue)
    /\ WF_vars(Select \/ SelectFails \/ Recv \/ RecvFails \/ Send \/ SendFails)
    /\ \A s \in Sides : WF_vars(Read(s))

Spec == Init /\ [][Next]_vars
FairSpec == Spec /\ Fairness

-----------------------------------------------------------------------------
(* While the piping goes on every byte is somewhere: nothing is dropped or  *)
(* doubled between the two sockets, however the reads, the writes and the   *)
(* closes of the ends interleave and however little fits.                   *)
InTransit(s) ==
    wire[s] + out[Peer(s)] + (IF from = s THEN hold ELSE 0)
            + (IF s = "client" THEN pending ELSE 0)

NothingLost ==
    pc # "done" => \A s \in Sides : sent[s] = got[Peer(s)] + InTransit(s)

(* When the piping ends because one side has closed, the other side was     *)
(* given everything the first one wrote before.                             *)
LastWordsForwarded ==
    ended \in Sides => sent[ended] = got[Peer(ended)] + out[Peer(ended)]

(* With --auth nothing is sent to a target, nor is it connected to, for a   *)
(* client that has not shown the password.                                  *)
OnlyForTheKnown ==
    proxy.auth /\ ~known => link = "none" /\ out["upstream"] + got["upstream"] = 0

(* "Pipe bytes between two sockets until either side closes": every byte a   *)
(* side has written gets to the other side unless one of them closes or the *)
(* tunnel ends because a write timed out or failed; but not a byte that      *)
(* waits decrypted in the client's TLS socket, of which select knows nothing. *)
Arrives(s, n) == got[Peer(s)] >= n \/ fin # {} \/ pc = "done"
DeliveredUnlessBuffered ==
    \A s \in Sides, n \in 1 .. MaxBytes :
        sent[s] >= n ~> Arrives(s, n) \/ (s = "client" /\ pending > 0)
=============================================================================
