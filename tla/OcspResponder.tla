--------------------------- MODULE OcspResponder ---------------------------
(***************************************************************************)
(* The mock OCSP responder, from a parsed request to the response it signs.  *)
(*                                                                          *)
(* A request is [serials, extensions, hash]; an extension is [id, critical,  *)
(* value].  server is what setup.sh starts: [fault, delegate, seconds], the  *)
(* responder signing with the CA's key or with a delegate's.  The clock      *)
(* counts half seconds: responses hold whole seconds.                        *)
(***************************************************************************)
EXTENDS Integers, Sequences, FiniteSetsExt

(* setup.sh: SERVER_TYPE.                                                   *)
ServerOf(type) ==
    [fault |-> IF type \in {"revoked", "revoked-delegate"} THEN "revoked" ELSE "none",
     delegate |-> type \in {"valid-delegate", "revoked-delegate"}]

Seconds(time) == time \div 2

Validate(server) == CASE server.fault = "none" -> "good" [] OTHER -> server.fault

Error(status) == [status |-> status]

(* Extensions are read in their order, up to the first that is not known and *)
(* critical; the last nonce is kept.                                        *)
UnknownCritical(ext) == ext.id # "nonce" /\ ext.critical
Nonces(exts) == {i \in DOMAIN exts : exts[i].id = "nonce"}
NonceOf(exts) == IF Nonces(exts) = {} THEN "" ELSE exts[Max(Nonces(exts))].value

(* Mutant: the delegate's certificate is left out.                          *)
NoCerts(server) == {}
(* The certificate that signed is sent along unless it is the issuer's.     *)
Certs(server) == IF server.delegate THEN {"delegate"} ELSE {}

CertStatus(status) ==
    IF status \in {"good", "unknown"} THEN [name |-> status]
    ELSE [name |-> "revoked", reason |-> IF status = "revoked" THEN "unspecified" ELSE status]

(* OCSPResponseBuilder.build; the response is made at "at" and was begun at  *)
(* "from".                                                                  *)
Build(serial, status, nonce, server, from, at) ==
    [status |-> "successful",
     certId |-> [hash |-> "sha1", issuer |-> "CA", serial |-> serial],
     certStatus |-> CertStatus(status),
     responder |-> IF server.delegate THEN "delegate" ELSE "CA",
     signedBy |-> IF server.delegate THEN "delegate" ELSE "CA",
     certs |-> Certs(server),
     nonce |-> nonce,
     producedAt |-> Seconds(at), thisUpdate |-> Seconds(at),
     nextUpdate |-> Seconds(from + 2 * server.seconds)]

BuildOcspResponse(request, server, from, at) ==
    IF request.serials = <<>> THEN Error("exception")
    ELSE IF \E i \in DOMAIN request.extensions : UnknownCritical(request.extensions[i])
    THEN Error("internal_error")
    ELSE Build(request.serials[1], Validate(server), NonceOf(request.extensions),
               server, from, at)

(* The two routes: GET with the request in the path, POST with it in the    *)
(* body; a request without a Host header is an error of the server's.       *)
Handle(request, server, from, at) ==
    IF ~request.host THEN Error("exception")
    ELSE BuildOcspResponse(request, server, from, at)
=============================================================================
