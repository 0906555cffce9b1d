--------------------------- MODULE CachedDownload ---------------------------
(***************************************************************************)
(* What the callers of Cache.download_file may rely on, with no cache in    *)
(* sight: a call for a url that returns hands over a file holding one       *)
(* whole version of that url, no older than the version the server had      *)
(* when the call began, and the file stays as it is for as long as the      *)
(* caller uses it.  A call may also fail.                                   *)
(***************************************************************************)
EXTENDS Integers

CONSTANTS Clients,    (* the callers of download_file                      *)
          Resources,  (* the urls they ask for                             *)
          MaxVersion  (* bound on the versions the server publishes        *)

VARIABLES current,    (* the version the server has of each url            *)
          status,     (* where each client stands                          *)
          asked,      (* the url of the client's last call                 *)
          floor,      (* the server's version when that call began         *)
          answer      (* the version handed over, 0 when there is none     *)

absVars == <<current, status, asked, floor, answer>>

AbsInit ==
    /\ current = [u \in Resources |-> 1]
    /\ status = [c \in Clients |-> "away"]
    /\ asked \in [Clients -> Resources]
    /\ floor = [c \in Clients |-> 0]
    /\ answer = [c \in Clients |-> 0]

Release(u) ==
    /\ current[u] < MaxVersion
    /\ current' = [current EXCEPT ![u] = @ + 1]
    /\ UNCHANGED <<status, asked, floor, answer>>

(* A client without a call in progress picks the url it will ask for next. *)
Choose(c) ==
    /\ status[c] = "away"
    /\ \E u \in Resources : asked' = [asked EXCEPT ![c] = u]
    /\ UNCHANGED <<current, status, floor, answer>>

Call(c) ==
    /\ status[c] = "away"
    /\ status' = [status EXCEPT ![c] = "calling"]
    /\ floor' = [floor EXCEPT ![c] = current[asked[c]]]
    /\ UNCHANGED <<current, asked, answer>>

Return(c) ==
    /\ status[c] = "calling"
    /\ status' = [status EXCEPT ![c] = "using"]
    /\ \E v \in floor[c] .. current[asked[c]] : answer' = [answer EXCEPT ![c] = v]
    /\ UNCHANGED <<current, asked, floor>>

(* The call failed, or the caller is done with the file.                   *)
Leave(c) ==
    /\ status[c] # "away"
    /\ status' = [status EXCEPT ![c] = "away"]
    /\ floor' = [floor EXCEPT ![c] = 0]
    /\ answer' = [answer EXCEPT ![c] = 0]
    /\ UNCHANGED <<current, asked>>

AbsNext ==
    \/ \E u \in Resources : Release(u)
    \/ \E c \in Clients : Choose(c) \/ Call(c) \/ Return(c) \/ Leave(c)

AbsSpec == AbsInit /\ [][AbsNext]_absVars
=============================================================================
