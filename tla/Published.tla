------------------------------ MODULE Published ------------------------------
(***************************************************************************)
(* What the orchestration promises to whoever reads uri.txt: a deployment   *)
(* was completely up when its uri appeared, a uri is withdrawn before the    *)
(* next one appears, and while the deployment that uri.txt names is up       *)
(* nothing comes up beside it.                                              *)
(***************************************************************************)
CONSTANT Deployments

VARIABLES published,     (* the set of the deployments uri.txt names: at    *)
                         (* most one                                       *)
          up             (* the deployments that are completely up         *)

Init == published = {} /\ up = {}

Change ==
    /\ up' \in SUBSET Deployments
    /\ published \cap up' # {} => up' \subseteq up
    /\ UNCHANGED published

Withdraw ==
    /\ published' = {}
    /\ UNCHANGED up

Publish(d) ==
    /\ published = {}
    /\ d \in up
    /\ published' = {d}
    /\ UNCHANGED up

Next == Change \/ Withdraw \/ \E d \in Deployments : Publish(d)

Spec == Init /\ [][Next]_<<published, up>>
=============================================================================
