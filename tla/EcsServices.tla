---------------------------- MODULE EcsServices -----------------------------
(***************************************************************************)
(* container_tester.py: every host collects the services that are too old   *)
(* on the cluster all hosts share, starts a service of its own, runs the    *)
(* test in it and stops it.  Each action is one call of the ECS API, of its *)
(* waiter, or of ssh.  Service names are uuids: a name is used again here   *)
(* only when nobody remembers it.                                           *)
(***************************************************************************)
EXTENDS AwsHosts, FiniteSets

CONSTANTS Names,       (* the names of services                            *)
          NoName,
          Threshold,   (* DEFAULT_GARBAGE_COLLECTION_THRESHOLD             *)
          PageSize     (* a page of list_services has as many at least     *)
                       (* when there are more                              *)

ASSUME ThresholdOK == Threshold \in Nat /\ PageSize \in Nat \ {0} /\ NoName \notin Names

VARIABLES status,   (* [Names -> {"absent", "active", "draining"}]         *)
          age,      (* [Names -> 0 .. Threshold + 1]: capped               *)
          sweep,    (* [Hosts -> SUBSET Names]: listed, then expired ones  *)
          at,       (* [Hosts -> Names and NoName]: what a host works on   *)
          passed    (* [Hosts -> BOOLEAN]: what the test said              *)

ecsVars == <<status, age, sweep, at, passed>>

EcsTypeOK ==
    /\ status \in [Names -> {"absent", "active", "draining"}]
    /\ age \in [Names -> 0 .. Threshold + 1]
    /\ sweep \in [Hosts -> SUBSET Names]
    /\ at \in [Hosts -> Names \cup {NoName}]
    /\ passed \in [Hosts -> BOOLEAN]

EcsInit ==
    /\ status = [s \in Names |-> "absent"]
    /\ age = [s \in Names |-> 0]
    /\ sweep = [h \in Hosts |-> {}]
    /\ at = [h \in Hosts |-> NoName]
    /\ passed = [h \in Hosts |-> FALSE]

Live == {s \in Names : status[s] # "absent"}
Expired(s) == age[s] > Threshold

-----------------------------------------------------------------------------
(* remote_gc_services_container.                                           *)

(* One page, without asking for the next.                                  *)
ListServices(h) ==
    /\ step[h] = "list"
    /\ \/ /\ Works
          /\ \E page \in SUBSET Live :
               /\ Cardinality(page) >= PageSize \/ page = Live
               /\ sweep' = [sweep EXCEPT ![h] = page]
               /\ Goto(h, IF page = {} THEN "create" ELSE "describe")
       \/ Fails /\ Raise(h) /\ UNCHANGED sweep
    /\ UNCHANGED <<status, age, at, passed>>

(* describe_services, and the ones the loop will delete.                   *)
Describe(h, doomed) ==
    /\ step[h] = "describe"
    /\ \/ /\ Works
          /\ sweep' = [sweep EXCEPT ![h] = @ \cap doomed]
          /\ Goto(h, "sweep")
       \/ Fails /\ Raise(h) /\ UNCHANGED sweep
    /\ UNCHANGED <<status, age, at, passed>>

(* Mutants: the threshold is forgotten, or compared the wrong way round.   *)
DescribeAll(h) == Describe(h, Live)
DescribeYoung(h) == Describe(h, {s \in Live : ~Expired(s)})

DescribeServices(h) == Describe(h, {s \in Live : Expired(s)})

(* delete_service with force.  A service that is gone is not found; one     *)
(* that somebody else is deleting may be found or not.                      *)
DeleteService(h, s, next) ==
    \/ /\ Works
       /\ status[s] # "absent"
       /\ status' = [status EXCEPT ![s] = "draining"]
       /\ Goto(h, next)
    \/ /\ Fails \/ (status[s] # "active" /\ Works)
       /\ Raise(h)
       /\ UNCHANGED status

(* An error ends the collection, and with it the test of this host.        *)
Sweep(h) ==
    /\ step[h] = "sweep"
    /\ \/ /\ sweep[h] = {}
          /\ Goto(h, "create") /\ Works
          /\ UNCHANGED <<status, sweep, at>>
       \/ \E s \in sweep[h] :
            /\ at' = [at EXCEPT ![h] = s]
            /\ sweep' = [sweep EXCEPT ![h] = @ \ {s}]
            /\ DeleteService(h, s, "swept")
    /\ UNCHANGED <<age, passed>>

(* The waiter services_inactive.                                           *)
AwaitInactive(h, from, next) ==
    /\ step[h] = from
    /\ \/ status[at[h]] = "absent" /\ Works /\ Goto(h, next)
       \/ Fails /\ Raise(h)
    /\ UNCHANGED ecsVars

-----------------------------------------------------------------------------
(* _run_e2e_test.                                                          *)

Remembered ==
    (UNION {sweep[h] : h \in Hosts})
    \cup {at[h] : h \in {h \in Hosts : step[h] \notin AtRest \cup {"sweep", "create"}}}

CreateService(h) ==
    /\ step[h] = "create"
    /\ \/ /\ Works
          /\ \E s \in Names \ (Live \cup Remembered) :
               /\ status' = [status EXCEPT ![s] = "active"]
               /\ age' = [age EXCEPT ![s] = 0]
               /\ at' = [at EXCEPT ![h] = s]
          /\ Goto(h, "stabilize")
       \/ Fails /\ Raise(h) /\ UNCHANGED <<status, age, at>>
    /\ UNCHANGED <<sweep, passed>>

(* The waiter services_stable.                                             *)
AwaitStable(h) ==
    /\ step[h] = "stabilize"
    /\ \/ status[at[h]] = "active" /\ Works /\ Goto(h, "locate")
       \/ status[at[h]] # "active" /\ Works /\ Raise(h)
       \/ Fails /\ Raise(h)
    /\ UNCHANGED ecsVars

(* Without a task there is no address to return.                           *)
Locate(h) ==
    /\ step[h] = "locate"
    /\ \/ status[at[h]] = "active" /\ Works /\ Goto(h, "testing")
       \/ status[at[h]] # "active" /\ Works /\ Raise(h)
       \/ Fails /\ Raise(h)
    /\ UNCHANGED ecsVars

(* Mutant: the service of a failed test is not stopped.                    *)
RunTestNoFinally(h) ==
    /\ step[h] = "testing"
    /\ \/ status[at[h]] = "active" /\ passed' = [passed EXCEPT ![h] = TRUE] /\ Goto(h, "stop")
       \/ passed' = [passed EXCEPT ![h] = FALSE] /\ Raise(h)
    /\ Works
    /\ UNCHANGED <<status, age, sweep, at>>

(* run_test: the copies may fail unnoticed, the script's result counts.    *)
RunTest(h) ==
    /\ step[h] = "testing"
    /\ \E ok \in {status[at[h]] = "active", FALSE} : passed' = [passed EXCEPT ![h] = ok]
    /\ Goto(h, "stop")
    /\ Works
    /\ UNCHANGED <<status, age, sweep, at>>

(* finally: remote_stop_container, whose exception replaces the test's.    *)
StopContainer(h) ==
    /\ step[h] = "stop"
    /\ DeleteService(h, at[h], "stopping")
    /\ UNCHANGED <<age, sweep, at, passed>>

EcsStep(h) ==
    \/ ListServices(h) \/ DescribeServices(h) \/ Sweep(h) \/ AwaitInactive(h, "swept", "sweep")
    \/ CreateService(h) \/ AwaitStable(h) \/ Locate(h) \/ RunTest(h) \/ StopContainer(h)
    \/ AwaitInactive(h, "stopping", IF passed[h] THEN "write" ELSE "failed")

-----------------------------------------------------------------------------
(* The cluster.                                                            *)

Drained(s) ==
    /\ status[s] = "draining"
    /\ status' = [status EXCEPT ![s] = "absent"]
    /\ UNCHANGED <<step, faults, age, sweep, at, passed>>

Tick ==
    /\ \E s \in Live : ~Expired(s)
    /\ age' = [s \in Names |-> IF s \in Live /\ ~Expired(s) THEN age[s] + 1 ELSE age[s]]
    /\ UNCHANGED <<step, faults, status, sweep, at, passed>>

ClusterStep == Tick \/ \E s \in Names : Drained(s)

-----------------------------------------------------------------------------
Uses(h, s) == at[h] = s /\ step[h] \in {"stabilize", "locate", "testing"}
Owns(h, s) == Uses(h, s) \/ (at[h] = s /\ step[h] \in {"stop", "stopping"})

(* The collection of another host never takes a service away from a test    *)
(* that has not run for longer than the threshold, although it deletes what *)
(* it saw some calls ago.                                                   *)
InUseNotCollected ==
    \A h \in Hosts, s \in Names : Uses(h, s) /\ ~Expired(s) => status[s] = "active"

Leaked(s) == status[s] = "active" /\ \A h \in Hosts : ~Owns(h, s)

(* A collection of a cluster that has more services than a page.           *)
Overlooks(h) == step[h] = "list" /\ Cardinality(Live) > PageSize

(* What nobody owns any more is deleted by the next tests on any host,      *)
(* unless the collections find more services than one page again and again: *)
(* list_services is asked for the first page only, and a leak that is on    *)
(* none of the pages they get stays for ever.                               *)
LeaksCollected ==
    \A s \in Names : <>[]Leaked(s) => []<>(\E h \in Hosts : Overlooks(h))
=============================================================================
