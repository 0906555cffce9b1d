--------------------------- MODULE ClusterOptions ---------------------------
(***************************************************************************)
(* The translation of an orchestration file, written for mongo-orchestration, *)
(* into the options of mongodb-runner (_get_cluster_options).                *)
(*                                                                          *)
(* procParams is [plain, set]: two sequences of <<key, value>>, set being    *)
(* what setParameter holds; the values "yes" and "no" are JSON's true and    *)
(* false.  Where a file may leave it out, procParams is << >> or holds one.  *)
(* An argument is <<key>> or <<key, value>>.                                *)
(***************************************************************************)
EXTENDS Integers, Sequences, SequencesExt

Key(pair) == pair[1]
Value(pair) == pair[2]

(* _append_arg: true is a flag, false is left out.                          *)
Arg(pair) == CASE Value(pair) = "yes" -> <<<<Key(pair)>>>>
               [] Value(pair) = "no" -> <<>>
               [] OTHER -> <<pair>>
Args(pairs) ==
    LET args[n \in 0 .. Len(pairs)] == IF n = 0 THEN <<>> ELSE args[n - 1] \o Arg(pairs[n])
    IN args[Len(pairs)]

TestCommands(value) == <<"setParameter", "enableTestCommands", value>>

(* Mutant: test commands are enabled whatever the file says.                *)
AlwaysEnabled(params) ==
    Args(params.plain)
      \o [i \in DOMAIN params.set |-> <<"setParameter">> \o params.set[i]]
      \o <<TestCommands("true")>>
HandleProcParams(params) ==
    Args(params.plain)
      \o [i \in DOMAIN params.set |-> <<"setParameter">> \o params.set[i]]
      \o IF \E i \in DOMAIN params.set : Key(params.set[i]) = "enableTestCommands"
           THEN <<>> ELSE <<TestCommands("true")>>

ParamArgs(given) == IF given = <<>> THEN <<>> ELSE HandleProcParams(given[1])

(* rsParams: the file's priority wins over the arbiter's.                   *)
Priority(rs) == IF rs.priority # "none" THEN rs.priority
                ELSE IF rs.arbiter THEN "0" ELSE "1"
RsMember(m) == [args |-> ParamArgs(m.procParams), arbiterOnly |-> m.rs.arbiter,
                priority |-> Priority(m.rs)]

Has(args, key) == Contains(args, <<key>>)
(* A member's role is said by the shard's place and not by an argument.     *)
Without(args) ==
    IF Has(args, "shardsvr") THEN RemoveFirst(args, <<"shardsvr">>)
    ELSE IF Has(args, "configsvr") THEN RemoveFirst(args, <<"configsvr">>) ELSE args
IsConfigSrv(shard) ==
    \E i \in DOMAIN shard : LET a == HandleProcParams(shard[i])
                            IN ~Has(a, "shardsvr") /\ Has(a, "configsvr")
ShardOptions(shard) == [i \in DOMAIN shard |-> Without(HandleProcParams(shard[i]))]
(* A blank config server to start; a config server takes the first place,   *)
(* any other shard the next.                                                *)
Blank == <<<<>>>>
Shards(shards) ==
    LET made[n \in 0 .. Len(shards)] ==
          IF n = 0 THEN <<Blank>>
          ELSE IF IsConfigSrv(shards[n])
          THEN [made[n - 1] EXCEPT ![1] = ShardOptions(shards[n])]
          ELSE Append(made[n - 1], ShardOptions(shards[n]))
    IN made[Len(shards)]

SslKey(key) == CASE key = "sslPEMKeyFile" -> "tlsCertificateKeyFile"
                 [] key = "sslCAFile" -> "tlsCAFile"
                 [] OTHER -> key
(* Of the top level, what is not for the runner itself.                     *)
TopPair(pair) == IF Key(pair) = "auth_key" THEN <<"keyFile", "path">> ELSE pair
(* What every process is given: the top level, TLS and, alone, its own.     *)
CommonArgs(file) ==
    Args([i \in DOMAIN file.top |-> TopPair(file.top[i])])
      \o (IF file.topology = "standalone" THEN ParamArgs(file.procParams) ELSE <<>>)
      \o (IF file.topology = "replset" THEN <<<<"replSet", "id">>>> ELSE <<>>)
      \o Args([i \in DOMAIN file.sslParams |->
                 <<SslKey(Key(file.sslParams[i])), Value(file.sslParams[i])>>])
      \o <<<<"unixSocketPrefix", "/tmp">>>>

GetClusterOptions(file) ==
    [topology |-> file.topology, args |-> CommonArgs(file), users |-> file.login,
     rsMembers |-> IF file.topology = "replset"
                   THEN [i \in DOMAIN file.members |-> RsMember(file.members[i])] ELSE <<>>,
     shards |-> IF file.topology = "sharded" THEN Shards(file.shards) ELSE <<>>,
     mongosArgs |-> IF file.topology = "sharded"
                    THEN [i \in DOMAIN file.routers |-> HandleProcParams(file.routers[i])]
                    ELSE <<>>]
=============================================================================
