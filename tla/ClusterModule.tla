---------------------------- MODULE ClusterModule ----------------------------
(***************************************************************************)
(* The Caddy module: one Cluster per process (src/cluster.go), the         *)
(* configuration it is given by the environment (src/config.go) or by a    *)
(* Caddyfile (src/caddyfile.go), the services it connects to etcd          *)
(* (NewService, src/etcd.go; getClient, src/operations.go) and the         *)
(* storages it hands to CertMagic.                                         *)
(*                                                                         *)
(* Every load of a configuration gets the same Cluster.  A service keeps a *)
(* pointer to the ClusterConfig it was built from and reads its timeouts   *)
(* and its prefix in every call, so configurations are objects here.       *)
(* Caddy loads one configuration at a time; Caddyfiles may be parsed       *)
(* meanwhile.                                                              *)
(*                                                                         *)
(* A setting is default, good, or bad: accepted by its option and refused  *)
(* by ClusterConfig.Validate.                                              *)
(***************************************************************************)
EXTENDS FiniteSets

CONSTANTS
  Obj,      \* ClusterConfig objects
  Svc,      \* services
  Parser,   \* goroutines that parse Caddyfiles
  Option,   \* pairs <<field, what the argument is>>, as the options see them
  Nil

\* durations: the timeouts of the connection; free: the prefix, the server name
\* and the switches.
Field == {"servers", "timeout", "user", "pass", "cert", "key", "ca", "durations",
          "caddyfile", "loader", "free"}

\* Validate looks at these again and may refuse what the option has accepted: a
\* server without a host, a short lock timeout, a file that is gone by now.
Checked == {"servers", "timeout", "cert", "key", "ca"}

\* The options that refuse some arguments.
Refusing == Checked \cup {"durations", "loader"}

\* The options that accept some arguments and leave the setting as it is: a
\* bootstrap Caddyfile that cannot be read, a loader that is enabled.
Ignoring == {"caddyfile", "loader"}

\* An empty argument is accepted, and the setting is as if it were not given.
Emptying == {"user", "pass"}

ASSUME OptionAssumption ==
  /\ Option \subseteq Field \X {"good", "bad", "rejected", "ignored", "empty"}
  /\ \A o \in Option : /\ o[2] = "bad" => o[1] \in Checked
                       /\ o[2] = "rejected" => o[1] \in Refusing
                       /\ o[2] = "ignored" => o[1] \in Ignoring
                       /\ o[2] = "empty" => o[1] \in Emptying
ASSUME NilAssumption == Nil \notin Obj /\ Nil \notin Svc

\* set: the settings; opts: the options field is not empty.
Config == [set: [Field -> {"default", "good", "bad"}], opts: BOOLEAN,
           from: {"env", "caddyfile"}]

\* cfg: the configuration the service points to; raced: it was built while a
\* Caddyfile was being parsed.
Service == [cfg: Obj, raced: BOOLEAN]

ASSUME NilIsNothing == Nil \notin Config /\ Nil \notin Service

VARIABLES
  env,         \* the options the environment variables stand for
  obj,         \* the ClusterConfig objects
  svc,         \* the services
  clusterCfg,  \* cluster.cfg; Nil while there is no cluster
  clusterSrv,  \* cluster.srv
  parsing,     \* the parsers inside UnmarshalCaddyfile
  load,        \* how far the load of a configuration is
  storages     \* the services of the storages CertMagic uses

vars == <<env, obj, svc, clusterCfg, clusterSrv, parsing, load, storages>>

Phase == {"idle", "new", "provisioned", "validated", "exited"}

TypeOK ==
  /\ env \subseteq Option
  /\ obj \in [Obj -> Config \cup {Nil}]
  /\ svc \in [Svc -> Service \cup {Nil}]
  /\ clusterCfg \in Obj \cup {Nil}
  /\ clusterSrv \in Svc \cup {Nil}
  /\ parsing \subseteq Parser
  /\ load \in Phase
  /\ storages \subseteq Svc

\* One environment variable per field; an empty one counts as none.
Init ==
  /\ env \in {e \in SUBSET Option : \A o, p \in e : o[2] # "empty" /\ (o[1] = p[1] => o = p)}
  /\ obj = [i \in Obj |-> Nil]
  /\ svc = [s \in Svc |-> Nil]
  /\ clusterCfg = Nil
  /\ clusterSrv = Nil
  /\ parsing = {}
  /\ load = "idle"
  /\ storages = {}

-----------------------------------------------------------------------------
(* ClusterConfig *)

Free == {i \in Obj : obj[i] = Nil}

Default == [f \in Field |-> "default"]

Given(e, f) == \E o \in e : o[1] = f

\* A setting that was v when an option has accepted an argument of this kind.
Applied(v, kind) ==
  IF kind = "ignored" THEN v ELSE IF kind = "empty" THEN "default" ELSE kind

validateEnvPairs(e) ==
  /\ Given(e, "cert") <=> Given(e, "key")
  /\ Given(e, "user") <=> Given(e, "pass")

\* Every option of e accepts its argument.
Accepted(e) == \A o \in e : o[2] # "rejected"

\* The settings when all the options of e have been applied, in any order.
Settings(e) ==
  [f \in Field |-> IF Given(e, f) THEN Applied("default", (CHOOSE o \in e : o[1] = f)[2])
                   ELSE "default"]

\* ClusterConfig.Validate.  A key without a certificate is not looked at.
Validate(c) ==
  /\ c.set["cert"] # "default" => c.set["cert"] = "good" /\ c.set["key"] = "good"
  /\ (c.set["user"] = "default") <=> (c.set["pass"] = "default")
  /\ \A f \in {"servers", "timeout", "ca"} : c.set[f] # "bad"
  /\ ~(c.set["servers"] = "default" /\ c.opts)

FromEnv(e) == [set |-> Settings(e), opts |-> e # {}, from |-> "env"]

\* Variant: the result is not validated.
EnvUsableUnvalidated(e) == validateEnvPairs(e) /\ Accepted(e)

\* ConfigOptsFromEnvironment and NewClusterConfig succeed.
EnvUsable(e) == validateEnvPairs(e) /\ Accepted(e) /\ Validate(FromEnv(e))

-----------------------------------------------------------------------------
(* The module *)

\* New, for the first time in this process.  Later calls return the same Cluster.
New ==
  /\ clusterCfg = Nil /\ load # "exited"
  /\ EnvUsable(env)
  /\ \E i \in Free : clusterCfg' = i /\ obj' = [obj EXCEPT ![i] = FromEnv(env)]
  /\ UNCHANGED <<env, svc, clusterSrv, parsing, load, storages>>

\* The environment cannot be used: log.Fatal.
NewFatal ==
  /\ clusterCfg = Nil /\ load # "exited"
  /\ ~EnvUsable(env)
  /\ load' = "exited"
  /\ UNCHANGED <<env, obj, svc, clusterCfg, clusterSrv, parsing, storages>>

\* Variant: the configuration the Cluster has is changed, not replaced.
UnmarshalInPlace(p) ==
  /\ clusterCfg # Nil
  /\ p \notin parsing
  /\ parsing' = parsing \cup {p}
  /\ UNCHANGED <<env, obj, svc, clusterCfg, clusterSrv, load, storages>>

\* UnmarshalCaddyfile starts: the Cluster gets a new configuration, defaults so
\* far.  It is validated now and never again.
UnmarshalCaddyfile(p) ==
  /\ clusterCfg # Nil
  /\ p \notin parsing
  /\ parsing' = parsing \cup {p}
  /\ \E i \in Free :
       /\ clusterCfg' = i
       /\ obj' = [obj EXCEPT ![i] = [set |-> Default, opts |-> FALSE, from |-> "caddyfile"]]
  /\ UNCHANGED <<env, svc, clusterSrv, load, storages>>

\* Variant: an option that stores its argument before it looks at it.
DirectiveUnchecked(p, o) ==
  /\ p \in parsing
  /\ obj' = [obj EXCEPT ![clusterCfg].set[o[1]] = o[2]]
  /\ UNCHANGED <<env, svc, clusterCfg, clusterSrv, parsing, load, storages>>

\* A directive whose option accepts the argument: the configuration the Cluster
\* has at this moment is changed.
Directive(p, o) ==
  /\ p \in parsing
  /\ o[2] # "rejected"
  /\ obj' = [obj EXCEPT ![clusterCfg].set[o[1]] = Applied(@, o[2])]
  /\ UNCHANGED <<env, svc, clusterCfg, clusterSrv, parsing, load, storages>>

\* A directive that is unknown, lacks its argument or has one that its option
\* refuses.  What came before it stays.  WithServers has replaced the list of
\* servers by those before the one it refuses.
DirectiveFails(p) ==
  /\ p \in parsing
  /\ parsing' = parsing \ {p}
  /\ \/ obj' = obj
     \/ /\ <<"servers", "rejected">> \in Option
        /\ \E v \in {"default", "good", "bad"} : obj' = [obj EXCEPT ![clusterCfg].set["servers"] = v]
  /\ UNCHANGED <<env, svc, clusterCfg, clusterSrv, load, storages>>

\* The end of the block.
UnmarshalReturns(p) ==
  /\ p \in parsing
  /\ parsing' = parsing \ {p}
  /\ UNCHANGED <<env, obj, svc, clusterCfg, clusterSrv, load, storages>>

\* Caddy starts to load a configuration with this storage.
LoadStarts ==
  /\ load = "idle" /\ clusterCfg # Nil
  /\ load' = "new"
  /\ UNCHANGED <<env, obj, svc, clusterCfg, clusterSrv, parsing, storages>>

\* getClient may succeed: etcd's client refuses an empty list of endpoints.
CanConnect(c) == c.set["servers"] # "default"

\* NewService for the Cluster's configuration: getClient has connected.
Built == [cfg |-> clusterCfg, raced |-> parsing # {}]

\* Provision: the Cluster gets a new service.  The one it had is forgotten, and
\* nothing closes its client.
Provision ==
  /\ load = "new" /\ CanConnect(obj[clusterCfg])
  /\ \E s \in Svc :
       /\ svc[s] = Nil
       /\ svc' = [svc EXCEPT ![s] = Built]
       /\ clusterSrv' = s
  /\ load' = "provisioned"
  /\ UNCHANGED <<env, obj, clusterCfg, parsing, storages>>

\* The certificates cannot be read, the client cannot be made or the ping is not
\* answered: the load fails, and the Cluster keeps the service it had.
ProvisionFails ==
  /\ load = "new"
  /\ load' = "idle"
  /\ UNCHANGED <<env, obj, svc, clusterCfg, clusterSrv, parsing, storages>>

\* Cluster.Validate asks for a service and for nothing else; it is there.
ClusterValidate ==
  /\ load = "provisioned"
  /\ clusterSrv # Nil
  /\ load' = "validated"
  /\ UNCHANGED <<env, obj, svc, clusterCfg, clusterSrv, parsing, storages>>

\* CertMagicStorage: a copy of the Cluster, with the service it has now.
CertMagicStorage ==
  /\ load = "validated"
  /\ storages' = storages \cup {clusterSrv}
  /\ load' = "idle"
  /\ UNCHANGED <<env, obj, svc, clusterCfg, clusterSrv, parsing>>

\* Caddy is done with a configuration it has replaced.
StorageRetired(s) ==
  /\ s \in storages
  /\ storages' = storages \ {s}
  /\ UNCHANGED <<env, obj, svc, clusterCfg, clusterSrv, parsing, load>>

Next ==
  \/ New \/ NewFatal
  \/ \E p \in Parser :
       \/ UnmarshalCaddyfile(p) \/ DirectiveFails(p) \/ UnmarshalReturns(p)
       \/ \E o \in Option : Directive(p, o)
  \/ LoadStarts \/ Provision \/ ProvisionFails \/ ClusterValidate \/ CertMagicStorage
  \/ \E s \in Svc : StorageRetired(s)
  \/ load = "exited" /\ UNCHANGED vars

Spec == Init /\ [][Next]_vars

-----------------------------------------------------------------------------
(* Properties *)

\* A service keeps the configuration it was built from: no Caddyfile that is
\* parsed later changes the timeouts or the prefix under it.  Only one that was
\* being parsed when the service was built can.
ConfigStable ==
  [][\A s \in Svc : svc[s] # Nil /\ ~svc[s].raced =>
       /\ svc'[s].cfg = svc[s].cfg
       /\ obj'[svc[s].cfg] = obj[svc[s].cfg]]_vars

\* A configuration from the environment is valid, from the moment the module
\* exists and for good, in spite of parsers and reloads.
EnvConfigValid ==
  \A i \in Obj : obj[i] # Nil /\ obj[i].from = "env" => Validate(obj[i])

\* "Validate ... validates the configuration" (Cluster.Validate): a storage is
\* handed out only with a valid configuration, even if nothing was being parsed
\* when its service was built.
ValidatedBeforeUse ==
  \A s \in storages : ~svc[s].raced => Validate(obj[svc[s].cfg])

=============================================================================
