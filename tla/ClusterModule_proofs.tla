------------------------- MODULE ClusterModule_proofs -------------------------
(***************************************************************************)
(* Proofs about ClusterModule, for any numbers of objects, services and    *)
(* parsers and any options.                                                *)
(***************************************************************************)
EXTENDS ClusterModule, TLAPS

\* The Cluster, the services and the storages refer to objects that exist.
Linked ==
  /\ clusterCfg # Nil => obj[clusterCfg] # Nil
  /\ \A s \in Svc : svc[s] # Nil => obj[svc[s].cfg] # Nil
  /\ clusterSrv # Nil => svc[clusterSrv] # Nil
  /\ \A s \in storages : svc[s] # Nil
  /\ load = "new" => clusterCfg # Nil
  /\ load \in {"provisioned", "validated"} => clusterSrv # Nil

\* While a Caddyfile is parsed, the configuration it changes is neither the one
\* from the environment nor that of a service built in peace.
Apart ==
  parsing # {} =>
    /\ clusterCfg # Nil
    /\ obj[clusterCfg].from = "caddyfile"
    /\ \A s \in Svc : svc[s] # Nil /\ ~svc[s].raced => svc[s].cfg # clusterCfg

IInv == TypeOK /\ Linked /\ Apart /\ EnvConfigValid

\* An option that accepts its argument leaves a setting of one of three kinds.
LEMMA AppliedType ==
  ASSUME NEW o \in Option, o[2] # "rejected", NEW v \in {"default", "good", "bad"}
  PROVE  o[1] \in Field /\ Applied(v, o[2]) \in {"default", "good", "bad"}
BY OptionAssumption DEF Applied

\* So do the options of an environment together.
LEMMA SettingsType ==
  ASSUME NEW e \in SUBSET Option, Accepted(e)
  PROVE  Settings(e) \in [Field -> {"default", "good", "bad"}]
<1> SUFFICES ASSUME NEW f \in Field, Given(e, f)
             PROVE  Applied("default", (CHOOSE o \in e : o[1] = f)[2]) \in {"default", "good", "bad"}
  BY DEF Settings
<1>1. PICK o \in e : o[1] = f
  BY DEF Given
<1>2. (CHOOSE q \in e : q[1] = f) \in e
  BY <1>1
<1>3. ASSUME NEW q \in e PROVE Applied("default", q[2]) \in {"default", "good", "bad"}
  BY AppliedType DEF Accepted
<1> QED
  BY <1>2, <1>3

\* There is no Cluster in the initial state.
LEMMA InitOK == Init => IInv
  BY NilAssumption DEF Init, IInv, TypeOK, Linked, Apart, EnvConfigValid, Phase

\* What the directives and the Caddyfile parser do to an object.
LEMMA SetType ==
  ASSUME NEW c \in Config, NEW f \in Field, NEW v \in {"default", "good", "bad"}
  PROVE  /\ [c EXCEPT !.set[f] = v] \in Config
         /\ [c EXCEPT !.set[f] = v].from = c.from
  BY DEF Config

\* New makes a configuration from the environment only if it is valid.
LEMMA NewOK == IInv /\ New => IInv'
<1> SUFFICES ASSUME IInv, New PROVE IInv'
  OBVIOUS
<1>1. PICK i \in Obj : obj[i] = Nil /\ clusterCfg' = i /\ obj' = [obj EXCEPT ![i] = FromEnv(env)]
  BY DEF New, Free
<1>2. FromEnv(env) \in Config /\ FromEnv(env).from = "env"
  BY SettingsType DEF IInv, TypeOK, New, EnvUsable, FromEnv, Config
<1>3. TypeOK'
  BY <1>1, <1>2 DEF IInv, TypeOK, New
<1>4. Linked'
  BY <1>1, <1>2, NilAssumption, NilIsNothing DEF IInv, TypeOK, Linked, New, Service
<1>5. parsing' = {}
  BY DEF IInv, Apart, New
<1>6. EnvConfigValid'
  BY <1>1, <1>2, NilIsNothing DEF IInv, TypeOK, EnvConfigValid, New, EnvUsable
<1> QED
  BY <1>3, <1>4, <1>5, <1>6 DEF IInv, Apart

\* A parse starts with an object of its own, which no service has.
LEMMA UnmarshalOK ==
  ASSUME NEW p \in Parser, IInv, UnmarshalCaddyfile(p)
  PROVE  IInv'
<1> DEFINE c == [set |-> Default, opts |-> FALSE, from |-> "caddyfile"]
<1>1. PICK i \in Obj : obj[i] = Nil /\ clusterCfg' = i /\ obj' = [obj EXCEPT ![i] = c]
  BY DEF UnmarshalCaddyfile, Free
<1>2. c \in Config /\ c.from = "caddyfile"
  BY DEF Config, Default
<1> HIDE DEF c
<1>3. TypeOK'
  BY <1>1, <1>2 DEF IInv, TypeOK, UnmarshalCaddyfile
<1>4. Linked'
  BY <1>1, <1>2, NilAssumption, NilIsNothing DEF IInv, TypeOK, Linked, UnmarshalCaddyfile, Service
<1>5. Apart'
  BY <1>1, <1>2, NilAssumption DEF IInv, TypeOK, Linked, Apart, UnmarshalCaddyfile
<1>6. EnvConfigValid'
  BY <1>1, <1>2 DEF IInv, TypeOK, EnvConfigValid, UnmarshalCaddyfile
<1> QED
  BY <1>3, <1>4, <1>5, <1>6 DEF IInv

\* A setting of the Cluster's configuration is changed by a parser.
Edit(f, v) == obj' = [obj EXCEPT ![clusterCfg].set[f] = v]

\* A directive, accepted or refused, writes into the parser's object only.
LEMMA EditOK ==
  ASSUME NEW f \in Field, NEW v \in {"default", "good", "bad"},
         IInv, parsing # {}, Edit(f, v), parsing' \subseteq parsing,
         UNCHANGED <<env, svc, clusterCfg, clusterSrv, load, storages>>
  PROVE  IInv'
<1> DEFINE c == [obj[clusterCfg] EXCEPT !.set[f] = v]
<1>1. clusterCfg \in Obj /\ obj[clusterCfg] \in Config /\ obj[clusterCfg].from = "caddyfile"
  BY DEF IInv, TypeOK, Linked, Apart
<1>2. c \in Config /\ c.from = "caddyfile"
  BY <1>1, SetType
<1>3. obj' = [obj EXCEPT ![clusterCfg] = c]
  BY DEF Edit
<1> HIDE DEF c
<1>4. TypeOK'
  BY <1>1, <1>2, <1>3 DEF IInv, TypeOK
<1>5. Linked'
  BY <1>1, <1>2, <1>3, NilIsNothing DEF IInv, TypeOK, Linked, Service
<1>6. Apart'
  BY <1>1, <1>2, <1>3 DEF IInv, TypeOK, Apart
<1>7. EnvConfigValid'
  BY <1>1, <1>2, <1>3 DEF IInv, TypeOK, EnvConfigValid
<1> QED
  BY <1>4, <1>5, <1>6, <1>7 DEF IInv

\* The end of a parse changes no object.
LEMMA ParseEndsOK ==
  ASSUME NEW p \in Parser, IInv, parsing' = parsing \ {p},
         UNCHANGED <<env, obj, svc, clusterCfg, clusterSrv, load, storages>>
  PROVE  IInv'
<1>1. TypeOK' /\ Linked' /\ EnvConfigValid'
  BY DEF IInv, TypeOK, Linked, EnvConfigValid
<1>2. Apart'
  BY DEF IInv, Apart
<1> QED
  BY <1>1, <1>2 DEF IInv

\* Provision links a new service to the Cluster's configuration.
LEMMA ProvisionOK == IInv /\ Provision => IInv'
<1> SUFFICES ASSUME IInv, Provision PROVE IInv'
  OBVIOUS
<1>1. PICK s \in Svc : svc[s] = Nil /\ svc' = [svc EXCEPT ![s] = Built] /\ clusterSrv' = s
  BY DEF Provision
<1>2. /\ clusterCfg \in Obj
      /\ Built \in Service /\ Built.cfg = clusterCfg
      /\ parsing # {} => Built.raced
  BY DEF IInv, TypeOK, Linked, Provision, Built, Service
<1>3. TypeOK'
  BY <1>1, <1>2 DEF IInv, TypeOK, Provision, Phase
<1>4. Linked'
  BY <1>1, <1>2, NilAssumption, NilIsNothing DEF IInv, TypeOK, Linked, Provision
<1>5. Apart'
  BY <1>1, <1>2 DEF IInv, TypeOK, Apart, Provision
<1>6. EnvConfigValid'
  BY DEF IInv, EnvConfigValid, Provision
<1> QED
  BY <1>3, <1>4, <1>5, <1>6 DEF IInv

\* The steps of a load that leave objects and services alone.
Administration ==
  \/ NewFatal \/ LoadStarts \/ ProvisionFails \/ ClusterValidate \/ CertMagicStorage
  \/ \E s \in Svc : StorageRetired(s)

\* The steps of a load that touch neither keep the invariant.
LEMMA AdministrationOK == IInv /\ Administration => IInv'
<1> SUFFICES ASSUME IInv, Administration PROVE IInv'
  OBVIOUS
<1>1. UNCHANGED <<env, obj, svc, clusterCfg, clusterSrv, parsing>>
  BY DEF Administration, NewFatal, LoadStarts, ProvisionFails, ClusterValidate,
         CertMagicStorage, StorageRetired
<1>2. TypeOK' /\ Linked'
  BY DEF IInv, TypeOK, Linked, Phase, Administration, NewFatal, LoadStarts, ProvisionFails,
         ClusterValidate, CertMagicStorage, StorageRetired
<1>3. Apart' /\ EnvConfigValid'
  BY <1>1 DEF IInv, Apart, EnvConfigValid
<1> QED
  BY <1>2, <1>3 DEF IInv

\* The invariant is inductive.
LEMMA NextOK == IInv /\ [Next]_vars => IInv'
<1> SUFFICES ASSUME IInv, [Next]_vars PROVE IInv'
  OBVIOUS
<1>1. CASE New
  BY <1>1, NewOK
<1>2. ASSUME NEW p \in Parser, UnmarshalCaddyfile(p) PROVE IInv'
  BY <1>2, UnmarshalOK
<1>3. ASSUME NEW p \in Parser, NEW o \in Option, Directive(p, o) PROVE IInv'
  <2> DEFINE v == Applied(obj[clusterCfg].set[o[1]], o[2])
  <2>1. obj[clusterCfg] \in Config /\ o[1] \in Field
    BY <1>3, OptionAssumption DEF Directive, IInv, TypeOK, Linked, Apart
  <2>2. v \in {"default", "good", "bad"}
    BY <1>3, <2>1, AppliedType DEF Directive, Config
  <2>3. Edit(o[1], v) /\ parsing # {}
    BY <1>3 DEF Directive, Edit
  <2> QED
    BY <1>3, <2>1, <2>2, <2>3, EditOK DEF Directive
<1>4. ASSUME NEW p \in Parser, DirectiveFails(p) PROVE IInv'
  <2>1. CASE obj' = obj
    BY <1>4, <2>1, ParseEndsOK DEF DirectiveFails
  <2>2. CASE \E v \in {"default", "good", "bad"} : Edit("servers", v)
    <3>1. PICK v \in {"default", "good", "bad"} : Edit("servers", v)
      BY <2>2
    <3>2. "servers" \in Field
      BY DEF Field
    <3> QED
      BY <1>4, <3>1, <3>2, EditOK DEF DirectiveFails
  <2> QED
    BY <1>4, <2>1, <2>2 DEF DirectiveFails, Edit
<1>5. ASSUME NEW p \in Parser, UnmarshalReturns(p) PROVE IInv'
  BY <1>5, ParseEndsOK DEF UnmarshalReturns
<1>6. CASE Provision
  BY <1>6, ProvisionOK
<1>7. CASE Administration
  BY <1>7, AdministrationOK
<1>8. CASE UNCHANGED vars
  BY <1>8 DEF vars, IInv, TypeOK, Linked, Apart, EnvConfigValid
<1> QED
  BY <1>1, <1>2, <1>3, <1>4, <1>5, <1>6, <1>7, <1>8 DEF Next, Administration

\* It holds in every state of the module.
LEMMA Inductive == Spec => []IInv
  BY InitOK, NextOK, PTL DEF Spec

\* The module's state keeps its types, whatever the options and the Caddyfiles.
THEOREM ClusterTypeCorrect == Spec => []TypeOK
<1>1. IInv => TypeOK
  BY DEF IInv
<1> QED
  BY <1>1, Inductive, PTL

\* The configuration taken from the environment is valid and stays so.
THEOREM EnvConfigStaysValid == Spec => []EnvConfigValid
<1>1. IInv => EnvConfigValid
  BY DEF IInv
<1> QED
  BY <1>1, Inductive, PTL

\* One step leaves the configuration of a service alone.
LEMMA StepStable ==
  ASSUME IInv, [Next]_vars, NEW s \in Svc, svc[s] # Nil, ~svc[s].raced
  PROVE  svc'[s].cfg = svc[s].cfg /\ obj'[svc[s].cfg] = obj[svc[s].cfg]
<1>1. svc[s].cfg \in Obj /\ obj[svc[s].cfg] # Nil
  BY DEF IInv, TypeOK, Linked, Service
<1>2. svc'[s] = svc[s]
  BY DEF IInv, TypeOK, Next, vars, New, NewFatal, UnmarshalCaddyfile, Directive, DirectiveFails,
         UnmarshalReturns, LoadStarts, Provision, ProvisionFails, ClusterValidate,
         CertMagicStorage, StorageRetired
<1>3. parsing # {} => svc[s].cfg # clusterCfg
  BY DEF IInv, Apart
<1>4. obj'[svc[s].cfg] = obj[svc[s].cfg]
  <2>1. ASSUME NEW i \in Obj, obj[i] = Nil, NEW c, obj' = [obj EXCEPT ![i] = c]
        PROVE  obj'[svc[s].cfg] = obj[svc[s].cfg]
    BY <1>1, <2>1 DEF IInv, TypeOK
  <2>2. ASSUME parsing # {}, NEW f, NEW v, obj' = [obj EXCEPT ![clusterCfg].set[f] = v]
        PROVE  obj'[svc[s].cfg] = obj[svc[s].cfg]
    BY <1>1, <1>3, <2>2 DEF IInv, TypeOK
  <2>3. CASE New
    BY <2>1, <2>3 DEF New, Free
  <2>4. ASSUME NEW p \in Parser, UnmarshalCaddyfile(p) PROVE obj'[svc[s].cfg] = obj[svc[s].cfg]
    BY <2>1, <2>4 DEF UnmarshalCaddyfile, Free
  <2>5. ASSUME NEW p \in Parser, NEW o \in Option, Directive(p, o)
        PROVE  obj'[svc[s].cfg] = obj[svc[s].cfg]
    BY <2>2, <2>5 DEF Directive
  <2>6. ASSUME NEW p \in Parser, DirectiveFails(p) PROVE obj'[svc[s].cfg] = obj[svc[s].cfg]
    BY <2>2, <2>6 DEF DirectiveFails
  <2> QED
    BY <2>3, <2>4, <2>5, <2>6 DEF Next, vars, NewFatal, UnmarshalReturns, LoadStarts, Provision,
         ProvisionFails, ClusterValidate, CertMagicStorage, StorageRetired
<1> QED
  BY <1>2, <1>4

\* A service built while nothing was being parsed keeps its configuration.
THEOREM ConfigStaysStable == Spec => ConfigStable
<1>1. IInv /\ [Next]_vars =>
        [\A s \in Svc : svc[s] # Nil /\ ~svc[s].raced =>
           /\ svc'[s].cfg = svc[s].cfg
           /\ obj'[svc[s].cfg] = obj[svc[s].cfg]]_vars
  BY StepStable
<1> QED
  BY <1>1, Inductive, PTL DEF Spec, ConfigStable

\* The comment of Cluster.Validate is right as long as no Caddyfile is parsed: the
\* only configurations are those from the environment, which New has validated.
THEOREM ValidatedWithoutCaddyfile == Spec /\ [](parsing = {}) => []ValidatedBeforeUse
<1> DEFINE AllFromEnv == \A i \in Obj : obj[i] # Nil => obj[i].from = "env"
<1>1. Init => AllFromEnv
  BY DEF Init
<1>2. IInv /\ AllFromEnv /\ (parsing = {}) /\ (parsing = {})' /\ [Next]_vars => AllFromEnv'
  <2> SUFFICES ASSUME IInv, AllFromEnv, parsing = {}, parsing' = {}, [Next]_vars PROVE AllFromEnv'
    OBVIOUS
  <2>1. CASE New
    <3>1. PICK i \in Free : obj' = [obj EXCEPT ![i] = FromEnv(env)]
      BY <2>1 DEF New
    <3> QED
      BY <3>1 DEF IInv, TypeOK, FromEnv
  <2>2. CASE ~New
    <3>1. obj' = obj
      BY <2>2 DEF Next, vars, NewFatal, UnmarshalCaddyfile, Directive, DirectiveFails,
           UnmarshalReturns, LoadStarts, Provision, ProvisionFails, ClusterValidate,
           CertMagicStorage, StorageRetired
    <3> QED
      BY <3>1
  <2> QED
    BY <2>1, <2>2
<1>3. IInv /\ AllFromEnv => ValidatedBeforeUse
  <2> SUFFICES ASSUME IInv, AllFromEnv, NEW s \in storages PROVE Validate(obj[svc[s].cfg])
    BY DEF ValidatedBeforeUse
  <2>1. s \in Svc /\ svc[s] # Nil
    BY DEF IInv, TypeOK, Linked
  <2>2. svc[s].cfg \in Obj /\ obj[svc[s].cfg] # Nil
    BY <2>1 DEF IInv, TypeOK, Linked, Service
  <2> QED
    BY <2>2 DEF IInv, EnvConfigValid
<1> HIDE DEF AllFromEnv
<1> QED
  BY <1>1, <1>2, <1>3, Inductive, PTL DEF Spec

===============================================================================
