------------------------------- MODULE Certs -------------------------------
(***************************************************************************)
(* The internal CA, its rotation and the certificates issued from it.      *)
(* Operator replicas load or create the CA Secret at start (EnsureCA) and  *)
(* keep it in their Issuer; the leader's certificate manager makes passes  *)
(* (Manager.Sync) that reload it, move a rotation forward and rewrite the  *)
(* certificate Secrets of the gateway and of the agents, next to the       *)
(* reconciler, which writes the Secret of one agent from the Issuer        *)
(* (ensureTLSSecret).  Kubelet brings a Secret to a pod after a while, and *)
(* the process there reloads its key pair and its bundle independently     *)
(* (pki.KeyPair, pki.Roots).                                               *)
(*                                                                         *)
(* A CA is a number, a certificate is the CA that signed it, a bundle the  *)
(* set of CAs it trusts.  Writes are conditional: instead of versions the  *)
(* model keeps for each reader whether what it read is still current.      *)
(* Time is counted in ticks, the interval between two passes of a leader   *)
(* (10 minutes; an hour of overlap), which a reconcile and the way of a    *)
(* Secret into a process do not outlast.                                   *)
(***************************************************************************)
EXTENDS Naturals, FiniteSets

CONSTANTS
  Agents, Gateway,  \* the holders of a certificate Secret
  Operators,        \* operator replicas
  Absent,           \* no Secret, no process, no leader
  Overlap,          \* ticks each stage of a rotation lasts at least
  StaleStandby,     \* a replica may be elected with a CA loaded before a rotation
  MaxRotations,     \* bound: rotations that become due
  MaxErrors,        \* bound: failed writes
  MaxCrashes,       \* bound: operator replicas that crash
  MaxRenewals       \* bound: certificates that enter their renewal window

ASSUME CertsAssumption ==
  /\ {Overlap, MaxRotations, MaxErrors, MaxCrashes, MaxRenewals} \subseteq Nat
  /\ StaleStandby \in BOOLEAN
  /\ Gateway \notin Agents

\* No object, and no replica, is the absence of one.
ASSUME AbsentAssumption ==
  /\ Absent \notin Operators
  /\ Absent \notin [signer : Nat, bundle : SUBSET Nat]
  /\ Absent \notin [ca : Nat, trust : SUBSET Nat]

VARIABLES
  ca,      \* CA Secret: the CA that signs, 0 without a Secret
  bundle,  \* CA Secret: the CAs that are trusted
  stage,   \* CA Secret: "", "next" or "promoted"
  age,     \* ticks since the stage began
  due,     \* the CA is in the last third of its lifetime
  leaf,    \* certificate Secrets
  aged,    \* holders whose certificate is in its renewal window
  mount,   \* the Secrets as kubelet has mounted them
  cert,    \* the certificate each process presents
  roots,   \* the bundle each process trusts
  lag,     \* a change is on its way to a process: until the next tick (2) or the one after (1)
  issuer,  \* the Issuer of each operator replica, Absent while it is down
  boot,    \* replicas that found no CA Secret and are about to create it
  leader,  \* the elected replica
  mgr,     \* the manager's pass
  rec,     \* the reconcile of each agent's server
  passed,  \* the leader has made its pass in this tick
  budget   \* what is left of the bounds

caSecret == <<ca, bundle, stage, age, due>>
procs == <<mount, cert, roots>>
ops == <<issuer, boot, leader>>
vars == <<caSecret, leaf, aged, procs, lag, ops, mgr, rec, passed, budget>>

Holders == Agents \cup {Gateway}
Kinds == {"rotation", "error", "crash", "renewal"}
Spend(k) == budget[k] > 0 /\ budget' = [budget EXCEPT ![k] = @ - 1]

IdleMgr == [at |-> "idle", carry |-> FALSE, signed |-> FALSE, fresh |-> {}, todo |-> {}]
IdleRec == [at |-> "idle", ca |-> 0, trust |-> {}, fresh |-> FALSE, old |-> FALSE]

Init ==
  /\ ca = 0 /\ bundle = {} /\ stage = "" /\ age = 0 /\ due = FALSE
  /\ leaf = [h \in Holders |-> Absent] /\ aged = {}
  /\ mount = [h \in Holders |-> Absent]
  /\ cert = [h \in Holders |-> 0] /\ roots = [h \in Holders |-> {}]
  /\ lag = [h \in Holders |-> 0]
  /\ issuer = [o \in Operators |-> Absent] /\ boot = {} /\ leader = Absent
  /\ mgr = IdleMgr /\ rec = [a \in Agents |-> IdleRec]
  /\ passed = FALSE
  /\ budget = [k \in Kinds |-> CASE k = "rotation" -> MaxRotations [] k = "error" -> MaxErrors
                                 [] k = "crash" -> MaxCrashes [] k = "renewal" -> MaxRenewals]

----------------------------------------------------------------------------
(* Operator replicas: EnsureCA at start, election, crash.                  *)

\* NewCAFor: a CA unlike any before.
NewCA == ca + 1

Load(o) == issuer' = [issuer EXCEPT ![o] = [ca |-> ca, trust |-> bundle]]

\* EnsureCA finds the Secret, or goes on to create one.
Start(o) ==
  /\ issuer[o] = Absent /\ o \notin boot
  /\ IF ca = 0 THEN boot' = boot \cup {o} /\ UNCHANGED issuer
               ELSE Load(o) /\ UNCHANGED boot
  /\ UNCHANGED <<caSecret, leaf, aged, procs, lag, leader, mgr, rec, passed, budget>>

\* EnsureCA creates the Secret; one who is not the first reads it again.
Create(o) ==
  /\ o \in boot
  /\ boot' = boot \ {o}
  /\ IF ca = 0 THEN /\ ca' = NewCA /\ bundle' = {NewCA}
                    /\ issuer' = [issuer EXCEPT ![o] = [ca |-> NewCA, trust |-> {NewCA}]]
               ELSE Load(o) /\ UNCHANGED <<ca, bundle>>
  /\ UNCHANGED <<stage, age, due, leaf, aged, procs, lag, leader, mgr, rec, passed, budget>>

Current(o) == issuer[o] = [ca |-> ca, trust |-> bundle]

\* Leader election: the manager and the reconciler of the replica start.
Elect(o) ==
  /\ leader = Absent /\ issuer[o] # Absent
  /\ StaleStandby \/ Current(o)
  /\ leader' = o
  /\ UNCHANGED <<caSecret, leaf, aged, procs, lag, issuer, boot, mgr, rec, passed, budget>>

\* A replica crashes; with the leader go its pass and its reconciles.
Crash(o) ==
  /\ issuer[o] # Absent
  /\ Spend("crash")
  /\ issuer' = [issuer EXCEPT ![o] = Absent]
  /\ IF leader = o THEN /\ leader' = Absent /\ mgr' = IdleMgr /\ passed' = FALSE
                        /\ rec' = [a \in Agents |-> IdleRec]
                   ELSE UNCHANGED <<leader, mgr, rec, passed>>
  /\ UNCHANGED <<caSecret, leaf, aged, procs, lag, boot>>

----------------------------------------------------------------------------
(* Leaf.Data and the conditional write of a certificate Secret.            *)

\* Leaf.Data: the pair is kept if c signed it and it is not due for renewal,
\* and gets the bundle t; otherwise a new one is issued.
Data(c, t) == [signer |-> c, bundle |-> t]

\* Mutant: a certificate is reissued for another CA, never for its age.
ChangedCA(h, c, t) == leaf[h] = Absent \/ leaf[h] # Data(c, t)

Changed(h, c, t) == leaf[h] = Absent \/ leaf[h] # Data(c, t) \/ h \in aged

InUse(h, d) == mount[h] = d /\ cert[h] = d.signer /\ roots[h] = d.bundle

\* CA.Issue: the certificate of h begins its lifetime; one that Data kept has
\* not entered its renewal window.
Issue(h) == aged' = aged \ {h}

Put(h, c, t, wait) ==
  /\ leaf' = [leaf EXCEPT ![h] = Data(c, t)]
  /\ Issue(h)
  /\ lag' = [lag EXCEPT ![h] = IF mount[h] = Absent \/ InUse(h, Data(c, t)) THEN 0
                              ELSE IF @ = 2 THEN 2 ELSE wait]

----------------------------------------------------------------------------
(* Manager.Sync.                                                           *)

\* The agents' Secrets the pass lists, with the gateway's.
agentLeaves == {h \in Holders : leaf[h] # Absent}

allCarry(leaves) == \A h \in leaves : leaf[h].bundle = bundle
allSignedBy(leaves) == \A h \in leaves : leaf[h].signer = ca /\ h \notin aged

\* The pass reads the CA Secret, which only it writes, and the others; allCarry
\* and allSignedBy are about what it has read.
Sync ==
  /\ leader # Absent /\ mgr.at = "idle" /\ ~passed
  /\ mgr' = [at |-> "rotate", fresh |-> agentLeaves, todo |-> agentLeaves \ {Gateway},
             carry |-> allCarry(agentLeaves), signed |-> allSignedBy(agentLeaves)]
  /\ UNCHANGED <<caSecret, leaf, aged, procs, lag, ops, rec, passed, budget>>

\* Mutant: a stage does not wait for the mounted Secrets to reach the pods.
NoOverlap == TRUE

settled == age >= Overlap

promotable == settled /\ mgr.carry

retirable == settled /\ mgr.carry /\ mgr.signed

\* rotate: (none) -> next -> promoted -> (none), one step in a pass.
Rotate ==
  /\ mgr.at = "rotate"
  /\ mgr' = [mgr EXCEPT !.at = "set", !.carry = FALSE, !.signed = FALSE]
  /\ \/ /\ stage = "" /\ due
        /\ bundle' = bundle \cup {NewCA} /\ stage' = "next" /\ age' = 0 /\ due' = FALSE
        /\ UNCHANGED ca
     \/ /\ stage = "next" /\ promotable
        /\ ca' = ca + 1 /\ stage' = "promoted" /\ age' = 0
        /\ UNCHANGED <<bundle, due>>
     \/ /\ stage = "promoted" /\ retirable
        /\ bundle' = {ca} /\ stage' = "" /\ age' = 0
        /\ UNCHANGED <<ca, due>>
     \/ /\ ~(stage = "" /\ due) /\ ~(stage = "next" /\ promotable) /\ ~(stage = "promoted" /\ retirable)
        /\ UNCHANGED caSecret
  /\ UNCHANGED <<leaf, aged, procs, lag, ops, rec, passed, budget>>

\* Issuer.SetCA.
SetCA ==
  /\ mgr.at = "set"
  /\ Load(leader)
  /\ mgr' = [mgr EXCEPT !.at = "gateway"]
  /\ UNCHANGED <<caSecret, leaf, aged, procs, lag, boot, leader, rec, passed, budget>>

\* ensureGateway: the manager is its only writer.
EnsureGateway ==
  /\ mgr.at = "gateway"
  /\ mgr' = [mgr EXCEPT !.at = "agents", !.fresh = @ \ {Gateway}]
  /\ IF Changed(Gateway, ca, bundle) THEN Put(Gateway, ca, bundle, 2) ELSE UNCHANGED <<leaf, aged, lag>>
  /\ UNCHANGED <<caSecret, procs, ops, rec, passed, budget>>

\* renew: conditional on the version listed; a conflict is left for later.
Renew(a) ==
  /\ mgr.at = "agents" /\ a \in mgr.todo
  /\ mgr' = [mgr EXCEPT !.todo = @ \ {a}, !.fresh = @ \ {a}]
  /\ IF a \in mgr.fresh /\ Changed(a, ca, bundle)
       THEN Put(a, ca, bundle, 2) /\ rec' = [rec EXCEPT ![a].fresh = FALSE]
       ELSE UNCHANGED <<leaf, aged, lag, rec>>
  /\ UNCHANGED <<caSecret, procs, ops, passed, budget>>

EndPass ==
  /\ mgr.at = "agents" /\ mgr.todo = {}
  /\ mgr' = IdleMgr /\ passed' = TRUE
  /\ UNCHANGED <<caSecret, leaf, aged, procs, lag, ops, rec, budget>>

\* A write of the CA Secret or of the gateway's fails and ends the pass; one
\* of an agent's Secret is left for the next pass.
WriteFails ==
  /\ Spend("error")
  /\ \/ /\ mgr.at \in {"rotate", "gateway"}
        /\ mgr' = IdleMgr /\ passed' = TRUE
     \/ /\ mgr.at = "agents"
        /\ \E a \in mgr.todo : mgr' = [mgr EXCEPT !.todo = @ \ {a}, !.fresh = @ \ {a}]
        /\ UNCHANGED passed
  /\ UNCHANGED <<caSecret, leaf, aged, procs, lag, ops, rec>>

----------------------------------------------------------------------------
(* The reconciler's ensureTLSSecret: Issuer.CA, Issuer.Trust, Get, write.  *)

ReadCA(a) ==
  /\ leader # Absent /\ rec[a].at = "idle"
  /\ rec' = [rec EXCEPT ![a] = [IdleRec EXCEPT !.at = "trust", !.ca = issuer[leader].ca]]
  /\ UNCHANGED <<caSecret, leaf, aged, procs, lag, ops, mgr, passed, budget>>

ReadTrust(a) ==
  /\ rec[a].at = "trust"
  /\ rec' = [rec EXCEPT ![a].at = "get", ![a].trust = issuer[leader].trust]
  /\ UNCHANGED <<caSecret, leaf, aged, procs, lag, ops, mgr, passed, budget>>

GetLeaf(a) ==
  /\ rec[a].at = "get"
  /\ rec' = [rec EXCEPT ![a].at = "put", ![a].fresh = TRUE]
  /\ UNCHANGED <<caSecret, leaf, aged, procs, lag, ops, mgr, passed, budget>>

\* Create or Update; one that is not the first or conflicts writes nothing.
PutLeaf(a) ==
  /\ rec[a].at = "put"
  /\ rec' = [rec EXCEPT ![a] = IdleRec]
  /\ IF rec[a].fresh /\ Changed(a, rec[a].ca, rec[a].trust)
       THEN Put(a, rec[a].ca, rec[a].trust, 1) /\ mgr' = [mgr EXCEPT !.fresh = @ \ {a}]
       ELSE UNCHANGED <<leaf, aged, lag, mgr>>
  /\ UNCHANGED <<caSecret, procs, ops, passed, budget>>

----------------------------------------------------------------------------
(* Pods: kubelet mounts the Secret, the process reloads pair and bundle.   *)

\* The way is over once pair and bundle of the Secret are in use.
Arrived(h, m, c, r) ==
  IF leaf[h] = m /\ c = m.signer /\ r = m.bundle THEN 0 ELSE lag[h]

\* A pod that starts loads what the Secret holds (LoadDir).
StartPod(h) ==
  /\ leaf[h] # Absent /\ mount[h] = Absent
  /\ mount' = [mount EXCEPT ![h] = leaf[h]]
  /\ cert' = [cert EXCEPT ![h] = leaf[h].signer]
  /\ roots' = [roots EXCEPT ![h] = leaf[h].bundle]
  /\ lag' = [lag EXCEPT ![h] = 0]
  /\ UNCHANGED <<caSecret, leaf, aged, ops, mgr, rec, passed, budget>>

\* Kubelet swaps the mounted directory.
Mount(h) ==
  /\ mount[h] # Absent /\ mount[h] # leaf[h]
  /\ mount' = [mount EXCEPT ![h] = leaf[h]]
  /\ lag' = [lag EXCEPT ![h] = Arrived(h, leaf[h], cert[h], roots[h])]
  /\ UNCHANGED <<caSecret, leaf, aged, cert, roots, ops, mgr, rec, passed, budget>>

\* KeyPair.Certificate reads its files again.
ReloadPair(h) ==
  /\ mount[h] # Absent /\ cert[h] # mount[h].signer
  /\ cert' = [cert EXCEPT ![h] = mount[h].signer]
  /\ lag' = [lag EXCEPT ![h] = Arrived(h, mount[h], mount[h].signer, roots[h])]
  /\ UNCHANGED <<caSecret, leaf, aged, mount, roots, ops, mgr, rec, passed, budget>>

\* Roots.Pool reads its file again.
ReloadRoots(h) ==
  /\ mount[h] # Absent /\ roots[h] # mount[h].bundle
  /\ roots' = [roots EXCEPT ![h] = mount[h].bundle]
  /\ lag' = [lag EXCEPT ![h] = Arrived(h, mount[h], cert[h], mount[h].bundle)]
  /\ UNCHANGED <<caSecret, leaf, aged, mount, cert, ops, mgr, rec, passed, budget>>

----------------------------------------------------------------------------
(* Time.                                                                   *)

\* NeedsRotation.
CAAges ==
  /\ ca # 0 /\ stage = "" /\ ~due
  /\ Spend("rotation")
  /\ due' = TRUE
  /\ UNCHANGED <<ca, bundle, stage, age, leaf, aged, procs, lag, ops, mgr, rec, passed>>

\* NeedsRenewal, of a certificate with its CA unchanged.
LeafAges(h) ==
  /\ leaf[h] # Absent /\ h \notin aged
  /\ Spend("renewal")
  /\ aged' = aged \cup {h}
  /\ UNCHANGED <<caSecret, leaf, procs, lag, ops, mgr, rec, passed>>

\* The interval between two passes of a leader.  What the pass has written is
\* in use before it is over; a reconcile, and what a reconcile has written, may
\* take into the next one.
Tick ==
  /\ passed /\ mgr.at = "idle"
  /\ \A a \in Agents : ~rec[a].old
  /\ \A h \in Holders : lag[h] < 2
  /\ age' = IF stage # "" /\ age < Overlap THEN age + 1 ELSE age
  /\ passed' = FALSE
  /\ rec' = [a \in Agents |-> [rec[a] EXCEPT !.old = (rec[a].at # "idle")]]
  /\ lag' = [h \in Holders |-> IF lag[h] = 1 THEN 2 ELSE lag[h]]
  /\ UNCHANGED <<ca, bundle, stage, due, leaf, aged, procs, ops, mgr, budget>>

----------------------------------------------------------------------------
Operator == \E o \in Operators : Start(o) \/ Create(o) \/ Elect(o)
Manager == Sync \/ Rotate \/ SetCA \/ EnsureGateway \/ EndPass \/ \E a \in Agents : Renew(a)
Reconciler(a) == ReadCA(a) \/ ReadTrust(a) \/ GetLeaf(a) \/ PutLeaf(a)
Pod(h) == StartPod(h) \/ Mount(h) \/ ReloadPair(h) \/ ReloadRoots(h)

Next ==
  \/ Operator \/ Manager \/ WriteFails \/ CAAges \/ Tick
  \/ \E o \in Operators : Crash(o)
  \/ \E a \in Agents : Reconciler(a)
  \/ \E h \in Holders : Pod(h) \/ LeafAges(h)

Spec == Init /\ [][Next]_vars

\* Replicas start and one is elected, the manager passes every ten minutes,
\* a reconcile that has begun ends, kubelet and the processes reload, time
\* passes.  Nothing makes a reconcile begin.
FairSpec ==
  /\ Spec
  /\ WF_vars(Operator) /\ WF_vars(Manager) /\ WF_vars(Tick)
  /\ \A a \in Agents : WF_vars(ReadTrust(a) \/ GetLeaf(a) \/ PutLeaf(a))
  /\ \A h \in Holders : WF_vars(Pod(h))

----------------------------------------------------------------------------
CAs == 0..(MaxRotations + 1)

TypeOK ==
  /\ ca \in CAs /\ bundle \subseteq CAs /\ stage \in {"", "next", "promoted"}
  /\ age \in 0..Overlap /\ due \in BOOLEAN /\ aged \subseteq Holders
  /\ \A h \in Holders : /\ leaf[h] # Absent => leaf[h].signer \in CAs /\ leaf[h].bundle \subseteq CAs
                        /\ cert[h] \in CAs /\ roots[h] \subseteq CAs /\ lag[h] \in 0..2
  /\ (leader \in Operators) => issuer[leader] # Absent

\* What the leading operator shows and trusts (Issuer.ClientConfig), and what
\* a process trusts when it is shown a certificate (Dir.ServerConfig, ClientConfig).
Running(h) == mount[h] # Absent
ClientCertificate == issuer[leader].ca
ClientRoots == issuer[leader].trust
Trusts(h, c) == c \in roots[h]

(***************************************************************************)
(* At every moment each peer trusts the CA of every certificate it can be  *)
(* shown (rotate's comment, ARCHITECTURE.md 12.6), whatever the order in   *)
(* which Secrets, mounts, pairs and bundles change: agents and the gateway *)
(* see each other's certificates, agents and the leading operator do, and  *)
(* the shim of a server, which reads the mounted bundle, sees its agent's. *)
(***************************************************************************)
PeersTrust ==
  \A a \in Agents : Running(a) =>
    /\ Running(Gateway) => Trusts(Gateway, cert[a]) /\ Trusts(a, cert[Gateway])
    /\ leader # Absent => cert[a] \in ClientRoots /\ Trusts(a, ClientCertificate)
    /\ cert[a] \in mount[a].bundle

(***************************************************************************)
(* A rotation that has begun ends and a certificate that enters its        *)
(* renewal window is replaced, through crashes between the steps, failed   *)
(* writes and conflicts with the reconciler, also when no reconcile visits *)
(* the server: no pass waits for a Secret that nothing will rewrite.       *)
(***************************************************************************)
CertificatesSettle == (stage # "" \/ aged # {}) ~> (stage = "" /\ aged = {})
=============================================================================
