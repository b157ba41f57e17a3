----------------------------- MODULE CertsProofs -----------------------------
(***************************************************************************)
(* Proofs about the rotation of the internal CA (module Certs).            *)
(***************************************************************************)
EXTENDS Certs, TLAPS

Bundles == SUBSET Nat
Pairs == [signer : Nat, bundle : Bundles]
Issuers == [ca : Nat, trust : Bundles]
Passes == [at : {"idle", "rotate", "set", "gateway", "agents"}, carry : BOOLEAN, signed : BOOLEAN,
           fresh : SUBSET Holders, todo : SUBSET Agents]
Reads == [at : {"idle", "trust", "get", "put"}, ca : Nat, trust : Bundles, fresh : BOOLEAN, old : BOOLEAN]

Types ==
  /\ ca \in Nat /\ bundle \in Bundles /\ stage \in {"", "next", "promoted"} /\ age \in Nat
  /\ leaf \in [Holders -> Pairs \cup {Absent}] /\ mount \in [Holders -> Pairs \cup {Absent}]
  /\ cert \in [Holders -> Nat] /\ roots \in [Holders -> Bundles] /\ lag \in [Holders -> {0, 1, 2}]
  /\ issuer \in [Operators -> Issuers \cup {Absent}] /\ leader \in Operators \cup {Absent}
  /\ mgr \in Passes /\ rec \in [Agents -> Reads] /\ budget \in [Kinds -> Nat] /\ budget["error"] <= MaxErrors

\* What the CA Secret trusts in each stage of a rotation.
StageInv ==
  /\ ca = 0 => stage = ""
  /\ ca # 0 /\ stage = "" => bundle = {ca}
  /\ stage = "next" => bundle = {ca, ca + 1}
  /\ stage = "promoted" => ca > 0 /\ bundle = {ca - 1, ca}

\* Without a CA nothing was issued.
EmptyInv ==
  ca = 0 => /\ \A o \in Operators : issuer[o] = Absent
            /\ leader = Absent
            /\ \A h \in Holders : leaf[h] = Absent /\ mount[h] = Absent

\* Who works for a leader goes with it; its Issuer is behind the CA Secret only
\* between rotate and SetCA, in the tick in which the stage began.
LeaderInv ==
  /\ leader # Absent => issuer[leader] # Absent
  /\ mgr.at # "idle" => leader # Absent
  /\ \A a \in Agents : rec[a].at # "idle" => leader # Absent
  /\ leader # Absent => Current(leader) \/ (mgr.at = "set" /\ age = 0)

\* A signer and a bundle that may be about without a peer that does not trust.
SafeSigner(s) == IF stage = "promoted" THEN s \in bundle ELSE s = ca
SafeBundle(t) == IF stage = "promoted" THEN t = bundle ELSE ca \in t
SafePair(d) == SafeSigner(d.signer) /\ SafeBundle(d.bundle)

SafeLeaf(h) == leaf[h] # Absent => SafePair(leaf[h])
SafeProc(h) == mount[h] # Absent => SafePair(mount[h]) /\ SafeSigner(cert[h]) /\ SafeBundle(roots[h])
SafeRec(a) ==
  /\ rec[a].at # "idle" => SafeSigner(rec[a].ca)
  /\ rec[a].at \in {"get", "put"} => SafeBundle(rec[a].trust)
SafeLeader == leader # Absent => SafeSigner(issuer[leader].ca) /\ SafeBundle(issuer[leader].trust)

SafeInv == (\A h \in Holders : SafeLeaf(h) /\ SafeProc(h)) /\ (\A a \in Agents : SafeRec(a)) /\ SafeLeader

\* A signer and a bundle with which the stage may end.
GoodSigner(s) == stage = "promoted" => s = ca
GoodBundle(t) == stage = "next" => t = bundle
GoodPair(d) == GoodSigner(d.signer) /\ GoodBundle(d.bundle)
GoodLeaf(h) == leaf[h] # Absent => GoodPair(leaf[h])
GoodProc(h) == mount[h] # Absent => GoodPair(mount[h]) /\ GoodSigner(cert[h]) /\ GoodBundle(roots[h])
GoodRec(a) ==
  /\ rec[a].at # "idle" => GoodSigner(rec[a].ca)
  /\ rec[a].at \in {"get", "put"} => GoodBundle(rec[a].trust)

\* No more than n ticks, and one for each write that has failed, into the stage.
Within(n) == age + budget["error"] <= MaxErrors + n

\* A reconcile that read before the stage began is over two ticks later.
RecInv == \A a \in Agents : GoodRec(a) \/ age = 0 \/ (age = 1 /\ rec[a].old)

\* From then on every pass writes the Secrets that need it, unless a write fails.
Pending(h) ==
  /\ Within(2)
  /\ passed => Within(1)
  /\ mgr.at \in {"rotate", "set", "gateway"} => h \in mgr.todo \cup {Gateway}
  /\ mgr.at = "agents" /\ h \notin mgr.todo => Within(1)
  /\ mgr.at # "idle" /\ h \in mgr.todo => h \in mgr.fresh

LeafInv == \A h \in Holders : GoodLeaf(h) \/ age <= 1 \/ Pending(h)

\* What a process uses is on its way for two ticks at most.
UseInv == \A h \in Holders : mount[h] # Absent /\ lag[h] = 0 => InUse(h, leaf[h])
ProcInv == \A h \in Holders : GoodProc(h) \/ Within(2) \/ (lag[h] = 2 /\ Within(3))

Inv == Types /\ StageInv /\ EmptyInv /\ LeaderInv /\ SafeInv /\ RecInv /\ LeafInv /\ UseInv /\ ProcInv

----------------------------------------------------------------------------
(* Types.                                                                  *)

LEMMA AbsentIsAbsent == Absent \notin Operators /\ Absent \notin Pairs /\ Absent \notin Issuers
BY AbsentAssumption DEF Pairs, Issuers, Bundles

LEMMA BoundsAreNat == Overlap \in Nat /\ MaxErrors \in Nat
BY CertsAssumption

\* The next CA and the next tick.
LEMMA Numbers ==
  ASSUME Types
  PROVE  /\ ca \in Nat /\ age \in Nat /\ bundle \in Bundles /\ ca + 1 \in Nat /\ age + 1 \in Nat
         /\ budget["error"] \in Nat /\ budget["error"] <= MaxErrors
<1>1. ca \in Nat /\ age \in Nat /\ bundle \in Bundles /\ budget["error"] \in Nat /\ budget["error"] <= MaxErrors
  BY DEF Types, Kinds
<1> QED
  BY <1>1

LEMMA BundleTypes ==
  {} \in Bundles /\ \A c \in Nat : {c} \in Bundles /\ \A t \in Bundles : t \cup {c} \in Bundles
BY DEF Bundles

\* The pass and the reconciles rest, or take a step.
LEMMA PassTypes ==
  /\ IdleMgr \in Passes
  /\ \A m \in Passes, s \in {"set", "gateway"} : [m EXCEPT !.at = s] \in Passes
  /\ \A m \in Passes : [m EXCEPT !.at = "set", !.carry = FALSE, !.signed = FALSE] \in Passes
  /\ \A m \in Passes, f \in SUBSET Holders : [m EXCEPT !.at = "agents", !.fresh = f] \in Passes
  /\ \A m \in Passes, f \in SUBSET Holders : [m EXCEPT !.fresh = f] \in Passes
  /\ \A m \in Passes, t \in SUBSET Agents, f \in SUBSET Holders : [m EXCEPT !.todo = t, !.fresh = f] \in Passes
BY DEF Passes, IdleMgr

LEMMA ReadTypes ==
  /\ IdleRec \in Reads
  /\ \A c \in Nat : [IdleRec EXCEPT !.at = "trust", !.ca = c] \in Reads
  /\ \A r \in Reads, t \in Bundles : [r EXCEPT !.at = "get", !.trust = t] \in Reads
  /\ \A r \in Reads : [r EXCEPT !.at = "put", !.fresh = TRUE] \in Reads
  /\ \A r \in Reads : [r EXCEPT !.fresh = FALSE] \in Reads
  /\ \A r \in Reads, b \in BOOLEAN : [r EXCEPT !.old = b] \in Reads
BY BundleTypes DEF Reads, IdleRec

\* The conditional write of a Secret.
LEMMA PutTypes ==
  ASSUME Types, NEW h \in Holders, NEW c \in Nat, NEW t \in Bundles, NEW w \in {1, 2}, Put(h, c, t, w)
  PROVE  /\ leaf' \in [Holders -> Pairs \cup {Absent}] /\ lag' \in [Holders -> {0, 1, 2}]
         /\ leaf'[h] = Data(c, t) /\ Data(c, t) \in Pairs
         /\ \A g \in Holders \ {h} : leaf'[g] = leaf[g] /\ lag'[g] = lag[g]
         /\ lag'[h] = IF mount[h] = Absent \/ InUse(h, Data(c, t)) THEN 0 ELSE IF lag[h] = 2 THEN 2 ELSE w
<1>1. Data(c, t) \in Pairs
  BY DEF Data, Pairs
<1>2. leaf' \in [Holders -> Pairs \cup {Absent}] /\ leaf'[h] = Data(c, t)
  BY <1>1 DEF Put, Types
<1>3. lag' \in [Holders -> {0, 1, 2}]
        /\ lag'[h] = IF mount[h] = Absent \/ InUse(h, Data(c, t)) THEN 0 ELSE IF lag[h] = 2 THEN 2 ELSE w
  BY DEF Put, Types
<1>4. \A g \in Holders \ {h} : leaf'[g] = leaf[g] /\ lag'[g] = lag[g]
  BY DEF Put, Types
<1> QED
  BY <1>1, <1>2, <1>3, <1>4

PutWrites(h, d, w) ==
  /\ leaf'[h] = d /\ \A g \in Holders \ {h} : leaf'[g] = leaf[g] /\ lag'[g] = lag[g]
  /\ lag'[h] = IF mount[h] = Absent \/ InUse(h, d) THEN 0 ELSE IF lag[h] = 2 THEN 2 ELSE w

LEMMA PutSteps ==
  ASSUME Types, NEW h \in Holders, NEW c \in Nat, NEW t \in Bundles, NEW w \in {1, 2}, Put(h, c, t, w)
  PROVE  PutWrites(h, Data(c, t), w)
BY PutTypes DEF PutWrites

LEMMA TypesInit == Init => Types
<1> SUFFICES ASSUME Init PROVE Types
  OBVIOUS
<1>1. budget \in [Kinds -> Nat] /\ budget["error"] <= MaxErrors
  <2>1. {MaxRotations, MaxErrors, MaxCrashes, MaxRenewals} \subseteq Nat
    BY CertsAssumption
  <2>2. budget["error"] = MaxErrors
    BY DEF Init, Kinds
  <2> QED
    <3>1. budget \in [Kinds -> {MaxRotations, MaxErrors, MaxCrashes, MaxRenewals}]
      BY DEF Init, Kinds
    <3> QED
      BY <2>1, <2>2, <3>1
<1>2. cert \in [Holders -> Nat] /\ roots \in [Holders -> Bundles] /\ lag \in [Holders -> {0, 1, 2}]
  BY DEF Init, Bundles
<1>3. leaf \in [Holders -> Pairs \cup {Absent}] /\ mount \in [Holders -> Pairs \cup {Absent}]
  BY DEF Init
<1>4. issuer \in [Operators -> Issuers \cup {Absent}] /\ leader \in Operators \cup {Absent}
  BY DEF Init
<1>5. mgr \in Passes /\ rec \in [Agents -> Reads]
  BY PassTypes, ReadTypes, Zenon DEF Init
<1>6. ca \in Nat /\ bundle \in Bundles /\ stage \in {"", "next", "promoted"} /\ age \in Nat
  BY BundleTypes DEF Init
<1> QED
  BY <1>1, <1>2, <1>3, <1>4, <1>5, <1>6 DEF Types

\* Spending one of the bounds.
LEMMA SpendTypes ==
  ASSUME Types, NEW k \in Kinds, Spend(k)
  PROVE  /\ budget' \in [Kinds -> Nat] /\ budget'["error"] <= MaxErrors
         /\ k # "error" => budget'["error"] = budget["error"]
         /\ k = "error" => budget["error"] = budget'["error"] + 1
<1>1. budget \in [Kinds -> Nat] /\ budget["error"] <= MaxErrors /\ "error" \in Kinds
  BY DEF Types, Kinds
<1>2. budget[k] \in Nat /\ budget[k] > 0 /\ budget' = [budget EXCEPT ![k] = budget[k] - 1]
  BY <1>1 DEF Spend
<1>3. budget[k] - 1 \in Nat /\ budget[k] = (budget[k] - 1) + 1
  BY <1>2
<1>4. budget' \in [Kinds -> Nat] /\ budget'[k] = budget[k] - 1 /\ (k # "error" => budget'["error"] = budget["error"])
  BY <1>1, <1>2, <1>3
<1> QED
  BY <1>1, <1>2, <1>3, <1>4, BoundsAreNat

\* The steps of a rotation.
Begins == stage = "" /\ ca' = ca /\ bundle' = bundle \cup {ca + 1} /\ stage' = "next" /\ age' = 0
Promotes == stage = "next" /\ age >= Overlap /\ ca' = ca + 1 /\ bundle' = bundle /\ stage' = "promoted" /\ age' = 0
Retires == stage = "promoted" /\ age >= Overlap /\ ca' = ca /\ bundle' = {ca} /\ stage' = "" /\ age' = 0
SameCA == ca' = ca /\ bundle' = bundle /\ stage' = stage
Stays == SameCA /\ age' = age

LEMMA RotateSteps == ASSUME Rotate PROVE Begins \/ Promotes \/ Retires \/ Stays
BY DEF Rotate, NewCA, promotable, retirable, settled, caSecret, Begins, Promotes, Retires, Stays, SameCA

LEMMA TypesNext == Types /\ LeaderInv /\ [Next]_vars => Types'
<1> SUFFICES ASSUME Types, LeaderInv, [Next]_vars PROVE Types'
  OBVIOUS
<1> USE DEF vars, caSecret, procs, ops
<1>1. ASSUME NEW o \in Operators, Start(o) PROVE Types'
  <2>1. [ca |-> ca, trust |-> bundle] \in Issuers
    BY DEF Types, Issuers
  <2> QED
    BY <1>1, <2>1 DEF Start, Load, Types
<1>2. ASSUME NEW o \in Operators, Create(o) PROVE Types'
  <2>1. [ca |-> ca, trust |-> bundle] \in Issuers /\ [ca |-> ca + 1, trust |-> {ca + 1}] \in Issuers
            /\ ca + 1 \in Nat /\ {ca + 1} \in Bundles
    BY BundleTypes, Numbers DEF Issuers
  <2>2. ca' \in Nat /\ bundle' \in Bundles
    BY <1>2, <2>1 DEF Create, NewCA, Types
  <2>3. issuer' \in [Operators -> Issuers \cup {Absent}]
    BY <1>2, <2>1 DEF Create, Load, NewCA, Types
  <2> QED
    BY <1>2, <2>2, <2>3 DEF Create, Types
<1>3. ASSUME NEW o \in Operators, Elect(o) PROVE Types'
  BY <1>3 DEF Elect, Types
<1>4. ASSUME NEW o \in Operators, Crash(o) PROVE Types'
  <2>1. budget' \in [Kinds -> Nat] /\ budget'["error"] <= MaxErrors
    BY <1>4, SpendTypes DEF Crash, Kinds
  <2>2. mgr' \in Passes /\ rec' \in [Agents -> Reads]
    BY <1>4, PassTypes, ReadTypes, ZenonT(30) DEF Crash, Types
  <2> QED
    BY <1>4, <2>1, <2>2 DEF Crash, Types
<1>5. CASE Sync
  <2>1. mgr' \in Passes
    <3>1. allCarry(agentLeaves) \in BOOLEAN /\ allSignedBy(agentLeaves) \in BOOLEAN
      BY DEF allCarry, allSignedBy
    <3>2. agentLeaves \in SUBSET Holders /\ agentLeaves \ {Gateway} \in SUBSET Agents
      BY DEF agentLeaves, Holders
    <3> QED
      BY <1>5, <3>1, <3>2 DEF Sync, Passes
  <2> QED
    BY <1>5, <2>1 DEF Sync, Types
<1>6. CASE Rotate
  <2>1. mgr' \in Passes
    BY <1>6, PassTypes, Zenon DEF Rotate, Types
  <2>2. ca' \in Nat /\ bundle' \in Bundles /\ stage' \in {"", "next", "promoted"} /\ age' \in Nat
    <3>1. ca + 1 \in Nat /\ bundle \cup {ca + 1} \in Bundles /\ {ca} \in Bundles
      BY BundleTypes, Numbers, Zenon
    <3>2. stage \in {"", "next", "promoted"} /\ 0 \in Nat
      BY DEF Types
    <3> QED
      BY <1>6, <3>1, <3>2, Numbers, RotateSteps DEF Begins, Promotes, Retires, Stays, SameCA
  <2> QED
    BY <1>6, <2>1, <2>2 DEF Rotate, Types
<1>7. CASE SetCA
  <2>1. mgr' \in Passes
    BY <1>7, PassTypes, Zenon DEF SetCA, Types
  <2>2. [ca |-> ca, trust |-> bundle] \in Issuers
    BY DEF Types, Issuers
  <2> QED
    BY <1>7, <2>1, <2>2 DEF SetCA, Load, Types
<1>8. CASE EnsureGateway
  <2>1. mgr' \in Passes
    <3>1. mgr.fresh \ {Gateway} \in SUBSET Holders
      BY DEF Types, Passes
    <3> QED
      BY <1>8, <3>1, PassTypes, Zenon DEF EnsureGateway, Types
  <2>2. leaf' \in [Holders -> Pairs \cup {Absent}] /\ lag' \in [Holders -> {0, 1, 2}]
    BY <1>8, PutTypes DEF EnsureGateway, Types, Holders
  <2> QED
    BY <1>8, <2>1, <2>2 DEF EnsureGateway, Types
<1>9. ASSUME NEW a \in Agents, Renew(a) PROVE Types'
  <2>1. mgr' \in Passes
    <3>1. mgr.fresh \ {a} \in SUBSET Holders /\ mgr.todo \ {a} \in SUBSET Agents
      BY DEF Types, Passes
    <3> QED
      BY <1>9, <3>1, PassTypes, Zenon DEF Renew, Types
  <2>2. leaf' \in [Holders -> Pairs \cup {Absent}] /\ lag' \in [Holders -> {0, 1, 2}]
    BY <1>9, PutTypes DEF Renew, Types, Holders
  <2>3. rec' \in [Agents -> Reads]
    <3>1. [rec[a] EXCEPT !.fresh = FALSE] \in Reads
      BY ReadTypes, Zenon DEF Types
    <3>2. rec' = rec \/ rec' = [rec EXCEPT ![a] = [rec[a] EXCEPT !.fresh = FALSE]]
      BY <1>9 DEF Renew, Types, Reads
    <3> QED
      BY <3>1, <3>2 DEF Types
  <2> QED
    BY <1>9, <2>1, <2>2, <2>3 DEF Renew, Types
<1>10. CASE EndPass
  BY <1>10, PassTypes, ZenonT(30) DEF EndPass, Types
<1>11. CASE WriteFails
  <2>1. budget' \in [Kinds -> Nat] /\ budget'["error"] <= MaxErrors
    BY <1>11, SpendTypes, Zenon DEF WriteFails, Kinds
  <2>2. mgr' \in Passes
    <3>1. \A a : mgr.fresh \ {a} \in SUBSET Holders /\ mgr.todo \ {a} \in SUBSET Agents
      BY DEF Types, Passes
    <3> QED
      <4>1. CASE mgr' = IdleMgr
        BY <4>1, PassTypes, Zenon
      <4>2. CASE mgr' # IdleMgr
        <5>1. PICK a \in mgr.todo : mgr' = [mgr EXCEPT !.todo = @ \ {a}, !.fresh = @ \ {a}]
          BY <1>11, <4>2, ZenonT(30) DEF WriteFails
        <5>2. [mgr EXCEPT !.todo = mgr.todo \ {a}, !.fresh = mgr.fresh \ {a}] \in Passes
          BY <3>1, PassTypes, Zenon DEF Types
        <5> QED
          BY <5>1, <5>2 DEF Types, Passes
      <4> QED
        BY <4>1, <4>2
  <2> QED
    BY <1>11, <2>1, <2>2, ZenonT(30) DEF WriteFails, Types
<1>12. ASSUME NEW a \in Agents, ReadCA(a) PROVE Types'
  <2>1. issuer[leader] \in Issuers
    BY <1>12 DEF ReadCA, LeaderInv, Types
  <2>2. [IdleRec EXCEPT !.at = "trust", !.ca = issuer[leader].ca] \in Reads
    BY <2>1, ReadTypes, Zenon DEF Issuers
  <2> QED
    BY <1>12, <2>2 DEF ReadCA, Types
<1>13. ASSUME NEW a \in Agents, ReadTrust(a) PROVE Types'
  <2>1. issuer[leader] \in Issuers
    BY <1>13 DEF ReadTrust, LeaderInv, Types
  <2>2. [rec[a] EXCEPT !.at = "get", !.trust = issuer[leader].trust] \in Reads
    BY <2>1, ReadTypes, Zenon DEF Issuers, Types
  <2>3. rec' = [rec EXCEPT ![a] = [rec[a] EXCEPT !.at = "get", !.trust = issuer[leader].trust]]
    BY <1>13 DEF ReadTrust, Types, Reads
  <2> QED
    BY <1>13, <2>2, <2>3 DEF ReadTrust, Types
<1>14. ASSUME NEW a \in Agents, GetLeaf(a) PROVE Types'
  <2>1. [rec[a] EXCEPT !.at = "put", !.fresh = TRUE] \in Reads
    BY ReadTypes, Zenon DEF Types
  <2>2. rec' = [rec EXCEPT ![a] = [rec[a] EXCEPT !.at = "put", !.fresh = TRUE]]
    BY <1>14 DEF GetLeaf, Types, Reads
  <2> QED
    BY <1>14, <2>1, <2>2 DEF GetLeaf, Types
<1>15. ASSUME NEW a \in Agents, PutLeaf(a) PROVE Types'
  <2>1. mgr' \in Passes
    <3>1. mgr.fresh \ {a} \in SUBSET Holders
      BY DEF Types, Passes
    <3> QED
      <4>1. [mgr EXCEPT !.fresh = mgr.fresh \ {a}] \in Passes
        BY <3>1, PassTypes, Zenon DEF Types
      <4> QED
        BY <1>15, <4>1 DEF PutLeaf, Types
  <2>2. leaf' \in [Holders -> Pairs \cup {Absent}] /\ lag' \in [Holders -> {0, 1, 2}]
    <3>1. rec[a].ca \in Nat /\ rec[a].trust \in Bundles
      BY DEF Types, Reads
    <3> QED
      BY <1>15, <3>1, PutTypes DEF PutLeaf, Types, Holders
  <2> QED
    BY <1>15, <2>1, <2>2, ReadTypes, Zenon DEF PutLeaf, Types
<1>16. ASSUME NEW h \in Holders, StartPod(h) PROVE Types'
  BY <1>16 DEF StartPod, Types, Pairs
<1>17. ASSUME NEW h \in Holders, Mount(h) PROVE Types'
  BY <1>17 DEF Mount, Arrived, Types
<1>18. ASSUME NEW h \in Holders, ReloadPair(h) PROVE Types'
  BY <1>18 DEF ReloadPair, Arrived, Types, Pairs
<1>19. ASSUME NEW h \in Holders, ReloadRoots(h) PROVE Types'
  BY <1>19 DEF ReloadRoots, Arrived, Types, Pairs
<1>20. CASE CAAges
  BY <1>20, SpendTypes DEF CAAges, Types, Kinds
<1>21. ASSUME NEW h \in Holders, LeafAges(h) PROVE Types'
  BY <1>21, SpendTypes DEF LeafAges, Types, Kinds
<1>22. CASE Tick
  <2>1. rec' \in [Agents -> Reads]
    <3>1. \A a \in Agents : (rec[a].at # "idle") \in BOOLEAN
      OBVIOUS
    <3>2. \A a \in Agents : [rec[a] EXCEPT !.old = (rec[a].at # "idle")] \in Reads
      BY <3>1, ReadTypes, Zenon DEF Types
    <3> QED
      BY <1>22, <3>2 DEF Tick
  <2>2. lag' \in [Holders -> {0, 1, 2}] /\ age' \in Nat
    <3>1. age + 1 \in Nat
      BY Numbers
    <3>2. age' \in {age, age + 1} /\ \A h \in Holders : lag[h] \in {0, 1, 2}
      BY <1>22 DEF Tick, Types
    <3>3. lag' = [h \in Holders |-> IF lag[h] = 1 THEN 2 ELSE lag[h]]
      BY <1>22 DEF Tick
    <3> QED
      BY <3>1, <3>2, <3>3 DEF Types
  <2> QED
    BY <1>22, <2>1, <2>2 DEF Tick, Types
<1>23. CASE UNCHANGED vars
  BY <1>23 DEF Types
<1> QED
  BY <1>1, <1>2, <1>3, <1>4, <1>5, <1>6, <1>7, <1>8, <1>9, <1>10, <1>11, <1>12, <1>13, <1>14, <1>15, <1>16, <1>17,
     <1>18, <1>19, <1>20, <1>21, <1>22, <1>23 DEF Next, Operator, Manager, Reconciler, Pod

----------------------------------------------------------------------------
(* The CA Secret, and the leader and who works for it.                     *)

\* A replica loads the CA Secret into its Issuer.
LEMMA LoadSteps ==
  ASSUME Types, NEW o \in Operators, Load(o)
  PROVE  /\ issuer'[o].ca = ca /\ issuer'[o].trust = bundle
         /\ \A p \in Operators \ {o} : issuer'[p] = issuer[p]
BY DEF Types, Load

\* Only a replica that finds no Secret, and the pass, write the CA Secret.
LEMMA SecretSteps ==
  ASSUME [Next]_vars
  PROVE  Stays \/ Rotate \/ Tick \/ \E o \in Operators : Create(o)
<1> USE DEF vars, caSecret, Stays, SameCA
<1>1. \A o \in Operators : Start(o) \/ Elect(o) \/ Crash(o) => Stays
  BY DEF Start, Elect, Crash
<1>2. Sync \/ SetCA \/ EnsureGateway \/ EndPass \/ WriteFails \/ CAAges => Stays
  BY Zenon DEF Sync, SetCA, EnsureGateway, EndPass, WriteFails, CAAges
<1>3. \A a \in Agents : Renew(a) \/ Reconciler(a) => Stays
  BY DEF Renew, Reconciler, ReadCA, ReadTrust, GetLeaf, PutLeaf
<1>4. \A h \in Holders : Pod(h) \/ LeafAges(h) => Stays
  BY DEF Pod, StartPod, Mount, ReloadPair, ReloadRoots, LeafAges
<1> QED
  BY <1>1, <1>2, <1>3, <1>4 DEF Next, Operator, Manager

LEMMA StageNext == Types /\ StageInv /\ EmptyInv /\ LeaderInv /\ [Next]_vars => StageInv'
<1> SUFFICES ASSUME Types, StageInv, EmptyInv, LeaderInv, [Next]_vars PROVE StageInv'
  OBVIOUS
<1> USE Numbers DEF StageInv
<1>1. CASE Stays
  BY <1>1 DEF Stays, SameCA
<1>2. CASE Rotate
  <2>1. ca # 0
    BY <1>2 DEF Rotate, EmptyInv, LeaderInv
  <2> HIDE DEF StageInv
  <2>2. CASE Begins
    BY <2>1, <2>2 DEF Begins, StageInv
  <2>3. CASE Promotes
    <3>1. bundle' = {ca' - 1, ca'} /\ ca' > 0
      BY <2>1, <2>3 DEF Promotes, StageInv
    <3> QED
      BY <2>3, <3>1 DEF Promotes, StageInv
  <2>4. CASE Retires
    BY <2>1, <2>4 DEF Retires, StageInv
  <2>5. CASE Stays
    BY <2>5 DEF Stays, SameCA, StageInv
  <2> QED
    BY <1>2, <2>2, <2>3, <2>4, <2>5, RotateSteps
<1>3. CASE Tick
  BY <1>3 DEF Tick
<1>4. ASSUME NEW o \in Operators, Create(o) PROVE StageInv'
  <2>1. CASE ca = 0
    BY <1>4, <2>1 DEF Create, NewCA
  <2>2. CASE ca # 0
    <3>1. ca' = ca /\ bundle' = bundle /\ stage' = stage
      BY <1>4, <2>2 DEF Create
    <3> QED
      BY <3>1
  <2> QED
    BY <2>1, <2>2
<1> QED
  BY <1>1, <1>2, <1>3, <1>4, SecretSteps

\* Two reconciles that differ at most in what makes a write conditional.
SameRead(r, s) == r.at = s.at /\ r.ca = s.ca /\ r.trust = s.trust /\ r.old = s.old

\* renew takes an agent off its list, and spoils the write of its reconcile.
LEMMA RenewSteps ==
  ASSUME Types, NEW a \in Agents, Renew(a)
  PROVE  /\ mgr.at = "agents" /\ mgr'.at = "agents"
         /\ mgr'.todo = mgr.todo \ {a} /\ mgr'.fresh = mgr.fresh \ {a}
         /\ \A b \in Agents : SameRead(rec'[b], rec[b])
<1>1. mgr.at = "agents" /\ mgr'.at = "agents" /\ mgr'.todo = mgr.todo \ {a} /\ mgr'.fresh = mgr.fresh \ {a}
  BY DEF Renew, Types, Passes
<1>2. CASE rec' = rec
  BY <1>1, <1>2 DEF SameRead
<1>3. CASE rec' = [rec EXCEPT ![a].fresh = FALSE]
  <2>1. \A b \in Agents : SameRead(rec'[b], rec[b])
    BY <1>3 DEF SameRead, Types, Reads
  <2> QED
    BY <1>1, <2>1
<1> QED
  BY <1>2, <1>3 DEF Renew

\* A failed write ends the pass or takes an agent off its list.
LEMMA FailSteps ==
  ASSUME Types, WriteFails
  PROVE  /\ mgr.at \in {"rotate", "gateway", "agents"}
         /\ \/ mgr' = IdleMgr
            \/ /\ mgr.at = "agents" /\ mgr'.at = "agents" /\ passed' = passed
               /\ \E a : mgr'.todo = mgr.todo \ {a} /\ mgr'.fresh = mgr.fresh \ {a}
<1>1. CASE mgr' = IdleMgr
  BY <1>1, Zenon DEF WriteFails
<1>2. CASE mgr' # IdleMgr
  <2>1. PICK a \in mgr.todo : mgr' = [mgr EXCEPT !.todo = @ \ {a}, !.fresh = @ \ {a}]
    BY <1>2, ZenonT(30) DEF WriteFails
  <2>2. mgr.at = "agents" /\ passed' = passed
    BY <1>2, Zenon DEF WriteFails
  <2>3. mgr'.at = mgr.at /\ mgr'.todo = mgr.todo \ {a} /\ mgr'.fresh = mgr.fresh \ {a}
    BY <2>1 DEF Types, Passes
  <2> QED
    BY <2>2, <2>3
<1> QED
  BY <1>1, <1>2

LEMMA LeaderNext == ~StaleStandby /\ Types /\ EmptyInv /\ LeaderInv /\ [Next]_vars => LeaderInv'
<1> SUFFICES ASSUME ~StaleStandby, Types, EmptyInv, LeaderInv, [Next]_vars PROVE LeaderInv'
  OBVIOUS
<1> USE AbsentIsAbsent DEF LeaderInv, Current, vars, caSecret, procs, ops
<1> DEFINE cur == [ca |-> ca, trust |-> bundle]
<1>0. cur # Absent
  BY Numbers DEF Issuers
<1>1. ASSUME NEW o \in Operators, Start(o) PROVE LeaderInv'
  BY <1>1, <1>0 DEF Start, Load, Types
<1>2. ASSUME NEW o \in Operators, Create(o) PROVE LeaderInv'
  <2>1. CASE ca = 0
    BY <1>2, <2>1 DEF Create, EmptyInv
  <2>2. CASE ca # 0
    BY <1>2, <2>2, <1>0 DEF Create, Load, Types
  <2> QED
    BY <2>1, <2>2
<1>3. ASSUME NEW o \in Operators, Elect(o) PROVE LeaderInv'
  BY <1>3 DEF Elect
<1>4. ASSUME NEW o \in Operators, Crash(o) PROVE LeaderInv'
  <2>1. CASE leader = o
    BY <1>4, <2>1 DEF Crash, IdleMgr, IdleRec
  <2>2. CASE leader # o
    <3>1. leader # Absent => issuer'[leader] = issuer[leader]
      BY <1>4, <2>2 DEF Crash, Types
    <3> QED
      BY <1>4, <2>2, <3>1 DEF Crash
  <2> QED
    BY <2>1, <2>2
<1>5. CASE Sync
  BY <1>5 DEF Sync
<1>6. CASE Rotate
  <2>1. mgr'.at = "set" /\ mgr.at = "rotate"
    BY <1>6 DEF Rotate, Types, Passes
  <2>2. age' = 0 \/ (ca' = ca /\ bundle' = bundle)
    BY <1>6, RotateSteps DEF Begins, Promotes, Retires, Stays, SameCA
  <2> QED
    BY <1>6, <2>1, <2>2 DEF Rotate
<1>7. CASE SetCA
  <2>1. leader \in Operators /\ mgr'.at = "gateway"
    BY <1>7 DEF SetCA, Types, Passes
  <2>2. issuer'[leader] = cur
    BY <1>7, <2>1 DEF SetCA, Load, Types
  <2> QED
    BY <1>7, <1>0, <2>1, <2>2 DEF SetCA
<1>8. CASE EnsureGateway
  BY <1>8 DEF EnsureGateway, Types, Passes
<1>9. ASSUME NEW a \in Agents, Renew(a) PROVE LeaderInv'
  BY <1>9, RenewSteps, ZenonT(30) DEF Renew, SameRead
<1>10. CASE EndPass
  BY <1>10 DEF EndPass, IdleMgr
<1>11. CASE WriteFails
  <2>1. mgr.at # "idle" /\ mgr.at # "set" /\ mgr'.at # "set"
    BY <1>11, FailSteps DEF IdleMgr
  <2> QED
    BY <1>11, <2>1, Zenon DEF WriteFails
<1>12. ASSUME NEW a \in Agents, ReadCA(a) \/ ReadTrust(a) \/ GetLeaf(a) PROVE LeaderInv'
  <2>1. leader # Absent
    BY <1>12 DEF ReadCA, ReadTrust, GetLeaf
  <2> QED
    BY <1>12, <2>1 DEF ReadCA, ReadTrust, GetLeaf
<1>13. ASSUME NEW a \in Agents, PutLeaf(a) PROVE LeaderInv'
  <2>1. leader # Absent /\ mgr'.at = mgr.at
    BY <1>13 DEF PutLeaf, Types, Passes
  <2> QED
    BY <1>13, <2>1 DEF PutLeaf
<1>14. ASSUME NEW h \in Holders, Pod(h) \/ LeafAges(h) PROVE LeaderInv'
  BY <1>14 DEF Pod, StartPod, Mount, ReloadPair, ReloadRoots, LeafAges
<1>15. CASE CAAges
  BY <1>15, Zenon DEF CAAges
<1>16. CASE Tick
  <2>1. \A a \in Agents : rec'[a].at = rec[a].at
    BY <1>16 DEF Tick, Types, Reads
  <2> QED
    BY <1>16, <2>1 DEF Tick
<1>17. CASE UNCHANGED vars
  BY <1>17
<1> QED
  BY <1>1, <1>2, <1>3, <1>4, <1>5, <1>6, <1>7, <1>8, <1>9, <1>10, <1>11, <1>12, <1>13, <1>14, <1>15, <1>16, <1>17, Zenon DEF Next, Operator, Manager, Reconciler

LEMMA EmptyNext == Types /\ EmptyInv /\ LeaderInv /\ [Next]_vars => EmptyInv'
<1> SUFFICES ASSUME Types, EmptyInv, LeaderInv, [Next]_vars, ca' = 0 PROVE EmptyInv'
  BY DEF EmptyInv
<1> USE DEF vars, caSecret, procs, ops
<1>1. ca = 0
  <2>1. Rotate => ca = 0
    <3>1. ca + 1 # 0
      BY Numbers
    <3>2. ~Promotes
      BY <3>1 DEF Promotes
    <3>3. Begins \/ Retires \/ Stays => ca = 0
      BY DEF Begins, Retires, Stays, SameCA
    <3> QED
      BY <3>2, <3>3, RotateSteps
  <2>2. \A o \in Operators : Create(o) => ca = 0
    BY Numbers DEF Create, NewCA
  <2>3. Tick => ca = 0
    BY DEF Tick
  <2> QED
    BY <2>1, <2>2, <2>3, SecretSteps DEF Stays, SameCA
<1>2. /\ \A o \in Operators : issuer[o] = Absent
      /\ leader = Absent
      /\ \A h \in Holders : leaf[h] = Absent /\ mount[h] = Absent
      /\ mgr.at = "idle"
      /\ \A a \in Agents : rec[a].at = "idle"
  BY <1>1 DEF EmptyInv, LeaderInv
<1>3. \A o \in Operators : Start(o) \/ Create(o) \/ Elect(o) \/ Crash(o) => EmptyInv'
  <2>1. \A o \in Operators : ~Create(o)
    BY <1>1, Numbers DEF Create, NewCA
  <2>2. \A o \in Operators : Start(o) => EmptyInv'
    BY <1>1, <1>2 DEF Start, EmptyInv
  <2> QED
    BY <1>2, <2>1, <2>2 DEF Elect, Crash
<1>4. ~Manager /\ ~WriteFails
  BY <1>2 DEF Manager, Sync, Rotate, SetCA, EnsureGateway, Renew, EndPass, WriteFails
<1>5. \A a \in Agents : ~Reconciler(a)
  BY <1>2 DEF Reconciler, ReadCA, ReadTrust, GetLeaf, PutLeaf
<1>6. \A h \in Holders : ~Pod(h) /\ ~LeafAges(h)
  BY <1>2 DEF Pod, StartPod, Mount, ReloadPair, ReloadRoots, LeafAges
<1>7. CAAges \/ Tick \/ UNCHANGED vars => EmptyInv'
  BY <1>2 DEF CAAges, Tick, EmptyInv
<1> QED
  BY <1>3, <1>4, <1>5, <1>6, <1>7 DEF Next, Operator

----------------------------------------------------------------------------
(* Every peer trusts what it may be shown.                                 *)

\* What the manager writes.
LEMMA CurrentSafe ==
  ASSUME Types, StageInv, ca # 0
  PROVE  /\ SafeSigner(ca) /\ SafeBundle(bundle) /\ GoodSigner(ca) /\ GoodBundle(bundle)
         /\ SafePair(Data(ca, bundle)) /\ GoodPair(Data(ca, bundle))
BY Numbers DEF StageInv, SafeSigner, SafeBundle, SafePair, GoodSigner, GoodBundle, GoodPair, Data, Types

\* Overlap after a stage began nothing of the one before it is in use.
LEMMA Settled ==
  ASSUME MaxErrors + 4 <= Overlap, Types, RecInv, LeafInv, ProcInv, age >= Overlap
  PROVE  /\ \A h \in Holders : GoodLeaf(h) /\ GoodProc(h)
         /\ \A a \in Agents : GoodRec(a)
<1>1. age > 1 /\ ~Within(1) /\ ~Within(2) /\ ~Within(3)
  BY Numbers, BoundsAreNat DEF Within
<1>2. age # 0 /\ age # 1 /\ ~(age <= 1)
  BY <1>1, Numbers
<1>3. \A a \in Agents : GoodRec(a)
  BY <1>2, Zenon DEF RecInv
<1>4. \A h \in Holders : GoodLeaf(h)
  BY <1>1, <1>2, Zenon DEF LeafInv, Pending
<1>5. \A h \in Holders : GoodProc(h)
  BY <1>1, Zenon DEF ProcInv
<1> QED
  BY <1>3, <1>4, <1>5

\* A signer and a bundle stay safe from one stage to the next.
LEMMA MovesSafely ==
  ASSUME Types, StageInv, StageInv', ca # 0, Begins \/ Promotes \/ Retires
  PROVE  /\ \A s : SafeSigner(s) /\ (Begins \/ GoodSigner(s)) => SafeSigner(s)'
         /\ \A t : SafeBundle(t) /\ (Begins \/ GoodBundle(t)) => SafeBundle(t)'
<1> USE Numbers DEF StageInv, SafeSigner, SafeBundle, GoodSigner, GoodBundle
<1>1. CASE Begins
  BY <1>1 DEF Begins
<1>2. CASE Promotes
  <2>1. stage = "next" /\ stage' = "promoted" /\ ~Begins /\ bundle' = bundle
    BY <1>2 DEF Promotes, Begins
  <2>2. ca \in bundle
    BY <2>1
  <2> QED
    BY <2>1, <2>2
<1>3. CASE Retires
  <2>1. stage = "promoted" /\ stage' = "" /\ ~Begins /\ ca' = ca
    BY <1>3 DEF Retires, Begins
  <2>2. ca \in bundle
    BY <2>1
  <2> QED
    BY <2>1, <2>2
<1> QED
  BY <1>1, <1>2, <1>3

\* What is safe or good stays so while the CA Secret stays as it is.
LEMMA StaysSame ==
  ASSUME SameCA
  PROVE  /\ \A s : (SafeSigner(s)' <=> SafeSigner(s)) /\ (GoodSigner(s)' <=> GoodSigner(s))
         /\ \A t : (SafeBundle(t)' <=> SafeBundle(t)) /\ (GoodBundle(t)' <=> GoodBundle(t))
BY DEF Stays, SameCA, SafeSigner, SafeBundle, GoodSigner, GoodBundle

\* Where the CA Secret stays, safety is about what an action writes.
LEMMA StaysSafe ==
  ASSUME SameCA, SafeInv,
         \A h \in Holders : leaf'[h] = leaf[h] \/ SafePair(leaf'[h]),
         \A h \in Holders : (mount'[h] = mount[h] /\ cert'[h] = cert[h] /\ roots'[h] = roots[h])
                             \/ (SafePair(mount'[h]) /\ SafeSigner(cert'[h]) /\ SafeBundle(roots'[h])),
         \A a \in Agents : \/ rec'[a].at = "idle"
                           \/ rec'[a].at = rec[a].at /\ rec'[a].ca = rec[a].ca /\ rec'[a].trust = rec[a].trust
                           \/ /\ SafeSigner(rec'[a].ca)
                              /\ rec'[a].at \in {"get", "put"} => SafeBundle(rec'[a].trust),
         \/ leader' = Absent
         \/ leader' = leader /\ issuer'[leader] = issuer[leader]
         \/ SafeSigner(issuer'[leader'].ca) /\ SafeBundle(issuer'[leader'].trust)
  PROVE  SafeInv'
<1> USE DEF SafeInv, SafePair, SafeSigner, SafeBundle, Stays, SameCA
<1>1. \A h \in Holders : SafeLeaf(h)'
  BY DEF SafeLeaf
<1>2. \A h \in Holders : SafeProc(h)'
  BY DEF SafeProc
<1>3. \A a \in Agents : SafeRec(a)'
  BY DEF SafeRec
<1>4. SafeLeader'
  BY DEF SafeLeader
<1> QED
  BY <1>1, <1>2, <1>3, <1>4

\* A stage begins or ends: nothing but the CA Secret changes.
LEMMA RotateSafe ==
  ASSUME MaxErrors + 4 <= Overlap, Types, StageInv, StageInv', EmptyInv, LeaderInv, SafeInv, RecInv, LeafInv, ProcInv, Rotate
  PROVE  SafeInv'
<1>1. ca # 0 /\ leader # Absent /\ Current(leader)
  BY DEF Rotate, EmptyInv, LeaderInv
<1>2. UNCHANGED <<leaf, mount, cert, roots, issuer, leader, rec>>
  BY DEF Rotate, procs, ops
<1>3. CASE Stays
  BY <1>2, <1>3, StaysSafe DEF Stays
<1>4. CASE Begins \/ Promotes \/ Retires
  <2>1. /\ \A h \in Holders : Begins \/ (GoodLeaf(h) /\ GoodProc(h))
        /\ \A a \in Agents : Begins \/ GoodRec(a)
    BY <1>4, Settled DEF Promotes, Retires
  <2>2. GoodSigner(issuer[leader].ca) /\ GoodBundle(issuer[leader].trust)
    <3>1. issuer[leader].ca = ca /\ issuer[leader].trust = bundle
      BY <1>1 DEF Current
    <3> QED
      BY <1>1, <3>1, CurrentSafe
  <2>3. /\ \A s : SafeSigner(s) /\ (Begins \/ GoodSigner(s)) => SafeSigner(s)'
        /\ \A t : SafeBundle(t) /\ (Begins \/ GoodBundle(t)) => SafeBundle(t)'
    BY <1>1, <1>4, MovesSafely
  <2> USE <1>2 DEF SafeInv, SafePair, GoodPair, SafeSigner, SafeBundle
  <2>4. ASSUME NEW h \in Holders PROVE SafeLeaf(h)' /\ SafeProc(h)'
    BY <2>1, <2>3 DEF SafeLeaf, SafeProc, GoodLeaf, GoodProc
  <2>5. ASSUME NEW a \in Agents PROVE SafeRec(a)'
    BY <2>1, <2>3 DEF SafeRec, GoodRec
  <2>6. SafeLeader'
    BY <2>2, <2>3 DEF SafeLeader
  <2> QED
    BY <2>4, <2>5, <2>6
<1> QED
  BY <1>3, <1>4, RotateSteps

LEMMA SafeNext ==
  ASSUME MaxErrors + 4 <= Overlap, ~StaleStandby, Types, StageInv, StageInv', EmptyInv, LeaderInv, SafeInv, RecInv, LeafInv, ProcInv,
         [Next]_vars
  PROVE  SafeInv'
<1> USE AbsentIsAbsent DEF vars, caSecret, procs, ops, Stays, SameCA
<1>0. leader # Absent => ca # 0 /\ leader \in Operators /\ SafeSigner(issuer[leader].ca) /\ SafeBundle(issuer[leader].trust)
  BY DEF EmptyInv, SafeInv, SafeLeader, Types
<1>c. ca # 0 => SafePair(Data(ca, bundle)) /\ SafeSigner(ca) /\ SafeBundle(bundle)
  BY CurrentSafe
<1>1. ASSUME NEW o \in Operators, Start(o) PROVE SafeInv'
  <2>1. ca = 0 \/ (issuer'[o].ca = ca /\ issuer'[o].trust = bundle)
    BY <1>1, LoadSteps, ZenonT(30) DEF Start
  <2>2. leader # Absent /\ leader # o => issuer'[leader] = issuer[leader]
    BY <1>0, <1>1, LoadSteps DEF Start
  <2> QED
    BY <1>0, <1>c, <1>1, <2>1, <2>2, StaysSafe, ZenonT(30) DEF Start
<1>2. ASSUME NEW o \in Operators, Create(o) PROVE SafeInv'
  <2>1. CASE ca = 0
    <3>1. /\ leader = Absent /\ \A h \in Holders : leaf[h] = Absent /\ mount[h] = Absent
          /\ \A a \in Agents : rec[a].at = "idle"
      BY <2>1, ZenonT(30) DEF EmptyInv, LeaderInv
    <3> QED
      BY <1>2, <3>1 DEF Create, SafeInv, SafeLeaf, SafeProc, SafeRec, SafeLeader
  <2>2. CASE ca # 0
    <3>1. issuer'[o].ca = ca /\ issuer'[o].trust = bundle
      BY <1>2, <2>2, LoadSteps, ZenonT(30) DEF Create
    <3>2. leader # Absent /\ leader # o => issuer'[leader] = issuer[leader]
      BY <1>0, <1>2, <2>2, LoadSteps DEF Create
    <3>3. Stays
      BY <1>2, <2>2 DEF Create
    <3> QED
      BY <1>0, <1>c, <1>2, <2>2, <3>1, <3>2, <3>3, StaysSafe, ZenonT(30) DEF Create
  <2> QED
    BY <2>1, <2>2
<1>3. ASSUME NEW o \in Operators, Elect(o) PROVE SafeInv'
  <2>1. ca # 0 /\ issuer[o].ca = ca /\ issuer[o].trust = bundle
    BY <1>3 DEF Elect, Current, EmptyInv
  <2> QED
    BY <1>c, <1>3, <2>1, StaysSafe, ZenonT(30) DEF Elect
<1>4. ASSUME NEW o \in Operators, Crash(o) PROVE SafeInv'
  <2>1. CASE leader = o
    <3>1. \A a \in Agents : rec'[a].at = "idle"
      BY <1>4, <2>1 DEF Crash, IdleRec
    <3> QED
      BY <1>4, <2>1, <3>1, StaysSafe DEF Crash
  <2>2. CASE leader # o
    <3>1. leader # Absent => issuer'[leader] = issuer[leader]
      BY <1>0, <1>4, <2>2 DEF Crash, Types
    <3> QED
      BY <1>4, <2>2, <3>1, StaysSafe DEF Crash
  <2> QED
    BY <2>1, <2>2
<1>5. CASE Sync \/ EndPass \/ WriteFails \/ CAAges
  BY <1>5, StaysSafe, Zenon DEF Sync, EndPass, WriteFails, CAAges
<1>6. CASE Rotate
  BY <1>6, RotateSafe
<1>7. CASE SetCA
  <2>1. leader # Absent
    BY <1>7 DEF SetCA, LeaderInv
  <2>2. issuer'[leader].ca = ca /\ issuer'[leader].trust = bundle
    BY <1>0, <1>7, <2>1 DEF SetCA, Load, Types
  <2> QED
    BY <1>0, <1>c, <1>7, <2>1, <2>2, StaysSafe DEF SetCA
<1>8. CASE EnsureGateway
  <2>1. leader # Absent
    BY <1>8 DEF EnsureGateway, LeaderInv
  <2>2. \A h \in Holders : leaf'[h] = leaf[h] \/ leaf'[h] = Data(ca, bundle)
    BY <1>8, PutTypes, Numbers DEF EnsureGateway, Holders
  <2> QED
    BY <1>0, <1>c, <1>8, <2>1, <2>2, StaysSafe DEF EnsureGateway
<1>9. ASSUME NEW a \in Agents, Renew(a) PROVE SafeInv'
  <2>1. leader # Absent
    BY <1>9 DEF Renew, LeaderInv
  <2>2. \A h \in Holders : leaf'[h] = leaf[h] \/ leaf'[h] = Data(ca, bundle)
    BY <1>9, PutTypes, Numbers DEF Renew, Holders
  <2> QED
    BY <1>0, <1>c, <1>9, <2>1, <2>2, StaysSafe, RenewSteps, Zenon DEF Renew, SameRead
<1>10. ASSUME NEW a \in Agents, ReadCA(a) PROVE SafeInv'
  <2>1. \A b \in Agents : rec'[b] = rec[b] \/ (rec'[b].ca = issuer[leader].ca /\ rec'[b].at = "trust")
    BY <1>10 DEF ReadCA, Types, IdleRec
  <2> QED
    BY <1>0, <1>10, <2>1, StaysSafe DEF ReadCA
<1>11. ASSUME NEW a \in Agents, ReadTrust(a) PROVE SafeInv'
  <2>1. \A b \in Agents : rec'[b] = rec[b] \/ (b = a /\ rec'[b].ca = rec[a].ca /\ rec'[b].trust = issuer[leader].trust)
    BY <1>11 DEF ReadTrust, Types, Reads
  <2>2. leader # Absent /\ SafeSigner(rec[a].ca)
    BY <1>11 DEF ReadTrust, LeaderInv, SafeInv, SafeRec
  <2> QED
    BY <1>0, <1>11, <2>1, <2>2, StaysSafe, Zenon DEF ReadTrust
<1>12. ASSUME NEW a \in Agents, GetLeaf(a) PROVE SafeInv'
  <2>1. \A b \in Agents : rec'[b] = rec[b] \/ (b = a /\ rec'[b].ca = rec[a].ca /\ rec'[b].trust = rec[a].trust)
    BY <1>12 DEF GetLeaf, Types, Reads
  <2>2. SafeSigner(rec[a].ca) /\ SafeBundle(rec[a].trust)
    BY <1>12 DEF GetLeaf, SafeInv, SafeRec
  <2> QED
    BY <1>12, <2>1, <2>2, StaysSafe, Zenon DEF GetLeaf
<1>13. ASSUME NEW a \in Agents, PutLeaf(a) PROVE SafeInv'
  <2>1. \A b \in Agents : rec'[b] = rec[b] \/ rec'[b].at = "idle"
    BY <1>13 DEF PutLeaf, Types, IdleRec
  <2>2. SafePair(Data(rec[a].ca, rec[a].trust))
    BY <1>13 DEF PutLeaf, SafeInv, SafeRec, SafePair, Data
  <2>3. \A h \in Holders : leaf'[h] = leaf[h] \/ leaf'[h] = Data(rec[a].ca, rec[a].trust)
    <3>1. rec[a].ca \in Nat /\ rec[a].trust \in Bundles
      BY DEF Types, Reads
    <3> QED
      BY <1>13, <3>1, PutTypes DEF PutLeaf, Holders
  <2> QED
    BY <1>13, <2>1, <2>2, <2>3, StaysSafe DEF PutLeaf
<1>14. ASSUME NEW h \in Holders, StartPod(h) PROVE SafeInv'
  <2>1. \A g \in Holders : (mount'[g] = mount[g] /\ cert'[g] = cert[g] /\ roots'[g] = roots[g])
          \/ (g = h /\ mount'[g] = leaf[h] /\ cert'[g] = leaf[h].signer /\ roots'[g] = leaf[h].bundle)
    BY <1>14 DEF StartPod, Types
  <2>2. SafePair(leaf[h])
    BY <1>14 DEF StartPod, SafeInv, SafeLeaf
  <2> QED
    BY <1>14, <2>1, <2>2, StaysSafe DEF StartPod, SafePair
<1>15. ASSUME NEW h \in Holders, Mount(h) PROVE SafeInv'
  <2>1. \A g \in Holders : cert'[g] = cert[g] /\ roots'[g] = roots[g] /\ (mount'[g] = mount[g] \/ (g = h /\ mount'[g] = leaf[h]))
    BY <1>15 DEF Mount, Types
  <2>2. SafeSigner(cert[h]) /\ SafeBundle(roots[h])
    BY <1>15, ZenonT(30) DEF Mount, SafeInv, SafeProc
  <2>3. CASE leaf[h] # Absent
    <3>1. SafePair(leaf[h])
      BY <2>3 DEF SafeInv, SafeLeaf
    <3> QED
      BY <1>15, <2>1, <2>2, <3>1, StaysSafe, Zenon DEF Mount
  <2>4. CASE leaf[h] = Absent
    <3>1. SameCA /\ UNCHANGED <<leaf, rec, leader, issuer>>
      BY <1>15, Zenon DEF Mount
    <3> USE <3>1 DEF SafeInv, SafePair, SafeSigner, SafeBundle
    <3>2. \A g \in Holders : SafeLeaf(g)'
      BY DEF SafeLeaf
    <3>3. \A g \in Holders : SafeProc(g)'
      BY <2>1, <2>4 DEF SafeProc
    <3>4. (\A a \in Agents : SafeRec(a)') /\ SafeLeader'
      BY DEF SafeRec, SafeLeader
    <3> QED
      BY <3>2, <3>3, <3>4
  <2> QED
    BY <2>3, <2>4
<1>16. ASSUME NEW h \in Holders, ReloadPair(h) \/ ReloadRoots(h) PROVE SafeInv'
  <2>1. \A g \in Holders : mount'[g] = mount[g] /\ (cert'[g] = cert[g] \/ (g = h /\ cert'[g] = mount[h].signer))
                           /\ (roots'[g] = roots[g] \/ (g = h /\ roots'[g] = mount[h].bundle))
    BY <1>16, ZenonT(30) DEF ReloadPair, ReloadRoots, Types
  <2>2. SafePair(mount[h]) /\ SafeSigner(cert[h]) /\ SafeBundle(roots[h])
    BY <1>16 DEF ReloadPair, ReloadRoots, SafeInv, SafeProc
  <2> QED
    BY <1>16, <2>1, <2>2, StaysSafe, Zenon DEF ReloadPair, ReloadRoots, SafePair
<1>17. ASSUME NEW h \in Holders, LeafAges(h) PROVE SafeInv'
  BY <1>17, StaysSafe, Zenon DEF LeafAges
<1>18. CASE Tick
  <2>1. \A a \in Agents : rec'[a].at = rec[a].at /\ rec'[a].ca = rec[a].ca /\ rec'[a].trust = rec[a].trust
    BY <1>18 DEF Tick, Types, Reads
  <2> QED
    BY <1>18, <2>1, StaysSafe DEF Tick
<1>19. CASE UNCHANGED vars
  BY <1>19, StaysSafe
<1> QED
  BY <1>1, <1>2, <1>3, <1>4, <1>5, <1>6, <1>7, <1>8, <1>9, <1>10, <1>11, <1>12, <1>13, <1>14, <1>15, <1>16, <1>17,
     <1>18, <1>19 DEF Next, Operator, Manager, Reconciler, Pod

----------------------------------------------------------------------------
(* How long the stage before is about.                                     *)

\* Where the CA Secret and the time stay, a reconcile is about what it reads.
LEMMA StaysRec ==
  ASSUME SameCA, age' = age, RecInv, NEW a \in Agents,
         \/ rec'[a].at = "idle"
         \/ SameRead(rec'[a], rec[a])
         \/ GoodSigner(rec'[a].ca) /\ (rec'[a].at \in {"get", "put"} => GoodBundle(rec'[a].trust))
         \/ age = 0
  PROVE  GoodRec(a)' \/ age' = 0 \/ (age' = 1 /\ rec'[a].old)
BY DEF SameCA, RecInv, SameRead, GoodRec, GoodSigner, GoodBundle

LEMMA RecNext ==
  ASSUME MaxErrors + 4 <= Overlap, Types, StageInv, EmptyInv, LeaderInv, RecInv, [Next]_vars
  PROVE  RecInv'
<1> SUFFICES ASSUME NEW a \in Agents PROVE GoodRec(a)' \/ age' = 0 \/ (age' = 1 /\ rec'[a].old)
  BY DEF RecInv
<1> DEFINE Goal == GoodRec(a)' \/ age' = 0 \/ (age' = 1 /\ rec'[a].old)
<1> USE AbsentIsAbsent DEF vars, caSecret, procs, ops, Stays, SameCA
<1>1. CASE Stays /\ rec' = rec
  BY <1>1, StaysRec DEF SameRead
<1>2. ASSUME NEW o \in Operators, Create(o) PROVE Goal
  <2>1. CASE ca = 0
    BY <1>2, <2>1, ZenonT(30) DEF Create, StageInv, GoodRec, GoodSigner, GoodBundle
  <2>2. CASE ca # 0
    BY <1>1, <1>2, <2>2 DEF Create
  <2> QED
    BY <2>1, <2>2
<1>3. ASSUME NEW o \in Operators, Crash(o) PROVE Goal
  <2>1. CASE leader = o
    BY <1>3, <2>1, StaysRec DEF Crash, IdleRec
  <2>2. CASE leader # o
    BY <1>1, <1>3, <2>2 DEF Crash
  <2> QED
    BY <2>1, <2>2
<1>4. CASE Rotate
  <2>1. age' = 0 \/ Stays
    BY <1>4, RotateSteps DEF Begins, Promotes, Retires
  <2> QED
    BY <1>1, <1>4, <2>1 DEF Rotate
<1>5. ASSUME NEW b \in Agents, Renew(b) PROVE Goal
  BY <1>5, RenewSteps, StaysRec, ZenonT(30) DEF Renew
<1>6. ASSUME NEW b \in Agents, ReadCA(b) PROVE Goal
  <2>1. age # 0 => issuer[leader].ca = ca
    BY <1>6 DEF ReadCA, LeaderInv, Current
  <2>2. ca # 0
    BY <1>6 DEF ReadCA, EmptyInv
  <2>3. CASE a = b
    <3>1. rec'[a].ca = issuer[leader].ca /\ rec'[a].at = "trust"
      BY <1>6, <2>3 DEF ReadCA, Types, IdleRec
    <3> QED
      BY <1>6, <2>1, <2>2, <3>1, CurrentSafe, StaysRec DEF ReadCA
  <2>4. CASE a # b
    BY <1>6, <2>4, StaysRec DEF ReadCA, Types, SameRead
  <2> QED
    BY <2>3, <2>4
<1>7. ASSUME NEW b \in Agents, ReadTrust(b) PROVE Goal
  <2>1. age # 0 => issuer[leader].trust = bundle
    BY <1>7 DEF ReadTrust, LeaderInv, Current
  <2>2. ca # 0
    BY <1>7 DEF ReadTrust, EmptyInv, LeaderInv
  <2>3. CASE a = b
    <3>1. /\ rec'[a].ca = rec[a].ca /\ rec'[a].trust = issuer[leader].trust /\ rec'[a].old = rec[a].old
          /\ rec'[a].at = "get" /\ rec[a].at = "trust"
      BY <1>7, <2>3 DEF ReadTrust, Types, Reads
    <3>2. age # 0 => GoodBundle(rec'[a].trust)
      BY <2>1, <2>2, <3>1, CurrentSafe
    <3>3. age = 0 \/ (age = 1 /\ rec[a].old) \/ GoodSigner(rec'[a].ca)
      BY <3>1 DEF RecInv, GoodRec
    <3> QED
      BY <1>7, <3>1, <3>2, <3>3, StaysRec, Zenon DEF ReadTrust
  <2>4. CASE a # b
    BY <1>7, <2>4, StaysRec DEF ReadTrust, Types, SameRead
  <2> QED
    BY <2>3, <2>4
<1>8. ASSUME NEW b \in Agents, GetLeaf(b) PROVE Goal
  <2>1. CASE a = b
    <3>1. /\ rec'[a].ca = rec[a].ca /\ rec'[a].trust = rec[a].trust /\ rec'[a].old = rec[a].old
          /\ rec'[a].at = "put" /\ rec[a].at = "get"
      BY <1>8, <2>1 DEF GetLeaf, Types, Reads
    <3> QED
      BY <1>8, <3>1 DEF GetLeaf, RecInv, GoodRec, GoodSigner, GoodBundle
  <2>2. CASE a # b
    BY <1>8, <2>2, StaysRec DEF GetLeaf, Types, SameRead
  <2> QED
    BY <2>1, <2>2
<1>9. ASSUME NEW b \in Agents, PutLeaf(b) PROVE Goal
  <2>1. rec'[a] = rec[a] \/ rec'[a].at = "idle"
    BY <1>9 DEF PutLeaf, Types, IdleRec
  <2> QED
    BY <1>9, <2>1, StaysRec DEF PutLeaf, SameRead
<1>10. CASE Tick
  <2>1. rec'[a].at = rec[a].at /\ rec'[a].ca = rec[a].ca /\ rec'[a].trust = rec[a].trust /\ rec'[a].old = (rec[a].at # "idle")
    BY <1>10 DEF Tick, Types, Reads
  <2>2. SameCA /\ ~rec[a].old
    BY <1>10 DEF Tick
  <2>3. GoodRec(a) => GoodRec(a)'
    BY <2>1, <2>2 DEF GoodRec, GoodSigner, GoodBundle
  <2>4. CASE GoodRec(a)
    BY <2>3, <2>4
  <2>5. CASE ~GoodRec(a)
    <3>1. age = 0 /\ rec[a].at # "idle"
      BY <2>2, <2>5, Zenon DEF RecInv, GoodRec
    <3>2. 0 < Overlap /\ 0 + 1 = 1
      BY BoundsAreNat
    <3>3. age' = 0 \/ age' = 1
      BY <1>10, <3>1, <3>2 DEF Tick
    <3> QED
      BY <2>1, <3>1, <3>3, Zenon
  <2> QED
    BY <2>4, <2>5
<1>11. \A o \in Operators : Start(o) \/ Elect(o) => Stays /\ rec' = rec
  BY DEF Start, Elect
<1>12. Sync \/ SetCA \/ EnsureGateway \/ EndPass \/ WriteFails \/ CAAges \/ UNCHANGED vars => Stays /\ rec' = rec
  BY ZenonT(30) DEF Sync, SetCA, EnsureGateway, EndPass, WriteFails, CAAges
<1>13. \A h \in Holders : Pod(h) \/ LeafAges(h) => Stays /\ rec' = rec
  BY DEF Pod, StartPod, Mount, ReloadPair, ReloadRoots, LeafAges
<1> QED
  BY <1>1, <1>2, <1>3, <1>4, <1>5, <1>6, <1>7, <1>8, <1>9, <1>10, <1>11, <1>12, <1>13
     DEF Next, Operator, Manager, Reconciler

\* A stage is at its beginning, or the time stays.
LEMMA WithinFacts ==
  ASSUME Types
  PROVE  /\ age <= 1 => Within(2)
         /\ Within(1) => Within(2)
         /\ Within(2) => Within(3)
BY Numbers, BoundsAreNat DEF Within

\* Where the CA Secret, the time and a Secret stay, so does how it stands.
LEMMA StaysLeaf ==
  ASSUME Stays, NEW h \in Holders, leaf'[h] = leaf[h], GoodLeaf(h)
  PROVE  GoodLeaf(h)'
BY DEF Stays, SameCA, GoodLeaf, GoodPair, GoodSigner, GoodBundle

LEMMA WrittenLeaf ==
  ASSUME Stays, NEW h \in Holders, GoodPair(leaf'[h])
  PROVE  GoodLeaf(h)'
BY DEF Stays, SameCA, GoodLeaf, GoodPair, GoodSigner, GoodBundle

LEMMA LeafNext ==
  ASSUME Types, StageInv, EmptyInv, LeaderInv, RecInv, LeafInv, [Next]_vars
  PROVE  LeafInv'
<1> SUFFICES ASSUME NEW h \in Holders PROVE GoodLeaf(h)' \/ age' <= 1 \/ Pending(h)'
  BY DEF LeafInv
<1> DEFINE Goal == GoodLeaf(h)' \/ age' <= 1 \/ Pending(h)'
<1> USE DEF vars, caSecret, procs, ops
<1>0. GoodLeaf(h) \/ age <= 1 \/ Pending(h)
  BY DEF LeafInv
<1>1. CASE /\ Stays /\ leaf' = leaf /\ passed' = passed /\ budget'["error"] = budget["error"]
           /\ mgr'.at = mgr.at /\ mgr'.todo = mgr.todo /\ mgr'.fresh = mgr.fresh
  BY <1>0, <1>1, StaysLeaf DEF Pending, Within, Stays
<1>2. ASSUME NEW o \in Operators, Create(o) PROVE Goal
  <2>1. CASE ca = 0
    BY <1>2, <2>1 DEF Create, EmptyInv, GoodLeaf
  <2>2. CASE ca # 0
    BY <1>1, <1>2, <2>2 DEF Create, Stays, SameCA
  <2> QED
    BY <2>1, <2>2
<1>3. ASSUME NEW o \in Operators, Crash(o) PROVE Goal
  <2>1. budget'["error"] = budget["error"]
    BY <1>3, SpendTypes, ZenonT(30) DEF Crash, Kinds
  <2>2. Stays /\ leaf' = leaf
    BY <1>3 DEF Crash, Stays, SameCA
  <2>3. CASE leader = o
    <3>1. mgr'.at = "idle" /\ ~passed'
      BY <1>3, <2>3 DEF Crash, IdleMgr
    <3> QED
      BY <1>0, <2>1, <2>2, <3>1, StaysLeaf DEF Pending, Within, Stays
  <2>4. CASE leader # o
    BY <1>1, <1>3, <2>1, <2>2, <2>4, ZenonT(30) DEF Crash
  <2> QED
    BY <2>3, <2>4
<1>4. CASE Sync
  <2>1. mgr'.at = "rotate" /\ mgr'.fresh = agentLeaves /\ mgr'.todo = agentLeaves \ {Gateway} /\ ~passed'
    BY <1>4 DEF Sync
  <2>2. ~GoodLeaf(h) => h \in agentLeaves
    BY DEF GoodLeaf, agentLeaves
  <2> QED
    BY <1>0, <1>4, <2>1, <2>2, StaysLeaf DEF Sync, Pending, Within, Stays, SameCA
<1>5. CASE Rotate
  <2>1. mgr.at = "rotate" /\ mgr'.at = "set" /\ mgr'.todo = mgr.todo /\ mgr'.fresh = mgr.fresh
    BY <1>5 DEF Rotate, Types, Passes
  <2>2. CASE age' = 0
    BY <2>2
  <2>3. CASE Stays
    BY <1>0, <1>5, <2>1, <2>3, StaysLeaf DEF Rotate, Pending, Within, Stays
  <2> QED
    BY <1>5, <2>2, <2>3, RotateSteps DEF Begins, Promotes, Retires
<1>6. CASE SetCA
  <2>1. mgr.at = "set" /\ mgr'.at = "gateway" /\ mgr'.todo = mgr.todo /\ mgr'.fresh = mgr.fresh
    BY <1>6 DEF SetCA, Types, Passes
  <2> QED
    BY <1>0, <1>6, <2>1, StaysLeaf DEF SetCA, Pending, Within, Stays, SameCA
<1>7. CASE EnsureGateway
  <2>0. ca # 0 /\ Stays /\ passed' = passed /\ budget' = budget
    BY <1>7 DEF EnsureGateway, LeaderInv, EmptyInv, Stays, SameCA
  <2>1. mgr.at = "gateway" /\ mgr'.at = "agents" /\ mgr'.todo = mgr.todo /\ mgr'.fresh = mgr.fresh \ {Gateway}
    BY <1>7 DEF EnsureGateway, Types, Passes
  <2>2. CASE h = Gateway
    <3>1. leaf'[h] = Data(ca, bundle)
      BY <1>7, <2>2, PutTypes, Numbers DEF EnsureGateway, Changed
    <3> QED
      BY <2>0, <3>1, CurrentSafe, WrittenLeaf
  <2>3. CASE h # Gateway
    <3>1. leaf'[h] = leaf[h]
      BY <1>7, <2>3, PutTypes, Numbers DEF EnsureGateway, Holders
    <3> QED
      BY <1>0, <2>0, <2>1, <2>3, <3>1, StaysLeaf, Zenon DEF Pending, Within, Stays
  <2> QED
    BY <2>2, <2>3
<1>8. ASSUME NEW a \in Agents, Renew(a) PROVE Goal
  <2>0. ca # 0 /\ Stays /\ passed' = passed /\ budget' = budget
    BY <1>8 DEF Renew, LeaderInv, EmptyInv, Stays, SameCA
  <2>1. mgr.at = "agents" /\ mgr'.at = "agents" /\ mgr'.todo = mgr.todo \ {a} /\ mgr'.fresh = mgr.fresh \ {a} /\ a \in mgr.todo
    BY <1>8, RenewSteps, ZenonT(30) DEF Renew
  <2>2. CASE h = a /\ a \in mgr.fresh
    <3>1. leaf'[h] = Data(ca, bundle)
      BY <1>8, <2>2, PutTypes, Numbers DEF Renew, Changed
    <3> QED
      BY <2>0, <3>1, CurrentSafe, WrittenLeaf
  <2>3. CASE h = a /\ a \notin mgr.fresh
    <3>1. GoodLeaf(h) \/ age <= 1
      BY <1>0, <2>1, <2>3 DEF Pending
    <3> QED
      BY <1>8, <2>0, <2>3, <3>1, StaysLeaf DEF Renew, Stays
  <2>4. CASE h # a
    <3>1. leaf'[h] = leaf[h]
      BY <1>8, <2>4, PutTypes, Numbers DEF Renew, Holders
    <3> QED
      BY <1>0, <2>0, <2>1, <2>4, <3>1, StaysLeaf DEF Pending, Within, Stays
  <2> QED
    BY <2>2, <2>3, <2>4
<1>9. CASE EndPass
  <2>1. mgr.at = "agents" /\ mgr.todo = {} /\ mgr'.at = "idle"
    BY <1>9 DEF EndPass, IdleMgr
  <2> QED
    BY <1>0, <1>9, <2>1, StaysLeaf DEF EndPass, Pending, Within, Stays, SameCA
<1>10. CASE WriteFails
  <2>1. Stays /\ leaf' = leaf
    BY <1>10, ZenonT(30) DEF WriteFails, Stays, SameCA
  <2>2. budget["error"] = budget'["error"] + 1 /\ budget'["error"] \in Nat
    BY <1>10, SpendTypes, Zenon DEF WriteFails, Kinds
  <2>3. Within(2) => Within(1)' /\ Within(2)'
    BY <2>1, <2>2, Numbers, BoundsAreNat DEF Within, Stays
  <2>4. Pending(h) => Pending(h)'
    BY <1>10, <2>3, FailSteps DEF Pending, IdleMgr
  <2> QED
    BY <1>0, <2>1, <2>4, StaysLeaf DEF Stays
<1>11. ASSUME NEW a \in Agents, ReadCA(a) \/ ReadTrust(a) \/ GetLeaf(a) PROVE Goal
  BY <1>1, <1>11 DEF ReadCA, ReadTrust, GetLeaf, Stays, SameCA
<1>12. ASSUME NEW a \in Agents, PutLeaf(a) PROVE Goal
  <2>0. Stays /\ passed' = passed /\ budget' = budget
    BY <1>12 DEF PutLeaf, Stays, SameCA
  <2>1. rec[a].ca \in Nat /\ rec[a].trust \in Bundles
    BY DEF Types, Reads
  <2>2. CASE leaf' = leaf /\ mgr' = mgr
    BY <1>1, <2>0, <2>2
  <2>3. CASE Put(a, rec[a].ca, rec[a].trust, 1) /\ mgr' = [mgr EXCEPT !.fresh = @ \ {a}]
    <3>1. mgr'.at = mgr.at /\ mgr'.todo = mgr.todo /\ mgr'.fresh = mgr.fresh \ {a}
      BY <2>3 DEF Types, Passes
    <3>2. CASE h = a
      <4>1. leaf'[h] = Data(rec[a].ca, rec[a].trust)
        BY <2>1, <2>3, <3>2, PutTypes
      <4>2. age <= 1 \/ GoodPair(Data(rec[a].ca, rec[a].trust))
        <5>1. age = 0 \/ age = 1 \/ GoodRec(a)
          BY DEF RecInv
        <5>2. GoodRec(a) => GoodPair(Data(rec[a].ca, rec[a].trust))
          BY <1>12 DEF PutLeaf, GoodRec, GoodPair, Data
        <5> QED
          BY <5>1, <5>2
      <4> QED
        BY <2>0, <4>1, <4>2, WrittenLeaf DEF Stays
    <3>3. CASE h # a
      <4>1. leaf'[h] = leaf[h]
        BY <2>1, <2>3, <3>3, PutTypes DEF Holders
      <4> QED
        BY <1>0, <2>0, <3>1, <3>3, <4>1, StaysLeaf DEF Pending, Within, Stays
    <3> QED
      BY <3>2, <3>3
  <2> QED
    BY <1>12, <2>2, <2>3 DEF PutLeaf
<1>13. CASE Tick
  <2>1. mgr'.at = "idle" /\ mgr.at = "idle" /\ passed /\ ~passed' /\ leaf' = leaf /\ budget' = budget /\ SameCA
    BY <1>13 DEF Tick, SameCA
  <2>2. age' \in {age, age + 1}
    BY <1>13 DEF Tick
  <2>3. GoodLeaf(h) => GoodLeaf(h)'
    BY <2>1 DEF SameCA, GoodLeaf, GoodPair, GoodSigner, GoodBundle
  <2>4. age <= 1 \/ Within(1) => Within(2)'
    BY <2>1, <2>2, Numbers, BoundsAreNat DEF Within
  <2> QED
    BY <1>0, <2>1, <2>3, <2>4 DEF Pending
<1>14. \A o \in Operators : Start(o) \/ Elect(o) => Goal
  BY <1>1 DEF Start, Elect, Stays, SameCA
<1>15. CASE CAAges
  BY <1>1, <1>15, SpendTypes DEF CAAges, Stays, SameCA, Kinds
<1>16. ASSUME NEW g \in Holders, LeafAges(g) PROVE Goal
  BY <1>1, <1>16, SpendTypes DEF LeafAges, Stays, SameCA, Kinds
<1>17. ASSUME NEW g \in Holders, Pod(g) PROVE Goal
  BY <1>1, <1>17 DEF Pod, StartPod, Mount, ReloadPair, ReloadRoots, Stays, SameCA
<1>18. CASE UNCHANGED vars
  BY <1>1, <1>18 DEF Stays, SameCA
<1> QED
  BY <1>2, <1>3, <1>4, <1>5, <1>6, <1>7, <1>8, <1>9, <1>10, <1>11, <1>12, <1>13, <1>14, <1>15, <1>16, <1>17, <1>18
     DEF Next, Operator, Manager, Reconciler

\* What is on its way to a process, and whether it is in use.
LEMMA UseNext ==
  ASSUME Types, UseInv, [Next]_vars
  PROVE  UseInv'
<1> USE DEF vars, caSecret, procs, ops
<1>1. CASE leaf' = leaf /\ UNCHANGED procs /\ lag' = lag
  BY <1>1, ZenonT(30) DEF UseInv, InUse
<1>2. ASSUME NEW h \in Holders, NEW c \in Nat, NEW t \in Bundles, NEW w \in {1, 2}, Put(h, c, t, w), UNCHANGED procs
      PROVE  UseInv'
  <2>1. /\ leaf'[h] = Data(c, t) /\ \A g \in Holders \ {h} : leaf'[g] = leaf[g] /\ lag'[g] = lag[g]
        /\ lag'[h] = 0 => mount[h] = Absent \/ InUse(h, Data(c, t))
    <3>1. PutWrites(h, Data(c, t), w)
      BY <1>2, PutSteps, Zenon
    <3>2. w # 0 /\ 2 # 0
      BY <1>2
    <3> QED
      BY <3>1, <3>2, Zenon DEF PutWrites
  <2>2. ASSUME NEW g \in Holders, mount'[g] # Absent, lag'[g] = 0 PROVE InUse(g, leaf[g])'
    <3>1. mount[g] # Absent /\ mount' = mount /\ cert' = cert /\ roots' = roots
      BY <1>2, <2>2, Zenon
    <3>2. CASE g = h
      BY <2>1, <2>2, <3>1, <3>2, Zenon DEF InUse
    <3>3. CASE g # h
      <4>1. leaf'[g] = leaf[g] /\ lag[g] = 0
        BY <2>1, <2>2, <3>3, Zenon
      <4> QED
        BY <3>1, <4>1, Zenon DEF UseInv, InUse
    <3> QED
      BY <3>2, <3>3
  <2> QED
    BY <2>2 DEF UseInv
<1>3. CASE EnsureGateway
  BY <1>1, <1>2, <1>3, Numbers DEF EnsureGateway, Holders
<1>4. ASSUME NEW a \in Agents, Renew(a) PROVE UseInv'
  BY <1>1, <1>2, <1>4, Numbers DEF Renew, Holders
<1>5. ASSUME NEW a \in Agents, PutLeaf(a) PROVE UseInv'
  <2>1. rec[a].ca \in Nat /\ rec[a].trust \in Bundles
    BY DEF Types, Reads
  <2> QED
    BY <1>1, <1>2, <1>5, <2>1 DEF PutLeaf, Holders
<1>6. ASSUME NEW h \in Holders, StartPod(h) PROVE UseInv'
  <2>1. /\ leaf' = leaf
        /\ mount'[h] = leaf[h] /\ cert'[h] = leaf[h].signer /\ roots'[h] = leaf[h].bundle
        /\ \A g \in Holders \ {h} : mount'[g] = mount[g] /\ cert'[g] = cert[g] /\ roots'[g] = roots[g] /\ lag'[g] = lag[g]
    BY <1>6 DEF StartPod, Types
  <2> QED
    BY <2>1 DEF UseInv, InUse
<1>7. ASSUME NEW h \in Holders, Mount(h) \/ ReloadPair(h) \/ ReloadRoots(h) PROVE UseInv'
  <2>1. /\ leaf' = leaf
        /\ \A g \in Holders \ {h} : mount'[g] = mount[g] /\ cert'[g] = cert[g] /\ roots'[g] = roots[g] /\ lag'[g] = lag[g]
    BY <1>7, ZenonT(30) DEF Mount, ReloadPair, ReloadRoots, Types
  <2>2. lag'[h] = Arrived(h, mount'[h], cert'[h], roots'[h]) /\ mount[h] # Absent
    BY <1>7, ZenonT(30) DEF Mount, ReloadPair, ReloadRoots, Types
  <2>3. lag[h] = 0 => InUse(h, leaf[h])
    BY <2>2, Zenon DEF UseInv
  <2>4. lag[h] # 0
    BY <1>7, <2>3, ZenonT(30) DEF InUse, Mount, ReloadPair, ReloadRoots
  <2>5. lag'[h] = 0 => leaf[h] = mount'[h] /\ cert'[h] = mount'[h].signer /\ roots'[h] = mount'[h].bundle
    BY <2>2, <2>4, Zenon DEF Arrived
  <2> QED
    BY <2>1, <2>5, ZenonT(30) DEF UseInv, InUse
<1>8. CASE Tick
  <2>1. \A g \in Holders : lag'[g] = 0 => lag[g] = 0
    <3>1. \A g \in Holders : lag'[g] = IF lag[g] = 1 THEN 2 ELSE lag[g]
      BY <1>8 DEF Tick
    <3> QED
      BY <3>1
  <2> QED
    BY <1>8, <2>1 DEF Tick, UseInv, InUse
<1>9. \A o \in Operators : Start(o) \/ Create(o) \/ Elect(o) \/ Crash(o) => leaf' = leaf /\ UNCHANGED procs /\ lag' = lag
  BY ZenonT(30) DEF Start, Create, Elect, Crash
<1>10. Sync \/ Rotate \/ SetCA \/ EndPass \/ WriteFails \/ CAAges \/ UNCHANGED vars => leaf' = leaf /\ UNCHANGED procs /\ lag' = lag
  BY Zenon DEF Sync, Rotate, SetCA, EndPass, WriteFails, CAAges
<1>11. \A a \in Agents : ReadCA(a) \/ ReadTrust(a) \/ GetLeaf(a) => leaf' = leaf /\ UNCHANGED procs /\ lag' = lag
  BY DEF ReadCA, ReadTrust, GetLeaf
<1>12. \A g \in Holders : LeafAges(g) => leaf' = leaf /\ UNCHANGED procs /\ lag' = lag
  BY DEF LeafAges
<1> QED
  BY <1>1, <1>3, <1>4, <1>5, <1>6, <1>7, <1>8, <1>9, <1>10, <1>11, <1>12 DEF Next, Operator, Manager, Reconciler, Pod

\* A process stays as it stands while the CA Secret and what it uses stay.
LEMMA StaysProc ==
  ASSUME SameCA, NEW h \in Holders, mount'[h] = mount[h], cert'[h] = cert[h], roots'[h] = roots[h]
  PROVE  GoodProc(h)' <=> GoodProc(h)
BY DEF SameCA, GoodProc, GoodPair, GoodSigner, GoodBundle

LEMMA ProcNext ==
  ASSUME Types, StageInv, EmptyInv, LeaderInv, RecInv, LeafInv, UseInv, ProcInv, [Next]_vars
  PROVE  ProcInv'
<1> SUFFICES ASSUME NEW h \in Holders PROVE GoodProc(h)' \/ Within(2)' \/ (lag'[h] = 2 /\ Within(3)')
  BY DEF ProcInv, Within
<1> DEFINE Goal == GoodProc(h)' \/ Within(2)' \/ (lag'[h] = 2 /\ Within(3)')
<1> USE DEF vars, caSecret, procs, ops
<1>0. GoodProc(h) \/ Within(2) \/ (lag[h] = 2 /\ Within(3))
  BY DEF ProcInv
<1>a. ~GoodLeaf(h) => Within(2)
  BY WithinFacts DEF LeafInv, Pending
<1>1. CASE /\ Stays /\ UNCHANGED procs /\ budget'["error"] = budget["error"]
           /\ lag'[h] = lag[h] \/ lag'[h] = 2
  BY <1>0, <1>1, StaysProc DEF Within, Stays
<1>2. ASSUME NEW o \in Operators, Create(o) PROVE Goal
  <2>1. CASE ca = 0
    BY <1>2, <2>1 DEF Create, EmptyInv, GoodProc
  <2>2. CASE ca # 0
    BY <1>1, <1>2, <2>2 DEF Create, Stays, SameCA
  <2> QED
    BY <2>1, <2>2
<1>3. CASE Rotate
  <2>1. CASE age' = 0
    <3>1. budget' = budget
      BY <1>3 DEF Rotate
    <3> QED
      BY <2>1, <3>1, Numbers, BoundsAreNat DEF Within
  <2>2. CASE Stays
    BY <1>1, <1>3, <2>2 DEF Rotate
  <2> QED
    BY <1>3, <2>1, <2>2, RotateSteps DEF Begins, Promotes, Retires
<1>4. ASSUME NEW g \in Holders, NEW c \in Nat, NEW t \in Bundles, NEW w \in {1, 2}, Put(g, c, t, w),
             GoodPair(Data(c, t)) \/ age <= 1, Stays, UNCHANGED procs, budget' = budget
      PROVE  Goal
  <2>0. budget'["error"] = budget["error"]
    BY <1>4, Zenon
  <2>p. /\ \A k \in Holders \ {g} : lag'[k] = lag[k]
        /\ lag'[g] = IF mount[g] = Absent \/ InUse(g, Data(c, t)) THEN 0 ELSE IF lag[g] = 2 THEN 2 ELSE w
    <3>1. PutWrites(g, Data(c, t), w)
      BY <1>4, PutSteps, Zenon
    <3> QED
      BY <3>1, Zenon DEF PutWrites
  <2>1. CASE g # h
    <3>1. lag'[h] = lag[h]
      BY <2>1, <2>p, Zenon
    <3> QED
      BY <1>1, <1>4, <2>0, <3>1, Zenon
  <2>2. CASE g = h
    <3>1. lag'[h] = IF mount[h] = Absent \/ InUse(h, Data(c, t)) THEN 0 ELSE IF lag[h] = 2 THEN 2 ELSE w
      BY <2>2, <2>p, Zenon
    <3>2. age <= 1 => Within(2)'
      BY <1>4, WithinFacts DEF Within, Stays
    <3>3. mount[h] = Absent \/ (InUse(h, Data(c, t)) /\ GoodPair(Data(c, t))) => GoodProc(h)
      BY DEF InUse, GoodProc, GoodPair, Data
    <3>4. CASE lag'[h] = 0 /\ (mount[h] = Absent \/ InUse(h, Data(c, t)))
      BY <1>4, <3>2, <3>3, <3>4, StaysProc, ZenonT(30) DEF Stays
    <3>5. CASE ~(mount[h] = Absent \/ InUse(h, Data(c, t)))
      BY <1>0, <1>4, <3>1, <3>5, StaysProc, Zenon DEF Within, Stays
    <3> QED
      BY <3>1, <3>4, <3>5
  <2> QED
    BY <2>1, <2>2
<1>5. CASE EnsureGateway
  <2>1. ca # 0 /\ Stays /\ UNCHANGED procs /\ budget' = budget
    BY <1>5 DEF EnsureGateway, LeaderInv, EmptyInv, Stays, SameCA
  <2>2. GoodPair(Data(ca, bundle))
    BY <2>1, CurrentSafe
  <2> QED
    BY <1>1, <1>4, <1>5, <2>1, <2>2, Numbers DEF EnsureGateway, Holders
<1>6. ASSUME NEW a \in Agents, Renew(a) PROVE Goal
  <2>1. ca # 0 /\ Stays /\ UNCHANGED procs /\ budget' = budget
    BY <1>6 DEF Renew, LeaderInv, EmptyInv, Stays, SameCA
  <2>2. GoodPair(Data(ca, bundle))
    BY <2>1, CurrentSafe
  <2> QED
    BY <1>1, <1>4, <1>6, <2>1, <2>2, Numbers DEF Renew, Holders
<1>7. ASSUME NEW a \in Agents, PutLeaf(a) PROVE Goal
  <2>1. Stays /\ UNCHANGED procs /\ budget' = budget
    BY <1>7 DEF PutLeaf, Stays, SameCA
  <2>2. rec[a].ca \in Nat /\ rec[a].trust \in Bundles
    BY DEF Types, Reads
  <2>3. age <= 1 \/ GoodPair(Data(rec[a].ca, rec[a].trust))
    <3>1. age = 0 \/ age = 1 \/ GoodRec(a)
      BY DEF RecInv
    <3>2. GoodRec(a) => GoodPair(Data(rec[a].ca, rec[a].trust))
      BY <1>7 DEF PutLeaf, GoodRec, GoodPair, Data
    <3> QED
      BY <3>1, <3>2
  <2> QED
    BY <1>1, <1>4, <1>7, <2>1, <2>2, <2>3 DEF PutLeaf, Holders
<1>8. CASE WriteFails
  <2>1. Stays /\ UNCHANGED procs /\ lag' = lag
    BY <1>8, ZenonT(30) DEF WriteFails, Stays, SameCA
  <2>2. budget["error"] = budget'["error"] + 1 /\ budget'["error"] \in Nat
    BY <1>8, SpendTypes, ZenonT(30) DEF WriteFails, Kinds
  <2>3. (Within(2) => Within(2)') /\ (Within(3) => Within(3)')
    BY <2>1, <2>2, Numbers, BoundsAreNat DEF Within, Stays
  <2> QED
    BY <1>0, <2>1, <2>3, StaysProc DEF Stays
<1>9. ASSUME NEW g \in Holders, Pod(g) PROVE Goal
  <2>1. Stays /\ leaf' = leaf /\ budget' = budget
    BY <1>9, Zenon DEF Pod, StartPod, Mount, ReloadPair, ReloadRoots, Stays, SameCA
  <2>2. (Within(2) => Within(2)') /\ (Within(3) => Within(3)')
    BY <2>1 DEF Within, Stays
  <2>3. CASE g # h
    <3>1. mount'[h] = mount[h] /\ cert'[h] = cert[h] /\ roots'[h] = roots[h] /\ lag'[h] = lag[h]
      BY <1>9, <2>3, ZenonT(30) DEF Pod, StartPod, Mount, ReloadPair, ReloadRoots, Types
    <3> QED
      BY <1>0, <2>1, <2>2, <3>1, StaysProc, ZenonT(30) DEF Stays
  <2>4. CASE g = h /\ ~GoodLeaf(h)
    BY <1>a, <2>2, <2>4
  <2>5. CASE g = h /\ GoodLeaf(h) /\ StartPod(h)
    <3>1. mount'[h] = leaf[h] /\ cert'[h] = leaf[h].signer /\ roots'[h] = leaf[h].bundle /\ leaf[h] # Absent
      BY <2>5 DEF StartPod, Types
    <3> QED
      BY <2>1, <2>5, <3>1, ZenonT(30) DEF Stays, SameCA, GoodProc, GoodLeaf, GoodPair, GoodSigner, GoodBundle
  <2>6. CASE g = h /\ GoodLeaf(h) /\ (Mount(h) \/ ReloadPair(h) \/ ReloadRoots(h))
    <3>1. /\ mount[h] # Absent /\ (mount'[h] = mount[h] \/ mount'[h] = leaf[h])
          /\ cert'[h] = cert[h] \/ cert'[h] = mount[h].signer
          /\ roots'[h] = roots[h] \/ roots'[h] = mount[h].bundle
          /\ lag'[h] = Arrived(h, mount'[h], cert'[h], roots'[h])
      BY <2>6, ZenonT(30) DEF Mount, ReloadPair, ReloadRoots, Types
    <3>2. GoodProc(h) => GoodProc(h)'
      BY <2>1, <2>6, <3>1, Zenon DEF Stays, SameCA, GoodProc, GoodLeaf, GoodPair, GoodSigner, GoodBundle
    <3>3. lag'[h] = lag[h] \/ GoodProc(h)'
      BY <2>1, <2>6, <3>1, ZenonT(30) DEF Arrived, Stays, SameCA, GoodProc, GoodLeaf, GoodPair, GoodSigner, GoodBundle
    <3> QED
      BY <1>0, <2>2, <3>2, <3>3
  <2> QED
    BY <1>9, <2>3, <2>4, <2>5, <2>6 DEF Pod
<1>10. CASE Tick
  <2>1. passed /\ lag[h] # 2 /\ SameCA /\ UNCHANGED procs /\ budget' = budget
    <3>1. 2 # 0 /\ ~(2 < 2)
      OBVIOUS
    <3> QED
      BY <1>10, <3>1 DEF Tick, SameCA
  <2>2. age' \in {age, age + 1} /\ (lag[h] = 1 => lag'[h] = 2)
    BY <1>10 DEF Tick
  <2>3. (age <= 1 \/ Within(1) => Within(2)') /\ (Within(2) => Within(3)')
    BY <2>1, <2>2, Numbers, BoundsAreNat DEF Within
  <2>4. CASE lag[h] = 1
    BY <1>0, <2>1, <2>2, <2>3, <2>4, StaysProc
  <2>5. CASE lag[h] = 0 /\ ~GoodProc(h)
    <3>1. mount[h] # Absent /\ InUse(h, leaf[h])
      BY <2>5 DEF UseInv, GoodProc
    <3>2. ~GoodLeaf(h)
      BY <2>5, <3>1 DEF InUse, GoodProc, GoodLeaf, GoodPair
    <3>3. age <= 1 \/ Within(1)
      BY <2>1, <3>2 DEF LeafInv, Pending
    <3> QED
      BY <2>3, <3>3
  <2>6. CASE GoodProc(h)
    BY <2>1, <2>6, StaysProc
  <2> QED
    BY <2>1, <2>4, <2>5, <2>6 DEF Types
<1>11. \A o \in Operators : Start(o) \/ Elect(o) => Goal
  BY <1>1, ZenonT(30) DEF Start, Elect, Stays, SameCA
<1>12. ASSUME NEW o \in Operators, Crash(o) PROVE Goal
  BY <1>1, <1>12, SpendTypes, Zenon DEF Crash, Stays, SameCA, Kinds
<1>13. Sync \/ SetCA \/ EndPass \/ UNCHANGED vars => Goal
  BY <1>1 DEF Sync, SetCA, EndPass, Stays, SameCA
<1>14. CASE CAAges
  BY <1>1, <1>14, SpendTypes DEF CAAges, Stays, SameCA, Kinds
<1>15. ASSUME NEW g \in Holders, LeafAges(g) PROVE Goal
  BY <1>1, <1>15, SpendTypes DEF LeafAges, Stays, SameCA, Kinds
<1>16. \A a \in Agents : ReadCA(a) \/ ReadTrust(a) \/ GetLeaf(a) => Goal
  BY <1>1 DEF ReadCA, ReadTrust, GetLeaf, Stays, SameCA
<1> QED
  BY <1>2, <1>3, <1>5, <1>6, <1>7, <1>8, <1>9, <1>10, <1>11, <1>12, <1>13, <1>14, <1>15, <1>16, ZenonT(30) DEF Next, Operator, Manager, Reconciler

----------------------------------------------------------------------------
(* The whole.                                                              *)

LEMMA InvInit == Init => Inv
<1> SUFFICES ASSUME Init PROVE Inv
  OBVIOUS
<1>1. Types
  BY TypesInit
<1>2. /\ ca = 0 /\ stage = "" /\ age = 0 /\ leader = Absent /\ mgr.at = "idle"
      /\ \A h \in Holders : leaf[h] = Absent /\ mount[h] = Absent
      /\ \A o \in Operators : issuer[o] = Absent
      /\ \A a \in Agents : rec[a].at = "idle"
  BY DEF Init, IdleMgr, IdleRec
<1>3. StageInv /\ EmptyInv /\ LeaderInv /\ UseInv
  BY <1>2, ZenonT(30) DEF StageInv, EmptyInv, LeaderInv, UseInv
<1>4. SafeInv
  BY <1>2 DEF SafeInv, SafeLeaf, SafeProc, SafeRec, SafeLeader
<1>5. RecInv /\ LeafInv /\ ProcInv
  BY <1>2 DEF RecInv, LeafInv, GoodLeaf, ProcInv, GoodProc
<1> QED
  BY <1>1, <1>3, <1>4, <1>5 DEF Inv

LEMMA InvNext ==
  ASSUME ~StaleStandby, MaxErrors + 4 <= Overlap, Inv, [Next]_vars
  PROVE  Inv'
<1>1. Types' /\ StageInv' /\ EmptyInv' /\ LeaderInv'
  BY TypesNext, StageNext, EmptyNext, LeaderNext DEF Inv
<1>2. SafeInv' /\ RecInv' /\ LeafInv'
  BY <1>1, SafeNext, RecNext, LeafNext DEF Inv
<1>3. UseInv' /\ ProcInv'
  BY UseNext, ProcNext DEF Inv
<1> QED
  BY <1>1, <1>2, <1>3 DEF Inv

\* What may be about in a stage is trusted by whoever it is shown to.
LEMMA SafeTrusts ==
  ASSUME NEW s, NEW t, SafeSigner(s), SafeBundle(t)
  PROVE  s \in t
BY DEF SafeSigner, SafeBundle

(***************************************************************************)
(* A rotation of the CA (Manager.rotate, Sync, ensureLeaf, ensureAgentLeaf *)
(* and the reloads of the processes) never leaves a peer that is shown a   *)
(* certificate it does not trust: for any number of agents, replicas,      *)
(* rotations, crashes and renewals, when no standby leads with the CA it   *)
(* loaded at its start and the overlap is four ticks longer than the       *)
(* writes that fail.  Time alone does it: the proof never uses what        *)
(* allCarry and allSignedBy found.                                         *)
(***************************************************************************)
THEOREM EveryPeerTrusts ==
  ASSUME ~StaleStandby, MaxErrors + 4 <= Overlap
  PROVE  Spec => []PeersTrust
<1>1. Init => Inv
  BY InvInit
<1>2. Inv /\ [Next]_vars => Inv'
  BY InvNext
<1>3. Inv => PeersTrust
  <2> SUFFICES ASSUME SafeInv, NEW a \in Agents, Running(a)
               PROVE  /\ Running(Gateway) => Trusts(Gateway, cert[a]) /\ Trusts(a, cert[Gateway])
                      /\ leader # Absent => cert[a] \in ClientRoots /\ Trusts(a, ClientCertificate)
                      /\ cert[a] \in mount[a].bundle
    BY DEF Inv, PeersTrust
  <2>1. SafeSigner(cert[a]) /\ SafeBundle(roots[a]) /\ SafeBundle(mount[a].bundle)
    BY DEF SafeInv, SafeProc, SafePair, Running, Holders
  <2>2. Running(Gateway) => SafeSigner(cert[Gateway]) /\ SafeBundle(roots[Gateway])
    BY Zenon DEF SafeInv, SafeProc, Running, Holders
  <2>3. leader # Absent => SafeSigner(ClientCertificate) /\ SafeBundle(ClientRoots)
    BY DEF SafeInv, SafeLeader, ClientCertificate, ClientRoots
  <2> QED
    BY <2>1, <2>2, <2>3, SafeTrusts DEF Trusts
<1> QED
  BY <1>1, <1>2, <1>3, PTL DEF Spec
=============================================================================
