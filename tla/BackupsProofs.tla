--------------------------- MODULE BackupsProofs ---------------------------
(***************************************************************************)
(* What the agent runs is recorded for it, and its result is let through,  *)
(* for any number of replicas, backups, requests and faults.               *)
(***************************************************************************)
EXTENDS Backups, TLAPS

\* A handler that has not returned runs in a replica.
Homes ==
  \A b \in Names : /\ pc[b] # "idle" => at[b] \in Replicas
                   /\ post[b] # "none" => to[b] \in Replicas

\* A cache that is up to date shows what is recorded.
CacheTrue == \A r \in fresh : cache[r] = pending

\* A request on its way to the instance it was recorded for, and what the
\* agent runs, are recorded, or a gap has opened.
Held ==
  \A b \in Names :
    Active(b) \/ (pc[b] = "proxy" /\ rec[b] = inst) => Recorded(b) \/ gap[b] # ""

\* The inductive invariant.
IInv == TypeOK /\ Homes /\ CacheTrue /\ Held

----------------------------------------------------------------------------
\* A write of UpdateBackups keeps the types and leaves no cache up to date but
\* those that show it.
LEMMA UpdateType ==
  ASSUME NEW r, NEW new \in SUBSET (Names \X Nat), TypeOK, Update(r, new)
  PROVE  pending' \subseteq Names \X Nat /\ fresh' \subseteq Replicas
BY DEF Update, TypeOK

\* withoutBackup and with of a replica are lists of records.
LEMMA NewType ==
  ASSUME NEW r \in Replicas, NEW b \in Names, TypeOK
  PROVE  /\ withoutBackup(r, b) \in SUBSET (Names \X Nat)
         /\ with(r, b) \in SUBSET (Names \X Nat)
<1>1. view[r] \in Nat
  <2>1. view[r] \in 0..inst /\ inst \in Nat
    BY DEF TypeOK
  <2> QED BY <2>1
<1>4. cache[r] \subseteq Names \X Nat
  BY DEF TypeOK
<1>2. Live(r) \subseteq Names \X Nat
  BY <1>4 DEF Live
<1>3. <<b, view[r]>> \in Names \X Nat
  BY <1>1
<1> QED BY <1>2, <1>3 DEF withoutBackup, with

\* Faults are counted down.
LEMMA TroubleType ==
  ASSUME TypeOK, Trouble
  PROVE  requests' \in Nat /\ trouble' \in Nat
<1>1. requests \in Nat /\ trouble \in Nat
  BY Zenon DEF TypeOK
<1> QED BY <1>1 DEF Trouble

\* Gaps have names.
LEMMA GapType ==
  ASSUME NEW b \in Names, NEW g \in Gaps, TypeOK
  PROVE  /\ Name(b, g) => gap' \in [Names -> Gaps \cup {""}]
         /\ \A open, r, new : Open(b, g, open, r, new) => gap' \in [Names -> Gaps \cup {""}]
<1>1. Name(b, g) => gap' \in [Names -> Gaps \cup {""}]
  BY DEF TypeOK, Name
<1>2. "pod" \in Gaps
  BY DEF Gaps
<1>3. ASSUME NEW open, NEW r, NEW new, Open(b, g, open, r, new)
      PROVE  gap' \in [Names -> Gaps \cup {""}]
  BY <1>2, <1>3, Zenon DEF TypeOK, Open
<1> QED BY <1>1, <1>3

\* A handler moves on and stays in its replica until it returns.
LEMMA MoveType ==
  ASSUME TypeOK, Homes,
         NEW next \in [Names -> {"idle", "record", "proxy", "answer", "drop"}], Move(next),
         \A b \in Names : next[b] # "idle" => pc[b] # "idle"
  PROVE  /\ pc' = next
         /\ pc' \in [Names -> {"idle", "record", "proxy", "answer", "drop"}]
         /\ at' \in [Names -> Replicas \cup {None}]
         /\ rec' \in [Names -> 0..inst]
         /\ added' \in [Names -> BOOLEAN]
         /\ \A b \in Names : pc'[b] # "idle" => at'[b] \in Replicas /\ at'[b] = at[b]
         /\ \A b \in Names : pc'[b] # "idle" => rec'[b] = rec[b]
<1>1. pc' = next /\ pc' \in [Names -> {"idle", "record", "proxy", "answer", "drop"}]
  BY DEF Move
<1>2. at' \in [Names -> Replicas \cup {None}]
  BY DEF Move, TypeOK
<1>3. 0 \in 0..inst
  <2>1. inst \in Nat
    BY DEF TypeOK
  <2> QED BY <2>1
<1>4. rec' \in [Names -> 0..inst]
  BY <1>3 DEF Move, TypeOK
<1>5. added' \in [Names -> BOOLEAN]
  <2>1. added \in [Names -> BOOLEAN]
    BY DEF TypeOK
  <2>2. \A b \in Names : (IF next[b] = "idle" THEN FALSE ELSE added[b]) \in BOOLEAN
    BY <2>1
  <2> QED BY <2>2, Zenon DEF Move
<1>6. ASSUME NEW b \in Names, pc'[b] # "idle"
      PROVE  at'[b] \in Replicas /\ at'[b] = at[b] /\ rec'[b] = rec[b]
  BY <1>1, <1>6 DEF Move, Homes
<1> QED BY <1>1, <1>2, <1>4, <1>5, <1>6

\* The types hold initially.
LEMMA InitType == Init => TypeOK /\ Homes
<1> SUFFICES ASSUME Init PROVE TypeOK /\ Homes
  OBVIOUS
<1>0. inst = 1 /\ up \in BOOLEAN /\ view = [r \in Replicas |-> 1]
  BY Zenon DEF Init
<1>1. inst \in Nat \ {0} /\ up \in BOOLEAN /\ view \in [Replicas -> 0..inst]
  BY <1>0
<1>2. rec \in [Names -> 0..inst]
  <2>1. rec = [b \in Names |-> 0]
    BY Zenon DEF Init
  <2> QED BY <1>0, <2>1
<1>3. added \in [Names -> BOOLEAN]
  BY Zenon DEF Init
<1>4. cache \in [Replicas -> SUBSET (Names \X Nat)] /\ pending \subseteq Names \X Nat
  BY DEF Init
<1>5. gap \in [Names -> Gaps \cup {""}]
  BY DEF Init
<1>6. requests \in Nat /\ trouble \in Nat
  BY BackupsAssumption DEF Init
<1>7. /\ pc \in [Names -> {"idle", "record", "proxy", "answer", "drop"}]
      /\ at \in [Names -> Replicas \cup {None}]
      /\ run \in [Names -> {"no", "running", "told"}]
      /\ post \in [Names -> {"none", "forward", "clear"}]
      /\ to \in [Names -> Replicas \cup {None}]
      /\ fresh \subseteq Replicas
  BY DEF Init
<1>8. Homes /\ \A b \in Names : Active(b) => up
  BY DEF Init, Homes, Active
<1> QED BY <1>1, <1>2, <1>3, <1>4, <1>5, <1>6, <1>7, <1>8 DEF TypeOK

\* A step that leaves the agent and the types of the rest alone.
LEMMA ProxyType ==
  ASSUME TypeOK, Homes, NEW b \in Names, Proxy(b)
  PROVE  TypeOK' /\ Homes'
<1>1. CASE Record(b)
  <2> DEFINE r == at[b]
  <2>1. r \in Replicas
    BY <1>1 DEF Record, Homes
  <2>2. Update(r, with(r, b)) /\ Open(b, "cache", with(r, b) = cache[r] /\ <<b, view[r]>> \notin pending, r, with(r, b))
    BY <1>1 DEF Record
  <2>3. pending' \subseteq Names \X Nat /\ fresh' \subseteq Replicas
    BY <2>1, <2>2, UpdateType, NewType
  <2>4. gap' \in [Names -> Gaps \cup {""}]
    BY <2>2, GapType DEF Gaps
  <2>5. rec' \in [Names -> 0..inst]
    BY <1>1, <2>1 DEF Record, TypeOK
  <2>6. added' \in [Names -> BOOLEAN]
    BY <1>1, Zenon DEF Record, TypeOK
  <2>7. pc' \in [Names -> {"idle", "record", "proxy", "answer", "drop"}] /\ Homes'
    BY <1>1 DEF Record, TypeOK, Homes, result
  <2> QED BY <1>1, <2>3, <2>4, <2>5, <2>6, <2>7 DEF Record, TypeOK, agent, result, budget, Active
<1>2. CASE RecordFails(b)
  <2>1. gap' \in [Names -> Gaps \cup {""}]
    BY <1>2, GapType DEF RecordFails, Gaps
  <2>2. added' \in [Names -> BOOLEAN]
    BY <1>2, Zenon DEF RecordFails, TypeOK
  <2>3. pc' \in [Names -> {"idle", "record", "proxy", "answer", "drop"}] /\ Homes'
    BY <1>2 DEF RecordFails, TypeOK, Homes, result
  <2>4. requests' \in Nat /\ trouble' \in Nat
    BY <1>2, TroubleType DEF RecordFails
  <2> QED BY <1>2, <2>1, <2>2, <2>3, <2>4 DEF RecordFails, TypeOK, agent, gs, result, Active
<1>3. CASE Accept(b)
  <2>1. gap' \in [Names -> Gaps \cup {""}]
    <3>1. Name(b, "instance") \/ gap' = gap
      BY <1>3 DEF Accept
    <3> QED BY <3>1, GapType DEF Gaps, TypeOK
  <2>2. pc' \in [Names -> {"idle", "record", "proxy", "answer", "drop"}] /\ Homes'
    BY <1>3 DEF Accept, TypeOK, Homes
  <2>3. run' \in [Names -> {"no", "running", "told"}] /\ up'
    BY <1>3 DEF Accept, TypeOK, agent
  <2> QED BY <1>3, <2>1, <2>2, <2>3 DEF Accept, TypeOK, agent, gs, budget
<1>4. CASE Refuse(b)
  <2> DEFINE next == [pc EXCEPT ![b] = Refused(b)]
  <2>1. next \in [Names -> {"idle", "record", "proxy", "answer", "drop"}] /\ \A c \in Names : next[c] # "idle" => pc[c] # "idle"
    BY <1>4 DEF TypeOK, Refused, Refuse
  <2>2. Move(next)
    BY <1>4 DEF Refuse
  <2> HIDE DEF next
  <2> QED BY <1>4, <2>1, <2>2, MoveType DEF Refuse, TypeOK, Homes, agent, gs, result, budget, Active
<1>5. CASE Answer(b)
  <2>1. PICK next \in {[pc EXCEPT ![b] = "idle"], [pc EXCEPT ![b] = Refused(b)]} : Move(next)
    BY <1>5 DEF Answer
  <2>2. next \in [Names -> {"idle", "record", "proxy", "answer", "drop"}] /\ \A c \in Names : next[c] # "idle" => pc[c] # "idle"
    BY <1>5 DEF TypeOK, Refused, Answer
  <2>3. requests' \in Nat /\ trouble' \in Nat
    BY <1>5, TroubleType, Zenon DEF Answer, TypeOK, budget
  <2> QED BY <1>5, <2>1, <2>2, <2>3, MoveType DEF Answer, TypeOK, Homes, agent, gs, result, Active
<1>6. CASE Drop(b) \/ DropFails(b)
  <2> DEFINE next == [pc EXCEPT ![b] = "idle"]
  <2>1. next \in [Names -> {"idle", "record", "proxy", "answer", "drop"}] /\ \A c \in Names : next[c] # "idle" => pc[c] # "idle"
    BY DEF TypeOK
  <2>2. Move(next)
    BY <1>6 DEF Drop, DropFails
  <2> HIDE DEF next
  <2>3. CASE Drop(b)
    <3> DEFINE r == at[b]
    <3>1. r \in Replicas
      BY <2>3 DEF Drop, Homes
    <3>2. pending' \subseteq Names \X Nat /\ fresh' \subseteq Replicas
      BY <2>3, <3>1, UpdateType, NewType DEF Drop
    <3>3. gap' \in [Names -> Gaps \cup {""}]
      <4>1. \/ Open(b, "own", Recorded(b), r, withoutBackup(r, b))
            \/ Open(b, "answer", Active(b), r, withoutBackup(r, b))
        BY <2>3 DEF Drop
      <4> QED BY <4>1, GapType DEF Gaps
    <3> QED BY <2>1, <2>2, <2>3, <3>2, <3>3, MoveType DEF Drop, TypeOK, Homes, agent, result, budget, Active
  <2>4. CASE DropFails(b)
    <3>1. gap' \in [Names -> Gaps \cup {""}]
      BY <2>4, GapType DEF DropFails, Gaps
    <3>2. requests' \in Nat /\ trouble' \in Nat
      BY <2>4, TroubleType DEF DropFails
    <3> QED BY <2>1, <2>2, <2>4, <3>1, <3>2, MoveType DEF DropFails, TypeOK, Homes, agent, gs, result, Active
  <2> QED BY <1>6, <2>3, <2>4
<1> QED BY <1>1, <1>2, <1>3, <1>4, <1>5, <1>6 DEF Proxy

\* The steps of the agent's post keep the types.
LEMMA ResultType ==
  ASSUME TypeOK, Homes, NEW b \in Names, Result(b)
  PROVE  TypeOK' /\ Homes'
<1>1. ASSUME NEW r \in Replicas, Post(b, r)
      PROVE  TypeOK' /\ Homes'
  <2>1. gap' \in [Names -> Gaps \cup {""}]
    <3>1. Name(b, "lag") \/ gap' = gap
      BY <1>1 DEF Post
    <3> QED BY <3>1, GapType DEF Gaps, TypeOK
  <2>2. /\ post' \in [Names -> {"none", "forward", "clear"}] /\ to' \in [Names -> Replicas \cup {None}]
        /\ run' \in [Names -> {"no", "running", "told"}] /\ Homes'
        /\ \A c \in Names : run'[c] = "running" => run[c] = "running"
    <3>1. CASE Allowed(r, b)
      BY <1>1, <3>1 DEF Post, TypeOK, Homes, request
    <3>2. CASE ~Allowed(r, b)
      BY <1>1, <3>2 DEF Post, TypeOK, Homes, request
    <3> QED BY <3>1, <3>2
  <2> QED BY <1>1, <2>1, <2>2 DEF Post, TypeOK, agent, gs, request, budget, Active
<1>2. CASE Forward(b)
  <2>1. gap' \in [Names -> Gaps \cup {""}]
    <3>1. Name(b, "panel") \/ gap' = gap
      BY <1>2 DEF Forward
    <3> QED BY <3>1, GapType DEF Gaps, TypeOK
  <2>2. /\ post' \in [Names -> {"none", "forward", "clear"}] /\ to' \in [Names -> Replicas \cup {None}]
        /\ run' \in [Names -> {"no", "running", "told"}] /\ Homes'
        /\ \A c \in Names : run'[c] = "running" => run[c] = "running"
    BY <1>2 DEF Forward, TypeOK, Homes, request
  <2>3. requests' \in Nat /\ trouble' \in Nat
    BY <1>2, TroubleType, Zenon DEF Forward, TypeOK, budget
  <2> QED BY <1>2, <2>1, <2>2, <2>3 DEF Forward, TypeOK, agent, gs, request, Active
<1>3. CASE Clear(b) \/ ClearFails(b)
  <2>1. /\ post' \in [Names -> {"none", "forward", "clear"}] /\ to' \in [Names -> Replicas \cup {None}]
        /\ run' \in [Names -> {"no", "running", "told"}] /\ Homes'
        /\ \A c \in Names : run'[c] = "running" => run[c] = "running"
    BY <1>3 DEF Clear, ClearFails, Responded, TypeOK, Homes, request
  <2>2. CASE Clear(b)
    <3> DEFINE r == to[b]
    <3>1. r \in Replicas
      BY <2>2 DEF Clear, Homes
    <3>2. pending' \subseteq Names \X Nat /\ fresh' \subseteq Replicas
      BY <2>2, <3>1, UpdateType, NewType DEF Clear
    <3>3. gap' \in [Names -> Gaps \cup {""}]
      <4>1. \/ Open(b, "own", Recorded(b), r, withoutBackup(r, b))
            \/ Open(b, "late", Under(b), r, withoutBackup(r, b))
        BY <2>2 DEF Clear
      <4> QED BY <4>1, GapType DEF Gaps
    <3> QED BY <2>1, <2>2, <3>2, <3>3 DEF Clear, TypeOK, agent, request, budget, Active
  <2>3. CASE ClearFails(b)
    <3>1. gap' \in [Names -> Gaps \cup {""}]
      BY <2>3, GapType DEF ClearFails, Gaps
    <3>2. requests' \in Nat /\ trouble' \in Nat
      BY <2>3, TroubleType DEF ClearFails
    <3> QED BY <2>1, <2>3, <3>1, <3>2 DEF ClearFails, TypeOK, agent, gs, request, Active
  <2> QED BY <1>3, <2>2, <2>3
<1> QED BY <1>1, <1>2, <1>3 DEF Result

\* Every step keeps the types.
LEMMA NextType ==
  ASSUME TypeOK, Homes, [Next]_vars
  PROVE  TypeOK' /\ Homes'
<1> USE DEF agent, gs, request, result
<1>1. ASSUME NEW b \in Names, NEW r \in Replicas, Request(b, r)
      PROVE  TypeOK' /\ Homes'
  <2>1. requests' \in Nat /\ trouble' \in Nat
    <3>1. requests \in Nat /\ trouble \in Nat
      BY Zenon DEF TypeOK
    <3>2. requests > 0 /\ requests' = requests - 1 /\ trouble' = trouble
      BY <1>1, Zenon DEF Request
    <3> QED BY <3>1, <3>2
  <2>2. /\ pc' \in [Names -> {"idle", "record", "proxy", "answer", "drop"}]
        /\ at' \in [Names -> Replicas \cup {None}] /\ Homes'
    BY <1>1 DEF Request, TypeOK, Homes
  <2> QED BY <1>1, <2>1, <2>2 DEF Request, TypeOK, Active
<1>2. CASE AgentEnds
  <2> DEFINE next == [b \in Names |-> IF pc[b] = "answer" THEN Refused(b) ELSE pc[b]]
  <2>1. next \in [Names -> {"idle", "record", "proxy", "answer", "drop"}] /\ \A c \in Names : next[c] # "idle" => pc[c] # "idle"
    BY DEF TypeOK, Refused
  <2>2. Move(next)
    BY <1>2 DEF AgentEnds
  <2> HIDE DEF next
  <2>3. requests' \in Nat /\ trouble' \in Nat
    BY <1>2, TroubleType DEF AgentEnds
  <2>4. /\ run' \in [Names -> {"no", "running", "told"}]
        /\ \A c \in Names : ~Active(c)'
    BY <1>2 DEF AgentEnds, TypeOK, Active
  <2>5. PICK lost \in SUBSET {b \in Names : post[b] = "forward"} :
          /\ post' = [b \in Names |-> IF b \in lost THEN "none" ELSE IF post[b] = "forward" THEN "clear" ELSE post[b]]
          /\ to' = [b \in Names |-> IF b \in lost THEN None ELSE to[b]]
    BY <1>2 DEF AgentEnds
  <2>6. /\ post' \in [Names -> {"none", "forward", "clear"}] /\ to' \in [Names -> Replicas \cup {None}]
        /\ \A c \in Names : post'[c] # "none" => to'[c] \in Replicas
    BY <2>5 DEF TypeOK, Homes
  <2> QED BY <1>2, <2>1, <2>2, <2>3, <2>4, <2>6, MoveType DEF AgentEnds, TypeOK, Homes
<1>3. CASE AgentBoots
  <2>1. inst \in Nat \ {0} /\ view \in [Replicas -> 0..inst] /\ rec \in [Names -> 0..inst]
    BY Zenon DEF TypeOK
  <2>2. inst' = inst + 1 /\ view' = view /\ rec' = rec /\ up'
    BY <1>3, Zenon DEF AgentBoots
  <2>3. inst' \in Nat \ {0} /\ 0..inst \subseteq 0..inst'
    BY <2>1, <2>2
  <2>4. view' \in [Replicas -> 0..inst'] /\ rec' \in [Names -> 0..inst']
    BY <2>1, <2>2, <2>3
  <2> QED BY <1>3, <2>2, <2>3, <2>4, Zenon DEF AgentBoots, TypeOK, Homes, Active, budget
<1>4. AgentInstance \in 0..inst
  <2>1. inst \in Nat
    BY Zenon DEF TypeOK
  <2> QED BY <2>1 DEF AgentInstance
<1>5. ASSUME NEW r \in Replicas, SeePod(r)
      PROVE  TypeOK' /\ Homes'
  <2>1. view' \in [Replicas -> 0..inst]
    BY <1>4, <1>5, Zenon DEF SeePod, TypeOK
  <2> QED BY <1>5, <2>1, Zenon DEF SeePod, TypeOK, Homes, Active, budget
<1>6. ASSUME NEW r \in Replicas, SeeServer(r)
      PROVE  TypeOK' /\ Homes'
  <2>1. cache' \in [Replicas -> SUBSET (Names \X Nat)] /\ fresh' \subseteq Replicas
    BY <1>6 DEF SeeServer, TypeOK
  <2> QED BY <1>6, <2>1, Zenon DEF SeeServer, TypeOK, Homes, Active, budget
<1>7. ASSUME NEW r \in Replicas, Crash(r)
      PROVE  TypeOK' /\ Homes'
  <2> DEFINE next == [b \in Names |-> IF at[b] = r THEN "idle" ELSE pc[b]]
  <2>1. next \in [Names -> {"idle", "record", "proxy", "answer", "drop"}] /\ \A c \in Names : next[c] # "idle" => pc[c] # "idle"
    BY DEF TypeOK
  <2>2. Move(next)
    BY <1>7 DEF Crash
  <2> HIDE DEF next
  <2>3. requests' \in Nat /\ trouble' \in Nat
    BY <1>7, TroubleType DEF Crash
  <2>4. view' \in [Replicas -> 0..inst]
    BY <1>4, <1>7, Zenon DEF Crash, TypeOK
  <2>5. cache' \in [Replicas -> SUBSET (Names \X Nat)] /\ fresh' \subseteq Replicas
    BY <1>7 DEF Crash, TypeOK
  <2>6. /\ post' \in [Names -> {"none", "forward", "clear"}] /\ to' \in [Names -> Replicas \cup {None}]
        /\ run' \in [Names -> {"no", "running", "told"}]
        /\ \A c \in Names : run'[c] = "running" => run[c] = "running"
        /\ \A c \in Names : post'[c] # "none" => to'[c] \in Replicas
    BY <1>7 DEF Crash, TypeOK, Homes
  <2>7. gap' \in [Names -> Gaps \cup {""}]
    BY <1>7 DEF Crash, TypeOK, Gaps
  <2> QED BY <1>7, <2>1, <2>2, <2>3, <2>4, <2>5, <2>6, <2>7, MoveType DEF Crash, TypeOK, Homes, Active
<1>8. CASE UNCHANGED vars
  BY <1>8, Zenon DEF vars, TypeOK, Homes, Active, budget
<1> QED BY <1>1, <1>2, <1>3, <1>5, <1>6, <1>7, <1>8, ProxyType, ResultType DEF Next, Progress

\* Every step keeps a cache that is up to date so: a write makes them all older.
LEMMA NextCache ==
  ASSUME TypeOK, CacheTrue, [Next]_vars
  PROVE  CacheTrue'
<1> USE DEF agent, gs
<1>1. ASSUME NEW r, NEW new, Update(r, new), cache' = cache
      PROVE  CacheTrue'
  BY <1>1 DEF Update, CacheTrue
<1>2. ASSUME NEW b \in Names, Proxy(b)
      PROVE  CacheTrue'
  <2>1. CASE Record(b)
    BY <1>1, <2>1 DEF Record
  <2>2. CASE Drop(b)
    BY <1>1, <2>2 DEF Drop
  <2> QED BY <1>2, <2>1, <2>2 DEF Proxy, RecordFails, Accept, Refuse, Answer, DropFails, CacheTrue
<1>3. ASSUME NEW b \in Names, Result(b)
      PROVE  CacheTrue'
  <2>1. CASE Clear(b)
    BY <1>1, <2>1 DEF Clear
  <2> QED BY <1>3, <2>1 DEF Result, Post, Forward, ClearFails, CacheTrue
<1>4. ASSUME NEW r \in Replicas, SeeServer(r) \/ Crash(r)
      PROVE  CacheTrue'
  <2>1. pending' = pending /\ fresh' = fresh \cup {r} /\ cache' = [cache EXCEPT ![r] = pending]
    BY <1>4, Zenon DEF SeeServer, Crash
  <2>2. fresh \subseteq Replicas /\ cache \in [Replicas -> SUBSET (Names \X Nat)]
    BY Zenon DEF TypeOK
  <2> QED BY <2>1, <2>2 DEF CacheTrue
<1>5. CASE AgentEnds \/ AgentBoots \/ UNCHANGED vars \/ \E r \in Replicas : SeePod(r) \/ \E b \in Names : Request(b, r)
  BY <1>5 DEF AgentEnds, AgentBoots, SeePod, Request, CacheTrue, vars
<1> QED BY <1>2, <1>3, <1>4, <1>5 DEF Next, Progress

\* An update drops the record of no backup but its own, unless the pod cache is
\* behind, which opens a gap.
LEMMA UpdateKeeps ==
  ASSUME TypeOK, CacheTrue, inst' = inst,
         NEW r \in Replicas, NEW b \in Names, NEW c \in Names, NEW new,
         new = with(r, b) \/ (new = withoutBackup(r, b) /\ c # b),
         Update(r, new), c \in LeftOut(r, new) => gap'[c] # "",
         Recorded(c)
  PROVE  Recorded(c)' \/ gap'[c] # ""
<1>1. CASE new = cache[r]
  BY <1>1 DEF Update, Recorded
<1>2. CASE new # cache[r]
  <2>1. cache[r] = pending /\ pending' = new
    BY <1>2 DEF Update, CacheTrue
  <2>2. CASE view[r] # inst
    BY <1>2, <2>1, <2>2 DEF LeftOut, Recorded
  <2>3. CASE view[r] = inst
    <3>1. inst # 0
      BY Zenon DEF TypeOK
    <3>2. <<c, inst>> \in Live(r)
      BY <2>1, <2>3, <3>1 DEF Live, Recorded
    <3> QED BY <2>1, <3>2 DEF with, withoutBackup, Recorded
  <2> QED BY <2>2, <2>3
<1> QED BY <1>1, <1>2

\* The steps of a request keep what runs recorded.
LEMMA ProxyHeld ==
  ASSUME IInv, NEW b \in Names, Proxy(b)
  PROVE  Held'
<1> USE DEF IInv, Active
<1> SUFFICES ASSUME NEW c \in Names, Active(c)' \/ (pc'[c] = "proxy" /\ rec'[c] = inst')
             PROVE  Recorded(c)' \/ gap'[c] # ""
  BY DEF Held
<1>1. CASE Record(b)
  <2> DEFINE r == at[b]  new == with(r, b)
  <2>1. r \in Replicas /\ inst' = inst /\ run' = run /\ Update(r, new)
    BY <1>1 DEF Record, Homes, agent
  <2>2. /\ gap[c] # "" => gap'[c] # ""
        /\ c \in LeftOut(r, new) => gap'[c] # ""
        /\ c = b /\ new = cache[r] /\ <<b, view[r]>> \notin pending => gap'[c] # ""
    BY <1>1 DEF Record, Open
  <2>3. CASE Recorded(c)
    BY <2>1, <2>2, <2>3, UpdateKeeps
  <2>4. CASE c = b /\ view[r] = inst
    <3>1. <<b, inst>> \in new
      BY <2>4 DEF with
    <3> QED BY <2>1, <2>2, <2>4, <3>1 DEF Update, Recorded
  <2>5. CASE ~Recorded(c) /\ ~(c = b /\ view[r] = inst)
    <3>1. Active(c) \/ (pc[c] = "proxy" /\ rec[c] = inst)
      BY <1>1, <2>1, <2>5 DEF Record, TypeOK
    <3> QED BY <2>2, <2>5, <3>1 DEF Held
  <2> QED BY <2>3, <2>4, <2>5
<1>2. CASE RecordFails(b)
  <2>1. /\ gap'[b] # ""
        /\ gap[c] # "" => gap'[c] # ""
        /\ pending' = pending /\ inst' = inst /\ run' = run /\ rec' = rec
        /\ c # b => pc'[c] = pc[c]
    BY <1>2 DEF RecordFails, Name, TypeOK, agent, gs
  <2> QED BY <2>1 DEF Held, Recorded
<1>3. CASE Accept(b)
  <2>1. /\ gap[c] # "" => gap'[c] # ""
        /\ c = b /\ rec[b] # inst => gap'[c] # ""
    BY <1>3 DEF Accept, Name, TypeOK
  <2>2. /\ pending' = pending /\ inst' = inst /\ rec' = rec /\ pc[b] = "proxy"
        /\ c # b => pc'[c] = pc[c] /\ run'[c] = run[c]
        /\ pc'[b] = "answer"
    BY <1>3 DEF Accept, TypeOK, agent, gs
  <2> QED BY <2>1, <2>2 DEF Held, Recorded
<1>4. CASE Refuse(b) \/ Answer(b)
  <2>1. PICK next \in {[pc EXCEPT ![b] = "idle"], [pc EXCEPT ![b] = Refused(b)]} : Move(next)
    BY <1>4 DEF Answer, Refuse
  <2>2. next \in [Names -> {"idle", "record", "proxy", "answer", "drop"}]
        /\ \A d \in Names : next[d] # "idle" => pc[d] # "idle"
    BY <1>4 DEF TypeOK, Refused, Answer, Refuse
  <2>3. pc' = next /\ (pc'[c] = "proxy" => pc[c] = "proxy" /\ rec'[c] = rec[c])
    BY <2>1, <2>2, MoveType DEF Refused, TypeOK
  <2>4. pending' = pending /\ inst' = inst /\ run' = run /\ gap' = gap
    BY <1>4 DEF Refuse, Answer, agent, gs
  <2> QED BY <2>3, <2>4 DEF Held, Recorded
<1>5. CASE Drop(b) \/ DropFails(b)
  <2> DEFINE next == [pc EXCEPT ![b] = "idle"]
  <2>1. next \in [Names -> {"idle", "record", "proxy", "answer", "drop"}] /\ \A d \in Names : next[d] # "idle" => pc[d] # "idle"
    BY DEF TypeOK
  <2>2. Move(next)
    BY <1>5 DEF Drop, DropFails
  <2>3. pc'[c] = "proxy" => pc[c] = "proxy" /\ rec'[c] = rec[c] /\ c # b
    <3>1. pc' = next /\ rec' = [d \in Names |-> IF next[d] = "idle" THEN 0 ELSE rec[d]]
      BY <2>2, Zenon DEF Move
    <3>2. pc \in [Names -> {"idle", "record", "proxy", "answer", "drop"}]
      BY Zenon DEF TypeOK
    <3> QED BY <3>1, <3>2
  <2>4. inst' = inst /\ run' = run
    BY <1>5 DEF Drop, DropFails, agent
  <2>5. Recorded(c) \/ gap[c] # ""
    BY <2>3, <2>4 DEF Held
  <2>6. CASE Drop(b)
    <3> DEFINE r == at[b]  new == withoutBackup(r, b)
    <3>1. r \in Replicas /\ Update(r, new)
      BY <2>6 DEF Drop, Homes
    <3>2. /\ gap[c] # "" => gap'[c] # ""
          /\ c \in LeftOut(r, new) => gap'[c] # ""
          /\ c = b /\ new # cache[r] /\ Active(b) => gap'[c] # ""
      BY <2>6 DEF Drop, Open
    <3>3. CASE c # b
      BY <2>4, <2>5, <3>1, <3>2, <3>3, UpdateKeeps
    <3>4. CASE c = b
      <4>1. Active(b)
        BY <2>3, <2>4, <3>4
      <4> QED BY <2>4, <2>5, <3>1, <3>2, <3>4, <4>1 DEF Update, Recorded
    <3> QED BY <3>3, <3>4
  <2>7. CASE DropFails(b)
    BY <2>4, <2>5, <2>7 DEF DropFails, Name, TypeOK, gs, Recorded
  <2> QED BY <1>5, <2>6, <2>7
<1> QED BY <1>1, <1>2, <1>3, <1>4, <1>5 DEF Proxy

\* The steps of a result keep what runs recorded.
LEMMA ResultHeld ==
  ASSUME IInv, NEW b \in Names, Result(b)
  PROVE  Held'
<1> USE DEF IInv, Active
<1> SUFFICES ASSUME NEW c \in Names, Active(c)' \/ (pc'[c] = "proxy" /\ rec'[c] = inst')
             PROVE  Recorded(c)' \/ gap'[c] # ""
  BY DEF Held
<1>1. inst' = inst /\ pc' = pc /\ rec' = rec
  BY Zenon DEF Result, Post, Forward, Clear, ClearFails, agent, request
<1>2. run'[c] = "running" => run[c] = "running"
  <2>1. run \in [Names -> {"no", "running", "told"}]
    BY Zenon DEF TypeOK
  <2> QED BY <2>1 DEF Result, Post, Forward, Clear, ClearFails, Responded
<1>3. Recorded(c) \/ gap[c] # ""
  BY <1>1, <1>2 DEF Held
<1>4. CASE Clear(b)
  <2> DEFINE r == to[b]  new == withoutBackup(r, b)
  <2>1. r \in Replicas /\ Update(r, new)
    BY <1>4 DEF Clear, Homes
  <2>2. /\ gap[c] # "" => gap'[c] # ""
        /\ c \in LeftOut(r, new) => gap'[c] # ""
        /\ c = b /\ new # cache[r] /\ Under(b) => gap'[c] # ""
    BY <1>4 DEF Clear, Open
  <2>3. CASE c # b
    BY <1>1, <1>3, <2>1, <2>2, <2>3, UpdateKeeps
  <2>4. CASE c = b
    <3>1. Under(b)
      BY <1>1, <1>2, <2>4 DEF Under
    <3> QED BY <1>1, <1>3, <2>1, <2>2, <2>4, <3>1 DEF Update, Recorded
  <2> QED BY <2>3, <2>4
<1>5. CASE ~Clear(b)
  <2>1. pending' = pending
    BY <1>5, Zenon DEF Result, Post, Forward, ClearFails, gs
  <2>2. gap \in [Names -> Gaps \cup {""}]
    BY Zenon DEF TypeOK
  <2>3. gap[c] # "" => gap'[c] # ""
    BY <1>5, <2>2 DEF Result, Post, Forward, ClearFails, Name
  <2> QED BY <1>1, <1>3, <2>1, <2>3 DEF Recorded
<1> QED BY <1>4, <1>5

\* Every step keeps what runs recorded.
LEMMA NextHeld ==
  ASSUME IInv, [Next]_vars
  PROVE  Held'
<1> USE DEF IInv, Active
<1>1. CASE \E b \in Names : Proxy(b) \/ Result(b)
  BY <1>1, ProxyHeld, ResultHeld
<1>2. CASE AgentBoots
  <2>1. /\ ~up /\ inst' = inst + 1 /\ rec' = rec /\ run' = run
        /\ inst \in Nat /\ \A b \in Names : rec[b] \in 0..inst
        /\ \A b \in Names : run[b] = "running" => up
    BY <1>2, Zenon DEF AgentBoots, TypeOK, request
  <2>2. \A b \in Names : rec[b] # inst + 1
    BY <2>1
  <2> QED BY <2>1, <2>2 DEF Held
<1>3. CASE AgentEnds
  <2> DEFINE next == [b \in Names |-> IF pc[b] = "answer" THEN Refused(b) ELSE pc[b]]
  <2>1. inst' = inst /\ pending' = pending /\ gap' = gap /\ Move(next)
        /\ run' = [b \in Names |-> IF Active(b) THEN "no" ELSE run[b]]
    BY <1>3, Zenon DEF AgentEnds, gs
  <2>2. ASSUME NEW c \in Names PROVE ~Active(c)' /\ (pc'[c] = "proxy" => pc[c] = "proxy" /\ rec'[c] = rec[c])
    BY <2>1 DEF Move, Refused
  <2> QED BY <2>1, <2>2 DEF Held, Recorded
<1>4. ASSUME NEW r \in Replicas, Crash(r) PROVE Held'
  <2> DEFINE next == [b \in Names |-> IF at[b] = r THEN "idle" ELSE pc[b]]
  <2>1. inst' = inst /\ pending' = pending /\ Move(next)
        /\ run' = [b \in Names |-> IF to[b] = r /\ run[b] = "told" THEN "no" ELSE run[b]]
        /\ gap' = [b \in Names |-> IF gap[b] = "" /\ (\/ at[b] = r /\ pc[b] \in {"proxy", "drop"}
                                                      \/ to[b] = r /\ post[b] = "clear")
                                   THEN "crash" ELSE gap[b]]
    BY <1>4, Zenon DEF Crash
  <2>2. ASSUME NEW c \in Names
        PROVE  /\ run'[c] = "running" => run[c] = "running"
               /\ pc'[c] = "proxy" => pc[c] = "proxy" /\ rec'[c] = rec[c]
               /\ gap[c] # "" => gap'[c] # ""
    BY <2>1 DEF Move
  <2> QED BY <2>1, <2>2 DEF Held, Recorded
<1>5. ASSUME NEW r \in Replicas, NEW b \in Names, Request(b, r) PROVE Held'
  <2>1. /\ inst' = inst /\ pending' = pending /\ gap' = gap /\ run' = run /\ rec' = rec
        /\ pc' = [pc EXCEPT ![b] = "record"]
    BY <1>5, Zenon DEF Request, agent, gs
  <2>2. \A c \in Names : pc'[c] = "proxy" => pc[c] = "proxy"
    <3>1. pc \in [Names -> {"idle", "record", "proxy", "answer", "drop"}]
      BY Zenon DEF TypeOK
    <3> QED BY <2>1, <3>1
  <2> QED BY <2>1, <2>2 DEF Held, Recorded
<1>6. CASE (\E r \in Replicas : SeePod(r) \/ SeeServer(r)) \/ UNCHANGED vars
  <2>1. /\ inst' = inst /\ pending' = pending /\ gap' = gap /\ run' = run
        /\ rec' = rec /\ pc' = pc
    BY <1>6, Zenon DEF SeePod, SeeServer, vars, agent, gs, request
  <2> QED BY <2>1 DEF Held, Recorded
<1> QED BY <1>1, <1>2, <1>3, <1>4, <1>5, <1>6 DEF Next, Progress

----------------------------------------------------------------------------
\* The inductive invariant holds throughout.
LEMMA Invariance == Spec => []IInv
<1>1. Init => IInv
  <2> SUFFICES ASSUME Init PROVE IInv
    OBVIOUS
  <2>1. CacheTrue
    BY DEF Init, CacheTrue
  <2>2. Held
    BY DEF Init, Held, Active
  <2> QED BY <2>1, <2>2, InitType DEF IInv
<1>2. IInv /\ [Next]_vars => IInv'
  BY NextType, NextCache, NextHeld DEF IInv
<1> QED BY <1>1, <1>2, PTL DEF Spec

\* The types hold for any number of replicas, backups, requests and faults.
THEOREM Types == Spec => []TypeOK
BY Invariance, PTL DEF IInv

\* A backup that runs is recorded for the very instance that runs it, or one
\* of the named gaps has opened: what backupProxy, backup and UpdateBackups
\* keep up between them, for any number of replicas, backups, requests and
\* faults.
THEOREM RecordHolds == Spec => []RunningRecorded
<1>1. IInv => RunningRecorded
  BY DEF IInv, Held, RunningRecorded
<1> QED BY <1>1, Invariance, PTL

\* The remote API gives up no result of a backup the agent has just run, other
\* than with the agent or through a named gap, for any number of replicas,
\* backups, requests and faults.
THEOREM Forwarded == Spec => ResultForwarded
<1> DEFINE Given == \A b \in Names : Active(b) /\ run'[b] = "no" /\ up' => gap'[b] # ""
<1>1. IInv /\ [Next]_vars => [Given]_vars
  <2> SUFFICES ASSUME IInv, Next, NEW b \in Names, Active(b), run'[b] = "no", up'
               PROVE  gap'[b] # ""
    BY Zenon
  <2> USE DEF IInv, Active
  <2>1. PICK r \in Replicas : Post(b, r) /\ ~Allowed(r, b)
    <3>1. run \in [Names -> {"no", "running", "told"}]
      BY Zenon DEF TypeOK
    <3>2. CASE \E c \in Names : Proxy(c)
      BY <3>1, <3>2 DEF Proxy, Record, RecordFails, Accept, Refuse, Answer, Drop, DropFails
    <3>3. CASE \E c \in Names : Result(c)
      BY <3>1, <3>3 DEF Result, Post, Forward, Clear, ClearFails, Responded
    <3>4. CASE AgentBoots \/ (\E r \in Replicas : SeePod(r) \/ SeeServer(r) \/ \E c \in Names : Request(c, r))
      <4>1. run' = run
        BY <3>4, Zenon DEF AgentBoots, SeePod, SeeServer, Request
      <4> QED BY <4>1
    <3>5. CASE \E r \in Replicas : Crash(r)
      BY <3>5 DEF Crash
    <3>6. CASE AgentEnds
      BY <3>6, Zenon DEF AgentEnds
    <3> QED BY <3>2, <3>3, <3>4, <3>5, <3>6 DEF Next, Progress
  <2>2. <<b, inst>> \notin cache[r]
    <3>1. <<b, inst>>[1] = b
      OBVIOUS
    <3> QED BY <2>1, <3>1, Zenon DEF Allowed
  <2>3. gap \in [Names -> Gaps \cup {""}]
    BY Zenon DEF TypeOK
  <2>4. IF Recorded(b) /\ <<b, inst>> \notin cache[r] THEN Name(b, "lag") ELSE UNCHANGED gap
    BY <2>1, Zenon DEF Post
  <2>5. CASE Recorded(b)
    BY <2>2, <2>3, <2>4, <2>5 DEF Name
  <2>6. CASE ~Recorded(b)
    BY <2>4, <2>6 DEF Held
  <2> QED BY <2>5, <2>6
<1> QED BY <1>1, Invariance, PTL DEF Spec, ResultForwarded

=============================================================================
