------------------------- MODULE ServerConfigProofs -------------------------
(***************************************************************************)
(* Proofs about ServerConfig, for any threads and configurations.          *)
(***************************************************************************)
EXTENDS ServerConfig, TLAPS

(***************************************************************************)
(* The inductive invariant, in named parts.                                *)
(***************************************************************************)

\* What a field was given as, and what it is once its default was written.
Given(f) == config.settings[f]
Final(f) == Filled(f, config.settings[f], config.env)

\* A field is as the application left it, or filled.
FieldsAreFilledOrGiven == \A f \in Fields : settings[f] \in {Given(f), Final(f)}

\* Where create() has been.
HasFilled(t, i) ==
  /\ job[t] = "create"
  /\ \/ pc[t] = "filling" /\ i < at[t]
     \/ pc[t] \in {"checking", "capture", "api", "hosted", "built"}

\* A field that a create() has filled stays filled.
FilledStays ==
  \A t \in Threads, i \in 1..3 : HasFilled(t, i) => settings[FieldOrder[i]] = Final(FieldOrder[i])

\* The fields a client has read.
HasRead(t, k, i) ==
  \/ pc[t] = k /\ i < at[t]
  \/ k = "capture" /\ pc[t] \in {"api", "hosted"}
  \/ k = "api" /\ pc[t] = "hosted"
  \/ pc[t] = "built" /\ k \in Clients(t)

\* A client has the value a field was given, or its default; an instance's the
\* latter.
ReadIsFilledOrGiven ==
  \A t \in Threads, k \in {"capture", "api"}, i \in 1..3 : HasRead(t, k, i) =>
    LET value == clients[t][k][FieldOrder[i]] IN
    /\ value \in {Given(FieldOrder[i]), Final(FieldOrder[i])}
    /\ job[t] = "create" => value = Final(FieldOrder[i])

\* Nothing is written or built unless what the application set is valid.
OnlyValidIsUsed ==
  /\ settings # config.settings => Valid(config, config.settings)
  /\ \A t \in Threads :
       pc[t] \in {"filling", "capture", "api", "hosted", "built"}
         => Valid(config, config.settings)

\* Only create() fills, and builds more than the capture client.
OnlyCreateFills ==
  \A t \in Threads : pc[t] \in {"filling", "api", "hosted"} => job[t] = "create"

\* Every pass over the fields begins with the first.
BeginsAtFirst ==
  \A t \in Threads : pc[t] \in {"idle", "checking", "hosted", "built", "failed"} => at[t] = 1

IInv ==
  /\ TypeOK
  /\ FieldsAreFilledOrGiven
  /\ FilledStays
  /\ ReadIsFilledOrGiven
  /\ OnlyValidIsUsed
  /\ OnlyCreateFills
  /\ BeginsAtFirst

----------------------------------------------------------------------------
(* Fields and defaults. *)

LEMMA FieldsInOrder ==
  /\ \A i \in 1..3 : FieldOrder[i] \in Fields
  /\ \A f \in Fields : \E i \in 1..3 : FieldOrder[i] = f
BY DEF FieldOrder, Fields

\* A default is a number, and filling a field twice is filling it once.
LEMMA FilledTwice ==
  ASSUME NEW f \in Fields, NEW v \in Int, NEW env
  PROVE  Filled(f, v, env) \in Int /\ Filled(f, Filled(f, v, env), env) = Filled(f, v, env)
<1>1. /\ EnvironmentDefaults(env)[f] \in Int
      /\ EnvironmentDefaults(env)[f] > 0
  BY DEF EnvironmentDefaults, SandboxDefaults, ProductionDefaults, Fields
<1> QED BY <1>1 DEF Filled, Unset

\* A valid choice is neither changed by the defaults nor by a request.
LEMMA ChoiceIsKept ==
  ASSUME NEW f \in Fields, NEW conf, conf.settings \in Settings, Valid(conf, conf.settings),
         conf.settings[f] # Unset
  PROVE  /\ Filled(f, conf.settings[f], conf.env) = conf.settings[f]
         /\ Effective(f, conf.settings[f]) = conf.settings[f]
BY DEF Valid, Filled, Effective, Settings, Fields, Unset

----------------------------------------------------------------------------
(* The steps. *)

LEMMA InitInvariant == Init => IInv
<1> SUFFICES ASSUME Init  PROVE IInv
  OBVIOUS
<1> USE ConfigAssumption DEF Init
<1>1. TypeOK
  BY DEF TypeOK, Settings, Unread, Unset
<1>2. FieldsAreFilledOrGiven /\ OnlyValidIsUsed
  BY DEF FieldsAreFilledOrGiven, Given, OnlyValidIsUsed
<1>3. FilledStays /\ ReadIsFilledOrGiven
  BY DEF FilledStays, HasFilled, ReadIsFilledOrGiven, HasRead
<1>4. OnlyCreateFills /\ BeginsAtFirst
  BY DEF OnlyCreateFills, BeginsAtFirst
<1> QED BY <1>1, <1>2, <1>3, <1>4 DEF IInv

\* A validation passes only what the application set validly.
LEMMA ValidIsGiven ==
  ASSUME IInv, Valid(config, settings)
  PROVE  Valid(config, config.settings)
BY DEF IInv, OnlyValidIsUsed

\* What was filled and read stays so while no field is written or read.
LEMMA NothingReadAnew ==
  ASSUME IInv, UNCHANGED <<config, settings, job, clients>>,
         \A t \in Threads, i \in 1..3 : HasFilled(t, i)' => HasFilled(t, i),
         \A t \in Threads, k \in {"capture", "api"}, i \in 1..3 :
           HasRead(t, k, i)' => HasRead(t, k, i)
  PROVE  FieldsAreFilledOrGiven' /\ FilledStays' /\ ReadIsFilledOrGiven'
<1>1. \A f \in Fields : Given(f)' = Given(f) /\ Final(f)' = Final(f)
  BY DEF Given, Final
<1>2. FieldsAreFilledOrGiven' /\ FilledStays'
  BY <1>1, FieldsInOrder DEF IInv, FieldsAreFilledOrGiven, FilledStays
<1>3. ReadIsFilledOrGiven'
  BY <1>1, FieldsInOrder DEF IInv, ReadIsFilledOrGiven
<1> QED BY <1>2, <1>3

LEMMA StartKeeps ==
  ASSUME IInv, NEW t \in Threads, Start(t)
  PROVE  IInv'
<1> USE DEF Start, IInv
<1>1. TypeOK'
  <2>1. Unread \in [{"capture", "api"} -> Settings]
    BY DEF Unread, Settings, Unset
  <2>2. clients' \in [Threads -> [{"capture", "api"} -> Settings]]
    BY <2>1 DEF TypeOK
  <2>3. UNCHANGED <<config, settings>> /\ at' \in [Threads -> 1..3]
    BY DEF TypeOK
  <2>4. job' \in [Threads -> {"create", "decide"}]
    BY DEF TypeOK
  <2>5. pc' \in [Threads -> {"idle", "filling", "checking", "capture", "api", "hosted",
                            "built", "failed"}]
    BY DEF TypeOK
  <2> QED BY <2>2, <2>3, <2>4, <2>5 DEF TypeOK
<1>2. \A f \in Fields : Given(f)' = Given(f) /\ Final(f)' = Final(f)
  BY DEF Given, Final
<1>3. FieldsAreFilledOrGiven' /\ FilledStays'
  <2>1. \A u \in Threads, i \in 1..3 : HasFilled(u, i)' => HasFilled(u, i)
    BY DEF TypeOK, HasFilled
  <2> QED BY <1>2, <2>1, FieldsInOrder DEF FieldsAreFilledOrGiven, FilledStays
<1>4. ReadIsFilledOrGiven'
  <2>1. \A u \in Threads, k \in {"capture", "api"}, i \in 1..3 :
          HasRead(u, k, i)' => u # t /\ HasRead(u, k, i)
    BY DEF TypeOK, HasRead, Clients
  <2>2. \A u \in Threads \ {t} : clients'[u] = clients[u] /\ job'[u] = job[u]
    BY DEF TypeOK
  <2> QED BY <1>2, <2>1, <2>2, FieldsInOrder DEF ReadIsFilledOrGiven
<1>5. OnlyValidIsUsed'
  BY ValidIsGiven DEF TypeOK, OnlyValidIsUsed
<1>6. OnlyCreateFills' /\ BeginsAtFirst'
  BY DEF TypeOK, OnlyCreateFills, BeginsAtFirst
<1> QED BY <1>1, <1>3, <1>4, <1>5, <1>6

\* Writing a default makes a field final, whoever wrote it before.
LEMMA FillKeeps ==
  ASSUME IInv, NEW t \in Threads, Fill(t)
  PROVE  IInv'
<1> DEFINE i == at[t]
           f == FieldOrder[i]
<1>1. i \in 1..3 /\ f \in Fields /\ settings[f] \in Int /\ Given(f) \in Int /\ pc[t] = "filling"
  BY FieldsInOrder, ConfigAssumption DEF IInv, TypeOK, Fill, Settings, Given
<1>2. UNCHANGED <<config, job, clients>>
  BY DEF Fill
<1>3. settings' = [settings EXCEPT ![f] = Final(f)]
  <2>1. Filled(f, settings[f], config.env) = Final(f)
    BY <1>1, FilledTwice DEF IInv, FieldsAreFilledOrGiven, Given, Final
  <2> QED BY <2>1 DEF Fill
<1>4. Final(f) \in Int
  BY <1>1, FilledTwice DEF Given, Final
<1>5. /\ settings'[f] = Final(f)
      /\ \A g \in Fields \ {f} : settings'[g] = settings[g]
      /\ settings' \in Settings
  BY <1>1, <1>3, <1>4 DEF IInv, TypeOK, Settings
<1>6. /\ \A x \in Threads \ {t} : pc'[x] = pc[x] /\ at'[x] = at[x]
      /\ pc' \in [Threads -> {"idle", "filling", "checking", "capture", "api", "hosted",
                              "built", "failed"}]
      /\ at' \in [Threads -> 1..3]
      /\ \/ pc'[t] = "filling" /\ at'[t] = i + 1
         \/ pc'[t] = "checking" /\ i = 3 /\ at'[t] = 1
  BY <1>1 DEF Fill, Advance, IInv, TypeOK
<1>7. TypeOK'
  BY <1>2, <1>5, <1>6 DEF IInv, TypeOK
<1>8. FieldsAreFilledOrGiven'
  BY <1>2, <1>5 DEF IInv, FieldsAreFilledOrGiven, Given, Final
<1>9. FilledStays'
  <2> SUFFICES ASSUME NEW x \in Threads, NEW j \in 1..3, HasFilled(x, j)'
               PROVE  settings'[FieldOrder[j]] = Final(FieldOrder[j])
    BY <1>2 DEF FilledStays, Final
  <2>1. HasFilled(x, j) \/ (x = t /\ j = i)
    BY <1>1, <1>2, <1>6 DEF HasFilled
  <2> QED BY <2>1, <1>5, FieldsInOrder DEF IInv, FilledStays
<1>10. ReadIsFilledOrGiven'
  <2>1. \A x \in Threads, k \in {"capture", "api"}, j \in 1..3 : HasRead(x, k, j)' => HasRead(x, k, j)
    BY <1>2, <1>6 DEF HasRead, Clients
  <2> QED BY <1>2, <2>1 DEF IInv, ReadIsFilledOrGiven, Given, Final
<1>11. OnlyValidIsUsed' /\ OnlyCreateFills' /\ BeginsAtFirst'
  BY <1>1, <1>2, <1>6 DEF IInv, OnlyValidIsUsed, OnlyCreateFills, BeginsAtFirst
<1> QED BY <1>7, <1>8, <1>9, <1>10, <1>11 DEF IInv

LEMMA CheckKeeps ==
  ASSUME IInv, NEW t \in Threads, Check(t)
  PROVE  IInv'
<1> USE DEF Check, IInv
<1>1. TypeOK'
  BY DEF TypeOK
<1>2. \A u \in Threads, i \in 1..3 : HasFilled(u, i)' => HasFilled(u, i)
  BY DEF TypeOK, HasFilled
<1>3. \A u \in Threads, k \in {"capture", "api"}, i \in 1..3 : HasRead(u, k, i)' => HasRead(u, k, i)
  BY DEF TypeOK, BeginsAtFirst, HasRead, Clients
<1>4. OnlyValidIsUsed'
  BY ValidIsGiven DEF TypeOK, OnlyValidIsUsed
<1>5. OnlyCreateFills' /\ BeginsAtFirst'
  BY DEF TypeOK, OnlyCreateFills, BeginsAtFirst
<1> QED BY <1>1, <1>2, <1>3, <1>4, <1>5, NothingReadAnew

\* A read takes a field as it is; in create() it was filled before.
LEMMA ReadKeeps ==
  ASSUME IInv, NEW t \in Threads, Read(t)
  PROVE  IInv'
<1> DEFINE i == at[t]
           f == FieldOrder[i]
           k == pc[t]
<1>1. i \in 1..3 /\ f \in Fields /\ settings[f] \in Int /\ k \in {"capture", "api"}
  BY FieldsInOrder DEF IInv, TypeOK, Read, Settings
<1>2. UNCHANGED <<config, settings, job>>
  BY DEF Read
<1>3. /\ clients' \in [Threads -> [{"capture", "api"} -> Settings]]
      /\ clients'[t][k][f] = settings[f]
      /\ \A x \in Threads, l \in {"capture", "api"}, g \in Fields :
           x # t \/ l # k \/ g # f => clients'[x][l][g] = clients[x][l][g]
  <2>1. clients[t] \in [{"capture", "api"} -> Settings] /\ clients[t][k] \in Settings
    BY <1>1 DEF IInv, TypeOK
  <2>2. [clients[t][k] EXCEPT ![f] = settings[f]] \in Settings
    BY <1>1, <2>1 DEF Settings
  <2>3. clients' = [clients EXCEPT ![t] = [clients[t] EXCEPT ![k] =
                      [clients[t][k] EXCEPT ![f] = settings[f]]]]
    BY <1>1, <2>1 DEF Read, IInv, TypeOK
  <2>4. clients'[t] = [clients[t] EXCEPT ![k] = [clients[t][k] EXCEPT ![f] = settings[f]]]
    BY <2>3 DEF IInv, TypeOK
  <2>5. clients'[t][k] = [clients[t][k] EXCEPT ![f] = settings[f]]
    BY <1>1, <2>1, <2>4
  <2>6. \A g \in Fields : g # f => clients'[t][k][g] = clients[t][k][g]
    BY <1>1, <2>1, <2>5 DEF Settings
  <2>7. clients'[t][k][f] = settings[f]
    BY <1>1, <2>1, <2>5 DEF Settings
  <2>8. \A l \in {"capture", "api"} : l # k => clients'[t][l] = clients[t][l]
    BY <1>1, <2>1, <2>4
  <2>9. \A x \in Threads : x # t => clients'[x] = clients[x]
    BY <2>3 DEF IInv, TypeOK
  <2>10. clients' \in [Threads -> [{"capture", "api"} -> Settings]]
    BY <1>1, <2>1, <2>2, <2>3 DEF IInv, TypeOK
  <2> QED BY <2>6, <2>7, <2>8, <2>9, <2>10
<1>4. /\ \A x \in Threads \ {t} : pc'[x] = pc[x] /\ at'[x] = at[x]
      /\ pc' \in [Threads -> {"idle", "filling", "checking", "capture", "api", "hosted",
                              "built", "failed"}]
      /\ at' \in [Threads -> 1..3]
      /\ \/ pc'[t] = k /\ at'[t] = i + 1
         \/ pc'[t] = After(t) /\ i = 3 /\ at'[t] = 1
  <2>1. After(t) \in {"built", "api", "hosted"}
    BY DEF After
  <2>2. CASE i < 3
    <3>1. at' = [at EXCEPT ![t] = i + 1] /\ pc' = pc /\ i + 1 \in 1..3
      BY <1>1, <2>2 DEF Read, Advance, IInv, TypeOK
    <3> QED BY <1>1, <3>1 DEF IInv, TypeOK
  <2>3. CASE ~(i < 3)
    <3>1. i = 3 /\ at' = [at EXCEPT ![t] = 1] /\ pc' = [pc EXCEPT ![t] = After(t)]
      BY <1>1, <2>3 DEF Read, Advance
    <3> HIDE DEF After
    <3> QED BY <1>1, <2>1, <3>1 DEF IInv, TypeOK
  <2> QED BY <2>2, <2>3
<1>5. k = "api" => job[t] = "create"
  BY DEF IInv, OnlyCreateFills
<1>6. TypeOK'
  BY <1>2, <1>3, <1>4 DEF IInv, TypeOK
<1>7. FieldsAreFilledOrGiven'
  BY <1>2 DEF IInv, FieldsAreFilledOrGiven, Given, Final
<1>8. FilledStays'
  <2>1. \A x \in Threads, j \in 1..3 : HasFilled(x, j)' => HasFilled(x, j)
    BY <1>1, <1>2, <1>4 DEF HasFilled, After
  <2> QED BY <1>2, <2>1 DEF IInv, FilledStays, Final
<1>9. ReadIsFilledOrGiven'
  <2> SUFFICES ASSUME NEW x \in Threads, NEW l \in {"capture", "api"}, NEW j \in 1..3,
                      HasRead(x, l, j)'
               PROVE  /\ clients'[x][l][FieldOrder[j]] \in {Given(FieldOrder[j]), Final(FieldOrder[j])}
                      /\ job[x] = "create" => clients'[x][l][FieldOrder[j]] = Final(FieldOrder[j])
    BY <1>2 DEF ReadIsFilledOrGiven, Given, Final
  <2>1. HasRead(x, l, j) \/ (x = t /\ l = k /\ j = i)
    BY <1>1, <1>2, <1>4, <1>5 DEF HasRead, Clients, After
  <2>2. CASE x = t /\ l = k /\ FieldOrder[j] = f
    <3>1. settings[f] \in {Given(f), Final(f)}
      BY <1>1 DEF IInv, FieldsAreFilledOrGiven
    <3>2. job[t] = "create" => settings[f] = Final(f)
      BY <1>1 DEF IInv, FilledStays, HasFilled
    <3> QED BY <1>3, <2>2, <3>1, <3>2
  <2>3. CASE ~(x = t /\ l = k /\ FieldOrder[j] = f)
    <3>1. HasRead(x, l, j)
      BY <2>1, <2>3
    <3>2. clients'[x][l][FieldOrder[j]] = clients[x][l][FieldOrder[j]]
      BY <1>3, <2>3, FieldsInOrder
    <3> QED BY <3>1, <3>2 DEF IInv, ReadIsFilledOrGiven
  <2> QED BY <2>2, <2>3
<1>10. OnlyValidIsUsed' /\ OnlyCreateFills' /\ BeginsAtFirst'
  <2>1. Valid(config, config.settings)
    BY <1>1 DEF IInv, OnlyValidIsUsed
  <2>2. OnlyValidIsUsed'
    BY <1>2, <2>1 DEF OnlyValidIsUsed
  <2>3. OnlyCreateFills'
    BY <1>1, <1>2, <1>4, <1>5 DEF IInv, TypeOK, OnlyCreateFills, After
  <2>4. BeginsAtFirst'
    BY <1>1, <1>4 DEF IInv, BeginsAtFirst
  <2> QED BY <2>2, <2>3, <2>4
<1> QED BY <1>6, <1>7, <1>8, <1>9, <1>10 DEF IInv

LEMMA BuildHostedKeeps ==
  ASSUME IInv, NEW t \in Threads, BuildHosted(t)
  PROVE  IInv'
<1> USE DEF BuildHosted, IInv
<1>1. TypeOK'
  BY DEF TypeOK
<1>2. \A u \in Threads, i \in 1..3 : HasFilled(u, i)' => HasFilled(u, i)
  BY DEF TypeOK, HasFilled
<1>3. \A u \in Threads, k \in {"capture", "api"}, i \in 1..3 : HasRead(u, k, i)' => HasRead(u, k, i)
  BY DEF TypeOK, HasRead, Clients, OnlyCreateFills
<1>4. OnlyValidIsUsed'
  BY DEF TypeOK, OnlyValidIsUsed
<1>5. OnlyCreateFills' /\ BeginsAtFirst'
  BY DEF TypeOK, OnlyCreateFills, BeginsAtFirst
<1> QED BY <1>1, <1>2, <1>3, <1>4, <1>5, NothingReadAnew

\* Every step keeps the invariant.
LEMMA NextKeeps == IInv /\ [Next]_vars => IInv'
<1>1. ASSUME IInv, UNCHANGED vars  PROVE IInv'
  <2> USE <1>1 DEF vars, IInv
  <2>1. TypeOK' /\ OnlyValidIsUsed' /\ OnlyCreateFills' /\ BeginsAtFirst'
    BY DEF TypeOK, OnlyValidIsUsed, OnlyCreateFills, BeginsAtFirst
  <2>2. /\ \A u \in Threads, i \in 1..3 : HasFilled(u, i)' => HasFilled(u, i)
        /\ \A u \in Threads, k \in {"capture", "api"}, i \in 1..3 :
             HasRead(u, k, i)' => HasRead(u, k, i)
    BY DEF HasFilled, HasRead, Clients
  <2> QED BY <2>1, <2>2, NothingReadAnew
<1> QED BY <1>1, StartKeeps, FillKeeps, CheckKeeps, ReadKeeps, BuildHostedKeeps DEF Next

LEMMA Invariance == Spec => []IInv
  BY InitInvariant, NextKeeps, PTL DEF Spec

----------------------------------------------------------------------------
(* The theorems. *)

\* In every state the fields, the threads and their clients are in their ranges.
THEOREM TypeCorrect == Spec => []TypeOK
<1>1. IInv => TypeOK
  BY DEF IInv
<1> QED BY <1>1, Invariance, PTL

\* However creations and requests interleave, every client that is built works
\* with what the application set explicitly.
THEOREM ChoicesAreKept == Spec => []ExplicitSettingsKept
<1>1. IInv => ExplicitSettingsKept
  <2> SUFFICES ASSUME IInv, NEW t \in Threads, pc[t] = "built", NEW k \in Clients(t),
                      NEW f \in Fields, Chosen(f)
               PROVE  Effective(f, clients[t][k][f]) = config.settings[f]
    BY DEF ExplicitSettingsKept
  <2>1. Valid(config, config.settings) /\ config.settings \in Settings
    BY ConfigAssumption DEF IInv, OnlyValidIsUsed, TypeOK
  <2>2. k \in {"capture", "api"}
    BY DEF Clients
  <2>3. PICK i \in 1..3 : FieldOrder[i] = f
    BY FieldsInOrder
  <2>4. clients[t][k][f] \in {Given(f), Final(f)}
    BY <2>2, <2>3 DEF IInv, ReadIsFilledOrGiven, HasRead
  <2> QED BY <2>1, <2>4, ChoiceIsKept DEF Given, Final, Chosen
<1> QED BY <1>1, Invariance, PTL

\* The clients of every instance have its environment's defaults, though others
\* are built from the same config meanwhile.
THEOREM DefaultsAreUsed == Spec => []InstancesUseEnvironmentDefaults
<1>1. IInv => InstancesUseEnvironmentDefaults
  <2> SUFFICES ASSUME IInv, NEW t \in Threads, pc[t] = "built", job[t] = "create",
                      NEW k \in Clients(t), NEW f \in Fields, ~Chosen(f)
               PROVE  Effective(f, clients[t][k][f]) = EnvironmentDefaults(config.env)[f]
    BY DEF InstancesUseEnvironmentDefaults
  <2>1. PICK i \in 1..3 : FieldOrder[i] = f
    BY FieldsInOrder
  <2>2. clients[t][k][f] = Final(f)
    BY <2>1 DEF IInv, ReadIsFilledOrGiven, HasRead, Clients
  <2>3. Final(f) = EnvironmentDefaults(config.env)[f]
    BY DEF Final, Filled, Chosen
  <2>4. EnvironmentDefaults(config.env)[f] > 0
    BY DEF EnvironmentDefaults, SandboxDefaults, ProductionDefaults, Fields
  <2>5. EnvironmentDefaults(config.env)[f] \in Int
    BY DEF EnvironmentDefaults, SandboxDefaults, ProductionDefaults, Fields
  <2> QED BY <2>2, <2>3, <2>4, <2>5 DEF Effective, Unset
<1> QED BY <1>1, Invariance, PTL

\* Where the application asks for no timeout of its own, no client waits longer
\* than the auth manager's buffer.
THEOREM TimeoutsAreBuffered == Spec => []LatencyWithinBuffer
<1>1. IInv => LatencyWithinBuffer
  <2> SUFFICES ASSUME IInv, NEW t \in Threads, pc[t] = "built", NEW k \in Clients(t),
                      ~Chosen("requestTimeoutMs")
               PROVE  Effective("requestTimeoutMs", clients[t][k]["requestTimeoutMs"])
                        <= RefreshBufferMs
    BY DEF LatencyWithinBuffer
  <2> DEFINE value == clients[t][k]["requestTimeoutMs"]
  <2>1. FieldOrder[1] = "requestTimeoutMs" /\ k \in {"capture", "api"}
    BY DEF FieldOrder, Clients
  <2>2. value \in {Given("requestTimeoutMs"), Final("requestTimeoutMs")}
    BY <2>1 DEF IInv, ReadIsFilledOrGiven, HasRead
  <2>3. value \in {Unset, 45000, 60000}
    BY <2>2 DEF Given, Final, Filled, Chosen, EnvironmentDefaults, SandboxDefaults,
                ProductionDefaults
  <2> QED BY <2>3 DEF Effective, RequestDefaults, RefreshBufferMs, Unset
<1> QED BY <1>1, Invariance, PTL
=============================================================================
