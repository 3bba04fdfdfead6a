---------------------------- MODULE ServerConfig ----------------------------
(***************************************************************************)
(* The three numbers that govern every request to Pine Labs: how long it   *)
(* may take, how often it is retried, how long the first pause is.  The    *)
(* application leaves them None or sets them in its config, an object that *)
(* all threads share without a lock.  `PineLabsOnlineP3P.create` writes    *)
(* the environment's defaults INTO that object and then builds clients     *)
(* from it; `decide_payment` builds a client of its own for each request,  *)
(* from whatever the fields hold when it reads them, one by one.           *)
(***************************************************************************)
EXTENDS Integers

CONSTANTS
  Threads,
  Configs        \* what an application may configure

\* None.
Unset == -1

Fields == {"requestTimeoutMs", "maxRetries", "initialRetryDelayMs"}

\* The order in which the code writes and reads them.
FieldOrder == <<"requestTimeoutMs", "maxRetries", "initialRetryDelayMs">>

\* `complete` stands for the credentials, the merchant, the gateway and the
\* payment methods, each checked alone; `hosted` is none, keyed, or keyless.
Environments == {"sandbox", "production", "other"}     \* other: any other URL allowed
Settings == [Fields -> Int]

ASSUME ConfigAssumption ==
  \A conf \in Configs :
    /\ conf.settings \in Settings
    /\ conf.env \in Environments \cup {"bad"}
    /\ conf.hosted \in {"none", "keyed", "keyless"}

VARIABLES
  config,     \* what the application configured; fixed
  settings,   \* the three fields of that object as they are now
  job,        \* what a thread does: create, or decide for a request
  pc,         \* idle, filling, checking, capture, api, hosted, built, failed
  at,         \* the field it writes or reads next
  clients     \* the settings of the clients it builds, CaptureClient and ApiClient

vars == <<config, settings, job, pc, at, clients>>

----------------------------------------------------------------------------
(* What the code decides. *)

SandboxDefaults == [requestTimeoutMs |-> 60000, maxRetries |-> 2, initialRetryDelayMs |-> 300]
ProductionDefaults == [requestTimeoutMs |-> 45000, maxRetries |-> 2, initialRetryDelayMs |-> 200]

\* More patience for slow environments.
EnvironmentDefaults_Slower(env) ==
  IF env = "production" THEN ProductionDefaults ELSE [SandboxDefaults EXCEPT !.requestTimeoutMs = 90000]

\* P3PEnvironmentDefaults.get(config.env, that of the sandbox)
EnvironmentDefaults(env) == IF env = "production" THEN ProductionDefaults ELSE SandboxDefaults

\* validate_config
Valid(conf, fields) ==
  /\ conf.complete /\ conf.env \in Environments
  /\ fields["requestTimeoutMs"] = Unset \/ fields["requestTimeoutMs"] > 0
  /\ fields["maxRetries"] = Unset \/ fields["maxRetries"] >= 0
  /\ fields["initialRetryDelayMs"] = Unset \/ fields["initialRetryDelayMs"] > 0
  /\ conf.enforced => conf.hosted = "keyed"

\* The sandbox's defaults whatever the environment.
Filled_Sandbox(f, value, env) ==
  IF value = Unset \/ (f # "maxRetries" /\ value = 0) THEN SandboxDefaults[f] ELSE value

\* `x or default` for all three.
Filled_Or(f, value, env) ==
  IF value \in {Unset, 0} THEN EnvironmentDefaults(env)[f] ELSE value

\* with_p3p_environment_defaults: `or` for two of the fields, None for the other.
Filled(f, value, env) ==
  IF value = Unset \/ (f # "maxRetries" /\ value = 0) THEN EnvironmentDefaults(env)[f] ELSE value

\* What a request is sent with when a client's own settings are None.
RequestDefaults == [requestTimeoutMs |-> 30000, maxRetries |-> 3, initialRetryDelayMs |-> 500]

Effective(f, value) ==
  IF value = Unset \/ (f # "maxRetries" /\ value = 0) THEN RequestDefaults[f] ELSE value

----------------------------------------------------------------------------
(* The threads. *)

Unread == [k \in {"capture", "api"} |-> [f \in Fields |-> Unset]]

Init ==
  /\ config \in Configs
  /\ settings = config.settings
  /\ job = [t \in Threads |-> "decide"]
  /\ pc = [t \in Threads |-> "idle"]
  /\ at = [t \in Threads |-> 1]
  /\ clients = [t \in Threads |-> Unread]

\* A thread calls create(), or a request reaches the client that
\* decide_payment builds for it.
Start(t) ==
  /\ pc[t] \in {"idle", "built", "failed"}
  /\ \E j \in {"create", "decide"} :
       /\ job' = [job EXCEPT ![t] = j]
       /\ \/ j = "decide" /\ pc' = [pc EXCEPT ![t] = "checking"]
          \/ j = "create" /\ Valid(config, settings) /\ pc' = [pc EXCEPT ![t] = "filling"]
          \/ j = "create" /\ ~Valid(config, settings) /\ pc' = [pc EXCEPT ![t] = "failed"]
  /\ at' = [at EXCEPT ![t] = 1]
  /\ clients' = [clients EXCEPT ![t] = Unread]
  /\ UNCHANGED <<config, settings>>

\* Past the end.
Advance_TooFar(t, after) ==
  IF at[t] <= 3
  THEN at' = [at EXCEPT ![t] = @ + 1] /\ UNCHANGED pc
  ELSE at' = [at EXCEPT ![t] = 1] /\ pc' = [pc EXCEPT ![t] = after]

\* The thread turns to the next field, or to `after` behind the last.
Advance(t, after) ==
  IF at[t] < 3
  THEN at' = [at EXCEPT ![t] = @ + 1] /\ UNCHANGED pc
  ELSE at' = [at EXCEPT ![t] = 1] /\ pc' = [pc EXCEPT ![t] = after]

\* Each assignment reads the field and writes it back.
Fill(t) ==
  LET f == FieldOrder[at[t]] IN
  /\ pc[t] = "filling"
  /\ settings' = [settings EXCEPT ![f] = Filled(f, @, config.env)]
  /\ Advance(t, "checking")
  /\ UNCHANGED <<config, job, clients>>

\* CaptureClient.__init__ validates for itself.
Check(t) ==
  /\ pc[t] = "checking"
  /\ \/ Valid(config, settings) /\ pc' = [pc EXCEPT ![t] = "capture"]
     \/ ~Valid(config, settings) /\ pc' = [pc EXCEPT ![t] = "failed"]
  /\ UNCHANGED <<config, settings, job, at, clients>>

After(t) ==
  IF job[t] = "decide" THEN "built" ELSE IF pc[t] = "capture" THEN "api" ELSE "hosted"

\* A client takes its settings from the config, field by field.
Read(t) ==
  LET f == FieldOrder[at[t]] IN
  /\ pc[t] \in {"capture", "api"}
  /\ clients' = [clients EXCEPT ![t][pc[t]][f] = settings[f]]
  /\ Advance(t, After(t))
  /\ UNCHANGED <<config, settings, job>>

\* HostedGrantexClient wants a key; that it has none is found only here, when
\* the grant is not enforced.
BuildHosted(t) ==
  /\ pc[t] = "hosted"
  /\ pc' = [pc EXCEPT ![t] = IF config.hosted = "keyless" THEN "failed" ELSE "built"]
  /\ UNCHANGED <<config, settings, job, at, clients>>

Next == \E t \in Threads : Start(t) \/ Fill(t) \/ Check(t) \/ Read(t) \/ BuildHosted(t)

Spec == Init /\ [][Next]_vars

----------------------------------------------------------------------------
(* Properties. *)

TypeOK ==
  /\ config \in Configs /\ settings \in Settings
  /\ job \in [Threads -> {"create", "decide"}]
  /\ pc \in [Threads -> {"idle", "filling", "checking", "capture", "api", "hosted",
                         "built", "failed"}]
  /\ at \in [Threads -> 1..3]
  /\ clients \in [Threads -> [{"capture", "api"} -> Settings]]

Clients(t) == IF job[t] = "create" THEN {"capture", "api"} ELSE {"capture"}

Chosen(f) == config.settings[f] # Unset

\* What the application set is what every client it gets works with, a
\* maxRetries of 0 included, whoever writes defaults meanwhile.
ExplicitSettingsKept ==
  \A t \in Threads : pc[t] = "built" =>
    \A k \in Clients(t), f \in Fields :
      Chosen(f) => Effective(f, clients[t][k][f]) = config.settings[f]

\* The clients of an instance have the environment's defaults in all the rest,
\* though other threads build instances from the same config at the same time.
InstancesUseEnvironmentDefaults ==
  \A t \in Threads : pc[t] = "built" /\ job[t] = "create" =>
    \A k \in Clients(t), f \in Fields :
      ~Chosen(f) => Effective(f, clients[t][k][f]) = EnvironmentDefaults(config.env)[f]

\* Unless the application asks for more, no request waits longer for an answer
\* than the minute by which the auth manager renews a token early (its
\* REFRESH_BUFFER_MS), however the defaults of the environment and those of
\* request_with_retry come together in a client.
RefreshBufferMs == 60000

LatencyWithinBuffer ==
  \A t \in Threads : pc[t] = "built" =>
    \A k \in Clients(t) :
      ~Chosen("requestTimeoutMs") =>
        Effective("requestTimeoutMs", clients[t][k]["requestTimeoutMs"]) <= RefreshBufferMs

\* README.md line 47: "Environment defaults:", a table of timeout, retries and
\* initial retry delay for each environment, said of every use of the config.
EnvironmentDefaultsApply ==
  \A t \in Threads : pc[t] = "built" =>
    \A k \in Clients(t), f \in Fields :
      ~Chosen(f) => Effective(f, clients[t][k][f]) = EnvironmentDefaults(config.env)[f]
=============================================================================
