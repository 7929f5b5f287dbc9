--------------------------- MODULE ServiceProcess ---------------------------
(***************************************************************************)
(* The life of one service process: func run of every cmd/server/main.go,  *)
(* which opens what the service uses, starts its workers and consumers,    *)
(* serves HTTP until a signal, and gives everything back through its       *)
(* deferred calls, the last first.                                         *)
(*                                                                         *)
(* A worker (relay, sweeper, gRPC server) is a goroutine of the wait group *)
(* of run and ends when the context of the signal is cancelled.  A         *)
(* consumer hands messages to goroutines of the NATS client; stopping it   *)
(* does not wait for the one in hand.                                      *)
(*                                                                         *)
(* service   the service this process is of                                *)
(* pc        the next step of its script                                   *)
(* phase     starting, serving, unwinding (run has returned and its        *)
(*           deferred calls run) or exited                                 *)
(* defers    the deferred calls, the last one first                        *)
(* open      resources that are open                                       *)
(* running   workers; consuming: consumers; handling: consumers with a     *)
(*           message in hand                                               *)
(* requests  whether HTTP requests are in progress                         *)
(* cancelled whether the context is cancelled                              *)
(* outcome   "" until run returns: "ok", "failed", or "late" when the      *)
(*           server did not stop in time                                   *)
(***************************************************************************)
EXTENDS Naturals, Sequences

VARIABLES service, pc, phase, defers, open, running, consuming, handling,
          requests, cancelled, outcome

processVars == <<service, pc, phase, defers, open, running, consuming, handling,
                 requests, cancelled, outcome>>

(***************************************************************************)
(* The scripts.                                                            *)
(***************************************************************************)
Check(what) == [kind |-> "check", name |-> what]      \* may fail, leaves nothing
Open(what) == [kind |-> "open", name |-> what]        \* defers its closing
Spawn(what) == [kind |-> "spawn", name |-> what]      \* a goroutine of the group
Wait == [kind |-> "wait", name |-> "group"]           \* defers wg.Wait
Consume(what) == [kind |-> "consume", name |-> what]  \* defers its Stop

Telemetry == <<Open("otel"), Open("metrics")>>

Migrated == <<Check("migrations")>> \o Telemetry \o <<Open("pool")>>

Nats == <<Open("nats"), Check("stream")>>

\* mutant: the wait is deferred before NATS is opened
RelayUnwaited == <<Wait>> \o Nats \o <<Spawn("relay")>>
RelayFirst == Nats \o <<Spawn("relay"), Wait>>

AuthScript == Migrated \o <<Open("redis")>> \o RelayFirst \o <<Consume("bans")>>

CatalogScript == Migrated \o <<Open("redis")>> \o RelayFirst
                 \o <<Check("listen"), Spawn("grpc")>>

ChatScript == Migrated \o RelayFirst \o <<Consume("bans"), Consume("blocks")>>

FavoritesScript == Migrated \o RelayFirst
                   \o <<Consume("ad-deleted"), Consume("matcher")>>

GatewayScript == Telemetry \o <<Open("redis")>>

ListingScript == Migrated \o <<Open("catalog"), Open("redis")>> \o RelayFirst
                 \o <<Consume("moderation"), Consume("promotion"),
                      Spawn("expirer"), Spawn("view-flusher")>>

LocationScript == Migrated

MediaScript == Migrated \o <<Check("bucket")>> \o RelayFirst
               \o <<Consume("processor"), Spawn("cleaner")>>

ModerationScript == Migrated \o RelayFirst \o <<Consume("auto")>>

NotificationScript == Migrated \o Nats
                      \o <<Consume("recipients"), Consume("delivery")>>

PaymentsScript == Migrated \o RelayFirst \o <<Spawn("bumper"), Consume("lifecycle")>>

ReviewsScript == Migrated \o RelayFirst \o <<Consume("blocks")>>

SearchScript == Telemetry \o <<Check("collection")>> \o Nats \o <<Consume("indexer")>>

ProfileScript == Migrated \o RelayFirst \o <<Consume("users"), Consume("reviews")>>

Scripts ==
  [auth |-> AuthScript, catalog |-> CatalogScript, chat |-> ChatScript,
   favorites |-> FavoritesScript, gateway |-> GatewayScript,
   listing |-> ListingScript, location |-> LocationScript, media |-> MediaScript,
   moderation |-> ModerationScript, notification |-> NotificationScript,
   payments |-> PaymentsScript, profile |-> ProfileScript,
   reviews |-> ReviewsScript, search |-> SearchScript]

Script == Scripts[service]

Statement == Script[pc]

Kind(k) == {Script[i].name : i \in {j \in 1..Len(Script) : Script[j].kind = k}}

(* What a worker or a handler works with.                                  *)
Uses(w) ==
  CASE w = "relay"        -> {"pool", "nats"}
    [] w = "grpc"         -> {"pool", "redis"}
    [] w = "view-flusher" -> {"pool", "redis"}
    [] w = "indexer"      -> {"nats"}
    [] OTHER              -> {"pool"}

(***************************************************************************)
(* Starting.                                                               *)
(***************************************************************************)
ProcessInit ==
  /\ service \in DOMAIN Scripts
  /\ pc = 1 /\ phase = "starting"
  /\ defers = <<"cancel">>
  /\ open = {} /\ running = {} /\ consuming = {} /\ handling = {}
  /\ requests = FALSE /\ cancelled = FALSE
  /\ outcome = ""

Started ==
  CASE Statement.kind = "check" ->
         UNCHANGED <<defers, open, running, consuming>>
    [] Statement.kind = "open" ->
         /\ open' = open \cup {Statement.name}
         /\ defers' = <<Statement.name>> \o defers
         /\ UNCHANGED <<running, consuming>>
    [] Statement.kind = "spawn" ->
         /\ running' = running \cup {Statement.name}
         /\ UNCHANGED <<defers, open, consuming>>
    [] Statement.kind = "wait" ->
         /\ defers' = <<"wait">> \o defers
         /\ UNCHANGED <<open, running, consuming>>
    [] Statement.kind = "consume" ->
         /\ consuming' = consuming \cup {Statement.name}
         /\ defers' = <<Statement.name>> \o defers
         /\ UNCHANGED <<open, running>>

StepSucceeds ==
  /\ phase = "starting" /\ pc <= Len(Script)
  /\ Started
  /\ pc' = pc + 1
  /\ UNCHANGED <<service, phase, handling, requests, cancelled, outcome>>

\* mutant: the error is logged, and the start goes on
StepFailsLogged ==
  /\ phase = "starting" /\ pc <= Len(Script)
  /\ pc' = pc + 1
  /\ UNCHANGED <<service, phase, defers, open, running, consuming, handling,
                 requests, cancelled, outcome>>

MayFail(step) == step.kind \in {"check", "open", "consume"} /\ step.name # "redis"

Return(result) == phase' = "unwinding" /\ outcome' = result

StepFails ==
  /\ phase = "starting" /\ pc <= Len(Script)
  /\ MayFail(Statement)
  /\ Return("failed")
  /\ UNCHANGED <<service, pc, defers, open, running, consuming, handling,
                 requests, cancelled>>

Serve ==
  /\ phase = "starting" /\ pc > Len(Script)
  /\ phase' = "serving"
  /\ UNCHANGED <<service, pc, defers, open, running, consuming, handling,
                 requests, cancelled, outcome>>

(* The address is taken, or the listener fails later.                      *)
ListenFails ==
  /\ phase = "serving"
  /\ Return("failed")
  /\ UNCHANGED <<service, pc, defers, open, running, consuming, handling,
                 requests, cancelled>>

Request ==
  /\ phase = "serving" /\ ~cancelled
  /\ requests' = ~requests
  /\ UNCHANGED <<service, pc, phase, defers, open, running, consuming, handling,
                 cancelled, outcome>>

RequestsEnd ==
  /\ requests /\ cancelled /\ phase # "exited"
  /\ requests' = FALSE
  /\ UNCHANGED <<service, pc, phase, defers, open, running, consuming, handling,
                 cancelled, outcome>>

\* mutant: the server is closed, not shut down
ShutdownAtOnce ==
  /\ phase = "serving" /\ cancelled
  /\ Return("ok")
  /\ UNCHANGED <<service, pc, defers, open, running, consuming, handling,
                 requests, cancelled>>

(* Shutdown waits for the requests in progress, up to a limit.             *)
Shutdown ==
  /\ phase = "serving" /\ cancelled
  /\ Return(IF requests THEN "late" ELSE "ok")
  /\ UNCHANGED <<service, pc, defers, open, running, consuming, handling,
                 requests, cancelled>>

(***************************************************************************)
(* Workers and consumers.                                                  *)
(***************************************************************************)
Signal ==
  /\ ~cancelled /\ phase # "exited"
  /\ cancelled' = TRUE
  /\ UNCHANGED <<service, pc, phase, defers, open, running, consuming, handling,
                 requests, outcome>>

\* mutant: nothing tells the gRPC server to stop
HeedsUnlessServer(w) == w # "grpc"

(* The loops of the workers end on the context, and a goroutine of Catalog *)
(* stops the gRPC server on it.                                            *)
HeedsContext(w) == w \in Kind("spawn")

WorkerEnds(w) ==
  /\ w \in running /\ cancelled /\ HeedsContext(w)
  /\ running' = running \ {w}
  /\ UNCHANGED <<service, pc, phase, defers, open, consuming, handling, requests,
                 cancelled, outcome>>

TakeMessage(c) ==
  /\ c \in consuming \ handling
  /\ handling' = handling \cup {c}
  /\ UNCHANGED <<service, pc, phase, defers, open, running, consuming, requests,
                 cancelled, outcome>>

(* The handler ends, well or not: what it has not acknowledged comes again.*)
MessageEnds(c) ==
  /\ c \in handling /\ phase # "exited"
  /\ handling' = handling \ {c}
  /\ UNCHANGED <<service, pc, phase, defers, open, running, consuming, requests,
                 cancelled, outcome>>

(***************************************************************************)
(* The deferred calls.                                                     *)
(***************************************************************************)
\* mutant: the group counts all workers from the beginning
UnwindCounted ==
  /\ phase = "unwinding" /\ defers # <<>>
  /\ LET d == Head(defers) IN
       /\ d = "wait" => running = {} /\ pc > Len(Script)
       /\ open' = open \ {d}
       /\ consuming' = consuming \ {d}
       /\ cancelled' = (cancelled \/ d = "cancel")
  /\ defers' = Tail(defers)
  /\ UNCHANGED <<service, pc, phase, running, handling, requests, outcome>>

Unwind ==
  /\ phase = "unwinding" /\ defers # <<>>
  /\ LET d == Head(defers) IN
       /\ d = "wait" => running = {}
       /\ open' = open \ {d}
       /\ consuming' = consuming \ {d}
       /\ cancelled' = (cancelled \/ d = "cancel")
  /\ defers' = Tail(defers)
  /\ UNCHANGED <<service, pc, phase, running, handling, requests, outcome>>

(* main returns from run; goroutines that are left end with the process.   *)
Exit ==
  /\ phase = "unwinding" /\ defers = <<>>
  /\ phase' = "exited"
  /\ running' = {} /\ handling' = {} /\ requests' = FALSE
  /\ UNCHANGED <<service, pc, defers, open, consuming, cancelled, outcome>>

ProcessNext ==
  \/ StepSucceeds \/ StepFails \/ Serve \/ ListenFails \/ Request \/ RequestsEnd
  \/ Shutdown \/ Signal \/ Unwind \/ Exit
  \/ \E w \in running : WorkerEnds(w)
  \/ \E c \in consuming \cup handling : TakeMessage(c) \/ MessageEnds(c)

(* The process runs: its main goroutine goes on where it can, and a worker *)
(* returns once its context is cancelled.  No signal need come, and        *)
(* nothing need arrive.                                                    *)
Fairness ==
  /\ WF_processVars(StepSucceeds \/ StepFails \/ Serve \/ Shutdown \/ Unwind \/ Exit)
  /\ \A w \in {"relay", "grpc", "expirer", "view-flusher", "cleaner", "bumper"} :
       WF_processVars(WorkerEnds(w))

ProcessSpec == ProcessInit /\ [][ProcessNext]_processVars /\ Fairness

(***************************************************************************)
(* Properties.                                                             *)
(***************************************************************************)
ProcessTypeOK ==
  /\ pc \in 1..(Len(Script) + 1)
  /\ phase \in {"starting", "serving", "unwinding", "exited"}
  /\ open \subseteq Kind("open") /\ running \subseteq Kind("spawn")
  /\ consuming \subseteq Kind("consume") /\ handling \subseteq Kind("consume")
  /\ outcome \in {"", "ok", "failed", "late"}

(* No worker outlives what it works with: as the comment on the deferred   *)
(* wait says, the relay is over before NATS and the pool are closed.       *)
WorkersHaveTheirResources ==
  \A w \in running : phase # "exited" => Uses(w) \subseteq open

(* A service that answers requests, and so passes its health check, has    *)
(* all its workers and consumers, and all it uses; the same while it       *)
(* finishes the requests in progress.                                      *)
ServingMeansComplete ==
  phase = "serving" =>
    /\ open = Kind("open")
    /\ consuming = Kind("consume")
    /\ ~cancelled => running = Kind("spawn")

(* The pool is closed under a request only when the shutdown ran out of    *)
(* time, or the listener had failed.                                       *)
RequestsKeepThePool ==
  requests /\ "pool" \notin open /\ "pool" \in Kind("open")
    => outcome \in {"late", "failed"}

(* After a signal the process ends, whatever it was at.                    *)
SignalEndsTheProcess == cancelled ~> phase = "exited"

(* A start that fails while no worker runs yet ends the process.  A later  *)
(* failure may not: the cancelling of the context was deferred first and   *)
(* comes last, after the wait for workers that only end when it is         *)
(* cancelled.                                                              *)
EarlyFailureEndsTheProcess ==
  (outcome = "failed" /\ running = {}) ~> phase = "exited"

(* Nobody works with what is closed or was not opened yet: neither workers *)
(* nor requests (the order of the steps and of the deferred calls of run). *)
NothingOutlivesWhatItUses ==
  /\ ProcessTypeOK
  /\ WorkersHaveTheirResources
  /\ ServingMeansComplete
  /\ RequestsKeepThePool

(* The process ends when it is told to, and when its start fails early.    *)
ProcessEnds == SignalEndsTheProcess /\ EarlyFailureEndsTheProcess
=============================================================================
