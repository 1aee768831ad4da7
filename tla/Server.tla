------------------------------- MODULE Server -------------------------------
(***************************************************************************)
(* The life of the server and worker processes: how they start, connect,   *)
(* serve and shut down.                                                    *)
(*                                                                         *)
(* main acquires what it needs step by step and defers the closing of each *)
(* thing; a return runs the deferred calls last first, os.Exit and a crash *)
(* run none.  A call to PostgreSQL, TigerBeetle, Temporal or Valkey        *)
(* succeeds or fails as the environment chooses.  The counters of Metrics  *)
(* live in the memory of the server Watched.                               *)
(***************************************************************************)
EXTENDS Metrics, Functions

CONSTANTS
    Servers, Workers,     \* processes that run cmd/server and cmd/worker
    Watched,              \* the server whose counters are modelled
    Files,                \* number of migration files
    MaxAttempts,          \* attempts to reach TigerBeetle or Temporal
    MaxStarts             \* bound: starts of each process

Process == Servers \cup Workers

ASSUME ServerAssumption ==
    /\ Watched \in Servers /\ Servers \cap Workers = {}
    /\ {Files, MaxAttempts} \subseteq Nat \ {0}
    /\ MaxStarts \in [Process -> Nat]

(* The steps of main.                                                      *)
ServerSteps == <<"postgres", "migrations", "tigerbeetle", "accounts", "temporal", "worker",
                 "debug", "valkey", "http">>
WorkerSteps == <<"postgres", "tigerbeetle", "temporal", "worker">>

Steps(p) == IF p \in Servers THEN ServerSteps ELSE WorkerSteps

Clients == {"postgres", "tigerbeetle", "temporal"}

VARIABLES
    phase,       \* of each process
    at,          \* its step, by position
    tries,       \* attempts, or files, of that step so far
    signalled,   \* is ctx cancelled?
    deferred,    \* what will be closed on return
    listening,   \* servers that accept requests
    requests,    \* servers with a request in flight
    starts,
    files,       \* migration files applied to the database
    accounts     \* do the global TigerBeetle accounts exist?

shared == <<files, accounts>>
vars == <<phase, at, tries, signalled, deferred, listening, requests, starts, shared, metrics>>

Init ==
    /\ phase = [p \in Process |-> "down"]
    /\ at = [p \in Process |-> 1] /\ tries = [p \in Process |-> 0]
    /\ signalled = [p \in Process |-> FALSE]
    /\ deferred = [p \in Process |-> <<>>]
    /\ listening = {} /\ requests = {}
    /\ starts = [p \in Process |-> 0]
    /\ files = {} /\ accounts = FALSE
    /\ MetricsInit

Step(p) == Steps(p)[at[p]]

Starting(p, s) == phase[p] = "starting" /\ Step(p) = s

Open(p) == Range(deferred[p])

Start(p) ==
    /\ phase[p] = "down" /\ starts[p] < MaxStarts[p]
    /\ phase' = [phase EXCEPT ![p] = "starting"]
    /\ starts' = [starts EXCEPT ![p] = @ + 1]
    /\ UNCHANGED <<at, tries, signalled, deferred, listening, requests, shared, metrics>>

(* signal.NotifyContext: further signals change nothing.                   *)
Signal(p) ==
    /\ phase[p] # "down" /\ ~signalled[p]
    /\ signalled' = [signalled EXCEPT ![p] = TRUE]
    /\ UNCHANGED <<phase, at, tries, deferred, listening, requests, starts, shared, metrics>>

(* The process ends; its memory and connections are gone.                  *)
Ends(p) ==
    /\ phase' = [phase EXCEPT ![p] = "down"]
    /\ at' = [at EXCEPT ![p] = 1] /\ tries' = [tries EXCEPT ![p] = 0]
    /\ signalled' = [signalled EXCEPT ![p] = FALSE]
    /\ deferred' = [deferred EXCEPT ![p] = <<>>]
    /\ listening' = listening \ {p} /\ requests' = requests \ {p}
    /\ IF p = Watched THEN MetricsReset ELSE UNCHANGED metrics
    /\ UNCHANGED starts

Exit(p) == Ends(p) /\ UNCHANGED shared

(* A return from main, or the end of it.                                   *)
Return(p) ==
    /\ phase' = [phase EXCEPT ![p] = "closing"]
    /\ UNCHANGED <<at, tries, signalled, deferred, listening, requests, starts, shared, metrics>>

Proceed(p, closes) ==
    /\ at' = [at EXCEPT ![p] = IF @ < Len(Steps(p)) THEN @ + 1 ELSE @]
    /\ phase' = [phase EXCEPT ![p] = IF at[p] < Len(Steps(p)) THEN "starting" ELSE "serving"]
    /\ tries' = [tries EXCEPT ![p] = 0]
    /\ deferred' = [deferred EXCEPT ![p] = @ \o closes]
    /\ UNCHANGED <<signalled, requests, starts, metrics>>

Acquire(p) == Proceed(p, <<Step(p)>>) /\ UNCHANGED <<listening, shared>>

-----------------------------------------------------------------------------
(* Start-up.                                                               *)

(* NewPool connects and pings under ctx; must ends the process.            *)
NewPool(p) ==
    /\ Starting(p, "postgres")
    /\ (~signalled[p] /\ Acquire(p)) \/ Exit(p)

(* The next file could not be applied: the next one is tried.              *)
FaultyMigrationFails(p) ==
    IF tries[p] + 1 < Files
    THEN /\ tries' = [tries EXCEPT ![p] = @ + 1]
         /\ UNCHANGED <<phase, at, signalled, deferred, listening, requests, starts, shared, metrics>>
    ELSE Proceed(p, <<>>) /\ UNCHANGED <<listening, shared>>

MigrationFails(p) == Exit(p)

(* RunMigrations: one file, which is applied as a whole or not at all; a   *)
(* file that has been applied before changes nothing.                      *)
RunMigrations(p) ==
    /\ Starting(p, "migrations")
    /\ \/ /\ ~signalled[p]
          /\ files' = files \cup {tries[p] + 1}
          /\ IF tries[p] + 1 < Files
             THEN /\ tries' = [tries EXCEPT ![p] = @ + 1]
                  /\ UNCHANGED <<phase, at, signalled, deferred, requests, starts, metrics>>
             ELSE Proceed(p, <<>>)
          /\ UNCHANGED <<listening, accounts>>
       \/ MigrationFails(p)

(* The loop goes on without a look at ctx.                                 *)
FaultyCancelled(p) == FALSE

(* The loops of the server look at ctx before every attempt and during the *)
(* pause after it.  The worker tries once and does not look.               *)
Cancelled(p) == p \in Servers /\ signalled[p]

Attempts(p) == tries[p] + 1

Dialled == {"tigerbeetle", "temporal"}

(* The look at ctx; NewClient is then called without it.                   *)
Connect(p) ==
    /\ phase[p] = "starting" /\ Step(p) \in Dialled
    /\ IF Cancelled(p) THEN Return(p)
       ELSE /\ phase' = [phase EXCEPT ![p] = "dialing"]
            /\ UNCHANGED <<at, tries, signalled, deferred, listening, requests, starts, shared,
                           metrics>>

(* NewClient returns, with a client even if ctx is cancelled by now.       *)
Dial(p) ==
    /\ phase[p] = "dialing" /\ Step(p) \in Dialled
    /\ \/ Acquire(p)
       \/ IF p \in Workers \/ Attempts(p) >= MaxAttempts THEN Exit(p)
          ELSE /\ tries' = [tries EXCEPT ![p] = Attempts(p)]
               /\ phase' = [phase EXCEPT ![p] = "pausing"]
               /\ UNCHANGED <<at, signalled, deferred, listening, requests, starts, shared, metrics>>

(* Five seconds between attempts, or less when ctx is cancelled.           *)
Pause(p) ==
    /\ phase[p] = "pausing"
    /\ IF Cancelled(p) THEN Return(p)
       ELSE /\ phase' = [phase EXCEPT ![p] = "starting"]
            /\ UNCHANGED <<at, tries, signalled, deferred, listening, requests, starts, shared,
                           metrics>>

(* Accounts that exist already are not an error.                           *)
CreateGlobalAccounts(p) ==
    /\ Starting(p, "accounts")
    /\ \/ accounts' = TRUE /\ Proceed(p, <<>>) /\ UNCHANGED <<listening, files>>
       \/ Exit(p)

StartWorker(p) ==
    /\ Starting(p, "worker")
    /\ Acquire(p) \/ Exit(p)

(* The debug server runs in the background; an error is only logged.       *)
ServeDebug(p) ==
    /\ Starting(p, "debug")
    /\ Proceed(p, <<>>) /\ UNCHANGED <<listening, shared>>

(* Without Valkey the server remembers sequence numbers by itself; an      *)
(* address that cannot be parsed ends the process.                         *)
ConnectValkey(p) ==
    /\ Starting(p, "valkey")
    /\ Acquire(p) \/ Exit(p) \/ (Proceed(p, <<>>) /\ UNCHANGED <<listening, shared>>)

(* The handlers are made and the server listens in the background.         *)
Listen(p) ==
    /\ Starting(p, "http")
    /\ Proceed(p, <<>>)
    /\ listening' = listening \cup {p}
    /\ UNCHANGED shared

-----------------------------------------------------------------------------
(* Service and shutdown.                                                   *)

(* ListenAndServe gives up: os.Exit in its goroutine.                      *)
ListenFails(p) == p \in listening /\ Exit(p)

RequestBegins(p) ==
    /\ p \in listening /\ p \notin requests
    /\ requests' = requests \cup {p}
    /\ UNCHANGED <<phase, at, tries, signalled, deferred, listening, starts, shared, metrics>>

RequestEnds(p) ==
    /\ p \in requests
    /\ requests' = requests \ {p}
    /\ UNCHANGED <<phase, at, tries, signalled, deferred, listening, starts, shared, metrics>>

(* Heartbeats are counted and timed in a request; the two pages that read  *)
(* the counters are answered while main runs, the debug server's nil       *)
(* references before that.                                                 *)
Measure ==
    /\ \/ Watched \in requests /\ (countMessage \/ \E d \in Durations : recordLatency(d))
       \/ phase[Watched] \in {"serving", "draining"} /\ \E elapsed \in BOOLEAN : MsgRate(elapsed)
    /\ UNCHANGED <<phase, at, tries, signalled, deferred, listening, requests, starts, shared>>

(* The end of <-ctx.Done().  srv.Shutdown first closes the listener.       *)
Shutdown(p) ==
    /\ phase[p] = "serving" /\ signalled[p]
    /\ phase' = [phase EXCEPT ![p] = IF p \in Servers THEN "draining" ELSE "closing"]
    /\ listening' = listening \ {p}
    /\ UNCHANGED <<at, tries, signalled, deferred, requests, starts, shared, metrics>>

(* Shutdown waits for as long as a request takes.                          *)
FaultyMayReturn(p) == p \notin requests

(* After 10 s Shutdown returns whatever is in flight.                      *)
MayReturn(p) == TRUE

Drained(p) == phase[p] = "draining" /\ MayReturn(p) /\ Return(p)

(* Deferred calls run last first.                                          *)
Close(p) ==
    /\ phase[p] = "closing"
    /\ IF deferred[p] = <<>> THEN Exit(p)
       ELSE /\ deferred' = [deferred EXCEPT ![p] = SubSeq(@, 1, Len(@) - 1)]
            /\ UNCHANGED <<phase, at, tries, signalled, listening, requests, starts, shared, metrics>>

(* The machine goes away between any two steps.                            *)
Crash(p) == phase[p] # "down" /\ Exit(p)

-----------------------------------------------------------------------------
StartUp(p) ==
    \/ NewPool(p) \/ RunMigrations(p) \/ Connect(p) \/ Dial(p) \/ Pause(p)
    \/ CreateGlobalAccounts(p) \/ StartWorker(p) \/ ServeDebug(p) \/ ConnectValkey(p) \/ Listen(p)

Stop(p) == Shutdown(p) \/ Drained(p) \/ Close(p)

Next ==
    \/ \E p \in Process : StartUp(p) \/ Stop(p)
    \/ \E p \in Process : Start(p) \/ Signal(p) \/ Crash(p)
    \/ \E p \in Servers : ListenFails(p) \/ RequestBegins(p) \/ RequestEnds(p)
    \/ Measure

(* Every call returns in the end, with a result or an error.               *)
Fairness == \A p \in Process : WF_vars(StartUp(p)) /\ WF_vars(Stop(p))

Spec == Init /\ [][Next]_vars /\ Fairness

-----------------------------------------------------------------------------
Phase == {"down", "starting", "dialing", "pausing", "serving", "draining", "closing"}

TypeOK ==
    /\ phase \in [Process -> Phase]
    /\ \A p \in Process : at[p] \in DOMAIN Steps(p) /\ Open(p) \subseteq Range(Steps(p))
    /\ tries \in [Process -> 0..(Files + MaxAttempts)]
    /\ signalled \in [Process -> BOOLEAN] /\ \A p \in Process : starts[p] <= MaxStarts[p]
    /\ listening \subseteq Servers /\ requests \subseteq Servers
    /\ files \subseteq 1..Files /\ accounts \in BOOLEAN
    /\ MetricsTypeOK

(* Whatever uses the clients is closed before them: a process that polls   *)
(* for work, and a server that accepts requests, has every client open,    *)
(* and what it accepts it has a worker of its own for.  Holds through      *)
(* failed starts, signals at any moment and the deferred calls             *)
(* (cmd/server/main.go:51-136, 280-290).                                   *)
ClientsOutliveUsers ==
    \A p \in Process :
        /\ "worker" \in Open(p) => Clients \subseteq Open(p)
        /\ p \in listening => "worker" \in Open(p)

(* A server takes work only with the whole schema, in the order of its     *)
(* files, and the global accounts in place, also after starts that failed  *)
(* or crashed between two files (cmd/server/main.go:59-94).                *)
ServingHasSchema ==
    /\ \A f \in files : 1..f \subseteq files
    /\ \A p \in Servers : "worker" \in Open(p) => files = 1..Files /\ accounts

(* What start-up and shutdown keep true in every state.                    *)
ServerInv == TypeOK /\ ClientsOutliveUsers /\ ServingHasSchema

(* The signal has come and the call to Temporal has not gone out.          *)
LeftOut(p) ==
    signalled[p] /\ "temporal" \notin Open(p) /\ ~(phase[p] = "dialing" /\ Step(p) = "temporal")

(* A server that is signalled before it calls Temporal never calls it, and *)
(* so never takes work, however far it is in reaching PostgreSQL and       *)
(* TigerBeetle.  Only the call that is under way, which has no context,    *)
(* still goes through (cmd/server/main.go:66-72, 103-111).                 *)
SignalledStaysOut ==
    [][\A p \in Servers : LeftOut(p) => LeftOut(p)' \/ phase'[p] = "down"]_vars

(* A signalled process ends, whatever it is doing and whatever request is  *)
(* in flight (cmd/server/main.go:48-49, 283-290).                          *)
SignalEnds == \A p \in Process : signalled[p] ~> phase[p] = "down"
=============================================================================
