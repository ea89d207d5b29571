------------------------------ MODULE StartUp ------------------------------
(***************************************************************************)
(* StartUp: Modbus2Mqtt.init, from the command line to the open port and the *)
(* pollers.  It moves the files of an old version, reads the configuration,  *)
(* asks the supervisor of Home Assistant for the broker, prepares GitHub,    *)
(* connects the busses, asks the supervisor for the address of the add-on,   *)
(* and listens.  Every step waits for someone who may fail or stay silent.   *)
(***************************************************************************)
EXTENDS Naturals, FiniteSets

CONSTANTS
  Busses   \* busses of the configuration

(* Where the program runs: under the supervisor (HASSIO_TOKEN), with a broker *)
(* in its configuration file, with certificates, and without MODBUS_NOPOLL.   *)
Environment ==
  [hassio : BOOLEAN, broker : BOOLEAN, certificates : BOOLEAN, polls : BOOLEAN]

VARIABLES
  env,          \* the environment of this start
  directories,  \* of "old" (data/local) and "new" (config/modbus2mqtt)
  stage,        \* what the start waits for
  request,      \* of each call to the supervisor: where it stands
  connecting,   \* busses whose initialConnect is not settled
  listening,    \* servers with an open port
  initialised,  \* times that HttpServerBase.initBase ran, at most 2
  started       \* started[b]: times that bus.startPolling ran, at most 2

vars == <<env, directories, stage, request, connecting, listening, initialised, started>>

(* A request is sent, has its headers, and is settled; it is late when its timer     *)
(* has rejected it and the answer may still come.                              *)
Requests == {"login", "addon"}

AtMostTwo(n) == IF n = 2 THEN 2 ELSE n + 1

(* The process ends, with all that it waits for.                               *)
Quits ==
  /\ stage' = "exited"
  /\ request' = [r \in Requests |-> "none"]
  /\ connecting' = {}
  /\ listening' = {}

(***************************************************************************)
(* CmdlineMigrate.                                                           *)
(***************************************************************************)

NeedsMigration == "old" \in directories /\ "new" \notin directories

(* A migration that fails does not keep the program from starting.              *)
Migrate ==
  /\ stage = "migration"
  /\ IF NeedsMigration
     THEN directories' \in {{"new"}, directories}
     ELSE UNCHANGED directories
  /\ stage' = "configuration"
  /\ UNCHANGED <<env, request, connecting, listening, initialised, started>>

(***************************************************************************)
(* Config.readYamlAsync and executeHassioGetRequest.                          *)
(***************************************************************************)

AsksForLogin == env.hassio /\ ~env.broker

(* The caller of r goes on, unless its timer has made it go on before.  A login that  *)
(* fails takes mqttusehassio back; one that is late fills a copy of the configuration, *)
(* and a late answer for the add-on sets up the routes again.                     *)
Proceed(r, late) ==
  /\ stage' = IF late THEN stage ELSE IF r = "login" THEN "github" ELSE "listen"
  /\ initialised' = IF r = "addon" THEN AtMostTwo(initialised) ELSE initialised

(* Mutant: only the request for the login has a timer.                          *)
TimeoutOfLogin(r) ==
  /\ r = "login"
  /\ request[r] = "sent"
  /\ request' = [request EXCEPT ![r] = "late"]
  /\ Proceed(r, FALSE)
  /\ UNCHANGED <<env, directories, connecting, listening, started>>

(* HASSIO_TIMEOUT passes before the headers are there: the caller goes on.        *)
Timeout(r) ==
  /\ request[r] = "sent"
  /\ request' = [request EXCEPT ![r] = "late"]
  /\ Proceed(r, FALSE)
  /\ UNCHANGED <<env, directories, connecting, listening, started>>

(* Without a file it can read the program gives up.                            *)
Unreadable ==
  /\ stage = "configuration"
  /\ Quits
  /\ UNCHANGED <<env, directories, initialised, started>>

ReadConfiguration ==
  /\ stage = "configuration"
  /\ stage' = IF AsksForLogin THEN "login" ELSE "github"
  /\ request' = [request EXCEPT !["login"] = IF AsksForLogin THEN "sent" ELSE @]
  /\ UNCHANGED <<env, directories, connecting, listening, initialised, started>>

(* The headers stop the timer.                                               *)
HeadersArrive(r) ==
  /\ request[r] \in {"sent", "late"}
  /\ request' = [request EXCEPT ![r] = IF @ = "sent" THEN "headers" ELSE "lateHeaders"]
  /\ UNCHANGED <<env, directories, stage, connecting, listening, initialised, started>>

(* The body is there, or the connection breaks.                                 *)
Settles(r) ==
  /\ request[r] \in {"headers", "lateHeaders"}
  /\ request' = [request EXCEPT ![r] = "settled"]
  /\ Proceed(r, request[r] = "lateHeaders")
  /\ UNCHANGED <<env, directories, connecting, listening, started>>

(* fetch fails before an answer.                                               *)
Fails(r) ==
  /\ request[r] \in {"sent", "late"}
  /\ request' = [request EXCEPT ![r] = "settled"]
  /\ Proceed(r, request[r] = "late")
  /\ UNCHANGED <<env, directories, connecting, listening, started>>

(***************************************************************************)
(* Modbus2Mqtt.init: startServer.                                             *)
(***************************************************************************)

(* There is no frontend to serve.                                            *)
NoFrontend ==
  /\ stage = "github"
  /\ Quits
  /\ UNCHANGED <<env, directories, initialised, started>>

(* gh.init is done or has failed: the busses are read and connected.               *)
GithubReady ==
  /\ stage = "github"
  /\ stage' = IF Busses = {} THEN "oidc" ELSE "connections"
  /\ connecting' = Busses
  /\ UNCHANGED <<env, directories, request, listening, initialised, started>>

(* Promise.allSettled: a bus that cannot be opened counts like one that can.          *)
ConnectionSettles(b) ==
  /\ b \in connecting
  /\ connecting' = connecting \ {b}
  /\ stage' = IF connecting' = {} THEN "oidc" ELSE stage
  /\ UNCHANGED <<env, directories, request, listening, initialised, started>>

(* HttpServerBase.init: without a supervisor the routes are set up at once.            *)
OidcReady ==
  /\ stage = "oidc"
  /\ stage' = IF env.hassio THEN "addon" ELSE "listen"
  /\ request' = [request EXCEPT !["addon"] = IF env.hassio THEN "sent" ELSE @]
  /\ initialised' = IF env.hassio THEN initialised ELSE AtMostTwo(initialised)
  /\ UNCHANGED <<env, directories, connecting, listening, started>>

UsesHttps == env.certificates /\ ~env.hassio

Polling == [b \in Busses |-> IF env.polls THEN AtMostTwo(started[b]) ELSE started[b]]

(* Mutant: the callback is given to both servers.                               *)
ListenForBoth ==
  /\ stage = "listen"
  /\ stage' = "running"
  /\ listening' = IF UsesHttps THEN {"https", "redirect"} ELSE {"http"}
  /\ started' = [b \in Busses |->
                   IF env.polls /\ UsesHttps THEN 2 ELSE Polling[b]]
  /\ UNCHANGED <<env, directories, request, connecting, initialised>>

(* The port is open: the pollers start.                                        *)
Listen ==
  /\ stage = "listen"
  /\ stage' = "running"
  /\ listening' = IF UsesHttps THEN {"https", "redirect"} ELSE {"http"}
  /\ started' = Polling
  /\ UNCHANGED <<env, directories, request, connecting, initialised>>

(* The port is taken.  express hands the error to the callback of its own server,   *)
(* which does not look at it; https has no listener for it and ends the program.      *)
PortTaken ==
  /\ stage = "listen"
  /\ IF UsesHttps
     THEN Quits /\ UNCHANGED started
     ELSE /\ stage' = "running"
          /\ started' = Polling
          /\ UNCHANGED <<request, connecting, listening>>
  /\ UNCHANGED <<env, directories, initialised>>

(***************************************************************************)
(* The program runs, ends and starts again.                                   *)
(***************************************************************************)

(* The first file that is saved creates the new directory.                       *)
SaveFile ==
  /\ stage = "running"
  /\ directories' = directories \cup {"new"}
  /\ UNCHANGED <<env, stage, request, connecting, listening, initialised, started>>

Stop ==
  /\ stage # "exited"
  /\ Quits
  /\ UNCHANGED <<env, directories, initialised, started>>

Start ==
  /\ stage = "exited"
  /\ env' \in Environment
  /\ stage' = "migration"
  /\ initialised' = 0
  /\ started' = [b \in Busses |-> 0]
  /\ UNCHANGED <<directories, request, connecting, listening>>

Init ==
  /\ env \in Environment
  /\ directories \in SUBSET {"old", "new"}
  /\ stage = "migration"
  /\ request = [r \in Requests |-> "none"]
  /\ connecting = {}
  /\ listening = {}
  /\ initialised = 0
  /\ started = [b \in Busses |-> 0]

Next ==
  \/ Migrate
  \/ ReadConfiguration \/ Unreadable
  \/ \E r \in Requests : Timeout(r) \/ HeadersArrive(r) \/ Settles(r) \/ Fails(r)
  \/ NoFrontend \/ GithubReady
  \/ \E b \in Busses : ConnectionSettles(b)
  \/ OidcReady \/ Listen \/ PortTaken
  \/ SaveFile \/ Stop \/ Start

(* The program's own steps and its timers happen, a connection that is tried settles,   *)
(* and so does an answer whose headers are there.  The supervisor may stay silent, and    *)
(* every bus may fail.                                                         *)
Fairness ==
  /\ WF_vars(Migrate)
  /\ WF_vars(ReadConfiguration)
  /\ \A r \in Requests : WF_vars(Timeout(r)) /\ WF_vars(Settles(r))
  /\ WF_vars(GithubReady)
  /\ \A b \in Busses : WF_vars(ConnectionSettles(b))
  /\ WF_vars(OidcReady)
  /\ WF_vars(Listen)

Spec     == Init /\ [][Next]_vars
FairSpec == Spec /\ Fairness

(***************************************************************************)
(* Properties.                                                              *)
(***************************************************************************)

(* A start ends, with the program running or ended, though the supervisor never         *)
(* answers, GitHub is out of reach and no bus can be opened (modbus2mqtt.ts:            *)
(* allSettled, finally, and HASSIO_TIMEOUT).                                      *)
EventuallyServes == stage = "migration" ~> stage \in {"running", "exited"}

(* A bus has one poller, however the start went and however late the supervisor         *)
(* answers; it has one only when the routes are set up and no connection is under way    *)
(* (modbus2mqtt.ts: listen).                                                    *)
OnePollerEach ==
  /\ \A b \in Busses : started[b] <= 1
  /\ (\E b \in Busses : started[b] > 0) => initialised > 0 /\ connecting = {}
=============================================================================
