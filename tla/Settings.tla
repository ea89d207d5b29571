------------------------------ MODULE Settings ------------------------------
(***************************************************************************)
(* Settings: modbus2mqtt.yaml and the page on which the user edits it.  Logins and *)
(* the GitHub token are kept in a second file, secrets.yaml, which no export        *)
(* contains; the first one has placeholders for them.  The page checks the broker   *)
(* with every change, and the answers come in any order.                          *)
(*                                                                           *)
(* Texts with characters that mean something to YAML are left out, and so are the    *)
(* busses, the specifications and the marker of an import, see Configuration.        *)
(***************************************************************************)
EXTENDS Naturals, FiniteSets

CONSTANTS
  None,          \* undefined, no file
  Placeholder,   \* "!secret <name>"
  Blank,         \* [''], what the page has for a token nobody entered
  Values,        \* Values[f]: what the user may enter for field f, None to clear it
  Environments,  \* [hassio, https]: HASSIO_TOKEN, and MODBUS2MQTT_HTTPS_PORT, which may be "off"
  Handwritten,   \* files there may be at the beginning
  Exported,      \* archives of other installations there may be
  NewConfig,     \* Config.newConfig
  DefaultPort,   \* 3443
  MaxChecks,     \* bound: checks under way
  MaxSteps       \* bound: steps of the user

(* User and password are one field, login.                                       *)
Fields == {"server", "login", "token", "language", "port"}
Secrets == {"login", "token"}

(* All that a field may have.                                                 *)
Texts ==
  {None, Placeholder, Blank, DefaultPort}
    \cup (UNION {Values[f] : f \in Fields \ {"port"}})
    \cup {e.https : e \in Environments}
    \cup (UNION {{c[f] : f \in Fields} : c \in Handwritten \cup Exported \cup {NewConfig}})

(* Nobody enters a placeholder, only the token can be blank, and a file that no export    *)
(* has made has no placeholders for secrets.                                     *)
SettingsAssumption ==
  /\ None # Placeholder /\ None # Blank /\ Blank # Placeholder
  /\ None \notin [Fields -> Texts] /\ None \notin [Secrets -> Texts]
  /\ DefaultPort \notin {Blank, Placeholder}
  /\ \A e \in Environments : e.hassio \in BOOLEAN /\ e.https \notin {Blank, Placeholder}
  /\ \A f \in Fields \ {"port"} :
       Placeholder \notin Values[f] /\ (f # "token" => Blank \notin Values[f])
  /\ \A c \in Handwritten \cup Exported \cup {NewConfig} :
       /\ c \in [Fields -> Texts]
       /\ \A f \in Fields : c[f] # Blank /\ (f \notin Secrets => c[f] # Placeholder)
  /\ \A c \in Handwritten \cup {NewConfig} : \A f \in Secrets : c[f] # Placeholder

VARIABLES
  process,  \* "down" or "up"
  env,      \* its environment
  memory,   \* Config.config
  yaml,     \* modbus2mqtt.yaml
  secrets,  \* secrets.yaml
  archive,  \* modbus2mqtt.yaml of the last export
  page,     \* ConfigureComponent, or None
  checks,   \* its checks under way: with and without a server to check
  apart,    \* history: memory was not written, or the files were removed since
  torn,     \* history: the first save was interrupted between its files
  steps     \* history: the steps of the user

vars == <<process, env, memory, yaml, secrets, archive, page, checks, apart, torn, steps>>

filesVars == <<yaml, secrets, archive>>

(***************************************************************************)
(* Config.getConfiguration, which completes the configuration in memory.         *)
(***************************************************************************)

HttpsPort(e, port) ==
  CASE e.hassio \/ e.https = "off" -> None
    [] ~e.hassio /\ e.https \notin {None, "off"} -> e.https
    [] ~e.hassio /\ e.https = None -> IF port = None THEN DefaultPort ELSE port

Completed(e, c) ==
  [c EXCEPT !.language = IF @ = None THEN NewConfig.language ELSE @, !.port = HttpsPort(e, @)]

(***************************************************************************)
(* ConfigPersistence.                                                       *)
(***************************************************************************)

(* What write puts into the one file and the other.                               *)
Public(c) == [f \in Fields |-> IF f \in Secrets /\ c[f] # None THEN Placeholder ELSE c[f]]
Private(c) == [f \in Secrets |-> c[f]]

NoSecrets == [f \in Secrets |-> None]

(* A secret is pasted between quotes, where a blank array is an empty text.          *)
Pasted(v) == IF v = Blank THEN None ELSE v

(* read: a line is left out when there is no secret for its placeholder; without a    *)
(* second file nothing is replaced.                                              *)
Read(y, s) ==
  IF y = None THEN NewConfig
  ELSE [f \in Fields |-> IF y[f] # Placeholder \/ s = None THEN y[f] ELSE Pasted(s[f])]

(***************************************************************************)
(* ConfigureComponent.                                                      *)
(***************************************************************************)

NoChecks == [withServer \in BOOLEAN |-> 0]

(* ngOnInit; the token is filled in when the user is known.                         *)
Open ==
  /\ process = "up"
  /\ page = None
  /\ page' = [config |-> memory, form |-> [memory EXCEPT !.token = Blank],
              known |-> FALSE, hassio |-> FALSE, pristine |-> TRUE, connected |-> FALSE]
  /\ UNCHANGED <<process, env, memory, filesVars, checks, apart, torn>>

(* mqttValidate for a form.                                                      *)
Checking(form) ==
  /\ checks[FALSE] + checks[TRUE] < MaxChecks
  /\ checks' = [checks EXCEPT ![form.server # None] = @ + 1]

UserIsKnown ==
  /\ process = "up"
  /\ page # None
  /\ ~page.known
  /\ page' = [page EXCEPT !.known = TRUE, !.hassio = env.hassio,
                !.form.token = IF page.config.token = None THEN @ ELSE page.config.token]
  /\ Checking(page.form)
  /\ UNCHANGED <<process, env, memory, filesVars, apart, torn, steps>>

(* MqttConnector.validateConnection tells whether the broker can be reached.         *)
Checked(withServer, valid) ==
  /\ checks[withServer] > 0
  /\ checks' = [checks EXCEPT ![withServer] = @ - 1]
  /\ valid => withServer
  /\ page' = [page EXCEPT !.connected = valid]
  /\ UNCHANGED <<process, env, memory, filesVars, apart, torn, steps>>

Edit(f, v) ==
  /\ process = "up"
  /\ page # None
  /\ page.form[f] # v
  /\ page' = [page EXCEPT !.form[f] = v, !.pristine = FALSE]
  /\ IF f = "token" THEN UNCHANGED checks ELSE Checking(page'.form)
  /\ UNCHANGED <<process, env, memory, filesVars, apart, torn>>

SaveDisabled == (~page.connected /\ page.known /\ ~page.hassio) \/ page.pristine

(* form2Config and save: without a server only the token is taken from the form; token  *)
(* and language stay when they are cleared.                                        *)
Posted ==
  LET Entered(f) ==
        IF f \in {"token", "language"} /\ page.form[f] = None THEN page.config[f] ELSE page.form[f]
      taken == IF page.form.server = None THEN {"token"} ELSE Fields \ {"port"}
  IN  [f \in Fields |-> IF f \in taken THEN Entered(f) ELSE page.config[f]]

(***************************************************************************)
(* Config.writeConfiguration.                                                *)
(***************************************************************************)

(* Memory has the new configuration before the files are written.                  *)
Writes(c) ==
  /\ memory' = Completed(env, c)
  /\ yaml' = Public(c)
  /\ secrets' = Private(c)
  /\ apart' = FALSE
  /\ UNCHANGED <<process, torn>>

(* A file cannot be written, or the process ends before or between them.             *)
Interrupted(c) ==
  /\ memory' = Completed(env, c)
  /\ yaml' \in {yaml, Public(c)}
  /\ apart' = TRUE
  /\ torn' = (torn \/ (secrets = None /\ yaml' = Public(c)))
  /\ UNCHANGED secrets
  /\ process' \in {process, "down"}

(* Nobody waits for the checks of a page that is closed.                            *)
Save ==
  /\ process = "up"
  /\ page # None
  /\ ~SaveDisabled
  /\ Writes(Posted) \/ Interrupted(Posted)
  /\ page' = None
  /\ checks' = NoChecks
  /\ UNCHANGED <<env, archive>>

(***************************************************************************)
(* Archives, the user's file manager, and the process.                           *)
(***************************************************************************)

Export ==
  /\ process = "up"
  /\ yaml # None
  /\ archive' = yaml
  /\ UNCHANGED <<process, env, memory, yaml, secrets, page, checks, apart, torn>>

(* importLocalZip, and reading what it has written.                               *)
Import ==
  /\ process = "up"
  /\ yaml = None /\ archive # None
  /\ yaml' = archive
  /\ secrets' = IF secrets = None THEN NoSecrets ELSE secrets
  /\ memory' = Completed(env, Read(yaml', secrets'))
  /\ apart' = FALSE
  /\ UNCHANGED <<process, env, archive, page, checks, torn>>

(* One file or both; another installation is one where there was nothing.             *)
RemoveFiles ==
  /\ yaml # None
  /\ yaml' = None
  /\ secrets' \in {secrets, None}
  /\ apart' = TRUE
  /\ UNCHANGED <<process, env, memory, archive, page, checks, torn>>

Start ==
  /\ process = "down"
  /\ process' = "up"
  /\ env' \in Environments
  /\ memory' = Completed(env', Read(yaml, secrets))
  /\ apart' = FALSE
  /\ UNCHANGED <<filesVars, page, checks, torn, steps>>

Stop ==
  /\ process = "up"
  /\ process' = "down"
  /\ checks' = NoChecks
  /\ UNCHANGED <<env, memory, filesVars, page, apart, torn, steps>>

Init ==
  /\ process = "down"
  /\ env \in Environments
  /\ memory = NewConfig
  /\ yaml \in Handwritten \cup {None}
  /\ secrets = None
  /\ archive \in Exported \cup {None}
  /\ page = None
  /\ checks = NoChecks
  /\ apart = FALSE /\ torn = FALSE
  /\ steps = 0

UserStep ==
  /\ steps < MaxSteps
  /\ steps' = steps + 1
  /\ \/ Open
     \/ \E f \in Fields \ {"port"} : \E v \in Values[f] : Edit(f, v)
     \/ Save
     \/ Export \/ Import \/ RemoveFiles

Next ==
  \/ UserStep
  \/ UserIsKnown
  \/ \E withServer, valid \in BOOLEAN : Checked(withServer, valid)
  \/ Start \/ Stop

Spec == Init /\ [][Next]_vars

(***************************************************************************)
(* Properties.                                                              *)
(***************************************************************************)

(* The process works with what it would find in its files if it were started again in   *)
(* the same environment, whatever was saved, exported, imported or interrupted before    *)
(* (ConfigPersistence.write, read, importLocalZip), and never takes a placeholder for a   *)
(* login, unless the very first save was cut off between its files.                  *)
RestartChangesNothing ==
  process = "up" =>
    /\ ~apart => LET again == Completed(env, Read(yaml, secrets))
                 IN  \A f \in Fields : Pasted(memory[f]) = again[f]
    /\ ~torn => \A f \in Secrets : memory[f] # Placeholder
=============================================================================
