----------------------------- MODULE EcsDeploy -----------------------------
(***************************************************************************)
(* Starting and stopping the ECS Server, in the foreground or in a Docker  *)
(* container, and whether `aws-sso ecs` clients can talk to it.  The       *)
(* secure store holds the bearer token and the SSL key pair for both ends; *)
(* a container gets them through a file that its server reads and removes. *)
(* Docker restarts a server that fails.                                    *)
(***************************************************************************)
EXTENDS Naturals

CONSTANTS
  Execution,       \* runs of `aws-sso ecs docker` that may overlap
  Token,           \* bearer tokens
  Flags,           \* the --disable flags in use: a subset of {"auth", "ssl"}
  MaximumRetryCount, \* of the restart policy
  MaxSetups        \* bound: changes of the secure store

ASSUME EcsDeployAssumption ==
  /\ Flags \subseteq {"auth", "ssl"}
  /\ MaximumRetryCount \in Nat /\ MaxSetups \in Nat

(* What stands for no token, and for what is in a file that holds none.    *)
NoToken == "no token"
ASSUME NoTokenAssumption == {NoToken, "no file", "torn"} \intersect Token = {}

(* ECSSecurity, and what the secure store holds for it.                    *)
Security == [token : Token \union {NoToken}, ssl : BOOLEAN]
NoSecurity == [token |-> NoToken, ssl |-> FALSE]

(* What was asked for: the secure store then, and the flags.               *)
Request == [stored : Security, disable : SUBSET Flags]
NoRequest == [stored |-> NoSecurity, disable |-> {}]

NoServer == [home |-> "none", uses |-> NoSecurity, loaded |-> FALSE, for |-> NoRequest]
NoContainer == [state |-> "none", id |-> "nobody", for |-> NoRequest,
                retries |-> 0, uses |-> NoSecurity, refused |-> "none"]

VARIABLES
  store,      \* the secure store
  setups,     \* how often it was changed
  file,       \* ~/.aws-sso/mnt/docker-ecs: NoFile, Torn or a Security
  container,  \* the container of that name; refused (history) is what Docker
              \* has failed at: a start that it reported as failed although the
              \* container runs, or the stop or removal that were to clean up
  server,     \* who listens on port 4144
  phase,      \* where each execution is
  request,    \* its flags, and its copy of the secure store
  default,    \* whether it was given a profile to load
  outcome,    \* how it ended
  overlapped  \* history: two executions have been running at once

local == <<phase, request, default, outcome>>
host == <<store, setups, overlapped>>
deployVars == <<host, file, container, server, local>>

NoFile == [token |-> "no file", ssl |-> FALSE]
Torn == [token |-> "torn", ssl |-> FALSE]

DeployTypeOK ==
  /\ store \in Security /\ setups \in 0..MaxSetups
  /\ file \in Security \union {NoFile, Torn}
  /\ container \in [state : {"none", "created", "starting", "bare", "configured", "serving", "exited"},
                    id : Execution \union {"nobody"}, for : Request, retries : 0..MaximumRetryCount, uses : Security,
                    refused : {"none", "start", "removal"}]
  /\ server \in [home : {"none", "host", "container"}, uses : Security, loaded : BOOLEAN, for : Request]
  /\ phase \in [Execution -> {"off", "create", "open", "write", "start", "failed", "wait", "load",
                           "check", "stop", "cleanup", "remove"}]
  /\ request \in [Execution -> Request]
  /\ default \in [Execution -> BOOLEAN]
  /\ outcome \in [Execution -> {"none", "ok", "error", "killed"}]
  /\ overlapped \in BOOLEAN

DeployInit ==
  /\ store \in {[token |-> t, ssl |-> b] : t \in Token \union {NoToken}, b \in BOOLEAN}
  /\ setups = 0
  /\ file = NoFile
  /\ container = NoContainer /\ server = NoServer
  /\ phase = [e \in Execution |-> "off"]
  /\ request = [e \in Execution |-> NoRequest]
  /\ default = [e \in Execution |-> FALSE]
  /\ outcome = [e \in Execution |-> "none"]
  /\ overlapped = FALSE

-----------------------------------------------------------------------------
(* The two ends.                                                           *)

(* What a server uses of the secure store.                                 *)
Enabled(r) ==
  [token |-> IF "auth" \in r.disable THEN NoToken ELSE r.stored.token,
   ssl |-> r.stored.ssl /\ "ssl" \notin r.disable]

(* WithAuthorizationCheck compares the header, which a client sends when   *)
(* the secure store has a token.                                           *)
Authorized(s, stored) == s.uses.token = stored.token

(* NewECSClient speaks https when the secure store has a certificate.      *)
Accepts(s, stored) == s.home # "none" /\ s.uses.ssl = stored.ssl /\ Authorized(s, stored)

Enter(e, l) == phase' = [phase EXCEPT ![e] = l]
End(e, o) ==
  /\ Enter(e, "off")
  /\ outcome' = [outcome EXCEPT ![e] = o]
  /\ request' = [request EXCEPT ![e] = NoRequest]
  /\ default' = [default EXCEPT ![e] = FALSE]
Continue(e, l) == Enter(e, l) /\ UNCHANGED <<request, default, outcome>>

Busy == {e \in Execution : phase[e] # "off"}
NotesOverlap(e) == overlapped' = (overlapped \/ Busy \ {e} # {})

Mine(e) == container.state # "none" /\ container.id = e

-----------------------------------------------------------------------------
(* aws-sso ecs docker start.                                               *)

DockerStart(e, disable, d) ==
  /\ phase[e] = "off"
  /\ Enter(e, "create")
  /\ request' = [request EXCEPT ![e] = [stored |-> store, disable |-> disable]]
  /\ default' = [default EXCEPT ![e] = d]
  /\ outcome' = [outcome EXCEPT ![e] = "none"]
  /\ NotesOverlap(e)
  /\ UNCHANGED <<store, setups, file, container, server>>

(* The name is taken while there is a container, running or not.           *)
ContainerCreate(e) ==
  /\ phase[e] = "create"
  /\ \/ /\ container.state = "none"
        /\ container' = [NoContainer EXCEPT !.state = "created", !.id = e, !.for = request[e]]
        /\ Continue(e, "open")
     \/ /\ End(e, "error")
        /\ UNCHANGED container
  /\ UNCHANGED <<host, file, server>>

(* A file that is there already is taken for the one that is needed.       *)
OpenSecurityFileOnce(e) ==
  /\ phase[e] = "open"
  /\ Continue(e, IF file = NoFile THEN "write" ELSE "start")
  /\ file' = IF file = NoFile THEN Torn ELSE file
  /\ UNCHANGED <<host, container, server>>

(* writeAndCloseSecurityFile: OpenSecurityFile truncates, or fails ...     *)
OpenSecurityFile(e) ==
  /\ phase[e] = "open"
  /\ \/ file' = Torn /\ Continue(e, "write")
     \/ UNCHANGED file /\ Continue(e, "cleanup")
  /\ UNCHANGED <<host, container, server>>

(* ... and WriteSecurityConfig writes; it or Close may fail.               *)
WriteSecurityConfig(e) ==
  /\ phase[e] = "write"
  /\ \/ /\ file' = Enabled(request[e])
        /\ Continue(e, "start")
     \/ /\ file' \in {file, Enabled(request[e])}
        /\ Continue(e, "cleanup")
  /\ UNCHANGED <<host, container, server>>

(* Start fails without the container or the port, or for reasons of        *)
(* Docker's own, which may have started it all the same.                   *)
ContainerStart(e) ==
  /\ phase[e] = "start"
  /\ \/ /\ Mine(e) /\ container.state = "created" /\ server.home = "none"
        /\ \/ /\ container' = [container EXCEPT !.state = "starting"]
              /\ IF default[e] THEN Continue(e, "wait") ELSE End(e, "ok")
           \/ /\ container' = [container EXCEPT !.state = "starting", !.refused = "start"]
              /\ Continue(e, "failed")
     \/ UNCHANGED container /\ Continue(e, "failed")
  /\ UNCHANGED <<host, file, server>>

(* The file of a start that failed is removed, whoever wrote it.           *)
RemoveFile(e) ==
  /\ phase[e] = "failed"
  /\ file' = NoFile
  /\ Continue(e, "cleanup")
  /\ UNCHANGED <<host, container, server>>

(* waitForEcsServerUp: any answer will do, which a server with TLS also    *)
(* has for plain HTTP.                                                     *)
WaitUp(e) ==
  /\ phase[e] = "wait"
  /\ \/ /\ server.home # "none" /\ (Enabled(request[e]).ssl => server.uses.ssl)
        /\ Continue(e, "load")
     \/ Continue(e, "stop")
  /\ UNCHANGED <<host, file, container, server>>

(* loadProfileToEcsServer, as any client: the flags play no part.          *)
LoadProfile(e) ==
  /\ phase[e] = "load"
  /\ IF Accepts(server, request[e].stored)
     THEN server' = [server EXCEPT !.loaded = TRUE] /\ Continue(e, "check")
     ELSE UNCHANGED server /\ Continue(e, "stop")
  /\ UNCHANGED <<host, file, container>>

(* waitForEcsHealthcheck that is content with any answer.                  *)
HealthcheckAny(e) ==
  /\ phase[e] = "check"
  /\ IF server.home # "none" THEN End(e, "ok") ELSE Continue(e, "stop")
  /\ UNCHANGED <<host, file, container, server>>

(* waitForEcsHealthcheck: 200, or the timeout.                             *)
Healthcheck(e) ==
  /\ phase[e] = "check"
  /\ \/ /\ server.loaded /\ server.uses.ssl = Enabled(request[e]).ssl
        /\ End(e, "ok")
     \/ Continue(e, "stop")
  /\ UNCHANGED <<host, file, container, server>>

-----------------------------------------------------------------------------
(* Stopping and removing a container, by id here and by name below.        *)

Stopped(c) == IF c.state = "created" THEN c ELSE [c EXCEPT !.state = "exited", !.uses = NoSecurity]

(* A container that does not run can be removed.                           *)
Removable == container.state \in {"created", "exited"}

Halt == container' = Stopped(container) /\ server' = IF server.home = "host" THEN server ELSE NoServer

Refuses(c) == [c EXCEPT !.refused = IF @ = "none" THEN "removal" ELSE @]

(* stopAndRemove that goes straight to the removal.                        *)
SkipStop(e) ==
  /\ phase[e] = "stop"
  /\ Continue(e, "cleanup")
  /\ UNCHANGED <<host, file, container, server>>

(* The errors of stopAndRemove are dropped: a container that Docker does   *)
(* not stop is to be removed while it runs, which fails.                   *)
StopOwn(e) ==
  /\ phase[e] = "stop"
  /\ Continue(e, "cleanup")
  /\ \/ Mine(e) /\ Halt
     \/ Mine(e) /\ container' = Refuses(container) /\ UNCHANGED server
     \/ ~Mine(e) /\ UNCHANGED <<container, server>>
  /\ UNCHANGED <<host, file>>

RemoveOwn(e) ==
  /\ phase[e] = "cleanup"
  /\ IF Mine(e) /\ Removable
     THEN container' \in {NoContainer, Refuses(container)}
     ELSE UNCHANGED container
  /\ End(e, "error")
  /\ UNCHANGED <<host, file, server>>

(* aws-sso ecs docker stop.  Docker may fail having stopped it or not.     *)
DockerStop(e) ==
  /\ phase[e] = "off"
  /\ \/ /\ container.state # "none" /\ Halt
        /\ Enter(e, "remove")
        /\ outcome' = [outcome EXCEPT ![e] = "none"]
        /\ UNCHANGED <<request, default>>
     \/ End(e, "error") /\ UNCHANGED <<container, server>>
     \/ container.state # "none" /\ Halt /\ End(e, "error")
  /\ NotesOverlap(e)
  /\ UNCHANGED <<store, setups, file>>

RemoveNamed(e) ==
  /\ phase[e] = "remove"
  /\ \/ Removable /\ container' = NoContainer /\ \E o \in {"ok", "error"} : End(e, o)
     \/ UNCHANGED container /\ End(e, "error")
  /\ UNCHANGED <<host, file, server>>

(* A signal ends an execution; Docker and the file stay as they are.       *)
Killed(e) ==
  /\ phase[e] # "off"
  /\ End(e, "killed")
  /\ UNCHANGED <<host, file, container, server>>

-----------------------------------------------------------------------------
(* aws-sso ecs server --docker, inside of the container.                   *)

(* A server that exits with an error is started again, a few times.        *)
Fail(c) ==
  IF c.retries < MaximumRetryCount
  THEN [c EXCEPT !.state = "starting", !.retries = @ + 1, !.uses = NoSecurity]
  ELSE [c EXCEPT !.state = "exited", !.uses = NoSecurity]

ReadSecurityConfig ==
  /\ container.state = "starting"
  /\ container' =
       CASE file = NoFile -> [container EXCEPT !.state = "bare", !.uses = NoSecurity]
         [] file = Torn -> Fail(container)
         [] OTHER -> [container EXCEPT !.state = "configured", !.uses = file]
  /\ UNCHANGED <<host, file, server, local>>

(* A file that could be read is removed.                                   *)
RemoveFileAndServe ==
  /\ container.state \in {"bare", "configured"}
  /\ file' = IF container.state = "configured" THEN NoFile ELSE file
  /\ container' = [container EXCEPT !.state = "serving"]
  /\ server' = [home |-> "container", uses |-> container.uses, loaded |-> FALSE, for |-> container.for]
  /\ UNCHANGED <<host, local>>

ServerCrash ==
  /\ server.home # "none"
  /\ server' = NoServer
  /\ container' = IF server.home = "container" THEN Fail(container) ELSE container
  /\ UNCHANGED <<host, file, local>>

-----------------------------------------------------------------------------
(* aws-sso ecs server, in the foreground: the port must be free.  With     *)
(* --default the credentials are there from the start.                     *)
ServerStart(disable, d) ==
  /\ server.home = "none" /\ container.state \notin {"starting", "bare", "configured", "serving"}
  /\ LET r == [stored |-> store, disable |-> disable] IN
       server' = [home |-> "host", uses |-> Enabled(r), loaded |-> d, for |-> r]
  /\ UNCHANGED <<host, file, container, local>>

ServerStop ==
  /\ server.home = "host"
  /\ server' = NoServer
  /\ UNCHANGED <<host, file, container, local>>

(* aws-sso setup ecs auth and ssl: set or delete one of the two.           *)
Setup ==
  /\ setups < MaxSetups
  /\ setups' = setups + 1
  /\ \/ \E t \in Token \union {NoToken} : store' = [store EXCEPT !.token = t]
     \/ \E b \in BOOLEAN : store' = [store EXCEPT !.ssl = b]
  /\ UNCHANGED <<file, container, server, local, overlapped>>

(* aws-sso ecs load, to the default slot.  A client that the server does   *)
(* not accept changes nothing, and neither does `ecs unload`, which runs   *)
(* without the secure store that newClient asks for the token, and panics. *)
ClientLoad ==
  /\ Accepts(server, store)
  /\ server' = [server EXCEPT !.loaded = TRUE]
  /\ UNCHANGED <<host, file, container, local>>

DeployNext ==
  \/ \E e \in Execution :
       \/ \E disable \in SUBSET Flags, d \in BOOLEAN : DockerStart(e, disable, d)
       \/ ContainerCreate(e) \/ OpenSecurityFile(e) \/ WriteSecurityConfig(e) \/ ContainerStart(e)
       \/ RemoveFile(e)
       \/ WaitUp(e) \/ LoadProfile(e) \/ Healthcheck(e)
       \/ StopOwn(e) \/ RemoveOwn(e) \/ DockerStop(e) \/ RemoveNamed(e) \/ Killed(e)
  \/ ReadSecurityConfig \/ RemoveFileAndServe \/ ServerCrash
  \/ \E disable \in SUBSET Flags, d \in BOOLEAN : ServerStart(disable, d)
  \/ ServerStop \/ Setup \/ ClientLoad


DeploySpec == DeployInit /\ [][DeployNext]_deployVars

-----------------------------------------------------------------------------
(* docs/ecs-commands.md: "aws-sso utilizing the same SecureStore as the    *)
(* ECS Server will automatically provide the necessary HTTP Auth header".  *)
(* A server that was started without --disable flags, that Docker has not  *)
(* had to restart and whose start it has not reported as failed, accepts   *)
(* aws-sso's clients as long as the secure store stays what it was,        *)
(* whatever starts, stops, failures and kills came before, one at a time.  *)
FirstLife ==
  server.home = "container" => container.retries = 0 /\ container.refused # "start"

ClientsAccepted ==
  /\ server.home # "none" /\ FirstLife /\ ~overlapped
  /\ server.for.disable = {} /\ server.for.stored = store
  => Accepts(server, store)

(* Once a container serves and nobody is starting another one, the token   *)
(* and the key are not left in the file, unless two executions have        *)
(* replaced each other's container.                                        *)
FileConsumed ==
  container.state = "serving" /\ Busy = {} /\ ~overlapped => file = NoFile

(* docker start that fails, after whichever of its steps, leaves no        *)
(* container of its own behind, whatever others do to it meanwhile: unless *)
(* Docker itself has failed to stop or to remove it, or has started it     *)
(* although it reported that it could not.                                 *)
FailureLeavesNothing ==
  [][\A e \in Execution :
       phase[e] = "cleanup" /\ outcome'[e] = "error" /\ Mine(e)' =>
         container'.refused # "none"]_deployVars

(* docker start --default without --disable flags that succeeds while the  *)
(* secure store stays what it was leaves a server with the credentials.  A *)
(* server that was started with no flags either, be it by another          *)
(* execution, also uses the token and the key pair that were asked for,    *)
(* although servers fail and are restarted without them.                   *)
StartedAsAsked ==
  [][\A e \in Execution :
       default[e] /\ outcome'[e] = "ok" /\ request[e].disable = {} /\ setups = 0 =>
         /\ server'.loaded
         /\ server'.for.disable = {} => server'.uses = Enabled(request[e])]_deployVars

(* The invariant of a deployment: the values of its parts, that its        *)
(* secrets are where the server is and nowhere else, and that its clients  *)
(* are let in.                                                             *)
DeployInv == DeployTypeOK /\ FileConsumed /\ ClientsAccepted
=============================================================================
