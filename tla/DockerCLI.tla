----------------------------- MODULE DockerCLI -----------------------------
(***************************************************************************)
(* docker-cli.py: commands that change what runs on the host.  Each is a   *)
(* list of docker commands; between two of them another operator's command *)
(* may run, the docker daemon may go or come back, and Ctrl-C may end it.  *)
(* Containers that crash are restarted by docker, and others on the host   *)
(* have containers of their own.                                           *)
(*                                                                         *)
(* `docker run` and compose give their container the same name, but make   *)
(* images of their own.                                                    *)
(***************************************************************************)
EXTENDS Integers, Sequences

CONSTANTS
    Operator,   \* invocations of the script
    Command,    \* what they may ask for
    Retries     \* of health_check

VARIABLES
    daemon,     \* the docker daemon answers
    env_file,   \* .env is there
    image,      \* image_name:latest is there
    container,  \* that of container_name: state, and who made it
    namesake,   \* a container whose name contains container_name: state, and whether
                \* it was created after that of container_name
    borrowed,   \* another container was made from the image
    op,         \* the invocations: command, step, tries of the health check, result
    excused,    \* history: docker ps did not tell, or a service came up since
    quiet       \* history: a full reset since which no other command and no daemon moved

otherVars == <<namesake, borrowed>>
hostVars == <<daemon, env_file, image, container, otherVars>>
vars     == <<hostVars, op, excused, quiet>>

-----------------------------------------------------------------------------
\* Methods as lists of steps, without those that change nothing here and whose failure
\* is passed over: the version of compose, the pruning of volumes and caches.
CheckDocker     == <<"info">>
CleanContainers == <<"stop", "rm">>
Build           == CheckDocker \o <<"Dockerfile", "build">>
RunWithCompose  == CheckDocker \o <<"compose file", "down", "up">>
Run             == CheckDocker \o <<"ps">> \o CleanContainers \o <<"run">>

\* Seeded bug: the image is removed before the container that uses it.
FullResetImageFirst ==
    <<"confirm", "rmi">> \o CleanContainers

FullReset ==
    <<"confirm">> \o CleanContainers \o <<"rmi">>

FullBuildAndRun(start) == CheckDocker \o Build \o start \o <<"health">>

\* The commands of main() that change what runs, build-and-run without and with
\* --no-compose.
Steps ==
    [full_reset    |-> FullReset,
     build         |-> Build,
     run           |-> Run,
     run_compose   |-> RunWithCompose,
     build_and_run |-> FullBuildAndRun(RunWithCompose),
     no_compose    |-> FullBuildAndRun(Run),
     stop          |-> CleanContainers]

ASSUME DockerAssumption ==
    /\ Command \subseteq DOMAIN Steps
    /\ Retries \in Nat \ {0}

\* The steps whose failure makes the method return False.  All others are reported
\* and passed over: the health check of a finished set-up too.
Required ==
    {"confirm", "info", "Dockerfile", "build", "compose file", "ps", "up", "run"}

Step(o) == IF op[o].at = "running" THEN Steps[op[o].command][op[o].step] ELSE "none"

Container(state, origin) == [state |-> state, origin |-> origin]

NoContainer == Container("none", "none")

\* Of a namesake that is not there nothing is remembered.
NoNamesake == [state |-> "none", newer |-> FALSE]
Namesakes  == {NoNamesake} \cup [state : {"running", "restarting"}, newer : BOOLEAN]

\* The invocation is over: where it was is forgotten.
Finish(o, result) ==
    op' = [op EXCEPT ![o] =
               [command |-> op[o].command, step |-> 1, tries |-> 0, at |-> result]]

\* Seeded bug: a step that fails is tried again, until it succeeds.
FailNever(o) == UNCHANGED op

\* The method returns False, and so do those that called it.
Fail(o) == Finish(o, "false")

\* The step is over, well or not.
Ends(o, ok) ==
    LET fails == ~ok /\ Step(o) \in Required
        last  == op[o].step = Len(Steps[op[o].command])
    IN  /\ \/ fails /\ Fail(o)
           \/ ~fails /\ last /\ Finish(o, "true")
           \/ ~fails /\ ~last /\ op' = [op EXCEPT ![o].step = op[o].step + 1]
        /\ quiet' = [p \in Operator |-> quiet[p] /\ p = o]

\* Those who have looked, and have not stopped the container yet, could not see that
\* it runs now.
ExcuseAll == [p \in Operator |-> excused[p] \/ Step(p) = "stop"]

\* The same, when a container of this operator may have started.
Starts(o, ok) ==
    /\ Ends(o, ok)
    /\ excused' = IF container'.state = "running" THEN ExcuseAll ELSE excused

\* docker ps lists those that run, restart or are paused.  restarting stands for both
\* of the latter: the code tests for "running" only.
Listed(c) == c.state \in {"running", "restarting"}

\* A container of container_name was made just now.
Overtaken == [state |-> namesake.state, newer |-> FALSE]

-----------------------------------------------------------------------------
Init ==
    /\ daemon \in BOOLEAN
    /\ env_file \in BOOLEAN
    /\ image \in BOOLEAN
    /\ container \in {NoContainer, Container("running", "compose"), Container("running", "run")}
    /\ namesake \in Namesakes
    /\ borrowed \in {FALSE, image}
    /\ op = [o \in Operator |->
                [command |-> "none", step |-> 1, tries |-> 0, at |-> "new"]]
    /\ excused = [o \in Operator |-> FALSE]
    /\ quiet = [o \in Operator |-> FALSE]

\* main(), and EnvConfig.load: without .env a default one is written, if it can be.
Begin(o, command) ==
    /\ op[o].at = "new"
    /\ op' = [op EXCEPT ![o].command = command, ![o].at = "running"]
    /\ env_file' \in {TRUE, env_file}
    /\ quiet' = [p \in Operator |-> p = o /\ command = "full_reset"]
    /\ UNCHANGED <<daemon, image, container, otherVars, excused>>

\* Is docker there, is the file there, is the operator sure.
Look(o) ==
    /\ \/ Step(o) = "info" /\ Ends(o, daemon)
       \/ /\ Step(o) \in {"Dockerfile", "compose file", "confirm"}
          /\ \E ok \in BOOLEAN : Ends(o, ok)
    /\ UNCHANGED <<hostVars, excused>>

\* Seeded bug: the state of the container is not looked at.
IsRunningNever == FALSE

\* get_container_info's containers[0]: the filter matches any part of a name, and docker
\* lists the newest first.
First ==
    IF Listed(namesake) /\ (namesake.newer \/ ~Listed(container)) THEN namesake ELSE container

IsRunning == daemon /\ First.state = "running"

\* Nothing is known when docker does not answer, and nothing of the container when
\* another one that does not run is listed before it.
Ps(o) ==
    /\ Step(o) = "ps"
    /\ Ends(o, ~IsRunning)
    /\ excused' = [excused EXCEPT ![o] =
           ~daemon \/ (namesake.state = "restarting" /\ namesake.newer)]
    /\ UNCHANGED hostVars

DockerStop(o) ==
    LET ok == daemon /\ container.state # "none"
    IN  /\ Step(o) = "stop"
        /\ Ends(o, ok)
        /\ container' = IF ok THEN [container EXCEPT !.state = "stopped"] ELSE container
        /\ excused' = [excused EXCEPT ![o] = FALSE]
        /\ UNCHANGED <<daemon, env_file, image, otherVars>>

DockerRm(o) ==
    LET ok == daemon /\ container.state = "stopped"
    IN  /\ Step(o) = "rm"
        /\ Ends(o, ok)
        /\ container' = IF ok THEN NoContainer ELSE container
        /\ UNCHANGED <<daemon, env_file, image, otherVars, excused>>

\* Docker keeps an image that a container was made from.  (The name may have passed to
\* a newer image since.)
DockerRmi(o) ==
    LET able == daemon /\ image
        used == container.origin = "run" \/ borrowed
    IN  /\ Step(o) = "rmi"
        /\ \E ok \in {able, able /\ ~used} :
              /\ Ends(o, ok)
              /\ image' = (image /\ ~ok)
        /\ UNCHANGED <<daemon, env_file, container, otherVars, excused>>

DockerBuild(o) ==
    /\ Step(o) = "build"
    /\ \E ok \in {daemon, FALSE} :
          /\ Ends(o, ok)
          /\ image' = (image \/ ok)
    /\ UNCHANGED <<daemon, env_file, container, otherVars, excused>>

\* It fails for want of the image, because the name is taken, or because the port is:
\* then the container was made, but does not run.
DockerRun(o) ==
    LET able == daemon /\ image /\ container = NoContainer
    IN  /\ Step(o) = "run"
        /\ \E ok \in {able, FALSE} :
              /\ container' = IF ~able THEN container
                              ELSE Container(IF ok THEN "running" ELSE "stopped", "run")
              /\ Starts(o, ok)
        /\ namesake' = IF able THEN Overtaken ELSE namesake
        /\ UNCHANGED <<daemon, env_file, image, borrowed>>

\* Compose removes what it made.
Down(o) ==
    LET ok == daemon /\ env_file
    IN  /\ Step(o) = "down"
        /\ Ends(o, ok)
        /\ container' = IF ok /\ container.origin = "compose" THEN NoContainer ELSE container
        /\ UNCHANGED <<daemon, env_file, image, otherVars, excused>>

\* up -d --build: the build, the other services or the port may fail, and after `down`
\* nothing runs then.  A container that is still there may be made anew or kept.
Up(o) ==
    LET able == daemon /\ env_file /\ container.origin # "run"
    IN  /\ Step(o) = "up"
        /\ \E ok \in {able, FALSE} :
              /\ container' \in
                    CASE ok             -> {Container("running", "compose")}
                      [] ~ok /\ able    -> {container, Container("stopped", "compose")}
                      [] OTHER          -> {container}
              /\ Starts(o, ok)
        /\ namesake' \in CASE ~able                    -> {namesake}
                            [] container = NoContainer  -> {Overtaken}
                            [] OTHER                    -> {Overtaken, namesake}
        /\ UNCHANGED <<daemon, env_file, image, borrowed>>

TriesAfter(o) == op[o].tries + 1

\* health_check, with `requests` installed: a try succeeds, or it was the last one, or
\* there is another.
Health(o) ==
    /\ Step(o) = "health"
    /\ \/ container.state = "running" /\ Ends(o, TRUE)
       \/ TriesAfter(o) = Retries /\ Ends(o, FALSE)
       \/ /\ TriesAfter(o) < Retries
          /\ op' = [op EXCEPT ![o].tries = TriesAfter(o)]
          /\ UNCHANGED quiet
    /\ UNCHANGED <<hostVars, excused>>

\* Ctrl-C.
Interrupt(o) ==
    /\ op[o].at = "running"
    /\ Finish(o, "interrupted")
    /\ UNCHANGED <<hostVars, excused, quiet>>

\* The daemon stops answering, or answers again.
Daemon ==
    /\ daemon' = ~daemon
    /\ quiet' = [o \in Operator |-> FALSE]
    /\ UNCHANGED <<env_file, image, container, otherVars, op, excused>>

\* The service crashes and docker restarts it (restart: unless-stopped), or somebody
\* pauses it and lets it go on.
Flap ==
    /\ daemon
    /\ \/ /\ container.state = "running"
          /\ container' = [container EXCEPT !.state = "restarting"]
          /\ UNCHANGED excused
       \/ /\ container.state = "restarting"
          /\ container' = [container EXCEPT !.state = "running"]
          /\ excused' = ExcuseAll
    /\ UNCHANGED <<daemon, env_file, image, otherVars, op, quiet>>

\* So do containers of others, which come and go.
Others ==
    /\ daemon
    /\ namesake' \in
          IF namesake = NoNamesake THEN {[state |-> "running", newer |-> TRUE]}
          ELSE {n \in Namesakes \ {namesake} : n = NoNamesake \/ n.newer = namesake.newer}
    /\ UNCHANGED <<daemon, env_file, image, container, borrowed, op, excused, quiet>>

Proceed(o) ==
    \/ Look(o) \/ Ps(o) \/ DockerStop(o) \/ DockerRm(o) \/ DockerRmi(o)
    \/ DockerBuild(o) \/ DockerRun(o) \/ Down(o) \/ Up(o) \/ Health(o)

Next ==
    \/ \E o \in Operator :
          \/ \E command \in Command : Begin(o, command)
          \/ Proceed(o)
          \/ Interrupt(o)
    \/ Daemon
    \/ Flap
    \/ Others

\* Docker's commands return, and the operator answers the question.
Spec == Init /\ [][Next]_vars /\ \A o \in Operator : WF_vars(Proceed(o))

-----------------------------------------------------------------------------
\* run() does not take down a service that runs, unless the service came up after run()
\* had looked, docker had not answered then, or had listed another container before it
\* that did not run.
RunningIsSpared ==
    [][\A o \in Operator :
          (/\ op[o].command \in {"run", "no_compose"}
           /\ op'[o] # op[o]
           /\ container.state = "running" /\ container'.state # "running")
              => excused[o]]_vars

\* A full reset that no other command and no daemon disturbs leaves neither container nor
\* image, whatever state the container was in and however it was started, except for an
\* image that somebody else's container was made from.
ResetRemoves ==
    \A o \in Operator :
        op[o].command = "full_reset" /\ op[o].at = "true" /\ quiet[o] /\ daemon =>
            container = NoContainer /\ (~image \/ borrowed)

\* Every invocation comes to its end, although its health check finds nobody.
CommandsEnd ==
    \A o \in Operator : op[o].at = "running" ~> op[o].at \in {"true", "false", "interrupted"}
=============================================================================
