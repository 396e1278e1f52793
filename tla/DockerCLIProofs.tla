-------------------------- MODULE DockerCLIProofs --------------------------
(***************************************************************************)
(* Proofs about DockerCLI for any number of operators at once and any      *)
(* number of tries of the health check.                                    *)
(***************************************************************************)
EXTENDS DockerCLI, TLAPS

\* Abbreviations, expanded everywhere.
USE DEF otherVars, Listed, NoNamesake, Fail

Commands == {"full_reset", "build", "run", "run_compose", "build_and_run", "no_compose", "stop"}

Invocation ==
    [command : Commands \cup {"none"},
     step    : Nat \ {0},
     tries   : Nat,
     at      : {"new", "running", "true", "false", "interrupted"}]

\* A container that is there was made by one of the two, and is up or not.
Containers ==
    {NoContainer} \cup {Container(s, origin) : s \in {"running", "restarting", "stopped"},
                                               origin \in {"run", "compose"}}

\* Invocations and the host are well formed; who runs is at a step of its command.
TypeOK ==
    /\ {daemon, env_file, image, borrowed} \subseteq BOOLEAN
    /\ container \in Containers
    /\ namesake \in Namesakes
    /\ op \in [Operator -> Invocation]
    /\ excused \in [Operator -> BOOLEAN]
    /\ quiet \in [Operator -> BOOLEAN]
    /\ \A o \in Operator : op[o].at = "running" =>
          op[o].command \in Commands /\ op[o].step \in DOMAIN Steps[op[o].command]

\* An invocation begins at its first step.
FirstSteps == \A o \in Operator : op[o].at = "new" => op[o].step = 1

\* Where run() takes a service down, there is none that it could have seen.
StopSpares ==
    \A o \in Operator :
        op[o].command \in {"run", "no_compose"} /\ Step(o) = "stop"
            /\ container.state = "running" => excused[o]

\* What an undisturbed full reset has done so far.
ResetProceeds ==
    \A o \in Operator : op[o].command = "full_reset" /\ quiet[o] /\ daemon =>
        /\ Step(o) = "rm" => ~Listed(container)
        /\ Step(o) = "rmi" => container = NoContainer
        /\ op[o].at = "true" => container = NoContainer /\ (~image \/ borrowed)

\* The inductive invariant.
IInv == TypeOK /\ FirstSteps /\ StopSpares /\ ResetProceeds

-----------------------------------------------------------------------------
\* All steps.
Words ==
    {"confirm", "info", "Dockerfile", "build", "compose file", "ps", "stop", "rm", "rmi",
     "run", "down", "up", "health"}

\* List u has the steps of lists s and t, one after the other.
IsJoined(s, t, u) ==
    /\ {s, t, u} \subseteq Seq(Words)
    /\ Len(u) = Len(s) + Len(t)
    /\ \A i \in 1 .. Len(s) : u[i] = s[i]
    /\ \A i \in 1 .. Len(t) : u[Len(s) + i] = t[i]

\* Then it is both of them.
LEMMA Joined == ASSUME NEW s, NEW t, NEW u, IsJoined(s, t, u) PROVE s \o t = u
BY DEF IsJoined

\* The lists of full_reset, run and build-and-run --no-compose, written out.
LEMMA FullResetList == FullReset = <<"confirm", "stop", "rm", "rmi">>
<1>1. <<"confirm">> \o <<"stop", "rm">>
         = <<"confirm", "stop", "rm">>
  <2> DEFINE s == <<"confirm">>
             t == <<"stop", "rm">>
             u == <<"confirm", "stop", "rm">>
  <2>1. IsJoined(s, t, u)
    BY DEF IsJoined, Words
  <2> QED
    BY <2>1, Joined
<1>2. <<"confirm", "stop", "rm">> \o <<"rmi">>
         = <<"confirm", "stop", "rm", "rmi">>
  <2> DEFINE s == <<"confirm", "stop", "rm">>
             t == <<"rmi">>
             u == <<"confirm", "stop", "rm", "rmi">>
  <2>1. IsJoined(s, t, u)
    BY DEF IsJoined, Words
  <2> QED
    BY <2>1, Joined
<1> QED
  BY <1>1, <1>2 DEF FullReset, CleanContainers

LEMMA RunList == Run = <<"info", "ps", "stop", "rm", "run">>
<1>1. <<"info">> \o <<"ps">>
         = <<"info", "ps">>
  <2> DEFINE s == <<"info">>
             t == <<"ps">>
             u == <<"info", "ps">>
  <2>1. IsJoined(s, t, u)
    BY DEF IsJoined, Words
  <2> QED
    BY <2>1, Joined
<1>2. <<"info", "ps">> \o <<"stop", "rm">>
         = <<"info", "ps", "stop", "rm">>
  <2> DEFINE s == <<"info", "ps">>
             t == <<"stop", "rm">>
             u == <<"info", "ps", "stop", "rm">>
  <2>1. IsJoined(s, t, u)
    BY DEF IsJoined, Words
  <2> QED
    BY <2>1, Joined
<1>3. <<"info", "ps", "stop", "rm">> \o <<"run">>
         = <<"info", "ps", "stop", "rm", "run">>
  <2> DEFINE s == <<"info", "ps", "stop", "rm">>
             t == <<"run">>
             u == <<"info", "ps", "stop", "rm", "run">>
  <2>1. IsJoined(s, t, u)
    BY DEF IsJoined, Words
  <2> QED
    BY <2>1, Joined
<1> QED
  BY <1>1, <1>2, <1>3 DEF Run, CheckDocker, CleanContainers

LEMMA NoComposeList ==
    FullBuildAndRun(Run) =
        <<"info", "info", "Dockerfile", "build", "info", "ps", "stop", "rm", "run", "health">>
<1>1. <<"info">> \o <<"Dockerfile", "build">>
         = <<"info", "Dockerfile", "build">>
  <2> DEFINE s == <<"info">>
             t == <<"Dockerfile", "build">>
             u == <<"info", "Dockerfile", "build">>
  <2>1. IsJoined(s, t, u)
    BY DEF IsJoined, Words
  <2> QED
    BY <2>1, Joined
<1>2. <<"info">> \o <<"info", "Dockerfile", "build">>
         = <<"info", "info", "Dockerfile", "build">>
  <2> DEFINE s == <<"info">>
             t == <<"info", "Dockerfile", "build">>
             u == <<"info", "info", "Dockerfile", "build">>
  <2>1. IsJoined(s, t, u)
    BY DEF IsJoined, Words
  <2> QED
    BY <2>1, Joined
<1>3. <<"info", "info", "Dockerfile", "build">> \o <<"info", "ps", "stop", "rm", "run">>
         = <<"info", "info", "Dockerfile", "build", "info", "ps", "stop", "rm", "run">>
  <2> DEFINE s == <<"info", "info", "Dockerfile", "build">>
             t == <<"info", "ps", "stop", "rm", "run">>
             u == <<"info", "info", "Dockerfile", "build", "info", "ps", "stop", "rm", "run">>
  <2>1. IsJoined(s, t, u)
    BY DEF IsJoined, Words
  <2> QED
    BY <2>1, Joined
<1>4. <<"info", "info", "Dockerfile", "build", "info", "ps", "stop", "rm", "run">> \o <<"health">>
         = <<"info", "info", "Dockerfile", "build", "info", "ps", "stop", "rm", "run", "health">>
  <2> DEFINE s == <<"info", "info", "Dockerfile", "build", "info", "ps", "stop", "rm", "run">>
             t == <<"health">>
             u == <<"info", "info", "Dockerfile", "build", "info", "ps", "stop", "rm", "run", "health">>
  <2>1. IsJoined(s, t, u)
    BY DEF IsJoined, Words
  <2> QED
    BY <2>1, Joined
<1> QED
  BY <1>1, <1>2, <1>3, <1>4, RunList DEF FullBuildAndRun, Build, CheckDocker

\* Every command has a first step.
LEMMA Lists ==
    /\ DOMAIN Steps = Commands
    /\ \A c \in Commands : Steps[c] \in Seq(Words) /\ Len(Steps[c]) \in Nat \ {0}
    /\ Steps["full_reset"] = <<"confirm", "stop", "rm", "rmi">>
    /\ Steps["run"] = <<"info", "ps", "stop", "rm", "run">>
    /\ Steps["no_compose"] =
          <<"info", "info", "Dockerfile", "build", "info", "ps", "stop", "rm", "run", "health">>
<1>1. \A s, t \in Seq(Words) :
          Len(s) \in Nat \ {0} => s \o t \in Seq(Words) /\ Len(s \o t) \in Nat \ {0}
  OBVIOUS
<1>2. ASSUME NEW w \in Words
      PROVE  <<w>> \in Seq(Words) /\ Len(<<w>>) \in Nat \ {0}
  OBVIOUS
<1>3. ASSUME NEW v \in Words, NEW w \in Words
      PROVE  <<v, w>> \in Seq(Words) /\ Len(<<v, w>>) \in Nat \ {0}
  OBVIOUS
<1>4. /\ CheckDocker \in Seq(Words) /\ Len(CheckDocker) \in Nat \ {0}
      /\ CleanContainers \in Seq(Words) /\ Len(CleanContainers) \in Nat \ {0}
  BY <1>2, <1>3 DEF CheckDocker, CleanContainers, Words
<1>5. /\ Build \in Seq(Words) /\ Len(Build) \in Nat \ {0}
      /\ RunWithCompose \in Seq(Words) /\ Len(RunWithCompose) \in Nat \ {0}
  <2>1. <<"Dockerfile", "build">> \in Seq(Words) /\ <<"compose file", "down", "up">> \in Seq(Words)
    BY DEF Words
  <2> QED
    BY <1>1, <1>4, <2>1 DEF Build, RunWithCompose
<1>6. ASSUME NEW start \in Seq(Words)
      PROVE  /\ FullBuildAndRun(start) \in Seq(Words)
             /\ Len(FullBuildAndRun(start)) \in Nat \ {0}
  <2>1. <<"health">> \in Seq(Words)
    <3>1. "health" \in Words
      BY DEF Words
    <3> QED
      BY <3>1, <1>2
  <2> QED
    BY <1>1, <1>4, <1>5, <2>1 DEF FullBuildAndRun
<1>7. /\ FullReset \in Seq(Words) /\ Len(FullReset) \in Nat \ {0}
      /\ Run \in Seq(Words) /\ Len(Run) \in Nat \ {0}
  BY FullResetList, RunList DEF Words
<1>8. /\ Steps["full_reset"] = FullReset
      /\ Steps["build"] = Build
      /\ Steps["run"] = Run
      /\ Steps["run_compose"] = RunWithCompose
      /\ Steps["build_and_run"] = FullBuildAndRun(RunWithCompose)
      /\ Steps["no_compose"] = FullBuildAndRun(Run)
      /\ Steps["stop"] = CleanContainers
      /\ DOMAIN Steps = Commands
  BY DEF Steps, Commands
<1>9. ASSUME NEW c \in Commands
      PROVE  Steps[c] \in Seq(Words) /\ Len(Steps[c]) \in Nat \ {0}
  <2>1. Steps[c] \in {FullReset, Build, Run, RunWithCompose, FullBuildAndRun(RunWithCompose),
                      FullBuildAndRun(Run), CleanContainers}
    BY <1>8 DEF Commands
  <2> QED
    BY <2>1, <1>4, <1>5, <1>6, <1>7
<1> QED
  BY <1>8, <1>9, FullResetList, RunList, NoComposeList

\* How a step ends an invocation or moves it on.
LEMMA Ending ==
    ASSUME TypeOK, NEW o \in Operator, op[o].at = "running", NEW ok \in BOOLEAN, Ends(o, ok)
    PROVE  /\ op' \in [Operator -> Invocation]
           /\ \A p \in Operator \ {o} : op'[p] = op[p]
           /\ op'[o].command = op[o].command
           /\ op'[o].at = "running" =>
                 op'[o].step = op[o].step + 1 /\ op'[o].step \in DOMAIN Steps[op[o].command]
           /\ op'[o].at = "true" => op[o].step = Len(Steps[op[o].command])
           /\ op'[o].at # "false" => ok \/ Step(o) \notin Required
           /\ op'[o].at \in {"running", "true", "false"}
           /\ quiet' \in [Operator -> BOOLEAN]
           /\ \A p \in Operator \ {o} : ~quiet'[p]
           /\ quiet'[o] => quiet[o]
<1> DEFINE x    == op[o]
           list == Steps[x.command]
           y    == op'[o]
<1>1. /\ x \in Invocation /\ x.command \in Commands /\ x.step \in DOMAIN list
      /\ list \in Seq(Words) /\ Len(list) \in Nat
  BY Lists DEF TypeOK
<1>2. x.step \in 1 .. Len(list)
  BY <1>1
<1>3. \A p \in Operator \ {o} : op'[p] = op[p]
  BY DEF Ends, Finish, TypeOK
<1> DEFINE over(result) == [command |-> x.command, step |-> 1, tries |-> 0, at |-> result]
<1>4. \/ y = over("false")
      \/ /\ ok \/ Step(o) \notin Required
         /\ x.step = Len(list) /\ y = over("true")
      \/ /\ ok \/ Step(o) \notin Required
         /\ x.step # Len(list) /\ y = [x EXCEPT !.step = x.step + 1]
  BY DEF Ends, Finish, TypeOK
<1> HIDE DEF list, y
<1>5. /\ y \in Invocation /\ y.command = x.command
      /\ y.at \in {"running", "true", "false"}
      /\ y.at = "running" => y.step = x.step + 1 /\ y.step \in 1 .. Len(list)
      /\ y.at = "true" => x.step = Len(list)
      /\ y.at # "false" => ok \/ Step(o) \notin Required
  BY <1>1, <1>2, <1>4, SMTT(20) DEF Invocation
<1>6. op' \in [Operator -> Invocation]
  <2>1. op' = [op EXCEPT ![o] = y]
    BY DEF Ends, Finish, TypeOK, y
  <2> QED
    BY <2>1, <1>5 DEF TypeOK
<1>7. /\ quiet' \in [Operator -> BOOLEAN]
      /\ \A p \in Operator \ {o} : ~quiet'[p]
      /\ quiet'[o] => quiet[o]
  BY DEF Ends, TypeOK
<1> QED
  BY <1>1, <1>3, <1>5, <1>6, <1>7 DEF list, y

\* Which steps come before those the invariant is about.
LEMMA Order ==
    ASSUME TypeOK, NEW o \in Operator, op[o].at = "running", NEW ok \in BOOLEAN, Ends(o, ok)
    PROVE  /\ op[o].command = "full_reset" =>
                 /\ Step(o)' = "rm" => Step(o) = "stop"
                 /\ Step(o)' = "rmi" => Step(o) = "rm"
                 /\ op'[o].at = "true" => Step(o) = "rmi"
           /\ op[o].command \in {"run", "no_compose"} =>
                 (Step(o)' = "stop" => Step(o) = "ps")
<1> DEFINE x == op[o]
           y == op'[o]
<1>1. /\ y.command = x.command
      /\ y.at = "running" => y.step = x.step + 1 /\ y.step \in DOMAIN Steps[x.command]
      /\ y.at = "true" => x.step = Len(Steps[x.command])
  BY Ending
<1>2. x.step \in DOMAIN Steps[x.command] /\ x.step \in Nat \ {0}
  BY DEF TypeOK, Invocation
<1>3. /\ Step(o) = Steps[x.command][x.step]
      /\ y.at = "running" => Step(o)' = Steps[x.command][x.step + 1]
      /\ y.at # "running" => Step(o)' = "none"
  BY <1>1 DEF Step
<1>4. CASE x.command = "full_reset"
  <2>1. Steps[x.command] = <<"confirm", "stop", "rm", "rmi">>
    BY <1>4, Lists
  <2>2. x.step \in 1 .. 4 /\ (y.at = "running" => x.step + 1 \in 1 .. 4)
    BY <2>1, <1>1, <1>2
  <2> HIDE DEF y
  <2> QED
    BY <1>1, <1>2, <1>3, <1>4, <2>1, <2>2 DEF y
<1>5. CASE x.command = "run"
  <2>1. Steps[x.command] = <<"info", "ps", "stop", "rm", "run">>
    BY <1>5, Lists
  <2>2. x.step \in 1 .. 5 /\ (y.at = "running" => x.step + 1 \in 1 .. 5)
    BY <2>1, <1>1, <1>2
  <2> QED
    BY <1>1, <1>2, <1>3, <1>5, <2>1, <2>2
<1>6. CASE x.command = "no_compose"
  <2>1. Steps[x.command] =
            <<"info", "info", "Dockerfile", "build", "info", "ps", "stop", "rm", "run", "health">>
    BY <1>6, Lists
  <2>2. x.step \in 1 .. 10 /\ (y.at = "running" => x.step + 1 \in 1 .. 10)
    BY <2>1, <1>1, <1>2
  <2> QED
    BY <1>1, <1>2, <1>3, <1>6, <2>1, <2>2
<1> QED
  BY <1>4, <1>5, <1>6

\* run() and build-and-run --no-compose never call compose.
LEMMA NoDown ==
    ASSUME TypeOK, NEW o \in Operator, op[o].command \in {"run", "no_compose"}
    PROVE  Step(o) \notin {"down", "up"}
<1> SUFFICES ASSUME op[o].at = "running"
             PROVE  Steps[op[o].command][op[o].step] \notin {"down", "up"}
  BY DEF Step
<1>1. op[o].step \in DOMAIN Steps[op[o].command]
  BY DEF TypeOK
<1>2. CASE op[o].command = "run"
  BY <1>1, <1>2, Lists, SMTT(20)
<1>3. CASE op[o].command = "no_compose"
  BY <1>1, <1>3, Lists, SMTT(20)
<1> QED
  BY <1>2, <1>3

-----------------------------------------------------------------------------
\* What a step of operator o owes: to the others an excuse if it starts a container, to
\* run() the look it had, to a full reset its part of the work.
Owes(o, ok) ==
    /\ daemon' = daemon /\ borrowed' = borrowed
    /\ \A p \in Operator \ {o} :
          /\ excused[p] => excused'[p]
          /\ Step(p) = "stop" /\ container'.state = "running" =>
                container.state = "running" \/ excused'[p]
    /\ Step(o) = "ps" /\ ok /\ container'.state = "running" => excused'[o]
    /\ daemon =>
          /\ Step(o) = "stop" => ~Listed(container')
          /\ Step(o) = "rm" /\ ~Listed(container) => container' = NoContainer
          /\ Step(o) = "rmi" /\ container = NoContainer =>
                container' = NoContainer /\ (~image' \/ borrowed)

LEMMA StepKeeps ==
    ASSUME IInv, NEW o \in Operator, NEW ok \in BOOLEAN, op[o].at = "running",
           Ends(o, ok), Owes(o, ok)
    PROVE  FirstSteps' /\ StopSpares' /\ ResetProceeds'
<1> USE DEF IInv
<1>1. \A p \in Operator \ {o} : op'[p] = op[p] /\ Step(p)' = Step(p) /\ ~quiet'[p]
  BY Ending DEF Step
<1>2. op'[o].command = op[o].command /\ (quiet'[o] => quiet[o])
  BY Ending
<1>3. StopSpares'
  <2> SUFFICES ASSUME NEW p \in Operator, op'[p].command \in {"run", "no_compose"},
                      Step(p)' = "stop", container'.state = "running"
               PROVE  excused'[p]
    BY DEF StopSpares
  <2>1. CASE p = o
    <3>1. Step(o) = "ps"
      BY <2>1, <1>2, Order
    <3>2. op'[o].at = "running"
      BY <2>1 DEF Step
    <3>3. ok
      BY <3>1, <3>2, Ending DEF Required
    <3> QED
      BY <2>1, <3>1, <3>3 DEF Owes
  <2>2. CASE p # o
    BY <2>2, <1>1 DEF Owes, StopSpares
  <2> QED
    BY <2>1, <2>2
<1>4. ResetProceeds'
  <2> SUFFICES ASSUME NEW p \in Operator, op'[p].command = "full_reset", quiet'[p], daemon'
               PROVE  /\ Step(p)' = "rm" => ~Listed(container')
                      /\ Step(p)' = "rmi" => container' = NoContainer
                      /\ op'[p].at = "true" => container' = NoContainer /\ (~image' \/ borrowed')
    BY DEF ResetProceeds, Listed
  <2>1. p = o
    BY <1>1
  <2>2. op[o].command = "full_reset" /\ quiet[o] /\ daemon
    BY <2>1, <1>2 DEF Owes
  <2>3. /\ Step(o) = "rm" => ~Listed(container)
        /\ Step(o) = "rmi" => container = NoContainer
    BY <2>2 DEF ResetProceeds
  <2>4. /\ Step(o)' = "rm" => Step(o) = "stop"
        /\ Step(o)' = "rmi" => Step(o) = "rm"
        /\ op'[o].at = "true" => Step(o) = "rmi"
    BY <2>2, Order
  <2> QED
    BY <2>1, <2>2, <2>3, <2>4 DEF Owes
<1>5. FirstSteps'
  BY <1>1, Ending DEF FirstSteps
<1> QED
  BY <1>3, <1>4, <1>5

\* A step that leaves host and excuses well formed leaves everything so.
LEMMA StepTyped ==
    ASSUME TypeOK, NEW o \in Operator, NEW ok \in BOOLEAN, op[o].at = "running", Ends(o, ok),
           {daemon', env_file', image', borrowed'} \subseteq BOOLEAN,
           container' \in Containers, namesake' \in Namesakes, excused' \in [Operator -> BOOLEAN]
    PROVE  TypeOK'
<1>1. \A p \in Operator : op'[p].at = "running" =>
          op'[p].command \in Commands /\ op'[p].step \in DOMAIN Steps[op'[p].command]
  <2> SUFFICES ASSUME NEW p \in Operator, op'[p].at = "running"
               PROVE  op'[p].command \in Commands /\ op'[p].step \in DOMAIN Steps[op'[p].command]
    OBVIOUS
  <2>1. CASE p = o
    BY <2>1, Ending DEF TypeOK
  <2>2. CASE p # o
    BY <2>2, Ending DEF TypeOK
  <2> QED
    BY <2>1, <2>2
<1>2. op' \in [Operator -> Invocation] /\ quiet' \in [Operator -> BOOLEAN]
  BY Ending
<1> QED
  BY <1>1, <1>2 DEF TypeOK

\* Who is at a step is running.
\* A namesake that is no longer the newest is one all the same.
LEMMA OvertakenFits == ASSUME namesake \in Namesakes PROVE Overtaken \in Namesakes
<1>1. CASE namesake = NoNamesake
  BY <1>1 DEF Overtaken, Namesakes
<1>2. CASE namesake \in [state : {"running", "restarting"}, newer : BOOLEAN]
  <2>1. Overtaken \in [state : {"running", "restarting"}, newer : BOOLEAN]
    BY <1>2 DEF Overtaken
  <2> QED
    BY <2>1 DEF Namesakes
<1> QED
  BY <1>1, <1>2 DEF Namesakes

LEMMA AtStep == ASSUME NEW o \in Operator, Step(o) # "none" PROVE op[o].at = "running"
BY DEF Step

\* Whether the container runs is only changed by docker stop, docker run and compose.
LEMMA LookKeeps ==
    ASSUME IInv, NEW o \in Operator, Look(o)
    PROVE  IInv' /\ container' = container
<1>1. PICK ok \in BOOLEAN : Ends(o, ok)
  BY DEF Look, IInv, TypeOK
<1>2. op[o].at = "running" /\ Step(o) \notin {"ps", "stop", "rm", "rmi"}
  BY AtStep DEF Look
<1>3. TypeOK'
  BY <1>1, <1>2, StepTyped DEF Look, hostVars, IInv, TypeOK
<1>4. Owes(o, ok)
  BY <1>2 DEF Look, hostVars, Owes
<1> QED
  BY <1>1, <1>2, <1>3, <1>4, StepKeeps DEF IInv, Look, hostVars

LEMMA PsKeeps ==
    ASSUME IInv, NEW o \in Operator, Ps(o)
    PROVE  IInv' /\ container' = container
<1>1. op[o].at = "running" /\ Step(o) = "ps" /\ Ends(o, ~IsRunning)
  BY AtStep DEF Ps
<1>2. (~IsRunning) \in BOOLEAN
  BY DEF IsRunning
<1> DEFINE hidden == ~daemon \/ (namesake.state = "restarting" /\ namesake.newer)
<1>3. excused' = [excused EXCEPT ![o] = hidden] /\ UNCHANGED hostVars
  BY DEF Ps
<1>4. hidden \in BOOLEAN
  BY DEF IInv, TypeOK, Namesakes
<1>5. TypeOK'
  <2> HIDE DEF hidden
  <2> QED
    BY <1>1, <1>2, <1>3, <1>4, StepTyped DEF hostVars, otherVars, IInv, TypeOK
<1>6. ~IsRunning /\ container.state = "running" => hidden
  BY DEF IsRunning, First, Listed, IInv, TypeOK, Namesakes
<1>7. Owes(o, ~IsRunning)
  <2> HIDE DEF hidden
  <2> QED
    BY <1>1, <1>3, <1>6 DEF hostVars, otherVars, Owes, IInv, TypeOK
<1> QED
  BY <1>1, <1>2, <1>3, <1>5, <1>7, StepKeeps DEF IInv, hostVars

LEMMA StopKeeps ==
    ASSUME IInv, NEW o \in Operator, DockerStop(o)
    PROVE  IInv'
<1> DEFINE ok == daemon /\ container.state # "none"
<1>1. /\ op[o].at = "running" /\ Step(o) = "stop" /\ Ends(o, ok) /\ ok \in BOOLEAN
      /\ container' = IF ok THEN [container EXCEPT !.state = "stopped"] ELSE container
      /\ excused' = [excused EXCEPT ![o] = FALSE]
      /\ UNCHANGED <<daemon, env_file, image, otherVars>>
  BY AtStep DEF DockerStop
<1>2. /\ container' \in Containers
      /\ daemon => ~Listed(container')
      /\ container'.state = "running" => container.state = "running"
  BY <1>1 DEF IInv, TypeOK, Containers, NoContainer, Container
<1>3. TypeOK'
  BY <1>1, <1>2, StepTyped DEF IInv, TypeOK
<1>4. Owes(o, ok)
  BY <1>1, <1>2 DEF Owes, IInv, TypeOK
<1> QED
  BY <1>1, <1>3, <1>4, StepKeeps DEF IInv

LEMMA RmKeeps ==
    ASSUME IInv, NEW o \in Operator, DockerRm(o)
    PROVE  IInv' /\ (container.state = "running" => container' = container)
<1> DEFINE ok == daemon /\ container.state = "stopped"
<1>1. /\ op[o].at = "running" /\ Step(o) = "rm" /\ Ends(o, ok) /\ ok \in BOOLEAN
      /\ container' = IF ok THEN NoContainer ELSE container
      /\ UNCHANGED <<daemon, env_file, image, otherVars, excused>>
  BY AtStep DEF DockerRm
<1>2. /\ container' \in Containers
      /\ container'.state = "running" => container.state = "running"
      /\ daemon /\ ~Listed(container) => container' = NoContainer
  BY <1>1 DEF IInv, TypeOK, Containers, NoContainer, Container
<1>3. TypeOK'
  BY <1>1, <1>2, StepTyped DEF IInv, TypeOK
<1>4. Owes(o, ok)
  BY <1>1, <1>2 DEF Owes
<1> QED
  BY <1>1, <1>3, <1>4, StepKeeps DEF IInv

LEMMA RmiKeeps ==
    ASSUME IInv, NEW o \in Operator, DockerRmi(o)
    PROVE  IInv' /\ container' = container
<1> DEFINE able == daemon /\ image
           used == container.origin = "run" \/ borrowed
<1>1. PICK ok \in {able, able /\ ~used} : Ends(o, ok) /\ image' = (image /\ ~ok)
  BY DEF DockerRmi
<1>2. /\ op[o].at = "running" /\ Step(o) = "rmi" /\ ok \in BOOLEAN
      /\ UNCHANGED <<daemon, env_file, container, otherVars, excused>>
  BY AtStep DEF DockerRmi, IInv, TypeOK
<1>3. ASSUME daemon, container = NoContainer
      PROVE  ~image' \/ borrowed
  <2>1. ~borrowed => ok = image
    BY <1>1, <1>3 DEF NoContainer, Container, IInv, TypeOK
  <2> HIDE DEF able, used
  <2> QED
    BY <1>1, <2>1
<1>4. TypeOK'
  BY <1>1, <1>2, StepTyped DEF otherVars, IInv, TypeOK
<1>5. Owes(o, ok)
  BY <1>2, <1>3 DEF Owes, otherVars
<1> QED
  BY <1>1, <1>2, <1>4, <1>5, StepKeeps DEF IInv

LEMMA BuildKeeps ==
    ASSUME IInv, NEW o \in Operator, DockerBuild(o)
    PROVE  IInv' /\ container' = container
<1>1. PICK ok \in {daemon, FALSE} : Ends(o, ok) /\ image' = (image \/ ok)
  BY DEF DockerBuild
<1>2. /\ op[o].at = "running" /\ Step(o) = "build" /\ ok \in BOOLEAN
      /\ UNCHANGED <<daemon, env_file, container, otherVars, excused>>
  BY AtStep DEF DockerBuild, IInv, TypeOK
<1>3. TypeOK'
  BY <1>1, <1>2, StepTyped DEF IInv, TypeOK
<1>4. Owes(o, ok)
  BY <1>2 DEF Owes
<1> QED
  BY <1>1, <1>2, <1>3, <1>4, StepKeeps DEF IInv

LEMMA RunKeeps ==
    ASSUME IInv, NEW o \in Operator, DockerRun(o)
    PROVE  IInv' /\ (container.state = "running" => container' = container)
<1> DEFINE able == daemon /\ image /\ container = NoContainer
<1>1. PICK ok \in {able, FALSE} :
          /\ container' = IF ~able THEN container
                          ELSE Container(IF ok THEN "running" ELSE "stopped", "run")
          /\ Starts(o, ok)
  BY DEF DockerRun
<1>2. /\ op[o].at = "running" /\ Step(o) = "run" /\ ok \in BOOLEAN /\ Ends(o, ok)
      /\ UNCHANGED <<daemon, env_file, image, borrowed>>
      /\ namesake' \in Namesakes
  <2>1. namesake \in Namesakes /\ Overtaken \in Namesakes
    BY OvertakenFits DEF IInv, TypeOK
  <2> QED
    BY <1>1, <2>1, AtStep DEF DockerRun, Starts
<1>3. /\ container' \in Containers
      /\ container.state = "running" => container' = container
  BY <1>1, <1>2 DEF IInv, TypeOK, Containers, NoContainer, Container
<1>4. /\ excused' \in [Operator -> BOOLEAN]
      /\ \A p \in Operator \ {o} :
            /\ excused[p] => excused'[p]
            /\ Step(p) = "stop" /\ container'.state = "running" => excused'[p]
  BY <1>1 DEF Starts, ExcuseAll, IInv, TypeOK
<1>5. TypeOK'
  BY <1>2, <1>3, <1>4, StepTyped DEF IInv, TypeOK
<1>6. Owes(o, ok)
  BY <1>2, <1>4 DEF Owes
<1> QED
  BY <1>2, <1>3, <1>5, <1>6, StepKeeps DEF IInv

LEMMA DownKeeps ==
    ASSUME IInv, NEW o \in Operator, Down(o)
    PROVE  IInv' /\ Step(o) = "down"
<1> DEFINE ok == daemon /\ env_file
<1>1. /\ op[o].at = "running" /\ Step(o) = "down" /\ Ends(o, ok) /\ ok \in BOOLEAN
      /\ container' = IF ok /\ container.origin = "compose" THEN NoContainer ELSE container
      /\ UNCHANGED <<daemon, env_file, image, otherVars, excused>>
  BY AtStep DEF Down, IInv, TypeOK
<1>2. container' \in Containers /\ (container'.state = "running" => container.state = "running")
  BY <1>1 DEF IInv, TypeOK, Containers, NoContainer, Container
<1>3. TypeOK'
  BY <1>1, <1>2, StepTyped DEF IInv, TypeOK
<1>4. Owes(o, ok)
  BY <1>1, <1>2 DEF Owes
<1> QED
  BY <1>1, <1>3, <1>4, StepKeeps DEF IInv

LEMMA UpKeeps ==
    ASSUME IInv, NEW o \in Operator, Up(o)
    PROVE  IInv' /\ Step(o) = "up"
<1> DEFINE able == daemon /\ env_file /\ container.origin # "run"
<1>1. PICK ok \in {able, FALSE} :
          /\ container' \in CASE ok          -> {Container("running", "compose")}
                              [] ~ok /\ able -> {container, Container("stopped", "compose")}
                              [] OTHER       -> {container}
          /\ Starts(o, ok)
  BY DEF Up
<1>2. /\ op[o].at = "running" /\ Step(o) = "up" /\ ok \in BOOLEAN /\ Ends(o, ok)
      /\ UNCHANGED <<daemon, env_file, image, borrowed>>
  BY <1>1, AtStep DEF Up, Starts, IInv, TypeOK
<1>3. container' \in {container, Container("running", "compose"), Container("stopped", "compose")}
  BY <1>1
<1>4. container' \in Containers
  BY <1>3 DEF IInv, TypeOK, Containers
<1>5. /\ excused' \in [Operator -> BOOLEAN]
      /\ \A p \in Operator \ {o} :
            /\ excused[p] => excused'[p]
            /\ Step(p) = "stop" /\ container'.state = "running" => excused'[p]
  BY <1>1 DEF Starts, ExcuseAll, IInv, TypeOK
<1>6. TypeOK'
  <2>1. namesake' \in {Overtaken, namesake}
    BY DEF Up
  <2>2. namesake' \in Namesakes
    BY <2>1, OvertakenFits DEF IInv, TypeOK
  <2> QED
    BY <1>2, <1>4, <1>5, <2>2, StepTyped DEF IInv, TypeOK
<1>7. Owes(o, ok)
  BY <1>2, <1>5 DEF Owes
<1> QED
  BY <1>2, <1>6, <1>7, StepKeeps DEF IInv

LEMMA HealthKeeps ==
    ASSUME IInv, NEW o \in Operator, Health(o)
    PROVE  IInv' /\ container' = container
<1>1. /\ op[o].at = "running" /\ Step(o) = "health"
      /\ UNCHANGED <<daemon, env_file, image, container, otherVars, excused>>
  BY AtStep DEF Health, hostVars
<1>2. ASSUME NEW ok \in BOOLEAN, Ends(o, ok)
      PROVE  IInv'
  <2>1. TypeOK'
    BY <1>1, <1>2, StepTyped DEF IInv, TypeOK
  <2>2. Owes(o, ok)
    BY <1>1 DEF Owes
  <2> QED
    BY <1>1, <1>2, <2>1, <2>2, StepKeeps DEF IInv
<1>3. ASSUME op' = [op EXCEPT ![o].tries = TriesAfter(o)], UNCHANGED quiet
      PROVE  IInv'
  <2>1. /\ op' \in [Operator -> Invocation]
        /\ \A p \in Operator : /\ op'[p].command = op[p].command
                               /\ op'[p].at = op[p].at
                               /\ op'[p].step = op[p].step
    BY <1>3 DEF TriesAfter, Invocation, IInv, TypeOK
  <2>2. \A p \in Operator : Step(p)' = Step(p)
    BY <2>1 DEF Step
  <2>3. TypeOK'
    BY <1>1, <1>3, <2>1 DEF IInv, TypeOK
  <2>4. FirstSteps' /\ StopSpares' /\ ResetProceeds'
    BY <1>1, <1>3, <2>1, <2>2 DEF IInv, FirstSteps, StopSpares, ResetProceeds
  <2> QED
    BY <2>3, <2>4 DEF IInv
<1> QED
  BY <1>1, <1>2, <1>3 DEF Health

LEMMA ProceedKeeps == ASSUME IInv, NEW o \in Operator, Proceed(o) PROVE IInv'
BY LookKeeps, PsKeeps, StopKeeps, RmKeeps, RmiKeeps, BuildKeeps, RunKeeps, DownKeeps, UpKeeps,
   HealthKeeps DEF Proceed

\* A new invocation is at its first step, which takes nothing down.
LEMMA BeginKeeps ==
    ASSUME IInv, NEW o \in Operator, NEW command \in Command, Begin(o, command)
    PROVE  IInv'
<1>1. /\ op' = [op EXCEPT ![o].command = command, ![o].at = "running"]
      /\ env_file' \in {TRUE, env_file}
      /\ quiet' = [p \in Operator |-> p = o /\ command = "full_reset"]
      /\ UNCHANGED <<daemon, image, container, otherVars, excused>>
  BY DEF Begin
<1>2. command \in Commands /\ Steps[command] \in Seq(Words) /\ Len(Steps[command]) \in Nat \ {0}
  BY DockerAssumption, Lists
<1>3. /\ op' \in [Operator -> Invocation]
      /\ op'[o].command = command /\ op'[o].at = "running"
      /\ op'[o].step = 1
      /\ \A p \in Operator \ {o} : op'[p] = op[p] /\ Step(p)' = Step(p)
  <2>1. op[o].step = 1
    BY DEF IInv, FirstSteps, Begin
  <2> DEFINE x == [op[o] EXCEPT !.command = command, !.at = "running"]
  <2>2. op \in [Operator -> Invocation] /\ op' = [op EXCEPT ![o] = x]
    BY <1>1 DEF IInv, TypeOK
  <2>3. x \in Invocation /\ x.command = command /\ x.at = "running" /\ x.step = 1
    BY <1>2, <2>1, <2>2 DEF Invocation
  <2> HIDE DEF x
  <2>4. op'[o] = x /\ \A p \in Operator \ {o} : op'[p] = op[p]
    BY <2>2
  <2>5. op' \in [Operator -> Invocation]
    BY <2>2, <2>3
  <2> QED
    BY <2>3, <2>4, <2>5 DEF Step
<1>4. Step(o)' = Steps[command][1]
  BY <1>3 DEF Step
<1>5. TypeOK'
  <2>1. 1 \in DOMAIN Steps[command]
    BY <1>2
  <2> QED
    BY <1>1, <1>2, <1>3, <2>1 DEF IInv, TypeOK
<1>6. StopSpares'
  <2>1. command \in {"run", "no_compose"} => Step(o)' # "stop"
    BY <1>4, Lists
  <2> QED
    BY <1>1, <1>3, <2>1 DEF IInv, StopSpares
<1>7. ResetProceeds'
  <2>1. command = "full_reset" => Step(o)' = "confirm"
    BY <1>4, Lists
  <2>2. \A p \in Operator : quiet'[p] => p = o /\ command = "full_reset"
    BY <1>1
  <2> QED
    BY <1>3, <2>1, <2>2 DEF ResetProceeds
<1> QED
  BY <1>3, <1>5, <1>6, <1>7 DEF IInv, FirstSteps

LEMMA InterruptKeeps == ASSUME IInv, NEW o \in Operator, Interrupt(o) PROVE IInv'
<1>1. /\ op' = [op EXCEPT ![o] = [command |-> op[o].command, step |-> 1, tries |-> 0,
                                  at |-> "interrupted"]]
      /\ UNCHANGED <<daemon, env_file, image, container, otherVars, excused, quiet>>
  BY DEF Interrupt, Finish, hostVars
<1>2. /\ op' \in [Operator -> Invocation]
      /\ op'[o].at = "interrupted" /\ Step(o)' = "none"
      /\ \A p \in Operator \ {o} : op'[p] = op[p] /\ Step(p)' = Step(p)
  BY <1>1 DEF Invocation, IInv, TypeOK, Step
<1>3. TypeOK'
  BY <1>1, <1>2 DEF IInv, TypeOK
<1>4. StopSpares'
  <2> SUFFICES ASSUME NEW p \in Operator, Step(p)' = "stop"
               PROVE  (op[p].command \in {"run", "no_compose"} /\ Step(p) = "stop" => op'[p] = op[p])
                      /\ p # o
    BY <1>1, <1>2 DEF IInv, StopSpares
  <2> QED
    BY <1>2
<1>5. ResetProceeds'
  <2> SUFFICES ASSUME NEW p \in Operator, op'[p].command = "full_reset", quiet'[p], daemon'
               PROVE  /\ Step(p)' = "rm" => ~Listed(container')
                      /\ Step(p)' = "rmi" => container' = NoContainer
                      /\ op'[p].at = "true" => container' = NoContainer /\ (~image' \/ borrowed')
    BY DEF ResetProceeds
  <2> QED
    BY <1>1, <1>2 DEF IInv, ResetProceeds
<1> QED
  BY <1>2, <1>3, <1>4, <1>5 DEF IInv, FirstSteps

LEMMA DaemonKeeps == ASSUME IInv, Daemon PROVE IInv'
<1>1. \A p \in Operator : Step(p)' = Step(p)
  BY DEF Daemon, Step
<1> QED
  BY <1>1 DEF Daemon, IInv, TypeOK, FirstSteps, StopSpares, ResetProceeds

\* A service that comes back excuses whoever could not see it.
LEMMA FlapKeeps == ASSUME IInv, Flap PROVE IInv' /\ op' = op
<1>1. \A p \in Operator : Step(p)' = Step(p)
  BY DEF Flap, Step
<1>2. /\ UNCHANGED <<daemon, env_file, image, namesake, borrowed, op, quiet>>
      /\ Listed(container)
      /\ container' \in Containers
      /\ excused' \in [Operator -> BOOLEAN]
      /\ \A p \in Operator : Step(p) = "stop" /\ container'.state = "running" => excused'[p]
  <2>1. /\ UNCHANGED <<daemon, env_file, image, namesake, borrowed, op, quiet>>
        /\ container.state \in {"running", "restarting"}
    BY DEF Flap
  <2>2. PICK s \in {"running", "restarting"} :
            /\ container' = [container EXCEPT !.state = s]
            /\ \/ s = "restarting" /\ excused' = excused
               \/ s = "running" /\ excused' = ExcuseAll
    BY DEF Flap
  <2>3. PICK v \in {"running", "restarting", "stopped"}, origin \in {"run", "compose"} :
            container = [state |-> v, origin |-> origin]
    BY <2>1 DEF Containers, Container, NoContainer, IInv, TypeOK
  <2>4. container' = Container(s, origin)
    BY <2>2, <2>3 DEF Container
  <2>5. container' \in Containers /\ container'.state = s
    BY <2>4 DEF Containers, Container
  <2>6. /\ excused' \in [Operator -> BOOLEAN]
        /\ s = "running" => \A p \in Operator : Step(p) = "stop" => excused'[p]
    BY <2>2 DEF ExcuseAll, IInv, TypeOK
  <2> QED
    BY <2>1, <2>5, <2>6
<1>3. container # NoContainer
  BY <1>2 DEF Listed, NoContainer, Container
<1>4. TypeOK' /\ FirstSteps'
  BY <1>2 DEF IInv, TypeOK, FirstSteps
<1>5. StopSpares'
  BY <1>1, <1>2 DEF StopSpares
<1>6. ResetProceeds'
  BY <1>1, <1>2, <1>3 DEF ResetProceeds, IInv
<1> QED
  BY <1>2, <1>4, <1>5, <1>6 DEF IInv

LEMMA OthersKeep == ASSUME IInv, Others PROVE IInv' /\ op' = op
<1>1. \A p \in Operator : Step(p)' = Step(p)
  BY DEF Others, Step
<1>2. namesake' \in Namesakes
  <2>1. CASE namesake' = [state |-> "running", newer |-> TRUE]
    BY <2>1 DEF Namesakes
  <2> QED
    BY <2>1 DEF Others
<1> QED
  BY <1>1, <1>2 DEF Others, IInv, TypeOK, FirstSteps, StopSpares, ResetProceeds, Listed

-----------------------------------------------------------------------------
LEMMA IInvInit == Init => IInv
<1> SUFFICES ASSUME Init PROVE IInv
  OBVIOUS
<1>1. container \in Containers
  BY DEF Init, Containers, Container, NoContainer
<1>2. TypeOK
  <2>1. /\ {daemon, env_file, image, borrowed} \subseteq BOOLEAN
        /\ namesake \in Namesakes
        /\ excused \in [Operator -> BOOLEAN] /\ quiet \in [Operator -> BOOLEAN]
    BY DEF Init, Namesakes
  <2>2. op \in [Operator -> Invocation] /\ \A o \in Operator : op[o].at # "running"
    BY DEF Init, Invocation
  <2> QED
    BY <1>1, <2>1, <2>2 DEF TypeOK
<1>3. \A o \in Operator : Step(o) = "none"
  BY DEF Init, Step
<1>4. FirstSteps /\ StopSpares /\ ResetProceeds
  BY <1>3 DEF Init, FirstSteps, StopSpares, ResetProceeds
<1> QED
  BY <1>2, <1>4 DEF IInv

LEMMA IInvStep == IInv /\ [Next]_vars => IInv'
<1> SUFFICES ASSUME IInv, [Next]_vars PROVE IInv'
  OBVIOUS
<1>1. CASE UNCHANGED vars
  <2>1. \A o \in Operator : Step(o)' = Step(o)
    BY <1>1 DEF vars, Step
  <2> QED
    BY <1>1, <2>1 DEF vars, hostVars, IInv, TypeOK, FirstSteps, StopSpares, ResetProceeds
<1>2. CASE Next
  BY <1>2, ProceedKeeps, BeginKeeps, InterruptKeeps, DaemonKeeps, FlapKeeps, OthersKeep DEF Next
<1> QED
  BY <1>1, <1>2

\* The invariant holds of every behaviour of the program.
THEOREM DockerInvariant == Spec => []IInv
BY IInvInit, IInvStep, PTL DEF Spec

\* A full reset that no other command disturbs leaves neither container nor image, except
\* for an image that somebody else's container was made from.
THEOREM DockerResetRemoves == Spec => []ResetRemoves
<1>1. IInv => ResetRemoves
  BY DEF IInv, ResetProceeds, ResetRemoves
<1> QED
  BY <1>1, DockerInvariant, PTL

\* Other invocations stay where they are.
LEMMA OthersStay ==
    ASSUME TypeOK, NEW o \in Operator, NEW p \in Operator \ {o},
           DockerStop(o) \/ Down(o) \/ Up(o)
    PROVE  op'[p] = op[p]
<1>1. PICK ok : Ends(o, ok)
  BY DEF DockerStop, Down, Up, Starts
<1> QED
  BY <1>1 DEF Ends, Finish, TypeOK

\* One step of run() does not take down what it should have seen.
Spares ==
    \A o \in Operator :
        (/\ op[o].command \in {"run", "no_compose"}
         /\ op'[o] # op[o]
         /\ container.state = "running" /\ container'.state # "running")
            => excused[o]

LEMMA StepSpares == IInv /\ [Next]_vars => Spares
<1> SUFFICES ASSUME IInv, [Next]_vars, NEW o \in Operator,
                    op[o].command \in {"run", "no_compose"}, op'[o] # op[o],
                    container.state = "running", container' # container
             PROVE  excused[o]
  BY DEF Spares
<1>1. PICK p \in Operator : Proceed(p)
  BY FlapKeeps, OthersKeep DEF Next, vars, hostVars, Begin, Interrupt, Daemon
<1>2. CASE DockerStop(p) /\ p = o
  BY <1>2 DEF DockerStop, IInv, StopSpares
<1>3. CASE Down(p) \/ Up(p)
  <2>1. p # o
    BY <1>3, NoDown, DownKeeps, UpKeeps DEF IInv
  <2> QED
    BY <1>3, <2>1, OthersStay DEF IInv
<1>4. CASE DockerStop(p) /\ p # o
  BY <1>4, OthersStay DEF IInv
<1> QED
  BY <1>1, <1>2, <1>3, <1>4, LookKeeps, PsKeeps, RmKeeps, RmiKeeps, BuildKeeps, RunKeeps,
     HealthKeeps DEF Proceed

\* run() does not take down a service that runs, unless the service came up after run()
\* had looked, docker had not answered then, or had listed another container before it
\* that did not run.
THEOREM DockerRunSpares == Spec => RunningIsSpared
<1>1. IInv /\ [Next]_vars => [Spares]_vars
  BY StepSpares
<1>2. RunningIsSpared <=> [][Spares]_vars
  BY PTL DEF RunningIsSpared, Spares
<1> QED
  BY <1>1, <1>2, DockerInvariant, PTL DEF Spec
=============================================================================
