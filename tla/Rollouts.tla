------------------------------ MODULE Rollouts ------------------------------
(***************************************************************************)
(* The production server as its scripts leave it: the .env file of the     *)
(* stack, the release files with the pointer to the current one, and the   *)
(* images that run. deploy.sh, rollback.sh and build-and-deploy-prod.sh    *)
(* change them command by command; nothing keeps two scripts apart, and    *)
(* any of them stops where a command fails or its terminal is closed.      *)
(***************************************************************************)
EXTENDS Integers, Sequences

CONSTANTS
    Scripts,     \* shells that may run a script
    MaxScripts,  \* bound: scripts started
    MaxOverlaps, \* bound: scripts started while another runs
    MaxStops     \* bound: scripts that stop halfway

ASSUME RolloutsAssumption == MaxScripts \in Nat

\* Front end and back end images are always named together: "app". "secrets"
\* stands for the lines that no script can write again.
Parts == {"app", "keycloak"}
Lines == Parts \cup {"secrets"}

Lost == -1  \* the line is not in the file
Empty == 0  \* the line has no value
Local == MaxScripts + 1 \* the tag of images that were built on the server

VARIABLES
    env,      \* .env: line -> value
    releases, \* the release files, by the time in their names
    pointer,  \* the file that <env>_current.txt designates, 0 for none
    running,  \* part -> image
    script,   \* shell -> the script it runs
    last,     \* history: the script that ended last
    line,     \* history: what was started, release after release, 0 for no release
    started, overlaps, stopped,
    harm      \* history: what has befallen .env

serverVars == <<env, releases, pointer, running, script, last, line, started, overlaps, stopped, harm>>

NoScript ==
    [at |-> "idle", kind |-> "none", args |-> {}, named |-> 0, tag |-> 0,
     image |-> [p \in Parts |-> Empty], exported |-> {}, left |-> {},
     tmp |-> [l \in Lines |-> Lost], file |-> 0, from |-> 0, alone |-> TRUE]
End(me, ok) == [kind |-> me.kind, ok |-> ok, alone |-> me.alone, named |-> me.named # 0,
                file |-> me.file, from |-> me.from, old |-> me.exported # {}]

ServerInit ==
    /\ env = [l \in Lines |-> IF l = "secrets" THEN 1 ELSE Empty]
    /\ releases = <<>> /\ pointer = 0 /\ line = <<>>
    /\ running = [p \in Parts |-> Empty]
    /\ script = [s \in Scripts |-> NoScript]
    /\ last = End(NoScript, FALSE)
    /\ started = 0 /\ overlaps = 0 /\ stopped = 0 /\ harm = {}

-----------------------------------------------------------------------------
Step(s, next) == script' = [script EXCEPT ![s] = next]
Exit(s, ok) ==
    /\ Step(s, NoScript)
    /\ last' = End(script[s], ok)

\* A deployment names the images of all parts, of the application only, or
\* none; a rollback names a release or leaves the choice to the script.
CommandLines ==
    [kind : {"deploy"}, args : {Parts, {"app"}, {}}, named : {0}]
    \cup [kind : {"rollback"}, args : {Parts}, named : 0..Len(releases)]
    \cup [kind : {"build"}, args : {Parts}, named : {0}]

Start(s) ==
    /\ script[s].at = "idle" /\ started < MaxScripts
    /\ started' = started + 1
    /\ LET busy == {t \in Scripts : script[t].at # "idle"}
           new == [NoScript EXCEPT !.at = "source", !.tag = started + 1, !.alone = busy = {},
                               !.from = pointer]
       IN  /\ overlaps' = overlaps + (IF busy = {} THEN 0 ELSE 1) /\ overlaps' <= MaxOverlaps
           /\ \E how \in CommandLines :
              script' = [t \in Scripts |->
                 IF t = s THEN [new EXCEPT !.kind = how.kind, !.args = how.args, !.named = how.named]
                 ELSE [script[t] EXCEPT !.alone = @ /\ t \notin busy]]
    /\ UNCHANGED <<env, releases, pointer, running, last, line, stopped, harm>>

InEnv(p) == IF env[p] = Lost THEN Empty ELSE env[p]
Exported == {p \in Parts : env[p] # Lost}

MutantPrevious == IF pointer > 1 THEN 1 ELSE 0 \* a bug: the oldest file

\* The file before the current one in the order of their names.
Previous == pointer - 1

\* The script reads .env, every line of it into an exported variable, and
\* chooses the images. Compose prefers an exported variable to .env.
Source(s) ==
    LET me == script[s]
        target == IF me.named = 0 THEN Previous ELSE me.named
        image == CASE me.kind = "deploy" -> [p \in Parts |-> IF p \in me.args THEN me.tag ELSE InEnv(p)]
                   [] me.kind = "rollback" /\ target > 0 -> releases[target]
                   [] OTHER -> [p \in Parts |-> InEnv(p)]
        refused == \/ me.kind = "rollback" /\ target <= 0
                   \/ me.kind # "build" /\ \E p \in Parts : image[p] = Empty
    IN  /\ me.at = "source"
        /\ IF refused THEN Exit(s, FALSE)
           ELSE /\ Step(s, [me EXCEPT !.image = image, !.exported = Exported, !.left = me.args,
                                      !.at = IF me.args = {} THEN "source again" ELSE "edit",
                                      !.file = IF me.kind = "rollback" THEN target ELSE 0])
                /\ UNCHANGED last
        /\ UNCHANGED <<env, releases, pointer, running, line, started, overlaps, stopped, harm>>

\* A bug: the other lines are not copied.
MutantEdited(l, value) == [k \in Lines |-> IF k = l THEN value ELSE Lost]

\* set_env_var copies .env with one line changed to a temporary file, empties
\* .env and copies it back. rollback.sh and the build add a missing line.
Edited(l, value) == [env EXCEPT ![l] = value]

ToWrite(me) == IF "app" \in me.left THEN "app" ELSE "keycloak"
AfterEdits(me) ==
    CASE me.kind = "deploy" -> "source again" [] me.kind = "rollback" -> "pull" [] OTHER -> "up"
Done(me, l) ==
    [me EXCEPT !.left = @ \ {l}, !.tmp = NoScript.tmp,
               !.at = IF me.left = {l} THEN AfterEdits(me) ELSE "edit"]

Emptied == \E t \in Scripts : script[t].at = "write"

Edit(s) ==
    LET me == script[s]
        l == ToWrite(me)
        value == IF me.kind = "build" THEN Local ELSE me.image[l]
    IN  /\ me.at = "edit"
        /\ IF me.kind # "deploy" /\ env[l] = Lost
           THEN env' = [env EXCEPT ![l] = value] /\ Step(s, Done(me, l))
           ELSE Step(s, [me EXCEPT !.tmp = Edited(l, value), !.at = "empty"]) /\ UNCHANGED env
        /\ harm' = harm \cup (IF Emptied THEN {"read while empty"} ELSE {})
        /\ UNCHANGED <<releases, pointer, running, last, line, started, overlaps, stopped>>

EmptyFile(s) ==
    /\ script[s].at = "empty"
    /\ env' = [l \in Lines |-> Lost]
    /\ Step(s, [script[s] EXCEPT !.at = "write"])
    /\ UNCHANGED <<releases, pointer, running, last, line, started, overlaps, stopped, harm>>

Write(s) ==
    /\ script[s].at = "write"
    /\ env' = script[s].tmp
    /\ Step(s, Done(script[s], ToWrite(script[s])))
    /\ UNCHANGED <<releases, pointer, running, last, line, started, overlaps, stopped, harm>>

\* deploy.sh reads the file again once the images are in it, and writes the
\* release file line by line before anything is pulled.
SourceAgain(s) ==
    /\ script[s].at = "source again"
    /\ Step(s, [script[s] EXCEPT !.image = [p \in Parts |-> IF env[p] = Lost THEN @[p] ELSE env[p]],
                                 !.exported = @ \cup Exported, !.at = "record"])
    /\ UNCHANGED <<env, releases, pointer, running, last, line, started, overlaps, stopped, harm>>

Record(s) ==
    LET me == script[s] IN
    /\ \/ /\ me.at = "record"
          /\ releases' = Append(releases, [me.image EXCEPT !["keycloak"] = Empty])
          /\ Step(s, [me EXCEPT !.file = Len(releases) + 1, !.at = "record more"])
       \/ /\ me.at = "record more"
          /\ releases' = [releases EXCEPT ![me.file] = me.image]
          /\ Step(s, [me EXCEPT !.at = "pull"])
    /\ UNCHANGED <<env, pointer, running, last, line, started, overlaps, stopped, harm>>

Composed(me) == [p \in Parts |-> IF p \in me.exported THEN me.image[p] ELSE env[p]]

\* Images built on the server are in no registry.
Pull(s) ==
    LET me == script[s] IN
    /\ me.at = "pull"
    /\ IF \E p \in Parts : Composed(me)[p] \in {Lost, Empty, Local}
       THEN Exit(s, FALSE)
       ELSE Step(s, [me EXCEPT !.at = "up"]) /\ UNCHANGED last
    /\ UNCHANGED <<env, releases, pointer, running, line, started, overlaps, stopped, harm>>

\* Migrations and the set-up of Keycloak follow, and may fail unnoticed.
Up(s) ==
    LET me == script[s] IN
    /\ me.at = "up"
    /\ IF \E p \in Parts : Composed(me)[p] \in {Lost, Empty}
       THEN Exit(s, FALSE) /\ UNCHANGED <<running, line>>
       ELSE /\ running' = Composed(me) /\ line' = Append(line, me.file)
            /\ IF me.kind = "build" THEN Exit(s, TRUE)
               ELSE Step(s, [me EXCEPT !.at = "point"]) /\ UNCHANGED last
    /\ UNCHANGED <<env, releases, pointer, started, overlaps, stopped, harm>>

Point(s) ==
    /\ script[s].at = "point"
    /\ pointer' = script[s].file
    /\ Exit(s, TRUE)
    /\ UNCHANGED <<env, releases, running, line, started, overlaps, stopped, harm>>

\* A command fails, or the script is killed; containers may have been replaced
\* in part, and .env is left as it is.
Stop(s) ==
    LET me == script[s] IN
    /\ me.at # "idle" /\ stopped < MaxStops
    /\ stopped' = stopped + 1
    /\ harm' = harm \cup (IF me.at = "write" THEN {"stopped while empty"} ELSE {})
    /\ \/ UNCHANGED <<running, line>>
       \/ /\ me.at = "up" /\ "app" \in me.exported
          /\ running' = [running EXCEPT !["app"] = me.image["app"]]
          /\ line' = Append(line, 0)
    /\ Exit(s, FALSE)
    /\ UNCHANGED <<env, releases, pointer, started, overlaps>>

ServerStep(s) ==
    \/ Start(s) \/ Source(s) \/ Edit(s) \/ EmptyFile(s) \/ Write(s) \/ SourceAgain(s)
    \/ Record(s) \/ Pull(s) \/ Up(s) \/ Point(s) \/ Stop(s)

-----------------------------------------------------------------------------
AtRest == \A s \in Scripts : script[s].at = "idle"
EndedAlone(kind) == AtRest /\ last.ok /\ last.alone /\ last.kind = kind

\* The secrets are lost only to a script that stopped between emptying .env and
\* copying it back, or that copied .env while another had emptied it.
SecretsSurvive == env["secrets"] = Lost => Emptied \/ harm # {}

\* However many scripts failed or overlapped before it, a deployment or rollback
\* that ran alone to its end leaves .env, the release it points to and the
\* containers in agreement. A build does not if .env named images when it began:
\* the exported names win, and the old images are started again.
BuildRunsOld == last.old
AloneRunsAgree ==
    /\ EndedAlone("deploy") \/ EndedAlone("rollback") =>
          /\ pointer = last.file
          /\ running = releases[pointer]
          /\ running = [p \in Parts |-> env[p]]
    /\ EndedAlone("build") /\ ~BuildRunsOld => running = [p \in Parts |-> Local]

ServerAgrees == SecretsSurvive /\ AloneRunsAgree

\* "rolls back to the previous release (the one before current)" (rollback.sh):
\* a rollback without a name starts what ran before the release that ran last,
\* unless a deployment has left a file that never ran, scripts stopped short of
\* the pointer or ran out of order, or there was a rollback or a build before.
RollbackGoesBack ==
    EndedAlone("rollback") /\ ~last.named =>
        LET before == SubSeq(line, 1, Len(line) - 1)
            latest == before[Len(before)]
        IN  \/ \E i \in DOMAIN before :
                 /\ before[i] = pointer
                 /\ \A j \in DOMAIN before : j > i => before[j] = latest
            \/ \E f \in DOMAIN releases : \A i \in DOMAIN before : before[i] # f
            \/ latest # last.from
            \/ \E i, j \in DOMAIN before : i < j /\ before[j] <= before[i]

=============================================================================
