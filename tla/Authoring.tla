------------------------------ MODULE Authoring ------------------------------
(***************************************************************************)
(* Compiling a project's workflows into its recipes, and installing new    *)
(* ones (authoring_compilation.py, authoring_installation.py,              *)
(* authoring_publisher.py, authoring_results.py).  Several processes and a *)
(* person share the project: a plan is made from files read one by one,    *)
(* and published file by file under the lock of the project's namespace;   *)
(* a check reads the project under the same lock, once there is one.       *)
(***************************************************************************)
EXTENDS Integers, Sequences, Functions

CONSTANTS
  Calls,         \* role -> the sequence of roles it calls
  RootRole,      \* the role that is compiled
  Reads, Order,  \* the orders a compilation visits roles in, see CallOrder
  Publishers,    \* processes, each for one job
  NoFile,
  MaxWritten     \* BOUND: files a person writes or removes

Roles == DOMAIN Calls
Files == {"source", "recipe"} \X Roles

(* A role and all that it calls, directly or not. *)
Closure(role) ==
  {q \in Roles : \A S \in SUBSET Roles :
     role \in S /\ (\A r \in S : Range(Calls[r]) \subseteq S) => q \in S}

Content == [Roles -> Int]

(* Every role of the closure is read, and completed once.                   *)
ASSUME AuthoringAssumption ==
  /\ RootRole \in Roles
  /\ Reads \in Seq(Roles) /\ Range(Reads) = Closure(RootRole)
  /\ Order \in Seq(Roles) /\ Range(Order) = Closure(RootRole) /\ IsInjective(Order)
  /\ NoFile \notin Content \cup [content : Content, id : Nat]

VARIABLES
  file,          \* path -> its content and the identity of its inode
  folder,        \* the identity of the recipes directory, 0 if there is none
  seen,          \* all there has been, of the sources at one time
  namespace,     \* "absent", "made" or "ready": it has its lock file
  holders,       \* who holds the lock file: one, or nobody
  proc,          \* process -> where its job is and what it has captured
  written, stamp

authoringVars == <<file, folder, seen, namespace, holders, proc, written, stamp>>

Jobs == {"compile", "install", "check"}
Nobody == [at |-> "idle", job |-> "check", sources |-> <<>>, before |-> <<>>, folder |-> 0,
           next |-> 1, again |-> FALSE, torn |-> FALSE]

-----------------------------------------------------------------------------
(* Plans *)

(* The destinations of a plan, role by role; an installation has the        *)
(* workflow itself for a destination.                                       *)
Targets(job) ==
  IF job = "install"
  THEN [k \in 1 .. 2 * Len(Order) |->
          <<IF k % 2 = 1 THEN "source" ELSE "recipe", Order[(k + 1) \div 2]>>]
  ELSE [k \in 1 .. Len(Order) |-> <<"recipe", Order[k]>>]

(* Contents: of a source its version, of a recipe the versions of its       *)
(* closure.                                                                 *)
SourceOf(role, v) == [q \in Roles |-> IF q = role THEN v ELSE -1]
RecipeOf(role, versions) == [q \in Roles |-> IF q \in Closure(role) THEN versions[q] ELSE -1]
Foreign == [q \in Roles |-> -1]

Installed == [q \in Roles |-> 0]

(* The after-image of a target, for sources of these versions. *)
Planned(f, versions) ==
  IF f[1] = "source" THEN SourceOf(f[2], versions[f[2]]) ELSE RecipeOf(f[2], versions)

After(p, f) ==
  Planned(f, IF proc[p].job = "install" THEN Installed
             ELSE [q \in Roles |-> IF q \in DOMAIN proc[p].sources
                                   THEN proc[p].sources[q].content[q] ELSE -1])

(* installation_collision: what is there must be the first part of the      *)
(* plan, and just as planned.                                               *)
Collides(before, targets) ==
  LET occupied == {k \in DOMAIN targets : before[targets[k]] # NoFile}
  IN  occupied # {} /\
      ~ \E n \in 1 .. Len(targets) - 1 :
          /\ occupied = 1 .. n
          /\ \A k \in 1 .. n : before[targets[k]].content = Planned(targets[k], Installed)

-----------------------------------------------------------------------------

(* A new project, or one with workflows that were never compiled.           *)
AuthoringInit ==
  /\ file \in { [f \in Files |-> NoFile],
                [f \in Files |-> IF f[1] = "source"
                                 THEN [content |-> SourceOf(f[2], 0), id |-> 0] ELSE NoFile] }
  /\ folder = 0 /\ seen = {[r \in Roles |-> file[<<"source", r>>]]}
  /\ namespace = "absent" /\ holders = {}
  /\ proc = [p \in Publishers |-> Nobody] /\ written = 0 /\ stamp = 1

Sources == [r \in Roles |-> file[<<"source", r>>]]

Go(p, at) == proc' = [proc EXCEPT ![p].at = at]
Unlocked(p) == holders' = holders \ {p}

Ends(p, at) ==
  proc' = [proc EXCEPT ![p] = [Nobody EXCEPT !.at = at, !.job = proc[p].job,
                                             !.torn = proc[p].torn]]

(* An error: nothing that was published is taken back. *)
Fail(p) == Ends(p, "failed") /\ Unlocked(p)

(* Someone writes f: a new inode; a reader of the project may be torn.      *)
WriteFile(f, content) ==
  /\ file' = [file EXCEPT ![f] = IF content = NoFile THEN NoFile
                                 ELSE [content |-> content, id |-> stamp]]
  /\ stamp' = stamp + 1
  /\ seen' = seen \cup {[r \in Roles |-> file'[<<"source", r>>]]}

(* A person writes a workflow, or writes or removes a recipe. *)
EditFile(f) ==
  /\ written < MaxWritten /\ written' = written + 1
  /\ IF f[1] = "source"
     THEN \E v \in {0, 1} : WriteFile(f, SourceOf(f[2], v))
     ELSE \E content \in {NoFile, Foreign} : WriteFile(f, content)
  /\ folder' = IF folder = 0 /\ f[1] = "recipe" THEN stamp ELSE folder
  /\ UNCHANGED <<namespace, holders, proc>>

-----------------------------------------------------------------------------
(* The boundary *)

(* require_ready: the namespace is made ... *)
MakeNamespace(p, job) ==
  /\ proc[p].at = "idle" /\ job \in {"compile", "install"}
  /\ proc' = [proc EXCEPT ![p].at = "ready", ![p].job = job]
  /\ namespace' = IF namespace = "absent" THEN "made" ELSE namespace
  /\ UNCHANGED <<file, folder, seen, holders, written, stamp>>

(* ... and then its lock file, which is held once. *)
MakeLock(p) ==
  /\ proc[p].at = "ready" /\ holders = {}
  /\ namespace' = "ready" /\ Go(p, "capture")
  /\ UNCHANGED <<file, folder, seen, holders, written, stamp>>

(* observe_authoring_project: without a boundary the project is observed    *)
(* without a lock, and once more under it if there is a boundary then.      *)
Locate(p) ==
  /\ proc[p].at \in {"idle", "observed"}
  /\ CASE namespace = "ready" -> /\ holders = {} /\ holders' = {p}
                                 /\ proc' = [proc EXCEPT ![p] = [Nobody EXCEPT !.at = "capture",
                                                                               !.again = TRUE]]
       [] namespace = "absent" -> /\ UNCHANGED holders
                                  /\ IF proc[p].at = "idle" THEN Go(p, "capture")
                                     ELSE Ends(p, IF proc[p].before = <<>> THEN "failed"
                                                  ELSE "done")
       [] OTHER -> Fail(p)
  /\ UNCHANGED <<file, folder, seen, namespace, written, stamp>>

-----------------------------------------------------------------------------
(* Capture *)

(* _source_snapshot of the next source. *)
CaptureSource(p) ==
  LET done == DOMAIN proc[p].sources
  IN  \E n \in DOMAIN Reads :
        /\ proc[p].at = "capture" /\ proc[p].job # "install"
        /\ Reads[n] \notin done /\ \A k \in 1 .. n - 1 : Reads[k] \in done
        /\ LET f == <<"source", Reads[n]>>
           IN  IF file[f] = NoFile
               THEN IF proc[p].job = "check" /\ ~proc[p].again
                    THEN Go(p, "observed") /\ UNCHANGED holders ELSE Fail(p)
               ELSE /\ UNCHANGED holders
                    /\ proc' = [proc EXCEPT ![p].sources =
                         [q \in done \cup {Reads[n]} |-> IF q = Reads[n] THEN file[f] ELSE @[q]]]
        /\ UNCHANGED <<file, folder, seen, namespace, written, stamp>>

(* _planned_targets, and installation_collision.  The before-images are     *)
(* read one by one, but each is compared again before it is replaced.       *)
CaptureTargets(p) ==
  LET targets == Targets(proc[p].job)
  IN  /\ proc[p].at = "capture"
      /\ proc[p].job = "install" \/ DOMAIN proc[p].sources = Range(Reads)
      /\ IF proc[p].job = "install" /\ Collides(file, targets)
         THEN Fail(p)
         ELSE /\ IF proc[p].again THEN Ends(p, "done")
                 ELSE proc' = [proc EXCEPT
                        ![p].before = [f \in Range(targets) |-> file[f]], ![p].folder = folder,
                        ![p].at = IF proc[p].job = "check" THEN "observed" ELSE "preflight"]
              /\ IF proc[p].job = "check" THEN Unlocked(p) ELSE UNCHANGED holders
      /\ UNCHANGED <<file, folder, seen, namespace, written, stamp>>

-----------------------------------------------------------------------------
(* Publication *)

SourcesHold(p) ==
  \A q \in DOMAIN proc[p].sources : file[<<"source", q>>] = proc[p].sources[q]

TargetHolds(p, f) == file[f] = proc[p].before[f]

(* Mutant: the sources are not looked at again.                             *)
PlanOfTargets(p) == folder = proc[p].folder /\ \A f \in DOMAIN proc[p].before : TargetHolds(p, f)

(* _preflight_plan. *)
PlanHolds(p) ==
  /\ SourcesHold(p)
  /\ folder = proc[p].folder /\ \A f \in DOMAIN proc[p].before : TargetHolds(p, f)

(* Before the lock is taken, and under it; then the directories are made.   *)
Preflight(p) ==
  /\ proc[p].at \in {"preflight", "locked"}
  /\ IF ~PlanHolds(p) THEN Fail(p) /\ UNCHANGED <<folder, stamp>>
     ELSE /\ UNCHANGED holders
          /\ IF proc[p].at = "preflight" THEN Go(p, "lock") /\ UNCHANGED <<folder, stamp>>
             ELSE /\ Go(p, "check")
                  /\ folder' = (IF folder = 0 THEN stamp ELSE folder)
                  /\ stamp' = stamp + 1
  /\ UNCHANGED <<file, seen, namespace, written>>

TakeLock(p) ==
  /\ proc[p].at = "lock" /\ holders = {} /\ holders' = {p} /\ Go(p, "locked")
  /\ UNCHANGED <<file, folder, seen, namespace, written, stamp>>

NextTarget(p) == Targets(proc[p].job)[proc[p].next]

(* validate_sources and validate_target_at, with the temporary file ready.  *)
CheckTarget(p) ==
  /\ proc[p].at = "check"
  /\ IF SourcesHold(p) /\ TargetHolds(p, NextTarget(p))
     THEN Go(p, "publish") /\ UNCHANGED holders ELSE Fail(p)
  /\ UNCHANGED <<file, folder, seen, namespace, written, stamp>>

(* _publish_owned_temporary: a new file is linked, which fails if there is  *)
(* one by now; an existing one is replaced, whatever it is by now.          *)
PublishTarget(p) ==
  /\ proc[p].at = "publish"
  /\ LET f == NextTarget(p)
     IN  IF proc[p].before[f] = NoFile /\ file[f] # NoFile
         THEN Fail(p) /\ UNCHANGED <<file, seen, stamp>>
         ELSE /\ WriteFile(f, After(p, f)) /\ UNCHANGED holders
              /\ proc' = [q \in Publishers |->
                   IF q = p THEN [proc[p] EXCEPT !.next = @ + 1,
                                    !.at = IF proc[p].next = Len(Targets(proc[p].job))
                                           THEN "verify" ELSE "check"]
                   ELSE IF proc[q].at = "capture" THEN [proc[q] EXCEPT !.torn = TRUE]
                   ELSE proc[q]]
  /\ UNCHANGED <<folder, namespace, written>>

(* validate_sources and capture_after_identity_at of every target. *)
VerifyPublished(p) ==
  /\ proc[p].at = "verify" /\ Unlocked(p)
  /\ Ends(p, IF /\ SourcesHold(p)
                /\ \A f \in DOMAIN proc[p].before :
                     file[f] # NoFile /\ file[f].content = After(p, f)
             THEN "done" ELSE "failed")
  /\ UNCHANGED <<file, folder, seen, namespace, written, stamp>>

(* The process dies; the kernel gives its lock back. *)
Die(p) ==
  /\ proc[p].at \notin {"idle", "done", "failed"} /\ Fail(p)
  /\ UNCHANGED <<file, folder, seen, namespace, written, stamp>>

AuthoringNext ==
  \/ \E f \in Files : EditFile(f)
  \/ \E p \in Publishers :
       \/ \E job \in Jobs : MakeNamespace(p, job)
       \/ MakeLock(p) \/ Locate(p) \/ CaptureSource(p) \/ CaptureTargets(p) \/ Preflight(p)
       \/ TakeLock(p) \/ CheckTarget(p) \/ PublishTarget(p) \/ VerifyPublished(p) \/ Die(p)

AuthoringSpec == AuthoringInit /\ [][AuthoringNext]_authoringVars

-----------------------------------------------------------------------------
(* Properties *)

AuthoringTypeOK ==
  /\ \A p \in Publishers : DOMAIN proc[p].sources \subseteq Roles /\ proc[p].job \in Jobs
  /\ \A p \in holders : proc[p].at \notin {"done", "failed"}
  /\ namespace \in {"absent", "made", "ready"}

(* What a check reports of the project was not read while files of a        *)
(* publication were being replaced, also when the first publication ever    *)
(* began after the check.                                                   *)
ReportIsUntorn ==
  \A p \in Publishers : proc[p].job = "check" /\ proc[p].at = "done" => ~proc[p].torn

(* The sources a publication was compiled from were read one by one while   *)
(* people went on editing; still there was a moment when all of them were   *)
(* in the project together.                                                 *)
PublishedFromOneMoment ==
  \A p \in Publishers : proc[p].job = "compile" /\ proc[p].at \in {"check", "publish", "verify"} =>
    \E now \in seen : \A q \in DOMAIN proc[p].sources : now[q] = proc[p].sources[q]

(* An installation that died or failed on its way can be repeated: what it  *)
(* left is taken for its own, unless it is all there, as long as no person  *)
(* has changed it.                                                          *)
InstallIsResumable ==
  written = 0 /\ (\E now \in seen : \A r \in Roles : now[r] = NoFile) =>
    LET targets == Targets("install")
    IN  \/ \A f \in Range(targets) :
              file[f] # NoFile /\ file[f].content = Planned(f, Installed)
        \/ ~Collides(file, targets)

(* What a check reports was not torn by a publication, what is published    *)
(* was there at one moment, and an installation that died can be repeated.  *)
PublicationsAreWhole ==
  AuthoringTypeOK /\ ReportIsUntorn /\ PublishedFromOneMoment /\ InstallIsResumable
=============================================================================
