------------------------------- MODULE FileLock -------------------------------
(***************************************************************************)
(* The portable cross-process lock (runtime/locking.py).  Two names in one *)
(* directory carry it: <target>.lock, whose exclusive creation is the only *)
(* admission, and <target>.lock.break, whose exclusive creation opens the  *)
(* session inside which the first name is vacated.  Every action is one    *)
(* system call (open, stat, read, write, rename, unlink), so a verdict and *)
(* the act it justifies are always two steps.                              *)
(*                                                                         *)
(* The caller contract of the module docstring is assumed: a file does not *)
(* outlive stale_after while the call that made it is still in the hold or *)
(* the session the file stands for.  A process may die at any step.        *)
(***************************************************************************)
EXTENDS Integers, FiniteSets

CONSTANTS
  Calls,          \* callers of file_lock, each a process that calls it again and again
  MaxLockDeaths   \* BOUND: processes that die

Nobody == "none"

ASSUME CallsAssumption  == IsFiniteSet(Calls) /\ Nobody \notin Calls
ASSUME DeathsAssumption == MaxLockDeaths \in Nat

VARIABLES
  lock,       \* the file at <target>.lock
  brk,        \* the file at <target>.lock.break
  side,       \* call -> the file it renamed aside
  syscall,    \* call -> its next system call
  goal,       \* call -> what its breaker session is for
  token,      \* call -> the token of its breaker session, 0 outside one
  wrote,      \* call -> did it write the payload of its session
  orphaned    \* history: has a process died inside a breaker session

locals == <<side, goal, token, wrote>>
vars   == <<lock, brk, side, syscall, goal, token, wrote, orphaned>>

NoFile == [maker |-> Nobody, token |-> 0, written |-> FALSE, stale |-> FALSE]

(* A file: the call that created it, the token it names, whether its       *)
(* payload is in it yet and whether its mtime is older than stale_after.   *)
Tokens == 1 .. 2 * Cardinality(Calls) + 1
File   == [maker : Calls, token : Tokens \cup {0}, written : BOOLEAN, stale : BOOLEAN]

SessionSteps  == {"brk_write", "recheck", "break", "rel_read", "rel_unlink",
                  "brk_read", "brk_unlink"}
RecoverySteps == {"rename", "side_stat", "restore", "restore_write"}
LockSteps == {"idle", "open_lock", "write_lock", "cs", "stat_lock", "brk_open", "brk_stat",
              "fb_read", "fb_unlink", "dead"} \cup SessionSteps \cup RecoverySteps

InSession(c) == syscall[c] \in SessionSteps

(* The call holds the lock, or is still giving it back. *)
Holding(c) == \/ syscall[c] \in {"write_lock", "cs"}
              \/ goal[c] = "release" /\ syscall[c] \notin {"idle", "dead"}

(* pid:time_ns, unique among the tokens anything still refers to. *)
UsedTokens == {brk.token} \cup {side[c].token : c \in Calls} \cup {token[c] : c \in Calls}
FreshToken == CHOOSE t \in Tokens : t \notin UsedTokens

Init ==
  /\ lock = NoFile /\ brk = NoFile
  /\ side = [c \in Calls |-> NoFile]
  /\ syscall = [c \in Calls |-> "idle"]
  /\ goal = [c \in Calls |-> "break"]
  /\ token = [c \in Calls |-> 0]
  /\ wrote = [c \in Calls |-> FALSE]
  /\ orphaned = FALSE

At(c, step)   == syscall[c] = step
GoesTo(c, step) == syscall' = [syscall EXCEPT ![c] = step]
Files         == <<lock, brk>>

(* The call polls again or its timeout is over (LockTimeout). *)
Poll(c) == GoesTo(c, "open_lock") \/ GoesTo(c, "idle")

Ask(c) ==
  /\ At(c, "idle")
  /\ GoesTo(c, "open_lock")
  /\ goal' = [goal EXCEPT ![c] = "break"]
  /\ UNCHANGED <<lock, brk, side, token, wrote, orphaned>>

(* os.open(lock, O_CREAT | O_EXCL) *)
OpenLock(c) ==
  /\ At(c, "open_lock")
  /\ IF lock = NoFile
     THEN /\ lock' = [NoFile EXCEPT !.maker = c]
          /\ GoesTo(c, "write_lock")
     ELSE /\ GoesTo(c, "stat_lock")
          /\ UNCHANGED lock
  /\ UNCHANGED <<brk, locals, orphaned>>

(* The owner payload, to the file that was created.  A write that fails    *)
(* leaves file_lock with the exception and the empty file behind it.       *)
WriteLock(c) ==
  /\ At(c, "write_lock")
  /\ \/ /\ GoesTo(c, "cs")
        /\ lock' = IF lock.maker = c THEN [lock EXCEPT !.written = TRUE] ELSE lock
     \/ GoesTo(c, "idle") /\ UNCHANGED lock
  /\ UNCHANGED <<brk, locals, orphaned>>

(* The first, unprotected look at the age of the lock. *)
StatLock(c) ==
  /\ At(c, "stat_lock")
  /\ IF lock.stale THEN GoesTo(c, "brk_open") ELSE Poll(c)
  /\ UNCHANGED <<Files, locals, orphaned>>

(* The body ends and _release begins. *)
Leave(c) ==
  /\ At(c, "cs")
  /\ GoesTo(c, "brk_open")
  /\ goal' = [goal EXCEPT ![c] = "release"]
  /\ UNCHANGED <<Files, side, token, wrote, orphaned>>

-----------------------------------------------------------------------------
(* _breaker_session *)

OpenBreak(c) ==
  /\ At(c, "brk_open")
  /\ IF brk = NoFile
     THEN /\ brk' = [maker |-> c, token |-> FreshToken, written |-> FALSE, stale |-> FALSE]
          /\ token' = [token EXCEPT ![c] = FreshToken]
          /\ wrote' = [wrote EXCEPT ![c] = FALSE]
          /\ GoesTo(c, "brk_write")
     ELSE /\ GoesTo(c, "brk_stat")
          /\ UNCHANGED <<brk, token, wrote>>
  /\ UNCHANGED <<lock, side, goal, orphaned>>

(* No session: an acquirer polls, a releaser tries again until 0.25s are   *)
(* over and then falls back to an unlink outside any session.              *)
Refused(c) ==
  IF goal[c] = "release"
  THEN GoesTo(c, "brk_open") \/ GoesTo(c, "fb_read")
  ELSE Poll(c)

StatBreak(c) ==
  /\ At(c, "brk_stat")
  /\ IF brk.stale THEN GoesTo(c, "rename") ELSE Refused(c)
  /\ UNCHANGED <<Files, locals, orphaned>>

(* The payload goes to the file this session created, wherever it is now   *)
(* (a restorer past its open has read its copy already); the write may     *)
(* fail, which the session ignores.                                        *)
Filled(f, c) == IF f.maker = c /\ f.token = token[c] THEN [f EXCEPT !.written = TRUE] ELSE f

SessionBody(c) == IF goal[c] = "release" THEN "rel_read" ELSE "recheck"

WriteBreak(c) ==
  /\ At(c, "brk_write")
  /\ GoesTo(c, SessionBody(c))
  /\ \/ /\ wrote' = [wrote EXCEPT ![c] = TRUE]
        /\ brk' = Filled(brk, c)
        /\ side' = [d \in Calls |-> IF At(d, "restore_write") THEN side[d]
                                                       ELSE Filled(side[d], c)]
     \/ UNCHANGED <<wrote, brk, side>>
  /\ UNCHANGED <<lock, goal, token, orphaned>>

(* Mutant: the session trusts the look taken before it was entered. *)
RecheckNothing(c) ==
  /\ At(c, "recheck")
  /\ GoesTo(c, "break")
  /\ UNCHANGED <<Files, locals, orphaned>>

(* The verdict formed inside the session. *)
Recheck(c) ==
  /\ At(c, "recheck")
  /\ GoesTo(c, IF lock.stale THEN "break" ELSE "brk_read")
  /\ UNCHANGED <<Files, locals, orphaned>>

BreakLock(c) ==
  /\ At(c, "break")
  /\ lock' = NoFile
  /\ goal' = [goal EXCEPT ![c] = "broke"]
  /\ GoesTo(c, "brk_read")
  /\ UNCHANGED <<brk, side, token, wrote, orphaned>>

(* _unlink_if_owner, inside the session and as the fallback. *)
ReadOwner(c) ==
  /\ \/ /\ At(c, "rel_read")
        /\ GoesTo(c, IF lock.maker = c THEN "rel_unlink" ELSE "brk_read")
     \/ /\ At(c, "fb_read")
        /\ GoesTo(c, IF lock.maker = c THEN "fb_unlink" ELSE "idle")
  /\ UNCHANGED <<Files, locals, orphaned>>

UnlinkOwn(c) ==
  /\ \/ At(c, "rel_unlink") /\ GoesTo(c, "brk_read")
     \/ At(c, "fb_unlink") /\ GoesTo(c, "idle")
  /\ lock' = NoFile
  /\ UNCHANGED <<brk, locals, orphaned>>

(* Where the call goes on when its session is over.  A session that broke  *)
(* the lock races for the name at once.                                    *)
SessionOver(c) ==
  /\ CASE goal[c] = "broke"   -> GoesTo(c, "open_lock")
       [] goal[c] = "break"   -> Poll(c)
       [] goal[c] = "release" -> GoesTo(c, "idle")
  /\ goal' = [goal EXCEPT ![c] = "break"]
  /\ token' = [token EXCEPT ![c] = 0]

(* The verified release of the break mutex.  An empty or missing file is   *)
(* taken for the session's own only if its payload write failed.           *)
Theirs(c) == IF brk.written THEN brk.token # token[c] ELSE wrote[c]

ReadBreak(c) ==
  /\ At(c, "brk_read")
  /\ IF Theirs(c)
     THEN SessionOver(c)
     ELSE GoesTo(c, "brk_unlink") /\ UNCHANGED <<goal, token>>
  /\ UNCHANGED <<Files, side, wrote, orphaned>>

UnlinkBreak(c) ==
  /\ At(c, "brk_unlink")
  /\ brk' = NoFile
  /\ SessionOver(c)
  /\ UNCHANGED <<lock, side, wrote, orphaned>>

-----------------------------------------------------------------------------
(* _recover_break_mutex *)

(* Mutant: a stale break mutex is left alone. *)
RenameNever(c) ==
  /\ At(c, "rename")
  /\ Refused(c)
  /\ UNCHANGED <<Files, locals, orphaned>>

RenameAside(c) ==
  /\ At(c, "rename")
  /\ IF brk = NoFile
     THEN Refused(c) /\ UNCHANGED <<brk, side>>
     ELSE /\ side' = [side EXCEPT ![c] = brk]
          /\ brk' = NoFile
          /\ GoesTo(c, "side_stat")
  /\ UNCHANGED <<lock, goal, token, wrote, orphaned>>

(* Verified on the private copy: an orphan is unlinked, a live mutex goes  *)
(* back under its name.                                                    *)
StatSide(c) ==
  /\ At(c, "side_stat")
  /\ IF side[c].stale
     THEN side' = [side EXCEPT ![c] = NoFile] /\ Refused(c)
     ELSE GoesTo(c, "restore") /\ UNCHANGED side
  /\ UNCHANGED <<Files, goal, token, wrote, orphaned>>

(* O_EXCL: a name taken meanwhile is not replaced. *)
Restore(c) ==
  /\ At(c, "restore")
  /\ IF brk = NoFile
     THEN /\ brk' = [maker |-> c, token |-> side[c].token, written |-> FALSE, stale |-> FALSE]
          /\ GoesTo(c, "restore_write")
          /\ UNCHANGED side
     ELSE /\ side' = [side EXCEPT ![c] = NoFile]
          /\ Refused(c)
          /\ UNCHANGED brk
  /\ UNCHANGED <<lock, goal, token, wrote, orphaned>>

(* The payload and the mtime of the aside copy, then its unlink. *)
RestoreWrite(c) ==
  /\ At(c, "restore_write")
  /\ brk' = IF brk.maker = c /\ brk.token = side[c].token /\ ~brk.written
            THEN [brk EXCEPT !.written = side[c].written, !.stale = side[c].stale]
            ELSE brk
  /\ side' = [side EXCEPT ![c] = NoFile]
  /\ Refused(c)
  /\ UNCHANGED <<lock, goal, token, wrote, orphaned>>

-----------------------------------------------------------------------------
(* Time, under the contract: the mtime of a file passes stale_after only   *)
(* when the hold or session it stands for is over.                         *)
SessionLive(f) == \E c \in Calls : InSession(c) /\ token[c] = f.token

AgeLock ==
  /\ lock # NoFile /\ ~lock.stale
  /\ ~Holding(lock.maker)
  /\ lock' = [lock EXCEPT !.stale = TRUE]
  /\ UNCHANGED <<brk, syscall, locals, orphaned>>

AgeBreak ==
  /\ brk # NoFile /\ ~brk.stale
  /\ ~SessionLive(brk)
  /\ brk' = [brk EXCEPT !.stale = TRUE]
  /\ UNCHANGED <<lock, syscall, locals, orphaned>>

Die(c) ==
  /\ syscall[c] \notin {"idle", "dead"}
  /\ Cardinality({d \in Calls : syscall[d] = "dead"}) < MaxLockDeaths
  /\ GoesTo(c, "dead")
  /\ orphaned' = (orphaned \/ InSession(c))
  /\ token' = [token EXCEPT ![c] = 0]
  /\ UNCHANGED <<Files, side, goal, wrote>>

Step(c) ==
  \/ Ask(c) \/ OpenLock(c) \/ WriteLock(c) \/ StatLock(c) \/ Leave(c)
  \/ OpenBreak(c) \/ StatBreak(c) \/ WriteBreak(c) \/ Recheck(c) \/ BreakLock(c)
  \/ ReadOwner(c) \/ UnlinkOwn(c) \/ ReadBreak(c) \/ UnlinkBreak(c)
  \/ RenameAside(c) \/ StatSide(c) \/ Restore(c) \/ RestoreWrite(c)

Next == AgeLock \/ AgeBreak \/ \E c \in Calls : Step(c) \/ Die(c)

(* Every live process runs, and time passes. *)
Fairness == /\ \A c \in Calls : WF_vars(Step(c))
            /\ WF_vars(AgeLock) /\ WF_vars(AgeBreak)

Spec == Init /\ [][Next]_vars /\ Fairness

-----------------------------------------------------------------------------
TypeOK ==
  /\ lock \in File \cup {NoFile} /\ brk \in File \cup {NoFile}
  /\ side \in [Calls -> File \cup {NoFile}]
  /\ syscall \in [Calls -> LockSteps]
  /\ goal \in [Calls -> {"break", "broke", "release"}]
  /\ token \in [Calls -> Tokens \cup {0}]
  /\ wrote \in [Calls -> BOOLEAN]
  /\ orphaned \in BOOLEAN

(***************************************************************************)
(* The exclusivity invariant of the docstring: short of a death inside a   *)
(* breaker session, no two processes are ever in the critical section, at  *)
(* whatever step holders, releasers and breakers die or fail to write.     *)
(***************************************************************************)
MutualExclusion ==
  ~orphaned => \A c, d \in Calls : At(c, "cs") /\ At(d, "cs") => c = d

(* Nobody removes the file of a live holder: when the holder reaches the   *)
(* end of its body, the lock name still carries its own, fresh file.       *)
HolderOwnsName ==
  ~orphaned => \A c \in Calls : At(c, "cs") => lock.maker = c /\ ~lock.stale

(* At most one breaker session is open, and its mutex is under the name.   *)
OneSession ==
  ~orphaned => \A c \in Calls : InSession(c) => brk.token = token[c] /\ brk # NoFile

(***************************************************************************)
(* A lock left behind by a dead process, or by a failed payload write, is  *)
(* broken as long as somebody asks for it.  After a death inside a session *)
(* this is not promised: two processes that recover the orphaned mutex can *)
(* go on grabbing each other's sessions.                                   *)
(***************************************************************************)
OrphanLockIsBroken ==
  (lock # NoFile /\ ~Holding(lock.maker))
    ~> (lock = NoFile \/ Holding(lock.maker) \/ orphaned)

(* A break mutex without a session never wedges the lock for ever. *)
OrphanMutexIsRecovered ==
  (brk # NoFile /\ ~SessionLive(brk)) ~> (brk = NoFile \/ SessionLive(brk))

(* Short of a death inside a breaker session, the lock has one holder, who  *)
(* keeps its name, and its mutex one breaker.                               *)
OneHolder == TypeOK /\ MutualExclusion /\ HolderOwnsName /\ OneSession

(* What dead processes leave, the lock or the break mutex, is broken by     *)
(* those that still want it.                                                *)
OrphansAreBroken == OrphanLockIsBroken /\ OrphanMutexIsRecovered
=============================================================================
