------------------------------ MODULE StateLock ------------------------------
(***************************************************************************)
(* The lock of the plugin's state directory (state.mjs): a directory made  *)
(* with mkdir, an owner record linked into it, and a transition record     *)
(* that a process must link before it may move the directory away, to      *)
(* release its own lock or to reclaim that of a dead owner.  A step is one *)
(* call of the file system, through the path of the lock, whatever         *)
(* directory is there at that moment: what a process has found by several  *)
(* calls may be of several directories.  Processes may stop for long       *)
(* anywhere, and die.                                                      *)
(***************************************************************************)
EXTENDS Naturals, FiniteSets

CONSTANTS
  None,
  Proc,        \* processes
  Ino,         \* inode numbers
  MaxTries,    \* bound: locks a process makes
  MaxCrashes,  \* bound: processes that die
  SlowMakers,  \* a process may take longer than the grace to make a lock
  Reuse        \* the number of a removed directory is given to a new one

VARIABLES
  path,     \* the directory at the lock's path, or None
  dir,      \* what is in each directory, "free" when the number is not in use
  pc,       \* what each process does next
  my,       \* its local variables
  made,     \* locks it has made: with the process, the token of the last one
  alive

lockVars == <<path, dir, pc, my, made, alive>>

\* An owner record: process and token, and the directory it was written for.
Owner == [by : Proc, token : 1..MaxTries, ino : Ino]
Kind  == {"reclaim", "release"}
Transition == [by : Proc, kind : Kind, target : Ino]
Maker == [by : Proc, token : 1..MaxTries]

ASSUME LockAssumption ==
  /\ IsFiniteSet(Proc) /\ IsFiniteSet(Ino)
  /\ MaxTries \in Nat \ {0} /\ MaxCrashes \in Nat
  /\ SlowMakers \in BOOLEAN /\ Reuse \in BOOLEAN
  /\ None \notin Proc \cup Ino \cup Owner \cup Transition \cup Maker

Free == [use |-> "free", maker |-> None, owner |-> None, tmp |-> {}, trans |-> None,
         witness |-> {}]
New(p) == [Free EXCEPT !.use = "live", !.maker = [by |-> p, token |-> made[p] + 1]]

Directory == [use : {"free", "live", "retired"}, maker : Maker \cup {None},
              owner : Owner \cup {None}, tmp : SUBSET Owner,
              trans : Transition \cup {None}, witness : SUBSET Proc]

\* What a process has in its local variables.
Local == [gen   : [ino : Ino \cup {None}, owner : Owner \cup {None}],  \* what it works on
          mode  : {"reclaim", "release", "abandon"},    \* ... and what it would do with it
          look  : [ino : Ino \cup {None}, maker : Maker \cup {None},
                   owner : Owner \cup {None}, temp : Owner \cup {None}],  \* inspectLock so far
          seen  : Transition \cup {None},               \* the transition it has found
          again : BOOLEAN,                              \* a dead transition was cleared already
          after : {"judge", "check", "leave", "recheck", "rename"}]  \* where a call returns

NoGen  == [ino |-> None, owner |-> None]
NoLook == [ino |-> None, maker |-> None, owner |-> None, temp |-> None]
AtRest == [gen |-> NoGen, mode |-> "reclaim", look |-> NoLook, seen |-> None,
           again |-> FALSE, after |-> "judge"]

Making  == {"stat", "tmp", "link", "sweep", "check", "exists"}
Looking == {"look", "owner", "list", "temp"}
Claim   == {"claim", "place", "existing", "pin", "pinned", "unpin", "drop", "confirm"}
Taking  == {"ownStat", "ownTrans", "withdraw", "erase", "recheck", "rename"}
Stage   == {"idle", "try", "judge", "held", "leave", "frozen"}
             \cup Making \cup Looking \cup Claim \cup Taking

LockTypeOK ==
  /\ path \in Ino \cup {None}
  /\ dir \in [Ino -> Directory]
  /\ pc \in [Proc -> Stage]
  /\ my \in [Proc -> Local]
  /\ made \in [Proc -> 0..MaxTries]
  /\ alive \in [Proc -> BOOLEAN]

Init ==
  /\ path = None
  /\ dir = [i \in Ino |-> Free]
  /\ pc = [p \in Proc |-> "idle"]
  /\ my = [p \in Proc |-> AtRest]
  /\ made = [p \in Proc |-> 0]
  /\ alive = [p \in Proc |-> TRUE]

-----------------------------------------------------------------------------
Gen(p)  == my[p].gen
Look(p) == my[p].look
Seen(p) == my[p].seen
Reclaims(p) == my[p].mode = "reclaim"

\* What is at the path now.
OwnerAt       == IF path = None THEN None ELSE dir[path].owner
TemporariesAt == IF path = None THEN {} ELSE dir[path].tmp
TransitionAt  == IF path = None THEN None ELSE dir[path].trans

At(p) == path # None /\ path = Gen(p).ino

Mine(p) == [by |-> p, token |-> made[p], ino |-> Gen(p).ino]

MyTransition(p) ==
  [by |-> p, kind |-> IF Reclaims(p) THEN "reclaim" ELSE "release", target |-> Gen(p).ino]

To(p, s, m) == pc' = [pc EXCEPT ![p] = s] /\ my' = [my EXCEPT ![p] = m]
Goto(p, s)  == To(p, s, my[p])
Rest(p, s)  == To(p, s, AtRest)

\* What one call leaves for the next: the generation and what is to become of it.
Kept(p) == [AtRest EXCEPT !.gen = Gen(p), !.mode = my[p].mode]

Leaving(p) == To(p, "look", [Kept(p) EXCEPT !.after = "leave"])

\* Where a claim that came to nothing leads: the loop of acquireLock goes on, that
\* of releaseLockGeneration too, until the deadline.
Failed(p) == \/ IF Reclaims(p) THEN Rest(p, "try") ELSE Leaving(p)
             \/ Rest(p, "idle")

\* ... and a move that does not happen.
NotMoved(p) == Rest(p, IF Reclaims(p) THEN "try" ELSE "idle")

\* The transition at the path is removed, whosever it is.
Unlinked == IF path = None THEN dir ELSE [dir EXCEPT ![path].trans = None]

-----------------------------------------------------------------------------
(* inspectLock: the directory, then the owner in it or, if there is none, the *)
(* one that the only temporary file names.                                    *)

StatLock(p) ==
  /\ pc[p] = "look"
  /\ IF path = None
       THEN Goto(p, my[p].after)
       ELSE To(p, "owner", [my[p] EXCEPT !.look.ino = path, !.look.maker = dir[path].maker])
  /\ UNCHANGED <<path, dir, made, alive>>

ReadOwner(p) ==
  /\ pc[p] = "owner"
  /\ IF OwnerAt # None THEN To(p, my[p].after, [my[p] EXCEPT !.look.owner = OwnerAt])
                       ELSE Goto(p, "list")
  /\ UNCHANGED <<path, dir, made, alive>>

ListOwners(p) ==
  /\ pc[p] = "list"
  /\ \/ \E t \in TemporariesAt : /\ TemporariesAt = {t}
                                 /\ To(p, "temp", [my[p] EXCEPT !.look.temp = t])
     \/ /\ \A t \in TemporariesAt : TemporariesAt # {t}
        /\ Goto(p, my[p].after)
  /\ UNCHANGED <<path, dir, made, alive>>

ReadTemporary(p) ==
  /\ pc[p] = "temp"
  /\ LET t == Look(p).temp
     IN To(p, my[p].after, [my[p] EXCEPT !.look.temp = None,
                                         !.look.owner = IF t \in TemporariesAt THEN t ELSE None])
  /\ UNCHANGED <<path, dir, made, alive>>

\* The grace that the maker of a directory needs is not over.
Young(m) == /\ alive[m.by] /\ made[m.by] = m.token
            /\ \/ pc[m.by] \in Making
               \/ pc[m.by] \in Looking /\ my[m.by].after = "check"

\* Mutant of Reclaimable: a lock nobody has signed is left alone.
ReclaimableSigned(l) == l.owner # None /\ l.owner.ino = l.ino /\ ~alive[l.owner.by]

\* lockGenerationIsReclaimable: the owner is dead; without one that claims this
\* directory only the age of the directory tells.
Reclaimable(l) == IF l.owner # None /\ l.owner.ino = l.ino THEN ~alive[l.owner.by]
                  ELSE SlowMakers \/ ~Young(l.maker)

\* sameOwnerGeneration, and the comparison of fingerprints when reclaiming.
SameOwner(p, o) == o = Gen(p).owner \/ (my[p].mode = "abandon" /\ o = None)

\* The generation that the process works on is the one it has found now.
Unmoved(p) == Look(p).ino = Gen(p).ino /\ SameOwner(p, Look(p).owner)

-----------------------------------------------------------------------------
(* acquireLock                                                             *)

StartTry(p) ==
  /\ pc[p] = "idle" /\ made[p] < MaxTries
  /\ Goto(p, "try")
  /\ UNCHANGED <<path, dir, made, alive>>

MakeDirectory(p) ==
  /\ pc[p] = "try" /\ path = None /\ made[p] < MaxTries
  /\ \E i \in Ino : /\ dir[i].use = "free"
                    /\ path' = i
                    /\ dir' = [dir EXCEPT ![i] = New(p)]
  /\ made' = [made EXCEPT ![p] = @ + 1]
  /\ Goto(p, "stat")
  /\ UNCHANGED alive

\* lstat after mkdir: of whatever is there now.
StatDirectory(p) ==
  /\ pc[p] = "stat"
  /\ IF path = None THEN Rest(p, "idle")
     ELSE To(p, "tmp", [my[p] EXCEPT !.gen = [ino   |-> path,
                                              owner |-> [Mine(p) EXCEPT !.ino = path]]])
  /\ UNCHANGED <<path, dir, made, alive>>

Abandon(p) == To(p, "look", [Kept(p) EXCEPT !.mode = "abandon", !.after = "leave"])

\* exclusivePrivateJson: the temporary file of the owner record, ...
WriteOwner(p) ==
  /\ pc[p] = "tmp"
  /\ IF path = None THEN Abandon(p) /\ UNCHANGED dir
     ELSE /\ dir' = [dir EXCEPT ![path].tmp = @ \cup {Mine(p)}]
          /\ Goto(p, "link")
  /\ UNCHANGED <<path, made, alive>>

\* ... its publication by link, which fails if there is an owner, ...
LinkOwner(p) ==
  /\ pc[p] = "link"
  /\ IF Mine(p) \in TemporariesAt /\ OwnerAt = None
       THEN /\ dir' = [dir EXCEPT ![path].owner = Mine(p)]
            /\ Goto(p, "sweep")
       ELSE To(p, "sweep", [my[p] EXCEPT !.mode = "abandon"]) /\ UNCHANGED dir
  /\ UNCHANGED <<path, made, alive>>

\* ... and its removal.
SweepTemporary(p) ==
  /\ pc[p] = "sweep"
  /\ dir' = IF path = None THEN dir ELSE [dir EXCEPT ![path].tmp = @ \ {Mine(p)}]
  /\ To(p, "look", [my[p] EXCEPT !.after = IF my[p].mode = "abandon" THEN "leave" ELSE "check"])
  /\ UNCHANGED <<path, made, alive>>

\* The published owner is in place ...
CheckOwner(p) ==
  /\ pc[p] = "check"
  /\ IF Look(p).ino = Gen(p).ino /\ Look(p).owner = Mine(p) THEN To(p, "exists", Kept(p))
     ELSE Abandon(p)
  /\ UNCHANGED <<path, dir, made, alive>>

\* ... and, a call later, there is no transition at the path.
CheckTransition(p) ==
  /\ pc[p] = "exists"
  /\ IF TransitionAt # None THEN Abandon(p)
     ELSE To(p, "held", [my[p] EXCEPT !.mode = "release"])
  /\ UNCHANGED <<path, dir, made, alive>>

FindLock(p) ==
  /\ pc[p] = "try" /\ path # None
  /\ Goto(p, "look")
  /\ UNCHANGED <<path, dir, made, alive>>

\* Is its owner dead?  The deadline is looked at when it is not.
JudgeLock(p) ==
  /\ pc[p] = "judge"
  /\ IF Look(p).ino # None /\ Reclaimable(Look(p))
       THEN To(p, "claim", [AtRest EXCEPT !.gen = [ino |-> Look(p).ino, owner |-> Look(p).owner]])
       ELSE Rest(p, "try") \/ (Look(p).ino # None /\ Rest(p, "idle"))
  /\ UNCHANGED <<path, dir, made, alive>>

-----------------------------------------------------------------------------
(* releaseLockGeneration, of the holder or of an acquisition that failed.  *)

Release(p) ==
  /\ pc[p] = "held"
  /\ Leaving(p)
  /\ UNCHANGED <<path, dir, made, alive>>

Leave(p) ==
  /\ pc[p] = "leave"
  /\ IF Unmoved(p) THEN To(p, "claim", Kept(p)) ELSE Rest(p, "idle")
  /\ UNCHANGED <<path, dir, made, alive>>

-----------------------------------------------------------------------------
(* claimLockTransition                                                     *)

ClaimTransition(p) ==
  /\ pc[p] = "claim"
  /\ IF At(p) THEN Goto(p, "place") ELSE Failed(p)
  /\ UNCHANGED <<path, dir, made, alive>>

\* Mutant of PlaceTransition: written over the one that is there.
PlaceOver(p) ==
  /\ pc[p] = "place"
  /\ \/ path = None /\ Failed(p) /\ UNCHANGED dir
     \/ /\ path # None
        /\ dir' = [dir EXCEPT ![path].trans = MyTransition(p)]
        /\ Goto(p, "confirm")
  /\ UNCHANGED <<path, made, alive>>

PlaceTransition(p) ==
  /\ pc[p] = "place"
  /\ \/ path = None /\ Failed(p) /\ UNCHANGED dir
     \/ /\ path # None /\ TransitionAt = None
        /\ dir' = [dir EXCEPT ![path].trans = MyTransition(p)]
        /\ Goto(p, "confirm")
     \/ /\ TransitionAt # None
        /\ IF my[p].again THEN Failed(p) ELSE Goto(p, "existing")
        /\ UNCHANGED dir
  /\ UNCHANGED <<path, made, alive>>

ReadExisting(p) ==
  /\ pc[p] = "existing"
  /\ IF TransitionAt = None THEN Failed(p)
     ELSE IF alive[TransitionAt.by] THEN Failed(p)
     ELSE To(p, "pin", [my[p] EXCEPT !.seen = TransitionAt])
  /\ UNCHANGED <<path, dir, made, alive>>

(* clearAbandonedTransition: a second link to the transition, named after    *)
(* its token, lets one process at a time remove it.                          *)

PinTransition(p) ==
  /\ pc[p] = "pin"
  /\ IF TransitionAt = None THEN Failed(p) /\ UNCHANGED dir
     ELSE IF Seen(p).by \in dir[path].witness THEN Failed(p) /\ UNCHANGED dir
     ELSE /\ dir' = [dir EXCEPT ![path].witness = @ \cup {Seen(p).by}]
          /\ Goto(p, IF TransitionAt = Seen(p) THEN "pinned" ELSE "drop")
  /\ UNCHANGED <<path, made, alive>>

ReadPinned(p) ==
  /\ pc[p] = "pinned"
  /\ Goto(p, IF TransitionAt = Seen(p) THEN "unpin" ELSE "drop")
  /\ UNCHANGED <<path, dir, made, alive>>

UnlinkTransition(p) ==
  /\ pc[p] = "unpin"
  /\ dir' = Unlinked
  /\ To(p, "drop", [my[p] EXCEPT !.again = TRUE])
  /\ UNCHANGED <<path, made, alive>>

\* Once it is cleared there is a second attempt.
DropWitness(p) ==
  /\ pc[p] = "drop"
  /\ dir' = IF path = None THEN dir ELSE [dir EXCEPT ![path].witness = @ \ {Seen(p).by}]
  /\ IF my[p].again THEN To(p, "claim", [Kept(p) EXCEPT !.again = TRUE]) ELSE Failed(p)
  /\ UNCHANGED <<path, made, alive>>

\* The transition that is there now is taken for the process's own.
ReadClaimed(p) ==
  /\ pc[p] = "confirm"
  /\ To(p, IF TransitionAt = None THEN "withdraw" ELSE "ownStat",
           [Kept(p) EXCEPT !.seen = TransitionAt, !.after = "recheck"])
  /\ UNCHANGED <<path, dir, made, alive>>

(* ownsLockTransition: the directory, then the transition.                   *)

StatOwned(p) ==
  /\ pc[p] = "ownStat"
  /\ Goto(p, IF At(p) THEN "ownTrans" ELSE "withdraw")
  /\ UNCHANGED <<path, dir, made, alive>>

OwnTransition(p) ==
  /\ pc[p] = "ownTrans"
  /\ IF TransitionAt # None /\ TransitionAt = Seen(p) /\ Seen(p).target = Gen(p).ino
       THEN Goto(p, IF my[p].after = "recheck" THEN "look" ELSE "rename")
       ELSE Goto(p, "withdraw")
  /\ UNCHANGED <<path, dir, made, alive>>

(* removeOwnedTransition, of the claim and of the move it was for.           *)

GivenUp(p) == IF my[p].after = "recheck" THEN Failed(p) ELSE NotMoved(p)

Withdraw(p) ==
  /\ pc[p] = "withdraw"
  /\ LET t == IF my[p].after = "recheck" THEN MyTransition(p) ELSE Seen(p)
     IN IF TransitionAt = t /\ t.target = Gen(p).ino THEN Goto(p, "erase") ELSE GivenUp(p)
  /\ UNCHANGED <<path, dir, made, alive>>

EraseTransition(p) ==
  /\ pc[p] = "erase"
  /\ dir' = Unlinked
  /\ GivenUp(p)
  /\ UNCHANGED <<path, made, alive>>

-----------------------------------------------------------------------------
(* The move, under the transition: of reclaimLockGeneration and of           *)
(* releaseLockGeneration.                                                    *)

Recheck(p) ==
  /\ pc[p] = "recheck"
  /\ To(p, IF Unmoved(p) THEN "ownStat" ELSE "withdraw",
           [my[p] EXCEPT !.look = NoLook, !.after = "rename"])
  /\ UNCHANGED <<path, dir, made, alive>>

Rename(p) ==
  /\ pc[p] = "rename"
  /\ IF path = None THEN NotMoved(p) /\ UNCHANGED <<path, dir>>
     ELSE /\ dir' = [dir EXCEPT ![path].use = "retired"]
          /\ path' = None
          /\ To(p, "frozen", [my[p] EXCEPT !.look.ino = path])
  /\ UNCHANGED <<made, alive>>

\* What was moved is what was meant, and nobody else gets there; a released
\* directory is removed.
Frozen(p) ==
  /\ pc[p] = "frozen"
  /\ LET d    == dir[Look(p).ino]
         same == /\ Look(p).ino = Gen(p).ino /\ d.trans = Seen(p)
                 /\ SameOwner(p, IF d.owner # None THEN d.owner
                                 ELSE IF \E t \in d.tmp : d.tmp = {t} THEN CHOOSE t \in d.tmp : TRUE
                                 ELSE None)
     IN /\ Rest(p, IF Reclaims(p) /\ same THEN "try" ELSE "idle")
        /\ dir' = IF ~Reclaims(p) /\ same /\ Reuse THEN [dir EXCEPT ![Look(p).ino] = Free] ELSE dir
  /\ UNCHANGED <<path, made, alive>>

-----------------------------------------------------------------------------
Crash(p) ==
  /\ alive[p] /\ Cardinality({q \in Proc : ~alive[q]}) < MaxCrashes
  /\ alive' = [alive EXCEPT ![p] = FALSE]
  /\ UNCHANGED <<path, dir, pc, my, made>>

Inspect(p) == StatLock(p) \/ ReadOwner(p) \/ ListOwners(p) \/ ReadTemporary(p)

Acquire(p) == \/ MakeDirectory(p) \/ StatDirectory(p) \/ WriteOwner(p) \/ LinkOwner(p)
              \/ SweepTemporary(p) \/ CheckOwner(p) \/ CheckTransition(p) \/ FindLock(p)
              \/ JudgeLock(p)

Move(p) == \/ Leave(p) \/ ClaimTransition(p) \/ PlaceTransition(p) \/ ReadExisting(p)
           \/ PinTransition(p) \/ ReadPinned(p) \/ UnlinkTransition(p) \/ DropWitness(p)
           \/ ReadClaimed(p) \/ StatOwned(p) \/ OwnTransition(p) \/ Withdraw(p)
           \/ EraseTransition(p) \/ Recheck(p) \/ Rename(p) \/ Frozen(p)

Work(p) == Inspect(p) \/ Acquire(p) \/ Release(p) \/ Move(p)

Step(p) == alive[p] /\ (StartTry(p) \/ Work(p))

Next == \E p \in Proc : Step(p) \/ Crash(p)

Spec == Init /\ [][Next]_lockVars

\* A live process goes on with what it has begun, and releases what it holds.
Fairness == \A p \in Proc : WF_lockVars(alive[p] /\ Work(p))

-----------------------------------------------------------------------------
Holders == {p \in Proc : alive[p] /\ pc[p] = "held"}

\* Nobody moves away the directory of a live holder, or takes its place there.
HolderKeepsLock == \A p \in Holders : At(p) /\ dir[path].owner = Mine(p)

\* A lock whose owner, or whose maker before there was one, died is taken away
\* as long as somebody wants it.
Stale(i) == LET o == dir[i].owner
            IN ~alive[IF o # None THEN o.by ELSE dir[i].maker.by]
Wanting == {p \in Proc : alive[p] /\ pc[p] # "idle"}

DeadLockIsReclaimed ==
  \A i \in Ino : path = i /\ Stale(i) ~> path # i \/ Wanting = {}
=============================================================================
