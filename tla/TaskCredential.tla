---------------------------- MODULE TaskCredential ----------------------------
(***************************************************************************)
(* The credential a controller of the plugin lends to its Grok              *)
(* (grok-provider.mjs): a private file, auth.json, that is staged before    *)
(* Grok starts and revoked afterwards.  Grok may replace the file while it  *)
(* starts: it writes auth.json.<pid>.tmp and renames it.  "provision" are   *)
(* the controllers that revoke once Grok has answered, with Grok alive;     *)
(* "close" is the session-close controller, which waits for Grok's end and  *)
(* answers for Grok's temporary file too.  Files are inodes: a path leads   *)
(* to one, and the controller holds one open.                               *)
(***************************************************************************)
EXTENDS Naturals

CONSTANTS
  MaxFiles,      \* bound: files that are created
  MaxFaults      \* bound: file operations that fail

ASSUME CredentialAssumption == MaxFiles \in Nat \ {0} /\ MaxFaults \in Nat

VARIABLES
  purpose,   \* "provision" or "close"
  file,      \* the inode at each path, 0 without one
  secret,    \* inodes that hold secret bytes
  made,      \* inodes created so far
  fd,        \* the inode that is open, and the one the path is bound to
  temporary, \* Grok's temporary file as the revocation found it
  stage,     \* what the controller does next
  agent,     \* Grok: not started, about to refresh, writing, answered, gone
  faults

credentialVars == <<purpose, file, secret, made, fd, temporary, stage, agent, faults>>

CredentialInit ==
  /\ purpose \in {"provision", "close"}
  /\ file = [auth |-> 0, staging |-> 0, tmp |-> 0]
  /\ secret = {} /\ made = 0
  /\ fd = [open |-> 0, bound |-> 0]
  /\ temporary = 0
  /\ stage = "idle" /\ agent = "none" /\ faults = 0

Closing == purpose = "close"
Faulty  == faults < MaxFaults /\ faults' = faults + 1
Again   == stage' = "again"      \* the revocation threw: a later cleanup calls it again

\* neutralizeCredentialHandle empties a file, wherever its names lead by then.
Neutralize(i) == secret' = secret \ {i}

-----------------------------------------------------------------------------
(* stageRevocableTaskCredential                                            *)

\* No cached credential, or one that expires too soon: nothing is staged.
Refuse ==
  /\ stage = "idle" /\ stage' = "failed"
  /\ UNCHANGED <<purpose, file, secret, made, fd, temporary, agent, faults>>

Create ==
  /\ stage = "idle" /\ made < MaxFiles
  /\ made' = made + 1 /\ secret' = secret \cup {made + 1}
  /\ file' = [file EXCEPT !.staging = made + 1]
  /\ fd' = [open |-> made + 1, bound |-> made + 1]
  /\ stage' = "link"
  /\ UNCHANGED <<purpose, temporary, agent, faults>>

Link ==
  /\ stage = "link" /\ stage' = "unstage"
  /\ file' = [file EXCEPT !.auth = fd.bound]
  /\ UNCHANGED <<purpose, secret, made, fd, temporary, agent, faults>>

\* The staging name goes; the specification is then written to the bootstrap.
Unstage ==
  /\ stage = "unstage" /\ stage' = "lent" /\ agent' = "starting"
  /\ file' = [file EXCEPT !.staging = 0]
  /\ UNCHANGED <<purpose, secret, made, fd, temporary, faults>>

\* Any of this fails: the file is emptied before its names go.
StageFails ==
  /\ stage \in {"link", "unstage"} /\ Faulty
  /\ Neutralize(fd.open) /\ fd' = [fd EXCEPT !.open = 0]
  /\ file' = [file EXCEPT !.auth = 0, !.staging = 0]
  /\ stage' = "failed"
  /\ UNCHANGED <<purpose, made, temporary, agent>>

-----------------------------------------------------------------------------
(* Grok                                                                    *)

GrokCreates ==
  /\ agent = "starting" /\ made < MaxFiles
  /\ made' = made + 1 /\ file' = [file EXCEPT !.tmp = made + 1]
  /\ agent' = "writing"
  /\ UNCHANGED <<purpose, secret, fd, temporary, stage, faults>>

GrokWrites ==
  /\ agent = "writing" /\ file.tmp # 0
  /\ secret' = secret \cup {file.tmp}
  /\ UNCHANGED <<purpose, file, made, fd, temporary, stage, agent, faults>>

GrokRenames ==
  /\ agent = "writing" /\ file.tmp \in secret
  /\ file' = [file EXCEPT !.auth = file.tmp, !.tmp = 0]
  /\ agent' = "starting"
  /\ UNCHANGED <<purpose, secret, made, fd, temporary, stage, faults>>

\* Grok refreshes while it starts, no longer once it has answered.
GrokAnswers ==
  /\ agent = "starting" /\ agent' = "answered"
  /\ UNCHANGED <<purpose, file, secret, made, fd, temporary, stage, faults>>

\* It ends or is killed, also in the middle of a refresh.
GrokStops ==
  /\ agent \in {"starting", "writing", "answered"} /\ agent' = "gone"
  /\ UNCHANGED <<purpose, file, secret, made, fd, temporary, stage, faults>>

-----------------------------------------------------------------------------
(* revokeCredential, in the order of its file operations                   *)

\* Mutant of MayRevoke: nobody waits for Grok.
MayRevokeAtOnce == agent # "none"

\* bindCredentialWriterIdentity refuses while the process group may live.
MayRevoke == agent = "gone" \/ (~Closing /\ agent = "answered")

\* The session-close controller binds the temporary file first, whatever it holds.
TemporaryHandle == IF Closing THEN file.tmp ELSE 0

BeginRevoke ==
  /\ stage \in {"lent", "again"} /\ MayRevoke
  /\ temporary' = TemporaryHandle
  /\ stage' = "adopt"
  /\ UNCHANGED <<purpose, file, secret, made, fd, agent, faults>>

\* openPrivateCredentialHandle refuses an empty file as unsafe.
Binds(i) == i \in secret

\* refresh: the file that is there now becomes the bound one, the one held open
\* before is emptied; a missing file is fine.
AdoptReplacement ==
  /\ stage = "adopt"
  /\ LET current == file.auth IN
       \/ /\ current \in {0, fd.bound} /\ (current = 0 \/ Binds(current))
          /\ stage' = "temporary" /\ UNCHANGED <<secret, fd>>
       \/ /\ current # 0 /\ current # fd.bound /\ Binds(current)
          /\ fd' = [open |-> current, bound |-> current]
          /\ Neutralize(fd.open)
          /\ stage' = "temporary"
       \/ current # 0 /\ ~Binds(current) /\ Again /\ UNCHANGED <<secret, fd>>
  /\ UNCHANGED <<purpose, file, made, temporary, agent, faults>>

\* neutralizeIdentityBoundCredential: emptied, then unlinked while it is the same file.
RevokeTemporary ==
  /\ stage = "temporary"
  /\ \/ /\ Neutralize(temporary)
        /\ \/ /\ temporary # 0 => file.tmp \in {0, temporary}
              /\ file' = IF temporary = 0 THEN file ELSE [file EXCEPT !.tmp = 0]
              /\ stage' = "truncate" /\ UNCHANGED faults
           \/ temporary # 0 /\ Faulty /\ Again /\ UNCHANGED file
     \/ temporary # 0 /\ Faulty /\ Again /\ UNCHANGED <<file, secret>>
  /\ UNCHANGED <<purpose, made, fd, temporary, agent>>

\* revoke: a truncation that fails does not keep the path from being unlinked, but the
\* call throws in the end.
Truncate ==
  /\ stage = "truncate"
  /\ fd' = [fd EXCEPT !.open = 0]
  /\ \/ Neutralize(fd.open) /\ stage' = "unlink" /\ UNCHANGED faults
     \/ fd.open # 0 /\ Faulty /\ stage' = "unlink-failed" /\ UNCHANGED secret
  /\ UNCHANGED <<purpose, file, made, temporary, agent>>

\* unlinkIdentityBoundCredential
UnlinkCredential ==
  /\ stage \in {"unlink", "unlink-failed"}
  /\ \/ /\ file.auth \in {0, fd.bound}
        /\ file' = [file EXCEPT !.auth = 0]
        /\ stage' = (IF stage = "unlink" THEN "revoked" ELSE "again") /\ UNCHANGED faults
     \/ file.auth # 0 /\ Faulty /\ Again /\ UNCHANGED file
  /\ UNCHANGED <<purpose, secret, made, fd, temporary, agent>>

\* assertCredentialAbsent
Prove ==
  /\ stage = "revoked"
  /\ stage' = IF file.auth = 0 /\ (Closing => file.tmp = 0) THEN "proved" ELSE "failed"
  /\ UNCHANGED <<purpose, file, secret, made, fd, temporary, agent, faults>>

ControllerDies ==
  /\ stage \notin {"failed", "proved", "dead", "cleaned"} /\ Faulty
  /\ stage' = "dead"
  /\ UNCHANGED <<purpose, file, secret, made, fd, temporary, agent>>

\* cleanupTaskRuntimeArtifacts removes what a dead controller left at auth.json, once
\* the processes on record are gone.
CleanUp ==
  /\ stage = "dead" /\ agent \in {"none", "gone"}
  /\ file' = [file EXCEPT !.auth = 0]
  /\ stage' = "cleaned"
  /\ UNCHANGED <<purpose, secret, made, fd, temporary, agent, faults>>

CredentialNext ==
  \/ Refuse \/ Create \/ Link \/ Unstage \/ StageFails
  \/ GrokCreates \/ GrokWrites \/ GrokRenames \/ GrokAnswers \/ GrokStops
  \/ BeginRevoke \/ AdoptReplacement \/ RevokeTemporary \/ Truncate \/ UnlinkCredential \/ Prove
  \/ ControllerDies \/ CleanUp

CredentialSpec == CredentialInit /\ [][CredentialNext]_credentialVars

-----------------------------------------------------------------------------
\* After a revocation that was proved, whatever Grok had made of the file and whichever
\* earlier attempts had failed half-way, no path leads to secret bytes, and none ever
\* will; only of a controller whose Grok was killed in a refresh, not the session-close
\* one, the temporary file is left to the removal of its home.
RevokedIsGone ==
  /\ stage = "proved" =>
       \A p \in {"auth", "staging", "tmp"} :
         file[p] \in secret => p = "tmp" /\ ~Closing /\ agent = "gone"
  /\ stage \in {"proved", "cleaned"} => file.auth = 0
===============================================================================
