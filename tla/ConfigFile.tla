----------------------------- MODULE ConfigFile -----------------------------
(***************************************************************************)
(* config.json as internal/config reads and replaces it, shared by the     *)
(* commands of the user, the running agent, which loads it before every    *)
(* announcement, and `install`.  No lock protects it: every process goes   *)
(* through the same temporary file, and a command that changes one field   *)
(* writes back the whole record it read.                                   *)
(*                                                                         *)
(* Files are inodes under the names path and tmp, because a process that   *)
(* has opened tmp keeps writing to its inode after another process renamed *)
(* it.                                                                     *)
(***************************************************************************)
EXTENDS Naturals, FiniteSets

CONSTANTS
  Process,
  Sudo,         \* the processes for which OwnForInvoker changes the owner
  MachineID, Nickname, Group, NoGroup,
  Hostname,     \* the nickname of a machine that was never named
  Missing,      \* no config.json
  Empty, Torn,  \* contents that do not parse: nothing, or a part
  Inode, None,
  MaxWriters,   \* how many commands that may write can overlap
  MaxFaults     \* bound on kills and failed system calls

Config == [id : MachineID, nickname : Nickname, group : Group \cup {NoGroup}]
\* MUTANT: a new configuration has no group field.
CreatedWithoutGroup(id) == [id |-> id, nickname |-> Hostname]

Created(id) == [id |-> id, nickname |-> Hostname, group |-> NoGroup]

ASSUME ConfigAssumption ==
  /\ Sudo \subseteq Process
  /\ Hostname \in Nickname /\ NoGroup \notin Group
  /\ Missing \notin Config /\ None \notin Inode
  /\ {Empty, Torn} \cap (Config \cup {Missing}) = {} /\ Empty # Torn
  /\ MaxWriters \in Nat /\ MaxFaults \in Nat
  /\ IsFiniteSet(Process) /\ IsFiniteSet(Inode)
  /\ Cardinality(Inode) > Cardinality(Process) + 1

\* What a process was asked to do; a load is status, map of no file, install,
\* serve or an announcement.
Job == [op : {"load"}] \cup [op : {"rename"}, nickname : Nickname]
         \cup [op : {"group"}, group : Group]

VARIABLES
  path, tmp,    \* the inode under each name, or None
  content,      \* of every inode: Empty, Torn or a configuration
  pc, job,      \* of every process
  cfg,          \* the configuration it works on
  creating,     \* it is saving the configuration LoadOrCreate made
  fd,           \* the inode it has opened for writing
  issued,       \* the IDs newID has returned
  faults,
  shown         \* the IDs a reader could have found in config.json

vars == <<path, tmp, content, pc, job, cfg, creating, fd, issued, faults, shown>>

Load == [op |-> "load"]

TypeOK ==
  /\ path \in Inode \cup {None} /\ tmp \in Inode \cup {None}
  /\ content \in [Inode -> Config \cup {Empty, Torn}]
  /\ pc \in [Process -> {"idle", "read", "open", "write", "own", "replace"}]
  /\ job \in [Process -> Job]
  /\ cfg \in [Process -> Config \cup {Missing}]
  /\ creating \in [Process -> BOOLEAN]
  /\ fd \in [Process -> Inode \cup {None}]
  /\ issued \subseteq MachineID
  /\ faults \in 0..MaxFaults
  /\ shown \subseteq MachineID

\* A machine that was never configured, or one that was.
Init ==
  /\ tmp = None
  /\ \/ path = None /\ issued = {} /\ content = [i \in Inode |-> Empty]
     \/ \E i \in Inode, id \in MachineID :
          /\ path = i /\ issued = {id}
          /\ content = [j \in Inode |-> IF j = i THEN Created(id) ELSE Empty]
  /\ pc = [p \in Process |-> "idle"]
  /\ job = [p \in Process |-> Load]
  /\ cfg = [p \in Process |-> Missing]
  /\ creating = [p \in Process |-> FALSE]
  /\ fd = [p \in Process |-> None]
  /\ faults = 0
  /\ shown = issued

-----------------------------------------------------------------------------
\* The configuration as the next reader finds it.
File == IF path = None THEN Missing ELSE content[path]

Shows == shown' = shown \cup {f.id : f \in {File'} \cap Config}

\* MUTANT: rename builds a new record and forgets the group.
ChangedFromScratch(config, j) ==
  IF j.op = "rename"
    THEN [id |-> config.id, nickname |-> j.nickname, group |-> NoGroup]
    ELSE IF j.op = "group" THEN [config EXCEPT !.group = j.group] ELSE config

Changed(config, j) ==
  CASE j.op = "rename" -> [config EXCEPT !.nickname = j.nickname]
    [] j.op = "group"  -> [config EXCEPT !.group = j.group]
    [] j.op = "load"   -> config

\* A load writes only when it finds no file.
MayWrite(p) ==
  /\ pc[p] # "idle"
  /\ job[p].op # "load" \/ path = None \/ pc[p] # "read"

Returns(p) ==
  /\ pc' = [pc EXCEPT ![p] = "idle"]
  /\ job' = [job EXCEPT ![p] = Load]
  /\ cfg' = [cfg EXCEPT ![p] = Missing]
  /\ creating' = [creating EXCEPT ![p] = FALSE]
  /\ fd' = [fd EXCEPT ![p] = None]

Goes(p, next) == pc' = [pc EXCEPT ![p] = next]

Fault == faults < MaxFaults /\ faults' = faults + 1

Begin(p, j) ==
  /\ pc[p] = "idle"
  /\ \/ j.op = "load" /\ path # None
     \/ Cardinality({q \in Process : MayWrite(q)}) < MaxWriters
  /\ job' = [job EXCEPT ![p] = j]
  /\ Goes(p, "read")
  /\ UNCHANGED <<path, tmp, content, cfg, creating, fd, issued, faults, shown>>

-----------------------------------------------------------------------------
(* LoadOrCreate.                                                           *)

\* The file is there and valid: a load is done, the others have something
\* to change.
ReadFound(p) ==
  /\ pc[p] = "read" /\ File \in Config
  /\ \/ /\ job[p].op = "load"
        /\ Returns(p)
     \/ /\ job[p].op # "load"
        /\ cfg' = [cfg EXCEPT ![p] = Changed(File, job[p])]
        /\ Goes(p, "open")
        /\ UNCHANGED <<job, creating, fd>>
  /\ UNCHANGED <<path, tmp, content, issued, faults, shown>>

\* The file is there but does not parse.
ReadFails(p) ==
  /\ pc[p] = "read" /\ File \in {Empty, Torn}
  /\ Returns(p)
  /\ UNCHANGED <<path, tmp, content, issued, faults, shown>>

\* MUTANT: a file that does not parse is taken for a missing one.
ReadCreatesOverUnreadable(p, id) ==
  /\ pc[p] = "read" /\ File \notin Config
  /\ id \notin issued
  /\ issued' = issued \cup {id}
  /\ cfg' = [cfg EXCEPT ![p] = Created(id)]
  /\ creating' = [creating EXCEPT ![p] = TRUE]
  /\ Goes(p, "open")
  /\ UNCHANGED <<path, tmp, content, job, fd, faults, shown>>

\* There is no file: make a configuration and save it first.
ReadCreates(p, id) ==
  /\ pc[p] = "read" /\ File = Missing
  /\ id \notin issued
  /\ issued' = issued \cup {id}
  /\ cfg' = [cfg EXCEPT ![p] = Created(id)]
  /\ creating' = [creating EXCEPT ![p] = TRUE]
  /\ Goes(p, "open")
  /\ UNCHANGED <<path, tmp, content, job, fd, faults, shown>>

-----------------------------------------------------------------------------
(* Save: open and truncate tmp, write, change its owner, rename it.        *)

InUse == {path, tmp} \cup {fd[q] : q \in Process}

Open(p) ==
  /\ pc[p] = "open"
  /\ \E i \in IF tmp = None THEN Inode \ InUse ELSE {tmp} :
       /\ tmp' = i
       /\ fd' = [fd EXCEPT ![p] = i]
       /\ content' = [content EXCEPT ![i] = Empty]
  /\ Goes(p, "write")
  /\ UNCHANGED <<path, job, cfg, creating, issued, faults>>
  /\ Shows

\* Another process may have written to the inode since it was truncated:
\* what is longer than the new text then remains behind it.
Write(p) ==
  /\ pc[p] = "write"
  /\ \E written \in {cfg[p]} \cup
            (IF content[fd[p]] \in {Empty, cfg[p]} THEN {} ELSE {Torn}) :
       content' = [content EXCEPT ![fd[p]] = written]
  /\ Goes(p, "own")
  /\ UNCHANGED <<path, tmp, job, cfg, creating, fd, issued, faults>>
  /\ Shows

\* MUTANT: the error of the write is dropped and the save goes on.
WriteErrorIgnored(p) ==
  /\ pc[p] = "write"
  /\ content' = [content EXCEPT ![fd[p]] = Torn]
  /\ Goes(p, "own")
  /\ Fault
  /\ UNCHANGED <<path, tmp, job, cfg, creating, fd, issued>>
  /\ Shows

\* The write fails part way: the temporary file stays.
WriteFails(p) ==
  /\ pc[p] = "write"
  /\ content' = [content EXCEPT ![fd[p]] = Torn]
  /\ Returns(p)
  /\ Fault
  /\ UNCHANGED <<path, tmp, issued>>
  /\ Shows

Own(p) ==
  /\ pc[p] = "own" /\ (p \in Sudo => tmp # None)
  /\ Goes(p, "replace")
  /\ UNCHANGED <<path, tmp, content, job, cfg, creating, fd, issued, faults, shown>>

Replace(p) ==
  /\ pc[p] = "replace" /\ tmp # None
  /\ path' = tmp /\ tmp' = None
  /\ \/ /\ creating[p] /\ job[p].op # "load"
        /\ cfg' = [cfg EXCEPT ![p] = Changed(cfg[p], job[p])]
        /\ creating' = [creating EXCEPT ![p] = FALSE]
        /\ fd' = [fd EXCEPT ![p] = None]
        /\ Goes(p, "open")
        /\ UNCHANGED job
     \/ /\ ~creating[p] \/ job[p].op = "load"
        /\ Returns(p)
  /\ UNCHANGED <<content, issued, faults>>
  /\ Shows

\* Another process has renamed or removed tmp, so that the change of owner or
\* the rename fails; there is nothing left to remove.
TemporaryGone(p) ==
  /\ tmp = None
  /\ \/ pc[p] = "own" /\ p \in Sudo
     \/ pc[p] = "replace"
  /\ Returns(p)
  /\ UNCHANGED <<path, tmp, content, issued, faults, shown>>

\* Either fails for another reason, and Save removes whatever is at tmp.
ReplaceFails(p) ==
  /\ pc[p] = "replace" \/ (pc[p] = "own" /\ p \in Sudo)
  /\ tmp # None /\ tmp' = None
  /\ Returns(p)
  /\ Fault
  /\ UNCHANGED <<path, content, issued, shown>>

\* The process is killed between two system calls.
Kill(p) ==
  /\ pc[p] # "idle"
  /\ Returns(p)
  /\ Fault
  /\ UNCHANGED <<path, tmp, content, issued, shown>>

-----------------------------------------------------------------------------
Step(p) ==
  \/ \E j \in Job : Begin(p, j)
  \/ ReadFound(p) \/ ReadFails(p) \/ \E id \in MachineID : ReadCreates(p, id)
  \/ Open(p) \/ Write(p) \/ WriteFails(p) \/ Own(p)
  \/ Replace(p) \/ TemporaryGone(p) \/ ReplaceFails(p) \/ Kill(p)

Next == \E p \in Process : Step(p)

Spec == Init /\ [][Next]_vars

\* The machine already has its configuration.
ConfiguredInit == Init /\ path # None
ConfiguredSpec == ConfiguredInit /\ [][Next]_vars

-----------------------------------------------------------------------------
(* Properties.                                                             *)

\* A reader always finds a whole configuration or none, whatever was killed
\* or failed half way through a save.
AlwaysReadable == path # None => content[path] \in Config

\* The steps of one command at a time are together one change of the current
\* configuration, and nothing at all when the command fails or is killed.
Atomic == INSTANCE ConfigSpec WITH config <- File

ActsAtomically == Atomic!Spec

\* "The stable machine ID": the file never shows two IDs.  It does when two
\* processes find no file at the same time.
StableID == Cardinality(shown) <= 1
=============================================================================
