---------------------------- MODULE ManagedFile -----------------------------
(***************************************************************************)
(* A file that belongs to the system and its users, in which lan-nick      *)
(* keeps a section of its own: the hosts file, ssh_known_hosts or          *)
(* ssh_config.  One process at a time syncs it, an agent or an uninstall,  *)
(* and may be killed; users edit the file at any time.                     *)
(*                                                                         *)
(* A file is a sequence of lines.  The comment of a hosts entry is the     *)
(* nickname its machine announces, which may spell a marker; such an entry *)
(* is several lines here, the marker and what stands before and after it.  *)
(* Left out: that no line ends between them, which line ending the file    *)
(* uses, and whether its last line has one.                                *)
(***************************************************************************)
EXTENDS Naturals, SequencesExt, FiniteSetsExt

CONSTANTS
  UserLine,    \* lines of users
  Body,        \* what a snapshot may be rendered to: sequences of lines
  Absent,      \* there is no such file
  Found,       \* what the file may be before lan-nick has ever run
  MaxEdits,    \* bound on edits and changes of the snapshot
  MaxFaults    \* bound on failed system calls and kills

Line == UserLine \cup {"begin", "end", "blank"} \cup
        UNION {{b[i] : i \in DOMAIN b} : b \in Body}

\* No line of a user is a marker or one of lan-nick's.
ASSUME ManagedFileAssumption ==
  /\ <<>> \in Body /\ Body \subseteq Seq(Line) /\ Absent \notin Seq(Line)
  /\ \A lines \in Body : \A i \in DOMAIN lines : lines[i] \notin UserLine
  /\ UserLine \cap {"begin", "end", "blank"} = {}
  /\ Found \subseteq Seq(UserLine \cup {"blank"})
  /\ MaxEdits \in Nat /\ MaxFaults \in Nat

VARIABLES
  kind,        \* which of the three files
  file, temp,  \* the file and its temporary: sequences of lines, or Absent
  pc,          \* the next step of a sync, or "idle"
  want,        \* the section of the agent's present snapshot
  body,        \* the one the sync was called with
  updated,     \* the text it is about to write
  intended,    \* history: the users' lines as they left them
  read,        \* history: those lines as the last sync that writes has read them
  raced,       \* history: a user edited the file in the middle of a sync
  spelled,     \* history: a sync was to write a nickname that spells a marker
  synced,      \* history: the section of the last sync, unless edited since
  edits, faults

sync == <<pc, body, updated>>
history == <<intended, read, raced, spelled, synced>>
vars == <<kind, file, temp, sync, want, history, edits, faults>>

-----------------------------------------------------------------------------
(* Render and renderManaged.                                               *)

Start(text) == SelectInSeq(text, LAMBDA line : line = "begin")
End(text) == SelectInSeq(text, LAMBDA line : line = "end")

\* MUTANT: an end without a beginning is no section.
IncompleteIfBegun(text) == Start(text) # 0 /\ End(text) < Start(text)

\* Both renderers refuse half a section.
Incomplete(text) ==
  LET start == Start(text) end == End(text)
  IN  \/ (start = 0) # (end = 0)
      \/ start # 0 /\ end < start

\* MUTANT: what follows the section goes with it.
RestBefore(text) ==
  LET start == Start(text)
  IN  IF start = 0 THEN text ELSE SubSeq(text, 1, start - 1)

\* MUTANT: blank lines stay where they are.
RestUntrimmed(text) ==
  LET start == Start(text)
  IN  IF start = 0 THEN text
      ELSE SubSeq(text, 1, start - 1) \o SubSeq(text, End(text) + 1, Len(text))

\* What is not the section, without the blank lines it ends with and, in the
\* SSH files, begins with.
Rest(text) ==
  LET start == Start(text)
      end == End(text)
      filled == {i \in DOMAIN text \ (start..end) : text[i] # "blank"}
      first == IF kind = "hosts" THEN 1 ELSE Min(filled)
      last == Max(filled)
  IN  CASE filled = {} -> <<>>
        [] filled # {} /\ start = 0 -> SubSeq(text, first, last)
        [] filled # {} /\ start # 0 ->
             SubSeq(text, first, Min({start - 1, last}))
               \o SubSeq(text, Max({end + 1, first}), last)

Section(lines) == <<"begin">> \o lines \o <<"end">>

\* MUTANT: the section is added where the file ends.
RenderedLast(text, lines) ==
  LET rest == Rest(text)
  IN  IF lines = <<>> /\ kind # "hosts" THEN rest
      ELSE IF rest = <<>> THEN Section(lines)
      ELSE rest \o <<"blank">> \o Section(lines)

\* The hosts file always has a section, the SSH files one that is not empty;
\* in ssh_config, where the first value counts, it comes first.
Rendered(text, lines) ==
  LET rest == Rest(text)
  IN  IF lines = <<>> /\ kind # "hosts" THEN rest
      ELSE IF rest = <<>> THEN Section(lines)
      ELSE IF kind = "sshConfig" THEN Section(lines) \o <<"blank">> \o rest
      ELSE rest \o <<"blank">> \o Section(lines)

-----------------------------------------------------------------------------

Plain(lines) == \A i \in DOMAIN lines : lines[i] \notin {"begin", "end"}

\* What a snapshot is rendered to in this file.  The SSH files have aliases, IDs
\* and keys, none of which can spell a marker; only the hosts file has nicknames.
Bodies == {lines \in Body : kind = "hosts" \/ Plain(lines)}

\* The lines of users in a text, in their order.
UserLines(text) ==
  LET upTo[i \in 0..Len(text)] ==
        IF i = 0 THEN <<>>
        ELSE IF text[i] \in UserLine THEN Append(upTo[i - 1], text[i])
        ELSE upTo[i - 1]
  IN  upTo[Len(text)]

Damaged(text) ==
  LET at(mark) == {i \in DOMAIN text : text[i] = mark}
  IN  /\ at("begin") \cup at("end") # {}
      /\ ~\E i \in at("begin") : \E j \in at("end") :
             i < j /\ at("end") \cap (1..i) = {}

\* The lines of users: those outside a section that is whole.
Users(text) ==
  LET whole == Start(text) # 0 /\ ~Damaged(text)
  IN  UserLines(IF whole THEN SubSeq(text, 1, Start(text) - 1)
                                \o SubSeq(text, End(text) + 1, Len(text))
                ELSE text)

-----------------------------------------------------------------------------

\* Every variable has its type, and only a temporary that is complete is ever
\* renamed.
TypeOK ==
  /\ kind \in {"hosts", "knownHosts", "sshConfig"}
  /\ file = Absent \/ file \in Seq(Line)
  /\ temp = Absent \/ temp \in Seq(Line)
  /\ pc = "rename" => temp = updated
  /\ pc \in {"idle", "read", "open", "write", "rename"}
  /\ want \in Bodies /\ body \in Bodies
  /\ updated \in Seq(Line)
  /\ intended \in Seq(UserLine) /\ read \in Seq(UserLine)
  /\ raced \in BOOLEAN
  /\ spelled \in BOOLEAN /\ (spelled => kind = "hosts")
  /\ synced \in Bodies \cup {Absent}
  /\ edits \in 0..MaxEdits /\ faults \in 0..MaxFaults

\* A system on which lan-nick has never run.  Only SSH files may be missing.
Init ==
  /\ kind \in {"hosts", "knownHosts", "sshConfig"}
  /\ \/ file \in Found
     \/ kind # "hosts" /\ file = Absent
  /\ temp = Absent /\ pc = "idle"
  /\ want \in Bodies /\ body = <<>> /\ updated = <<>>
  /\ intended = IF file = Absent THEN <<>> ELSE UserLines(file)
  /\ read = <<>> /\ raced = FALSE /\ spelled = FALSE /\ synced = Absent
  /\ edits = 0 /\ faults = 0

Fault == faults < MaxFaults /\ faults' = faults + 1

-----------------------------------------------------------------------------
(* Sync and syncManagedFile, system call by system call.                   *)

Returns == pc' = "idle" /\ UNCHANGED <<body, updated>>
SyncStep(this, next) == pc = this /\ pc' = next /\ UNCHANGED <<kind, want, edits>>

\* MUTANT: the agent holds on to the first section it has written.
BeginStale ==
  /\ SyncStep("idle", "read")
  /\ body' = IF synced = Absent THEN want ELSE synced
  /\ spelled' = (spelled \/ ~Plain(body'))
  /\ UNCHANGED <<file, temp, updated, intended, read, raced, synced, faults>>

Begin ==
  /\ SyncStep("idle", "read")
  /\ body' = want
  /\ spelled' = (spelled \/ ~Plain(want))
  /\ UNCHANGED <<file, temp, updated, intended, read, raced, synced, faults>>

\* A missing SSH file is an empty one, if there is anything to write to it.
\* A text that is up to date is not written.
Read ==
  LET text == IF file = Absent THEN <<>> ELSE file
      nothing == file = Absent /\ body = <<>>
  IN  /\ pc = "read"
      /\ \/ /\ nothing \/ Incomplete(text)
            /\ SyncStep("read", "idle")
            /\ UNCHANGED <<updated, read, synced>>
         \/ /\ ~nothing /\ ~Incomplete(text)
            /\ updated' = Rendered(text, body) /\ read' = Users(text)
            /\ IF updated' = file
                 THEN SyncStep("read", "idle") /\ synced' = body
                 ELSE SyncStep("read", "open") /\ UNCHANGED synced
      /\ UNCHANGED <<file, temp, body, intended, raced, spelled, faults>>

\* os.WriteFile: create or truncate, then write.
Open ==
  /\ SyncStep("open", "write")
  /\ temp' = <<>>
  /\ UNCHANGED <<file, body, updated, history, faults>>

\* MUTANT: what a failed write has written is renamed all the same.
WriteSome ==
  /\ SyncStep("write", "rename")
  /\ \E k \in 0..Len(updated) : temp' = SubSeq(updated, 1, k)
  /\ UNCHANGED <<file, body, updated, history, faults>>

Write ==
  /\ SyncStep("write", "rename")
  /\ temp' = updated
  /\ UNCHANGED <<file, body, updated, history, faults>>

Rename ==
  /\ SyncStep("rename", "idle")
  /\ file' = temp /\ temp' = Absent
  /\ synced' = body
  /\ UNCHANGED <<body, updated, intended, read, raced, spelled, faults>>

\* A write that fails leaves what it has written, a rename that fails removes it.
Fails ==
  /\ \/ pc \in {"read", "open"} /\ UNCHANGED temp
     \/ pc = "write" /\ \E k \in 0..Len(updated) : temp' = SubSeq(updated, 1, k)
     \/ pc = "rename" /\ temp' = Absent
  /\ Returns
  /\ Fault
  /\ UNCHANGED <<kind, file, want, history, edits>>

Kill ==
  /\ pc # "idle"
  /\ Returns
  /\ Fault
  /\ UNCHANGED <<kind, file, temp, want, history, edits>>

-----------------------------------------------------------------------------
(* The agent's snapshot, and users.                                        *)

Change ==
  /\ want' \in Bodies \ {want}
  /\ edits < MaxEdits /\ edits' = edits + 1
  /\ UNCHANGED <<kind, file, temp, sync, history, faults>>

\* A user adds a line or removes any, markers included.
Edit ==
  /\ file # Absent
  /\ \/ \E i \in 1..(Len(file) + 1), l \in UserLine \cup {"blank"} :
          file' = InsertAt(file, i, l)
     \/ \E i \in DOMAIN file : file' = RemoveAt(file, i)
  /\ intended' = Users(file') /\ synced' = Absent
  /\ raced' = (raced \/ pc \in {"open", "write", "rename"})
  /\ edits < MaxEdits /\ edits' = edits + 1
  /\ UNCHANGED <<kind, temp, sync, want, read, spelled, faults>>

Sync == Begin \/ Read \/ Open \/ Write \/ Rename

Next == Sync \/ Fails \/ Kill \/ Change \/ Edit

\* An agent syncs again and again (FlushesInTime of Agent).
Spec == Init /\ [][Next]_vars /\ WF_vars(Sync)

-----------------------------------------------------------------------------
(* Properties.                                                             *)

\* A nickname that spells an end cuts the section short: the next sync leaves
\* the rest of it behind, with an end that makes every later one refuse the file.
\* One that spells a beginning may join a user's line to what stands before it.
\* So what syncs make of the file is as follows until one is to write such a
\* nickname.

\* The users' lines are at every moment as they left them, in their order,
\* whatever they did to the markers and wherever a sync fails or is killed,
\* unless an edit came between the read and the rename of one sync.
UserLinesSurvive == file # Absent /\ ~raced /\ ~spelled => Users(file) = intended

\* And if one did, that edit is lost as a whole: what a sync puts in place has
\* the users' lines as that sync has read them, all of them and in their order,
\* never some of before the edit and some of after it, or part of a text.
ReplacedWhole ==
  [][edits' = edits /\ file' # file /\ ~spelled => Users(file') = read]_vars

\* After a sync, and until the next edit, the file has the one section asked
\* for, and in ssh_config before everything else, whatever users did before or
\* in the middle of the sync.
SyncedAsAsked ==
  synced # Absent /\ file # Absent /\ ~spelled =>
    LET at(mark) == {i \in DOMAIN file : file[i] = mark}
        absent == synced = <<>> /\ kind # "hosts"
    IN  /\ IF absent THEN at("begin") \cup at("end") = {}
           ELSE \E i \in DOMAIN file :
                  /\ at("begin") = {i} /\ at("end") = {i + Len(synced) + 1}
                  /\ SubSeq(file, i + 1, i + Len(synced)) = synced
                  /\ kind = "sshConfig" => i = 1

\* To sync what has been synced changes nothing, whatever users had made of
\* the file before: an agent does not rewrite an unchanged file at every flush.
Idempotent ==
  synced # Absent /\ file # Absent /\ ~spelled => Rendered(file, synced) = file

\* No sync touches a file whose markers a user, or a nickname, has damaged.
DamagedLeftAlone ==
  [][file # Absent /\ Damaged(file) /\ file' # file /\ ~raced => edits' # edits]_vars

\* Once users and peers leave it alone, the file comes to have the section of
\* the present snapshot, or remains damaged.
Repaired ==
  <>[](spelled \/ IF file = Absent THEN want = <<>> ELSE Damaged(file) \/ synced = want)
=============================================================================
