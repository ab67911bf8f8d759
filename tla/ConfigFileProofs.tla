-------------------------- MODULE ConfigFileProofs --------------------------
(***************************************************************************)
(* What holds of config.json for any processes, names, inodes and faults:  *)
(* with any number of writers that the machine keeps its ID once it has    *)
(* one; with one writer at a time that every save is atomic.               *)
(***************************************************************************)
EXTENDS ConfigFile, FiniteSetTheorems, TLAPS

Saving(p) == pc[p] \in {"open", "write", "own", "replace"}

\* TypeOK is not inductive: Write needs a configuration to write.
TypeInv == TypeOK /\ \A p \in Process : Saving(p) => cfg[p] \in Config

-----------------------------------------------------------------------------
(* Lemmas about the operators.                                             *)

\* A change of a configuration is a configuration with the same ID.
LEMMA ChangedLemma ==
  ASSUME NEW c \in Config, NEW j \in Job
  PROVE  /\ Changed(c, j) \in Config
         /\ Changed(c, j).id = c.id
         /\ j.op # "load" =>
              \/ \E n \in Nickname : Changed(c, j) = [c EXCEPT !.nickname = n]
              \/ \E g \in Group : Changed(c, j) = [c EXCEPT !.group = g]
<1>1. CASE j \in [op : {"load"}]
  BY <1>1 DEF Changed
<1>2. CASE j \in [op : {"rename"}, nickname : Nickname]
  <2>1. Changed(c, j) = [c EXCEPT !.nickname = j.nickname] /\ j.nickname \in Nickname
    BY <1>2 DEF Changed
  <2>. QED BY <2>1 DEF Config
<1>3. CASE j \in [op : {"group"}, group : Group]
  <2>1. Changed(c, j) = [c EXCEPT !.group = j.group] /\ j.group \in Group
    BY <1>3 DEF Changed
  <2>. QED BY <2>1 DEF Config
<1>. QED BY <1>1, <1>2, <1>3 DEF Job

\* LoadOrCreate makes a configuration with the ID it was given.
LEMMA CreatedLemma ==
  ASSUME NEW id \in MachineID PROVE Created(id) \in Config /\ Created(id).id = id
  BY ConfigAssumption DEF Created, Config

\* A file is missing exactly when it has no inode.
LEMMA FileLemma ==
  ASSUME TypeOK
  PROVE  /\ File \in Config \cup {Empty, Torn, Missing}
         /\ File = Missing <=> path = None
         /\ path # None => File = content[path]
  BY ConfigAssumption DEF File, TypeOK

\* What a reader can find has the ID of a machine.
LEMMA ShowsLemma ==
  ASSUME Shows, shown \subseteq MachineID
  PROVE  shown' \subseteq MachineID
  BY DEF Shows, Config

-----------------------------------------------------------------------------
(* Types.                                                                  *)

\* What a process does that only reads is one of the jobs.
LEMMA LoadIsJob == Load \in Job
  BY DEF Load, Job

\* Returning leaves no trace of the command in its process.
LEMMA ReturnsTyped ==
  ASSUME TypeInv, NEW p \in Process, Returns(p)
  PROVE  /\ pc' \in [Process -> {"idle", "read", "open", "write", "own", "replace"}]
         /\ job' \in [Process -> Job]
         /\ cfg' \in [Process -> Config \cup {Missing}]
         /\ creating' \in [Process -> BOOLEAN]
         /\ fd' \in [Process -> Inode \cup {None}]
         /\ \A q \in Process : Saving(q)' => cfg'[q] \in Config
  BY LoadIsJob DEF TypeInv, TypeOK, Returns, Saving

\* Every step keeps the types.
LEMMA TypeStep == TypeInv /\ [Next]_vars => TypeInv'
<1> SUFFICES ASSUME TypeInv, [Next]_vars PROVE TypeInv'
  OBVIOUS
<1>1. ASSUME NEW p \in Process, NEW j \in Job, Begin(p, j) PROVE TypeInv'
  BY <1>1 DEF TypeInv, TypeOK, Begin, Goes, Saving
<1>2. ASSUME NEW p \in Process, ReadFound(p) PROVE TypeInv'
  <2>1. CASE Returns(p)
    BY <1>2, <2>1, ReturnsTyped DEF TypeInv, TypeOK, ReadFound
  <2>2. CASE ~Returns(p)
    <3>1. Changed(File, job[p]) \in Config
      BY <1>2, ChangedLemma DEF ReadFound, TypeInv, TypeOK
    <3>2. /\ cfg' = [cfg EXCEPT ![p] = Changed(File, job[p])]
          /\ pc' = [pc EXCEPT ![p] = "open"]
          /\ UNCHANGED <<job, creating, fd, path, tmp, content, issued, faults, shown>>
      BY <1>2, <2>2 DEF ReadFound, Goes
    <3>. QED BY <3>1, <3>2 DEF TypeInv, TypeOK, Saving
  <2>. QED BY <2>1, <2>2
<1>3. ASSUME NEW p \in Process, ReadFails(p) PROVE TypeInv'
  BY <1>3, ReturnsTyped DEF TypeInv, TypeOK, ReadFails
<1>4. ASSUME NEW p \in Process, NEW id \in MachineID, ReadCreates(p, id) PROVE TypeInv'
  <2>1. Created(id) \in Config
    BY CreatedLemma
  <2>. QED BY <1>4, <2>1 DEF TypeInv, TypeOK, ReadCreates, Goes, Saving
<1>5. ASSUME NEW p \in Process, Open(p) PROVE TypeInv'
  <2>1. PICK i \in Inode : tmp' = i /\ fd' = [fd EXCEPT ![p] = i]
                           /\ content' = [content EXCEPT ![i] = Empty]
    BY <1>5 DEF Open, TypeInv, TypeOK
  <2>2. shown' \subseteq MachineID
    BY <1>5, ShowsLemma DEF Open, TypeInv, TypeOK
  <2>3. \A q \in Process : Saving(q)' => cfg'[q] \in Config
    BY <1>5 DEF Open, Goes, TypeInv, TypeOK, Saving
  <2>. QED BY <1>5, <2>1, <2>2, <2>3 DEF TypeInv, TypeOK, Open, Goes
<1>6. ASSUME NEW p \in Process, Write(p) PROVE TypeInv'
  <2>1. PICK written \in Config \cup {Torn} : content' = [content EXCEPT ![fd[p]] = written]
    BY <1>6 DEF Write, TypeInv, TypeOK, Saving
  <2>2. shown' \subseteq MachineID
    BY <1>6, ShowsLemma DEF Write, TypeInv, TypeOK
  <2>3. \A q \in Process : Saving(q)' => cfg'[q] \in Config
    BY <1>6 DEF Write, Goes, TypeInv, TypeOK, Saving
  <2>. QED BY <1>6, <2>1, <2>2, <2>3 DEF TypeInv, TypeOK, Write, Goes
<1>7. ASSUME NEW p \in Process, WriteFails(p) PROVE TypeInv'
  <2>1. shown' \subseteq MachineID
    BY <1>7, ShowsLemma DEF WriteFails, TypeInv, TypeOK
  <2>2. faults' \in 0..MaxFaults
    BY <1>7, ConfigAssumption DEF WriteFails, Fault, TypeInv, TypeOK
  <2>. QED BY <1>7, <2>1, <2>2, ReturnsTyped DEF TypeInv, TypeOK, WriteFails
<1>8. ASSUME NEW p \in Process, Own(p) PROVE TypeInv'
  BY <1>8 DEF TypeInv, TypeOK, Own, Goes, Saving
<1>9. ASSUME NEW p \in Process, Replace(p) PROVE TypeInv'
  <2>1. shown' \subseteq MachineID
    BY <1>9, ShowsLemma DEF Replace, TypeInv, TypeOK
  <2>2. CASE Returns(p)
    BY <1>9, <2>1, <2>2, ReturnsTyped DEF TypeInv, TypeOK, Replace
  <2>3. CASE ~Returns(p)
    <3>1. Changed(cfg[p], job[p]) \in Config
      BY <1>9, ChangedLemma DEF Replace, TypeInv, TypeOK, Saving
    <3>2. /\ cfg' = [cfg EXCEPT ![p] = Changed(cfg[p], job[p])]
          /\ creating' = [creating EXCEPT ![p] = FALSE]
          /\ fd' = [fd EXCEPT ![p] = None]
          /\ pc' = [pc EXCEPT ![p] = "open"]
          /\ path' = tmp /\ tmp' = None
          /\ UNCHANGED <<job, content, issued, faults>>
      BY <1>9, <2>3 DEF Replace, Goes
    <3>. QED BY <2>1, <3>1, <3>2 DEF TypeInv, TypeOK, Saving
  <2>. QED BY <2>2, <2>3
<1>10. ASSUME NEW p \in Process, TemporaryGone(p) PROVE TypeInv'
  BY <1>10, ReturnsTyped DEF TypeInv, TypeOK, TemporaryGone
<1>11. ASSUME NEW p \in Process, ReplaceFails(p) PROVE TypeInv'
  <2>1. faults' \in 0..MaxFaults
    BY <1>11, ConfigAssumption DEF ReplaceFails, Fault, TypeInv, TypeOK
  <2>. QED BY <1>11, <2>1, ReturnsTyped DEF TypeInv, TypeOK, ReplaceFails
<1>12. ASSUME NEW p \in Process, Kill(p) PROVE TypeInv'
  <2>1. faults' \in 0..MaxFaults
    BY <1>12, ConfigAssumption DEF Kill, Fault, TypeInv, TypeOK
  <2>. QED BY <1>12, <2>1, ReturnsTyped DEF TypeInv, TypeOK, Kill
<1>13. CASE UNCHANGED vars
  BY <1>13 DEF TypeInv, TypeOK, vars, Saving
<1>. QED
  BY <1>1, <1>2, <1>3, <1>4, <1>5, <1>6, <1>7, <1>8, <1>9, <1>10, <1>11, <1>12, <1>13
  DEF Next, Step

\* A machine starts with no configuration or with one that was created.
LEMMA TypeInit == Init => TypeInv
<1> SUFFICES ASSUME Init PROVE TypeInv
  OBVIOUS
<1>1. content \in [Inode -> Config \cup {Empty, Torn}] /\ issued \subseteq MachineID
  BY CreatedLemma DEF Init
<1>. QED BY <1>1, LoadIsJob, ConfigAssumption DEF Init, TypeInv, TypeOK, Saving

\* Every variable keeps its type, whatever saves overlap and fail.
THEOREM ConfigTypeCorrect == Spec => []TypeOK
<1>1. TypeInv => TypeOK
  BY DEF TypeInv
<1>. QED BY <1>1, TypeInit, TypeStep, PTL DEF Spec
-----------------------------------------------------------------------------
(* A configured machine keeps its ID, with any number of writers.          *)

\* The ID is that of every configuration that is in a file, in a process or
\* was ever shown: of the temporary files and of what a process still works
\* on, too, because any of them can become config.json.
OneID ==
  /\ path # None
  /\ \E id \in MachineID :
       /\ shown = {id}
       /\ \A i \in Inode : content[i] \in Config => content[i].id = id
       /\ \A p \in Process : cfg[p] \in Config => cfg[p].id = id

\* What is shown has the one ID if what is in the files has it.
LEMMA ShowsOneID ==
  ASSUME TypeInv', Shows, NEW id \in MachineID, shown = {id},
         \A i \in Inode : content'[i] \in Config => content'[i].id = id
  PROVE  shown' = {id}
<1>1. File' \in Config => File'.id = id
  BY ConfigAssumption DEF File, TypeInv, TypeOK
<1>. QED BY <1>1 DEF Shows

\* Returning forgets the configuration in use.
LEMMA ReturnsOneID ==
  ASSUME TypeInv, NEW p \in Process, Returns(p), NEW id \in MachineID,
         \A q \in Process : cfg[q] \in Config => cfg[q].id = id
  PROVE  \A q \in Process : cfg'[q] \in Config => cfg'[q].id = id
  BY ConfigAssumption DEF Returns, TypeInv, TypeOK

\* No step brings another ID in.
LEMMA OneIDStep == TypeInv /\ TypeInv' /\ OneID /\ [Next]_vars => OneID'
<1> SUFFICES ASSUME TypeInv, TypeInv', OneID, [Next]_vars PROVE OneID'
  OBVIOUS
<1> PICK id \in MachineID :
       /\ shown = {id}
       /\ \A i \in Inode : content[i] \in Config => content[i].id = id
       /\ \A p \in Process : cfg[p] \in Config => cfg[p].id = id
  BY DEF OneID
<1>0. path # None /\ Empty \notin Config /\ Torn \notin Config
  BY ConfigAssumption DEF OneID
<1>1. ASSUME NEW p \in Process, NEW j \in Job, Begin(p, j) PROVE OneID'
  BY <1>0, <1>1 DEF Begin, OneID
<1>2. ASSUME NEW p \in Process, ReadFound(p) PROVE OneID'
  <2>1. UNCHANGED <<path, content, shown>>
    BY <1>2 DEF ReadFound
  <2>2. CASE Returns(p)
    BY <1>0, <2>1, <2>2, ReturnsOneID DEF OneID
  <2>3. CASE ~Returns(p)
    <3>1. File \in Config /\ File = content[path] /\ path \in Inode
      BY <1>0, <1>2, FileLemma DEF ReadFound, TypeInv, TypeOK
    <3>2. cfg' = [cfg EXCEPT ![p] = Changed(File, job[p])]
      BY <1>2, <2>3 DEF ReadFound
    <3>3. Changed(File, job[p]).id = id
      <4>1. job[p] \in Job
        BY DEF TypeInv, TypeOK
      <4>2. Changed(File, job[p]).id = File.id
        BY <3>1, <4>1, ChangedLemma
      <4>. QED BY <3>1, <4>2
    <3>4. \A q \in Process : cfg'[q] \in Config => cfg'[q].id = id
      BY <3>2, <3>3 DEF TypeInv, TypeOK
    <3>. QED BY <1>0, <2>1, <3>4 DEF OneID
  <2>. QED BY <2>2, <2>3
<1>3. ASSUME NEW p \in Process,
             ReadFails(p) \/ TemporaryGone(p) \/ ReplaceFails(p) \/ Kill(p)
      PROVE  OneID'
  <2>1. Returns(p) /\ UNCHANGED <<path, content, shown>>
    BY <1>3 DEF ReadFails, TemporaryGone, ReplaceFails, Kill
  <2>. QED BY <1>0, <2>1, ReturnsOneID DEF OneID
<1>4. ASSUME NEW p \in Process, NEW new \in MachineID, ReadCreates(p, new) PROVE FALSE
  BY <1>0, <1>4, FileLemma DEF ReadCreates, TypeInv
<1>5. ASSUME NEW p \in Process, Open(p) PROVE OneID'
  <2>1. \A i \in Inode : content'[i] \in Config => content'[i].id = id
    BY <1>0, <1>5 DEF Open, TypeInv, TypeOK
  <2>2. UNCHANGED <<path, cfg>> /\ Shows
    BY <1>5 DEF Open
  <2>. QED BY <1>0, <2>1, <2>2, ShowsOneID DEF OneID
<1>6. ASSUME NEW p \in Process, Write(p) PROVE OneID'
  <2>1. \A i \in Inode : content'[i] \in Config => content'[i].id = id
    <3>1. PICK written \in {cfg[p], Torn} : content' = [content EXCEPT ![fd[p]] = written]
      BY <1>6 DEF Write
    <3>. QED BY <1>0, <3>1 DEF TypeInv, TypeOK
  <2>2. UNCHANGED <<path, cfg>> /\ Shows
    BY <1>6 DEF Write
  <2>. QED BY <1>0, <2>1, <2>2, ShowsOneID DEF OneID
<1>7. ASSUME NEW p \in Process, WriteFails(p) PROVE OneID'
  <2>1. \A i \in Inode : content'[i] \in Config => content'[i].id = id
    BY <1>0, <1>7 DEF WriteFails, TypeInv, TypeOK
  <2>2. UNCHANGED path /\ Returns(p) /\ Shows
    BY <1>7 DEF WriteFails
  <2>. QED BY <1>0, <2>1, <2>2, ShowsOneID, ReturnsOneID DEF OneID
<1>8. ASSUME NEW p \in Process, Own(p) PROVE OneID'
  BY <1>0, <1>8 DEF Own, OneID
<1>9. ASSUME NEW p \in Process, Replace(p) PROVE OneID'
  <2>1. UNCHANGED content /\ path' # None /\ Shows
    BY <1>9 DEF Replace
  <2>2. \A q \in Process : cfg'[q] \in Config => cfg'[q].id = id
    <3>1. CASE Returns(p)
      BY <3>1, ReturnsOneID
    <3>2. CASE ~Returns(p)
      <4>1. cfg' = [cfg EXCEPT ![p] = Changed(cfg[p], job[p])] /\ cfg[p] \in Config
        BY <1>9, <3>2 DEF Replace, TypeInv, Saving
      <4>2. job[p] \in Job
        BY DEF TypeInv, TypeOK
      <4>3. Changed(cfg[p], job[p]).id = id
        BY <4>1, <4>2, ChangedLemma
      <4>. QED BY <4>1, <4>3 DEF TypeInv, TypeOK
    <3>. QED BY <3>1, <3>2
  <2>. QED BY <2>1, <2>2, ShowsOneID DEF OneID
<1>10. CASE UNCHANGED vars
  BY <1>0, <1>10 DEF vars, OneID
<1>. QED
  BY <1>1, <1>2, <1>3, <1>4, <1>5, <1>6, <1>7, <1>8, <1>9, <1>10 DEF Next, Step, OneID

\* A machine that has its configuration has one ID everywhere.
LEMMA OneIDInit == ConfiguredInit => OneID
<1> SUFFICES ASSUME ConfiguredInit PROVE OneID
  OBVIOUS
<1>1. PICK i \in Inode, id \in MachineID :
        /\ issued = {id}
        /\ content = [j \in Inode |-> IF j = i THEN Created(id) ELSE Empty]
  BY DEF ConfiguredInit, Init
<1>2. Created(id).id = id /\ Empty \notin Config /\ Missing \notin Config
  BY CreatedLemma, ConfigAssumption
<1>. QED BY <1>1, <1>2 DEF ConfiguredInit, Init, OneID

\* A machine that has a configuration never shows another ID, however many
\* commands write at once, fail or are killed.
THEOREM ConfiguredIDStable == ConfiguredSpec => []StableID
<1>1. ConfiguredInit => TypeInv
  BY TypeInit DEF ConfiguredInit
<1>2. OneID => StableID
  BY FS_Singleton DEF OneID, StableID
<1>. QED BY <1>1, <1>2, TypeStep, OneIDInit, OneIDStep, PTL DEF ConfiguredSpec
-----------------------------------------------------------------------------
(* One writer at a time.                                                   *)

\* Only one process is in a command that writes.
OneWriter == \A p, q \in Process : MayWrite(p) /\ MayWrite(q) => p = q

\* How far the save of p is.  A configuration is created only while there is
\* no file; every other one is a change of the file as it is now.
Progress(p) ==
  /\ creating[p] => path = None /\ \E id \in MachineID : cfg[p] = Created(id)
  /\ ~creating[p] => /\ path # None /\ job[p].op # "load"
                     /\ cfg[p] = Changed(File, job[p])
  /\ pc[p] # "open" => tmp # None /\ fd[p] = tmp
  /\ pc[p] = "write" => content[tmp] = Empty
  /\ pc[p] \in {"own", "replace"} => content[tmp] = cfg[p]

\* config.json is whole, has another inode than the temporary file, and is
\* all that was ever shown; a save in progress is as far as its process is.
SaveInv ==
  /\ tmp # None => tmp # path
  /\ path # None => content[path] \in Config
  /\ shown = {f.id : f \in {File} \cap Config}
  /\ \A p \in Process : creating[p] => Saving(p)
  /\ \A p \in Process : Saving(p) => Progress(p)

OneWriterInv == TypeInv /\ OneWriter /\ SaveInv

\* A command that is saving is one that may write.
LEMMA SavingWrites ==
  ASSUME NEW p \in Process, Saving(p) PROVE MayWrite(p)
  BY DEF Saving, MayWrite

\* Only the start of a command makes a process a writer: config.json never
\* goes away again, so that a load that has found it stays a reader.
LEMMA WritersStep ==
  ASSUME TypeInv, [Next]_vars, NEW q \in Process, MayWrite(q)'
  PROVE  \/ MayWrite(q)
         \/ /\ Cardinality({r \in Process : MayWrite(r)}) < MaxWriters
            /\ \A r \in Process \ {q} : MayWrite(r)' => MayWrite(r)
<1>1. ASSUME NEW p \in Process, NEW j \in Job, Begin(p, j), q # p PROVE MayWrite(q)
  BY <1>1 DEF Begin, Goes, MayWrite, TypeInv, TypeOK
<1>2. ASSUME NEW j \in Job, Begin(q, j)
      PROVE  /\ Cardinality({r \in Process : MayWrite(r)}) < MaxWriters
             /\ \A r \in Process \ {q} : MayWrite(r)' => MayWrite(r)
  BY <1>2 DEF Begin, Goes, MayWrite, TypeInv, TypeOK
<1>3. ASSUME NEW p \in Process, Step(p), \A j \in Job : ~Begin(p, j) PROVE MayWrite(q)
  <2>1. path # None => path' # None
    BY <1>3 DEF Step, ReadFound, ReadFails, ReadCreates, Open, Write, WriteFails, Own,
                Replace, TemporaryGone, ReplaceFails, Kill
  <2>2. CASE Returns(p)
    BY <2>1, <2>2 DEF Returns, MayWrite, TypeInv, TypeOK
  <2>3. CASE ~Returns(p)
    <3>1. UNCHANGED job /\ pc[p] # "idle" /\ (pc[p] = "read" /\ job[p].op = "load" => path = None)
          /\ \E next \in {"open", "write", "own", "replace"} : Goes(p, next)
      BY <1>3, <2>3, FileLemma
      DEF Step, ReadFound, ReadFails, ReadCreates, Open, Write, WriteFails, Own,
          Replace, TemporaryGone, ReplaceFails, Kill, TypeInv
    <3>. QED BY <2>1, <3>1 DEF Goes, MayWrite, TypeInv, TypeOK
  <2>. QED BY <2>2, <2>3
<1>4. CASE UNCHANGED vars
  BY <1>4 DEF vars, MayWrite
<1>. QED BY <1>1, <1>2, <1>3, <1>4 DEF Next, Step

\* If one writer at a time is allowed there is never a second.
LEMMA OneWriterStep ==
  ASSUME MaxWriters = 1
  PROVE  TypeInv /\ OneWriter /\ [Next]_vars => OneWriter'
<1> SUFFICES ASSUME TypeInv, OneWriter, [Next]_vars,
                    NEW p \in Process, NEW q \in Process, MayWrite(p)', MayWrite(q)', p # q
             PROVE  FALSE
  BY DEF OneWriter
<1> DEFINE W == {r \in Process : MayWrite(r)}
<1>1. Cardinality(W) < 1 => W = {}
  <2>1. IsFiniteSet(W)
    BY ConfigAssumption, FS_Subset
  <2>. QED BY <2>1, FS_CardinalityType, FS_EmptySet
<1>2. CASE MayWrite(p) /\ MayWrite(q)
  BY <1>2 DEF OneWriter
<1>3. CASE ~MayWrite(p)
  BY <1>1, <1>3, WritersStep
<1>4. CASE ~MayWrite(q)
  BY <1>1, <1>4, WritersStep
<1>. QED BY <1>2, <1>3, <1>4

\* A save is where it was if nothing it depends on has changed.
LEMMA ProgressStays ==
  ASSUME NEW q \in Process, Progress(q), UNCHANGED <<path, tmp, content>>,
         cfg'[q] = cfg[q], job'[q] = job[q], creating'[q] = creating[q],
         pc'[q] = pc[q], fd'[q] = fd[q]
  PROVE  Progress(q)'
<1>1. File' = File
  BY DEF File
<1>. QED BY <1>1 DEF Progress

\* A step that touches no file and starts no save keeps the invariant.
LEMMA ReaderStep ==
  ASSUME TypeInv, SaveInv, NEW p \in Process,
         Returns(p) \/ \E j \in Job : Begin(p, j),
         UNCHANGED <<path, tmp, content, shown>>
  PROVE  SaveInv' /\ File' = File
<1>1. File' = File
  BY DEF File
<1>2. ASSUME NEW q \in Process, Saving(q)' PROVE Progress(q)'
  <2>1. Saving(q) /\ cfg'[q] = cfg[q] /\ job'[q] = job[q] /\ creating'[q] = creating[q]
        /\ pc'[q] = pc[q] /\ fd'[q] = fd[q]
    BY <1>2 DEF Returns, Begin, Goes, Saving, TypeInv, TypeOK
  <2>. QED BY <2>1, ProgressStays DEF SaveInv
<1>3. ASSUME NEW q \in Process, creating'[q] PROVE Saving(q)'
  BY <1>3 DEF SaveInv, Returns, Begin, Goes, Saving, TypeInv, TypeOK
<1>. QED BY <1>1, <1>2, <1>3 DEF SaveInv

\* A step of the one writer that leaves the file alone: its own progress is
\* all there is to show.
LEMMA WriterStep ==
  ASSUME TypeInv, OneWriter, SaveInv, NEW p \in Process, MayWrite(p),
         \A q \in Process \ {p} : pc'[q] = pc[q] /\ creating'[q] = creating[q],
         path' = path, tmp' # None => tmp' # path,
         path # None => content'[path] = content[path],
         UNCHANGED shown \/ Shows,
         creating'[p] => Saving(p)', Saving(p)' => Progress(p)'
  PROVE  SaveInv' /\ File' = File
<1>1. File' = File
  BY DEF File
<1>2. ASSUME NEW q \in Process, Saving(q)' PROVE q = p
  <2>1. q # p => Saving(q)
    BY <1>2 DEF Saving
  <2>. QED BY <2>1, SavingWrites DEF OneWriter
<1>3. shown' = shown
  BY <1>1 DEF SaveInv, Shows
<1>4. ASSUME NEW q \in Process, creating'[q] PROVE Saving(q)'
  BY <1>4 DEF SaveInv, Saving
<1>. QED BY <1>1, <1>2, <1>3, <1>4 DEF SaveInv

\* With one writer every step keeps config.json whole, and only the rename
\* of a save changes what a reader finds.
LEMMA SaveStep ==
  TypeInv /\ TypeInv' /\ OneWriter /\ SaveInv /\ [Next]_vars =>
    SaveInv' /\ (File' = File \/ \E p \in Process : Replace(p))
<1> SUFFICES ASSUME TypeInv, TypeInv', OneWriter, SaveInv, [Next]_vars
             PROVE  SaveInv' /\ (File' = File \/ \E p \in Process : Replace(p))
  OBVIOUS
<1>1. ASSUME NEW p \in Process, NEW j \in Job, Begin(p, j) PROVE SaveInv' /\ File' = File
  BY <1>1, ReaderStep DEF Begin
<1>2. ASSUME NEW p \in Process, ReadFound(p) PROVE SaveInv' /\ File' = File
  <2>1. CASE Returns(p)
    BY <1>2, <2>1, ReaderStep DEF ReadFound
  <2>2. CASE ~Returns(p)
    <3>1. /\ MayWrite(p) /\ pc' = [pc EXCEPT ![p] = "open"]
          /\ cfg' = [cfg EXCEPT ![p] = Changed(File, job[p])]
          /\ job[p].op # "load" /\ path # None
          /\ UNCHANGED <<job, creating, path, tmp, content, shown>>
      BY <1>2, <2>2, FileLemma, ConfigAssumption DEF ReadFound, Goes, MayWrite, TypeInv
    <3>2. ~creating[p]
      BY <1>2 DEF ReadFound, SaveInv, Saving
    <3>3. Progress(p)'
      BY <3>1, <3>2 DEF Progress, File, TypeInv, TypeOK
    <3>. QED BY <3>1, <3>2, <3>3, WriterStep DEF SaveInv, TypeInv, TypeOK
  <2>. QED BY <2>1, <2>2
<1>3. ASSUME NEW p \in Process, ReadFails(p) PROVE SaveInv' /\ File' = File
  BY <1>3, ReaderStep DEF ReadFails
<1>4. ASSUME NEW p \in Process, NEW id \in MachineID, ReadCreates(p, id)
      PROVE  SaveInv' /\ File' = File
  <2>1. /\ MayWrite(p) /\ path = None /\ pc' = [pc EXCEPT ![p] = "open"]
        /\ cfg' = [cfg EXCEPT ![p] = Created(id)]
        /\ creating' = [creating EXCEPT ![p] = TRUE]
        /\ UNCHANGED <<job, path, tmp, content, shown>>
    BY <1>4, FileLemma DEF ReadCreates, Goes, MayWrite, TypeInv
  <2>2. Progress(p)' /\ Saving(p)'
    BY <2>1 DEF Progress, Saving, TypeInv, TypeOK
  <2>. QED BY <2>1, <2>2, WriterStep DEF SaveInv, TypeInv, TypeOK
<1>5. ASSUME NEW p \in Process, Open(p) PROVE SaveInv' /\ File' = File
  <2>1. PICK i \in Inode : /\ i \in IF tmp = None THEN Inode \ InUse ELSE {tmp}
                           /\ tmp' = i /\ fd' = [fd EXCEPT ![p] = i]
                           /\ content' = [content EXCEPT ![i] = Empty]
    BY <1>5 DEF Open, TypeInv, TypeOK
  <2>2. i # path
    BY <2>1 DEF InUse, SaveInv
  <2>3. /\ Saving(p) /\ MayWrite(p) /\ pc' = [pc EXCEPT ![p] = "write"]
        /\ UNCHANGED <<path, job, cfg, creating>> /\ Shows
    BY <1>5, SavingWrites DEF Open, Goes, Saving
  <2>4. Progress(p)' /\ Saving(p)'
    <3>1. File' = File
      BY <2>1, <2>2, <2>3 DEF File, TypeInv, TypeOK
    <3>2. pc'[p] = "write" /\ tmp' = i /\ fd'[p] = i /\ content'[i] = Empty /\ i # None
      BY <2>1, <2>3, ConfigAssumption DEF TypeInv, TypeOK
    <3>. QED BY <2>3, <3>1, <3>2 DEF SaveInv, Progress, Saving
  <2>. QED BY <2>1, <2>2, <2>3, <2>4, WriterStep DEF SaveInv, TypeInv, TypeOK
<1>6. ASSUME NEW p \in Process, Write(p) PROVE SaveInv' /\ File' = File
  <2>1. /\ Saving(p) /\ MayWrite(p) /\ pc' = [pc EXCEPT ![p] = "own"]
        /\ UNCHANGED <<path, tmp, job, cfg, creating, fd>> /\ Shows
    BY <1>6, SavingWrites DEF Write, Goes, Saving
  <2>2. Progress(p) /\ pc[p] = "write" /\ (tmp # None => tmp # path)
    BY <1>6, <2>1 DEF Write, SaveInv
  <2>3. tmp # None /\ fd[p] = tmp /\ content[tmp] = Empty /\ tmp # path
    BY <2>2 DEF Progress
  <2>4. tmp \in Inode
    BY <2>3 DEF TypeInv, TypeOK
  <2>5. content' = [content EXCEPT ![tmp] = cfg[p]]
    BY <1>6, <2>3 DEF Write
  <2>6. Progress(p)' /\ Saving(p)'
    <3>1. File' = File
      BY <2>1, <2>3, <2>5 DEF File, TypeInv, TypeOK
    <3>2. pc'[p] = "own" /\ content'[tmp] = cfg[p]
      BY <2>1, <2>4, <2>5 DEF TypeInv, TypeOK
    <3>. QED BY <2>1, <2>2, <2>3, <3>1, <3>2 DEF Progress, Saving
  <2>. QED BY <2>1, <2>3, <2>5, <2>6, WriterStep DEF SaveInv, TypeInv, TypeOK
<1>7. ASSUME NEW p \in Process, WriteFails(p) PROVE SaveInv' /\ File' = File
  <2>1. Saving(p) /\ MayWrite(p) /\ Returns(p) /\ UNCHANGED <<path, tmp>> /\ Shows
    BY <1>7, SavingWrites DEF WriteFails, Saving
  <2>2. fd[p] = tmp /\ tmp # path /\ content' = [content EXCEPT ![tmp] = Torn]
    BY <1>7, <2>1 DEF WriteFails, SaveInv, Progress
  <2>. QED BY <2>1, <2>2, WriterStep DEF SaveInv, Returns, Saving, TypeInv, TypeOK
<1>8. ASSUME NEW p \in Process, Own(p) PROVE SaveInv' /\ File' = File
  <2>1. /\ Saving(p) /\ MayWrite(p) /\ pc' = [pc EXCEPT ![p] = "replace"]
        /\ UNCHANGED <<path, tmp, content, job, cfg, creating, fd, shown>>
    BY <1>8, SavingWrites DEF Own, Goes, Saving
  <2>2. Progress(p)' /\ Saving(p)'
    <3>1. File' = File /\ pc'[p] = "replace" /\ pc[p] = "own"
      BY <1>8, <2>1 DEF Own, File, TypeInv, TypeOK
    <3>. QED BY <2>1, <3>1 DEF SaveInv, Progress, Saving
  <2>. QED BY <2>1, <2>2, WriterStep DEF SaveInv, TypeInv, TypeOK
<1>9. ASSUME NEW p \in Process, Replace(p) PROVE SaveInv'
  <2>1. /\ Saving(p) /\ pc[p] = "replace" /\ tmp # None
        /\ path' = tmp /\ tmp' = None /\ UNCHANGED content /\ Shows
    BY <1>9 DEF Replace, Saving
  <2>2. Progress(p) /\ cfg[p] \in Config /\ job[p] \in Job
    BY <2>1 DEF SaveInv, TypeInv, TypeOK
  <2>3. File' = cfg[p] /\ content'[path'] = cfg[p]
    BY <2>1, <2>2 DEF Progress, File
  <2>4. shown' = {f.id : f \in {File'} \cap Config}
    <3>1. CASE creating[p]
      <4>1. File \notin Config
        BY <2>2, <3>1, ConfigAssumption DEF Progress, File
      <4>. QED BY <2>1, <4>1 DEF SaveInv, Shows
    <3>2. CASE ~creating[p]
      <4>1. path # None /\ cfg[p] = Changed(File, job[p]) /\ File \in Config
        BY <2>2, <3>2 DEF Progress, SaveInv, File
      <4>2. cfg[p].id = File.id
        BY <2>2, <4>1, ChangedLemma
      <4>. QED BY <2>1, <2>2, <2>3, <4>1, <4>2 DEF SaveInv, Shows
    <3>. QED BY <3>1, <3>2
  <2>5. ASSUME NEW q \in Process, Saving(q)' PROVE q = p
    <3>1. q # p => Saving(q)
      BY <1>9, <2>5 DEF Replace, Returns, Goes, Saving, TypeInv, TypeOK
    <3>. QED BY <2>1, <3>1, SavingWrites DEF OneWriter
  <2>6. Saving(p)' => Progress(p)'
    <3>1. CASE Returns(p)
      BY <3>1 DEF Returns, Saving, TypeInv, TypeOK
    <3>2. CASE ~Returns(p)
      <4>1. /\ job' = job /\ job[p].op # "load" /\ pc' = [pc EXCEPT ![p] = "open"]
            /\ cfg' = [cfg EXCEPT ![p] = Changed(cfg[p], job[p])]
            /\ creating' = [creating EXCEPT ![p] = FALSE]
        BY <1>9, <3>2 DEF Replace, Goes
      <4>. QED BY <2>1, <2>3, <4>1 DEF Progress, TypeInv, TypeOK
    <3>. QED BY <3>1, <3>2
  <2>7. ASSUME NEW q \in Process PROVE ~creating'[q]
    <3>1. ~creating'[p]
      BY <1>9 DEF Replace, Returns, TypeInv, TypeOK
    <3>2. q # p => ~creating[q]
      BY <2>1, SavingWrites DEF SaveInv, OneWriter
    <3>. QED BY <1>9, <3>1, <3>2 DEF Replace, Returns, TypeInv, TypeOK
  <2>. QED BY <2>1, <2>2, <2>3, <2>4, <2>5, <2>6, <2>7 DEF SaveInv
<1>10. ASSUME NEW p \in Process, TemporaryGone(p) PROVE SaveInv' /\ File' = File
  BY <1>10, ReaderStep DEF TemporaryGone
<1>11. ASSUME NEW p \in Process, ReplaceFails(p) PROVE SaveInv' /\ File' = File
  <2>1. Saving(p) /\ MayWrite(p) /\ Returns(p) /\ tmp' = None /\ UNCHANGED <<path, content, shown>>
    BY <1>11, SavingWrites DEF ReplaceFails, Saving
  <2>. QED BY <2>1, WriterStep DEF Returns, Saving, TypeInv, TypeOK
<1>12. ASSUME NEW p \in Process, Kill(p) PROVE SaveInv' /\ File' = File
  BY <1>12, ReaderStep DEF Kill
<1>13. CASE UNCHANGED vars
  BY <1>13 DEF vars, SaveInv, Saving, Progress, File
<1>. QED
  BY <1>1, <1>2, <1>3, <1>4, <1>5, <1>6, <1>7, <1>8, <1>9, <1>10, <1>11, <1>12, <1>13
  DEF Next, Step

\* At first nothing is being saved.
LEMMA OneWriterInit == Init => OneWriterInv
<1> SUFFICES ASSUME Init PROVE OneWriterInv
  OBVIOUS
<1>1. OneWriter
  BY DEF Init, OneWriter, MayWrite
<1>2. (path # None => content[path] \in Config) /\ shown = {f.id : f \in {File} \cap Config}
  <2>1. CASE path = None /\ issued = {} /\ content = [i \in Inode |-> Empty]
    BY <2>1, ConfigAssumption DEF Init, File
  <2>2. ASSUME NEW i \in Inode, NEW id \in MachineID, path = i, issued = {id},
               content = [j \in Inode |-> IF j = i THEN Created(id) ELSE Empty]
        PROVE  (path # None => content[path] \in Config)
                 /\ shown = {f.id : f \in {File} \cap Config}
    <3>1. File = Created(id) /\ content[path] = Created(id)
      BY <2>2, ConfigAssumption DEF File
    <3>. QED BY <2>2, <3>1, CreatedLemma DEF Init
  <2>. QED BY <2>1, <2>2 DEF Init
<1>. QED BY <1>1, <1>2, TypeInit DEF Init, OneWriterInv, SaveInv, Saving

\* The inductive invariant of one writer at a time.
THEOREM OneWriterInvariant ==
  ASSUME MaxWriters = 1 PROVE Spec => []OneWriterInv
<1>1. OneWriterInv /\ [Next]_vars => OneWriterInv'
  BY TypeStep, OneWriterStep, SaveStep DEF OneWriterInv
<1>. QED BY <1>1, OneWriterInit, PTL DEF Spec

\* With one writer at a time a reader finds a whole configuration or none,
\* whatever was killed or failed half way through a save.
THEOREM OneWriterReadable ==
  ASSUME MaxWriters = 1 PROVE Spec => []AlwaysReadable
<1>1. OneWriterInv => AlwaysReadable
  BY DEF OneWriterInv, SaveInv, AlwaysReadable
<1>. QED BY <1>1, OneWriterInvariant, PTL

\* With one writer at a time config.json has one ID even across the first run.
THEOREM OneWriterIDStable ==
  ASSUME MaxWriters = 1 PROVE Spec => []StableID
<1>1. OneWriterInv => StableID
  <2> SUFFICES ASSUME OneWriterInv PROVE StableID
    OBVIOUS
  <2>1. shown = {} \/ shown = {File.id}
    BY DEF OneWriterInv, SaveInv
  <2>2. Cardinality({}) = 0 /\ Cardinality({File.id}) = 1
    BY FS_EmptySet, FS_Singleton
  <2>. QED BY <2>1, <2>2 DEF StableID
<1>. QED BY <1>1, OneWriterInvariant, PTL

-----------------------------------------------------------------------------
(* Refinement.                                                             *)

\* A machine starts with a configuration or without.
LEMMA AtomicInit == Init => Atomic!Init
<1>1. OneWriterInv => Atomic!Init
  BY DEF OneWriterInv, SaveInv, Atomic!Init, Atomic!Config, File, Config
<1>. QED BY <1>1, OneWriterInit

\* The rename of a save is the creation of the configuration, or one rename
\* or one group of the current one.
LEMMA AtomicReplace ==
  ASSUME OneWriterInv, NEW p \in Process, Replace(p)
  PROVE  Atomic!Next
<1>1. Saving(p) /\ Progress(p) /\ pc[p] = "replace" /\ tmp # None /\ path' = tmp /\ content' = content
  BY DEF OneWriterInv, SaveInv, Saving, Replace
<1>2. File' = cfg[p] /\ job[p] \in Job
  BY <1>1 DEF Progress, File, OneWriterInv, TypeInv, TypeOK
<1>3. CASE creating[p]
  <2>1. File = Missing /\ \E id \in MachineID : File' = Created(id)
    BY <1>1, <1>2, <1>3 DEF Progress, File
  <2>. QED BY <2>1 DEF Atomic!Next, Atomic!Create, Atomic!Created, Created
<1>4. CASE ~creating[p]
  <2>1. /\ File' = Changed(File, job[p]) /\ job[p].op # "load"
        /\ File \in Config /\ File # Missing
    BY <1>1, <1>2, <1>4, ConfigAssumption DEF Progress, File, OneWriterInv, SaveInv
  <2>2. \/ \E n \in Nickname : File' = [File EXCEPT !.nickname = n]
        \/ \E g \in Group : File' = [File EXCEPT !.group = g]
    BY <1>2, <2>1, ChangedLemma
  <2>. QED BY <2>1, <2>2 DEF Atomic!Next, Atomic!Rename, Atomic!SetGroup
<1>. QED BY <1>3, <1>4

\* With one writer at a time the steps of a command are together one change
\* of the current configuration, or nothing when it fails or is killed.
THEOREM OneWriterActsAtomically ==
  ASSUME MaxWriters = 1 PROVE Spec => ActsAtomically
<1>1. OneWriterInv /\ OneWriterInv' /\ [Next]_vars => [Atomic!Next]_File
  BY SaveStep, AtomicReplace DEF OneWriterInv
<1>. QED BY <1>1, AtomicInit, OneWriterInvariant, PTL DEF Spec, ActsAtomically, Atomic!Spec
=============================================================================
