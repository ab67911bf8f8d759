---------------------------- MODULE AgentProofs ----------------------------
(***************************************************************************)
(* Theorems about Agent, for every set of machines, names and addresses,   *)
(* every interval, TTL and lag the options admit, and every bound.         *)
(***************************************************************************)
EXTENDS Agent, PeerStoreProofs

-----------------------------------------------------------------------------
(* Type correctness.                                                       *)

\* What this machine announces and what it hears are announcements.
LEMMA AnnouncementsTyped ==
  /\ TypeOK => Own \in Announcement
  /\ \A d \in Heard : d.ann \in Announcement /\ d.address \in Address
  BY AgentAssumption DEF TypeOK, Own, Announcement, Datagram

\* The variables a process leaves behind when it ends have their types.
LEMMA ExitTyped ==
  ASSUME TypeOK, NEW how \in {"shutdown", "readError", "killed"}, Exit(how)
  PROVE  /\ pc' = "down" /\ exit' = how /\ after' = "loop"
         /\ stopping' \in BOOLEAN /\ readFailed' \in BOOLEAN /\ dirty' \in BOOLEAN
         /\ IsStore(peers')
         /\ incoming' \in Seq(Heard) /\ Len(incoming') <= QueueSize
<1>1. pc' = "down" /\ exit' = how /\ after' = "loop"
  BY DEF Exit
<1>2. stopping' \in BOOLEAN /\ readFailed' \in BOOLEAN /\ dirty' \in BOOLEAN
  BY DEF Exit
<1>3. IsStore(peers')
  BY NoPeersLemma DEF Exit
<1>4. incoming' \in Seq(Heard) /\ Len(incoming') <= QueueSize
  BY AgentAssumption DEF Exit
<1>. QED BY <1>1, <1>2, <1>3, <1>4

\* Recording whether a write succeeded keeps the types of current and faults.
LEMMA ReportTyped ==
  ASSUME TypeOK, NEW file \in Written, NEW ok \in BOOLEAN, Report(file, ok)
  PROVE  /\ current' = IF ok THEN current \cup {file} ELSE current \ {file}
         /\ current' \subseteq Written /\ faults' \in 0..MaxFaults
<1>1. CASE ok /\ current' = current \cup {file} /\ UNCHANGED faults
  BY <1>1 DEF TypeOK
<1>2. CASE ~ok /\ current' = current \ {file} /\ Fault
  BY <1>2, AgentAssumption DEF TypeOK, Fault
<1>. QED BY <1>1, <1>2 DEF Report

\* So do both ways a flush returns with the variables of the process.
LEMMA FlushReturnsTyped ==
  ASSUME TypeOK, FlushReturns
  PROVE  /\ pc' \in {"loop", "down"} /\ after' \in {"loop", "down"}
         /\ exit' \in {"none", "shutdown", "readError", "killed"}
         /\ stopping' \in BOOLEAN /\ readFailed' \in BOOLEAN /\ dirty' \in BOOLEAN
         /\ IsStore(peers')
         /\ incoming' \in Seq(Heard) /\ Len(incoming') <= QueueSize
<1>1. CASE after = "down" /\ Exit("shutdown")
  BY <1>1, ExitTyped
<1>2. CASE /\ after = "loop" /\ pc' = "loop"
           /\ UNCHANGED <<after, stopping, readFailed, exit, peers, incoming, dirty>>
  BY <1>2 DEF TypeOK
<1>. QED BY <1>1, <1>2 DEF FlushReturns

\* The initial states are well typed.
LEMMA TypingInit == Init => TypeOK
<1>. SUFFICES ASSUME Init PROVE TypeOK
  OBVIOUS
<1>1. IsStore(peers) /\ IsStore(cache) /\ IsKnownHosts(knownHosts)
  BY NoPeersLemma DEF Init
<1>2. incoming \in Seq(Heard) /\ Len(incoming) <= QueueSize
  BY AgentAssumption DEF Init
<1>3. stopping \in BOOLEAN /\ readFailed \in BOOLEAN /\ dirty \in BOOLEAN
  BY DEF Init
<1>. QED BY <1>1, <1>2, <1>3, AgentAssumption DEF Init, TypeOK

\* Every variable keeps its type.
LEMMA TypingStep == TypeOK /\ [Next]_vars => TypeOK'
<1>. SUFFICES ASSUME TypeOK, [Next]_vars PROVE TypeOK'
  OBVIOUS
<1>. USE AgentAssumption, TimingAssumption
<1>1. CASE UNCHANGED vars
  BY <1>1 DEF vars, TypeOK, process, timers, files, history
<1>2. CASE Tick
  BY <1>2 DEF Tick, TypeOK, process, timers, files, history
<1>3. CASE Signal
  BY <1>3 DEF Signal, Fault, TypeOK, timers, files, history
<1>4. CASE Kill
  <2>1. Exit("killed") /\ faults' \in 0..MaxFaults
    BY <1>4 DEF Kill, Fault, TypeOK
  <2>. QED BY <1>4, <2>1, ExitTyped DEF Kill, TypeOK, timers, files, history
<1>5. ASSUME NEW n \in OwnNickname, Rename(n) PROVE TypeOK'
  BY <1>5 DEF Rename, TypeOK, process, timers, files, history
<1>6. ASSUME NEW sent \in SUBSET OwnAddress, Start(sent) PROVE TypeOK'
  <2>1. IsStore(Prune(cache, clock - TTL)) /\ Own \in Announcement
    BY PruneLemma, AnnouncementsTyped DEF TypeOK
  <2>2. IsStore(Observe(Prune(cache, clock - TTL), Own, sent, clock))
    BY <2>1, ObserveLemma DEF TypeOK
  <2>3. IsStore(peers')
    BY <1>6, <2>2 DEF Start, Advertised
  <2>4. stopping' \in BOOLEAN /\ readFailed' \in BOOLEAN /\ dirty' \in BOOLEAN
    BY <1>6 DEF Start, Advertised, TypeOK
  <2>5. announceAt' \in Nat /\ flushAt' \in Nat /\ flushedAt' \in Nat
    BY <1>6 DEF Start, Advertised, TypeOK
  <2>6. current' \subseteq Written /\ exit' = "none" /\ faults' \in 0..MaxFaults
    BY <1>6 DEF Start, Advertised, TypeOK
  <2>7. IsStore(cache') /\ hosts' \subseteq HostsEntry
          /\ IsKnownHosts(knownHosts') /\ sshConfig' \subseteq SSHBlock
    BY <1>6 DEF Start, Advertised, TypeOK, files
  <2>8. incoming' \in Seq(Heard) /\ Len(incoming') <= QueueSize
    BY <1>6 DEF Start, Advertised, TypeOK
  <2>. QED BY <1>6, <2>3, <2>4, <2>5, <2>6, <2>7, <2>8 DEF Start, Advertised, TypeOK
<1>7. ASSUME NEW ok \in BOOLEAN, FlushSave(ok) PROVE TypeOK'
  <2> DEFINE pruned == Prune(peers, clock - TTL)
  <2>1. IsStore(pruned)
    BY PruneLemma DEF TypeOK
  <2>2. current' \subseteq Written /\ faults' \in 0..MaxFaults
    BY <1>7, ReportTyped DEF FlushSave, Written
  <2>3. IsStore(cache') /\ flushedAt' \in Nat
    BY <1>7, <2>1 DEF FlushSave, TypeOK
  <2>4. CASE Exit("shutdown")
    BY <1>7, <2>2, <2>3, <2>4, ExitTyped DEF FlushSave, TypeOK, timers
  <2>5. CASE pc' \in {"hosts", "loop"} /\ peers' = pruned
              /\ UNCHANGED <<after, stopping, readFailed, exit, incoming, dirty>>
    BY <1>7, <2>1, <2>2, <2>3, <2>5 DEF FlushSave, TypeOK, timers
  <2>. QED BY <1>7, <2>4, <2>5 DEF FlushSave
<1>8. ASSUME NEW ok \in BOOLEAN, FlushHosts(ok) PROVE TypeOK'
  <2>1. current' \subseteq Written /\ faults' \in 0..MaxFaults
    BY <1>8, ReportTyped DEF FlushHosts, Written
  <2>2. hosts' \subseteq HostsEntry
    BY <1>8, RenderLemma DEF FlushHosts, TypeOK
  <2>. QED BY <1>8, <2>1, <2>2 DEF FlushHosts, TypeOK, timers
<1>9. CASE FlushKnownHosts
  <2>1. IsKnownHosts(knownHosts')
    BY <1>9, RenderLemma DEF FlushKnownHosts, TypeOK
  <2>. QED BY <1>9, <2>1 DEF FlushKnownHosts, TypeOK, timers, history
<1>10. CASE FlushKnownHostsFails
  <2>1. current' \subseteq Written /\ faults' \in 0..MaxFaults
    BY <1>10, ReportTyped DEF FlushKnownHostsFails, Written
  <2>. QED BY <1>10, <2>1, FlushReturnsTyped DEF FlushKnownHostsFails, TypeOK, timers, files
<1>11. ASSUME NEW ok \in BOOLEAN, FlushSSHConfig(ok) PROVE TypeOK'
  <2>1. current' \subseteq Written /\ faults' \in 0..MaxFaults
    BY <1>11, ReportTyped DEF FlushSSHConfig, Written
  <2>2. sshConfig' \subseteq SSHBlock
    BY <1>11, RenderLemma DEF FlushSSHConfig, TypeOK
  <2>. QED BY <1>11, <2>1, <2>2, FlushReturnsTyped DEF FlushSSHConfig, TypeOK, timers
<1>12. ASSUME NEW sent \in SUBSET OwnAddress, AnnounceTick(sent) PROVE TypeOK'
  <2>1. IsStore(peers')
    BY <1>12, ObserveLemma, AnnouncementsTyped DEF AnnounceTick, Advertised, TypeOK
  <2>. QED BY <1>12, <2>1 DEF AnnounceTick, Advertised, TypeOK, process, files, history
<1>13. CASE FlushTick
  <2>1. dirty' \in BOOLEAN
    BY <1>13 DEF FlushTick
  <2>2. pc' \in {"save", "loop"}
    BY <1>13 DEF FlushTick
  <2>3. flushAt' \in Nat /\ announceAt' \in Nat
    BY <1>13 DEF FlushTick, TypeOK
  <2>. QED BY <1>13, <2>1, <2>2, <2>3 DEF FlushTick, TypeOK, files, history
<1>14. CASE TakeIncoming
  <2>1. Head(incoming) \in Heard /\ Tail(incoming) \in Seq(Heard)
          /\ Len(Tail(incoming)) <= QueueSize
    <3>1. incoming \in Seq(Heard) /\ incoming # <<>> /\ Len(incoming) <= QueueSize
      BY <1>14 DEF TakeIncoming, TypeOK
    <3>2. Len(Tail(incoming)) = Len(incoming) - 1 /\ Len(incoming) \in Nat
      BY <3>1
    <3>. QED BY <3>1, <3>2
  <2>2. IsStore(peers')
    BY <1>14, <2>1, ObserveLemma, AnnouncementsTyped DEF TakeIncoming, TypeOK
  <2>. QED BY <1>14, <2>1, <2>2 DEF TakeIncoming, TypeOK, process, timers, files, history
<1>15. CASE ReadErrorExit
  BY <1>15, ExitTyped DEF ReadErrorExit, TypeOK, timers, files, history
<1>16. CASE Shutdown
  <2>1. IsStore(peers')
    BY <1>16, PruneLemma DEF Shutdown, TypeOK
  <2>. QED BY <1>16, <2>1 DEF Shutdown, TypeOK, timers, files, history
<1>17. CASE ReadError
  BY <1>17 DEF ReadError, Fault, TypeOK, timers, files, history
<1>18. ASSUME NEW d \in Heard, Receive(d) PROVE TypeOK'
  <2>1. incoming' \in Seq(Heard) /\ Len(incoming') <= QueueSize
    BY <1>18 DEF Receive, TypeOK
  <2>. QED BY <1>18, <2>1 DEF Receive, TypeOK, process, timers, files, history
<1>. QED
  BY <1>1, <1>2, <1>3, <1>4, <1>5, <1>6, <1>7, <1>8, <1>9, <1>10, <1>11, <1>12,
     <1>13, <1>14, <1>15, <1>16, <1>17, <1>18
     DEF Next, Environment, Flush, Loop, Reader

\* The variables of an agent keep their types in every behaviour.
THEOREM TypeCorrect == Spec => []TypeOK
<1>. QED BY TypingInit, TypingStep, PTL DEF Spec

-----------------------------------------------------------------------------
(* The cadence of flushes.                                                 *)

InFlush == pc \in {"save", "hosts", "keys", "config"}

\* A flush that ends the process happens in a flush only.
AfterInv == after = "down" => InFlush

\* How far the two tickers can be from the clock and from the last flush.  A
\* clean map means that no announcement was made since the flush; a dirty one
\* was marked no later than the first announcement after it.
TimingInv ==
  Running =>
    /\ announceAt <= clock + Interval /\ flushAt <= clock + FlushEvery
    /\ clock <= announceAt + MaxLag /\ clock <= flushAt + MaxLag
    /\ pc \in {"hosts", "keys", "config"} => flushedAt = clock
    /\ InFlush /\ after = "loop" => dirty = FALSE
    /\ pc = "loop" /\ dirty = FALSE => announceAt <= flushedAt + Interval
    /\ pc = "loop" /\ dirty = TRUE =>
         flushAt <= flushedAt + Interval + MaxLag + FlushEvery

CadenceInv == TypeOK /\ AfterInv /\ TimingInv

\* A flush that returns to the loop leaves the map clean and just flushed.
LEMMA FlushReturnsInTime ==
  ASSUME CadenceInv, InFlush, FlushReturns,
         UNCHANGED <<clock, announceAt, flushAt>>, flushedAt' = clock
  PROVE  AfterInv' /\ TimingInv'
<1>. USE TimingAssumption
<1>1. CASE Exit("shutdown")
  BY <1>1 DEF Exit, AfterInv, TimingInv, Running
<1>2. CASE /\ after = "loop" /\ pc' = "loop"
           /\ UNCHANGED <<after, stopping, readFailed, exit, peers, incoming, dirty>>
  <2>1. AfterInv'
    BY <1>2 DEF AfterInv
  <2>2. dirty' = FALSE
    BY <1>2 DEF CadenceInv, TimingInv, Running, InFlush
  <2>. QED
    BY <1>2, <2>1, <2>2 DEF CadenceInv, TimingInv, Running, InFlush, TypeOK
<1>. QED BY <1>1, <1>2 DEF FlushReturns

\* The timers of a process that was never started meet the invariant.
LEMMA CadenceInit == Init => CadenceInv
  BY TypingInit DEF Init, CadenceInv, AfterInv, TimingInv, Running

\* Every step keeps the distance of the timers from the last flush.
LEMMA CadenceStep == CadenceInv /\ [Next]_vars => CadenceInv'
<1>. SUFFICES ASSUME CadenceInv, [Next]_vars PROVE AfterInv' /\ TimingInv'
  BY TypingStep DEF CadenceInv
<1>. USE TimingAssumption DEF CadenceInv
<1>1. CASE UNCHANGED vars
  BY <1>1 DEF vars, process, timers, history, AfterInv, TimingInv, Running, InFlush
<1>2. CASE Tick
  <2>1. UNCHANGED <<pc, after, dirty, announceAt, flushAt, flushedAt>>
          /\ clock' = clock + 1
    BY <1>2 DEF Tick, process, timers, history
  <2>2. CASE pc = "down"
    BY <2>1, <2>2 DEF AfterInv, TimingInv, Running, InFlush
  <2>3. CASE pc = "loop" /\ clock < announceAt + MaxLag /\ clock < flushAt + MaxLag
    BY <2>1, <2>3 DEF AfterInv, TimingInv, Running, InFlush, TypeOK
  <2>. QED BY <1>2, <2>2, <2>3 DEF Tick
<1>3. CASE Signal
  BY <1>3 DEF Signal, timers, history, AfterInv, TimingInv, Running, InFlush
<1>4. CASE Kill
  BY <1>4 DEF Kill, Exit, AfterInv, TimingInv, Running
<1>5. ASSUME NEW n \in OwnNickname, Rename(n) PROVE AfterInv' /\ TimingInv'
  BY <1>5 DEF Rename, process, timers, history, AfterInv, TimingInv, Running, InFlush
<1>6. ASSUME NEW sent \in SUBSET OwnAddress, Start(sent) PROVE AfterInv' /\ TimingInv'
  <2>1. pc' = "save" /\ after' = "loop" /\ dirty' = FALSE /\ clock' = clock
          /\ announceAt' = clock + Interval /\ flushAt' = clock + FlushEvery
    BY <1>6 DEF Start, Advertised
  <2>. QED BY <2>1 DEF AfterInv, TimingInv, InFlush, TypeOK
<1>7. ASSUME NEW ok \in BOOLEAN, FlushSave(ok) PROVE AfterInv' /\ TimingInv'
  <2>1. flushedAt' = clock /\ UNCHANGED <<clock, announceAt, flushAt>> /\ InFlush
    BY <1>7 DEF FlushSave, timers, InFlush
  <2>2. CASE Exit("shutdown")
    BY <2>2 DEF Exit, AfterInv, TimingInv, Running
  <2>3. CASE pc' = "hosts" /\ UNCHANGED <<after, dirty>>
    BY <2>1, <2>3 DEF AfterInv, TimingInv, InFlush, Running, TypeOK
  <2>4. CASE after = "loop" /\ pc' = "loop" /\ UNCHANGED <<after, dirty>>
    <3>1. dirty' = FALSE
      BY <2>1, <2>4 DEF TimingInv, Running, InFlush
    <3>. QED BY <2>1, <2>4, <3>1 DEF AfterInv, TimingInv, InFlush, Running, TypeOK
  <2>. QED BY <1>7, <2>2, <2>3, <2>4 DEF FlushSave
<1>8. ASSUME NEW ok \in BOOLEAN, FlushHosts(ok) PROVE AfterInv' /\ TimingInv'
  BY <1>8 DEF FlushHosts, timers, AfterInv, TimingInv, InFlush, Running
<1>9. CASE FlushKnownHosts
  BY <1>9 DEF FlushKnownHosts, timers, history, AfterInv, TimingInv, InFlush, Running
<1>10. CASE FlushKnownHostsFails
  <2>1. InFlush /\ flushedAt' = clock /\ UNCHANGED <<clock, announceAt, flushAt>>
    BY <1>10 DEF FlushKnownHostsFails, timers, InFlush, TimingInv, Running
  <2>. QED BY <1>10, <2>1, FlushReturnsInTime DEF FlushKnownHostsFails
<1>11. ASSUME NEW ok \in BOOLEAN, FlushSSHConfig(ok) PROVE AfterInv' /\ TimingInv'
  <2>1. InFlush /\ flushedAt' = clock /\ UNCHANGED <<clock, announceAt, flushAt>>
    BY <1>11 DEF FlushSSHConfig, timers, InFlush, TimingInv, Running
  <2>. QED BY <1>11, <2>1, FlushReturnsInTime DEF FlushSSHConfig
<1>12. ASSUME NEW sent \in SUBSET OwnAddress, AnnounceTick(sent)
       PROVE AfterInv' /\ TimingInv'
  <2>1. pc = "loop" /\ pc' = "loop" /\ clock >= announceAt /\ dirty' = TRUE
          /\ announceAt' = announceAt + Interval
          /\ UNCHANGED <<clock, after, flushAt, flushedAt>>
    BY <1>12 DEF AnnounceTick, Advertised, process, history
  <2>2. dirty = TRUE \/ dirty = FALSE
    BY DEF TypeOK
  <2>. QED BY <2>1, <2>2 DEF AfterInv, TimingInv, InFlush, Running, TypeOK
<1>13. CASE FlushTick
  <2>1. pc = "loop" /\ clock >= flushAt /\ dirty' = FALSE
          /\ flushAt' = flushAt + FlushEvery
          /\ UNCHANGED <<clock, after, announceAt, flushedAt>>
    BY <1>13 DEF FlushTick, history
  <2>2. \/ pc' = "save"
        \/ pc' = "loop" /\ dirty = FALSE
    BY <1>13 DEF FlushTick, TypeOK
  <2>. QED BY <2>1, <2>2 DEF AfterInv, TimingInv, InFlush, Running, TypeOK
<1>14. CASE TakeIncoming
  <2>1. pc = "loop" /\ pc' = "loop" /\ dirty' = TRUE
          /\ UNCHANGED <<clock, after, announceAt, flushAt, flushedAt>>
    BY <1>14 DEF TakeIncoming, process, timers, history
  <2>2. dirty = TRUE \/ dirty = FALSE
    BY DEF TypeOK
  <2>. QED BY <2>1, <2>2 DEF AfterInv, TimingInv, InFlush, Running, TypeOK
<1>15. CASE ReadErrorExit
  BY <1>15 DEF ReadErrorExit, Exit, AfterInv, TimingInv, Running
<1>16. CASE Shutdown
  BY <1>16 DEF Shutdown, timers, history, AfterInv, TimingInv, InFlush, Running
<1>17. CASE ReadError
  BY <1>17 DEF ReadError, timers, history, AfterInv, TimingInv, InFlush, Running
<1>18. ASSUME NEW d \in Heard, Receive(d) PROVE AfterInv' /\ TimingInv'
  BY <1>18 DEF Receive, process, timers, history, AfterInv, TimingInv, InFlush, Running
<1>. QED
  BY <1>1, <1>2, <1>3, <1>4, <1>5, <1>6, <1>7, <1>8, <1>9, <1>10, <1>11, <1>12,
     <1>13, <1>14, <1>15, <1>16, <1>17, <1>18
     DEF Next, Environment, Flush, Loop, Reader

\* While the loop waits, that distance bounds the time since the last flush.
LEMMA CadenceImplies == CadenceInv => FlushesInTime
<1>. SUFFICES ASSUME CadenceInv, pc = "loop" PROVE clock <= flushedAt + Cadence
  BY DEF FlushesInTime
<1>1. dirty = TRUE \/ dirty = FALSE
  BY DEF CadenceInv, TypeOK
<1>. QED BY <1>1, TimingAssumption DEF CadenceInv, TimingInv, Running, TypeOK, Cadence

\* A running agent never goes longer than the cadence without a flush.
THEOREM FlushesAlwaysInTime == Spec => []FlushesInTime
<1>. QED BY CadenceInit, CadenceStep, CadenceImplies, PTL DEF Spec

-----------------------------------------------------------------------------
(* Staleness of the hosts file.                                            *)

\* What the last flush rendered was heard at most a TTL before it.
FreshInv ==
  /\ pc = "hosts" => SeenSince(peers, flushedAt - TTL)
  /\ pc \in {"keys", "config", "loop"} /\ SyncHosts /\ "hosts" \in current =>
       \A e \in hosts : e.seen >= flushedAt - TTL

StalenessInv == CadenceInv /\ FreshInv

\* Recording the outcome of one file changes nothing about another.
LEMMA ReportKeeps ==
  ASSUME NEW file, NEW ok \in BOOLEAN, Report(file, ok)
  PROVE  /\ current' \subseteq current \cup {file}
         /\ ~ok => file \notin current'
         /\ \A f : f # file => (f \in current' <=> f \in current)
<1>1. CASE ok /\ current' = current \cup {file}
  BY <1>1
<1>2. CASE ~ok /\ current' = current \ {file}
  BY <1>2
<1>. QED BY <1>1, <1>2 DEF Report

\* Every step keeps the age of what the hosts file lists bounded, by the
\* prune at the start of each flush and the cadence between flushes.
LEMMA StalenessStep == StalenessInv /\ [Next]_vars => StalenessInv'
<1>. SUFFICES ASSUME StalenessInv, [Next]_vars PROVE FreshInv'
  BY CadenceStep DEF StalenessInv
<1>. USE TimingAssumption DEF StalenessInv, CadenceInv
<1>1. CASE UNCHANGED vars
  BY <1>1 DEF vars, process, files, history, FreshInv, SeenSince
<1>2. CASE Tick
  BY <1>2 DEF Tick, process, files, history, FreshInv, SeenSince
<1>3. CASE Signal
  BY <1>3 DEF Signal, files, history, FreshInv, SeenSince
<1>4. CASE Kill
  BY <1>4 DEF Kill, Exit, FreshInv
<1>5. ASSUME NEW n \in OwnNickname, Rename(n) PROVE FreshInv'
  BY <1>5 DEF Rename, process, files, history, FreshInv, SeenSince
<1>6. ASSUME NEW sent \in SUBSET OwnAddress, Start(sent) PROVE FreshInv'
  BY <1>6 DEF Start, Advertised, FreshInv
<1>7. ASSUME NEW ok \in BOOLEAN, FlushSave(ok) PROVE FreshInv'
  <2> DEFINE pruned == Prune(peers, clock - TTL)
  <2>1. flushedAt' = clock
    BY <1>7 DEF FlushSave
  <2>2. CASE SyncHosts /\ pc' = "hosts" /\ peers' = pruned
    <3>1. SeenSince(pruned, clock - TTL)
      BY PruneLemma DEF TypeOK
    <3>. QED BY <2>1, <2>2, <3>1 DEF FreshInv, SeenSince
  <2>3. CASE ~SyncHosts /\ pc' # "hosts"
    BY <2>3 DEF FreshInv
  <2>. QED BY <1>7, <2>2, <2>3 DEF FlushSave, Exit
<1>8. ASSUME NEW ok \in BOOLEAN, FlushHosts(ok) PROVE FreshInv'
  <2>1. pc' = "keys" /\ flushedAt' = flushedAt
    BY <1>8 DEF FlushHosts
  <2>2. CASE ok
    <3>1. hosts' = HostsEntries(peers) /\ SeenSince(peers, flushedAt - TTL)
      BY <1>8, <2>2 DEF FlushHosts, FreshInv
    <3>2. \A e \in HostsEntries(peers) : e.seen >= flushedAt - TTL
      BY <3>1, RenderLemma DEF SeenSince, TypeOK
    <3>. QED BY <2>1, <3>1, <3>2 DEF FreshInv
  <2>3. CASE ~ok
    <3>1. "hosts" \notin current'
      BY <1>8, <2>3, ReportKeeps DEF FlushHosts
    <3>. QED BY <2>1, <3>1 DEF FreshInv
  <2>. QED BY <2>2, <2>3
<1>9. CASE FlushKnownHosts
  BY <1>9 DEF FlushKnownHosts, history, FreshInv
<1>10. CASE FlushKnownHostsFails
  <2>1. "hosts" \in current' => "hosts" \in current
    BY <1>10, ReportKeeps DEF FlushKnownHostsFails
  <2>2. pc = "keys" /\ pc' \in {"loop", "down"} /\ UNCHANGED <<hosts, flushedAt>>
    BY <1>10 DEF FlushKnownHostsFails, FlushReturns, Exit, files
  <2>. QED BY <2>1, <2>2 DEF FreshInv
<1>11. ASSUME NEW ok \in BOOLEAN, FlushSSHConfig(ok) PROVE FreshInv'
  <2>1. "hosts" \in current' => "hosts" \in current
    BY <1>11, ReportKeeps DEF FlushSSHConfig
  <2>2. pc = "config" /\ pc' \in {"loop", "down"} /\ UNCHANGED <<hosts, flushedAt>>
    BY <1>11 DEF FlushSSHConfig, FlushReturns, Exit
  <2>. QED BY <2>1, <2>2 DEF FreshInv
<1>12. ASSUME NEW sent \in SUBSET OwnAddress, AnnounceTick(sent) PROVE FreshInv'
  BY <1>12 DEF AnnounceTick, Advertised, process, files, history, FreshInv
<1>13. CASE FlushTick
  BY <1>13 DEF FlushTick, files, history, FreshInv
<1>14. CASE TakeIncoming
  BY <1>14 DEF TakeIncoming, process, files, history, FreshInv
<1>15. CASE ReadErrorExit
  BY <1>15 DEF ReadErrorExit, Exit, FreshInv
<1>16. CASE Shutdown
  BY <1>16 DEF Shutdown, FreshInv
<1>17. CASE ReadError
  BY <1>17 DEF ReadError, files, history, FreshInv, SeenSince
<1>18. ASSUME NEW d \in Heard, Receive(d) PROVE FreshInv'
  BY <1>18 DEF Receive, process, files, history, FreshInv, SeenSince
<1>. QED
  BY <1>1, <1>2, <1>3, <1>4, <1>5, <1>6, <1>7, <1>8, <1>9, <1>10, <1>11, <1>12,
     <1>13, <1>14, <1>15, <1>16, <1>17, <1>18
     DEF Next, Environment, Flush, Loop, Reader

\* An address in the hosts file was heard at most the TTL and one cadence ago.
THEOREM StalenessBounded == Spec => []BoundedStaleness
<1>1. Init => StalenessInv
  BY CadenceInit DEF Init, StalenessInv, FreshInv
<1>2. StalenessInv => BoundedStaleness
  <2>. SUFFICES ASSUME StalenessInv, pc = "loop", SyncHosts, "hosts" \in current,
                       NEW e \in hosts
                PROVE  clock <= e.seen + TTL + Cadence
    BY DEF BoundedStaleness
  <2>1. clock <= flushedAt + Cadence
    BY CadenceImplies DEF StalenessInv, FlushesInTime
  <2>2. e.seen >= flushedAt - TTL /\ e.seen \in Nat
    BY DEF StalenessInv, FreshInv, CadenceInv, TypeOK, HostsEntry
  <2>3. Cadence \in Nat /\ clock \in Nat /\ flushedAt \in Nat /\ TTL \in Nat
    BY TimingAssumption DEF Cadence, StalenessInv, CadenceInv, TypeOK
  <2>. QED BY <2>1, <2>2, <2>3
<1>. QED BY <1>1, <1>2, StalenessStep, PTL DEF Spec

-----------------------------------------------------------------------------
(* What is published, and the order of the writes.                         *)

Saved == "cache" \in current => cache = peers
Listed == "hosts" \in current => hosts = HostsEntries(peers)

\* Each step of a flush relies on the writes before it.
PublishedInv ==
  /\ pc \in {"hosts", "keys", "config"} => SyncHosts /\ Saved
  /\ pc \in {"keys", "config"} => Listed
  /\ pc = "config" => knownHosts = KnownHosts(peers)
  /\ CleanMeansPublished

\* The flush returns with everything it wrote equal to the map.
LEMMA FlushReturnsPublished ==
  ASSUME FlushReturns, UNCHANGED <<cache, hosts>>, Saved, Listed,
         "cache" \in current' => "cache" \in current,
         "hosts" \in current' => "hosts" \in current,
         "ssh" \in current' =>
           knownHosts' = KnownHosts(peers) /\ sshConfig' = SSHBlocks(peers)
  PROVE  PublishedInv'
<1>1. CASE Exit("shutdown")
  BY <1>1 DEF Exit, PublishedInv, CleanMeansPublished
<1>2. CASE pc' = "loop" /\ UNCHANGED peers
  BY <1>2 DEF PublishedInv, CleanMeansPublished, Saved, Listed
<1>. QED BY <1>1, <1>2 DEF FlushReturns

\* Every step keeps what the running flush has written equal to the map.
LEMMA PublishedStep == PublishedInv /\ [Next]_vars => PublishedInv'
<1>. SUFFICES ASSUME PublishedInv, [Next]_vars PROVE PublishedInv'
  OBVIOUS
<1>. USE DEF Saved, Listed
<1>1. CASE UNCHANGED vars
  BY <1>1 DEF vars, process, files, history, PublishedInv, CleanMeansPublished
<1>2. CASE Tick
  BY <1>2 DEF Tick, process, files, history, PublishedInv, CleanMeansPublished
<1>3. CASE Signal
  BY <1>3 DEF Signal, files, history, PublishedInv, CleanMeansPublished
<1>4. CASE Kill
  BY <1>4 DEF Kill, Exit, PublishedInv, CleanMeansPublished
<1>5. ASSUME NEW n \in OwnNickname, Rename(n) PROVE PublishedInv'
  BY <1>5 DEF Rename, process, files, history, PublishedInv, CleanMeansPublished
<1>6. ASSUME NEW sent \in SUBSET OwnAddress, Start(sent) PROVE PublishedInv'
  BY <1>6 DEF Start, Advertised, PublishedInv, CleanMeansPublished
<1>7. ASSUME NEW ok \in BOOLEAN, FlushSave(ok) PROVE PublishedInv'
  <2> DEFINE pruned == Prune(peers, clock - TTL)
  <2>1. "cache" \in current' => cache' = pruned
    <3>1. CASE ok
      BY <1>7, <3>1 DEF FlushSave
    <3>2. CASE ~ok
      BY <1>7, <3>2, ReportKeeps DEF FlushSave
    <3>. QED BY <3>1, <3>2
  <2>2. CASE SyncHosts /\ pc' = "hosts" /\ peers' = pruned
    BY <2>1, <2>2 DEF PublishedInv, CleanMeansPublished
  <2>3. CASE ~SyncHosts /\ pc' = "loop" /\ peers' = pruned
    BY <2>1, <2>3 DEF PublishedInv, CleanMeansPublished
  <2>4. CASE Exit("shutdown")
    BY <2>4 DEF Exit, PublishedInv, CleanMeansPublished
  <2>. QED BY <1>7, <2>2, <2>3, <2>4 DEF FlushSave
<1>8. ASSUME NEW ok \in BOOLEAN, FlushHosts(ok) PROVE PublishedInv'
  <2>1. pc = "hosts" /\ pc' = "keys" /\ UNCHANGED <<peers, cache>>
    BY <1>8 DEF FlushHosts
  <2>2. "hosts" \in current' => hosts' = HostsEntries(peers)
    <3>1. CASE ok
      BY <1>8, <3>1 DEF FlushHosts
    <3>2. CASE ~ok
      BY <1>8, <3>2, ReportKeeps DEF FlushHosts
    <3>. QED BY <3>1, <3>2
  <2>3. "cache" \in current' => "cache" \in current
    BY <1>8, ReportKeeps DEF FlushHosts
  <2>. QED BY <2>1, <2>2, <2>3 DEF PublishedInv, CleanMeansPublished
<1>9. CASE FlushKnownHosts
  BY <1>9 DEF FlushKnownHosts, history, PublishedInv, CleanMeansPublished
<1>10. CASE FlushKnownHostsFails
  <2>1. \A f \in {"cache", "hosts"} : f \in current' => f \in current
    BY <1>10, ReportKeeps DEF FlushKnownHostsFails
  <2>2. "ssh" \notin current'
    BY <1>10, ReportKeeps DEF FlushKnownHostsFails
  <2>. QED
    BY <1>10, <2>1, <2>2, FlushReturnsPublished DEF FlushKnownHostsFails, files, PublishedInv
<1>11. ASSUME NEW ok \in BOOLEAN, FlushSSHConfig(ok) PROVE PublishedInv'
  <2>1. \A f \in {"cache", "hosts"} : f \in current' => f \in current
    BY <1>11, ReportKeeps DEF FlushSSHConfig
  <2>2. knownHosts' = KnownHosts(peers)
    BY <1>11 DEF FlushSSHConfig, PublishedInv
  <2>3. "ssh" \in current' => sshConfig' = SSHBlocks(peers)
    <3>1. CASE ok
      BY <1>11, <3>1 DEF FlushSSHConfig
    <3>2. CASE ~ok
      BY <1>11, <3>2, ReportKeeps DEF FlushSSHConfig
    <3>. QED BY <3>1, <3>2
  <2>. QED
    BY <1>11, <2>1, <2>2, <2>3, FlushReturnsPublished DEF FlushSSHConfig, PublishedInv
<1>12. ASSUME NEW sent \in SUBSET OwnAddress, AnnounceTick(sent) PROVE PublishedInv'
  BY <1>12 DEF AnnounceTick, Advertised, process, PublishedInv, CleanMeansPublished
<1>13. CASE FlushTick
  BY <1>13 DEF FlushTick, files, history, PublishedInv, CleanMeansPublished
<1>14. CASE TakeIncoming
  BY <1>14 DEF TakeIncoming, process, PublishedInv, CleanMeansPublished
<1>15. CASE ReadErrorExit
  BY <1>15 DEF ReadErrorExit, Exit, PublishedInv, CleanMeansPublished
<1>16. CASE Shutdown
  BY <1>16 DEF Shutdown, PublishedInv, CleanMeansPublished
<1>17. CASE ReadError
  BY <1>17 DEF ReadError, files, history, PublishedInv, CleanMeansPublished
<1>18. ASSUME NEW d \in Heard, Receive(d) PROVE PublishedInv'
  BY <1>18 DEF Receive, process, files, history, PublishedInv, CleanMeansPublished
<1>. QED
  BY <1>1, <1>2, <1>3, <1>4, <1>5, <1>6, <1>7, <1>8, <1>9, <1>10, <1>11, <1>12,
     <1>13, <1>14, <1>15, <1>16, <1>17, <1>18
     DEF Next, Environment, Flush, Loop, Reader

\* Nothing has been written in the initial states.
LEMMA PublishedInit == Init => PublishedInv
  BY DEF Init, PublishedInv, CleanMeansPublished

\* A waiting agent whose map is clean has published all of it.
THEOREM CleanIsPublished == Spec => []CleanMeansPublished
<1>1. PublishedInv => CleanMeansPublished
  BY DEF PublishedInv
<1>. QED BY <1>1, PublishedInit, PublishedStep, PTL DEF Spec

\* `lan-nick map` shows every machine the agent publishes and still hears, if
\* it keeps them for at least as long as the agent does.
THEOREM MapShowsWhatIsPublished ==
  ASSUME DefaultTTL >= TTL
  PROVE  Spec => []MapShowsPublished
<1>1. TypeOK /\ CleanMeansPublished => MapShowsPublished
  <2>. SUFFICES ASSUME TypeOK, CleanMeansPublished,
                       pc = "loop", SyncHosts, ~dirty, {"cache", "hosts"} \subseteq current,
                       NEW e \in hosts, clock <= e.seen + TTL
                PROVE  e.id \in DOMAIN Map
    BY DEF MapShowsPublished
  <2>1. cache = peers /\ hosts = HostsEntries(peers)
    BY DEF CleanMeansPublished
  <2>2. PICK id \in DOMAIN peers : \E a \in DOMAIN peers[id].addresses :
          e.id = id /\ e.seen = peers[id].addresses[a]
    BY <2>1 DEF HostsEntries
  <2>3. PICK a \in DOMAIN peers[id].addresses : e.seen = peers[id].addresses[a]
    BY <2>2
  <2>4. peers[id].addresses[a] \in Nat
    BY <2>3 DEF TypeOK, IsStore, IsPeer
  <2>5. a \in Recent(cache[id], clock - DefaultTTL)
    BY <2>1, <2>3, <2>4, AgentAssumption, TimingAssumption DEF Recent, TypeOK
  <2>. QED BY <2>1, <2>2, <2>5 DEF Map, Prune
<1>. QED BY <1>1, TypeCorrect, CleanIsPublished, PTL

\* No Host block is added before its key.
THEOREM KeysFirst == Spec => KeyBeforeBlock
<1> DEFINE Step == \A b \in sshConfig' \ sshConfig : b.id \in DOMAIN knownHosts'
<1>1. ASSUME PublishedInv, [Next]_vars PROVE [Step]_vars
  <2>1. CASE UNCHANGED sshConfig
    BY <2>1
  <2>2. ASSUME NEW ok \in BOOLEAN, FlushSSHConfig(ok) PROVE Step
    <3>1. CASE ok
      <4>1. sshConfig' = SSHBlocks(peers) /\ knownHosts' = KnownHosts(peers)
        BY <1>1, <2>2, <3>1 DEF FlushSSHConfig, PublishedInv
      <4>. QED BY <4>1 DEF SSHBlocks, KnownHosts
    <3>2. CASE ~ok
      BY <2>2, <3>2 DEF FlushSSHConfig
    <3>. QED BY <3>1, <3>2
  <2>3. UNCHANGED sshConfig \/ \E ok \in BOOLEAN : FlushSSHConfig(ok)
    BY <1>1 DEF vars, Next, Environment, Flush, Loop, Reader, files, Tick, Signal, Kill,
       Rename, Start, Advertised, FlushSave, FlushHosts, FlushKnownHosts, FlushKnownHostsFails,
       AnnounceTick, Advertised, FlushTick, TakeIncoming, ReadErrorExit, Shutdown, ReadError, Receive
  <2>. QED BY <2>1, <2>2, <2>3
<1>. QED BY <1>1, PublishedInit, PublishedStep, PTL DEF Spec, KeyBeforeBlock

-----------------------------------------------------------------------------
(* Agreement of the hosts file and the SSH configuration.                  *)

\* Two files that agree keep agreeing until both are replaced from one snapshot.
LEMMA AgreeStep == PublishedInv /\ FilesAgree /\ [Next]_vars => FilesAgree'
<1>. SUFFICES ASSUME PublishedInv, FilesAgree, [Next]_vars PROVE FilesAgree'
  OBVIOUS
<1>1. CASE /\ pc' = "loop" => pc = "loop"
           /\ UNCHANGED <<hosts, sshConfig, current>>
  BY <1>1 DEF FilesAgree
<1>2. CASE pc' # "loop" \/ ~SyncHosts \/ "ssh" \notin current'
  BY <1>2 DEF FilesAgree
<1>3. ASSUME NEW ok \in BOOLEAN, FlushSSHConfig(ok) PROVE FilesAgree'
  <2>1. CASE ok
    <3>1. "hosts" \in current' => hosts' = HostsEntries(peers)
      BY <1>3, ReportKeeps DEF FlushSSHConfig, PublishedInv, Listed
    <3>2. sshConfig' = SSHBlocks(peers)
      BY <1>3, <2>1 DEF FlushSSHConfig
    <3>. QED BY <3>1, <3>2, SnapshotAgrees DEF FilesAgree
  <2>2. CASE ~ok
    <3>1. "ssh" \notin current'
      BY <1>3, <2>2, ReportKeeps DEF FlushSSHConfig
    <3>. QED BY <3>1 DEF FilesAgree
  <2>. QED BY <2>1, <2>2
<1>4. ASSUME FlushKnownHostsFails PROVE "ssh" \notin current'
  BY <1>4, ReportKeeps DEF FlushKnownHostsFails
<1>5. ASSUME NEW ok \in BOOLEAN, FlushSave(ok) PROVE pc' # "loop" \/ ~SyncHosts
  BY <1>5 DEF FlushSave, Exit
<1>6. \/ /\ pc' = "loop" => pc = "loop"
         /\ UNCHANGED <<hosts, sshConfig, current>>
      \/ pc' # "loop"
      \/ FlushKnownHostsFails
      \/ \E ok \in BOOLEAN : FlushSave(ok) \/ FlushSSHConfig(ok)
  BY DEF vars, process, files, history, Next, Environment, Flush, Loop, Reader, Exit,
     Tick, Signal, Kill, Rename, Start, FlushHosts, FlushKnownHosts, AnnounceTick, Advertised,
     FlushTick, TakeIncoming, ReadErrorExit, Shutdown, ReadError, Receive
<1>. QED BY <1>1, <1>2, <1>3, <1>4, <1>5, <1>6

\* An alias is one machine in the hosts file and the SSH configuration.
THEOREM FilesAlwaysAgree == Spec => []FilesAgree
<1>1. Init => FilesAgree
  BY DEF Init, FilesAgree
<1>. QED BY <1>1, PublishedInit, PublishedStep, AgreeStep, PTL DEF Spec

-----------------------------------------------------------------------------
(* What is never forgotten.                                                *)

\* An agent forgets nothing it heard within the TTL.
THEOREM NothingExpiresEarly == Spec => NoEarlyExpiry
<1> DEFINE Step ==
      pc' # "down" /\ after' = "loop" =>
        \A id \in DOMAIN Remembered : \A a \in DOMAIN Remembered[id].addresses :
          Remembered[id].addresses[a] >= clock - TTL =>
            /\ id \in DOMAIN peers'
            /\ \/ a \in DOMAIN peers'[id].addresses
               \/ peers'[id].nickname # Remembered[id].nickname
<1>1. ASSUME TypeOK, Next PROVE Step \/ UNCHANGED vars
  <2>. SUFFICES ASSUME pc' # "down", after' = "loop",
                       NEW id \in DOMAIN Remembered,
                       NEW a \in DOMAIN Remembered[id].addresses,
                       Remembered[id].addresses[a] >= clock - TTL
                PROVE  /\ id \in DOMAIN peers'
                       /\ \/ a \in DOMAIN peers'[id].addresses
                          \/ peers'[id].nickname # Remembered[id].nickname
    OBVIOUS
  <2>0. clock - TTL \in Int
    BY <1>1, TimingAssumption DEF TypeOK
  <2>1. CASE pc # "down" /\ UNCHANGED peers
    BY <2>1 DEF Remembered
  <2>2. CASE pc # "down" /\ peers' = Prune(peers, clock - TTL)
    BY <2>0, <2>2, PruneKeepsLemma DEF Remembered
  <2>3. ASSUME pc # "down", NEW ann, NEW addrs, peers' = Observe(peers, ann, addrs, clock)
        PROVE  /\ id \in DOMAIN peers'
               /\ \/ a \in DOMAIN peers'[id].addresses
                  \/ peers'[id].nickname # Remembered[id].nickname
    BY <2>3, ObserveKeepsLemma DEF Remembered
  <2>4. ASSUME NEW sent \in SUBSET OwnAddress, Start(sent)
        PROVE  /\ id \in DOMAIN peers'
               /\ \/ a \in DOMAIN peers'[id].addresses
                  \/ peers'[id].nickname # Remembered[id].nickname
    <3> DEFINE P == Prune(cache, clock - TTL)
    <3>1. Remembered = cache /\ peers' = Observe(P, Own, sent, clock)
      BY <2>4 DEF Start, Advertised, Remembered
    <3>2. /\ id \in DOMAIN P /\ a \in DOMAIN P[id].addresses
          /\ P[id].nickname = Remembered[id].nickname
      BY <2>0, <3>1, PruneKeepsLemma
    <3> HIDE DEF P
    <3>. QED BY <3>1, <3>2, ObserveKeepsLemma
  <2>5. CASE Tick \/ Signal \/ Kill \/ \E n \in OwnNickname : Rename(n)
    BY <2>1, <2>5 DEF Tick, Signal, Kill, Rename, Exit, process
  <2>6. ASSUME NEW ok \in BOOLEAN, FlushSave(ok)
        PROVE  pc # "down" /\ peers' = Prune(peers, clock - TTL)
    BY <2>6 DEF FlushSave, Exit
  <2>7. ASSUME NEW ok \in BOOLEAN, FlushHosts(ok) \/ FlushSSHConfig(ok)
        PROVE  pc # "down" /\ UNCHANGED peers
    BY <2>7 DEF FlushHosts, FlushSSHConfig, FlushReturns, Exit
  <2>8. CASE FlushKnownHosts \/ FlushKnownHostsFails
    BY <2>1, <2>8 DEF FlushKnownHosts, FlushKnownHostsFails, FlushReturns, Exit
  <2>9. ASSUME NEW sent \in SUBSET OwnAddress, AnnounceTick(sent)
        PROVE  pc # "down" /\ peers' = Observe(peers, Own, sent, clock)
    BY <2>9 DEF AnnounceTick, Advertised
  <2>10. CASE FlushTick \/ ReadErrorExit \/ Shutdown
    BY <2>1, <2>10 DEF FlushTick, ReadErrorExit, Shutdown, Exit
  <2>11. CASE TakeIncoming
    BY <2>3, <2>11 DEF TakeIncoming
  <2>12. CASE ReadError \/ \E d \in Heard : Receive(d)
    BY <2>1, <2>12 DEF ReadError, Receive, process, Running
  <2>. QED
    BY <1>1, <2>1, <2>2, <2>3, <2>4, <2>5, <2>6, <2>7, <2>8, <2>9, <2>10, <2>11, <2>12
       DEF Next, Environment, Flush, Loop, Reader
<1>2. TypeOK /\ [Next]_vars => [Step]_vars
  BY <1>1
<1>. QED BY <1>2, TypeCorrect, PTL DEF Spec, NoEarlyExpiry

-----------------------------------------------------------------------------
(* A stop that cleans up.                                                  *)

\* Nothing is remembered from the future, so that a prune an hour ahead
\* forgets everything, and a flush that ends the process has an empty map.
SeenInv == SeenBy(peers, clock) /\ SeenBy(cache, clock)

EmptyInv == after = "down" => InFlush /\ peers = NoPeers

StopInv == TypeOK /\ SeenInv /\ EmptyInv /\ PublishedInv /\ StopCleansUp

\* A store seen by one time is seen by every later one.
LEMMA SeenLater ==
  ASSUME NEW store, IsStore(store), NEW t \in Nat, NEW u \in Nat, t <= u, SeenBy(store, t)
  PROVE  SeenBy(store, u)
  BY DEF SeenBy, IsStore, IsPeer

\* No step records a sighting later than the clock.
LEMMA SeenStep == TypeOK /\ SeenInv /\ [Next]_vars => SeenInv'
<1>. SUFFICES ASSUME TypeOK, SeenInv, [Next]_vars PROVE SeenInv'
  OBVIOUS
<1>. USE AgentAssumption, TimingAssumption
<1> DEFINE pruned == Prune(peers, clock - TTL)
<1>1. clock \in Nat /\ clock - TTL \in Int
  BY DEF TypeOK
<1>2. SeenBy(NoPeers, clock)
  BY <1>1, NoPeersLemma
<1>3. IsStore(pruned) /\ SeenBy(pruned, clock)
  BY <1>1, PruneLemma DEF TypeOK, SeenInv
<1>4. CASE Tick
  <2>1. clock' = clock + 1 /\ UNCHANGED <<peers, cache>>
    BY <1>4 DEF Tick, files
  <2>2. SeenBy(peers, clock + 1) /\ SeenBy(cache, clock + 1)
    BY <1>1, SeenLater DEF TypeOK, SeenInv
  <2>. QED BY <2>1, <2>2 DEF SeenInv
<1>5. ASSUME NEW sent \in SUBSET OwnAddress, Start(sent) PROVE SeenInv'
  <2> DEFINE P == Prune(cache, clock - TTL)
  <2>1. IsStore(P) /\ SeenBy(P, clock) /\ Own \in Announcement
    BY <1>1, PruneLemma, AnnouncementsTyped DEF TypeOK, SeenInv
  <2>2. SeenBy(Observe(P, Own, sent, clock), clock)
    BY <1>1, <2>1, ObserveLemma
  <2>. QED BY <1>5, <2>2 DEF Start, Advertised, SeenInv, files
<1>6. ASSUME NEW ok \in BOOLEAN, FlushSave(ok) PROVE SeenInv'
  <2>1. clock' = clock /\ peers' \in {pruned, NoPeers} /\ cache' \in {pruned, cache}
    BY <1>6 DEF FlushSave, Exit
  <2>. QED BY <1>2, <1>3, <2>1 DEF SeenInv
<1>7. ASSUME NEW ann \in Announcement, NEW addrs \in SUBSET Address,
             peers' = Observe(peers, ann, addrs, clock), UNCHANGED <<clock, cache>>
      PROVE  SeenInv'
  <2>1. SeenBy(Observe(peers, ann, addrs, clock), clock)
    BY <1>1, ObserveLemma DEF TypeOK, SeenInv
  <2>. QED BY <1>7, <2>1 DEF SeenInv
<1>8. ASSUME NEW sent \in SUBSET OwnAddress, AnnounceTick(sent) PROVE SeenInv'
  <2>1. peers' = Observe(peers, Own, sent, clock) /\ UNCHANGED <<clock, cache>>
    BY <1>8 DEF AnnounceTick, Advertised, files
  <2>. QED BY <1>7, <2>1, AnnouncementsTyped
<1>9. CASE TakeIncoming
  <2>1. Head(incoming) \in Heard
    BY <1>9 DEF TakeIncoming, TypeOK
  <2>2. peers' = Observe(peers, Head(incoming).ann, {Head(incoming).address}, clock)
          /\ UNCHANGED <<clock, cache>>
    BY <1>9 DEF TakeIncoming, files
  <2>. QED BY <1>7, <2>1, <2>2, AnnouncementsTyped
<1>10. CASE Shutdown
  <2>1. SeenBy(Prune(peers, clock + Hour), clock)
    BY <1>1, PruneLemma DEF TypeOK, SeenInv
  <2>. QED BY <1>10, <2>1 DEF Shutdown, SeenInv, files
<1>11. CASE UNCHANGED <<clock, cache>> /\ peers' \in {peers, NoPeers}
  BY <1>2, <1>11 DEF SeenInv
<1>12. CASE UNCHANGED vars \/ Signal \/ Kill \/ ReadErrorExit \/ ReadError
  BY <1>11, <1>12 DEF vars, files, Signal, Kill, ReadErrorExit, ReadError, Exit
<1>13. CASE FlushTick \/ FlushKnownHosts \/ FlushKnownHostsFails
  BY <1>11, <1>13 DEF files, FlushTick, FlushKnownHosts, FlushKnownHostsFails,
     FlushReturns, Exit
<1>14. ASSUME NEW ok \in BOOLEAN, FlushHosts(ok) \/ FlushSSHConfig(ok) PROVE SeenInv'
  BY <1>11, <1>14 DEF FlushHosts, FlushSSHConfig, FlushReturns, Exit
<1>15. ASSUME NEW n \in OwnNickname, Rename(n) PROVE SeenInv'
  BY <1>11, <1>15 DEF Rename, files
<1>16. ASSUME NEW d \in Heard, Receive(d) PROVE SeenInv'
  BY <1>11, <1>16 DEF Receive, files
<1>. QED
  BY <1>4, <1>5, <1>6, <1>8, <1>9, <1>10, <1>12, <1>13, <1>14, <1>15, <1>16
     DEF Next, Environment, Flush, Loop, Reader

\* From the prune of a shutdown until the process ends the map stays empty.
LEMMA EmptyStep == TypeOK /\ SeenInv /\ EmptyInv /\ [Next]_vars => EmptyInv'
<1>. SUFFICES ASSUME TypeOK, SeenInv, EmptyInv, [Next]_vars, after' = "down"
              PROVE  InFlush' /\ peers' = NoPeers
  BY DEF EmptyInv
<1>1. CASE Shutdown
  <2>1. clock \in Int /\ clock + Hour \in Int /\ clock + Hour > clock
    BY TimingAssumption DEF TypeOK
  <2>2. Prune(peers, clock + Hour) = NoPeers
    BY <2>1, PruneAllLemma DEF TypeOK, SeenInv
  <2>. QED BY <1>1, <2>2 DEF Shutdown, InFlush
<1>2. ASSUME NEW ok \in BOOLEAN, FlushSave(ok)
      PROVE  InFlush' /\ peers' = NoPeers
  <2>1. after = "down" /\ pc' = "hosts" /\ peers' = Prune(peers, clock - TTL)
    BY <1>2 DEF FlushSave, Exit
  <2>2. clock - TTL \in Int
    BY TimingAssumption DEF TypeOK
  <2>. QED BY <2>1, <2>2, PruneNoPeersLemma DEF EmptyInv, InFlush
<1>3. CASE after = "down" /\ UNCHANGED <<pc, peers>>
  BY <1>3 DEF EmptyInv, InFlush
<1>4. CASE UNCHANGED vars \/ Tick \/ Signal \/ Kill \/ ReadErrorExit \/ ReadError
  BY <1>3, <1>4 DEF vars, process, Tick, Signal, Kill, ReadErrorExit, ReadError, Exit
<1>5. CASE FlushKnownHosts \/ FlushKnownHostsFails
  BY <1>5 DEF FlushKnownHosts, FlushKnownHostsFails, FlushReturns, Exit, EmptyInv, InFlush
<1>6. CASE FlushTick \/ TakeIncoming
  BY <1>6 DEF FlushTick, TakeIncoming, process, EmptyInv, InFlush
<1>7. ASSUME NEW ok \in BOOLEAN, FlushHosts(ok) \/ FlushSSHConfig(ok)
      PROVE  InFlush' /\ peers' = NoPeers
  BY <1>7 DEF FlushHosts, FlushSSHConfig, FlushReturns, Exit, EmptyInv, InFlush
<1>8. ASSUME NEW n \in OwnNickname, Rename(n) PROVE InFlush' /\ peers' = NoPeers
  BY <1>3, <1>8 DEF Rename, process
<1>9. ASSUME NEW d \in Heard, Receive(d) PROVE InFlush' /\ peers' = NoPeers
  BY <1>3, <1>9 DEF Receive, process
<1>10. ASSUME NEW sent \in SUBSET OwnAddress, AnnounceTick(sent) PROVE FALSE
  BY <1>10 DEF AnnounceTick, Advertised, process, EmptyInv, InFlush
<1>11. ASSUME NEW sent \in SUBSET OwnAddress, Start(sent) PROVE FALSE
  BY <1>11 DEF Start, Advertised
<1>. QED
  BY <1>1, <1>2, <1>4, <1>5, <1>6, <1>7, <1>8, <1>9, <1>10, <1>11
     DEF Next, Environment, Flush, Loop, Reader

\* The process leaves a flush that emptied its files.
LEMMA StopStep == StopInv /\ [Next]_vars => StopInv'
<1>. SUFFICES ASSUME StopInv, [Next]_vars PROVE StopCleansUp'
  BY TypingStep, SeenStep, EmptyStep, PublishedStep DEF StopInv
<1>. USE DEF StopInv
<1>1. CASE UNCHANGED <<pc, exit, files, current>>
  BY <1>1 DEF StopCleansUp, files
<1>2. CASE pc' # "down" \/ exit' # "shutdown"
  BY <1>2 DEF StopCleansUp
<1>3. ASSUME NEW ok \in BOOLEAN, FlushSave(ok) PROVE StopCleansUp'
  <2>1. CASE ~SyncHosts /\ after = "down"
    <3>1. Prune(peers, clock - TTL) = NoPeers
      BY <2>1, PruneNoPeersLemma, TimingAssumption DEF EmptyInv, TypeOK
    <3>2. "cache" \in current' => cache' = NoPeers
      <4>1. CASE ok
        BY <1>3, <3>1, <4>1 DEF FlushSave
      <4>2. CASE ~ok
        BY <1>3, <4>2, ReportKeeps DEF FlushSave
      <4>. QED BY <4>1, <4>2
    <3>. QED BY <2>1, <3>2 DEF StopCleansUp
  <2>2. CASE pc' # "down"
    BY <2>2 DEF StopCleansUp
  <2>. QED BY <1>3, <2>1, <2>2 DEF FlushSave
<1>4. ASSUME InFlush, pc \in {"keys", "config"}, FlushReturns, UNCHANGED <<cache, hosts>>,
             \A f \in {"cache", "hosts"} : f \in current' => f \in current,
             "ssh" \in current' => /\ knownHosts' = KnownHosts(peers)
                                  /\ sshConfig' = SSHBlocks(peers)
      PROVE  StopCleansUp'
  <2>1. CASE after = "down"
    <3>1. peers = NoPeers
      BY <2>1 DEF EmptyInv
    <3>2. "cache" \in current' => cache' = NoPeers
      BY <1>4, <3>1 DEF PublishedInv, Saved
    <3>3. "hosts" \in current' => hosts' = {}
      BY <1>4, <3>1, RenderNoPeersLemma DEF PublishedInv, Listed
    <3>4. "ssh" \in current' => knownHosts' = NoPeers /\ sshConfig' = {}
      BY <1>4, <3>1, RenderNoPeersLemma
    <3>. QED BY <3>2, <3>3, <3>4 DEF StopCleansUp
  <2>2. CASE after = "loop"
    BY <1>4, <2>2 DEF FlushReturns, StopCleansUp
  <2>. QED BY <2>1, <2>2 DEF TypeOK
<1>5. CASE FlushKnownHostsFails
  <2>1. \A f \in {"cache", "hosts"} : f \in current' => f \in current
    BY <1>5, ReportKeeps DEF FlushKnownHostsFails
  <2>2. "ssh" \notin current'
    BY <1>5, ReportKeeps DEF FlushKnownHostsFails
  <2>. QED BY <1>4, <1>5, <2>1, <2>2 DEF FlushKnownHostsFails, files, InFlush
<1>6. ASSUME NEW ok \in BOOLEAN, FlushSSHConfig(ok) PROVE StopCleansUp'
  <2>1. \A f \in {"cache", "hosts"} : f \in current' => f \in current
    BY <1>6, ReportKeeps DEF FlushSSHConfig
  <2>2. "ssh" \in current' => /\ knownHosts' = KnownHosts(peers)
                             /\ sshConfig' = SSHBlocks(peers)
    <3>1. CASE ok
      BY <1>6, <3>1 DEF FlushSSHConfig, PublishedInv
    <3>2. CASE ~ok
      BY <1>6, <3>2, ReportKeeps DEF FlushSSHConfig
    <3>. QED BY <3>1, <3>2
  <2>. QED BY <1>4, <1>6, <2>1, <2>2 DEF FlushSSHConfig, InFlush
<1>7. CASE UNCHANGED vars \/ Tick
  BY <1>1, <1>7 DEF vars, process, history, Tick
<1>8. CASE Signal \/ Kill \/ ReadErrorExit \/ ReadError
  BY <1>2, <1>8 DEF Signal, Kill, ReadErrorExit, ReadError, Exit, Running
<1>9. CASE FlushTick \/ TakeIncoming \/ Shutdown \/ FlushKnownHosts
  BY <1>2, <1>9 DEF FlushTick, TakeIncoming, Shutdown, FlushKnownHosts, process
<1>10. ASSUME NEW sent \in SUBSET OwnAddress, AnnounceTick(sent) \/ Start(sent)
       PROVE  StopCleansUp'
  BY <1>2, <1>10 DEF AnnounceTick, Start, Advertised, process
<1>11. ASSUME NEW ok \in BOOLEAN, FlushHosts(ok) PROVE StopCleansUp'
  BY <1>2, <1>11 DEF FlushHosts
<1>12. ASSUME NEW n \in OwnNickname, Rename(n) PROVE StopCleansUp'
  BY <1>1, <1>12 DEF Rename, process, history
<1>13. ASSUME NEW d \in Heard, Receive(d) PROVE StopCleansUp'
  BY <1>1, <1>13 DEF Receive, process, history
<1>. QED
  BY <1>3, <1>5, <1>6, <1>7, <1>8, <1>9, <1>10, <1>11, <1>12, <1>13
     DEF Next, Environment, Flush, Loop, Reader

\* An agent that stopped through ctx.Done left every file it wrote empty.
THEOREM StopAlwaysCleansUp == Spec => []StopCleansUp
<1>1. Init => StopInv
  <2>1. Init => SeenInv
    BY NoPeersLemma DEF Init, SeenInv
  <2>. QED
    BY <2>1, TypingInit, PublishedInit DEF Init, StopInv, EmptyInv, StopCleansUp
<1>2. StopInv => StopCleansUp
  BY DEF StopInv
<1>. QED BY <1>1, <1>2, StopStep, PTL DEF Spec
=============================================================================
