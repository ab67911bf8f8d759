------------------------------- MODULE Agent -------------------------------
(***************************************************************************)
(* One machine's `lan-nick serve`: the event loop of internal/agent, the   *)
(* goroutine that reads datagrams, and the four files the loop keeps:      *)
(* peers.json, the hosts file, ssh_known_hosts and ssh_config.  The        *)
(* process can be stopped, can lose its socket and can be killed between   *)
(* any two file updates; the files survive it.                             *)
(*                                                                         *)
(* Time is a clock that advances while the loop waits in select or while   *)
(* no process runs.  A ticker that is due is served at most MaxLag later:  *)
(* the time the handlers themselves take is part of that lag.  The wall    *)
(* clock is assumed not to go backwards.                                   *)
(***************************************************************************)
EXTENDS PeerStore, Sequences

CONSTANTS
  Self,         \* this machine's ID
  OwnNickname,  \* the nicknames its user may give it
  OwnKey,       \* its SSH host key, or NoKey
  OwnAddress,   \* its IPv4 addresses, one interface each
  Heard,        \* the datagrams the network may deliver to it
  Interval,     \* Options.Interval
  TTL,          \* Options.TTL
  DefaultTTL,   \* the constant `lan-nick map` uses instead
  FlushEvery,   \* the period of flushTicker
  Hour,         \* how far in the future a shutdown prunes
  MaxLag,       \* assumed bound on the service delay of a ticker
  QueueSize,    \* capacity of the channel incoming
  SyncHosts,    \* Options.SyncHosts, false with --no-hosts
  MaxTime,      \* bound on the clock
  MaxFaults     \* bound on stops, kills, socket errors and failed writes

Datagram == [ann : Announcement, address : Address]

ASSUME AgentAssumption ==
  /\ Self \in MachineID
  /\ OwnNickname \subseteq Nickname /\ OwnNickname # {}
  /\ OwnKey \in HostKey \cup {NoKey}
  /\ OwnAddress \subseteq Address
  /\ Heard \subseteq Datagram
  /\ QueueSize \in Nat \ {0}
  /\ SyncHosts \in BOOLEAN
  /\ MaxTime \in Nat /\ MaxFaults \in Nat /\ DefaultTTL \in Nat

\* Run refuses options that violate the first two.
ASSUME TimingAssumption ==
  /\ Interval \in Nat \ {0}
  /\ TTL \in Nat /\ TTL > 2 * Interval
  /\ FlushEvery \in Nat \ {0}
  /\ Hour \in Nat \ {0}
  /\ MaxLag \in Nat /\ MaxLag < FlushEvery /\ MaxLag < Interval

VARIABLES
  \* the machine
  clock,
  nickname,     \* config.json: the name the user last gave the machine
  \* the process
  pc,           \* "down", waiting in select ("loop"), or the next step of flush
  after,        \* where the running flush returns to: "loop" or "down"
  stopping,     \* ctx is done
  readFailed,   \* the reader has posted its error and returned
  peers,        \* the Store
  incoming,     \* the channel between the reader and the loop
  dirty,
  announceAt,   \* the next tick of announceTicker
  flushAt,      \* the next tick of flushTicker
  \* the files
  cache, hosts, knownHosts, sshConfig,
  \* history
  flushedAt,    \* when the last flush of this process began
  current,      \* what the last flush of this process wrote without an error
  exit,         \* how the last process ended
  faults        \* stops, kills, socket errors and failed writes so far

process == <<pc, after, stopping, readFailed, exit>>
timers  == <<announceAt, flushAt>>
files   == <<cache, hosts, knownHosts, sshConfig>>
history == <<flushedAt, current>>
vars == <<clock, nickname, process, peers, incoming, dirty, timers, files, history, faults>>

Written == {"cache", "hosts", "ssh"}

TypeOK ==
  /\ clock \in Nat
  /\ nickname \in OwnNickname
  /\ pc \in {"down", "loop", "save", "hosts", "keys", "config"}
  /\ after \in {"loop", "down"}
  /\ stopping \in BOOLEAN /\ readFailed \in BOOLEAN
  /\ IsStore(peers)
  /\ incoming \in Seq(Heard) /\ Len(incoming) <= QueueSize
  /\ dirty \in BOOLEAN
  /\ announceAt \in Nat /\ flushAt \in Nat
  /\ IsStore(cache)
  /\ hosts \subseteq HostsEntry
  /\ IsKnownHosts(knownHosts)
  /\ sshConfig \subseteq SSHBlock
  /\ flushedAt \in Nat
  /\ current \subseteq Written
  /\ exit \in {"none", "shutdown", "readError", "killed"}
  /\ faults \in 0..MaxFaults

\* A machine on which lan-nick has never run.
Init ==
  /\ clock = 0
  /\ nickname \in OwnNickname
  /\ pc = "down" /\ after = "loop" /\ stopping = FALSE /\ readFailed = FALSE
  /\ exit = "none"
  /\ peers = NoPeers /\ incoming = <<>> /\ dirty = FALSE
  /\ announceAt = 0 /\ flushAt = 0
  /\ cache = NoPeers /\ hosts = {} /\ knownHosts = NoPeers /\ sshConfig = {}
  /\ flushedAt = 0 /\ current = {}
  /\ faults = 0

-----------------------------------------------------------------------------
(* Operators shared by the actions.                                        *)

Running == pc # "down"

Own == [id |-> Self, nickname |-> nickname, key |-> OwnKey]

\* advertise: send the current announcement on every interface, and record
\* this machine in the store under the addresses that could send.  sent is
\* empty when the configuration or the interfaces cannot be read.
Advertised(store, sent) == Observe(store, Own, sent, clock)

\* The process is gone, and with it everything that was only in memory.
Exit(how) ==
  /\ pc' = "down" /\ exit' = how
  /\ after' = "loop" /\ stopping' = FALSE /\ readFailed' = FALSE
  /\ peers' = NoPeers /\ incoming' = <<>> /\ dirty' = FALSE

\* flush returns: to select, or from Run.
FlushReturns ==
  \/ /\ after = "loop"
     /\ pc' = "loop"
     /\ UNCHANGED <<after, stopping, readFailed, exit, peers, incoming, dirty>>
  \/ /\ after = "down"
     /\ Exit("shutdown")

Fault ==
  /\ faults < MaxFaults
  /\ faults' = faults + 1

\* One write of a flush succeeds or fails.
Report(file, ok) ==
  \/ /\ ok
     /\ current' = current \cup {file}
     /\ UNCHANGED faults
  \/ /\ ~ok
     /\ current' = current \ {file}
     /\ Fault

-----------------------------------------------------------------------------
(* The environment.                                                        *)

\* `lan-nick rename` saves another nickname; the agent reads it when it next
\* advertises.
Rename(n) ==
  /\ n # nickname
  /\ nickname' = n
  /\ UNCHANGED <<clock, process, peers, incoming, dirty, timers, files, history, faults>>

\* Time passes while nothing runs, or while the loop waits for something
\* that is not overdue.
Tick ==
  /\ clock < MaxTime
  /\ \/ pc = "down"
     \/ /\ pc = "loop"
        /\ clock < announceAt + MaxLag
        /\ clock < flushAt + MaxLag
  /\ clock' = clock + 1
  /\ UNCHANGED <<nickname, process, peers, incoming, dirty, timers, files, history, faults>>

\* SIGTERM, an interrupt or the service manager: the context is cancelled.
Signal ==
  /\ Running /\ ~stopping
  /\ stopping' = TRUE
  /\ Fault
  /\ UNCHANGED <<clock, nickname, pc, after, readFailed, exit, peers, incoming,
                 dirty, timers, files, history>>

\* The process is killed between two updates of the files.
Kill ==
  /\ Running
  /\ Exit("killed")
  /\ Fault
  /\ UNCHANGED <<clock, nickname, timers, files, history>>

-----------------------------------------------------------------------------
(* Startup.                                                                *)

\* MUTANT: the cache is not loaded.
StartEmpty(sent) ==
  /\ pc = "down"
  /\ pc' = "save" /\ after' = "loop" /\ exit' = "none"
  /\ peers' = Advertised(NoPeers, sent)
  /\ dirty' = FALSE
  /\ announceAt' = clock + Interval
  /\ flushAt' = clock + FlushEvery
  /\ current' = {}
  /\ UNCHANGED <<clock, nickname, stopping, readFailed, incoming, files, flushedAt, faults>>

\* Run up to its first flush: load the cache, prune it, and advertise.  A
\* startup that fails earlier changes nothing and is left out.
Start(sent) ==
  /\ pc = "down"
  /\ pc' = "save" /\ after' = "loop" /\ exit' = "none"
  /\ peers' = Advertised(Prune(cache, clock - TTL), sent)
  /\ dirty' = FALSE
  /\ announceAt' = clock + Interval
  /\ flushAt' = clock + FlushEvery
  /\ current' = {}
  /\ UNCHANGED <<clock, nickname, stopping, readFailed, incoming, files, flushedAt, faults>>

-----------------------------------------------------------------------------
(* flush: prune, save the cache, then the hosts file, the known hosts and  *)
(* the SSH configuration.  Each write replaces its file or leaves it as it *)
(* was; errors are logged, and only an error on the known hosts skips what *)
(* follows.                                                                *)

FlushSave(ok) ==
  LET pruned == Prune(peers, clock - TTL) IN
  /\ pc = "save"
  /\ flushedAt' = clock
  /\ cache' = IF ok THEN pruned ELSE cache
  /\ Report("cache", ok)
  /\ \/ /\ SyncHosts
        /\ pc' = "hosts"
        /\ peers' = pruned
        /\ UNCHANGED <<after, stopping, readFailed, exit, incoming, dirty>>
     \/ /\ ~SyncHosts /\ after = "loop"
        /\ pc' = "loop"
        /\ peers' = pruned
        /\ UNCHANGED <<after, stopping, readFailed, exit, incoming, dirty>>
     \/ /\ ~SyncHosts /\ after = "down"
        /\ Exit("shutdown")
  /\ UNCHANGED <<clock, nickname, timers, hosts, knownHosts, sshConfig>>

FlushHosts(ok) ==
  /\ pc = "hosts"
  /\ pc' = "keys"
  /\ hosts' = IF ok THEN HostsEntries(peers) ELSE hosts
  /\ Report("hosts", ok)
  /\ UNCHANGED <<clock, nickname, after, stopping, readFailed, exit, peers, incoming,
                 dirty, timers, cache, knownHosts, sshConfig, flushedAt>>

FlushKnownHosts ==
  /\ pc = "keys"
  /\ pc' = "config"
  /\ knownHosts' = KnownHosts(peers)
  /\ UNCHANGED <<clock, nickname, after, stopping, readFailed, exit, peers, incoming,
                 dirty, timers, cache, hosts, sshConfig, history, faults>>

\* MUTANT: the error is logged and the configuration is written all the same.
FlushKnownHostsGoesOn ==
  /\ pc = "keys"
  /\ pc' = "config"
  /\ Report("ssh", FALSE)
  /\ UNCHANGED <<clock, nickname, after, stopping, readFailed, exit, peers, incoming,
                 dirty, timers, files, flushedAt>>

FlushKnownHostsFails ==
  /\ pc = "keys"
  /\ FlushReturns
  /\ Report("ssh", FALSE)
  /\ UNCHANGED <<clock, nickname, timers, files, flushedAt>>

FlushSSHConfig(ok) ==
  /\ pc = "config"
  /\ sshConfig' = IF ok THEN SSHBlocks(peers) ELSE sshConfig
  /\ FlushReturns
  /\ Report("ssh", ok)
  /\ UNCHANGED <<clock, nickname, timers, cache, hosts, knownHosts, flushedAt>>

-----------------------------------------------------------------------------
(* The cases of the loop's select.                                         *)

\* MUTANT: the map is dirty only if the announcement was sent.
AnnounceTickQuiet(sent) ==
  /\ pc = "loop" /\ clock >= announceAt
  /\ announceAt' = announceAt + Interval
  /\ peers' = Advertised(peers, sent)
  /\ dirty' = (dirty \/ sent # {})
  /\ UNCHANGED <<clock, nickname, process, incoming, flushAt, files, history, faults>>

\* case <-announceTicker.C.  The map is dirty even when advertise fails.
AnnounceTick(sent) ==
  /\ pc = "loop" /\ clock >= announceAt
  /\ announceAt' = announceAt + Interval
  /\ peers' = Advertised(peers, sent)
  /\ dirty' = TRUE
  /\ UNCHANGED <<clock, nickname, process, incoming, flushAt, files, history, faults>>

\* case <-flushTicker.C.  dirty is cleared after the flush, during which
\* nothing else reads or sets it.
FlushTick ==
  /\ pc = "loop" /\ clock >= flushAt
  /\ flushAt' = flushAt + FlushEvery
  /\ pc' = IF dirty THEN "save" ELSE "loop"
  /\ dirty' = FALSE
  /\ UNCHANGED <<clock, nickname, after, stopping, readFailed, exit, peers, incoming,
                 announceAt, files, history, faults>>

\* MUTANT: a known machine does not make the map dirty.
TakeIncomingQuiet ==
  /\ pc = "loop" /\ incoming # <<>>
  /\ peers' = Observe(peers, Head(incoming).ann, {Head(incoming).address}, clock)
  /\ incoming' = Tail(incoming)
  /\ dirty' = (dirty \/ Head(incoming).ann.id \notin DOMAIN peers)
  /\ UNCHANGED <<clock, nickname, process, timers, files, history, faults>>

\* case item := <-incoming.
TakeIncoming ==
  /\ pc = "loop" /\ incoming # <<>>
  /\ peers' = Observe(peers, Head(incoming).ann, {Head(incoming).address}, clock)
  /\ incoming' = Tail(incoming)
  /\ dirty' = TRUE
  /\ UNCHANGED <<clock, nickname, process, timers, files, history, faults>>

\* case err := <-readErrors.  Run returns without a flush, with nil when it
\* was also asked to stop.
ReadErrorExit ==
  /\ pc = "loop" /\ readFailed
  /\ Exit("readError")
  /\ UNCHANGED <<clock, nickname, timers, files, history, faults>>

\* MUTANT: the last flush publishes the map instead of clearing it.
ShutdownKeepsPeers ==
  /\ pc = "loop" /\ stopping
  /\ pc' = "save" /\ after' = "down"
  /\ UNCHANGED <<clock, nickname, stopping, readFailed, exit, peers, incoming, dirty,
                 timers, files, history, faults>>

\* MUTANT: the return is missing.
ShutdownStays ==
  /\ pc = "loop" /\ stopping
  /\ peers' = Prune(peers, clock + Hour)
  /\ pc' = "save"
  /\ UNCHANGED <<clock, nickname, after, stopping, readFailed, exit, incoming, dirty,
                 timers, files, history, faults>>

\* case <-ctx.Done().  Prune everything, flush, return.
Shutdown ==
  /\ pc = "loop" /\ stopping
  /\ peers' = Prune(peers, clock + Hour)
  /\ pc' = "save" /\ after' = "down"
  /\ UNCHANGED <<clock, nickname, stopping, readFailed, exit, incoming, dirty,
                 timers, files, history, faults>>

-----------------------------------------------------------------------------
(* The goroutine that reads the socket, concurrent with all of the above.  *)

\* A valid announcement arrives and there is room for it.
Receive(datagram) ==
  /\ Running /\ ~readFailed
  /\ Len(incoming) < QueueSize
  /\ incoming' = Append(incoming, datagram)
  /\ UNCHANGED <<clock, nickname, process, peers, dirty, timers, files, history, faults>>

\* ReadFrom fails: the error is posted and the goroutine returns.
ReadError ==
  /\ Running /\ ~readFailed
  /\ readFailed' = TRUE
  /\ Fault
  /\ UNCHANGED <<clock, nickname, pc, after, stopping, exit, peers, incoming,
                 dirty, timers, files, history>>

-----------------------------------------------------------------------------
Environment == Tick \/ Signal \/ Kill \/ \E n \in OwnNickname : Rename(n)

Flush ==
  \/ \E ok \in BOOLEAN : FlushSave(ok) \/ FlushHosts(ok) \/ FlushSSHConfig(ok)
  \/ FlushKnownHosts
  \/ FlushKnownHostsFails

Loop ==
  \/ \E sent \in SUBSET OwnAddress : AnnounceTick(sent)
  \/ FlushTick \/ TakeIncoming \/ ReadErrorExit \/ Shutdown

Reader == ReadError \/ \E datagram \in Heard : Receive(datagram)

Next ==
  \/ Environment
  \/ \E sent \in SUBSET OwnAddress : Start(sent)
  \/ Flush
  \/ Loop
  \/ Reader

Spec == Init /\ [][Next]_vars

\* flush never blocks, and select picks uniformly among the cases that are
\* ready, so one that is ready again and again is eventually picked.
Fairness == WF_vars(Flush) /\ SF_vars(Shutdown)

FairSpec == Spec /\ Fairness

-----------------------------------------------------------------------------
(* Properties.                                                             *)

\* The longest a flush can be away from the previous one: until the next
\* announcement marks the map dirty, then until the next flush tick.
Cadence == Interval + FlushEvery + 2 * MaxLag

\* While the agent runs, its flushes are never further apart than the
\* cadence, whatever arrives or fails: the dirty flag delays a flush at most
\* until the announcement after it, also after a flush whose writes failed.
FlushesInTime == pc = "loop" => clock <= flushedAt + Cadence

\* A silent machine disappears from the hosts file: an address that the file
\* lists was heard at most the TTL and one cadence ago, unless the last
\* attempt to replace the file failed.  This holds for what a killed agent
\* left behind as soon as the next one is in its loop.
BoundedStaleness ==
  pc = "loop" /\ SyncHosts /\ "hosts" \in current
    => \A e \in hosts : clock <= e.seen + TTL + Cadence

\* An agent that waits with the map marked clean has published all of it:
\* each file whose last write succeeded is exactly what the map says, so no
\* rename, new address, collision or new key is waiting for a later event.
CleanMeansPublished ==
  pc = "loop" /\ ~dirty =>
    /\ "cache" \in current => cache = peers
    /\ SyncHosts /\ "hosts" \in current => hosts = HostsEntries(peers)
    /\ SyncHosts /\ "ssh" \in current =>
         knownHosts = KnownHosts(peers) /\ sshConfig = SSHBlocks(peers)

\* The hosts file and the SSH configuration never send one alias to two
\* different machines while both were written by the last flush, even though
\* they are replaced one after the other and either write may have failed or
\* been cut short before.
FilesAgree ==
  pc = "loop" /\ SyncHosts /\ {"hosts", "ssh"} \subseteq current =>
    \A e \in hosts, b \in sshConfig : e.alias = b.alias => e.id = b.id

\* A Host block is added only for a machine whose key is already in the known
\* hosts, whatever crash or error comes between the two writes.  Nothing is said
\* of a block that was there before: it may outlive its key by a flush.
KeyBeforeBlock ==
  [][\A b \in sshConfig' \ sshConfig : b.id \in DOMAIN knownHosts']_vars

\* The comment on ctx.Done: an agent that was told to stop and cleaned up
\* leaves no alias, provided the last writes succeeded.
StopCleansUp ==
  pc = "down" /\ exit = "shutdown" =>
    /\ "cache" \in current => cache = NoPeers
    /\ SyncHosts /\ "hosts" \in current => hosts = {}
    /\ SyncHosts /\ "ssh" \in current => knownHosts = NoPeers /\ sshConfig = {}

\* The same comment for every agent that stopped by itself: it "must not
\* leave aliases pointing at machines it can no longer verify".  The code
\* does not live up to it when the socket fails.
StoppedLeavesNoAliases ==
  pc = "down" /\ exit \in {"shutdown", "readError"} /\ "hosts" \in current
    => \A e \in hosts : e.id = Self

\* What the next step of the process starts from.
Remembered == IF pc = "down" THEN cache ELSE peers

\* No step of an agent forgets a machine it heard within the TTL, except by
\* the rename that replaces its addresses or by the shutdown; a restart keeps
\* every such machine that was saved before the process ended.
NoEarlyExpiry ==
  [][pc' # "down" /\ after' = "loop" =>
       \A id \in DOMAIN Remembered : \A a \in DOMAIN Remembered[id].addresses :
         Remembered[id].addresses[a] >= clock - TTL =>
           /\ id \in DOMAIN peers'
           /\ \/ a \in DOMAIN peers'[id].addresses
              \/ peers'[id].nickname # Remembered[id].nickname]_vars

\* `lan-nick map` reads the cache and prunes it by the built-in TTL.
Map == Prune(cache, clock - DefaultTTL)

\* "Show active peers": a machine that the running agent publishes and that
\* has not been silent for the agent's TTL is on the map.  Holds when the
\* agent runs with the built-in TTL, not with another --ttl.
MapShowsPublished ==
  pc = "loop" /\ SyncHosts /\ ~dirty /\ {"cache", "hosts"} \subseteq current =>
    \A e \in hosts : clock <= e.seen + TTL => e.id \in DOMAIN Map

\* An agent that is asked to stop does stop, however much traffic it has.
StopTerminates == stopping ~> pc = "down"
=============================================================================
