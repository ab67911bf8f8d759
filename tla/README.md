# A TLA+ model of lan-nick

lan-nick gives every machine of a LAN a nickname. Each machine announces its
nickname over UDP, collects the announcements of the others, and maps the names
in its hosts file and its SSH configuration. This directory holds TLA+ modules
translated from the Go source, TLC configurations that check them on small
instances, and proofs that TLAPS checks for every value of the constants.

    tlc -workers 2 -config AgentTiming.cfg MCAgent.tla     # one run
    tlapm LanProofs.tla                                    # the proofs of one module

`PROJECT.json` lists the runs, the line ranges each definition stands for, the
mutants that show each property can fail, the findings and the hazards.

## The system

| component | state | operations | hard behaviour |
|---|---|---|---|
| agent (`internal/agent`) | the peer map, `dirty`, two tickers, a channel of 64 announcements | `Run`: load, advertise, flush, then a `select` of stop, read error, announcement, three tickers | a goroutine reads the socket beside the loop; the process can be stopped, killed or lose its socket between any two file writes |
| store (`internal/store`) | machine ID -> name, key, addresses with the time each was heard; `peers.json` | `Observe`, `Prune`, `Load`, `Save`, `Snapshot`, `ReadSnapshot` | expiry; renames; what a restart inherits |
| hosts file (`internal/hosts`) | a managed section | `Sync` renders a snapshot | collisions of aliases; edits by others |
| SSH files (`internal/sshconfig`) | managed sections of known hosts and configuration | `Sync` replaces one, then the other | an error or crash between the two |
| configuration (`internal/config`) | `config.json`: ID, nickname, group | `LoadOrCreate`, `Save`; `Alias` | several processes, no lock, one temporary file |
| protocol (`internal/protocol`) | none | `New`, `Encode`, `Decode`, `Validate` | late, repeated and reordered datagrams |
| network (`internal/network`) | none | enumerate interfaces | interfaces that come and go |
| service (`internal/service`) | unit file or equivalent, installed binary, the running service | `Install`, `Uninstall` per platform; the Windows handler | a step fails, the command is killed, the machine reboots |
| command line (`cmd/lan-nick`) | none | `status`, `rename`, `group`, `map`, `serve`, `install`, `uninstall` | read-modify-write of the configuration |

They interact through files more than through calls. `rename` writes
`config.json`, which the agent reads before each announcement; `map` reads
`peers.json`, which the agent writes at each flush; `uninstall` stops the agent
through the service manager and then rewrites the files the agent maintained.
Inside the agent everything runs in one goroutine except the socket reader,
which hands over announcements through a channel.

What makes each component correct:

- agent: what it publishes is never older than a known bound, everything it
  knows gets published, nothing live is dropped, a stop cleans up and terminates;
- hosts and SSH files: they never contradict each other about an alias, and no
  Host block exists before its key;
- configuration: always readable, changes are atomic, the ID never changes;
- service: a reported success is one, and nothing runs that cannot be stopped.

## Modules

| module | models | source |
|---|---|---|
| `PeerStore` | the peer map and what both renderers make of it: pure operators | `store.go`, `hosts.go`, `sshconfig.go`, `protocol.go` |
| `Agent` | one machine's `serve`, over several runs of the process | `agent.go`, `main.go` |
| `MCAgent` | small instances of `Agent` | |
| `ConfigSpec` | the configuration as one atomic variable | |
| `ConfigFile` | `config.json` system call by system call | `config.go`, `main.go` |
| `MCConfigFile` | the symmetry of `ConfigFile` | |
| `Service` | what the services of all platforms share, and their properties | `install.go`, `main.go` |
| `ServiceLinux` | install and uninstall on Linux, with systemd | `service_linux.go` |
| `ServiceDarwin` | the same on macOS, with launchd | `service_darwin.go` |
| `ServiceWindows` | the same on Windows, with the service control manager and the handler | `service_windows.go` |
| `MCService` | a machine with any one of the three platforms | |
| `AliasName` | `config.Alias`, rune by rune: pure operators | `config.go` |
| `AgentNames` | `Agent` with aliases made by `AliasName` from spelled nicknames | |
| `MCAgentFiles` | a small instance of it | |
| `Lan`, `MCLan` | several machines and the network between them | `agent.go`, `store.go`, `protocol.go` |
| `ManagedFile`, `MCManagedFile` | a system file with a managed section, system call by system call | `hosts.go`, `sshconfig.go` |
| `PeerStoreProofs`, `AgentProofs`, `LanProofs`, `ConfigFileProofs`, `ManagedFileProofs`, `ServiceWindowsProofs` | theorems about the module each is named after | |
| `MCServiceProofs` | theorems about Linux, macOS, and `MCService`, whichever platform it is | |
| `AliasProofs` | theorems about `AliasName` and `AgentNames` | |

### PeerStore

A store is a partial function from IDs to records. `Observe` and `Prune` follow
the methods of the same name. `Unambiguous` is the collision test of both
renderers: exactly one machine of the store has the alias. `HostsEntries`,
`KnownHosts` and `SSHBlocks` are the lines of the three rendered files as sets;
an entry also carries the machine and the time of the sighting it stands for,
which are not written but which the properties speak about. Aliases are a
function of nicknames that need not be injective, since `Validate` refuses an
announcement whose alias is not `config.Alias` of its nickname. Left out: the
group (a heading of `map`), the order of lines, comments.

### Agent

Every case of the `select` is an action: `AnnounceTick`, `FlushTick`,
`TakeIncoming`, `ReadErrorExit`, `Shutdown`. The case of `interfaceTicker` only
joins multicast groups, which no variable records. `flush` is not atomic: `pc`
walks through `save`, `hosts`, `keys` and `config`, one action per file, each of
which may fail, and between any two of them the process may be killed, the
reader may add to the channel or post an error, and a stop may be requested.
`Start` is `Run` up to its first flush. `Receive` and `ReadError` are the reader
goroutine. `Rename`, `Signal`, `Kill` and `Tick` are the environment.

`Advertised(store, sent)` is `advertise`: `sent` is any set of own addresses,
empty when the configuration or the interfaces cannot be read.

Every end of the process sets the variables that were only in memory back; the
four files, the configured nickname and the clock survive. History variables
record when the last flush began, which of its writes succeeded, and how the
process ended.

Time is discrete. The clock advances only while the loop waits or no process
runs, and not past a ticker that has been due for `MaxLag`; the time handlers
take is thereby part of the lag. The wall clock is assumed not to go backwards.
`DefaultTTL` is the constant that `lan-nick map` uses in place of the TTL.

### ConfigFile and ConfigSpec

`ConfigFile` has the names `config.json` and `config.json.tmp` point to inodes,
because a process that opened the temporary file keeps writing to its inode
after another process renamed it into place. `Open`, `Write`, `Own`, `Replace`
are the steps of `Save`; `ReadFound`, `ReadFails`, `ReadCreates` the outcomes of
reading in `LoadOrCreate`. A process in `Sudo` changes the owner of the
temporary file before the rename and fails if it is gone. `MaxWriters` bounds
how many commands that may write overlap: with 1, `ConfigFile` implements
`ConfigSpec` (a create, a rename or a group at a time); with 2 it does not.

### Service, ServiceLinux, ServiceDarwin, ServiceWindows

`machine` records the service definition, whether the service is enabled, the
binary, the version of the running agent, and whether managed entries exist.
Each step of `Install` and `Uninstall` is an action, with its failure; `Service`
has what is the same on all platforms. `survived` is history: the running agent
outlived a stop that failed. The service managers are external:

- systemd keeps a service running when its unit file is removed, starts one with
  `enable --now` only if none runs, and restarts a failed agent from whatever
  binary is at its path;
- launchd stops a service by its label, whether or not its plist still exists.
  This is why a repeated uninstall is complete on macOS and not on Linux;
- the SCM of Windows deletes a service only when it has stopped and nobody has a
  handle to it, starts automatic services some time after boot, and restarts
  nothing. A process holds its executable until it is gone, which is after its
  service reported that it stopped.

`ServiceWindows` adds the variable `scm`. Both commands begin with
`removeWindowsService`, whose two polling loops are `AwaitStopped` and
`AwaitDeleted`; that they give up is a failure at any time, and what they waited
for may happen right after. `Slips` is a step whose error the code drops. The
handler of the service is `HandlerStops`, `HandlerTimesOut` and `AgentFails`.

### Lan

Each machine is its store, under the same `Observe`, `Prune` and renderers as in
`Agent`. `Send` gives an announcement to some of the running machines and puts a
datagram for each of them on the network, where it may stay for `MaxDelay` and be
received more than once, in any order, also by an agent started since. A
machine that missed one announcement of another does not miss the next: more
than one loss in a row is outside of what the TTL is made for. `calm` is history,
the time since a user did anything. Time is relative: `Tick` makes all
sightings one unit older and drops those older than the TTL, which an agent does
at its next flush and `ReadSnapshot` at each read. The cadence of flushes is left
to `Agent`; its `FlushesInTime` is what has to be added to the times here.

### ManagedFile

One of the hosts file, known hosts and `ssh_config` as a sequence of lines:
lines of users, the two markers, blank lines and rendered entries. `Rest` and
`Rendered` are `Render` and `renderManaged`, which differ in where they trim,
where they put the section and whether an empty one is written. `Begin`, `Read`,
`Open`, `Write` and `Rename` are the steps of `Sync` and `syncManagedFile`, each of which
may fail or be the last before a kill. `Edit` is a user who inserts a line or
removes any line, a marker included, at any moment; `Change` is the agent having
a new snapshot. A user who adds a marker of his own is left out.

The comment of a hosts entry is the nickname its machine announces
(`hosts.go:108`), of which `Validate` checks the length, and `Render` finds the
markers by substring. A nickname may therefore spell one; the alias, the IDs and
the keys in the SSH files cannot (`Bodies`). An entry that spells a marker is two or
three lines of the model: the marker, which is where the renderer would cut, and
what stands before and after it. `spelled` is history: a sync was to write such an
entry. What happens then is in the model: with "END lan-nick" the next sync takes
the section to end in the middle of that entry, keeps the rest of it and the real
end as if they were a user's, and the end that is left over stands before the
section of the syncs after it, all of which refuse the file until somebody removes
the line. The properties about users' lines and the section are therefore stated
until a sync is to write such a nickname; `DamagedLeftAlone` and `TypeOK` always.
TLC confirms that `SyncedAsAsked` and `Idempotent` need the exception.

`intended` and `read` are history too: the users' lines as users left them, and as
the last sync that writes has read them. An edit between the read and the rename of
a sync is lost (`raced`); `ReplacedWhole` says of such a sync that it loses that edit
and nothing else. Lines count as users' by who wrote them, so that
`ManagedFileAssumption` can keep the two sets apart.

### AliasName

`AliasFor` is the loop of `config.Alias` (`Result`), then the fallback, the limit
of 63 and the reserved names, which are parameters here so that short names reach
all of them. Runes are of three kinds: ASCII letters and digits, letters and
digits beyond ASCII, and all others, such as blanks and hyphens. `Faithful`
compares the result with a definition in one piece (`ByWords`). `AgentNames` is an
agent whose aliases are made this way.

## Runs

| run | instance | shows |
|---|---|---|
| `AgentTiming` | one other machine; interval 3, flush period 2, TTL 7, lag 1, clock to 20; one fault | `FlushesInTime`, `BoundedStaleness`, `CleanMeansPublished`, `MapShowsPublished`, `NoEarlyExpiry`, types |
| `AgentFiles` | this machine and two others, two of three nicknames with one alias, keys; two faults; all nicknames of up to five runes | `FilesAgree`, `KeyBeforeBlock`, `StopCleansUp`; `AliasesUsable`, `AliasesStable`, `AliasesFaithful` |
| `AgentStop` | this machine and its own datagrams, `--no-hosts`, renames; fairness | `StopTerminates` |
| `AgentReadError` | one fault | `StoppedLeavesNoAliases` is violated |
| `AgentOtherTTL` | agent TTL 5, built-in TTL 1 | `MapShowsPublished` is violated |
| `ConfigOneWriter` | an agent under sudo and a CLI, one writer at a time, two faults | `AlwaysReadable`, refinement of `ConfigSpec`, types |
| `ConfigOverlap` | a configured machine, two writers at once, one fault | `StableID` |
| `ConfigFirstRun` | no configuration, two writers at once, no fault | `StableID` is violated |
| `Services` | each platform, two versions, three faults | `NoOrphan`, `InstallRunsEverywhere`, `UninstallCompletes`, `UninstallIsCompleteElsewhere`, `StartsSomething`, `RolledBack`; types, and that a recorded error is returned before the managed files are cleared (`MCTypeOK`) |
| `ServiceLinuxUninstall` | one fault | `UninstallIsComplete` is violated |
| `Lan` | two machines, two names; interval 1, TTL 3, delay up to 1; two faults | `Settled`, `GhostsExpire`, `Agreed`, types |
| `ManagedFile` | each of the three files, two initial contents, three sections, one of which spells an end; two edits or changes, one fault; fairness | `UserLinesSurvive`, `ReplacedWhole`, `SyncedAsAsked`, `Idempotent`, `DamagedLeftAlone`, `Repaired`, types |

Why the bounds are enough.

- `AgentTiming`: with periods 3 and 2 the tickers drift through every phase
  relative to each other by time 6, and 20 leaves room for a sighting at 5, its
  TTL and a whole cadence. The bounds `FlushesInTime` and `BoundedStaleness`
  state are tight here: with `Cadence` one smaller TLC finds both violated. In
  units of half a second this is the real one-second flush period with
  `--interval 1500ms`. One fault is a kill and restart, a failed write of any
  file, a stop or a socket error, each at any time.
- `AgentFiles`: the names nA and nB, "AöK" and "ab", have one alias, and a
  reserved one. p moves from nC (with a key)
  to nB (without), which collides with this machine; q claims nC, which was p's,
  with another key. An alias thereby changes hands between two machines in both
  directions, through a collision, and two faults allow one file to be stale
  while the other fails too, or a kill in between. Nothing expires within time
  2, which `AgentTiming` is for. The channel holds 1 announcement: longer
  queues only delay what `TakeIncoming` does, and any datagram may arrive at any
  time anyway.
- `AgentStop`: the clock stops at 2, which leaves only traffic and flushes to go
  on for ever, the case in question; a queue of 2 is never empty for long. With
  `--no-hosts` a flush is one step. With hosts synchronised it is at most four,
  each enabled until taken, so the argument is the same.
- `ConfigOneWriter`: three IDs allow a create that fails, another that fails and
  a third. Inodes are interchangeable; the refinement property and the
  invariants do not name one, so the symmetry is sound. Four inodes are one
  more than two names and two open files can ever use at the same time.
- `Services`: three faults allow a failed stop, a failed removal and a reboot, the
  longest combination the properties distinguish. A Windows install that rolls
  back, a rollback step that fails and a reboot need three as well.
- `Lan`: with a TTL of 3 and an interval of 1 one loss and one unit of delay just
  fit (`SlackAssumption`, which the defaults of 5 and 16 seconds satisfy with 6 to
  spare). Two faults are a rename and a kill, two renames back and forth, or a
  stop and a rename while the other is down. `Settled` is tight: TLC finds it violated
  with `calm >= SettleTime`. Machines and names are interchangeable, and no
  property names one. Renames to one name make the two collide.
- `ManagedFile`: two edits remove both markers, or one and a line inside; the
  initial contents are empty or end in a blank line, and an SSH file may
  be missing. One nickname spells an end. None spells both markers: each such
  entry would grow the file by a section at every sync, without bound. One fault is a failed or killed write that leaves any part of the
  text in the temporary file.
- `AliasName`: up to five runes, of seven, with a limit of four allow a name that is
  cut at a hyphen, and an upper-case, a foreign, and a foreign letter whose lower
  case is ASCII anywhere in a reserved name.

`CHECK_DEADLOCK` is on everywhere: in none of the models is there a state
without a next step.

### Fairness

`StopTerminates` assumes weak fairness of the steps of `flush` (they never block
and nothing disables them but the end of the process) and strong fairness of
`Shutdown`. Go's `select` chooses uniformly among the cases that are ready, and
once the context is cancelled its case is ready every time the loop comes round,
so with probability 1 it is chosen. Weak fairness would not do: the case is not
enabled while a flush runs. Nothing else is fair: neither arrivals, nor ticks,
nor the clock.

`Repaired` assumes that syncs go on, step by step: the announce ticker makes the
map dirty at every interval, so an agent flushes for ever, which `FlushesInTime`
shows. Faults, edits and changes are bounded and not fair. `Lan` needs no
fairness: its properties are bounds in time, and time stops at what is due.

## What is proved

### One machine: PeerStoreProofs and AgentProofs

`PeerStoreProofs` states what the operators on stores return, preserve and
bound; its main result, `SnapshotAgrees`, is that one snapshot never renders an
alias for two machines. `AgentProofs` proves, for all values of the constants
that satisfy the assumptions of `PeerStore` and `Agent`:

| theorem | property | invariant it needs |
|---|---|---|
| `TypeCorrect` | `TypeOK` | itself |
| `FlushesAlwaysInTime` | `FlushesInTime` | `CadenceInv` |
| `StalenessBounded` | `BoundedStaleness` | `StalenessInv` |
| `CleanIsPublished` | `CleanMeansPublished` | `PublishedInv` |
| `FilesAlwaysAgree` | `FilesAgree` | `PublishedInv` |
| `KeysFirst` | `KeyBeforeBlock` | `PublishedInv` |
| `NothingExpiresEarly` | `NoEarlyExpiry` | `TypeOK` |
| `StopAlwaysCleansUp` | `StopCleansUp` | `StopInv` |
| `MapShowsWhatIsPublished` | `MapShowsPublished`, if `DefaultTTL >= TTL` | `CleanMeansPublished` |

The assumptions of `Agent`: own options as `Run` accepts them (TTL more than two
intervals), and a lag smaller than both ticker periods.

- *Cadence.* That a flush is recent says nothing about the next state; one has to
  know when the next one can come. `TimingInv` bounds the next tick of each
  ticker by the clock and by the time of the last flush: while the map is clean
  the next announcement is at most an interval after the last flush, and once
  it is dirty the next flush tick is at most one flush period after that
  announcement. Adding a lag for each of the two tickers gives `Cadence`.
- *Staleness.* `FreshInv` says that what the hosts file lists was within the TTL
  when the last flush began, or is what a killed predecessor left and has not
  been replaced yet, in which case `hosts` is not in `current`. With the cadence
  this gives the bound.
- *Published.* At each `pc` inside a flush, exactly the files before it are equal
  to the map, if their writes succeeded; and nothing else touches the map during
  a flush. At the return this is `CleanMeansPublished`, and the two files come
  from one snapshot, so `SnapshotAgrees` gives `FilesAgree`. While the map is
  dirty the two files keep agreeing because neither is written.
- *Stop.* No sighting is later than the clock (`SeenInv`), so a prune an hour
  into the future empties the map, and it stays empty to the end of the flush
  (`EmptyInv`).

### Several machines: LanProofs

For any number of machines, names and addresses, any interval, TTL, lag and
delay that satisfy `LanAssumption` and `SlackAssumption`, and any number of
faults:

| theorem | property | parts of `LanInv` it needs |
|---|---|---|
| `LanTypeCorrect` | `TypeOK` | `SeenInv` |
| `AlwaysSettled` | `Settled` | `HeardInv`, `DatagramInv` |
| `GhostsAlwaysExpire` | `GhostsExpire` | `GhostInv`, `DatagramInv` |
| `AlwaysAgreed` | `Agreed` | all |

`Settled` and `GhostsExpire` speak only about states in which nobody has intervened
for long, and so say nothing of the state before; the invariant says at every
moment how far the machines have come.

- `DatagramInv`: a datagram under way says what is so, or it was sent before the
  last intervention and must arrive so soon that `left + calm <= MaxDelay`.
- `GhostInv`: every sighting of a stopped machine was heard so long ago that its
  time plus `calm` is at most `TTL + MaxDelay`. A tick takes one from the time and
  adds one to `calm`; a datagram of it that still arrives is one of the late ones.
- `HeardInv`: for every two running machines p and q, q has heard p, under the
  name it has, within `HeardWithin(p, q)`; or a true datagram of p is on
  its way to q, which has heard p within `Awaited(left)` until it comes; or the
  machines have not been left alone for that long.
  `HeardWithin` is what is over of one interval, or of two while q misses the last
  announcement. An announcement that does not reach q moves the ticker by an
  interval and q into `missed`, so that `HeardWithin` stays the same; one that does
  turns it into `Awaited(MaxDelay)`; a tick adds one to either. Neither can reach
  the TTL, because a tick comes neither past a due announcement nor past a due
  datagram, and this is where `SlackAssumption` is used: without it a sighting can
  expire before the next one comes.

`Agreed` follows from the two: a store that holds exactly the running machines,
each under its name, is rendered to `Truth`, whatever the aliases are.

### The configuration: ConfigFileProofs

For any processes, names, inodes and faults:

| theorem | property | under | invariant |
|---|---|---|---|
| `ConfigTypeCorrect` | `TypeOK` | `Spec` | `TypeInv` |
| `ConfiguredIDStable` | `StableID` | `ConfiguredSpec`, any number of writers | `OneID` |
| `OneWriterReadable` | `AlwaysReadable` | `Spec`, `MaxWriters = 1` | `OneWriterInv` |
| `OneWriterIDStable` | `StableID` | the same, a first run included | `OneWriterInv` |
| `OneWriterActsAtomically` | `ActsAtomically` | the same | `OneWriterInv` |

- `TypeOK` is not inductive: `Write` writes what the process works on, which must be
  a configuration by then. `TypeInv` adds that.
- `OneID`: that config.json shows one ID is not enough, because a rename puts
  whatever is in the temporary file in its place, or in an inode that a process
  still has open. All inodes that hold a configuration and all processes that work
  on one must have the same ID, and the file must exist, or `LoadOrCreate` would
  make another one.
- `OneWriterInv`: at most one process may write (`OneWriter`, from counting the
  writers when a command begins), and `Progress` says how far its save is: the
  temporary file is its own and holds what `pc` says, and what it is about
  to write is one change of the file as it is now. Then every step but `Replace`
  leaves `File` as it is, and `Replace` is `Create`, `Rename` or `SetGroup` of
  `ConfigSpec`.

`MaxWriters = 1` is a hypothesis of the last three because the code has no lock:
it is what a machine does on which one command runs at a time, the case of run
`ConfigOneWriter`. Run `ConfigFirstRun` shows that `StableID` needs it on a first
run. `ConfigAssumption` asks for finitely many processes, since the number of
writers is a cardinality, and for more inodes than names and open files can
use at the same time.

### The services

Each platform has one inductive invariant, for any versions and any number of
faults: types, which steps may have recorded an error, `NoOrphan` (on Windows `SCMInv`), how far a command has come
(`LinuxProgress`, `DarwinProgress`, `ProgressInv`) and what one that has ended
leaves (`LinuxInstalled`, `DarwinOutcome`, `OutcomeInv`). `ServiceWindowsProofs`
proves that of Windows; `MCServiceProofs` instantiates it and proves the other
two (`LinuxInv`, `DarwinInv`). Its `PlatformInv` says that the invariant of the
platform the machine has holds. `LinuxNoOrphan`, `LinuxInstallRuns` and
`LinuxUninstallAlwaysCompletes` are about Linux alone, the others about the
specification that run `Services` checks:

| theorem | property |
|---|---|
| `EveryPlatformTyped` | `MCTypeOK` |
| `NoOrphanAnywhere` | `NoOrphan` |
| `InstallRunsOnEveryPlatform` | `InstallRunsEverywhere` |
| `UninstallCompleteElsewhere` | `UninstallIsCompleteElsewhere` |
| `UninstallCompletesOnEveryPlatform` | `UninstallCompletes` |
| `AlwaysStartsSomething` | `StartsSomething` |
| `AlwaysRolledBack` | `RolledBack` |

`NoOrphan` is not inductive: the step that removes the unit file keeps it only
because the agent has been stopped before. The progress says, for each `pc`,
what the command has achieved so far: past the first step no agent runs, or it
survived; the binary, then the unit file are in place (install) or gone
(uninstall, unless an error is recorded). A restart or reboot in the middle of a
command keeps it, because the first needs a running agent and the second ends
the command.

The platforms differ in what has to be known besides. On Linux an agent that
systemd restarts after an install comes from the same binary (`LinuxInstalled`). On
macOS `bootout` goes by the label, so after it no agent is left whether or not
there is a plist, and a repeated uninstall needs no exception. On
Windows a command leaves the service to the SCM in between: `SCMInv` relates its
state, the mark for deletion and the process to the files. A process that runs
without a service is one that the handler gave up on and that still holds its
executable, which is why no uninstall can report success before it is gone.

### A managed file: ManagedFileProofs

For files, sections and users' lines of any number and length, each of the three
files, any number of edits and faults, and nicknames that spell what they like:

| theorem | property |
|---|---|
| `FileSynced` | `SyncedAsAsked` |
| `FileIdempotent` | `Idempotent` |
| `FileDamaged` | `DamagedLeftAlone` |
| `FileUserLines` | `UserLinesSurvive` |
| `FileReplacedWhole` | `ReplacedWhole` |
| `FileType` | `TypeOK` |

Most of the module is about the renderers.

- `Start`, `End` and `Rest` are made of the first and the last line of a kind:
  `MinLemma` has the first of any set of numbers from the library's theorem on
  minimal elements, which takes the place of an induction, and `MaxLemma` the
  last from it.
- A text that a sync does not refuse has no marker or exactly one section
  (`WholeLemma`), because users never double a marker (`Single`). Its `Rest` is
  nothing, one piece of it or two around the section (`RestForm`), without
  markers, and with no blank line where `Rest` cuts them off (`RestShape`).
- Of a text that has a section before, after or beside such a rest, `Rest` finds
  the rest again (`RestOfSection`, `RestBeforeSection`, `RestAfterSection`). So
  rendering keeps what is outside the section, and rendering what was rendered
  changes nothing (`RenderedLemma`).

The invariant `FileInv` has two unconditional parts, the types and that a sync writes
only to a file that it did not refuse (`NotRefused`), from which `FileType` and
`FileDamaged` follow whatever nicknames spell. The two others hold until a sync is to
write a nickname that spells a marker, which once so remains so (`SpelledStep`):

- `SectionInv`: what a sync has written stays as `Rendered` made it until a user edits
  the file (`Written`); the text about to replace the file is one like it and, if
  nobody has edited the file since, has the `Rest` of the file (`Pending`); and no
  marker is there twice.
- `UsersInv`: the users' lines of the file are as they left them, and those of the text
  about to replace it are as they were read. An absent file has none: a sync that
  creates the file adds none.

The properties speak about the end of a sync only; the invariant carries what the
read established over the three system calls in between. That no marker is there
twice is where a nickname that spells one comes in: without the condition the
first sync that writes one would break it.

`FileUserLines` needs to know what a recursion over the lines of a file computes.
The library's theorems of induction cannot be instantiated, but a least
counterexample does the same: of the numbers up to the length at which a claim
fails there is a smallest, it is not 0, and the claim holds just before it
(`UpwardLemma`). `RecursionLemma` gets from this that a function defined line by
line exists and what it is at each line, and from that come two facts about
`UserLines`: those of two texts put together are those of the first, then those of
the second (`UserLinesConcat`), and a text of markers, blank lines and entries has
none (`NoUserLines`). With `RestForm`, `Rest` keeps them (`RestKeepsUsers`).

### Aliases: AliasProofs

For every nickname, a sequence of runes of any length, and any set of runes that
satisfies `AliasNameAssumption`:

| theorem | property |
|---|---|
| `AliasUsable`, `AliasesAlwaysUsable` | `AliasesUsable` |
| `AliasStable`, `AliasesAlwaysStable` | `AliasesStable` |
| `AliasFaithful`, `AliasesAlwaysFaithful` | `AliasesFaithful` |

The first of each row is about the function alone, the second about an agent in
any behaviour of `Spec`, where it takes only that what the map and the hosts file
hold are nicknames and aliases (`TypeCorrect`). The assumptions are what the
constants of `config.Alias` satisfy: no ASCII letter has another lower case, the
fallback is a name the loop could have made, the prefix the beginning of one, and
a reserved name with the prefix is short enough and not reserved. A lower case may
be any rune: that of the Kelvin sign is an ASCII letter.

- *Usable.* After each rune the name begins with a letter and has no two hyphens
  in a row (`Begun`, kept by each step of the loop: `NormalisedLemma`). A hyphen can
  be left at the end only, so that `Trimmed`, which drops one, drops all
  (`TrimmedLemma`), also of a name that was cut (`ShortenedLemma`).
- *Stable.* A usable name is what the loop makes of it (`UsableIsKept`): after i runes
  it has exactly the first i, because its hyphens are the ones the loop would write.
- *Faithful.* The loop writes a hyphen when something other than a letter comes, the
  definition by words only when the next letter does. `Agree` relates them after i
  runes: the loop is ahead by a hyphen exactly if a letter that came next would be
  set `Apart` (`AgreeLemma`); foreign letters are skipped by both, between hyphens
  and letters alike.

Each is an induction over the runes, again by a least counterexample.

### Only model-checked

- `StopTerminates` and `Repaired`: liveness under fairness, like the enabledness of
  actions, is beyond the prover.
- The violations under "Findings", by their nature.

## Findings

1. A socket error ends the agent without the cleanup of a stop
   (`agent.go:196`), although the comment at line 190 says a stopped agent must
   not leave aliases behind and excepts only a forced kill. Even an agent that
   was already asked to stop may return this way. Run `AgentReadError`.
2. `lan-nick map` uses the built-in TTL whatever `--ttl` the agent runs with
   (`main.go:128`), so it omits machines that the agent still publishes. Run
   `AgentOtherTTL`; `MapShowsWhatIsPublished` gives the condition under which
   it cannot happen.
3. Two first runs at once give a machine two IDs in turn (`config.go:79`). Run
   `ConfigFirstRun`; `ConfigOverlap` shows that a machine with a configuration
   is safe from it.
4. A Linux uninstall removes the unit file even if `disable --now` failed
   (`service_linux.go:64`); a second one then reports success while the agent
   runs on. Run `ServiceLinuxUninstall`. `NoOrphan`, `InstallRuns` and
   `UninstallCompletes` show that this is the only way to get there.

No document contradicts what a nickname that spells a marker does to the hosts file
(`hosts.go:108`, under ManagedFile above); it is the exception `spelled` of the
properties there.

## Not modelled

- Power loss: files are renamed without a sync, and the model has no page cache.
  A kill of the process is modelled everywhere.
- A wall clock that is set back; cloned machine IDs.
- Line endings, the order of entries in rendered files, and comments except that a
  nickname may spell a marker; two
  programs that sync the same file at once, such as an agent started by hand
  with another `--port` beside the service.
- The resolution of the state directory, the choice of interfaces and the join
  table of multicast groups, the bytes of announcements, the parsing of keys.
  The first two are functions of the environment of a process; a
  group that was not joined is a loss in the models, which have an arbitrary
  network.
- More than one lost announcement in a row, and agents of one LAN with different
  intervals and TTLs.
- A change of `--no-hosts` between two runs of an agent: `SyncHosts` is a
  constant.

## Plan

In the order of what matters most to the system.

1. `Agent`, `PeerStore` and their theorems: done.
2. `ConfigFile` with its abstract specification, `ServiceLinux`: done.
3. `Lan`, `ManagedFile`, `ServiceDarwin`, `ServiceWindows`, `AliasName`: done.
4. Proofs about `Lan`, the services of all platforms, `ConfigFile` with its
   refinement, `ManagedFile` and `AliasName`: done.
5. `StateDir`: which environments make CLI and service disagree; `Interfaces`: the
   join table.
