# wsdd-native in TLA+

This directory models `wsddn`, a daemon that announces a host to Windows
machines over WS-Discovery. The modules follow the sources under `src/src/`;
TLC checks them on small instances, and TLAPS proves theorems about fifteen of
them for every value of their constants. `PROJECT.json` ties every definition to
the lines it stands for and lists the runs, the mutants that each checked property
catches, the findings, the hazards and the theorems.

## The system

One main process reads options and a configuration file, may turn itself into a
UNIX daemon, takes a pid file, and then serves, either itself or through a forked
child in another root directory and under another account. Serving is one
single-threaded asio event loop. An interface monitor tells the server manager
which addresses exist; the manager keeps one WSD server per address; each of
these has a UDP server (a multicast and a unicast socket) and an HTTP server
(an acceptor and its connections). SIGTERM and SIGINT stop all of this gracefully,
SIGHUP does the same, reads the file again and starts over.

| component | source | state | operations | what makes it correct |
|---|---|---|---|---|
| pid file | `pid_file.h` | path, descriptor, locking process | open with retry, destructor, swap at reload, copies after fork | one owner; the file names it |
| process control | `main.cpp` | signal dispositions and masks, `g_reload`, child | signals, fork, wait, forward, pipe monitor | signals do what the manual says, whenever they come; no orphan |
| application state | `app_state.cpp` | original and current settings, what is applied, `m_config` | reload, init, refresh, daemonize | settings have a source, are in effect, survive a reload; unprivileged unless an account is named |
| command line, file | `command_line.cpp` | settings | set from options, merge the file | documented values are accepted, others are not |
| server manager | `server_manager.cpp` | `m_serversByAddress` | add, remove, stop | every running server is reachable; the loop can end |
| interface monitor, Linux | `interface_monitor_linux.cpp` | receive buffer | request a dump, read messages, look up names and flags | no address missed, none served that is gone |
| interface monitor, BSD | `interface_monitor_bsd.cpp` | receive buffer with the rest of a cut message | copy the table, read notifications, look up flags | the same, and each address on its own interface |
| host identity | `config.cpp`, `config_samba.cpp`, `config_mac.cpp`, `sys_util.h` | none after the start: name, group, description | find and read smb.conf, ask testparm, read the output of helpers | one source, no half-read answers |
| metadata | `config.cpp`, `wsd_server.cpp` | the template document | load, copy, walk, replace placeholders | each text expanded once; every Get answered |
| WSD server | `wsd_server.cpp` | state, known messages, message number | start, stop, Hello, Bye, requests, errors | no use after destruction; Bye complete; no repeated answer |
| UDP server | `udp_server.cpp` | two sockets, handler | reads, sends with repeats, close | always listening while running; drains |
| HTTP server | `http_server.cpp` | connections, timer, handler | accept, evict, collect, finish, stop | bounds on number and age; drains |
| HTTP connection, parser | `http_server.cpp`, `http_request*.cpp` | parser state, headers, remaining length | reads in any pieces, reply, keep-alive | answers belong to their requests; the grammar and its limits |

They interact through direct calls (monitor → manager → servers), callbacks
through raw handler pointers (`m_handler`) from pending operations, completion
handlers that the event loop delivers later than the call that caused them, and,
between processes, signals, a pipe, file locks and exit codes. The behaviours
that are hard to test are listed under `hazards`: races on the pid file; signals in the
windows between handlers; the life time of objects behind pending operations;
notifications of the kernel that describe the past; timers that fire after they were
cancelled; bytes of two requests in one read; reloads that leave something behind.

## Modules

`MCx` gives module `x` its instances; `xProofs` holds its theorems. Three hold those of several modules:
HttpProofs of HttpServer, HttpConnection and HttpRequestParser; WsdProofs of WsdServer, Requests,
WsdService and ServerManager; MetadataProofs of Shell, HostInfo and Metadata.

* **PidFile**: several daemons on one file system. Every system call of
  `PidFile::open` and of the destructor is an action, inode numbers are reused, locks
  follow `flock` and so stay with copies of a descriptor in a child; a process
  may crash anywhere. `held`, `heldFd` are `m_pidFile`.
* **PidLock**: what that is for, without files: a path is reserved for at most one
  daemon, and is free again when the daemon, or the server process it forked, is
  gone. PidFile implements it (`ImplementsPidLock`); a path counts as held from the
  comparison of inodes that succeeds to the unlink, or to the last close.
* **WsdServer**: life cycle of WSD servers with their UDP servers. What asio has
  pending is state (`reads`, `accepting`, `writes`), and completions, aborts
  and errors are actions. `owned` is the manager's reference, `Alive` says whether
  anything keeps the `WsdServerImpl`.
* **ServerManager** extends WsdServer with the map from addresses to servers and
  the end of the event loop. The monitor may report what `Reports` allows, at any time.
* **WsdService** extends WsdServer and Requests: a server that handles requests while
  it lives, so that what was taken for new (`history`) meets the copies of the answer that
  are still to be sent (`owed`), stops and restarts.
* **AddressMap**: what a monitor sees of the manager, the entries of its map and whether
  their servers run, with `addAddress` and `removeAddress`. Both monitors extend it.
* **InterfaceMonitor**: the Linux monitor with the kernel (addresses, names, queue,
  dump) as its environment.
* **RouteMonitor**: the monitor of the BSDs and macOS, with the kernel's routing
  socket and table. `pc` tells `loadInitial`'s two calls of sysctl, `parseTable` and the
  reads apart; `half` is the part of a message that a read cut off.
* **Daemon**: the two processes, their signal dispositions, masks and pending
  signals, `g_reload`, fork, wait, the monitor pipe and exit codes. Serving is
  one state here: what happens in it is ServerManager. After `wait()` the three
  handlers of `waitForChild` are restored one by one (`AfterRestore`); until then a
  handler calls `kill` with the pid of an empty `ptl::ChildProcess`, which is
  supposed to be 0 and so to mean the process group (`KillTarget`): `main.cpp:61` asserts that
  it is empty, and the class itself is not in the repository.
* **CommandLine** (operators only) and **AppState**: settings with their
  conversions, the merge of options and file, `reload`, `init`, `refresh`,
  `daemonize` with the launcher and its report pipe, and the configuration and
  identity with which the program serves.
* **HttpServer**: connections, their operations, the collecting timer over a
  clock, eviction and stop. A timer is armed until a time (`armed`), expired with
  its handler queued (`expired`), or cancelled with the abort queued (`aborted`).
* **HttpConnection**: `parseIncoming` and what follows, on a stream of header
  pieces and body bytes that reads cut anywhere. `header` is what the header parser
  has got since its reset: only the two pieces of one request, in their order, make a header
  (`WholeHeader`). Anything else is refused at some point, at the latest where a header
  ends, or taken for a request with another method; that the bytes of a body, or of a
  half-lost header, make a proper request to this server by themselves is left out.
* **HttpRequestParser**: the state machine of `consume`, byte by byte, next to a
  reference grammar on whole sequences (`IsRequest`, `CanBecomeRequest`), which says what stands at which
  position and has neither states nor steps.
* **Requests**: `handleRequest`, the set and queue of known message ids, and
  message numbers.
* **Shell**: a helper program whose output comes in pieces, and `LineReader`.
* **HostInfo** extends Shell: the constructor of `Config`, as far as it finds out
  name, group and description of the host: options, smb.conf from `samba
  --show-build` or ksmbd, testparm, the configuration store of macOS.
* **Metadata** extends HostInfo: `loadMetadataFile`, and the answer to a Get: a copy of the
  template, the walk over its nodes step by step, `replaceInString`, and the
  default metadata where there is no template. The names and addresses that it fills in are
  those that HostInfo found.

CommandLine is extended by AppState, WsdServer by ServerManager and WsdService,
Shell by HostInfo and this by Metadata. The others meet
at the boundaries named above and are checked apart: composing Daemon with
ServerManager, or HttpServer with HttpConnection, would multiply state that the
properties do not relate.

Where a definition is marked *Mutant* it is a plausible bug in the definition
that follows it, used only to show that a property can fail.

## Runs

Passing runs:

| run | checks | shows |
|---|---|---|
| PidFile | OneOwner, FileNamesOwner, OrphanKeepsOthersOut, OpenDecides, ImplementsPidLock | two daemons, two paths, three inodes, two reloads each: the lock with the inode comparison and unlink-before-close is sound, with crashes and inherited copies; it is a lock per path, and the retry loop ends |
| WsdService | NoDanglingHandler, RunningListens, ByeIsComplete, AnswersInFull, RepeatsAreFarApart | one server, with the repeats of the code (4 and 2), four message ids, room for three: requests, errors, stop, release and restart in every order |
| ServerManager | RunningIsMapped, DanglingNeedsMove, StopReturns | an address that can move between two interfaces: servers are only lost by that move, and without a lost one `run()` returns after a stop |
| InterfaceMonitor | NoMissedAddress, GhostsExplained, Settles | IPv4 and IPv6 on an interface that is renamed and deleted, and the loop-back; a queue of two, so that overruns happen; a truncated read and repeated dumps |
| RouteMonitor | TableMissesNone, TableLeavesNoGhosts, ServedOnItsInterface, LoadEnds | three interfaces, one of them changing while the table is copied and after, one not allowed; a socket of two messages and a buffer that cuts one |
| Daemon | LoneSignal, TermEnds, HupRereads, EndTogether | two signals at any time, to the main process or to the group, both modes, failures; the window after the wait for the child is an exception |
| HttpServer | AgeBound, SameAddrBound, HDrains | three connections, two addresses, limit 2, three ticks; what is pending at a stop ends |
| AppState | SettingsHaveASource, UnchangedReload, UnnamedIsUnprivileged, SettingsInEffect, LauncherEnds | a daemon started by root with up to three options, two edits of the file, two reloads, failures at any step of the start |
| HttpRequestParser | VerdictIsRight | inputs of up to 26 bytes, small limits, one reset: Good and Bad are said when the grammar says so, a minor version that is too large apart |
| HttpConnection | OkIsOwn, OneOwnLength, RequestAnswered | three requests of 22 kinds, sent after the answer to the one before or earlier, cut anywhere |
| Metadata | LinesExact, IdentityFromOneSource, TemplateFilled, GetIsAnswered | machines with and without Samba, ksmbd, testparm and a configuration store, helpers that fail or print more than fits; templates with nested elements, attributes, CDATA, doubled and single dollars, two Gets on two addresses |

`OneOwnLength` describes what the code does rather than what one might wish: the
headers of a connection add up over its requests, so that of the requests that
state a length only the first can succeed.

One run must fail. ServerManagerLost checks `StopCompletes`, that SIGTERM always leads to the exit
(manual, line 233), on the instance of ServerManager: a running server is overwritten in the map when its address is
reported on another interface; nobody stops it and the process does not exit.

### Exceptions in the properties

Some properties are weaker than the manual (`doc/wsddn.8.adoc`) or a comment would
have them. Each exception is a place where the code does something else; paths
are below `src/src/`. Without its exception each of GhostsExplained, TermEnds, SettingsHaveASource,
VerdictIsRight, OkIsOwn and TemplateFilled is violated on the instance of its run, by the behaviour
described here.

* **GhostsExplained.** The removal of an IPv6 address is skipped when its interface
  is gone, because the message has no label and the index no name any more
  (`interface_monitor_linux.cpp:164`), and that of a deprecated address because
  the flags are tested before the type (`:153`). Both go on being served, whereas
  "An interface must have an address" (manual, line 323).
* **NoMissedAddress.** An IPv6 address is not announced again after a renaming.
* **TableMissesNone, TableLeavesNoGhosts.** The kernel drops routing messages when the
  socket's buffer is full and says so to nobody; the table is not read again
  (`interface_monitor_bsd.cpp:178-202`). The addresses of an interface that is renamed
  are not announced again, and keep the old name in the map.
* **LoadEnds.** When the buffer is too small, sysctl stores the amount it copied as
  `tableSize`, to which the buffer is resized (`interface_monitor_bsd.cpp:96`): it
  never grows. `start()` goes round until the table fits in the size that the first call
  told.
* **TermEnds, HupRereads, EndTogether** end at a main process that signals itself
  (`SelfSignalling`): from the return of `wait()` until `main.cpp:57-59` have restored the handler
  of a signal, this one goes to the whole process group, and the handler runs again. It takes two
  signals, or one and a fault: LoneSignal has no such exception. The manual has none (line 233:
  "Gracefully stop network communications and exit").
* **TermEnds** says nothing of runs with a reload: a SIGTERM that comes while the
  graceful stop of a SIGHUP is under way is still caught by the `signal_set`, whose
  handler has already run and is not armed again (`main.cpp:102`). It is lost, and the
  daemon starts over (manual, line 233).
* **EndTogether** admits that one address which cannot be listened on
  (`server_manager.cpp:16`), or one client that is gone when it is accepted
  (`http_server.cpp:176`), ends the service: the exception leaves the event loop. What
  it requires is that no process then waits for one that no longer serves.
* **IdentityFromOneSource.** A samba whose output has no CONFIGFILE line gives an empty
  path that counts as found (`config_samba.cpp:35`), so that ksmbd is not tried and testparm
  is asked at once. The last line of smb.conf is not seen when it has no newline
  (`config_samba.cpp:103`). On macOS the dictionary of the Active Directory is
  used only when it is *not* a dictionary (`config_mac.cpp:31`), so that the domain is
  never found; the property leaves the store's values to the code.
* **TemplateFilled.** A `$` that starts no placeholder is dropped together with the
  character after it (`wsd_server.cpp:236-274`), where `config/metadata/README.md:52` says
  that the single `$` "is simply dropped". The property has the rules of that file and leaves
  out the texts with such a `$` before another character (`LosesSymbol`). CDATA is left as it is.
* **LoneSignal, HupRereads.** LoneSignal speaks of one signal to the main process. A
  SIGTERM to the process group reaches the child twice, the second time forwarded; when
  the child has by then left `serve` and has the default action again, it is
  killed and the parent returns EXIT_FAILURE (`main.cpp:178`, `:70`; manual, line
  237: "0 upon normal termination"). A second SIGHUP that finds the default action
  ends the process (`main.cpp:159` to `:140`; manual, line 231), which HupRereads
  allows.
* **UnchangedReload, SettingsHaveASource.** A relative `--config` is kept as written
  (`command_line.cpp:344`); after `--unixd` went to `/` it is not found
  (`app_state.cpp:389`; manual, line 56: the content "is re-read upon SIGHUP"). Relative
  paths in the file are resolved again at every load and then lead below `/`. `ReadAnew`
  says when this can happen; in all other cases nothing changes, and every good entry of the file is in force.
* **LauncherEnds** says nothing of success, which the daemon reports before its
  start is over (`app_state.cpp:397`; its comment at `:394`: "notify the original process started
  that initialization is complete"). A start that fails afterwards was reported as a success.
* **UnnamedIsUnprivileged** has the rule of the manual (lines 89-93) for a program that is given no
  account, over all reloads. It does not have the conclusion that the manual draws from it, "under no
  circumstances perform network communications under the root account" (line 97): `--user root`
  is accepted (`command_line.cpp:194`), and so is root in the file, and the run does serve as root then.
* **VerdictIsRight.** HTTP/1.05 is Good: in `boundedAddDigit`
  (`http_request_parser.cpp:15`) `maxVal - digit` wraps, and the version is above
  `s_maxVersion` (`http_request_parser.h:19`). The property has the grammar with that version and says
  nothing once the minor version is above it.
* **RequestAnswered.** A request with `Content-Length: 0` and no body is not answered: after the
  header the loop of `parseIncoming` has no byte left, and `parseBody` is not called
  (`http_server.cpp:314`). A request without a length on a kept connection inherits that of an earlier one
  (`:399`) and waits for it when its body is shorter. Both wait until the connection is
  collected (`ReadOnFor`); where the body is as long as the inherited length the request is
  answered.
* **OkIsOwn.** For the same reason a request without a length may get an Ok, where `parseHeader` says "missing
  Content-Length header" (`:350`). The property allows it only after an answered request that had a length.

CommandLine's conversions show three more: `hoplimit = 65536` passes the test for
at least 1 and is narrowed to 0 (`command_line.cpp:597-599`); `setUuid` throws
for every value (`:79-83`; manual, lines 163-164); and `parseUser` takes what
stands before the colon for the group (`:31-33`; manual, line 84).

### Bounds

All bounds are constants whose names start with `Max` (and `Servers`, `Inodes`,
`Conns`, which are pools that are reused). They are chosen so that the interesting
case needs no more: the race of PidFile needs two daemons and one reused inode;
losing a server needs two of
them; an overrun needs one message more than the queue; a second chain of the
collecting timer needs a connection that ends and another that comes, and the
limit of two per address needs a third; a forgotten message id needs one more than
`MaxKnown`; the signal races need two signals; what a Get leaves behind needs a second one;
a line that is too long needs a `BufferSize` of three symbols. Limits of the code that are only
compared with (10, 2048, 8192, lengths) are small constants; 65536 is kept as it is
in `ShortRange`. `UIntRange` stands for 2^32, which is beyond TLC's integers; any
number larger than what the checks add up wraps in the same way.

`Representative` (MCHttpRequestParser) tries every byte in every place but follows only
one of each kind outside of the version: the parser keeps only lengths of the rest.
The state `header_lws` of the parser is left out: the value is
empty at every line start, so that the code never enters it.

In InterfaceMonitor things happen only to the interfaces in `Changing`, each of
which is renamed at most once (its IPv4 addresses are then announced again in any order), and only addresses in `Expiring` become deprecated;
V6 addresses are those whose messages have no label. The queue holds at least
two messages: with one, the answer EBUSY would keep out the rest of the dump that
it waits for. In RouteMonitor a message is two halves, so
that a read can cut it, and interfaces outside of `Changing` stay as they are: one that can be
used, whose addresses must not be given to a neighbour, and one that is not allowed. In Metadata
a placeholder is one symbol, like any other character; names are never put together from
characters. In HttpConnection a header is
two pieces on the wire, enough to be cut; its parsing is HttpRequestParser.

Most runs say `CHECK_DEADLOCK FALSE`: daemons end, clients stop sending, and
histories are bounded, so that a state without a successor is a proper end.
WsdService and ServerManager have no such end and are checked for deadlock.

### Fairness

Only what the event loop, the kernel's scheduler and timers do by themselves is
fair. PidFile: every process that can run does. ServerManager: aborts
and expired timers are delivered, datagrams are taken by the kernel (a UDP send does not
block for ever), `run()` returns when it has no work; no report, request,
error or signal has to come. InterfaceMonitor: queued messages are read, a dump goes on
while there is room. Daemon: both processes run, unblocked signals are
delivered, a graceful stop ends (which is `StopReturns`, with the exception
that ServerManagerLost shows). HttpServer: aborts and timers. AppState: the start
goes on and the launcher reads its pipe. HttpConnection: what was sent is read, a
write ends. RouteMonitor: the monitor goes on with its own steps (sysctl, parsing, reading what is
queued); nothing in the network has to happen. Metadata: a Get that is begun goes on, because nothing else runs
in the one thread until it is answered. The runs of WsdService and HttpRequestParser check safety only.

## Proofs

| module | theorems | inductive invariant |
|---|---|---|
| PidFileProofs | TypeCorrect, OneOwnerAlways, FileNamesOwnerAlways, OrphanKeepsOthersOutAlways, PidLockRefined | `IndInv`, with `CopiesInv` for the refinement |
| WsdProofs | of WsdServer: WTypeCorrect, NoDanglingHandlerAlways, RunningListensAlways, ByeIsCompleteAlways; of Requests: RTypeCorrect, KnownIsQueuedAlways, RepeatsAreFarApartAlways; of WsdService: ServiceIsServer, ServiceRepeatsAreFarApart, PhaseFollowsStateAlways, AnswersInFullAlways; of ServerManager: RunningIsMappedAlways, DanglingNeedsMoveAlways | `WInd`; `RInd`; `WInd`, `RInd` and the two invariants themselves; `SMInd` |
| HttpProofs | of HttpServer: HTypeCorrect, CollectionDueAlways, NoIdleConnectionAlways, SameAddrBoundAlways, AgeBoundAlways; of HttpConnection: ConnIndAlways, OkIsOwnAlways, OneOwnLengthAlways; of HttpRequestParser: VerdictIsRightAlways, BadIsHopelessAlways | `HInd`; `ConnInd`; `ParserInv` with `DigitInv` |
| AppStateProofs | AppIndAlways, SettingsInEffectAlways, SettingsHaveASourceAlways, UnnamedIsUnprivilegedAlways, UnchangedReloadAlways | `AppInd` |
| InterfaceMonitorProofs | IMIndAlways, NoMissedAddressAlways, GhostsExplainedAlways | `IMInd` |
| DaemonProofs | DIndAlways, LoneSignalAlways | `DInd` |
| RouteMonitorProofs | RMIndAlways, TableMissesNoneAlways, TableLeavesNoGhostsAlways, ServedOnItsInterfaceAlways | `RMInd` |
| MetadataProofs | of Shell: LinesExactAlways; of HostInfo: IdentityFromOneSourceAlways; of Metadata: TemplateFilledAlways | `ReadingInv`; `DetectInv`; `FillInv` |

The assumptions are the named ASSUMEs of the modules: null values lie outside of
the sets they complement, and limits are natural numbers (repeats, durations and
the capacity for message ids at least 1, and so are the parser's limits); the netlink socket has room
for two messages, the routing socket's read for one, and no two interfaces have the same name. No set has
to be finite, except the addresses of the two monitors, which the kernel lists. In HostInfo the host name
is not empty, has no percent sign and begins with no dot, a name given on the command line or by the
configuration store of macOS is not empty, and files, outputs of helpers and templates are made of texts.
A template is a tree whose nodes come after their parents.

* **IndInv.** OneOwner alone is not inductive: that a process owns a path says nothing
  of the lock. The invariant adds that a locked inode is open
  in the process that has the lock or in its copy, that copies are copies of locked
  inodes, that two paths never name one inode, and what a process in the middle of
  `open` (`OpenInv`) and with a pid file (`HeldInv`) has: a descriptor, its lock, and,
  from the comparison on, the link from the path. The core of the argument is that
  only the holder of the lock on the inode a path names unlinks that path, and
  that an inode which is linked or open is not handed out again.
* **WInd.** Per server: which operations may be pending in each state, that the
  handler is cleared exactly when the server is stopped, and that a server without
  owner that still runs has a Bye under way with as many repeats left as are
  missing. The holder in that Bye is what keeps the object alive.
* **RInd.** KnownIsQueued and `QueueIsHistory`: the queue is the tail of the history
  of new messages, as long as capacity allows. RepeatsAreFarApart follows: an id
  that is new is not among the last `MaxKnown` ones.
* **HInd.** CollectionDue, and `WaitIsTimely`: a timer that is armed expires within
  the maximal duration, and no connection is then older than twice that. `StoppedHasNone` is
  needed for the handlers that run after stop.

* **PidLockRefined.** PidFile implements PidLock. The mapped `holders` changes in
  the comparison that succeeds (Acquire), in the unlink (Release), and in the end or the
  last close of a daemon and its copy; every other step is a stutter. That a path which is
  acquired was free is OneOwner, with `IndInv` for the orphans; `CopiesInv` says that copies of
  descriptors exist only while their process serves or after it died serving, so that the drop
  of a copy frees what its parent had and nothing else.
* **SMInd.** The map and the servers agree on addresses (`MapInv`), a server has its sockets
  open exactly while it is Running, and a Running server whose address did not move is owned by
  the map or, after `stop()`, referred to by its Bye. That an entry may be overwritten rests on
  the early return of `addAddress` for the same interface and on `bind`, which fails while the
  old server has the address.
* **ConnInd.** The bytes still to be parsed are headers and bodies in the order of the requests
  (`GoodStream`), perhaps cut off at the front where a read lost something. So a body that is fed to the
  parser from its first byte belongs to the header read last, and that header is newer than all that was
  answered. What was read for it (`got`) are its two pieces, because `WholeHeader` takes nothing else, and what was fed
  is then its whole body when the body makes a document (`AcceptedInv`). `SourceInv` says where the
  length of an accepted request comes from: its own header or, because a refusal closes the connection, that of an
  answered one. `LengthInv` carries the other property: once a request with a length was
  answered, the headers of the connection have a length, and one more makes two.
* **AppInd.** The settings in force are what some load of the file last read gives (`LoadInv`):
  in the start directory, or in `/` if relative paths are involved. `NoteInv` follows the
  comparisons of `refresh` step by step: what was noted is in effect, and after each step its own setting
  was noted. Failures end the program before a half-refreshed state can serve.
* **IMInd.** NoMissedAddress and GhostsExplained speak of a monitor that has read everything; the
  invariant says what holds before. For an address that can be served, either the dump has still to
  list it, or an error is queued that will ask for a new dump, or an announcement under the current name is queued
  with no removal behind it, or there is an entry and no removal is queued (`MissInv`). For one that is gone,
  a removal is queued behind every announcement and, if a server runs, somewhere (`GhostInv`).
  Labels agree with names because a name changes only once and never becomes another interface's.
* **DInd.** Follows one signal: it is pending in a main process that will catch or forward it before it
  ends (`Undisturbed`), it stops the main process (`AloneStops`) or the child (`ChildStops`), or all has
  ended as it should (`Over`). The point is that no lone signal is ever pending where `main()`'s own handlers or
  the default action would take it, nor in the window after `wait()`, where the child that this signal stopped
  has ended. Nothing is claimed after a second signal or a fault.
* **WsdService.** Every step of the composition is a step of WsdServer or leaves its
  variables alone (ServiceIsServer), so that the theorems on WsdServer hold of it;
  the same is done for the known messages, where a new start forgets all of them
  (`Forgotten`). PhaseFollowsState and AnswersInFull relate the two parts and are
  shown over `WInd`.
* **RMInd.** The last message about an address, in the socket or else in the buffer, says whether it exists,
  unless one was dropped (`QueueInv`, `BufInv`); where there is none the map is right (`MapInv`). So an old
  notification that is replayed after the table does no harm: it is followed by a newer one. `InPlace` says
  that, in what is left of the table, the interface named before an address is its own; it is what
  ServedOnItsInterface rests on. The lemmas are about the halves of messages: a read takes a prefix of
  the queue, and the half it leaves belongs to the first message that stays.
* **ReadingInv.** What the buffer holds is the front of the line at hand, and the lines given to the sink,
  with those from there on, are all of the lines (`Reading`, over the positions `start` and `first` in the output).
* **DetectInv.** For each place in the constructor, what was looked at so far: the one smb.conf that counts
  (`FileUsed`), or the questions already answered by testparm, in their order (`QuestionInv`). One
  source is left at the end, and `DecidedInv` is the choice between it, the options and the host name.
* **FillInv.** The nodes seen (`D`) and those completed (`C`) describe the walk: below a node that is seen and
  not completed, the children up to some point are completed and those after it are not seen (`Between`); the node
  at hand is the next to be seen, or one to which the walk comes back from its children (`Place`), and
  the texts of exactly the nodes in `D` are expanded. That the loop of `replaceInString` gives the
  expansion is shown over the runs of dollars before each position, of which only the parity counts. `CodeFilled` is
  what the code does to every text; that this is what the manual says, unless a symbol is lost, is the
  last step (`RewrittenIsExpansion`).
* **ParserInv.** In each state the bytes read have the shape of the beginning of a request: `InMethod`,
  `InUri` and so on (`FirstShape`, `HeaderShape`), with the counters being what they should count. For every state
  there are lemmas on the bytes that it takes (the shape goes over into that of the next state),
  lemmas on the byte that a request has next (`Wants...`: it is one of these, so that a byte that is refused
  leaves no request to hope for), and one that an end of the sample completes it. The grammar is
  unambiguous (`OneFirstLine`), and whether a byte counts as a character of a header does
  not depend on what follows it (`ExtCharacters`). The shapes have the version that the wrapping addition
  takes, zeros and then any digit (`TakenMinor`); `DigitInv` says that this digit is the minor version, so that
  where it is at most `MaxMinor` they are those of the grammar (`Strict`). BadIsHopelessAlways says more
  than VerdictIsRight: no request whatever begins with what was refused.

What a recursive function computes is proved without the library's induction theorems: the numbers for which a formula
fails are a set of naturals, which has a least element. That the function exists at all is a lemma
of its own (`Recursion`, `BackRecursion`). `Symbols` stands for the characters of texts, because the
provers do not know that a string literal is in STRING.

The invariants that TLC can evaluate were first checked by TLC; ReadingInv, DetectInv, FillInv and ParserInv quantify
over functions, sources, sets of nodes or all inputs, and there TLC checked the properties. The type theorems, KnownIsQueuedAlways,
CollectionDueAlways, NoIdleConnectionAlways and
PhaseFollowsStateAlways, and the theorems on whole invariants (AppIndAlways, ConnIndAlways, IMIndAlways,
DIndAlways, RMIndAlways), state parts of these invariants that no run checks any more: the proofs cover them
for every instance. The action property ByeIsComplete
follows from the invariant and one case per action.

Only model-checked: the liveness properties (StopReturns, OpenDecides, TermEnds, HupRereads, EndTogether, HDrains, Settles, LoadEnds,
LauncherEnds, RequestAnswered, GetIsAnswered), which need fairness and ENABLED, beyond this prover. Every invariant and every
action property that a passing run checks is a theorem, too.

## Not modelled

* The monitors of illumos and Haiku (`interface_monitor_bsd.cpp` without
  `HAVE_SYSCTL_PF_ROUTE`): they read a list of interfaces once with ioctl.
* The systemd, launchd and os_log variants: other builds of the same steps.
* The XML of Hello, Bye and the matches, HTTP formatting, logging and error messages:
  straight-line formatting without state. The wrapper of libxml2 likewise.
* The matching of interface names against the patterns of the options
  (`isAllowedInterface`) and the identifiers made from the host name: pure functions
  of one input, constants of the modules that use them.
* The wrappers of single system calls, and the creation of the account and its group: their
  outcomes are in the modules that call them. Exception back traces: diagnostics only.
* The characters of smb.conf: HostInfo has its lines as sections and entries already.

Delays of datagrams are untimed. Memory exhaustion and failures of `malloc` are left out.

## Plan

Done, in this order: PidFile, WsdServer with its UDP server, ServerManager,
InterfaceMonitor, Daemon, HttpServer, Requests, AppState with CommandLine,
HttpRequestParser, HttpConnection; the proofs of PidFile, WsdServer, Requests and
HttpServer; then PidLock with its refinement, RouteMonitor, WsdService with its proofs,
and Shell, HostInfo and Metadata; then the proofs of ServerManager, AppState, HttpConnection,
InterfaceMonitor and Daemon; then those of RouteMonitor, Shell, HostInfo, Metadata and HttpRequestParser.

Next:

1. a set of served addresses as the abstract specification of ServerManager;
2. HttpServer with HttpConnection on top, for the end of a connection in the
   middle of a request.
