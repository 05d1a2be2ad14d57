# Verification of KanoopTorrentQt

KanoopTorrentQt wraps libtorrent-rasterbar behind Qt objects: a `TorrentClient`
that owns the session, one `Torrent` per torrent, and helpers for magnet links,
`.torrent` files and a search API. This directory holds TLA+ modules translated
from its source, TLC configurations that check them on small instances, and
proofs, checked by TLAPS, of the properties that matter most.

Paths below are relative to the repository; `torrent.cpp` and
`torrentclient.cpp` are in `src/torrent/`, the headers in
`include/Kanoop/torrent/`.

| file | what it is |
| --- | --- |
| `Torrent.tla` | one `Torrent`, its libtorrent torrent, and the polls of it |
| `TorrentProofs.tla` | theorems about `Torrent` |
| `TorrentDocs.tla` | `Torrent` with an observer of `torrentStateChanged` |
| `TorrentClient.tla` | the registry, object lifetimes, `processAlerts` and `stopAll` |
| `TorrentClientProofs.tla` | theorems about `TorrentClient` |
| `ResumeStore.tla` | resume files: save, load, remove, exit, crash |
| `ResumeStoreProofs.tla` | theorems about `ResumeStore` |
| `Registry.tla` | the abstract registry that `TorrentClient` implements |
| `Store.tla` | the abstract store that `ResumeStore` implements |
| `IpFilter.tla` | the IP filter, blocklists and bans |
| `SessionSettings.tla` | proxy, encryption, and the plain settings |
| `TorrentStorage.tla` | moves, renames, and the alerts that tell of them |
| `Session.tla` | `IpFilter`, `SessionSettings` and `TorrentStorage` together |
| `SessionProofs.tla` | theorems about these four |
| `MagnetLink.tla` | magnet links as values: parsing, base32, writing |
| `TorrentSearcher.tla` | searches in flight and their answers |
| `TorrentCreator.tla` | `create()` with calls in its slots |
| `TorrentCreatorProofs.tla` | theorems about `TorrentCreator` |
| `TorrentSources.tla` | links, search results and files on their way to the client |
| `TorrentSourcesProofs.tla` | theorems about `TorrentSearcher`, `MagnetLink` and `TorrentSources` |
| `Lists.tla` | lemmas about sequences, and induction over sets of numbers |
| `Recursion.tla` | what the recursive function of a loop is, proved once |
| `MCTorrentClient.tla`, `MCResumeStore.tla` | values of constants for TLC |
| `MCSources.tla` | values of constants for `TorrentSources` |
| `MCParts.tla` | `Session` and `TorrentSources` in one run |
| `*.cfg` | one TLC run each |

## The system

### Inventory

**Torrent** (`torrent.cpp`, `torrent.h`). Keeps a cached `_state`,
`_hasMetadata`, `_downloadEmitted`, `_seedRatioLimit`, an info hash, a
directory, and an opaque pointer to an `lt::torrent_handle`. Operations:
`start`, `stop`, `pause`, `resume`, `setSeedRatioLimit`; requests whose outcome
comes as an alert (`moveStorage`, `renameFile`, `saveResumeData`); and calls that
only forward to libtorrent (trackers, peers, rates, options). It learns what
libtorrent does only in `updateFromStatus`, which the client calls for each
torrent in every poll. That function emits up to five signals, and reads and
writes members between them; each slot may call back into the torrent or the
client. *Correct means*: each report once and in order, and a cached state that
always comes back to libtorrent's; a directory and names that are late, never
wrong.

**TorrentClient: registry and alert loop** (`torrentclient.cpp`). Keeps
`_torrents` and the session. A 500 ms timer calls `processAlerts`, which pops
the alerts, turns each into signals about the torrent found for its handle, and
then updates every torrent. `addTorrent` and `removeTorrent` change the list and
own the handle objects; `startAll` and `stopAll` walk over it. Everything is on
the Qt thread, so the interleavings come from slots: directly connected slots
run in the middle of these loops, and a slot with an event loop of its own lets
the timer run `processAlerts` inside itself. *Correct means*: no freed handle,
object, batch or list position is used; the list and the session agree; every
torrent is visited.

**TorrentClient: resume data** (`torrentclient.cpp`). Keeps
`_resumeDataDirectory`. `saveAllResumeData` asks libtorrent for the data of each
torrent; the answers are alerts, which a later `processAlerts` writes to
`<info hash>.fastresume`. `loadResumeData` lists the files and adds a torrent
for each; `removeTorrent` deletes one. The files outlive the process. *Correct
means*: after any exit or crash, and whatever is in flight, removed torrents
stay removed and saved ones are found.

**TorrentClient: IP filter** (`torrentclient.cpp:417-492`, and
`Torrent::banPeer`). Keeps nothing; each call reads libtorrent's filter, adds a
rule, and writes it back; `loadBlocklist` parses a file into rules. *Correct
means*: what is blocked is what the rules in force ask for.

**TorrentClient: session settings.** Proxy, limits, encryption, listen
interfaces, DHT and LSD: each setter applies one `settings_pack`, which changes
the settings it names and leaves the others. *Correct means*: the settings are
those asked for last, whatever was set in between.

**MagnetLink** (`magnetlink.cpp`). A value: hash, name, trackers, validity.
Parses URIs, with hexadecimal or base32 hashes, and writes them. *Correct
means*: a link that says it is valid can be added, its wrapper has the hash of its
torrent, and writing then parsing gives the link back. The hash may have another
length: invalid hexadecimal digits are skipped, and a text in base32 is measured
before `toUpper()`, which may make it longer (ß becomes SS, the ligature ffi FFI).

**TorrentSearcher, TorrentSearchResult** (`torrentsearcher.cpp`). Starts an HTTP
request per search; the answer arrives in a callback and becomes
`searchComplete` or `searchFailed`. *Correct means*: every search is answered
once. Several may be in flight.

**TorrentCreator** (`torrentcreator.cpp`). Collects files, trackers and web
seeds; `create` hashes them and writes a file. *Correct means*: `create` returns
true only if it has written the torrent it was asked for (it does not: see
`create_true` under Findings; if the disk takes what is written, it does), and
its result fields tell the truth about the last call.

**SessionStats, PeerInfo.** Records copied from libtorrent; no behaviour.

libtorrent itself, Qt's event loop, the file system and the HTTP client are
outside. Their actions are written from how the code uses them, and are marked
external in `PROJECT.json`.

### How the parts meet

The application calls `TorrentClient` and `Torrent`. libtorrent works on its own
threads: its torrents change state between any two steps, and it queues alerts.
The client's timer polls both. All signals are direct calls by default, so a
signal hands control to the application in the middle of the client's or the
torrent's function, and gets it back with anything changed. `ResumeStore` adds
the disk, which is shared by one run of the program with the next. Magnet links,
search results and created files are values that the application carries from
one part to another; they meet the client in `addTorrent`.

### What is hard here

- Slots that run inside a loop or between two reads of a member, and polls that
  nest in them.
- A status that was read before slots ran, and is applied after them.
- `removeTorrent` frees the handle at once, the object later (`deleteLater`),
  and leaves the pointer in the object.
- Requests that are answered after their torrent was removed, or re-added.
- Hybrid torrents, which have a v1 and a v2 hash: the client tells torrents
  apart by one hash, libtorrent by either.
- A crash between the truncation of a file and its write; a short write.
- Copies (`_downloadDirectory`, names) that follow alerts, which are late, fail,
  may be dropped, or are masked altogether.
- An IP filter that does not know its rules, and settings that leave others.
- An `int` that is shifted past its width; items of a URI that contradict each
  other.
- Searches answered in any order, by requests nobody remembers; calls of
  `create()` inside a slot of `create()`.

`PROJECT.json` lists each such place as a hazard, at its line, with the
properties that would catch it going wrong.

## The models

### Torrent

One wrapper and the torrent behind its handle. `state`, `hasMetadata`,
`downloadEmitted`, `seedRatioLimit` are the members of the same names; `valid`,
`ltState`, `ltPaused`, `ratio` are what libtorrent would answer. A poll is a
*frame* on a stack: what `updateFromStatus` and the loop of `processAlerts`
around it hold in local variables (the old state, the status, the new state) and
how far they have come. Each action is the code between two signals:

| action | code |
| --- | --- |
| `Poll` | `oldState = t->state()`, the read of the status, `metadataReceived` |
| `Map` | the switch, `setState` (`stateChanged`), `progressUpdated` |
| `Complete` | the test for Seeding, the flag, `downloadComplete` |
| `Notify`, `Seeded` | `torrentStateChanged` and `torrentComplete` of the client |
| `CheckSeedRatio` | `checkSeedRatio`, and the `pause()` it may call |
| `Start`, `Stop`, `Pause`, `SetSeedRatioLimit` | the calls of the application |
| `LtProgress`, `LtTransfer`, `LtAutoManage`, `LtExpire` | libtorrent |

The application acts between polls and while the slots of the last signal run
(`slot`); libtorrent acts at any time.

Abstractions: the ratio is a small number, 0 while nothing was downloaded, as
`Torrent::ratio` has it. A torrent is added paused and auto-managed (libtorrent's
default flags). `has_metadata` is false exactly in the state
downloading_metadata. The two checking states are one. `Start` is `start` and
`resume`, which do the same.

### TorrentDocs

Adds what an observer connected to `torrentStateChanged` has seen, to compare it
with what the header says of the signal.

### TorrentClient

`Objects` are addresses of `Torrent` objects, used again after deletion; `Keys`
are info hashes; `Ids` are libtorrent's torrents, and `IdOf` maps a hash to one:
a hybrid is one Id with two Keys. `listed` is `_torrents`; `object` and `handle`
say what is allocated; `attached` are the objects whose handle is valid. Calls
of `processAlerts` and `stopAll` in progress are frames: the batch of alerts
that is left, the list positions that are left, and whether either was
invalidated. What one torrent does in its turn is module `Torrent`; here a turn
only reads the handle (`Uses`) and emits signals.

A read of freed memory ends the behaviour in a `fault`, of one of three kinds:
a deleted handle; a batch taken away by a nested poll (`pop_alerts` frees the
previous alerts); an iterator into a list that changed. Iterators into such a
list are modelled as undefined behaviour: they may point to any object, to the
end, or fault.

The code forbids nothing, so behaviours with a fault exist. `disciplined`, chosen
once, marks an application that changes the registry only outside the loops over
it (between polls, or from the slots of the dispatched alerts) and does not poll
from the slots of alerts. `DisciplineIsEnough` says that this is enough; the
other safety properties hold with and without it. What the discipline excludes,
the code is exposed to: adding or removing in a slot of the update loop or of
`stopAll`, and polling from the slot of an alert. `RemovedIsNotUsed` finds the
first of these; it is about the turn of a torrent in the update loop (`Report`,
`CheckSeedRatio`), so that neither `stopAll` nor a stale iterator explains it.

Abstractions: an alert is the Id it is about, or `Session`; all alerts about a
torrent do the same here, they find it and emit. Its handle expires with the
torrent, and expired handles may compare equal to each other, as the code does not
ask whether they are valid. A hash is set once, by `addTorrent`. `startAll`
changes neither list nor lifetimes. `Torrent::~Torrent` leaves the handle alone.

### Registry

What all this is to an application: a function from hashes to absent, running or
detached, changed by `Add` and `Remove` alone. `TorrentClient` implements it by
the mapping `Face`: a hash is running if the torrent found for it has a valid
handle. Frames, alerts, faults and deletions are steps that change nothing; one
call of `addTorrent` or `removeTorrent` is one abstract step. Removing one face
of a hybrid detaches the other, which is the only thing that happens to a hash
nobody named.

### ResumeStore

The registry is reduced to hashes, and calls in progress to one load and one
write, because nested polls are in `TorrentClient`. `saves` is the path of a
request: asked, then answered by libtorrent as saved or failed, then taken by
`processAlerts`. `disk` gives for each file name the hash that `get_best()` finds
in the file, or `Absent`, or `Torn`. A file and its name may differ: a hybrid
added by a magnet link has its v1 hash as name, and once it has metadata
libtorrent puts both hashes in the file, of which the v2 hash is the best.

`Open` and `Write` are two steps, so that `Crash` can come between: `QFile`
truncates when it opens. `Write` may also leave a torn file without a crash,
since the code does not look at how much was written. `LoadFile` ends in the
slots of `torrentAdded`, where the application may add, remove, save, or poll.
`Exit` is the destructor; requests and alerts are lost with the session.
Answers about a torrent that left the session may still come, or not.

`waiting` and `gone` are history: which saves of `Watched` torrents are
unanswered, and which torrents were removed together with the last file that
knew them.

Abstractions: there is one resume directory, set once per run; a load is not
started inside a load; a file that exists can be read, and what it holds is its
torrent's data or does not parse; a crash is that of the process, not of the
operating system. Torrents are plain or hybrid; metadata are always saved
(`save_info_dict`).

### Store

What the resume data are to an application with plain torrents: each torrent has
a file of its own, none, torn or whole, that outlives the runs. Only an active
torrent is saved, in two steps, the first of which loses the old data; only
`Discard` deletes a file; `EndRun`, an exit or a crash, forgets the active
torrents and leaves the files as they are; and `Restore` may be done when every
whole file has its torrent active. `ResumeStore` implements it: `active` are the
listed plain torrents, `file` is what `Content` calls the content of their files,
`restored` is `loaded`. A file that held another torrent's data would be
"foreign", which no state of the store has. Requests, alerts, the loop over the
files and all that happens to hybrids alone change nothing; the files of hybrids
are left out because they do get mixed up, as `no_file_left` shows.

### IpFilter

`blocked` is libtorrent's filter, which knows for each address whether it is
blocked and no more. Each action reads it, changes it and writes it back.
`rules` and `bans` are history: what was added and not removed. `add_rule(0)`
allows the range whoever blocked it, so the filter equals the rules only for an
`orderly` application, chosen once, which removes no range that overlaps another
one; the code does not ask for it. In particular a ban, promised "for the
lifetime of the session", ends when any range around its address is removed.

Abstractions: an address is a number, and a family of its own (IPv4 and IPv6 have
separate tables that work alike); ranges have their ends in order, as libtorrent
demands; a line of a blocklist is a range or is skipped.

### SessionSettings

`plain`, `proxy` and `encryption` are libtorrent's settings, `networkProxy` the
client's member. `Configured` is `configureProxy`: a type other than SOCKS5 sets
the proxy type alone, and leaves host and user behind. The settings with a plain
setter are one function from names to values; their values are opaque.
`EncryptionMode` reads the incoming policy only, as the getter does.

### TorrentStorage

One torrent with a valid handle. `savePath`, `names` and `complete` are
libtorrent's; `jobs` is what its disk thread has still to do, in order; `alerts`
is its queue, `batch` what `pop_alerts` gave and is not dispatched yet. An alert
goes through `Post`: it is not posted if its `Category` is not in the
`AlertMask`, and dropped if the queue is full (`dropped` remembers it).
`downloadDirectory` is the member that `storage_moved_alert` sets, `shown` the
names that `fileRenamed` told; each slot runs inside `Dispatch`. A `careful`
application saves resume data in the slot of `storageMoved`.

Abstractions: a resume file is reduced to the directory in it (`ResumeStore` has
the rest); it is written whole; the torrent stays in the session; a file is not
renamed before the metadata; a move without metadata is done at once.

### MagnetLink

Operators, not a state machine. A URI is the sequence of its decoded query items;
a topic is hexadecimal, base32 or other. `UpperTexts` is what `toUpper` may leave of
a text that had the right length: up to three times as many characters, so the
hash may be up to three times too long (`Hashes`). `HexTopic` writes the digits
of any hash; those of one of 16 bytes are 32 characters, which a reader takes for
base32 (`HexDigits`, whose characters `DigitChar` places in the alphabet). Base32 is computed as in the code: a
buffer that wraps (`Wrapped`; the shift of a signed `int` past its width is
defined as modulo in C++20, and so compiled before), a NUL with the value one
past the alphabet (`Pushed` is the bitwise or). The widths are parameters. The
loops over characters and over items are recursive functions (`Decoding`,
`Parsing`) that give what was read after each round.

### TorrentSearcher

`request` is the life of each `HttpGet`: running, finished, handed to
`deleteLater`, and its address used again. The searcher keeps none of them.
`Outcomes` is the sequence of signals that `onHttpFinished` emits for an answer.
`seen` is what an application got last and, as history, for which query; the
signal does not carry it. A `patient` application waits for each answer before it
searches again; one that does not may show an answer under another query, and
nothing in the code can help it. The destructor may come at any time. The early
return for a sender that is no `HttpGet` is left out: nothing else is connected.

### TorrentCreator

`create()` is synchronous but for the slots of `progressUpdated`: its calls form
a stack, which share `fields`. `Create` ends with the torrent put together and
hashing begun; `HashPiece` is one piece and its slot, in which the application
may configure, change the source or call `create()` again; `HashFails`,
`CannotOpen` and `Write` are the ways out. `Write` may leave a torn file, as
the result of `write()` is not looked at. Of the call that ended last, `last`
keeps what it returned, what it was asked for, whether the disk took all of it
(`whole`) and whether another call began within it (`inner`); `told` says that
none has begun since. Web seeds, comment, creator and flags
are one value. `Singles`, `Groups` and `Group` are the three loops that announce
trackers, as recursive functions.

### TorrentSources

The ways to a torrent: a link that is pasted, passed on (`toUri` and parsed
again), amended and added; a search, whose results become links and are added; a
file that is created. `AddLink` is `addTorrent(MagnetLink)` without the
lifetimes of `TorrentClient`: libtorrent finds hashes in the URI (`LtHashes`), or
throws. It reads a topic of 32 characters in base32 as `MagnetLink` does, so a link
with two topics, the second of 16 bytes, may be added under a hash that is not
the wrapper's. (It also reads a 1 as an I, where `decodeBase32` gives up; the
models have one alphabet, in which `DigitChar` says which digits are letters.)

### MCParts

`Session` and `TorrentSources` share no state. `MCParts` runs both in one model: a
behaviour is about one `half`, the other being at rest.

## What is checked

| run | module | states | properties |
| --- | --- | --- | --- |
| `torrent` | `Torrent` | 628,142 | safety and liveness of one torrent |
| `client` | `MCTorrentClient` | 547,547 | the registry, its discipline, and its refinement |
| `resume` | `MCResumeStore` | about 5.4 million | resume files, safety |
| `resume_answers` | `MCResumeStore` | 42,673 | saves are answered |
| `parts` | `MCParts` | 629,758 | filter, settings, storage; links, searches, created files |
| `pause_reported` | `TorrentDocs` | violated | see Findings |
| `removed_in_slot` | `MCTorrentClient` | violated | see Findings |
| `no_file_left`, `saved_before_exit` | `MCResumeStore` | violated | see Findings |
| `file_completed` | `Session` | violated | see Findings |
| `invalid_refused`, `create_true` | `MCSources` | violated | see Findings |

Deadlock is checked in every run. Where the program may stop (an exception that
nothing catches, a searcher that is destroyed) the module says so with a step that
changes nothing.

**torrent.** `DownloadCompleteOnce`: no nesting of polls, pauses, rechecks and
restarts emits `downloadComplete` twice. `CompleteBeforeAnnounced`: the client
announces `torrentComplete` only for a torrent that has emitted its own
`downloadComplete`. `MetadataBeforeProgress`: no torrent shows checking,
downloading or seeding before `metadataReceived`. `SeedingWasReported`: a pause
or stop in a slot cannot swallow the completion. Liveness:
`StateFollowsLibtorrent`, `CompletionIsReported`, `RatioLimitPauses`.

**client.** `DisciplineIsEnough`; `ListOwnsHandles`: list, live objects and owned
handles are one set; `HashesAreDistinct`; `NoTorrentIsLost`: libtorrent runs
nothing that is not behind a listed torrent; `OthersStayAttached`: removing a
torrent invalidates no other but the other face of a hybrid;
`EveryTorrentIsVisited` (liveness); `ImplementsRegistry`: the refinement of
`Registry`.

**resume.** `WrappersAreDistinct`: no load lists a hash twice, whatever the files
are called. `RemovedStaysRemoved`: no late answer and no running load brings back
a torrent that was removed with its last file. `FilesAreListed`: after a load
each intact file of a plain torrent has its torrent in the list, torn files
elsewhere or not. `ImplementsStore`: the refinement of `Store`.

**resume_answers.** `SavesAreAnswered`: each save of a plain torrent gets
`resumeDataSaved` or `resumeDataFailed`, unless the torrent or the run ends.
It does not hold for two faces of a hybrid: both answers go to the first.

**parts**, the session. The three modules share no variable, so a behaviour is
about one of them. `BlockedForAReason`: nothing is blocked that no rule in force names.
`OrderlyIsEnough`: with the discipline above, exactly the rules are in force, and
every ban. `LatestSettingsHold`: no setting of an earlier proxy is used with a
later one, and the mode that is reported holds in both directions.
`DirectoryCatchesUp`, `NamesCatchUp`: unless an alert was dropped, what the
wrapper shows and the pending alerts together give what libtorrent has, with
crossing renames and failures among them. `MovesAreAnswered` and
`ResumeFileFollows` (liveness): every move ends in `storageMoved` or
`storageMoveError`, and a careful application's resume file comes to hold the
last directory.

**parts**, the sources. `DecodedIsExact`: every text of letters and padding is
decoded as the number it stands for. `LinksRoundTrip`: a valid link survives
`toUri`. `ValidLinksAreAdded`: `addTorrent` throws for no valid link, unless its
URI had several topics, and libtorrent has the hash of the wrapper, unless several
topics left that one with another length. `EachIsAnsweredOnce`: any number of
searches in flight get one signal each. `PatientSeesItsAnswer`: an application
with one search at a time shows each answer under its query. `SearchesEnd`
(liveness): every request is freed while searcher and program live.
`ErrorTellsResult`: after a failure an error is told, after a success its own
size and files, also when calls ran within it; if none did, error and number of
pieces are its own as well. `FileIsOfItsCall`: a call that returned true, and of
whose data the disk took all, wrote the torrent of its own beginning.
`TiersAreKept`: its trackers are in the tiers that were asked for.

Each of these properties is shown to depend on the code by a mutant: a variant of
a definition (`...Strict`, `...EveryPoll`, `...Never`, next to the original in
the module) with which TLC finds the property violated.

### Bounds, and why they are enough

- `torrent`: limits {0, 1} and ratios 0..1 give no limit, below, and at the
  limit. Two polls on the stack (`MaxDepth`): a poll is disturbed by one nested
  in it; a third would disturb the second in the same way. `completes` counts up
  to 2, one more than allowed.
- `client`: two objects and three hashes, two of them of one hybrid: enough for a
  duplicate, for two faces of one torrent, for an address that is used again, and
  for a list with a first and a last. Two alerts: one whose slot changes what the
  next is about. Two calls: a loop, and one nested in it.
- `resume`: one plain torrent and one hybrid with both names; two saves in flight.
  The number of runs, crashes and loads is not bounded.
- `resume_answers`: two plain torrents.
- `parts`, the session: three addresses give ranges that overlap, contain and touch each
  other; a blocklist of two lines has a bad one before or after a good one. One
  host and two users: a proxy after another with, without and with another user.
  Two directories, two names, one file; one job, one queued alert and one popped
  one are enough for renames to cross, for an alert to be dropped, and for an
  answer that is late. Every property of the storage is excused once an alert was
  dropped, so behaviours are not followed further from there (`Dropped`).
- `parts`, the sources: hashes of three bytes of 4 bits, characters of 3 bits and a
  buffer of 7 bits have the proportions that matter: a character is shorter than a
  byte, a byte begins inside a character, the buffer overflows before the end of a
  text, and the digits of a hash that is too short, two bytes, are as many as the
  characters of a text. Every text of four characters is tried, longer ones of 5 to
  11 letters, and items in many orders. Two
  requests in flight, three searches: one uses an address again. Two calls of
  `create()` nested; lists of up to two URLs, repeated and empty ones among them,
  in up to two groups.

The proofs lift all these bounds for the safety properties.

### Fairness

`Torrent`: weak fairness of `TimerPoll`, as the timer fires again and again while
no poll runs, and of `PollStep`, as slots return. Neither libtorrent nor the
application is fair.

`TorrentClient`: slots may nest other calls at every step, so a step is not
continuously enabled. Strong fairness of each level of the stack says that a call
that can go on infinitely often does: no slot holds up its caller for ever. Strong
fairness of the outermost poll says the same of the event loop.

`ResumeStore`: libtorrent answers each request (weak fairness of `Answer`); a
write that has begun ends (weak); the alerts are polled, and a load goes on, in
spite of other calls in between (strong). The program need not be started, and
may always exit or crash.

`TorrentStorage`: libtorrent works off its jobs and answers saves, and the timer
polls; all weakly, as nothing disables them. Each dispatch ends. The application
is not fair.

`TorrentSearcher`: a started request finishes with some answer, a time-out
included, and the event loop delivers it and deletes; weak fairness per request,
as long as no exception has ended the program (`SearchGoes`).
`TorrentCreator` has no fairness, and no liveness property.

## Findings

- `pause_reported`: `torrentclient.h` says of `torrentStateChanged` that it is
  emitted "when any torrent transitions to a new state". `processAlerts` compares
  the states before and after `updateFromStatus` only. `pause()` and `stop()` set
  the state themselves, so the next poll sees no change and nothing is reported.
- `removed_in_slot`: the header says of a torrent given to `removeTorrent` that it
  "becomes invalid after this call". Called in a slot of a signal that
  `updateFromStatus` emits, it deletes the handle and returns into that function,
  which goes on to `name()`, and then into `checkSeedRatio`, which goes on to
  `ratio()`: both read the deleted handle. One listed torrent is enough.
- `no_file_left`: a hybrid that was added by magnet link is saved under its v1
  hash; after a restart it is listed under its v2 hash, and removing it then
  leaves the v1 file. The next load brings the torrent back, though
  `removeTorrent` is to "remove resume data file if it exists".
- `saved_before_exit`: the README of the repository says "Save state before exit"
  of `saveAllResumeData()`. The call only asks; a program that exits before the
  next poll has saved nothing.
- `file_completed`: `fileCompleted` is "emitted when an individual file finishes
  downloading". libtorrent gives `file_completed_alert` the category
  `file_progress`, which is not in the client's alert mask; the alert is never
  posted and the signal never emitted.
- `invalid_refused`: `addTorrent(MagnetLink)` is to return "nullptr if a duplicate
  or invalid". It does not look at `isValid()`; the URI of an invalid link is
  empty, and `lt::parse_magnet_uri` throws through `addTorrent`. The run adds a link
  constructed by default; a URI without a hash, or a result of a search with a
  short one, gives an invalid link as well.
- `create_true`: `create()` returns "true on success, false on failure". It looks at
  the result of `open()` but not at that of `write()`, so on a disk that is full it
  leaves a torn file and returns true.

## What is proved

Each theorem holds for every value of the constants that satisfies the module's
assumptions: any number of torrents, hashes, alerts, saves, and any nesting.

**Torrent** (`TorrentProofs`), from `CompletionInv`: types, the count of
completions equals the flag `_downloadEmitted` (`CountIsFlag`; the flag is set
before the signal), and `ReportAhead`: a torrent that shows Seeding without the
flag has a poll on the stack that is about to emit `downloadComplete`, and every
poll nested in that one found the state Seeding already, so that it announces
nothing. The bare properties are not inductive: whether a poll may announce
depends on what the polls around and inside it have still to do. Theorems `TypeCorrect`,
`CompletesOnce`, `AnnouncesAfterComplete`, `SeedingReported`. `MetadataFirst`
comes from a second invariant, that a frame which carries a status with metadata
has already reported it.

**TorrentClient** (`TorrentClientProofs`), in two layers. `RegistryInv`: types,
all listed hashes are set, and the four registry properties, which need each
other: `removeOne` removes the only occurrence because the list has no object
twice, and a removed torrent's Id disappears from the session because all its
faces are detached. It holds for every application. `DisciplineInv` adds, for a
disciplined one, that there is no fault and that each frame on the stack is safe:
its iterators are not stale, its batch is not torn, and the torrent of its turn
is still listed with what its loop has left. Theorems `TypeCorrect`,
`RegistryOwnsHandles`, `RegistryHasNoDuplicates`, `SessionIsListed`,
`RemovalIsLocal`, `DisciplineSuffices`. `ClientImplementsRegistry` is the
refinement: under `RegistryInv`, an `addTorrent` that lists a hash is `Add`, a
`removeTorrent` that unlists one is `Remove`, and every other step, undefined
behaviour included, leaves every `Face` alone.

**ResumeStore** (`ResumeStoreProofs`), from `StoreInv`. The three properties speak
of what is listed; the invariant adds what is on its way there: an answer carries
a hash of the torrent it is about; a file that is being written is torn and
belongs to a listed torrent; the file of a plain torrent, finished or not, holds that torrent;
no wrapper, no file and no unfinished write knows a torrent that is `gone`; and
while a load runs, a file that is not listed yet is still before it. For plain
torrents one more fact is needed, that they never lose their handle, since a
wrapper whose handle expired may be found by an alert about another torrent.
Theorems `StoreInvariant`, `TypeCorrect`, `LoadsNoDuplicates`, `RemovalIsFinal`,
`LoadIsComplete`. `StoreIsImplemented` is the refinement: under `StoreInv` an
`Open` that finds a plain torrent is its `BeginSave`, because an alert finds
only the torrent it is about or one without a handle; a `Write` that succeeds
finds the file torn and writes the torrent's own data, so it is `EndSave`, and
one that fails changes nothing; the return of a load is `Restore`, because what
was still before it is now nothing.

**IpFilter, SessionSettings, TorrentStorage, Session** (`SessionProofs`).
`FilterTypeCorrect`, `NothingElseIsBlocked` and `OrderSuffices` need one fact
about sets of ranges: taking a range away takes exactly its addresses away if no
other overlaps it, and no more than its addresses in any case. `LatestHold` is
inductive with the types. `StorageInv` has types and the two properties of the
storage, which are about the pending alerts as a whole; the proof rests on how
`Leads` behaves when an alert is appended by libtorrent, and when the first one is
dispatched, while a poll moves alerts from the queue to the batch and changes
nothing (`StorageTypeCorrect`, `DirectoryIsLate`, `NamesAreLate`). `SessionInv`
puts the three invariants together: `SessionTypeCorrect`, `SessionIsCorrect`.

**TorrentCreator** (`TorrentCreatorProofs`), from `CreatorInv`: every call on the
stack carries the torrent of its own beginning (`CallsAreTheirOwn`), and the
fields are as the innermost call reset them as long as none began within it
(`FieldsAreReset`). A call that ends sets the error, or size and files, in the
step that returns, so these are its own whatever ran before: `ErrorIsOfLastCall`
says so for every call, nested or not, and needs the invariant for the other
fields. `WrittenAsAsked` is about calls whose data the disk took. A second
invariant, `CreatorTypeInv`, gives the types, of the configuration that each call
was asked for among them (`CreatorTypeCorrect`). `TiersAsAsked` then is about the
loops of `create()`: after each round of each loop the list announces the URLs
read so far (`Announces`), each once, with tiers that ascend as the tiers asked
for do; so what `WrittenAsAsked` says was written has the tiers that were asked
for, for lists of any length.

**TorrentSearcher** (`TorrentSourcesProofs`), from `SearcherInv`: types, the
count of `EachIsAnsweredOnce`, and `PatientAsksOne`, that a patient application's
only request under way is that of its last query. Without it the last property
is not inductive: an older answer could still come. Theorems
`EverySearchIsAnsweredOnce`, `PatienceSuffices`.

**MagnetLink and TorrentSources** (`TorrentSourcesProofs`).

- `DecodingIsExact`: after i letters the bytes taken out and the bits left in the
  buffer are all the bits of the number that the letters write so far
  (`DecodesNumber`), though the buffer holds that number only modulo its width.
  A letter moves the bits of the bytes that are out (`BytesStay`) and keeps the
  low ones of the buffer (`BufferIsLowBits`); the byte that is taken out lies in
  those (`ByteOfBuffer`), because the buffer has room for a character and a byte.
  This assumption on the widths is where the proof would fail for a smaller
  buffer; the code's are 5, 8 and 32.
- `UrisLoseNothing`: the items of a link's URI in their places (`UriOfLink`), and
  the link that has been read after each of them.
- `ValidMeansAdded`, from `LinkInv`. The property is not inductive: what is added
  is the link at hand, so the invariant says of that link that it has its hash if
  it says that it is valid, or was read from a URI of several topics
  (`LinkIsHashed`). `ValidAfterParsing` shows it of every URI, since with one
  topic the hash read is always the same; amending, passing on and picking a
  result keep it. `HashesOfLink` is what libtorrent finds in the URI. A wrapper
  with another length of hash is the case that the theorem leaves out, and the
  property says so.
- `SourcesTypeCorrect`: decoding never gives more bytes than the bits of the text
  fill (`TextHasBits`, `DecodedFits`), which for a text that `toUpper` made longer
  is up to three hashes; the digits of a hash that has half a text's length are a
  text (`HexTopicTyped`); and parsing gives links. `SourcesAreCorrect` carries the
  theorems on searcher and creator over to the composition.

**Induction over loops** (`Lists`, `Recursion`). The theorems of the standard
library about induction and recursive definitions take operators as parameters,
which the provers here cannot instantiate. The same is proved for sets: a set of
numbers that has 0, and i if it has i - 1, has all of them (`SetInduction`,
`LoopInduction`, from the well-foundedness of < ). `Recursion` has the start and
the step of a loop as constants: it proves that a function with the equation of
the loop exists, so that the recursive definition, which chooses one, obeys it
(`LoopObeys`, `UnendingObeys`, lemmas about functions and not about this code).
Each loop of the models is an instance of it.

Assumptions: `IdOf` and the other constant functions have their types; `None` and
the markers are no hashes; hashes are finitely many (`KeysAssumption`, for the
number of requests); bounds are natural numbers, those of the stack and the
queue positive. A character is no wider than a byte, the buffer holds one of
each, and a hash is a whole number of characters (`SizesAssumption`). A byte is two
digits, each with its place in the alphabet of base32 or none
(`DigitsAssumption`). Texts,
items and answers, which come from outside, are well-formed values of the model
(`UrisAssumption`, `AnswersAssumption`, `EntriesAssumption`): those are what
`QUrl` and the JSON parser give.

**Only model-checked.** Liveness in all modules (`StateFollowsLibtorrent`,
`CompletionIsReported`, `RatioLimitPauses`, `EveryTorrentIsVisited`,
`SavesAreAnswered`, `MovesAreAnswered`, `ResumeFileFollows`, `SearchesEnd`): the
prover has no rules for `ENABLED` and fairness. The findings, which are
counterexamples. Every safety property and both refinements that a run checks
are proved.

## What is not modelled, and why

- Trackers, peers, file priorities, rates and options of a torrent: calls that
  pass values to libtorrent, or read them, and keep nothing a later step reads.
  Their alerts are alerts without effect in `TorrentClient`.
- `eta()` and `ratio()` as numbers: `eta()` cuts 64 bits to `int`, `ratio()` is 0
  while nothing was downloaded. They are hazards without a property.
- `formatSize`, the formats of URIs, JSON and blocklist lines: conversions that no
  property tells apart beyond the cases above.
- Renaming a file before the metadata, and a libtorrent that drops a torrent
  while its files move.
- A handle that expires between `is_valid()` and `status()` in one poll, which are
  one step of `Torrent`.
- A blocklist with an inverted range, which the code does not check and libtorrent
  does not allow.
- What the premises exclude, though the code is exposed to it: changes of the
  registry inside its loops (`disciplined`), a removal of a range that overlaps
  others, and so of a ban (`orderly`; clearing the filter ends a ban too), several
  searches at a time as to which answer is whose (`patient`), the directory after a
  dropped alert (`dropped`). The steps are in the models; the properties about
  them are of those who avoid them, and the hazards in `PROJECT.json` say so.
- A tracker that is named twice stays in the tier that names it first:
  `TiersAreKept` takes that as what was asked for.
- SessionStats and PeerInfo: values copied from libtorrent, no behaviour.
- libtorrent's internals, Qt and the file system beyond what is said above.

## Plan

Done, in this order: `Torrent`, `TorrentDocs`, `TorrentProofs`, `TorrentClient`,
`TorrentClientProofs`, `ResumeStore`, `ResumeStoreProofs`, `Lists`, `IpFilter`,
`SessionSettings`, `TorrentStorage`, `MagnetLink`, `TorrentSearcher`,
`TorrentCreator`, `TorrentSources`, `Registry`, `Session`, `Recursion`, `Store`,
and the proofs of these.

Next:

- A counter model of transferred bytes, for the ratio and the time left with
  their widths.
