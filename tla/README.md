# Cuexis in TLA+

Cuexis is a C++ playback SDK for rhythm-game charts, with a player and a set of content tools.  This
directory models the parts of it whose correctness depends on order, failure or concurrency, checks
them with TLC, and proves the central results with TLAPS.

1. [The system](#1-the-system)
2. [The models](#2-the-models)
3. [The runs](#3-the-runs)
4. [The proofs](#4-the-proofs)
5. [Where the code and its words part](#5-where-the-code-and-its-words-part)
6. [What is not modelled](#6-what-is-not-modelled)
7. [Plan](#7-plan)

## 1. The system

A host gives a *playback session* a *source* (a project directory, a CXC package, or memory).  The
session loads the chart, builds a *World* of entities, and is updated with one *RuntimeFrame* per
iteration.  A frame's time comes from a *source clock*: the audio transport, a clock the host
submits, or a wall clock.  The player is such a host; the tools write what sources read.

| component | state it keeps | operations | hard part | correct if |
|---|---|---|---|---|
| resource manager (`engine/assets`) | slot pools with generations, reference counts, `byId` | load, acquire, fallback, unload, unloadUnused; leases dropped by any thread | the mutex is released while a provider reads; the last lease is dropped anywhere | counts are exact, leased resources stay, stale handles stay stale, nothing leaks |
| resource scope (`engine/assets`) | leases acquired by one load | acquire, preload, rollback | failure half way | all or nothing |
| asset database | records by id | build, find | - | duplicates are refused |
| audio clip store (`engine/audio`) | slots with generations | register, lease, remove | handles kept too long | as the manager |
| host clock (`engine/audio`) | three atomics and a sequence counter; a thread-local cache | submit (owner), snapshot (any thread) | torn and old reads, an owner that stalls | answers are whole samples and never go back |
| SDL transport (`engine/audio_sdl`) | stream, queue estimate, counters, staged replacement, published snapshot | load, play, pause, stop, seek, unload, service, prepare/cancel/activate replacement, recheck device | the device thread's callback, late services, SDL calls that fail | the position shown is within what was submitted, monotone in a segment, and playing ends |
| runtime timeline (`engine/playback`) | previous sample, pending discontinuity | reset, advance | seeks, clock changes | a frame's delta never spans a discontinuity |
| player controller (`app/player`) | application state, active bundle (session, timeline, seat, clip), pending seek, last frame | Load, Reload, Rebuild, Unload, Play, Pause, Stop, Seek, frame loop | several commands in one iteration, transactions that fail at any stage | the old bundle survives a failure, no clip leaks, every frame is accepted |
| playback session (`engine/playback`) | lifecycle, generation, runtime session, manager | prepare, commit, load, reload, unload, update, extract, host overrides | prepared candidates that are stale when committed | commits are all or nothing, old tokens are refused |
| runtime session (`engine/runtime`) | evaluation state, override tokens, World | load, reload, update, acquire/release override, base values | a frame that fails in the middle, values cached in several places | a frame shows what its inputs say, a failed one changes nothing |
| world, properties (`engine/world`) | components, baselines, candidates, matrix cache | capture, begin, apply layers, commit, update matrices | incremental resets and dirty flags | incremental equals from scratch |
| behavior, animation (`engine/behavior`, `engine/animation`) | programs (immutable) | compile, evaluate, sample, mix | priorities, groups and overlaps that only templates and bindings bring about | equals what the document says |
| chart, timing (`engine/chart`) | documents (immutable) | load, resolve, compile, lower, pack, read, migrate | integers of a fixed width, references by number, templates, documents in any order | exact or refused; the order of a document does not matter |
| CXC packages, project (`engine/cxc`, `engine/project`, `tools/cxc_common`) | packages and directories | validate, load, pack, unpack, save atomically | two readers of one format; a kill between two renames | a package is accepted exactly if it is sound, and no output is lost or partial |
| content, core, json, filesystem | - | read, parse | limits | a refused input changes nothing |
| rendering, platform | GPU resources, windows | stage, commit, draw, rebuild | staging before commit | a failed stage keeps the old scene |
| shader cache (`engine/shader`) | records in files named by a key, a candidate per player | load, store, prepare, activate | players that write one file, a stream whose end is lost | a prepared program is the one of its key |
| player support (`engine/player_support`) | preferences under a lock file, profiles | load, resolve, save | players that save at once or are killed | the file is replaced whole, and only by a save that succeeds |
| asset publication (`tools/asset_publish`) | lock files, staging, generations, adoption record, packages | publishPackage, publishPackagePair, publishGeneration, adoptGeneration, recoverPublicationStaging | two writers, crashes, power losses, failing syncs | nothing partial becomes visible, the last valid package stays |
| media import (`tools/media_importer`) | cache, worker process, output directory | convert, cache, publish | importers that share files, workers that hang, damaged files | what is published is what its name says |
| other tools | - | command lines over the libraries | - | - |

Interactions: the player's frame loop (one thread) drives the transport, reads its snapshot, advances
the timeline and updates the session; the transport's postmix callback runs on SDL's thread and
shares one counter; host clocks are written by the host's thread and read by anybody; resource leases
travel with clips and presentations to other threads; the tools share nothing with a player but
files.

## 2. The models

| module | models | composition |
|---|---|---|
| `ResourceManager` | one typed pool of `resource_manager.cpp` | implements `LeaseTable` |
| `LeaseTable` | what a user of leases relies on | abstract |
| `HostClock` | `HostClock::submit`, `snapshot` | - |
| `AudioSeat` | the calls of `IAudioTransport` as sets of outcomes | used by the next three |
| `AudioTransport` | a state machine of these calls | abstract |
| `SdlAudioTransport` | `sdl_audio.cpp` with queue, stream and device thread | implements `AudioTransport` |
| `RuntimeTimeline` | `runtime_timeline.cpp` as operators | used by the player |
| `PlayerController` | `player_control.cpp`: commands, transactions and frame loop | composes `AudioSeat`, `RuntimeTimeline` |
| `World` | `world.cpp`, `property_resolver.cpp`: components, matrices, layers and commits as operators | used by the session |
| `RuntimeSession` | `runtime_session.cpp` | uses `World` |
| `Presentation` | a request of a resource scope, what a prepare asks of a chart and its assets, layouts, frames, as operators | used by the host |
| `PlaybackSession` | prepare, commit, update, unload of `playback_session.cpp` | used by the host |
| `PresentationRenderer` | what an adapter promises (`presentation_renderer.cpp`) | abstract |
| `OpenGlRenderer` | `open_gl_presentation.cpp` as operators on a backend | used by the host |
| `PlaybackHost` | a host that prepares, commits, shows and rebuilds | composes the four above, implements `PresentationRenderer` |
| `PublicationLock` | the flock of a directory | used by the next two |
| `PackagePublish`, `GenerationPublish` | `asset_publish.cpp` | composed by `MCStores` |
| `Files` | paths, inodes and what writes to them | used by the next three |
| `Preferences` | `user_preferences.cpp` | composed by `MCStores` |
| `MediaImporter` | `cuexis_media_importer`: `main.cpp`, `media_cache.cpp`, `publish.cpp`, `worker_process.cpp` | composed by `MCStores` |
| `ShaderCache` | `shader_cache.cpp`, `shader_pipeline_cache.cpp` | composed by `MCStores` |
| `ProjectFiles` | `project_loader.cpp`, `asset_index_reader.cpp`, `AssetDatabase::build` as operators | used by the next |
| `CxcPackage` | the ZIP envelope, the manifest and what a package must hold, as operators | used by the next |
| `CxcTools` | packers, unpackers, an editor and `saveAtomic` around one directory | composed by `MCDocuments` |
| `TimingMap` | `rational_beat.cpp`, `timing_map.cpp` as operators | used by the next |
| `ChartCompiler` | `chart_runtime.cpp`, the checks of the world instantiator, `behavior_system.cpp` | used by the next three |
| `ChartResolver` | `chart_v4_loader.cpp`, `chart_v4_resolver.cpp` and their readers | used by the next |
| `AnimationMixer` | `animation_compiler.cpp`, `animation_sampler.cpp`, `animation_mixer.cpp` | used by `MCDocuments` |
| `PackedChart` | `packed_chart_*.cpp`, `packed_semantic_identity.cpp`, `candidate_lowering.cpp` | used by `MCDocuments` |
| `MCDocuments` | the charts and documents of the checks, and their edits | composes the above |

**ResourceManager.** `slots`, `size` and `byId` are the members of a pool, `leases` the live control
blocks, `loading` a load between its two locked sections.  `LoadNew` and `Publish` are those
sections, `Drop` is the control block's destructor, on any thread.  A resource's content is the
revision under which it was published.  Five pools are copies of one template, so one is modelled.

**HostClock.** Every access of an atomic is a step (they are sequentially consistent in the code).
`published` is a history; a cached sample carries its place in it, so "older" has a meaning.

**SdlAudioTransport.** An owner's handler is one step: SDL serialises its calls with the device, and a
handler reads the callback's counter at one point.  Everything it publishes on the way is kept,
because another thread may see any of it.  `inFlight` is a buffer that the device has taken and the
callback has not counted yet.  Any SDL call may fail.

**PlayerController.** A command or a transaction is one step from entry to return (the loop is single
threaded; what interleaves are commands with the stages of an iteration: input, hooks, sampling,
frame).  The transport is `AudioSeat`, which `SdlAudioTransport` is shown to implement, so the player
is checked against everything the real transport may do.  Source, renderer, clip and device may fail
in every transaction.

**RuntimeSession.** A cell is a component that properties resolve into.  Its value is a number, for a
transform a scale, so that matrices are products and one product is "not finite".  The session is a
StudioPreview session, which has both kinds of overrides.  Behaviors are step functions of the beat,
animation is one additive clip over them (its mixer is abstracted), a token writes a cell at most
once, and `withWorld` only removes cameras and appearances.  The debug records and their conflict
marks are left out.

**Presentation.** A resource scope is the list of its entries and the index that finds them, as
in the code; a request is a recursive function over the database, because that is where a dependency
fails half way.  `PrepareContent` is the whole of `PlaybackSession::prepare` that depends on assets:
the main music, the requests of `RuntimeSession::prepare`, `preparePresentation` and the layout.
Some assets can be read while the scope is filled and others later, since the content may change in
between.  `IsComplete` says the same of a chart without order, scope or policy, and is what the code
is compared with.

**PlaybackSession.** Sessions live at addresses which are used again, so that a candidate of a session
that is gone can meet its successor.  A commit compares what the code compares: address, token,
generation, lifecycle.  `stale` is history: the slots whose session has changed since.

**OpenGlRenderer, PlaybackHost.** A call of the backend is an operator from one backend to the next,
so that a host can combine it with a call of the session.  `Transact` is commit with activate, which
the code runs without a step between; everything else of the host may come in any order, with two
prepared candidates, one handle, and commits that are refused after the upload.  `Terminate` stands
for `std::terminate`.

**PackagePublish, GenerationPublish.** A step is one call on the file system; each may fail, and a
writer may be killed between any two.  `visible` is what a reader opens, `durable` what a power loss
certainly leaves: a rename is durable after its directory was synced, and until then may be kept or
lost.  A file that was not flushed before its rename may be found torn.  A writer takes the least of the
lock files it still wants (`FirstOf`), which is the order of `acquireAll`.  The entry of a new file in a
subdirectory is taken to be durable with its `fsync`, as on journaling file systems: the code syncs
no subdirectory of a generation.  The two parts share the lock and no file, so a behavior runs one
or the other.

**Files.** The stores that several processes share do not use the secure file functions of publication
but `ofstream`, `rename` and `remove`.  Their hazard is that a path is not a file: truncating a path
truncates an inode that another process may be writing, and a renamed inode is still being written.
`inodeAt` and `data` keep the two apart; a file is written in two chunks, so that it can be torn, that of a
shader in three, so that it can also have a hole between a good beginning and a good end.

**Preferences, MediaImporter, ShaderCache.** A step is one call on the file system.  Preferences are
locked by an exclusive creation, whose file stays when the player is killed.  An importer looks for a
record, converts in process or in a worker that may time out, publishes artifact and sidecar, and stores
both in the cache; calls fail, importers die, and a file of the cache is damaged.  A player that prepares
a shader loads, compiles and stores, or falls back to what the pipeline keeps.  The three parts of its
file are the envelope with the fields of the key, the artifact, and its end with the key; `Decoded` looks
at the first, the last and the size, as `decodeCache` has no digest of the artifact, and takes what it
finds between them for a program, `TornProgram` unless it is whole.  `overlapped` is history: the keys whose
temporary file a player truncated while another was writing it.  Decoders and the shader compiler are
functions of their inputs.

**ProjectFiles, CxcPackage.** A path is a sequence of names, a document a record, a file of an
archive a sequence of cells: headers and bytes of entries.  So an archive can overlap, leave gaps and lie
about sizes in all the ways that offsets allow, without bytes.  What each reader checks is a conjunction,
as every diagnostic of these readers refuses; `IsArchive` and `IsSound` say what is meant without the
readers' order.  The visit of `AssetDatabase::build` is kept as it is, because what it refuses depends
on the order of the index.

**CxcTools.** A packer reads the directory file by file, an unpacker checks the target and renames twice,
a save writes a temporary and replaces.  Each is killed anywhere.  Backups are kept in `asides`.

**TimingMap.** All arithmetic is done in a word of `MaxInt`, and refused where C++ code
refuses it; the definitions with unbounded numbers are beside it in the property.  The tempo map answers
in both directions from compiled segments; the property counts ticks.

**ChartCompiler, ChartResolver, AnimationMixer.** A document is a record of lists; compile and resolve
are operators that follow the code's passes, over documents that keep their order.  Values are terms
(`<<"lerp", ...>>`), so that what is mixed and in which order is compared, and no number is rounded.
The properties evaluate the document directly: without templates expanded into each other, without
compiled order, and over the document in reverse.

**PackedChart.** A section is what its bytes say: rows of numbers, names by number, defaults and change
masks.  Only the atoms (LEB128, zigzag, beats, grid deltas) are sequences of bytes, of a small radix.
`Encoded` writes, `FileIsReadable` and `ReadChart` read with every check in the reader's order; a damaged
file differs in one number, row or section and has right checksums, since a wrong checksum is refused at
once.  A row of a stream takes its component out and puts it back at the end (`ReadComponents`), as the
code does, so files that lack rows are read in another order.

## 3. The runs

Deadlock is checked where a system runs for ever: the host clock, the session (it keeps taking
frames), and the stores, whose MC module adds a `Finished` step for the state in which every call has
returned.  The other models stop at their bounds on commands, calls and edits.

| run | instance | what it shows |
|---|---|---|
| `slot_pool` | 2 assets, 3 leases, 4 slots, 2 generations, 2 revisions, symmetric assets and leases | counts, handles, `byId` and leaks with leases dropped between the two halves of a load; stale handles stay stale at the end of the generation space; implements `LeaseTable` |
| `host_clock` | 2 clocks, 1 reader, 2 positions, few attempts | no torn, mixed or regressing answer; a quiet read is fresh; `snapshot` returns if an owner stops inside `submit` |
| `sdl_transport` | 2 clips, a queue of a few frames, buffers in flight | the estimate, monotone segments, playing ends; implements `AudioTransport` |
| `sdl_underrun_pause` | the same | violation, see 5 |
| `player` | silent and musical content with an offset, a device correction, 4 commands | clips, frames, segments and seeks across failing transactions |
| `player_first_frame`, `player_resume` | 1 and 3 commands | violations, see 5 |
| `runtime_session` | a parent and a child, a camera, an appearance, 2 charts, 3 overrides, 1 reload | frames show what their inputs say; failures leave no trace |
| `playback` | 1 address, 2 sessions after each other, 2 candidates, 2 sources, 2 uploads, 1 rebuild; in the initial state, charts of one or two objects over 14 databases and 12 readings | `prepare` accepts exactly the charts whose assets are complete; nothing stale is committed, nothing uncommitted is shown, what is shown can be drawn; the adapter never ends the process; implements `PresentationRenderer` |
| `stores` | 2 processes, of one kind in a behavior: 3 saves of 2 settings and a kill; 2 imports of 2 sources with one artifact and a fault; 3 preparations of shaders and a kill; 3 publications to 2 directories or of 2 generations, a kill and a power loss | files are replaced whole, published media are what their names say, prepared programs too (or torn where two players wrote one file at once), nothing partial is visible, success is durable, clean failures keep the pair |
| `package_pair_half` | packages as in `stores`, without crashes | violation, see 5 |
| `documents` | one kind of document in a behavior: projects of 2 or 3 assets, one with 2 roots, and their packages under 2 edits; archives of 2 entries under 2; 2 tools with 3 runs, a kill and an editor; all beats of a 4-bit word; tempi of 2 events and 3 stops under 3 edits; charts of 3 objects under 2; animations of 2 objects with templates, parameters and imports under 2; packed charts of up to 3 entities under one, with one damage of each file | packages are accepted exactly when sound, unpack to what loads and pack to the same bytes; no output is lost; times are exact; what compiles plays what the document says, in whatever order it is written; packed charts are read as they were packed |

*Bounds.* Each is a named constant.  Two generations and two revisions let a slot wrap; three leases
let one be dropped while two are held (a sweep while the owner reads is left to the proof, which covers
it).  Two imports and three saves let one meet what another left behind, and a third the result; three publications by two writers let a third meet what two
left behind; a single kill and a single power loss reach every interrupted state, since a call that
runs after them meets the same files after any number.  Four commands cover load, play, a command in
the input and one in the hooks of the same iteration.  One reload is enough for values kept from the
old chart to show.  Two sessions at one address and four generations of each make every comparison of a
commit fail by itself, and two uploads fill the place for a retired cache.  A dependency depth of two
reaches the limit with a material, its texture and a texture that depends on something.  Commands, submits, reloads, edits and crashes are the only counters, and the guards that
bound them are in the actions that count.

A 4-bit word has every case of the 64-bit one: the minimum without a counterpart, products that do not
fit, denominators at the limit.  Each limit of the documents (`MaxObjects`, `MaxKeys`, `Limits`,
`PackedLimits`) is one that a single edit reaches.  One edit breaks a rule, and a second one lets a broken
rule hide another; where a second edit of everything is too much, it is chosen: of a package only the
manifest (`RelistedPackages`), of an animation what relates two places (`LateChanges`).  A damage of a
packed file is one change of its header, its directory, or a number, a row or a section, in the file of
every chart that an edit leads to.
The properties of charts that cost most are stated over the change of a document (`[][...]_draft`), so
that each document is examined once.

*Fairness.* `SnapshotReturns` assumes weak fairness of the reading thread alone: an owner may stop for
ever inside `submit`.  `PlayingEnds` assumes weak fairness of a service that succeeds, of the device's
mix and of its postmix: the code's frame loop services in every iteration, and SDL's audio thread
never stops calling.  No other property is
temporal beyond a step.

*Mutants.* Beside many definitions stands a variant introduced by "A bug:".  It is the definition with
a plausible defect, and it makes one of the properties fail; PROJECT.json pairs them.

## 4. The proofs

`ResourceManagerProof` proves of `ResourceManager`, for every set of assets and leases, every pool size
and every width of generations and revisions:

- `TypeCorrect`, from typing facts about each operator on slots;
- `CountsAreExact`: a slot's count is the number of leases on it;
- `LeasesAreStable`: no step takes a resource from under a lease, a sweep during a load included;
- `NothingLeaks`: a slot without leases holds no resource;
- `StaleHandlesStayStale`: generations only grow, and a retired slot is not used again;
- `ByIdIsExact`: `byId` finds exactly the slots that are not retired, if nobody sweeps while the owner
  reads without the lock.  It needs that a retired slot is Unloaded and that the slot of a load in
  progress is not retired: the sweep is what breaks the second.
- `Refinement`, on the same condition: each step is one of `LeaseTable`, or a stutter.  All leases on an
  asset share one object, because `byId` is exact; a published object is new, because revisions only
  grow; and slot 0 is the fallback's for ever.

The counts are not inductive alone: that a lease refers to a slot below `size`, that the resource of
a loading slot is not there yet, and that finished generations are retired is needed, and the proof
strengthens them to one invariant that each action preserves.  Cardinalities of the sets of leases
are handled with the library's theorems on finite sets.

`HostClockProof` proves, for any number of clocks, threads, positions, attempts and submits, that a
snapshot is one sample its clock held as a whole (`NoTornSnapshot`) and that answers never go back
(`SnapshotsNeverGoBack`).  The invariant relates each step of `submit` to the parity of the counter
and each step of `snapshot` to what the cells may have become since its first read; counters are
natural numbers here, so a reader that sleeps through 2^64 submits is not covered.

`QuietReadsAreFresh` adds that a snapshot which no submit overlaps answers with what the clock holds:
nothing can make an attempt of it fail, so it never comes to the cache.

`SdlAudioTransportProof` proves, for any clips and their lengths, any queue and buffer sizes, and any commands,
failing calls and late callbacks:

- `PresentedStaysInRange`: the estimate lies between the beginning of the segment and what was submitted
  of the clip, and what is queued was submitted in the segment;
- `PublishedIsMonotone`: whatever another thread sees published of one discontinuity never goes back.
  A handler publishes more than once, so the invariant says this of the whole history and
  ties its last entry to the state that the next handler starts from;
- `Refinement`: each step is one that `AudioTransport` allows, or a stutter.  The player is checked with
  these abstract calls, so the theorem is what lets its results be read for the real transport.

`PlayerControllerProof` proves, for any clips, contents, correction and number of commands:

- `TypeCorrect`;
- `ClipsAccounted`: the store holds the clip of the active bundle alone, and the seat plays it, whatever
  stage of whatever transaction failed;
- `FramesAccepted`: once a first frame was shown, no timeline and no session refuses one, for a correction
  that is not negative;
- `ForwardSegments`: what the sessions get goes on within a discontinuity and jumps only with a new one
  and without a delta;
- `SeekShown`: the frame after a seek shows its target, if the correction is not positive or no content
  has a negative offset, that is music that starts after the chart.

Neither of the two hypotheses can be left out: TLC refutes `FramesAreAccepted` for a correction of -1, and
`SeekIsShown` for an offset of -1 with a correction of 1 (section 5).  The invariant (`Inductive`) has
three parts that depend on each other.  Seat, clip, store, session and timeline fit together (`Bundled`),
and every clock that may be sampled next is not behind what its timeline saw (`Ordered`); the frame that
is measured against is the one the session got, or has a new discontinuity (`Tracked`), which is what
commands between two samples of an iteration could break; and after a seek, seat or chart clock
is at the target or beyond it (`Awaits`).  A transaction is proved stage by stage: each lemma says what
a stage leaves if it fails.  The seat is that of `AudioSeat`, so the theorems hold
for the real transport by `Refinement`.

`RuntimeSessionProof` proves, for every hierarchy of entities, every chart, every number and kind of
overrides and any number of frames and reloads:

- `PresentedFromInputs`: a frame that succeeds shows exactly what chart, time, base values and
  overrides say, and matrices as derived from scratch;
- `FailuresAreDeserved`: a frame fails only on account of what it is asked to present;
- `FailuresLeaveNoTrace`: a call that fails leaves the World as it was.

The session resets only what the last frame wrote and derives only what changed, so the
invariant says what the parts remember of each other: a cached matrix is that of the cached local
transform, and a transform outside the entries that were committed shows its base value
(`SceneOK`).  Its centre is a lemma that derived matrices exist and are unique (`DerivationExists`):
it needs that every chain of parents ends at a root, which `transform_system.cpp` and
`chart_runtime.cpp` guarantee by refusing cycles, and which the assumption on the hierarchy states.

`PublicationProof` proves, for any writers, lock files, targets and identities, and any number of
publications, kills, power losses and damages:

- `FailedPairsLeaveNoTrace`: a pair that fails cleanly, that is without a failing sync, removal or
  rollback, leaves both targets as it found them, whoever else publishes meanwhile;
- `PublishedPackagesLast` and `GenerationsLast`, the two halves of `SuccessIsDurable`, each for the
  specification of its own publication, and `SuccessesLast`, the whole of it for the specification of
  `MCStores`, where a behavior is of one of the two;
- `PackagesStay`: only the rollback of a pair and a power loss take a package away, and only one
  that this pair brought, or that was not durable;
- `GenerationsAreWhole`: a visible generation is complete or was tampered with, and the adoption record
  names one that is there, though adoption looks before it locks.

Both invariants (`PackageInv`, `GenerationInv`) say of each writer which locks it holds at which step, and
of what it holds locked, what the steps before have established (`SceneOK`, `CallOK`).  One lemma each
(`WriterStep`, `CallStep`) shows once that a step under a lock disturbs no other writer, and is used
for all steps.  For a generation it is essential that published directories only come and go by a power
loss, that the loss ends every call, and that everything renamed had its entries synced.  `SuiteInv` adds
that the publication which a behavior of `MCStores` is not of stays idle, so the lock they share is
held by writers of one kind only, and each invariant carries over.

`PlaybackSessionProof` proves of `PlaybackSession`, for any number of sessions, slots, sources and calls,
that types hold (`TypeCorrect`) and that no commit takes a candidate whose session has changed since it was
prepared (`CommitsAreCurrent`).  What a commit compares says nothing of history; the invariant does: tokens
of candidates and of sessions are below `nextToken`, a candidate with the token of the session at its
address has a generation that is not above the session's, and a stale one a generation below it.  A
session that replaces another has a token no candidate has.

Of the host that composes sessions, sources and the adapter (`PlaybackHost`) it proves

- `HostCommitsAreCurrent`: the same of every commit of a host;
- `OnlyCommittedIsShown`: the adapter begins to show a candidate only in the step in which its session takes
  it (`ShownIsCommitted`);
- `AdapterImplementsRenderer`: each step of the host is a step of the abstract `PresentationRenderer` on the
  adapter's state, or a stutter (`ImplementsRenderer`);
- `EveryFrameDraws`: while the adapter shows what a session plays, each of its frames is drawn, and the
  adapter never ends the process for want of room (`FramesDraw`), if every content of the host
  is one that `PrepareContent` makes of a chart with finitely many steps, a database and readable assets
  (`ContentIsPrepared`).  `MCPlaybackHost` builds its contents exactly so.

The first three rest on `HostInv`, which TLC also checked before it was proved.  It relates three parties that know
each other by tokens alone: numbers of candidates are never given twice, so a token tells one content; what the
adapter caches under a token is of the content the token was prepared or committed with; the handle
the host still holds belongs to the cache that is pending; and of the one room for a retired cache, that it is free
whenever a commit wants it.  The refinement is proved action by action from it.  `EveryFrameDraws` is about
what the two sides compute: the manifest of prepared content is whole (`ManifestIsWhole`), each reference in it is
found by its id (`ReferenceIsFound`), and whatever an object shows at any time of a chart is among the
materials that were collected for it, or its override (`ShownIsOfObject`).

`StoresProof` proves of the three stores on `Files`, for any finite sets of processes and paths, and any
number of calls, kills and faults, each store in its own specification (`PreferencesSpec`,
`ImporterSpec`, `ShaderSpec`):

- `PreferencesReplaced`: the preferences file is replaced whole, by a save that succeeds, and a file of a
  later version that was there at the start stays; of one that is put there while they save it says nothing
  (see 5).  The invariant says that whoever is past the lock file is alone there and that the temporary
  file holds what that save has written so far;
- `MediaAreExact`: an output file holds the artifact it is named by, whatever is in the cache, and a sidecar
  all of one record.  Importers that write one `.partial` file may leave any mixture there, so the
  invariant says nothing of the cache but which chunks can exist at all; that a file which is open for writing
  is reached only through a path of the cache, hence no rename takes such a file to an output; and what the file
  of each importer holds from the step that wrote it to the rename;
- `ProgramsAreRight`: a record that is prepared or drawn with is the whole program of its key, and the one that
  was asked for, or, where the key is in `overlapped`, a torn one of the same key.  No lost end of a stream, kill,
  failing call or rename of a file that another player has begun is enough.  The invariant
  (`KeyFilesAreRight`) says of the files of every other key that they hold the first parts of the one record
  of this key, and that whoever has one open is alone with it, is storing this key and has written just these
  parts: so a file of the right size is whole.  The hypothesis is `KeysAgree`: `prepareCandidate` stores what
  it compiled from the request under what the key says, so a request that contradicts its key would store the
  program of another; the requests of `OpenGlPresentation` and of the run agree with their keys.

All three rest on lemmas about `Files` (`OpenTruncatedGives`, `RelinkGives` and so on): no two paths lead to one
inode, and an operation changes the paths it names and no others.  That a new file gets an inode nobody uses is
a count: a path that leads nowhere leaves fewer paths and open streams than inodes (`FreeInodeIsFree`).

The same module proves `PackagesStayWhole` of the tools of packages (`ToolsSpec` of `CxcTools`): whatever saves and
unpackings overtake each other or are killed, once a package was written there is one at the output or
in a backup, what is there is a package somebody wrote whole, and the directory that is unpacked to holds all
of one, or nothing, or what somebody else put there (`ToolsKeepWholes`).  The invariant, `ToolsInv`, says that active
tools never share a run number, hence no temporary or backup name either; that a run which is about to
place, restore or discard over an output that existed has its backup aside; that without an output there is
a backup which no run is about to remove; and that whatever is in the directory was written, or was somebody else's.

Assumptions are the named ASSUMEs of the modules and the hypotheses that a theorem states, and nothing
else; `NoneAssumption`, `HeldAssumption` and `HostAssumption` say that an empty `std::optional` or a null
lease is not a value, and that no token, cache or handle is.

Only model-checked are

- all liveness: fairness and ENABLED are out of the prover's reach;
- what recursive definitions compute over data, which needs an induction the provers cannot do:
  `PrepareIsExact`, `PackagesAreExact`, `UnpackedPackagesLoad`, `ChartTimeIsExact`, `ChartsCompileAsWritten`,
  `AnimationsPlayAsWritten` and `PackedChartsAreExact`.

`NeverHalfUpdated` and the other statements of section 5 are false, and stay so.

## 5. Where the code and its words part

With a run:

- `sdl_underrun_pause`: a pause during an underrun loses the rebase of the next play, and silence
  counts as music (ADR 0012).
- `player_first_frame`: a Reload before the first frame compares with a frame no session received.
- `player_resume`: Seek and Pause in one iteration show the target and resume before it.
- `package_pair_half`: a pair whose first sync fails after the rename is half updated.

Seen while modelling, without a run:

- After the music's end the application is Stopped and the transport Ended: Stop is rejected as a
  duplicate and Play fails, until a Seek (`player_command.cpp:104`).
- Before the first submit a host clock answers position 0 of discontinuity 0; a first pre-roll sample
  below 0 with that discontinuity regresses for a reader (`audio_transport.cpp:43`); and a snapshot
  whose first read fails answers the default sample (`audio_transport.hpp:73`).
- A negative output correction, which the format allows, makes the timeline refuse the position of a
  Stopped transport, and the loop ends (`player_control.cpp:805`, `STAGE6_CONFIG_AND_MEDIA.md:76`).
- With a positive correction and music that starts after its chart, a seek to less than the correction
  before the music is accepted: the source position, to which the correction is added, is not negative.
  Reading it back subtracts the correction and cuts off at 0, so the start of the music is shown instead
  (`player_control.cpp:562`, `audio_device_profile.cpp:196`).
- A Rebuild that fails after the renderer was rebuilt is Failed with neither GPU cache nor seat
  (`PLAYER_APPLICATION.md:155`); and a rebuild under a context that cannot be made current keeps the
  active cache.
- The OpenGL adapter accepts by playback token alone, so that a spent handle for the candidate of a
  later upload is not refused (`presentation_renderer.hpp:90`); destroying it forgets the candidate and
  leaves the upload pending, and the adapter prepares nothing until it is rebuilt.  Its activation keeps
  `frameSubmitted_`, which the reference adapter clears.  `PlaybackHost` holds one handle and gives it up
  in its transaction, as the player does, and finishes a submitted frame first.
- A commit drops the overrides that were acquired after its candidate was prepared.  It destroys the old
  manager before the old runtime session, against the comment at `playback_session.cpp:1240`; leases
  outlive a manager, so nothing comes of it.
- A failed Rebuild has closed the audio seat and leaves a session sampled at chart time 0
  (`player_control.cpp:472`); a Rebuild while Playing leaves the application Playing over a transport
  that is not; a Load while Playing leaves a Playing transport under a Loaded application.
- A device that is lost ends the frame loop before Failed, and its Rebuild, is reached
  (`player_control.cpp:790`).
- A Reload that keeps the chart time hands the old source position to content with another offset
  (`player_control.cpp:625`); in host-clock mode it drops a pending seek; a replacement staged for a
  bundle that is then refused stays staged (`player_control.cpp:636`).
- A replacement prepared before a device error reopens the device when it is activated (ADR 0012:89).
- Override lifetimes are counted on frames that fail after the count, and when base values are
  applied; an override with a refused value fails every frame until it is released; override ids
  start again after a reload, so that a kept id can name another token.
- A crash between the two renames of a pair leaves half a pair, and no recovery knows of it; a rollback
  that should remove v4 ignores a failing removal; `rollback` temporaries are not among those
  recovery removes; and a generation that is found in place is reported as published although the
  rename that put it there may not have been synced.
- A player that is killed while it saves leaves its lock file, and every later save is busy
  (`user_preferences.cpp:58`).  The version of the file is checked before the lock is taken, so a file of
  a later version that appears in between is replaced; the model writes no such file.
- A damaged artifact in the media cache makes every store of it a conflict, so that the source is never
  cached again (`media_cache.cpp:395`); all importers share one `.partial` file per target; nothing
  enforces the import concurrency of 1 that the STAGE6 documents state; and a sidecar can be replaced
  between `exists` and `rename` (`publish.cpp:131`), though it is published as immutable.
- `prepareCandidate` keeps an older candidate when it fails, and takes a key without a source identity,
  which the remediation plan (A2.4, `remediation-plan.md:731`) says is refused; the shader cache checks its
  stream before it is closed, so that a lost end is found only at the next load.
- Players that store one shader key share its `.tmp` file (`shader_cache.cpp:733`), and a load checks the
  envelope, the size, the structure and the key but no bytes of the artifact (`shader_cache.cpp:475`): if one
  truncates the file while the other is writing, a hole in a shader text or in its code can be loaded and drawn
  with.  The stage report promises that a corrupt envelope is found (`2026-08-28-s5-f-cache.md:34`), and a
  review calls the shared name tolerable for a cache (`2026-08-29-review.md:521`, CX-26).
  `PreparedProgramsAreRight` names this case as the only one.
- `saveAtomic` removes a temporary whose name collides with its own (`project_loader.cpp:858`).
- `AssetDatabase::build` measures depth on the stack of a visit that skips what it has left
  (`asset_database.cpp:470`): with children first in the index a chain longer than the limit is accepted,
  with parents first it is refused.  `validateDependencyGraph` measures real depth
  (`stage-1b-completion.md:104`; `asset_database_tests.cpp:309` has parents first only).
- Unpacking checks that the target is absent and renames later (`cxc_unpack.cpp:136`,
  `CXC_FORMAT.md:409`); a packer that fails to place its package restores the one it set aside even over
  another packer's success; and unpacking and packing drops the chart-entry extension.
- `ChartCompiler::compile` accepts a behavior whose object has not the component it writes, which
  `validate` refuses, and checks no legacy opacity track; too many warnings of missing parents are
  an error; an approximation of a beat refuses a magnitude of 2^63 that would fit.
- Animation instances are named for the whole program (`animation_compiler.cpp:260`), while the documents
  scope them (`CHART_V4_FORMAT.md:491`, `CHART_V4_AUTHORING.md:666`): two objects of one template with an
  animator resolve and do not compile.  compile counts generated clips and layers against limits that
  the resolver applies to authored ones; and a prototype without its element is refused though its
  animator is kept.
- The reader of packed charts accepts more than `PACKED_CHART_FORMAT.md` says: missing rows of streams and
  missing `TRN0`, `REN0` or `CAM0` sections (:509), an entity marked to have requirements without `REQ0`
  and one with requirements that is not marked (:555; the mask that is looked at,
  `packed_chart_tables.cpp:2007`, counts the requirements themselves), an empty `REN0`, a first offset of `STR0` that is not 0 (:319), record counts in the directory
  that are wrong, unused strings, references, archetypes and lanes, and change masks that are not minimal.
  A component without its row comes before those with one, so that two files of one identity are read as
  charts whose components differ in order; `PackedChartsAreExact` says that they pack to the same file, which has
  all rows.  Streams hold absolute ordinals where the format says differences (:505, `packed_chart_tables.cpp:752`); -0 is
  written although the identity canonicalises it (:180).

## 6. What is not modelled

- Memory models: atomics are sequentially consistent in the host clock; the transport's snapshot uses
  relaxed reads, which is listed as a hazard without a property.
- Between a transport's query of its queue and its write the device may drain it; the handler is one
  step.
- Text, JSON, wording and order of diagnostics, pixels and sound: data is abstracted to model values,
  a digest to what it is taken of.
- Floating point: values of animations are terms, those of behaviors whole numbers, so rounding, overflow
  and quaternions are not covered; the numerical integration of a tempo ramp is a sum over ticks.
- Other loaders and writers of charts: versions 2 and 3 (`canonical_chart_loader.cpp`), CXT
  (`cxt_v2_loader.cpp`), `chart_writer.cpp`, `chart_migrator.cpp`.  They parse and print one document and share
  no state; what they produce is checked by the compiler and resolver, which are modelled.
- Of packed charts: the file functions of `packed_chart_io.cpp`, which only tests call, the prepared identity
  in `candidate_lowering.cpp`, and the use of the grid-delta atom, which no table uses.
- Of the tools: the catalog of candidates, reports and exit codes.
- `presentationSmokeTimes`, re-entrancy guards (a second call inside a call is refused at once), and
  the commit of a prepared bundle, which cannot fail.
- Of presentation: digests and budgets, callbacks, resizing, closing, a surface of no size (it refuses a
  submit and changes nothing) and the visibility of objects (all are taken to be visible).
- The components that PROJECT.json lists as `not_modelled`, with their reasons.

## 7. Plan

In this order, the most important behaviour first:

1. done: resource pool, host clock, transport, player, runtime session, publication.
2. done: playback session, resource scope, presentation and its OpenGL adapter.
3. done: the stores that processes share: preferences, media cache, shader cache.
4. done: documents: projects, packages and their tools, beats, tempi, charts, behaviors, templates,
   parameters, animations, packed charts.
5. done: proofs of the pool, the host clock, the transport with its refinement, the runtime session, the
   player, the playback sessions, the host with its adapter and the frames it draws, publication, the
   stores and the tools of packages.
6. `AudioClipStore` with the generations of the pool, the expansion of CXT documents, the gpu side of the
   adapter's order of draws.

Parameters are CONSTANTS with named assumptions.  Modules with theorems write recursion as functions or
folds; `TimingMap`, `ChartCompiler`
and `ChartResolver`, which have none, keep RECURSIVE operators for TLC alone.
