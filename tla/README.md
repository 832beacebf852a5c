# A formal model of cdb

cdb is a command line and a shell for Apache CouchDB: one Go process that
talks HTTP to a server. This directory holds TLA+ modules translated from its
source, TLC runs that check them on small instances, and TLAPS proofs of what
matters most. Paths below are relative to `src/`; `command/` stands for
`src/internal/command/`, and likewise for the other packages of `internal/`.

Each module names in its header the code it is translated from, and
`PROJECT.json` gives the file and lines of every definition, the hazards at the
lines where they bite with the properties that watch them, and for each property
a plausible bug that the property catches.

## 1. The system

| Component | State it keeps | Operations | Hard because |
|---|---|---|---|
| backup (`command/backup.go`, `backup/`) | the dump file, counters, the last sequence | pages of changes, bodies, attachments, checkpoints, footer, `--resume` | the database moves, the process dies anywhere |
| restore (`command/restore.go`) | the open batch, uploads owed, totals | read a record, flush a batch, upload, check totals | refused documents, request limits, a second run |
| pipeline (`shell/pipeline.go`) | a channel and a goroutine per stage, the first failure | produce, pass on, fail, cancel, join | full channels, cancellation, who is to blame |
| consumers (`command/pipeconsume.go`) | a batch, the rows owed | batch, look up, write, answer | another client writes between look-up and write |
| tail (`command/tail.go`, `couch/bulk.go`) | the sequence to resume from, a goroutine | follow, hand over, retry, stop | drops, garbled lines, a reader that leaves |
| authentication (`couch/auth.go`, `couch/iamauth.go`) | the cookie or token, a mutex | log in, replay once, invalidate | concurrent 401s, ageing credentials |
| document commands (`command/document.go`, `conflict.go`, `attachment.go`, `security.go`) | what was read before the question | put, cp, rm, edit, attach, resolve, cancel, security | the answer comes after the world has changed |
| users (`command/users.go`) | what was read before the password was typed | add, passwd, rm; the wait for a hash | two stores for one name, one without revisions |
| profiles (`command/connect.go`, `config/`) | `config.toml` and the keyring | connect, `--save`, profiles add, default, remove | two processes, two files, seven sources of identity |
| session, lines and scripts (`session/`, `shell/script.go`, `shell/shell.go`, `command/run.go`, `command/vars.go`) | preferences, variables, connection, directory | a line, `run`, `set x = line`, the front ends | everything changed must be put back on every path |
| parser, expansion, filters (`shell/parse.go`, `expand.go`) | none | text to statements | pure |
| paths (`path/path.go`) | none | clean and resolve what was typed | `..` out of a partition, escapes, ids that hold a colon |
| the prompt and its completion (`session/cache.go`, `command/navigate.go`, `database.go`, `complete.go`) | the directory, the names and fields remembered | cd, mkdir, rmdir, connect, Tab | what is remembered, and the place the prompt stands in, may be gone |
| listings (`command/navigate.go`, `query.go`, `search.go`, `couch/database.go`, `couch/query.go`) | the hint of where the next page starts | ls, ls --all, find, search, query | others write between two pages; a boundary between equal keys |
| compaction (`command/compact.go`) | whether a task was seen, a deadline | compact, `--cleanup`, `--watch` | over before the first look, or never begun |
| tasks, replication start, cluster, diff | none beyond one call | one or a few requests | not modelled (section 7) |
| rendering, documentation generator, fake server | none | layout and tools | not modelled |

How they meet: a line is parsed, its preferences are put on, the lazy connection
is made, and its stages run as a pipeline. All requests of all stages go through
the one transport of the client. A stage may be a script, which runs lines in turn;
`set x = line` captures another line. Between lines, Tab asks the same session
what it remembers, and asks the server for what it does not. Ctrl-C cancels the context of the line,
which every stage, transport and follow watches. Processes share nothing but the
server, `config.toml` and the keyring.

What makes each correct is stated by the properties of section 3.

## 2. Modules

| Module | Models | State and actions |
|---|---|---|
| `BackupDump` | `cdb backup` and the database under it | `file` and `closed` are the dump and how much of it is in closed gzip members; `pc` walks the body of the command; `Write` and `CompactSource` are the world; `Stop` cuts the file anywhere after `closed`; `Resume` is the scan, the truncation and the restart |
| `DumpLog` | what a dump promises its reader | a log that grows by whole batches and is sealed once |
| `BackupDumpProofs` | proofs of the two | section 5 |
| `RestoreDump` | `cdb restore` | records read in order, `Fits` and `Crowded` bound the batch, uploads after it, other clients edit, a run may be stopped and repeated |
| `Pipeline` | one line of stages | a step per receive, send, and per deferred call of a stage's exit, in the order of the defers |
| `Line` | what a line promises whoever reads its output | what is on the screen, which stages failed, whether it ended and how; nothing of channels and goroutines |
| `PipeConsume` | put, rm and cat fed by a pipeline | `Take` and `Idle` decide a batch, look-up and write are apart; `BulkDocs` is the server, document by document, and goes on when the stage has ended; another client writes in between |
| `TailFollow` | `tail --follow` | the server's feed, the goroutine over an unbuffered channel, the reader, Ctrl-C |
| `AuthTransport` | the session and IAM transports | requests step through send, refusal, invalidation under the mutex and replay; `Revoke` and `Age` are the server |
| `DocWrites` | commands that read, ask and write | two operators and other writers on one document, with revisions and conflicts |
| `Profiles` | connections and what is saved of them | resolution in the code's order; reads of the file and keyring, the login, and the two writes are separate steps of each process |
| `Script` | lines, scripts, captures, front ends | a stack of lines and scripts; `prefs`, `args`, `tables`, `conn`, `cwd`; any line may come next |
| `ScriptProofs` | proofs about `Script` | section 5 |
| `Accounts` | users add, passwd, rm | the user document with its revision, the `[admins]` key without one, a server that hashes when it likes |
| `Paths` | what a path comes to, and what it names | operators: `Clean` walks the segments with the count of `..` just made, `Resolve` gives the target; a path is its segments as typed, and an id is what precedes its colon and the rest |
| `Browse` | the prompt: cd, mkdir, rmdir, users add, restore --create, connect and Tab | `cwd`, `host`, `names` and `fields` are the session and its cache; `rmdir` is the question that is open; `Outside` is everybody else |
| `Completion` | what Tab offers behind a directory that is typed | `CompletePath`, of the state of `Browse` |
| `Listing` | ls, ls --all, find, search and query page by page | `rows` are what there is, `shown` what was printed, `hint` where the next page starts; `Put` and `Drop` are other clients |
| `Compaction` | compact --cleanup --watch and the server's task | `own` and `theirs` are two compactions of one database, which the server does not tell apart; `clock` counts the looks |
| `Prompt` | an operator who is on one of these three errands | composes `Completion`, `Listing` and `Compaction`, which share the session and nothing they change together |
| `PromptProofs` | proofs about `Prompt` | section 5 |
| `AuthTransportProofs`, `AccountsProofs` | proofs about the module each is named after | section 5 |
| `FollowProfilesProofs` | proofs about `TailFollow` and `Profiles` | section 5 |
| `PipelineProofs` | proofs about `Pipeline` and `PipeConsume` | section 5 |
| `WritesProofs` | proofs about `DocWrites` and `RestoreDump` | section 5 |

The `MC*` modules give constants their values for TLC, and there is one for each.
Modules meet at what they abstract: `Script` has a line's stages fail or succeed,
`Pipeline` is how they do; `TailFollow` and `BackupDump` have requests answered or
not, `AuthTransport` is how they are.

State is documented where it is declared. An own type invariant is kept only
in `BackupDump`, where it is a conjunct of what is proved.

## 3. Runs

Each pass run explores its instance completely.

| Run | Distinct states | What it shows |
|---|---|---|
| `backup_dump` | 515 762 | `NoGap`: whatever the dump should hold and has passed is in it, across pages, stops and resumes. `FooterIsTrue`: a footer's totals are those of the records. `IsALog`: the closed members implement `DumpLog`. `TypeOK`. |
| `restore_dump` | 125 562 | A reported success restored all and was partial only if asked (`AllRestored`), keeps revisions, stays within the request bound. |
| `pipeline` | 334 740 | `NoSilentEnd`, `TheCause`, and the line always ends with every goroutine of it (`LineEnds`). `IsALine`: it implements `Line`: its output only grows, in order (`InOrder`), and nothing of it happens after it has returned. |
| `pipe_consume` | 1 197 131 | One true row per value; of what is written, nothing past a bad value and at most one batch untold (`WrittenAccounted`). |
| `tail_follow` | 167 312 | No change skipped, repeated or reordered; each is delivered; the goroutine ends. |
| `auth_transport` | 57 505 | A replay carries a newer credential, one login serves all and no key is exchanged twice, all are answered. |
| `doc_writes` | 1 695 916 | Only what was asked about is replaced, nothing is lost unasked, nothing is done twice, what resolve keeps is there. |
| `profiles` | 619 477 | A connection is the one asked for, and a saved profile, the default among them, connects again as it did, but where `Astray` says otherwise (section 6). |
| `script` | 698 112 | Preferences are scoped, nothing is destroyed unasked, a failure is told once and where it belongs, the exit code is true, callers keep their variables. |
| `path_lost` | violation | `--path` is lost by `cdb run` (section 6) |
| `accounts` | 59 642 | Roles survive a password change, a password reported set stands, every command ends. |
| `prompt` | 150 469 | `NotStranded`: rmdir leaves the prompt in nothing it removed. `OwnChangesOffered`: completion knows of what this session changed. `UpStepsOver`: `..` settles the same way however it is typed. `CandidatesLead`: what Tab offers names what was listed. `ListedOnce`: a listing that ends was complete, and repeats nothing but the boundary of a view. `FinishedIsTrue`, `WatchEnds`: a watch ends, and says so of a compaction that is over. |

### Bounds, and why they are enough

- Backup: two documents, three update sequences, two invocations, batches of
  one and two. Two documents and three sequences give a document that moves
  behind the reader, one that is deleted and one dumped twice; the second
  invocation resumes a torn file, and the proofs remove these bounds.
- Restore: up to three documents per dump, attachments that fill, overfill and
  exceed the inline limit of three and the batch of eight, a revision dumped twice,
  a repeated run, an edit by others, into an empty database, a used one or one that
  holds part of the dump, and dumps cut or bent. The proofs remove these bounds.
- Pipeline: three stages and channels of one place. A first, a middle and a
  last stage are the three kinds there are; the middle makes two values of one
  and none of another, so that every channel is both full and starved. `Values`
  are the three that the source and the stages hand on.
- Consumers: batches of two, inputs of up to four values: a full batch, a
  partial one, and a bad or repeated value at each place of either. Two databases
  and one write by others, which may fall between two documents of a request. The
  proofs remove these bounds.
- Tail: four sequences on two documents, two drops, one garbled line, two
  lines in flight: a second drop while the first reconnection is under way.
- Authentication: three requests, one of them with a body that cannot be sent
  twice, and two events of the server; a third request is the one that finds
  what the other two did to the shared credential.
- Documents: every pair of commands, two further writers, and the code's own
  number of attempts, from no document to three leaves in conflict (`MaxLeaves`).
  Revisions grow without a bound of their own: the commands and the two writers
  end of themselves.
- Profiles: two processes, two names, two servers that take different kinds of
  credential, eight environments, two commands.
- Scripts: nesting of two, four physical lines. Two levels give a script within a
  script, a capture within a script and a script within a capture; depth and the
  set of lines are arbitrary in the proofs.
- Accounts: two operators with any two commands on an account of either kind,
  and two grants of a role by others.
- Prompt: two servers with a database of one name, a partitioned database whose
  ids hold their key once and twice, end in a word of a path or go on as a design
  document's would, one whose name needs an
  escape, and one spelled with an escape it does not need; a design document with a
  view named `..`; directories that end in a separator, in a longer segment that ends
  in one, and that hold one elsewhere; twelve paths from every place they
  lead to. Three commands and one change by others give a cd, an rmdir of what
  it went into and a mkdir of the same name, with another client in between.
  Listings have four documents under two keys, limits of none, one and two, and
  three pages with one write anywhere: a boundary inside a key, at its end, and
  at the end of the listing. The window of a watch is two looks, and arbitrary
  in the proofs.

`CHECK_DEADLOCK FALSE` is set everywhere: commands end, and a process that has
ended takes no step. Where an end must come, a liveness property asks for it.

### Fairness

- `Pipeline`: weak fairness of each stage's own steps. They are goroutines, which
  the runtime schedules; a channel operation or a cancelled context that is
  ready stays ready. Neither Ctrl-C, nor a failure, nor an early end is fair.
- `TailFollow`: the goroutine, the server's sending and its ending of the feed of
  a deleted database, the reader, and the cancellation of a line whose last stage
  has left. Writes, drops and Ctrl-C are not fair.
- `AuthTransport`: each request's next step, since every call has a timeout. The
  mutex needs no strong fairness: no other request asks for it more than a few
  times.
- `Accounts`: each command's step and its deadline. The server is never obliged to
  hash, so `Answered` rests on the deadline alone.

- `Prompt`: the watch looks again, and the server comes to the end of a task that
  runs. The watch has no deadline for a task that was seen, so that its end rests on
  the server; one that stays queued for good is up to the watch's own window. That a
  task begins, questions and the other errands are not fair.

The other modules state safety only, and their specifications have no fairness.

## 4. What is only model-checked

Liveness (`LineEnds`, `Delivered`, `Answers`, `Answered`, `WatchEnds`) is beyond the
prover. Every safety and action property of the passing runs is proved as well.

## 5. What is proved

`BackupDumpProofs` proves, for every set of documents, every bound and every batch
size allowed by `BoundsAssumption` in `BackupDump`:

- `TypeCorrect`: `Spec => []TypeOK`.
- `InvariantHolds`: the inductive invariant `IInv`. `NoGap` is not inductive: it
  speaks of what is in the file, while a resume goes on from what the last
  checkpoint says. `IInv` adds `Shape` (which records a file may hold beyond its
  closed part, by the place the command is at), `Bounded` (sequences in the file
  and in the command do not run ahead of the database), `Counted` (the counters
  are those of the records written) and `Covered` (what a checkpoint's sequence
  has passed is before that checkpoint).
- `NoGapCorrect` and `FooterCorrect`: the two safety properties that follow from it.
- `Implementation`: the closed members implement `DumpLog`. Every step is a
  batch, a seal, or leaves them alone, and a resume leaves them alone because
  it truncates to a checkpoint and never before it.

`ScriptProofs` proves, for every set of lines, scripts and front ends whose flags
are Booleans (`FlagsAssumption`):

- `PreferencesScoped` and `NothingUnasked`. What a line or a script puts back is
  what it saved when it began, so `PrefsScoped` by itself says nothing about the
  state after the top frame is gone. The invariant says of every frame that what
  it saved is what the frames below it are worth, and which kind of frame is on
  top when a command runs. A line puts back two of the three preferences and a
  script another two; the proof is where it shows that the third had not changed.
- `CallersVariables`: no step writes a table that is not the innermost.
- `FailureSaidOnce` and `ExitCodeIsTrue`. Both speak of the end of a failure's way:
  between two lines, and when the process ends. The invariant says what is on
  record at every place the control may be at (`Record`): a result on its way is
  told, or still to be told by the script that it happened in, and that script is
  on the stack; and how each frame may end (`Ends`). Only the shell has lines
  outside a script (`Bottom`), which is where a failure goes untold by scripts. They
  take that the value for nothing is no class and no record of a failure
  (`NoneAssumption`).

`PromptProofs` proves, for every length of the window and every set of servers,
paths, ids, keys, limits and writes:

- `FinishedIsFinished`: `Spec => []FinishedIsTrue`. The invariant adds that a task
  which was seen was this compaction, which has then begun, or somebody else's
  (`Seen`); the window enters only by `Late`, so that its length does not matter.
- `OwnChangesAreOffered`: `Spec => []OwnChangesOffered`. It needs little more than
  itself (`Connected`): every step that makes or removes a database is one of
  which the session forgets what it had or does not claim to know (`ChangeKept`).
- `PromptIsNotStranded`: `Spec => []NotStranded`. A database that rmdir asks about is
  named by a path of one segment (`Asking`), so that a prompt below it is where that
  segment comes first. `ResolveIs` says what a path must look like to name a
  server, a database or a partition. `PathsAssumption` and `BrowseAssumption`:
  no segment is empty or stands for an empty name, and "x" is a segment
  without an escape.
- `StepsUpOver`: `Spec => []UpStepsOver`, and `UpsLead` for any number of `..`: after
  each of them the walk is where single steps lead, but for a separator that it
  still owes, which whatever comes next settles. The walk is a recursive function,
  and `Iterated` shows that there is one for every input.
- `CandidatesLeadThere`: `Spec => []CandidatesLead`. What is offered is one segment or two
  behind a directory, so that the proof follows how such a line is cleaned and read.
  `Onto` says that a plain segment behind a directory which does not leave a
  partition comes right after what the directory comes to, and `TwoOn` that two do;
  `DatabaseNames` and `PartitionNames` say what the segments name by their number;
  `ProbeIs` that where a design document is found only by the index it would hold,
  the path is that of one in a partition. There is one lemma for each kind of candidate:
  `LeadsToDatabase`, `LeadsToDocument`, `LeadsToDesign`, `LeadsIntoPartition` and
  `LeadsToMember`. The invariant (`Known`) says that every database there is or
  that is remembered has a name that some segment stands for, and that every document
  has one of the ids that `NamesAssumption` speaks of: mkdir and restore make databases
  of typed names only. The tables are arbitrary but for `EscapeAssumption` (what
  Encode gives is a segment which Decode reads as the name again, and neither the
  words of a path nor the empty name hold anything to escape) and `NamesAssumption`
  (an id with a key is that of its name cut at the first colon, a name that begins with
  `_design/` is a design document's, and names are what segments can stand for). In a
  partition the rest of an id may begin so, which `Disguised` excepts. The proof did not go through at first, and rightly: two of
  the exceptions (`EndsIn`, `Reserved`, section 6) were not known, because the instance
  had no such names, and `Bare` had overlooked a directory that holds `_view` elsewhere.
  The instance has all three now.
- `EachListedOnce`: `Spec => []ListedOnce`. The invariant says what the hint of the next
  page means (`Onward`): whatever was there all along was shown or lies at or after
  the hint, and all that was shown lies before it, or has its key where the hint
  names only the key (`Passed`). `ListingAssumption`: the ids are finitely many, and
  ids and keys are positive numbers. That finitely many rows can be put in
  order, so that the server has an answer, is a lemma too (`HasOrder`).

`PipelineProofs` proves, for any number of stages from two on, channels of any
capacity, any source and any commands (`PipelineAssumption`: the source is a
sequence of `Values`, and a stage makes a sequence of `Values` of each):

- `OutputInOrder`: `Spec => []InOrder`. `InOrder` speaks of the end of the line only.
  The invariant `Flow` says for every stage that there is a sequence it has read so
  far, and that what it makes of that is what the next one has read, what is in
  the channel between them and what it has still to send, in this order. From
  there `ImageInOrder`, that a stage makes the beginning of its output of the
  beginning of its input, takes the prefix from stage to stage.
- `NoSilentEndOfLine` and `FailureIsTheCause`. A closed channel means the end only if
  whoever closed it was through. The invariant adds what "through" is (`Dry`:
  nothing left above it, to send or to read) and that as long as no failure is on
  record all stages above one that is through are through as well (`Chain`), which
  is where the order of the deferred calls counts: a stage that fails records
  that before it closes its channel. `Causes` and `Ended` say which cancellations
  there are while no failure is on record: only that of a last stage that ended
  without one.
- `LineImplemented`: `Spec => IsALine`. The three invariants speak of states; `Line` says in
  which steps they come about. Every step of a goroutine is one of six that can be seen
  from outside, or none of them: more output while the last stage still reads, a stage
  that fails of itself, Ctrl-C, the last stage having enough, success, or a failure. A
  stage that notices a cancellation, records it and leaves is not seen (`NoticeSeen`).
  Beyond `Sound` it needs that a last stage which had enough no longer reads and never
  fails (`Outer`), and `Returned`: when there is a result every goroutine is gone, so
  that no step is left that could be seen.

The sequences are as long as they like and the stages as many, so that these
proofs need induction. They take it from the well-foundedness of `<` on the
natural numbers by a least counterexample (`OneByOne`), which needs sets only. That
`Made`, a recursive function, has a value for every stage is shown the same way
(`MadeIs`), and so is what `FlattenSeq` gives (`Flatten`).

Of `PipeConsume` it proves, for any pipelines of values, any databases, any batch
size and any number of writes by others (`ConsumeAssumption`: a batch may hold one value
at least, and the values name databases and documents that there are):

- `EveryValueAnswered`: `ConsumeSpec => []RowPerValue`. The rows there are and the values
  of the batch that have none yet (`Left`: those whose database is still to be
  handled) are together the values read, counted for every id (`Tallied`). That
  a batch is taken apart by database and loses or repeats nothing by it is
  `ByDatabaseIs` and `HandedOn`. With one database a batch is handled whole, which
  is why rows come in the order of the values then (`InTurn`), and not otherwise.
- `RowsAreTrue`: `ConsumeSpec => []OkIsTrue`. The j-th answer of a request is that to the
  j-th document sent (`Requested`); which row that belongs to is settled by places
  and not by ids, `RankIs` and `NthIs`, so that a batch may name a document as
  often as it likes. The rows and the answers that say "ok" are of different
  writes (`Separate`), and tell of all there are while the stage has not failed
  (`Truthful`).
- `UntoldIsBounded`: `ConsumeSpec => []WrittenAccounted`. What waits to be handed on and
  what is left of the batch fit one batch (`Untold`), and a request holds no more
  than is left. When the stage fails, what the server may still do of the last
  request counts as done.

`AuthTransportProofs` proves, for every set of requests and any number of events
of the server (`AuthAssumption`; the mutex that nobody holds is held by no request):

- `OneRenewal`: at most one request at a time invalidates or renews the credential.
- `ReplayIsFresh`: `Spec => []FreshReplay`. It is not inductive: whether the second
  attempt is newer is settled when the mutex is taken. `Renewing` says, for a
  request between its two attempts, that a session that is good again was issued
  after the one it was refused with.
- `NoStampedeOfLogins`: `Spec => []NoStampede`. `Paid` counts: credentials issued,
  one more if the present one is no good, and one for each request whose 401 has
  not had its effect yet, are no more than what 401s and expiries have called for.
  `Once` is the second half, the exchange of an IAM key.

`FollowProfilesProofs` proves `FollowShowsOnceInOrder`, `Spec => []OnceInOrder`, for any
documents, any number of writes, drops and unreadable lines and any number of lines
under way. The invariant adds what a connection holds: the change in hand and
those behind it are in order, after the last one handed over (`OnTheWay`), and what
lies between that and the last one sent was shown, is on its way or could not be
read (`NothingSkipped`). A drop empties the connection, and the next one starts
from the last change handed over: this is why `since` must be set there and not
where a line is read.

It also proves of `Profiles`, for any processes, names, servers, credentials,
commands, environments and answers that are of the shapes `ProfilesAssumption` gives
them (a server's credentials have a secret, and the file does not begin with a default
that is not there):

- `ConnectsWhereAsked`: `ProfilesSpec => []ConnectsAsAsked`. The invariant follows a
  connection from the moment its profile is opened (`TrueTo`): neither the environment
  nor an answer moves it to another server, and the user its URL names is replaced by a
  proxy's only, since a URL that names a user is never asked about as a bare one is.
- `ProfilesReconnect`: `ProfilesSpec => []Reconnects`. Two facts carry it.
  `StoredLeadsBack`: of every connection that did not go astray, what storeProfile
  makes of its profile, with the secret it puts in the keyring, is let in as the same
  user. And `OwnChange`: a command that is alone holds the file as it is, and then the
  file with its own change and the keyring that goes with it, so that between the two
  writes, and if it dies there, no profile that another command saved is misled. A
  second command costs what is known of the profiles and never the default:
  `DefaultIsThere` holds of every copy of the file, and is kept by each change.

`WritesProofs` proves of `DocWrites`, for any set of operators and commands, any
number of writers, of leaves and of attempts (`WritesAssumption`):

- `OnlyTheAskedIsReplaced`, `NothingIsLostUnasked`, `DocumentChangedOnce`: these speak of
  what was written. The invariant says the same of what would be written
  (`AsAsked`, `Carries`, `Once`), at each place a command may be at, so that a try
  after a lost race is covered as the first one is. Of an entry of the security object
  it says that whoever undid what was done to it has come to its end, with the object
  as it wrote it and the entry as it had read it (`Stands`, `Entries`).
- `KeptIsKept`: `Spec => []KeptIsThere`. It needs that two leaves are of different
  lines (`Branches`) and that what resolve still has to delete is not of the line
  it keeps (`Keeps`).

and of `RestoreDump`, for any dumps, targets, flags and limits, any number of runs,
each of which may stop anywhere, and any number of edits by others:

- `EverythingRestored`: `RestoreSpec => []AllRestored`. The invariant follows what was read:
  each document is at the server, gathered, or in the batch being sent, and each
  attachment with it or owed as an upload (`UnderWay`). The hard case is a document
  that the server has already, from an earlier run or from the same dump, since
  `new_edits=false` leaves it as it is, attachments and all. `Whole` says that it
  then has every attachment that would travel with it. This holds because which
  ones travel depends on the document alone and not on the batch it is in: `Cut`
  describes them, `CutsAgree` shows that there is one such choice, and `AttachTakes`
  that `flushBefore` makes the code's choice, by the running total of a whole
  batch, that one.
- `RevisionsKept`: `RestoreSpec => []RevisionKept`. Only uploads make up revisions, and what
  is left for an upload is left of a document that is `Overweight` (`LeftOut`).
- `RequestsBounded`: `RestoreSpec => []RequestBounded`, with lemmas on sums over sets
  (`TotalAdds`, `TotalGrows`, `InlinedTail`).

`DumpAssumption` says what a backup writes: attachments follow their document, and
a revision that is dumped twice is dumped alike. That leaves out one file a backup can
leave behind: one cut between the attachments of a second copy and read with
`--partial`, for which `EverythingRestored` would rest on the server not refusing the
whole copy while it takes the cut one in the same request. `TargetAssumption` says of what a
target holds already of a dumped document that it comes from the same database: a
dumped revision has its attachments, and other revisions are ancestors. Without it
`AllRestored` is false, and so it is of the code: a target that holds a revision of
that name without its attachments keeps it so, and the restore reports success.

`AccountsProofs` proves, for any set of operators and any number of grants
(`AccountsAssumption`: the password from before is nobody's):

- `RolesAreKept`: `Spec => []RolesSurvive`, from `Revisions`: a document that was read
  at the revision it still has is the document there is.
- `PasswordIsKept`: `Spec => []PasswordStands`, from `LastStands`: after a write that
  found no hash outstanding, only its own may land.

Every theorem is checked to its last leaf; there are no assumptions but the named
ones, which TLC evaluates in the runs as well.

## 6. Where the code and its documents part

One is a run, and `PROJECT.json` quotes the lines:

- `path_lost`: `cdb run --path /x --url ... file` applies the path before `RunFrom`
  opens the connection to the target named, and the connection puts it back to the
  root, where the script starts. Where no target is named nothing is opened before
  the script, which starts at the path; the first line that needs a connection makes
  it, to the same effect.

Met while modelling, and not runs of their own:

- `command/connect.go:876-878` says that a password in the URL is moved to the
  keyring, "leaving a profile that reconnects the same way". `cdb connect --auth none
  --save http://alice:pw@host`, with `CDB_PASSWORD` exported for something else,
  connects as alice by what the URL carries. storeProfile moves the URL's password
  to the keyring only when it has no other secret (889), so that the profile is saved
  without it and connects as nobody. The same happens to the name, when the URL comes
  from `CDB_URL` and the profile it is laid over has a user of its own. `Astray`
  describes these cases, and `Reconnects` excepts them.
- A profile that is saved again is promised nothing by `Reconnects` between its new secret
  and its new entry in the file (`command/connect.go:905-930`), nor is any after two
  commands that overlapped but that the default is there: a stop in between leaves the
  new secret beside the old address, and the later save of two drops what the other
  added (`command/connect.go:879`). Nothing in the code is against either.
- `command/backup.go:187-189` says that without `--tombstones` a dump holds only live
  documents. The test is on the row, which tells of the winning leaf, so that the
  deleted leaf of a live document is dumped.
- `command/backup.go:205-206` calls the dump "resumable from its last checkpoint"
  when a revision is lost. If it was purged or compacted away and its document
  has not moved since, a resume meets the same revision again.
- `command/connect.go:354-356` lets a named kind beat everything, but
  `--auth jwt` does not clear the question asked of a bare URL (361-371), and the
  answer to it is a session login.
- `command/pipeconsume.go:131` finds a revision by id, so that of two values of one
  batch with the same id only the last has it filled in, while
  `command/document.go:119-122` says that a pipeline updates without conflicts.
- `README.md:279-281` says that the environment variables skip the keychain
  entirely. It is skipped when they hold a secret; `CDB_PROFILE`, `CDB_URL` and
  `CDB_USER` by themselves leave the secret to the keychain.
- `command/security.go` reads, asks and writes an object that has no revisions. Its
  help speaks of half-applied edits only, and rightly: of two operators the
  later one may undo the earlier one, and need not even hear of it, since the PUT may
  be done and its answer lost (`command/security.go:90`). `NothingLostUnasked` asks for
  no more than that the object is then as one wrote it who had agreed to that and had
  read the object before the change.
- `command/users.go` asks whether a name is a server admin and writes the key of
  one much later. `Accounts` shows two operators who both create it, or one who
  brings back an admin that the other removed; nothing in the code forbids it.
- `docs/UserGuide.md:554` promises that restore preserves conflicts. A leaf with an
  attachment too large to travel inline is given a new revision by the upload
  (`command/restore.go:199-207`), and a leaf of the same document restored later
  stands in conflict with that one.
- `couch/query.go:85` says that paging a view uses the key and the id of the next
  row. The hint of query names the key alone (`command/query.go:373-376`), so that
  the next page shows rows of that key again, and a page that is full of one key
  leads to itself. `ListedOnce` allows for rows of a key that a hint has named.
- Rows of a reduced view have no id, so that query gives no hint though it cut
  them; and find or search with `--limit 0` get the server's own limit with no hint.
  `Listing` ends these as "cut", of which `ListedOnce` promises nothing.
- rmdir compares paths as they are spelled (`command/database.go:89`). From inside
  `/%64b`, which is `/db`, `rmdir /db` leaves the prompt where it was.
- A mkdir, rmdir or users add whose answer is lost, restore `--create`
  (`command/restore.go:411-417`) and a replication do not tell the cache, though
  `command/database.go:44-46` gives the reason why mkdir does.
- Tab behind a single `..` out of a partition lists the documents of the database,
  while a name there resolves to a sibling of the partition; under a design
  document whose separator is still to be typed, views are offered that resolve to
  attachments; and an id that holds its partition's key twice is completed to
  another document.
- `_view/` and its siblings are cut off the text of what was typed
  (`command/complete.go:73`), so that behind `/db/_design/app_view/` the members of the
  design document `app` are offered, which are not there.
- PathEscape leaves the words of a path as they are: a view or a document named
  `..` and a document `p1:_design`, whose rest is `_design`, are completed to lines in which
  that name is a step or a separator, and an empty name puts nothing behind the
  directory.
- A design document is told by the text of its name (`command/complete.go:239-245`), which
  in a partition is what is left of the id behind the key: `p1:_design/foo` is offered
  as `/db/_partition/p1/_design/foo`, which `path/path.go:242-271` refuses.
  `CandidatesLead` excepts these six by name (`StepsOut`, `Bare`, `Twice`, `EndsIn`,
  `Reserved`, `Disguised`).
- A bare `_partition` is stepped over as it is typed, and `%5Fpartition`, which
  resolves to the same, is not (`path/path.go:151-168`).
- The watch of a compaction takes any compaction of the database for its own
  (`command/compact.go:186-198`), and ends when the window has passed without a
  task, saying that it is finished (175-180). `FinishedIsTrue` names both cases.

## 7. Not modelled, and why

- Loss of power: the model lets a killed process leave any prefix of an unfinished
  member, and takes what the operating system was handed of closed members to
  stay. The code does not sync the file.
- How long a wait is, and the order of two independent timeouts.
- Text: tokens, quoting, filters, wording, layout, redaction, paging of output.
- The server's own work: replication, compaction, view building. It appears as
  nondeterminism in what requests come to.
- The words of a line that are not paths, in completion: lookups in the tables of
  commands, flags, profiles and variables (`command/complete.go`, `shell/complete.go`).
- `cluster`, `tasks`, `diff`, info, and ls of anything but a database: one or a few
  reads, or one post. What a second setup of a node does is the server's to say.
- The start of a replication, by replicate or cp: one document in `_replicator`, of
  which cdb learns no more until it is asked. Its effect is among those that
  `Outside` of `Browse` has.
- A compaction as the several tasks, one for each shard, that the server may list: it
  is one task here, or two with somebody else's.
- The facets of search, how a selector is built from flags, and the sentences for a
  service that is missing.
- The history file of the shell and what is masked in it: text.

## 8. Plan

Done: backup, restore, pipeline, tail, transports, document commands, accounts,
consumers, scripts, and the prompt with its paths, completion, listings and the watch
of a compaction, and the profiles, with their proofs.

Next, in this order:

1. Replications as jobs of the server beside `Browse`, with cp and replicate: at
   the present bounds they treble its states.
2. The continuation of lines and expansion as operators, against reference
   definitions over bounded inputs (`shell/parse.go`, `shell/expand.go`).
