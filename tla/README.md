# Verification of the C++ Git implementation

This directory models the program in `src/src`: a small Git whose runs share
one repository through the file system and nothing else. There is no lock, no
temporary file, no rename and no thread: **all concurrency is between runs of
the program** (two shells, a script with `&`, a hook), and all failure is a run
that dies, a system call that is refused, or bytes that are not what they
should be. The specifications say what holds in spite of that, TLC checks it on
small instances, and TLAPS proves every one of its safety properties for every
instance.

## 1. The system

| Component | Source | State it keeps | Operations | Hard part |
|---|---|---|---|---|
| Loose-object store | `git_object_store.cpp` | one file per object under `.git/objects` | `ObjectExists`, `StoreObject`, `StoreRawObject`, `ReadRawObject`, `ReadObjectBody` | existence is taken for completeness; writers truncate files under each other |
| File access | `git_fs.cpp` | the file being read or written | `ReadBinaryFile`, `WriteBinaryFile` | several system calls per file; buffered data is flushed after success was decided |
| Compression, hashing | `utils.cpp` | none | zlib, SHA-1, hex | no bytes inflate to no bytes without an error |
| Repository commands | `git_repository.cpp` | the frames of the tree walk, the file being read; the parts of `.git` made so far | `Init`, `Open`, `HashObject`, `WriteTree`, `CommitTree`, `ReadObject`, `ListTreeNames` | a walk of a working tree that changes; check first, store later; an init that dies half way |
| Object formats | `git_object_format.cpp` | none | `ParseTreeEntries`, `ExtractCommitTreeHash` | the bytes of a hash may be separators |
| Pack processor | `git_pack.cpp` | position in the pack, head found so far | `UnpackAndStore`, `ApplyDelta`, `ReadDeltaVarInt` | bases come from the store; numbers of fixed width; a failure half way leaves objects behind |
| Remote client | `git_remote_client.cpp` | the frames of the restore | `Clone`, `FetchRepositoryData`, `RestoreTreeRecursive` | two requests to a remote that moves, four phases, no cleanup, a destination that may exist |
| Command line | `git_cli_application.cpp`, `main.cpp` | the parsed arguments | one handler per command | exceptions are not caught |

How they interact: a handler of the command line calls one function of
`GitRepository` or `GitRemoteClient`; these call the store, synchronously, one
call at a time; the store calls `git_fs` and `utils`. `clone` is `Init`, two
HTTP requests, `UnpackAndStore`, `ExtractCommitTreeHash`, and a walk that reads
the stored trees and writes files. Errors are values (`GitExpected`) that each
caller hands on unchanged, so a command ends with the first error met.

What makes each component correct:

- *store*: the set of stored objects only grows; a reader gets the object, or is
  told it is missing, or is told it is corrupt with a cause; racing writers of
  one object end with the whole object; what is damaged is reported.
- *repository commands*: no stored object names one that is not stored; what
  write-tree prints is the working tree, and can soon be read; every command ends.
- *init and the search for a repository*: a `HEAD` that was opened is short only for
  a cause, and a second init writes it again; a command works in the nearest repository.
- *pack processor*: success means the whole pack is stored and the head is the
  one asked for; a sound pack unpacks; a delta does what its writer meant and
  reaches outside neither base nor delta.
- *remote client*: success means that the destination holds the tree of the
  commit that was listed; failure has a cause outside of the clone, so that a
  retry after a dead attempt works; the branch taken is the preferred one.
- *object formats*: a tree that was written is read back exactly.

## 2. The modules

```
ObjectDatabase            what the store promises (abstract)
   ^ implemented by
ObjectStore               git_object_store.cpp + git_fs.cpp + zlib
   ^ extended by
   +-- Repository         git_repository.cpp and the handlers of its commands
   +-- Unpack             UnpackAndStore of git_pack.cpp
         ^ implemented by
       Clone              Clone, RestoreTreeRecursive; extends Unpack and RefSelect
RefSelect                 FindRefHash, SelectHeadHash
InitRepository            Init, Open, FindGitRoot of git_repository.cpp
VarInt <- Delta           ReadDeltaVarInt, ApplyDelta of git_pack.cpp
TreeFormat                ParseTreeEntries and what WriteTreeRecursive writes
Powers                    powers of two, for VarInt and Delta
```

`MC*` modules hold the small instances, `*Proofs` modules the theorems:

| Proofs | About | Rest on |
|---|---|---|
| `ObjectStoreProofs` | `ObjectStore`, and that it implements `ObjectDatabase` | |
| `RepositoryProofs` | `Repository` | `ObjectStoreProofs`, `Induction` |
| `UnpackProofs` | `Unpack` | `ObjectStoreProofs` |
| `CloneProofs` | `Clone`, that it implements `Unpack`, and `RefSelect` | `UnpackProofs`, `Induction` |
| `InitProofs` | `InitRepository` | |
| `BytesProofs` | `VarInt` and `TreeFormat` | `Induction` |
| `DeltaProofs` | `Delta` | `Induction` |
| `Induction` | the naturals, powers of two, sequences put together | |

An operator whose comment calls it a mutated form is a bug written down: put in
the place of the definition it mutates, it breaks the property of the run it
belongs to (`PROJECT.json`, "mutants"), which shows that the property can fail.

### ObjectStore

An object stands for its hash (SHA-1 injective) and a file for the pieces of its
zlib stream that it holds: `exists` and `data[o]`. Each action is one
interaction with the file system, because that is where runs interleave:

| Action | Code |
|---|---|
| `StoreFound`, `StoreMissing` | the existence shortcut of `StoreRawObject` |
| `StoreOpen` | `create_directories`, then an `ofstream` that creates or truncates |
| `StoreWrite`, `StoreClose` | `output.write`, `good()`, the destructor |
| `WriteRefused` | the device refuses bytes; see `Buffered` below |
| `ReadRejected`, `ReadMissing`, `ReadOpen` | `ValidateObjectHash` and the checks of `ReadRawObject` |
| `ReadPiece`, `ReadEnd` | `ReadBinaryFile`, then inflate and `ExtractBody` |
| `CallRefused` | `exists()`, `create_directories` or an open is refused |
| `Kill` | the run dies; the file keeps what was written |

Details that matter and are kept:

- `Buffered` objects are those whose compressed form fits the buffer of the
  `ofstream`. They are written by its destructor, **after** `good()` was tested, so
  a refused write is reported as success; the others fail with `io_error`.
- Two runs that write the same object write the same pieces at the same offsets
  (zlib is deterministic), each at its own position. A file that was truncated
  by another writer and then written at a later position has a hole, which
  reads as zeros: such a file does not inflate.
- A file of no bytes inflates to the empty string without an error; `ExtractBody`
  refuses it because it finds no NUL.

`acked`, `damaged` and `raced` are history variables: what some call reported
stored, objects one of whose writers died or was refused, readers during whose
read the file had a live writer.

### ObjectDatabase

Ten lines of promise: a set that only grows; `put` answered "ok" has put; `get`
finds an object iff it is in the set; "corrupt" is answered only when a put
was in flight during the get or one was cut short. `ImplementsContract` is the
refinement, with `exists` as the set and the step of a call reduced to its phase.

### Repository

One process per command. `work` is the working tree, which a user edits at any
time (`Edit`). `WriteTreeRecursive` keeps its stack by directory: `left[p][d]`
are the names the directory iterator has still to yield, `entries[p][d]` what
was collected; a name and its type are fixed when the iterator opens its
directory. A file is opened when its turn comes and then read piece by piece, in
`hash-object` too:

| Action | Code |
|---|---|
| `HashObject`, `WalkFile` (`OpenFile`) | the `ifstream` is opened, or the command fails |
| `FilePiece` | one read of the stream; what it got goes to `buffer` |
| `FileEnd` | a read that gets nothing; `StoreObject("blob", ...)` is called |
| `FileError` | a read is refused |

The user may edit the file between two of these. Overwritten in place (`Overwrite`),
it goes on in the new content for whoever has it open, at the place they have
reached, so that a blob may be made of pieces of several contents, and be one the
file never held. Removed or replaced by another file (`Replace`), it goes on as it
was: `kept` is the content of an open file that has lost its path. The history
variable `disturbed` has the files that were overwritten while a run read them, `held`
what each file held at some time of the run. `WriteTreeIsSnapshot` says that a file
in the tree printed has a content that it held, and of a disturbed one that it is
some member of `Reads`: each piece is where it is in some content that was held.

A tree object is a set of entries, since the code sorts by name before it serialises. `.git` is skipped
at every level, as in the code. `commit-tree` checks existence, tree first, then
the parent, then stores. The commands that read differ in what they do with the
answer: `cat-file` prints any object, `ls-tree` refuses what does not parse.

### Unpack

A pack is the sequence of its records (type 0 to 7, base, data) and what follows
them: nothing, a length that is cut short, or the checksum of the pack. `count`
is what its header promises and need not be the number of the records. A delta
is the function from the bodies it applies to to what it makes of them. Details
that matter and are kept:

- `ObjectCount` is four bytes shifted into an `int`: from 2^31 on it is negative,
  the loop does nothing and the head is "not found".
- The base of a reference delta is read back from the store, where another run
  may be truncating it at that moment.
- `head_body` starts as `EmptyBody`, and an empty body at the end is taken for
  "the head was not in the pack".
- Whatever was stored before a failure stays in the store.

`Elsewhere` stands for the other users of the store and for the command that
unpacks, before and after it does; it is what makes `Clone` an implementation
of `Unpack` (theorem `CloneUnpacks`) and not just a user of its actions.

### RefSelect and Clone

A path is the sequence of the names below the destination, and `work` maps the
paths that exist to `Directory` or to what is in the file: a function from the
places of the pieces it has to the bodies these are from (`FileContent`). A file that
has every piece of one body and no other is `Image` of it; one with a place left out has
a hole, one with two bodies in it is mixed. The stages of a clone are the places where it can
be interleaved with another one or die:

| Stage | Actions | Code |
|---|---|---|
| idle | `CloneStart` | `create_directories`, `Init` |
| refs, pack | `FetchRefs`, `FetchPack` | the two requests of `FetchRepositoryData` |
| unpack | the steps of `Unpack`, `Unpacked` | `UnpackAndStore`, then `ExtractCommitTreeHash` |
| tree | the steps of a read, `TreeRead` | the head of `RestoreTreeRecursive` |
| walk | `RestoreDirectory`, `RestoreFile`, `TreeEnds` | its loop over the entries |
| blob | the steps of a read, `BlobRead` | `ReadObjectBody`; the `ofstream` creates or truncates the file (`OpenFile`) |
| write | `PieceWritten`, `FileWritten`, `FileRefused` | `output.write`, `good()`, the destructor |
| exit | `CloneLeaves`; `KillClone` from anywhere | |

`todo` is the stack of the recursion: a frame has the directory, the tree and
the entry that comes next. `RemoteMoves` changes the listing at any time, so also
between the two requests; a remote answers with a pack only for a hash that it
still lists (`Answers`) and otherwise with `Denied`. Bodies in `Small` fit the
buffer of the `ofstream`, with the same consequence as in the store: one piece, and a
refusal that nobody notices.

Clones that write one file do so as runs of the store do, each at its own position
(`sent`). If they write different bodies, those who meet are marked in `lost`
(`LostByOpening`). If they write the same body, whoever opens the file last writes all
of it again and the file ends whole, unless that one dies or is refused half way:
then the pieces that the others had written before it emptied the file are gone, they
go on behind them, leave a hole and report success. `over[p]` are the clones whose
bytes p took in this way, and `LostByStopping` marks them when p gives up.

`dirs`, `files`, `lost`, `over` and `unsure` are history variables: what was restored
from what, whose bytes another one took, and who read an object that was damaged or
being written.

`RefSelect` keeps what is unusual in the search: a branch is found by the
**start** of its name, in the order in which git sorts a listing. `PreferredHead` is
the definition by whole names that it is compared with.

### InitRepository

`init` makes `.git`, `objects`, `refs` and `refs/heads`, in this order (`NextPart`), and
then opens and writes `HEAD`, which truncates it when the repository is there. Its
one line is flushed by the destructor after `good()` was tested (`FlushRefused`).
`FindGitRoot` walks upwards from the directory of a command; a refused
`is_directory` is taken for a "no" because the code tests the answer before the
error (`FindRefused`). History: the directories a walk `passed`, the repositories
there were when it started (`had`), walks that were refused an answer and went on
(`blind`), and the `HEAD`s that a death or a refusal left short (`spoilt`).

### VarInt and Delta

`VarInt` is the loop of `ReadDeltaVarInt` byte by byte; the width of the integer and
the size of the groups are constants so that its edges can be reached. `Delta`
extends it with `ApplyDelta`, one action per kind of instruction. Of the base there is its
size, and the result is the list of the pieces it was put together from: which
bytes go where does not depend on what they are. `Encode` is the writer's side,
from git's format: a program has two sizes and its instructions (`Instruction`), a copy
among them has the argument bytes its writer chose to write out, which are
`Writable` if what is left out is zero or, for the size, 65536. `EncodeVarInt` and
`EncodeInstruction` spell it, `Does` says what an instruction asks for.

### TreeFormat

`WriteEntries` is what `WriteTreeRecursive` puts together, `EntryRead` and its error
actions are the loop of `ParseTreeEntries`. Bytes are numbers, `HexToBytes` and
`HashToHex` convert hashes as `utils.cpp` does, and the bytes of a hash may be the
very bytes that end a mode or a name. `MCBytes` runs `VarInt` and `TreeFormat` side by
side, since neither shares anything with the other.

## 3. What is checked

| Run | Instance | Properties | What it shows |
|---|---|---|---|
| `StoreFaults` | 3 runs, an object of two pieces and a buffered one, kills, refusals | `StoreTypeOK`, `MissingPiecesAreOwed`, `TornReadMeansRaceOrCrash`, `TornStaysTorn`, `ImplementsContract` | what a file lacks is owed by a live writer or was given up by a dead one; a torn read has a cause; damage is never repaired; the store implements `ObjectDatabase` |
| `StoreKilledWriter` | 2 runs, kills | `WriteObjectToDatabase` violated | finding 1 |
| `StoreFullDevice` | a buffered object, refusals | `WriteObjectToDatabase` violated | finding 2 |
| `RepoFaults` | 2 runs at a time, 3 commands of any kind, kills, refusals | `TypeOK`, `Connected` | no stored tree or commit names an object that is not stored |
| `RepoSnapshot` | one run at a time, 2 in all, contents of one and of two pieces, 3 edits | `WriteTreeIsSnapshot` | what write-tree prints is the working tree, or, if that was edited meanwhile, made of contents it had during the walk; only a file overwritten while it was read may be mixed |
| `RepoLive` | 2 at a time, 3 in all, 1 edit, objects of 2 pieces | `AckedBecomesDurable`, `PrintedTreeBecomesComplete`, `CommandsEnd` | racing writers end with whole objects; every command ends |
| `RepoCommit` | 1 run, commit-tree of any object | `CommitsNameTreesAndCommits` violated | finding 3 |
| `CloneFaults` | 2 clones into one destination, kills, refusals, a remote that moves once | `TypeOK`, `SoundPackUnpacks`, `CloneTypeOK`, `CheckoutIsTree`, `CloneFailsForCause` | success means the tree is there with every piece of its files, but for those with a cause on record; failure has an outside cause, and what an earlier attempt left whole is no obstacle |
| `CloneShapes` | one clone after another, 128 listings, 18 packs, 5 destinations | `SuccessMeansWholePack`, `HeadIsPreferred`, `CloneFailsForCause`, `CloneEnds` | the same for every shape of answer, and an end in all cases |
| `InitFaults` | 2 commands at a time, 3 in all, 3 nested directories, kills, refusals | `InitTypeOK`, `HeadIsOwed`, `FoundIsNearest`, `InitEnds` | a second init writes a `HEAD` that a first left short; the nearest repository is found; walks end |
| `BytesRead` | all strings of up to 4 bytes of 2+1 bits; trees of up to 2 entries, all strings of up to 7 of three bytes | `VarIntTypeOK`, `NumbersAreRead`, `TreeTypeOK`, `TreesAreRead` | numbers and trees are read back exactly; every other string is refused or reads as what would be written so |
| `DeltaApply` | programs of up to 2 instructions, 7 ways to spell a copy, all strings of up to 4 of seven bytes | `TypeOK`, `DeltaMeansItsProgram`, `PiecesAreSound` | a delta does what its writer meant; no piece reaches outside |

**Findings** (the three runs that end in a violation):

1. A run killed between opening and finishing an object file leaves a torn file,
   and every later store of the object sees that the file exists, reports success
   and writes nothing: the object can be neither read nor stored again.
2. Data that fits the buffer of the `ofstream` reaches the device in its
   destructor, after `good()`. A full device goes unnoticed and success is reported.
   The same holds of `HEAD` (`FlushRefused`) and of small files of a checkout
   (`FileRefused`); there the properties name it as a cause.
3. `commit-tree` takes any stored object for the tree: the run gives it a blob. The
   parent is checked in the same way, but is no case of the run.

`NumbersAreRead` says a smaller thing too: a size whose tenth byte has more bits
than there is room for is let through with its low 64 bits, although "Delta
varint is too large" is what the code says of sizes that are.

`HeadIsPreferred` has a hole on purpose: where there is no `master` but a branch
whose name begins so, that branch is taken even if there is a `main`.

### Bounds, and why they are enough

- *Store*: three runs are the fewest for two racing writers and a reader; two
  pieces the fewest for a file that has some of its data; one object is buffered
  and one is not, which are the two ways a write can be refused.
- *Repository*: a file in the root and one in a subdirectory, `.git`. Three starts make
  a command possible that comes after two that raced. Where files change, there
  are two contents that share no piece and differ in length, of at most `NReads` = 2
  pieces, so that a file may be read mixed or stop in the middle, and edits are
  bounded by `MaxEdits` = 3, for a file that changes and changes back while it is read and
  another edit beside it. One run at a time is enough there: nothing that
  `WriteTreeIsSnapshot` speaks of is shared by two, and its theorem is for any number.
- *Unpack and Clone*: packs of up to five records hold a commit, trees, a base and
  its delta, before or after one another. `MaxInt` is 5, so that a count above it is
  among the inputs. Files are of one piece, with a buffered write, or of two. The tree
  has a file and a directory in the first commit and two
  files in the second, so two clones of one destination obstruct each other.
  `MaxMoves` 1 is a move between the two requests of each clone.
- *Init*: three directories one in another are the fewest with a repository below,
  at and above the one a walk is at.
- *VarInt*: groups of 2 bits into 5 are, as 7 into 64, some whole groups and
  one bit more. *Delta*: 29 bits, four groups of seven and one bit, since its
  opcodes need bytes of eight.

Symmetry of the runs is used where no liveness is checked. The three `Store*` runs check
deadlock; the others stop when the bound on starts is reached or the input is
read, and say `CHECK_DEADLOCK FALSE`.

### Fairness, and why the code justifies it

A run waits for nobody: there is no lock, no condition and no child process. So weak
fairness of the steps a run takes **by itself**, once it was started, says no more
than that the operating system schedules a process, and that is all that is assumed:

- `FairSpec` of `Repository`: the steps of a command. Starting one, editing the
  working tree, being killed or refused are never fair.
- `CloneFairSpec`: `CloneStep`, which leaves the two requests out. No time limit is
  given to curl, so a remote that never answers keeps a clone waiting for ever;
  `CloneEnds` does not say otherwise.
- `InitFairSpec`: the steps of an init or a walk, with kills and refusals allowed.

## 4. What is proved

All theorems hold for every value of the constants that satisfies the named
assumptions (`StoreAssumption`, `UnpackAssumption`, `CloneAssumption`, ...): any number of
runs, objects, pieces, records and entries, and any interleaving, kill and refusal.
Most assumptions only give the constants their types. Those that say more:

- of a remote, that what it sends has objects of the modelled world in it
  (`UnpackAssumption`) and that its listing names each ref once and a ref before any whose name only goes on longer,
  as git's sorted one does (`CloneAssumption`);
- of a working tree, that its directories are nested to a finite depth, and of the
  objects, that a tree has entries (`RepositoryAssumption`);
- of a tree that is written, that the hashes are such as `HashToHex` makes, that modes have
  no space and names no NUL (`TreeFormatAssumption`); of a string that is read, nothing;
- of a delta that is written, that its sizes fit the integer and each copy is
  `Writable` (`ProgramAssumption`), and that opcodes have eight bits, so `Group = 7`; of
  any other, nothing.

**`ObjectStoreProofs`**

- `StoreTypeCorrect`, and `StoreOwesMissingPieces` (`MissingPiecesAreOwed`): of an
  object that is not damaged some one writer still owes every piece that is missing.
  It is inductive with the types: who opens the file becomes that writer, since it
  truncates the file and writes from the first piece on.
- `QuietStoreIsWhole`: if nothing dies and nothing is refused, all files are whole
  whenever nobody writes: the safe half of `AckedBecomesDurable`.
- `StoreTornReadsHaveCause`: a reader that meets a hole either had a writer beside it
  or reads a damaged object. `ReadInv` relates what a reader has read to the file.
- `StoreNeverRepairs`: damage is for ever. Once a file is there and no run is past its
  existence check, no run gets past it.
- `StoreImplementsContract`: the refinement to `ObjectDatabase`, step by step.

**`RepositoryProofs`**

- `RepositoryUsesStore`: a behaviour of the commands is one of the store, so the
  theorems above carry over (`RepositoryTornReadsHaveCause`).
- `RepositoryTypeCorrect` needs `OkMeansStored`: a store call that has answered "ok"
  has its object in the store. `OpenFilesOK`, a part of the types, says that what a run
  has read so far is made of pieces of contents; from it the blob stored at the end of
  the file is an object.
- `StoreIsConnected` (`Connected`) is not inductive alone. `Linked` strengthens it: what
  a walk has collected is stored, and so is what an object refers to that is being
  stored.
- `SnapshotHolds` (`WriteTreeIsSnapshot`). Of the file a run is reading, `ReadsHeld`
  says that what it holds now was held and that each piece read is where it is in some
  content that was; what was read of a file that was not disturbed is the beginning of
  what it holds, and so all of it at its end. The invariant `SnapshotInv` has two parts
  for each run. `GatheredBy`: whatever was collected stands for files that are in
  `held`, and an object being stored is what its frame or its file says. `Undisturbed`:
  while nobody edits, there is a set of open directories that is a chain from the root
  down to the one the walk is in (`Chain`), and in each of them every name has the right
  entry, or is still to come, or is open itself (`InFrame`); when the iterator of the
  innermost one ends nothing is open in it, so its entries are all there are. `TreeAt`
  and `Leaves`, the trees and files meant, are recursive: `TreeAtEquation` solves the
  first by induction over the depth of the directories, `LeavesEquation` the second as a
  least fixed point.
- `PrintedTreesAreReadable`: the safe half of `PrintedTreeBecomesComplete`. If nothing dies and
  nothing is refused, then whenever nobody writes all that a printed tree leads to is
  stored, and whole.

**`UnpackProofs`**

- `UnpackUsesStore`, `UnpackTypeCorrect`.
- `UnpackSuccessIsWhole` (`SuccessMeansWholePack`) by `Progress`: the records before
  `index` are stored, and `head_body`, unless empty, is the body of the head, which is one
  of them.
- `SoundPacksUnpack` (`SoundPackUnpacks`) by `AllSound`, which follows each store call
  of a run from its start to its answer: an object that exists is never "not found",
  and the base of the record at hand exists by `Progress`.

**`InitProofs`**: `InitTypeCorrect`, `HeadsAreOwed`, `FoundRepositoriesAreNearest`. The
last one holds because repositories are never removed: what was there at the start is
there when the walk comes by.

**`CloneProofs`**

- `CloneTypeCorrect`, and `CloneUnpacks`, the refinement `CloneSpec => Spec` of `Unpack`, from
  which `CloneUnpacksWhole` and `CloneUnpacksSound` follow.
- `CloneHeadIsPreferred` (`HeadIsPreferred`): `FindRefHash` takes the first line of a name that
  begins as asked, and in such a listing no name comes before its own beginning, so
  the first is the name itself where it is listed.
- `CheckoutCorrect` (`CheckoutIsTree`). The invariant `CheckoutInv` has three parts beside the
  types: `DirsKept` (what a clone has restored or is about to walk through is a directory
  and stays one), `FilesKept` (a file that was written is lost, or it has its content, or
  all that it lacks is owed by one clone that writes that content to it; this must
  survive that another clone opens, writes or gives up the same file, and is where
  `lost` and `over` are needed: the one who owes is the last who opened the file, and has
  in `over` whoever relies on it), and `AllWalk` (the
  frames of the stack hang together, from the tree of the head down, each one is what the
  frame below it visits, and of every frame the entries already passed are in `dirs` or
  `files`).
- `CloneFailuresHaveCause` (`CloneFailsForCause`). `AllInPack`: when the pack sent was complete,
  every object a clone asks the store for is one of the pack, so it exists (by
  `UnpackSuccessIsWhole` and because the store only grows), has the type that is expected
  and parses; the only causes left are those that are named.

**`Induction`**: a fact over the naturals is the set of the numbers it holds for, and that
a set of naturals that has 0 and with each number the next has them all follows from
their order being well founded (`Least`, `Induct`). `Recursion` gives the function a
recursive definition chooses, and from it `Pow2Recursion`, `FlattenAppend` and `Layout`: where in
a sequence put together from parts each part begins.

**`BytesProofs`**

- `VarIntTypesHold`, `NumbersAreReadHolds`. `VarIntInv`: after `position` bytes that all
  continue, `value` is the number they say and below the next group's weight
  (`value < Pow2[shift]`), which is why `|` is `+` and why only the last group can lose bits.
- `TreeTypesHold`, `TreesAreReadHolds`. `TreeInv`: the entries read so far, written, are the
  part of the body already passed, whoever wrote it; and if it was written from a list
  of entries, those read are the first ones of that list. The step is `CutIsComing`: the
  first space ends the mode, the next NUL the name, and after it the bytes of the hash
  are counted, not searched, so that they may be separators.

**`DeltaProofs`**

- `DeltaPiecesAreSound` (`PiecesAreSound`), for every string of bytes, base and width. The
  operands of a copy are numbers because the argument bytes an opcode names were found to
  follow it, and an insertion starts past all that was passed before, so `PiecesInv` is the
  property with the types of the strings and pieces.
- `DeltaTypesHold` (`TypeOK`), for which `TypeInv` adds that a size being read is below the
  weight of its next group.
- `DeltaIsWhatWasMeant` (`DeltaMeansItsProgram`). `CarriedOut` says of the program g behind the
  delta: while a size is read, what was collected is its low groups; at an instruction,
  as many instructions as there are pieces were followed, each by the piece it asks for,
  and the position is where the next one starts (`Start`, by `Layout`); at the end they all
  were, and the delta is refused only if it does not fit the base or its own
  declaration (`Fits`). `CopyIsRead` is the core: the operands decoded from an opcode and the
  bytes it names are the offset and size of the copy, 65536 for none.

**Only model-checked.** Liveness under fairness (`AckedBecomesDurable`,
`PrintedTreeBecomesComplete`, `CommandsEnd`, `CloneEnds`, `InitEnds`), which the prover cannot do:
its temporal back end has no rules for `ENABLED`. Of the safety properties of the runs that
pass none is left to TLC alone.

## 5. Not modelled, and why

- *Power loss*: the program never syncs. The file system is taken to keep what was
  written to it; with a power loss anything may be left and nothing could be said.
- *Memory*: exhausted memory and failures inside zlib or curl. An exception nothing
  catches (a delta that declares a size no string can have, `reserve()`) is a
  run that dies, which `Kill` covers in the models that have runs; in `Delta` it is
  the status "terminated".
- *The file system beneath*: symbolic links, special files, permissions, case folding,
  and names with `/` or `..` in a tree: a name is one step of a path. The names of
  a directory are listed in one step, when its iterator opens; the system's own buffer
  may be refilled later, in a directory of many names. A file that was removed
  or replaced while a run reads it is not written to any more by others that have it
  open.
- *Reads that fail*: `ReadBinaryFile` tests `bad()` after the iterator has run to the end.
  Where the iterator throws instead, nothing catches it and the program ends as if
  killed: `FileError` is both, for either way the command is over and its hash not printed.
- *The texts*: `ExtractCommitTreeHash` is a function from bodies to trees in `Clone`; its
  search for "tree " is not modelled. Names, mail addresses, messages and dates of
  commits, the wording of errors and of output are left out, and the options are
  parsed by CLI11.
- *Modes*: any entry of a tree that is no directory is restored as a plain file, as in
  the code: an executable loses its bit and a symbolic link becomes a file with its
  target in it. `CheckoutIsTree` speaks of contents only.
- *The network*: a request is one step with an answer or an error. Chunks, redirects
  and TLS are curl's.
- *Unused or ignored*: `ZlibCompressFile` and `ZlibDecompressFile` have no caller; the
  size in the header of a record is thrown away, so only its form is in the model; the
  checksum of a pack is never verified by the code.
- *`Init` inside a clone* is one step of `Clone`; its own steps are `InitRepository`'s.
- *The tests and the build*. The cases of the tests are inputs of the instances.

## 6. The plan, and what it has left

The order was: the store, since all else rests on it; its abstract contract; the
commands that share it; the pack; the bytes; the clone that composes them; `init`.
All of it is there, and so are the proofs of all safety properties. What could still be
added, in this order:

1. The steps liveness rests on, as safety: that a measure of the work a run still has
   (names to yield, pieces to write, records to unpack) falls with each of its own steps.
2. `Init` step by step inside `Clone`, to see two clones make one repository.
3. `ExtractCommitTreeHash` as a search over the lines of a body, to state when a
   message may be taken for a tree.
4. A model of power loss, with writes that are lost or reordered, to say which
   flushes would be needed: a proposal for the code and not a property of it.
