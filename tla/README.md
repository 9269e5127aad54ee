# credbox in TLA+

A verification development for credbox (`src/src/credbox`), a Python library
and command line that keeps the secrets of programs: in a JSON file, in an
encrypted file, or in the keyring of the operating system. The modules model
the part of it that several threads, processes and failures meet in: the lock
around a store, the read-modify-write of a store file and the atomic write under
both, the encrypted store, the keyring with its fallback file, the lookup of a
secret in several stores, and the lock of a job that runs once at a time.

## The system

| Part | Code | State | Operations | Correct when |
|---|---|---|---|---|
| Store lock | `backends/_store.py`, `_oslock.py` | one `threading.Lock` per store in a weak registry; an OS lock on `<store>.lock`; the stores whose degradation was announced | `exclusive_store_lock` | one writer per store at a time, or a user was told otherwise; nothing stays locked |
| File backend | `backends/file.py`, `_storecodec.py` | `credentials.json`, a map from names to values | `get`, `set`, `unset`, `names` | each call takes effect once, at one instant; no key is lost; a file that does not parse is never replaced |
| Atomic write | `atomic.py` | the target, temp files next to it | `write_bytes_atomic` | the target is one whole version at every instant, also after a loss of power; what was acknowledged is durable; no temp file stays |
| Keyring backend | `backends/keyring.py` | the OS keyring, a file fallback, one warn-once flag | `get`, `set`, `unset`, `names` | a keyring that fails is never answered from the file; after a successful `set` or `unset` that the keyring took no older copy is readable |
| Encrypted backend | `backends/encrypted.py` | `credentials.enc`; whether Argon2id works | `get`, `set`, `unset`, `names` | as the file backend; what cannot be read is never replaced; each bad blob ends in the right error |
| Credentials | `credentials.py` | none | `secret`, `require`, `set`, `unset` | the tiers are consulted in order; a value that stands is found whatever others write |
| Single instance | `locking.py`, `runtime.py` | a lock file in the runtime directory, an open handle | `FileLock`, `single_instance` | one body at a time; what `acquired` says is true; the lock becomes free |
| Relocation | `relocation.py` | a store at an old or a new path | `relocate_once` | a second call finds nothing to do, and none is overtaken |
| Permissions | `permissions.py` | modes of files and directories; warned paths | `restrict_dir_to_owner`, `ensure_private_dir`, warnings | a private directory is the user's own; one warning per path |
| Paths and layout | `paths.py`, `layout.py`, `environment.py` | the default layout, the environment | `config_dir` and its siblings, `set_default_layout` | one store has one path during a call |
| Scrubbing | `scrub.py` | an exception and those it refers to | `scrub_exception` | every node is visited once, on cyclic graphs too |
| Git helper, command line | `gitcredential.py`, `cli.py` | none | one operation per process | sequential use of the parts above |

How they interact. `Credentials` calls a backend. `FileBackend` and
`EncryptedFileBackend` do each write inside `exclusive_store_lock` of their own
store: they read the whole map, change it, and hand it to `write_bytes_atomic`.
Readers take no lock: they rely on the rename. `KeyringBackend` calls the keyring
first and its fallback second. Processes share only the file system and the
keyring; threads also share the weak registry of locks, the warn-once sets and
the default layout.

What is hard to test. The interleavings of threads and processes in the store
lock, with locks that only some of them obtain; KeyboardInterrupt between two
statements; a process that dies in the critical section; a failed step after
which others still run; a loss of power between the write, the rename and the
directory sync; a path that changes under a call. `PROJECT.json` lists these
hazards by line, with the property that covers each.

## Modules

| Module | Models | Role |
|---|---|---|
| `StoreLock` | `exclusive_store_lock`, `lock_exclusive`, `unlock`, `restrict_dir_to_owner` | component |
| `FileStore` | `FileBackend.set` and `unset` inside that lock; EXTENDS `StoreLock` | composition |
| `SecretStore` | what `set` and `unset` promise to their callers | abstract |
| `AtomicWrite` | `write_bytes_atomic`, `_replace`, `_fsync_dir` | component |
| `AtomicReplace` | what `write_bytes_atomic` promises | abstract |
| `KeyringStore` | `KeyringBackend` with and without its fallback, beside users of the file alone | component |
| `Credentials` | `secret`, `set` and `unset` over those backends; EXTENDS `KeyringStore` | composition |
| `EncryptedStore` | `EncryptedFileBackend`, the KDF probe, `_warn_if_permissive` | component |
| `SingleInstance` | `FileLock`, `single_instance`, `runtime_dir` with `ensure_private_dir`, and `relocate_once` under them | composition |
| `StoreLockProofs` | theorems about `StoreLock` | proofs |
| `FileStoreProofs` | theorems about `FileStore`: types, lost updates, outcomes, that it implements `StoreLock` | proofs |
| `PromiseProofs` | `FileStore` implements `SecretStore` | proofs |
| `KeyringProofs` | what every step of a backend preserves | proofs |
| `CredentialsProofs` | theorems about `Credentials`: what is replaced, announced and found | proofs |
| `SingleInstanceProofs` | theorems about `SingleInstance` | proofs |
| `AtomicWriteProofs` | theorems about `AtomicWrite`, among them that it implements `AtomicReplace` | proofs |
| `EncryptedProofs` | theorems about `EncryptedStore`, among them that it implements `SecretStore` | proofs |
| `MC` and the name of a component | small instances of `StoreLock`, `FileStore`, `AtomicWrite`, `Credentials`, `EncryptedStore`, `SingleInstance` | for TLC |

### StoreLock

A thread is at one statement of `exclusive_store_lock` (`phase`). `threadLock` is
its strong reference to a lock object, `owner` who acquired the object last,
`registry` the weak dictionary of each process: `Collect` drops an entry that no
thread refers to, and the heap cell may be used for a new lock. `flock` is the
holder of the OS lock of a store. It belongs to the open file of one call, so
the threads of one process exclude each other on it too. `locked` and `warned` are
the variables of the code. `announced` is history: the stores whose degradation
somebody was told, by the notice on stderr or by the exception that a failing
print raises. `dir` is what a store's directory is: missing, private, or open to
others.

An action is one statement: `Enter` (`_thread_lock_for`, whose guard makes it
atomic), `AcquireThreadLock`, `OpenLockFile` (with `restrict_dir_to_owner`),
`TakeOsLock` and `RefuseOsLock` (`lock_exclusive`), `RecordWarning` and
`PrintWarning` (the notice is recorded under a lock and printed outside of it),
`LeaveBody`, `Unlock` (the inner `finally`), `ReleaseThreadLock` (the outer one).
Faults are actions or choices enabled by `LockFaults`: a directory that cannot be
made, a lock file that cannot be opened, `ENOLCK`, a stderr that is closed, an
unlock that raises, KeyboardInterrupt where a handler covers it and in the two
gaps where none does, and the death of a process. One exemption: a KeyboardInterrupt in the
print of the notice (`InterruptNotice`) leaves the store recorded and the notice
cut short. The model counts it as announced, to the user who interrupted it; without that
`StoreExclusion` would not hold of the code.

### FileStore

Every action of `FileStore` is an action of `StoreLock` with what the body does
at that point, or a step inside the body. `stage` is the statement of the
body, `loaded` the local `secret_value_by_name`, `request` the name and the value
(None for `unset`), `outcome` the exception on its way or "ok". `ModeNoticeFails` is a
warning about the file's mode, in `_load`, that cannot be printed. `place` is the path
that `self.path(app)` evaluates to in a process: the code evaluates it for the lock,
in `_load` and in `_save`. `Relocate` is a switch of the layout, at any moment with the fault
"relocate". With "configure" it comes `BetweenCalls` only: that is an assumption about the
programs, to be found in no line of `layout.py`, which lets a thread switch
under the call of another. A store file holds a map, nothing
(`Absent`), or something `parse_store` rejects (`Malformed`). Value data is abstracted to whether UTF-8 can encode it:
one value that cannot fails the save of the whole map. The read and the rename are
atomic here because `AtomicWrite` shows that they are. A writer saves into the
directory as `restrict_dir_to_owner` has left it, open to others or not.

`KeepsPromise` maps it to `SecretStore`, for one store chosen by `Observed`: the
store is the content of the file, a call takes effect at the rename, or at
`_load` when there is nothing to remove.

### AtomicWrite

One action per system call of `write_bytes_atomic`, for several calls on one
target. `renames` is the list of versions the target has had, `durable` how many
of them a loss of power cannot take back, `synced` the versions whose bytes were
fsynced. `LosePower` keeps a prefix of the renames from `durable` on, any of the
names of temp files, and of a file that was not synced anything. `InterruptGap` is a
KeyboardInterrupt where no handler covers the temp file, which `NoDebris` exempts. `platform`
distinguishes POSIX, POSIX on a filesystem that cannot sync a directory, and
Windows, where a rename over a file that a reader has open is denied and retried.
`KeepsPromise` maps it to `AtomicReplace`.

### KeyringStore

A call of `get`, `set` or `unset` asks the keyring first and the file second, in
two steps, with the three outcomes of `_try_keyring_get`, `_try_keyring_set` and
`_try_keyring_delete`: `RingAnswers`, `RingIsEmpty` and `RingWrites` are "ok",
`RingFails` is "failed" (the write may have reached the keyring nonetheless),
`RingIsAbsent` is "no_backend". A keyring may do another one in every call.
Without a keyring the call passes `_warn_keyring_fallback_once`: `CheckWarned`
outside the lock, `RecordWarned` under it, `PrintNotice` outside again. A call of
the file backend is one step, since `FileStore` is proved to implement
`SecretStore`. An `unset` is a write of `None`. A stored string of whitespace
(`Blank`) counts as no value, as in `normalize_secret_value`; only other programs
put one in the keyring. A PasswordDeleteError is taken for what the code
takes it for, a name that was not there: a keyring that raises it and keeps the value is
not in the model.

`notice` is history: whether the print of the notice has been "given" or "cut" short, by an error or
an interrupt. `AnnouncedOnce` takes a notice that was cut short for the end of the matter, as the code
does: the caller of that print saw the exception, and nobody prints it again.

Three more history variables state what a write replaces. Every `set` stores a value
that nobody has stored before (`issued`); `before` holds the values of calls that
had ended when a write began; `dead` collects them when the write ends well.
Values of calls still in progress are not in it: their order with the write is open.

### Credentials

`secret` is a sequence of calls of `get`, one for each of `Tiers`: the shared
stores in order and the own one. `CallSecret` is the first of them, `NextTier`
each other one, and between two of them other callers run. The order of
keyring and file inside a store is that of `KeyringStore`. `standing` holds the
places whose value has not changed since the call began, `blind` the stores it
asked while there was no keyring, `somewhere` whether any place held a value at
every instant: history, kept by `Watch` in every step. `CallWrite` is `set` or
`unset` on one of the stores in `OwnOf`.

### EncryptedStore

Cryptography is symbolic: a key is a passphrase and the costs it was derived
with, a box opens with its key and its associated data only. A header carries the
version, the costs and the application; `TryDecrypt` follows `_try_decrypt`
through the version, the clamped costs, the KDF, the tag and the
binding to the application, in this order. A process has a build without Argon2id, one
that derives keys with a single lane only, or a whole one: `Derive` depends on the clamped
costs as well as on the build, so that a blob may open where none can be written. `CheckKdf` and `Probe` are the
two tests of `_ensure_kdf_available`. The warn-once check of the file's mode is
`CheckMode`, `Record` and `PrintNotice`. Of `exclusive_store_lock` there is only whom it lets in
together (`Lock`, `lock` is the set of threads inside): nobody, or, with the fault "oslock", threads of
different processes, when the OS lock cannot be had and the thread locks alone exclude.
How that comes about, and who is told, is in `StoreLock`. Reading and renaming are atomic, as
`AtomicWrite` shows. `WriteFails` may come
before the rename or after it. `KeepsPromise` maps it to `SecretStore`: a blob that no caller of
the application can read counts as malformed, which that module says is never replaced.

### SingleInstance

Jobs take a `FileLock`, relocate a store and release the lock, over and over.
`place` is where a job's runtime directory is: under `XDG_RUNTIME_DIR`, whose parent
is trusted, or under the system's temporary directory, where `OtherUser` makes
entries as long as nothing of ours is there (or its parent is open to others). `Start`,
`MakeDir`, `CheckDir` and `ChmodDir` are `ensure_private_dir` on each of the one or two
levels; `OpenLockFile`, `TakeLock` and `RefuseLock` are the rest of `acquire`;
`ClearHandle` and `CloseFile` are `release`, which clears `_handle` before it unlocks.
`CheckOld`, `MoveOld` and `MoveFails` are `relocate_once`, whose test and rename are two
steps. Only the old path is in the state: what is at the new one is replaced (`relocation.py:25-26`)
and makes no difference to any call. `EnterAgain` is a second `with` statement on a lock that is held; its exit
releases the lock (`inner` becomes "closed"), and the rest of the outer body runs without it.
`Kill` ends a job anywhere and frees what it held. `Interrupt` is a KeyboardInterrupt that a handler
sees. `InterruptGap` is one that none sees: after `lock_exclusive` and before the `try`, where
`_handle` may be set or not, or in the `finally` before `release` has done its first step. The lock
then stays with a file that only the exception's frames refer to, until `DropFrames`.

## Runs

| Run | Instance | Shows |
|---|---|---|
| `store_lock` | 2 threads of one process and 1 of another, one store, 2 lock cells, all faults; fair | type correctness, who may be in the body together, that the registry keeps the locks in use and the OS lock is freed, and that a waiting writer gets in |
| `file_store_promise` | the same threads with a `set` of `a`, an `unset` of `a`, and two `set` of `b`; the lock works, everything else may fail | the map a writer is about to save is never stale; `set` and `unset` implement `SecretStore` |
| `file_store_degraded` | one thread in each of 2 processes, which sets a name of its own, two stores between which the processes switch from call to call, 2 lock cells; directories, lock files, flock and stderr fail for some of them, interrupts (no deaths: they add states, not ways to degrade) | an update of a store is lost only after a user of that store was told |
| `atomic_write` | 2 writers, 1 reader, 2 retries, all platforms and faults; fair | the target is whole, acknowledged versions are durable, nothing leaks, every step of a call brings it nearer to its end, every call ends |
| `credentials` | 2 callers, a shared and an own store, one caller of `secret` with keyring and file, one writer with every kind of backend, two values, all faults | nothing replaced comes back, the notice is printed once and in time, and no value that stands is passed over |
| `encrypted_store` | 2 threads of one process and one of another with another passphrase, eleven kinds of files, three builds, all faults but "oslock" | own blobs open, errors are named rightly, the KDF is probed before use, one warning per process, `SecretStore` is implemented |
| `single_instance` | 2 jobs, both places, platforms with and without a lock primitive, nested or not, all faults; fair | exclusion, what `acquired` says, the checked directory, that no relocation is overtaken, and that every lock taken is freed |
| `store_lock_no_primitive` | no lock primitive, no faults | violation: see Findings |
| `file_store_unlock_raises` | only `set`, on files that can be saved; only the unlock fails | violation: see Findings |
| `file_store_loose_dir` | only `set`, on files that can be saved; only `restrict_dir_to_owner` fails | violation: see Findings |
| `file_store_relocated` | two stores, no faults, the layout switches | violation: see Findings |
| `credentials_rotation` | one store, both callers with keyring and file, a keyring that is absent at times | violation: see Findings |

Why the bounds are enough. Two threads of one process meet at the thread lock, a
third one in another process meets them at the OS lock; three are the fewest for
which one waits at each level while one is inside. Different stores share nothing
but the weak dictionary, in which they have separate keys, so one store is enough,
except for the runs in which a path changes. As many lock cells as processes times stores
are all that the registries can refer to at once; a freed cell is used again, and with
more, only names of cells change (`LockSymmetry`, not used for liveness). `file_store_degraded` has
two cells for two processes and two stores, so that a process may have to wait until the unused lock
of a store it has left is collected; its property is the same for both stores
(`PathSymmetry`). Two writers are enough there: what is in question is the OS lock that one of them lacks. Three initial contents
are the three kinds a writer can find: nothing, a map it cannot encode again, a file
that does not parse. Threads call for ever, so that every retry is in the model. In
`atomic_write` two writers are enough for one to rename or sync while the other
is between its own rename and sync. The code retries ten times; two denied
attempts and the last one meet a reader that closes in between and one that does
not. In `credentials` two stores have all relations of an order (before, after and
the same), and two values let one call replace what another stored. Since values are not used
twice, `Begin` stops when both have been stored: gets and `unset` go on. In `encrypted_store` the eleven files
are one for each way through `_try_decrypt` and `parse_store`, one for each clamp, and one with a single lane; three threads are the
two that share a flag of their process and one that cannot read what they write.
In `single_instance` two jobs are enough for one to hold what the other asks for,
in the same place or not.

Fairness. `FairLockSpec` assumes weak fairness of the next statement of each thread:
the interpreter and the OS run every thread that can run, and bodies end. No fault is
fair: a waiter cannot count on the OS to refuse the lock that it waits for. Nothing
stronger is assumed of waiting: neither `threading.Lock` nor `flock` is a queue, so
`SomeWaiterEnters` says that some writer gets in, not every one. It exempts
behaviours in which writers are killed or interrupted for ever, and the lock that a
KeyboardInterrupt leaks in the gap between `acquire()` and `try`.
`FairSingleSpec` assumes weak fairness of the next step of each job, deaths and
failures not included, nor `DropFrames`: nothing makes a program drop an exception.
`LockIsFreed` then says that no lock stays taken, also when the unlock raises, but the one of
a job that was interrupted in the gap.
`FairSpec` of `AtomicWrite` assumes the same of a call; readers may keep the file
open for ever.

Each property has a seeded fault in the module it concerns (the definitions
marked so just before the definition they replace): a plausible mistake of the
code with which TLC finds the property violated.

## Findings

- `_oslock.py:68` returns True where there is no lock primitive, so
  `exclusive_store_lock` takes the store for locked and its notice is never
  printed. `_store.py:89-92` names this case among those announced on stderr.
- `_store.py:113-116` lets the OSError of a failing `unlock` out: a `set` that has written
  the map ends with it. `file.py` documents CredentialsError only;
  `FileLock.release` swallows the same error for the same reason.
- `permissions.py:172` swallows the error of a chmod that fails, so that `_save` writes into a
  directory that stays open to others, with no notice: the one that `exclusive_store_lock` prints is about
  the lock only. `file.py:51-52, 106-107` says that the directory has mode 0700 by then; the docstring
  of `restrict_dir_to_owner` promises a best effort. The file has mode 0600 all the same.
- `file.py:59, 89, 112` evaluate the path of the store three times in one call.
  When the layout or the environment changes in between, the map of one store is
  written over another store, without holding its lock.
- `keyring.py:69-81` asks the keyring and then the file, with nothing that holds the two
  together. A `set` without a keyring has put a value into the file; the keyring comes
  back, and a `set` moves the name to the keyring between the two reads of a `get`, which
  answers None for a secret that was stored at every instant. The docstring of `get` says
  "`None` when set nowhere".
- `locking.py:66-102`: the exit of an inner `with` on a `FileLock` that is already held
  releases it, so that the rest of the outer body runs without the lock. The class says
  that "the `with` body never runs unguarded" (lines 38-39) and that re-acquiring is
  safe. `EnterAgain` models it, and `RunsExclude` excepts these runs and no others: without
  the exception TLC finds it violated.

## Proofs

`StoreLockProofs` holds theorems of `LockSpec` for every set of threads,
processes, stores and lock cells, and every set of faults, from
`StoreLockAssumption` alone (threads belong to processes, None is none of the other
values).

The safety properties are not inductive: that two threads are not in the body
together follows from what they hold, and what they hold from the registry. The
inductive invariant (`LockInvariant`) is `LockInv /\ NoticeInv`. `LockInv` is the conjunction of

- `LockTypeOK`;
- `RefInv`: a thread outside refers to no lock, and a thread inside refers to the lock
  that its process has registered for its store (this is what the guard of `Collect`
  preserves);
- `OwnInv`: a thread between `acquire()` and `release()` owns the lock object it refers to,
  so no other thread that refers to the same object is there too;
- `OsInv`: the holder of an OS lock is in the body, or at the unlock, of that store;
  `locked` is true only there, and means that the thread holds the OS lock if the platform
  has a primitive.

`NoticeInv` says that a thread in the body without the OS lock has had its
store announced, and that each store in the warn-once set was announced or one thread of that
process is about to print the notice.

Each part is preserved by every action (`TypeStep`, `RefStep`, `OwnStep`, `OsStep`,
`NoticeStep`). `ThreadsExclude` (`SameProcessExclusion`) follows from `RefInv` and `OwnInv`;
`NoSilentSharing` (`StoreExclusion`) from all of them under the assumption
`OsLockPrimitive`, without which the property is false (the first finding).

`FileStoreProofs` builds on it. `LockStep` shows that every step of `FileStore` is a
step of `StoreLock` or leaves its variables alone; `StoreImplementsLock` is the theorem,
and every invariant of the lock carries over. `StoreInv` adds `StoreTypeOK` and
`CallInv`, which says what the local variables of a call hold at each statement (a
call in the body has no outcome yet, has taken effect exactly after the rename, and
has a map to write after `_load`). `PlaceInv` says that a call reads and writes the store
that it locked: it needs `"relocate" \notin IoFaults`, since with it the property is
false (the third finding). `SettledInv` adds `LoadedMapIsFresh` itself, which is inductive
relative to the others: whoever replaces the file while a call has a map to
write would be in the body with it, and by `StoreExclusion` the store is announced.
`UpdatesAreNotLost` follows, as the rename writes a map that is fresh.
`ErrorsAreNamed` confines the second finding: an OSError reaches the caller of `set` or
`unset` only where an unlock raises or a notice cannot be printed, whatever else fails.

`PromiseProofs` proves that `StoreSpec` implements `SecretStore`, for whichever store is
`Observed`. It assumes `LockWorks`: the platform has a primitive and none of the three
faults occurs that lead a writer past the OS lock. Then nothing is ever
announced (`QuietInv`), so that the map at the rename is always fresh. Under the refinement
mapping `Replace` is `TakeEffect`, `NothingToUnset` is `EffectAndDecide`, the
failures and the end of the body are `Decide`, returns and deaths are `End`, and
everything else, all steps on other stores included, is a stutter (`Hidden`). Failing
reads, writes, syncs, prints and unlocks, interrupts, the gaps and the death of processes
are all allowed.

`KeyringProofs` and `CredentialsProofs` hold theorems of `Spec` of `Credentials`, for any
callers, stores in any order, backends, values and faults. `CredentialsCallBackends` shows that what it
does to the stores is a behaviour of `KeyringSpec`, of which `KeyringInvariant` is proved:

- `HistoryInv`: no call in progress stores a value that counts as replaced, or as settled
  before some write. This is why nothing can bring such a value back, and it needs `before`
  as well as `dead`, because the first becomes part of the second.
- `RouteInv`: a write that the keyring took, on its way to remove the file's copy,
  still finds no value in the keyring older than itself, whatever others wrote meanwhile. With the file's
  copy removed this gives `SupersededIsGone` at the end of the call.
- `NoticeInv`: the flag is set if and only if one caller is printing or the print has ended, well
  or not, which a caller past `CheckWarned` relies on.

`StandingValuesAreFound` adds `SecretInv`: `StandingInv` (a place that stands holds a value) and
`ReadInv`, in which `Excused` says of a place that it does not stand or could not be
looked into. A place found empty is excused at once, and `ExcusedStays`: what stands
and what is visible only shrinks during a call. `ReadInv` says that a call has excused the
stores it has behind it, the keyring of the present one when it has come to the file, and
both when it ends without an answer.

`SingleInstanceProofs` proves the five safety properties of `SingleInstance` for any number of
jobs and any faults. `SingleInv` is the conjunction of `TypeOK`; `HandleInv` (which statements a
job can be at with its handle set or cleared); `HandleTellsTheTruth`, inductive relative to it;
`DirInv`, which says that a directory that was secured stays so, because others cannot
change what is in a directory that is private, and that the
upper level is secured before the lower one is looked at; and `FoundInv`, that a store
that a job has found is still there when it moves it. `RunsExclude` follows from the
second and third, and `SecondCallIsSafe` from the last: whoever
took the store away would be in the body, too.

`AtomicWriteProofs` holds theorems of `Spec` of `AtomicWrite`, for any writers, readers,
retries and faults on every platform. `WriteInv` is the conjunction of

- `TypeOK` and `AcknowledgedIsDurable`;
- `BytesInv`: at the fsync and after it, a version is whole; up to it, it is not among the
  synced ones;
- `SyncedInv`: what was synced is whole, and only synced versions are renamed or open in a
  reader. This holds because no call writes to a version that was synced: a version
  has one writer, which is past its writes by then;
- `NameInv`: a call that is about to rename has not done so before, and one that syncs the
  directory has, so that the `durable` prefix it makes contains it;
- `FdInv`: where a descriptor can still be open, and that it stays open after the end only
  with a KeyboardInterrupt.

`LosePower` is the hard step: it cuts the renames at some place from `durable` on and makes
anything of a version that was not synced; what is left is a prefix, so it
contains synced versions only. `NoDebrisIsLeft` and `CallsRunDown` are action properties. The
second gives the variant of a call: its statement and the retries that it has left.
`StepRunsDown` has each step of the call lower it, `NothingAdds` has no other action raise it. This is the
part of `CallEnds` that is safety: what remains is that a call does take its
steps, which is the fairness. `WriteIsAtomic` maps `ReplaceTarget` to the replacement,
the steps after which a call has ended to its answer, `LosePower` to the loss of what no call
was told of, and all else to a stutter.

`EncryptedProofs` holds theorems of `EncryptedSpec` for any threads, passphrases, builds,
initial blobs and faults, under `EncryptedAssumption` (threads have a process and a passphrase,
the markers are none of the data). `EncryptedInv` is the conjunction of

- `TypeOK`; `CallInv` (what the locals of a call hold at each statement); `LockInv` (a
  `set` or `unset` between its two ends is inside the lock, alone if the OS lock can be had);
- `BuildInv`: the flag of a process is set only on a build that has Argon2id, is set
  wherever a call is past the probe, and whoever comes to the write has derived a key;
- `FreshInv`: if the OS lock can be had, the blob that a writer has read is the one in the file, and the map it is going
  to save is its own change of what the file holds, which counts as a map;
- `AuthorInv`: the blob of a credbox call carries this version, the costs for writing and
  this application, in the header and in what it is bound to;
- `VerdictInv`: with DecryptionError on its way, `_try_decrypt` said `FAILED` of what was read;
- `NoticeInv`: who went on to print had recorded the path, and no two threads of a
  process did.

`OwnBlobsStayOpen` needs, besides `AuthorInv`, the lemma `ClampKeepsWriteCost`: the bounds on
the costs leave those of `_encrypt` alone, so that the key derived from the header is the one
the blob was sealed with. `EncryptedKeepsPromise` assumes that "oslock" is not among the faults, since
without the OS lock the map a writer saves may be stale, as in `FileStore`; the other theorems
hold without it. In its proof `SealedIsOurs` and `OpensOnlyOurs` relate what
opens to the abstract store: a blob opens for a caller only if it counts as a map
there, so that a write that follows never replaces a store that its caller cannot read.

Only model-checked: `SomeWaiterEnters`, `CallEnds` and `LockIsFreed`, since the prover
has no rule for liveness under fairness or for ENABLED. Every other property that a run
finds to hold is proved, under the assumptions named above. No module
declares a RECURSIVE operator. What a recursive function computes for all inputs would
need induction theorems that the installed provers cannot instantiate; no
theorem here depends on one.

## Not modelled

The contents of messages, JSON and paths; file modes other than those of the store's
directory, the runtime directory and the encrypted file; the Git helper and the
command line, which are sequential; value classes, factories and errors, which have
no state a step could get wrong. `scrub_exception` is a sequential walk with a set of
visited nodes. In `Credentials`, an override or a variable of the environment answers
before any store is asked, and `require` only raises on None. `names` reads as `get`
does. In `EncryptedStore`, salts and nonces are fresh and travel with the blob, and
the path of the store stays the same during a call (what happens otherwise is shown in
`FileStore`, where the same statements are). In `SingleInstance`, nobody removes
our lock file or directories: cleaners of temporary directories are outside of the
code; what is at the new path of a relocation is not in the state, and relocations that no lock guards
are not run. What `_warn_if_permissive` returns (`permissions.py:82`) is not used by a store, and not
modelled. Windows is modelled in `AtomicWrite`; in `StoreLock` its ten-second lock timeout is
part of waiting.

## Plan

1. `Scrub`: the walk of `scrub_exception` as a worklist over any finite graph, with the
   theorem that each node is visited once.
2. What `LockIsFreed` and `SomeWaiterEnters` rest on, as `CallRunsDown` does for `CallEnds`: a
   variant for the statements of a job and of a thread in `exclusive_store_lock`.
