# cifra: models, checks and proofs

TLA+ models of `cifra`, a secrets manager whose vault (`.cifra/`) lives in a
Git repository: secrets are sealed for the public keys of the vault's
recipients, and members share them with `cifra push` and `cifra pull`. The
modules are translated from the Go source under `src/`; `PROJECT.json` names
the lines behind every definition.

## Inventory

| Component | State | Operations | What is hard |
|---|---|---|---|
| Secrets store (`internal/vault`: secrets.go, merge.go) | entries, one per (name, kind), each with a timestamp and recipient ids | Upsert, Delete, MergeStores | three-way merge that must undo neither side; versions identified by a timestamp |
| Store file (`SaveStore`, `LoadStore`) | `secrets.enc`, `secrets.enc.tmp` | atomic replace | kills, failures and power losses between system calls; two writers |
| Team sync (`push.go`, `pull.go`, `internal/git`) | working tree, HEAD, remote branch of each clone | rewrap, commit, push; fetch, clean, merge, resolve, abort | members interleave; rejected and retried pushes; conflicts; uncommitted files |
| Recipients and identities (`recipients.go`, `key.go`, `init.go`) | `.cifra/recipients`, OS keychain | init, key new / import / export / delete | the list, the keychain and the sealed entries change apart |
| Secret commands (`add`, `set`, `rm`, `rotate`, `import`, `data store`) | the store | load, change, save | no lock between load and save |
| Crypto envelope (`internal/crypto`) | none | Seal, Unseal, Rewrap | which keys open what |
| Key-unlock agent (`internal/agent`, `cmd/cifra/agent.go`, `keychain.go`) | key cache of a process, a socket | unlock, get, lock, stop, sweep, spawn | goroutines over shared buffers; processes that replace each other; expiry |
| Keychain (`internal/keychain`, `key.go`) | blobs by id | Seal, Unseal, Delete, Reseal | delete-then-seal with failures; two passphrase prompts; commands at once |
| Audit log (`internal/audit`) | hash chain in a file | AppendEntry, VerifyChain | concurrent, failing and killed writers |
| Protected paths (`internal/protect`, `protect.go`) | list of patterns | add, remove, encrypt | readers during a rewrite; plaintext removal |
| Claude Code hooks (`internal/hook`: preuse, postuse) | none of their own | decide on a tool call and log it; mask secrets in its answer | the list is read while it is rewritten; values that overlap, or contain a mask |
| Git hook installer (`internal/hook/git.go`) | the pre-commit file | install, upgrade, uninstall | exact restoration of a file the user edits too |
| Scanner (`internal/scan`, `scan.go`) | position in a diff | ScanDiff, ScanFiles, verdict | its idea of file and line against git's; what it silently passes over |
| MCP server (`internal/mcp`, `mcp.go`) | standard input and output | read, dispatch, call a tool, answer | tools that print to the stdout of the protocol; notifications |
| Secret readers (`run`, `cat`, `export`) | none | load, open, give out | the store changes between their reads |
| uninstall (`uninstall.go`) | hook, keys, vault | remove each | failures and kills half way: the vault is the only list of the keys |
| list, status, diff, doctor, agent-check, ui | none | reading, formatting, wiring | nothing a model would add to |

Interaction. A command reads recipients and store from the working tree, asks
the agent and then the keychain for the private key, and saves the store. `push`
re-wraps what the recipient set requires, commits `.cifra/` and pushes; `pull`
fetches, removes untracked files of `.cifra/`, merges, and resolves a conflict
of `secrets.enc` entry by entry. The pre-commit hook runs the scanner. The MCP
server runs the same commands in its own process, one after another. Claude
Code starts a process of `cifra hook` for each tool call: it reads the protected
paths, or opens the store, and appends to the audit log. Nothing locks any of
these files, and the members meet only at the remote branch.

What makes each component correct:

- store: at most one entry of a slot; a merge without conflict keeps every
  change of both sides, and tells who loses access;
- store file: a reader finds all of one save; a result reported is true;
- team: what is pushed is sealed for the recipients pushed with it; a sealed
  secret disappears only by a member's own replacement or removal;
- agent: it answers with the latest unlocked key exactly while its ttl lasts, a
  lock forgets what came before it, every key leaves memory in the end;
- commands in one clone: a save changes only what its command is about; what is
  sealed is sealed for the recipients of now; a plaintext that goes is in the
  store (each up to what another command did in between, since nothing is locked);
- keychain: an id never ends without a key unless its owner deleted it, and a
  reseal half done leaves a copy that opens;
- audit log: an entry follows the last one that can be read, behind incomplete
  lines too; what verifies is complete, and what does not was damaged or forked;
- protected paths: a pattern that was added and not removed is enforced, and one
  that was removed denies nothing;
- masking: no secret that the key opens is left whole in an answer;
- git hook: an uninstall gives back what the install found; the user's lines stay;
  an installed hook runs the block of this release;
- scanner: what a rule matches is reported, where it is; success means clean;
- MCP server: one answer to each request, in order, and nothing else on stdout;
- uninstall: success without a warning leaves no hook, vault or key.

## Modules

| Module | Models | State and actions |
|---|---|---|
| `VaultStore` | store, envelopes, re-wrap, merge, as operators | a store is a set of entries; an envelope is the keys its data key is wrapped for (`wraps`) and the data key (`dek`); `mergeEntry` is the case table of merge.go |
| `StoreMerge` | two histories of one store that fork | `fork`, `side`; `SideSeal`, `SideRemove`, `SideRewrap`, `SideAdopt` |
| `TeamVault`, `MCTeamVault` | clones, keychains and the remote branch | `origin` is the sequence of trees pushed; per member `work`, `head`, `base`, `fetched`, `keychain`, `pc`; one action per command, `push` in three steps, `pull` in three, `GiveUp` for errors and kills in between |
| `SaveStore`, `MCSaveStore` | the system calls of SaveStore over a file system | names (`dir`, `diskDir`), inodes (`data`, `flushed`), descriptors; one action per call, `SaveFails`, `Kill`, `PowerLoss` |
| `AtomicFile` | the abstract file SaveStore implements | `store`, `durable` |
| `MCVault` | `TeamVault`, `StoreMerge` and `SaveStore` beside one another, for one run | `part` says which of them a behaviour is one of |
| `Agent`, `MCAgent` | agent processes, their goroutines, the socket, the commands | `life`, `cache`, `erased` per process; `pc`, `hit`, `held` per command |
| `KeyCache` | the abstract cache the agents implement | `live`, `hit`, `now` |
| `Clone` | the commands of one working copy, at once: add, import, data store, rm, rotate, the re-wrap of push, protect encrypt, run, cat, export, and the MCP server's | `disk`, `recips`, `file`; per process `job` (what it has read, and the steps it has left) and `done`; one action per kind of step (`loadRecipientKeys`, `LoadStore`, `readFile`, `loadCurrentUserKey`, `SaveStore`, `removeFile`, `Emit`, ...), `Abort`, and changes from outside |
| `Keychain` | key new, delete and reseal, over the two OS stores | `items` by id and staging id, `rows` of recipients; per command `pc`, `plain`, `typed`, `verified`; one action per call of the store, `Stop` for an error or kill |
| `AuditLog` | appends to the hash chain, verify | `log` write by write; `AppendEntry` reads the last hash, `AppendLine` writes, whole or cut short |
| `Guard` | protect add and remove against the preuse hook, with `AuditLog` as an instance | `lines` of the file; editors truncate, write line by line and report; hooks decide, log and answer, and let pass what they cannot judge |
| `Postuse` | the masking of tool answers | `loadVault`, `findMaskingKey`, `loadSecretsForMasking`, each of which may let the answer through as it is; then one secret replaced per step, in texts of a few atoms |
| `GitHook` | install, upgrade, uninstall of the pre-commit block | `file` as a sequence of pieces, with the user's edits, and a truncation apart from the write |
| `Scanner` | ScanDiff, ScanFiles, the verdict | git's place in the diff (`file`, `next`) beside the scanner's (`currentFile`, `lineNum`); what is `due` |
| `Uninstall` | uninstall beside other commands | `hook`, `vault`, `rows`, `held`; one action per thing removed |
| `McpServer` | the loop of `cifra mcp serve` | lines `sent`, `read`, and what came out on `stdout` |
| `Machine`, `MCMachine` | the nine modules from `Clone` to `McpServer`, beside one another | `part` says which of them a behaviour is one of |
| `VaultStoreProofs`, `StoreMergeProofs`, `TeamVaultProofs`, `SaveStoreProofs`, `AgentProofs`, `CommandProofs`, `MachineProofs`, `GitHookProofs` | lemmas and theorems | |

`TeamVault` extends `VaultStore` with the clones; `StoreMerge` checks the same
operators on more varied histories than a team of two produces. `Clone` takes a
save as atomic, which is what `SaveStore` is shown to implement, and `Guard`
instances `AuditLog`. Operators named as mutants in a module are altered versions
of an action or helper; they are not part of any specification.

`Machine` puts the parts of one machine that share no state into one
specification: the next step of a behaviour is one of its part, the variables of
the others stand still, and `PartsTypeOK` checks that they do. A property of a
part is then `part = "guard" => Gu!ProtectedIsBlocked`, which TLC checks in one run
for all parts (`MCMachine` gives the bounds) and TLAPS proves from an invariant of
that part alone.

### What the team model takes for granted

- `UpdatedAt` values are distinct (the clock of `time.Now()` has nanoseconds);
  in `StampsIdentify` this is what is left to check after re-wraps, which give
  one stamp to several entries, and merges, which spread them.
- One command runs at a time in a clone, and runs to its end except in `push`
  and `pull`. Two commands in one clone are what `Clone` is about.
- Git: a push is taken when HEAD contains the tip of the branch; a merge is
  refused when a file it writes has uncommitted changes; `secrets.enc` merges as
  text only where the entry-level merge agrees, since two versions of one entry
  differ in their `updated_at` line; lines added to `recipients` on both sides
  conflict. The history of the remote is a line, so the merge base is the last
  tree merged or pushed. The index is not apart from HEAD, and the merge,
  its resolution and its commit are one step.
- `config` is written with `recipients` and stands with it. `init --force`, which
  rewrites only `config`, is left out. `rotate` refuses a name whose first entry
  is a file; the model has no order of entries and lets it rotate.

### What the other models take for granted

- Ciphers and hashes are perfect: a blob opens with its key or passphrase alone,
  and no two entries of the audit log have one hash.
- Each rename, `O_APPEND` write, truncation and keychain call is one step; what
  the kernel or keychain does inside it is not divided. A write may fall short
  where that leaves something a later reader meets.
- Which pattern matches which token, and which rule which line, are parameters.
- `Clone` has one user, whose key is in the keychain; what the commands ask him
  is answered. In `Uninstall` and `Keychain` the answers are choices.
- Where the code's promise fails in a known way (two hooks fork the audit log, an
  add overwrites another's save, a hook reads a list that is being rewritten), the
  property names that way and claims the rest; the hazard it is listed under in
  `PROJECT.json` has a note that says which part of it is such an exception. Ghost
  variables such as `touched`, `overlap`, `forked`, `disturbed` and `excused`
  record it. No step of the program reads them; in `GitHook` the user edits no more
  after an `excused` step.

## Runs

| Run | Result | What it shows |
|---|---|---|
| `vault` | holds | 14 properties of the team (two members, an env and a file slot of one name), the merge (it is the three-way merge, keeps both sides, announces dropped access) and the save (whole, true to its result, an atomic file) |
| `machine` | holds | 21 properties of the nine parts from `Clone` to `McpServer` |
| `protect_access` | violated | a file sealed and deleted by `protect encrypt` is read by no command |
| `hook_mode` | violated | an install leaves a hook that is not executable as it is |
| `audit_fork` | violated | two hooks at once: an entry does not chain from the last one |
| `team_keys` | violated | entries stay wrapped for a replaced key |
| `team_onboarding` | violated | the documented first pull of a teammate is refused |
| `save_shared` | violated | two saves at once publish an empty store |
| `agent` | holds | the agents are a cache of keys; locks and expiry do what they promise |
| `agent_race` | violated | a get answers with cleared bytes |
| `agent_renewal` | violated | an unlock needs no human while the key is cached |
| `agent_twins` | violated | two agents started at once, one out of reach |

Bounds. In `vault`, the team starts either without a vault or in one that two members share,
and lets three edits or re-wraps, three key pairs and three pushed trees happen
between them: enough for both to edit one slot, for one to be rejected, to pull,
merge and push again, and for a recipient to be removed or re-keyed in between.
The merge is of two histories with three seals or re-wraps between them, and any
number of removals and adopted entries, of two slots: every case of the table needs
one edit of a slot on a side. The save has three saves of
different lengths and five inodes: a long file left by a killed save under a
shorter one, then a third. Of a part that does not run, the variables stand in an
initial state, so that the run is the sum of the three. `agent` has two processes and three commands, each of
any kind: an unlock, a lock or stop or second unlock, and a get, with a clock of
three ticks that lets both a short and the default ttl run out. `MaxClock`,
`MaxKeys`, `MaxTips` and `MaxStamp` are the bounds; deadlock is not checked,
because everything stops at them.

`machine` has the following. Keychain: two commands, keys and passphrases, on
either store, which is a reseal that fails anywhere while a key new or delete
comes between. Clone: two members, an env name and a file, two values, a command
and the server with one more, and one change from outside; the steps of the two
then interleave in every order. Git hook: two lines of the user's and
one edit, over the hook as each release left it; installs, uninstalls and kills go
on without bound. Scanner: two files of two lines, of four names (plain, ignored,
`.env`, quoted by git). Uninstall: two identities, any number of attempts. Audit
log: four appends, which is a fork, a line glued to an incomplete one, a removal
that closes the gap of the fork, and an entry behind them; `audit_fork` needs two. Guard: two
editors over two patterns, one hook, five calls (a file tool, three commands, an
unknown tool). MCP: two messages. Postuse: two secrets and an answer of up to two
atoms each, which is enough for one value to contain, overlap or equal another,
or its base64. Values of `Clone` are interchangeable, hence the symmetry. It has no deadlock
check either: commands end.

Fairness is assumed in `Agent` only: the clock goes on, the 30 s ticker fires
while an agent serves, a closed listener makes Serve return and the process end.
Go's runtime gives all four to a process that is not suspended. Nothing is
assumed of the commands. The other runs check no liveness: a member may never
push, and a command waits for nobody.

## What is proved

TLAPS checks the proofs for every value of the constants: any names, members,
slots, commands, processes and bounds. The assumptions are the named ones of the
modules (`SlotsAssumption`, `BoundsAssumption`, `ClockAssumption`,
`SavesAssumption`, `AgentAssumption`, `KeychainAssumption`, `CloneAssumption`, and
`MachineAssumption`, which gathers those of the other seven parts); TLC evaluates
them in the runs. `Exclusive` and `OneAtATime` are hypotheses of
theorems: without them the runs `save_shared` and `agent_twins` show the opposite.
The theorems of `TeamVault` are about histories from a repository without a
vault, for whose bounds there is no limit; the shared vault from which the run
also starts is where a few commands lead, with the ghosts set back.

| Module | Theorems | Argument |
|---|---|---|
| `VaultStoreProofs` | `MergeEntryIsThreeWay` | case by case: the eleven-case table of `mergeEntry` is the three-way rule, for entries whose stamps identify them |
| `StoreMergeProofs` | `TypeCorrect`, `IsThreeWay`, `KeepsBothSides`, `AccessIsWarned` | `MergeInv`: besides types, a stamp names one entry of a slot anywhere in the fork and the sides. Without this sameEntry is no equality and the table not the rule. Each edit takes the next stamp, a re-wrap one for all |
| `TeamVaultProofs` | `TypeCorrect` | inductive: Upsert, Delete, rewrapStore and MergedEntries return stores with unique slots (`VaultStoreProofs`), and a merge of recipients adds on one side only |
| | `RemoteIsSealedForItsRecipients` | `AgreeInv`: the property says nothing of a push under way, so it adds that one who has re-wrapped and not committed has a working tree that agrees with its recipients, and one who has committed a HEAD. Only `PushRewrap` establishes the first, `PushCommit` carries it over, `PushOrigin` publishes it |
| | `StampsAreVersions` | `StampInv`: no stamp in a tree of the remote, a commit or a clone is above the clock, and there a stamp names one entry of a slot. A save brings in entries with a stamp that nobody has (`FreshStamps`); a merge brings in what was in a tree before (`WithMergeKnown`) |
| | `PushKeepsSeals`, `MergeKeepsSeals`, `TrackedStay` | `LossInv`, over `StampInv`: a data key belongs to one slot (`DekInv`); what HEAD lacks of the tree it was last merged with, its member has retired (`HeadInv`), and so what the working tree lacks of HEAD (`WorkInv`); what the remote has lost since that tree, another has (`LineInv`). `MergeLosses`: a merge drops a data key of one side only if the other side dropped it after the base. A push takes `HeadInv` of its member to `LineInv` of the others, a merge back |
| `SaveStoreProofs` | `TypeCorrect`, `NeverTorn`, `ResultIsTrue`, `IsAtomicFile` (of `Exclusive`) | `Inv`: no name of `secrets.enc`, in memory or on disk, is the inode of the temporary file (`NamesApart`); what those names stand for is whole and flushed (`SecretsWhole`); what the one save under way has written is complete, then flushed, by its step (`SaveInv`). The rename is then the Replace of `AtomicFile` |
| `AgentProofs` | `TypeCorrect`, `IsKeyCache` | an agent not serving has an empty map (`Idle`), one waits only for what it asked (`Waits`); the mapping takes what has not expired for live |
| | `LocksForget` (of `OneAtATime`) | one agent at most serves, and a lock talks to it (`Single`, `LonePeer`); `Forgets` says what a lock under way has cleared |
| `CommandProofs` (keychain) | `TypeCorrect`, `CopyRemains`, `KeysStay`, `RowsFollow` | `CopyInv`: what a reseal's staged blob is after each of its steps. `AloneInv`, unless commands overlapped: what is under the id then. `RowsInv`: what the recipients file lists, unless one was cut short |
| `CommandProofs` (clone) | `SavesKeep`, `PlaintextStays`, `SealsFollow` | `CloneInv`: a type, and for each process `Good(job, p)`: the steps left are a tail of its command's (`Shape`); what it has loaded is what the disk has outside `touched` (`KnowsStore`, `KnowsRecipients`); what it has sealed, and stored, is so still (`SealedFor`, `HasStored`). Another's step either leaves what is known or marks it (`Marked`) |
| `MachineProofs` | `CleanIsClean` | `ListInv`: until the vault goes, every key held that was ever listed is in it; an `uninstall --keys` without a warning has it still to do (`todo`) |
| | `ScanReports`, `ScanBlocks` | `PlaceInv`: unless a line or name has made it lose count, the scanner's file and line are git's, and its file is none it passes over. What is `due` and what is in `matches` then grow by the same finding (`ScanGrows`) |
| | `McpAnswersInOrder`, `McpWritesFrames` | `AnswerInv`: while a tool that prints runs, `ui.Out` is the discarding one. `OutInv`: the answers are to lines already read, in order, and only the line of the tool that runs still lacks one |
| | `AuditChainHolds`, `AuditForksShow`, `AuditVerifiedIsComplete` | `LogInv`: an entry is in the log once, and its writer is past its write. `HashInv`: a writer is about to write the hash of the last line it has read; which lines parse depends on a line and its neighbours alone (`ParsesAt`), so an append spoils no line but the one it is glued to, and the last one read is still the last. In a log that loads, a line whose writer was not overtaken points at its neighbour or at a line that is gone (`GapInv`); while none is gone, a writer has read the lines up to some place (`SinceInv`), and a line points at its neighbour just if its writer was not overtaken (`LinkInv`), which makes a fork show for ever; in a log that verifies up to a line with no fork before it, that line's writer had read just what is before it (`SeenInv`) |
| | `GuardBlocks`, `GuardDeniesOnly` | `EditInv`, and unless two editors were at work at once or one was cut short `KeepInv`: the file is the list of one editor, up to where it stands. `JudgeInv`: what a hook that let a call through has judged it by |
| | `PostuseMasks` | `PostuseInv`: what was opened and passed is `Hidden` in the text. Replacing a value leaves none of it behind, since a mask is no atom of a value; and it brings no hidden value back, since what is new in the text is a mask |
| `GitHookProofs` | `HookRestores`, `HookKeepsLines`, `HookIsInstalled` | `HookInv`: the file, and what a command is about to write, is a text free of blocks or one block with text above and below (`HookSteps`, `Shaped`); unless edited or cut short it is what an install makes of the text it found, or that text (`RestoreInv`); the user's lines in it are `own` (`OwnInv`); since an install and until an uninstall or a kill, edited or not, the block in it, or in what the install is about to write, is this release's (`CurrentInv`). `LinesOf` of a concatenation is that of its parts, so what a strip, an install or an edit does to the lines is proved for any text |
| | `PartsKeepTypes` | `OffInv`: a part that does not run is as it began. `PartsInv`: the invariants above and what they leave out: `HookCounts`, `AuditRest`, `TrailInv` (a guard's log is of hooks that have written), `CallInv`, `MaskInv`, and `StoreInv` of the clone: a command that is going to seal has read a value and somebody to seal it for (`Ready`), so every store saved or held is of whole entries |

Every safety property that a passing run checks is proved, the action properties
and the two refinements included. Only model-checked is `KeysAreForgotten`:
liveness and ENABLED are out of the proof system's reach.

Two operators of `Postuse` are recursive functions, `Escaped` and `ReplaceAll`,
and the library's induction theorems, which take an operator as a parameter, cannot
be used on them. The proofs use `SetInduction` instead: a set that holds 0, and n + 1
with each n, holds all of Nat. It gives that a function with the defining equation exists
(`ReplacingExists`, `JoinsExists`), then what such a function leaves, keeps and brings
in (`Replaced`, `EscapedIn`). The other functions over sequences are not recursive in
the models: `LinesOf` is given by the places of the line ends, `Kept` by those of the
lines that parse.

## Findings

`PROJECT.json` lists them with the lines quoted. In short: push compares
recipient ids and not keys; the onboarding steps of the product's README end in
a refused merge; two saves share one temporary file; a get reads a key buffer
after it gave up the lock; `agent unlock` renews a cached key without a
passphrase; two agents started together leave one orphaned; a file that
`protect encrypt` has sealed and deleted can be read back through no command,
though it says that `cifra run` injects it; an install of the hook leaves a hook
that is not executable so, and reports success; two hooks at once fork the audit
log, which then never verifies again.

### Other places where the code is not what it says

Met while translating. The models do what the code does, and the properties
name these cases as exceptions where they touch them.

- `reseal.go:67`: the passphrase of the last Seal is the second prompt's, which
  nothing verifies; the staged copy with the verified one is then deleted.
- `key.go:81`: key new under an id that has a row with another key leaves that row.
- `keychain.go:56`: deleting or replacing a key leaves it in the agent until its
  ttl ends.
- `git.go:210`: stripping joins two of the user's lines when he has written after
  the block of a hook whose text before it does not end in a newline, against
  git.go:13-14. A hook that the install has made is such a one: a line written after
  its block ends up in the shebang's.
- `git.go:115`, `protect.go:115`: truncate, then write; a kill leaves it empty.
- `audit.go:65`: an append after an incomplete line is glued to it, and lost to
  every reader, though AppendEntry reports success; the entries after it are not.
- `preuse.go:43`: "Each blocked call is appended to the audit log", and the
  product's README (line 271) "records every access"; but blocked calls of
  `cifra cat`, `export`, `add` and `set` are not (preuse.go:99 and 112), nor is a denial
  whose append fails. No property claims that a blocked call is logged.
- `preuse.go:48-56`: a call or a list that cannot be read is let through.
- `postuse.go:35-36`: "returns nil (pass-through), logging the skip to the audit
  log", but no exit without a key or a vault appends anything.
- `postuse.go:53-56`: values are looked for in raw JSON, so one with a character
  that JSON escapes is not masked.
- `scan.go:231`: a line over 64 KB ends the scan without a word; `scan.go:255`:
  added lines that begin with `++` are skipped; names that git quotes are not
  recognised; a medium finding never blocks, though `cmd/cifra/scan.go:40` offers
  `medium` as a severity to block on.
- `macos.go:67`: Delete never returns ErrNotFound, so `uninstall --keys` stops
  at the first teammate's row, with a warning, and removes the vault, the list
  of the other keys, all the same; after an uninstall without `--keys` none is found.
- `mcp.go`: a `tools/call` without an id runs and is not answered; a rotate that
  was done may be answered with an error, when its summary cannot be read;
  `cifra_run` has no timeout, and nothing else is served while it runs.

## Not modelled

- list, status, diff, doctor, agent-check and the terminal interface read and
  format; `main`, wiring and memory locking keep no state the system turns on.
- Encodings (PEM, base64, JSON, dotenv), the expressions and entropy of the scan
  rules, glob matching, and the splitting of shell commands into tokens: data,
  which the models take by what it distinguishes.
- `init --force`, which rewrites only `config`; a ttl below a second, which
  becomes the default one (`client.go:123`).
- The erasure of copies of a key that the code does not track (`server.go:153`).

## Plan

What is left, in the order of its worth:

1. Git's index apart from HEAD, the merge of `pull` in its steps, with kills in
   between (`pull.go:60`, `sync.go:20`), as a refinement of `PullMerge`.
2. `writeRecipients` without fsync (`recipients.go:125`) as an instance of the
   system calls of `SaveStore`.
3. A shell command as tokens and stages, so that the preuse hook's splitting is
   checked too.
