# Verification of monotone

TLA+ models of the parts of monotone where order, failure and caching decide
whether history survives: the database, the netsync protocol, the merge of
rosters, and the workspace. TLC checks the models on small instances; TLAPS proves
the central results for every value of the constants.

## The system and its parts

| part | source (`src/src/`) | module | what is hard about it |
|---|---|---|---|
| revision store | `database.cc`, `rev_height.cc`, `cmd_db.cc` | `RevHeight`, `RevisionStore` | tables kept incrementally that must equal a recomputation; a cache that survives a rollback |
| file store, transactions | `database.cc` | `FileStore` | a full text is dropped because a delta exists; writes live in memory until the outermost commit |
| roster store | `lru_writeback_cache.hh`, `database.cc`, `roster_delta.cc` | `RosterStore` | a cache that writes back on eviction, in the middle of a transaction; single nodes read through deltas |
| branch heads | `project.cc`, `outdated_indicator.cc` | `BranchHeads` | cached answers that changes elsewhere make stale; two ways to compute them |
| merkle tries, refiner | `merkle_tree.cc`, `refiner.cc` | `MerkleTree`, `Refiner`, `RefinerTries` | leaves facing subtrees, counting of answers, termination |
| enumerator | `enumerator.cc` | `Enumerator` | every item after what it needs, in any graph |
| netsync session | `network/*.cc`, `netsync.cc` | `NetsyncSession` | failure at any point, sessions that share a transaction |
| buffers and framing | `network/session_base.cc`, `session.cc`, `reactor.cc`, `netcmd.cc` | `FlowControl` | partial reads and writes; two ends that both wait |
| rosters, csets, marks | `roster.cc`, `cset.cc`, `ancestry.cc` | `Roster`, `Marking`, `ScalarMarks`, `MergeHistory` | rosters rebuilt from paths; marks that decide merges many revisions later |
| roster merge | `merge_roster.cc` | `RosterMerge`, `MergeHistory` | nine kinds of conflict that meet in one tree |
| workspace | `work.cc`, `cmd_ws_commit.cc`, `cmd_merging.cc`, `restrictions.cc` | `Workspace` | a command killed between two file operations, then another command |

The parts meet in two places. A session refines (`refiner.cc`), enumerates
(`enumerator.cc`) and stores what arrives (`database.cc`); `NetsyncSession` composes
the three in the abstract form that `Refiner`, `Enumerator` and the store models
justify. A commit or an update works on rosters and merges; `Workspace` and
`MergeHistory` use the code of `Roster` and `RosterMerge`, and `RosterStore` that of
`Marking`. `BranchHeads` takes the table `branch_leaves` as `RevisionStore` shows it
to be.

`PROJECT.json` lists every part with its status, each definition with the lines it
translates, and the hazards at the lines where they bite.

## State and actions

An action stands for one handler, one database method, or one turn of a loop, with
everything it calls.

- `RevisionStore`: one variable per table (`revisions`, `revision_ancestry`, `heights`,
  `revision_certs`, `branch_leaves`, `branch_epochs`), the process's `height_cache`,
  and `disk`, the last commit. Actions are the database methods of the same names;
  `kill_certs_named` and `kill_certs_valued` are the two forms of `local kill_certs`;
  `CacheHeight` is a read that fills the cache; `Restart` loses the cache and the
  open transaction.
- `FileStore`: `store` is what the transaction sees, `saved` what is committed,
  `level` is `transaction_level`. `put_file`, `put_file_version`, `deltify_revision`, the
  guards, `Crash`, and `SetDirection` for the variable `delta-direction`. `PullSpec` is
  the same store fed only by pulled changes.
- `RosterStore`: `db` has the tables and the cache (`list` in the order of use, `dirty`),
  `saved` the tables as committed, `truth` the rosters that the history, chosen in
  `Init`, gives. `put_revision` makes the roster from those of the parents, puts it
  in the cache, evicts and deltifies; `ReadRoster` is any read through the cache.
- `TransactionalStore` (abstract): a set of items with begin, put, commit, checkpoint,
  rollback and crash. `FileStore` and `RosterStore` implement it (`KeepsPromise`).
- `BranchHeads`: the certificates, the `stamper` and the two caches of a `project_t`.
  Which certificates are trusted is arbitrary.
- `Refiner`: the members of `refiner` for each voice, and `net`, the commands on their
  way. A trie is given by its items. `RefinerTries` adds the tries of `MerkleTree`, built
  by inserting the items in any order, and `TriesExact` says that they show the same.
- `Enumerator`: the queues of `revision_enumerator` and the sets of `netsync_session`
  it consults; `held` is what the peer's database has accepted. The ancestry graph is
  chosen in `Init`. It implements `Delivery` (abstract), where a receiver is given one
  `command` after the other and has what each of them needs.
- `NetsyncSession`: `db` and `disk` per process (all sessions of the server share one),
  `end` per session and voice, `net`. Actions are the commands received, `Emit` (one
  item of the enumeration), and what the reactor does with an end that failed
  (`FlushError`, `SeeEOF`, `ServerQuiet`). A handler maps a *turn* (the end, its
  database, the commands it queues) to a turn. `Failure` is a broken connection, a
  timeout of the client, or a crash of the server.
- `FlowControl`: per end the queue of netcmds (`outbuf`, with the first one partly
  written), the bytes on the way and in `inbuf`, and the netcmd it is `armed` with.
  `ready_for_io` is what `reactor::ready` does with a session, `do_io` one round of
  `reactor::do_io`. The bytes of a netcmd are told apart by number and position, so
  that a framing error would show.
- `Roster`, `RosterMerge`, `Marking`: pure operators. An operation whose `I()` fails
  clears `ok` of the roster; a merge that runs into one is `failed`.
- `MergeHistory`: histories that grow by `Commit` and `Merge`. A new revision knows the
  roster it wants and stores the one rebuilt from its csets.
- `ScalarMarks`: one scalar of one node through a history of any shape. It is what the
  proofs are about; `MarksByRule` in `MergeHistory` shows that the rosters' names and
  contents go by it.
- `Workspace`: `revs` (the database) and `killed` (the revisions `local kill_revision`
  deleted from it, whose texts and rosters stay), `work` (`_MTN/revision`), `disk`, `held`
  (`_MTN/detached`), `resolutions`, and `ops`, the steps that the running command has
  yet to take. A command checks and computes its steps; `Stop` kills it, or ends it
  when a check of a step fails; `Edit` and `CleanUp` are the user's, between commands.
  What `pivot_root` moves out of and into the root goes in one step; the code moves
  the children of the root one by one, each of them whole.

## Runs

| run | states | shows |
|---|---|---|
| `revision_store` | 35,856 | heights order ancestry and are stable, the pruned ancestor search and `branch_leaves` are exact, in a fork and merge |
| `branch_heads` | 199,368 | every answer of `get_branch_heads` and the branch list is what the certificates give, cached or not, by either way of computing |
| `file_store` | 23,390 | versions stay readable, nothing is left pending, the store is a transactional set, with reverse or both kinds of deltas |
| `roster_store` | 87,680 | rosters read back as made, whole and node by node, through a cache of two, and keep the promise of a transactional set |
| `refiner` | 34,862 | nothing missed, nothing resent, counters balanced, counts agree, both ends finish; tries do not depend on insertion order |
| `enumerator` | 323,912 | every item is accepted when it arrives; the walk ends, with all sent once |
| `netsync_session` | 338,433 | success is durable on both sides; epochs gate data; nothing is dropped; every client command ends; with one failure anywhere, for one client or for two in one server transaction |
| `flow_control` | 26,009 | frames arrive whole and in order, buffers are bounded, a stall has one of two named causes, otherwise everything arrives |
| `roster_merge` | 11,437 | rebuilt rosters are the committed ones; clean merges are sane, symmetric, and the three-way merge where one is defined; the dead stay dead; marks go by the rule |
| `workspace` | 301,279 | the base exists, no edit is lost, no commit undoes its parent, a finished update is complete, a killed base can be committed again, with every command killed at any step |

Two runs are expected to find a violation, each a disagreement between the code and
what the repository says of it (`PROJECT.json`, "findings"):

- `file_forward`: with `delta-direction` forward, contents that change back and forth,
  received in separate sessions, end without a full text and cannot be read.
- `dropped_modified`: a file modified on one side, dropped on the other, whose name the
  other side gave to a file that the first side drops: the merge looks for a
  duplicate name conflict to delete, finds none, and erases past the end.

Other disagreements were met while modelling. The models behave as the code does; no
run states what the text says.

- The number of keys that a dry run reports is too low when a leaf faces a subtree, and
  is not marked as an estimate, as `monotone.texi:9878-9880` says it would be.
- A dry run of sync exchanges and commits epochs, where `monotone.texi:5716-5717` says
  that "no data is transferred".
- An inner guard that ends by an exception only counts down, and an outer one that
  catches it can commit; `database.hh:486-488` says that the guard "make[s] sure the
  db aborts a transaction if there's any exception before you call commit()".
- `_MTN/detached` is "a lock against multiple monotone processes"
  (`monotone.texi:3713-3716`), but is tested and made in two steps, and rename, drop,
  revert and commit do not test it.
- After `local kill_revision` of the base, `_MTN/revision` holds the contents of the
  killed revision, and `drop` compares the files with those: it deletes a file that "is
  different from the version in the base revision" (`monotone.texi:5504-5507`). The
  text is still in the database (`EditKept`).
- A broken connection commits what was received ("Commit whatever work we managed to
  accomplish anyways", `netsync.cc`), where `netsync.txt` says that no commitments are
  made. `SuccessIsDurable` holds all the same.
- A client that finds an epoch mismatch itself returns normally, which the test
  `netsync_client_absorbs_and_checks_epochs` remarks on.

### Bounds

Histories in the stores have four revisions: a fork with a merge is the smallest in
which the lowest common height, two branch heads, two paths to an ancestor and two
deltas for one roster occur. `OtherName` is empty in `revision_store`, where certificates
of other names would make too many states; the proofs have them.

Merges: four revisions with all sixteen edits, which put two edits on one side of a
merge; six with changes of one content and its drop, which is what a criss-cross
merge and a merge of its results take. A node has one attribute, since attributes do
not meet.

Tries have two slots and three levels, so that leaves face subtrees at two levels, and
up to four of six items. Sessions have two revisions, two signing keys and the
server's, and three certificates, one of which is not a branch's; the databases agree,
lag behind, are empty, or clash in their epoch. One failure (`MaxFaults`) may happen
at every step, with one client and with two.

Three file versions allow cycles of deltas with a third that depends on them; one
delayed text makes the limit of delayed writes happen; guards nest twice. A roster
cache of two is smaller than the path to a merge. `MaxPending` and `MaxChanged` leave
room for a cached answer to become stale, be refreshed and become stale again.

In `flow_control` a read or write moves two bytes, a buffer is overfull beyond four,
and the pipe holds three: every command is cut, and the limits on input and output are
both met. The largest netcmd exceeds `netcmd_maxsz` as in the program, where the
constant leaves out the HMAC and most of the length field.

In `workspace` the user gives three commands, makes one edit and may clean up. An
update, killed, with a command that repairs and a commit is three, and so is an
update, the kill of its target and a commit that makes it again. The two target
revisions rename a file to where another was, and rename a directory, change, drop
and add files.

`MCEnumerator` fixes one content and one edge, other graphs being the same up to
renaming. Symmetry is used only for file versions, in runs without liveness.

Deadlock is checked in the session, enumerator, store and head runs, except for
`revision_store`. It, the refiner, the merges and the workspace stop when everything
has been done that the bounds allow. `flow_control` stops when all is delivered, and
also when both ends wait, which `StallHasCause` is about.

### Fairness

Only liveness properties use it, and only weak fairness of the program's own steps.
The reactor polls all sessions and handles whatever is ready (`reactor.cc`), so that
a session with something to do gets its turn; the enumerator's loop runs until it is
done. Nothing is assumed of failures, of users, or of other processes.
`EverythingArrives` has the condition `Fits`, without which two ends may wait for each
other until the timeout.

## Proofs

The constants are arbitrary but for the named assumptions in the modules.

- `RevisionStore_proofs`: the order on heights is strict and total, and a child is above
  its parent, which two heights with a first difference show; then type correctness, sound and stable heights, exact leaves,
  exact ancestor search, current cache, certificates on stored revisions. The invariant `IInv` is needed on the committed tables too (`DiskInv`),
  since a rollback returns to them, and says that revisions are closed under parents.
  `AncestorsOf` is a least closed set, so no induction is needed; that a finite set
  has a head above each member takes the member with fewest descendants.
- `BranchHeads_proofs`: `CachesCurrent` and `HeadsExact`. `Stamped` says that no answer is stamped later
  than the last stamp dispensed, and that not later than the last change. A change
  after a dispensed stamp moves ahead of all of them, so every answer becomes outdated
  at once; a change after a change need not, since nothing was stamped in between. That
  the slow search and the leaves table give the same heads takes, for a revision that is
  no head, a descendant in the branch with the most ancestors: the ancestry is finite and
  has no cycle.
- `Refiner_proofs`: type correctness, `NothingMissed`, `CountsAgree`, `QueriesBalanced`.
  `IInv` adds that every command on its way tells the truth about its sender. The
  bracketing is proved on counts of the commands in the two queues: what a query is
  answered with holds one query for each slot left open, and one response.
- `RefinerResend_proofs`: `NothingResent`. `Found` says that an item of both sides is, for
  each of them, already noted, or in a command that will tell it, or below an open query
  that leads both to it; `Stages` that no query is left when the client decides, and no
  response when the server does. So at the decision every common item has been noted,
  in spite of leaves facing subtrees.
- `Enumerator_proofs`: the enumerator implements `Delivery`. `Stage` says which items
  can be in the queue: those of one revision, whose parents the peer has, from the file
  or the revision or the certificate on; all that was enumerated before has been sent.
  A file that is not sent is with a parent or was sent earlier, and the base of a delta
  is with a parent (`FileAtHand`).
- `FileStore_proofs`: `AllReadable`, `NothingPending`, and that the store implements
  `TransactionalStore`, when delta-direction is never forward. The core is that
  whatever was readable with the new version at hand stays readable, because the old
  version has a delta against the new full text; this also covers `deltify_revision`,
  which first removes the new version. Then what is readable is what exists, and each
  step is a put, an end of a guard, or a stutter. The assumption is needed:
  `file_forward` is the counterexample without it.
- `ScalarMarks_proofs`: the assertion of `merge_scalar` that not both sides win never
  fails, in a history of any shape. `MarksCover` says of every revision that its marks
  are marked ancestors with its value, and that every other marked ancestor is an
  ancestor of one of them. If both sides won, no mark of either would be an uncommon
  ancestor; then the marks of each are marked ancestors of the other, so they cover
  each other, and the last of them decides both values, which are the same.

Only model-checked: liveness; tries; sessions; buffers; rosters, merges and the workspace, whose operators
recurse over trees.

## Not modelled

Hashes are injective names, signatures are good, and deltas reconstruct what they
were made from. Of the modelled parts, the following is left out: the version cache
and sizes of files; usher and version negotiation, authentication and encryption;
several attributes per node; in the workspace two parents, exclusions and depth
limits, attributes, inodeprints, the name `_MTN` (which `pivot_root` refuses),
`--bookkeep-only`, a kill of the first revision, pluck, bisect, and updates to
revisions that are not descendants, which take back changes by intent.

Line merging, lcs, xdelta and the searches of `graph.cc` are algorithms on texts and
graphs without state; those of `graph.cc` and `xdelta.cc` have unit tests on random
inputs. Key store, automate, selectors, dates, paths and packets are
pure functions or blocking readers. Migration, import and export, reports, the user
interface, Lua hooks and wrappers of libraries have no state of their own that a
property could be about. `src/Attic`, the Visual C++ and installer files, and the
copies of libraries are not part of the program. `PROJECT.json` gives the reason for
each part.

Some hazards have no property. `PROJECT.json` gives the reason for an idle server whose
cached branch list another process outdates, a client that returns normally after an
error it found itself, an update back to an ancestor that is killed, and two commands at
a time in one workspace. Further ones of less weight: the version cache outlives a
rollback, harmless since contents are named by hashes; a `pivot_root` that is refused
has already rewritten the manifest, as in the model; and `make_restricted_roster` does
not end when a depth limit or an exclusion, which the model leaves out, selects a cycle
of directories.
