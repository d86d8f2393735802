--------------------------- MODULE RevisionStore ---------------------------
(***************************************************************************)
(* The ancestry, height, cert and branch-leaf tables of the database and   *)
(* the operations that keep them consistent (src/src/database.cc,          *)
(* ancestry.cc, cmd_db.cc).                                                *)
(*                                                                         *)
(* A revision id is the hash of a text that names its parents, so the      *)
(* parents of every revision that may ever be stored are a constant.  The  *)
(* tables are the state the running process sees inside its transaction;   *)
(* disk is what the last commit left.  height_cache lives in the process   *)
(* and survives a rollback.                                                *)
(***************************************************************************)
EXTENDS RevHeight, FiniteSets

CONSTANTS
  Rev,          \* revision ids that may be stored
  NullRev,      \* the empty revision id, parent of every root
  Parents,      \* the parents a revision's text names
  Branch,       \* cert values; the branch names among them matter
  Key,          \* signing keys
  OtherName,    \* cert names other than "branch"
  MaxChildNr    \* how many heights put_height_for_revision may try

CertName == {"branch"} \cup OtherName
Cert == [ident : Rev, name : CertName, value : Branch, key : Key]

\* Ancestors of r by content: the least set that holds r's parents and is
\* closed under parents.
AncestorsOf(r) ==
  {a \in Rev : \A S \in SUBSET Rev :
      /\ Parents[r] \ {NullRev} \subseteq S
      /\ \A x \in S : Parents[x] \ {NullRev} \subseteq S
      => a \in S}

ASSUME NullRevAssumption == NullRev \notin Rev
ASSUME ParentsAssumption ==
  /\ Parents \in [Rev -> SUBSET (Rev \cup {NullRev})]
  /\ \A r \in Rev : Parents[r] # {}
ASSUME AcyclicAssumption == \A r \in Rev : r \notin AncestorsOf(r)
ASSUME MaxChildNrAssumption == MaxChildNr \in 0..MaxU32

VARIABLES
  revisions,          \* table revisions
  revision_ancestry,  \* table revision_ancestry: pairs <<parent, child>>
  heights,            \* table heights, a function on stored revisions
  revision_certs,     \* table revision_certs
  branch_leaves,      \* table branch_leaves, by branch
  branch_epochs,      \* branches that have a row in branch_epochs
  height_cache,       \* database_impl::height_cache
  disk                \* the tables as of the last commit

tables == <<revisions, revision_ancestry, heights, revision_certs,
            branch_leaves, branch_epochs>>
vars == <<tables, height_cache, disk>>

Snapshot ==
  [revisions |-> revisions, revision_ancestry |-> revision_ancestry,
   heights |-> heights, revision_certs |-> revision_certs,
   branch_leaves |-> branch_leaves, branch_epochs |-> branch_epochs]

---------------------------------------------------------------------------
(* Reads *)

get_revision_parents(r) == {p \in Rev \cup {NullRev} : <<p, r>> \in revision_ancestry}

get_revision_children(r) == {c \in Rev : <<r, c>> \in revision_ancestry}

get_rev_height(r) ==
  IF r = NullRev THEN root_height
  ELSE IF r \in DOMAIN height_cache THEN height_cache[r]
  ELSE heights[r]

revision_exists_NeverFound(r) == FALSE

revision_exists(r) == r \in revisions

has_rev_height(h) == \E r \in DOMAIN heights : heights[r] = h

Visited_OnlyAbove(a, b) ==
  {x \in Rev : \A S \in SUBSET Rev :
      /\ a \in S
      /\ \A y \in S : \A c \in get_revision_children(y) :
           Below(get_rev_height(b), get_rev_height(c)) => c \in S
      => x \in S}

\* Revisions the search of is_a_ancestor_of_b visits from a: children are
\* followed only while they are below b.
Visited(a, b) ==
  {x \in Rev : \A S \in SUBSET Rev :
      /\ a \in S
      /\ \A y \in S : \A c \in get_revision_children(y) :
           Below(get_rev_height(c), get_rev_height(b)) => c \in S
      => x \in S}

is_a_ancestor_of_b(a, b) ==
  /\ a # b
  /\ ~ Below(get_rev_height(b), get_rev_height(a))
  /\ \E x \in Visited(a, b) : b \in get_revision_children(x)

\* Strict ancestors erase_ancestors accumulates for the candidates C: parents
\* are followed while they are not below every candidate (min_height).
Accumulated(C) ==
  {x \in Rev : \A S \in SUBSET Rev :
      /\ \A y \in C \cup S : \A p \in get_revision_parents(y) \ {NullRev} :
           (\E c \in C : ~ Below(get_rev_height(p), get_rev_height(c))) => p \in S
      => x \in S}

erase_ancestors(C) == C \ Accumulated(C)

InBranch(certs, b) == {c.ident : c \in {d \in certs : d.name = "branch" /\ d.value = b}}

\* branch_leaves after recalc_branch_leaves(b) for every b in B, given certs.
recalc_branch_leaves(B, certs) ==
  [b \in Branch |-> IF b \in B THEN erase_ancestors(InBranch(certs, b))
                               ELSE branch_leaves[b]]

---------------------------------------------------------------------------
(* Writes *)

Init ==
  /\ revisions = {} /\ revision_ancestry = {} /\ heights = <<>>
  /\ revision_certs = {} /\ branch_leaves = [b \in Branch |-> {}]
  /\ branch_epochs = {} /\ height_cache = <<>>
  /\ disk = Snapshot

\* The height of the highest parent; put_height_for_revision starts from the
\* default, lowest height and takes a parent only when it is higher.
IsHighestParent(r, hp) ==
  \E p \in Parents[r] :
    /\ hp = get_rev_height(p)
    /\ \A q \in Parents[r] : ~ Below(hp, get_rev_height(q))

IsFirstUnused_NotTried(hp, nr) == nr = 0

\* The first child number whose height is unused.
IsFirstUnused(hp, nr) ==
  /\ ~ has_rev_height(child_height(hp, nr))
  /\ \A m \in 0..(nr - 1) : has_rev_height(child_height(hp, m))

\* put_rev_height drops a cached height before it inserts the new row.
WithoutCached(r) == [q \in DOMAIN height_cache \ {r} |-> height_cache[q]]

put_revision(r) ==
  /\ ~ revision_exists(r)
  /\ Parents[r] \ {NullRev} \subseteq revisions
  /\ \E hp \in {get_rev_height(p) : p \in Parents[r]}, nr \in 0..MaxChildNr :
       /\ IsHighestParent(r, hp)
       /\ ChildFits(hp)
       /\ IsFirstUnused(hp, nr)
       /\ heights' = [q \in DOMAIN heights \cup {r} |->
                        IF q = r THEN child_height(hp, nr) ELSE heights[q]]
  /\ revisions' = revisions \cup {r}
  /\ revision_ancestry' = revision_ancestry \cup {<<p, r>> : p \in Parents[r]}
  /\ height_cache' = WithoutCached(r)
  /\ UNCHANGED <<revision_certs, branch_leaves, branch_epochs, disk>>

record_as_branch_leaf_NoDescendantCheck(b, r) ==
  LET older == {x \in branch_leaves[b] : is_a_ancestor_of_b(x, r)}
  IN (branch_leaves[b] \ older) \cup {r}

\* The leaves of a branch once r, newly in the branch, has been considered.
record_as_branch_leaf(b, r) ==
  LET parents   == get_revision_parents(r)
      current   == branch_leaves[b]
      remaining == current \ parents
      older     == IF parents \subseteq current THEN {}
                   ELSE {x \in remaining : is_a_ancestor_of_b(x, r)}
      some_ancestor_was_leaf == parents \cap current # {} \/ older # {}
  IN IF r \in current THEN current
     ELSE IF /\ ~ some_ancestor_was_leaf
             /\ \E x \in remaining : is_a_ancestor_of_b(r, x)
          THEN remaining
     ELSE (remaining \ older) \cup {r}

put_revision_cert(t) ==
  /\ t \notin revision_certs
  /\ revision_exists(t.ident)
  /\ revision_certs' = revision_certs \cup {t}
  /\ branch_leaves' =
       IF t.name = "branch"
       THEN [branch_leaves EXCEPT ![t.value] = record_as_branch_leaf(t.value, t.ident)]
       ELSE branch_leaves
  /\ UNCHANGED <<revisions, revision_ancestry, heights, branch_epochs,
                 height_cache, disk>>

set_epoch(b) ==
  /\ branch_epochs' = branch_epochs \cup {b}
  /\ UNCHANGED <<revisions, revision_ancestry, heights, revision_certs,
                 branch_leaves, height_cache, disk>>

\* Any read of a height fills the cache.
CacheHeight(r) ==
  /\ r \in revisions \ DOMAIN height_cache
  /\ height_cache' = [q \in DOMAIN height_cache \cup {r} |->
                        IF q = r THEN heights[r] ELSE height_cache[q]]
  /\ UNCHANGED <<tables, disk>>

---------------------------------------------------------------------------
(* Transactions of the process: the outermost guard commits or rolls back, *)
(* a crash loses the caches as well.                                       *)

commit_transaction ==
  /\ disk' = Snapshot
  /\ UNCHANGED <<tables, height_cache>>

RestoreDisk ==
  /\ revisions' = disk.revisions
  /\ revision_ancestry' = disk.revision_ancestry
  /\ heights' = disk.heights
  /\ revision_certs' = disk.revision_certs
  /\ branch_leaves' = disk.branch_leaves
  /\ branch_epochs' = disk.branch_epochs
  /\ disk' = disk

rollback_transaction == RestoreDisk /\ height_cache' = height_cache

Restart == RestoreDisk /\ height_cache' = <<>>

---------------------------------------------------------------------------
(* Local commands.  Each is a process of its own, so it starts with no     *)
(* cached height, needs the database lock, and commits its one transaction.*)

OwnProcess == disk = Snapshot /\ height_cache = <<>>

CommitAndExit == disk' = Snapshot' /\ height_cache' = <<>>

WithoutCertsOf(r) == {t \in revision_certs : t.ident # r}

WithoutRowsOf(r) == {e \in revision_ancestry : e[2] # r}

\* db local kill_revision: delete_existing_rev_and_certs
delete_existing_rev_and_certs(r) ==
  /\ OwnProcess
  /\ revision_exists(r)
  /\ get_revision_children(r) = {}
  /\ revision_certs' = WithoutCertsOf(r)
  /\ branch_leaves' = recalc_branch_leaves({b \in Branch : r \in branch_leaves[b]},
                                           revision_certs')
  /\ revision_ancestry' = WithoutRowsOf(r)
  /\ heights' = [q \in DOMAIN heights \ {r} |-> heights[q]]
  /\ revisions' = revisions \ {r}
  /\ branch_epochs' = branch_epochs
  /\ CommitAndExit

\* The part of kill_certs after the certs are gone: recompute the leaves of
\* the branches B and forget the epoch of those left empty.
RecalcAndClearEpochs(B) ==
  /\ branch_leaves' = recalc_branch_leaves(B, revision_certs')
  /\ branch_epochs' = branch_epochs \ {b \in B : branch_leaves'[b] = {}}
  /\ UNCHANGED <<revisions, revision_ancestry, heights>>
  /\ CommitAndExit

\* db local kill_certs SELECTOR CERTNAME
kill_certs_named(R, name) ==
  /\ OwnProcess
  /\ revision_certs' = {t \in revision_certs : ~ (t.ident \in R /\ t.name = name)}
  /\ RecalcAndClearEpochs(
       IF name = "branch"
       THEN {t.value : t \in {u \in revision_certs : u.name = name /\ u.ident \in R}}
       ELSE {})

\* db local kill_certs SELECTOR CERTNAME CERTVAL
kill_certs_valued(R, name, value) ==
  /\ OwnProcess
  /\ revision_certs' = {t \in revision_certs :
                          ~ (t.ident \in R /\ t.name = name /\ t.value = value)}
  /\ RecalcAndClearEpochs({value})

\* The branch part of db regenerate_caches.
regenerate_branches ==
  /\ OwnProcess
  /\ branch_leaves' = [b \in Branch |-> erase_ancestors(InBranch(revision_certs, b))]
  /\ UNCHANGED <<revisions, revision_ancestry, heights, revision_certs, branch_epochs>>
  /\ CommitAndExit

Next ==
  \/ \E r \in Rev : put_revision(r)
  \/ \E t \in Cert : put_revision_cert(t)
  \/ \E b \in Branch : set_epoch(b)
  \/ \E r \in Rev : CacheHeight(r)
  \/ commit_transaction
  \/ rollback_transaction
  \/ Restart
  \/ \E r \in Rev : delete_existing_rev_and_certs(r)
  \/ \E R \in SUBSET revisions, n \in CertName : kill_certs_named(R, n)
  \/ \E R \in SUBSET revisions, n \in CertName, b \in Branch :
       kill_certs_valued(R, n, b)
  \/ regenerate_branches

Spec == Init /\ [][Next]_vars
---------------------------------------------------------------------------
(* Properties *)

\* Every table holds values of its type, in memory and on disk, and every
\* stored revision has exactly one row in heights and its rows in
\* revision_ancestry (the tables put_revision and the kill commands write).
TypeOK ==
  /\ revisions \subseteq Rev
  /\ revision_ancestry = {e \in (Rev \cup {NullRev}) \X revisions : e[1] \in Parents[e[2]]}
  /\ DOMAIN heights = revisions
  /\ \A r \in revisions : heights[r] \in Height
  /\ revision_certs \subseteq Cert
  /\ branch_leaves \in [Branch -> SUBSET Rev]
  /\ branch_epochs \subseteq Branch
  /\ DOMAIN height_cache \subseteq Rev
  /\ \A r \in DOMAIN height_cache : height_cache[r] \in Height

\* A stored revision is higher than each of its stored parents and no two
\* revisions share a height (put_height_for_revision; db check reports the
\* opposite as incorrect or duplicate heights), whatever was put, killed or
\* rolled back before.
HeightsSound ==
  /\ \A r \in revisions : \A p \in Parents[r] \ {NullRev} :
       p \in revisions /\ Below(heights[p], heights[r])
  /\ \A r, s \in revisions : heights[r] = heights[s] => r = s

\* branch_leaves, which record_as_branch_leaf maintains incrementally, is at
\* all times what compute_branch_leaves would compute from scratch: the
\* revisions of the branch that have no descendant in the branch.
LeavesExact ==
  \A b \in Branch :
    branch_leaves[b] = {r \in InBranch(revision_certs, b) :
                          \A s \in InBranch(revision_certs, b) : r \notin AncestorsOf(s)}

\* The search of is_a_ancestor_of_b, which prunes by (cached) heights,
\* answers true exactly for ancestors.
AncestorSearchExact ==
  \A a, b \in revisions : is_a_ancestor_of_b(a, b) <=> a \in AncestorsOf(b)

\* A height in height_cache is the stored one for as long as the revision is
\* stored, also when the revision was rolled back and put again with another
\* height (put_rev_height erases the entry).
CachedHeightsCurrent ==
  \A r \in DOMAIN height_cache \cap revisions : height_cache[r] = heights[r]

\* No certificate outlives its revision (put_revision_cert drops certs on
\* unknown revisions, delete_existing_rev_and_certs deletes them first).
CertsHaveRevisions == \A t \in revision_certs : t.ident \in revisions

\* No step changes the height of a revision that stays stored.
HeightsStable ==
  [][\A r \in revisions \cap revisions' : heights'[r] = heights[r]]_vars
=============================================================================
