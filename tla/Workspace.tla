----------------------------- MODULE Workspace -----------------------------
(***************************************************************************)
(* The workspace (work.cc) and the commands that change it.  A command     *)
(* checks, then takes its steps on the filesystem, on _MTN/revision and on *)
(* the database one by one: it may be killed between any two, and a step   *)
(* whose check fails ends it.  Contents are told apart by the edits that   *)
(* are in them; attributes are left out.                                   *)
(***************************************************************************)
EXTENDS RosterMerge

CONSTANTS
  EditsIn,    \* the edits in each content: a function on the contents
  Base,       \* the roster of the first revision
  Tips,       \* rosters of which one is that of its child
  Names,      \* paths to which the user renames
  Spares,     \* unversioned places where the user puts things
  MaxCommands \* bound on the commands

VARIABLES
  revs,         \* the database: [parent, cs, roster] by revision
  killed,       \* revisions deleted; their texts and rosters are not
  work,         \* _MTN/revision: [base, cs], of base 0 before a checkout
  disk,         \* files and directories: path -> content
  held,         \* _MTN/detached: [exists, trees]
  resolutions,  \* _MTN/resolutions: path -> content
  ops,          \* steps the running command has yet to take
  edit,         \* the user's edit: "none", "made" or "discarded"
  commands      \* commands given

vars == <<revs, killed, work, disk, held, resolutions, ops, edit, commands>>

HasEdit(c) == c # "none" /\ "u" \in EditsIn[c]

NoWork == [base |-> 0, cs |-> cset(Base, Base)]
TempId == 1000

revision_exists(r) == r \in DOMAIN revs \ killed

get_revision_children(r) == {q \in DOMAIN revs \ killed : revs[q].parent = r}

---------------------------------------------------------------------------
(* Rosters of the workspace *)

\* Content changes are not in _MTN/revision.
make_revision_for_workspace(rid, cs) == [base |-> rid, cs |-> [cs EXCEPT !.deltas_applied = {}]]

Parent == revs[work.base].roster

ShapeOf(w) == apply_to(w.cs, revs[w.base].roster, TempId)

get_current_roster_shape == ShapeOf(work)

OnDisk(type, p) ==
  p \in DOMAIN disk /\ (disk[p] = "none" <=> type = "dir")

find_missing(r) == {n \in Ids(r) \ {r.root} : get_name(r, n) \notin DOMAIN disk}

\* Contents of the files among the nodes, of which none may be missing_items.
missing_items(r, nodes) ==
  {n \in Ids(r) \cap nodes : ~ OnDisk(r.nodes[n].type, get_name(r, n))}

update_current_roster_from_filesystem(r, nodes) ==
  [r EXCEPT !.nodes = [n \in Ids(r) |->
     IF n \in nodes /\ r.nodes[n].type = "file"
     THEN [r.nodes[n] EXCEPT !.content = disk[get_name(r, n)]] ELSE r.nodes[n]]]

has_changes_Shape(shape) == Parent.nodes # shape.nodes

has_changes(shape) ==
  Parent.nodes # update_current_roster_from_filesystem(shape, Ids(shape)).nodes

\* node_restriction: paths name nodes of the parent or of the workspace, which
\* may require the directories above them.
node_restriction(shape, paths, implicit) ==
  LET nodes == {get_node(r, p) : r \in {Parent, shape}, p \in paths} \ {Null}
      above(r) == {d \in Ids(r) : \E n \in nodes \cap Ids(r) : d # n /\ Above(r, d, n)}
  IN [included |-> nodes,
      required |-> IF implicit THEN above(Parent) \cup above(shape) ELSE {}]

\* The nearest node of the mask at or above a node decides for it.
includes(mask, r, n) ==
  LET mapped == {a \in (mask.included \cup mask.required) \cap Ids(r) : Above(r, a, n)}
  IN \E a \in mapped : /\ \A b \in mapped : Above(r, b, a)
                      /\ (a \in mask.included \/ a = n)

Included(mask, r) == {n \in Ids(r) : includes(mask, r, n)}

RECURSIVE Rooted(_, _, _)
Rooted(nodes, n, k) == n = Null \/ (k > 0 /\ n \in DOMAIN nodes /\ Rooted(nodes, nodes[n].parent, k - 1))

\* Nodes of the mask as in to, the others as in from.  (The code does not end
\* where they are a cycle.)
make_restricted_roster(from, to, restriction) ==
  LET mask == Included(restriction, from) \cup Included(restriction, to)
      ids == (Ids(from) \ mask) \cup (Ids(to) \cap mask)
      all == [n \in ids |-> IF n \in mask THEN to.nodes[n] ELSE from.nodes[n]]
      same(m, n) == all[m].parent = all[n].parent /\ all[m].name = all[n].name
      root == {n \in ids : all[n].parent = Null}
  IN [nodes |-> all, root |-> IF root = {} THEN Null ELSE CHOOSE n \in root : TRUE,
      old_locations |-> <<>>,
      ok |-> /\ root # {}
             /\ \A n \in ids : Rooted(all, n, Cardinality(ids))
             /\ \A m, n \in ids : same(m, n) => m = n]

---------------------------------------------------------------------------
(* Trees of files *)

Below(p, q) == IsPrefix(p, q)

Tree(d, p) == {q \in DOMAIN d : Below(p, q)}

Taken(d, p) == [q \in {SubSeq(t, Len(p) + 1, Len(t)) : t \in Tree(d, p)} |-> d[p \o q]]

Left(d, p) == [q \in DOMAIN d \ Tree(d, p) |-> d[q]]

Put(d, p, t) == [q \in {p \o s : s \in DOMAIN t} |-> t[SubSeq(q, Len(p) + 1, Len(q))]] @@ d

\* A place that is free, in a directory; onto the root, what the tree holds.
Free(d, p, t) ==
  IF p = <<>> THEN t[<<>>] = "none" /\ \A q \in DOMAIN t : Len(q) = 1 => q \notin DOMAIN d
  ELSE p \notin DOMAIN d /\ Front(p) \in DOMAIN d /\ d[Front(p)] = "none"

---------------------------------------------------------------------------
(* Steps *)

Step(op, node, path, val) == [op |-> op, node |-> node, path |-> path, val |-> val]

Finish_WorkFirst(commit, put) == put \o <<commit>>

\* The transaction of a commit comes before _MTN/revision.
Finish(commit, put) == <<commit>> \o put

PutWork(how, w) == <<[op |-> "work", how |-> how, work |-> w]>>

Map(s, F(_)) == [i \in DOMAIN s |-> F(s[i])]

Patched_InPlace(cs) == {x \in cs.deltas_applied : \A y \in cs.nodes_renamed : x.path # y.to}

\* Contents change last, at the new paths.
Patched(cs) == cs.deltas_applied

\* The steps of an editable_working_tree in the order of cset::apply_to.
Alterations(cs) ==
  LET added == TopDown(cs.nodes_added)
      gone == BottomUp({[path |-> x.path] : x \in cs.nodes_deleted \cup cs.nodes_renamed})
      node(p) == Len(added) + CHOOSE i \in DOMAIN gone : gone[i].path = p
      attaches == {[node |-> i, path |-> added[i].path] : i \in DOMAIN added}
                  \cup {[node |-> node(x.path), path |-> x.to] : x \in cs.nodes_renamed}
  IN [create |-> [i \in DOMAIN added |-> Step("create", i, <<>>, added[i].content)],
      detach |-> [i \in DOMAIN gone |-> Step("detach", Len(added) + i, gone[i].path, "")],
      attach |-> Map(TopDown(attaches), LAMBDA a : Step("attach", a.node, a.path, "")),
      drop |-> Map(SelectSeq(gone, LAMBDA g : \E x \in cs.nodes_deleted : x.path = g.path),
                   LAMBDA g : Step("drop", node(g.path), g.path, "")),
      patch |-> Map(TopDown(Patched(cs)),
                    LAMBDA x : [op |-> "patch", path |-> x.path, old |-> x.old, new |-> x.new])]

\* Detaching and attaching in a simulated_working_tree, to find the paths in
\* the way: of what is attached, and what is left in a dropped directory.
Conflicting(cs) ==
  LET a == Alterations(cs)
      s0 == [disk |-> disk, held |-> [i \in DOMAIN a.create |-> <<>> :> a.create[i].val],
             blocked |-> {}, paths |-> {}]
      detach(s, x) == [s EXCEPT !.disk = Left(@, x.path),
                                !.held = (x.node :> Taken(s.disk, x.path)) @@ @]
      attach(s, x) ==
        CASE x.path = <<>> /\ <<>> \in DOMAIN s.disk -> s
          [] x.path # <<>> /\ x.path \in DOMAIN s.disk ->
               [s EXCEPT !.blocked = @ \cup {x.path}, !.paths = @ \cup {x.path}]
          [] x.path # <<>> /\ x.path \notin DOMAIN s.disk /\ Front(x.path) \in s.blocked ->
               [s EXCEPT !.blocked = @ \cup {x.path}]
          [] OTHER -> [s EXCEPT !.disk = Put(@, x.path, s.held[x.node])]
      s1 == Each(attach, Each(detach, s0, a.detach), a.attach)
      kept(x) == {x.path \o q : q \in {p \in DOMAIN s1.held[x.node] : Len(p) = 1}}
  IN s1.paths \cup UNION {kept(a.drop[i]) : i \in DOMAIN a.drop}

\* perform_content_update, if it gets to its first alteration.
Refused(cs, move) == held.exists \/ (Conflicting(cs) # {} /\ ~ move)

perform_content_update(cs) ==
  LET a == Alterations(cs)
      aside == Map(TopDown({[path |-> p] : p \in Conflicting(cs)}),
                   LAMBDA x : Step("aside", 0, x.path, ""))
  IN aside \o <<Step("mkdir", 0, <<>>, "")>> \o a.create \o a.detach \o a.attach \o a.drop
     \o a.patch \o <<Step("rmdir", 0, <<>>, "")>>

---------------------------------------------------------------------------
(* Taking the steps *)

Idle == ops = <<>> /\ commands < MaxCommands /\ work.base # 0

Run(steps) ==
  /\ ops' = steps
  /\ commands' = commands + 1
  /\ UNCHANGED <<revs, killed, work, disk, held, resolutions, edit>>

\* Take the next step if it is an op, where check holds.
Next1(op, check) == ops # <<>> /\ Head(ops).op = op /\ check /\ ops' = Tail(ops) /\ UNCHANGED commands

mkdir == Next1("mkdir", TRUE) /\ held' = [held EXCEPT !.exists = TRUE]
         /\ UNCHANGED <<revs, killed, work, disk, resolutions, edit>>

rmdir == Next1("rmdir", DOMAIN held.trees = {}) /\ held' = [held EXCEPT !.exists = FALSE]
         /\ UNCHANGED <<revs, killed, work, disk, resolutions, edit>>

create_node_step ==
  LET x == Head(ops)
  IN /\ Next1("create", x.node \notin DOMAIN held.trees)
     /\ held' = [held EXCEPT !.trees = (x.node :> [from |-> <<>>, tree |-> <<>> :> x.val]) @@ @]
     /\ UNCHANGED <<revs, killed, work, disk, resolutions, edit>>

CanDetach(x) == x.path \in DOMAIN disk /\ <<>> \in DOMAIN disk /\ x.node \notin DOMAIN held.trees

detach_node_step ==
  LET x == Head(ops)
  IN /\ Next1("detach", CanDetach(x))
     /\ held' = [held EXCEPT !.trees =
                   (x.node :> [from |-> x.path, tree |-> Taken(disk, x.path)]) @@ @]
     /\ disk' = Left(disk, x.path)
     /\ UNCHANGED <<revs, killed, work, resolutions, edit>>

attach_node_step ==
  LET x == Head(ops)
      t == held.trees[x.node].tree
  IN /\ Next1("attach", Free(disk, x.path, t))
     /\ disk' = Put(disk, x.path, t)
     /\ held' = [held EXCEPT !.trees = Without(@, x.node)]
     /\ UNCHANGED <<revs, killed, work, resolutions, edit>>

drop_detached_node_step ==
  LET x == Head(ops)
  IN /\ Next1("drop", DOMAIN held.trees[x.node].tree = {<<>>})
     /\ held' = [held EXCEPT !.trees = Without(@, x.node)]
     /\ UNCHANGED <<revs, killed, work, disk, resolutions, edit>>

apply_delta_step ==
  LET x == Head(ops)
  IN /\ Next1("patch", x.path \in DOMAIN disk /\ disk[x.path] = x.old)
     /\ disk' = [disk EXCEPT ![x.path] = x.new]
     /\ UNCHANGED <<revs, killed, work, held, resolutions, edit>>

move_conflicting_path ==
  LET x == Head(ops)
      clear == \A q \in Tree(disk, x.path) : q \notin DOMAIN resolutions
  IN /\ Next1("aside", x.path \in DOMAIN disk /\ clear)
     /\ resolutions' = [q \in Tree(disk, x.path) |-> disk[q]] @@ resolutions
     /\ disk' = Left(disk, x.path)
     /\ UNCHANGED <<revs, killed, work, held, edit>>

put_work_rev ==
  /\ Next1("work", TRUE)
  /\ work' = Head(ops).work
  /\ UNCHANGED <<revs, killed, disk, held, resolutions, edit>>

\* A revision that was killed and is committed again has its roster already.
commit_transaction ==
  /\ Next1("commit", TRUE)
  /\ revs' = IF Head(ops).rid \in DOMAIN revs THEN revs ELSE Append(revs, Head(ops).rev)
  /\ killed' = killed \ {Head(ops).rid}
  /\ UNCHANGED <<work, disk, held, resolutions, edit>>

delete_existing_rev_and_certs ==
  LET rid == Head(ops).rid
  IN /\ Next1("kill", revision_exists(rid) /\ get_revision_children(rid) = {})
     /\ killed' = killed \cup {rid}
     /\ UNCHANGED <<revs, work, disk, held, resolutions, edit>>

Deletable_Any(p, old) == TRUE

\* A dropped file is left where it is if it was changed.
Deletable(p, old) == disk[p] = old

delete_file_or_dir_shallow ==
  LET x == Head(ops)
  IN /\ Next1("delete", x.path \in DOMAIN disk => (disk[x.path] = "none") = (x.val = "none"))
     /\ disk' = IF Tree(disk, x.path) = {x.path} /\ Deletable(x.path, x.val)
                THEN Left(disk, x.path) ELSE disk
     /\ UNCHANGED <<revs, killed, work, held, resolutions, edit>>

move_path ==
  LET x == Head(ops)
      t == Taken(disk, x.path)
  IN /\ Next1("move", Free(Left(disk, x.path), x.to, t))
     /\ disk' = Put(Left(disk, x.path), x.to, t)
     /\ UNCHANGED <<revs, killed, work, held, resolutions, edit>>

\* Writing a file creates the directories it is in.
write_data ==
  LET x == Head(ops)
      dirs == {SubSeq(x.path, 1, i) : i \in 0..(Len(x.path) - 1)}
      old == IF x.path \in DOMAIN disk THEN disk[x.path] ELSE "none"
  IN /\ Next1("write", /\ (x.path \in DOMAIN disk => (disk[x.path] = "none") = (x.val = "none"))
                       /\ \A d \in dirs \cap DOMAIN disk : disk[d] = "none")
     /\ disk' = (x.path :> x.val) @@ [d \in dirs |-> "none"] @@ disk
     /\ edit' = IF edit = "made" /\ HasEdit(old) THEN "discarded" ELSE edit
     /\ UNCHANGED <<revs, killed, work, held, resolutions>>

\* Killed, or ended by a check that fails.  The root is there even when it
\* counts as detached.
Stop ==
  /\ ops # <<>>
  /\ ops' = <<>>
  /\ disk' = (<<>> :> "none") @@ disk
  /\ UNCHANGED <<revs, killed, work, held, resolutions, edit, commands>>

---------------------------------------------------------------------------
(* Commands *)

checkout_common(rid) ==
  /\ ops = <<>> /\ commands < MaxCommands /\ work.base = 0 /\ revision_exists(rid)
  /\ \E cs \in {cset(EmptyRoster, revs[rid].roster)} :
       Run(PutWork("checkout", make_revision_for_workspace(rid, NoWork.cs))
           \o (IF Refused(cs, FALSE) THEN <<>> ELSE perform_content_update(cs)))

\* The changes at the paths become a revision, the others stay.
perform_commit(paths) ==
  /\ Idle
  /\ \E shape \in {get_current_roster_shape} : \E mask \in {node_restriction(shape, paths, TRUE)} :
     \E here \in {Included(mask, shape)} :
       /\ missing_items(shape, here) = {}
       /\ \E new \in {update_current_roster_from_filesystem(shape, here)} :
          \E restricted \in {make_restricted_roster(Parent, new, mask)} :
            /\ restricted.ok
            /\ \E cs \in {cset(Parent, restricted)} : \E new_id \in {Len(revs) + 1} :
               \E rev \in {[parent |-> work.base, cs |-> cs,
                            roster |-> apply_to(cs, Parent, 10 * new_id)]} :
               \E same \in {{r \in DOMAIN revs : revs[r].parent = work.base /\ revs[r].cs = cs}} :
               \E rid \in IF same = {} THEN {new_id} ELSE same :
                 /\ cs # NoWork.cs
                 /\ Run(Finish([op |-> "commit", rid |-> rid, rev |-> rev],
                               PutWork("commit",
                                       make_revision_for_workspace(rid, cset(restricted, new)))))

\* A merge of two contents has the edits of both.
merge_content(left, right) ==
  CHOOSE c \in DOMAIN EditsIn : EditsIn[c] = EditsIn[left] \cup EditsIn[right]

\* The merge of the workspace with the target, with its base as the ancestor.
three_way_merge(old, working, chosen) ==
  LET none == [n \in Ids(old) |-> mark_new_node(0, old.nodes[n])]
      side(r, rid) == [roster |-> r, marks |-> mark_roster_with_one_parent(old, none, rid, r),
                       uncommon |-> {rid}]
  IN roster_merge(side(working, 1), side(chosen, 2))

RECURSIVE Descends(_, _)
Descends(r, b) == revs[r].parent # 0 /\ (revs[r].parent = b \/ Descends(revs[r].parent, b))

\* Candidates are the heads among the descendants of the base.  (Another
\* target can be asked for; branches and test results are left out.)
pick_update_candidates ==
  LET below == {r \in DOMAIN revs \ killed : Descends(r, work.base)}
  IN {r \in below : \A q \in below : ~ Descends(q, r)}

UpdateSteps_WorkFirst(alterations, put) == put \o alterations

\* The files are changed before _MTN/revision.
UpdateSteps(alterations, put) == alterations \o put

update(target, move) ==
  /\ Idle /\ target \in pick_update_candidates
  /\ \E shape \in {get_current_roster_shape} :
       /\ missing_items(shape, Ids(shape)) = {}
       /\ \E working \in {update_current_roster_from_filesystem(shape, Ids(shape))} :
          \E chosen \in {revs[target].roster} :
          \E m \in {three_way_merge(Parent, working, chosen)} :
            /\ ~ Aborted(m) /\ ~ has_non_content_conflicts(m)
            /\ \E merged \in {[m.r EXCEPT !.nodes = [n \in Ids(m.r) |->
                 IF n \in m.file_content
                 THEN [m.r.nodes[n] EXCEPT !.content = merge_content(working.nodes[n].content,
                                                                     chosen.nodes[n].content)]
                 ELSE m.r.nodes[n]]]} :
               \E cs \in {cset(working, merged)} :
                 /\ ~ Refused(cs, move)
                 /\ Run(UpdateSteps(perform_content_update(cs),
                          PutWork("update", make_revision_for_workspace(target,
                                              cset(chosen, merged)))))

\* What is at a path becomes a node, and so do the directories above it.
add_nodes_for(r, p) ==
  LET add(s, i) ==
        LET q == SubSeq(p, 1, i)
            n == 2 * TempId + i
            new == create_node(s, n, IF disk[q] = "none" THEN "dir" ELSE "file", disk[q])
        IN IF get_node(s, q) # Null THEN Check(s, s.nodes[get_node(s, q)].type = "dir")
           ELSE attach_node(new, n, get_node(s, Front(q)), Last(q))
  IN Each(add, r, [i \in 1..Len(p) |-> i])

perform_additions(p) ==
  /\ Idle /\ p \in DOMAIN disk
  /\ \E shape \in {get_current_roster_shape} :
       /\ get_node(shape, p) = Null
       /\ \E new \in {add_nodes_for(shape, p)} :
            /\ new.ok
            /\ Run(PutWork("add", make_revision_for_workspace(work.base, cset(Parent, new))))

\* What is dropped is deleted bottom up, and _MTN/revision written last.
perform_deletions(p, recursive) ==
  /\ Idle /\ p # <<>>
  /\ \E shape \in {get_current_roster_shape} : \E n \in {get_node(shape, p)} :
       /\ n # Null
       /\ \E doomed \in {{c \in Ids(shape) : Above(shape, n, c)}} :
            /\ recursive \/ doomed = {n}
            /\ Run(Map(BottomUp({[path |-> get_name(shape, c), val |-> shape.nodes[c].content] :
                                  c \in doomed \cap Ids(Parent)}),
                       LAMBDA x : Step("delete", 0, x.path, x.val))
                   \o PutWork("drop", make_revision_for_workspace(work.base,
                        cset(Parent, [shape EXCEPT !.nodes =
                               [c \in Ids(shape) \ doomed |-> shape.nodes[c]]]))))

\* The manifest is renamed first, and then what is there.  A name that is
\* taken is that of a directory to move to.
perform_rename(src, dst) ==
  /\ Idle /\ src # <<>> /\ ~ Below(src, dst)
  /\ \E shape \in {get_current_roster_shape} :
     \E to \in {IF get_node(shape, dst) = Null THEN dst ELSE Append(dst, Last(src))} :
       /\ get_node(shape, src) # Null /\ get_node(shape, to) = Null
       /\ OnDisk("dir", Front(to))
       /\ \E grown \in {add_nodes_for(shape, Front(to))} :
          \E new \in {attach_node(detach_node(grown, src), get_node(shape, src),
                                  get_node(grown, Front(to)), Last(to))} :
            /\ new.ok
            /\ Run(PutWork("rename", make_revision_for_workspace(work.base, cset(Parent, new)))
                   \o (IF src \in DOMAIN disk /\ to \notin DOMAIN disk
                       THEN <<[op |-> "move", path |-> src, to |-> to]>> ELSE <<>>))

perform_pivot_root(new_root, put_old, move) ==
  /\ Idle
  /\ \E shape \in {get_current_roster_shape} :
     \E n \in {get_node(shape, new_root)} :
       /\ n \notin {Null, shape.root} /\ shape.nodes[n].type = "dir"
       /\ get_node(shape, new_root \o Front(put_old)) # Null
       /\ get_node(shape, new_root \o put_old) = Null
       /\ \E cs \in {[NoWork.cs EXCEPT !.nodes_renamed =
                        {[path |-> <<>>, to |-> put_old], [path |-> new_root, to |-> <<>>]}]} :
          \E w \in {make_revision_for_workspace(work.base,
                                                cset(Parent, apply_to(cs, shape, 2 * TempId)))} :
            Run(PutWork("pivot", w)
                \o (IF Refused(cs, move) THEN <<>> ELSE perform_content_update(cs)))

\* What is at the paths, or all that is missing, goes back to the parent's.
revert(paths, missing, undrop) ==
  /\ Idle
  /\ \E shape \in {get_current_roster_shape} :
     \E gone \in {find_missing(shape)} :
     \E mask \in {IF missing THEN node_restriction(shape, {get_name(shape, n) : n \in gone}, TRUE)
                  ELSE node_restriction(shape, paths, FALSE)} :
     \E r \in {make_restricted_roster(shape, Parent, mask)} :
       /\ missing => gone # {}
       /\ r.ok
       /\ \E todo \in {{n \in Included(mask, r) \ {r.root} :
                          OnDisk(r.nodes[n].type, get_name(r, n)) =>
                            ~ undrop /\ disk[get_name(r, n)] # r.nodes[n].content}} :
            Run(Map(Sorted(todo), LAMBDA n : Step("write", 0, get_name(r, n), r.nodes[n].content))
                \o PutWork("revert", make_revision_for_workspace(work.base, cset(Parent, r))))

\* A killed base leaves its whole change, contents included, in _MTN/revision.
\* (The first revision is not killed: a base of 0 is no workspace.)
kill_revision(rid) ==
  /\ ops = <<>> /\ commands < MaxCommands
  /\ rid # 1 /\ revision_exists(rid) /\ get_revision_children(rid) = {}
  /\ \E redo \in {work.base = rid} :
       /\ redo => \A shape \in {get_current_roster_shape} :
                    missing_items(shape, Ids(shape)) = {} /\ ~ has_changes(shape)
       /\ Run((IF redo THEN PutWork("kill", [base |-> revs[rid].parent, cs |-> revs[rid].cs])
               ELSE <<>>)
              \o <<[op |-> "kill", rid |-> rid, redo |-> redo]>>)

---------------------------------------------------------------------------
(* The user *)

Edit(p) ==
  /\ Idle /\ edit = "none" /\ p \in DOMAIN disk /\ disk[p] # "none"
  /\ disk' = [disk EXCEPT ![p] = merge_content(@, "u")]
  /\ edit' = "made"
  /\ UNCHANGED <<revs, killed, work, held, resolutions, ops, commands>>

\* "you must clean up": what is in _MTN/detached goes back, or aside.
CleanUp ==
  LET t(n) == held.trees[n]
      places(n) == {p \in Spares \cup {t(n).from} : p # <<>> /\ Free(disk, p, t(n).tree)}
  IN /\ Idle /\ held.exists
     /\ \/ /\ DOMAIN held.trees = {} /\ UNCHANGED disk
           /\ held' = [held EXCEPT !.exists = FALSE]
        \/ \E n \in DOMAIN held.trees : \E p \in places(n) :
             /\ disk' = Put(disk, p, t(n).tree)
             /\ held' = [held EXCEPT !.trees = Without(@, n)]
     /\ UNCHANGED <<revs, killed, work, resolutions, ops, edit, commands>>

---------------------------------------------------------------------------

Init ==
  /\ \E tip \in Tips :
       revs = <<[parent |-> 0, cs |-> cset(EmptyRoster, Base), roster |-> Base],
                [parent |-> 1, cs |-> cset(Base, tip), roster |-> tip]>>
  /\ \/ work = NoWork /\ disk = <<>> :> "none"
     \/ /\ work = [NoWork EXCEPT !.base = 1]
        /\ disk = [p \in {get_name(Base, n) : n \in Ids(Base)} |->
                     Base.nodes[get_node(Base, p)].content]
  /\ killed = {}
  /\ held = [exists |-> FALSE, trees |-> <<>>]
  /\ resolutions = <<>>
  /\ ops = <<>>
  /\ edit = "none"
  /\ commands = 0

\* What the user may name: what is there, and what was there first.
Given == DOMAIN disk \cup {get_name(Base, n) : n \in Ids(Base)}

Command ==
  \/ checkout_common(1)
  \/ \E p \in Given : perform_commit({p})
  \/ \E target \in DOMAIN revs, move \in BOOLEAN : update(target, move)
  \/ \E p \in Given : perform_additions(p) \/ \E recursive \in BOOLEAN : perform_deletions(p, recursive)
  \/ \E src \in Given, dst \in Names : perform_rename(src, dst)
  \/ \E p \in Given, move \in BOOLEAN : perform_pivot_root(p, <<"old">>, move)
  \/ \E p \in Given, undrop \in BOOLEAN : revert({p}, FALSE, undrop)
  \/ revert({}, TRUE, FALSE)
  \/ \E rid \in DOMAIN revs : kill_revision(rid)

Alteration ==
  \/ mkdir \/ create_node_step \/ detach_node_step \/ attach_node_step \/ drop_detached_node_step
  \/ apply_delta_step \/ rmdir \/ move_conflicting_path \/ put_work_rev \/ commit_transaction
  \/ delete_existing_rev_and_certs \/ delete_file_or_dir_shallow \/ move_path \/ write_data

Next ==
  \/ Command \/ Alteration \/ Stop \/ CleanUp
  \/ \E p \in DOMAIN disk : Edit(p)

Spec == Init /\ [][Next]_vars

---------------------------------------------------------------------------
(* Properties *)

\* _MTN/revision never names a base that the database does not have, also
\* when a commit is killed before or after its transaction, or kill_revision
\* deletes the base.
BaseExists == work.base = 0 \/ revision_exists(work.base)

\* What the user wrote and did not revert is somewhere: in a file, in
\* _MTN/detached, among the conflicting paths put aside, or committed (the
\* texts of a killed revision stay in the database).
EditKept ==
  edit = "made" =>
    \/ \E p \in DOMAIN disk : HasEdit(disk[p])
    \/ \E n \in DOMAIN held.trees : \E q \in DOMAIN held.trees[n].tree : HasEdit(held.trees[n].tree[q])
    \/ \E p \in DOMAIN resolutions : HasEdit(resolutions[p])
    \/ \E r \in DOMAIN revs : \E n \in Ids(revs[r].roster) : HasEdit(revs[r].roster.nodes[n].content)

\* No commit takes back what its parent has in a file: the base changes only
\* once the files have its changes, whenever an update is killed.
NothingUndone ==
  \A r \in DOMAIN revs : revs[r].parent # 0 =>
    LET new == revs[r].roster.nodes
        old == revs[revs[r].parent].roster.nodes
    IN \A n \in DOMAIN new \cap DOMAIN old : new[n].type = "file" =>
         EditsIn[old[n].content] \subseteq EditsIn[new[n].content]

\* When an update is about to move the base, the tree is that of the new base
\* and the changes that remain, and nothing is left in _MTN/detached.
UpdateComplete ==
  ops # <<>> /\ Head(ops).op = "work" /\ Head(ops).how = "update" =>
    \A shape \in {ShapeOf(Head(ops).work)} :
      /\ shape.ok /\ ~ held.exists /\ missing_items(shape, Ids(shape)) = {}
      /\ \A n \in Ids(shape) : shape.nodes[n].type = "file" =>
           EditsIn[shape.nodes[n].content] \subseteq EditsIn[disk[get_name(shape, n)]]

\* When kill_revision is about to delete the base of the workspace, what the
\* workspace has changed since the parent of that revision is the revision's
\* change, no more and no less: commit makes the same revision again.
Recommittable ==
  ops # <<>> /\ Head(ops).op = "kill" /\ Head(ops).redo =>
    \A shape \in {get_current_roster_shape} :
      /\ shape.ok /\ missing_items(shape, Ids(shape)) = {}
      /\ work.base = revs[Head(ops).rid].parent
      /\ cset(Parent, update_current_roster_from_filesystem(shape, Ids(shape))) = revs[Head(ops).rid].cs
=============================================================================
