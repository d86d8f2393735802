------------------------------- MODULE Roster -------------------------------
(***************************************************************************)
(* Rosters as trees of nodes with identities, and csets between them       *)
(* (roster.cc, cset.cc).  A path is the sequence of its names.  A node has *)
(* one attribute: "unknown", "dead" or a value.  An operation whose I()    *)
(* fails clears ok.                                                        *)
(***************************************************************************)
EXTENDS Integers, SequencesExt

Null == 0  \* the_null_node

NewNode(type, content) ==
  [type |-> type, parent |-> Null, name |-> "", attr |-> "unknown",
   content |-> IF type = "file" THEN content ELSE "none"]

EmptyRoster == [nodes |-> <<>>, root |-> Null, old_locations |-> <<>>, ok |-> TRUE]

Ids(r) == DOMAIN r.nodes

Without(f, x) == [y \in DOMAIN f \ {x} |-> f[y]]

Check(r, holds) == [r EXCEPT !.ok = @ /\ holds]

get_child(r, d, name) == {n \in Ids(r) : r.nodes[n].parent = d /\ r.nodes[n].name = name}

has_child(r, d, name) == get_child(r, d, name) # {}

\* The node at a path, or Null.
RECURSIVE get_node(_, _)
get_node(r, p) ==
  IF p = <<>> THEN r.root
  ELSE LET d == get_node(r, Front(p))
       IN IF d = Null \/ ~ has_child(r, d, Last(p)) THEN Null
          ELSE CHOOSE n \in get_child(r, d, Last(p)) : TRUE

RECURSIVE get_name(_, _)
get_name(r, n) ==
  IF n = r.root THEN <<>> ELSE Append(get_name(r, r.nodes[n].parent), r.nodes[n].name)

\* Whether d lies on the way up from n.
RECURSIVE Above(_, _, _)
Above(r, d, n) == n # Null /\ (n = d \/ Above(r, d, r.nodes[n].parent))

---------------------------------------------------------------------------
(* Editing *)

create_node(r, n, type, content) == [r EXCEPT !.nodes = (n :> NewNode(type, content)) @@ @]

detach_child(r, n) == [r EXCEPT !.nodes[n].parent = Null, !.nodes[n].name = ""]

detach_node(r, p) ==
  LET n == get_node(r, p)
      d == [r EXCEPT !.old_locations = (n :> <<r.nodes[n].parent, r.nodes[n].name>>) @@ @]
  IN CASE n = Null -> Check(r, FALSE)
       [] p = <<>> -> [d EXCEPT !.root = Null]
       [] OTHER -> detach_child(d, n)

\* Only to a place that is free, and not to the one it was detached from.
attach_node(r, n, parent, name) ==
  LET free == IF parent = Null THEN name = "" /\ r.root = Null /\ r.nodes[n].type = "dir"
              ELSE /\ parent \in Ids(r) /\ r.nodes[parent].type = "dir"
                   /\ ~ has_child(r, parent, name)
      moved == n \in DOMAIN r.old_locations => r.old_locations[n] # <<parent, name>>
      ready == r.nodes[n].parent = Null /\ r.nodes[n].name = ""
      a == [r EXCEPT !.old_locations = Without(@, n)]
  IN IF ~ (free /\ moved /\ ready) THEN Check(r, FALSE)
     ELSE IF parent = Null THEN [a EXCEPT !.root = n]
     ELSE [a EXCEPT !.nodes[n].parent = parent, !.nodes[n].name = name]

drop_detached_node(r, n) ==
  Check([r EXCEPT !.nodes = Without(@, n), !.old_locations = Without(@, n)],
        r.nodes[n].parent = Null /\ \A c \in Ids(r) : r.nodes[c].parent # n)

apply_delta(r, p, old_id, new_id) ==
  LET n == get_node(r, p)
  IN IF n = Null THEN Check(r, FALSE)
     ELSE Check([r EXCEPT !.nodes[n].content = new_id],
                r.nodes[n].content = old_id /\ old_id # new_id)

\* An attribute nobody has seen is dead before it is set.
set_attr(r, p, val) ==
  LET n == get_node(r, p)
  IN IF n = Null THEN Check(r, FALSE)
     ELSE Check([r EXCEPT !.nodes[n].attr = val],
                (IF r.nodes[n].attr = "unknown" THEN "dead" ELSE r.nodes[n].attr) # val)

check_sane(r) ==
  /\ r.ok /\ DOMAIN r.old_locations = {} /\ r.root # Null
  /\ \A n \in Ids(r) :
       /\ Above(r, r.root, n)
       /\ r.nodes[n].type = "file" => r.nodes[n].content # "null"

---------------------------------------------------------------------------
(* Csets *)

Alive(attr) == attr \notin {"unknown", "dead"}

\* The constructor: what only one roster has, and what differs in both.
cset(from, to) ==
  LET A == from.nodes
      B == to.nodes
      both == Ids(from) \cap Ids(to)
      new == Ids(to) \ Ids(from)
  IN [nodes_deleted |-> {[path |-> get_name(from, n)] : n \in Ids(from) \ Ids(to)},
      nodes_added |-> {[path |-> get_name(to, n), type |-> B[n].type,
                        content |-> B[n].content] : n \in new},
      nodes_renamed |-> {[path |-> get_name(from, n), to |-> get_name(to, n)] :
                           n \in {m \in both : \/ A[m].name # B[m].name
                                               \/ A[m].parent # B[m].parent}},
      deltas_applied |-> {[path |-> get_name(to, n), old |-> A[n].content, new |-> B[n].content] :
                            n \in {m \in both : A[m].content # B[m].content}},
      attrs_cleared |-> {[path |-> get_name(to, n)] :
                           n \in {m \in both : Alive(A[m].attr) /\ ~ Alive(B[m].attr)}},
      attrs_set |-> {[path |-> get_name(to, n), val |-> B[n].attr] :
                       n \in {m \in both : Alive(B[m].attr) /\ A[m].attr # B[m].attr}
                             \cup {m \in new : Alive(B[m].attr)}}]

\* Changes in the order of their paths: what is in a directory after it.
RECURSIVE TopDown(_)
TopDown(S) ==
  IF S = {} THEN <<>>
  ELSE LET x == CHOOSE y \in S : \A z \in S : Len(y.path) <= Len(z.path)
       IN <<x>> \o TopDown(S \ {x})

BottomUp_TopDown(S) == TopDown(S)

\* A directory is detached after what is in it.
BottomUp(S) == Reverse(TopDown(S))

Each(op(_, _), r, s) ==
  LET f[i \in 0..Len(s)] == IF i = 0 THEN r ELSE op(f[i - 1], s[i])
  IN f[Len(s)]

\* apply_to: additions, detaches bottom-up, attaches top-down, drops, and
\* changes in place.  The nodes that cs adds get the identities after base.
apply_to(cs, r, base) ==
  LET added == TopDown(cs.nodes_added)
      new == {[node |-> base + i, path |-> added[i].path] : i \in DOMAIN added}
      moved == {[node |-> get_node(r, x.path), path |-> x.to] : x \in cs.nodes_renamed}
      attach(t, a) ==
        IF a.path = <<>> THEN attach_node(t, a.node, Null, "")
        ELSE LET d == get_node(t, Front(a.path))
             IN IF d = Null THEN Check(t, FALSE) ELSE attach_node(t, a.node, d, Last(a.path))
      created == [r EXCEPT !.nodes = [i \in {a.node : a \in new} |->
                                        NewNode(added[i - base].type, added[i - base].content)] @@ @]
      detached == Each(LAMBDA t, x : detach_node(t, x.path), created,
                       BottomUp({[path |-> x.path] : x \in cs.nodes_deleted \cup cs.nodes_renamed}))
      attached == Each(attach, detached, TopDown(new \cup moved))
      dropped == Each(LAMBDA t, x : drop_detached_node(t, get_node(r, x.path)), attached,
                      TopDown(cs.nodes_deleted))
      patched == Each(LAMBDA t, x : apply_delta(t, x.path, x.old, x.new), dropped,
                      TopDown(cs.deltas_applied))
      cleared == Each(LAMBDA t, x : set_attr(t, x.path, "dead"), patched,
                      TopDown(cs.attrs_cleared))
  IN Each(LAMBDA t, x : set_attr(t, x.path, x.val), cleared, TopDown(cs.attrs_set))
=============================================================================
