----------------------------- MODULE Enumerator -----------------------------
(***************************************************************************)
(* revision_enumerator (src/src/enumerator.cc): after refinement the       *)
(* sending side of a netsync session walks the ancestry graph from the     *)
(* null revision and emits files, revisions and certificates.  The         *)
(* callbacks are those of netsync_session.                                 *)
(*                                                                         *)
(* One action is one turn of the loop of step().  terminal_nodes is never  *)
(* filled by the code, so it is left out.                                  *)
(***************************************************************************)
EXTENDS Integers, Sequences, FiniteSets, SequencesExt

CONSTANTS
  Rev,        \* revisions; 0 is the null id
  File,       \* contents of files
  NoFile,     \* the content of a path that is not in the manifest
  MaxParents  \* parents of a revision: two for a merge

ASSUME RevAssumption == IsFiniteSet(Rev) /\ Rev \subseteq Nat \ {0}
ASSUME NoFileAssumption == NoFile \notin File

NullRev == 0

VARIABLES
  parents, content,
  revs, items, enumerated_nodes,    \* revision_enumerator
  rev_items_to_send, cert_items_to_send, file_items_sent,  \* netsync_session
  held_files, held_revs, held_certs \* the peer's database

graph == <<parents, content>>
walk == <<revs, items, enumerated_nodes>>
to_send == <<rev_items_to_send, cert_items_to_send, file_items_sent>>
held == <<held_files, held_revs, held_certs>>
vars == <<graph, walk, to_send, held>>

\* The edges of a revision: a root has one, from the null revision.
Edges(r) == IF parents[r] = {} THEN {NullRev} ELSE parents[r]

ContentOf(r) == IF r = NullRev THEN NoFile ELSE content[r]

Children(r) == {c \in Rev : r \in Edges(c)}

AncestorClosed(S) == \A r \in S : parents[r] \subseteq S

\* Refinement leaves the revisions the peer lacks, and some certificates: all
\* those of the revisions it lacks and any of the others.
Init ==
  /\ parents \in [Rev -> {P \in SUBSET Rev : Cardinality(P) <= MaxParents}]
  /\ \A r \in Rev : \A p \in parents[r] : p < r
  /\ content \in [Rev -> File \cup {NoFile}]
  /\ held_revs \in {S \in SUBSET Rev : AncestorClosed(S)}
  /\ held_files = {content[r] : r \in held_revs} \ {NoFile}
  /\ held_certs \in SUBSET held_revs
  /\ rev_items_to_send = Rev \ held_revs
  /\ cert_items_to_send = Rev \ held_certs
  /\ file_items_sent = {}
  /\ revs = <<NullRev>>
  /\ items = <<>>
  /\ enumerated_nodes = {}

done == revs = <<>> /\ items = <<>>

all_parents_enumerated_Some(r) ==
  r = NullRev \/ Edges(r) \cap enumerated_nodes # {}

all_parents_enumerated(r) == r = NullRev \/ Edges(r) \subseteq enumerated_nodes

\* The content the edge from p adds or changes, if any.
NewIn(r, p) == {ContentOf(r)} \ {ContentOf(p), NoFile}

\* The choices of file items for a revision.  A content that some edge does
\* not list as new is thrown out; what is left goes as a delta against any
\* parent that has the path, else as full data.
files_for_revision(r) ==
  LET new == {f \in File : \A p \in Edges(r) : f \in NewIn(r, p)}
      deltas == {<<ContentOf(p), f>> : p \in {q \in Edges(r) : ContentOf(q) # NoFile}, f \in new}
  IN IF new = {} THEN {<<>>}
     ELSE IF deltas = {}
     THEN {<<[tag |-> "fdata", id |-> f]>> : f \in new}
     ELSE {<<[tag |-> "fdelta", src |-> d[1], id |-> d[2]]>> : d \in deltas}

process_this_rev(r) == r \in rev_items_to_send
queue_this_cert(c) == c \in cert_items_to_send
queue_this_file(f) == f \notin file_items_sent

\* The items of one revision: its file, itself, its certificates.
RevisionItems(r, files) ==
  (IF process_this_rev(r)
   THEN (IF files # <<>> /\ queue_this_file(files[1].id) THEN files ELSE <<>>)
        \o <<[tag |-> "rev", id |-> r]>>
   ELSE <<>>)
  \o (IF queue_this_cert(r) THEN <<[tag |-> "cert", id |-> r]>> ELSE <<>>)

\* Take the front revision: push its children to the front, in the order the
\* ancestry table happens to list them, and queue its items.
Expand(r) ==
  \E order \in SetToSeqs(Children(r)) :
    /\ revs' = order \o Tail(revs)
    /\ enumerated_nodes' = enumerated_nodes \cup {r}
    /\ IF r = NullRev THEN items' = <<>>
       ELSE \E files \in files_for_revision(r) : items' = RevisionItems(r, files)

NextRev_PutBackInFront(r) ==
  IF r \in enumerated_nodes \/ ~ all_parents_enumerated(r)
  THEN /\ revs' = IF r \in enumerated_nodes THEN Tail(revs) ELSE revs
       /\ UNCHANGED <<items, enumerated_nodes>>
  ELSE Expand(r)

\* Cull a revision enumerated meanwhile; put back one that waits for parents.
NextRev(r) ==
  IF r \in enumerated_nodes \/ ~ all_parents_enumerated(r)
  THEN /\ revs' = IF r \in enumerated_nodes THEN Tail(revs) ELSE Append(Tail(revs), r)
       /\ UNCHANGED <<items, enumerated_nodes>>
  ELSE Expand(r)

VisitRevision ==
  /\ items = <<>> /\ revs # <<>>
  /\ NextRev(Head(revs))
  /\ UNCHANGED <<graph, to_send, held>>

\* Send one item: the command is queued and the session notes it as sent.
note_file(f) ==
  /\ held_files' = held_files \cup {f}
  /\ file_items_sent' = file_items_sent \cup {f}
  /\ UNCHANGED <<held_revs, held_certs, rev_items_to_send, cert_items_to_send>>

note_rev(r) ==
  /\ held_revs' = held_revs \cup {r}
  /\ rev_items_to_send' = rev_items_to_send \ {r}
  /\ UNCHANGED <<held_files, held_certs, cert_items_to_send, file_items_sent>>

note_cert(c) ==
  /\ held_certs' = held_certs \cup {c}
  /\ cert_items_to_send' = cert_items_to_send \ {c}
  /\ UNCHANGED <<held_files, held_revs, rev_items_to_send, file_items_sent>>

ExtractItem ==
  /\ items # <<>>
  /\ items' = Tail(items)
  /\ \/ Head(items).tag \in {"fdata", "fdelta"} /\ note_file(Head(items).id)
     \/ Head(items).tag = "rev" /\ note_rev(Head(items).id)
     \/ Head(items).tag = "cert" /\ note_cert(Head(items).id)
  /\ UNCHANGED <<graph, revs, enumerated_nodes>>

Finished == done /\ UNCHANGED vars

Next == VisitRevision \/ ExtractItem \/ Finished

\* maybe_step keeps calling step() while there is work.
Spec == Init /\ [][Next]_vars /\ WF_vars(VisitRevision \/ ExtractItem)

---------------------------------------------------------------------------
(* Properties *)

\* The item that step() sends next.
Command == IF items = <<>> THEN [tag |-> "none"] ELSE Head(items)

Receiver == INSTANCE Delivery WITH command <- Command

\* The peer can use every command in the order it is sent: deltas follow
\* their base, revisions their parents and file, certificates their revision.
\* So what has arrived is a complete history wherever the transfer is cut short.
EveryItemAccepted == Receiver!Spec

\* The walk ends, a revision put back until its parents are enumerated being
\* eventually visited, and then every item refinement found has been sent, so
\* that queued_all_items holds and the session can finish.
WalkEnds == <>(done /\ rev_items_to_send = {} /\ cert_items_to_send = {})
=============================================================================
