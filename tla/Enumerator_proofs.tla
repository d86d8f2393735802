------------------------- MODULE Enumerator_proofs -------------------------
(***************************************************************************)
(* Whatever the ancestry graph and whatever the peer has, the enumerator   *)
(* sends nothing that the peer cannot use when it arrives.                 *)
(***************************************************************************)
EXTENDS Enumerator, FiniteSetTheorems, SequenceTheorems, TLAPS

Typed ==
  /\ parents \in [Rev -> SUBSET Rev] /\ content \in [Rev -> File \cup {NoFile}]
  /\ revs \in Seq(Rev \cup {NullRev})
  /\ enumerated_nodes \subseteq Rev \cup {NullRev}
  /\ held_revs \subseteq Rev

\* The session's sets mirror what the peer has, which is complete.
Mirrored ==
  /\ rev_items_to_send = Rev \ held_revs
  /\ cert_items_to_send = Rev \ held_certs
  /\ file_items_sent \subseteq held_files
  /\ Receiver!Complete(held_files, held_revs, held_certs)

RevItem(r) == [tag |-> "rev", id |-> r]
CertItem(r) == [tag |-> "cert", id |-> r]

\* The file items that r may need; the base of a delta is there.
FileItem(r) ==
  {[tag |-> "fdata", id |-> content[r]]}
  \cup {[tag |-> "fdelta", src |-> s, id |-> content[r]] : s \in held_files}

\* All that was enumerated has been sent, but for the items of r.
SentBut(S) == enumerated_nodes \ {NullRev} \subseteq held_revs \cup S

AwaitsCert(r) == items = <<CertItem(r)>> /\ r \in held_revs \ held_certs /\ SentBut({})

Sendable(r) == r \in Rev \ held_revs /\ parents[r] \subseteq held_revs /\ SentBut({r})

AwaitsRev(r) ==
  /\ items = <<RevItem(r), CertItem(r)>> /\ Sendable(r)
  /\ content[r] \in held_files \cup {NoFile}

AwaitsFile(r) ==
  /\ Sendable(r)
  /\ \E f \in FileItem(r) : items = <<f, RevItem(r), CertItem(r)>>

Stage ==
  \/ items = <<>> /\ SentBut({})
  \/ \E r \in Rev : AwaitsCert(r) \/ AwaitsRev(r) \/ AwaitsFile(r)

IInv == Typed /\ Mirrored /\ Stage

---------------------------------------------------------------------------

\* The children that are pushed to the front are revisions.
LEMMA ChildrenAreRevisions ==
  ASSUME NEW r, NEW order \in SetToSeqs(Children(r))
  PROVE  order \in Seq(Rev)
<1>1. Children(r) \subseteq Rev
  BY DEF Children
<1>2. IsFiniteSet(Children(r))
  BY <1>1, RevAssumption, FS_Subset
<1>3. Cardinality(Children(r)) \in Nat
  BY <1>2, FS_CardinalityType
<1>4. order \in [1..Cardinality(Children(r)) -> Children(r)]
  BY DEF SetToSeqs
<1> QED
  BY <1>1, <1>3, <1>4

\* A file that no item is made for is with one of the parents, or was sent.
LEMMA FileAtHand ==
  ASSUME Typed, Mirrored, NEW r \in Rev, parents[r] \subseteq held_revs,
         NEW files \in files_for_revision(r)
  PROVE  \/ files = <<>> /\ content[r] \in held_files \cup {NoFile}
         \/ \E f \in FileItem(r) : files = <<f>>
<1> DEFINE new == {f \in File : \A p \in Edges(r) : f \in NewIn(r, p)}
<1>0. r # NullRev /\ ContentOf(r) = content[r]
  BY RevAssumption DEF ContentOf, NullRev
<1>1. Edges(r) # {} /\ Edges(r) \subseteq parents[r] \cup {NullRev}
  BY DEF Edges
<1>2. \A p \in Edges(r) : ContentOf(p) \in held_files \cup {NoFile}
  BY <1>1 DEF ContentOf, Mirrored, Receiver!Complete
<1>3. \A f \in new : f = content[r]
  BY <1>0, <1>1 DEF NewIn
<1>4. CASE new = {}
  <2>1. files = <<>>
    BY <1>4 DEF files_for_revision
  <2>2. content[r] \in held_files \cup {NoFile}
    BY <1>0, <1>2, <1>4 DEF NewIn, Typed
  <2> QED
    BY <2>1, <2>2
<1>5. CASE new # {}
  <2> DEFINE deltas == {<<ContentOf(p), f>> : p \in {q \in Edges(r) : ContentOf(q) # NoFile}, f \in new}
  <2>1. CASE deltas = {}
    <3>1. files \in {<<[tag |-> "fdata", id |-> f]>> : f \in new}
      BY <1>5, <2>1 DEF files_for_revision
    <3> QED
      BY <3>1, <1>3 DEF FileItem
  <2>2. CASE deltas # {}
    <3>1. files \in {<<[tag |-> "fdelta", src |-> d[1], id |-> d[2]]>> : d \in deltas}
      BY <1>5, <2>2 DEF files_for_revision
    <3>2. PICK d \in deltas : files = <<[tag |-> "fdelta", src |-> d[1], id |-> d[2]]>>
      BY <3>1
    <3>3. d[1] \in held_files /\ d[2] = content[r]
      BY <1>2, <1>3
    <3> QED
      BY <3>2, <3>3 DEF FileItem
  <2> QED
    BY <2>1, <2>2
<1> QED
  BY <1>4, <1>5

\* A concatenation is known by its elements.
LEMMA ConcatIs ==
  ASSUME NEW S, NEW s \in Seq(S), NEW t \in Seq(S), NEW u \in Seq(S),
         Len(u) = Len(s) + Len(t),
         \A i \in 1..Len(u) : u[i] = IF i <= Len(s) THEN s[i] ELSE t[i - Len(s)]
  PROVE  s \o t = u
<1>1. /\ s \o t \in Seq(S) /\ Len(s \o t) = Len(u)
      /\ \A i \in 1..Len(u) : (s \o t)[i] = u[i]
  BY ConcatProperties
<1> QED
  BY <1>1, SeqEqual

\* The queue of a revision that is to be sent.
LEMMA QueueOf ==
  ASSUME NEW a, NEW b, NEW f
  PROVE  /\ (<<>> \o <<a>>) \o <<b>> = <<a, b>>
         /\ (<<f>> \o <<a>>) \o <<b>> = <<f, a, b>>
<1> DEFINE S == {a, b, f}
<1>0. /\ <<a>> \in Seq(S) /\ <<b>> \in Seq(S) /\ <<f>> \in Seq(S)
      /\ <<a, b>> \in Seq(S) /\ <<f, a>> \in Seq(S) /\ <<f, a, b>> \in Seq(S)
  OBVIOUS
<1> HIDE DEF S
<1>1. <<>> \o <<a>> = <<a>>
  BY <1>0
<1>2. ASSUME NEW x, NEW y, <<x>> \in Seq(S), <<y>> \in Seq(S), <<x, y>> \in Seq(S)
      PROVE  <<x>> \o <<y>> = <<x, y>>
  <2>1. Len(<<x, y>>) = Len(<<x>>) + Len(<<y>>)
    OBVIOUS
  <2>2. \A i \in 1..Len(<<x, y>>) :
          <<x, y>>[i] = IF i <= Len(<<x>>) THEN <<x>>[i] ELSE <<y>>[i - Len(<<x>>)]
    OBVIOUS
  <2> QED
    BY <1>2, <2>1, <2>2, ConcatIs, Zenon
<1>4. <<f, a>> \o <<b>> = <<f, a, b>>
  <2>1. Len(<<f, a, b>>) = Len(<<f, a>>) + Len(<<b>>)
    OBVIOUS
  <2>2. \A i \in 1..Len(<<f, a, b>>) :
          <<f, a, b>>[i] = IF i <= Len(<<f, a>>) THEN <<f, a>>[i] ELSE <<b>>[i - Len(<<f, a>>)]
    OBVIOUS
  <2> QED
    BY <1>0, <2>1, <2>2, ConcatIs, Zenon
<1> QED
  BY <1>0, <1>1, <1>2, <1>4, Zenon

\* Visiting a revision puts only items in the queue that can be sent.
LEMMA VisitKeeps ==
  ASSUME IInv, VisitRevision
  PROVE  IInv'
<1>r. PICK r : r = Head(revs)
  OBVIOUS
<1>0. /\ items = <<>> /\ revs # <<>> /\ NextRev(r) /\ SentBut({})
      /\ UNCHANGED <<parents, content, rev_items_to_send, cert_items_to_send, file_items_sent,
                     held_files, held_revs, held_certs>>
  BY <1>r DEF VisitRevision, IInv, Stage, AwaitsCert, AwaitsRev, AwaitsFile, graph, to_send, held
<1>1. r \in Rev \cup {NullRev} /\ Tail(revs) \in Seq(Rev \cup {NullRev})
  BY <1>r, <1>0 DEF IInv, Typed
<1>2. Mirrored'
  BY <1>0 DEF IInv, Mirrored, Receiver!Complete
<1>3. CASE r \in enumerated_nodes \/ ~ all_parents_enumerated(r)
  <2>1. /\ revs' = Tail(revs) \/ revs' = Append(Tail(revs), r)
        /\ UNCHANGED <<items, enumerated_nodes>>
    BY <1>0, <1>3 DEF NextRev
  <2>2. revs' \in Seq(Rev \cup {NullRev})
    BY <1>1, <2>1
  <2>3. Typed' /\ Stage'
    BY <1>0, <2>1, <2>2 DEF IInv, Typed, Stage, SentBut
  <2> QED
    BY <1>2, <2>3 DEF IInv
<1>4. CASE r \notin enumerated_nodes /\ all_parents_enumerated(r)
  <2>1. Expand(r)
    BY <1>0, <1>4 DEF NextRev
  <2>2. revs' \in Seq(Rev \cup {NullRev}) /\ enumerated_nodes' = enumerated_nodes \cup {r}
    <3>1. PICK order \in SetToSeqs(Children(r)) : revs' = order \o Tail(revs)
      BY <2>1 DEF Expand
    <3>2. order \in Seq(Rev \cup {NullRev})
      BY <3>1, ChildrenAreRevisions
    <3>3. order \o Tail(revs) \in Seq(Rev \cup {NullRev})
      BY <1>1, <3>2
    <3> QED
      BY <2>1, <3>1, <3>3, Zenon DEF Expand
  <2>3. Typed'
    BY <1>0, <1>1, <2>2 DEF IInv, Typed
  <2>4. CASE r = NullRev
    <3>1. items' = <<>> /\ SentBut({})'
      BY <1>0, <2>1, <2>2, <2>4 DEF Expand, SentBut
    <3> QED
      BY <1>2, <2>3, <3>1 DEF IInv, Stage
  <2>5. CASE r # NullRev
    <3>0. r \in Rev
      BY <1>1, <2>5
    <3>1. parents[r] \subseteq held_revs
      BY <1>0, <1>4, <2>5, <3>0, RevAssumption
         DEF all_parents_enumerated, Edges, SentBut, IInv, Typed, NullRev
    <3>2. PICK files \in files_for_revision(r) : items' = RevisionItems(r, files)
      BY <2>1, <2>5 DEF Expand
    <3>3. CASE r \in held_revs
      <4>1. items' = IF r \in held_certs THEN <<>> ELSE <<CertItem(r)>>
        BY <3>0, <3>2, <3>3 DEF RevisionItems, process_this_rev, queue_this_cert, CertItem, IInv, Mirrored
      <4>2. SentBut({})'
        BY <1>0, <2>2, <3>3 DEF SentBut
      <4> QED
        BY <1>0, <1>2, <2>3, <3>0, <3>3, <4>1, <4>2 DEF IInv, Stage, AwaitsCert, CertItem
    <3>4. CASE r \notin held_revs
      <4>1. r \in rev_items_to_send /\ r \in cert_items_to_send
        BY <3>0, <3>4 DEF IInv, Mirrored, Receiver!Complete
      <4>2. Sendable(r)'
        BY <1>0, <2>2, <3>0, <3>1, <3>4 DEF Sendable, SentBut
      <4>3. \/ files = <<>> /\ content[r] \in held_files \cup {NoFile}
            \/ \E f \in FileItem(r) : files = <<f>>
        BY <3>0, <3>1, <3>2, FileAtHand DEF IInv
      <4>4. CASE files = <<>> \/ ~ queue_this_file(files[1].id)
        <5>1. items' = <<RevItem(r), CertItem(r)>>
          BY <3>2, <4>1, <4>4, QueueOf, Zenon DEF RevisionItems, process_this_rev, queue_this_cert, CertItem, RevItem
        <5>2. content[r] \in held_files \cup {NoFile}
          BY <4>3, <4>4 DEF queue_this_file, FileItem, IInv, Mirrored
        <5>3. AwaitsRev(r)'
          BY <1>0, <4>2, <5>1, <5>2 DEF AwaitsRev, CertItem, RevItem
        <5> QED
          BY <1>2, <2>3, <3>0, <5>3 DEF IInv, Stage
      <4>5. CASE files # <<>> /\ queue_this_file(files[1].id)
        <5>1. PICK f \in FileItem(r) : files = <<f>>
          BY <4>3, <4>5
        <5>2. items' = <<f, RevItem(r), CertItem(r)>>
          BY <3>2, <4>1, <4>5, <5>1, QueueOf DEF RevisionItems, process_this_rev, queue_this_cert, CertItem, RevItem
        <5>3. f \in FileItem(r)'
          BY <1>0, <5>1 DEF FileItem
        <5>4. AwaitsFile(r)'
          BY <4>2, <5>2, <5>3 DEF AwaitsFile, CertItem, RevItem
        <5> QED
          BY <1>2, <2>3, <3>0, <5>4 DEF IInv, Stage
      <4> QED
        BY <4>4, <4>5
    <3> QED
      BY <3>3, <3>4
  <2> QED
    BY <2>4, <2>5
<1> QED
  BY <1>3, <1>4

\* Sending an item is a step of the receiver that takes the command, and
\* leaves the next item, if any, one that can be sent.
LEMMA ExtractKeeps ==
  ASSUME IInv, ExtractItem
  PROVE  IInv' /\ Receiver!Next
<1>0. items # <<>> /\ items' = Tail(items) /\ Command = Head(items)
      /\ UNCHANGED <<parents, content, revs, enumerated_nodes>>
  BY DEF ExtractItem, graph, Command
<1>1. ASSUME NEW r \in Rev, AwaitsCert(r) PROVE IInv' /\ Receiver!Next
  <2>1. Head(items) = CertItem(r) /\ items' = <<>>
    BY <1>0, <1>1 DEF AwaitsCert
  <2>2. note_cert(r)
    BY <2>1 DEF ExtractItem, CertItem
  <2>3. Typed' /\ Mirrored'
    BY <1>0, <1>1, <2>2 DEF IInv, Typed, Mirrored, Receiver!Complete, note_cert, AwaitsCert
  <2>4. Stage'
    BY <1>0, <1>1, <2>1, <2>2 DEF Stage, AwaitsCert, SentBut, note_cert
  <2>5. Receiver!Next
    BY <1>0, <1>1, <2>1, <2>2 DEF Receiver!Next, Receiver!put_revision_cert, CertItem, AwaitsCert, note_cert
  <2> QED
    BY <2>3, <2>4, <2>5 DEF IInv
<1>2. ASSUME NEW r \in Rev, AwaitsRev(r) PROVE IInv' /\ Receiver!Next
  <2>1. Head(items) = RevItem(r) /\ items' = <<CertItem(r)>>
    BY <1>0, <1>2 DEF AwaitsRev
  <2>2. note_rev(r)
    BY <2>1 DEF ExtractItem, RevItem
  <2>3. Typed' /\ Mirrored'
    BY <1>0, <1>2, <2>2
       DEF IInv, Typed, Mirrored, Receiver!Complete, note_rev, AwaitsRev, Sendable
  <2>4. AwaitsCert(r)'
    BY <1>0, <1>2, <2>1, <2>2
       DEF AwaitsCert, AwaitsRev, Sendable, SentBut, note_rev, CertItem, IInv, Mirrored, Receiver!Complete
  <2>5. Receiver!Next
    BY <1>0, <1>2, <2>1, <2>2 DEF Receiver!Next, Receiver!put_revision, RevItem, AwaitsRev, Sendable, note_rev
  <2> QED
    BY <2>3, <2>4, <2>5 DEF IInv, Stage
<1>3. ASSUME NEW r \in Rev, AwaitsFile(r) PROVE IInv' /\ Receiver!Next
  <2>1. PICK f \in FileItem(r) : Head(items) = f /\ items' = <<RevItem(r), CertItem(r)>>
    BY <1>0, <1>3 DEF AwaitsFile
  <2>2. note_file(content[r])
    BY <2>1 DEF ExtractItem, FileItem
  <2>3. Typed' /\ Mirrored'
    BY <1>0, <2>2 DEF IInv, Typed, Mirrored, Receiver!Complete, note_file
  <2>4. AwaitsRev(r)'
    BY <1>0, <1>3, <2>1, <2>2
       DEF AwaitsRev, AwaitsFile, Sendable, SentBut, note_file, RevItem, CertItem
  <2>5. Receiver!Next
    BY <1>0, <2>1, <2>2
       DEF Receiver!Next, Receiver!put_file_version, Receiver!put_file, FileItem, note_file
  <2> QED
    BY <2>3, <2>4, <2>5 DEF IInv, Stage
<1> QED
  BY <1>0, <1>1, <1>2, <1>3 DEF IInv, Stage

\* At the start the peer has what is complete, and nothing is enumerated.
LEMMA InitIInv == Init => IInv
BY DEF Init, IInv, Typed, Mirrored, Receiver!Complete, AncestorClosed, Stage, SentBut

\* The invariant holds throughout, and every step is one of the receiver.
LEMMA NextIInv ==
  ASSUME IInv, [Next]_vars
  PROVE  IInv' /\ [Receiver!Next]_<<Command, parents, content, Receiver!held>>
<1>1. CASE VisitRevision
  <2>1. Receiver!Next
    BY <1>1 DEF VisitRevision, Command, Receiver!Next, Receiver!held, held, graph
  <2> QED
    BY <1>1, <2>1, VisitKeeps
<1>2. CASE ExtractItem
  BY <1>2, ExtractKeeps
<1>3. CASE UNCHANGED vars
  BY <1>3 DEF vars, graph, walk, to_send, held, IInv, Typed, Mirrored, Receiver!Complete, Receiver!held,
              Stage, AwaitsCert, AwaitsRev, AwaitsFile, Sendable, SentBut, FileItem, Command
<1> QED
  BY <1>1, <1>2, <1>3 DEF Next, Finished

---------------------------------------------------------------------------

\* For every ancestry graph, whatever the peer has to begin with and in
\* whatever order the children of a revision are listed: the peer can use
\* every file, delta, revision and certificate at the time it is sent.
THEOREM SentItemsAccepted == Spec => EveryItemAccepted
<1>1. Init => Receiver!Init
  BY InitIInv DEF Init, IInv, Mirrored, Receiver!Init, Command
<1> QED
  BY <1>1, InitIInv, NextIInv, PTL DEF Spec, EveryItemAccepted, Receiver!Spec
=============================================================================
