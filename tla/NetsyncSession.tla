--------------------------- MODULE NetsyncSession ---------------------------
(***************************************************************************)
(* Netsync sessions between clients and one server: the service request,   *)
(* the epoch gate, refinement and transmission of keys, certificates and   *)
(* revisions, the bye handshake, and what happens to the databases when a  *)
(* connection or a process fails (src/src/network/netsync_session.cc,      *)
(* session.cc, session_base.cc, reactor.cc and src/src/netsync.cc).        *)
(*                                                                         *)
(* Every session has two ends.  The server handles all its sessions in one *)
(* process over one transaction (reactor), one command at a time; every    *)
(* client is a process of its own.  db[p] is what process p sees in its    *)
(* transaction, disk[p] what it has committed.  Refinement of one kind of  *)
(* item is abstracted to the comparison of the two root nodes (module      *)
(* Refiner), the walk of the ancestry graph to its order (modules          *)
(* Enumerator and Delivery).                                               *)
(***************************************************************************)
EXTENDS Integers, Sequences, FiniteSets, SequencesExt

CONSTANTS
  Client,           \* client processes; each runs one session
  Branch, Epoch,    \* branches and epoch values
  EpochZero,        \* the epoch of a branch that has none
  Key, ServerKey,   \* public keys, and the one the server presents
  Rev, Parents,     \* revisions and their ancestry
  Cert, CertRev, CertKey, CertBranch,  \* certificates; branch or NoBranch
  NoBranch,
  Included,         \* branches matched by the include/exclude patterns
  Scenario,         \* [disk, request]: the databases and what clients ask for,
                    \* [role, dry], where role "none" is a client that is not run
  MaxFaults         \* bound on connection failures, timeouts and crashes

VARIABLES
  db, disk,   \* per process: current transaction and committed state
  end,        \* per session and voice: the state of that end
  net,        \* per session and voice: commands on their way to that end
  request,    \* per session: what its client asks for
  outcome,    \* per client: what the command reported
  faults

vars == <<db, disk, end, net, request, outcome, faults>>

Voice == {"client", "server"}
Peer(v) == IF v = "client" THEN "server" ELSE "client"
Process == Client \cup {"server"}
Proc(c, v) == IF v = "client" THEN c ELSE "server"
Kind == {"epoch", "key", "cert", "rev"}

---------------------------------------------------------------------------
(* The items to synchronize *)

EpochOf(d, b) == {x \in d.epoch : x[1] = b}

\* Revisions with an included branch certificate, and their ancestors.
Reachable(d) ==
  LET tips == {CertRev[x] : x \in {y \in d.cert : CertBranch[y] \in Included}}
  IN {r \in Rev : \A S \in SUBSET Rev :
        tips \subseteq S /\ (\A q \in S : Parents[q] \subseteq S) => r \in S}

branches(d) == {CertBranch[x] : x \in d.cert} \cap Included

\* An included branch without an epoch gets the zero epoch.
WithEpochs(d) ==
  [d EXCEPT !.epoch = @ \cup {<<b, EpochZero>> : b \in {x \in branches(d) : EpochOf(d, x) = {}}}]

LocalItems(d) ==
  LET revs == Reachable(d)
      certs == {x \in d.cert : \/ CertBranch[x] \in Included
                               \/ CertBranch[x] = NoBranch /\ CertRev[x] \in revs}
  IN [epoch |-> UNION {EpochOf(d, b) : b \in branches(d)},
      rev   |-> revs,
      cert  |-> certs,
      key   |-> {CertKey[x] : x \in certs} \cap d.key]

---------------------------------------------------------------------------
(* One end of a session.  A handler maps a turn, the end with the database *)
(* of its process and the commands it queues, to another.                  *)

Nothing == [k \in Kind |-> {}]

NewEnd == [alive |-> FALSE, phase |-> "hello", err |-> "none", local |-> Nothing,
           to_send |-> Nothing, to_receive |-> [k \in Kind |-> 0], done |-> {},
           dry_keys_refined |-> FALSE]

Turn(c, v) == [e |-> end[c][v], d |-> db[Proc(c, v)], out |-> <<>>]

Role(c, v) ==
  IF v = "client" THEN request[c].role
  ELSE CASE request[c].role = "source" -> "sink"
         [] request[c].role = "sink" -> "source"
         [] request[c].role = "both" -> "both"

Queue(t, cmd) == [t EXCEPT !.out = Append(@, cmd)]

\* error(): tell the peer and only wait for that message to be flushed.
error(t, why) == [Queue(t, [cmd |-> "error"]) EXCEPT !.e.err = why]

\* bad_decode or a recoverable failure: the session is removed at once.
Abandon(t, why) == [t EXCEPT !.e.err = why, !.e.alive = FALSE]

rebuild_merkle_trees(t) ==
  LET d == WithEpochs(t.d)
  IN [t EXCEPT !.d = d, !.e.local = LocalItems(d)]

queue_data_cmd(c, v, t, k, i) ==
  IF Role(c, v) = "sink" THEN t
  ELSE [Queue(t, [cmd |-> "data", kind |-> k, item |-> i]) EXCEPT !.e.to_send[k] = @ \ {i}]

send_all_data(c, v, t, k) ==
  FoldLeft(LAMBDA u, i : queue_data_cmd(c, v, u, k, i), t, SetToSeq(t.e.to_send[k] \cap t.d[k]))

begin_refinement(t, k) == Queue(t, [cmd |-> "query", kind |-> k, items |-> t.e.local[k]])

\* Epochs all compared: the client starts the other refinements.
maybe_note_epochs_finished(c, v, t) ==
  IF /\ t.e.to_receive["epoch"] = 0 \/ Role(c, v) = "source"
     /\ "epoch" \in t.e.done
     /\ v = "client"
  THEN begin_refinement(begin_refinement(begin_refinement(t, "key"), "cert"), "rev")
  ELSE t

queue_done_cmd(c, v, t, k) ==
  IF v = "client" /\ request[c].dry /\ k = "key"
  THEN [t EXCEPT !.e.dry_keys_refined = TRUE]
  ELSE Queue(t, [cmd |-> "done", kind |-> k, n |-> Cardinality(t.e.to_send[k])])

\* A query or a response tells what the peer has.
process_refine_cmd(c, v, t, m) ==
  LET u == [t EXCEPT !.e.to_send[m.kind] = t.e.local[m.kind] \ m.items]
  IN IF m.cmd = "query"
     THEN Queue(u, [cmd |-> "response", kind |-> m.kind, items |-> t.e.local[m.kind]])
     ELSE queue_done_cmd(c, v, u, m.kind)

process_done_cmd(c, v, t, m) ==
  LET u == [(IF v = "server" THEN queue_done_cmd(c, v, t, m.kind) ELSE t)
              EXCEPT !.e.to_receive[m.kind] = m.n, !.e.done = @ \cup {m.kind}]
  IN CASE m.kind = "key" /\ Role(c, v) # "sink" -> send_all_data(c, v, u, "key")
       [] m.kind = "epoch" -> maybe_note_epochs_finished(c, v, send_all_data(c, v, u, "epoch"))
       [] OTHER -> u

\* put_revision and put_revision_cert drop what lacks its prerequisites.
Stored(d, k, i) ==
  IF \/ k = "rev" /\ ~ Parents[i] \subseteq d.rev
     \/ k = "cert" /\ CertRev[i] \notin d.rev
  THEN d ELSE [d EXCEPT ![k] = @ \cup {i}]

note_item_arrived(t, k) == [t EXCEPT !.e.to_receive[k] = @ - 1]

EpochClash(d, k, i) == k = "epoch" /\ i \notin d.epoch /\ EpochOf(d, i[1]) # {}

process_data_cmd_ExistingIgnored(c, v, t, m) ==
  LET k == m.kind
      u == note_item_arrived(t, k)
      noted(w) == IF k = "epoch" THEN maybe_note_epochs_finished(c, v, w) ELSE w
  IN IF Role(c, v) = "source" \/ t.e.to_receive[k] = 0 THEN Abandon(t, "protocol")
     ELSE IF m.item \in t.d[k] THEN u
     ELSE IF EpochClash(t.d, k, m.item) THEN error(u, "epoch")
     ELSE noted([u EXCEPT !.d = Stored(@, k, m.item)])

process_data_cmd_ClashIgnored(c, v, t, m) ==
  LET k == m.kind
      u == note_item_arrived(t, k)
      noted(w) == IF k = "epoch" THEN maybe_note_epochs_finished(c, v, w) ELSE w
  IN IF Role(c, v) = "source" \/ t.e.to_receive[k] = 0 THEN Abandon(t, "protocol")
     ELSE IF m.item \in t.d[k] \/ EpochClash(t.d, k, m.item) THEN noted(u)
     ELSE IF k = "cert" /\ CertKey[m.item] \notin t.d.key THEN Abandon(u, "protocol")
     ELSE noted([u EXCEPT !.d = Stored(@, k, m.item)])

process_data_cmd_DuplicateKey(c, v, t, m) ==
  LET k == m.kind
      u == note_item_arrived(t, k)
      noted(w) == IF k = "epoch" THEN maybe_note_epochs_finished(c, v, w) ELSE w
  IN IF k = "key" /\ m.item \in t.d.key THEN error(u, "duplicate")
     ELSE IF m.item \in t.d[k] THEN noted(u)
     ELSE IF EpochClash(t.d, k, m.item) THEN error(u, "epoch")
     ELSE noted([u EXCEPT !.d = Stored(@, k, m.item)])

process_data_cmd(c, v, t, m) ==
  LET k == m.kind
      u == note_item_arrived(t, k)
      noted(w) == IF k = "epoch" THEN maybe_note_epochs_finished(c, v, w) ELSE w
  IN IF Role(c, v) = "source" \/ t.e.to_receive[k] = 0 THEN Abandon(t, "protocol")
     ELSE IF m.item \in t.d[k] THEN noted(u)
     ELSE IF EpochClash(t.d, k, m.item) THEN error(u, "epoch")
     ELSE IF k = "cert" /\ CertKey[m.item] \notin t.d.key THEN Abandon(u, "protocol")
     ELSE noted([u EXCEPT !.d = Stored(@, k, m.item)])

---------------------------------------------------------------------------
(* When the client has finished working *)

done_all_refinements(e) == e.done = Kind

received_all_items(e, role) == role = "source" \/ \A k \in Kind : e.to_receive[k] = 0

queued_all_items(e, role) == role = "sink" \/ \A k \in Kind : e.to_send[k] = {}

dry_run_finished(e) == {"rev", "cert"} \subseteq e.done /\ e.dry_keys_refined

\* rev_enumerator.done() is implied: the walk ends with everything queued.
finished_working(e, role) ==
  \/ dry_run_finished(e)
  \/ done_all_refinements(e) /\ received_all_items(e, role) /\ queued_all_items(e, role)

\* The end of session::do_work in the client.
ShutDownIfFinished(c, v, t) ==
  IF v = "client" /\ t.e.err = "none" /\ t.e.phase = "working" /\ finished_working(t.e, Role(c, v))
  THEN [Queue(t, [cmd |-> "bye", n |-> 0]) EXCEPT !.e.phase = "shutdown"]
  ELSE t

---------------------------------------------------------------------------
(* Events *)

Init ==
  /\ \E s \in Scenario : disk = s.disk /\ request = s.request
  /\ db = disk
  /\ end = [c \in Client |-> [v \in Voice |-> NewEnd]]
  /\ net = [c \in Client |-> [v \in Voice |-> <<>>]]
  /\ outcome = [c \in Client |-> IF request[c].role = "none" THEN "absent" ELSE "idle"]
  /\ faults = 0

Alive(c, v) == end[c][v].alive

\* What the client reports when the reactor has dropped its session.
Report(e) ==
  CASE e.phase = "confirmed" -> "success"
    [] e.phase # "confirmed" /\ e.err # "none" -> "returned"
    [] OTHER -> "fault"

\* The commands that reach the connection: none once an error was queued.
write_netcmd(c, v, out) ==
  IF end[c][v].err = "none" /\ Alive(c, Peer(v)) THEN out ELSE <<>>

\* The turn of one end becomes the new state.  A client whose session is
\* removed commits whatever it has and ends with the outcome r.
Become(c, v, turn, checkpoint, inbox, r) ==
  \E t \in {turn} :
    LET p == Proc(c, v)
        left == v = "client" /\ ~ t.e.alive
    IN /\ end' = [end EXCEPT ![c][v] = t.e]
       /\ db' = [db EXCEPT ![p] = t.d]
       /\ disk' = IF checkpoint \/ left THEN [disk EXCEPT ![p] = t.d] ELSE disk
       /\ net' = [net EXCEPT ![c][v] = IF t.e.alive THEN inbox ELSE <<>>,
                              ![c][Peer(v)] = @ \o write_netcmd(c, v, t.out)]
       /\ outcome' = IF left THEN [outcome EXCEPT ![c] = r] ELSE outcome
       /\ UNCHANGED <<request, faults>>

\* An end takes the next command.
Arrives(c, v, cmds) ==
  Alive(c, v) /\ net[c][v] # <<>> /\ Head(net[c][v]).cmd \in cmds

\* A command that failed at once is a processing failure.
Processed(c, v, t, checkpoint) == Become(c, v, t, checkpoint, Tail(net[c][v]), "fault")

Connect(c) ==
  /\ outcome[c] = "idle"
  /\ outcome' = [outcome EXCEPT ![c] = "running"]
  /\ end' = [end EXCEPT ![c] = [v \in Voice |-> [NewEnd EXCEPT !.alive = TRUE]]]
  /\ net' = [net EXCEPT ![c]["client"] = <<[cmd |-> "hello"]>>]
  /\ UNCHANGED <<db, disk, request, faults>>

ReceiveHello(c) ==
  /\ Arrives(c, "client", {"hello"})
  /\ LET t == [Turn(c, "client") EXCEPT !.d.key = @ \cup {ServerKey}]
     IN Processed(c, "client", Queue(rebuild_merkle_trees(t), [cmd |-> "request"]), FALSE)

\* The server's hooks may deny the request.
DenyRequest(c) ==
  /\ Arrives(c, "server", {"request"})
  /\ Processed(c, "server", error(Turn(c, "server"), "denied"), FALSE)

handle_service_request(c) ==
  /\ Arrives(c, "server", {"request"})
  /\ LET t == rebuild_merkle_trees(Turn(c, "server"))
     IN Processed(c, "server", [Queue(t, [cmd |-> "confirm"]) EXCEPT !.e.phase = "working"], FALSE)

ReceiveConfirm(c) ==
  /\ Arrives(c, "client", {"confirm"})
  /\ LET t == [Turn(c, "client") EXCEPT !.e.phase = "working"]
     IN Processed(c, "client", begin_refinement(t, "epoch"), FALSE)

\* session::do_work for a working end; maybe_checkpoint may commit.
DoWork(c, v, turn) ==
  \E t \in {turn}, checkpoint \in BOOLEAN :
    LET u == ShutDownIfFinished(c, v, t)
    IN /\ u.e.phase = "shutdown" /\ end[c][v].phase = "working" => checkpoint
       /\ Processed(c, v, u, checkpoint)

Working(c, v) == end[c][v].err = "none"

ReceiveRefine(c, v) ==
  /\ Arrives(c, v, {"query", "response"}) /\ Working(c, v)
  /\ DoWork(c, v, process_refine_cmd(c, v, Turn(c, v), Head(net[c][v])))

ReceiveDone(c, v) ==
  /\ Arrives(c, v, {"done"}) /\ Working(c, v)
  /\ DoWork(c, v, process_done_cmd(c, v, Turn(c, v), Head(net[c][v])))

ReceiveData(c, v) ==
  /\ Arrives(c, v, {"data"}) /\ Working(c, v)
  /\ DoWork(c, v, process_data_cmd(c, v, Turn(c, v), Head(net[c][v])))

MayEmit_AnyOrder(e, k, i) == TRUE

\* The order of the enumerator: after the parents, after the revision.
MayEmit(e, k, i) ==
  IF k = "rev" THEN Parents[i] \cap e.to_send["rev"] = {}
               ELSE CertRev[i] \notin e.to_send["rev"]

\* maybe_step: send one more item.
Emit(c, v) ==
  /\ Alive(c, v) /\ Working(c, v)
  /\ done_all_refinements(end[c][v]) /\ Role(c, v) # "sink"
  /\ \E k \in {"rev", "cert"} : \E i \in end[c][v].to_send[k] :
       /\ MayEmit(end[c][v], k, i)
       /\ LET t == ShutDownIfFinished(c, v, queue_data_cmd(c, v, Turn(c, v), k, i))
          IN Become(c, v, t, t.e.phase = "shutdown" /\ end[c][v].phase = "working",
                    net[c][v], "fault")

ByeCheckpoint_Missing(c, v, t) == FALSE

\* The server commits before it answers the first bye.
ByeCheckpoint(c, v, t) == t.e.phase = "shutdown"

process_bye_cmd(c, v) ==
  /\ Arrives(c, v, {"bye"})
  /\ LET t == Turn(c, v)
         n == Head(net[c][v]).n
         u == CASE n = 0 /\ v = "server" /\ t.e.phase = "working" ->
                     Queue([t EXCEPT !.e.phase = "shutdown"], [cmd |-> "bye", n |-> 1])
                [] n = 1 /\ v = "client" /\ t.e.phase = "shutdown" ->
                     Queue([t EXCEPT !.e.phase = "confirmed"], [cmd |-> "bye", n |-> 2])
                [] n = 2 /\ v = "server" /\ t.e.phase = "shutdown" ->
                     [t EXCEPT !.e.phase = "confirmed", !.e.alive = FALSE]
                [] OTHER -> error(t, "protocol")
     IN Processed(c, v, u, ByeCheckpoint(c, v, u))

\* An error command ends the session at once.
ReceiveError(c, v) ==
  /\ Arrives(c, v, {"error"})
  /\ Processed(c, v, Abandon(Turn(c, v), IF end[c][v].err = "none" THEN "told" ELSE end[c][v].err), FALSE)

\* The reactor drops an end after input or output ended.
Drop(c, v) ==
  LET t == [Turn(c, v) EXCEPT !.e.alive = FALSE]
  IN Become(c, v, t, FALSE, <<>>, Report(t.e))

\* The error message has been flushed.
FlushError(c, v) == Alive(c, v) /\ end[c][v].err # "none" /\ Drop(c, v)

\* The peer closed the connection and everything it sent has been read.
SeeEOF(c, v) == Alive(c, v) /\ ~ Alive(c, Peer(v)) /\ net[c][v] = <<>> /\ Drop(c, v)

\* No session is left: the server's transaction is committed.
ServerQuiet ==
  /\ \A c \in Client : ~ Alive(c, "server")
  /\ disk["server"] # db["server"]
  /\ disk' = [disk EXCEPT !["server"] = db["server"]]
  /\ UNCHANGED <<db, end, net, request, outcome, faults>>

---------------------------------------------------------------------------
(* Failures *)

Fault == faults < MaxFaults /\ faults' = faults + 1

Removed(c, v) == end' = [end EXCEPT ![c][v].alive = FALSE]

\* Input or output fails, or the server prunes an idle session; what was on
\* its way to the peer may be lost.
IOFailure(c, v) ==
  /\ Fault /\ Alive(c, v) /\ Removed(c, v)
  /\ \E n \in 0..Len(net[c][Peer(v)]) :
       net' = [net EXCEPT ![c][v] = <<>>, ![c][Peer(v)] = SubSeq(@, 1, n)]
  /\ IF v = "client"
     THEN /\ disk' = [disk EXCEPT ![c] = db[c]]
          /\ outcome' = [outcome EXCEPT ![c] = Report(end[c][v])]
     ELSE UNCHANGED <<disk, outcome>>
  /\ UNCHANGED <<db, request>>

\* The client gives up waiting: its transaction is rolled back.
ClientTimeout(c) ==
  /\ Fault /\ Alive(c, "client") /\ Removed(c, "client")
  /\ net' = [net EXCEPT ![c]["client"] = <<>>]
  /\ db' = [db EXCEPT ![c] = disk[c]]
  /\ outcome' = [outcome EXCEPT ![c] = "fault"]
  /\ UNCHANGED <<disk, request>>

\* The server process dies; its open transaction is lost.
ServerCrash ==
  /\ Fault /\ \E c \in Client : Alive(c, "server")
  /\ end' = [c \in Client |-> [end[c] EXCEPT !["server"].alive = FALSE]]
  /\ net' = [c \in Client |-> [net[c] EXCEPT !["server"] = <<>>]]
  /\ db' = [db EXCEPT !["server"] = disk["server"]]
  /\ UNCHANGED <<disk, request, outcome>>

\* Every command has ended and the server is quiet.
Over ==
  /\ \A c \in Client : outcome[c] \notin {"idle", "running"} /\ ~ Alive(c, "server")
  /\ disk["server"] = db["server"]
  /\ UNCHANGED vars

Step ==
  \/ \E c \in Client :
       \/ Connect(c) \/ ReceiveHello(c) \/ DenyRequest(c) \/ handle_service_request(c)
       \/ ReceiveConfirm(c)
       \/ \E v \in Voice :
            \/ ReceiveRefine(c, v) \/ ReceiveDone(c, v) \/ ReceiveData(c, v)
            \/ Emit(c, v) \/ process_bye_cmd(c, v) \/ ReceiveError(c, v)
            \/ FlushError(c, v) \/ SeeEOF(c, v)
  \/ ServerQuiet

Failure ==
  \/ \E c \in Client : ClientTimeout(c) \/ \E v \in Voice : IOFailure(c, v)
  \/ ServerCrash

Next == Step \/ Failure \/ Over

\* The reactors keep running; nothing is assumed of failures.
Spec == Init /\ [][Next]_vars /\ WF_vars(Step)

---------------------------------------------------------------------------
(* Properties *)

Sink(c, v) == Role(c, v) # "source"

\* A client that reports success, short of a dry run, has left everything
\* its source offered committed in each sink, on both sides, whatever failed
\* in between ("the post-state of a netsync is that each sink contains a
\* superset of the items in its corresponding source", netsync.txt).
SuccessIsDurable ==
  \A c \in Client, v \in Voice :
    outcome[c] = "success" /\ ~ request[c].dry /\ Sink(c, v) =>
      \A k \in Kind : end[c][Peer(v)].local[k] \subseteq disk[Proc(c, v)][k]

\* A key, certificate or revision is only ever processed by an end that has
\* all epochs of its peer's branches, with the same values.
EpochsFirst ==
  \A c \in Client, v \in Voice :
    Arrives(c, v, {"data"}) /\ Working(c, v) /\ Head(net[c][v]).kind # "epoch" =>
      end[c][Peer(v)].local["epoch"] \subseteq db[Proc(c, v)].epoch

\* No command is dropped for a missing prerequisite: when a revision or a
\* certificate is processed, the parents, or the revision and the key it
\* needs, are already in the receiver's transaction, although that is shared
\* with other sessions and may be rolled back by a failure.
NothingDropped ==
  \A c \in Client, v \in Voice :
    Arrives(c, v, {"data"}) /\ Working(c, v) =>
      LET m == Head(net[c][v])
          d == db[Proc(c, v)]
      IN /\ m.kind = "rev" => Parents[m.item] \subseteq d.rev
         /\ m.kind = "cert" => CertRev[m.item] \in d.rev /\ CertKey[m.item] \in d.key

\* Without failures a session fails only because the server denied it or
\* because epochs differ: no counter underflows, no command is unexpected.
FaultsHaveCauses ==
  \A c \in Client :
    outcome[c] \in {"fault", "returned"} =>
      faults > 0 \/ \E v \in Voice : end[c][v].err \in {"denied", "epoch"}

\* Every client command ends.
SessionsEnd == <>(\A c \in Client : outcome[c] \notin {"idle", "running"})
=============================================================================
