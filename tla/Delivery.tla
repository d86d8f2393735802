------------------------------ MODULE Delivery ------------------------------
(***************************************************************************)
(* What the receiving end of a netsync session accepts (process_data_cmd   *)
(* and process_delta_cmd of src/src/network/netsync_session.cc over the    *)
(* prerequisites of put_file_version, put_revision and put_revision_cert   *)
(* in src/src/database.cc).  A delta whose base is missing, a revision     *)
(* whose parent or file is missing, and a certificate on a missing         *)
(* revision are dropped with a warning: a sender that relies on them never *)
(* happening has to implement this specification.                          *)
(*                                                                         *)
(* A revision's manifest is abstracted to the content of one path.         *)
(***************************************************************************)
CONSTANT NoFile  \* the content of a path that is not in the manifest

VARIABLES
  command,      \* the next command of the sender: an item, or [tag |-> "none"]
  parents,      \* the ancestry graph, as the sender knows it
  content,      \* content of the path in each revision
  held_files, held_revs, held_certs  \* what the receiver's database holds

held == <<held_files, held_revs, held_certs>>

\* The database of the receiver is complete: every revision it holds has its
\* ancestors, and its file, and every certificate has its revision.
Complete(files, revs, certs) ==
  /\ \A r \in revs : parents[r] \subseteq revs /\ content[r] \in files \cup {NoFile}
  /\ certs \subseteq revs

Init == command = [tag |-> "none"] /\ Complete(held_files, held_revs, held_certs)

put_file(f) ==
  /\ held_files' = held_files \cup {f}
  /\ UNCHANGED <<held_revs, held_certs>>

put_file_version(src, dst) ==
  /\ src \in held_files
  /\ put_file(dst)

put_revision(r) ==
  /\ r \notin held_revs
  /\ parents[r] \subseteq held_revs
  /\ content[r] \in held_files \cup {NoFile}
  /\ held_revs' = held_revs \cup {r}
  /\ UNCHANGED <<held_files, held_certs>>

\* Each revision has one certificate here, named by the revision.
put_revision_cert(r) ==
  /\ r \notin held_certs
  /\ r \in held_revs
  /\ held_certs' = held_certs \cup {r}
  /\ UNCHANGED <<held_files, held_revs>>

\* The command is carried out, and the sender has any other one next.
Next ==
  /\ \/ command.tag = "none" /\ UNCHANGED held
     \/ command.tag = "fdata" /\ put_file(command.id)
     \/ command.tag = "fdelta" /\ put_file_version(command.src, command.id)
     \/ command.tag = "rev" /\ put_revision(command.id)
     \/ command.tag = "cert" /\ put_revision_cert(command.id)
  /\ UNCHANGED <<parents, content>>

\* Every command received is accepted: none is dropped for a missing
\* prerequisite.
Spec == Init /\ [][Next]_<<command, parents, content, held>>
=============================================================================
