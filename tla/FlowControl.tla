---------------------------- MODULE FlowControl ----------------------------
(***************************************************************************)
(* The buffers of a session's two ends and the connection between them:    *)
(* partial writes and reads, framing of netcmds, and the rules by which an *)
(* end stops reading, parsing or producing (session_base.cc, session.cc,   *)
(* reactor.cc, netcmd.cc).  A netcmd is its number and its size on the     *)
(* wire, a byte is the netcmd and its position in it.                      *)
(*                                                                         *)
(* Each end is told by a netcmd of its peer that refinement is over.  The  *)
(* handler of that queues a burst of items at once (send_all_data); then   *)
(* the revision enumerator produces the others as the output drains.       *)
(***************************************************************************)
EXTENDS Integers, Sequences, FiniteSetsExt, SequencesExt

CONSTANTS
  bufsz,         \* most bytes one read or write moves
  Overfull,      \* bufsz * 10 in the code
  netcmd_minsz, netcmd_payload_limit,
  Extra,         \* rest of the length field, and the HMAC
  Wire,          \* bytes the connection holds per direction
  Workload       \* per end: payload sizes of its [burst, steps]

VARIABLES
  work,    \* per end: its burst, and the revisions it has still to queue
  sent,    \* per end: netcmds queued so far
  outbuf,  \* per end: netcmds to write, the first without what is written
  wire,    \* per end: bytes on their way to it
  inbuf,   \* per end: bytes read
  armed,   \* per end: the netcmd parsed last, as its bytes, or <<>>
  got,     \* per end: netcmds processed
  pc       \* per end: "ready" (reactor::ready next) or "select" (do_io next)

vars == <<work, sent, outbuf, wire, inbuf, armed, got, pc>>

End == {"client", "server"}
Peer(e) == IF e = "client" THEN "server" ELSE "client"

netcmd_maxsz == netcmd_minsz + netcmd_payload_limit

encoded_size(payload) == netcmd_minsz + Extra + payload

RECURSIVE Total(_)
Total(s) == IF s = <<>> THEN 0 ELSE Head(s) + Total(Tail(s))

Sizes(payloads) == [i \in DOMAIN payloads |-> encoded_size(payloads[i])]

Bytes(n, size) == [i \in 1..size |-> [no |-> n, pos |-> i, size |-> size]]

\* An element of outbuf keeps its size until it is written completely.
OutBytes(e) == Total([i \in DOMAIN outbuf[e] |-> outbuf[e][i][1].size])

output_overfull(bytes) == bytes > Overfull

---------------------------------------------------------------------------
(* reactor::ready: session::do_work and then arm.  A turn is the state of  *)
(* one end in it.                                                          *)

arm(t) ==
  IF /\ t.armed = <<>> /\ ~ output_overfull(t.bytes)
     /\ Len(t.inbuf) >= netcmd_minsz /\ Len(t.inbuf) >= t.inbuf[1].size
  THEN [t EXCEPT !.armed = SubSeq(t.inbuf, 1, t.inbuf[1].size),
                 !.inbuf = SubSeq(@, t.inbuf[1].size + 1, Len(@))]
  ELSE t

queue_output(t, payloads) ==
  LET size == Sizes(payloads)
  IN [t EXCEPT !.sent = @ + Len(size),
               !.outbuf = @ \o [i \in DOMAIN size |-> Bytes(t.sent + i, size[i])],
               !.bytes = @ + Total(size)]

\* The first netcmd says that refinement is done; the others are items.
process(t) ==
  IF t.armed = <<>> THEN t
  ELSE [(IF t.got = 0 THEN queue_output(t, t.work.burst) ELSE t)
        EXCEPT !.armed = <<>>, !.got = @ + 1]

have_work_Always(t) == t.got > 0 /\ t.work.steps # <<>>

have_work(t) == t.got > 0 /\ t.work.steps # <<>> /\ ~ output_overfull(t.bytes)

\* rev_enumerator.step, n times.
Stepped(t, n) ==
  [queue_output(t, SubSeq(t.work.steps, 1, n)) EXCEPT !.work.steps = SubSeq(@, n + 1, Len(@))]

\* The loop goes on while there is work, or until it has taken ten seconds.
maybe_step(t) ==
  LET ok == {n \in 1..Len(t.work.steps) : \A i \in 0..(n - 1) : have_work(Stepped(t, i))}
  IN IF ok = {} THEN {t} ELSE {Stepped(t, n) : n \in ok}

do_work_OnlyOnNetcmd(t) ==
  UNION {IF a.armed = <<>> THEN {a} ELSE maybe_step(process(a)) : a \in {arm(t)}}

do_work(t) == UNION {maybe_step(p) : p \in {process(a) : a \in {arm(t)}}}

ready_for_io(e) ==
  /\ pc[e] = "ready"
  /\ \E t \in {arm(u) : u \in do_work([work |-> work[e], sent |-> sent[e], outbuf |-> outbuf[e],
              bytes |-> OutBytes(e), inbuf |-> inbuf[e], armed |-> armed[e], got |-> got[e]])} :
       /\ work' = [work EXCEPT ![e] = t.work]
       /\ sent' = [sent EXCEPT ![e] = t.sent]
       /\ outbuf' = [outbuf EXCEPT ![e] = t.outbuf]
       /\ inbuf' = [inbuf EXCEPT ![e] = t.inbuf]
       /\ armed' = [armed EXCEPT ![e] = t.armed]
       /\ got' = [got EXCEPT ![e] = t.got]
  /\ pc' = [pc EXCEPT ![e] = "select"]
  /\ UNCHANGED wire

---------------------------------------------------------------------------
(* reactor::do_io on what which_events asks for *)

ProbesRead_NotOverfull(e) ==
  Len(inbuf[e]) < netcmd_maxsz /\ armed[e] = <<>> /\ ~ output_overfull(OutBytes(e))

\* An end that is not armed reads, also when it is overfull.
ProbesRead(e) == Len(inbuf[e]) < netcmd_maxsz /\ armed[e] = <<>>

CanRead(e) == ProbesRead(e) /\ wire[e] # <<>>

CanWrite(e) == outbuf[e] # <<>> /\ Len(wire[Peer(e)]) < Wire

read_some(e) == Min({bufsz, Len(wire[e])})

write_some(e) == Min({Len(outbuf[e][1]), bufsz, Wire - Len(wire[Peer(e)])})

Unwritten_Pop(buf, n) == Tail(buf)

\* The element leaves the queue when its last byte is written.
Unwritten(buf, n) ==
  IF n = Len(buf[1]) THEN Tail(buf)
  ELSE [buf EXCEPT ![1] = SubSeq(@, n + 1, Len(@))]

\* One probe reports both events of the end; armed, it does not wait.
do_io(e) ==
  /\ pc[e] = "select"
  /\ CanRead(e) \/ CanWrite(e) \/ armed[e] # <<>>
  /\ LET r == IF CanRead(e) THEN read_some(e) ELSE 0
         w == IF CanWrite(e) THEN write_some(e) ELSE 0
     IN /\ inbuf' = [inbuf EXCEPT ![e] = @ \o SubSeq(wire[e], 1, r)]
        /\ wire' = [wire EXCEPT ![e] = SubSeq(@, r + 1, Len(@)),
                                ![Peer(e)] = @ \o (IF w = 0 THEN <<>>
                                                   ELSE SubSeq(outbuf[e][1], 1, w))]
        /\ outbuf' = [outbuf EXCEPT ![e] = IF w = 0 THEN @ ELSE Unwritten(@, w)]
  /\ pc' = [pc EXCEPT ![e] = "ready"]
  /\ UNCHANGED <<work, sent, armed, got>>

---------------------------------------------------------------------------

Init ==
  /\ work \in Workload
  /\ sent = [e \in End |-> 1]
  /\ outbuf = [e \in End |-> <<Bytes(1, encoded_size(0))>>]
  /\ wire = [e \in End |-> <<>>] /\ inbuf = [e \in End |-> <<>>]
  /\ armed = [e \in End |-> <<>>] /\ got = [e \in End |-> 0]
  /\ pc = [e \in End |-> "ready"]

Next == \E e \in End : ready_for_io(e) \/ do_io(e)

\* Both event loops go round.
Spec == Init /\ [][Next]_vars /\ \A e \in End : WF_vars(ready_for_io(e)) /\ WF_vars(do_io(e))

---------------------------------------------------------------------------
(* Properties *)

\* Both ends wait in select, which only the timeout of six hours ends.
Waiting ==
  \A e \in End : pc[e] = "select" /\ armed[e] = <<>> /\ ~ CanRead(e) /\ ~ CanWrite(e)

Full(e) == Len(inbuf[e]) >= netcmd_maxsz

\* A netcmd that the input limit cuts off: larger than netcmd_maxsz, "maximum
\* size of any netcmd on the wire, including payload" (constants.hh), which
\* leaves out the HMAC and all but one byte of the length.
CutOff(e) == Full(e) /\ Len(inbuf[e]) < inbuf[e][1].size

Delivered == \A e \in End : work[e].steps = <<>> /\ got[e] > 0 /\ got[e] = sent[Peer(e)]

\* Netcmds are parsed whole, each once and in the order in which they were
\* queued, however the bytes were cut by partial writes and reads.
FramesIntact ==
  \A e \in End : armed[e] # <<>> => armed[e] = Bytes(got[e] + 1, Len(armed[e]))

\* What an end buffers is bounded whatever its peer does: the input by the
\* limit and one read, the output, beyond the burst of a single handler, by
\* the limit and one revision.
BuffersBounded ==
  \A e \in End :
    /\ Len(inbuf[e]) < netcmd_maxsz + bufsz
    /\ outbuf[e] # <<>> /\ sent[e] > 1 + Len(work[e].burst) =>
         ~ output_overfull(OutBytes(e) - Last(outbuf[e])[1].size)

\* The two ends wait for each other before everything is delivered only if
\* both have more output and input than they may hold, or if a netcmd of
\* nearly the largest payload is cut off by the limit on input.
StallHasCause ==
  Waiting => \/ Delivered
             \/ \A e \in End : output_overfull(OutBytes(e)) /\ Full(e)
             \/ \E e \in End : CutOff(e)

Traffic(e) == encoded_size(0) + Total(Sizes(work[e].burst \o work[e].steps))

Fits ==
  /\ \A e \in End : \A p \in ToSet(work[e].burst \o work[e].steps) :
       encoded_size(p) <= netcmd_maxsz
  /\ \E e \in End : Traffic(e) < netcmd_maxsz

\* If no netcmd exceeds the input limit, and all that one of the two ends has
\* to send stays below it, both ends receive everything: production that
\* stopped when the output was overfull resumes, and nobody waits forever.
EverythingArrives == Fits => <>Delivered
=============================================================================
