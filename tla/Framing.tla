------------------------------ MODULE Framing ------------------------------
(***************************************************************************)
(* One direction of the connection between the two programs: ipc_send and  *)
(* ipc_recv (src/core/ipc.c) over net_send_all and net_recv_all            *)
(* (src/core/net.h).                                                       *)
(*                                                                         *)
(* A frame is a sequence of parts, of which the first is the length field. *)
(* The kernel keeps up to Capacity parts.  A blocking send waits for room, *)
(* and meanwhile other threads of the program may send on the same socket, *)
(* which no lock protects; a send that does not block (the TUI's) gives    *)
(* up, and its result is not looked at.  A receiver that does not block    *)
(* (the TUI) takes the rest of a frame that has not come yet for an error. *)
(***************************************************************************)
EXTENDS Naturals, Sequences, SequencesExt, FiniteSets

CONSTANTS
    Senders,       \* threads that send on the socket
    Capacity,      \* bound: parts the kernel holds for the reader
    FrameLens,     \* bound: parts of a frame
    MaxFrames      \* bound: frames a sender sends

ASSUME FramingAssumption ==
    /\ Capacity \in Nat \ {0} /\ MaxFrames \in Nat
    /\ FrameLens \subseteq Nat \ {0, 1}

VARIABLES
    blocks,        \* the socket blocks at the sending, at the receiving end
    sending,       \* what net_send_all has yet to send, for each sender
    frames,        \* the frames each sender began, by their lengths
    pipe,          \* the parts on their way
    rx,            \* ipc_recv: the parts it waits for and those it has
    received,      \* the messages handed to the program
    open,
    torn           \* history: parts of two frames are mixed, or one is cut

wireVars == <<blocks, sending, frames, pipe, rx, received, open, torn>>

\* Part i of the k-th frame of sender s, which has n parts.
Part == [s : Senders, k : 1..MaxFrames, i : Nat, n : FrameLens]
FrameParts(s, k, n) == [i \in 1..n |-> [s |-> s, k |-> k, i |-> i, n |-> n]]
NoRx == [need |-> 0, got |-> <<>>]

WireTypeOK ==
    /\ blocks \in [send : BOOLEAN, recv : BOOLEAN]
    /\ sending \in [Senders -> Seq(Part)] /\ frames \in [Senders -> Seq(FrameLens)]
    /\ pipe \in Seq(Part) /\ Len(pipe) <= Capacity
    /\ rx.need \in Nat /\ rx.got \in Seq(Part)
    /\ received \in Seq(Seq(Part))
    /\ {open, torn} \subseteq BOOLEAN

-----------------------------------------------------------------------------
(* Sending.                                                                *)

\* ipc_send lays the frame out in one buffer.
BeginSend(s) ==
    /\ open /\ sending[s] = <<>> /\ Len(frames[s]) < MaxFrames
    /\ \E n \in FrameLens :
        /\ frames' = [frames EXCEPT ![s] = Append(@, n)]
        /\ sending' = [sending EXCEPT ![s] = FrameParts(s, Len(frames[s]) + 1, n)]
    /\ UNCHANGED <<blocks, pipe, rx, received, open, torn>>

\* Some frame has been sent in part.
Begun(s) == sending[s] # <<>> /\ sending[s][1].i > 1

\* One call of send() in net_send_all: it takes what there is room for.
SendSome(s) ==
    /\ open /\ sending[s] # <<>>
    /\ LET room == Capacity - Len(pipe)
           n == IF room < Len(sending[s]) THEN room ELSE Len(sending[s])
       IN  /\ n > 0
           /\ pipe' = pipe \o SubSeq(sending[s], 1, n)
           /\ sending' = [sending EXCEPT ![s] = SubSeq(@, n + 1, Len(@))]
    /\ torn' = (torn \/ \E q \in Senders \ {s} : Begun(q))
    /\ UNCHANGED <<blocks, frames, rx, received, open>>

\* No room: a socket that does not block returns -1 and the frame is left as
\* it is; ipc_send's caller goes on.
SendGivesUp(s) ==
    /\ open /\ ~blocks.send
    /\ sending[s] # <<>> /\ Len(pipe) = Capacity
    /\ torn' = (torn \/ Begun(s))
    /\ frames' = IF Begun(s) THEN frames ELSE [frames EXCEPT ![s] = Front(@)]
    /\ sending' = [sending EXCEPT ![s] = <<>>]
    /\ UNCHANGED <<blocks, pipe, rx, received, open>>

-----------------------------------------------------------------------------
(* Receiving.                                                              *)

\* What net_recv_all has read as a length: that of the frame, or, in the
\* middle of one, whatever its bytes say (0: refused as too short).
LengthIn(part) == IF part.i = 1 THEN {part.n - 1} ELSE {n - 1 : n \in FrameLens} \cup {0}

\* ipc_recv, once poll says that there is something to read.
RecvLength ==
    /\ open /\ rx.need = 0 /\ pipe # <<>>
    /\ pipe' = Tail(pipe)
    /\ \E n \in LengthIn(Head(pipe)) :
        /\ rx' = [need |-> n, got |-> <<>>]
        /\ open' = (n > 0)
    /\ UNCHANGED <<blocks, sending, frames, received, torn>>

\* The faulty variant is content with what the first call gave.
RecvBodyOnce ==
    /\ open /\ rx.need > 0 /\ pipe # <<>>
    /\ LET n == IF Len(pipe) < rx.need THEN Len(pipe) ELSE rx.need
       IN  /\ pipe' = SubSeq(pipe, n + 1, Len(pipe))
           /\ rx' = NoRx /\ received' = Append(received, SubSeq(pipe, 1, n))
    /\ UNCHANGED <<blocks, sending, frames, open, torn>>

\* One call of recv() in net_recv_all.
RecvBody ==
    /\ open /\ rx.need > 0 /\ pipe # <<>>
    /\ LET n == IF Len(pipe) < rx.need THEN Len(pipe) ELSE rx.need
           got == rx.got \o SubSeq(pipe, 1, n)
       IN  /\ pipe' = SubSeq(pipe, n + 1, Len(pipe))
           /\ IF n = rx.need THEN rx' = NoRx /\ received' = Append(received, got)
              ELSE rx' = [need |-> rx.need - n, got |-> got] /\ UNCHANGED received
    /\ UNCHANGED <<blocks, sending, frames, open, torn>>

\* Nothing more is there yet: a socket that does not block returns -1, and
\* the connection is closed (check_ipc).
RecvFails ==
    /\ open /\ ~blocks.recv
    /\ rx.need > 0 /\ pipe = <<>>
    /\ open' = FALSE
    /\ UNCHANGED <<blocks, sending, frames, pipe, rx, received, torn>>

\* Towards the TUI the sender blocks and the receiver does not
\* (net_set_nonblock in start_backend); towards the backend, where the TUI's
\* one thread sends, it is the other way round.
WireInit ==
    /\ blocks \in {[send |-> TRUE, recv |-> FALSE], [send |-> FALSE, recv |-> TRUE]}
    /\ sending = [s \in Senders |-> <<>>]
    /\ frames = [s \in Senders |-> <<>>]
    /\ pipe = <<>>
    /\ rx = NoRx
    /\ received = <<>>
    /\ open = TRUE
    /\ torn = FALSE

WireNext ==
    \/ \E s \in Senders :
        \/ (~blocks.send => s = CHOOSE q \in Senders : TRUE) /\ BeginSend(s)
        \/ SendSome(s) \/ SendGivesUp(s)
    \/ RecvLength \/ RecvBody \/ RecvFails

WireSpec == WireInit /\ [][WireNext]_wireVars

-----------------------------------------------------------------------------
(* Properties.                                                             *)

\* The numbers of the frames of s among the first i messages.
NumbersOf(s, i) == {received[j][1].k : j \in {j \in 1..i : received[j][1].s = s}}

\* As long as no frame was cut and no two threads' frames were mixed in the
\* socket, each message that is handed to the program is the body of one
\* frame, whole; those of a thread come in the order they were sent in, none
\* left out; and the connection is given up only by an end that does not
\* block, between the parts of a frame (ipc.c:5, net.h:77).
FramesIntact ==
    ~torn =>
        /\ \A m \in ToSet(received) :
            m # <<>> /\ m = Tail(FrameParts(m[1].s, m[1].k, m[1].n))
        /\ \A i \in DOMAIN received :
            NumbersOf(received[i][1].s, i - 1) = 1..received[i][1].k - 1
        /\ ~open => ~blocks.recv /\ rx.need > 0
=============================================================================
