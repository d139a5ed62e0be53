---------------------------- MODULE MCTerminal ----------------------------
(* TLC instance of what the TUI does between the socket and the screen:    *)
(* frames (Framing), the pane with the messages (ChatView), the keys       *)
(* (Prompt), the popup (Overlay), and the choices read from a reply        *)
(* (ChoiceList).  They share no variable, so a behaviour has one of them.  *)
EXTENDS Framing, ChatView, Prompt, Overlay

CONSTANTS s1, s2

VARIABLES part, answer

\* The prefixes as they are, and panes so narrow that the text of a reply, or
\* of any message, has a single column.
PrefixColumns == [user |-> 5, assistant |-> 11]
Panes == {[w |-> 6, h |-> 4], [w |-> 8, h |-> 2], [w |-> 13, h |-> 4], [w |-> 16, h |-> 4]}
ShortTexts == UNION {[1..n -> Character] : n \in 0..4}
LaterTexts == {<<Narrow, Narrow>>}

DigitOf == [c \in {"1", "/"} |-> IF c = "1" THEN 1 ELSE 0]
Yes == Bullet("digit", 1, TRUE, TRUE)
No == Bullet("digit", 2, TRUE, TRUE)
SomeReplies == {<<Yes, No>>, <<Prose>>}

\* One session and lines worth editing, or several sessions.
PromptBounds ==
    {[input |-> 2, history |-> 2, sessions |-> 1, ids |-> 1],
     [input |-> 1, history |-> 1, sessions |-> 2, ids |-> 3]}

\* A list that begins below other lines, that is broken off, or that starts
\* anew; lines that end a choice without being one; letters.
LinesOfReply ==
    {BlankLine, Prose, Bullet("digit", 3, TRUE, TRUE),
     Bullet("letter", 1, TRUE, TRUE), Bullet("letter", 2, TRUE, TRUE)}
    \cup {Bullet("digit", k, gap, text) : k \in {1, 2}, gap \in BOOLEAN, text \in BOOLEAN}

TermInit ==
    /\ WireInit /\ PromptInit /\ OverlayInit /\ ViewInit
    /\ part \in {"wire", "view", "keys", "popup", "list"}
    /\ part # "wire" => ~blocks.recv
    /\ part # "view" => msgs = <<Message(TRUE, <<>>)>> /\ size = [w |-> 8, h |-> 2]
    /\ part # "keys" => bound.ids = 1
    /\ answer \in UNION {[1..n -> LinesOfReply] : n \in
                            IF part = "list" THEN 0..4 ELSE {0}}

TermNext ==
    /\ UNCHANGED <<part, answer>>
    /\ \/ part = "wire" /\ WireNext /\ UNCHANGED <<viewVars, promptVars, ov>>
       \/ part = "view" /\ ViewNext /\ UNCHANGED <<wireVars, promptVars, ov>>
       \/ part = "keys" /\ PromptNext /\ UNCHANGED <<wireVars, viewVars, ov>>
       \/ part = "popup" /\ OverlayNext /\ UNCHANGED <<wireVars, viewVars, promptVars>>

TermSpec ==
    TermInit /\ [][TermNext]_<<part, answer, wireVars, viewVars, promptVars, ov>>

-----------------------------------------------------------------------------
(* Properties.                                                             *)

TermTypeOK == WireTypeOK /\ ViewTypeOK /\ PromptTypeOK /\ OverlayTypeOK

\* The choices offered for a reply are those of its list (main.c:607).
ListFaithful == ReadsTheList(answer)

\* ipc.h:11 gives the stream as frames, one behind the other, "[u32
\* frame_body_len][u32 type][u64 corr_id][payload...]": what is handed to the
\* program as a message is the body of one frame.  FramesIntact without its
\* excuse.
WireFormat ==
    \A m \in ToSet(received) : m = Tail(FrameParts(m[1].s, m[1].k, m[1].n))

\* net.h:72, "Reliable recv: blocks until all bytes received": the connection
\* is not given up while the rest of a frame is on its way.
ReliableRecv == ~open => rx.need = 0

\* main.c:734, "Chosen text becomes the next user message": a choice that is
\* picked, and so dismissed, is sent.
ChosenIsSent == pick = NoPick \/ ~pick.refused
=============================================================================
