------------------------------- MODULE Prompt -------------------------------
(***************************************************************************)
(* What the keys do: the input line with its history (src/ui/input.c), the *)
(* list of sessions, and the picker that offers the choices of a reply     *)
(* (main loop, submit_message, submit_text, accept_choice and check_ipc in *)
(* src/ui/main.c).                                                         *)
(*                                                                         *)
(* Positions and indexes are counted from 1.  A session is its id, and a   *)
(* text beginning with "/" is any of the slash commands; what becomes of a *)
(* request once it is sent is Conversation's.                              *)
(***************************************************************************)
EXTENDS ChoiceList, SequencesExt

CONSTANTS
    Chars,      \* bound: characters typed; the digits pick a choice
    Digit,      \* what a character counts as: 1.. for digits, else 0
    Replies,    \* bound: the replies, as the lines ChoiceList reads
    Bounds      \* bound: length of the input (INPUT_MAX - 1, 1023 in the
                \* code), of the history (32), sessions (32), and ids given out

ASSUME PromptAssumption ==
    /\ "/" \in Chars /\ Digit \in [Chars -> Nat]
    /\ Replies \subseteq Seq(Line)
    /\ Bounds \subseteq [input : Nat \ {0}, history : Nat, sessions : Nat \ {0}, ids : Nat \ {0}]

VARIABLES
    bound,              \* one of Bounds
    buffer, pos,        \* input_line
    history, hist_pos,
    sess, active, sidebar_sel, next_id, focus,
    connected,
    inflight,           \* the session indexes of the turns under way,
    fs,                 \* and of the file requests (bound: one for each)
    pending,            \* pending_choices
    \* History.
    lost,               \* a line was entered that is neither sent nor in history
    pick                \* what became of the last choice picked

lineVars == <<buffer, pos, history, hist_pos, lost>>
listVars == <<sess, active, sidebar_sel, next_id, focus>>
busyVars == <<inflight, fs>>
promptVars == <<bound, lineVars, listVars, connected, busyVars, pending, pick>>

\* pending_choices: n choices of the reply in the chat of session of; the
\* index it keeps of that session may have become stale.
Offers == [n : 2..MaxChoices, selected : 1..MaxChoices, sidx : Nat,
           of : Nat, stale : BOOLEAN]
None == [n |-> 0]
Picks == [of : Nat, stale : BOOLEAN, to : Nat, refused : BOOLEAN]
NoPick == [of |-> 0, stale |-> FALSE, to |-> 0, refused |-> TRUE]

PromptTypeOK ==
    /\ bound \in Bounds
    /\ buffer \in Seq(Chars) /\ Len(buffer) <= bound.input
    /\ pos \in 0..Len(buffer)
    /\ history \in Seq(Seq(Chars)) /\ Len(history) <= bound.history
    /\ hist_pos \in 1..Len(history) + 1
    /\ sess \in Seq(1..bound.ids) /\ Len(sess) \in 1..bound.sessions
    /\ active \in DOMAIN sess /\ sidebar_sel \in DOMAIN sess
    /\ next_id \in 2..bound.ids + 1
    /\ focus \in {"list", "input"}
    /\ connected \in BOOLEAN
    /\ inflight \subseteq 1..bound.sessions /\ fs \subseteq 1..bound.sessions
    /\ pending = None \/ pending \in Offers
    /\ lost \in BOOLEAN
    /\ pick \in Picks

\* The picker takes keys only in the session it belongs to.
Offered == pending # None /\ pending.sidx = active

-----------------------------------------------------------------------------
(* The input line.                                                         *)

Typed(b, p) == buffer' = b /\ pos' = p
Recall(k) == hist_pos' = k /\ Typed(history[k], Len(history[k]))

\* A digit the picker offers picks a choice instead, whatever has been typed.
Type(c) ==
    /\ focus = "input" /\ ~(Offered /\ Digit[c] \in 1..pending.n)
    /\ Len(buffer) < bound.input
    /\ Typed(InsertAt(buffer, pos + 1, c), pos + 1)
    /\ UNCHANGED <<bound, history, hist_pos, lost, listVars, connected, busyVars, pending, pick>>

\* KEY_BACKSPACE, KEY_RIGHT, KEY_HOME, KEY_END; KEY_LEFT never gets here.
Edit ==
    /\ focus = "input"
    /\ \/ pos > 0 /\ Typed(RemoveAt(buffer, pos), pos - 1)
       \/ pos < Len(buffer) /\ Typed(buffer, pos + 1)
       \/ Typed(buffer, 0)
       \/ Typed(buffer, Len(buffer))
    /\ UNCHANGED <<bound, history, hist_pos, lost, listVars, connected, busyVars, pending, pick>>

\* KEY_UP and KEY_DOWN; the picker takes them while its highlight can move.
HistoryUp ==
    /\ focus = "input" /\ ~(Offered /\ pending.selected > 1)
    /\ hist_pos > 1 /\ Recall(hist_pos - 1)
    /\ UNCHANGED <<bound, history, lost, listVars, connected, busyVars, pending, pick>>

HistoryDown ==
    /\ focus = "input" /\ ~(Offered /\ pending.selected < pending.n)
    /\ hist_pos <= Len(history)
    /\ IF hist_pos = Len(history) THEN hist_pos' = hist_pos + 1 /\ Typed(<<>>, 0)
       ELSE Recall(hist_pos + 1)
    /\ UNCHANGED <<bound, history, lost, listVars, connected, busyVars, pending, pick>>

\* save_history.  The faulty variant does not save a line that was recalled
\* and changed.
save_history_recalled ==
    /\ history' = IF Len(history) < bound.history /\ hist_pos > Len(history)
                  THEN Append(history, buffer) ELSE history
    /\ hist_pos' = Len(history') + 1

save_history ==
    /\ history' = IF Len(history) < bound.history THEN Append(history, buffer) ELSE history
    /\ hist_pos' = Len(history') + 1

-----------------------------------------------------------------------------
(* The list of sessions.                                                   *)

\* sm_new_session and what follows it in new_session and in /new.
AddSession ==
    /\ Len(sess) < bound.sessions /\ next_id <= bound.ids
    /\ sess' = Append(sess, next_id)
    /\ next_id' = next_id + 1
    /\ active' = Len(sess') /\ sidebar_sel' = Len(sess')
    /\ focus' = "input"

\* do_delete_session; the last session is replaced by a new one.
DeleteAt(i) ==
    /\ IF Len(sess) = 1
       THEN /\ next_id <= bound.ids
            /\ sess' = <<next_id>> /\ next_id' = next_id + 1
            /\ active' = 1
       ELSE /\ sess' = RemoveAt(sess, i) /\ UNCHANGED next_id
            /\ active' = IF active > i \/ active > Len(sess') THEN active - 1 ELSE active
    /\ sidebar_sel' = IF sidebar_sel > Len(sess') THEN Len(sess') ELSE sidebar_sel
    /\ UNCHANGED focus
    /\ pending' = IF pending # None /\ i <= pending.sidx
                  THEN [pending EXCEPT !.stale = TRUE] ELSE pending

\* The keys while the focus is on the list: up and down, Enter, n, d.
ListKey ==
    /\ focus = "list"
    /\ \/ /\ sidebar_sel' \in {sidebar_sel - 1, sidebar_sel + 1} \cap DOMAIN sess
          /\ UNCHANGED <<sess, active, next_id, focus, pending>>
       \/ /\ active' = sidebar_sel /\ focus' = "input"
          /\ UNCHANGED <<sess, sidebar_sel, next_id, pending>>
       \/ AddSession /\ UNCHANGED pending
       \/ DeleteAt(sidebar_sel)
    /\ UNCHANGED <<bound, lineVars, connected, busyVars, pick>>

\* KEY_LEFT or Tab: to the list; the choices are dismissed.
Leave ==
    /\ focus = "input"
    /\ focus' = "list" /\ pending' = None
    /\ UNCHANGED <<bound, lineVars, sess, active, sidebar_sel, next_id, connected, busyVars, pick>>

-----------------------------------------------------------------------------
(* Entering a line, or a choice.                                           *)

\* submit_text, and the end of submit_message: without a connection, or while
\* the session awaits a reply or a file, nothing is sent.
Sends == connected /\ active \notin inflight \cup fs
Send == inflight' = (IF Sends THEN inflight \cup {active} ELSE inflight) /\ UNCHANGED fs

\* Enter with a line: it is saved; a command is run and leaves the choices as
\* they are; anything else dismisses them.
submit_message ==
    /\ focus = "input" /\ buffer # <<>>
    /\ save_history
    /\ Typed(<<>>, 0)
    /\ UNCHANGED <<bound, connected, pick>>
    /\ \/ /\ buffer[1] = "/"
          /\ \/ AddSession /\ UNCHANGED <<fs, pending>>
             \/ DeleteAt(active) /\ UNCHANGED fs
             \/ /\ fs' \in {fs, IF connected THEN fs \cup {active} ELSE fs}
                /\ UNCHANGED <<listVars, pending>>
          /\ UNCHANGED <<inflight, lost>>
       \/ /\ buffer[1] # "/"
          /\ pending' = None
          /\ Send
          /\ lost' = (lost \/ (~Sends /\ buffer \notin ToSet(history')))
          /\ UNCHANGED listVars

\* accept_choice, on a digit or on Enter with an empty line.
accept_choice(k) ==
    /\ focus = "input" /\ Offered
    /\ k \in 1..pending.n
    /\ \/ \E c \in Chars : Digit[c] = k
       \/ buffer = <<>> /\ k = pending.selected
    /\ pick' = [of |-> pending.of, stale |-> pending.stale,
                to |-> IF Sends THEN sess[active] ELSE 0, refused |-> ~Sends]
    /\ pending' = None
    /\ Send
    /\ UNCHANGED <<bound, lineVars, listVars, connected>>

\* KEY_UP, KEY_DOWN in the picker.
Highlight ==
    /\ focus = "input" /\ Offered
    /\ \E k \in {pending.selected - 1, pending.selected + 1} \cap 1..pending.n :
        pending' = [pending EXCEPT !.selected = k]
    /\ UNCHANGED <<bound, lineVars, listVars, connected, busyVars, pick>>

-----------------------------------------------------------------------------
(* check_ipc.                                                              *)

\* A reply goes to the chat of the session at its request's index, or, if
\* there is none by now, to the active one.  Its choices are offered unless
\* others are; the index is kept as it is.  The faulty variant keeps that of
\* the session on the screen.
OfferIn(sidx, reply) ==
    LET n == Len(detect_choices(reply))
        there == sidx \in DOMAIN sess
    IN  IF pending # None \/ n = 0 THEN pending
        ELSE [n |-> n, selected |-> 1, sidx |-> sidx, stale |-> ~there,
              of |-> IF there THEN sess[sidx] ELSE sess[active]]

AnswerOnScreen(i, reply) ==
    pending' = IF OfferIn(i, reply) = pending THEN pending
               ELSE [OfferIn(i, reply) EXCEPT !.sidx = active]

AnswerFor(i, reply) == pending' = OfferIn(i, reply)

\* MSG_REP_FINAL; an error (without choices) ends the request as well.
Answered(i, reply) ==
    /\ connected /\ i \in inflight
    /\ inflight' = inflight \ {i}
    /\ AnswerFor(i, reply)
    /\ UNCHANGED <<bound, lineVars, listVars, connected, fs, pick>>

\* MSG_WORKER_END.
FsAnswered(i) ==
    /\ connected /\ i \in fs
    /\ fs' = fs \ {i}
    /\ UNCHANGED <<bound, lineVars, listVars, connected, inflight, pending, pick>>

Disconnect ==
    /\ connected
    /\ connected' = FALSE /\ inflight' = {} /\ fs' = {}
    /\ UNCHANGED <<bound, lineVars, listVars, pending, pick>>

-----------------------------------------------------------------------------
\* persist_load has made at least one session.
PromptInit ==
    /\ bound \in Bounds
    /\ buffer = <<>> /\ pos = 0
    /\ history = <<>> /\ hist_pos = 1
    /\ sess = <<1>> /\ next_id = 2
    /\ active = 1 /\ sidebar_sel = 1
    /\ focus = "input"
    /\ connected = TRUE /\ inflight = {} /\ fs = {}
    /\ pending = None
    /\ lost = FALSE /\ pick = NoPick

PromptNext ==
    \/ \E c \in Chars : Type(c)
    \/ Edit \/ HistoryUp \/ HistoryDown
    \/ ListKey \/ Leave
    \/ submit_message \/ Highlight
    \/ \E k \in 1..MaxChoices : accept_choice(k)
    \/ \E i \in 1..bound.sessions, reply \in Replies : Answered(i, reply)
    \/ \E i \in 1..bound.sessions : FsAnswered(i)
    \/ Disconnect

PromptSpec == PromptInit /\ [][PromptNext]_promptVars

-----------------------------------------------------------------------------
(* Properties.                                                             *)

\* A line the user enters while it cannot be sent, without a connection or
\* before the reply has come, is not gone: it can be recalled with KEY_UP, as
\* long as the history has room (input.c:12, main.c:1023).
TextKept == lost => Len(history) = bound.history

\* A choice goes, as a message, to the session whose reply offered it, or,
\* if that one awaits a reply by now or the connection is lost, nowhere; as
\* long as no session was deleted that the kept index depends on (main.c:719,
\* 836).
ChoiceInItsSession ==
    ~pick.stale => pick.refused \/ pick.to = pick.of
=============================================================================
