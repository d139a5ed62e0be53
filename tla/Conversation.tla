---------------------------- MODULE Conversation ----------------------------
(***************************************************************************)
(* The conversation the user sees: sessions and their chat histories, the  *)
(* in-flight table and the message handlers of the TUI (src/ui/main.c,     *)
(* session.c, commands.c, core/chat.c), against the threads the backend    *)
(* runs for chat requests (handle_request in src/backend/backend.c) and    *)
(* for file system requests (src/workers/fs_worker.c).                     *)
(*                                                                         *)
(* Sessions, slots and indexes are counted from 1.  A chat message is its  *)
(* kind and the request it belongs to; texts are left out.  A choice taken *)
(* from the picker is submitted as typed text is.  Approval prompts are    *)
(* ApprovalBus's.                                                          *)
(***************************************************************************)
EXTENDS Naturals, Sequences, SequencesExt

CONSTANTS
    MaxSessions,   \* MAX_SESSIONS (32 in the code)
    MaxInFlight,   \* MAX_IN_FLIGHT (32 in the code)
    MaxCorr,       \* bound: requests the user makes
    MaxSubs,       \* bound: sub-queries of one request
    MaxCmds,       \* bound: /help and its like, /clear, /rename, /new with a name
    MaxIds,        \* bound: sessions ever created
    FsOps          \* bound: the kinds of file system request the user makes

ASSUME BoundsAssumption ==
    /\ {MaxSessions, MaxInFlight, MaxIds} \subseteq Nat \ {0}
    /\ {MaxCorr, MaxSubs, MaxCmds} \subseteq Nat
    /\ FsOps \subseteq {"read", "write"}

VARIABLES
    \* The TUI.
    sessions,      \* sessions.sessions[0..count-1]
    active,        \* sessions.active
    sidebar_sel, focus,
    next_id,
    in_flight,
    next_corr,
    connected,     \* ipc_fd # NET_INVALID
    \* The connection.
    toBackend, toTui,
    \* The backend: the thread of each request.
    job,
    \* History.
    asked,         \* for each request, the id of the session it came from
    answered,      \* requests whose reply or error the TUI handled
    ended,         \* requests whose WORKER_END the TUI handled
    cmds,          \* such commands so far
    upset          \* what happened while requests were under way

listVars == <<active, sidebar_sel, focus>>
tuiVars == <<sessions, listVars, next_id, in_flight, next_corr, connected>>
histVars == <<asked, answered, ended, cmds, upset>>
vars == <<tuiVars, toBackend, toTui, job, histVars>>

Corrs   == 1..MaxCorr
SubCorr(c) == MaxCorr + c          \* alloc_sub_corr: a range of its own
Slots   == 1..MaxInFlight
FreeSlot == [corr |-> 0, depth |-> 0, sidx |-> 0]
NoJob   == [pc |-> "none", kind |-> "chat", sidx |-> 0, first |-> FALSE, subs |-> 0]

Kinds == {"chat", "read", "write"}
ChatMsg == [kind : {"user", "dots", "reply", "error", "system"}, corr : 0..MaxCorr]
M(kind, c) == [kind |-> kind, corr |-> c]
Session == [id : 1..MaxIds, name : {"default", "topic", "user"}, topic : 0..MaxCorr,
            chat : Seq(ChatMsg)]

\* What goes over the connection.
Request == [corr : Corrs, kind : Kinds, sidx : 1..MaxSessions, first : BOOLEAN]
Message == [type : {"REP_FINAL", "REP_ERROR", "SESSION_RENAME",
                    "WORKER_START", "WORKER_REP", "WORKER_END"},
            corr : 1..(2 * MaxCorr), parent : 0..MaxCorr, sidx : 0..MaxSessions]

TypeOK ==
    /\ sessions \in Seq(Session) /\ Len(sessions) \in 1..MaxSessions
    /\ active \in Nat /\ sidebar_sel \in Nat /\ focus \in {"list", "input"}
    /\ next_id \in 1..(MaxIds + 1)
    /\ in_flight \in [Slots -> [corr : 0..(2 * MaxCorr), depth : {0, 1}, sidx : 0..MaxSessions]]
    /\ next_corr \in 1..(MaxCorr + 1)
    /\ connected \in BOOLEAN
    /\ toBackend \in Seq(Request) /\ toTui \in Seq(Message)
    /\ job \in [Corrs -> [pc : {"none", "queued", "run", "loop", "sub", "name", "reply",
                                "end", "done"},
                          kind : Kinds, sidx : 0..MaxSessions, first : BOOLEAN,
                          subs : 0..MaxSubs]]
    /\ asked \in Seq(1..MaxIds) /\ Len(asked) = next_corr - 1
    /\ answered \subseteq Corrs /\ ended \subseteq Corrs
    /\ cmds \in 0..MaxCmds
    /\ upset \subseteq {"deleted", "noted", "overflow"}

Init ==
    /\ sessions = <<[id |-> 1, name |-> "default", topic |-> 0, chat |-> <<>>]>>
    /\ active = 1
    /\ sidebar_sel = 1
    /\ focus = "input"
    /\ next_id = 2
    /\ in_flight = [k \in Slots |-> FreeSlot]
    /\ next_corr = 1
    /\ connected = TRUE
    /\ toBackend = <<>>
    /\ toTui = <<>>
    /\ job = [c \in Corrs |-> NoJob]
    /\ asked = <<>>
    /\ answered = {}
    /\ ended = {}
    /\ cmds = 0
    /\ upset = {}

-----------------------------------------------------------------------------
(* The in-flight table.                                                    *)

Used(k) == in_flight[k].corr # 0
First(S) == CHOOSE k \in S : \A j \in S : k <= j

FreeSlots == {k \in Slots : ~Used(k)}
Entries(c) == {k \in Slots : Used(k) /\ in_flight[k].corr = c}

\* inflight_add, inflight_add_sub: the first free slot, or nothing at all
\* when the table is full.
TableWith(c, depth, i) ==
    IF FreeSlots = {} THEN in_flight
    ELSE [in_flight EXCEPT ![First(FreeSlots)] = [corr |-> c, depth |-> depth, sidx |-> i]]

\* inflight_remove: the first entry with this corr_id.  The faulty variant
\* looks for it and forgets to free it.
NotRemoved(c) == in_flight
Removed(c) ==
    IF Entries(c) = {} THEN in_flight
    ELSE [in_flight EXCEPT ![First(Entries(c))] = FreeSlot]

\* inflight_find_sidx, and the value of inflight_remove; 0 for none.
SessionOf(c) == IF Entries(c) = {} THEN 0 ELSE in_flight[First(Entries(c))].sidx

\* inflight_session_active: a top-level request of this session.  The faulty
\* variant never finds one.
NeverActive(i) == FALSE
SessionActive(i) == \E k \in Slots : Used(k) /\ in_flight[k].sidx = i /\ in_flight[k].depth = 0

-----------------------------------------------------------------------------
(* Chats.                                                                  *)

Count == Len(sessions)
ChatOf(i) == sessions[i].chat
WithChat(i, chat) == [sessions EXCEPT ![i].chat = chat]
WithMsg(i, m) == WithChat(i, Append(ChatOf(i), m))

\* chat_remove_last
RemoveLast(chat) == IF chat = <<>> THEN chat ELSE Front(chat)

\* A request of this session has not been answered yet.
Waiting(i) == \E c \in 1..Len(asked) :
    job[c].kind = "chat" /\ asked[c] = sessions[i].id /\ c \notin answered

\* A message that is no reply joins the chat of session i.
Noted(i) == IF Waiting(i) THEN upset \cup {"noted"} ELSE upset
Overflow == IF FreeSlots = {} THEN {"overflow"} ELSE {}

-----------------------------------------------------------------------------
(* What the user does.                                                     *)

\* The guard of submit_message and submit_text.
MaySubmit == focus = "input" /\ connected /\ ~SessionActive(active)

\* The history a request carries: the chat and the new text.
Submit ==
    /\ MaySubmit
    /\ next_corr \in Corrs
    /\ LET c == next_corr
       IN  /\ sessions' = WithChat(active, ChatOf(active) \o <<M("user", c), M("dots", c)>>)
           /\ in_flight' = TableWith(c, 0, active)
           /\ toBackend' = Append(toBackend,
                [corr |-> c, kind |-> "chat", sidx |-> active, first |-> ChatOf(active) = <<>>])
           /\ job' = [job EXCEPT ![c].pc = "queued", ![c].kind = "chat"]
           /\ next_corr' = c + 1
    /\ asked' = Append(asked, sessions[active].id)
    /\ upset' = upset \cup Overflow
    /\ UNCHANGED <<listVars, next_id, connected, toTui, answered, ended, cmds>>

\* /fs read, list (op "read") and create, write, delete (op "write"):
\* do_send_worker_req and the notice that follows it.
FsCommand(op) ==
    /\ focus = "input" /\ connected
    /\ next_corr \in Corrs
    /\ in_flight' = TableWith(next_corr, 0, active)
    /\ toBackend' = Append(toBackend,
         [corr |-> next_corr, kind |-> op, sidx |-> active, first |-> FALSE])
    /\ job' = [job EXCEPT ![next_corr].pc = "queued", ![next_corr].kind = op]
    /\ next_corr' = next_corr + 1
    /\ sessions' = WithMsg(active, M("system", 0))
    /\ asked' = Append(asked, sessions[active].id)
    /\ upset' = Noted(active) \cup Overflow
    /\ UNCHANGED <<listVars, next_id, connected, toTui, answered, ended, cmds>>

Command == cmds < MaxCmds /\ cmds' = cmds + 1

\* /help, /model, /provider, an unknown command, a bad /fs: a system message.
Note ==
    /\ focus = "input"
    /\ Command
    /\ sessions' = WithMsg(active, M("system", 0))
    /\ upset' = Noted(active)
    /\ UNCHANGED <<listVars, next_id, in_flight, next_corr, connected, toBackend,
                   toTui, job, asked, answered, ended>>

\* /clear
Clear ==
    /\ focus = "input"
    /\ Command
    /\ ChatOf(active) # <<>>
    /\ sessions' = WithChat(active, <<>>)
    /\ UNCHANGED <<listVars, next_id, in_flight, next_corr, connected, toBackend,
                   toTui, job, asked, answered, ended, upset>>

\* /rename
Rename ==
    /\ focus = "input"
    /\ Command
    /\ sessions[active].name # "user"
    /\ sessions' = [sessions EXCEPT ![active].name = "user", ![active].topic = 0]
    /\ UNCHANGED <<listVars, next_id, in_flight, next_corr, connected, toBackend,
                   toTui, job, asked, answered, ended, upset>>

\* sm_new_session
NewSession(name) == [id |-> next_id, name |-> name, topic |-> 0, chat |-> <<>>]

\* /new [name], and the n key, which names the session itself: at MAX_SESSIONS
\* nothing changes.
New(name) ==
    /\ \/ name = "default" /\ UNCHANGED cmds
       \/ name = "user" /\ focus = "input" /\ Command
    /\ Count < MaxSessions
    /\ next_id <= MaxIds
    /\ sessions' = Append(sessions, NewSession(name))
    /\ next_id' = next_id + 1
    /\ active' = Count + 1
    /\ sidebar_sel' = Count + 1
    /\ focus' = "input"
    /\ UNCHANGED <<in_flight, next_corr, connected, toBackend, toTui, job, asked, answered, ended,
                   upset>>

\* The active session after sm_remove of session i with one at least left.
\* The faulty variant keeps the index when the last session goes.
ActiveKept(i) == IF active > i THEN active - 1 ELSE active
ActiveAfter(i) ==
    IF active > i THEN active - 1
    ELSE IF active = i /\ i = Count THEN Count - 1
    ELSE active

\* What takes the place of the only session, deleted; the faulty variant
\* leaves none.
NoneLeft == <<>>
FreshStart == <<NewSession("default")>>

\* No request is under way and no message on its way.
Quiet ==
    /\ toBackend = <<>> /\ toTui = <<>>
    /\ \A c \in Corrs : job[c].pc \in {"none", "done"}

\* do_delete_session, from /delete of the active session and from the d key
\* on the selected one: the indexes above i move down; the in-flight table
\* keeps the old ones.
Delete ==
    LET i == IF focus = "input" THEN active ELSE sidebar_sel IN
    /\ IF Count = 1
       THEN /\ next_id <= MaxIds
            /\ sessions' = FreshStart
            /\ next_id' = next_id + 1
            /\ active' = 1
            /\ sidebar_sel' = 1
       ELSE /\ sessions' = RemoveAt(sessions, i)
            /\ next_id' = next_id
            /\ active' = ActiveAfter(i)
            /\ sidebar_sel' = IF sidebar_sel > Count - 1 THEN Count - 1 ELSE sidebar_sel
    /\ upset' = IF Quiet THEN upset ELSE upset \cup {"deleted"}
    /\ UNCHANGED <<focus, in_flight, next_corr, connected, toBackend, toTui, job, asked,
                   answered, ended, cmds>>

\* Tab or Left in the input line; the arrow keys in the session list; Enter,
\* Tab or Right on an entry of it.
OpenList ==
    /\ focus = "input"
    /\ focus' = "list"
    /\ UNCHANGED <<sessions, active, sidebar_sel, next_id, in_flight, next_corr, connected,
                   toBackend, toTui, job, histVars>>

MoveSelection ==
    /\ focus = "list"
    /\ sidebar_sel' \in {sidebar_sel - 1, sidebar_sel + 1} \cap 1..Count
    /\ UNCHANGED <<sessions, active, focus, next_id, in_flight, next_corr, connected,
                   toBackend, toTui, job, histVars>>

Select ==
    /\ focus = "list"
    /\ active' = sidebar_sel
    /\ focus' = "input"
    /\ UNCHANGED <<sessions, sidebar_sel, next_id, in_flight, next_corr, connected,
                   toBackend, toTui, job, histVars>>

-----------------------------------------------------------------------------
(* What check_ipc does with a message.                                     *)

Takes(type) == toTui # <<>> /\ Head(toTui).type = type /\ toTui' = Tail(toTui)

\* The placeholder, or whatever is last, gives way to the reply.  The faulty
\* variants leave it, and take the user's message with it.
KeepLast(chat, m) == Append(chat, m)
ReplaceTwo(chat, m) == Append(RemoveLast(RemoveLast(chat)), m)
ReplaceLast(chat, m) == Append(RemoveLast(chat), m)

\* MSG_REP_FINAL: the in-flight entry names the session; the payload's index
\* is the fallback, the active chat the last resort.  The faulty variant
\* goes by the active session.
FinalToActive(m) == active
FinalTarget(m) ==
    LET i == IF SessionOf(m.corr) # 0 THEN SessionOf(m.corr) ELSE m.sidx
    IN  IF i <= Count THEN i ELSE active

ReceiveFinal ==
    /\ Takes("REP_FINAL")
    /\ LET m == Head(toTui)
           i == FinalTarget(m)
       IN  /\ sessions' = WithChat(i, ReplaceLast(ChatOf(i), M("reply", m.corr)))
           /\ in_flight' = Removed(m.corr)
           /\ answered' = answered \cup {m.corr}
    /\ UNCHANGED <<listVars, next_id, next_corr, connected, toBackend, job,
                   asked, ended, cmds, upset>>

\* MSG_REP_ERROR
ReceiveError ==
    /\ Takes("REP_ERROR")
    /\ LET c == Head(toTui).corr
           i == IF SessionOf(c) \in 1..Count THEN SessionOf(c) ELSE active
       IN  /\ sessions' = WithChat(i, ReplaceLast(ChatOf(i), M("error", c)))
           /\ in_flight' = Removed(c)
           /\ answered' = answered \cup {c}
    /\ UNCHANGED <<listVars, next_id, next_corr, connected, toBackend, job,
                   asked, ended, cmds, upset>>

\* MSG_WORKER_START: an entry of the parent's session, or the active one.
ReceiveStart ==
    /\ Takes("WORKER_START")
    /\ LET m == Head(toTui)
           i == SessionOf(m.parent)
       IN  in_flight' = TableWith(m.corr, 1, IF i # 0 THEN i ELSE active)
    /\ upset' = upset \cup Overflow
    /\ UNCHANGED <<sessions, listVars, next_id, next_corr, connected, toBackend,
                   job, asked, answered, ended, cmds>>

\* MSG_WORKER_END
ReceiveEnd ==
    /\ Takes("WORKER_END")
    /\ in_flight' = Removed(Head(toTui).corr)
    /\ ended' = ended \cup ({Head(toTui).corr} \cap Corrs)
    /\ UNCHANGED <<sessions, listVars, next_id, next_corr, connected, toBackend,
                   job, asked, answered, cmds, upset>>

\* MSG_WORKER_REP: shown in the session that is active now, unless the result
\* is empty.
ReceiveRep ==
    /\ Takes("WORKER_REP")
    /\ \/ sessions' = WithMsg(active, M("system", 0)) /\ upset' = Noted(active)
       \/ UNCHANGED <<sessions, upset>>
    /\ UNCHANGED <<listVars, next_id, in_flight, next_corr, connected, toBackend,
                   job, asked, answered, ended, cmds>>

\* MSG_SESSION_RENAME: by index, and only a session still named "Chat N".
ReceiveRename ==
    /\ Takes("SESSION_RENAME")
    /\ LET i == Head(toTui).sidx
       IN  sessions' = IF i <= Count /\ sessions[i].name = "default"
                       THEN [sessions EXCEPT ![i].name = "topic", ![i].topic = Head(toTui).corr]
                       ELSE sessions
    /\ UNCHANGED <<listVars, next_id, in_flight, next_corr, connected, toBackend,
                   job, histVars>>

\* The connection is lost: the TUI clears its table, the backend exits.
Disconnect ==
    /\ connected
    /\ connected' = FALSE
    /\ in_flight' = [k \in Slots |-> FreeSlot]
    /\ toBackend' = <<>>
    /\ toTui' = <<>>
    /\ job' = [c \in Corrs |-> IF job[c].pc = "none" THEN job[c] ELSE [job[c] EXCEPT !.pc = "done"]]
    /\ UNCHANGED <<sessions, listVars, next_id, next_corr, histVars>>

-----------------------------------------------------------------------------
(* The backend.                                                            *)

Send(type, c, parent, i) ==
    toTui' = Append(toTui, [type |-> type, corr |-> c, parent |-> parent, sidx |-> i])

backendOnly == <<tuiVars, histVars>>

\* The message loop starts the request's thread.
Dispatch ==
    /\ toBackend # <<>>
    /\ toBackend' = Tail(toBackend)
    /\ LET m == Head(toBackend)
       IN  job' = [job EXCEPT ![m.corr] = [pc |-> "run", kind |-> m.kind, sidx |-> m.sidx,
                                           first |-> m.first, subs |-> 0]]
    /\ UNCHANGED <<toTui, backendOnly>>

Goto(c, from, to) == job[c].pc \in from /\ job' = [job EXCEPT ![c].pc = to]

\* handle_request without a provider.
NoProvider(c) ==
    /\ job[c].kind = "chat"
    /\ Goto(c, {"run"}, "done")
    /\ Send("REP_ERROR", c, 0, 0)
    /\ UNCHANGED <<toBackend, backendOnly>>

\* A tool call of the agentic loop: run_subquery, its two messages apart.
StartSub(c) ==
    /\ job[c].kind = "chat"
    /\ job[c].pc \in {"run", "loop"} /\ job[c].subs < MaxSubs
    /\ job' = [job EXCEPT ![c].pc = "sub", ![c].subs = @ + 1]
    /\ Send("WORKER_START", SubCorr(c), c, 0)
    /\ UNCHANGED <<toBackend, backendOnly>>

EndSub(c) ==
    /\ Goto(c, {"sub"}, "loop")
    /\ Send("WORKER_END", SubCorr(c), 0, 0)
    /\ UNCHANGED <<toBackend, backendOnly>>

\* The final reply; the thread goes on to name the session if it was the
\* first turn and the reply is not empty.
SendFinal(c) ==
    /\ job[c].kind = "chat"
    /\ Goto(c, {"run", "loop"}, "done") \/ (job[c].first /\ Goto(c, {"run", "loop"}, "name"))
    /\ Send("REP_FINAL", c, 0, job[c].sidx)
    /\ UNCHANGED <<toBackend, backendOnly>>

\* The naming query: a topic or none.
NameSession(c) ==
    /\ Goto(c, {"name"}, "done")
    /\ Send("SESSION_RENAME", c, 0, job[c].sidx) \/ UNCHANGED toTui
    /\ UNCHANGED <<toBackend, backendOnly>>

\* op_read_file, op_list_dir: progress, under the request's own corr_id and
\* with no parent.
FsProgress(c) ==
    /\ job[c].kind = "read"
    /\ Goto(c, {"run"}, "reply")
    /\ Send("WORKER_START", c, 0, 0)
    /\ UNCHANGED <<toBackend, backendOnly>>

\* bw_send_result or bw_send_error, the latter also without progress.
FsReply(c) ==
    /\ job[c].kind # "chat"
    /\ Goto(c, {"run", "reply"}, "end")
    /\ Send("WORKER_REP", c, 0, 0)
    /\ UNCHANGED <<toBackend, backendOnly>>

FsEnd(c) ==
    /\ Goto(c, {"end"}, "done")
    /\ Send("WORKER_END", c, 0, 0)
    /\ UNCHANGED <<toBackend, backendOnly>>

-----------------------------------------------------------------------------

TuiReceives ==
    \/ ReceiveFinal \/ ReceiveError \/ ReceiveStart \/ ReceiveEnd \/ ReceiveRep
    \/ ReceiveRename

User ==
    \/ Submit \/ Note \/ Clear \/ Rename
    \/ \E op \in FsOps : FsCommand(op)
    \/ \E name \in {"default", "user"} : New(name)
    \/ Delete \/ OpenList \/ MoveSelection \/ Select

ThreadStep(c) ==
    \/ NoProvider(c) \/ StartSub(c) \/ EndSub(c) \/ SendFinal(c) \/ NameSession(c)
    \/ FsProgress(c) \/ FsReply(c) \/ FsEnd(c)

Next ==
    \/ User
    \/ TuiReceives
    \/ Disconnect
    \/ Dispatch
    \/ \E c \in Corrs : ThreadStep(c)

Spec == Init /\ [][Next]_vars

\* The user pauses now and then, and the TUI reads when no key comes for
\* 100 ms; the backend's loop polls every 20 ms; the providers, external
\* services, answer or fail in the end, and so does the file system.
Fairness ==
    /\ WF_vars(TuiReceives)
    /\ WF_vars(Dispatch)
    /\ \A c \in Corrs : WF_vars(ThreadStep(c))

FairSpec == Spec /\ Fairness

-----------------------------------------------------------------------------
(* Properties.  The ones about indexes hold as long as no session is       *)
(* deleted and the table never overflows while a request is under way, the *)
(* ones about placeholders as long as nothing else is written to a chat    *)
(* that waits for its reply: upset remembers what the code does not        *)
(* withstand.                                                              *)

Turns == {c \in 1..Len(asked) : job[c].kind = "chat"}
Outstanding(c) == c \in Turns \ answered

\* A reply or a topic reaches the session its request was sent from, whatever
\* the user created, selected or cleared meanwhile; so does an error, as long
\* as its request was given an entry.
ReplyInItsSession ==
    "deleted" \notin upset =>
        \A i \in 1..Count :
            /\ sessions[i].topic # 0 => asked[sessions[i].topic] = sessions[i].id
            /\ \A m \in ToSet(ChatOf(i)) :
                  \/ m.kind = "reply"
                  \/ m.kind = "error" /\ "overflow" \notin upset
                  => asked[m.corr] = sessions[i].id

\* A session has one turn under way at a time: the next one carries its reply.
OneTurnPerSession ==
    upset \cap {"deleted", "overflow"} = {} =>
        \A c, d \in Turns :
            Outstanding(c) /\ Outstanding(d) /\ asked[c] = asked[d] => c = d

\* A placeholder stands at the end of its chat for a turn that is still under
\* way; so no request carries one as history, and no turn is answered twice.
PlaceholderIsPending ==
    upset = {} =>
        \A i \in 1..Count : \A k \in 1..Len(ChatOf(i)) :
            LET m == ChatOf(i)[k]
            IN  m.kind = "dots" => /\ k = Len(ChatOf(i))
                                   /\ Outstanding(m.corr)
                                   /\ asked[m.corr] = sessions[i].id

\* The active session and the selected one exist, through every deletion.
SelectionValid == active \in 1..Count /\ sidebar_sel \in 1..Count

\* What was said stays said: but for /clear, no step takes away, changes or
\* moves a message of a session that survives it; a reply takes the place of
\* a placeholder and of nothing else.
HistoryKept ==
    [][upset' = {} /\ ~Clear =>
         \A i \in 1..Count : \A j \in 1..Len(sessions') :
            sessions[i].id = sessions'[j].id =>
                \A k \in 1..Len(ChatOf(i)) :
                    ChatOf(i)[k].kind # "dots" =>
                        /\ k <= Len(sessions'[j].chat)
                        /\ sessions'[j].chat[k] = ChatOf(i)[k]]_vars

\* The input of a session is not locked for good: the entry of a request,
\* which locks it, leaves the table.  File system reads and listings are left
\* out: EndUnlocks shows what becomes of theirs.
EntriesGo ==
    \A c \in Corrs :
        (job[c].kind # "read" /\ Entries(c) # {}) ~> Entries(c) = {}
=============================================================================
