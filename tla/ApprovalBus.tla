---------------------------- MODULE ApprovalBus ----------------------------
(***************************************************************************)
(* The approval flow of FreeCLI, from the key the user presses to the file *)
(* operation: src/core/backend_worker.c (dispatch threads, the table of    *)
(* pending approvals), the message loop of src/backend/backend.c and the   *)
(* approval prompt of src/ui/main.c, joined by the two directions of the   *)
(* loopback connection.                                                    *)
(*                                                                         *)
(* An element of Ops is the corr_id of one create, modify or delete        *)
(* request; the thread the backend spawns for it has the same name.  One   *)
(* ipc_send is one Append.  The mutexes give the granularity: a block run  *)
(* under approvals_mu or under a slot's mu is one action.                  *)
(***************************************************************************)
EXTENDS Naturals, Sequences

CONSTANTS
    Ops,         \* corr_ids of the mutating requests the user makes
    NoCorr,      \* pending_approval_corr = 0: no prompt on the screen
    NSlots,      \* MAX_PENDING_APPROVALS (8 in the code)
    HasTimeout   \* TRUE: pthread_cond_timedwait; FALSE: the _WIN32 branch

ASSUME OpsAssumption == NoCorr \notin Ops
ASSUME SlotsAssumption == NSlots \in Nat \ {0}
ASSUME TimeoutAssumption == HasTimeout \in BOOLEAN

VARIABLES
    \* The backend.
    pc,          \* where the dispatch thread of a request is
    slot,        \* bw_request_approval's local: the claimed slot, 0 for none
    approved,    \* bw_request_approval's result
    success,     \* the success flag the thread reports
    signalled,   \* threads whose condition variable was signalled
    in_use, slot_corr, decided,   \* approvals[1..NSlots]
    touched,     \* requests that reached the file system
    \* The connection.
    toBackend, toTui,
    \* The TUI.
    in_flight,   \* requests shown as running
    pending,     \* pending_approval_corr
    yes, no,     \* requests the user answered Y and N
    shown        \* result the user was shown

threadVars == <<pc, slot, approved, success, signalled>>
tableVars  == <<in_use, slot_corr, decided>>
tuiVars    == <<in_flight, pending, yes, no, shown>>
vars == <<threadVars, tableVars, touched, toBackend, toTui, tuiVars>>

Slots == 1..NSlots

\* Control points of a dispatch thread; "new" and "queued" come before it.
BeforeAsk == {"new", "queued", "start", "ask"}
Holding   == {"ask", "check", "wait", "release"}
Closing   == {"reply", "end", "done"}
PC        == BeforeAsk \cup Holding \cup {"act"} \cup Closing

ToBackendMsg == [type : {"WORKER_REQ", "APPROVAL_REP"}, corr : Ops, flag : BOOLEAN]
ToTuiMsg     == [type : {"APPROVAL_REQ", "WORKER_REP", "WORKER_END"},
                 corr : Ops, flag : BOOLEAN]

Msg(type, c, flag) == [type |-> type, corr |-> c, flag |-> flag]

TypeOK ==
    /\ pc \in [Ops -> PC]
    /\ slot \in [Ops -> Slots \cup {0}]
    /\ approved \in [Ops -> BOOLEAN]
    /\ success \in [Ops -> BOOLEAN]
    /\ signalled \subseteq Ops
    /\ in_use \in [Slots -> BOOLEAN]
    /\ slot_corr \in [Slots -> Ops \cup {NoCorr}]
    /\ decided \in [Slots -> {"pending", "approved", "denied"}]
    /\ touched \subseteq Ops
    /\ toBackend \in Seq(ToBackendMsg)
    /\ toTui \in Seq(ToTuiMsg)
    /\ in_flight \subseteq Ops
    /\ pending \in Ops \cup {NoCorr}
    /\ yes \subseteq Ops
    /\ no \subseteq Ops
    /\ shown \in [Ops -> {"none", "ok", "error"}]

Init ==
    /\ pc = [t \in Ops |-> "new"]
    /\ slot = [t \in Ops |-> 0]
    /\ approved = [t \in Ops |-> FALSE]
    /\ success = [t \in Ops |-> FALSE]
    /\ signalled = {}
    /\ in_use = [s \in Slots |-> FALSE]
    /\ slot_corr = [s \in Slots |-> NoCorr]
    /\ decided = [s \in Slots |-> "pending"]
    /\ touched = {}
    /\ toBackend = <<>>
    /\ toTui = <<>>
    /\ in_flight = {}
    /\ pending = NoCorr
    /\ yes = {}
    /\ no = {}
    /\ shown = [t \in Ops |-> "none"]

-----------------------------------------------------------------------------
(* The user and the TUI.                                                   *)

\* /fs create, write or delete: do_send_worker_req.
Submit(c) ==
    /\ pc[c] = "new"
    /\ pc' = [pc EXCEPT ![c] = "queued"]
    /\ in_flight' = in_flight \cup {c}
    /\ toBackend' = Append(toBackend, Msg("WORKER_REQ", c, FALSE))
    /\ UNCHANGED <<slot, approved, success, signalled, tableVars, touched,
                   toTui, pending, yes, no, shown>>

\* pending_approval_corr after an answer.  The faulty variant keeps the
\* prompt up, and a second key answers again.
PromptKept == pending
PromptCleared == NoCorr

\* Y or N while a prompt is up: the answer goes to whatever request the
\* prompt holds now, and the prompt is cleared.
PressKey(key) ==
    /\ pending # NoCorr
    /\ toBackend' = Append(toBackend, Msg("APPROVAL_REP", pending, key = "Y"))
    /\ yes' = IF key = "Y" THEN yes \cup {pending} ELSE yes
    /\ no' = IF key = "N" THEN no \cup {pending} ELSE no
    /\ pending' = PromptCleared
    /\ UNCHANGED <<threadVars, tableVars, touched, toTui, in_flight, shown>>

\* check_ipc takes one message.
TuiTakes(type) == toTui # <<>> /\ Head(toTui).type = type /\ toTui' = Tail(toTui)

\* MSG_APPROVAL_REQ: the new prompt takes the place of the one that is up.
ShowPrompt ==
    /\ TuiTakes("APPROVAL_REQ")
    /\ pending' = Head(toTui).corr
    /\ UNCHANGED <<threadVars, tableVars, touched, toBackend, in_flight, yes, no, shown>>

\* MSG_WORKER_REP
ShowResult ==
    /\ TuiTakes("WORKER_REP")
    /\ shown' = [shown EXCEPT ![Head(toTui).corr] =
                    IF Head(toTui).flag THEN "ok" ELSE "error"]
    /\ UNCHANGED <<threadVars, tableVars, touched, toBackend, in_flight, pending, yes, no>>

\* MSG_WORKER_END
CloseEntry ==
    /\ TuiTakes("WORKER_END")
    /\ in_flight' = in_flight \ {Head(toTui).corr}
    /\ UNCHANGED <<threadVars, tableVars, touched, toBackend, pending, yes, no, shown>>

-----------------------------------------------------------------------------
(* The backend's message loop.                                             *)

BackendTakes(type) ==
    toBackend # <<>> /\ Head(toBackend).type = type /\ toBackend' = Tail(toBackend)

\* bw_send_error.  The faulty variants close the entry before the result, and
\* not at all.
ErrorReplySwapped(c) ==
    Append(Append(toTui, Msg("WORKER_END", c, FALSE)), Msg("WORKER_REP", c, FALSE))
ErrorReplyUnclosed(c) == Append(toTui, Msg("WORKER_REP", c, FALSE))
ErrorReply(c) ==
    Append(Append(toTui, Msg("WORKER_REP", c, FALSE)), Msg("WORKER_END", c, FALSE))

\* bw_dispatch_msg: a detached thread takes the request, or there is no
\* worker or no thread and the loop itself sends the error.
Dispatch ==
    /\ BackendTakes("WORKER_REQ")
    /\ LET c == Head(toBackend).corr
       IN  \/ /\ pc' = [pc EXCEPT ![c] = "start"]
              /\ UNCHANGED toTui
           \/ /\ pc' = [pc EXCEPT ![c] = "done"]
              /\ toTui' = ErrorReply(c)
    /\ UNCHANGED <<slot, approved, success, signalled, tableVars, touched, tuiVars>>

\* The slot that bw_notify_approval finds for a corr_id: the first match.
Matches(s, c) == in_use[s] /\ slot_corr[s] = c

\* The thread pthread_cond_signal wakes: the slot's owner, if it waits.  The
\* faulty variant stores the decision and signals nobody.
NobodyWoken(s) == {}
Woken(s) == {t \in Ops : pc[t] = "wait" /\ slot[t] = s}

\* bw_notify_approval: record the decision in the request's slot and signal
\* its owner; an answer whose slot is gone is dropped.
Notify ==
    /\ BackendTakes("APPROVAL_REP")
    /\ LET c == Head(toBackend).corr
       IN  \/ /\ \A s \in Slots : ~Matches(s, c)
              /\ UNCHANGED <<decided, signalled>>
           \/ \E s \in Slots :
                /\ Matches(s, c)
                /\ \A r \in Slots : r < s => ~Matches(r, c)
                /\ decided' = [decided EXCEPT ![s] =
                                 IF Head(toBackend).flag THEN "approved" ELSE "denied"]
                /\ signalled' = signalled \cup Woken(s)
    /\ UNCHANGED <<pc, slot, approved, success, in_use, slot_corr, touched, toTui, tuiVars>>

-----------------------------------------------------------------------------
(* A dispatch thread: op_create_file, op_modify_file, op_delete_file with  *)
(* bw_request_approval.                                                    *)

Goto(t, from, to) == pc[t] = from /\ pc' = [pc EXCEPT ![t] = to]

\* Missing path, path outside the sandbox, file exists (create) or does not
\* (modify, delete): an error, without asking.
RejectArgs(t) ==
    /\ Goto(t, "start", "reply")
    /\ UNCHANGED <<slot, approved, success, signalled, tableVars, touched,
                   toBackend, toTui, tuiVars>>

\* What a claimed slot's decided starts as.  The faulty variant leaves what
\* the last owner's answer stored there.
StaleDecision(s) == decided[s]
FreshDecision(s) == "pending"

\* Index of the claimed slot, counted from 1; the faulty variant is one off.
SlotIndexOffByOne(s) == s + 1
SlotIndex(s) == s

\* The first free slot, under approvals_mu.
ClaimSlot(t) ==
    /\ Goto(t, "start", "ask")
    /\ \E s \in Slots :
         /\ ~in_use[s]
         /\ \A r \in Slots : r < s => in_use[r]
         /\ slot' = [slot EXCEPT ![t] = SlotIndex(s)]
         /\ in_use' = [in_use EXCEPT ![s] = TRUE]
         /\ slot_corr' = [slot_corr EXCEPT ![s] = t]
         /\ decided' = [decided EXCEPT ![s] = FreshDecision(s)]
    /\ UNCHANGED <<approved, success, signalled, touched, toBackend, toTui, tuiVars>>

\* No free slot: denied without asking.
TableFull(t) ==
    /\ Goto(t, "start", "reply")
    /\ \A s \in Slots : in_use[s]
    /\ UNCHANGED <<slot, approved, success, signalled, tableVars, touched,
                   toBackend, toTui, tuiVars>>

SendApprovalReq(t) ==
    /\ Goto(t, "ask", "check")
    /\ toTui' = Append(toTui, Msg("APPROVAL_REQ", t, FALSE))
    /\ UNCHANGED <<slot, approved, success, signalled, tableVars, touched,
                   toBackend, tuiVars>>

\* slot->decided == 1.  The faulty variant takes any decision for a yes.
AnyDecision(d) == d # "pending"
Verdict(d) == d = "approved"

\* The test of the wait loop, under the slot's mu.
Decided(t) ==
    /\ Goto(t, "check", "release")
    /\ decided[slot[t]] # "pending"
    /\ approved' = [approved EXCEPT ![t] = Verdict(decided[slot[t]])]
    /\ UNCHANGED <<slot, success, signalled, tableVars, touched, toBackend, toTui, tuiVars>>

Undecided(t) ==
    /\ Goto(t, "check", "wait")
    /\ decided[slot[t]] = "pending"
    /\ UNCHANGED <<slot, approved, success, signalled, tableVars, touched,
                   toBackend, toTui, tuiVars>>

\* The wait returns 0: signalled, or for no reason, which POSIX allows.  On
\* Windows the thread polls.
Wake(t) ==
    /\ Goto(t, "wait", "check")
    /\ signalled' = signalled \ {t}
    /\ UNCHANGED <<slot, approved, success, tableVars, touched, toBackend, toTui, tuiVars>>

\* The wait returns ETIMEDOUT: denied, whatever bw_notify_approval stored
\* before the thread had the mutex back.
TimeOut(t) ==
    /\ HasTimeout
    /\ Goto(t, "wait", "release")
    /\ decided' = [decided EXCEPT ![slot[t]] = "denied"]
    /\ approved' = [approved EXCEPT ![t] = FALSE]
    /\ signalled' = signalled \ {t}
    /\ UNCHANGED <<slot, success, in_use, slot_corr, touched, toBackend, toTui, tuiVars>>

\* The branch on bw_request_approval's result; the faulty variant has none.
UnguardedBranch(t) == "act"
ApprovalBranch(t) == IF approved[t] THEN "act" ELSE "reply"

\* in_use of the slot when its owner leaves; the faulty variant gives the
\* slot back only after an approval.
KeptIfDenied(t) == ~approved[t]
InUseAfter(t) == FALSE

\* bw_request_approval returns.
ReleaseSlot(t) ==
    /\ Goto(t, "release", ApprovalBranch(t))
    /\ in_use' = [in_use EXCEPT ![slot[t]] = InUseAfter(t)]
    /\ slot' = [slot EXCEPT ![t] = 0]
    /\ UNCHANGED <<approved, success, signalled, slot_corr, decided, touched,
                   toBackend, toTui, tuiVars>>

\* The file operation, which may fail.
Perform(t) ==
    /\ Goto(t, "act", "reply")
    /\ touched' = touched \cup {t}
    /\ \E ok \in BOOLEAN : success' = [success EXCEPT ![t] = ok]
    /\ UNCHANGED <<slot, approved, signalled, tableVars, toBackend, toTui, tuiVars>>

\* bw_send_result: two messages, and another thread may send in between.
SendRep(t) ==
    /\ Goto(t, "reply", "end")
    /\ toTui' = Append(toTui, Msg("WORKER_REP", t, success[t]))
    /\ UNCHANGED <<slot, approved, success, signalled, tableVars, touched,
                   toBackend, tuiVars>>

SendEnd(t) ==
    /\ Goto(t, "end", "done")
    /\ toTui' = Append(toTui, Msg("WORKER_END", t, FALSE))
    /\ UNCHANGED <<slot, approved, success, signalled, tableVars, touched,
                   toBackend, tuiVars>>

-----------------------------------------------------------------------------

ThreadStep(t) ==
    \/ RejectArgs(t) \/ ClaimSlot(t) \/ TableFull(t) \/ SendApprovalReq(t)
    \/ Decided(t) \/ Undecided(t) \/ Wake(t) \/ TimeOut(t) \/ ReleaseSlot(t)
    \/ Perform(t) \/ SendRep(t) \/ SendEnd(t)

TuiReceives == ShowPrompt \/ ShowResult \/ CloseEntry
LoopReceives == Dispatch \/ Notify

Next ==
    \/ \E c \in Ops : Submit(c)
    \/ \E key \in {"Y", "N"} : PressKey(key)
    \/ TuiReceives
    \/ LoopReceives
    \/ \E t \in Ops : ThreadStep(t)

Spec == Init /\ [][Next]_vars

\* A thread that is not waiting runs on; a signalled (or, on Windows,
\* polling) waiter gets the mutex back.
ThreadRuns(t) == ThreadStep(t) /\ ~(pc[t] = "wait")
WaiterRuns(t) == Wake(t) /\ (t \in signalled \/ ~HasTimeout)

\* The TUI reads whenever getch() times out and the loop polls every 20 ms.
Scheduling ==
    /\ WF_vars(TuiReceives)
    /\ WF_vars(LoopReceives)
    /\ \A t \in Ops : WF_vars(ThreadRuns(t)) /\ WF_vars(WaiterRuns(t))

\* The deadline is absolute and computed once, so a thread that keeps
\* waiting, however often it wakes, is timed out.
Deadline == \A t \in Ops : SF_vars(TimeOut(t))

\* The scheduled system.  The clock's fairness is left to the properties that
\* need it, so that the others show what answers alone bring about.
FairSpec == Spec /\ Scheduling

-----------------------------------------------------------------------------
(* Properties.                                                             *)

\* A file is touched only for a request whose own prompt was answered Y
\* (fs_worker.c acts only on bw_request_approval's 1).
PerformedOnlyIfApproved == touched \subseteq yes

\* An answer of N is final: the request is not performed, whatever else is
\* on its way through the slots and the queues.
NoMeansNo == touched \cap no = {}

\* A decision found in a slot was made for the request that owns the slot
\* now, never for an earlier owner whose answer came late.
DecisionIsOwners ==
    \A s \in Slots : in_use[s] =>
        /\ decided[s] = "approved" => slot_corr[s] \in yes
        /\ slot_corr[s] \in Ops
        /\ slot[slot_corr[s]] = s

\* No slot leaks: a used slot belongs to a thread inside bw_request_approval
\* that will give it back; a leaked one would shrink the table for good.
SlotsReturned ==
    \A s \in Slots : in_use[s] =>
        \E t \in Ops : slot[t] = s /\ slot_corr[s] = t /\ pc[t] \in Holding

\* What the user reads is what happened: "ok" only for a file operation that
\* was carried out, and an entry is closed only after its result was shown.
ReportTruthful ==
    \A c \in Ops :
        /\ shown[c] = "ok" => c \in touched
        /\ pc[c] # "new" /\ c \notin in_flight => shown[c] # "none"

\* Every request is closed in the TUI in the end: answered, timed out, table
\* full or rejected (backend_worker.h:118, "waits up to 30 seconds").
EveryRequestCloses ==
    Deadline => \A c \in Ops : c \in in_flight ~> c \notin in_flight

\* No wake-up is lost: an answer recorded for a waiter takes it out of the
\* wait loop even if the clock never does (no Deadline here).
AnswerReleasesWaiter ==
    \A t \in Ops :
        (pc[t] \in {"check", "wait"} /\ decided[slot[t]] # "pending")
            ~> pc[t] \in {"act"} \cup Closing

-----------------------------------------------------------------------------
(* Refinement of the abstract gate.                                        *)

StatusOf(c) ==
    IF c \in touched THEN "performed"
    ELSE IF pc[c] = "new" THEN "idle"
    ELSE IF pc[c] \in Closing THEN "denied"
    ELSE "open"

Gate == INSTANCE ApprovalGate WITH status <- [c \in Ops |-> StatusOf(c)]

\* The bus implements the gate...
GateSpec == Gate!Spec
\* ... and, given the clock, the gate's fairness.
GateFairSpec == Gate!Spec /\ (Deadline => Gate!Fairness)
=============================================================================
