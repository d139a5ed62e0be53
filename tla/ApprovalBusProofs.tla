------------------------- MODULE ApprovalBusProofs -------------------------
(***************************************************************************)
(* Proofs about ApprovalBus, for any number of requests and of slots, with *)
(* and without the timeout.  The inductive invariant is built in layers:   *)
(*   TypeOK                                                                *)
(*   QueueInv   a queued WORKER_REQ is the only one of its request, whose  *)
(*              thread does not exist yet                                  *)
(*   SlotInv    used slots and threads inside bw_request_approval are      *)
(*              paired one to one                                          *)
(*   PromptInv  every request has at most one prompt, in the queue or on   *)
(*              the screen, and is answered at most once                   *)
(*   AuthInv    wherever a yes is stored or under way, the user gave it    *)
(*   ReportInv  a result on its way is true, and a request is closed only  *)
(*              behind its result                                          *)
(***************************************************************************)
EXTENDS ApprovalBus, SequenceTheorems, TLAPS

\* No two messages of this type in s are about the same request.
Distinct(s, type) ==
    \A i, j \in 1..Len(s) :
        s[i].type = type /\ s[j].type = type /\ s[i].corr = s[j].corr => i = j

QueueInv ==
    /\ \A i \in 1..Len(toBackend) :
         toBackend[i].type = "WORKER_REQ" => pc[toBackend[i].corr] = "queued"
    /\ Distinct(toBackend, "WORKER_REQ")

SlotInv ==
    /\ \A t \in Ops : pc[t] \in Holding =>
         slot[t] \in Slots /\ in_use[slot[t]] /\ slot_corr[slot[t]] = t
    /\ \A s \in Slots : in_use[s] =>
         slot_corr[s] \in Ops /\ pc[slot_corr[s]] \in Holding /\ slot[slot_corr[s]] = s

\* The requests whose prompt was sent, or that will never have one.
AskedOps == {c \in Ops : pc[c] \notin BeforeAsk}

\* The prompts in the queue q are of asked and unanswered requests, none of
\* which is on the screen, and no two are of the same request.
OpenPrompts(q, asked, answered, onScreen) ==
    /\ \A i \in 1..Len(q) : q[i].type = "APPROVAL_REQ" =>
         q[i].corr \in asked \ answered /\ q[i].corr # onScreen
    /\ Distinct(q, "APPROVAL_REQ")

PromptInv ==
    /\ OpenPrompts(toTui, AskedOps, yes \cup no, pending)
    /\ pending # NoCorr => pending \in AskedOps \ (yes \cup no)
    /\ yes \cup no \subseteq AskedOps
    /\ yes \cap no = {}

AuthInv ==
    /\ \A i \in 1..Len(toBackend) :
         toBackend[i].type = "APPROVAL_REP" /\ toBackend[i].flag => toBackend[i].corr \in yes
    /\ \A s \in Slots : in_use[s] /\ decided[s] = "approved" => slot_corr[s] \in yes
    /\ \A t \in Ops : approved[t] => t \in yes
    /\ \A t \in Ops : pc[t] = "act" => approved[t]
    /\ touched \subseteq yes
    /\ \A t \in touched : pc[t] \in Closing

IInv == TypeOK /\ QueueInv /\ SlotInv /\ PromptInv /\ AuthInv

-----------------------------------------------------------------------------
(* Queues.                                                                 *)

\* The queues hold messages with these fields.
AnyMsg == ToBackendMsg \cup ToTuiMsg

\* What taking the head of a queue leaves.
LEMMA TailElements ==
    ASSUME NEW S, NEW s \in Seq(S), s # <<>>
    PROVE  /\ Tail(s) \in Seq(S)
           /\ Head(s) \in S
           /\ Head(s) = s[1]
           /\ Len(s) \in Nat \ {0}
           /\ Len(Tail(s)) = Len(s) - 1
           /\ \A i \in 1..Len(Tail(s)) : Tail(s)[i] = s[i + 1] /\ i + 1 \in 1..Len(s)
  OBVIOUS

\* What appending to a queue adds.
LEMMA AppendElements ==
    ASSUME NEW S, NEW s \in Seq(S), NEW m \in S
    PROVE  /\ Append(s, m) \in Seq(S)
           /\ Len(Append(s, m)) = Len(s) + 1
           /\ Len(s) \in Nat
           /\ \A i \in 1..Len(s) : Append(s, m)[i] = s[i]
           /\ Append(s, m)[Len(s) + 1] = m
  OBVIOUS

\* Taking a message off a queue repeats none, and the taken one is gone.
LEMMA DistinctTail ==
    ASSUME NEW S, NEW s \in Seq(S), s # <<>>, NEW type, Distinct(s, type)
    PROVE  /\ Distinct(Tail(s), type)
           /\ Head(s).type = type =>
                \A i \in 1..Len(Tail(s)) :
                   Tail(s)[i].type = type => Tail(s)[i].corr # Head(s).corr
<1>1. /\ Len(s) \in Nat \ {0}
      /\ Len(Tail(s)) = Len(s) - 1
      /\ Head(s) = s[1]
      /\ \A i \in 1..Len(Tail(s)) : Tail(s)[i] = s[i + 1] /\ i + 1 \in 1..Len(s)
  BY TailElements
<1>2. Distinct(Tail(s), type)
  BY <1>1 DEF Distinct
<1>3. ASSUME Head(s).type = type, NEW i \in 1..Len(Tail(s)), Tail(s)[i].type = type
      PROVE  Tail(s)[i].corr # Head(s).corr
  <2>1. 1 \in 1..Len(s) /\ i + 1 \in 1..Len(s) /\ i + 1 # 1
    BY <1>1
  <2>2. QED
    BY <2>1, <1>1, <1>3 DEF Distinct
<1>4. QED
  BY <1>2, <1>3

\* Appending a message about a new request, or of another type, repeats none.
LEMMA DistinctAppend ==
    ASSUME NEW S, NEW s \in Seq(S), NEW m \in S, NEW type, Distinct(s, type),
           m.type = type =>
             \A i \in 1..Len(s) : s[i].type = type => s[i].corr # m.corr
    PROVE  Distinct(Append(s, m), type)
<1>1. /\ Len(s) \in Nat
      /\ Len(Append(s, m)) = Len(s) + 1
      /\ \A i \in 1..Len(s) : Append(s, m)[i] = s[i]
      /\ Append(s, m)[Len(s) + 1] = m
  BY AppendElements
<1>2. \A i \in 1..Len(Append(s, m)) : i \in 1..Len(s) \/ i = Len(s) + 1
  BY <1>1
<1>3. QED
  BY <1>1, <1>2 DEF Distinct

-----------------------------------------------------------------------------
(* Type correctness.                                                       *)

\* Message constructors build messages of the queues' types.
LEMMA MsgTypes ==
    ASSUME NEW c \in Ops, NEW b \in BOOLEAN
    PROVE  /\ Msg("WORKER_REQ", c, b) \in ToBackendMsg
           /\ Msg("APPROVAL_REP", c, b) \in ToBackendMsg
           /\ Msg("APPROVAL_REQ", c, b) \in ToTuiMsg
           /\ Msg("WORKER_REP", c, b) \in ToTuiMsg
           /\ Msg("WORKER_END", c, b) \in ToTuiMsg
  BY DEF Msg, ToBackendMsg, ToTuiMsg

\* No step of the threads, the loop, the TUI or the user breaks a type.
LEMMA TypeCorrectStep ==
    ASSUME TypeOK, [Next]_vars PROVE TypeOK'
<1> USE DEF TypeOK
<1> USE DEF threadVars, tableVars, tuiVars
<1>1. ASSUME NEW c \in Ops, Submit(c) PROVE TypeOK'
  <2>1. Msg("WORKER_REQ", c, FALSE) \in ToBackendMsg
    BY MsgTypes
  <2>2. toBackend' \in Seq(ToBackendMsg)
    BY <1>1, <2>1, AppendElements DEF Submit
  <2>3. QED
    BY <1>1, <2>2 DEF Submit, PC, BeforeAsk
<1>2. ASSUME NEW key \in {"Y", "N"}, PressKey(key) PROVE TypeOK'
  <2>1. pending \in Ops /\ (key = "Y") \in BOOLEAN
    BY <1>2 DEF PressKey
  <2>2. Msg("APPROVAL_REP", pending, key = "Y") \in ToBackendMsg
    BY <2>1, MsgTypes
  <2>3. toBackend' \in Seq(ToBackendMsg)
    BY <1>2, <2>2, AppendElements DEF PressKey
  <2>4. yes' \subseteq Ops /\ no' \subseteq Ops /\ pending' \in Ops \cup {NoCorr}
    BY <1>2, <2>1 DEF PressKey, PromptCleared
  <2>5. QED
    BY <1>2, <2>3, <2>4 DEF PressKey
<1>3. CASE ShowPrompt
  <2>1. Head(toTui) \in ToTuiMsg /\ toTui' \in Seq(ToTuiMsg)
    BY <1>3, TailElements DEF ShowPrompt, TuiTakes
  <2>2. Head(toTui).corr \in Ops
    BY <2>1 DEF ToTuiMsg
  <2>3. QED
    BY <1>3, <2>1, <2>2 DEF ShowPrompt
<1>4. CASE ShowResult
  BY <1>4, TailElements DEF ShowResult, TuiTakes, ToTuiMsg
<1>5. CASE CloseEntry
  BY <1>5, TailElements DEF CloseEntry, TuiTakes
<1>6. CASE Dispatch
  <2> DEFINE c == Head(toBackend).corr
  <2>1. Head(toBackend) \in ToBackendMsg /\ toBackend' \in Seq(ToBackendMsg)
    BY <1>6, TailElements DEF Dispatch, BackendTakes
  <2>2. c \in Ops
    BY <2>1 DEF ToBackendMsg
  <2>3. /\ Msg("WORKER_REP", c, FALSE) \in ToTuiMsg
        /\ Msg("WORKER_END", c, FALSE) \in ToTuiMsg
    BY <2>2, MsgTypes
  <2>4. ErrorReply(c) \in Seq(ToTuiMsg)
    <3>1. Append(toTui, Msg("WORKER_REP", c, FALSE)) \in Seq(ToTuiMsg)
      BY <2>3, AppendElements
    <3>2. QED
      BY <2>3, <3>1, AppendElements DEF ErrorReply
  <2>5. pc' \in [Ops -> PC] /\ toTui' \in Seq(ToTuiMsg)
    BY <1>6, <2>2, <2>4 DEF Dispatch, PC, BeforeAsk, Closing
  <2>6. QED
    BY <1>6, <2>1, <2>5 DEF Dispatch
<1>7. CASE Notify
  <2>1. toBackend' \in Seq(ToBackendMsg)
    BY <1>7, TailElements DEF Notify, BackendTakes
  <2>2. QED
    BY <1>7, <2>1 DEF Notify, Woken
<1>8. ASSUME NEW t \in Ops, ThreadStep(t) PROVE TypeOK'
  <2>1. CASE RejectArgs(t)
    BY <2>1 DEF RejectArgs, Goto, PC, Closing
  <2>2. CASE ClaimSlot(t)
    BY <2>2 DEF ClaimSlot, Goto, PC, BeforeAsk, SlotIndex, FreshDecision
  <2>3. CASE TableFull(t)
    BY <2>3 DEF TableFull, Goto, PC, Closing
  <2>4. CASE SendApprovalReq(t)
    <3>1. Msg("APPROVAL_REQ", t, FALSE) \in ToTuiMsg
      BY MsgTypes
    <3>2. toTui' \in Seq(ToTuiMsg)
      BY <2>4, <3>1, AppendElements DEF SendApprovalReq
    <3>3. QED
      BY <2>4, <3>2 DEF SendApprovalReq, Goto, PC, Holding
  <2>5. CASE Decided(t)
    BY <2>5 DEF Decided, Goto, PC, Holding, Verdict
  <2>6. CASE Undecided(t)
    BY <2>6 DEF Undecided, Goto, PC, Holding
  <2>7. CASE Wake(t)
    BY <2>7 DEF Wake, Goto, PC, Holding
  <2>8. CASE TimeOut(t)
    BY <2>8 DEF TimeOut, Goto, PC, Holding
  <2>9. CASE ReleaseSlot(t)
    BY <2>9 DEF ReleaseSlot, Goto, PC, Closing, ApprovalBranch, InUseAfter
  <2>10. CASE Perform(t)
    BY <2>10 DEF Perform, Goto, PC, Closing
  <2>11. CASE SendRep(t)
    <3>1. Msg("WORKER_REP", t, success[t]) \in ToTuiMsg
      BY MsgTypes
    <3>2. toTui' \in Seq(ToTuiMsg)
      BY <2>11, <3>1, AppendElements DEF SendRep
    <3>3. QED
      BY <2>11, <3>2 DEF SendRep, Goto, PC, Closing
  <2>12. CASE SendEnd(t)
    <3>1. Msg("WORKER_END", t, FALSE) \in ToTuiMsg
      BY MsgTypes
    <3>2. toTui' \in Seq(ToTuiMsg)
      BY <2>12, <3>1, AppendElements DEF SendEnd
    <3>3. QED
      BY <2>12, <3>2 DEF SendEnd, Goto, PC, Closing
  <2>13. QED
    BY <1>8, <2>1, <2>2, <2>3, <2>4, <2>5, <2>6, <2>7, <2>8, <2>9, <2>10,
       <2>11, <2>12 DEF ThreadStep
<1>9. CASE UNCHANGED vars
  BY <1>9 DEF vars
<1>10. QED
  BY <1>1, <1>2, <1>3, <1>4, <1>5, <1>6, <1>7, <1>8, <1>9
     DEF Next, TuiReceives, LoopReceives

\* Every variable keeps its type.
THEOREM TypeCorrect == Spec => []TypeOK
<1>1. Init => TypeOK
  BY OpsAssumption DEF Init, TypeOK, PC, BeforeAsk, ToBackendMsg, ToTuiMsg
<1>2. TypeOK /\ [Next]_vars => TypeOK'
  BY TypeCorrectStep
<1>3. QED
  BY <1>1, <1>2, PTL DEF Spec

-----------------------------------------------------------------------------
(* The layers of the invariant, one lemma each.                            *)

\* A thread moves only itself, from past the queue to past "start", and
\* leaves the queue to the backend and the TUI's own state alone.
LEMMA ThreadFrame ==
    ASSUME TypeOK, NEW t \in Ops, ThreadStep(t)
    PROVE  /\ \A c \in Ops \ {t} : pc'[c] = pc[c]
           /\ pc[t] \notin {"new", "queued", "done"}
           /\ pc'[t] \notin {"new", "queued", "start"}
           /\ pc'[t] \in BeforeAsk => pc[t] \in BeforeAsk
           /\ UNCHANGED <<toBackend, tuiVars>>
  BY DEF TypeOK, ThreadStep, Goto, BeforeAsk, ApprovalBranch, RejectArgs, ClaimSlot,
         TableFull, SendApprovalReq, Decided, Undecided, Wake, TimeOut, ReleaseSlot,
         Perform, SendRep, SendEnd

\* Queued messages are about requests.
LEMMA QueuedCorr ==
    ASSUME TypeOK
    PROVE  /\ \A i \in 1..Len(toBackend) : toBackend[i].corr \in Ops
           /\ \A i \in 1..Len(toTui) : toTui[i].corr \in Ops
<1>1. /\ \A i \in 1..Len(toBackend) : toBackend[i] \in ToBackendMsg
      /\ \A i \in 1..Len(toTui) : toTui[i] \in ToTuiMsg
  BY DEF TypeOK
<1>2. QED
  BY <1>1 DEF ToBackendMsg, ToTuiMsg

\* The head of the queue to the backend.
LEMMA BackendHead ==
    ASSUME TypeOK, NEW type, BackendTakes(type)
    PROVE  /\ Head(toBackend) \in ToBackendMsg
           /\ Head(toBackend).corr \in Ops
           /\ Head(toBackend) = toBackend[1]
           /\ 1 \in 1..Len(toBackend)
           /\ Len(toBackend') = Len(toBackend) - 1
           /\ \A i \in 1..Len(toBackend') :
                toBackend'[i] = toBackend[i + 1] /\ i + 1 \in 1..Len(toBackend)
<1>1. Head(toBackend) \in ToBackendMsg
  BY TailElements DEF TypeOK, BackendTakes
<1>2. QED
  BY <1>1, TailElements DEF TypeOK, BackendTakes, ToBackendMsg

\* Dispatching a request takes it out of "queued".
LEMMA DispatchHead ==
    ASSUME TypeOK, QueueInv, Dispatch
    PROVE  /\ Head(toBackend).corr \in Ops
           /\ pc[Head(toBackend).corr] = "queued"
  BY BackendHead DEF Dispatch, BackendTakes, QueueInv

\* Every step keeps the queues' invariant: a queued WORKER_REQ is the only one
\* of its request, whose thread does not exist yet.
LEMMA QueueStep ==
    ASSUME TypeOK, QueueInv, [Next]_vars PROVE QueueInv'
<1> USE DEF QueueInv
<1>1. ASSUME NEW c \in Ops, Submit(c) PROVE QueueInv'
  <2> DEFINE m == Msg("WORKER_REQ", c, FALSE)
  <2>1. m \in ToBackendMsg /\ m.type = "WORKER_REQ" /\ m.corr = c
    BY MsgTypes DEF Msg
  <2>2. \A i \in 1..Len(toBackend) : toBackend[i].type = "WORKER_REQ" => toBackend[i].corr # c
    BY <1>1 DEF Submit
  <2>3. toBackend \in Seq(ToBackendMsg) /\ toBackend' = Append(toBackend, m)
    BY <1>1 DEF Submit, TypeOK
  <2> HIDE DEF m
  <2>4. Distinct(toBackend', "WORKER_REQ")
    BY <2>1, <2>2, <2>3, DistinctAppend
  <2>5. ASSUME NEW i \in 1..Len(toBackend'), toBackend'[i].type = "WORKER_REQ"
        PROVE  pc'[toBackend'[i].corr] = "queued"
    <3>1. CASE i \in 1..Len(toBackend)
      <4>1. toBackend'[i] = toBackend[i]
        BY <3>1, <2>1, <2>3, AppendElements
      <4>2. toBackend[i].corr \in Ops \ {c} /\ pc[toBackend[i].corr] = "queued"
        BY <4>1, <3>1, <2>2, <2>5, QueuedCorr
      <4>3. QED
        BY <4>1, <4>2, <1>1 DEF Submit, TypeOK
    <3>2. CASE i = Len(toBackend) + 1
      <4>1. toBackend'[i] = m
        BY <3>2, <2>1, <2>3, AppendElements
      <4>2. pc'[c] = "queued"
        BY <1>1 DEF Submit, TypeOK
      <4>3. QED
        BY <4>1, <4>2, <2>1
    <3>3. Len(toBackend') = Len(toBackend) + 1 /\ Len(toBackend) \in Nat
      BY <2>1, <2>3, AppendElements
    <3>4. QED
      BY <3>1, <3>2, <3>3
  <2>6. QED
    BY <2>4, <2>5
<1>2. ASSUME NEW key \in {"Y", "N"}, PressKey(key) PROVE QueueInv'
  <2> DEFINE m == Msg("APPROVAL_REP", pending, key = "Y")
  <2>1. pending \in Ops /\ (key = "Y") \in BOOLEAN
    BY <1>2 DEF PressKey, TypeOK
  <2>2. m \in ToBackendMsg /\ m.type = "APPROVAL_REP"
    BY <2>1, MsgTypes DEF Msg
  <2>3. toBackend \in Seq(ToBackendMsg) /\ toBackend' = Append(toBackend, m) /\ pc' = pc
    BY <1>2 DEF PressKey, TypeOK, threadVars
  <2>4. Distinct(toBackend', "WORKER_REQ")
    BY <2>2, <2>3, DistinctAppend
  <2>5. \A i \in 1..Len(toBackend') : toBackend'[i].type = "WORKER_REQ" =>
          i \in 1..Len(toBackend) /\ toBackend'[i] = toBackend[i]
    BY <2>2, <2>3, AppendElements
  <2>6. QED
    BY <2>3, <2>4, <2>5
<1>3. CASE Dispatch
  <2> DEFINE c == Head(toBackend).corr
  <2>1. c \in Ops /\ pc[c] = "queued" /\ Head(toBackend).type = "WORKER_REQ"
    BY <1>3, DispatchHead DEF Dispatch, BackendTakes
  <2>2. \A d \in Ops \ {c} : pc'[d] = pc[d]
    BY <1>3, <2>1 DEF Dispatch, TypeOK
  <2>3. Distinct(toBackend', "WORKER_REQ") /\
        \A i \in 1..Len(toBackend') :
           toBackend'[i].type = "WORKER_REQ" => toBackend'[i].corr # c
    BY <1>3, <2>1, DistinctTail DEF Dispatch, BackendTakes, TypeOK
  <2>4. \A i \in 1..Len(toBackend') :
          toBackend'[i] = toBackend[i + 1] /\ i + 1 \in 1..Len(toBackend)
    BY <1>3, BackendHead DEF Dispatch
  <2>5. \A i \in 1..Len(toBackend') : toBackend'[i].corr \in Ops
    BY <2>4, QueuedCorr
  <2>6. QED
    BY <2>2, <2>3, <2>4, <2>5
<1>4. CASE Notify
  <2>1. Distinct(toBackend', "WORKER_REQ") /\ pc' = pc
    BY <1>4, DistinctTail DEF Notify, BackendTakes, TypeOK
  <2>2. \A i \in 1..Len(toBackend') :
          toBackend'[i] = toBackend[i + 1] /\ i + 1 \in 1..Len(toBackend)
    BY <1>4, BackendHead DEF Notify
  <2>3. QED
    BY <2>1, <2>2
<1>5. ASSUME NEW t \in Ops, ThreadStep(t) PROVE QueueInv'
  <2>1. \A i \in 1..Len(toBackend) : toBackend[i].corr \in Ops
    BY QueuedCorr
  <2>2. QED
    BY <1>5, <2>1, ThreadFrame DEF Distinct
<1>6. CASE TuiReceives
  BY <1>6 DEF TuiReceives, ShowPrompt, ShowResult, CloseEntry, threadVars, Distinct
<1>7. CASE UNCHANGED vars
  BY <1>7 DEF vars, threadVars, Distinct
<1>8. QED
  BY <1>1, <1>2, <1>3, <1>4, <1>5, <1>6, <1>7 DEF Next, LoopReceives

\* Steps that neither enter nor leave bw_request_approval keep the pairing.
LEMMA SlotFrame ==
    ASSUME TypeOK, SlotInv, UNCHANGED <<slot, in_use, slot_corr>>,
           \A c \in Ops : pc'[c] \in Holding <=> pc[c] \in Holding
    PROVE  SlotInv'
  BY DEF SlotInv

\* Every step keeps used slots and the threads in bw_request_approval paired.
LEMMA SlotStep ==
    ASSUME TypeOK, QueueInv, SlotInv, [Next]_vars PROVE SlotInv'
<1>1. ASSUME NEW c \in Ops, Submit(c) PROVE SlotInv'
  <2>1. \A d \in Ops : pc'[d] \in Holding <=> pc[d] \in Holding
    BY <1>1 DEF Submit, Holding, TypeOK
  <2>2. QED
    BY <1>1, <2>1, SlotFrame DEF Submit, tableVars
<1>2. CASE \/ \E key \in {"Y", "N"} : PressKey(key)
           \/ TuiReceives
           \/ UNCHANGED vars
  BY <1>2, SlotFrame DEF PressKey, TuiReceives, ShowPrompt, ShowResult, CloseEntry, vars,
                         threadVars, tableVars
<1>3. CASE Dispatch
  <2>1. pc[Head(toBackend).corr] = "queued" /\ Head(toBackend).corr \in Ops
    BY <1>3, DispatchHead
  <2>2. \A d \in Ops : pc'[d] \in Holding <=> pc[d] \in Holding
    BY <1>3, <2>1 DEF Dispatch, Holding, TypeOK
  <2>3. QED
    BY <1>3, <2>2, SlotFrame DEF Dispatch, tableVars
<1>4. CASE Notify
  BY <1>4, SlotFrame DEF Notify
<1>5. ASSUME NEW t \in Ops, ThreadStep(t) PROVE SlotInv'
  <2>1. CASE ClaimSlot(t)
    BY <2>1 DEF SlotInv, TypeOK, ClaimSlot, Goto, Holding, SlotIndex
  <2>2. CASE ReleaseSlot(t)
    BY <2>2 DEF SlotInv, TypeOK, ReleaseSlot, Goto, Holding, ApprovalBranch, InUseAfter
  <2>3. CASE RejectArgs(t) \/ TableFull(t) \/ Perform(t) \/ SendRep(t) \/ SendEnd(t)
    <3>1. \A d \in Ops : pc'[d] \in Holding <=> pc[d] \in Holding
      BY <2>3 DEF RejectArgs, TableFull, Perform, SendRep, SendEnd, Goto, Holding, TypeOK
    <3>2. QED
      BY <2>3, <3>1, SlotFrame
         DEF RejectArgs, TableFull, Perform, SendRep, SendEnd, tableVars
  <2>4. CASE SendApprovalReq(t) \/ Decided(t) \/ Undecided(t) \/ Wake(t) \/ TimeOut(t)
    <3>1. \A d \in Ops : pc'[d] \in Holding <=> pc[d] \in Holding
      BY <2>4 DEF SendApprovalReq, Decided, Undecided, Wake, TimeOut, Goto, Holding, TypeOK
    <3>2. QED
      BY <2>4, <3>1, SlotFrame
         DEF SendApprovalReq, Decided, Undecided, Wake, TimeOut, tableVars
  <2>5. QED
    BY <1>5, <2>1, <2>2, <2>3, <2>4 DEF ThreadStep
<1>6. QED
  BY <1>1, <1>2, <1>3, <1>4, <1>5 DEF Next, LoopReceives

\* More requests may become asked, and a message that is no prompt may join
\* the queue.
LEMMA PromptsWiden ==
    ASSUME NEW q, NEW asked, NEW wider, asked \subseteq wider, NEW answered, NEW p,
           OpenPrompts(q, asked, answered, p)
    PROVE  OpenPrompts(q, wider, answered, p)
  BY DEF OpenPrompts

\* A prompt for a request not asked before joins the queue: still at most one
\* prompt per request is open.
LEMMA PromptsAppend ==
    ASSUME NEW q \in Seq(ToTuiMsg), NEW m \in ToTuiMsg, NEW asked, NEW answered, NEW p,
           OpenPrompts(q, asked, answered, p),
           m.type = "APPROVAL_REQ" =>
             /\ m.corr \in asked \ answered
             /\ m.corr # p
             /\ \A i \in 1..Len(q) : q[i].type = "APPROVAL_REQ" => q[i].corr # m.corr
    PROVE  OpenPrompts(Append(q, m), asked, answered, p)
<1>1. Distinct(Append(q, m), "APPROVAL_REQ")
  BY DistinctAppend DEF OpenPrompts
<1>2. ASSUME NEW i \in 1..Len(Append(q, m)), Append(q, m)[i].type = "APPROVAL_REQ"
      PROVE  Append(q, m)[i].corr \in asked \ answered /\ Append(q, m)[i].corr # p
  <2>1. i \in 1..Len(q) \/ i = Len(q) + 1
    BY AppendElements
  <2>2. CASE i \in 1..Len(q)
    BY <1>2, <2>2, AppendElements DEF OpenPrompts
  <2>3. CASE i = Len(q) + 1
    BY <1>2, <2>3, AppendElements
  <2>4. QED
    BY <2>1, <2>2, <2>3
<1>3. QED
  BY <1>1, <1>2 DEF OpenPrompts

\* A prompt moves from the queue to the screen.
LEMMA PromptsTail ==
    ASSUME NEW q \in Seq(ToTuiMsg), q # <<>>, NEW asked, NEW answered, NEW p,
           OpenPrompts(q, asked, answered, p)
    PROVE  /\ OpenPrompts(Tail(q), asked, answered, p)
           /\ Head(q).type = "APPROVAL_REQ" =>
                /\ OpenPrompts(Tail(q), asked, answered, Head(q).corr)
                /\ Head(q).corr \in asked \ answered
<1>1. /\ Head(q) = q[1]
      /\ 1 \in 1..Len(q)
      /\ \A i \in 1..Len(Tail(q)) : Tail(q)[i] = q[i + 1] /\ i + 1 \in 1..Len(q)
  BY TailElements
<1>2. /\ Distinct(Tail(q), "APPROVAL_REQ")
      /\ Head(q).type = "APPROVAL_REQ" =>
           \A i \in 1..Len(Tail(q)) :
              Tail(q)[i].type = "APPROVAL_REQ" => Tail(q)[i].corr # Head(q).corr
  BY DistinctTail DEF OpenPrompts
<1>3. QED
  BY <1>1, <1>2 DEF OpenPrompts

\* Steps that touch neither the queue to the TUI nor the TUI.
LEMMA PromptFrame ==
    ASSUME PromptInv, AskedOps \subseteq AskedOps', UNCHANGED <<toTui, pending, yes, no>>
    PROVE  PromptInv'
<1>1. OpenPrompts(toTui, AskedOps', yes \cup no, pending)
  BY PromptsWiden DEF PromptInv
<1>2. QED
  BY <1>1 DEF PromptInv

\* A thread sends a message: only the prompt of a request not asked before
\* is a prompt.
LEMMA PromptSend ==
    ASSUME TypeOK, PromptInv, NEW m \in ToTuiMsg, toTui' = Append(toTui, m),
           AskedOps \subseteq AskedOps', UNCHANGED <<pending, yes, no>>,
           m.type = "APPROVAL_REQ" => m.corr \in AskedOps' \ AskedOps
    PROVE  PromptInv'
<1>1. OpenPrompts(toTui, AskedOps', yes \cup no, pending)
  BY PromptsWiden DEF PromptInv
<1>2. m.type = "APPROVAL_REQ" =>
        /\ m.corr \in AskedOps' \ (yes \cup no)
        /\ m.corr # pending
        /\ \A i \in 1..Len(toTui) : toTui[i].type = "APPROVAL_REQ" => toTui[i].corr # m.corr
  <2>1. m.corr \in Ops
    BY DEF ToTuiMsg
  <2>2. QED
    BY <2>1, OpsAssumption DEF PromptInv, OpenPrompts
<1>3. OpenPrompts(Append(toTui, m), AskedOps', yes \cup no, pending)
  BY <1>1, <1>2, PromptsAppend DEF TypeOK
<1>4. QED
  BY <1>3 DEF PromptInv

\* Every step keeps the prompts' invariant: an answered request has no prompt
\* left, so it is answered once.
LEMMA PromptStep ==
    ASSUME TypeOK, QueueInv, PromptInv, [Next]_vars PROVE PromptInv'
<1>1. ASSUME NEW c \in Ops, Submit(c) PROVE PromptInv'
  <2>1. AskedOps' = AskedOps
    BY <1>1 DEF Submit, AskedOps, BeforeAsk, TypeOK
  <2>2. QED
    BY <1>1, <2>1, PromptFrame DEF Submit
<1>2. ASSUME NEW key \in {"Y", "N"}, PressKey(key) PROVE PromptInv'
  <2>1. yes' \cup no' = yes \cup no \cup {pending} /\ yes' \cap no' = {}
    BY <1>2 DEF PressKey, PromptInv
  <2>2. AskedOps' = AskedOps /\ toTui' = toTui /\ pending' = NoCorr
    BY <1>2 DEF PressKey, PromptCleared, AskedOps, threadVars
  <2>3. \A i \in 1..Len(toTui) : toTui[i].corr # NoCorr
    BY QueuedCorr, OpsAssumption
  <2>4. OpenPrompts(toTui, AskedOps, yes' \cup no', NoCorr)
    BY <2>1, <2>3 DEF PromptInv, OpenPrompts
  <2>5. QED
    BY <1>2, <2>1, <2>2, <2>4 DEF PromptInv, PressKey
<1>3. CASE ShowPrompt
  <2>1. toTui # <<>> /\ Head(toTui).type = "APPROVAL_REQ" /\ toTui' = Tail(toTui)
    BY <1>3 DEF ShowPrompt, TuiTakes
  <2>2. AskedOps' = AskedOps /\ UNCHANGED <<yes, no>> /\ pending' = Head(toTui).corr
    BY <1>3 DEF ShowPrompt, AskedOps, threadVars
  <2>3. /\ OpenPrompts(Tail(toTui), AskedOps, yes \cup no, Head(toTui).corr)
        /\ Head(toTui).corr \in AskedOps \ (yes \cup no)
    BY <2>1, PromptsTail DEF TypeOK, PromptInv
  <2>4. QED
    BY <2>1, <2>2, <2>3 DEF PromptInv
<1>4. CASE ShowResult \/ CloseEntry
  <2>1. toTui # <<>> /\ toTui' = Tail(toTui)
    BY <1>4 DEF ShowResult, CloseEntry, TuiTakes
  <2>2. AskedOps' = AskedOps /\ UNCHANGED <<yes, no, pending>>
    BY <1>4 DEF ShowResult, CloseEntry, AskedOps, threadVars
  <2>3. OpenPrompts(Tail(toTui), AskedOps, yes \cup no, pending)
    BY <2>1, PromptsTail DEF TypeOK, PromptInv
  <2>4. QED
    BY <2>1, <2>2, <2>3 DEF PromptInv
<1>5. CASE Dispatch
  <2> DEFINE c == Head(toBackend).corr
             rep == Msg("WORKER_REP", c, FALSE)
             end == Msg("WORKER_END", c, FALSE)
  <2>1. c \in Ops /\ pc[c] = "queued"
    BY <1>5, DispatchHead
  <2>2. AskedOps \subseteq AskedOps'
    BY <1>5, <2>1 DEF Dispatch, AskedOps, BeforeAsk, TypeOK
  <2>3. UNCHANGED <<pending, yes, no>>
    BY <1>5 DEF Dispatch, tuiVars
  <2>4. /\ rep \in ToTuiMsg /\ rep.type # "APPROVAL_REQ"
        /\ end \in ToTuiMsg /\ end.type # "APPROVAL_REQ"
    BY <2>1, MsgTypes DEF Msg
  <2>5. toTui' = toTui \/ toTui' = Append(Append(toTui, rep), end)
    BY <1>5 DEF Dispatch, ErrorReply
  <2> HIDE DEF rep, end
  <2>6. Append(toTui, rep) \in Seq(ToTuiMsg)
    BY <2>4, AppendElements DEF TypeOK
  <2>7. OpenPrompts(Append(toTui, rep), AskedOps, yes \cup no, pending)
    BY <2>4, PromptsAppend DEF TypeOK, PromptInv
  <2>8. OpenPrompts(Append(Append(toTui, rep), end), AskedOps, yes \cup no, pending)
    BY <2>4, <2>6, <2>7, PromptsAppend
  <2>9. OpenPrompts(toTui', AskedOps', yes \cup no, pending)
    <3>1. OpenPrompts(toTui', AskedOps, yes \cup no, pending)
      BY <2>5, <2>8 DEF PromptInv
    <3>2. QED
      BY ONLY <2>2, <3>1, PromptsWiden
  <2>10. QED
    BY <2>2, <2>3, <2>9 DEF PromptInv
<1>6. CASE Notify
  BY <1>6, PromptFrame DEF Notify, AskedOps, tuiVars
<1>7. ASSUME NEW t \in Ops, ThreadStep(t) PROVE PromptInv'
  <2>1. AskedOps \subseteq AskedOps' /\ UNCHANGED <<pending, yes, no>>
    BY <1>7, ThreadFrame DEF AskedOps, tuiVars
  <2>2. CASE SendApprovalReq(t)
    <3> DEFINE m == Msg("APPROVAL_REQ", t, FALSE)
    <3>1. m \in ToTuiMsg /\ m.corr = t
      BY MsgTypes DEF Msg
    <3>2. t \in AskedOps' \ AskedOps
      BY <2>2 DEF SendApprovalReq, Goto, AskedOps, BeforeAsk, TypeOK
    <3>3. QED
      BY <2>1, <2>2, <3>1, <3>2, PromptSend DEF SendApprovalReq
  <2>3. CASE SendRep(t)
    <3> DEFINE m == Msg("WORKER_REP", t, success[t])
    <3>1. m \in ToTuiMsg /\ m.type # "APPROVAL_REQ"
      BY MsgTypes DEF Msg, TypeOK
    <3>2. QED
      BY <2>1, <2>3, <3>1, PromptSend DEF SendRep
  <2>4. CASE SendEnd(t)
    <3> DEFINE m == Msg("WORKER_END", t, FALSE)
    <3>1. m \in ToTuiMsg /\ m.type # "APPROVAL_REQ"
      BY MsgTypes DEF Msg
    <3>2. QED
      BY <2>1, <2>4, <3>1, PromptSend DEF SendEnd
  <2>5. CASE \/ RejectArgs(t) \/ ClaimSlot(t) \/ TableFull(t) \/ Decided(t) \/ Undecided(t)
             \/ Wake(t) \/ TimeOut(t) \/ ReleaseSlot(t) \/ Perform(t)
    <3>1. toTui' = toTui
      BY <2>5 DEF RejectArgs, ClaimSlot, TableFull, Decided, Undecided, Wake, TimeOut,
                  ReleaseSlot, Perform
    <3>2. QED
      BY <2>1, <3>1, PromptFrame
  <2>6. QED
    BY <1>7, <2>2, <2>3, <2>4, <2>5 DEF ThreadStep
<1>8. CASE UNCHANGED vars
  BY <1>8, PromptFrame DEF vars, threadVars, tuiVars, AskedOps
<1>9. QED
  BY <1>1, <1>2, <1>3, <1>4, <1>5, <1>6, <1>7, <1>8 DEF Next, TuiReceives, LoopReceives

\* Steps that leave the table, the verdicts and the effects alone, and do
\* not move a thread into "act" or out of Closing.
LEMMA AuthFrame ==
    ASSUME TypeOK, AuthInv,
           UNCHANGED <<in_use, slot_corr, decided, approved, touched>>, yes \subseteq yes',
           \A i \in 1..Len(toBackend') :
             toBackend'[i].type = "APPROVAL_REP" /\ toBackend'[i].flag
               => toBackend'[i].corr \in yes',
           \A c \in Ops : pc'[c] = "act" => pc[c] = "act",
           \A c \in Ops : pc[c] \in Closing => pc'[c] \in Closing
    PROVE  AuthInv'
  BY DEF AuthInv, TypeOK

\* Every step keeps the authorisation: a decision of approval, wherever it is
\* on its way to the file operation, goes back to the user's Y.
LEMMA AuthStep ==
    ASSUME TypeOK, QueueInv, SlotInv, AuthInv, [Next]_vars PROVE AuthInv'
<1>1. ASSUME NEW c \in Ops, Submit(c) PROVE AuthInv'
  <2> DEFINE m == Msg("WORKER_REQ", c, FALSE)
  <2>1. m \in ToBackendMsg /\ m.type # "APPROVAL_REP"
    BY MsgTypes DEF Msg
  <2>2. toBackend' = Append(toBackend, m) /\ UNCHANGED <<tableVars, approved, touched, yes>>
    BY <1>1 DEF Submit
  <2> HIDE DEF m
  <2>3. \A i \in 1..Len(toBackend') : toBackend'[i].type = "APPROVAL_REP" =>
          i \in 1..Len(toBackend) /\ toBackend'[i] = toBackend[i]
    BY <2>1, <2>2, AppendElements DEF TypeOK
  <2>4. /\ \A d \in Ops : pc'[d] = "act" => pc[d] = "act"
        /\ \A d \in Ops : pc[d] \in Closing => pc'[d] \in Closing
    BY <1>1 DEF Submit, TypeOK, Closing
  <2>5. \A i \in 1..Len(toBackend') :
          toBackend'[i].type = "APPROVAL_REP" /\ toBackend'[i].flag
            => toBackend'[i].corr \in yes'
    BY <2>2, <2>3 DEF AuthInv
  <2>6. QED
    BY <2>2, <2>4, <2>5, AuthFrame DEF tableVars
<1>2. ASSUME NEW key \in {"Y", "N"}, PressKey(key) PROVE AuthInv'
  <2> DEFINE m == Msg("APPROVAL_REP", pending, key = "Y")
  <2>1. pending \in Ops /\ (key = "Y") \in BOOLEAN
    BY <1>2 DEF PressKey, TypeOK
  <2>2. m \in ToBackendMsg /\ m.corr = pending /\ (m.flag <=> key = "Y")
    BY <2>1, MsgTypes DEF Msg
  <2>3. toBackend' = Append(toBackend, m) /\ UNCHANGED <<threadVars, tableVars, touched>>
    BY <1>2 DEF PressKey
  <2>4. yes \subseteq yes' /\ (key = "Y" => pending \in yes')
    BY <1>2 DEF PressKey
  <2> HIDE DEF m
  <2>5. \A i \in 1..Len(toBackend') :
          \/ i \in 1..Len(toBackend) /\ toBackend'[i] = toBackend[i]
          \/ toBackend'[i] = m
    BY <2>2, <2>3, AppendElements DEF TypeOK
  <2>6. \A i \in 1..Len(toBackend') :
          toBackend'[i].type = "APPROVAL_REP" /\ toBackend'[i].flag
            => toBackend'[i].corr \in yes'
    BY <2>2, <2>4, <2>5 DEF AuthInv
  <2>7. QED
    BY <2>3, <2>4, <2>6, AuthFrame DEF tableVars, threadVars
<1>3. CASE TuiReceives \/ UNCHANGED vars
  <2>1. UNCHANGED <<threadVars, tableVars, touched, toBackend, yes>>
    BY <1>3 DEF TuiReceives, ShowPrompt, ShowResult, CloseEntry, vars, tuiVars
  <2>2. QED
    BY <2>1, AuthFrame DEF tableVars, threadVars, AuthInv
<1>4. CASE Dispatch
  <2> DEFINE c == Head(toBackend).corr
  <2>1. c \in Ops /\ pc[c] = "queued"
    BY <1>4, DispatchHead
  <2>2. \A i \in 1..Len(toBackend') :
          toBackend'[i] = toBackend[i + 1] /\ i + 1 \in 1..Len(toBackend)
    BY <1>4, BackendHead DEF Dispatch
  <2>3. /\ \A d \in Ops : pc'[d] = "act" => pc[d] = "act"
        /\ \A d \in Ops : pc[d] \in Closing => pc'[d] \in Closing
    BY <1>4, <2>1 DEF Dispatch, TypeOK, Closing
  <2>4. UNCHANGED <<tableVars, approved, touched, yes>>
    BY <1>4 DEF Dispatch, tuiVars
  <2>5. \A i \in 1..Len(toBackend') :
          toBackend'[i].type = "APPROVAL_REP" /\ toBackend'[i].flag
            => toBackend'[i].corr \in yes'
    BY <2>2, <2>4 DEF AuthInv
  <2>6. QED
    BY <2>3, <2>4, <2>5, AuthFrame DEF tableVars
<1>5. CASE Notify
  <2> DEFINE m == Head(toBackend)
  <2>1. /\ m.corr \in Ops /\ (m.flag => m.corr \in yes)
        /\ \A i \in 1..Len(toBackend') :
             toBackend'[i] = toBackend[i + 1] /\ i + 1 \in 1..Len(toBackend)
    BY <1>5, BackendHead DEF Notify, BackendTakes, AuthInv
  <2>2. UNCHANGED <<pc, in_use, slot_corr, approved, touched, yes>>
    BY <1>5 DEF Notify, tuiVars
  <2>3. \A s \in Slots : decided'[s] = "approved" /\ in_use[s] => slot_corr[s] \in yes
    BY <1>5, <2>1 DEF Notify, Matches, AuthInv, TypeOK
  <2>4. QED
    BY <2>1, <2>2, <2>3 DEF AuthInv
<1>6. ASSUME NEW t \in Ops, ThreadStep(t) PROVE AuthInv'
  <2>1. UNCHANGED <<toBackend, yes>>
    BY <1>6, ThreadFrame DEF tuiVars
  <2>2. CASE ClaimSlot(t)
    BY <2>1, <2>2 DEF ClaimSlot, Goto, Closing, FreshDecision, AuthInv, TypeOK
  <2>3. CASE Decided(t)
    <3>1. decided[slot[t]] = "approved" => t \in yes
      BY <2>3 DEF Decided, Goto, Holding, SlotInv, AuthInv
    <3>2. QED
      BY <2>1, <2>3, <3>1 DEF Decided, Goto, Closing, Verdict, AuthInv, TypeOK, tableVars
  <2>4. CASE TimeOut(t)
    BY <2>1, <2>4 DEF TimeOut, Goto, Closing, AuthInv, TypeOK
  <2>5. CASE ReleaseSlot(t)
    BY <2>1, <2>5 DEF ReleaseSlot, Goto, Closing, ApprovalBranch, InUseAfter, AuthInv, TypeOK
  <2>6. CASE Perform(t)
    BY <2>1, <2>6 DEF Perform, Goto, Closing, AuthInv, TypeOK, tableVars
  <2>7. CASE \/ RejectArgs(t) \/ TableFull(t) \/ SendApprovalReq(t) \/ Undecided(t) \/ Wake(t)
             \/ SendRep(t) \/ SendEnd(t)
    <3>1. UNCHANGED <<tableVars, approved, touched>>
      BY <2>7 DEF RejectArgs, TableFull, SendApprovalReq, Undecided, Wake, SendRep, SendEnd
    <3>2. /\ \A d \in Ops : pc'[d] = "act" => pc[d] = "act"
          /\ \A d \in Ops : pc[d] \in Closing => pc'[d] \in Closing
      BY <2>7 DEF RejectArgs, TableFull, SendApprovalReq, Undecided, Wake, SendRep, SendEnd,
                  Goto, Closing, TypeOK
    <3>3. QED
      BY <2>1, <3>1, <3>2, AuthFrame DEF tableVars, AuthInv
  <2>8. QED
    BY <1>6, <2>2, <2>3, <2>4, <2>5, <2>6, <2>7 DEF ThreadStep
<1>7. QED
  BY <1>1, <1>2, <1>3, <1>4, <1>5, <1>6 DEF Next, LoopReceives

-----------------------------------------------------------------------------
(* The invariant and what follows from it.                                 *)

\* The layers together are inductive.
THEOREM Invariance == Spec => []IInv
<1>1. Init => IInv
  <2> USE DEF Init
  <2>1. Init => TypeOK
    BY OpsAssumption DEF TypeOK, PC, BeforeAsk, ToBackendMsg, ToTuiMsg
  <2>2. Init => QueueInv
    BY DEF QueueInv, Distinct
  <2>3. Init => SlotInv
    BY DEF SlotInv, Holding
  <2>4. Init => PromptInv
    BY DEF PromptInv, OpenPrompts, Distinct
  <2>5. Init => AuthInv
    BY DEF AuthInv
  <2>6. QED
    BY <2>1, <2>2, <2>3, <2>4, <2>5 DEF IInv
<1>2. IInv /\ [Next]_vars => IInv'
  BY TypeCorrectStep, QueueStep, SlotStep, PromptStep, AuthStep DEF IInv
<1>3. QED
  BY <1>1, <1>2, PTL DEF Spec

\* No file is touched without the user's Y to that very request.
THEOREM Authorised == Spec => []PerformedOnlyIfApproved
<1>1. IInv => PerformedOnlyIfApproved
  BY DEF IInv, AuthInv, PerformedOnlyIfApproved
<1>2. QED
  BY <1>1, Invariance, PTL

\* A request answered N is never performed.
THEOREM Refused == Spec => []NoMeansNo
<1>1. IInv => NoMeansNo
  BY DEF IInv, AuthInv, PromptInv, NoMeansNo
<1>2. QED
  BY <1>1, Invariance, PTL

\* Used slots and the threads inside bw_request_approval are paired: no slot
\* leaks, whether its owner was answered, timed out or never asked.
THEOREM SlotsPaired == Spec => []SlotsReturned
<1>1. IInv => SlotsReturned
  BY DEF IInv, SlotInv, SlotsReturned
<1>2. QED
  BY <1>1, Invariance, PTL

\* An approval stored in a used slot is the user's answer to the request that
\* owns the slot now, however late the answer to an earlier owner comes.
THEOREM DecisionsOwned == Spec => []DecisionIsOwners
<1>1. IInv => DecisionIsOwners
  BY DEF IInv, SlotInv, AuthInv, DecisionIsOwners
<1>2. QED
  BY <1>1, Invariance, PTL

-----------------------------------------------------------------------------
(* What the user is told of a request.                                     *)

\* The result of request c was shown already, or is in the queue q before
\* position n.
ToldBefore(q, c, n, results) ==
    \/ results[c] # "none"
    \/ \E j \in 1..Len(q) : j < n /\ q[j].type = "WORKER_REP" /\ q[j].corr = c

\* A success on its way is one of a file operation carried out, and a request
\* is closed only behind its result.
Reports(q, points, done, results) ==
    /\ \A i \in 1..Len(q) : q[i].type = "WORKER_REP" /\ q[i].flag => q[i].corr \in done
    /\ \A i \in 1..Len(q) : q[i].type = "WORKER_END" => ToldBefore(q, q[i].corr, i, results)
    /\ \A c \in Ops : points[c] = "end" => ToldBefore(q, c, Len(q) + 1, results)

ReportInv ==
    /\ Reports(toTui, pc, touched, shown)
    /\ \A c \in Ops : success[c] => c \in touched
    /\ ReportTruthful

\* Steps that send and show nothing.
LEMMA ReportsSame ==
    ASSUME NEW q, NEW points, NEW points2, NEW done, NEW done2, done \subseteq done2, NEW results,
           Reports(q, points, done, results),
           \A c \in Ops : points2[c] = "end" => points[c] = "end"
    PROVE  Reports(q, points2, done2, results)
  BY DEF Reports

\* A message is sent: a result, or the end behind a result.
LEMMA ReportsAppend ==
    ASSUME NEW q \in Seq(ToTuiMsg), NEW m \in ToTuiMsg, NEW points, NEW points2, NEW done,
           NEW results, Reports(q, points, done, results),
           m.type = "WORKER_REP" /\ m.flag => m.corr \in done,
           m.type = "WORKER_END" => ToldBefore(q, m.corr, Len(q) + 1, results),
           \A c \in Ops : points2[c] = "end" =>
             points[c] = "end" \/ (m.type = "WORKER_REP" /\ m.corr = c)
    PROVE  Reports(Append(q, m), points2, done, results)
<1> PICK r : r = Append(q, m)
  OBVIOUS
<1>1. /\ Len(r) = Len(q) + 1 /\ Len(q) \in Nat
      /\ \A i \in 1..Len(q) : r[i] = q[i]
      /\ r[Len(q) + 1] = m
  BY AppendElements
<1>2. \A i \in 1..Len(r) : i \in 1..Len(q) \/ i = Len(q) + 1
  BY <1>1
<1>3. ASSUME NEW c, NEW n \in Nat, ToldBefore(q, c, n, results)
      PROVE  ToldBefore(r, c, n, results)
  BY <1>1, <1>3 DEF ToldBefore
<1>4. ASSUME NEW i \in 1..Len(r), r[i].type = "WORKER_REP", r[i].flag
      PROVE  r[i].corr \in done
  BY <1>1, <1>2, <1>4 DEF Reports
<1>5. ASSUME NEW i \in 1..Len(r), r[i].type = "WORKER_END"
      PROVE  ToldBefore(r, r[i].corr, i, results)
  <2>1. i \in Nat
    BY <1>1
  <2>2. ToldBefore(q, r[i].corr, i, results)
    BY <1>1, <1>2, <1>5 DEF Reports
  <2> QED
    BY <1>3, <2>1, <2>2
<1>6. ASSUME NEW c \in Ops, points2[c] = "end"
      PROVE  ToldBefore(r, c, Len(r) + 1, results)
  <2>1. CASE points[c] = "end"
    <3>1. ToldBefore(q, c, Len(q) + 1, results) /\ Len(q) + 1 \in Nat
      BY <1>1, <2>1 DEF Reports
    <3>2. ToldBefore(r, c, Len(q) + 1, results)
      BY <1>3, <3>1
    <3> QED
      BY <1>1, <3>2 DEF ToldBefore
  <2>2. CASE m.type = "WORKER_REP" /\ m.corr = c
    BY <1>1, <2>2 DEF ToldBefore
  <2> QED
    BY <1>6, <2>1, <2>2
<1> QED
  BY <1>4, <1>5, <1>6 DEF Reports

\* A message is taken; if it is a result, it is shown.
LEMMA ReportsTail ==
    ASSUME NEW q \in Seq(ToTuiMsg), q # <<>>, NEW points, NEW done, NEW results, NEW results2,
           Reports(q, points, done, results),
           \A c \in Ops : results[c] # "none" => results2[c] # "none",
           Head(q).type = "WORKER_REP" => results2[Head(q).corr] # "none"
    PROVE  Reports(Tail(q), points, done, results2)
<1> PICK r : r = Tail(q)
  OBVIOUS
<1>1. /\ Len(q) \in Nat \ {0} /\ Len(r) = Len(q) - 1 /\ Head(q) = q[1]
      /\ \A i \in 1..Len(r) : r[i] = q[i + 1] /\ i + 1 \in 1..Len(q)
  BY TailElements
<1>2. \A i \in 1..Len(r) : r[i].corr \in Ops
  <2>1. \A i \in 1..Len(q) : q[i] \in ToTuiMsg
    OBVIOUS
  <2>2. \A i \in 1..Len(r) : r[i] \in ToTuiMsg
    BY <1>1, <2>1
  <2> QED
    BY <2>2 DEF ToTuiMsg
<1>3. ASSUME NEW c \in Ops, NEW n \in Nat, ToldBefore(q, c, n + 1, results)
      PROVE  ToldBefore(r, c, n, results2)
  <2>1. CASE results[c] # "none"
    BY <2>1 DEF ToldBefore
  <2>2. ASSUME NEW j \in 1..Len(q), j < n + 1, q[j].type = "WORKER_REP", q[j].corr = c
        PROVE  ToldBefore(r, c, n, results2)
    <3>1. CASE j = 1
      BY <1>1, <2>2, <3>1 DEF ToldBefore
    <3>2. CASE j # 1
      <4>1. j - 1 \in 1..Len(r) /\ j - 1 < n /\ r[j - 1] = q[j]
        BY <1>1, <2>2, <3>2
      <4> QED
        BY <2>2, <4>1 DEF ToldBefore
    <3> QED
      BY <3>1, <3>2
  <2> QED
    BY <1>3, <2>1, <2>2 DEF ToldBefore
<1>4. \A i \in 1..Len(r) : r[i].type = "WORKER_REP" /\ r[i].flag => r[i].corr \in done
  BY <1>1 DEF Reports
<1>5. ASSUME NEW i \in 1..Len(r), r[i].type = "WORKER_END"
      PROVE  ToldBefore(r, r[i].corr, i, results2)
  <2>1. ToldBefore(q, r[i].corr, i + 1, results) /\ i \in Nat
    BY <1>1, <1>5 DEF Reports
  <2> QED
    BY <1>2, <1>3, <2>1
<1>6. ASSUME NEW c \in Ops, points[c] = "end"
      PROVE  ToldBefore(r, c, Len(r) + 1, results2)
  <2>1. ToldBefore(q, c, Len(q) + 1, results) /\ Len(r) + 1 = Len(q)
    BY <1>1, <1>6 DEF Reports
  <2> QED
    BY <1>1, <1>3, <2>1
<1> QED
  BY <1>4, <1>5, <1>6 DEF Reports

\* Every step keeps what the user is told true.
LEMMA ReportStep ==
    ASSUME IInv, ReportInv, [Next]_vars PROVE ReportInv'
<1> USE DEF IInv
<1>1. ASSUME NEW c \in Ops, Submit(c) PROVE ReportInv'
  <2>1. /\ UNCHANGED <<toTui, touched, success, shown>> /\ in_flight' = in_flight \cup {c}
        /\ \A d \in Ops : pc'[d] = IF d = c THEN "queued" ELSE pc[d]
    BY <1>1 DEF Submit, TypeOK
  <2>2. Reports(toTui, pc', touched, shown)
    BY <2>1, ReportsSame DEF ReportInv
  <2> QED
    BY <2>1, <2>2 DEF ReportInv, ReportTruthful
<1>2. CASE (\E key \in {"Y", "N"} : PressKey(key)) \/ Notify \/ UNCHANGED vars
  <2>1. UNCHANGED <<pc, toTui, touched, success, shown, in_flight>>
    BY <1>2 DEF PressKey, Notify, vars, threadVars, tuiVars
  <2> QED
    BY <2>1 DEF ReportInv, ReportTruthful
<1>3. CASE ShowPrompt
  <2>1. /\ toTui # <<>> /\ Head(toTui).type = "APPROVAL_REQ" /\ toTui' = Tail(toTui)
        /\ UNCHANGED <<pc, success, touched, shown, in_flight>>
    BY <1>3 DEF ShowPrompt, TuiTakes, threadVars
  <2>2. Reports(toTui', pc, touched, shown)
    BY <2>1, ReportsTail DEF ReportInv, TypeOK
  <2> QED
    BY <2>1, <2>2 DEF ReportInv, ReportTruthful
<1>4. CASE ShowResult
  <2>1. /\ toTui # <<>> /\ Head(toTui).type = "WORKER_REP" /\ toTui' = Tail(toTui)
        /\ UNCHANGED <<pc, success, touched, in_flight>>
    BY <1>4 DEF ShowResult, TuiTakes, threadVars
  <2>2. PICK m : m = Head(toTui)
    OBVIOUS
  <2>3. /\ m \in ToTuiMsg /\ m = toTui[1] /\ 1 \in 1..Len(toTui)
    BY <2>1, <2>2, TailElements DEF TypeOK
  <2>4. m.corr \in Ops /\ (m.flag => m.corr \in touched)
    BY <2>1, <2>2, <2>3 DEF ToTuiMsg, ReportInv, Reports
  <2>5. \A c \in Ops : shown'[c] = IF c = m.corr THEN (IF m.flag THEN "ok" ELSE "error")
                                   ELSE shown[c]
    BY <1>4, <2>2 DEF ShowResult, TypeOK
  <2>6. Reports(toTui', pc, touched, shown')
    BY SMTT(30), <2>1, <2>2, <2>4, <2>5, ReportsTail DEF ReportInv, TypeOK
  <2> QED
    BY <2>1, <2>4, <2>5, <2>6 DEF ReportInv, ReportTruthful
<1>5. CASE CloseEntry
  <2>1. /\ toTui # <<>> /\ Head(toTui).type = "WORKER_END" /\ toTui' = Tail(toTui)
        /\ UNCHANGED <<pc, success, touched, shown>>
        /\ in_flight' = in_flight \ {Head(toTui).corr}
    BY <1>5 DEF CloseEntry, TuiTakes, threadVars
  <2>2. Reports(toTui', pc, touched, shown)
    BY <2>1, ReportsTail DEF ReportInv, TypeOK
  <2>3. Head(toTui) = toTui[1] /\ 1 \in 1..Len(toTui)
    BY <2>1, TailElements DEF TypeOK
  <2>4. shown[Head(toTui).corr] # "none"
    BY <2>1, <2>3 DEF ReportInv, Reports, ToldBefore
  <2> QED
    BY <2>1, <2>2, <2>4 DEF ReportInv, ReportTruthful
<1>6. CASE Dispatch
  <2> PICK c : c = Head(toBackend).corr
    OBVIOUS
  <2> PICK rep, end : rep = Msg("WORKER_REP", c, FALSE) /\ end = Msg("WORKER_END", c, FALSE)
    OBVIOUS
  <2>1. /\ c \in Ops /\ pc[c] = "queued"
        /\ \A d \in Ops : pc'[d] = "end" => pc[d] = "end"
        /\ \A d \in Ops : pc'[d] # "new" => pc[d] # "new"
        /\ UNCHANGED <<success, touched, shown, in_flight>>
        /\ toTui' = toTui \/ toTui' = Append(Append(toTui, rep), end)
    BY <1>6, DispatchHead DEF Dispatch, ErrorReply, TypeOK, tuiVars
  <2>2. /\ rep \in ToTuiMsg /\ rep.type = "WORKER_REP" /\ rep.corr = c /\ ~rep.flag
        /\ end \in ToTuiMsg /\ end.type = "WORKER_END" /\ end.corr = c
    BY <2>1, MsgTypes DEF Msg
  <2>3. Reports(toTui, pc', touched, shown) /\ toTui \in Seq(ToTuiMsg)
    BY <2>1, ReportsSame DEF ReportInv, TypeOK
  <2> PICK q : q = Append(toTui, rep)
    OBVIOUS
  <2>4. /\ q \in Seq(ToTuiMsg) /\ Len(q) = Len(toTui) + 1 /\ Len(toTui) \in Nat
        /\ q[Len(toTui) + 1] = rep
    BY ONLY <2>2, <2>3, q = Append(toTui, rep), AppendElements
  <2>5. Reports(q, pc', touched, shown)
    BY <2>2, <2>3, ReportsAppend
  <2>6. ToldBefore(q, c, Len(q) + 1, shown)
    <3>1. /\ Len(toTui) + 1 \in 1..Len(q) /\ Len(toTui) + 1 < Len(q) + 1
          /\ q[Len(toTui) + 1].type = "WORKER_REP" /\ q[Len(toTui) + 1].corr = c
      BY ONLY <2>2, <2>4
    <3> QED
      BY <3>1 DEF ToldBefore
  <2>7. Reports(Append(q, end), pc', touched, shown)
    BY <2>2, <2>4, <2>5, <2>6, ReportsAppend
  <2>8. Reports(toTui', pc', touched, shown)
    BY <2>1, <2>3, <2>7
  <2> QED
    BY <2>1, <2>8 DEF ReportInv, ReportTruthful
<1>7. ASSUME NEW t \in Ops, ThreadStep(t) PROVE ReportInv'
  <2>1. /\ \A c \in Ops \ {t} : pc'[c] = pc[c]
        /\ pc[t] # "new" /\ pc'[t] # "new"
        /\ UNCHANGED <<shown, in_flight>>
    BY <1>7, ThreadFrame DEF tuiVars
  <2>2. ASSUME Reports(toTui', pc', touched', shown), touched \subseteq touched',
               \A c \in Ops : success'[c] => c \in touched'
        PROVE  ReportInv'
    BY <2>1, <2>2 DEF ReportInv, ReportTruthful
  <2>3. CASE SendRep(t)
    <3> PICK m : m = Msg("WORKER_REP", t, success[t])
      OBVIOUS
    <3>1. m \in ToTuiMsg /\ m.type = "WORKER_REP" /\ m.corr = t /\ m.flag = success[t]
      BY MsgTypes DEF Msg, TypeOK
    <3>2. toTui' = Append(toTui, m) /\ UNCHANGED <<touched, success>> /\ toTui \in Seq(ToTuiMsg)
      BY <2>3 DEF SendRep, TypeOK
    <3>3. Reports(Append(toTui, m), pc', touched, shown)
      BY <2>1, <3>1, <3>2, ReportsAppend DEF ReportInv
    <3> QED
      BY <2>2, <3>2, <3>3 DEF ReportInv
  <2>4. CASE SendEnd(t)
    <3> PICK m : m = Msg("WORKER_END", t, FALSE)
      OBVIOUS
    <3>1. m \in ToTuiMsg /\ m.type = "WORKER_END" /\ m.corr = t
      BY MsgTypes DEF Msg
    <3>2. /\ toTui' = Append(toTui, m) /\ UNCHANGED <<touched, success>>
          /\ toTui \in Seq(ToTuiMsg) /\ pc[t] = "end" /\ pc'[t] = "done"
      BY <2>4 DEF SendEnd, Goto, TypeOK
    <3>3. ToldBefore(toTui, t, Len(toTui) + 1, shown)
      BY <3>2 DEF ReportInv, Reports
    <3>4. \A c \in Ops : pc'[c] = "end" => pc[c] = "end"
      BY <2>1, <3>2
    <3>5. Reports(Append(toTui, m), pc', touched, shown)
      BY <3>1, <3>2, <3>3, <3>4, ReportsAppend DEF ReportInv
    <3> QED
      BY <2>2, <3>2, <3>5 DEF ReportInv
  <2>5. CASE \/ RejectArgs(t) \/ ClaimSlot(t) \/ TableFull(t) \/ SendApprovalReq(t)
             \/ Decided(t) \/ Undecided(t) \/ Wake(t) \/ TimeOut(t) \/ ReleaseSlot(t)
             \/ Perform(t)
    <3>1. /\ touched \subseteq touched' /\ pc'[t] # "end"
          /\ \A c \in Ops : success'[c] => success[c] \/ c \in touched'
      BY <2>5 DEF RejectArgs, ClaimSlot, TableFull, SendApprovalReq, Decided, Undecided,
                  Wake, TimeOut, ReleaseSlot, Perform, Goto, ApprovalBranch, TypeOK
    <3>2. \A c \in Ops : success'[c] => c \in touched'
      BY <3>1 DEF ReportInv
    <3>3. \A c \in Ops : pc'[c] = "end" => pc[c] = "end"
      BY <2>1, <3>1
    <3>4. Reports(toTui, pc', touched', shown)
      BY <3>1, <3>3, ReportsSame DEF ReportInv
    <3>5. CASE toTui' = toTui
      BY <2>2, <3>1, <3>2, <3>4, <3>5
    <3>6. CASE SendApprovalReq(t)
      <4> PICK m : m = Msg("APPROVAL_REQ", t, FALSE)
        OBVIOUS
      <4>1. m \in ToTuiMsg /\ m.type = "APPROVAL_REQ"
        BY MsgTypes DEF Msg
      <4>2. toTui' = Append(toTui, m) /\ toTui \in Seq(ToTuiMsg)
        BY <3>6 DEF SendApprovalReq, TypeOK
      <4>3. Reports(Append(toTui, m), pc', touched', shown)
        BY <3>4, <4>1, <4>2, ReportsAppend
      <4> QED
        BY <2>2, <3>1, <3>2, <4>2, <4>3
    <3> QED
      BY <2>5, <3>5, <3>6 DEF RejectArgs, ClaimSlot, TableFull, Decided, Undecided, Wake,
                              TimeOut, ReleaseSlot, Perform
  <2> QED
    BY <1>7, <2>3, <2>4, <2>5 DEF ThreadStep
<1> QED
  BY <1>1, <1>2, <1>3, <1>4, <1>5, <1>6, <1>7 DEF Next, TuiReceives, LoopReceives

\* The user is told the truth: "ok" only for a file operation that was carried
\* out, and no request is closed before its result was shown, though other
\* threads send between the two messages of bw_send_result.
THEOREM ToldTheTruth == Spec => []ReportTruthful
<1>1. Init => ReportInv
  BY DEF Init, ReportInv, Reports, ReportTruthful
<1>2. IInv /\ ReportInv /\ [Next]_vars => ReportInv'
  BY ReportStep
<1>3. ReportInv => ReportTruthful
  BY DEF ReportInv
<1> QED
  BY <1>1, <1>2, <1>3, Invariance, PTL DEF Spec

-----------------------------------------------------------------------------
(* Refinement.                                                             *)

\* Steps that change neither what became of a request nor the answers.
LEMMA GateStutter ==
    ASSUME UNCHANGED <<yes, no>>, \A c \in Ops : StatusOf(c)' = StatusOf(c)
    PROVE  UNCHANGED Gate!vars
<1>1. [c \in Ops |-> StatusOf(c)'] = [c \in Ops |-> StatusOf(c)]
  OBVIOUS
<1>2. QED
  BY <1>1 DEF Gate!vars

\* One request changes its status, from what the gate allows.
LEMMA GateMove ==
    ASSUME UNCHANGED <<yes, no>>, NEW c \in Ops, \A d \in Ops \ {c} : StatusOf(d)' = StatusOf(d),
           \/ StatusOf(c) = "idle" /\ StatusOf(c)' = "open"
           \/ StatusOf(c) = "open" /\ StatusOf(c)' = "denied"
           \/ StatusOf(c) = "open" /\ StatusOf(c)' = "performed" /\ c \in yes
    PROVE  Gate!Next
<1> DEFINE st == [d \in Ops |-> StatusOf(d)]
<1>1. [d \in Ops |-> StatusOf(d)'] = [st EXCEPT ![c] = StatusOf(c)']
  OBVIOUS
<1>2. Gate!Request(c) \/ Gate!Deny(c) \/ Gate!Perform(c)
  BY <1>1 DEF Gate!Request, Gate!Deny, Gate!Perform
<1>3. QED
  BY <1>2 DEF Gate!Next

\* The approval bus implements the gate: every step of the threads, the
\* queues, the table and the user is a step of the gate or none at all.
THEOREM ImplementsGate == Spec => GateSpec
<1>1. Init => Gate!Init
  BY DEF Init, Gate!Init, StatusOf
<1>2. ASSUME IInv, [Next]_vars PROVE [Gate!Next]_(Gate!vars)
  <2> USE <1>2 DEF IInv
  <2>1. ASSUME NEW c \in Ops, Submit(c) PROVE Gate!Next
    <3>1. /\ \A d \in Ops \ {c} : StatusOf(d)' = StatusOf(d)
          /\ StatusOf(c) = "idle" /\ StatusOf(c)' = "open"
      BY <2>1 DEF Submit, StatusOf, TypeOK, AuthInv, Closing
    <3>2. QED
      BY <2>1, <3>1, GateMove DEF Submit
  <2>2. ASSUME NEW key \in {"Y", "N"}, PressKey(key) PROVE Gate!Next
    <3>1. pending \in Ops /\ StatusOf(pending) # "idle" /\ pending \notin yes \cup no
      BY <2>2 DEF PressKey, PromptInv, AskedOps, BeforeAsk, StatusOf
    <3>2. \A d \in Ops : StatusOf(d)' = StatusOf(d)
      BY <2>2 DEF PressKey, StatusOf, threadVars
    <3>3. \/ yes' = yes \cup {pending} /\ no' = no
          \/ no' = no \cup {pending} /\ yes' = yes
      BY <2>2 DEF PressKey
    <3>4. Gate!Answer(pending)
      BY <3>1, <3>2, <3>3 DEF Gate!Answer
    <3>5. QED
      BY <3>1, <3>4 DEF Gate!Next
  <2>3. CASE TuiReceives \/ Notify \/ UNCHANGED vars
    <3>1. UNCHANGED <<pc, touched, yes, no>>
      BY <2>3 DEF TuiReceives, ShowPrompt, ShowResult, CloseEntry, Notify, vars, threadVars,
                  tuiVars
    <3>2. QED
      BY <3>1, GateStutter DEF StatusOf
  <2>4. CASE Dispatch
    <3>0. PICK c \in Ops : c = Head(toBackend).corr
      BY <2>4, DispatchHead
    <3>1. pc[c] = "queued" /\ c \notin touched
      BY <2>4, <3>0, DispatchHead DEF AuthInv, Closing
    <3>2. /\ \A d \in Ops \ {c} : StatusOf(d)' = StatusOf(d)
          /\ StatusOf(c) = "open" /\ StatusOf(c)' \in {"open", "denied"}
      BY <2>4, <3>0, <3>1 DEF Dispatch, StatusOf, TypeOK, Closing
    <3>3. UNCHANGED <<yes, no>>
      BY <2>4 DEF Dispatch, tuiVars
    <3>4. CASE StatusOf(c)' = "open"
      BY <3>2, <3>3, <3>4, GateStutter
    <3>5. CASE StatusOf(c)' = "denied"
      BY <3>1, <3>2, <3>3, <3>5, GateMove
    <3>6. QED
      BY <3>2, <3>4, <3>5
  <2>5. ASSUME NEW t \in Ops, ThreadStep(t) PROVE [Gate!Next]_(Gate!vars)
    <3>1. UNCHANGED <<yes, no>> /\ \A d \in Ops \ {t} : pc'[d] = pc[d]
      BY <2>5, ThreadFrame DEF tuiVars
    <3>2. CASE Perform(t)
      <4>1. t \in yes /\ StatusOf(t) = "open" /\ StatusOf(t)' = "performed"
        BY <3>2 DEF Perform, Goto, AuthInv, Closing, StatusOf
      <4>2. \A d \in Ops \ {t} : StatusOf(d)' = StatusOf(d)
        BY <3>1, <3>2 DEF Perform, StatusOf
      <4>3. QED
        BY <3>1, <4>1, <4>2, GateMove
    <3>3. CASE \/ RejectArgs(t) \/ TableFull(t)
               \/ (ReleaseSlot(t) /\ ~approved[t])
      <4>1. touched' = touched /\ pc[t] \in {"start", "release"} /\ pc'[t] = "reply"
        BY <3>3 DEF RejectArgs, TableFull, ReleaseSlot, Goto, ApprovalBranch, TypeOK
      <4>2. \A d \in Ops \ {t} : StatusOf(d)' = StatusOf(d)
        BY <3>1, <4>1 DEF StatusOf
      <4>3. StatusOf(t) = "open" /\ StatusOf(t)' = "denied"
        BY <4>1 DEF StatusOf, AuthInv, Closing
      <4>4. QED
        BY <3>1, <4>2, <4>3, GateMove
    <3>4. CASE \/ ClaimSlot(t) \/ SendApprovalReq(t) \/ Decided(t) \/ Undecided(t) \/ Wake(t)
               \/ TimeOut(t) \/ (ReleaseSlot(t) /\ approved[t]) \/ SendRep(t) \/ SendEnd(t)
      <4>1. /\ touched' = touched /\ pc[t] # "new" /\ pc'[t] # "new"
            /\ pc'[t] \in Closing <=> pc[t] \in Closing
        BY <3>4 DEF ClaimSlot, SendApprovalReq, Decided, Undecided, Wake, TimeOut,
                    ReleaseSlot, SendRep, SendEnd, Goto, ApprovalBranch, TypeOK, Closing
      <4>2. \A d \in Ops : StatusOf(d)' = StatusOf(d)
        BY <3>1, <4>1 DEF StatusOf
      <4>3. QED
        BY <3>1, <4>2, GateStutter
    <3>5. QED
      BY <2>5, <3>2, <3>3, <3>4 DEF ThreadStep
  <2>6. QED
    BY <2>1, <2>2, <2>3, <2>4, <2>5 DEF Next, LoopReceives
<1>3. QED
  BY <1>1, <1>2, Invariance, PTL DEF Spec, GateSpec, Gate!Spec
=============================================================================
